----------------------------- MODULE FileQueue -----------------------------
(***************************************************************************)
(* FileQueue (packages/fs/src/filequeue.ts): one file per message in a     *)
(* folder that several processes may share, and a lock file beside each    *)
(* message that has been handed out.                                       *)
(*                                                                         *)
(* receiveMessage and deleteMessage use synchronous calls only: within a   *)
(* process nothing comes between them, while the other processes do.  An   *)
(* action is one such call, or a scan of the folder.  A process may crash  *)
(* between any two.  File names are unique (random UUIDs).                 *)
(***************************************************************************)
EXTENDS Naturals, FiniteSets

CONSTANTS
  Messages,
  Readers,     \* the callers of receiveMessage
  Process,     \* the process of each reader
  Poison,      \* messages that cannot be unserialized
  NoMessage,
  MaxExpiries, \* bound: locks that reach the expire parameter
  MaxProcessCrashes   \* bound: crashes of a process

ASSUME FileQueueAssumption ==
  /\ IsFiniteSet(Messages)
  /\ DOMAIN Process = Readers
  /\ NoMessage \notin Messages
  /\ MaxExpiries \in Nat /\ MaxProcessCrashes \in Nat

VARIABLES
  file,      \* the birth rank of each message file, 0 when there is none
  ever,      \* messages ever sent, in number
  everSent,      \* history: the messages sent
  lock,      \* each lock file
  reader,    \* what each reader is doing
  expiries, processCrashes

fileVars == <<file, ever, everSent, lock, reader, expiries, processCrashes>>

InCall == {"listed", "stated", "locked", "deleting"}

IdleReader == [at |-> "idle", message |-> NoMessage, seen |-> {}, stale |-> {}, late |-> {}]

FileQueueTypeOK ==
  /\ file \in [Messages -> 0..Cardinality(Messages)]
  /\ ever \in 0..Cardinality(Messages)
  /\ everSent \subseteq Messages
  /\ lock \in [Messages -> {"none", "fresh", "expired"}]
  /\ reader \in [Readers ->
       [at : InCall \union {"idle", "sleeping", "holding"},
        message : Messages \union {NoMessage},
        seen : SUBSET Messages,    \* scanned, and without fresh lock
        stale : SUBSET Messages,   \* scanned, the lock still to remove
        late : SUBSET Messages]]   \* history: taken or deleted elsewhere since
  /\ expiries \in 0..MaxExpiries /\ processCrashes \in 0..MaxProcessCrashes

FileQueueInit ==
  /\ file = [m \in Messages |-> 0]
  /\ ever = 0 /\ everSent = {}
  /\ lock = [m \in Messages |-> "none"]
  /\ reader = [r \in Readers |-> IdleReader]
  /\ expiries = 0 /\ processCrashes = 0

----------------------------------------------------------------------------
Exists(m) == file[m] > 0

\* The process of r is not in the middle of another synchronous call
Runs(r) == \A q \in Readers : Process[q] = Process[r] /\ reader[q].at \in InCall => q = r

ReaderAt(r, stage) == Runs(r) /\ reader[r].at = stage

Becomes(r, state) == reader' = [reader EXCEPT ![r] = state]

SendToFolder(m) ==
  /\ m \notin everSent
  /\ everSent' = everSent \union {m}
  /\ ever' = ever + 1
  /\ file' = [file EXCEPT ![m] = ever + 1]
  /\ UNCHANGED <<lock, reader, expiries, processCrashes>>

(* receiveMessage *)

ListFiles(r) ==
  /\ ReaderAt(r, "idle")
  /\ Becomes(r, [IdleReader EXCEPT !.at = "listed", !.seen = {m \in Messages : Exists(m)}])
  /\ UNCHANGED <<file, ever, everSent, lock, expiries, processCrashes>>

\* Mutant: the locks are not looked at
StatFilesOnly(r) ==
  /\ ReaderAt(r, "listed")
  /\ Becomes(r, [IdleReader EXCEPT !.at = "stated", !.seen = {m \in reader[r].seen : Exists(m)}])
  /\ UNCHANGED <<file, ever, everSent, lock, expiries, processCrashes>>

\* lstat throws on a file that another process has removed since
StatFiles(r) ==
  /\ ReaderAt(r, "listed")
  /\ LET seen == reader[r].seen
     IN IF \E m \in seen : ~Exists(m)
        THEN Becomes(r, IdleReader)
        ELSE Becomes(r, [IdleReader EXCEPT !.at = "stated",
                           !.seen = {m \in seen : lock[m] # "fresh"},
                           !.stale = {m \in seen : lock[m] = "expired"}])
  /\ UNCHANGED <<file, ever, everSent, lock, expiries, processCrashes>>

\* unlink throws on a lock that another process has removed since; it may also
\* remove the new lock of another process
UnlinkExpired(r) ==
  /\ ReaderAt(r, "stated")
  /\ \E m \in reader[r].stale :
       /\ Becomes(r, IF lock[m] = "none" THEN IdleReader ELSE [reader[r] EXCEPT !.stale = @ \ {m}])
       /\ lock' = [lock EXCEPT ![m] = "none"]
  /\ UNCHANGED <<file, ever, everSent, expiries, processCrashes>>

Scanned(r) == ReaderAt(r, "stated") /\ reader[r].stale = {}

\* r goes on; the scans under way elsewhere do not know what it did to m
Overtakes(r, state, m) ==
  reader' = [q \in Readers |->
    IF q = r THEN state
    ELSE IF reader[q].at = "stated" THEN [reader[q] EXCEPT !.late = @ \union {m}]
    ELSE reader[q]]

\* The oldest of the files without lock; the lock is not created exclusively,
\* and one that exists keeps its date of birth
LockFirst(r) ==
  /\ Scanned(r)
  /\ \E m \in reader[r].seen :
       /\ \A n \in reader[r].seen : Exists(m) /\ Exists(n) => file[m] <= file[n]
       /\ Overtakes(r, [IdleReader EXCEPT !.at = "locked", !.message = m], m)
       /\ lock' = [lock EXCEPT ![m] = IF @ = "none" THEN "fresh" ELSE @]
  /\ UNCHANGED <<file, ever, everSent, expiries, processCrashes>>

ReadFile(r) ==
  /\ ReaderAt(r, "locked")
  /\ LET m == reader[r].message
     IN Becomes(r, IF Exists(m) /\ m \notin Poison
                   THEN [reader[r] EXCEPT !.at = "holding"] ELSE IdleReader)
  /\ UNCHANGED <<file, ever, everSent, lock, expiries, processCrashes>>

Sleep(r) ==
  /\ Scanned(r) /\ reader[r].seen = {}
  /\ Becomes(r, [IdleReader EXCEPT !.at = "sleeping"])
  /\ UNCHANGED <<file, ever, everSent, lock, expiries, processCrashes>>

Wake(r) ==
  /\ ReaderAt(r, "sleeping")
  /\ Becomes(r, IdleReader)
  /\ UNCHANGED <<file, ever, everSent, lock, expiries, processCrashes>>

----------------------------------------------------------------------------
(* deleteMessage, and a reader that leaves its message *)

UnlinkFile(r) ==
  /\ ReaderAt(r, "holding")
  /\ LET m == reader[r].message
     IN IF Exists(m)
        THEN /\ file' = [file EXCEPT ![m] = 0]
             /\ Overtakes(r, [reader[r] EXCEPT !.at = "deleting"], m)
        ELSE Becomes(r, IdleReader) /\ UNCHANGED file
  /\ UNCHANGED <<ever, everSent, lock, expiries, processCrashes>>

UnlinkLock(r) ==
  /\ ReaderAt(r, "deleting")
  /\ lock' = [lock EXCEPT ![reader[r].message] = "none"]
  /\ Becomes(r, IdleReader)
  /\ UNCHANGED <<file, ever, everSent, expiries, processCrashes>>

Abandon(r) ==
  /\ ReaderAt(r, "holding")
  /\ Becomes(r, IdleReader)
  /\ UNCHANGED <<file, ever, everSent, lock, expiries, processCrashes>>

LockExpires(m) ==
  /\ lock[m] = "fresh" /\ expiries < MaxExpiries
  /\ expiries' = expiries + 1
  /\ lock' = [lock EXCEPT ![m] = "expired"]
  /\ UNCHANGED <<file, ever, everSent, reader, processCrashes>>

ProcessCrash(p) ==
  /\ processCrashes < MaxProcessCrashes
  /\ processCrashes' = processCrashes + 1
  /\ reader' = [r \in Readers |-> IF Process[r] = p THEN IdleReader ELSE reader[r]]
  /\ UNCHANGED <<file, ever, everSent, lock, expiries>>

FileQueueNext ==
  \/ \E m \in Messages : SendToFolder(m) \/ LockExpires(m)
  \/ \E r \in Readers :
       \/ ListFiles(r) \/ StatFiles(r) \/ UnlinkExpired(r) \/ LockFirst(r)
       \/ ReadFile(r) \/ Sleep(r) \/ Wake(r)
       \/ UnlinkFile(r) \/ UnlinkLock(r) \/ Abandon(r)
       \/ ProcessCrash(Process[r])

FileQueueSpec == FileQueueInit /\ [][FileQueueNext]_fileVars

----------------------------------------------------------------------------
Stage(m) ==
  IF m \notin everSent THEN "unsent"
  ELSE IF ~Exists(m) THEN "deleted"
  ELSE IF lock[m] = "fresh" THEN "leased" ELSE "available"

Hand(r) == IF reader[r].at \in {"locked", "holding"} THEN reader[r].message ELSE NoMessage

QueueContract == INSTANCE AtLeastOnceQueue
              WITH stage <- [m \in Messages |-> Stage(m)], hand <- [r \in Readers |-> Hand(r)]

\* A scan that another process has overtaken: the message is locked twice
LocksTwice == \E r \in Readers :
  /\ reader[r].at = "stated" /\ reader'[r].at = "locked"
  /\ reader'[r].message \in reader[r].late

\* The folder implements the at-least-once queue, through crashes, expired locks
\* and unreadable messages, except that processes which share it may take the
\* same message; the readers of one process never do.
FolderIsAtLeastOnce ==
  [][QueueContract!Next \/ LocksTwice]_<<[m \in Messages |-> Stage(m)], [r \in Readers |-> Hand(r)]>>
=============================================================================
