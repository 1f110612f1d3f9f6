----------------------------- MODULE FileBinary -----------------------------
(***************************************************************************)
(* FileBinary (packages/fs/src/filebinary.ts): contents stored once, in a  *)
(* folder named by their hash, with a marker file for each object that     *)
(* uses them.  The service is driven by concurrent requests on objects     *)
(* with one binary attribute; uploadSuccess and deleteSuccess of           *)
(* packages/core/src/services/binary.ts update the object.                 *)
(*                                                                         *)
(* A request is split at its awaits: the stream of the content, the patch  *)
(* of the object, the Binary.Delete event.  Each of them may reject and    *)
(* end the request there.  A crash loses the requests.                     *)
(***************************************************************************)
EXTENDS Naturals, FiniteSets

CONSTANTS
  Hashes,
  NoHash,      \* the attribute of an object without binary
  Objects,
  Requests,
  MaxRequests, \* bound: requests received
  MaxServerCrashes   \* bound: crashes

ASSUME FileBinaryAssumption ==
  /\ IsFiniteSet(Objects)
  /\ NoHash \notin Hashes
  /\ MaxRequests \in Nat /\ MaxServerCrashes \in Nat

VARIABLES
  folder,      \* the folder of each hash
  linked,      \* the hash that each object has in its repository
  request,     \* what each request is doing
  received, serverCrashes,
  disturbed    \* history: hashes met by one of the exceptions of StoredWhileUsed

binaryVars == <<folder, linked, request, received, serverCrashes, disturbed>>

Missing == [exists |-> FALSE, data |-> "none", challenge |-> FALSE,
            markers |-> {}, redirects |-> {}]

Folder == [exists : BOOLEAN, data : {"none", "partial", "full"}, challenge : BOOLEAN,
           markers : SUBSET Objects,    \* <model>_<attribute>_<uuid>
           redirects : SUBSET Objects]  \* <model>_<uuid>_<attribute>

NoRequest == [at |-> "idle"]

\* "orphaned": writing to a file that has been unlinked
Stages == {"opening", "writing", "orphaned", "linking", "redirecting",
           "loaded", "unlinking", "cleaning"}

BinaryTypeOK ==
  /\ folder \in [Hashes -> Folder]
  /\ \A h \in Hashes : folder[h].exists \/ folder[h] = Missing
  /\ linked \in [Objects -> Hashes \union {NoHash}]
  /\ DOMAIN request = Requests
  /\ \A r \in Requests :
       request[r] \in {NoRequest} \union [at : Stages, object : Objects, hash : Hashes]
  /\ received \in 0..MaxRequests
  /\ serverCrashes \in 0..MaxServerCrashes
  /\ disturbed \subseteq Hashes

BinaryInit ==
  /\ folder = [h \in Hashes |-> Missing]
  /\ linked = [o \in Objects |-> NoHash]
  /\ request = [r \in Requests |-> NoRequest]
  /\ received = 0 /\ serverCrashes = 0
  /\ disturbed = {}

----------------------------------------------------------------------------
\* A request that has only loaded its object is not in progress yet
Busy(h) == {r \in Requests : request[r].at \notin {"idle", "loaded"} /\ request[r].hash = h}

Receives(r) == request[r] = NoRequest /\ received < MaxRequests /\ received' = received + 1

RequestAt(r, stage) == request[r].at = stage

RequestGoes(r, stage) == request' = [request EXCEPT ![r].at = stage]

Begins(r, stage, o, h) == request' = [request EXCEPT ![r] = [at |-> stage, object |-> o, hash |-> h]]

Done(r) == request' = [request EXCEPT ![r] = NoRequest]

(* store() *)

StoreKnown(r, o, h) ==
  /\ Receives(r)
  /\ folder[h].exists
  /\ folder' = [folder EXCEPT ![h].markers = @ \union {o}]
  /\ Begins(r, "linking", o, h)
  /\ UNCHANGED <<linked, serverCrashes, disturbed>>

StoreNew(r, o, h) ==
  /\ Receives(r)
  /\ ~folder[h].exists
  /\ folder' = [folder EXCEPT ![h] = [Missing EXCEPT !.exists = TRUE]]
  /\ Begins(r, "opening", o, h)
  /\ UNCHANGED <<linked, serverCrashes, disturbed>>

\* The write stream needs the folder, which a deletion may have removed
OpenData(r) ==
  /\ RequestAt(r, "opening")
  /\ LET h == request[r].hash
     IN IF folder[h].exists
        THEN /\ folder' = [folder EXCEPT ![h].data = "partial"]
             /\ RequestGoes(r, "writing")
        ELSE Done(r) /\ UNCHANGED folder
  /\ UNCHANGED <<linked, received, serverCrashes, disturbed>>

\* Without the file the stream ends all the same, and _touch ignores its errors
FinishData(r) ==
  /\ RequestAt(r, "writing") \/ RequestAt(r, "orphaned")
  /\ LET h == request[r].hash
     IN folder' = IF folder[h].exists
                  THEN [folder EXCEPT
                          ![h].data = IF RequestAt(r, "writing") THEN "full" ELSE @,
                          ![h].challenge = TRUE,
                          ![h].markers = @ \union {request[r].object}]
                  ELSE folder
  /\ RequestGoes(r, "linking")
  /\ UNCHANGED <<linked, received, serverCrashes, disturbed>>

\* The content cannot be opened or written: the folder stays as it is
WriteFails(r) ==
  /\ RequestAt(r, "opening") \/ RequestAt(r, "writing")
  /\ disturbed' = disturbed \union {request[r].hash}
  /\ Done(r)
  /\ UNCHANGED <<folder, linked, received, serverCrashes>>

\* uploadSuccess; the hash that the object had before keeps its marker
Link(r) ==
  /\ RequestAt(r, "linking")
  /\ LET o == request[r].object
         h == request[r].hash
     IN /\ linked' = [linked EXCEPT ![o] = h]
        /\ disturbed' = disturbed \union ({linked[o]} \ {h, NoHash})
             \union {g \in {h} : \E d \in Busy(h) : RequestAt(d, "cleaning")}
  /\ Done(r)
  /\ UNCHANGED <<folder, received, serverCrashes>>

\* uploadSuccess refuses the description of the file or its patch rejects: the
\* marker stays.  A patch that rejects once it is written, as an event does, is a Link.
LinkRejects(r) ==
  /\ RequestAt(r, "linking")
  /\ disturbed' = disturbed \union ({request[r].hash} \ {linked[request[r].object]})
  /\ Done(r)
  /\ UNCHANGED <<folder, linked, received, serverCrashes>>

----------------------------------------------------------------------------
(* putRedirectUrl() and the upload that the client then makes, or not *)

PutRedirectUrl(r, o, h) ==
  /\ Receives(r)
  /\ Begins(r, "redirecting", o, h)
  /\ UNCHANGED <<folder, linked, serverCrashes, disturbed>>

RedirectMarks(r) ==
  /\ RequestAt(r, "redirecting")
  /\ LET o == request[r].object
         h == request[r].hash
     IN /\ linked' = [linked EXCEPT ![o] = h]
        /\ folder' = [folder EXCEPT ![h].exists = TRUE, ![h].redirects = @ \union {o}]
        /\ disturbed' = disturbed \union ({h, linked[o]} \ {NoHash})
  /\ Done(r)
  /\ UNCHANGED <<received, serverCrashes>>

\* The same rejections, the patch written or not, come before any folder
RedirectRejects(r) ==
  /\ RequestAt(r, "redirecting")
  /\ LET o == request[r].object
         h == request[r].hash
     IN \/ UNCHANGED <<linked, disturbed>>
        \/ /\ linked' = [linked EXCEPT ![o] = h]
           /\ disturbed' = disturbed \union ({h, linked[o]} \ {NoHash})
  /\ Done(r)
  /\ UNCHANGED <<folder, received, serverCrashes>>

\* storeBinary
Upload(h) ==
  /\ folder[h].exists /\ folder[h].redirects # {}
  /\ folder' = [folder EXCEPT ![h].data = IF @ = "none" THEN "full" ELSE @, ![h].challenge = TRUE]
  /\ UNCHANGED <<linked, request, received, serverCrashes, disturbed>>

----------------------------------------------------------------------------
(* delete(), on the copy of the object that the request has loaded *)

Load(r, o) ==
  /\ Receives(r)
  /\ linked[o] # NoHash
  /\ Begins(r, "loaded", o, linked[o])
  /\ UNCHANGED <<folder, linked, serverCrashes, disturbed>>

DeleteBinary(r) ==
  /\ RequestAt(r, "loaded")
  /\ RequestGoes(r, "unlinking")
  /\ UNCHANGED <<folder, linked, received, serverCrashes, disturbed>>

\* deleteSuccess clears the attribute, whatever hash it has by now
Unlink(r) ==
  /\ RequestAt(r, "unlinking")
  /\ LET o == request[r].object
     IN /\ linked' = [linked EXCEPT ![o] = NoHash]
        /\ disturbed' = disturbed \union
             (IF linked[o] = request[r].hash THEN {} ELSE {linked[o], request[r].hash} \ {NoHash})
  /\ RequestGoes(r, "cleaning")
  /\ UNCHANGED <<folder, received, serverCrashes>>

\* The patch of deleteSuccess rejects, nothing is written
UnlinkRejects(r) ==
  /\ RequestAt(r, "unlinking")
  /\ Done(r)
  /\ UNCHANGED <<folder, linked, received, serverCrashes, disturbed>>

\* The Binary.Delete event rejects, or that of the patch: _cleanUsage never runs
DeleteEventRejects(r) ==
  /\ RequestAt(r, "cleaning")
  /\ disturbed' = disturbed \union {request[r].hash}
  /\ Done(r)
  /\ UNCHANGED <<folder, linked, received, serverCrashes>>

Files(f) ==
  Cardinality(f.markers) + Cardinality(f.redirects)
  + (IF f.data = "none" THEN 0 ELSE 1) + (IF f.challenge THEN 1 ELSE 0)

\* Mutant: the files are counted after the marker is gone
IsLastLate(f, o) == Files([f EXCEPT !.markers = @ \ {o}]) = 3

\* The files are counted before the marker is removed
IsLast(f, o) == Files(f) = 3

\* _cleanUsage and _cleanHash; markers of redirections do not match
Clean(r) ==
  /\ RequestAt(r, "cleaning")
  /\ LET o == request[r].object
         h == request[r].hash
         last == folder[h].exists /\ IsLast(folder[h], o)
     IN /\ folder' = [folder EXCEPT ![h] = IF last THEN Missing
                                           ELSE [folder[h] EXCEPT !.markers = @ \ {o}]]
        /\ request' = [q \in Requests |->
             IF q = r THEN NoRequest
             ELSE IF last /\ q \in Busy(h) /\ RequestAt(q, "writing")
             THEN [request[q] EXCEPT !.at = "orphaned"] ELSE request[q]]
        /\ disturbed' = IF Busy(h) = {r} THEN disturbed ELSE disturbed \union {h}
  /\ UNCHANGED <<linked, received, serverCrashes>>

ServerCrash ==
  /\ serverCrashes < MaxServerCrashes
  /\ serverCrashes' = serverCrashes + 1
  /\ disturbed' = disturbed \union {h \in Hashes : Busy(h) # {}}
  /\ request' = [r \in Requests |-> NoRequest]
  /\ UNCHANGED <<folder, linked, received>>

BinaryNext ==
  \/ \E r \in Requests :
       \/ \E o \in Objects, h \in Hashes :
            StoreKnown(r, o, h) \/ StoreNew(r, o, h) \/ PutRedirectUrl(r, o, h)
       \/ \E o \in Objects : Load(r, o)
       \/ OpenData(r) \/ FinishData(r) \/ WriteFails(r)
       \/ Link(r) \/ LinkRejects(r) \/ RedirectMarks(r) \/ RedirectRejects(r)
       \/ DeleteBinary(r) \/ Unlink(r) \/ UnlinkRejects(r)
       \/ DeleteEventRejects(r) \/ Clean(r)
  \/ \E h \in Hashes : Upload(h)
  \/ ServerCrash

BinarySpec == BinaryInit /\ [][BinaryNext]_binaryVars

----------------------------------------------------------------------------
Users(h) == {o \in Objects : linked[o] = h}

\* "should store only once a binary and reference every object that are used by
\* this binary, so it can be cleaned": between requests, a content is stored in
\* full exactly as long as some object uses it, and has the markers of these
\* objects.  Eight events break it, and no other: a deletion that overlaps another
\* request on the same content, or works on a copy of the object that is out of
\* date; a write that fails; an upload whose object is not updated once it is
\* marked; a deletion that rejects once its object is updated; a crash in the middle
\* of a request; an object given another content; and an upload through a
\* redirection.
StoredWhileUsed ==
  \A h \in Hashes \ disturbed :
    Busy(h) = {} =>
      /\ folder[h].exists <=> Users(h) # {}
      /\ folder[h].markers = Users(h)
      /\ Users(h) # {} => folder[h].data = "full"
=============================================================================
