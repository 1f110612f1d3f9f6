--------------------------- MODULE SocketPubSub ---------------------------
(***************************************************************************)
(* SocketPubSubService (packages/fs/src/socketpubsub.ts): processes of one *)
(* host that share a unix-domain socket file.  The peer that binds it is   *)
(* the broker, the others are its clients; when the broker goes, the       *)
(* clients look for another, or one of them takes the file over.           *)
(*                                                                         *)
(* An action is a system call or an event of the loop of one peer.  The    *)
(* kernel is modelled by what the code relies on: a connection is FIFO     *)
(* both ways, connect() succeeds when the file names an open listener, a   *)
(* bind fails when the file exists, a listener that closes unlinks the     *)
(* path by its name, and a crash leaves the file behind.  The framing of   *)
(* messages in bytes and the consumers' callbacks are left out.            *)
(***************************************************************************)
EXTENDS Naturals, FiniteSets, Sequences

CONSTANTS
  Peers,
  Nobody,
  Stale,       \* what the file names once its listener has crashed
  MaxSent,     \* bound: events published
  MaxPeerCrashes,  \* bound: peers that crash
  MaxStops     \* bound: peers that are stopped

ASSUME SocketAssumption ==
  /\ IsFiniteSet(Peers)
  /\ Nobody \notin Peers /\ Stale \notin Peers /\ Nobody # Stale
  /\ MaxSent \in Nat /\ MaxPeerCrashes \in Nat /\ MaxStops \in Nat

VARIABLES
  phase,     \* where connect(), the reconnection or stop() of a peer is
  stopping,  \* the flag stop() sets
  server,    \* the peer listens
  path,      \* the listener the socket file names
  broker,    \* the other end of the client socket
  link,      \* the state of that connection
  up, down,  \* the frames in it, to the broker and back
  sent, got, \* events published, and last dispatched (see AtMostOncePubSub)
  usurped    \* history: a peer removed the file of another's open listener

socketVars ==
  <<phase, stopping, server, path, broker, link, up, down, sent, got, usurped>>

Contract == INSTANCE AtMostOncePubSub

\* connect() is under way: looking for a broker, found none, about to bind,
\* looking again after EADDRINUSE.
Connecting == {"looking", "refused", "binding", "again"}

Event == Peers \X (1..MaxSent)

SocketTypeOK ==
  /\ phase \in [Peers -> Connecting \union {"new", "up", "cut", "failed", "closing", "crashed"}]
  /\ stopping \in [Peers -> BOOLEAN]
  /\ server \in [Peers -> BOOLEAN]
  /\ path \in Peers \union {Nobody, Stale}
  /\ broker \in [Peers -> Peers \union {Nobody}]
  /\ link \in [Peers -> {"none", "pending", "accepted", "left", "lost"}]
  /\ \A p \in Peers :
       /\ \A i \in DOMAIN up[p] : up[p][i] \in Event
       /\ \A i \in DOMAIN down[p] : down[p][i] \in Event
  /\ sent \in [Peers -> 0..MaxSent]
  /\ got \in [Peers -> [Peers -> 0..MaxSent]]
  /\ usurped \in BOOLEAN

SocketInit ==
  /\ phase = [p \in Peers |-> "new"]
  /\ stopping = [p \in Peers |-> FALSE]
  /\ server = [p \in Peers |-> FALSE]
  /\ path = Nobody
  /\ broker = [p \in Peers |-> Nobody]
  /\ link = [p \in Peers |-> "none"]
  /\ up = [p \in Peers |-> <<>>] /\ down = [p \in Peers |-> <<>>]
  /\ Contract!Init
  /\ usurped = FALSE

SentEvents == {e \in Event : e[2] <= sent[e[1]]}

Goes(p, from, to) == phase[p] = from /\ phase' = [phase EXCEPT ![p] = to]

\* unlinkSync(path): by name, whoever listens there now.
Unlinks(p) ==
  /\ path' = Nobody
  /\ usurped' = (usurped \/ path \in Peers \ {p})

-----------------------------------------------------------------------------
(* connect() *)

Start(p) ==
  /\ Goes(p, "new", "looking")
  /\ UNCHANGED <<stopping, server, path, broker, link, up, down, sent, got, usurped>>

\* connectAsClient, from phase `from`: the connection waits in the backlog.
Connects(p, from) ==
  /\ path \in Peers
  /\ Goes(p, from, "up")
  /\ broker' = [broker EXCEPT ![p] = path]
  /\ link' = [link EXCEPT ![p] = "pending"]
  /\ up' = [up EXCEPT ![p] = <<>>] /\ down' = [down EXCEPT ![p] = <<>>]
  /\ UNCHANGED <<stopping, server, path, sent, got, usurped>>

\* ENOENT or ECONNREFUSED.
FindsNoBroker(p) ==
  /\ path \notin Peers
  /\ Goes(p, "looking", "refused")
  /\ UNCHANGED <<stopping, server, path, broker, link, up, down, sent, got, usurped>>

ClearsFile(p) ==
  /\ Goes(p, "refused", "binding")
  /\ Unlinks(p)
  /\ UNCHANGED <<stopping, server, broker, link, up, down, sent, got>>

Binds(p) ==
  /\ path = Nobody
  /\ Goes(p, "binding", "up")
  /\ path' = p
  /\ server' = [server EXCEPT ![p] = TRUE]
  /\ broker' = [broker EXCEPT ![p] = Nobody]
  /\ UNCHANGED <<stopping, link, up, down, sent, got, usurped>>

AddressInUse(p) ==
  /\ path # Nobody
  /\ Goes(p, "binding", "again")
  /\ UNCHANGED <<stopping, server, path, broker, link, up, down, sent, got, usurped>>

\* The second attempt as a client is the last: init() rejects, or the
\* reconnection is logged.
GivesUp(p) ==
  /\ path \notin Peers
  /\ Goes(p, "again", "failed")
  /\ UNCHANGED <<stopping, server, path, broker, link, up, down, sent, got, usurped>>

-----------------------------------------------------------------------------
(* Losing the broker *)

\* The other end of every connection of b is closed, accepted or not; what b
\* has not read is lost.
Closed(b, l) == [p \in Peers |-> IF broker[p] = b /\ l[p] # "none" THEN "lost" ELSE l[p]]
Unread(b) == [p \in Peers |-> IF broker[p] = b THEN <<>> ELSE up[p]]

\* Mutant: the peer does not look for another broker.
BrokerDisconnectsForGood(p) ==
  /\ link[p] = "lost" /\ phase[p] = "up"
  /\ broker' = [broker EXCEPT ![p] = Nobody]
  /\ link' = [link EXCEPT ![p] = "none"]
  /\ down' = [down EXCEPT ![p] = <<>>]
  /\ UNCHANGED <<phase, stopping, server, path, up, sent, got, usurped>>

\* The close event of the client socket, with or without the frames that were
\* still to be read.  destroy() in stop() has cleared the socket already.
BrokerDisconnects(p) ==
  /\ link[p] = "lost" /\ phase[p] = "up"
  /\ phase' = [phase EXCEPT ![p] = IF stopping[p] THEN "failed" ELSE "cut"]
  /\ broker' = [broker EXCEPT ![p] = Nobody]
  /\ link' = [link EXCEPT ![p] = "none"]
  /\ down' = [down EXCEPT ![p] = <<>>]
  /\ UNCHANGED <<stopping, server, path, up, sent, got, usurped>>

\* The timer of the reconnection.
Reconnects(p) ==
  /\ Goes(p, "cut", IF stopping[p] THEN "failed" ELSE "looking")
  /\ UNCHANGED <<stopping, server, path, broker, link, up, down, sent, got, usurped>>

-----------------------------------------------------------------------------
(* Messages *)

Listens(p) == ~stopping[p] /\ phase[p] # "crashed"  \* stop() clears the callbacks

DispatchToCallbacks(p, e) ==
  got' = IF Listens(p) THEN [got EXCEPT ![p][e[1]] = e[2]] ELSE got

Subscribers(b) == {p \in Peers : broker[p] = b /\ link[p] = "accepted"}

\* Mutant: the publisher gets its own frame back.
FanoutEcho(b, e, except) ==
  [p \in Peers |-> IF p \in Subscribers(b) THEN Append(down[p], e) ELSE down[p]]

Fanout(b, e, except) ==
  [p \in Peers |-> IF p \in Subscribers(b) \ {except} THEN Append(down[p], e) ELSE down[p]]

SendMessage(p) ==
  /\ phase[p] = "up" /\ Cardinality(SentEvents) < MaxSent
  /\ sent' = [sent EXCEPT ![p] = @ + 1]
  /\ LET e == <<p, sent[p] + 1>> IN
       /\ \/ server[p] /\ down' = Fanout(p, e, Nobody) /\ UNCHANGED up
          \/ /\ ~server[p] /\ broker[p] # Nobody
             /\ up' = IF link[p] = "lost" THEN up ELSE [up EXCEPT ![p] = Append(@, e)]
             /\ UNCHANGED down
       /\ DispatchToCallbacks(p, e)
  /\ UNCHANGED <<phase, stopping, server, path, broker, link, usurped>>

Accepts(b, p) ==
  /\ server[b] /\ broker[p] = b /\ link[p] = "pending"
  /\ link' = [link EXCEPT ![p] = "accepted"]
  /\ UNCHANGED <<phase, stopping, server, path, broker, up, down, sent, got, usurped>>

\* The bytes of a client that has left are still read.
BrokerReads(b, p) ==
  /\ server[b] /\ broker[p] = b /\ link[p] \in {"accepted", "left"} /\ up[p] # <<>>
  /\ up' = [up EXCEPT ![p] = Tail(@)]
  /\ down' = Fanout(b, Head(up[p]), p)
  /\ DispatchToCallbacks(b, Head(up[p]))
  /\ UNCHANGED <<phase, stopping, server, path, broker, link, sent, usurped>>

ClientReads(p) ==
  /\ phase[p] = "up" /\ link[p] \in {"accepted", "lost"} /\ down[p] # <<>>
  /\ down' = [down EXCEPT ![p] = Tail(@)]
  /\ DispatchToCallbacks(p, Head(down[p]))
  /\ UNCHANGED <<phase, stopping, server, path, broker, link, up, sent, usurped>>

-----------------------------------------------------------------------------
(* stop() and crashes *)

\* p closes its own end of everything it holds.
Leaves(p) ==
  LET mine == [link EXCEPT ![p] = IF @ = "none" THEN @ ELSE "left"]
  IN  /\ link' = IF server[p] THEN Closed(p, mine) ELSE mine
      /\ up' = IF server[p] THEN Unread(p) ELSE up
      /\ down' = [down EXCEPT ![p] = <<>>]
      /\ server' = [server EXCEPT ![p] = FALSE]

\* The part of stop() before its await.  A connect() under way goes on.
Stop(p) ==
  /\ phase[p] \notin {"new", "crashed"} /\ ~stopping[p]
  /\ Cardinality({q \in Peers : stopping[q]}) < MaxStops
  /\ stopping' = [stopping EXCEPT ![p] = TRUE]
  /\ Leaves(p)
  /\ phase' = [phase EXCEPT ![p] =
                 IF server[p] THEN "closing" ELSE IF @ = "up" THEN "failed" ELSE @]
  /\ IF server[p] THEN Unlinks(p) ELSE UNCHANGED <<path, usurped>>
  /\ UNCHANGED <<broker, sent, got>>

\* The server has closed: stop() unlinks the path once more.
StopUnlinks(p) ==
  /\ Goes(p, "closing", "failed")
  /\ Unlinks(p)
  /\ UNCHANGED <<stopping, server, broker, link, up, down, sent, got>>

PeerCrashes(p) ==
  /\ phase[p] \notin {"new", "crashed"}
  /\ Cardinality({q \in Peers : phase[q] = "crashed"}) < MaxPeerCrashes
  /\ phase' = [phase EXCEPT ![p] = "crashed"]
  /\ Leaves(p)
  /\ path' = IF path = p THEN Stale ELSE path
  /\ UNCHANGED <<stopping, broker, sent, got, usurped>>

SocketNext ==
  \E p \in Peers :
    \/ Start(p) \/ Connects(p, "looking") \/ Connects(p, "again") \/ FindsNoBroker(p)
    \/ ClearsFile(p) \/ Binds(p) \/ AddressInUse(p) \/ GivesUp(p)
    \/ BrokerDisconnects(p) \/ Reconnects(p)
    \/ SendMessage(p) \/ ClientReads(p)
    \/ \E b \in Peers : Accepts(b, p) \/ BrokerReads(b, p)
    \/ Stop(p) \/ StopUnlinks(p) \/ PeerCrashes(p)

SocketSpec == SocketInit /\ [][SocketNext]_socketVars

\* The event loop of a live process serves what is ready.
Progress(p) ==
  \/ Connects(p, "looking") \/ Connects(p, "again") \/ FindsNoBroker(p)
  \/ ClearsFile(p) \/ Binds(p) \/ AddressInUse(p) \/ GivesUp(p)
  \/ BrokerDisconnects(p) \/ Reconnects(p) \/ StopUnlinks(p)

-----------------------------------------------------------------------------
(* Properties *)

\* Whatever brokers come and go, a consumer sees an event at most once and the
\* events of a publisher in order: the frames of one connection are FIFO, the
\* sender is excepted from the fanout, and a peer has one connection at a time.
DispatchedAtMostOnce == Contract!Spec

\* The peer through which p hears the others.
Hub(p) == IF server[p] THEN p ELSE broker[p]

\* "one of them wins the bind race and becomes the new broker": after the last
\* crash or stop every peer that has not given up ends up at the same broker,
\* unless some peer unlinked a socket file that was in use.  It may: a peer that
\* was refused clears the file, which another may have bound in the meantime.
OneHubInTheEnd ==
  <>[](\/ usurped
       \/ /\ \A p \in Peers : phase[p] \in {"new", "up", "failed", "crashed"}
          /\ \A p, q \in Peers :
               phase[p] = "up" /\ phase[q] = "up" => Hub(p) = Hub(q) /\ link[p] # "lost")
=============================================================================
