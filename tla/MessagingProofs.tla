-------------------------- MODULE MessagingProofs --------------------------
(***************************************************************************)
(* What holds of SocketPubSub and of Cluster for every set of peers and of *)
(* nodes.                                                                  *)
(*                                                                         *)
(* SocketPubSub.  SocketInv says where frames may be: a peer has frames    *)
(* only on the connection it has (LinksFit), and the events of each peer   *)
(* are numbered in order, from the last one dispatched over those on their *)
(* way down to those on their way up (FramesInOrder).  So each step is a   *)
(* step of AtMostOncePubSub, or changes nothing there.                     *)
(*                                                                         *)
(* Cluster.  ClusterInv says that an event is on its way to a node at most *)
(* once, and not to one that has dispatched it (EventsFit); and that, as   *)
(* long as nothing is lost, what a node has heard of a member is no older  *)
(* than the member's keep-alive timer allows, or something newer is on its *)
(* way (HeardInTime).                                                      *)
(***************************************************************************)
EXTENDS SocketPubSub, Cluster, SequenceTheorems, FiniteSetTheorems, TLAPS

LEMMA TailFacts ==
  ASSUME NEW S, NEW s \in Seq(S), s # <<>>
  PROVE  /\ Head(s) = s[1] /\ Head(s) \in S /\ Tail(s) \in Seq(S)
         /\ Len(s) \in Nat \ {0} /\ DOMAIN s = 1..Len(s) /\ 1 \in DOMAIN s
         /\ DOMAIN Tail(s) = 1..(Len(s) - 1)
         /\ \A i \in DOMAIN Tail(s) : i + 1 \in DOMAIN s /\ Tail(s)[i] = s[i + 1]
<1>1. Len(s) \in Nat \ {0} /\ DOMAIN s = 1..Len(s)
  BY EmptySeq, LenProperties
<1>2. /\ Head(s) = s[1] /\ Head(s) \in S /\ Tail(s) \in Seq(S) /\ Len(Tail(s)) = Len(s) - 1
      /\ \A i \in 1..(Len(s) - 1) : Tail(s)[i] = s[i + 1]
  BY <1>1, HeadTailProperties
<1> QED
  BY <1>1, <1>2

LEMMA AppendFacts ==
  ASSUME NEW S, NEW s \in Seq(S), NEW e \in S
  PROVE  /\ Append(s, e) \in Seq(S) /\ Append(s, e) # <<>>
         /\ Len(s) \in Nat /\ DOMAIN s = 1..Len(s)
         /\ DOMAIN Append(s, e) = 1..(Len(s) + 1)
         /\ \A i \in DOMAIN s : Append(s, e)[i] = s[i]
         /\ Append(s, e)[Len(s) + 1] = e
  BY AppendProperties, LenProperties

----------------------------------------------------------------------------
(* SocketPubSub *)

Frame == Peers \X (Nat \ {0})

SocketShape ==
  /\ DOMAIN phase = Peers /\ DOMAIN link = Peers /\ DOMAIN broker = Peers
  /\ server \in [Peers -> BOOLEAN]
  /\ up \in [Peers -> Seq(Frame)] /\ down \in [Peers -> Seq(Frame)]
  /\ sent \in [Peers -> Nat] /\ got \in [Peers -> [Peers -> Nat]]

\* A peer has frames of the one connection it has, and the broker has none.
LinkFits(p) ==
  /\ server[p] => phase[p] = "up" /\ link[p] = "none"
  /\ phase[p] \in Connecting \union {"new", "cut"} => link[p] = "none"
  /\ phase[p] = "up" /\ ~server[p] => link[p] \in {"pending", "accepted", "lost"}
  /\ up[p] # <<>> => link[p] \in {"pending", "accepted", "left"}
  /\ down[p] # <<>> => link[p] \in {"accepted", "lost"}

LinksFit == \A p \in Peers : LinkFits(p)

\* The events of q on their way to a broker are in order.
UpInOrder(q) ==
  /\ \A i \in DOMAIN up[q] : up[q][i][1] = q /\ up[q][i][2] <= sent[q]
  /\ \A i, j \in DOMAIN up[q] : i < j => up[q][i][2] < up[q][j][2]

\* The events of q on their way from a broker to p are new to p, in order, and
\* in front of those still on their way to a broker.
DownInOrder(p, q) ==
  /\ got[p][q] <= sent[q]
  /\ \A i \in DOMAIN down[p] : down[p][i][1] = q =>
       p # q /\ got[p][q] < down[p][i][2] /\ down[p][i][2] <= sent[q]
  /\ \A i, j \in DOMAIN down[p] :
       i < j /\ down[p][i][1] = q /\ down[p][j][1] = q => down[p][i][2] < down[p][j][2]
  /\ p # q => \A j \in DOMAIN up[q] :
       /\ got[p][q] < up[q][j][2]
       /\ \A i \in DOMAIN down[p] : down[p][i][1] = q => down[p][i][2] < up[q][j][2]

FramesInOrder == \A q \in Peers : UpInOrder(q) /\ \A p \in Peers : DownInOrder(p, q)

SocketInv == SocketShape /\ LinksFit /\ FramesInOrder

LEMMA SocketInitInv == SocketInit => SocketInv
<1> SUFFICES ASSUME SocketInit PROVE SocketInv
  OBVIOUS
<1>1. SocketShape
  BY DEF SocketInit, SocketShape, Contract!Init
<1>2. LinksFit
  BY DEF SocketInit, LinksFit, LinkFits
<1>3. FramesInOrder
  BY DEF SocketInit, FramesInOrder, UpInOrder, DownInOrder, Contract!Init
<1> QED
  BY <1>1, <1>2, <1>3 DEF SocketInv

\* Frames are dropped and nothing is published or dispatched.
LEMMA DroppedKeepsOrder ==
  ASSUME FramesInOrder, UNCHANGED <<sent, got>>,
         \A p \in Peers : up'[p] = up[p] \/ up'[p] = <<>>,
         \A p \in Peers : down'[p] = down[p] \/ down'[p] = <<>>
  PROVE  FramesInOrder'
<1>1. ASSUME NEW q \in Peers PROVE UpInOrder(q)'
  BY <1>1 DEF FramesInOrder, UpInOrder
<1>2. ASSUME NEW p \in Peers, NEW q \in Peers PROVE DownInOrder(p, q)'
  <2>1. DownInOrder(p, q)
    BY DEF FramesInOrder
  <2>2. CASE up'[q] = up[q]
    <3>1. CASE down'[p] = down[p]
      BY <2>1, <2>2, <3>1 DEF DownInOrder
    <3>2. CASE down'[p] = <<>>
      BY <2>1, <2>2, <3>2 DEF DownInOrder
    <3> QED
      BY <3>1, <3>2
  <2>3. CASE up'[q] = <<>>
    <3>1. CASE down'[p] = down[p]
      BY <2>1, <2>3, <3>1 DEF DownInOrder
    <3>2. CASE down'[p] = <<>>
      BY <2>1, <2>3, <3>2 DEF DownInOrder
    <3> QED
      BY <3>1, <3>2
  <2> QED
    BY <2>2, <2>3
<1> QED
  BY <1>1, <1>2 DEF FramesInOrder

\* A step of connect() or of a timer: no frame moves.
LEMMA QuietKeepsInv ==
  ASSUME SocketInv, UNCHANGED <<up, down, sent, got>>,
         DOMAIN phase' = Peers, DOMAIN link' = Peers, DOMAIN broker' = Peers,
         server' \in [Peers -> BOOLEAN], LinksFit'
  PROVE  SocketInv'
  BY DroppedKeepsOrder DEF SocketInv, SocketShape

QuietStep(p) ==
  \/ Start(p) \/ FindsNoBroker(p) \/ ClearsFile(p) \/ Binds(p) \/ AddressInUse(p) \/ GivesUp(p)
  \/ Reconnects(p) \/ StopUnlinks(p)

LEMMA QuietSteps ==
  ASSUME SocketInv, NEW p \in Peers, QuietStep(p) PROVE SocketInv'
<1> USE DEF SocketInv, SocketShape, LinksFit, LinkFits, Connecting
<1>1. CASE Start(p)
  BY <1>1, QuietKeepsInv DEF Start, Goes
<1>2. CASE FindsNoBroker(p)
  BY <1>2, QuietKeepsInv DEF FindsNoBroker, Goes
<1>3. CASE ClearsFile(p)
  BY <1>3, QuietKeepsInv DEF ClearsFile, Goes
<1>4. CASE Binds(p)
  BY <1>4, QuietKeepsInv DEF Binds, Goes
<1>5. CASE AddressInUse(p)
  BY <1>5, QuietKeepsInv DEF AddressInUse, Goes
<1>6. CASE GivesUp(p)
  BY <1>6, QuietKeepsInv DEF GivesUp, Goes
<1>7. CASE Reconnects(p)
  BY <1>7, QuietKeepsInv DEF Reconnects, Goes
<1>8. CASE StopUnlinks(p)
  BY <1>8, QuietKeepsInv DEF StopUnlinks, Goes
<1> QED
  BY <1>1, <1>2, <1>3, <1>4, <1>5, <1>6, <1>7, <1>8 DEF QuietStep

LEMMA AcceptsKeepsInv ==
  ASSUME SocketInv, NEW b \in Peers, NEW p \in Peers, Accepts(b, p) PROVE SocketInv'
<1>1. LinksFit'
  BY DEF Accepts, SocketInv, SocketShape, LinksFit, LinkFits, Connecting
<1> QED
  BY <1>1, QuietKeepsInv DEF Accepts, SocketInv, SocketShape

LEMMA ConnectsKeepsInv ==
  ASSUME SocketInv, NEW p \in Peers, NEW from \in {"looking", "again"}, Connects(p, from)
  PROVE  SocketInv'
<1>1. SocketShape'
  BY DEF Connects, Goes, SocketInv, SocketShape
<1>2. LinksFit'
  BY DEF Connects, Goes, SocketInv, SocketShape, LinksFit, LinkFits, Connecting
<1>3. FramesInOrder'
  BY DroppedKeepsOrder DEF Connects, SocketInv, SocketShape
<1> QED
  BY <1>1, <1>2, <1>3 DEF SocketInv

LEMMA BrokerDisconnectsKeepsInv ==
  ASSUME SocketInv, NEW p \in Peers, BrokerDisconnects(p) PROVE SocketInv'
<1>1. SocketShape'
  BY DEF BrokerDisconnects, SocketInv, SocketShape
<1>2. LinksFit'
  BY DEF BrokerDisconnects, SocketInv, SocketShape, LinksFit, LinkFits, Connecting
<1>3. FramesInOrder'
  BY DroppedKeepsOrder DEF BrokerDisconnects, SocketInv, SocketShape
<1> QED
  BY <1>1, <1>2, <1>3 DEF SocketInv

\* stop() or a crash of p, which does not go on with a connection.
LEMMA LeavesKeepsInv ==
  ASSUME SocketInv, NEW p \in Peers, Leaves(p), UNCHANGED <<broker, sent, got>>,
         DOMAIN phase' = Peers, \A q \in Peers \ {p} : phase'[q] = phase[q],
         phase'[p] # "up", phase'[p] = phase[p] \/ phase'[p] \notin Connecting \union {"new", "cut"}
  PROVE  SocketInv'
<1>1. /\ SocketShape /\ LinksFit /\ FramesInOrder
  BY DEF SocketInv
<1>2. /\ DOMAIN link' = Peers /\ DOMAIN up' = Peers /\ DOMAIN down' = Peers
      /\ server' = [server EXCEPT ![p] = FALSE]
      /\ down'[p] = <<>> /\ \A q \in Peers \ {p} : down'[q] = down[q]
      /\ \A q \in Peers : up'[q] = up[q] \/ up'[q] = <<>>
  BY <1>1 DEF Leaves, Unread, Closed, SocketShape
<1>3. ASSUME NEW q \in Peers \ {p}
      PROVE  \/ link'[q] = link[q] /\ up'[q] = up[q]
             \/ link'[q] = "lost" /\ up'[q] = <<>> /\ link[q] # "none"
             \/ link'[q] = link[q] /\ up'[q] = <<>>
  BY <1>1, <1>3 DEF Leaves, Unread, Closed, SocketShape
<1>4. /\ link[p] = "none" => link'[p] = "none" /\ up'[p] = <<>>
      /\ link[p] # "none" => link'[p] = "left"
  <2>1. LinkFits(p)
    BY <1>1 DEF LinksFit
  <2>2. CASE server[p]
    <3>1. link[p] = "none" /\ up[p] = <<>>
      BY <2>1, <2>2 DEF LinkFits
    <3> QED
      BY <1>1, <2>2, <3>1 DEF Leaves, Unread, Closed, SocketShape
  <2>3. CASE ~server[p]
    BY <1>1, <2>1, <2>3 DEF Leaves, SocketShape, LinkFits
  <2> QED
    BY <2>2, <2>3
<1>5. SocketShape'
  <2>1. up' \in [Peers -> Seq(Frame)] /\ down' \in [Peers -> Seq(Frame)]
    BY SMTT(30), <1>1 DEF Leaves, Unread, SocketShape
  <2> QED
    BY <1>1, <1>2, <2>1 DEF SocketShape
<1>6. LinksFit'
  <2>1. LinkFits(p)'
    BY <1>1, <1>2, <1>4 DEF LinksFit, LinkFits, SocketShape
  <2>2. ASSUME NEW q \in Peers \ {p} PROVE LinkFits(q)'
    <3>1. LinkFits(q) /\ phase'[q] = phase[q] /\ server'[q] = server[q] /\ down'[q] = down[q]
      BY <1>1, <1>2 DEF LinksFit, SocketShape
    <3> QED
      BY <1>3, <3>1 DEF LinkFits
  <2> QED
    BY <2>1, <2>2 DEF LinksFit
<1>7. FramesInOrder'
  BY <1>1, <1>2, DroppedKeepsOrder
<1> QED
  BY <1>5, <1>6, <1>7 DEF SocketInv

LEMMA StopKeepsInv ==
  ASSUME SocketInv, NEW p \in Peers, Stop(p) PROVE SocketInv'
<1>1. DOMAIN phase = Peers /\ (server[p] => phase[p] = "up")
  BY DEF SocketInv, SocketShape, LinksFit, LinkFits
<1>2. /\ DOMAIN phase' = Peers /\ \A q \in Peers \ {p} : phase'[q] = phase[q]
      /\ phase'[p] # "up" /\ (phase'[p] = phase[p] \/ phase'[p] \in {"closing", "failed"})
  BY <1>1 DEF Stop
<1>3. Leaves(p) /\ UNCHANGED <<broker, sent, got>>
  BY DEF Stop
<1> QED
  BY <1>2, <1>3, LeavesKeepsInv DEF Connecting

LEMMA PeerCrashesKeepsInv ==
  ASSUME SocketInv, NEW p \in Peers, PeerCrashes(p) PROVE SocketInv'
  BY LeavesKeepsInv DEF PeerCrashes, SocketInv, SocketShape, Connecting

----------------------------------------------------------------------------
(* Publishing and dispatching *)

LEMMA FrameFacts ==
  ASSUME NEW s \in Seq(Frame)
  PROVE  \A i \in DOMAIN s : s[i] \in Frame /\ s[i][1] \in Peers /\ s[i][2] \in Nat
<1>1. \A i \in DOMAIN s : s[i] \in Frame
  BY LenProperties
<1>2. \A e \in Frame : e[1] \in Peers /\ e[2] \in Nat
  BY DEF Frame
<1> QED
  BY <1>1, <1>2

\* An event that is new to r, put behind the others on their way to it.
LEMMA ForwardedInOrder ==
  ASSUME SocketShape, SocketShape', NEW r \in Peers, NEW q \in Peers, DownInOrder(r, q),
         NEW p \in Peers, NEW n \in Nat \ {0}, sent[q] <= sent'[q], n <= sent'[p],
         got'[r] = got[r],
         \/ down'[r] = down[r]
         \/ r # p /\ down'[r] = Append(down[r], <<p, n>>),
         q # p => up'[q] = up[q],
         q = p /\ r # p =>
           /\ got[r][p] < n /\ \A i \in DOMAIN down[r] : down[r][i][1] = p => down[r][i][2] < n
           /\ \A j \in DOMAIN up'[p] : n < up'[p][j][2]
  PROVE  DownInOrder(r, q)'
<1>1. /\ down[r] \in Seq(Frame) /\ up[q] \in Seq(Frame) /\ up'[q] \in Seq(Frame)
      /\ got[r][q] \in Nat /\ sent[q] \in Nat /\ sent'[q] \in Nat
      /\ <<p, n>> \in Frame /\ <<p, n>>[1] = p /\ <<p, n>>[2] = n
      /\ \A i \in DOMAIN down[r] : down[r][i] \in Frame /\ down[r][i][2] \in Nat
      /\ \A j \in DOMAIN up'[q] : up'[q][j][2] \in Nat
  <2>1. /\ down[r] \in Seq(Frame) /\ up[q] \in Seq(Frame) /\ up'[q] \in Seq(Frame)
        /\ got[r][q] \in Nat /\ sent[q] \in Nat /\ sent'[q] \in Nat
    BY DEF SocketShape
  <2>2. <<p, n>> \in Frame /\ <<p, n>>[1] = p /\ <<p, n>>[2] = n
    BY DEF Frame
  <2> QED
    BY <2>1, <2>2, FrameFacts
<1>2. CASE q = p /\ r = p
  BY <1>1, <1>2 DEF DownInOrder
<1>3. CASE q # p
  <2>1. CASE down'[r] = down[r]
    BY SMTT(30), <1>1, <1>3, <2>1 DEF DownInOrder
  <2>2. CASE down'[r] = Append(down[r], <<p, n>>)
    <3>1. /\ Len(down[r]) \in Nat /\ DOMAIN down[r] = 1..Len(down[r])
          /\ DOMAIN down'[r] = 1..(Len(down[r]) + 1)
          /\ \A i \in DOMAIN down[r] : down'[r][i] = down[r][i]
          /\ down'[r][Len(down[r]) + 1] = <<p, n>>
      BY <1>1, <2>2, AppendFacts
    <3>2. \A i \in DOMAIN down'[r] : down'[r][i][1] = q => i \in DOMAIN down[r]
      BY <1>1, <1>3, <3>1
    <3>3. \A i \in DOMAIN down'[r] : down'[r][i][1] = q =>
            r # q /\ got[r][q] < down'[r][i][2] /\ down'[r][i][2] <= sent'[q]
      <4> SUFFICES ASSUME NEW i \in DOMAIN down'[r], down'[r][i][1] = q
                   PROVE  r # q /\ got[r][q] < down'[r][i][2] /\ down'[r][i][2] <= sent'[q]
        OBVIOUS
      <4>1. i \in DOMAIN down[r] /\ down'[r][i] = down[r][i] /\ down[r][i][2] \in Nat
        BY <1>1, <3>1, <3>2
      <4>2. r # q /\ got[r][q] < down[r][i][2] /\ down[r][i][2] <= sent[q]
        BY <4>1 DEF DownInOrder
      <4> QED
        BY <1>1, <4>1, <4>2
    <3>4. \A i, j \in DOMAIN down'[r] :
            i < j /\ down'[r][i][1] = q /\ down'[r][j][1] = q => down'[r][i][2] < down'[r][j][2]
      BY <1>1, <1>3, <3>1, <3>2 DEF DownInOrder
    <3>5. r # q => \A j \in DOMAIN up'[q] : got[r][q] < up'[q][j][2] /\
            \A i \in DOMAIN down'[r] : down'[r][i][1] = q => down'[r][i][2] < up'[q][j][2]
      BY <1>1, <1>3, <3>1, <3>2 DEF DownInOrder
    <3>6. got'[r][q] <= sent'[q]
      BY <1>1 DEF DownInOrder
    <3> QED
      BY <3>3, <3>4, <3>5, <3>6 DEF DownInOrder
  <2> QED
    BY <2>1, <2>2
<1>4. CASE q = p /\ r # p
  <2>1. CASE down'[r] = down[r]
    BY SMTT(30), <1>1, <1>4, <2>1 DEF DownInOrder
  <2>2. CASE down'[r] = Append(down[r], <<p, n>>)
    <3>1. /\ Len(down[r]) \in Nat /\ DOMAIN down[r] = 1..Len(down[r])
          /\ DOMAIN down'[r] = 1..(Len(down[r]) + 1)
          /\ \A i \in DOMAIN down[r] : down'[r][i] = down[r][i]
          /\ down'[r][Len(down[r]) + 1] = <<p, n>>
      BY <1>1, <2>2, AppendFacts
    <3>2. \A i \in DOMAIN down'[r] : i \in DOMAIN down[r] \/ i = Len(down[r]) + 1
      BY <3>1
    <3>3. \A i \in DOMAIN down'[r] : down'[r][i][1] = q =>
            got[r][q] < down'[r][i][2] /\ down'[r][i][2] <= n
      <4> SUFFICES ASSUME NEW i \in DOMAIN down'[r], down'[r][i][1] = q
                   PROVE  got[r][q] < down'[r][i][2] /\ down'[r][i][2] <= n
        OBVIOUS
      <4>1. got[r][p] < n
        BY <1>4
      <4>2. CASE i \in DOMAIN down[r]
        <5>1. got[r][q] < down[r][i][2] /\ down[r][i][2] \in Nat /\ down[r][i][2] < n
          BY <1>1, <1>4, <3>1, <4>2 DEF DownInOrder
        <5> QED
          BY <3>1, <4>2, <5>1
      <4>3. CASE i = Len(down[r]) + 1
        BY <1>1, <1>4, <3>1, <4>1, <4>3
      <4> QED
        BY <3>2, <4>2, <4>3
    <3>4. \A i, j \in DOMAIN down'[r] :
            i < j /\ down'[r][i][1] = q /\ down'[r][j][1] = q => down'[r][i][2] < down'[r][j][2]
      <4> SUFFICES ASSUME NEW i \in DOMAIN down'[r], NEW j \in DOMAIN down'[r],
                          i < j, down'[r][i][1] = q, down'[r][j][1] = q
                   PROVE  down'[r][i][2] < down'[r][j][2]
        OBVIOUS
      <4>1. i \in DOMAIN down[r]
        BY <3>1
      <4>2. CASE j \in DOMAIN down[r]
        BY <3>1, <4>1, <4>2 DEF DownInOrder
      <4>3. CASE j = Len(down[r]) + 1
        BY <1>1, <1>4, <3>1, <4>1, <4>3
      <4> QED
        BY <3>2, <4>2, <4>3
    <3>5. \A j \in DOMAIN up'[q] : got[r][q] < up'[q][j][2] /\
            \A i \in DOMAIN down'[r] : down'[r][i][1] = q => down'[r][i][2] < up'[q][j][2]
      <4> SUFFICES ASSUME NEW j \in DOMAIN up'[q]
                   PROVE  /\ got[r][q] < up'[q][j][2]
                          /\ \A i \in DOMAIN down'[r] : down'[r][i][1] = q =>
                               down'[r][i][2] < up'[q][j][2]
        OBVIOUS
      <4>1. n < up'[q][j][2] /\ got[r][q] < n /\ up'[q][j][2] \in Nat
        BY <1>1, <1>4
      <4>2. \A i \in DOMAIN down[r] : down[r][i][1] = q => down[r][i][2] < n
        BY <1>4
      <4>3. ASSUME NEW i \in DOMAIN down'[r], down'[r][i][1] = q
            PROVE  down'[r][i][2] < up'[q][j][2]
        <5>1. CASE i \in DOMAIN down[r]
          <6>1. down'[r][i] = down[r][i] /\ down[r][i][2] \in Nat
            BY <1>1, <3>1, <5>1
          <6>2. down[r][i][2] < n
            BY <4>2, <4>3, <5>1, <6>1
          <6> QED
            BY <4>1, <6>1, <6>2
        <5>2. CASE i = Len(down[r]) + 1
          BY <1>1, <3>1, <4>1, <5>2
        <5> QED
          BY <3>2, <5>1, <5>2
      <4> QED
        BY <1>1, <4>1, <4>3
    <3>6. got'[r][q] <= sent'[q]
      BY <1>1 DEF DownInOrder
    <3>7. \A i \in DOMAIN down'[r] : down'[r][i][1] = q => down'[r][i][2] <= sent'[q]
      <4>1. sent'[p] \in Nat
        BY DEF SocketShape
      <4>2. down'[r] \in Seq(Frame)
        BY DEF SocketShape
      <4> QED
        BY <1>4, <3>3, <4>1, <4>2, FrameFacts
    <3> QED
      BY <1>4, <3>3, <3>4, <3>5, <3>6, <3>7 DEF DownInOrder
  <2> QED
    BY <2>1, <2>2
<1> QED
  BY <1>2, <1>3, <1>4

\* What the steps that move a frame keep of the shape.
LEMMA FramesFacts ==
  ASSUME SocketInv, NEW p \in Peers
  PROVE  /\ SocketShape /\ LinksFit /\ FramesInOrder /\ LinkFits(p)
         /\ sent[p] \in Nat /\ up[p] \in Seq(Frame) /\ down[p] \in Seq(Frame)
         /\ got[p] \in [Peers -> Nat]
         /\ UpInOrder(p) /\ \A q \in Peers : DownInOrder(p, q) /\ DownInOrder(q, p)
  BY DEF SocketInv, SocketShape, LinksFit, FramesInOrder

LEMMA BrokerReadsKeepsInv ==
  ASSUME SocketInv, NEW b \in Peers, NEW p \in Peers, BrokerReads(b, p) PROVE SocketInv'
<1>1. /\ SocketShape /\ LinksFit /\ FramesInOrder
      /\ server[b] /\ up[p] # <<>> /\ link[p] \in {"accepted", "left"}
      /\ UNCHANGED <<phase, server, broker, link, sent>>
  BY FramesFacts DEF BrokerReads
<1>2. link[b] = "none" /\ b # p /\ down[b] = <<>>
  BY <1>1 DEF LinksFit, LinkFits
<1>3. PICK n \in Nat \ {0} : Head(up[p]) = <<p, n>> /\ n = up[p][1][2] /\ n <= sent[p]
  <2>1. Head(up[p]) = up[p][1] /\ up[p][1] \in Frame /\ 1 \in DOMAIN up[p]
    BY <1>1, FramesFacts, TailFacts
  <2>2. up[p][1][1] = p /\ up[p][1][2] <= sent[p]
    BY <2>1, FramesFacts DEF UpInOrder
  <2> QED
    BY <2>1, <2>2 DEF Frame
<1>4. /\ up' = [up EXCEPT ![p] = Tail(@)]
      /\ down' = Fanout(b, <<p, n>>, p)
      /\ got' = IF Listens(b) THEN [got EXCEPT ![b][p] = n] ELSE got
  <2>1. <<p, n>>[1] = p /\ <<p, n>>[2] = n
    OBVIOUS
  <2>2. DispatchToCallbacks(b, <<p, n>>)
    BY <1>3 DEF BrokerReads
  <2> QED
    BY <1>3, <2>1, <2>2 DEF BrokerReads, DispatchToCallbacks
<1>5. /\ Tail(up[p]) \in Seq(Frame) /\ up[p] \in Seq(Frame) /\ <<p, n>> \in Frame
      /\ Len(up[p]) \in Nat \ {0} /\ DOMAIN up[p] = 1..Len(up[p]) /\ 1 \in DOMAIN up[p]
      /\ DOMAIN Tail(up[p]) = 1..(Len(up[p]) - 1)
      /\ \A i \in DOMAIN Tail(up[p]) : i + 1 \in DOMAIN up[p] /\ Tail(up[p])[i] = up[p][i + 1]
      /\ \A i \in DOMAIN up[p] : up[p][i][2] \in Nat
  <2>1. up[p] \in Seq(Frame) /\ up[p] # <<>>
    BY <1>1, FramesFacts
  <2>2. <<p, n>> \in Frame
    BY DEF Frame
  <2>. QED BY <2>1, <2>2, TailFacts, FrameFacts
<1>6. SocketShape'
  <2>1. up' \in [Peers -> Seq(Frame)] /\ got' \in [Peers -> [Peers -> Nat]]
    BY <1>1, <1>4, <1>5 DEF SocketShape
  <2>2. down' \in [Peers -> Seq(Frame)]
    BY <1>1, <1>4, <1>5, AppendFacts DEF SocketShape, Fanout
  <2> QED
    BY <1>1, <2>1, <2>2 DEF SocketShape
<1>7. \A r \in Peers : \/ down'[r] = down[r]
                       \/ r # p /\ link[r] = "accepted" /\ down'[r] = Append(down[r], <<p, n>>)
  BY <1>4 DEF Fanout, Subscribers
<1>8. LinksFit'
  <2> SUFFICES ASSUME NEW r \in Peers PROVE LinkFits(r)'
    BY DEF LinksFit
  <2>1. LinkFits(r) /\ (up'[r] # <<>> => up[r] # <<>>)
        /\ (down'[r] # <<>> => down[r] # <<>> \/ link[r] = "accepted")
    BY <1>1, <1>4, <1>7, FramesFacts DEF SocketShape
  <2> QED
    BY <1>1, <2>1 DEF LinkFits
<1>9. FramesInOrder'
  <2>1. ASSUME NEW q \in Peers PROVE UpInOrder(q)'
    <3>1. CASE q # p
      BY <1>1, <1>4, <3>1, FramesFacts DEF UpInOrder, SocketShape
    <3>2. CASE q = p
      <4>1. up'[p] = Tail(up[p])
        BY <1>1, <1>4 DEF SocketShape
      <4> QED
        BY SMTT(30), <1>1, <1>5, <3>2, <4>1, FramesFacts DEF UpInOrder
    <3> QED
      BY <3>1, <3>2
  <2>2. ASSUME NEW r \in Peers, NEW q \in Peers PROVE DownInOrder(r, q)'
    <3>1. DownInOrder(r, q) /\ DownInOrder(r, p) /\ UpInOrder(p)
      BY FramesFacts
    <3>2. q # p => up'[q] = up[q]
      BY <1>1, <1>4 DEF SocketShape
    <3>3. /\ up'[p] = Tail(up[p])
          /\ \A j \in DOMAIN up'[p] : j + 1 \in DOMAIN up[p] /\ up'[p][j] = up[p][j + 1]
          /\ \A j \in DOMAIN up'[p] : n < up'[p][j][2]
      <4>1. up'[p] = Tail(up[p])
        BY <1>1, <1>4 DEF SocketShape
      <4>2. \A j \in DOMAIN up[p] : 1 < j => n < up[p][j][2]
        BY <1>3, <1>5, <3>1 DEF UpInOrder
      <4> QED
        BY <1>5, <4>1, <4>2
    <3>4. r # p => got[r][p] < n /\ \A i \in DOMAIN down[r] : down[r][i][1] = p => down[r][i][2] < n
      BY <1>3, <1>5, <3>1 DEF DownInOrder
    <3>5. CASE r # b
      <4>1. got'[r] = got[r]
        BY <1>1, <1>4, <3>5 DEF SocketShape
      <4>2. sent[q] <= sent'[q] /\ n <= sent'[p]
        BY <1>1, <1>3, FramesFacts
      <4>3. \/ down'[r] = down[r]
            \/ r # p /\ down'[r] = Append(down[r], <<p, n>>)
        BY <1>7
      <4> QED
        BY <1>1, <1>6, <3>1, <3>2, <3>3, <3>4, <4>1, <4>2, <4>3, ForwardedInOrder
    <3>6. CASE r = b
      <4>1. down'[b] = <<>> /\ DOMAIN down'[b] = {}
        BY <1>2, <1>7
      <4>2. /\ got'[b][q] = got[b][q] \/ (q = p /\ got'[b][q] = n)
            /\ got[b][q] \in Nat
        BY <1>1, <1>4 DEF SocketShape
      <4>3. q = p => \A j \in DOMAIN up'[p] : got[b][p] < up'[p][j][2]
        BY <1>2, <1>3, <1>5, <3>3, <3>4, <3>6, <4>2
      <4>4. got'[b][q] <= sent'[q]
        <5>1. got[b][q] <= sent[q] /\ sent'[q] = sent[q]
          BY <1>1, <3>1, <3>6 DEF DownInOrder
        <5> QED
          BY <1>3, <4>2, <5>1
      <4>5. ASSUME b # q, NEW j \in DOMAIN up'[q] PROVE got'[b][q] < up'[q][j][2]
        <5>1. CASE q = p
          <6>1. j \in DOMAIN up'[p] /\ up'[q][j] = up'[p][j]
            BY <4>5, <5>1
          <6>2. got[b][p] < up'[p][j][2] /\ n < up'[p][j][2]
            BY <3>3, <4>3, <5>1, <6>1
          <6> QED
            BY <4>2, <5>1, <6>1, <6>2
        <5>2. CASE q # p
          <6>1. got'[b][q] = got[b][q] /\ up'[q] = up[q]
            BY <3>2, <4>2, <5>2
          <6> QED
            BY <3>1, <3>6, <4>5, <6>1 DEF DownInOrder
        <5> QED
          BY <5>1, <5>2
      <4>6. DownInOrder(b, q)'
        BY <4>1, <4>4, <4>5 DEF DownInOrder
      <4> QED
        BY <3>6, <4>6
    <3> QED
      BY <3>5, <3>6
  <2> QED
    BY <2>1, <2>2 DEF FramesInOrder
<1> QED
  BY <1>6, <1>8, <1>9 DEF SocketInv

LEMMA ClientReadsKeepsInv ==
  ASSUME SocketInv, NEW p \in Peers, ClientReads(p) PROVE SocketInv'
<1>1. /\ SocketShape /\ LinksFit /\ FramesInOrder
      /\ down[p] # <<>> /\ down[p] \in Seq(Frame)
      /\ UNCHANGED <<phase, server, broker, link, up, sent>>
  BY FramesFacts DEF ClientReads
<1>2. /\ Tail(down[p]) \in Seq(Frame)
      /\ Len(down[p]) \in Nat \ {0} /\ DOMAIN down[p] = 1..Len(down[p]) /\ 1 \in DOMAIN down[p]
      /\ DOMAIN Tail(down[p]) = 1..(Len(down[p]) - 1)
      /\ \A i \in DOMAIN Tail(down[p]) : i + 1 \in DOMAIN down[p] /\ Tail(down[p])[i] = down[p][i + 1]
      /\ \A i \in DOMAIN down[p] : down[p][i][2] \in Nat
      /\ Head(down[p]) = down[p][1]
  BY <1>1, TailFacts, FrameFacts
<1>3. PICK s \in Peers, n \in Nat : Head(down[p]) = <<s, n>>
  BY <1>1, TailFacts DEF Frame
<1>4. down[p][1][1] = s /\ down[p][1][2] = n
  BY <1>2, <1>3
<1>5. /\ down' = [down EXCEPT ![p] = Tail(@)]
      /\ got' = IF Listens(p) THEN [got EXCEPT ![p][s] = n] ELSE got
  <2>1. <<s, n>>[1] = s /\ <<s, n>>[2] = n
    OBVIOUS
  <2>2. DispatchToCallbacks(p, <<s, n>>)
    BY <1>3 DEF ClientReads
  <2> QED
    BY <2>1, <2>2 DEF ClientReads, DispatchToCallbacks
<1>6. SocketShape'
  BY <1>1, <1>2, <1>5 DEF SocketShape
<1>7. LinksFit'
  <2> SUFFICES ASSUME NEW r \in Peers PROVE LinkFits(r)'
    BY DEF LinksFit
  <2>1. LinkFits(r) /\ (down'[r] # <<>> => down[r] # <<>>)
    BY <1>1, <1>5, FramesFacts DEF SocketShape
  <2> QED
    BY <1>1, <2>1 DEF LinkFits
<1>8. FramesInOrder'
  <2>1. ASSUME NEW q \in Peers PROVE UpInOrder(q)'
    BY <1>1, FramesFacts DEF UpInOrder
  <2>2. ASSUME NEW r \in Peers, NEW q \in Peers PROVE DownInOrder(r, q)'
    <3>1. DownInOrder(r, q)
      BY FramesFacts
    <3>2. CASE r # p
      <4>1. down'[r] = down[r] /\ got'[r] = got[r]
        BY <1>1, <1>5, <3>2 DEF SocketShape
      <4> QED
        BY <1>1, <3>1, <4>1 DEF DownInOrder
    <3>3. CASE r = p
      <4>1. /\ down'[p] = Tail(down[p])
            /\ \A i \in DOMAIN down'[p] :
                 i \in Nat \ {0} /\ i + 1 \in DOMAIN down[p] /\ down'[p][i] = down[p][i + 1]
        <5>1. down'[p] = Tail(down[p])
          BY <1>1, <1>5 DEF SocketShape
        <5> QED
          BY <1>2, <5>1
      <4>2. /\ got'[p][q] = got[p][q] \/ (q = s /\ got'[p][q] = n)
            /\ got[p][q] \in Nat
        BY <1>1, <1>5 DEF SocketShape
      <4>3. q = s => p # s /\ n <= sent[s]
        BY <1>2, <1>4, <3>1, <3>3 DEF DownInOrder
      <4>4. \A i \in DOMAIN down'[p] : down'[p][i][1] = q =>
              p # q /\ got'[p][q] < down'[p][i][2] /\ down'[p][i][2] <= sent[q]
        <5> SUFFICES ASSUME NEW i \in DOMAIN down'[p], down'[p][i][1] = q
                     PROVE  p # q /\ got'[p][q] < down'[p][i][2] /\ down'[p][i][2] <= sent[q]
          OBVIOUS
        <5>1. /\ i \in Nat \ {0} /\ i + 1 \in DOMAIN down[p] /\ down'[p][i] = down[p][i + 1]
              /\ 1 < i + 1
          BY <4>1
        <5>2. p # q /\ got[p][q] < down[p][i + 1][2] /\ down[p][i + 1][2] <= sent[q]
          BY <3>1, <3>3, <5>1 DEF DownInOrder
        <5>3. q = s => n < down[p][i + 1][2]
          BY <1>2, <1>4, <3>1, <3>3, <5>1 DEF DownInOrder
        <5> QED
          BY <4>2, <5>1, <5>2, <5>3
      <4>5. \A i, j \in DOMAIN down'[p] : i < j /\ down'[p][i][1] = q /\ down'[p][j][1] = q =>
              down'[p][i][2] < down'[p][j][2]
        <5> SUFFICES ASSUME NEW i \in DOMAIN down'[p], NEW j \in DOMAIN down'[p],
                            i < j, down'[p][i][1] = q, down'[p][j][1] = q
                     PROVE  down'[p][i][2] < down'[p][j][2]
          OBVIOUS
        <5>1. /\ i + 1 \in DOMAIN down[p] /\ down'[p][i] = down[p][i + 1]
              /\ j + 1 \in DOMAIN down[p] /\ down'[p][j] = down[p][j + 1]
              /\ i + 1 < j + 1
          BY <4>1
        <5> QED
          BY <3>1, <3>3, <5>1 DEF DownInOrder
      <4>6. p # q => \A j \in DOMAIN up[q] : got'[p][q] < up[q][j][2] /\
              \A i \in DOMAIN down'[p] : down'[p][i][1] = q => down'[p][i][2] < up[q][j][2]
        BY <1>2, <1>4, <3>1, <3>3, <4>1, <4>2 DEF DownInOrder
      <4>7. got'[p][q] <= sent[q]
        BY <3>1, <3>3, <4>2, <4>3 DEF DownInOrder
      <4> QED
        BY <1>1, <3>3, <4>4, <4>5, <4>6, <4>7 DEF DownInOrder
    <3> QED
      BY <3>2, <3>3
  <2> QED
    BY <2>1, <2>2 DEF FramesInOrder
<1> QED
  BY <1>6, <1>7, <1>8 DEF SocketInv

\* An event that p publishes is the newest of all those of p.
LEMMA SendMessageKeepsInv ==
  ASSUME SocketInv, NEW p \in Peers, SendMessage(p) PROVE SocketInv'
<1> DEFINE n == sent[p] + 1
<1>1. /\ SocketShape /\ LinksFit /\ FramesInOrder
      /\ phase[p] = "up" /\ UNCHANGED <<phase, server, broker, link>>
      /\ sent' = [sent EXCEPT ![p] = n] /\ n \in Nat /\ sent[p] \in Nat /\ sent[p] < n
      /\ <<p, n>> \in Frame /\ <<p, n>>[1] = p /\ <<p, n>>[2] = n
  BY FramesFacts DEF SendMessage, Frame
<1>2. got' = IF Listens(p) THEN [got EXCEPT ![p][p] = n] ELSE got
  <2>1. DispatchToCallbacks(p, <<p, n>>)
    BY DEF SendMessage
  <2> QED
    BY <1>1, <2>1 DEF DispatchToCallbacks
<1>3. /\ sent'[p] = n /\ \A q \in Peers : sent[q] <= sent'[q] /\ sent[q] \in Nat /\ sent'[q] \in Nat
      /\ \A q \in Peers \ {p} : sent'[q] = sent[q]
      /\ \A r \in Peers, q \in Peers : r # p \/ q # p => got'[r][q] = got[r][q]
      /\ \A r \in Peers \ {p} : got'[r] = got[r]
      /\ got'[p][p] = n \/ got'[p][p] = got[p][p]
      /\ sent' \in [Peers -> Nat] /\ got' \in [Peers -> [Peers -> Nat]]
  BY <1>1, <1>2 DEF SocketShape
<1> HIDE DEF n
<1>4. \A r \in Peers : DownInOrder(r, p) /\ got[r][p] <= sent[p] /\ got[r][p] \in Nat
        /\ \A i \in DOMAIN down[r] : down[r][i][1] = p => down[r][i][2] < n
  <2> SUFFICES ASSUME NEW r \in Peers
               PROVE  DownInOrder(r, p) /\ got[r][p] <= sent[p] /\ got[r][p] \in Nat
                      /\ \A i \in DOMAIN down[r] : down[r][i][1] = p => down[r][i][2] < n
    OBVIOUS
  <2>1. DownInOrder(r, p) /\ down[r] \in Seq(Frame) /\ got[r][p] \in Nat
    BY <1>1, FramesFacts DEF SocketShape
  <2>2. \A i \in DOMAIN down[r] : down[r][i][2] \in Nat
    BY <2>1, FrameFacts
  <2> QED
    BY <1>1, <2>1, <2>2 DEF DownInOrder
<1>5. CASE server[p]
  <2>1. /\ link[p] = "none" /\ up[p] = <<>> /\ UNCHANGED up
        /\ down' = Fanout(p, <<p, n>>, Nobody)
    BY <1>1, <1>5, FramesFacts DEF SendMessage, LinkFits, n
  <2>2. \A r \in Peers : \/ down'[r] = down[r]
                         \/ r # p /\ link[r] = "accepted" /\ down'[r] = Append(down[r], <<p, n>>)
    BY <2>1 DEF Fanout, Subscribers
  <2>3. SocketShape'
    <3>1. down' \in [Peers -> Seq(Frame)]
      BY <1>1, <2>1, AppendFacts DEF SocketShape, Fanout
    <3> QED
      BY <1>1, <1>3, <2>1, <3>1 DEF SocketShape
  <2>4. LinksFit'
    BY <1>1, <2>1, <2>2 DEF LinksFit, LinkFits
  <2>5. ASSUME NEW q \in Peers PROVE UpInOrder(q)'
    <3>1. CASE q = p
      BY <2>1, <3>1 DEF UpInOrder
    <3>2. CASE q # p
      BY <1>1, <1>3, <2>1, <3>2, FramesFacts DEF UpInOrder
    <3> QED
      BY <3>1, <3>2
  <2>6. ASSUME NEW r \in Peers, NEW q \in Peers PROVE DownInOrder(r, q)'
    <3>1. DownInOrder(r, q)
      BY FramesFacts
    <3>2. CASE r # p
      <4>1. \A j \in DOMAIN up'[p] : n < up'[p][j][2]
        BY <2>1
      <4>2. q = p /\ r # p => got[r][p] < n
        BY <1>1, <1>4
      <4>3. got'[r] = got[r] /\ sent[q] <= sent'[q] /\ n <= sent'[p] /\ up'[q] = up[q]
        BY <1>1, <1>3, <2>1, <3>2
      <4>4. \/ down'[r] = down[r]
            \/ r # p /\ down'[r] = Append(down[r], <<p, n>>)
        BY <2>2
      <4> QED
        BY <1>1, <1>4, <2>3, <3>1, <4>1, <4>2, <4>3, <4>4, ForwardedInOrder
    <3>3. CASE r = p
      <4>1. down'[p] = down[p] /\ down[p] = <<>>
        BY <1>1, <2>1, <2>2, FramesFacts DEF LinkFits
      <4> QED
        <5>1. DOMAIN down'[p] = {}
          BY <4>1
        <5>2. CASE q = p
          <6>1. got'[p][p] <= sent'[p]
            BY <1>1, <1>3, <1>4
          <6> QED
            BY <3>3, <5>1, <5>2, <6>1 DEF DownInOrder
        <5>3. CASE q # p
          BY ZenonT(40), <1>3, <2>1, <3>1, <3>3, <5>1, <5>3 DEF DownInOrder
        <5> QED
          BY <5>2, <5>3
    <3> QED
      BY <3>2, <3>3
  <2> QED
    BY <2>3, <2>4, <2>5, <2>6 DEF SocketInv, FramesInOrder
<1>6. CASE ~server[p]
  <2>1. /\ UNCHANGED down /\ link[p] \in {"pending", "accepted", "lost"}
        /\ up' = IF link[p] = "lost" THEN up ELSE [up EXCEPT ![p] = Append(@, <<p, n>>)]
    BY <1>1, <1>6, FramesFacts DEF SendMessage, LinkFits, n
  <2>2. /\ \A q \in Peers \ {p} : up'[q] = up[q]
        /\ up'[p] = up[p] \/ (link[p] # "lost" /\ up'[p] = Append(up[p], <<p, n>>))
        /\ up' \in [Peers -> Seq(Frame)]
    BY <1>1, <2>1, AppendFacts DEF SocketShape
  <2>3. SocketShape'
    BY <1>1, <1>3, <2>1, <2>2 DEF SocketShape
  <2>4. LinksFit'
    BY <1>1, <2>1, <2>2 DEF LinksFit, LinkFits
  <2>5. /\ DOMAIN up[p] \subseteq DOMAIN up'[p]
        /\ \A j \in DOMAIN up[p] : up'[p][j] = up[p][j] /\ up[p][j][1] = p
                                /\ up[p][j][2] <= sent[p] /\ up[p][j][2] \in Nat
        /\ \A j \in DOMAIN up'[p] : j \in DOMAIN up[p] \/ up'[p][j] = <<p, n>>
        /\ \A i, j \in DOMAIN up'[p] : i < j => i \in DOMAIN up[p]
    <3>1. up[p] \in Seq(Frame) /\ UpInOrder(p) /\ \A j \in DOMAIN up[p] : up[p][j][2] \in Nat
      BY FramesFacts, FrameFacts
    <3>2. Len(up[p]) \in Nat /\ DOMAIN up[p] = 1..Len(up[p])
      BY <3>1, LenProperties
    <3>3. CASE up'[p] = up[p]
      BY <3>1, <3>2, <3>3 DEF UpInOrder
    <3>4. CASE up'[p] = Append(up[p], <<p, n>>)
      <4>1. /\ DOMAIN up'[p] = 1..(Len(up[p]) + 1)
            /\ \A i \in DOMAIN up[p] : up'[p][i] = up[p][i]
            /\ up'[p][Len(up[p]) + 1] = <<p, n>>
        BY <1>1, <3>1, <3>4, AppendFacts
      <4> QED
        BY <3>1, <3>2, <4>1 DEF UpInOrder
    <3> QED
      BY <2>2, <3>3, <3>4
  <2>6. ASSUME NEW q \in Peers PROVE UpInOrder(q)'
    <3>1. CASE q # p
      BY ZenonT(40), <1>3, <2>2, <3>1, FramesFacts DEF UpInOrder
    <3>2. CASE q = p
      <4>1. \A i \in DOMAIN up'[p] : up'[p][i][1] = p /\ up'[p][i][2] <= n
        BY <1>1, <2>5
      <4>2. \A i, j \in DOMAIN up'[p] : i < j => up'[p][i][2] < up'[p][j][2]
        <5> SUFFICES ASSUME NEW i \in DOMAIN up'[p], NEW j \in DOMAIN up'[p], i < j
                     PROVE  up'[p][i][2] < up'[p][j][2]
          OBVIOUS
        <5>1. i \in DOMAIN up[p]
          BY <2>5
        <5>2. CASE j \in DOMAIN up[p]
          BY <2>5, <5>1, <5>2, FramesFacts DEF UpInOrder
        <5>3. CASE up'[p][j] = <<p, n>>
          BY <1>1, <2>5, <5>1, <5>3
        <5> QED
          BY <2>5, <5>2, <5>3
      <4> QED
        BY <1>3, <3>2, <4>1, <4>2 DEF UpInOrder
    <3> QED
      BY <3>1, <3>2
  <2>7. ASSUME NEW r \in Peers, NEW q \in Peers PROVE DownInOrder(r, q)'
    <3>1. DownInOrder(r, q) /\ down'[r] = down[r]
      BY <2>1, FramesFacts
    <3>2. CASE q # p
      BY ZenonT(40), <1>3, <2>2, <3>1, <3>2 DEF DownInOrder
    <3>3. CASE q = p /\ r = p
      BY <1>1, <1>3, <1>4, <3>1, <3>3 DEF DownInOrder
    <3>4. CASE q = p /\ r # p
      <4>1. got'[r][p] = got[r][p] /\ got[r][p] <= n /\ got[r][p] < n
        BY <1>1, <1>3, <1>4, <3>4
      <4>2. \A i \in DOMAIN down[r] : down[r][i][1] = p =>
              down[r][i][2] < n /\ got[r][p] < down[r][i][2] /\ down[r][i][2] <= sent[p]
        BY <1>4, <3>1, <3>4 DEF DownInOrder
      <4>3. \A j \in DOMAIN up'[p] : got[r][p] < up'[p][j][2] /\
              \A i \in DOMAIN down[r] : down[r][i][1] = p => down[r][i][2] < up'[p][j][2]
        <5> SUFFICES ASSUME NEW j \in DOMAIN up'[p]
                     PROVE  got[r][p] < up'[p][j][2] /\
                       \A i \in DOMAIN down[r] : down[r][i][1] = p => down[r][i][2] < up'[p][j][2]
          OBVIOUS
        <5>1. CASE j \in DOMAIN up[p]
          BY <2>5, <3>1, <3>4, <5>1 DEF DownInOrder
        <5>2. CASE up'[p][j] = <<p, n>>
          BY <1>1, <4>1, <4>2, <5>2
        <5> QED
          BY <2>5, <5>1, <5>2
      <4>4. \A i \in DOMAIN down[r] : down[r][i][1] = p => down[r][i][2] <= n
        <5>1. \A i \in DOMAIN down[r] : down[r][i][2] \in Nat
          BY <1>1, FramesFacts, FrameFacts
        <5> QED
          BY <1>1, <4>2, <5>1
      <4> QED
        BY <1>3, <3>1, <3>4, <4>1, <4>2, <4>3, <4>4 DEF DownInOrder
    <3> QED
      BY <3>2, <3>3, <3>4
  <2> QED
    BY <2>3, <2>4, <2>6, <2>7 DEF SocketInv, FramesInOrder
<1> QED
  BY <1>5, <1>6

LEMMA SocketStepInv == SocketInv /\ [SocketNext]_socketVars => SocketInv'
<1> SUFFICES ASSUME SocketInv, [SocketNext]_socketVars PROVE SocketInv'
  OBVIOUS
<1>1. ASSUME UNCHANGED socketVars PROVE SocketInv'
  BY <1>1, QuietKeepsInv DEF socketVars, SocketInv, SocketShape, LinksFit, LinkFits
<1>2. ASSUME NEW p \in Peers, QuietStep(p) PROVE SocketInv'
  BY <1>2, QuietSteps
<1>3. ASSUME NEW p \in Peers, Connects(p, "looking") \/ Connects(p, "again") PROVE SocketInv'
  BY <1>3, ConnectsKeepsInv
<1>4. ASSUME NEW p \in Peers, NEW b \in Peers, Accepts(b, p) \/ BrokerReads(b, p) PROVE SocketInv'
  BY <1>4, AcceptsKeepsInv, BrokerReadsKeepsInv
<1> QED
  BY <1>1, <1>2, <1>3, <1>4, BrokerDisconnectsKeepsInv, SendMessageKeepsInv, ClientReadsKeepsInv,
     StopKeepsInv, PeerCrashesKeepsInv DEF SocketNext, QuietStep

LEMMA SocketInvariance == SocketSpec => []SocketInv
  BY SocketInitInv, SocketStepInv, PTL DEF SocketSpec

\* Only three steps publish or dispatch, each as the contract says.
LEMMA SocketStepIsContract ==
  ASSUME SocketInv, [SocketNext]_socketVars
  PROVE  Contract!Next \/ UNCHANGED <<sent, got>>
<1>1. ASSUME NEW p \in Peers, SendMessage(p) PROVE Contract!Next
  <2>1. sent' = [sent EXCEPT ![p] = @ + 1] /\ sent'[p] = sent[p] + 1
    BY <1>1, FramesFacts DEF SendMessage, SocketShape
  <2>2. DispatchToCallbacks(p, <<p, sent[p] + 1>>)
    BY <1>1 DEF SendMessage
  <2>3. got' = [got EXCEPT ![p][p] = sent'[p]] \/ UNCHANGED got
    BY <2>1, <2>2 DEF DispatchToCallbacks
  <2> QED
    BY <2>1, <2>3 DEF Contract!Next, Contract!Publish
<1>2. ASSUME NEW p \in Peers, NEW q \in Peers, NEW n \in Nat, got[p][q] < n, n <= sent[q],
             DispatchToCallbacks(p, <<q, n>>), UNCHANGED sent
      PROVE  Contract!Next \/ UNCHANGED <<sent, got>>
  <2>1. n \in (got[p][q] + 1)..sent[q]
    BY <1>2, FramesFacts
  <2>2. got' = [got EXCEPT ![p][q] = n] \/ UNCHANGED got
    BY <1>2 DEF DispatchToCallbacks
  <2> QED
    BY <1>2, <2>1, <2>2 DEF Contract!Next, Contract!Dispatch
<1>3. ASSUME NEW p \in Peers, NEW b \in Peers, BrokerReads(b, p)
      PROVE  Contract!Next \/ UNCHANGED <<sent, got>>
  <2>1. /\ server[b] /\ up[p] # <<>> /\ link[p] \in {"accepted", "left"}
        /\ DispatchToCallbacks(b, Head(up[p])) /\ UNCHANGED sent
    BY <1>3 DEF BrokerReads
  <2>2. b # p
    BY <2>1, FramesFacts DEF LinkFits
  <2>3. Head(up[p]) = up[p][1] /\ 1 \in DOMAIN up[p] /\ up[p][1] \in Frame
    BY <2>1, FramesFacts, TailFacts
  <2>4. up[p][1][1] = p /\ up[p][1][2] <= sent[p] /\ got[b][p] < up[p][1][2]
    BY <2>2, <2>3, FramesFacts DEF UpInOrder, DownInOrder
  <2>5. PICK n \in Nat : Head(up[p]) = <<p, n>> /\ n = up[p][1][2]
    BY <2>3, <2>4 DEF Frame
  <2> QED
    BY <1>2, <2>1, <2>4, <2>5
<1>4. ASSUME NEW p \in Peers, ClientReads(p)
      PROVE  Contract!Next \/ UNCHANGED <<sent, got>>
  <2>1. down[p] # <<>> /\ DispatchToCallbacks(p, Head(down[p])) /\ UNCHANGED sent
    BY <1>4 DEF ClientReads
  <2>2. Head(down[p]) = down[p][1] /\ 1 \in DOMAIN down[p] /\ down[p][1] \in Frame
    BY <2>1, FramesFacts, TailFacts
  <2>3. PICK q \in Peers, n \in Nat : down[p][1] = <<q, n>>
    BY <2>2 DEF Frame
  <2>4. down[p][1][1] = q /\ down[p][1][2] = n
    BY <2>3
  <2>5. got[p][q] < n /\ n <= sent[q]
    BY <2>2, <2>4, FramesFacts DEF DownInOrder
  <2> QED
    BY <1>2, <2>1, <2>2, <2>3, <2>5
<1>5. ASSUME NEW p \in Peers,
             \/ QuietStep(p) \/ Connects(p, "looking") \/ Connects(p, "again")
             \/ BrokerDisconnects(p) \/ Stop(p) \/ PeerCrashes(p)
             \/ \E b \in Peers : Accepts(b, p)
      PROVE  UNCHANGED <<sent, got>>
  BY <1>5 DEF QuietStep, Start, FindsNoBroker, ClearsFile, Binds, AddressInUse, GivesUp, Reconnects,
              StopUnlinks, Connects, BrokerDisconnects, Stop, PeerCrashes, Accepts
<1> QED
  BY <1>1, <1>3, <1>4, <1>5 DEF SocketNext, QuietStep, socketVars

\* SocketPubSubService dispatches an event at most once to each consumer, and
\* the events of a publisher in order, whatever brokers come, go and crash:
\* for any number of peers, events, stops and crashes.
THEOREM SocketDispatchesAtMostOnce == SocketSpec => DispatchedAtMostOnce
<1>1. SocketInit => Contract!Init
  BY DEF SocketInit
<1>2. SocketInv /\ [SocketNext]_socketVars => [Contract!Next]_<<sent, got>>
  BY SocketStepIsContract
<1> QED
  BY <1>1, <1>2, SocketInvariance, PTL DEF SocketSpec, DispatchedAtMostOnce, Contract!Spec

\* What the frames and the counts do not say of the types.
SocketControl ==
  /\ phase \in [Peers -> Connecting \union {"new", "up", "cut", "failed", "closing", "crashed"}]
  /\ stopping \in [Peers -> BOOLEAN]
  /\ path \in Peers \union {Nobody, Stale}
  /\ broker \in [Peers -> Peers \union {Nobody}]
  /\ link \in [Peers -> {"none", "pending", "accepted", "left", "lost"}]
  /\ \A p \in Peers : sent[p] <= MaxSent
  /\ usurped \in BOOLEAN

LEMMA LeavesKeepsLinks ==
  ASSUME SocketControl, NEW p \in Peers, Leaves(p)
  PROVE  link' \in [Peers -> {"none", "pending", "accepted", "left", "lost"}]
BY DEF SocketControl, Leaves, Closed

\* A peer that had published MaxSent events alone would have used up the bound.
LEMMA SendKeepsBound ==
  ASSUME SocketShape, SocketControl, NEW p \in Peers, SendMessage(p)
  PROVE  sent[p] + 1 <= MaxSent
<1>. SUFFICES ASSUME sent[p] >= MaxSent PROVE FALSE
  BY SocketAssumption DEF SocketAssumption, SocketShape
<1>. DEFINE own == {p} \X (1..MaxSent)
<1>1. MaxSent \in Nat /\ IsFiniteSet(Peers) /\ sent[p] \in Nat
  BY SocketAssumption DEF SocketAssumption, SocketShape
<1>2. IsFiniteSet(1..MaxSent) /\ Cardinality(1..MaxSent) = MaxSent
  <2>1. PICK one \in Int : one = 1
    OBVIOUS
  <2>2. MaxSent \in Int
    BY <1>1
  <2>3. /\ IsFiniteSet(one..MaxSent)
        /\ Cardinality(one..MaxSent) = IF one > MaxSent THEN 0 ELSE MaxSent - one + 1
    BY <2>2, FS_Interval
  <2>. QED BY <1>1, <2>1, <2>3
<1>3. Cardinality(own) = MaxSent
  <2>1. IsFiniteSet({p}) /\ Cardinality({p}) = 1
    BY FS_Singleton
  <2>2. Cardinality(own) = Cardinality({p}) * Cardinality(1..MaxSent)
    BY <1>2, <2>1, FS_Product
  <2>. QED BY <1>1, <1>2, <2>1, <2>2
<1>4. own \subseteq SentEvents
  BY <1>1 DEF SentEvents, Event
<1>5. IsFiniteSet(SentEvents)
  <2>1. IsFiniteSet(Event)
    BY <1>1, <1>2, FS_Product DEF Event
  <2>. QED BY <2>1, FS_Subset DEF SentEvents
<1>6. Cardinality(own) <= Cardinality(SentEvents) /\ Cardinality(SentEvents) \in Nat
  BY <1>4, <1>5, FS_Subset, FS_CardinalityType
<1>. QED BY <1>1, <1>3, <1>6 DEF SendMessage

LEMMA ControlStep ==
  ASSUME SocketShape, SocketControl, [SocketNext]_socketVars
  PROVE  SocketControl'
<1>. USE DEF SocketControl, Connecting
<1>1. CASE UNCHANGED socketVars
  BY <1>1 DEF socketVars
<1>2. ASSUME NEW p \in Peers, Start(p) \/ FindsNoBroker(p) \/ AddressInUse(p) \/ GivesUp(p)
                                \/ Reconnects(p)
      PROVE  SocketControl'
  BY <1>2 DEF Start, FindsNoBroker, AddressInUse, GivesUp, Reconnects, Goes
<1>3. ASSUME NEW p \in Peers, Connects(p, "looking") \/ Connects(p, "again") PROVE SocketControl'
  BY <1>3 DEF Connects, Goes
<1>4. ASSUME NEW p \in Peers, ClearsFile(p) \/ StopUnlinks(p) PROVE SocketControl'
  <2>1. usurped' \in BOOLEAN
    BY <1>4 DEF ClearsFile, StopUnlinks, Unlinks
  <2>. QED BY <1>4, <2>1 DEF ClearsFile, StopUnlinks, Unlinks, Goes
<1>5. ASSUME NEW p \in Peers, Binds(p) PROVE SocketControl'
  BY <1>5 DEF Binds, Goes
<1>6. ASSUME NEW p \in Peers, BrokerDisconnects(p) PROVE SocketControl'
  BY <1>6 DEF BrokerDisconnects
<1>7. ASSUME NEW p \in Peers, SendMessage(p) PROVE SocketControl'
  <2>1. sent[p] + 1 <= MaxSent
    BY <1>7, SendKeepsBound
  <2>2. \A q \in Peers : sent'[q] <= MaxSent
    BY <1>7, <2>1 DEF SendMessage, SocketShape
  <2>. QED BY <1>7, <2>2 DEF SendMessage
<1>8. ASSUME NEW p \in Peers, ClientReads(p) PROVE SocketControl'
  BY <1>8 DEF ClientReads
<1>9. ASSUME NEW p \in Peers, NEW b \in Peers, Accepts(b, p) \/ BrokerReads(b, p)
      PROVE  SocketControl'
  BY <1>9 DEF Accepts, BrokerReads
<1>10. ASSUME NEW p \in Peers, Stop(p) PROVE SocketControl'
  <2>1. link' \in [Peers -> {"none", "pending", "accepted", "left", "lost"}]
    BY <1>10, LeavesKeepsLinks DEF Stop
  <2>2. usurped' \in BOOLEAN /\ path' \in Peers \union {Nobody, Stale}
    BY <1>10 DEF Stop, Unlinks
  <2>. QED BY <1>10, <2>1, <2>2 DEF Stop
<1>11. ASSUME NEW p \in Peers, PeerCrashes(p) PROVE SocketControl'
  <2>1. link' \in [Peers -> {"none", "pending", "accepted", "left", "lost"}]
    BY <1>11, LeavesKeepsLinks DEF PeerCrashes
  <2>. QED BY <1>11, <2>1 DEF PeerCrashes
<1>. QED BY <1>1, <1>2, <1>3, <1>4, <1>5, <1>6, <1>7, <1>8, <1>9, <1>10, <1>11 DEF SocketNext

\* Phases, connections, the socket file and the frames on their way keep their
\* types, whoever stops or crashes (socketpubsub.ts).
THEOREM SocketTypeCorrect == SocketSpec => []SocketTypeOK
<1>1. ASSUME SocketInit PROVE SocketControl
  <2>1. stopping \in [Peers -> BOOLEAN]
    <3>1. stopping = [p \in Peers |-> FALSE]
      BY <1>1 DEF SocketInit
    <3>. QED BY <3>1, Zenon
  <2>2. usurped \in BOOLEAN
    BY <1>1, Zenon DEF SocketInit
  <2>3. \A p \in Peers : sent[p] <= MaxSent
    <3>1. sent = [p \in Peers |-> 0]
      BY <1>1 DEF SocketInit, Contract!Init
    <3>2. MaxSent \in Nat
      BY SocketAssumption DEF SocketAssumption
    <3>. QED BY <3>1, <3>2
  <2>4. /\ phase \in [Peers -> {"new"}] /\ link \in [Peers -> {"none"}]
        /\ broker \in [Peers -> {Nobody}] /\ path = Nobody
    BY <1>1 DEF SocketInit
  <2>5. /\ phase \in [Peers -> Connecting \union {"new", "up", "cut", "failed", "closing", "crashed"}]
        /\ link \in [Peers -> {"none", "pending", "accepted", "left", "lost"}]
        /\ broker \in [Peers -> Peers \union {Nobody}]
    BY <2>4
  <2>. QED BY <2>1, <2>2, <2>3, <2>4, <2>5 DEF SocketControl
<1>2. SocketInv /\ SocketControl /\ [SocketNext]_socketVars => SocketControl'
  BY ControlStep DEF SocketInv
<1>3. SocketInv /\ SocketControl => SocketTypeOK
  <2>. SUFFICES ASSUME SocketInv, SocketControl PROVE SocketTypeOK
    OBVIOUS
  <2>1. MaxSent \in Nat
    BY SocketAssumption DEF SocketAssumption
  <2>2. ASSUME NEW p \in Peers
        PROVE  /\ sent[p] \in 0..MaxSent /\ up[p] \in Seq(Frame) /\ down[p] \in Seq(Frame)
               /\ got[p] \in [Peers -> 0..MaxSent]
    <3>1. sent[p] \in 0..MaxSent /\ up[p] \in Seq(Frame) /\ down[p] \in Seq(Frame)
      BY <2>1 DEF SocketInv, SocketShape, SocketControl
    <3>2. \A q \in Peers : sent[q] <= MaxSent /\ sent[q] \in Nat /\ got[p][q] \in Nat
      BY DEF SocketInv, SocketShape, SocketControl
    <3>3. \A q \in Peers : got[p][q] <= sent[q]
      BY DEF SocketInv, FramesInOrder, DownInOrder
    <3>4. \A q \in Peers : got[p][q] \in 0..MaxSent
      BY <2>1, <3>2, <3>3
    <3>. QED BY <3>1, <3>4 DEF SocketInv, SocketShape
  <2>3. ASSUME NEW p \in Peers, NEW i \in DOMAIN up[p] PROVE up[p][i] \in Event
    <3>1. up[p][i] \in Frame /\ up[p][i][1] = p /\ up[p][i][2] <= sent[p]
      BY <2>2, <2>3, FrameFacts DEF SocketInv, FramesInOrder, UpInOrder
    <3>. QED BY <2>1, <2>2, <3>1 DEF Frame, Event
  <2>4. ASSUME NEW p \in Peers, NEW i \in DOMAIN down[p] PROVE down[p][i] \in Event
    <3>1. down[p][i] \in Frame /\ down[p][i][1] \in Peers
      BY <2>2, <2>4, FrameFacts
    <3>2. down[p][i][2] <= sent[down[p][i][1]]
      BY <2>4, <3>1 DEF SocketInv, FramesInOrder, DownInOrder
    <3>3. sent[down[p][i][1]] \in 0..MaxSent
      BY <2>2, <3>1
    <3>. QED BY <2>1, <3>1, <3>2, <3>3 DEF Frame, Event
  <2>. QED BY <2>2, <2>3, <2>4 DEF SocketTypeOK, SocketControl, SocketInv, SocketShape
<1>. QED BY <1>1, <1>2, <1>3, SocketInvariance, PTL DEF SocketSpec

----------------------------------------------------------------------------
(* One broker at a time *)

\* The socket file names an open listener or none, which is the only one as long as
\* no listener's file was removed; and a connection leads to an open listener.
BrokersFit ==
  /\ path \in Peers => server[path]
  /\ ~usurped => \A p \in Peers : server[p] => path = p
  /\ \A p \in Peers : link[p] \in {"pending", "accepted"} =>
       broker[p] \in Peers /\ server[broker[p]]

\* What stop() and a crash have in common: the listener of p and what led to it go.
LEMMA LeavesKeepsBrokers ==
  ASSUME SocketInv, BrokersFit, NEW p \in Peers, Leaves(p), UNCHANGED broker
  PROVE  /\ server' = [server EXCEPT ![p] = FALSE]
         /\ \A q \in Peers : link'[q] \in {"pending", "accepted"} =>
              broker'[q] \in Peers /\ server'[broker'[q]]
<1>1. server' = [server EXCEPT ![p] = FALSE] /\ server \in [Peers -> BOOLEAN] /\ DOMAIN link = Peers
  BY DEF Leaves, SocketInv, SocketShape
<1>2. ASSUME NEW q \in Peers, link'[q] \in {"pending", "accepted"}
      PROVE  link[q] = link'[q] /\ q # p /\ ~(server[p] /\ broker[q] = p)
  <2>1. link[p] = "none" => link'[p] = "none"
    <3>1. CASE server[p]
      BY <1>1, <3>1 DEF Leaves, Closed
    <3>2. CASE ~server[p]
      BY <1>1, <3>2 DEF Leaves
    <3>. QED BY <3>1, <3>2
  <2>2. CASE server[p]
    <3>1. link[p] = "none"
      BY <2>2 DEF SocketInv, LinksFit, LinkFits
    <3>. QED BY <1>1, <1>2, <2>1, <2>2, <3>1 DEF Leaves, Closed
  <2>3. CASE ~server[p]
    BY <1>1, <1>2, <2>1, <2>3 DEF Leaves
  <2>. QED BY <2>2, <2>3
<1>3. ASSUME NEW q \in Peers, link'[q] \in {"pending", "accepted"}
      PROVE  broker'[q] \in Peers /\ server'[broker'[q]]
  <2>1. broker[q] \in Peers /\ server[broker[q]] /\ broker[q] # p
    BY <1>2, <1>3 DEF BrokersFit
  <2>. QED BY <1>1, <2>1
<1>. QED BY <1>1, <1>3

\* A peer that is not a broker removes the socket file.
LEMMA UnlinksKeepsBrokers ==
  ASSUME SocketInv, BrokersFit, NEW p \in Peers, Unlinks(p), ~server[p],
         UNCHANGED <<server, broker, link>>
  PROVE  BrokersFit'
<1>1. path' = Nobody /\ Nobody \notin Peers
  BY SocketAssumption DEF Unlinks
<1>2. ~usurped' => ~usurped /\ path \notin Peers \ {p}
  BY Zenon DEF Unlinks
<1>3. ~usurped' => \A q \in Peers : ~server[q]
  BY <1>2 DEF BrokersFit
<1>. QED BY <1>1, <1>3 DEF BrokersFit

LEMMA BrokersStep ==
  ASSUME SocketInv, BrokersFit, [SocketNext]_socketVars
  PROVE  BrokersFit'
<1>1. /\ server \in [Peers -> BOOLEAN] /\ DOMAIN link = Peers /\ DOMAIN broker = Peers
      /\ \A p \in Peers : LinkFits(p)
      /\ Nobody \notin Peers /\ Stale \notin Peers
  BY SocketAssumption DEF SocketInv, SocketShape, LinksFit
<1>2. CASE UNCHANGED <<server, path, broker, link, usurped>>
  BY <1>2 DEF BrokersFit
<1>3. ASSUME NEW p \in Peers, Connects(p, "looking") \/ Connects(p, "again") PROVE BrokersFit'
  <2>1. /\ path \in Peers /\ UNCHANGED <<server, path, usurped>>
        /\ broker' = [broker EXCEPT ![p] = path] /\ link' = [link EXCEPT ![p] = "pending"]
    BY <1>3 DEF Connects
  <2>. QED BY <1>1, <2>1 DEF BrokersFit
<1>4. ASSUME NEW p \in Peers, ClearsFile(p) \/ StopUnlinks(p) PROVE BrokersFit'
  <2>1. ~server[p]
    BY <1>1, <1>4 DEF ClearsFile, StopUnlinks, Goes, LinkFits
  <2>. QED BY <1>4, <2>1, UnlinksKeepsBrokers DEF ClearsFile, StopUnlinks
<1>5. ASSUME NEW p \in Peers, Binds(p) PROVE BrokersFit'
  <2>1. /\ path = Nobody /\ path' = p /\ UNCHANGED <<link, usurped>>
        /\ server' = [server EXCEPT ![p] = TRUE] /\ broker' = [broker EXCEPT ![p] = Nobody]
    BY <1>5 DEF Binds
  <2>2. link[p] = "none"
    BY <1>1, <1>5 DEF Binds, Goes, LinkFits, Connecting
  <2>3. \A q \in Peers : server[q] => usurped
    BY <1>1, <2>1 DEF BrokersFit
  <2>4. ~usurped' => \A q \in Peers : server'[q] => path' = q
    BY <1>1, <2>1, <2>3
  <2>. QED BY <1>1, <2>1, <2>2, <2>4 DEF BrokersFit
<1>6. ASSUME NEW p \in Peers, BrokerDisconnects(p) PROVE BrokersFit'
  <2>1. /\ UNCHANGED <<server, path, usurped>>
        /\ broker' = [broker EXCEPT ![p] = Nobody] /\ link' = [link EXCEPT ![p] = "none"]
    BY <1>6 DEF BrokerDisconnects
  <2>. QED BY <1>1, <2>1 DEF BrokersFit
<1>7. ASSUME NEW p \in Peers, NEW b \in Peers, Accepts(b, p) PROVE BrokersFit'
  <2>1. /\ UNCHANGED <<server, path, broker, usurped>>
        /\ server[b] /\ broker[p] = b /\ link' = [link EXCEPT ![p] = "accepted"]
    BY <1>7 DEF Accepts
  <2>. QED BY <1>1, <2>1 DEF BrokersFit
<1>8. ASSUME NEW p \in Peers, Stop(p) PROVE BrokersFit'
  <2>1. /\ server' = [server EXCEPT ![p] = FALSE]
        /\ \A q \in Peers : link'[q] \in {"pending", "accepted"} =>
             broker'[q] \in Peers /\ server'[broker'[q]]
    BY <1>8, LeavesKeepsBrokers DEF Stop
  <2>2. CASE server[p]
    <3>1. Unlinks(p)
      BY <1>8, <2>2 DEF Stop
    <3>2. path' = Nobody /\ (~usurped' => ~usurped /\ path \notin Peers \ {p})
      BY <3>1, Zenon DEF Unlinks
    <3>. QED BY <1>1, <2>1, <3>2 DEF BrokersFit
  <2>3. CASE ~server[p]
    <3>1. UNCHANGED <<path, usurped>>
      BY <1>8, <2>3 DEF Stop
    <3>. QED BY <1>1, <2>1, <2>3, <3>1 DEF BrokersFit
  <2>. QED BY <2>2, <2>3
<1>9. ASSUME NEW p \in Peers, PeerCrashes(p) PROVE BrokersFit'
  <2>1. /\ server' = [server EXCEPT ![p] = FALSE]
        /\ \A q \in Peers : link'[q] \in {"pending", "accepted"} =>
             broker'[q] \in Peers /\ server'[broker'[q]]
    BY <1>9, LeavesKeepsBrokers DEF PeerCrashes
  <2>2. path' = (IF path = p THEN Stale ELSE path) /\ usurped' = usurped
    BY <1>9 DEF PeerCrashes
  <2>. QED BY <1>1, <2>1, <2>2 DEF BrokersFit
<1>. QED
  BY <1>2, <1>3, <1>4, <1>5, <1>6, <1>7, <1>8, <1>9
     DEF SocketNext, socketVars, Start, FindsNoBroker, AddressInUse, GivesUp, Reconnects,
         SendMessage, ClientReads, BrokerReads

\* All peers that are up and whose connection is not broken hear each other through
\* the same broker, which is the only listener.
OneHub ==
  \A p, q \in Peers :
    phase[p] = "up" /\ phase[q] = "up" /\ link[p] # "lost" /\ link[q] # "lost" => Hub(p) = Hub(q)

\* "one of them wins the bind race": whoever connects, stops or crashes, and at every
\* moment, there are no two brokers, unless the file of an open listener was removed.
\* (That the peers get there at all is OneHubInTheEnd.)
THEOREM OneBrokerAtATime == SocketSpec => [](~usurped => OneHub)
<1>1. SocketInit => BrokersFit
  BY SocketAssumption DEF SocketInit, BrokersFit
<1>2. SocketInv /\ BrokersFit => (~usurped => OneHub)
  <2>. SUFFICES ASSUME SocketInv, BrokersFit, ~usurped,
                       NEW p \in Peers, phase[p] = "up", link[p] # "lost"
                PROVE  Hub(p) = path
    BY Zenon DEF OneHub
  <2>1. server[p] \/ link[p] \in {"pending", "accepted"}
    BY DEF SocketInv, LinksFit, LinkFits
  <2>. QED BY <2>1 DEF BrokersFit, Hub
<1>. QED BY <1>1, <1>2, BrokersStep, SocketInvariance, PTL DEF SocketSpec

----------------------------------------------------------------------------
(* Cluster *)

MemberTable == UNION {[S -> 0..Ttl] : S \in SUBSET Nodes}

ClusterShape ==
  /\ running \subseteq Nodes
  /\ members \in [Nodes -> MemberTable]
  /\ due \in [Nodes -> 0..KeepAlive]
  /\ net \in [Nodes -> [Nodes -> Seq(Message)]]
  /\ emitted \subseteq Events
  /\ seen \in [Nodes -> [Events -> 0..2]]
  /\ losses \in 0..MaxLosses /\ nodeCrashes \in 0..MaxNodeCrashes
  /\ falsely \in BOOLEAN
  /\ \A n \in Nodes : n \notin DOMAIN members[n] /\ net[n][n] = <<>>

\* A node that is down knows nobody.
EmptyWhenDown == \A n \in Nodes \ running : DOMAIN members[n] = {}

\* An event on its way to a node is there once, comes from the node that
\* emitted it, and has not been dispatched there.
EventsFit ==
  \A e \in Events :
    /\ e \notin emitted => \A n \in Nodes : seen[n][e] = 0
    /\ \A n \in Nodes : seen[n][e] <= 1
    /\ \A m, n \in Nodes : \A i \in DOMAIN net[m][n] :
         net[m][n][i].body = e
         => /\ e \in emitted /\ m = EmittedAt[e] /\ seen[n][e] = 0
            /\ \A j \in DOMAIN net[m][n] : net[m][n][j].body = e => j = i

\* Either the next keep-alive of m is due soon enough after n heard of m, or a
\* message of m sent soon enough is on its way.
HeardInTime(n, m) ==
  \/ members[n][m] + due[m] <= KeepAlive
  \/ \E i \in DOMAIN net[m][n] : members[n][m] <= KeepAlive + net[m][n][i].age

\* Without a crash only nodes that run are known, or have sent anything.
KnownRun ==
  /\ \A n \in Nodes : DOMAIN members[n] \subseteq running
  /\ \A m, n \in Nodes : net[m][n] # <<>> => m \in running

Undisturbed == losses = 0 /\ nodeCrashes = 0

MembersFit ==
  /\ nodeCrashes = 0 => KnownRun
  /\ Undisturbed => \A n \in Nodes : \A m \in DOMAIN members[n] : HeardInTime(n, m)
  /\ KeepAlive + MaxDelay < Ttl => ~falsely

ClusterInv == ClusterShape /\ EmptyWhenDown /\ EventsFit /\ MembersFit

LEMMA MessageFacts ==
  ASSUME NEW x \in Message
  PROVE  /\ x.body \in Events \union {"keepAlive"} /\ x.age \in 0..MaxDelay
         /\ x.age \in Nat /\ x.age <= MaxDelay
         /\ x.age < MaxDelay => [x EXCEPT !.age = @ + 1] \in Message
         /\ [x EXCEPT !.age = @ + 1].body = x.body
         /\ [x EXCEPT !.age = @ + 1].age = x.age + 1
BY ClusterAssumption DEF Message, ClusterAssumption

LEMMA MembersFacts ==
  ASSUME ClusterShape, NEW n \in Nodes
  PROVE  /\ members[n] \in [DOMAIN members[n] -> 0..Ttl]
         /\ DOMAIN members[n] \subseteq Nodes
         /\ \A m \in DOMAIN members[n] : members[n][m] \in Nat /\ members[n][m] <= Ttl
         /\ due[n] \in Nat /\ due[n] <= KeepAlive
BY ClusterAssumption DEF ClusterShape, MemberTable, ClusterAssumption

LEMMA MembersUpdate ==
  ASSUME ClusterShape, NEW n \in Nodes, NEW S \in SUBSET (Nodes \ {n}), NEW f \in [S -> 0..Ttl],
         members' = [members EXCEPT ![n] = f]
  PROVE  /\ members' \in [Nodes -> MemberTable]
         /\ \A x \in Nodes : x \notin DOMAIN members'[x]
         /\ members'[n] = f
         /\ \A x \in Nodes \ {n} : members'[x] = members[x]
BY DEF ClusterShape, MemberTable

\* The messages that n publishes reach every other running node, once.
LEMMA PublishedFacts ==
  ASSUME ClusterShape, NEW n \in Nodes, NEW b \in Events \union {"keepAlive"},
         net' = Published(n, b)
  PROVE  /\ net' \in [Nodes -> [Nodes -> Seq(Message)]]
         /\ \A x \in Nodes : net'[x][x] = <<>>
         /\ \A x, y \in Nodes : x # n \/ y \notin running \ {n} => net'[x][y] = net[x][y]
         /\ \A y \in running \ {n} : net'[n][y] = Append(net[n][y], [body |-> b, age |-> 0])
         /\ \A y \in running \ {n} :
              /\ DOMAIN net'[n][y] = DOMAIN net[n][y] \union {Len(net[n][y]) + 1}
              /\ \A i \in DOMAIN net[n][y] : net'[n][y][i] = net[n][y][i]
              /\ net'[n][y][Len(net[n][y]) + 1] = [body |-> b, age |-> 0]
              /\ Len(net[n][y]) + 1 \notin DOMAIN net[n][y]
<1>1. [body |-> b, age |-> 0] \in Message
  BY ClusterAssumption DEF Message, ClusterAssumption
<1>2. \A x, y \in Nodes : net[x][y] \in Seq(Message)
  BY DEF ClusterShape
<1>3. \A x, y \in Nodes : net'[x][y] = IF x = n /\ y \in running \ {n}
                                       THEN Append(net[x][y], [body |-> b, age |-> 0])
                                       ELSE net[x][y]
  BY DEF Published, ClusterShape
<1>4. \A x, y \in Nodes : net'[x][y] \in Seq(Message)
  <2>. SUFFICES ASSUME NEW x \in Nodes, NEW y \in Nodes
                PROVE  net'[x][y] \in Seq(Message)
    OBVIOUS
  <2>1. net[x][y] \in Seq(Message)
    BY <1>2
  <2>2. Append(net[x][y], [body |-> b, age |-> 0]) \in Seq(Message)
    BY <1>1, <2>1, AppendFacts
  <2>. QED BY <1>3, <2>1, <2>2
<1>5. net' \in [Nodes -> [Nodes -> Seq(Message)]]
  <2>1. /\ net' = [x \in Nodes |-> net'[x]]
        /\ \A x \in Nodes : net'[x] = [y \in Nodes |-> net'[x][y]]
    BY DEF Published, ClusterShape
  <2>. QED BY <1>4, <2>1
<1>6. \A y \in running \ {n} :
        /\ DOMAIN net'[n][y] = DOMAIN net[n][y] \union {Len(net[n][y]) + 1}
        /\ \A i \in DOMAIN net[n][y] : net'[n][y][i] = net[n][y][i]
        /\ net'[n][y][Len(net[n][y]) + 1] = [body |-> b, age |-> 0]
        /\ Len(net[n][y]) + 1 \notin DOMAIN net[n][y]
  <2>. SUFFICES ASSUME NEW y \in running \ {n}
                PROVE  /\ DOMAIN net'[n][y] = DOMAIN net[n][y] \union {Len(net[n][y]) + 1}
                       /\ \A i \in DOMAIN net[n][y] : net'[n][y][i] = net[n][y][i]
                       /\ net'[n][y][Len(net[n][y]) + 1] = [body |-> b, age |-> 0]
                       /\ Len(net[n][y]) + 1 \notin DOMAIN net[n][y]
    OBVIOUS
  <2>1. y \in Nodes
    BY DEF ClusterShape
  <2>2. net[n][y] \in Seq(Message) /\ net'[n][y] = Append(net[n][y], [body |-> b, age |-> 0])
    BY <1>2, <1>3, <2>1
  <2>. QED BY <1>1, <2>2, AppendFacts
<1>7. \A x \in Nodes : net'[x][x] = <<>>
  BY <1>3 DEF ClusterShape
<1>8. running \subseteq Nodes
  BY DEF ClusterShape
<1>. QED BY <1>3, <1>5, <1>6, <1>7, <1>8

LEMMA PublishedElsewhere ==
  ASSUME ClusterShape, NEW n \in Nodes, NEW b \in Events \union {"keepAlive"},
         net' = Published(n, b), NEW x \in Nodes, NEW y \in Nodes, x # n \/ y \notin running \ {n}
  PROVE  net'[x][y] = net[x][y]
<1>1. \A u, v \in Nodes : u # n \/ v \notin running \ {n} => net'[u][v] = net[u][v]
  BY PublishedFacts
<1>. QED BY <1>1

LEMMA KeepAliveElsewhere ==
  ASSUME ClusterShape, NEW n \in Nodes, net' = Published(n, "keepAlive"),
         NEW x \in Nodes, NEW y \in Nodes, x # n \/ y \notin running \ {n}
  PROVE  net'[x][y] = net[x][y]
<1>1. "keepAlive" \in Events \union {"keepAlive"}
  OBVIOUS
<1>. QED BY <1>1, PublishedElsewhere

\* The oldest message of m is taken off the queue of n.
LEMMA ConsumedFacts ==
  ASSUME ClusterShape, NEW m \in Nodes, NEW n \in Nodes, net[m][n] # <<>>,
         net' = [net EXCEPT ![m][n] = Tail(@)]
  PROVE  /\ net' \in [Nodes -> [Nodes -> Seq(Message)]]
         /\ m # n
         /\ \A x \in Nodes : net'[x][x] = <<>>
         /\ \A x, y \in Nodes : x # m \/ y # n => net'[x][y] = net[x][y]
         /\ 1 \in DOMAIN net[m][n] /\ Head(net[m][n]) = net[m][n][1]
         /\ Head(net[m][n]) \in Message
         /\ \A i \in DOMAIN net'[m][n] :
              i \in Nat /\ i > 0 /\ i + 1 \in DOMAIN net[m][n] /\ net'[m][n][i] = net[m][n][i + 1]
<1>1. net[m][n] \in Seq(Message) /\ m # n
  BY DEF ClusterShape
<1>2. /\ Tail(net[m][n]) \in Seq(Message)
      /\ 1 \in DOMAIN net[m][n] /\ Head(net[m][n]) = net[m][n][1]
      /\ Head(net[m][n]) \in Message
      /\ Len(net[m][n]) \in Nat \ {0}
      /\ DOMAIN Tail(net[m][n]) = 1..(Len(net[m][n]) - 1)
      /\ \A i \in DOMAIN Tail(net[m][n]) : i + 1 \in DOMAIN net[m][n] /\ Tail(net[m][n])[i] = net[m][n][i + 1]
  BY <1>1, TailFacts
<1>3. \A x, y \in Nodes : net'[x][y] = IF x = m /\ y = n THEN Tail(net[m][n]) ELSE net[x][y]
  BY DEF ClusterShape
<1>4. net' \in [Nodes -> [Nodes -> Seq(Message)]]
  BY <1>2 DEF ClusterShape
<1>5. \A x \in Nodes : net'[x][x] = <<>>
  BY <1>1, <1>3 DEF ClusterShape
<1>6. \A i \in DOMAIN net'[m][n] :
        i \in Nat /\ i > 0 /\ i + 1 \in DOMAIN net[m][n] /\ net'[m][n][i] = net[m][n][i + 1]
  <2>1. net'[m][n] = Tail(net[m][n])
    BY <1>3
  <2>2. ASSUME NEW i \in DOMAIN Tail(net[m][n])
        PROVE  /\ i \in Nat /\ i > 0
               /\ i + 1 \in DOMAIN net[m][n] /\ Tail(net[m][n])[i] = net[m][n][i + 1]
    <3>1. i \in 1..(Len(net[m][n]) - 1)
      BY <1>2
    <3>2. i \in Nat /\ i > 0
      BY <1>2, <3>1
    <3>. QED BY <1>2, <3>2
  <2>. QED BY <2>1, <2>2
<1>. QED BY <1>1, <1>2, <1>3, <1>4, <1>5, <1>6

LEMMA HeardFacts ==
  ASSUME ClusterShape, NEW n \in Nodes, NEW m \in Nodes \ {n}, members' = Heard(n, m)
  PROVE  /\ members' \in [Nodes -> MemberTable]
         /\ \A x \in Nodes : x \notin DOMAIN members'[x]
         /\ DOMAIN members'[n] = DOMAIN members[n] \union {m}
         /\ members'[n][m] = 0
         /\ \A x \in DOMAIN members[n] \ {m} : members'[n][x] = members[n][x]
         /\ \A x \in Nodes \ {n} : members'[x] = members[x]
<1>. DEFINE S == DOMAIN members[n] \union {m}
            f == [o \in S |-> IF o = m THEN 0 ELSE members[n][o]]
<1>1. S \in SUBSET (Nodes \ {n})
  BY MembersFacts DEF ClusterShape
<1>2. f \in [S -> 0..Ttl]
  BY MembersFacts, ClusterAssumption DEF ClusterAssumption
<1>3. members' = [members EXCEPT ![n] = f]
  BY DEF Heard
<1>4. /\ members' \in [Nodes -> MemberTable]
      /\ \A x \in Nodes : x \notin DOMAIN members'[x]
      /\ members'[n] = f
      /\ \A x \in Nodes \ {n} : members'[x] = members[x]
  <2>. HIDE DEF S, f
  <2>. QED BY <1>1, <1>2, <1>3, MembersUpdate
<1>. QED BY <1>4

LEMMA NothingFacts ==
  ASSUME ClusterShape, NEW n \in Nodes, members' = [members EXCEPT ![n] = Nothing]
  PROVE  /\ members' \in [Nodes -> MemberTable]
         /\ \A x \in Nodes : x \notin DOMAIN members'[x]
         /\ DOMAIN members'[n] = {}
         /\ \A x \in Nodes \ {n} : members'[x] = members[x]
<1>1. Nothing \in [{} -> 0..Ttl] /\ {} \in SUBSET (Nodes \ {n}) /\ DOMAIN Nothing = {}
  BY DEF Nothing
<1>. QED BY <1>1, MembersUpdate

LEMMA ForgottenFacts ==
  ASSUME ClusterShape, NEW n \in Nodes,
         members' = [members EXCEPT ![n] = Restrict(@, DOMAIN @ \ Outdated(n))]
  PROVE  /\ members' \in [Nodes -> MemberTable]
         /\ \A x \in Nodes : x \notin DOMAIN members'[x]
         /\ DOMAIN members'[n] \subseteq DOMAIN members[n]
         /\ \A x \in DOMAIN members'[n] : members'[n][x] = members[n][x]
         /\ \A x \in Nodes \ {n} : members'[x] = members[x]
<1>. PICK S : S = DOMAIN members[n] \ Outdated(n)
  OBVIOUS
<1>. PICK f : f = [x \in S |-> members[n][x]]
  OBVIOUS
<1>1. S \in SUBSET (Nodes \ {n})
  BY MembersFacts DEF ClusterShape
<1>2. f \in [S -> 0..Ttl]
  BY MembersFacts
<1>3. members' = [members EXCEPT ![n] = f]
  BY DEF Restrict
<1>4. /\ members' \in [Nodes -> MemberTable]
      /\ \A x \in Nodes : x \notin DOMAIN members'[x]
      /\ members'[n] = f
      /\ \A x \in Nodes \ {n} : members'[x] = members[x]
  BY <1>1, <1>2, <1>3, MembersUpdate
<1>5. DOMAIN f = S /\ S \subseteq DOMAIN members[n] /\ \A x \in S : f[x] = members[n][x]
  OBVIOUS
<1>. QED BY <1>4, <1>5

\* Every queue gets one tick older.
LEMMA OlderFacts ==
  ASSUME ClusterShape, Tick
  PROVE  /\ net' \in [Nodes -> [Nodes -> Seq(Message)]]
         /\ \A x, y \in Nodes :
              /\ DOMAIN net'[x][y] = DOMAIN net[x][y]
              /\ \A i \in DOMAIN net[x][y] :
                   /\ net'[x][y][i].body = net[x][y][i].body
                   /\ net'[x][y][i].age = net[x][y][i].age + 1
         /\ \A x \in Nodes : net'[x][x] = <<>>
<1>1. ASSUME NEW x \in Nodes, NEW y \in Nodes
      PROVE  /\ net'[x][y] \in Seq(Message)
             /\ DOMAIN net'[x][y] = DOMAIN net[x][y]
             /\ \A i \in DOMAIN net[x][y] :
                   /\ net'[x][y][i].body = net[x][y][i].body
                   /\ net'[x][y][i].age = net[x][y][i].age + 1
             /\ net[x][y] = <<>> => net'[x][y] = <<>>
  <2>1. net[x][y] \in Seq(Message)
    BY DEF ClusterShape
  <2>2. Len(net[x][y]) \in Nat /\ DOMAIN net[x][y] = 1..Len(net[x][y])
        /\ \A i \in DOMAIN net[x][y] : net[x][y][i] \in Message
    BY <2>1, LenProperties
  <2>3. net'[x][y] = [i \in DOMAIN net[x][y] |-> [net[x][y][i] EXCEPT !.age = @ + 1]]
    BY DEF Tick
  <2>4. \A i \in DOMAIN net[x][y] : net[x][y][i].age < MaxDelay
    BY DEF Tick
  <2>5. \A i \in DOMAIN net[x][y] :
          /\ net'[x][y][i] = [net[x][y][i] EXCEPT !.age = @ + 1]
          /\ net'[x][y][i] \in Message
    BY <2>2, <2>3, <2>4, MessageFacts
  <2>6. \A i \in DOMAIN net[x][y] :
          /\ net'[x][y][i].body = net[x][y][i].body
          /\ net'[x][y][i].age = net[x][y][i].age + 1
    BY <2>2, <2>5, MessageFacts
  <2>7. net'[x][y] \in [1..Len(net[x][y]) -> Message]
    BY <2>2, <2>3, <2>5
  <2>8. net'[x][y] \in Seq(Message)
    BY <2>2, <2>7, SeqDef
  <2>9. net[x][y] = <<>> => net'[x][y] = <<>>
    BY <2>2, <2>3, <2>8, EmptySeq
  <2>. QED BY <2>3, <2>6, <2>8, <2>9
<1>2. net' \in [Nodes -> [Nodes -> Seq(Message)]]
  <2>1. /\ net' = [x \in Nodes |-> net'[x]]
        /\ \A x \in Nodes : net'[x] = [y \in Nodes |-> net'[x][y]]
    BY DEF Tick
  <2>. QED BY <1>1, <2>1
<1>. QED BY <1>1, <1>2 DEF ClusterShape

LEMMA IndexIsNat ==
  ASSUME ClusterShape, NEW x \in Nodes, NEW y \in Nodes
  PROVE  /\ \A i \in DOMAIN net[x][y] : i \in Nat /\ i > 0 /\ net[x][y][i] \in Message
         /\ net[x][y] # <<>> => 1 \in DOMAIN net[x][y]
         /\ net[x][y] = <<>> => DOMAIN net[x][y] = {}
<1>1. net[x][y] \in Seq(Message)
  BY DEF ClusterShape
<1>2. Len(net[x][y]) \in Nat /\ DOMAIN net[x][y] = 1..Len(net[x][y])
      /\ \A i \in DOMAIN net[x][y] : net[x][y][i] \in Message
  BY <1>1, LenProperties
<1>3. net[x][y] # <<>> => Len(net[x][y]) \in Nat \ {0}
  BY <1>1, EmptySeq
<1>. QED BY <1>2, <1>3, EmptySeq

\* Messages leave at the front of a queue, and what comes in is no event.
LEMMA EventsFrame ==
  ASSUME ClusterShape, ClusterShape', EventsFit, emitted' = emitted, seen' = seen,
         \A x, y \in Nodes : \E k \in {0, 1} : \A i \in DOMAIN net'[x][y] :
            net'[x][y][i].body \in Events
            => i + k \in DOMAIN net[x][y] /\ net[x][y][i + k].body = net'[x][y][i].body
  PROVE  EventsFit'
<1>. SUFFICES ASSUME NEW e \in Events, NEW x \in Nodes, NEW y \in Nodes,
                     NEW i \in DOMAIN net'[x][y], net'[x][y][i].body = e
              PROVE  /\ e \in emitted /\ x = EmittedAt[e] /\ seen[y][e] = 0
                     /\ \A j \in DOMAIN net'[x][y] : net'[x][y][j].body = e => j = i
  BY DEF EventsFit
<1>1. PICK k \in {0, 1} : \A j \in DOMAIN net'[x][y] :
            net'[x][y][j].body \in Events
            => j + k \in DOMAIN net[x][y] /\ net[x][y][j + k].body = net'[x][y][j].body
  OBVIOUS
<1>2. \A j \in DOMAIN net'[x][y] : j \in Nat
  <2>1. ClusterShape' => \A j \in DOMAIN net'[x][y] : j \in Nat
    <3>1. ClusterShape => \A j \in DOMAIN net[x][y] : j \in Nat
      BY IndexIsNat
    <3>2. net'[x][y] \in Seq(Message)
      BY DEF ClusterShape
    <3>. QED BY <3>2, LenProperties
  <2>. QED BY <2>1
<1>3. /\ i + k \in DOMAIN net[x][y] /\ net[x][y][i + k].body = e
      /\ \A j \in DOMAIN net'[x][y] :
            net'[x][y][j].body = e => j + k \in DOMAIN net[x][y] /\ net[x][y][j + k].body = e
  BY <1>1
<1>4. /\ e \in emitted /\ x = EmittedAt[e] /\ seen[y][e] = 0
      /\ \A j \in DOMAIN net[x][y] : net[x][y][j].body = e => j = i + k
  BY <1>3 DEF EventsFit
<1>5. \A j \in DOMAIN net'[x][y] : net'[x][y][j].body = e => j = i
  BY <1>2, <1>3, <1>4
<1>. QED BY <1>4, <1>5

\* A keep-alive disturbs no event.
\* What a node publishes comes last on its way to another.
LEMMA PublishedTo ==
  ASSUME ClusterShape, NEW n \in Nodes, NEW b \in Events \union {"keepAlive"},
         net' = Published(n, b), NEW y \in running \ {n}
  PROVE  /\ DOMAIN net'[n][y] = DOMAIN net[n][y] \union {Len(net[n][y]) + 1}
         /\ \A i \in DOMAIN net[n][y] : net'[n][y][i] = net[n][y][i]
         /\ net'[n][y][Len(net[n][y]) + 1] = [body |-> b, age |-> 0]
BY PublishedFacts

LEMMA KeepAliveKeepsEvents ==
  ASSUME ClusterShape, ClusterShape', EventsFit, emitted' = emitted, seen' = seen,
         NEW n \in Nodes, net' = Published(n, "keepAlive")
  PROVE  EventsFit'
<1>. SUFFICES ASSUME NEW x \in Nodes, NEW y \in Nodes, NEW i \in DOMAIN net'[x][y],
                     net'[x][y][i].body \in Events
              PROVE  i + 0 \in DOMAIN net[x][y] /\ net[x][y][i + 0].body = net'[x][y][i].body
  BY EventsFrame
<1>1. i \in Nat
  <2>1. net'[x][y] \in Seq(Message)
    BY DEF ClusterShape
  <2>. QED BY <2>1, LenProperties
<1>2. CASE x = n /\ y \in running \ {n}
  <2>1. i # Len(net[n][y]) + 1
    <3>1. net'[n][y][Len(net[n][y]) + 1] = [body |-> "keepAlive", age |-> 0]
      BY <1>2, PublishedFacts
    <3>. QED BY <1>2, <3>1, ClusterAssumption DEF ClusterAssumption
  <2>2. /\ DOMAIN net'[n][y] = DOMAIN net[n][y] \union {Len(net[n][y]) + 1}
        /\ \A j \in DOMAIN net[n][y] : net'[n][y][j] = net[n][y][j]
    BY <1>2, PublishedTo
  <2>3. i \in DOMAIN net[n][y] /\ net'[n][y][i] = net[n][y][i]
    BY <1>2, <2>1, <2>2
  <2>. QED BY <1>1, <1>2, <2>3
<1>3. CASE ~(x = n /\ y \in running \ {n})
  <2>1. net'[x][y] = net[x][y]
    BY <1>3, KeepAliveElsewhere
  <2>. QED BY <1>1, <2>1
<1>. QED BY <1>2, <1>3

LEMMA JoinKeepsInv ==
  ASSUME ClusterInv, NEW n \in Nodes, Join(n)
  PROVE  ClusterInv'
<1>. USE DEF ClusterInv
<1>1. /\ members' = [members EXCEPT ![n] = Nothing]
      /\ net' = Published(n, "keepAlive")
      /\ due' = [due EXCEPT ![n] = KeepAlive]
      /\ n \notin running /\ running' = running \union {n}
      /\ UNCHANGED <<emitted, seen, losses, nodeCrashes, falsely>>
  BY DEF Join
<1>2. ClusterShape'
  <2>1. due' \in [Nodes -> 0..KeepAlive]
    BY <1>1, ClusterAssumption DEF ClusterShape, ClusterAssumption
  <2>. QED BY <1>1, <2>1, NothingFacts, PublishedFacts DEF ClusterShape
<1>3. EmptyWhenDown'
  BY <1>1, NothingFacts DEF EmptyWhenDown
<1>4. EventsFit'
  BY <1>1, <1>2, KeepAliveKeepsEvents
<1>5. MembersFit'
  <2>1. ASSUME nodeCrashes = 0 PROVE KnownRun'
    <3>1. \A x \in Nodes : DOMAIN members'[x] \subseteq running'
      BY <1>1, <2>1, NothingFacts DEF MembersFit, KnownRun
    <3>2. \A x, y \in Nodes : net'[x][y] # <<>> => x \in running'
      <4>. SUFFICES ASSUME NEW x \in Nodes, NEW y \in Nodes, net'[x][y] # <<>>, x # n
                    PROVE  x \in running'
        BY <1>1
      <4>1. net'[x][y] = net[x][y]
        BY <1>1, KeepAliveElsewhere
      <4>. QED BY <1>1, <2>1, <4>1 DEF MembersFit, KnownRun
    <3>. QED BY <3>1, <3>2 DEF KnownRun
  <2>2. ASSUME Undisturbed, NEW x \in Nodes, NEW y \in DOMAIN members'[x]
        PROVE  HeardInTime(x, y)'
    <3>1. x # n /\ members'[x] = members[x]
      BY <1>1, NothingFacts
    <3>2. y \in running /\ y # n /\ y \in Nodes
      BY <1>1, <2>2, <3>1 DEF MembersFit, KnownRun, Undisturbed, ClusterShape
    <3>3. net'[y][x] = net[y][x] /\ due'[y] = due[y]
      BY <1>1, <3>2, KeepAliveElsewhere DEF ClusterShape
    <3>4. HeardInTime(x, y)
      BY <2>2, <3>1 DEF MembersFit
    <3>. QED BY <3>1, <3>3, <3>4 DEF HeardInTime
  <2>. QED BY <1>1, <2>1, <2>2 DEF MembersFit, Undisturbed
<1>. QED BY <1>2, <1>3, <1>4, <1>5

\* Nobody is forgotten before the time: what a node has heard of a member is
\* never older than a period and a delay.
LEMMA NobodyIsOutdated ==
  ASSUME ClusterInv, Undisturbed, KeepAlive + MaxDelay < Ttl, NEW n \in Nodes
  PROVE  Outdated(n) = {}
<1>. SUFFICES ASSUME NEW m \in DOMAIN members[n], members[n][m] >= Ttl
              PROVE  FALSE
  BY DEF Outdated
<1>1. /\ KeepAlive \in Nat /\ MaxDelay \in Nat /\ Ttl \in Nat
  BY ClusterAssumption DEF ClusterAssumption
<1>2. m \in Nodes /\ members[n][m] \in Nat
  BY MembersFacts DEF ClusterInv
<1>3. HeardInTime(n, m)
  BY DEF ClusterInv, MembersFit
<1>4. CASE members[n][m] + due[m] <= KeepAlive
  <2>1. due[m] \in Nat
    BY <1>2, MembersFacts DEF ClusterInv
  <2>. QED BY <1>1, <1>2, <1>4, <2>1
<1>5. ASSUME NEW i \in DOMAIN net[m][n], members[n][m] <= KeepAlive + net[m][n][i].age
      PROVE  FALSE
  <2>1. net[m][n][i] \in Message
    BY <1>2, IndexIsNat DEF ClusterInv
  <2>2. net[m][n][i].age \in Nat /\ net[m][n][i].age <= MaxDelay
    BY <2>1, MessageFacts
  <2>. QED BY <1>1, <1>2, <1>5, <2>2
<1>. QED BY <1>3, <1>4, <1>5 DEF HeardInTime

LEMMA UpdateClusterKeepsInv ==
  ASSUME ClusterInv, NEW n \in Nodes, UpdateCluster(n)
  PROVE  ClusterInv'
<1>. USE DEF ClusterInv
<1>1. /\ members' = [members EXCEPT ![n] = Restrict(@, DOMAIN @ \ Outdated(n))]
      /\ net' = Published(n, "keepAlive")
      /\ due[n] = 0 /\ due' = [due EXCEPT ![n] = KeepAlive]
      /\ n \in running
      /\ falsely' = (falsely \/ (losses = 0 /\ nodeCrashes = 0 /\ Outdated(n) # {}))
      /\ UNCHANGED <<running, emitted, seen, losses, nodeCrashes>>
  BY DEF UpdateCluster
<1>2. ClusterShape'
  <2>1. due' \in [Nodes -> 0..KeepAlive]
    BY <1>1, ClusterAssumption DEF ClusterShape, ClusterAssumption
  <2>2. falsely' \in BOOLEAN
    BY <1>1 DEF ClusterShape
  <2>. QED BY <1>1, <2>1, <2>2, ForgottenFacts, PublishedFacts DEF ClusterShape
<1>3. EmptyWhenDown'
  BY <1>1, ForgottenFacts DEF EmptyWhenDown
<1>4. EventsFit'
  BY <1>1, <1>2, KeepAliveKeepsEvents
<1>5. MembersFit'
  <2>1. ASSUME nodeCrashes = 0 PROVE KnownRun'
    <3>1. \A x \in Nodes : DOMAIN members'[x] \subseteq running'
      BY <1>1, <2>1, ForgottenFacts DEF MembersFit, KnownRun
    <3>2. \A x, y \in Nodes : net'[x][y] # <<>> => x \in running'
      <4>. SUFFICES ASSUME NEW x \in Nodes, NEW y \in Nodes, net'[x][y] # <<>>, x # n
                    PROVE  x \in running'
        BY <1>1
      <4>1. net'[x][y] = net[x][y]
        BY <1>1, KeepAliveElsewhere
      <4>. QED BY <1>1, <2>1, <4>1 DEF MembersFit, KnownRun
    <3>. QED BY <3>1, <3>2 DEF KnownRun
  <2>2. ASSUME Undisturbed, NEW x \in Nodes, NEW y \in DOMAIN members'[x]
        PROVE  HeardInTime(x, y)'
    <3>1. /\ y \in DOMAIN members[x] /\ members'[x][y] = members[x][y]
      BY <1>1, <2>2, ForgottenFacts
    <3>2. y \in Nodes /\ y # x /\ members[x][y] \in Nat
      BY <3>1, MembersFacts DEF ClusterShape
    <3>3. HeardInTime(x, y)
      BY <2>2, <3>1 DEF MembersFit
    <3>4. CASE y # n
      <4>1. net'[y][x] = net[y][x] /\ due'[y] = due[y]
        BY <1>1, <3>2, <3>4, KeepAliveElsewhere DEF ClusterShape
      <4>. QED BY <3>1, <3>3, <4>1 DEF HeardInTime
    <3>5. CASE y = n
      <4>1. x \in running \ {n}
        BY <3>1, <3>2, <3>5 DEF EmptyWhenDown
      <4>2. /\ DOMAIN net'[n][x] = DOMAIN net[n][x] \union {Len(net[n][x]) + 1}
            /\ \A i \in DOMAIN net[n][x] : net'[n][x][i] = net[n][x][i]
            /\ net'[n][x][Len(net[n][x]) + 1] = [body |-> "keepAlive", age |-> 0]
        BY <1>1, <4>1, PublishedFacts
      <4>3. CASE members[x][n] + due[n] <= KeepAlive
        <5>1. members'[x][n] <= KeepAlive + net'[n][x][Len(net[n][x]) + 1].age
          BY <1>1, <3>1, <3>2, <3>5, <4>2, <4>3, ClusterAssumption DEF ClusterAssumption
        <5>. QED BY <3>5, <4>2, <5>1 DEF HeardInTime
      <4>4. ASSUME NEW i \in DOMAIN net[n][x], members[x][n] <= KeepAlive + net[n][x][i].age
            PROVE  HeardInTime(x, y)'
        <5>1. i \in DOMAIN net'[n][x] /\ members'[x][n] <= KeepAlive + net'[n][x][i].age
          BY <3>1, <3>5, <4>2, <4>4
        <5>. QED BY <3>5, <5>1 DEF HeardInTime
      <4>. QED BY <3>3, <3>5, <4>3, <4>4 DEF HeardInTime
    <3>. QED BY <3>4, <3>5
  <2>3. KeepAlive + MaxDelay < Ttl => ~falsely'
    BY <1>1, NobodyIsOutdated DEF MembersFit, Undisturbed
  <2>. QED BY <1>1, <2>1, <2>2, <2>3 DEF MembersFit, Undisturbed
<1>. QED BY <1>2, <1>3, <1>4, <1>5

LEMMA EmitKeepsInv ==
  ASSUME ClusterInv, NEW e \in Events, Emit(e)
  PROVE  ClusterInv'
<1>. USE DEF ClusterInv
<1>. PICK n \in Nodes : n = EmittedAt[e]
  BY ClusterAssumption DEF ClusterAssumption
<1>1. /\ n \in running /\ e \notin emitted
      /\ emitted' = emitted \union {e}
      /\ seen' = [seen EXCEPT ![n][e] = @ + 1]
      /\ net' = net \/ net' = Published(n, e)
      /\ UNCHANGED <<running, members, due, losses, nodeCrashes, falsely>>
  BY DEF Emit, Forwards
<1>2. \A x \in Nodes : seen[x][e] = 0
  BY <1>1 DEF EventsFit
<1>3. /\ \A x \in Nodes, d \in Events : seen'[x][d] = IF x = n /\ d = e THEN 1 ELSE seen[x][d]
      /\ seen' \in [Nodes -> [Events -> 0..2]]
  BY <1>1, <1>2 DEF ClusterShape
<1>4. ClusterShape'
  <2>1. /\ net' \in [Nodes -> [Nodes -> Seq(Message)]]
        /\ \A x \in Nodes : net'[x][x] = <<>>
    BY <1>1, PublishedFacts DEF ClusterShape
  <2>. QED BY <1>1, <1>3, <2>1 DEF ClusterShape
<1>5. EventsFit'
  <2>1. ASSUME NEW d \in Events, d \notin emitted', NEW x \in Nodes
        PROVE  seen'[x][d] = 0
    BY <1>1, <1>3, <2>1 DEF EventsFit
  <2>2. ASSUME NEW d \in Events, NEW x \in Nodes
        PROVE  seen'[x][d] <= 1
    BY <1>1, <1>3, <2>2 DEF EventsFit
  <2>3. ASSUME NEW d \in Events, NEW x \in Nodes, NEW y \in Nodes,
               NEW i \in DOMAIN net'[x][y], net'[x][y][i].body = d
        PROVE  /\ d \in emitted' /\ x = EmittedAt[d] /\ seen'[y][d] = 0
               /\ \A j \in DOMAIN net'[x][y] : net'[x][y][j].body = d => j = i
    <3>1. \A j \in DOMAIN net[x][y] : net[x][y][j].body # e
      BY <1>1 DEF EventsFit
    <3>2. CASE net'[x][y] = net[x][y]
      <4>1. /\ d \in emitted /\ x = EmittedAt[d] /\ seen[y][d] = 0
            /\ \A j \in DOMAIN net[x][y] : net[x][y][j].body = d => j = i
        BY <2>3, <3>2 DEF EventsFit
      <4>2. d # e
        BY <1>1, <4>1
      <4>. QED BY <1>1, <1>3, <3>2, <4>1, <4>2
    <3>3. CASE net'[x][y] # net[x][y]
      <4>1. net' = Published(n, e)
        BY <1>1, <3>3
      <4>2. x = n /\ y \in running \ {n}
        BY <3>3, <4>1, PublishedElsewhere
      <4>3. /\ DOMAIN net'[n][y] = DOMAIN net[n][y] \union {Len(net[n][y]) + 1}
            /\ \A j \in DOMAIN net[n][y] : net'[n][y][j] = net[n][y][j]
            /\ net'[n][y][Len(net[n][y]) + 1] = [body |-> e, age |-> 0]
            /\ Len(net[n][y]) + 1 \notin DOMAIN net[n][y]
        BY <4>1, <4>2, PublishedFacts
      <4>4. CASE d = e
        <5>1. \A j \in DOMAIN net'[x][y] : net'[x][y][j].body = d => j = Len(net[n][y]) + 1
          BY <3>1, <4>2, <4>3, <4>4
        <5>. QED BY <1>1, <1>2, <1>3, <2>3, <4>2, <4>4, <5>1
      <4>5. CASE d # e
        <5>1. \A j \in DOMAIN net'[x][y] :
                net'[x][y][j].body = d => j \in DOMAIN net[x][y] /\ net[x][y][j].body = d
          BY <4>2, <4>3, <4>5
        <5>2. /\ d \in emitted /\ x = EmittedAt[d] /\ seen[y][d] = 0
              /\ \A j \in DOMAIN net[x][y] : net[x][y][j].body = d => j = i
          BY <2>3, <5>1 DEF EventsFit
        <5>. QED BY <1>1, <1>3, <4>5, <5>1, <5>2
      <4>. QED BY <4>4, <4>5
    <3>. QED BY <3>2, <3>3
  <2>. QED BY <2>1, <2>2, <2>3 DEF EventsFit
<1>6. \A x, y \in Nodes : net'[x][y] = net[x][y] \/ x = n
  BY <1>1, PublishedElsewhere
<1>7. \A x, y \in Nodes : \A i \in DOMAIN net[x][y] :
         i \in DOMAIN net'[x][y] /\ net'[x][y][i] = net[x][y][i]
  <2>. SUFFICES ASSUME NEW x \in Nodes, NEW y \in Nodes, NEW i \in DOMAIN net[x][y],
                       net'[x][y] # net[x][y]
                PROVE  i \in DOMAIN net'[x][y] /\ net'[x][y][i] = net[x][y][i]
    OBVIOUS
  <2>1. net' = Published(n, e)
    BY <1>1
  <2>2. x = n /\ y \in running \ {n}
    BY <2>1, PublishedElsewhere
  <2>3. /\ DOMAIN net'[n][y] = DOMAIN net[n][y] \union {Len(net[n][y]) + 1}
        /\ \A j \in DOMAIN net[n][y] : net'[n][y][j] = net[n][y][j]
        /\ net'[n][y][Len(net[n][y]) + 1] = [body |-> e, age |-> 0]
    BY <2>1, <2>2, PublishedFacts
  <2>. QED BY <2>2, <2>3
<1>8. MembersFit'
  <2>1. nodeCrashes = 0 => KnownRun'
    BY <1>1, <1>6 DEF MembersFit, KnownRun
  <2>2. ASSUME Undisturbed, NEW x \in Nodes, NEW y \in DOMAIN members[x]
        PROVE  HeardInTime(x, y)'
    <3>1. HeardInTime(x, y) /\ y \in Nodes
      BY <2>2, MembersFacts DEF MembersFit
    <3>. QED BY <1>1, <1>7, <3>1 DEF HeardInTime
  <2>. QED BY <1>1, <2>1, <2>2 DEF MembersFit, Undisturbed
<1>. QED BY <1>1, <1>4, <1>5, <1>8 DEF EmptyWhenDown

LEMMA SeenFacts ==
  ASSUME ClusterShape, NEW n \in Nodes, NEW b \in Events, seen[n][b] < 2,
         seen' = [seen EXCEPT ![n][b] = @ + 1]
  PROVE  /\ seen' \in [Nodes -> [Events -> 0..2]]
         /\ \A x \in Nodes, d \in Events :
              seen'[x][d] = IF x = n /\ d = b THEN seen[n][b] + 1 ELSE seen[x][d]
<1>1. seen[n][b] + 1 \in 0..2
  <2>1. seen[n] \in [Events -> 0..2]
    BY DEF ClusterShape
  <2>2. seen[n][b] \in 0..2
    BY <2>1
  <2>. QED BY <2>2
<1>2. PICK k \in 0..2 : k = seen[n][b] + 1
  BY <1>1
<1>3. seen' = [seen EXCEPT ![n][b] = k]
  BY <1>2
<1>. QED BY <1>2, <1>3 DEF ClusterShape

LEMMA HandleMessageKeepsInv ==
  ASSUME ClusterInv, NEW n \in Nodes, NEW m \in Nodes, HandleMessage(n, m)
  PROVE  ClusterInv'
<1>. USE DEF ClusterInv
<1>. PICK b : b = Head(net[m][n]).body
  OBVIOUS
<1>1. /\ n \in running /\ net[m][n] # <<>>
      /\ members' = Heard(n, m)
      /\ net' = [net EXCEPT ![m][n] = Tail(@)]
      /\ b \in Events => seen[n][b] < 2 /\ seen' = [seen EXCEPT ![n][b] = @ + 1]
      /\ b \notin Events => seen' = seen
      /\ UNCHANGED <<running, due, emitted, losses, nodeCrashes, falsely>>
  BY DEF HandleMessage, Forwards, Skips
<1>2. /\ net' \in [Nodes -> [Nodes -> Seq(Message)]]
      /\ m # n
      /\ \A x \in Nodes : net'[x][x] = <<>>
      /\ \A x, y \in Nodes : x # m \/ y # n => net'[x][y] = net[x][y]
      /\ 1 \in DOMAIN net[m][n] /\ b = net[m][n][1].body
      /\ \A i \in DOMAIN net'[m][n] :
           i \in Nat /\ i > 0 /\ i + 1 \in DOMAIN net[m][n] /\ net'[m][n][i] = net[m][n][i + 1]
  BY ZenonT(40), <1>1, ConsumedFacts
<1>3. /\ members' \in [Nodes -> MemberTable]
      /\ \A x \in Nodes : x \notin DOMAIN members'[x]
      /\ DOMAIN members'[n] = DOMAIN members[n] \union {m}
      /\ members'[n][m] = 0
      /\ \A x \in DOMAIN members[n] \ {m} : members'[n][x] = members[n][x]
      /\ \A x \in Nodes \ {n} : members'[x] = members[x]
  BY <1>1, <1>2, HeardFacts
<1>4. ClusterShape'
  <2>1. seen' \in [Nodes -> [Events -> 0..2]]
    <3>1. CASE b \in Events
      BY <1>1, <3>1, SeenFacts
    <3>2. CASE b \notin Events
      BY <1>1, <3>2 DEF ClusterShape
    <3>. QED BY <3>1, <3>2
  <2>. QED BY <1>1, <1>2, <1>3, <2>1 DEF ClusterShape
<1>5. EmptyWhenDown'
  BY <1>1, <1>3 DEF EmptyWhenDown
<1>6. EventsFit'
  <2>1. CASE b \notin Events
    <3>. SUFFICES ASSUME NEW x \in Nodes, NEW y \in Nodes
                  PROVE  \E k \in {0, 1} : \A i \in DOMAIN net'[x][y] :
                           net'[x][y][i].body \in Events
                           => i + k \in DOMAIN net[x][y] /\ net[x][y][i + k].body = net'[x][y][i].body
      BY <1>1, <1>4, <2>1, EventsFrame
    <3>1. CASE x = m /\ y = n
      <4>1. \A i \in DOMAIN net'[x][y] :
               i + 1 \in DOMAIN net[x][y] /\ net[x][y][i + 1].body = net'[x][y][i].body
        BY <1>2, <3>1
      <4>. QED BY <4>1
    <3>2. CASE x # m \/ y # n
      <4>1. \A i \in DOMAIN net'[x][y] :
               i + 0 \in DOMAIN net[x][y] /\ net[x][y][i + 0].body = net'[x][y][i].body
        BY <1>2, <3>2, IndexIsNat
      <4>. QED BY <4>1
    <3>. QED BY <3>1, <3>2
  <2>2. CASE b \in Events
    <3>1. /\ b \in emitted /\ m = EmittedAt[b] /\ seen[n][b] = 0
          /\ \A j \in DOMAIN net[m][n] : net[m][n][j].body = b => j = 1
      BY <1>2, <2>2 DEF EventsFit
    <3>2. \A x \in Nodes, d \in Events : seen'[x][d] = IF x = n /\ d = b THEN 1 ELSE seen[x][d]
      <4>1. seen[n][b] < 2 /\ seen' = [seen EXCEPT ![n][b] = @ + 1]
        BY <1>1, <2>2
      <4>2. \A x \in Nodes, d \in Events :
              seen'[x][d] = IF x = n /\ d = b THEN seen[n][b] + 1 ELSE seen[x][d]
        BY ZenonT(40), <2>2, <4>1, SeenFacts
      <4>3. seen[n][b] = 0
        BY <3>1
      <4>. QED BY <4>2, <4>3
    <3>3. ASSUME NEW d \in Events
          PROVE  /\ d \notin emitted' => \A x \in Nodes : seen'[x][d] = 0
                 /\ \A x \in Nodes : seen'[x][d] <= 1
      <4>1. d \notin emitted => d # b
        BY <3>1
      <4>2. /\ d \notin emitted => \A x \in Nodes : seen[x][d] = 0
            /\ \A x \in Nodes : seen[x][d] <= 1
        BY DEF EventsFit
      <4>. QED BY <1>1, <3>2, <4>1, <4>2
    <3>4. ASSUME NEW d \in Events, NEW x \in Nodes, NEW y \in Nodes,
                 NEW i \in DOMAIN net'[x][y], net'[x][y][i].body = d
          PROVE  /\ d \in emitted' /\ x = EmittedAt[d] /\ seen'[y][d] = 0
                 /\ \A j \in DOMAIN net'[x][y] : net'[x][y][j].body = d => j = i
      <4>1. CASE x = m /\ y = n
        <5>1. /\ i \in Nat /\ i > 0 /\ i + 1 \in DOMAIN net[m][n]
              /\ net[m][n][i + 1].body = d
              /\ \A j \in DOMAIN net'[m][n] :
                   j \in Nat /\ j + 1 \in DOMAIN net[m][n] /\ net'[m][n][j] = net[m][n][j + 1]
          BY <1>2, <3>4, <4>1
        <5>2. d # b
          <6>1. i + 1 # 1
            BY <5>1
          <6>. QED BY <3>1, <5>1, <6>1
        <5>3. /\ d \in emitted /\ x = EmittedAt[d] /\ seen[y][d] = 0
              /\ \A j \in DOMAIN net[m][n] : net[m][n][j].body = d => j = i + 1
          BY <4>1, <5>1 DEF EventsFit
        <5>4. \A j \in DOMAIN net'[m][n] : net'[m][n][j].body = d => j = i
          BY <5>1, <5>3
        <5>. QED BY <1>1, <3>2, <4>1, <5>2, <5>3, <5>4
      <4>2. CASE x # m \/ y # n
        <5>1. net'[x][y] = net[x][y]
          BY <1>2, <4>2
        <5>2. /\ d \in emitted /\ x = EmittedAt[d] /\ seen[y][d] = 0
              /\ \A j \in DOMAIN net[x][y] : net[x][y][j].body = d => j = i
          BY <3>4, <5>1 DEF EventsFit
        <5>3. ~(y = n /\ d = b)
          BY <3>1, <4>2, <5>2
        <5>. QED BY <1>1, <3>2, <5>1, <5>2, <5>3
      <4>. QED BY <4>1, <4>2
    <3>. QED BY <3>3, <3>4 DEF EventsFit
  <2>. QED BY <2>1, <2>2
<1>7. MembersFit'
  <2>1. ASSUME nodeCrashes = 0 PROVE KnownRun'
    <3>1. m \in running
      BY <1>1, <2>1 DEF MembersFit, KnownRun
    <3>2. \A x \in Nodes : DOMAIN members'[x] \subseteq running'
      BY <1>1, <1>3, <2>1, <3>1 DEF MembersFit, KnownRun
    <3>3. \A x, y \in Nodes : net'[x][y] # <<>> => x \in running'
      BY <1>1, <1>2, <2>1, <3>1 DEF MembersFit, KnownRun
    <3>. QED BY <3>2, <3>3 DEF KnownRun
  <2>2. ASSUME Undisturbed, NEW x \in Nodes, NEW y \in DOMAIN members'[x]
        PROVE  HeardInTime(x, y)'
    <3>1. CASE x = n /\ y = m
      <4>1. due[m] \in Nat /\ due[m] <= KeepAlive
        BY MembersFacts
      <4>. QED BY <1>1, <1>3, <3>1, <4>1 DEF HeardInTime
    <3>2. CASE ~(x = n /\ y = m)
      <4>1. y \in DOMAIN members[x] /\ members'[x][y] = members[x][y]
        BY <1>3, <2>2, <3>2
      <4>2. y \in Nodes
        BY <4>1, MembersFacts
      <4>3. net'[y][x] = net[y][x] /\ HeardInTime(x, y)
        BY <1>2, <2>2, <3>2, <4>1, <4>2 DEF MembersFit
      <4>. QED BY <1>1, <4>1, <4>3 DEF HeardInTime
    <3>. QED BY <3>1, <3>2
  <2>. QED BY <1>1, <2>1, <2>2 DEF MembersFit, Undisturbed
<1>. QED BY <1>4, <1>5, <1>6, <1>7

LEMMA LoseKeepsInv ==
  ASSUME ClusterInv, NEW m \in Nodes, NEW n \in Nodes, Lose(m, n)
  PROVE  ClusterInv'
<1>. USE DEF ClusterInv
<1>1. /\ net[m][n] # <<>>
      /\ net' = [net EXCEPT ![m][n] = Tail(@)]
      /\ losses < MaxLosses /\ losses' = losses + 1
      /\ UNCHANGED <<running, members, due, emitted, seen, nodeCrashes, falsely>>
  BY DEF Lose
<1>2. /\ net' \in [Nodes -> [Nodes -> Seq(Message)]]
      /\ \A x \in Nodes : net'[x][x] = <<>>
      /\ \A x, y \in Nodes : x # m \/ y # n => net'[x][y] = net[x][y]
      /\ \A i \in DOMAIN net'[m][n] :
           i \in Nat /\ i > 0 /\ i + 1 \in DOMAIN net[m][n] /\ net'[m][n][i] = net[m][n][i + 1]
  BY ZenonT(40), <1>1, ConsumedFacts
<1>3. ClusterShape' /\ losses' # 0
  <2>1. losses' \in 0..MaxLosses /\ losses' # 0
    BY <1>1, ClusterAssumption DEF ClusterShape, ClusterAssumption
  <2>. QED BY <1>1, <1>2, <2>1 DEF ClusterShape
<1>4. EventsFit'
  <2>. SUFFICES ASSUME NEW x \in Nodes, NEW y \in Nodes
                PROVE  \E k \in {0, 1} : \A i \in DOMAIN net'[x][y] :
                         net'[x][y][i].body \in Events
                         => i + k \in DOMAIN net[x][y] /\ net[x][y][i + k].body = net'[x][y][i].body
    BY <1>1, <1>3, EventsFrame
  <2>1. CASE x = m /\ y = n
    <3>1. \A i \in DOMAIN net'[x][y] :
             i + 1 \in DOMAIN net[x][y] /\ net[x][y][i + 1].body = net'[x][y][i].body
      BY <1>2, <2>1
    <3>. QED BY <3>1
  <2>2. CASE x # m \/ y # n
    <3>1. \A i \in DOMAIN net'[x][y] :
             i + 0 \in DOMAIN net[x][y] /\ net[x][y][i + 0].body = net'[x][y][i].body
      BY <1>2, <2>2, IndexIsNat
    <3>. QED BY <3>1
  <2>. QED BY <2>1, <2>2
<1>5. nodeCrashes = 0 => KnownRun'
  BY <1>1, <1>2 DEF MembersFit, KnownRun
<1>6. MembersFit'
  BY <1>1, <1>3, <1>5 DEF MembersFit, Undisturbed
<1>. QED BY <1>1, <1>3, <1>4, <1>6 DEF EmptyWhenDown

LEMMA NodeCrashesKeepsInv ==
  ASSUME ClusterInv, NEW n \in Nodes, NodeCrashes(n)
  PROVE  ClusterInv'
<1>. USE DEF ClusterInv
<1>1. /\ nodeCrashes < MaxNodeCrashes /\ nodeCrashes' = nodeCrashes + 1
      /\ running' = running \ {n}
      /\ members' = [members EXCEPT ![n] = Nothing]
      /\ due' = [due EXCEPT ![n] = 0]
      /\ net' = [m \in Nodes |-> [net[m] EXCEPT ![n] = <<>>]]
      /\ UNCHANGED <<emitted, seen, losses, falsely>>
  BY DEF NodeCrashes
<1>2. /\ \A x, y \in Nodes : net'[x][y] = IF y = n THEN <<>> ELSE net[x][y]
      /\ net' \in [Nodes -> [Nodes -> Seq(Message)]]
  <2>1. <<>> \in Seq(Message)
    BY EmptySeq
  <2>. QED BY <1>1, <2>1 DEF ClusterShape
<1>3. ClusterShape' /\ nodeCrashes' # 0
  <2>1. nodeCrashes' \in 0..MaxNodeCrashes /\ nodeCrashes' # 0
    BY <1>1, ClusterAssumption DEF ClusterShape, ClusterAssumption
  <2>2. due' \in [Nodes -> 0..KeepAlive]
    BY <1>1, ClusterAssumption DEF ClusterShape, ClusterAssumption
  <2>. QED BY <1>1, <1>2, <2>1, <2>2, NothingFacts DEF ClusterShape
<1>4. EmptyWhenDown'
  BY <1>1, NothingFacts DEF EmptyWhenDown
<1>5. EventsFit'
  <2>. SUFFICES ASSUME NEW x \in Nodes, NEW y \in Nodes
                PROVE  \A i \in DOMAIN net'[x][y] :
                         i + 0 \in DOMAIN net[x][y] /\ net[x][y][i + 0].body = net'[x][y][i].body
    BY <1>1, <1>3, EventsFrame
  <2>1. CASE y = n
    <3>1. DOMAIN net'[x][y] = {}
      <4>1. net'[x][y] = <<>>
        BY <1>2, <2>1
      <4>. QED BY <4>1
    <3>. QED BY <3>1
  <2>2. CASE y # n
    BY <1>2, <2>2, IndexIsNat
  <2>. QED BY <2>1, <2>2
<1>6. MembersFit'
  BY <1>1, <1>3 DEF MembersFit, Undisturbed
<1>. QED BY <1>3, <1>4, <1>5, <1>6

LEMMA TickKeepsInv ==
  ASSUME ClusterInv, Tick
  PROVE  ClusterInv'
<1>. USE DEF ClusterInv
<1>1. /\ \A n \in running : due[n] > 0
      /\ due' = [n \in Nodes |-> IF n \in running THEN due[n] - 1 ELSE 0]
      /\ members' = [n \in Nodes |-> [m \in DOMAIN members[n] |->
                        IF members[n][m] < Ttl THEN members[n][m] + 1 ELSE Ttl]]
      /\ UNCHANGED <<running, emitted, seen, losses, nodeCrashes, falsely>>
  BY DEF Tick
<1>2. /\ net' \in [Nodes -> [Nodes -> Seq(Message)]]
      /\ \A x, y \in Nodes :
           /\ DOMAIN net'[x][y] = DOMAIN net[x][y]
           /\ \A i \in DOMAIN net[x][y] :
                /\ net'[x][y][i].body = net[x][y][i].body
                /\ net'[x][y][i].age = net[x][y][i].age + 1
      /\ \A x \in Nodes : net'[x][x] = <<>>
  BY OlderFacts
<1>3. ASSUME NEW x \in Nodes
      PROVE  /\ DOMAIN members'[x] = DOMAIN members[x]
             /\ members'[x] \in [DOMAIN members[x] -> 0..Ttl]
             /\ \A y \in DOMAIN members[x] :
                  members'[x][y] \in Nat /\ members'[x][y] <= members[x][y] + 1
  <2>1. members'[x] = [m \in DOMAIN members[x] |->
                        IF members[x][m] < Ttl THEN members[x][m] + 1 ELSE Ttl]
    BY <1>1
  <2>2. \A m \in DOMAIN members[x] : members[x][m] \in Nat /\ members[x][m] <= Ttl
    BY MembersFacts
  <2>. QED BY <2>1, <2>2, ClusterAssumption DEF ClusterAssumption
<1>4. ClusterShape'
  <2>1. due' \in [Nodes -> 0..KeepAlive]
    <3>. SUFFICES ASSUME NEW x \in running
                  PROVE  due[x] - 1 \in 0..KeepAlive
      BY <1>1, ClusterAssumption DEF ClusterAssumption
    <3>1. due[x] > 0 /\ x \in Nodes
      BY <1>1 DEF ClusterShape
    <3>. QED BY <3>1, MembersFacts, ClusterAssumption DEF ClusterAssumption
  <2>2. members' \in [Nodes -> MemberTable]
    <3>1. \A x \in Nodes : members'[x] \in MemberTable
      BY <1>3, MembersFacts DEF MemberTable
    <3>. QED BY <1>1, <3>1
  <2>3. \A x \in Nodes : x \notin DOMAIN members'[x]
    BY <1>3 DEF ClusterShape
  <2>. QED BY <1>1, <1>2, <2>1, <2>2, <2>3 DEF ClusterShape
<1>5. EmptyWhenDown'
  BY <1>1, <1>3 DEF EmptyWhenDown
<1>6. EventsFit'
  <2>. SUFFICES ASSUME NEW x \in Nodes, NEW y \in Nodes
                PROVE  \A i \in DOMAIN net'[x][y] :
                         i + 0 \in DOMAIN net[x][y] /\ net[x][y][i + 0].body = net'[x][y][i].body
    BY <1>1, <1>4, EventsFrame
  <2>. QED BY <1>2, IndexIsNat
<1>7. MembersFit'
  <2>1. ASSUME nodeCrashes = 0 PROVE KnownRun'
    <3>1. \A x \in Nodes : DOMAIN members'[x] \subseteq running'
      BY <1>1, <1>3, <2>1 DEF MembersFit, KnownRun
    <3>2. ASSUME NEW x \in Nodes, NEW y \in Nodes, net'[x][y] # <<>>
          PROVE  x \in running'
      <4>1. net[x][y] # <<>>
        <5>1. DOMAIN net'[x][y] # {}
          <6>1. net'[x][y] \in Seq(Message)
            BY <1>2
          <6>2. Len(net'[x][y]) \in Nat \ {0}
            BY <3>2, <6>1, EmptySeq
          <6>3. DOMAIN net'[x][y] = 1..Len(net'[x][y])
            BY <6>1, LenProperties
          <6>4. 1 \in DOMAIN net'[x][y]
            BY <6>2, <6>3
          <6>. QED BY <6>4
        <5>. QED BY <1>2, <5>1, IndexIsNat
      <4>. QED BY <1>1, <2>1, <4>1 DEF MembersFit, KnownRun
    <3>. QED BY <3>1, <3>2 DEF KnownRun
  <2>2. ASSUME Undisturbed, NEW x \in Nodes, NEW y \in DOMAIN members[x]
        PROVE  HeardInTime(x, y)'
    <3>1. /\ y \in Nodes /\ members[x][y] \in Nat
          /\ members'[x][y] \in Nat /\ members'[x][y] <= members[x][y] + 1
      BY <1>3, MembersFacts
    <3>2. HeardInTime(x, y)
      BY <2>2 DEF MembersFit
    <3>3. CASE members[x][y] + due[y] <= KeepAlive
      <4>1. y \in running
        BY <2>2 DEF MembersFit, KnownRun, Undisturbed
      <4>2. due'[y] = due[y] - 1 /\ due[y] \in Nat
        BY <1>1, <3>1, <4>1, MembersFacts
      <4>3. members'[x][y] + due'[y] <= KeepAlive
        BY <3>1, <3>3, <4>2, ClusterAssumption DEF ClusterAssumption
      <4>. QED BY <4>3 DEF HeardInTime
    <3>4. ASSUME NEW i \in DOMAIN net[y][x], members[x][y] <= KeepAlive + net[y][x][i].age
          PROVE  HeardInTime(x, y)'
      <4>1. /\ i \in DOMAIN net'[y][x] /\ net'[y][x][i].age = net[y][x][i].age + 1
            /\ net[y][x][i] \in Message
        BY <1>2, <3>1, IndexIsNat
      <4>2. net[y][x][i].age \in Nat
        BY <4>1, MessageFacts
      <4>3. members'[x][y] <= KeepAlive + net'[y][x][i].age
        BY <3>1, <3>4, <4>1, <4>2, ClusterAssumption DEF ClusterAssumption
      <4>. QED BY <4>1, <4>3 DEF HeardInTime
    <3>. QED BY <3>2, <3>3, <3>4 DEF HeardInTime
  <2>. QED BY <1>1, <1>3, <2>1, <2>2 DEF MembersFit, Undisturbed
<1>. QED BY <1>4, <1>5, <1>6, <1>7

LEMMA ClusterInvariance == ClusterSpec => []ClusterInv
<1>1. ClusterInit => ClusterInv
  <2>. SUFFICES ASSUME ClusterInit PROVE ClusterInv
    OBVIOUS
  <2>1. DOMAIN Nothing = {} /\ Nothing \in [{} -> 0..Ttl] /\ {} \in SUBSET Nodes
    BY DEF Nothing
  <2>2. Nothing \in MemberTable
    BY <2>1 DEF MemberTable
  <2>3. <<>> \in Seq(Message)
    BY EmptySeq
  <2>4. ClusterShape
    <3>1. /\ 0 \in 0..KeepAlive /\ 0 \in 0..MaxLosses /\ 0 \in 0..MaxNodeCrashes
      BY ClusterAssumption DEF ClusterAssumption
    <3>2. /\ members \in [Nodes -> MemberTable]
          /\ due \in [Nodes -> 0..KeepAlive]
      BY <2>2, <3>1 DEF ClusterInit
    <3>3. /\ net \in [Nodes -> [Nodes -> Seq(Message)]]
          /\ seen \in [Nodes -> [Events -> 0..2]]
      BY <2>3 DEF ClusterInit
    <3>4. \A n \in Nodes : n \notin DOMAIN members[n] /\ net[n][n] = <<>>
      BY <2>1 DEF ClusterInit
    <3>. QED BY <3>1, <3>2, <3>3, <3>4 DEF ClusterInit, ClusterShape
  <2>5. \A x, y \in Nodes : net[x][y] = <<>> /\ DOMAIN net[x][y] = {}
    BY DEF ClusterInit
  <2>6. EventsFit
    BY <2>5 DEF ClusterInit, EventsFit
  <2>7. EmptyWhenDown /\ MembersFit
    BY <2>1, <2>5 DEF ClusterInit, EmptyWhenDown, MembersFit, KnownRun
  <2>. QED BY <2>4, <2>6, <2>7 DEF ClusterInv
<1>2. ClusterInv /\ [ClusterNext]_clusterVars => ClusterInv'
  <2>1. CASE ClusterNext
    BY <2>1, JoinKeepsInv, UpdateClusterKeepsInv, NodeCrashesKeepsInv, HandleMessageKeepsInv,
       LoseKeepsInv, EmitKeepsInv, TickKeepsInv DEF ClusterNext
  <2>2. CASE UNCHANGED clusterVars
    BY <2>2 DEF clusterVars, ClusterInv, ClusterShape, EmptyWhenDown, EventsFit, MembersFit,
                KnownRun, Undisturbed, HeardInTime
  <2>. QED BY <2>1, <2>2
<1>. QED BY <1>1, <1>2, PTL DEF ClusterSpec

\* The tables of the members, the timers and the messages keep their types,
\* and no node is its own member.
THEOREM ClusterTypeCorrect == ClusterSpec => []ClusterTypeOK
<1>1. ClusterInv => ClusterTypeOK
  <2>. SUFFICES ASSUME ClusterInv PROVE ClusterTypeOK
    OBVIOUS
  <2>1. ASSUME NEW n \in Nodes
        PROVE  /\ DOMAIN members[n] \subseteq Nodes \ {n}
               /\ \A m \in DOMAIN members[n] : members[n][m] \in 0..Ttl
               /\ due[n] \in 0..KeepAlive
               /\ \A m \in Nodes : \A i \in DOMAIN net[m][n] : net[m][n][i] \in Message
    <3>1. members[n] \in [DOMAIN members[n] -> 0..Ttl] /\ DOMAIN members[n] \subseteq Nodes \ {n}
      BY MembersFacts DEF ClusterInv, ClusterShape
    <3>2. \A m \in Nodes : \A i \in DOMAIN net[m][n] : net[m][n][i] \in Message
      BY IndexIsNat DEF ClusterInv
    <3>. QED BY <3>1, <3>2 DEF ClusterInv, ClusterShape
  <2>. QED BY <2>1 DEF ClusterTypeOK, ClusterInv, ClusterShape
<1>. QED BY <1>1, ClusterInvariance, PTL

\* emit() and handleMessage() of ClusterService dispatch an event at most once
\* on each node, for any number of nodes and whatever is lost or crashes.
THEOREM EventsAreDispatchedOnce == ClusterSpec => []DispatchedOnce
<1>1. ClusterInv => DispatchedOnce
  BY DEF ClusterInv, EventsFit, DispatchedOnce
<1>. QED BY <1>1, ClusterInvariance, PTL

\* When the ttl leaves room for a period of keep-alives and a delay (it is two
\* periods by default, so that a delay shorter than a period will do),
\* updateCluster() forgets no running member as long as nothing is lost, for
\* any number of nodes, any keepAlive and any ttl.
THEOREM ClusterIsStable ==
  ASSUME KeepAlive + MaxDelay < Ttl
  PROVE  ClusterSpec => []StableCluster
<1>1. ClusterInv => StableCluster
  BY DEF ClusterInv, EventsFit, MembersFit, StableCluster, DispatchedOnce, NoFalseRemoval
<1>. QED BY <1>1, ClusterInvariance, PTL
=============================================================================
