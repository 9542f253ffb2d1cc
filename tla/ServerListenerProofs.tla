------------------------ MODULE ServerListenerProofs ------------------------
(***************************************************************************)
(* Proofs about the listener thread, for any number of clients, binder     *)
(* threads and descriptors.  The inductive invariant is Inv below: the     *)
(* safety invariants of ServerListener together, each needed by another.   *)
(***************************************************************************)
EXTENDS ServerListener, ListLemmas

(* The number open() or accept() gets was free.                            *)
LEMMA LowestFreeIsFree ==
  ASSUME FreeFds # {}
  PROVE  LowestFree \in Fds /\ fdTable[LowestFree] = Nobody
<1>1. FreeFds \subseteq Nat
  BY ConstantsAssumption DEF FreeFds
<1>2. LowestFree \in FreeFds
  BY <1>1, LeastNat DEF LowestFree
<1>. QED
  BY <1>2 DEF FreeFds

-----------------------------------------------------------------------------
(* Type correctness.                                                       *)

LEMMA InbufBounded ==
  \A s : s \in SeqOf(Requests, MaxUnread) <=> s \in Seq(Requests) /\ Len(s) <= MaxUnread
<1>1. MaxUnread \in Nat
  BY ConstantsAssumption
<1>. QED
  BY <1>1, SeqOfBounded

LEMMA NoElements ==
  /\ <<>> \in Seq(Conns)
  /\ <<>> \in Seq(Fds)
  /\ <<>> \in SeqOf(Requests, MaxUnread)
  /\ <<>> \in Seq(Replies)
<1>1. /\ <<>> \in Seq(Conns)
      /\ <<>> \in Seq(Fds)
      /\ <<>> \in Seq(Requests) /\ Len(<<>>) = 0
      /\ <<>> \in Seq(Replies)
  BY EmptySeq
<1>2. <<>> \in SeqOf(Requests, MaxUnread)
  <2>1. Len(<<>>) <= MaxUnread
    BY <1>1, ConstantsAssumption
  <2>. QED
    BY <1>1, <2>1, InbufBounded, Zenon
<1>. QED
  BY <1>1, <1>2

LEMMA InitTypeOK == Init => TypeOK
<1>. SUFFICES ASSUME Init
              PROVE  TypeOK
  OBVIOUS
<1>. USE DEF Init
<1>1. /\ backlog \in Seq(Conns)
      /\ mConnectors \in Seq(Fds)
      /\ quitConns \in Seq(Fds)
  BY NoElements
<1>2. inbuf \in [Conns -> SeqOf(Requests, MaxUnread)] /\ outbuf \in [Conns -> Seq(Replies)]
  BY NoElements
<1>3. 1 \in Nat \ {0}
  OBVIOUS
<1>. QED
  BY <1>1, <1>2, <1>3 DEF TypeOK

LEMMA ClientTypeOK == TypeOK /\ Client => TypeOK'
<1>. SUFFICES ASSUME TypeOK, Client
              PROVE  TypeOK'
  OBVIOUS
<1>. USE DEF TypeOK
<1>1. ASSUME NEW c \in Conns, Connect(c)
      PROVE  TypeOK'
  BY <1>1, AppendSet DEF Connect, listener
<1>2. ASSUME NEW c \in Conns, NEW r \in Requests, Send(c, r)
      PROVE  TypeOK'
  <2>1. Append(inbuf[c], r) \in SeqOf(Requests, MaxUnread)
    <3>1. inbuf[c] \in Seq(Requests) /\ Len(inbuf[c]) < MaxUnread
      BY <1>2, InbufBounded DEF Send
    <3>2. Append(inbuf[c], r) \in Seq(Requests) /\ Len(Append(inbuf[c], r)) <= MaxUnread
      BY <3>1, ConstantsAssumption
    <3>. QED
      BY <3>2, InbufBounded
  <2>. QED
    BY <1>2, <2>1 DEF Send, listener
<1>3. ASSUME NEW c \in Conns, Receive(c)
      PROVE  TypeOK'
  <2>1. Tail(outbuf[c]) \in Seq(Replies)
    BY <1>3, TailSet DEF Receive
  <2>. QED
    BY <1>3, <2>1 DEF Receive, listener
<1>4. ASSUME NEW c \in Conns, Hangup(c)
      PROVE  TypeOK'
  BY <1>4, NoElements DEF Hangup, listener
<1>. QED
  BY <1>1, <1>2, <1>3, <1>4 DEF Client

LEMMA BinderTypeOK == TypeOK /\ Binder => TypeOK'
<1>. SUFFICES ASSUME TypeOK, NEW b \in BinderThreads, BinderOpen(b) \/ BinderClose(b)
              PROVE  TypeOK'
  BY DEF Binder
<1>. USE DEF TypeOK
<1>1. CASE BinderOpen(b)
  BY <1>1, LowestFreeIsFree DEF BinderOpen, listener
<1>2. CASE BinderClose(b)
  BY <1>2, NoElements DEF BinderClose, CloseFd, listener
<1>. QED
  BY <1>1, <1>2

LEMMA RunTypeOK == TypeOK /\ RsetFresh /\ Run => TypeOK'
<1>. SUFFICES ASSUME TypeOK, RsetFresh, Run
              PROVE  TypeOK'
  OBVIOUS
<1>. USE DEF TypeOK
<1>1. CASE Select
  BY <1>1 DEF Select, AfterSelect, ToSet, kernel
<1>2. CASE Accept
  <2>1. CASE FreeFds = {}
    BY <1>2, <2>1 DEF Accept, AfterAccept
  <2>2. CASE FreeFds # {}
    <3>1. Head(backlog) \in Conns /\ Tail(backlog) \in Seq(Conns)
      BY <1>2, TailSet DEF Accept, RsetFresh
    <3>2. LowestFree \in Fds
      BY <2>2, LowestFreeIsFree
    <3>3. Append(mConnectors, LowestFree) \in Seq(Fds)
      BY <3>2, AppendSet
    <3>. QED
      BY <1>2, <2>2, <3>1, <3>2, <3>3, NoElements DEF Accept, AddConnector, AfterAccept
  <2>. QED
    BY <2>1, <2>2
<1>3. ASSUME NEW f \in Fds, PostIdle(f)
      PROVE  TypeOK'
  BY <1>3 DEF PostIdle, AtConnector, kernel
<1>4. ASSUME NEW f \in Fds, PostRequest(f)
      PROVE  TypeOK'
  <2>. DEFINE c == fdTable[f]
  <2>1. c \in Conns /\ inbuf[c] # <<>> /\ Head(inbuf[c]) # Quit
    BY <1>4 DEF PostRequest, SaysQuit
  <2>2. Answer[inbuf[c]] \in Replies
    BY <2>1 DEF Replies, Readings
  <2>3. Append(outbuf[c], Answer[inbuf[c]]) \in Seq(Replies)
    BY <2>1, <2>2, AppendSet
  <2>4. inbuf' \in [Conns -> SeqOf(Requests, MaxUnread)]
    BY <1>4, <2>1, NoElements DEF PostRequest
  <2>5. outbuf' \in [Conns -> Seq(Replies)]
    BY <1>4, <2>1, <2>3 DEF PostRequest
  <2>6. /\ pc' \in {pc, "killed"}
        /\ cursor' = cursor + 1
        /\ UNCHANGED <<fdTable, stage, backlog, peerOpen, reset, binderFd,
                       lenNegative, mConnectors, rset, rQuit, quitConns>>
    BY <1>4 DEF PostRequest, AtConnector
  <2>. QED
    BY <2>4, <2>5, <2>6
<1>5. ASSUME NEW f \in Fds, PostQuit(f)
      PROVE  TypeOK'
  BY <1>5, NoElements, AppendSet DEF PostQuit, PushQuit, AtConnector
<1>6. ASSUME NEW f \in Fds, PostReset(f)
      PROVE  TypeOK'
  BY <1>6 DEF PostReset, AtConnector
<1>7. CASE EndPass
  BY <1>7 DEF EndPass, kernel
<1>8. CASE Reap
  <2>1. quitConns[cursor] \in Fds
    BY <1>8, ElementOfSeq DEF Reap
  <2>2. RemoveFirst(mConnectors, quitConns[cursor]) \in Seq(Fds)
    <3>1. CASE quitConns[cursor] \in ToSet(mConnectors)
      BY <3>1, RemoveFirstIsRemoveAt, RemoveAtIndices
    <3>2. CASE quitConns[cursor] \notin ToSet(mConnectors)
      BY <3>2 DEF RemoveFirst, ToSet
    <3>. QED
      BY <3>1, <3>2
  <2>. QED
    BY <1>8, <2>1, <2>2, NoElements DEF Reap, DelConnector, CloseFd
<1>9. CASE EndReap
  <2>1. quitConns' \in Seq(Fds)
    BY <1>9, NoElements DEF EndReap
  <2>2. 1 \in Nat \ {0}
    OBVIOUS
  <2>. QED
    BY <1>9, <2>1, <2>2 DEF EndReap, kernel
<1>. QED
  BY <1>1, <1>2, <1>3, <1>4, <1>5, <1>6, <1>7, <1>8, <1>9 DEF Run, PostSelect


-----------------------------------------------------------------------------
(* The inductive invariant.  None of the parts is inductive alone: Reap    *)
(* keeps ConnectionsAccounted only because quitConns names connectors that *)
(* are in the list, BinderFileSafe only because those refer to connections *)
(* and not to files, and TypeOK holds after Accept only because somebody   *)
(* waits.                                                                  *)
Inv ==
  /\ TypeOK
  /\ ConnectionsAccounted
  /\ QuitConnsPending
  /\ BinderFileSafe
  /\ ListenerStays
  /\ RsetFresh

LEMMA InitInv == Init => Inv
<1>. SUFFICES ASSUME Init
              PROVE  Inv
  OBVIOUS
<1>1. TypeOK
  BY InitTypeOK
<1>2. ToSet(<<>>) = {} /\ IsInjective(<<>>) /\ DOMAIN <<>> = {}
  BY DEF ToSet, IsInjective
<1>3. ConnectionsAccounted
  BY <1>2, ConstantsAssumption DEF Init, ConnectionsAccounted, TableInjective
<1>4. QuitConnsPending
  BY <1>2 DEF Init, QuitConnsPending, Unreaped
<1>5. BinderFileSafe
  BY ConstantsAssumption DEF Init, BinderFileSafe, NoFd
<1>6. ListenerStays /\ RsetFresh
  BY DEF Init, ListenerStays, RsetFresh
<1>. QED
  BY <1>1, <1>3, <1>4, <1>5, <1>6 DEF Inv

(* What the invariants read, apart from what a client changes.             *)
LEMMA ClientInv == Inv /\ Client => Inv'
<1>. SUFFICES ASSUME Inv, Client
              PROVE  Inv'
  OBVIOUS
<1>. USE DEF Inv
<1>1. TypeOK'
  BY ClientTypeOK
<1>2. ASSUME NEW c \in Conns, Connect(c)
      PROVE  ConnectionsAccounted' /\ RsetFresh'
  <2>1. c \notin ToSet(backlog) /\ ~ \E f \in Fds : fdTable[f] = c
    BY <1>2 DEF Connect, ConnectionsAccounted
  <2>2. /\ ToSet(backlog') = ToSet(backlog) \cup {c}
        /\ IsInjective(backlog')
        /\ backlog' # <<>>
    BY <1>2, <2>1, AppendSet, AppendProperties DEF Connect, TypeOK, ConnectionsAccounted
  <2>3. UNCHANGED <<fdTable, mConnectors, pc, rset>>
    BY <1>2 DEF Connect, listener
  <2>4. stage' = [stage EXCEPT ![c] = "queued"]
    BY <1>2 DEF Connect
  <2>5. ConnectionsAccounted'
    BY <2>1, <2>2, <2>3, <2>4 DEF TypeOK, ConnectionsAccounted, TableInjective
  <2>6. RsetFresh'
    BY <2>2, <2>3 DEF RsetFresh
  <2>. QED
    BY <2>5, <2>6
<1>3. ASSUME NEW c \in Conns, Connect(c)
      PROVE  UNCHANGED <<fdTable, binderFd, listener>>
  BY <1>3 DEF Connect
<1>4. ASSUME NEW c \in Conns,
             Receive(c) \/ Hangup(c) \/ \E r \in Requests : Send(c, r)
      PROVE  UNCHANGED <<fdTable, stage, backlog, binderFd, listener>>
  BY <1>4 DEF Receive, Hangup, Send
<1>5. UNCHANGED <<fdTable, binderFd, listener>>
      => QuitConnsPending' /\ BinderFileSafe' /\ ListenerStays'
  BY DEF QuitConnsPending, Unreaped, BinderFileSafe, ListenerStays, listener
<1>6. UNCHANGED <<fdTable, stage, backlog, binderFd, listener>>
      => ConnectionsAccounted' /\ RsetFresh'
  BY DEF ConnectionsAccounted, TableInjective, RsetFresh, listener
<1>. QED
  BY <1>1, <1>2, <1>3, <1>4, <1>5, <1>6 DEF Client

LEMMA BinderInv == Inv /\ Binder => Inv'
<1>. SUFFICES ASSUME Inv, NEW b \in BinderThreads, BinderOpen(b) \/ BinderClose(b)
              PROVE  Inv'
  BY DEF Binder
<1>. USE DEF Inv
<1>1. TypeOK'
  BY BinderTypeOK DEF Binder
<1>2. UNCHANGED <<backlog, listener>>
  BY DEF BinderOpen, BinderClose
<1>3. QuitConnsPending' /\ ListenerStays'
  BY <1>2 DEF QuitConnsPending, Unreaped, ListenerStays, listener
<1>4. b # Nobody /\ b \notin Conns /\ Nobody \notin Conns
  BY ConstantsAssumption
<1>5. CASE BinderOpen(b)
  <2>. DEFINE f == LowestFree
  <2>1. f \in Fds /\ fdTable[f] = Nobody
    BY <1>5, LowestFreeIsFree DEF BinderOpen
  <2>2. /\ fdTable' = [fdTable EXCEPT ![f] = b]
        /\ binderFd' = [binderFd EXCEPT ![b] = f]
        /\ binderFd[b] = NoFd
        /\ stage' = stage
    BY <1>5 DEF BinderOpen
  <2>. HIDE DEF f
  <2>3. \A g \in Fds : fdTable[g] # b
    BY <2>2, ConstantsAssumption DEF BinderFileSafe, NoFd
  <2>4. ConnectionsAccounted'
    <3>1. TableInjective'
      BY <2>1, <2>2, <2>3 DEF ConnectionsAccounted, TableInjective, TypeOK
    <3>. QED
      BY <3>1, <1>2, <1>4, <2>1, <2>2 DEF ConnectionsAccounted, TypeOK, listener
  <2>5. BinderFileSafe'
    BY <2>1, <2>2, <2>3, ConstantsAssumption DEF BinderFileSafe, TypeOK
  <2>6. RsetFresh'
    BY <1>2, <1>4, <2>1, <2>2 DEF RsetFresh, TypeOK, listener
  <2>. QED
    BY <1>1, <1>3, <2>4, <2>5, <2>6
<1>6. CASE BinderClose(b)
  <2>. DEFINE f == binderFd[b]
  <2>1. f \in Fds /\ fdTable[f] = b
    BY <1>6 DEF BinderClose, BinderFileSafe, TypeOK, NoFd
  <2>2. /\ fdTable' = [fdTable EXCEPT ![f] = Nobody]
        /\ binderFd' = [binderFd EXCEPT ![b] = NoFd]
    BY <1>6 DEF BinderClose, CloseFd
  <2>3. \A c \in Conns : stage'[c] = stage[c]
    BY <1>4, <1>6, <2>1 DEF BinderClose, CloseFd
  <2>. HIDE DEF f
  <2>4. \A g \in Fds : fdTable[g] = b => g = f
    BY <1>4, <2>1 DEF ConnectionsAccounted, TableInjective
  <2>5. ConnectionsAccounted'
    <3>1. TableInjective'
      BY <2>1, <2>2 DEF ConnectionsAccounted, TableInjective, TypeOK
    <3>. QED
      BY <3>1, <1>2, <1>4, <2>1, <2>2, <2>3 DEF ConnectionsAccounted, TypeOK, listener
  <2>6. BinderFileSafe'
    BY <1>4, <2>1, <2>2, <2>4, ConstantsAssumption DEF BinderFileSafe, TypeOK, NoFd
  <2>7. RsetFresh'
    BY <1>2, <1>4, <2>1, <2>2 DEF RsetFresh, TypeOK, listener
  <2>. QED
    BY <1>1, <1>3, <2>5, <2>6, <2>7
<1>. QED
  BY <1>5, <1>6

LEMMA SelectInv == Inv /\ Select => Inv'
<1>. SUFFICES ASSUME Inv, Select
              PROVE  Inv'
  OBVIOUS
<1>. USE DEF Inv
<1>1. TypeOK'
  BY RunTypeOK DEF Run
<1>2. /\ pc = "select"
      /\ UNCHANGED <<fdTable, stage, backlog, binderFd, mConnectors, rQuit, quitConns>>
  BY DEF Select, kernel
<1>3. \A i \in DOMAIN mConnectors : fdTable[mConnectors[i]] \in Conns
  <2>1. \A i \in DOMAIN mConnectors :
          mConnectors[i] \in Fds /\ mConnectors[i] \in ToSet(mConnectors)
    BY LenProperties DEF TypeOK, ToSet
  <2>. QED
    BY <2>1 DEF ConnectionsAccounted
<1>4. ~ \E i \in DOMAIN mConnectors : fdTable[mConnectors[i]] = Nobody
  BY <1>3, ConstantsAssumption
<1>5. /\ rset' = {f \in ToSet(mConnectors) : Readable(f)}
                 \cup {f \in {ListenFd} : backlog # <<>>}
      /\ pc' = AfterSelect(rset')
  BY <1>4 DEF Select
<1>6. ConnectionsAccounted' /\ BinderFileSafe'
  BY <1>2 DEF ConnectionsAccounted, TableInjective, BinderFileSafe
<1>7. QuitConnsPending' /\ ListenerStays'
  <2>1. quitConns = <<>> /\ ~rQuit
    BY <1>2 DEF QuitConnsPending
  <2>2. DOMAIN quitConns = {}
    BY <2>1
  <2>3. pc' \in {"accept", "post"}
    BY <1>5 DEF AfterSelect
  <2>. QED
    BY <1>2, <2>1, <2>2, <2>3 DEF QuitConnsPending, Unreaped, ListenerStays
<1>8. RsetFresh'
  <2>1. pc' = "accept" => backlog # <<>>
    <3>1. ListenFd \notin ToSet(mConnectors)
      BY ElementOfSeq, LenProperties, ConstantsAssumption DEF TypeOK, ToSet
    <3>. QED
      BY <1>5, <3>1 DEF AfterSelect
  <2>2. \A f \in rset' \ {ListenFd} : f \in ToSet(mConnectors)
    BY <1>5
  <2>3. \A f \in ToSet(mConnectors) : fdTable[f] \in Conns
    BY <1>3 DEF ToSet
  <2>. QED
    BY <1>2, <2>1, <2>2, <2>3 DEF RsetFresh
<1>. QED
  BY <1>1, <1>6, <1>7, <1>8

LEMMA AcceptInv == Inv /\ Accept => Inv'
<1>. SUFFICES ASSUME Inv, Accept
              PROVE  Inv'
  OBVIOUS
<1>. USE DEF Inv
<1>1. TypeOK'
  BY RunTypeOK DEF Run
<1>2. /\ pc = "accept"
      /\ pc' \in {"select", "post"}
      /\ UNCHANGED <<binderFd, rset, rQuit, quitConns>>
  BY DEF Accept, AfterAccept
<1>3. quitConns = <<>> /\ ~rQuit
  BY <1>2 DEF QuitConnsPending
<1>4. QuitConnsPending' /\ ListenerStays'
  <2>1. DOMAIN quitConns = {}
    BY <1>3
  <2>. QED
    BY <1>2, <1>3, <2>1 DEF QuitConnsPending, Unreaped, ListenerStays
<1>. DEFINE c == Head(backlog)
<1>5. /\ c \in Conns
      /\ backlog # <<>>
      /\ Tail(backlog) \in Seq(Conns)
      /\ ToSet(backlog) = ToSet(Tail(backlog)) \cup {c}
      /\ IsInjective(Tail(backlog))
      /\ c \notin ToSet(Tail(backlog))
  BY <1>2, TailSet DEF RsetFresh, TypeOK, ConnectionsAccounted
<1>6. stage[c] = "queued" /\ \A f \in Fds : fdTable[f] # c
  BY <1>5 DEF ConnectionsAccounted
<1>7. CASE UNCHANGED <<fdTable, stage, backlog, mConnectors>>
  BY <1>1, <1>2, <1>4, <1>7
     DEF ConnectionsAccounted, TableInjective, BinderFileSafe, RsetFresh
<1>8. CASE /\ backlog' = Tail(backlog)
           /\ stage' = [stage EXCEPT ![c] = "closed"]
           /\ UNCHANGED <<fdTable, mConnectors>>
  <2>. HIDE DEF c
  <2>1. ConnectionsAccounted'
    BY <1>5, <1>6, <1>8 DEF ConnectionsAccounted, TableInjective, TypeOK
  <2>2. BinderFileSafe' /\ RsetFresh'
    BY <1>2, <1>8 DEF BinderFileSafe, RsetFresh
  <2>. QED
    BY <1>1, <1>4, <2>1, <2>2
<1>9. CASE /\ FreeFds # {}
           /\ backlog' = Tail(backlog)
           /\ stage' = [stage EXCEPT ![c] = "accepted"]
           /\ fdTable' = [fdTable EXCEPT ![LowestFree] = c]
           /\ AddConnector(LowestFree)
  <2>. DEFINE f == LowestFree
  <2>1. f \in Fds /\ fdTable[f] = Nobody
    BY <1>9, LowestFreeIsFree
  <2>2. f \notin ToSet(mConnectors)
    BY <2>1, ConstantsAssumption DEF ConnectionsAccounted
  <2>3. mConnectors' = Append(mConnectors, f)
    BY <1>9, <2>2 DEF AddConnector
  <2>4. fdTable' = [fdTable EXCEPT ![f] = c]
    BY <1>9
  <2>. HIDE DEF f, c
  <2>5. ToSet(mConnectors') = ToSet(mConnectors) \cup {f} /\ IsInjective(mConnectors')
    BY <2>1, <2>2, <2>3, AppendSet DEF TypeOK, ConnectionsAccounted
  <2>6. TableInjective'
    BY <1>6, <2>1, <2>4 DEF ConnectionsAccounted, TableInjective, TypeOK
  <2>7. ConnectionsAccounted'
    BY <1>5, <1>6, <1>9, <2>1, <2>4, <2>5, <2>6, ConstantsAssumption
       DEF ConnectionsAccounted, TypeOK
  <2>8. BinderFileSafe'
    <3>1. \A b \in BinderThreads : c # b /\ Nobody # b
      BY <1>5, ConstantsAssumption
    <3>. QED
      BY <1>2, <2>1, <2>4, <3>1 DEF BinderFileSafe, TypeOK
  <2>9. RsetFresh'
    BY <1>2, <1>5, <2>1, <2>4, <2>5 DEF RsetFresh, TypeOK
  <2>. QED
    BY <1>1, <1>4, <2>7, <2>8, <2>9
<1>. QED
  BY <1>7, <1>8, <1>9 DEF Accept

(* postSelect of one connector.                                            *)
LEMMA PostSelectInv ==
  ASSUME Inv, NEW f \in Fds, PostSelect(f)
  PROVE  Inv'
<1>. USE DEF Inv
<1>1. TypeOK'
  BY RunTypeOK DEF Run
<1>2. /\ pc = "post"
      /\ cursor \in DOMAIN mConnectors
      /\ f = mConnectors[cursor]
      /\ cursor' = cursor + 1
      /\ cursor \in Nat \ {0}
  <2>1. AtConnector(f)
    BY DEF PostSelect, PostIdle, PostRequest, PostQuit, PostReset
  <2>. QED
    BY <2>1, LenProperties DEF AtConnector, TypeOK
<1>3. UNCHANGED <<fdTable, stage, backlog, binderFd, mConnectors, rset>>
  BY DEF PostSelect, PostIdle, PostRequest, PostQuit, PostReset, kernel
<1>4. pc' \in {"post", "killed"}
  BY <1>2 DEF PostSelect, PostIdle, PostRequest, PostQuit, PostReset
<1>5. ConnectionsAccounted' /\ BinderFileSafe' /\ ListenerStays' /\ RsetFresh'
  BY <1>2, <1>3, <1>4
     DEF ConnectionsAccounted, TableInjective, BinderFileSafe, ListenerStays, RsetFresh
<1>6. QuitConnsPending'
  <2>1. CASE UNCHANGED <<rQuit, quitConns>>
    <3>1. \A k \in DOMAIN mConnectors : k < cursor => k < cursor'
      BY <1>2, LenProperties DEF TypeOK
    <3>. QED
      BY <1>2, <1>3, <1>4, <2>1, <3>1 DEF QuitConnsPending, Unreaped
  <2>2. CASE rQuit' = TRUE /\ PushQuit(f)
    <3>1. \A i \in DOMAIN quitConns : quitConns[i] # f
      <4>1. ASSUME NEW i \in DOMAIN quitConns, quitConns[i] = f
            PROVE  FALSE
        <5>1. PICK k \in DOMAIN mConnectors : k < cursor /\ mConnectors[k] = f
          BY <1>2, <4>1 DEF QuitConnsPending
        <5>2. k = cursor
          BY <1>2, <5>1 DEF ConnectionsAccounted, IsInjective
        <5>. QED
          BY <1>2, <5>1, <5>2
      <4>. QED
        BY <4>1
    <3>2. /\ quitConns' \in Seq(Fds)
          /\ DOMAIN quitConns' = 1 .. Len(quitConns) + 1
          /\ DOMAIN quitConns = 1 .. Len(quitConns)
          /\ Len(quitConns) \in Nat
          /\ \A i \in DOMAIN quitConns : quitConns'[i] = quitConns[i]
          /\ quitConns'[Len(quitConns) + 1] = f
          /\ quitConns' # <<>>
      BY <2>2, AppendProperties, LenProperties DEF PushQuit, TypeOK
    <3>3. IsInjective(quitConns')
      <4>1. f \notin ToSet(quitConns)
        BY <3>1 DEF ToSet
      <4>. QED
        BY <2>2, <4>1, AppendSet DEF PushQuit, QuitConnsPending, TypeOK
    <3>4. f \in ToSet(mConnectors)
      BY <1>2 DEF ToSet
    <3>5. \A i \in DOMAIN quitConns' :
            \/ i \in DOMAIN quitConns /\ quitConns'[i] = quitConns[i]
            \/ quitConns'[i] = f
      BY <3>2
    <3>6. \A i \in DOMAIN quitConns' : quitConns'[i] \in ToSet(mConnectors)
      BY <1>2, <3>4, <3>5 DEF QuitConnsPending, Unreaped
    <3>7. ASSUME NEW i \in DOMAIN quitConns'
          PROVE  \E k \in DOMAIN mConnectors :
                   k < cursor + 1 /\ mConnectors[k] = quitConns'[i]
      <4>1. CASE i \in DOMAIN quitConns /\ quitConns'[i] = quitConns[i]
        <5>1. PICK k \in DOMAIN mConnectors :
                k < cursor /\ mConnectors[k] = quitConns[i]
          BY <1>2, <4>1 DEF QuitConnsPending
        <5>2. k \in Nat
          BY LenProperties DEF TypeOK
        <5>3. k < cursor + 1
          BY <1>2, <5>1, <5>2
        <5>. QED
          BY <4>1, <5>1, <5>3
      <4>2. CASE quitConns'[i] = f
        BY <1>2, <4>2
      <4>. QED
        BY <3>5, <4>1, <4>2
    <3>. QED
      BY <1>2, <1>3, <1>4, <2>2, <3>2, <3>3, <3>6, <3>7 DEF QuitConnsPending, Unreaped
  <2>. QED
    BY <2>1, <2>2 DEF PostSelect, PostIdle, PostRequest, PostQuit, PostReset
<1>. QED
  BY <1>1, <1>5, <1>6

LEMMA EndPassInv == Inv /\ EndPass => Inv'
<1>. SUFFICES ASSUME Inv, EndPass
              PROVE  Inv'
  OBVIOUS
<1>. USE DEF Inv
<1>1. TypeOK'
  BY RunTypeOK DEF Run
<1>2. /\ pc = "post"
      /\ pc' = IF rQuit THEN "reap" ELSE "select"
      /\ cursor' = 1
      /\ UNCHANGED <<fdTable, stage, backlog, binderFd, mConnectors, rQuit, quitConns>>
  BY DEF EndPass, kernel
<1>3. ConnectionsAccounted' /\ BinderFileSafe' /\ ListenerStays' /\ RsetFresh'
  BY <1>2 DEF ConnectionsAccounted, TableInjective, BinderFileSafe, ListenerStays, RsetFresh
<1>4. QuitConnsPending'
  BY <1>2 DEF QuitConnsPending, Unreaped
<1>. QED
  BY <1>1, <1>3, <1>4

LEMMA ReapInv == Inv /\ Reap => Inv'
<1>. SUFFICES ASSUME Inv, Reap
              PROVE  Inv'
  OBVIOUS
<1>. USE DEF Inv
<1>1. TypeOK'
  BY RunTypeOK DEF Run
<1>. DEFINE f == quitConns[cursor]
            c == fdTable[f]
<1>2. /\ pc = "reap"
      /\ cursor \in DOMAIN quitConns
      /\ DOMAIN quitConns \subseteq Nat
      /\ cursor' = cursor + 1
      /\ UNCHANGED <<backlog, binderFd, pc, rset, rQuit, quitConns>>
  BY LenProperties DEF Reap, TypeOK
<1>3. f \in ToSet(mConnectors)
  <2>1. cursor \in Unreaped
    BY <1>2 DEF Unreaped
  <2>. QED
    BY <2>1 DEF QuitConnsPending
<1>4. f \in Fds /\ c \in Conns
  <2>1. f \in Fds
    BY <1>2, LenProperties DEF TypeOK
  <2>. QED
    BY <1>3, <2>1 DEF ConnectionsAccounted
<1>5. /\ fdTable' = [fdTable EXCEPT ![f] = Nobody]
      /\ stage' = [d \in Conns |-> IF c = d THEN "closed" ELSE stage[d]]
  BY DEF Reap, CloseFd
<1>6. /\ ToSet(mConnectors') = ToSet(mConnectors) \ {f}
      /\ IsInjective(mConnectors')
  BY <1>3, RemoveFirstSet DEF Reap, DelConnector, TypeOK, ConnectionsAccounted
<1>7. \A g \in Fds : g # f => fdTable[g] # c
  BY <1>4, ConstantsAssumption DEF ConnectionsAccounted, TableInjective
<1>8. \A i \in DOMAIN quitConns : i # cursor => quitConns[i] # f
  BY <1>2 DEF QuitConnsPending, IsInjective
<1>9. Unreaped' \subseteq Unreaped /\ cursor \notin Unreaped'
  BY <1>2 DEF Unreaped
<1>10. Unreaped \subseteq DOMAIN quitConns
  BY DEF Unreaped
<1>. HIDE DEF f, c
<1>11. ConnectionsAccounted'
  <2>1. TableInjective'
    BY <1>4, <1>5 DEF ConnectionsAccounted, TableInjective, TypeOK
  <2>2. stage[c] = "accepted"
    BY <1>4 DEF ConnectionsAccounted, c
  <2>3. \A g \in Fds : g \in ToSet(mConnectors') <=> fdTable'[g] \in Conns
    BY <1>4, <1>5, <1>6, ConstantsAssumption DEF ConnectionsAccounted, TypeOK
  <2>4. \A d \in Conns : stage'[d] = "accepted" <=> \E g \in Fds : fdTable'[g] = d
    BY <1>4, <1>5, <1>7, ConstantsAssumption DEF ConnectionsAccounted, TypeOK, c
  <2>5. \A d \in Conns : stage'[d] = "queued" <=> d \in ToSet(backlog')
    BY <1>2, <1>4, <1>5, <2>2 DEF ConnectionsAccounted, TypeOK
  <2>. QED
    BY <1>2, <1>6, <2>1, <2>3, <2>4, <2>5 DEF ConnectionsAccounted
<1>12. QuitConnsPending'
  <2>1. \A i \in Unreaped' : quitConns[i] \in ToSet(mConnectors')
    BY <1>6, <1>8, <1>9, <1>10 DEF QuitConnsPending
  <2>. QED
    BY <1>2, <2>1 DEF QuitConnsPending
<1>13. BinderFileSafe'
  <2>1. \A b \in BinderThreads : c # b /\ Nobody # b
    BY <1>4, ConstantsAssumption
  <2>. QED
    BY <1>2, <1>4, <1>5, <2>1 DEF BinderFileSafe, TypeOK, c
<1>14. ListenerStays' /\ RsetFresh'
  BY <1>2 DEF ListenerStays, RsetFresh
<1>. QED
  BY <1>1, <1>11, <1>12, <1>13, <1>14

LEMMA EndReapInv == Inv /\ EndReap => Inv'
<1>. SUFFICES ASSUME Inv, EndReap
              PROVE  Inv'
  OBVIOUS
<1>. USE DEF Inv
<1>1. TypeOK'
  BY RunTypeOK DEF Run
<1>2. /\ pc' = "select"
      /\ quitConns' = <<>>
      /\ rQuit' = FALSE
      /\ UNCHANGED <<fdTable, stage, backlog, binderFd, mConnectors>>
  BY DEF EndReap, kernel
<1>3. ConnectionsAccounted' /\ BinderFileSafe' /\ ListenerStays' /\ RsetFresh'
  BY <1>2 DEF ConnectionsAccounted, TableInjective, BinderFileSafe, ListenerStays, RsetFresh
<1>4. QuitConnsPending'
  <2>1. DOMAIN quitConns' = {} /\ IsInjective(quitConns')
    BY <1>2 DEF IsInjective
  <2>. QED
    BY <1>2, <2>1 DEF QuitConnsPending, Unreaped
<1>. QED
  BY <1>1, <1>3, <1>4

LEMMA NextInv == Inv /\ [Next]_vars => Inv'
<1>1. Inv /\ UNCHANGED vars => Inv'
  BY DEF Inv, TypeOK, ConnectionsAccounted, TableInjective, QuitConnsPending, Unreaped,
         BinderFileSafe, ListenerStays, RsetFresh, vars, kernel, listener
<1>2. Inv /\ Run => Inv'
  BY SelectInv, AcceptInv, PostSelectInv, EndPassInv, ReapInv, EndReapInv DEF Run
<1>. QED
  BY <1>1, <1>2, ClientInv, BinderInv DEF Next

LEMMA SpecInv == Spec => []Inv
  BY InitInv, NextInv, PTL DEF Spec

-----------------------------------------------------------------------------
(* The variables of the listener thread and of the kernel keep their       *)
(* types: quitConns and mConnectors hold descriptors only, the sockets     *)
(* hold requests and answers of the database only.                         *)
THEOREM TypeCorrect == Spec => []TypeOK
<1>1. Inv => TypeOK
  BY DEF Inv
<1>. QED
  BY <1>1, SpecInv, PTL

(* No descriptor and no connector is ever leaked, lost or doubled by       *)
(* accept, addConnector, delConnector and close in ServerListener::run.    *)
THEOREM NothingLeaked == Spec => []ConnectionsAccounted
<1>1. Inv => ConnectionsAccounted
  BY DEF Inv
<1>. QED
  BY <1>1, SpecInv, PTL

(* quitConns never holds a descriptor that was closed and given out again. *)
THEOREM QuitConnsNeverStale == Spec => []QuitConnsPending
<1>1. Inv => QuitConnsPending
  BY DEF Inv
<1>. QED
  BY <1>1, SpecInv, PTL

(* close() in ServerListener::run never hits a file that a binder thread   *)
(* has open in getSystemNode or setSystemNode.                             *)
THEOREM BinderFilesUntouched == Spec => []BinderFileSafe
<1>1. Inv => BinderFileSafe
  BY DEF Inv
<1>. QED
  BY <1>1, SpecInv, PTL

(* The listener thread never leaves its loop: select() cannot fail.        *)
THEOREM ListenerNeverExits == Spec => []ListenerStays
<1>1. Inv => ListenerStays
  BY DEF Inv
<1>. QED
  BY <1>1, SpecInv, PTL

(* postSelect reads only descriptors that are what select() saw.           *)
THEOREM RsetNeverStale == Spec => []RsetFresh
<1>1. Inv => RsetFresh
  BY DEF Inv
<1>. QED
  BY <1>1, SpecInv, PTL
=============================================================================
