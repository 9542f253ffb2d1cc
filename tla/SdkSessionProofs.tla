-------------------------- MODULE SdkSessionProofs --------------------------
(***************************************************************************)
(* The listener thread implements SdkSession, for any number of clients,   *)
(* binder threads and descriptors: every step of ServerListener is a step  *)
(* of the conversations, or one they do not see.  The mapping is that of   *)
(* ServerListener (Link, Leaving, Up and the buffers), and the invariant   *)
(* the steps need is Inv of ServerListenerProofs.                          *)
(***************************************************************************)
EXTENDS ServerListenerProofs

(* The steps the conversations do not see.                                 *)
Unseen == UNCHANGED <<Link, peerOpen, inbuf, outbuf, Leaving, Up>>

LEMMA UnseenStutters == Unseen => UNCHANGED Session!vars
BY DEF Unseen, Session!vars

(* A step that changes no stage is a step to the same places, and one that *)
(* moves no connection to another descriptor keeps who is leaving.         *)
LEMMA LinkSame == stage' = stage => Link' = Link
BY DEF Link

LEMMA LinkMoves ==
  ASSUME TypeOK, NEW c \in Conns,
         NEW s \in {"queued", "accepted", "closed"},
         stage' = [stage EXCEPT ![c] = s]
  PROVE  Link' = [Link EXCEPT ![c] = CASE s = "queued"   -> "waiting"
                                       [] s = "accepted" -> "serving"
                                       [] s = "closed"   -> "ended"]
BY DEF Link, TypeOK

LEMMA LeavingSame ==
  ASSUME quitConns' = quitConns, Unreaped' = Unreaped,
         \A i \in Unreaped, c \in Conns :
           fdTable'[quitConns[i]] = c <=> fdTable[quitConns[i]] = c
  PROVE  Leaving' = Leaving
BY DEF Leaving

(* Nobody is leaving while quitConns is empty.                             *)
LEMMA NobodyLeaving ==
  ASSUME Inv, Inv', quitConns = <<>>, quitConns' = <<>>
  PROVE  Leaving' = Leaving
<1>1. Unreaped = {} /\ Unreaped' = {}
  BY DEF Unreaped
<1>. QED
  BY <1>1 DEF Leaving

-----------------------------------------------------------------------------
LEMMA InitSession == Init => Session!Init
<1>. SUFFICES ASSUME Init
              PROVE  Session!Init
  OBVIOUS
<1>1. Link = [c \in Conns |-> "none"]
  BY DEF Init, Link
<1>2. Unreaped = {}
  BY DEF Init, Unreaped
<1>3. Leaving = [c \in Conns |-> FALSE]
  BY <1>2 DEF Leaving
<1>4. Up = TRUE
  BY DEF Init, Up
<1>. QED
  BY <1>1, <1>3, <1>4 DEF Init, Session!Init

-----------------------------------------------------------------------------
(* The clients.                                                            *)

LEMMA ClientSession == Inv /\ Client => [Session!Next]_(Session!vars)
<1>. SUFFICES ASSUME Inv, Client
              PROVE  [Session!Next]_(Session!vars)
  OBVIOUS
<1>. USE DEF Inv
<1>1. ASSUME UNCHANGED <<fdTable, listener>>
      PROVE  Leaving' = Leaving /\ Up' = Up
  BY <1>1 DEF Leaving, Unreaped, Up, listener
<1>2. ASSUME NEW c \in Conns, Connect(c)
      PROVE  Session!Start(c) /\ Up
  <2>1. Link' = [Link EXCEPT ![c] = "waiting"]
    BY <1>2, LinkMoves DEF Connect
  <2>2. Link[c] = "none"
    BY <1>2 DEF Connect, Link
  <2>. QED
    BY <1>1, <1>2, <2>1, <2>2 DEF Connect, Session!Start
<1>3. ASSUME NEW c \in Conns, NEW r \in Requests, Send(c, r)
      PROVE  Session!Ask(c, r) /\ Up
  <2>1. Link' = Link /\ Link[c] \in {"waiting", "serving"}
    BY <1>3, LinkSame DEF Send, Link
  <2>. QED
    BY <1>1, <1>3, <2>1 DEF Send, Session!Ask
<1>4. ASSUME NEW c \in Conns, Receive(c)
      PROVE  Session!Hear(c) /\ Up
  <2>1. Link' = Link
    BY <1>4, LinkSame DEF Receive
  <2>. QED
    BY <1>1, <1>4, <2>1 DEF Receive, Session!Hear
<1>5. ASSUME NEW c \in Conns, Hangup(c)
      PROVE  Session!GoAway(c) /\ Up
  <2>1. Link' = Link
    BY <1>5, LinkSame DEF Hangup
  <2>. QED
    BY <1>1, <1>5, <2>1 DEF Hangup, Session!GoAway
<1>. QED
  BY <1>2, <1>3, <1>4, <1>5 DEF Client, Session!Next

-----------------------------------------------------------------------------
(* The binder threads: a conversation sees nothing of the files they open. *)

LEMMA BinderSession == Inv /\ Binder => Unseen
<1>. SUFFICES ASSUME Inv, NEW b \in BinderThreads, BinderOpen(b) \/ BinderClose(b)
              PROVE  Unseen
  BY DEF Binder
<1>. USE DEF Inv
<1>1. b # Nobody /\ b \notin Conns /\ Nobody \notin Conns
  BY ConstantsAssumption
<1>2. PICK f \in Fds : /\ fdTable[f] \notin Conns
                       /\ \/ fdTable' = [fdTable EXCEPT ![f] = b]
                          \/ fdTable' = [fdTable EXCEPT ![f] = Nobody]
  <2>1. CASE BinderOpen(b)
    BY <1>1, <2>1, LowestFreeIsFree DEF BinderOpen
  <2>2. CASE BinderClose(b)
    <3>1. binderFd[b] \in Fds /\ fdTable[binderFd[b]] = b
      BY <2>2 DEF BinderClose, BinderFileSafe, TypeOK, NoFd
    <3>. QED
      BY <1>1, <2>2, <3>1 DEF BinderClose, CloseFd
  <2>. QED
    BY <2>1, <2>2
<1>3. stage' = stage /\ inbuf' = inbuf
  <2>1. CASE BinderOpen(b)
    BY <2>1 DEF BinderOpen
  <2>2. CASE BinderClose(b)
    <3>1. \A c \in Conns : fdTable[binderFd[b]] # c
      BY <1>1, <2>2 DEF BinderClose, BinderFileSafe, TypeOK, NoFd
    <3>2. stage' = [c \in Conns |-> stage[c]] /\ inbuf' = [c \in Conns |-> inbuf[c]]
      BY <2>2, <3>1 DEF BinderClose, CloseFd
    <3>. QED
      BY <3>2 DEF TypeOK
  <2>. QED
    BY <2>1, <2>2
<1>4. UNCHANGED <<listener, peerOpen, outbuf>>
  BY DEF BinderOpen, BinderClose
<1>5. \A g \in Fds, c \in Conns : fdTable'[g] = c <=> fdTable[g] = c
  BY <1>1, <1>2 DEF TypeOK
<1>6. Unreaped' = Unreaped /\ quitConns' = quitConns /\ Up' = Up
  BY <1>4 DEF Unreaped, Up, listener
<1>7. \A i \in Unreaped : quitConns[i] \in Fds
  BY ElementOfSeq, LenProperties DEF Unreaped, TypeOK
<1>8. Leaving' = Leaving
  BY <1>5, <1>6, <1>7, LeavingSame
<1>. QED
  BY <1>3, <1>4, <1>6, <1>8, LinkSame DEF Unseen

-----------------------------------------------------------------------------
(* The listener thread.                                                    *)

LEMMA SelectSession == Inv /\ Select => Unseen
<1>. SUFFICES ASSUME Inv, Select
              PROVE  Unseen
  OBVIOUS
<1>1. Inv'
  BY SelectInv
<1>2. quitConns = <<>> /\ quitConns' = <<>>
  BY DEF Select, Inv, QuitConnsPending
<1>3. Up' = Up
  BY DEF Select, AfterSelect, Up
<1>4. UNCHANGED <<stage, peerOpen, inbuf, outbuf>>
  BY DEF Select, kernel
<1>. QED
  BY <1>1, <1>2, <1>3, <1>4, LinkSame, NobodyLeaving DEF Unseen

LEMMA AcceptSession == Inv /\ Accept => [Session!Next]_(Session!vars)
<1>. SUFFICES ASSUME Inv, Accept
              PROVE  [Session!Next]_(Session!vars)
  OBVIOUS
<1>. USE DEF Inv
<1>1. quitConns = <<>> /\ quitConns' = <<>>
  BY DEF Accept, QuitConnsPending
<1>2. Leaving' = Leaving
  BY <1>1, AcceptInv, NobodyLeaving
<1>3. Up /\ Up' = Up /\ UNCHANGED <<peerOpen, outbuf>>
  BY DEF Accept, AfterAccept, Up
<1>. DEFINE c == Head(backlog)
<1>4. c \in Conns /\ c \in ToSet(backlog)
  BY TailSet DEF Accept, RsetFresh, TypeOK
<1>5. stage[c] = "queued" /\ Link[c] = "waiting"
  BY <1>4 DEF ConnectionsAccounted, Link
<1>6. CASE UNCHANGED <<stage, inbuf>>
  BY <1>2, <1>3, <1>6, LinkSame, UnseenStutters DEF Unseen
<1>7. CASE /\ stage' = [stage EXCEPT ![c] = "closed"]
           /\ inbuf' = [inbuf EXCEPT ![c] = <<>>]
  <2>. HIDE DEF c
  <2>1. Link' = [Link EXCEPT ![c] = "ended"]
    BY <1>4, <1>7, LinkMoves
  <2>2. Session!Refuse(c)
    BY <1>2, <1>3, <1>5, <1>7, <2>1 DEF Session!Refuse
  <2>. QED
    BY <1>3, <1>4, <2>2 DEF Session!Next
<1>8. CASE stage' = [stage EXCEPT ![c] = "accepted"] /\ inbuf' = inbuf
  <2>. HIDE DEF c
  <2>1. Link' = [Link EXCEPT ![c] = "serving"]
    BY <1>4, <1>8, LinkMoves
  <2>2. Session!Admit(c)
    BY <1>2, <1>3, <1>5, <1>8, <2>1 DEF Session!Admit
  <2>. QED
    BY <1>3, <1>4, <2>2 DEF Session!Next
<1>. QED
  BY <1>6, <1>7, <1>8 DEF Accept

(* A connector is read once in a pass, so the connection postSelect reads  *)
(* is served and not among those that are leaving.                         *)
LEMMA ServedNow ==
  ASSUME Inv, NEW f \in Fds, AtConnector(f), fdTable[f] \in Conns
  PROVE  /\ Session!Serving(fdTable[f])
         /\ Unreaped = DOMAIN quitConns
         /\ Up
<1>. USE DEF Inv
<1>. DEFINE c == fdTable[f]
<1>1. pc = "post" /\ cursor \in DOMAIN mConnectors /\ f = mConnectors[cursor]
  BY LenProperties DEF AtConnector, TypeOK
<1>2. stage[c] = "accepted" /\ Link[c] = "serving"
  BY DEF ConnectionsAccounted, Link
<1>3. Unreaped = DOMAIN quitConns
  BY <1>1 DEF Unreaped
<1>4. ASSUME NEW i \in Unreaped, fdTable[quitConns[i]] = c
      PROVE  FALSE
  <2>1. PICK k \in DOMAIN mConnectors : k < cursor /\ mConnectors[k] = quitConns[i]
    BY <1>1, <1>3 DEF QuitConnsPending
  <2>2. quitConns[i] \in Fds
    BY <1>3, ElementOfSeq, LenProperties DEF TypeOK
  <2>3. quitConns[i] = f
    BY <1>4, <2>2, ConstantsAssumption DEF ConnectionsAccounted, TableInjective
  <2>4. k = cursor
    BY <1>1, <2>1, <2>3 DEF ConnectionsAccounted, IsInjective
  <2>. QED
    BY <1>1, <2>1, <2>4 DEF TypeOK
<1>5. ~Leaving[c]
  BY <1>4 DEF Leaving
<1>. QED
  BY <1>1, <1>2, <1>3, <1>5 DEF Session!Serving, Up

LEMMA PostRequestSession ==
  ASSUME Inv, NEW f \in Fds, PostRequest(f)
  PROVE  Session!Next
<1>. DEFINE c == fdTable[f]
<1>1. /\ c \in Conns
      /\ AtConnector(f)
      /\ inbuf[c] # <<>>
      /\ Head(inbuf[c]) # Quit
  BY DEF PostRequest, SaysQuit
<1>2. Session!Serving(c) /\ Unreaped = DOMAIN quitConns /\ Up
  BY <1>1, ServedNow
<1>3. Link' = Link /\ UNCHANGED <<peerOpen, fdTable, quitConns>>
  BY LinkSame DEF PostRequest
<1>4. pc' # "reap"
  BY DEF PostRequest, AtConnector
<1>5. Unreaped' = Unreaped
  BY <1>2, <1>3, <1>4 DEF Unreaped
<1>6. Leaving' = Leaving
  BY <1>3, <1>5, LeavingSame
<1>7. CASE peerOpen[c]
  <2>1. Session!Reply(c)
    BY <1>1, <1>2, <1>3, <1>6, <1>7 DEF PostRequest, Session!Reply, Up
  <2>. QED
    BY <1>1, <1>2, <2>1 DEF Session!Next
<1>8. CASE ~peerOpen[c]
  <2>1. ~Up' /\ UNCHANGED <<inbuf, outbuf>>
    BY <1>8 DEF PostRequest, Up
  <2>2. Up' = FALSE
    BY <2>1 DEF Up
  <2>. HIDE DEF c
  <2>3. Session!Die
    BY <1>1, <1>2, <1>3, <1>6, <1>8, <2>1, <2>2 DEF Session!Die
  <2>. QED
    BY <1>2, <2>3 DEF Session!Next
<1>. QED
  BY <1>7, <1>8

LEMMA PostQuitSession ==
  ASSUME Inv, NEW f \in Fds, PostQuit(f)
  PROVE  Session!Next
<1>. DEFINE c == fdTable[f]
            n == Len(quitConns)
<1>1. /\ c \in Conns
      /\ AtConnector(f)
      /\ \/ inbuf[c] # <<>> /\ Head(inbuf[c]) = Quit
         \/ inbuf[c] = <<>> /\ ~peerOpen[c]
      /\ inbuf' = [inbuf EXCEPT ![c] = <<>>]
      /\ quitConns' = Append(quitConns, f)
      /\ UNCHANGED <<fdTable, pc, peerOpen, outbuf>>
  BY DEF PostQuit, PushQuit, SaysQuit
<1>2. Session!Serving(c) /\ Unreaped = DOMAIN quitConns /\ Up
  BY <1>1, ServedNow
<1>3. /\ n \in Nat
      /\ DOMAIN quitConns = 1 .. n
      /\ DOMAIN quitConns' = 1 .. n + 1
      /\ \A i \in 1 .. n : quitConns'[i] = quitConns[i]
      /\ quitConns'[n + 1] = f
  BY <1>1, AppendProperties, LenProperties DEF Inv, TypeOK
<1>4. Link' = Link /\ Up' = Up
  BY <1>1, LinkSame DEF PostQuit, Up
<1>5. Unreaped' = 1 .. n + 1 /\ Unreaped = 1 .. n
  BY <1>1, <1>2, <1>3 DEF Unreaped, AtConnector
<1>. HIDE DEF n
<1>6. ASSUME NEW d \in Conns
      PROVE  Leaving'[d] = (IF d = c THEN TRUE ELSE Leaving[d])
  <2>1. Leaving'[d] = \E i \in 1 .. n + 1 : fdTable[quitConns'[i]] = d
    BY <1>1, <1>5 DEF Leaving
  <2>2. Leaving[d] = \E i \in 1 .. n : fdTable[quitConns[i]] = d
    BY <1>5 DEF Leaving
  <2>3. CASE d = c
    BY <1>3, <2>1, <2>3
  <2>4. CASE d # c
    <3>1. ASSUME NEW i \in 1 .. n + 1, fdTable[quitConns'[i]] = d
          PROVE  i \in 1 .. n
      BY <1>3, <2>4, <3>1
    <3>. QED
      BY <1>3, <2>1, <2>2, <2>4, <3>1
  <2>. QED
    BY <2>3, <2>4
<1>7. Leaving' = [Leaving EXCEPT ![c] = TRUE]
  <2>1. /\ Leaving = [d \in Conns |-> Leaving[d]]
        /\ Leaving' = [d \in Conns |-> Leaving'[d]]
    BY DEF Leaving
  <2>. QED
    BY <1>6, <2>1, Zenon
<1>. HIDE DEF c
<1>8. Session!Release(c)
  BY <1>1, <1>2, <1>4, <1>7 DEF Session!Release
<1>. QED
  BY <1>1, <1>2, <1>8 DEF Session!Next

(* A connector that is not marked, and a read that fails, change nothing   *)
(* the client could notice; neither does the end of the pass.              *)
LEMMA PassSession ==
  ASSUME Inv, (\E f \in Fds : PostIdle(f) \/ PostReset(f)) \/ EndPass \/ EndReap
  PROVE  Unseen
<1>. USE DEF Inv
<1>1. UNCHANGED <<fdTable, stage, peerOpen, inbuf, outbuf>>
  BY DEF PostIdle, PostReset, EndPass, EndReap, kernel
<1>2. Up' = Up
  BY DEF PostIdle, PostReset, AtConnector, EndPass, EndReap, Up
<1>3. CASE \E f \in Fds : PostIdle(f) \/ PostReset(f)
  <2>1. pc = "post" /\ UNCHANGED <<pc, quitConns>>
    BY <1>3 DEF PostIdle, PostReset, AtConnector
  <2>2. Unreaped' = Unreaped
    BY <2>1 DEF Unreaped
  <2>. QED
    BY <1>1, <1>2, <2>1, <2>2, LinkSame, LeavingSame DEF Unseen
<1>4. CASE EndPass
  <2>1. quitConns' = quitConns /\ cursor' = 1 /\ pc = "post"
    BY <1>4 DEF EndPass
  <2>2. Unreaped' = Unreaped
    BY <2>1, LenProperties DEF Unreaped, TypeOK
  <2>. QED
    BY <1>1, <1>2, <2>1, <2>2, LinkSame, LeavingSame DEF Unseen
<1>5. CASE EndReap
  <2>1. Unreaped = {} /\ Unreaped' = {}
    <3>1. \A i \in DOMAIN quitConns : i < cursor
      BY <1>5, LenProperties DEF EndReap, TypeOK
    <3>2. Unreaped = {}
      BY <1>5, <3>1, LenProperties DEF EndReap, Unreaped, TypeOK
    <3>3. Unreaped' = {}
      BY <1>5 DEF EndReap, Unreaped
    <3>. QED
      BY <3>2, <3>3
  <2>2. Leaving' = Leaving
    BY <2>1 DEF Leaving
  <2>. QED
    BY <1>1, <1>2, <2>2, LinkSame DEF Unseen
<1>. QED
  BY <1>3, <1>4, <1>5

LEMMA ReapSession ==
  ASSUME Inv, Reap
  PROVE  Session!Next
<1>. USE DEF Inv
<1>. DEFINE f == quitConns[cursor]
            c == fdTable[f]
<1>1. /\ pc = "reap" /\ pc' = "reap"
      /\ cursor \in DOMAIN quitConns
      /\ cursor' = cursor + 1
      /\ UNCHANGED <<quitConns, peerOpen, outbuf>>
  BY LenProperties DEF Reap, TypeOK
<1>2. cursor \in Unreaped
  BY <1>1 DEF Unreaped, TypeOK
<1>3. f \in Fds /\ c \in Conns
  BY <1>1, <1>2, ElementOfSeq, LenProperties
  DEF QuitConnsPending, ConnectionsAccounted, TypeOK
<1>4. \A d \in Conns : fdTable[f] = d <=> d = c
  OBVIOUS
<1>5. /\ fdTable' = [fdTable EXCEPT ![f] = Nobody]
      /\ stage' = [stage EXCEPT ![c] = "closed"]
      /\ inbuf' = [inbuf EXCEPT ![c] = <<>>]
  BY <1>4 DEF Reap, CloseFd, TypeOK
<1>6. Link' = [Link EXCEPT ![c] = "ended"]
  BY <1>3, <1>5, LinkMoves
<1>7. Unreaped' = Unreaped \ {cursor}
  BY <1>1, LenProperties DEF Unreaped, TypeOK
<1>8. Leaving[c]
  BY <1>2, <1>3 DEF Leaving
<1>9. ASSUME NEW d \in Conns
      PROVE  Leaving'[d] = (IF d = c THEN FALSE ELSE Leaving[d])
  <2>1. Leaving'[d] = \E i \in Unreaped \ {cursor} : fdTable'[quitConns[i]] = d
    BY <1>1, <1>7 DEF Leaving
  <2>2. Leaving[d] = \E i \in Unreaped : fdTable[quitConns[i]] = d
    BY DEF Leaving
  <2>3. \A i \in Unreaped \ {cursor} : quitConns[i] \in Fds /\ quitConns[i] # f
    BY <1>1, ElementOfSeq, LenProperties
    DEF Unreaped, QuitConnsPending, IsInjective, TypeOK
  <2>4. ASSUME NEW g \in Fds, g # f
        PROVE  fdTable'[g] = fdTable[g] /\ fdTable[g] # c
    <3>1. fdTable[f] # Nobody
      BY <1>3, ConstantsAssumption
    <3>2. fdTable[g] # fdTable[f]
      BY <1>3, <2>4, <3>1 DEF ConnectionsAccounted, TableInjective
    <3>. QED
      BY <1>3, <1>5, <2>4, <3>2 DEF TypeOK
  <2>5. fdTable[f] = c /\ quitConns[cursor] = f
    OBVIOUS
  <2>. HIDE DEF c, f
  <2>6. CASE d = c
    BY <2>1, <2>3, <2>4, <2>6
  <2>7. CASE d # c
    <3>1. Leaving[d] = \E i \in Unreaped \ {cursor} : fdTable[quitConns[i]] = d
      BY <1>2, <2>2, <2>5, <2>7
    <3>. QED
      BY <2>1, <2>3, <2>4, <2>7, <3>1
  <2>. QED
    BY <2>6, <2>7
<1>10. Leaving' = [Leaving EXCEPT ![c] = FALSE]
  <2>1. /\ Leaving = [d \in Conns |-> Leaving[d]]
        /\ Leaving' = [d \in Conns |-> Leaving'[d]]
    BY DEF Leaving
  <2>. QED
    BY <1>9, <2>1, Zenon
<1>11. Up /\ Up' = Up
  BY <1>1 DEF Up
<1>. HIDE DEF c
<1>12. Session!Part(c)
  BY <1>1, <1>5, <1>6, <1>8, <1>10, <1>11 DEF Session!Part
<1>. QED
  BY <1>3, <1>11, <1>12 DEF Session!Next

-----------------------------------------------------------------------------
LEMMA NextSession == Inv /\ [Next]_vars => [Session!Next]_(Session!vars)
<1>1. CASE UNCHANGED vars
  <2>1. Unseen
    BY <1>1 DEF Unseen, Link, Leaving, Unreaped, Up, vars, kernel, listener
  <2>. QED
    BY <2>1, UnseenStutters
<1>2. Inv /\ Run => [Session!Next]_(Session!vars)
  BY SelectSession, AcceptSession, PostRequestSession, PostQuitSession, PassSession,
     ReapSession, UnseenStutters DEF Run, PostSelect
<1>. QED
  BY <1>1, <1>2, ClientSession, BinderSession, UnseenStutters DEF Next

(* What the listener thread does is what SdkSession promises every client: *)
(* a reply goes to the client that asked and answers the oldest request,   *)
(* and close() hits only a connection whose own client said quit or went   *)
(* away, in every interleaving with the other clients and the binder       *)
(* threads.                                                                *)
THEOREM ListenerImplementsSession == Spec => ImplementsSession
<1>1. Spec => Session!Spec
  BY InitSession, NextSession, SpecInv, PTL DEF Spec, Session!Spec
<1>. QED
  BY <1>1 DEF ImplementsSession
=============================================================================
