-------------------------- MODULE DfuDownloadProofs --------------------------
(***************************************************************************)
(* Proofs about flashing, for any number of downloads, any sizes of files  *)
(* and any width of an int: what bRunning keeps apart, also across the     *)
(* death of vrserver and of the service, who holds the socket address, and *)
(* what the callbacks are told of the progress and the outcome.            *)
(***************************************************************************)
EXTENDS DfuDownload, ListLemmas

(* The types these proofs need.                                            *)
Kinds ==
  /\ bRunning \in BOOLEAN
  /\ bothPassed \in BOOLEAN
  /\ orphaned \in BOOLEAN
  /\ download \in [Downloads -> {"none", "passed", "refused", "sleeping",
                                 "flashing", "cut", "returned", "aborted"}]
  /\ talker \in [Downloads -> {"none", "created", "accepting", "reading",
                               "finally", "closing", "ended", "gone"}]
  /\ dfu \in [Downloads -> {"none", "started", "connected", "mute", "exited"}]
  /\ address \in Downloads \cup {Nobody}

(* What a step changes of the variables above, one group of actions each.  *)
LEMMA TalkLeavesService ==
  ASSUME NEW d \in Downloads, Talk(d), ~ReadZero(d), Kinds
  PROVE  /\ UNCHANGED <<bRunning, bothPassed, orphaned, download>>
         /\ \A e \in Downloads : dfu'[e] \in {"started", "connected", "mute"} <=> Flashes(e)
<1>1. UNCHANGED <<bRunning, bothPassed, orphaned, download>>
  BY DEF Talk, Bind, AcceptClient, Read, ReadEnd, ReportFailure, CloseSockets, service
<1>2. CASE CloseSockets(d)
  BY <1>1, <1>2 DEF CloseSockets, Flashes, Kinds
<1>3. CASE ~CloseSockets(d)
  <2>1. UNCHANGED dfu
    BY <1>3 DEF Talk, Bind, AcceptClient, Read, ReadEnd, ReportFailure, tool
  <2>. QED
    BY <1>1, <2>1 DEF Flashes
<1>. QED
  BY <1>2, <1>3

LEMMA ToolLeavesService ==
  ASSUME NEW d \in Downloads, DfuUtil(d), Kinds
  PROVE  /\ UNCHANGED <<bRunning, bothPassed, orphaned, download, talker, address>>
         /\ \A e \in Downloads : dfu'[e] \in {"started", "connected", "mute"} => Flashes(e)
  BY DEF DfuUtil, DfuConnect, DfuSend, DfuExit, Flashes, Kinds, service, talk

-----------------------------------------------------------------------------
LEMMA InitKinds == Init => Kinds
<1>. SUFFICES ASSUME Init
              PROVE  Kinds
  OBVIOUS
<1>1. bRunning \in BOOLEAN /\ bothPassed \in BOOLEAN /\ orphaned \in BOOLEAN
  BY Zenon DEF Init
<1>. QED
  BY <1>1 DEF Init, Kinds

LEMMA ServiceEndsKinds == Kinds /\ ServiceEnds => Kinds'
<1>. SUFFICES ASSUME Kinds, ServiceEnds
              PROVE  Kinds'
  OBVIOUS
<1>1. bRunning' \in BOOLEAN /\ bothPassed' \in BOOLEAN /\ orphaned' \in BOOLEAN
  BY Zenon DEF ServiceEnds
<1>2. /\ download' = [d \in Downloads |->
                        IF download[d] \in {"passed", "sleeping", "flashing", "cut"}
                        THEN "aborted" ELSE download[d]]
      /\ talker' = [d \in Downloads |-> IF talker[d] = "none" THEN "none" ELSE "gone"]
      /\ dfu' = [d \in Downloads |-> IF dfu[d] = "connected" THEN "mute" ELSE dfu[d]]
      /\ address' = Nobody
  BY DEF ServiceEnds
<1>. QED
  BY <1>1, <1>2 DEF Kinds

LEMMA NextKinds == Kinds /\ [Next]_vars => Kinds'
<1>. SUFFICES ASSUME Kinds, [Next]_vars
              PROVE  Kinds'
  OBVIOUS
<1>. USE DEF Kinds
<1>1. ASSUME NEW d \in Downloads, TestRunning(d)
      PROVE  Kinds'
  BY <1>1 DEF TestRunning, talk, tool
<1>2. ASSUME NEW d \in Downloads, SetRunning(d) \/ RunDfuUtil(d)
      PROVE  Kinds'
  BY <1>2 DEF SetRunning, RunDfuUtil, talk, tool
<1>3. ASSUME NEW d \in Downloads, SystemCallFails(d) \/ Return(d)
      PROVE  Kinds'
  BY <1>3 DEF SystemCallFails, Return, talk, tool
<1>4. ASSUME NEW d \in Downloads, Bind(d) \/ AcceptClient(d) \/ Read(d) \/ ReadEnd(d)
      PROVE  Kinds'
  BY <1>4 DEF Bind, AcceptClient, Read, ReadEnd, service, tool
<1>5. ASSUME NEW d \in Downloads, ReportFailure(d) \/ CloseSockets(d)
      PROVE  Kinds'
  BY <1>5 DEF ReportFailure, CloseSockets, service, tool
<1>6. ASSUME NEW d \in Downloads, DfuUtil(d)
      PROVE  Kinds'
  BY <1>6 DEF DfuUtil, DfuConnect, DfuSend, DfuExit, service, talk
<1>7. CASE VrserverDies
  BY <1>7 DEF VrserverDies, talk, tool
<1>8. CASE ServiceDies \/ \E d \in Downloads : ReadZero(d)
  BY <1>8, ServiceEndsKinds DEF ServiceDies, ReadZero
<1>9. CASE UNCHANGED vars
  BY <1>9 DEF vars, service, talk, tool
<1>. QED
  BY <1>1, <1>2, <1>3, <1>4, <1>5, <1>6, <1>7, <1>8, <1>9
     DEF Next, StartDownLoad, Talk

(* A step of startDownLoad, of a talker or of dfu-util, or a death: the     *)
(* ways a step can go, for the proofs below.                               *)
LEMMA StepKinds ==
  ASSUME [Next]_vars
  PROVE  \/ \E d \in Downloads : StartDownLoad(d)
         \/ \E d \in Downloads : Talk(d) /\ ~ReadZero(d)
         \/ \E d \in Downloads : DfuUtil(d)
         \/ VrserverDies
         \/ ServiceEnds
         \/ UNCHANGED vars
  BY DEF Next, ServiceDies, Talk, ReadZero

-----------------------------------------------------------------------------
(* bRunning.  Without a death, the dfu-util of a startDownLoad runs only   *)
(* while the call waits for it; without two calls between test and set,    *)
(* the flag is the one active call, and whoever has passed the test passed *)
(* it alone.                                                               *)

CallWaits ==
  ~orphaned => \A d \in Downloads : Flashes(d) => download[d] = "flashing"

FlagIsCall ==
  ~bothPassed =>
    /\ \A d, e \in Downloads : Active(d) /\ Active(e) => d = e
    /\ bRunning <=> \E d \in Downloads : Active(d)
    /\ \A d \in Downloads : download[d] = "passed" => ~bRunning
    /\ \A d, e \in Downloads : download[d] = "passed" /\ download[e] = "passed" => d = e

OneInv == Kinds /\ CallWaits /\ FlagIsCall

LEMMA CallWaitsStep == Kinds /\ CallWaits /\ [Next]_vars => CallWaits'
<1>. SUFFICES ASSUME Kinds, CallWaits, [Next]_vars
              PROVE  CallWaits'
  OBVIOUS
<1>. USE DEF Kinds, CallWaits, Flashes
<1>1. ASSUME NEW d \in Downloads, TestRunning(d)
      PROVE  CallWaits'
  BY <1>1 DEF TestRunning, talk, tool
<1>2. ASSUME NEW d \in Downloads, SetRunning(d)
      PROVE  CallWaits'
  BY <1>2 DEF SetRunning, tool
<1>3. ASSUME NEW d \in Downloads, RunDfuUtil(d)
      PROVE  CallWaits'
  BY <1>3 DEF RunDfuUtil
<1>4. ASSUME NEW d \in Downloads, SystemCallFails(d)
      PROVE  CallWaits'
  BY <1>4 DEF SystemCallFails, tool
<1>5. ASSUME NEW d \in Downloads, Return(d)
      PROVE  CallWaits'
  BY <1>5 DEF Return, Answered, tool
<1>6. ASSUME NEW d \in Downloads, Talk(d), ~ReadZero(d)
      PROVE  CallWaits'
  BY <1>6, TalkLeavesService
<1>7. ASSUME NEW d \in Downloads, DfuUtil(d)
      PROVE  CallWaits'
  BY <1>7, ToolLeavesService
<1>8. CASE VrserverDies
  BY <1>8 DEF VrserverDies, tool
<1>9. CASE ServiceEnds
  BY <1>9 DEF ServiceEnds
<1>10. CASE UNCHANGED vars
  BY <1>10 DEF vars, service, tool
<1>. QED
  BY <1>1, <1>2, <1>3, <1>4, <1>5, <1>6, <1>7, <1>8, <1>9, <1>10, StepKinds
     DEF StartDownLoad

LEMMA FlagIsCallStep == Kinds /\ FlagIsCall /\ [Next]_vars => FlagIsCall'
<1>. SUFFICES ASSUME Kinds, FlagIsCall, [Next]_vars
              PROVE  FlagIsCall'
  OBVIOUS
<1>. USE DEF Kinds, FlagIsCall, Active
<1>1. ASSUME NEW d \in Downloads, TestRunning(d)
      PROVE  FlagIsCall'
  BY <1>1 DEF TestRunning
<1>2. ASSUME NEW d \in Downloads, SetRunning(d)
      PROVE  FlagIsCall'
  BY <1>2 DEF SetRunning
<1>3. ASSUME NEW d \in Downloads, RunDfuUtil(d)
      PROVE  FlagIsCall'
  BY <1>3 DEF RunDfuUtil
<1>4. ASSUME NEW d \in Downloads, SystemCallFails(d)
      PROVE  FlagIsCall'
  BY <1>4 DEF SystemCallFails
<1>5. ASSUME NEW d \in Downloads, Return(d)
      PROVE  FlagIsCall'
  BY <1>5 DEF Return, Answered
<1>6. ASSUME NEW d \in Downloads, Talk(d), ~ReadZero(d)
      PROVE  FlagIsCall'
  BY <1>6, TalkLeavesService
<1>7. ASSUME NEW d \in Downloads, DfuUtil(d)
      PROVE  FlagIsCall'
  BY <1>7, ToolLeavesService
<1>8. CASE VrserverDies
  BY <1>8 DEF VrserverDies
<1>9. CASE ServiceEnds
  BY <1>9 DEF ServiceEnds
<1>10. CASE UNCHANGED vars
  BY <1>10 DEF vars, service
<1>. QED
  BY <1>1, <1>2, <1>3, <1>4, <1>5, <1>6, <1>7, <1>8, <1>9, <1>10, StepKinds
     DEF StartDownLoad

(* startDownLoad: one call at a time is active, as long as no two calls    *)
(* passed the test of bRunning together; and one dfu-util that such calls  *)
(* started, as long as also no process died while one ran.  The dfu-utils  *)
(* of getBoardMode and of a client's systemCall are not among them.        *)
THEOREM SpecOneAtATime == Spec => []OneAtATime
<1>1. Init => OneInv
  <2>. SUFFICES ASSUME Init
                PROVE  CallWaits /\ FlagIsCall
    BY InitKinds DEF OneInv
  <2>. QED
    BY DEF Init, CallWaits, FlagIsCall, Flashes, Active
<1>2. OneInv /\ [Next]_vars => OneInv'
  BY NextKinds, CallWaitsStep, FlagIsCallStep DEF OneInv
<1>3. OneInv => OneAtATime
  BY DEF OneInv, Kinds, CallWaits, FlagIsCall, OneAtATime, Active
<1>. QED
  BY <1>1, <1>2, <1>3, PTL DEF Spec

-----------------------------------------------------------------------------
(* The socket address.  A call that has not set bRunning has no talker yet, *)
(* so that the talker it creates cannot be the one that has the address.   *)

TalkerAfterSet ==
  \A d \in Downloads : download[d] \in {"none", "passed"} => talker[d] = "none"

AddressInv == Kinds /\ TalkerAfterSet /\ AddressHeld

LEMMA TalkerAfterSetStep == Kinds /\ TalkerAfterSet /\ [Next]_vars => TalkerAfterSet'
<1>. SUFFICES ASSUME Kinds, TalkerAfterSet, [Next]_vars
              PROVE  TalkerAfterSet'
  OBVIOUS
<1>. USE DEF Kinds, TalkerAfterSet
<1>1. ASSUME NEW d \in Downloads, TestRunning(d)
      PROVE  TalkerAfterSet'
  BY <1>1 DEF TestRunning, talk
<1>2. ASSUME NEW d \in Downloads, SetRunning(d)
      PROVE  TalkerAfterSet'
  BY <1>2 DEF SetRunning
<1>3. ASSUME NEW d \in Downloads, RunDfuUtil(d) \/ SystemCallFails(d) \/ Return(d)
      PROVE  TalkerAfterSet'
  BY <1>3 DEF RunDfuUtil, SystemCallFails, Return, talk
<1>4. ASSUME NEW d \in Downloads, Talk(d), ~ReadZero(d)
      PROVE  TalkerAfterSet'
  BY <1>4 DEF Talk, Bind, AcceptClient, Read, ReadEnd, ReportFailure, CloseSockets, service
<1>5. ASSUME NEW d \in Downloads, DfuUtil(d)
      PROVE  TalkerAfterSet'
  BY <1>5, ToolLeavesService
<1>6. CASE VrserverDies
  BY <1>6 DEF VrserverDies, talk
<1>7. CASE ServiceEnds
  BY <1>7 DEF ServiceEnds
<1>8. CASE UNCHANGED vars
  BY <1>8 DEF vars, service, talk
<1>. QED
  BY <1>1, <1>2, <1>3, <1>4, <1>5, <1>6, <1>7, <1>8, StepKinds DEF StartDownLoad

LEMMA AddressStep == AddressInv /\ [Next]_vars => AddressHeld'
<1>. SUFFICES ASSUME Kinds, TalkerAfterSet, AddressHeld, [Next]_vars
              PROVE  AddressHeld'
  BY DEF AddressInv
<1>. USE DfuAssumption DEF Kinds, AddressHeld, DfuAssumption
<1>1. ASSUME NEW d \in Downloads,
             TestRunning(d) \/ RunDfuUtil(d) \/ SystemCallFails(d) \/ Return(d)
      PROVE  AddressHeld'
  BY <1>1 DEF TestRunning, RunDfuUtil, SystemCallFails, Return, talk, tool
<1>2. ASSUME NEW d \in Downloads, SetRunning(d)
      PROVE  AddressHeld'
  BY <1>2 DEF SetRunning, TalkerAfterSet, tool
<1>3. ASSUME NEW d \in Downloads, Bind(d)
      PROVE  AddressHeld'
  BY <1>3 DEF Bind, tool
<1>4. ASSUME NEW d \in Downloads, AcceptClient(d)
      PROVE  AddressHeld'
  BY <1>4 DEF AcceptClient
<1>5. ASSUME NEW d \in Downloads, Read(d) \/ ReadEnd(d) \/ ReportFailure(d)
      PROVE  AddressHeld'
  BY <1>5 DEF Read, ReadEnd, ReportFailure, tool
<1>6. ASSUME NEW d \in Downloads, CloseSockets(d)
      PROVE  AddressHeld'
  BY <1>6 DEF CloseSockets
<1>7. ASSUME NEW d \in Downloads, DfuUtil(d)
      PROVE  AddressHeld'
  BY <1>7 DEF DfuUtil, DfuConnect, DfuSend, DfuExit, talk
<1>8. CASE ServiceEnds
  BY <1>8 DEF ServiceEnds
<1>9. CASE VrserverDies \/ UNCHANGED vars
  BY <1>9 DEF VrserverDies, vars, talk, tool
<1>. QED
  BY <1>1, <1>2, <1>3, <1>4, <1>5, <1>6, <1>7, <1>8, <1>9, StepKinds
     DEF StartDownLoad, Talk

(* talkWithSocket: the address belongs to the talker that bound it until   *)
(* its finally block has closed the listening socket.                      *)
THEOREM SpecAddressHeld == Spec => []AddressHeld
<1>1. Init => AddressInv
  BY InitKinds DEF Init, AddressInv, AddressHeld, TalkerAfterSet
<1>2. AddressInv /\ [Next]_vars => AddressInv'
  BY NextKinds, TalkerAfterSetStep, AddressStep DEF AddressInv
<1>3. AddressInv => AddressHeld
  BY DEF AddressInv
<1>. QED
  BY <1>1, <1>2, <1>3, PTL DEF Spec

-----------------------------------------------------------------------------
(* What the callbacks are told.  A message of dfu-util reaches the one      *)
(* talker that accepted its connection, in the order it was sent, so that  *)
(* what this talker has broadcast is the progress of that dfu-util.        *)

(* The types of what these proofs add.                                     *)
ToldKinds ==
  /\ client \in [Downloads -> Downloads \cup {Nobody}]
  /\ fileSize \in [Downloads -> Nat \cup {-1}]
  /\ writeSize \in [Downloads -> Nat]
  /\ told \in [Downloads -> Seq(-(MaxInt + 1) .. MaxInt)]
  /\ size \in [Downloads -> Sizes \cup {0}]
  /\ sent \in [Downloads -> Nat]
  /\ waiting \in Seq(Downloads)
  /\ channel \in [Downloads -> Seq(Nat)]

(* Message n of dfu-util e, and how many were read.                        *)
Message(e, n) == IF n = 0 THEN size[e] ELSE n

Got(e) == sent[e] - Len(channel[e])

(* The channel holds what was sent last.                                   *)
ChannelOf(e) ==
  /\ Got(e) >= 0
  /\ sent[e] <= size[e] + 1
  /\ \A i \in 1 .. Len(channel[e]) : channel[e][i] = Message(e, Got(e) + i - 1)

(* A dfu-util that has not connected yet.                                  *)
Fresh(e) ==
  /\ sent[e] = 0
  /\ channel[e] = <<>>
  /\ e \notin ToSet(waiting)
  /\ \A d \in Downloads : client[d] # e

Tools ==
  /\ \A e \in Downloads : ChannelOf(e)
  /\ \A e \in Downloads : download[e] \in {"none", "passed", "sleeping"} => dfu[e] = "none"
  /\ \A e \in Downloads : dfu[e] \in {"none", "started"} => Fresh(e)

(* One talker at most has the connection of a dfu-util, and none has read  *)
(* from one that waits to be accepted.                                     *)
OneTalker ==
  /\ \A d, e \in Downloads : client[d] = client[e] /\ client[d] # Nobody => d = e
  /\ IsInjective(waiting)
  /\ \A e \in ToSet(waiting) : Got(e) = 0 /\ \A d \in Downloads : client[d] # e

(* A talker before its connection, and with one.                           *)
Silent(d) == fileSize[d] = -1 /\ writeSize[d] = 0 /\ told[d] = <<>>

ToldOf(d, e) ==
  /\ talker[d] \in {"reading", "finally", "closing", "ended"}
  /\ IF Got(e) = 0
     THEN fileSize[d] = -1 /\ writeSize[d] = 0
     ELSE fileSize[d] = size[e] /\ size[e] # 0 /\ writeSize[d] = Got(e) - 1
  /\ \A i \in 1 .. Got(e) : told[d][i] = Progress(i - 1, size[e])
  /\ talker[d] # "reading" => dfu[e] = "exited" /\ channel[e] = <<>>
  /\ IF talker[d] \in {"reading", "finally"} \/ Finished(e)
     THEN Len(told[d]) = Got(e)
     ELSE Len(told[d]) = Got(e) + 1 /\ told[d][Got(e) + 1] = -1

Talkers ==
  /\ \A d \in Downloads : talker[d] \in {"none", "created", "accepting", "gone"} =>
                            client[d] = Nobody /\ Silent(d)
  /\ \A d \in Downloads : talker[d] = "reading" => client[d] # Nobody
  /\ \A d, e \in Downloads : client[d] = e => ToldOf(d, e)

ToldInv == Kinds /\ ToldKinds /\ TalkerAfterSet /\ Tools /\ OneTalker /\ Talkers

(* What is broadcast fits an int, and -1 does.                             *)
LEMMA ProgressRange ==
  ASSUME NEW w \in Nat, NEW t \in Nat \ {0}
  PROVE  Progress(w, t) \in -(MaxInt + 1) .. MaxInt
<1>. DEFINE a == Int32(w * 100)
<1>1. MaxInt \in Nat
  BY DfuAssumption
<1>2. a \in -(MaxInt + 1) .. MaxInt
  BY <1>1 DEF Int32
<1>. HIDE DEF a
<1>3. CASE a >= 0
  <2>1. a \div t \in 0 .. a
    BY <1>2, <1>3
  <2>. QED
    BY <1>1, <1>2, <1>3, <2>1 DEF Progress, Quotient, a
<1>4. CASE ~(a >= 0)
  <2>1. (-a) \div t \in 0 .. -a
    BY <1>2, <1>4
  <2>. QED
    BY <1>1, <1>2, <1>4, <2>1 DEF Progress, Quotient, a
<1>. QED
  BY <1>3, <1>4

(* And it is a percentage that grows with what was written, as long as the *)
(* hundredfold of the size fits an int.                                    *)
LEMMA ProgressGrows ==
  ASSUME NEW t \in Nat \ {0}, t * 100 <= MaxInt,
         NEW k \in 0 .. t, NEW j \in 0 .. k
  PROVE  Progress(k, t) \in 0 .. 100 /\ Progress(j, t) <= Progress(k, t)
<1>1. MaxInt \in Nat
  BY DfuAssumption
<1>2. ASSUME NEW i \in 0 .. t
      PROVE  Progress(i, t) = (i * 100) \div t
  <2>1. i * 100 \in 0 .. MaxInt
    BY <1>1
  <2>2. Int32(i * 100) = i * 100
    BY <1>1, <2>1 DEF Int32
  <2>. QED
    BY <2>1, <2>2 DEF Progress, Quotient
<1>3. (k * 100) \div t \in 0 .. 100
  OBVIOUS
<1>4. (j * 100) \div t <= (k * 100) \div t
  <2>1. j * 100 \in Nat /\ k * 100 \in Nat /\ j * 100 <= k * 100
    OBVIOUS
  <2>. QED
    BY <2>1
<1>. QED
  BY <1>2, <1>3, <1>4

-----------------------------------------------------------------------------
(* A step that leaves a talker, a channel or a dfu-util alone.             *)

LEMMA ToldFrame ==
  ASSUME NEW d \in Downloads, NEW e \in Downloads, ToldOf(d, e),
         UNCHANGED <<talker[d], fileSize[d], writeSize[d], told[d],
                     size[e], sent[e], channel[e]>>,
         dfu[e] = "exited" => dfu'[e] = "exited"
  PROVE  ToldOf(d, e)'
BY DEF ToldOf, Got, Finished

LEMMA ChannelFrame ==
  ASSUME NEW e \in Downloads, ChannelOf(e), UNCHANGED <<size[e], sent[e], channel[e]>>
  PROVE  ChannelOf(e)'
BY DEF ChannelOf, Got, Message

LEMMA InitTold == Init => ToldInv
<1>. SUFFICES ASSUME Init
              PROVE  ToldInv
  OBVIOUS
<1>1. Kinds /\ TalkerAfterSet
  BY InitKinds DEF Init, TalkerAfterSet
<1>2. ToldKinds
  BY EmptySeq DEF Init, ToldKinds
<1>3. \A e \in Downloads : Got(e) = 0 /\ client[e] = Nobody /\ Silent(e)
  BY DEF Init, Got, Silent
<1>4. waiting = <<>> /\ ToSet(waiting) = {} /\ IsInjective(waiting)
  BY DEF Init, ToSet, IsInjective
<1>5. Tools
  BY <1>3, <1>4, DfuAssumption DEF Init, Tools, ChannelOf, Fresh
<1>6. OneTalker
  BY <1>3, <1>4 DEF OneTalker
<1>7. Talkers
  BY <1>3, DfuAssumption DEF Init, Talkers
<1>. QED
  BY <1>1, <1>2, <1>5, <1>6, <1>7 DEF ToldInv

(* The parts of ToldInv that no lemma above keeps.                         *)
Told == ToldKinds /\ Tools /\ OneTalker /\ Talkers

(* Steps of the calls: the ones a talker or a dfu-util begins with.        *)
LEMMA StartTold ==
  ASSUME ToldInv, NEW d \in Downloads, StartDownLoad(d)
  PROVE  Told'
<1>. USE DEF ToldInv, Kinds
<1>1. UNCHANGED <<client, fileSize, writeSize, told, size, sent, waiting, channel>>
  BY DEF StartDownLoad, TestRunning, SetRunning, RunDfuUtil, SystemCallFails, Return, talk, tool
<1>2. ToldKinds' /\ OneTalker'
  BY <1>1 DEF ToldKinds, OneTalker, Got
<1>3. \A e \in Downloads : Fresh(e) => Fresh(e)'
  BY <1>1 DEF Fresh
<1>4. \A e \in Downloads : ChannelOf(e)'
  BY <1>1, ChannelFrame DEF Tools
<1>5. CASE RunDfuUtil(d)
  <2>1. dfu[d] = "none" /\ Fresh(d)
    BY <1>5 DEF RunDfuUtil, Tools
  <2>2. /\ dfu' = [dfu EXCEPT ![d] = "started"]
        /\ download' = [download EXCEPT ![d] = "flashing"]
        /\ talker' = talker
    BY <1>5 DEF RunDfuUtil, talk
  <2>3. Tools'
    BY <1>3, <1>4, <2>1, <2>2 DEF Tools
  <2>4. ASSUME NEW b \in Downloads, NEW e \in Downloads, client[b] = e
        PROVE  ToldOf(b, e)'
    <3>1. e # d
      BY <2>1, <2>4 DEF Fresh
    <3>2. ToldOf(b, e)
      BY <2>4 DEF Talkers
    <3>. QED
      BY <1>1, <2>2, <3>1, <3>2 DEF ToldOf, Got, Finished
  <2>5. Talkers'
    BY <1>1, <2>2, <2>4 DEF Talkers, Silent
  <2>. QED
    BY <1>2, <2>3, <2>5 DEF Told
<1>6. CASE ~RunDfuUtil(d)
  <2>1. dfu' = dfu
    BY <1>6 DEF StartDownLoad, TestRunning, SetRunning, SystemCallFails, Return, tool
  <2>2. \A e \in Downloads : download'[e] \in {"none", "passed", "sleeping"} =>
                              download[e] \in {"none", "passed", "sleeping"}
    BY <1>6 DEF StartDownLoad, TestRunning, SetRunning, SystemCallFails, Return
  <2>3. Tools'
    BY <1>3, <1>4, <2>1, <2>2 DEF Tools
  <2>4. \/ talker' = talker
        \/ talker[d] = "none" /\ talker' = [talker EXCEPT ![d] = "created"]
    BY <1>6 DEF StartDownLoad, TestRunning, SetRunning, SystemCallFails, Return, talk,
                TalkerAfterSet
  <2>5. Talkers'
    BY <1>1, <2>1, <2>4 DEF Talkers, Silent, ToldOf, Got, Finished
  <2>. QED
    BY <1>2, <2>3, <2>5 DEF Told
<1>. QED
  BY <1>5, <1>6

LEMMA DeathTold ==
  ASSUME ToldInv, VrserverDies \/ ServiceEnds
  PROVE  Told'
<1>. USE DEF ToldInv, Kinds
<1>1. CASE VrserverDies
  <2>1. UNCHANGED <<talker, client, fileSize, writeSize, told, dfu, size, sent, waiting, channel>>
    BY <1>1 DEF VrserverDies, talk, tool
  <2>2. \A e \in Downloads : download'[e] \in {"none", "passed", "sleeping"} =>
                              download[e] \in {"none", "passed", "sleeping"}
    BY <1>1 DEF VrserverDies
  <2>. QED
    BY <2>1, <2>2 DEF Told, ToldKinds, Tools, OneTalker, Talkers, Fresh, ChannelOf, Message,
                      Silent, ToldOf, Got, Finished
<1>2. CASE ServiceEnds
  <2>1. ToldKinds'
    BY <1>2, EmptySeq DEF ServiceEnds, ToldKinds
  <2>2. \A e \in Downloads : Got(e)' = 0 /\ client'[e] = Nobody /\ Silent(e)'
    BY <1>2 DEF ServiceEnds, Got, Silent
  <2>3. waiting' = <<>> /\ ToSet(waiting') = {} /\ IsInjective(waiting')
    BY <1>2 DEF ServiceEnds, ToSet, IsInjective
  <2>4. \A e \in Downloads : ChannelOf(e)' /\ Fresh(e)'
    BY <1>2, <2>2, <2>3, DfuAssumption DEF ServiceEnds, ChannelOf, Fresh
  <2>5. Tools'
    BY <1>2, <2>4 DEF ServiceEnds, Tools
  <2>6. OneTalker'
    BY <2>2, <2>3 DEF OneTalker
  <2>7. Talkers'
    BY <1>2, <2>2, DfuAssumption DEF ServiceEnds, Talkers
  <2>. QED
    BY <2>1, <2>5, <2>6, <2>7 DEF Told
<1>. QED
  BY <1>1, <1>2

-----------------------------------------------------------------------------
(* Steps of a talker.                                                      *)

LEMMA BindTold ==
  ASSUME ToldInv, NEW d \in Downloads, Bind(d)
  PROVE  Told'
<1>. USE DEF ToldInv, Kinds
<1>1. /\ UNCHANGED <<download, client, fileSize, writeSize, told, dfu, size, sent, waiting,
                     channel>>
      /\ talker[d] = "created"
      /\ \/ talker' = [talker EXCEPT ![d] = "accepting"]
         \/ talker' = [talker EXCEPT ![d] = "finally"]
  BY DEF Bind, service, tool
<1>2. ToldKinds' /\ Tools' /\ OneTalker'
  BY <1>1 DEF ToldKinds, Tools, OneTalker, Fresh, ChannelOf, Message, Got
<1>3. Talkers'
  BY <1>1 DEF Talkers, Silent, ToldOf, Got, Finished
<1>. QED
  BY <1>2, <1>3 DEF Told

LEMMA AcceptTold ==
  ASSUME ToldInv, NEW d \in Downloads, AcceptClient(d)
  PROVE  Told'
<1>. USE DEF ToldInv, Kinds
<1>1. PICK e \in Downloads : e = Head(waiting)
  BY TailSet DEF AcceptClient, ToldKinds
<1>2. /\ talker[d] = "accepting"
      /\ talker' = [talker EXCEPT ![d] = "reading"]
      /\ client' = [client EXCEPT ![d] = e]
      /\ waiting' = Tail(waiting)
      /\ UNCHANGED <<download, fileSize, writeSize, told, dfu, size, sent, channel>>
  BY <1>1 DEF AcceptClient, service
<1>3. /\ waiting' \in Seq(Downloads)
      /\ ToSet(waiting) = ToSet(waiting') \cup {e}
      /\ IsInjective(waiting')
      /\ e \notin ToSet(waiting')
  <2>1. waiting # <<>> /\ waiting \in Seq(Downloads) /\ IsInjective(waiting)
    BY DEF AcceptClient, ToldKinds, OneTalker
  <2>2. /\ Tail(waiting) \in Seq(Downloads)
        /\ ToSet(waiting) = ToSet(Tail(waiting)) \cup {Head(waiting)}
        /\ IsInjective(Tail(waiting)) /\ Head(waiting) \notin ToSet(Tail(waiting))
    BY <2>1, TailSet
  <2>. QED
    BY <1>1, <1>2, <2>2
<1>4. e # Nobody /\ Got(e) = 0 /\ \A b \in Downloads : client[b] # e
  BY <1>3, DfuAssumption DEF OneTalker
<1>5. client[d] = Nobody /\ Silent(d)
  BY <1>2 DEF Talkers
<1>6. ToldKinds'
  BY <1>2, <1>3 DEF ToldKinds
<1>7. \A b \in Downloads : client'[b] = IF b = d THEN e ELSE client[b]
  BY <1>2 DEF ToldKinds
<1>8. Tools'
  <2>1. \A b \in Downloads : ChannelOf(b)'
    BY <1>2, ChannelFrame DEF Tools
  <2>2. ASSUME NEW b \in Downloads, dfu[b] \in {"none", "started"}
        PROVE  Fresh(b)'
    <3>1. Fresh(b) /\ b # e
      BY <1>3, <2>2 DEF Tools, Fresh
    <3>. QED
      BY <1>2, <1>3, <1>7, <3>1 DEF Fresh
  <2>. QED
    BY <1>2, <2>1, <2>2 DEF Tools
<1>9. OneTalker'
  <2>1. \A b \in Downloads : Got(b)' = Got(b)
    BY <1>2 DEF Got
  <2>2. ToSet(waiting') \subseteq Downloads
    BY <1>6 DEF ToldKinds, ToSet
  <2>3. \A b \in ToSet(waiting') : Got(b)' = 0 /\ \A a \in Downloads : client'[a] # b
    BY <1>3, <1>7, <2>1, <2>2 DEF OneTalker
  <2>4. \A a, b \in Downloads : client'[a] = client'[b] /\ client'[a] # Nobody => a = b
    BY <1>4, <1>7 DEF OneTalker
  <2>. QED
    BY <1>3, <2>3, <2>4 DEF OneTalker
<1>10. ToldOf(d, e)'
  <2>1. talker'[d] = "reading"
    BY <1>2
  <2>2. Got(e)' = 0 /\ Len(told'[d]) = 0
    BY <1>2, <1>4, <1>5 DEF Got, Silent
  <2>3. fileSize'[d] = -1 /\ writeSize'[d] = 0
    BY <1>2, <1>5 DEF Silent
  <2>. QED
    BY <2>1, <2>2, <2>3 DEF ToldOf
<1>11. ASSUME NEW b \in Downloads \ {d}, NEW c \in Downloads, client[b] = c
       PROVE  ToldOf(b, c)'
  <2>1. ToldOf(b, c)
    BY <1>11 DEF Talkers
  <2>2. talker'[b] = talker[b]
    BY <1>2
  <2>. QED
    BY <1>2, <2>1, <2>2, ToldFrame
<1>12. Talkers'
  <2>1. \A b \in Downloads : talker'[b] = IF b = d THEN "reading" ELSE talker[b]
    BY <1>2
  <2>2. \A b \in Downloads : Silent(b)' <=> Silent(b)
    BY <1>2 DEF Silent
  <2>3. \A b, c \in Downloads : client'[b] = c => ToldOf(b, c)'
    BY <1>7, <1>10, <1>11
  <2>. HIDE DEF ToldInv
  <2>4. Talkers
    BY DEF ToldInv
  <2>. QED
    BY <1>4, <1>7, <2>1, <2>2, <2>3, <2>4 DEF Talkers
<1>. QED
  BY <1>6, <1>8, <1>9, <1>12 DEF Told

(* The message read is the next one of the dfu-util at the other end.      *)
LEMMA ReadTold ==
  ASSUME ToldInv, NEW d \in Downloads, Read(d)
  PROVE  Told'
<1>. USE DEF ToldInv, Kinds
<1>1. PICK e \in Downloads : e = client[d]
  BY DEF Read, Talkers, ToldKinds
<1>2. PICK value, total, done :
        /\ value = Head(channel[e])
        /\ total = FileSize(d, value)
        /\ done = IF fileSize[d] = -1 THEN writeSize[d] ELSE value
  OBVIOUS
<1>3. /\ talker[d] = "reading"
      /\ channel[e] # <<>>
      /\ total # 0
      /\ fileSize' = [fileSize EXCEPT ![d] = total]
      /\ writeSize' = [writeSize EXCEPT ![d] = done]
      /\ told' = [told EXCEPT ![d] = Append(@, Progress(done, total))]
      /\ channel' = [channel EXCEPT ![e] = Tail(@)]
      /\ UNCHANGED <<download, talker, client, dfu, size, sent, waiting>>
  BY <1>1, <1>2 DEF Read, Broadcast, service
<1>4. ToldOf(d, e) /\ ChannelOf(e)
  BY <1>1 DEF Talkers, Tools
<1>5. size[e] \in Nat /\ sent[e] \in Nat /\ channel[e] \in Seq(Nat)
  <2>1. size[e] \in Sizes \cup {0} /\ sent[e] \in Nat /\ channel[e] \in Seq(Nat)
    BY DEF ToldKinds
  <2>2. Sizes \cup {0} \subseteq Nat
    BY DfuAssumption
  <2>. QED
    BY <2>1, <2>2
<1>6. PICK rest, g :
        /\ rest = Tail(channel[e])
        /\ g = Got(e)
  OBVIOUS
<1>7. /\ Len(channel[e]) \in Nat \ {0}
      /\ value = channel[e][1]
      /\ rest \in Seq(Nat)
      /\ Len(rest) = Len(channel[e]) - 1
      /\ \A i \in 1 .. Len(channel[e]) - 1 : rest[i] = channel[e][i + 1]
  BY <1>2, <1>3, <1>5, <1>6
<1>8. g \in Nat /\ value = Message(e, g)
  BY <1>4, <1>5, <1>6, <1>7 DEF ChannelOf, Got
<1>9. total = size[e] /\ size[e] \in Nat \ {0} /\ done = g
  <2>1. CASE g = 0
    BY <1>2, <1>3, <1>4, <1>5, <1>6, <1>8, <2>1 DEF ToldOf, FileSize, Message
  <2>2. CASE g # 0
    <3>1. fileSize[d] = size[e] /\ size[e] # 0
      BY <1>4, <1>6, <2>2 DEF ToldOf
    <3>2. value = g
      BY <1>8, <2>2 DEF Message
    <3>. QED
      BY <1>2, <1>5, <3>1, <3>2 DEF FileSize
  <2>. QED
    BY <2>1, <2>2
<1>10. \A b \in Downloads : channel'[b] = IF b = e THEN rest ELSE channel[b]
  BY <1>3, <1>6 DEF ToldKinds
<1>11. Got(e)' = g + 1
  <2>1. channel'[e] = rest /\ sent'[e] = sent[e]
    BY <1>3, <1>10
  <2>2. g = sent[e] - Len(channel[e])
    BY <1>6 DEF Got
  <2>3. Got(e)' = sent[e] - Len(rest)
    BY <2>1 DEF Got
  <2>. HIDE DEF ToldInv, Kinds
  <2>. QED
    BY <1>5, <1>7, <2>2, <2>3
<1>12. PICK p \in -(MaxInt + 1) .. MaxInt : p = Progress(done, total)
  BY <1>8, <1>9, ProgressRange
<1>13. \A b \in Downloads :
         /\ fileSize'[b] = IF b = d THEN size[e] ELSE fileSize[b]
         /\ writeSize'[b] = IF b = d THEN g ELSE writeSize[b]
         /\ told'[b] = IF b = d THEN Append(told[d], p) ELSE told[b]
  BY <1>3, <1>9, <1>12 DEF ToldKinds
<1>14. ToldKinds'
  <2>1. Append(told[d], p) \in Seq(-(MaxInt + 1) .. MaxInt)
    BY DEF ToldKinds
  <2>2. /\ fileSize' \in [Downloads -> Nat \cup {-1}]
        /\ writeSize' \in [Downloads -> Nat]
        /\ told' \in [Downloads -> Seq(-(MaxInt + 1) .. MaxInt)]
        /\ channel' \in [Downloads -> Seq(Nat)]
    BY <1>3, <1>6, <1>7, <1>8, <1>9, <1>12, <2>1 DEF ToldKinds
  <2>. QED
    BY <1>3, <2>2 DEF ToldKinds
<1>15. Tools'
  <2>1. ChannelOf(e)'
    <3>1. channel'[e] = rest /\ sent'[e] = sent[e] /\ size'[e] = size[e]
      BY <1>3, <1>10
    <3>2. \A i \in 1 .. Len(channel[e]) : channel[e][i] = Message(e, g + i - 1)
      BY <1>4, <1>6 DEF ChannelOf
    <3>3. ASSUME NEW i \in 1 .. Len(rest)
          PROVE  rest[i] = Message(e, (g + 1) + i - 1)
      <4>1. i + 1 \in 1 .. Len(channel[e]) /\ g + (i + 1) - 1 = (g + 1) + i - 1
        BY <1>7, <1>8
      <4>2. rest[i] = channel[e][i + 1]
        BY <1>7
      <4>. QED
        BY <3>2, <4>1, <4>2
    <3>. HIDE DEF ToldInv, Kinds
    <3>. QED
      BY <1>4, <1>8, <1>11, <3>1, <3>3 DEF ChannelOf, Message
  <2>2. ASSUME NEW b \in Downloads \ {e}
        PROVE  ChannelOf(b)'
    BY <1>3, <1>10, ChannelFrame DEF Tools
  <2>3. ASSUME NEW b \in Downloads, Fresh(b)
        PROVE  Fresh(b)'
    <3>1. b # e
      BY <1>1, <2>3 DEF Fresh
    <3>. QED
      BY <1>3, <1>10, <2>3, <3>1 DEF Fresh
  <2>. QED
    BY <1>3, <2>1, <2>2, <2>3 DEF Tools
<1>16. OneTalker'
  <2>1. ASSUME NEW b \in ToSet(waiting)
        PROVE  Got(b)' = Got(b)
    <3>1. b \in Downloads /\ b # e
      <4>1. b \in Downloads
        <5>. HIDE DEF ToldInv
        <5>1. waiting \in Seq(Downloads)
          BY DEF ToldInv, ToldKinds
        <5>. QED
          BY <2>1, <5>1 DEF ToSet
      <4>2. client[d] # b
        BY <2>1 DEF OneTalker
      <4>. QED
        BY <1>1, <4>1, <4>2
    <3>. QED
      BY <1>3, <1>10, <3>1 DEF Got
  <2>. QED
    BY <1>3, <2>1 DEF OneTalker
<1>17. ToldOf(d, e)'
  <2>1. /\ Len(told[d]) = g
        /\ \A i \in 1 .. g : told[d][i] = Progress(i - 1, size[e])
        /\ told[d] \in Seq(-(MaxInt + 1) .. MaxInt)
    BY <1>3, <1>4, <1>6 DEF ToldOf, ToldKinds
  <2>2. p = Progress(g, size[e])
    BY <1>9, <1>12
  <2>3. /\ Len(told'[d]) = g + 1
        /\ \A i \in 1 .. g : told'[d][i] = told[d][i]
        /\ told'[d][g + 1] = p
    <3>1. told'[d] = Append(told[d], p)
      BY <1>13
    <3>2. DOMAIN told[d] = 1 .. g
      BY <2>1
    <3>. HIDE DEF ToldInv, Kinds
    <3>. QED
      BY <1>8, <2>1, <3>1, AppendProperties
  <2>4. ASSUME NEW i \in 1 .. g + 1
        PROVE  told'[d][i] = Progress(i - 1, size[e])
    <3>1. CASE i = g + 1
      BY <1>8, <2>2, <2>3, <3>1
    <3>2. CASE i # g + 1
      <4>1. i \in 1 .. g
        BY <1>8, <3>2
      <4>. QED
        BY <2>1, <2>3, <4>1
    <3>. QED
      BY <3>1, <3>2
  <2>5. fileSize'[d] = size[e] /\ writeSize'[d] = g
    BY <1>13
  <2>6. talker'[d] = "reading" /\ size'[e] = size[e]
    BY <1>3
  <2>7. \A i \in 1 .. Got(e)' : told'[d][i] = Progress(i - 1, size'[e])
    BY <1>11, <2>4, <2>6
  <2>. HIDE DEF ToldInv, Kinds
  <2>. QED
    BY <1>8, <1>9, <1>11, <2>3, <2>5, <2>6, <2>7 DEF ToldOf
<1>18. ASSUME NEW b \in Downloads \ {d}, NEW c \in Downloads, client[b] = c
       PROVE  ToldOf(b, c)'
  <2>1. c # e
    BY <1>1, <1>18, DfuAssumption DEF OneTalker
  <2>2. ToldOf(b, c)
    BY <1>18 DEF Talkers
  <2>3. UNCHANGED <<talker[b], fileSize[b], writeSize[b], told[b], size[c], sent[c], dfu[c],
                    channel[c]>>
    BY <1>3, <1>10, <1>13, <1>18, <2>1
  <2>. QED
    BY <2>2, <2>3, ToldFrame
<1>19. Talkers'
  <2>1. \A b, c \in Downloads : client'[b] = c => ToldOf(b, c)'
    BY <1>1, <1>3, <1>17, <1>18
  <2>2. \A b \in Downloads : b # d => (Silent(b)' <=> Silent(b))
    BY <1>13 DEF Silent
  <2>. HIDE DEF ToldInv
  <2>3. Talkers
    BY DEF ToldInv
  <2>. QED
    BY <1>3, <2>1, <2>2, <2>3 DEF Talkers
<1>. QED
  BY <1>14, <1>15, <1>16, <1>19 DEF Told

(* Everything dfu-util sent is read when its end is noticed.               *)
LEMMA ReadEndTold ==
  ASSUME ToldInv, NEW d \in Downloads, ReadEnd(d)
  PROVE  Told'
<1>. USE DEF ToldInv, Kinds
<1>1. /\ talker[d] = "reading"
      /\ channel[client[d]] = <<>>
      /\ dfu[client[d]] = "exited"
      /\ talker' = [talker EXCEPT ![d] = "finally"]
      /\ UNCHANGED <<download, client, fileSize, writeSize, told, dfu, size, sent, waiting,
                     channel>>
  BY DEF ReadEnd, service, tool
<1>2. ToldKinds' /\ Tools' /\ OneTalker'
  BY <1>1 DEF ToldKinds, Tools, OneTalker, Fresh, ChannelOf, Message, Got
<1>3. \A b \in Downloads : talker'[b] = IF b = d THEN "finally" ELSE talker[b]
  BY <1>1
<1>4. ASSUME NEW b \in Downloads, NEW c \in Downloads, client[b] = c
      PROVE  ToldOf(b, c)'
  <2>1. ToldOf(b, c)
    BY <1>4 DEF Talkers
  <2>2. CASE b = d
    BY <1>1, <1>3, <1>4, <2>1, <2>2 DEF ToldOf, Got, Finished
  <2>3. CASE b # d
    <3>1. talker'[b] = talker[b]
      BY <1>3, <2>3
    <3>. QED
      BY <1>1, <2>1, <3>1, ToldFrame
  <2>. QED
    BY <2>2, <2>3
<1>5. Talkers'
  <2>1. \A b, c \in Downloads : client'[b] = c => ToldOf(b, c)'
    BY <1>1, <1>4
  <2>. QED
    BY <1>1, <1>3, <2>1 DEF Talkers, Silent
<1>. QED
  BY <1>2, <1>5 DEF Told

(* The two sizes differ when dfu-util ended early, and only then.          *)
LEMMA ReportTold ==
  ASSUME ToldInv, NEW d \in Downloads, ReportFailure(d)
  PROVE  Told'
<1>. USE DEF ToldInv, Kinds
<1>1. /\ talker[d] = "finally"
      /\ talker' = [talker EXCEPT ![d] = "closing"]
      /\ told' = IF fileSize[d] # writeSize[d]
                 THEN [told EXCEPT ![d] = Append(@, -1)] ELSE told
      /\ UNCHANGED <<download, client, fileSize, writeSize, dfu, size, sent, waiting, channel>>
  BY DEF ReportFailure, Broadcast, service, tool
<1>2. \A b \in Downloads :
        /\ talker'[b] = IF b = d THEN "closing" ELSE talker[b]
        /\ told'[b] = IF b = d /\ fileSize[d] # writeSize[d]
                      THEN Append(told[d], -1) ELSE told[b]
  BY <1>1 DEF ToldKinds
<1>3. ToldKinds'
  <2>1. -1 \in -(MaxInt + 1) .. MaxInt
    BY DfuAssumption
  <2>2. told[d] \in Seq(-(MaxInt + 1) .. MaxInt)
    BY DEF ToldKinds
  <2>3. Append(told[d], -1) \in Seq(-(MaxInt + 1) .. MaxInt)
    BY <2>1, <2>2, AppendProperties
  <2>4. told' \in [Downloads -> Seq(-(MaxInt + 1) .. MaxInt)]
    BY <1>1, <2>3 DEF ToldKinds
  <2>. QED
    BY <1>1, <2>4 DEF ToldKinds
<1>4. Tools' /\ OneTalker'
  BY <1>1 DEF Tools, OneTalker, Fresh, ChannelOf, Message, Got
<1>5. ASSUME NEW e \in Downloads, client[d] = e
      PROVE  ToldOf(d, e)'
  <2>1. PICK g : g = Got(e)
    OBVIOUS
  <2>2. ToldOf(d, e) /\ ChannelOf(e)
    BY <1>5 DEF Talkers, Tools
  <2>3. sent[e] \in Nat /\ size[e] \in Nat
    <3>1. size[e] \in Sizes \cup {0} /\ sent[e] \in Nat
      BY DEF ToldKinds
    <3>2. Sizes \cup {0} \subseteq Nat
      BY DfuAssumption
    <3>. QED
      BY <3>1, <3>2
  <2>4. channel[e] = <<>> /\ dfu[e] = "exited" /\ g = sent[e] /\ g \in Nat
    BY <1>1, <2>1, <2>2, <2>3 DEF ToldOf, Got
  <2>5. Len(told[d]) = g /\ \A i \in 1 .. g : told[d][i] = Progress(i - 1, size[e])
    BY <1>1, <2>1, <2>2 DEF ToldOf
  <2>6. fileSize[d] = writeSize[d] <=> Finished(e)
    <3>1. CASE g = 0
      BY <2>1, <2>2, <2>3, <2>4, <3>1 DEF ToldOf, Finished
    <3>2. CASE g # 0
      <4>1. fileSize[d] = size[e] /\ writeSize[d] = g - 1
        BY <2>1, <2>2, <3>2 DEF ToldOf
      <4>. QED
        BY <2>3, <2>4, <4>1 DEF Finished
    <3>. QED
      BY <3>1, <3>2
  <2>7. Got(e)' = g /\ (Finished(e)' <=> Finished(e))
    BY <1>1, <2>1 DEF Got, Finished
  <2>8. /\ IF Finished(e) THEN Len(told'[d]) = g
           ELSE Len(told'[d]) = g + 1 /\ told'[d][g + 1] = -1
        /\ \A i \in 1 .. g : told'[d][i] = told[d][i]
    <3>1. told[d] \in Seq(-(MaxInt + 1) .. MaxInt)
      BY DEF ToldKinds
    <3>2. -1 \in -(MaxInt + 1) .. MaxInt
      BY DfuAssumption
    <3>3. CASE Finished(e)
      BY <1>2, <2>5, <2>6, <3>3
    <3>4. CASE ~Finished(e)
      <4>1. told'[d] = Append(told[d], -1)
        BY <1>2, <2>6, <3>4
      <4>. QED
        BY <2>4, <2>5, <3>1, <3>2, <3>4, <4>1, AppendProperties
    <3>. QED
      BY <3>3, <3>4
  <2>9. talker'[d] = "closing"
    BY <1>2
  <2>10. \A i \in 1 .. g : told'[d][i] = Progress(i - 1, size'[e])
    BY <1>1, <2>5, <2>8
  <2>11. IF g = 0 THEN fileSize'[d] = -1 /\ writeSize'[d] = 0
         ELSE fileSize'[d] = size'[e] /\ size'[e] # 0 /\ writeSize'[d] = g - 1
    BY <1>1, <2>1, <2>2 DEF ToldOf
  <2>12. dfu'[e] = "exited" /\ channel'[e] = <<>>
    BY <1>1, <2>4
  <2>. HIDE DEF ToldInv, Kinds
  <2>. QED
    BY <2>7, <2>8, <2>9, <2>10, <2>11, <2>12 DEF ToldOf
<1>6. ASSUME NEW b \in Downloads \ {d}, NEW c \in Downloads, client[b] = c
      PROVE  ToldOf(b, c)'
  <2>1. ToldOf(b, c)
    BY <1>6 DEF Talkers
  <2>2. talker'[b] = talker[b] /\ told'[b] = told[b]
    BY <1>2
  <2>. QED
    BY <1>1, <2>1, <2>2, ToldFrame
<1>7. Talkers'
  <2>1. \A b, c \in Downloads : client'[b] = c => ToldOf(b, c)'
    BY <1>1, <1>5, <1>6
  <2>2. \A b \in Downloads : b # d => (Silent(b)' <=> Silent(b))
    BY <1>1, <1>2 DEF Silent
  <2>. HIDE DEF ToldInv
  <2>3. Talkers
    BY DEF ToldInv
  <2>. QED
    BY <1>1, <1>2, <2>1, <2>2, <2>3 DEF Talkers
<1>. QED
  BY <1>3, <1>4, <1>7 DEF Told

LEMMA CloseTold ==
  ASSUME ToldInv, NEW d \in Downloads, CloseSockets(d)
  PROVE  Told'
<1>. USE DEF ToldInv, Kinds
<1>1. /\ talker[d] = "closing"
      /\ talker' = [talker EXCEPT ![d] = "ended"]
      /\ waiting' = waiting \/ waiting' = <<>>
      /\ UNCHANGED <<download, client, fileSize, writeSize, told, size, sent, channel>>
  BY DEF CloseSockets, service
<1>2. \A e \in Downloads : dfu'[e] = dfu[e] \/ (dfu[e] = "connected" /\ dfu'[e] = "mute")
  BY DEF CloseSockets
<1>3. /\ ToSet(waiting') \subseteq ToSet(waiting)
      /\ waiting' \in Seq(Downloads)
      /\ IsInjective(waiting')
  <2>1. CASE waiting' = waiting
    BY <2>1 DEF ToldKinds, OneTalker
  <2>2. CASE waiting' = <<>>
    BY <2>2 DEF ToSet, IsInjective
  <2>. QED
    BY <1>1, <2>1, <2>2
<1>4. ToldKinds'
  BY <1>1, <1>3 DEF ToldKinds
<1>5. Tools'
  <2>1. \A e \in Downloads : ChannelOf(e)'
    BY <1>1, ChannelFrame DEF Tools
  <2>2. \A e \in Downloads : Fresh(e) => Fresh(e)'
    BY <1>1, <1>3 DEF Fresh
  <2>. QED
    BY <1>1, <1>2, <2>1, <2>2 DEF Tools
<1>6. OneTalker'
  <2>1. \A e \in ToSet(waiting) : Got(e)' = Got(e)
    BY <1>1 DEF Got
  <2>. QED
    BY <1>1, <1>3, <2>1 DEF OneTalker
<1>7. \A b \in Downloads : talker'[b] = IF b = d THEN "ended" ELSE talker[b]
  BY <1>1
<1>8. ASSUME NEW b \in Downloads, NEW c \in Downloads, client[b] = c
      PROVE  ToldOf(b, c)'
  <2>1. ToldOf(b, c) /\ (dfu[c] = "exited" => dfu'[c] = "exited")
    BY <1>2, <1>8 DEF Talkers
  <2>2. CASE b = d
    BY <1>1, <1>7, <2>1, <2>2 DEF ToldOf, Got, Finished
  <2>3. CASE b # d
    <3>1. talker'[b] = talker[b]
      BY <1>7, <2>3
    <3>. QED
      BY <1>1, <2>1, <3>1, ToldFrame
  <2>. QED
    BY <2>2, <2>3
<1>9. Talkers'
  <2>1. \A b, c \in Downloads : client'[b] = c => ToldOf(b, c)'
    BY <1>1, <1>8
  <2>. QED
    BY <1>1, <1>7, <2>1 DEF Talkers, Silent
<1>. QED
  BY <1>4, <1>5, <1>6, <1>9 DEF Told

-----------------------------------------------------------------------------
(* Steps of dfu-util.                                                      *)

LEMMA ConnectTold ==
  ASSUME ToldInv, NEW d \in Downloads, DfuConnect(d)
  PROVE  Told'
<1>. USE DEF ToldInv, Kinds
<1>1. dfu[d] = "started" /\ Fresh(d) /\ ChannelOf(d)
  BY DEF DfuConnect, Tools
<1>2. UNCHANGED <<download, talker, client, fileSize, writeSize, told, sent, channel>>
  BY DEF DfuConnect, service, talk
<1>3. PICK n, news :
        /\ n \in Nat /\ n \in Sizes \cup {0}
        /\ size' = [size EXCEPT ![d] = n]
        /\ dfu' = [dfu EXCEPT ![d] = news]
        /\ news \in {"connected", "mute"}
        /\ waiting' = waiting \/ waiting' = Append(waiting, d)
  <2>1. CASE address # Nobody
    <3>1. PICK n \in Sizes : size' = [size EXCEPT ![d] = n]
      BY <2>1 DEF DfuConnect
    <3>2. n \in Nat
      BY DfuAssumption
    <3>. QED
      BY <2>1, <3>1, <3>2 DEF DfuConnect
  <2>2. CASE address = Nobody
    <3>1. size' = size /\ waiting' = waiting /\ dfu' = [dfu EXCEPT ![d] = "mute"]
      BY <2>2 DEF DfuConnect
    <3>2. size[d] \in Sizes \cup {0} /\ size' = [size EXCEPT ![d] = size[d]]
      BY <3>1 DEF ToldKinds
    <3>3. Sizes \cup {0} \subseteq Nat
      BY DfuAssumption
    <3>. QED
      BY <3>1, <3>2, <3>3
  <2>. QED
    BY <2>1, <2>2
<1>4. /\ ToSet(waiting) \subseteq ToSet(waiting')
      /\ ToSet(waiting') \subseteq ToSet(waiting) \cup {d}
      /\ waiting' \in Seq(Downloads)
      /\ IsInjective(waiting')
  <2>1. waiting \in Seq(Downloads) /\ IsInjective(waiting) /\ d \notin ToSet(waiting)
    BY <1>1 DEF ToldKinds, OneTalker, Fresh
  <2>2. CASE waiting' = waiting
    BY <2>1, <2>2
  <2>3. CASE waiting' = Append(waiting, d)
    BY <2>1, <2>3, AppendSet
  <2>. QED
    BY <1>3, <2>2, <2>3
<1>5. ToldKinds'
  BY <1>2, <1>3, <1>4 DEF ToldKinds
<1>6. \A e \in Downloads : e # d => size'[e] = size[e] /\ dfu'[e] = dfu[e]
  BY <1>3 DEF ToldKinds
<1>7. \A e \in Downloads : Got(e)' = Got(e)
  BY <1>2 DEF Got
<1>8. Tools'
  <2>1. ChannelOf(d)'
    <3>1. sent'[d] = 0 /\ channel'[d] = <<>> /\ size'[d] = n /\ n \in Nat
      BY <1>1, <1>2, <1>3 DEF Fresh, ToldKinds
    <3>. HIDE DEF ToldInv, Kinds
    <3>2. Got(d)' = 0 /\ Len(channel[d])' = 0
      <4>1. Got(d)' = sent'[d] - Len(channel'[d])
        BY DEF Got
      <4>2. Len(channel'[d]) = 0
        BY <3>1
      <4>3. PICK s, l : s = sent'[d] /\ l = Len(channel'[d])
        OBVIOUS
      <4>4. s - l = 0
        BY <3>1, <4>2, <4>3
      <4>5. Got(d)' = s - l
        BY <4>1, <4>3
      <4>. QED
        BY <4>2, <4>4, <4>5
    <3>3. Got(d)' >= 0 /\ sent'[d] <= size'[d] + 1
      BY <3>1, <3>2
    <3>. QED
      BY <3>2, <3>3 DEF ChannelOf
  <2>2. ASSUME NEW e \in Downloads, e # d
        PROVE  ChannelOf(e)'
    BY <1>2, <1>6, <2>2, ChannelFrame DEF Tools
  <2>3. ASSUME NEW e \in Downloads, e # d, Fresh(e)
        PROVE  Fresh(e)'
    BY <1>2, <1>4, <2>3 DEF Fresh
  <2>4. dfu'[d] \in {"connected", "mute"}
    BY <1>3
  <2>5. download[d] \notin {"none", "passed", "sleeping"}
    BY <1>1 DEF Tools
  <2>6. Tools
    OBVIOUS
  <2>. HIDE DEF ToldInv, Kinds
  <2>. QED
    <3>1. \A e \in Downloads : ChannelOf(e)'
      BY <2>1, <2>2
    <3>2. ASSUME NEW e \in Downloads, download'[e] \in {"none", "passed", "sleeping"}
          PROVE  dfu'[e] = "none"
      BY <1>2, <1>6, <2>5, <2>6, <3>2 DEF Tools
    <3>3. ASSUME NEW e \in Downloads, dfu'[e] \in {"none", "started"}
          PROVE  Fresh(e)'
      <4>1. e # d /\ dfu[e] \in {"none", "started"}
        BY <1>6, <2>4, <3>3
      <4>2. Fresh(e)
        BY <2>6, <4>1 DEF Tools
      <4>. QED
        BY <2>3, <4>1, <4>2
    <3>. QED
      BY <3>1, <3>2, <3>3 DEF Tools
<1>9. OneTalker'
  <2>1. Got(d) = 0 /\ \A b \in Downloads : client[b] # d
    <3>1. sent[d] = 0 /\ channel[d] = <<>> /\ \A b \in Downloads : client[b] # d
      BY <1>1 DEF Fresh
    <3>. HIDE DEF ToldInv, Kinds
    <3>2. PICK l \in Nat : l = Len(channel[d]) /\ l = 0
      BY <3>1
    <3>3. PICK n0 \in Nat : n0 = sent[d] /\ n0 = 0
      BY <3>1
    <3>4. Got(d) = n0 - l
      BY <3>2, <3>3 DEF Got
    <3>. QED
      BY <3>1, <3>2, <3>3, <3>4
  <2>2. ToSet(waiting') \subseteq Downloads
    BY <1>4 DEF ToSet
  <2>. QED
    BY <1>2, <1>4, <1>7, <2>1, <2>2 DEF OneTalker
<1>10. ASSUME NEW b \in Downloads, NEW c \in Downloads, client[b] = c
       PROVE  ToldOf(b, c)'
  <2>1. ToldOf(b, c) /\ c # d
    BY <1>1, <1>10 DEF Talkers, Fresh
  <2>2. size'[c] = size[c] /\ dfu'[c] = dfu[c]
    BY <1>6, <2>1
  <2>. QED
    BY <1>2, <2>1, <2>2, ToldFrame
<1>11. Talkers'
  <2>1. \A b, c \in Downloads : client'[b] = c => ToldOf(b, c)'
    BY <1>2, <1>10
  <2>. QED
    BY <1>2, <2>1 DEF Talkers, Silent
<1>. QED
  BY <1>5, <1>8, <1>9, <1>11 DEF Told

LEMMA SendTold ==
  ASSUME ToldInv, NEW d \in Downloads, DfuSend(d)
  PROVE  Told'
<1>. USE DEF ToldInv, Kinds
<1>1. /\ dfu[d] = "connected"
      /\ sent[d] <= size[d]
      /\ channel' = [channel EXCEPT ![d] = Append(@, Message(d, sent[d]))]
      /\ sent' = [sent EXCEPT ![d] = @ + 1]
      /\ UNCHANGED <<download, talker, client, fileSize, writeSize, told, dfu, size, waiting>>
  BY DEF DfuSend, Message, service, talk
<1>2. sent[d] \in Nat /\ size[d] \in Nat /\ channel[d] \in Seq(Nat)
  <2>1. size[d] \in Sizes \cup {0} /\ sent[d] \in Nat /\ channel[d] \in Seq(Nat)
    BY DEF ToldKinds
  <2>2. Sizes \cup {0} \subseteq Nat
    BY DfuAssumption
  <2>. QED
    BY <2>1, <2>2
<1>3. PICK m \in Nat : m = Message(d, sent[d])
  BY <1>2 DEF Message
<1>4. \A e \in Downloads :
        /\ sent'[e] = IF e = d THEN sent[d] + 1 ELSE sent[e]
        /\ channel'[e] = IF e = d THEN Append(channel[d], m) ELSE channel[e]
  BY <1>1, <1>3 DEF ToldKinds
<1>5. /\ Append(channel[d], m) \in Seq(Nat)
      /\ Len(channel[d]) \in Nat
      /\ Len(Append(channel[d], m)) = Len(channel[d]) + 1
      /\ \A i \in 1 .. Len(channel[d]) : Append(channel[d], m)[i] = channel[d][i]
      /\ Append(channel[d], m)[Len(channel[d]) + 1] = m
  BY <1>2, AppendProperties
<1>6. ToldKinds'
  BY <1>1, <1>2, <1>3, <1>5 DEF ToldKinds
<1>7. \A e \in Downloads : Got(e)' = Got(e)
  <2>1. Got(d)' = Got(d)
    <3>1. PICK q : q = Append(channel[d], m)
      OBVIOUS
    <3>2. sent'[d] = sent[d] + 1 /\ channel'[d] = q
      BY <1>4, <3>1
    <3>3. Len(q) = Len(channel[d]) + 1
      BY <1>5, <3>1
    <3>. HIDE DEF ToldInv, Kinds
    <3>. QED
      BY <1>2, <1>5, <3>2, <3>3 DEF Got
  <2>. QED
    BY <1>4, <2>1 DEF Got
<1>8. Tools'
  <2>1. ChannelOf(d)'
    <3>1. PICK l, g : l = Len(channel[d]) /\ g = Got(d)
      OBVIOUS
    <3>2. /\ g >= 0 /\ l \in Nat /\ g = sent[d] - l
          /\ \A i \in 1 .. l : channel[d][i] = Message(d, g + i - 1)
      BY <1>5, <3>1 DEF Tools, ChannelOf, Got
    <3>3. ASSUME NEW i \in 1 .. l + 1
          PROVE  channel'[d][i] = Message(d, g + i - 1)
      <4>1. CASE i = l + 1
        <5>1. g + i - 1 = sent[d]
          BY <1>2, <3>2, <4>1
        <5>. QED
          BY <1>3, <1>4, <1>5, <3>1, <4>1, <5>1
      <4>2. CASE i # l + 1
        <5>1. i \in 1 .. l
          BY <3>2, <4>2
        <5>. QED
          BY <1>4, <1>5, <3>1, <3>2, <5>1
      <4>. QED
        BY <4>1, <4>2
    <3>4. /\ Len(channel'[d]) = l + 1
          /\ sent'[d] <= size'[d] + 1
          /\ Got(d)' = g
          /\ size' = size
      <4>1. size' = size /\ sent'[d] = sent[d] + 1 /\ channel'[d] = Append(channel[d], m)
        BY <1>1, <1>4
      <4>2. Len(channel'[d]) = l + 1
        BY <1>5, <3>1, <4>1
      <4>3. sent'[d] <= size'[d] + 1
        BY <1>1, <1>2, <4>1
      <4>4. Got(d)' = g
        BY <1>7, <3>1
      <4>. QED
        BY <4>1, <4>2, <4>3, <4>4
    <3>. HIDE DEF ToldInv, Kinds
    <3>. QED
      BY <3>2, <3>3, <3>4 DEF ChannelOf, Message
  <2>2. ASSUME NEW e \in Downloads, e # d
        PROVE  ChannelOf(e)'
    BY <1>1, <1>4, <2>2, ChannelFrame DEF Tools
  <2>3. ASSUME NEW e \in Downloads, e # d, Fresh(e)
        PROVE  Fresh(e)'
    BY <1>1, <1>4, <2>3 DEF Fresh
  <2>. QED
    BY <1>1, <2>1, <2>2, <2>3 DEF Tools
<1>9. OneTalker'
  <2>1. ToSet(waiting) \subseteq Downloads
    <3>. HIDE DEF ToldInv, Kinds
    <3>1. waiting \in Seq(Downloads)
      BY DEF ToldInv, ToldKinds
    <3>. QED
      BY <3>1 DEF ToSet
  <2>. QED
    BY <1>1, <1>7, <2>1 DEF OneTalker
<1>10. ASSUME NEW b \in Downloads, NEW c \in Downloads, client[b] = c
       PROVE  ToldOf(b, c)'
  <2>1. ToldOf(b, c)
    BY <1>10 DEF Talkers
  <2>2. CASE c = d
    <3>1. talker[b] = "reading"
      BY <1>1, <2>1, <2>2 DEF ToldOf
    <3>2. Got(c)' = Got(c)
      BY <1>7
    <3>. QED
      BY <1>1, <2>1, <3>1, <3>2 DEF ToldOf
  <2>3. CASE c # d
    BY <1>1, <1>4, <2>1, <2>3, ToldFrame
  <2>. QED
    BY <2>2, <2>3
<1>11. Talkers'
  <2>1. \A b, c \in Downloads : client'[b] = c => ToldOf(b, c)'
    BY <1>1, <1>10
  <2>. QED
    BY <1>1, <2>1 DEF Talkers, Silent
<1>. QED
  BY <1>6, <1>8, <1>9, <1>11 DEF Told

LEMMA ExitTold ==
  ASSUME ToldInv, NEW d \in Downloads, DfuExit(d)
  PROVE  Told'
<1>. USE DEF ToldInv, Kinds
<1>1. /\ dfu[d] \in {"started", "connected", "mute"}
      /\ dfu' = [dfu EXCEPT ![d] = "exited"]
      /\ UNCHANGED <<download, talker, client, fileSize, writeSize, told, size, sent, waiting,
                     channel>>
  BY DEF DfuExit, Flashes, service, talk
<1>2. ToldKinds' /\ OneTalker'
  BY <1>1 DEF ToldKinds, OneTalker, Got
<1>3. Tools'
  <2>1. \A e \in Downloads : ChannelOf(e)' /\ (Fresh(e) => Fresh(e)')
    BY <1>1, ChannelFrame DEF Tools, Fresh
  <2>. QED
    BY <1>1, <2>1 DEF Tools
<1>4. ASSUME NEW b \in Downloads, NEW c \in Downloads, client[b] = c
      PROVE  ToldOf(b, c)'
  <2>1. ToldOf(b, c)
    BY <1>4 DEF Talkers
  <2>. QED
    BY <1>1, <2>1, ToldFrame
<1>5. Talkers'
  <2>1. \A b, c \in Downloads : client'[b] = c => ToldOf(b, c)'
    BY <1>1, <1>4
  <2>. QED
    BY <1>1, <2>1 DEF Talkers, Silent
<1>. QED
  BY <1>2, <1>3, <1>5 DEF Told

-----------------------------------------------------------------------------
LEMMA StepTold == ToldInv /\ [Next]_vars => ToldInv'
<1>. SUFFICES ASSUME ToldInv, [Next]_vars
              PROVE  Told'
  BY NextKinds, TalkerAfterSetStep DEF ToldInv, Told
<1>1. ASSUME NEW d \in Downloads, Talk(d), ~ReadZero(d)
      PROVE  Told'
  BY <1>1, BindTold, AcceptTold, ReadTold, ReadEndTold, ReportTold, CloseTold DEF Talk
<1>2. ASSUME NEW d \in Downloads, DfuUtil(d)
      PROVE  Told'
  BY <1>2, ConnectTold, SendTold, ExitTold DEF DfuUtil
<1>3. CASE UNCHANGED vars
  <2>1. UNCHANGED <<download, talker, client, fileSize, writeSize, told, dfu, size, sent,
                    waiting, channel>>
    BY <1>3 DEF vars, service, talk, tool
  <2>. QED
    BY <2>1 DEF Told, ToldInv, ToldKinds, Tools, OneTalker, Talkers, Fresh, ChannelOf,
                Message, Silent, ToldOf, Got, Finished
<1>. QED
  BY <1>1, <1>2, <1>3, StartTold, DeathTold, StepKinds

LEMMA SpecTold == Spec => []ToldInv
BY InitTold, StepTold, PTL DEF Spec

(* Every variable of the download keeps its type: what is broadcast fits   *)
(* an int.                                                                 *)
THEOREM TypeCorrect == Spec => []TypeOK
<1>1. ToldInv => TypeOK
  BY DEF ToldInv, Kinds, ToldKinds, TypeOK
<1>. QED
  BY <1>1, SpecTold, PTL

(* What the talker of dfu-util e has broadcast, with the failure that may  *)
(* follow.                                                                 *)
LEMMA ToldByTalker ==
  ASSUME ToldInv, NEW d \in Downloads, client[d] # Nobody
  PROVE  \E e \in Downloads, g \in Nat :
           /\ e = client[d] /\ g = Got(e)
           /\ ToldOf(d, e) /\ ChannelOf(e)
           /\ size[e] \in Nat /\ sent[e] \in Nat
           /\ Len(channel[e]) \in Nat /\ Len(told[d]) \in Nat
           /\ Len(told[d]) \in g .. g + 1
           /\ DOMAIN told[d] = 1 .. Len(told[d])
<1>1. Kinds /\ ToldKinds /\ Tools /\ Talkers
  BY DEF ToldInv
<1>2. PICK e \in Downloads : e = client[d]
  BY <1>1 DEF ToldKinds
<1>3. ToldOf(d, e) /\ ChannelOf(e)
  BY <1>1, <1>2 DEF Talkers, Tools
<1>4. size[e] \in Nat
  <2>1. size[e] \in Sizes \cup {0} /\ Sizes \cup {0} \subseteq Nat
    BY <1>1, DfuAssumption DEF ToldKinds
  <2>. QED
    BY <2>1
<1>5. sent[e] \in Nat /\ Len(channel[e]) \in Nat
  BY <1>1 DEF ToldKinds
<1>6. Len(told[d]) \in Nat /\ DOMAIN told[d] = 1 .. Len(told[d])
  <2>1. told[d] \in Seq(-(MaxInt + 1) .. MaxInt)
    BY <1>1 DEF ToldKinds
  <2>. QED
    BY <2>1, LenProperties
<1>7. PICK g \in Nat : g = Got(e)
  BY <1>3, <1>5 DEF ChannelOf, Got
<1>8. Len(told[d]) = g \/ Len(told[d]) = g + 1
  BY <1>3, <1>7 DEF ToldOf
<1>. QED
  BY <1>2, <1>3, <1>4, <1>5, <1>6, <1>7, <1>8

(* talkWithSocket: the callbacks of a download that had a connection are   *)
(* left with -1 exactly when the dfu-util at the other end did not write   *)
(* the whole file, and with its last percentage otherwise.                 *)
THEOREM CallbacksToldOutcome == Spec => []OutcomeTold
<1>1. ASSUME ToldInv, NEW d \in Downloads, talker[d] \in {"closing", "ended"},
             client[d] # Nobody
      PROVE  /\ told[d] # <<>>
             /\ Finished(client[d]) =>
                  Last(told[d]) = Progress(size[client[d]], size[client[d]])
             /\ ~Finished(client[d]) => Last(told[d]) = -1
  <2>1. PICK e \in Downloads, g \in Nat :
          /\ e = client[d] /\ g = Got(e)
          /\ ToldOf(d, e) /\ ChannelOf(e)
          /\ size[e] \in Nat /\ sent[e] \in Nat
          /\ Len(channel[e]) \in Nat /\ Len(told[d]) \in Nat
    BY <1>1, ToldByTalker
  <2>2. channel[e] = <<>> /\ Len(channel[e]) = 0
    BY <1>1, <2>1 DEF ToldOf
  <2>3. g = sent[e]
    BY <2>1, <2>2 DEF Got
  <2>4. CASE Finished(e)
    <3>1. g = size[e] + 1
      BY <2>3, <2>4 DEF Finished
    <3>2. Len(told[d]) = g /\ \A i \in 1 .. g : told[d][i] = Progress(i - 1, size[e])
      BY <1>1, <2>1, <2>4 DEF ToldOf
    <3>3. g \in 1 .. g /\ g - 1 = size[e]
      BY <2>1, <3>1
    <3>4. told[d][g] = Progress(size[e], size[e])
      BY <3>2, <3>3
    <3>. QED
      BY <2>1, <2>4, <3>1, <3>2, <3>4 DEF Last
  <2>5. CASE ~Finished(e)
    <3>1. Len(told[d]) = g + 1 /\ told[d][g + 1] = -1
      BY <1>1, <2>1, <2>5 DEF ToldOf
    <3>. QED
      BY <2>1, <2>5, <3>1 DEF Last
  <2>. QED
    BY <2>4, <2>5
<1>2. ToldInv => OutcomeTold
  BY <1>1 DEF OutcomeTold
<1>. QED
  BY <1>2, SpecTold, PTL

(* progress: the percentages never go back, and a failure comes last, as   *)
(* long as a hundred times the size fits an int.                           *)
THEOREM CallbacksToldProgress == Spec => []PercentGrows
<1>1. ASSUME ToldInv, NEW d \in Downloads, client[d] # Nobody,
             size[client[d]] * 100 <= MaxInt, NEW i \in DOMAIN told[d]
      PROVE  \/ told[d][i] \in 0 .. 100 /\ \A j \in 1 .. i - 1 : told[d][j] <= told[d][i]
             \/ told[d][i] = -1 /\ i = Len(told[d])
  <2>1. PICK e \in Downloads, g \in Nat :
          /\ e = client[d] /\ g = Got(e)
          /\ ToldOf(d, e) /\ ChannelOf(e)
          /\ size[e] \in Nat /\ sent[e] \in Nat
          /\ Len(channel[e]) \in Nat /\ Len(told[d]) \in Nat
          /\ Len(told[d]) \in g .. g + 1
          /\ DOMAIN told[d] = 1 .. Len(told[d])
    BY <1>1, ToldByTalker
  <2>2. i \in 1 .. g + 1 /\ i <= Len(told[d])
    BY <2>1
  <2>3. CASE i = g + 1
    <3>1. Len(told[d]) = g + 1
      BY <2>1, <2>2, <2>3
    <3>2. told[d][i] = -1
      BY <2>1, <2>3, <3>1 DEF ToldOf
    <3>. QED
      BY <2>3, <3>1, <3>2
  <2>4. CASE i # g + 1
    <3>1. i \in 1 .. g
      BY <2>2, <2>4
    <3>2. size[e] \in Nat \ {0} /\ g - 1 <= size[e]
      <4>1. size[e] # 0
        BY <2>1, <3>1 DEF ToldOf
      <4>2. g <= sent[e] /\ sent[e] <= size[e] + 1
        BY <2>1 DEF ChannelOf, Got
      <4>. QED
        BY <2>1, <4>1, <4>2
    <3>3. \A j \in 1 .. i : told[d][j] = Progress(j - 1, size[e])
      <4>1. \A j \in 1 .. g : told[d][j] = Progress(j - 1, size[e])
        BY <2>1 DEF ToldOf
      <4>. QED
        BY <3>1, <4>1
    <3>4. i - 1 \in 0 .. size[e] /\ \A j \in 1 .. i : j - 1 \in 0 .. i - 1
      BY <3>1, <3>2
    <3>5. size[e] * 100 <= MaxInt
      BY <1>1, <2>1
    <3>6. \A j \in 1 .. i :
            /\ Progress(i - 1, size[e]) \in 0 .. 100
            /\ Progress(j - 1, size[e]) <= Progress(i - 1, size[e])
      BY <3>2, <3>4, <3>5, ProgressGrows
    <3>7. told[d][i] = Progress(i - 1, size[e]) /\ i \in 1 .. i
      BY <3>1, <3>3
    <3>8. \A j \in 1 .. i - 1 : j \in 1 .. i
      BY <3>1
    <3>. QED
      BY <3>3, <3>6, <3>7, <3>8
  <2>. QED
    BY <2>3, <2>4
<1>2. ToldInv => PercentGrows
  BY <1>1 DEF PercentGrows
<1>. QED
  BY <1>2, SpecTold, PTL
=============================================================================
