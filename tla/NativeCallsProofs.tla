-------------------------- MODULE NativeCallsProofs --------------------------
(***************************************************************************)
(* Proofs about the calls into vrserver, for any number of calls, any      *)
(* values and any number of starts: what a caller is told is what          *)
(* happened, what it reads was there, vrserver serves only calls of its    *)
(* own life, and the listener thread waits for its object.                 *)
(***************************************************************************)
EXTENDS NativeCalls, TLAPS

(* What the operation of a request says about its target and its value.    *)
LEMMA RequestKinds ==
  ASSUME NEW r \in Requests
  PROVE  /\ r.op \in {"getSystemNode", "setSystemNode"} => r.target \in Paths
         /\ r.op \in {"getProperty", "setProperty"} => r.target = "property"
         /\ r.op \in {"setSystemNode", "setProperty"} => r.value \in Values
         /\ r.op = "setThreadScheduler" => r.target = "tid" /\ r.value = "pri"
  BY DEF Requests

-----------------------------------------------------------------------------
(* Types.  They are inductive together with what the place of a call says  *)
(* about its request: a call that has come as far as the node or the       *)
(* property asked for one.                                                 *)

RequestKnown ==
  \A c \in Calls :
    /\ at[c] = "idle" => request[c] = NoRequest /\ result[c] = "empty"
    /\ at[c] # "idle" => request[c] \in Requests
    /\ at[c] \in {"opening", "opened"} =>
         request[c].op \in {"getSystemNode", "setSystemNode"} /\ request[c].target = "node"
    /\ at[c] = "locked" => request[c].op \in {"getProperty", "setProperty"}
    /\ at[c] = "running" => request[c].op = "systemCall"

Typed == TypeOK /\ RequestKnown

LEMMA InitTyped == Init => Typed
<1>. SUFFICES ASSUME Init
              PROVE  Typed
  OBVIOUS
<1>. USE NativeAssumption DEF Init
<1>1. TypeOK
  <2>1. at \in [Calls -> {"idle"}] /\ request \in [Calls -> {NoRequest}]
    OBVIOUS
  <2>2. status \in [Calls -> Statuses] /\ text \in [Calls -> {"empty"}]
    BY DEF Statuses
  <2>3. command \in [Calls -> {"none"}] /\ result \in [Calls -> {"empty"}]
    OBVIOUS
  <2>4. applied \in [Calls -> Nat] /\ held \in [Calls -> SUBSET Values]
    OBVIOUS
  <2>5. store \in [{"property", "node"} -> Values] /\ handle \in [Calls -> 0 .. MaxLives]
    OBVIOUS
  <2>6. scheduled \in SchedulerArgs \X SchedulerArgs \X SchedulerArgs
    BY DEF SchedulerArgs
  <2>7. \A c \in Calls : request[c].op \in Getters => result[c] \notin Statuses
    BY <2>3 DEF Statuses
  <2>8. life \in 0 .. MaxLives /\ service \in 0 .. MaxLives
    OBVIOUS
  <2>9. sdks \in BOOLEAN
    OBVIOUS
  <2>10. /\ main = "down" /\ gStartupMutex = "free" /\ listener = "none"
         /\ mLock = Nobody /\ mIPostEvent = Nobody
    OBVIOUS
  <2>. HIDE DEF Init
  <2>. QED
    BY <2>1, <2>2, <2>3, <2>4, <2>5, <2>6, <2>7, <2>8, <2>9, <2>10 DEF TypeOK
<1>2. RequestKnown
  BY DEF RequestKnown
<1>. QED
  BY <1>1, <1>2 DEF Typed

(* What a caller is told is a text for a getter and a status for a setter. *)
LEMMA ToldFits ==
  ASSUME TypeOK, NEW c \in Calls, NEW code \in Statuses,
         NEW answer \in Values \cup {"empty", "output"}
  PROVE  /\ Told(c, code, answer) \in Values \cup {"empty", "output"} \cup Statuses
         /\ request[c].op \in Getters => Told(c, code, answer) \notin Statuses
  BY NativeAssumption DEF Told, Statuses

(* What is written is the value of a setter, and what is read is in store. *)
LEMMA AccessTyped ==
  ASSUME Typed, NEW c \in Calls, at[c] \in {"opened", "locked"}, AccessTarget(c)
  PROVE  /\ at' = [at EXCEPT ![c] = "replying"]
         /\ status' \in [Calls -> Statuses]
         /\ text' \in [Calls -> Values \cup {"empty", "output"}]
         /\ store' \in [{"property", "node"} -> Values]
         /\ applied' \in [Calls -> Nat]
         /\ held' \in [Calls -> SUBSET Values]
<1>. USE DEF Typed, TypeOK, RequestKnown
<1>1. request[c] \in Requests /\ request[c].target \in {"property", "node"}
  BY RequestKinds
<1>2. CASE request[c].op \in Getters
  BY <1>1, <1>2 DEF AccessTarget, ReadText, Answer, Statuses, history
<1>3. CASE request[c].op \notin Getters
  <2>1. request[c].value \in Values
    BY <1>1, <1>3, RequestKinds DEF Getters
  <2>2. held' = [d \in Calls |-> IF Waits(d) /\ request[d].target = request[c].target
                                 THEN held[d] \cup {request[c].value} ELSE held[d]]
    BY <1>3 DEF AccessTarget
  <2>3. held' \in [Calls -> SUBSET Values]
    BY <2>1, <2>2
  <2>4. store' \in [{"property", "node"} -> Values] /\ applied' \in [Calls -> Nat]
    BY <1>1, <1>3, <2>1 DEF AccessTarget, Applied
  <2>5. Answer(c, "NO_ERROR", "empty")
    BY <1>3 DEF AccessTarget
  <2>6. /\ at' = [at EXCEPT ![c] = "replying"]
        /\ status' \in [Calls -> Statuses]
        /\ text' \in [Calls -> Values \cup {"empty", "output"}]
    BY <2>5 DEF Answer, Statuses
  <2>. QED
    BY <2>3, <2>4, <2>6
<1>. QED
  BY <1>2, <1>3

LEMMA NextTyped == Typed /\ [Next]_vars => Typed'
<1>. SUFFICES ASSUME Typed, [Next]_vars
              PROVE  Typed'
  OBVIOUS
<1>. USE NativeAssumption DEF Typed, TypeOK, RequestKnown, process, native, world, calls,
                              history
<1>1. CASE InitStarts
  BY <1>1 DEF InitStarts
<1>2. CASE Boot
  BY <1>2 DEF Boot, AddService, ConstructThread, LoadDatabase, StartListener, StartThreadPool
<1>3. CASE ThreadEntry
  BY <1>3 DEF ThreadEntry, RunBegins
<1>4. CASE Die
  <2>1. result' \in [Calls -> Values \cup {"empty", "output"} \cup Statuses]
    BY <1>4, ToldFits DEF Die, NoReply, Statuses
  <2>2. \A c \in Calls : request'[c].op \in Getters => result'[c] \notin Statuses
    BY <1>4, ToldFits DEF Die, NoReply, Statuses
  <2>3. at' \in [Calls -> {"idle", "lookup", "transact", "queued", "opening", "opened",
                           "locked", "running", "replying", "done"}]
    BY <1>4 DEF Die
  <2>4. TypeOK'
    BY <1>4, <2>1, <2>2, <2>3 DEF Die
  <2>5. RequestKnown'
    BY <1>4 DEF Die, InServer
  <2>. QED
    BY <2>4, <2>5
<1>5. CASE ForgetService
  BY <1>5 DEF ForgetService
<1>6. ASSUME NEW c \in Calls, NEW r \in Requests, Begin(c, r)
      PROVE  Typed'
  <2>1. held' \in [Calls -> SUBSET Values]
    BY <1>6 DEF Begin
  <2>2. request' \in [Calls -> Requests \cup {NoRequest}]
    BY <1>6 DEF Begin
  <2>3. \A d \in Calls : request'[d].op \in Getters => result'[d] \notin Statuses
    BY <1>6 DEF Begin, Statuses
  <2>4. TypeOK'
    BY <1>6, <2>1, <2>2, <2>3 DEF Begin
  <2>5. RequestKnown'
    BY <1>6 DEF Begin
  <2>. QED
    BY <2>4, <2>5
<1>7. ASSUME NEW c \in Calls, GetService(c) \/ Transact(c)
      PROVE  Typed'
  <2>1. CASE GetService(c)
    BY <1>7, <2>1, ToldFits DEF GetService, Statuses
  <2>2. CASE Transact(c)
    BY <1>7, <2>2, ToldFits DEF Transact, NoReply, Statuses
  <2>. QED
    BY <1>7, <2>1, <2>2
<1>8. ASSUME NEW c \in Calls, CommandEnds(c)
      PROVE  Typed'
  BY <1>8 DEF CommandEnds
<1>9. ASSUME NEW c \in Calls, CheckNode(c) \/ OpenNode(c)
      PROVE  Typed'
  <2>1. CASE CheckNode(c)
    <3>1. request[c] \in Requests /\ request[c].target \in Paths
      BY <2>1, RequestKinds DEF CheckNode, Taken
    <3>. QED
      <4>1. CASE Answer(c, "ERR_NOFOUND", "empty") \/ Answer(c, "ERR_PERM", "empty")
        BY <2>1, <4>1 DEF CheckNode, Taken, Answer, Statuses
      <4>2. CASE request[c].target = "node" /\ GoOn(c, "opening")
        BY <2>1, <4>2 DEF CheckNode, Taken, GoOn
      <4>. QED
        BY <2>1, <3>1, <4>1, <4>2 DEF CheckNode, Paths
  <2>2. CASE OpenNode(c)
    BY <2>2 DEF OpenNode, Answer, GoOn, Statuses
  <2>. QED
    BY <1>9, <2>1, <2>2
<1>10. ASSUME NEW c \in Calls, ReadWriteNode(c)
       PROVE  Typed'
  BY <1>10, AccessTyped DEF ReadWriteNode, Answer, Statuses
<1>11. ASSUME NEW c \in Calls, LockProperty(c)
       PROVE  Typed'
  BY <1>11 DEF LockProperty, Taken, GoOn
<1>12. ASSUME NEW c \in Calls, AccessProperty(c)
       PROVE  Typed'
  BY <1>12, AccessTyped DEF AccessProperty, Answer, Statuses
<1>13. ASSUME NEW c \in Calls, SystemCall(c) \/ CloseCommand(c)
       PROVE  Typed'
  <2>1. CASE SystemCall(c)
    BY <2>1 DEF SystemCall, Taken, Answer, GoOn, Applied, Statuses
  <2>2. CASE CloseCommand(c)
    BY <2>2 DEF CloseCommand, Answer, Statuses
  <2>. QED
    BY <1>13, <2>1, <2>2
<1>14. ASSUME NEW c \in Calls, SetThreadScheduler(c) \/ SetPostEventObj(c)
       PROVE  Typed'
  <2>1. CASE SetThreadScheduler(c)
    <3>1. request[c].target = "tid" /\ request[c].value = "pri"
      BY <2>1, RequestKinds DEF SetThreadScheduler, Taken
    <3>2. scheduled' \in SchedulerArgs \X SchedulerArgs \X SchedulerArgs
      BY <2>1, <3>1 DEF SetThreadScheduler, ReadInSomeOrder, SchedulerArgs
    <3>3. at[c] = "queued" /\ at' = [at EXCEPT ![c] = "replying"]
      BY <2>1 DEF SetThreadScheduler, Taken, Answer
    <3>4. /\ status' \in [Calls -> Statuses]
          /\ text' \in [Calls -> Values \cup {"empty", "output"}]
          /\ applied' \in [Calls -> Nat]
      BY <2>1 DEF SetThreadScheduler, Answer, Applied, Statuses
    <3>5. UNCHANGED <<process, native, service, store, request, handle, command, result, held>>
      BY <2>1 DEF SetThreadScheduler
    <3>. QED
      BY <3>2, <3>3, <3>4, <3>5
  <2>2. CASE SetPostEventObj(c)
    BY <2>2 DEF SetPostEventObj, Taken, Answer, Applied, Statuses
  <2>. QED
    BY <1>14, <2>1, <2>2
<1>15. ASSUME NEW c \in Calls, Reply(c)
       PROVE  Typed'
  BY <1>15, ToldFits DEF Reply
<1>16. CASE UNCHANGED vars
  BY <1>16 DEF vars
<1>. QED
  BY <1>1, <1>2, <1>3, <1>4, <1>5, <1>6, <1>7, <1>8, <1>9, <1>10, <1>11, <1>12, <1>13,
     <1>14, <1>15, <1>16 DEF Next, CallStep, OnTransact

(* The types of vrserver and its callers hold for any number of calls and  *)
(* of starts, and a getter is never told a status.                         *)
THEOREM TypeCorrect == Spec => []TypeOK
<1>1. Spec => []Typed
  BY InitTyped, NextTyped, PTL DEF Spec
<1>. QED
  BY <1>1, PTL DEF Typed

-----------------------------------------------------------------------------
(* Who is served: a call enters vrserver only in the life its handle names, *)
(* and leaves it with that life at the latest.                             *)

ServedInv == Typed /\ ServedByThisLife

LEMMA NextServed == Typed /\ ServedByThisLife /\ [Next]_vars => ServedByThisLife'
<1>. SUFFICES ASSUME Typed, ServedByThisLife, [Next]_vars
              PROVE  ServedByThisLife'
  OBVIOUS
<1>. USE NativeAssumption DEF Typed, TypeOK, ServedByThisLife, InServer, process, native, world,
                              calls, history
<1>1. CASE InitStarts \/ ThreadEntry \/ ForgetService \/ UNCHANGED vars
  BY <1>1 DEF InitStarts, ThreadEntry, ForgetService, vars
<1>2. CASE Boot
  BY <1>2 DEF Boot, AddService, ConstructThread, LoadDatabase, StartListener, StartThreadPool
<1>3. CASE Die
  BY <1>3 DEF Die
<1>4. ASSUME NEW c \in Calls, NEW r \in Requests, Begin(c, r)
      PROVE  ServedByThisLife'
  BY <1>4 DEF Begin
<1>5. ASSUME NEW c \in Calls, GetService(c) \/ Transact(c) \/ Reply(c) \/ CommandEnds(c)
      PROVE  ServedByThisLife'
  BY <1>5 DEF GetService, Transact, Reply, CommandEnds
<1>6. ASSUME NEW c \in Calls, CheckNode(c) \/ OpenNode(c)
      PROVE  ServedByThisLife'
  <2>1. at[c] \in {"queued", "opening"}
    BY <1>6 DEF CheckNode, OpenNode, Taken
  <2>. CheckNode(c) => request[c].target \in Paths
    BY RequestKinds DEF CheckNode, Taken, RequestKnown
  <2>2. PICK place \in {"replying", "opening", "opened"} : at' = [at EXCEPT ![c] = place]
    BY <1>6 DEF CheckNode, OpenNode, Answer, GoOn, Paths
  <2>3. UNCHANGED <<main, life, handle, mLock>>
    BY <1>6 DEF CheckNode, OpenNode
  <2>. QED
    BY <2>1, <2>2, <2>3
<1>7. ASSUME NEW c \in Calls, ReadWriteNode(c)
      PROVE  ServedByThisLife'
  BY <1>7 DEF ReadWriteNode, AccessTarget, Answer
<1>8. ASSUME NEW c \in Calls, LockProperty(c)
      PROVE  ServedByThisLife'
  BY <1>8 DEF LockProperty, Taken, GoOn
<1>9. ASSUME NEW c \in Calls, AccessProperty(c)
      PROVE  ServedByThisLife'
  BY <1>9 DEF AccessProperty, AccessTarget, Answer
<1>10. ASSUME NEW c \in Calls,
              SystemCall(c) \/ CloseCommand(c) \/ SetThreadScheduler(c) \/ SetPostEventObj(c)
       PROVE  ServedByThisLife'
  BY <1>10 DEF SystemCall, CloseCommand, SetThreadScheduler, SetPostEventObj, Taken, Answer,
               GoOn
<1>. QED
  BY <1>1, <1>2, <1>3, <1>4, <1>5, <1>6, <1>7, <1>8, <1>9, <1>10
  DEF Next, CallStep, OnTransact

LEMMA SpecServed == Spec => []ServedInv
<1>1. Init => ServedInv
  <2>1. Init => ServedByThisLife
    BY NativeAssumption DEF Init, ServedByThisLife, InServer
  <2>. QED
    BY <2>1, InitTyped DEF ServedInv
<1>2. ServedInv /\ [Next]_vars => ServedInv'
  BY NextTyped, NextServed DEF ServedInv
<1>. QED
  BY <1>1, <1>2, PTL DEF Spec

(* Between property_get or property_set and the end of the method exactly   *)
(* the holder of the lock is at work, and vrserver answers no call of an   *)
(* earlier life, however often it dies.                                    *)
THEOREM OnlyThisLifeServes == Spec => []ServedByThisLife
BY SpecServed, PTL DEF ServedInv

-----------------------------------------------------------------------------
(* The listener thread: created by its object's constructor, which has     *)
(* closed the gate, and let in when the object is complete.                *)
Gate ==
  /\ main \in {"down", "starting", "registered"} => listener = "none"
  /\ main \in {"created", "constructed"} => listener = "gate" /\ gStartupMutex = "main"

GateInv == Gate /\ ListenerGated

LEMMA NextGate == TypeOK /\ GateInv /\ [Next]_vars => GateInv'
<1>. SUFFICES ASSUME TypeOK, GateInv, [Next]_vars
              PROVE  GateInv'
  OBVIOUS
<1>. USE DEF GateInv, Gate, ListenerGated, process
<1>1. CASE Boot
  BY <1>1 DEF Boot, AddService, ConstructThread, LoadDatabase, StartListener, StartThreadPool
<1>2. CASE InitStarts
  <2>1. main' = "starting" /\ listener' = listener /\ main = "down"
    BY <1>2 DEF InitStarts
  <2>. QED
    BY <2>1
<1>8. CASE Die
  <2>1. main' = "down" /\ listener' = "none"
    BY <1>8 DEF Die
  <2>. QED
    BY <2>1
<1>3. CASE ThreadEntry
  <2>1. main \notin {"down", "starting", "registered", "created", "constructed"}
    BY <1>3 DEF ThreadEntry
  <2>2. main \in {"started", "serving"} /\ main' = main
    BY <1>3, <2>1 DEF ThreadEntry, TypeOK
  <2>. QED
    BY <2>2
<1>4. ASSUME UNCHANGED process
      PROVE  GateInv'
  BY <1>4
<1>5. CASE ForgetService \/ UNCHANGED vars
  BY <1>4, <1>5 DEF ForgetService, vars
<1>6. ASSUME NEW c \in Calls, (\E r \in Requests : Begin(c, r)) \/ GetService(c) \/ Transact(c)
      PROVE  GateInv'
  <2>1. UNCHANGED process
    BY <1>6, Zenon DEF Begin, GetService, Transact
  <2>. QED
    BY <1>4, <2>1
<1>7. ASSUME NEW c \in Calls, OnTransact(c) \/ CommandEnds(c)
      PROVE  GateInv'
  <2>1. UNCHANGED process
    BY <1>7 DEF OnTransact, CheckNode, OpenNode, ReadWriteNode, LockProperty, AccessProperty,
                SystemCall, CloseCommand, SetThreadScheduler, SetPostEventObj, Reply, CommandEnds
  <2>. QED
    BY <1>4, <2>1
<1>. QED
  BY <1>1, <1>2, <1>3, <1>5, <1>6, <1>7, <1>8 DEF Next, CallStep

(* run() is never entered before its object is complete and the database   *)
(* is loaded, although the thread exists from the middle of the            *)
(* constructor on: the gate holds it back, and a death in between takes    *)
(* the thread along.                                                       *)
THEOREM RunWaitsForObject == Spec => []ListenerGated
<1>1. Init => GateInv
  BY DEF Init, GateInv, Gate, ListenerGated
<1>2. Spec => []GateInv
  BY <1>1, NextGate, TypeCorrect, PTL DEF Spec
<1>. QED
  BY <1>2, PTL DEF GateInv

-----------------------------------------------------------------------------
(* Effects: none before the method of VRNativeService has done its work,   *)
(* and then as many as its status says.                                    *)
EffectTrue(c, code) ==
  /\ applied[c] <= 1
  /\ code = "NO_ERROR" => applied[c] = 1
  /\ code \notin {"NO_ERROR", "DEAD_OBJECT"} => applied[c] = 0

Effects ==
  \A c \in Calls : request[c].op \notin Getters =>
    /\ at[c] \notin {"replying", "done"} => applied[c] = 0
    /\ at[c] = "replying" => EffectTrue(c, status[c])
    /\ at[c] = "done" => EffectTrue(c, result[c])

LEMMA NextEffects == Typed /\ Effects /\ [Next]_vars => Effects'
<1>. SUFFICES ASSUME Typed, Effects, [Next]_vars
              PROVE  Effects'
  OBVIOUS
<1>. USE DEF Typed, TypeOK, RequestKnown, Effects, EffectTrue, calls, history
<1>1. CASE InitStarts \/ Boot \/ ThreadEntry \/ ForgetService \/ UNCHANGED vars
  <2>1. UNCHANGED <<calls, history>>
    BY <1>1, Zenon DEF InitStarts, Boot, AddService, ConstructThread, LoadDatabase, StartListener,
                       StartThreadPool, ThreadEntry, ForgetService, vars
  <2>. QED
    BY <2>1
<1>2. CASE Die
  BY <1>2 DEF Die, InServer, Told, NoReply
<1>3. ASSUME NEW c \in Calls, NEW r \in Requests, Begin(c, r)
      PROVE  Effects'
  <2>1. applied[c] = 0
    BY <1>3 DEF Begin, NoRequest, Getters
  <2>. QED
    BY <1>3, <2>1 DEF Begin
<1>4. ASSUME NEW c \in Calls, GetService(c) \/ Transact(c) \/ Reply(c) \/ CommandEnds(c)
      PROVE  Effects'
  BY <1>4 DEF GetService, Transact, Reply, CommandEnds, Told, NoReply
<1>5. ASSUME NEW c \in Calls, CheckNode(c) \/ OpenNode(c)
      PROVE  Effects'
  <2>1. at[c] \in {"queued", "opening"}
    BY <1>5 DEF CheckNode, OpenNode, Taken
  <2>2. \/ GoOn(c, "opening") \/ GoOn(c, "opened")
        \/ Answer(c, "ERR_NOFOUND", "empty") \/ Answer(c, "ERR_PERM", "empty")
    <3>1. CheckNode(c) => request[c].target \in Paths
      BY RequestKinds DEF CheckNode, Taken
    <3>. QED
      BY <1>5, <3>1 DEF CheckNode, OpenNode, Paths
  <2>3. UNCHANGED <<request, result, applied>>
    BY <1>5 DEF CheckNode, OpenNode
  <2>. QED
    BY <2>1, <2>2, <2>3 DEF Answer, GoOn
<1>6. ASSUME NEW c \in Calls, ReadWriteNode(c) \/ AccessProperty(c)
      PROVE  Effects'
  <2>1. at[c] \in {"opened", "locked"} /\ UNCHANGED <<request, result>>
    BY <1>6 DEF ReadWriteNode, AccessProperty
  <2>2. CASE AccessTarget(c)
    BY <2>1, <2>2 DEF AccessTarget, Answer, Applied
  <2>3. CASE \/ Answer(c, "ERR_RDWR", "empty") /\ UNCHANGED history
             \/ Answer(c, "-1", "empty") /\ UNCHANGED history
    BY <2>1, <2>3 DEF Answer
  <2>. QED
    BY <1>6, <2>2, <2>3 DEF ReadWriteNode, AccessProperty
<1>7. ASSUME NEW c \in Calls, LockProperty(c)
      PROVE  Effects'
  BY <1>7 DEF LockProperty, Taken, GoOn
<1>8. ASSUME NEW c \in Calls, SystemCall(c) \/ CloseCommand(c)
      PROVE  Effects'
  <2>1. request[c].op \in Getters
    BY <1>8 DEF SystemCall, CloseCommand, Taken, Getters
  <2>. QED
    BY <1>8, <2>1 DEF SystemCall, CloseCommand, Taken, Answer, GoOn, Applied
<1>9. ASSUME NEW c \in Calls, SetThreadScheduler(c) \/ SetPostEventObj(c)
      PROVE  Effects'
  BY <1>9 DEF SetThreadScheduler, SetPostEventObj, Taken, Answer, Applied
<1>. QED
  BY <1>1, <1>2, <1>3, <1>4, <1>5, <1>6, <1>7, <1>8, <1>9 DEF Next, CallStep, OnTransact

(* A setter is told the truth, whichever way it ends, also when vrserver   *)
(* dies between the effect and the reply: NO_ERROR for one effect, an      *)
(* error code for none, DEAD_OBJECT for at most one.                       *)
THEOREM SettersToldTruth == Spec => []OutcomeTrue
<1>. DEFINE Inv == Typed /\ Effects
<1>1. Init => Inv
  BY InitTyped DEF Init, Effects
<1>2. Inv /\ [Next]_vars => Inv'
  BY NextTyped, NextEffects
<1>3. Inv => OutcomeTrue
  BY DEF Effects, EffectTrue, OutcomeTrue
<1>. QED
  BY <1>1, <1>2, <1>3, PTL DEF Spec

-----------------------------------------------------------------------------
(* Reads: a call that waits for a target knows its value among those it    *)
(* held, and what it has read is one of them.                              *)
ReadsOf(c) ==
  /\ Waits(c) /\ request[c].target \in {"property", "node"} =>
       store[request[c].target] \in held[c]
  /\ request[c].op \in {"getSystemNode", "getProperty"} =>
       /\ at[c] = "replying" => text[c] \in held[c] \cup {"empty"}
       /\ at[c] = "done" => result[c] \in held[c] \cup {"empty"}

Reads == \A c \in Calls : ReadsOf(c)

LEMMA NextReads == Typed /\ Reads /\ [Next]_vars => Reads'
<1>. SUFFICES ASSUME Typed, Reads, [Next]_vars
              PROVE  Reads'
  OBVIOUS
<1>. USE DEF Typed, TypeOK, RequestKnown, Reads, ReadsOf, Waits, calls, history, world
<1>1. CASE InitStarts \/ Boot \/ ThreadEntry \/ ForgetService \/ UNCHANGED vars
  <2>1. UNCHANGED <<world, calls, history>>
    BY <1>1, Zenon DEF InitStarts, Boot, AddService, ConstructThread, LoadDatabase, StartListener,
                       StartThreadPool, ThreadEntry, ForgetService, vars
  <2>. QED
    BY <2>1
<1>2. CASE Die
  BY <1>2 DEF Die, InServer, Told, Getters
<1>3. ASSUME NEW c \in Calls, NEW r \in Requests, Begin(c, r)
      PROVE  Reads'
  <2>1. r.target \in {"property", "node"} => store[r.target] \in held'[c]
    <3>1. held'[c] = {store[t] : t \in {r.target} \cap DOMAIN store}
      BY <1>3 DEF Begin
    <3>2. DOMAIN store = {"property", "node"}
      OBVIOUS
    <3>. HIDE DEF TypeOK, Reads
    <3>. QED
      BY <3>1, <3>2
  <2>2. /\ at' = [at EXCEPT ![c] = "lookup"] /\ request' = [request EXCEPT ![c] = r]
        /\ \A d \in Calls \ {c} : held'[d] = held[d]
        /\ UNCHANGED <<store, text, result>>
    BY <1>3 DEF Begin
  <2>3. ReadsOf(c)'
    BY <2>1, <2>2
  <2>4. ASSUME NEW d \in Calls \ {c}
        PROVE  ReadsOf(d)'
    <3>1. UNCHANGED <<at[d], request[d], held[d], store, text, result>>
      BY <2>2
    <3>. QED
      BY <3>1
  <2>. QED
    BY <2>3, <2>4
<1>4. ASSUME NEW c \in Calls, GetService(c) \/ Transact(c) \/ Reply(c) \/ CommandEnds(c)
      PROVE  Reads'
  BY <1>4 DEF GetService, Transact, Reply, CommandEnds, Told, Getters
<1>5. ASSUME NEW c \in Calls, CheckNode(c) \/ OpenNode(c)
      PROVE  Reads'
  <2>1. at[c] \in {"queued", "opening"}
    BY <1>5 DEF CheckNode, OpenNode, Taken
  <2>2. \/ GoOn(c, "opening") \/ GoOn(c, "opened")
        \/ Answer(c, "ERR_NOFOUND", "empty") \/ Answer(c, "ERR_PERM", "empty")
    <3>1. CheckNode(c) => request[c].target \in Paths
      BY RequestKinds DEF CheckNode, Taken
    <3>. QED
      BY <1>5, <3>1 DEF CheckNode, OpenNode, Paths
  <2>3. UNCHANGED <<store, request, result, held>>
    BY <1>5 DEF CheckNode, OpenNode
  <2>. QED
    BY <2>1, <2>2, <2>3 DEF Answer, GoOn
<1>6. ASSUME NEW c \in Calls, ReadWriteNode(c) \/ AccessProperty(c)
      PROVE  Reads'
  <2>1. at[c] \in {"opened", "locked"} /\ UNCHANGED <<request, result>>
    BY <1>6 DEF ReadWriteNode, AccessProperty
  <2>2. request[c].target \in {"property", "node"}
    BY <2>1, RequestKinds
  <2>3. CASE AccessTarget(c) /\ request[c].op \in Getters
    BY <2>1, <2>2, <2>3 DEF AccessTarget, ReadText, Answer
  <2>4. CASE AccessTarget(c) /\ request[c].op \notin Getters
    <3>1. /\ store' = [store EXCEPT ![request[c].target] = request[c].value]
          /\ at' = [at EXCEPT ![c] = "replying"]
          /\ text' = [text EXCEPT ![c] = "empty"]
      BY <2>4 DEF AccessTarget, Answer
    <3>2. \A d \in Calls :
            held'[d] = IF Waits(d) /\ request[d].target = request[c].target
                       THEN held[d] \cup {request[c].value} ELSE held[d]
      BY <2>4 DEF AccessTarget
    <3>3. ReadsOf(c)'
      <4>1. store'[request[c].target] = request[c].value
        BY <2>2, <3>1
      <4>2. at'[c] = "replying" /\ text'[c] = "empty"
        BY <3>1
      <4>3. request[c].value \in held'[c]
        <5>1. Waits(c)
          BY <2>1
        <5>. HIDE DEF TypeOK, Reads, RequestKnown, Waits
        <5>. QED
          BY <3>2, <5>1
      <4>. QED
        BY <2>1, <4>1, <4>2, <4>3
    <3>4. ASSUME NEW d \in Calls \ {c}
          PROVE  ReadsOf(d)'
      <4>1. UNCHANGED <<at[d], request[d], text[d], result[d]>>
        BY <2>1, <3>1
      <4>5. held[d] \subseteq held'[d]
        <5>. HIDE DEF TypeOK, Reads, RequestKnown, Waits
        <5>. QED
          BY <3>2
      <4>2. CASE Waits(d) /\ request[d].target = request[c].target
        <5>1. store'[request[d].target] = request[c].value
          BY <2>2, <3>1, <4>2
        <5>2. request[c].value \in held'[d]
          <6>. HIDE DEF TypeOK, Reads, RequestKnown, Waits
          <6>. QED
            BY <3>2, <4>2
        <5>. QED
          BY <4>1, <4>5, <5>1, <5>2
      <4>3. CASE Waits(d) /\ request[d].target \in {"property", "node"} \ {request[c].target}
        <5>1. store'[request[d].target] = store[request[d].target]
          BY <3>1, <4>3
        <5>. QED
          BY <4>1, <4>3, <4>5, <5>1
      <4>4. CASE ~Waits(d) \/ request[d].target \notin {"property", "node"}
        BY <4>1, <4>4, <4>5
      <4>. QED
        BY <4>2, <4>3, <4>4
    <3>. QED
      BY <3>3, <3>4
  <2>5. CASE /\ Answer(c, "ERR_RDWR", "empty") \/ Answer(c, "-1", "empty")
             /\ UNCHANGED <<store, history>>
    BY <2>1, <2>5 DEF Answer
  <2>. QED
    BY <1>6, <2>3, <2>4, <2>5 DEF ReadWriteNode, AccessProperty
<1>7. ASSUME NEW c \in Calls, LockProperty(c)
      PROVE  Reads'
  BY <1>7 DEF LockProperty, Taken, GoOn
<1>8. ASSUME NEW c \in Calls, SystemCall(c) \/ CloseCommand(c)
      PROVE  Reads'
  <2>1. request[c].op = "systemCall"
    BY <1>8 DEF SystemCall, CloseCommand, Taken
  <2>. QED
    BY <1>8, <2>1 DEF SystemCall, CloseCommand, Taken, Answer, GoOn
<1>9. ASSUME NEW c \in Calls, SetThreadScheduler(c) \/ SetPostEventObj(c)
      PROVE  Reads'
  BY <1>9 DEF SetThreadScheduler, SetPostEventObj, Taken, Answer
<1>. QED
  BY <1>1, <1>2, <1>3, <1>4, <1>5, <1>6, <1>7, <1>8, <1>9 DEF Next, CallStep, OnTransact

(* What a getter returns is the empty text or a value its own target held  *)
(* between its begin and its return, whatever other calls write and        *)
(* however often vrserver dies meanwhile.                                  *)
THEOREM GettersReadFresh == Spec => []ReadFresh
<1>. DEFINE Inv == Typed /\ Reads
<1>1. Init => Inv
  BY InitTyped DEF Init, Reads, ReadsOf, Waits
<1>2. Inv /\ [Next]_vars => Inv'
  BY NextTyped, NextReads
<1>3. Inv => ReadFresh
  BY DEF Reads, ReadsOf, ReadFresh
<1>. QED
  BY <1>1, <1>2, <1>3, PTL DEF Spec
=============================================================================
