----------------------------- MODULE NativeCalls -----------------------------
(***************************************************************************)
(* The calls VRAdminService makes into vrserver: VRManager, the JNI        *)
(* functions, the binder proxy, onTransact and VRNativeService; and the    *)
(* life of the vrserver process they run in: main, the gate of class       *)
(* Thread that the listener thread waits at, the death of the process at   *)
(* any moment and its restart by init.                                     *)
(*                                                                         *)
(* Abstractions.                                                           *)
(*  - One property and one node that is in the white list; their values    *)
(*    are Values.  A path is that node, a file that is not in the list, or *)
(*    no file.                                                             *)
(*  - A status is its name, and "-1" stands for every failure that has     *)
(*    none, the negated errno of sched_setscheduler too; systemCall        *)
(*    returns "output" for what the command printed, and the empty text is *)
(*    "empty".                                                             *)
(*  - No caller passes a null: VRAdminService refuses a null path or key.  *)
(*  - The thread pool has a thread for every call.                         *)
(***************************************************************************)
EXTENDS Naturals

CONSTANTS
  Calls,     \* calls of VRManager, each on a thread of its own
  Nobody,    \* not a call
  Values,    \* what the property and the node can hold
  Initial,   \* what they hold at first
  MaxLives   \* how many times init starts vrserver

Statuses == {"NO_ERROR", "-1", "ERR_PERM", "ERR_NOFOUND", "ERR_RDWR", "DEAD_OBJECT"}

(* A value is a text and a status a number: no value is a status.          *)
ASSUME NativeAssumption ==
  /\ Nobody \notin Calls
  /\ Initial \in Values
  /\ Values \cap ({"empty", "output"} \cup Statuses) = {}
  /\ MaxLives \in Nat \ {0}

Paths == {"node", "forbidden", "missing"}

Requests ==
  [op : {"getSystemNode"}, target : Paths, value : {"empty"}]
  \cup [op : {"setSystemNode"}, target : Paths, value : Values]
  \cup [op : {"getProperty"}, target : {"property"}, value : {"empty"}]
  \cup [op : {"setProperty"}, target : {"property"}, value : Values]
  \cup [op : {"systemCall"}, target : {"dfu-util", "forbidden"}, value : {"empty"}]
  \cup [op : {"setThreadScheduler"}, target : {"tid"}, value : {"pri"}]
  \cup [op : {"setPostEventObj"}, target : {"reporter"}, value : {"empty"}]

NoRequest == [op |-> "none", target |-> "none", value |-> "empty"]

Getters == {"getSystemNode", "getProperty", "systemCall"}

VARIABLES
  (* the vrserver process *)
  life,          \* which start of vrserver this is
  main,          \* how far main() is, or "down"
  gStartupMutex, \* "main" or "free"
  listener,      \* the thread of ServerListener
  sdks,          \* the database holds an SDK
  mLock,         \* the call that holds VRNativeService::mLock, or Nobody
  mIPostEvent,   \* the call that set the reporter, or Nobody
  (* around it *)
  service,       \* the life registered as "vrserver", 0 for none
  store,         \* what the property and the node hold
  scheduled,     \* what sched_setscheduler was called with last
  (* the calls *)
  at,            \* where call c is
  request,
  handle,        \* the life getService returned a handle to
  status, text,  \* what the reply carries
  command,       \* the process popen started for c
  result,        \* what Java gets
  (* history *)
  applied,       \* how often c took effect
  held           \* what c's target held since c began

process == <<life, main, gStartupMutex, listener, sdks>>
native  == <<mLock, mIPostEvent>>
world   == <<store, scheduled>>
calls   == <<at, request, handle, status, text, command, result>>
history == <<applied, held>>
vars    == <<process, native, service, world, calls, history>>

Init ==
  /\ life = 0
  /\ main = "down"
  /\ gStartupMutex = "free"
  /\ listener = "none"
  /\ sdks = FALSE
  /\ mLock = Nobody
  /\ mIPostEvent = Nobody
  /\ service = 0
  /\ store = [t \in {"property", "node"} |-> Initial]
  /\ scheduled = <<"none", "none", "none">>
  /\ at = [c \in Calls |-> "idle"]
  /\ request = [c \in Calls |-> NoRequest]
  /\ handle = [c \in Calls |-> 0]
  /\ status = [c \in Calls |-> "-1"]
  /\ text = [c \in Calls |-> "empty"]
  /\ command = [c \in Calls |-> "none"]
  /\ result = [c \in Calls |-> "empty"]
  /\ applied = [c \in Calls |-> 0]
  /\ held = [c \in Calls |-> {}]

-----------------------------------------------------------------------------
(* main(): the service is registered, the listener constructed and started, *)
(* and only then binder threads take up calls.                             *)

InitStarts ==
  /\ main = "down"
  /\ life < MaxLives
  /\ life' = life + 1
  /\ main' = "starting"
  /\ UNCHANGED <<gStartupMutex, listener, sdks, native, service, world,
                 calls, history>>

AddService ==
  /\ main = "starting"
  /\ service' = life
  /\ main' = "registered"
  /\ UNCHANGED <<life, gStartupMutex, listener, sdks, native, world,
                 calls, history>>

(* Variant: the gate is left open.                                         *)
ConstructThreadNoGate ==
  /\ main = "registered"
  /\ listener' = "gate"
  /\ main' = "created"
  /\ UNCHANGED <<life, gStartupMutex, sdks, native, service, world,
                 calls, history>>

(* Thread::Thread closes the gate and creates the thread.                  *)
ConstructThread ==
  /\ main = "registered"
  /\ gStartupMutex' = "main"
  /\ listener' = "gate"
  /\ main' = "created"
  /\ UNCHANGED <<life, sdks, native, service, world, calls, history>>

(* The rest of the constructor of ServerListener parses the two files.     *)
LoadDatabase ==
  /\ main = "created"
  /\ sdks' \in BOOLEAN
  /\ main' = "constructed"
  /\ UNCHANGED <<life, gStartupMutex, listener, native, service, world,
                 calls, history>>

StartListener ==
  /\ main = "constructed"
  /\ gStartupMutex' = "free"
  /\ main' = "started"
  /\ UNCHANGED <<life, listener, sdks, native, service, world,
                 calls, history>>

StartThreadPool ==
  /\ main = "started"
  /\ main' = "serving"
  /\ UNCHANGED <<life, gStartupMutex, listener, sdks, native, service,
                 world, calls, history>>

(* run() of ServerListener: it returns at once without an SDK, and when    *)
(* pipe() or listen() fails; or it gets to its loop.                       *)
RunBegins == IF sdks THEN {"running", "returned"} ELSE {"returned"}

(* threadEntry goes through the gate and calls run().                      *)
ThreadEntry ==
  /\ listener = "gate"
  /\ gStartupMutex = "free"
  /\ listener' \in RunBegins
  /\ UNCHANGED <<life, main, gStartupMutex, sdks, native, service, world,
                 calls, history>>

Boot == AddService \/ ConstructThread \/ LoadDatabase \/ StartListener \/ StartThreadPool

-----------------------------------------------------------------------------
(* What a call tells its Java caller.  A getter of VRNativeJNI returns the *)
(* text, and drops the status.                                             *)

(* Variant: the status.                                                    *)
ToldStatus(c, code, answer) == code

Told(c, code, answer) == IF request[c].op \in Getters THEN answer ELSE code

(* Variant: the proxy does not look at the status of transact and reads 0  *)
(* from an empty reply.                                                    *)
NoReplyIsZero == "NO_ERROR"

NoReply == "DEAD_OBJECT"

InServer(c) ==
  at[c] \in {"queued", "opening", "opened", "locked", "running", "replying"}

(* The process dies: SIGPIPE in the listener thread is one way.  Whatever  *)
(* was under way in it ends, but a command popen started goes on.          *)
Die ==
  /\ main # "down"
  /\ main' = "down"
  /\ gStartupMutex' = "free"
  /\ listener' = "none"
  /\ sdks' = FALSE
  /\ mLock' = Nobody
  /\ mIPostEvent' = Nobody
  /\ at' = [c \in Calls |-> IF InServer(c) THEN "done" ELSE at[c]]
  /\ result' = [c \in Calls |-> IF InServer(c) THEN Told(c, NoReply, "empty") ELSE result[c]]
  /\ UNCHANGED <<life, service, world, request, handle, status, text,
                 command, history>>

(* The service manager hears of the death some time later.                 *)
ForgetService ==
  /\ service # 0
  /\ service # life \/ main = "down"
  /\ service' = 0
  /\ UNCHANGED <<process, native, world, calls, history>>

-----------------------------------------------------------------------------
(* The caller's side: getVRService and the proxy.                          *)

Begin(c, r) ==
  /\ at[c] = "idle"
  /\ at' = [at EXCEPT ![c] = "lookup"]
  /\ request' = [request EXCEPT ![c] = r]
  /\ held' = [held EXCEPT ![c] = {store[t] : t \in {r.target} \cap DOMAIN store}]
  /\ UNCHANGED <<process, native, service, world, handle, status, text, command, result,
                 applied>>

(* getService waits for the name to appear, and gives up after a while.    *)
GetService(c) ==
  /\ at[c] = "lookup"
  /\ IF service # 0
     THEN /\ handle' = [handle EXCEPT ![c] = service]
          /\ at' = [at EXCEPT ![c] = "transact"]
          /\ UNCHANGED result
     ELSE /\ result' = [result EXCEPT ![c] = Told(c, "-1", "empty")]
          /\ at' = [at EXCEPT ![c] = "done"]
          /\ UNCHANGED handle
  /\ UNCHANGED <<process, native, service, world, request, status, text, command, history>>

Transact(c) ==
  /\ at[c] = "transact"
  /\ IF handle[c] = life /\ main # "down"
     THEN /\ at' = [at EXCEPT ![c] = "queued"]
          /\ UNCHANGED result
     ELSE /\ at' = [at EXCEPT ![c] = "done"]
          /\ result' = [result EXCEPT ![c] = Told(c, NoReply, "empty")]
  /\ UNCHANGED <<process, native, service, world, request, handle, status, text,
                 command, history>>

-----------------------------------------------------------------------------
(* The server's side: onTransact calls VRNativeService on a binder thread. *)

(* at, status and text when the method returns.                            *)
Answer(c, code, answer) ==
  /\ at' = [at EXCEPT ![c] = "replying"]
  /\ status' = [status EXCEPT ![c] = code]
  /\ text' = [text EXCEPT ![c] = answer]

GoOn(c, place) ==
  /\ at' = [at EXCEPT ![c] = place]
  /\ UNCHANGED <<status, text>>

Applied(c) == applied' = [applied EXCEPT ![c] = @ + 1]

Taken(c, ops) ==
  /\ main = "serving"
  /\ at[c] = "queued"
  /\ request[c].op \in ops

(* access() and the white list come first.                                 *)
CheckNode(c) ==
  /\ Taken(c, {"getSystemNode", "setSystemNode"})
  /\ CASE request[c].target = "missing"   -> Answer(c, "ERR_NOFOUND", "empty")
       [] request[c].target = "forbidden" -> Answer(c, "ERR_PERM", "empty")
       [] request[c].target = "node"      -> GoOn(c, "opening")
  /\ UNCHANGED <<process, native, service, world, request, handle, command, result, history>>

OpenNode(c) ==
  /\ at[c] = "opening"
  /\ Answer(c, "ERR_PERM", "empty") \/ GoOn(c, "opened")
  /\ UNCHANGED <<process, native, service, world, request, handle, command, result, history>>

(* Variant: the transaction codes of the two getters mixed up.             *)
ReadTextOther(c) == store["node"]

ReadText(c) == store[request[c].target]

Waits(c) == at[c] \notin {"idle", "done"}

(* The target is read, or written: everybody who waits for it could have   *)
(* seen the new value.                                                     *)
AccessTarget(c) ==
  IF request[c].op \in Getters
  THEN /\ Answer(c, "NO_ERROR", ReadText(c))
       /\ UNCHANGED <<store, history>>
  ELSE /\ store' = [store EXCEPT ![request[c].target] = request[c].value]
       /\ held' = [d \in Calls |-> IF Waits(d) /\ request[d].target = request[c].target
                                   THEN held[d] \cup {request[c].value} ELSE held[d]]
       /\ Applied(c)
       /\ Answer(c, "NO_ERROR", "empty")

ReadWriteNode(c) ==
  /\ at[c] = "opened"
  /\ \/ Answer(c, "ERR_RDWR", "empty") /\ UNCHANGED <<store, history>>
     \/ AccessTarget(c)
  /\ UNCHANGED <<process, native, service, scheduled, request, handle, command, result>>

LockProperty(c) ==
  /\ Taken(c, {"getProperty", "setProperty"})
  /\ mLock = Nobody
  /\ mLock' = c
  /\ GoOn(c, "locked")
  /\ UNCHANGED <<process, mIPostEvent, service, world, request, handle, command, result,
                 history>>

(* Variant: the return after a failure forgets the lock.                   *)
AccessPropertyKeepsLock(c) ==
  /\ at[c] = "locked"
  /\ \/ Answer(c, "-1", "empty") /\ UNCHANGED <<store, history, mLock>>
     \/ AccessTarget(c) /\ mLock' = Nobody
  /\ UNCHANGED <<process, mIPostEvent, service, scheduled, request, handle, command, result>>

AccessProperty(c) ==
  /\ at[c] = "locked"
  /\ \/ Answer(c, "-1", "empty") /\ UNCHANGED <<store, history>>
     \/ AccessTarget(c)
  /\ mLock' = Nobody
  /\ UNCHANGED <<process, mIPostEvent, service, scheduled, request, handle, command, result>>

(* popen, and fgets until the command has ended.                           *)
SystemCall(c) ==
  /\ Taken(c, {"systemCall"})
  /\ \/ Answer(c, "-1", "empty") /\ UNCHANGED <<command, applied>>
     \/ /\ request[c].target = "dfu-util"
        /\ command' = [command EXCEPT ![c] = "running"]
        /\ Applied(c)
        /\ GoOn(c, "running")
  /\ UNCHANGED <<process, native, service, world, request, handle, result, held>>

CommandEnds(c) ==
  /\ command[c] = "running"
  /\ command' = [command EXCEPT ![c] = "ended"]
  /\ UNCHANGED <<process, native, service, world, at, request, handle, status, text,
                 result, history>>

CloseCommand(c) ==
  /\ at[c] = "running"
  /\ command[c] = "ended"
  /\ Answer(c, "NO_ERROR", "output")
  /\ UNCHANGED <<process, native, service, world, request, handle, command, result, history>>

(* onTransact reads tid, policy and pri from the parcel in the argument    *)
(* list of one call: in which order is up to the compiler.                 *)
ReadInSomeOrder(tid, policy, pri) ==
  LET sent == {tid, policy, pri}
  IN  {args \in sent \X sent \X sent : {args[1], args[2], args[3]} = sent}

SetThreadScheduler(c) ==
  /\ Taken(c, {"setThreadScheduler"})
  /\ scheduled' \in ReadInSomeOrder(request[c].target, "policy", request[c].value)
  /\ \/ Answer(c, "-1", "empty") /\ UNCHANGED applied
     \/ Answer(c, "NO_ERROR", "empty") /\ Applied(c)
  /\ UNCHANGED <<process, native, service, store, request, handle, command, result, held>>

SetPostEventObj(c) ==
  /\ Taken(c, {"setPostEventObj"})
  /\ mIPostEvent' = c
  /\ Applied(c)
  /\ Answer(c, "NO_ERROR", "empty")
  /\ UNCHANGED <<process, mLock, service, world, request, handle, command, result, held>>

Reply(c) ==
  /\ at[c] = "replying"
  /\ at' = [at EXCEPT ![c] = "done"]
  /\ result' = [result EXCEPT ![c] = Told(c, status[c], text[c])]
  /\ UNCHANGED <<process, native, service, world, request, handle, status, text, command,
                 history>>

OnTransact(c) ==
  \/ CheckNode(c) \/ OpenNode(c) \/ ReadWriteNode(c)
  \/ LockProperty(c) \/ AccessProperty(c)
  \/ SystemCall(c) \/ CloseCommand(c)
  \/ SetThreadScheduler(c) \/ SetPostEventObj(c)
  \/ Reply(c)

CallStep(c) == GetService(c) \/ Transact(c) \/ OnTransact(c)

-----------------------------------------------------------------------------
Next ==
  \/ InitStarts \/ Boot \/ ThreadEntry \/ Die \/ ForgetService
  \/ \E c \in Calls : (\E r \in Requests : Begin(c, r)) \/ CallStep(c) \/ CommandEnds(c)

Spec == Init /\ [][Next]_vars

(* main() runs on once init has started it, the threads of both processes  *)
(* are scheduled, and a command ends some day.  Nobody is obliged to call, *)
(* to die or to start vrserver.                                            *)
FairSpec ==
  /\ Spec
  /\ WF_vars(Boot)
  /\ \A c \in Calls : WF_vars(CallStep(c)) /\ WF_vars(CommandEnds(c))

-----------------------------------------------------------------------------
SchedulerArgs == {"none", "tid", "policy", "pri"}

TypeOK ==
  /\ life \in 0 .. MaxLives
  /\ main \in {"down", "starting", "registered", "created", "constructed", "started",
               "serving"}
  /\ gStartupMutex \in {"main", "free"}
  /\ listener \in {"none", "gate", "running", "returned"}
  /\ sdks \in BOOLEAN
  /\ mLock \in Calls \cup {Nobody}
  /\ mIPostEvent \in Calls \cup {Nobody}
  /\ service \in 0 .. MaxLives
  /\ store \in [{"property", "node"} -> Values]
  /\ scheduled \in SchedulerArgs \X SchedulerArgs \X SchedulerArgs
  /\ at \in [Calls -> {"idle", "lookup", "transact", "queued", "opening", "opened",
                       "locked", "running", "replying", "done"}]
  /\ request \in [Calls -> Requests \cup {NoRequest}]
  /\ handle \in [Calls -> 0 .. MaxLives]
  /\ status \in [Calls -> Statuses]
  /\ text \in [Calls -> Values \cup {"empty", "output"}]
  /\ command \in [Calls -> {"none", "running", "ended"}]
  /\ result \in [Calls -> Values \cup {"empty", "output"} \cup Statuses]
  /\ \A c \in Calls : request[c].op \in Getters => result[c] \notin Statuses
  /\ applied \in [Calls -> Nat]
  /\ held \in [Calls -> SUBSET Values]

(* What a setter tells its caller is what happened, also when vrserver     *)
(* died on the way: NO_ERROR for one effect, a code of VRNativeService or  *)
(* of VRNativeJNI for none, and DEAD_OBJECT for at most one, because       *)
(* nobody repeats a call.                                                  *)
OutcomeTrue ==
  \A c \in Calls :
    at[c] = "done" /\ request[c].op \notin Getters =>
      /\ applied[c] <= 1
      /\ result[c] = "NO_ERROR" => applied[c] = 1
      /\ result[c] \notin {"NO_ERROR", "DEAD_OBJECT"} => applied[c] = 0

(* What getSystemNode and getProperty return, unless it is empty, is a     *)
(* value the target held at some moment of the call.                       *)
ReadFresh ==
  \A c \in Calls :
    at[c] = "done" /\ request[c].op \in {"getSystemNode", "getProperty"} =>
      result[c] \in held[c] \cup {"empty"}

(* run() of the listener is entered only when its object is complete and   *)
(* the database is loaded, although the thread is created by the           *)
(* constructor of its base class.                                          *)
ListenerGated == listener \in {"running", "returned"} => main \in {"started", "serving"}

(* The calls in vrserver are those of the running process, and only a call *)
(* that holds the lock is between its property_get or property_set.        *)
ServedByThisLife ==
  /\ \A c \in Calls : InServer(c) => main # "down" /\ handle[c] = life
  /\ \A c \in Calls : at[c] = "locked" <=> mLock = c

(* Every call returns, whatever vrserver does and however it ends.         *)
CallReturns == \A c \in Calls : at[c] = "lookup" ~> at[c] = "done"

(* int setThreadScheduler(int tid, int policy, int pri) of                 *)
(* IVRAdminService.aidl: the policy and the priority the caller gave go to *)
(* the thread the caller named.                                            *)
SchedulerArgsKept ==
  scheduled \in {<<"none", "none", "none">>, <<"tid", "policy", "pri">>}
=============================================================================
