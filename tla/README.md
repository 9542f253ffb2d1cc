# A TLA+ model of VR-Admin

VR-Admin lets VR applications on a phone reach what only the system may touch.
This directory holds TLA+ modules that model its parts, the TLC configurations
that check them on small instances, and proofs, checked by TLAPS, of what
matters most for every instance. `PROJECT.json` lists the runs, the theorems,
the source lines behind every definition, the hazards and the findings.

## The system

Two processes. **vrserver** (C++, `jni/main`) is a native service started by
init. It runs a thread pool for binder calls and one listener thread for the
clients of the Unix socket `vrserver_socket`. **VRAdmin** (Java, `src/com`) is an
Android application with the service VRAdminService, which VR applications bind
to; it reaches vrserver through JNI (`jni/VRNativeJNI.cpp`) and binder
(`jni/binder`).

| Component | State | Operations | Interacts with | What is hard |
|---|---|---|---|---|
| Listener (`ServerListener`, `ClientConnector`) | connector list, `quitConns`, `rQuit`, `rset` | the select loop: accept, postSelect, reap | clients by socket; binder threads by the descriptor table | descriptors that are given out again, a list that changes within a pass, clients that go away between two system calls, no descriptor left |
| Client monitor (`VRAdminService`) | `mClientCount`, `mCbs`, a property and a sysfs node outside | registerMonitor, binderDied, activityEnter, activityLeave | clients by binder and by their death; vrserver for the settings | binderDied without the lock, calls that outlive their caller, calls into vrserver whose result nobody looks at |
| Flashing (`startDownLoad`, `TalkToDfuUtil`) | `bRunning`, two sockets, two sizes | startDownLoad, talkWithSocket, broadcastFlashProgress | dfu-util through vrserver and through a socket | a flag that is tested and set, an accept that may never return, a tool that ends at any moment |
| Native calls (`VRManager`, JNI, binder, `VRNativeService`) | `mLock`, `mIPostEvent`, a handle per call | get and set of nodes and properties, systemCall, setThreadScheduler, setPostEventObj | the kernel, the property service, popen | vrserver dies while a call is in it |
| Start of vrserver (`main`, `Thread`) | `gStartupMutex` | addService, construct, start, thread pool | all of vrserver | the thread exists before the object it runs |
| Wake lock (`VRAdminApplication`, `HMDReceiver`, `PSensorUtility`) | `mWakeLock`, `mHoldWakeLock`, `isListening` | sensor events, broadcasts | the system, by broadcasts; vrserver, for the name of the device | a broadcast that arrives in another life of the process, a service created while vrserver is down |
| SDK database (`XmlDatabase`, `VrSDK`, processMessage) | list of SDKs, a property per SDK outside | parse, query | the XML files at the start, the listener, the property service | damaged and contradictory files, names compared with and without their case, requests read together, properties that outlive vrserver |

What makes them correct: the listener keeps connections, descriptors and
connectors in step and each client's conversation apart from all others; the
monitor's count is the number of registered clients and decides when settings
are restored; one startDownLoad flashes at a time and the outcome of
its dfu-util is told; a native call tells its caller what happened; the lock
follows the sensor while one is registered; the answers about the SDKs are what
the files say, and the socket and the property tell of the same version.

## Modules

`SdkSession` -- what vrserver promises the clients of the socket, without
descriptors or a list: conversations that begin, ask, hear and end, and end only
by the wish of their own client.

`ServerListener` -- the listener thread as it is written, one action per step of
`ServerListener::run` between two accesses to what it shares: `Select`,
`Accept`, one of `PostIdle`, `PostRequest`, `PostQuit`, `PostReset` for each
connector, `EndPass`, `Reap` for each entry of `quitConns`, `EndReap`. The model
begins where `run()` enters its loop; its returns before that are in
`NativeCalls`. Around it the clients (`Connect`, `Send`, `Receive`, `Hangup`)
and the binder threads that open and close a file (`BinderOpen`, `BinderClose`);
both interleave with every step. The kernel's part is a table from descriptors
to what they refer to, lowest number first. The uninitialised `len` of
`accept()` is a value chosen once. SIGPIPE ends the process: no action is
possible after it. `Session` maps its state to `SdkSession`; a connection is
`leaving` while its descriptor is in `quitConns`. What a reading is answered
with is the constant `Answer`, a function of the whole sequence of requests one
`read()` found.

`SdkDatabase` -- `VrSDK`, `XmlDatabase` and `ClientConnector::processMessage` as
operators: `Parser` is what one file leaves in `mData`, `ProcessMessage` what a
reading is answered with. Texts are model values; what the code does to them
(lower case, cutting at a '.', cutting at 64 characters) is a function each.

`XmlLoading` -- the constructor of `ServerListener`, one `ParseFile` per file, with
the property `vr.<type>.version` the constructor of `VrSDK` sets and the property
service may refuse, and the `Restart` of vrserver between any two steps. Its
reference is the files themselves: `AnswersMatchFiles` computes from them, without
a database, what every reading must be answered with. `XmlItems` and
`XmlDocuments` are what libxml2 gives; `DocumentsAssumption`, `TextsAssumption`
and `MessagesAssumption` say what the proofs need of files, texts and readings.
`XmlLoadingProofs` -- the proofs about it.

`ListLemmas` -- facts on sequences used as lists (append, tail, removal of the
first occurrence) and the least element of a set of numbers, proved once.
`ServerListenerProofs` -- the proofs about the listener. `SdkSessionProofs` -- that
it implements `SdkSession`.

`VRAdminMonitor` -- registrations and their obituaries. `++` and `--` of
`mClientCount` are a read and a write each; registerMonitor holds its lock from
`RegisterMonitor` to `LinkToDeath`, binderDied (`BinderDied`, `CountDown`,
`TestZero`, `RestoreProperty`, `RestoreNode`) holds none. `overlapped` records
that two updates were between their read and their write at once. `ServiceDies`
is the death of the service's process: registrations and calls are lost, the
settings stay. With `CallsMayFail`, every call into vrserver that writes a setting
(`SetProperty`, `SetSystemNode`) may leave it as it was; `restoreFailed` records
that the last restore of binderDied was such a call. `VRAdminMonitorProofs` -- the
proofs about it.

`DfuDownload` -- startDownLoad in the steps between which another thread may run,
the talker thread of every call, and the dfu-util each call starts (`Flashes` while
it runs). `bothPassed` records that two
calls were between the test and the set of `bRunning`. `int` wraps at `MaxInt`.
With `Faults`, systemCall may come back without having started dfu-util
(`SystemCallFails`), vrserver may die and leave dfu-util behind (`VrserverDies`),
and so may the process of the service (`ServiceDies`), which loses its calls,
talkers and sockets and comes back with `bRunning` unset. A file of size 0 ends
the service always (`ReadZero`). `orphaned` records that a process died while a
dfu-util ran. `DfuDownloadProofs` -- the proofs about it.

`NativeCalls` -- one call from VRManager to VRNativeService and back, in steps
between which vrserver may die, and the start of vrserver with the gate of class
`Thread`, up to the returns `run()` of the listener has before its loop
(`RunBegins`). The order in which `setThreadScheduler` reads its three integers
is any of the six (`ReadInSomeOrder`). `applied` counts the effects of a call,
`held` collects the values its target had while it was under way. An empty text
is `"empty"`. `NativeCallsProofs` -- the proofs about it.

`HmdWake` -- sensor, broadcasts and wake lock. The process and the service die
and start again; broadcasts on their way survive that. `CreateService`
asks vrserver for the name of the device and may get none: the service is then
created without a sensor, with `mHoldWakeLock` as it was. `HmdWakeProofs` -- the
proofs about it.

The modules `MC...` give the constants values for TLC. Operators introduced by
the word "Variant" are plausible mistakes; no specification uses them. They are
what the properties are tried against: with the variant in the place of the
definition it names, the property fails.

Composition. `ServerListener` instantiates `SdkSession`; `MCServerListener` joins
`ServerListener` and `SdkDatabase`, so that the listener answers from the two XML
files the repository installs. The other modules meet vrserver and the service
only through calls and deaths, and each has those that matter to it. The
systemCall of `DfuDownload` may fail or be cut off, setProperty and setSystemNode
of `VRAdminMonitor` may have no effect, the getProperty of `HmdWake` may give
nothing: these are the calls `NativeCalls` lets end with an error or without their
effect. The process of the service dies in `VRAdminMonitor`, `DfuDownload` and
`HmdWake`, vrserver in `DfuDownload` and `NativeCalls`; in `VRAdminMonitor` and
`HmdWake` the death of vrserver is the calls that fail.

## Runs

| Run | Instance | Shows |
|---|---|---|
| listener_all | 2 clients, 1 binder thread, descriptors 5 and 6, 2 requests unread, 1 reply unread; a feature request and quit | the six safety invariants, `ImplementsSession`, and under fairness `RequestsRead`, `HangupReclaimed`, `QueuedTaken` |
| listener_sigpipe | the same | violated: `ServerSurvives` |
| sdk_all | all pairs of 189 files: none, damaged, three names of which two differ by case, two versions, up to 2 items of 5 kinds; 1 or 2 requests in a reading | the answers are those of the files; where one name is written in one way only, the property and the socket tell of the same version |
| monitor_all | 2 clients, one registering twice; the service dies at any moment, and any call into vrserver fails | the count, the restore, and under fairness that the dead are forgotten and the property restored, unless that very call fails |
| monitor_gralloc, monitor_count | the same clients, which register first; the service stays and no call fails | violated: `GrallocRestored`, `NobodyLeftMeansZero` |
| monitor_autorefresh | 1 client, 1 registration; the service stays and no call fails | violated: `AutorefreshRestored` |
| dfu_all | 2 downloads, files of size 0, 1 and 2, `MaxInt` 127, faults | the safety invariants and the two liveness properties |
| dfu_quit | 2 downloads, a file of size 1, no faults | violated: `FailureMeansQuit` |
| native_all | 2 calls of any kind, 2 values, 2 starts of vrserver | the five invariants and that every call returns |
| native_sched | the same | violated: `SchedulerArgsKept` |
| hmd_all | 3 broadcasts on their way; services with and without an answer of vrserver | while a sensor is registered, the lock and the sensor agree; taking the head set off and unplugging it let go of the screen |

Why the bounds are enough. The listener's hazards need two connections that end
in one pass and a third party for the number that is free again: two clients and
a binder thread. Two descriptors for three users make `accept()` fail. That more
clients change nothing for the six invariants is proved. Two requests unread let
one hide behind another, and garble a feature's name; one reply unread makes the
second write fail with EAGAIN and closing leave ECONNRESET. There is no symmetry
set: the run has liveness properties. The code parses two files; two items of a
file repeat a version, and the other file repeats it again. `UnsignedRange` 16
and `LongRange` 4 have numbers below 0, below 4 and above. The monitor needs a
count of two and two obituaries of one client. Two downloads make a second holder
of the flag and of the address; with `MaxInt` 127, a hundred times 1 fits an `int`
and a hundred times 2 does not. A call that
spans two starts of vrserver needs two starts; readers and writers need two
calls. Deadlock is not checked: clients may stop, processes may be dead and
calls may all be done.

Fairness. `Run` of the listener is scheduled by the kernel; no client and no
binder call has to do anything, so the listener's progress may not depend on
one. In `VRAdminMonitor`, a call that is in the service and an obituary get a
binder thread. In `DfuDownload` the threads of the service run, and dfu-util
ends some day: systemCall has no timeout, so startDownLoad cannot return without
it. No fault is ever obliged to happen. `NativeCalls` assumes that main() goes
on, that threads are scheduled and commands end, and not that init starts
vrserver: getService gives up without it. `HmdWake` assumes that the sensor
reports and broadcasts are delivered.

## Findings

The violated properties state what a comment, a message or a declaration in the
sources says; TLC shows that the code does otherwise.

- `ServerSurvives`: a client that closes before its answer is written ends
  vrserver by SIGPIPE (`ClientConnector.cpp:49`, comment at `:42`).
- `GrallocRestored`: an activityEnter of a client that died is carried out after
  binderDied restored the settings (`VRAdminService.java:171`).
- `NobodyLeftMeansZero`: an update of `mClientCount` is lost
  (`VRAdminService.java:160` and `:167`), and the test at `:169` is never true
  again.
- `AutorefreshRestored`: the node is named by a path vrserver refuses
  (`VRAdminService.java:51`, `VRNativeService.cpp:49`).
- `FailureMeansQuit`: "dfu-util quit!" is reported when the address was in use
  (`TalkToDfuUtil.java:28`, `:72`).
- `SchedulerArgsKept`: the order in which `setThreadScheduler` reads its
  arguments is unspecified (`IVRNativeService.cpp:160`,
  `IVRAdminService.aidl:49`).

## Proofs

Every safety property of the passing runs, and the refinement of `SdkSession`, is
proved for all values of the constants. The named assumptions on the constants are
those of the modules; TLC evaluates them on every run.

`ServerListenerProofs` proves the six invariants of `listener_all` for any
sets of clients, binder threads and descriptors, from `ConstantsAssumption`:
descriptors are numbers, the listening socket is not among those given out, and
clients, binder threads and `Nobody` are different. None is inductive by itself.
That `close()` in `Reap` never hits a file needs that what waits in `quitConns`
is still in the connector list; this needs that the list holds no number twice
and exactly the numbers of accepted connections; and that `postSelect` acts on
the right connection needs that nothing `select()` marked was closed since. The
inductive invariant `Inv` is their conjunction with the type invariant; the
proof has one step per action and one conjunct at a time, on the lemmas of
`ListLemmas` about the removal of an element from a list without repetitions.

`SdkSessionProofs` proves that every behaviour of `ServerListener` is one of
`SdkSession` under the mapping of `Session` (`ListenerImplementsSession`). The
initial states map to an initial state; each action of a client, `Accept` where
it finds a connection, `PostRequest` and `PostQuit` is a step of one conversation
(or, by SIGPIPE, the end of the server), `Reap` ends one that was leaving, and
all else is a stutter. That `Reap` ends the conversation it should, and no other,
and that `PostQuit` makes exactly one conversation leave, is where `Inv` is
needed: descriptors stand for connections only as long as the list, the table
and `quitConns` agree.

`VRAdminMonitorProofs` proves, for any finite set of registrations and any
owners (`MonitorAssumption`), the type invariant, `CountExact`, and
`RestoreOnlyWhenNobody`. `CountExact` is inductive together with the types: as
long as updates do not overlap, the value an update has read is the current
one, and the count is the size of the list, one more inside binderDied. That
binderDied restores only when nobody is registered follows: the count it tests
is the size of the list plus a number that is not negative.

`DfuDownloadProofs` proves the five invariants of `dfu_all` for any number of
downloads, any sizes and any width of `int` (`DfuAssumption`), faults included.
`OneAtATime` says that one startDownLoad is active, and with it at most one
dfu-util that such a call started; it says nothing of those of getBoardMode and of
a client's systemCall, which no flag keeps away. It follows from two facts that are
each inductive with the types: as long as no process died under a running
dfu-util, it runs only while its call waits for it (`CallWaits`); and as long as
no two calls passed the test together, the flag is set exactly while one call is
active, and whoever has passed the test did so alone (`FlagIsCall`). The last part
is what makes setting the flag safe. `AddressHeld` needs that a call which has
not set the flag has no talker (`TalkerAfterSet`): the talker it creates is not
one that has the address already.

What the callbacks are told (`OutcomeTold`, `PercentGrows`) and the types need a
larger invariant, `ToldInv`. A talker cannot see the size dfu-util has, only
what it read; so the invariant says what is in every channel by position
(`ChannelOf`: the first message is the size, and the k-th behind it is k), that
nobody but the talker which accepted a connection reads from it (`OneTalker`),
and that what a talker has told is, one by one, the percentages of the messages
it has read, with -1 behind them exactly when it ended before the last
(`ToldOf`). A dfu-util that has not connected has an empty channel (`Fresh`),
which is what a second use of the address could break. `PercentGrows` then is
arithmetic on `Progress`, below the size where `int` overflows.

`NativeCallsProofs` proves the five invariants of `native_all` for any number of
calls, any values and any number of starts, from `NativeAssumption`; a value is
not a status and not one of the texts the code makes itself, so that a getter's
answer is told from an error. The types are inductive with what the place of a
call says about its request (`RequestKnown`). `ListenerGated` needs the stages of
main() and who has the mutex at each (`GateInv`); `ServedByThisLife` is inductive
with the types; `OutcomeTrue` that there is no
effect before the method has done its work and then as many as its status says
(`Effects`), which stays true when vrserver dies before the reply; `ReadFresh`
that a waiting call knows the present value of its target among those it saw
(`Reads`).

`HmdWakeProofs` proves the types and `LockMatchesSensor` for any number of
broadcasts on their way (`HmdAssumption`). The last event among them is what the
service was told last (`LastIsReported`), or it has arrived and the lock is what
it asked for, unless the head set was unplugged since (`ReportedHandled`); and
whoever registered the sensor allowed the lock to be held (`HoldAllowed`), without
which the handling of that last event would do nothing. A service vrserver did not
answer has no sensor, and no event to handle. Broadcasts of an earlier life of
the process come first in the queue, which is why they do no harm.

`XmlLoadingProofs` proves the three invariants of `sdk_all` for any documents, any
number of files and of items (`DocumentsAssumption`, `TextsAssumption`,
`MessagesAssumption`, `RangesAssumption`). `LoadInv` says that `mData` has one SDK
for each name of a usable file, with the version of the first of them, in the
order of these first files (`DataFromFiles`, `InOrder`), that its features are
what the files of that name bring (`FeaturesFromFiles`), and that a property,
also one from before a restart, has the version of such a first file
(`PropertiesFromFiles`). The order is needed where names differ in their case
only: `getSDK` takes the first SDK of the list, the reference the first file.
`PropertyAgrees` then compares what `ProcessMessage` answers with the property: the
version cut to what a reply holds, -2 when it is empty. Where usable files name an
SDK by roots that differ in their case (not `OneName`), the two may tell of
different files, and it says nothing.
What a file's items do to an SDK is a fold of the community modules, whose
definition chooses a recursive function. `FoldIs` shows that there is one, and
`FoldReaches` that a fold goes where its steps go; the induction on the length is
made with the least counterexample (`LeastNat`).

Only model-checked, and why: the nine liveness properties. They rest on
fairness, and so on ENABLED, which is outside the prover.

## Not modelled

- The wakeup pipe of the listener: `_LoopRefresh` has no caller.
- `post()` of the reporter, and `IVRPostEvent` behind it: nothing calls it, and
  `postEventFromNative` does nothing. `NativeCalls` has its registration.
- The inner states of an `ArrayList` two threads are in; registration of
  callbacks in a `RemoteCallbackList`: both belong to the platform.
- Calls with null arguments. In Java they return at once; in `VRNativeJNI` they
  abort the process, which the deaths of the process cover.
- The 128-byte buffer of getSystemNode, the 65 bytes of postSelect, descriptors
  above FD_SETSIZE, names of SDKs that do not fit in a reply.
- That a command started by `popen` inherits the listener's connections: only a
  client would notice, and the clients see no end of file in the model.
- Whose settings an activityLeave or a late restore overwrites: the code counts
  registrations and promises nothing about entries.
- The dfu-utils of getBoardMode and of a client's systemCall, which start without a
  look at `bRunning`: what the tool does to another one is not in the sources, and
  no property says that they are kept away.
- What follows when `pipe()` or `listen()` fails: `run()` returns, as in
  `NativeCalls`, and nobody is served after that.
- Error codes as such: "-1" stands for every negated errno and status.
- AIDL declarations, manifest, build files, dfu-util itself.

## Plan

Done, in this order: the listener with its abstract specification and its
proofs; the client monitor with its proofs; the download; native calls and the
start of vrserver; the wake lock; the SDK database and its composition with the
listener; the death of the service and of vrserver in the monitor and in the
download; the first proofs about the download.

Then the proofs: `ServerListener` implements `SdkSession`; the invariants of
`NativeCalls`, of `HmdWake` and of the rest of `DfuDownload`; the SDK database,
from the fold over the items of a file to the answers.

Next:
1. The hazards without a property: the one about settings that change under a
   client needs a model of who entered last, beside the count.
2. Facts about `ProcessMessage` for a listener that answers from the database:
   which answers a `quit` behind another request can hide.
