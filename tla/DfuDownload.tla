----------------------------- MODULE DfuDownload -----------------------------
(***************************************************************************)
(* Flashing the head set: startDownLoad of VRAdminService, called on any   *)
(* number of binder threads; the TalkToDfuUtil thread each accepted call   *)
(* starts; and the dfu-util process the call runs through systemCall, which *)
(* reports its progress to whoever listens on "com.le.vrotalib".  Both the *)
(* process of the service and vrserver, whose child dfu-util is, may die.  *)
(*                                                                         *)
(* Abstractions.                                                           *)
(*  - dfu-util is not part of the sources: it connects if somebody listens, *)
(*    sends the size of the file, then what it has written, and ends at    *)
(*    any moment.                                                          *)
(*  - The dfu-utils are those of startDownLoad.  getBoardMode starts one   *)
(*    too, and a client may through systemCall, at any time and without a  *)
(*    look at bRunning: what such a one does to the board or to the socket *)
(*    is not in the sources, and nothing here says that it is kept away.   *)
(*  - One read() of the talker takes one message, four bytes.              *)
(*  - The second startDownLoad sleeps orders nothing: the talker thread    *)
(*    may come first or last.                                              *)
(*  - An int is MaxInt + 1 wide on either side of zero.                    *)
(*  - told[d] is what the talker broadcast to all registered callbacks.    *)
(***************************************************************************)
EXTENDS Integers, FiniteSets, Sequences, SequencesExt

CONSTANTS
  Downloads,   \* calls of startDownLoad, each with its talker and dfu-util
  Nobody,      \* not a download
  Sizes,       \* sizes of the files to flash
  MaxInt,      \* 2^31 - 1 in the code
  MaxInFlight, \* messages the socket holds
  Faults       \* whether systemCall fails and processes die

ASSUME DfuAssumption ==
  /\ IsFiniteSet(Downloads)
  /\ Nobody \notin Downloads
  /\ Sizes \subseteq Nat
  /\ MaxInt \in Nat
  /\ MaxInFlight \in Nat \ {0}
  /\ Faults \in BOOLEAN

VARIABLES
  (* VRAdminService *)
  bRunning,
  download,    \* download[d]: where the call of startDownLoad is
  bothPassed,  \* history: two calls were between the test and the set of bRunning
  orphaned,    \* history: a process died while a dfu-util it waited for ran
  (* TalkToDfuUtil *)
  talker,      \* talker[d]: where talkWithSocket is
  address,     \* the talker that has "com.le.vrotalib", or Nobody
  client,      \* client[d]: the dfu-util whose connection talker d accepted
  fileSize, writeSize,
  told,
  (* dfu-util *)
  dfu,         \* dfu[d]: "none", "started", "connected", "mute" or "exited"
  size,        \* size[d]: the size of the file, once it has a connection
  sent,        \* sent[d]: how many messages it has sent on it
  waiting,     \* dfu-utils that connected and were not accepted
  channel      \* channel[d]: messages of dfu-util d on their way

service == <<bRunning, download, bothPassed, orphaned>>
talk    == <<talker, address, client, fileSize, writeSize, told>>
tool    == <<dfu, size, sent, waiting, channel>>
vars    == <<service, talk, tool>>

Init ==
  /\ bRunning = FALSE
  /\ download = [d \in Downloads |-> "none"]
  /\ bothPassed = FALSE
  /\ orphaned = FALSE
  /\ talker = [d \in Downloads |-> "none"]
  /\ address = Nobody
  /\ client = [d \in Downloads |-> Nobody]
  /\ fileSize = [d \in Downloads |-> -1]
  /\ writeSize = [d \in Downloads |-> 0]
  /\ told = [d \in Downloads |-> <<>>]
  /\ dfu = [d \in Downloads |-> "none"]
  /\ size = [d \in Downloads |-> 0]
  /\ sent = [d \in Downloads |-> 0]
  /\ waiting = <<>>
  /\ channel = [d \in Downloads |-> <<>>]

-----------------------------------------------------------------------------
(* startDownLoad.  bRunning is tested and set without a lock.              *)

TestRunning(d) ==
  /\ download[d] = "none"
  /\ download' = [download EXCEPT ![d] = IF bRunning THEN "refused" ELSE "passed"]
  /\ bothPassed' = (\/ bothPassed
                    \/ ~bRunning /\ \E e \in Downloads : download[e] = "passed")
  /\ UNCHANGED <<bRunning, orphaned, talk, tool>>

(* Variant: the flag is never set.                                         *)
SetRunningForgets(d) ==
  /\ download[d] = "passed"
  /\ talker' = [talker EXCEPT ![d] = "created"]
  /\ download' = [download EXCEPT ![d] = "sleeping"]
  /\ UNCHANGED <<bRunning, bothPassed, orphaned, address, client, fileSize, writeSize, told,
                 tool>>

SetRunning(d) ==
  /\ download[d] = "passed"
  /\ bRunning' = TRUE
  /\ talker' = [talker EXCEPT ![d] = "created"]
  /\ download' = [download EXCEPT ![d] = "sleeping"]
  /\ UNCHANGED <<bothPassed, orphaned, address, client, fileSize, writeSize, told, tool>>

RunDfuUtil(d) ==
  /\ download[d] = "sleeping"
  /\ dfu' = [dfu EXCEPT ![d] = "started"]
  /\ download' = [download EXCEPT ![d] = "flashing"]
  /\ UNCHANGED <<bRunning, bothPassed, orphaned, talk, size, sent, waiting, channel>>

(* systemCall comes back without having started dfu-util: vrserver is not  *)
(* there, or its popen() failed.  The talker goes on waiting.              *)
SystemCallFails(d) ==
  /\ Faults
  /\ download[d] = "sleeping"
  /\ bRunning' = FALSE
  /\ download' = [download EXCEPT ![d] = "returned"]
  /\ UNCHANGED <<bothPassed, orphaned, talk, tool>>

Answered(d) ==
  \/ download[d] = "flashing" /\ dfu[d] = "exited"
  \/ download[d] = "cut"

(* Variant: the call joins its talker before it returns.                   *)
ReturnJoins(d) ==
  /\ Answered(d)
  /\ talker[d] = "ended"
  /\ bRunning' = FALSE
  /\ download' = [download EXCEPT ![d] = "returned"]
  /\ UNCHANGED <<bothPassed, orphaned, talk, tool>>

(* systemCall waits for the end of dfu-util, unless vrserver dies.         *)
Return(d) ==
  /\ Answered(d)
  /\ bRunning' = FALSE
  /\ download' = [download EXCEPT ![d] = "returned"]
  /\ UNCHANGED <<bothPassed, orphaned, talk, tool>>

StartDownLoad(d) ==
  \/ TestRunning(d) \/ SetRunning(d) \/ RunDfuUtil(d) \/ SystemCallFails(d) \/ Return(d)

-----------------------------------------------------------------------------
(* The death of processes.  A dfu-util is a child of vrserver and goes on. *)

(* The dfu-util that startDownLoad d started has not ended.                *)
Flashes(d) == dfu[d] \in {"started", "connected", "mute"}

(* The calls that wait for vrserver come back with an error.               *)
VrserverDies ==
  /\ Faults
  /\ \E d \in Downloads : download[d] = "flashing"
  /\ download' = [d \in Downloads |->
                     IF download[d] = "flashing" THEN "cut" ELSE download[d]]
  /\ orphaned' = (orphaned \/ \E d \in Downloads : Flashes(d))
  /\ UNCHANGED <<bRunning, bothPassed, talk, tool>>

(* The process of the service ends and comes back for the next call: its   *)
(* calls and talkers are gone, the kernel has closed their sockets, and    *)
(* bRunning is a field of a new object.                                    *)
ServiceEnds ==
  /\ download' = [d \in Downloads |->
                     IF download[d] \in {"passed", "sleeping", "flashing", "cut"}
                     THEN "aborted" ELSE download[d]]
  /\ bRunning' = FALSE
  /\ bothPassed' = FALSE
  /\ orphaned' = (orphaned \/ \E d \in Downloads : Flashes(d))
  /\ talker' = [d \in Downloads |-> IF talker[d] = "none" THEN "none" ELSE "gone"]
  /\ address' = Nobody
  /\ client' = [d \in Downloads |-> Nobody]
  /\ fileSize' = [d \in Downloads |-> -1]
  /\ writeSize' = [d \in Downloads |-> 0]
  /\ told' = [d \in Downloads |-> <<>>]
  /\ dfu' = [d \in Downloads |-> IF dfu[d] = "connected" THEN "mute" ELSE dfu[d]]
  /\ waiting' = <<>>
  /\ channel' = [d \in Downloads |-> <<>>]
  /\ size' = [d \in Downloads |-> 0]
  /\ sent' = [d \in Downloads |-> 0]

ServiceDies == Faults /\ ServiceEnds

-----------------------------------------------------------------------------
(* talkWithSocket.                                                         *)

(* Variant: a later talker takes the address over.                         *)
BindSteals(d) ==
  /\ talker[d] = "created"
  /\ address' = d
  /\ talker' = [talker EXCEPT ![d] = "accepting"]
  /\ UNCHANGED <<service, client, fileSize, writeSize, told, tool>>

(* The constructor of LocalServerSocket throws when the address is in use, *)
(* and the finally block follows.                                          *)
Bind(d) ==
  /\ talker[d] = "created"
  /\ IF address = Nobody
     THEN address' = d /\ talker' = [talker EXCEPT ![d] = "accepting"]
     ELSE UNCHANGED address /\ talker' = [talker EXCEPT ![d] = "finally"]
  /\ UNCHANGED <<service, client, fileSize, writeSize, told, tool>>

(* accept() blocks until a dfu-util, of whatever download, has connected.  *)
AcceptClient(d) ==
  /\ talker[d] = "accepting"
  /\ waiting # <<>>
  /\ client' = [client EXCEPT ![d] = Head(waiting)]
  /\ waiting' = Tail(waiting)
  /\ talker' = [talker EXCEPT ![d] = "reading"]
  /\ UNCHANGED <<service, address, fileSize, writeSize, told,
                 dfu, size, sent, channel>>

Int32(x) == ((x + MaxInt + 1) % (2 * (MaxInt + 1))) - (MaxInt + 1)

(* "/" of Java rounds towards zero.                                        *)
Quotient(a, b) == IF a >= 0 THEN a \div b ELSE -((-a) \div b)

(* Variants: the division forgotten; what is left in the place of what was *)
(* written.                                                                *)
ProgressUndivided(written, total) == written * 100

ProgressLeft(written, total) == Quotient((total - written) * 100, total)

Progress(written, total) == Quotient(Int32(written * 100), total)

Broadcast(d, percent) == told' = [told EXCEPT ![d] = Append(@, percent)]

FileSize(d, value) == IF fileSize[d] = -1 THEN value ELSE fileSize[d]

(* The first value is the size of the file, every other what was written.  *)
Read(d) ==
  /\ talker[d] = "reading"
  /\ channel[client[d]] # <<>>
  /\ LET value == Head(channel[client[d]])
         total == FileSize(d, value)
         done  == IF fileSize[d] = -1 THEN writeSize[d] ELSE value
     IN  /\ total # 0
         /\ fileSize' = [fileSize EXCEPT ![d] = total]
         /\ writeSize' = [writeSize EXCEPT ![d] = done]
         /\ Broadcast(d, Progress(done, total))
  /\ channel' = [channel EXCEPT ![client[d]] = Tail(@)]
  /\ UNCHANGED <<service, talker, address, client, dfu, size, sent, waiting>>

(* A size of 0 makes the division throw.  The finally block finds the two  *)
(* sizes equal and reports nothing; nothing catches the exception, and the *)
(* process ends.                                                           *)
ReadZero(d) ==
  /\ talker[d] = "reading"
  /\ channel[client[d]] # <<>>
  /\ FileSize(d, Head(channel[client[d]])) = 0
  /\ ServiceEnds

(* read() returns -1 when dfu-util is gone and everything it sent is read. *)
ReadEnd(d) ==
  /\ talker[d] = "reading"
  /\ channel[client[d]] = <<>>
  /\ dfu[client[d]] = "exited"
  /\ talker' = [talker EXCEPT ![d] = "finally"]
  /\ UNCHANGED <<service, address, client, fileSize, writeSize, told, tool>>

(* Variant: a failure only when dfu-util never sent a size.                *)
ReportFailureNoSize(d) ==
  /\ talker[d] = "finally"
  /\ IF fileSize[d] = -1 THEN Broadcast(d, -1) ELSE UNCHANGED told
  /\ talker' = [talker EXCEPT ![d] = "closing"]
  /\ UNCHANGED <<service, address, client, fileSize, writeSize, tool>>

(* The finally block reports a failure, then closes what was opened.       *)
ReportFailure(d) ==
  /\ talker[d] = "finally"
  /\ IF fileSize[d] # writeSize[d] THEN Broadcast(d, -1) ELSE UNCHANGED told
  /\ talker' = [talker EXCEPT ![d] = "closing"]
  /\ UNCHANGED <<service, address, client, fileSize, writeSize, tool>>

(* Variant: the listening socket stays open.                               *)
CloseSocketsKeepsListener(d) ==
  /\ talker[d] = "closing"
  /\ talker' = [talker EXCEPT ![d] = "ended"]
  /\ UNCHANGED <<service, address, client, fileSize, writeSize, told, tool>>

(* What has connected and was not accepted is cut off with the socket.     *)
CloseSockets(d) ==
  /\ talker[d] = "closing"
  /\ IF address = d
     THEN /\ address' = Nobody
          /\ waiting' = <<>>
          /\ dfu' = [e \in Downloads |->
                       IF dfu[e] = "connected" /\ e \in ToSet(waiting) THEN "mute" ELSE dfu[e]]
     ELSE UNCHANGED <<address, waiting, dfu>>
  /\ talker' = [talker EXCEPT ![d] = "ended"]
  /\ UNCHANGED <<service, client, fileSize, writeSize, told, size, sent, channel>>

Talk(d) ==
  \/ Bind(d) \/ AcceptClient(d) \/ Read(d) \/ ReadZero(d) \/ ReadEnd(d)
  \/ ReportFailure(d) \/ CloseSockets(d)

-----------------------------------------------------------------------------
(* dfu-util.  Without a listener it flashes and reports nothing.           *)

DfuConnect(d) ==
  /\ dfu[d] = "started"
  /\ IF address # Nobody
     THEN /\ dfu' = [dfu EXCEPT ![d] = "connected"]
          /\ waiting' = Append(waiting, d)
          /\ \E n \in Sizes : size' = [size EXCEPT ![d] = n]
     ELSE /\ dfu' = [dfu EXCEPT ![d] = "mute"]
          /\ UNCHANGED <<waiting, size>>
  /\ UNCHANGED <<service, talk, sent, channel>>

(* The size, then 1, 2, ... up to the size.                                *)
DfuSend(d) ==
  /\ dfu[d] = "connected"
  /\ sent[d] <= size[d]
  /\ Len(channel[d]) < MaxInFlight
  /\ channel' = [channel EXCEPT ![d] = Append(@, IF sent[d] = 0 THEN size[d] ELSE sent[d])]
  /\ sent' = [sent EXCEPT ![d] = @ + 1]
  /\ UNCHANGED <<service, talk, dfu, size, waiting>>

DfuExit(d) ==
  /\ Flashes(d)
  /\ dfu' = [dfu EXCEPT ![d] = "exited"]
  /\ UNCHANGED <<service, talk, size, sent, waiting, channel>>

DfuUtil(d) == DfuConnect(d) \/ DfuSend(d) \/ DfuExit(d)

-----------------------------------------------------------------------------
Next ==
  \/ \E d \in Downloads : StartDownLoad(d) \/ Talk(d) \/ DfuUtil(d)
  \/ VrserverDies
  \/ ServiceDies

Spec == Init /\ [][Next]_vars

(* The threads of the service run, and dfu-util ends some day: systemCall  *)
(* has no timeout and waits for it.  Nobody is obliged to call.            *)
FairSpec ==
  /\ Spec
  /\ \A d \in Downloads :
       /\ WF_vars(SetRunning(d) \/ RunDfuUtil(d) \/ SystemCallFails(d) \/ Return(d))
       /\ WF_vars(Talk(d))
       /\ WF_vars(DfuUtil(d))

-----------------------------------------------------------------------------
TypeOK ==
  /\ bRunning \in BOOLEAN
  /\ download \in [Downloads -> {"none", "passed", "refused", "sleeping",
                                 "flashing", "cut", "returned", "aborted"}]
  /\ bothPassed \in BOOLEAN
  /\ orphaned \in BOOLEAN
  /\ talker \in [Downloads -> {"none", "created", "accepting", "reading",
                               "finally", "closing", "ended", "gone"}]
  /\ address \in Downloads \cup {Nobody}
  /\ client \in [Downloads -> Downloads \cup {Nobody}]
  /\ fileSize \in [Downloads -> Nat \cup {-1}]
  /\ writeSize \in [Downloads -> Nat]
  /\ told \in [Downloads -> Seq(-(MaxInt + 1) .. MaxInt)]
  /\ dfu \in [Downloads -> {"none", "started", "connected", "mute", "exited"}]
  /\ size \in [Downloads -> Sizes \cup {0}]
  /\ sent \in [Downloads -> Nat]
  /\ waiting \in Seq(Downloads)
  /\ channel \in [Downloads -> Seq(Nat)]

Active(d) == download[d] \in {"sleeping", "flashing", "cut"}

(* bRunning keeps a second startDownLoad away, also after the process has  *)
(* died and come back, except when two calls were between its test and its *)
(* set at the same time: then one of them also clears the flag of the      *)
(* other.  And so the dfu-utils of two startDownLoads are not run side by  *)
(* side, unless vrserver or the service has died while one was running.    *)
(* It says nothing of a dfu-util that getBoardMode or a client's           *)
(* systemCall starts: they do not look at the flag.                        *)
OneAtATime ==
  ~bothPassed =>
    /\ \A d, e \in Downloads : Active(d) /\ Active(e) => d = e
    /\ bRunning <=> \E d \in Downloads : Active(d)
    /\ \A d \in Downloads : download[d] = "passed" => ~bRunning
    /\ ~orphaned => \A d, e \in Downloads : Flashes(d) /\ Flashes(e) => d = e

(* The address belongs to the talker that bound it until its finally block *)
(* has closed the socket: a dfu-util that connects finds a live listener.  *)
AddressHeld ==
  /\ \A d \in Downloads : talker[d] \in {"accepting", "reading"} => address = d
  /\ address # Nobody => talker[address] \in {"accepting", "reading", "finally", "closing"}
  /\ waiting # <<>> => address # Nobody

(* What dfu-util e told the talker it wrote, as of its last message.       *)
Finished(e) == sent[e] = size[e] + 1

(* The outcome the callbacks are left with, when the talker had a          *)
(* connection, is that of the dfu-util at the other end: -1 exactly when   *)
(* it ended early, and otherwise the last percentage.                      *)
OutcomeTold ==
  \A d \in Downloads :
    talker[d] \in {"closing", "ended"} /\ client[d] # Nobody =>
      /\ told[d] # <<>>
      /\ Finished(client[d]) => Last(told[d]) = Progress(size[client[d]], size[client[d]])
      /\ ~Finished(client[d]) => Last(told[d]) = -1

(* As long as 100 times the size of the file fits an int, what is          *)
(* broadcast is a percentage, and never less than the one before, until a  *)
(* failure is reported.                                                    *)
PercentGrows ==
  \A d \in Downloads :
    (client[d] # Nobody /\ size[client[d]] * 100 <= MaxInt) =>
      \A i \in DOMAIN told[d] :
        \/ told[d][i] \in 0 .. 100 /\ \A j \in 1 .. i - 1 : told[d][j] <= told[d][i]
        \/ told[d][i] = -1 /\ i = Len(told[d])

(* Every startDownLoad that was let in returns in the end.                 *)
DownloadReturns ==
  \A d \in Downloads : download[d] = "passed" ~> download[d] \in {"returned", "aborted"}

(* A talker that has a dfu-util at the other end gives the address back.   *)
AddressReleased ==
  \A d \in Downloads : (address = d /\ talker[d] # "accepting") ~> address # d

(* The message "dfutil error, dfu-util quit!": a failure is reported when  *)
(* the dfu-util of this download has ended, at least while no two calls    *)
(* passed the test of bRunning together.                                   *)
FailureMeansQuit ==
  ~bothPassed => \A d \in Downloads : -1 \in ToSet(told[d]) => dfu[d] = "exited"
=============================================================================
