--------------------------- MODULE VRAdminMonitor ---------------------------
(***************************************************************************)
(* VRAdminService's care for the display settings of the VR applications:  *)
(* activityEnter and activityLeave write them, and the death of the last   *)
(* client that registered a monitor restores them.  The calls and the      *)
(* binderDied callbacks run on the binder threads of the service, in any   *)
(* number at once; registerMonitor is synchronized, binderDied is not.     *)
(*                                                                         *)
(* Abstractions.                                                           *)
(*  - A member of Monitors is one call of registerMonitor.  Every call     *)
(*    gets a fresh Stub.Proxy, which has no equals: mCbs.contains is       *)
(*    false for a remote monitor, and two calls with the same monitor are  *)
(*    two members with the same Owner.                                     *)
(*  - mCbs is a set.  Two threads inside the ArrayList at once are not     *)
(*    modelled.                                                            *)
(*  - The two settings are one property and one sysfs node; a value is     *)
(*    "0" or "1".  A call into vrserver fails for any reason there is: it  *)
(*    is down, dies in the call, has the property refused or cannot open   *)
(*    or write the node.  Whether it took effect is all that matters here, *)
(*    for nobody looks at its result.                                      *)
(***************************************************************************)
EXTENDS Integers, FiniteSets

CONSTANTS
  Clients,        \* processes of VR applications, one monitor binder each
  Monitors,       \* the calls of registerMonitor they may make
  Owner,          \* Owner[m]: the client whose binder m carries
  RegisterFirst,  \* the clients register before they enter VR
  CallsMayFail,   \* a call of the service into vrserver may have no effect
  ServiceMayDie   \* the process of the service may die and come back

ASSUME MonitorAssumption ==
  /\ IsFiniteSet(Monitors)
  /\ Owner \in [Monitors -> Clients]
  /\ RegisterFirst \in BOOLEAN
  /\ CallsMayFail \in BOOLEAN
  /\ ServiceMayDie \in BOOLEAN

VARIABLES
  alive,         \* alive[c]: the client process runs
  obitSent,      \* obitSent[c]: the obituary of c's binder was taken up
  call,          \* call[c]: what the service is doing for c's thread
  phase,         \* phase[m]: how far the registration, then its binderDied, is
  seen,          \* seen[m]: mClientCount as the ++ or -- under way for m read it
  mClientCount,
  mCbs,
  gralloc,       \* the property vr.gralloc.gfx_ubwc_disable
  autorefresh,   \* the node msm_cmd_autorefresh_en of fb0
  overlapped,    \* history: two updates of mClientCount were in progress at once
  restoreFailed  \* history: the last restore of the property had no effect

settings == <<gralloc, autorefresh, restoreFailed>>
counting == <<seen, mClientCount, mCbs, overlapped>>
vars == <<alive, obitSent, call, phase, counting, settings>>

Init ==
  /\ alive = [c \in Clients |-> TRUE]
  /\ obitSent = [c \in Clients |-> FALSE]
  /\ call = [c \in Clients |-> "none"]
  /\ phase = [m \in Monitors |-> "new"]
  /\ seen = [m \in Monitors |-> 0]
  /\ mClientCount = 0
  /\ mCbs = {}
  /\ gralloc = "0"
  /\ autorefresh = "0"
  /\ overlapped = FALSE
  /\ restoreFailed = FALSE

-----------------------------------------------------------------------------
(* The two calls into vrserver.  Both hand a status back that no caller    *)
(* here looks at.                                                          *)

SetProperty(value, done) ==
  /\ done \/ CallsMayFail
  /\ gralloc' = IF done THEN value ELSE gralloc

(* VRNativeService::setSystemNode refuses a path that is not in the white  *)
(* list.  Both names reach the node, one of them is in the list.           *)

MSM_CMD_AUTOREFRESH == "/sys/class/graphics/fb0/msm_cmd_autorefresh_en"

AutorefreshPaths ==
  {MSM_CMD_AUTOREFRESH, "/sys/devices/virtual/graphics/fb0/msm_cmd_autorefresh_en"}

CheckAccessNodePerm(path) ==
  path = "/sys/devices/virtual/graphics/fb0/msm_cmd_autorefresh_en"

SetSystemNode(path, value) ==
  \/ CheckAccessNodePerm(path) /\ autorefresh' = value
  \/ (~CheckAccessNodePerm(path) \/ CallsMayFail) /\ UNCHANGED autorefresh

-----------------------------------------------------------------------------
(* registerMonitor.                                                        *)

Registering(m) == phase[m] \in {"counting", "linking"}

(* m's update of mClientCount has been read and not written.               *)
Updating(m) == phase[m] \in {"counting", "dying"}

ReadCount(m) ==
  /\ seen' = [seen EXCEPT ![m] = mClientCount]
  /\ overlapped' = (overlapped \/ \E n \in Monitors : Updating(n))

(* The lock is taken, mClientCount++ has read.                             *)
RegisterMonitor(m) ==
  /\ alive[Owner[m]]
  /\ call[Owner[m]] = "none"
  /\ phase[m] = "new"
  /\ \A n \in Monitors : ~Registering(n)
  /\ call' = [call EXCEPT ![Owner[m]] = "register"]
  /\ phase' = [phase EXCEPT ![m] = "counting"]
  /\ ReadCount(m)
  /\ UNCHANGED <<alive, obitSent, mClientCount, mCbs, settings>>

CountUp(m) ==
  /\ phase[m] = "counting"
  /\ mClientCount' = seen[m] + 1
  /\ mCbs' = mCbs \cup {m}
  /\ seen' = [seen EXCEPT ![m] = 0]
  /\ phase' = [phase EXCEPT ![m] = "linking"]
  /\ UNCHANGED <<alive, obitSent, call, overlapped, settings>>

(* linkToDeath throws when the obituary of this binder is out already.     *)
(* The call then ends with mClientCount and mCbs as they are.              *)
LinkToDeath(m) ==
  /\ phase[m] = "linking"
  /\ phase' = [phase EXCEPT ![m] = IF obitSent[Owner[m]] THEN "unlinked" ELSE "linked"]
  /\ call' = [call EXCEPT ![Owner[m]] = "none"]
  /\ UNCHANGED <<alive, obitSent, counting, settings>>

-----------------------------------------------------------------------------
(* The clients: they die at any moment, also while a call of theirs runs   *)
(* in the service.                                                         *)

Kill(c) ==
  /\ alive[c]
  /\ alive' = [alive EXCEPT ![c] = FALSE]
  /\ UNCHANGED <<obitSent, call, phase, counting, settings>>

(* BpBinder::sendObituary: a binder thread takes up the death of a binder  *)
(* that somebody linked to, and then calls its recipients one by one.      *)
SendObituary(c) ==
  /\ ~alive[c]
  /\ ~obitSent[c]
  /\ \E m \in Monitors : Owner[m] = c /\ phase[m] = "linked"
  /\ obitSent' = [obitSent EXCEPT ![c] = TRUE]
  /\ UNCHANGED <<alive, call, phase, counting, settings>>

-----------------------------------------------------------------------------
(* binderDied, not synchronized with anything.                             *)

InBinderDied(m) == phase[m] \in {"dying", "testing", "restoring", "restoringNode"}

(* mCbs.remove, and mClientCount-- has read.                               *)
BinderDied(m) ==
  /\ phase[m] = "linked"
  /\ obitSent[Owner[m]]
  /\ \A n \in Monitors : Owner[n] = Owner[m] => ~InBinderDied(n)
  /\ phase' = [phase EXCEPT ![m] = "dying"]
  /\ mCbs' = mCbs \ {m}
  /\ ReadCount(m)
  /\ UNCHANGED <<alive, obitSent, call, mClientCount, settings>>

(* Variant: the count stays.                                               *)
CountDownMissing(m) ==
  /\ phase[m] = "dying"
  /\ phase' = [phase EXCEPT ![m] = "testing"]
  /\ UNCHANGED <<alive, obitSent, call, counting, settings>>

CountDown(m) ==
  /\ phase[m] = "dying"
  /\ mClientCount' = seen[m] - 1
  /\ seen' = [seen EXCEPT ![m] = 0]
  /\ phase' = [phase EXCEPT ![m] = "testing"]
  /\ UNCHANGED <<alive, obitSent, call, mCbs, overlapped, settings>>

(* Variants: the test off by one; the test on the count before the         *)
(* decrement; waiting for the count to become 0.                           *)
ZeroAfterOne(m) == mClientCount <= 1

ZeroBefore(m) == mClientCount + 1 = 0

TestZeroWaits(m) ==
  /\ phase[m] = "testing"
  /\ mClientCount = 0
  /\ phase' = [phase EXCEPT ![m] = "restoring"]
  /\ UNCHANGED <<alive, obitSent, call, counting, settings>>

Zero(m) == mClientCount = 0

(* "if (0 == mClientCount)" reads the field again.                         *)
TestZero(m) ==
  /\ phase[m] = "testing"
  /\ phase' = [phase EXCEPT ![m] = IF Zero(m) THEN "restoring" ELSE "done"]
  /\ UNCHANGED <<alive, obitSent, call, counting, settings>>

(* Variant: the property is cleared.                                       *)
RestorePropertyEmpty(m) ==
  /\ phase[m] = "restoring"
  /\ gralloc' = ""
  /\ restoreFailed' = FALSE
  /\ phase' = [phase EXCEPT ![m] = "restoringNode"]
  /\ UNCHANGED <<alive, obitSent, call, counting, autorefresh>>

RestoreProperty(m) ==
  /\ phase[m] = "restoring"
  /\ \E done \in BOOLEAN : SetProperty("0", done) /\ restoreFailed' = ~done
  /\ phase' = [phase EXCEPT ![m] = "restoringNode"]
  /\ UNCHANGED <<alive, obitSent, call, counting, autorefresh>>

RestoreNode(m) ==
  /\ phase[m] = "restoringNode"
  /\ SetSystemNode(MSM_CMD_AUTOREFRESH, "0")
  /\ phase' = [phase EXCEPT ![m] = "done"]
  /\ UNCHANGED <<alive, obitSent, call, counting, gralloc, restoreFailed>>

-----------------------------------------------------------------------------
(* activityEnter and activityLeave: two calls into vrserver each.  Nothing *)
(* ties them to a registration.                                            *)

Activity(c, which) ==
  /\ alive[c]
  /\ call[c] = "none"
  /\ RegisterFirst => \E m \in Monitors : Owner[m] = c /\ phase[m] = "linked"
  /\ call' = [call EXCEPT ![c] = which]
  /\ UNCHANGED <<alive, obitSent, phase, counting, settings>>

ActivityProperty(c) ==
  /\ call[c] \in {"enter", "leave"}
  /\ \E done \in BOOLEAN : SetProperty(IF call[c] = "enter" THEN "1" ELSE "0", done)
  /\ call' = [call EXCEPT ![c] = IF call[c] = "enter" THEN "enterNode" ELSE "leaveNode"]
  /\ UNCHANGED <<alive, obitSent, phase, counting, autorefresh, restoreFailed>>

ActivityNode(c) ==
  /\ call[c] \in {"enterNode", "leaveNode"}
  /\ SetSystemNode(MSM_CMD_AUTOREFRESH, IF call[c] = "enterNode" THEN "1" ELSE "0")
  /\ call' = [call EXCEPT ![c] = "none"]
  /\ UNCHANGED <<alive, obitSent, phase, counting, gralloc, restoreFailed>>

(* setSystemNode of IVRAdminService hands any path on.                     *)
ClientSetSystemNode(c, path, value) ==
  /\ alive[c]
  /\ call[c] = "none"
  /\ RegisterFirst => \E m \in Monitors : Owner[m] = c /\ phase[m] = "linked"
  /\ SetSystemNode(path, value)
  /\ UNCHANGED <<alive, obitSent, call, phase, counting, gralloc, restoreFailed>>

-----------------------------------------------------------------------------
(* The process of the service dies and comes back with fields of its own:  *)
(* the registrations, the obituaries and the calls in it are lost, and     *)
(* the settings stay.  No client hears of it.                              *)
ServiceDies ==
  /\ ServiceMayDie
  /\ obitSent' = [c \in Clients |-> FALSE]
  /\ call' = [c \in Clients |-> "none"]
  /\ phase' = [m \in Monitors |-> IF phase[m] = "new" THEN "new" ELSE "lost"]
  /\ seen' = [m \in Monitors |-> 0]
  /\ mClientCount' = 0
  /\ mCbs' = {}
  /\ overlapped' = FALSE
  /\ UNCHANGED <<alive, settings>>

-----------------------------------------------------------------------------
Registration(m) == CountUp(m) \/ LinkToDeath(m)

DeathHandler(m) ==
  BinderDied(m) \/ CountDown(m) \/ TestZero(m) \/ RestoreProperty(m) \/ RestoreNode(m)

ActivityCall(c) == ActivityProperty(c) \/ ActivityNode(c)

ClientStep(c) ==
  \/ Kill(c)
  \/ \E which \in {"enter", "leave"} : Activity(c, which)
  \/ \E path \in AutorefreshPaths, value \in {"0", "1"} :
       ClientSetSystemNode(c, path, value)

Next ==
  \/ \E m \in Monitors : RegisterMonitor(m) \/ Registration(m) \/ DeathHandler(m)
  \/ \E c \in Clients : ClientStep(c) \/ SendObituary(c) \/ ActivityCall(c)
  \/ ServiceDies

Spec == Init /\ [][Next]_vars

(* A call that is in the service, and an obituary, get a thread of the     *)
(* binder pool.  Clients are free.                                         *)
FairSpec ==
  /\ Spec
  /\ \A m \in Monitors : WF_vars(Registration(m)) /\ WF_vars(DeathHandler(m))
  /\ \A c \in Clients : WF_vars(SendObituary(c)) /\ WF_vars(ActivityCall(c))

-----------------------------------------------------------------------------
TypeOK ==
  /\ alive \in [Clients -> BOOLEAN]
  /\ obitSent \in [Clients -> BOOLEAN]
  /\ call \in [Clients -> {"none", "register", "enter", "enterNode", "leave", "leaveNode"}]
  /\ phase \in [Monitors -> {"new", "counting", "linking", "linked", "unlinked",
                             "dying", "testing", "restoring", "restoringNode", "done", "lost"}]
  /\ seen \in [Monitors -> Int]
  /\ mClientCount \in Int
  /\ mCbs \subseteq Monitors
  /\ gralloc \in {"0", "1"}
  /\ autorefresh \in {"0", "1"}
  /\ overlapped \in BOOLEAN
  /\ restoreFailed \in BOOLEAN

(* The list holds exactly the registrations that were counted and whose    *)
(* binderDied has not begun.                                               *)
ListMatchesPhase ==
  \A m \in Monitors : m \in mCbs <=> phase[m] \in {"linking", "linked", "unlinked"}

(* As long as no ++ or -- of mClientCount overlapped another, mClientCount *)
(* is the number of monitors in mCbs, and one more while a binderDied has  *)
(* removed its monitor and not yet counted down.  The lock of              *)
(* registerMonitor does not cover binderDied, so overlap is the only way   *)
(* to a wrong count.                                                       *)
CountExact ==
  /\ ListMatchesPhase
  /\ ~overlapped =>
       /\ \A m, n \in Monitors : Updating(m) /\ Updating(n) => m = n
       /\ \A m \in Monitors : Updating(m) => seen[m] = mClientCount
       /\ mClientCount = Cardinality(mCbs) +
                         (IF \E m \in Monitors : phase[m] = "dying" THEN 1 ELSE 0)

(* While no update overlapped, binderDied decides to restore the settings  *)
(* only when no monitor is left: a client that still has one keeps them.   *)
RestoreOnlyWhenNobody ==
  [][\A m \in Monitors :
       phase[m] = "testing" /\ phase'[m] = "restoring" /\ ~overlapped => mCbs = {}]_vars

(* A registration stays in mCbs after the death of its client only because *)
(* linkToDeath threw: every linked one gets its binderDied, and forgets,   *)
(* unless it was lost with the process of the service.                     *)
DeadForgotten ==
  \A m \in Monitors :
    (phase[m] = "linked" /\ ~alive[Owner[m]]) ~> phase[m] \in {"done", "lost"}

AllGone == \A c \in Clients : ~alive[c] /\ call[c] = "none"

(* The last death restores the property, also one that a failed            *)
(* activityLeave left at "1": when every client is gone and none of their  *)
(* calls is left in the service, the binderDied calls still to come end    *)
(* with "0", unless an update overlapped, a link failed, the service died  *)
(* and lost a registration, or the one setProperty of the restore failed,  *)
(* which the code does not notice and never repeats.                       *)
RestoredInTheEnd ==
  (AllGone /\ mCbs # {})
    ~> \/ gralloc = "0"
       \/ overlapped
       \/ \E m \in Monitors : phase[m] \in {"unlinked", "lost"}
       \/ restoreFailed

(* "restore status" in binderDied: with every client gone and nothing left *)
(* running in the service, the settings are what they were.                *)
AllQuiet ==
  /\ AllGone
  /\ \A m \in Monitors : phase[m] \in {"new", "unlinked", "done", "lost"}

GrallocRestored == AllQuiet => gralloc = "0"

AutorefreshRestored == AllQuiet => autorefresh = "0"

(* The condition of that "restore status", "0 == mClientCount", holds once *)
(* the last monitor is gone from the list and every binderDied has run.    *)
NobodyLeftMeansZero == AllQuiet /\ mCbs = {} => mClientCount = 0
=============================================================================
