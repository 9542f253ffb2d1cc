------------------------ MODULE VRAdminMonitorProofs ------------------------
(***************************************************************************)
(* Proofs about the client count of VRAdminService, for any number of      *)
(* clients and registrations.                                              *)
(***************************************************************************)
EXTENDS VRAdminMonitor, FiniteSetTheorems, TLAPS

LEMMA InitTypeOK == Init => TypeOK
<1>. SUFFICES ASSUME Init
              PROVE  TypeOK
  OBVIOUS
<1>1. /\ alive \in [Clients -> BOOLEAN]
      /\ obitSent \in [Clients -> BOOLEAN]
      /\ call \in [Clients -> {"none", "register", "enter", "enterNode", "leave", "leaveNode"}]
  BY DEF Init
<1>2. /\ phase \in [Monitors -> {"new", "counting", "linking", "linked", "unlinked",
                                 "dying", "testing", "restoring", "restoringNode", "done", "lost"}]
      /\ seen \in [Monitors -> Int]
      /\ mCbs \subseteq Monitors
  BY DEF Init
<1>3. /\ mClientCount \in Int
      /\ gralloc \in {"0", "1"}
      /\ autorefresh \in {"0", "1"}
  BY DEF Init
<1>4. overlapped \in BOOLEAN /\ restoreFailed \in BOOLEAN
  BY DEF Init
<1>. QED
  BY <1>1, <1>2, <1>3, <1>4 DEF TypeOK

LEMMA NextTypeOK == TypeOK /\ [Next]_vars => TypeOK'
<1>. SUFFICES ASSUME TypeOK, [Next]_vars
              PROVE  TypeOK'
  OBVIOUS
<1>. USE MonitorAssumption DEF TypeOK, settings, counting
<1>1. ASSUME NEW m \in Monitors, RegisterMonitor(m)
      PROVE  TypeOK'
  BY <1>1 DEF RegisterMonitor, ReadCount
<1>2. ASSUME NEW m \in Monitors, Registration(m)
      PROVE  TypeOK'
  BY <1>2 DEF Registration, CountUp, LinkToDeath
<1>3. ASSUME NEW m \in Monitors, BinderDied(m)
      PROVE  TypeOK'
  BY <1>3 DEF BinderDied, ReadCount
<1>4. ASSUME NEW m \in Monitors, CountDown(m) \/ TestZero(m)
      PROVE  TypeOK'
  BY <1>4 DEF CountDown, TestZero
<1>5. ASSUME NEW m \in Monitors, RestoreProperty(m) \/ RestoreNode(m)
      PROVE  TypeOK'
  BY <1>5 DEF RestoreProperty, RestoreNode, SetProperty, SetSystemNode
<1>6. ASSUME NEW c \in Clients, ClientStep(c)
      PROVE  TypeOK'
  BY <1>6 DEF ClientStep, Kill, Activity, ClientSetSystemNode, SetSystemNode
<1>7. ASSUME NEW c \in Clients, SendObituary(c) \/ ActivityCall(c)
      PROVE  TypeOK'
  BY <1>7 DEF SendObituary, ActivityCall, ActivityProperty, ActivityNode,
             SetProperty, SetSystemNode
<1>8. CASE ServiceDies
  <2>1. /\ \A m \in Monitors : (IF phase[m] = "new" THEN "new" ELSE "lost") \in {"new", "lost"}
        /\ obitSent' = [c \in Clients |-> FALSE]
        /\ call' = [c \in Clients |-> "none"]
        /\ phase' = [m \in Monitors |-> IF phase[m] = "new" THEN "new" ELSE "lost"]
        /\ seen' = [m \in Monitors |-> 0]
    BY <1>8 DEF ServiceDies
  <2>2. /\ obitSent' \in [Clients -> BOOLEAN]
        /\ call' \in [Clients -> {"none"}]
    BY <2>1
  <2>3. phase' \in [Monitors -> {"new", "lost"}] /\ seen' \in [Monitors -> Int]
    BY <2>1
  <2>4. mClientCount' = 0 /\ mCbs' = {} /\ UNCHANGED <<alive, gralloc, autorefresh, restoreFailed>>
    BY <1>8 DEF ServiceDies
  <2>5. overlapped' \in BOOLEAN
    BY <1>8, Zenon DEF ServiceDies
  <2>. QED
    BY <2>2, <2>3, <2>4, <2>5
<1>9. CASE UNCHANGED vars
  BY <1>9 DEF vars
<1>. QED
  BY <1>1, <1>2, <1>3, <1>4, <1>5, <1>6, <1>7, <1>8, <1>9 DEF Next, DeathHandler

(* The type invariant, whatever the callbacks and the clients do.          *)
THEOREM TypeCorrect == Spec => []TypeOK
  BY InitTypeOK, NextTypeOK, PTL DEF Spec

-----------------------------------------------------------------------------
(* mCbs stays finite: it holds calls of registerMonitor.                   *)
LEMMA ListFinite ==
  ASSUME TypeOK
  PROVE  IsFiniteSet(mCbs) /\ Cardinality(mCbs) \in Nat
  BY MonitorAssumption, FS_Subset, FS_CardinalityType DEF TypeOK

LEMMA InitCountExact == Init => CountExact
  BY FS_EmptySet DEF Init, CountExact, ListMatchesPhase, Updating

(* Steps that neither count nor move a registration in or out of the list. *)
LEMMA CountUntouched ==
  ASSUME TypeOK, CountExact,
         UNCHANGED <<mCbs, mClientCount, seen, overlapped>>,
         NEW M \in SUBSET Monitors,
         \A n \in M :
           \/ /\ phase[n] \in {"linking", "linked", "unlinked"}
              /\ phase'[n] \in {"linking", "linked", "unlinked"}
           \/ /\ phase[n] \in {"testing", "restoring", "restoringNode", "done"}
              /\ phase'[n] \in {"testing", "restoring", "restoringNode", "done"},
         \A n \in Monitors \ M : phase'[n] = phase[n]
  PROVE  CountExact'
<1>1. \A n \in Monitors : Updating(n)' <=> Updating(n)
  BY DEF Updating
<1>2. \A n \in Monitors : phase'[n] = "dying" <=> phase[n] = "dying"
  OBVIOUS
<1>3. ListMatchesPhase'
  BY DEF CountExact, ListMatchesPhase
<1>. QED
  BY <1>1, <1>2, <1>3 DEF CountExact

LEMMA NextCountExact == TypeOK /\ CountExact /\ [Next]_vars => CountExact'
<1>. SUFFICES ASSUME TypeOK, CountExact, [Next]_vars
              PROVE  CountExact'
  OBVIOUS
<1>1. ASSUME NEW m \in Monitors, RegisterMonitor(m)
      PROVE  CountExact'
  <2>1. /\ phase[m] = "new"
        /\ phase' = [phase EXCEPT ![m] = "counting"]
        /\ seen' = [seen EXCEPT ![m] = mClientCount]
        /\ overlapped' = (overlapped \/ \E n \in Monitors : Updating(n))
        /\ UNCHANGED <<mClientCount, mCbs>>
    BY <1>1 DEF RegisterMonitor, ReadCount
  <2>2. ListMatchesPhase'
    BY <2>1 DEF TypeOK, CountExact, ListMatchesPhase
  <2>3. ASSUME ~overlapped'
        PROVE  /\ ~overlapped
               /\ \A n \in Monitors : ~Updating(n)
               /\ \A n \in Monitors : Updating(n)' <=> n = m
               /\ \A n \in Monitors : phase[n] # "dying" /\ phase'[n] # "dying"
    BY <2>1, <2>3 DEF TypeOK, Updating
  <2>. QED
    BY <2>1, <2>2, <2>3 DEF TypeOK, CountExact
<1>2. ASSUME NEW m \in Monitors, CountUp(m)
      PROVE  CountExact'
  <2>1. /\ phase[m] = "counting"
        /\ phase' = [phase EXCEPT ![m] = "linking"]
        /\ mClientCount' = seen[m] + 1
        /\ mCbs' = mCbs \cup {m}
        /\ UNCHANGED overlapped
    BY <1>2 DEF CountUp
  <2>2. ListMatchesPhase'
    BY <2>1 DEF TypeOK, CountExact, ListMatchesPhase
  <2>3. m \notin mCbs
    BY <2>1 DEF CountExact, ListMatchesPhase
  <2>4. Cardinality(mCbs') = Cardinality(mCbs) + 1
    BY <2>1, <2>3, ListFinite, FS_AddElement
  <2>5. ASSUME ~overlapped
        PROVE  /\ seen[m] = Cardinality(mCbs)
               /\ \A n \in Monitors : ~Updating(n)'
               /\ \A n \in Monitors : phase'[n] # "dying"
    <3>1. \A n \in Monitors : Updating(n) => n = m
      BY <2>1, <2>5 DEF CountExact, Updating
    <3>2. \A n \in Monitors : phase[n] # "dying"
      BY <2>1, <3>1 DEF Updating
    <3>3. seen[m] = mClientCount /\ mClientCount = Cardinality(mCbs) + 0
      BY <2>1, <2>5, <3>2 DEF CountExact, Updating
    <3>. QED
      BY <2>1, <3>1, <3>2, <3>3, ListFinite DEF TypeOK, Updating
  <2>. QED
    BY <2>1, <2>2, <2>4, <2>5, ListFinite DEF CountExact
<1>3. ASSUME NEW m \in Monitors, LinkToDeath(m)
      PROVE  CountExact'
  <2>1. /\ phase[m] = "linking"
        /\ phase'[m] \in {"linked", "unlinked"}
        /\ \A n \in Monitors \ {m} : phase'[n] = phase[n]
        /\ UNCHANGED <<mCbs, mClientCount, seen, overlapped>>
    BY <1>3 DEF LinkToDeath, TypeOK, counting
  <2>. QED
    BY <2>1, CountUntouched
<1>4. ASSUME NEW m \in Monitors, BinderDied(m)
      PROVE  CountExact'
  <2>1. /\ phase[m] = "linked"
        /\ phase' = [phase EXCEPT ![m] = "dying"]
        /\ mCbs' = mCbs \ {m}
        /\ seen' = [seen EXCEPT ![m] = mClientCount]
        /\ overlapped' = (overlapped \/ \E n \in Monitors : Updating(n))
        /\ UNCHANGED mClientCount
    BY <1>4 DEF BinderDied, ReadCount
  <2>2. ListMatchesPhase'
    BY <2>1 DEF TypeOK, CountExact, ListMatchesPhase
  <2>3. m \in mCbs
    BY <2>1 DEF CountExact, ListMatchesPhase
  <2>4. Cardinality(mCbs') = Cardinality(mCbs) - 1
    BY <2>1, <2>3, ListFinite, FS_RemoveElement
  <2>5. ASSUME ~overlapped'
        PROVE  /\ mClientCount = Cardinality(mCbs)
               /\ \A n \in Monitors : Updating(n)' <=> n = m
               /\ phase'[m] = "dying"
    <3>1. ~overlapped /\ \A n \in Monitors : ~Updating(n)
      BY <2>1, <2>5
    <3>2. \A n \in Monitors : phase[n] # "dying"
      BY <3>1 DEF Updating
    <3>3. mClientCount = Cardinality(mCbs) + 0
      BY <3>1, <3>2 DEF CountExact
    <3>. QED
      BY <2>1, <3>1, <3>3, ListFinite DEF TypeOK, Updating
  <2>6. ASSUME ~overlapped'
        PROVE  seen'[m] = mClientCount'
    BY <2>1 DEF TypeOK
  <2>. QED
    BY <2>1, <2>2, <2>4, <2>5, <2>6, ListFinite DEF CountExact
<1>5. ASSUME NEW m \in Monitors, CountDown(m)
      PROVE  CountExact'
  <2>1. /\ phase[m] = "dying"
        /\ phase' = [phase EXCEPT ![m] = "testing"]
        /\ mClientCount' = seen[m] - 1
        /\ UNCHANGED <<mCbs, overlapped>>
    BY <1>5 DEF CountDown
  <2>2. ListMatchesPhase'
    BY <2>1 DEF TypeOK, CountExact, ListMatchesPhase
  <2>3. ASSUME ~overlapped
        PROVE  /\ seen[m] = Cardinality(mCbs) + 1
               /\ \A n \in Monitors : ~Updating(n)'
               /\ \A n \in Monitors : phase'[n] # "dying"
    <3>1. \A n \in Monitors : Updating(n) => n = m
      BY <2>1, <2>3 DEF CountExact, Updating
    <3>2. seen[m] = mClientCount /\ mClientCount = Cardinality(mCbs) + 1
      BY <2>1, <2>3 DEF CountExact, Updating
    <3>. QED
      BY <2>1, <3>1, <3>2 DEF TypeOK, Updating
  <2>. QED
    BY <2>1, <2>2, <2>3, ListFinite DEF CountExact
<1>6. ASSUME NEW m \in Monitors,
             TestZero(m) \/ RestoreProperty(m) \/ RestoreNode(m)
      PROVE  CountExact'
  <2>1. /\ phase[m] \in {"testing", "restoring", "restoringNode"}
        /\ phase'[m] \in {"restoring", "restoringNode", "done"}
        /\ \A n \in Monitors \ {m} : phase'[n] = phase[n]
        /\ UNCHANGED <<mCbs, mClientCount, seen, overlapped>>
    BY <1>6 DEF TestZero, RestoreProperty, RestoreNode, TypeOK, counting
  <2>2. \A n \in {m} :
          /\ phase[n] \in {"testing", "restoring", "restoringNode", "done"}
          /\ phase'[n] \in {"testing", "restoring", "restoringNode", "done"}
    BY <2>1
  <2>3. {m} \in SUBSET Monitors
    OBVIOUS
  <2>. QED
    BY <2>1, <2>2, <2>3, CountUntouched
<1>7. ASSUME NEW c \in Clients, ClientStep(c) \/ SendObituary(c) \/ ActivityCall(c)
      PROVE  CountExact'
  <2>1. UNCHANGED <<phase, mCbs, mClientCount, seen, overlapped>>
    BY <1>7 DEF ClientStep, Kill, Activity, ClientSetSystemNode, SendObituary,
                ActivityCall, ActivityProperty, ActivityNode, counting
  <2>. QED
    BY <2>1 DEF CountExact, ListMatchesPhase, Updating
<1>8. CASE ServiceDies
  <2>1. /\ \A m \in Monitors : phase'[m] \in {"new", "lost"}
        /\ mCbs' = {} /\ mClientCount' = 0
    BY <1>8 DEF ServiceDies
  <2>2. ListMatchesPhase' /\ \A m \in Monitors : ~Updating(m)'
    BY <2>1 DEF ListMatchesPhase, Updating
  <2>. QED
    BY <2>1, <2>2, FS_EmptySet DEF CountExact
<1>9. CASE UNCHANGED vars
  BY <1>9 DEF vars, counting, CountExact, ListMatchesPhase, Updating
<1>. QED
  BY <1>1, <1>2, <1>3, <1>4, <1>5, <1>6, <1>7, <1>8, <1>9
     DEF Next, Registration, DeathHandler

(* mClientCount of VRAdminService is right as long as no two updates of it *)
(* overlapped: the missing lock in binderDied is the only way to lose one. *)
THEOREM CountRight == Spec => []CountExact
<1>1. Init => TypeOK /\ CountExact
  BY InitTypeOK, InitCountExact
<1>2. TypeOK /\ CountExact /\ [Next]_vars => (TypeOK /\ CountExact)'
  BY NextTypeOK, NextCountExact
<1>. QED
  BY <1>1, <1>2, PTL DEF Spec

(* binderDied restores the settings only when no monitor is registered,    *)
(* unless two updates of mClientCount overlapped before.                   *)
THEOREM RestoredOnlyForNobody == Spec => RestoreOnlyWhenNobody
<1>. DEFINE Decides ==
              \A m \in Monitors :
                phase[m] = "testing" /\ phase'[m] = "restoring" /\ ~overlapped => mCbs = {}
<1>1. TypeOK /\ CountExact /\ [Next]_vars => [Decides]_vars
  <2>. SUFFICES ASSUME TypeOK, CountExact, [Next]_vars,
                       NEW m \in Monitors,
                       phase[m] = "testing", phase'[m] = "restoring", ~overlapped
                PROVE  mCbs = {}
    OBVIOUS
  <2>1. mClientCount = 0
    <3>1. ASSUME NEW n \in Monitors, n # m,
                 RegisterMonitor(n) \/ Registration(n) \/ DeathHandler(n)
          PROVE  phase'[m] = phase[m]
      BY <3>1 DEF RegisterMonitor, Registration, DeathHandler, CountUp, LinkToDeath,
                  BinderDied, CountDown, TestZero, RestoreProperty, RestoreNode, TypeOK
    <3>2. ASSUME NEW c \in Clients, ClientStep(c) \/ SendObituary(c) \/ ActivityCall(c)
          PROVE  phase'[m] = phase[m]
      BY <3>2 DEF ClientStep, Kill, Activity, ClientSetSystemNode, SendObituary,
                  ActivityCall, ActivityProperty, ActivityNode
    <3>3. CASE UNCHANGED vars
      BY <3>3 DEF vars
    <3>4. CASE RegisterMonitor(m) \/ Registration(m) \/ DeathHandler(m)
      BY <3>4 DEF RegisterMonitor, Registration, DeathHandler, CountUp, LinkToDeath,
                  BinderDied, CountDown, TestZero, RestoreProperty, RestoreNode, TypeOK,
                  Zero
    <3>5. CASE ServiceDies
      BY <3>5 DEF ServiceDies
    <3>. QED
      BY <3>1, <3>2, <3>3, <3>4, <3>5 DEF Next
  <2>2. Cardinality(mCbs) = 0
    <3>1. CASE \E n \in Monitors : phase[n] = "dying"
      BY <2>1, <3>1, ListFinite DEF CountExact
    <3>2. CASE ~ \E n \in Monitors : phase[n] = "dying"
      BY <2>1, <3>2, ListFinite DEF CountExact
    <3>. QED
      BY <3>1, <3>2
  <2>. QED
    BY <2>2, ListFinite, FS_EmptySet
<1>. QED
  BY <1>1, TypeCorrect, CountRight, PTL DEF Spec, RestoreOnlyWhenNobody
=============================================================================
