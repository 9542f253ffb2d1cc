---------------------------- MODULE HmdWakeProofs ----------------------------
(***************************************************************************)
(* Proofs about the wake lock, for any number of broadcasts on their way:  *)
(* once the events of the sensor have come through, it is held exactly     *)
(* while the head set is worn.                                             *)
(***************************************************************************)
EXTENDS HmdWake, TLAPS

(* Whoever registered the sensor allowed the lock to be held, in the life  *)
(* of the process that is.                                                 *)
HoldAllowed ==
  /\ isListening => mHoldWakeLock
  /\ mHoldWakeLock => processUp

Event(i) == broadcasts[i] \in {"near", "far"}

(* What the service was told since it listens is on its way, and no event  *)
(* of the sensor behind it: broadcasts of an earlier life come first.      *)
LastIsReported ==
  \A i \in DOMAIN broadcasts :
    Event(i) /\ (\A j \in DOMAIN broadcasts : j > i => ~Event(j)) =>
      broadcasts[i] = reported

(* Or it has arrived, and the lock is what it asked for, unless the head   *)
(* set was unplugged since.                                                *)
ReportedHandled ==
  (\A i \in DOMAIN broadcasts : ~Event(i)) =>
    /\ handled \in {reported, "detached"}
    /\ wakeLockHeld = (handled = "near")

(* The service was told something since it listens.                        *)
Listening == isListening /\ reported # "none"

IInv ==
  /\ TypeOK
  /\ HoldAllowed
  /\ Listening => LastIsReported /\ ReportedHandled

-----------------------------------------------------------------------------
LEMMA InitTypeOK == Init => TypeOK
<1>. SUFFICES ASSUME Init
              PROVE  TypeOK
  OBVIOUS
<1>1. isListening \in BOOLEAN /\ (isListening => service = "created")
  BY DEF Init
<1>2. processUp \in BOOLEAN /\ mHoldWakeLock \in BOOLEAN /\ wakeLockHeld \in BOOLEAN
  BY DEF Init
<1>3. Len(broadcasts) <= MaxBroadcasts /\ broadcasts \in Seq({"near", "far", "detached"})
  BY HmdAssumption DEF Init
<1>. QED
  BY <1>1, <1>2, <1>3 DEF Init, TypeOK

LEMMA HandleTyped ==
  ASSUME TypeOK, NEW what, Handle(what)
  PROVE  /\ broadcasts' \in Seq({"near", "far", "detached"})
         /\ Len(broadcasts') = Len(broadcasts) - 1
         /\ \A i \in 1 .. Len(broadcasts') : broadcasts'[i] = broadcasts[i + 1]
         /\ what = broadcasts[1]
         /\ what \in {"near", "far", "detached"}
         /\ handled' = what
         /\ processUp'
         /\ UNCHANGED <<service, isListening, mHoldWakeLock, worn, reported>>
  BY DEF TypeOK, Handle, sensor

LEMMA NextTypeOK == TypeOK /\ [Next]_vars => TypeOK'
<1>. SUFFICES ASSUME TypeOK, [Next]_vars
              PROVE  TypeOK'
  OBVIOUS
<1>. USE DEF TypeOK, app, sensor
<1>1. CASE CreateService \/ DestroyService \/ ProcessDies
  BY <1>1 DEF CreateService, DestroyService, ProcessDies
<1>2. CASE Move \/ ScreenTimeout \/ PowerKey \/ UNCHANGED vars
  BY <1>2 DEF Move, ScreenTimeout, PowerKey, vars
<1>3. CASE SensorChanged \/ UsbDetached
  BY <1>3, HmdAssumption DEF SensorChanged, UsbDetached
<1>4. CASE OnReceive
  <2>1. /\ wakeLockHeld' \in BOOLEAN
        /\ screen' \in {"on", "off"}
    BY <1>4 DEF OnReceive, OnPSensorNear, OnPSensorFar, OnUSBDetached
  <2>2. PICK what : Handle(what)
    BY <1>4 DEF OnReceive, OnPSensorNear, OnPSensorFar, OnUSBDetached
  <2>3. Len(broadcasts') <= MaxBroadcasts
    BY <2>2, HandleTyped, HmdAssumption
  <2>. QED
    BY <2>1, <2>2, <2>3, HandleTyped
<1>. QED
  BY <1>1, <1>2, <1>3, <1>4 DEF Next

(* The type invariant: the sensor is registered only while there is a      *)
(* service, whether vrserver answered when it was created or not, and also *)
(* after the process died and was started again.                           *)
THEOREM TypeCorrect == Spec => []TypeOK
BY InitTypeOK, NextTypeOK, PTL DEF Spec

-----------------------------------------------------------------------------
LEMMA NextHoldAllowed == TypeOK /\ HoldAllowed /\ [Next]_vars => HoldAllowed'
<1>. SUFFICES ASSUME TypeOK, HoldAllowed, [Next]_vars
              PROVE  HoldAllowed'
  OBVIOUS
<1>. USE DEF HoldAllowed, app
<1>1. CASE CreateService \/ DestroyService \/ ProcessDies
  BY <1>1 DEF CreateService, DestroyService, ProcessDies
<1>2. CASE UNCHANGED app
  BY <1>2
<1>3. CASE OnReceive
  <2>1. PICK what : Handle(what)
    BY <1>3 DEF OnReceive, OnPSensorNear, OnPSensorFar, OnUSBDetached
  <2>2. UNCHANGED <<isListening, mHoldWakeLock>> /\ processUp'
    BY <2>1, HandleTyped
  <2>. QED
    BY <2>2
<1>. QED
  BY <1>1, <1>2, <1>3
  DEF Next, Move, SensorChanged, UsbDetached, ScreenTimeout, PowerKey, vars

(* An event or an unplugging joins the queue at its end.                   *)
LEMMA SendKeeps ==
  ASSUME TypeOK, NEW what \in {"near", "far", "detached"},
         broadcasts' = Append(broadcasts, what),
         IF what = "detached"
         THEN reported' = reported /\ LastIsReported /\ ReportedHandled
         ELSE reported' = what,
         UNCHANGED <<handled, wakeLockHeld>>
  PROVE  LastIsReported' /\ ReportedHandled'
<1>. USE DEF Event
<1>. DEFINE n == Len(broadcasts)
<1>1. /\ n \in Nat
      /\ DOMAIN broadcasts = 1 .. n
      /\ DOMAIN broadcasts' = 1 .. n + 1
      /\ \A i \in 1 .. n : broadcasts'[i] = broadcasts[i]
      /\ broadcasts'[n + 1] = what
  BY DEF TypeOK
<1>. HIDE DEF n
<1>2. CASE what = "detached"
  <2>1. LastIsReported'
    BY <1>1, <1>2 DEF LastIsReported
  <2>2. ReportedHandled'
    BY <1>1, <1>2 DEF ReportedHandled
  <2>. QED
    BY <2>1, <2>2
<1>3. CASE what # "detached"
  <2>1. LastIsReported'
    BY <1>1, <1>3 DEF LastIsReported
  <2>2. ReportedHandled'
    BY <1>1, <1>3 DEF ReportedHandled
  <2>. QED
    BY <2>1, <2>2
<1>. QED
  BY <1>2, <1>3

(* The first of the queue arrives: what it does to the lock is what the    *)
(* service was told last, if no other event comes behind it.               *)
LEMMA ReceiveKeeps ==
  ASSUME TypeOK, HoldAllowed, OnReceive, Listening, LastIsReported, ReportedHandled
  PROVE  LastIsReported' /\ ReportedHandled'
<1>. USE DEF Event
<1>1. PICK what : Handle(what)
  BY DEF OnReceive, OnPSensorNear, OnPSensorFar, OnUSBDetached
<1>. DEFINE n == Len(broadcasts)
<1>2. /\ n \in Nat \ {0}
      /\ DOMAIN broadcasts = 1 .. n
      /\ DOMAIN broadcasts' = 1 .. n - 1
      /\ \A i \in 1 .. n - 1 : broadcasts'[i] = broadcasts[i + 1]
      /\ what = broadcasts[1]
      /\ what \in {"near", "far", "detached"}
      /\ handled' = what
      /\ reported' = reported
  BY <1>1, HandleTyped DEF TypeOK, Handle
<1>3. \A i \in 2 .. n : i - 1 \in 1 .. n - 1 /\ broadcasts'[i - 1] = broadcasts[i]
  BY <1>2
<1>4. mHoldWakeLock
  BY DEF HoldAllowed, Listening, TypeOK
<1>5. wakeLockHeld' = (what = "near")
  BY <1>1, <1>4, <1>2
  DEF OnReceive, OnPSensorNear, OnPSensorFar, OnUSBDetached, Handle, TypeOK
<1>. HIDE DEF n
<1>6. LastIsReported'
  <2>. SUFFICES ASSUME NEW i \in DOMAIN broadcasts', Event(i)',
                       \A j \in DOMAIN broadcasts' : j > i => ~Event(j)'
                PROVE  broadcasts'[i] = reported'
    BY DEF LastIsReported
  <2>1. i + 1 \in DOMAIN broadcasts /\ broadcasts'[i] = broadcasts[i + 1]
    BY <1>2
  <2>2. ASSUME NEW j \in DOMAIN broadcasts, j > i + 1
        PROVE  ~Event(j)
    BY <1>2, <1>3, <2>1, <2>2
  <2>. QED
    BY <1>2, <2>1, <2>2 DEF LastIsReported
<1>7. ReportedHandled'
  <2>. SUFFICES ASSUME \A i \in DOMAIN broadcasts' : ~Event(i)'
                PROVE  what \in {reported, "detached"}
    BY <1>2, <1>5 DEF ReportedHandled
  <2>1. ASSUME NEW i \in DOMAIN broadcasts, i > 1
        PROVE  ~Event(i)
    <3>1. i - 1 \in DOMAIN broadcasts' /\ broadcasts'[i - 1] = broadcasts[i]
      BY <1>2, <1>3, <2>1
    <3>. QED
      BY <3>1
  <2>. QED
    BY <1>2, <2>1 DEF LastIsReported
<1>. QED
  BY <1>6, <1>7

LEMMA NextListening ==
  ASSUME TypeOK, HoldAllowed, Listening => LastIsReported /\ ReportedHandled,
         [Next]_vars
  PROVE  (Listening => LastIsReported /\ ReportedHandled)'
<1>. USE DEF app, sensor
<1>1. CASE CreateService \/ DestroyService \/ ProcessDies
  <2>1. ~Listening'
    BY <1>1 DEF CreateService, DestroyService, ProcessDies, Listening, TypeOK
  <2>. QED
    BY <2>1
<1>2. ASSUME UNCHANGED <<isListening, reported, broadcasts, handled, wakeLockHeld>>
      PROVE  (Listening => LastIsReported /\ ReportedHandled)'
  BY <1>2 DEF Listening, LastIsReported, ReportedHandled, Event
<1>3. CASE SensorChanged
  BY <1>3, SendKeeps DEF SensorChanged, TypeOK
<1>4. CASE UsbDetached
  <2>. SUFFICES ASSUME Listening'
                PROVE  LastIsReported' /\ ReportedHandled'
    OBVIOUS
  <2>1. Listening /\ broadcasts' = Append(broadcasts, "detached")
    BY <1>4 DEF UsbDetached, Listening
  <2>. QED
    BY <1>4, <2>1, SendKeeps DEF UsbDetached
<1>5. CASE OnReceive
  <2>1. PICK what : Handle(what)
    BY <1>5 DEF OnReceive, OnPSensorNear, OnPSensorFar, OnUSBDetached
  <2>2. Listening' = Listening
    BY <2>1, HandleTyped DEF Listening
  <2>. QED
    BY <1>5, <2>2, ReceiveKeeps
<1>6. CASE Move \/ ScreenTimeout \/ PowerKey \/ UNCHANGED vars
  BY <1>2, <1>6 DEF Move, ScreenTimeout, PowerKey, vars
<1>. QED
  BY <1>1, <1>3, <1>4, <1>5, <1>6 DEF Next

(* Once the last event of the sensor has come through, the lock is held    *)
(* exactly while the head set is worn and was not unplugged since, however *)
(* many broadcasts of an earlier life of the process came in between.      *)
THEOREM LockFollowsSensor == Spec => []LockMatchesSensor
<1>1. Init => IInv
  BY InitTypeOK DEF Init, IInv, HoldAllowed, Listening
<1>2. IInv /\ [Next]_vars => IInv'
  BY NextTypeOK, NextHoldAllowed, NextListening DEF IInv
<1>3. IInv => LockMatchesSensor
  <2>. SUFFICES ASSUME IInv, Settled
                PROVE  wakeLockHeld <=> worn = "near" /\ handled # "detached"
    BY DEF LockMatchesSensor
  <2>1. Listening /\ reported = worn /\ DOMAIN broadcasts = {}
    BY DEF IInv, TypeOK, Settled, Listening
  <2>2. handled \in {worn, "detached"} /\ wakeLockHeld = (handled = "near")
    BY <2>1 DEF IInv, ReportedHandled
  <2>. QED
    BY <2>2 DEF IInv, TypeOK
<1>. QED
  BY <1>1, <1>2, <1>3, PTL DEF Spec
=============================================================================
