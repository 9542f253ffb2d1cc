------------------------------- MODULE HmdWake -------------------------------
(***************************************************************************)
(* Keeping the screen of the phone on while the head set is worn: the      *)
(* proximity sensor PSensorUtility listens to, the broadcasts              *)
(* VRAdminService turns its events into, and HMDReceiver, which hands them *)
(* and the USB broadcasts to VRAdminApplication and its wake lock.  All of *)
(* it runs on the main thread of one process, but a broadcast goes through *)
(* the system, and the process may die and be started again before it      *)
(* comes back.                                                             *)
(*                                                                         *)
(* Abstractions.                                                           *)
(*  - The device is the one that holds the lock, LeVR_Max_1.  On any other *)
(*    the service is always as one that was created without vrserver: it   *)
(*    registers no sensor.                                                 *)
(*  - Broadcasts of a device that is not the head set, and the one that it *)
(*    was attached, change nothing and are left out.                       *)
(*  - The partial wake lock of onFar only keeps the CPU running until the  *)
(*    broadcast has arrived.                                               *)
(***************************************************************************)
EXTENDS Naturals, Sequences, SequencesExt

CONSTANT MaxBroadcasts   \* broadcasts on their way at once

ASSUME HmdAssumption == MaxBroadcasts \in Nat \ {0}

VARIABLES
  (* the process *)
  processUp,
  service,        \* "none" or "created": VRAdminService
  isListening,    \* PSensorUtility is registered
  mHoldWakeLock,
  wakeLockHeld,   \* mWakeLock.isHeld()
  (* the system *)
  worn,           \* what is in front of the sensor: "near" or "far"
  reported,       \* the last event onSensorChanged got, "none" before the first
  broadcasts,     \* on their way to HMDReceiver, in the order they were sent
  screen,         \* "on" or "off"
  (* history *)
  handled         \* the last broadcast VRAdminApplication acted on

app    == <<processUp, service, isListening, mHoldWakeLock, wakeLockHeld>>
sensor == <<worn, reported>>
vars   == <<app, sensor, broadcasts, screen, handled>>

Init ==
  /\ processUp = FALSE
  /\ service = "none"
  /\ isListening = FALSE
  /\ mHoldWakeLock = FALSE
  /\ wakeLockHeld = FALSE
  /\ worn \in {"near", "far"}
  /\ reported = "none"
  /\ broadcasts = <<>>
  /\ screen = "on"
  /\ handled = "none"

-----------------------------------------------------------------------------
(* The service: started by BOOT_COMPLETED, by a client, or again by the    *)
(* system.                                                                 *)

(* onCreate asks vrserver for the name of the device.  When that gives "", *)
(* because vrserver is down or dies in the call, the service comes up      *)
(* deaf: without a sensor, and with the permission to hold the lock that   *)
(* an earlier one left in the process.                                     *)
CreateService ==
  /\ service = "none"
  /\ processUp' = TRUE
  /\ service' = "created"
  /\ \/ /\ mHoldWakeLock' = TRUE
        /\ isListening' = TRUE
        /\ reported' = "none"
     \/ UNCHANGED <<mHoldWakeLock, isListening, reported>>
  /\ UNCHANGED <<wakeLockHeld, worn, broadcasts, screen, handled>>

(* Variant: the sensor stays registered.                                   *)
DestroyServiceKeepsSensor ==
  /\ service = "created"
  /\ service' = "none"
  /\ UNCHANGED <<processUp, isListening, mHoldWakeLock, wakeLockHeld, sensor, broadcasts,
                 screen, handled>>

(* Variant: setHoldWakeLock(false), the counterpart of what onCreate does. *)
DestroyServiceLetsGo ==
  /\ service = "created"
  /\ service' = "none"
  /\ isListening' = FALSE
  /\ mHoldWakeLock' = FALSE
  /\ UNCHANGED <<processUp, wakeLockHeld, sensor, broadcasts, screen, handled>>

DestroyService ==
  /\ service = "created"
  /\ service' = "none"
  /\ isListening' = FALSE
  /\ UNCHANGED <<processUp, mHoldWakeLock, wakeLockHeld, sensor, broadcasts, screen, handled>>

(* The system takes the locks of a dead process away.                      *)
ProcessDies ==
  /\ processUp
  /\ processUp' = FALSE
  /\ service' = "none"
  /\ isListening' = FALSE
  /\ mHoldWakeLock' = FALSE
  /\ wakeLockHeld' = FALSE
  /\ handled' = "none"
  /\ UNCHANGED <<sensor, broadcasts, screen>>

-----------------------------------------------------------------------------
(* The sensor tells a new listener what it sees, and then every change.    *)

Move ==
  /\ worn' \in {"near", "far"} \ {worn}
  /\ UNCHANGED <<app, reported, broadcasts, screen, handled>>

SensorChanged ==
  /\ isListening
  /\ reported # worn
  /\ Len(broadcasts) < MaxBroadcasts
  /\ reported' = worn
  /\ broadcasts' = Append(broadcasts, worn)
  /\ UNCHANGED <<app, worn, screen, handled>>

UsbDetached ==
  /\ Len(broadcasts) < MaxBroadcasts
  /\ broadcasts' = Append(broadcasts, "detached")
  /\ UNCHANGED <<app, sensor, screen, handled>>

-----------------------------------------------------------------------------
(* The screen, without VRAdmin.                                            *)

ScreenTimeout ==
  /\ screen = "on"
  /\ ~wakeLockHeld
  /\ screen' = "off"
  /\ UNCHANGED <<app, sensor, broadcasts, handled>>

PowerKey ==
  /\ screen' \in {"on", "off"} \ {screen}
  /\ UNCHANGED <<app, sensor, broadcasts, handled>>

-----------------------------------------------------------------------------
(* HMDReceiver.onReceive: it starts the process if there is none, which    *)
(* then has no service and does not hold the lock.                         *)

Handle(what) ==
  /\ broadcasts # <<>>
  /\ Head(broadcasts) = what
  /\ broadcasts' = Tail(broadcasts)
  /\ processUp' = TRUE
  /\ handled' = what
  /\ UNCHANGED <<service, isListening, mHoldWakeLock, sensor>>

(* Variant: a screen that is on is left alone.                             *)
OnPSensorNearScreenOff ==
  /\ Handle("near")
  /\ screen' = "on"
  /\ wakeLockHeld' = (wakeLockHeld \/ (mHoldWakeLock /\ screen = "off"))

OnPSensorNear ==
  /\ Handle("near")
  /\ screen' = "on"
  /\ wakeLockHeld' = (wakeLockHeld \/ mHoldWakeLock)

(* Variant: the lock is let go only when the screen is off already.        *)
OnPSensorFarScreenOff ==
  /\ Handle("far")
  /\ screen' = "off"
  /\ wakeLockHeld' = (wakeLockHeld /\ (~mHoldWakeLock \/ screen = "on"))

OnPSensorFar ==
  /\ Handle("far")
  /\ screen' = "off"
  /\ wakeLockHeld' = (wakeLockHeld /\ ~mHoldWakeLock)

OnUSBDetached ==
  /\ Handle("detached")
  /\ screen' = "on"
  /\ wakeLockHeld' = (wakeLockHeld /\ ~mHoldWakeLock)

OnReceive == OnPSensorNear \/ OnPSensorFar \/ OnUSBDetached

-----------------------------------------------------------------------------
Next ==
  \/ CreateService \/ DestroyService \/ ProcessDies
  \/ Move \/ SensorChanged \/ UsbDetached
  \/ ScreenTimeout \/ PowerKey
  \/ OnReceive

Spec == Init /\ [][Next]_vars

(* The sensor reports and the system delivers broadcasts.                  *)
FairSpec == Spec /\ WF_vars(SensorChanged) /\ WF_vars(OnReceive)

-----------------------------------------------------------------------------
(* The sensor is registered by a service, and never outlives it; a deaf    *)
(* service has none.                                                       *)
TypeOK ==
  /\ processUp \in BOOLEAN
  /\ service \in {"none", "created"}
  /\ isListening \in BOOLEAN
  /\ isListening => service = "created"
  /\ mHoldWakeLock \in BOOLEAN
  /\ wakeLockHeld \in BOOLEAN
  /\ worn \in {"near", "far"}
  /\ reported \in {"none", "near", "far"}
  /\ broadcasts \in Seq({"near", "far", "detached"})
  /\ Len(broadcasts) <= MaxBroadcasts
  /\ screen \in {"on", "off"}
  /\ handled \in {"none", "near", "far", "detached"}

Settled == isListening /\ reported = worn /\ broadcasts = <<>>

(* Once every event of the sensor has come through, the lock is held       *)
(* exactly while the head set is worn and was not unplugged since: also    *)
(* when a broadcast of an earlier life of the process came late, or came   *)
(* before the service that lets the lock be held.  Of a deaf service it    *)
(* says nothing: no sensor is registered, and it is not Settled.           *)
LockMatchesSensor ==
  Settled => (wakeLockHeld <=> worn = "near" /\ handled # "detached")

(* A head set that is taken off for good lets go of the screen.            *)
TakenOffReleases ==
  <>[](worn = "far" /\ isListening) => <>[](~wakeLockHeld)

(* Unplugging the head set lets go of the screen, also when the service    *)
(* was destroyed while it was worn, or was created again deaf: no sensor   *)
(* is registered then, and this broadcast is the only thing left that      *)
(* releases the lock.                                                      *)
UnpluggedReleases ==
  (wakeLockHeld /\ "detached" \in ToSet(broadcasts)) ~> ~wakeLockHeld
=============================================================================
