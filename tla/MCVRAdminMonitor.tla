-------------------------- MODULE MCVRAdminMonitor --------------------------
(***************************************************************************)
(* Small instances of VRAdminMonitor for TLC.                              *)
(***************************************************************************)
EXTENDS VRAdminMonitor

CONSTANTS c1, c2, m1, m2, m3

MCClients1 == {c1}
MCClients == {c1, c2}
MCMonitors1 == {m1}
MCMonitors == {m1, m2, m3}
MCOwner1 == [m \in {m1} |-> c1]
(* c1 registers twice, c2 once.                                            *)
MCOwner == [m \in {m1, m2, m3} |-> IF m = m2 THEN c2 ELSE c1]
=============================================================================
