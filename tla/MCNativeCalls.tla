---------------------------- MODULE MCNativeCalls ----------------------------
(***************************************************************************)
(* Small instances of NativeCalls for TLC.                                 *)
(***************************************************************************)
EXTENDS NativeCalls

CONSTANTS c1, c2

MCCalls == {c1, c2}
MCValues == {"0", "1"}
=============================================================================
