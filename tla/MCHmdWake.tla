------------------------------ MODULE MCHmdWake ------------------------------
(***************************************************************************)
(* HmdWake for TLC.                                                        *)
(***************************************************************************)
EXTENDS HmdWake
=============================================================================
