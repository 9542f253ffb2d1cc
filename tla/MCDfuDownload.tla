---------------------------- MODULE MCDfuDownload ----------------------------
(***************************************************************************)
(* Small instances of DfuDownload for TLC.                                 *)
(***************************************************************************)
EXTENDS DfuDownload

CONSTANTS d1, d2

MCDownloads2 == {d1, d2}

(* No file, a small one, and with MaxInt = 127 one whose hundredfold       *)
(* does not fit.                                                           *)
MCSizes == {0, 1, 2}
MCSizes1 == {1}
=============================================================================
