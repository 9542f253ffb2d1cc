-------------------------- MODULE MCServerListener --------------------------
(***************************************************************************)
(* A small instance of ServerListener for TLC, composed with the database  *)
(* of SdkDatabase: the answers are those of processMessage over the two    *)
(* XML files the repository installs.                                      *)
(***************************************************************************)
EXTENDS ServerListener, SdkDatabase

CONSTANTS c1, c2, b1, LVR, SVR, lvrVersion, svrVersion, lvrExt, svrExt

MCConns == {c1, c2}
MCBinderThreads == {b1}
MCFds == {5, 6}

MCLower == (LVR :> Lvr) @@ (SVR :> Svr)
MCStem == (lvrExt :> lvrExt) @@ (svrExt :> svrExt)
MCClip == (lvrVersion :> lvrVersion) @@ (svrVersion :> svrVersion)

Item(v, n) == [name |-> "ExternalSDK", version |-> v, content |-> n]

MCSvrInfo == [root |-> SVR, version |-> svrVersion,
              items |-> [i \in 1..3 |-> Item(svrExt, 3)]]
MCLvrInfo == [root |-> LVR, version |-> lvrVersion, items |-> <<Item(lvrExt, 3)>>]

MCDatabase == Parser(Parser(<<>>, MCSvrInfo), MCLvrInfo)

(* "lvr_feature:Lvr_C_001S": 3 when it is read alone, 0 when another       *)
(* request comes behind it.                                                *)
MCQuit == [op |-> "quit"]
MCRequests == {[op |-> "feature", type |-> Lvr, feature |-> lvrExt], MCQuit}
MCAnswer == [m \in Readings |-> ProcessMessage(MCDatabase, m)]
=============================================================================
