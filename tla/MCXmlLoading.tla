---------------------------- MODULE MCXmlLoading ----------------------------
(***************************************************************************)
(* A small instance of XmlLoading for TLC: two files, roots that differ in *)
(* more than their case and roots that do not, damaged and empty files,    *)
(* items that repeat, that have no version, and that carry numbers at both *)
(* ends of the range.                                                      *)
(***************************************************************************)
EXTENDS XmlLoading

CONSTANTS LVR, LvrMixed, SVR,  \* names of root elements
          short, long, cut,    \* versions; cut is what a reply holds of long
          ext, extDotted       \* names of items; ext.<...> starts with ext

MCLower == (LVR :> Lvr) @@ (LvrMixed :> Lvr) @@ (SVR :> Svr)
MCStem  == (ext :> ext) @@ (extDotted :> ext)
MCClip  == (short :> short) @@ (long :> cut) @@ (EmptyText :> EmptyText)

Item(v, n) == [name |-> "ExternalSDK", version |-> v, content |-> n]

MCItems == {Item(ext, 2), Item(ext, -1), Item(extDotted, 1), Item(NoText, 3),
            [name |-> "comment", version |-> ext, content |-> 1]}

Document(root, version, items) == [root |-> root, version |-> version, items |-> items]

MCDocuments ==
  {NoDocument, Document(LVR, NoText, <<>>), Document(LVR, EmptyText, <<>>)}
    \cup {Document(root, version, items) :
            root \in DOMAIN MCLower, version \in {short, long},
            items \in UNION {[1..n -> MCItems] : n \in 0..2}}

Request(op, type, feature) == [op |-> op, type |-> type, feature |-> feature]

MCRequests == {Request("support", Lvr, ext), Request("other", Lvr, ext)}
                \cup {Request("version", t, ext) : t \in {Lvr, Svr}}
                \cup {Request("feature", t, v) : t \in {Lvr, Svr}, v \in {ext, extDotted}}

MCMessages == {<<r>> : r \in MCRequests} \cup {<<r, r>> : r \in MCRequests}
=============================================================================
