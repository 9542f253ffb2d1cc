---------------------------- MODULE SdkDatabase ----------------------------
(***************************************************************************)
(* XmlDatabase and VrSDK, the data vrserver keeps about the installed      *)
(* SDKs, and ClientConnector::processMessage, which answers from it.       *)
(* mData is a sequence of records, the VrSDK objects in the order of the   *)
(* vector.                                                                 *)
(*                                                                         *)
(* Abstractions.                                                           *)
(*  - A text is a model value.  What the code does to texts is in three    *)
(*    functions: Lower (tolower), Stem (what stands before the first '.')  *)
(*    and Clip (what fits in BUFF_SIZE characters).                        *)
(*  - A document is what XML_PARSE_RECOVER makes of a file: a damaged      *)
(*    file is the document its readable part gives.                        *)
(*  - The names of the SDKs, joined with '^', fit in BUFF_SIZE characters. *)
(***************************************************************************)
EXTENDS Integers, Sequences, SequencesExt, TLC

CONSTANTS
  Lower,         \* Lower[t]: name t in lower case
  Stem,          \* Stem[n]: n up to its first '.', n itself when it has none
  Clip,          \* Clip[v]: the first BUFF_SIZE characters of v
  Lvr, Svr,      \* the names "lvr" and "svr" in lower case
  EmptyText,     \* the text ""
  NoText,        \* an attribute that is not there: xmlGetProp gives NULL
  NoDocument,    \* a file that is missing, unreadable or without root
  UnsignedRange, \* 2^64: uint64_t
  LongRange      \* the values "%lu" shows: 2^32 or 2^64, as vrserver is built

ASSUME RangesAssumption ==
  /\ LongRange \in Nat \ {0}
  /\ UnsignedRange \in Nat
  /\ LongRange <= UnsignedRange

-----------------------------------------------------------------------------
(* VrSDK. *)

NewVrSDK(type, version) == [type |-> type, version |-> version, features |-> <<>>]

(* Variant: the later item overwrites.                                     *)
AddExternalSDKItemLast(sdk, v, f) == [sdk EXCEPT !.features = (v :> f) @@ @]

(* The first item with this version stays.                                 *)
AddExternalSDKItem(sdk, v, f) ==
  IF v \in DOMAIN sdk.features THEN sdk
  ELSE [sdk EXCEPT !.features = [u \in DOMAIN @ \cup {v} |-> IF u = v THEN f ELSE @[u]]]

GetFeature(sdk, v) ==
  IF Stem[v] \in DOMAIN sdk.features THEN sdk.features[Stem[v]] ELSE 0

-----------------------------------------------------------------------------
(* XmlDatabase.  Positions of mData stand for the pointers.                *)

SdksOfType(mData, type) == {i \in DOMAIN mData : Lower[mData[i].type] = type}

First(positions) == CHOOSE i \in positions : \A j \in positions : i <= j

GetSDK(mData, type) == mData[First(SdksOfType(mData, type))]

GetAllSDKTypes(mData) == [i \in DOMAIN mData |-> mData[i].type]

(* Variant: every file makes an SDK of its own.                            *)
KnownSDKNone(mData, type) == {}

KnownSDK(mData, type) == {i \in DOMAIN mData : mData[i].type = type}

(* _GenerateSDK refuses a document without a version, and makes an SDK     *)
(* only of a name it has not met; names are compared with their case.      *)
Usable(doc) == doc # NoDocument /\ doc.version # NoText

Generates(mData, doc) == Usable(doc) /\ KnownSDK(mData, doc.root) = {}

(* Variant: the number keeps its sign.                                     *)
AddItemSigned(sdk, item) ==
  IF item.name = "ExternalSDK" /\ item.version # NoText
  THEN AddExternalSDKItem(sdk, item.version, item.content)
  ELSE sdk

(* atoll() of the content, kept in a uint64_t.                             *)
AddItem(sdk, item) ==
  IF item.name = "ExternalSDK" /\ item.version # NoText
  THEN AddExternalSDKItem(sdk, item.version, item.content % UnsignedRange)
  ELSE sdk

(* XmlDatabase::parser: what it leaves in mData.                           *)
Parser(mData, doc) ==
  IF ~Usable(doc) THEN mData
  ELSE LET generated == IF Generates(mData, doc)
                        THEN Append(mData, NewVrSDK(doc.root, doc.version))
                        ELSE mData
           sdk == IF Generates(mData, doc) THEN Len(generated)
                  ELSE First(KnownSDK(mData, doc.root))
       IN  [generated EXCEPT ![sdk] = FoldLeft(AddItem, @, doc.items)]

-----------------------------------------------------------------------------
(* ClientConnector::processMessage.  A message is what one read() found: a *)
(* sequence of requests, run together.  The operation is that of the       *)
(* first.  The name of a feature extends to the end of the buffer: with    *)
(* another request behind it, it is its own only up to a '.'.              *)

Error(e) == <<"error", e>>

FeatureNamed(m) == Len(m) = 1 \/ Stem[Head(m).feature] # Head(m).feature

Shown(f) == f % LongRange

AboutSDK(mData, m) ==
  LET r   == Head(m)
      sdk == GetSDK(mData, r.type)
  IN  CASE SdksOfType(mData, r.type) = {} -> Error(-3)
        [] SdksOfType(mData, r.type) # {} /\ r.op = "version" ->
             IF sdk.version = EmptyText THEN Error(-2)
             ELSE <<"version", Clip[sdk.version]>>
        [] SdksOfType(mData, r.type) # {} /\ r.op = "feature" ->
             <<"feature", IF FeatureNamed(m) THEN Shown(GetFeature(sdk, r.feature))
                          ELSE 0>>

ProcessMessage(mData, m) ==
  CASE Head(m).op = "support" ->
         IF mData = <<>> THEN Error(-2) ELSE <<"types", GetAllSDKTypes(mData)>>
    [] Head(m).op \in {"version", "feature"} -> AboutSDK(mData, m)
    [] OTHER -> Error(-1)
=============================================================================
