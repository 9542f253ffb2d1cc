----------------------------- MODULE XmlLoading -----------------------------
(***************************************************************************)
(* The constructor of ServerListener fills the SDK database from the XML   *)
(* files, one after the other, and publishes the version of every SDK it   *)
(* meets as a system property.  The property service may refuse, and       *)
(* vrserver may die at any moment and be started again: the properties     *)
(* outlive it, mData does not.                                             *)
(***************************************************************************)
EXTENDS SdkDatabase

CONSTANTS
  Documents,  \* what a file may hold, NoDocument among it
  FileCount,  \* files the constructor parses: svrinfo.xml, then lvrinfo.xml
  Messages    \* what a read of a client's connection may find

Types == {Lower[t] : t \in DOMAIN Lower}

(* What libxml2 makes of a file: names, attributes and numbers.            *)
XmlItems == [name : STRING, version : DOMAIN Stem \cup {NoText}, content : Int]

XmlDocuments == [root : DOMAIN Lower, version : DOMAIN Clip \cup {NoText},
                 items : Seq(XmlItems)]

ASSUME DocumentsAssumption ==
  /\ \A doc \in Documents : doc = NoDocument \/ doc \in XmlDocuments
  /\ FileCount \in Nat

(* An attribute that is not there is no text, and what a text is cut to is *)
(* a text again.                                                           *)
ASSUME TextsAssumption ==
  /\ NoText \notin DOMAIN Stem
  /\ \A n \in DOMAIN Stem : Stem[n] \in DOMAIN Stem

(* A read that finds nothing is an end of file and no message; requests    *)
(* name one of the two SDKs processMessage knows.                          *)
ASSUME MessagesAssumption ==
  \A m \in Messages :
    m # <<>> /\ m \in Seq([op : STRING, type : {Lvr, Svr}, feature : DOMAIN Stem])

VARIABLES
  files,      \* files[i]: the i-th file the constructor parses
  next,       \* the file the constructor parses next
  mData,      \* the SDK database
  properties  \* properties[t]: the value of vr.t.version; NoText when not set

vars == <<files, next, mData, properties>>

Init ==
  /\ files \in [1..FileCount -> Documents]
  /\ next = 1
  /\ mData = <<>>
  /\ properties = [t \in Types |-> NoText]

(* The constructor of VrSDK sets the property; a failure is only logged.   *)
ParseFile ==
  /\ next <= FileCount
  /\ mData' = Parser(mData, files[next])
  /\ \/ /\ Generates(mData, files[next])
        /\ properties' = [properties EXCEPT ![Lower[files[next].root]] =
                                                files[next].version]
     \/ UNCHANGED properties
  /\ next' = next + 1
  /\ UNCHANGED files

(* vrserver dies and is started again; the files are read-only.            *)
Restart ==
  /\ next' = 1
  /\ mData' = <<>>
  /\ UNCHANGED <<files, properties>>

Next == ParseFile \/ Restart

Spec == Init /\ [][Next]_vars

-----------------------------------------------------------------------------
(* Every stored number fits in a uint64_t, and the properties hold texts   *)
(* of the files.                                                           *)
TypeOK ==
  /\ files \in [1..FileCount -> Documents]
  /\ next \in 1..(FileCount + 1)
  /\ \A i \in DOMAIN mData :
       /\ mData[i].type \in DOMAIN Lower
       /\ mData[i].version \in DOMAIN Clip
       /\ \A v \in DOMAIN mData[i].features :
            mData[i].features[v] \in 0..(UnsignedRange - 1)
  /\ properties \in [Types -> DOMAIN Clip \cup {NoText}]

(* What the parsed files say, without a database.                          *)

Parsed == {i \in 1..(next - 1) : Usable(files[i])}

AboutType(type) == {i \in Parsed : Lower[files[i].root] = type}

(* The items for v in a file, the files with this root that have one, and  *)
(* the number in the first of them.                                        *)
Positions(items, v) ==
  {k \in DOMAIN items : items[k].name = "ExternalSDK" /\ items[k].version = v}

Naming(root, v) ==
  {i \in Parsed : files[i].root = root /\ Positions(files[i].items, v) # {}}

Number(root, v) ==
  LET items == files[First(Naming(root, v))].items
  IN  IF Naming(root, v) = {} THEN 0
      ELSE items[First(Positions(items, v))].content % UnsignedRange

(* What processMessage answers is what the files say: the SDKs are the     *)
(* roots of the usable files, each once, in the order of the files; an SDK *)
(* is missing only when no usable file has its name, in any case; its      *)
(* version is that of the first such file; and a feature is the number of  *)
(* the first item for it in any file with that same root, or at worst,     *)
(* when other requests were read together with it, 0.  A number "%lu"      *)
(* cannot show is not promised.                                            *)
AnswersMatchFiles ==
  \A m \in Messages :
    LET r == Head(m)
        answer == ProcessMessage(mData, m)
    IN  /\ r.op = "support" =>
             \/ Parsed = {} /\ answer = Error(-2)
             \/ /\ answer[1] = "types" /\ IsInjective(answer[2])
                /\ ToSet(answer[2]) = {files[i].root : i \in Parsed}
                /\ answer[2][1] = files[First(Parsed)].root
        /\ r.op \in {"version", "feature"} =>
             (answer = Error(-3) <=> AboutType(r.type) = {})
        /\ r.op \in {"version", "feature"} /\ AboutType(r.type) # {} =>
             LET file == files[First(AboutType(r.type))]
                 told == Number(file.root, Stem[r.feature])
             IN  /\ r.op = "version" =>
                      answer = IF file.version = EmptyText THEN Error(-2)
                               ELSE <<"version", Clip[file.version]>>
                 /\ r.op = "feature" /\ told < LongRange =>
                      \/ answer = <<"feature", told>>
                      \/ Len(m) > 1 /\ answer = <<"feature", 0>>

(* No two usable files name an SDK of this type by roots that differ only  *)
(* in their case, which the constructor of VrSDK folds and _GenerateSDK    *)
(* does not.                                                               *)
OneName(type) ==
  \A i, j \in DOMAIN files :
    Usable(files[i]) /\ Usable(files[j])
      /\ Lower[files[i].root] = type /\ Lower[files[j].root] = type
        => files[i].root = files[j].root

(* A reader of the property vr.<type>.version and a client of the socket   *)
(* are told of the same version: where the property could be set, the      *)
(* reply to a version request is what fits in it of the property's value,  *)
(* and the error -2 for an empty one; also after restarts and before all   *)
(* files are parsed again.                                                 *)
PropertyAgrees ==
  \A m \in Messages :
    LET type     == Head(m).type
        property == properties[type]
    IN  /\ Head(m).op = "version"
        /\ OneName(type)
        /\ SdksOfType(mData, type) # {}
        /\ property # NoText
        => ProcessMessage(mData, m) = IF property = EmptyText THEN Error(-2)
                                      ELSE <<"version", Clip[property]>>
=============================================================================
