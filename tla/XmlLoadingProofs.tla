-------------------------- MODULE XmlLoadingProofs --------------------------
(***************************************************************************)
(* Proofs about the SDK database, for any documents, any number of files   *)
(* and any number of items in them: the types, that the properties of the  *)
(* system agree with the database, also across restarts, and that what     *)
(* processMessage answers is what the files say.                           *)
(***************************************************************************)
EXTENDS XmlLoading, ListLemmas

(* The greatest element of a set of numbers up to m.                       *)
LEMMA MaxUpTo ==
  ASSUME NEW m \in Nat, NEW s \in SUBSET (1 .. m + 1)
  PROVE  m + 1 \in s => Max(s) = m + 1
<1>. SUFFICES ASSUME m + 1 \in s
              PROVE  Max(s) = m + 1
  OBVIOUS
<1>1. \A y \in s : m + 1 >= y
  OBVIOUS
<1>2. Max(s) \in s /\ \A y \in s : Max(s) >= y
  <2>1. \E x \in s : \A y \in s : x >= y
    BY <1>1
  <2>. QED
    BY <2>1, Zenon DEF Max
<1>3. PICK x \in 1 .. m + 1 : x = Max(s)
  BY <1>2
<1>. QED
  BY <1>1, <1>2, <1>3

Unfolds(iter, base, items, m) ==
  iter = [s \in SUBSET (1 .. m) |->
            IF s = {} THEN base ELSE AddItem(iter[s \ {Max(s)}], items[Max(s)])]

LEMMA UnfoldsExists ==
  ASSUME NEW base, NEW items, NEW m \in Nat
  PROVE  \E iter : Unfolds(iter, base, items, m)
<1>. DEFINE T == {k \in Nat : ~ \E iter : Unfolds(iter, base, items, k)}
<1>1. SUFFICES ASSUME m \in T
               PROVE  FALSE
  OBVIOUS
<1>2. PICK k \in T : \A l \in T : k <= l
  BY <1>1, LeastNat
<1>3. k \in Nat /\ ~ \E iter : Unfolds(iter, base, items, k)
  OBVIOUS
<1>4. CASE k = 0
  <2>1. SUBSET (1 .. k) = {{}}
    BY <1>4
  <2>2. Unfolds([s \in SUBSET (1 .. k) |-> base], base, items, k)
    BY <2>1 DEF Unfolds
  <2>. QED
    BY <1>3, <2>2
<1>5. CASE k # 0
  <2>1. PICK l \in Nat : k = l + 1
    BY <1>3, <1>5
  <2>2. PICK f : Unfolds(f, base, items, l)
    BY <1>2, <2>1
  <2>. DEFINE g == [s \in SUBSET (1 .. k) |->
                      IF k \in s THEN AddItem(f[s \ {k}], items[k]) ELSE f[s]]
  <2>3. ASSUME NEW s \in SUBSET (1 .. k)
        PROVE  g[s] = IF s = {} THEN base ELSE AddItem(g[s \ {Max(s)}], items[Max(s)])
    <3>1. CASE k \in s
      <4>1. Max(s) = k /\ s # {}
        BY <2>1, <3>1, MaxUpTo
      <4>2. s \ {k} \in SUBSET (1 .. k) /\ k \notin s \ {k}
        OBVIOUS
      <4>. QED
        BY <3>1, <4>1, <4>2
    <3>2. CASE k \notin s
      <4>1. s \in SUBSET (1 .. l) /\ s \ {Max(s)} \in SUBSET (1 .. k) /\ k \notin s \ {Max(s)}
        <5>1. \A x \in s : x \in 1 .. l
          BY <2>1, <3>2
        <5>. QED
          BY <2>1, <3>2, <5>1
      <4>2. g[s] = f[s] /\ g[s \ {Max(s)}] = f[s \ {Max(s)}]
        BY <3>2, <4>1
      <4>3. f[s] = IF s = {} THEN base ELSE AddItem(f[s \ {Max(s)}], items[Max(s)])
        BY <2>2, <4>1 DEF Unfolds
      <4>. QED
        BY <4>2, <4>3
    <3>. QED
      BY <3>1, <3>2
  <2>4. Unfolds(g, base, items, k)
    <3>1. DOMAIN g = SUBSET (1 .. k)
      OBVIOUS
    <3>2. g = [s \in SUBSET (1 .. k) |-> g[s]]
      OBVIOUS
    <3>. HIDE DEF g
    <3>. QED
      BY <2>3, <3>2 DEF Unfolds
  <2>. QED
    BY <1>3, <2>4
<1>. QED
  BY <1>4, <1>5

LEMMA FoldIs ==
  ASSUME NEW base, NEW X, NEW items \in Seq(X)
  PROVE  \E iter : /\ Unfolds(iter, base, items, Len(items))
                   /\ FoldLeft(AddItem, base, items) = iter[1 .. Len(items)]
<1>. DEFINE S == DOMAIN items
            R(iter) == iter = [s \in SUBSET S |->
                                 IF s = {} THEN base
                                 ELSE AddItem(iter[s \ {Max(s)}], items[Max(s)])]
            it == CHOOSE iter : R(iter)
<1>1. FoldLeft(AddItem, base, items) = it[S]
  BY DEF FoldLeft, MapThenFoldSet
<1>2. S = 1 .. Len(items) /\ Len(items) \in Nat
  OBVIOUS
<1>. HIDE DEF S
<1>3. \E iter : R(iter)
  <2>1. PICK iter : Unfolds(iter, base, items, Len(items))
    BY <1>2, UnfoldsExists
  <2>2. R(iter)
    BY <1>2, <2>1 DEF Unfolds
  <2>. QED
    BY <2>2, Zenon
<1>. HIDE DEF R
<1>4. R(it)
  BY <1>3
<1>. HIDE DEF it
<1>5. Unfolds(it, base, items, Len(items))
  BY <1>2, <1>4 DEF Unfolds, R
<1>. QED
  BY <1>1, <1>2, <1>5

(* A fold goes where each of its steps goes.                               *)
LEMMA FoldReaches ==
  ASSUME NEW X, NEW items \in Seq(X), NEW S, NEW base \in S[0],
         \A k \in 1 .. Len(items) : \A sdk \in S[k - 1] : AddItem(sdk, items[k]) \in S[k]
  PROVE  FoldLeft(AddItem, base, items) \in S[Len(items)]
<1>1. PICK n \in Nat : n = Len(items)
  BY LenProperties
<1>2. PICK iter : /\ Unfolds(iter, base, items, n)
                  /\ FoldLeft(AddItem, base, items) = iter[1 .. n]
  BY <1>1, FoldIs
<1>. DEFINE T == {k \in 0 .. n : iter[1 .. k] \notin S[k]}
<1>3. SUFFICES ASSUME T # {}
               PROVE  FALSE
  BY <1>1, <1>2
<1>4. T \subseteq Nat
  OBVIOUS
<1>5. PICK k \in T : \A l \in T : k <= l
  BY <1>3, <1>4, LeastNat
<1>6. k \in 0 .. n /\ 1 .. k \in SUBSET (1 .. n) /\ iter[1 .. k] \notin S[k]
  OBVIOUS
<1>7. iter[1 .. k] = IF 1 .. k = {} THEN base
                     ELSE AddItem(iter[(1 .. k) \ {Max(1 .. k)}], items[Max(1 .. k)])
  <2>1. \A s \in SUBSET (1 .. n) :
          iter[s] = IF s = {} THEN base ELSE AddItem(iter[s \ {Max(s)}], items[Max(s)])
    BY <1>2 DEF Unfolds
  <2>. QED
    BY <1>6, <2>1
<1>8. k # 0
  BY <1>6, <1>7
<1>9. PICK l \in 0 .. n : k = l + 1
  <2>1. k - 1 \in 0 .. n /\ k = (k - 1) + 1
    BY <1>6, <1>8
  <2>. QED
    BY <2>1
<1>10. Max(1 .. k) = k /\ (1 .. k) \ {k} = 1 .. l /\ 1 .. k # {}
  <2>1. k \in 1 .. k /\ 1 .. k \in SUBSET (1 .. l + 1) /\ l \in Nat
    BY <1>9
  <2>2. Max(1 .. k) = k
    BY <1>9, <2>1, MaxUpTo
  <2>3. (1 .. k) \ {k} = 1 .. l
    BY <1>9
  <2>. QED
    BY <2>1, <2>2, <2>3
<1>11. iter[1 .. l] \in S[k - 1] /\ k \in 1 .. Len(items)
  <2>1. l \notin T
    BY <1>5, <1>9
  <2>2. k - 1 = l
    BY <1>9
  <2>. QED
    BY <1>1, <1>6, <1>8, <1>9, <2>1, <2>2
<1>12. iter[1 .. k] = AddItem(iter[1 .. l], items[k])
  BY <1>7, <1>10
<1>13. k - 1 = l
  BY <1>9
<1>. QED
  BY <1>6, <1>11, <1>12, <1>13

(* The positions an SDK or an item is looked for at have a first one.      *)
LEMMA FirstLeast ==
  ASSUME NEW T, T \subseteq Nat, T # {}
  PROVE  First(T) \in T /\ \A y \in T : First(T) <= y
<1>1. PICK x \in T : \A y \in T : x <= y
  BY LeastNat
<1>. QED
  BY <1>1, Zenon DEF First

LEMMA FirstIs ==
  ASSUME NEW T, T \subseteq Nat, NEW x \in T, \A y \in T : x <= y
  PROVE  First(T) = x
<1>1. PICK y \in Nat : y = First(T) /\ y <= x /\ x <= y
  BY FirstLeast
<1>2. x \in Nat
  OBVIOUS
<1>. QED
  BY <1>1, <1>2

-----------------------------------------------------------------------------
(* What mData may hold.                                                    *)
FeatureMaps == UNION {[D -> 0 .. UnsignedRange - 1] : D \in SUBSET DOMAIN Stem}

SdkRecords == [type : DOMAIN Lower, version : DOMAIN Clip, features : FeatureMaps]

LEMMA AddItemKeeps ==
  ASSUME NEW sdk \in SdkRecords, NEW item \in XmlItems
  PROVE  /\ AddItem(sdk, item) \in SdkRecords
         /\ AddItem(sdk, item).type = sdk.type
         /\ AddItem(sdk, item).version = sdk.version
<1>. DEFINE v == item.version
            n == item.content % UnsignedRange
<1>1. n \in 0 .. UnsignedRange - 1
  BY RangesAssumption DEF XmlItems
<1>. HIDE DEF n
<1>2. PICK D \in SUBSET DOMAIN Stem : sdk.features \in [D -> 0 .. UnsignedRange - 1]
  BY DEF SdkRecords, FeatureMaps
<1>3. CASE item.name = "ExternalSDK" /\ v # NoText /\ v \notin DOMAIN sdk.features
  <2>1. v \in DOMAIN Stem
    BY <1>3 DEF XmlItems
  <2>. DEFINE f == [u \in DOMAIN sdk.features \cup {v} |->
                      IF u = v THEN n ELSE sdk.features[u]]
  <2>2. f \in [D \cup {v} -> 0 .. UnsignedRange - 1]
    BY <1>1, <1>2
  <2>3. f \in FeatureMaps
    BY <2>1, <2>2 DEF FeatureMaps
  <2>4. AddItem(sdk, item) = [sdk EXCEPT !.features = f]
    BY <1>3 DEF AddItem, AddExternalSDKItem, n
  <2>. HIDE DEF f
  <2>. QED
    BY <2>3, <2>4 DEF SdkRecords
<1>4. CASE ~(item.name = "ExternalSDK" /\ v # NoText /\ v \notin DOMAIN sdk.features)
  BY <1>4 DEF AddItem, AddExternalSDKItem
<1>. QED
  BY <1>3, <1>4

(* The items of a file change the features of an SDK and nothing else: a   *)
(* feature it had stays, and of each new one the first item counts.        *)
FeatureFrom(features, sdk, items, v) ==
  IF v \in DOMAIN sdk.features
  THEN v \in DOMAIN features /\ features[v] = sdk.features[v]
  ELSE IF Positions(items, v) = {}
       THEN v \notin DOMAIN features
       ELSE /\ v \in DOMAIN features
            /\ features[v] = items[First(Positions(items, v))].content % UnsignedRange

UpTo(items, v, k) == {i \in Positions(items, v) : i <= k}

LEMMA ItemsKeep ==
  ASSUME NEW sdk \in SdkRecords, NEW items \in Seq(XmlItems)
  PROVE  LET r == FoldLeft(AddItem, sdk, items)
         IN  /\ r \in SdkRecords
             /\ r.type = sdk.type
             /\ r.version = sdk.version
             /\ \A v \in DOMAIN Stem : FeatureFrom(r.features, sdk, items, v)
<1>1. PICK n \in Nat : n = Len(items) /\ DOMAIN items = 1 .. n
  BY LenProperties
<1>. DEFINE has(f, v, k) ==
              IF v \in DOMAIN sdk.features
              THEN v \in DOMAIN f /\ f[v] = sdk.features[v]
              ELSE IF UpTo(items, v, k) = {}
                   THEN v \notin DOMAIN f
                   ELSE /\ v \in DOMAIN f
                        /\ f[v] = items[First(UpTo(items, v, k))].content % UnsignedRange
            S == [k \in 0 .. n |->
                    {s \in SdkRecords : /\ s.type = sdk.type
                                        /\ s.version = sdk.version
                                        /\ \A v \in DOMAIN Stem : has(s.features, v, k)}]
<1>2. sdk \in S[0]
  <2>1. \A v : UpTo(items, v, 0) = {}
    BY <1>1 DEF UpTo, Positions
  <2>. QED
    BY <2>1
<1>3. ASSUME NEW k \in 1 .. n, NEW s \in S[k - 1]
      PROVE  AddItem(s, items[k]) \in S[k]
  <2>1. PICK item \in XmlItems : item = items[k]
    BY <1>1
  <2>2. PICK r \in SdkRecords : /\ r = AddItem(s, item)
                                /\ r.type = sdk.type /\ r.version = sdk.version
    BY AddItemKeeps
  <2>3. ASSUME NEW v \in DOMAIN Stem
        PROVE  has(r.features, v, k)
    <3>1. has(s.features, v, k - 1)
      BY <1>3
    <3>. HIDE DEF has
    <3>2. k \in Positions(items, v) <=> item.name = "ExternalSDK" /\ item.version = v
      BY <1>1, <2>1 DEF Positions
    <3>3. UpTo(items, v, k) = UpTo(items, v, k - 1) \cup
                               (IF k \in Positions(items, v) THEN {k} ELSE {})
      BY <1>1 DEF UpTo, Positions
    <3>4. UpTo(items, v, k - 1) \subseteq Nat /\ \A y \in UpTo(items, v, k - 1) : y < k
      BY <1>1 DEF UpTo, Positions
    <3>5. CASE k \in Positions(items, v) /\ v \notin DOMAIN s.features
      <4>1. v \in DOMAIN r.features /\ r.features[v] = items[k].content % UnsignedRange
        <5>1. item.name = "ExternalSDK" /\ item.version = v /\ v # NoText
          BY <3>2, <3>5, TextsAssumption
        <5>2. r = [s EXCEPT !.features = [u \in DOMAIN s.features \cup {v} |->
                     IF u = v THEN item.content % UnsignedRange ELSE s.features[u]]]
          BY <2>2, <3>5, <5>1 DEF AddItem, AddExternalSDKItem
        <5>. QED
          BY <2>1, <5>2 DEF SdkRecords
      <4>2. v \notin DOMAIN sdk.features /\ UpTo(items, v, k - 1) = {}
        BY <3>1, <3>5 DEF has
      <4>3. UpTo(items, v, k) = {k}
        BY <3>3, <3>5, <4>2
      <4>4. First({k}) = k
        BY FirstIs
      <4>. QED
        BY <4>1, <4>2, <4>3, <4>4 DEF has
    <3>6. CASE k \notin Positions(items, v) \/ v \in DOMAIN s.features
      <4>1. /\ v \in DOMAIN r.features <=> v \in DOMAIN s.features
            /\ v \in DOMAIN s.features => r.features[v] = s.features[v]
        <5>1. CASE r = s
          BY <5>1
        <5>2. CASE r # s
          <6>. DEFINE u == item.version
          <6>1. u \notin DOMAIN s.features /\ item.name = "ExternalSDK"
            BY <2>2, <5>2 DEF AddItem, AddExternalSDKItem
          <6>2. r = [s EXCEPT !.features = [w \in DOMAIN s.features \cup {u} |->
                       IF w = u THEN item.content % UnsignedRange ELSE s.features[w]]]
            BY <2>2, <5>2 DEF AddItem, AddExternalSDKItem
          <6>3. v # u
            BY <3>2, <3>6, <6>1
          <6>4. r.features = [w \in DOMAIN s.features \cup {u} |->
                       IF w = u THEN item.content % UnsignedRange ELSE s.features[w]]
            BY <6>2 DEF SdkRecords
          <6>. HIDE DEF u
          <6>. QED
            BY <6>3, <6>4
        <5>. QED
          BY <5>1, <5>2
      <4>2. /\ UpTo(items, v, k) = {} <=> UpTo(items, v, k - 1) = {}
            /\ UpTo(items, v, k - 1) # {} =>
                 First(UpTo(items, v, k)) = First(UpTo(items, v, k - 1))
            \/ v \in DOMAIN sdk.features
        <5>1. CASE k \notin Positions(items, v)
          BY <3>3, <5>1
        <5>2. CASE v \in DOMAIN s.features /\ v \notin DOMAIN sdk.features
          <6>1. UpTo(items, v, k - 1) # {}
            BY <3>1, <5>2 DEF has
          <6>2. PICK x \in UpTo(items, v, k - 1) :
                  /\ x = First(UpTo(items, v, k - 1))
                  /\ \A y \in UpTo(items, v, k - 1) : x <= y
            BY <3>4, <6>1, FirstLeast
          <6>3. /\ x \in UpTo(items, v, k) /\ UpTo(items, v, k) \subseteq Nat
                /\ \A y \in UpTo(items, v, k) : x <= y
            BY <3>3, <3>4, <6>2
          <6>4. First(UpTo(items, v, k)) = x
            BY <6>3, FirstIs
          <6>. QED
            BY <6>1, <6>2, <6>3, <6>4
        <5>. QED
          BY <3>6, <5>1, <5>2
      <4>. QED
        BY <3>1, <4>1, <4>2 DEF has
    <3>. QED
      BY <3>5, <3>6
  <2>4. k \in 0 .. n
    BY <1>1
  <2>. HIDE DEF has
  <2>. QED
    BY <2>1, <2>2, <2>3, <2>4
<1>4. FoldLeft(AddItem, sdk, items) \in S[n]
  <2>. HIDE DEF S
  <2>. QED
    BY <1>1, <1>2, <1>3, FoldReaches
<1>5. \A v : UpTo(items, v, n) = Positions(items, v)
  BY <1>1 DEF UpTo, Positions
<1>. QED
  BY <1>4, <1>5 DEF FeatureFrom

(* What a file leaves in mData (ParserAdds): what is there keeps its names *)
(* and versions, one SDK comes behind it when its name is new, and one at  *)
(* most gets the features: the new one or the first of its name.           *)
Gets(after, data, doc, k, sdk) ==
  /\ \A v \in DOMAIN Stem : FeatureFrom(after[k].features, sdk, doc.items, v)
  /\ \A j \in 1 .. Len(data) : j # k => after[j] = data[j]

(* after is data with the items of doc in its SDK at k.                    *)
Filled(after, data, doc, k) ==
  /\ after \in Seq(SdkRecords)
  /\ Len(after) = Len(data)
  /\ \A j \in 1 .. Len(data) : /\ after[j].type = data[j].type
                               /\ after[j].version = data[j].version
                               /\ j # k => after[j] = data[j]
  /\ \A v \in DOMAIN Stem : FeatureFrom(after[k].features, data[k], doc.items, v)

LEMMA ParserAdds ==
  ASSUME NEW data \in Seq(SdkRecords), NEW doc \in Documents
  PROVE  /\ Parser(data, doc) \in Seq(SdkRecords)
         /\ Len(Parser(data, doc)) = Len(data) + (IF Generates(data, doc) THEN 1 ELSE 0)
         /\ \A j \in 1 .. Len(data) :
              /\ Parser(data, doc)[j].type = data[j].type
              /\ Parser(data, doc)[j].version = data[j].version
         /\ Generates(data, doc) =>
              /\ Parser(data, doc)[Len(data) + 1].type = doc.root
              /\ Parser(data, doc)[Len(data) + 1].version = doc.version
              /\ Gets(Parser(data, doc), data, doc, Len(data) + 1,
                      NewVrSDK(doc.root, doc.version))
         /\ Usable(doc) /\ ~Generates(data, doc) =>
              \E k \in 1 .. Len(data) : /\ data[k].type = doc.root
                                        /\ Gets(Parser(data, doc), data, doc, k, data[k])
         /\ ~Usable(doc) => Parser(data, doc) = data
<1>1. PICK n \in Nat : n = Len(data) /\ DOMAIN data = 1 .. n
  BY LenProperties
<1>2. \A j \in 1 .. n : data[j] \in SdkRecords
  BY <1>1, ElementOfSeq
<1>3. CASE ~Usable(doc)
  BY <1>1, <1>3 DEF Parser, Generates
<1>4. CASE Usable(doc)
  <2>1. /\ doc.root \in DOMAIN Lower
        /\ doc.version \in DOMAIN Clip
        /\ doc.items \in Seq(XmlItems)
    BY <1>4, DocumentsAssumption DEF Usable, XmlDocuments
  <2>. DEFINE with(generated, sdk) ==
                [generated EXCEPT ![sdk] = FoldLeft(AddItem, @, doc.items)]
  <2>2. ASSUME NEW generated \in Seq(SdkRecords), NEW sdk \in 1 .. Len(generated)
        PROVE  Filled(with(generated, sdk), generated, doc, sdk)
    <3>1. generated[sdk] \in SdkRecords
      BY <2>2, ElementOfSeq
    <3>2. PICK r \in SdkRecords :
            /\ r = FoldLeft(AddItem, generated[sdk], doc.items)
            /\ r.type = generated[sdk].type
            /\ r.version = generated[sdk].version
            /\ \A v \in DOMAIN Stem : FeatureFrom(r.features, generated[sdk], doc.items, v)
      BY <2>1, <3>1, ItemsKeep
    <3>3. with(generated, sdk) = [generated EXCEPT ![sdk] = r]
      BY <3>2
    <3>. HIDE DEF with
    <3>4. /\ [generated EXCEPT ![sdk] = r] \in Seq(SdkRecords)
          /\ Len([generated EXCEPT ![sdk] = r]) = Len(generated)
          /\ \A j \in 1 .. Len(generated) :
               [generated EXCEPT ![sdk] = r][j] = IF j = sdk THEN r ELSE generated[j]
      BY <3>2, ExceptSeq
    <3>5. with(generated, sdk)[sdk] = r
      BY <3>3, <3>4
    <3>. QED
      BY <3>2, <3>3, <3>4, <3>5 DEF Filled
  <2>3. CASE Generates(data, doc)
    <3>1. PICK new \in SdkRecords : /\ new = NewVrSDK(doc.root, doc.version)
                                    /\ new.type = doc.root
                                    /\ new.version = doc.version
      <4>1. <<>> \in [{} -> 0 .. UnsignedRange - 1]
        OBVIOUS
      <4>2. <<>> \in FeatureMaps
        BY <4>1 DEF FeatureMaps
      <4>3. PICK f \in FeatureMaps : f = <<>>
        BY <4>2
      <4>4. NewVrSDK(doc.root, doc.version)
              = [type |-> doc.root, version |-> doc.version, features |-> f]
        BY <4>3 DEF NewVrSDK
      <4>. QED
        BY <2>1, <4>4 DEF SdkRecords
    <3>2. PICK g : g = Append(data, new)
      OBVIOUS
    <3>3. /\ g \in Seq(SdkRecords)
          /\ Len(g) = n + 1
          /\ \A j \in 1 .. n : g[j] = data[j]
          /\ g[n + 1] = new
      BY <1>1, <3>2, AppendProperties
    <3>4. PICK after : after = with(g, n + 1) /\ after = Parser(data, doc)
      BY <1>4, <2>3, <3>1, <3>2, <3>3 DEF Parser
    <3>. HIDE DEF with
    <3>5. n + 1 \in 1 .. Len(g) /\ \A j \in 1 .. n : j \in 1 .. Len(g) /\ j # n + 1
      BY <3>3
    <3>6. Filled(after, g, doc, n + 1)
      BY <2>2, <3>3, <3>4, <3>5
    <3>7. /\ after \in Seq(SdkRecords) /\ Len(after) = n + 1
          /\ \A j \in 1 .. n : after[j].type = data[j].type /\ after[j].version = data[j].version
          /\ after[n + 1].type = doc.root /\ after[n + 1].version = doc.version
      BY <3>1, <3>3, <3>5, <3>6 DEF Filled
    <3>8. Gets(after, data, doc, n + 1, new)
      BY <1>1, <3>3, <3>5, <3>6 DEF Gets, Filled
    <3>. QED
      BY <1>1, <1>4, <2>3, <3>1, <3>4, <3>7, <3>8
  <2>4. CASE ~Generates(data, doc)
    <3>1. PICK k \in 1 .. n : k = First(KnownSDK(data, doc.root)) /\ data[k].type = doc.root
      <4>1. KnownSDK(data, doc.root) # {} /\ KnownSDK(data, doc.root) \subseteq 1 .. n
        BY <1>1, <1>4, <2>4 DEF Generates, KnownSDK
      <4>2. First(KnownSDK(data, doc.root)) \in KnownSDK(data, doc.root)
        BY <4>1, FirstLeast
      <4>. QED
        BY <4>1, <4>2 DEF KnownSDK
    <3>2. PICK after : after = with(data, k) /\ after = Parser(data, doc)
      BY <1>4, <2>4, <3>1 DEF Parser
    <3>. HIDE DEF with
    <3>3. Filled(after, data, doc, k)
      BY <1>1, <2>2, <3>2
    <3>4. Gets(after, data, doc, k, data[k])
      BY <1>1, <3>3 DEF Gets, Filled
    <3>. QED
      BY <1>1, <1>4, <2>4, <3>1, <3>2, <3>3, <3>4 DEF Filled
  <2>. QED
    BY <2>3, <2>4
<1>. QED
  BY <1>3, <1>4

-----------------------------------------------------------------------------
(* mData has the names of the usable files that were parsed, in the order  *)
(* of the first file of each name and with its version; the features are   *)
(* the numbers the files of that name bring; and a property, also one that *)
(* was set before a restart, has the version of such a first file.         *)

FirstOf(i) ==
  /\ Usable(files[i])
  /\ \A k \in 1 .. i - 1 : Usable(files[k]) => files[k].root # files[i].root

Basics ==
  /\ files \in [1 .. FileCount -> Documents]
  /\ next \in 1 .. FileCount + 1
  /\ mData \in Seq(SdkRecords)
  /\ properties \in [Types -> DOMAIN Clip \cup {NoText}]

DataFromFiles ==
  /\ \A j \in DOMAIN mData : \E i \in 1 .. next - 1 :
       FirstOf(i) /\ mData[j].type = files[i].root /\ mData[j].version = files[i].version
  /\ \A i \in 1 .. next - 1 : Usable(files[i]) =>
       \E j \in DOMAIN mData : mData[j].type = files[i].root

InOrder ==
  \A j, k \in DOMAIN mData, a, b \in 1 .. next - 1 :
    (/\ FirstOf(a) /\ mData[j].type = files[a].root
     /\ FirstOf(b) /\ mData[k].type = files[b].root
     /\ j < k) => a < b

HasNumber(features, root, v) ==
  IF Naming(root, v) = {}
  THEN v \notin DOMAIN features
  ELSE v \in DOMAIN features /\ features[v] = Number(root, v)

FeaturesFromFiles ==
  \A j \in DOMAIN mData, v \in DOMAIN Stem :
    HasNumber(mData[j].features, mData[j].type, v)

PropertiesFromFiles ==
  \A t \in Types : properties[t] # NoText =>
    \E i \in 1 .. FileCount :
      FirstOf(i) /\ Lower[files[i].root] = t /\ properties[t] = files[i].version

LoadInv == Basics /\ DataFromFiles /\ InOrder /\ FeaturesFromFiles /\ PropertiesFromFiles

(* No two files are the first of one name, and no two SDKs have one.       *)
LEMMA FirstUnique ==
  ASSUME NEW a \in Nat \ {0}, NEW b \in Nat \ {0}, FirstOf(a), FirstOf(b),
         files[a].root = files[b].root
  PROVE  a = b
<1>1. ~(a < b) /\ ~(b < a)
  BY DEF FirstOf
<1>. QED
  BY <1>1

LEMMA TypesDiffer ==
  ASSUME LoadInv, NEW j \in DOMAIN mData, NEW k \in DOMAIN mData, j # k
  PROVE  mData[j].type # mData[k].type
<1>1. PICK n \in Nat : DOMAIN mData = 1 .. n
  BY LenProperties DEF LoadInv, Basics
<1>2. ASSUME NEW a \in 1 .. n, NEW b \in 1 .. n, a < b, mData[a].type = mData[b].type
      PROVE  FALSE
  <2>1. PICK i \in 1 .. next - 1 : FirstOf(i) /\ mData[a].type = files[i].root
    BY <1>1 DEF LoadInv, DataFromFiles
  <2>2. i < i
    BY <1>1, <1>2, <2>1 DEF LoadInv, InOrder
  <2>3. i \in Int
    BY DEF LoadInv, Basics
  <2>. QED
    BY <2>2, <2>3
<1>3. j < k \/ k < j
  BY <1>1
<1>. QED
  BY <1>1, <1>2, <1>3

(* What one more file does to the number of a version.                     *)
LEMMA NumberParsed ==
  ASSUME LoadInv, next' = next + 1, files' = files,
         NEW root, NEW v, NEW f, NEW sdk, NEW doc, doc = files[next],
         HasNumber(sdk.features, root, v),
         IF Usable(doc) /\ doc.root = root THEN FeatureFrom(f, sdk, doc.items, v)
         ELSE f = sdk.features
  PROVE  HasNumber(f, root, v)'
<1>1. next \in Nat \ {0} /\ next' - 1 = next
  BY DocumentsAssumption DEF LoadInv, Basics
<1>2. PICK old, now : old = Naming(root, v) /\ now = Naming(root, v)'
  OBVIOUS
<1>3. old = {i \in 1 .. next - 1 : /\ Usable(files[i]) /\ files[i].root = root
                                   /\ Positions(files[i].items, v) # {}}
  BY <1>2 DEF Naming, Parsed
<1>4. now = {i \in 1 .. next : /\ Usable(files[i]) /\ files[i].root = root
                               /\ Positions(files[i].items, v) # {}}
  BY <1>1, <1>2 DEF Naming, Parsed
<1>5. PICK n, m : n = Number(root, v) /\ m = Number(root, v)'
  OBVIOUS
<1>6. /\ n = IF old = {} THEN 0
             ELSE files[First(old)].items[First(Positions(files[First(old)].items, v))].content
                    % UnsignedRange
      /\ m = IF now = {} THEN 0
             ELSE files[First(now)].items[First(Positions(files[First(now)].items, v))].content
                    % UnsignedRange
  BY <1>2, <1>5 DEF Number
<1>7. SUFFICES IF now = {} THEN v \notin DOMAIN f ELSE v \in DOMAIN f /\ f[v] = m
  BY <1>2, <1>5 DEF HasNumber
<1>8. IF old = {} THEN v \notin DOMAIN sdk.features
      ELSE v \in DOMAIN sdk.features /\ sdk.features[v] = n
  BY <1>2, <1>5 DEF HasNumber
<1>9. CASE old # {}
  <2>1. PICK x \in old : x = First(old) /\ \A y \in old : x <= y
    <3>1. old \subseteq Nat
      BY <1>3
    <3>. QED
      BY <1>9, <3>1, FirstLeast
  <2>2. x \in now /\ now \subseteq Nat /\ \A y \in now : x <= y
    <3>1. x \in 1 .. next - 1 /\ x \in now
      BY <1>1, <1>3, <1>4, <2>1
    <3>2. \A y \in now : y \in old \/ y = next
      BY <1>1, <1>3, <1>4
    <3>3. x <= next /\ now \subseteq Nat
      BY <1>1, <1>4, <3>1
    <3>. QED
      BY <2>1, <3>1, <3>2, <3>3
  <2>3. First(now) = x
    BY <2>2, FirstIs
  <2>4. m = n /\ now # {}
    BY <1>6, <1>9, <2>1, <2>2, <2>3
  <2>. QED
    BY <1>8, <1>9, <2>4 DEF FeatureFrom
<1>10. CASE old = {} /\ Usable(doc) /\ doc.root = root /\ Positions(doc.items, v) # {}
  <2>1. now = {next}
    BY <1>1, <1>3, <1>4, <1>10
  <2>2. First(now) = next
    BY <1>1, <2>1, FirstIs
  <2>3. m = doc.items[First(Positions(doc.items, v))].content % UnsignedRange
    BY <1>6, <2>1, <2>2
  <2>. QED
    BY <1>8, <1>10, <2>1, <2>3 DEF FeatureFrom
<1>11. CASE old = {} /\ ~(Usable(doc) /\ doc.root = root /\ Positions(doc.items, v) # {})
  <2>1. now = {}
    BY <1>1, <1>3, <1>4, <1>11
  <2>. QED
    BY <1>8, <1>11, <2>1 DEF FeatureFrom
<1>. QED
  BY <1>9, <1>10, <1>11

LEMMA InitLoad == Init => LoadInv
<1>. SUFFICES ASSUME Init
              PROVE  LoadInv
  OBVIOUS
<1>1. Basics
  BY DocumentsAssumption, EmptySeq DEF Init, Basics
<1>2. DataFromFiles
  BY DocumentsAssumption DEF Init, DataFromFiles
<1>3. PropertiesFromFiles
  BY DEF Init, PropertiesFromFiles
<1>4. InOrder /\ FeaturesFromFiles
  BY DEF Init, InOrder, FeaturesFromFiles
<1>. QED
  BY <1>1, <1>2, <1>3, <1>4 DEF LoadInv

LEMMA ParseLoad == LoadInv /\ ParseFile => LoadInv'
<1>. SUFFICES ASSUME LoadInv, ParseFile
              PROVE  LoadInv'
  OBVIOUS
<1>. USE DEF LoadInv
<1>1. /\ FileCount \in Nat
      /\ next \in 1 .. FileCount
      /\ next' = next + 1
      /\ files' = files
      /\ files \in [1 .. FileCount -> Documents]
      /\ mData \in Seq(SdkRecords)
  BY DocumentsAssumption DEF ParseFile, Basics
<1>2. PICK doc \in Documents : doc = files[next]
  BY <1>1
<1>3. PICK n \in Nat : n = Len(mData) /\ DOMAIN mData = 1 .. n
  BY <1>1, LenProperties
<1>4. PICK m \in {n, n + 1} :
        /\ mData' \in Seq(SdkRecords)
        /\ DOMAIN mData' = 1 .. m
        /\ Generates(mData, doc) <=> m = n + 1
        /\ \A j \in 1 .. n : mData'[j].type = mData[j].type /\ mData'[j].version = mData[j].version
        /\ Generates(mData, doc) =>
             mData'[n + 1].type = doc.root /\ mData'[n + 1].version = doc.version
  <2>1. mData' = Parser(mData, doc)
    BY <1>2 DEF ParseFile
  <2>2. mData' \in Seq(SdkRecords)
    BY <1>1, <2>1, ParserAdds
  <2>3. DOMAIN mData' = 1 .. Len(mData')
    BY <2>2, LenProperties
  <2>4. Len(mData') = n + (IF Generates(mData, doc) THEN 1 ELSE 0)
    BY <1>1, <1>3, <2>1, ParserAdds
  <2>5. /\ \A j \in 1 .. n : mData'[j].type = mData[j].type /\ mData'[j].version = mData[j].version
        /\ Generates(mData, doc) =>
             mData'[n + 1].type = doc.root /\ mData'[n + 1].version = doc.version
    BY <1>1, <1>3, <2>1, ParserAdds
  <2>. QED
    BY <2>2, <2>3, <2>4, <2>5
<1>5. /\ Generates(mData, doc) =>
           Gets(mData', mData, doc, n + 1, NewVrSDK(doc.root, doc.version))
      /\ Usable(doc) /\ ~Generates(mData, doc) =>
           \E k \in 1 .. n : /\ mData[k].type = doc.root
                             /\ Gets(mData', mData, doc, k, mData[k])
      /\ ~Usable(doc) => mData' = mData
  <2>1. mData' = Parser(mData, doc)
    BY <1>2 DEF ParseFile
  <2>. QED
    BY <1>1, <1>3, <2>1, ParserAdds
<1>6. \A i : FirstOf(i)' <=> FirstOf(i)
  BY <1>1 DEF FirstOf
<1>7. ASSUME Generates(mData, doc)
      PROVE  FirstOf(next) /\ doc.root \in DOMAIN Lower /\ doc.version \in DOMAIN Clip
  <2>1. Usable(doc) /\ \A j \in 1 .. n : mData[j].type # doc.root
    BY <1>3, <1>7 DEF Generates, KnownSDK
  <2>2. \A k \in 1 .. next - 1 : Usable(files[k]) => files[k].root # doc.root
    BY <1>3, <2>1 DEF DataFromFiles
  <2>3. doc.root \in DOMAIN Lower /\ doc.version \in DOMAIN Clip
    BY <2>1, DocumentsAssumption DEF Usable, XmlDocuments
  <2>. QED
    BY <1>2, <2>1, <2>2, <2>3 DEF FirstOf
<1>8. \/ properties' = properties
      \/ /\ Generates(mData, doc)
         /\ properties' = [properties EXCEPT ![Lower[doc.root]] = doc.version]
  BY <1>2 DEF ParseFile
<1>9. Basics'
  <2>1. properties' \in [Types -> DOMAIN Clip \cup {NoText}]
    <3>1. CASE properties' = properties
      BY <3>1 DEF Basics
    <3>2. CASE properties' # properties
      <4>1. doc.version \in DOMAIN Clip
        BY <1>7, <1>8, <3>2
      <4>. QED
        BY <1>8, <3>2, <4>1 DEF Basics
    <3>. QED
      BY <3>1, <3>2
  <2>. QED
    BY <1>1, <1>4, <2>1 DEF Basics
<1>10. DataFromFiles'
  <2>1. ASSUME NEW j \in 1 .. m
        PROVE  \E i \in 1 .. next : /\ FirstOf(i)
                                    /\ mData'[j].type = files[i].root
                                    /\ mData'[j].version = files[i].version
    <3>1. CASE j \in 1 .. n
      <4>1. PICK i \in 1 .. next - 1 : /\ FirstOf(i)
                                       /\ mData[j].type = files[i].root
                                       /\ mData[j].version = files[i].version
        BY <1>3, <3>1 DEF DataFromFiles
      <4>2. i \in 1 .. next
        BY <1>1
      <4>. QED
        BY <1>4, <3>1, <4>1, <4>2
    <3>2. CASE j \notin 1 .. n
      <4>1. m = n + 1 /\ j = n + 1 /\ Generates(mData, doc)
        BY <1>3, <1>4, <3>2
      <4>2. next \in 1 .. next
        BY <1>1
      <4>. QED
        BY <1>2, <1>4, <1>7, <4>1, <4>2
    <3>. QED
      BY <3>1, <3>2
  <2>2. ASSUME NEW i \in 1 .. next, Usable(files[i])
        PROVE  \E j \in 1 .. m : mData'[j].type = files[i].root
    <3>1. CASE i = next
      <4>1. CASE Generates(mData, doc)
        <5>1. n + 1 \in 1 .. m
          BY <1>3, <1>4, <4>1
        <5>. QED
          BY <1>2, <1>4, <3>1, <4>1, <5>1
      <4>2. CASE ~Generates(mData, doc)
        <5>1. PICK j \in 1 .. n : mData[j].type = doc.root
          BY <1>2, <1>3, <2>2, <3>1, <4>2 DEF Generates, KnownSDK
        <5>2. j \in 1 .. m
          BY <1>4
        <5>. QED
          BY <1>2, <1>4, <3>1, <5>1, <5>2
      <4>. QED
        BY <4>1, <4>2
    <3>2. CASE i # next
      <4>1. i \in 1 .. next - 1
        BY <1>1, <3>2
      <4>2. PICK j \in 1 .. n : mData[j].type = files[i].root
        BY <1>3, <2>2, <4>1 DEF DataFromFiles
      <4>3. j \in 1 .. m
        BY <1>4
      <4>. QED
        BY <1>4, <4>2, <4>3
    <3>. QED
      BY <3>1, <3>2
  <2>3. next' - 1 = next
    BY <1>1
  <2>4. \A j \in DOMAIN mData' : \E i \in 1 .. next' - 1 :
          /\ FirstOf(i)'
          /\ mData'[j].type = files'[i].root
          /\ mData'[j].version = files'[i].version
    BY <1>1, <1>4, <1>6, <2>1, <2>3
  <2>5. \A i \in 1 .. next' - 1 : Usable(files'[i]) =>
          \E j \in DOMAIN mData' : mData'[j].type = files'[i].root
    BY <1>1, <1>4, <2>2, <2>3
  <2>. HIDE DEF LoadInv
  <2>. QED
    BY <2>4, <2>5 DEF DataFromFiles
<1>11. PropertiesFromFiles'
  <2>1. ASSUME NEW t \in Types, properties'[t] # NoText
        PROVE  \E i \in 1 .. FileCount :
                 FirstOf(i) /\ Lower[files[i].root] = t /\ properties'[t] = files[i].version
    <3>1. CASE properties'[t] = properties[t]
      BY <2>1, <3>1 DEF PropertiesFromFiles
    <3>2. CASE properties'[t] # properties[t]
      <4>1. Generates(mData, doc) /\ t = Lower[doc.root] /\ properties'[t] = doc.version
        BY <1>8, <3>2 DEF Basics
      <4>. QED
        BY <1>1, <1>2, <1>7, <4>1
    <3>. QED
      BY <3>1, <3>2
  <2>. QED
    BY <1>1, <1>6, <2>1 DEF PropertiesFromFiles
<1>12. InOrder'
  <2>1. ASSUME NEW j \in 1 .. m, NEW k \in 1 .. m, NEW a \in 1 .. next, NEW b \in 1 .. next,
               FirstOf(a), mData'[j].type = files[a].root,
               FirstOf(b), mData'[k].type = files[b].root, j < k
        PROVE  a < b
    <3>1. ASSUME NEW i \in 1 .. n, NEW c \in 1 .. next,
                 FirstOf(c), mData'[i].type = files[c].root
          PROVE  c \in 1 .. next - 1 /\ mData[i].type = files[c].root
      <4>1. mData[i].type = files[c].root
        BY <1>4, <3>1
      <4>2. PICK l \in 1 .. next - 1 : FirstOf(l) /\ mData[i].type = files[l].root
        BY <1>3 DEF DataFromFiles
      <4>3. c \in Nat \ {0} /\ l \in Nat \ {0}
        BY <1>1
      <4>4. c = l
        BY <3>1, <4>1, <4>2, <4>3, FirstUnique
      <4>. QED
        BY <4>1, <4>4
    <3>2. j \in 1 .. n
      BY <2>1
    <3>3. a \in 1 .. next - 1 /\ mData[j].type = files[a].root
      BY <2>1, <3>1, <3>2
    <3>4. CASE k \in 1 .. n
      <4>1. b \in 1 .. next - 1 /\ mData[k].type = files[b].root
        BY <2>1, <3>1, <3>4
      <4>. QED
        BY <1>3, <2>1, <3>2, <3>3, <3>4, <4>1 DEF InOrder
    <3>5. CASE k \notin 1 .. n
      <4>1. m = n + 1 /\ k = n + 1 /\ Generates(mData, doc)
        BY <1>3, <1>4, <3>5
      <4>2. b = next
        BY <1>1, <1>2, <1>4, <1>7, <2>1, <4>1, FirstUnique
      <4>. QED
        BY <1>1, <3>3, <4>2
    <3>. QED
      BY <3>4, <3>5
  <2>2. \A j, k \in 1 .. m, a, b \in 1 .. next' - 1 :
          (/\ FirstOf(a)' /\ mData'[j].type = files'[a].root
           /\ FirstOf(b)' /\ mData'[k].type = files'[b].root
           /\ j < k) => a < b
    <3>1. next' - 1 = next
      BY <1>1
    <3>. QED
      BY <1>1, <1>6, <2>1, <3>1
  <2>. HIDE DEF LoadInv
  <2>. QED
    BY <1>4, <2>2 DEF InOrder
<1>13. FeaturesFromFiles'
  <2>1. ASSUME NEW j \in 1 .. m, NEW v \in DOMAIN Stem, NEW after, after = mData'[j]
        PROVE  HasNumber(after.features, after.type, v)'
    <3>1. ASSUME j \in 1 .. n, after = mData[j], ~Usable(doc) \/ mData[j].type # doc.root
          PROVE  HasNumber(after.features, after.type, v)'
      <4>1. HasNumber(after.features, after.type, v)
        BY <1>3, <3>1 DEF FeaturesFromFiles
      <4>. HIDE DEF LoadInv
      <4>. QED
        BY <1>1, <1>2, <3>1, <4>1, NumberParsed
    <3>2. CASE ~Usable(doc)
      <4>1. mData' = mData /\ m = n
        BY <1>3, <1>4, <1>5, <3>2 DEF Generates
      <4>. QED
        BY <2>1, <3>1, <3>2, <4>1
    <3>3. CASE Generates(mData, doc)
      <4>1. PICK sdk : sdk = NewVrSDK(doc.root, doc.version)
        OBVIOUS
      <4>2. Gets(mData', mData, doc, n + 1, sdk)
        BY <1>3, <1>5, <3>3, <4>1
      <4>3. CASE j \in 1 .. n
        <5>1. after = mData[j] /\ mData[j].type # doc.root
          BY <1>3, <2>1, <3>3, <4>2, <4>3 DEF Gets, Generates, KnownSDK
        <5>. QED
          BY <3>1, <4>3, <5>1
      <4>4. CASE j \notin 1 .. n
        <5>1. j = n + 1 /\ after.type = doc.root
          BY <1>4, <2>1, <3>3, <4>4
        <5>2. FeatureFrom(after.features, sdk, doc.items, v)
          BY <2>1, <4>2, <5>1 DEF Gets
        <5>3. Naming(doc.root, v) = {}
          BY <1>2, <1>7, <3>3 DEF FirstOf, Naming, Parsed
        <5>4. HasNumber(sdk.features, doc.root, v)
          BY <4>1, <5>3 DEF HasNumber, NewVrSDK
        <5>5. Usable(doc)
          BY <3>3 DEF Generates
        <5>. HIDE DEF LoadInv
        <5>. QED
          BY <1>1, <1>2, <5>1, <5>2, <5>4, <5>5, NumberParsed
      <4>. QED
        BY <4>3, <4>4
    <3>4. CASE Usable(doc) /\ ~Generates(mData, doc)
      <4>1. PICK k \in 1 .. n : mData[k].type = doc.root /\ Gets(mData', mData, doc, k, mData[k])
        BY <1>3, <1>5, <3>4
      <4>2. j \in 1 .. n
        BY <1>4, <3>4
      <4>3. CASE j = k
        <5>1. after.type = doc.root /\ FeatureFrom(after.features, mData[k], doc.items, v)
          BY <1>4, <2>1, <4>1, <4>3 DEF Gets
        <5>2. HasNumber(mData[k].features, doc.root, v)
          BY <1>3, <4>1 DEF FeaturesFromFiles
        <5>. HIDE DEF LoadInv
        <5>. QED
          BY <1>1, <1>2, <3>4, <5>1, <5>2, NumberParsed
      <4>4. CASE j # k
        <5>1. after = mData[j]
          BY <1>3, <2>1, <4>1, <4>2, <4>4 DEF Gets
        <5>2. mData[j].type # doc.root
          <6>. HIDE DEF LoadInv
          <6>. QED
            BY <1>3, <4>1, <4>2, <4>4, TypesDiffer
        <5>. QED
          BY <3>1, <4>2, <5>1, <5>2
      <4>. QED
        BY <4>3, <4>4
    <3>. QED
      BY <3>2, <3>3, <3>4
  <2>2. ASSUME NEW j \in DOMAIN mData', NEW v \in DOMAIN Stem
        PROVE  HasNumber(mData[j].features, mData[j].type, v)'
    <3>1. PICK after : after = mData'[j]
      OBVIOUS
    <3>2. HasNumber(after.features, after.type, v)'
      BY <1>4, <2>1, <3>1
    <3>. QED
      BY <3>1, <3>2 DEF HasNumber, Number, Naming
  <2>. HIDE DEF LoadInv
  <2>. QED
    BY <2>2 DEF FeaturesFromFiles
<1>. QED
  BY <1>9, <1>10, <1>11, <1>12, <1>13

LEMMA StepLoad == LoadInv /\ [Next]_vars => LoadInv'
<1>. SUFFICES ASSUME LoadInv, [Next]_vars
              PROVE  LoadInv'
  OBVIOUS
<1>1. CASE ParseFile
  BY <1>1, ParseLoad
<1>2. CASE Restart
  <2>1. Basics'
    BY <1>2, DocumentsAssumption, EmptySeq DEF Restart, LoadInv, Basics
  <2>2. DataFromFiles'
    BY <1>2 DEF Restart, DataFromFiles
  <2>3. PropertiesFromFiles'
    BY <1>2 DEF Restart, LoadInv, PropertiesFromFiles, FirstOf
  <2>4. InOrder' /\ FeaturesFromFiles'
    BY <1>2 DEF Restart, InOrder, FeaturesFromFiles
  <2>. QED
    BY <2>1, <2>2, <2>3, <2>4 DEF LoadInv
<1>3. CASE UNCHANGED vars
  <2>1. Basics' /\ DataFromFiles' /\ InOrder' /\ PropertiesFromFiles'
    BY <1>3 DEF vars, LoadInv, Basics, DataFromFiles, InOrder, PropertiesFromFiles, FirstOf
  <2>2. \A f, root, v : HasNumber(f, root, v)' <=> HasNumber(f, root, v)
    BY <1>3 DEF vars, HasNumber, Number, Naming, Parsed
  <2>3. FeaturesFromFiles'
    BY <1>3, <2>2 DEF vars, LoadInv, FeaturesFromFiles
  <2>. QED
    BY <2>1, <2>3 DEF LoadInv
<1>. QED
  BY <1>1, <1>2, <1>3 DEF Next

LEMMA SpecLoad == Spec => []LoadInv
BY InitLoad, StepLoad, PTL DEF Spec

(* mData, the numbers in it and the properties keep their types.           *)
THEOREM TypeCorrect == Spec => []TypeOK
<1>1. LoadInv => TypeOK
  <2>. SUFFICES ASSUME LoadInv
                PROVE  TypeOK
    OBVIOUS
  <2>1. ASSUME NEW j \in DOMAIN mData
        PROVE  /\ mData[j].type \in DOMAIN Lower
               /\ mData[j].version \in DOMAIN Clip
               /\ \A v \in DOMAIN mData[j].features :
                    mData[j].features[v] \in 0 .. UnsignedRange - 1
    <3>1. mData[j] \in SdkRecords
      BY DEF LoadInv, Basics
    <3>. QED
      BY <3>1 DEF SdkRecords, FeatureMaps
  <2>. QED
    BY <2>1 DEF LoadInv, Basics, TypeOK
<1>. QED
  BY <1>1, SpecLoad, PTL

(* The constructor of VrSDK and processMessage: what the socket tells of a *)
(* version is what a reply holds of the property's value, or -2 when it is *)
(* empty, wherever the property could be set.                              *)
THEOREM PropertiesAgree == Spec => []PropertyAgrees
<1>1. ASSUME LoadInv, NEW t, OneName(t), SdksOfType(mData, t) # {},
             properties[t] # NoText, t \in Types
      PROVE  properties[t] = GetSDK(mData, t).version
  <2>1. PICK n \in Nat : DOMAIN mData = 1 .. n
    BY <1>1, LenProperties DEF LoadInv, Basics
  <2>2. SdksOfType(mData, t) \subseteq 1 .. n
    BY <2>1 DEF SdksOfType
  <2>3. PICK x \in SdksOfType(mData, t) : \A y \in SdksOfType(mData, t) : x <= y
    BY <1>1, <2>2, LeastNat
  <2>4. First(SdksOfType(mData, t)) \in SdksOfType(mData, t)
    BY <2>3, Zenon DEF First
  <2>5. PICK k \in 1 .. n : /\ GetSDK(mData, t) = mData[k]
                            /\ Lower[mData[k].type] = t
    BY <2>1, <2>4 DEF SdksOfType, GetSDK
  <2>6. PICK i \in 1 .. FileCount :
          FirstOf(i) /\ mData[k].type = files[i].root /\ mData[k].version = files[i].version
    <3>1. next - 1 \in Int /\ next - 1 <= FileCount /\ FileCount \in Nat
      BY <1>1, DocumentsAssumption DEF LoadInv, Basics
    <3>2. PICK i \in 1 .. next - 1 :
            FirstOf(i) /\ mData[k].type = files[i].root /\ mData[k].version = files[i].version
      BY <1>1, <2>1 DEF LoadInv, DataFromFiles
    <3>. QED
      BY <3>1, <3>2
  <2>7. PICK l \in 1 .. FileCount :
          FirstOf(l) /\ Lower[files[l].root] = t /\ properties[t] = files[l].version
    BY <1>1 DEF LoadInv, PropertiesFromFiles
  <2>8. files[i].root = files[l].root
    <3>1. DOMAIN files = 1 .. FileCount
      BY <1>1 DEF LoadInv, Basics
    <3>. QED
      BY <1>1, <2>5, <2>6, <2>7, <3>1 DEF OneName, FirstOf
  <2>9. i = l
    <3>1. ~(i < l) /\ ~(l < i)
      BY <2>6, <2>7, <2>8 DEF FirstOf
    <3>. QED
      BY <3>1
  <2>. QED
    BY <2>5, <2>6, <2>7, <2>9
<1>2. ASSUME LoadInv, NEW m \in Messages, Head(m).op = "version",
             OneName(Head(m).type), SdksOfType(mData, Head(m).type) # {},
             properties[Head(m).type] # NoText
      PROVE  ProcessMessage(mData, m) =
               IF properties[Head(m).type] = EmptyText THEN Error(-2)
               ELSE <<"version", Clip[properties[Head(m).type]]>>
  <2>1. PICK t : t = Head(m).type
    OBVIOUS
  <2>2. t \in Types
    <3>1. PICK i \in DOMAIN mData : Lower[mData[i].type] = t
      BY <1>2, <2>1 DEF SdksOfType
    <3>2. mData[i] \in SdkRecords
      BY <1>2 DEF LoadInv, Basics
    <3>. QED
      BY <3>1, <3>2 DEF SdkRecords, Types
  <2>3. properties[t] = GetSDK(mData, t).version
    BY <1>1, <1>2, <2>1, <2>2
  <2>4. ProcessMessage(mData, m) = AboutSDK(mData, m)
    BY <1>2 DEF ProcessMessage
  <2>5. AboutSDK(mData, m) = IF GetSDK(mData, t).version = EmptyText THEN Error(-2)
                             ELSE <<"version", Clip[GetSDK(mData, t).version]>>
    BY <1>2, <2>1 DEF AboutSDK
  <2>. QED
    BY <2>1, <2>3, <2>4, <2>5
<1>3. LoadInv => PropertyAgrees
  BY <1>2 DEF PropertyAgrees
<1>. QED
  BY <1>3, SpecLoad, PTL

-----------------------------------------------------------------------------
(* What processMessage reads is what the files say.                        *)

LEMMA Parsing ==
  ASSUME LoadInv
  PROVE  /\ next \in Nat /\ Parsed \subseteq Nat
         /\ Parsed = {i \in 1 .. next - 1 : Usable(files[i])}
         /\ \E n \in Nat : DOMAIN mData = 1 .. n
         /\ \A j \in DOMAIN mData : \E i \in Parsed :
              FirstOf(i) /\ mData[j].type = files[i].root /\ mData[j].version = files[i].version
         /\ \A i \in Parsed : \E j \in DOMAIN mData : mData[j].type = files[i].root
<1>1. next \in Nat
  BY DocumentsAssumption DEF LoadInv, Basics
<1>2. Parsed = {i \in 1 .. next - 1 : Usable(files[i])}
  BY DEF Parsed
<1>3. \E n \in Nat : DOMAIN mData = 1 .. n
  BY LenProperties DEF LoadInv, Basics
<1>4. \A j \in DOMAIN mData : \E i \in Parsed :
        FirstOf(i) /\ mData[j].type = files[i].root /\ mData[j].version = files[i].version
  BY <1>2 DEF LoadInv, DataFromFiles, FirstOf
<1>5. \A i \in Parsed : \E j \in DOMAIN mData : mData[j].type = files[i].root
  BY <1>2 DEF LoadInv, DataFromFiles
<1>6. Parsed \subseteq Nat
  BY <1>1, <1>2
<1>. QED
  BY <1>1, <1>2, <1>3, <1>4, <1>5, <1>6, Zenon

(* getAllSDKTypes: each root once, that of the first usable file first.    *)
LEMMA TypesFromFiles ==
  ASSUME LoadInv
  PROVE  /\ mData = <<>> <=> Parsed = {}
         /\ mData # <<>> =>
              /\ IsInjective(GetAllSDKTypes(mData))
              /\ ToSet(GetAllSDKTypes(mData)) = {files[i].root : i \in Parsed}
              /\ GetAllSDKTypes(mData)[1] = files[First(Parsed)].root
<1>1. PICK n \in Nat : DOMAIN mData = 1 .. n
  BY Parsing
<1>2. mData = <<>> <=> n = 0
  <2>1. mData \in Seq(SdkRecords)
    BY DEF LoadInv, Basics
  <2>. QED
    BY <1>1, <2>1, EmptySeq, LenProperties
<1>3. n = 0 <=> Parsed = {}
  <2>1. ASSUME n = 0
        PROVE  Parsed = {}
    BY <1>1, <2>1, Parsing
  <2>2. ASSUME n # 0
        PROVE  Parsed # {}
    <3>1. 1 \in DOMAIN mData
      BY <1>1, <2>2
    <3>. QED
      BY <3>1, Parsing
  <2>. QED
    BY <2>1, <2>2
<1>4. ASSUME n # 0
      PROVE  GetAllSDKTypes(mData)[1] = files[First(Parsed)].root
  <2>1. PICK p \in Parsed : p = First(Parsed) /\ \A i \in Parsed : p <= i
    BY <1>3, <1>4, FirstLeast, Parsing
  <2>2. PICK j \in 1 .. n : mData[j].type = files[p].root
    BY <1>1, Parsing
  <2>3. 1 \in 1 .. n
    BY <1>4
  <2>4. PICK a \in Parsed : FirstOf(a) /\ mData[1].type = files[a].root
    BY <1>1, <2>3, Parsing
  <2>5. p \in 1 .. next - 1 /\ a \in 1 .. next - 1 /\ p <= a
    BY <2>1, <2>4, Parsing
  <2>6. FirstOf(p)
    <3>1. Usable(files[p])
      BY Parsing
    <3>2. ASSUME NEW k \in 1 .. p - 1
          PROVE  ~Usable(files[k])
      <4>1. next \in Nat
        BY Parsing
      <4>2. k \in 1 .. next - 1 /\ ~(p <= k)
        BY <2>5, <4>1
      <4>3. k \notin Parsed
        BY <2>1, <4>2
      <4>. QED
        BY <4>2, <4>3, Parsing
    <3>. QED
      BY <3>1, <3>2 DEF FirstOf
  <2>7. ~(1 < j)
    <3>1. 1 < j => a < p
      BY <1>1, <2>2, <2>3, <2>4, <2>5, <2>6 DEF LoadInv, InOrder
    <3>2. next \in Nat
      BY Parsing
    <3>. QED
      BY <2>5, <3>1, <3>2
  <2>8. j = 1
    BY <2>7
  <2>. QED
    BY <1>1, <2>1, <2>2, <2>3, <2>8 DEF GetAllSDKTypes
<1>5. IsInjective(GetAllSDKTypes(mData))
  BY <1>1, TypesDiffer DEF IsInjective, GetAllSDKTypes
<1>6. ToSet(GetAllSDKTypes(mData)) = {files[i].root : i \in Parsed}
  <2>1. \A j \in DOMAIN mData : \E i \in Parsed : mData[j].type = files[i].root
    BY Parsing
  <2>2. \A i \in Parsed : \E j \in DOMAIN mData : mData[j].type = files[i].root
    BY Parsing
  <2>. QED
    BY <2>1, <2>2 DEF ToSet, GetAllSDKTypes
<1>. QED
  BY <1>2, <1>3, <1>4, <1>5, <1>6

(* getSDK: the SDK of the first usable file of this type, in any case.     *)
LEMMA SdkFromFile ==
  ASSUME LoadInv, NEW t
  PROVE  /\ SdksOfType(mData, t) = {} <=> AboutType(t) = {}
         /\ AboutType(t) # {} =>
              /\ GetSDK(mData, t).type = files[First(AboutType(t))].root
              /\ GetSDK(mData, t).version = files[First(AboutType(t))].version
              /\ \E j \in DOMAIN mData : GetSDK(mData, t) = mData[j]
<1>1. PICK n \in Nat : DOMAIN mData = 1 .. n
  BY Parsing
<1>2. /\ SdksOfType(mData, t) = {j \in 1 .. n : Lower[mData[j].type] = t}
      /\ AboutType(t) = {i \in Parsed : Lower[files[i].root] = t}
  BY <1>1 DEF SdksOfType, AboutType
<1>3. ASSUME NEW j \in SdksOfType(mData, t)
      PROVE  \E i \in AboutType(t) :
               FirstOf(i) /\ mData[j].type = files[i].root /\ mData[j].version = files[i].version
  BY <1>1, <1>2, Parsing
<1>4. ASSUME NEW i \in AboutType(t)
      PROVE  \E j \in SdksOfType(mData, t) : mData[j].type = files[i].root
  BY <1>1, <1>2, Parsing
<1>5. ASSUME AboutType(t) # {}
      PROVE  /\ GetSDK(mData, t).type = files[First(AboutType(t))].root
             /\ GetSDK(mData, t).version = files[First(AboutType(t))].version
             /\ \E j \in DOMAIN mData : GetSDK(mData, t) = mData[j]
  <2>1. PICK f \in AboutType(t) : f = First(AboutType(t)) /\ \A i \in AboutType(t) : f <= i
    <3>1. AboutType(t) \subseteq Nat
      BY <1>2, Parsing
    <3>. QED
      BY <1>5, <3>1, FirstLeast
  <2>2. PICK j \in SdksOfType(mData, t) : mData[j].type = files[f].root
    BY <1>4
  <2>3. PICK k \in SdksOfType(mData, t) :
          k = First(SdksOfType(mData, t)) /\ \A i \in SdksOfType(mData, t) : k <= i
    <3>1. SdksOfType(mData, t) \subseteq Nat
      BY <1>2
    <3>. QED
      BY <2>2, <3>1, FirstLeast
  <2>4. PICK a \in AboutType(t) :
          FirstOf(a) /\ mData[k].type = files[a].root /\ mData[k].version = files[a].version
    BY <1>3
  <2>5. /\ j \in 1 .. n /\ k \in 1 .. n /\ k <= j
        /\ f \in 1 .. next - 1 /\ a \in 1 .. next - 1 /\ f <= a /\ next \in Nat
    BY <1>2, <2>1, <2>3, Parsing
  <2>6. FirstOf(f)
    <3>1. Usable(files[f]) /\ Lower[files[f].root] = t
      BY <1>2, Parsing
    <3>2. ASSUME NEW i \in 1 .. f - 1, Usable(files[i]), files[i].root = files[f].root
          PROVE  FALSE
      <4>1. i \in 1 .. next - 1 /\ ~(f <= i)
        BY <2>5
      <4>2. i \in AboutType(t)
        BY <1>2, <3>1, <3>2, <4>1, Parsing
      <4>. QED
        BY <2>1, <4>1, <4>2
    <3>. QED
      BY <3>1, <3>2 DEF FirstOf
  <2>7. ~(k < j)
    <3>1. k < j => a < f
      BY <1>1, <2>2, <2>4, <2>5, <2>6 DEF LoadInv, InOrder
    <3>. QED
      BY <2>5, <3>1
  <2>8. k = j
    BY <2>5, <2>7
  <2>9. a = f
    <3>1. a \in Nat \ {0} /\ f \in Nat \ {0}
      BY <2>5
    <3>. QED
      BY <2>2, <2>4, <2>6, <2>8, <3>1, FirstUnique
  <2>. QED
    BY <1>1, <2>1, <2>3, <2>4, <2>5, <2>9 DEF GetSDK
<1>. QED
  BY <1>3, <1>4, <1>5

(* getFeature: the number of the first item, 0 when there is none.         *)
LEMMA FeatureFromFiles ==
  ASSUME LoadInv, NEW j \in DOMAIN mData, NEW v \in DOMAIN Stem
  PROVE  /\ GetFeature(mData[j], v) = Number(mData[j].type, Stem[v])
         /\ GetFeature(mData[j], v) \in Nat
<1>1. Stem[v] \in DOMAIN Stem
  BY TextsAssumption
<1>2. HasNumber(mData[j].features, mData[j].type, Stem[v])
  BY <1>1 DEF LoadInv, FeaturesFromFiles
<1>3. GetFeature(mData[j], v) = Number(mData[j].type, Stem[v])
  BY <1>2 DEF GetFeature, HasNumber, Number
<1>4. PICK D \in SUBSET DOMAIN Stem : mData[j].features \in [D -> 0 .. UnsignedRange - 1]
  <2>1. mData[j] \in SdkRecords
    BY DEF LoadInv, Basics
  <2>. QED
    BY <2>1 DEF SdkRecords, FeatureMaps
<1>5. GetFeature(mData[j], v) \in Nat
  BY <1>4, RangesAssumption DEF GetFeature
<1>. QED
  BY <1>3, <1>5

(* processMessage: the database answers what the files say.                *)
THEOREM AnswersMatch == Spec => []AnswersMatchFiles
<1>1. ASSUME LoadInv, NEW m \in Messages,
             NEW r, r = Head(m), NEW answer, answer = ProcessMessage(mData, m)
      PROVE  /\ r.op = "support" =>
                  \/ Parsed = {} /\ answer = Error(-2)
                  \/ /\ answer[1] = "types" /\ IsInjective(answer[2])
                     /\ ToSet(answer[2]) = {files[i].root : i \in Parsed}
                     /\ answer[2][1] = files[First(Parsed)].root
             /\ r.op \in {"version", "feature"} =>
                  (answer = Error(-3) <=> AboutType(r.type) = {})
             /\ r.op \in {"version", "feature"} /\ AboutType(r.type) # {} =>
                  LET file == files[First(AboutType(r.type))]
                      told == Number(file.root, Stem[r.feature])
                  IN  /\ r.op = "version" =>
                           answer = IF file.version = EmptyText THEN Error(-2)
                                    ELSE <<"version", Clip[file.version]>>
                      /\ r.op = "feature" /\ told < LongRange =>
                           \/ answer = <<"feature", told>>
                           \/ Len(m) > 1 /\ answer = <<"feature", 0>>
  <2>1. CASE r.op = "support"
    <3>1. answer = IF mData = <<>> THEN Error(-2) ELSE <<"types", GetAllSDKTypes(mData)>>
      BY <1>1, <2>1 DEF ProcessMessage
    <3>. QED
      BY <1>1, <2>1, <3>1, TypesFromFiles
  <2>2. CASE r.op \in {"version", "feature"}
    <3>1. answer = AboutSDK(mData, m)
      BY <1>1, <2>2 DEF ProcessMessage
    <3>2. CASE AboutType(r.type) = {}
      <4>1. SdksOfType(mData, r.type) = {}
        BY <1>1, <3>2, SdkFromFile
      <4>2. answer = Error(-3)
        BY <1>1, <3>1, <4>1 DEF AboutSDK
      <4>. QED
        BY <2>2, <3>2, <4>2
    <3>3. CASE AboutType(r.type) # {}
      <4>1. PICK sdk, file :
              /\ sdk = GetSDK(mData, r.type) /\ file = files[First(AboutType(r.type))]
        OBVIOUS
      <4>2. PICK j \in DOMAIN mData : /\ sdk = mData[j]
                                      /\ sdk.type = file.root /\ sdk.version = file.version
        BY <1>1, <3>3, <4>1, SdkFromFile
      <4>3. SdksOfType(mData, r.type) # {}
        BY <1>1, <3>3, SdkFromFile
      <4>4. CASE r.op = "version"
        <5>1. answer = IF file.version = EmptyText THEN Error(-2)
                       ELSE <<"version", Clip[file.version]>>
          BY <1>1, <3>1, <4>1, <4>2, <4>3, <4>4 DEF AboutSDK
        <5>2. answer # Error(-3)
          BY <5>1 DEF Error
        <5>. QED
          BY <2>2, <3>3, <4>1, <4>4, <5>1, <5>2
      <4>5. CASE r.op = "feature"
        <5>1. answer = <<"feature", IF FeatureNamed(m) THEN Shown(GetFeature(sdk, r.feature))
                                    ELSE 0>>
          BY <1>1, <3>1, <4>1, <4>3, <4>5 DEF AboutSDK
        <5>2. answer # Error(-3)
          BY <5>1 DEF Error
        <5>3. r.feature \in DOMAIN Stem /\ Len(m) \in Nat \ {0}
          <6>. DEFINE Requests == [op : STRING, type : {Lvr, Svr}, feature : DOMAIN Stem]
          <6>1. m # <<>> /\ m \in Seq(Requests)
            BY MessagesAssumption
          <6>. HIDE DEF Requests
          <6>2. r \in Requests /\ Len(m) \in Nat \ {0}
            BY <1>1, <6>1
          <6>. QED
            BY <6>2 DEF Requests
        <5>4. PICK told \in Nat : told = Number(file.root, Stem[r.feature])
                                  /\ told = GetFeature(sdk, r.feature)
          BY <1>1, <4>2, <5>3, FeatureFromFiles
        <5>5. told < LongRange => Shown(told) = told
          BY RangesAssumption DEF Shown
        <5>6. ~FeatureNamed(m) => Len(m) > 1
          <6>1. ~FeatureNamed(m) => Len(m) # 1
            BY DEF FeatureNamed
          <6>2. PICK l \in Nat \ {0} : l = Len(m)
            BY <5>3
          <6>3. l # 1 => l > 1
            OBVIOUS
          <6>. QED
            BY <6>1, <6>2, <6>3
        <5>7. told < LongRange => \/ answer = <<"feature", told>>
                                  \/ Len(m) > 1 /\ answer = <<"feature", 0>>
          BY <5>1, <5>4, <5>5, <5>6
        <5>. QED
          BY <2>2, <3>3, <4>1, <4>5, <5>2, <5>4, <5>7
      <4>. QED
        BY <2>2, <4>4, <4>5
    <3>. QED
      BY <3>2, <3>3
  <2>3. CASE r.op \notin {"support", "version", "feature"}
    BY <2>3
  <2>. QED
    BY <2>1, <2>2, <2>3
<1>2. LoadInv => AnswersMatchFiles
  BY <1>1 DEF AnswersMatchFiles
<1>. QED
  BY <1>2, SpecLoad, PTL
=============================================================================
