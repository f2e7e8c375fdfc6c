---------------------------- MODULE Trees_proofs ----------------------------
(***************************************************************************)
(* Proofs about the algorithms over JSON values, for documents of any      *)
(* depth and width: that the report of a comparison explains the           *)
(* difference, that the merging of array elements keeps every field and    *)
(* value that code is generated from and settles at once, and that the Go  *)
(* types generated for a document hold it.                                 *)
(***************************************************************************)
EXTENDS Comparison, GoStructs, Compositions_proofs, SequenceTheorems

----------------------------------------------------------------------------
(* Values and their fields                                                 *)

\* The names of the elements of an array.
IndexOf(items) == [i \in DOMAIN items \cap DOMAIN Index |-> Index[i]]

\* The elements of an array have different names, as many as there are.
LEMMA IndexNames ==
    ASSUME NEW V, NEW items \in Seq(V)
    PROVE  /\ IndexOf(items) \in Seq(FieldName)
           /\ DOMAIN IndexOf(items) \subseteq DOMAIN items
           /\ IsInjective(IndexOf(items))
           /\ ToSet(IndexOf(items)) \subseteq ToSet(Index)
<1> DEFINE n == IF Len(items) <= Len(Index) THEN Len(items) ELSE Len(Index)
           keys == IndexOf(items)
<1>1. /\ Len(items) \in Nat /\ DOMAIN items = 1 .. Len(items)
      /\ Len(Index) \in Nat /\ DOMAIN Index = 1 .. Len(Index)
      /\ \A i \in DOMAIN Index : Index[i] \in FieldName
  BY IndexAssumption
<1> HIDE DEF FieldName
<1>2. n \in Nat /\ DOMAIN items \cap DOMAIN Index = 1 .. n
  BY <1>1
<1> HIDE DEF n
<1>3. keys = [i \in 1 .. n |-> Index[i]]
  BY <1>2 DEF IndexOf
<1>4. \A i \in 1 .. n : i \in DOMAIN Index /\ i \in DOMAIN items
  BY <1>2
<1> HIDE DEF keys
<1>5. keys \in Seq(FieldName)
  BY <1>1, <1>2, <1>3, <1>4
<1>6. DOMAIN keys = 1 .. n /\ \A i \in 1 .. n : keys[i] = Index[i]
  BY <1>3
<1>7. IsInjective(keys)
  BY <1>4, <1>6, IndexAssumption DEF IsInjective
<1>8. ToSet(keys) \subseteq ToSet(Index)
  BY <1>4, <1>6 DEF ToSet
<1> QED
  BY <1>4, <1>5, <1>6, <1>7, <1>8 DEF keys

\* The keys of a value are field names.
LEMMA KeysType ==
    ASSUME NEW v \in JsonValues
    PROVE  /\ Keys(v) \in Seq(FieldName)
           /\ ToSet(Keys(v)) \subseteq FieldName
           /\ \A k : Has(v, k) <=> k \in ToSet(Keys(v))
           /\ IsObj(v) => Keys(v) = v.keys
<1>1. CASE IsObj(v)
  <2>1. v.keys \in Seq(FieldName)
    BY <1>1, ComparisonAssumption DEF IsObj, IsArr
  <2>2. Keys(v) = v.keys
    BY <1>1 DEF Keys, IsObj, IsArr
  <2> HIDE DEF Keys
  <2> QED
    BY <2>1, <2>2 DEF ToSet, Has
<1>2. CASE IsArr(v)
  <2>1. Keys(v) = IndexOf(v.items) /\ v.items \in Seq(JsonValues)
    BY <1>2, ComparisonAssumption DEF Keys, IsObj, IsArr, IndexOf
  <2>2. Keys(v) \in Seq(FieldName)
    BY <2>1, IndexNames
  <2> HIDE DEF Keys
  <2> QED
    BY <1>2, <2>2 DEF ToSet, Has, IsArr, IsObj
<1>3. CASE ~IsObj(v) /\ ~IsArr(v)
  <2>1. Keys(v) = <<>> \/ Keys(v) = SubSeq(Index, 1, 1)
    BY <1>3 DEF Keys
  <2>2. Len(Index) \in Nat /\ Len(Index) >= 1
    BY IndexAssumption, EmptySeq
  <2>3. Keys(v) \in Seq(FieldName)
    <3>1. SubSeq(Index, 1, 1) \in Seq(FieldName)
      BY <2>2, IndexAssumption
    <3>2. <<>> \in Seq(FieldName)
      OBVIOUS
    <3> QED
      BY <2>1, <3>1, <3>2
  <2> HIDE DEF Keys
  <2> QED
    BY <1>3, <2>3 DEF ToSet, Has
<1> QED
  BY <1>1, <1>2, <1>3

\* A field of a value is a value, lower in the document.
LEMMA FieldType ==
    ASSUME NEW v \in JsonValues, NEW k \in ToSet(Keys(v))
    PROVE  /\ At(v, k) \in JsonValues
           /\ IsContainer(v) => Height[At(v, k)] < Height[v]
<1>1. IsContainer(v) => At(v, k) \in JsonValues /\ Height[At(v, k)] < Height[v]
  BY ComparisonAssumption
<1>2. ~IsContainer(v) => At(v, k) = v
  BY DEF At, IsContainer
<1> QED
  BY <1>1, <1>2

\* What is compared is a value.
LEMMA GivenType ==
    ASSUME NEW v \in JsonValues
    PROVE  /\ Given(v) \in JsonValues
           /\ IsContainer(v) => Given(v) = v
<1>1. Given(v) \in JsonValues
  BY ComparisonAssumption DEF Given
<1>2. /\ Null.kind = "null" /\ Num("0").kind = "number" /\ Text("").kind = "string"
      /\ IsContainer(v) => v.kind \in {"array", "object"}
  BY DEF Null, Num, Text, IsContainer, IsObj, IsArr
<1> QED
  BY <1>1, <1>2 DEF Given, Falsy

\* What holds for a value whenever it holds for all that are not as high does for
\* every value.
LEMMA HeightInduction ==
    ASSUME NEW S,
           \A v \in JsonValues :
              (\A w \in JsonValues : Height[w] < Height[v] => w \in S) => v \in S
    PROVE  \A v \in JsonValues : v \in S
<1> DEFINE T == {n \in Nat : \A v \in JsonValues : Height[v] < n => v \in S}
<1>1. \A v \in JsonValues : Height[v] \in Nat
  BY ComparisonAssumption
<1>2. 0 \in T
  BY <1>1
<1>3. ASSUME NEW n \in Nat, n \in T PROVE n + 1 \in T
  <2> SUFFICES ASSUME NEW v \in JsonValues, Height[v] < n + 1 PROVE v \in S
    OBVIOUS
  <2>1. \A w \in JsonValues : Height[w] < Height[v] => w \in S
    BY <1>1, <1>3
  <2> QED
    BY <2>1
<1>4. \A n \in Nat : n \in T
  BY <1>2, <1>3, SetInduction
<1> QED
  <2> SUFFICES ASSUME NEW v \in JsonValues PROVE v \in S
    OBVIOUS
  <2>1. Height[v] + 1 \in T /\ Height[v] < Height[v] + 1
    BY <1>1, <1>4
  <2> QED
    BY <2>1

----------------------------------------------------------------------------
(* What the recursive definitions say                                      *)

Saying == [Paths -> SUBSET (Paths \X JsonValues)]

\* A value says what its fields say.
LEMMA FactsRecur ==
    /\ Facts \in [JsonValues -> Saying]
    /\ \A v \in JsonValues, path \in Paths :
          Facts[v][path] =
             IF IsObj(v) THEN {<<path, EmptyObj>>} \cup FieldFacts(v, path)
             ELSE {<<path, v>>}
<1> DEFINE Below(v, g, path) == UNION {g[At(v, k)][Append(path, k)] : k \in ToSet(v.keys)}
           Says(v, g) == [path \in Paths |->
                             IF IsObj(v) THEN {<<path, EmptyObj>>} \cup Below(v, g, path)
                             ELSE {<<path, v>>}]
           step == [v \in JsonValues |-> [g \in [JsonValues -> Saying] |-> Says(v, g)]]
<1>1. ASSUME NEW v \in JsonValues, IsObj(v), NEW k \in ToSet(v.keys)
      PROVE  /\ At(v, k) \in JsonValues /\ Height[At(v, k)] < Height[v]
             /\ \A path \in Paths : Append(path, k) \in Paths
  BY <1>1, KeysType, FieldType DEF IsContainer, Paths
<1>2. ASSUME NEW v \in JsonValues, NEW g,
             \A w \in JsonValues : Height[w] < Height[v] => g[w] \in Saying
      PROVE  Says(v, g) \in Saying
  <2>1. ASSUME NEW path \in Paths, IsObj(v)
        PROVE  Below(v, g, path) \in SUBSET (Paths \X JsonValues)
    <3>1. ASSUME NEW k \in ToSet(v.keys)
          PROVE  g[At(v, k)][Append(path, k)] \in SUBSET (Paths \X JsonValues)
      BY <1>1, <1>2, <2>1 DEF Saying
    <3> QED
      BY <3>1
  <2>2. EmptyObj \in JsonValues
    BY ComparisonAssumption
  <2> HIDE DEF Below
  <2> QED
    BY <2>1, <2>2 DEF Saying
<1>3. ASSUME NEW v \in JsonValues, NEW g \in [JsonValues -> Saying], NEW h \in [JsonValues -> Saying],
             \A w \in JsonValues : Height[w] < Height[v] => g[w] = h[w]
      PROVE  Says(v, g) = Says(v, h)
  <2>1. \A path \in Paths : IsObj(v) => Below(v, g, path) = Below(v, h, path)
    BY <1>1, <1>3
  <2> HIDE DEF Below
  <2> QED
    BY <2>1
<1>4. Saying # {}
  <2>1. [path \in Paths |-> {}] \in Saying
    BY DEF Saying
  <2> QED
    BY <2>1
<1>5. Height \in [JsonValues -> Nat]
  BY ComparisonAssumption
<1>6. \E f \in [JsonValues -> Saying] : \A v \in JsonValues : f[v] = step[v][f]
  <2> HIDE DEF Says, Saying
  <2>1. \A v \in JsonValues : \A g \in [JsonValues -> Saying] : step[v][g] = Says(v, g)
    OBVIOUS
  <2>2. step \in [JsonValues -> [[JsonValues -> Saying] -> Saying]]
    BY <1>2
  <2>3. Determined(JsonValues, Saying, Height, step)
    BY <1>3, <1>4, <1>5, <2>1, <2>2 DEF Determined
  <2> HIDE DEF step
  <2> QED
    BY <2>3, RankedRecursion
<1>7. PICK f \in [JsonValues -> Saying] : \A v \in JsonValues : f[v] = step[v][f]
  BY <1>6
<1>8. f = [v \in JsonValues |-> Says(v, f)]
  <2> HIDE DEF Says
  <2> QED
    BY <1>7
<1>9. Facts = [v \in JsonValues |-> Says(v, Facts)]
  BY <1>8 DEF Facts
<1> HIDE DEF Says
<1>10. \A v \in JsonValues : Facts[v] = Says(v, Facts)
  BY <1>9
<1>11. \A v \in JsonValues : Facts[v] \in Saying
  <2> DEFINE S == {v \in JsonValues : Facts[v] \in Saying}
  <2>1. ASSUME NEW v \in JsonValues, \A w \in JsonValues : Height[w] < Height[v] => w \in S
        PROVE  v \in S
    BY <1>2, <1>10, <2>1
  <2>2. \A v \in JsonValues : v \in S
    BY <2>1, HeightInduction
  <2> QED
    BY <2>2
<1>12. ASSUME NEW v \in JsonValues, IsObj(v), NEW path \in Paths
       PROVE  Below(v, Facts, path) = FieldFacts(v, path)
  <2>1. Keys(v) = v.keys
    BY <1>12, KeysType, FieldType
  <2> QED
    BY <2>1 DEF FieldFacts
<1>13. Facts \in [JsonValues -> Saying]
  BY <1>9, <1>11
<1> HIDE DEF Below
<1> QED
  BY <1>10, <1>12, <1>13 DEF Says

Differences == [type : {"added", "removed", "modified"}, path : Paths, value : JsonValues]

Reports == [JsonValues -> [Paths -> SUBSET Differences]]

\* What deepCompare reports for one key; g stands for deepCompare further down.
KeyReport(left, right, k, path, g) ==
    LET here == Append(path, k)
        v1   == At(left, k)
        v2   == At(right, k)
    IN CASE ~Has(left, k) -> {Difference("added", here, v2)}
         [] Has(left, k) /\ ~Has(right, k) -> {Difference("removed", here, v1)}
         [] Has(left, k) /\ Has(right, k) /\ Descends(v1, v2) -> g[v1][v2][here]
         [] OTHER -> CompareWhole(v1, v2, here)

\* Further down are lower values.
LEMMA KeyReportType ==
    ASSUME NEW a \in JsonValues, NEW b \in JsonValues, NEW path \in Paths,
           NEW k \in AllKeys(Given(a), Given(b))
    PROVE  /\ Append(path, k) \in Paths
           /\ Has(Given(a), k) => At(Given(a), k) \in JsonValues
           /\ Has(Given(b), k) => At(Given(b), k) \in JsonValues
           /\ Has(Given(a), k) /\ Descends(At(Given(a), k), At(Given(b), k)) =>
                 Height[At(Given(a), k)] < Height[a]
           /\ Has(Given(a), k) \/ Has(Given(b), k)
<1>1. Given(a) \in JsonValues /\ Given(b) \in JsonValues
  BY GivenType
<1>2. Append(path, k) \in Paths
  BY <1>1, KeysType DEF AllKeys, Paths
<1>3. ASSUME Has(Given(a), k), Descends(At(Given(a), k), At(Given(b), k))
      PROVE  Height[At(Given(a), k)] < Height[a]
  <2>1. k \in ToSet(Keys(Given(a)))
    BY <1>1, <1>3, KeysType
  <2>2. CASE IsContainer(a)
    BY <2>1, <2>2, FieldType, GivenType
  <2>3. CASE ~IsContainer(a)
    <3>1. Given(a) # EmptyObj
      <4>1. Keys(EmptyObj) = <<>>
        BY DEF EmptyObj, Obj, Keys, IsObj, IsArr
      <4> HIDE DEF EmptyObj
      <4> QED
        BY <2>1, <4>1 DEF ToSet
    <3>2. Given(a) = a
      BY <3>1 DEF Given
    <3>3. At(Given(a), k) = a
      BY <2>3, <3>2 DEF At, IsContainer
    <3> QED
      BY <1>3, <2>3, <3>3 DEF Descends
  <2> QED
    BY <2>2, <2>3
<1> QED
  BY <1>1, <1>2, <1>3, KeysType, FieldType DEF AllKeys

\* The report on two values is made of those on their fields.
LEMMA DeepCompareRecur ==
    /\ DeepCompare \in [JsonValues -> Reports]
    /\ \A a, b \in JsonValues, path \in Paths :
          DeepCompare[a][b][path] =
             UNION {KeyReport(Given(a), Given(b), k, path, DeepCompare)
                       : k \in AllKeys(Given(a), Given(b))}
<1> DEFINE All(a, b, path, g) ==
              UNION {KeyReport(Given(a), Given(b), k, path, g) : k \in AllKeys(Given(a), Given(b))}
           Finds(a, g) == [b \in JsonValues |-> [path \in Paths |-> All(a, b, path, g)]]
           step == [a \in JsonValues |-> [g \in [JsonValues -> Reports] |-> Finds(a, g)]]
<1>1. ASSUME NEW a \in JsonValues, NEW g,
             \A w \in JsonValues : Height[w] < Height[a] => g[w] \in Reports
      PROVE  Finds(a, g) \in Reports
  <2>1. ASSUME NEW b \in JsonValues, NEW path \in Paths, NEW k \in AllKeys(Given(a), Given(b))
        PROVE  KeyReport(Given(a), Given(b), k, path, g) \in SUBSET Differences
    <3> DEFINE here == Append(path, k)
               v1 == At(Given(a), k)
               v2 == At(Given(b), k)
    <3>1. /\ here \in Paths
          /\ Has(Given(a), k) => v1 \in JsonValues
          /\ Has(Given(b), k) => v2 \in JsonValues
          /\ Has(Given(a), k) /\ Descends(v1, v2) => Height[v1] < Height[a]
          /\ Has(Given(a), k) \/ Has(Given(b), k)
      BY <2>1, KeyReportType
    <3> HIDE DEF here, v1, v2
    <3>2. CASE ~Has(Given(a), k)
      BY <3>1, <3>2 DEF KeyReport, Difference, Differences, here, v2
    <3>3. CASE Has(Given(a), k) /\ ~Has(Given(b), k)
      BY <3>1, <3>3 DEF KeyReport, Difference, Differences, here, v1
    <3>4. CASE Has(Given(a), k) /\ Has(Given(b), k) /\ Descends(v1, v2)
      <4>1. g[v1][v2][here] \in SUBSET Differences
        BY <1>1, <3>1, <3>4 DEF Reports
      <4> QED
        BY <3>4, <4>1 DEF KeyReport, here, v1, v2
    <3>5. CASE Has(Given(a), k) /\ Has(Given(b), k) /\ ~Descends(v1, v2)
      <4>1. CompareWhole(v1, v2, here) \in SUBSET Differences
        BY <3>1, <3>5 DEF CompareWhole, Difference, Differences
      <4> QED
        BY <3>5, <4>1 DEF KeyReport, here, v1, v2
    <3> QED
      BY <3>2, <3>3, <3>4, <3>5
  <2>2. \A b \in JsonValues, path \in Paths : All(a, b, path, g) \in SUBSET Differences
    BY <2>1
  <2> HIDE DEF All
  <2> QED
    BY <2>2 DEF Reports
<1>2. ASSUME NEW a \in JsonValues, NEW g, NEW h,
             \A w \in JsonValues : Height[w] < Height[a] => g[w] = h[w]
      PROVE  Finds(a, g) = Finds(a, h)
  <2>1. ASSUME NEW b \in JsonValues, NEW path \in Paths, NEW k \in AllKeys(Given(a), Given(b))
        PROVE  KeyReport(Given(a), Given(b), k, path, g) = KeyReport(Given(a), Given(b), k, path, h)
    <3> DEFINE v1 == At(Given(a), k)
               v2 == At(Given(b), k)
    <3>1. Has(Given(a), k) /\ Descends(v1, v2) => g[v1] = h[v1]
      BY <1>2, <2>1, KeyReportType
    <3> QED
      BY <3>1 DEF KeyReport
  <2>2. \A b \in JsonValues, path \in Paths : All(a, b, path, g) = All(a, b, path, h)
    BY <2>1
  <2> HIDE DEF All
  <2> QED
    BY <2>2
<1>3. \E f : f = [a \in JsonValues |-> Finds(a, f)]
  <2>1. Reports # {}
    <3>1. [b \in JsonValues |-> [path \in Paths |-> {}]] \in Reports
      BY DEF Reports
    <3> QED
      BY <3>1
  <2>2. Height \in [JsonValues -> Nat]
    BY ComparisonAssumption
  <2> HIDE DEF Finds, Reports
  <2>3. \A a \in JsonValues : \A g \in [JsonValues -> Reports] : step[a][g] = Finds(a, g)
    OBVIOUS
  <2>4. step \in [JsonValues -> [[JsonValues -> Reports] -> Reports]]
    BY <1>1
  <2>5. Determined(JsonValues, Reports, Height, step)
    BY <1>2, <2>1, <2>2, <2>3, <2>4 DEF Determined
  <2>6. \E f \in [JsonValues -> Reports] : \A a \in JsonValues : f[a] = step[a][f]
    <3> HIDE DEF step
    <3> QED
      BY <2>5, RankedRecursion
  <2> QED
    BY <2>3, <2>6
<1>4. DeepCompare = [a \in JsonValues |-> Finds(a, DeepCompare)]
  BY <1>3 DEF DeepCompare, KeyReport
<1> HIDE DEF Finds
<1>5. \A a \in JsonValues : DeepCompare[a] = Finds(a, DeepCompare)
  BY <1>4
<1>6. \A a \in JsonValues : DeepCompare[a] \in Reports
  <2> DEFINE S == {a \in JsonValues : DeepCompare[a] \in Reports}
  <2>1. ASSUME NEW a \in JsonValues, \A w \in JsonValues : Height[w] < Height[a] => w \in S
        PROVE  a \in S
    BY <1>1, <1>5, <2>1
  <2>2. \A a \in JsonValues : a \in S
    BY <2>1, HeightInduction
  <2> QED
    BY <2>2
<1>7. DeepCompare \in [JsonValues -> Reports]
  BY <1>4, <1>6
<1> QED
  BY <1>5, <1>7 DEF Finds

Blindness == [JsonValues -> BOOLEAN]

\* Values are blind where their kinds or the values of a field are.
LEMMA BlindRecur ==
    ASSUME NEW a \in JsonValues, NEW b \in JsonValues, ~Blind[a][b]
    PROVE  /\ Descends(a, b) => a.kind = b.kind
           /\ IsObj(a) /\ IsObj(b) =>
                 \A k \in ToSet(a.keys) \cap ToSet(b.keys) : ~Blind[At(a, k)][At(b, k)]
<1> DEFINE Inside(v1, v2, g) ==
              \/ Descends(v1, v2) /\ v1.kind # v2.kind
              \/ /\ IsObj(v1) /\ IsObj(v2)
                 /\ \E k \in ToSet(v1.keys) \cap ToSet(v2.keys) : g[At(v1, k)][At(v2, k)]
           Sees(v1, g) == [v2 \in JsonValues |-> Inside(v1, v2, g)]
           step == [v1 \in JsonValues |-> [g \in [JsonValues -> Blindness] |-> Sees(v1, g)]]
<1>1. ASSUME NEW v1 \in JsonValues, NEW g, NEW h,
             \A w \in JsonValues : Height[w] < Height[v1] => g[w] = h[w]
      PROVE  Sees(v1, g) = Sees(v1, h)
  <2>1. ASSUME IsObj(v1), NEW k \in ToSet(v1.keys) PROVE g[At(v1, k)] = h[At(v1, k)]
    <3>1. At(v1, k) \in JsonValues /\ Height[At(v1, k)] < Height[v1]
      BY <2>1, KeysType, FieldType DEF IsContainer
    <3> QED
      BY <1>1, <3>1
  <2>2. \A v2 \in JsonValues : Inside(v1, v2, g) = Inside(v1, v2, h)
    BY <2>1
  <2> HIDE DEF Inside
  <2> QED
    BY <2>2
<1>2. \E f : f = [v1 \in JsonValues |-> Sees(v1, f)]
  <2>1. Blindness # {}
    <3>1. [v2 \in JsonValues |-> FALSE] \in Blindness
      BY DEF Blindness
    <3> QED
      BY <3>1
  <2>2. Height \in [JsonValues -> Nat]
    BY ComparisonAssumption
  <2>3. \A v1 \in JsonValues : \A g \in [JsonValues -> Blindness] : Sees(v1, g) \in Blindness
    BY DEF Blindness
  <2> HIDE DEF Sees, Blindness
  <2>4. \A v1 \in JsonValues : \A g \in [JsonValues -> Blindness] : step[v1][g] = Sees(v1, g)
    OBVIOUS
  <2>5. step \in [JsonValues -> [[JsonValues -> Blindness] -> Blindness]]
    BY <2>3
  <2>6. Determined(JsonValues, Blindness, Height, step)
    BY <1>1, <2>1, <2>2, <2>4, <2>5 DEF Determined
  <2>7. \E f \in [JsonValues -> Blindness] : \A v1 \in JsonValues : f[v1] = step[v1][f]
    <3> HIDE DEF step
    <3> QED
      BY <2>6, RankedRecursion
  <2> QED
    BY <2>4, <2>7
<1>3. Blind = [v1 \in JsonValues |-> Sees(v1, Blind)]
  BY <1>2 DEF Blind
<1>4. Blind[a] = Sees(a, Blind)
  <2> HIDE DEF Sees
  <2> QED
    BY <1>3
<1>5. Sees(a, Blind)[b] = Inside(a, b, Blind)
  <2> HIDE DEF Inside
  <2> QED
    OBVIOUS
<1>6. ~Inside(a, b, Blind)
  BY <1>4, <1>5
<1> QED
  BY <1>6

----------------------------------------------------------------------------
(* Places                                                                  *)

\* A place is in another if it is the beginning of it.
LEMMA PrefixMeans ==
    ASSUME NEW p \in Paths, NEW q \in Paths
    PROVE  IsPrefix(p, q) <=> Len(p) <= Len(q) /\ \A i \in 1 .. Len(p) : p[i] = q[i]
<1>1. SUFFICES ASSUME Len(p) <= Len(q)
               PROVE  SubSeq(p, 1, Len(p)) = SubSeq(q, 1, Len(p))
                         <=> \A i \in 1 .. Len(p) : p[i] = q[i]
  BY <1>1 DEF IsPrefix
<1>2. Len(p) \in Nat /\ Len(q) \in Nat /\ p \in Seq(FieldName) /\ q \in Seq(FieldName)
  BY DEF Paths
<1>3. /\ SubSeq(p, 1, Len(p)) = [i \in 1 .. Len(p) |-> p[i]]
      /\ SubSeq(q, 1, Len(p)) = [i \in 1 .. Len(p) |-> q[i]]
  BY <1>1, <1>2
<1> QED
  BY <1>3

\* Places are in each other in an order.
LEMMA PrefixOrder ==
    /\ \A p \in Paths : IsPrefix(p, p)
    /\ \A p, q, r \in Paths : IsPrefix(p, q) /\ IsPrefix(q, r) => IsPrefix(p, r)
<1>1. \A p \in Paths : Len(p) \in Nat
  BY DEF Paths
<1>2. ASSUME NEW p \in Paths PROVE IsPrefix(p, p)
  BY <1>1, PrefixMeans
<1>3. ASSUME NEW p \in Paths, NEW q \in Paths, NEW r \in Paths, IsPrefix(p, q), IsPrefix(q, r)
      PROVE  IsPrefix(p, r)
  <2>1. /\ Len(p) <= Len(q) /\ \A i \in 1 .. Len(p) : p[i] = q[i]
        /\ Len(q) <= Len(r) /\ \A i \in 1 .. Len(q) : q[i] = r[i]
    BY <1>3, PrefixMeans
  <2>2. Len(p) <= Len(r) /\ \A i \in 1 .. Len(p) : p[i] = r[i]
    BY <1>1, <2>1
  <2> QED
    BY <2>2, PrefixMeans
<1> QED
  BY <1>2, <1>3

\* Below a place, what has one key first is not what has another.
LEMMA Branches ==
    ASSUME NEW p \in Paths, NEW q \in Paths, NEW j \in FieldName, IsPrefix(Append(p, j), q)
    PROVE  /\ Append(p, j) \in Paths
           /\ IsPrefix(p, q)
           /\ q # p
           /\ ~IsPrefix(q, p)
           /\ \A k \in FieldName : IsPrefix(Append(p, k), q) => j = k
<1>0. Len(p) \in Nat /\ Len(q) \in Nat
  BY DEF Paths
<1>1. ASSUME NEW k \in FieldName
      PROVE  /\ Append(p, k) \in Paths
             /\ Len(Append(p, k)) = Len(p) + 1
             /\ Append(p, k)[Len(p) + 1] = k
             /\ \A i \in 1 .. Len(p) : Append(p, k)[i] = p[i]
  <2>1. p \in Seq(FieldName)
    BY DEF Paths
  <2>2. /\ Append(p, k) \in Seq(FieldName) /\ Len(Append(p, k)) = Len(p) + 1
        /\ Append(p, k)[Len(p) + 1] = k
        /\ \A i \in 1 .. Len(p) : Append(p, k)[i] = p[i]
    BY <2>1, AppendProperties
  <2> QED
    BY <2>2 DEF Paths
<1>2. \A k \in FieldName : IsPrefix(Append(p, k), q) => Len(p) + 1 <= Len(q) /\ k = q[Len(p) + 1]
  <2> SUFFICES ASSUME NEW k \in FieldName, IsPrefix(Append(p, k), q)
               PROVE  Len(p) + 1 <= Len(q) /\ k = q[Len(p) + 1]
    OBVIOUS
  <2>1. Len(Append(p, k)) <= Len(q) /\ \A i \in 1 .. Len(Append(p, k)) : Append(p, k)[i] = q[i]
    BY <1>1, PrefixMeans
  <2>2. Len(p) + 1 \in 1 .. Len(Append(p, k))
    BY <1>0, <1>1
  <2> QED
    BY <1>0, <1>1, <2>1, <2>2
<1>3. IsPrefix(p, Append(p, j))
  <2> DEFINE r == Append(p, j)
  <2>1. r \in Paths /\ Len(r) = Len(p) + 1 /\ \A i \in 1 .. Len(p) : r[i] = p[i]
    BY <1>1
  <2> HIDE DEF r
  <2>2. Len(p) <= Len(r)
    BY <1>0, <2>1
  <2> QED
    BY <2>1, <2>2, PrefixMeans DEF r
<1>4. IsPrefix(p, q)
  BY <1>1, <1>3, PrefixOrder
<1>5. ~ (Len(q) <= Len(p))
  <2>1. Len(p) + 1 <= Len(q)
    BY <1>2
  <2> QED
    BY <1>0, <2>1
<1>6. ~IsPrefix(q, p)
  BY <1>5, PrefixMeans
<1> QED
  BY <1>1, <1>2, <1>4, <1>6, PrefixOrder

\* What a value says is at the value's place or below.
LEMMA FactsBelow ==
    \A v \in JsonValues : \A path \in Paths : \A f \in Facts[v][path] :
        f[1] \in Paths /\ IsPrefix(path, f[1])
<1> DEFINE S == {v \in JsonValues : \A path \in Paths : \A f \in Facts[v][path] :
                                       f[1] \in Paths /\ IsPrefix(path, f[1])}
<1>1. ASSUME NEW v \in JsonValues, \A w \in JsonValues : Height[w] < Height[v] => w \in S
      PROVE  v \in S
  <2> SUFFICES ASSUME NEW path \in Paths, NEW f \in Facts[v][path]
               PROVE  f[1] \in Paths /\ IsPrefix(path, f[1])
    OBVIOUS
  <2>1. CASE f[1] = path
    BY <2>1, PrefixOrder
  <2>2. CASE f[1] # path
    <3>1. IsObj(v) /\ f \in FieldFacts(v, path)
      <4>1. f = <<path, v>> \/ f = <<path, EmptyObj>> \/ (IsObj(v) /\ f \in FieldFacts(v, path))
        <5>1. Facts[v][path] = IF IsObj(v) THEN {<<path, EmptyObj>>} \cup FieldFacts(v, path)
                               ELSE {<<path, v>>}
          BY FactsRecur
        <5> QED
          BY <5>1
      <4> HIDE DEF EmptyObj
      <4>2. f # <<path, v>> /\ f # <<path, EmptyObj>>
        BY <2>2
      <4> QED
        BY <4>1, <4>2
    <3>2. PICK k \in ToSet(Keys(v)) : f \in Facts[At(v, k)][Append(path, k)]
      BY <3>1 DEF FieldFacts
    <3>3. /\ At(v, k) \in JsonValues /\ Height[At(v, k)] < Height[v]
          /\ k \in FieldName /\ Append(path, k) \in Paths
      BY <3>1, KeysType, FieldType DEF IsContainer, Paths
    <3>4. f[1] \in Paths /\ IsPrefix(Append(path, k), f[1])
      BY <1>1, <3>2, <3>3
    <3> QED
      BY <3>3, <3>4, Branches
  <2> QED
    BY <2>1, <2>2
<1>2. \A v \in JsonValues : v \in S
  BY <1>1, HeightInduction
<1> QED
  BY <1>2

\* What is reported for a key is at the place of that key or below.
LEMMA ReportBelow ==
    \A a, b \in JsonValues : \A path \in Paths :
        /\ \A k \in AllKeys(Given(a), Given(b)) :
              /\ k \in FieldName /\ Append(path, k) \in Paths
              /\ \A d \in KeyReport(Given(a), Given(b), k, path, DeepCompare) :
                    d \in Differences /\ IsPrefix(Append(path, k), d.path)
        /\ \A d \in DeepCompare[a][b][path] : IsPrefix(path, d.path)
<1> DEFINE PlacedBelow(a, b, path) ==
              \A k \in AllKeys(Given(a), Given(b)) :
                 /\ k \in FieldName /\ Append(path, k) \in Paths
                 /\ \A d \in KeyReport(Given(a), Given(b), k, path, DeepCompare) :
                       d \in Differences /\ IsPrefix(Append(path, k), d.path)
           S == {a \in JsonValues : \A b \in JsonValues : \A path \in Paths :
                    PlacedBelow(a, b, path) /\ \A d \in DeepCompare[a][b][path] : IsPrefix(path, d.path)}
<1>1. ASSUME NEW a \in JsonValues, \A w \in JsonValues : Height[w] < Height[a] => w \in S
      PROVE  a \in S
  <2> SUFFICES ASSUME NEW b \in JsonValues, NEW path \in Paths
               PROVE  PlacedBelow(a, b, path) /\ \A d \in DeepCompare[a][b][path] : IsPrefix(path, d.path)
    OBVIOUS
  <2>1. ASSUME NEW k \in AllKeys(Given(a), Given(b))
        PROVE  k \in FieldName /\ Append(path, k) \in Paths
    BY <2>1, GivenType, KeysType DEF AllKeys, Paths
  <2>2. ASSUME NEW k \in AllKeys(Given(a), Given(b)),
               NEW d \in KeyReport(Given(a), Given(b), k, path, DeepCompare)
        PROVE  d \in Differences /\ IsPrefix(Append(path, k), d.path)
    <3> DEFINE here == Append(path, k)
               v1 == At(Given(a), k)
               v2 == At(Given(b), k)
    <3>1. d \in DeepCompare[a][b][path]
      BY <2>2, DeepCompareRecur
    <3>2. d \in Differences
      BY <3>1, DeepCompareRecur DEF Reports
    <3>3. /\ here \in Paths
          /\ Has(Given(a), k) => v1 \in JsonValues
          /\ Has(Given(b), k) => v2 \in JsonValues
          /\ Has(Given(a), k) /\ Descends(v1, v2) => Height[v1] < Height[a]
      BY <2>2, KeyReportType
    <3>4. CASE Has(Given(a), k) /\ Has(Given(b), k) /\ Descends(v1, v2)
      <4>1. d \in DeepCompare[v1][v2][here]
        BY <2>2, <3>4 DEF KeyReport
      <4> HIDE DEF here, v1, v2, PlacedBelow
      <4>2. IsPrefix(here, d.path)
        BY <1>1, <3>3, <3>4, <4>1
      <4> QED
        BY <3>2, <4>2 DEF here
    <3>5. CASE ~ (Has(Given(a), k) /\ Has(Given(b), k) /\ Descends(v1, v2))
      <4>1. d.path = here
        BY <2>2, <3>5 DEF KeyReport, Difference, CompareWhole
      <4> QED
        BY <3>2, <3>3, <4>1, PrefixOrder
    <3> QED
      BY <3>4, <3>5
  <2>3. ASSUME NEW d \in DeepCompare[a][b][path] PROVE IsPrefix(path, d.path)
    <3>1. PICK k \in AllKeys(Given(a), Given(b)) :
             d \in KeyReport(Given(a), Given(b), k, path, DeepCompare)
      BY <2>3, DeepCompareRecur
    <3>2. d.path \in Paths /\ IsPrefix(Append(path, k), d.path) /\ k \in FieldName
      BY <2>1, <2>2, <3>1 DEF Differences
    <3> QED
      BY <3>2, Branches
  <2> QED
    BY <2>1, <2>2, <2>3
<1>2. \A a \in JsonValues : a \in S
  BY <1>1, HeightInduction
<1> QED
  BY <1>2

----------------------------------------------------------------------------
(* The report explains the difference                                      *)

\* What is in the corrected facts.
LEMMA CorrectedMeans ==
    ASSUME NEW facts, NEW ds, NEW f
    PROVE  f \in Corrected(facts, ds) <=>
              \/ f \in facts /\ \A d \in ds : ~IsPrefix(d.path, f[1])
              \/ \E d \in ds : d.type # "removed" /\ f \in Facts[d.value][d.path]
BY DEF Corrected

\* No difference leaves the facts as they are; one that is above them replaces all.
LEMMA CorrectedByOne ==
    ASSUME NEW facts
    PROVE  /\ Corrected(facts, {}) = facts
           /\ \A d : (\A f \in facts : IsPrefix(d.path, f[1])) =>
                 Corrected(facts, {d}) = IF d.type = "removed" THEN {} ELSE Facts[d.value][d.path]
<1>1. \A f : f \in Corrected(facts, {}) <=> f \in facts
  BY CorrectedMeans
<1>2. ASSUME NEW d, \A f \in facts : IsPrefix(d.path, f[1])
      PROVE  Corrected(facts, {d}) = IF d.type = "removed" THEN {} ELSE Facts[d.value][d.path]
  <2>1. \A f : f \in Corrected(facts, {d}) <=> d.type # "removed" /\ f \in Facts[d.value][d.path]
    BY <1>2, CorrectedMeans
  <2> QED
    BY <2>1
<1> QED
  BY <1>1, <1>2

\* The keys of two documents can be looked at one by one: no difference found at
\* one of them is about another.
LEMMA KeyByKey ==
    ASSUME NEW a \in JsonValues, NEW b \in JsonValues, NEW path \in Paths,
           IsContainer(a), IsContainer(b),
           \A k \in ToSet(Keys(a)) \cap ToSet(Keys(b)) :
              Corrected(Facts[At(a, k)][Append(path, k)], KeyReport(a, b, k, path, DeepCompare))
                 = Facts[At(b, k)][Append(path, k)]
    PROVE  Corrected(FieldFacts(a, path), DeepCompare[a][b][path]) = FieldFacts(b, path)
<1> DEFINE D == DeepCompare[a][b][path]
           ForKey(k) == KeyReport(a, b, k, path, DeepCompare)
           Says(v, k) == IF k \in ToSet(Keys(v)) THEN Facts[At(v, k)][Append(path, k)] ELSE {}
           K == AllKeys(a, b)
<1>1. Given(a) = a /\ Given(b) = b
  BY GivenType
<1>2. D = UNION {ForKey(k) : k \in K}
  BY <1>1, DeepCompareRecur
<1>3. \A k \in K : /\ k \in FieldName /\ Append(path, k) \in Paths
                   /\ \A d \in ForKey(k) : d \in Differences /\ IsPrefix(Append(path, k), d.path)
  BY <1>1, ReportBelow
<1>4. \A v \in {a, b} : /\ FieldFacts(v, path) = UNION {Says(v, k) : k \in ToSet(Keys(v))}
                        /\ ToSet(Keys(v)) \subseteq K
  BY DEF FieldFacts, AllKeys
<1>5. ASSUME NEW v \in {a, b}, NEW k \in K, NEW f \in Says(v, k)
      PROVE  f[1] \in Paths /\ IsPrefix(Append(path, k), f[1])
  <2>1. k \in ToSet(Keys(v)) /\ f \in Facts[At(v, k)][Append(path, k)]
    BY <1>5
  <2>2. At(v, k) \in JsonValues
    BY <2>1, FieldType
  <2> QED
    BY <1>3, <2>1, <2>2, FactsBelow
\* At each key the report says what the right document says there.
<1>6. ASSUME NEW k \in K PROVE Corrected(Says(a, k), ForKey(k)) = Says(b, k)
  <2>1. (Has(a, k) <=> k \in ToSet(Keys(a))) /\ (Has(b, k) <=> k \in ToSet(Keys(b)))
    BY KeysType
  <2>2. CASE ~Has(a, k)
    <3>1. ForKey(k) = {Difference("added", Append(path, k), At(b, k))} /\ Says(a, k) = {}
      BY <2>1, <2>2 DEF KeyReport
    <3>2. Says(b, k) = Facts[At(b, k)][Append(path, k)]
      BY <2>1, <2>2 DEF AllKeys
    <3> DEFINE d == Difference("added", Append(path, k), At(b, k))
    <3>3. d.type = "added" /\ d.path = Append(path, k) /\ d.value = At(b, k)
      BY DEF Difference
    <3> HIDE DEF Says, ForKey, d
    <3>4. Corrected(Says(a, k), {d}) = Facts[At(b, k)][Append(path, k)]
      <4>1. \A f \in Says(a, k) : IsPrefix(d.path, f[1])
        BY <3>1
      <4>2. Corrected(Says(a, k), {d}) =
               IF d.type = "removed" THEN {} ELSE Facts[d.value][d.path]
        BY <4>1, CorrectedByOne
      <4> QED
        BY <3>3, <4>2
    <3> QED
      BY <3>1, <3>2, <3>4 DEF d
  <2>3. CASE Has(a, k) /\ ~Has(b, k)
    <3>1. ForKey(k) = {Difference("removed", Append(path, k), At(a, k))} /\ Says(b, k) = {}
      BY <2>1, <2>3 DEF KeyReport
    <3>2. \A f \in Says(a, k) : IsPrefix(Append(path, k), f[1])
      BY <1>5
    <3> DEFINE d == Difference("removed", Append(path, k), At(a, k))
    <3>3. d.type = "removed" /\ d.path = Append(path, k)
      BY DEF Difference
    <3> HIDE DEF Says, ForKey, d
    <3>4. Corrected(Says(a, k), {d}) = {}
      BY <3>2, <3>3, CorrectedByOne
    <3> QED
      BY <3>1, <3>4 DEF d
  <2>4. CASE Has(a, k) /\ Has(b, k)
    BY <2>1, <2>4
  <2> QED
    BY <2>2, <2>3, <2>4
<1> HIDE DEF ForKey, Says, K
<1>7. ASSUME NEW f \in Corrected(FieldFacts(a, path), D) PROVE f \in FieldFacts(b, path)
  <2>1. \E k \in K : f \in Corrected(Says(a, k), ForKey(k))
    <3>1. CASE f \in FieldFacts(a, path) /\ \A d \in D : ~IsPrefix(d.path, f[1])
      <4>1. PICK k \in ToSet(Keys(a)) : f \in Says(a, k)
        BY <1>4, <3>1
      <4>2. k \in K /\ \A d \in ForKey(k) : ~IsPrefix(d.path, f[1])
        BY <1>2, <1>4, <3>1
      <4> QED
        BY <4>1, <4>2, CorrectedMeans
    <3>2. CASE \E d \in D : d.type # "removed" /\ f \in Facts[d.value][d.path]
      <4>1. PICK k \in K : \E d \in ForKey(k) : d.type # "removed" /\ f \in Facts[d.value][d.path]
        BY <1>2, <3>2
      <4> QED
        BY <4>1, CorrectedMeans
    <3> QED
      BY <1>7, <3>1, <3>2, CorrectedMeans
  <2>2. PICK k \in K : f \in Says(b, k)
    BY <1>6, <2>1
  <2>3. k \in ToSet(Keys(b))
    BY <2>2 DEF Says
  <2> QED
    BY <1>4, <2>2, <2>3
<1>8. ASSUME NEW f \in FieldFacts(b, path) PROVE f \in Corrected(FieldFacts(a, path), D)
  <2>1. PICK k \in K : f \in Says(b, k)
    BY <1>4, <1>8
  <2>2. f \in Corrected(Says(a, k), ForKey(k))
    BY <1>6, <2>1
  <2>3. CASE f \in Says(a, k) /\ \A d \in ForKey(k) : ~IsPrefix(d.path, f[1])
    <3>1. f \in FieldFacts(a, path)
      <4>1. k \in ToSet(Keys(a))
        BY <2>3 DEF Says
      <4> QED
        BY <1>4, <2>3, <4>1
    <3>2. f[1] \in Paths /\ IsPrefix(Append(path, k), f[1])
      BY <1>5, <2>3
    <3>3. ASSUME NEW d \in D PROVE ~IsPrefix(d.path, f[1])
      <4> SUFFICES ASSUME IsPrefix(d.path, f[1]) PROVE FALSE
        OBVIOUS
      <4>1. PICK j \in K : d \in ForKey(j)
        BY <1>2
      <4>2. /\ d.path \in Paths /\ Append(path, j) \in Paths
            /\ IsPrefix(Append(path, j), d.path) /\ j \in FieldName /\ k \in FieldName
        BY <1>3, <4>1 DEF Differences
      <4>3. IsPrefix(Append(path, j), f[1])
        BY <3>2, <4>2, PrefixOrder
      <4>4. j = k
        BY <3>2, <4>2, <4>3, Branches
      <4> QED
        BY <2>3, <4>1, <4>4
    <3> QED
      BY <3>1, <3>3, CorrectedMeans
  <2>4. CASE \E d \in ForKey(k) : d.type # "removed" /\ f \in Facts[d.value][d.path]
    <3>1. \E d \in D : d.type # "removed" /\ f \in Facts[d.value][d.path]
      BY <1>2, <2>4
    <3> QED
      BY <3>1, CorrectedMeans
  <2> QED
    BY <2>2, <2>3, <2>4, CorrectedMeans
<1> QED
  BY <1>7, <1>8

\* Objects that are not blind to each other, with what is in them.
ObjectsExplained(a) ==
    IsObj(a) =>
        \A b \in JsonValues : \A path \in Paths :
            IsObj(b) /\ ~Blind[a][b] =>
                Corrected(Facts[a][path], DeepCompare[a][b][path]) = Facts[b][path]

\* One key of two documents, for values whose objects are explained.
LEMMA KeyExplained ==
    ASSUME NEW a \in JsonValues, NEW b \in JsonValues, NEW path \in Paths,
           NEW k \in ToSet(Keys(a)) \cap ToSet(Keys(b)),
           ~Blind[At(a, k)][At(b, k)], ObjectsExplained(At(a, k))
    PROVE  Corrected(Facts[At(a, k)][Append(path, k)], KeyReport(a, b, k, path, DeepCompare))
              = Facts[At(b, k)][Append(path, k)]
<1> DEFINE v1 == At(a, k)
           v2 == At(b, k)
           here == Append(path, k)
<1>1. v1 \in JsonValues /\ v2 \in JsonValues /\ here \in Paths /\ Has(a, k) /\ Has(b, k)
  BY FieldType, KeysType DEF Paths
<1>2. CASE Descends(v1, v2)
  <2>1. KeyReport(a, b, k, path, DeepCompare) = DeepCompare[v1][v2][here]
    BY <1>1, <1>2 DEF KeyReport
  <2>2. v1.kind = v2.kind
    BY <1>1, <1>2, BlindRecur
  <2>3. IsObj(v1) /\ IsObj(v2)
    BY <1>2, <2>2 DEF Descends, IsContainer, IsArr, IsObj
  <2> HIDE DEF v1, v2, here
  <2> QED
    BY <1>1, <2>1, <2>3 DEF ObjectsExplained, v1, v2, here
<1>3. CASE ~Descends(v1, v2)
  <2>1. KeyReport(a, b, k, path, DeepCompare) = CompareWhole(v1, v2, here)
    BY <1>1, <1>3 DEF KeyReport
  <2>2. \A f \in Facts[v1][here] : IsPrefix(here, f[1])
    BY <1>1, FactsBelow
  <2> HIDE DEF v1, v2, here
  <2>3. CASE v1 = v2
    <3>1. CompareWhole(v1, v2, here) = {}
      BY <2>3 DEF CompareWhole
    <3>2. Corrected(Facts[v1][here], {}) = Facts[v2][here]
      BY <2>3, CorrectedByOne
    <3> QED
      BY <2>1, <3>1, <3>2 DEF v1, v2, here
  <2>4. CASE v1 # v2
    <3> DEFINE d == Difference("modified", here, v2)
    <3>1. CompareWhole(v1, v2, here) = {d}
      BY <2>4 DEF CompareWhole
    <3>2. d.type = "modified" /\ d.path = here /\ d.value = v2
      BY DEF Difference
    <3> HIDE DEF d
    <3>3. Corrected(Facts[v1][here], {d}) = Facts[v2][here]
      <4>1. \A f \in Facts[v1][here] : IsPrefix(d.path, f[1])
        BY <2>2, <3>2
      <4>2. Corrected(Facts[v1][here], {d}) =
               IF d.type = "removed" THEN {} ELSE Facts[d.value][d.path]
        BY <4>1, CorrectedByOne
      <4> QED
        BY <3>2, <4>2
    <3> QED
      BY <2>1, <3>1, <3>3 DEF v1, v2, here
  <2> QED
    BY <2>3, <2>4
<1> QED
  BY <1>2, <1>3

\* The differences of two objects are explained.
LEMMA EveryObjectExplained ==
    \A a \in JsonValues : ObjectsExplained(a)
<1> DEFINE S == {a \in JsonValues : ObjectsExplained(a)}
<1>1. ASSUME NEW a \in JsonValues, \A w \in JsonValues : Height[w] < Height[a] => w \in S
      PROVE  a \in S
  <2> SUFFICES ASSUME IsObj(a), NEW b \in JsonValues, NEW path \in Paths, IsObj(b), ~Blind[a][b]
               PROVE  Corrected(Facts[a][path], DeepCompare[a][b][path]) = Facts[b][path]
    BY DEF ObjectsExplained
  <2> DEFINE D == DeepCompare[a][b][path]
  <2>1. IsContainer(a) /\ IsContainer(b)
    BY DEF IsContainer
  <2>2. ASSUME NEW k \in ToSet(Keys(a)) \cap ToSet(Keys(b))
        PROVE  Corrected(Facts[At(a, k)][Append(path, k)], KeyReport(a, b, k, path, DeepCompare))
                  = Facts[At(b, k)][Append(path, k)]
    <3>1. /\ Keys(a) = a.keys /\ Keys(b) = b.keys
          /\ At(a, k) \in JsonValues /\ Height[At(a, k)] < Height[a]
      BY <2>1, FieldType, KeysType
    <3>2. ~Blind[At(a, k)][At(b, k)]
      BY <3>1, BlindRecur
    <3>3. ObjectsExplained(At(a, k))
      BY <1>1, <3>1
    <3> QED
      BY <3>2, <3>3, KeyExplained
  <2>3. Corrected(FieldFacts(a, path), D) = FieldFacts(b, path)
    BY <2>1, <2>2, KeyByKey
  <2>4. /\ Facts[a][path] = {<<path, EmptyObj>>} \cup FieldFacts(a, path)
        /\ Facts[b][path] = {<<path, EmptyObj>>} \cup FieldFacts(b, path)
    BY FactsRecur
  <2>5. ASSUME NEW d \in D PROVE ~IsPrefix(d.path, path)
    <3>1. PICK k \in AllKeys(Given(a), Given(b)) :
             d \in KeyReport(Given(a), Given(b), k, path, DeepCompare)
      BY DeepCompareRecur
    <3>2. k \in FieldName /\ d.path \in Paths /\ IsPrefix(Append(path, k), d.path)
      BY <3>1, ReportBelow DEF Differences
    <3> QED
      BY <3>2, Branches
  <2>6. \A f : f \in Corrected(Facts[a][path], D) <=>
                  f = <<path, EmptyObj>> \/ f \in Corrected(FieldFacts(a, path), D)
    <3> DEFINE root == <<path, EmptyObj>>
    <3>1. root[1] = path
      OBVIOUS
    <3> HIDE DEF root, D
    <3>2. Facts[a][path] = {root} \cup FieldFacts(a, path)
      BY <2>4 DEF root
    <3>3. \A f : f \in Corrected(Facts[a][path], D) <=>
                    f = root \/ f \in Corrected(FieldFacts(a, path), D)
      BY <2>5, <3>1, <3>2, CorrectedMeans
    <3> QED
      BY <3>3 DEF root
  <2> HIDE DEF D
  <2>7. Corrected(Facts[a][path], D) = {<<path, EmptyObj>>} \cup FieldFacts(b, path)
    <3> HIDE DEF EmptyObj
    <3> QED
      BY <2>3, <2>6
  <2> QED
    BY <2>4, <2>7 DEF D
<1>2. \A a \in JsonValues : a \in S
  BY <1>1, HeightInduction
<1> QED
  BY <1>2

\* Carrying out the report of two documents that are not blind to each other on
\* what the left one says gives what the right one says.
LEMMA DocumentsExplained ==
    ASSUME NEW a \in JsonValues, NEW b \in JsonValues, ~BlindDocuments(a, b)
    PROVE  Corrected(Content(a), DeepCompare[a][b][<<>>]) = Content(b)
<1>1. IsContainer(a) /\ IsContainer(b) /\ ~Blind[a][b]
  BY DEF BlindDocuments
<1>2. <<>> \in Paths
  BY DEF Paths
<1>3. (IsObj(a) /\ IsObj(b)) \/ (IsArr(a) /\ IsArr(b))
  <2>1. Descends(a, b) \/ (IsArr(a) /\ IsArr(b))
    BY <1>1 DEF Descends, TypeOf
  <2>2. Descends(a, b) => a.kind = b.kind
    BY <1>1, BlindRecur
  <2> QED
    BY <1>1, <2>1, <2>2 DEF IsContainer, IsArr, IsObj
<1>4. ASSUME NEW k \in ToSet(Keys(a)) \cap ToSet(Keys(b))
      PROVE  ~Blind[At(a, k)][At(b, k)]
  <2>1. CASE IsObj(a) /\ IsObj(b)
    <3>1. /\ Keys(a) = a.keys /\ Keys(b) = b.keys
      BY <2>1, FieldType, KeysType
    <3> QED
      BY <1>1, <2>1, <3>1, BlindRecur
  <2>2. CASE IsArr(a) /\ IsArr(b)
    BY <2>2 DEF BlindDocuments
  <2> QED
    BY <1>3, <2>1, <2>2
<1>5. \A k \in ToSet(Keys(a)) \cap ToSet(Keys(b)) :
         Corrected(Facts[At(a, k)][Append(<<>>, k)], KeyReport(a, b, k, <<>>, DeepCompare))
            = Facts[At(b, k)][Append(<<>>, k)]
  BY <1>2, <1>4, FieldType, EveryObjectExplained, KeyExplained
<1> QED
  BY <1>1, <1>2, <1>5, KeyByKey DEF Content

----------------------------------------------------------------------------
(* The specification                                                       *)

\* What is known once a comparison is done: the result is that of performDiff.
Reported ==
    /\ work.op = "compare" /\ work.left \in JsonValues /\ work.right \in JsonValues
    /\ result = Pending \/ result = PerformDiff(work.left, work.right)

\* A report explains the difference once it is made.
LEMMA ReportedExplains == Reported => ReportExplains
<1> SUFFICES ASSUME Reported, Done("compare"), ~result.error,
                    ~BlindDocuments(work.left, work.right)
             PROVE  Corrected(Content(work.left), result.differences) = Content(work.right)
  BY DEF ReportExplains
<1>1. work.left \in JsonValues /\ work.right \in JsonValues /\ result = PerformDiff(work.left, work.right)
  BY DEF Reported, Done
<1>2. result.differences = DeepCompare[work.left][work.right][<<>>]
  BY <1>1 DEF PerformDiff
<1> QED
  BY <1>1, <1>2, DocumentsExplained

\* What the comparison reports explains the difference of the documents, whatever
\* they are (deepCompare, index.html:2273-2297), but for the blind spots.
THEOREM ReportAlwaysExplains == CompareSpec => []ReportExplains
<1>1. CompareInit => Reported
  BY DEF CompareInit, Reported
<1>2. Reported /\ [Compares]_<<work, result>> => Reported'
  <2> SUFFICES ASSUME Reported, [Compares]_<<work, result>> PROVE Reported'
    OBVIOUS
  <2>1. CASE Compares
    BY <2>1 DEF Compares, Reported
  <2>2. CASE UNCHANGED <<work, result>>
    BY <2>2 DEF Reported
  <2> QED
    BY <2>1, <2>2
<1>3. Reported => ReportExplains
  BY ReportedExplains
<1> QED
  BY <1>1, <1>2, <1>3, PTL DEF CompareSpec

----------------------------------------------------------------------------
(* Values by their depth                                                   *)

\* The values one deeper than those in S.
Deeper(S) == Atoms \cup ArraysOf(S) \cup ObjectsOf(S)

\* The values of one more depth are made of those below it.
LEMMA UpToRecurs ==
    \A n \in 0 .. MaxWeight : UpTo[n] = IF n = 0 THEN Atoms ELSE Deeper(UpTo[n - 1])
<1> DEFINE All(g, N) == g = [n \in 0 .. N |-> IF n = 0 THEN Atoms ELSE Deeper(g[n - 1])]
           S == {N \in Nat : \E g : All(g, N)}
<1>1. 0 \in S
  <2>1. All([n \in 0 .. 0 |-> Atoms], 0)
    OBVIOUS
  <2> QED
    BY <2>1
<1>2. ASSUME NEW N \in Nat, N \in S PROVE N + 1 \in S
  <2>1. PICK g : All(g, N)
    BY <1>2
  <2> DEFINE h == [n \in 0 .. N + 1 |-> IF n = N + 1 THEN Deeper(g[N]) ELSE g[n]]
  <2>2. All(h, N + 1)
    BY <2>1
  <2> HIDE DEF h, All
  <2>3. \E f : All(f, N + 1)
    BY <2>2
  <2> QED
    BY <2>3
<1>3. MaxWeight \in S
  BY <1>1, <1>2, SetInduction, MergingAssumption
<1>4. \E g : All(g, MaxWeight)
  BY <1>3
<1>5. All(UpTo, MaxWeight)
  BY <1>4 DEF UpTo, Deeper
<1> QED
  BY <1>5

\* More values make more arrays and objects.
LEMMA ValuesMonotone ==
    ASSUME NEW S, NEW T, S \subseteq T
    PROVE  ArraysOf(S) \subseteq ArraysOf(T) /\ ObjectsOf(S) \subseteq ObjectsOf(T)
<1>1. Seq(S) \subseteq Seq(T)
  BY SeqMonotonic
<1>2. ArraysOf(S) \subseteq ArraysOf(T)
  BY <1>1 DEF ArraysOf
<1>3. ObjectsOf(S) \subseteq ObjectsOf(T)
  BY <1>1 DEF ObjectsOf
<1> QED
  BY <1>2, <1>3

\* Deeper values include those that are not.
LEMMA UpToMonotone ==
    \A m, n \in 0 .. MaxWeight : m <= n => UpTo[m] \subseteq UpTo[n]
<1> DEFINE D == MaxWeight
<1>0. D \in Nat
  BY MergingAssumption
<1> HIDE DEF D
<1>1. ASSUME NEW n \in Nat, n + 1 <= D PROVE UpTo[n] \subseteq UpTo[n + 1]
  <2> DEFINE T == {m \in Nat : m + 1 <= D => UpTo[m] \subseteq UpTo[m + 1]}
  <2>1. 0 \in T
    <3> SUFFICES ASSUME 0 + 1 <= D PROVE UpTo[0] \subseteq UpTo[0 + 1]
      OBVIOUS
    <3>1. UpTo[0] = Atoms /\ UpTo[0 + 1] = Deeper(UpTo[0])
      <4>1. 0 \in 0 .. D /\ 0 + 1 \in 0 .. D /\ 0 + 1 # 0 /\ (0 + 1) - 1 = 0
        BY <1>0
      <4> QED
        BY <4>1, UpToRecurs DEF D
    <3> QED
      BY <3>1 DEF Deeper
  <2>2. ASSUME NEW m \in Nat, m \in T PROVE m + 1 \in T
    <3> SUFFICES ASSUME (m + 1) + 1 <= D PROVE UpTo[m + 1] \subseteq UpTo[(m + 1) + 1]
      OBVIOUS
    <3>1. UpTo[m] \subseteq UpTo[m + 1]
      BY <1>0, <2>2
    <3>2. /\ m + 1 \in 0 .. D /\ (m + 1) + 1 \in 0 .. D
          /\ (m + 1) - 1 = m /\ ((m + 1) + 1) - 1 = m + 1 /\ m + 1 # 0 /\ (m + 1) + 1 # 0
      BY <1>0
    <3>3. UpTo[m + 1] = Deeper(UpTo[m]) /\ UpTo[(m + 1) + 1] = Deeper(UpTo[m + 1])
      BY <3>2, UpToRecurs DEF D
    <3>4. ArraysOf(UpTo[m]) \subseteq ArraysOf(UpTo[m + 1]) /\ ObjectsOf(UpTo[m]) \subseteq ObjectsOf(UpTo[m + 1])
      BY <3>1, ValuesMonotone
    <3> QED
      BY <3>3, <3>4 DEF Deeper
  <2>3. n \in T
    BY <2>1, <2>2, SetInduction
  <2> QED
    BY <1>1, <2>3
<1> SUFFICES ASSUME NEW m \in 0 .. D, NEW n \in 0 .. D, m <= n PROVE UpTo[m] \subseteq UpTo[n]
  BY DEF D
<1> DEFINE S == {k \in Nat : m <= k /\ k <= D => UpTo[m] \subseteq UpTo[k]}
<1>2. 0 \in S
  BY <1>0
<1>3. ASSUME NEW k \in Nat, k \in S PROVE k + 1 \in S
  <2> SUFFICES ASSUME m <= k + 1, k + 1 <= D PROVE UpTo[m] \subseteq UpTo[k + 1]
    OBVIOUS
  <2>1. CASE m = k + 1
    BY <2>1
  <2>2. CASE m # k + 1
    BY <1>0, <1>1, <1>3, <2>2
  <2> QED
    BY <2>1, <2>2
<1>4. \A k \in Nat : k \in S
  BY <1>2, <1>3, SetInduction
<1> QED
  BY <1>0, <1>4

\* What is in a value, and what is made of values.
LEMMA ValueShape ==
    ASSUME NEW n \in 0 .. MaxWeight
    PROVE  /\ \A v \in UpTo[n] :
                 /\ IsArr(v) => n - 1 \in 0 .. MaxWeight /\ v = Arr(v.items) /\ v.items \in Seq(UpTo[n - 1])
                 /\ IsObj(v) => /\ n - 1 \in 0 .. MaxWeight
                                /\ v = Obj(v.keys, v.items) /\ v.keys \in Seq(FieldNames)
                                /\ v.items \in Seq(UpTo[n - 1])
                                /\ Len(v.items) = Len(v.keys) /\ IsInjective(v.keys)
                 /\ ~IsContainer(v) => v \in Atoms
           /\ \A v \in Atoms : v \in UpTo[n] /\ ~IsContainer(v)
<1>0. MaxWeight \in Nat
  BY MergingAssumption
<1>1. \A v \in Atoms : v.kind \in {"null", "number", "string"}
  BY DEF Atoms, Null
<1>2. \A v \in Atoms : ~IsArr(v) /\ ~IsObj(v) /\ ~IsContainer(v)
  BY <1>1 DEF IsArr, IsObj, IsContainer
<1>3. n = 0 => UpTo[n] = Atoms
  BY UpToRecurs
<1>4. n # 0 => n - 1 \in 0 .. MaxWeight /\ UpTo[n] = Deeper(UpTo[n - 1])
  BY <1>0, UpToRecurs
<1>5. ASSUME NEW v \in UpTo[n], v \notin Atoms
      PROVE  /\ n - 1 \in 0 .. MaxWeight
             /\ v \in ArraysOf(UpTo[n - 1]) \/ v \in ObjectsOf(UpTo[n - 1])
  BY <1>3, <1>4, <1>5 DEF Deeper
<1>6. \A S : \A v \in ArraysOf(S) : IsArr(v) /\ ~IsObj(v) /\ v = Arr(v.items) /\ v.items \in Seq(S)
  BY DEF ArraysOf, IsArr, IsObj, Arr
<1>7. \A S : \A v \in ObjectsOf(S) :
         /\ IsObj(v) /\ ~IsArr(v) /\ v = Obj(v.keys, v.items) /\ v.keys \in Seq(FieldNames)
         /\ v.items \in Seq(S) /\ Len(v.items) = Len(v.keys) /\ IsInjective(v.keys)
  BY DEF ObjectsOf, IsArr, IsObj, Obj
<1>8. \A v \in Atoms : v \in UpTo[n]
  BY <1>3, <1>4 DEF Deeper
<1>9. ASSUME NEW v \in UpTo[n], IsArr(v)
      PROVE  n - 1 \in 0 .. MaxWeight /\ v = Arr(v.items) /\ v.items \in Seq(UpTo[n - 1])
  BY <1>2, <1>5, <1>6, <1>7, <1>9
<1>10. ASSUME NEW v \in UpTo[n], IsObj(v)
       PROVE  /\ n - 1 \in 0 .. MaxWeight
              /\ v = Obj(v.keys, v.items) /\ v.keys \in Seq(FieldNames)
              /\ v.items \in Seq(UpTo[n - 1])
              /\ Len(v.items) = Len(v.keys) /\ IsInjective(v.keys)
  BY <1>2, <1>5, <1>6, <1>7, <1>10
<1>11. ASSUME NEW v \in UpTo[n], ~IsContainer(v) PROVE v \in Atoms
  BY <1>5, <1>6, <1>7, <1>11 DEF IsContainer
<1> QED
  BY <1>2, <1>8, <1>9, <1>10, <1>11

\* Values put together have one depth more.
LEMMA ValueMade ==
    ASSUME NEW n \in 0 .. MaxWeight, n # 0
    PROVE  /\ \A s \in Seq(UpTo[n - 1]) : Arr(s) \in UpTo[n]
           /\ \A keys \in Seq(FieldNames), s \in Seq(UpTo[n - 1]) :
                 Len(s) = Len(keys) /\ IsInjective(keys) => Obj(keys, s) \in UpTo[n]
<1>1. UpTo[n] = Deeper(UpTo[n - 1])
  BY UpToRecurs, MergingAssumption
<1>2. \A S : \A s \in Seq(S) : Arr(s) \in ArraysOf(S)
  BY DEF ArraysOf, Arr
<1>3. \A S : \A keys \in Seq(FieldNames), s \in Seq(S) :
         Len(s) = Len(keys) /\ IsInjective(keys) => Obj(keys, s) \in ObjectsOf(S)
  BY DEF ObjectsOf, Obj
<1> QED
  BY <1>1, <1>2, <1>3 DEF Deeper

Within == UpTo[MaxWeight]

\* How many containers are in each other in a value.
Depth == [v \in Within |-> CHOOSE n \in 0 .. MaxWeight :
             v \in UpTo[n] /\ \A m \in 0 .. MaxWeight : v \in UpTo[m] => n <= m]

\* The first of some sets that grow.
LEMMA FirstSet ==
    ASSUME NEW N \in Nat, NEW F, \A m, n \in 0 .. N : m <= n => F[m] \subseteq F[n],
           NEW v, v \in F[N],
           NEW d, d = CHOOSE n \in 0 .. N : v \in F[n] /\ \A m \in 0 .. N : v \in F[m] => n <= m
    PROVE  d \in 0 .. N /\ \A n \in 0 .. N : v \in F[n] <=> d <= n
<1> DEFINE T == {n \in 0 .. N : v \in F[n]}
<1>1. \E n \in T : \A m \in T : n <= m
  <2>1. T \subseteq Nat /\ N \in T
    OBVIOUS
  <2> HIDE DEF T
  <2> QED
    BY <2>1, Smallest
<1>2. \E n \in 0 .. N : v \in F[n] /\ \A m \in 0 .. N : v \in F[m] => n <= m
  BY <1>1
<1>3. d \in 0 .. N /\ v \in F[d] /\ \A m \in 0 .. N : v \in F[m] => d <= m
  BY <1>2
<1> QED
  BY <1>3

\* A value is in a set if it is no deeper than the set.
LEMMA DepthFacts ==
    /\ \A n \in 0 .. MaxWeight : UpTo[n] \subseteq Within
    /\ \A v \in Within : /\ Depth[v] \in 0 .. MaxWeight
                            /\ \A n \in 0 .. MaxWeight : v \in UpTo[n] <=> Depth[v] <= n
<1>0. MaxWeight \in Nat
  BY MergingAssumption
<1>1. \A n \in 0 .. MaxWeight : UpTo[n] \subseteq Within
  BY <1>0, UpToMonotone DEF Within
<1>2. ASSUME NEW v \in Within
      PROVE  /\ Depth[v] \in 0 .. MaxWeight
             /\ \A n \in 0 .. MaxWeight : v \in UpTo[n] <=> Depth[v] <= n
  <2>1. Depth[v] = CHOOSE n \in 0 .. MaxWeight :
                      v \in UpTo[n] /\ \A m \in 0 .. MaxWeight : v \in UpTo[m] => n <= m
    BY DEF Depth
  <2>2. v \in UpTo[MaxWeight]
    BY DEF Within
  <2> DEFINE d == Depth[v]
  <2>3. d = CHOOSE n \in 0 .. MaxWeight :
               v \in UpTo[n] /\ \A m \in 0 .. MaxWeight : v \in UpTo[m] => n <= m
    BY <2>1
  <2> HIDE DEF d
  <2>4. d \in 0 .. MaxWeight /\ \A n \in 0 .. MaxWeight : v \in UpTo[n] <=> d <= n
    BY <1>0, <2>2, <2>3, UpToMonotone, FirstSet
  <2> QED
    BY <2>4 DEF d
<1> QED
  BY <1>1, <1>2

\* What is in a container is not as deep.
LEMMA Inside ==
    ASSUME NEW v \in Within
    PROVE  /\ IsContainer(v) =>
                 /\ Depth[v] - 1 \in 0 .. MaxWeight
                 /\ v.items \in Seq(Within) /\ v.items \in Seq(UpTo[Depth[v] - 1])
                 /\ DOMAIN v.items = 1 .. Len(v.items) /\ Len(v.items) \in Nat
                 /\ \A i \in DOMAIN v.items :
                       v.items[i] \in Within /\ Depth[v.items[i]] < Depth[v]
           /\ IsArr(v) => v = Arr(v.items)
           /\ IsObj(v) => /\ v = Obj(v.keys, v.items) /\ v.keys \in Seq(FieldNames)
                          /\ Len(v.items) = Len(v.keys) /\ IsInjective(v.keys)
                          /\ DOMAIN v.keys = DOMAIN v.items
           /\ ~IsContainer(v) => v \in Atoms
<1> DEFINE d == Depth[v]
<1>1. d \in 0 .. MaxWeight /\ v \in UpTo[d]
  BY DepthFacts
<1> HIDE DEF d
<1>2. /\ IsArr(v) => d - 1 \in 0 .. MaxWeight /\ v = Arr(v.items) /\ v.items \in Seq(UpTo[d - 1])
      /\ IsObj(v) => /\ d - 1 \in 0 .. MaxWeight
                     /\ v = Obj(v.keys, v.items) /\ v.keys \in Seq(FieldNames)
                     /\ v.items \in Seq(UpTo[d - 1])
                     /\ Len(v.items) = Len(v.keys) /\ IsInjective(v.keys)
      /\ ~IsContainer(v) => v \in Atoms
  BY <1>1, ValueShape
<1>3. ASSUME IsContainer(v)
      PROVE  /\ d - 1 \in 0 .. MaxWeight
             /\ v.items \in Seq(Within) /\ v.items \in Seq(UpTo[d - 1])
             /\ DOMAIN v.items = 1 .. Len(v.items) /\ Len(v.items) \in Nat
             /\ \A i \in DOMAIN v.items : v.items[i] \in Within /\ Depth[v.items[i]] < d
  <2>1. d - 1 \in 0 .. MaxWeight /\ v.items \in Seq(UpTo[d - 1])
    BY <1>2, <1>3 DEF IsContainer
  <2>2. v.items \in Seq(Within)
    BY <2>1, DepthFacts, SeqMonotonic
  <2>3. \A i \in DOMAIN v.items : v.items[i] \in UpTo[d - 1]
    BY <2>1
  <2>4. \A i \in DOMAIN v.items : v.items[i] \in Within /\ Depth[v.items[i]] <= d - 1
                                  /\ Depth[v.items[i]] \in 0 .. MaxWeight
    BY <2>1, <2>3, DepthFacts
  <2>5. \A i \in DOMAIN v.items : v.items[i] \in Within /\ Depth[v.items[i]] < d
    BY <1>1, <2>4
  <2>6. DOMAIN v.items = 1 .. Len(v.items) /\ Len(v.items) \in Nat
    BY <2>2
  <2> QED
    BY <2>1, <2>2, <2>5, <2>6
<1>4. ASSUME IsObj(v) PROVE DOMAIN v.keys = DOMAIN v.items
  <2>1. v.keys \in Seq(FieldNames) /\ v.items \in Seq(UpTo[d - 1]) /\ Len(v.items) = Len(v.keys)
    BY <1>2, <1>4
  <2> QED
    BY <2>1
<1> QED
  BY <1>2, <1>3, <1>4 DEF d

\* A value is no deeper than n if what is in it is less deep.
LEMMA Made ==
    ASSUME NEW n \in 0 .. MaxWeight, NEW s \in Seq(Within),
           \A i \in DOMAIN s : Depth[s[i]] < n
    PROVE  /\ n # 0 => Arr(s) \in UpTo[n]
           /\ \A keys \in Seq(FieldNames) :
                 n # 0 /\ Len(s) = Len(keys) /\ IsInjective(keys) => Obj(keys, s) \in UpTo[n]
<1> SUFFICES ASSUME n # 0
             PROVE  /\ Arr(s) \in UpTo[n]
                    /\ \A keys \in Seq(FieldNames) :
                          Len(s) = Len(keys) /\ IsInjective(keys) => Obj(keys, s) \in UpTo[n]
  OBVIOUS
<1>1. n - 1 \in 0 .. MaxWeight
  BY MergingAssumption
<1>2. \A i \in DOMAIN s : s[i] \in Within
  OBVIOUS
<1>3. \A i \in DOMAIN s : s[i] \in UpTo[n - 1]
  BY <1>1, <1>2, DepthFacts
<1>4. s \in Seq(UpTo[n - 1])
  <2>1. Len(s) \in Nat /\ s = [i \in 1 .. Len(s) |-> s[i]] /\ DOMAIN s = 1 .. Len(s)
    OBVIOUS
  <2> QED
    BY <1>3, <2>1
<1> QED
  BY <1>4, ValueMade

----------------------------------------------------------------------------
(* Weights                                                                 *)

\* The loop that adds up what is in a container; w: the weights.
Plus(v, n, x) == CASE IsArr(v) -> n + x [] IsObj(v) -> IF x < n THEN n ELSE x

Adds(v, w) == [i \in DOMAIN v.items |-> [n \in Nat |-> Plus(v, n, w[v.items[i]])]]

\* The weight of a value is made of those of the values in it.
LEMMA WeightRecurs ==
    /\ Weight \in [Within -> Nat]
    /\ \A v \in Within :
          Weight[v] = IF IsContainer(v) THEN 1 + Outcome(Adds(v, Weight), 0) ELSE 0
<1> DEFINE Weighs(v, w) == IF IsContainer(v) THEN 1 + Outcome(Adds(v, w), 0) ELSE 0
           step == [v \in Within |-> [w \in [Within -> Nat] |-> Weighs(v, w)]]
<1>1. ASSUME NEW v \in Within, NEW w, \A u \in Within : Depth[u] < Depth[v] => w[u] \in Nat
      PROVE  Weighs(v, w) \in Nat
  <2> SUFFICES ASSUME IsContainer(v) PROVE Outcome(Adds(v, w), 0) \in Nat
    OBVIOUS
  <2>1. /\ DOMAIN v.items = 1 .. Len(v.items) /\ Len(v.items) \in Nat
        /\ \A i \in DOMAIN v.items : w[v.items[i]] \in Nat
    BY <1>1, Inside
  <2>2. Len(Adds(v, w)) = Len(v.items)
    BY <2>1 DEF Adds
  <2>3. \A i \in 1 .. Len(v.items) : Adds(v, w)[i] \in [Nat -> Nat]
    BY <2>1 DEF Adds, Plus, IsContainer
  <2> QED
    BY <2>1, <2>2, <2>3, ThroughType
<1>2. ASSUME NEW v \in Within, NEW g, NEW h, \A u \in Within : Depth[u] < Depth[v] => g[u] = h[u]
      PROVE  Weighs(v, g) = Weighs(v, h)
  <2> SUFFICES ASSUME IsContainer(v) PROVE Outcome(Adds(v, g), 0) = Outcome(Adds(v, h), 0)
    OBVIOUS
  <2>1. \A i \in DOMAIN v.items : g[v.items[i]] = h[v.items[i]]
    BY <1>2, Inside
  <2>2. Adds(v, g) = Adds(v, h)
    BY <2>1 DEF Adds
  <2> QED
    BY <2>2
<1>3. Depth \in [Within -> Nat]
  BY DepthFacts, MergingAssumption DEF Depth
<1>4. \E f \in [Within -> Nat] : \A v \in Within : f[v] = step[v][f]
  <2> HIDE DEF Weighs
  <2>1. \A v \in Within : \A w \in [Within -> Nat] : step[v][w] = Weighs(v, w)
    OBVIOUS
  <2>2. step \in [Within -> [[Within -> Nat] -> Nat]]
    BY <1>1
  <2>3. Determined(Within, Nat, Depth, step)
    BY <1>2, <1>3, <2>1, <2>2 DEF Determined
  <2> HIDE DEF step
  <2> QED
    BY <2>3, RankedRecursion
<1>5. PICK f \in [Within -> Nat] : \A v \in Within : f[v] = step[v][f]
  BY <1>4
<1>6. f = [v \in Within |-> Weighs(v, f)]
  <2> HIDE DEF Weighs
  <2> QED
    BY <1>5
<1>7. Weight = [v \in Within |-> Weighs(v, Weight)]
  BY <1>6 DEF Weight, Within, Adds, Plus
<1> HIDE DEF Weighs
<1>8. \A v \in Within : Weight[v] = Weighs(v, Weight)
  BY <1>7
<1>9. \A v \in Within : Weight[v] \in Nat
  <2> DEFINE S == {v \in Within : Weight[v] \in Nat}
  <2>1. ASSUME NEW v \in Within, \A u \in Within : Depth[u] < Depth[v] => u \in S
        PROVE  v \in S
    BY <1>1, <1>8, <2>1
  <2>2. \A v \in Within : Depth[v] \in Nat
    BY <1>3
  <2>3. \A v \in Within : v \in S
    <3> HIDE DEF S
    <3> QED
      BY <2>1, <2>2, RankInduction
  <2> QED
    BY <2>3
<1>10. Weight \in [Within -> Nat]
  BY <1>7, <1>9
<1> QED
  BY <1>8, <1>10 DEF Weighs

----------------------------------------------------------------------------
(* The sums that weights are made of, and documents                        *)

\* The loop that adds up the weights of the values in a sequence.
Sums(s) == [i \in DOMAIN s |-> [n \in Nat |-> n + Weight[s[i]]]]

\* The weight of its first n values, and of all.
Partial(s, n) == Through(Sums(s), 0)[n]
Total(s) == Outcome(Sums(s), 0)

\* The sum grows by one weight at a time.
LEMMA PartialSums ==
    ASSUME NEW s \in Seq(Within)
    PROVE  /\ Len(s) \in Nat /\ DOMAIN s = 1 .. Len(s)
           /\ \A i \in 1 .. Len(s) : s[i] \in Within /\ Weight[s[i]] \in Nat
           /\ Len(Sums(s)) = Len(s)
           /\ Total(s) = Partial(s, Len(s))
           /\ Partial(s, 0) = 0
           /\ \A n \in 0 .. Len(s) : Partial(s, n) \in Nat
           /\ \A n \in 1 .. Len(s) : Partial(s, n) = Partial(s, n - 1) + Weight[s[n]]
<1>1. Len(s) \in Nat /\ DOMAIN s = 1 .. Len(s)
  OBVIOUS
<1>2. \A i \in 1 .. Len(s) : s[i] \in Within /\ Weight[s[i]] \in Nat
  BY WeightRecurs
<1>3. Len(Sums(s)) = Len(s)
  BY <1>1 DEF Sums
<1>4. \A i \in 1 .. Len(s) : Sums(s)[i] = [n \in Nat |-> n + Weight[s[i]]]
  BY <1>1 DEF Sums
<1>5. \A i \in 1 .. Len(Sums(s)) : Sums(s)[i] \in [Nat -> Nat]
  <2> SUFFICES ASSUME NEW i \in 1 .. Len(s) PROVE Sums(s)[i] \in [Nat -> Nat]
    BY <1>3
  <2> DEFINE k == Weight[s[i]]
  <2>1. k \in Nat /\ Sums(s)[i] = [n \in Nat |-> n + k]
    BY <1>2, <1>4
  <2> HIDE DEF k
  <2>2. [n \in Nat |-> n + k] \in [Nat -> Nat]
    BY <2>1
  <2> QED
    BY <2>1, <2>2
<1>6. \A n \in 0 .. Len(Sums(s)) : Through(Sums(s), 0)[n] \in Nat
  BY <1>1, <1>3, <1>5, ThroughType
<1>7. /\ Through(Sums(s), 0)[0] = 0
      /\ \A n \in 1 .. Len(Sums(s)) : Through(Sums(s), 0)[n] = Sums(s)[n][Through(Sums(s), 0)[n - 1]]
  BY <1>1, <1>3, ThroughSteps
<1>8. ASSUME NEW n \in 1 .. Len(s) PROVE Partial(s, n) = Partial(s, n - 1) + Weight[s[n]]
  <2>1. n - 1 \in 0 .. Len(s)
    BY <1>1
  <2>2. Partial(s, n - 1) \in Nat /\ Partial(s, n) = Sums(s)[n][Partial(s, n - 1)]
    BY <1>3, <1>6, <1>7, <2>1 DEF Partial
  <2> QED
    BY <1>4, <2>2
<1>9. Total(s) = Partial(s, Len(s))
  BY <1>3 DEF Total, Partial, Outcome
<1> QED
  BY <1>1, <1>2, <1>3, <1>6, <1>7, <1>8, <1>9 DEF Partial

\* No part of a sum is more than the sum.
LEMMA SumsGrow ==
    ASSUME NEW s \in Seq(Within)
    PROVE  /\ Total(s) \in Nat
           /\ \A n \in 0 .. Len(s) : Partial(s, n) <= Total(s)
           /\ \A i \in DOMAIN s : Weight[s[i]] <= Total(s)
<1>0. Len(s) \in Nat /\ Total(s) \in Nat
  BY PartialSums
<1>1. ASSUME NEW n \in 0 .. Len(s) PROVE Partial(s, n) <= Total(s)
  <2> DEFINE S == {m \in Nat : n <= m /\ m <= Len(s) => Partial(s, n) <= Partial(s, m)}
  <2>1. 0 \in S
    BY PartialSums
  <2>2. ASSUME NEW m \in Nat, m \in S PROVE m + 1 \in S
    <3> SUFFICES ASSUME n <= m + 1, m + 1 <= Len(s) PROVE Partial(s, n) <= Partial(s, m + 1)
      OBVIOUS
    <3>0. m + 1 \in 1 .. Len(s) /\ (m + 1) - 1 = m /\ m \in 0 .. Len(s)
      BY <1>0
    <3>1. /\ Partial(s, m + 1) = Partial(s, m) + Weight[s[m + 1]]
          /\ Weight[s[m + 1]] \in Nat /\ Partial(s, m) \in Nat /\ Partial(s, n) \in Nat
          /\ Partial(s, m + 1) \in Nat
      BY <3>0, PartialSums
    <3>2. CASE n = m + 1
      BY <3>1, <3>2
    <3>3. CASE n # m + 1
      BY <2>2, <3>0, <3>1, <3>3
    <3> QED
      BY <3>2, <3>3
  <2>3. Len(s) \in S
    BY <1>0, <2>1, <2>2, SetInduction
  <2> QED
    BY <1>0, <2>3, PartialSums
<1>2. ASSUME NEW i \in DOMAIN s PROVE Weight[s[i]] <= Total(s)
  <2>1. i \in 1 .. Len(s) /\ i - 1 \in 0 .. Len(s) /\ i \in 0 .. Len(s)
    BY <1>0
  <2>2. /\ Partial(s, i) = Partial(s, i - 1) + Weight[s[i]]
        /\ Weight[s[i]] \in Nat /\ Partial(s, i - 1) \in Nat
    BY <2>1, PartialSums
  <2>3. Partial(s, i) <= Total(s)
    BY <1>1, <2>1
  <2> QED
    BY <1>0, <2>2, <2>3
<1> QED
  BY <1>0, <1>1, <1>2

\* The sum of no weight, and of one.
LEMMA TotalOfNoneAndOne ==
    /\ Total(<<>>) = 0
    /\ \A x \in Within : Total(<<x>>) = Weight[x]
<1>1. <<>> \in Seq(Within) /\ Len(<<>>) = 0
  OBVIOUS
<1>2. Total(<<>>) = 0
  BY <1>1, PartialSums
<1>3. ASSUME NEW x \in Within PROVE Total(<<x>>) = Weight[x]
  <2> DEFINE s == <<x>>
  <2>1. s \in Seq(Within) /\ Len(s) = 1 /\ s[1] = x
    OBVIOUS
  <2> HIDE DEF s
  <2>2. 1 \in 1 .. Len(s) /\ 1 - 1 = 0
    BY <2>1
  <2>3. Total(s) = Weight[x]
    <3>1. /\ Total(s) = Partial(s, 1) /\ Partial(s, 0) = 0 /\ Weight[x] \in Nat
          /\ Partial(s, 1) = Partial(s, 1 - 1) + Weight[s[1]]
      BY <2>1, <2>2, PartialSums
    <3> QED
      BY <2>1, <2>2, <3>1
  <2> QED
    BY <2>3 DEF s
<1> QED
  BY <1>2, <1>3

\* The sum over two sequences.
LEMMA TotalOfBoth ==
    ASSUME NEW s \in Seq(Within), NEW t \in Seq(Within)
    PROVE  s \o t \in Seq(Within) /\ Total(s \o t) = Total(s) + Total(t)
<1> DEFINE u == s \o t
           S == {n \in Nat : n <= Len(t) => Partial(u, Len(s) + n) = Total(s) + Partial(t, n)}
<1>0. /\ Len(s) \in Nat /\ Len(t) \in Nat /\ u \in Seq(Within) /\ Len(u) = Len(s) + Len(t)
      /\ \A i \in 1 .. Len(s) : u[i] = s[i]
      /\ \A i \in 1 .. Len(t) : u[Len(s) + i] = t[i]
  BY ConcatProperties
<1> HIDE DEF u
<1>1. 0 \in S
  <2>1. Len(Sums(u)) = Len(u) /\ Len(Sums(s)) = Len(s) /\ DOMAIN u = 1 .. Len(u) /\ DOMAIN s = 1 .. Len(s)
    BY <1>0, PartialSums
  <2>2. \A n \in 1 .. Len(s) : Sums(u)[n] = Sums(s)[n]
    BY <1>0, <2>1 DEF Sums
  <2>3. Through(Sums(u), 0)[Len(s)] = Through(Sums(s), 0)[Len(s)]
    <3> DEFINE fs == Sums(u)
               gs == Sums(s)
               m == Len(s)
    <3>1. /\ Len(fs) \in Nat /\ Len(gs) \in Nat /\ m \in Nat /\ m <= Len(fs) /\ m <= Len(gs)
          /\ \A n \in 1 .. m : fs[n] = gs[n]
      BY <1>0, <2>1, <2>2
    <3> HIDE DEF fs, gs, m
    <3>2. Through(fs, 0)[m] = Through(gs, 0)[m]
      BY <3>1, SamePrefix
    <3> QED
      BY <3>2 DEF fs, gs, m
  <2>4. Partial(u, Len(s)) = Total(s)
    BY <2>3, PartialSums DEF Partial
  <2>5. Partial(t, 0) = 0 /\ Total(s) \in Nat
    BY PartialSums
  <2> QED
    BY <1>0, <2>4, <2>5
<1>2. ASSUME NEW n \in Nat, n \in S PROVE n + 1 \in S
  <2> SUFFICES ASSUME n + 1 <= Len(t) PROVE Partial(u, Len(s) + (n + 1)) = Total(s) + Partial(t, n + 1)
    OBVIOUS
  <2> DEFINE k == Len(s) + (n + 1)
  <2>1. /\ k \in 1 .. Len(u) /\ k - 1 = Len(s) + n
        /\ n + 1 \in 1 .. Len(t) /\ (n + 1) - 1 = n /\ n \in 0 .. Len(t)
        /\ u[k] = t[n + 1]
    BY <1>0
  <2> HIDE DEF k
  <2>2. Partial(u, k) = Partial(u, k - 1) + Weight[u[k]]
    BY <1>0, <2>1, PartialSums
  <2>3. /\ Partial(t, n + 1) = Partial(t, n) + Weight[t[n + 1]]
        /\ Partial(t, n) \in Nat /\ Weight[t[n + 1]] \in Nat /\ Total(s) \in Nat
    BY <2>1, PartialSums
  <2>4. Partial(u, Len(s) + n) = Total(s) + Partial(t, n)
    BY <1>2, <2>1
  <2>5. Partial(u, k) = Total(s) + Partial(t, n + 1)
    BY <2>1, <2>2, <2>3, <2>4
  <2> QED
    BY <2>5 DEF k
<1>3. Len(t) \in S
  BY <1>0, <1>1, <1>2, SetInduction
<1>4. Total(u) = Partial(u, Len(u)) /\ Total(t) = Partial(t, Len(t))
  BY <1>0, PartialSums
<1> QED
  BY <1>0, <1>3, <1>4 DEF u

\* An array weighs one more than its elements together.
LEMMA ArrayWeight ==
    ASSUME NEW v \in Within, IsArr(v)
    PROVE  Weight[v] = 1 + Total(v.items)
<1>1. Adds(v, Weight) = Sums(v.items)
  <2>1. \A n, x : Plus(v, n, x) = n + x
    BY DEF Plus, IsArr, IsObj
  <2> QED
    BY <2>1 DEF Adds, Sums
<1> QED
  BY <1>1, WeightRecurs DEF Total, IsContainer

\* An object weighs one more than the heaviest of its fields.
LEMMA ObjectWeight ==
    ASSUME NEW v \in Within, IsObj(v)
    PROVE  /\ Weight[v] # 0
           /\ \A i \in DOMAIN v.items : Weight[v.items[i]] < Weight[v]
           /\ \A n \in Nat : n # 0 /\ (\A i \in DOMAIN v.items : Weight[v.items[i]] < n) => Weight[v] <= n
<1> DEFINE items == v.items
           fs == Adds(v, Weight)
           w == [i \in DOMAIN items |-> Weight[items[i]]]
<1>0. /\ DOMAIN items = 1 .. Len(items) /\ Len(items) \in Nat
      /\ \A i \in DOMAIN items : items[i] \in Within
      /\ ~IsArr(v)
  BY Inside DEF IsArr, IsObj, IsContainer
<1>1. \A i \in DOMAIN items : w[i] \in Nat
  BY <1>0, WeightRecurs
<1>2. /\ Len(fs) = Len(items)
      /\ \A i \in 1 .. Len(items) : \A x \in Nat : fs[i][x] = IF w[i] < x THEN x ELSE w[i]
  <2>1. \A i \in 1 .. Len(items) : fs[i] = [n \in Nat |-> Plus(v, n, Weight[items[i]])]
    BY <1>0 DEF Adds
  <2>2. \A n, x : Plus(v, n, x) = IF x < n THEN n ELSE x
    BY <1>0 DEF Plus
  <2>3. Len(fs) = Len(items)
    BY <1>0 DEF Adds
  <2>4. \A i \in 1 .. Len(items) : w[i] = Weight[items[i]]
    BY <1>0
  <2> HIDE DEF fs, items, w
  <2>5. ASSUME NEW i \in 1 .. Len(items), NEW x \in Nat PROVE fs[i][x] = IF w[i] < x THEN x ELSE w[i]
    <3>1. fs[i][x] = Plus(v, x, Weight[items[i]])
      BY <2>1
    <3> QED
      BY <2>2, <2>4, <3>1
  <2> QED
    BY <2>3, <2>5
<1>3. Weight[v] = 1 + Outcome(fs, 0)
  BY WeightRecurs DEF IsContainer
<1> HIDE DEF fs, w
<1> DEFINE R == {p \in Nat \X Nat : \A i \in 1 .. p[1] : i \in DOMAIN items => w[i] <= p[2]}
<1>4. <<Len(fs), Outcome(fs, 0)>> \in R
  <2>1. <<0, 0>> \in R
    OBVIOUS
  <2>2. ASSUME NEW n \in 1 .. Len(fs), NEW x, <<n - 1, x>> \in R PROVE <<n, fs[n][x]>> \in R
    <3>1. x \in Nat /\ \A i \in 1 .. n - 1 : i \in DOMAIN items => w[i] <= x
      BY <2>2
    <3>2. w[n] \in Nat /\ n \in DOMAIN items /\ n \in Nat
      BY <1>0, <1>1, <1>2
    <3>3. fs[n][x] = IF w[n] < x THEN x ELSE w[n]
      BY <1>2, <3>1
    <3>4. ASSUME NEW i \in 1 .. n, i \in DOMAIN items PROVE w[i] <= fs[n][x]
      <4>1. CASE i = n
        BY <3>1, <3>2, <3>3, <4>1
      <4>2. CASE i # n
        <5>1. i \in 1 .. n - 1
          BY <3>2, <4>2
        <5>2. w[i] <= x /\ w[i] \in Nat
          BY <1>1, <3>1, <3>4, <5>1
        <5> QED
          BY <3>1, <3>2, <3>3, <5>2
      <4> QED
        BY <4>1, <4>2
    <3> QED
      BY <3>1, <3>2, <3>3, <3>4
  <2> HIDE DEF R
  <2> QED
    BY <1>0, <1>2, <2>1, <2>2, OutcomeInvariant
<1>5. Outcome(fs, 0) \in Nat /\ \A i \in DOMAIN items : w[i] <= Outcome(fs, 0)
  BY <1>0, <1>2, <1>4
<1>6. ASSUME NEW n \in Nat, n # 0, \A i \in DOMAIN items : w[i] < n PROVE Outcome(fs, 0) < n
  <2> DEFINE Q == {p \in Nat \X Nat : p[2] < n}
  <2>1. <<0, 0>> \in Q
    BY <1>6
  <2>2. ASSUME NEW k \in 1 .. Len(fs), NEW x, <<k - 1, x>> \in Q PROVE <<k, fs[k][x]>> \in Q
    <3>1. x \in Nat /\ x < n /\ k \in DOMAIN items
      BY <1>0, <1>2, <2>2
    <3>2. w[k] \in Nat /\ w[k] < n
      BY <1>1, <1>6, <3>1
    <3>3. fs[k][x] = IF w[k] < x THEN x ELSE w[k]
      BY <1>2, <3>1
    <3>4. fs[k][x] \in Nat /\ fs[k][x] < n /\ k \in Nat
      BY <3>1, <3>2, <3>3
    <3> QED
      BY <3>4
  <2> HIDE DEF Q
  <2>3. <<Len(fs), Outcome(fs, 0)>> \in Q
    BY <1>0, <1>2, <2>1, <2>2, OutcomeInvariant
  <2> QED
    BY <2>3 DEF Q
<1>7. \A i \in DOMAIN items : w[i] = Weight[items[i]]
  BY DEF w
<1> QED
  BY <1>1, <1>3, <1>5, <1>6, <1>7

\* What is deep is heavy.
LEMMA DepthBelowWeight == \A v \in Within : Depth[v] <= Weight[v]
<1> DEFINE S == {v \in Within : Depth[v] <= Weight[v]}
<1>0. MaxWeight \in Nat /\ \A v \in Within : Depth[v] \in Nat /\ Depth[v] <= MaxWeight /\ Weight[v] \in Nat
  BY DepthFacts, WeightRecurs, MergingAssumption
<1>1. ASSUME NEW v \in Within, \A u \in Within : Depth[u] < Depth[v] => u \in S
      PROVE  v \in S
  <2>1. CASE ~IsContainer(v)
    <3>1. v \in UpTo[0] /\ 0 \in 0 .. MaxWeight
      BY <1>0, <2>1, Inside, ValueShape
    <3>2. Depth[v] <= 0
      BY <3>1, DepthFacts
    <3> QED
      BY <1>0, <3>2
  <2>2. CASE IsContainer(v) /\ Weight[v] <= MaxWeight
    <3> DEFINE n == Weight[v]
    <3>1. /\ v.items \in Seq(Within)
          /\ \A i \in DOMAIN v.items : v.items[i] \in Within /\ Depth[v.items[i]] < Depth[v]
      BY <2>2, Inside
    <3>2. \A i \in DOMAIN v.items : Weight[v.items[i]] < n
      <4>1. CASE IsArr(v)
        <5>1. \A i \in DOMAIN v.items : Weight[v.items[i]] <= Total(v.items)
          BY <3>1, SumsGrow
        <5>2. Weight[v] = 1 + Total(v.items) /\ Total(v.items) \in Nat
          BY <3>1, <4>1, ArrayWeight, SumsGrow
        <5> QED
          BY <1>0, <3>1, <5>1, <5>2
      <4>2. CASE IsObj(v)
        BY <4>2, ObjectWeight
      <4> QED
        BY <2>2, <4>1, <4>2 DEF IsContainer
    <3>3. \A i \in DOMAIN v.items : Depth[v.items[i]] < n
      <4>1. \A i \in DOMAIN v.items : Depth[v.items[i]] <= Weight[v.items[i]]
        BY <1>1, <3>1
      <4> QED
        BY <1>0, <3>1, <3>2, <4>1
    <3>4. n \in 0 .. MaxWeight /\ n # 0
      <4>1. CASE IsArr(v)
        <5>1. Weight[v] = 1 + Total(v.items) /\ Total(v.items) \in Nat
          BY <3>1, <4>1, ArrayWeight, SumsGrow
        <5> QED
          BY <1>0, <2>2, <5>1
      <4>2. CASE IsObj(v)
        BY <1>0, <2>2, <4>2, ObjectWeight
      <4> QED
        BY <2>2, <4>1, <4>2 DEF IsContainer
    <3> HIDE DEF n
    <3>5. v \in UpTo[n]
      <4>1. CASE IsArr(v)
        BY <3>1, <3>3, <3>4, <4>1, Made, Inside
      <4>2. CASE IsObj(v)
        BY <3>1, <3>3, <3>4, <4>2, Made, Inside
      <4> QED
        BY <2>2, <4>1, <4>2 DEF IsContainer
    <3>6. Depth[v] <= n
      BY <3>4, <3>5, DepthFacts
    <3> QED
      BY <3>6 DEF n
  <2>3. CASE ~(Weight[v] <= MaxWeight)
    <3>1. Depth[v] <= MaxWeight /\ Depth[v] \in Nat /\ Weight[v] \in Nat
      BY <1>0
    <3> QED
      BY <1>0, <2>3, <3>1
  <2> QED
    BY <2>1, <2>2, <2>3
<1>2. \A v \in Within : v \in S
  <2> HIDE DEF S
  <2> QED
    BY <1>0, <1>1, RankInduction
<1> QED
  BY <1>2

\* Trees by their weight: all that the rest of the proofs needs of depths and weights.
LEMMA TreeShape ==
    ASSUME NEW v \in JsonTrees
    PROVE  /\ v \in Within /\ Weight[v] \in Nat /\ Weight[v] <= MaxWeight
           /\ IsContainer(v) =>
                 /\ Weight[v] # 0
                 /\ v.items \in Seq(JsonTrees)
                 /\ DOMAIN v.items = 1 .. Len(v.items) /\ Len(v.items) \in Nat
                 /\ \A i \in DOMAIN v.items :
                       /\ v.items[i] \in JsonTrees
                       /\ Weight[v.items[i]] \in Nat /\ Weight[v.items[i]] < Weight[v]
           /\ IsArr(v) => /\ ~IsObj(v) /\ IsContainer(v)
                          /\ v = Arr(v.items) /\ Weight[v] = 1 + Total(v.items)
           /\ IsObj(v) => /\ ~IsArr(v) /\ IsContainer(v)
                          /\ v = Obj(v.keys, v.items) /\ v.keys \in Seq(FieldNames)
                          /\ Len(v.items) = Len(v.keys) /\ IsInjective(v.keys)
                          /\ DOMAIN v.keys = DOMAIN v.items
           /\ ~IsContainer(v) => v \in Atoms /\ ~IsArr(v) /\ ~IsObj(v) /\ Weight[v] = 0
<1>0. MaxWeight \in Nat
  BY MergingAssumption
<1>1. v \in Within /\ Weight[v] \in Nat /\ Weight[v] <= MaxWeight
  BY WeightRecurs DEF JsonTrees, Within
<1>2. ASSUME IsContainer(v)
      PROVE  /\ Weight[v] # 0
             /\ v.items \in Seq(JsonTrees)
             /\ DOMAIN v.items = 1 .. Len(v.items) /\ Len(v.items) \in Nat
             /\ \A i \in DOMAIN v.items :
                   /\ v.items[i] \in JsonTrees
                   /\ Weight[v.items[i]] \in Nat /\ Weight[v.items[i]] < Weight[v]
  <2>1. /\ v.items \in Seq(Within) /\ DOMAIN v.items = 1 .. Len(v.items) /\ Len(v.items) \in Nat
        /\ \A i \in DOMAIN v.items : v.items[i] \in Within /\ Weight[v.items[i]] \in Nat
    BY <1>1, <1>2, Inside, WeightRecurs
  <2>2. Weight[v] # 0 /\ \A i \in DOMAIN v.items : Weight[v.items[i]] < Weight[v]
    <3>1. CASE IsArr(v)
      <4>1. /\ \A i \in DOMAIN v.items : Weight[v.items[i]] <= Total(v.items)
            /\ Total(v.items) \in Nat /\ Weight[v] = 1 + Total(v.items)
        BY <1>1, <2>1, <3>1, SumsGrow, ArrayWeight
      <4> QED
        BY <2>1, <4>1
    <3>2. CASE IsObj(v)
      BY <1>1, <3>2, ObjectWeight
    <3> QED
      BY <1>2, <3>1, <3>2 DEF IsContainer
  <2>3. \A i \in DOMAIN v.items : v.items[i] \in JsonTrees
    BY <1>0, <1>1, <2>1, <2>2 DEF JsonTrees, Within
  <2>4. v.items \in Seq(JsonTrees)
    <3>1. v.items = [i \in 1 .. Len(v.items) |-> v.items[i]]
      BY <2>1
    <3> QED
      BY <2>1, <2>3, <3>1
  <2> QED
    BY <2>1, <2>2, <2>3, <2>4
<1>3. IsArr(v) => ~IsObj(v) /\ IsContainer(v) /\ v = Arr(v.items) /\ Weight[v] = 1 + Total(v.items)
  BY <1>1, Inside, ArrayWeight DEF IsArr, IsObj, IsContainer
<1>4. IsObj(v) => /\ ~IsArr(v) /\ IsContainer(v)
                  /\ v = Obj(v.keys, v.items) /\ v.keys \in Seq(FieldNames)
                  /\ Len(v.items) = Len(v.keys) /\ IsInjective(v.keys)
                  /\ DOMAIN v.keys = DOMAIN v.items
  BY <1>1, Inside DEF IsArr, IsObj, IsContainer
<1>5. ~IsContainer(v) => v \in Atoms /\ ~IsArr(v) /\ ~IsObj(v) /\ Weight[v] = 0
  BY <1>1, Inside, WeightRecurs DEF IsContainer
<1> QED
  BY <1>1, <1>2, <1>3, <1>4, <1>5

\* Documents are values of the given depth.
LEMMA TreesWithin == Seq(JsonTrees) \subseteq Seq(Within)
<1>1. JsonTrees \subseteq Within
  BY DEF JsonTrees, Within
<1> QED
  BY <1>1, SeqMonotonic

\* An array of documents that are light enough is one.
LEMMA ArrayMade ==
    ASSUME NEW s \in Seq(JsonTrees), Total(s) < MaxWeight
    PROVE  Arr(s) \in JsonTrees /\ Weight[Arr(s)] = 1 + Total(s)
<1> DEFINE n == 1 + Total(s)
<1>0. MaxWeight \in Nat /\ s \in Seq(Within)
  BY TreesWithin, MergingAssumption
<1>1. Total(s) \in Nat /\ n \in 0 .. MaxWeight /\ n # 0
  BY <1>0, SumsGrow
<1> HIDE DEF n
<1>2. ASSUME NEW i \in DOMAIN s PROVE Depth[s[i]] < n
  <2>1. s[i] \in Within /\ Weight[s[i]] <= Total(s)
    BY <1>0, SumsGrow
  <2>2. Depth[s[i]] <= Weight[s[i]] /\ Depth[s[i]] \in Nat /\ Weight[s[i]] \in Nat
    BY <2>1, DepthBelowWeight, DepthFacts, WeightRecurs
  <2> QED
    BY <1>1, <2>1, <2>2 DEF n
<1>3. Arr(s) \in UpTo[n]
  BY <1>0, <1>1, <1>2, Made
<1>4. Arr(s) \in Within /\ IsArr(Arr(s)) /\ Arr(s).items = s
  BY <1>1, <1>3, DepthFacts DEF Arr, IsArr
<1>5. Weight[Arr(s)] = 1 + Total(s)
  BY <1>4, ArrayWeight
<1> QED
  BY <1>0, <1>1, <1>4, <1>5 DEF JsonTrees, Within, n

\* An object of documents that are light enough is one.
LEMMA ObjectMade ==
    ASSUME NEW s \in Seq(JsonTrees), NEW keys \in Seq(FieldNames),
           Len(s) = Len(keys), IsInjective(keys),
           NEW n \in 1 .. MaxWeight, \A i \in DOMAIN s : Weight[s[i]] < n
    PROVE  /\ Obj(keys, s) \in JsonTrees /\ Weight[Obj(keys, s)] <= n
           /\ IsObj(Obj(keys, s)) /\ Obj(keys, s).keys = keys /\ Obj(keys, s).items = s
<1> DEFINE v == Obj(keys, s)
<1>0. MaxWeight \in Nat /\ s \in Seq(Within) /\ n \in 0 .. MaxWeight /\ n # 0 /\ n \in Nat
  BY TreesWithin, MergingAssumption
<1>2. ASSUME NEW i \in DOMAIN s PROVE Depth[s[i]] < n
  <2>1. s[i] \in Within /\ Weight[s[i]] < n
    BY <1>0
  <2>2. Depth[s[i]] <= Weight[s[i]] /\ Depth[s[i]] \in Nat /\ Weight[s[i]] \in Nat
    BY <2>1, DepthBelowWeight, DepthFacts, WeightRecurs
  <2> QED
    BY <1>0, <2>1, <2>2
<1>3. v \in UpTo[n]
  BY <1>0, <1>2, Made
<1>4. v \in Within /\ IsObj(v) /\ v.items = s /\ v.keys = keys
  BY <1>0, <1>3, DepthFacts DEF Obj, IsObj
<1> HIDE DEF v
<1>5. Weight[v] <= n /\ Weight[v] \in Nat
  BY <1>0, <1>4, ObjectWeight, WeightRecurs
<1>6. v \in JsonTrees /\ Weight[v] <= n /\ IsObj(v) /\ v.keys = keys /\ v.items = s
  BY <1>0, <1>4, <1>5 DEF JsonTrees, Within
<1> QED
  BY <1>6 DEF v

\* What has nothing in it is a document.
LEMMA AtomsAreTrees == \A v \in Atoms : v \in JsonTrees /\ ~IsContainer(v)
<1> SUFFICES ASSUME NEW v \in Atoms PROVE v \in JsonTrees /\ ~IsContainer(v)
  OBVIOUS
<1>1. MaxWeight \in 0 .. MaxWeight /\ MaxWeight \in Nat
  BY MergingAssumption
<1>2. v \in Within /\ ~IsContainer(v)
  BY <1>1, ValueShape DEF Within
<1>3. Weight[v] = 0
  BY <1>2, WeightRecurs
<1> QED
  BY <1>1, <1>2, <1>3 DEF JsonTrees, Within

----------------------------------------------------------------------------
(* What merging is made of: flat arrays, and the fields of two values      *)

\* What one element becomes in the flat array.
Piece(x) == IF IsArr(x) THEN x.items ELSE <<x>>

Pieces(items) == [i \in DOMAIN items |-> [out \in Seq(JsonTrees) |-> out \o Piece(items[i])]]

\* An array put into another one weighs less than before.
LEMMA PieceWeight ==
    ASSUME NEW x \in JsonTrees
    PROVE  /\ Piece(x) \in Seq(JsonTrees) /\ Total(Piece(x)) \in Nat
           /\ Total(Piece(x)) <= Weight[x]
           /\ IsArr(x) => Total(Piece(x)) < Weight[x]
<1>1. CASE IsArr(x)
  <2>1. x.items \in Seq(JsonTrees) /\ Weight[x] = 1 + Total(x.items)
    BY <1>1, TreeShape
  <2>2. Total(x.items) \in Nat
    BY <2>1, TreesWithin, SumsGrow
  <2> QED
    BY <1>1, <2>1, <2>2 DEF Piece
<1>2. CASE ~IsArr(x)
  <2>1. x \in Within /\ Weight[x] \in Nat
    BY TreeShape
  <2>2. Total(<<x>>) = Weight[x] /\ <<x>> \in Seq(JsonTrees)
    BY <2>1, TotalOfNoneAndOne
  <2> QED
    BY <1>2, <2>1, <2>2 DEF Piece
<1> QED
  BY <1>1, <1>2

\* A flat array has the weight of the given one at most, and less if there was an
\* array in it.
LEMMA FlatWeight ==
    ASSUME NEW items \in Seq(JsonTrees)
    PROVE  /\ Flat(items) \in Seq(JsonTrees)
           /\ Total(Flat(items)) \in Nat /\ Total(Flat(items)) <= Total(items)
           /\ (\E i \in DOMAIN items : IsArr(items[i])) => Total(Flat(items)) < Total(items)
<1> DEFINE fs == Pieces(items)
           R == {p \in Nat \X Seq(JsonTrees) :
                   p[1] <= Len(items) =>
                      /\ Total(p[2]) <= Partial(items, p[1])
                      /\ (\E i \in 1 .. p[1] : IsArr(items[i])) => Total(p[2]) < Partial(items, p[1])}
<1>0. /\ Len(items) \in Nat /\ DOMAIN items = 1 .. Len(items)
      /\ \A i \in 1 .. Len(items) : items[i] \in JsonTrees
      /\ items \in Seq(Within)
  BY TreesWithin
<1>1. Flat(items) = Outcome(fs, <<>>)
  BY DEF Flat, Pieces, Piece
<1>2. Len(fs) = Len(items)
  BY <1>0 DEF Pieces
<1>3. \A i \in 1 .. Len(items) : \A out \in Seq(JsonTrees) : fs[i][out] = out \o Piece(items[i])
  BY <1>0 DEF Pieces
<1> HIDE DEF fs
<1>4. <<0, <<>>>> \in R
  <2> DEFINE none == <<>>
  <2>1. none \in Seq(JsonTrees) /\ Total(none) = 0 /\ Partial(items, 0) = 0
    BY <1>0, PartialSums, TotalOfNoneAndOne, EmptySeq
  <2> HIDE DEF none
  <2>2. <<0, none>> \in R
    BY <2>1
  <2> QED
    BY <2>2 DEF none
<1>5. ASSUME NEW n \in 1 .. Len(fs), NEW out, <<n - 1, out>> \in R PROVE <<n, fs[n][out]>> \in R
  <2>1. /\ n - 1 \in 0 .. Len(items) /\ n \in 0 .. Len(items) /\ n \in Nat /\ n \in 1 .. Len(items)
        /\ n - 1 <= Len(items)
    BY <1>0, <1>2
  <2>2. /\ out \in Seq(JsonTrees) /\ Total(out) <= Partial(items, n - 1)
        /\ (\E i \in 1 .. n - 1 : IsArr(items[i])) => Total(out) < Partial(items, n - 1)
    BY <1>5, <2>1
  <2>3. /\ Piece(items[n]) \in Seq(JsonTrees) /\ Total(Piece(items[n])) \in Nat
        /\ Total(Piece(items[n])) <= Weight[items[n]]
        /\ IsArr(items[n]) => Total(Piece(items[n])) < Weight[items[n]]
    BY <1>0, <2>1, PieceWeight
  <2>4. /\ Partial(items, n) = Partial(items, n - 1) + Weight[items[n]]
        /\ Partial(items, n - 1) \in Nat /\ Weight[items[n]] \in Nat
    BY <1>0, <2>1, PartialSums
  <2> DEFINE next == out \o Piece(items[n])
  <2>5. next \in Seq(JsonTrees)
    BY <2>2, <2>3, ConcatProperties
  <2>6. Total(next) = Total(out) + Total(Piece(items[n])) /\ Total(out) \in Nat
    BY <2>2, <2>3, TreesWithin, TotalOfBoth, SumsGrow
  <2>7. fs[n][out] = next
    BY <1>3, <2>1, <2>2
  <2>8. (\E i \in 1 .. n : IsArr(items[i])) => (\E i \in 1 .. n - 1 : IsArr(items[i])) \/ IsArr(items[n])
    <3> SUFFICES ASSUME NEW i \in 1 .. n, IsArr(items[i]), ~IsArr(items[n])
                 PROVE  \E j \in 1 .. n - 1 : IsArr(items[j])
      OBVIOUS
    <3>1. i \in 1 .. n - 1
      BY <2>1, i # n
    <3> QED
      BY <3>1
  <2> HIDE DEF next
  <2>9. /\ Total(next) <= Partial(items, n)
        /\ (\E i \in 1 .. n : IsArr(items[i])) => Total(next) < Partial(items, n)
    <3> DEFINE before == Partial(items, n - 1)
               after == Partial(items, n)
               more == Total(Piece(items[n]))
               some == Weight[items[n]]
    <3>1. /\ after = before + some /\ Total(next) = Total(out) + more
          /\ before \in Nat /\ some \in Nat /\ more \in Nat /\ Total(out) \in Nat
          /\ Total(out) <= before /\ more <= some
      BY <2>2, <2>3, <2>4, <2>6
    <3>2. (\E i \in 1 .. n : IsArr(items[i])) => Total(out) < before \/ more < some
      BY <2>2, <2>3, <2>8
    <3> HIDE DEF before, after, more, some
    <3>3. Total(next) <= after
      BY <3>1
    <3>4. Total(out) < before \/ more < some => Total(next) < after
      <4>1. CASE Total(out) < before
        BY <3>1, <4>1
      <4>2. CASE more < some
        BY <3>1, <4>2
      <4> QED
        BY <4>1, <4>2
    <3> QED
      BY <3>2, <3>3, <3>4 DEF after
  <2> QED
    BY <2>1, <2>5, <2>7, <2>9
<1>6. <<Len(items), Outcome(fs, <<>>)>> \in R
  <2> HIDE DEF R
  <2> QED
    BY <1>0, <1>2, <1>4, <1>5, OutcomeInvariant
<1>7. Total(items) = Partial(items, Len(items))
  BY <1>0, PartialSums
<1>8. Flat(items) \in Seq(JsonTrees)
  BY <1>1, <1>6
<1>9. Total(Flat(items)) \in Nat
  BY <1>8, TreesWithin, SumsGrow
<1> QED
  BY <1>0, <1>1, <1>6, <1>7, <1>8, <1>9

\* An array of one array becomes that array.
LEMMA FlatOne ==
    ASSUME NEW y \in JsonTrees, IsArr(y)
    PROVE  Flat(<<y>>) = y.items
<1> DEFINE items == <<y>>
           fs == Pieces(items)
           none == <<>>
           R == {<<0, none>>, <<1, y.items>>}
<1>1. Flat(items) = Outcome(fs, none)
  BY DEF Flat, Pieces, Piece
<1>2. Len(fs) = 1 /\ \A out \in Seq(JsonTrees) : fs[1][out] = out \o y.items
  BY DEF Pieces, Piece
<1>3. y.items \in Seq(JsonTrees)
  BY TreeShape
<1> HIDE DEF fs
<1>4. none \o y.items = y.items /\ none \in Seq(JsonTrees)
  BY <1>3
<1> HIDE DEF none
<1>5. <<Len(fs), Outcome(fs, none)>> \in R
  <2>1. <<0, none>> \in R
    OBVIOUS
  <2>2. ASSUME NEW n \in 1 .. Len(fs), NEW out, <<n - 1, out>> \in R PROVE <<n, fs[n][out]>> \in R
    <3>1. n = 1 /\ n - 1 = 0
      BY <1>2
    <3>2. out = none
      BY <2>2, <3>1
    <3> QED
      BY <1>2, <1>4, <3>1, <3>2
  <2>3. Len(fs) \in Nat
    BY <1>2
  <2> HIDE DEF R
  <2> QED
    BY <2>1, <2>2, <2>3, OutcomeInvariant
<1> QED
  BY <1>1, <1>2, <1>5

\* The keys of a container, and its values at them.
LEMMA TreeKeys ==
    ASSUME NEW v \in JsonTrees, IsContainer(v)
    PROVE  /\ Keys(v) \in Seq(FieldNames) /\ IsInjective(Keys(v))
           /\ DOMAIN Keys(v) \subseteq DOMAIN v.items
           /\ \A i \in DOMAIN Keys(v) : At(v, Keys(v)[i]) = v.items[i]
           /\ \A k : Has(v, k) <=> k \in ToSet(Keys(v))
           /\ \A k : Has(v, k) => /\ k \in FieldNames /\ At(v, k) \in JsonTrees
                                  /\ Weight[At(v, k)] \in Nat /\ Weight[At(v, k)] < Weight[v]
                                  /\ \E i \in DOMAIN Keys(v) : Keys(v)[i] = k /\ At(v, k) = v.items[i]
           /\ IsObj(v) => Keys(v) = v.keys /\ DOMAIN v.keys = DOMAIN v.items
<1>0. /\ DOMAIN v.items = 1 .. Len(v.items) /\ v.items \in Seq(JsonTrees)
      /\ \A i \in DOMAIN v.items :
            v.items[i] \in JsonTrees /\ Weight[v.items[i]] \in Nat /\ Weight[v.items[i]] < Weight[v]
  BY TreeShape
<1>1. IsObj(v) => Keys(v) = v.keys /\ DOMAIN v.keys = DOMAIN v.items
  BY TreeShape DEF Keys, IsArr, IsObj
<1>2. Keys(v) \in Seq(FieldNames) /\ IsInjective(Keys(v)) /\ DOMAIN Keys(v) \subseteq DOMAIN v.items
  <2>1. CASE IsObj(v)
    BY <1>1, <2>1, TreeShape
  <2>2. CASE IsArr(v)
    <3>1. Keys(v) = IndexOf(v.items)
      BY <2>2 DEF Keys, IsArr, IsObj, IndexOf
    <3> DEFINE keys == IndexOf(v.items)
    <3>2. /\ keys \in Seq(FieldName) /\ IsInjective(keys) /\ DOMAIN keys \subseteq DOMAIN v.items
          /\ ToSet(keys) \subseteq FieldNames
      BY <1>0, IndexNames, MergingAssumption
    <3> HIDE DEF keys
    <3>3. keys \in Seq(FieldNames)
      <4>1. Len(keys) \in Nat /\ keys = [i \in 1 .. Len(keys) |-> keys[i]] /\ DOMAIN keys = 1 .. Len(keys)
        BY <3>2
      <4>2. \A i \in 1 .. Len(keys) : keys[i] \in FieldNames
        BY <3>2, <4>1 DEF ToSet
      <4> QED
        BY <4>1, <4>2
    <3> QED
      BY <3>1, <3>2, <3>3 DEF keys
  <2> QED
    BY <2>1, <2>2 DEF IsContainer
<1> DEFINE keys == Keys(v)
<1>3. \A k : Has(v, k) <=> \E i \in DOMAIN keys : keys[i] = k
  BY DEF Has
<1>4. \A k : At(v, k) = v.items[CHOOSE i \in DOMAIN keys : keys[i] = k]
  BY DEF At
<1> HIDE DEF keys
<1>5. ASSUME NEW i \in DOMAIN keys PROVE At(v, keys[i]) = v.items[i]
  <2>1. \A j \in DOMAIN keys : keys[j] = keys[i] => j = i
    BY <1>2 DEF IsInjective, keys
  <2>2. (CHOOSE j \in DOMAIN keys : keys[j] = keys[i]) = i
    BY <2>1
  <2> QED
    BY <1>4, <2>2
<1>6. ASSUME NEW k, Has(v, k)
      PROVE  /\ k \in FieldNames /\ At(v, k) \in JsonTrees
             /\ Weight[At(v, k)] \in Nat /\ Weight[At(v, k)] < Weight[v]
             /\ \E i \in DOMAIN keys : keys[i] = k /\ At(v, k) = v.items[i]
  <2>1. PICK i \in DOMAIN keys : keys[i] = k
    BY <1>3, <1>6
  <2>2. At(v, k) = v.items[i]
    BY <1>5, <2>1
  <2>3. keys \in Seq(FieldNames) /\ i \in DOMAIN v.items
    BY <1>2 DEF keys
  <2>4. k \in FieldNames
    BY <2>1, <2>3
  <2> QED
    BY <1>0, <2>1, <2>2, <2>3, <2>4
<1>7. \A k : Has(v, k) <=> k \in ToSet(keys)
  BY <1>3 DEF ToSet
<1> QED
  BY <1>1, <1>2, <1>5, <1>6, <1>7 DEF keys

\* The fields of the source that the target has, or that are not dropped.
Added(t, s) == {k \in ToSet(s.keys) : ~Dropped(t, s, k)}

\* The keys of a merged object are those of both, each once, but those dropped.
LEMMA KeysMerged ==
    ASSUME NEW t \in JsonTrees, IsContainer(t), NEW s \in JsonTrees, IsObj(s)
    PROVE  /\ MergedKeys(t, s) \in Seq(FieldNames) /\ IsInjective(MergedKeys(t, s))
           /\ ToSet(MergedKeys(t, s)) = ToSet(Keys(t)) \cup Added(t, s)
<1> DEFINE fs == [i \in DOMAIN s.keys |-> [keys \in Seq(FieldNames) |->
                    IF Has(t, s.keys[i]) \/ Dropped(t, s, s.keys[i]) THEN keys
                    ELSE Append(keys, s.keys[i])]]
           Seen(n) == {s.keys[i] : i \in DOMAIN s.keys \cap (1 .. n)}
           Earlier(n) == {k \in Seen(n) : ~Dropped(t, s, k)}
           R == {p \in Nat \X Seq(FieldNames) :
                   IsInjective(p[2]) /\ ToSet(p[2]) = ToSet(Keys(t)) \cup Earlier(p[1])}
<1>0. /\ s.keys \in Seq(FieldNames) /\ Keys(s) = s.keys /\ IsInjective(s.keys)
      /\ DOMAIN s.keys = 1 .. Len(s.keys) /\ Len(s.keys) \in Nat
      /\ \A i \in DOMAIN s.keys : s.keys[i] \in FieldNames
  <2>1. s.keys \in Seq(FieldNames) /\ Keys(s) = s.keys /\ IsInjective(s.keys)
    BY TreeShape, TreeKeys
  <2> QED
    BY <2>1
<1>1. MergedKeys(t, s) = Outcome(fs, Keys(t))
  BY DEF MergedKeys
<1>2. Len(fs) = Len(s.keys)
  BY <1>0
<1>3. \A i \in 1 .. Len(s.keys) : \A keys \in Seq(FieldNames) :
         fs[i][keys] = IF Has(t, s.keys[i]) \/ Dropped(t, s, s.keys[i]) THEN keys
                       ELSE Append(keys, s.keys[i])
  BY <1>0
<1> HIDE DEF fs
<1>4. <<0, Keys(t)>> \in R
  <2>1. Earlier(0) = {}
    OBVIOUS
  <2> QED
    BY <2>1, TreeKeys
<1>5. ASSUME NEW n \in 1 .. Len(fs), NEW keys, <<n - 1, keys>> \in R PROVE <<n, fs[n][keys]>> \in R
  <2> DEFINE k == s.keys[n]
  <2>1. /\ keys \in Seq(FieldNames) /\ IsInjective(keys)
        /\ ToSet(keys) = ToSet(Keys(t)) \cup Earlier(n - 1)
    BY <1>5
  <2>2. n \in DOMAIN s.keys /\ n \in Nat /\ k \in FieldNames
    BY <1>0, <1>2
  <2>3. Seen(n) = Seen(n - 1) \cup {k} /\ k \notin Seen(n - 1)
    <3>1. DOMAIN s.keys \cap (1 .. n) = (DOMAIN s.keys \cap (1 .. n - 1)) \cup {n}
      BY <2>2
    <3>2. \A i \in DOMAIN s.keys \cap (1 .. n - 1) : s.keys[i] # k
      BY <1>0, <2>2 DEF IsInjective
    <3> QED
      BY <3>1, <3>2
  <2>31. /\ Earlier(n) = Earlier(n - 1) \cup (IF Dropped(t, s, k) THEN {} ELSE {k})
         /\ k \notin Earlier(n - 1)
    <3> HIDE DEF Seen, k
    <3> QED
      BY <2>3
  <2>4. fs[n][keys] = IF Has(t, k) \/ Dropped(t, s, k) THEN keys ELSE Append(keys, k)
    BY <1>0, <1>3, <2>1, <2>2
  <2>5. Has(t, k) <=> k \in ToSet(Keys(t))
    BY TreeKeys
  <2> HIDE DEF Earlier, k
  <2>6. CASE Has(t, k) \/ Dropped(t, s, k)
    <3>1. Earlier(n) \subseteq Earlier(n - 1) \cup ToSet(Keys(t)) /\ Earlier(n - 1) \subseteq Earlier(n)
      BY <2>31, <2>5, <2>6
    <3> QED
      BY <2>1, <2>2, <2>4, <2>6, <3>1
  <2>7. CASE ~(Has(t, k) \/ Dropped(t, s, k))
    <3>1. k \notin ToSet(keys)
      BY <2>1, <2>31, <2>5, <2>7
    <3> DEFINE longer == Append(keys, k)
    <3>2. /\ longer \in Seq(FieldNames) /\ Len(keys) \in Nat
          /\ DOMAIN longer = 1 .. Len(keys) + 1 /\ DOMAIN keys = 1 .. Len(keys)
          /\ \A i \in 1 .. Len(keys) : longer[i] = keys[i]
          /\ longer[Len(keys) + 1] = k
      BY <2>1, <2>2, AppendProperties
    <3> HIDE DEF longer
    <3>3. ToSet(longer) = ToSet(keys) \cup {k}
      BY <3>2 DEF ToSet
    <3>4. IsInjective(longer)
      <4> SUFFICES ASSUME NEW i \in DOMAIN longer, NEW j \in DOMAIN longer, longer[i] = longer[j]
                   PROVE  i = j
        BY DEF IsInjective
      <4>1. \A m \in DOMAIN longer : m \in 1 .. Len(keys) \/ m = Len(keys) + 1
        BY <3>2
      <4>2. \A m \in 1 .. Len(keys) : keys[m] # k
        BY <3>1, <3>2 DEF ToSet
      <4>3. \A l, m \in 1 .. Len(keys) : keys[l] = keys[m] => l = m
        BY <2>1, <3>2 DEF IsInjective
      <4> QED
        BY <3>2, <4>1, <4>2, <4>3
    <3>5. fs[n][keys] = longer
      BY <2>4, <2>7 DEF longer
    <3> QED
      BY <2>1, <2>2, <2>31, <2>7, <3>2, <3>3, <3>4, <3>5
  <2> QED
    BY <2>6, <2>7
<1>6. <<Len(s.keys), Outcome(fs, Keys(t))>> \in R
  <2> HIDE DEF R
  <2> QED
    BY <1>0, <1>2, <1>4, <1>5, OutcomeInvariant
<1>7. Earlier(Len(s.keys)) = Added(t, s)
  <2>1. Seen(Len(s.keys)) = ToSet(s.keys)
    BY <1>0 DEF ToSet
  <2> QED
    BY <2>1 DEF Added
<1> QED
  BY <1>0, <1>1, <1>6, <1>7

\* An object with nothing under an inherited name but arrays and objects.
Clear(o) == \A i \in DOMAIN o.keys : o.keys[i] \in Inherited => IsContainer(o.items[i])

\* No field of such an object is dropped by another object.
LEMMA ClearStays ==
    ASSUME NEW t, ~IsArr(t), NEW s \in JsonTrees, IsObj(s), Clear(s)
    PROVE  \A i \in DOMAIN s.keys : ~Dropped(t, s, s.keys[i])
<1>1. IsContainer(s)
  BY DEF IsContainer
<1>2. Keys(s) = s.keys /\ \A i \in DOMAIN Keys(s) : At(s, Keys(s)[i]) = s.items[i]
  BY <1>1, TreeKeys
<1> QED
  BY <1>2 DEF Dropped, Clear

\* Into an object without fields, they are those of the source.
LEMMA KeysIntoNone ==
    ASSUME NEW s \in JsonTrees, IsObj(s), Clear(s)
    PROVE  MergedKeys(EmptyObj, s) = s.keys
<1> DEFINE t == EmptyObj
           fs == [i \in DOMAIN s.keys |-> [keys \in Seq(FieldNames) |->
                    IF Has(t, s.keys[i]) \/ Dropped(t, s, s.keys[i]) THEN keys
                    ELSE Append(keys, s.keys[i])]]
           R == {p \in Nat \X Seq(FieldNames) :
                   /\ Len(p[2]) = p[1]
                   /\ \A i \in 1 .. p[1] : i \in DOMAIN s.keys => p[2][i] = s.keys[i]}
<1>0. /\ s.keys \in Seq(FieldNames)
      /\ DOMAIN s.keys = 1 .. Len(s.keys) /\ Len(s.keys) \in Nat
      /\ \A i \in DOMAIN s.keys : s.keys[i] \in FieldNames
  <2>1. s.keys \in Seq(FieldNames)
    BY TreeShape
  <2> QED
    BY <2>1
<1>1. Len(Keys(t)) = 0 /\ \A k : ~Has(t, k)
  BY DEF EmptyObj, Obj, Keys, IsObj, Has
<1>12. \A i \in DOMAIN s.keys : ~Dropped(t, s, s.keys[i])
  <2>1. ~IsArr(t)
    BY DEF EmptyObj, Obj, IsArr
  <2> HIDE DEF t
  <2> QED
    BY <2>1, ClearStays
<1>11. Keys(t) \in Seq(FieldNames)
  BY DEF EmptyObj, Obj, Keys, IsObj
<1>2. MergedKeys(t, s) = Outcome(fs, Keys(t))
  BY DEF MergedKeys
<1>3. Len(fs) = Len(s.keys)
  BY <1>0
<1>4. \A i \in 1 .. Len(s.keys) : \A keys \in Seq(FieldNames) : fs[i][keys] = Append(keys, s.keys[i])
  BY <1>0, <1>1, <1>12
<1> HIDE DEF fs, t
<1>5. <<0, Keys(t)>> \in R
  <2> DEFINE p == <<0, Keys(t)>>
  <2>1. ~\E i \in 1 .. 0 : TRUE
    OBVIOUS
  <2>2. p \in Nat \X Seq(FieldNames)
    BY <1>11
  <2>3. p[1] = 0 /\ p[2] = Keys(t)
    OBVIOUS
  <2> HIDE DEF p
  <2>4. Len(p[2]) = p[1]
    BY <1>1, <2>3
  <2>5. \A i \in 1 .. p[1] : i \in DOMAIN s.keys => p[2][i] = s.keys[i]
    BY <2>1, <2>3
  <2>6. p \in R
    BY <2>2, <2>4, <2>5
  <2> QED
    BY <2>6 DEF p
<1>6. ASSUME NEW n \in 1 .. Len(fs), NEW keys, <<n - 1, keys>> \in R PROVE <<n, fs[n][keys]>> \in R
  <2> DEFINE k == s.keys[n]
             longer == Append(keys, k)
  <2>1. /\ keys \in Seq(FieldNames) /\ Len(keys) = n - 1
        /\ \A i \in 1 .. n - 1 : i \in DOMAIN s.keys => keys[i] = s.keys[i]
    BY <1>6
  <2>2. n \in DOMAIN s.keys /\ n \in Nat /\ k \in FieldNames /\ n \in 1 .. Len(s.keys)
    BY <1>0, <1>3
  <2>3. fs[n][keys] = longer
    BY <1>4, <2>1, <2>2
  <2>4. /\ longer \in Seq(FieldNames) /\ Len(longer) = n
        /\ \A i \in 1 .. n - 1 : longer[i] = keys[i]
        /\ longer[n] = s.keys[n]
    BY <2>1, <2>2, AppendProperties
  <2> HIDE DEF longer, k
  <2>5. \A i \in 1 .. n : i \in DOMAIN s.keys => longer[i] = s.keys[i]
    <3> SUFFICES ASSUME NEW i \in 1 .. n, i \in DOMAIN s.keys PROVE longer[i] = s.keys[i]
      OBVIOUS
    <3>1. i = n \/ i \in 1 .. n - 1
      BY <2>2
    <3> QED
      BY <2>1, <2>4, <3>1
  <2> QED
    BY <2>2, <2>3, <2>4, <2>5
<1>7. <<Len(s.keys), Outcome(fs, Keys(t))>> \in R
  <2> HIDE DEF R
  <2> QED
    BY <1>0, <1>3, <1>5, <1>6, OutcomeInvariant
<1> DEFINE out == Outcome(fs, Keys(t))
<1>8. out \in Seq(FieldNames) /\ Len(out) = Len(s.keys) /\ \A i \in 1 .. Len(s.keys) : out[i] = s.keys[i]
  BY <1>0, <1>7
<1> HIDE DEF out
<1>9. out = s.keys
  BY <1>0, <1>8, SeqEqual
<1> QED
  BY <1>2, <1>9 DEF out, t

----------------------------------------------------------------------------
(* The calls: what they may return, and which they may depend on           *)

\* What mergeArrayItems, deepMerge and process may return.
ArraysUnder(n) == {a \in JsonTrees : IsArr(a) /\ Weight[a] <= n}

MergedUnder(t, s) ==
    {r \in JsonTrees : /\ Weight[r] <= Weight[t] + Weight[s]
                       /\ IsContainer(t) /\ IsContainer(s) => Weight[r] < Weight[t] + Weight[s]
                       /\ IsObj(t) /\ IsObj(s) => IsObj(r)}

ProcessedUnder(v) ==
    {r \in JsonTrees : Weight[r] <= Weight[v] /\ (IsArr(v) => IsArr(r)) /\ (IsObj(v) => IsObj(r))}

ReturnsOf(call) ==
    CASE call.op = "mergeArrayItems" -> ArraysUnder(Weight[call.array])
      [] call.op = "deepMerge" -> MergedUnder(call.target, call.source)
      [] call.op = "process" -> ProcessedUnder(call.item)

Results == [call \in Calls |-> ReturnsOf(call)]

\* A call makes calls of lower ranks only.
RankOf(call) ==
    CASE call.op = "mergeArrayItems" -> 2 * Weight[call.array] + 1
      [] call.op = "deepMerge" -> 2 * (Weight[call.target] + Weight[call.source])
      [] call.op = "process" -> 2 * Weight[call.item] + 2

Rank == [call \in Calls |-> RankOf(call)]

\* What a call does, with the calls that it makes.
Body(merge, call) ==
    CASE call.op = "mergeArrayItems" -> MergedItems(merge, call.array)
      [] call.op = "deepMerge" -> DeepMerged(merge, call.target, call.source)
      [] call.op = "process" -> Processed(merge, call.item)

\* The calls, with what they are known to return and where they stand.
LEMMA CallForms ==
    /\ \A a \in ArrayTrees :
          /\ MergeArrayItems(a) \in Calls
          /\ Rank[MergeArrayItems(a)] = 2 * Weight[a] + 1
          /\ Results[MergeArrayItems(a)] = ArraysUnder(Weight[a])
          /\ \A g : Body(g, MergeArrayItems(a)) = MergedItems(g, a)
    /\ \A t, s \in JsonTrees : Weight[t] + Weight[s] <= MaxWeight =>
          /\ DeepMerge(t, s) \in Calls
          /\ Rank[DeepMerge(t, s)] = 2 * (Weight[t] + Weight[s])
          /\ Results[DeepMerge(t, s)] = MergedUnder(t, s)
          /\ \A g : Body(g, DeepMerge(t, s)) = DeepMerged(g, t, s)
    /\ \A v \in JsonTrees :
          /\ Process(v) \in Calls
          /\ Rank[Process(v)] = 2 * Weight[v] + 2
          /\ Results[Process(v)] = ProcessedUnder(v)
          /\ \A g : Body(g, Process(v)) = Processed(g, v)
    /\ \A call \in Calls :
          \/ \E a \in ArrayTrees : call = MergeArrayItems(a)
          \/ \E t, s \in JsonTrees : Weight[t] + Weight[s] <= MaxWeight /\ call = DeepMerge(t, s)
          \/ \E v \in JsonTrees : call = Process(v)
<1>1. ASSUME NEW a \in ArrayTrees
      PROVE  /\ MergeArrayItems(a) \in Calls
             /\ Rank[MergeArrayItems(a)] = 2 * Weight[a] + 1
             /\ Results[MergeArrayItems(a)] = ArraysUnder(Weight[a])
             /\ \A g : Body(g, MergeArrayItems(a)) = MergedItems(g, a)
  <2> DEFINE c == MergeArrayItems(a)
  <2>1. c \in Calls /\ c.op = "mergeArrayItems" /\ c.array = a
    BY DEF Calls, MergeArrayItems
  <2> HIDE DEF c
  <2>2. Rank[c] = 2 * Weight[a] + 1 /\ Results[c] = ArraysUnder(Weight[a])
    BY <2>1 DEF Rank, RankOf, Results, ReturnsOf
  <2>3. \A g : Body(g, c) = MergedItems(g, a)
    BY <2>1 DEF Body
  <2> QED
    BY <2>1, <2>2, <2>3 DEF c
<1>2. ASSUME NEW t \in JsonTrees, NEW s \in JsonTrees, Weight[t] + Weight[s] <= MaxWeight
      PROVE  /\ DeepMerge(t, s) \in Calls
             /\ Rank[DeepMerge(t, s)] = 2 * (Weight[t] + Weight[s])
             /\ Results[DeepMerge(t, s)] = MergedUnder(t, s)
             /\ \A g : Body(g, DeepMerge(t, s)) = DeepMerged(g, t, s)
  <2> DEFINE c == DeepMerge(t, s)
  <2>1. c \in Calls /\ c.op = "deepMerge" /\ c.target = t /\ c.source = s
    BY <1>2 DEF Calls, DeepMerge
  <2> HIDE DEF c
  <2>2. Rank[c] = 2 * (Weight[t] + Weight[s]) /\ Results[c] = MergedUnder(t, s)
    BY <2>1 DEF Rank, RankOf, Results, ReturnsOf
  <2>3. \A g : Body(g, c) = DeepMerged(g, t, s)
    BY <2>1 DEF Body
  <2> QED
    BY <2>1, <2>2, <2>3 DEF c
<1>3. ASSUME NEW v \in JsonTrees
      PROVE  /\ Process(v) \in Calls
             /\ Rank[Process(v)] = 2 * Weight[v] + 2
             /\ Results[Process(v)] = ProcessedUnder(v)
             /\ \A g : Body(g, Process(v)) = Processed(g, v)
  <2> DEFINE c == Process(v)
  <2>1. c \in Calls /\ c.op = "process" /\ c.item = v
    BY DEF Calls, Process
  <2> HIDE DEF c
  <2>2. Rank[c] = 2 * Weight[v] + 2 /\ Results[c] = ProcessedUnder(v)
    BY <2>1 DEF Rank, RankOf, Results, ReturnsOf
  <2>3. \A g : Body(g, c) = Processed(g, v)
    BY <2>1 DEF Body
  <2> QED
    BY <2>1, <2>2, <2>3 DEF c
<1>4. ASSUME NEW call \in Calls
      PROVE  \/ \E a \in ArrayTrees : call = MergeArrayItems(a)
             \/ \E t, s \in JsonTrees : Weight[t] + Weight[s] <= MaxWeight /\ call = DeepMerge(t, s)
             \/ \E v \in JsonTrees : call = Process(v)
  BY DEF Calls, MergeArrayItems, DeepMerge, Process
<1> QED
  BY <1>1, <1>2, <1>3, <1>4

\* g returns what it may for all calls of a lower rank than r, and h returns the same.
Known(g, h, r) ==
    /\ \A a \in ArrayTrees : 2 * Weight[a] + 1 < r =>
          /\ g[MergeArrayItems(a)] \in ArraysUnder(Weight[a])
          /\ g[MergeArrayItems(a)] = h[MergeArrayItems(a)]
    /\ \A t, s \in JsonTrees : Weight[t] + Weight[s] <= MaxWeight /\ 2 * (Weight[t] + Weight[s]) < r =>
          /\ g[DeepMerge(t, s)] \in MergedUnder(t, s)
          /\ g[DeepMerge(t, s)] = h[DeepMerge(t, s)]
    /\ \A v \in JsonTrees : 2 * Weight[v] + 2 < r =>
          /\ g[Process(v)] \in ProcessedUnder(v)
          /\ g[Process(v)] = h[Process(v)]

\* The empty object is a document.
LEMMA NoFields ==
    ASSUME MaxWeight # 0
    PROVE  EmptyObj \in JsonTrees /\ IsObj(EmptyObj) /\ Weight[EmptyObj] \in Nat /\ Weight[EmptyObj] <= 1
<1> DEFINE none == <<>>
<1>1. /\ none \in Seq(JsonTrees) /\ none \in Seq(FieldNames) /\ Len(none) = Len(none)
      /\ IsInjective(none) /\ 1 \in 1 .. MaxWeight
      /\ \A i \in DOMAIN none : FALSE
  BY MergingAssumption DEF IsInjective
<1>2. EmptyObj = Obj(none, none)
  BY DEF EmptyObj
<1> HIDE DEF none
<1>3. Obj(none, none) \in JsonTrees /\ Weight[Obj(none, none)] <= 1 /\ IsObj(Obj(none, none))
  BY <1>1, ObjectMade
<1> QED
  BY <1>2, <1>3, TreeShape

\* One field of two that are merged.
LEMMA FieldStep ==
    ASSUME NEW t \in JsonTrees, IsContainer(t), NEW s \in JsonTrees, IsObj(s),
           Weight[t] + Weight[s] <= MaxWeight,
           NEW g, NEW h, Known(g, h, 2 * (Weight[t] + Weight[s])),
           NEW k, Has(t, k) \/ Has(s, k)
    PROVE  /\ MergedField(g, t, s, k) \in JsonTrees
           /\ Weight[MergedField(g, t, s, k)] < Weight[t] + Weight[s] - 1
           /\ MergedField(g, t, s, k) = MergedField(h, t, s, k)
<1> DEFINE x == At(t, k)
           y == At(s, k)
<1>0. /\ Weight[t] \in Nat /\ Weight[s] \in Nat /\ Weight[t] # 0 /\ Weight[s] # 0
      /\ MaxWeight \in Nat /\ IsContainer(s)
  BY TreeShape, MergingAssumption
<1>1. /\ Has(t, k) => x \in JsonTrees /\ Weight[x] \in Nat /\ Weight[x] < Weight[t]
      /\ Has(s, k) => y \in JsonTrees /\ Weight[y] \in Nat /\ Weight[y] < Weight[s]
  BY <1>0, TreeKeys
<1>2. CASE ~Has(s, k)
  <2>1. MergedField(g, t, s, k) = x /\ MergedField(h, t, s, k) = x
    BY <1>2 DEF MergedField
  <2> HIDE DEF x, y
  <2> QED
    BY <1>0, <1>1, <1>2, <2>1
<1>3. CASE Has(s, k) /\ ~Has(t, k)
  <2>1. MergedField(g, t, s, k) = y /\ MergedField(h, t, s, k) = y
    BY <1>3 DEF MergedField
  <2> HIDE DEF x, y
  <2> QED
    BY <1>0, <1>1, <1>3, <2>1
<1>4. CASE Has(s, k) /\ Has(t, k) /\ IsContainer(y)
  <2>1. MergedField(g, t, s, k) = g[DeepMerge(x, y)] /\ MergedField(h, t, s, k) = h[DeepMerge(x, y)]
    BY <1>4 DEF MergedField
  <2> HIDE DEF x, y
  <2>2. Weight[x] + Weight[y] <= MaxWeight /\ 2 * (Weight[x] + Weight[y]) < 2 * (Weight[t] + Weight[s])
    BY <1>0, <1>1, <1>4
  <2>3. g[DeepMerge(x, y)] \in MergedUnder(x, y) /\ g[DeepMerge(x, y)] = h[DeepMerge(x, y)]
    BY <1>1, <1>4, <2>2 DEF Known
  <2> DEFINE r == g[DeepMerge(x, y)]
  <2>4. r \in JsonTrees /\ Weight[r] <= Weight[x] + Weight[y]
    BY <2>3 DEF MergedUnder
  <2>5. Weight[r] \in Nat
    BY <2>4, TreeShape
  <2> HIDE DEF r
  <2>6. Weight[r] < Weight[t] + Weight[s] - 1
    BY <1>0, <1>1, <1>4, <2>4, <2>5
  <2> QED
    BY <2>1, <2>3, <2>4, <2>6 DEF r
<1>5. CASE Has(s, k) /\ Has(t, k) /\ ~IsContainer(y)
  <2>1. /\ MergedField(g, t, s, k) \in {x, y}
        /\ MergedField(g, t, s, k) = MergedField(h, t, s, k)
    BY <1>5 DEF MergedField
  <2> HIDE DEF x, y
  <2> QED
    BY <1>0, <1>1, <1>5, <2>1
<1> QED
  BY <1>2, <1>3, <1>4, <1>5

\* Two objects are merged by calls of lower rank, to one that weighs less than both.
LEMMA ObjectStep ==
    ASSUME NEW t \in JsonTrees, IsContainer(t), NEW s \in JsonTrees, IsObj(s),
           Weight[t] + Weight[s] <= MaxWeight,
           NEW g, NEW h, Known(g, h, 2 * (Weight[t] + Weight[s]))
    PROVE  /\ MergedObject(g, t, s) \in JsonTrees
           /\ Weight[MergedObject(g, t, s)] < Weight[t] + Weight[s]
           /\ IsObj(MergedObject(g, t, s))
           /\ MergedObject(g, t, s) = MergedObject(h, t, s)
           /\ MergedObject(g, t, s).keys = MergedKeys(t, s)
           /\ DOMAIN MergedObject(g, t, s).items = DOMAIN MergedKeys(t, s)
           /\ \A i \in DOMAIN MergedKeys(t, s) :
                 /\ Has(t, MergedKeys(t, s)[i]) \/ Has(s, MergedKeys(t, s)[i])
                 /\ MergedObject(g, t, s).items[i] = MergedField(g, t, s, MergedKeys(t, s)[i])
<1> DEFINE keys == MergedKeys(t, s)
           of(m) == [i \in DOMAIN keys |-> MergedField(m, t, s, keys[i])]
           n == Weight[t] + Weight[s] - 1
<1>0. /\ Weight[t] \in Nat /\ Weight[s] \in Nat /\ Weight[t] # 0 /\ Weight[s] # 0
      /\ MaxWeight \in Nat /\ IsContainer(s)
  BY TreeShape, MergingAssumption
<1>1. MergedObject(g, t, s) = Obj(keys, of(g)) /\ MergedObject(h, t, s) = Obj(keys, of(h))
  BY DEF MergedObject
<1>2. keys \in Seq(FieldNames) /\ IsInjective(keys) /\ ToSet(keys) = ToSet(Keys(t)) \cup Added(t, s)
  BY KeysMerged
<1>3. \A k \in ToSet(keys) : Has(t, k) \/ Has(s, k)
  <2>1. Keys(s) = s.keys /\ \A k : (Has(t, k) <=> k \in ToSet(Keys(t))) /\ (Has(s, k) <=> k \in ToSet(Keys(s)))
    BY <1>0, TreeKeys
  <2> QED
    BY <1>2, <2>1 DEF Added
<1> HIDE DEF keys
<1>4. \A i \in DOMAIN keys : Has(t, keys[i]) \/ Has(s, keys[i])
  BY <1>3 DEF ToSet
<1>5. n \in 1 .. MaxWeight /\ n \in Nat /\ n < Weight[t] + Weight[s]
  BY <1>0
<1>6. \A i \in DOMAIN keys : /\ MergedField(g, t, s, keys[i]) \in JsonTrees
                             /\ Weight[MergedField(g, t, s, keys[i])] < n
                             /\ MergedField(g, t, s, keys[i]) = MergedField(h, t, s, keys[i])
  BY <1>4, FieldStep
<1>7. of(g) = of(h)
  BY <1>6
<1>8. Len(keys) \in Nat /\ DOMAIN keys = 1 .. Len(keys)
  BY <1>2
<1> DEFINE vs == of(g)
<1>9. /\ vs = [i \in 1 .. Len(keys) |-> vs[i]] /\ DOMAIN vs = DOMAIN keys
      /\ \A i \in DOMAIN keys : vs[i] = MergedField(g, t, s, keys[i])
  BY <1>8
<1> HIDE DEF of, vs, n
<1>10. \A i \in 1 .. Len(keys) : vs[i] \in JsonTrees
  BY <1>6, <1>8, <1>9
<1>11. vs \in Seq(JsonTrees)
  BY <1>8, <1>9, <1>10
<1>12. Len(vs) = Len(keys) /\ \A i \in DOMAIN vs : Weight[vs[i]] < n
  BY <1>6, <1>8, <1>9, <1>11
<1>13. /\ Obj(keys, vs) \in JsonTrees /\ Weight[Obj(keys, vs)] <= n
       /\ IsObj(Obj(keys, vs)) /\ Obj(keys, vs).keys = keys /\ Obj(keys, vs).items = vs
  BY <1>2, <1>5, <1>11, <1>12, ObjectMade
<1> DEFINE o == Obj(keys, vs)
<1>14. o \in JsonTrees /\ Weight[o] \in Nat /\ Weight[o] <= n /\ IsObj(o) /\ o.keys = keys /\ o.items = vs
  BY <1>13, TreeShape
<1>15. MergedObject(g, t, s) = o /\ MergedObject(h, t, s) = o
  BY <1>1, <1>7 DEF vs
<1> HIDE DEF o
<1>16. Weight[o] < Weight[t] + Weight[s]
  BY <1>0, <1>5, <1>14 DEF n
<1> QED
  BY <1>4, <1>9, <1>14, <1>15, <1>16 DEF keys

\* So are two arrays.
LEMMA ArrayStep ==
    ASSUME NEW t \in JsonTrees, IsContainer(t), NEW s \in JsonTrees, IsArr(s),
           Weight[t] + Weight[s] <= MaxWeight,
           NEW g, NEW h, Known(g, h, 2 * (Weight[t] + Weight[s]))
    PROVE  /\ MergedArray(g, t, s) \in JsonTrees
           /\ Weight[MergedArray(g, t, s)] < Weight[t] + Weight[s]
           /\ MergedArray(g, t, s) = MergedArray(h, t, s)
           /\ IsArr(t) => /\ Arr(t.items \o s.items) \in ArrayTrees
                          /\ Weight[Arr(t.items \o s.items)] < Weight[t] + Weight[s]
<1>0. /\ Weight[t] \in Nat /\ Weight[s] \in Nat /\ Weight[t] # 0 /\ Weight[s] # 0
      /\ MaxWeight \in Nat
  BY TreeShape, MergingAssumption DEF IsContainer
<1> DEFINE a == Arr(t.items \o s.items)
<1>1. ASSUME IsArr(t) PROVE a \in ArrayTrees /\ Weight[a] < Weight[t] + Weight[s]
  <2> DEFINE both == t.items \o s.items
  <2>1. /\ t.items \in Seq(JsonTrees) /\ s.items \in Seq(JsonTrees)
        /\ Weight[t] = 1 + Total(t.items) /\ Weight[s] = 1 + Total(s.items)
    BY <1>1, TreeShape
  <2>2. Total(t.items) \in Nat /\ Total(s.items) \in Nat /\ Total(both) = Total(t.items) + Total(s.items)
    BY <2>1, TreesWithin, TotalOfBoth, SumsGrow
  <2>3. both \in Seq(JsonTrees)
    BY <2>1, ConcatProperties
  <2> HIDE DEF both
  <2>4. Total(both) < MaxWeight
    BY <1>0, <2>1, <2>2
  <2>5. Arr(both) \in JsonTrees /\ Weight[Arr(both)] = 1 + Total(both)
    BY <2>3, <2>4, ArrayMade
  <2>6. Arr(both) \in ArrayTrees
    BY <2>5 DEF ArrayTrees, Arr, IsArr
  <2>7. Weight[Arr(both)] < Weight[t] + Weight[s]
    BY <1>0, <2>1, <2>2, <2>5
  <2> QED
    BY <2>6, <2>7 DEF both
<1> HIDE DEF a
<1>2. /\ MergedArray(g, t, s) \in {s, t} \/ (IsArr(t) /\ MergedArray(g, t, s) = g[MergeArrayItems(a)])
      /\ \/ MergedArray(g, t, s) = MergedArray(h, t, s)
         \/ IsArr(t) /\ MergedArray(g, t, s) = g[MergeArrayItems(a)] /\ MergedArray(h, t, s) = h[MergeArrayItems(a)]
  BY DEF MergedArray, a
<1>3. ASSUME IsArr(t)
      PROVE  /\ g[MergeArrayItems(a)] \in JsonTrees /\ Weight[g[MergeArrayItems(a)]] < Weight[t] + Weight[s]
             /\ g[MergeArrayItems(a)] = h[MergeArrayItems(a)]
  <2>1. a \in ArrayTrees /\ Weight[a] < Weight[t] + Weight[s]
    BY <1>1, <1>3
  <2>2. Weight[a] \in Nat
    BY <2>1, TreeShape DEF ArrayTrees
  <2>3. 2 * Weight[a] + 1 < 2 * (Weight[t] + Weight[s])
    BY <1>0, <2>1, <2>2
  <2>4. g[MergeArrayItems(a)] \in ArraysUnder(Weight[a]) /\ g[MergeArrayItems(a)] = h[MergeArrayItems(a)]
    BY <2>1, <2>3 DEF Known
  <2> DEFINE r == g[MergeArrayItems(a)]
  <2>5. r \in JsonTrees /\ Weight[r] <= Weight[a]
    BY <2>4 DEF ArraysUnder
  <2>6. Weight[r] \in Nat
    BY <2>5, TreeShape
  <2> HIDE DEF r
  <2>7. Weight[r] < Weight[t] + Weight[s]
    BY <1>0, <2>1, <2>2, <2>5, <2>6
  <2> QED
    BY <2>4, <2>5, <2>7 DEF r
<1>4. Weight[s] < Weight[t] + Weight[s] /\ Weight[t] < Weight[t] + Weight[s]
  BY <1>0
<1> QED
  BY <1>1, <1>2, <1>3, <1>4 DEF a

\* deepMerge goes on to calls of lower rank only, and gives what it may.
LEMMA DeepStep ==
    ASSUME NEW t \in JsonTrees, NEW s \in JsonTrees, Weight[t] + Weight[s] <= MaxWeight,
           NEW g, NEW h, Known(g, h, 2 * (Weight[t] + Weight[s]))
    PROVE  /\ DeepMerged(g, t, s) \in MergedUnder(t, s)
           /\ DeepMerged(g, t, s) = DeepMerged(h, t, s)
<1>0. Weight[t] \in Nat /\ Weight[s] \in Nat
  BY TreeShape
<1>1. CASE ~IsContainer(s)
  BY <1>0, <1>1 DEF DeepMerged, MergedUnder, IsContainer
<1>2. CASE IsContainer(s) /\ ~IsContainer(t)
  BY <1>0, <1>2 DEF DeepMerged, MergedUnder, IsContainer
<1>3. CASE IsContainer(t) /\ IsArr(s)
  <2>1. /\ DeepMerged(g, t, s) = MergedArray(g, t, s) /\ DeepMerged(h, t, s) = MergedArray(h, t, s)
        /\ ~IsObj(s)
    BY <1>3 DEF DeepMerged, IsContainer, IsArr, IsObj
  <2>2. /\ MergedArray(g, t, s) \in JsonTrees /\ Weight[MergedArray(g, t, s)] < Weight[t] + Weight[s]
        /\ MergedArray(g, t, s) = MergedArray(h, t, s)
    BY <1>3, ArrayStep
  <2>3. Weight[MergedArray(g, t, s)] <= Weight[t] + Weight[s]
    BY <1>0, <2>2, TreeShape
  <2> QED
    BY <2>1, <2>2, <2>3 DEF MergedUnder
<1>4. CASE IsContainer(t) /\ IsObj(s)
  <2>1. DeepMerged(g, t, s) = MergedObject(g, t, s) /\ DeepMerged(h, t, s) = MergedObject(h, t, s)
    BY <1>4 DEF DeepMerged, IsContainer, IsArr, IsObj
  <2>2. /\ MergedObject(g, t, s) \in JsonTrees /\ Weight[MergedObject(g, t, s)] < Weight[t] + Weight[s]
        /\ MergedObject(g, t, s) = MergedObject(h, t, s) /\ IsObj(MergedObject(g, t, s))
    BY <1>4, ObjectStep
  <2>3. Weight[MergedObject(g, t, s)] <= Weight[t] + Weight[s]
    BY <1>0, <2>2, TreeShape
  <2> QED
    BY <2>1, <2>2, <2>3 DEF MergedUnder
<1> QED
  BY <1>1, <1>2, <1>3, <1>4 DEF IsContainer

----------------------------------------------------------------------------
(* What each call makes of others                                          *)

\* The loop that merges the objects in a sequence.
Supers(g, items) == [i \in DOMAIN items |-> [out \in JsonTrees |->
    IF IsObj(items[i]) THEN g[DeepMerge(out, items[i])] ELSE out]]

\* The object that objects are merged into weighs less than their array.
LEMMA SuperStep ==
    ASSUME NEW arr \in ArrayTrees, arr.items # <<>>, IsObj(arr.items[1]),
           NEW g, NEW h, Known(g, h, 2 * Weight[arr] + 1)
    PROVE  /\ SuperObject(g, arr.items) \in JsonTrees
           /\ IsObj(SuperObject(g, arr.items))
           /\ Weight[SuperObject(g, arr.items)] < Weight[arr]
           /\ SuperObject(g, arr.items) = SuperObject(h, arr.items)
<1> DEFINE items == arr.items
           fs == Supers(g, items)
           gs == Supers(h, items)
           R == {p \in Nat \X JsonTrees \X JsonTrees :
                   /\ p[2] = p[3] /\ IsObj(p[2])
                   /\ p[1] <= Len(items) =>
                        p[2] = EmptyObj \/ Weight[p[2]] <= Partial(items, p[1])}
<1>0. /\ arr \in JsonTrees /\ IsArr(arr) /\ MaxWeight \in Nat
      /\ Weight[arr] \in Nat /\ Weight[arr] <= MaxWeight /\ Weight[arr] = 1 + Total(items)
      /\ items \in Seq(JsonTrees) /\ items \in Seq(Within)
      /\ DOMAIN items = 1 .. Len(items) /\ Len(items) \in Nat /\ Len(items) # 0
      /\ \A i \in DOMAIN items : items[i] \in JsonTrees
  <2>1. arr \in JsonTrees /\ IsArr(arr)
    BY DEF ArrayTrees
  <2>2. items \in Seq(JsonTrees) /\ Weight[arr] = 1 + Total(items) /\ Weight[arr] \in Nat /\ Weight[arr] <= MaxWeight
    BY <2>1, TreeShape
  <2>3. Len(items) # 0
    BY <2>2, EmptySeq
  <2> QED
    BY <2>1, <2>2, <2>3, TreesWithin, MergingAssumption
<1>1. /\ EmptyObj \in JsonTrees /\ IsObj(EmptyObj) /\ Weight[EmptyObj] \in Nat /\ Weight[EmptyObj] <= 1
  <2>1. Total(items) \in Nat
    BY <1>0, SumsGrow
  <2>2. MaxWeight # 0
    BY <1>0, <2>1
  <2> QED
    BY <2>2, NoFields
<1>2. SuperObject(g, items) = Outcome(fs, EmptyObj) /\ SuperObject(h, items) = Outcome(gs, EmptyObj)
  BY DEF SuperObject, Supers
<1>3. Len(fs) = Len(items) /\ Len(gs) = Len(items)
  BY <1>0 DEF Supers
<1>4. \A i \in 1 .. Len(items) : \A out \in JsonTrees :
         /\ fs[i][out] = IF IsObj(items[i]) THEN g[DeepMerge(out, items[i])] ELSE out
         /\ gs[i][out] = IF IsObj(items[i]) THEN h[DeepMerge(out, items[i])] ELSE out
  BY <1>0 DEF Supers
<1> HIDE DEF fs, gs, items
<1>5. /\ MaxWeight \in Nat /\ Weight[arr] \in Nat /\ Weight[arr] <= MaxWeight
      /\ Weight[arr] = 1 + Total(items)
      /\ Weight[EmptyObj] \in Nat /\ Weight[EmptyObj] <= 1
  BY <1>0, <1>1
<1>6. <<0, EmptyObj, EmptyObj>> \in R
  BY <1>1
<1>7. ASSUME NEW n \in 1 .. Len(fs), NEW x, NEW y, <<n - 1, x, y>> \in R
      PROVE  <<n, fs[n][x], gs[n][y]>> \in R
  <2>0. n \in Nat /\ n \in 1 .. Len(items) /\ n \in DOMAIN items /\ n <= Len(items) /\ n - 1 <= Len(items)
        /\ n - 1 \in 0 .. Len(items) /\ n \in 0 .. Len(items)
    BY <1>0, <1>3
  <2>1. /\ x \in JsonTrees /\ y = x /\ IsObj(x)
        /\ x = EmptyObj \/ Weight[x] <= Partial(items, n - 1)
    BY <1>7, <2>0
  <2> DEFINE z == items[n]
  <2>2. /\ Partial(items, n) = Partial(items, n - 1) + Weight[z]
        /\ Partial(items, n - 1) \in Nat /\ Weight[z] \in Nat
        /\ Partial(items, n) <= Total(items) /\ Partial(items, n) \in Nat /\ Total(items) \in Nat
    BY <1>0, <2>0, PartialSums, SumsGrow
  <2>3. z \in JsonTrees /\ Weight[x] \in Nat
    BY <1>0, <2>0, <2>1, TreeShape
  <2>4. /\ fs[n][x] = IF IsObj(z) THEN g[DeepMerge(x, z)] ELSE x
        /\ gs[n][y] = IF IsObj(z) THEN h[DeepMerge(x, z)] ELSE x
    BY <1>4, <2>0, <2>1
  <2> HIDE DEF z
  <2>5. CASE IsObj(z)
    <3>1. Weight[z] # 0
      BY <2>3, <2>5, TreeShape
    <3>2. Weight[x] + Weight[z] <= MaxWeight /\ 2 * (Weight[x] + Weight[z]) < 2 * Weight[arr] + 1
      <4>1. Weight[x] + Weight[z] <= Weight[arr]
        <5> DEFINE a == Weight[x]
                   b == Weight[z]
                   before == Partial(items, n - 1)
                   after == Partial(items, n)
                   total == Total(items)
                   whole == Weight[arr]
        <5>1. /\ a \in Nat /\ b \in Nat /\ before \in Nat /\ after \in Nat /\ total \in Nat
              /\ after = before + b /\ after <= total
          BY <2>2, <2>3
        <5>2. (a <= 1 \/ a <= before) /\ whole = 1 + total
          BY <1>5, <2>1
        <5> HIDE DEF a, b, before, after, total, whole
        <5>3. a + b <= whole
          BY <5>1, <5>2
        <5> QED
          BY <5>3 DEF a, b, whole
      <4> DEFINE both == Weight[x] + Weight[z]
                 whole == Weight[arr]
      <4>2. both \in Nat /\ whole \in Nat /\ both <= whole /\ whole <= MaxWeight /\ MaxWeight \in Nat
        <5>1. Weight[x] \in Nat /\ Weight[z] \in Nat
          BY <2>2, <2>3
        <5> QED
          BY <1>5, <4>1, <5>1
      <4> HIDE DEF both, whole
      <4>3. both <= MaxWeight /\ 2 * both < 2 * whole + 1
        BY <4>2
      <4> QED
        BY <4>3 DEF both, whole
    <3>3. g[DeepMerge(x, z)] \in MergedUnder(x, z) /\ g[DeepMerge(x, z)] = h[DeepMerge(x, z)]
      BY <2>1, <2>3, <3>2 DEF Known
    <3> DEFINE r == g[DeepMerge(x, z)]
    <3>4. r \in JsonTrees /\ Weight[r] < Weight[x] + Weight[z] /\ IsObj(r)
      BY <2>1, <2>5, <3>3 DEF MergedUnder, IsContainer
    <3>5. Weight[r] \in Nat
      BY <3>4, TreeShape
    <3>6. fs[n][x] = r /\ gs[n][y] = r
      BY <2>4, <2>5, <3>3
    <3> HIDE DEF r
    <3>7. Weight[r] <= Partial(items, n)
      <4>1. CASE x = EmptyObj
        BY <1>1, <2>2, <2>3, <3>4, <3>5, <4>1
      <4>2. CASE Weight[x] <= Partial(items, n - 1)
        BY <2>2, <2>3, <3>4, <3>5, <4>2
      <4> QED
        BY <2>1, <4>1, <4>2
    <3> QED
      BY <2>0, <3>4, <3>6, <3>7
  <2>6. CASE ~IsObj(z)
    <3>1. x = EmptyObj \/ Weight[x] <= Partial(items, n)
      BY <2>1, <2>2, <2>3
    <3>2. fs[n][x] = x /\ gs[n][y] = x
      BY <2>4, <2>6
    <3> QED
      BY <2>0, <2>1, <3>1, <3>2
  <2> QED
    BY <2>5, <2>6
<1>8. <<Len(fs), Outcome(fs, EmptyObj), Outcome(gs, EmptyObj)>> \in R
  <2>1. Len(fs) \in Nat /\ Len(gs) = Len(fs)
    BY <1>0, <1>3
  <2> HIDE DEF R
  <2> QED
    BY <1>6, <1>7, <2>1, LoopsRelated
<1> DEFINE o == Outcome(fs, EmptyObj)
<1>9. /\ o \in JsonTrees /\ o = Outcome(gs, EmptyObj) /\ IsObj(o)
      /\ o = EmptyObj \/ Weight[o] <= Total(items)
  <2>1. Total(items) = Partial(items, Len(items))
    BY <1>0, PartialSums
  <2> QED
    BY <1>0, <1>3, <1>8, <2>1
<1> HIDE DEF o
<1>10. Weight[o] < Weight[arr]
  <2>1. Weight[items[1]] <= Total(items) /\ Total(items) \in Nat /\ 1 \in DOMAIN items
    BY <1>0, SumsGrow
  <2>2. Weight[items[1]] \in Nat /\ Weight[items[1]] # 0
    BY <1>0, <2>1, TreeShape DEF items
  <2>3. Weight[o] \in Nat
    BY <1>9, TreeShape
  <2> QED
    BY <1>0, <1>1, <1>9, <2>1, <2>2, <2>3
<1> QED
  BY <1>2, <1>9, <1>10 DEF o, items

\* An array that replaces another one has the weight of its item and one more.
LEMMA Wrapped ==
    ASSUME NEW r \in JsonTrees, Weight[r] < MaxWeight
    PROVE  /\ Arr(<<r>>) \in JsonTrees /\ Weight[Arr(<<r>>)] = 1 + Weight[r]
           /\ IsArr(Arr(<<r>>)) /\ Arr(<<r>>).items = <<r>>
<1>1. r \in Within
  BY TreeShape
<1>2. Total(<<r>>) = Weight[r]
  BY <1>1, TotalOfNoneAndOne
<1> DEFINE s == <<r>>
<1>3. s \in Seq(JsonTrees) /\ Total(s) < MaxWeight
  BY <1>2
<1> HIDE DEF s
<1>4. Arr(s) \in JsonTrees /\ Weight[Arr(s)] = 1 + Total(s)
  BY <1>3, ArrayMade
<1> QED
  BY <1>2, <1>4 DEF s, Arr, IsArr

\* mergeArrayItems goes on to calls of lower rank only, and gives what it may.
LEMMA ItemsStep ==
    ASSUME NEW arr \in ArrayTrees, NEW g, NEW h, Known(g, h, 2 * Weight[arr] + 1)
    PROVE  /\ MergedItems(g, arr) \in ArraysUnder(Weight[arr])
           /\ MergedItems(g, arr) = MergedItems(h, arr)
<1> DEFINE items == arr.items
<1>0. /\ arr \in JsonTrees /\ IsArr(arr) /\ MaxWeight \in Nat
      /\ Weight[arr] \in Nat /\ Weight[arr] <= MaxWeight /\ Weight[arr] = 1 + Total(items)
      /\ items \in Seq(JsonTrees) /\ DOMAIN items = 1 .. Len(items) /\ Len(items) \in Nat
  <2>1. arr \in JsonTrees /\ IsArr(arr)
    BY DEF ArrayTrees
  <2> QED
    BY <2>1, TreeShape, MergingAssumption
<1>1. CASE items = <<>> \/ ~IsContainer(items[1])
  <2>1. MergedItems(g, arr) = arr /\ MergedItems(h, arr) = arr
    BY <1>1 DEF MergedItems, IsContainer
  <2> QED
    BY <1>0, <2>1 DEF ArraysUnder
<1>2. CASE items # <<>> /\ IsObj(items[1])
  <2> DEFINE o == SuperObject(g, items)
             r == g[Process(o)]
  <2>1. o \in JsonTrees /\ IsObj(o) /\ Weight[o] < Weight[arr] /\ o = SuperObject(h, items)
    BY <1>2, SuperStep
  <2>2. /\ MergedItems(g, arr) = Arr(<<r>>)
        /\ MergedItems(h, arr) = Arr(<<h[Process(o)]>>)
    <3>1. /\ MergedItems(g, arr) = Replaced(items, g[Process(SuperObject(g, items))])
          /\ MergedItems(h, arr) = Replaced(items, h[Process(SuperObject(h, items))])
      BY <1>2 DEF MergedItems, IsContainer, IsArr, IsObj
    <3> QED
      BY <2>1, <3>1 DEF Replaced
  <2> HIDE DEF o
  <2>3. Weight[o] \in Nat
    BY <2>1, TreeShape
  <2>4. r \in ProcessedUnder(o) /\ r = h[Process(o)]
    <3>1. 2 * Weight[o] + 2 < 2 * Weight[arr] + 1
      BY <1>0, <2>1, <2>3
    <3> QED
      BY <2>1, <3>1 DEF Known
  <2>5. r \in JsonTrees /\ Weight[r] <= Weight[o]
    BY <2>4 DEF ProcessedUnder
  <2> HIDE DEF r
  <2>6. Weight[r] \in Nat
    BY <2>5, TreeShape
  <2>7. Weight[r] < MaxWeight /\ 1 + Weight[r] <= Weight[arr]
    BY <1>0, <2>1, <2>3, <2>5, <2>6
  <2>8. Arr(<<r>>) \in JsonTrees /\ Weight[Arr(<<r>>)] = 1 + Weight[r] /\ IsArr(Arr(<<r>>))
    BY <2>5, <2>7, Wrapped
  <2> QED
    BY <2>2, <2>4, <2>7, <2>8 DEF ArraysUnder
<1>3. CASE items # <<>> /\ IsArr(items[1])
  <2> DEFINE a == Arr(Flat(items))
             r == g[MergeArrayItems(a)]
  <2>1. MergedItems(g, arr) = Arr(<<r>>) /\ MergedItems(h, arr) = Arr(<<h[MergeArrayItems(a)]>>)
    BY <1>3 DEF MergedItems, IsContainer, IsArr, IsObj
  <2>2. 1 \in DOMAIN items
    BY <1>0, <1>3, EmptySeq
  <2>3. Flat(items) \in Seq(JsonTrees) /\ Total(Flat(items)) \in Nat /\ Total(Flat(items)) < Total(items)
    BY <1>0, <1>3, <2>2, FlatWeight
  <2>4. Total(items) \in Nat
    BY <1>0, TreesWithin, SumsGrow
  <2>5. Total(Flat(items)) < MaxWeight
    BY <1>0, <2>3, <2>4
  <2>6. a \in JsonTrees /\ Weight[a] = 1 + Total(Flat(items)) /\ IsArr(a)
    BY <2>3, <2>5, ArrayMade DEF Arr, IsArr
  <2> HIDE DEF a
  <2>7. r \in ArraysUnder(Weight[a]) /\ r = h[MergeArrayItems(a)]
    <3>1. a \in ArrayTrees /\ 2 * Weight[a] + 1 < 2 * Weight[arr] + 1
      BY <1>0, <2>3, <2>4, <2>6 DEF ArrayTrees
    <3> QED
      BY <3>1 DEF Known
  <2>8. r \in JsonTrees /\ Weight[r] <= Weight[a]
    BY <2>7 DEF ArraysUnder
  <2> HIDE DEF r
  <2>9. Weight[r] \in Nat
    BY <2>8, TreeShape
  <2>10. Weight[r] < MaxWeight /\ 1 + Weight[r] <= Weight[arr]
    BY <1>0, <2>3, <2>4, <2>6, <2>8, <2>9
  <2>11. Arr(<<r>>) \in JsonTrees /\ Weight[Arr(<<r>>)] = 1 + Weight[r] /\ IsArr(Arr(<<r>>))
    BY <2>8, <2>10, Wrapped
  <2> QED
    BY <2>1, <2>7, <2>10, <2>11 DEF ArraysUnder
<1> QED
  BY <1>1, <1>2, <1>3 DEF IsContainer

\* So does process.
LEMMA ProcessStep ==
    ASSUME NEW v \in JsonTrees, NEW g, NEW h, Known(g, h, 2 * Weight[v] + 2)
    PROVE  /\ Processed(g, v) \in ProcessedUnder(v)
           /\ Processed(g, v) = Processed(h, v)
<1>0. Weight[v] \in Nat /\ Weight[v] <= MaxWeight /\ MaxWeight \in Nat
  BY TreeShape, MergingAssumption
<1>1. CASE IsArr(v)
  <2>1. Processed(g, v) = g[MergeArrayItems(v)] /\ Processed(h, v) = h[MergeArrayItems(v)] /\ ~IsObj(v)
    BY <1>1 DEF Processed, IsArr, IsObj
  <2>2. v \in ArrayTrees /\ 2 * Weight[v] + 1 < 2 * Weight[v] + 2
    BY <1>0, <1>1 DEF ArrayTrees
  <2>3. g[MergeArrayItems(v)] \in ArraysUnder(Weight[v]) /\ g[MergeArrayItems(v)] = h[MergeArrayItems(v)]
    BY <2>2 DEF Known
  <2> QED
    BY <2>1, <2>3 DEF ProcessedUnder, ArraysUnder
<1>2. CASE IsObj(v)
  <2> DEFINE of(m) == [i \in DOMAIN v.items |-> m[Process(v.items[i])]]
  <2>0. /\ v.items \in Seq(JsonTrees) /\ DOMAIN v.items = 1 .. Len(v.items) /\ Len(v.items) \in Nat
        /\ Weight[v] # 0 /\ ~IsArr(v)
        /\ v.keys \in Seq(FieldNames) /\ Len(v.items) = Len(v.keys) /\ IsInjective(v.keys)
        /\ \A i \in DOMAIN v.items :
              v.items[i] \in JsonTrees /\ Weight[v.items[i]] \in Nat /\ Weight[v.items[i]] < Weight[v]
    BY <1>2, TreeShape
  <2>1. Processed(g, v) = Obj(v.keys, of(g)) /\ Processed(h, v) = Obj(v.keys, of(h))
    BY <1>2 DEF Processed, IsArr, IsObj
  <2>2. ASSUME NEW i \in DOMAIN v.items
        PROVE  /\ g[Process(v.items[i])] \in JsonTrees
               /\ Weight[g[Process(v.items[i])]] < Weight[v]
               /\ g[Process(v.items[i])] = h[Process(v.items[i])]
    <3> DEFINE x == v.items[i]
               r == g[Process(x)]
    <3>1. x \in JsonTrees /\ Weight[x] \in Nat /\ Weight[x] < Weight[v]
      BY <2>0
    <3> HIDE DEF x
    <3>2. 2 * Weight[x] + 2 < 2 * Weight[v] + 2
      BY <1>0, <3>1
    <3>3. r \in ProcessedUnder(x) /\ r = h[Process(x)]
      BY <3>1, <3>2 DEF Known
    <3>4. r \in JsonTrees /\ Weight[r] <= Weight[x]
      BY <3>3 DEF ProcessedUnder
    <3> HIDE DEF r
    <3>5. Weight[r] \in Nat
      BY <3>4, TreeShape
    <3>6. Weight[r] < Weight[v]
      BY <1>0, <3>1, <3>4, <3>5
    <3> QED
      BY <3>3, <3>4, <3>6 DEF r, x
  <2>3. of(g) = of(h)
    BY <2>2
  <2> DEFINE vs == of(g)
             n == Weight[v]
  <2>4. /\ vs = [i \in 1 .. Len(v.items) |-> vs[i]] /\ DOMAIN vs = DOMAIN v.items
        /\ \A i \in DOMAIN v.items : vs[i] \in JsonTrees /\ Weight[vs[i]] < n
    BY <2>0, <2>2
  <2> HIDE DEF vs
  <2>5. vs \in Seq(JsonTrees)
    <3> DEFINE len == Len(v.items)
    <3>1. len \in Nat /\ vs = [i \in 1 .. len |-> vs[i]] /\ \A i \in 1 .. len : vs[i] \in JsonTrees
      BY <2>0, <2>4
    <3> HIDE DEF len
    <3> QED
      BY <3>1
  <2>6. Len(vs) = Len(v.keys) /\ n \in 1 .. MaxWeight /\ \A i \in DOMAIN vs : Weight[vs[i]] < n
    <3>1. DOMAIN vs = 1 .. Len(vs) /\ Len(vs) \in Nat
      BY <2>5
    <3>2. Len(vs) = Len(v.items)
      BY <2>0, <2>4, <3>1
    <3>3. n \in 1 .. MaxWeight
      BY <1>0, <2>0
    <3> HIDE DEF n
    <3> QED
      BY <2>0, <2>4, <3>2, <3>3
  <2>7. Obj(v.keys, vs) \in JsonTrees /\ Weight[Obj(v.keys, vs)] <= n /\ IsObj(Obj(v.keys, vs))
    BY <2>0, <2>5, <2>6, ObjectMade
  <2> QED
    BY <2>0, <2>1, <2>3, <2>7 DEF ProcessedUnder, vs
<1>3. CASE ~IsArr(v) /\ ~IsObj(v)
  <2>1. Processed(g, v) = v /\ Processed(h, v) = v
    BY <1>3 DEF Processed
  <2> QED
    BY <1>0, <1>3, <2>1 DEF ProcessedUnder
<1> QED
  BY <1>1, <1>2, <1>3

\* So does each call.
LEMMA BodyStep ==
    ASSUME NEW call \in Calls, NEW g, NEW h,
           \A c \in Calls : Rank[c] < Rank[call] => g[c] \in Results[c] /\ g[c] = h[c]
    PROVE  Body(g, call) \in Results[call] /\ Body(g, call) = Body(h, call)
<1> DEFINE r == Rank[call]
<1>1. Known(g, h, r)
  <2>1. ASSUME NEW a \in ArrayTrees, 2 * Weight[a] + 1 < r
        PROVE  /\ g[MergeArrayItems(a)] \in ArraysUnder(Weight[a])
               /\ g[MergeArrayItems(a)] = h[MergeArrayItems(a)]
    <3>1. /\ MergeArrayItems(a) \in Calls /\ Rank[MergeArrayItems(a)] = 2 * Weight[a] + 1
          /\ Results[MergeArrayItems(a)] = ArraysUnder(Weight[a])
      BY CallForms
    <3> QED
      BY <2>1, <3>1
  <2>2. ASSUME NEW t \in JsonTrees, NEW s \in JsonTrees,
               Weight[t] + Weight[s] <= MaxWeight, 2 * (Weight[t] + Weight[s]) < r
        PROVE  /\ g[DeepMerge(t, s)] \in MergedUnder(t, s)
               /\ g[DeepMerge(t, s)] = h[DeepMerge(t, s)]
    <3>1. /\ DeepMerge(t, s) \in Calls /\ Rank[DeepMerge(t, s)] = 2 * (Weight[t] + Weight[s])
          /\ Results[DeepMerge(t, s)] = MergedUnder(t, s)
      BY <2>2, CallForms
    <3> QED
      BY <2>2, <3>1
  <2>3. ASSUME NEW v \in JsonTrees, 2 * Weight[v] + 2 < r
        PROVE  /\ g[Process(v)] \in ProcessedUnder(v)
               /\ g[Process(v)] = h[Process(v)]
    <3>1. /\ Process(v) \in Calls /\ Rank[Process(v)] = 2 * Weight[v] + 2
          /\ Results[Process(v)] = ProcessedUnder(v)
      BY CallForms
    <3> QED
      BY <2>3, <3>1
  <2> QED
    BY <2>1, <2>2, <2>3 DEF Known
<1> HIDE DEF r
<1>2. ASSUME NEW a \in ArrayTrees, call = MergeArrayItems(a)
      PROVE  Body(g, call) \in Results[call] /\ Body(g, call) = Body(h, call)
  <2>1. /\ r = 2 * Weight[a] + 1 /\ Results[call] = ArraysUnder(Weight[a])
        /\ Body(g, call) = MergedItems(g, a) /\ Body(h, call) = MergedItems(h, a)
    BY <1>2, CallForms DEF r
  <2> QED
    BY <1>1, <2>1, ItemsStep
<1>3. ASSUME NEW t \in JsonTrees, NEW s \in JsonTrees,
             Weight[t] + Weight[s] <= MaxWeight, call = DeepMerge(t, s)
      PROVE  Body(g, call) \in Results[call] /\ Body(g, call) = Body(h, call)
  <2>1. /\ r = 2 * (Weight[t] + Weight[s]) /\ Results[call] = MergedUnder(t, s)
        /\ Body(g, call) = DeepMerged(g, t, s) /\ Body(h, call) = DeepMerged(h, t, s)
    BY <1>3, CallForms DEF r
  <2> QED
    BY <1>1, <1>3, <2>1, DeepStep
<1>4. ASSUME NEW v \in JsonTrees, call = Process(v)
      PROVE  Body(g, call) \in Results[call] /\ Body(g, call) = Body(h, call)
  <2>1. /\ r = 2 * Weight[v] + 2 /\ Results[call] = ProcessedUnder(v)
        /\ Body(g, call) = Processed(g, v) /\ Body(h, call) = Processed(h, v)
    BY <1>4, CallForms DEF r
  <2> QED
    BY <1>1, <2>1, ProcessStep
<1> QED
  BY <1>2, <1>3, <1>4, CallForms

\* What may be returned includes something.
LEMMA ResultsType ==
    /\ Rank \in [Calls -> Nat]
    /\ Results \in [Calls -> (SUBSET JsonTrees) \ {{}}]
<1>1. ASSUME NEW call \in Calls
      PROVE  Rank[call] \in Nat /\ Results[call] \subseteq JsonTrees /\ Results[call] # {}
  <2>1. ASSUME NEW a \in ArrayTrees, call = MergeArrayItems(a)
        PROVE  Rank[call] \in Nat /\ Results[call] \subseteq JsonTrees /\ Results[call] # {}
    <3>1. Weight[a] \in Nat /\ a \in ArraysUnder(Weight[a])
      BY TreeShape DEF ArrayTrees, ArraysUnder
    <3>2. Rank[call] = 2 * Weight[a] + 1 /\ Results[call] = ArraysUnder(Weight[a])
      BY <2>1, CallForms
    <3>3. ArraysUnder(Weight[a]) \subseteq JsonTrees
      BY DEF ArraysUnder
    <3> QED
      BY <3>1, <3>2, <3>3
  <2>2. ASSUME NEW t \in JsonTrees, NEW s \in JsonTrees,
               Weight[t] + Weight[s] <= MaxWeight, call = DeepMerge(t, s)
        PROVE  Rank[call] \in Nat /\ Results[call] \subseteq JsonTrees /\ Results[call] # {}
    <3>1. Weight[t] \in Nat /\ Weight[s] \in Nat
      BY TreeShape
    <3>2. t \in MergedUnder(t, s)
      <4>1. IsContainer(s) => Weight[s] # 0
        BY TreeShape
      <4> QED
        BY <3>1, <4>1 DEF MergedUnder
    <3>3. Rank[call] = 2 * (Weight[t] + Weight[s]) /\ Results[call] = MergedUnder(t, s)
      BY <2>2, CallForms
    <3>4. MergedUnder(t, s) \subseteq JsonTrees
      BY DEF MergedUnder
    <3> QED
      BY <3>1, <3>2, <3>3, <3>4
  <2>3. ASSUME NEW v \in JsonTrees, call = Process(v)
        PROVE  Rank[call] \in Nat /\ Results[call] \subseteq JsonTrees /\ Results[call] # {}
    <3>1. Weight[v] \in Nat
      BY TreeShape
    <3>2. v \in ProcessedUnder(v)
      BY <3>1 DEF ProcessedUnder
    <3>3. Rank[call] = 2 * Weight[v] + 2 /\ Results[call] = ProcessedUnder(v)
      BY <2>3, CallForms
    <3>4. ProcessedUnder(v) \subseteq JsonTrees
      BY DEF ProcessedUnder
    <3> QED
      BY <3>1, <3>2, <3>3, <3>4
  <2> QED
    BY <2>1, <2>2, <2>3, CallForms
<1>2. Rank \in [Calls -> Nat]
  <2>1. DOMAIN Rank = Calls /\ Rank = [call \in Calls |-> Rank[call]]
    BY DEF Rank
  <2> QED
    BY <1>1, <2>1
<1>3. Results \in [Calls -> (SUBSET JsonTrees) \ {{}}]
  <2>1. DOMAIN Results = Calls /\ Results = [call \in Calls |-> Results[call]]
    BY DEF Results
  <2> QED
    BY <1>1, <2>1
<1> QED
  BY <1>2, <1>3

\* The recursion of the three functions ends, and each call returns what it may.
LEMMA MergeRecurs ==
    \A call \in Calls : Merge[call] = Body(Merge, call) /\ Merge[call] \in Results[call]
<1> DEFINE step == [call \in Calls |-> [g \in [Calls -> JsonTrees] |-> Body(g, call)]]
<1>1. TypedStep(Calls, JsonTrees, Results, Rank, step)
  <2>1. \A call \in Calls : \A g \in [Calls -> JsonTrees] : step[call][g] = Body(g, call)
    OBVIOUS
  <2> HIDE DEF step
  <2>2. ASSUME NEW call \in Calls, NEW g \in [Calls -> JsonTrees],
               \A c \in Calls : Rank[c] < Rank[call] => g[c] \in Results[c]
        PROVE  step[call][g] \in Results[call]
    <3>1. Body(g, call) \in Results[call]
      BY <2>2, BodyStep
    <3> QED
      BY <2>1, <3>1
  <2>3. ASSUME NEW call \in Calls, NEW g \in [Calls -> JsonTrees], NEW h \in [Calls -> JsonTrees],
               \A c \in Calls : Rank[c] < Rank[call] => g[c] \in Results[c] /\ g[c] = h[c]
        PROVE  step[call][g] = step[call][h]
    <3>1. Body(g, call) = Body(h, call)
      BY <2>3, BodyStep
    <3> QED
      BY <2>1, <3>1
  <2> QED
    BY <2>2, <2>3, ResultsType DEF TypedStep
<1>2. \E f \in [Calls -> JsonTrees] : \A call \in Calls : f[call] \in Results[call] /\ f[call] = step[call][f]
  <2> HIDE DEF step
  <2> QED
    BY <1>1, TypedRecursion
<1>3. PICK f \in [Calls -> JsonTrees] : \A call \in Calls : f[call] = step[call][f]
  BY <1>2
<1>4. f = [call \in Calls |-> Body(f, call)]
  <2>1. \A call \in Calls : f[call] = Body(f, call)
    BY <1>3
  <2> QED
    BY <2>1
<1>5. Merge = [call \in Calls |-> Body(Merge, call)]
  BY <1>4 DEF Merge, Body
<1>6. \A call \in Calls : Merge[call] = Body(Merge, call)
  BY <1>5
<1> DEFINE S == {call \in Calls : Merge[call] \in Results[call]}
<1>7. ASSUME NEW call \in Calls, \A c \in Calls : Rank[c] < Rank[call] => c \in S
      PROVE  call \in S
  <2>1. \A c \in Calls : Rank[c] < Rank[call] => Merge[c] \in Results[c] /\ Merge[c] = Merge[c]
    BY <1>7
  <2>2. Body(Merge, call) \in Results[call]
    BY <2>1, BodyStep
  <2> QED
    BY <1>6, <2>2
<1>8. \A call \in Calls : call \in S
  <2>1. \A call \in Calls : Rank[call] \in Nat
    BY ResultsType
  <2> HIDE DEF S
  <2> QED
    BY <1>7, <2>1, RankInduction
<1> QED
  BY <1>6, <1>8

----------------------------------------------------------------------------
(* The three functions                                                     *)

\* What calls return, they are known to return.
LEMMA MergeIsKnown == \A r : Known(Merge, Merge, r)
<1> SUFFICES ASSUME NEW r PROVE Known(Merge, Merge, r)
  OBVIOUS
<1>1. \A a \in ArrayTrees : Merge[MergeArrayItems(a)] \in ArraysUnder(Weight[a])
  BY MergeRecurs, CallForms
<1>2. \A t, s \in JsonTrees : Weight[t] + Weight[s] <= MaxWeight =>
         Merge[DeepMerge(t, s)] \in MergedUnder(t, s)
  BY MergeRecurs, CallForms
<1>3. \A v \in JsonTrees : Merge[Process(v)] \in ProcessedUnder(v)
  BY MergeRecurs, CallForms
<1> QED
  BY <1>1, <1>2, <1>3 DEF Known

\* What mergeArrayItems computes.
LEMMA ItemsAre ==
    ASSUME NEW a \in ArrayTrees
    PROVE  /\ Merge[MergeArrayItems(a)] = MergedItems(Merge, a)
           /\ Merge[MergeArrayItems(a)] \in ArraysUnder(Weight[a])
<1>1. /\ MergeArrayItems(a) \in Calls /\ Results[MergeArrayItems(a)] = ArraysUnder(Weight[a])
      /\ Body(Merge, MergeArrayItems(a)) = MergedItems(Merge, a)
  BY CallForms
<1> QED
  BY <1>1, MergeRecurs

\* What deepMerge computes.
LEMMA DeepIs ==
    ASSUME NEW t \in JsonTrees, NEW s \in JsonTrees, Weight[t] + Weight[s] <= MaxWeight
    PROVE  /\ Merge[DeepMerge(t, s)] = DeepMerged(Merge, t, s)
           /\ Merge[DeepMerge(t, s)] \in MergedUnder(t, s)
<1>1. /\ DeepMerge(t, s) \in Calls /\ Results[DeepMerge(t, s)] = MergedUnder(t, s)
      /\ Body(Merge, DeepMerge(t, s)) = DeepMerged(Merge, t, s)
  BY CallForms
<1> QED
  BY <1>1, MergeRecurs

\* What process computes.
LEMMA ProcessIs ==
    ASSUME NEW v \in JsonTrees
    PROVE  /\ Merge[Process(v)] = Processed(Merge, v)
           /\ Merge[Process(v)] \in ProcessedUnder(v)
<1>1. /\ Process(v) \in Calls /\ Results[Process(v)] = ProcessedUnder(v)
      /\ Body(Merge, Process(v)) = Processed(Merge, v)
  BY CallForms
<1> QED
  BY <1>1, MergeRecurs

\* Merging calls by their rank: what holds for a call whenever it holds for all of
\* lower ranks does for all.
LEMMA CallInduction ==
    ASSUME NEW S, \A call \in Calls : (\A c \in Calls : Rank[c] < Rank[call] => c \in S) => call \in S
    PROVE  \A call \in Calls : call \in S
<1>1. \A call \in Calls : Rank[call] \in Nat
  BY ResultsType
<1> QED
  BY <1>1, RankInduction

----------------------------------------------------------------------------
(* Merging what is merged                                                  *)

\* Merged into an object without fields, an object stays as it is.
LEMMA DeepIntoNone ==
    ASSUME NEW o \in JsonTrees, IsObj(o), Clear(o), 1 + Weight[o] <= MaxWeight
    PROVE  Merge[DeepMerge(EmptyObj, o)] = o
<1> DEFINE e == EmptyObj
<1>0. Weight[o] \in Nat /\ MaxWeight \in Nat
  BY TreeShape, MergingAssumption
<1>1. e \in JsonTrees /\ IsObj(e) /\ Weight[e] \in Nat /\ Weight[e] <= 1
  BY <1>0, NoFields
<1>2. Keys(e) = <<>> /\ \A k : ~Has(e, k)
  BY DEF EmptyObj, Obj, Keys, IsObj, Has
<1>3. MergedKeys(e, o) = o.keys
  BY KeysIntoNone
<1> HIDE DEF e
<1>4. Merge[DeepMerge(e, o)] = DeepMerged(Merge, e, o)
  BY <1>0, <1>1, DeepIs
<1>5. DeepMerged(Merge, e, o) = MergedObject(Merge, e, o)
  BY <1>1 DEF DeepMerged, IsContainer, IsArr, IsObj
<1>6. MergedObject(Merge, e, o) = Obj(o.keys, [i \in DOMAIN o.keys |-> MergedField(Merge, e, o, o.keys[i])])
  BY <1>3 DEF MergedObject
<1>7. /\ Keys(o) = o.keys /\ DOMAIN o.keys = DOMAIN o.items /\ o = Obj(o.keys, o.items)
      /\ o.items \in Seq(JsonTrees)
      /\ \A i \in DOMAIN o.keys : At(o, o.keys[i]) = o.items[i] /\ Has(o, o.keys[i])
  <2>1. Keys(o) = o.keys /\ DOMAIN o.keys = DOMAIN o.items /\ o = Obj(o.keys, o.items) /\ o.items \in Seq(JsonTrees)
    BY TreeShape, TreeKeys DEF IsContainer
  <2>2. \A i \in DOMAIN Keys(o) : At(o, Keys(o)[i]) = o.items[i]
    BY TreeKeys DEF IsContainer
  <2>3. \A i \in DOMAIN Keys(o) : Has(o, Keys(o)[i])
    BY DEF Has
  <2> QED
    BY <2>1, <2>2, <2>3
<1>8. \A i \in DOMAIN o.keys : MergedField(Merge, e, o, o.keys[i]) = o.items[i]
  BY <1>2, <1>7 DEF MergedField
<1>9. [i \in DOMAIN o.keys |-> MergedField(Merge, e, o, o.keys[i])] = o.items
  <2>1. o.items = [i \in DOMAIN o.keys |-> o.items[i]]
    BY <1>7
  <2> QED
    BY <1>8, <2>1
<1> QED
  BY <1>4, <1>5, <1>6, <1>7, <1>9 DEF e

\* One object is merged into itself.
LEMMA SuperOfOne ==
    ASSUME NEW o \in JsonTrees, IsObj(o), Clear(o), 1 + Weight[o] <= MaxWeight
    PROVE  SuperObject(Merge, <<o>>) = o
<1> DEFINE items == <<o>>
           fs == Supers(Merge, items)
           R == {<<0, EmptyObj>>, <<1, o>>}
<1>0. EmptyObj \in JsonTrees
  <2>1. Weight[o] \in Nat /\ MaxWeight \in Nat
    BY TreeShape, MergingAssumption
  <2> QED
    BY <2>1, NoFields
<1>1. SuperObject(Merge, items) = Outcome(fs, EmptyObj)
  BY DEF SuperObject, Supers
<1>2. Len(fs) = 1 /\ \A out \in JsonTrees : fs[1][out] = Merge[DeepMerge(out, o)]
  BY DEF Supers
<1>3. fs[1][EmptyObj] = o
  BY <1>0, <1>2, DeepIntoNone
<1> HIDE DEF fs
<1>4. <<Len(fs), Outcome(fs, EmptyObj)>> \in R
  <2>1. <<0, EmptyObj>> \in R
    OBVIOUS
  <2>2. ASSUME NEW n \in 1 .. Len(fs), NEW out, <<n - 1, out>> \in R PROVE <<n, fs[n][out]>> \in R
    <3>1. n = 1 /\ n - 1 = 0
      BY <1>2
    <3>2. out = EmptyObj
      BY <2>2, <3>1
    <3> QED
      BY <1>3, <3>1, <3>2
  <2>3. Len(fs) \in Nat
    BY <1>2
  <2> HIDE DEF R
  <2> QED
    BY <2>1, <2>2, <2>3, OutcomeInvariant
<1> QED
  BY <1>1, <1>2, <1>4

\* An object or an array stays one when another is merged into it.
LEMMA ContainersStay ==
    ASSUME NEW t \in JsonTrees, IsContainer(t), NEW s \in JsonTrees, Weight[t] + Weight[s] <= MaxWeight
    PROVE  IsContainer(Merge[DeepMerge(t, s)])
<1>1. Merge[DeepMerge(t, s)] = DeepMerged(Merge, t, s)
  BY DeepIs
<1>2. CASE ~IsContainer(s)
  <2>1. DeepMerged(Merge, t, s) = t
    BY <1>2 DEF DeepMerged, IsContainer, IsArr, IsObj
  <2> QED
    BY <1>1, <2>1
<1>3. CASE IsObj(s)
  <2>1. DeepMerged(Merge, t, s) = MergedObject(Merge, t, s)
    BY <1>3 DEF DeepMerged, IsContainer, IsArr, IsObj
  <2> QED
    BY <1>1, <2>1 DEF MergedObject, Obj, IsContainer, IsObj
<1>4. CASE IsArr(s)
  <2>1. DeepMerged(Merge, t, s) = MergedArray(Merge, t, s)
    BY <1>4 DEF DeepMerged, IsContainer, IsArr, IsObj
  <2>2. CASE ~IsArr(t) \/ t.items = <<>>
    BY <1>1, <1>4, <2>1, <2>2 DEF MergedArray, IsContainer
  <2>3. CASE IsArr(t) /\ t.items # <<>>
    <3> DEFINE a == Arr(t.items \o s.items)
    <3>1. MergedArray(Merge, t, s) \in {Merge[MergeArrayItems(a)], t}
      BY <2>3 DEF MergedArray
    <3>2. a \in ArrayTrees
      BY <1>4, <2>3, MergeIsKnown, ArrayStep DEF IsContainer
    <3> HIDE DEF a
    <3>3. IsArr(Merge[MergeArrayItems(a)])
      BY <3>2, ItemsAre DEF ArraysUnder
    <3> QED
      BY <1>1, <2>1, <3>1, <3>3 DEF IsContainer
  <2> QED
    BY <2>2, <2>3
<1> QED
  BY <1>2, <1>3, <1>4 DEF IsContainer

\* A clear object stays clear when another one is merged into it.
LEMMA ObjectClears ==
    ASSUME NEW t \in JsonTrees, IsObj(t), Clear(t), NEW s \in JsonTrees, IsObj(s),
           Weight[t] + Weight[s] <= MaxWeight
    PROVE  Clear(Merge[DeepMerge(t, s)])
<1> DEFINE r == MergedObject(Merge, t, s)
           keys == MergedKeys(t, s)
<1>0. IsContainer(t) /\ IsContainer(s) /\ Weight[t] \in Nat /\ Weight[s] \in Nat
  BY TreeShape DEF IsContainer
<1>1. Merge[DeepMerge(t, s)] = r
  <2>1. Merge[DeepMerge(t, s)] = DeepMerged(Merge, t, s)
    BY DeepIs
  <2> QED
    BY <2>1 DEF DeepMerged, IsContainer, IsArr, IsObj
<1>2. /\ r.keys = keys
      /\ \A i \in DOMAIN keys : /\ Has(t, keys[i]) \/ Has(s, keys[i])
                                /\ r.items[i] = MergedField(Merge, t, s, keys[i])
  BY <1>0, MergeIsKnown, ObjectStep
<1>3. \A i \in DOMAIN keys : Has(t, keys[i]) \/ ~Dropped(t, s, keys[i])
  <2>1. ToSet(keys) = ToSet(Keys(t)) \cup Added(t, s)
    BY <1>0, KeysMerged
  <2>2. \A k \in ToSet(Keys(t)) : Has(t, k)
    BY <1>0, TreeKeys
  <2> HIDE DEF keys
  <2> QED
    BY <2>1, <2>2 DEF Added, ToSet
<1> HIDE DEF r, keys
<1> SUFFICES ASSUME NEW i \in DOMAIN keys, keys[i] \in Inherited PROVE IsContainer(r.items[i])
  BY <1>1, <1>2 DEF Clear
<1> DEFINE k == keys[i]
           x == At(t, k)
           y == At(s, k)
<1>4. k \in Inherited /\ (Has(t, k) \/ Has(s, k)) /\ (Has(t, k) \/ ~Dropped(t, s, k))
      /\ r.items[i] = MergedField(Merge, t, s, k)
  BY <1>2, <1>3
<1> HIDE DEF k
<1>5. /\ Has(t, k) => x \in JsonTrees /\ Weight[x] \in Nat /\ Weight[x] < Weight[t]
      /\ Has(s, k) => y \in JsonTrees /\ Weight[y] \in Nat /\ Weight[y] < Weight[s]
  BY <1>0, TreeKeys
<1>6. Has(t, k) => IsContainer(x)
  <2>1. Has(t, k) => \E j \in DOMAIN t.keys : t.keys[j] = k /\ x = t.items[j]
    BY <1>0, TreeKeys
  <2> QED
    BY <1>4, <2>1 DEF Clear
<1>7. CASE ~Has(t, k)
  <2>1. IsContainer(y)
    BY <1>4, <1>7 DEF Dropped
  <2>2. MergedField(Merge, t, s, k) = y
    BY <1>4, <1>7 DEF MergedField
  <2> QED
    BY <1>4, <2>1, <2>2
<1>8. CASE Has(t, k) /\ Has(s, k) /\ IsContainer(y)
  <2>1. MergedField(Merge, t, s, k) = Merge[DeepMerge(x, y)]
    BY <1>8 DEF MergedField
  <2> HIDE DEF x, y
  <2>2. Weight[x] + Weight[y] <= MaxWeight
    BY <1>0, <1>5, <1>8, MergingAssumption
  <2> QED
    BY <1>4, <1>5, <1>6, <1>8, <2>1, <2>2, ContainersStay
<1>9. CASE Has(t, k) /\ ~(Has(s, k) /\ IsContainer(y))
  <2>1. Null.kind = "null" /\ Text("").kind = "string"
    BY DEF Null, Text
  <2>2. ~Blank(x)
    BY <1>6, <1>9, <2>1 DEF Blank, IsContainer, IsArr, IsObj
  <2>3. ~Updates(t, s, k)
    BY <2>2 DEF Updates
  <2>4. MergedField(Merge, t, s, k) = x
    BY <1>9, <2>3 DEF MergedField
  <2> QED
    BY <1>4, <1>6, <1>9, <2>4
<1> QED
  BY <1>7, <1>8, <1>9

\* So the object that objects are merged into is clear.
LEMMA SuperClear ==
    ASSUME NEW arr \in ArrayTrees, arr.items # <<>>, IsObj(arr.items[1])
    PROVE  Clear(SuperObject(Merge, arr.items))
<1> DEFINE items == arr.items
           fs == Supers(Merge, items)
           R == {p \in Nat \X JsonTrees :
                   /\ IsObj(p[2]) /\ Clear(p[2])
                   /\ p[1] <= Len(items) =>
                        p[2] = EmptyObj \/ Weight[p[2]] <= Partial(items, p[1])}
<1>0. /\ arr \in JsonTrees /\ IsArr(arr) /\ MaxWeight \in Nat
      /\ Weight[arr] \in Nat /\ Weight[arr] <= MaxWeight /\ Weight[arr] = 1 + Total(items)
      /\ items \in Seq(JsonTrees) /\ items \in Seq(Within)
      /\ DOMAIN items = 1 .. Len(items) /\ Len(items) \in Nat
      /\ \A i \in DOMAIN items : items[i] \in JsonTrees
  <2>1. arr \in JsonTrees /\ IsArr(arr)
    BY DEF ArrayTrees
  <2>2. items \in Seq(JsonTrees) /\ Weight[arr] = 1 + Total(items) /\ Weight[arr] \in Nat /\ Weight[arr] <= MaxWeight
    BY <2>1, TreeShape
  <2> QED
    BY <2>1, <2>2, TreesWithin, MergingAssumption
<1>1. /\ EmptyObj \in JsonTrees /\ IsObj(EmptyObj) /\ Weight[EmptyObj] \in Nat /\ Weight[EmptyObj] <= 1
  <2>1. Total(items) \in Nat
    BY <1>0, SumsGrow
  <2>2. MaxWeight # 0
    BY <1>0, <2>1
  <2> QED
    BY <2>2, NoFields
<1>2. SuperObject(Merge, items) = Outcome(fs, EmptyObj)
  BY DEF SuperObject, Supers
<1>3. Len(fs) = Len(items)
  BY <1>0 DEF Supers
<1>4. \A i \in 1 .. Len(items) : \A out \in JsonTrees :
         fs[i][out] = IF IsObj(items[i]) THEN Merge[DeepMerge(out, items[i])] ELSE out
  BY <1>0 DEF Supers
<1> HIDE DEF fs, items
<1>5. <<0, EmptyObj>> \in R
  <2>1. Clear(EmptyObj)
    BY DEF Clear, EmptyObj, Obj
  <2> QED
    BY <1>1, <2>1
<1>6. ASSUME NEW n \in 1 .. Len(fs), NEW x, <<n - 1, x>> \in R PROVE <<n, fs[n][x]>> \in R
  <2>0. n \in Nat /\ n \in 1 .. Len(items) /\ n \in DOMAIN items /\ n - 1 <= Len(items)
        /\ n - 1 \in 0 .. Len(items) /\ n \in 0 .. Len(items)
    BY <1>0, <1>3
  <2>1. /\ x \in JsonTrees /\ IsObj(x) /\ Clear(x)
        /\ x = EmptyObj \/ Weight[x] <= Partial(items, n - 1)
    BY <1>6, <2>0
  <2> DEFINE z == items[n]
             r == Merge[DeepMerge(x, z)]
  <2>2. /\ Partial(items, n) = Partial(items, n - 1) + Weight[z]
        /\ Partial(items, n - 1) \in Nat /\ Weight[z] \in Nat
        /\ Partial(items, n) <= Total(items) /\ Partial(items, n) \in Nat /\ Total(items) \in Nat
    BY <1>0, <2>0, PartialSums, SumsGrow
  <2>3. z \in JsonTrees /\ Weight[x] \in Nat
    BY <1>0, <2>0, <2>1, TreeShape
  <2>4. fs[n][x] = IF IsObj(z) THEN r ELSE x
    BY <1>4, <2>0, <2>1
  <2> HIDE DEF z, r
  <2>5. CASE IsObj(z)
    <3>1. Weight[z] # 0
      BY <2>3, <2>5, TreeShape
    <3>2. Weight[x] + Weight[z] <= MaxWeight
      <4>1. CASE x = EmptyObj
        BY <1>0, <1>1, <2>2, <2>3, <4>1
      <4>2. CASE Weight[x] <= Partial(items, n - 1)
        BY <1>0, <2>2, <2>3, <4>2
      <4> QED
        BY <2>1, <4>1, <4>2
    <3>3. r \in JsonTrees /\ Weight[r] < Weight[x] + Weight[z] /\ IsObj(r)
      BY <2>1, <2>3, <2>5, <3>2, DeepIs DEF MergedUnder, IsContainer, r
    <3>4. Clear(r)
      BY <2>1, <2>3, <2>5, <3>2, ObjectClears DEF r
    <3>5. Weight[r] <= Partial(items, n)
      <4>1. Weight[r] \in Nat
        BY <3>3, TreeShape
      <4>2. CASE x = EmptyObj
        BY <1>1, <2>2, <2>3, <3>3, <4>1, <4>2
      <4>3. CASE Weight[x] <= Partial(items, n - 1)
        BY <2>2, <2>3, <3>3, <4>1, <4>3
      <4> QED
        BY <2>1, <4>2, <4>3
    <3> QED
      BY <2>0, <2>4, <2>5, <3>3, <3>4, <3>5
  <2>6. CASE ~IsObj(z)
    <3>1. x = EmptyObj \/ Weight[x] <= Partial(items, n)
      BY <2>1, <2>2, <2>3
    <3> QED
      BY <2>0, <2>1, <2>4, <2>6, <3>1
  <2> QED
    BY <2>5, <2>6
<1>7. <<Len(fs), Outcome(fs, EmptyObj)>> \in R
  <2>1. Len(fs) \in Nat
    BY <1>0, <1>3
  <2> HIDE DEF R
  <2> QED
    BY <1>5, <1>6, <2>1, OutcomeInvariant
<1> QED
  BY <1>2, <1>7 DEF items

\* A clear object is clear when what is in it has been merged.
LEMMA ProcessClear ==
    ASSUME NEW o \in JsonTrees, IsObj(o), Clear(o)
    PROVE  Clear(Merge[Process(o)])
<1> DEFINE r == Merge[Process(o)]
<1>1. r = Obj(o.keys, [i \in DOMAIN o.items |-> Merge[Process(o.items[i])]])
  BY ProcessIs DEF Processed, IsArr, IsObj
<1>2. /\ r.keys = o.keys
      /\ \A i \in DOMAIN o.items : r.items[i] = Merge[Process(o.items[i])]
  BY <1>1 DEF Obj
<1>3. /\ DOMAIN o.keys = DOMAIN o.items
      /\ \A i \in DOMAIN o.items : o.items[i] \in JsonTrees
  BY TreeShape, TreeKeys DEF IsContainer
<1>4. \A i \in DOMAIN o.items : IsContainer(o.items[i]) => IsContainer(Merge[Process(o.items[i])])
  BY <1>3, ProcessIs DEF ProcessedUnder, IsContainer
<1> HIDE DEF r
<1>5. Clear(r)
  BY <1>2, <1>3, <1>4 DEF Clear
<1> QED
  BY <1>5 DEF r

\* What merging an array gives: the array, or one element that stands for all.
LEMMA ItemsCases ==
    ASSUME NEW a \in ArrayTrees
    PROVE  /\ a \in JsonTrees /\ IsArr(a)
           /\ \/ (a.items = <<>> \/ ~IsContainer(a.items[1])) /\ Merge[MergeArrayItems(a)] = a
              \/ /\ a.items # <<>> /\ IsObj(a.items[1])
                 /\ Merge[MergeArrayItems(a)] = Arr(<<Merge[Process(SuperObject(Merge, a.items))]>>)
                 /\ SuperObject(Merge, a.items) \in JsonTrees /\ IsObj(SuperObject(Merge, a.items))
                 /\ Weight[SuperObject(Merge, a.items)] < Weight[a]
                 /\ Clear(SuperObject(Merge, a.items))
              \/ /\ a.items # <<>> /\ IsArr(a.items[1])
                 /\ Merge[MergeArrayItems(a)] = Arr(<<Merge[MergeArrayItems(Arr(Flat(a.items)))]>>)
                 /\ Arr(Flat(a.items)) \in ArrayTrees /\ Weight[Arr(Flat(a.items))] < Weight[a]
<1>0. /\ a \in JsonTrees /\ IsArr(a) /\ MaxWeight \in Nat
      /\ Weight[a] \in Nat /\ Weight[a] <= MaxWeight /\ Weight[a] = 1 + Total(a.items)
      /\ a.items \in Seq(JsonTrees) /\ DOMAIN a.items = 1 .. Len(a.items) /\ Len(a.items) \in Nat
  <2>1. a \in JsonTrees /\ IsArr(a)
    BY DEF ArrayTrees
  <2> QED
    BY <2>1, TreeShape, MergingAssumption
<1>1. Merge[MergeArrayItems(a)] = MergedItems(Merge, a)
  BY ItemsAre
<1>2. CASE a.items = <<>> \/ ~IsContainer(a.items[1])
  BY <1>0, <1>1, <1>2 DEF MergedItems, IsContainer
<1>3. CASE a.items # <<>> /\ IsObj(a.items[1])
  <2>1. MergedItems(Merge, a) = Arr(<<Merge[Process(SuperObject(Merge, a.items))]>>)
    BY <1>3 DEF MergedItems, IsContainer, IsArr, IsObj, Replaced
  <2>2. /\ SuperObject(Merge, a.items) \in JsonTrees /\ IsObj(SuperObject(Merge, a.items))
        /\ Weight[SuperObject(Merge, a.items)] < Weight[a]
    BY <1>3, MergeIsKnown, SuperStep
  <2>3. Clear(SuperObject(Merge, a.items))
    BY <1>3, SuperClear
  <2> QED
    BY <1>0, <1>1, <1>3, <2>1, <2>2, <2>3
<1>4. CASE a.items # <<>> /\ IsArr(a.items[1])
  <2>1. MergedItems(Merge, a) = Arr(<<Merge[MergeArrayItems(Arr(Flat(a.items)))]>>)
    BY <1>4 DEF MergedItems, IsContainer, IsArr, IsObj
  <2>2. 1 \in DOMAIN a.items
    BY <1>0, <1>4, EmptySeq
  <2>3. Flat(a.items) \in Seq(JsonTrees) /\ Total(Flat(a.items)) \in Nat /\ Total(Flat(a.items)) < Total(a.items)
    BY <1>0, <1>4, <2>2, FlatWeight
  <2>4. Total(a.items) \in Nat
    BY <1>0, TreesWithin, SumsGrow
  <2>5. Total(Flat(a.items)) < MaxWeight
    BY <1>0, <2>3, <2>4
  <2>6. Arr(Flat(a.items)) \in JsonTrees /\ Weight[Arr(Flat(a.items))] = 1 + Total(Flat(a.items))
    BY <2>3, <2>5, ArrayMade
  <2>7. IsArr(Arr(Flat(a.items)))
    BY DEF Arr, IsArr
  <2>8. Weight[Arr(Flat(a.items))] < Weight[a]
    BY <1>0, <2>3, <2>4, <2>6
  <2> QED
    BY <1>0, <1>1, <1>4, <2>1, <2>6, <2>7, <2>8 DEF ArrayTrees
<1> QED
  BY <1>2, <1>3, <1>4 DEF IsContainer

\* The results of the calls that are merged already.
Settled(call) ==
    /\ call.op = "mergeArrayItems" => Merge[MergeArrayItems(Merge[call])] = Merge[call]
    /\ call.op = "process" => Merge[Process(Merge[call])] = Merge[call]

\* An array that is merged is merged for good, if what is in it is.
LEMMA ItemsSettle ==
    ASSUME NEW a \in ArrayTrees,
           \A o \in JsonTrees : Weight[o] < Weight[a] => Merge[Process(Merge[Process(o)])] = Merge[Process(o)],
           \A b \in ArrayTrees : Weight[b] < Weight[a] =>
              Merge[MergeArrayItems(Merge[MergeArrayItems(b)])] = Merge[MergeArrayItems(b)]
    PROVE  Merge[MergeArrayItems(Merge[MergeArrayItems(a)])] = Merge[MergeArrayItems(a)]
<1>0. a \in JsonTrees /\ Weight[a] \in Nat /\ Weight[a] <= MaxWeight /\ MaxWeight \in Nat
  BY TreeShape, MergingAssumption DEF ArrayTrees
<1>1. CASE (a.items = <<>> \/ ~IsContainer(a.items[1])) /\ Merge[MergeArrayItems(a)] = a
  BY <1>1
<1>2. ASSUME NEW o \in JsonTrees, IsObj(o), Clear(o), Weight[o] < Weight[a],
             Merge[MergeArrayItems(a)] = Arr(<<Merge[Process(o)]>>)
      PROVE  Merge[MergeArrayItems(Merge[MergeArrayItems(a)])] = Merge[MergeArrayItems(a)]
  <2> DEFINE r == Merge[Process(o)]
             w == Arr(<<r>>)
  <2>1. r \in JsonTrees /\ IsObj(r) /\ Weight[r] <= Weight[o]
    BY <1>2, ProcessIs DEF ProcessedUnder
  <2>2. Merge[Process(r)] = r /\ Clear(r)
    BY <1>2, ProcessClear
  <2> HIDE DEF r
  <2>3. Weight[r] \in Nat /\ Weight[o] \in Nat
    BY <2>1, TreeShape
  <2>4. Weight[r] < MaxWeight
    BY <1>0, <1>2, <2>1, <2>3
  <2>5. w \in ArrayTrees /\ w.items = <<r>>
    BY <2>1, <2>4, Wrapped DEF ArrayTrees
  <2>6. SuperObject(Merge, <<r>>) = r
    BY <1>0, <2>1, <2>2, <2>3, <2>4, SuperOfOne
  <2> HIDE DEF w
  <2>7. w.items # <<>> /\ w.items[1] = r
    BY <2>5
  <2>8. Merge[MergeArrayItems(w)] = Arr(<<Merge[Process(SuperObject(Merge, w.items))]>>)
    BY <2>1, <2>5, <2>7, ItemsCases DEF IsContainer, IsArr, IsObj
  <2>9. Merge[MergeArrayItems(w)] = w
    BY <2>2, <2>5, <2>6, <2>8 DEF w
  <2> QED
    BY <1>2, <2>9 DEF w, r
<1>3. ASSUME NEW b \in ArrayTrees, Weight[b] < Weight[a],
             Merge[MergeArrayItems(a)] = Arr(<<Merge[MergeArrayItems(b)]>>)
      PROVE  Merge[MergeArrayItems(Merge[MergeArrayItems(a)])] = Merge[MergeArrayItems(a)]
  <2> DEFINE y == Merge[MergeArrayItems(b)]
             w == Arr(<<y>>)
  <2>1. y \in JsonTrees /\ IsArr(y) /\ Weight[y] <= Weight[b]
    BY ItemsAre DEF ArraysUnder
  <2>2. Merge[MergeArrayItems(y)] = y
    BY <1>3
  <2> HIDE DEF y
  <2>3. Weight[y] \in Nat /\ Weight[b] \in Nat
    BY <2>1, TreeShape DEF ArrayTrees
  <2>4. Weight[y] < MaxWeight
    BY <1>0, <1>3, <2>1, <2>3
  <2>5. w \in ArrayTrees /\ w.items = <<y>>
    BY <2>1, <2>4, Wrapped DEF ArrayTrees
  <2>6. Arr(Flat(<<y>>)) = y
    BY <2>1, FlatOne, TreeShape
  <2> HIDE DEF w
  <2>7. w.items # <<>> /\ w.items[1] = y
    BY <2>5
  <2>8. Merge[MergeArrayItems(w)] = Arr(<<Merge[MergeArrayItems(Arr(Flat(w.items)))]>>)
    BY <2>1, <2>5, <2>7, ItemsCases DEF IsContainer, IsArr, IsObj
  <2>9. Merge[MergeArrayItems(w)] = w
    BY <2>2, <2>5, <2>6, <2>8 DEF w
  <2> QED
    BY <1>3, <2>9 DEF w, y
<1> QED
  BY <1>1, <1>2, <1>3, ItemsCases

\* So is a value.
LEMMA ProcessSettles ==
    ASSUME NEW v \in JsonTrees,
           IsArr(v) => Merge[MergeArrayItems(Merge[MergeArrayItems(v)])] = Merge[MergeArrayItems(v)],
           \A o \in JsonTrees : Weight[o] < Weight[v] => Merge[Process(Merge[Process(o)])] = Merge[Process(o)]
    PROVE  Merge[Process(Merge[Process(v)])] = Merge[Process(v)]
<1> DEFINE r == Merge[Process(v)]
<1>0. r = Processed(Merge, v) /\ r \in JsonTrees /\ (IsArr(v) => IsArr(r)) /\ (IsObj(v) => IsObj(r))
  BY ProcessIs DEF ProcessedUnder
<1> HIDE DEF r
<1>1. Merge[Process(r)] = Processed(Merge, r)
  BY <1>0, ProcessIs
<1>2. CASE IsArr(v)
  <2>1. r = Merge[MergeArrayItems(v)] /\ IsArr(r)
    BY <1>0, <1>2 DEF Processed, IsArr, IsObj
  <2>2. Processed(Merge, r) = Merge[MergeArrayItems(r)]
    BY <2>1 DEF Processed, IsArr, IsObj
  <2> QED
    BY <1>1, <1>2, <2>1, <2>2 DEF r
<1>3. CASE IsObj(v)
  <2>1. r = Obj(v.keys, [i \in DOMAIN v.items |-> Merge[Process(v.items[i])]]) /\ IsObj(r)
    BY <1>0, <1>3 DEF Processed, IsArr, IsObj
  <2>2. /\ r.keys = v.keys /\ DOMAIN r.items = DOMAIN v.items
        /\ \A i \in DOMAIN v.items : r.items[i] = Merge[Process(v.items[i])]
    BY <2>1 DEF Obj
  <2>3. Processed(Merge, r) = Obj(r.keys, [i \in DOMAIN r.items |-> Merge[Process(r.items[i])]])
    BY <2>1 DEF Processed, IsArr, IsObj
  <2>4. \A i \in DOMAIN v.items : v.items[i] \in JsonTrees /\ Weight[v.items[i]] < Weight[v]
    BY <1>3, TreeShape
  <2>5. \A i \in DOMAIN v.items : Merge[Process(r.items[i])] = Merge[Process(v.items[i])]
    BY <2>2, <2>4
  <2>6. [i \in DOMAIN r.items |-> Merge[Process(r.items[i])]] = [i \in DOMAIN v.items |-> Merge[Process(v.items[i])]]
    BY <2>2, <2>5
  <2> QED
    BY <1>1, <2>1, <2>2, <2>3, <2>6 DEF r
<1>4. CASE ~IsArr(v) /\ ~IsObj(v)
  <2>1. r = v
    BY <1>0, <1>4 DEF Processed
  <2> QED
    BY <2>1 DEF r
<1> QED
  BY <1>2, <1>3, <1>4

\* By induction on the rank, whatever is merged is merged for good.
LEMMA EverythingSettles == \A v \in JsonTrees : Merge[Process(Merge[Process(v)])] = Merge[Process(v)]
<1> DEFINE S == {call \in Calls : Settled(call)}
<1>1. ASSUME NEW call \in Calls, \A c \in Calls : Rank[c] < Rank[call] => c \in S
      PROVE  call \in S
  <2>1. ASSUME NEW a \in ArrayTrees, 2 * Weight[a] + 1 < Rank[call]
        PROVE  Merge[MergeArrayItems(Merge[MergeArrayItems(a)])] = Merge[MergeArrayItems(a)]
    <3>1. MergeArrayItems(a) \in S
      BY <1>1, <2>1, CallForms
    <3> QED
      BY <3>1 DEF Settled, MergeArrayItems
  <2>2. ASSUME NEW v \in JsonTrees, 2 * Weight[v] + 2 < Rank[call]
        PROVE  Merge[Process(Merge[Process(v)])] = Merge[Process(v)]
    <3>1. Process(v) \in S
      BY <1>1, <2>2, CallForms
    <3> QED
      BY <3>1 DEF Settled, Process
  <2>3. ASSUME NEW a \in ArrayTrees, call = MergeArrayItems(a) PROVE Settled(call)
    <3>1. Rank[call] = 2 * Weight[a] + 1 /\ Weight[a] \in Nat
      BY <2>3, CallForms, TreeShape DEF ArrayTrees
    <3>2. /\ \A o \in JsonTrees : Weight[o] < Weight[a] => 2 * Weight[o] + 2 < Rank[call]
          /\ \A b \in ArrayTrees : Weight[b] < Weight[a] => 2 * Weight[b] + 1 < Rank[call]
      <4>1. \A o \in JsonTrees : Weight[o] \in Nat
        BY TreeShape
      <4> QED
        BY <3>1, <4>1 DEF ArrayTrees
    <3>3. Merge[MergeArrayItems(Merge[MergeArrayItems(a)])] = Merge[MergeArrayItems(a)]
      BY <2>1, <2>2, <3>2, ItemsSettle
    <3> QED
      BY <2>3, <3>3 DEF Settled, MergeArrayItems
  <2>4. ASSUME NEW v \in JsonTrees, call = Process(v) PROVE Settled(call)
    <3>1. Rank[call] = 2 * Weight[v] + 2 /\ Weight[v] \in Nat
      BY <2>4, CallForms, TreeShape
    <3>2. /\ \A o \in JsonTrees : Weight[o] < Weight[v] => 2 * Weight[o] + 2 < Rank[call]
          /\ 2 * Weight[v] + 1 < Rank[call]
      <4>1. \A o \in JsonTrees : Weight[o] \in Nat
        BY TreeShape
      <4> QED
        BY <3>1, <4>1
    <3>3. Merge[Process(Merge[Process(v)])] = Merge[Process(v)]
      BY <2>1, <2>2, <3>2, ProcessSettles DEF ArrayTrees
    <3> QED
      BY <2>4, <3>3 DEF Settled, Process
  <2>5. ASSUME NEW t \in JsonTrees, NEW s \in JsonTrees, call = DeepMerge(t, s) PROVE Settled(call)
    BY <2>5 DEF Settled, DeepMerge
  <2> QED
    BY <2>3, <2>4, <2>5, CallForms
<1>2. \A call \in Calls : call \in S
  <2> HIDE DEF S
  <2> QED
    BY <1>1, CallInduction
<1> SUFFICES ASSUME NEW v \in JsonTrees PROVE Merge[Process(Merge[Process(v)])] = Merge[Process(v)]
  OBVIOUS
<1>3. Process(v) \in S
  BY <1>2, CallForms
<1> QED
  BY <1>3 DEF Settled, Process

----------------------------------------------------------------------------
(* The marks of a document                                                 *)

Kinds == {"array", "object", "blank", "concrete"}

\* What a document may be marked with.
Marked == Places \X Kinds

\* The way from a container to its i-th value.
Way(v, i) == IF IsObj(v) THEN Into(v.keys[i]) ELSE Element

\* The marks of v, with those of what is in it taken from m.
MarksAt(v, m, firstOnly, path) ==
    {<<path, Mark(v)>>} \cup
    CASE IsObj(v) -> UNION {m[v.items[i]][firstOnly][Append(path, Into(v.keys[i]))]
                               : i \in DOMAIN v.items}
      [] IsArr(v) -> UNION {m[v.items[i]][firstOnly][Append(path, Element)]
                               : i \in {j \in DOMAIN v.items : firstOnly => j = 1}}
      [] OTHER -> {}

\* The same, by membership; the values of a container that are looked at.
Looked(v, firstOnly) == {i \in DOMAIN v.items : IsArr(v) /\ firstOnly => i = 1}

\* The marks one level down.
LEMMA MarksIn ==
    ASSUME NEW v \in JsonTrees, NEW m, NEW firstOnly \in BOOLEAN, NEW path \in Places, NEW f
    PROVE  f \in MarksAt(v, m, firstOnly, path) <=>
              \/ f = <<path, Mark(v)>>
              \/ IsContainer(v) /\ \E i \in Looked(v, firstOnly) : f \in m[v.items[i]][firstOnly][Append(path, Way(v, i))]
<1>1. CASE IsObj(v)
  <2>1. ~IsArr(v) /\ IsContainer(v) /\ \A i : Way(v, i) = Into(v.keys[i])
    BY <1>1 DEF IsArr, IsObj, IsContainer, Way
  <2>2. Looked(v, firstOnly) = DOMAIN v.items
    BY <2>1 DEF Looked
  <2>3. MarksAt(v, m, firstOnly, path) = {<<path, Mark(v)>>} \cup
           UNION {m[v.items[i]][firstOnly][Append(path, Into(v.keys[i]))] : i \in DOMAIN v.items}
    BY <1>1, <2>1 DEF MarksAt
  <2> QED
    BY <2>1, <2>2, <2>3
<1>2. CASE IsArr(v)
  <2>1. ~IsObj(v) /\ IsContainer(v) /\ \A i : Way(v, i) = Element
    BY <1>2 DEF IsArr, IsObj, IsContainer, Way
  <2>2. Looked(v, firstOnly) = {j \in DOMAIN v.items : firstOnly => j = 1}
    BY <1>2 DEF Looked
  <2>3. MarksAt(v, m, firstOnly, path) = {<<path, Mark(v)>>} \cup
           UNION {m[v.items[i]][firstOnly][Append(path, Element)] : i \in {j \in DOMAIN v.items : firstOnly => j = 1}}
    BY <1>2, <2>1 DEF MarksAt
  <2> QED
    BY <2>1, <2>2, <2>3
<1>3. CASE ~IsArr(v) /\ ~IsObj(v)
  <2>1. MarksAt(v, m, firstOnly, path) = {<<path, Mark(v)>>}
    BY <1>3 DEF MarksAt
  <2> QED
    BY <1>3, <2>1 DEF IsContainer
<1> QED
  BY <1>1, <1>2, <1>3

\* From one place of a document to the next.
LEMMA WaysInto ==
    ASSUME NEW v \in JsonTrees, IsContainer(v), NEW i \in DOMAIN v.items, NEW path \in Places
    PROVE  Append(path, Way(v, i)) \in Places
<1>1. Way(v, i) \in {Into(k) : k \in FieldNames} \cup {Element}
  <2>1. CASE IsObj(v)
    <3>1. v.keys \in Seq(FieldNames) /\ i \in DOMAIN v.keys
      BY <2>1, TreeShape
    <3>2. v.keys[i] \in FieldNames
      BY <3>1
    <3> QED
      BY <2>1, <3>2 DEF Way
  <2>2. CASE ~IsObj(v)
    BY <2>2 DEF Way
  <2> QED
    BY <2>1, <2>2
<1> DEFINE T == {Into(k) : k \in FieldNames} \cup {Element}
<1>2. Places = Seq(T)
  BY DEF Places
<1> HIDE DEF T
<1>3. Way(v, i) \in T
  BY <1>1 DEF T
<1> QED
  BY <1>2, <1>3

\* What marks tell.
LEMMA MarkKinds ==
    \A v : /\ Mark(v) \in Kinds
           /\ Mark(v) = "array" <=> IsArr(v)
           /\ Mark(v) = "object" <=> IsObj(v)
           /\ Mark(v) = "blank" <=> ~IsContainer(v) /\ Blank(v)
  BY DEF Mark, Kinds, IsContainer, IsArr, IsObj

\* The marks of a document are made of those of what is in it.
LEMMA MarksRecur ==
    /\ \A v \in JsonTrees, firstOnly \in BOOLEAN, path \in Places :
          Marks[v][firstOnly][path] = MarksAt(v, Marks, firstOnly, path)
    /\ \A v \in JsonTrees, firstOnly \in BOOLEAN, path \in Places :
          Marks[v][firstOnly][path] \subseteq Marked
<1> DEFINE V == [BOOLEAN -> [Places -> SUBSET Marked]]
           Of(v, m) == [firstOnly \in BOOLEAN |-> [path \in Places |-> MarksAt(v, m, firstOnly, path)]]
           step == [v \in JsonTrees |-> [m \in [JsonTrees -> V] |-> Of(v, m)]]
           rank == [v \in JsonTrees |-> Weight[v]]
<1>1. ASSUME NEW v \in JsonTrees, NEW m, \A u \in JsonTrees : rank[u] < rank[v] => m[u] \in V
      PROVE  Of(v, m) \in V
  <2>1. ASSUME NEW firstOnly \in BOOLEAN, NEW path \in Places
        PROVE  MarksAt(v, m, firstOnly, path) \in SUBSET Marked
    <3>1. <<path, Mark(v)>> \in Marked
      BY MarkKinds DEF Marked
    <3>2. ASSUME IsContainer(v), NEW i \in DOMAIN v.items
          PROVE  m[v.items[i]][firstOnly][Append(path, Way(v, i))] \subseteq Marked
      <4>1. Append(path, Way(v, i)) \in Places
        BY <3>2, WaysInto
      <4>2. v.items[i] \in JsonTrees /\ Weight[v.items[i]] < Weight[v]
        BY <3>2, TreeShape
      <4>3. m[v.items[i]] \in V
        BY <1>1, <4>2
      <4> QED
        BY <4>1, <4>3
    <3>3. Looked(v, firstOnly) \subseteq DOMAIN v.items
      BY DEF Looked
    <3> SUFFICES ASSUME NEW f \in MarksAt(v, m, firstOnly, path) PROVE f \in Marked
      OBVIOUS
    <3> QED
      BY <3>1, <3>2, <3>3, MarksIn
  <2> QED
    BY <2>1
<1>2. ASSUME NEW v \in JsonTrees, NEW g, NEW h, \A u \in JsonTrees : rank[u] < rank[v] => g[u] = h[u]
      PROVE  Of(v, g) = Of(v, h)
  <2>1. ASSUME NEW firstOnly \in BOOLEAN, NEW path \in Places
        PROVE  MarksAt(v, g, firstOnly, path) = MarksAt(v, h, firstOnly, path)
    <3>1. ASSUME IsContainer(v), NEW i \in DOMAIN v.items
          PROVE  g[v.items[i]] = h[v.items[i]]
      <4>1. v.items[i] \in JsonTrees /\ Weight[v.items[i]] < Weight[v]
        BY <3>1, TreeShape
      <4> QED
        BY <1>2, <4>1
    <3>2. Looked(v, firstOnly) \subseteq DOMAIN v.items
      BY DEF Looked
    <3>3. \A f : f \in MarksAt(v, g, firstOnly, path) <=> f \in MarksAt(v, h, firstOnly, path)
      <4> SUFFICES ASSUME NEW f PROVE f \in MarksAt(v, g, firstOnly, path) <=> f \in MarksAt(v, h, firstOnly, path)
        OBVIOUS
      <4>1. IsContainer(v) => \A i \in Looked(v, firstOnly) :
               g[v.items[i]][firstOnly][Append(path, Way(v, i))] = h[v.items[i]][firstOnly][Append(path, Way(v, i))]
        BY <3>1, <3>2
      <4>2. f \in MarksAt(v, g, firstOnly, path) <=>
              \/ f = <<path, Mark(v)>>
              \/ IsContainer(v) /\ \E i \in Looked(v, firstOnly) : f \in g[v.items[i]][firstOnly][Append(path, Way(v, i))]
        BY MarksIn
      <4>3. f \in MarksAt(v, h, firstOnly, path) <=>
              \/ f = <<path, Mark(v)>>
              \/ IsContainer(v) /\ \E i \in Looked(v, firstOnly) : f \in h[v.items[i]][firstOnly][Append(path, Way(v, i))]
        BY MarksIn
      <4> QED
        BY <4>1, <4>2, <4>3
    <3> QED
      BY <3>3
  <2> QED
    BY <2>1
<1>3. rank \in [JsonTrees -> Nat]
  BY TreeShape
<1> HIDE DEF Of, V, rank
<1>4. V # {}
  <2>1. [firstOnly \in BOOLEAN |-> [path \in Places |-> {}]] \in V
    BY DEF V
  <2> QED
    BY <2>1
<1>5. Determined(JsonTrees, V, rank, step)
  <2>1. \A v \in JsonTrees : \A m \in [JsonTrees -> V] : step[v][m] = Of(v, m)
    OBVIOUS
  <2>2. step \in [JsonTrees -> [[JsonTrees -> V] -> V]]
    BY <1>1
  <2> HIDE DEF step
  <2>3. ASSUME NEW v \in JsonTrees, NEW g \in [JsonTrees -> V], NEW h \in [JsonTrees -> V],
               \A u \in JsonTrees : rank[u] < rank[v] => g[u] = h[u]
        PROVE  step[v][g] = step[v][h]
    <3>1. Of(v, g) = Of(v, h)
      BY <1>2, <2>3
    <3> QED
      BY <2>1, <3>1
  <2> QED
    BY <1>3, <1>4, <2>2, <2>3 DEF Determined
<1>6. \E m \in [JsonTrees -> V] : \A v \in JsonTrees : m[v] = step[v][m]
  <2> HIDE DEF step
  <2> QED
    BY <1>5, RankedRecursion
<1>7. PICK m \in [JsonTrees -> V] : \A v \in JsonTrees : m[v] = step[v][m]
  BY <1>6
<1>8. m = [v \in JsonTrees |-> Of(v, m)]
  BY <1>7
<1>9. Marks = [v \in JsonTrees |-> Of(v, Marks)]
  BY <1>8 DEF Marks, Of, MarksAt
<1>10. \A v \in JsonTrees : Marks[v] = Of(v, Marks)
  BY <1>9
<1> DEFINE S == {v \in JsonTrees : Marks[v] \in V}
<1>11. \A v \in JsonTrees : v \in S
  <2>1. ASSUME NEW v \in JsonTrees, \A u \in JsonTrees : rank[u] < rank[v] => u \in S
        PROVE  v \in S
    BY <1>1, <1>10, <2>1
  <2>2. \A v \in JsonTrees : rank[v] \in Nat
    BY <1>3
  <2> HIDE DEF S
  <2> QED
    BY <2>1, <2>2, RankInduction
<1>12. ASSUME NEW v \in JsonTrees, NEW firstOnly \in BOOLEAN, NEW path \in Places
       PROVE  Marks[v][firstOnly][path] = MarksAt(v, Marks, firstOnly, path)
  <2>1. Marks[v] = [b \in BOOLEAN |-> [q \in Places |-> MarksAt(v, Marks, b, q)]]
    BY <1>10 DEF Of
  <2> QED
    BY <2>1
<1>13. \A v \in JsonTrees, firstOnly \in BOOLEAN, path \in Places :
          Marks[v][firstOnly][path] \subseteq Marked
  BY <1>11 DEF V
<1> QED
  BY <1>12, <1>13

\* All marks, and those of first elements.
AllMarks(v, path) == Marks[v][FALSE][path]
FirstMarks(v, path) == Marks[v][TRUE][path]

\* The marks of a value are its own and those of what is in it.
LEMMA MarksAre ==
    ASSUME NEW v \in JsonTrees, NEW path \in Places
    PROVE  /\ AllMarks(v, path) \subseteq Marked /\ FirstMarks(v, path) \subseteq Marked
           /\ <<path, Mark(v)>> \in AllMarks(v, path) /\ <<path, Mark(v)>> \in FirstMarks(v, path)
           /\ \A f : f \in AllMarks(v, path) <=>
                 \/ f = <<path, Mark(v)>>
                 \/ IsContainer(v) /\ \E i \in DOMAIN v.items : f \in AllMarks(v.items[i], Append(path, Way(v, i)))
           /\ \A f : f \in FirstMarks(v, path) <=>
                 \/ f = <<path, Mark(v)>>
                 \/ IsContainer(v) /\ \E i \in DOMAIN v.items :
                       (IsArr(v) => i = 1) /\ f \in FirstMarks(v.items[i], Append(path, Way(v, i)))
<1>1. \A f : f \in AllMarks(v, path) <=>
         \/ f = <<path, Mark(v)>>
         \/ IsContainer(v) /\ \E i \in DOMAIN v.items : f \in AllMarks(v.items[i], Append(path, Way(v, i)))
  <2>1. AllMarks(v, path) = MarksAt(v, Marks, FALSE, path)
    BY MarksRecur DEF AllMarks
  <2>2. Looked(v, FALSE) = DOMAIN v.items
    BY DEF Looked
  <2> SUFFICES ASSUME NEW f
               PROVE  f \in AllMarks(v, path) <=>
                         \/ f = <<path, Mark(v)>>
                         \/ IsContainer(v) /\ \E i \in DOMAIN v.items : f \in AllMarks(v.items[i], Append(path, Way(v, i)))
    OBVIOUS
  <2>3. f \in MarksAt(v, Marks, FALSE, path) <=>
           \/ f = <<path, Mark(v)>>
           \/ IsContainer(v) /\ \E i \in Looked(v, FALSE) : f \in Marks[v.items[i]][FALSE][Append(path, Way(v, i))]
    BY MarksIn
  <2> QED
    BY <2>1, <2>2, <2>3 DEF AllMarks
<1>2. \A f : f \in FirstMarks(v, path) <=>
         \/ f = <<path, Mark(v)>>
         \/ IsContainer(v) /\ \E i \in DOMAIN v.items :
               (IsArr(v) => i = 1) /\ f \in FirstMarks(v.items[i], Append(path, Way(v, i)))
  <2>1. FirstMarks(v, path) = MarksAt(v, Marks, TRUE, path)
    BY MarksRecur DEF FirstMarks
  <2>2. \A i : i \in Looked(v, TRUE) <=> i \in DOMAIN v.items /\ (IsArr(v) => i = 1)
    BY DEF Looked
  <2> SUFFICES ASSUME NEW f
               PROVE  f \in FirstMarks(v, path) <=>
                         \/ f = <<path, Mark(v)>>
                         \/ IsContainer(v) /\ \E i \in DOMAIN v.items :
                               (IsArr(v) => i = 1) /\ f \in FirstMarks(v.items[i], Append(path, Way(v, i)))
    OBVIOUS
  <2>3. f \in MarksAt(v, Marks, TRUE, path) <=>
           \/ f = <<path, Mark(v)>>
           \/ IsContainer(v) /\ \E i \in Looked(v, TRUE) : f \in Marks[v.items[i]][TRUE][Append(path, Way(v, i))]
    BY MarksIn
  <2> QED
    BY <2>1, <2>2, <2>3 DEF FirstMarks
<1>3. AllMarks(v, path) \subseteq Marked /\ FirstMarks(v, path) \subseteq Marked
  BY MarksRecur DEF AllMarks, FirstMarks
<1> QED
  BY <1>1, <1>2, <1>3

----------------------------------------------------------------------------
(* What is kept                                                            *)

\* J has nothing that I has not, and a mark at each place of a field that I has
\* marks at; if I has one there of something concrete, so has J.
Kept(I, J) ==
    /\ J \subseteq I
    /\ \A f \in I : InField(f[1]) =>
          \E g \in J : g[1] = f[1] /\ (f[2] # "blank" => g[2] # "blank")

\* What is left alone is kept.
LEMMA KeptSelf == \A I : Kept(I, I)
  BY DEF Kept

\* What is kept and kept again is kept.
LEMMA KeptOn ==
    ASSUME NEW I, NEW J, NEW K, Kept(I, J), Kept(J, K)
    PROVE  Kept(I, K)
  BY DEF Kept

\* What is kept in two parts is kept.
LEMMA KeptBoth ==
    ASSUME NEW I, NEW J, NEW K, NEW L, Kept(I, J), Kept(K, L)
    PROVE  Kept(I \cup K, J \cup L)
<1>1. J \cup L \subseteq I \cup K
  BY DEF Kept
<1>2. ASSUME NEW f \in I \cup K, InField(f[1])
      PROVE  \E g \in J \cup L : g[1] = f[1] /\ (f[2] # "blank" => g[2] # "blank")
  <2>1. CASE f \in I
    <3>1. PICK g \in J : g[1] = f[1] /\ (f[2] # "blank" => g[2] # "blank")
      BY <1>2, <2>1 DEF Kept
    <3> QED
      BY <3>1
  <2>2. CASE f \in K
    <3>1. PICK g \in L : g[1] = f[1] /\ (f[2] # "blank" => g[2] # "blank")
      BY <1>2, <2>2 DEF Kept
    <3> QED
      BY <3>1
  <2> QED
    BY <1>2, <2>1, <2>2
<1> QED
  BY <1>1, <1>2 DEF Kept

\* Part of a regular document is regular.
LEMMA RegularPart ==
    ASSUME NEW I, NEW J, J \subseteq I, Regular(I)
    PROVE  Regular(J)
  BY DEF Regular

\* What is taken from either of two values.
LEMMA KeptOne ==
    ASSUME NEW q \in Places, NEW x \in JsonTrees, NEW y \in JsonTrees, ~IsContainer(y),
           ~Blank(y) => Mark(x) # "blank"
    PROVE  Kept(AllMarks(x, q) \cup AllMarks(y, q), AllMarks(x, q))
<1> DEFINE J == AllMarks(x, q)
           K == AllMarks(y, q)
<1>1. \A f \in K : f = <<q, Mark(y)>>
  BY MarksAre
<1>2. <<q, Mark(x)>> \in J
  BY MarksAre
<1>3. Mark(y) # "blank" => Mark(x) # "blank"
  BY MarkKinds
<1> HIDE DEF J, K
<1>4. ASSUME NEW f \in J \cup K
      PROVE  \E g \in J : g[1] = f[1] /\ (f[2] # "blank" => g[2] # "blank")
  <2>1. CASE f \in J
    BY <2>1
  <2>2. CASE f \in K
    <3>1. f[1] = q /\ f[2] = Mark(y)
      BY <1>1, <2>2
    <3> DEFINE g == <<q, Mark(x)>>
    <3>2. g \in J /\ g[1] = q /\ g[2] = Mark(x)
      BY <1>2
    <3> HIDE DEF g
    <3> QED
      BY <1>3, <3>1, <3>2
  <2> QED
    BY <1>4, <2>1, <2>2
<1> QED
  BY <1>4 DEF Kept, J, K

----------------------------------------------------------------------------
(* The places in arrays and objects                                        *)

\* The place of the elements of an array is not that of a field.
LEMMA ElementPlace ==
    ASSUME NEW p \in Places
    PROVE  /\ Append(p, Element) \in Places
           /\ IsElement(Append(p, Element)) /\ ~InField(Append(p, Element))
<1> DEFINE T == {Into(k) : k \in FieldNames} \cup {Element}
<1>1. p \in Seq(T) /\ Element \in T
  BY DEF Places
<1> HIDE DEF T
<1> DEFINE q == Append(p, Element)
<1>2. q \in Seq(T) /\ Len(q) = Len(p) + 1 /\ q[Len(p) + 1] = Element /\ Len(p) \in Nat
  BY <1>1, AppendProperties
<1> HIDE DEF q
<1>3. q # <<>>
  BY <1>2, EmptySeq
<1>4. IsElement(q) /\ ~InField(q)
  BY <1>2, <1>3 DEF IsElement, InField, Last
<1>5. q \in Places
  BY <1>2 DEF Places, T
<1> QED
  BY <1>4, <1>5 DEF q

\* The place of a field.
LEMMA FieldPlace ==
    ASSUME NEW p \in Places, NEW k \in FieldNames
    PROVE  Append(p, Into(k)) \in Places
<1> DEFINE T == {Into(n) : n \in FieldNames} \cup {Element}
<1>1. p \in Seq(T) /\ Into(k) \in T
  BY DEF Places
<1> HIDE DEF T
<1>2. Append(p, Into(k)) \in Seq(T)
  BY <1>1
<1> QED
  BY <1>2 DEF Places, T

\* The marks of the values in a sequence that are all at one place.
ItemMarks(s, q) == UNION {AllMarks(s[i], q) : i \in DOMAIN s}

\* The marks of an array: its own, and those of its elements.
LEMMA ArrayMarks ==
    ASSUME NEW a \in JsonTrees, IsArr(a), NEW p \in Places
    PROVE  AllMarks(a, p) = {<<p, "array">>} \cup ItemMarks(a.items, Append(p, Element))
<1>1. Mark(a) = "array" /\ IsContainer(a) /\ \A i : Way(a, i) = Element
  BY MarkKinds DEF IsContainer, Way, IsArr, IsObj
<1>2. \A f : f \in AllMarks(a, p) <=>
         f = <<p, "array">> \/ \E i \in DOMAIN a.items : f \in AllMarks(a.items[i], Append(p, Element))
  <2>1. \A f : f \in AllMarks(a, p) <=>
           \/ f = <<p, Mark(a)>>
           \/ IsContainer(a) /\ \E i \in DOMAIN a.items : f \in AllMarks(a.items[i], Append(p, Way(a, i)))
    BY MarksAre
  <2> QED
    BY <1>1, <2>1
<1>3. \A f : f \in ItemMarks(a.items, Append(p, Element)) <=>
         \E i \in DOMAIN a.items : f \in AllMarks(a.items[i], Append(p, Element))
  BY DEF ItemMarks
<1> QED
  BY <1>2, <1>3

\* The marks of one element.
LEMMA ItemMarksOfOne == \A x, q : ItemMarks(<<x>>, q) = AllMarks(x, q)
<1> SUFFICES ASSUME NEW x, NEW q PROVE ItemMarks(<<x>>, q) = AllMarks(x, q)
  OBVIOUS
<1>1. DOMAIN <<x>> = {1} /\ <<x>>[1] = x
  OBVIOUS
<1> QED
  BY <1>1 DEF ItemMarks

\* The marks of two sequences of elements, one after the other.
LEMMA ItemMarksOfBoth ==
    ASSUME NEW s \in Seq(JsonTrees), NEW t \in Seq(JsonTrees), NEW q
    PROVE  ItemMarks(s \o t, q) = ItemMarks(s, q) \cup ItemMarks(t, q)
<1> DEFINE u == s \o t
<1>1. /\ Len(s) \in Nat /\ Len(t) \in Nat /\ DOMAIN s = 1 .. Len(s) /\ DOMAIN t = 1 .. Len(t)
      /\ DOMAIN u = 1 .. Len(s) + Len(t)
      /\ \A i \in 1 .. Len(s) : u[i] = s[i]
      /\ \A i \in 1 .. Len(t) : u[Len(s) + i] = t[i]
  BY ConcatProperties
<1> HIDE DEF u
<1>2. ASSUME NEW i \in DOMAIN u
      PROVE  (i \in DOMAIN s /\ u[i] = s[i]) \/ (i - Len(s) \in DOMAIN t /\ u[i] = t[i - Len(s)])
  <2>1. CASE i <= Len(s)
    BY <1>1, <2>1
  <2>2. CASE ~(i <= Len(s))
    <3>1. i - Len(s) \in 1 .. Len(t) /\ Len(s) + (i - Len(s)) = i
      BY <1>1, <2>2
    <3> QED
      BY <1>1, <3>1
  <2> QED
    BY <2>1, <2>2
<1>3. ASSUME NEW f \in ItemMarks(u, q) PROVE f \in ItemMarks(s, q) \cup ItemMarks(t, q)
  <2>1. PICK i \in DOMAIN u : f \in AllMarks(u[i], q)
    BY <1>3 DEF ItemMarks
  <2> QED
    BY <1>2, <2>1 DEF ItemMarks
<1>4. ASSUME NEW f \in ItemMarks(s, q) PROVE f \in ItemMarks(u, q)
  <2>1. PICK i \in DOMAIN s : f \in AllMarks(s[i], q)
    BY <1>4 DEF ItemMarks
  <2>2. i \in DOMAIN u /\ u[i] = s[i]
    BY <1>1
  <2> QED
    BY <2>1, <2>2 DEF ItemMarks
<1>5. ASSUME NEW f \in ItemMarks(t, q) PROVE f \in ItemMarks(u, q)
  <2>1. PICK i \in DOMAIN t : f \in AllMarks(t[i], q)
    BY <1>5 DEF ItemMarks
  <2>2. Len(s) + i \in DOMAIN u /\ u[Len(s) + i] = t[i]
    BY <1>1
  <2> QED
    BY <2>1, <2>2 DEF ItemMarks
<1> QED
  BY <1>3, <1>4, <1>5 DEF u

\* The elements of the arrays in an array, which are two places further, are those
\* of the flat array in it.
LEMMA FlatMarks ==
    ASSUME NEW items \in Seq(JsonTrees), items # <<>>, \A i \in DOMAIN items : IsArr(items[i]),
           NEW q \in Places
    PROVE  ItemMarks(items, q) = {<<q, "array">>} \cup ItemMarks(Flat(items), Append(q, Element))
<1> DEFINE fs == Pieces(items)
           e == Append(q, Element)
           Those(n) == UNION {ItemMarks(items[i].items, e) : i \in DOMAIN items \cap (1 .. n)}
           R == {p \in Nat \X Seq(JsonTrees) : ItemMarks(p[2], e) = Those(p[1])}
<1>0. /\ Len(items) \in Nat /\ DOMAIN items = 1 .. Len(items)
      /\ \A i \in DOMAIN items : items[i] \in JsonTrees /\ items[i].items \in Seq(JsonTrees)
      /\ 1 \in DOMAIN items
  <2>1. Len(items) \in Nat /\ DOMAIN items = 1 .. Len(items) /\ \A i \in DOMAIN items : items[i] \in JsonTrees
    OBVIOUS
  <2>2. \A i \in DOMAIN items : items[i].items \in Seq(JsonTrees)
    BY <2>1, TreeShape
  <2>3. Len(items) # 0
    BY EmptySeq
  <2> QED
    BY <2>1, <2>2, <2>3
<1>1. Flat(items) = Outcome(fs, <<>>)
  BY DEF Flat, Pieces, Piece
<1>2. Len(fs) = Len(items)
  BY <1>0 DEF Pieces
<1>3. \A i \in DOMAIN items : \A out \in Seq(JsonTrees) : fs[i][out] = out \o items[i].items
  BY <1>0 DEF Pieces, Piece
<1> HIDE DEF fs, e
<1>4. <<0, <<>>>> \in R
  <2> DEFINE none == <<>>
  <2>1. none \in Seq(JsonTrees)
    OBVIOUS
  <2>2. ItemMarks(none, e) = {} /\ Those(0) = {}
    BY DEF ItemMarks
  <2> HIDE DEF none, Those
  <2>3. <<0, none>> \in R
    BY <2>1, <2>2
  <2> QED
    BY <2>3 DEF none
<1>5. ASSUME NEW n \in 1 .. Len(fs), NEW out, <<n - 1, out>> \in R PROVE <<n, fs[n][out]>> \in R
  <2> DEFINE next == out \o items[n].items
  <2>1. out \in Seq(JsonTrees) /\ ItemMarks(out, e) = Those(n - 1)
    BY <1>5
  <2>2. n \in DOMAIN items /\ n \in Nat
    BY <1>0, <1>2
  <2>3. next \in Seq(JsonTrees) /\ ItemMarks(next, e) = ItemMarks(out, e) \cup ItemMarks(items[n].items, e)
    BY <1>0, <2>1, <2>2, ItemMarksOfBoth, ConcatProperties
  <2>4. Those(n) = Those(n - 1) \cup ItemMarks(items[n].items, e)
    <3>1. DOMAIN items \cap (1 .. n) = (DOMAIN items \cap (1 .. n - 1)) \cup {n}
      BY <2>2
    <3> QED
      BY <3>1
  <2>5. fs[n][out] = next
    BY <1>3, <2>1, <2>2
  <2> HIDE DEF next, Those
  <2> QED
    BY <2>1, <2>2, <2>3, <2>4, <2>5
<1>6. <<Len(items), Outcome(fs, <<>>)>> \in R
  <2> HIDE DEF R
  <2> QED
    BY <1>0, <1>2, <1>4, <1>5, OutcomeInvariant
<1>7. ItemMarks(Flat(items), e) = UNION {ItemMarks(items[i].items, e) : i \in DOMAIN items}
  <2>1. DOMAIN items \cap (1 .. Len(items)) = DOMAIN items
    BY <1>0
  <2> QED
    BY <1>1, <1>6, <2>1
<1>8. \A i \in DOMAIN items : AllMarks(items[i], q) = {<<q, "array">>} \cup ItemMarks(items[i].items, e)
  BY <1>0, ArrayMarks DEF e
<1>9. \A f : f \in ItemMarks(items, q) <=> \E i \in DOMAIN items : f \in AllMarks(items[i], q)
  BY DEF ItemMarks
<1>10. \A f : f \in ItemMarks(items, q) <=>
          f = <<q, "array">> \/ \E i \in DOMAIN items : f \in ItemMarks(items[i].items, e)
  BY <1>0, <1>8, <1>9
<1> QED
  BY <1>7, <1>10 DEF e

\* In a regular document the elements of an array are all objects, all arrays, or
\* neither.
LEMMA RegularItems ==
    ASSUME NEW s \in Seq(JsonTrees), NEW p \in Places, NEW I, Regular(I),
           ItemMarks(s, Append(p, Element)) \subseteq I
    PROVE  \A i, j \in DOMAIN s : /\ IsObj(s[i]) => IsObj(s[j])
                                  /\ IsArr(s[i]) => IsArr(s[j])
                                  /\ IsContainer(s[i]) => IsContainer(s[j])
<1> SUFFICES ASSUME NEW i \in DOMAIN s, NEW j \in DOMAIN s
             PROVE  /\ IsObj(s[i]) => IsObj(s[j])
                    /\ IsArr(s[i]) => IsArr(s[j])
                    /\ IsContainer(s[i]) => IsContainer(s[j])
  OBVIOUS
<1> DEFINE q == Append(p, Element)
           f == <<q, Mark(s[i])>>
           g == <<q, Mark(s[j])>>
<1>1. q \in Places /\ IsElement(q)
  BY ElementPlace
<1> HIDE DEF q
<1>2. s[i] \in JsonTrees /\ s[j] \in JsonTrees
  OBVIOUS
<1>3. f \in AllMarks(s[i], q) /\ g \in AllMarks(s[j], q)
  BY <1>1, <1>2, MarksAre
<1>4. f \in I /\ g \in I
  BY <1>3 DEF ItemMarks, q
<1>5. f[1] = q /\ g[1] = q /\ f[2] = Mark(s[i]) /\ g[2] = Mark(s[j])
  OBVIOUS
<1> HIDE DEF f, g
<1>6. f[2] # g[2] => {f[2], g[2]} \cap {"array", "object"} = {}
  BY <1>1, <1>4, <1>5 DEF Regular
<1>7. (IsObj(s[i]) => IsObj(s[j])) /\ (IsArr(s[i]) => IsArr(s[j]))
  BY <1>5, <1>6, MarkKinds
<1> QED
  BY <1>7 DEF IsContainer

\* The marks of an object, key by key.
LEMMA ObjectMarks ==
    ASSUME NEW v \in JsonTrees, IsObj(v), NEW p \in Places
    PROVE  \A f : f \in AllMarks(v, p) <=>
              f = <<p, "object">> \/ \E k : Has(v, k) /\ f \in AllMarks(At(v, k), Append(p, Into(k)))
<1>1. /\ Mark(v) = "object" /\ IsContainer(v)
      /\ \A i \in DOMAIN v.items : Way(v, i) = Into(v.keys[i])
  BY MarkKinds DEF IsContainer, Way
<1>2. \A f : f \in AllMarks(v, p) <=>
         f = <<p, "object">> \/ \E i \in DOMAIN v.items : f \in AllMarks(v.items[i], Append(p, Into(v.keys[i])))
  <2>1. \A f : f \in AllMarks(v, p) <=>
           \/ f = <<p, Mark(v)>>
           \/ IsContainer(v) /\ \E i \in DOMAIN v.items : f \in AllMarks(v.items[i], Append(p, Way(v, i)))
    BY MarksAre
  <2> QED
    BY <1>1, <2>1
<1>3. Keys(v) = v.keys /\ DOMAIN v.keys = DOMAIN v.items
  BY <1>1, TreeKeys
<1>4. \A i \in DOMAIN v.items : Has(v, v.keys[i]) /\ At(v, v.keys[i]) = v.items[i]
  BY <1>1, <1>3, TreeKeys DEF Has
<1>5. \A k : Has(v, k) => \E i \in DOMAIN v.items : v.keys[i] = k /\ At(v, k) = v.items[i]
  BY <1>1, <1>3, TreeKeys
<1> QED
  BY <1>2, <1>4, <1>5

----------------------------------------------------------------------------
(* Merging keeps what is in a regular document                             *)

\* What the calls keep.
ItemsKeep(a) == \A p \in Places :
    Regular(AllMarks(a, p)) => Kept(AllMarks(a, p), AllMarks(Merge[MergeArrayItems(a)], p))

DeepKeeps(t, s) == \A p \in Places :
    Regular(AllMarks(t, p) \cup AllMarks(s, p))
    => Kept(AllMarks(t, p) \cup AllMarks(s, p), AllMarks(Merge[DeepMerge(t, s)], p))

ProcessKeeps(v) == \A p \in Places :
    Regular(AllMarks(v, p)) => Kept(AllMarks(v, p), AllMarks(Merge[Process(v)], p))

\* The marks of the value that v has at k, if any.
MarksOf(v, k, q) == IF Has(v, k) THEN AllMarks(At(v, k), q) ELSE {}

\* One field of two objects that are merged.
LEMMA FieldKeeps ==
    ASSUME NEW t \in JsonTrees, IsObj(t), NEW s \in JsonTrees, IsObj(s),
           Weight[t] + Weight[s] <= MaxWeight,
           \A x, y \in JsonTrees : Weight[x] + Weight[y] < Weight[t] + Weight[s] /\ IsContainer(y)
                                   => DeepKeeps(x, y),
           NEW k, Has(t, k) \/ Has(s, k), NEW q \in Places,
           Regular(MarksOf(t, k, q) \cup MarksOf(s, k, q))
    PROVE  Kept(MarksOf(t, k, q) \cup MarksOf(s, k, q), AllMarks(MergedField(Merge, t, s, k), q))
<1> DEFINE x == At(t, k)
           y == At(s, k)
<1>0. /\ IsContainer(t) /\ IsContainer(s)
      /\ Weight[t] \in Nat /\ Weight[s] \in Nat
      /\ Has(t, k) => x \in JsonTrees /\ Weight[x] \in Nat /\ Weight[x] < Weight[t]
      /\ Has(s, k) => y \in JsonTrees /\ Weight[y] \in Nat /\ Weight[y] < Weight[s]
  BY TreeShape, TreeKeys DEF IsContainer
<1>1. /\ Has(t, k) => MarksOf(t, k, q) = AllMarks(x, q)
      /\ ~Has(t, k) => MarksOf(t, k, q) = {}
      /\ Has(s, k) => MarksOf(s, k, q) = AllMarks(y, q)
      /\ ~Has(s, k) => MarksOf(s, k, q) = {}
  BY DEF MarksOf
<1>2. CASE ~Has(s, k)
  <2>1. MergedField(Merge, t, s, k) = x
    BY <1>2 DEF MergedField
  <2>2. MarksOf(t, k, q) \cup MarksOf(s, k, q) = AllMarks(x, q)
    BY <1>1, <1>2
  <2> QED
    BY <2>1, <2>2, KeptSelf
<1>3. CASE Has(s, k) /\ ~Has(t, k)
  <2>1. MergedField(Merge, t, s, k) = y
    BY <1>3 DEF MergedField
  <2>2. MarksOf(t, k, q) \cup MarksOf(s, k, q) = AllMarks(y, q)
    BY <1>1, <1>3
  <2> QED
    BY <2>1, <2>2, KeptSelf
<1>4. CASE Has(s, k) /\ Has(t, k) /\ IsContainer(y)
  <2>1. MergedField(Merge, t, s, k) = Merge[DeepMerge(x, y)]
    BY <1>4 DEF MergedField
  <2>2. x \in JsonTrees /\ y \in JsonTrees /\ Weight[x] + Weight[y] < Weight[t] + Weight[s]
    BY <1>0, <1>4
  <2>3. DeepKeeps(x, y)
    BY <1>4, <2>2
  <2> QED
    BY <1>1, <1>4, <2>1, <2>3 DEF DeepKeeps
<1>5. CASE Has(s, k) /\ Has(t, k) /\ ~IsContainer(y) /\ Updates(t, s, k)
  <2>1. MergedField(Merge, t, s, k) = y
    BY <1>5 DEF MergedField
  <2>2. Blank(x) /\ ~Blank(y) /\ x \in JsonTrees /\ y \in JsonTrees
    BY <1>0, <1>5 DEF Updates
  <2>3. ~IsContainer(x)
    <3>1. Null.kind = "null" /\ Text("").kind = "string"
      BY DEF Null, Text
    <3>2. x.kind \in {"null", "string"}
      BY <2>2, <3>1 DEF Blank
    <3> QED
      BY <3>2 DEF IsContainer, IsArr, IsObj
  <2>4. Kept(AllMarks(y, q) \cup AllMarks(x, q), AllMarks(y, q))
    BY <2>2, <2>3, KeptOne
  <2>5. MarksOf(t, k, q) \cup MarksOf(s, k, q) = AllMarks(y, q) \cup AllMarks(x, q)
    BY <1>1, <1>5
  <2> QED
    BY <2>1, <2>4, <2>5
<1>6. CASE Has(s, k) /\ Has(t, k) /\ ~IsContainer(y) /\ ~Updates(t, s, k)
  <2>1. MergedField(Merge, t, s, k) = x
    BY <1>6 DEF MergedField
  <2>2. x \in JsonTrees /\ y \in JsonTrees /\ (~Blank(y) => ~Blank(x))
    BY <1>0, <1>6 DEF Updates
  <2>3. ~Blank(y) => Mark(x) # "blank"
    BY <2>2, MarkKinds
  <2>4. Kept(AllMarks(x, q) \cup AllMarks(y, q), AllMarks(x, q))
    BY <1>6, <2>2, <2>3, KeptOne
  <2> QED
    BY <1>1, <1>6, <2>1, <2>4
<1> QED
  BY <1>2, <1>3, <1>4, <1>5, <1>6

\* The place of a field of an object is one under an inherited name, if its name is.
LEMMA InheritedPlace ==
    ASSUME NEW p \in Places, NEW k \in FieldNames
    PROVE  OfInherited(Append(p, Into(k))) <=> k \in Inherited
<1> DEFINE T == {Into(n) : n \in FieldNames} \cup {Element}
           q == Append(p, Into(k))
<1>1. p \in Seq(T) /\ Into(k) \in T
  BY DEF Places
<1> HIDE DEF T
<1>2. q \in Seq(T) /\ Len(q) = Len(p) + 1 /\ q[Len(p) + 1] = Into(k) /\ Len(p) \in Nat
  BY <1>1, AppendProperties
<1> HIDE DEF q
<1>3. q # <<>> /\ Last(q) = Into(k)
  BY <1>2, EmptySeq DEF Last
<1>4. Into(k) # Element /\ Head(Into(k)) = k
  BY DEF Into, Element
<1> QED
  BY <1>3, <1>4 DEF OfInherited, InField, IsElement, q

\* In a regular document every object is clear.
LEMMA RegularClear ==
    ASSUME NEW v \in JsonTrees, IsObj(v), NEW p \in Places, Regular(AllMarks(v, p))
    PROVE  Clear(v)
<1> SUFFICES ASSUME NEW i \in DOMAIN v.keys, v.keys[i] \in Inherited PROVE IsContainer(v.items[i])
  BY DEF Clear
<1> DEFINE k == v.keys[i]
           x == At(v, k)
           q == Append(p, Into(k))
           f == <<q, Mark(x)>>
<1>1. IsContainer(v)
  BY DEF IsContainer
<1>2. Keys(v) = v.keys /\ x = v.items[i]
  BY <1>1, TreeKeys
<1>3. Has(v, k)
  BY <1>2 DEF Has
<1>4. k \in FieldNames /\ x \in JsonTrees
  BY <1>1, <1>3, TreeKeys
<1>5. k \in Inherited
  OBVIOUS
<1> HIDE DEF k
<1>6. q \in Places /\ OfInherited(q)
  BY <1>4, <1>5, FieldPlace, InheritedPlace
<1> HIDE DEF x, q
<1>7. f \in AllMarks(x, q)
  BY <1>4, <1>6, MarksAre
<1>8. f \in AllMarks(v, p)
  BY <1>3, <1>7, ObjectMarks DEF x, q
<1>9. f[1] = q /\ f[2] = Mark(x)
  OBVIOUS
<1> HIDE DEF f
<1>10. Mark(x) \in {"array", "object"}
  BY <1>6, <1>8, <1>9 DEF Regular
<1> QED
  BY <1>2, <1>4, <1>10, MarkKinds DEF IsContainer

\* All fields of two objects that are merged.
LEMMA ObjectsKeep ==
    ASSUME NEW t \in JsonTrees, IsObj(t), NEW s \in JsonTrees, IsObj(s),
           Weight[t] + Weight[s] <= MaxWeight,
           \A x, y \in JsonTrees : Weight[x] + Weight[y] < Weight[t] + Weight[s] /\ IsContainer(y)
                                   => DeepKeeps(x, y)
    PROVE  DeepKeeps(t, s)
<1> SUFFICES ASSUME NEW p \in Places, Regular(AllMarks(t, p) \cup AllMarks(s, p))
             PROVE  Kept(AllMarks(t, p) \cup AllMarks(s, p), AllMarks(Merge[DeepMerge(t, s)], p))
  BY DEF DeepKeeps
<1> DEFINE I == AllMarks(t, p) \cup AllMarks(s, p)
           r == MergedObject(Merge, t, s)
           keys == MergedKeys(t, s)
           J == AllMarks(r, p)
           at(k) == Append(p, Into(k))
           of(k) == MergedField(Merge, t, s, k)
<1>0. IsContainer(t) /\ IsContainer(s)
  BY DEF IsContainer
<1>1. Merge[DeepMerge(t, s)] = r
  <2>1. Merge[DeepMerge(t, s)] = DeepMerged(Merge, t, s)
    BY DeepIs
  <2> QED
    BY <2>1 DEF DeepMerged, IsContainer, IsArr, IsObj
<1>2. /\ r \in JsonTrees /\ IsObj(r) /\ r.keys = keys /\ DOMAIN r.items = DOMAIN keys
      /\ \A i \in DOMAIN keys : /\ Has(t, keys[i]) \/ Has(s, keys[i])
                                /\ r.items[i] = of(keys[i])
  BY <1>0, MergeIsKnown, ObjectStep
<1>3. ToSet(keys) = ToSet(Keys(t)) \cup ToSet(Keys(s))
  <2>1. ToSet(keys) = ToSet(Keys(t)) \cup Added(t, s) /\ Keys(s) = s.keys
    BY <1>0, KeysMerged, TreeKeys
  <2>2. \A k \in ToSet(s.keys) : ~Dropped(t, s, k)
    <3>1. Regular(AllMarks(s, p))
      BY RegularPart
    <3>2. Clear(s) /\ ~IsArr(t)
      BY <3>1, RegularClear DEF IsArr, IsObj
    <3> QED
      BY <3>2, ClearStays DEF ToSet
  <2> HIDE DEF keys
  <2> QED
    BY <2>1, <2>2 DEF Added
<1>4. \A k : Has(t, k) \/ Has(s, k) => \E i \in DOMAIN keys : keys[i] = k
  <2>1. \A k : (Has(t, k) <=> k \in ToSet(Keys(t))) /\ (Has(s, k) <=> k \in ToSet(Keys(s)))
    BY <1>0, TreeKeys
  <2> HIDE DEF keys
  <2>2. \A k : Has(t, k) \/ Has(s, k) => k \in ToSet(keys)
    BY <1>3, <2>1
  <2> QED
    BY <2>2 DEF ToSet
<1>5. \A k : Has(t, k) \/ Has(s, k) => k \in FieldNames
  BY <1>0, TreeKeys
<1> HIDE DEF r, keys
<1>6. \A f : f \in J <=> f = <<p, "object">> \/ \E k : (Has(t, k) \/ Has(s, k)) /\ f \in AllMarks(of(k), at(k))
  <2>1. IsContainer(r) /\ Mark(r) = "object" /\ \A i \in DOMAIN r.items : Way(r, i) = Into(keys[i])
    BY <1>2, MarkKinds DEF IsContainer, Way
  <2>2. \A f : f \in J <=> \/ f = <<p, Mark(r)>>
                           \/ IsContainer(r) /\ \E i \in DOMAIN r.items : f \in AllMarks(r.items[i], Append(p, Way(r, i)))
    <3>1. r \in JsonTrees
      BY <1>2
    <3> QED
      BY <3>1, MarksAre
  <2> HIDE DEF J, of
  <2>3. \A f : f \in J <=> f = <<p, "object">> \/ \E i \in DOMAIN keys : f \in AllMarks(of(keys[i]), at(keys[i]))
    BY <1>2, <2>1, <2>2
  <2> HIDE DEF at
  <2> QED
    BY <1>2, <1>4, <2>3
<1>7. \A f : f \in I <=> \/ f = <<p, "object">>
                         \/ \E k : (Has(t, k) \/ Has(s, k)) /\ f \in MarksOf(t, k, at(k)) \cup MarksOf(s, k, at(k))
  <2>1. \A f : f \in AllMarks(t, p) <=> f = <<p, "object">> \/ \E k : Has(t, k) /\ f \in AllMarks(At(t, k), at(k))
    BY ObjectMarks
  <2>2. \A f : f \in AllMarks(s, p) <=> f = <<p, "object">> \/ \E k : Has(s, k) /\ f \in AllMarks(At(s, k), at(k))
    BY ObjectMarks
  <2> HIDE DEF at
  <2> QED
    BY <2>1, <2>2 DEF MarksOf
<1>8. ASSUME NEW k, Has(t, k) \/ Has(s, k)
      PROVE  Kept(MarksOf(t, k, at(k)) \cup MarksOf(s, k, at(k)), AllMarks(of(k), at(k)))
  <2> DEFINE q == at(k)
  <2>1. q \in Places
    BY <1>5, <1>8, FieldPlace
  <2>2. MarksOf(t, k, q) \cup MarksOf(s, k, q) \subseteq I
    BY <1>7, <1>8
  <2>3. Regular(MarksOf(t, k, q) \cup MarksOf(s, k, q))
    BY <2>2, RegularPart
  <2> HIDE DEF q
  <2>4. Kept(MarksOf(t, k, q) \cup MarksOf(s, k, q), AllMarks(MergedField(Merge, t, s, k), q))
    BY <1>8, <2>1, <2>3, FieldKeeps
  <2> QED
    BY <2>4 DEF q
<1> HIDE DEF I, J, at, of
<1>9. ASSUME NEW f \in J PROVE f \in I
  <2>1. CASE f = <<p, "object">>
    BY <1>7, <2>1
  <2>2. ASSUME NEW k, Has(t, k) \/ Has(s, k), f \in AllMarks(of(k), at(k)) PROVE f \in I
    BY <1>7, <1>8, <2>2 DEF Kept
  <2> QED
    BY <1>6, <2>1, <2>2
<1>10. ASSUME NEW f \in I, InField(f[1])
       PROVE  \E g \in J : g[1] = f[1] /\ (f[2] # "blank" => g[2] # "blank")
  <2>1. CASE f = <<p, "object">>
    BY <1>6, <2>1
  <2>2. ASSUME NEW k, Has(t, k) \/ Has(s, k), f \in MarksOf(t, k, at(k)) \cup MarksOf(s, k, at(k))
        PROVE  \E g \in J : g[1] = f[1] /\ (f[2] # "blank" => g[2] # "blank")
    <3>1. PICK g \in AllMarks(of(k), at(k)) : g[1] = f[1] /\ (f[2] # "blank" => g[2] # "blank")
      BY <1>8, <1>10, <2>2 DEF Kept
    <3>2. g \in J
      BY <1>6, <2>2, <3>1
    <3> QED
      BY <3>1, <3>2
  <2> QED
    BY <1>7, <1>10, <2>1, <2>2
<1> QED
  BY <1>1, <1>9, <1>10 DEF Kept, I, J

\* The items of two arrays, merged.
LEMMA ArraysKeep ==
    ASSUME NEW t \in JsonTrees, IsArr(t), NEW s \in JsonTrees, IsArr(s),
           Weight[t] + Weight[s] <= MaxWeight,
           \A a \in ArrayTrees : Weight[a] < Weight[t] + Weight[s] => ItemsKeep(a)
    PROVE  DeepKeeps(t, s)
<1> SUFFICES ASSUME NEW p \in Places, Regular(AllMarks(t, p) \cup AllMarks(s, p))
             PROVE  Kept(AllMarks(t, p) \cup AllMarks(s, p), AllMarks(Merge[DeepMerge(t, s)], p))
  BY DEF DeepKeeps
<1> DEFINE e == Append(p, Element)
<1>0. IsContainer(t) /\ IsContainer(s) /\ t.items \in Seq(JsonTrees) /\ s.items \in Seq(JsonTrees)
  BY TreeShape
<1>1. Merge[DeepMerge(t, s)] = MergedArray(Merge, t, s)
  <2>1. Merge[DeepMerge(t, s)] = DeepMerged(Merge, t, s)
    BY DeepIs
  <2> QED
    BY <1>0, <2>1 DEF DeepMerged, IsArr, IsObj
<1>2. /\ AllMarks(t, p) = {<<p, "array">>} \cup ItemMarks(t.items, e)
      /\ AllMarks(s, p) = {<<p, "array">>} \cup ItemMarks(s.items, e)
  BY ArrayMarks
<1> HIDE DEF e
<1>3. CASE t.items = <<>>
  <2>1. MergedArray(Merge, t, s) = s
    BY <1>3 DEF MergedArray
  <2>2. ItemMarks(t.items, e) = {}
    BY <1>3 DEF ItemMarks
  <2>3. AllMarks(t, p) \cup AllMarks(s, p) = AllMarks(s, p)
    BY <1>2, <2>2
  <2> QED
    BY <1>1, <2>1, <2>3, KeptSelf
<1>4. CASE t.items # <<>> /\ s.items # <<>> /\ TypeOf(s.items[1]) = "object"
  <2> DEFINE both == t.items \o s.items
             a == Arr(both)
  <2>1. MergedArray(Merge, t, s) = Merge[MergeArrayItems(a)]
    BY <1>4 DEF MergedArray
  <2>2. a \in ArrayTrees /\ Weight[a] < Weight[t] + Weight[s]
    BY <1>0, MergeIsKnown, ArrayStep
  <2>3. ItemsKeep(a)
    BY <2>2
  <2>4. a \in JsonTrees /\ IsArr(a) /\ a.items = both
    BY <2>2 DEF ArrayTrees, Arr
  <2>5. AllMarks(a, p) = {<<p, "array">>} \cup ItemMarks(both, e)
    <3> HIDE DEF a, both
    <3> QED
      BY <2>4, ArrayMarks DEF e
  <2>6. ItemMarks(both, e) = ItemMarks(t.items, e) \cup ItemMarks(s.items, e)
    BY <1>0, ItemMarksOfBoth
  <2> HIDE DEF a, both
  <2>7. AllMarks(a, p) = AllMarks(t, p) \cup AllMarks(s, p)
    BY <1>2, <2>5, <2>6
  <2> QED
    BY <1>1, <2>1, <2>3, <2>7 DEF ItemsKeep
<1>5. CASE t.items # <<>> /\ ~(s.items # <<>> /\ TypeOf(s.items[1]) = "object")
  <2>1. MergedArray(Merge, t, s) = t
    BY <1>5 DEF MergedArray
  <2>2. ~\E f \in ItemMarks(s.items, e) : InField(f[1])
    <3>1. CASE s.items = <<>>
      BY <3>1 DEF ItemMarks
    <3>2. CASE s.items # <<>> /\ TypeOf(s.items[1]) # "object"
      <4>1. ~IsContainer(s.items[1]) /\ 1 \in DOMAIN s.items
        BY <1>0, <3>2, EmptySeq DEF TypeOf
      <4>2. \A i \in DOMAIN s.items : ~IsContainer(s.items[i])
        <5> DEFINE items == s.items
                   I == AllMarks(t, p) \cup AllMarks(s, p)
        <5>1. items \in Seq(JsonTrees) /\ ItemMarks(items, Append(p, Element)) \subseteq I /\ Regular(I)
          BY <1>0, <1>2 DEF e
        <5>2. PICK first \in DOMAIN items : ~IsContainer(items[first])
          BY <4>1
        <5> HIDE DEF items, I
        <5>3. \A i, j \in DOMAIN items : IsContainer(items[i]) => IsContainer(items[j])
          BY <5>1, RegularItems
        <5>4. \A i \in DOMAIN items : ~IsContainer(items[i])
          BY <5>2, <5>3
        <5> QED
          BY <5>4 DEF items
      <4>3. e \in Places /\ ~InField(e)
        BY ElementPlace DEF e
      <4>4. ASSUME NEW i \in DOMAIN s.items, NEW f \in AllMarks(s.items[i], e)
            PROVE  f = <<e, Mark(s.items[i])>>
        <5> DEFINE x == s.items[i]
        <5>1. x \in JsonTrees /\ ~IsContainer(x)
          BY <1>0, <4>2
        <5> HIDE DEF x
        <5>2. f \in AllMarks(x, e) => f = <<e, Mark(x)>>
          BY <4>3, <5>1, MarksAre
        <5> QED
          BY <4>4, <5>2 DEF x
      <4>5. \A f \in ItemMarks(s.items, e) : f[1] = e
        BY <4>4 DEF ItemMarks
      <4> QED
        BY <4>3, <4>5
    <3> QED
      BY <1>5, <3>1, <3>2
  <2>3. ASSUME NEW f \in AllMarks(t, p) \cup AllMarks(s, p), InField(f[1])
        PROVE  \E g \in AllMarks(t, p) : g[1] = f[1] /\ (f[2] # "blank" => g[2] # "blank")
    <3>1. f \in AllMarks(t, p)
      BY <1>2, <2>2, <2>3
    <3> QED
      BY <3>1
  <2> QED
    BY <1>1, <2>1, <2>3 DEF Kept
<1> QED
  BY <1>3, <1>4, <1>5

\* Any two values that are merged, if regular together.
LEMMA PairKeeps ==
    ASSUME NEW t \in JsonTrees, NEW s \in JsonTrees, Weight[t] + Weight[s] <= MaxWeight, IsContainer(s),
           \A x, y \in JsonTrees : Weight[x] + Weight[y] < Weight[t] + Weight[s] /\ IsContainer(y)
                                   => DeepKeeps(x, y),
           \A a \in ArrayTrees : Weight[a] < Weight[t] + Weight[s] => ItemsKeep(a)
    PROVE  DeepKeeps(t, s)
<1>1. CASE ~IsContainer(t)
  <2>1. Merge[DeepMerge(t, s)] = s
    <3>1. Merge[DeepMerge(t, s)] = DeepMerged(Merge, t, s)
      BY DeepIs
    <3> QED
      BY <1>1, <3>1 DEF DeepMerged
  <2>2. Mark(s) # "blank"
    BY MarkKinds
  <2>3. \A p \in Places : Kept(AllMarks(s, p) \cup AllMarks(t, p), AllMarks(s, p))
    BY <1>1, <2>2, KeptOne
  <2>4. \A p : AllMarks(s, p) \cup AllMarks(t, p) = AllMarks(t, p) \cup AllMarks(s, p)
    OBVIOUS
  <2> QED
    BY <2>1, <2>3, <2>4 DEF DeepKeeps
<1>2. CASE IsObj(t) /\ IsObj(s)
  BY <1>2, ObjectsKeep
<1>3. CASE IsArr(t) /\ IsArr(s)
  BY <1>3, ArraysKeep
<1>4. ASSUME {Mark(t), Mark(s)} = {"array", "object"}, Mark(t) # Mark(s) PROVE DeepKeeps(t, s)
  <2> SUFFICES ASSUME NEW p \in Places, Regular(AllMarks(t, p) \cup AllMarks(s, p)) PROVE FALSE
    BY DEF DeepKeeps
  <2> DEFINE f == <<p, Mark(t)>>
             g == <<p, Mark(s)>>
             I == AllMarks(t, p) \cup AllMarks(s, p)
  <2>1. f \in I /\ g \in I /\ f[1] = p /\ g[1] = p /\ f[2] = Mark(t) /\ g[2] = Mark(s)
    BY MarksAre
  <2> HIDE DEF f, g, I
  <2>2. Regular(I)
    BY DEF I
  <2>3. f[2] # g[2] => {f[2], g[2]} # {"array", "object"}
    BY <2>1, <2>2 DEF Regular
  <2> QED
    BY <1>4, <2>1, <2>3
<1>5. CASE (IsArr(t) /\ IsObj(s)) \/ (IsObj(t) /\ IsArr(s))
  BY <1>4, <1>5, MarkKinds
<1> QED
  BY <1>1, <1>2, <1>3, <1>5 DEF IsContainer

\* The empty object has its own mark only.
LEMMA MarksOfNoFields ==
    ASSUME NEW q \in Places, EmptyObj \in JsonTrees
    PROVE  AllMarks(EmptyObj, q) = {<<q, "object">>}
<1>1. IsObj(EmptyObj) /\ \A k : ~Has(EmptyObj, k)
  BY DEF EmptyObj, Obj, Keys, IsObj, Has
<1>2. \A f : f \in AllMarks(EmptyObj, q) <=>
         f = <<q, "object">> \/ \E k : Has(EmptyObj, k) /\ f \in AllMarks(At(EmptyObj, k), Append(q, Into(k)))
  BY <1>1, ObjectMarks
<1> QED
  BY <1>1, <1>2

\* The object that objects are merged into keeps what is in them.
LEMMA SuperKeeps ==
    ASSUME NEW arr \in ArrayTrees, arr.items # <<>>, \A i \in DOMAIN arr.items : IsObj(arr.items[i]),
           NEW q \in Places, Regular(ItemMarks(arr.items, q)),
           \A x, y \in JsonTrees : Weight[x] + Weight[y] <= Weight[arr] /\ IsContainer(y) => DeepKeeps(x, y)
    PROVE  Kept(ItemMarks(arr.items, q), AllMarks(SuperObject(Merge, arr.items), q))
<1> DEFINE items == arr.items
           fs == Supers(Merge, items)
           All == ItemMarks(items, q)
           Those(n) == {<<q, "object">>} \cup UNION {AllMarks(items[i], q) : i \in DOMAIN items \cap (1 .. n)}
           R == {p \in Nat \X JsonTrees :
                   /\ IsObj(p[2]) /\ Kept(Those(p[1]), AllMarks(p[2], q))
                   /\ p[1] <= Len(items) => p[2] = EmptyObj \/ Weight[p[2]] <= Partial(items, p[1])}
<1>0. /\ arr \in JsonTrees /\ IsArr(arr) /\ MaxWeight \in Nat
      /\ Weight[arr] \in Nat /\ Weight[arr] <= MaxWeight /\ Weight[arr] = 1 + Total(items)
      /\ items \in Seq(JsonTrees) /\ items \in Seq(Within)
      /\ DOMAIN items = 1 .. Len(items) /\ Len(items) \in Nat /\ 1 \in DOMAIN items
      /\ \A i \in DOMAIN items : items[i] \in JsonTrees /\ IsObj(items[i])
  <2>1. arr \in JsonTrees /\ IsArr(arr)
    BY DEF ArrayTrees
  <2>2. items \in Seq(JsonTrees) /\ Weight[arr] = 1 + Total(items) /\ Weight[arr] \in Nat /\ Weight[arr] <= MaxWeight
    BY <2>1, TreeShape
  <2>3. Len(items) # 0
    BY <2>2, EmptySeq
  <2> QED
    BY <2>1, <2>2, <2>3, TreesWithin, MergingAssumption
<1>1. /\ EmptyObj \in JsonTrees /\ IsObj(EmptyObj) /\ Weight[EmptyObj] \in Nat /\ Weight[EmptyObj] <= 1
  <2>1. Total(items) \in Nat
    BY <1>0, SumsGrow
  <2>2. MaxWeight # 0
    BY <1>0, <2>1
  <2> QED
    BY <2>2, NoFields
<1>2. SuperObject(Merge, items) = Outcome(fs, EmptyObj)
  BY DEF SuperObject, Supers
<1>3. Len(fs) = Len(items)
  BY <1>0 DEF Supers
<1>4. \A i \in DOMAIN items : \A out \in JsonTrees : fs[i][out] = Merge[DeepMerge(out, items[i])]
  BY <1>0 DEF Supers
<1>5. \A i \in DOMAIN items : AllMarks(items[i], q) \subseteq All
  BY DEF ItemMarks
<1>6. <<q, "object">> \in All
  <2>1. <<q, Mark(items[1])>> \in AllMarks(items[1], q) /\ Mark(items[1]) = "object"
    BY <1>0, MarksAre, MarkKinds
  <2> QED
    BY <1>0, <1>5, <2>1
<1>7. \A n : Those(n) \subseteq All
  BY <1>5, <1>6
<1> HIDE DEF fs, items
<1>8. <<0, EmptyObj>> \in R
  <2>1. Those(0) = {<<q, "object">>}
    OBVIOUS
  <2>2. Kept(Those(0), AllMarks(EmptyObj, q))
    BY <1>1, <2>1, MarksOfNoFields, KeptSelf
  <2> HIDE DEF Those
  <2> QED
    BY <1>1, <2>2
<1>9. ASSUME NEW n \in 1 .. Len(fs), NEW x, <<n - 1, x>> \in R PROVE <<n, fs[n][x]>> \in R
  <2>0. n \in Nat /\ n \in 1 .. Len(items) /\ n \in DOMAIN items /\ n <= Len(items) /\ n - 1 <= Len(items)
        /\ n - 1 \in 0 .. Len(items) /\ n \in 0 .. Len(items)
    BY <1>0, <1>3
  <2> DEFINE z == items[n]
             r == Merge[DeepMerge(x, z)]
  <2>1. /\ x \in JsonTrees /\ IsObj(x) /\ Kept(Those(n - 1), AllMarks(x, q))
        /\ x = EmptyObj \/ Weight[x] <= Partial(items, n - 1)
    BY <1>9, <2>0
  <2>2. /\ Partial(items, n) = Partial(items, n - 1) + Weight[z]
        /\ Partial(items, n - 1) \in Nat /\ Weight[z] \in Nat
        /\ Partial(items, n) <= Total(items) /\ Partial(items, n) \in Nat /\ Total(items) \in Nat
    BY <1>0, <2>0, PartialSums, SumsGrow
  <2>3. z \in JsonTrees /\ IsObj(z) /\ Weight[x] \in Nat /\ Weight[z] # 0
    BY <1>0, <2>0, <2>1, TreeShape
  <2>4. fs[n][x] = r
    BY <1>4, <2>0, <2>1
  <2>5. Those(n) = Those(n - 1) \cup AllMarks(z, q)
    <3>1. DOMAIN items \cap (1 .. n) = (DOMAIN items \cap (1 .. n - 1)) \cup {n}
      BY <2>0
    <3> QED
      BY <3>1
  <2>6. Those(n) \subseteq All
    BY <1>7
  <2> HIDE DEF z, r, Those, All
  <2>7. Weight[x] + Weight[z] <= Weight[arr]
    <3>1. CASE x = EmptyObj
      BY <1>0, <1>1, <2>2, <2>3, <3>1
    <3>2. CASE Weight[x] <= Partial(items, n - 1)
      BY <1>0, <2>2, <2>3, <3>2
    <3> QED
      BY <2>1, <3>1, <3>2
  <2>8. Weight[x] + Weight[z] <= MaxWeight
    BY <1>0, <2>2, <2>3, <2>7
  <2>9. r \in JsonTrees /\ IsObj(r) /\ Weight[r] < Weight[x] + Weight[z]
    BY <2>1, <2>3, <2>8, DeepIs DEF r, MergedUnder, IsContainer
  <2>10. Weight[r] <= Partial(items, n)
    <3>1. Weight[r] \in Nat
      BY <2>9, TreeShape
    <3>2. CASE x = EmptyObj
      BY <1>1, <2>2, <2>3, <2>9, <3>1, <3>2
    <3>3. CASE Weight[x] <= Partial(items, n - 1)
      BY <2>2, <2>3, <2>9, <3>1, <3>3
    <3> QED
      BY <2>1, <3>2, <3>3
  <2>11. Kept(Those(n), AllMarks(x, q) \cup AllMarks(z, q))
    <3> DEFINE those == Those(n - 1)
               one == AllMarks(z, q)
               other == AllMarks(x, q)
    <3>1. Kept(those, other) /\ Kept(one, one)
      BY <2>1, KeptSelf
    <3>2. Those(n) = those \cup one
      BY <2>5
    <3> HIDE DEF those, one, other
    <3>3. Kept(those \cup one, other \cup one)
      BY <3>1, KeptBoth
    <3>4. Kept(Those(n), other \cup one)
      BY <3>2, <3>3
    <3> QED
      BY <3>4 DEF other, one
  <2>12. Regular(AllMarks(x, q) \cup AllMarks(z, q))
    <3>1. AllMarks(x, q) \cup AllMarks(z, q) \subseteq All
      BY <2>6, <2>11 DEF Kept
    <3>2. Regular(All)
      BY DEF All, items
    <3> QED
      BY <3>1, <3>2, RegularPart
  <2>13. Kept(AllMarks(x, q) \cup AllMarks(z, q), AllMarks(r, q))
    <3>1. DeepKeeps(x, z)
      BY <2>1, <2>3, <2>7 DEF IsContainer
    <3> QED
      BY <2>12, <3>1 DEF DeepKeeps, r
  <2>14. Kept(Those(n), AllMarks(r, q))
    BY <2>11, <2>13, KeptOn
  <2> QED
    BY <2>0, <2>4, <2>9, <2>10, <2>14
<1>10. <<Len(items), Outcome(fs, EmptyObj)>> \in R
  <2> HIDE DEF R
  <2> QED
    BY <1>0, <1>3, <1>8, <1>9, OutcomeInvariant
<1> DEFINE o == Outcome(fs, EmptyObj)
<1>11. Kept(Those(Len(items)), AllMarks(o, q))
  <2> HIDE DEF Those, o
  <2> QED
    BY <1>10 DEF o
<1>12. Those(Len(items)) = All
  <2>1. DOMAIN items \cap (1 .. Len(items)) = DOMAIN items
    BY <1>0
  <2> QED
    BY <1>6, <2>1 DEF ItemMarks
<1> QED
  BY <1>2, <1>11, <1>12 DEF items

\* An array that stands for another one, by the marks of its only item.
LEMMA WrappedKeeps ==
    ASSUME NEW a \in JsonTrees, IsArr(a), NEW p \in Places, NEW r \in JsonTrees, Weight[r] < MaxWeight,
           Kept(ItemMarks(a.items, Append(p, Element)), AllMarks(r, Append(p, Element)))
    PROVE  Kept(AllMarks(a, p), AllMarks(Arr(<<r>>), p))
<1> DEFINE q == Append(p, Element)
           w == Arr(<<r>>)
<1>1. w \in JsonTrees /\ IsArr(w) /\ w.items = <<r>>
  BY Wrapped
<1> HIDE DEF w
<1>2. AllMarks(a, p) = {<<p, "array">>} \cup ItemMarks(a.items, q)
  BY ArrayMarks
<1>3. AllMarks(w, p) = {<<p, "array">>} \cup AllMarks(r, q)
  <2>1. AllMarks(w, p) = {<<p, "array">>} \cup ItemMarks(w.items, q)
    BY <1>1, ArrayMarks
  <2>2. ItemMarks(w.items, q) = AllMarks(r, q)
    BY <1>1, ItemMarksOfOne
  <2> QED
    BY <2>1, <2>2
<1> HIDE DEF q
<1>4. Kept(ItemMarks(a.items, q), AllMarks(r, q))
  BY DEF q
<1>5. Kept({<<p, "array">>}, {<<p, "array">>})
  BY KeptSelf
<1>6. Kept(AllMarks(a, p), AllMarks(w, p))
  BY <1>2, <1>3, <1>4, <1>5, KeptBoth
<1> QED
  BY <1>6 DEF w

\* Merging the elements of an array keeps what is in it, if what that calls does.
LEMMA ArrayKeeps ==
    ASSUME NEW a \in ArrayTrees,
           \A x, y \in JsonTrees : Weight[x] + Weight[y] <= Weight[a] /\ IsContainer(y) => DeepKeeps(x, y),
           \A o \in JsonTrees : Weight[o] < Weight[a] => ProcessKeeps(o),
           \A b \in ArrayTrees : Weight[b] < Weight[a] => ItemsKeep(b)
    PROVE  ItemsKeep(a)
<1> SUFFICES ASSUME NEW p \in Places, Regular(AllMarks(a, p))
             PROVE  Kept(AllMarks(a, p), AllMarks(Merge[MergeArrayItems(a)], p))
  BY DEF ItemsKeep
<1> DEFINE q == Append(p, Element)
<1>0. /\ a \in JsonTrees /\ IsArr(a) /\ Weight[a] \in Nat /\ Weight[a] <= MaxWeight /\ MaxWeight \in Nat
      /\ a.items \in Seq(JsonTrees)
  BY TreeShape, MergingAssumption DEF ArrayTrees, IsContainer
<1>1. q \in Places
  BY ElementPlace
<1>2. AllMarks(a, p) = {<<p, "array">>} \cup ItemMarks(a.items, q)
  BY <1>0, ArrayMarks
<1>3. ItemMarks(a.items, q) \subseteq AllMarks(a, p) /\ Regular(ItemMarks(a.items, q))
  <2>1. ItemMarks(a.items, q) \subseteq AllMarks(a, p)
    BY <1>2
  <2> QED
    BY <2>1, RegularPart
<1>4. \A i, j \in DOMAIN a.items : /\ IsObj(a.items[i]) => IsObj(a.items[j])
                                   /\ IsArr(a.items[i]) => IsArr(a.items[j])
  BY <1>0, <1>3, RegularItems
<1>5. a.items # <<>> => 1 \in DOMAIN a.items
  BY <1>0, EmptySeq
<1> HIDE DEF q
<1>6. CASE (a.items = <<>> \/ ~IsContainer(a.items[1])) /\ Merge[MergeArrayItems(a)] = a
  BY <1>6, KeptSelf
<1>7. CASE /\ a.items # <<>> /\ IsObj(a.items[1])
           /\ Merge[MergeArrayItems(a)] = Arr(<<Merge[Process(SuperObject(Merge, a.items))]>>)
           /\ SuperObject(Merge, a.items) \in JsonTrees /\ IsObj(SuperObject(Merge, a.items))
           /\ Weight[SuperObject(Merge, a.items)] < Weight[a]
  <2> DEFINE o == SuperObject(Merge, a.items)
             r == Merge[Process(o)]
  <2>1. \A i \in DOMAIN a.items : IsObj(a.items[i])
    BY <1>4, <1>5, <1>7
  <2>2. Kept(ItemMarks(a.items, q), AllMarks(o, q))
    BY <1>1, <1>3, <1>7, <2>1, SuperKeeps
  <2>3. o \in JsonTrees /\ Weight[o] < Weight[a]
    BY <1>7
  <2> HIDE DEF o
  <2>4. Regular(AllMarks(o, q))
    BY <1>3, <2>2, RegularPart DEF Kept
  <2>5. Kept(AllMarks(o, q), AllMarks(r, q))
    BY <1>1, <2>3, <2>4 DEF ProcessKeeps
  <2>6. r \in JsonTrees /\ Weight[r] <= Weight[o]
    BY <2>3, ProcessIs DEF ProcessedUnder
  <2>7. Weight[r] < MaxWeight
    <3>1. Weight[r] \in Nat /\ Weight[o] \in Nat
      BY <2>3, <2>6, TreeShape
    <3> HIDE DEF r
    <3> QED
      BY <1>0, <2>3, <2>6, <3>1
  <2>8. Kept(ItemMarks(a.items, q), AllMarks(r, q))
    BY <2>2, <2>5, KeptOn
  <2> HIDE DEF r
  <2>9. Kept(AllMarks(a, p), AllMarks(Arr(<<r>>), p))
    BY <1>0, <2>6, <2>7, <2>8, WrappedKeeps DEF q
  <2> QED
    BY <1>7, <2>9 DEF r, o
<1>8. CASE /\ a.items # <<>> /\ IsArr(a.items[1])
           /\ Merge[MergeArrayItems(a)] = Arr(<<Merge[MergeArrayItems(Arr(Flat(a.items)))]>>)
           /\ Arr(Flat(a.items)) \in ArrayTrees /\ Weight[Arr(Flat(a.items))] < Weight[a]
  <2> DEFINE b == Arr(Flat(a.items))
             r == Merge[MergeArrayItems(b)]
  <2>1. \A i \in DOMAIN a.items : IsArr(a.items[i])
    BY <1>4, <1>5, <1>8
  <2>2. ItemMarks(a.items, q) = {<<q, "array">>} \cup ItemMarks(Flat(a.items), Append(q, Element))
    BY <1>0, <1>1, <1>8, <2>1, FlatMarks
  <2>3. b \in JsonTrees /\ IsArr(b) /\ b.items = Flat(a.items) /\ b \in ArrayTrees /\ Weight[b] < Weight[a]
    BY <1>8 DEF ArrayTrees, Arr
  <2> HIDE DEF b
  <2>4. AllMarks(b, q) = ItemMarks(a.items, q)
    BY <1>1, <2>2, <2>3, ArrayMarks
  <2>5. Kept(ItemMarks(a.items, q), AllMarks(r, q))
    BY <1>1, <1>3, <2>3, <2>4 DEF ItemsKeep
  <2>6. r \in JsonTrees /\ Weight[r] <= Weight[b]
    BY <2>3, ItemsAre DEF ArraysUnder
  <2>7. Weight[r] < MaxWeight
    <3>1. Weight[r] \in Nat /\ Weight[b] \in Nat
      BY <2>3, <2>6, TreeShape
    <3> HIDE DEF r
    <3> QED
      BY <1>0, <2>3, <2>6, <3>1
  <2> HIDE DEF r
  <2>8. Kept(AllMarks(a, p), AllMarks(Arr(<<r>>), p))
    BY <1>0, <2>5, <2>6, <2>7, WrappedKeeps DEF q
  <2> QED
    BY <1>8, <2>8 DEF r, b
<1> QED
  BY <1>6, <1>7, <1>8, ItemsCases

\* So does processing a value.
LEMMA ValueKeeps ==
    ASSUME NEW v \in JsonTrees,
           IsArr(v) => ItemsKeep(v),
           \A x \in JsonTrees : Weight[x] < Weight[v] => ProcessKeeps(x)
    PROVE  ProcessKeeps(v)
<1> DEFINE r == Merge[Process(v)]
<1> SUFFICES ASSUME NEW p \in Places, Regular(AllMarks(v, p)) PROVE Kept(AllMarks(v, p), AllMarks(r, p))
  BY DEF ProcessKeeps
<1>0. r = Processed(Merge, v) /\ r \in JsonTrees /\ (IsObj(v) => IsObj(r))
  BY ProcessIs DEF ProcessedUnder
<1> HIDE DEF r
<1>1. CASE IsArr(v)
  <2>1. r = Merge[MergeArrayItems(v)]
    BY <1>0, <1>1 DEF Processed, IsArr, IsObj
  <2> QED
    BY <1>1, <2>1 DEF ItemsKeep
<1>2. CASE ~IsArr(v) /\ ~IsObj(v)
  <2>1. r = v
    BY <1>0, <1>2 DEF Processed
  <2> QED
    BY <2>1, KeptSelf
<1>3. CASE IsObj(v)
  <2> DEFINE I == AllMarks(v, p)
             J == AllMarks(r, p)
             at(i) == Append(p, Into(v.keys[i]))
  <2>1. r = Obj(v.keys, [i \in DOMAIN v.items |-> Merge[Process(v.items[i])]]) /\ IsObj(r)
    BY <1>0, <1>3 DEF Processed, IsArr, IsObj
  <2>2. /\ r.keys = v.keys /\ DOMAIN r.items = DOMAIN v.items
        /\ \A i \in DOMAIN v.items : r.items[i] = Merge[Process(v.items[i])]
    BY <2>1 DEF Obj
  <2>3. /\ Mark(v) = "object" /\ Mark(r) = "object" /\ IsContainer(v) /\ IsContainer(r)
        /\ \A i \in DOMAIN v.items : Way(v, i) = Into(v.keys[i]) /\ Way(r, i) = Into(v.keys[i])
    BY <1>3, <2>1, <2>2, MarkKinds DEF IsContainer, Way
  <2>4. \A i \in DOMAIN v.items : /\ at(i) \in Places
                                  /\ v.items[i] \in JsonTrees /\ Weight[v.items[i]] < Weight[v]
    BY <2>3, WaysInto, TreeShape
  <2>5. \A f : f \in I <=> f = <<p, "object">> \/ \E i \in DOMAIN v.items : f \in AllMarks(v.items[i], at(i))
    <3>1. \A f : f \in I <=> \/ f = <<p, Mark(v)>>
                             \/ IsContainer(v) /\ \E i \in DOMAIN v.items : f \in AllMarks(v.items[i], Append(p, Way(v, i)))
      BY MarksAre
    <3> HIDE DEF I
    <3> QED
      BY <2>3, <3>1
  <2>6. \A f : f \in J <=> f = <<p, "object">> \/ \E i \in DOMAIN v.items : f \in AllMarks(Merge[Process(v.items[i])], at(i))
    <3>1. \A f : f \in J <=> \/ f = <<p, Mark(r)>>
                             \/ IsContainer(r) /\ \E i \in DOMAIN r.items : f \in AllMarks(r.items[i], Append(p, Way(r, i)))
      <4>1. r \in JsonTrees
        BY <1>0
      <4> HIDE DEF J
      <4>2. J = AllMarks(r, p)
        BY DEF J
      <4> QED
        BY <4>1, <4>2, MarksAre
    <3>2. \A i \in DOMAIN v.items : /\ r.items[i] = Merge[Process(v.items[i])]
                                    /\ Append(p, Way(r, i)) = at(i)
      BY <2>2, <2>3
    <3>3. DOMAIN r.items = DOMAIN v.items /\ IsContainer(r) /\ Mark(r) = "object"
      BY <2>2, <2>3
    <3> DEFINE own == <<p, "object">>
    <3> HIDE DEF J, at, own
    <3>4. \A f : f \in J <=> \/ f = own
                             \/ \E i \in DOMAIN v.items : f \in AllMarks(r.items[i], Append(p, Way(r, i)))
      BY <3>1, <3>3 DEF own
    <3>5. \A i \in DOMAIN v.items : AllMarks(r.items[i], Append(p, Way(r, i))) = AllMarks(Merge[Process(v.items[i])], at(i))
      BY <3>2
    <3>6. \A f : f \in J <=> f = own \/ \E i \in DOMAIN v.items : f \in AllMarks(Merge[Process(v.items[i])], at(i))
      BY <3>4, <3>5
    <3> QED
      BY <3>6 DEF own
  <2>7. ASSUME NEW i \in DOMAIN v.items
        PROVE  Kept(AllMarks(v.items[i], at(i)), AllMarks(Merge[Process(v.items[i])], at(i)))
    <3>1. AllMarks(v.items[i], at(i)) \subseteq I
      BY <2>5
    <3>2. Regular(AllMarks(v.items[i], at(i)))
      BY <3>1, RegularPart
    <3>3. ProcessKeeps(v.items[i])
      BY <2>4
    <3> QED
      BY <2>4, <3>2, <3>3 DEF ProcessKeeps
  <2> HIDE DEF I, J, at
  <2>8. ASSUME NEW f \in J PROVE f \in I
    <3>1. CASE f = <<p, "object">>
      BY <2>5, <3>1
    <3>2. ASSUME NEW i \in DOMAIN v.items, f \in AllMarks(Merge[Process(v.items[i])], at(i)) PROVE f \in I
      BY <2>5, <2>7, <3>2 DEF Kept
    <3> QED
      BY <2>6, <3>1, <3>2
  <2>9. ASSUME NEW f \in I, InField(f[1])
        PROVE  \E g \in J : g[1] = f[1] /\ (f[2] # "blank" => g[2] # "blank")
    <3>1. CASE f = <<p, "object">>
      BY <2>6, <3>1
    <3>2. ASSUME NEW i \in DOMAIN v.items, f \in AllMarks(v.items[i], at(i))
          PROVE  \E g \in J : g[1] = f[1] /\ (f[2] # "blank" => g[2] # "blank")
      <4>1. PICK g \in AllMarks(Merge[Process(v.items[i])], at(i)) : g[1] = f[1] /\ (f[2] # "blank" => g[2] # "blank")
        BY <2>7, <2>9, <3>2 DEF Kept
      <4>2. g \in J
        BY <2>6, <4>1
      <4> QED
        BY <4>1, <4>2
    <3> QED
      BY <2>5, <2>9, <3>1, <3>2
  <2> QED
    BY <2>8, <2>9 DEF Kept, I, J
<1> QED
  BY <1>1, <1>2, <1>3

\* What a call keeps.
Keeps(call) ==
    /\ call.op = "mergeArrayItems" => ItemsKeep(call.array)
    /\ call.op = "deepMerge" /\ IsContainer(call.source) => DeepKeeps(call.target, call.source)
    /\ call.op = "process" => ProcessKeeps(call.item)

\* By induction on the rank, each call keeps what is in a regular document.
LEMMA EverythingKept ==
    /\ \A x, y \in JsonTrees : Weight[x] + Weight[y] <= MaxWeight /\ IsContainer(y) => DeepKeeps(x, y)
    /\ \A v \in JsonTrees : ProcessKeeps(v)
<1> DEFINE S == {call \in Calls : Keeps(call)}
<1>0. MaxWeight \in Nat /\ \A v \in JsonTrees : Weight[v] \in Nat /\ Weight[v] <= MaxWeight
  BY TreeShape, MergingAssumption
<1>1. ASSUME NEW call \in Calls, \A c \in Calls : Rank[c] < Rank[call] => c \in S
      PROVE  call \in S
  <2>1. ASSUME NEW a \in ArrayTrees, 2 * Weight[a] + 1 < Rank[call] PROVE ItemsKeep(a)
    <3>1. MergeArrayItems(a) \in S
      BY <1>1, <2>1, CallForms
    <3> QED
      BY <3>1 DEF Keeps, MergeArrayItems
  <2>2. ASSUME NEW v \in JsonTrees, 2 * Weight[v] + 2 < Rank[call] PROVE ProcessKeeps(v)
    <3>1. Process(v) \in S
      BY <1>1, <2>2, CallForms
    <3> QED
      BY <3>1 DEF Keeps, Process
  <2>3. ASSUME NEW x \in JsonTrees, NEW y \in JsonTrees, Weight[x] + Weight[y] <= MaxWeight, IsContainer(y),
               2 * (Weight[x] + Weight[y]) < Rank[call]
        PROVE  DeepKeeps(x, y)
    <3>1. DeepMerge(x, y) \in S
      BY <1>1, <2>3, CallForms
    <3> QED
      BY <2>3, <3>1 DEF Keeps, DeepMerge
  <2>4. ASSUME NEW a \in ArrayTrees, call = MergeArrayItems(a) PROVE Keeps(call)
    <3>1. a \in JsonTrees /\ Rank[call] = 2 * Weight[a] + 1
      BY <2>4, CallForms DEF ArrayTrees
    <3>2. \A o \in JsonTrees : Weight[o] < Weight[a] => ProcessKeeps(o)
      <4>1. \A o \in JsonTrees : Weight[o] < Weight[a] => 2 * Weight[o] + 2 < Rank[call]
        BY <1>0, <3>1
      <4> QED
        BY <2>2, <4>1
    <3>3. \A b \in ArrayTrees : Weight[b] < Weight[a] => ItemsKeep(b)
      <4>1. \A b \in JsonTrees : Weight[b] < Weight[a] => 2 * Weight[b] + 1 < Rank[call]
        BY <1>0, <3>1
      <4> QED
        BY <2>1, <4>1 DEF ArrayTrees
    <3>4. \A x, y \in JsonTrees : Weight[x] + Weight[y] <= Weight[a] /\ IsContainer(y) => DeepKeeps(x, y)
      <4>1. \A x, y \in JsonTrees : Weight[x] + Weight[y] <= Weight[a] =>
               Weight[x] + Weight[y] <= MaxWeight /\ 2 * (Weight[x] + Weight[y]) < Rank[call]
        BY <1>0, <3>1
      <4> QED
        BY <2>3, <4>1
    <3>5. ItemsKeep(a)
      BY <3>2, <3>3, <3>4, ArrayKeeps
    <3> QED
      BY <2>4, <3>5 DEF Keeps, MergeArrayItems
  <2>5. ASSUME NEW t \in JsonTrees, NEW s \in JsonTrees, Weight[t] + Weight[s] <= MaxWeight,
               call = DeepMerge(t, s)
        PROVE  Keeps(call)
    <3>1. Rank[call] = 2 * (Weight[t] + Weight[s])
      BY <2>5, CallForms
    <3>2. \A a \in ArrayTrees : Weight[a] < Weight[t] + Weight[s] => ItemsKeep(a)
      <4>1. \A a \in JsonTrees : Weight[a] < Weight[t] + Weight[s] => 2 * Weight[a] + 1 < Rank[call]
        BY <1>0, <3>1
      <4> QED
        BY <2>1, <4>1 DEF ArrayTrees
    <3>3. \A x, y \in JsonTrees : Weight[x] + Weight[y] < Weight[t] + Weight[s] /\ IsContainer(y)
                                  => DeepKeeps(x, y)
      <4>1. \A x, y \in JsonTrees : Weight[x] + Weight[y] < Weight[t] + Weight[s] =>
               Weight[x] + Weight[y] <= MaxWeight /\ 2 * (Weight[x] + Weight[y]) < Rank[call]
        BY <1>0, <2>5, <3>1
      <4> QED
        BY <2>3, <4>1
    <3>4. IsContainer(s) => DeepKeeps(t, s)
      BY <2>5, <3>2, <3>3, PairKeeps
    <3> QED
      BY <2>5, <3>4 DEF Keeps, DeepMerge
  <2>6. ASSUME NEW v \in JsonTrees, call = Process(v) PROVE Keeps(call)
    <3>1. Rank[call] = 2 * Weight[v] + 2
      BY <2>6, CallForms
    <3>2. \A x \in JsonTrees : Weight[x] < Weight[v] => ProcessKeeps(x)
      <4>1. \A x \in JsonTrees : Weight[x] < Weight[v] => 2 * Weight[x] + 2 < Rank[call]
        BY <1>0, <3>1
      <4> QED
        BY <2>2, <4>1
    <3>3. IsArr(v) => ItemsKeep(v)
      <4>1. 2 * Weight[v] + 1 < Rank[call]
        BY <1>0, <3>1
      <4> QED
        BY <2>1, <4>1 DEF ArrayTrees
    <3>4. ProcessKeeps(v)
      BY <3>2, <3>3, ValueKeeps
    <3> QED
      BY <2>6, <3>4 DEF Keeps, Process
  <2> QED
    BY <2>4, <2>5, <2>6, CallForms
<1>2. \A call \in Calls : call \in S
  <2> HIDE DEF S
  <2> QED
    BY <1>1, CallInduction
<1>3. ASSUME NEW v \in JsonTrees PROVE ProcessKeeps(v)
  <2>1. Process(v) \in S
    BY <1>2, CallForms
  <2> QED
    BY <2>1 DEF Keeps, Process
<1>4. ASSUME NEW x \in JsonTrees, NEW y \in JsonTrees, Weight[x] + Weight[y] <= MaxWeight, IsContainer(y)
      PROVE  DeepKeeps(x, y)
  <2>1. DeepMerge(x, y) \in S
    BY <1>2, <1>4, CallForms
  <2> QED
    BY <1>4, <2>1 DEF Keeps, DeepMerge
<1> QED
  BY <1>3, <1>4

----------------------------------------------------------------------------
(* What is merged has nothing in a field that its first elements have not  *)

Thin(v, p) == \A f \in AllMarks(v, p) : InField(f[1]) => f \in FirstMarks(v, p)

\* A value is thin if what is in it is, and it is not an array of several elements.
LEMMA ThinWithin ==
    ASSUME NEW v \in JsonTrees, NEW p \in Places,
           IsContainer(v) => \A i \in DOMAIN v.items : Thin(v.items[i], Append(p, Way(v, i))),
           IsArr(v) => DOMAIN v.items = {1}
    PROVE  Thin(v, p)
<1> SUFFICES ASSUME NEW f \in AllMarks(v, p), InField(f[1]) PROVE f \in FirstMarks(v, p)
  BY DEF Thin
<1>1. f \in AllMarks(v, p) <=>
         \/ f = <<p, Mark(v)>>
         \/ IsContainer(v) /\ \E i \in DOMAIN v.items : f \in AllMarks(v.items[i], Append(p, Way(v, i)))
  BY MarksAre
<1>2. f \in FirstMarks(v, p) <=>
         \/ f = <<p, Mark(v)>>
         \/ IsContainer(v) /\ \E i \in DOMAIN v.items :
               (IsArr(v) => i = 1) /\ f \in FirstMarks(v.items[i], Append(p, Way(v, i)))
  BY MarksAre
<1>3. CASE f = <<p, Mark(v)>>
  BY <1>2, <1>3
<1>4. ASSUME IsContainer(v), NEW i \in DOMAIN v.items, f \in AllMarks(v.items[i], Append(p, Way(v, i)))
      PROVE  f \in FirstMarks(v, p)
  <2>1. f \in FirstMarks(v.items[i], Append(p, Way(v, i)))
    BY <1>4 DEF Thin
  <2>2. IsArr(v) => i = 1
    BY <1>4
  <2> QED
    BY <1>2, <1>4, <2>1, <2>2
<1> QED
  BY <1>1, <1>3, <1>4

\* An array of one element is thin if the element is.
LEMMA WrappedThin ==
    ASSUME NEW r \in JsonTrees, Weight[r] < MaxWeight, NEW p \in Places, Thin(r, Append(p, Element))
    PROVE  Thin(Arr(<<r>>), p)
<1> DEFINE w == Arr(<<r>>)
<1>1. w \in JsonTrees /\ IsArr(w) /\ w.items = <<r>>
  BY Wrapped
<1> HIDE DEF w
<1>2. DOMAIN w.items = {1} /\ w.items[1] = r
  BY <1>1
<1>3. IsContainer(w) /\ \A i : Way(w, i) = Element
  BY <1>1 DEF IsContainer, Way, IsArr, IsObj
<1>4. Thin(w, p)
  BY <1>1, <1>2, <1>3, ThinWithin
<1> QED
  BY <1>4 DEF w

\* Elements that are no containers are in no field.
LEMMA ThinItems ==
    ASSUME NEW a \in JsonTrees, IsArr(a), \A i \in DOMAIN a.items : ~IsContainer(a.items[i]),
           NEW p \in Places
    PROVE  Thin(a, p)
<1> SUFFICES ASSUME NEW f \in AllMarks(a, p), InField(f[1]) PROVE f \in FirstMarks(a, p)
  BY DEF Thin
<1> DEFINE e == Append(p, Element)
<1>0. IsContainer(a) /\ Mark(a) = "array" /\ \A i \in DOMAIN a.items : a.items[i] \in JsonTrees
  BY TreeShape, MarkKinds DEF IsContainer
<1>1. e \in Places /\ ~InField(e)
  BY ElementPlace
<1>2. AllMarks(a, p) = {<<p, "array">>} \cup ItemMarks(a.items, e)
  BY ArrayMarks
<1> HIDE DEF e
<1>3. <<p, "array">> \in FirstMarks(a, p)
  <2>1. <<p, Mark(a)>> \in FirstMarks(a, p)
    BY MarksAre
  <2> QED
    BY <1>0, <2>1
<1>4. ASSUME NEW i \in DOMAIN a.items, f \in AllMarks(a.items[i], e) PROVE FALSE
  <2> DEFINE x == a.items[i]
  <2>1. x \in JsonTrees /\ ~IsContainer(x)
    BY <1>0
  <2> HIDE DEF x
  <2>2. f \in AllMarks(x, e) => f = <<e, Mark(x)>>
    BY <1>1, <2>1, MarksAre
  <2>3. f[1] = e
    BY <1>4, <2>2 DEF x
  <2> QED
    BY <1>1, <2>3
<1>5. f \in ItemMarks(a.items, e) => \E i \in DOMAIN a.items : f \in AllMarks(a.items[i], e)
  BY DEF ItemMarks
<1> QED
  BY <1>2, <1>3, <1>4, <1>5

ItemsThin(a) == \A p \in Places : Regular(AllMarks(a, p)) => Thin(Merge[MergeArrayItems(a)], p)

ProcessThin(v) == \A p \in Places : Regular(AllMarks(v, p)) => Thin(Merge[Process(v)], p)

\* The merged array is thin if what is merged in it is.
LEMMA ArrayThin ==
    ASSUME NEW a \in ArrayTrees,
           \A o \in JsonTrees : Weight[o] < Weight[a] => ProcessThin(o),
           \A b \in ArrayTrees : Weight[b] < Weight[a] => ItemsThin(b)
    PROVE  ItemsThin(a)
<1> SUFFICES ASSUME NEW p \in Places, Regular(AllMarks(a, p))
             PROVE  Thin(Merge[MergeArrayItems(a)], p)
  BY DEF ItemsThin
<1> DEFINE q == Append(p, Element)
<1>0. /\ a \in JsonTrees /\ IsArr(a) /\ Weight[a] \in Nat /\ Weight[a] <= MaxWeight /\ MaxWeight \in Nat
      /\ a.items \in Seq(JsonTrees)
  BY TreeShape, MergingAssumption DEF ArrayTrees, IsContainer
<1>1. q \in Places
  BY ElementPlace
<1>2. AllMarks(a, p) = {<<p, "array">>} \cup ItemMarks(a.items, q)
  BY <1>0, ArrayMarks
<1>3. ItemMarks(a.items, q) \subseteq AllMarks(a, p) /\ Regular(ItemMarks(a.items, q))
  <2>1. ItemMarks(a.items, q) \subseteq AllMarks(a, p)
    BY <1>2
  <2> QED
    BY <2>1, RegularPart
<1>4. \A i, j \in DOMAIN a.items : /\ IsObj(a.items[i]) => IsObj(a.items[j])
                                   /\ IsArr(a.items[i]) => IsArr(a.items[j])
                                   /\ IsContainer(a.items[i]) => IsContainer(a.items[j])
  BY <1>0, <1>3, RegularItems
<1>5. a.items # <<>> => 1 \in DOMAIN a.items
  BY <1>0, EmptySeq
<1> HIDE DEF q
<1>6. CASE (a.items = <<>> \/ ~IsContainer(a.items[1])) /\ Merge[MergeArrayItems(a)] = a
  <2>1. CASE a.items = <<>>
    <3>1. \A i \in DOMAIN a.items : ~IsContainer(a.items[i])
      BY <2>1
    <3> QED
      BY <1>0, <1>6, <3>1, ThinItems
  <2>2. CASE a.items # <<>> /\ ~IsContainer(a.items[1])
    <3>1. \A i \in DOMAIN a.items : ~IsContainer(a.items[i])
      BY <1>4, <1>5, <2>2
    <3> QED
      BY <1>0, <1>6, <3>1, ThinItems
  <2> QED
    BY <1>6, <2>1, <2>2
<1>7. CASE /\ a.items # <<>> /\ IsObj(a.items[1])
           /\ Merge[MergeArrayItems(a)] = Arr(<<Merge[Process(SuperObject(Merge, a.items))]>>)
           /\ SuperObject(Merge, a.items) \in JsonTrees /\ IsObj(SuperObject(Merge, a.items))
           /\ Weight[SuperObject(Merge, a.items)] < Weight[a]
  <2> DEFINE o == SuperObject(Merge, a.items)
             r == Merge[Process(o)]
  <2>1. \A i \in DOMAIN a.items : IsObj(a.items[i])
    BY <1>4, <1>5, <1>7
  <2>2. \A x, y \in JsonTrees : Weight[x] + Weight[y] <= Weight[a] /\ IsContainer(y) => DeepKeeps(x, y)
    <3>1. \A x \in JsonTrees : Weight[x] \in Nat
      BY TreeShape
    <3>2. \A x, y \in JsonTrees : Weight[x] + Weight[y] <= Weight[a] => Weight[x] + Weight[y] <= MaxWeight
      BY <1>0, <3>1
    <3> QED
      BY <3>2, EverythingKept
  <2>3. Kept(ItemMarks(a.items, q), AllMarks(o, q))
    BY <1>1, <1>3, <1>7, <2>1, <2>2, SuperKeeps
  <2>4. o \in JsonTrees /\ Weight[o] < Weight[a]
    BY <1>7
  <2> HIDE DEF o
  <2>5. Regular(AllMarks(o, q))
    BY <1>3, <2>3, RegularPart DEF Kept
  <2>6. Thin(r, q)
    BY <1>1, <2>4, <2>5 DEF ProcessThin
  <2>7. r \in JsonTrees /\ Weight[r] <= Weight[o]
    BY <2>4, ProcessIs DEF ProcessedUnder
  <2> HIDE DEF r
  <2>8. Weight[r] < MaxWeight
    <3>1. Weight[r] \in Nat /\ Weight[o] \in Nat
      BY <2>4, <2>7, TreeShape
    <3> QED
      BY <1>0, <2>4, <2>7, <3>1
  <2>9. Thin(Arr(<<r>>), p)
    BY <2>6, <2>7, <2>8, WrappedThin DEF q
  <2> QED
    BY <1>7, <2>9 DEF r, o
<1>8. CASE /\ a.items # <<>> /\ IsArr(a.items[1])
           /\ Merge[MergeArrayItems(a)] = Arr(<<Merge[MergeArrayItems(Arr(Flat(a.items)))]>>)
           /\ Arr(Flat(a.items)) \in ArrayTrees /\ Weight[Arr(Flat(a.items))] < Weight[a]
  <2> DEFINE b == Arr(Flat(a.items))
             r == Merge[MergeArrayItems(b)]
  <2>1. \A i \in DOMAIN a.items : IsArr(a.items[i])
    BY <1>4, <1>5, <1>8
  <2>2. ItemMarks(a.items, q) = {<<q, "array">>} \cup ItemMarks(Flat(a.items), Append(q, Element))
    BY <1>0, <1>1, <1>8, <2>1, FlatMarks
  <2>3. b \in JsonTrees /\ IsArr(b) /\ b.items = Flat(a.items) /\ b \in ArrayTrees /\ Weight[b] < Weight[a]
    BY <1>8 DEF ArrayTrees, Arr
  <2> HIDE DEF b
  <2>4. AllMarks(b, q) = ItemMarks(a.items, q)
    BY <1>1, <2>2, <2>3, ArrayMarks
  <2>5. Thin(r, q)
    BY <1>1, <1>3, <2>3, <2>4 DEF ItemsThin
  <2>6. r \in JsonTrees /\ Weight[r] <= Weight[b]
    BY <2>3, ItemsAre DEF ArraysUnder
  <2> HIDE DEF r
  <2>7. Weight[r] < MaxWeight
    <3>1. Weight[r] \in Nat /\ Weight[b] \in Nat
      BY <2>3, <2>6, TreeShape
    <3> QED
      BY <1>0, <2>3, <2>6, <3>1
  <2>8. Thin(Arr(<<r>>), p)
    BY <2>5, <2>6, <2>7, WrappedThin DEF q
  <2> QED
    BY <1>8, <2>8 DEF r, b
<1> QED
  BY <1>6, <1>7, <1>8, ItemsCases

\* So is the processed value.
LEMMA ValueThin ==
    ASSUME NEW v \in JsonTrees,
           IsArr(v) => ItemsThin(v),
           \A x \in JsonTrees : Weight[x] < Weight[v] => ProcessThin(x)
    PROVE  ProcessThin(v)
<1> DEFINE r == Merge[Process(v)]
<1> SUFFICES ASSUME NEW p \in Places, Regular(AllMarks(v, p)) PROVE Thin(r, p)
  BY DEF ProcessThin
<1>0. r = Processed(Merge, v) /\ r \in JsonTrees
  BY ProcessIs DEF ProcessedUnder
<1> HIDE DEF r
<1>1. CASE IsArr(v)
  <2>1. r = Merge[MergeArrayItems(v)]
    BY <1>0, <1>1 DEF Processed, IsArr, IsObj
  <2> QED
    BY <1>1, <2>1 DEF ItemsThin
<1>2. CASE ~IsArr(v) /\ ~IsObj(v)
  <2>1. r = v
    BY <1>0, <1>2 DEF Processed
  <2> QED
    BY <1>0, <1>2, <2>1, ThinWithin DEF IsContainer
<1>3. CASE IsObj(v)
  <2>1. r = Obj(v.keys, [i \in DOMAIN v.items |-> Merge[Process(v.items[i])]])
    BY <1>3, <1>0 DEF Processed, IsArr, IsObj
  <2>2. /\ r.keys = v.keys /\ r.kind = "object" /\ DOMAIN r.items = DOMAIN v.items
        /\ \A i \in DOMAIN v.items : r.items[i] = Merge[Process(v.items[i])]
    BY <2>1 DEF Obj
  <2>3. ~IsArr(r) /\ IsContainer(v) /\ \A i : Way(r, i) = Way(v, i)
    BY <1>3, <2>2 DEF IsContainer, Way, IsArr, IsObj
  <2>4. ASSUME NEW i \in DOMAIN v.items PROVE Thin(Merge[Process(v.items[i])], Append(p, Way(v, i)))
    <3> DEFINE x == v.items[i]
               q == Append(p, Way(v, i))
    <3>1. x \in JsonTrees /\ Weight[x] < Weight[v] /\ q \in Places
      BY <2>3, TreeShape, WaysInto
    <3>2. AllMarks(x, q) \subseteq AllMarks(v, p)
      <4>1. \A f : f \in AllMarks(v, p) <=>
               \/ f = <<p, Mark(v)>>
               \/ IsContainer(v) /\ \E j \in DOMAIN v.items : f \in AllMarks(v.items[j], Append(p, Way(v, j)))
        BY MarksAre
      <4> QED
        BY <2>3, <4>1
    <3> HIDE DEF x, q
    <3>3. Regular(AllMarks(x, q))
      BY <3>2, RegularPart
    <3>4. Thin(Merge[Process(x)], q)
      BY <3>1, <3>3 DEF ProcessThin
    <3> QED
      BY <3>4 DEF x, q
  <2>5. \A i \in DOMAIN r.items : Thin(r.items[i], Append(p, Way(r, i)))
    BY <2>2, <2>3, <2>4
  <2> QED
    BY <1>0, <2>3, <2>5, ThinWithin
<1> QED
  BY <1>1, <1>2, <1>3

\* By induction on the weight, whatever is merged from a regular document is thin.
LEMMA EverythingThin == \A v \in JsonTrees : ProcessThin(v)
<1> DEFINE S == {v \in JsonTrees : ProcessThin(v) /\ (IsArr(v) => ItemsThin(v))}
<1>1. ASSUME NEW v \in JsonTrees, \A u \in JsonTrees : Weight[u] < Weight[v] => u \in S
      PROVE  v \in S
  <2>1. \A u \in JsonTrees : Weight[u] < Weight[v] => ProcessThin(u) /\ (IsArr(u) => ItemsThin(u))
    BY <1>1
  <2> HIDE DEF S
  <2>2. IsArr(v) => ItemsThin(v)
    BY <2>1, ArrayThin DEF ArrayTrees
  <2>3. ProcessThin(v)
    BY <2>1, <2>2, ValueThin
  <2> QED
    BY <2>2, <2>3 DEF S
<1>2. \A v \in JsonTrees : Weight[v] \in Nat
  BY TreeShape
<1>3. \A v \in JsonTrees : v \in S
  <2> HIDE DEF S
  <2> QED
    BY <1>1, <1>2, RankInduction
<1> QED
  BY <1>3

----------------------------------------------------------------------------
(* The marks of first elements: one for each place                         *)

\* The values that first elements have are among those of all elements.
LEMMA FirstOfAll == \A v \in JsonTrees : \A p \in Places : FirstMarks(v, p) \subseteq AllMarks(v, p)
<1> DEFINE S == {v \in JsonTrees : \A p \in Places : FirstMarks(v, p) \subseteq AllMarks(v, p)}
<1>1. ASSUME NEW v \in JsonTrees, \A u \in JsonTrees : Weight[u] < Weight[v] => u \in S
      PROVE  v \in S
  <2> SUFFICES ASSUME NEW p \in Places, NEW f \in FirstMarks(v, p) PROVE f \in AllMarks(v, p)
    OBVIOUS
  <2>1. f \in AllMarks(v, p) <=>
           \/ f = <<p, Mark(v)>>
           \/ IsContainer(v) /\ \E i \in DOMAIN v.items : f \in AllMarks(v.items[i], Append(p, Way(v, i)))
    BY MarksAre
  <2>2. f \in FirstMarks(v, p) <=>
           \/ f = <<p, Mark(v)>>
           \/ IsContainer(v) /\ \E i \in DOMAIN v.items :
                 (IsArr(v) => i = 1) /\ f \in FirstMarks(v.items[i], Append(p, Way(v, i)))
    BY MarksAre
  <2>3. ASSUME IsContainer(v), NEW i \in DOMAIN v.items, f \in FirstMarks(v.items[i], Append(p, Way(v, i)))
        PROVE  f \in AllMarks(v.items[i], Append(p, Way(v, i)))
    <3>1. v.items[i] \in JsonTrees /\ Weight[v.items[i]] < Weight[v] /\ Append(p, Way(v, i)) \in Places
      BY <2>3, TreeShape, WaysInto
    <3> QED
      BY <1>1, <2>3, <3>1
  <2> QED
    BY <2>1, <2>2, <2>3
<1>2. \A v \in JsonTrees : Weight[v] \in Nat
  BY TreeShape
<1>3. \A v \in JsonTrees : v \in S
  <2> HIDE DEF S
  <2> QED
    BY <1>1, <1>2, RankInduction
<1> QED
  BY <1>3

\* The places in a value begin with the place of the value.
Beyond(p) == {q \in Places : Len(p) <= Len(q) /\ \A i \in 1 .. Len(p) : q[i] = p[i]}

\* A place beyond the next one tells which way it goes.
LEMMA BeyondNext ==
    ASSUME NEW p \in Places, NEW way, Append(p, way) \in Places, NEW q \in Beyond(Append(p, way))
    PROVE  /\ q \in Beyond(p) /\ Len(p) \in Nat /\ Len(q) \in Nat
           /\ Len(p) < Len(q) /\ q[Len(p) + 1] = way
<1> DEFINE T == {Into(k) : k \in FieldNames} \cup {Element}
           r == Append(p, way)
<1>1. p \in Seq(T) /\ q \in Seq(T) /\ q \in Places /\ Len(p) \in Nat /\ Len(q) \in Nat
  BY DEF Places, Beyond
<1> HIDE DEF T
<1>2. Len(r) = Len(p) + 1 /\ r[Len(p) + 1] = way /\ \A i \in 1 .. Len(p) : r[i] = p[i]
  BY <1>1
<1>3. Len(r) <= Len(q) /\ \A i \in 1 .. Len(r) : q[i] = r[i]
  BY DEF Beyond
<1> HIDE DEF r
<1>4. Len(p) < Len(q) /\ Len(p) <= Len(q)
  BY <1>1, <1>2, <1>3
<1>5. Len(p) + 1 \in 1 .. Len(r) /\ \A i \in 1 .. Len(p) : i \in 1 .. Len(r)
  BY <1>1, <1>2
<1>6. q[Len(p) + 1] = way /\ \A i \in 1 .. Len(p) : q[i] = p[i]
  BY <1>2, <1>3, <1>5
<1> QED
  BY <1>1, <1>4, <1>6 DEF Beyond

\* All that is in a value is beyond its place.
LEMMA MarksBeyond == \A v \in JsonTrees : \A p \in Places : \A f \in FirstMarks(v, p) : f[1] \in Beyond(p)
<1> DEFINE S == {v \in JsonTrees : \A p \in Places : \A f \in FirstMarks(v, p) : f[1] \in Beyond(p)}
<1>1. ASSUME NEW v \in JsonTrees, \A u \in JsonTrees : Weight[u] < Weight[v] => u \in S
      PROVE  v \in S
  <2> SUFFICES ASSUME NEW p \in Places, NEW f \in FirstMarks(v, p) PROVE f[1] \in Beyond(p)
    OBVIOUS
  <2>1. f \in FirstMarks(v, p) <=>
           \/ f = <<p, Mark(v)>>
           \/ IsContainer(v) /\ \E i \in DOMAIN v.items :
                 (IsArr(v) => i = 1) /\ f \in FirstMarks(v.items[i], Append(p, Way(v, i)))
    BY MarksAre
  <2>2. CASE f = <<p, Mark(v)>>
    <3>1. Len(p) \in Nat
      BY DEF Places
    <3> QED
      BY <2>2, <3>1 DEF Beyond
  <2>3. ASSUME IsContainer(v), NEW i \in DOMAIN v.items, f \in FirstMarks(v.items[i], Append(p, Way(v, i)))
        PROVE  f[1] \in Beyond(p)
    <3> DEFINE x == v.items[i]
               way == Way(v, i)
    <3>1. x \in JsonTrees /\ Weight[x] < Weight[v] /\ Append(p, way) \in Places
      BY <2>3, TreeShape, WaysInto
    <3>2. f \in FirstMarks(x, Append(p, way))
      BY <2>3
    <3> HIDE DEF x, way
    <3>3. f[1] \in Beyond(Append(p, way))
      BY <1>1, <3>1, <3>2
    <3> QED
      BY <3>1, <3>3, BeyondNext
  <2> QED
    BY <2>1, <2>2, <2>3
<1>2. \A v \in JsonTrees : Weight[v] \in Nat
  BY TreeShape
<1>3. \A v \in JsonTrees : v \in S
  <2> HIDE DEF S
  <2> QED
    BY <1>1, <1>2, RankInduction
<1> QED
  BY <1>3

\* Different values of an object, and the first of an array, are at different places.
LEMMA WaysDiffer ==
    ASSUME NEW v \in JsonTrees, IsContainer(v), NEW i \in DOMAIN v.items, NEW j \in DOMAIN v.items,
           IsArr(v) => i = 1, IsArr(v) => j = 1, Way(v, i) = Way(v, j)
    PROVE  i = j
<1>1. CASE IsArr(v)
  BY <1>1
<1>2. CASE IsObj(v)
  <2>1. Into(v.keys[i]) = Into(v.keys[j])
    BY <1>2 DEF Way
  <2>2. v.keys[i] = v.keys[j]
    BY <2>1 DEF Into
  <2>3. DOMAIN v.keys = DOMAIN v.items /\ IsInjective(v.keys)
    BY <1>2, TreeShape
  <2> QED
    BY <2>2, <2>3 DEF IsInjective
<1> QED
  BY <1>1, <1>2 DEF IsContainer

\* First elements have one value at each place.
LEMMA OneFirst ==
    \A v \in JsonTrees : \A p \in Places : \A f, g \in FirstMarks(v, p) : f[1] = g[1] => f = g
<1> DEFINE S == {v \in JsonTrees : \A p \in Places : \A f, g \in FirstMarks(v, p) : f[1] = g[1] => f = g}
<1>1. ASSUME NEW v \in JsonTrees, \A u \in JsonTrees : Weight[u] < Weight[v] => u \in S
      PROVE  v \in S
  <2> SUFFICES ASSUME NEW p \in Places, NEW f \in FirstMarks(v, p), NEW g \in FirstMarks(v, p), f[1] = g[1]
               PROVE  f = g
    OBVIOUS
  <2> DEFINE own == <<p, Mark(v)>>
             In(h, i) == (IsArr(v) => i = 1) /\ h \in FirstMarks(v.items[i], Append(p, Way(v, i)))
  <2>1. \A h : h \in FirstMarks(v, p) <=> h = own \/ \E i \in DOMAIN v.items : IsContainer(v) /\ In(h, i)
    BY MarksAre
  <2>2. ASSUME IsContainer(v), NEW i \in DOMAIN v.items, NEW h, In(h, i)
        PROVE  Len(p) < Len(h[1]) /\ h[1][Len(p) + 1] = Way(v, i) /\ Len(p) \in Nat
    <3>1. v.items[i] \in JsonTrees /\ Append(p, Way(v, i)) \in Places
      BY <2>2, TreeShape, WaysInto
    <3>2. h[1] \in Beyond(Append(p, Way(v, i)))
      BY <2>2, <3>1, MarksBeyond
    <3> QED
      BY <3>1, <3>2, BeyondNext
  <2>3. ASSUME IsContainer(v), NEW i \in DOMAIN v.items, NEW h, In(h, i)
        PROVE  h[1] # own[1]
    <3>1. Len(p) < Len(h[1]) /\ Len(p) \in Nat /\ own[1] = p
      BY <2>2, <2>3
    <3> QED
      BY <3>1
  <2>4. ASSUME IsContainer(v), NEW i \in DOMAIN v.items, In(f, i), NEW j \in DOMAIN v.items, In(g, j)
        PROVE  f = g
    <3>1. f[1][Len(p) + 1] = Way(v, i) /\ g[1][Len(p) + 1] = Way(v, j)
      BY <2>2, <2>4
    <3>2. Way(v, i) = Way(v, j)
      BY <3>1
    <3>3. i = j
      BY <2>4, <3>2, WaysDiffer
    <3> DEFINE x == v.items[i]
               q == Append(p, Way(v, i))
    <3>4. x \in JsonTrees /\ Weight[x] < Weight[v] /\ q \in Places
      BY <2>4, TreeShape, WaysInto
    <3>5. f \in FirstMarks(x, q) /\ g \in FirstMarks(x, q)
      BY <2>4, <3>3
    <3> HIDE DEF x, q
    <3> QED
      BY <1>1, <3>4, <3>5
  <2>5. f = own \/ \E i \in DOMAIN v.items : IsContainer(v) /\ In(f, i)
    BY <2>1
  <2>6. g = own \/ \E i \in DOMAIN v.items : IsContainer(v) /\ In(g, i)
    BY <2>1
  <2> HIDE DEF own, In
  <2> QED
    BY <2>3, <2>4, <2>5, <2>6
<1>2. \A v \in JsonTrees : Weight[v] \in Nat
  BY TreeShape
<1>3. \A v \in JsonTrees : v \in S
  <2> HIDE DEF S
  <2> QED
    BY <1>1, <1>2, RankInduction
<1> QED
  BY <1>3

----------------------------------------------------------------------------
(* Merging, whatever the documents                                         *)

\* What has been merged is a document of the model, and only the result is new.
Merged ==
    /\ work.op = "merge" /\ work.data \in JsonTrees
    /\ result = Pending \/ result = [merged |-> ProcessObject(work.data, TRUE)]

\* Nothing but merging happens, once.
LEMMA MergedAlways == MergeSpec => []Merged
<1>1. MergeInit => Merged
  BY MergingAssumption DEF MergeInit, Merged
<1>2. Merged /\ [Merges]_<<work, result>> => Merged'
  <2> SUFFICES ASSUME Merged, [Merges]_<<work, result>> PROVE Merged'
    OBVIOUS
  <2>1. CASE Merges
    BY <2>1 DEF Merges, Merged
  <2>2. CASE UNCHANGED <<work, result>>
    BY <2>2 DEF Merged
  <2> QED
    BY <2>1, <2>2
<1> QED
  BY <1>1, <1>2, PTL DEF MergeSpec

\* What has been merged, and to what.
LEMMA MergedOf ==
    ASSUME Merged, Done("merge")
    PROVE  work.data \in JsonTrees /\ result.merged = Merge[Process(work.data)]
<1>1. result = [merged |-> ProcessObject(work.data, TRUE)]
  BY DEF Merged, Done
<1> QED
  BY <1>1 DEF Merged, ProcessObject

\* Merging the elements of arrays once is enough (processObject,
\* index.html:1397-1425): what is merged comes out of it as it is.
THEOREM AlwaysMergedOnce == MergeSpec => []MergedOnce
<1>1. Merged => MergedOnce
  <2> SUFFICES ASSUME Merged, Done("merge") PROVE ProcessObject(result.merged, TRUE) = result.merged
    BY DEF MergedOnce
  <2>1. work.data \in JsonTrees /\ result.merged = Merge[Process(work.data)]
    BY MergedOf
  <2>2. Merge[Process(Merge[Process(work.data)])] = Merge[Process(work.data)]
    BY <2>1, EverythingSettles
  <2> QED
    BY <2>1, <2>2 DEF ProcessObject
<1> QED
  BY <1>1, MergedAlways, PTL

\* The marks of what is merged, for the fields of a regular document.
LEMMA MergedMarks ==
    ASSUME Merged, Done("merge"), RegularDocument(work.data)
    PROVE  /\ work.data \in JsonTrees /\ result.merged \in JsonTrees /\ <<>> \in Places
           /\ Kept(AllMarks(work.data, <<>>), AllMarks(result.merged, <<>>))
           /\ Thin(result.merged, <<>>)
           /\ FirstMarks(result.merged, <<>>) \subseteq AllMarks(result.merged, <<>>)
<1> DEFINE top == <<>>
           v == work.data
           r == result.merged
<1>1. v \in JsonTrees /\ r = Merge[Process(v)]
  BY MergedOf
<1>2. top \in Places
  BY DEF Places
<1>3. Regular(AllMarks(v, top))
  BY DEF RegularDocument, AllMarks
<1> HIDE DEF top, v, r
<1>4. r \in JsonTrees
  BY <1>1, ProcessIs DEF ProcessedUnder
<1>5. Kept(AllMarks(v, top), AllMarks(r, top))
  <2>1. ProcessKeeps(v)
    BY <1>1, EverythingKept
  <2> QED
    BY <1>1, <1>2, <1>3, <2>1 DEF ProcessKeeps
<1>6. Thin(r, top)
  <2>1. ProcessThin(v)
    BY <1>1, EverythingThin
  <2> QED
    BY <1>1, <1>2, <1>3, <2>1 DEF ProcessThin
<1>7. FirstMarks(r, top) \subseteq AllMarks(r, top)
  BY <1>2, <1>4, FirstOfAll
<1> QED
  BY <1>1, <1>2, <1>4, <1>5, <1>6, <1>7 DEF top, v, r

\* The generator, which looks at first elements only, sees of a regular document
\* the fields of all its elements, and no others (mergeArrayItems,
\* index.html:1307-1391, "the complete structure").
THEOREM AlwaysFirstHasAllFields == MergeSpec => []FirstHasAllFields
<1>1. Merged => FirstHasAllFields
  <2> SUFFICES ASSUME Merged, Done("merge"), RegularDocument(work.data)
               PROVE  FieldPlaces(result.merged, TRUE) = FieldPlaces(work.data, FALSE)
    BY DEF FirstHasAllFields
  <2> DEFINE I == AllMarks(work.data, <<>>)
             J == AllMarks(result.merged, <<>>)
             F == FirstMarks(result.merged, <<>>)
  <2>1. Kept(I, J) /\ F \subseteq J /\ \A f \in J : InField(f[1]) => f \in F
    BY MergedMarks DEF Thin
  <2>2. /\ FieldPlaces(work.data, FALSE) = {f[1] : f \in {g \in I : InField(g[1])}}
        /\ FieldPlaces(result.merged, TRUE) = {f[1] : f \in {g \in F : InField(g[1])}}
    BY DEF FieldPlaces, Fields, AllMarks, FirstMarks
  <2> HIDE DEF I, J, F
  <2>3. ASSUME NEW f \in F, InField(f[1]) PROVE f \in I
    BY <2>1 DEF Kept
  <2>4. ASSUME NEW f \in I, InField(f[1]) PROVE \E g \in F : InField(g[1]) /\ g[1] = f[1]
    <3>1. PICK g \in J : g[1] = f[1]
      BY <2>1, <2>4 DEF Kept
    <3> QED
      BY <2>1, <2>4, <3>1
  <2> QED
    BY <2>2, <2>3, <2>4
<1> QED
  BY <1>1, MergedAlways, PTL

\* No field of a regular document loses a value that the generator could name a
\* type by: null and the empty text give way to it (deepMerge, index.html:1330-1348).
THEOREM AlwaysConcreteWins == MergeSpec => []ConcreteWins
<1>1. Merged => ConcreteWins
  <2> SUFFICES ASSUME Merged, Done("merge"), RegularDocument(work.data),
                      NEW f \in Fields(result.merged, TRUE), f[2] = "blank",
                      NEW g \in Fields(work.data, FALSE), g[1] = f[1]
               PROVE  g[2] = "blank"
    BY DEF ConcreteWins
  <2> DEFINE I == AllMarks(work.data, <<>>)
             J == AllMarks(result.merged, <<>>)
             F == FirstMarks(result.merged, <<>>)
  <2>1. Kept(I, J) /\ F \subseteq J /\ \A h \in J : InField(h[1]) => h \in F
    BY MergedMarks DEF Thin
  <2>2. \A h, k \in F : h[1] = k[1] => h = k
    BY MergedMarks, OneFirst
  <2>3. f \in F /\ g \in I /\ InField(g[1])
    BY DEF Fields, AllMarks, FirstMarks
  <2> HIDE DEF I, J, F
  <2>4. PICK h \in J : h[1] = g[1] /\ (g[2] # "blank" => h[2] # "blank")
    BY <2>1, <2>3 DEF Kept
  <2>5. h \in F
    BY <2>1, <2>3, <2>4
  <2>6. h = f
    BY <2>2, <2>3, <2>4, <2>5
  <2> QED
    BY <2>4, <2>6
<1> QED
  BY <1>1, MergedAlways, PTL

----------------------------------------------------------------------------
(* Types of fields                                                         *)

Declared == [key : FieldNames \cup {"data"}, type : GoTypes]

\* What is not a container is of a built-in type.
LEMMA AtomKinds ==
    ASSUME NEW v \in JsonTrees, ~IsContainer(v)
    PROVE  v.kind \in {"null", "number", "string"} /\ v.kind \in BuiltIn /\ (v.kind = "null" => v = Null)
<1>1. v.kind \in {"null", "number", "string"} /\ (v.kind = "null" => v = Null)
  BY TreeShape DEF Atoms, Null
<1> QED
  BY <1>1 DEF BuiltIn

\* null is a document, and no container.
LEMMA NullIsTree == Null \in JsonTrees /\ ~IsContainer(Null) /\ Null \notin Containers
  BY AtomsAreTrees DEF Atoms, Containers

\* Named types are types.
LEMMA TypeMade ==
    ASSUME NEW dims \in Nat, NEW name \in TypeNames
    PROVE  /\ Type(dims, name) \in GoTypes
           /\ Type(dims, name).dims = dims /\ Type(dims, name).name = name
  BY NullIsTree DEF Type, GoTypes

\* Types in place are types.
LEMMA InlineMade ==
    ASSUME NEW dims \in Nat, NEW v \in JsonTrees
    PROVE  /\ Inline(dims, v) \in GoTypes
           /\ Inline(dims, v).dims = dims /\ Inline(dims, v).name = "struct" /\ Inline(dims, v).of = v
<1>1. "struct" \in TypeNames
  BY DEF TypeNames
<1> QED
  BY <1>1 DEF Inline, GoTypes

\* More brackets before a type.
LEMMA NestedMade ==
    ASSUME NEW n \in Nat, NEW type \in GoTypes
    PROVE  /\ Nested(n, type) \in GoTypes
           /\ Nested(n, type) = [dims |-> n + type.dims, name |-> type.name, of |-> type.of]
<1>1. type.dims \in Nat /\ type.name \in TypeNames /\ type.of \in JsonTrees
      /\ type = [dims |-> type.dims, name |-> type.name, of |-> type.of]
  BY DEF GoTypes
<1>2. Nested(n, type) = [dims |-> n + type.dims, name |-> type.name, of |-> type.of]
  BY <1>1 DEF Nested
<1> QED
  BY <1>1, <1>2 DEF GoTypes

\* inferType gives a type, of what is no array of arrays or objects.
LEMMA BasicTypes ==
    ASSUME NEW v \in JsonTrees, IsArr(v) /\ v.items # <<>> => ~IsContainer(v.items[1])
    PROVE  BasicType(v) \in GoTypes
<1>0. "interface{}" \in TypeNames /\ AnyMap \in TypeNames /\ BuiltIn \subseteq TypeNames /\ 0 \in Nat /\ 1 \in Nat
  BY DEF TypeNames, BuiltIn
<1>1. CASE IsArr(v)
  <2>1. v.items # <<>> => v.items[1] \in JsonTrees
    BY <1>1, TreeShape
  <2>2. v.items # <<>> => v.items[1].kind \in TypeNames
    BY <1>0, <1>1, <2>1, AtomKinds
  <2>3. /\ v.items = <<>> => BasicType(v) = Type(1, "interface{}")
        /\ v.items # <<>> => BasicType(v) = Type(1, v.items[1].kind)
    BY <1>1, TreeShape DEF BasicType
  <2>4. CASE v.items = <<>>
    BY <1>0, <2>3, <2>4, TypeMade
  <2>5. CASE v.items # <<>>
    <3>1. PICK name \in TypeNames : BasicType(v) = Type(1, name)
      BY <2>2, <2>3, <2>5
    <3> QED
      BY <1>0, <3>1, TypeMade
  <2> QED
    BY <2>4, <2>5
<1>2. CASE IsObj(v)
  <2>1. BasicType(v) = Type(0, AnyMap)
    BY <1>2, TreeShape DEF BasicType
  <2> QED
    BY <1>0, <2>1, TypeMade
<1>3. CASE ~IsContainer(v)
  <2>1. BasicType(v) = Type(0, v.kind)
    BY <1>3 DEF BasicType, IsContainer
  <2>2. v.kind \in TypeNames
    BY <1>0, <1>3, AtomKinds
  <2> QED
    BY <1>0, <2>1, <2>2, TypeMade
<1> QED
  BY <1>1, <1>2, <1>3 DEF IsContainer

\* What is in an array of arrays or objects.
LEMMA MatrixOrTable ==
    ASSUME NEW w \in JsonTrees
    PROVE  /\ IsMatrix(w) => /\ IsArr(w) /\ ~IsObj(w) /\ IsContainer(w) /\ ~IsTable(w)
                             /\ w.items[1] \in JsonTrees /\ Weight[w.items[1]] < Weight[w]
                             /\ IsArr(w.items[1]) /\ ~IsObj(w.items[1])
                             /\ w.items[1].items # <<>> =>
                                   /\ w.items[1].items[1] \in JsonTrees
                                   /\ Weight[w.items[1].items[1]] < Weight[w]
           /\ IsTable(w) => /\ IsArr(w) /\ ~IsObj(w) /\ IsContainer(w) /\ ~IsMatrix(w)
                            /\ w.items[1] \in JsonTrees /\ Weight[w.items[1]] < Weight[w]
                            /\ IsObj(w.items[1]) /\ ~IsArr(w.items[1])
           /\ IsArr(w) /\ w.items # <<>> => w.items[1] \in JsonTrees /\ Weight[w.items[1]] < Weight[w]
<1>1. ASSUME NEW a \in JsonTrees, IsArr(a), a.items # <<>>
      PROVE  a.items[1] \in JsonTrees /\ Weight[a.items[1]] < Weight[a] /\ Weight[a.items[1]] \in Nat
    BY <1>1, TreeShape
<1>2. \A a \in JsonTrees : Weight[a] \in Nat /\ (IsArr(a) => ~IsObj(a) /\ IsContainer(a))
  BY TreeShape
<1>3. IsMatrix(w) /\ w.items[1].items # <<>> =>
         w.items[1].items[1] \in JsonTrees /\ Weight[w.items[1].items[1]] < Weight[w]
  BY <1>1, <1>2 DEF IsMatrix
<1> QED
  BY <1>1, <1>2, <1>3 DEF IsMatrix, IsTable

\* What a struct is generated for is in the value, or is the value.
LEMMA Reference ==
    ASSUME NEW w \in JsonTrees, NEW inline \in BOOLEAN, Referenced(w, inline) # Null
    PROVE  /\ Referenced(w, inline) \in Containers /\ IsContainer(w)
           /\ Weight[Referenced(w, inline)] <= Weight[w]
           /\ \/ /\ IsMatrix(w) /\ w.items[1].items # <<>>
                 /\ Referenced(w, inline) = w.items[1].items[1]
                 /\ Keys(w.items[1].items[1]) # <<>>
              \/ ~inline /\ IsTable(w) /\ Referenced(w, inline) = w.items[1]
              \/ ~inline /\ IsObj(w) /\ Referenced(w, inline) = w /\ Keys(w) # <<>>
<1> DEFINE r == Referenced(w, inline)
           item == NestedItem(w.items[1])
<1>1. \A v \in JsonTrees : Weight[v] \in Nat /\ (IsObj(v) => IsContainer(v))
  BY TreeShape
<1>2. r = CASE IsMatrix(w) /\ IsContainer(item) /\ Keys(item) # <<>> -> item
            [] IsTable(w) /\ ~inline -> w.items[1]
            [] IsObj(w) /\ Keys(w) # <<>> /\ ~inline -> w
            [] OTHER -> Null
  BY DEF Referenced
<1>3. CASE IsMatrix(w) /\ IsContainer(item) /\ Keys(item) # <<>>
  <2>1. item # EmptyObj
    BY <1>3 DEF Keys, EmptyObj, Obj, IsObj
  <2>2. w.items[1].items # <<>> /\ item = w.items[1].items[1]
    BY <2>1 DEF NestedItem
  <2>3. ~IsTable(w) /\ ~IsObj(w)
    BY <1>3, MatrixOrTable
  <2> HIDE DEF r, item
  <2>4. r = item
    BY <1>2, <1>3, <2>3
  <2> QED
    BY <1>1, <1>3, <2>2, <2>4, MatrixOrTable DEF Containers, r
<1>4. CASE ~(IsMatrix(w) /\ IsContainer(item) /\ Keys(item) # <<>>)
  <2> HIDE DEF item
  <2>1. \/ IsTable(w) /\ ~inline /\ r = w.items[1]
        \/ IsObj(w) /\ Keys(w) # <<>> /\ ~inline /\ r = w
    <3>1. r # Null
      OBVIOUS
    <3>2. IsTable(w) => ~IsObj(w)
      BY MatrixOrTable
    <3> HIDE DEF r
    <3> QED
      BY <1>2, <1>4, <3>1, <3>2
  <2> HIDE DEF r
  <2> QED
    BY <1>1, <2>1, MatrixOrTable DEF Containers, r
<1> QED
  BY <1>3, <1>4

\* The name of a struct that is referred to.
LEMMA ReferenceName ==
    ASSUME NEW w \in JsonTrees, NEW k \in FieldNames
    PROVE  /\ IsMatrix(w) => ReferencedName(k, w) = Names[k].matrix
           /\ IsTable(w)  => ReferencedName(k, w) = Names[k].item
           /\ IsObj(w)    => ReferencedName(k, w) = Names[k].type
           /\ IsMatrix(w) \/ IsTable(w) \/ IsObj(w) => ReferencedName(k, w) \in StructNames
<1>1. Names[k] \in [type : StructNames, item : StructNames, matrix : StructNames]
  BY GoAssumption
<1>2. (IsMatrix(w) => ~IsTable(w) /\ ~IsObj(w)) /\ (IsTable(w) => ~IsObj(w))
  BY MatrixOrTable
<1>3. /\ IsMatrix(w) => ReferencedName(k, w) = Names[k].matrix
      /\ IsTable(w)  => ReferencedName(k, w) = Names[k].item
      /\ IsObj(w)    => ReferencedName(k, w) = Names[k].type
  BY <1>2 DEF ReferencedName
<1> QED
  BY <1>1, <1>3

\* A container has keys if something is in it.
LEMMA SomeKeys ==
    ASSUME NEW v \in JsonTrees, IsContainer(v)
    PROVE  Keys(v) = <<>> <=> v.items = <<>>
<1>1. CASE IsObj(v)
  <2>1. Keys(v) = v.keys /\ v.keys \in Seq(FieldNames) /\ Len(v.items) = Len(v.keys) /\ v.items \in Seq(JsonTrees)
    BY <1>1, TreeShape, TreeKeys
  <2> QED
    BY <2>1
<1>2. CASE IsArr(v)
  <2>0. v.items \in Seq(JsonTrees) /\ ~IsObj(v)
    BY <1>2, TreeShape
  <2>1. Keys(v) = IndexOf(v.items) /\ v.items \in Seq(JsonTrees)
    BY <1>2, <2>0 DEF Keys, IsArr, IsObj, IndexOf
  <2>2. DOMAIN IndexOf(v.items) = DOMAIN v.items \cap DOMAIN Index
    BY DEF IndexOf
  <2>3. 1 \in DOMAIN Index
    BY IndexAssumption
  <2>4. v.items = <<>> <=> 1 \notin DOMAIN v.items
    BY <2>1
  <2>5. IndexOf(v.items) = <<>> => 1 \notin DOMAIN IndexOf(v.items)
    OBVIOUS
  <2>6. v.items = <<>> => IndexOf(v.items) = <<>>
    BY DEF IndexOf
  <2> QED
    BY <2>1, <2>2, <2>3, <2>4, <2>5, <2>6
<1> QED
  BY <1>1, <1>2 DEF IsContainer

\* What stands for the elements of an array of arrays if no struct is made for it.
LEMMA PlainMatrix ==
    ASSUME NEW w \in JsonTrees, NEW inline \in BOOLEAN, IsMatrix(w), Referenced(w, inline) = Null,
           NEW items, items = w.items[1].items, NEW item, item = NestedItem(w.items[1])
    PROVE  \/ item = EmptyObj /\ (items = <<>> \/ Falsy(items[1]))
           \/ /\ items # <<>> /\ item = items[1] /\ item \in JsonTrees /\ ~Falsy(item)
              /\ IsContainer(item) => item.items = <<>>
<1>1. item = IF items = <<>> \/ Falsy(items[1]) THEN EmptyObj ELSE items[1]
  BY DEF NestedItem
<1>2. ASSUME items # <<>>, ~Falsy(items[1])
      PROVE  item = items[1] /\ item \in JsonTrees /\ (IsContainer(item) => item.items = <<>>)
  <2>1. item = items[1] /\ item \in JsonTrees
    BY <1>1, <1>2, MatrixOrTable
  <2>2. Referenced(w, inline) = IF IsContainer(item) /\ Keys(item) # <<>> THEN item ELSE Null
    <3>1. ~IsTable(w) /\ ~IsObj(w)
      BY MatrixOrTable
    <3> QED
      BY <3>1 DEF Referenced
  <2>3. item # Null
    BY <1>2, <2>1 DEF Falsy
  <2> QED
    BY <2>1, <2>2, <2>3, SomeKeys
<1> QED
  BY <1>1, <1>2

\* The type of a field, case by case.
LEMMA FieldTypeCases ==
    ASSUME NEW w \in JsonTrees, NEW k \in FieldNames, NEW inline \in BOOLEAN,
           NEW r, r = Referenced(w, inline), NEW type, type = FieldTypeOf(k, w, inline)
    PROVE  /\ r # Null => type = Type(IF IsMatrix(w) THEN 2 ELSE IF IsTable(w) THEN 1 ELSE 0, ReferencedName(k, w))
           /\ r = Null =>
                 /\ IsMatrix(w) => type = Nested(2, BasicType(NestedItem(w.items[1])))
                 /\ IsTable(w) => type = Inline(1, w.items[1])
                 /\ IsObj(w) /\ Keys(w) = <<>> => type = Type(0, AnyMap)
                 /\ IsObj(w) /\ Keys(w) # <<>> => type = Inline(0, w)
                 /\ IsArr(w) /\ w.items # <<>> /\ ~IsContainer(w.items[1]) =>
                       type = Nested(1, BasicType(w.items[1]))
                 /\ ~IsContainer(w) \/ (IsArr(w) /\ w.items = <<>>) => type = BasicType(w)
           /\ IsMatrix(w) \/ IsTable(w) \/ IsObj(w)
              \/ (IsArr(w) /\ w.items # <<>> /\ ~IsContainer(w.items[1]))
              \/ ~IsContainer(w) \/ (IsArr(w) /\ w.items = <<>>)
<1> DEFINE a == IsArr(w)
           o == IsObj(w)
           e == w.items = <<>>
           ca == IsArr(w.items[1])
           co == IsObj(w.items[1])
           m == IsMatrix(w)
           t == IsTable(w)
<1>1. /\ m = (a /\ ~e /\ ca) /\ t = (a /\ ~e /\ co)
      /\ IsContainer(w) = (a \/ o) /\ IsContainer(w.items[1]) = (ca \/ co)
      /\ ~(a /\ o) /\ ~(ca /\ co)
  BY DEF IsMatrix, IsTable, IsContainer, IsArr, IsObj
<1>2. type = CASE r # Null -> Type(IF m THEN 2 ELSE IF t THEN 1 ELSE 0, ReferencedName(k, w))
               [] m /\ r = Null -> Nested(2, BasicType(NestedItem(w.items[1])))
               [] t /\ r = Null -> Inline(1, w.items[1])
               [] o /\ r = Null -> IF Keys(w) = <<>> THEN Type(0, AnyMap) ELSE Inline(0, w)
               [] a /\ ~e /\ ~IsContainer(w.items[1]) -> Nested(1, BasicType(w.items[1]))
               [] ~IsContainer(w) \/ (a /\ e) -> BasicType(w)
  BY DEF FieldTypeOf
<1>3. m \in BOOLEAN /\ t \in BOOLEAN /\ a \in BOOLEAN /\ o \in BOOLEAN /\ e \in BOOLEAN /\ ca \in BOOLEAN /\ co \in BOOLEAN
  BY DEF IsMatrix, IsTable, IsArr, IsObj
<1> HIDE DEF a, o, e, ca, co, m, t
<1>4. r # Null => type = Type(IF m THEN 2 ELSE IF t THEN 1 ELSE 0, ReferencedName(k, w))
  <2>1. r # Null => m \/ t \/ o
    BY Reference DEF m, t, o
  <2> QED
    BY <1>1, <1>2, <1>3, <2>1
<1>5. r = Null =>
            /\ m => type = Nested(2, BasicType(NestedItem(w.items[1])))
            /\ t => type = Inline(1, w.items[1])
            /\ o /\ Keys(w) = <<>> => type = Type(0, AnyMap)
            /\ o /\ Keys(w) # <<>> => type = Inline(0, w)
            /\ a /\ ~e /\ ~(ca \/ co) => type = Nested(1, BasicType(w.items[1]))
            /\ ~(a \/ o) \/ (a /\ e) => type = BasicType(w)
  BY <1>1, <1>2, <1>3
<1>6. m \/ t \/ o \/ (a /\ ~e /\ ~(ca \/ co)) \/ ~(a \/ o) \/ (a /\ e)
  BY <1>1, <1>3
<1> QED
  BY <1>1, <1>4, <1>5, <1>6 DEF a, o, e, m, t

\* The type of a field is a type.
LEMMA FieldTypes ==
    ASSUME NEW w \in JsonTrees, NEW k \in FieldNames, NEW inline \in BOOLEAN
    PROVE  FieldTypeOf(k, w, inline) \in GoTypes
<1> DEFINE r == Referenced(w, inline)
           type == FieldTypeOf(k, w, inline)
<1>0. 0 \in Nat /\ 1 \in Nat /\ 2 \in Nat /\ AnyMap \in TypeNames /\ StructNames \subseteq TypeNames
  BY DEF TypeNames, BuiltIn
<1>1. CASE r # Null
  <2>1. IsMatrix(w) \/ IsTable(w) \/ IsObj(w)
    BY <1>1, Reference
  <2>2. ReferencedName(k, w) \in TypeNames
    BY <1>0, <2>1, ReferenceName
  <2>3. PICK n \in Nat : type = Type(n, ReferencedName(k, w))
    BY <1>1, FieldTypeCases
  <2> QED
    BY <2>2, <2>3, TypeMade
<1>2. CASE r = Null /\ IsMatrix(w)
  <2> DEFINE item == NestedItem(w.items[1])
  <2>1. type = Nested(2, BasicType(item))
    BY <1>2, FieldTypeCases
  <2>2. item = EmptyObj \/ (item \in JsonTrees /\ (IsContainer(item) => item.items = <<>>))
    <3>1. Referenced(w, inline) = Null /\ IsMatrix(w)
      BY <1>2
    <3> QED
      BY <3>1, PlainMatrix
  <2> HIDE DEF item
  <2>3. item = EmptyObj => BasicType(item) = Type(0, AnyMap)
    BY DEF BasicType, EmptyObj, Obj, IsObj, IsArr
  <2>4. BasicType(item) \in GoTypes
    <3>1. CASE item = EmptyObj
      BY <1>0, <2>3, <3>1, TypeMade
    <3>2. CASE item \in JsonTrees /\ (IsContainer(item) => item.items = <<>>)
      <4>1. IsArr(item) => IsContainer(item)
        BY DEF IsContainer
      <4> QED
        BY <3>2, <4>1, BasicTypes
    <3> QED
      BY <2>2, <3>1, <3>2
  <2> QED
    BY <1>0, <2>1, <2>4, NestedMade
<1>3. CASE r = Null /\ IsTable(w)
  <2>1. type = Inline(1, w.items[1]) /\ w.items[1] \in JsonTrees
    BY <1>3, FieldTypeCases, MatrixOrTable
  <2> QED
    BY <1>0, <2>1, InlineMade
<1>4. CASE r = Null /\ IsObj(w)
  <2>1. type = Type(0, AnyMap) \/ type = Inline(0, w)
    BY <1>4, FieldTypeCases
  <2> QED
    BY <1>0, <2>1, TypeMade, InlineMade
<1>5. CASE r = Null /\ IsArr(w) /\ w.items # <<>> /\ ~IsContainer(w.items[1])
  <2>1. type = Nested(1, BasicType(w.items[1])) /\ w.items[1] \in JsonTrees
    BY <1>5, FieldTypeCases, MatrixOrTable
  <2>2. IsArr(w.items[1]) => IsContainer(w.items[1])
    BY DEF IsContainer
  <2>3. BasicType(w.items[1]) \in GoTypes
    BY <1>5, <2>1, <2>2, BasicTypes
  <2> QED
    BY <1>0, <2>1, <2>3, NestedMade
<1>6. CASE r = Null /\ (~IsContainer(w) \/ (IsArr(w) /\ w.items = <<>>))
  <2>1. type = BasicType(w)
    BY <1>6, FieldTypeCases
  <2>2. IsArr(w) => IsContainer(w)
    BY DEF IsContainer
  <2> QED
    BY <1>6, <2>1, <2>2, BasicTypes
<1> QED
  BY <1>1, <1>2, <1>3, <1>4, <1>5, <1>6, FieldTypeCases

\* The fields of a struct are in the order of the keys.
LEMMA FieldsType ==
    ASSUME NEW v \in Containers, NEW inline \in BOOLEAN
    PROVE  /\ FieldsOf(v, inline) \in Seq(Declared)
           /\ DOMAIN FieldsOf(v, inline) = DOMAIN Keys(v)
           /\ \A i \in DOMAIN Keys(v) :
                 /\ FieldsOf(v, inline)[i] = FieldOf(Keys(v)[i], FieldTypeOf(Keys(v)[i], v.items[i], inline))
                 /\ FieldsOf(v, inline)[i] \in Declared
                 /\ Keys(v)[i] \in FieldNames /\ v.items[i] \in JsonTrees /\ Weight[v.items[i]] < Weight[v]
<1>1. v \in JsonTrees /\ IsContainer(v)
  BY DEF Containers
<1> DEFINE keys == Keys(v)
           f(i) == FieldOf(keys[i], FieldTypeOf(keys[i], v.items[i], inline))
<1>2. /\ keys \in Seq(FieldNames) /\ DOMAIN keys = 1 .. Len(keys) /\ Len(keys) \in Nat
      /\ \A i \in DOMAIN keys : keys[i] \in FieldNames /\ i \in DOMAIN v.items
  BY <1>1, TreeKeys
<1>3. FieldsOf(v, inline) = [i \in DOMAIN keys |-> f(i)]
  BY DEF FieldsOf
<1> HIDE DEF keys
<1>4. ASSUME NEW i \in DOMAIN keys
      PROVE  /\ f(i) \in Declared /\ keys[i] \in FieldNames
             /\ v.items[i] \in JsonTrees /\ Weight[v.items[i]] < Weight[v]
  <2>1. keys[i] \in FieldNames /\ v.items[i] \in JsonTrees /\ Weight[v.items[i]] < Weight[v]
    BY <1>1, <1>2, TreeShape
  <2>2. FieldTypeOf(keys[i], v.items[i], inline) \in GoTypes
    BY <2>1, FieldTypes
  <2> QED
    BY <2>1, <2>2 DEF FieldOf, Declared
<1> HIDE DEF f
<1>5. [i \in DOMAIN keys |-> f(i)] \in Seq(Declared)
  BY <1>2, <1>4
<1> QED
  BY <1>3, <1>4, <1>5 DEF keys, f
----------------------------------------------------------------------------
(* The structs of a document                                               *)

\* What genGoStruct returns, and leaves in allStructs.
Returned == [fields : Seq(Declared), all : SUBSET Structs]

StructBody(struct, v, call, all) ==
    LET below  == StructsBelow(struct, v, call.inline, call.depth, all)
        fields == FieldsOf(v, call.inline)
    IN  IF call.depth > MaxDepth
        THEN [fields |-> <<FieldOf("data", Type(0, AnyMap))>>, all |-> all]
        ELSE [fields |-> fields,
              all    |-> IF IsNoted(call.name, below) THEN below
                         ELSE below \cup {StructOf(call.name, fields)}]

Generators == [GoCalls -> [SUBSET Structs -> Returned]]

\* A struct with fields of the right type is one.
LEMMA StructMade ==
    ASSUME NEW structs \in SUBSET Structs, NEW name \in StructNames, NEW fields \in Seq(Declared)
    PROVE  /\ StructOf(name, fields) \in Structs
           /\ Noting(structs, name, fields) \in SUBSET Structs
           /\ structs \cup {StructOf(name, fields)} \in SUBSET Structs
<1>1. StructOf(name, fields) \in Structs
  BY DEF StructOf, Structs, Declared
<1> QED
  BY <1>1 DEF Noting

\* A field refers to a struct of something lighter.
LEMMA ReferredCall ==
    ASSUME NEW v \in Containers, NEW i \in DOMAIN Keys(v), NEW inline \in BOOLEAN, NEW depth \in Nat,
           NEW r, r = Referenced(v.items[i], inline), r # Null,
           NEW name, name = ReferencedName(Keys(v)[i], v.items[i])
    PROVE  /\ r \in Containers /\ Weight[r] < Weight[v]
           /\ name \in StructNames
<1>1. Keys(v)[i] \in FieldNames /\ v.items[i] \in JsonTrees /\ Weight[v.items[i]] < Weight[v]
  BY FieldsType
<1>2. r \in Containers /\ Weight[r] <= Weight[v.items[i]]
      /\ (IsMatrix(v.items[i]) \/ IsTable(v.items[i]) \/ IsObj(v.items[i]))
  BY <1>1, Reference
<1>3. Weight[r] \in Nat /\ Weight[v.items[i]] \in Nat /\ Weight[v] \in Nat
  BY <1>1, <1>2, TreeShape DEF Containers
<1>4. name \in StructNames
  BY <1>1, <1>2, ReferenceName
<1> QED
  BY <1>1, <1>2, <1>3, <1>4

\* Structs referred to, if generating lighter ones is as it should be.
LEMMA ReferredType ==
    ASSUME NEW v \in Containers, NEW i \in DOMAIN Keys(v), NEW inline \in BOOLEAN, NEW depth \in Nat,
           NEW g, \A u \in Containers : Weight[u] < Weight[v] => g[u] \in Generators,
           NEW all \in SUBSET Structs
    PROVE  Referred(g, Keys(v)[i], v.items[i], inline, depth, all) \in SUBSET Structs
<1> DEFINE r == Referenced(v.items[i], inline)
           name == ReferencedName(Keys(v)[i], v.items[i])
           s == g[r][GoCall(name, FALSE, depth + 1)][all]
           after == Referred(g, Keys(v)[i], v.items[i], inline, depth, all)
<1>1. after = IF r = Null \/ IsNoted(name, all) THEN all ELSE Noting(s.all, name, s.fields)
  BY DEF Referred
<1>0. r = Referenced(v.items[i], inline) /\ name = ReferencedName(Keys(v)[i], v.items[i])
      /\ s = g[r][GoCall(name, FALSE, depth + 1)][all]
  OBVIOUS
<1> HIDE DEF r, name, s, after
<1>2. ASSUME r # Null PROVE Noting(s.all, name, s.fields) \in SUBSET Structs
  <2>1. r \in Containers /\ Weight[r] < Weight[v] /\ name \in StructNames /\ GoCall(name, FALSE, depth + 1) \in GoCalls
    <3>1. r \in Containers /\ Weight[r] < Weight[v] /\ name \in StructNames
      BY <1>0, <1>2, ReferredCall
    <3>2. GoCall(name, FALSE, depth + 1) \in GoCalls
      BY <3>1 DEF GoCall, GoCalls
    <3> QED
      BY <3>1, <3>2
  <2>2. s \in Returned
    <3>1. PICK call \in GoCalls : call = GoCall(name, FALSE, depth + 1)
      BY <2>1
    <3>2. g[r] \in [GoCalls -> [SUBSET Structs -> Returned]]
      BY <2>1 DEF Generators
    <3>3. g[r][call][all] \in Returned
      BY <3>2
    <3> QED
      BY <1>0, <3>1, <3>3
  <2> QED
    BY <2>1, <2>2, StructMade DEF Returned
<1>3. after \in SUBSET Structs
  BY <1>1, <1>2
<1> QED
  BY <1>3 DEF after

\* They depend on lighter ones only.
LEMMA ReferredSame ==
    ASSUME NEW v \in Containers, NEW i \in DOMAIN Keys(v), NEW inline \in BOOLEAN, NEW depth \in Nat,
           NEW g, NEW h, \A u \in Containers : Weight[u] < Weight[v] => g[u] = h[u],
           NEW all
    PROVE  Referred(g, Keys(v)[i], v.items[i], inline, depth, all) =
           Referred(h, Keys(v)[i], v.items[i], inline, depth, all)
<1> DEFINE r == Referenced(v.items[i], inline)
<1>1. CASE r = Null
  BY <1>1 DEF Referred
<1>2. CASE r # Null
  <2>1. r \in Containers /\ Weight[r] < Weight[v]
    BY <1>2, ReferredCall
  <2>2. g[r] = h[r]
    BY <2>1
  <2> QED
    BY <2>2 DEF Referred
<1> QED
  BY <1>1, <1>2

\* The loop over the fields.
Steps(g, v, inline, depth) ==
    [i \in DOMAIN Keys(v) |-> [acc \in SUBSET Structs |->
        Referred(g, Keys(v)[i], v.items[i], inline, depth, acc)]]

\* There is a step for each field.
LEMMA StepsLength ==
    ASSUME NEW v \in Containers, NEW g, NEW inline, NEW depth
    PROVE  /\ Len(Steps(g, v, inline, depth)) = Len(Keys(v)) /\ Len(Keys(v)) \in Nat
           /\ DOMAIN Keys(v) = 1 .. Len(Keys(v))
           /\ \A i \in 1 .. Len(Keys(v)) : \A acc \in SUBSET Structs :
                 Steps(g, v, inline, depth)[i][acc] = Referred(g, Keys(v)[i], v.items[i], inline, depth, acc)
<1>1. DOMAIN Keys(v) = 1 .. Len(Keys(v)) /\ Len(Keys(v)) \in Nat
  BY TreeKeys DEF Containers
<1> QED
  BY <1>1 DEF Steps

\* The loop gives structs, if generating lighter ones does.
LEMMA BelowType ==
    ASSUME NEW v \in Containers, NEW inline \in BOOLEAN, NEW depth \in Nat,
           NEW g, \A u \in Containers : Weight[u] < Weight[v] => g[u] \in Generators,
           NEW all \in SUBSET Structs
    PROVE  StructsBelow(g, v, inline, depth, all) \in SUBSET Structs
<1> DEFINE fs == Steps(g, v, inline, depth)
<1>1. StructsBelow(g, v, inline, depth, all) = Outcome(fs, all)
  BY DEF StructsBelow, Steps
<1>2. Len(fs) = Len(Keys(v)) /\ Len(Keys(v)) \in Nat /\ DOMAIN Keys(v) = 1 .. Len(Keys(v))
  BY StepsLength
<1>3. ASSUME NEW n \in 1 .. Len(fs) PROVE fs[n] \in [SUBSET Structs -> SUBSET Structs]
  <2>1. \A acc \in SUBSET Structs : Referred(g, Keys(v)[n], v.items[n], inline, depth, acc) \in SUBSET Structs
    BY <1>2, ReferredType
  <2> QED
    BY <1>2, <2>1 DEF Steps
<1> DEFINE V == SUBSET Structs
<1>4. Len(fs) \in Nat /\ all \in V /\ \A n \in 1 .. Len(fs) : fs[n] \in [V -> V]
  BY <1>2, <1>3
<1> HIDE DEF fs, V
<1>5. Outcome(fs, all) \in V
  BY <1>4, ThroughType
<1> QED
  BY <1>1, <1>5 DEF V

\* The loop depends on lighter ones only.
LEMMA BelowSame ==
    ASSUME NEW v \in Containers, NEW inline \in BOOLEAN, NEW depth \in Nat,
           NEW g, NEW h, \A u \in Containers : Weight[u] < Weight[v] => g[u] = h[u],
           NEW all
    PROVE  StructsBelow(g, v, inline, depth, all) = StructsBelow(h, v, inline, depth, all)
<1>1. \A i \in DOMAIN Keys(v) : \A acc \in SUBSET Structs :
         Referred(g, Keys(v)[i], v.items[i], inline, depth, acc) =
         Referred(h, Keys(v)[i], v.items[i], inline, depth, acc)
  BY ReferredSame
<1>2. Steps(g, v, inline, depth) = Steps(h, v, inline, depth)
  BY <1>1 DEF Steps
<1> QED
  BY <1>2 DEF StructsBelow, Steps

\* One struct, if generating lighter ones is as it should be.
LEMMA StructStep ==
    ASSUME NEW v \in Containers, NEW call \in GoCalls, NEW all \in SUBSET Structs,
           NEW g, \A u \in Containers : Weight[u] < Weight[v] => g[u] \in Generators
    PROVE  StructBody(g, v, call, all) \in Returned
<1> DEFINE below == StructsBelow(g, v, call.inline, call.depth, all)
           fields == FieldsOf(v, call.inline)
<1>1. call.inline \in BOOLEAN /\ call.depth \in Nat /\ call.name \in StructNames
  BY DEF GoCalls
<1>2. below \in SUBSET Structs
  BY <1>1, BelowType
<1>3. fields \in Seq(Declared)
  BY <1>1, FieldsType
<1>4. <<FieldOf("data", Type(0, AnyMap))>> \in Seq(Declared)
  <2>1. Type(0, AnyMap) \in GoTypes
    <3>1. AnyMap \in TypeNames /\ 0 \in Nat
      BY DEF TypeNames, BuiltIn
    <3> QED
      BY <3>1, TypeMade
  <2>2. FieldOf("data", Type(0, AnyMap)) \in Declared
    BY <2>1 DEF FieldOf, Declared
  <2> QED
    BY <2>2
<1>6. StructBody(g, v, call, all) =
         IF call.depth > MaxDepth
         THEN [fields |-> <<FieldOf("data", Type(0, AnyMap))>>, all |-> all]
         ELSE [fields |-> fields,
               all    |-> IF IsNoted(call.name, below) THEN below ELSE below \cup {StructOf(call.name, fields)}]
  BY DEF StructBody
<1> HIDE DEF below, fields
<1>5. below \cup {StructOf(call.name, fields)} \in SUBSET Structs
  BY <1>1, <1>2, <1>3, StructMade
<1> QED
  BY <1>2, <1>3, <1>4, <1>5, <1>6 DEF Returned

\* What genGoStruct computes.
LEMMA StructRecurs ==
    \A v \in Containers, call \in GoCalls, all \in SUBSET Structs :
        Struct[v][call][all] = StructBody(Struct, v, call, all) /\ Struct[v][call][all] \in Returned
<1> DEFINE V == Generators
           Of(v, g) == [call \in GoCalls |-> [all \in SUBSET Structs |-> StructBody(g, v, call, all)]]
           step == [v \in Containers |-> [g \in [Containers -> V] |-> Of(v, g)]]
           rank == [v \in Containers |-> Weight[v]]
<1>1. ASSUME NEW v \in Containers, NEW g, \A u \in Containers : rank[u] < rank[v] => g[u] \in V
      PROVE  Of(v, g) \in V
  <2>1. \A call \in GoCalls, all \in SUBSET Structs : StructBody(g, v, call, all) \in Returned
    BY <1>1, StructStep
  <2> QED
    BY <2>1 DEF Generators
<1>2. ASSUME NEW v \in Containers, NEW g, NEW h, \A u \in Containers : rank[u] < rank[v] => g[u] = h[u]
      PROVE  Of(v, g) = Of(v, h)
  <2>1. ASSUME NEW call \in GoCalls, NEW all \in SUBSET Structs
        PROVE  StructBody(g, v, call, all) = StructBody(h, v, call, all)
    <3>1. call.inline \in BOOLEAN /\ call.depth \in Nat
      BY DEF GoCalls
    <3>2. StructsBelow(g, v, call.inline, call.depth, all) = StructsBelow(h, v, call.inline, call.depth, all)
      BY <1>2, <3>1, BelowSame
    <3> QED
      BY <3>2 DEF StructBody
  <2> QED
    BY <2>1
<1>3. rank \in [Containers -> Nat]
  BY TreeShape DEF Containers
<1> HIDE DEF Of, V, rank
<1>4. V # {}
  <2>1. [fields |-> <<>>, all |-> {}] \in Returned
    BY DEF Returned
  <2>2. [call \in GoCalls |-> [all \in SUBSET Structs |-> [fields |-> <<>>, all |-> {}]]] \in Generators
    BY <2>1 DEF Generators
  <2> QED
    BY <2>2 DEF V
<1>5. Determined(Containers, V, rank, step)
  <2>1. \A v \in Containers : \A g \in [Containers -> V] : step[v][g] = Of(v, g)
    OBVIOUS
  <2>2. step \in [Containers -> [[Containers -> V] -> V]]
    BY <1>1
  <2> HIDE DEF step
  <2>3. ASSUME NEW v \in Containers, NEW g \in [Containers -> V], NEW h \in [Containers -> V],
               \A u \in Containers : rank[u] < rank[v] => g[u] = h[u]
        PROVE  step[v][g] = step[v][h]
    <3>1. Of(v, g) = Of(v, h)
      BY <1>2, <2>3
    <3> QED
      BY <2>1, <3>1
  <2> QED
    BY <1>3, <1>4, <2>2, <2>3 DEF Determined
<1>6. \E f \in [Containers -> V] : \A v \in Containers : f[v] = step[v][f]
  <2> HIDE DEF step
  <2> QED
    BY <1>5, RankedRecursion
<1>7. PICK f \in [Containers -> V] : \A v \in Containers : f[v] = step[v][f]
  BY <1>6
<1>8. f = [v \in Containers |-> Of(v, f)]
  BY <1>7
<1>9. Struct = [v \in Containers |-> Of(v, Struct)]
  BY <1>8 DEF Struct, Of, StructBody
<1>10. \A v \in Containers : Struct[v] = Of(v, Struct)
  BY <1>9
<1> DEFINE S == {v \in Containers : Struct[v] \in V}
<1>11. \A v \in Containers : v \in S
  <2>1. ASSUME NEW v \in Containers, \A u \in Containers : rank[u] < rank[v] => u \in S
        PROVE  v \in S
    BY <1>1, <1>10, <2>1
  <2>2. \A v \in Containers : rank[v] \in Nat
    BY <1>3
  <2> HIDE DEF S
  <2> QED
    BY <2>1, <2>2, RankInduction
<1>12. ASSUME NEW v \in Containers, NEW call \in GoCalls, NEW all \in SUBSET Structs
       PROVE  Struct[v][call][all] = StructBody(Struct, v, call, all) /\ Struct[v][call][all] \in Returned
  <2>1. Struct[v] = [c \in GoCalls |-> [a \in SUBSET Structs |-> StructBody(Struct, v, c, a)]]
    BY <1>10 DEF Of
  <2>2. Struct[v][call][all] = StructBody(Struct, v, call, all)
    BY <2>1
  <2>3. Struct[v] \in Generators
    BY <1>11 DEF V
  <2>4. Struct[v][call][all] \in Returned
    BY <2>3 DEF Generators
  <2> QED
    BY <2>2, <2>4
<1> QED
  BY <1>12
----------------------------------------------------------------------------
(* What the types are checked against                                      *)

\* What holds of a document if it holds of all lighter ones holds of all.
LEMMA TreeInduction ==
    ASSUME NEW S, \A v \in JsonTrees : (\A u \in JsonTrees : Weight[u] < Weight[v] => u \in S) => v \in S
    PROVE  \A v \in JsonTrees : v \in S
<1>1. \A v \in JsonTrees : Weight[v] \in Nat
  BY TreeShape
<1> QED
  BY <1>1, RankInduction

\* A definition that looks at lighter documents only.
LooksBelow(D, V, step) ==
    /\ D \subseteq JsonTrees /\ V # {} /\ step \in [D -> [[D -> V] -> V]]
    /\ \A v \in D : \A g, h \in [D -> V] :
          (\A u \in D : Weight[u] < Weight[v] => g[u] = h[u]) => step[v][g] = step[v][h]

\* Such a definition has a solution.
LEMMA TreeRecursion ==
    ASSUME NEW D, NEW V, NEW step, LooksBelow(D, V, step)
    PROVE  \E f \in [D -> V] : \A v \in D : f[v] = step[v][f]
<1> DEFINE rank == [v \in D |-> Weight[v]]
<1>1. rank \in [D -> Nat] /\ \A v \in D : rank[v] = Weight[v]
  BY TreeShape DEF LooksBelow
<1> HIDE DEF rank
<1>2. Determined(D, V, rank, step)
  BY <1>1 DEF Determined, LooksBelow
<1> QED
  BY <1>2, RankedRecursion

HoldsArrayIn(h, v) ==
    /\ IsObj(v)
    /\ \E i \in DOMAIN v.items :
          LET w == v.items[i]
          IN  \/ IsArr(w) /\ w.items # <<>> /\ TypeOf(w.items[1]) = "object"
              \/ h[w]

\* What HoldsArray computes.
LEMMA HoldsArrayRecurs == \A v \in JsonTrees : HoldsArray[v] <=> HoldsArrayIn(HoldsArray, v)
<1> DEFINE step == [v \in JsonTrees |-> [h \in [JsonTrees -> BOOLEAN] |-> HoldsArrayIn(h, v)]]
<1>1. \A v \in JsonTrees : \A h : HoldsArrayIn(h, v) \in BOOLEAN
  BY DEF HoldsArrayIn
<1>2. ASSUME NEW v \in JsonTrees, NEW g, NEW h, \A u \in JsonTrees : Weight[u] < Weight[v] => g[u] = h[u]
      PROVE  HoldsArrayIn(g, v) = HoldsArrayIn(h, v)
  <2>1. CASE IsObj(v)
    <3>1. \A i \in DOMAIN v.items : g[v.items[i]] = h[v.items[i]]
      BY <1>2, <2>1, TreeShape
    <3> QED
      BY <3>1 DEF HoldsArrayIn
  <2>2. CASE ~IsObj(v)
    BY <2>2 DEF HoldsArrayIn
  <2> QED
    BY <2>1, <2>2
<1>3. \A v \in JsonTrees : \A h \in [JsonTrees -> BOOLEAN] : step[v][h] = HoldsArrayIn(h, v)
  OBVIOUS
<1>4. step \in [JsonTrees -> [[JsonTrees -> BOOLEAN] -> BOOLEAN]]
  BY <1>1
<1> HIDE DEF step
<1>5. \A v \in JsonTrees : \A g, h \in [JsonTrees -> BOOLEAN] :
         (\A u \in JsonTrees : Weight[u] < Weight[v] => g[u] = h[u]) => step[v][g] = step[v][h]
  <2> SUFFICES ASSUME NEW v \in JsonTrees, NEW g \in [JsonTrees -> BOOLEAN], NEW h \in [JsonTrees -> BOOLEAN],
                      \A u \in JsonTrees : Weight[u] < Weight[v] => g[u] = h[u]
               PROVE  step[v][g] = step[v][h]
    OBVIOUS
  <2>1. HoldsArrayIn(g, v) = HoldsArrayIn(h, v)
    BY <1>2
  <2> QED
    BY <1>3, <2>1
<1>6. \E f \in [JsonTrees -> BOOLEAN] : \A v \in JsonTrees : f[v] = step[v][f]
  <2>1. LooksBelow(JsonTrees, BOOLEAN, step)
    BY <1>4, <1>5 DEF LooksBelow
  <2> QED
    BY <2>1, TreeRecursion
<1>7. PICK f \in [JsonTrees -> BOOLEAN] : \A v \in JsonTrees : f[v] = step[v][f]
  BY <1>6
<1>8. f = [v \in JsonTrees |-> HoldsArrayIn(f, v)]
  BY <1>3, <1>7
<1>9. HoldsArray = [v \in JsonTrees |-> HoldsArrayIn(HoldsArray, v)]
  BY <1>8 DEF HoldsArray, HoldsArrayIn
<1> QED
  BY <1>9

FitsIn(fits, v, type, code) ==
    IF type.dims > 0
    THEN IsArr(v) /\ (v.items # <<>> => fits[v.items[1]][[type EXCEPT !.dims = @ - 1]][code])
    ELSE CASE type.name = "struct" -> FitsStruct(fits, v, InlineFields(type.of), code)
           [] type.name \in StructNames ->
                 /\ IsNoted(type.name, code)
                 /\ v = Null \/ \A s \in code :
                                   s.name = type.name => FitsStruct(fits, v, s.fields, code)
           [] type.name \in BuiltIn ->
                 v = Null \/ v.kind = type.name \/ (type.name = AnyMap /\ IsObj(v))

\* What the name of a struct, or of a built-in type, holds.
FitsNamed(fits, v, name, code) ==
    /\ IsNoted(name, code)
    /\ v = Null \/ \A s \in code : s.name = name => FitsStruct(fits, v, s.fields, code)

FitsBuiltIn(v, name) == v = Null \/ v.kind = name \/ (name = AnyMap /\ IsObj(v))

\* A type of no dimensions is one of three.
LEMMA FitsFlat ==
    ASSUME NEW fits, NEW v, NEW type \in GoTypes, ~(type.dims > 0), NEW code
    PROVE  /\ type.name = "struct" =>
                 FitsIn(fits, v, type, code) = FitsStruct(fits, v, InlineFields(type.of), code)
           /\ type.name \in StructNames =>
                 FitsIn(fits, v, type, code) = FitsNamed(fits, v, type.name, code)
           /\ type.name \in BuiltIn =>
                 FitsIn(fits, v, type, code) = FitsBuiltIn(v, type.name)
           /\ type.name = "struct" \/ type.name \in StructNames \/ type.name \in BuiltIn
           /\ FitsIn(fits, v, type, code) \in BOOLEAN
<1>1. type.name = "struct" \/ type.name \in StructNames \/ type.name \in BuiltIn
  BY DEF GoTypes, TypeNames
<1>2. StructNames \cap (BuiltIn \cup {"struct"}) = {} /\ "struct" \notin BuiltIn
  BY GoAssumption DEF BuiltIn, AnyMap
<1> DEFINE A == FitsStruct(fits, v, InlineFields(type.of), code)
           B == FitsNamed(fits, v, type.name, code)
           C == FitsBuiltIn(v, type.name)
           x == FitsIn(fits, v, type, code)
<1>3. x = CASE type.name = "struct" -> A [] type.name \in StructNames -> B [] type.name \in BuiltIn -> C
  BY DEF FitsIn, FitsNamed, FitsBuiltIn
<1> HIDE DEF A, B, C, x, BuiltIn
<1>4. /\ type.name = "struct" => x = A
      /\ type.name \in StructNames => x = B
      /\ type.name \in BuiltIn => x = C
  BY <1>1, <1>2, <1>3
<1>5. A \in BOOLEAN /\ B \in BOOLEAN /\ C \in BOOLEAN
  BY DEF A, B, C, FitsStruct, FitsNamed, FitsBuiltIn
<1>6. x \in BOOLEAN
  BY <1>1, <1>4, <1>5
<1> QED
  BY <1>1, <1>4, <1>6 DEF A, B, C, x

\* Whether a document fits depends on lighter ones only.
LEMMA FitsSame ==
    ASSUME NEW v \in JsonTrees, NEW g, NEW h, \A u \in JsonTrees : Weight[u] < Weight[v] => g[u] = h[u],
           NEW type \in GoTypes, NEW code
    PROVE  FitsIn(g, v, type, code) = FitsIn(h, v, type, code)
<1>1. \A fields : FitsStruct(g, v, fields, code) = FitsStruct(h, v, fields, code)
  <2>1. CASE IsObj(v)
    <3>1. \A i \in DOMAIN v.keys : g[v.items[i]] = h[v.items[i]]
      BY <2>1, TreeShape
    <3> QED
      BY <3>1 DEF FitsStruct
  <2>2. CASE ~IsObj(v)
    BY <2>2 DEF FitsStruct
  <2> QED
    BY <2>1, <2>2
<1>2. IsArr(v) /\ v.items # <<>> => g[v.items[1]] = h[v.items[1]]
  BY MatrixOrTable
<1>3. CASE type.dims > 0
  BY <1>2, <1>3 DEF FitsIn
<1>4. CASE ~(type.dims > 0)
  <2>1. FitsNamed(g, v, type.name, code) = FitsNamed(h, v, type.name, code)
    BY <1>1 DEF FitsNamed
  <2>2. CASE type.name = "struct"
    BY <1>1, <1>4, <2>2, FitsFlat
  <2>3. CASE type.name \in StructNames
    BY <2>1, <1>4, <2>3, FitsFlat
  <2>4. CASE type.name \in BuiltIn
    BY <1>4, <2>4, FitsFlat
  <2> QED
    BY <1>4, <2>2, <2>3, <2>4, FitsFlat
<1> QED
  BY <1>3, <1>4

\* What Fits computes.
LEMMA FitsRecurs ==
    \A v \in JsonTrees, type \in GoTypes, code \in SUBSET Structs :
        Fits[v][type][code] = FitsIn(Fits, v, type, code)
<1> DEFINE V == [GoTypes -> [SUBSET Structs -> BOOLEAN]]
           Of(v, g) == [type \in GoTypes |-> [code \in SUBSET Structs |-> FitsIn(g, v, type, code)]]
           step == [v \in JsonTrees |-> [g \in [JsonTrees -> V] |-> Of(v, g)]]
<1>0. \A fits, v, fields, code : FitsStruct(fits, v, fields, code) \in BOOLEAN
  BY DEF FitsStruct
<1>1. ASSUME NEW v \in JsonTrees, NEW g PROVE Of(v, g) \in V
  <2>1. ASSUME NEW type \in GoTypes, NEW code \in SUBSET Structs
        PROVE  FitsIn(g, v, type, code) \in BOOLEAN
    <3>1. CASE type.dims > 0
      BY <3>1 DEF FitsIn
    <3>2. CASE ~(type.dims > 0)
      BY <3>2, FitsFlat
    <3> QED
      BY <3>1, <3>2
  <2> QED
    BY <2>1
<1>2. ASSUME NEW v \in JsonTrees, NEW g, NEW h, \A u \in JsonTrees : Weight[u] < Weight[v] => g[u] = h[u]
      PROVE  Of(v, g) = Of(v, h)
  <2>1. \A type \in GoTypes, code \in SUBSET Structs : FitsIn(g, v, type, code) = FitsIn(h, v, type, code)
    BY <1>2, FitsSame
  <2> QED
    BY <2>1
<1> HIDE DEF Of, V
<1>3. \A v \in JsonTrees : \A g \in [JsonTrees -> V] : step[v][g] = Of(v, g)
  OBVIOUS
<1>4. step \in [JsonTrees -> [[JsonTrees -> V] -> V]]
  BY <1>1
<1> HIDE DEF step
<1>5. \A v \in JsonTrees : \A g, h \in [JsonTrees -> V] :
         (\A u \in JsonTrees : Weight[u] < Weight[v] => g[u] = h[u]) => step[v][g] = step[v][h]
  <2> SUFFICES ASSUME NEW v \in JsonTrees, NEW g \in [JsonTrees -> V], NEW h \in [JsonTrees -> V],
                      \A u \in JsonTrees : Weight[u] < Weight[v] => g[u] = h[u]
               PROVE  step[v][g] = step[v][h]
    OBVIOUS
  <2>1. Of(v, g) = Of(v, h)
    BY <1>2
  <2> QED
    BY <1>3, <2>1
<1>6. \E f \in [JsonTrees -> V] : \A v \in JsonTrees : f[v] = step[v][f]
  <2>1. V # {} /\ JsonTrees \subseteq JsonTrees
    <3>1. [type \in GoTypes |-> [code \in SUBSET Structs |-> FALSE]] \in V
      BY DEF V
    <3> QED
      BY <3>1
  <2>2. LooksBelow(JsonTrees, V, step)
    BY <1>4, <1>5, <2>1 DEF LooksBelow
  <2> QED
    BY <2>2, TreeRecursion
<1>7. PICK f \in [JsonTrees -> V] : \A v \in JsonTrees : f[v] = step[v][f]
  BY <1>6
<1>8. f = [v \in JsonTrees |-> Of(v, f)]
  BY <1>3, <1>7
<1>9. Fits = [v \in JsonTrees |-> Of(v, Fits)]
  BY <1>8 DEF Fits, Of, FitsIn
<1>10. ASSUME NEW v \in JsonTrees, NEW type \in GoTypes, NEW code \in SUBSET Structs
       PROVE  Fits[v][type][code] = FitsIn(Fits, v, type, code)
  <2>1. Fits[v] = Of(v, Fits)
    BY <1>9
  <2>2. Fits[v] = [t \in GoTypes |-> [c \in SUBSET Structs |-> FitsIn(Fits, v, t, c)]]
    BY <2>1 DEF Of
  <2> QED
    BY <2>2
<1> QED
  BY <1>10

----------------------------------------------------------------------------
(* The structs that a document calls for                                   *)

Objects == {o \in JsonTrees : IsObj(o)}

\* The structs that a document calls for, each with its object.
Calling == [name : StructNames, object : Objects, depth : Nat]

NamedItem(named, k, w, depth) ==
    CASE IsObj(w) /\ w.keys # <<>> -> named[w][Names[k].type][depth + 1]
      [] IsTable(w) -> named[w.items[1]][Names[k].item][depth + 1]
      [] IsMatrix(w) /\ IsTable(w.items[1]) /\ w.items[1].items[1].keys # <<>> ->
            named[w.items[1].items[1]][Names[k].matrix][depth + 1]
      [] OTHER -> {}

NamedIn(named, v, name, depth) ==
    {[name |-> name, object |-> v, depth |-> depth]} \cup
    UNION {NamedItem(named, v.keys[i], v.items[i], depth) : i \in DOMAIN v.items}

\* A field calls for the structs of one object in it, or for none.
LEMMA NamedItemCall ==
    ASSUME NEW w \in JsonTrees, NEW k \in FieldNames, NEW depth
    PROVE  \/ \A named : NamedItem(named, k, w, depth) = {}
           \/ \E u \in Objects, n \in StructNames :
                 Weight[u] <= Weight[w] /\ \A named : NamedItem(named, k, w, depth) = named[u][n][depth + 1]
<1> DEFINE o == IsObj(w) /\ w.keys # <<>>
           t == IsTable(w)
           m == IsMatrix(w) /\ IsTable(w.items[1]) /\ w.items[1].items[1].keys # <<>>
<1>1. (o => ~t /\ ~m) /\ (t => ~m)
  BY MatrixOrTable
<1>2. Names[k].type \in StructNames /\ Names[k].item \in StructNames /\ Names[k].matrix \in StructNames
  BY GoAssumption
<1>3. \A u \in JsonTrees : Weight[u] \in Nat
  BY TreeShape
<1>4. \A named : NamedItem(named, k, w, depth) =
         CASE o -> named[w][Names[k].type][depth + 1]
           [] t -> named[w.items[1]][Names[k].item][depth + 1]
           [] m -> named[w.items[1].items[1]][Names[k].matrix][depth + 1]
           [] OTHER -> {}
  BY DEF NamedItem
<1>5. o => w \in Objects
  BY DEF Objects
<1>6. t => w.items[1] \in Objects /\ Weight[w.items[1]] <= Weight[w]
  BY <1>3, MatrixOrTable DEF Objects
<1>7. m => w.items[1].items[1] \in Objects /\ Weight[w.items[1].items[1]] <= Weight[w]
  <2> SUFFICES ASSUME m PROVE w.items[1].items[1] \in Objects /\ Weight[w.items[1].items[1]] <= Weight[w]
    OBVIOUS
  <2>1. w.items[1] \in JsonTrees /\ IsTable(w.items[1]) /\ w.items[1].items # <<>>
    BY MatrixOrTable DEF IsTable
  <2>2. IsObj(w.items[1].items[1])
    BY <2>1, MatrixOrTable
  <2>3. w.items[1].items[1] \in JsonTrees /\ Weight[w.items[1].items[1]] < Weight[w]
    BY <2>1, MatrixOrTable
  <2> QED
    BY <1>3, <2>2, <2>3 DEF Objects
<1> HIDE DEF o, t, m
<1>8. CASE o
  <2>1. \A named : NamedItem(named, k, w, depth) = named[w][Names[k].type][depth + 1]
    BY <1>1, <1>4, <1>8
  <2> QED
    BY <1>2, <1>3, <1>5, <1>8, <2>1
<1>9. CASE t
  <2>1. \A named : NamedItem(named, k, w, depth) = named[w.items[1]][Names[k].item][depth + 1]
    BY <1>1, <1>4, <1>9
  <2> QED
    BY <1>2, <1>6, <1>9, <2>1
<1>10. CASE m
  <2>1. \A named : NamedItem(named, k, w, depth) = named[w.items[1].items[1]][Names[k].matrix][depth + 1]
    BY <1>1, <1>4, <1>10
  <2> QED
    BY <1>2, <1>7, <1>10, <2>1
<1>11. CASE ~o /\ ~t /\ ~m
  BY <1>4, <1>11
<1> QED
  BY <1>8, <1>9, <1>10, <1>11

\* The items of an object, by their keys.
LEMMA ObjectItems ==
    ASSUME NEW v \in Objects
    PROVE  /\ v \in JsonTrees /\ v \in Containers /\ IsObj(v) /\ IsContainer(v)
           /\ Keys(v) = v.keys /\ DOMAIN v.items = DOMAIN v.keys
           /\ \A i \in DOMAIN v.items :
                 v.items[i] \in JsonTrees /\ v.keys[i] \in FieldNames /\ Weight[v.items[i]] < Weight[v]
<1>1. v \in JsonTrees /\ IsObj(v) /\ IsContainer(v)
  BY DEF Objects, IsContainer
<1>2. Keys(v) = v.keys /\ DOMAIN v.keys = DOMAIN v.items /\ Keys(v) \in Seq(FieldNames)
  BY <1>1, TreeKeys
<1> QED
  BY <1>1, <1>2, TreeShape DEF Containers

\* What Named computes.
LEMMA NamedRecurs ==
    \A v \in Objects, name \in StructNames, depth \in Nat :
        /\ Named[v][name][depth] = NamedIn(Named, v, name, depth)
        /\ Named[v][name][depth] \subseteq Calling
<1> DEFINE V == [StructNames -> [Nat -> SUBSET Calling]]
           Of(v, g) == [name \in StructNames |-> [depth \in Nat |-> NamedIn(g, v, name, depth)]]
           step == [v \in Objects |-> [g \in [Objects -> V] |-> Of(v, g)]]
<1>0. \A v \in JsonTrees : Weight[v] \in Nat
  BY TreeShape
<1>1. ASSUME NEW v \in Objects, NEW g, \A u \in Objects : Weight[u] < Weight[v] => g[u] \in V
      PROVE  Of(v, g) \in V
  <2>1. ASSUME NEW name \in StructNames, NEW depth \in Nat
        PROVE  NamedIn(g, v, name, depth) \subseteq Calling
    <3>1. ASSUME NEW i \in DOMAIN v.items
          PROVE  NamedItem(g, v.keys[i], v.items[i], depth) \subseteq Calling
      <4>1. v.items[i] \in JsonTrees /\ v.keys[i] \in FieldNames /\ Weight[v.items[i]] < Weight[v]
        BY ObjectItems
      <4>2. CASE \A named : NamedItem(named, v.keys[i], v.items[i], depth) = {}
        BY <4>2
      <4>3. ASSUME NEW u \in Objects, NEW n \in StructNames, Weight[u] <= Weight[v.items[i]],
                   \A named : NamedItem(named, v.keys[i], v.items[i], depth) = named[u][n][depth + 1]
            PROVE  NamedItem(g, v.keys[i], v.items[i], depth) \subseteq Calling
        <5>1. Weight[u] < Weight[v]
          BY <1>0, <4>1, <4>3 DEF Objects
        <5>2. g[u] \in V
          BY <1>1, <5>1
        <5> QED
          BY <4>3, <5>2
      <4> QED
        BY <4>1, <4>2, <4>3, NamedItemCall
    <3>2. [name |-> name, object |-> v, depth |-> depth] \in Calling
      BY DEF Calling
    <3> QED
      BY <3>1, <3>2 DEF NamedIn
  <2> QED
    BY <2>1
<1>2. ASSUME NEW v \in Objects, NEW g, NEW h, \A u \in Objects : Weight[u] < Weight[v] => g[u] = h[u]
      PROVE  Of(v, g) = Of(v, h)
  <2>1. ASSUME NEW name \in StructNames, NEW depth \in Nat
        PROVE  NamedIn(g, v, name, depth) = NamedIn(h, v, name, depth)
    <3>1. ASSUME NEW i \in DOMAIN v.items
          PROVE  NamedItem(g, v.keys[i], v.items[i], depth) = NamedItem(h, v.keys[i], v.items[i], depth)
      <4>1. v.items[i] \in JsonTrees /\ v.keys[i] \in FieldNames /\ Weight[v.items[i]] < Weight[v]
        BY ObjectItems
      <4>2. CASE \A named : NamedItem(named, v.keys[i], v.items[i], depth) = {}
        BY <4>2
      <4>3. ASSUME NEW u \in Objects, NEW n \in StructNames, Weight[u] <= Weight[v.items[i]],
                   \A named : NamedItem(named, v.keys[i], v.items[i], depth) = named[u][n][depth + 1]
            PROVE  NamedItem(g, v.keys[i], v.items[i], depth) = NamedItem(h, v.keys[i], v.items[i], depth)
        <5>1. Weight[u] < Weight[v]
          BY <1>0, <4>1, <4>3 DEF Objects
        <5>2. g[u] = h[u]
          BY <1>2, <5>1
        <5> QED
          BY <4>3, <5>2
      <4> QED
        BY <4>1, <4>2, <4>3, NamedItemCall
    <3> QED
      BY <3>1 DEF NamedIn
  <2> QED
    BY <2>1
<1> HIDE DEF Of, V
<1>3. \A v \in Objects : \A g \in [Objects -> V] : step[v][g] = Of(v, g)
  OBVIOUS
<1>4. step \in [Objects -> [[Objects -> V] -> V]]
  BY <1>1
<1> HIDE DEF step
<1>5. LooksBelow(Objects, V, step)
  <2>1. ASSUME NEW v \in Objects, NEW g \in [Objects -> V], NEW h \in [Objects -> V],
               \A u \in Objects : Weight[u] < Weight[v] => g[u] = h[u]
        PROVE  step[v][g] = step[v][h]
    <3>1. Of(v, g) = Of(v, h)
      BY <1>2, <2>1
    <3> QED
      BY <1>3, <3>1
  <2>2. V # {}
    <3>1. [name \in StructNames |-> [depth \in Nat |-> {}]] \in V
      BY DEF V
    <3> QED
      BY <3>1
  <2>3. Objects \subseteq JsonTrees
    BY DEF Objects
  <2> QED
    BY <1>4, <2>1, <2>2, <2>3 DEF LooksBelow
<1>6. \E f \in [Objects -> V] : \A v \in Objects : f[v] = step[v][f]
  BY <1>5, TreeRecursion
<1>7. PICK f \in [Objects -> V] : \A v \in Objects : f[v] = step[v][f]
  BY <1>6
<1>8. f = [v \in Objects |-> Of(v, f)]
  BY <1>3, <1>7
<1>9. Named = [v \in Objects |-> Of(v, Named)]
  BY <1>8 DEF Named, Of, NamedIn, NamedItem, Objects
<1>10. \A v \in Objects : Named[v] = Of(v, Named)
  BY <1>9
<1> DEFINE S == {v \in JsonTrees : v \in Objects => Named[v] \in V}
<1>11. \A v \in JsonTrees : v \in S
  <2>1. ASSUME NEW v \in JsonTrees, \A u \in JsonTrees : Weight[u] < Weight[v] => u \in S
        PROVE  v \in S
    <3>1. \A u \in Objects : Weight[u] < Weight[v] => Named[u] \in V
      BY <2>1 DEF Objects
    <3>2. v \in Objects => Of(v, Named) \in V
      BY <1>1, <3>1
    <3> QED
      BY <1>10, <3>2
  <2> HIDE DEF S
  <2> QED
    BY <2>1, TreeInduction
<1>12. ASSUME NEW v \in Objects, NEW name \in StructNames, NEW depth \in Nat
       PROVE  /\ Named[v][name][depth] = NamedIn(Named, v, name, depth)
              /\ Named[v][name][depth] \subseteq Calling
  <2>1. Named[v] = [n \in StructNames |-> [d \in Nat |-> NamedIn(Named, v, n, d)]]
    BY <1>10 DEF Of
  <2>2. Named[v] \in [StructNames -> [Nat -> SUBSET Calling]]
    BY <1>11 DEF V, Objects
  <2> QED
    BY <2>1, <2>2
<1> QED
  BY <1>12

\* The struct that a field of an object calls for.
HasCall(d, i) == Referenced(d.object.items[i], FALSE) # Null

FieldCall(d, i) ==
    [name   |-> ReferencedName(d.object.keys[i], d.object.items[i]),
     object |-> Referenced(d.object.items[i], FALSE),
     depth  |-> d.depth + 1]

\* A field that the generator does not misread has its object in it.
LEMMA NamedItemOf ==
    ASSUME NEW w \in JsonTrees, NEW k \in FieldNames, ~OddMatrix(w), Referenced(w, FALSE) # Null,
           NEW named, NEW depth
    PROVE  /\ Referenced(w, FALSE) \in Objects
           /\ ReferencedName(k, w) \in StructNames
           /\ NamedItem(named, k, w, depth) =
                 named[Referenced(w, FALSE)][ReferencedName(k, w)][depth + 1]
<1> SUFFICES ASSUME NEW r, r = Referenced(w, FALSE), r # Null, NEW n, n = ReferencedName(k, w)
             PROVE  r \in Objects /\ n \in StructNames /\ NamedItem(named, k, w, depth) = named[r][n][depth + 1]
  OBVIOUS
<1>0. /\ IsMatrix(w) \/ IsTable(w) \/ IsObj(w)
      /\ r \in JsonTrees /\ r \in Containers /\ IsContainer(r)
  BY Reference DEF Containers
<1>1. n \in StructNames
  BY <1>0, ReferenceName
<1>2. CASE IsMatrix(w)
  <2>1. ~IsTable(w) /\ ~IsObj(w)
    BY <1>2, MatrixOrTable
  <2>2. w.items[1].items # <<>> /\ r = w.items[1].items[1] /\ Keys(r) # <<>>
    BY <2>1, Reference
  <2>3. r.items # <<>>
    BY <1>0, <2>2, SomeKeys
  <2>4. ~IsArr(r)
    BY <1>2, <2>2, <2>3 DEF OddMatrix
  <2>5. IsObj(r) /\ r \in Objects
    BY <1>0, <2>4 DEF IsContainer, Objects
  <2>6. r.keys # <<>>
    BY <1>0, <2>2, <2>5, TreeKeys
  <2>7. IsTable(w.items[1])
    BY <1>2, <2>2, <2>5, MatrixOrTable DEF IsTable
  <2>8. n = Names[k].matrix
    BY <1>2, ReferenceName
  <2>9. NamedItem(named, k, w, depth) = named[w.items[1].items[1]][Names[k].matrix][depth + 1]
    BY <1>2, <2>1, <2>2, <2>6, <2>7 DEF NamedItem
  <2> QED
    BY <1>1, <2>2, <2>5, <2>8, <2>9
<1>3. CASE IsTable(w)
  <2>1. ~IsMatrix(w) /\ ~IsObj(w) /\ IsObj(w.items[1])
    BY <1>3, MatrixOrTable
  <2>2. r = w.items[1]
    BY <2>1, Reference
  <2>3. n = Names[k].item
    BY <1>3, ReferenceName
  <2>4. NamedItem(named, k, w, depth) = named[w.items[1]][Names[k].item][depth + 1]
    BY <1>3, <2>1 DEF NamedItem
  <2> QED
    BY <1>0, <1>1, <2>1, <2>2, <2>3, <2>4 DEF Objects
<1>4. CASE IsObj(w)
  <2>1. ~IsMatrix(w) /\ ~IsTable(w)
    BY <1>4, MatrixOrTable
  <2>2. r = w /\ Keys(w) # <<>>
    BY <2>1, Reference
  <2>3. w.keys # <<>>
    BY <1>0, <1>4, <2>2, TreeKeys
  <2>4. n = Names[k].type
    BY <1>4, ReferenceName
  <2>5. NamedItem(named, k, w, depth) = named[w][Names[k].type][depth + 1]
    BY <1>4, <2>1, <2>3 DEF NamedItem
  <2> QED
    BY <1>0, <1>1, <1>4, <2>2, <2>4, <2>5 DEF Objects
<1> QED
  BY <1>0, <1>2, <1>3, <1>4

Closed(D) ==
    \A d \in D : \A i \in DOMAIN d.object.items :
        HasCall(d, i) /\ ~OddMatrix(d.object.items[i]) => FieldCall(d, i) \in D

\* A struct that is called for is among those named.
LEMMA NamedRoot ==
    ASSUME NEW v \in Objects, NEW name \in StructNames, NEW depth \in Nat
    PROVE  [name |-> name, object |-> v, depth |-> depth] \in Named[v][name][depth]
BY NamedRecurs DEF NamedIn

\* Those named call for no others.
LEMMA NamedClosed ==
    \A v \in Objects, name \in StructNames, depth \in Nat : Closed(Named[v][name][depth])
<1> DEFINE S == {v \in JsonTrees : v \in Objects => \A name \in StructNames, depth \in Nat : Closed(Named[v][name][depth])}
<1>1. ASSUME NEW v \in JsonTrees, \A u \in JsonTrees : Weight[u] < Weight[v] => u \in S
      PROVE  v \in S
  <2> SUFFICES ASSUME v \in Objects, NEW name \in StructNames, NEW depth \in Nat,
                      NEW d \in Named[v][name][depth], NEW i \in DOMAIN d.object.items,
                      HasCall(d, i), ~OddMatrix(d.object.items[i])
               PROVE  FieldCall(d, i) \in Named[v][name][depth]
    BY DEF Closed
  <2> DEFINE D == Named[v][name][depth]
             root == [name |-> name, object |-> v, depth |-> depth]
  <2>1. D = {root} \cup UNION {NamedItem(Named, v.keys[j], v.items[j], depth) : j \in DOMAIN v.items}
    BY NamedRecurs DEF NamedIn
  <2>2. CASE d = root
    <3> DEFINE w == v.items[i]
               k == v.keys[i]
               r == Referenced(w, FALSE)
               n == ReferencedName(k, w)
    <3>1. i \in DOMAIN v.items /\ r # Null /\ ~OddMatrix(w) /\ FieldCall(d, i) = [name |-> n, object |-> r, depth |-> depth + 1]
      BY <2>2 DEF HasCall, FieldCall
    <3>2. w \in JsonTrees /\ k \in FieldNames
      BY <3>1, ObjectItems
    <3>3. r \in Objects /\ n \in StructNames /\ NamedItem(Named, k, w, depth) = Named[r][n][depth + 1]
      <4>1. r = Referenced(w, FALSE) /\ n = ReferencedName(k, w)
        OBVIOUS
      <4>2. r # Null /\ ~OddMatrix(w)
        BY <3>1
      <4> HIDE DEF r, n, w, k
      <4> QED
        BY <3>2, <4>1, <4>2, NamedItemOf
    <3>4. FieldCall(d, i) \in Named[r][n][depth + 1]
      <4>1. depth + 1 \in Nat
        OBVIOUS
      <4> HIDE DEF r, n
      <4> QED
        BY <3>1, <3>3, <4>1, NamedRoot
    <3> QED
      BY <2>1, <3>1, <3>3, <3>4
  <2>3. CASE d # root
    <3>1. PICK j \in DOMAIN v.items : d \in NamedItem(Named, v.keys[j], v.items[j], depth)
      BY <2>1, <2>3
    <3>2. v.items[j] \in JsonTrees /\ v.keys[j] \in FieldNames /\ Weight[v.items[j]] < Weight[v]
      BY ObjectItems
    <3>3. PICK u \in Objects, n \in StructNames :
             Weight[u] <= Weight[v.items[j]] /\ \A named : NamedItem(named, v.keys[j], v.items[j], depth) = named[u][n][depth + 1]
      BY <3>1, <3>2, NamedItemCall
    <3>4. u \in JsonTrees /\ Weight[u] < Weight[v]
      <4>1. u \in JsonTrees /\ Weight[u] \in Nat /\ Weight[v] \in Nat /\ Weight[v.items[j]] \in Nat
        BY <3>2, TreeShape DEF Objects
      <4> QED
        BY <3>2, <3>3, <4>1
    <3>5. Closed(Named[u][n][depth + 1])
      BY <1>1, <3>4
    <3>6. NamedItem(Named, v.keys[j], v.items[j], depth) = Named[u][n][depth + 1]
      BY <3>3
    <3>7. FieldCall(d, i) \in NamedItem(Named, v.keys[j], v.items[j], depth)
      BY <3>1, <3>5, <3>6 DEF Closed
    <3> QED
      BY <2>1, <3>7
  <2> QED
    BY <2>2, <2>3
<1> HIDE DEF S
<1>2. \A v \in JsonTrees : v \in S
  BY <1>1, TreeInduction
<1> QED
  BY <1>2 DEF S, Objects

\* The structs of a document that the generator is right about.
Whole(D) ==
    /\ D \subseteq Calling
    /\ NamesApart(D)
    /\ \A d \in D : d.depth <= MaxDepth /\ ~Misread(d.object)
    /\ \A d \in D : \A i \in DOMAIN d.object.items : HasCall(d, i) => FieldCall(d, i) \in D

\* The structs that such a document calls for are whole.
LEMMA UnderstoodWhole ==
    ASSUME NEW v \in Objects, NEW name \in StructNames, Understood(v, name, FALSE)
    PROVE  /\ Whole(Named[v][name][0])
           /\ [name |-> name, object |-> v, depth |-> 0] \in Named[v][name][0]
<1> DEFINE D == Named[v][name][0]
<1>1. D \subseteq Calling /\ Closed(D)
  BY NamedRecurs, NamedClosed
<1>2. NamesApart(D) /\ \A d \in D : ~Misread(d.object) /\ d.depth <= MaxDepth
  BY DEF Understood
<1>3. \A d \in D : \A i \in DOMAIN d.object.items : HasCall(d, i) => FieldCall(d, i) \in D
  BY <1>1, <1>2 DEF Closed, Misread
<1>4. [name |-> name, object |-> v, depth |-> 0] \in D
  BY NamedRoot
<1> QED
  BY <1>1, <1>2, <1>3, <1>4 DEF Whole

----------------------------------------------------------------------------
(* What is generated for them                                              *)

\* The fields of the struct for one of those called for.
OwnFields(d) == FieldsOf(d.object, FALSE)

\* What the fields of it refer to is noted, for the first n fields.
FieldsNoted(d, n, all) ==
    \A i \in 1 .. n : HasCall(d, i) => IsNoted(FieldCall(d, i).name, all)

\* Each struct is one of those called for, and those it refers to are there.
Faithful(D, all) ==
    /\ all \in SUBSET Structs
    /\ \A s \in all : \E d \in D : s = StructOf(d.name, OwnFields(d)) /\ FieldsNoted(d, Len(d.object.items), all)

KeepsNoted(all, after) == \A name : IsNoted(name, all) => IsNoted(name, after)

\* What genGoStruct does to allStructs, and returns.
Delivers(D, d) ==
    \A all : Faithful(D, all) =>
        LET s == Struct[d.object][GoCall(d.name, FALSE, d.depth)][all]
        IN  /\ s.fields = OwnFields(d)
            /\ Faithful(D, s.all) /\ KeepsNoted(all, s.all)
            /\ FieldsNoted(d, Len(d.object.items), s.all) /\ IsNoted(d.name, s.all)

\* One that is called for, with its fields.
LEMMA CalledFor ==
    ASSUME NEW D, Whole(D), NEW d \in D
    PROVE  /\ d.object \in Objects /\ d.name \in StructNames /\ d.depth \in Nat /\ d.depth <= MaxDepth
           /\ OwnFields(d) \in Seq(Declared)
           /\ d.object \in Containers /\ Keys(d.object) = d.object.keys
           /\ DOMAIN d.object.items = 1 .. Len(d.object.items) /\ Len(d.object.items) \in Nat
           /\ DOMAIN d.object.keys = DOMAIN d.object.items /\ Len(Keys(d.object)) = Len(d.object.items)
<1>1. d.object \in Objects /\ d.name \in StructNames /\ d.depth \in Nat /\ d.depth <= MaxDepth
  BY DEF Whole, Calling
<1>2. /\ d.object \in Containers /\ Keys(d.object) = d.object.keys /\ IsObj(d.object) /\ d.object \in JsonTrees
      /\ DOMAIN d.object.items = DOMAIN d.object.keys
  BY <1>1, ObjectItems
<1>3. DOMAIN d.object.items = 1 .. Len(d.object.items) /\ Len(d.object.items) \in Nat
      /\ Len(d.object.items) = Len(d.object.keys)
  BY <1>2, TreeShape
<1>4. OwnFields(d) \in Seq(Declared)
  BY <1>2, FieldsType DEF OwnFields
<1> QED
  BY <1>1, <1>2, <1>3, <1>4

\* Noting a struct that is called for.
LEMMA NotingFaithful ==
    ASSUME NEW D, Whole(D), NEW d \in D, NEW all, Faithful(D, all),
           FieldsNoted(d, Len(d.object.items), all)
    PROVE  LET after == Noting(all, d.name, OwnFields(d))
           IN  /\ Faithful(D, after) /\ KeepsNoted(all, after) /\ IsNoted(d.name, after)
               /\ \A e \in D, n \in Nat : FieldsNoted(e, n, all) => FieldsNoted(e, n, after)
<1> DEFINE after == Noting(all, d.name, OwnFields(d))
           new == StructOf(d.name, OwnFields(d))
<1>1. after = {s \in all : s.name # d.name} \cup {new} /\ new.name = d.name
  BY DEF Noting, StructOf
<1>2. after \in SUBSET Structs
  BY CalledFor, StructMade DEF Faithful
<1> HIDE DEF after, new
<1>3. IsNoted(d.name, after)
  BY <1>1 DEF IsNoted
<1>4. KeepsNoted(all, after)
  BY <1>1 DEF KeepsNoted, IsNoted
<1>5. \A e \in D, n \in Nat : FieldsNoted(e, n, all) => FieldsNoted(e, n, after)
  BY <1>4 DEF KeepsNoted, FieldsNoted
<1>6. ASSUME NEW s \in after
      PROVE  \E e \in D : s = StructOf(e.name, OwnFields(e)) /\ FieldsNoted(e, Len(e.object.items), after)
  <2>1. CASE s = new
    <3>1. FieldsNoted(d, Len(d.object.items), after)
      BY <1>5, CalledFor
    <3> QED
      BY <2>1, <3>1 DEF new
  <2>2. CASE s # new
    <3>1. s \in all
      BY <1>1, <2>2
    <3>2. PICK e \in D : s = StructOf(e.name, OwnFields(e)) /\ FieldsNoted(e, Len(e.object.items), all)
      BY <3>1 DEF Faithful
    <3>3. Len(e.object.items) \in Nat
      BY CalledFor
    <3>4. FieldsNoted(e, Len(e.object.items), after)
      BY <1>5, <3>2, <3>3
    <3> QED
      BY <3>2, <3>4
  <2> QED
    BY <2>1, <2>2
<1>7. Faithful(D, after)
  BY <1>2, <1>6 DEF Faithful
<1> QED
  BY <1>3, <1>4, <1>5, <1>7 DEF after

\* One field of a struct that is called for.
LEMMA ReferredFaithful ==
    ASSUME NEW D, Whole(D), NEW d \in D, NEW i \in DOMAIN d.object.items, NEW all, Faithful(D, all),
           HasCall(d, i) => Delivers(D, FieldCall(d, i))
    PROVE  LET after == Referred(Struct, d.object.keys[i], d.object.items[i], FALSE, d.depth, all)
           IN  Faithful(D, after) /\ KeepsNoted(all, after)
               /\ (HasCall(d, i) => IsNoted(FieldCall(d, i).name, after))
<1> DEFINE after == Referred(Struct, d.object.keys[i], d.object.items[i], FALSE, d.depth, all)
           e == FieldCall(d, i)
           s == Struct[e.object][GoCall(e.name, FALSE, e.depth)][all]
<1>1. after = IF ~HasCall(d, i) \/ IsNoted(e.name, all) THEN all ELSE Noting(s.all, e.name, s.fields)
  BY DEF Referred, FieldCall, HasCall
<1>2. CASE ~HasCall(d, i) \/ IsNoted(e.name, all)
  <2>1. after = all
    BY <1>1, <1>2
  <2> HIDE DEF after, s
  <2>2. Faithful(D, after) /\ KeepsNoted(all, after)
    BY <2>1 DEF KeepsNoted
  <2>3. HasCall(d, i) => IsNoted(e.name, after)
    BY <1>2, <2>1
  <2> QED
    BY <2>2, <2>3 DEF after
<1>3. CASE HasCall(d, i) /\ ~IsNoted(e.name, all)
  <2>1. e \in D
    BY <1>3 DEF Whole
  <2>2. Delivers(D, e)
    BY <1>3
  <2>3. after = Noting(s.all, e.name, s.fields)
    BY <1>1, <1>3
  <2> HIDE DEF after, e
  <2>4. /\ s.fields = OwnFields(e)
        /\ Faithful(D, s.all) /\ KeepsNoted(all, s.all) /\ FieldsNoted(e, Len(e.object.items), s.all)
    BY <2>2 DEF Delivers
  <2> HIDE DEF s
  <2>5. after = Noting(s.all, e.name, OwnFields(e))
    BY <2>3, <2>4
  <2>6. Faithful(D, after) /\ KeepsNoted(s.all, after) /\ IsNoted(e.name, after)
    BY <2>1, <2>4, <2>5, NotingFaithful
  <2>7. KeepsNoted(all, after)
    BY <2>4, <2>6 DEF KeepsNoted
  <2> QED
    BY <2>6, <2>7 DEF after, e
<1> QED
  BY <1>2, <1>3

\* The fields of a struct that is called for.
LEMMA BelowFaithful ==
    ASSUME NEW D, Whole(D), NEW d \in D, NEW all, Faithful(D, all),
           \A i \in DOMAIN d.object.items : HasCall(d, i) => Delivers(D, FieldCall(d, i))
    PROVE  LET below == StructsBelow(Struct, d.object, FALSE, d.depth, all)
           IN  Faithful(D, below) /\ KeepsNoted(all, below) /\ FieldsNoted(d, Len(d.object.items), below)
<1> DEFINE fs == Steps(Struct, d.object, FALSE, d.depth)
           below == StructsBelow(Struct, d.object, FALSE, d.depth, all)
           len == Len(d.object.items)
           R == {x \in Nat \X SUBSET Structs :
                    Faithful(D, x[2]) /\ KeepsNoted(all, x[2]) /\ FieldsNoted(d, x[1], x[2])}
<1>1. /\ d.object \in Containers /\ Keys(d.object) = d.object.keys
      /\ DOMAIN d.object.items = 1 .. len /\ len \in Nat /\ Len(Keys(d.object)) = len
  BY CalledFor
<1>2. /\ Len(fs) = len
      /\ \A n \in 1 .. len : \A acc \in SUBSET Structs :
            fs[n][acc] = Referred(Struct, d.object.keys[n], d.object.items[n], FALSE, d.depth, acc)
  <2>1. Len(fs) = Len(Keys(d.object))
        /\ \A n \in 1 .. Len(Keys(d.object)) : \A acc \in SUBSET Structs :
              fs[n][acc] = Referred(Struct, Keys(d.object)[n], d.object.items[n], FALSE, d.depth, acc)
    <3>1. DOMAIN Keys(d.object) = 1 .. Len(Keys(d.object)) /\ Len(Keys(d.object)) \in Nat
      BY <1>1
    <3>2. fs = [i \in DOMAIN Keys(d.object) |-> [acc \in SUBSET Structs |->
                  Referred(Struct, Keys(d.object)[i], d.object.items[i], FALSE, d.depth, acc)]]
      BY DEF Steps
    <3> HIDE DEF fs
    <3>3. Len(fs) = Len(Keys(d.object))
      BY <3>1, <3>2
    <3>4. ASSUME NEW n \in 1 .. Len(Keys(d.object)), NEW acc \in SUBSET Structs
          PROVE  fs[n][acc] = Referred(Struct, Keys(d.object)[n], d.object.items[n], FALSE, d.depth, acc)
      <4>1. n \in DOMAIN Keys(d.object)
        BY <3>1
      <4>2. fs[n] = [a \in SUBSET Structs |->
                        Referred(Struct, Keys(d.object)[n], d.object.items[n], FALSE, d.depth, a)]
        BY <3>2, <4>1
      <4> QED
        BY <4>2
    <3> QED
      BY <3>3, <3>4
  <2> HIDE DEF fs, len
  <2> QED
    BY <1>1, <2>1
<1>3. below = Outcome(fs, all)
  BY DEF StructsBelow, Steps
<1>0. \A n, acc : <<n, acc>> \in R <=>
         n \in Nat /\ acc \in SUBSET Structs /\ Faithful(D, acc) /\ KeepsNoted(all, acc) /\ FieldsNoted(d, n, acc)
  OBVIOUS
<1> HIDE DEF fs, below, len, R
<1>4. <<0, all>> \in R
  BY <1>0 DEF Faithful, KeepsNoted, FieldsNoted
<1>5. ASSUME NEW n \in 1 .. len, NEW acc, <<n - 1, acc>> \in R
      PROVE  <<n, fs[n][acc]>> \in R
  <2>1. Faithful(D, acc) /\ KeepsNoted(all, acc) /\ FieldsNoted(d, n - 1, acc) /\ acc \in SUBSET Structs
    BY <1>0, <1>5
  <2> DEFINE after == fs[n][acc]
  <2>2. n \in DOMAIN d.object.items /\ (HasCall(d, n) => Delivers(D, FieldCall(d, n)))
    BY <1>1
  <2>3. after = Referred(Struct, d.object.keys[n], d.object.items[n], FALSE, d.depth, acc)
    BY <1>2, <2>1
  <2>4. /\ Faithful(D, after) /\ KeepsNoted(acc, after)
        /\ HasCall(d, n) => IsNoted(FieldCall(d, n).name, after)
    BY <2>1, <2>2, <2>3, ReferredFaithful
  <2> HIDE DEF after
  <2>5. KeepsNoted(all, after)
    BY <2>1, <2>4 DEF KeepsNoted
  <2>6. FieldsNoted(d, n, after)
    <3> SUFFICES ASSUME NEW i \in 1 .. n, HasCall(d, i) PROVE IsNoted(FieldCall(d, i).name, after)
      BY DEF FieldsNoted
    <3>1. CASE i = n
      BY <2>4, <3>1
    <3>2. CASE i # n
      <4>1. i \in 1 .. n - 1
        BY <1>1, <3>2
      <4> QED
        BY <2>1, <2>4, <4>1 DEF FieldsNoted, KeepsNoted
    <3> QED
      BY <3>1, <3>2
  <2>7. after \in SUBSET Structs /\ n \in Nat
    BY <1>1, <2>4 DEF Faithful
  <2>8. <<n, after>> \in R
    BY <1>0, <2>4, <2>5, <2>6, <2>7
  <2> QED
    BY <2>8 DEF after
<1>6. <<Len(fs), Outcome(fs, all)>> \in R
  <2>1. Len(fs) \in Nat /\ \A n \in 1 .. Len(fs) : \A x : <<n - 1, x>> \in R => <<n, fs[n][x]>> \in R
    BY <1>1, <1>2, <1>5
  <2> QED
    BY <1>4, <2>1, OutcomeInvariant
<1>7. Faithful(D, below) /\ KeepsNoted(all, below) /\ FieldsNoted(d, len, below)
  BY <1>0, <1>2, <1>3, <1>6
<1> QED
  BY <1>7 DEF below, len

\* genGoStruct, for one that is called for.
LEMMA MadeStep ==
    ASSUME NEW D, Whole(D), NEW d \in D,
           \A e \in D : Weight[e.object] < Weight[d.object] => Delivers(D, e)
    PROVE  Delivers(D, d)
<1>1. ASSUME NEW i \in DOMAIN d.object.items, HasCall(d, i) PROVE Delivers(D, FieldCall(d, i))
  <2>1. FieldCall(d, i) \in D
    BY <1>1 DEF Whole
  <2>2. Weight[FieldCall(d, i).object] < Weight[d.object]
    <3>1. d.object \in Containers /\ i \in DOMAIN Keys(d.object)
      BY <1>1, CalledFor
    <3>2. Weight[Referenced(d.object.items[i], FALSE)] < Weight[d.object]
      <4>1. PICK r : r = Referenced(d.object.items[i], FALSE)
        OBVIOUS
      <4>2. PICK name : name = ReferencedName(Keys(d.object)[i], d.object.items[i])
        OBVIOUS
      <4>3. r # Null
        BY <1>1, <4>1 DEF HasCall
      <4>4. FALSE \in BOOLEAN /\ d.depth \in Nat
        BY CalledFor
      <4>5. Weight[r] < Weight[d.object]
        BY <3>1, <4>1, <4>2, <4>3, <4>4, ReferredCall
      <4> QED
        BY <4>1, <4>5
    <3> QED
      BY <3>2 DEF FieldCall
  <2> QED
    BY <2>1, <2>2
<1> SUFFICES ASSUME NEW all, Faithful(D, all),
                    NEW s, s = Struct[d.object][GoCall(d.name, FALSE, d.depth)][all]
             PROVE  /\ s.fields = OwnFields(d)
                    /\ Faithful(D, s.all) /\ KeepsNoted(all, s.all)
                    /\ FieldsNoted(d, Len(d.object.items), s.all) /\ IsNoted(d.name, s.all)
  BY DEF Delivers
<1> DEFINE below == StructsBelow(Struct, d.object, FALSE, d.depth, all)
<1>2. Faithful(D, below) /\ KeepsNoted(all, below) /\ FieldsNoted(d, Len(d.object.items), below)
  BY <1>1, BelowFaithful
<1>3. GoCall(d.name, FALSE, d.depth) \in GoCalls /\ d.depth <= MaxDepth /\ d.depth \in Nat /\ MaxDepth \in Nat
  BY CalledFor, GoAssumption DEF GoCall, GoCalls
<1>4. s = StructBody(Struct, d.object, GoCall(d.name, FALSE, d.depth), all)
  BY <1>3, CalledFor, StructRecurs DEF Faithful
<1>5. s = [fields |-> OwnFields(d),
           all    |-> IF IsNoted(d.name, below) THEN below ELSE below \cup {StructOf(d.name, OwnFields(d))}]
  BY <1>3, <1>4 DEF StructBody, GoCall, OwnFields
<1> HIDE DEF below
<1>6. CASE IsNoted(d.name, below)
  BY <1>2, <1>5, <1>6
<1>7. CASE ~IsNoted(d.name, below)
  <2>1. Noting(below, d.name, OwnFields(d)) = below \cup {StructOf(d.name, OwnFields(d))}
    BY <1>7 DEF Noting, IsNoted
  <2>2. s.all = Noting(below, d.name, OwnFields(d)) /\ s.fields = OwnFields(d)
    BY <1>5, <1>7, <2>1
  <2>3. /\ Faithful(D, s.all) /\ KeepsNoted(below, s.all) /\ IsNoted(d.name, s.all)
        /\ FieldsNoted(d, Len(d.object.items), s.all)
    BY <1>2, <2>2, NotingFaithful, CalledFor
  <2>4. KeepsNoted(all, s.all)
    BY <1>2, <2>3 DEF KeepsNoted
  <2> QED
    BY <2>2, <2>3, <2>4
<1> QED
  BY <1>6, <1>7

\* Every struct that is called for is made.
LEMMA AllMade ==
    ASSUME NEW D, Whole(D)
    PROVE  \A d \in D : Delivers(D, d)
<1> DEFINE S == {v \in JsonTrees : \A d \in D : d.object = v => Delivers(D, d)}
<1>0. \A d \in D : d.object \in JsonTrees
  BY CalledFor DEF Objects
<1>1. ASSUME NEW v \in JsonTrees, \A u \in JsonTrees : Weight[u] < Weight[v] => u \in S
      PROVE  v \in S
  <2> SUFFICES ASSUME NEW d \in D, d.object = v PROVE Delivers(D, d)
    OBVIOUS
  <2>1. \A e \in D : Weight[e.object] < Weight[d.object] => Delivers(D, e)
    BY <1>0, <1>1
  <2> QED
    BY <2>1, MadeStep
<1> HIDE DEF S
<1>2. \A v \in JsonTrees : v \in S
  BY <1>1, TreeInduction
<1> QED
  BY <1>0, <1>2 DEF S

----------------------------------------------------------------------------
(* What each type holds                                                    *)

\* What a name alone holds.
LEMMA FitsName ==
    ASSUME NEW v \in JsonTrees, NEW name, NEW code \in SUBSET Structs
    PROVE  /\ name \in StructNames =>
                 Type(0, name) \in GoTypes /\ Fits[v][Type(0, name)][code] = FitsNamed(Fits, v, name, code)
           /\ name \in BuiltIn =>
                 Type(0, name) \in GoTypes /\ Fits[v][Type(0, name)][code] = FitsBuiltIn(v, name)
<1> SUFFICES ASSUME name \in StructNames \/ name \in BuiltIn,
                    NEW type, type = Type(0, name)
             PROVE  /\ type \in GoTypes
                    /\ name \in StructNames => Fits[v][type][code] = FitsNamed(Fits, v, name, code)
                    /\ name \in BuiltIn => Fits[v][type][code] = FitsBuiltIn(v, name)
  OBVIOUS
<1>1. name \in TypeNames /\ 0 \in Nat
  BY DEF TypeNames
<1>2. type \in GoTypes /\ type.dims = 0 /\ type.name = name
  BY <1>1, TypeMade
<1>3. ~(type.dims > 0)
  BY <1>2
<1>4. Fits[v][type][code] = FitsIn(Fits, v, type, code)
  BY <1>2, FitsRecurs
<1>5. CASE name \in StructNames
  <2>1. name \notin BuiltIn
    BY <1>5, GoAssumption
  <2> QED
    BY <1>2, <1>3, <1>4, <1>5, <2>1, FitsFlat
<1>6. CASE name \in BuiltIn
  <2>1. name \notin StructNames
    BY <1>6, GoAssumption
  <2> QED
    BY <1>2, <1>3, <1>4, <1>6, <2>1, FitsFlat
<1> QED
  BY <1>5, <1>6

\* What a struct in place holds.
LEMMA FitsPlace ==
    ASSUME NEW v \in JsonTrees, NEW u \in JsonTrees, NEW code \in SUBSET Structs
    PROVE  /\ Inline(0, u) \in GoTypes
           /\ Fits[v][Inline(0, u)][code] = FitsStruct(Fits, v, InlineFields(u), code)
<1> SUFFICES ASSUME NEW type, type = Inline(0, u)
             PROVE  type \in GoTypes /\ Fits[v][type][code] = FitsStruct(Fits, v, InlineFields(u), code)
  OBVIOUS
<1>1. type \in GoTypes /\ type.dims = 0 /\ type.name = "struct" /\ type.of = u
  BY InlineMade
<1>2. ~(type.dims > 0)
  BY <1>1
<1>3. Fits[v][type][code] = FitsIn(Fits, v, type, code)
  BY <1>1, FitsRecurs
<1>4. FitsIn(Fits, v, type, code) = FitsStruct(Fits, v, InlineFields(type.of), code)
  BY <1>1, <1>2, FitsFlat
<1> QED
  BY <1>1, <1>3, <1>4

\* What brackets before a type hold.
LEMMA FitsNested ==
    ASSUME NEW v \in JsonTrees, IsArr(v), NEW type \in GoTypes, NEW code \in SUBSET Structs,
           v.items # <<>> => Fits[v.items[1]][type][code]
    PROVE  Nested(1, type) \in GoTypes /\ Fits[v][Nested(1, type)][code]
<1> SUFFICES ASSUME NEW nested, nested = Nested(1, type)
             PROVE  nested \in GoTypes /\ Fits[v][nested][code]
  OBVIOUS
<1>1. type.dims \in Nat /\ type = [dims |-> type.dims, name |-> type.name, of |-> type.of]
  BY DEF GoTypes
<1>2. nested \in GoTypes /\ nested = [dims |-> 1 + type.dims, name |-> type.name, of |-> type.of]
  BY NestedMade
<1>3. nested.dims = 1 + type.dims /\ nested.dims > 0 /\ nested.dims - 1 = type.dims
  BY <1>1, <1>2
<1>4. [nested EXCEPT !.dims = @ - 1] = type
  BY <1>1, <1>2, <1>3
<1>5. Fits[v][nested][code] = FitsIn(Fits, v, nested, code)
  BY <1>2, FitsRecurs
<1>6. FitsIn(Fits, v, nested, code) =
         (IsArr(v) /\ (v.items # <<>> => Fits[v.items[1]][[nested EXCEPT !.dims = @ - 1]][code]))
  BY <1>3 DEF FitsIn
<1> QED
  BY <1>2, <1>4, <1>5, <1>6

\* Brackets before names and structs in place.
LEMMA NestedTypes ==
    /\ \A name \in TypeNames : Type(1, name) = Nested(1, Type(0, name)) /\ Type(2, name) = Nested(1, Type(1, name))
    /\ \A u : Inline(1, u) = Nested(1, Inline(0, u))
    /\ \A type \in GoTypes : Nested(2, type) = Nested(1, Nested(1, type))
<1>1. \A name \in TypeNames : Type(1, name) = Nested(1, Type(0, name)) /\ Type(2, name) = Nested(1, Type(1, name))
  BY DEF Type, Nested
<1>2. \A u : Inline(1, u) = Nested(1, Inline(0, u))
  BY DEF Inline, Nested
<1>3. ASSUME NEW type \in GoTypes PROVE Nested(2, type) = Nested(1, Nested(1, type))
  <2>1. type.dims \in Nat
    BY DEF GoTypes
  <2>2. PICK one : one = Nested(1, type)
    OBVIOUS
  <2>3. one \in GoTypes /\ one = [dims |-> 1 + type.dims, name |-> type.name, of |-> type.of]
    BY <2>2, NestedMade
  <2>4. Nested(1, one) = [dims |-> 1 + one.dims, name |-> one.name, of |-> one.of]
    BY <2>3, NestedMade
  <2>5. Nested(2, type) = [dims |-> 2 + type.dims, name |-> type.name, of |-> type.of]
    BY NestedMade
  <2> QED
    BY <2>1, <2>2, <2>3, <2>4, <2>5
<1> QED
  BY <1>1, <1>2, <1>3

\* An array of arrays fits if what stands for its elements does.
LEMMA FitsMatrix ==
    ASSUME NEW w \in JsonTrees, IsMatrix(w), NEW type \in GoTypes, NEW code \in SUBSET Structs,
           w.items[1].items # <<>> => Fits[w.items[1].items[1]][type][code]
    PROVE  Fits[w][Nested(2, type)][code]
<1>1. IsArr(w) /\ w.items[1] \in JsonTrees /\ IsArr(w.items[1])
  BY MatrixOrTable
<1>2. Nested(1, type) \in GoTypes /\ Fits[w.items[1]][Nested(1, type)][code]
  BY <1>1, FitsNested
<1>3. PICK one : one = Nested(1, type)
  OBVIOUS
<1>4. Fits[w][Nested(1, one)][code]
  BY <1>1, <1>2, <1>3, FitsNested
<1> QED
  BY <1>3, <1>4, NestedTypes

\* inferType gives a type that its value fits.
LEMMA FitsBasic ==
    ASSUME NEW v \in JsonTrees, IsArr(v) /\ v.items # <<>> => ~IsContainer(v.items[1]),
           NEW code \in SUBSET Structs
    PROVE  Fits[v][BasicType(v)][code]
<1>0. "interface{}" \in BuiltIn /\ AnyMap \in BuiltIn /\ BuiltIn \subseteq TypeNames
  BY DEF BuiltIn, TypeNames
<1>1. CASE IsArr(v)
  <2>1. /\ v.items = <<>> => BasicType(v) = Type(1, "interface{}")
        /\ v.items # <<>> => BasicType(v) = Type(1, v.items[1].kind)
    BY <1>1, TreeShape DEF BasicType
  <2>2. CASE v.items = <<>>
    <3>1. Type(0, "interface{}") \in GoTypes
      BY <1>0, FitsName
    <3>2. Fits[v][Nested(1, Type(0, "interface{}"))][code]
      BY <1>1, <2>2, <3>1, FitsNested
    <3> QED
      BY <1>0, <2>1, <2>2, <3>2, NestedTypes
  <2>3. CASE v.items # <<>>
    <3>1. v.items[1] \in JsonTrees /\ ~IsContainer(v.items[1])
      BY <1>1, <2>3, MatrixOrTable
    <3>2. PICK kind : kind = v.items[1].kind
      OBVIOUS
    <3>3. kind \in BuiltIn
      BY <3>1, <3>2, AtomKinds
    <3>4. FitsBuiltIn(v.items[1], kind)
      BY <3>2 DEF FitsBuiltIn
    <3>5. Type(0, kind) \in GoTypes /\ Fits[v.items[1]][Type(0, kind)][code]
      BY <3>1, <3>3, <3>4, FitsName
    <3>6. Fits[v][Nested(1, Type(0, kind))][code]
      BY <1>1, <3>5, FitsNested
    <3> QED
      BY <1>0, <2>1, <2>3, <3>2, <3>3, <3>6, NestedTypes
  <2> QED
    BY <2>2, <2>3
<1>2. CASE IsObj(v)
  <2>1. BasicType(v) = Type(0, AnyMap)
    BY <1>2, TreeShape DEF BasicType
  <2>2. FitsBuiltIn(v, AnyMap)
    BY <1>2 DEF FitsBuiltIn
  <2> QED
    BY <1>0, <2>1, <2>2, FitsName
<1>3. CASE ~IsContainer(v)
  <2>1. BasicType(v) = Type(0, v.kind)
    BY <1>3 DEF BasicType, IsContainer
  <2>2. v.kind \in BuiltIn
    BY <1>3, AtomKinds
  <2>3. FitsBuiltIn(v, v.kind)
    BY DEF FitsBuiltIn
  <2> QED
    BY <2>1, <2>2, <2>3, FitsName
<1> QED
  BY <1>1, <1>2, <1>3 DEF IsContainer

\* A field that no struct is generated for fits, unless it is a struct in place.
LEMMA FitsPlain ==
    ASSUME NEW w \in JsonTrees, NEW k \in FieldNames, NEW inline \in BOOLEAN,
           ~OddMatrix(w), Referenced(w, inline) = Null, NEW code \in SUBSET Structs,
           IsTable(w) => Fits[w.items[1]][Inline(0, w.items[1])][code],
           IsObj(w) => Fits[w][Inline(0, w)][code]
    PROVE  Fits[w][FieldTypeOf(k, w, inline)][code]
<1>0. AnyMap \in BuiltIn /\ BuiltIn \subseteq TypeNames /\ 0 \in Nat
  BY DEF BuiltIn, TypeNames
<1> SUFFICES ASSUME NEW type, type = FieldTypeOf(k, w, inline) PROVE Fits[w][type][code]
  OBVIOUS
<1>1. CASE IsMatrix(w)
  <2>1. PICK item : item = NestedItem(w.items[1])
    OBVIOUS
  <2>2. type = Nested(2, BasicType(item))
    BY <1>1, <2>1, FieldTypeCases
  <2>3. PICK items : items = w.items[1].items
    OBVIOUS
  <2>4. \/ item = EmptyObj /\ (items = <<>> \/ Falsy(items[1]))
        \/ /\ items # <<>> /\ item = items[1] /\ item \in JsonTrees /\ ~Falsy(item)
           /\ IsContainer(item) => item.items = <<>>
    BY <1>1, <2>1, <2>3, PlainMatrix
  <2>5. CASE item = EmptyObj /\ (items = <<>> \/ Falsy(items[1]))
    <3>1. BasicType(item) = Type(0, AnyMap)
      BY <2>5 DEF BasicType, EmptyObj, Obj, IsObj, IsArr
    <3>2. items # <<>> => items[1] = Null
      BY <1>1, <2>3, <2>5 DEF OddMatrix
    <3>3. Type(0, AnyMap) \in GoTypes /\ Fits[Null][Type(0, AnyMap)][code]
      <4>1. FitsBuiltIn(Null, AnyMap)
        BY DEF FitsBuiltIn
      <4> QED
        BY <1>0, <4>1, FitsName, NullIsTree
    <3>4. Fits[w][Nested(2, Type(0, AnyMap))][code]
      BY <1>1, <2>3, <3>2, <3>3, FitsMatrix
    <3> QED
      BY <2>2, <3>1, <3>4
  <2>6. CASE items # <<>> /\ item = items[1] /\ item \in JsonTrees /\ (IsContainer(item) => item.items = <<>>)
    <3>1. IsArr(item) => item.items = <<>>
      BY <2>6 DEF IsContainer
    <3>2. BasicType(item) \in GoTypes /\ Fits[item][BasicType(item)][code]
      BY <2>6, <3>1, FitsBasic, BasicTypes
    <3>3. PICK basic : basic = BasicType(item)
      OBVIOUS
    <3>4. Fits[w][Nested(2, basic)][code]
      BY <1>1, <2>3, <2>6, <3>2, <3>3, FitsMatrix
    <3> QED
      BY <2>2, <3>3, <3>4
  <2> QED
    BY <2>4, <2>5, <2>6
<1>2. CASE IsTable(w)
  <2>1. type = Inline(1, w.items[1]) /\ w.items[1] \in JsonTrees /\ IsArr(w)
    BY <1>2, FieldTypeCases, MatrixOrTable
  <2>2. Inline(0, w.items[1]) \in GoTypes
    BY <2>1, FitsPlace
  <2>3. Fits[w][Nested(1, Inline(0, w.items[1]))][code]
    BY <1>2, <2>1, <2>2, FitsNested
  <2> QED
    BY <2>1, <2>3, NestedTypes
<1>3. CASE IsObj(w)
  <2>1. (Keys(w) = <<>> => type = Type(0, AnyMap)) /\ (Keys(w) # <<>> => type = Inline(0, w))
    BY <1>3, FieldTypeCases
  <2>2. Fits[w][Type(0, AnyMap)][code]
    <3>1. FitsBuiltIn(w, AnyMap)
      BY <1>3 DEF FitsBuiltIn
    <3> QED
      BY <1>0, <3>1, FitsName
  <2> QED
    BY <1>3, <2>1, <2>2
<1>4. CASE IsArr(w) /\ w.items # <<>> /\ ~IsContainer(w.items[1])
  <2>1. type = Nested(1, BasicType(w.items[1])) /\ w.items[1] \in JsonTrees
    BY <1>4, FieldTypeCases, MatrixOrTable
  <2>2. IsArr(w.items[1]) => IsContainer(w.items[1])
    BY DEF IsContainer
  <2>3. BasicType(w.items[1]) \in GoTypes /\ Fits[w.items[1]][BasicType(w.items[1])][code]
    BY <1>4, <2>1, <2>2, FitsBasic, BasicTypes
  <2>4. PICK basic : basic = BasicType(w.items[1])
    OBVIOUS
  <2>5. Fits[w][Nested(1, basic)][code]
    BY <1>4, <2>3, <2>4, FitsNested
  <2> QED
    BY <2>1, <2>4, <2>5
<1>5. CASE ~IsContainer(w) \/ (IsArr(w) /\ w.items = <<>>)
  <2>1. type = BasicType(w)
    BY <1>5, FieldTypeCases
  <2>2. IsArr(w) => IsContainer(w)
    BY DEF IsContainer
  <2> QED
    BY <1>5, <2>1, <2>2, FitsBasic
<1> QED
  BY <1>1, <1>2, <1>3, <1>4, <1>5, FieldTypeCases

----------------------------------------------------------------------------
(* Documents and the types generated for them                              *)

\* An object fits its struct once each field does.
LEMMA FitsFields ==
    ASSUME NEW v \in Objects, NEW inline \in BOOLEAN, NEW code,
           \A i \in DOMAIN v.items : Fits[v.items[i]][FieldTypeOf(v.keys[i], v.items[i], inline)][code]
    PROVE  FitsStruct(Fits, v, FieldsOf(v, inline), code)
<1>1. /\ v \in Containers /\ IsObj(v) /\ Keys(v) = v.keys /\ DOMAIN v.items = DOMAIN v.keys
  BY ObjectItems
<1>2. PICK fields : fields = FieldsOf(v, inline)
  OBVIOUS
<1>3. DOMAIN fields = DOMAIN v.keys
      /\ \A i \in DOMAIN v.keys : fields[i] = FieldOf(v.keys[i], FieldTypeOf(v.keys[i], v.items[i], inline))
  BY <1>1, <1>2, FieldsType
<1>4. ASSUME NEW i \in DOMAIN v.keys
      PROVE  fields[i].key = v.keys[i] /\ Fits[v.items[i]][fields[i].type][code]
  <2>1. fields[i].key = v.keys[i] /\ fields[i].type = FieldTypeOf(v.keys[i], v.items[i], inline)
    <3>1. PICK type : type = FieldTypeOf(v.keys[i], v.items[i], inline)
      OBVIOUS
    <3>2. fields[i] = FieldOf(v.keys[i], type)
      BY <1>3, <3>1
    <3>3. fields[i] = [key |-> v.keys[i], type |-> type]
      BY <3>2 DEF FieldOf
    <3> QED
      BY <3>1, <3>3
  <2> QED
    BY <1>1, <2>1
<1>5. FitsStruct(Fits, v, fields, code)
  BY <1>1, <1>3, <1>4 DEF FitsStruct
<1> QED
  BY <1>2, <1>5

\* One that is called for and noted has its own struct under its name.
LEMMA OwnStruct ==
    ASSUME NEW D, Whole(D), NEW d \in D, NEW code, Faithful(D, code), NEW s \in code, s.name = d.name
    PROVE  s.fields = OwnFields(d) /\ FieldsNoted(d, Len(d.object.items), code)
<1>1. PICK e \in D : s = StructOf(e.name, OwnFields(e)) /\ FieldsNoted(e, Len(e.object.items), code)
  BY DEF Faithful
<1>2. s.name = e.name /\ s.fields = OwnFields(e)
  BY <1>1 DEF StructOf
<1>3. e.object = d.object
  BY <1>2 DEF Whole, NamesApart
<1>4. OwnFields(e) = OwnFields(d)
  BY <1>3 DEF OwnFields
<1>5. \A i : HasCall(e, i) = HasCall(d, i) /\ FieldCall(e, i).name = FieldCall(d, i).name
  BY <1>3 DEF HasCall, FieldCall
<1>6. FieldsNoted(d, Len(d.object.items), code)
  BY <1>1, <1>3, <1>5 DEF FieldsNoted
<1> QED
  BY <1>2, <1>4, <1>6

\* The object of one that is noted fits its name.
Held(d, code) == IsNoted(d.name, code) => Fits[d.object][Type(0, d.name)][code]

\* One whose object fits its own struct is held.
LEMMA HeldBy ==
    ASSUME NEW D, Whole(D), NEW d \in D, NEW code, Faithful(D, code),
           FitsStruct(Fits, d.object, OwnFields(d), code)
    PROVE  Held(d, code)
<1> SUFFICES ASSUME IsNoted(d.name, code) PROVE Fits[d.object][Type(0, d.name)][code]
  BY DEF Held
<1>1. d.object \in JsonTrees /\ d.name \in StructNames /\ code \in SUBSET Structs
  BY CalledFor DEF Objects, Faithful
<1>2. \A s \in code : s.name = d.name => FitsStruct(Fits, d.object, s.fields, code)
  BY OwnStruct
<1>3. FitsNamed(Fits, d.object, d.name, code)
  BY <1>2 DEF FitsNamed
<1>4. PICK name : name = d.name
  OBVIOUS
<1>5. Fits[d.object][Type(0, name)][code]
  BY <1>1, <1>3, <1>4, FitsName
<1> QED
  BY <1>4, <1>5

\* A field that a struct is generated for.
LEMMA FitsReferred ==
    ASSUME NEW w \in JsonTrees, NEW k \in FieldNames, Referenced(w, FALSE) # Null,
           NEW code \in SUBSET Structs,
           Fits[Referenced(w, FALSE)][Type(0, ReferencedName(k, w))][code]
    PROVE  Fits[w][FieldTypeOf(k, w, FALSE)][code]
<1> SUFFICES ASSUME NEW r, r = Referenced(w, FALSE), r # Null, NEW n, n = ReferencedName(k, w),
                    Fits[r][Type(0, n)][code], NEW type, type = FieldTypeOf(k, w, FALSE)
             PROVE  Fits[w][type][code]
  OBVIOUS
<1>1. type = Type(IF IsMatrix(w) THEN 2 ELSE IF IsTable(w) THEN 1 ELSE 0, n)
  <2>1. PICK inline \in BOOLEAN : inline = FALSE
    OBVIOUS
  <2>2. r = Referenced(w, inline) /\ type = FieldTypeOf(k, w, inline)
    BY <2>1
  <2>3. type = Type(IF IsMatrix(w) THEN 2 ELSE IF IsTable(w) THEN 1 ELSE 0, ReferencedName(k, w))
    BY <2>2, FieldTypeCases
  <2> QED
    BY <2>3
<1>2. /\ IsMatrix(w) \/ IsTable(w) \/ IsObj(w)
      /\ IsMatrix(w) => r = w.items[1].items[1]
      /\ IsTable(w) => r = w.items[1]
      /\ IsObj(w) => r = w
  BY Reference, MatrixOrTable
<1>3. n \in StructNames /\ n \in TypeNames
  BY <1>2, ReferenceName DEF TypeNames
<1>4. Type(0, n) \in GoTypes /\ Type(1, n) \in GoTypes
      /\ Type(1, n) = Nested(1, Type(0, n)) /\ Type(2, n) = Nested(1, Type(1, n))
  BY <1>3, NestedTypes, TypeMade
<1>5. CASE IsMatrix(w)
  <2>1. type = Type(2, n)
    BY <1>1, <1>5
  <2>2. Fits[w][Nested(2, Type(0, n))][code]
    BY <1>2, <1>4, <1>5, FitsMatrix
  <2>3. Nested(2, Type(0, n)) = Nested(1, Nested(1, Type(0, n)))
    BY <1>4, NestedTypes
  <2> QED
    BY <1>4, <2>1, <2>2, <2>3
<1>6. CASE IsTable(w)
  <2>1. type = Type(1, n) /\ IsArr(w)
    BY <1>1, <1>6, MatrixOrTable
  <2>2. Fits[w][Nested(1, Type(0, n))][code]
    BY <1>2, <1>4, <1>6, <2>1, FitsNested
  <2> QED
    BY <1>4, <2>1, <2>2
<1>7. CASE IsObj(w)
  <2>1. ~IsMatrix(w) /\ ~IsTable(w)
    BY <1>7, MatrixOrTable
  <2> QED
    BY <1>1, <1>2, <1>7, <2>1
<1> QED
  BY <1>2, <1>5, <1>6, <1>7

\* Every object that is called for fits its struct, once it is noted.
LEMMA AllHeld ==
    ASSUME NEW D, Whole(D), NEW code, Faithful(D, code)
    PROVE  \A d \in D : Held(d, code)
<1> DEFINE S == {v \in JsonTrees : \A d \in D : d.object = v => Held(d, code)}
<1>0. \A d \in D : d.object \in JsonTrees
  BY CalledFor DEF Objects
<1>1. ASSUME NEW v \in JsonTrees, \A u \in JsonTrees : Weight[u] < Weight[v] => u \in S
      PROVE  v \in S
  <2> SUFFICES ASSUME NEW d \in D, d.object = v, IsNoted(d.name, code) PROVE Held(d, code)
    BY DEF Held
  <2>1. d.object \in Objects /\ code \in SUBSET Structs
        /\ DOMAIN d.object.items = 1 .. Len(d.object.items)
    BY CalledFor DEF Faithful
  <2>2. FieldsNoted(d, Len(d.object.items), code)
    <3>1. PICK s \in code : s.name = d.name
      BY DEF IsNoted
    <3> QED
      BY <3>1, OwnStruct
  <2>3. ASSUME NEW i \in DOMAIN d.object.items
        PROVE  Fits[d.object.items[i]][FieldTypeOf(d.object.keys[i], d.object.items[i], FALSE)][code]
    <3> SUFFICES ASSUME NEW w, w = d.object.items[i], NEW k, k = d.object.keys[i]
                 PROVE  Fits[w][FieldTypeOf(k, w, FALSE)][code]
      OBVIOUS
    <3>1. w \in JsonTrees /\ k \in FieldNames /\ Weight[w] < Weight[d.object]
      BY <2>1, ObjectItems
    <3>2. ~OddMatrix(w)
      BY DEF Whole, Misread
    <3>3. CASE Referenced(w, FALSE) # Null
      <4>1. FieldCall(d, i) \in D /\ IsNoted(FieldCall(d, i).name, code)
        BY <2>1, <2>2, <3>3 DEF Whole, FieldsNoted, HasCall
      <4>2. PICK e \in D : e = FieldCall(d, i)
        BY <4>1
      <4>3. e.object = Referenced(w, FALSE) /\ e.name = ReferencedName(k, w)
        BY <4>2 DEF FieldCall
      <4>4. Weight[e.object] < Weight[d.object]
        <5>1. Weight[e.object] <= Weight[w]
          BY <3>1, <3>3, <4>3, Reference
        <5>2. Weight[e.object] \in Nat /\ Weight[w] \in Nat /\ Weight[d.object] \in Nat
          BY <1>0, <3>1, TreeShape
        <5> QED
          BY <3>1, <5>1, <5>2
      <4>5. Held(e, code)
        BY <1>0, <1>1, <4>4
      <4>6. Fits[e.object][Type(0, e.name)][code]
        BY <4>1, <4>2, <4>5 DEF Held
      <4> QED
        BY <2>1, <3>1, <3>3, <4>3, <4>6, FitsReferred
    <3>4. CASE Referenced(w, FALSE) = Null
      <4>1. ~IsTable(w)
        BY <3>1, <3>4, MatrixOrTable DEF Referenced, Null, IsObj
      <4>2. IsObj(w) => Keys(w) = <<>>
        BY <3>1, <3>4, <4>1, MatrixOrTable DEF Referenced, Null, IsObj
      <4>3. CASE IsObj(w)
        <5>1. FieldTypeOf(k, w, FALSE) = Type(0, AnyMap)
          BY <3>1, <3>4, <4>2, <4>3, FieldTypeCases
        <5>2. FitsBuiltIn(w, AnyMap) /\ AnyMap \in BuiltIn
          BY <4>3 DEF FitsBuiltIn, BuiltIn
        <5> QED
          BY <2>1, <3>1, <5>1, <5>2, FitsName
      <4>4. CASE ~IsObj(w)
        BY <2>1, <3>1, <3>2, <3>4, <4>1, <4>4, FitsPlain
      <4> QED
        BY <4>3, <4>4
    <3> QED
      BY <3>3, <3>4
  <2>4. FitsStruct(Fits, d.object, OwnFields(d), code)
    BY <2>1, <2>3, FitsFields DEF OwnFields
  <2> QED
    BY <2>4, HeldBy
<1> HIDE DEF S
<1>2. \A v \in JsonTrees : v \in S
  BY <1>1, TreeInduction
<1> QED
  BY <1>0, <1>2 DEF S

\* The structs generated by name hold a document that the generator is right about.
LEMMA NamedHold ==
    ASSUME NEW v \in Objects, NEW name \in StructNames, Understood(v, name, FALSE)
    PROVE  Fits[v][Type(0, name)][Code(v, name, FALSE)]
<1> DEFINE D == Named[v][name][0]
           d == [name |-> name, object |-> v, depth |-> 0]
           s == Struct[v][GoCall(name, FALSE, 0)][{}]
           code == Code(v, name, FALSE)
<1>1. Whole(D) /\ d \in D
  BY UnderstoodWhole
<1>2. code = Noting(s.all, name, s.fields)
  BY DEF Code, Understood
<1>3. d.name = name /\ d.object = v /\ d.depth = 0
  OBVIOUS
<1>4. Faithful(D, {})
  BY DEF Faithful
<1> HIDE DEF D, d, code
<1>5. Delivers(D, d)
  BY <1>1, AllMade
<1>6. s.fields = OwnFields(d) /\ Faithful(D, s.all) /\ FieldsNoted(d, Len(d.object.items), s.all)
  BY <1>3, <1>4, <1>5 DEF Delivers
<1> HIDE DEF s
<1>7. code = Noting(s.all, d.name, OwnFields(d))
  BY <1>2, <1>3, <1>6
<1>8. Faithful(D, code) /\ IsNoted(d.name, code)
  BY <1>1, <1>6, <1>7, NotingFaithful
<1>9. Held(d, code)
  BY <1>1, <1>8, AllHeld
<1> QED
  BY <1>3, <1>8, <1>9 DEF Held, code

----------------------------------------------------------------------------
(* Structs in place                                                        *)

\* An object without arrays of objects fits its struct in place.
LEMMA PlaceHolds ==
    ASSUME NEW code \in SUBSET Structs
    PROVE  \A v \in JsonTrees : IsObj(v) /\ ~HoldsArray[v] => Fits[v][Inline(0, v)][code]
<1> DEFINE S == {v \in JsonTrees : IsObj(v) /\ ~HoldsArray[v] => Fits[v][Inline(0, v)][code]}
<1>1. ASSUME NEW v \in JsonTrees, \A u \in JsonTrees : Weight[u] < Weight[v] => u \in S
      PROVE  v \in S
  <2> SUFFICES ASSUME IsObj(v), ~HoldsArray[v] PROVE Fits[v][Inline(0, v)][code]
    OBVIOUS
  <2>1. v \in Objects /\ DOMAIN v.keys = DOMAIN v.items
    BY ObjectItems DEF Objects
  <2>2. ~HoldsArrayIn(HoldsArray, v)
    BY HoldsArrayRecurs
  <2>3. PICK fields : fields = InlineFields(v)
    OBVIOUS
  <2>4. DOMAIN fields = DOMAIN v.keys
    BY <2>1, <2>3 DEF InlineFields
  <2>5. ASSUME NEW i \in DOMAIN v.keys
        PROVE  fields[i].key = v.keys[i] /\ Fits[v.items[i]][fields[i].type][code]
    <3> SUFFICES ASSUME NEW w, w = v.items[i]
                 PROVE  fields[i].key = v.keys[i] /\ Fits[w][fields[i].type][code]
      OBVIOUS
    <3>1. w \in JsonTrees /\ Weight[w] < Weight[v]
      BY <2>1, ObjectItems
    <3>2. ~HoldsArray[w] /\ ~(IsArr(w) /\ w.items # <<>> /\ TypeOf(w.items[1]) = "object")
      BY <2>1, <2>2 DEF HoldsArrayIn
    <3>3. fields[i] = FieldOf(v.keys[i], IF IsObj(w) THEN Inline(0, w) ELSE BasicType(w))
      <4>1. fields[i] = FieldOf(v.keys[i],
                CASE IsObj(w) -> Inline(0, w)
                  [] IsArr(w) /\ w.items # <<>> /\ TypeOf(w.items[1]) = "object" -> Type(1, Names[v.keys[i]].item)
                  [] OTHER -> BasicType(w))
        BY <2>1, <2>3 DEF InlineFields
      <4>2. CASE IsObj(w)
        BY <3>2, <4>1, <4>2
      <4>3. CASE ~IsObj(w)
        BY <3>2, <4>1, <4>3
      <4> QED
        BY <4>2, <4>3
    <3>4. PICK type : type = IF IsObj(w) THEN Inline(0, w) ELSE BasicType(w)
      OBVIOUS
    <3>5. fields[i].key = v.keys[i] /\ fields[i].type = type
      BY <3>3, <3>4 DEF FieldOf
    <3>6. CASE IsObj(w)
      <4>1. Fits[w][Inline(0, w)][code]
        BY <1>1, <3>1, <3>2, <3>6
      <4> QED
        BY <3>4, <3>5, <3>6, <4>1
    <3>7. CASE ~IsObj(w)
      <4>1. IsArr(w) /\ w.items # <<>> => ~IsContainer(w.items[1])
        BY <3>2 DEF TypeOf
      <4>2. Fits[w][BasicType(w)][code]
        BY <3>1, <4>1, FitsBasic
      <4> QED
        BY <3>4, <3>5, <3>7, <4>2
    <3> QED
      BY <3>6, <3>7
  <2>6. FitsStruct(Fits, v, InlineFields(v), code)
    BY <2>3, <2>4, <2>5 DEF FitsStruct
  <2> QED
    BY <2>6, FitsPlace
<1> HIDE DEF S
<1>2. \A v \in JsonTrees : v \in S
  BY <1>1, TreeInduction
<1> QED
  BY <1>2 DEF S

\* One struct with structs in place holds a document that the generator is right
\* about.
LEMMA InlineHolds ==
    ASSUME NEW v \in Objects, NEW name \in StructNames, Understood(v, name, TRUE)
    PROVE  Fits[v][Type(0, name)][Code(v, name, TRUE)]
<1> DEFINE call == GoCall(name, TRUE, 0)
           s == Struct[v][call][{}]
           code == Code(v, name, TRUE)
           fields == FieldsOf(v, TRUE)
<1>1. v \in Containers /\ v \in JsonTrees /\ IsObj(v) /\ DOMAIN v.items = DOMAIN v.keys
  BY ObjectItems
<1>2. call \in GoCalls /\ {} \in SUBSET Structs
  BY DEF GoCall, GoCalls
<1>3. s = StructBody(Struct, v, call, {})
  BY <1>1, <1>2, StructRecurs
<1>4. s.fields = fields
  <2>1. ~(0 > MaxDepth)
    BY GoAssumption
  <2> QED
    BY <1>3, <2>1 DEF StructBody, GoCall
<1>5. code = {StructOf(name, fields)}
  BY <1>4 DEF Code, Noting, Understood
<1>6. fields \in Seq(Declared)
  <2>1. PICK inline \in BOOLEAN : inline = TRUE
    OBVIOUS
  <2>2. FieldsOf(v, inline) \in Seq(Declared)
    BY <1>1, FieldsType
  <2> QED
    BY <2>1, <2>2
<1> HIDE DEF s, call, fields, code
<1>7. code \in SUBSET Structs
  BY <1>5, <1>6, StructMade
<1>8. ASSUME NEW i \in DOMAIN v.items
      PROVE  Fits[v.items[i]][FieldTypeOf(v.keys[i], v.items[i], TRUE)][code]
  <2> SUFFICES ASSUME NEW w, w = v.items[i], NEW k, k = v.keys[i], NEW inline \in BOOLEAN, inline = TRUE
               PROVE  Fits[w][FieldTypeOf(k, w, inline)][code]
    OBVIOUS
  <2>1. w \in JsonTrees /\ k \in FieldNames
    BY ObjectItems
  <2>2. /\ ~OddMatrix(w) /\ ~HoldsArray[w] /\ ~(IsTable(w) /\ HoldsArray[w.items[1]])
        /\ ~(IsMatrix(w) /\ IsTable(w.items[1]) /\ w.items[1].items[1].keys # <<>>)
    BY DEF Understood, Misread, LosesStruct
  <2>3. Referenced(w, inline) = Null
    <3> SUFFICES ASSUME NEW r, r = Referenced(w, inline), r # Null PROVE FALSE
      OBVIOUS
    <3>1. /\ IsMatrix(w) /\ w.items[1].items # <<>> /\ r = w.items[1].items[1] /\ Keys(r) # <<>>
          /\ r \in Containers
      BY <2>1, Reference
    <3>2. r \in JsonTrees /\ IsContainer(r)
      BY <3>1 DEF Containers
    <3>3. r.items # <<>>
      BY <3>1, <3>2, SomeKeys
    <3>4. IsObj(r)
      BY <2>2, <3>1, <3>2, <3>3 DEF OddMatrix, IsContainer
    <3>5. r.keys # <<>>
      BY <3>1, <3>2, <3>4, TreeKeys
    <3>6. IsTable(w.items[1])
      BY <2>1, <3>1, <3>4, MatrixOrTable DEF IsTable
    <3> QED
      BY <2>2, <3>1, <3>5, <3>6
  <2>4. IsTable(w) => Fits[w.items[1]][Inline(0, w.items[1])][code]
    BY <1>7, <2>1, <2>2, PlaceHolds, MatrixOrTable
  <2>5. IsObj(w) => Fits[w][Inline(0, w)][code]
    BY <1>7, <2>1, <2>2, PlaceHolds
  <2> QED
    BY <1>7, <2>1, <2>2, <2>3, <2>4, <2>5, FitsPlain
<1>9. FitsStruct(Fits, v, fields, code)
  <2>1. PICK inline \in BOOLEAN : inline = TRUE
    OBVIOUS
  <2>2. FitsStruct(Fits, v, FieldsOf(v, inline), code)
    BY <1>8, <2>1, FitsFields
  <2> QED
    BY <2>1, <2>2 DEF fields
<1>10. FitsNamed(Fits, v, name, code)
  <2>1. \A t \in code : t.name = name /\ t.fields = fields
    BY <1>5 DEF StructOf
  <2>2. IsNoted(name, code)
    BY <1>5, <2>1 DEF IsNoted
  <2> QED
    BY <1>9, <2>1, <2>2 DEF FitsNamed
<1>11. Fits[v][Type(0, name)][code]
  BY <1>1, <1>7, <1>10, FitsName
<1> QED
  BY <1>11 DEF code

\* Nothing yet, or the code for the document.
Generation ==
    /\ work \in [op : {"go"}, data : Generated, name : MainNames, inline : BOOLEAN]
    /\ result = Pending \/ result = [code |-> Code(work.data, work.name, work.inline)]

\* That is so in every state.
LEMMA GenerationAlways == GenerateSpec => []Generation
<1>1. GenerateInit => Generation
  BY DEF GenerateInit, Generation
<1>2. Generation /\ [Generates]_<<work, result>> => Generation'
  <2> SUFFICES ASSUME Generation, [Generates]_<<work, result>> PROVE Generation'
    OBVIOUS
  <2>1. CASE Generates
    BY <2>1 DEF Generates, Generation
  <2>2. CASE UNCHANGED <<work, result>>
    BY <2>2 DEF Generation
  <2> QED
    BY <2>1, <2>2
<1> QED
  BY <1>1, <1>2, PTL DEF GenerateSpec

\* The Go code holds the document that it is generated for, whatever the document:
\* each type it names is there, and the struct that stands for an object has its
\* fields, each of a type that holds what is in the field (genGo and genGoStruct,
\* index.html:4102-4267; genGoInlineStruct, 4269-4306).
THEOREM AlwaysTypesHoldDocument == GenerateSpec => []TypesHoldDocument
<1>1. Generation => TypesHoldDocument
  <2> SUFFICES ASSUME Generation, Done("go"), IsObj(work.data),
                      Understood(work.data, work.name, work.inline)
               PROVE  Fits[work.data][Type(0, work.name)][result.code]
    BY DEF TypesHoldDocument
  <2> DEFINE v == work.data
             name == work.name
             inline == work.inline
  <2>1. v \in Objects /\ name \in StructNames /\ inline \in BOOLEAN
    BY GoAssumption DEF Generation, Objects, Containers
  <2>2. result.code = Code(v, name, inline)
    BY DEF Generation, Done
  <2> HIDE DEF v, name, inline
  <2>3. Understood(v, name, inline)
    BY DEF v, name, inline
  <2>4. CASE inline = TRUE
    BY <2>1, <2>2, <2>3, <2>4, InlineHolds DEF v, name
  <2>5. CASE inline = FALSE
    BY <2>1, <2>2, <2>3, <2>5, NamedHold DEF v, name
  <2> QED
    BY <2>1, <2>4, <2>5
<1> QED
  BY <1>1, GenerationAlways, PTL
=============================================================================
