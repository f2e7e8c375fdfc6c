---------------------------- MODULE Comparison -----------------------------
(***************************************************************************)
(* The semantic comparison of two documents (performDiff and deepCompare): *)
(* the differences reported, each with the path to where it is.            *)
(***************************************************************************)
EXTENDS Trees, Works, FiniteSets, Naturals

CONSTANTS
    JsonValues,   \* the values of the documents, and all that is in them
    Height        \* how deep a value goes: what JSON.parse makes is finite

\* No key is one that every object inherits (toString), which the operator "in"
\* would find; and the bound of Index: no array is longer.
ASSUME ComparisonAssumption ==
    /\ EmptyObj \in JsonValues
    /\ Height \in [JsonValues -> Nat]
    /\ \A v \in JsonValues :
        /\ \/ IsObj(v) /\ v = Obj(v.keys, v.items) /\ v.keys \in Seq(FieldName)
                       /\ v.items \in Seq(JsonValues) /\ Len(v.items) = Len(v.keys)
                       /\ IsInjective(v.keys)
           \/ IsArr(v) /\ v = Arr(v.items) /\ v.items \in Seq(JsonValues)
                       /\ Len(v.items) <= Len(Index)
           \/ v.kind \in {"null", "number", "string"}
        /\ IsContainer(v) => \A k \in ToSet(Keys(v)) :
                                At(v, k) \in JsonValues /\ Height[At(v, k)] < Height[v]

Paths == Seq(FieldName)

\* obj || {}
Given(v) == IF Falsy(v) THEN EmptyObj ELSE v

Difference(type, path, v) == [type |-> type, path |-> path, value |-> v]

\* Mutant: only the fields of the left document are looked at.
LeftKeys(a, b) == ToSet(Keys(a))

\* The keys of either side.
AllKeys(a, b) == ToSet(Keys(a)) \cup ToSet(Keys(b))

\* Two values that are compared as a whole; arrays by their JSON texts.
CompareWhole(v1, v2, path) == IF v1 = v2 THEN {} ELSE {Difference("modified", path, v2)}

\* An object or array on the left, with whatever counts as an object on the
\* right, unless both are arrays: compared field by field.
Descends(v1, v2) ==
    IsContainer(v1) /\ TypeOf(v2) = "object" /\ ~(IsArr(v1) /\ IsArr(v2))

\* deepCompare
DeepCompare[a \in JsonValues] == [b \in JsonValues |-> [path \in Paths |->
    LET left  == Given(a)
        right == Given(b)
        Of(k) == LET here == Append(path, k)
                     v1   == At(left, k)
                     v2   == At(right, k)
                 IN CASE ~Has(left, k) -> {Difference("added", here, v2)}
                      [] Has(left, k) /\ ~Has(right, k) -> {Difference("removed", here, v1)}
                      [] Has(left, k) /\ Has(right, k) /\ Descends(v1, v2) ->
                            DeepCompare[v1][v2][here]
                      [] OTHER -> CompareWhole(v1, v2, here)
    IN  UNION {Of(k) : k \in AllKeys(left, right)}]]

\* The comparison as performDiff makes it: the operator "in" throws on a value
\* that is neither an object nor falsy; the left side is asked for every key, the
\* right side for those of the left.
PerformDiff(a, b) ==
    LET left   == Given(a)
        right  == Given(b)
        throws == \/ ~IsContainer(left) /\ AllKeys(left, right) # {}
                  \/ IsContainer(left) /\ ~IsContainer(right) /\ Keys(left) # <<>>
    IN  [error |-> throws, differences |-> IF throws THEN {} ELSE DeepCompare[a][b][<<>>]]

Compares ==
    /\ result = Pending
    /\ work.op = "compare"
    /\ result' = PerformDiff(work.left, work.right)
    /\ UNCHANGED work

CompareInit ==
    /\ work \in [op : {"compare"}, left : JsonValues, right : JsonValues]
    /\ result = Pending

CompareSpec == CompareInit /\ [][Compares]_<<work, result>>

----------------------------------------------------------------------------
(* What a comparison is for, to check the algorithm against.               *)

\* What a value at a path says: where its objects are, and what the other values
\* are.  An array is one value, as in deepCompare.
Facts[v \in JsonValues] == [path \in Paths |->
    IF IsObj(v)
    THEN {<<path, EmptyObj>>} \cup UNION {Facts[At(v, k)][Append(path, k)] : k \in ToSet(v.keys)}
    ELSE {<<path, v>>}]

\* What the fields of an object, or the elements of an array, say.
FieldFacts(v, path) == UNION {Facts[At(v, k)][Append(path, k)] : k \in ToSet(Keys(v))}

\* What a document says; the elements of an outermost array are compared singly.
Content(v) == FieldFacts(v, <<>>)

\* What a reader of the report takes the right document to say: the left one,
\* with the places named replaced by the values given for them.
Corrected(facts, ds) ==
    {f \in facts : ~ \E d \in ds : IsPrefix(d.path, f[1])}
        \cup UNION {Facts[d.value][d.path] : d \in {e \in ds : e.type # "removed"}}

\* Where the algorithm takes two values for the same by design or by accident:
\* an object and an array, either of them on the left and null on the right.
Blind[v1 \in JsonValues] == [v2 \in JsonValues |->
    \/ Descends(v1, v2) /\ v1.kind # v2.kind
    \/ /\ IsObj(v1) /\ IsObj(v2)
       /\ \E k \in ToSet(v1.keys) \cap ToSet(v2.keys) : Blind[At(v1, k)][At(v2, k)]]

\* Outermost, also null on the left and values without fields.
BlindDocuments(a, b) ==
    \/ Blind[a][b]
    \/ IsArr(a) /\ IsArr(b) /\ \E k \in ToSet(Keys(a)) \cap ToSet(Keys(b)) : Blind[At(a, k)][At(b, k)]
    \/ ~IsContainer(a) \/ ~IsContainer(b)

\* The report explains the difference: carrying it out on what the left document
\* says gives what the right one says.  deepCompare's blind spots are named.
ReportExplains ==
    Done("compare") /\ ~result.error
    /\ ~BlindDocuments(work.left, work.right)
    => Corrected(Content(work.left), result.differences) = Content(work.right)
=============================================================================
