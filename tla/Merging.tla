------------------------------ MODULE Merging -------------------------------
(***************************************************************************)
(* The merging of array elements before code is generated (processObject   *)
(* and mergeArrayItems): the generator looks at the first element of each  *)
(* array only, so the first element has to have the fields of all.         *)
(***************************************************************************)
EXTENDS Trees, Works, Compositions

CONSTANTS
    FieldNames,   \* the names of fields
    Inherited,    \* those that every object inherits (toString), as functions
    ArrayNames,   \* those that every array has besides (length, map)
    MaxWeight,    \* the bound on the weight of a document
    Mergeable     \* the documents to merge

\* What is not a container.
Atoms == {Null} \cup [kind : {"number", "string"}, val : STRING]

ArraysOf(S)  == [kind : {"array"}, items : Seq(S)]
ObjectsOf(S) ==
    {o \in [kind : {"object"}, keys : Seq(FieldNames), items : Seq(S)] :
        Len(o.items) = Len(o.keys) /\ IsInjective(o.keys)}

\* The values with no more than n containers in each other.
UpTo[n \in 0 .. MaxWeight] ==
    IF n = 0 THEN Atoms ELSE Atoms \cup ArraysOf(UpTo[n - 1]) \cup ObjectsOf(UpTo[n - 1])

\* How deep a value is if the elements of each array are put into each other: more
\* than that does not come out of merging them.
Weight[v \in UpTo[MaxWeight]] ==
    IF IsContainer(v)
    THEN 1 + Outcome([i \in DOMAIN v.items |-> [n \in Nat |->
                         CASE IsArr(v) -> n + Weight[v.items[i]]
                           [] IsObj(v) -> IF Weight[v.items[i]] < n THEN n ELSE Weight[v.items[i]]]], 0)
    ELSE 0

JsonTrees == {v \in UpTo[MaxWeight] : Weight[v] <= MaxWeight}

\* An array whose elements are merged as fields has them named by Index.
ASSUME MergingAssumption ==
    /\ ToSet(Index) \subseteq FieldNames
    /\ MaxWeight \in Nat
    /\ Mergeable \subseteq JsonTrees

\* null, undefined or the empty text: gives way to another value.
Blank(v) == v = Null \/ v = Text("")

----------------------------------------------------------------------------
(* The functions call each other; merge is what a call of any of them      *)
(* returns.                                                                *)

ArrayTrees == {v \in JsonTrees : IsArr(v)}

MergeArrayItems(arr)      == [op |-> "mergeArrayItems", array |-> arr]
DeepMerge(target, source) == [op |-> "deepMerge", target |-> target, source |-> source]
Process(v)                == [op |-> "process", item |-> v]

Calls == [op : {"mergeArrayItems"}, array : ArrayTrees]
         \cup {call \in [op : {"deepMerge"}, target : JsonTrees, source : JsonTrees] :
                    Weight[call.target] + Weight[call.source] <= MaxWeight}
         \cup [op : {"process"}, item : JsonTrees]

\* source[key] has something to say, and the target has not.
Updates(target, source, k) == Blank(At(target, k)) /\ ~IsContainer(At(source, k)) /\ ~Blank(At(source, k))

\* Mutant: an object is taken from the source only where there was none.
MergedFieldOnce(merge, target, source, k) ==
    CASE ~Has(source, k) -> At(target, k)
      [] Has(source, k) /\ ~Has(target, k) -> At(source, k)
      [] Has(source, k) /\ Has(target, k) ->
            IF Updates(target, source, k) THEN At(source, k) ELSE At(target, k)

\* Mutant: what the target has stays, null as well.
MergedFieldKeepsNull(merge, target, source, k) ==
    CASE ~Has(source, k) -> At(target, k)
      [] Has(source, k) /\ ~Has(target, k) -> At(source, k)
      [] Has(source, k) /\ Has(target, k) ->
            IF IsContainer(At(source, k)) THEN merge[DeepMerge(At(target, k), At(source, k))]
            ELSE At(target, k)

\* What deepMerge makes of a field of the merged object; the target may be an array.
MergedField(merge, target, source, k) ==
    CASE ~Has(source, k) -> At(target, k)
      [] Has(source, k) /\ ~Has(target, k) -> At(source, k)
      [] Has(source, k) /\ Has(target, k) ->
            IF IsContainer(At(source, k)) THEN merge[DeepMerge(At(target, k), At(source, k))]
            ELSE IF Updates(target, source, k) THEN At(source, k)
            ELSE At(target, k)

\* What the source has at k alone is not taken over: "in" finds k in the target all
\* the same, where a function says enough, or a length against a blank value.  An
\* object or array is merged into the function and comes out as it is.
Dropped(target, source, k) ==
    /\ ~IsContainer(At(source, k))
    /\ k \in Inherited \/ (IsArr(target) /\ k \in ArrayNames /\ Blank(At(source, k)))

\* The keys of the target, then those that the source adds, in its order.
MergedKeys(target, source) ==
    Outcome([i \in DOMAIN source.keys |-> [keys \in Seq(FieldNames) |->
                IF Has(target, source.keys[i]) \/ Dropped(target, source, source.keys[i]) THEN keys
                ELSE Append(keys, source.keys[i])]],
            Keys(target))

MergedObject(merge, target, source) ==
    LET keys == MergedKeys(target, source)
    IN  Obj(keys, [i \in DOMAIN keys |-> MergedField(merge, target, source, keys[i])])

\* Arrays are merged when the source begins with null, an object or an array.
MergedArray(merge, target, source) ==
    CASE ~IsArr(target) \/ target.items = <<>> -> source
      [] IsArr(target) /\ target.items # <<>> ->
            IF source.items # <<>> /\ TypeOf(source.items[1]) = "object"
            THEN merge[MergeArrayItems(Arr(target.items \o source.items))]
            ELSE target

\* deepMerge: a value without fields gives way to one with fields.
DeepMerged(merge, target, source) ==
    CASE ~IsContainer(source) -> target
      [] IsContainer(source) /\ ~IsContainer(target) -> source
      [] IsContainer(target) /\ IsArr(source) -> MergedArray(merge, target, source)
      [] IsContainer(target) /\ IsObj(source) -> MergedObject(merge, target, source)

\* process, in processObject; processSuperObject does the same to an object.
Processed(merge, v) ==
    CASE IsArr(v) -> merge[MergeArrayItems(v)]
      [] IsObj(v) -> Obj(v.keys, [i \in DOMAIN v.items |-> merge[Process(v.items[i])]])
      [] OTHER -> v

\* Mutant: the merged object is put before the elements it is made of.
KeepItems(items, super) == Arr(<<super>> \o items)

\* The array that stands for items: their merged object alone.
Replaced(items, super) == Arr(<<super>>)

\* array.flat()
Flat(items) ==
    Outcome([i \in DOMAIN items |-> [out \in Seq(JsonTrees) |->
                out \o (IF IsArr(items[i]) THEN items[i].items ELSE <<items[i]>>)]], <<>>)

\* All the objects among the elements merged into one.
SuperObject(merge, items) ==
    Outcome([i \in DOMAIN items |-> [out \in JsonTrees |->
                IF IsObj(items[i]) THEN merge[DeepMerge(out, items[i])] ELSE out]], EmptyObj)

\* mergeArrayItems: by the first element, objects, arrays or anything else.
MergedItems(merge, arr) ==
    LET items == arr.items
    IN  CASE items = <<>> \/ ~IsContainer(items[1]) -> arr
          [] items # <<>> /\ IsObj(items[1]) ->
                Replaced(items, merge[Process(SuperObject(merge, items))])
          [] items # <<>> /\ IsArr(items[1]) -> Arr(<<merge[MergeArrayItems(Arr(Flat(items)))]>>)

Merge[call \in Calls] ==
    CASE call.op = "mergeArrayItems" -> MergedItems(Merge, call.array)
      [] call.op = "deepMerge" -> DeepMerged(Merge, call.target, call.source)
      [] call.op = "process" -> Processed(Merge, call.item)

\* processObject, with the option mergeArrayFields on or off.
ProcessObject(v, mergeArrayFields) == IF mergeArrayFields THEN Merge[Process(v)] ELSE v

Merges ==
    /\ result = Pending
    /\ work.op = "merge"
    /\ result' = [merged |-> ProcessObject(work.data, TRUE)]
    /\ UNCHANGED work

MergeInit == work \in [op : {"merge"}, data : Mergeable] /\ result = Pending

MergeSpec == MergeInit /\ [][Merges]_<<work, result>>

----------------------------------------------------------------------------
(* What the merging is for, to check the algorithm against.                *)

\* The steps of a path: into a field, or into an array, whose elements have one
\* place in common.
Into(k) == <<k>>
Element == <<>>

Places == Seq({Into(k) : k \in FieldNames} \cup {Element})

\* What can be said of a value without what is in it.
Mark(v) == IF IsContainer(v) THEN v.kind ELSE IF Blank(v) THEN "blank" ELSE "concrete"

\* The values in a document, each with its place; firstOnly: as the generator
\* looks at it.
Marks[v \in JsonTrees] == [firstOnly \in BOOLEAN |-> [path \in Places |->
    {<<path, Mark(v)>>} \cup
    CASE IsObj(v) -> UNION {Marks[v.items[i]][firstOnly][Append(path, Into(v.keys[i]))]
                               : i \in DOMAIN v.items}
      [] IsArr(v) -> UNION {Marks[v.items[i]][firstOnly][Append(path, Element)]
                               : i \in {j \in DOMAIN v.items : firstOnly => j = 1}}
      [] OTHER -> {}]]

IsElement(path) == path # <<>> /\ Last(path) = Element

InField(path) == path # <<>> /\ ~IsElement(path)

\* The values of fields, each with its place.
Fields(v, firstOnly) == {f \in Marks[v][firstOnly][<<>>] : InField(f[1])}

FieldPlaces(v, firstOnly) == {f[1] : f \in Fields(v, firstOnly)}

\* A field under a name that every object inherits.
OfInherited(path) == InField(path) /\ Head(Last(path)) \in Inherited

\* The documents that merging is made for: no place has arrays and objects, the
\* elements at a place are all objects, all arrays, or neither, and what is under an
\* inherited name is an array or an object: anything else is lost in an array.
Regular(marks) ==
    /\ \A f, g \in marks :
          f[1] = g[1] /\ f[2] # g[2] =>
              /\ {f[2], g[2]} # {"array", "object"}
              /\ IsElement(f[1]) => {f[2], g[2]} \cap {"array", "object"} = {}
    /\ \A f \in marks : OfInherited(f[1]) => f[2] \in {"array", "object"}

RegularDocument(v) == Regular(Marks[v][FALSE][<<>>])

\* "The generator takes array[0] and gets the complete structure"
\* (index.html:1381): the first elements of the merged document have the fields
\* of all elements of the given one, and no others.  Not so of irregular documents:
\* of [{"toString": 1}] nothing is left but [{}].
FirstHasAllFields ==
    Done("merge") /\ RegularDocument(work.data)
    => FieldPlaces(result.merged, TRUE) = FieldPlaces(work.data, FALSE)

\* Null and the empty text have no type to generate: a field of the merged
\* document has such a value only if no element has another one.
ConcreteWins ==
    Done("merge") /\ RegularDocument(work.data)
    => \A f \in Fields(result.merged, TRUE) :
          f[2] = "blank" => \A g \in Fields(work.data, FALSE) : g[1] = f[1] => g[2] = "blank"

\* Merging what is merged changes nothing.
MergedOnce ==
    Done("merge") => ProcessObject(result.merged, TRUE) = result.merged
=============================================================================
