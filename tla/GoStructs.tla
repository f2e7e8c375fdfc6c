----------------------------- MODULE GoStructs -----------------------------
(***************************************************************************)
(* The Go types generated for a document (genGo, genGoStruct and           *)
(* genGoInlineStruct): a struct for the document and for each object in it,*)
(* under a name made of the object's key, whichever object comes first.    *)
(* No field is taken for a time: the detection is off or finds none.       *)
(***************************************************************************)
EXTENDS Merging

CONSTANTS
    \* Names[k]: the struct names made of the key k, for an object (formatName),
    \* for the elements of an array (its singular, or with Item appended), and
    \* for those of an array of arrays.
    Names,
    StructNames, \* the names of structs
    MainNames,   \* the names the user may choose for the document's struct
    MaxDepth,    \* how deep structs are generated (20)
    Generated    \* the documents to generate code for

AnyMap == "map[string]interface{}"

BuiltIn == {"interface{}", AnyMap, "null", "number", "string"}

TypeNames == StructNames \cup BuiltIn \cup {"struct"}

Containers == {v \in JsonTrees : IsContainer(v)}

\* Struct names begin with a capital or with "field", or are Chinese.
ASSUME GoAssumption ==
    /\ Names \in [FieldNames -> [type : StructNames, item : StructNames, matrix : StructNames]]
    /\ StructNames \cap (BuiltIn \cup {"struct"}) = {}
    /\ MainNames \subseteq StructNames
    /\ MaxDepth \in Nat
    /\ Generated \subseteq Containers

\* A type: so many times [] before a name, or before a struct in place, which is
\* given by the object it is written for.
Type(dims, name) == [dims |-> dims, name |-> name, of |-> Null]
Inline(dims, v)  == [dims |-> dims, name |-> "struct", of |-> v]

GoTypes == [dims : Nat, name : TypeNames, of : JsonTrees]

Nested(n, type) == [type EXCEPT !.dims = n + @]

FieldOf(k, type) == [key |-> k, type |-> type]

\* The structs that have been generated under a name; their fields are in the
\* order of the code.
StructOf(name, fields) == [name |-> name, fields |-> fields]

Structs == [name : StructNames, fields : Seq([key : FieldNames \cup {"data"}, type : GoTypes])]

IsNoted(name, structs) == \E s \in structs : s.name = name

\* allStructs[name] = code
Noting(structs, name, fields) ==
    {s \in structs : s.name # name} \cup {StructOf(name, fields)}

----------------------------------------------------------------------------
\* inferType(v, "go"), of what is no array of arrays or objects.
BasicType(v) ==
    CASE IsArr(v) /\ v.items = <<>> -> Type(1, "interface{}")
      [] IsArr(v) /\ v.items # <<>> -> Type(1, v.items[1].kind)
      [] IsObj(v) -> Type(0, AnyMap)
      [] OTHER -> Type(0, v.kind)

IsMatrix(w) == IsArr(w) /\ w.items # <<>> /\ IsArr(w.items[1])
IsTable(w)  == IsArr(w) /\ w.items # <<>> /\ IsObj(w.items[1])

\* firstItem[0] || {}, the element that stands for an array of arrays.
NestedItem(arr) ==
    IF arr.items = <<>> \/ Falsy(arr.items[1]) THEN EmptyObj ELSE arr.items[1]

\* What a struct of its own is generated for, of a value in a struct; null if there
\* is no need of one.
Referenced(w, inline) ==
    LET item == NestedItem(w.items[1])
    IN  CASE IsMatrix(w) /\ IsContainer(item) /\ Keys(item) # <<>> -> item
          [] IsTable(w) /\ ~inline -> w.items[1]
          [] IsObj(w) /\ Keys(w) # <<>> /\ ~inline -> w
          [] OTHER -> Null

ReferencedName(k, w) ==
    CASE IsMatrix(w) -> Names[k].matrix
      [] IsTable(w)  -> Names[k].item
      [] IsObj(w)    -> Names[k].type

\* The type of a field of a struct.
FieldTypeOf(k, w, inline) ==
    CASE Referenced(w, inline) # Null ->
            Type(IF IsMatrix(w) THEN 2 ELSE IF IsTable(w) THEN 1 ELSE 0, ReferencedName(k, w))
      [] IsMatrix(w) /\ Referenced(w, inline) = Null -> Nested(2, BasicType(NestedItem(w.items[1])))
      [] IsTable(w) /\ Referenced(w, inline) = Null -> Inline(1, w.items[1])
      [] IsObj(w) /\ Referenced(w, inline) = Null ->
            IF Keys(w) = <<>> THEN Type(0, AnyMap) ELSE Inline(0, w)
      [] IsArr(w) /\ w.items # <<>> /\ ~IsContainer(w.items[1]) -> Nested(1, BasicType(w.items[1]))
      [] ~IsContainer(w) \/ (IsArr(w) /\ w.items = <<>>) -> BasicType(w)

FieldsOf(v, inline) ==
    [i \in DOMAIN Keys(v) |-> FieldOf(Keys(v)[i], FieldTypeOf(Keys(v)[i], v.items[i], inline))]

\* genGoInlineStruct: objects in place, arrays of objects by a name.
InlineFields(v) ==
    [i \in DOMAIN v.items |->
        LET w == v.items[i]
        IN  FieldOf(v.keys[i],
                CASE IsObj(w) -> Inline(0, w)
                  [] IsArr(w) /\ w.items # <<>> /\ TypeOf(w.items[1]) = "object" ->
                        Type(1, Names[v.keys[i]].item)
                  [] OTHER -> BasicType(w))]

\* A call of genGoStruct, but for its object and allStructs.
GoCall(name, inline, depth) == [name |-> name, inline |-> inline, depth |-> depth]

GoCalls == [name : StructNames, inline : BOOLEAN, depth : Nat]

\* Mutant: one struct beside the main one is enough.
ReferredUnlessAny(struct, k, w, inline, depth, all) ==
    LET v    == Referenced(w, inline)
        name == ReferencedName(k, w)
        s    == struct[v][GoCall(name, FALSE, depth + 1)][all]
    IN  IF v = Null \/ all # {} THEN all ELSE Noting(s.all, name, s.fields)

\* The struct a field refers to is generated unless one of that name is there.
Referred(struct, k, w, inline, depth, all) ==
    LET v    == Referenced(w, inline)
        name == ReferencedName(k, w)
        s    == struct[v][GoCall(name, FALSE, depth + 1)][all]
    IN  IF v = Null \/ IsNoted(name, all) THEN all ELSE Noting(s.all, name, s.fields)

\* The structs generated for the fields of one struct.
StructsBelow(struct, v, inline, depth, all) ==
    Outcome([i \in DOMAIN Keys(v) |-> [acc \in SUBSET Structs |->
                Referred(struct, Keys(v)[i], v.items[i], inline, depth, acc)]], all)

\* genGoStruct: the fields of one struct; all is allStructs, before and after.
Struct[v \in Containers] == [call \in GoCalls |-> [all \in SUBSET Structs |->
    LET below  == StructsBelow(Struct, v, call.inline, call.depth, all)
        fields == FieldsOf(v, call.inline)
    IN  IF call.depth > MaxDepth
        THEN [fields |-> <<FieldOf("data", Type(0, AnyMap))>>, all |-> all]
        ELSE [fields |-> fields,
              all    |-> IF IsNoted(call.name, below) THEN below
                         ELSE below \cup {StructOf(call.name, fields)}]]]

\* checkTimeField, when there is no time to detect: it looks into each object, and
\* into the first element of each array if its typeof is 'object', and throws on
\* null.
TimeCheckFails[v \in JsonTrees] ==
    /\ IsContainer(v)
    /\ \E i \in DOMAIN v.items :
          LET w == v.items[i]
          IN  \/ IsObj(w) /\ TimeCheckFails[w]
              \/ /\ IsArr(w) /\ w.items # <<>> /\ TypeOf(w.items[1]) = "object"
                 /\ w.items[1] = Null \/ TimeCheckFails[w.items[1]]

\* genGo: the code is the main struct and, unless structs go in place, the
\* others noted, the main one's name excepted; an error text, without any, when the
\* check for time fields throws.
Code(v, name, inline) ==
    LET s == Struct[v][GoCall(name, inline, 0)][{}]
    IN  IF TimeCheckFails[v] THEN {} ELSE Noting(IF inline THEN {} ELSE s.all, name, s.fields)

Generates ==
    /\ result = Pending
    /\ work.op = "go"
    /\ result' = [code |-> Code(work.data, work.name, work.inline)]
    /\ UNCHANGED work

GenerateInit ==
    /\ work \in [op : {"go"}, data : Generated, name : MainNames, inline : BOOLEAN]
    /\ result = Pending

GenerateSpec == GenerateInit /\ [][Generates]_<<work, result>>

----------------------------------------------------------------------------
(* What the types are for, to check the generation against.                *)

\* An object and a struct with the same fields, each of which fits.
FitsStruct(fits, v, fields, code) ==
    /\ IsObj(v)
    /\ DOMAIN fields = DOMAIN v.keys
    /\ \A i \in DOMAIN v.keys :
          fields[i].key = v.keys[i] /\ fits[v.items[i]][fields[i].type][code]

\* A value that the type can hold, to the depth the generator looks at: an array
\* by its first element.  null fits every type that exists.
Fits[v \in JsonTrees] == [type \in GoTypes |-> [code \in SUBSET Structs |->
    IF type.dims > 0
    THEN IsArr(v) /\ (v.items # <<>> => Fits[v.items[1]][[type EXCEPT !.dims = @ - 1]][code])
    ELSE CASE type.name = "struct" -> FitsStruct(Fits, v, InlineFields(type.of), code)
           [] type.name \in StructNames ->
                 /\ IsNoted(type.name, code)
                 /\ v = Null \/ \A s \in code :
                                   s.name = type.name => FitsStruct(Fits, v, s.fields, code)
           [] type.name \in BuiltIn ->
                 v = Null \/ v.kind = type.name \/ (type.name = AnyMap /\ IsObj(v))]]

\* The structs by name that a document calls for, each with the object whose fields
\* it is to have and how deep it is; top-down, as the generator meets them.
Named[v \in {o \in JsonTrees : IsObj(o)}] == [name \in StructNames |-> [depth \in Nat |->
    {[name |-> name, object |-> v, depth |-> depth]} \cup
    UNION {LET w == v.items[i]
               n == Names[v.keys[i]]
           IN  CASE IsObj(w) /\ w.keys # <<>> -> Named[w][n.type][depth + 1]
                 [] IsTable(w) -> Named[w.items[1]][n.item][depth + 1]
                 [] IsMatrix(w) /\ IsTable(w.items[1]) /\ w.items[1].items[1].keys # <<>> ->
                       Named[w.items[1].items[1]][n.matrix][depth + 1]
                 [] OTHER -> {}
           : i \in DOMAIN v.items}]]

\* An array of arrays that begins with 0 or "", which firstItem[0] || {} takes
\* for an empty object, or with an array that has elements, which is taken for an
\* object with fields 0, 1, ...
OddMatrix(w) ==
    /\ IsMatrix(w) /\ w.items[1].items # <<>>
    /\ LET x == w.items[1].items[1]
       IN  (Falsy(x) /\ x # Null) \/ (IsArr(x) /\ x.items # <<>>)

Misread(v) == \E i \in DOMAIN v.items : OddMatrix(v.items[i])

\* No two different objects call for a struct of one name.
NamesApart(structs) == \A s, t \in structs : s.name = t.name => s.object = t.object

\* An object with an array of objects, arrays or nulls in it: generated in place,
\* it refers to a struct that is never generated.
HoldsArray[v \in JsonTrees] ==
    /\ IsObj(v)
    /\ \E i \in DOMAIN v.items :
          LET w == v.items[i]
          IN  \/ IsArr(w) /\ w.items # <<>> /\ TypeOf(w.items[1]) = "object"
              \/ HoldsArray[w]

\* A document with such an object, or an array of arrays of objects.
LosesStruct(v) ==
    \E i \in DOMAIN v.items :
        LET w == v.items[i]
        IN  \/ HoldsArray[w]
            \/ IsTable(w) /\ HoldsArray[w.items[1]]
            \/ IsMatrix(w) /\ IsTable(w.items[1]) /\ w.items[1].items[1].keys # <<>>

\* The documents that the generator is right about.
Understood(v, name, inline) ==
    /\ ~TimeCheckFails[v]
    /\ IF inline THEN ~Misread(v) /\ ~LosesStruct(v)
       ELSE LET structs == Named[v][name][0]
            IN  /\ NamesApart(structs)
                /\ \A s \in structs : ~Misread(s.object) /\ s.depth <= MaxDepth

\* The Go types hold the document they are made of: every name they use is
\* defined, and the struct has the fields of each object it stands for.
TypesHoldDocument ==
    Done("go") /\ IsObj(work.data) /\ Understood(work.data, work.name, work.inline)
    => Fits[work.data][Type(0, work.name)][result.code]
=============================================================================
