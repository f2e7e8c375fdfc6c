------------------------------- MODULE Trees -------------------------------
(***************************************************************************)
(* JSON values as JavaScript has them, for the algorithms of the converter *)
(* page (static/index.html) that walk over documents.  The fields of an    *)
(* object keep their order, which JSON.stringify shows.                    *)
(***************************************************************************)
EXTENDS Sequences, SequencesExt, Functions

FieldName == STRING

CONSTANT Index   \* the names of array elements, as Object.keys gives them

ASSUME IndexAssumption ==
    /\ Index \in Seq(FieldName) /\ Index # <<>>
    /\ \A i, j \in DOMAIN Index : Index[i] = Index[j] => i = j

Null    == [kind |-> "null"]
Num(n)  == [kind |-> "number", val |-> n]
Text(t) == [kind |-> "string", val |-> t]
Arr(items) == [kind |-> "array", items |-> items]

\* items: the values of the keys, in their order.
Obj(keys, items) == [kind |-> "object", keys |-> keys, items |-> items]
EmptyObj == Obj(<<>>, <<>>)

IsArr(v) == v.kind = "array"
IsObj(v) == v.kind = "object"

\* v && typeof v === 'object'
IsContainer(v) == IsArr(v) \/ IsObj(v)

\* JavaScript's typeof, which takes null for an object.
TypeOf(v) == IF IsContainer(v) \/ v = Null THEN "object" ELSE v.kind

Falsy(v) == v \in {Null, Num("0"), Text("")}

\* Object.keys; a text has its characters, of which one is enough here.
Keys(v) ==
    CASE IsObj(v) -> v.keys
      [] IsArr(v) -> [i \in DOMAIN v.items \cap DOMAIN Index |-> Index[i]]
      [] v.kind = "string" /\ ~Falsy(v) -> SubSeq(Index, 1, 1)
      [] OTHER -> <<>>

Has(v, k) == \E i \in DOMAIN Keys(v) : Keys(v)[i] = k

\* v[k], for a key that v has.
At(v, k) ==
    IF IsContainer(v) THEN v.items[CHOOSE i \in DOMAIN Keys(v) : Keys(v)[i] = k] ELSE v
=============================================================================
