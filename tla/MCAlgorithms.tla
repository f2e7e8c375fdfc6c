---------------------------- MODULE MCAlgorithms ----------------------------
(***************************************************************************)
(* The algorithms on documents and their texts, run on every input of a    *)
(* small set: to the works of Cleaning come those on documents.            *)
(***************************************************************************)
EXTENDS Cleaning, Comparison, GoStructs

\* All objects over a and b with the first values for a and the others for b.
Objects(va, vb) ==
    {EmptyObj}
    \cup {Obj(<<"a">>, <<x>>) : x \in va}
    \cup {Obj(<<"b">>, <<y>>) : y \in vb}
    \cup {Obj(<<"a", "b">>, <<x, y>>) : x \in va, y \in vb}

Arrays(vs, n) == UNION {{Arr(s) : s \in [1..m -> vs]} : m \in 0..n}

Simple == {Null, Num("1"), Text("x")}

\* One object in both orders of its fields.
Ordered == {Obj(<<"a", "b">>, <<Null, Null>>), Obj(<<"b", "a">>, <<Null, Null>>)}

ComparedValues ==
    Simple \cup {Arr(<<>>), Arr(<<Null>>)} \cup {Arr(<<o>>) : o \in Ordered}
    \cup Ordered \cup {EmptyObj, Obj(<<"a">>, <<Num("1")>>)}

MCValues == Objects(ComparedValues, ComparedValues) \cup Arrays(ComparedValues, 1)
            \cup ComparedValues \cup {Num("0"), Text("")}

MCIndex == <<"0", "1", "2", "3">>

\* How many containers are in each other.
RECURSIVE Deepest(_)
Deepest(v) ==
    IF Keys(v) = <<>> \/ ~IsContainer(v) THEN 0
    ELSE 1 + Max({Deepest(At(v, k)) : k \in ToSet(Keys(v))})

MCHeight == [v \in MCValues |-> Deepest(v)]

Plain == {Null, Num("1")}
Small == Objects(Plain, {Text("")})
Inner == Small \cup Arrays(Small, 1) \cup Arrays(Plain, 1) \cup Plain
Deep  == Arrays({Obj(<<"a">>, <<x>>) : x \in Arrays(Small, 1)}, 1) \cup {Null, EmptyObj}
MCFieldNames == {"a", "b", "item", "items", "toString", "length"} \cup ToSet(MCIndex)

\* Objects with a name that objects inherit, and with one that arrays have.
Namesakes == {Obj(<<k, "a">>, <<x, y>>) : k \in {"toString", "length"}, x \in Plain \cup {EmptyObj}, y \in Plain}

MCMergeable ==
    \* elements whose fields differ, or hold objects and arrays of objects
    Arrays(Objects(Inner, {Num("1")}), 2)
    \* arrays two and three deep
    \cup Arrays(Arrays(Small, 2), 2)
    \cup Arrays(Arrays(Arrays(Objects({Null}, {Null}), 1), 2), 2)
    \* elements of different kinds
    \cup Arrays(Plain \cup {EmptyObj, Arr(<<>>)}, 3)
    \* names that "in" finds in any object, or array
    \cup Arrays(Namesakes \cup {Obj(<<"a">>, <<x>>) : x \in Namesakes \cup {Arr(<<Num("1")>>)}}, 2)
    \* arrays in objects in arrays in objects
    \cup Objects(Arrays({Obj(<<"b">>, <<x>>) : x \in Deep}, 2), Plain)

\* Documents to generate Go types for; the keys are such that a singular meets
\* the name of another key.
Keyed(vi, vs) ==
    {Obj(<<"item">>, <<x>>) : x \in vi}
    \cup {Obj(<<"item", "items">>, <<x, y>>) : x \in vi, y \in vs}

GoNames == [k \in MCFieldNames |->
    CASE k = "item"  -> [type |-> "Item",  item |-> "ItemItem", matrix |-> "ItemItem"]
      [] k = "items" -> [type |-> "Items", item |-> "Item",     matrix |-> "ItemsItem"]
      [] OTHER -> [type |-> "F" \o k, item |-> "F" \o k \o "Item", matrix |-> "F" \o k \o "Item"]]

MCStructNames == UNION {{GoNames[k].type, GoNames[k].item, GoNames[k].matrix} : k \in MCFieldNames}
                 \cup {"Root"}

Leaves == {Num("1"), Num("0"), Null, EmptyObj, Arr(<<>>), Arr(<<Num("1")>>), Arr(<<Null>>)}
GoLevel(vs) == vs \cup {Arr(<<x>>) : x \in {v \in vs : IsObj(v)}}
                \cup {Arr(<<Arr(<<x>>)>>) : x \in {v \in vs : ~IsArr(v)}}
Level1 == GoLevel(Leaves \cup Keyed({Num("1"), EmptyObj}, {Num("1")}))
Cube   == Arr(<<Arr(<<Arr(<<Num("1")>>)>>)>>)
MCGenerated ==
    Keyed(GoLevel(Level1 \cup Keyed(Level1, {Num("1")})) \cup {Cube}, Level1)
    \cup {Obj(<<"a">>, <<Obj(<<"b">>, <<v>>)>>) : v \in Keyed(GoLevel(Leaves), {Num("1")})}

\* Texts to take comments out of or to repair, and texts to lay out.
MCCommented ==
    SeqOf({Quote, Single, Back, Slash, Letter}, 6) \cup SeqOf({Quote, Single, Slash, Break}, 6)
    \cup SeqOf({Quote, Single, Wide, Curly, Slash}, 5)

MCScattered ==
    SeqOf({Quote, Single, Back, Open, Close, Break}, 5)
    \cup SeqOf({Open, Close, Comma, Colon, Space, Letter, Quote}, 5)

AllInit == Init \/ CompareInit \/ MergeInit \/ GenerateInit

AllNext ==
    \/ Next
    \/ Compares
    \/ Merges
    \/ Generates

AllSpec == AllInit /\ [][AllNext]_<<work, result>>

----------------------------------------------------------------------------
\* The layout of the page's own sample, DEFAULT_JSON: a line with a comment above
\* the line with its field.
Sample == <<[keys |-> <<>>, comment |-> "the identifier"], [keys |-> <<"id">>, comment |-> NoField],
            [keys |-> <<>>, comment |-> "the name"], [keys |-> <<"name">>, comment |-> NoField]>>

SampleInit == work = [op |-> "comments", lines |-> Sample] /\ result = Pending

SampleNext == /\ result = Pending
              /\ result' = [comments |-> FieldComments(work.lines)]
              /\ UNCHANGED work

SampleSpec == SampleInit /\ [][SampleNext]_<<work, result>>

\* Each field gets the comment above it.
CommentAboveItsField ==
    result # Pending =>
        \A n \in 2 .. Len(Sample) :
            Sample[n - 1].comment # NoField =>
                result.comments[Head(Sample[n].keys)] = Sample[n - 1].comment
=============================================================================
