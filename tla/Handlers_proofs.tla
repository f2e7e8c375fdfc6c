-------------------------- MODULE Handlers_proofs --------------------------
(* Proofs about Handlers, for any number of requests and any file.         *)
EXTENDS Handlers, SequenceTheorems, TLAPS

\* What a write does to a response, field by field.
LEMMA WrittenFields ==
    ASSUME NEW rep, NEW code, NEW units
    PROVE  /\ Written(rep, code, units).status = IF rep.status = 0 THEN code ELSE rep.status
           /\ Written(rep, code, units).declared = rep.declared
           /\ Written(rep, code, units).body =
                IF Fits(rep, units) /\ Room(rep) /\ rep.client # "broken"
                THEN rep.body \o units ELSE rep.body
           /\ Written(rep, code, units).client =
                IF Breaks(rep, units) THEN "broken" ELSE rep.client
           /\ Written(rep, code, units).sent = rep.sent
  BY DEF Written

\* A write keeps a response well-formed.
LEMMA WrittenType ==
    ASSUME NEW rep \in Responses, NEW code \in {200, 500}, NEW units \in Bodies
    PROVE  Written(rep, code, units) \in Responses
<1>1. rep.body \in Bodies /\ rep.status \in {0, 200, 500}
  BY DEF Responses
<1>2. rep.body \o units \in Bodies
  BY <1>1, ConcatProperties DEF Bodies
<1> DEFINE body == IF Fits(rep, units) /\ Room(rep) /\ rep.client # "broken"
                   THEN rep.body \o units ELSE rep.body
           client == IF Breaks(rep, units) THEN "broken" ELSE rep.client
           status == IF rep.status = 0 THEN code ELSE rep.status
<1>3. Written(rep, code, units) =
         [status |-> status, declared |-> rep.declared, body |-> body,
          sent |-> rep.sent, client |-> client]
  BY DEF Written
<1>4. /\ body \in Bodies /\ status \in {0, 200, 500}
      /\ client \in {"there", "left", "broken"}
      /\ rep.declared \in Lengths /\ rep.sent \in Nat
  BY <1>1, <1>2 DEF Responses
<1> HIDE DEF body, client, status
<1> QED
  BY <1>3, <1>4 DEF Responses

LEMMA RespondType ==
    ASSUME NEW rep \in Responses, NEW err PROVE Respond(rep, err) \in Responses
<1>1. <<"error">> \in Bodies /\ <<"success">> \in Bodies
  BY DEF Bodies
<1> QED
  BY <1>1, WrittenType DEF Respond

\* What every action does to the places and the responses.
PlacesOK == pc \in [Requests -> Places] /\ response \in [Requests -> Responses]

LEMMA GoType ==
    ASSUME PlacesOK, NEW r, NEW next \in Places, Go(r, next) PROVE PlacesOK'
  BY DEF Go, PlacesOK

LEMMA AnswerType ==
    ASSUME PlacesOK, NEW r \in Requests, NEW err, NEW next \in Places,
           Answer(r, err, next)
    PROVE  PlacesOK'
<1>1. Respond(response[r], err) \in Responses
  BY RespondType DEF PlacesOK
<1> QED
  BY <1>1 DEF Answer, PlacesOK

\* The types of what remains.
RestOK ==
    /\ job \in [Requests -> Jobs]
    /\ copied \in [Requests -> Nat]
    /\ \A r \in Requests : copied[r] <= job[r].size
    /\ file \in BOOLEAN
    /\ svc \in Nat /\ made \in Nat
    /\ once \in [done : BOOLEAN, holder : Requests \cup {Nobody}]

LEMMA TypeParts == TypeOK <=> PlacesOK /\ RestOK
  BY HandlersAssumption DEF TypeOK, PlacesOK, RestOK, Jobs

LEMMA HealthType ==
    ASSUME TypeOK, NEW r \in Requests,
           \/ Begin(r) \/ Check(r) \/ Once(r) \/ Lock(r) \/ Make(r) \/ Unlock(r)
           \/ HealthAnswer(r)
    PROVE  TypeOK'
<1>0. PlacesOK /\ RestOK
  BY TypeParts
<1> USE DEF Places
<1>1. PlacesOK'
  <2>1. CASE Begin(r)
    <3>1. job[r].source \in Sources
      BY <1>0 DEF RestOK, Jobs
    <3>2. \/ \E next \in Places : Go(r, next)
          \/ \E next \in Places : Answer(r, TRUE, next)
      BY <2>1, <3>1 DEF Begin, Sources
    <3> QED
      BY <1>0, <3>2, GoType, AnswerType
  <2>2. CASE Check(r) \/ Once(r) \/ Lock(r) \/ Make(r) \/ Unlock(r)
    BY <1>0, <2>2, GoType DEF Check, Once, Lock, Make, Unlock
  <2>3. CASE HealthAnswer(r)
    BY <1>0, <2>3, AnswerType DEF HealthAnswer
  <2> QED
    BY <2>1, <2>2, <2>3
<1>2. RestOK'
  <2>1. CASE Begin(r) \/ Check(r) \/ Once(r) \/ HealthAnswer(r)
    BY <1>0, <2>1 DEF RestOK, shared, Begin, Check, Once, HealthAnswer
  <2>2. CASE Lock(r) \/ Unlock(r)
    <3>1. [once EXCEPT !.holder = r] \in [done : BOOLEAN, holder : Requests \cup {Nobody}]
      BY <1>0 DEF RestOK
    <3>2. [done |-> TRUE, holder |-> Nobody] \in [done : BOOLEAN, holder : Requests \cup {Nobody}]
      OBVIOUS
    <3>3. once' \in [done : BOOLEAN, holder : Requests \cup {Nobody}]
      BY <2>2, <3>1, <3>2, Zenon DEF Lock, Unlock
    <3> QED
      BY <1>0, <2>2, <3>3 DEF RestOK, Lock, Unlock
  <2>3. CASE Make(r)
    BY <1>0, <2>3 DEF RestOK, Make
  <2> QED
    BY <2>1, <2>2, <2>3
<1> QED
  BY <1>1, <1>2 DEF TypeOK, PlacesOK, RestOK

LEMMA DownloadType ==
    ASSUME TypeOK, NEW r \in Requests,
           \/ Stat(r) \/ Open(r) \/ Declare(r) \/ Copy(r) \/ CopyEnds(r)
           \/ ContentEnds(r) \/ WriteFails(r) \/ ReadFails(r) \/ Delete(r) \/ End(r)
    PROVE  TypeOK'
<1>0. PlacesOK /\ RestOK
  BY TypeParts
<1>1. job[r] \in Jobs /\ job[r].size \in Nat /\ response[r] \in Responses
  BY <1>0 DEF RestOK, PlacesOK, Jobs
<1>2. PlacesOK'
  <2>1. CASE Stat(r) \/ Open(r) \/ CopyEnds(r) \/ Delete(r)
    BY <1>0, <2>1, GoType, AnswerType DEF Stat, Open, CopyEnds, Delete, Places
  <2>2. CASE ReadFails(r) \/ End(r)
    BY <1>0, <2>2, AnswerType DEF ReadFails, End, Places
  <2>3. CASE Declare(r)
    <3>1. CASE Answer(r, TRUE, "end")
      BY <1>0, <3>1, AnswerType DEF Places
    <3>2. CASE /\ response' = [response EXCEPT ![r].declared = job[r].size]
               /\ pc' = [pc EXCEPT ![r] = "copy"]
      <4>1. [response[r] EXCEPT !.declared = job[r].size] \in Responses
        BY <1>1 DEF Responses, Lengths
      <4> QED
        BY <1>0, <3>2, <4>1 DEF PlacesOK, Places
    <3> QED
      BY <2>3, <3>1, <3>2 DEF Declare
  <2>4. CASE ContentEnds(r)
    <3> DEFINE ended == [response[r] EXCEPT !.status = IF @ = 0 THEN 200 ELSE @]
    <3>1. ended \in Responses
      BY <1>1 DEF Responses
    <3>2. response' = [response EXCEPT ![r] = ended]
      BY <1>0, <2>4 DEF ContentEnds, PlacesOK
    <3> QED
      BY <1>0, <2>4, <3>1, <3>2 DEF ContentEnds, PlacesOK, Places
  <2>5. CASE Copy(r) \/ WriteFails(r)
    <3>1. <<"data">> \in Bodies
      BY DEF Bodies
    <3>2. Written(response[r], 200, <<"data">>) \in Responses
      BY <1>1, <3>1, WrittenType
    <3> QED
      BY <1>0, <2>5, <3>2 DEF Copy, WriteFails, PlacesOK, Places
  <2> QED
    BY <2>1, <2>2, <2>3, <2>4, <2>5
<1>3. RestOK'
  <2>1. CASE Copy(r)
    <3>1. /\ UNCHANGED <<job, file, svc, made, once>>
          /\ copied[r] < job[r].size /\ copied' = [copied EXCEPT ![r] = @ + 1]
      BY <2>1 DEF shared, Copy
    <3>2. copied[r] \in Nat
      BY <1>0 DEF RestOK
    <3>3. copied' \in [Requests -> Nat]
      BY <1>0, <1>1, <3>1, <3>2 DEF RestOK
    <3>4. \A q \in Requests : copied'[q] <= job'[q].size
      BY <1>0, <1>1, <3>1, <3>2 DEF RestOK
    <3> QED
      BY <1>0, <3>1, <3>3, <3>4 DEF RestOK
  <2>2. CASE Stat(r) \/ Open(r) \/ Declare(r) \/ CopyEnds(r) \/ ContentEnds(r)
             \/ WriteFails(r) \/ ReadFails(r) \/ End(r)
    BY <1>0, <2>2 DEF RestOK, shared, Stat, Open, Declare, CopyEnds, ContentEnds,
       WriteFails, ReadFails, End
  <2>3. CASE Delete(r)
    BY <1>0, <2>3 DEF RestOK, Delete
  <2> QED
    BY <2>1, <2>2, <2>3
<1> QED
  BY <1>2, <1>3 DEF TypeOK, PlacesOK, RestOK

LEMMA ConnectionType ==
    ASSUME TypeOK, NEW r \in Requests, Send(r) \/ Leave(r) PROVE TypeOK'
<1>1. response[r] \in Responses /\ response[r].sent + 1 \in Nat
  BY DEF TypeOK, Responses
<1> DEFINE sent == [response[r] EXCEPT !.sent = @ + 1]
           left == [response[r] EXCEPT !.client = "left"]
<1>2. \/ response' = [response EXCEPT ![r] = sent]
      \/ response' = [response EXCEPT ![r] = left]
  BY DEF Send, Leave, TypeOK
<1>3. sent \in Responses /\ left \in Responses
  BY <1>1 DEF Responses
<1> HIDE DEF sent, left
<1>4. response' \in [Requests -> Responses]
  BY <1>2, <1>3 DEF TypeOK
<1> QED
  BY <1>4 DEF TypeOK, Send, Leave, shared

\* Every reachable state of the handlers is well-formed.
THEOREM HandlersTypeCorrect == Spec => []TypeOK
<1>1. Init => TypeOK
  <2> SUFFICES ASSUME Init PROVE TypeOK
    OBVIOUS
  <2>1. job \in [Requests -> Jobs]
    BY HandlersAssumption DEF Init
  <2>2. response \in [Requests -> Responses]
    <3>1. [status |-> 0, declared |-> Unknown, body |-> <<>>, sent |-> 0,
           client |-> "there"] \in Responses
      BY DEF Responses, Lengths, Bodies
    <3> QED
      BY <3>1 DEF Init
  <2>3. \A r \in Requests : 0 <= job[r].size
    BY <2>1 DEF Jobs
  <2> QED
    BY <2>1, <2>2, <2>3 DEF Init, TypeOK, Places, NoService
<1>2. TypeOK /\ [Next]_vars => TypeOK'
  <2> SUFFICES ASSUME TypeOK, [Next]_vars PROVE TypeOK'
    OBVIOUS
  <2>1. CASE UNCHANGED vars
    BY <2>1 DEF vars, TypeOK
  <2>2. ASSUME NEW r \in Requests, Step(r) PROVE TypeOK'
    BY <2>2, HealthType, DownloadType DEF Step
  <2> QED
    BY <2>1, <2>2, ConnectionType DEF Next
<1> QED
  BY <1>1, <1>2, PTL DEF Spec

----------------------------------------------------------------------------
(* The singleton *)

\* Who holds the mutex is making the service or has made it, and once the flag is
\* set, or the mutex free and the flag not set, there is one or none.
OnceInv ==
    /\ svc = made /\ made \in {0, 1}
    /\ \A r \in Requests : pc[r] \in {"make", "unlock"} => once.holder = r
    /\ \A r \in Requests : pc[r] = "make" => made = 0 /\ ~once.done
    /\ \A r \in Requests : pc[r] \in {"unlock", "answer"} => made = 1
    /\ once.done => made = 1
    /\ once.holder = Nobody /\ ~once.done => made = 0

\* The steps that have nothing to do with the singleton.
LEMMA ElsewhereOnce ==
    ASSUME TypeOK, OnceInv, NEW r \in Requests, NEW next \in Places,
           UNCHANGED <<svc, made, once>>, pc' = [pc EXCEPT ![r] = next],
           next \notin {"make", "unlock", "answer"}
    PROVE  OnceInv'
  BY DEF OnceInv, TypeOK

LEMMA StepOnce ==
    ASSUME TypeOK, OnceInv, NEW r \in Requests, Step(r) PROVE OnceInv'
<1> USE DEF Places
<1>0. Nobody \notin Requests
  BY HandlersAssumption
<1>1. CASE Begin(r)
  <2>1. job[r].source \in Sources
    BY DEF TypeOK, Jobs
  <2>2. \E next \in Places \ {"make", "unlock", "answer"} : pc' = [pc EXCEPT ![r] = next]
    BY <1>1, <2>1 DEF Begin, Go, Answer, Sources
  <2> QED
    BY <1>1, <2>2, ElsewhereOnce DEF Begin, shared
<1>2. CASE Check(r)
  BY <1>2 DEF Check, Go, shared, OnceInv, TypeOK, NoService
<1>3. CASE Once(r)
  BY <1>3 DEF Once, Go, shared, OnceInv, TypeOK
<1>4. CASE Lock(r)
  <2>1. once' = [done |-> once.done, holder |-> r] /\ once.holder = Nobody
    BY <1>4 DEF Lock, TypeOK
  <2>2. \A q \in Requests : pc[q] \notin {"make", "unlock"}
    BY <1>0, <2>1 DEF OnceInv
  <2>3. pc' = [pc EXCEPT ![r] = IF once.done THEN "unlock" ELSE "make"]
    BY <1>4 DEF Lock, Go
  <2> QED
    BY <1>0, <1>4, <2>1, <2>2, <2>3 DEF Lock, OnceInv, TypeOK
<1>5. CASE Make(r)
  <2>1. pc[r] = "make" /\ made = 0 /\ once.holder = r /\ ~once.done
    BY <1>5 DEF Make, OnceInv
  <2>2. \A q \in Requests : q # r => pc[q] \notin {"make", "unlock"}
    BY <2>1 DEF OnceInv
  <2> QED
    BY <1>0, <1>5, <2>1, <2>2 DEF Make, Go, OnceInv, TypeOK
<1>6. CASE Unlock(r)
  <2>1. pc[r] = "unlock" /\ made = 1 /\ once.holder = r
    BY <1>6 DEF Unlock, OnceInv
  <2>2. \A q \in Requests : q # r => pc[q] \notin {"make", "unlock"}
    BY <2>1 DEF OnceInv
  <2> QED
    BY <1>6, <2>1, <2>2 DEF Unlock, Go, OnceInv, TypeOK
<1>7. CASE HealthAnswer(r) \/ End(r) \/ Stat(r) \/ Open(r) \/ ReadFails(r)
  BY <1>7, ElsewhereOnce DEF HealthAnswer, End, Stat, Open, ReadFails, Go, Answer, shared
<1>8. CASE Declare(r)
  BY <1>8, ElsewhereOnce DEF Declare, Answer, shared
<1>9. CASE ContentEnds(r) \/ WriteFails(r)
  BY <1>9, ElsewhereOnce DEF ContentEnds, WriteFails, shared
<1>10. CASE CopyEnds(r) \/ Delete(r)
  BY <1>10, ElsewhereOnce DEF CopyEnds, Delete, Go, shared
<1>11. CASE Copy(r)
  BY <1>11 DEF Copy, OnceInv, shared
<1> QED
  BY <1>1, <1>2, <1>3, <1>4, <1>5, <1>6, <1>7, <1>8, <1>9, <1>10, <1>11 DEF Step

\* One service is made however many requests come first, and none is called
\* before it is there.
THEOREM OneServiceEver == Spec => []OneService
<1>1. Init => OnceInv
  BY DEF Init, OnceInv, NoService
<1>2. TypeOK /\ OnceInv /\ [Next]_vars => OnceInv'
  <2>1. ASSUME OnceInv, UNCHANGED vars PROVE OnceInv'
    BY <2>1 DEF vars, OnceInv
  <2>2. ASSUME OnceInv, NEW r \in Requests, Send(r) \/ Leave(r) PROVE OnceInv'
    BY <2>2 DEF Send, Leave, shared, OnceInv
  <2> QED
    BY <2>1, <2>2, StepOnce DEF Next
<1>3. OnceInv => OneService
  BY DEF OnceInv, OneService, NoService
<1> QED
  BY <1>1, <1>2, <1>3, HandlersTypeCorrect, PTL DEF Spec

----------------------------------------------------------------------------
(* Downloads of known length *)

Known(r) == job[r].source \in {"path", "content"}

\* What is read so far, and nothing else, is what was written.
Sent(r) ==
    /\ response[r].declared = job[r].size
    /\ response[r].client # "broken"
    /\ Len(response[r].body) = copied[r]
    /\ \A i \in 1 .. copied[r] : response[r].body[i] = "data"

\* A download stays in its own places.  Nothing is written before the copy, and
\* once the source has been written whole the declared length keeps everything out.
DeliveryOK(r) ==
    /\ job[r].source = "path" => job[r].size = FileSize
    /\ pc[r] \in {"check", "once", "lock", "make", "unlock", "answer"} => ~Known(r)
    /\ pc[r] \in {"start", "stat", "open", "info"} =>
          copied[r] = 0 /\ response[r].body = <<>> /\ response[r].client # "broken"
    /\ pc[r] \in {"stat", "open"} => job[r].source = "path"
    /\ pc[r] = "info" => Known(r)
    /\ pc[r] = "copy" /\ Known(r) => Sent(r)
    /\ pc[r] = "delete" => /\ job[r].source = "path" /\ job[r].deleteAfter
                           /\ Sent(r) /\ copied[r] = job[r].size
    /\ /\ pc[r] \in {"end", "done"} /\ response[r].client # "broken"
       /\ job[r].source = "content" \/ (job[r].source = "path" /\ FileSize > 0)
       /\ copied[r] = job[r].size
       => Sent(r)

DeliveryInv == \A r \in Requests : DeliveryOK(r)

LEMMA SentWhole ==
    ASSUME NEW r \in Requests, Sent(r), copied[r] = job[r].size PROVE Whole(r)
  BY DEF Sent, Whole

\* A unit of data is added as long as the declared length has room for it.
LEMMA DataWritten ==
    ASSUME TypeOK, NEW r \in Requests, Sent(r), copied[r] < job[r].size, Room(response[r]),
           response'[r] = Written(response[r], 200, <<"data">>),
           copied'[r] = copied[r] + 1, job' = job
    PROVE  Sent(r)'
<1> DEFINE body == response[r].body
<1>1. /\ body \in Bodies /\ copied[r] \in Nat /\ job[r].size \in Nat
      /\ Len(<<"data">>) = 1
  BY DEF TypeOK, Responses, Jobs
<1>2. response'[r].body = body \o <<"data">>
      /\ response'[r].declared = job[r].size /\ response'[r].client # "broken"
  <2>1. Fits(response[r], <<"data">>)
    BY <1>1 DEF Sent, Fits
  <2>2. response[r] \in Responses
    BY DEF TypeOK
  <2>3. /\ response'[r].body = IF Fits(response[r], <<"data">>) /\ Room(response[r])
                                  /\ response[r].client # "broken"
                               THEN body \o <<"data">> ELSE body
        /\ response'[r].client = IF Breaks(response[r], <<"data">>) THEN "broken"
                                 ELSE response[r].client
        /\ response'[r].declared = response[r].declared
    BY <2>2, WrittenFields
  <2>4. ~Breaks(response[r], <<"data">>)
    BY DEF Breaks
  <2> QED
    BY <2>1, <2>3, <2>4 DEF Sent
<1>3. /\ Len(body \o <<"data">>) = copied[r] + 1
      /\ \A i \in 1 .. copied[r] + 1 : (body \o <<"data">>)[i] = "data"
  BY <1>1 DEF Sent, Bodies
<1> QED
  BY <1>2, <1>3 DEF Sent

\* An error after the declared length does not get in.
LEMMA ErrorRefused ==
    ASSUME TypeOK, NEW r \in Requests, Sent(r), copied[r] = job[r].size,
           response'[r] = Respond(response[r], TRUE),
           copied'[r] = copied[r], job' = job
    PROVE  Sent(r)'
<1>1. copied[r] \in Nat /\ Len(<<"error">>) = 1 /\ Unknown \notin Nat
  BY DEF TypeOK, Unknown
<1>2. ~Fits(response[r], <<"error">>) /\ response[r] \in Responses
  BY <1>1 DEF Sent, Fits, TypeOK
<1>3. /\ response'[r].body = response[r].body
      /\ response'[r].declared = response[r].declared
      /\ response'[r].client = response[r].client
  BY <1>2, WrittenFields DEF Respond, Breaks
<1> QED
  BY <1>3 DEF Sent

\* What an answer does; it mends nothing.
LEMMA AnswerEffect ==
    ASSUME TypeOK, NEW r \in Requests, NEW err, NEW next, Answer(r, err, next)
    PROVE  /\ pc'[r] = next /\ response'[r] = Respond(response[r], err)
           /\ response[r].client = "broken" => response'[r].client = "broken"
<1>1. response[r] \in Responses
  BY DEF TypeOK
<1>2. pc'[r] = next /\ response'[r] = Respond(response[r], err)
  BY DEF Answer, TypeOK
<1> QED
  BY <1>1, <1>2, WrittenFields DEF Respond

LEMMA HealthDelivery ==
    ASSUME TypeOK, NEW r \in Requests, DeliveryOK(r),
           \/ Check(r) \/ Once(r) \/ Lock(r) \/ Make(r) \/ Unlock(r) \/ HealthAnswer(r)
    PROVE  DeliveryOK(r)'
<1>1. job' = job /\ ~Known(r)
  BY DEF Check, Once, Lock, Make, Unlock, HealthAnswer, DeliveryOK
<1>2. pc'[r] \in {"once", "lock", "make", "unlock", "answer", "done"}
  BY DEF Check, Once, Lock, Make, Unlock, HealthAnswer, Go, Answer, TypeOK
<1> QED
  BY <1>1, <1>2 DEF DeliveryOK, Known

LEMMA BeginDelivery ==
    ASSUME TypeOK, NEW r \in Requests, DeliveryOK(r), Begin(r) PROVE DeliveryOK(r)'
<1>1. /\ job' = job /\ copied' = copied
      /\ copied[r] = 0 /\ response[r].body = <<>> /\ response[r].client # "broken"
  BY DEF Begin, shared, DeliveryOK
<1>2. CASE job[r].source = "path"
  <2>1. pc'[r] = "stat" /\ response' = response
    BY <1>2 DEF Begin, Go, TypeOK
  <2> QED
    BY <1>1, <1>2, <2>1 DEF DeliveryOK, Known
<1>3. CASE job[r].source = "content"
  <2>1. pc'[r] = "info" /\ response' = response
    BY <1>3 DEF Begin, Go, TypeOK
  <2> QED
    BY <1>1, <1>3, <2>1 DEF DeliveryOK, Known
<1>4. CASE ~Known(r)
  <2>1. job[r].source \in {"health", "nil config", "reader", "no source"}
    BY <1>4 DEF Known, TypeOK, Jobs, Sources
  <2>2. pc'[r] \in {"check", "done", "copy", "end"}
    BY <2>1, AnswerEffect DEF Begin, Go, TypeOK
  <2> QED
    BY <1>1, <1>4, <2>2 DEF DeliveryOK, Known
<1> QED
  BY <1>2, <1>3, <1>4 DEF Known

\* Before the copy: a failure ends the download with nothing sent but an error.
LEMMA OpenDelivery ==
    ASSUME TypeOK, NEW r \in Requests, DeliveryOK(r), Stat(r) \/ Open(r) \/ Declare(r)
    PROVE  DeliveryOK(r)'
<1>1. /\ job' = job /\ copied' = copied
      /\ copied[r] = 0 /\ response[r].body = <<>> /\ response[r].client # "broken"
      /\ job[r].size \in Nat
  BY DEF Stat, Open, Declare, shared, DeliveryOK, TypeOK, Jobs
<1>2. CASE job[r].source = "path" /\ Answer(r, TRUE, "end")
  <2>1. pc'[r] = "end"
    BY <1>2, AnswerEffect
  <2> QED
    BY <1>1, <1>2, <2>1 DEF DeliveryOK
<1>3. CASE (Stat(r) \/ Open(r)) /\ \E next \in {"open", "info"} : Go(r, next)
  <2>1. pc'[r] \in {"open", "info"} /\ response' = response /\ job[r].source = "path"
    BY <1>3 DEF Go, Stat, Open, DeliveryOK, TypeOK
  <2> QED
    BY <1>1, <2>1 DEF DeliveryOK, Known
<1>4. CASE /\ Declare(r)
           /\ response' = [response EXCEPT ![r].declared = job[r].size]
           /\ pc' = [pc EXCEPT ![r] = "copy"]
  <2>1. pc'[r] = "copy"
    BY <1>4 DEF TypeOK
  <2>2. /\ response'[r].declared = job[r].size /\ response'[r].body = <<>>
        /\ response'[r].client # "broken"
    BY <1>1, <1>4 DEF TypeOK, Responses
  <2>3. Sent(r)'
    BY <1>1, <2>2 DEF Sent
  <2> QED
    BY <1>1, <2>1, <2>3 DEF DeliveryOK
<1> QED
  BY <1>2, <1>3, <1>4 DEF Stat, Open, Declare, DeliveryOK

LEMMA CopyDelivery ==
    ASSUME TypeOK, NEW r \in Requests, DeliveryOK(r), Copy(r)
    PROVE  DeliveryOK(r)'
<1>1. job' = job /\ job[r].size \in Nat /\ copied[r] \in Nat
  BY DEF Copy, shared, TypeOK, Jobs
<1>2. /\ pc[r] = "copy" /\ pc'[r] = "copy" /\ Room(response[r])
      /\ copied'[r] = copied[r] + 1 /\ copied[r] < job[r].size
      /\ response'[r] = Written(response[r], 200, <<"data">>)
  BY DEF Copy, TypeOK
<1>3. Known(r) => Sent(r)'
  BY <1>1, <1>2, DataWritten DEF DeliveryOK
<1> QED
  BY <1>1, <1>2, <1>3 DEF DeliveryOK, Known

LEMMA EndDelivery ==
    ASSUME TypeOK, NEW r \in Requests, DeliveryOK(r),
           \/ CopyEnds(r) \/ ContentEnds(r) \/ WriteFails(r) \/ ReadFails(r)
           \/ Delete(r) \/ End(r)
    PROVE  DeliveryOK(r)'
<1>1. job' = job /\ copied' = copied
  BY DEF CopyEnds, ContentEnds, WriteFails, ReadFails, Delete, End, shared
<1>2. CASE CopyEnds(r)
  <2>1. /\ pc[r] = "copy" /\ copied[r] = job[r].size /\ response' = response
        /\ pc'[r] = IF job[r].source = "path" /\ job[r].deleteAfter
                    THEN "delete" ELSE "end"
    BY <1>2 DEF CopyEnds, Go, TypeOK
  <2>2. Known(r) => Sent(r)'
    BY <1>1, <2>1 DEF DeliveryOK, Sent
  <2> QED
    BY <1>1, <2>1, <2>2 DEF DeliveryOK, Known
<1>3. CASE WriteFails(r)
  <2>1. pc'[r] = "end" /\ copied[r] < job[r].size
    BY <1>3 DEF WriteFails, TypeOK
  <2>2. copied[r] \in Nat /\ job[r].size \in Nat
    BY DEF TypeOK, Jobs
  <2> QED
    BY <1>1, <2>1, <2>2 DEF DeliveryOK
<1>4. CASE Delete(r)
  <2>1. pc[r] = "delete" /\ pc'[r] = "end" /\ response' = response
    BY <1>4 DEF Delete, Go, TypeOK
  <2>2. Sent(r)'
    BY <1>1, <2>1 DEF DeliveryOK, Sent
  <2> QED
    BY <1>1, <2>1, <2>2 DEF DeliveryOK
<1>5. CASE ReadFails(r) \/ End(r)
  <2>1. /\ pc[r] \in {"copy", "end"} /\ pc'[r] \in {"end", "done"}
        /\ response'[r] = Respond(response[r], TRUE)
        /\ response[r].client = "broken" => response'[r].client = "broken"
    BY <1>5, AnswerEffect DEF ReadFails, End
  <2>2. ASSUME response'[r].client # "broken", copied[r] = job[r].size,
               job[r].source = "content" \/ (job[r].source = "path" /\ FileSize > 0)
        PROVE  Sent(r)'
    <3>1. Sent(r)
      BY <2>1, <2>2 DEF DeliveryOK, Known
    <3> QED
      BY <1>1, <2>1, <2>2, <3>1, ErrorRefused
  <2> QED
    BY <1>1, <2>1, <2>2 DEF DeliveryOK
<1>6. CASE ContentEnds(r)
  <2>1. /\ pc[r] = "copy" /\ job[r].source = "content" /\ pc'[r] = "end"
        /\ response' = [response EXCEPT ![r].status = IF @ = 0 THEN 200 ELSE @]
    BY <1>6 DEF ContentEnds, TypeOK
  <2>2. /\ response'[r].declared = response[r].declared
        /\ response'[r].body = response[r].body
        /\ response'[r].client = response[r].client
    BY <2>1 DEF TypeOK, Responses
  <2>3. Sent(r)'
    BY <1>1, <2>1, <2>2 DEF DeliveryOK, Known, Sent
  <2> QED
    BY <1>1, <2>1, <2>3 DEF DeliveryOK
<1> QED
  BY <1>2, <1>3, <1>4, <1>5, <1>6

\* A step of one request changes nothing of another's.
LEMMA OthersKept ==
    ASSUME TypeOK, NEW r \in Requests, NEW q \in Requests, r # q,
           Step(r) \/ Send(r) \/ Leave(r)
    PROVE  /\ job' = job /\ pc'[q] = pc[q] /\ copied'[q] = copied[q]
           /\ response'[q] = response[q]
<1>1. ASSUME NEW next, Go(r, next) PROVE pc'[q] = pc[q] /\ response' = response
  BY <1>1 DEF Go, TypeOK
<1>2. ASSUME NEW err, NEW next, Answer(r, err, next)
      PROVE  pc'[q] = pc[q] /\ response'[q] = response[q]
  BY <1>2 DEF Answer, TypeOK
<1>3. CASE Begin(r)
  <2>1. job[r].source \in Sources
    BY DEF TypeOK, Jobs
  <2>2. (\E next : Go(r, next)) \/ (\E next : Answer(r, TRUE, next))
    BY <1>3, <2>1 DEF Begin, Sources
  <2> QED
    BY <1>1, <1>2, <1>3, <2>2 DEF Begin
<1>4. CASE Check(r) \/ Once(r) \/ Lock(r) \/ Make(r) \/ Unlock(r) \/ HealthAnswer(r)
  BY <1>1, <1>2, <1>4 DEF Check, Once, Lock, Make, Unlock, HealthAnswer
<1>5. CASE Stat(r) \/ Open(r) \/ ReadFails(r) \/ CopyEnds(r) \/ Delete(r) \/ End(r)
  BY <1>1, <1>2, <1>5 DEF Stat, Open, ReadFails, CopyEnds, Delete, End
<1>6. CASE Declare(r)
  BY <1>2, <1>6 DEF Declare, TypeOK
<1>7. CASE ContentEnds(r) \/ Copy(r) \/ WriteFails(r)
  BY <1>7 DEF ContentEnds, Copy, WriteFails, TypeOK
<1>8. CASE Send(r) \/ Leave(r)
  BY <1>8 DEF Send, Leave, TypeOK
<1> QED
  BY <1>3, <1>4, <1>5, <1>6, <1>7, <1>8 DEF Step

\* What the connection does to a response is neither to its body nor to its status.
LEMMA ConnectionKeeps ==
    ASSUME TypeOK, NEW r \in Requests, Send(r) \/ Leave(r)
    PROVE  /\ job' = job /\ pc' = pc /\ copied' = copied
           /\ response'[r].status = response[r].status
           /\ response'[r].declared = response[r].declared
           /\ response'[r].body = response[r].body
           /\ response'[r].client = "broken" <=> response[r].client = "broken"
  BY DEF Send, Leave, shared, TypeOK, Responses

LEMMA NextDelivery == TypeOK /\ DeliveryInv /\ [Next]_vars => DeliveryInv'
<1> SUFFICES ASSUME TypeOK, DeliveryInv, [Next]_vars, NEW q \in Requests
             PROVE  DeliveryOK(q)'
  BY DEF DeliveryInv
<1>1. DeliveryOK(q)
  BY DEF DeliveryInv
<1>2. ASSUME job' = job, pc'[q] = pc[q], copied'[q] = copied[q],
             response'[q] = response[q]
      PROVE  DeliveryOK(q)'
  BY <1>1, <1>2 DEF DeliveryOK, Known, Sent
<1>3. CASE UNCHANGED vars
  BY <1>2, <1>3 DEF vars
<1>4. CASE Step(q)
  BY <1>1, <1>4, BeginDelivery, HealthDelivery, OpenDelivery, CopyDelivery,
     EndDelivery DEF Step
<1>5. CASE Send(q) \/ Leave(q)
  BY <1>1, <1>5, ConnectionKeeps DEF DeliveryOK, Known, Sent
<1>6. ASSUME NEW r \in Requests, Step(r) \/ Send(r) \/ Leave(r), r # q
      PROVE  DeliveryOK(q)'
  BY <1>2, <1>6, OthersKept
<1> QED
  BY <1>3, <1>4, <1>5, <1>6 DEF Next

LEMMA AlwaysDelivery == Spec => []DeliveryInv
<1>1. Init => DeliveryInv
  BY HandlersAssumption DEF Init, DeliveryInv, DeliveryOK
<1> QED
  BY <1>1, NextDelivery, HandlersTypeCorrect, PTL DEF Spec

----------------------------------------------------------------------------
(* The connection *)

\* The buffer never holds more than it can.
ConnectionOK(rep) == Len(rep.body) - rep.sent <= Buffer

ConnectionInv == \A r \in Requests : ConnectionOK(response[r])

\* A unit goes into the buffer only if there is room for it.
LEMMA WrittenConnection ==
    ASSUME NEW rep \in Responses, NEW code, NEW unit \in {"data", "success", "error"},
           ConnectionOK(rep)
    PROVE  ConnectionOK(Written(rep, code, <<unit>>))
<1> DEFINE new == Written(rep, code, <<unit>>)
<1>1. /\ rep.body \in Bodies /\ rep.sent \in Nat /\ Buffer \in Nat
      /\ <<unit>> \in Bodies /\ Len(<<unit>>) = 1
  BY HandlersAssumption DEF Responses, Bodies
<1>2. Len(rep.body \o <<unit>>) = Len(rep.body) + 1 /\ Len(rep.body) \in Nat
  BY <1>1 DEF Bodies
<1>3. /\ new.body = IF Fits(rep, <<unit>>) /\ Room(rep) /\ rep.client # "broken"
                     THEN rep.body \o <<unit>> ELSE rep.body
      /\ new.sent = rep.sent
  BY WrittenFields
<1> HIDE DEF new
<1>4. CASE Room(rep) /\ new.body = rep.body \o <<unit>>
  BY <1>1, <1>2, <1>3, <1>4 DEF Room, ConnectionOK, new
<1>5. CASE new.body = rep.body
  BY <1>3, <1>5 DEF ConnectionOK, new
<1> QED
  BY <1>3, <1>4, <1>5

\* What a step of a request writes: nothing, or one unit.
OneWrite(r) ==
    \/ /\ response'[r].body = response[r].body
       /\ response'[r].sent = response[r].sent
    \/ \E code \in {200, 500}, unit \in {"data", "success", "error"} :
          response'[r] = Written(response[r], code, <<unit>>)

LEMMA StepWrites == ASSUME TypeOK, NEW r \in Requests, Step(r) PROVE OneWrite(r)
<1>0. response[r] \in Responses
  BY DEF TypeOK
<1>1. ASSUME NEW next, Go(r, next) PROVE OneWrite(r)
  BY <1>1 DEF Go, OneWrite
<1>2. ASSUME NEW err, NEW next, Answer(r, err, next) PROVE OneWrite(r)
  BY <1>2, AnswerEffect DEF Respond, OneWrite
<1>3. CASE Begin(r)
  <2>1. job[r].source \in Sources
    BY DEF TypeOK, Jobs
  <2>2. (\E next : Go(r, next)) \/ (\E next : Answer(r, TRUE, next))
    BY <1>3, <2>1 DEF Begin, Sources
  <2> QED
    BY <1>1, <1>2, <2>2
<1>4. CASE Check(r) \/ Once(r) \/ Lock(r) \/ Make(r) \/ Unlock(r) \/ HealthAnswer(r)
  BY <1>1, <1>2, <1>4 DEF Check, Once, Lock, Make, Unlock, HealthAnswer
<1>5. CASE Stat(r) \/ Open(r) \/ ReadFails(r) \/ CopyEnds(r) \/ Delete(r) \/ End(r)
  BY <1>1, <1>2, <1>5 DEF Stat, Open, ReadFails, CopyEnds, Delete, End
<1>6. CASE Declare(r)
  <2>1. CASE Answer(r, TRUE, "end")
    BY <1>2, <2>1
  <2>2. CASE response' = [response EXCEPT ![r].declared = job[r].size]
    BY <1>0, <2>2 DEF TypeOK, Responses, OneWrite
  <2> QED
    BY <1>6, <2>1, <2>2 DEF Declare
<1>7. CASE Copy(r) \/ WriteFails(r)
  <2>1. response'[r] = Written(response[r], 200, <<"data">>)
    BY <1>7 DEF Copy, WriteFails, TypeOK
  <2> QED
    BY <2>1 DEF OneWrite
<1>8. CASE ContentEnds(r)
  BY <1>0, <1>8 DEF ContentEnds, TypeOK, Responses, OneWrite
<1> QED
  BY <1>3, <1>4, <1>5, <1>6, <1>7, <1>8 DEF Step

LEMMA AlwaysConnection == Spec => []ConnectionInv
<1>1. Init => ConnectionInv
  BY HandlersAssumption DEF Init, ConnectionInv, ConnectionOK
<1>2. TypeOK /\ ConnectionInv /\ [Next]_vars => ConnectionInv'
  <2> SUFFICES ASSUME TypeOK, ConnectionInv, [Next]_vars, NEW q \in Requests
               PROVE  ConnectionOK(response'[q])
    BY DEF ConnectionInv
  <2>0. response[q] \in Responses /\ ConnectionOK(response[q])
    BY DEF ConnectionInv, TypeOK
  <2>1. CASE response'[q] = response[q]
    BY <2>0, <2>1
  <2>2. CASE Step(q)
    BY <2>0, <2>2, StepWrites, WrittenConnection DEF ConnectionOK, OneWrite
  <2>3. CASE Send(q)
    <3>1. /\ response'[q].body = response[q].body
          /\ response'[q].sent = response[q].sent + 1
      BY <2>0, <2>3 DEF Send, TypeOK, Responses
    <3>2. /\ response[q].sent \in Nat /\ Len(response[q].body) \in Nat
          /\ Buffer \in Nat
      BY <2>0, HandlersAssumption DEF Responses, Bodies
    <3> QED
      BY <2>0, <3>1, <3>2 DEF ConnectionOK
  <2>4. CASE Leave(q)
    BY <2>0, <2>4 DEF Leave, TypeOK, Responses, ConnectionOK
  <2>5. ASSUME NEW r \in Requests, Step(r) \/ Send(r) \/ Leave(r), r # q
        PROVE  response'[q] = response[q]
    BY <2>5, OthersKept
  <2>6. CASE UNCHANGED vars
    BY <2>1, <2>6 DEF vars
  <2> QED
    BY <2>1, <2>2, <2>3, <2>4, <2>5, <2>6 DEF Next
<1> QED
  BY <1>1, <1>2, HandlersTypeCorrect, PTL DEF Spec

\* A file or a content that was written to its end reaches a client that stays,
\* whole and alone, whoever deletes the file meanwhile and whatever is written
\* after it.
THEOREM KnownLengthsDelivered == Spec => []KnownLengthDelivered
<1>1. DeliveryInv => KnownLengthDelivered
  <2> SUFFICES ASSUME DeliveryInv, NEW r \in Requests,
                      pc[r] = "done", response[r].client = "there",
                      response[r].sent = Len(response[r].body),
                      job[r].source = "content"
                        \/ (job[r].source = "path" /\ FileSize > 0),
                      copied[r] = job[r].size
               PROVE  Delivered(r)
    BY DEF KnownLengthDelivered
  <2>1. Whole(r)
    BY SentWhole DEF DeliveryInv, DeliveryOK
  <2> QED
    BY <2>1 DEF Delivered, Whole
<1> QED
  BY <1>1, AlwaysDelivery, PTL

\* Who deletes the file has written all of it, and all but what the buffer holds
\* has been sent, even if the client has left since.
THEOREM DeletesOnlyHandedOver == Spec => DeletedOnlyHandedOver
<1> DEFINE Deserved == file' # file =>
              \E r \in Requests :
                 /\ pc[r] = "delete" /\ pc'[r] # "delete"
                 /\ job[r].deleteAfter /\ HandedOver(r)
<1>1. TypeOK /\ DeliveryInv /\ ConnectionInv /\ [Next]_vars => [Deserved]_vars
  <2> SUFFICES ASSUME TypeOK, DeliveryInv, ConnectionInv, Next, file' # file PROVE Deserved
    BY DEF vars
  <2>1. PICK r \in Requests : Delete(r)
    BY DEF Next, Step, shared, Begin, Check, Once, Lock, Make, Unlock, HealthAnswer, Stat,
       Open, Declare, Copy, CopyEnds, ContentEnds, WriteFails, ReadFails, End, Send, Leave
  <2>2. pc[r] = "delete" /\ pc'[r] # "delete"
    BY <2>1 DEF Delete, Go, TypeOK
  <2>3. job[r].deleteAfter /\ Whole(r)
    BY <2>2, SentWhole DEF DeliveryInv, DeliveryOK
  <2>4. HandedOver(r)
    BY <2>3 DEF HandedOver, Whole, ConnectionInv, ConnectionOK
  <2> QED
    BY <2>2, <2>3, <2>4
<1> QED
  BY <1>1, AlwaysDelivery, AlwaysConnection, HandlersTypeCorrect, PTL
     DEF Spec, DeletedOnlyHandedOver

----------------------------------------------------------------------------
(* The status of an answer *)

\* The status was decided with the first unit of the body; if it is decided and
\* nothing was sent, nothing will be.
AnswerOK(rep) ==
    /\ rep.status = 0 => rep.body = <<>>
    /\ rep.body = <<>> => rep.status = 0 \/ rep.client = "broken" \/ rep.declared = 0
    /\ rep.body # <<>> => (rep.status = 500 <=> Head(rep.body) = "error")

StatusOK(r) ==
    /\ AnswerOK(response[r])
    /\ pc[r] \in Places \ {"copy", "delete", "end", "done"} => response[r].status = 0

StatusInv == \A r \in Requests : StatusOK(r)

\* A write that begins with an error has status 500, and no other has.
LEMMA WrittenAnswer ==
    ASSUME NEW rep \in Responses, AnswerOK(rep), NEW code \in {200, 500},
           NEW units \in Bodies,
           Len(units) = 1, code = 500 <=> Head(units) = "error"
    PROVE  AnswerOK(Written(rep, code, units))
<1> DEFINE new == Written(rep, code, units)
<1>1. /\ rep.body \in Bodies /\ rep.declared \in Nat \cup {Unknown} /\ Unknown \notin Nat
      /\ Len(rep.body) \in Nat /\ Len(units) \in Nat
  BY DEF Responses, Lengths, Bodies, Unknown
<1>2. /\ new.status = IF rep.status = 0 THEN code ELSE rep.status
      /\ new.declared = rep.declared
      /\ new.client = IF Breaks(rep, units) THEN "broken" ELSE rep.client
      /\ new.body = IF Fits(rep, units) /\ Room(rep) /\ rep.client # "broken"
                    THEN rep.body \o units ELSE rep.body
  BY WrittenFields
<1> HIDE DEF new
<1>3. new.status # 0
  BY <1>2
<1>4. CASE rep.body # <<>>
  <2>1. /\ rep.body \o units # <<>>
        /\ Head(rep.body \o units) = Head(rep.body)
    BY <1>1, <1>4 DEF Bodies
  <2>2. new.status = rep.status /\ new.body # <<>> /\ Head(new.body) = Head(rep.body)
    BY <1>2, <1>4, <2>1 DEF AnswerOK
  <2> QED
    BY <1>3, <1>4, <2>2 DEF AnswerOK, new
<1>5. CASE rep.body = <<>>
  <2>1. /\ rep.body \o units = units /\ Len(rep.body) = 0
        /\ units # <<>> /\ Len(units) = 1
    <3>1. units \in Seq({"data", "success", "error"})
      BY DEF Bodies
    <3>2. <<>> \o units = units
      BY <3>1, ConcatEmptySeq
    <3>3. units # <<>>
      <4> SUFFICES ASSUME units = <<>> PROVE FALSE
        OBVIOUS
      <4> QED
        BY EmptySeq
    <3> QED
      BY <1>5, <3>2, <3>3, EmptySeq
  <2>2. Room(rep)
    BY <2>1, HandlersAssumption DEF Room, Responses
  <2>3. CASE rep.client = "broken"
    BY <1>2, <1>3, <1>5, <2>3 DEF AnswerOK, new
  <2>4. CASE rep.client # "broken" /\ ~Fits(rep, units)
    <3>1. rep.declared = 0
      BY <1>1, <2>1, <2>4 DEF Fits
    <3> QED
      BY <1>2, <1>3, <1>5, <2>4, <3>1 DEF AnswerOK, new
  <2>5. CASE rep.client # "broken" /\ Fits(rep, units)
    <3>1. rep.declared # 0
      BY <1>1, <2>1, <2>5 DEF Fits, Unknown
    <3>2. rep.status = 0
      BY <1>5, <2>5, <3>1 DEF AnswerOK
    <3>3. new.status = code /\ new.body = units
      BY <1>2, <2>1, <2>2, <2>5, <3>2
    <3> QED
      BY <1>3, <2>1, <3>3 DEF AnswerOK, new
  <2> QED
    BY <2>3, <2>4, <2>5
<1> QED
  BY <1>4, <1>5

LEMMA RespondAnswer ==
    ASSUME NEW rep \in Responses, AnswerOK(rep), NEW err
    PROVE  AnswerOK(Respond(rep, err))
<1>1. /\ <<"error">> \in Bodies /\ <<"success">> \in Bodies
      /\ Len(<<"error">>) = 1 /\ Len(<<"success">>) = 1
      /\ Head(<<"error">>) = "error" /\ Head(<<"success">>) # "error"
  BY DEF Bodies
<1> QED
  BY <1>1, WrittenAnswer DEF Respond

LEMMA AnswerStatus ==
    ASSUME TypeOK, NEW r \in Requests, StatusOK(r), NEW err,
           NEW next \in {"end", "done"}, Answer(r, err, next)
    PROVE  StatusOK(r)'
<1>1. pc'[r] = next /\ response'[r] = Respond(response[r], err)
  BY AnswerEffect
<1>2. AnswerOK(response[r]) /\ response[r] \in Responses
  BY DEF StatusOK, TypeOK
<1>3. AnswerOK(response'[r])
  BY <1>1, <1>2, RespondAnswer
<1> QED
  BY <1>1, <1>3 DEF StatusOK

\* A step that answers nothing.
LEMMA GoStatus ==
    ASSUME TypeOK, NEW r \in Requests, StatusOK(r), NEW next \in Places, Go(r, next),
           job' = job,
           next \in Places \ {"copy", "delete", "end", "done"} => response[r].status = 0
    PROVE  StatusOK(r)'
<1>1. pc'[r] = next /\ response' = response
  BY DEF Go, TypeOK
<1> QED
  BY <1>1 DEF StatusOK

LEMMA StepStatus ==
    ASSUME TypeOK, NEW r \in Requests, DeliveryOK(r), StatusOK(r), Step(r)
    PROVE  StatusOK(r)'
<1> USE DEF Places
<1>0. /\ response[r] \in Responses /\ AnswerOK(response[r])
      /\ response[r].declared \in Lengths /\ job[r].size \in Nat
      /\ job[r].source \in Sources
  BY DEF TypeOK, StatusOK, Responses, Jobs
<1>1. CASE Begin(r)
  <2>1. job' = job /\ response[r].status = 0
    BY <1>1 DEF Begin, shared, StatusOK
  <2>2. (\E next \in Places : Go(r, next)) \/ Answer(r, TRUE, "done")
    BY <1>0, <1>1 DEF Begin, Sources
  <2> QED
    BY <2>1, <2>2, GoStatus, AnswerStatus
<1>2. CASE Check(r) \/ Once(r) \/ Lock(r) \/ Make(r) \/ Unlock(r)
  <2>1. job' = job /\ response[r].status = 0
    BY <1>2 DEF Check, Once, Lock, Make, Unlock, StatusOK
  <2>2. \E next \in Places : Go(r, next)
    BY <1>2 DEF Check, Once, Lock, Make, Unlock
  <2> QED
    BY <2>1, <2>2, GoStatus
<1>3. CASE HealthAnswer(r) \/ ReadFails(r) \/ End(r)
  BY <1>3, AnswerStatus DEF HealthAnswer, ReadFails, End
<1>4. CASE Stat(r) \/ Open(r)
  <2>1. job' = job /\ response[r].status = 0
    BY <1>4 DEF Stat, Open, StatusOK
  <2>2. (\E next \in Places : Go(r, next)) \/ Answer(r, TRUE, "end")
    BY <1>4 DEF Stat, Open
  <2> QED
    BY <2>1, <2>2, GoStatus, AnswerStatus
<1>5. CASE CopyEnds(r) \/ Delete(r)
  <2>1. job' = job /\ \E next \in {"delete", "end"} : Go(r, next)
    BY <1>5 DEF CopyEnds, Delete
  <2> QED
    BY <2>1, GoStatus
<1>6. CASE Declare(r)
  <2>1. CASE Answer(r, TRUE, "end")
    BY <2>1, AnswerStatus
  <2>2. CASE /\ response' = [response EXCEPT ![r].declared = job[r].size]
             /\ pc' = [pc EXCEPT ![r] = "copy"]
    <3>1. /\ response'[r].status = 0 /\ response'[r].body = <<>>
          /\ pc'[r] = "copy"
      BY <1>6, <2>2 DEF Declare, StatusOK, DeliveryOK, TypeOK, Responses
    <3> QED
      BY <3>1 DEF StatusOK, AnswerOK
  <2> QED
    BY <1>6, <2>1, <2>2 DEF Declare
<1>7. CASE Copy(r) \/ WriteFails(r)
  <2>1. /\ pc'[r] \in {"copy", "end"}
        /\ response'[r] = Written(response[r], 200, <<"data">>)
    BY <1>7 DEF Copy, WriteFails, TypeOK
  <2>2. <<"data">> \in Bodies /\ Len(<<"data">>) = 1 /\ Head(<<"data">>) # "error"
    BY DEF Bodies
  <2>3. AnswerOK(response'[r])
    BY <1>0, <2>1, <2>2, WrittenAnswer
  <2> QED
    BY <2>1, <2>3 DEF StatusOK
<1>8. CASE ContentEnds(r)
  <2>1. /\ pc'[r] = "end"
        /\ response'[r].status = IF response[r].status = 0 THEN 200 ELSE response[r].status
        /\ response'[r].declared = response[r].declared
        /\ response'[r].body = response[r].body
    BY <1>0, <1>8 DEF ContentEnds, TypeOK, Responses
  <2>2. Sent(r) /\ copied[r] = job[r].size
    BY <1>8 DEF ContentEnds, DeliveryOK, Known
  <2>3. response[r].body = <<>> => response[r].declared = 0
    BY <2>2 DEF Sent
  <2> QED
    BY <1>0, <2>1, <2>3 DEF StatusOK, AnswerOK
<1> QED
  BY <1>1, <1>2, <1>3, <1>4, <1>5, <1>6, <1>7, <1>8 DEF Step

LEMMA NextStatus == TypeOK /\ DeliveryInv /\ StatusInv /\ [Next]_vars => StatusInv'
<1> SUFFICES ASSUME TypeOK, DeliveryInv, StatusInv, [Next]_vars, NEW q \in Requests
             PROVE  StatusOK(q)'
  BY DEF StatusInv
<1>1. StatusOK(q) /\ DeliveryOK(q)
  BY DEF StatusInv, DeliveryInv
<1>2. ASSUME job' = job, pc'[q] = pc[q], response'[q] = response[q]
      PROVE  StatusOK(q)'
  BY <1>1, <1>2 DEF StatusOK
<1>3. CASE UNCHANGED vars
  BY <1>2, <1>3 DEF vars
<1>4. CASE Step(q)
  BY <1>1, <1>4, StepStatus
<1>5. CASE Send(q) \/ Leave(q)
  BY <1>1, <1>5, ConnectionKeeps DEF StatusOK, AnswerOK
<1>6. ASSUME NEW r \in Requests, Step(r) \/ Send(r) \/ Leave(r), r # q
      PROVE  StatusOK(q)'
  BY <1>2, <1>6, OthersKept
<1> QED
  BY <1>3, <1>4, <1>5, <1>6 DEF Next

\* The status is 500 exactly if what was written begins with an error, however
\* often a handler goes on to write after the first answer; of an error that comes
\* later, or a body that was cut off, it tells nothing.
THEOREM StatusAlwaysTells == Spec => []StatusTells
<1>1. Init => StatusInv
  BY DEF Init, StatusInv, StatusOK, AnswerOK
<1>2. StatusInv => StatusTells
  BY DEF StatusInv, StatusOK, AnswerOK, StatusTells
<1> QED
  BY <1>1, <1>2, NextStatus, AlwaysDelivery, HandlersTypeCorrect, PTL DEF Spec
=============================================================================
