----------------------------- MODULE Handlers -----------------------------
(***************************************************************************)
(* What runs in one goroutine per request: the health check with its       *)
(* service, a singleton made on first use (server/service/health_check),   *)
(* and the responses and downloads of common/ginx/response.go.  Requests   *)
(* share the singleton and the file that they download, which a request    *)
(* may delete after sending it.                                            *)
(*                                                                         *)
(* Of net/http and gin the model keeps that the first write decides the    *)
(* status, that a declared length cuts off what is written beyond it, and  *)
(* that a write goes into a buffer, from where it is sent: a handler waits *)
(* only while the buffer is full, and it learns that the client has gone   *)
(* only from a write that finds no room.  Bytes are counted in units: a    *)
(* buffer of the file is one and a JSON message is one.                    *)
(***************************************************************************)
EXTENDS Integers, Sequences, FiniteSets

CONSTANTS
    Requests,
    FileSize,  \* the size of the file on disk
    Buffer,    \* what the server holds of a response that was not sent
    Loads      \* what the requests may ask for together

Sources == {"health", "nil config", "path", "reader", "content", "no source"}

Nobody == "nobody"

Jobs == [source : Sources, size : Nat, deleteAfter : BOOLEAN]

ASSUME HandlersAssumption ==
    /\ Nobody \notin Requests
    /\ FileSize \in Nat
    /\ Buffer \in Nat \ {0}
    /\ Loads \subseteq [Requests -> Jobs]
    /\ \A load \in Loads, r \in Requests :
          load[r].source = "path" => load[r].size = FileSize

VARIABLES
    job,        \* what each request asks for
    pc,         \* where its handler is
    copied,     \* units of the source it has written
    response,   \* what it has answered
    file,       \* the file is in its directory
    svc, made,  \* the singleton, and how many were made
    once        \* sync.Once: [done, holder of its mutex]

vars == <<job, pc, copied, response, file, svc, made, once>>
shared == <<file, svc, made, once>>

NoService == 0
Unknown   == -1

Places == {"start", "check", "once", "lock", "make", "unlock", "answer",
           "stat", "open", "info", "copy", "delete", "end", "done"}

Lengths == Nat \cup {Unknown}
Bodies  == Seq({"data", "success", "error"})

\* What was written, how much of it was sent, and whether the client is there, has
\* left, or has left and a write found that out.
Responses ==
    [status : {0, 200, 500}, declared : Lengths, body : Bodies, sent : Nat,
     client : {"there", "left", "broken"}]

Init ==
    /\ job \in Loads
    /\ pc = [r \in Requests |-> "start"]
    /\ copied = [r \in Requests |-> 0]
    /\ response = [r \in Requests |->
          [status |-> 0, declared |-> Unknown, body |-> <<>>, sent |-> 0,
           client |-> "there"]]
    /\ file = TRUE
    /\ svc = NoService /\ made = 0
    /\ once = [done |-> FALSE, holder |-> Nobody]

----------------------------------------------------------------------------
(* Answers *)

Fits(rep, units) == rep.declared = Unknown \/ Len(rep.body) + Len(units) <= rep.declared

Room(rep) == Len(rep.body) - rep.sent < Buffer

\* A write waits for room as long as there is a client to make it ...
MayWrite(rep, units) == Fits(rep, units) => Room(rep) \/ rep.client # "there"

\* ... and without one it fails, as do all that follow.
Breaks(rep, units) == Fits(rep, units) /\ ~Room(rep) /\ rep.client # "there"

\* The first write decides the status, and one that goes beyond the declared
\* length is refused.
Written(rep, code, units) ==
    LET accepted == Fits(rep, units) /\ Room(rep) /\ rep.client # "broken"
    IN  [status   |-> IF rep.status = 0 THEN code ELSE rep.status,
         declared |-> rep.declared,
         body     |-> IF accepted THEN rep.body \o units ELSE rep.body,
         sent     |-> rep.sent,
         client   |-> IF Breaks(rep, units) THEN "broken" ELSE rep.client]

\* Mutant: an error is answered with the default status.
RespondOK(rep, err) == Written(rep, 200, IF err THEN <<"error">> ELSE <<"success">>)

\* JsonResult and ResponseErr: an error of the standard library's gets status 500.
Respond(rep, err) ==
    IF err THEN Written(rep, 500, <<"error">>) ELSE Written(rep, 200, <<"success">>)

Answer(r, err, next) ==
    /\ MayWrite(response[r], <<"message">>)
    /\ response' = [response EXCEPT ![r] = Respond(@, err)]
    /\ pc' = [pc EXCEPT ![r] = next]

Go(r, next) == pc' = [pc EXCEPT ![r] = next] /\ UNCHANGED response

----------------------------------------------------------------------------
(* Health check *)

Begin(r) ==
    /\ pc[r] = "start"
    /\ CASE job[r].source = "health"     -> Go(r, "check")
         [] job[r].source = "nil config" -> Answer(r, TRUE, "done")
         [] job[r].source = "path"       -> Go(r, "stat")
         [] job[r].source = "reader"     -> Go(r, "copy")
         [] job[r].source = "content"    -> Go(r, "info")
         [] job[r].source = "no source"  -> Go(r, "end")
    /\ UNCHANGED <<job, copied, shared>>

\* GetService reads the singleton without synchronisation ...
Check(r) ==
    /\ pc[r] = "check"
    /\ Go(r, IF svc # NoService THEN "answer" ELSE "once")
    /\ UNCHANGED <<job, copied, shared>>

\* ... and if it finds none calls once.Do: a look at the flag, the mutex and a
\* second look.
Once(r) ==
    /\ pc[r] = "once"
    /\ Go(r, IF once.done THEN "answer" ELSE "lock")
    /\ UNCHANGED <<job, copied, shared>>

\* Mutant: the flag is set before the function has run.
LockEarly(r) ==
    /\ pc[r] = "lock"
    /\ once.holder = Nobody
    /\ once' = [done |-> TRUE, holder |-> r]
    /\ Go(r, IF once.done THEN "unlock" ELSE "make")
    /\ UNCHANGED <<job, copied, file, svc, made>>

Lock(r) ==
    /\ pc[r] = "lock"
    /\ once.holder = Nobody
    /\ once' = [once EXCEPT !.holder = r]
    /\ Go(r, IF once.done THEN "unlock" ELSE "make")
    /\ UNCHANGED <<job, copied, file, svc, made>>

Make(r) ==
    /\ pc[r] = "make"
    /\ made' = made + 1
    /\ svc' = made + 1
    /\ Go(r, "unlock")
    /\ UNCHANGED <<job, copied, file, once>>

\* Mutant: the mutex is kept.
UnlockNever(r) ==
    /\ pc[r] = "unlock"
    /\ once' = [once EXCEPT !.done = TRUE]
    /\ Go(r, "answer")
    /\ UNCHANGED <<job, copied, file, svc, made>>

Unlock(r) ==
    /\ pc[r] = "unlock"
    /\ once' = [done |-> TRUE, holder |-> Nobody]
    /\ Go(r, "answer")
    /\ UNCHANGED <<job, copied, file, svc, made>>

\* The service answers; without one the call would panic.
HealthAnswer(r) ==
    /\ pc[r] = "answer"
    /\ svc # NoService
    /\ Answer(r, FALSE, "done")
    /\ UNCHANGED <<job, copied, shared>>

----------------------------------------------------------------------------
(* Downloads *)

Stat(r) ==
    /\ pc[r] = "stat"
    /\ IF file THEN Go(r, "open") ELSE Answer(r, TRUE, "end")
    /\ UNCHANGED <<job, copied, shared>>

\* Opening may fail, and does when another request has deleted the file since.
Open(r) ==
    /\ pc[r] = "open"
    /\ \/ file /\ Go(r, "info")
       \/ Answer(r, TRUE, "end")
    /\ UNCHANGED <<job, copied, shared>>

\* Mutant: the length is not declared.
DeclareNothing(r) ==
    /\ pc[r] = "info"
    /\ \/ Go(r, "copy")
       \/ job[r].source = "path" /\ Answer(r, TRUE, "end")
    /\ UNCHANGED <<job, copied, shared>>

\* The length of a file, if it can be told, or of a content is declared.
Declare(r) ==
    /\ pc[r] = "info"
    /\ \/ /\ response' = [response EXCEPT ![r].declared = job[r].size]
          /\ pc' = [pc EXCEPT ![r] = "copy"]
       \/ job[r].source = "path" /\ Answer(r, TRUE, "end")
    /\ UNCHANGED <<job, copied, shared>>

\* Mutant: one unit too many.
CopyBeyond(r) ==
    /\ pc[r] = "copy"
    /\ copied[r] <= job[r].size
    /\ Room(response[r])
    /\ copied' = [copied EXCEPT ![r] = @ + 1]
    /\ response' = [response EXCEPT ![r] = Written(@, 200, <<"data">>)]
    /\ UNCHANGED <<job, pc, shared>>

\* io.CopyBuffer, or the one call that writes a content, writes the next unit,
\* none of an empty source.  The open file is read to its end even if it is
\* deleted meanwhile, and a client that has left takes what there is room for.
Copy(r) ==
    /\ pc[r] = "copy"
    /\ copied[r] < job[r].size
    /\ Room(response[r])
    /\ copied' = [copied EXCEPT ![r] = @ + 1]
    /\ response' = [response EXCEPT ![r] = Written(@, 200, <<"data">>)]
    /\ UNCHANGED <<job, pc, shared>>

\* There is no room and no client to make it: the write fails, and the error that
\* is written then fails too.
WriteFails(r) ==
    /\ pc[r] = "copy"
    /\ copied[r] < job[r].size
    /\ response[r].client # "there" /\ ~Room(response[r])
    /\ response' = [response EXCEPT ![r] = Written(@, 200, <<"data">>)]
    /\ pc' = [pc EXCEPT ![r] = "end"]
    /\ UNCHANGED <<job, copied, shared>>

\* The call that writes a content sends the header even if the content is empty.
ContentEnds(r) ==
    /\ pc[r] = "copy"
    /\ job[r].source = "content"
    /\ copied[r] = job[r].size
    /\ response' = [response EXCEPT ![r].status = IF @ = 0 THEN 200 ELSE @]
    /\ pc' = [pc EXCEPT ![r] = "end"]
    /\ UNCHANGED <<job, copied, shared>>

\* Reading fails.
ReadFails(r) ==
    /\ pc[r] = "copy"
    /\ job[r].source # "content"
    /\ Answer(r, TRUE, "end")
    /\ UNCHANGED <<job, copied, shared>>

\* Mutant: what happened to the copy is not looked at.
CopyEndsAnyhow(r) ==
    /\ pc[r] = "copy"
    /\ job[r].source # "content"
    /\ Go(r, IF job[r].source = "path" /\ job[r].deleteAfter THEN "delete" ELSE "end")
    /\ UNCHANGED <<job, copied, shared>>

CopyEnds(r) ==
    /\ pc[r] = "copy"
    /\ job[r].source # "content"
    /\ copied[r] = job[r].size
    /\ Go(r, IF job[r].source = "path" /\ job[r].deleteAfter THEN "delete" ELSE "end")
    /\ UNCHANGED <<job, copied, shared>>

\* A file that another request has deleted already is only logged.
Delete(r) ==
    /\ pc[r] = "delete"
    /\ file' = FALSE
    /\ Go(r, "end")
    /\ UNCHANGED <<job, copied, svc, made, once>>

\* Every download ends in handleFileDownload's last statement, an error.
End(r) ==
    /\ pc[r] = "end"
    /\ Answer(r, TRUE, "done")
    /\ UNCHANGED <<job, copied, shared>>

----------------------------------------------------------------------------
(* The connection *)

\* What is in the buffer is sent, while the handler runs and after it.
Send(r) ==
    /\ response[r].client = "there"
    /\ response[r].sent < Len(response[r].body)
    /\ response' = [response EXCEPT ![r].sent = @ + 1]
    /\ UNCHANGED <<job, pc, copied, shared>>

\* The client leaves, or is cut off by the server's write timeout.
Leave(r) ==
    /\ response[r].client = "there"
    /\ response' = [response EXCEPT ![r].client = "left"]
    /\ UNCHANGED <<job, pc, copied, shared>>

----------------------------------------------------------------------------
Step(r) ==
    \/ Begin(r)
    \/ Check(r) \/ Once(r) \/ Lock(r) \/ Make(r) \/ Unlock(r) \/ HealthAnswer(r)
    \/ Stat(r) \/ Open(r) \/ Declare(r) \/ Copy(r) \/ CopyEnds(r) \/ ContentEnds(r)
    \/ WriteFails(r) \/ ReadFails(r) \/ Delete(r) \/ End(r)

Next == \E r \in Requests : Step(r) \/ Send(r) \/ Leave(r)

Spec == Init /\ [][Next]_vars

\* Goroutines run on, each for itself, and a client reads as long as it stays.
FairSpec == Spec /\ \A r \in Requests : WF_vars(Step(r)) /\ WF_vars(Send(r))

----------------------------------------------------------------------------
(* Properties *)

TypeOK ==
    /\ job \in [Requests -> Jobs]
    /\ pc \in [Requests -> Places]
    /\ copied \in [Requests -> Nat]
    /\ \A r \in Requests : copied[r] <= job[r].size
    /\ response \in [Requests -> Responses]
    /\ file \in BOOLEAN
    /\ svc \in Nat /\ made \in Nat
    /\ once \in [done : BOOLEAN, holder : Requests \cup {Nobody}]

\* The unsynchronised look at the singleton does no harm: one service is made,
\* and whoever goes on to call it finds it (GetService).
OneService ==
    /\ made <= 1
    /\ \A r \in Requests : pc[r] = "answer" => svc # NoService

\* What was written is the source, all of it and nothing else ...
Whole(r) ==
    /\ Len(response[r].body) = job[r].size
    /\ \A i \in 1 .. job[r].size : response[r].body[i] = "data"

\* ... and the client has it.
Delivered(r) == Whole(r) /\ response[r].sent = job[r].size

\* A file or a content that was written to the end reaches a client that stays,
\* whole and alone: neither another request that deletes the file nor the error
\* that follows every download gets in (handleFileDownload,
\* handleFileDownloadFromPath).
KnownLengthDelivered ==
    \A r \in Requests :
        /\ pc[r] = "done" /\ response[r].client = "there"
        /\ response[r].sent = Len(response[r].body)
        /\ job[r].source = "content" \/ (job[r].source = "path" /\ FileSize > 0)
        /\ copied[r] = job[r].size
        => Delivered(r)

\* All of the source was written, and all that the buffer cannot hold was sent.
HandedOver(r) == Whole(r) /\ job[r].size - response[r].sent <= Buffer

\* Who deletes the file was asked to and has handed all of it over, whatever
\* fails here or in the others (handleFileDownloadFromPath).
DeletedOnlyHandedOver ==
    [][file' # file =>
          \E r \in Requests :
             /\ pc[r] = "delete" /\ pc'[r] # "delete"
             /\ job[r].deleteAfter /\ HandedOver(r)]_vars

\* The status is 500 exactly if what was written begins with an error: one that
\* comes later leaves the status of the first write (prepareResponse).
StatusTells ==
    \A r \in Requests :
        pc[r] = "done" /\ response[r].body # <<>> =>
            (response[r].status = 500 <=> Head(response[r].body) = "error")

\* Every request is answered, and all of the answer sent to a client that stays:
\* nobody waits for a mutex that is never released, or for room in vain.
AllAnswered ==
    \A r \in Requests :
        <>(pc[r] = "done"
           /\ (response[r].client # "there" \/ response[r].sent = Len(response[r].body)))

\* "FileResult 返回文件流下载": a download that did not fail returns the stream it
\* was given.
ReturnsStream ==
    \A r \in Requests :
        /\ pc[r] = "done" /\ response[r].client # "broken"
        /\ job[r].source \in {"path", "reader", "content"} /\ copied[r] = job[r].size
        => Whole(r) /\ response[r].status = 200
=============================================================================
