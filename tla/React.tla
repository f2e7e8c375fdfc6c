------------------------------- MODULE React -------------------------------
(***************************************************************************)
(* The part of React that decides when the page's updates take effect:     *)
(* static/libs/react-dom/react-dom.development.js, which index.html loads, *)
(* and the scheduler in static/libs/react/react.development.js.  One root  *)
(* (createRoot), one component (App) with state hooks and passive effects. *)
(*                                                                         *)
(* JavaScript has one thread: what an event, a microtask or a task of the  *)
(* scheduler starts (variable work) ends before the next begins, and       *)
(* microtasks come before the rest.  Updates have a lane: Sync when made   *)
(* in a click or a key press, Default in other callbacks.  A render takes  *)
(* the updates of its lanes and leaves the others in the queue of their    *)
(* hook, to be applied later, in order (rebasing).                         *)
(*                                                                         *)
(* Left out, because the page has none: transitions, Suspense, updates in  *)
(* effects, layout effects, errors thrown by a component.  Left out, too,  *)
(* are updates in render, of which the page can make one, in the updater of*)
(* toggleDiffMode (index.html, 2363-2368): React renders once more for it. *)
(***************************************************************************)
EXTENDS SequencesExt, Compositions

CONSTANTS
    Hooks,      \* the state variables (useState) of the component
    Vals,       \* their values
    Acts,       \* Acts[h]: functions on Vals, the updates made to h
    InitVal,    \* what useState is given
    Effects,    \* the effects (useEffect) of the component
    Deps,       \* Deps[e]: the hooks an effect depends on
    MaxQueue,   \* bound: updates of one hook that wait
    MaxTasks    \* bound: tasks in the scheduler when an event comes

Lanes  == {"Sync", "Default"}
NoLane == "NoLane"     \* of an update already shown, and of no callback

ASSUME ReactAssumption ==
    /\ InitVal \in Vals
    /\ Acts \in [Hooks -> SUBSET [Vals -> Vals]]
    /\ Deps \in [Effects -> SUBSET Hooks]
    /\ MaxQueue \in Nat
    /\ MaxTasks \in Nat

VARIABLES
    memoizedState,      \* what the last render gave each hook
    baseState,          \* the value before the first update left in baseQueue
    baseQueue, pending, \* updates left by renders, updates made since
    lanes, altLanes,    \* lanes of the component's fiber and of its alternate
    pendingLanes,       \* lanes of the root
    callbackPriority,   \* lane of the callback scheduled for the root
    syncQueue,          \* performSyncWorkOnRoot waits for the next microtask
    tasks,              \* the scheduler's tasks: all of normal priority, so FIFO
    passive,            \* lanes of the commit whose effects are to run, or {}
    marked,             \* those of its effects whose inputs changed (HasEffect)
    seen,               \* the values each effect last ran with
    work,               \* what the thread is doing
    eventLane           \* the lane of updates made by the handler that runs

queues    == <<memoizedState, baseState, baseQueue, pending, lanes, altLanes>>
schedule  == <<pendingLanes, callbackPriority, syncQueue, tasks>>
effects   == <<passive, marked, seen>>
vars      == <<queues, schedule, effects, work, eventLane>>

Inputs(e, m) == [h \in Deps[e] |-> m[h]]

Init ==
    /\ memoizedState = [h \in Hooks |-> InitVal]
    /\ baseState = memoizedState
    /\ baseQueue = [h \in Hooks |-> <<>>]
    /\ pending = baseQueue
    /\ lanes = {} /\ altLanes = {} /\ pendingLanes = {}
    /\ callbackPriority = NoLane
    /\ syncQueue = FALSE
    /\ tasks = <<>>
    /\ passive = {} /\ marked = {}
    /\ seen = [e \in Effects |-> Inputs(e, memoizedState)]
    /\ work = "idle"
    /\ eventLane = NoLane

----------------------------------------------------------------------------
(* Scheduling *)

\* getNextLanes: Sync work is done alone and first.
NextLanes(pl) == IF "Sync" \in pl THEN {"Sync"} ELSE pl

\* The lane of the next work, NoLane if there is none.
Priority(pl) == IF "Sync" \in pl THEN "Sync"
                ELSE IF "Default" \in pl THEN "Default" ELSE NoLane

\* Mutant: an existing callback will do, whatever its priority.
EnsureRootIsScheduledOnce(pl, existing, ts) ==
    /\ callbackPriority' = IF existing = NoLane THEN Priority(pl) ELSE existing
    /\ syncQueue' = (syncQueue \/ (existing = NoLane /\ Priority(pl) = "Sync"))
    /\ tasks' = IF existing = NoLane /\ Priority(pl) = "Default"
                THEN Append(ts, "render") ELSE ts

\* cancelCallback: the task keeps its place, without its callback.
Cancel(ts) == [i \in DOMAIN ts |-> IF ts[i] = "render" THEN "cancelled" ELSE ts[i]]

\* ensureRootIsScheduled, for lanes pl, an existing callback of that priority
\* and the tasks ts: one callback per root, of the priority of its next work.
EnsureRootIsScheduled(pl, existing, ts) ==
    /\ callbackPriority' = Priority(pl)
    /\ syncQueue' = (syncQueue \/ (Priority(pl) = "Sync" /\ existing # "Sync"))
    /\ tasks' = IF Priority(pl) = existing THEN ts
                ELSE IF Priority(pl) = "Default" THEN Append(Cancel(ts), "render")
                ELSE Cancel(ts)

----------------------------------------------------------------------------
(* Events and updates *)

\* No handler runs and no microtask waits.
AtRest == work = "idle" /\ ~syncQueue

\* A click or a key press (Sync), or the callback of a reader or a timer.
BeginEvent(lane) ==
    /\ AtRest
    /\ Len(tasks) < MaxTasks
    /\ work' = "handler"
    /\ eventLane' = lane
    /\ UNCHANGED <<queues, schedule, effects>>

\* Mutant: the state is computed at once though updates may wait before it.
EagerAlways == TRUE

\* The queue counts as empty when neither fiber has lanes.
Eager == lanes = {} /\ altLanes = {}

\* setX in a handler (dispatchSetState): a change that an empty queue shows to
\* be none is queued and schedules no render.
Dispatch(h, a) ==
    LET v == a[memoizedState[h]]
        update == [lane |-> eventLane, action |-> a, hasEagerState |-> Eager,
                   eagerState |-> IF Eager THEN v ELSE InitVal]
    IN  /\ work = "handler"
        /\ Len(pending[h]) + Len(baseQueue[h]) < MaxQueue
        /\ pending' = [pending EXCEPT ![h] = Append(@, update)]
        /\ IF Eager /\ v = memoizedState[h]
           THEN UNCHANGED <<lanes, altLanes, schedule>>
           ELSE /\ lanes' = lanes \cup {eventLane}
                /\ altLanes' = altLanes \cup {eventLane}
                /\ pendingLanes' = pendingLanes \cup {eventLane}
                /\ EnsureRootIsScheduled(pendingLanes', callbackPriority, tasks)
        /\ UNCHANGED <<memoizedState, baseState, baseQueue, effects, work, eventLane>>

\* The handler returns.
EndEvent ==
    /\ work = "handler"
    /\ work' = "idle"
    /\ eventLane' = NoLane
    /\ UNCHANGED <<queues, schedule, effects>>

----------------------------------------------------------------------------
(* Rendering *)

\* What an update makes of the value before it in a render of the lanes ls: it
\* counts if its lane is among them or if it was shown before.
Shown(u, ls) ==
    [s \in Vals |-> IF u.lane \notin ls \cup {NoLane} THEN s
                    ELSE IF u.hasEagerState THEN u.eagerState ELSE u.action[s]]

\* The value that the updates in q give (updateReducer, the loop).
ApplyAll(v, q, ls) == Outcome([i \in 1 .. Len(q) |-> Shown(q[i], ls)], v)

Skipped(q, ls) == {i \in 1 .. Len(q) : q[i].lane \notin ls \cup {NoLane}}

\* Mutant: the updates skipped stay in the queue, but not those after them.
RestSkipped(q, ls) == SelectSeq(q, LAMBDA u : u.lane \notin ls \cup {NoLane})

\* The base queue begins with the first update skipped; all that come after it
\* stay too, marked if they were shown.
Rest(q, ls) ==
    IF Skipped(q, ls) = {} THEN <<>>
    ELSE LET n == Min(Skipped(q, ls))
         IN  [i \in 1 .. Len(q) - n + 1 |->
                 IF q[n + i - 1].lane \in ls
                 THEN [q[n + i - 1] EXCEPT !.lane = NoLane] ELSE q[n + i - 1]]

BaseOf(v, q, ls) ==
    IF Skipped(q, ls) = {} THEN ApplyAll(v, q, ls)
    ELSE ApplyAll(v, SubSeq(q, 1, Min(Skipped(q, ls)) - 1), ls)

Queue(h) == baseQueue[h] \o pending[h]

SkippedLanes(ls) ==
    {lane \in Lanes \ ls : \E h \in Hooks : \E i \in 1 .. Len(Queue(h)) :
                              Queue(h)[i].lane = lane}

\* renderWithHooks for the lanes ls.  A component whose state did not change
\* bails out, which cleans the lanes of the fiber that becomes the alternate.
RenderHooks(ls) ==
    /\ memoizedState' = [h \in Hooks |-> ApplyAll(baseState[h], Queue(h), ls)]
    /\ baseState' = [h \in Hooks |-> BaseOf(baseState[h], Queue(h), ls)]
    /\ baseQueue' = [h \in Hooks |-> Rest(Queue(h), ls)]
    /\ pending' = [h \in Hooks |-> <<>>]
    /\ lanes' = SkippedLanes(ls)
    /\ altLanes' = IF memoizedState' = memoizedState THEN lanes \ ls ELSE lanes

Changed(m, n) == {e \in Effects : Inputs(e, m) # Inputs(e, n)}

\* Mutant: the lanes that were rendered count as done, those found waiting in
\* the queues are not looked at.
CommitRendered(ls) ==
    /\ pendingLanes' = pendingLanes \ ls
    /\ marked' = Changed(memoizedState, memoizedState')
    /\ passive' = IF marked' = {} THEN {} ELSE ls
    /\ EnsureRootIsScheduled(pendingLanes', NoLane,
                             IF marked' = {} THEN tasks ELSE Append(tasks, "effects"))

\* commitRootImpl.  A commit that removes elements of the page counts as one
\* with effects, even if it has none to run.
Commit(ls) ==
    /\ pendingLanes' = lanes'
    /\ marked' = Changed(memoizedState, memoizedState')
    /\ \E deletes \in {FALSE, memoizedState' # memoizedState} :
          LET hasEffects == deletes \/ marked' # {}
          IN  /\ passive' = IF hasEffects THEN ls ELSE {}
              /\ EnsureRootIsScheduled(lanes', NoLane,
                     IF hasEffects THEN Append(tasks, "effects") ELSE tasks)

\* Mutant: effects still waiting are forgotten.
FlushNothing ==
    /\ passive' = {}
    /\ marked' = {}
    /\ UNCHANGED seen

\* flushPassiveEffects: cleanups and effects, with the state of the last render.
FlushPassiveEffects ==
    /\ seen' = [e \in Effects |-> IF e \in marked THEN Inputs(e, memoizedState)
                                                  ELSE seen[e]]
    /\ passive' = {}
    /\ marked' = {}

\* flushSyncCallbacks: in a microtask, or already at the end of a handler of a
\* controlled element or of the commit that scheduled it.
FlushSyncCallbacks ==
    /\ work = "idle"
    /\ syncQueue
    /\ work' = "sync"
    /\ syncQueue' = FALSE
    /\ UNCHANGED <<queues, pendingLanes, callbackPriority, tasks, effects, eventLane>>

\* workLoop: the scheduler runs its next task, or drops it if it was cancelled.
RunTask ==
    /\ AtRest
    /\ tasks # <<>>
    /\ work' = IF Head(tasks) = "cancelled" THEN "idle" ELSE Head(tasks)
    /\ tasks' = Tail(tasks)
    /\ UNCHANGED <<queues, pendingLanes, callbackPriority, syncQueue, effects,
                   eventLane>>

\* The callback that a commit leaves to the scheduler.
EffectsTask ==
    /\ work = "effects"
    /\ FlushPassiveEffects
    /\ work' = "idle"
    /\ UNCHANGED <<queues, schedule, eventLane>>

\* Mutant: the effects of the commit before are left where they are.
FlushFirstLater ==
    /\ \/ work = "sync" /\ work' = "sync render"
       \/ work = "render" /\ work' = "concurrent render"
    /\ UNCHANGED <<queues, schedule, effects, eventLane>>

\* performSyncWorkOnRoot and performConcurrentWorkOnRoot first run the effects
\* of the commit before.
FlushFirst ==
    /\ \/ work = "sync" /\ work' = "sync render"
       \/ work = "render" /\ work' = "concurrent render"
    /\ FlushPassiveEffects
    /\ UNCHANGED <<queues, schedule, eventLane>>

\* Mutant: all effects are left to the scheduler.
AfterCommitLater(ls) == "idle"

\* The effects of a Sync commit run before it returns (commitRootImpl, end).
AfterCommit(ls) == IF "Sync" \in ls THEN "effects" ELSE "idle"

\* Both then render the next lanes: both are blocking, so neither yields.
Render ==
    /\ work \in {"sync render", "concurrent render"}
    /\ LET ls == NextLanes(pendingLanes)
       IN  RenderHooks(ls) /\ Commit(ls) /\ work' = AfterCommit(passive')
    /\ UNCHANGED <<seen, eventLane>>

----------------------------------------------------------------------------
Handler == \E lane \in Lanes : BeginEvent(lane)

System == EndEvent \/ FlushSyncCallbacks \/ RunTask \/ EffectsTask
              \/ FlushFirst \/ Render

Next == Handler \/ (\E h \in Hooks : \E a \in Acts[h] : Dispatch(h, a)) \/ System

Spec == Init /\ [][Next]_vars

\* Handlers return, and the browser runs microtasks and tasks.  Nothing is
\* assumed of events.
FairSpec == Spec /\ WF_vars(System)

----------------------------------------------------------------------------
(* Properties *)

\* What an update means: its action, whatever was computed when it was made.
Meant(u, ls) ==
    [s \in Vals |-> IF u.lane \in ls \cup {NoLane} THEN u.action[s] ELSE s]

\* What the updates in the queue of h mean, each applied to what the one before
\* it left.
Meaning(h, ls) ==
    Outcome([i \in 1 .. Len(Queue(h)) |-> Meant(Queue(h)[i], ls)], baseState[h])

\* Nothing is lost and nothing changes places: with a shortcut for updates that
\* change nothing, two kinds of updates and two places to keep them, state hooks
\* behave as module Rendering says.
Implemented ==
    INSTANCE Rendering WITH view   <- [h \in Hooks |-> Meaning(h, {"Sync"})],
                            queued <- [h \in Hooks |-> Meaning(h, Lanes)]

ImplementsRendering == Implemented!Spec

\* A handler sees all that earlier clicks did, whatever else is still waiting.
HandlersSeeState ==
    AtRest => \A h \in Hooks : memoizedState[h] = Meaning(h, {"Sync"})

\* The effects of a click have run before the next event; those of other
\* callbacks may have not.
ClickEffectsDone == AtRest => passive \subseteq {"Default"}

Renders == {i \in DOMAIN tasks : tasks[i] = "render"}

\* No update waits for a render that nobody scheduled: between events, the
\* callback of the root has the priority of its pending lanes, which are those of
\* the component, and it is where that priority has it: in the sync queue, or the
\* only task of its kind.
WorkScheduled ==
    /\ pendingLanes = lanes
    /\ work \in {"idle", "handler", "effects"} =>
          /\ callbackPriority = Priority(pendingLanes)
          /\ syncQueue <=> callbackPriority = "Sync"
          /\ Renders # {} <=> callbackPriority = "Default"
    /\ \A i, j \in Renders : i = j

\* Effects see every state that was shown: no render changes the state before
\* the effects of the state before it have run.
NoEffectOvertaken ==
    [][memoizedState' # memoizedState =>
          \A e \in Effects : seen[e] = Inputs(e, memoizedState)]_vars

\* Once no more events come, every update is rendered and every effect has seen
\* the result.
Settled == \A h \in Hooks : memoizedState[h] = Meaning(h, Lanes)
EffectsDone == \A e \in Effects : seen[e] = Inputs(e, memoizedState)

Settles == <>[][~Handler]_vars => <>[](Settled /\ EffectsDone)
=============================================================================
