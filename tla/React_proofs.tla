--------------------------- MODULE React_proofs ---------------------------
(***************************************************************************)
(* For any hooks, values, updates and effects: work that is pending has a  *)
(* callback (WorkScheduled), for which it plays no part what a render      *)
(* computes, only which lanes it leaves in the queues; no render overtakes *)
(* an effect; and, by induction on the length of a queue, what renders     *)
(* compute is what module Rendering promises (HooksImplementRendering).    *)
(***************************************************************************)
EXTENDS React, Compositions_proofs, TLAPS

Works == {"idle", "handler", "sync", "render", "effects",
          "sync render", "concurrent render"}

TasksOK == tasks \in Seq({"render", "effects", "cancelled"})

\* The part of the state that scheduling reads.
LanesOK ==
    /\ pendingLanes \subseteq Lanes
    /\ eventLane \in Lanes \cup {NoLane}
    /\ syncQueue \in BOOLEAN
    /\ TasksOK
    /\ work \in Works
    /\ work = "handler" => eventLane \in Lanes

\* While the root is being rendered its callback is in neither place.
Taken ==
    work \notin {"idle", "handler", "effects"} => ~syncQueue /\ Renders = {}

IInv == LanesOK /\ WorkScheduled /\ Taken

----------------------------------------------------------------------------
(* The sequence of tasks *)

RenderIn(ts) == {i \in DOMAIN ts : ts[i] = "render"}
Task == {"render", "effects", "cancelled"}

\* A task added at the end is the only new one.
LEMMA AppendRenders ==
    ASSUME NEW ts \in Seq(Task), NEW t \in Task
    PROVE  /\ Append(ts, t) \in Seq(Task)
           /\ t # "render" => RenderIn(Append(ts, t)) = RenderIn(ts)
           /\ t = "render" => RenderIn(Append(ts, t)) = RenderIn(ts) \cup {Len(ts) + 1}
  BY DEF RenderIn, Task

\* Cancelling leaves no rendering behind.
LEMMA CancelRenders ==
    ASSUME NEW ts \in Seq(Task)
    PROVE  Cancel(ts) \in Seq(Task) /\ RenderIn(Cancel(ts)) = {}
<1>1. Cancel(ts) \in [1 .. Len(ts) -> Task]
  BY DEF Cancel, Task
<1>2. Cancel(ts) \in Seq(Task)
  BY <1>1, Len(ts) \in Nat
<1>3. RenderIn(Cancel(ts)) = {}
  BY DEF Cancel, RenderIn
<1> QED
  BY <1>2, <1>3

\* Running the first task takes it, and only it, away.
LEMMA TailRenders ==
    ASSUME NEW ts \in Seq(Task), ts # <<>>,
           \A i, j \in RenderIn(ts) : i = j
    PROVE  /\ Tail(ts) \in Seq(Task)
           /\ Head(ts) \in Task
           /\ Head(ts) = "render" => RenderIn(Tail(ts)) = {}
           /\ Head(ts) # "render" => (RenderIn(Tail(ts)) = {} <=> RenderIn(ts) = {})
           /\ \A i, j \in RenderIn(Tail(ts)) : i = j
<1>1. Tail(ts) \in Seq(Task) /\ Len(Tail(ts)) = Len(ts) - 1 /\ Len(ts) \in Nat \ {0}
  OBVIOUS
<1>2. \A i \in DOMAIN Tail(ts) : i \in Nat \ {0} /\ i + 1 \in DOMAIN ts
                                 /\ Tail(ts)[i] = ts[i + 1]
  BY <1>1
<1>3. Head(ts) = ts[1] /\ 1 \in DOMAIN ts /\ ts[1] \in Task
  BY <1>1
<1>4. \A i \in DOMAIN ts : i \in Nat \ {0} /\ (i # 1 => i - 1 \in DOMAIN Tail(ts)
                                                     /\ Tail(ts)[i - 1] = ts[i])
  BY <1>1
<1>5. \A i \in RenderIn(Tail(ts)) : i \in Nat \ {0} /\ i + 1 \in RenderIn(ts)
  BY <1>2 DEF RenderIn
<1>6. \A i \in RenderIn(ts) : i # 1 => i - 1 \in RenderIn(Tail(ts))
  BY <1>4 DEF RenderIn
<1>7. Head(ts) = "render" => 1 \in RenderIn(ts)
  BY <1>3 DEF RenderIn
<1>8. Head(ts) # "render" => 1 \notin RenderIn(ts)
  BY <1>3 DEF RenderIn
<1>9. ASSUME NEW i \in RenderIn(Tail(ts)), NEW j \in RenderIn(Tail(ts))
      PROVE  i = j
  BY <1>5, i + 1 = j + 1
<1>10. Head(ts) = "render" => RenderIn(Tail(ts)) = {}
  BY <1>5, <1>7
<1>11. Head(ts) # "render" => (RenderIn(Tail(ts)) = {} <=> RenderIn(ts) = {})
  BY <1>5, <1>6, <1>8
<1> QED
  BY <1>1, <1>3, <1>9, <1>10, <1>11

----------------------------------------------------------------------------
(* What ensureRootIsScheduled leaves *)

LEMMA PriorityType == ASSUME NEW pl PROVE Priority(pl) \in Lanes \cup {NoLane}
  BY DEF Priority, Lanes, NoLane

\* If callback and places agree for the old priority they do for the new one.
LEMMA ScheduledAgain ==
    ASSUME NEW pl, NEW existing, NEW ts \in Seq(Task),
           syncQueue \in BOOLEAN,
           syncQueue => existing = "Sync",
           existing = "Sync" => syncQueue,
           RenderIn(ts) # {} <=> existing = "Default",
           \A i, j \in RenderIn(ts) : i = j,
           EnsureRootIsScheduled(pl, existing, ts),
           "Sync" \in pl \/ existing # "Sync"
    PROVE  /\ tasks' \in Seq(Task) /\ syncQueue' \in BOOLEAN
           /\ callbackPriority' = Priority(pl)
           /\ syncQueue' <=> callbackPriority' = "Sync"
           /\ RenderIn(tasks') # {} <=> callbackPriority' = "Default"
           /\ \A i, j \in RenderIn(tasks') : i = j
<1>1. callbackPriority' = Priority(pl) /\ Priority(pl) \in {"Sync", "Default", "NoLane"}
  BY PriorityType DEF EnsureRootIsScheduled, Lanes, NoLane
<1>2. syncQueue' \in BOOLEAN /\ (syncQueue' <=> callbackPriority' = "Sync")
  BY <1>1 DEF EnsureRootIsScheduled, Priority
<1>3. CASE Priority(pl) = existing
  <2>1. tasks' = ts
    BY <1>3 DEF EnsureRootIsScheduled
  <2> QED
    BY <1>1, <1>2, <1>3, <2>1
<1>4. CASE Priority(pl) # existing /\ Priority(pl) = "Default"
  <2>1. tasks' = Append(Cancel(ts), "render")
    BY <1>4 DEF EnsureRootIsScheduled
  <2>2. Cancel(ts) \in Seq(Task) /\ RenderIn(Cancel(ts)) = {} /\ "render" \in Task
    BY CancelRenders DEF Task
  <2>3. tasks' \in Seq(Task) /\ RenderIn(tasks') = {Len(Cancel(ts)) + 1}
    BY <2>1, <2>2, AppendRenders
  <2> QED
    BY <1>1, <1>2, <1>4, <2>3
<1>5. CASE Priority(pl) # existing /\ Priority(pl) # "Default"
  <2>1. tasks' = Cancel(ts)
    BY <1>5 DEF EnsureRootIsScheduled
  <2>2. Cancel(ts) \in Seq(Task) /\ RenderIn(Cancel(ts)) = {}
    BY CancelRenders
  <2> QED
    BY <1>1, <1>2, <1>5, <2>1, <2>2
<1> QED
  BY <1>3, <1>4, <1>5

----------------------------------------------------------------------------
LEMMA InitIInv == Init => IInv
<1> SUFFICES ASSUME Init PROVE IInv
  OBVIOUS
<1>1. TasksOK /\ Renders = {}
  BY DEF Init, TasksOK, Renders
<1> QED
  BY <1>1 DEF Init, IInv, LanesOK, WorkScheduled, Taken, Lanes, NoLane, Works, Priority

\* A handler or the system goes on without touching what is scheduled.
LEMMA KeepsIInv ==
    ASSUME IInv, UNCHANGED <<pendingLanes, lanes, callbackPriority, syncQueue, tasks>>,
           work' \in Works, eventLane' \in Lanes \cup {NoLane},
           work' = "handler" => eventLane' \in Lanes,
           \/ {work, work'} \subseteq {"idle", "handler", "effects"}
           \/ {work, work'} \subseteq Works \ {"idle", "handler", "effects"}
    PROVE  IInv'
<1>1. LanesOK'
  BY DEF IInv, LanesOK, TasksOK
<1>2. Renders' = Renders
  BY DEF Renders
<1>3. WorkScheduled' /\ Taken'
  BY <1>2 DEF IInv, WorkScheduled, Taken, Works
<1> QED
  BY <1>1, <1>3 DEF IInv

LEMMA DispatchIInv ==
    ASSUME IInv, NEW h \in Hooks, NEW a, Dispatch(h, a)
    PROVE  IInv'
<1>1. work = "handler" /\ UNCHANGED <<work, eventLane>> /\ eventLane \in Lanes
  BY DEF Dispatch, IInv, LanesOK
<1>2. CASE UNCHANGED <<lanes, altLanes, schedule>>
  BY <1>1, <1>2, KeepsIInv DEF schedule, Works
<1>3. CASE ~UNCHANGED <<lanes, altLanes, schedule>>
  <2>1. /\ lanes' = lanes \cup {eventLane}
        /\ pendingLanes' = pendingLanes \cup {eventLane}
        /\ EnsureRootIsScheduled(pendingLanes', callbackPriority, tasks)
    BY <1>3 DEF Dispatch
  <2>2. /\ tasks \in Seq(Task) /\ syncQueue \in BOOLEAN
        /\ pendingLanes = lanes
        /\ callbackPriority = Priority(pendingLanes)
        /\ syncQueue <=> callbackPriority = "Sync"
        /\ RenderIn(tasks) # {} <=> callbackPriority = "Default"
        /\ \A i, j \in RenderIn(tasks) : i = j
    BY <1>1 DEF IInv, LanesOK, TasksOK, Task, WorkScheduled, Renders, RenderIn
  <2>3. "Sync" \in pendingLanes' \/ callbackPriority # "Sync"
    BY <2>1, <2>2 DEF Priority, NoLane
  <2>4. /\ tasks' \in Seq(Task) /\ syncQueue' \in BOOLEAN
        /\ callbackPriority' = Priority(pendingLanes')
        /\ syncQueue' <=> callbackPriority' = "Sync"
        /\ RenderIn(tasks') # {} <=> callbackPriority' = "Default"
        /\ \A i, j \in RenderIn(tasks') : i = j
    BY <2>1, <2>2, <2>3, ScheduledAgain
  <2>5. LanesOK'
    BY <1>1, <2>1, <2>4 DEF IInv, LanesOK, TasksOK, Task
  <2>6. WorkScheduled' /\ Taken'
    BY <1>1, <2>1, <2>2, <2>4 DEF WorkScheduled, Taken, Renders, RenderIn
  <2> QED
    BY <2>5, <2>6 DEF IInv
<1> QED
  BY <1>2, <1>3

LEMMA FlushSyncIInv == IInv /\ FlushSyncCallbacks => IInv'
<1> SUFFICES ASSUME IInv, FlushSyncCallbacks PROVE IInv'
  OBVIOUS
<1>1. /\ work = "idle" /\ syncQueue /\ work' = "sync" /\ ~syncQueue' /\ syncQueue' \in BOOLEAN
      /\ UNCHANGED <<pendingLanes, lanes, callbackPriority, tasks, eventLane>>
  BY DEF FlushSyncCallbacks, queues
<1>2. LanesOK'
  BY <1>1 DEF IInv, LanesOK, TasksOK, Works
<1>3. Renders' = Renders /\ Renders = {}
  BY <1>1 DEF IInv, WorkScheduled, Renders
<1>4. WorkScheduled' /\ Taken'
  BY <1>1, <1>3 DEF IInv, WorkScheduled, Taken
<1> QED
  BY <1>2, <1>4 DEF IInv

LEMMA RunTaskIInv == IInv /\ RunTask => IInv'
<1> SUFFICES ASSUME IInv, RunTask PROVE IInv'
  OBVIOUS
<1>1. /\ work = "idle" /\ ~syncQueue /\ tasks # <<>>
      /\ work' = IF Head(tasks) = "cancelled" THEN "idle" ELSE Head(tasks)
      /\ tasks' = Tail(tasks)
      /\ UNCHANGED <<pendingLanes, lanes, callbackPriority, syncQueue, eventLane>>
  BY DEF RunTask, AtRest, queues
<1>2. tasks \in Seq(Task) /\ \A i, j \in RenderIn(tasks) : i = j
  BY DEF IInv, LanesOK, TasksOK, Task, WorkScheduled, Renders, RenderIn
<1>3. /\ tasks' \in Seq(Task)
      /\ Head(tasks) \in Task
      /\ Head(tasks) = "render" => RenderIn(tasks') = {}
      /\ Head(tasks) # "render" => (RenderIn(tasks') = {} <=> RenderIn(tasks) = {})
      /\ \A i, j \in RenderIn(tasks') : i = j
  BY <1>1, <1>2, TailRenders
<1>4. LanesOK'
  BY <1>1, <1>3 DEF IInv, LanesOK, TasksOK, Task, Works
<1>5. WorkScheduled' /\ Taken'
  BY <1>1, <1>3 DEF IInv, WorkScheduled, Taken, Renders, RenderIn, Task
<1> QED
  BY <1>4, <1>5 DEF IInv

LEMMA RenderIInv == IInv /\ Render => IInv'
<1> SUFFICES ASSUME IInv, Render PROVE IInv'
  OBVIOUS
<1> DEFINE ls == NextLanes(pendingLanes)
<1>1. /\ work \in {"sync render", "concurrent render"}
      /\ RenderHooks(ls) /\ Commit(ls) /\ work' = AfterCommit(passive')
      /\ eventLane' = eventLane
  BY DEF Render
<1>2. lanes' \subseteq Lanes /\ pendingLanes' = lanes'
  BY <1>1 DEF RenderHooks, SkippedLanes, Commit
<1>3. PICK ts \in {tasks, Append(tasks, "effects")} :
          EnsureRootIsScheduled(lanes', NoLane, ts)
  <2> DEFINE P(d) == LET has == d \/ marked' # {}
                     IN  EnsureRootIsScheduled(lanes', NoLane,
                            IF has THEN Append(tasks, "effects") ELSE tasks)
  <2>1. \E d \in {FALSE, memoizedState' # memoizedState} : P(d)
    BY <1>1 DEF Commit
  <2> QED
    BY <2>1
<1>4. tasks \in Seq(Task) /\ RenderIn(tasks) = {} /\ ~syncQueue
  BY <1>1 DEF IInv, LanesOK, TasksOK, Task, Taken, Renders, RenderIn
<1>5. ts \in Seq(Task) /\ RenderIn(ts) = {}
  BY <1>4, AppendRenders DEF Task
<1>6. /\ tasks' \in Seq(Task) /\ syncQueue' \in BOOLEAN
      /\ callbackPriority' = Priority(lanes')
      /\ syncQueue' <=> callbackPriority' = "Sync"
      /\ RenderIn(tasks') # {} <=> callbackPriority' = "Default"
      /\ \A i, j \in RenderIn(tasks') : i = j
  <2>1. NoLane # "Sync" /\ NoLane # "Default"
    BY DEF NoLane
  <2>2. syncQueue \in BOOLEAN
    BY DEF IInv, LanesOK
  <2>3. \A i, j \in RenderIn(ts) : i = j
    BY <1>5
  <2> QED
    BY <1>3, <1>4, <1>5, <2>1, <2>2, <2>3, ScheduledAgain
<1>7. work' \in {"idle", "effects"}
  BY <1>1 DEF AfterCommit
<1>8. LanesOK'
  BY <1>1, <1>2, <1>6, <1>7 DEF IInv, LanesOK, TasksOK, Task, Works
<1>9. WorkScheduled' /\ Taken'
  BY <1>2, <1>6, <1>7 DEF WorkScheduled, Taken, Renders, RenderIn
<1> QED
  BY <1>8, <1>9 DEF IInv

LEMMA NextIInv == IInv /\ [Next]_vars => IInv'
<1> SUFFICES ASSUME IInv, [Next]_vars PROVE IInv'
  OBVIOUS
<1>0. /\ work \in Works /\ eventLane \in Lanes \cup {NoLane}
      /\ work = "handler" => eventLane \in Lanes
  BY DEF IInv, LanesOK
<1>1. CASE \E lane \in Lanes : BeginEvent(lane)
  BY <1>1, KeepsIInv DEF BeginEvent, AtRest, queues, schedule, Works
<1>2. CASE \E h \in Hooks : \E a \in Acts[h] : Dispatch(h, a)
  BY <1>2, DispatchIInv
<1>3. CASE EndEvent
  BY <1>3, KeepsIInv DEF EndEvent, queues, schedule, Works
<1>4. CASE FlushSyncCallbacks
  BY <1>4, FlushSyncIInv
<1>5. CASE RunTask
  BY <1>5, RunTaskIInv
<1>6. CASE EffectsTask
  BY <1>0, <1>6, KeepsIInv DEF EffectsTask, queues, schedule, Works
<1>7. CASE FlushFirst
  BY <1>0, <1>7, KeepsIInv DEF FlushFirst, queues, schedule, Works
<1>8. CASE Render
  BY <1>8, RenderIInv
<1>9. CASE UNCHANGED vars
  BY <1>0, <1>9, KeepsIInv DEF vars, queues, schedule, Works
<1> QED
  BY <1>1, <1>2, <1>3, <1>4, <1>5, <1>6, <1>7, <1>8, <1>9 DEF Next, Handler, System

\* Pending work always has its callback, for any component.
THEOREM WorkAlwaysScheduled == Spec => []WorkScheduled
<1>1. IInv => WorkScheduled
  BY DEF IInv
<1> QED
  BY InitIInv, NextIInv, <1>1, PTL DEF Spec

----------------------------------------------------------------------------
(* Effects *)

\* Effects that are not to run have seen the state; none are to run when a render
\* begins, and those of a Sync commit run at once.
EffectsInv ==
    /\ \A e \in Effects : e \notin marked => seen[e] = Inputs(e, memoizedState)
    /\ work \in {"sync render", "concurrent render"} => marked = {} /\ passive = {}
    /\ work # "effects" => passive \subseteq {"Default"}

LEMMA FlushEffects ==
    ASSUME EffectsInv, FlushPassiveEffects, memoizedState' = memoizedState
    PROVE  EffectsInv'
<1>1. marked' = {} /\ passive' = {}
  BY DEF FlushPassiveEffects
<1>2. ASSUME NEW e \in Effects
      PROVE  seen'[e] = Inputs(e, memoizedState')
  BY <1>2 DEF FlushPassiveEffects, EffectsInv, Inputs
<1> QED
  BY <1>1, <1>2 DEF EffectsInv

LEMMA RenderEffects == ASSUME EffectsInv, LanesOK, Render PROVE EffectsInv'
<1>1. /\ marked = {}
      /\ seen' = seen
      /\ marked' = Changed(memoizedState, memoizedState')
      /\ passive' \in {NextLanes(pendingLanes), {}}
      /\ work' = AfterCommit(passive')
  BY DEF EffectsInv, Render, Commit
<1>2. ASSUME NEW e \in Effects, e \notin marked'
      PROVE  seen'[e] = Inputs(e, memoizedState')
  BY <1>1, <1>2 DEF EffectsInv, Changed
<1>3. work' = "effects" \/ (work' = "idle" /\ "Sync" \notin passive')
  BY <1>1 DEF AfterCommit
<1>4. passive' \subseteq Lanes
  BY <1>1 DEF LanesOK, NextLanes, Lanes
<1> QED
  BY <1>2, <1>3, <1>4 DEF EffectsInv, Lanes

LEMMA NextEffects == IInv /\ EffectsInv /\ [Next]_vars => EffectsInv'
<1> SUFFICES ASSUME IInv, EffectsInv, [Next]_vars PROVE EffectsInv'
  OBVIOUS
<1>1. ASSUME UNCHANGED <<memoizedState, effects>>,
             work' \notin {"sync render", "concurrent render", work},
             work # "effects"
      PROVE  EffectsInv'
  BY <1>1 DEF EffectsInv, effects, Inputs
<1>2. CASE UNCHANGED <<memoizedState, effects, work>>
  BY <1>2 DEF EffectsInv, effects, Inputs
<1>3. CASE \E lane \in Lanes : BeginEvent(lane)
  BY <1>1, <1>3 DEF BeginEvent, AtRest, queues
<1>4. CASE \E h \in Hooks : \E a \in Acts[h] : Dispatch(h, a)
  BY <1>2, <1>4 DEF Dispatch
<1>5. CASE EndEvent
  BY <1>1, <1>5 DEF EndEvent, queues
<1>6. CASE FlushSyncCallbacks
  BY <1>1, <1>6 DEF FlushSyncCallbacks, queues
<1>7. CASE RunTask
  <2>1. work = "idle" /\ UNCHANGED <<memoizedState, effects>>
    BY <1>7 DEF RunTask, AtRest, queues
  <2>2. tasks \in Seq(Task) /\ tasks # <<>> /\ \A i, j \in RenderIn(tasks) : i = j
    BY <1>7 DEF IInv, LanesOK, TasksOK, Task, WorkScheduled, Renders, RenderIn, RunTask
  <2>3. Head(tasks) \in Task
    BY <2>2, TailRenders
  <2>4. work' \in {"idle", "render", "effects"}
    BY <1>7, <2>3 DEF RunTask, Task
  <2> QED
    BY <1>1, <1>2, <2>1, <2>4
<1>8. CASE EffectsTask
  BY <1>8, FlushEffects DEF EffectsTask, queues
<1>9. CASE FlushFirst
  BY <1>9, FlushEffects DEF FlushFirst, queues
<1>10. CASE Render
  BY <1>10, RenderEffects DEF IInv
<1>11. CASE UNCHANGED vars
  BY <1>2, <1>11 DEF vars, queues
<1> QED
  BY <1>3, <1>4, <1>5, <1>6, <1>7, <1>8, <1>9, <1>10, <1>11 DEF Next, Handler, System

LEMMA InitEffects == Init => EffectsInv
  BY DEF Init, EffectsInv, Inputs

LEMMA AlwaysEffects == Spec => []EffectsInv
  BY InitIInv, NextIInv, InitEffects, NextEffects, PTL DEF Spec

\* When an event comes, the effects of every click before it have run.
THEOREM ClickEffectsAlwaysDone == Spec => []ClickEffectsDone
<1>1. EffectsInv => ClickEffectsDone
  BY DEF EffectsInv, ClickEffectsDone, AtRest
<1> QED
  BY <1>1, AlwaysEffects, PTL

\* No state is shown that the effects never get to see.
THEOREM EffectsNeverOvertaken == Spec => NoEffectOvertaken
<1>1. ASSUME EffectsInv, [Next]_vars
      PROVE  [memoizedState' # memoizedState =>
                 \A e \in Effects : seen[e] = Inputs(e, memoizedState)]_vars
  <2>1. CASE Render
    BY <1>1, <2>1 DEF EffectsInv, Render
  <2>2. CASE ~Render
    BY <1>1, <2>2 DEF Next, Handler, System, BeginEvent, Dispatch, EndEvent,
       FlushSyncCallbacks, RunTask, EffectsTask, FlushFirst, vars, queues
  <2> QED
    BY <2>1, <2>2
<1> QED
  BY <1>1, AlwaysEffects, PTL DEF Spec, NoEffectOvertaken

----------------------------------------------------------------------------
(* What the updates in a queue mean *)

Updates == [lane : Lanes \cup {NoLane}, action : [Vals -> Vals],
            hasEagerState : BOOLEAN, eagerState : Vals]

\* What was computed when u was made is right, and u leaves v as it is.
Idle(u, v) == u.hasEagerState /\ u.eagerState = v /\ u.action[v] = v

\* An eager state is that of a queue in which nothing before it changes v.
Sound(q, v) ==
    \A i \in 1 .. Len(q) : q[i].hasEagerState =>
        /\ q[i].eagerState = q[i].action[v]
        /\ \A j \in 1 .. i - 1 : Idle(q[j], v)

Meanings(q, ls) == [i \in 1 .. Len(q) |-> Meant(q[i], ls)]
Means(q, v, ls) == Outcome(Meanings(q, ls), v)

LEMMA MeaningsLen ==
    ASSUME NEW q \in Seq(Updates), NEW ls
    PROVE  Len(q) \in Nat /\ Len(Meanings(q, ls)) = Len(q)
  BY DEF Meanings

\* An update applies its action, or nothing.
LEMMA MeantType ==
    ASSUME NEW u \in Updates, NEW ls
    PROVE  /\ Meant(u, ls) \in [Vals -> Vals]
           /\ \A s \in Vals : Meant(u, ls)[s] =
                 IF u.lane \in ls \cup {NoLane} THEN u.action[s] ELSE s
  BY DEF Meant, Updates

LEMMA MeansType ==
    ASSUME NEW q \in Seq(Updates), NEW v \in Vals, NEW ls
    PROVE  /\ Means(q, v, ls) \in Vals
           /\ \A n \in 0 .. Len(q) : Through(Meanings(q, ls), v)[n] \in Vals
<1>1. \A n \in 1 .. Len(q) : Meanings(q, ls)[n] \in [Vals -> Vals]
  BY MeantType DEF Meanings
<1> QED
  BY <1>1, MeaningsLen, ThroughType DEF Means

\* Values that two loops over q have reached after n steps, the same and, if
\* nothing so far changes v, still v.
Agree(q, v) ==
    {r \in (0 .. Len(q)) \X Vals \X Vals :
        r[2] = r[3] /\ ((\A j \in 1 .. r[1] : Idle(q[j], v)) => r[2] = v)}

\* Steps that apply the actions of q or nothing.
StepsOf(fs, q, v) ==
    /\ Len(fs) = Len(q)
    /\ \A n \in 1 .. Len(q) : \A s \in Vals : fs[n][s] \in {s, q[n].action[s]}
    /\ \A n \in 1 .. Len(q) : Idle(q[n], v) => fs[n][v] = v

\* Steps that give the same where the loops can be.
SameSteps(fs, gs, q, v) ==
    /\ Len(gs) = Len(q)
    /\ \A n \in 1 .. Len(q) : \A s \in Vals :
          ((\A j \in 1 .. n - 1 : Idle(q[j], v)) => s = v) => fs[n][s] = gs[n][s]

LEMMA AgreeStep ==
    ASSUME NEW q \in Seq(Updates), NEW v \in Vals, NEW fs, NEW gs,
           StepsOf(fs, q, v), SameSteps(fs, gs, q, v)
    PROVE  /\ Outcome(fs, v) = Outcome(gs, v)
           /\ (\A j \in 1 .. Len(q) : Idle(q[j], v)) => Outcome(fs, v) = v
<1>0. Len(fs) = Len(q) /\ Len(gs) = Len(q)
  BY DEF StepsOf, SameSteps
<1>1. <<0, v, v>> \in Agree(q, v)
  BY DEF Agree
<1>2. ASSUME NEW n \in 1 .. Len(fs), NEW x, NEW y, <<n - 1, x, y>> \in Agree(q, v)
      PROVE  <<n, fs[n][x], gs[n][y]>> \in Agree(q, v)
  <2>1. /\ x \in Vals /\ y = x
        /\ (\A j \in 1 .. n - 1 : Idle(q[j], v)) => x = v
    BY <1>0, <1>2 DEF Agree
  <2>2. fs[n][x] = gs[n][y]
    BY <1>0, <2>1 DEF SameSteps
  <2>3. fs[n][x] \in Vals
    <3>1. q[n] \in Updates
      BY <1>0
    <3>2. q[n].action[x] \in Vals
      BY <2>1, <3>1 DEF Updates
    <3> QED
      BY <1>0, <2>1, <3>2 DEF StepsOf
  <2>4. (\A j \in 1 .. n : Idle(q[j], v)) => fs[n][x] = v
    <3>1. (\A j \in 1 .. n : Idle(q[j], v)) =>
              (\A j \in 1 .. n - 1 : Idle(q[j], v)) /\ Idle(q[n], v)
      BY <1>0
    <3> QED
      BY <1>0, <2>1, <3>1 DEF StepsOf
  <2> QED
    BY <1>0, <2>1, <2>2, <2>3, <2>4 DEF Agree
<1>3. <<Len(fs), Outcome(fs, v), Outcome(gs, v)>> \in Agree(q, v)
  <2>1. Len(fs) \in Nat /\ Len(gs) = Len(fs)
    BY <1>0
  <2> QED
    BY <1>1, <1>2, <2>1, LoopsRelated
<1> QED
  BY <1>0, <1>3 DEF Agree

\* What a render shows is what the updates mean: the states computed early are
\* those that the actions would give.
LEMMA ApplyMeans ==
    ASSUME NEW q \in Seq(Updates), NEW v \in Vals, Sound(q, v), NEW ls
    PROVE  ApplyAll(v, q, ls) = Means(q, v, ls)
<1> DEFINE fs == Meanings(q, ls)
           gs == [i \in 1 .. Len(q) |-> Shown(q[i], ls)]
<1>1. Len(fs) = Len(q) /\ Len(gs) = Len(q)
  BY MeaningsLen
<1>2. ASSUME NEW n \in 1 .. Len(q), NEW s \in Vals
      PROVE  /\ fs[n][s] \in {s, q[n].action[s]}
             /\ ((\A j \in 1 .. n - 1 : Idle(q[j], v)) => s = v) => fs[n][s] = gs[n][s]
  <2>1. q[n] \in Updates
    OBVIOUS
  <2>2. fs[n][s] = IF q[n].lane \in ls \cup {NoLane} THEN q[n].action[s] ELSE s
    BY <2>1, MeantType DEF Meanings
  <2>3. gs[n][s] = IF q[n].lane \notin ls \cup {NoLane} THEN s
                   ELSE IF q[n].hasEagerState THEN q[n].eagerState ELSE q[n].action[s]
    BY DEF Shown
  <2> HIDE DEF fs, gs
  <2>4. q[n].hasEagerState => /\ q[n].eagerState = q[n].action[v]
                              /\ \A j \in 1 .. n - 1 : Idle(q[j], v)
    BY DEF Sound
  <2> QED
    BY <2>2, <2>3, <2>4
<1>3. ASSUME NEW n \in 1 .. Len(q), Idle(q[n], v) PROVE fs[n][v] = v
  BY <1>3, MeantType DEF Meanings, Idle
<1> HIDE DEF fs, gs
<1>4. StepsOf(fs, q, v)
  BY <1>1, <1>2, <1>3 DEF StepsOf
<1>5. SameSteps(fs, gs, q, v)
  BY <1>1, <1>2 DEF SameSteps
<1>6. Outcome(fs, v) = Outcome(gs, v)
  BY <1>4, <1>5, AgreeStep
<1> QED
  BY <1>6 DEF ApplyAll, Means, fs, gs

\* Updates that change nothing mean nothing.
LEMMA IdleMeans ==
    ASSUME NEW q \in Seq(Updates), NEW v \in Vals, NEW ls,
           \A i \in 1 .. Len(q) : Idle(q[i], v)
    PROVE  Means(q, v, ls) = v
<1> DEFINE fs == Meanings(q, ls)
<1>1. Len(fs) = Len(q)
  BY MeaningsLen
<1>2. ASSUME NEW n \in 1 .. Len(q)
      PROVE  /\ \A s \in Vals : fs[n][s] \in {s, q[n].action[s]}
             /\ fs[n][v] = v
  BY MeantType DEF Meanings, Idle
<1> HIDE DEF fs
<1>3. StepsOf(fs, q, v) /\ SameSteps(fs, fs, q, v)
  BY <1>1, <1>2 DEF StepsOf, SameSteps
<1>4. Outcome(fs, v) = v
  BY <1>3, AgreeStep
<1> QED
  BY <1>4 DEF Means, fs

\* A lane whose updates change nothing may be left out.
LEMMA LaneOfIdle ==
    ASSUME NEW q \in Seq(Updates), NEW v \in Vals, Sound(q, v), NEW lane,
           \A i \in 1 .. Len(q) : q[i].lane = lane => Idle(q[i], v)
    PROVE  Means(q, v, {lane}) = Means(q, v, {})
<1> DEFINE fs == Meanings(q, {lane})
           gs == Meanings(q, {})
<1>1. Len(fs) = Len(q) /\ Len(gs) = Len(q)
  BY MeaningsLen
<1>2. ASSUME NEW n \in 1 .. Len(q), NEW s \in Vals
      PROVE  /\ fs[n][s] = IF q[n].lane \in {lane, NoLane} THEN q[n].action[s] ELSE s
             /\ gs[n][s] = IF q[n].lane = NoLane THEN q[n].action[s] ELSE s
  BY MeantType DEF Meanings
<1>3. ASSUME NEW n \in 1 .. Len(q), NEW s \in Vals
      PROVE  ((\A j \in 1 .. n - 1 : Idle(q[j], v)) => s = v) => fs[n][s] = gs[n][s]
  <2> HIDE DEF fs, gs
  <2> SUFFICES ASSUME (\A j \in 1 .. n - 1 : Idle(q[j], v)) => s = v
               PROVE  fs[n][s] = gs[n][s]
    OBVIOUS
  <2>1. CASE q[n].lane = lane
    <3>1. Idle(q[n], v) /\ \A j \in 1 .. n - 1 : Idle(q[j], v)
      BY <2>1 DEF Sound, Idle
    <3> QED
      BY <1>2, <3>1 DEF Idle
  <2>2. CASE q[n].lane # lane
    BY <1>2, <2>2
  <2> QED
    BY <2>1, <2>2
<1>4. ASSUME NEW n \in 1 .. Len(q), Idle(q[n], v) PROVE fs[n][v] = v
  <2> HIDE DEF fs, gs
  <2> QED
    BY <1>2, <1>4 DEF Idle
<1> HIDE DEF fs, gs
<1>5. StepsOf(fs, q, v)
  BY <1>1, <1>2, <1>4 DEF StepsOf
<1>6. SameSteps(fs, gs, q, v)
  BY <1>1, <1>3 DEF SameSteps
<1>7. Outcome(fs, v) = Outcome(gs, v)
  BY <1>5, <1>6, AgreeStep
<1> QED
  BY <1>7 DEF Means, fs, gs

\* One more update is applied to what the others mean.
LEMMA MeansAppend ==
    ASSUME NEW q \in Seq(Updates), NEW v \in Vals, NEW u \in Updates, NEW ls
    PROVE  Means(Append(q, u), v, ls) =
              IF u.lane \in ls \cup {NoLane} THEN u.action[Means(q, v, ls)]
                                             ELSE Means(q, v, ls)
<1> DEFINE fs == Meanings(q, ls)
           gs == Meanings(Append(q, u), ls)
<1>1. Append(q, u) \in Seq(Updates) /\ Len(Append(q, u)) = Len(q) + 1
  OBVIOUS
<1>2. Len(fs) = Len(q) /\ Len(gs) = Len(q) + 1 /\ Len(q) \in Nat
  BY <1>1, MeaningsLen
<1>3. \A n \in 1 .. Len(q) : gs[n] = fs[n]
  BY <1>1 DEF Meanings
<1>4. gs[Len(q) + 1] = Meant(u, ls)
  BY <1>1 DEF Meanings
<1> HIDE DEF fs, gs
<1>5. Outcome(gs, v) = gs[Len(gs)][Outcome(fs, v)]
  BY <1>2, <1>3, OutcomeAppend
<1>6. Outcome(gs, v) = Meant(u, ls)[Outcome(fs, v)]
  BY <1>2, <1>4, <1>5
<1>7. Means(Append(q, u), v, ls) = Meant(u, ls)[Means(q, v, ls)]
  BY <1>6 DEF Means, fs, gs
<1> QED
  BY <1>7, MeansType, MeantType

\* An eager state is computed when all updates before it change nothing.
LEMMA SoundAppend ==
    ASSUME NEW q \in Seq(Updates), NEW v, NEW u \in Updates, Sound(q, v),
           u.hasEagerState => /\ u.eagerState = u.action[v]
                              /\ \A i \in 1 .. Len(q) : Idle(q[i], v)
    PROVE  Sound(Append(q, u), v)
<1>1. /\ Len(Append(q, u)) = Len(q) + 1 /\ Len(q) \in Nat
      /\ \A i \in 1 .. Len(q) : Append(q, u)[i] = q[i]
      /\ Append(q, u)[Len(q) + 1] = u
  OBVIOUS
<1> DEFINE p == Append(q, u)
<1> HIDE DEF p
<1>2. ASSUME NEW i \in 1 .. Len(p), p[i].hasEagerState
      PROVE  p[i].eagerState = p[i].action[v] /\ \A j \in 1 .. i - 1 : Idle(p[j], v)
  <2>1. CASE i = Len(q) + 1
    BY <1>1, <1>2, <2>1 DEF p
  <2>2. CASE i # Len(q) + 1
    <3>1. i \in 1 .. Len(q) /\ p[i] = q[i]
      BY <1>1, <2>2 DEF p
    <3>2. \A j \in 1 .. i - 1 : p[j] = q[j]
      BY <1>1, <3>1 DEF p
    <3> QED
      BY <1>2, <3>1, <3>2 DEF Sound
  <2> QED
    BY <2>1, <2>2
<1>3. Sound(p, v)
  BY <1>2 DEF Sound
<1> QED
  BY <1>3 DEF p

----------------------------------------------------------------------------
(* What a render leaves in a queue *)

\* The first update skipped.
LEMMA FirstSkipped ==
    ASSUME NEW q \in Seq(Updates), NEW ls, Skipped(q, ls) # {}
    PROVE  /\ Min(Skipped(q, ls)) \in 1 .. Len(q)
           /\ q[Min(Skipped(q, ls))].lane \notin ls \cup {NoLane}
           /\ \A i \in 1 .. Min(Skipped(q, ls)) - 1 : q[i].lane \in ls \cup {NoLane}
<1>1. Skipped(q, ls) \subseteq 1 .. Len(q) /\ Len(q) \in Nat
  BY DEF Skipped
<1> DEFINE T == Skipped(q, ls)
<1> HIDE DEF T
<1>2. \E n \in T : \A y \in T : n <= y
  BY <1>1, Smallest DEF T
<1>3. Min(T) \in T /\ \A y \in T : Min(T) <= y
  BY <1>2 DEF Min
<1>4. Min(T) \in 1 .. Len(q) /\ q[Min(T)].lane \notin ls \cup {NoLane}
  BY <1>3 DEF T, Skipped
<1>5. ASSUME NEW i \in 1 .. Min(T) - 1 PROVE q[i].lane \in ls \cup {NoLane}
  <2>1. i \in 1 .. Len(q) /\ ~ (Min(T) <= i)
    BY <1>1, <1>4
  <2>2. i \notin T
    BY <1>3, <2>1
  <2> QED
    BY <2>1, <2>2 DEF T, Skipped
<1> QED
  BY <1>4, <1>5 DEF T

\* The updates before the first one skipped.
LEMMA Before ==
    ASSUME NEW q \in Seq(Updates), NEW k \in 0 .. Len(q), NEW v, Sound(q, v)
    PROVE  /\ SubSeq(q, 1, k) \in Seq(Updates)
           /\ Len(SubSeq(q, 1, k)) = k
           /\ \A i \in 1 .. k : SubSeq(q, 1, k)[i] = q[i]
           /\ Sound(SubSeq(q, 1, k), v)
<1> DEFINE p == SubSeq(q, 1, k)
<1>1. p \in Seq(Updates) /\ Len(p) = k /\ \A i \in 1 .. k : p[i] = q[i]
  OBVIOUS
<1> HIDE DEF p
<1>2. k <= Len(q) /\ Len(q) \in Nat /\ k \in Nat
  OBVIOUS
<1>3. Sound(p, v)
  BY <1>1, <1>2 DEF Sound
<1> QED
  BY <1>1, <1>3 DEF p

LEMMA AsSequence ==
    ASSUME NEW S, NEW n \in Nat, NEW f \in [1 .. n -> S]
    PROVE  f \in Seq(S) /\ Len(f) = n
  OBVIOUS

\* What is left of the queue, from the first update skipped on.
LEMMA RestElements ==
    ASSUME NEW q \in Seq(Updates), NEW ls \in SUBSET Lanes, Skipped(q, ls) # {},
           NEW k, k = Min(Skipped(q, ls)) - 1
    PROVE  /\ k \in 0 .. Len(q) - 1
           /\ Rest(q, ls) \in Seq(Updates)
           /\ Len(Rest(q, ls)) = Len(q) - k
           /\ \A i \in 1 .. Len(q) - k :
                 /\ k + i \in 1 .. Len(q)
                 /\ Rest(q, ls)[i].lane =
                       IF q[k + i].lane \in ls THEN NoLane ELSE q[k + i].lane
                 /\ Rest(q, ls)[i].action = q[k + i].action
                 /\ Rest(q, ls)[i].hasEagerState = q[k + i].hasEagerState
                 /\ Rest(q, ls)[i].eagerState = q[k + i].eagerState
<1> DEFINE n == Min(Skipped(q, ls))
           r == [i \in 1 .. Len(q) - n + 1 |->
                   IF q[n + i - 1].lane \in ls
                   THEN [q[n + i - 1] EXCEPT !.lane = NoLane] ELSE q[n + i - 1]]
<1>1. Rest(q, ls) = r
  BY DEF Rest
<1>2. n \in 1 .. Len(q) /\ Len(q) \in Nat /\ n = k + 1
  BY FirstSkipped
<1> HIDE DEF n
<1>3. ASSUME NEW i \in 1 .. Len(q) - k
      PROVE  /\ k + i \in 1 .. Len(q)
             /\ r[i] \in Updates
             /\ r[i].lane = IF q[k + i].lane \in ls THEN NoLane ELSE q[k + i].lane
             /\ r[i].action = q[k + i].action
             /\ r[i].hasEagerState = q[k + i].hasEagerState
             /\ r[i].eagerState = q[k + i].eagerState
  <2>1. k + i \in 1 .. Len(q) /\ n + i - 1 = k + i /\ i \in 1 .. Len(q) - n + 1
    BY <1>2
  <2>2. q[k + i] \in Updates
    BY <2>1
  <2>3. r[i] = IF q[k + i].lane \in ls THEN [q[k + i] EXCEPT !.lane = NoLane] ELSE q[k + i]
    BY <2>1
  <2> HIDE DEF r
  <2> QED
    BY <2>1, <2>2, <2>3 DEF Updates
<1>4. r \in Seq(Updates) /\ Len(r) = Len(q) - k
  <2>1. Len(q) - n + 1 \in Nat /\ Len(q) - n + 1 = Len(q) - k
    BY <1>2
  <2>2. r \in [1 .. Len(q) - n + 1 -> Updates]
    BY <1>3, <2>1
  <2> HIDE DEF r
  <2> QED
    BY <2>1, <2>2, AsSequence
<1> HIDE DEF r
<1> QED
  BY <1>1, <1>2, <1>3, <1>4

\* Of the updates left, some are those of lanes not rendered, the first among
\* them, and none are of a lane that was.
LEMMA RestLanes ==
    ASSUME NEW q \in Seq(Updates), NEW ls \in SUBSET Lanes
    PROVE  /\ Rest(q, ls) \in Seq(Updates)
           /\ \A i \in 1 .. Len(Rest(q, ls)) :
                 Rest(q, ls)[i].lane # NoLane =>
                    \E j \in 1 .. Len(q) : /\ q[j].lane = Rest(q, ls)[i].lane
                                           /\ q[j].lane \in Lanes \ ls
           /\ Rest(q, ls) # <<>> => Rest(q, ls)[1].lane # NoLane
<1>1. CASE Skipped(q, ls) = {}
  BY <1>1 DEF Rest
<1>2. CASE Skipped(q, ls) # {}
  <2> DEFINE k == Min(Skipped(q, ls)) - 1
             p == Rest(q, ls)
  <2>1. /\ k \in 0 .. Len(q) - 1 /\ p \in Seq(Updates) /\ Len(p) = Len(q) - k
        /\ \A i \in 1 .. Len(q) - k :
              /\ k + i \in 1 .. Len(q)
              /\ p[i].lane = IF q[k + i].lane \in ls THEN NoLane ELSE q[k + i].lane
    BY <1>2, RestElements
  <2>2. q[k + 1].lane \notin ls \cup {NoLane}
    BY <1>2, FirstSkipped
  <2> HIDE DEF k, p
  <2>3. ASSUME NEW i \in 1 .. Len(p), p[i].lane # NoLane
        PROVE  \E j \in 1 .. Len(q) : q[j].lane = p[i].lane /\ q[j].lane \in Lanes \ ls
    <3>1. k + i \in 1 .. Len(q) /\ q[k + i].lane = p[i].lane /\ q[k + i].lane \notin ls
      BY <2>1, <2>3
    <3>2. q[k + i] \in Updates
      BY <3>1
    <3>3. q[k + i].lane \in Lanes \cup {NoLane}
      BY <3>2 DEF Updates
    <3> QED
      BY <2>3, <3>1, <3>3
  <2>4. p[1].lane # NoLane
    BY <2>1, <2>2
  <2> QED
    BY <2>1, <2>3, <2>4 DEF p
<1> QED
  BY <1>1, <1>2

\* A render changes neither what the updates mean together nor what they mean
\* without the lanes not rendered: those it has shown count from then on as
\* shown, and where they come after one skipped they stay to be shown again.
LEMMA RenderMeans ==
    ASSUME NEW q \in Seq(Updates), NEW v \in Vals, Sound(q, v),
           NEW ls \in SUBSET Lanes
    PROVE  /\ BaseOf(v, q, ls) \in Vals
           /\ Sound(Rest(q, ls), BaseOf(v, q, ls))
           /\ \A X \in SUBSET Lanes :
                 Means(Rest(q, ls), BaseOf(v, q, ls), X) = Means(q, v, X \cup ls)
<1>1. CASE Skipped(q, ls) = {}
  <2>1. Rest(q, ls) = <<>> /\ BaseOf(v, q, ls) = Means(q, v, ls)
    BY <1>1, ApplyMeans DEF Rest, BaseOf
  <2>2. Sound(Rest(q, ls), BaseOf(v, q, ls))
    BY <2>1 DEF Sound
  <2>3. ASSUME NEW X \in SUBSET Lanes
        PROVE  Means(q, v, ls) = Means(q, v, X \cup ls)
    <3>1. \A i \in 1 .. Len(q) : q[i].lane \in ls \cup {NoLane}
      BY <1>1 DEF Skipped
    <3>2. Meanings(q, ls) = Meanings(q, X \cup ls)
      BY <3>1 DEF Meanings, Meant
    <3> QED
      BY <3>2 DEF Means
  <2>4. \A w, X : Means(<<>>, w, X) = w
    <3> TAKE w, X
    <3>1. Len(Meanings(<<>>, X)) = 0
      BY DEF Meanings
    <3> QED
      BY <3>1, ThroughSteps DEF Means, Outcome
  <2> QED
    BY <2>1, <2>2, <2>3, <2>4, MeansType
<1>2. CASE Skipped(q, ls) # {}
  <2> DEFINE k == Min(Skipped(q, ls)) - 1
             p == Rest(q, ls)
             b == SubSeq(q, 1, k)
             w == BaseOf(v, q, ls)
  <2>1. /\ k \in 0 .. Len(q) - 1 /\ p \in Seq(Updates) /\ Len(p) = Len(q) - k
        /\ \A i \in 1 .. Len(q) - k :
              /\ k + i \in 1 .. Len(q)
              /\ p[i].lane = IF q[k + i].lane \in ls THEN NoLane ELSE q[k + i].lane
              /\ p[i].action = q[k + i].action
              /\ p[i].hasEagerState = q[k + i].hasEagerState
              /\ p[i].eagerState = q[k + i].eagerState
    BY <1>2, RestElements
  <2>2. \A i \in 1 .. k : q[i].lane \in ls \cup {NoLane}
    BY <1>2, FirstSkipped
  <2>3. w = ApplyAll(v, b, ls)
    BY <1>2 DEF BaseOf
  <2>4. Len(q) \in Nat /\ k \in 0 .. Len(q)
    BY <2>1
  <2> HIDE DEF k, p, w
  <2>5. /\ b \in Seq(Updates) /\ Len(b) = k /\ Sound(b, v)
        /\ \A i \in 1 .. k : b[i] = q[i]
    BY <2>4, Before
  <2> HIDE DEF b
  <2>6. w = Means(b, v, ls) /\ w \in Vals
    BY <2>3, <2>5, ApplyMeans, MeansType
  <2>7. ASSUME NEW X \in SUBSET Lanes
        PROVE  Means(p, w, X) = Means(q, v, X \cup ls)
    <3> DEFINE fs == Meanings(q, X \cup ls)
               gs == Meanings(p, X)
               bs == Meanings(b, ls)
    <3>1. Len(fs) = Len(q) /\ Len(gs) = Len(q) - k /\ Len(bs) = k
      BY <2>1, <2>5, MeaningsLen
    <3>2. \A n \in 1 .. k : bs[n] = fs[n]
      BY <2>2, <2>4, <2>5 DEF Meanings, Meant
    <3>3. \A n \in 1 .. Len(q) - k : gs[n] = fs[k + n]
      <4> TAKE n \in 1 .. Len(q) - k
      <4>1. gs[n] = Meant(p[n], X) /\ fs[k + n] = Meant(q[k + n], X \cup ls)
        BY <2>1 DEF Meanings
      <4>2. p[n].lane \in X \cup {NoLane} <=> q[k + n].lane \in (X \cup ls) \cup {NoLane}
        BY <2>1, NoLane \notin Lanes DEF NoLane, Lanes
      <4> QED
        BY <2>1, <4>1, <4>2 DEF Meant
    <3> HIDE DEF fs, gs, bs
    <3>4. w = Through(fs, v)[k]
      <4>1. Through(bs, v)[k] = Through(fs, v)[k]
        BY <2>4, <3>1, <3>2, SamePrefix
      <4> QED
        BY <2>6, <3>1, <4>1 DEF Means, Outcome, bs
    <3>5. Outcome(fs, v) = Outcome(gs, Through(fs, v)[k])
      BY <2>4, <3>1, <3>3, OutcomeSplit
    <3> QED
      BY <3>4, <3>5 DEF Means, fs, gs
  <2>8. ASSUME NEW i \in 1 .. Len(p), p[i].hasEagerState
        PROVE  p[i].eagerState = p[i].action[w] /\ \A j \in 1 .. i - 1 : Idle(p[j], w)
    <3>1. k + i \in 1 .. Len(q) /\ q[k + i].hasEagerState
      BY <2>1, <2>8
    <3>2. /\ q[k + i].eagerState = q[k + i].action[v]
          /\ \A j \in 1 .. (k + i) - 1 : Idle(q[j], v)
      BY <3>1 DEF Sound
    <3>3. \A j \in 1 .. k : Idle(b[j], v)
      BY <2>4, <2>5, <3>1, <3>2
    <3>4. w = v
      BY <2>5, <2>6, <3>3, IdleMeans
    <3>5. ASSUME NEW j \in 1 .. i - 1 PROVE Idle(p[j], v)
      <4>1. k + j \in 1 .. (k + i) - 1 /\ j \in 1 .. Len(q) - k
        BY <2>1, <2>4
      <4>2. Idle(q[k + j], v)
        BY <3>2, <4>1
      <4> QED
        BY <2>1, <4>1, <4>2 DEF Idle
    <3> QED
      BY <2>1, <3>2, <3>4, <3>5
  <2>9. Sound(p, w)
    BY <2>8 DEF Sound
  <2> QED
    BY <2>6, <2>7, <2>9 DEF p, w
<1> QED
  BY <1>1, <1>2

----------------------------------------------------------------------------
(* The queues of the hooks *)

\* An update is made in a lane; only a render takes it off the update.
Made == {u \in Updates : u.lane \in Lanes}

QueueTypes ==
    /\ memoizedState \in [Hooks -> Vals]
    /\ baseState \in [Hooks -> Vals]
    /\ baseQueue \in [Hooks -> Seq(Updates)]
    /\ pending \in [Hooks -> Seq(Made)]

\* Of each hook: eager states are right; an update that waits for no render
\* changes nothing; what a render has left begins with an update that waits for
\* one; and the state shown is what the updates shown mean.
QueueSound(h) ==
    /\ Sound(Queue(h), baseState[h])
    /\ \A i \in 1 .. Len(Queue(h)) :
          Queue(h)[i].lane \in Lanes \ lanes => Idle(Queue(h)[i], baseState[h])
    /\ baseQueue[h] # <<>> => baseQueue[h][1].lane \in lanes
    /\ memoizedState[h] = Means(Queue(h), baseState[h], {})

QueueInv == QueueTypes /\ \A h \in Hooks : QueueSound(h)

LEMMA UpdatesNoLane == NoLane \notin Lanes /\ Made \subseteq Updates
  BY DEF NoLane, Lanes, Made

LEMMA QueueType ==
    ASSUME NEW b \in Seq(Updates), NEW p \in Seq(Made)
    PROVE  /\ b \o p \in Seq(Updates)
           /\ Len(b \o p) = Len(b) + Len(p)
           /\ \A i \in 1 .. Len(b) : (b \o p)[i] = b[i]
           /\ \A i \in 1 .. Len(p) : (b \o p)[Len(b) + i] = p[i]
           /\ b \o <<>> = b
           /\ \A u \in Made : b \o Append(p, u) = Append(b \o p, u)
<1>1. p \in Seq(Updates)
  BY UpdatesNoLane
<1> QED
  BY <1>1

LEMMA MeaningMeans ==
    ASSUME NEW h, NEW X
    PROVE  Meaning(h, X) = Means(Queue(h), baseState[h], X)
  BY DEF Meaning, Means, Meanings

LEMMA InitQueues ==
    ASSUME Init
    PROVE  QueueInv /\ \A h \in Hooks : \A X : Meaning(h, X) = baseState[h]
<1>1. QueueTypes
  BY ReactAssumption DEF Init, QueueTypes
<1>2. ASSUME NEW h \in Hooks PROVE Queue(h) = <<>> /\ baseState[h] = memoizedState[h]
  BY DEF Init, Queue
<1>3. \A w, X : Means(<<>>, w, X) = w
  <2> TAKE w, X
  <2>1. Len(Meanings(<<>>, X)) = 0
    BY DEF Meanings
  <2> QED
    BY <2>1, ThroughSteps DEF Means, Outcome
<1>4. ASSUME NEW h \in Hooks PROVE QueueSound(h)
  <2>1. baseQueue[h] = <<>>
    BY DEF Init
  <2> QED
    BY <1>2, <1>3, <2>1 DEF QueueSound, Sound
<1> QED
  BY <1>1, <1>2, <1>3, <1>4, MeaningMeans DEF QueueInv

\* If no update is to be rendered, the state shown is all there is.
LEMMA EmptyQueue ==
    ASSUME QueueInv, lanes = {}, NEW h \in Hooks
    PROVE  /\ baseState[h] = memoizedState[h]
           /\ \A i \in 1 .. Len(Queue(h)) : Idle(Queue(h)[i], baseState[h])
<1>1. /\ baseQueue[h] \in Seq(Updates) /\ pending[h] \in Seq(Made) /\ QueueSound(h)
      /\ baseState[h] \in Vals
  BY DEF QueueInv, QueueTypes
<1>2. baseQueue[h] = <<>>
  BY <1>1 DEF QueueSound
<1>3. Queue(h) \in Seq(Updates) /\ \A i \in 1 .. Len(Queue(h)) : Queue(h)[i].lane \in Lanes
  <2>1. Queue(h) = pending[h]
    BY <1>1, <1>2 DEF Queue
  <2> QED
    BY <1>1, <2>1 DEF Made
<1>4. \A i \in 1 .. Len(Queue(h)) : Idle(Queue(h)[i], baseState[h])
  BY <1>1, <1>3 DEF QueueSound
<1>5. Means(Queue(h), baseState[h], {}) = baseState[h]
  BY <1>1, <1>3, <1>4, IdleMeans
<1> QED
  BY <1>1, <1>4, <1>5 DEF QueueSound

\* What setX does: the update is added to what the queue of its hook means, in
\* its lane.
LEMMA DispatchQueues ==
    ASSUME QueueInv, LanesOK, NEW h \in Hooks, NEW a \in Acts[h], Dispatch(h, a)
    PROVE  /\ QueueInv'
           /\ \A g \in Hooks : \A X \in SUBSET Lanes :
                 Meaning(g, X)' = IF g = h /\ eventLane \in X THEN a[Meaning(g, X)]
                                                              ELSE Meaning(g, X)
<1> DEFINE v == a[memoizedState[h]]
           u == [lane |-> eventLane, action |-> a, hasEagerState |-> Eager,
                 eagerState |-> IF Eager THEN v ELSE InitVal]
<1>1. /\ pending' = [pending EXCEPT ![h] = Append(@, u)]
      /\ UNCHANGED <<memoizedState, baseState, baseQueue>>
      /\ lanes' = lanes \/ lanes' = lanes \cup {eventLane}
      /\ lanes' = lanes => (Eager /\ v = memoizedState[h]) \/ eventLane \in lanes
      /\ eventLane \in Lanes
  BY DEF Dispatch, LanesOK
<1>2. a \in [Vals -> Vals] /\ InitVal \in Vals
  BY ReactAssumption
<1>3. u \in Made /\ u \in Updates
  <2>1. v \in Vals
    BY <1>2 DEF QueueInv, QueueTypes
  <2>2. Eager \in BOOLEAN
    BY DEF Eager
  <2> QED
    BY <1>1, <1>2, <2>1, <2>2 DEF Made, Updates
<1>4. /\ u.lane = eventLane /\ u.action = a
      /\ u.hasEagerState => lanes = {} /\ u.eagerState = a[memoizedState[h]]
      /\ Eager => u.hasEagerState
  BY DEF Eager
<1> HIDE DEF u
<1>5. ASSUME NEW g \in Hooks
      PROVE  /\ baseQueue[g] \in Seq(Updates) /\ pending[g] \in Seq(Made)
             /\ baseState[g] \in Vals /\ QueueSound(g)
             /\ Queue(g) \in Seq(Updates)
  BY QueueType DEF QueueInv, QueueTypes, Queue
<1>6. QueueTypes'
  <2>1. pending' \in [Hooks -> Seq(Made)]
    BY <1>1, <1>3, <1>5 DEF QueueInv, QueueTypes
  <2> QED
    BY <1>1, <2>1 DEF QueueInv, QueueTypes
<1>7. ASSUME NEW g \in Hooks, g # h
      PROVE  /\ QueueSound(g)'
             /\ \A X \in SUBSET Lanes : Meaning(g, X)' = Meaning(g, X)
  <2>1. Queue(g)' = Queue(g)
    BY <1>1, <1>7 DEF QueueInv, QueueTypes, Queue
  <2>2. QueueSound(g)'
    BY <1>1, <1>5, <2>1 DEF QueueSound
  <2> QED
    BY <1>1, <2>1, <2>2, MeaningMeans DEF Meaning
<1> DEFINE q == Queue(h)
           w == baseState[h]
<1>8. Queue(h)' = Append(q, u)
  <2>1. pending'[h] = Append(pending[h], u)
    BY <1>1 DEF QueueInv, QueueTypes
  <2>2. baseQueue[h] \o Append(pending[h], u) = Append(baseQueue[h] \o pending[h], u)
    BY <1>3, <1>5, QueueType
  <2> QED
    BY <1>1, <2>1, <2>2 DEF Queue
<1>9. q \in Seq(Updates) /\ w \in Vals /\ QueueSound(h)
  BY <1>5
<1>10. \A X \in SUBSET Lanes :
          Means(Append(q, u), w, X) = IF eventLane \in X THEN a[Means(q, w, X)]
                                                         ELSE Means(q, w, X)
  <2> TAKE X \in SUBSET Lanes
  <2>1. eventLane # NoLane
    BY <1>1, UpdatesNoLane
  <2> HIDE DEF q, w
  <2> QED
    BY <1>3, <1>4, <1>9, <2>1, MeansAppend
<1>11. u.hasEagerState => /\ u.eagerState = u.action[w] /\ w = memoizedState[h]
                          /\ \A i \in 1 .. Len(q) : Idle(q[i], w)
  BY <1>4, EmptyQueue
<1>12. QueueSound(h)'
  <2> HIDE DEF q, w
  <2>1. Sound(q, w)
    BY <1>9 DEF QueueSound, q, w
  <2>2. Sound(Append(q, u), w)
    BY <1>3, <1>9, <1>11, <2>1, SoundAppend
  <2>3. ASSUME NEW i \in 1 .. Len(Append(q, u)), Append(q, u)[i].lane \in Lanes \ lanes'
        PROVE  Idle(Append(q, u)[i], w)
    <3>1. CASE i \in 1 .. Len(q)
      <4>1. Append(q, u)[i] = q[i]
        BY <1>9, <3>1
      <4> QED
        BY <1>1, <1>9, <2>3, <3>1, <4>1 DEF QueueSound, q, w
    <3>2. CASE i \notin 1 .. Len(q)
      <4>1. Append(q, u)[i] = u
        BY <1>9, <3>2
      <4>2. Eager /\ v = memoizedState[h]
        BY <1>1, <1>4, <2>3, <4>1
      <4> QED
        BY <1>4, <1>11, <4>1, <4>2 DEF Idle
    <3> QED
      BY <3>1, <3>2
  <2>4. baseQueue'[h] # <<>> => baseQueue'[h][1].lane \in lanes'
    BY <1>1, <1>9 DEF QueueSound
  <2>5. memoizedState'[h] = Means(Append(q, u), w, {})
    BY <1>1, <1>9, <1>10 DEF QueueSound, q, w
  <2>6. baseState'[h] = w
    BY <1>1 DEF w
  <2> QED
    BY <1>8, <2>2, <2>3, <2>4, <2>5, <2>6 DEF QueueSound
<1>13. \A X \in SUBSET Lanes :
          Meaning(h, X)' = IF eventLane \in X THEN a[Meaning(h, X)] ELSE Meaning(h, X)
  <2> TAKE X \in SUBSET Lanes
  <2>1. Meaning(h, X)' = Means(Append(q, u), w, X)
    BY <1>1, <1>8 DEF Meaning, Means, Meanings
  <2> QED
    BY <1>10, <2>1, MeaningMeans
<1> QED
  BY <1>6, <1>7, <1>12, <1>13 DEF QueueInv

\* What a render of the lanes ls does: their updates count as shown, and the
\* others are kept, in order.
LEMMA RenderQueues ==
    ASSUME QueueInv, NEW ls \in SUBSET Lanes, RenderHooks(ls)
    PROVE  /\ QueueInv'
           /\ \A h \in Hooks : \A X \in SUBSET Lanes : Meaning(h, X)' = Meaning(h, X \cup ls)
<1>1. ASSUME NEW h \in Hooks
      PROVE  /\ Queue(h) \in Seq(Updates) /\ baseState[h] \in Vals
             /\ Sound(Queue(h), baseState[h])
  BY QueueType DEF QueueInv, QueueTypes, QueueSound, Queue
<1>2. ASSUME NEW h \in Hooks
      PROVE  /\ memoizedState'[h] = ApplyAll(baseState[h], Queue(h), ls)
             /\ baseState'[h] = BaseOf(baseState[h], Queue(h), ls)
             /\ baseQueue'[h] = Rest(Queue(h), ls)
             /\ pending'[h] = <<>>
  BY DEF RenderHooks
<1>3. ASSUME NEW h \in Hooks
      PROVE  /\ memoizedState'[h] = Means(Queue(h), baseState[h], ls)
             /\ memoizedState'[h] \in Vals
             /\ baseState'[h] \in Vals
             /\ baseQueue'[h] \in Seq(Updates)
             /\ Queue(h)' = Rest(Queue(h), ls)
  <2>1. memoizedState'[h] = Means(Queue(h), baseState[h], ls)
    BY <1>1, <1>2, ApplyMeans
  <2>2. memoizedState'[h] \in Vals
    BY <1>1, <2>1, MeansType
  <2>3. baseState'[h] \in Vals
    BY <1>1, <1>2, RenderMeans
  <2>4. baseQueue'[h] \in Seq(Updates)
    BY <1>1, <1>2, RestLanes
  <2>5. Queue(h)' = baseQueue'[h]
    <3>1. <<>> \in Seq(Made)
      OBVIOUS
    <3>2. baseQueue'[h] \o <<>> = baseQueue'[h]
      BY <2>4, <3>1, QueueType
    <3> QED
      BY <1>2, <3>2 DEF Queue
  <2> QED
    BY <1>2, <2>1, <2>2, <2>3, <2>4, <2>5
<1>4. QueueTypes'
  <2>1. /\ memoizedState' \in [Hooks -> Vals]
        /\ baseState' \in [Hooks -> Vals]
        /\ baseQueue' \in [Hooks -> Seq(Updates)]
    BY <1>3 DEF RenderHooks
  <2>2. pending' \in [Hooks -> Seq(Made)]
    BY DEF RenderHooks
  <2> QED
    BY <2>1, <2>2 DEF QueueTypes
<1>5. ASSUME NEW h \in Hooks, NEW X \in SUBSET Lanes
      PROVE  Meaning(h, X)' = Meaning(h, X \cup ls)
  <2>1. Meaning(h, X)' = Means(Rest(Queue(h), ls), BaseOf(baseState[h], Queue(h), ls), X)
    BY <1>2, <1>3 DEF Meaning, Means, Meanings
  <2> QED
    BY <1>1, <2>1, RenderMeans, MeaningMeans
<1>6. ASSUME NEW h \in Hooks
      PROVE  QueueSound(h)'
  <2> DEFINE p == Rest(Queue(h), ls)
             w == BaseOf(baseState[h], Queue(h), ls)
  <2>1. Sound(p, w)
    BY <1>1, RenderMeans
  <2>2. ASSUME NEW i \in 1 .. Len(p), p[i].lane # NoLane PROVE p[i].lane \in lanes'
    <3>1. PICK j \in 1 .. Len(Queue(h)) :
             Queue(h)[j].lane = p[i].lane /\ Queue(h)[j].lane \in Lanes \ ls
      BY <1>1, <2>2, RestLanes
    <3>2. lanes' = SkippedLanes(ls)
      BY DEF RenderHooks
    <3> QED
      BY <3>1, <3>2 DEF SkippedLanes
  <2>3. p # <<>> => p[1].lane \in lanes'
    <3>1. p \in Seq(Updates) /\ (p # <<>> => p[1].lane # NoLane)
      BY <1>1, RestLanes
    <3>2. p # <<>> => 1 \in 1 .. Len(p)
      BY <3>1
    <3> QED
      BY <2>2, <3>1, <3>2
  <2>4. \A i \in 1 .. Len(p) : p[i].lane \notin Lanes \ lanes'
    BY <2>2, UpdatesNoLane
  <2>5. Queue(h)' = p /\ baseState'[h] = w /\ baseQueue'[h] = p
    BY <1>2, <1>3
  <2>6. memoizedState'[h] = Means(p, w, {})
    <3>1. Means(p, w, {}) = Means(Queue(h), baseState[h], {} \cup ls)
      BY <1>1, RenderMeans
    <3>2. {} \cup ls = ls
      OBVIOUS
    <3> QED
      BY <1>3, <3>1, <3>2
  <2> HIDE DEF p, w
  <2> QED
    BY <2>1, <2>3, <2>4, <2>5, <2>6 DEF QueueSound
<1> QED
  BY <1>4, <1>5, <1>6 DEF QueueInv

\* Nothing else touches the queues.
LEMMA QueuesKept ==
    ASSUME UNCHANGED <<memoizedState, baseState, baseQueue, pending, lanes>>
    PROVE  /\ QueueInv => QueueInv'
           /\ \A h, X : Meaning(h, X)' = Meaning(h, X)
<1>1. \A h : Queue(h)' = Queue(h)
  BY DEF Queue
<1> QED
  BY <1>1 DEF QueueInv, QueueTypes, QueueSound, Meaning

LEMMA LanesNext == ASSUME LanesOK PROVE NextLanes(pendingLanes) \in SUBSET Lanes
  BY DEF LanesOK, NextLanes, Lanes

\* The steps that leave all queues alone.
LEMMA OtherSteps ==
    ASSUME [Next]_vars, ~Render,
           ~ \E h \in Hooks : \E a \in Acts[h] : Dispatch(h, a)
    PROVE  UNCHANGED <<memoizedState, baseState, baseQueue, pending, lanes>>
  BY DEF Next, Handler, System, BeginEvent, EndEvent, FlushSyncCallbacks, RunTask,
     EffectsTask, FlushFirst, vars, queues

LEMMA NextQueues == QueueInv /\ LanesOK /\ [Next]_vars => QueueInv'
<1> SUFFICES ASSUME QueueInv, LanesOK, [Next]_vars PROVE QueueInv'
  OBVIOUS
<1>1. CASE \E h \in Hooks : \E a \in Acts[h] : Dispatch(h, a)
  BY <1>1, DispatchQueues
<1>2. CASE Render
  BY <1>2, LanesNext, RenderQueues DEF Render
<1>3. CASE ~Render /\ ~ \E h \in Hooks : \E a \in Acts[h] : Dispatch(h, a)
  BY <1>3, OtherSteps, QueuesKept
<1> QED
  BY <1>1, <1>2, <1>3

LEMMA AlwaysQueues == Spec => [](IInv /\ QueueInv)
<1>1. Init => IInv /\ QueueInv
  BY InitIInv, InitQueues
<1>2. IInv /\ QueueInv /\ [Next]_vars => (IInv /\ QueueInv)'
  BY NextIInv, NextQueues DEF IInv
<1> QED
  BY <1>1, <1>2, PTL DEF Spec

\* Between events handlers see the updates of all earlier clicks: those of the
\* Sync lane that are not rendered, the scheduler does not know of, because they
\* change nothing.
THEOREM HandlersAlwaysSeeState == Spec => []HandlersSeeState
<1>1. ASSUME IInv, QueueInv, AtRest, NEW h \in Hooks
      PROVE  memoizedState[h] = Meaning(h, {"Sync"})
  <2> DEFINE q == Queue(h)
             v == baseState[h]
  <2>1. q \in Seq(Updates) /\ v \in Vals /\ QueueSound(h)
    BY <1>1, QueueType DEF QueueInv, QueueTypes, Queue
  <2>2. "Sync" \notin lanes
    BY <1>1 DEF IInv, WorkScheduled, AtRest, Priority
  <2>3. \A i \in 1 .. Len(q) : q[i].lane = "Sync" => Idle(q[i], v)
    BY <2>1, <2>2 DEF QueueSound, Lanes
  <2>4. Sound(q, v) /\ memoizedState[h] = Means(q, v, {})
    BY <2>1 DEF QueueSound
  <2>5. Meaning(h, {"Sync"}) = Means(q, v, {"Sync"})
    BY MeaningMeans
  <2> HIDE DEF q, v
  <2> QED
    BY <2>1, <2>3, <2>4, <2>5, LaneOfIdle
<1>2. IInv /\ QueueInv => HandlersSeeState
  BY <1>1 DEF HandlersSeeState
<1> QED
  BY <1>2, AlwaysQueues, PTL

----------------------------------------------------------------------------
(* State hooks implement module Rendering *)

viewBar == [h \in Hooks |-> Meaning(h, {"Sync"})]
queuedBar == [h \in Hooks |-> Meaning(h, Lanes)]

LEMMA InitRefines == Init => Implemented!Init
  BY InitQueues DEF Implemented!Init

LEMMA DispatchRefines ==
    ASSUME QueueInv, LanesOK, NEW h \in Hooks, NEW a \in Acts[h], Dispatch(h, a)
    PROVE  Implemented!Next
<1>1. \A g \in Hooks : \A X \in SUBSET Lanes :
         Meaning(g, X)' = IF g = h /\ eventLane \in X THEN a[Meaning(g, X)]
                                                      ELSE Meaning(g, X)
  BY DispatchQueues
<1>2. {"Sync"} \in SUBSET Lanes /\ Lanes \in SUBSET Lanes /\ eventLane \in Lanes
  BY DEF Dispatch, LanesOK, Lanes
<1>3. \A g \in Hooks :
         /\ viewBar[g] = Meaning(g, {"Sync"}) /\ queuedBar[g] = Meaning(g, Lanes)
         /\ viewBar'[g] = Meaning(g, {"Sync"})' /\ queuedBar'[g] = Meaning(g, Lanes)'
  BY DEF viewBar, queuedBar
<1>4. CASE eventLane = "Sync"
  <2>1. ASSUME NEW g \in Hooks
        PROVE  \/ viewBar'[g] = viewBar[g] /\ queuedBar'[g] = queuedBar[g]
               \/ \E c \in Acts[g] : viewBar'[g] = c[viewBar[g]]
                                     /\ queuedBar'[g] = c[queuedBar[g]]
    BY <1>1, <1>2, <1>3, <1>4
  <2> QED
    BY <2>1 DEF Implemented!Next, Implemented!Prompt, viewBar, queuedBar
<1>5. CASE eventLane # "Sync"
  <2>1. viewBar' = viewBar
    BY <1>1, <1>2, <1>5 DEF viewBar
  <2>2. ASSUME NEW g \in Hooks
        PROVE  \/ queuedBar'[g] = queuedBar[g]
               \/ \E c \in Acts[g] : queuedBar'[g] = c[queuedBar[g]]
    BY <1>1, <1>2, <1>3
  <2> QED
    BY <2>1, <2>2 DEF Implemented!Next, Implemented!Later, viewBar, queuedBar
<1> QED
  BY <1>4, <1>5

LEMMA RenderRefines ==
    ASSUME QueueInv, LanesOK, Render
    PROVE  Implemented!Next \/ UNCHANGED <<viewBar, queuedBar>>
<1> DEFINE ls == NextLanes(pendingLanes)
<1>1. \A h \in Hooks : \A X \in SUBSET Lanes : Meaning(h, X)' = Meaning(h, X \cup ls)
  BY LanesNext, RenderQueues DEF Render
<1>2. ls \subseteq {"Sync"} \/ ls = {"Default"}
  BY DEF NextLanes, LanesOK, Lanes
<1>3. {"Sync"} \in SUBSET Lanes /\ Lanes \cup ls = Lanes
  BY <1>2 DEF Lanes
<1>4. queuedBar' = queuedBar
  BY <1>1, <1>3 DEF queuedBar
<1>5. CASE ls \subseteq {"Sync"}
  <2>1. {"Sync"} \cup ls = {"Sync"}
    BY <1>5
  <2>2. viewBar' = viewBar
    BY <1>1, <1>3, <2>1 DEF viewBar
  <2> QED
    BY <1>4, <2>2
<1>6. CASE ls = {"Default"}
  <2>1. {"Sync"} \cup ls = Lanes
    BY <1>6 DEF Lanes
  <2>2. viewBar' = queuedBar
    BY <1>1, <1>3, <2>1 DEF viewBar, queuedBar
  <2> QED
    BY <1>4, <2>2 DEF Implemented!Next, Implemented!Render, viewBar, queuedBar
<1> QED
  BY <1>2, <1>5, <1>6

LEMMA StepRefines ==
    IInv /\ QueueInv /\ [Next]_vars => [Implemented!Next]_<<viewBar, queuedBar>>
<1> SUFFICES ASSUME IInv, QueueInv, [Next]_vars
             PROVE  Implemented!Next \/ UNCHANGED <<viewBar, queuedBar>>
  OBVIOUS
<1>1. LanesOK
  BY DEF IInv
<1>2. CASE \E h \in Hooks : \E a \in Acts[h] : Dispatch(h, a)
  BY <1>1, <1>2, DispatchRefines
<1>3. CASE Render
  BY <1>1, <1>3, RenderRefines
<1>4. CASE ~Render /\ ~ \E h \in Hooks : \E a \in Acts[h] : Dispatch(h, a)
  BY <1>4, OtherSteps, QueuesKept DEF viewBar, queuedBar
<1> QED
  BY <1>2, <1>3, <1>4

\* React's state hooks implement what the page may expect of them.
THEOREM HooksImplementRendering == Spec => ImplementsRendering
<1>1. IInv /\ QueueInv /\ [Next]_vars => [Implemented!Next]_<<viewBar, queuedBar>>
  BY StepRefines
<1>2. Init => Implemented!Init
  BY InitRefines
<1> QED
  BY <1>1, <1>2, AlwaysQueues, PTL DEF Spec, ImplementsRendering, Implemented!Spec,
     viewBar, queuedBar
=============================================================================
