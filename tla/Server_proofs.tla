--------------------------- MODULE Server_proofs ---------------------------
(* Proofs about Server, for all sets of ports, holdings and bounds.        *)
EXTENDS Server, TLAPS

\* Every reachable state of the process is well-formed.
THEOREM ServerTypeCorrect == Spec => []TypeOK
  <1>1. Init => TypeOK
    <2>. SUFFICES ASSUME Init PROVE TypeOK
      OBVIOUS
    <2>1. open \in 0..MaxOpen /\ taken \subseteq Ports /\ failing \subseteq Servers
      BY ServerAssumption DEF Init
    <2>2. server \in [Servers -> {"off", "launched", "listening", "closed", "ended"}]
      BY DEF Init
    <2>. QED
      BY <2>1, <2>2 DEF Init, TypeOK, Locations
  <1>2. TypeOK /\ [Next]_vars => TypeOK'
    <2>. SUFFICES ASSUME TypeOK, [Next]_vars PROVE TypeOK'
      OBVIOUS
    <2>. USE DEF TypeOK, Locations, config, Servers
    <2>1. CASE Boot
      BY <2>1 DEF Boot, End
    <2>2. ASSUME NEW s \in Servers, NEW next \in Locations, Launch(s, next)
          PROVE  TypeOK'
      BY <2>2 DEF Launch
    <2>3. CASE Launch("pprof", "files") \/ Launch("files", "http") \/ Launch("http", "notify")
      BY <2>3, <2>2
    <2>4. CASE Notify \/ Receive
      BY <2>4 DEF Notify, Receive
    <2>5. CASE Shutdown
      BY <2>5 DEF Shutdown
    <2>6. CASE Exit
      BY <2>6 DEF Exit, End
    <2>7. ASSUME NEW s \in Servers, Bind(s) PROVE TypeOK'
      BY <2>7 DEF Bind, End
    <2>71. ASSUME NEW s \in Servers, Fail(s) PROVE TypeOK'
      BY <2>71 DEF Fail, End
    <2>8. CASE ServeReturns
      BY <2>8 DEF ServeReturns
    <2>9. CASE SendSignal \/ Deliver
      BY <2>9 DEF SendSignal, Deliver
    <2>10. CASE Arrive
      BY <2>10, ServerAssumption DEF Arrive
    <2>11. CASE Finish
      BY <2>11, ServerAssumption DEF Finish
    <2>12. CASE UNCHANGED vars
      BY <2>12 DEF vars
    <2>. QED
      BY <2>1, <2>3, <2>4, <2>5, <2>6, <2>7, <2>71, <2>8, <2>9, <2>10, <2>11, <2>12
         DEF Next, Main
  <1>. QED
    BY <1>1, <1>2, PTL DEF Spec

----------------------------------------------------------------------------
\* What the results below rest on: only configured servers run; the HTTP
\* server is not up before main has started it, nor once the shutdown drains.
IInv ==
    /\ \A s \in Servers : server[s] # "off" => Configured(s)
    /\ pc \in {"boot", "pprof", "files", "http"} => server["http"] = "off"
    /\ pc = "draining" => server["http"] # "listening"

\* A server that runs and whose port is not free has a contested port.
LEMMA NotFree ==
    ASSUME TypeOK, IInv, NEW s \in Servers, server[s] # "off", ~Free(s)
    PROVE  Contested(s)
  <1>1. port[s] \in Ports
    BY DEF TypeOK, IInv, Configured, Free
  <1>2. CASE port[s] \in taken
    BY <1>1, <1>2 DEF Contested
  <1>3. CASE port[s] \notin taken
    <2>1. PICK t \in Servers \ {s} : port[t] = port[s]
      BY <1>3 DEF Free
    <2>. QED
      BY <1>1, <2>1 DEF Contested
  <1>. QED
    BY <1>2, <1>3

\* IInv is inductive.
LEMMA IInvHolds == Spec => []IInv
  <1>1. Init => IInv
    BY DEF Init, IInv, Servers
  <1>2. TypeOK /\ IInv /\ [Next]_vars => IInv'
    <2>. SUFFICES ASSUME TypeOK, IInv, [Next]_vars PROVE IInv'
      OBVIOUS
    <2>1. UNCHANGED port
      BY DEF Next, Main, Boot, Launch, Notify, Receive, Shutdown, Exit, Bind, Fail,
             ServeReturns, SendSignal, Deliver, Arrive, Finish, End, config, vars
    <2>. USE <2>1 DEF IInv, Configured, config, Servers
    <2>3. CASE Boot
      BY <2>3 DEF Boot, End
    <2>4. ASSUME NEW s \in Servers, NEW next, Launch(s, next),
                 next = "notify" \/ (s # "http" /\ next \in {"files", "http"})
          PROVE  IInv'
      <3>1. server' = [server EXCEPT ![s] = IF Configured(s) THEN "launched" ELSE "off"]
            /\ pc' = next /\ exit' = exit /\ pc = s
        BY <2>4 DEF Launch
      <3>2. next # "notify" => server'["http"] = "off"
        BY <2>4, <3>1 DEF TypeOK
      <3>. QED
        BY <2>4, <3>1, <3>2 DEF TypeOK
    <2>5. CASE Launch("pprof", "files") \/ Launch("files", "http") \/ Launch("http", "notify")
      BY <2>5, <2>4
    <2>6. CASE Notify \/ Receive
      BY <2>6 DEF Notify, Receive
    <2>7. CASE Shutdown
      BY <2>7 DEF Shutdown, TypeOK
    <2>8. CASE Exit
      BY <2>8 DEF Exit, End
    <2>9. ASSUME NEW s \in Servers, Bind(s) PROVE IInv'
      <3>1. CASE Free(s) /\ server' = [server EXCEPT ![s] = "listening"]
                 /\ UNCHANGED <<config, pc, pending, open, exit>>
        BY <2>9, <3>1 DEF Bind, TypeOK
      <3>2. CASE End("fatal")
        BY <3>2 DEF End
      <3>. QED
        BY <2>9, <3>1, <3>2 DEF Bind
    <2>91. ASSUME NEW s \in Servers, Fail(s) PROVE IInv'
      BY <2>91 DEF Fail, End
    <2>10. CASE ServeReturns
      BY <2>10 DEF ServeReturns, Refused, TypeOK
    <2>11. CASE SendSignal \/ Arrive \/ Finish
      BY <2>11 DEF SendSignal, Arrive, Finish
    <2>12. CASE Deliver
      BY <2>12 DEF Deliver, Running
    <2>13. CASE UNCHANGED vars
      BY <2>13 DEF vars
    <2>. QED
      BY <2>3, <2>5, <2>6, <2>7, <2>8, <2>9, <2>91, <2>10, <2>11, <2>12, <2>13
         DEF Next, Main
  <1>. QED
    BY <1>1, <1>2, ServerTypeCorrect, PTL DEF Spec

\* The process ends by log.Fatalf only because the socket of a server fails or its
\* port is contested, and never because of the HTTP server once the shutdown drains
\* (main.go:69-71, 105-107, 127-137).
THEOREM FatalAlwaysCaused == Spec => []FatalHasCause
  <1>1. Init => FatalHasCause
    BY DEF Init, FatalHasCause
  <1>2. TypeOK /\ IInv /\ FatalHasCause /\ [Next]_vars => FatalHasCause'
    <2>. SUFFICES ASSUME TypeOK, IInv, FatalHasCause, [Next]_vars PROVE FatalHasCause'
      OBVIOUS
    <2>1. CASE UNCHANGED vars
      BY <2>1 DEF FatalHasCause, Contested, vars
    <2>2. ASSUME NEW s \in Servers, Bind(s) PROVE FatalHasCause'
      <3>1. CASE Free(s) /\ UNCHANGED exit
        BY <2>2, <3>1 DEF Bind, Running, FatalHasCause
      <3>2. CASE (~Free(s) \/ s \in failing) /\ End("fatal")
        <4>1. UNCHANGED <<port, taken, failing, pc, server>>
          BY <3>2 DEF End, config
        <4>2. server[s] = "launched" /\ (s = "http" => pc # "draining")
          BY <2>2 DEF Bind
        <4>3. Contested(s) \/ s \in failing
          BY <3>2, <4>2, NotFree
        <4>. QED
          BY <4>1, <4>2, <4>3 DEF FatalHasCause, Contested
      <3>. QED
        BY <2>2, <3>1, <3>2 DEF Bind
    <2>3. ASSUME NEW s \in Servers, Fail(s) PROVE FatalHasCause'
      <3>1. UNCHANGED <<pc, server, failing>> /\ server[s] = "listening" /\ s \in failing
        BY <2>3 DEF Fail, End, config
      <3>2. s = "http" => pc # "draining"
        BY <3>1 DEF IInv
      <3>. QED
        BY <3>1, <3>2 DEF FatalHasCause
    <2>4. CASE Main \/ ServeReturns \/ SendSignal \/ Deliver \/ Arrive \/ Finish
      <3>1. exit' # "fatal"
        BY <2>4 DEF Main, Boot, Launch, Notify, Receive, Shutdown, Exit, End, ServeReturns,
                    SendSignal, Deliver, Arrive, Finish, Running
      <3>. QED
        BY <3>1 DEF FatalHasCause
    <2>. QED
      BY <2>1, <2>2, <2>3, <2>4 DEF Next
  <1>. QED
    BY <1>1, <1>2, ServerTypeCorrect, IInvHolds, PTL DEF Spec

----------------------------------------------------------------------------
\* A process that runs is in a phase from which Lifecycle may abort.
LEMMA RunningAlive ==
    ASSUME Running
    PROVE  /\ Life!Alive
           /\ phase = IF pc = "draining" THEN "draining"
                      ELSE IF server["http"] = "listening" THEN "serving" ELSE "down"
  BY DEF Running, phase, Life!Alive

\* A process that ends at a given step, and not in good order, aborts.
LEMMA EndAborts ==
    ASSUME Running, NEW how \in {"panic", "fatal"}, End(how)
    PROVE  Life!Abort
  BY RunningAlive DEF Life!Abort, End, phase

\* A step that leaves what phase depends on alone.
LEMMA PhaseKept ==
    ASSUME UNCHANGED <<server["http"], exit>>, (pc' = "draining") <=> (pc = "draining")
    PROVE  UNCHANGED phase
  BY DEF phase

\* The process implements Lifecycle.
THEOREM Implements == Spec => KeepsPromise
  <1>1. Init => Life!LInit
    BY DEF Init, Life!LInit, phase, Servers
  <1>2. TypeOK /\ IInv /\ [Next]_vars => [Life!LNext]_(Life!lvars)
    <2>. SUFFICES ASSUME TypeOK, IInv, [Next]_vars
                  PROVE  Life!LNext \/ UNCHANGED <<phase, open>>
      BY DEF Life!lvars
    <2>. USE DEF config, Life!LNext
    <2>1. CASE Boot
      <3>1. CASE pc' = "pprof" /\ UNCHANGED <<config, server, pending, open, exit>>
        BY <2>1, <3>1, PhaseKept DEF Boot
      <3>2. CASE End("panic")
        BY <2>1, <3>2, EndAborts DEF Boot
      <3>. QED
        BY <2>1, <3>1, <3>2 DEF Boot
    <2>2. ASSUME NEW s \in {"pprof", "files"}, NEW next \in {"files", "http"},
                 Launch(s, next)
          PROVE  UNCHANGED <<phase, open>>
      BY <2>2, PhaseKept DEF Launch, TypeOK, Servers
    <2>3. CASE Launch("http", "notify")
      <3>1. server["http"] = "off" /\ server'["http"] # "listening"
        BY <2>3 DEF Launch, IInv, TypeOK, Servers
      <3>2. Running /\ Running' /\ pc # "draining" /\ pc' # "draining" /\ UNCHANGED open
        BY <2>3 DEF Launch, Running
      <3>. QED
        BY <3>1, <3>2 DEF phase, Running
    <2>4. CASE Notify \/ Receive
      BY <2>4, PhaseKept DEF Notify, Receive
    <2>5. CASE Shutdown
      <3>1. phase \in {"down", "serving"}
        BY <2>5, RunningAlive DEF Shutdown
      <3>2. phase' = "draining" /\ UNCHANGED open
        BY <2>5 DEF Shutdown, Running, phase
      <3>. QED
        BY <3>1, <3>2 DEF Life!Drain
    <2>6. CASE Exit
      <3>1. phase = "draining" /\ open = 0
        BY <2>6, RunningAlive DEF Exit
      <3>2. phase' = "stopped" /\ UNCHANGED open
        BY <2>6 DEF Exit, End, phase
      <3>. QED
        BY <3>1, <3>2 DEF Life!Stop
    <2>7. ASSUME NEW s \in Servers, Bind(s)
          PROVE  Life!LNext \/ UNCHANGED <<phase, open>>
      <3>1. CASE Free(s) /\ server' = [server EXCEPT ![s] = "listening"]
                 /\ UNCHANGED <<config, pc, pending, open, exit>>
        <4>1. CASE s = "http"
          <5>1. Running /\ pc # "draining" /\ server["http"] = "launched"
            BY <2>7, <4>1 DEF Bind
          <5>2. phase = "down"
            BY <5>1, RunningAlive
          <5>3. phase' = "serving"
            BY <3>1, <4>1, <5>1 DEF Running, phase, TypeOK, Servers
          <5>. QED
            BY <3>1, <5>2, <5>3 DEF Life!Start
        <4>2. CASE s # "http"
          BY <3>1, <4>2, PhaseKept DEF TypeOK, Servers
        <4>. QED
          BY <4>1, <4>2
      <3>2. CASE End("fatal")
        BY <2>7, <3>2, EndAborts DEF Bind
      <3>. QED
        BY <2>7, <3>1, <3>2 DEF Bind
    <2>71. ASSUME NEW s \in Servers, Fail(s)
          PROVE  Life!LNext \/ UNCHANGED <<phase, open>>
      BY <2>71, EndAborts DEF Fail
    <2>8. CASE ServeReturns
      <3>1. server["http"] # "listening" /\ server'["http"] # "listening"
        BY <2>8 DEF ServeReturns, Refused, TypeOK, Servers
      <3>2. UNCHANGED <<pc, open, exit>>
        BY <2>8 DEF ServeReturns
      <3>. QED
        BY <3>1, <3>2 DEF phase
    <2>9. CASE SendSignal
      BY <2>9, PhaseKept DEF SendSignal
    <2>10. CASE Deliver
      <3>1. CASE pc \in {"boot", "pprof", "files", "http", "notify"}
        <4>1. exit' = "killed" /\ UNCHANGED open /\ Running
          BY <2>10, <3>1 DEF Deliver
        <4>. QED
          BY <4>1, RunningAlive DEF Life!Abort, phase
      <3>2. CASE pc \notin {"boot", "pprof", "files", "http", "notify"}
        BY <2>10, <3>2, PhaseKept DEF Deliver
      <3>. QED
        BY <3>1, <3>2
    <2>11. CASE Arrive
      <3>1. Running /\ pc # "draining" /\ server["http"] = "listening"
        BY <2>11 DEF Arrive, IInv
      <3>2. phase = "serving"
        BY <3>1, RunningAlive
      <3>. QED
        BY <2>11, <3>2, PhaseKept DEF Arrive, Life!Take
    <2>12. CASE Finish
      <3>1. Life!Alive
        BY <2>12, RunningAlive DEF Finish
      <3>. QED
        BY <2>12, <3>1, PhaseKept DEF Finish, Life!Answer
    <2>13. CASE UNCHANGED vars
      BY <2>13, PhaseKept DEF vars
    <2>. QED
      BY <2>1, <2>2, <2>3, <2>4, <2>5, <2>6, <2>7, <2>71, <2>8, <2>9, <2>10, <2>11,
         <2>12, <2>13 DEF Next, Main
  <1>. QED
    BY <1>1, <1>2, ServerTypeCorrect, IInvHolds, PTL
       DEF Spec, KeepsPromise, Life!LSpec
=============================================================================
