------------------------------- MODULE Server -------------------------------
(***************************************************************************)
(* The server process (main.go): the main goroutine, which starts up to    *)
(* three listeners in goroutines of their own, waits for a signal and shuts*)
(* the HTTP server down; the goroutines, each of which ends the process    *)
(* when it cannot listen; the delivery of signals, which depends on how far*)
(* main has come; and the requests the HTTP server is working on.          *)
(***************************************************************************)
EXTENDS Integers

CONSTANTS
    Ports,       \* port numbers a configuration may name
    Holdings,    \* sets of ports that other processes may hold
    Failings,    \* sets of servers whose sockets may fail
    MaxOpen      \* bound: HTTP requests in progress at a time

Servers == {"http", "files", "pprof"}
Off     == "off"      \* the server is not configured
AnyPort == "any"      \* port 0: the system chooses a free one

ASSUME ServerAssumption ==
    /\ Off \notin Ports /\ AnyPort \notin Ports
    /\ \A h \in Holdings : h \subseteq Ports
    /\ \A f \in Failings : f \subseteq Servers
    /\ MaxOpen \in Nat

VARIABLES
    port, taken, failing, datasource,   \* the configuration and its surroundings
    pc,         \* where main is, named for what it does next
    server,     \* off, launched, listening, closed or ended
    pending,    \* a signal is sent and not delivered
    open,       \* HTTP requests in progress
    exit        \* "none", or how the process has ended

config == <<port, taken, failing, datasource>>
vars   == <<port, taken, failing, datasource, pc, server, pending, open, exit>>

Locations == {"boot", "pprof", "files", "http", "notify", "receive",
              "waiting", "closing", "draining"}

Running    == exit = "none"
Configured(s) == port[s] # Off

\* The files are served when a path is set, pprof when enabled, HTTP always.
Init ==
    /\ port \in [Servers -> Ports \cup {Off, AnyPort}]
    /\ Configured("http")
    /\ taken \in Holdings
    /\ failing \in Failings
    /\ datasource \in BOOLEAN
    /\ pc = "boot"
    /\ server = [s \in Servers |-> "off"]
    /\ pending = FALSE
    /\ open = 0
    /\ exit = "none"

End(how) == exit' = how /\ UNCHANGED <<config, pc, server, pending, open>>

\* bootstrap.MustInit panics when the data source, if enabled, fails.
Boot ==
    /\ Running /\ pc = "boot"
    /\ \/ /\ pc' = "pprof"
          /\ UNCHANGED <<config, server, pending, open, exit>>
       \/ datasource /\ End("panic")

\* One go statement; main goes on at once.  A server that is not configured
\* gets no goroutine, or one that returns.
Launch(s, next) ==
    /\ Running /\ pc = s
    /\ pc' = next
    /\ server' = [server EXCEPT ![s] = IF Configured(s) THEN "launched" ELSE "off"]
    /\ UNCHANGED <<config, pending, open, exit>>

\* signal.Notify; from here on no signal ends the process by itself.
Notify ==
    /\ Running /\ pc = "notify"
    /\ pc' = "receive"
    /\ UNCHANGED <<config, server, pending, open, exit>>

\* <-quit, until main is parked at the channel.
Receive ==
    /\ Running /\ pc = "receive"
    /\ pc' = "waiting"
    /\ UNCHANGED <<config, server, pending, open, exit>>

\* A port is free unless another process or another listener has it.
Free(s) ==
    \/ port[s] = AnyPort
    \/ /\ port[s] \notin taken
       /\ \A t \in Servers \ {s} : server[t] = "listening" => port[t] # port[s]

\* Mutant: a server that cannot listen gives up, and the process lives on.
BindOrGiveUp(s) ==
    /\ Running /\ server[s] = "launched"
    /\ s = "http" => pc # "draining"
    /\ server' = [server EXCEPT ![s] = IF Free(s) THEN "listening" ELSE "ended"]
    /\ UNCHANGED <<config, pc, pending, open, exit>>

\* ListenAndServe in the server's goroutine: log.Fatalf when it cannot listen,
\* because the port is not free or because the system refuses it otherwise (a
\* port it may not have, no descriptor left).
Bind(s) ==
    /\ Running /\ server[s] = "launched"
    /\ s = "http" => pc # "draining"
    /\ \/ /\ Free(s)
          /\ server' = [server EXCEPT ![s] = "listening"]
          /\ UNCHANGED <<config, pc, pending, open, exit>>
       \/ (~Free(s) \/ s \in failing) /\ End("fatal")

\* ListenAndServe returns later, when it cannot accept a connection: log.Fatalf.
Fail(s) ==
    /\ Running /\ server[s] = "listening" /\ s \in failing
    /\ End("fatal")

\* Shutdown has begun, or begins before the goroutine has come to listen.
Refused == \/ server["http"] = "closed"
           \/ server["http"] = "launched" /\ pc = "draining"

\* Mutant: http.ErrServerClosed is an error like any other.
ServeReturnsFatal == Running /\ Refused /\ End("fatal")

\* ListenAndServe returns http.ErrServerClosed, and the goroutine ends.
ServeReturns ==
    /\ Running /\ Refused
    /\ server' = [server EXCEPT !["http"] = "ended"]
    /\ UNCHANGED <<config, pc, pending, open, exit>>

SendSignal ==
    /\ Running /\ ~pending
    /\ pending' = TRUE
    /\ UNCHANGED <<config, pc, server, open, exit>>

\* The runtime delivers a signal: before Notify it ends the process; after, it
\* is sent to the channel without waiting, so that it is lost unless main is
\* parked there.
Deliver ==
    /\ Running /\ pending
    /\ pending' = FALSE
    /\ exit' = IF pc \in {"boot", "pprof", "files", "http", "notify"}
               THEN "killed" ELSE exit
    /\ pc' = IF pc = "waiting" THEN "closing" ELSE pc
    /\ UNCHANGED <<config, server, open>>

\* Mutant: the listener stays open.
ShutdownKeepsListener ==
    /\ Running /\ pc = "closing"
    /\ pc' = "draining"
    /\ UNCHANGED <<config, server, pending, open, exit>>

\* Mutant: closing the listener is taken for the end of a request.
ShutdownMiscounts ==
    /\ Running /\ pc = "closing"
    /\ pc' = "draining"
    /\ server' = [server EXCEPT !["http"] = IF @ = "listening" THEN "closed" ELSE @]
    /\ open' = open - 1
    /\ UNCHANGED <<config, pending, exit>>

\* srv.Shutdown closes the listener and waits; the other servers go on.
Shutdown ==
    /\ Running /\ pc = "closing"
    /\ pc' = "draining"
    /\ server' = [server EXCEPT !["http"] = IF @ = "listening" THEN "closed" ELSE @]
    /\ UNCHANGED <<config, pending, open, exit>>

\* Mutant: srv.Close in the place of srv.Shutdown: nobody waits.
ExitAtOnce == Running /\ pc = "draining" /\ End("clean")

\* Shutdown returns when no request is in progress, and main with it; without an
\* error, since its context is never cancelled and a listener is taken to close.
Exit == Running /\ pc = "draining" /\ open = 0 /\ End("clean")

Arrive ==
    /\ Running /\ server["http"] = "listening" /\ open < MaxOpen
    /\ open' = open + 1
    /\ UNCHANGED <<config, pc, server, pending, exit>>

Finish ==
    /\ Running /\ open > 0
    /\ open' = open - 1
    /\ UNCHANGED <<config, pc, server, pending, exit>>

Main == \/ Boot
        \/ Launch("pprof", "files")
        \/ Launch("files", "http")
        \/ Launch("http", "notify")
        \/ Notify \/ Receive \/ Shutdown \/ Exit

Next == Main \/ (\E s \in Servers : Bind(s) \/ Fail(s)) \/ ServeReturns
        \/ SendSignal \/ Deliver \/ Arrive \/ Finish

\* Goroutines that can run are scheduled, sent signals are delivered, and the
\* handlers return; nobody has to send a signal or a request, and no socket that
\* may fail has to.
Fairness ==
    /\ WF_vars(Main) /\ WF_vars(ServeReturns)
    /\ \A s \in Servers : WF_vars(Bind(s))
    /\ WF_vars(Deliver) /\ WF_vars(Finish)

Spec == Init /\ [][Next]_vars /\ Fairness

----------------------------------------------------------------------------
TypeOK ==
    /\ port \in [Servers -> Ports \cup {Off, AnyPort}]
    /\ taken \subseteq Ports
    /\ failing \subseteq Servers
    /\ datasource \in BOOLEAN
    /\ pc \in Locations
    /\ server \in [Servers -> {"off", "launched", "listening", "closed", "ended"}]
    /\ pending \in BOOLEAN
    /\ open \in 0..MaxOpen
    /\ exit \in {"none", "panic", "fatal", "killed", "clean"}

\* A server is to listen on a port that is not free, or that another one is to have.
Contested(s) ==
    /\ port[s] \in Ports
    /\ \/ port[s] \in taken
       \/ \E t \in Servers \ {s} : port[t] = port[s]

Conflict == \E s \in Servers : Contested(s)

\* A listener ends the process (log.Fatalf) because its socket fails or because it
\* comes to listen on a contested port.  It is never the HTTP server once the
\* shutdown drains: not for the error that every orderly shutdown makes
\* ListenAndServe return, nor for a port or a socket that its goroutine, run late,
\* would not have got.
FatalHasCause ==
    exit = "fatal" =>
        \E s \in Servers :
            /\ s = "http" => pc # "draining"
            /\ \/ server[s] = "launched" /\ (Contested(s) \/ s \in failing)
               \/ server[s] = "listening" /\ s \in failing

\* The phases of Lifecycle that a state of the process stands for.
phase == CASE exit = "clean" -> "stopped"
           [] exit \in {"panic", "fatal", "killed"} -> "aborted"
           [] exit = "none" /\ pc = "draining" -> "draining"
           [] exit = "none" /\ pc # "draining" /\ server["http"] = "listening" -> "serving"
           [] OTHER -> "down"

Life == INSTANCE Lifecycle WITH inflight <- open

\* The process keeps the promise of Lifecycle: no request is taken once the
\* shutdown has begun, in whatever order signal, listener and requests come,
\* and a process that exits in good order leaves no request unanswered.
KeepsPromise == Life!LSpec

\* A conflict of ports never leaves a process running without one of its
\* servers: whichever goroutine comes first, the other one ends the process.
ConflictEnds == Conflict ~> ~Running

\* A user who goes on sending signals ends the process, with requests arriving
\* all the while, although signals are lost on the way.
Stops == []<>pending => <>~Running
=============================================================================
