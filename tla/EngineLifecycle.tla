-------------------------- MODULE EngineLifecycle --------------------------
(***************************************************************************)
(* Engine.Start, Engine.Stop and the callers that bounce the engine: the   *)
(* console, the service, the GUI and the detached goroutines of the        *)
(* dashboard (engineAction, applyConfigAsync).  Around them run the        *)
(* goroutines that read the globals cfg, sink, store and forward: accept   *)
(* loops and connection handlers, which handlerWG counts, and the handlers *)
(* of the HTTP servers, which it does not.                                 *)
(*                                                                         *)
(* A run of the engine is named by its number, and so is the stopping      *)
(* channel made for it.  The forwarder's own closing is in ForwardSpool.   *)
(***************************************************************************)
EXTENDS Naturals, FiniteSets

CONSTANTS
    Callers,        \* goroutines that start, stop or reconfigure the engine
    Conns,          \* connections handled by tracked goroutines (raw, LPD, SMB)
    Requests,       \* HTTP requests (IPP jobs, dashboard calls, event streams)
    Ops,            \* the operations the callers perform
    MaxCalls        \* bound: operations called

Runs == 1..MaxCalls     \* an operation starts one run at most
Free == "free"          \* the mutex is held by nobody

ASSUME EngineAssumption ==
    /\ MaxCalls \in Nat
    /\ Ops \subseteq {"start", "stop", "restart", "save", "apply"}
    /\ IsFiniteSet(Conns)
    /\ Free \notin Callers

\* The closers of a run, each standing for the listeners of its kind: TCP
\* listeners, HTTP servers, and the WSD service, an HTTP server that does not
\* count as an active listener.
Kinds == {"tcp", "http", "wsd"}
Listeners == Runs \X Kinds
Nobody == <<0, "http">>

VARIABLES
    mu,             \* Engine.mu: Free or the caller that holds it across steps
    running,        \* Engine.running
    run,            \* the number of Starts that built a run
    closers,        \* Engine.closers: the listeners open
    shutting,       \* the listener whose HTTP server is in Shutdown, or Nobody
    closedChans,    \* the runs whose stopping channel is closed
    cfg,            \* the configuration: one of two, replaced by the other
    pc, op,         \* per caller: where it stands, in which operation
    was,            \* per caller: wasRunning of applyConfigAsync
    stops,          \* per caller: the run its Stop closed, 0 if none
    loops,          \* accept and serve loops alive (tracked)
    conn,           \* per connection: the run that accepted it, 0 when not alive
    busy,           \* connections with data not read or answers not taken
    req,            \* per request: where it stands
    reqAt,          \* per request: the listener that accepted it
    stalled,        \* event streams that made a Shutdown run into its timeout
    calls           \* bound: operations called so far

engineVars == <<mu, running, run, closers, shutting, closedChans, cfg>>
callerVars == <<pc, op, was, stops, calls>>
connVars == <<loops, conn, busy>>
reqVars == <<req, reqAt, stalled>>
vars == <<engineVars, callerVars, connVars, reqVars>>

CallerPC == {"idle", "query", "stop", "closing", "shutdown", "unlock", "wait",
             "returned", "swap", "start"}
ReqState == {"none", "job", "connect", "subscribe", "stream", "tick", "done"}
StreamWaitsMu == {"connect", "subscribe", "tick"}

Init ==
    /\ mu = Free
    /\ running = FALSE
    /\ run = 0
    /\ closers = {}
    /\ shutting = Nobody
    /\ closedChans = {}
    /\ cfg = 0
    /\ pc = [c \in Callers |-> "idle"]
    /\ op = [c \in Callers |-> "none"]
    /\ was = [c \in Callers |-> FALSE]
    /\ stops = [c \in Callers |-> 0]
    /\ loops = {}
    /\ conn = [k \in Conns |-> 0]
    /\ busy = {}
    /\ req = [q \in Requests |-> "none"]
    /\ reqAt = [q \in Requests |-> Nobody]
    /\ stalled = {}
    /\ calls = 0

Goto(c, label) == pc' = [pc EXCEPT ![c] = label]

\* A caller is done, its locals are gone.
Done(c) ==
    /\ Goto(c, "idle")
    /\ op' = [op EXCEPT ![c] = "none"]
    /\ was' = [was EXCEPT ![c] = FALSE]
    /\ stops' = [stops EXCEPT ![c] = 0]

\* A caller goes on to a label with the locals it has.
Continue(c, label) == Goto(c, label) /\ UNCHANGED <<op, was, stops>>

\* What handlerWG counts.
Tracked == Cardinality(loops) + Cardinality({k \in Conns : conn[k] # 0})

\* The requests the server of a listener is still handling.
Serving(l) == {q \in Requests : req[q] \notin {"none", "done"} /\ reqAt[q] = l}

-----------------------------------------------------------------------------
(* The callers *)

\* A caller begins an operation: main, the service and the GUI call Start and
\* Stop, the dashboard spawns a goroutine for it.
Call(c) ==
    /\ pc[c] = "idle"
    /\ calls < MaxCalls
    /\ \E o \in Ops :
          /\ op' = [op EXCEPT ![c] = o]
          /\ Goto(c, CASE o = "start" -> "start"
                       [] o \in {"stop", "restart"} -> "stop"
                       [] OTHER -> "query")
    /\ calls' = calls + 1
    /\ UNCHANGED <<engineVars, was, stops, connVars, reqVars>>

\* applyConfigAsync: wasRunning := engine.Running(), and Stop only then.
QueryRunning(c) ==
    /\ pc[c] = "query"
    /\ mu = Free
    /\ was' = [was EXCEPT ![c] = running]
    /\ Goto(c, IF running THEN "stop" ELSE "swap")
    /\ UNCHANGED <<engineVars, op, stops, calls, connVars, reqVars>>

\* Start: nothing when running.  Otherwise a fresh stopping channel and every
\* listener that binds, its loop counted; a port still open cannot be bound.
\* The engine is running when an active listener came up.
Start(c) ==
    /\ pc[c] = "start"
    /\ mu = Free
    /\ Done(c)
    /\ IF running
       THEN UNCHANGED <<running, run, closers, loops>>
       ELSE \E up \in SUBSET {k \in Kinds : \A l \in closers : l[2] # k} :
              /\ run' = run + 1
              /\ closers' = closers \cup {<<run + 1, k>> : k \in up}
              /\ loops' = loops \cup {<<run + 1, k>> : k \in up}
              /\ running' = (up \cap {"tcp", "http"} # {})
    /\ UNCHANGED <<mu, shutting, closedChans, cfg, calls, conn, busy, reqVars>>

\* Variant: Stop does not look whether the engine runs.
BeginStopUnchecked(c) ==
    /\ pc[c] = "stop"
    /\ mu = Free
    /\ mu' = c
    /\ closedChans' = closedChans \cup {run}
    /\ stops' = [stops EXCEPT ![c] = run]
    /\ Goto(c, "closing")
    /\ UNCHANGED <<running, run, closers, shutting, cfg, op, was, calls, connVars, reqVars>>

\* Variant: Stop lets the lock go before the closers.
BeginStopUnlocked(c) ==
    /\ pc[c] = "stop"
    /\ mu = Free
    /\ IF running
       THEN /\ closedChans' = closedChans \cup {run}
            /\ stops' = [stops EXCEPT ![c] = run]
            /\ Goto(c, "closing")
       ELSE /\ Goto(c, "returned")
            /\ UNCHANGED <<closedChans, stops>>
    /\ UNCHANGED <<mu, running, run, closers, shutting, cfg, op, was, calls, connVars, reqVars>>

\* Stop returns at once when the engine does not run.  Otherwise it keeps the
\* lock, closes the stopping channel, and goes on to the closers.
BeginStop(c) ==
    /\ pc[c] = "stop"
    /\ mu = Free
    /\ IF running
       THEN /\ mu' = c
            /\ closedChans' = closedChans \cup {run}
            /\ stops' = [stops EXCEPT ![c] = run]
            /\ Goto(c, "closing")
       ELSE /\ Goto(c, "returned")
            /\ UNCHANGED <<mu, closedChans, stops>>
    /\ UNCHANGED <<running, run, closers, shutting, cfg, op, was, calls, connVars, reqVars>>

\* One closer after the other (in slice order; here in any order).  A TCP
\* listener closes at once; an HTTP server closes its listener and waits for its
\* handlers.
CloseOne(c) ==
    /\ pc[c] = "closing"
    /\ \E l \in closers :
          /\ closers' = closers \ {l}
          /\ IF l[2] = "tcp"
             THEN UNCHANGED <<pc, shutting>>
             ELSE Goto(c, "shutdown") /\ shutting' = l
    /\ UNCHANGED <<mu, running, run, closedChans, cfg, op, was, stops, calls,
                   connVars, reqVars>>

\* Variant: Shutdown waits for its handlers without a timeout.
EndShutdownNoTimeout(c) ==
    /\ pc[c] = "shutdown"
    /\ Serving(shutting) = {}
    /\ Goto(c, "closing")
    /\ shutting' = Nobody
    /\ UNCHANGED <<mu, running, run, closers, closedChans, cfg, op, was, stops, calls,
                   connVars, reqVars>>

\* httpCloser.Close: Shutdown ends when every handler has returned, or after
\* five seconds, time enough for a stream that is not waiting for the lock to
\* see its closed channel; Close then cuts the connections and waits for nobody.
EndShutdown(c) ==
    /\ pc[c] = "shutdown"
    /\ \A q \in Serving(shutting) : req[q] # "stream"
    /\ Goto(c, "closing")
    /\ shutting' = Nobody
    /\ stalled' = stalled \cup {q \in Serving(shutting) : req[q] # "job"}
    /\ UNCHANGED <<mu, running, run, closers, closedChans, cfg, op, was, stops, calls,
                   connVars, req, reqAt>>

\* Variant: Stop does not wait for the tracked goroutines.
UnlockNoWait(c) ==
    /\ pc[c] = "closing"
    /\ closers = {}
    /\ running' = FALSE
    /\ mu' = Free
    /\ Goto(c, "returned")
    /\ UNCHANGED <<run, closers, shutting, closedChans, cfg, op, was, stops, calls,
                   connVars, reqVars>>

\* Variant: Stop leaves the running flag.
UnlockRunning(c) ==
    /\ pc[c] = "closing"
    /\ closers = {}
    /\ mu' = Free
    /\ Goto(c, IF Tracked = 0 THEN "returned" ELSE "wait")
    /\ UNCHANGED <<running, run, closers, shutting, closedChans, cfg, op, was, stops,
                   calls, connVars, reqVars>>

\* The lock is released before handlerWG.Wait.
Unlock(c) ==
    /\ pc[c] = "closing"
    /\ closers = {}
    /\ running' = FALSE
    /\ mu' = Free
    /\ Goto(c, IF Tracked = 0 THEN "returned" ELSE "wait")
    /\ UNCHANGED <<run, closers, shutting, closedChans, cfg, op, was, stops, calls,
                   connVars, reqVars>>

\* Stop has returned to its caller.
AfterStop(c) ==
    /\ pc[c] = "returned"
    /\ CASE op[c] = "stop" -> Done(c)
         [] op[c] = "restart" -> Continue(c, "start")
         [] OTHER -> Continue(c, "swap")
    /\ UNCHANGED <<engineVars, calls, connVars, reqVars>>

\* applyConfigAsync assigns cfg, and starts the engine when it ran or is asked to.
SwapConfig(c) ==
    /\ pc[c] = "swap"
    /\ cfg' = 1 - cfg
    /\ IF was[c] \/ op[c] = "apply" THEN Continue(c, "start") ELSE Done(c)
    /\ UNCHANGED <<mu, running, run, closers, shutting, closedChans, calls,
                   connVars, reqVars>>

-----------------------------------------------------------------------------
(* Tracked goroutines *)

\* When the counter reaches zero every waiting Stop is released.
Release ==
    pc' = [c \in Callers |-> IF pc[c] = "wait" /\ Tracked' = 0 THEN "returned" ELSE pc[c]]

\* An accept or serve loop returns once its listener is closed.
EndLoop(l) ==
    /\ l \in loops \ closers
    /\ loops' = loops \ {l}
    /\ UNCHANGED <<conn, busy>>
    /\ Release
    /\ UNCHANGED <<engineVars, op, was, stops, calls, reqVars>>

\* An accept loop, also one that accepted just before its listener was closed,
\* hands the connection to a tracked handler.
Accept(l, k) ==
    /\ l \in loops /\ l[2] = "tcp"
    /\ conn[k] = 0
    /\ conn' = [conn EXCEPT ![k] = l[1]]
    /\ UNCHANGED <<engineVars, callerVars, loops, busy, reqVars>>

\* The client of a connection sends: a part of a job, a command, a frame.
Send(k) ==
    /\ conn[k] # 0
    /\ k \notin busy
    /\ busy' = busy \cup {k}
    /\ UNCHANGED <<engineVars, callerVars, loops, conn, reqVars>>

\* The handler has read it and its client has taken the answers; the next read
\* arms the idle deadline again.
Serve(k) ==
    /\ k \in busy
    /\ busy' = busy \ {k}
    /\ UNCHANGED <<engineVars, callerVars, loops, conn, reqVars>>

\* A handler ends with its client, a protocol error or the byte cap, when it has
\* served its job, or by the idle read deadline.
EndConn(k) ==
    /\ conn[k] # 0
    /\ conn' = [conn EXCEPT ![k] = 0]
    /\ busy' = busy \ {k}
    /\ UNCHANGED loops
    /\ Release
    /\ UNCHANGED <<engineVars, op, was, stops, calls, reqVars>>

-----------------------------------------------------------------------------
(* HTTP handlers, not tracked *)

\* A server with an open listener starts a handler: a job or another short
\* call, or the event stream of the dashboard.
Request(q) ==
    /\ req[q] = "none"
    /\ \E l \in closers :
          /\ l[2] # "tcp"
          /\ reqAt' = [reqAt EXCEPT ![q] = l]
          /\ \/ req' = [req EXCEPT ![q] = "job"]
             \/ l[2] = "http" /\ req' = [req EXCEPT ![q] = "connect"]
    /\ UNCHANGED <<engineVars, callerVars, connVars, stalled>>

\* A job's handler returns when its client has sent everything.
EndJob(q) ==
    /\ req[q] = "job"
    /\ req' = [req EXCEPT ![q] = "done"]
    /\ UNCHANGED <<engineVars, callerVars, connVars, reqAt, stalled>>

\* apiEvents sends a first event and subscribes to the stopping channel; send
\* asks the engine for its listeners, and both take Engine.mu.
Subscribe(q) ==
    /\ mu = Free
    /\ \/ req[q] = "connect" /\ req' = [req EXCEPT ![q] = "subscribe"]
       \/ req[q] = "subscribe" /\ req' = [req EXCEPT ![q] = "stream"]
    /\ UNCHANGED <<engineVars, callerVars, connVars, reqAt, stalled>>

\* Every tick sends another event, for which it needs the lock.
Tick(q) ==
    /\ req[q] = "stream"
    /\ req' = [req EXCEPT ![q] = "tick"]
    /\ UNCHANGED <<engineVars, callerVars, connVars, reqAt, stalled>>

SendEvent(q) ==
    /\ req[q] = "tick"
    /\ mu = Free
    /\ req' = [req EXCEPT ![q] = "stream"]
    /\ UNCHANGED <<engineVars, callerVars, connVars, reqAt, stalled>>

\* The stream ends with its stopping channel, its client, or its connection cut.
EndStream(q) ==
    /\ req[q] = "stream"
    /\ req' = [req EXCEPT ![q] = "done"]
    /\ UNCHANGED <<engineVars, callerVars, connVars, reqAt, stalled>>

-----------------------------------------------------------------------------
CallerStep(c) ==
    \/ QueryRunning(c) \/ Start(c) \/ BeginStop(c) \/ CloseOne(c) \/ EndShutdown(c)
    \/ Unlock(c) \/ AfterStop(c) \/ SwapConfig(c)

Stream(q) == Subscribe(q) \/ Tick(q) \/ SendEvent(q) \/ EndStream(q)

Next ==
    \/ \E c \in Callers : Call(c) \/ CallerStep(c)
    \/ \E l \in Listeners : EndLoop(l)
    \/ \E l \in Listeners, k \in Conns : Accept(l, k)
    \/ \E k \in Conns : Send(k) \/ Serve(k) \/ EndConn(k)
    \/ \E q \in Requests : Request(q) \/ EndJob(q) \/ Stream(q)

\* Callers and loops run; a stream runs; a connection ends by its idle read
\* deadline, 60 seconds of silence, which every read arms anew and which does not
\* bound a write: nothing ends a connection its client keeps busy.  Nobody has to
\* call, connect, fall silent, take an answer, or finish sending a job.
Fairness ==
    /\ \A c \in Callers : WF_vars(CallerStep(c))
    /\ \A l \in Listeners : WF_vars(EndLoop(l))
    /\ \A k \in Conns : WF_vars(k \notin busy /\ EndConn(k))
    /\ \A q \in Requests : WF_vars(Stream(q))

Spec == Init /\ [][Next]_vars /\ Fairness

-----------------------------------------------------------------------------
(* Properties *)

\* The values the variables take.
TypeOK ==
    /\ mu \in {Free} \cup Callers
    /\ running \in BOOLEAN
    /\ run \in 0..calls
    /\ calls \in 0..MaxCalls
    /\ closers \subseteq Listeners
    /\ shutting \in Listeners \cup {Nobody}
    /\ closedChans \subseteq Runs
    /\ cfg \in {0, 1}
    /\ pc \in [Callers -> CallerPC]
    /\ op \in [Callers -> {"none"} \cup Ops]
    /\ was \in [Callers -> BOOLEAN]
    /\ stops \in [Callers -> {0} \cup Runs]
    /\ loops \subseteq Listeners
    /\ conn \in [Conns -> {0} \cup Runs]
    /\ busy \subseteq Conns
    /\ req \in [Requests -> ReqState]
    /\ reqAt \in [Requests -> Listeners \cup {Nobody}]
    /\ stalled \subseteq Requests

\* The tracked goroutines of run r and of the runs before it.
TrackedUpTo(r) ==
    {l \in loops : l[1] <= r} \cup {k \in Conns : conn[k] \in 1..r}

\* A Stop that closed a run has returned => no loop and no connection handler of
\* that run or of an earlier one is left, whatever the other callers do.  The
\* lock is free while Stop waits, so starts and stops of others interleave.
StopDrains ==
    \A c \in Callers :
        pc[c] \in {"returned", "swap", "start"} => TrackedUpTo(stops[c]) = {}

\* The stopping channel of a running engine is open, unless the Stop that closes
\* the run has the lock: it is never closed twice, which would panic.
ChannelOpen ==
    running /\ run \in closedChans => \E c \in Callers : mu = c /\ stops[c] = run

\* A listener kind is open once at most, and two Stops never work on the
\* closers together.
OneCloser ==
    /\ \A c, d \in Callers : pc[c] \in {"closing", "shutdown"} /\
                             pc[d] \in {"closing", "shutdown"} => c = d
    /\ \A l, m \in closers : l[2] = m[2] => l = m

\* A Stop gets past Shutdown and releases the lock, whatever the HTTP handlers
\* wait for.  Its wait ends once the clients of tracked connections fall silent,
\* unless another start brought up a new run whose goroutines it then waits for,
\* too: whenever it waits, it returns, or one of them sends again.
StopReturns ==
    /\ mu # Free ~> mu = Free
    /\ \A c \in Callers :
          pc[c] = "wait" ~> pc[c] # "wait" \/ run > stops[c] \/ busy # {}

\* The wait of a Stop ends, whatever the clients do, when no new run begins
\* ("In-flight per-conn handlers unwind via their idle read deadlines").
HandlersUnwind ==
    \A c \in Callers : pc[c] = "wait" ~> pc[c] # "wait" \/ run > stops[c]

\* applyConfigAsync replaces the configuration only when no tracked connection
\* handler is left to read it ("stopped FIRST so every handler goroutine that
\* reads the global cfg has drained").
ConfigSwapDrained ==
    [][cfg' # cfg => \A k \in Conns : conn[k] = 0]_vars

\* An engine that has been stopped serves no HTTP request: a Stop has returned,
\* and no later run has begun => no handler of the run it closed is left.
StoppedServesNothing ==
    \A c \in Callers : \A q \in Requests :
        pc[c] = "returned" /\ stops[c] # 0 /\ req[q] \notin {"none", "done"} =>
            reqAt[q][1] > stops[c]

\* No event stream makes the graceful shutdown run into its timeout.
StreamsLetShutdownEnd == stalled = {}
=============================================================================
