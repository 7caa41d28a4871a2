------------------------ MODULE EngineLifecycle_proofs ------------------------
(***************************************************************************)
(* Proofs about EngineLifecycle, for any number of callers, connections    *)
(* and requests.                                                           *)
(***************************************************************************)
EXTENDS EngineLifecycle, FiniteSetTheorems, TLAPS

\* The types the proofs need; the runs may be any number.
Typing ==
    /\ run \in Nat
    /\ running => run # 0
    /\ mu \in {Free} \cup Callers
    /\ loops \subseteq (1..run) \X Kinds
    /\ closers \subseteq (1..run) \X Kinds
    /\ closedChans \subseteq 1..run
    /\ conn \in [Conns -> Nat]
    /\ pc \in [Callers -> CallerPC]
    /\ stops \in [Callers -> 0..run]

\* Who is at the closers holds the lock of the engine it found running; nobody
\* else holds it.
LockInv ==
    /\ \A c \in Callers : pc[c] \in {"closing", "shutdown"} =>
                              mu = c /\ running /\ stops[c] = run
    /\ mu # Free => pc[mu] \in {"closing", "shutdown"}

\* A caller that has not yet stopped anything has no run to wait for; one that
\* has gone past the closers has none of them left.
StopInv ==
    /\ \A c \in Callers : pc[c] \in {"idle", "query", "stop"} => stops[c] = 0
    /\ \A c \in Callers : pc[c] \in {"wait", "returned", "swap", "start"} =>
                              \A l \in closers : l[1] > stops[c]

Inv == Typing /\ LockInv /\ StopInv /\ StopDrains /\ ChannelOpen /\ OneCloser

-----------------------------------------------------------------------------
\* Two finite sets that count to nothing are empty.
LEMMA NoneLeft ==
    ASSUME NEW L, NEW K, IsFiniteSet(L), IsFiniteSet(K),
           Cardinality(L) + Cardinality(K) = 0
    PROVE  L = {} /\ K = {}
<1>1. Cardinality(L) \in Nat /\ Cardinality(K) \in Nat
  BY FS_CardinalityType
<1>2. Cardinality(L) = 0 /\ Cardinality(K) = 0
  BY <1>1
<1>3. QED BY <1>2, FS_EmptySet

\* The loops of finitely many runs are finitely many.
LEMMA LoopsFinite ==
    ASSUME NEW n \in Nat, NEW L, L \subseteq (1..n) \X Kinds
    PROVE  IsFiniteSet(L)
<1>1. IsFiniteSet(1..n)
  BY FS_Interval
<1>2. IsFiniteSet(Kinds)
  <2>1. IsFiniteSet({}) BY FS_EmptySet
  <2>2. IsFiniteSet({} \cup {"tcp"}) BY <2>1, FS_AddElement
  <2>3. IsFiniteSet(({} \cup {"tcp"}) \cup {"http"}) BY <2>2, FS_AddElement
  <2>4. IsFiniteSet((({} \cup {"tcp"}) \cup {"http"}) \cup {"wsd"}) BY <2>3, FS_AddElement
  <2>5. Kinds = (({} \cup {"tcp"}) \cup {"http"}) \cup {"wsd"} BY DEF Kinds
  <2>6. QED BY <2>4, <2>5
<1>3. IsFiniteSet((1..n) \X Kinds)
  BY <1>1, <1>2, FS_Product
<1>4. QED BY <1>3, FS_Subset

\* A count of zero means that no tracked goroutine is alive.
LEMMA TrackedNone ==
    ASSUME Typing, Tracked = 0
    PROVE  loops = {} /\ \A k \in Conns : conn[k] = 0
<1>1. IsFiniteSet(loops)
  BY LoopsFinite DEF Typing
<1>2. IsFiniteSet({k \in Conns : conn[k] # 0})
  BY EngineAssumption, FS_Subset
<1>3. loops = {} /\ {k \in Conns : conn[k] # 0} = {}
  BY <1>1, <1>2, NoneLeft DEF Tracked
<1>4. QED BY <1>3

\* The same of the next state, for the steps that end a tracked goroutine.
LEMMA TrackedNonePrimed ==
    ASSUME Typing', Tracked' = 0
    PROVE  loops' = {} /\ \A k \in Conns : conn'[k] = 0
<1>1. IsFiniteSet(loops')
  BY LoopsFinite DEF Typing
<1>2. IsFiniteSet({k \in Conns : conn'[k] # 0})
  BY EngineAssumption, FS_Subset
<1>3. loops' = {} /\ {k \in Conns : conn'[k] # 0} = {}
  BY <1>1, <1>2, NoneLeft DEF Tracked
<1>4. QED BY <1>3

-----------------------------------------------------------------------------
\* Nothing runs at first.
LEMMA InitInv == Init => Inv
BY EngineAssumption DEF Init, Inv, Typing, LockInv, StopInv, StopDrains, TrackedUpTo,
   ChannelOpen, OneCloser, CallerPC, Kinds, Free

\* Steps that touch neither the engine, the callers nor what is tracked.
LEMMA QuietInv ==
    ASSUME Inv, UNCHANGED <<run, mu, loops, closers, closedChans, conn, pc, stops, running>>
    PROVE  Inv'
BY DEF Inv, Typing, LockInv, StopInv, StopDrains, TrackedUpTo, ChannelOpen, OneCloser

\* A run numbered zero never was, so nothing of it is tracked.
LEMMA NothingBeforeRuns ==
    ASSUME Typing
    PROVE  TrackedUpTo(0) = {} /\ \A l \in closers \cup loops : l[1] > 0
<1>1. \A l \in closers \cup loops : l[1] \in 1..run
  BY DEF Typing
<1>2. QED BY <1>1 DEF Typing, TrackedUpTo

\* What StopDrains says of one caller, loop by loop and connection by connection.
LEMMA DrainedMeans ==
    ASSUME StopDrains, NEW d \in Callers, pc[d] \in {"returned", "swap", "start"}
    PROVE  /\ \A l \in loops : ~(l[1] <= stops[d])
           /\ \A k \in Conns : conn[k] \notin 1..stops[d]
BY DEF StopDrains, TrackedUpTo

\* A caller away from the closers moves to another label away from them.
LEMMA MoveInv ==
    ASSUME Inv, NEW c \in Callers, NEW label \in CallerPC,
           pc' = [pc EXCEPT ![c] = label],
           UNCHANGED <<run, mu, loops, closers, closedChans, conn, stops, running>>,
           pc[c] \notin {"closing", "shutdown"}, label \notin {"closing", "shutdown"},
           stops[c] = 0 \/ pc[c] \in {"returned", "swap", "start"},
           stops[c] = 0 \/ label \in {"returned", "swap", "start"}
    PROVE  Inv'
<1>1. Typing'
  BY DEF Inv, Typing
<1>2. LockInv'
  BY DEF Inv, Typing, LockInv, Free
<1>3. TrackedUpTo(0) = {} /\ \A l \in closers \cup loops : l[1] > 0
  BY NothingBeforeRuns DEF Inv
<1>4. StopInv'
  BY <1>3 DEF Inv, Typing, StopInv
<1>5. StopDrains'
  BY <1>3 DEF Inv, Typing, StopDrains, TrackedUpTo
<1>6. ChannelOpen' /\ OneCloser'
  BY DEF Inv, Typing, ChannelOpen, OneCloser
<1>7. QED BY <1>1, <1>2, <1>4, <1>5, <1>6 DEF Inv

\* A caller away from the closers is done.
LEMMA DoneInv ==
    ASSUME Inv, NEW c \in Callers, Done(c),
           UNCHANGED <<run, mu, loops, closers, closedChans, conn, running>>,
           pc[c] \notin {"closing", "shutdown"}
    PROVE  Inv'
<1>1. pc' = [pc EXCEPT ![c] = "idle"] /\ stops' = [stops EXCEPT ![c] = 0]
  BY DEF Done, Goto
<1>2. Typing'
  BY <1>1 DEF Inv, Typing, CallerPC
<1>3. LockInv'
  BY <1>1 DEF Inv, Typing, LockInv, Free
<1>4. StopInv'
  BY <1>1 DEF Inv, Typing, StopInv
<1>5. StopDrains'
  BY <1>1 DEF Inv, Typing, StopDrains, TrackedUpTo
<1>6. ChannelOpen'
  BY <1>1, EngineAssumption DEF Inv, Typing, ChannelOpen, LockInv
<1>7. OneCloser'
  BY <1>1 DEF Inv, Typing, OneCloser
<1>8. QED BY <1>2, <1>3, <1>4, <1>5, <1>6, <1>7 DEF Inv

\* The steps of a caller that leave the engine alone.
LEMMA CallerInv ==
    ASSUME Inv, NEW c \in Callers,
           Call(c) \/ QueryRunning(c) \/ AfterStop(c) \/ SwapConfig(c)
    PROVE  Inv'
<1> USE DEF engineVars, connVars, callerVars
<1>1. CASE Call(c)
  <2>1. pc[c] = "idle" /\ stops[c] = 0
    BY <1>1 DEF Call, Inv, StopInv
  <2>2. PICK label \in {"start", "stop", "query"} : pc' = [pc EXCEPT ![c] = label]
    BY <1>1 DEF Call, Goto
  <2>3. UNCHANGED <<run, mu, loops, closers, closedChans, conn, stops, running>>
    BY <1>1 DEF Call
  <2>4. QED BY <2>1, <2>2, <2>3, MoveInv DEF CallerPC
<1>2. CASE QueryRunning(c)
  <2>1. pc[c] = "query" /\ stops[c] = 0
    BY <1>2 DEF QueryRunning, Inv, StopInv
  <2>2. PICK label \in {"stop", "swap"} : pc' = [pc EXCEPT ![c] = label]
    BY <1>2 DEF QueryRunning, Goto
  <2>3. UNCHANGED <<run, mu, loops, closers, closedChans, conn, stops, running>>
    BY <1>2 DEF QueryRunning
  <2>4. QED BY <2>1, <2>2, <2>3, MoveInv DEF CallerPC
<1>3. CASE AfterStop(c)
  <2>1. pc[c] = "returned" /\ UNCHANGED <<run, mu, loops, closers, closedChans, conn, running>>
    BY <1>3 DEF AfterStop
  <2>2. Done(c) \/ Continue(c, "start") \/ Continue(c, "swap")
    BY <1>3 DEF AfterStop
  <2>3. CASE Done(c)
    BY <2>1, <2>3, DoneInv
  <2>4. CASE Continue(c, "start") \/ Continue(c, "swap")
    <3>1. PICK label \in {"start", "swap"} : pc' = [pc EXCEPT ![c] = label]
      BY <2>4 DEF Continue, Goto
    <3>2. stops' = stops
      BY <2>4 DEF Continue
    <3>3. QED BY <2>1, <3>1, <3>2, MoveInv DEF CallerPC
  <2>5. QED BY <2>2, <2>3, <2>4
<1>4. CASE SwapConfig(c)
  <2>1. pc[c] = "swap" /\ UNCHANGED <<run, mu, loops, closers, closedChans, conn, running>>
    BY <1>4 DEF SwapConfig
  <2>2. Done(c) \/ Continue(c, "start")
    BY <1>4 DEF SwapConfig
  <2>3. CASE Done(c)
    BY <2>1, <2>3, DoneInv
  <2>4. CASE Continue(c, "start")
    <3>1. pc' = [pc EXCEPT ![c] = "start"] /\ stops' = stops
      BY <2>4 DEF Continue, Goto
    <3>2. QED BY <2>1, <3>1, MoveInv DEF CallerPC
  <2>5. QED BY <2>2, <2>3, <2>4
<1>5. QED BY <1>1, <1>2, <1>3, <1>4

-----------------------------------------------------------------------------
\* A start adds a run of a higher number, and listeners of kinds not yet open.
LEMMA StartInv ==
    ASSUME Inv, NEW c \in Callers, Start(c)
    PROVE  Inv'
<1> USE DEF engineVars, connVars, callerVars
<1>1. /\ pc[c] = "start" /\ mu = Free /\ Done(c)
      /\ UNCHANGED <<mu, closedChans, conn>>
  BY DEF Start
<1>2. CASE running
  BY <1>1, <1>2, DoneInv DEF Start
<1>3. CASE ~running
  <2>1. PICK up \in SUBSET {k \in Kinds : \A l \in closers : l[2] # k} :
          /\ run' = run + 1
          /\ closers' = closers \cup {<<run + 1, k>> : k \in up}
          /\ loops' = loops \cup {<<run + 1, k>> : k \in up}
          /\ running' = (up \cap {"tcp", "http"} # {})
    BY <1>3 DEF Start
  <2>2. pc' = [pc EXCEPT ![c] = "idle"] /\ stops' = [stops EXCEPT ![c] = 0]
    BY <1>1 DEF Done, Goto
  <2>3. Typing'
    <3>1. run \in Nat /\ run' \in Nat /\ 1..run \subseteq 1..run' /\ run + 1 \in 1..run'
          /\ 0..run \subseteq 0..run'
      BY <2>1 DEF Inv, Typing
    <3>2. {<<run + 1, k>> : k \in up} \subseteq (1..run') \X Kinds
      BY <3>1
    <3>3. (1..run) \X Kinds \subseteq (1..run') \X Kinds
      BY <3>1
    <3>4. loops' \subseteq (1..run') \X Kinds /\ closers' \subseteq (1..run') \X Kinds
      BY <2>1, <3>2, <3>3 DEF Inv, Typing
    <3>5. pc' \in [Callers -> CallerPC] /\ stops' \in [Callers -> 0..run']
      BY <2>2, <3>1 DEF Inv, Typing, CallerPC
    <3>6. QED BY <1>1, <3>1, <3>4, <3>5 DEF Inv, Typing
  <2>4. LockInv'
    BY <1>1, <1>3, <2>2 DEF Inv, Typing, LockInv
  <2>5. \A d \in Callers : stops[d] < run + 1 /\ stops[d] \in Nat
    BY DEF Inv, Typing
  <2>6. StopInv'
    BY <2>1, <2>2, <2>5 DEF Inv, Typing, StopInv
  <2>7. StopDrains'
    <3>1. SUFFICES ASSUME NEW d \in Callers, pc'[d] \in {"returned", "swap", "start"}
                   PROVE  /\ \A l \in loops' : ~(l[1] <= stops'[d])
                          /\ \A k \in Conns : conn'[k] \notin 1..stops'[d]
      BY DEF StopDrains, TrackedUpTo
    <3>2. d # c /\ pc'[d] = pc[d] /\ stops'[d] = stops[d]
      BY <2>2, <3>1 DEF Inv, Typing
    <3>3. /\ \A l \in loops : ~(l[1] <= stops[d])
          /\ \A k \in Conns : conn[k] \notin 1..stops[d]
      BY <3>1, <3>2, DrainedMeans DEF Inv
    <3>4. \A l \in loops' : l \in loops \/ l[1] = run + 1
      BY <2>1
    <3>5. QED BY <1>1, <2>1, <2>5, <3>2, <3>3, <3>4 DEF Inv, Typing
  <2>8. ChannelOpen'
    BY <1>1, <2>1 DEF Inv, Typing, ChannelOpen
  <2>9. OneCloser'
    <3>1. \A d \in Callers : pc'[d] \notin {"closing", "shutdown"}
      BY <1>1, <2>2, EngineAssumption DEF Inv, Typing, LockInv
    <3>2. \A l, m \in closers' : l[2] = m[2] => l = m
      BY <2>1 DEF Inv, OneCloser
    <3>3. QED BY <3>1, <3>2 DEF OneCloser
  <2>10. QED BY <2>3, <2>4, <2>6, <2>7, <2>8, <2>9 DEF Inv
<1>4. QED BY <1>2, <1>3

-----------------------------------------------------------------------------
\* Stop takes the lock of a running engine and closes its channel, or returns.
LEMMA BeginStopInv ==
    ASSUME Inv, NEW c \in Callers, BeginStop(c)
    PROVE  Inv'
<1> USE DEF engineVars, connVars, callerVars
<1>1. /\ pc[c] = "stop" /\ stops[c] = 0 /\ mu = Free
      /\ UNCHANGED <<running, run, closers, loops, conn>>
  BY DEF BeginStop, Inv, StopInv
<1>2. CASE ~running
  <2>1. pc' = [pc EXCEPT ![c] = "returned"] /\ UNCHANGED <<mu, closedChans, stops>>
    BY <1>2 DEF BeginStop, Goto
  <2>2. QED BY <1>1, <2>1, MoveInv DEF CallerPC
<1>3. CASE running
  <2>1. /\ pc' = [pc EXCEPT ![c] = "closing"]
        /\ stops' = [stops EXCEPT ![c] = run]
        /\ mu' = c
        /\ closedChans' = closedChans \cup {run}
    BY <1>3 DEF BeginStop, Goto
  <2>2. \A d \in Callers : pc[d] \notin {"closing", "shutdown"}
    BY <1>1, EngineAssumption DEF Inv, LockInv
  <2>3. Typing'
    BY <1>1, <1>3, <2>1 DEF Inv, Typing, CallerPC
  <2>4. LockInv'
    BY <1>1, <1>3, <2>1, <2>2 DEF Inv, Typing, LockInv
  <2>5. StopInv'
    BY <1>1, <2>1 DEF Inv, Typing, StopInv
  <2>6. StopDrains'
    <3>1. SUFFICES ASSUME NEW d \in Callers, pc'[d] \in {"returned", "swap", "start"}
                   PROVE  /\ \A l \in loops' : ~(l[1] <= stops'[d])
                          /\ \A k \in Conns : conn'[k] \notin 1..stops'[d]
      BY DEF StopDrains, TrackedUpTo
    <3>2. pc'[d] = pc[d] /\ stops'[d] = stops[d]
      BY <2>1, <3>1 DEF Inv, Typing
    <3>3. QED BY <1>1, <3>1, <3>2, DrainedMeans DEF Inv
  <2>7. ChannelOpen' /\ OneCloser'
    BY <1>1, <2>1, <2>2 DEF Inv, Typing, ChannelOpen, OneCloser
  <2>8. QED BY <2>3, <2>4, <2>5, <2>6, <2>7 DEF Inv
<1>4. QED BY <1>2, <1>3

\* The closer at work closes a listener, or comes back from a Shutdown.
LEMMA CloserInv ==
    ASSUME Inv, NEW c \in Callers, CloseOne(c) \/ EndShutdown(c)
    PROVE  Inv'
<1> USE DEF engineVars, connVars, callerVars
<1>1. /\ pc[c] \in {"closing", "shutdown"}
      /\ closers' \subseteq closers
      /\ UNCHANGED <<mu, running, run, closedChans, stops, loops, conn>>
  BY DEF CloseOne, EndShutdown, Continue
<1>2. PICK label \in {"closing", "shutdown"} : pc' = [pc EXCEPT ![c] = label]
  <2>1. CASE CloseOne(c)
    <3>1. pc[c] = "closing" /\ (pc' = pc \/ pc' = [pc EXCEPT ![c] = "shutdown"])
      BY <2>1 DEF CloseOne, Goto
    <3>2. [pc EXCEPT ![c] = "closing"] = pc
      BY <3>1 DEF Inv, Typing
    <3>3. QED BY <3>1, <3>2
  <2>2. CASE EndShutdown(c)
    BY <2>2 DEF EndShutdown, Goto
  <2>3. QED BY <2>1, <2>2
<1>3. Typing'
  BY <1>1, <1>2 DEF Inv, Typing, CallerPC
<1>4. LockInv'
  BY <1>1, <1>2 DEF Inv, Typing, LockInv
<1>5. StopInv'
  BY <1>1, <1>2 DEF Inv, Typing, StopInv
<1>6. StopDrains'
  BY <1>1, <1>2 DEF Inv, Typing, StopDrains, TrackedUpTo
<1>7. ChannelOpen' /\ OneCloser'
  BY <1>1, <1>2 DEF Inv, Typing, ChannelOpen, OneCloser
<1>8. QED BY <1>3, <1>4, <1>5, <1>6, <1>7 DEF Inv

\* The closer lets the lock go: to wait, or to return when nothing is tracked.
LEMMA UnlockInv ==
    ASSUME Inv, NEW c \in Callers, Unlock(c)
    PROVE  Inv'
<1> USE DEF engineVars, connVars, callerVars
<1>1. /\ pc[c] = "closing" /\ closers = {} /\ running' = FALSE /\ mu' = Free
      /\ UNCHANGED <<run, closers, closedChans, stops, loops, conn>>
  BY DEF Unlock
<1>2. PICK label \in {"wait", "returned"} :
        pc' = [pc EXCEPT ![c] = label] /\ (label = "returned" => Tracked = 0)
  BY DEF Unlock, Goto
<1>3. \A d \in Callers : pc[d] \in {"closing", "shutdown"} => d = c
  BY <1>1 DEF Inv, OneCloser
<1>4. Typing'
  BY <1>1, <1>2 DEF Inv, Typing, CallerPC
<1>5. LockInv'
  BY <1>1, <1>2, <1>3 DEF Inv, Typing, LockInv
<1>6. StopInv'
  BY <1>1, <1>2 DEF Inv, Typing, StopInv
<1>7. StopDrains'
  <2>1. SUFFICES ASSUME NEW d \in Callers, pc'[d] \in {"returned", "swap", "start"}
                 PROVE  /\ \A l \in loops : ~(l[1] <= stops[d])
                        /\ \A k \in Conns : conn[k] \notin 1..stops[d]
    BY <1>1 DEF StopDrains, TrackedUpTo
  <2>2. CASE d = c
    <3>1. Tracked = 0
      BY <1>2, <2>1, <2>2 DEF Inv, Typing
    <3>2. QED BY <3>1, TrackedNone DEF Inv, Typing
  <2>3. CASE d # c
    BY <1>2, <2>1, <2>3, DrainedMeans DEF Inv, Typing
  <2>4. QED BY <2>2, <2>3
<1>8. ChannelOpen' /\ OneCloser'
  BY <1>1, <1>2, <1>3 DEF Inv, Typing, ChannelOpen, OneCloser
<1>9. QED BY <1>4, <1>5, <1>6, <1>7, <1>8 DEF Inv

-----------------------------------------------------------------------------
\* A tracked goroutine ends; the Stops that wait return with the last one.
LEMMA ReleaseInv ==
    ASSUME Inv, Release, loops' \subseteq loops, conn' \in [Conns -> Nat],
           \A k \in Conns : conn'[k] \in {0, conn[k]},
           UNCHANGED <<mu, running, run, closers, closedChans, stops>>
    PROVE  Inv'
<1>1. \A d \in Callers :
        pc'[d] = IF pc[d] = "wait" /\ Tracked' = 0 THEN "returned" ELSE pc[d]
  BY DEF Release
<1>2. Typing'
  BY <1>1 DEF Inv, Typing, Release, CallerPC
<1>3. LockInv'
  BY <1>1, EngineAssumption DEF Inv, Typing, LockInv
<1>4. StopInv'
  BY <1>1 DEF Inv, Typing, StopInv
<1>5. StopDrains'
  <2>1. SUFFICES ASSUME NEW d \in Callers, pc'[d] \in {"returned", "swap", "start"}
                 PROVE  /\ \A l \in loops' : ~(l[1] <= stops[d])
                        /\ \A k \in Conns : conn'[k] \notin 1..stops[d]
    BY DEF StopDrains, TrackedUpTo
  <2>2. CASE pc[d] = "wait"
    <3>1. Tracked' = 0
      BY <1>1, <2>1, <2>2
    <3>2. loops' = {} /\ \A k \in Conns : conn'[k] = 0
      BY <1>2, <3>1, TrackedNonePrimed
    <3>3. QED BY <3>2 DEF Inv, Typing
  <2>3. CASE pc[d] # "wait"
    <3>1. /\ \A l \in loops : ~(l[1] <= stops[d])
          /\ \A k \in Conns : conn[k] \notin 1..stops[d]
      BY <1>1, <2>1, <2>3, DrainedMeans DEF Inv
    <3>2. stops[d] \in Nat
      BY DEF Inv, Typing
    <3>3. QED BY <3>1, <3>2
  <2>4. QED BY <2>2, <2>3
<1>6. ChannelOpen' /\ OneCloser'
  BY <1>1 DEF Inv, ChannelOpen, OneCloser
<1>7. QED BY <1>2, <1>3, <1>4, <1>5, <1>6 DEF Inv

\* A loop ends or a connection does.
LEMMA EndInv ==
    ASSUME Inv, (\E l \in Listeners : EndLoop(l)) \/ (\E k \in Conns : EndConn(k))
    PROVE  Inv'
<1> USE DEF engineVars
<1>1. CASE \E l \in Listeners : EndLoop(l)
  <2>1. /\ Release /\ loops' \subseteq loops /\ conn' = conn
        /\ UNCHANGED <<mu, running, run, closers, closedChans, stops>>
    BY <1>1 DEF EndLoop
  <2>2. QED BY <2>1, ReleaseInv DEF Inv, Typing
<1>2. CASE \E k \in Conns : EndConn(k)
  <2>1. PICK k \in Conns :
          /\ Release /\ loops' = loops /\ conn' = [conn EXCEPT ![k] = 0]
          /\ UNCHANGED <<mu, running, run, closers, closedChans, stops>>
    BY <1>2 DEF EndConn
  <2>2. conn' \in [Conns -> Nat] /\ \A j \in Conns : conn'[j] \in {0, conn[j]}
    BY <2>1 DEF Inv, Typing
  <2>3. QED BY <2>1, <2>2, ReleaseInv
<1>3. QED BY <1>1, <1>2

\* A connection belongs to the run of the loop that accepted it, and that loop is
\* counted: no loop of a drained run is left to accept one.
LEMMA AcceptInv ==
    ASSUME Inv, NEW l \in Listeners, NEW k \in Conns, Accept(l, k)
    PROVE  Inv'
<1> USE DEF engineVars, callerVars
<1>1. /\ l \in loops /\ conn' = [conn EXCEPT ![k] = l[1]]
      /\ UNCHANGED <<mu, running, run, closers, closedChans, pc, stops, loops>>
  BY DEF Accept
<1>2. l[1] \in Nat
  BY <1>1 DEF Inv, Typing
<1>3. Typing'
  BY <1>1, <1>2 DEF Inv, Typing
<1>4. LockInv' /\ StopInv' /\ ChannelOpen' /\ OneCloser'
  BY <1>1 DEF Inv, LockInv, StopInv, ChannelOpen, OneCloser
<1>5. StopDrains'
  <2>1. SUFFICES ASSUME NEW d \in Callers, pc[d] \in {"returned", "swap", "start"}
                 PROVE  /\ \A m \in loops : ~(m[1] <= stops[d])
                        /\ \A j \in Conns : conn'[j] \notin 1..stops[d]
    BY <1>1 DEF StopDrains, TrackedUpTo
  <2>2. /\ \A m \in loops : ~(m[1] <= stops[d])
        /\ \A j \in Conns : conn[j] \notin 1..stops[d]
    BY <2>1, DrainedMeans DEF Inv
  <2>3. stops[d] \in Nat
    BY DEF Inv, Typing
  <2>4. QED BY <1>1, <1>2, <2>2, <2>3 DEF Inv, Typing
<1>6. QED BY <1>3, <1>4, <1>5 DEF Inv

-----------------------------------------------------------------------------
\* Every step preserves the invariant.
LEMMA NextInv == Inv /\ [Next]_vars => Inv'
<1> SUFFICES ASSUME Inv, [Next]_vars PROVE Inv'
  OBVIOUS
<1> USE DEF engineVars, connVars, callerVars
<1>1. CASE \E c \in Callers : Call(c) \/ CallerStep(c)
  <2>1. PICK c \in Callers : Call(c) \/ CallerStep(c)
    BY <1>1
  <2>2. CASE Call(c) \/ QueryRunning(c) \/ AfterStop(c) \/ SwapConfig(c)
    BY <2>2, CallerInv
  <2>3. CASE Start(c)
    BY <2>3, StartInv
  <2>4. CASE BeginStop(c)
    BY <2>4, BeginStopInv
  <2>5. CASE CloseOne(c) \/ EndShutdown(c)
    BY <2>5, CloserInv
  <2>6. CASE Unlock(c)
    BY <2>6, UnlockInv
  <2>7. QED BY <2>1, <2>2, <2>3, <2>4, <2>5, <2>6 DEF CallerStep
<1>2. CASE (\E l \in Listeners : EndLoop(l)) \/ (\E k \in Conns : EndConn(k))
  BY <1>2, EndInv
<1>3. CASE \E l \in Listeners, k \in Conns : Accept(l, k)
  BY <1>3, AcceptInv
<1>4. CASE \E q \in Requests : Request(q) \/ EndJob(q) \/ Stream(q)
  <2>1. UNCHANGED <<run, mu, loops, closers, closedChans, conn, pc, stops, running>>
    BY <1>4 DEF Request, EndJob, Stream, Subscribe, Tick, SendEvent, EndStream
  <2>2. QED BY <2>1, QuietInv
<1>5. CASE UNCHANGED vars
  BY <1>5, QuietInv DEF vars
<1>6. CASE \E k \in Conns : Send(k) \/ Serve(k)
  <2>1. UNCHANGED <<run, mu, loops, closers, closedChans, conn, pc, stops, running>>
    BY <1>6 DEF Send, Serve
  <2>2. QED BY <2>1, QuietInv
<1>7. QED BY <1>1, <1>2, <1>3, <1>4, <1>5, <1>6 DEF Next

\* The invariant of every behaviour.
LEMMA Invariance == Spec => []Inv
<1>1. QED BY InitInv, NextInv, PTL DEF Spec

\* When a Stop that closed a run has returned, no accept loop and no connection
\* handler of that run or an earlier one is left (engine.go, Stop: the wait on
\* handlerWG is outside the lock), however many callers start and stop.
THEOREM StopDrainsAlways == Spec => []StopDrains
<1>1. Inv => StopDrains
  BY DEF Inv
<1>2. QED BY Invariance, <1>1, PTL

\* The stopping channel of a running engine is closed by the Stop that holds the
\* lock and by nobody else, so that close never panics.
THEOREM ChannelOpenAlways == Spec => []ChannelOpen
<1>1. Inv => ChannelOpen
  BY DEF Inv
<1>2. QED BY Invariance, <1>1, PTL

\* Two Stops never work on Engine.closers together, and a kind of listener is
\* open at most once, also when a start finds leftovers of an earlier run.
THEOREM OneCloserAlways == Spec => []OneCloser
<1>1. Inv => OneCloser
  BY DEF Inv
<1>2. QED BY Invariance, <1>1, PTL

-----------------------------------------------------------------------------
(* Types, and the number of runs *)

\* Callers in an operation.
Active == {c \in Callers : pc[c] # "idle"}

\* An operation starts one run at most, at its end: the runs built and the
\* operations going on are no more than the operations called.
RunsInv == IsFiniteSet(Active) /\ run + Cardinality(Active) <= calls

ValuesOK ==
    /\ mu \in {Free} \cup Callers
    /\ running \in BOOLEAN
    /\ run \in Nat
    /\ calls \in 0..MaxCalls
    /\ cfg \in {0, 1}
    /\ pc \in [Callers -> CallerPC]
    /\ op \in [Callers -> {"none"} \cup Ops]
    /\ was \in [Callers -> BOOLEAN]
    /\ stops \in [Callers -> {0} \cup Runs]
    /\ conn \in [Conns -> {0} \cup Runs]
    /\ busy \subseteq Conns
    /\ req \in [Requests -> ReqState]
    /\ reqAt \in [Requests -> Listeners \cup {Nobody}]
    /\ stalled \subseteq Requests
    /\ closers \subseteq Listeners
    /\ loops \subseteq Listeners
    /\ shutting \in Listeners \cup {Nobody}
    /\ closedChans \subseteq Runs

LEMMA InitTypes == Init => ValuesOK /\ RunsInv
<1> SUFFICES ASSUME Init PROVE ValuesOK /\ RunsInv
  OBVIOUS
<1>1. ValuesOK
  <2>1. /\ mu \in {Free} \cup Callers /\ run \in Nat /\ calls \in 0..MaxCalls /\ cfg \in {0, 1}
        /\ closers \subseteq Listeners /\ loops \subseteq Listeners
        /\ shutting \in Listeners \cup {Nobody} /\ closedChans \subseteq Runs
        /\ stalled \subseteq Requests /\ busy \subseteq Conns
    BY EngineAssumption DEF Init
  <2>4. running \in BOOLEAN
    BY DEF Init
  <2>2. /\ pc \in [Callers -> CallerPC] /\ op \in [Callers -> {"none"} \cup Ops]
        /\ was \in [Callers -> BOOLEAN] /\ stops \in [Callers -> {0} \cup Runs]
    BY DEF Init, CallerPC
  <2>3. /\ conn \in [Conns -> {0} \cup Runs] /\ req \in [Requests -> ReqState]
        /\ reqAt \in [Requests -> Listeners \cup {Nobody}]
    BY DEF Init, ReqState
  <2>5. QED BY <2>1, <2>2, <2>3, <2>4 DEF ValuesOK
<1>2. Active = {}
  BY DEF Init, Active
<1>3. IsFiniteSet({}) /\ Cardinality({}) = 0
  BY FS_EmptySet
<1>4. QED BY <1>1, <1>2, <1>3 DEF Init, RunsInv

\* The runs are those that can be told apart, and a running engine has one.
LEMMA RunsAre ==
    ASSUME Inv, ValuesOK, RunsInv
    PROVE  run \in 0..calls /\ (running => run \in Runs)
<1>1. Cardinality(Active) \in Nat
  BY FS_CardinalityType DEF RunsInv
<1>2. run \in Nat /\ calls \in Nat /\ calls <= MaxCalls /\ run <= calls
  BY <1>1, EngineAssumption DEF ValuesOK, RunsInv
<1>3. QED BY <1>2, EngineAssumption DEF Runs, Inv, Typing

\* A start numbers a run that may be told apart.
LEMMA NextRun ==
    ASSUME ValuesOK, RunsInv, NEW c \in Callers, pc[c] # "idle"
    PROVE  run + 1 <= calls /\ run + 1 \in Runs
<1>1. Cardinality(Active) \in Nat
  BY FS_CardinalityType DEF RunsInv
<1>2. Cardinality(Active) # 0
  BY FS_EmptySet DEF RunsInv, Active
<1>3. run \in Nat /\ calls \in Nat /\ calls <= MaxCalls
  BY EngineAssumption DEF ValuesOK
<1>4. run + 1 <= calls
  BY <1>1, <1>2, <1>3 DEF RunsInv
<1>5. QED BY <1>3, <1>4, EngineAssumption DEF Runs

\* Fewer callers in an operation, and no new run.
LEMMA RunsKept ==
    ASSUME ValuesOK, RunsInv, Active' \subseteq Active, run' = run, calls' = calls
    PROVE  RunsInv'
<1>1. IsFiniteSet(Active') /\ Cardinality(Active') <= Cardinality(Active)
  BY FS_Subset DEF RunsInv
<1>2. Cardinality(Active) \in Nat /\ Cardinality(Active') \in Nat
  BY <1>1, FS_CardinalityType DEF RunsInv
<1>3. \A a, b, m, n \in Nat : a <= b /\ m + b <= n => m + a <= n
  OBVIOUS
<1>4. run \in Nat /\ calls \in Nat
  BY EngineAssumption DEF ValuesOK
<1>5. QED BY <1>1, <1>2, <1>3, <1>4 DEF RunsInv

LEMMA RunsStep ==
    ASSUME Inv, ValuesOK, RunsInv, [Next]_vars
    PROVE  RunsInv'
<1> USE DEF engineVars, callerVars, connVars, reqVars
<1>0. pc \in [Callers -> CallerPC] /\ run \in Nat /\ calls \in Nat
  BY EngineAssumption DEF ValuesOK
<1>1. ASSUME NEW c \in Callers, Call(c) PROVE RunsInv'
  <2>1. Active' = Active \cup {c} /\ c \notin Active
    BY <1>0, <1>1 DEF Call, Goto, Active
  <2>2. IsFiniteSet(Active') /\ Cardinality(Active') = Cardinality(Active) + 1
    BY <2>1, FS_AddElement DEF RunsInv
  <2>3. Cardinality(Active) \in Nat /\ run' = run /\ calls' = calls + 1
    BY <1>1, FS_CardinalityType DEF RunsInv, Call
  <2>4. run + (Cardinality(Active) + 1) <= calls + 1
    BY <1>0, <2>3 DEF RunsInv
  <2>5. QED BY <2>2, <2>3, <2>4 DEF RunsInv
<1>2. ASSUME NEW c \in Callers, Start(c) PROVE RunsInv'
  <2>1. Active' = Active \ {c} /\ c \in Active
    BY <1>0, <1>2 DEF Start, Done, Goto, Active
  <2>2. IsFiniteSet(Active') /\ Cardinality(Active') = Cardinality(Active) - 1
    BY <2>1, FS_RemoveElement DEF RunsInv
  <2>3. Cardinality(Active) \in Nat /\ run' \in {run, run + 1} /\ calls' = calls
    BY <1>2, FS_CardinalityType DEF RunsInv, Start
  <2>4. /\ run + (Cardinality(Active) - 1) <= calls
        /\ (run + 1) + (Cardinality(Active) - 1) <= calls
    BY <1>0, <2>3 DEF RunsInv
  <2>5. QED BY <2>2, <2>3, <2>4 DEF RunsInv
<1>3. ASSUME NEW c \in Callers,
             \/ QueryRunning(c) \/ BeginStop(c) \/ CloseOne(c) \/ EndShutdown(c) \/ Unlock(c)
             \/ AfterStop(c) \/ SwapConfig(c)
      PROVE  RunsInv'
  <2>1. run' = run /\ calls' = calls
    BY <1>3 DEF QueryRunning, BeginStop, CloseOne, EndShutdown, Unlock, AfterStop, SwapConfig,
                Done, Continue
  <2>2. pc' = pc \/ \E label : pc' = [pc EXCEPT ![c] = label]
    BY <1>3 DEF QueryRunning, BeginStop, CloseOne, EndShutdown, Unlock, AfterStop, SwapConfig,
                Done, Continue, Goto
  <2>3. c \in Active
    BY <1>3 DEF QueryRunning, BeginStop, CloseOne, EndShutdown, Unlock, AfterStop, SwapConfig, Active
  <2>4. Active' \subseteq Active
    BY <1>0, <2>2, <2>3 DEF Active
  <2>5. QED BY <2>1, <2>4, RunsKept
<1>4. ASSUME Release, run' = run, calls' = calls PROVE RunsInv'
  <2>1. Active' \subseteq Active
    BY <1>0, <1>4 DEF Release, Active
  <2>2. QED BY <1>4, <2>1, RunsKept
<1>5. ASSUME NEW l \in Listeners, EndLoop(l) PROVE RunsInv'
  BY <1>4, <1>5 DEF EndLoop
<1>6. ASSUME NEW k \in Conns, EndConn(k) PROVE RunsInv'
  BY <1>4, <1>6 DEF EndConn
<1>7. ASSUME UNCHANGED <<pc, run, calls>> PROVE RunsInv'
  BY <1>7, RunsKept DEF Active
<1>8. ASSUME NEW l \in Listeners, NEW k \in Conns, Accept(l, k) PROVE RunsInv'
  BY <1>7, <1>8 DEF Accept
<1>9. ASSUME NEW q \in Requests, Request(q) \/ EndJob(q) \/ Stream(q) PROVE RunsInv'
  BY <1>7, <1>9 DEF Request, EndJob, Stream, Subscribe, Tick, SendEvent, EndStream
<1>10. UNCHANGED vars => RunsInv'
  BY <1>7 DEF vars
<1>11. ASSUME NEW k \in Conns, Send(k) \/ Serve(k) PROVE RunsInv'
  BY <1>7, <1>11 DEF Send, Serve
<1>12. QED BY <1>1, <1>2, <1>3, <1>5, <1>6, <1>8, <1>9, <1>10, <1>11 DEF Next, CallerStep

LEMMA TypesStep ==
    ASSUME Inv, ValuesOK, RunsInv, [Next]_vars
    PROVE  ValuesOK'
<1> USE DEF engineVars, callerVars, connVars, reqVars
<1>1. ASSUME NEW c \in Callers, Call(c) PROVE ValuesOK'
  <2>1. PICK o \in Ops : /\ op' = [op EXCEPT ![c] = o]
                         /\ \E label \in {"start", "stop", "query"} : Goto(c, label)
    BY <1>1 DEF Call
  <2>2. calls' \in 0..MaxCalls
    BY <1>1, EngineAssumption DEF Call, ValuesOK
  <2>3. pc' \in [Callers -> CallerPC] /\ op' \in [Callers -> {"none"} \cup Ops]
    BY <2>1 DEF ValuesOK, Goto, CallerPC
  <2>4. QED BY <1>1, <2>2, <2>3 DEF Call, ValuesOK
<1>2. ASSUME NEW c \in Callers, Done(c)
      PROVE  /\ pc' \in [Callers -> CallerPC] /\ op' \in [Callers -> {"none"} \cup Ops]
             /\ was' \in [Callers -> BOOLEAN] /\ stops' \in [Callers -> {0} \cup Runs]
  BY <1>2 DEF Done, Goto, ValuesOK, CallerPC
<1>3. ASSUME NEW c \in Callers, NEW label \in CallerPC, Goto(c, label)
      PROVE  pc' \in [Callers -> CallerPC]
  BY <1>3 DEF Goto, ValuesOK
<1>4. ASSUME NEW c \in Callers, Start(c) PROVE ValuesOK'
  <2>1. run + 1 \in Runs /\ run + 1 \in Nat
    BY <1>4, NextRun, EngineAssumption DEF Start, ValuesOK, Runs
  <2>2. run' \in Nat /\ closers' \subseteq Listeners /\ loops' \subseteq Listeners /\ running' \in BOOLEAN
    <3>1. CASE running
      BY <1>4, <3>1 DEF Start, ValuesOK
    <3>2. CASE ~running
      <4>1. PICK up \in SUBSET Kinds :
               /\ run' = run + 1
               /\ closers' = closers \cup {<<run + 1, k>> : k \in up}
               /\ loops' = loops \cup {<<run + 1, k>> : k \in up}
               /\ running' = (up \cap {"tcp", "http"} # {})
        BY <1>4, <3>2 DEF Start
      <4>2. {<<run + 1, k>> : k \in up} \subseteq Listeners
        BY <2>1 DEF Listeners
      <4>3. running' \in BOOLEAN
        BY <4>1
      <4>4. QED BY <2>1, <4>1, <4>2, <4>3 DEF ValuesOK
    <3>3. QED BY <3>1, <3>2
  <2>3. Done(c)
    BY <1>4 DEF Start
  <2>4. QED BY <1>2, <1>4, <2>2, <2>3 DEF Start, ValuesOK
<1>5. ASSUME NEW c \in Callers, QueryRunning(c) PROVE ValuesOK'
  BY <1>3, <1>5 DEF QueryRunning, ValuesOK, CallerPC
<1>6. ASSUME NEW c \in Callers, BeginStop(c) PROVE ValuesOK'
  <2>1. running => run \in Runs
    BY RunsAre
  <2>2. pc' \in [Callers -> CallerPC]
    BY <1>3, <1>6 DEF BeginStop, CallerPC
  <2>3. closedChans' \subseteq Runs /\ stops' \in [Callers -> {0} \cup Runs] /\ mu' \in {Free} \cup Callers
    BY <1>6, <2>1 DEF BeginStop, ValuesOK
  <2>4. QED BY <1>6, <2>2, <2>3 DEF BeginStop, ValuesOK
<1>7. ASSUME NEW c \in Callers, CloseOne(c) PROVE ValuesOK'
  BY <1>3, <1>7 DEF CloseOne, ValuesOK, CallerPC
<1>8. ASSUME NEW c \in Callers, EndShutdown(c) PROVE ValuesOK'
  BY <1>3, <1>8 DEF EndShutdown, ValuesOK, CallerPC, Serving
<1>9. ASSUME NEW c \in Callers, Unlock(c) PROVE ValuesOK'
  BY <1>3, <1>9 DEF Unlock, ValuesOK, CallerPC
<1>10. ASSUME NEW c \in Callers, AfterStop(c) PROVE ValuesOK'
  <2>1. Done(c) \/ \E label \in CallerPC : Continue(c, label)
    BY <1>10 DEF AfterStop, CallerPC
  <2>2. QED BY <1>2, <1>3, <1>10, <2>1 DEF AfterStop, Continue, ValuesOK
<1>11. ASSUME NEW c \in Callers, SwapConfig(c) PROVE ValuesOK'
  <2>1. Done(c) \/ \E label \in CallerPC : Continue(c, label)
    BY <1>11 DEF SwapConfig, CallerPC
  <2>2. cfg' \in {0, 1}
    BY <1>11 DEF SwapConfig, ValuesOK
  <2>3. QED BY <1>2, <1>3, <1>11, <2>1, <2>2 DEF SwapConfig, Continue, ValuesOK
<1>12. Release => pc' \in [Callers -> CallerPC]
  BY DEF Release, ValuesOK, CallerPC
<1>13. ASSUME NEW l \in Listeners, EndLoop(l) PROVE ValuesOK'
  BY <1>12, <1>13 DEF EndLoop, ValuesOK
<1>14. ASSUME NEW k \in Conns, EndConn(k) PROVE ValuesOK'
  BY <1>12, <1>14 DEF EndConn, ValuesOK
<1>15. ASSUME NEW l \in Listeners, NEW k \in Conns, Accept(l, k) PROVE ValuesOK'
  BY <1>15 DEF Accept, ValuesOK, Listeners
<1>16. ASSUME NEW q \in Requests, Request(q) PROVE ValuesOK'
  BY <1>16 DEF Request, ValuesOK, ReqState
<1>17. ASSUME NEW q \in Requests, EndJob(q) \/ Stream(q) PROVE ValuesOK'
  BY <1>17 DEF EndJob, Stream, Subscribe, Tick, SendEvent, EndStream, ValuesOK, ReqState
<1>18. CASE UNCHANGED vars
  BY <1>18 DEF vars, ValuesOK
<1>19. ASSUME NEW k \in Conns, Send(k) \/ Serve(k) PROVE ValuesOK'
  BY <1>19 DEF Send, Serve, ValuesOK
<1>20. QED BY <1>1, <1>4, <1>5, <1>6, <1>7, <1>8, <1>9, <1>10, <1>11, <1>13, <1>14, <1>15,
              <1>16, <1>17, <1>18, <1>19 DEF Next, CallerStep

\* The variables keep their types; in particular no operation starts more than
\* one run, so the runs are at most the operations that were called.
THEOREM TypeCorrect == Spec => []TypeOK
<1>1. Init => ValuesOK /\ RunsInv
  BY InitTypes
<1>2. Inv /\ ValuesOK /\ RunsInv /\ [Next]_vars => ValuesOK' /\ RunsInv'
  BY TypesStep, RunsStep
<1>3. Inv /\ ValuesOK /\ RunsInv => TypeOK
  BY RunsAre DEF ValuesOK, TypeOK
<1>4. QED BY <1>1, <1>2, <1>3, Invariance, PTL DEF Spec
=============================================================================
