---------------------------- MODULE ForwardSpool ----------------------------
(***************************************************************************)
(* The durable spool_retry queue of the forwarder (forward.go,             *)
(* fwd_spool.go) across crashes, graceful stops and restarts.              *)
(*                                                                         *)
(* A job is two files of the queue directory: <id>.data (the payload) and  *)
(* <id>.json (the metadata with the number of attempts made).  A forwarder *)
(* is built by every Engine.Start; a goroutine per job (a worker) retries  *)
(* the delivery.  Files survive a crash, forwarders and workers do not.    *)
(* Every file operation is a step of its own: a crash may come between any *)
(* two of them, and each may fail.                                         *)
(***************************************************************************)
EXTENDS Naturals, FiniteSets

CONSTANTS
    Items,          \* jobs for targets whose failure policy is spool_retry
    MaxAttempts,    \* retry.max_attempts of the target
    MaxStarts,      \* bound: forwarders built (calls of Engine.Start)
    MaxCrashes,     \* bound: times the process dies
    MaxFaults,      \* bound: file operations that return an error
    Configs,        \* sets of jobs whose target the configuration of a start has
    LateHandoffs,   \* may a connection outlive the close of the forwarder
                    \* it was accepted under?
    EmptyStarts,    \* may a start come up with no listener?
    NoFile          \* no <id>.json in the queue directory

ASSUME SpoolAssumption ==
    /\ MaxAttempts \in Nat \ {0}
    /\ MaxStarts \in Nat
    /\ MaxCrashes \in Nat
    /\ MaxFaults \in Nat
    /\ Configs \subseteq SUBSET Items
    /\ LateHandoffs \in BOOLEAN
    /\ EmptyStarts \in BOOLEAN
    /\ NoFile \notin Nat

Forwarders == 1..MaxStarts      \* the n-th forwarder built is n

VARIABLES
    \* The disk
    meta,           \* meta[i]: attempts recorded in i's .json, or NoFile
    payload,        \* the jobs with a .data in the queue directory
    deadMeta,       \* the jobs with a .json in dead/
    deadPayload,    \* the jobs with a .data in dead/
    \* The process
    phase,          \* the engine: "down" (not running), "up", "closing"
    forward,        \* the global forwarder, 0 when it is nil
    closers,        \* the forwarders the engine has yet to close
    done,           \* the forwarders whose done channel is closed
    known,          \* the jobs whose target the current forwarder has
    conn,           \* conn[i]: where the handler that received i stands
    via,            \* via[i]: the forwarder i was handed to
    pc,             \* pc[f][i]: where f's worker for i stands
    attempts,       \* attempts[f][i]: m.Attempts of f's worker for i
    \* The environment and history
    expired,        \* the jobs whose TTL deadline has passed
    accepted,       \* the jobs whose put returned no error
    tries,          \* tries[i]: sends attempted from the durable queue
    sent,           \* sent[i]: sends that succeeded
    starts, crashes, faults

disk == <<meta, payload, deadMeta, deadPayload>>
engine == <<phase, forward, closers, done, known, starts>>
handlers == <<conn, via>>
workers == <<pc, attempts>>
history == <<expired, accepted, tries, sent>>
budget == <<crashes, faults>>
vars == <<disk, engine, handlers, workers, history, budget>>

PersistedPC == {"load", "due", "check", "send", "update", "backoff",
                "deadMeta", "deadPayload", "removeMeta", "removePayload"}
MemPC == {"memCheck", "memSend", "memBackoff"}
PC == {"none"} \cup PersistedPC \cup MemPC
Conn == {"none", "open", "putData", "putMeta", "spawn", "spawnMem", "finished"}

-----------------------------------------------------------------------------
Init ==
    /\ meta = [i \in Items |-> NoFile]
    /\ payload = {}
    /\ deadMeta = {}
    /\ deadPayload = {}
    /\ phase = "down"
    /\ forward = 0
    /\ closers = {}
    /\ done = {}
    /\ known = {}
    /\ conn = [i \in Items |-> "none"]
    /\ via = [i \in Items |-> 0]
    /\ pc = [f \in Forwarders |-> [i \in Items |-> "none"]]
    /\ attempts = [f \in Forwarders |-> [i \in Items |-> 0]]
    /\ expired = {}
    /\ accepted = {}
    /\ tries = [i \in Items |-> 0]
    /\ sent = [i \in Items |-> 0]
    /\ starts = 0
    /\ crashes = 0
    /\ faults = 0

(* One file operation returns an error, while the bound allows it *)
Fault == faults < MaxFaults /\ faults' = faults + 1
NoFault == UNCHANGED faults

\* f's worker for i moves to a label, or returns.
Goto(f, i, label) == pc' = [pc EXCEPT ![f][i] = label] /\ UNCHANGED attempts
Return(f, i) ==
    /\ pc' = [pc EXCEPT ![f][i] = "none"]
    /\ attempts' = [attempts EXCEPT ![f][i] = 0]

-----------------------------------------------------------------------------
(* Engine: Start builds a forwarder and replays the queue, Stop closes it *)

\* Variant: load skips the jobs that were already attempted.
ReplayableUntried == {i \in payload : meta[i] = 0}

\* load: the metadata files that have their payload beside them.
Replayable == {i \in payload : meta[i] # NoFile}

\* Variant: a replayed job starts over with its attempts.
AttemptsForgotten(i) == 0

\* The attempts a replayed worker goes on from.
ReplayedAttempts(i) == meta[i]

\* newForwarder and replaySpool, from Engine.Start.  A worker resumes each
\* replayable job of a known target with the attempts its file records; the
\* files of other targets stay, and so do files load cannot read.  The forwarder
\* joins the closers even when no listener comes up, and then the engine does not
\* count as running.
Start ==
    /\ phase = "down"
    /\ starts < MaxStarts
    /\ LET f == starts + 1 IN
       \E cfg \in Configs, listening \in BOOLEAN, unread \in SUBSET Items :
          /\ listening \/ EmptyStarts
          /\ unread \subseteq Replayable
          /\ IF unread = {} THEN NoFault ELSE Fault
          /\ LET replay == (Replayable \cap cfg) \ unread IN
             /\ pc' = [pc EXCEPT ![f] =
                         [i \in Items |-> IF i \in replay THEN "load" ELSE "none"]]
             /\ attempts' = [attempts EXCEPT ![f] =
                         [i \in Items |-> IF i \in replay THEN ReplayedAttempts(i) ELSE 0]]
          /\ known' = cfg
          /\ forward' = f
          /\ closers' = closers \cup {f}
          /\ starts' = f
          /\ phase' = IF listening THEN "up" ELSE "down"
    /\ UNCHANGED <<disk, done, handlers, history, crashes>>

\* Engine.Stop begins.  Unless LateHandoffs, only once no job is in reception.
BeginStop ==
    /\ phase = "up"
    /\ LateHandoffs \/ \A i \in Items : conn[i] \in {"none", "finished"}
    /\ phase' = "closing"
    /\ UNCHANGED <<disk, forward, closers, done, known, starts, handlers,
                   workers, history, budget>>

\* Variant: only the forwarder in the global variable is closed.
CloseDoneNewest(f) ==
    /\ phase = "closing"
    /\ f \in closers \ done
    /\ f = forward
    /\ done' = done \cup {f}
    /\ UNCHANGED <<disk, phase, forward, closers, known, starts, handlers,
                   workers, history, budget>>

\* forwarder.Close closes the done channel, in the order of the closers ...
CloseDone(f) ==
    /\ phase = "closing"
    /\ f \in closers \ done
    /\ \A g \in closers : g >= f
    /\ done' = done \cup {f}
    /\ UNCHANGED <<disk, phase, forward, closers, known, starts, handlers,
                   workers, history, budget>>

\* Variant: Close does not wait for the workers.
CloseNoWait(f) ==
    /\ phase = "closing"
    /\ f \in closers \cap done
    /\ closers' = closers \ {f}
    /\ UNCHANGED <<disk, phase, forward, done, known, starts, handlers,
                   workers, history, budget>>

\* ... and waits until the workers of this forwarder have returned.
CloseWait(f) ==
    /\ phase = "closing"
    /\ f \in closers \cap done
    /\ \A i \in Items : pc[f][i] = "none"
    /\ closers' = closers \ {f}
    /\ UNCHANGED <<disk, phase, forward, done, known, starts, handlers,
                   workers, history, budget>>

\* The engine no longer runs; the forward variable still holds the forwarder.
EndStop ==
    /\ phase = "closing"
    /\ closers = {}
    /\ phase' = "down"
    /\ UNCHANGED <<disk, forward, closers, done, known, starts, handlers,
                   workers, history, budget>>

\* The process dies (power loss, kill, or exit after Stop): only files remain.
Crash ==
    /\ crashes < MaxCrashes
    /\ crashes' = crashes + 1
    /\ phase' = "down"
    /\ forward' = 0
    /\ closers' = {}
    /\ pc' = [f \in Forwarders |-> [i \in Items |-> "none"]]
    /\ done' = {}
    /\ known' = {}
    /\ attempts' = [f \in Forwarders |-> [i \in Items |-> 0]]
    /\ conn' = [i \in Items |-> IF conn[i] = "none" THEN "none" ELSE "finished"]
    /\ UNCHANGED <<disk, starts, via, history, faults>>

\* A TTL deadline passes.
Expire(i) ==
    /\ conn[i] # "none" /\ i \notin expired
    /\ expired' = expired \cup {i}
    /\ UNCHANGED <<disk, engine, handlers, workers, accepted, tries, sent, budget>>

-----------------------------------------------------------------------------
(* Reception of a job: a connection handler runs sink.save, which calls    *)
(* forward.forward on the forwarder the global holds at that moment        *)

\* A listener accepts the connection that brings job i.
Connect(i) ==
    /\ phase = "up"
    /\ conn[i] = "none"
    /\ conn' = [conn EXCEPT ![i] = "open"]
    /\ UNCHANGED <<disk, engine, via, workers, history, budget>>

\* Variant: the forwarder that received the job is not noted.
HandoffNoForwarder(i) ==
    /\ conn[i] = "open"
    /\ conn' = [conn EXCEPT ![i] = IF i \in known THEN "putData" ELSE "finished"]
    /\ UNCHANGED <<disk, engine, via, workers, history, budget>>

\* forward.forward reads the global and matches the target; deliver begins.
Handoff(i) ==
    /\ conn[i] = "open"
    /\ forward # 0
    /\ conn' = [conn EXCEPT ![i] = IF i \in known THEN "putData" ELSE "finished"]
    /\ via' = [via EXCEPT ![i] = forward]
    /\ UNCHANGED <<disk, engine, workers, history, budget>>

\* put writes the payload first ...
PutData(i) ==
    /\ conn[i] = "putData"
    /\ \/ /\ NoFault
          /\ payload' = payload \cup {i}
          /\ conn' = [conn EXCEPT ![i] = "putMeta"]
       \/ /\ Fault
          /\ conn' = [conn EXCEPT ![i] = "spawnMem"]
          /\ UNCHANGED payload
    /\ UNCHANGED <<meta, deadMeta, deadPayload, engine, via, workers, history, crashes>>

\* Variant: put reports success although the metadata could not be written.
PutMetaSwallowsError(i) ==
    /\ conn[i] = "putMeta"
    /\ accepted' = accepted \cup {i}
    /\ conn' = [conn EXCEPT ![i] = "spawn"]
    /\ \/ NoFault /\ meta' = [meta EXCEPT ![i] = 0]
       \/ Fault /\ UNCHANGED meta
    /\ UNCHANGED <<payload, deadMeta, deadPayload, engine, via, workers,
                   expired, tries, sent, crashes>>

\* ... then the metadata; an error leaves the payload file behind.
PutMeta(i) ==
    /\ conn[i] = "putMeta"
    /\ \/ /\ NoFault
          /\ meta' = [meta EXCEPT ![i] = 0]
          /\ accepted' = accepted \cup {i}
          /\ conn' = [conn EXCEPT ![i] = "spawn"]
       \/ /\ Fault
          /\ conn' = [conn EXCEPT ![i] = "spawnMem"]
          /\ UNCHANGED <<meta, accepted>>
    /\ UNCHANGED <<payload, deadMeta, deadPayload, engine, via, workers,
                   expired, tries, sent, crashes>>

\* deliver starts the worker, closed forwarder or not.
Spawn(i) ==
    /\ conn[i] \in {"spawn", "spawnMem"}
    /\ Goto(via[i], i, IF conn[i] = "spawn" THEN "load" ELSE "memCheck")
    /\ conn' = [conn EXCEPT ![i] = "finished"]
    /\ UNCHANGED <<disk, engine, via, history, budget>>

-----------------------------------------------------------------------------
(* retryLoopPersisted: f's worker for i *)

\* The payload is read once; when that fails the job is given up untried.
LoadPayload(f, i) ==
    /\ pc[f][i] = "load"
    /\ \/ NoFault /\ i \in payload /\ Goto(f, i, "due")
       \/ NoFault /\ i \notin payload /\ Goto(f, i, "deadMeta")
       \/ Fault /\ Goto(f, i, "deadMeta")
    /\ UNCHANGED <<disk, engine, handlers, history, crashes>>

\* A recorded attempt puts NextAttempt in the future until its backoff ends.
Due(f, i) ==
    /\ pc[f][i] = "due"
    /\ Goto(f, i, "check")
    /\ UNCHANGED <<disk, engine, handlers, history, budget>>

Shutdown(f, i) ==
    /\ f \in done
    /\ \/ pc[f][i] = "due" /\ attempts[f][i] > 0
       \/ pc[f][i] \in {"backoff", "memBackoff"}
    /\ Return(f, i)
    /\ UNCHANGED <<disk, engine, handlers, history, budget>>

CheckDeadline(f, i) ==
    /\ pc[f][i] = "check"
    /\ Goto(f, i, IF i \in expired THEN "deadMeta" ELSE "send")
    /\ UNCHANGED <<disk, engine, handlers, history, budget>>

\* Variant: a delivered job keeps its files.
SendOKKeepsFiles(f, i) ==
    /\ pc[f][i] = "send"
    /\ tries' = [tries EXCEPT ![i] = @ + 1]
    /\ sent' = [sent EXCEPT ![i] = @ + 1]
    /\ Return(f, i)
    /\ UNCHANGED <<disk, engine, handlers, expired, accepted, budget>>

\* Variant: the loop goes on after a delivery.
SendOKNoReturn(f, i) ==
    /\ pc[f][i] = "send"
    /\ tries' = [tries EXCEPT ![i] = @ + 1]
    /\ sent' = [sent EXCEPT ![i] = @ + 1]
    /\ Goto(f, i, "backoff")
    /\ UNCHANGED <<disk, engine, handlers, expired, accepted, budget>>

\* transport.send, whose outcome is the printer's.
SendOK(f, i) ==
    /\ pc[f][i] = "send"
    /\ tries' = [tries EXCEPT ![i] = @ + 1]
    /\ sent' = [sent EXCEPT ![i] = @ + 1]
    /\ Goto(f, i, "removeMeta")
    /\ UNCHANGED <<disk, engine, handlers, expired, accepted, budget>>

SendFails(f, i) ==
    /\ pc[f][i] = "send"
    /\ tries' = [tries EXCEPT ![i] = @ + 1]
    /\ attempts' = [attempts EXCEPT ![f][i] = @ + 1]
    /\ pc' = [pc EXCEPT ![f][i] = "update"]
    /\ UNCHANGED <<disk, engine, handlers, expired, accepted, sent, budget>>

\* Variant: a job is given up one attempt early.
UpdateOffByOne(f, i) ==
    /\ pc[f][i] = "update"
    /\ \/ NoFault /\ meta' = [meta EXCEPT ![i] = attempts[f][i]]
       \/ Fault /\ UNCHANGED meta
    /\ Goto(f, i, IF attempts[f][i] + 1 >= MaxAttempts THEN "deadMeta" ELSE "backoff")
    /\ UNCHANGED <<payload, deadMeta, deadPayload, engine, handlers, history, crashes>>

\* Variant: a job given up is deleted.
UpdateDropsGiveUp(f, i) ==
    /\ pc[f][i] = "update"
    /\ \/ NoFault /\ meta' = [meta EXCEPT ![i] = attempts[f][i]]
       \/ Fault /\ UNCHANGED meta
    /\ Goto(f, i, IF attempts[f][i] >= MaxAttempts THEN "removeMeta" ELSE "backoff")
    /\ UNCHANGED <<payload, deadMeta, deadPayload, engine, handlers, history, crashes>>

\* update rewrites the metadata, whether the file is still there or not; an
\* error is only logged.  Then the attempts are compared with the limit.
Update(f, i) ==
    /\ pc[f][i] = "update"
    /\ \/ NoFault /\ meta' = [meta EXCEPT ![i] = attempts[f][i]]
       \/ Fault /\ UNCHANGED meta
    /\ Goto(f, i, IF attempts[f][i] >= MaxAttempts THEN "deadMeta" ELSE "backoff")
    /\ UNCHANGED <<payload, deadMeta, deadPayload, engine, handlers, history, crashes>>

Backoff(f, i) ==
    /\ pc[f][i] = "backoff"
    /\ Goto(f, i, "check")
    /\ UNCHANGED <<disk, engine, handlers, history, budget>>

\* deadLetter renames the metadata then the payload into dead/.  A missing file
\* is no error, and the second rename is tried even when the first one fails;
\* when dead/ cannot be made neither is.
DeadLetterMeta(f, i) ==
    /\ pc[f][i] = "deadMeta"
    /\ \/ /\ NoFault
          /\ meta' = [meta EXCEPT ![i] = NoFile]
          /\ deadMeta' = IF meta[i] # NoFile THEN deadMeta \cup {i} ELSE deadMeta
          /\ Goto(f, i, "deadPayload")
       \/ Fault /\ Goto(f, i, "deadPayload") /\ UNCHANGED <<meta, deadMeta>>
       \/ Fault /\ Return(f, i) /\ UNCHANGED <<meta, deadMeta>>
    /\ UNCHANGED <<payload, deadPayload, engine, handlers, history, crashes>>

DeadLetterPayload(f, i) ==
    /\ pc[f][i] = "deadPayload"
    /\ \/ /\ NoFault
          /\ payload' = payload \ {i}
          /\ deadPayload' = deadPayload \cup ({i} \cap payload)
       \/ Fault /\ UNCHANGED <<payload, deadPayload>>
    /\ Return(f, i)
    /\ UNCHANGED <<meta, deadMeta, engine, handlers, history, crashes>>

\* Variant: the payload is deleted before the metadata.
RemovePayloadFirst(f, i) ==
    /\ pc[f][i] = "removeMeta"
    /\ \/ NoFault /\ payload' = payload \ {i}
       \/ Fault /\ UNCHANGED payload
    /\ Goto(f, i, "removePayload")
    /\ UNCHANGED <<meta, deadMeta, deadPayload, engine, handlers, history, crashes>>

\* remove deletes the metadata then the payload of a delivered job.
RemoveMeta(f, i) ==
    /\ pc[f][i] = "removeMeta"
    /\ \/ NoFault /\ meta' = [meta EXCEPT ![i] = NoFile]
       \/ Fault /\ UNCHANGED meta
    /\ Goto(f, i, "removePayload")
    /\ UNCHANGED <<payload, deadMeta, deadPayload, engine, handlers, history, crashes>>

RemovePayload(f, i) ==
    /\ pc[f][i] = "removePayload"
    /\ \/ NoFault /\ payload' = payload \ {i}
       \/ Fault /\ UNCHANGED payload
    /\ Return(f, i)
    /\ UNCHANGED <<meta, deadMeta, deadPayload, engine, handlers, history, crashes>>

-----------------------------------------------------------------------------
(* retryLoopMem: the fallback when put failed; nothing of it is on disk *)

MemCheck(f, i) ==
    /\ pc[f][i] = "memCheck"
    /\ IF i \in expired THEN Return(f, i) ELSE Goto(f, i, "memSend")
    /\ UNCHANGED <<disk, engine, handlers, history, budget>>

MemSend(f, i) ==
    /\ pc[f][i] = "memSend"
    /\ \/ /\ sent' = [sent EXCEPT ![i] = @ + 1]
          /\ Return(f, i)
       \/ /\ attempts' = [attempts EXCEPT ![f][i] = @ + 1]
          /\ pc' = [pc EXCEPT ![f][i] = "memBackoff"]
          /\ UNCHANGED sent
    /\ UNCHANGED <<disk, engine, handlers, expired, accepted, tries, budget>>

\* The last failure is followed by a backoff too, and then by no attempt.
MemBackoff(f, i) ==
    /\ pc[f][i] = "memBackoff"
    /\ IF attempts[f][i] >= MaxAttempts
          THEN Return(f, i)
          ELSE Goto(f, i, "memCheck")
    /\ UNCHANGED <<disk, engine, handlers, history, budget>>

-----------------------------------------------------------------------------
Receive(i) ==
    Handoff(i) \/ PutData(i) \/ PutMeta(i) \/ Spawn(i)

retryLoopPersisted(f, i) ==
    \/ LoadPayload(f, i)
    \/ Due(f, i)
    \/ Shutdown(f, i)
    \/ CheckDeadline(f, i)
    \/ SendOK(f, i)
    \/ SendFails(f, i)
    \/ Update(f, i)
    \/ Backoff(f, i)
    \/ DeadLetterMeta(f, i)
    \/ DeadLetterPayload(f, i)
    \/ RemoveMeta(f, i)
    \/ RemovePayload(f, i)

retryLoopMem(f, i) ==
    MemCheck(f, i) \/ MemSend(f, i) \/ MemBackoff(f, i)

Worker(f, i) == retryLoopPersisted(f, i) \/ retryLoopMem(f, i)

Close(f) == CloseDone(f) \/ CloseWait(f)

Next ==
    \/ Start
    \/ BeginStop
    \/ \E f \in Forwarders : Close(f)
    \/ EndStop
    \/ Crash
    \/ \E i \in Items : Expire(i) \/ Connect(i) \/ Receive(i)
    \/ \E f \in Forwarders, i \in Items : Worker(f, i)

SafeSpec == Init /\ [][Next]_vars

\* Goroutines run, timers fire and a send returns (every transport has a
\* timeout), so a handler, a worker and the closing engine keep going.
\* Nobody is obliged to start or stop the engine or to print.
Fairness ==
    /\ \A i \in Items : WF_vars(Receive(i))
    /\ \A f \in Forwarders, i \in Items : WF_vars(Worker(f, i))
    /\ \A f \in Forwarders : WF_vars(Close(f))
    /\ WF_vars(EndStop)

Spec == SafeSpec /\ Fairness

-----------------------------------------------------------------------------
(* Properties *)

\* The values the variables take.
TypeOK ==
    /\ meta \in [Items -> Nat \cup {NoFile}]
    /\ payload \subseteq Items
    /\ deadMeta \subseteq Items
    /\ deadPayload \subseteq Items
    /\ phase \in {"down", "up", "closing"}
    /\ forward \in {0} \cup Forwarders
    /\ closers \subseteq Forwarders
    /\ done \subseteq Forwarders
    /\ known \subseteq Items
    /\ conn \in [Items -> Conn]
    /\ via \in [Items -> {0} \cup Forwarders]
    /\ \A i \in Items : conn[i] \in {"putData", "putMeta", "spawn", "spawnMem"} =>
                            via[i] # 0
    /\ pc \in [Forwarders -> [Items -> PC]]
    /\ attempts \in [Forwarders -> [Items -> Nat]]
    /\ expired \subseteq Items
    /\ accepted \subseteq Items
    /\ tries \in [Items -> Nat]
    /\ sent \in [Items -> Nat]
    /\ starts \in 0..MaxStarts
    /\ crashes \in 0..MaxCrashes
    /\ faults \in 0..MaxFaults

Delivered(i) == sent[i] > 0
Busy(f, i) == pc[f][i] # "none"

\* Whatever crashes, restarts, failing file operations and overlapping
\* forwarders happen, a job that put accepted is delivered or both of its
\* files are still there, in the queue directory or in dead/ ("Items are
\* removed only on successful delivery").
NothingLost ==
    \A i \in accepted : Delivered(i) \/ /\ meta[i] # NoFile \/ i \in deadMeta
                                        /\ i \in payload \cup deadPayload

\* What makes it inductive: files are deleted after a delivery only, and the
\* payload is on disk before the metadata that makes the job accepted.
NothingLostInv ==
    /\ NothingLost
    /\ \A f \in Forwarders, i \in Items :
           pc[f][i] \in {"removeMeta", "removePayload"} => Delivered(i)
    /\ \A i \in Items :
           conn[i] = "putMeta" => Delivered(i) \/ i \in payload \cup deadPayload

\* No file operation fails => a metadata file in the queue directory always has
\* its payload beside it, so load never skips a job: both put and remove order
\* their two writes for that.
ReplayableWhole ==
    faults = 0 => \A i \in Items : meta[i] # NoFile => i \in payload

\* A retry spends an attempt more than the limit only for a crash or a failed
\* file operation, each of which can hide one attempt from the next start.
AttemptBudget ==
    \A i \in Items : tries[i] <= MaxAttempts + crashes + faults

\* A job is printed twice only for a crash or a failed file operation between
\* its delivery and the removal of its files.
DeliveredOnce ==
    \A i \in Items : sent[i] <= 1 + crashes + faults

\* However many forwarders run at once, each delivers a job at most once.
DeliveredOncePerForwarder ==
    \A i \in Items : sent[i] <= starts

\* One worker at most retries a job: a restart takes it over from a forwarder
\* that has let go of it.
OneWorkerPerItem ==
    \A i \in Items, f, g \in Forwarders : Busy(f, i) /\ Busy(g, i) => f = g

\* A job moves to dead/ only when its recorded attempts reach the limit, its
\* TTL passed, or a file operation failed.
GiveUpJustified ==
    [][\A i \in deadMeta' \ deadMeta :
          meta[i] >= MaxAttempts \/ i \in expired \/ faults > 0]_vars

\* A queued job whose target stays configured is delivered or dead-lettered
\* once the engine stays up, whatever crashes and restarts came before.
EventuallySettled ==
    \A i \in Items :
        <>[](phase = "up" /\ i \in known /\ faults = 0) =>
            (i \in accepted ~> Delivered(i) \/ i \in deadMeta)

\* Engine.Stop always gets past the forwarder.
CloseReturns == phase = "closing" ~> phase = "down"

\* The queue as its users see it.
RetryStatus ==
    [i \in Items |->
        IF i \notin accepted THEN "new"
        ELSE IF Delivered(i) THEN "delivered"
        ELSE IF meta[i] # NoFile THEN "queued" ELSE "dead"]

Queue == INSTANCE RetryQueue WITH status <- RetryStatus

\* Every step of files and workers is a step of the queue or leaves it as it is:
\* nothing is forgotten, and what was delivered or given up is not queued again.
QueueSpec == Queue!Spec
=============================================================================
