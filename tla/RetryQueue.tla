----------------------------- MODULE RetryQueue -----------------------------
(***************************************************************************)
(* What the durable spool_retry queue of the forwarder promises about each *)
(* job handed to it: once queued, a job is delivered or given up, never    *)
(* forgotten, and a job given up or delivered is not queued again.  The    *)
(* files, workers, crashes and restarts that implement the promise are in  *)
(* ForwardSpool.                                                           *)
(***************************************************************************)

CONSTANT Items          \* the jobs that may be handed to the queue

VARIABLE status         \* where each job stands

Status == {"new", "queued", "delivered", "dead"}

Init == status = [i \in Items |-> "new"]

Move(i, from, to) ==
    /\ status[i] = from
    /\ status' = [status EXCEPT ![i] = to]

Enqueue(i) == Move(i, "new", "queued")      \* "queued" is persisted
Deliver(i) == Move(i, "queued", "delivered")
GiveUp(i)  == Move(i, "queued", "dead")     \* kept in dead/ for the operator

Next == \E i \in Items : Enqueue(i) \/ Deliver(i) \/ GiveUp(i)

Spec == Init /\ [][Next]_status
=============================================================================
