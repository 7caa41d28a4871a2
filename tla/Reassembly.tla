----------------------------- MODULE Reassembly -----------------------------
(***************************************************************************)
(* The TCP stream reassembler of the carver (reassembly.go, carve.go): it  *)
(* turns captured client-to-printer segments into the byte streams the     *)
(* clients sent, one job per stream.                                       *)
(*                                                                         *)
(* A byte is named by its offset in the stream of its flow.  The network   *)
(* and the capture lose, repeat and reorder segments, and their timestamps *)
(* with them: at every step any segment of any flow may be captured.       *)
(***************************************************************************)
EXTENDS Integers, Sequences, FiniteSets

CONSTANTS
    Flows,          \* flows towards print ports (flowKey)
    Isn,            \* Isn[k]: sequence number of k's SYN
    StreamLen,      \* bytes in a stream
    Segments,       \* <<offset, length>>: how senders cut their streams
    Caps,           \* values of maxFlow, 0 for unlimited
    MaxPending,     \* maxPendingSegs
    Idle,           \* the idle window, 0 for never
    MaxTime,        \* bound: timestamps
    SeqMod,         \* sequence numbers are taken modulo this (2^32)
    Orderly         \* does a SYN come before the data and a FIN after it?

Offsets == 0..(StreamLen - 1)
SeqNums == 0..(SeqMod - 1)

ASSUME ReassemblyAssumption ==
    /\ Isn \in [Flows -> SeqNums]
    /\ StreamLen \in Nat /\ MaxPending \in Nat /\ Idle \in Nat /\ MaxTime \in Nat
    /\ SeqMod \in Nat /\ SeqMod % 2 = 0 /\ StreamLen + 1 < SeqMod \div 2
    /\ Segments \subseteq {s \in Offsets \X (1..StreamLen) : s[1] + s[2] <= StreamLen}
    /\ Caps \subseteq Nat
    /\ Orderly \in BOOLEAN

VARIABLES
    maxFlow,        \* the cap of a flow's buffer, from the configuration
    flows,          \* flows[k]: the state kept for k, if there is one
    latest,         \* latestTS
    emitted         \* the streams handed to save by the last step

vars == <<maxFlow, flows, latest, emitted>>

\* A flow that was just seen for the first time.  base and seen are history:
\* the offset its buffer starts at, and the bytes captured for it.
NewFlow ==
    [next |-> 0, have |-> FALSE, buf |-> <<>>, pending |-> <<>>, last |-> 0,
     overflow |-> FALSE, base |-> 0, seen |-> {}]

Init ==
    /\ maxFlow \in Caps
    /\ flows = <<>>
    /\ latest = 0
    /\ emitted = {}

-----------------------------------------------------------------------------
(* Sequence arithmetic *)

SeqAdd(a, n) == (a + n) % SeqMod
SeqSub(a, b) == (a - b) % SeqMod

\* Variant: a plain comparison.
SeqGreater(a, b) == a > b

\* seqAfter: the signed difference is positive.
SeqAfter(a, b) == SeqSub(a, b) \in 1..(SeqMod \div 2 - 1)

-----------------------------------------------------------------------------
(* The state of one flow *)

\* Variant: the cap is only compared with what was there before.
AppendLate(f, payload) ==
    LET full == maxFlow # 0 /\ Len(f.buf) >= maxFlow
    IN  [f EXCEPT !.buf = IF full THEN @ ELSE @ \o payload,
                  !.overflow = @ \/ full,
                  !.next = SeqAdd(@, Len(payload))]

\* appendInOrder: store what the cap leaves room for; next advances past the
\* payload whether it is stored or not.
AppendInOrder(f, payload) ==
    LET room == maxFlow - Len(f.buf)
        all == maxFlow = 0 \/ Len(payload) <= room
    IN  [f EXCEPT !.buf = @ \o IF all THEN payload ELSE SubSeq(payload, 1, room),
                  !.overflow = @ \/ ~all,
                  !.next = SeqAdd(@, Len(payload))]

\* Variant: waiting segments stay where they are.
DrainNothing(f) == f

\* A round of drainPending: a waiting segment that starts exactly at next is
\* taken.
Taken(f) ==
    IF f.next \in DOMAIN f.pending
    THEN AppendInOrder([f EXCEPT !.pending = [s \in DOMAIN @ \ {f.next} |-> @[s]]],
                       f.pending[f.next])
    ELSE f

\* drainPending: as many rounds as there may be segments to take.
Rounds(f) ==
    LET after[n \in Nat] == IF n = 0 THEN f ELSE Taken(after[n - 1]) IN after
Drain(f) == Rounds(f)[Cardinality(DOMAIN f.pending)]

\* A segment that arrives early waits, unless too many do.
Buffer(f, seq, payload) ==
    IF seq \notin DOMAIN f.pending /\ Cardinality(DOMAIN f.pending) >= MaxPending
    THEN [f EXCEPT !.overflow = TRUE]
    ELSE [f EXCEPT !.pending = [s \in DOMAIN @ \cup {seq} |-> IF s = seq THEN payload ELSE @[s]]]

\* Variant: an overlapping segment is appended from its first byte.
IntegrateWhole(f, seq, payload) ==
    IF SeqAfter(seq, f.next)
    THEN Buffer(f, seq, payload)
    ELSE IF SeqAfter(SeqAdd(seq, Len(payload)), f.next)
         THEN Drain(AppendInOrder(f, payload))
         ELSE f

\* integrate: in order, early, or at least partly seen before.
Integrate(f, seq, payload) ==
    LET skip == SeqSub(f.next, seq) IN
    IF seq = f.next
    THEN Drain(AppendInOrder(f, payload))
    ELSE IF SeqAfter(seq, f.next)
    THEN Buffer(f, seq, payload)
    ELSE IF SeqAfter(SeqAdd(seq, Len(payload)), f.next) /\ skip < Len(payload)
    THEN Drain(AppendInOrder(f, SubSeq(payload, skip + 1, Len(payload))))
    ELSE f

-----------------------------------------------------------------------------
(* The reassembler *)

\* What onStream makes of a flow that ends: a job, unless it is empty.
Carved(k, f) ==
    IF f.buf = <<>> THEN {}
    ELSE {[key |-> k, buf |-> f.buf, overflow |-> f.overflow,
           base |-> f.base, seen |-> f.seen]}

\* The state consume finds or creates for a flow.
Known(k) == IF k \in DOMAIN flows THEN flows[k] ELSE NewFlow

\* A SYN, or the first data of a flow whose SYN was missed, sets the baseline.
Baseline(f, seq, syn, data, off) ==
    IF syn THEN [f EXCEPT !.next = SeqAdd(seq, 1), !.have = TRUE]
    ELSE IF data /\ ~f.have
    THEN [f EXCEPT !.next = seq, !.have = TRUE, !.base = off]
    ELSE f

\* The bytes of a payload at an offset of the stream.
Bytes(off, len) == [i \in 1..len |-> off + i - 1]

\* The state of flow k with a segment: its payload, its SYN and its timestamp.
Arrived(k, off, len, syn, ts) ==
    LET seq == IF syn THEN Isn[k] ELSE SeqAdd(Isn[k], 1 + off)
        f == Baseline([Known(k) EXCEPT !.last = ts], seq, syn, len > 0, off)
    IN  [IF len > 0 THEN Integrate(f, seq, Bytes(off, len)) ELSE f
            EXCEPT !.seen = @ \cup (off..(off + len - 1))]

\* sweepIdle: the flows silent for the idle window, by the newest timestamp.
IdleFlows(fs, now) == {j \in DOMAIN fs : Idle > 0 /\ now - fs[j].last >= Idle}

\* consume: one segment of flow k, which a FIN or a RST ends.
Consume(k, off, len, syn, ends, ts) ==
    LET now == IF ts > latest THEN ts ELSE latest
        f == Arrived(k, off, len, syn, ts)
        kept == (DOMAIN flows \cup {k}) \ {j \in {k} : ends}
        fs == [j \in kept |-> IF j = k THEN f ELSE flows[j]]
        idle == IdleFlows(fs, now)
    IN  /\ latest' = now
        /\ flows' = [j \in kept \ idle |-> fs[j]]
        /\ emitted' = (IF ends THEN Carved(k, f) ELSE {})
                          \cup UNION {Carved(j, fs[j]) : j \in idle}
        /\ UNCHANGED maxFlow

\* A segment with data, the last one possibly with the FIN.
Data(k, s, fin, ts) ==
    /\ fin => s[1] + s[2] = StreamLen
    /\ fin /\ Orderly => Offsets \subseteq Known(k).seen \cup (s[1]..(s[1] + s[2] - 1))
    /\ Consume(k, s[1], s[2], FALSE, fin, ts)

Syn(k, ts) ==
    /\ Orderly => Known(k).seen = {}
    /\ Consume(k, 0, 0, TRUE, FALSE, ts)

\* A FIN of its own.
Fin(k, ts) ==
    /\ Orderly => Offsets \subseteq Known(k).seen
    /\ Consume(k, StreamLen, 0, FALSE, TRUE, ts)

\* A RST, at any point of the stream.
Rst(k, ts) == Consume(k, 0, 0, FALSE, TRUE, ts)

\* Variant: the flows in flight are forgotten when the capture stops.
FlushDrops ==
    /\ flows' = <<>>
    /\ emitted' = {}
    /\ latest' = 0
    /\ UNCHANGED maxFlow

\* flush: the capture stops and every flow is emitted; the next capture starts
\* with a reassembler of its own.
Flush ==
    /\ flows' = <<>>
    /\ emitted' = UNION {Carved(k, flows[k]) : k \in DOMAIN flows}
    /\ latest' = 0
    /\ UNCHANGED maxFlow

Next ==
    \/ \E k \in Flows, ts \in 1..MaxTime :
          \/ \E s \in Segments, fin \in BOOLEAN : Data(k, s, fin, ts)
          \/ Syn(k, ts)
          \/ Fin(k, ts)
          \/ Rst(k, ts)
    \/ Flush

Spec == Init /\ [][Next]_vars

-----------------------------------------------------------------------------
(* Properties *)

Live == DOMAIN flows

\* The bytes a stream holds are consecutive bytes of what the client sent: none
\* twice, none skipped, none out of order.
Consecutive(e) == \A i \in 1..Len(e.buf) : e.buf[i] = e.base + i - 1

\* A flow's buffer is a run of its client's stream at any time, whatever is
\* lost, repeated or reordered and wherever the sequence numbers wrap.
StreamsContiguous ==
    \A e \in emitted \cup {flows[k] : k \in Live} : Consecutive(e)

\* The bytes that wait.
Waiting(f) ==
    UNION {{f.pending[s][i] : i \in DOMAIN f.pending[s]} : s \in DOMAIN f.pending}

\* Every byte captured at or after the base of a flow is in its buffer, waits,
\* or the flow is marked as truncated.
NothingDroppedSilently ==
    \A k \in Live :
        LET f == flows[k]
        IN  f.overflow \/ \A b \in f.seen :
                b < f.base \/ b < f.base + Len(f.buf) \/ b \in Waiting(f)

\* A job holds every byte that was captured up to the first one that was not,
\* unless it is marked as truncated.
CapturedIsCarved ==
    \A e \in emitted :
        e.overflow \/ e.base + Len(e.buf) \notin e.seen

\* What is held of a flow is bounded by the cap and the number of waiting
\* segments, and nothing is held of one that has been silent for the idle
\* window, once a later segment of any flow has been captured.
MemoryBounded ==
    \A k \in Live :
        /\ Idle > 0 => latest - flows[k].last < Idle
        /\ maxFlow = 0 \/ Len(flows[k].buf) <= maxFlow
        /\ Cardinality(DOMAIN flows[k].pending) <= MaxPending

\* A flow that ends is handed over when it holds something.
EndedIsEmitted ==
    [][\A k \in Live \ Live' : flows[k].buf # <<>> =>
          \E e \in emitted' : e.key = k /\ Len(e.buf) >= Len(flows[k].buf)]_vars
=============================================================================
