---------------------------- MODULE Interceptor ----------------------------
(***************************************************************************)
(* The interception mode (intercept.go) with the parts it owns: the packet *)
(* source (capture_linux.go, capture_windows.go), the pcap writer          *)
(* (pcapfile.go), the carver (carve.go), the live ring (live.go), the IP   *)
(* forwarding control (capture_windows.go, ics_windows.go) and the ARP     *)
(* positioner (arp_windows.go), and a viewer that polls the ring.          *)
(*                                                                         *)
(* The machine outlives the program: the routing switch, the shared        *)
(* connections and the ARP caches of the neighbours keep what a run left.  *)
(***************************************************************************)
EXTENDS Integers, Sequences, FiniteSets, SequencesExt, FiniteSetsExt

CONSTANTS
    Targets,        \* hosts in the ARP scope
    Kinds,          \* what a frame can be: "print" towards a carved port, ...
    Settings,       \* the configurations a run may start with
    Machines,       \* the states the machine may be found in
    ChanCap,        \* capacity of the source's channel
    RingMax,        \* liveMaxPackets
    ViewLimit,      \* rows a poll asks for at most
    MaxFrames,      \* bound: frames captured in all runs, by the setting of the last
    MaxRuns,        \* bound: runs
    NoFrame

ASSUME InterceptorAssumption ==
    /\ {ChanCap, RingMax, ViewLimit, MaxRuns} \subseteq Nat \ {0}
    /\ Machines \subseteq [routing : {"0", "1", ""}, shared : SUBSET {"public", "private"}]
    /\ Settings \subseteq
         [authorized : BOOLEAN,     \* operator, engagement, expiry
          arp : SUBSET Targets,     \* the valid allow-list, empty if disabled
          restoreOnStop : BOOLEAN,
          ipForward : BOOLEAN,
          ics : BOOLEAN,            \* both connection names are configured
          dropped : SUBSET Kinds,   \* kinds the IPv6 switch and the filter drop
          joins : BOOLEAN]          \* does Close of the source wait for its loop?
    /\ MaxFrames \in [Settings -> Nat]

VARIABLES
    conf,           \* the settings of the run
    pc,             \* how far startInterceptor or Close has come
    host,           \* the machine: IPEnableRouter and the shared connections
    fwd,            \* the forwarding control
    arp,            \* the positioner: resolved hosts, its loop
    misled,         \* ARP cache entries that name our MAC
    src,            \* the packet source
    pump,           \* where the pump is, and the frame in its hands
    pcap,           \* the capture file and its buffered writer
    carver,         \* frames of streams in flight, frames of saved jobs
    live,           \* the ring
    view,           \* the viewer's cursor and its rows
    ghost           \* history, read by the properties only

vars == <<conf, pc, host, fwd, arp, misled, src, pump, pcap, carver, live, view, ghost>>

\* An entry is <<who holds it, whose address it maps>>.
Entries(hosts) == (hosts \X {"gateway"}) \cup ({"gateway"} \X hosts)

Frames == Nat \X Kinds
\* got counts the frames of all runs and names them.
NoSource(got) == [chan |-> <<>>, done |-> TRUE, loop |-> "off", hand |-> NoFrame, got |-> got]
NoPump   == [at |-> "off", hand |-> NoFrame]
NoCarver == [inflight |-> <<>>, saved |-> {}]
NoFwd    == [held |-> FALSE, set |-> FALSE, icsSet |-> FALSE, prior |-> "0"]
NoArp    == [mac |-> {}, loop |-> "off"]

Init ==
    /\ conf \in Settings
    /\ pc = "down"
    /\ host \in Machines
    /\ fwd = NoFwd /\ arp = NoArp /\ misled = {}
    /\ src = NoSource(0) /\ pump = NoPump /\ carver = NoCarver
    /\ pcap = [disk |-> <<>>, buf |-> <<>>, open |-> FALSE, broken |-> FALSE]
    /\ live = [buf |-> <<>>, seq |-> 0]
    /\ view = [cursor |-> 0, rows |-> <<>>, missed |-> 0]
    /\ ghost = [runs |-> 0, found |-> host, excused |-> {}, written |-> <<>>,
                failed |-> {}, killed |-> FALSE]

-----------------------------------------------------------------------------
(* startInterceptor *)

\* Authorization, ARP scope, source and pcap file come first, and the failure
\* of any of them ends the start with nothing done to the machine.
Commit ==
    /\ pc = "down" /\ ghost.runs < MaxRuns
    /\ \E c \in Settings :
         /\ c.authorized
         /\ conf' = c
    /\ pc' = "filed"
    /\ src' = [NoSource(src.got) EXCEPT !.done = FALSE, !.loop = "on"]
    /\ pcap' = [disk |-> <<>>, buf |-> <<>>, open |-> TRUE, broken |-> FALSE]
    /\ carver' = NoCarver /\ fwd' = NoFwd /\ arp' = NoArp
    /\ ghost' = [ghost EXCEPT !.runs = @ + 1, !.found = host, !.excused = misled,
                              !.written = <<>>, !.failed = {}, !.killed = FALSE]
    /\ UNCHANGED <<host, misled, pump, live, view>>

\* The commands of the forwarding control that fail in a run: the registry query
\* and write of Enable, enableICS, disableICS, the registry write of Restore.
Commands == {"query", "add", "share", "unshare", "restore"}
Failing(cmds) == ghost' = [ghost EXCEPT !.failed = @ \cup cmds]

\* Variant: what was found is not looked at.
EnabledBlind(prior) == [held |-> TRUE, set |-> TRUE, icsSet |-> FALSE, prior |-> "0"]

\* winForwarding.Enable after its registry commands succeeded.
Enabled(prior) == [held |-> TRUE, set |-> prior # "1", icsSet |-> FALSE, prior |-> prior]

\* enableICS shares the public connection, then the private one; it can fail
\* before or between them.  A failure is logged and not undone.
ShareConnections(prior, misread) ==
    \E done \in {{}, {"public"}, {"public", "private"}} :
        /\ host' = [routing |-> "1", shared |-> host.shared \cup done]
        /\ fwd' = [Enabled(prior) EXCEPT !.icsSet = ("private" \in done)]
        /\ Failing(misread \cup IF "private" \in done THEN {} ELSE {"share"})

\* winForwarding.Enable.  The prior value is that of the switch, or empty, when
\* it is absent and when the query fails.  A failure of Enable is logged, and the
\* run goes on without a control.
Enable ==
    /\ pc = "filed"
    /\ pc' = "routed"
    /\ IF ~conf.ipForward
       THEN UNCHANGED <<host, fwd, ghost>>
       ELSE \E prior \in {host.routing, ""} :
              LET misread == IF prior = host.routing THEN {} ELSE {"query"}
              IN  \/ /\ prior = "1"
                     /\ fwd' = Enabled(prior)
                     /\ UNCHANGED host /\ Failing(misread)
                  \/ /\ prior # "1"
                     /\ UNCHANGED <<host, fwd>> /\ Failing(misread \cup {"add"})
                  \/ /\ prior # "1" /\ ~conf.ics
                     /\ fwd' = Enabled(prior)
                     /\ host' = [host EXCEPT !.routing = "1"] /\ Failing(misread)
                  \/ prior # "1" /\ conf.ics /\ ShareConnections(prior, misread)
    /\ UNCHANGED <<conf, arp, misled, src, pump, pcap, carver, live, view>>

\* The hosts poisonRound and restoreAll address: those with a known MAC.
Scope(mac) == conf.arp \cap mac

\* newARPController and Start: with the gateway and at least one target
\* resolved the loop starts; otherwise the run is capture-only.
Position ==
    /\ pc = "routed"
    /\ pc' = "placed"
    /\ \/ \E mac \in SUBSET conf.arp :
            mac # {} /\ arp' = [mac |-> mac, loop |-> "on"]
       \/ UNCHANGED arp
    /\ UNCHANGED <<conf, host, fwd, misled, src, pump, pcap, carver, live, view, ghost>>

\* Variant: the sequence goes on from the last run.
ResetKeepsSeq == [live EXCEPT !.buf = <<>>]

\* liveTap.reset
Reset == [buf |-> <<>>, seq |-> 0]

\* The ring is reset and the goroutines start.  A viewer keeps its cursor; of
\* its rows only those of this run are followed.
Launch ==
    /\ pc = "placed"
    /\ pc' = "up"
    /\ live' = Reset
    /\ pump' = [NoPump EXCEPT !.at = "select"]
    /\ view' = [view EXCEPT !.rows = <<>>]
    /\ UNCHANGED <<conf, host, fwd, arp, misled, src, pcap, carver, ghost>>

-----------------------------------------------------------------------------
(* The positioner and the neighbours *)

\* poisonRound: every reply of the round is heard or lost.
Poison ==
    /\ arp.loop = "on"
    /\ \E heard \in SUBSET Entries(Scope(arp.mac)) : misled' = misled \cup heard
    /\ UNCHANGED <<conf, pc, host, fwd, arp, src, pump, pcap, carver, live, view, ghost>>

\* A neighbour resolves an address anew and learns the truth.
Relearn ==
    /\ \E e \in misled : misled' = misled \ {e}
    /\ UNCHANGED <<conf, pc, host, fwd, arp, src, pump, pcap, carver, live, view, ghost>>

-----------------------------------------------------------------------------
(* The source: its loop reads a frame, then sends it or sees done. *)

Receive ==
    /\ src.loop = "on" /\ src.hand = NoFrame /\ ~src.done
    /\ src.got < MaxFrames[conf]
    /\ \E k \in Kinds :
         src' = [src EXCEPT !.hand = <<src.got + 1, k>>, !.got = @ + 1]
    /\ UNCHANGED <<conf, pc, host, fwd, arp, misled, pump, pcap, carver, live, view, ghost>>

Deliver ==
    /\ src.hand # NoFrame /\ Len(src.chan) < ChanCap
    /\ src' = [src EXCEPT !.chan = Append(@, src.hand), !.hand = NoFrame]
    /\ UNCHANGED <<conf, pc, host, fwd, arp, misled, pump, pcap, carver, live, view, ghost>>

\* Variant: a full channel is waited for, whatever else happens.
LoopMayEndBetween == src.done /\ src.hand = NoFrame

\* The select around the send also watches done.
LoopMayEnd == src.done

\* The loop ends on done, or on an error of the device while it reads.
LoopEnds ==
    /\ src.loop = "on"
    /\ LoopMayEnd \/ src.hand = NoFrame
    /\ src' = [src EXCEPT !.loop = "off", !.hand = NoFrame]
    /\ UNCHANGED <<conf, pc, host, fwd, arp, misled, pump, pcap, carver, live, view, ghost>>

\* Is the channel closed?  Where Close does not wait for the loop, the loop
\* closes it; otherwise Close does, once the loop has ended.
ChanClosed == src.loop = "off" /\ (~conf.joins \/ pc \in {"drain", "unroute", "shut"})

-----------------------------------------------------------------------------
(* The pump: take, write, record and consume. *)

Signalled == pc \in {"unsource", "drain", "unroute", "shut"}

\* The IPv6 switch and the capture filter.
Dropped(f) == f[2] \in conf.dropped

Take ==
    /\ pump.at = "select" /\ src.chan # <<>>
    /\ src' = [src EXCEPT !.chan = Tail(@)]
    /\ pump' = IF Dropped(Head(src.chan)) THEN pump
                ELSE [at |-> "write", hand |-> Head(src.chan)]
    /\ UNCHANGED <<conf, pc, host, fwd, arp, misled, pcap, carver, live, view, ghost>>

PumpStops ==
    /\ pump.at = "select"
    /\ Signalled \/ (ChanClosed /\ src.chan = <<>>)
    /\ pump' = NoPump
    /\ UNCHANGED <<conf, pc, host, fwd, arp, misled, src, pcap, carver, live, view, ghost>>

\* writePacket: the buffered writer repeats the error of an earlier flush, and
\* the pump ends on it; the rest of the interceptor goes on.
Write ==
    /\ pump.at = "write"
    /\ IF pcap.broken
       THEN /\ pump' = NoPump
            /\ UNCHANGED <<pcap, ghost>>
       ELSE /\ pcap' = [pcap EXCEPT !.buf = Append(@, pump.hand)]
            /\ ghost' = [ghost EXCEPT !.written = Append(@, pump.hand)]
            /\ pump' = [pump EXCEPT !.at = "record"]
    /\ UNCHANGED <<conf, pc, host, fwd, arp, misled, src, carver, live, view>>

\* The newest RingMax frames.
KeepNewest(buf) == IF Len(buf) > RingMax THEN Tail(buf) ELSE buf

\* The carver after a frame: it keeps one towards a print port, and a frame may
\* end its stream, which is then saved as a job; Reassembly has the streams.
Consumed(f) ==
    IF f[2] # "print" THEN {carver}
    ELSE {[carver EXCEPT !.inflight = Append(@, f)],
          [inflight |-> <<>>, saved |-> carver.saved \cup ToSet(carver.inflight) \cup {f}]}

\* The ring, then the carver, which only the pump touches.
Record ==
    /\ pump.at = "record"
    /\ live' = [buf |-> KeepNewest(Append(live.buf, pump.hand)), seq |-> live.seq + 1]
    /\ carver' \in Consumed(pump.hand)
    /\ pump' = [NoPump EXCEPT !.at = "select"]
    /\ UNCHANGED <<conf, pc, host, fwd, arp, misled, src, pcap, view, ghost>>

\* A flush of the buffered writer, by flushLoop's tick or by a full buffer:
\* the file gets all of it, or a part of it and the error stays.
Flushed(p) ==
    IF p.broken THEN {p}
    ELSE {[p EXCEPT !.disk = @ \o p.buf, !.buf = <<>>]}
         \cup {[p EXCEPT !.disk = @ \o SubSeq(p.buf, 1, n), !.broken = TRUE] :
                  n \in 0..(Len(p.buf) - 1)}

FlushTick ==
    /\ pcap.open /\ pc \notin {"filed", "routed", "placed"}
    /\ ~pcap.broken /\ pcap.buf # <<>>
    /\ pcap' \in Flushed(pcap)
    /\ UNCHANGED <<conf, pc, host, fwd, arp, misled, src, pump, carver, live, view, ghost>>

-----------------------------------------------------------------------------
(* Close, one step per call it makes *)

Same == <<conf, live, view>>

\* Variant: only the targets are told the truth.
RestoredTargets(hosts) == hosts \X {"gateway"}

\* restoreAll tells both sides of every pair.
Restored(hosts) == Entries(hosts)

\* Close of the positioner, the loop joined: three rounds of the truth if
\* configured.  An entry stays misled only if all three are lost on it.
Unposition ==
    /\ pc = "up"
    /\ arp' = [arp EXCEPT !.loop = "off"]
    /\ IF arp.loop = "on" /\ conf.restoreOnStop
       THEN \E lost \in SUBSET (misled \cap Restored(Scope(arp.mac))) :
              /\ misled' = misled \ (Restored(Scope(arp.mac)) \ lost)
              /\ ghost' = [ghost EXCEPT !.excused = @ \cup lost]
       ELSE UNCHANGED <<misled, ghost>>
    /\ pc' = "signal"
    /\ UNCHANGED <<host, fwd, src, pump, pcap, carver, Same>>

\* close(done), then Close of the source closes its own done.
SignalDone ==
    /\ pc = "signal"
    /\ src' = [src EXCEPT !.done = TRUE]
    /\ pc' = "unsource"
    /\ UNCHANGED <<host, fwd, arp, misled, pump, pcap, carver, ghost, Same>>

CloseSource ==
    /\ pc = "unsource"
    /\ ~conf.joins \/ src.loop = "off"
    /\ pc' = "drain"
    /\ UNCHANGED <<host, fwd, arp, misled, src, pump, pcap, carver, ghost, Same>>

\* Variant: the pump is not waited for.
PumpJoinedNever == TRUE

PumpJoined == pump.at = "off"

\* wg.Wait: the pump and flushLoop have returned; then the carver gives up
\* what is in flight.
Join ==
    /\ pc = "drain"
    /\ PumpJoined
    /\ carver' = [inflight |-> <<>>, saved |-> carver.saved \cup ToSet(carver.inflight)]
    /\ pc' = "unroute"
    /\ UNCHANGED <<host, fwd, arp, misled, src, pump, pcap, ghost, Same>>

\* What Restore writes to the routing switch.
PutBack == IF fwd.prior = "" THEN "0" ELSE fwd.prior

\* winForwarding.Restore: disableICS, when this run has shared, ends the sharing of
\* every connection, or leaves some; whatever it did, the switch is written, when
\* this run has changed it, or the write fails.
Unroute ==
    /\ pc = "unroute"
    /\ pc' = "shut"
    /\ \E shared \in (IF fwd.icsSet THEN SUBSET host.shared ELSE {host.shared}),
          routing \in (IF fwd.set THEN {PutBack, host.routing} ELSE {host.routing}) :
          /\ host' = [routing |-> routing, shared |-> shared]
          /\ Failing((IF fwd.icsSet /\ shared # {} THEN {"unshare"} ELSE {})
                       \cup IF fwd.set /\ routing # PutBack THEN {"restore"} ELSE {})
    /\ UNCHANGED <<fwd, arp, misled, src, pump, pcap, carver, Same>>

ClosePcap ==
    /\ pc = "shut"
    /\ \E p \in Flushed(pcap) : pcap' = [p EXCEPT !.open = FALSE]
    /\ pc' = "down"
    /\ UNCHANGED <<host, fwd, arp, misled, src, pump, carver, ghost, Same>>

\* The process is killed: the machine keeps what was done to it, the file what
\* was flushed.
Kill ==
    /\ pc # "down"
    /\ pc' = "down"
    /\ src' = NoSource(src.got) /\ pump' = NoPump /\ carver' = NoCarver
    /\ fwd' = NoFwd /\ arp' = NoArp
    /\ pcap' = [pcap EXCEPT !.buf = <<>>, !.open = FALSE]
    /\ live' = Reset
    /\ ghost' = [ghost EXCEPT !.killed = TRUE]
    /\ UNCHANGED <<conf, host, misled, view>>

-----------------------------------------------------------------------------
(* The viewer *)

\* Variant: ordinals from zero.
FirstNoZero(first, off) == first + off

\* The ordinal of the first row: 1 is the first packet of the run.
FirstNo(first, off) == first + off + 1

\* liveTap.since: the rows after the cursor, the newest limit of them.
Since(cursor) ==
    LET first == live.seq - Len(live.buf)
        start == IF cursor < first THEN first ELSE cursor
        avail == live.seq - start
        off   == (start - first) + (IF avail > ViewLimit THEN avail - ViewLimit ELSE 0)
    IN  [dropped |-> start - cursor,
         rows |-> IF start >= live.seq THEN <<>>
                  ELSE [i \in 1..(Len(live.buf) - off) |->
                          [no |-> FirstNo(first, off) + i - 1, frame |-> live.buf[off + i]]]]

Poll ==
    /\ view' = [cursor |-> live.seq,
                rows   |-> view.rows \o Since(view.cursor).rows,
                missed |-> view.missed + Since(view.cursor).dropped]
    /\ view' # view
    /\ UNCHANGED <<conf, pc, host, fwd, arp, misled, src, pump, pcap, carver, live, ghost>>

\* The live view is opened, in this run or an earlier one.
OpenView ==
    /\ view' = [cursor |-> 0, rows |-> <<>>, missed |-> 0]
    /\ view' # view
    /\ UNCHANGED <<conf, pc, host, fwd, arp, misled, src, pump, pcap, carver, live, ghost>>

-----------------------------------------------------------------------------

Pump == Take \/ PumpStops \/ Write \/ Record
Closing == Unposition \/ SignalDone \/ CloseSource \/ Join \/ Unroute \/ ClosePcap

Next ==
    \/ Commit \/ Enable \/ Position \/ Launch
    \/ Poison \/ Relearn
    \/ Receive \/ Deliver \/ LoopEnds
    \/ Pump \/ FlushTick
    \/ Closing \/ Kill
    \/ Poll \/ OpenView

\* The goroutines run.  When the engine calls Close is its own affair: only
\* what follows the call is fair.
Spec ==
    /\ Init /\ [][Next]_vars
    /\ WF_vars(Pump) /\ WF_vars(Deliver) /\ WF_vars(src.done /\ LoopEnds)
    /\ WF_vars(SignalDone \/ CloseSource \/ Join \/ Unroute \/ ClosePcap)

-----------------------------------------------------------------------------
(* Properties *)

\* No neighbour is left pointing at this machine once it no longer relays:
\* after Close has switched routing back, an entry poisoned in the run is
\* still misled only if every reply that would have restored it was lost.
\* (Close, "restore ARP caches BEFORE we stop forwarding")
NoBlackhole ==
    (fwd.held /\ conf.restoreOnStop /\ host.routing # "1") => misled \subseteq ghost.excused

\* What a run that was closed leaves different on the machine has a cause, and
\* only these: an absent routing value becomes "0"; a routing switch found on is
\* off only if the query of Enable failed, and one found off is on only if the
\* write of Restore failed; a connection is left shared only if sharing or
\* unsharing failed; and sharing that was there before is gone only if the run
\* shared the configured connections itself.  (winForwarding: "cleanup only undoes
\* what we changed")
HostAsFound ==
    (pc = "down" /\ ~ghost.killed) =>
        /\ \/ host.routing = ghost.found.routing
           \/ host.routing = "0" /\ (ghost.found.routing = "" \/ "query" \in ghost.failed)
           \/ host.routing = "1" /\ "restore" \in ghost.failed
        /\ \/ host.shared \subseteq ghost.found.shared
           \/ ghost.failed \cap {"share", "unshare"} # {}
        /\ \/ ghost.found.shared \subseteq host.shared
           \/ /\ conf.ics /\ "share" \notin ghost.failed
              /\ ghost.found.routing # "1" \/ "query" \in ghost.failed

\* A run that was closed and none of whose commands failed leaves the machine as
\* it found it ("Restore puts it back exactly as it was").
RestoredExactly ==
    (pc = "down" /\ ~ghost.killed /\ ghost.failed = {}) => host = ghost.found

\* At any moment, killed or not, the file is a prefix of what was captured,
\* and after Close, if the disk took everything, it is all of it, and every
\* print frame in it has reached a saved job.  (Close, "flush any in-flight
\* stream")
ClosedIsComplete ==
    /\ IsPrefix(pcap.disk, ghost.written)
    /\ (pc = "down" /\ ~ghost.killed) =>
          /\ ~pcap.broken => pcap.disk = ghost.written
          /\ carver.saved = {f \in ToSet(ghost.written) : f[2] = "print"}

\* The viewer's rows are true: row n of the live view is packet n of the
\* capture file, and no packet is shown twice, whatever was dropped between
\* polls and however many runs the viewer has been open for, and the ring they
\* come from is bounded.  (liveTap.since)
RowsTrue ==
    /\ Len(live.buf) <= RingMax
    /\ pc \in {"up", "signal", "unsource", "drain", "unroute", "shut"} =>
        /\ \A i \in DOMAIN view.rows :
              /\ view.rows[i].no \in DOMAIN ghost.written
              /\ view.rows[i].frame = ghost.written[view.rows[i].no]
        /\ \A i, j \in DOMAIN view.rows : i < j => view.rows[i].no < view.rows[j].no

\* A viewer that was open from the start of the run has been shown, or told it
\* missed, every packet up to its cursor.  (live.go: the dashboard "gets
\* everything new since last time")
EverythingNew ==
    pc = "up" => Len(view.rows) + view.missed >= view.cursor

\* A call of Close returns: nobody it waits for waits for it.  (interceptor.Close)
CloseReturns == pc = "signal" ~> pc = "down"
=============================================================================
