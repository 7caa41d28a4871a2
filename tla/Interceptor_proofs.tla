------------------------- MODULE Interceptor_proofs -------------------------
(***************************************************************************)
(* Proofs about Interceptor, for every set of targets, every choice of     *)
(* settings and machines, and every bound.                                 *)
(***************************************************************************)
EXTENDS Interceptor, SequenceTheorems, TLAPS

Phases == {"down", "filed", "routed", "placed", "up", "signal", "unsource", "drain",
           "unroute", "shut"}
Launched == {"up", "signal", "unsource", "drain", "unroute", "shut"}

Routings == {"0", "1", ""}
Sharings == SUBSET {"public", "private"}

HostType  == host \in [routing : Routings, shared : Sharings]
FwdTypes  == [held : BOOLEAN, set : BOOLEAN, icsSet : BOOLEAN, prior : Routings]
FwdType   == fwd \in FwdTypes
ArpType   == arp \in [mac : SUBSET Targets, loop : {"on", "off"}]
Sources   == [chan : Seq(Frames), done : BOOLEAN, loop : {"on", "off"},
              hand : Frames \cup {NoFrame}, got : Nat]
SrcType   == src \in Sources
PumpType  == /\ pump \in [at : {"off", "select", "write", "record"}, hand : Frames \cup {NoFrame}]
             /\ pump.at \in {"write", "record"} => pump.hand \in Frames
PcapType  == pcap \in [disk : Seq(Frames), buf : Seq(Frames), open : BOOLEAN, broken : BOOLEAN]
CarverType == carver \in [inflight : Seq(Frames), saved : SUBSET Frames]
LiveType  == /\ live \in [buf : Seq(Frames), seq : Nat]
             /\ Len(live.buf) <= RingMax /\ Len(live.buf) <= live.seq
Rows      == [no : Nat, frame : Frames]
ViewType  == view \in [cursor : Nat, rows : Seq(Rows), missed : Nat]
GhostType == ghost \in [runs : Nat, found : [routing : Routings, shared : Sharings],
                        excused : SUBSET Entries(Targets), written : Seq(Frames),
                        failed : SUBSET Commands, killed : BOOLEAN]

InterceptorType ==
    /\ conf \in Settings /\ pc \in Phases /\ misled \subseteq Entries(Targets)
    /\ HostType /\ FwdType /\ ArpType /\ SrcType /\ PumpType /\ PcapType /\ CarverType
    /\ LiveType /\ ViewType /\ GhostType

\* What was left different has a cause.
RoutingAsFound ==
    \/ host.routing = ghost.found.routing
    \/ host.routing = "0" /\ (ghost.found.routing = "" \/ "query" \in ghost.failed)
    \/ host.routing = "1" /\ "restore" \in ghost.failed
SharingAsFound ==
    /\ host.shared \subseteq ghost.found.shared \/ ghost.failed \cap {"share", "unshare"} # {}
    /\ \/ ghost.found.shared \subseteq host.shared
       \/ /\ conf.ics /\ "share" \notin ghost.failed
          /\ ghost.found.routing # "1" \/ "query" \in ghost.failed

\* What the forwarding control knows of the machine that was found.
Undoable ==
    /\ host.routing = "1"
    /\ fwd.prior = ghost.found.routing \/ (fwd.prior = "" /\ "query" \in ghost.failed)
    /\ fwd.set <=> fwd.prior # "1"
    /\ fwd.icsSet => conf.ics /\ fwd.set /\ "share" \notin ghost.failed
    /\ ~fwd.icsSet =>
          /\ ghost.found.shared \subseteq host.shared
          /\ host.shared \subseteq ghost.found.shared \/ "share" \in ghost.failed

\* What the run owes the machine and the neighbours.
MachineInv ==
    /\ pc # "down" => ~ghost.killed
    /\ pc = "filed" => fwd = NoFwd /\ host = ghost.found
    /\ pc = "filed" => ghost.failed = {}
    /\ ~fwd.held => ~fwd.set /\ ~fwd.icsSet
    /\ arp.loop = "on" => pc \in {"placed", "up"}
    /\ pc \in {"filed", "routed", "placed", "up"} =>
          misled \subseteq ghost.excused \cup IF arp.loop = "on" THEN Entries(Scope(arp.mac)) ELSE {}
    /\ pc \in {"signal", "unsource", "drain", "unroute", "shut", "down"}
          /\ conf.restoreOnStop /\ (pc = "down" => fwd.held) => misled \subseteq ghost.excused
    /\ pc \notin {"shut", "down"} => IF fwd.held THEN Undoable ELSE host = ghost.found
    /\ pc \in {"shut", "down"} /\ ~ghost.killed => RoutingAsFound /\ SharingAsFound

Prints(frames) == {f \in frames : f[2] = "print"}

\* Where the written frames are: in the file or its buffer, and those of prints
\* with the carver or in the hands of the pump.
CaptureInv ==
    /\ pcap.open <=> pc # "down"
    /\ pump.at # "off" => pc \in {"up", "signal", "unsource", "drain"}
    /\ IsPrefix(pcap.disk, ghost.written)
    /\ pcap.open /\ ~pcap.broken => pcap.disk \o pcap.buf = ghost.written
    /\ pc = "down" /\ ~ghost.killed /\ ~pcap.broken => pcap.disk = ghost.written
    /\ ~ghost.killed =>
          carver.saved \cup ToSet(carver.inflight)
               \cup Prints(IF pump.at = "record" THEN {pump.hand} ELSE {})
             = Prints(ToSet(ghost.written))
    /\ pc \in {"unroute", "shut", "down"} => carver.inflight = <<>>

\* The ring is the end of what was written and recorded; the rows are of it.
LiveInv ==
    /\ pc \in {"filed", "routed", "placed"} => ghost.written = <<>>
    /\ pc \in Launched =>
          /\ live.seq = Len(ghost.written) - IF pump.at = "record" THEN 1 ELSE 0
          /\ pump.at = "record" => ghost.written[live.seq + 1] = pump.hand
          /\ \A i \in 1..Len(live.buf) :
                live.buf[i] = ghost.written[live.seq - Len(live.buf) + i]
          /\ \A i \in DOMAIN view.rows :
                /\ view.rows[i].no \in 1..live.seq /\ view.rows[i].no <= view.cursor
                /\ view.rows[i].frame = ghost.written[view.rows[i].no]
          /\ \A i, j \in DOMAIN view.rows : i < j => view.rows[i].no < view.rows[j].no

-----------------------------------------------------------------------------
(* Types, one variable at a time *)

LEMMA ConstantTypes ==
    /\ \A s \in Settings : s.arp \subseteq Targets
    /\ Machines \subseteq [routing : Routings, shared : Sharings]
    /\ RingMax \in Nat \ {0} /\ ViewLimit \in Nat \ {0} /\ ChanCap \in Nat \ {0}
BY InterceptorAssumption DEF Routings, Sharings

LEMMA PhaseStep ==
    ASSUME conf \in Settings /\ pc \in Phases, [Next]_vars
    PROVE  (conf \in Settings /\ pc \in Phases)'
BY DEF Next, vars, Phases, Pump, Closing, Same, Commit, Enable, Position, Launch, Poison,
       Relearn, Receive, Deliver, LoopEnds, Take, PumpStops, Write, Record, FlushTick,
       Unposition, SignalDone, CloseSource, Join, Unroute, ClosePcap, Kill, Poll, OpenView

LEMMA EntriesMonotone ==
    ASSUME NEW A, NEW B, A \subseteq B
    PROVE  Entries(A) \subseteq Entries(B)
BY DEF Entries

\* The machine, the forwarding control and the positioner.
LEMMA MachineCases ==
    ASSUME [Next]_vars
    PROVE  \/ Commit \/ Enable \/ Position \/ Poison \/ Relearn \/ Unposition \/ Unroute \/ Kill
           \/ UNCHANGED <<host, fwd, arp, misled>>
BY DEF Next, vars, Pump, Closing, Same, Launch, Receive, Deliver, LoopEnds, Take, PumpStops,
       Write, Record, FlushTick, SignalDone, CloseSource, Join, ClosePcap, Poll, OpenView

LEMMA HostIs ==
    ASSUME NEW t \in Routings, NEW s \in Sharings, host' = [routing |-> t, shared |-> s]
    PROVE  HostType'
BY DEF HostType

LEMMA HostExcept ==
    ASSUME HostType
    PROVE  /\ host = [routing |-> host.routing, shared |-> host.shared]
           /\ \A s : [host EXCEPT !.shared = s] = [routing |-> host.routing, shared |-> s]
           /\ \A t : [host EXCEPT !.routing = t] = [routing |-> t, shared |-> host.shared]
BY DEF HostType

LEMMA NotMember == \A S, x : x \notin S => (x \in S) = FALSE
BY Z3

LEMMA MachineTypeStep ==
    ASSUME conf \in Settings, HostType, FwdType, ArpType, misled \subseteq Entries(Targets),
           [Next]_vars
    PROVE  HostType' /\ FwdType' /\ ArpType' /\ misled' \subseteq Entries(Targets)
<1> USE DEF Routings
<1>1. CASE Commit
  BY <1>1 DEF Commit, HostType, FwdType, FwdTypes, ArpType, NoFwd, NoArp
<1>2. CASE Enable
  <2>1. HostType' /\ FwdType'
    <3>1. CASE UNCHANGED <<host, fwd>>
      BY <3>1 DEF HostType, FwdType
    <3>2. ASSUME NEW prior \in Routings
          PROVE  /\ Enabled(prior) \in FwdTypes
                 /\ \A b \in BOOLEAN : [Enabled(prior) EXCEPT !.icsSet = b] \in FwdTypes
      BY DEF FwdTypes, Enabled
    <3>3. PICK prior \in {host.routing, ""}, misread \in SUBSET Commands :
             \/ UNCHANGED <<host, fwd>>
             \/ fwd' = Enabled(prior) /\ host' \in {host, [host EXCEPT !.routing = "1"]}
             \/ ShareConnections(prior, misread)
      BY <1>2 DEF Enable, Commands
    <3>4. prior \in Routings
      BY <3>3 DEF HostType
    <3>5. CASE fwd' = Enabled(prior) /\ host' \in {host, [host EXCEPT !.routing = "1"]}
      BY <3>2, <3>4, <3>5 DEF HostType, FwdType, FwdTypes
    <3>6. CASE ShareConnections(prior, misread)
      <4>1. FwdType'
        <5>1. PICK done \in {{}, {"public"}, {"public", "private"}} :
                 fwd' = [Enabled(prior) EXCEPT !.icsSet = ("private" \in done)]
          BY <3>6 DEF ShareConnections
        <5>2. CASE "private" \in done
          <6>1. fwd' = [Enabled(prior) EXCEPT !.icsSet = TRUE]
            BY <5>1, <5>2
          <6>2. QED BY <3>2, <3>4, <6>1 DEF FwdType
        <5>3. CASE "private" \notin done
          <6>1. ("private" \in done) = FALSE
            BY <5>3, NotMember, Zenon
          <6>2. fwd' = [Enabled(prior) EXCEPT !.icsSet = FALSE]
            BY <5>1, <6>1, Zenon
          <6>3. QED BY <3>2, <3>4, <6>2 DEF FwdType
        <5>4. QED BY <5>2, <5>3
      <4>2. \E s \in Sharings : host' = [routing |-> "1", shared |-> s]
        BY <3>6 DEF ShareConnections, HostType, Sharings
      <4>3. QED BY <4>1, <4>2, HostIs
    <3>7. QED BY <3>1, <3>3, <3>5, <3>6
  <2>2. QED BY <1>2, <2>1 DEF Enable, ArpType
<1>3. CASE Position
  <2>1. ASSUME NEW mac \in SUBSET conf.arp, arp' = [mac |-> mac, loop |-> "on"] PROVE ArpType'
    <3>1. mac \subseteq Targets
      BY ConstantTypes
    <3>2. QED BY <2>1, <3>1 DEF ArpType
  <2>2. UNCHANGED arp => ArpType'
    BY DEF ArpType
  <2>3. QED BY <1>3, <2>1, <2>2 DEF Position, HostType, FwdType
<1>4. CASE Poison
  <2>1. Entries(Scope(arp.mac)) \subseteq Entries(Targets)
    BY ConstantTypes, EntriesMonotone DEF Scope
  <2>2. QED BY <1>4, <2>1 DEF Poison, HostType, FwdType, ArpType
<1>5. CASE Relearn
  BY <1>5 DEF Relearn, HostType, FwdType, ArpType
<1>6. CASE Unposition
  <2>1. ArpType'
    BY <1>6 DEF Unposition, ArpType
  <2>2. misled' \subseteq misled
    BY <1>6 DEF Unposition
  <2>3. QED BY <1>6, <2>1, <2>2 DEF Unposition, HostType, FwdType
<1>7. CASE Unroute
  <2>1. HostType'
    <3>1. \E s \in Sharings, t \in Routings : host' = [routing |-> t, shared |-> s]
      <4>1. host.routing \in Routings /\ host.shared \in Sharings /\ PutBack \in Routings
        BY DEF HostType, FwdType, FwdTypes, PutBack
      <4>2. PICK shared \in (IF fwd.icsSet THEN SUBSET host.shared ELSE {host.shared}),
                 routing \in (IF fwd.set THEN {PutBack, host.routing} ELSE {host.routing}) :
               host' = [routing |-> routing, shared |-> shared]
        BY <1>7 DEF Unroute
      <4>3. shared \in Sharings /\ routing \in Routings
        BY <4>1, <4>2 DEF Sharings
      <4>4. QED BY <4>2, <4>3
    <3>2. QED BY <3>1, HostIs
  <2>2. QED BY <1>7, <2>1 DEF Unroute, FwdType, ArpType
<1>8. CASE Kill
  BY <1>8 DEF Kill, HostType, FwdType, FwdTypes, ArpType, NoFwd, NoArp
<1>9. CASE UNCHANGED <<host, fwd, arp, misled>>
  BY <1>9 DEF HostType, FwdType, ArpType
<1>10. QED BY <1>1, <1>2, <1>3, <1>4, <1>5, <1>6, <1>7, <1>8, <1>9, MachineCases

\* The source and the pump.
LEMMA SourceCases ==
    ASSUME [Next]_vars
    PROVE  \/ Commit \/ Launch \/ Receive \/ Deliver \/ LoopEnds \/ Take \/ PumpStops \/ Write
           \/ Record \/ SignalDone \/ Kill
           \/ UNCHANGED <<src, pump>>
BY DEF Next, vars, Pump, Closing, Same, Enable, Position, Poison, Relearn, FlushTick,
       Unposition, CloseSource, Join, Unroute, ClosePcap, Poll, OpenView

LEMMA SourceTypeStep ==
    ASSUME SrcType, PumpType, [Next]_vars
    PROVE  SrcType' /\ PumpType'
<1>0. NoSource(src.got) \in Sources
  BY DEF SrcType, Sources, NoSource
<1>1. CASE Commit
  <2> DEFINE s == NoSource(src.got)
  <2>0. s \in Sources /\ src' = [s EXCEPT !.done = FALSE, !.loop = "on"]
    BY <1>0, <1>1 DEF Commit
  <2> HIDE DEF s
  <2>1. src' \in Sources
    BY <2>0 DEF Sources
  <2>2. QED BY <1>1, <2>1 DEF Commit, SrcType, PumpType
<1>2. CASE Launch
  BY <1>2 DEF Launch, SrcType, PumpType, NoPump
<1>3. CASE Receive
  <2>1. PICK k \in Kinds : src' = [src EXCEPT !.hand = <<src.got + 1, k>>, !.got = src.got + 1]
    BY <1>3 DEF Receive
  <2> DEFINE n == src.got + 1
             f == <<n, k>>
  <2>2. f \in Frames /\ n \in Nat
    BY DEF SrcType, Sources, Frames
  <2>3. src' = [src EXCEPT !.hand = f, !.got = n]
    BY <2>1
  <2> HIDE DEF n, f
  <2>4. SrcType'
    BY <2>2, <2>3 DEF SrcType, Sources
  <2>5. QED BY <1>3, <2>4 DEF Receive, PumpType
<1>4. CASE Deliver
  <2>1. src.hand \in Frames /\ src.chan \in Seq(Frames)
    BY <1>4 DEF Deliver, SrcType, Sources
  <2> DEFINE chan == Append(src.chan, src.hand)
  <2>2. chan \in Seq(Frames)
    BY <2>1, AppendProperties
  <2>3. src' = [src EXCEPT !.chan = chan, !.hand = NoFrame]
    BY <1>4 DEF Deliver
  <2> HIDE DEF chan
  <2>4. SrcType'
    BY <2>2, <2>3 DEF SrcType, Sources
  <2>5. QED BY <1>4, <2>4 DEF Deliver, PumpType
<1>5. CASE LoopEnds
  BY <1>5 DEF LoopEnds, SrcType, Sources, PumpType
<1>6. CASE Take
  <2>1. src.chan \in Seq(Frames) /\ src.chan # <<>>
    BY <1>6 DEF Take, SrcType, Sources
  <2>2. Head(src.chan) \in Frames /\ Tail(src.chan) \in Seq(Frames)
    BY <2>1, HeadTailProperties
  <2>3. SrcType'
    <3> DEFINE chan == Tail(src.chan)
    <3>1. chan \in Seq(Frames) /\ src' = [src EXCEPT !.chan = chan]
      BY <1>6, <2>2 DEF Take
    <3> HIDE DEF chan
    <3>2. QED BY <3>1 DEF SrcType, Sources
  <2>4. PumpType'
    BY <1>6, <2>2 DEF Take, PumpType
  <2>5. QED BY <2>3, <2>4
<1>7. CASE PumpStops
  BY <1>7 DEF PumpStops, SrcType, PumpType, NoPump
<1>8. CASE Write
  BY <1>8 DEF Write, SrcType, PumpType, NoPump
<1>9. CASE Record
  BY <1>9 DEF Record, SrcType, PumpType, NoPump
<1>10. CASE SignalDone
  BY <1>10 DEF SignalDone, SrcType, Sources, PumpType
<1>11. CASE Kill
  BY <1>0, <1>11 DEF Kill, SrcType, PumpType, NoPump
<1>12. CASE UNCHANGED <<src, pump>>
  BY <1>12 DEF SrcType, PumpType
<1>13. QED
  BY <1>1, <1>2, <1>3, <1>4, <1>5, <1>6, <1>7, <1>8, <1>9, <1>10, <1>11, <1>12, SourceCases

\* The file and the carver.
LEMMA CaptureCases ==
    ASSUME [Next]_vars
    PROVE  \/ Commit \/ Write \/ Record \/ FlushTick \/ Join \/ ClosePcap \/ Kill
           \/ UNCHANGED <<pcap, carver>>
BY DEF Next, vars, Pump, Closing, Same, Enable, Position, Launch, Poison, Relearn, Receive,
       Deliver, LoopEnds, Take, PumpStops, Unposition, SignalDone, CloseSource, Unroute,
       Poll, OpenView

LEMMA PcapIs ==
    ASSUME PcapType, NEW disk \in Seq(Frames), NEW buf \in Seq(Frames),
           NEW open \in BOOLEAN, NEW broken \in BOOLEAN
    PROVE  /\ [pcap EXCEPT !.disk = disk, !.buf = buf] \in
                 [disk : Seq(Frames), buf : Seq(Frames), open : BOOLEAN, broken : BOOLEAN]
           /\ [pcap EXCEPT !.disk = disk, !.broken = broken] \in
                 [disk : Seq(Frames), buf : Seq(Frames), open : BOOLEAN, broken : BOOLEAN]
           /\ [pcap EXCEPT !.buf = buf, !.open = open] \in
                 [disk : Seq(Frames), buf : Seq(Frames), open : BOOLEAN, broken : BOOLEAN]
           /\ [pcap EXCEPT !.buf = buf] \in
                 [disk : Seq(Frames), buf : Seq(Frames), open : BOOLEAN, broken : BOOLEAN]
BY DEF PcapType

\* A flush moves the buffer to the file, or a part of it and no more after that.
LEMMA FlushedIs ==
    ASSUME PcapType, NEW p \in Flushed(pcap)
    PROVE  /\ p \in [disk : Seq(Frames), buf : Seq(Frames), open : BOOLEAN, broken : BOOLEAN]
           /\ p.open = pcap.open
           /\ \/ pcap.broken /\ p = pcap
              \/ ~pcap.broken /\ ~p.broken /\ p.disk = pcap.disk \o pcap.buf /\ p.buf = <<>>
              \/ /\ ~pcap.broken /\ p.broken
                 /\ \E n \in 0..(Len(pcap.buf) - 1) : p.disk = pcap.disk \o SubSeq(pcap.buf, 1, n)
<1>1. pcap.disk \in Seq(Frames) /\ pcap.buf \in Seq(Frames) /\ Len(pcap.buf) \in Nat
      /\ pcap.open \in BOOLEAN /\ pcap.broken \in BOOLEAN
  BY LenProperties DEF PcapType
<1>2. CASE pcap.broken
  BY <1>2 DEF Flushed, PcapType
<1>3. CASE ~pcap.broken /\ p = [pcap EXCEPT !.disk = pcap.disk \o pcap.buf, !.buf = <<>>]
  <2>1. pcap.disk \o pcap.buf \in Seq(Frames) /\ << >> \in Seq(Frames)
    BY <1>1, ConcatProperties
  <2>2. p \in [disk : Seq(Frames), buf : Seq(Frames), open : BOOLEAN, broken : BOOLEAN]
    BY <1>3, <2>1, PcapIs
  <2>3. p.open = pcap.open /\ p.broken = pcap.broken
    BY <1>3 DEF PcapType
  <2>4. p.disk = pcap.disk \o pcap.buf /\ p.buf = <<>>
    BY <1>3 DEF PcapType
  <2>5. QED BY <1>3, <2>2, <2>3, <2>4
<1>4. ASSUME ~pcap.broken, NEW n \in 0..(Len(pcap.buf) - 1),
             p = [pcap EXCEPT !.disk = pcap.disk \o SubSeq(pcap.buf, 1, n), !.broken = TRUE]
      PROVE  /\ p \in [disk : Seq(Frames), buf : Seq(Frames), open : BOOLEAN, broken : BOOLEAN]
             /\ p.open = pcap.open /\ p.broken
             /\ p.disk = pcap.disk \o SubSeq(pcap.buf, 1, n)
  <2>1. \A i \in 1..n : pcap.buf[i] \in Frames
    BY <1>1, ElementOfSeq
  <2>2. 1 \in Int /\ n \in Int
    OBVIOUS
  <2>3. SubSeq(pcap.buf, 1, n) \in Seq(Frames)
    BY <1>1, <2>1, <2>2, SubSeqProperties
  <2>4. pcap.disk \o SubSeq(pcap.buf, 1, n) \in Seq(Frames)
    BY <1>1, <2>3, ConcatProperties
  <2>5. p \in [disk : Seq(Frames), buf : Seq(Frames), open : BOOLEAN, broken : BOOLEAN]
    BY <1>4, <2>4, PcapIs
  <2>6. p.open = pcap.open /\ p.broken = TRUE
    BY <1>4 DEF PcapType
  <2>7. p.disk = pcap.disk \o SubSeq(pcap.buf, 1, n)
    BY <1>4 DEF PcapType
  <2>8. QED BY <2>5, <2>6, <2>7
<1>5. QED BY <1>2, <1>3, <1>4 DEF Flushed

LEMMA ToSetAppend ==
    ASSUME NEW S, NEW s \in Seq(S), NEW e \in S
    PROVE  /\ Append(s, e) \in Seq(S)
           /\ ToSet(Append(s, e)) = ToSet(s) \cup {e}
           /\ ToSet(s) \subseteq S
<1>1. /\ Append(s, e) \in Seq(S)
      /\ Len(Append(s, e)) = Len(s) + 1
      /\ \A i \in 1..Len(s) : Append(s, e)[i] = s[i]
      /\ Append(s, e)[Len(s) + 1] = e
  BY AppendProperties
<1>2. Len(s) \in Nat /\ DOMAIN s = 1..Len(s) /\ DOMAIN Append(s, e) = 1..(Len(s) + 1)
  BY <1>1, LenProperties
<1>3. \A i \in 1..Len(s) : s[i] \in S
  BY ElementOfSeq
<1>4. QED BY <1>1, <1>2, <1>3 DEF ToSet

LEMMA CaptureTypeStep ==
    ASSUME PumpType, PcapType, CarverType, [Next]_vars
    PROVE  PcapType' /\ CarverType'
<1>0. \A f \in Frames : ToSet(Append(carver.inflight, f)) \subseteq Frames
                        /\ Append(carver.inflight, f) \in Seq(Frames)
                        /\ ToSet(carver.inflight) \subseteq Frames
  BY ToSetAppend DEF CarverType
<1>1. CASE Commit
  BY <1>1 DEF Commit, PcapType, CarverType, NoCarver
<1>2. CASE Write
  <2>1. CASE UNCHANGED pcap
    BY <1>2, <2>1 DEF Write, PcapType, CarverType
  <2>2. CASE pcap' = [pcap EXCEPT !.buf = Append(@, pump.hand)]
    <3> DEFINE buf == Append(pcap.buf, pump.hand)
    <3>1. buf \in Seq(Frames)
      BY <1>2, AppendProperties DEF Write, PcapType, PumpType
    <3>2. pcap' = [pcap EXCEPT !.buf = buf]
      BY <2>2
    <3> HIDE DEF buf
    <3>3. PcapType'
      BY <3>1, <3>2 DEF PcapType
    <3>4. QED BY <1>2, <3>3 DEF Write, CarverType
  <2>3. QED BY <1>2, <2>1, <2>2 DEF Write
<1>3. CASE Record
  <2>1. pump.hand \in Frames
    BY <1>3 DEF Record, PumpType
  <2>2. CASE carver' = carver
    BY <1>3, <2>2 DEF Record, PcapType, CarverType
  <2>3. CASE carver' = [carver EXCEPT !.inflight = Append(@, pump.hand)]
    <3> DEFINE fl == Append(carver.inflight, pump.hand)
    <3>1. fl \in Seq(Frames) /\ carver' = [carver EXCEPT !.inflight = fl]
      BY <1>0, <2>1, <2>3
    <3> HIDE DEF fl
    <3>2. CarverType'
      BY <3>1 DEF CarverType
    <3>3. QED BY <1>3, <3>2 DEF Record, PcapType
  <2>4. CASE carver' = [inflight |-> <<>>,
                        saved |-> carver.saved \cup ToSet(carver.inflight) \cup {pump.hand}]
    <3> DEFINE sv == carver.saved \cup ToSet(carver.inflight) \cup {pump.hand}
    <3>1. sv \in SUBSET Frames /\ carver' = [inflight |-> <<>>, saved |-> sv] /\ << >> \in Seq(Frames)
      BY <1>0, <2>1, <2>4 DEF CarverType
    <3> HIDE DEF sv
    <3>2. CarverType'
      BY <3>1 DEF CarverType
    <3>3. QED BY <1>3, <3>2 DEF Record, PcapType
  <2>5. QED BY <1>3, <2>2, <2>3, <2>4 DEF Record, Consumed
<1>4. CASE FlushTick
  BY <1>4, FlushedIs DEF FlushTick, PcapType, CarverType
<1>5. CASE Join
  <2> DEFINE sv == carver.saved \cup ToSet(carver.inflight)
  <2>1. /\ carver' = [inflight |-> <<>>, saved |-> sv] /\ << >> \in Seq(Frames)
        /\ UNCHANGED pcap
    BY <1>5 DEF Join
  <2>2. \A i \in DOMAIN carver.inflight : carver.inflight[i] \in Frames
    BY ElementOfSeq, LenProperties DEF CarverType
  <2>3. sv \in SUBSET Frames
    BY <2>2 DEF CarverType, ToSet
  <2> HIDE DEF sv
  <2>4. QED BY <2>1, <2>3 DEF CarverType, PcapType
<1>6. CASE ClosePcap
  <2>1. PICK p \in Flushed(pcap) : pcap' = [p EXCEPT !.open = FALSE]
    BY <1>6 DEF ClosePcap
  <2>2. p \in [disk : Seq(Frames), buf : Seq(Frames), open : BOOLEAN, broken : BOOLEAN]
    BY FlushedIs
  <2>3. PcapType'
    BY <2>1, <2>2 DEF PcapType
  <2>4. QED BY <1>6, <2>3 DEF ClosePcap, CarverType
<1>7. CASE Kill
  <2> DEFINE e == <<>>
  <2>0. e \in Seq(Frames) /\ pcap' = [pcap EXCEPT !.buf = e, !.open = FALSE]
    BY <1>7 DEF Kill
  <2> HIDE DEF e
  <2>1. PcapType'
    BY <2>0 DEF PcapType
  <2>2. CarverType'
    BY <1>7 DEF Kill, CarverType, NoCarver
  <2>3. QED BY <2>1, <2>2
<1>8. CASE UNCHANGED <<pcap, carver>>
  BY <1>8 DEF PcapType, CarverType
<1>9. QED BY <1>1, <1>2, <1>3, <1>4, <1>5, <1>6, <1>7, <1>8, CaptureCases

\* The ring and the viewer.
LEMMA LiveCases ==
    ASSUME [Next]_vars
    PROVE  \/ Launch \/ Record \/ Kill \/ Poll \/ OpenView
           \/ UNCHANGED <<live, view>>
BY DEF Next, vars, Pump, Closing, Same, Commit, Enable, Position, Poison, Relearn, Receive,
       Deliver, LoopEnds, Take, PumpStops, Write, FlushTick, Unposition, SignalDone,
       CloseSource, Join, Unroute, ClosePcap

\* The ring after a frame: its frames one later, and without the first if it is full.
LEMMA RingIs ==
    ASSUME LiveType, NEW f \in Frames
    PROVE  LET new == KeepNewest(Append(live.buf, f)) IN
           /\ new \in Seq(Frames)
           /\ Len(new) <= RingMax /\ Len(new) <= live.seq + 1 /\ Len(new) \in Nat
           /\ \E n \in {0, 1} :
                 /\ Len(new) = Len(live.buf) + 1 - n
                 /\ \A i \in 1..Len(new) :
                       new[i] = IF i + n = Len(live.buf) + 1 THEN f ELSE live.buf[i + n]
<1> DEFINE buf == live.buf
           more == Append(buf, f)
           new == KeepNewest(more)
<1>1. buf \in Seq(Frames) /\ Len(buf) \in Nat /\ Len(buf) <= RingMax /\ Len(buf) <= live.seq
      /\ live.seq \in Nat
  BY LenProperties DEF LiveType
<1>2. /\ more \in Seq(Frames) /\ Len(more) = Len(buf) + 1
      /\ \A i \in 1..Len(buf) : more[i] = buf[i]
      /\ more[Len(buf) + 1] = f
  BY <1>1, AppendProperties
<1>3. RingMax \in Nat \ {0}
  BY ConstantTypes
<1> HIDE DEF more
<1>4. CASE Len(more) > RingMax
  <2>1. new = Tail(more) /\ more # <<>>
    BY <1>1, <1>2, <1>4, EmptySeq DEF KeepNewest
  <2>2. /\ new \in Seq(Frames) /\ Len(new) = Len(buf)
        /\ \A i \in 1..Len(new) : new[i] = more[i + 1]
    BY <1>1, <1>2, <2>1, HeadTailProperties
  <2>3. ASSUME NEW i \in 1..Len(new)
        PROVE  new[i] = IF i + 1 = Len(buf) + 1 THEN f ELSE buf[i + 1]
    <3>1. i + 1 = Len(buf) + 1 \/ i + 1 \in 1..Len(buf)
      BY <1>1, <2>2
    <3>2. QED BY <1>2, <2>2, <2>3, <3>1
  <2>4. Len(new) = Len(buf) + 1 - 1
    BY <1>1, <2>2
  <2>5. Len(new) <= RingMax /\ Len(new) <= live.seq + 1 /\ Len(new) \in Nat
    BY <1>1, <2>2
  <2> HIDE DEF new
  <2>6. QED BY <2>2, <2>3, <2>4, <2>5 DEF new, more, buf
<1>5. CASE ~(Len(more) > RingMax)
  <2>1. new = more
    BY <1>5 DEF KeepNewest
  <2>2. ASSUME NEW i \in 1..Len(new)
        PROVE  new[i] = IF i + 0 = Len(buf) + 1 THEN f ELSE buf[i + 0]
    <3>1. i = Len(buf) + 1 \/ i \in 1..Len(buf)
      BY <1>1, <1>2, <2>1
    <3>2. i + 0 = i
      OBVIOUS
    <3>3. QED BY <1>1, <1>2, <2>1, <3>1, <3>2
  <2>3. Len(new) = Len(buf) + 1 - 0
    BY <1>1, <1>2, <2>1
  <2>4. Len(new) <= RingMax /\ Len(new) <= live.seq + 1 /\ Len(new) \in Nat /\ new \in Seq(Frames)
    BY <1>1, <1>2, <1>3, <1>5, <2>1
  <2> HIDE DEF new
  <2>5. QED BY <2>2, <2>3, <2>4 DEF new, more, buf
<1>6. QED BY <1>4, <1>5

LEMMA SeqIs ==
    ASSUME NEW S, NEW n \in Nat, NEW s \in [1..n -> S]
    PROVE  s \in Seq(S)
BY SeqDef

\* What a poll adds: rows behind the cursor, in the order of the ring.
LEMMA SinceIs ==
    ASSUME LiveType, NEW cursor \in Nat
    PROVE  /\ Since(cursor).dropped \in Nat
           /\ Since(cursor).rows \in Seq(Rows)
           /\ \E off \in Nat :
                 \A i \in DOMAIN Since(cursor).rows :
                    /\ off + i \in 1..Len(live.buf)
                    /\ Since(cursor).rows[i].no = live.seq - Len(live.buf) + off + i
                    /\ Since(cursor).rows[i].frame = live.buf[off + i]
                    /\ Since(cursor).rows[i].no > cursor
                    /\ Since(cursor).rows[i].no <= live.seq
<1> DEFINE len == Len(live.buf)
           first == live.seq - len
           start == IF cursor < first THEN first ELSE cursor
           avail == live.seq - start
           off   == (start - first) + (IF avail > ViewLimit THEN avail - ViewLimit ELSE 0)
           rows  == [i \in 1..(len - off) |->
                        [no |-> first + off + 1 + i - 1, frame |-> live.buf[off + i]]]
<1>1. /\ live.buf \in Seq(Frames) /\ len \in Nat /\ live.seq \in Nat /\ len <= live.seq
      /\ ViewLimit \in Nat \ {0}
  BY LenProperties, ConstantTypes DEF LiveType
<1>2. Since(cursor) = [dropped |-> start - cursor,
                       rows |-> IF start >= live.seq THEN <<>> ELSE rows]
  BY DEF Since, FirstNo
<1> HIDE DEF len
<1>3. first \in Nat /\ start \in Nat /\ start - cursor \in Nat /\ start >= first /\ start >= cursor
  BY <1>1
<1>4. CASE start >= live.seq
  <2>1. Since(cursor).rows = <<>> /\ Since(cursor).dropped \in Nat
    BY <1>2, <1>3, <1>4
  <2>2. << >> \in Seq(Rows) /\ DOMAIN << >> = {}
    OBVIOUS
  <2>3. QED BY <2>1, <2>2
<1>5. CASE ~(start >= live.seq)
  <2> HIDE DEF start, first
  <2>1. off \in Nat /\ off >= start - first
    BY <1>1, <1>3 DEF first
  <2> HIDE DEF off
  <2>2. ASSUME NEW i \in 1..(len - off)
        PROVE  /\ off + i \in 1..len /\ rows[i].no = first + off + i
               /\ rows[i].frame = live.buf[off + i]
               /\ rows[i].no > cursor /\ rows[i].no <= live.seq
               /\ rows[i] \in Rows
    <3>1. off + i \in 1..len /\ i \in Nat
      BY <1>1, <2>1
    <3>2. rows[i] = [no |-> first + off + 1 + i - 1, frame |-> live.buf[off + i]]
      OBVIOUS
    <3>3. first + off + 1 + i - 1 = first + off + i
      BY <1>3, <2>1, <3>1
    <3>4. rows[i].no = first + off + i /\ rows[i].frame = live.buf[off + i]
      BY <3>2, <3>3
    <3>5. first + off + i > cursor /\ first + off + i <= live.seq /\ first + off + i \in Nat
      <4>1. first \in Nat /\ off \in Nat /\ i \in Nat /\ i >= 1 /\ off + i <= len
        BY <1>3, <2>1, <3>1
      <4>2. first + off + i > cursor /\ first + off + i \in Nat
        <5>1. start \in Nat /\ start >= cursor /\ off >= start - first
          BY <1>3, <2>1
        <5>2. QED BY <4>1, <5>1
      <4>3. len = live.seq - first
        BY <1>1 DEF first
      <4>4. first + off + i <= live.seq
        <5>1. live.seq \in Nat /\ len \in Nat
          BY <1>1
        <5>2. QED BY <4>1, <4>3, <5>1
      <4>5. QED BY <4>2, <4>4
    <3>6. live.buf[off + i] \in Frames
      BY <1>1, <3>1, ElementOfSeq DEF len
    <3>7. rows[i] \in Rows
      BY <3>2, <3>3, <3>5, <3>6 DEF Rows
    <3> HIDE DEF rows
    <3>8. rows[i].no > cursor /\ rows[i].no <= live.seq
      BY <3>4, <3>5
    <3>9. QED BY <3>1, <3>4, <3>7, <3>8
  <2>3. len - off \in Int /\ DOMAIN rows = 1..(len - off)
    BY <1>1, <2>1
  <2>4. rows \in Seq(Rows)
    <3>1. CASE len - off \in Nat
      <4>1. rows \in [1..(len - off) -> Rows]
        BY <2>2
      <4> HIDE DEF rows
      <4>2. PICK n \in Nat : n = len - off
        BY <3>1
      <4>3. rows \in [1..n -> Rows]
        BY <4>1, <4>2
      <4>4. QED BY <4>3, SeqIs
    <3>2. CASE len - off \notin Nat
      <4>1. 1..(len - off) = {}
        BY <2>3, <3>2
      <4>2. rows = <<>> /\ << >> \in Seq(Rows)
        BY <4>1
      <4> HIDE DEF rows
      <4>3. QED BY <4>2
    <3>3. QED BY <3>1, <3>2
  <2>5. Since(cursor).rows = rows /\ Since(cursor).dropped \in Nat
    BY <1>2, <1>3, <1>5
  <2> HIDE DEF rows
  <2>6. QED BY <2>1, <2>2, <2>3, <2>4, <2>5 DEF first, len
<1>6. QED BY <1>4, <1>5

LEMMA LiveTypeStep ==
    ASSUME LiveType, ViewType, PumpType, [Next]_vars
    PROVE  LiveType' /\ ViewType'
<1>0. << >> \in Seq(Frames) /\ << >> \in Seq(Rows) /\ RingMax \in Nat \ {0} /\ Len(<< >>) = 0
  BY ConstantTypes
<1>1. CASE Launch
  <2>1. LiveType'
    BY <1>0, <1>1 DEF Launch, Reset, LiveType
  <2>2. ViewType'
    BY <1>0, <1>1 DEF Launch, ViewType
  <2>3. QED BY <2>1, <2>2
<1>2. CASE Record
  <2> DEFINE new == KeepNewest(Append(live.buf, pump.hand))
  <2>1. new \in Seq(Frames) /\ Len(new) <= RingMax /\ Len(new) <= live.seq + 1
    BY <1>2, RingIs DEF Record, PumpType
  <2>2. live' = [buf |-> new, seq |-> live.seq + 1] /\ UNCHANGED view
    BY <1>2 DEF Record
  <2> HIDE DEF new
  <2>3. QED BY <2>1, <2>2 DEF LiveType, ViewType
<1>3. CASE Kill
  BY <1>0, <1>3 DEF Kill, Reset, LiveType, ViewType
<1>4. CASE Poll
  <2> DEFINE rows == view.rows \o Since(view.cursor).rows
             missed == view.missed + Since(view.cursor).dropped
  <2>1. view.cursor \in Nat /\ view.rows \in Seq(Rows) /\ view.missed \in Nat
    BY DEF ViewType
  <2>2. Since(view.cursor).rows \in Seq(Rows) /\ Since(view.cursor).dropped \in Nat
    BY <2>1, SinceIs
  <2>3. rows \in Seq(Rows) /\ missed \in Nat /\ live.seq \in Nat
    BY <2>1, <2>2, ConcatProperties DEF LiveType
  <2>4. view' = [cursor |-> live.seq, rows |-> rows, missed |-> missed] /\ UNCHANGED live
    BY <1>4 DEF Poll
  <2> HIDE DEF rows, missed
  <2>5. QED BY <2>3, <2>4 DEF LiveType, ViewType
<1>5. CASE OpenView
  BY <1>0, <1>5 DEF OpenView, LiveType, ViewType
<1>6. CASE UNCHANGED <<live, view>>
  BY <1>6 DEF LiveType, ViewType
<1>7. QED BY <1>1, <1>2, <1>3, <1>4, <1>5, <1>6, LiveCases

LEMMA GhostCases ==
    ASSUME [Next]_vars
    PROVE  \/ Commit \/ Enable \/ Write \/ Unposition \/ Unroute \/ Kill
           \/ UNCHANGED ghost
BY DEF Next, vars, Pump, Closing, Same, Position, Launch, Poison, Relearn, Receive, Deliver,
       LoopEnds, Take, PumpStops, Record, FlushTick, SignalDone, CloseSource, Join,
       ClosePcap, Poll, OpenView

\* What a step does to the history.
LEMMA GhostStep ==
    ASSUME InterceptorType, [Next]_vars
    PROVE  /\ GhostType'
           /\ Commit => /\ ghost'.found = host /\ ghost'.excused = misled
                        /\ ghost'.written = <<>> /\ ghost'.failed = {} /\ ~ghost'.killed
           /\ ~Commit => /\ ghost'.found = ghost.found /\ ghost.excused \subseteq ghost'.excused
                         /\ ghost'.killed = (IF Kill THEN TRUE ELSE ghost.killed)
                         /\ ghost'.failed = ghost.failed \/ Enable \/ Unroute
           /\ ~Commit /\ ~Write => ghost'.written = ghost.written
<1> DEFINE Ghosts == [runs : Nat, found : [routing : Routings, shared : Sharings],
                      excused : SUBSET Entries(Targets), written : Seq(Frames),
                      failed : SUBSET Commands, killed : BOOLEAN]
<1>0. ghost \in Ghosts
  BY DEF InterceptorType, GhostType
<1>1. CASE Commit
  <2> DEFINE runs == ghost.runs + 1
             written == <<>>
             failed == {}
  <2>1. ghost' = [ghost EXCEPT !.runs = runs, !.found = host, !.excused = misled,
                               !.written = written, !.failed = failed, !.killed = FALSE]
    BY <1>1 DEF Commit
  <2>2. /\ runs \in Nat /\ written \in Seq(Frames) /\ misled \in SUBSET Entries(Targets)
        /\ host \in [routing : Routings, shared : Sharings] /\ written = <<>>
        /\ failed = {} /\ failed \in SUBSET Commands
    BY <1>0 DEF InterceptorType, HostType
  <2> HIDE DEF runs, written, failed
  <2>3. ghost' \in Ghosts
    BY <1>0, <2>1, <2>2
  <2>4. /\ ghost'.found = host /\ ghost'.excused = misled
        /\ ghost'.written = <<>> /\ ghost'.failed = {} /\ ~ghost'.killed
    BY <1>0, <2>1, <2>2
  <2>5. QED BY <1>1, <2>3, <2>4 DEF GhostType
<1>2. CASE UNCHANGED ghost /\ ~Commit /\ ~Kill
  BY <1>0, <1>2 DEF GhostType
<1>3. ASSUME NEW cmds \in SUBSET Commands, Failing(cmds), Enable \/ Unroute, ~Commit, ~Kill
      PROVE  /\ GhostType' /\ ghost'.found = ghost.found /\ ghost'.excused = ghost.excused
             /\ ghost'.killed = ghost.killed /\ ghost'.written = ghost.written
  <2> DEFINE failed == ghost.failed \cup cmds
  <2>1. failed \in SUBSET Commands /\ ghost' = [ghost EXCEPT !.failed = failed]
    BY <1>0, <1>3 DEF Failing
  <2> HIDE DEF failed
  <2>2. QED BY <1>0, <2>1 DEF GhostType
<1>4. CASE Kill
  <2>1. ghost' = [ghost EXCEPT !.killed = TRUE] /\ ~Commit
    BY <1>4 DEF Kill, Commit
  <2>2. QED BY <1>0, <1>4, <2>1 DEF GhostType
<1>5. CASE Write
  <2>1. ~Commit /\ ~Kill
    BY <1>0, <1>5 DEF Write, Commit, Kill, NoPump
  <2>2. CASE ghost' = [ghost EXCEPT !.written = Append(@, pump.hand)]
    <3> DEFINE written == Append(ghost.written, pump.hand)
    <3>1. written \in Seq(Frames) /\ ghost' = [ghost EXCEPT !.written = written]
      BY <1>0, <1>5, <2>2, AppendProperties DEF Write, InterceptorType, PumpType
    <3> HIDE DEF written
    <3>2. QED BY <1>0, <1>5, <2>1, <3>1 DEF GhostType
  <2>3. QED BY <1>2, <1>5, <2>1, <2>2 DEF Write
<1>6. CASE Unposition
  <2>1. ~Commit /\ ~Kill
    BY <1>6 DEF Unposition, Commit, Kill
  <2>2. ASSUME NEW lost \in SUBSET misled, ghost' = [ghost EXCEPT !.excused = @ \cup lost]
        PROVE  GhostType' /\ ghost'.found = ghost.found /\ ghost.excused \subseteq ghost'.excused
               /\ ghost'.killed = ghost.killed /\ ghost'.failed = ghost.failed
               /\ ghost'.written = ghost.written
    <3> DEFINE excused == ghost.excused \cup lost
    <3>1. /\ excused \in SUBSET Entries(Targets) /\ ghost.excused \subseteq excused
          /\ ghost' = [ghost EXCEPT !.excused = excused]
      BY <1>0, <2>2 DEF InterceptorType
    <3> HIDE DEF excused
    <3>2. QED BY <1>0, <3>1 DEF GhostType
  <2>3. UNCHANGED ghost \/ \E lost \in SUBSET misled : ghost' = [ghost EXCEPT !.excused = @ \cup lost]
    BY <1>6 DEF Unposition
  <2>4. CASE UNCHANGED ghost
    BY <1>2, <2>1, <2>4
  <2>5. CASE \E lost \in SUBSET misled : ghost' = [ghost EXCEPT !.excused = @ \cup lost]
    BY <2>1, <2>2, <2>5
  <2>6. QED BY <2>3, <2>4, <2>5
<1>7. CASE Enable
  <2>1. ~Commit /\ ~Kill
    BY <1>7 DEF Enable, Commit, Kill
  <2>2. UNCHANGED ghost \/ \E cmds \in SUBSET Commands : Failing(cmds)
    BY <1>7 DEF Enable, ShareConnections, Commands
  <2>3. QED BY <1>2, <1>3, <1>7, <2>1, <2>2
<1>8. CASE Unroute
  <2>1. ~Commit /\ ~Kill
    BY <1>8 DEF Unroute, Commit, Kill
  <2>2. \E cmds \in SUBSET Commands : Failing(cmds)
    BY <1>8 DEF Unroute, Commands
  <2>3. QED BY <1>3, <1>8, <2>1, <2>2
<1>9. QED BY <1>1, <1>2, <1>4, <1>5, <1>6, <1>7, <1>8, GhostCases

LEMMA TypeStep == InterceptorType /\ [Next]_vars => InterceptorType'
BY PhaseStep, MachineTypeStep, SourceTypeStep, CaptureTypeStep, LiveTypeStep, GhostStep
   DEF InterceptorType

LEMMA TypeInit == Init => InterceptorType
<1> SUFFICES ASSUME Init PROVE InterceptorType
  OBVIOUS
<1>1. << >> \in Seq(Frames) /\ << >> \in Seq(Rows) /\ Len(<< >>) = 0 /\ RingMax \in Nat
  BY ConstantTypes
<1>2. HostType
  BY ConstantTypes DEF Init, HostType
<1>3. FwdType /\ ArpType
  BY DEF Init, FwdType, FwdTypes, ArpType, NoFwd, NoArp, Routings
<1>4. SrcType /\ PumpType
  BY <1>1 DEF Init, SrcType, Sources, PumpType, NoSource, NoPump
<1>5. PcapType /\ CarverType
  BY <1>1 DEF Init, PcapType, CarverType, NoCarver
<1>6. LiveType /\ ViewType
  BY <1>1 DEF Init, LiveType, ViewType
<1>7. GhostType
  BY <1>1, <1>2 DEF Init, GhostType, HostType
<1>8. QED BY <1>2, <1>3, <1>4, <1>5, <1>6, <1>7 DEF Init, InterceptorType, Phases

-----------------------------------------------------------------------------
(* The machine and the neighbours *)

\* The steps that only move the phase on.
LEMMA MachineRest ==
    ASSUME InterceptorType, [Next]_vars, UNCHANGED <<host, fwd, arp, misled>>,
           ~Commit, ~Enable, ~Position, ~Unposition, ~Unroute, ~Kill
    PROVE  /\ UNCHANGED conf
           /\ \/ UNCHANGED pc
              \/ pc = "placed" /\ pc' = "up"
              \/ pc \in {"signal", "unsource", "drain"} /\ pc' \in {"unsource", "drain", "unroute"}
              \/ pc = "shut" /\ pc' = "down"
           /\ ghost'.found = ghost.found /\ ghost'.excused = ghost.excused
           /\ ghost'.failed = ghost.failed /\ ghost'.killed = ghost.killed
<1>1. /\ UNCHANGED conf
      /\ \/ UNCHANGED pc
         \/ pc = "placed" /\ pc' = "up"
         \/ pc \in {"signal", "unsource", "drain"} /\ pc' \in {"unsource", "drain", "unroute"}
         \/ pc = "shut" /\ pc' = "down"
  BY DEF Next, vars, Pump, Closing, Same, Launch, Poison, Relearn, Receive, Deliver, LoopEnds,
         Take, PumpStops, Write, Record, FlushTick, SignalDone, CloseSource, Join, ClosePcap,
         Poll, OpenView
<1>2. UNCHANGED ghost \/ ghost' = [ghost EXCEPT !.written = Append(@, pump.hand)]
  BY GhostCases DEF Write
<1>3. QED BY <1>1, <1>2 DEF InterceptorType, GhostType

\* What is said of the machine depends on no other variable.
LEMMA MachineKept ==
    ASSUME UNCHANGED <<conf, host, fwd>>, ghost'.found = ghost.found,
           ghost'.failed = ghost.failed
    PROVE  /\ Undoable' <=> Undoable
           /\ RoutingAsFound' <=> RoutingAsFound
           /\ SharingAsFound' <=> SharingAsFound
BY DEF Undoable, RoutingAsFound, SharingAsFound

LEMMA MachineStep ==
    ASSUME InterceptorType, MachineInv, [Next]_vars
    PROVE  MachineInv'
<1>0. pc \in Phases /\ fwd.held \in BOOLEAN /\ ghost.killed \in BOOLEAN
      /\ GhostType'
  BY GhostStep DEF InterceptorType, FwdType, FwdTypes, GhostType
<1>1. CASE Commit
  <2>1. /\ pc' = "filed" /\ fwd' = NoFwd /\ arp' = NoArp /\ UNCHANGED <<host, misled>>
    BY <1>1 DEF Commit
  <2>2. ghost'.found = host /\ ghost'.excused = misled /\ ghost'.failed = {} /\ ~ghost'.killed
    BY <1>1, GhostStep
  <2>3. QED BY <2>1, <2>2 DEF MachineInv, NoFwd, NoArp
<1>2. CASE Enable
  <2>1. /\ pc = "filed" /\ pc' = "routed" /\ UNCHANGED <<conf, arp, misled>>
    BY <1>2 DEF Enable
  <2>2. /\ ghost'.found = ghost.found /\ ghost.excused \subseteq ghost'.excused
        /\ ghost'.killed = ghost.killed
    <3>1. ~Commit /\ ~Kill
      BY <2>1 DEF Commit, Kill
    <3>2. QED BY <3>1, GhostStep
  <2>3. fwd = NoFwd /\ host = ghost.found /\ arp.loop # "on"
    BY <2>1 DEF MachineInv
  <2> DEFINE Good == IF fwd'.held THEN Undoable' ELSE UNCHANGED <<host, fwd>>
  <2>4. UNCHANGED <<host, fwd>> => Good
    BY <2>3 DEF NoFwd
  <2>5. ghost.failed = {}
    BY <2>1 DEF MachineInv
  <2>6. ASSUME NEW prior \in {host.routing, ""}, NEW cmds \in SUBSET Commands, Failing(cmds),
               prior # host.routing => "query" \in cmds,
               NEW done \in SUBSET {"public", "private"},
               fwd'.held, fwd'.prior = prior, fwd'.set <=> prior # "1",
               host' = [routing |-> "1", shared |-> host.shared \cup done],
               fwd'.icsSet => conf.ics /\ prior # "1" /\ "share" \notin cmds,
               ~fwd'.icsSet => done = {} \/ "share" \in cmds
        PROVE  Good
    <3>1. ghost'.failed = cmds
      BY <2>5, <2>6 DEF Failing, InterceptorType, GhostType
    <3>2. QED BY <2>1, <2>2, <2>3, <2>6, <3>1 DEF Undoable
  <2>7. ASSUME NEW prior \in {host.routing, ""}, NEW misread,
               misread = IF prior = host.routing THEN {} ELSE {"query"},
               prior # "1", conf.ics, ShareConnections(prior, misread)
        PROVE  Good
    <3>1. PICK done \in {{}, {"public"}, {"public", "private"}} :
             /\ host' = [routing |-> "1", shared |-> host.shared \cup done]
             /\ fwd' = [Enabled(prior) EXCEPT !.icsSet = ("private" \in done)]
             /\ Failing(misread \cup IF "private" \in done THEN {} ELSE {"share"})
      BY <2>7 DEF ShareConnections
    <3> DEFINE cmds == misread \cup IF "private" \in done THEN {} ELSE {"share"}
    <3>2. /\ cmds \in SUBSET Commands /\ Failing(cmds) /\ (prior # host.routing => "query" \in cmds)
          /\ "share" \in cmds <=> "private" \notin done
      BY <2>7, <3>1 DEF Commands
    <3>3. fwd'.held /\ fwd'.prior = prior /\ (fwd'.set <=> prior # "1") /\ (fwd'.icsSet <=> "private" \in done)
      BY <3>1 DEF Enabled
    <3> HIDE DEF cmds, Good
    <3>4. QED BY <2>6, <2>7, <3>1, <3>2, <3>3
  <2>8. Good
    <3>1. [host EXCEPT !.routing = "1"] = [routing |-> "1", shared |-> host.shared \cup {}]
      BY HostExcept DEF InterceptorType
    <3>2. host.routing = "1" => host = [routing |-> "1", shared |-> host.shared \cup {}]
      BY HostExcept DEF InterceptorType
    <3>3. ASSUME NEW prior \in {host.routing, ""}, NEW misread,
                 misread = (IF prior = host.routing THEN {} ELSE {"query"}),
                 fwd' = Enabled(prior), Failing(misread),
                 host' = [routing |-> "1", shared |-> host.shared \cup {}]
          PROVE  Good
      <4>1. fwd'.held /\ fwd'.prior = prior /\ (fwd'.set <=> prior # "1") /\ ~fwd'.icsSet
        BY <3>3 DEF Enabled
      <4>2. misread \in SUBSET Commands /\ (prior # host.routing => "query" \in misread)
        BY <3>3 DEF Commands
      <4>3. /\ {} \in SUBSET {"public", "private"}
            /\ fwd'.icsSet => conf.ics /\ prior # "1" /\ "share" \notin misread
        BY <4>1
      <4> HIDE DEF Good
      <4>4. QED BY <2>6, <3>3, <4>1, <4>2, <4>3
    <3> HIDE DEF Good
    <3>4. CASE UNCHANGED <<host, fwd>>
      BY <2>4, <3>4
    <3>5. CASE ~UNCHANGED <<host, fwd>>
      <4>1. PICK prior \in {host.routing, ""} :
               LET misread == IF prior = host.routing THEN {} ELSE {"query"}
               IN  \/ /\ prior = "1"
                      /\ fwd' = Enabled(prior)
                      /\ UNCHANGED host /\ Failing(misread)
                   \/ /\ prior # "1" /\ ~conf.ics
                      /\ fwd' = Enabled(prior)
                      /\ host' = [host EXCEPT !.routing = "1"] /\ Failing(misread)
                   \/ prior # "1" /\ conf.ics /\ ShareConnections(prior, misread)
        BY <1>2, <3>5 DEF Enable
      <4> DEFINE misread == IF prior = host.routing THEN {} ELSE {"query"}
      <4>2. CASE prior = "1" /\ fwd' = Enabled(prior) /\ UNCHANGED host /\ Failing(misread)
        BY <3>2, <3>3, <4>2
      <4>3. CASE fwd' = Enabled(prior) /\ host' = [host EXCEPT !.routing = "1"] /\ Failing(misread)
        BY <3>1, <3>3, <4>3
      <4>4. CASE prior # "1" /\ conf.ics /\ ShareConnections(prior, misread)
        BY <2>7, <4>4
      <4>5. QED BY <4>1, <4>2, <4>3, <4>4
    <3>6. QED BY <3>4, <3>5
  <2>9. misled' \subseteq ghost'.excused
    BY <2>1, <2>2, <2>3 DEF MachineInv
  <2>10. QED BY <2>1, <2>2, <2>3, <2>8, <2>9 DEF MachineInv
<1>3. CASE Position
  <2>1. /\ pc = "routed" /\ pc' = "placed" /\ UNCHANGED <<conf, host, fwd, misled, ghost>>
    BY <1>3 DEF Position
  <2>2. arp.loop # "on"
    BY <2>1 DEF MachineInv
  <2>3. misled \subseteq ghost.excused
    BY <2>1, <2>2 DEF MachineInv
  <2>4. Undoable' <=> Undoable
    BY <2>1, MachineKept
  <2>5. QED BY <2>1, <2>3, <2>4 DEF MachineInv
<1>4. CASE Poison
  <2>1. /\ arp.loop = "on" /\ misled' \subseteq misled \cup Entries(Scope(arp.mac))
        /\ UNCHANGED <<conf, pc, host, fwd, arp, ghost>>
    BY <1>4 DEF Poison
  <2>2. pc \in {"placed", "up"}
    BY <2>1 DEF MachineInv
  <2>3. Scope(arp.mac)' = Scope(arp.mac)
    BY <2>1 DEF Scope
  <2>4. misled' \subseteq ghost.excused \cup Entries(Scope(arp.mac))
    BY <2>1, <2>2 DEF MachineInv
  <2>5. Undoable' <=> Undoable
    BY <2>1, MachineKept
  <2>6. QED BY <2>1, <2>2, <2>3, <2>4, <2>5 DEF MachineInv
<1>5. CASE Relearn
  <2>1. misled' \subseteq misled /\ UNCHANGED <<conf, pc, host, fwd, arp, ghost>>
    BY <1>5 DEF Relearn
  <2>2. Scope(arp.mac)' = Scope(arp.mac)
    BY <2>1 DEF Scope
  <2>3. /\ Undoable' <=> Undoable
        /\ RoutingAsFound' <=> RoutingAsFound
        /\ SharingAsFound' <=> SharingAsFound
    BY <2>1, MachineKept
  <2>4. QED BY <2>1, <2>2, <2>3 DEF MachineInv
<1>6. CASE Unposition
  <2>1. pc = "up" /\ pc' = "signal" /\ UNCHANGED <<conf, host, fwd>>
    BY <1>6 DEF Unposition, Same
  <2>2. /\ ghost'.found = ghost.found /\ ghost.excused \subseteq ghost'.excused
        /\ ghost'.killed = ghost.killed
    <3>1. ~Commit /\ ~Kill
      BY <1>6, <2>1 DEF Commit, Kill, Unposition
    <3>2. QED BY <3>1, GhostStep
  <2>3. Undoable' <=> Undoable
    <3>1. ghost'.failed = ghost.failed
      BY <1>6 DEF Unposition, InterceptorType, GhostType
    <3>2. QED BY <2>1, <2>2, <3>1, MachineKept
  <2>4. arp'.loop = "off"
    BY <1>6 DEF Unposition, InterceptorType, ArpType
  <2>5. ASSUME conf.restoreOnStop PROVE misled' \subseteq ghost'.excused
    <3>1. CASE arp.loop = "on"
      <4>1. PICK lost \in SUBSET (misled \cap Restored(Scope(arp.mac))) :
               /\ misled' = misled \ (Restored(Scope(arp.mac)) \ lost)
               /\ ghost' = [ghost EXCEPT !.excused = @ \cup lost]
        BY <1>6, <2>5, <3>1 DEF Unposition
      <4>2. ghost'.excused = ghost.excused \cup lost
        BY <4>1 DEF InterceptorType, GhostType
      <4>3. misled \subseteq ghost.excused \cup Entries(Scope(arp.mac))
        BY <2>1, <3>1 DEF MachineInv
      <4>4. QED BY <4>1, <4>2, <4>3 DEF Restored
    <3>2. CASE arp.loop # "on"
      <4>1. misled' = misled /\ misled \subseteq ghost.excused
        BY <1>6, <2>1, <3>2 DEF Unposition, MachineInv
      <4>2. QED BY <2>2, <4>1
    <3>3. QED BY <3>1, <3>2
  <2>6. QED BY <2>1, <2>2, <2>3, <2>4, <2>5 DEF MachineInv
<1>7. CASE Unroute
  <2>1. /\ pc = "unroute" /\ pc' = "shut" /\ UNCHANGED <<conf, fwd, arp, misled>>
    BY <1>7 DEF Unroute, Same
  <2>2. /\ ghost'.found = ghost.found /\ ghost.excused \subseteq ghost'.excused
        /\ ghost'.killed = ghost.killed
    <3>1. ~Commit /\ ~Kill
      BY <2>1 DEF Commit, Kill
    <3>2. QED BY <3>1, GhostStep
  <2>3. arp.loop # "on"
    BY <2>1 DEF MachineInv
  <2>4. PICK shared \in (IF fwd.icsSet THEN SUBSET host.shared ELSE {host.shared}),
             routing \in (IF fwd.set THEN {PutBack, host.routing} ELSE {host.routing}) :
          /\ host' = [routing |-> routing, shared |-> shared]
          /\ Failing((IF fwd.icsSet /\ shared # {} THEN {"unshare"} ELSE {})
                       \cup IF fwd.set /\ routing # PutBack THEN {"restore"} ELSE {})
    BY <1>7 DEF Unroute
  <2>5. ghost'.failed = ghost.failed
          \cup (IF fwd.icsSet /\ shared # {} THEN {"unshare"} ELSE {})
          \cup IF fwd.set /\ routing # PutBack THEN {"restore"} ELSE {}
    BY <2>4 DEF Failing, InterceptorType, GhostType
  <2>6. host'.routing = routing /\ host'.shared = shared
    BY <2>4
  <2>7. IF fwd.held THEN Undoable ELSE host = ghost.found
    BY <2>1 DEF MachineInv
  <2>8. RoutingAsFound'
    <3>1. CASE fwd.held
      <4>1. fwd.set => fwd.prior # "1" /\ PutBack \in {"0", fwd.prior} /\ host.routing = "1"
        BY <2>7, <3>1 DEF Undoable, PutBack
      <4>2. CASE fwd.set
        <5>1. fwd.prior \in {"0", ""}
          BY <4>1, <4>2 DEF InterceptorType, FwdType, FwdTypes, Routings
        <5>2. PutBack = "0"
          BY <5>1 DEF PutBack
        <5>3. QED BY <2>2, <2>4, <2>5, <2>6, <2>7, <3>1, <4>1, <4>2, <5>1, <5>2
                     DEF RoutingAsFound, Undoable
      <4>3. CASE ~fwd.set
        BY <2>2, <2>4, <2>6, <2>7, <3>1, <4>3 DEF RoutingAsFound, Undoable
      <4>4. QED BY <4>2, <4>3
    <3>2. CASE ~fwd.held
      <4>1. ~fwd.set /\ ~fwd.icsSet
        BY <2>1, <3>2 DEF MachineInv
      <4>2. QED BY <2>2, <2>4, <2>6, <2>7, <3>2, <4>1 DEF RoutingAsFound
    <3>3. QED BY <3>1, <3>2
  <2>9. SharingAsFound'
    <3>1. CASE fwd.held
      <4>1. CASE fwd.icsSet
        <5>1. shared # {} => "unshare" \in ghost'.failed
          BY <2>5, <4>1
        <5>2. conf'.ics /\ "share" \notin ghost'.failed
          BY <2>1, <2>5, <2>7, <3>1, <4>1 DEF Undoable
        <5>3. ghost'.found.routing # "1" \/ "query" \in ghost'.failed
          BY <2>2, <2>5, <2>7, <3>1, <4>1 DEF Undoable
        <5>4. QED BY <2>6, <5>1, <5>2, <5>3 DEF SharingAsFound
      <4>2. CASE ~fwd.icsSet
        <5>1. shared = host.shared /\ ghost.failed \subseteq ghost'.failed
          BY <2>4, <2>5, <4>2
        <5>2. QED BY <2>2, <2>6, <2>7, <3>1, <4>2, <5>1 DEF SharingAsFound, Undoable
      <4>3. QED BY <4>1, <4>2
    <3>2. CASE ~fwd.held
      <4>1. ~fwd.set /\ ~fwd.icsSet
        BY <2>1, <3>2 DEF MachineInv
      <4>2. QED BY <2>2, <2>4, <2>6, <2>7, <3>2, <4>1 DEF SharingAsFound
    <3>3. QED BY <3>1, <3>2
  <2>10. QED BY <2>1, <2>2, <2>3, <2>8, <2>9 DEF MachineInv
<1>8. CASE Kill
  <2>1. pc' = "down" /\ fwd' = NoFwd /\ arp' = NoArp /\ ghost'.killed
    BY <1>8 DEF Kill, InterceptorType, GhostType
  <2>2. QED BY <2>1 DEF MachineInv, NoFwd, NoArp
<1>9. CASE /\ UNCHANGED <<host, fwd, arp, misled>>
           /\ ~Commit /\ ~Enable /\ ~Position /\ ~Unposition /\ ~Unroute /\ ~Kill
  <2>1. /\ UNCHANGED conf
        /\ \/ UNCHANGED pc
           \/ pc = "placed" /\ pc' = "up"
           \/ pc \in {"signal", "unsource", "drain"} /\ pc' \in {"unsource", "drain", "unroute"}
           \/ pc = "shut" /\ pc' = "down"
        /\ ghost'.found = ghost.found /\ ghost'.excused = ghost.excused
        /\ ghost'.failed = ghost.failed /\ ghost'.killed = ghost.killed
    BY <1>9, MachineRest
  <2>2. Scope(arp.mac)' = Scope(arp.mac)
    BY <1>9, <2>1 DEF Scope
  <2>3. /\ Undoable' <=> Undoable
        /\ RoutingAsFound' <=> RoutingAsFound
        /\ SharingAsFound' <=> SharingAsFound
    BY <1>9, <2>1, MachineKept
  <2>4. pc' = pc => MachineInv'
    BY <1>9, <2>1, <2>2, <2>3 DEF MachineInv
  <2>5. pc # pc' => MachineInv'
    BY <1>9, <2>1, <2>2, <2>3 DEF MachineInv
  <2>6. QED BY <2>4, <2>5
<1>10. QED BY <1>1, <1>2, <1>3, <1>4, <1>5, <1>6, <1>7, <1>8, <1>9, MachineCases

LEMMA MachineInit == Init => MachineInv
BY DEF Init, MachineInv, RoutingAsFound, SharingAsFound, NoFwd, NoArp
-----------------------------------------------------------------------------
(* Prefixes *)

LEMMA PrefixIs ==
    ASSUME NEW S, NEW s \in Seq(S), NEW t \in Seq(S)
    PROVE  IsPrefix(s, t) <=> Len(s) <= Len(t) /\ \A i \in 1..Len(s) : s[i] = t[i]
<1>1. Len(s) \in Nat /\ Len(t) \in Nat
  BY LenProperties
<1>2. SUFFICES ASSUME Len(s) <= Len(t)
               PROVE  SubSeq(s, 1, Len(s)) = SubSeq(t, 1, Len(s))
                         <=> \A i \in 1..Len(s) : s[i] = t[i]
  BY DEF IsPrefix
<1> DEFINE n == Len(s)
           a == SubSeq(s, 1, n)
           b == SubSeq(t, 1, n)
<1>3. \A i \in 1..n : s[i] \in S /\ t[i] \in S
  BY <1>1, <1>2, ElementOfSeq
<1>4. /\ a \in Seq(S) /\ Len(a) = IF 1 <= n THEN n - 1 + 1 ELSE 0
      /\ \A i \in 1..(n - 1 + 1) : a[i] = s[1 + i - 1]
  BY <1>1, <1>3, SubSeqProperties, 1 \in Int
<1>5. /\ b \in Seq(S) /\ Len(b) = IF 1 <= n THEN n - 1 + 1 ELSE 0
      /\ \A i \in 1..(n - 1 + 1) : b[i] = t[1 + i - 1]
  BY <1>1, <1>3, SubSeqProperties, 1 \in Int
<1> HIDE DEF n, a, b
<1>6. n \in Nat /\ n - 1 + 1 = n /\ \A i \in 1..n : 1 + i - 1 = i
  BY <1>1 DEF n
<1>7. Len(a) = n /\ Len(b) = n /\ \A i \in 1..n : a[i] = s[i] /\ b[i] = t[i]
  BY <1>4, <1>5, <1>6
<1>8. a = b => \A i \in 1..n : s[i] = t[i]
  BY <1>7
<1>9. (\A i \in 1..n : s[i] = t[i]) => a = b
  BY <1>4, <1>5, <1>7, SeqEqual
<1>10. QED BY <1>8, <1>9 DEF n, a, b

\* A file that got a part of a buffer holds a prefix of what it would have held.
LEMMA PrefixPart ==
    ASSUME NEW S, NEW s \in Seq(S), NEW t \in Seq(S), NEW n \in 0..Len(t)
    PROVE  IsPrefix(s \o SubSeq(t, 1, n), s \o t)
<1>1. Len(s) \in Nat /\ Len(t) \in Nat /\ n \in Nat /\ n <= Len(t)
  BY LenProperties
<1> DEFINE u == SubSeq(t, 1, n)
<1>2. \A i \in 1..n : t[i] \in S
  BY <1>1, ElementOfSeq
<1>3. /\ u \in Seq(S) /\ Len(u) = IF 1 <= n THEN n - 1 + 1 ELSE 0
      /\ \A i \in 1..(n - 1 + 1) : u[i] = t[1 + i - 1]
  BY <1>1, <1>2, SubSeqProperties, 1 \in Int
<1> HIDE DEF u
<1>4. n - 1 + 1 = n /\ \A i \in 1..n : 1 + i - 1 = i
  BY <1>1
<1>5. Len(u) = n /\ \A i \in 1..n : u[i] = t[i]
  BY <1>1, <1>3, <1>4
<1> DEFINE a == s \o u
           b == s \o t
<1>6. /\ a \in Seq(S) /\ Len(a) = Len(s) + n
      /\ \A i \in 1..(Len(s) + n) : a[i] = IF i <= Len(s) THEN s[i] ELSE u[i - Len(s)]
  BY <1>3, <1>5, ConcatProperties
<1>7. /\ b \in Seq(S) /\ Len(b) = Len(s) + Len(t)
      /\ \A i \in 1..(Len(s) + Len(t)) : b[i] = IF i <= Len(s) THEN s[i] ELSE t[i - Len(s)]
  BY ConcatProperties
<1> HIDE DEF a, b
<1>8. ASSUME NEW i \in 1..Len(a) PROVE a[i] = b[i]
  <2>1. i \in 1..(Len(s) + n) /\ i \in 1..(Len(s) + Len(t))
    BY <1>1, <1>6
  <2>2. CASE i <= Len(s)
    BY <1>6, <1>7, <2>1, <2>2
  <2>3. CASE ~(i <= Len(s))
    <3>1. i - Len(s) \in 1..n
      BY <1>1, <2>1, <2>3
    <3>2. a[i] = u[i - Len(s)] /\ b[i] = t[i - Len(s)]
      BY <1>6, <1>7, <2>1, <2>3
    <3>3. QED BY <1>5, <3>1, <3>2
  <2>4. QED BY <2>2, <2>3
<1>9. Len(a) <= Len(b)
  BY <1>1, <1>6, <1>7
<1>10. IsPrefix(a, b)
  BY <1>6, <1>7, <1>8, <1>9, PrefixIs
<1>11. QED BY <1>10 DEF a, b, u

LEMMA PrefixAppend ==
    ASSUME NEW S, NEW s \in Seq(S), NEW t \in Seq(S), NEW e \in S, IsPrefix(s, t)
    PROVE  IsPrefix(s, Append(t, e))
<1>1. Len(s) <= Len(t) /\ \A i \in 1..Len(s) : s[i] = t[i]
  BY PrefixIs
<1>2. /\ Append(t, e) \in Seq(S) /\ Len(Append(t, e)) = Len(t) + 1
      /\ \A i \in 1..Len(t) : Append(t, e)[i] = t[i]
  BY AppendProperties
<1>3. Len(s) \in Nat /\ Len(t) \in Nat
  BY LenProperties
<1>4. Len(s) <= Len(Append(t, e)) /\ \A i \in 1..Len(s) : s[i] = Append(t, e)[i]
  BY <1>1, <1>2, <1>3
<1>5. QED BY <1>2, <1>4, PrefixIs

LEMMA PrefixSelf ==
    ASSUME NEW S, NEW s \in Seq(S)
    PROVE  IsPrefix(s, s)
BY LenProperties DEF IsPrefix

LEMMA AppendConcat ==
    ASSUME NEW S, NEW s \in Seq(S), NEW t \in Seq(S), NEW e \in S
    PROVE  s \o Append(t, e) = Append(s \o t, e)
<1>1. << e >> \in Seq(S)
  OBVIOUS
<1>2. (s \o t) \o << e >> = s \o (t \o << e >>)
  BY <1>1, ConcatAssociative
<1>3. s \o t \in Seq(S)
  BY ConcatProperties
<1>4. QED BY <1>2, <1>3, AppendIsConcat

-----------------------------------------------------------------------------
(* The capture file and the carver *)

LEMMA CaptureMoves ==
    ASSUME [Next]_vars
    PROVE  \/ Commit \/ Launch \/ Take \/ PumpStops \/ Write \/ Record \/ FlushTick \/ Join
           \/ ClosePcap \/ Kill
           \/ /\ UNCHANGED <<pump, pcap, carver>> /\ ~Kill /\ ~Commit /\ ~Write
              /\ \/ UNCHANGED pc
                 \/ pc \in {"filed", "routed"} /\ pc' \in {"routed", "placed"}
                 \/ pc \in {"up", "signal", "unsource"} /\ pc' \in {"signal", "unsource", "drain"}
                 \/ pc = "unroute" /\ pc' = "shut"
BY DEF Next, vars, Pump, Closing, Same, Enable, Position, Poison, Relearn, Receive, Deliver,
       LoopEnds, Unposition, SignalDone, CloseSource, Unroute, Poll, OpenView

LEMMA CaptureStep ==
    ASSUME InterceptorType, CaptureInv, [Next]_vars
    PROVE  CaptureInv'
<1> DEFINE InHand == Prints(IF pump.at = "record" THEN {pump.hand} ELSE {})
<1>0. /\ pcap \in [disk : Seq(Frames), buf : Seq(Frames), open : BOOLEAN, broken : BOOLEAN]
      /\ carver \in [inflight : Seq(Frames), saved : SUBSET Frames]
      /\ ghost.written \in Seq(Frames) /\ ghost.killed \in BOOLEAN
      /\ << >> \in Seq(Frames) /\ ToSet(<< >>) = {} /\ Prints({}) = {}
      /\ << >> \o << >> = << >>
  BY DEF InterceptorType, PcapType, CarverType, GhostType, ToSet, Prints
<1>1. CASE Commit
  <2>1. /\ pc = "down" /\ pc' = "filed" /\ UNCHANGED pump /\ carver' = NoCarver
        /\ pcap' = [disk |-> <<>>, buf |-> <<>>, open |-> TRUE, broken |-> FALSE]
    BY <1>1 DEF Commit
  <2>2. ghost'.written = <<>> /\ ~ghost'.killed
    BY <1>1, GhostStep
  <2>3. pump.at = "off"
    BY <2>1 DEF CaptureInv
  <2>4. pcap'.disk = <<>> /\ pcap'.buf = <<>> /\ carver'.saved = {} /\ carver'.inflight = <<>>
        /\ pcap'.open
    BY <2>1 DEF NoCarver
  <2>5. IsPrefix(pcap'.disk, ghost'.written)
    BY <1>0, <2>2, <2>4, PrefixSelf
  <2>6. InHand' = {}
    BY <1>0, <2>1, <2>3 DEF Prints
  <2> HIDE DEF InHand
  <2>7. carver'.saved \cup ToSet(carver'.inflight) \cup InHand' = Prints(ToSet(ghost'.written))
    BY <1>0, <2>2, <2>4, <2>6
  <2>8. QED BY <1>0, <2>1, <2>2, <2>3, <2>4, <2>5, <2>7 DEF CaptureInv, InHand
<1>2. CASE Launch
  <2>1. /\ pc = "placed" /\ pc' = "up" /\ UNCHANGED <<pcap, carver, ghost>> /\ pump'.at = "select"
    BY <1>2 DEF Launch, NoPump
  <2>2. pump.at = "off"
    BY <2>1 DEF CaptureInv
  <2>3. QED BY <2>1, <2>2 DEF CaptureInv
<1>3. CASE Take
  <2>1. /\ pump.at = "select" /\ pump'.at \in {"select", "write"}
        /\ UNCHANGED <<pc, pcap, carver, ghost>>
    BY <1>3 DEF Take
  <2>2. QED BY <2>1 DEF CaptureInv
<1>4. CASE PumpStops
  <2>1. pump.at = "select" /\ pump'.at = "off" /\ UNCHANGED <<pc, pcap, carver, ghost>>
    BY <1>4 DEF PumpStops, NoPump
  <2>2. QED BY <2>1 DEF CaptureInv
<1>5. CASE Write
  <2>1. pump.at = "write" /\ pump.hand \in Frames /\ UNCHANGED <<pc, carver>>
        /\ pump \in [at : {"off", "select", "write", "record"}, hand : Frames \cup {NoFrame}]
    BY <1>5 DEF Write, InterceptorType, PumpType
  <2>2. CASE pcap.broken
    <3>1. pump'.at = "off" /\ UNCHANGED <<pcap, ghost>>
      BY <1>5, <2>2 DEF Write, NoPump
    <3>2. QED BY <2>1, <3>1 DEF CaptureInv
  <2>3. CASE ~pcap.broken
    <3> DEFINE buf == Append(pcap.buf, pump.hand)
               written == Append(ghost.written, pump.hand)
    <3>1. /\ pcap' = [pcap EXCEPT !.buf = buf]
          /\ ghost' = [ghost EXCEPT !.written = written]
          /\ pump' = [pump EXCEPT !.at = "record"]
      BY <1>5, <2>3 DEF Write
    <3>2. /\ ToSet(written) = ToSet(ghost.written) \cup {pump.hand}
          /\ IsPrefix(pcap.disk, written)
          /\ pcap.disk \o buf = Append(pcap.disk \o pcap.buf, pump.hand)
      BY <1>0, <2>1, ToSetAppend, PrefixAppend, AppendConcat DEF CaptureInv
    <3>3. /\ pcap'.disk = pcap.disk /\ pcap'.buf = buf /\ pcap'.open = pcap.open
          /\ pcap'.broken = pcap.broken /\ pump'.at = "record" /\ pump'.hand = pump.hand
      BY <1>0, <2>1, <3>1
    <3>4. ghost'.written = written /\ ghost'.killed = ghost.killed
      BY <3>1 DEF InterceptorType, GhostType
    <3>5. pcap.open => pcap.disk \o buf = written
      BY <2>3, <3>2 DEF CaptureInv
    <3> HIDE DEF buf, written
    <3>6. pc # "down"
      BY <2>1 DEF CaptureInv
    <3>7. Prints(ToSet(written)) = Prints(ToSet(ghost.written)) \cup Prints({pump.hand})
      BY <3>2 DEF Prints
    <3>8. InHand = {} /\ InHand' = Prints({pump.hand})
      BY <1>0, <2>1, <3>3
    <3>9. ~ghost.killed =>
            carver.saved \cup ToSet(carver.inflight) \cup InHand = Prints(ToSet(ghost.written))
      BY DEF CaptureInv
    <3> HIDE DEF InHand
    <3>10. ~ghost'.killed =>
            carver'.saved \cup ToSet(carver'.inflight) \cup InHand' = Prints(ToSet(ghost'.written))
      BY <2>1, <3>4, <3>7, <3>8, <3>9
    <3>11. QED BY <2>1, <3>2, <3>3, <3>4, <3>5, <3>6, <3>10 DEF CaptureInv, InHand
  <2>4. QED BY <2>2, <2>3
<1>6. CASE Record
  <2>1. /\ pump.at = "record" /\ pump.hand \in Frames /\ pump'.at = "select"
        /\ carver' \in Consumed(pump.hand) /\ UNCHANGED <<pc, pcap, ghost>>
    BY <1>6 DEF Record, NoPump, InterceptorType, PumpType
  <2>2. carver'.saved \cup ToSet(carver'.inflight)
           = carver.saved \cup ToSet(carver.inflight) \cup Prints({pump.hand})
    <3>1. CASE pump.hand[2] # "print"
      BY <2>1, <3>1 DEF Consumed, Prints
    <3>2. CASE pump.hand[2] = "print" /\ carver' = [carver EXCEPT !.inflight = Append(@, pump.hand)]
      <4>1. carver'.saved = carver.saved /\ carver'.inflight = Append(carver.inflight, pump.hand)
        BY <1>0, <3>2
      <4>2. ToSet(carver'.inflight) = ToSet(carver.inflight) \cup {pump.hand}
        BY <1>0, <2>1, <4>1, ToSetAppend
      <4>3. Prints({pump.hand}) = {pump.hand}
        BY <3>2 DEF Prints
      <4>4. QED BY <4>1, <4>2, <4>3
    <3>3. CASE /\ pump.hand[2] = "print"
               /\ carver' = [inflight |-> <<>>,
                             saved |-> carver.saved \cup ToSet(carver.inflight) \cup {pump.hand}]
      BY <1>0, <3>3 DEF Prints
    <3>4. QED BY <2>1, <3>1, <3>2, <3>3 DEF Consumed
  <2>3. InHand = Prints({pump.hand}) /\ InHand' = {}
    BY <1>0, <2>1
  <2>4. ~ghost.killed =>
          carver.saved \cup ToSet(carver.inflight) \cup InHand = Prints(ToSet(ghost.written))
    BY DEF CaptureInv
  <2> HIDE DEF InHand
  <2>5. ~ghost'.killed =>
          carver'.saved \cup ToSet(carver'.inflight) \cup InHand' = Prints(ToSet(ghost'.written))
    BY <2>1, <2>2, <2>3, <2>4
  <2>6. pc \in {"up", "signal", "unsource", "drain"}
    BY <2>1 DEF CaptureInv
  <2>7. QED BY <2>1, <2>5, <2>6 DEF CaptureInv, InHand
<1>7. ASSUME NEW p \in Flushed(pcap), pcap.open
      PROVE  /\ IsPrefix(p.disk, ghost.written)
             /\ ~p.broken => p.disk = ghost.written /\ p.buf = <<>> /\ ~pcap.broken
             /\ p.open
  <2>1. /\ p.open
        /\ \/ pcap.broken /\ p = pcap
           \/ ~pcap.broken /\ ~p.broken /\ p.disk = pcap.disk \o pcap.buf /\ p.buf = <<>>
           \/ /\ ~pcap.broken /\ p.broken
              /\ \E n \in 0..(Len(pcap.buf) - 1) : p.disk = pcap.disk \o SubSeq(pcap.buf, 1, n)
    BY <1>7, FlushedIs DEF InterceptorType
  <2>2. CASE pcap.broken /\ p = pcap
    BY <2>1, <2>2 DEF CaptureInv
  <2>3. CASE ~pcap.broken /\ ~p.broken /\ p.disk = pcap.disk \o pcap.buf /\ p.buf = <<>>
    <3>1. p.disk = ghost.written
      BY <1>7, <2>3 DEF CaptureInv
    <3>2. QED BY <1>0, <2>1, <2>3, <3>1, PrefixSelf
  <2>4. CASE /\ ~pcap.broken /\ p.broken
             /\ \E n \in 0..(Len(pcap.buf) - 1) : p.disk = pcap.disk \o SubSeq(pcap.buf, 1, n)
    <3>1. pcap.disk \o pcap.buf = ghost.written
      BY <1>7, <2>4 DEF CaptureInv
    <3>2. PICK n \in 0..(Len(pcap.buf) - 1) : p.disk = pcap.disk \o SubSeq(pcap.buf, 1, n)
      BY <2>4
    <3>3. n \in 0..Len(pcap.buf)
      BY <1>0, LenProperties
    <3>4. IsPrefix(p.disk, ghost.written)
      <4>1. pcap.disk \in Seq(Frames) /\ pcap.buf \in Seq(Frames)
        BY <1>0
      <4>2. IsPrefix(pcap.disk \o SubSeq(pcap.buf, 1, n), pcap.disk \o pcap.buf)
        BY <3>3, <4>1, PrefixPart
      <4>3. QED BY <3>1, <3>2, <4>2
    <3>5. QED BY <2>1, <2>4, <3>4
  <2>5. QED BY <2>1, <2>2, <2>3, <2>4
<1>8. CASE FlushTick
  <2>1. pcap.open /\ pcap' \in Flushed(pcap) /\ UNCHANGED <<pc, pump, carver, ghost>>
    BY <1>8 DEF FlushTick
  <2>2. /\ IsPrefix(pcap'.disk, ghost.written) /\ pcap'.open
        /\ ~pcap'.broken => pcap'.disk = ghost.written /\ pcap'.buf = <<>>
    BY <1>7, <2>1
  <2>3. pc # "down"
    BY <2>1 DEF CaptureInv
  <2>4. ~pcap'.broken => pcap'.disk \o pcap'.buf = ghost.written
    BY <1>0, <2>2, ConcatEmptySeq
  <2>5. QED BY <2>1, <2>2, <2>3, <2>4 DEF CaptureInv
<1>9. CASE Join
  <2>1. /\ pc = "drain" /\ pc' = "unroute" /\ pump.at = "off" /\ UNCHANGED <<pump, pcap, ghost>>
        /\ carver' = [inflight |-> <<>>, saved |-> carver.saved \cup ToSet(carver.inflight)]
    BY <1>9 DEF Join, PumpJoined
  <2>2. /\ carver'.inflight = <<>>
        /\ carver'.saved \cup ToSet(carver'.inflight) = carver.saved \cup ToSet(carver.inflight)
    BY <1>0, <2>1
  <2>3. QED BY <2>1, <2>2 DEF CaptureInv
<1>10. CASE ClosePcap
  <2>1. PICK p \in Flushed(pcap) : pcap' = [p EXCEPT !.open = FALSE]
    BY <1>10 DEF ClosePcap
  <2>2. pc = "shut" /\ pc' = "down" /\ UNCHANGED <<pump, carver, ghost>>
    BY <1>10 DEF ClosePcap, Same
  <2>3. pcap.open /\ pump.at = "off" /\ carver.inflight = <<>>
    BY <2>2 DEF CaptureInv
  <2>4. /\ IsPrefix(p.disk, ghost.written) /\ (~p.broken => p.disk = ghost.written)
    BY <1>7, <2>3
  <2>5. pcap'.disk = p.disk /\ ~pcap'.open /\ pcap'.broken = p.broken
    <3>1. p \in [disk : Seq(Frames), buf : Seq(Frames), open : BOOLEAN, broken : BOOLEAN]
      BY FlushedIs DEF InterceptorType
    <3>2. QED BY <2>1, <3>1
  <2>6. QED BY <2>2, <2>3, <2>4, <2>5 DEF CaptureInv
<1>11. CASE Kill
  <2>1. /\ pc' = "down" /\ pump'.at = "off" /\ carver'.inflight = <<>>
        /\ pcap'.disk = pcap.disk /\ ~pcap'.open
    BY <1>0, <1>11 DEF Kill, NoPump, NoCarver
  <2>2. ghost'.killed /\ ghost'.written = ghost.written
    BY <1>11 DEF Kill, InterceptorType, GhostType
  <2>3. QED BY <2>1, <2>2 DEF CaptureInv
<1>12. CASE /\ UNCHANGED <<pump, pcap, carver>> /\ ~Kill /\ ~Commit /\ ~Write
            /\ \/ UNCHANGED pc
               \/ pc \in {"filed", "routed"} /\ pc' \in {"routed", "placed"}
               \/ pc \in {"up", "signal", "unsource"} /\ pc' \in {"signal", "unsource", "drain"}
               \/ pc = "unroute" /\ pc' = "shut"
  <2>1. ghost'.written = ghost.written /\ ghost'.killed = ghost.killed
    BY <1>12, GhostStep
  <2>2. QED BY <1>12, <2>1 DEF CaptureInv
<1>13. QED
  BY <1>1, <1>2, <1>3, <1>4, <1>5, <1>6, <1>8, <1>9, <1>10, <1>11, <1>12, CaptureMoves

LEMMA CaptureInit == Init => CaptureInv
<1>1. << >> \in Seq(Frames) /\ ToSet(<< >>) = {} /\ << >> \o << >> = << >> /\ Prints({}) = {}
  BY DEF ToSet, Prints
<1>2. IsPrefix(<< >>, << >>)
  BY <1>1, PrefixSelf
<1>3. Init => /\ pc = "down" /\ pcap.disk = <<>> /\ ~pcap.open /\ ghost.written = <<>>
              /\ pump.at = "off" /\ carver.inflight = <<>> /\ carver.saved = {}
  BY DEF Init, NoPump, NoCarver
<1>4. Prints(IF FALSE THEN {pump.hand} ELSE {}) = {}
  BY <1>1
<1>5. QED BY <1>1, <1>2, <1>3, <1>4 DEF CaptureInv

-----------------------------------------------------------------------------
(* The ring and the rows of the viewer *)

LEMMA LiveMoves ==
    ASSUME [Next]_vars
    PROVE  \/ Commit \/ Launch \/ Write \/ Record \/ Kill \/ Poll \/ OpenView
           \/ /\ UNCHANGED <<live, view>> /\ ~Commit /\ ~Write
              /\ pump' = pump \/ (pump.at # "record" /\ pump'.at # "record")
              /\ \/ UNCHANGED pc
                 \/ pc \in {"filed", "routed"} /\ pc' \in {"routed", "placed"}
                 \/ pc \in Launched /\ pc' \in Launched \cup {"down"}
<1>1. SUFFICES ASSUME ~Commit, ~Launch, ~Write, ~Record, ~Kill, ~Poll, ~OpenView
               PROVE  /\ UNCHANGED <<live, view>>
                      /\ pump' = pump \/ (pump.at # "record" /\ pump'.at # "record")
                      /\ \/ UNCHANGED pc
                         \/ pc \in {"filed", "routed"} /\ pc' \in {"routed", "placed"}
                         \/ pc \in Launched /\ pc' \in Launched \cup {"down"}
  OBVIOUS
<1>2. CASE Take
  BY <1>2 DEF Take
<1>3. CASE PumpStops
  BY <1>3 DEF PumpStops, NoPump
<1>4. CASE ~Take /\ ~PumpStops
  BY <1>1, <1>4 DEF Next, vars, Pump, Closing, Same, Enable, Position, Poison, Relearn, Receive,
         Deliver, LoopEnds, FlushTick, Unposition, SignalDone, CloseSource, Join, Unroute,
         ClosePcap, Launched
<1>5. QED BY <1>2, <1>3, <1>4

\* The frames of the run that the ring and the rows show, of those recorded.
Shown(ring, shows, written) ==
    /\ \A i \in 1..Len(ring.buf) : ring.buf[i] = written[ring.seq - Len(ring.buf) + i]
    /\ \A i \in DOMAIN shows.rows :
          /\ shows.rows[i].no \in 1..ring.seq /\ shows.rows[i].no <= shows.cursor
          /\ shows.rows[i].frame = written[shows.rows[i].no]
    /\ \A i, j \in DOMAIN shows.rows : i < j => shows.rows[i].no < shows.rows[j].no

LEMMA WriteShows ==
    ASSUME LiveType, pump.hand \in Frames, ghost.written \in Seq(Frames),
           live.seq = Len(ghost.written), Shown(live, view, ghost.written)
    PROVE  LET written == Append(ghost.written, pump.hand) IN
           /\ Shown(live, view, written)
           /\ Len(written) = live.seq + 1 /\ written[live.seq + 1] = pump.hand
<1> DEFINE written == Append(ghost.written, pump.hand)
<1>1. Len(live.buf) \in Nat /\ live.seq \in Nat /\ Len(live.buf) <= live.seq
  BY LenProperties DEF LiveType
<1>2. /\ \A n \in 1..live.seq : written[n] = ghost.written[n]
      /\ Len(written) = live.seq + 1 /\ written[live.seq + 1] = pump.hand
  BY AppendProperties
<1> HIDE DEF written
<1>3. ASSUME NEW i \in 1..Len(live.buf)
      PROVE  live.buf[i] = written[live.seq - Len(live.buf) + i]
  <2> DEFINE len == Len(live.buf)
  <2>1. live.seq \in Nat /\ len \in Nat /\ len <= live.seq /\ i \in 1..len
    BY <1>1
  <2> HIDE DEF len
  <2>2. live.seq - len + i \in 1..live.seq
    BY <2>1
  <2>3. live.buf[i] = ghost.written[live.seq - len + i]
    BY <1>3 DEF Shown, len
  <2>4. QED BY <1>2, <2>2, <2>3 DEF len
<1>4. Shown(live, view, written)
  BY <1>2, <1>3 DEF Shown
<1>5. QED BY <1>2, <1>4 DEF written

\* A recorded frame becomes the newest of the ring.
LEMMA RecordShows ==
    ASSUME LiveType, pump.hand \in Frames, Shown(live, view, ghost.written),
           ghost.written[live.seq + 1] = pump.hand, Record
    PROVE  Shown(live', view', ghost.written)
<1> DEFINE f == pump.hand
           w == ghost.written
           new == KeepNewest(Append(live.buf, f))
           len == Len(live.buf)
<1>1. PICK n \in {0, 1} :
        /\ Len(new) = len + 1 - n
        /\ \A i \in 1..Len(new) :
              new[i] = IF i + n = len + 1 THEN f ELSE live.buf[i + n]
  BY RingIs
<1>2. Len(new) \in Nat /\ len \in Nat /\ live.seq \in Nat /\ len <= live.seq
  BY RingIs, LenProperties DEF LiveType
<1> HIDE DEF new
<1>3. live'.buf = new /\ live'.seq = live.seq + 1 /\ view' = view
  BY DEF new, Record
<1>4. ASSUME NEW i \in 1..Len(new)
      PROVE  new[i] = w[live.seq + 1 - Len(new) + i]
  <2>0. Len(new) = len + 1 - n /\ i \in Nat /\ i >= 1 /\ i <= Len(new) /\ n \in Nat
    BY <1>1, <1>2
  <2> HIDE DEF len
  <2>1. live.seq + 1 - Len(new) + i = live.seq - len + (i + n) /\ i + n \in 1..(len + 1)
    BY <1>2, <2>0
  <2>2. CASE i + n = len + 1
    <3>1. live.seq - len + (i + n) = live.seq + 1
      BY <1>2, <2>2
    <3>2. QED BY <1>1, <2>1, <2>2, <3>1
  <2>3. CASE i + n # len + 1
    <3>1. i + n \in 1..len
      BY <1>2, <2>1, <2>3
    <3>2. live.buf[i + n] = w[live.seq - len + (i + n)]
      BY <3>1 DEF Shown, len
    <3>3. QED BY <1>1, <2>1, <2>3, <3>2
  <2>4. QED BY <2>2, <2>3
<1>5. \A i \in DOMAIN view.rows : view.rows[i].no \in 1..(live.seq + 1)
  BY <1>2 DEF Shown
<1>6. ASSUME NEW i \in 1..Len(live'.buf)
      PROVE  live'.buf[i] = w[live'.seq - Len(live'.buf) + i]
  <2>1. Len(live'.buf) = Len(new)
    BY <1>3
  <2>2. new[i] = w[live.seq + 1 - Len(new) + i]
    BY <1>4, <2>1
  <2> DEFINE seq == live'.seq
             m == Len(live'.buf)
  <2> HIDE DEF seq, m
  <2>3. seq = live.seq + 1 /\ m = Len(new)
    BY <1>3, <2>1 DEF seq, m
  <2>4. live'.buf[i] = w[seq - m + i]
    <3>1. new[i] = w[seq - m + i]
      <4>1. live.seq \in Int /\ Len(new) \in Int /\ i \in Int
        BY <1>2
      <4>2. seq - m + i = live.seq + 1 - Len(new) + i
        BY <2>3, <4>1
      <4>3. QED BY <2>2, <4>2
    <3>2. QED BY <1>3, <3>1, Zenon
  <2>5. QED BY <2>4 DEF seq, m
<1>7. \A i \in DOMAIN view.rows :
         view.rows[i].no <= view.cursor /\ view.rows[i].frame = w[view.rows[i].no]
  BY DEF Shown
<1>8. \A i, j \in DOMAIN view.rows : i < j => view.rows[i].no < view.rows[j].no
  BY DEF Shown
<1>9. QED BY <1>3, <1>5, <1>6, <1>7, <1>8 DEF Shown

\* A poll shows what is new and nothing twice.
LEMMA PollShows ==
    ASSUME LiveType, ViewType, Poll, Shown(live, view, ghost.written)
    PROVE  Shown(live', view', ghost.written)
<1> DEFINE w == ghost.written
           more == Since(view.cursor).rows
           old  == view.rows
           all  == old \o more
           len  == Len(live.buf)
<1>1. view.cursor \in Nat /\ old \in Seq(Rows) /\ Len(old) \in Nat /\ DOMAIN old = 1..Len(old)
      /\ live.seq \in Nat /\ len \in Nat
  BY LenProperties DEF ViewType, LiveType
<1>2. PICK off \in Nat :
        \A i \in DOMAIN more :
           /\ off + i \in 1..len
           /\ more[i].no = live.seq - len + off + i
           /\ more[i].frame = live.buf[off + i]
           /\ more[i].no > view.cursor
           /\ more[i].no <= live.seq
  BY <1>1, SinceIs
<1>3. more \in Seq(Rows) /\ Len(more) \in Nat /\ DOMAIN more = 1..Len(more)
  BY <1>1, SinceIs, LenProperties
<1>4. /\ live' = live /\ view'.rows = all /\ view'.cursor = live.seq
  BY DEF Poll
<1> HIDE DEF more
<1>5. /\ all \in Seq(Rows) /\ Len(all) = Len(old) + Len(more)
      /\ \A i \in 1..(Len(old) + Len(more)) :
            all[i] = IF i <= Len(old) THEN old[i] ELSE more[i - Len(old)]
  BY <1>1, <1>3, ConcatProperties
<1>6. DOMAIN all = 1..(Len(old) + Len(more))
  BY <1>5, LenProperties
<1> HIDE DEF all, len
\* A row is one that was shown already or one that is added.
<1>a. ASSUME NEW i \in DOMAIN all, i <= Len(old)
       PROVE  all[i] = old[i] /\ i \in DOMAIN old
  <2>1. i \in 1..(Len(old) + Len(more))
    BY <1>6
  <2>2. i \in 1..Len(old)
    BY <1>1, <1>3, <1>a, <2>1
  <2>3. QED BY <1>1, <1>5, <1>a, <2>1, <2>2
<1>b. ASSUME NEW i \in DOMAIN all, ~(i <= Len(old))
       PROVE  all[i] = more[i - Len(old)] /\ i - Len(old) \in DOMAIN more
  <2>1. i \in 1..(Len(old) + Len(more))
    BY <1>6
  <2>2. i - Len(old) \in 1..Len(more)
    BY <1>1, <1>3, <1>b, <2>1
  <2>3. QED BY <1>3, <1>5, <1>b, <2>1, <2>2
<1>7. ASSUME NEW i \in DOMAIN more
      PROVE  /\ more[i].no \in 1..live.seq /\ more[i].frame = w[more[i].no]
             /\ i \in Nat
  <2>1. /\ off + i \in 1..len /\ i \in Nat
        /\ more[i].no = live.seq - len + off + i /\ more[i].frame = live.buf[off + i]
        /\ more[i].no > view.cursor /\ more[i].no <= live.seq
    BY <1>2, <1>3
  <2>2. live.buf[off + i] = w[live.seq - len + (off + i)]
    BY <2>1 DEF Shown, len
  <2>3. live.seq - len + (off + i) = live.seq - len + off + i
    BY <1>1, <2>1
  <2>4. live.seq - len + off + i \in Int
    BY <1>1, <2>1
  <2>5. more[i].no \in 1..live.seq
    BY <1>1, <2>1, <2>4
  <2>6. QED BY <2>1, <2>2, <2>3, <2>5
<1>8. ASSUME NEW i \in DOMAIN all
      PROVE  /\ all[i].no \in 1..live.seq /\ all[i].frame = w[all[i].no]
  <2>1. CASE i <= Len(old)
    <3>1. all[i] = old[i] /\ i \in DOMAIN old
      BY <1>a, <2>1
    <3>2. QED BY <3>1 DEF Shown
  <2>2. CASE ~(i <= Len(old))
    <3>1. all[i] = more[i - Len(old)] /\ i - Len(old) \in DOMAIN more
      BY <1>b, <2>2
    <3>2. QED BY <1>7, <3>1
  <2>3. QED BY <2>1, <2>2
<1>9. ASSUME NEW i \in DOMAIN all, NEW j \in DOMAIN all, i < j
      PROVE  all[i].no < all[j].no
  <2>0. i \in Nat /\ j \in Nat
    BY <1>6
  <2>1. CASE j <= Len(old)
    <3>0. i <= Len(old)
      BY <1>1, <1>9, <2>0, <2>1
    <3>1. all[i] = old[i] /\ all[j] = old[j] /\ i \in DOMAIN old /\ j \in DOMAIN old
      BY <1>a, <2>1, <3>0
    <3>2. QED BY <1>9, <3>1 DEF Shown
  <2>2. CASE i <= Len(old) /\ ~(j <= Len(old))
    <3>1. all[i] = old[i] /\ i \in DOMAIN old
      BY <1>a, <2>2
    <3>2. all[j] = more[j - Len(old)] /\ j - Len(old) \in DOMAIN more
      BY <1>b, <2>2
    <3>3. old[i].no \in 1..live.seq /\ old[i].no <= view.cursor
      BY <3>1 DEF Shown
    <3>4. more[j - Len(old)].no > view.cursor /\ more[j - Len(old)].no \in 1..live.seq
      BY <1>2, <1>7, <3>2
    <3>5. old[i].no < more[j - Len(old)].no
      BY <1>1, <3>3, <3>4
    <3>6. QED BY <3>1, <3>2, <3>5
  <2>3. CASE ~(i <= Len(old))
    <3>1. all[i] = more[i - Len(old)] /\ i - Len(old) \in DOMAIN more
      BY <1>b, <2>3
    <3>0. ~(j <= Len(old))
      BY <1>1, <1>9, <2>0, <2>3
    <3>2. all[j] = more[j - Len(old)] /\ j - Len(old) \in DOMAIN more
      BY <1>b, <3>0
    <3>3. /\ more[i - Len(old)].no = live.seq - len + off + (i - Len(old))
          /\ more[j - Len(old)].no = live.seq - len + off + (j - Len(old))
      BY <1>2, <3>1, <3>2
    <3>4. live.seq - len + off + (i - Len(old)) < live.seq - len + off + (j - Len(old))
      BY <1>1, <1>9, <2>0
    <3>5. QED BY <3>1, <3>2, <3>3, <3>4
  <2>4. QED BY <1>1, <1>9, <2>0, <2>1, <2>2, <2>3
<1>10. ASSUME NEW i \in DOMAIN all PROVE all[i].no <= live.seq
  BY <1>1, <1>8
<1>11. ASSUME NEW i \in 1..Len(live.buf)
       PROVE  live.buf[i] = w[live.seq - Len(live.buf) + i]
  BY DEF Shown
<1>12. QED BY <1>4, <1>8, <1>9, <1>10, <1>11 DEF Shown

LEMMA LiveStep ==
    ASSUME InterceptorType, CaptureInv, LiveInv, [Next]_vars
    PROVE  LiveInv'
<1>0. /\ LiveType /\ ViewType /\ ghost.written \in Seq(Frames)
      /\ pump \in [at : {"off", "select", "write", "record"}, hand : Frames \cup {NoFrame}]
      /\ pump.at \in {"write", "record"} => pump.hand \in Frames
      /\ Len(ghost.written) \in Nat
  BY LenProperties DEF InterceptorType, GhostType, PumpType
<1>1. pc \in Launched => Shown(live, view, ghost.written)
  BY DEF LiveInv, Shown
<1>2. ASSUME pc' \in Launched => /\ Shown(live', view', ghost'.written)
                                 /\ live'.seq = Len(ghost'.written) - IF pump'.at = "record" THEN 1 ELSE 0
                                 /\ pump'.at = "record" => ghost'.written[live'.seq + 1] = pump'.hand,
             pc' \in {"filed", "routed", "placed"} => ghost'.written = <<>>
      PROVE  LiveInv'
  BY <1>2 DEF LiveInv, Shown
<1>3. CASE Commit
  <2>1. pc' = "filed" /\ ghost'.written = <<>>
    BY <1>3, GhostStep DEF Commit
  <2>2. QED BY <1>2, <2>1 DEF Launched
<1>4. CASE Launch
  <2>1. /\ pc = "placed" /\ pc' = "up" /\ live' = Reset /\ view'.rows = <<>> /\ pump'.at = "select"
        /\ ghost' = ghost
    BY <1>0, <1>4 DEF Launch, NoPump, ViewType
  <2>2. ghost.written = <<>>
    BY <2>1 DEF LiveInv
  <2>3. live'.seq = 0 /\ live'.buf = <<>> /\ Len(<< >>) = 0
    BY <2>1 DEF Reset
  <2>4. Shown(live', view', ghost'.written)
    BY <2>1, <2>3 DEF Shown
  <2>5. QED BY <1>2, <2>1, <2>2, <2>3, <2>4
<1>5. CASE Write
  <2>1. pump.at = "write" /\ pump.hand \in Frames /\ UNCHANGED <<pc, live, view>>
    BY <1>0, <1>5 DEF Write
  <2>2. pc \in Launched
    BY <2>1 DEF CaptureInv, Launched
  <2>3. live.seq = Len(ghost.written) /\ Shown(live, view, ghost.written)
    BY <1>0, <1>1, <2>1, <2>2 DEF LiveInv
  <2>4. CASE pump'.at = "off" /\ UNCHANGED ghost
    BY <1>0, <1>2, <2>1, <2>2, <2>3, <2>4 DEF Launched
  <2>5. CASE /\ ghost' = [ghost EXCEPT !.written = Append(@, pump.hand)]
             /\ pump' = [pump EXCEPT !.at = "record"]
    <3> DEFINE written == Append(ghost.written, pump.hand)
    <3>1. /\ Shown(live, view, written)
          /\ Len(written) = live.seq + 1 /\ written[live.seq + 1] = pump.hand
      BY <1>0, <2>1, <2>3, WriteShows
    <3>2. ghost'.written = written /\ pump'.hand = pump.hand /\ pump'.at = "record"
      BY <1>0, <2>5 DEF InterceptorType, GhostType
    <3> HIDE DEF written
    <3>3. live.seq \in Nat
      BY <1>0 DEF LiveType
    <3>4. live'.seq = Len(ghost'.written) - 1
      BY <2>1, <3>1, <3>2, <3>3
    <3>5. QED BY <1>2, <2>1, <2>2, <3>1, <3>2, <3>4 DEF Launched
  <2>6. QED BY <1>5, <2>4, <2>5 DEF Write, NoPump
<1>6. CASE Record
  <2>1. /\ pump.at = "record" /\ pump.hand \in Frames /\ pump'.at = "select"
        /\ UNCHANGED <<pc, ghost>> /\ live'.seq = live.seq + 1
    BY <1>0, <1>6 DEF Record, NoPump
  <2>2. pc \in Launched
    BY <2>1 DEF CaptureInv, Launched
  <2>3. /\ live.seq = Len(ghost.written) - 1 /\ ghost.written[live.seq + 1] = pump.hand
        /\ Shown(live, view, ghost.written)
    BY <1>1, <2>1, <2>2 DEF LiveInv
  <2>4. Shown(live', view', ghost.written)
    BY <1>0, <1>6, <2>1, <2>3, RecordShows
  <2>5. QED BY <1>0, <1>2, <2>1, <2>2, <2>3, <2>4 DEF Launched
<1>7. CASE Kill
  <2>1. pc' = "down"
    BY <1>7 DEF Kill
  <2>2. QED BY <1>2, <2>1 DEF Launched
<1>8. CASE Poll
  <2>1. UNCHANGED <<pc, live, pump, ghost>>
    BY <1>8 DEF Poll
  <2>2. pc \in Launched => Shown(live', view', ghost.written)
    BY <1>0, <1>1, <1>8, PollShows
  <2>3. QED BY <1>2, <2>1, <2>2 DEF LiveInv
<1>9. CASE OpenView
  <2>1. UNCHANGED <<pc, live, pump, ghost>> /\ view'.rows = <<>>
    BY <1>9 DEF OpenView
  <2>2. pc \in Launched => Shown(live', view', ghost.written)
    BY <1>1, <2>1 DEF Shown
  <2>3. QED BY <1>2, <2>1, <2>2 DEF LiveInv
<1>10. CASE /\ UNCHANGED <<live, view>> /\ ~Commit /\ ~Write
            /\ pump' = pump \/ (pump.at # "record" /\ pump'.at # "record")
            /\ \/ UNCHANGED pc
               \/ pc \in {"filed", "routed"} /\ pc' \in {"routed", "placed"}
               \/ pc \in Launched /\ pc' \in Launched \cup {"down"}
  <2>1. ghost'.written = ghost.written
    BY <1>10, GhostStep
  <2>2. pc' \in Launched => pc \in Launched
    BY <1>10 DEF Launched
  <2>3. pc' \in {"filed", "routed", "placed"} => pc \in {"filed", "routed", "placed"}
    BY <1>10 DEF Launched
  <2>4. QED BY <1>1, <1>2, <1>10, <2>1, <2>2, <2>3 DEF LiveInv
<1>11. QED BY <1>3, <1>4, <1>5, <1>6, <1>7, <1>8, <1>9, <1>10, LiveMoves

-----------------------------------------------------------------------------
(* The theorems *)

Inv == InterceptorType /\ MachineInv /\ CaptureInv /\ LiveInv

LEMMA Invariant == Spec => []Inv
<1>1. Init => Inv
  BY TypeInit, MachineInit, CaptureInit DEF Inv, LiveInv, Init, Launched
<1>2. Inv /\ [Next]_vars => Inv'
  BY TypeStep, MachineStep, CaptureStep, LiveStep DEF Inv
<1>3. QED BY <1>1, <1>2, PTL DEF Spec

\* However the steps of Close, the positioner and its neighbours interleave,
\* no neighbour still points at this machine once the machine has stopped to
\* route, but for those whose restoring replies were all lost.
THEOREM NobodyIsLeftBlackholed == Spec => []NoBlackhole
<1>1. Inv => NoBlackhole
  <2> SUFFICES ASSUME Inv, fwd.held, conf.restoreOnStop, host.routing # "1"
               PROVE  misled \subseteq ghost.excused
    BY DEF NoBlackhole
  <2>1. pc \in {"shut", "down"}
    BY DEF Inv, MachineInv, Undoable
  <2>2. QED BY <2>1 DEF Inv, MachineInv
<1>2. QED BY <1>1, Invariant, PTL

\* Of what a run found, it leaves different only what an absent value, a command
\* that failed or its own sharing accounts for, and each of these only the part of
\* the machine it can.
THEOREM TheHostIsAsFound == Spec => []HostAsFound
<1>1. Inv => HostAsFound
  BY DEF Inv, MachineInv, RoutingAsFound, SharingAsFound, HostAsFound
<1>2. QED BY <1>1, Invariant, PTL

\* The capture file never holds anything but a prefix of what was captured,
\* and Close leaves nothing out of it, nor of the jobs carved from it.
THEOREM TheCaptureIsComplete == Spec => []ClosedIsComplete
<1>1. Inv => ClosedIsComplete
  <2> SUFFICES ASSUME Inv PROVE ClosedIsComplete
    OBVIOUS
  <2>1. IsPrefix(pcap.disk, ghost.written)
    BY DEF Inv, CaptureInv
  <2>2. ASSUME pc = "down", ~ghost.killed
        PROVE  carver.saved = {f \in ToSet(ghost.written) : f[2] = "print"}
    <3>1. carver.inflight = <<>> /\ pump.at = "off"
      BY <2>2 DEF Inv, CaptureInv, InterceptorType, PumpType
    <3>2. ToSet(<< >>) = {} /\ Prints({}) = {}
      BY DEF ToSet, Prints
    <3>3. carver.saved \cup ToSet(carver.inflight) \cup Prints({}) = Prints(ToSet(ghost.written))
      BY <2>2, <3>1 DEF Inv, CaptureInv
    <3>4. QED BY <3>1, <3>2, <3>3 DEF Prints
  <2>3. QED BY <2>1, <2>2 DEF Inv, CaptureInv, ClosedIsComplete
<1>2. QED BY <1>1, Invariant, PTL

\* Every row of the live view is the packet of that number in the capture file,
\* in order and once, however often the ring dropped frames between polls.
THEOREM TheRowsAreTrue == Spec => []RowsTrue
<1>1. Inv => RowsTrue
  <2> SUFFICES ASSUME Inv PROVE RowsTrue
    OBVIOUS
  <2>1. /\ live.seq \in Nat /\ ghost.written \in Seq(Frames) /\ Len(ghost.written) \in Nat
        /\ DOMAIN ghost.written = 1..Len(ghost.written) /\ Len(live.buf) <= RingMax
    BY LenProperties DEF Inv, InterceptorType, LiveType, GhostType
  <2>2. pc \in Launched => live.seq = Len(ghost.written) \/ live.seq = Len(ghost.written) - 1
    <3>1. pc \in Launched => live.seq = Len(ghost.written) - IF pump.at = "record" THEN 1 ELSE 0
      BY DEF Inv, LiveInv
    <3>2. Len(ghost.written) - 0 = Len(ghost.written)
      BY <2>1
    <3>3. QED BY <3>1, <3>2
  <2> DEFINE len == Len(ghost.written)
  <2>0. len \in Nat
    BY <2>1
  <2> HIDE DEF len
  <2>4. live.seq = len \/ live.seq = len - 1 => 1..live.seq \subseteq 1..len
    BY <2>0, <2>1
  <2>5. pc \in Launched => 1..live.seq \subseteq DOMAIN ghost.written
    BY <2>1, <2>2, <2>4 DEF len
  <2>6. QED BY <2>1, <2>5 DEF Inv, LiveInv, RowsTrue, Launched
<1>2. QED BY <1>1, Invariant, PTL

=============================================================================
