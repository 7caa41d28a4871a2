# printcap in TLA+

printcap poses as a network printer (raw 9100, LPD, IPP, SMB, WSD), saves every
job it receives, forwards jobs to real printers, and can sit between clients and
a printer to carve jobs out of captured traffic.  It is one Go process: a tree of
goroutines around four globals (`cfg`, `sink`, `store`, `forward`), one engine
that starts and stops listeners, and two directories that outlive the process
(the job spool and the retry queue).

This directory specifies the parts whose correctness depends on interleaving,
ordering or failure.  A definition carries the name of the code it stands for;
`PROJECT.json` ("map") gives the lines.

## 1. Inventory

State, operations, what is hard, and what correct means, per component.

| component | state | operations | hard | correct when | modelled |
|---|---|---|---|---|---|
| **Forwarder and retry queue** `forward.go` `fwd_spool.go` | `queue/<id>.data`, `<id>.json`, `dead/`; a worker per job; `done` channel | `deliver`, `put`, `update`, `remove`, `deadLetter`, `load`, `replaySpool`, retry loops, `Close` | crash between two file operations; failing operations; forwarders that overlap | nothing accepted is lost, bounded attempts and deliveries, one worker per job, everything is settled in the end | `ForwardSpool`, `RetryQueue` |
| **Engine lifecycle** `engine.go` | `mu`, `running`, `closers`, `stopping`, `handlerWG` | `Start`, `Stop`, `Running`, `trackGo`, `httpCloser.Close` | concurrent callers; the wait outside the lock; timeouts under the lock | Stop drains its run; channels are closed once; the lock is released | `EngineLifecycle` |
| **Dashboard control, event stream** `dashboard.go` | none of its own; `subscribe` on `stopping` | `engineAction`, `applyConfigAsync`, `apiEvents` | checks a flag, acts later; handlers wait for a lock whose owner waits for them | configuration is replaced only when drained; no hang | `EngineLifecycle` |
| **Raw 9100** `raw9100.go` | none across connections | accept, read to EOF or idle, UEL split, `sink.save` | an idle deadline that every read renews, cap | a connection ends with its client or its silence; tracked | accept and end in `EngineLifecycle`, jobs in `Reception` |
| **Stream reassembly, carver** `reassembly.go` `carve.go` | a flow: `next`, `have`, `buf`, `pending`, `last`, `overflow` | `consume`, `integrate`, `appendInOrder`, `drainPending`, `sweepIdle`, `flush` | loss, duplication, reordering, wrap, caps | what is emitted is what the client sent | `Reassembly` |
| **Capture sink** `sink.go` | `nextSeq`, spool files, metadata files | `save` | one step of many failing; concurrent IDs | every job stored once with metadata that says what happened | `Reception` |
| **Job store** `store.go` | ring of 200 jobs, counters | `add`, `query`, `get`, `remove` | eviction and removal while handlers save | the ring is the end of what was captured; what is deleted stays deleted | `Reception` (not paging and counters) |
| **Interceptor, sources, pcap writer** `intercept.go` `capture_*.go` `packet_source.go` `pcapfile.go` `carve.go` | the session: source with its channel, pump, buffered writer, carver, `done` | a start in nine steps, pump, flush ticker, `Close` once | the order of teardown; goroutines that wait for each other; a disk that fails | what was captured is in the file and in jobs; Close returns | `Interceptor`; frames and streams in `Reassembly` |
| **Forwarding, ICS, ARP positioning** `capture_windows.go` `ics_windows.go` `arp_windows.go` | routing switch and sharing as found; resolved hosts | `Enable`, `Restore`; poison and restore rounds | state of the machine outlives the process; commands that fail | what is left different has a cause; no neighbour left misled | `Interceptor` |
| **Live ring** `live.go` | ring of 8000 packets, `seq` | `record`, `since`, `at`, `reset` | cursors across eviction and reset | rows are true and shown once | `Interceptor` |
| **SMB server** `smb*.go` | a session per connection: keys, preauth hash, trees, handles, spool data | NEGOTIATE, SESSION_SETUP, TREE_CONNECT, CREATE, WRITE, READ, CLOSE, ... | legal messages in an unexpected order; two sides that must derive the same keys | a document whose end was acknowledged is captured once; a job names who proved it | `SmbServer`, `SmbCrypto` |
| **DCE/RPC, spoolss** `dcerpc.go` `spoolss.go` | reassembly of fragments, one `spoolssJob` per pipe | BIND, OpenPrinter ... EndDocPrinter | fragments of several requests | as above | `Spoolss` in `SmbServer` |
| **LPD server** `lpd.go` | control and data file of a connection | subcommand loop, acknowledgements, abort | acknowledging before saving, several data files | an acknowledged job is saved | `Reception`; the dialogue in `Transport` |
| **Forward transports** `fwd_raw.go` `fwd_lpr.go` `fwd_ipp.go` | none across sends | dial, write, await the answer | a cut connection; an answer that is late or short | "ok" means the peer has the job | `Transport` |
| **IPP** `ipp.go` | none | Print-Job, Get-Printer-Attributes | slow bodies (see engine) | the answer says what became of the job | requests of `EngineLifecycle`, jobs in `Reception` |
| **WSD print, discovery** `wsd*.go` `wsprint.go` `mtom.go` | pending jobs, at most 256 | CreatePrintJob, SendDocument, Probe, Resolve, Bye | eviction between two calls | a document meets its own ticket | `Wsd` |
| **mDNS** `mdns.go` `dnssd.go` | instance name, sockets | probe, rename, announce, respond, goodbye | announcements against goodbye; suppression of known answers | nothing is left of a closed printer; who asks is told | `Mdns` |
| **SNMP agent** `snmp.go` `snmpv3.go` `usm.go` | engine id, time | GETNEXT, GETBULK, the USM checks | order of checks, window, restarts, lost datagrams | a walk skips nothing and comes to its end | `Snmp` |

Not modelled, and why:

* matching, transforms, PDL detection, EBCDIC and carriage control, DLP: functions
  of a job's bytes with table tests, nothing interleaves;
* configuration and validation: sequential reading and range checks of one file;
* the capture viewer, `dashboard_html.go`, the GUI and help pages, logging: output only;
* service control, elevation, firewall, startup, how Npcap or a raw socket is opened:
  calls into the operating system;
* TLS and the encodings (BER, DNS, SOAP, NDR, SMB and IPP byte layouts): library code,
  or parsers whose outcome is a choice here;
* inside modelled components: paging and counters of the job store, the read-only
  API handlers, `liveTap.at`, SNMP GET, mDNS subtypes, the meta query and TXT contents,
  WSD's GetPrinterElements and GetJobElements.

How they interact: listeners call `sink.save`, which calls `forward.forward` and
`store.add`; `Engine.Start` builds the forwarder and registers its `Close` among
the closers; the dashboard is itself a server of the engine that it stops; the
interceptor feeds the reassembler, whose streams end in `sink.save`; spoolss runs on
pipes of an SMB connection; the agents (mDNS, WSD, SNMP) share no state with each
other; a transport may well talk to another printcap, as it does in `Transport`.

## 2. Plan

Order: what loses or doubles a job first, then what lets a restart go wrong, then
capture, then the protocol front ends.  All modules are written:

1. `RetryQueue`, `ForwardSpool` (implements `RetryQueue`);
2. `EngineLifecycle`;
3. `Reassembly`;
4. `Reception`: listeners, sink, ring and deletion;
5. `Interceptor`: start, capture, Close, the machine it changes, the live view;
6. `SmbServer` with `Spoolss` and `SmbCrypto`;
7. `Mdns`, `Wsd`, `Snmp`, `Transport`, composed by `Agents`.

Proofs, in a module `X_proofs` for each: `ForwardSpool`, `EngineLifecycle`,
`Reception`, `Interceptor`, `SmbServer`, `Reassembly`, `Transport` and `Agents` (for
`Wsd`, `Mdns` and `Snmp`); section 5 has what they prove.  Every invariant that a
passing run checks is a theorem.

## 3. Modules

### RetryQueue, ForwardSpool, MCForwardSpool, ForwardSpool_proofs

`RetryQueue` is the promise: a job handed over is new, queued, delivered or dead,
and moves in that order only.

`ForwardSpool` has the two files of a job (`meta[i]` with the attempts recorded in
it, `payload`), the two files in `dead/`, a forwarder per `Start`, a worker per
forwarder and job, and the connection handler that received a job.  Every file
operation is an action and may fail (`Fault`): `PutData`, `PutMeta`, `Update`,
`DeadLetterMeta`, `DeadLetterPayload`, `RemoveMeta`, `RemovePayload`; `Start` is
`newForwarder` with `replaySpool`, in which any file may be unreadable.  An atomic
write (`writeFileAtomic`: temporary file, rename) is one step, the old content or the
new.  `Crash` erases every variable of the process at any point.  `Expire` is the
TTL; `SendOK` and `SendFails` are the outcomes of a transport.

`LateHandoffs` and `EmptyStarts` are switches between two environments: with
both FALSE jobs arrive only under the forwarder of their run, and then the strong
properties hold; with TRUE the connection handlers are those of the code, which
outlive `forwarder.Close`, and a start may bind nothing.

### EngineLifecycle, MCEngineLifecycle, EngineLifecycle_proofs

Callers perform operations (`start`, `stop`, `restart`, `save`: apply without
a forced start, `apply`) in program order, one action per section between two
lock operations.  `mu` holds the caller across the closers; other sections take
and release it in one step.  `closers` is a set of listeners `<<run, kind>>`;
`loops` and `conn` are what `handlerWG` counts.  `busy` are the connections whose client
has sent something or has not taken an answer: `Send` and `Serve` may alternate for ever,
as each read arms the idle deadline again, and `EndConn` ends a connection at any time
but has to only while it is silent.  `req` are HTTP handlers, which it
does not count, in particular the event stream with the three places where it
waits for `mu`.  `EndShutdown` is the end of `http.Server.Shutdown`, by completion or by
its five seconds: a stream that is in its select sees the stopping channel within
that time, one that waits for the lock does not.

### Reassembly, MCReassembly, Reassembly_proofs

A byte is its offset in its client's stream, so that "the right bytes in the right
order" is arithmetic.  `Consume` is the whole of `consume` including `sweepIdle`
and the emission to `onStream`; `Data`, `Syn`, `Fin`, `Rst` choose the segment.  Any
segment can be captured at any step, with any timestamp: this is loss, duplication
and reordering at once.  Sequence numbers are taken modulo `SeqMod` in place
of 2^32.  `flows` has an entry for each flow of the map, and no other.  `Arrived`
is what `consume` makes of the flow a segment belongs to (`Baseline`, `Integrate`),
`Taken` one round of `drainPending` and `Drain` as many of them as there are waiting
segments.  `base` and `seen` are history.  `Orderly` states that no SYN is captured
after data and no FIN before it (a reset may come at any time); section 6 says
what happens without it.  A segment has a SYN without data.

### Reception, MCReception, Reception_proofs

A connection or request has a protocol (chosen in `Init`), the documents it still
holds, and a program counter.  `Raw`, `Ipp`, `Lpd`, `LpdData`, `LpdClose`, `LpdLost`
and `LpdUnknown` are the listeners up to the hand-over; `BeginSave` to `Add` are
`captureSink.save`, in the order given by `After`, one action for each file, since
another handler or the dashboard may act between any two; `RawReply`, `LpdReply` and
`IppReply` are what each listener does with the error.  `Delete` and `RemoveFiles` are
the halves of `apiJobDelete`: `jobStore.remove` is under the ring's lock, the removal
of files is not.  A write that fails may leave a torn file; a removal that fails
leaves one file.  `Forward` is the copy of the sent bytes and the outcome of one
target; retries of `spool_retry` touch neither job nor capture directory and are
`ForwardSpool`'s.  `sent`, `cut`, `blocked`, `added`, `removed` and `damaged` are history.

### Interceptor, MCInterceptor, Interceptor_proofs

`pc` is how far `startInterceptor` or `Close` has come: `Commit`, `Enable`,
`Position`, `Launch`, then `Unposition`, `SignalDone`, `CloseSource`, `Join`,
`Unroute`, `ClosePcap`, one action for each call Close makes, in its order.  Between them run
the source's loop (`Receive`, `Deliver`, `LoopEnds`) over a bounded channel, the
pump (`Take`, `Write`, `Record`, `PumpStops`), `FlushTick`, the positioner (`Poison`) and a
viewer (`Poll`, `OpenView`).  `host` (routing switch, shared connections) and `misled`
(ARP entries of the neighbours) belong to the machine and survive `Kill`.  A setting
says whether Close of the source waits for its loop: `joins`, which tells the Linux and the
Windows source apart.  Each command of Enable and Restore may fail by
itself: a query that fails reads as an absent value, sharing may come half-way, and
`Unroute` writes the routing switch whatever became of the sharing.  A flush may write a
part, a restoring reply may be lost.  `ghost` is history; `ghost.failed` names the commands
that failed in the run.

### SmbServer, SmbCrypto, Spoolss, MCSmbServer, SmbServer_proofs

One connection and its client; a request and its answer are a step, since
`handleSMBConn` serves one frame at a time.  `Negotiate`, `Leg1`, `Leg2`, `BadSetup`,
`TreeConnect`, `TreeDisconnect`, `Create`, `WriteSpool`, `WritePipe` (through `Calls`,
`Continues`, `Binds`), `Read`, `Close` are the handlers, `Refuse` and `Disconnect` the
returns of the loop, `Ineffective` the commands answered without effect.  `SmbCrypto`
has hashes, key derivations and ciphers as terms: both sides compute, and a
property asks whether the results are equal.  `Spoolss` has the reassembly of a
pipe's fragments and its print calls as functions of the pipe's state.  `doc` and
`finished` are what the client takes to be in its documents.

### Agents, MCAgents, Agents_proofs: Mdns, Wsd, Snmp, Transport, Transport_proofs

`Agents` lets one of four run, as they share nothing.

`Mdns`: sockets that join, probing with a name that may be taken, two rounds of
announcements written socket by socket, questions with known answers (each with at least
half of its time left or not), and the goodbye and close of each socket; browsers keep records until these expire, and
datagrams get lost.

`Wsd`: discovery with its Bye, and print jobs made of two requests, CreatePrintJob and
SendDocument, with the eviction of pending jobs in between; a request may be
repeated, and may name an id that was never given out or is none at all; a multipart request has its document under the name the envelope gives,
under another or not at all.

`Snmp`: a manager walks the MIB by GETNEXT or GETBULK, v1 or v3, over a network
that loses, delays, reorders and duplicates.  `HandleV3` has the checks of
`handleSNMPv3` in their order, each with its report; a restart may change the engine id.

`Transport`: one send, raw, LPR or IPP, and the listener at the other end,
over two streams that can be cut with a part of what is on its way.  The sender writes
`Script` step by step and awaits an answer after each; the peer's handlers read
what has arrived, up to their cap.

## 4. Runs

| run | instance | shows |
|---|---|---|
| `spool_quiet` | 1 job, 2 attempts, 3 starts, 2 crashes, 1 failing operation, targets come and go | `TypeOK`, `NothingLost`, `ReplayableWhole`, `AttemptBudget`, `DeliveredOnce`, `OneWorkerPerItem`, `GiveUpJustified`, the refinement `QueueSpec`, and `EventuallySettled` |
| `spool_late` | 1 job, 1 attempt, 3 starts, 1 crash, 1 fault, late handoffs, starts without listeners | forwarders overlap and still `DeliveredOncePerForwarder` and `CloseReturns` |
| `spool_restart` | as `spool_late`, 2 attempts, no crash or fault | **violates** `OneWorkerPerItem` |
| `engine` | 2 callers, 3 operations of start, stop, apply, 1 connection, 1 request | `TypeOK`, `StopDrains`, `ChannelOpen`, `OneCloser`, and `StopReturns`: the lock is released, and the wait ends when clients fall silent |
| `engine_swap` | 2 callers, 3 operations, 1 connection | **violates** `ConfigSwapDrained` |
| `reassembly` | 2 flows of 4 bytes, one wraps; four segments and a retransmission of all; with and without a cap of 3; 2 waiting segments; 3 timestamps, idle 2 | `StreamsContiguous`, `NothingDroppedSilently`, `CapturedIsCarved`, `MemoryBounded` (no flow lingers either), `EndedIsEmitted` |
| `reception` | 2 connections of any protocols, 2 documents each, ring of 2, 3 configurations; at most 3 jobs and failing file operations together | `UniqueIDs`, `MetadataAgrees`, `DeletedIsGone`, `ReceivedIsKept`, `IppToldTheTruth` |
| `smb` | 1 connection, 1 account, a right and a wrong password, 2 documents of up to 3 pieces, a cap of 2, requests of up to 2 fragments; up to 5 handshake messages | `TypeOK`, `CapturedAsEnded`, `FirstLoginUnderstood`, `JobsAreAttributed` |
| `intercept` | 2 runs with a kill at any point, 3 settings, 2 machines, 2 frames (1 with positioning), channel and ring of 1 | `NoBlackhole`, `HostAsFound`, `ClosedIsComplete`, `RowsTrue`, `CloseReturns` |
| `intercept_restore` | 1 run without frames on a machine that shares connections or has no routing value | **violates** `RestoredExactly` |
| `agents` | mDNS: 2 sockets, 1 browser, a namesake, 1 loss; WSD: 2 pending jobs of 3, 2 documents; SNMP: 4 OIDs, 3 managers, 1 restart, 1 drop, 2 datagrams each way; transports: documents of 0, 1, 3 bytes, caps none and 2 | `Withdrawn`, `AttributedAsCreated`, `WalkIsComplete`, `WalkEnds`, `DeliveredIsCaptured` |
| `mdns_known` | as `agents` | **violates** `AnsweredOrKnown` |

**Bounds and why they are enough.**  Jobs do not share files, workers or
counters, so one job shows what a job can meet.  Two crashes are a crash and one
during the recovery from it; three starts (`MaxStarts`) let two forwarders overlap
and a third replay after both.  One failing operation (`MaxFaults`) splits any pair of
files; `MaxAttempts` 2 separates the first failure from the last.  `MaxCalls` 3
is a run, a stop of it and a racing operation, for each order of two callers.
`MaxPending` 2 makes the limit reachable with three early segments of four; a cap
of 3 cuts a stream of four bytes inside a segment, `SeqMod` 16 is more than twice a
stream, as 2^32 is.  `MaxTime` 3 and `Idle` 2 contain timestamps that go back,
stay, and pass the idle window.

In `reception` the third job evicts the first from a ring of two while another is
saved or deleted; `MaxWork` 3 also admits two jobs with a failing file operation, or one
with two of them.  The three configurations contain each save mode, capture mode and failure
policy (that no target applies to a job is a choice in all of them).  The
connections are interchangeable, hence the symmetry.

In `smb` the cap of two pieces cuts a document of three, a request of two
fragments can be abandoned after one, five messages of handshakes are a NEGOTIATE with
two logins, or two sessions with one login each (four where guests are let in).  One file suffices, as files share
nothing but their session; two printers on one pipe are `MCSmbHandles.cfg`.

In `intercept` a channel of one blocks the source with one frame waiting and one in its
hand; two frames make a ring of one evict before a poll (`MCInterceptorBurst.cfg` has a ring of two, which a poll of one row does not empty); the second run
has what the first, closed or killed, left behind.  A network of more hosts would
repeat what happens to one: each is addressed on its own.

In `agents` the name that is taken has a namesake among the others, one OID of the MIB is
a prefix of the next, a third job evicts the first of two pending, and time
passes the window of 1 twice.  A document of 3 bytes is cut by a cap of 2, one of 1 is not.

**Fairness.**  Workers, handlers, the closing engine, callers inside an operation
and loops of closed listeners are goroutines that are always ready to run or wait
for something that has a timeout: every transport dials and sends with deadlines
(`SendOK` or `SendFails` happens), a backoff ends, a tracked connection that is silent
has an idle read deadline (`EndConn` while not `busy`; one that is not is ended by nothing, so
`StopReturns` promises the end of a wait only for clients that fall silent).  Weak fairness on each is what the Go scheduler gives;
where two actors compete for `mu` the properties hold without strong fairness.
There is no fairness on `Start`, `Call`, `Connect`, `Request`, `EndJob`, `Send`, `Serve` or
captured segments: nobody has to print, an HTTP client may take for ever to
send its body, and a client of a tracked connection to fall silent.  `EventuallySettled` asks that the engine stays up and the job's target
stays configured.

In `Interceptor` the pump, the source's delivery and its end after `done`, and the steps
of a Close that was called are fair; the call itself, captured frames, rounds of
the positioner, ticks and polls are not, and `Kill` need never happen.  `WalkEnds`
assumes that the agent serves what it is sent (`ServeRequest`), that the manager repeats its request
(`Ask`) and reads what comes (`Learn`): the agent loops on its socket, the rest is what a
manager does.  Losses and duplicates are bounded by `MaxDrops`: with unbounded loss
nothing would arrive, whatever the code did.

**Deadlock** checking is off for the spool, the engine, reception, SMB, the interceptor
and the agents, which may come to rest (everything delivered or saved, closed, the
bounds used up); the reassembler never does.

## 5. Proofs

Each theorem is `Spec => []P` (or `Spec => P` for an action property and the
refinement) for every value of the constants that the module's named assumption admits.
The argument is always the same: an inductive invariant, proved of `Init` and of one
action after the other, that implies the property.  What the invariants add, and why:

**`ForwardSpool_proofs`**, under `SpoolAssumption`.

* `TypeCorrect`: `TypeOK`, one lemma per group of actions.
* `Durability`: `NothingLost`.  By itself it is not inductive: a step of `remove` would
  delete a file of a job nobody knows to be delivered, and `PutMeta` would accept a
  job whose payload nobody knows to be there.  `NothingLostInv` adds that a worker in
  `remove` has delivered its job, and that a handler about to write metadata has its
  payload on disk, in the queue or (moved by an overlapping worker) in `dead/`.
* `OncePerForwarder`: `DeliveredOncePerForwarder`, although forwarders overlap.
  `DeliverersInv` names a set of forwarders, as many as there were deliveries, that are
  done with the job; `StartedInv` keeps the next one out of it.
* `OneWorker`, `ReplayIsWhole`, `AttemptsAreBounded`, `DeliveriesAreBounded`,
  `GiveUpIsJustified`, and `QueueIsImplemented`, the refinement of `RetryQueue`: all of them for a
  system that is `Orderly`, in which no connection outlives the forwarder it was
  accepted under and every start binds a listener.  The code is not always so:
  `spool_restart` shows what happens otherwise, and that is a finding.  `EngineInv` says that
  then forwarders are closed one after the other and a worker belongs to the newest; `SpoolInv` keeps, for
  each place of a worker and of a handler, how tries and deliveries relate to
  the attempts on file and to the crashes and faults so far.

**`EngineLifecycle_proofs`**, under `EngineAssumption`, for any number of callers,
connections, requests and operations.

* `StopDrainsAlways`, `ChannelOpenAlways`, `OneCloserAlways` share `Inv`.  `LockInv`
  says that whoever is at the closers holds the lock, and of the run it found; `StopInv`
  that a caller past the closers has no open listener of its run left.  The step that
  matters is `Accept`: a connection takes the run of the loop that accepted it, and
  that loop is counted, so a drained run has nobody left to accept.  A counter of
  zero means empty sets (`TrackedNone`) because `Conns` is finite and runs are numbered.
* `TypeCorrect`: `TypeOK`.  That runs stay below `MaxCalls` needs a count of its own
  (`RunsInv`): runs built and operations under way are no more than operations called.

**`Reception_proofs`**, under `ReceptionAssumption`, for any connections, documents,
ring and configurations.

* `IDsAreUnique`: `IdInv` says whose an ID is at each place of `save`, and that two
  jobs that were added with one ID are one.
* `MetadataAlwaysAgrees`, `DeletedStaysGone` (files too, but for jobs one of whose file
  operations failed): `RingInv` and `DiskInv` relate the ring
  and the files to the jobs that were begun, removed, or damaged by a failing operation.
  A job enters the ring after its last file is written; that is why no file can
  come after its deletion.
* `EverythingReceivedIsKept`, `IppIsToldTheTruth`: `DocumentInv`, with a part for each
  protocol.  The first says that nothing is captured twice, that a raw or IPP connection is
  captured up to a job that a target blocked, and an LPD connection that was not
  cut with its last data file alone (section 7).  Documents of a connection are captured in order, so that those
  captured all come before the one at hand; this makes "exactly once" inductive.

**`Interceptor_proofs`**, under the assumption of that module, across runs and kills.

* `NobodyIsLeftBlackholed`, `TheHostIsAsFound`: `MachineInv` says for each phase what
  the run owes the machine: which neighbours may be misled, and that what Enable
  remembers (`prior`, `set`, `icsSet`) is what it found, or what a failing query made of it.
  `HostAsFound` gives for each way in which Close may leave the machine different the
  only causes it can have; that it is left exactly as it was is false (`intercept_restore`).
* `TheCaptureIsComplete`: `CaptureInv`: file and buffer together are what was
  written, and its prints are saved, in flight at the carver or in the pump's hands.
* `TheRowsAreTrue`: `LiveInv`: the ring is the end of what was recorded, which is what
  was written but for the packet the pump is about to record.

**`SmbServer_proofs`**, under `SmbAssumption` and that of `Spoolss`, for any accounts, documents and bounds.

* `FirstLoginIsUnderstood`: `TranscriptInv`: up to the end of the first login both sides
  have hashed the same messages.  A second login breaks it, as `MCSmbLogin.cfg` shows.
* `JobsHaveTheirUsers`: `SessionInv`: a session's user has proved his password, and without
  authentication there are neither trees nor files.
* `TypeCorrect`: `TypeOK`, from `TypesInv`, which knows the shape of files and fragments.
* `DocumentsAreCaptured`: `CapturedAsEnded`, where a client opens one printer over a
  pipe (`OnePrinter`, the run's instance; with two `MCSmbHandles.cfg` refutes it, a
  finding).  `DocumentsInv`: each file, and each pipe (`PipeMatches`), holds what its client
  takes it to hold, and the parts collected on a pipe are those of the request the client is at.

**`Agents_proofs`**, for any sockets, browsers, MIBs, users and bounds.

* `Attribution`: `AttributedAsCreated`.  `PendingInv`: a job that was created and is no longer pending was
  sent, or as many younger ones as there may be pending were created.
* `NothingLeftBehind`: `Withdrawn`.  `CacheInv`: a browser all of whose links have had the
  goodbye holds none of our records, but for losses and races, and those that a
  namesake announces too.  `MdnsAssumption` has finitely many browsers, as the
  datagrams lost are counted by the browsers they did not reach.
* `WalksAreComplete`: `WalkIsComplete`.  `WalkInv`: the walk has the first k entries and is
  at the k-th, for some k; every request, whenever it was sent, asks from such a place; and
  every response in the network, late or doubled, has the entries that follow the
  place it answers, and reports the end only with the last.  By itself the property is not
  inductive, as an answer on its way might skip.  The model's operators need most of the
  proof: `compareOID` (`Less`) is a strict total order on the OIDs (`LessIsTransitive`,
  `LessIsTotal`: by the first place where two differ), any finite set of OIDs can be
  sorted (`Sortable`: each goes to the place that is the number of those not greater), the
  result is strictly increasing (`MibIs`), and `NextEntryIs` and `BulkIs` are what the
  searches in it return.  `SnmpAssumption` has finitely many OIDs, none of them empty, as
  `buildMIB` writes them out.

**`Transport_proofs`**, under `TransportAssumption`, for documents and caps of any size.

* `Delivery`: `DeliveredIsCaptured`.  `TransportInv` has a part for each protocol.
  `RawInv` and `IppInv`: what is on its way is a first part of what was written, and IPP answers
  success only after all that the cap admits was saved.  `LprInv`: while something
  of a step is on its way, the peer is where it reads that step (`InTransit`, `Ready`); a
  step that awaits its answer is still to be read whole, was acknowledged by a peer
  that is ready for the next one, or was turned away (`Unanswered`); once the
  connection is cut only an answer already sent may arrive (`LastAnswer`); and the last
  acknowledgement, and so a success, follows only on reading the whole document (`Done`).
* The lemmas on first parts of streams (`FirstOfPrefix`, `TailOfPrefix`, `CutIsPrefix`) are what
  a cut at any byte comes to; `ReadChunkIs` is what `readChunk` returns of one.
* The assumption has no cap of exactly one byte: `MaxJobMB` counts megabytes (`limits.go`), and
  with such a cap the zero byte that ends an LPR data file of length 0 would itself fill
  it, so that the property, checked with it, is false.

**`Reassembly_proofs`**, under `ReassemblyAssumption`, for any flows, initial sequence
numbers, streams, segments, cap and even modulus that is more than twice the stream.

* `JobsAreRunsOfStreams` (`StreamsContiguous`), `CapturedIsKept`
  (`NothingDroppedSilently`) and `JobsAreWhole` (`CapturedIsCarved`).  `FlowInv` gives a flow with
  a baseline a position in its stream: `next` is the sequence number of that
  position, the buffer runs from the base to it or to the cap (`Run`), what waits are
  segments of the stream (`Held`) and none of them starts at it.  `SeqOrder`
  shows that comparing sequence numbers (`SeqAfter`) is comparing offsets, wherever they wrap.
* `MemoryIsBounded` and `NoFlowVanishes` (`EndedIsEmitted`) need nothing of this and no
  assumption about the network: `Small` is kept by any segment.
* Rounds of `drainPending` are a recursive function.  That it satisfies its
  equation (`RoundsAre`) and what all of its values satisfy (`AllNumbers`) follow
  from the least counterexample, with the library's `WFMin`.  `DrainSound` also shows that as many
  rounds as there are waiting segments are enough: afterwards none waits at `next`.

  What the first three assume, and no more than the code needs:

  * `Orderly`: no SYN is captured after data of its flow.  Without it they are false (section 6).
  * `OneCut` (last two): a segment that is sent again, other than from the start of the stream, is sent as it
    was.  The code keys waiting segments by sequence number and overwrites
    (`reassembly.go:120`), so that a shorter retransmission replaces a longer waiting segment.
  * `Nested` (the last): a segment that starts within another one ends within it.  Otherwise
    what waits can be overlapped from below and is never taken, the finding of
    `MCReassemblyRecut.cfg`, whose segments are not nested.

**Model-checked only.**  Liveness needs fairness and `ENABLED`, which the prover does not have:
`EventuallySettled`, `CloseReturns` of both modules, `StopReturns`, `WalkEnds`.
These stay with TLC.  Everything else that a passing run checks is proved.
`OneWorkerPerItem`, `CapturedIsCarved` and `CapturedAsEnded` cannot be theorems without
their assumptions: runs or configurations refute them for what the code itself permits.

## 6. Findings

* **A worker outlives Stop** (`spool_restart`, `forward.go:226`).  Stop closes
  the forwarder first and waits for connection handlers afterwards; a handler still
  reading then hands its job to the closed forwarder, whose worker nobody waits
  for.  The next Start replays the job's file: two workers, two prints.
* **The configuration is swapped under a handler** (`engine_swap`, `dashboard.go:578`).
  `applyConfigAsync` reads the running flag, lets the lock go and acts on it.
* **What was shared before is switched off** (`intercept_restore`, `capture_windows.go:209`).
  Restore, which "puts it back exactly as it was", ends connection sharing everywhere, not only
  where Enable began it, and leaves 0 where there was no routing value.
* **A known answer hides another printer** (`mdns_known`, `mdns.go:427`): an answer is
  suppressed when the browser knows a record of the same name and type, and all
  printers of a service type share the name of the browse record.

More disagreements with what the code's comments and documents say, each with the
configuration that reproduces it (one property each, not among the runs):

| configuration | violates | |
|---|---|---|
| `MCEngineHttp.cfg` | `StoppedServesNothing` | Stop does not wait for HTTP handlers (`engine.go:38`), although its comment lists them |
| `MCEngineStream.cfg` | `StreamsLetShutdownEnd` | an event stream that is sending waits for the lock Stop holds (`dashboard.go:662`) and costs it five seconds |
| `MCEngineTalker.cfg` | `HandlersUnwind` | Stop waits for handlers that "unwind via their idle read deadlines" (`engine.go:359-361`): each read renews the deadline (`limits.go:49-51`), a write has none, and a client that keeps sending is served for ever, also after the listeners are closed |
| `MCReassemblyRecut.cfg` | `CapturedIsCarved` | `drainPending` takes a waiting segment only when it starts exactly where the stream has come to (`reassembly.go:157`): one that the segment filling the gap overlaps stays waiting, and its bytes are missing from a job without a truncation mark, contrary to "retransmit/overlap de-duplication" (`reassembly.go:14-16`) |
| `MCMdnsGoodbye.cfg` | `GoodbyeIsLast` | announcements and answers can be written to a socket between its goodbye and its close (`mdns.go:355-356`) and bring back for their full time to live what "goodbye packets withdraw" (`docs/superpowers/specs/2026-06-02-mdns-dnssd-design.md:196`) |
| `MCReceptionBlock.cfg` | `BlockedIsReported` | LPD acknowledges a data file when it is read, so the failure of a `block` target reaches no LPD client (`lpd.go:110`), contrary to `docs/superpowers/specs/2026-06-02-transform-forward-proxy-design.md:64-66` |
| `MCSmbHandles.cfg` | `CapturedAsEnded` | a pipe has one `spoolssJob` (`spoolss.go:8-15`, `:150`): opening a second printer over it discards the document of the first, whose end is then acknowledged |
| `MCSmbLogin.cfg` | `Understood` | at a second login over one connection the preauth hash goes on from the first, "matching exactly what the client hashes" (`smb.go:146-149`) only once; the client's keys differ |
| `MCInterceptorBurst.cfg` | `EverythingNew` | a poll whose limit is below the backlog skips rows and counts none as dropped (`live.go:10-12`, `:82-91`) |
| `MCWsdAttachment.cfg` | `AttachmentIsCaptured` | an envelope with a Content-ID counts as an attachment, so a document under another name than the href's is not found (`wsprint.go:161`) |
| `MCSendEmpty.cfg` | `CapturedIsSent` | an LPR data file announced with length 0 is read as one of unknown length: the terminating NUL is captured as the document (`lpd.go:165`) |
| `MCSendPresumed.cfg` | `SuccessIsCaptured` | an HTTP 200 whose body does not come counts as success (`fwd_ipp.go:62`), though the peer may have refused the job |

Met while modelling, without a property of their own: AES-CCM is negotiated when a client offers nothing
else, but not implemented; a guest login leaves the name of the user before it in the session,
and the guest flag stays after a later login; jobs ended over spoolss carry no user; a viewer
whose cursor is ahead of a restarted ring misses packets that are not counted as
dropped; `generateEngineID` appends a random byte although `initEngineID` calls the id
stable; connection sharing is never set up where routing was on already; a query that fails where
routing was on makes Restore switch it off; SendDocument
answers with success when the capture failed, and to ids it never gave out; a cap cuts a job whose sender is
told of success (LPD, IPP); a send that times out after the peer has saved is
retried and prints twice.

Without `Orderly`, `StreamsContiguous` fails at once: a duplicate of the SYN that is captured
after data resets `next` and the retransmitted data is stored again
(`reassembly.go:87`); a FIN captured before earlier data cuts the job in two
(`reassembly.go:98`).  They are listed as hazards.

## 7. Abstractions to be aware of

* The synchronous `block` and `best_effort` policies keep no state and are not in
  `ForwardSpool`; backoff durations are not modelled, only that a backoff ends.
* Closers run in any order, not in slice order; the properties hold for all orders.
* Operations between two lock operations are atomic; a bind is a choice of the
  kinds that come up, and a port that is still open cannot be bound.
* The forwarder's own closing happens in `ForwardSpool`; in `EngineLifecycle` it
  is one more closer that returns.
* In `Reception` a connection saves one document at a time and jobs have one target;
  a restart of the engine, which replaces ring and sink, is not part of it.  The SMB, WSD
  and interceptor paths end in their modules where they call `sink.save`.
* `ReceivedIsKept` promises for LPD what the code does: the last data file of a
  connection that ends between two files.  An earlier data file is replaced although
  it was acknowledged, and an unknown subcommand or a connection lost at the start of
  a file discards what was there.
* `DeletedIsGone` excepts jobs one of whose file operations failed: `apiJobDelete`
  ignores the error and answers `deleted:true`, and a torn spool file has no name in
  the job by which it could be found.
* `NothingDroppedSilently` counts a waiting segment as kept, even one that will wait for ever;
  that such a segment is missing from the job is `CapturedIsCarved`.
* `Withdrawn` excepts what is sent between a socket's goodbye and its close, `GoodbyeIsLast` does not.
* The emission of a stream to `onStream` is synchronous in the code and part of the
  step here; what the carver makes of the bytes is not modelled.
* In `Interceptor` a frame is a number and a kind; the carver keeps a stream until some
  frame ends it, and `Reassembly` has what streams are made of.  A failing device ends
  the source's loop only between two frames.
* `SmbServer` has one client that speaks MS-SMB2 correctly but in any order, with
  right or wrong passwords; accounts are in the domain of the configuration.
* `Transport` takes target timeouts to be shorter than the minute after which a
  listener gives up on a silent client; what a printer of another make answers is
  the choice of an outcome in `ForwardSpool`.
* `DeliveredIsCaptured` excepts LPR data files of length 0 and IPP answers without a body;
  `MCSendEmpty.cfg` and `MCSendPresumed.cfg` show what happens to them.
* In `Mdns` a browser overhears announcements and goodbyes but not answers to others.
* Keys, digests and ciphertexts are terms that only the same key opens.
