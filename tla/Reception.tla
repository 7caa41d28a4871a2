----------------------------- MODULE Reception -----------------------------
(***************************************************************************)
(* How a job gets in: the handlers of the raw, LPD and IPP listeners, the  *)
(* capture sink they all hand their documents to (captureSink.save), the   *)
(* ring of the dashboard (jobStore) and the deletion of a job from it.     *)
(*                                                                         *)
(* Handlers run concurrently, each file is written by a step of its own,   *)
(* and each write may fail.  A document is named by its place in its       *)
(* connection; its bytes, code pages and DLP rules are left out.           *)
(***************************************************************************)
EXTENDS Naturals, SequencesExt

CONSTANTS
    Conns,          \* connections and requests
    Protocols,      \* those that are used, of "9100", "LPR" and "IPP"
    Configs,        \* what may be configured: [mode, capture, failure, sidecar]
    MaxJobs,        \* jobs the ring holds (jobStore.max)
    MaxDocs,        \* bound: documents sent over a connection
    MaxWork         \* bound: jobs that are begun and file operations that fail

ASSUME ReceptionAssumption ==
    /\ Protocols \subseteq {"9100", "LPR", "IPP"}
    /\ Configs \subseteq [mode: {"both", "raw", "meta"},
                          capture: {"both", "sent", "orig"},
                          failure: {"none", "best_effort", "block", "spool_retry"},
                          sidecar: BOOLEAN]
    /\ MaxJobs \in Nat \ {0}
    /\ MaxDocs \in Nat \ {0}
    /\ MaxWork \in Nat

VARIABLES
    cfg,            \* the configuration in force
    proto,          \* per connection: its protocol
    seqNum,         \* the last job ID given out
    pc,             \* per connection: where its handler stands
    held,           \* per connection: the documents it has yet to save
    job,            \* per connection: the job that is being saved
    err,            \* per connection: save returns an error
    told,           \* per connection: "ok" or "error", as the client was told
    files,          \* the capture directory: <<id, kind>>, whole or torn
    meta,           \* the whole metadata files: the jobs as they were marshalled
    jobs,           \* the ring, newest last
    deleting,       \* the jobs apiJobDelete has taken out and not yet cleaned up
    \* History
    sent,           \* per connection: how many documents came in whole
    cut,            \* the LPD connections that did not end between two files
    blocked,        \* <<c, document>>: failed to forward under "block"
    added,          \* the jobs in the order they entered the ring
    removed,        \* the IDs taken out by apiJobDelete
    damaged,        \* the IDs one of whose files failed to be written or removed
    faults

setup == <<cfg, proto>>
handlers == <<pc, held, job, err, told, sent, cut, blocked>>
disk == <<files, meta, damaged, faults>>
ring == <<jobs, deleting, added, removed>>
vars == <<setup, seqNum, handlers, disk, ring>>

NoJob == [id |-> 0, conn |-> "none", doc |-> 0,
          savedAs |-> FALSE, decodedAs |-> FALSE, forwards |-> "none"]

Init ==
    /\ cfg \in Configs
    /\ proto \in [Conns -> Protocols]
    /\ seqNum = 0
    /\ pc = [c \in Conns |-> "idle"]
    /\ held = [c \in Conns |-> <<>>]
    /\ job = [c \in Conns |-> NoJob]
    /\ err = [c \in Conns |-> FALSE]
    /\ told = [c \in Conns |-> "nothing"]
    /\ files = {} /\ meta = {} /\ damaged = {} /\ faults = 0
    /\ jobs = <<>> /\ deleting = {} /\ added = <<>> /\ removed = {}
    /\ sent = [c \in Conns |-> 0]
    /\ cut = {} /\ blocked = {}

Fault == seqNum + faults < MaxWork /\ faults' = faults + 1

Goto(c, label) == pc' = [pc EXCEPT ![c] = label]
Tell(c, answer) == told' = [told EXCEPT ![c] = answer]
Hold(c, docs) == held' = [held EXCEPT ![c] = docs]

\* The handler has these documents to save, or is done.
SaveAll(c, docs) ==
    /\ Hold(c, docs)
    /\ Goto(c, IF docs = <<>> THEN "closed" ELSE "save")

-----------------------------------------------------------------------------
(* Listeners *)

\* handleRaw9100: everything up to the end of the stream, cut into one job per
\* UEL where that is configured; nothing at all is a probe.
Raw(c) ==
    /\ proto[c] = "9100" /\ pc[c] = "idle"
    /\ \E n \in 0..MaxDocs :
          /\ sent' = [sent EXCEPT ![c] = n]
          /\ SaveAll(c, [i \in 1..n |-> i])
    /\ UNCHANGED <<setup, seqNum, job, err, told, cut, blocked, disk, ring>>

\* ippHandler: a request is refused, carries no document, or is a job.
Ipp(c) ==
    /\ proto[c] = "IPP" /\ pc[c] = "idle"
    /\ \/ /\ \E answer \in {"ok", "error"} : Tell(c, answer)
          /\ Goto(c, "closed")
          /\ UNCHANGED <<held, sent>>
       \/ /\ sent' = [sent EXCEPT ![c] = 1]
          /\ SaveAll(c, <<1>>)
          /\ UNCHANGED told
    /\ UNCHANGED <<setup, seqNum, job, err, cut, blocked, disk, ring>>

\* handleLPD up to its loop: a port, command or queue that is refused ends the
\* connection.
Lpd(c) ==
    /\ proto[c] = "LPR" /\ pc[c] = "idle"
    /\ \E label \in {"sub", "closed"} : Goto(c, label)
    /\ UNCHANGED <<setup, seqNum, held, job, err, told, sent, cut, blocked, disk, ring>>

\* A data file takes the place of the one before, and is acknowledged before
\* anything is saved.  One that reaches the cap ends the dialogue.  Control files
\* and aborts leave the data as it is.
LpdData(c) ==
    /\ pc[c] = "sub" /\ sent[c] < MaxDocs
    /\ sent' = [sent EXCEPT ![c] = @ + 1]
    /\ Hold(c, <<sent'[c]>>)
    /\ Tell(c, "ok")
    /\ \E label \in {"sub", "save"} : Goto(c, label)
    /\ UNCHANGED <<setup, seqNum, job, err, cut, blocked, disk, ring>>

\* The client closes, or goes silent, between two files.
LpdClose(c) ==
    /\ pc[c] = "sub"
    /\ SaveAll(c, held[c])
    /\ UNCHANGED <<setup, seqNum, job, err, told, sent, cut, blocked, disk, ring>>

\* The connection is lost within a data file: the bytes that came, or no bytes,
\* take the place of the file before.
LpdLost(c) ==
    /\ pc[c] = "sub" /\ sent[c] < MaxDocs
    /\ \E part \in {<<>>, <<sent[c] + 1>>} : SaveAll(c, part)
    /\ cut' = cut \cup {c}
    /\ UNCHANGED <<setup, seqNum, job, err, told, sent, blocked, disk, ring>>

\* An unknown subcommand returns at once, and nothing is saved.
LpdUnknown(c) ==
    /\ pc[c] = "sub"
    /\ SaveAll(c, <<>>)
    /\ cut' = cut \cup {c}
    /\ UNCHANGED <<setup, seqNum, job, err, told, sent, blocked, disk, ring>>

-----------------------------------------------------------------------------
(* captureSink.save, one step for each file *)

\* Variant: the metadata is written before the forwarder has spoken.
AfterMetaEarly == [spool |-> "meta", meta |-> "forward", forward |-> "decode",
                   decode |-> "add", add |-> "reply"]

\* Variant: the job is shown to the dashboard before its metadata is written.
AfterAddEarly == [spool |-> "forward", forward |-> "decode", decode |-> "add",
                  add |-> "meta", meta |-> "reply"]

\* The order of save's steps.
After == [spool |-> "forward", forward |-> "decode", decode |-> "meta",
          meta |-> "add", add |-> "reply"]

\* The handler of c is at this step of save and does it.
At(c, label) == pc[c] = label /\ Goto(c, After[label])

\* A write that fails may leave a torn file.
Write(c, kind) ==
    /\ files' = files \cup {<<job[c].id, kind>>}
    /\ UNCHANGED <<damaged, faults>>
WriteFails(c, kind) ==
    /\ Fault
    /\ damaged' = damaged \cup {job[c].id}
    /\ files' \in {files, files \cup {<<job[c].id, kind>>}}

\* Variant: the ID is the length of the list rather than a counter of its own.
NextSeqOfRing == Len(jobs) + 1

nextSeq == seqNum + 1

BeginSave(c) ==
    /\ pc[c] = "save" /\ seqNum + faults < MaxWork /\ Goto(c, "spool")
    /\ seqNum' = nextSeq
    /\ job' = [job EXCEPT ![c] = [id |-> seqNum', conn |-> c, doc |-> Head(held[c]),
                                  savedAs |-> FALSE, decodedAs |-> FALSE, forwards |-> "none"]]
    /\ err' = [err EXCEPT ![c] = FALSE]
    /\ UNCHANGED <<setup, held, told, sent, cut, blocked, disk, ring>>

\* A file that is not written leaves no name in the job, and save goes on.
WriteSpool(c) ==
    /\ At(c, "spool")
    /\ \/ cfg.mode = "meta" /\ UNCHANGED <<job, files, damaged, faults>>
       \/ /\ cfg.mode # "meta"
          /\ \/ Write(c, "spool") /\ job' = [job EXCEPT ![c].savedAs = TRUE]
             \/ WriteFails(c, "spool") /\ UNCHANGED job
    /\ UNCHANGED <<setup, seqNum, held, err, told, sent, cut, blocked, meta, ring>>

\* What deliver records.
Outcomes == IF cfg.failure = "spool_retry" THEN {"queued"} ELSE {"ok", "failed"}

\* No target, one whose condition the job does not meet, or the copy of what is
\* sent and then the outcome.  Only a "block" target makes save return an error.
Forward(c) ==
    /\ At(c, "forward")
    /\ \/ UNCHANGED <<job, err, blocked, files, damaged, faults>>
       \/ /\ cfg.failure # "none"
          /\ \/ cfg.capture = "orig" /\ UNCHANGED <<files, damaged, faults>>
             \/ cfg.capture # "orig" /\ (Write(c, "sent") \/ WriteFails(c, "sent"))
          /\ \E outcome \in Outcomes :
                /\ job' = [job EXCEPT ![c].forwards = outcome]
                /\ err' = [err EXCEPT ![c] = outcome = "failed" /\ cfg.failure = "block"]
                /\ blocked' = IF err'[c] THEN blocked \cup {<<c, job[c].doc>>} ELSE blocked
    /\ UNCHANGED <<setup, seqNum, held, told, sent, cut, meta, ring>>

\* Some jobs are EBCDIC and get a decoded copy.
Decode(c) ==
    /\ At(c, "decode")
    /\ \/ UNCHANGED <<job, files, damaged, faults>>
       \/ /\ cfg.sidecar /\ cfg.mode # "meta"
          /\ \/ Write(c, "decoded") /\ job' = [job EXCEPT ![c].decodedAs = TRUE]
             \/ WriteFails(c, "decoded") /\ UNCHANGED job
    /\ UNCHANGED <<setup, seqNum, held, err, told, sent, cut, blocked, meta, ring>>

WriteMeta(c) ==
    /\ At(c, "meta")
    /\ \/ cfg.mode = "raw" /\ UNCHANGED disk
       \/ cfg.mode # "raw" /\ Write(c, "json") /\ meta' = meta \cup {job[c]}
       \/ cfg.mode # "raw" /\ WriteFails(c, "json") /\ UNCHANGED meta
    /\ UNCHANGED <<setup, seqNum, held, job, err, told, sent, cut, blocked, ring>>

-----------------------------------------------------------------------------
(* jobStore, and what the handlers do with the outcome of save *)

\* The oldest job goes when there are too many.
Trim(s) == IF Len(s) > MaxJobs THEN SubSeq(s, Len(s) - MaxJobs + 1, Len(s)) ELSE s

\* Variant: save returns the forwarder's error before it has stored the job.
AddUnlessErr(c) ==
    /\ At(c, "add")
    /\ IF err[c] THEN UNCHANGED ring
       ELSE /\ jobs' = Trim(Append(jobs, job[c]))
            /\ added' = Append(added, job[c])
            /\ UNCHANGED <<deleting, removed>>
    /\ UNCHANGED <<setup, seqNum, held, job, err, told, sent, cut, blocked, disk>>

\* jobStore.add, whatever became of the files and of forwarding.
Add(c) ==
    /\ At(c, "add")
    /\ jobs' = Trim(Append(jobs, job[c]))
    /\ added' = Append(added, job[c])
    /\ UNCHANGED <<setup, seqNum, held, job, err, told, sent, cut, blocked, disk,
                   deleting, removed>>

\* saveRawStream drops the connection, and the jobs it still holds, on an error.
RawReply(c) ==
    /\ proto[c] = "9100"
    /\ SaveAll(c, IF err[c] THEN <<>> ELSE Tail(held[c]))
    /\ UNCHANGED told

\* handleLPD closes the connection either way: the client has its last answer.
LpdReply(c) ==
    /\ proto[c] = "LPR"
    /\ SaveAll(c, <<>>)
    /\ UNCHANGED told

\* Variant: the error of save is only logged.
IppReplyOk(c) ==
    /\ proto[c] = "IPP"
    /\ SaveAll(c, <<>>)
    /\ Tell(c, "ok")

\* ippHandler: an error becomes server-error-job-canceled.
IppReply(c) ==
    /\ proto[c] = "IPP"
    /\ SaveAll(c, <<>>)
    /\ Tell(c, IF err[c] THEN "error" ELSE "ok")

Reply(c) ==
    /\ pc[c] = "reply"
    /\ RawReply(c) \/ LpdReply(c) \/ IppReply(c)
    /\ job' = [job EXCEPT ![c] = NoJob]
    /\ err' = [err EXCEPT ![c] = FALSE]
    /\ UNCHANGED <<setup, seqNum, sent, cut, blocked, disk, ring>>

-----------------------------------------------------------------------------
(* Dashboard *)

\* apiJobDelete, first half: jobStore.remove takes out the first job with the ID.
Delete(i) ==
    /\ \A k \in 1..(i - 1) : jobs[k].id # jobs[i].id
    /\ jobs' = RemoveAt(jobs, i)
    /\ deleting' = deleting \cup {jobs[i]}
    /\ removed' = removed \cup {jobs[i].id}
    /\ UNCHANGED <<setup, seqNum, handlers, disk, added>>

\* The files apiJobDelete looks for: two by the names in the job, the others by
\* the name the job was given.
FilesOf(j) ==
    {<<j.id, "json">>, <<j.id, "sent">>}
        \cup (IF j.savedAs THEN {<<j.id, "spool">>} ELSE {})
        \cup (IF j.decodedAs THEN {<<j.id, "decoded">>} ELSE {})

\* apiJobDelete, second half: a file that cannot be removed stays, and the answer
\* is the same.
RemoveFiles(j) ==
    /\ deleting' = deleting \ {j}
    /\ \/ files' = files \ FilesOf(j) /\ UNCHANGED <<damaged, faults>>
       \/ /\ Fault
          /\ \E f \in FilesOf(j) \cap files : files' = (files \ FilesOf(j)) \cup {f}
          /\ damaged' = damaged \cup {j.id}
    /\ meta' = IF <<j.id, "json">> \in files' THEN meta ELSE {m \in meta : m.id # j.id}
    /\ UNCHANGED <<setup, seqNum, handlers, jobs, added, removed>>

Listen(c) ==
    Raw(c) \/ Ipp(c) \/ Lpd(c) \/ LpdData(c) \/ LpdClose(c) \/ LpdLost(c) \/ LpdUnknown(c)

Save(c) ==
    BeginSave(c) \/ WriteSpool(c) \/ Forward(c) \/ Decode(c) \/ WriteMeta(c) \/ Add(c)

Next ==
    \/ \E c \in Conns : Listen(c) \/ Save(c) \/ Reply(c)
    \/ \E i \in DOMAIN jobs : Delete(i)
    \/ \E j \in deleting : RemoveFiles(j)

Spec == Init /\ [][Next]_vars

-----------------------------------------------------------------------------
(* Properties *)

Jobs == [id : Nat, conn : Conns, doc : 1..MaxDocs, savedAs : BOOLEAN,
         decodedAs : BOOLEAN, forwards : {"none", "ok", "failed", "queued"}]

SavePC == {"save", "spool", "forward", "decode", "meta", "add", "reply"}

\* The jobs that have their ID, in the making or in the ring.
Begun == {job[c] : c \in {c \in Conns : pc[c] \in SavePC \ {"save"}}} \cup Range(added)

\* No two documents share an ID, by which files are named and jobs are found and
\* deleted, however their handlers interleave (nextSeq, main.go).
UniqueIDs ==
    \A a, b \in Begun : a.id = b.id => a.conn = b.conn /\ a.doc = b.doc

\* What the dashboard shows of a job is what its metadata says, and the files it
\* names are there for as long as it is in the ring: save marshals the job only
\* when every step that writes into it is over (sink.go, "before writing the JSON
\* metadata so j.Forwards is captured").
MetadataAgrees ==
    \A j \in Range(jobs) :
        /\ \A m \in meta : m.id = j.id => m = j
        /\ j.savedAs => <<j.id, "spool">> \in files
        /\ j.decodedAs => <<j.id, "decoded">> \in files

\* After apiJobDelete nothing of the job is left or comes back, neither in the
\* ring nor on disk, unless a file operation on it failed: a job is in the ring
\* only when the last of its files is written.
DeletedIsGone ==
    \A id \in removed :
        /\ \A j \in Range(jobs) : j.id # id
        /\ id \notin damaged \cup {j.id : j \in deleting} =>
              /\ \A f \in files : f[1] # id
              /\ \A m \in meta : m.id # id

\* The documents of c that were captured.
Kept(c) == {j.doc : j \in {j \in Range(added) : j.conn = c}}

\* Whatever happens to files and forwarding, what a client sent is captured when
\* its handler is done, and captured once: all of it over raw and IPP, where only
\* a blocked job stops the ones behind it; over LPD the last data file of a
\* connection that ends between two files.
ReceivedIsKept ==
    /\ \A c \in Conns : pc[c] = "closed" =>
          /\ proto[c] # "LPR" => \A d \in 1..sent[c] :
                d \in Kept(c) \/ \E b \in 1..(d - 1) : <<c, b>> \in blocked
          /\ proto[c] = "LPR" /\ sent[c] > 0 /\ c \notin cut => Kept(c) = {sent[c]}
    /\ \A i, k \in DOMAIN added :
          added[i].conn = added[k].conn /\ added[i].doc = added[k].doc => i = k

\* An IPP client with a document is told success only if the document was
\* captured and no "block" target refused it, and an error only if one did.
IppToldTheTruth ==
    \A c \in Conns : proto[c] = "IPP" /\ pc[c] = "closed" /\ sent[c] = 1 =>
        /\ told[c] = "ok" <=> <<c, 1>> \notin blocked
        /\ 1 \in Kept(c)

\* "block - propagate the failure back to the inbound client (the print fails
\* upstream)" (ADMIN_GUIDE.md): a client whose job was blocked has not been told
\* that it was accepted.
BlockedIsReported ==
    \A c \in Conns : pc[c] = "closed" /\ told[c] = "ok" =>
        \A d \in 1..MaxDocs : <<c, d>> \notin blocked
=============================================================================
