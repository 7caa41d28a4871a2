-------------------------- MODULE Reception_proofs --------------------------
(***************************************************************************)
(* Proofs about Reception, for every set of connections, every size of the *)
(* ring and every bound.                                                   *)
(***************************************************************************)
EXTENDS Reception, SequenceTheorems, TLAPS

\* The handler of c has given its job an ID; until "reply" it is not in the ring.
Saving(c) == pc[c] \in SavePC \ {"save"}
InSave(c) == pc[c] \in SavePC \ {"save", "reply"}

FileKinds == {"spool", "sent", "decoded", "json"}

\* Types, and what a handler in save holds.
ReceptionType ==
    /\ cfg \in Configs /\ proto \in [Conns -> Protocols]
    /\ seqNum \in Nat /\ faults \in Nat
    /\ pc \in [Conns -> {"idle", "sub", "closed"} \cup SavePC]
    /\ held \in [Conns -> Seq(1..MaxDocs)]
    /\ job \in [Conns -> Jobs \cup {NoJob}]
    /\ err \in [Conns -> BOOLEAN]
    /\ told \in [Conns -> {"nothing", "ok", "error"}]
    /\ files \subseteq Nat \X FileKinds
    /\ meta \subseteq Jobs
    /\ jobs \in Seq(Jobs) /\ added \in Seq(Jobs)
    /\ deleting \subseteq Jobs
    /\ removed \subseteq Nat /\ damaged \subseteq Nat
    /\ sent \in [Conns -> 0..MaxDocs]
    /\ cut \subseteq Conns
    /\ blocked \subseteq Conns \X (1..MaxDocs)

HandlerInv ==
    /\ \A c \in Conns : pc[c] \in SavePC => held[c] # <<>>
    /\ \A c \in Conns : Saving(c) =>
          job[c] \in Jobs /\ job[c].conn = c /\ job[c].doc = Head(held[c])

\* An ID belongs to one handler, and to one job of those that were added.
IdInv ==
    /\ \A c \in Conns : Saving(c) => job[c].id \in 1..seqNum
    /\ \A c, d \in Conns : Saving(c) /\ Saving(d) /\ job[c].id = job[d].id => c = d
    /\ \A a \in Range(added) : a.id \in 1..seqNum
    /\ \A a \in Range(added), c \in Conns : InSave(c) => a.id # job[c].id
    /\ \A a \in Range(added), c \in Conns : Saving(c) /\ a.id = job[c].id => a = job[c]
    /\ \A a, b \in Range(added) : a.id = b.id => a = b

\* The jobs of a sequence have IDs of their own.
DistinctIDs(s) == \A i, k \in DOMAIN s : s[i].id = s[k].id => i = k

\* The ring holds jobs that were added, each once, and none that was removed.
RingInv ==
    /\ Range(jobs) \subseteq Range(added)
    /\ deleting \subseteq Range(added)
    /\ \A id \in removed : \E j \in Range(added) : j.id = id
    /\ DistinctIDs(jobs)
    /\ \A j \in Range(jobs) : j.id \notin removed
    /\ \A j \in deleting : j.id \in removed

\* What the capture directory holds of a job.
DiskInv ==
    /\ \A f \in files : f[1] \in 1..seqNum
    /\ \A m \in meta : <<m.id, "json">> \in files
    /\ \A m \in meta, j \in Begun : m.id = j.id => m = j
    /\ \A m \in meta, c \in Conns :
          pc[c] \in {"spool", "forward", "decode", "meta"} => m.id # job[c].id
    /\ \A j \in Begun : j.id \notin removed =>
          /\ j.savedAs => <<j.id, "spool">> \in files
          /\ j.decodedAs => <<j.id, "decoded">> \in files
    /\ \A j \in Begun : j.id \notin damaged =>
          /\ <<j.id, "spool">> \in files => j.savedAs
          /\ <<j.id, "decoded">> \in files => j.decodedAs
    /\ \A f \in files : f[1] \in removed =>
          f[1] \in damaged \/ \E j \in deleting : j.id = f[1]

\* The documents of a connection: those captured come before the one at hand.
DocInv(c) ==
    /\ pc[c] \in {"idle", "sub"} => Kept(c) = {}
    /\ pc[c] \in SavePC \ {"reply"} => \A d \in Kept(c) : d < Head(held[c])
    /\ pc[c] = "reply" => Head(held[c]) \in Kept(c) /\ \A d \in Kept(c) : d <= Head(held[c])
    /\ pc[c] \in {"idle", "sub", "save", "spool", "forward"} => ~err[c]
    /\ err[c] /\ Saving(c) => <<c, job[c].doc>> \in blocked
OnceInv ==
    \A i, k \in DOMAIN added :
        added[i].conn = added[k].conn /\ added[i].doc = added[k].doc => i = k

\* A raw or IPP connection: the documents held are the last ones sent, and all
\* before them are captured.
StreamInv(c) ==
    proto[c] # "LPR" =>
        /\ pc[c] # "sub"
        /\ pc[c] = "idle" => sent[c] = 0 /\ held[c] = <<>>
        /\ pc[c] \in SavePC =>
              /\ \A i \in DOMAIN held[c] : held[c][i] = sent[c] - Len(held[c]) + i
              /\ \A d \in 1..(sent[c] - Len(held[c])) : d \in Kept(c)
        /\ pc[c] = "closed" =>
              \A d \in 1..sent[c] : d \in Kept(c) \/ \E b \in 1..(d - 1) : <<c, b>> \in blocked

\* An LPD connection that is not cut: its last data file is the one held.
LpdInv(c) ==
    proto[c] = "LPR" =>
        /\ pc[c] = "idle" => sent[c] = 0
        /\ pc[c] \in {"idle", "sub"} => c \notin cut
        /\ pc[c] \in {"idle", "sub"} \cup SavePC /\ c \notin cut =>
              held[c] = IF sent[c] = 0 THEN <<>> ELSE <<sent[c]>>
        /\ pc[c] \in SavePC =>  Len(held[c]) = 1
        /\ pc[c] \in SavePC \ {"reply"} => Kept(c) = {}
        /\ pc[c] = "reply" => Kept(c) = {Head(held[c])}
        /\ pc[c] = "closed" /\ sent[c] > 0 /\ c \notin cut => Kept(c) = {sent[c]}

\* An IPP request, and what became of its document.
IppInv(c) ==
    proto[c] = "IPP" =>
        /\ pc[c] = "idle" => sent[c] = 0
        /\ pc[c] \in SavePC => sent[c] = 1
        /\ pc[c] \in {"idle", "save", "spool", "forward"} => <<c, 1>> \notin blocked
        /\ pc[c] \in {"decode", "meta", "add", "reply"} => (err[c] <=> <<c, 1>> \in blocked)
        /\ pc[c] = "closed" /\ sent[c] = 1 => (told[c] = "ok" <=> <<c, 1>> \notin blocked)

ConnInv(c) == DocInv(c) /\ StreamInv(c) /\ LpdInv(c) /\ IppInv(c)

DocumentInv == OnceInv /\ \A c \in Conns : ConnInv(c)

-----------------------------------------------------------------------------
(* Sequences *)

\* A sequence without its i-th element (jobStore.remove).
LEMMA RemoveAtIs ==
    ASSUME NEW S, NEW s \in Seq(S), NEW i \in DOMAIN s
    PROVE  /\ RemoveAt(s, i) \in Seq(S)
           /\ Len(RemoveAt(s, i)) = Len(s) - 1
           /\ \A k \in 1..(Len(s) - 1) : RemoveAt(s, i)[k] = IF k < i THEN s[k] ELSE s[k + 1]
<1>1. i \in 1..Len(s) /\ Len(s) \in Nat /\ DOMAIN s = 1..Len(s)
  BY LenProperties
<1> DEFINE left == SubSeq(s, 1, i - 1)
           right == SubSeq(s, i + 1, Len(s))
<1>2. left \in Seq(S) /\ Len(left) = i - 1 /\ \A k \in 1..(i - 1) : left[k] = s[k]
  <2>1. \A k \in 1..(i - 1) : s[k] \in S
    BY <1>1, ElementOfSeq
  <2>2. 1 \in Int /\ i - 1 \in Int
    BY <1>1
  <2> HIDE DEF left
  <2>3. /\ left \in Seq(S)
        /\ Len(left) = IF 1 <= i - 1 THEN i - 1 - 1 + 1 ELSE 0
        /\ \A k \in 1 .. i - 1 - 1 + 1 : left[k] = s[1 + k - 1]
    BY <2>1, <2>2, SubSeqProperties DEF left
  <2>4. QED BY <1>1, <2>3
<1>3. right \in Seq(S) /\ Len(right) = Len(s) - i /\ \A k \in 1..(Len(s) - i) : right[k] = s[i + k]
  <2>1. \A k \in (i + 1)..Len(s) : s[k] \in S
    BY <1>1, ElementOfSeq
  <2>2. i + 1 \in Int /\ Len(s) \in Int
    BY <1>1
  <2> HIDE DEF right
  <2>3. /\ right \in Seq(S)
        /\ Len(right) = IF i + 1 <= Len(s) THEN Len(s) - (i + 1) + 1 ELSE 0
        /\ \A k \in 1 .. Len(s) - (i + 1) + 1 : right[k] = s[i + 1 + k - 1]
    BY <2>1, <2>2, SubSeqProperties DEF right
  <2>4. ASSUME NEW k \in 1..(Len(s) - i) PROVE right[k] = s[i + k]
    <3>1. k \in 1 .. Len(s) - (i + 1) + 1 /\ i + 1 + k - 1 = i + k
      BY <1>1
    <3>2. QED BY <2>3, <3>1
  <2>5. QED BY <1>1, <2>3, <2>4
<1> HIDE DEF left, right
<1>4. RemoveAt(s, i) = left \o right
  BY DEF RemoveAt, left, right
<1>5. /\ left \o right \in Seq(S)
      /\ Len(left \o right) = Len(left) + Len(right)
      /\ \A k \in 1..(Len(left) + Len(right)) :
           (left \o right)[k] = IF k <= Len(left) THEN left[k] ELSE right[k - Len(left)]
  BY <1>2, <1>3, ConcatProperties
<1>6. Len(RemoveAt(s, i)) = Len(s) - 1
  BY <1>1, <1>2, <1>3, <1>4, <1>5
<1>7. ASSUME NEW k \in 1..(Len(s) - 1)
      PROVE  RemoveAt(s, i)[k] = IF k < i THEN s[k] ELSE s[k + 1]
  <2>1. (left \o right)[k] = IF k <= i - 1 THEN left[k] ELSE right[k - (i - 1)]
    BY <1>1, <1>2, <1>3, <1>5
  <2>2. CASE k < i
    BY <1>1, <1>2, <1>4, <2>1, <2>2
  <2>3. CASE ~(k < i)
    <3>1. k - (i - 1) \in 1..(Len(s) - i) /\ i + (k - (i - 1)) = k + 1
      BY <1>1, <2>3
    <3>2. right[k - (i - 1)] = s[k + 1]
      BY <1>3, <3>1
    <3>3. QED BY <1>1, <1>4, <2>1, <2>3, <3>2
  <2>4. QED BY <2>2, <2>3
<1>8. QED BY <1>4, <1>5, <1>6, <1>7

\* The ring keeps the end of what it is given (jobStore.add).
LEMMA TrimIs ==
    ASSUME NEW S, NEW s \in Seq(S)
    PROVE  /\ Trim(s) \in Seq(S)
           /\ \E n \in Nat : /\ Len(Trim(s)) = Len(s) - n
                             /\ \A k \in 1..Len(Trim(s)) : Trim(s)[k] = s[k + n]
<1>1. Len(s) \in Nat /\ DOMAIN s = 1..Len(s)
  BY LenProperties
<1>2. CASE Len(s) > MaxJobs
  <2> DEFINE m == Len(s) - MaxJobs + 1
  <2>1. \A k \in m..Len(s) : s[k] \in S
    BY <1>1, <1>2, ReceptionAssumption, ElementOfSeq
  <2>2. m \in Int /\ Len(s) \in Int
    BY <1>1, ReceptionAssumption
  <2>3. Trim(s) = SubSeq(s, m, Len(s))
    BY <1>2 DEF Trim
  <2> HIDE DEF m
  <2>4. /\ Trim(s) \in Seq(S)
        /\ Len(Trim(s)) = IF m <= Len(s) THEN Len(s) - m + 1 ELSE 0
        /\ \A k \in 1 .. Len(s) - m + 1 : Trim(s)[k] = s[m + k - 1]
    BY <2>1, <2>2, <2>3, SubSeqProperties
  <2>5. m - 1 \in Nat /\ m <= Len(s)
    BY <1>1, <1>2, ReceptionAssumption DEF m
  <2>6. /\ Len(Trim(s)) = Len(s) - (m - 1)
        /\ \A k \in 1..Len(Trim(s)) : Trim(s)[k] = s[k + (m - 1)]
    BY <1>1, <2>2, <2>4, <2>5
  <2>7. QED BY <2>4, <2>5, <2>6
<1>3. CASE ~(Len(s) > MaxJobs)
  <2>1. Trim(s) = s
    BY <1>3 DEF Trim
  <2>2. Len(s) = Len(s) - 0 /\ \A k \in 1..Len(s) : s[k] = s[k + 0]
    BY <1>1
  <2>3. QED BY <2>1, <2>2
<1>4. QED BY <1>2, <1>3

\* What appending does to the elements of a sequence.
LEMMA RangeAppend ==
    ASSUME NEW S, NEW s \in Seq(S), NEW e \in S
    PROVE  /\ Append(s, e) \in Seq(S)
           /\ Range(Append(s, e)) = Range(s) \cup {e}
<1>1. /\ Append(s, e) \in Seq(S)
      /\ Len(Append(s, e)) = Len(s) + 1
      /\ \A i \in 1..Len(s) : Append(s, e)[i] = s[i]
      /\ Append(s, e)[Len(s) + 1] = e
  BY AppendProperties
<1>2. Len(s) \in Nat /\ DOMAIN s = 1..Len(s) /\ DOMAIN Append(s, e) = 1..(Len(s) + 1)
  BY <1>1, LenProperties
<1>3. QED BY <1>1, <1>2 DEF Range

\* The first of the documents 1..n, and those behind it.
LEMMA Documents ==
    ASSUME NEW n \in 0..MaxDocs
    PROVE  /\ [i \in 1..n |-> i] \in Seq(1..MaxDocs)
           /\ Len([i \in 1..n |-> i]) = n
           /\ [i \in 1..n |-> i] = <<>> => n = 0
BY ReceptionAssumption

-----------------------------------------------------------------------------
(* The steps *)

FileStep(c) == WriteSpool(c) \/ Forward(c) \/ Decode(c) \/ WriteMeta(c)

BaseInv == ReceptionType /\ HandlerInv

\* What all file steps have in common: the job keeps its identity, and only files
\* of its own come.
LEMMA FileStepIs ==
    ASSUME BaseInv, NEW c \in Conns, FileStep(c)
    PROVE  /\ pc[c] \in {"spool", "forward", "decode", "meta"}
           /\ pc' = [pc EXCEPT ![c] = After[pc[c]]]
           /\ \E j \in Jobs : /\ job' = [job EXCEPT ![c] = j]
                              /\ j.id = job[c].id /\ j.conn = job[c].conn /\ j.doc = job[c].doc
           /\ \E kind \in FileKinds : files' \in {files, files \cup {<<job[c].id, kind>>}}
           /\ damaged' \in {damaged, damaged \cup {job[c].id}}
           /\ faults' \in {faults, faults + 1}
           /\ meta' \in {meta, meta \cup {job[c]}}
           /\ \E e \in BOOLEAN : err' = [err EXCEPT ![c] = e]
           /\ blocked' \in {blocked, blocked \cup {<<c, job[c].doc>>}}
           /\ UNCHANGED <<setup, seqNum, held, told, sent, cut, ring>>
<1>0. pc[c] \in {"spool", "forward", "decode", "meta"} /\ pc' = [pc EXCEPT ![c] = After[pc[c]]]
  BY DEF FileStep, WriteSpool, Forward, Decode, WriteMeta, At, Goto
<1>1. job[c] \in Jobs /\ job \in [Conns -> Jobs \cup {NoJob}] /\ err \in [Conns -> BOOLEAN]
  BY <1>0 DEF BaseInv, ReceptionType, HandlerInv, Saving, SavePC
<1>2. job = [job EXCEPT ![c] = job[c]] /\ err = [err EXCEPT ![c] = err[c]] /\ err[c] \in BOOLEAN
  BY <1>1
<1>3. ASSUME NEW kind \in FileKinds, Write(c, kind) \/ WriteFails(c, kind)
      PROVE  /\ files' \in {files, files \cup {<<job[c].id, kind>>}}
             /\ damaged' \in {damaged, damaged \cup {job[c].id}}
             /\ faults' \in {faults, faults + 1}
  BY <1>3 DEF Write, WriteFails, Fault
<1>4. CASE WriteSpool(c)
  <2>1. \E j \in Jobs : /\ job' = [job EXCEPT ![c] = j]
                        /\ j.id = job[c].id /\ j.conn = job[c].conn /\ j.doc = job[c].doc
    <3>1. CASE UNCHANGED job
      BY <1>1, <1>2, <3>1
    <3>2. CASE job' = [job EXCEPT ![c].savedAs = TRUE]
      <4>1. [job[c] EXCEPT !.savedAs = TRUE] \in Jobs
        BY <1>1 DEF Jobs
      <4>2. job' = [job EXCEPT ![c] = [job[c] EXCEPT !.savedAs = TRUE]]
        BY <3>2
      <4>3. QED BY <1>1, <4>1, <4>2 DEF Jobs
    <3>3. QED BY <1>4, <3>1, <3>2 DEF WriteSpool
  <2>2. QED BY <1>0, <1>2, <1>3, <1>4, <2>1 DEF WriteSpool, FileKinds
<1>5. CASE Forward(c)
  <2>1. \E j \in Jobs : /\ job' = [job EXCEPT ![c] = j]
                        /\ j.id = job[c].id /\ j.conn = job[c].conn /\ j.doc = job[c].doc
    <3>1. CASE UNCHANGED job
      BY <1>1, <1>2, <3>1
    <3>2. ASSUME NEW outcome \in Outcomes, job' = [job EXCEPT ![c].forwards = outcome]
          PROVE  <2>1
      <4>1. [job[c] EXCEPT !.forwards = outcome] \in Jobs
        BY <1>1 DEF Jobs, Outcomes
      <4>2. job' = [job EXCEPT ![c] = [job[c] EXCEPT !.forwards = outcome]]
        BY <3>2
      <4>3. QED BY <1>1, <4>1, <4>2 DEF Jobs
    <3>3. QED BY <1>5, <3>1, <3>2 DEF Forward
  <2>2. \E e \in BOOLEAN : err' = [err EXCEPT ![c] = e]
    BY <1>2, <1>5 DEF Forward
  <2>3. blocked' \in {blocked, blocked \cup {<<c, job[c].doc>>}}
    BY <1>5 DEF Forward
  <2>4. \E kind \in FileKinds : /\ files' \in {files, files \cup {<<job[c].id, kind>>}}
                                /\ damaged' \in {damaged, damaged \cup {job[c].id}}
                                /\ faults' \in {faults, faults + 1}
    BY <1>3, <1>5 DEF Forward, FileKinds
  <2>5. UNCHANGED <<setup, seqNum, held, told, sent, cut, meta, ring>>
    BY <1>5 DEF Forward
  <2>6. QED BY <1>0, <2>1, <2>2, <2>3, <2>4, <2>5
<1>6. CASE Decode(c)
  <2>1. \E j \in Jobs : /\ job' = [job EXCEPT ![c] = j]
                        /\ j.id = job[c].id /\ j.conn = job[c].conn /\ j.doc = job[c].doc
    <3>1. CASE UNCHANGED job
      BY <1>1, <1>2, <3>1
    <3>2. CASE job' = [job EXCEPT ![c].decodedAs = TRUE]
      <4>1. [job[c] EXCEPT !.decodedAs = TRUE] \in Jobs
        BY <1>1 DEF Jobs
      <4>2. job' = [job EXCEPT ![c] = [job[c] EXCEPT !.decodedAs = TRUE]]
        BY <3>2
      <4>3. QED BY <1>1, <4>1, <4>2 DEF Jobs
    <3>3. QED BY <1>6, <3>1, <3>2 DEF Decode
  <2>2. QED BY <1>0, <1>2, <1>3, <1>6, <2>1 DEF Decode, FileKinds
<1>7. CASE WriteMeta(c)
  BY <1>0, <1>1, <1>2, <1>3, <1>7 DEF WriteMeta, FileKinds, disk
<1>8. QED BY <1>4, <1>5, <1>6, <1>7 DEF FileStep

\* A case for each kind of step.
LEMMA StepCases ==
    ASSUME [Next]_vars
    PROVE  \/ \E c \in Conns : Listen(c)
           \/ \E c \in Conns : BeginSave(c)
           \/ \E c \in Conns : FileStep(c)
           \/ \E c \in Conns : Add(c)
           \/ \E c \in Conns : Reply(c)
           \/ \E i \in DOMAIN jobs : Delete(i)
           \/ \E j \in deleting : RemoveFiles(j)
           \/ UNCHANGED vars
BY DEF Next, Save, FileStep

\* What the listeners have in common: they do not touch a job that is being saved.
LEMMA ListenIs ==
    ASSUME BaseInv, NEW c \in Conns, Listen(c)
    PROVE  /\ pc[c] \in {"idle", "sub"}
           /\ \E label \in {"sub", "save", "closed"} : pc' = [pc EXCEPT ![c] = label]
           /\ pc'[c] = "save" => held'[c] # <<>>
           /\ \E docs \in Seq(1..MaxDocs) : held' = [held EXCEPT ![c] = docs]
           /\ \E n \in 0..MaxDocs : sent' = [sent EXCEPT ![c] = n]
           /\ \E answer \in {"nothing", "ok", "error"} : told' = [told EXCEPT ![c] = answer]
           /\ cut' \in {cut, cut \cup {c}}
           /\ UNCHANGED <<setup, seqNum, job, err, blocked, disk, ring>>
<1>1. /\ held \in [Conns -> Seq(1..MaxDocs)] /\ sent \in [Conns -> 0..MaxDocs]
      /\ told \in [Conns -> {"nothing", "ok", "error"}]
      /\ pc \in [Conns -> {"idle", "sub", "closed"} \cup SavePC]
  BY DEF BaseInv, ReceptionType
<1>2. /\ held = [held EXCEPT ![c] = held[c]] /\ sent = [sent EXCEPT ![c] = sent[c]]
      /\ told = [told EXCEPT ![c] = told[c]]
  BY <1>1
<1>3. held[c] \in Seq(1..MaxDocs) /\ sent[c] \in 0..MaxDocs /\ told[c] \in {"nothing", "ok", "error"}
  BY <1>1
<1>4. \A d \in 1..MaxDocs : <<d>> \in Seq(1..MaxDocs) /\ <<d>> # <<>>
  OBVIOUS
<1>5. << >> \in Seq(1..MaxDocs) /\ 1 \in 1..MaxDocs /\ 1 \in 0..MaxDocs
  BY ReceptionAssumption
<1>6. ASSUME NEW docs \in Seq(1..MaxDocs), SaveAll(c, docs)
      PROVE  /\ held' = [held EXCEPT ![c] = docs]
             /\ \E label \in {"sub", "save", "closed"} : pc' = [pc EXCEPT ![c] = label]
             /\ pc'[c] = "save" => held'[c] # <<>>
  BY <1>1, <1>6 DEF SaveAll, Hold, Goto
<1>7. CASE Raw(c)
  <2>1. PICK n \in 0..MaxDocs : sent' = [sent EXCEPT ![c] = n] /\ SaveAll(c, [i \in 1..n |-> i])
    BY <1>7 DEF Raw
  <2>2. [i \in 1..n |-> i] \in Seq(1..MaxDocs)
    BY Documents
  <2>3. QED BY <1>2, <1>3, <1>6, <1>7, <2>1, <2>2 DEF Raw
<1>8. CASE Ipp(c)
  <2>1. CASE \E answer \in {"ok", "error"} : Tell(c, answer) /\ Goto(c, "closed") /\ UNCHANGED <<held, sent>>
    BY <1>1, <1>2, <1>3, <1>8, <2>1 DEF Ipp, Tell, Goto
  <2>2. CASE sent' = [sent EXCEPT ![c] = 1] /\ SaveAll(c, <<1>>) /\ UNCHANGED told
    BY <1>2, <1>3, <1>4, <1>5, <1>6, <1>8, <2>2 DEF Ipp
  <2>3. QED BY <1>8, <2>1, <2>2 DEF Ipp
<1>9. CASE Lpd(c)
  BY <1>1, <1>2, <1>3, <1>9 DEF Lpd, Goto
<1>10. CASE LpdData(c)
  <2>1. sent[c] + 1 \in 1..MaxDocs /\ sent' = [sent EXCEPT ![c] = sent[c] + 1] /\ sent'[c] = sent[c] + 1
    BY <1>1, <1>3, <1>10, ReceptionAssumption DEF LpdData
  <2>2. held' = [held EXCEPT ![c] = <<sent[c] + 1>>] /\ held'[c] # <<>>
    BY <1>1, <1>10, <2>1 DEF LpdData, Hold
  <2>3. <<sent[c] + 1>> \in Seq(1..MaxDocs) /\ sent[c] + 1 \in 0..MaxDocs
    BY <1>4, <2>1
  <2>4. QED BY <1>1, <1>10, <2>1, <2>2, <2>3 DEF LpdData, Tell, Goto
<1>11. CASE LpdClose(c)
  BY <1>2, <1>3, <1>6, <1>11 DEF LpdClose
<1>12. CASE LpdLost(c)
  <2>1. sent[c] + 1 \in 1..MaxDocs
    BY <1>3, <1>12, ReceptionAssumption DEF LpdLost
  <2>2. PICK part \in {<<>>, <<sent[c] + 1>>} : SaveAll(c, part)
    BY <1>12 DEF LpdLost
  <2>3. part \in Seq(1..MaxDocs)
    BY <1>4, <1>5, <2>1
  <2>4. QED BY <1>2, <1>3, <1>6, <1>12, <2>2, <2>3 DEF LpdLost
<1>13. CASE LpdUnknown(c)
  BY <1>2, <1>3, <1>5, <1>6, <1>13 DEF LpdUnknown
<1>14. QED BY <1>7, <1>8, <1>9, <1>10, <1>11, <1>12, <1>13 DEF Listen

\* The reply ends the save; only a raw connection may hold a document still.
LEMMA ReplyIs ==
    ASSUME BaseInv, NEW c \in Conns, Reply(c)
    PROVE  /\ pc[c] = "reply"
           /\ \E docs \in {<<>>, Tail(held[c])} :
                 /\ docs \in Seq(1..MaxDocs)
                 /\ held' = [held EXCEPT ![c] = docs]
                 /\ pc' = [pc EXCEPT ![c] = IF docs = <<>> THEN "closed" ELSE "save"]
                 /\ proto[c] # "9100" => docs = <<>>
                 /\ proto[c] = "9100" => docs = IF err[c] THEN <<>> ELSE Tail(held[c])
           /\ \E answer \in {"nothing", "ok", "error"} :
                 /\ told' = [told EXCEPT ![c] = answer]
                 /\ proto[c] = "IPP" => answer = IF err[c] THEN "error" ELSE "ok"
           /\ job' = [job EXCEPT ![c] = NoJob]
           /\ err' = [err EXCEPT ![c] = FALSE]
           /\ UNCHANGED <<setup, seqNum, sent, cut, blocked, disk, ring>>
<1>1. /\ held \in [Conns -> Seq(1..MaxDocs)]
      /\ told \in [Conns -> {"nothing", "ok", "error"}]
      /\ pc[c] = "reply" /\ held[c] # <<>>
  BY DEF BaseInv, ReceptionType, HandlerInv, Reply, SavePC
<1>2. told = [told EXCEPT ![c] = told[c]] /\ told[c] \in {"nothing", "ok", "error"}
  BY <1>1
<1>3. Tail(held[c]) \in Seq(1..MaxDocs) /\ << >> \in Seq(1..MaxDocs)
  BY <1>1, HeadTailProperties
<1>4. CASE RawReply(c)
  BY <1>1, <1>2, <1>3, <1>4 DEF Reply, RawReply, SaveAll, Hold, Goto
<1>5. CASE LpdReply(c)
  BY <1>1, <1>2, <1>3, <1>5 DEF Reply, LpdReply, SaveAll, Hold, Goto
<1>6. CASE IppReply(c)
  BY <1>1, <1>2, <1>3, <1>6 DEF Reply, IppReply, SaveAll, Hold, Goto, Tell
<1>7. QED BY <1>4, <1>5, <1>6 DEF Reply

-----------------------------------------------------------------------------
(* Types *)

LEMMA BaseInit == Init => BaseInv
<1> SUFFICES ASSUME Init PROVE BaseInv
  OBVIOUS
<1>1. ReceptionType
  BY ReceptionAssumption DEF Init, ReceptionType
<1>2. HandlerInv
  BY DEF Init, HandlerInv, Saving, SavePC
<1>3. QED BY <1>1, <1>2 DEF BaseInv

LEMMA BaseStep == BaseInv /\ [Next]_vars => BaseInv'
<1> SUFFICES ASSUME BaseInv, [Next]_vars PROVE BaseInv'
  OBVIOUS
<1>0. ReceptionType /\ HandlerInv
  BY DEF BaseInv
<1> USE <1>0
<1>1. ASSUME NEW c \in Conns, Listen(c) PROVE BaseInv'
  <2>1. PICK label \in {"sub", "save", "closed"} : pc' = [pc EXCEPT ![c] = label]
    BY <1>1, ListenIs
  <2>2. PICK docs \in Seq(1..MaxDocs) : held' = [held EXCEPT ![c] = docs]
    BY <1>1, ListenIs
  <2>3. PICK n \in 0..MaxDocs : sent' = [sent EXCEPT ![c] = n]
    BY <1>1, ListenIs
  <2>4. PICK answer \in {"nothing", "ok", "error"} : told' = [told EXCEPT ![c] = answer]
    BY <1>1, ListenIs
  <2>5. /\ pc[c] \in {"idle", "sub"} /\ (pc'[c] = "save" => held'[c] # <<>>)
        /\ cut' \in {cut, cut \cup {c}}
        /\ UNCHANGED <<setup, seqNum, job, err, blocked, disk, ring>>
    BY <1>1, ListenIs
  <2>6. ReceptionType'
    BY <2>1, <2>2, <2>3, <2>4, <2>5 DEF ReceptionType, setup, disk, ring, SavePC
  <2>7. HandlerInv'
    BY <2>1, <2>2, <2>5 DEF ReceptionType, HandlerInv, Saving, SavePC
  <2>8. QED BY <2>6, <2>7 DEF BaseInv
<1>2. ASSUME NEW c \in Conns, BeginSave(c) PROVE BaseInv'
  <2>1. /\ pc[c] = "save" /\ held[c] # <<>> /\ held[c] \in Seq(1..MaxDocs) /\ seqNum \in Nat
        /\ seqNum' = seqNum + 1 /\ UNCHANGED held /\ pc' = [pc EXCEPT ![c] = "spool"]
    BY <1>2 DEF BeginSave, HandlerInv, ReceptionType, SavePC, nextSeq, Goto
  <2>2. Head(held[c]) \in 1..MaxDocs
    BY <2>1, HeadTailProperties
  <2> DEFINE j == [id |-> seqNum + 1, conn |-> c, doc |-> Head(held[c]),
                   savedAs |-> FALSE, decodedAs |-> FALSE, forwards |-> "none"]
  <2>3. j \in Jobs /\ j.conn = c /\ j.doc = Head(held[c])
    BY <2>1, <2>2 DEF Jobs
  <2>4. job' = [job EXCEPT ![c] = j]
    BY <1>2, <2>1 DEF BeginSave
  <2> HIDE DEF j
  <2>5. ReceptionType'
    <3>1. job' \in [Conns -> Jobs \cup {NoJob}]
      BY <2>3, <2>4 DEF ReceptionType
    <3>2. err' \in [Conns -> BOOLEAN]
      BY <1>2 DEF BeginSave, ReceptionType
    <3>3. pc' \in [Conns -> {"idle", "sub", "closed"} \cup SavePC] /\ seqNum' \in Nat
      BY <2>1 DEF ReceptionType, SavePC
    <3>4. UNCHANGED <<setup, held, told, sent, cut, blocked, disk, ring>>
      BY <1>2 DEF BeginSave
    <3>5. QED BY <3>1, <3>2, <3>3, <3>4 DEF ReceptionType, setup, disk, ring
  <2>6. HandlerInv'
    BY <2>1, <2>3, <2>4 DEF ReceptionType, HandlerInv, Saving, SavePC
  <2>7. QED BY <2>5, <2>6 DEF BaseInv
<1>3. ASSUME NEW c \in Conns, FileStep(c) PROVE BaseInv'
  <2>1. PICK j \in Jobs : /\ job' = [job EXCEPT ![c] = j]
                          /\ j.id = job[c].id /\ j.conn = job[c].conn /\ j.doc = job[c].doc
    BY <1>3, FileStepIs
  <2>2. PICK kind \in FileKinds : files' \in {files, files \cup {<<job[c].id, kind>>}}
    BY <1>3, FileStepIs
  <2>3. PICK e \in BOOLEAN : err' = [err EXCEPT ![c] = e]
    BY <1>3, FileStepIs
  <2>4. /\ pc[c] \in {"spool", "forward", "decode", "meta"}
        /\ pc' = [pc EXCEPT ![c] = After[pc[c]]] /\ After[pc[c]] \in SavePC \ {"save"}
        /\ held' = held
    BY <1>3, FileStepIs DEF After, SavePC
  <2>5. job[c] \in Jobs /\ job[c].id \in Nat /\ job[c].doc \in 1..MaxDocs
    BY <2>4 DEF HandlerInv, Saving, SavePC, Jobs
  <2>6. ReceptionType'
    <3>1. pc' \in [Conns -> {"idle", "sub", "closed"} \cup SavePC]
      BY <2>4 DEF ReceptionType
    <3>2. job' \in [Conns -> Jobs \cup {NoJob}] /\ err' \in [Conns -> BOOLEAN]
      BY <2>1, <2>3 DEF ReceptionType
    <3>3. files' \subseteq Nat \X FileKinds
      BY <2>2, <2>5 DEF ReceptionType
    <3>4. /\ meta' \in {meta, meta \cup {job[c]}}
          /\ damaged' \in {damaged, damaged \cup {job[c].id}}
          /\ blocked' \in {blocked, blocked \cup {<<c, job[c].doc>>}}
          /\ faults' \in {faults, faults + 1}
          /\ UNCHANGED <<setup, seqNum, held, told, sent, cut, ring>>
      BY <1>3, FileStepIs
    <3>5. /\ meta' \subseteq Jobs /\ damaged' \subseteq Nat /\ faults' \in Nat
          /\ blocked' \subseteq Conns \X (1..MaxDocs)
          /\ UNCHANGED <<cfg, proto, seqNum, held, told, sent, cut, jobs, deleting, added, removed>>
      BY <2>5, <3>4 DEF ReceptionType, setup, ring
    <3>6. QED BY <3>1, <3>2, <3>3, <3>5 DEF ReceptionType
  <2>7. HandlerInv'
    BY <2>1, <2>4 DEF ReceptionType, HandlerInv, Saving, SavePC
  <2>8. QED BY <2>6, <2>7 DEF BaseInv
<1>4. ASSUME NEW c \in Conns, Add(c) PROVE BaseInv'
  <2>1. /\ pc[c] = "add" /\ pc' = [pc EXCEPT ![c] = "reply"] /\ job[c] \in Jobs
        /\ UNCHANGED <<cfg, proto, seqNum, held, job, err, told, sent, cut, blocked,
                       files, meta, damaged, faults, deleting, removed>>
    BY <1>4 DEF Add, At, Goto, After, HandlerInv, Saving, SavePC, setup, disk
  <2>2. added' \in Seq(Jobs) /\ Append(jobs, job[c]) \in Seq(Jobs)
    BY <1>4, <2>1, RangeAppend DEF Add, ReceptionType
  <2>3. jobs' \in Seq(Jobs)
    BY <1>4, <2>2, TrimIs DEF Add
  <2>4. ReceptionType'
    BY <2>1, <2>2, <2>3 DEF ReceptionType, SavePC
  <2>5. HandlerInv'
    BY <2>1 DEF ReceptionType, HandlerInv, Saving, SavePC
  <2>6. QED BY <2>4, <2>5 DEF BaseInv
<1>5. ASSUME NEW c \in Conns, Reply(c) PROVE BaseInv'
  <2>1. PICK docs \in Seq(1..MaxDocs) :
           /\ held' = [held EXCEPT ![c] = docs]
           /\ pc' = [pc EXCEPT ![c] = IF docs = <<>> THEN "closed" ELSE "save"]
    BY <1>5, ReplyIs
  <2>2. PICK answer \in {"nothing", "ok", "error"} : told' = [told EXCEPT ![c] = answer]
    BY <1>5, ReplyIs
  <2>3. /\ job' = [job EXCEPT ![c] = NoJob] /\ err' = [err EXCEPT ![c] = FALSE]
        /\ UNCHANGED <<setup, seqNum, sent, cut, blocked, disk, ring>>
    BY <1>5, ReplyIs
  <2>4. ReceptionType'
    BY <2>1, <2>2, <2>3 DEF ReceptionType, setup, disk, ring, SavePC
  <2>5. HandlerInv'
    BY <2>1, <2>3 DEF ReceptionType, HandlerInv, Saving, SavePC
  <2>6. QED BY <2>4, <2>5 DEF BaseInv
<1>6. ASSUME NEW i \in DOMAIN jobs, Delete(i) PROVE BaseInv'
  <2>1. jobs' \in Seq(Jobs)
    BY <1>6, RemoveAtIs DEF ReceptionType, Delete
  <2>2. jobs \in Seq(Jobs) /\ i \in 1..Len(jobs)
    BY LenProperties DEF ReceptionType
  <2>3. jobs[i] \in Jobs
    BY <2>2, ElementOfSeq
  <2>4. jobs[i].id \in Nat
    BY <2>3 DEF Jobs
  <2>5. ReceptionType'
    BY <1>6, <2>1, <2>3, <2>4 DEF ReceptionType, Delete, setup, handlers, disk
  <2>6. HandlerInv'
    BY <1>6 DEF HandlerInv, Saving, Delete, setup, handlers, disk
  <2>7. QED BY <2>5, <2>6 DEF BaseInv
<1>7. ASSUME NEW j \in deleting, RemoveFiles(j) PROVE BaseInv'
  <2>1. j \in Jobs /\ j.id \in Nat /\ meta' \subseteq meta
    BY <1>7 DEF ReceptionType, Jobs, RemoveFiles
  <2>2. files' \subseteq files /\ damaged' \subseteq damaged \cup {j.id} /\ faults' \in {faults, faults + 1}
    BY <1>7 DEF RemoveFiles, Fault
  <2>3. ReceptionType'
    BY <1>7, <2>1, <2>2 DEF ReceptionType, RemoveFiles, setup, handlers
  <2>4. HandlerInv'
    BY <1>7 DEF HandlerInv, Saving, RemoveFiles, setup, handlers
  <2>5. QED BY <2>3, <2>4 DEF BaseInv
<1>8. CASE UNCHANGED vars
  BY <1>8 DEF BaseInv, ReceptionType, HandlerInv, Saving, vars, setup, handlers, disk, ring
<1>9. QED BY <1>1, <1>2, <1>3, <1>4, <1>5, <1>6, <1>7, <1>8, StepCases

LEMMA BaseIsInvariant == Spec => []BaseInv
BY BaseInit, BaseStep, PTL DEF Spec

-----------------------------------------------------------------------------
(* IDs *)

\* The new job has the next ID.
LEMMA BeginSaveIs ==
    ASSUME BaseInv, NEW c \in Conns, BeginSave(c)
    PROVE  /\ pc[c] = "save" /\ pc' = [pc EXCEPT ![c] = "spool"]
           /\ seqNum \in Nat /\ seqNum' = seqNum + 1
           /\ \E j \in Jobs : /\ job' = [job EXCEPT ![c] = j]
                              /\ j.id = seqNum + 1 /\ j.conn = c /\ j.doc = Head(held[c])
                              /\ ~j.savedAs /\ ~j.decodedAs
           /\ err' = [err EXCEPT ![c] = FALSE]
           /\ UNCHANGED <<setup, held, told, sent, cut, blocked, disk, ring>>
<1>1. /\ pc[c] = "save" /\ held[c] # <<>> /\ held[c] \in Seq(1..MaxDocs) /\ seqNum \in Nat
      /\ seqNum' = seqNum + 1
  BY DEF BeginSave, BaseInv, HandlerInv, ReceptionType, SavePC, nextSeq
<1>2. Head(held[c]) \in 1..MaxDocs
  BY <1>1, HeadTailProperties
<1> DEFINE j == [id |-> seqNum + 1, conn |-> c, doc |-> Head(held[c]),
                 savedAs |-> FALSE, decodedAs |-> FALSE, forwards |-> "none"]
<1>3. /\ j \in Jobs /\ j.id = seqNum + 1 /\ j.conn = c /\ j.doc = Head(held[c])
  BY <1>1, <1>2 DEF Jobs
<1>4. ~j.savedAs /\ ~j.decodedAs
  OBVIOUS
<1>5. job' = [job EXCEPT ![c] = j]
  BY <1>1 DEF BeginSave
<1> HIDE DEF j
<1>6. QED BY <1>1, <1>3, <1>4, <1>5 DEF BeginSave, Goto

LEMMA DistinctRing ==
    ASSUME NEW s \in Seq(Jobs), NEW j \in Jobs, DistinctIDs(s), \A e \in Range(s) : e.id # j.id
    PROVE  /\ Range(Trim(Append(s, j))) \subseteq Range(s) \cup {j}
           /\ DistinctIDs(Trim(Append(s, j)))
<1> DEFINE t == Append(s, j)
           u == Trim(t)
<1>1. /\ t \in Seq(Jobs) /\ Len(t) = Len(s) + 1 /\ Len(s) \in Nat
      /\ \A i \in 1..Len(s) : t[i] = s[i]
      /\ t[Len(s) + 1] = j
      /\ DOMAIN s = 1..Len(s) /\ DOMAIN t = 1..(Len(s) + 1)
  BY AppendProperties, LenProperties
<1>2. Range(t) = Range(s) \cup {j}
  BY RangeAppend
<1>3. \A i \in 1..Len(s) : s[i].id # j.id
  BY <1>1 DEF Range
<1> HIDE DEF t
<1>4. DistinctIDs(t)
  BY <1>1, <1>3 DEF DistinctIDs
<1>5. u \in Seq(Jobs) /\ DOMAIN u = 1..Len(u) /\ Len(u) \in Nat
  BY <1>1, TrimIs, LenProperties
<1>6. PICK n \in Nat : Len(u) = Len(t) - n /\ \A k \in 1..Len(u) : u[k] = t[k + n]
  BY <1>1, TrimIs
<1> HIDE DEF u
<1>7. \A k \in DOMAIN u : k + n \in DOMAIN t /\ u[k] = t[k + n]
  BY <1>1, <1>5, <1>6
<1>8. Range(u) \subseteq Range(t)
  BY <1>7 DEF Range
<1>9. DistinctIDs(u)
  <2> SUFFICES ASSUME NEW i \in DOMAIN u, NEW k \in DOMAIN u, u[i].id = u[k].id PROVE i = k
    BY DEF DistinctIDs
  <2>1. i + n = k + n
    BY <1>4, <1>7 DEF DistinctIDs
  <2>2. QED BY <1>5, <1>6, <2>1
<1>10. QED BY <1>2, <1>8, <1>9 DEF u, t

LEMMA DistinctRemoveAt ==
    ASSUME NEW s \in Seq(Jobs), NEW i \in DOMAIN s, DistinctIDs(s)
    PROVE  /\ Range(RemoveAt(s, i)) \subseteq Range(s)
           /\ DistinctIDs(RemoveAt(s, i))
           /\ \A e \in Range(RemoveAt(s, i)) : e.id # s[i].id
<1> DEFINE t == RemoveAt(s, i)
           at(k) == IF k < i THEN k ELSE k + 1
<1>1. i \in 1..Len(s) /\ Len(s) \in Nat /\ DOMAIN s = 1..Len(s)
  BY LenProperties
<1>2. /\ t \in Seq(Jobs) /\ Len(t) = Len(s) - 1
      /\ \A k \in 1..(Len(s) - 1) : t[k] = IF k < i THEN s[k] ELSE s[k + 1]
  BY RemoveAtIs
<1>3. DOMAIN t = 1..(Len(s) - 1)
  BY <1>2, LenProperties
<1> HIDE DEF t
<1>4. \A k \in DOMAIN t : at(k) \in DOMAIN s /\ at(k) # i /\ t[k] = s[at(k)]
  BY <1>1, <1>2, <1>3
<1>5. \A k, l \in DOMAIN t : at(k) = at(l) => k = l
  BY <1>1, <1>3
<1> HIDE DEF at
<1>6. Range(t) \subseteq Range(s)
  BY <1>4 DEF Range
<1>7. DistinctIDs(t)
  BY <1>4, <1>5 DEF DistinctIDs
<1>8. \A e \in Range(t) : e.id # s[i].id
  BY <1>4 DEF DistinctIDs, Range
<1>9. QED BY <1>6, <1>7, <1>8 DEF t

\* The job enters the list of those added, and the ring.
LEMMA AddIs ==
    ASSUME BaseInv, IdInv, RingInv, NEW c \in Conns, Add(c)
    PROVE  /\ pc[c] = "add" /\ pc' = [pc EXCEPT ![c] = "reply"]
           /\ job[c] \in Jobs
           /\ added' = Append(added, job[c])
           /\ Range(added') = Range(added) \cup {job[c]}
           /\ Range(jobs') \subseteq Range(jobs) \cup {job[c]}
           /\ DistinctIDs(jobs')
           /\ job[c].id \notin removed
           /\ UNCHANGED <<setup, seqNum, held, job, err, told, sent, cut, blocked, disk,
                          deleting, removed>>
<1>1. /\ pc[c] = "add" /\ pc' = [pc EXCEPT ![c] = "reply"] /\ InSave(c) /\ job[c] \in Jobs
      /\ added \in Seq(Jobs) /\ jobs \in Seq(Jobs)
  BY DEF Add, At, Goto, After, BaseInv, ReceptionType, HandlerInv, Saving, InSave, SavePC
<1>2. added' = Append(added, job[c]) /\ Range(added') = Range(added) \cup {job[c]}
  BY <1>1, RangeAppend DEF Add
<1>3. \A a \in Range(added) : a.id # job[c].id
  BY <1>1 DEF IdInv
<1>4. DistinctIDs(jobs) /\ \A e \in Range(jobs) : e.id # job[c].id
  BY <1>3 DEF RingInv
<1>5. Range(jobs') \subseteq Range(jobs) \cup {job[c]} /\ DistinctIDs(jobs')
  BY <1>1, <1>4, DistinctRing DEF Add
<1>6. job[c].id \notin removed
  BY <1>3 DEF RingInv
<1>7. QED BY <1>1, <1>2, <1>5, <1>6 DEF Add

LEMMA IdStep ==
    ASSUME BaseInv, IdInv, RingInv, [Next]_vars
    PROVE  IdInv'
<1>0. pc \in [Conns -> {"idle", "sub", "closed"} \cup SavePC] /\ job \in [Conns -> Jobs \cup {NoJob}]
  BY DEF BaseInv, ReceptionType
<1>1. ASSUME NEW c \in Conns, Listen(c) PROVE IdInv'
  <2>1. PICK label \in {"sub", "save", "closed"} : pc' = [pc EXCEPT ![c] = label]
    BY <1>1, ListenIs
  <2>2. pc[c] \in {"idle", "sub"} /\ UNCHANGED <<seqNum, job, ring>>
    BY <1>1, ListenIs
  <2>3. \A d \in Conns : (Saving(d)' <=> Saving(d)) /\ (InSave(d)' <=> InSave(d))
    BY <1>0, <2>1, <2>2 DEF Saving, InSave, SavePC
  <2>4. QED BY <2>2, <2>3 DEF IdInv, ring
<1>2. ASSUME NEW c \in Conns, BeginSave(c) PROVE IdInv'
  <2>1. PICK j \in Jobs : /\ job' = [job EXCEPT ![c] = j]
                          /\ j.id = seqNum + 1 /\ j.conn = c /\ j.doc = Head(held[c])
    BY <1>2, BeginSaveIs
  <2>2. /\ pc[c] = "save" /\ pc' = [pc EXCEPT ![c] = "spool"]
        /\ seqNum \in Nat /\ seqNum' = seqNum + 1 /\ UNCHANGED ring
    BY <1>2, BeginSaveIs
  <2>3. /\ \A d \in Conns \ {c} : (Saving(d)' <=> Saving(d)) /\ (InSave(d)' <=> InSave(d))
        /\ \A d \in Conns \ {c} : job'[d] = job[d]
        /\ job'[c].id = seqNum + 1
        /\ \A d \in Conns : InSave(d) => Saving(d)
    BY <1>0, <2>1, <2>2 DEF Saving, InSave, SavePC
  <2>4. \A d \in Conns : Saving(d) => job[d].id \in 1..seqNum
    BY DEF IdInv
  <2>5. QED BY <2>2, <2>3, <2>4 DEF IdInv, ring
<1>3. ASSUME NEW c \in Conns, FileStep(c) PROVE IdInv'
  <2>1. PICK j \in Jobs : /\ job' = [job EXCEPT ![c] = j]
                          /\ j.id = job[c].id /\ j.conn = job[c].conn /\ j.doc = job[c].doc
    BY <1>3, FileStepIs
  <2>2. /\ pc[c] \in {"spool", "forward", "decode", "meta"}
        /\ pc' = [pc EXCEPT ![c] = After[pc[c]]] /\ UNCHANGED <<seqNum, ring>>
    BY <1>3, FileStepIs
  <2>3. /\ \A d \in Conns : (Saving(d)' <=> Saving(d)) /\ (InSave(d)' <=> InSave(d))
        /\ \A d \in Conns \ {c} : job'[d] = job[d]
        /\ job'[c].id = job[c].id /\ InSave(c)
    BY <1>0, <2>1, <2>2 DEF Saving, InSave, SavePC, After
  <2>4. \A d \in Conns : job'[d].id = job[d].id
    BY <2>3
  <2>5. QED BY <2>2, <2>3, <2>4 DEF IdInv, ring
<1>4. ASSUME NEW c \in Conns, Add(c) PROVE IdInv'
  <2>1. /\ pc[c] = "add" /\ pc' = [pc EXCEPT ![c] = "reply"]
        /\ Range(added') = Range(added) \cup {job[c]}
        /\ UNCHANGED <<seqNum, job>>
    BY <1>4, AddIs
  <2>2. /\ \A d \in Conns : Saving(d)' <=> Saving(d)
        /\ \A d \in Conns : InSave(d)' <=> InSave(d) /\ d # c
        /\ Saving(c) /\ InSave(c)
        /\ \A d \in Conns : InSave(d) => Saving(d)
    BY <1>0, <2>1 DEF Saving, InSave, SavePC
  <2>3. QED BY <2>1, <2>2 DEF IdInv
<1>5. ASSUME NEW c \in Conns, Reply(c) PROVE IdInv'
  <2>1. PICK docs \in Seq(1..MaxDocs) : pc' = [pc EXCEPT ![c] = IF docs = <<>> THEN "closed" ELSE "save"]
    BY <1>5, ReplyIs
  <2>2. job' = [job EXCEPT ![c] = NoJob] /\ UNCHANGED <<seqNum, ring>>
    BY <1>5, ReplyIs
  <2>3. /\ ~Saving(c)' /\ ~InSave(c)'
        /\ \A d \in Conns \ {c} : /\ (Saving(d)' <=> Saving(d)) /\ (InSave(d)' <=> InSave(d))
                                  /\ job'[d] = job[d]
    BY <1>0, <2>1, <2>2 DEF Saving, InSave, SavePC
  <2>4. QED BY <2>2, <2>3 DEF IdInv, ring
<1>6. ASSUME NEW i \in DOMAIN jobs, Delete(i) PROVE IdInv'
  BY <1>6 DEF Delete, IdInv, Saving, InSave, handlers
<1>7. ASSUME NEW j \in deleting, RemoveFiles(j) PROVE IdInv'
  BY <1>7 DEF RemoveFiles, IdInv, Saving, InSave, handlers
<1>8. CASE UNCHANGED vars
  BY <1>8 DEF vars, handlers, ring, IdInv, Saving, InSave
<1>9. QED BY <1>1, <1>2, <1>3, <1>4, <1>5, <1>6, <1>7, <1>8, StepCases

LEMMA RingStep ==
    ASSUME BaseInv, IdInv, RingInv, [Next]_vars
    PROVE  RingInv'
<1>1. ASSUME NEW c \in Conns, Add(c) PROVE RingInv'
  <2>1. /\ Range(added') = Range(added) \cup {job[c]}
        /\ Range(jobs') \subseteq Range(jobs) \cup {job[c]}
        /\ DistinctIDs(jobs')
        /\ job[c].id \notin removed
        /\ UNCHANGED <<deleting, removed>>
    BY <1>1, AddIs
  <2>2. DistinctIDs(jobs)'
    BY <2>1 DEF DistinctIDs
  <2>3. QED BY <2>1, <2>2 DEF RingInv
<1>2. ASSUME NEW i \in DOMAIN jobs, Delete(i) PROVE RingInv'
  <2>1. jobs \in Seq(Jobs) /\ DistinctIDs(jobs) /\ jobs[i] \in Range(jobs)
    BY DEF BaseInv, ReceptionType, RingInv, Range
  <2>2. /\ Range(jobs') \subseteq Range(jobs) /\ DistinctIDs(jobs')
        /\ \A e \in Range(jobs') : e.id # jobs[i].id
    BY <1>2, <2>1, DistinctRemoveAt DEF Delete
  <2>3. DistinctIDs(jobs)'
    BY <2>2 DEF DistinctIDs
  <2>4. QED BY <1>2, <2>1, <2>2, <2>3 DEF Delete, RingInv
<1>3. ASSUME NEW j \in deleting, RemoveFiles(j) PROVE RingInv'
  <2>1. deleting' \subseteq deleting /\ UNCHANGED <<jobs, added, removed>>
    BY <1>3 DEF RemoveFiles
  <2>2. QED BY <2>1 DEF RingInv, DistinctIDs
<1>4. CASE UNCHANGED ring
  BY <1>4 DEF RingInv, DistinctIDs, ring
<1>5. ASSUME NEW c \in Conns, Listen(c) \/ BeginSave(c) \/ FileStep(c) \/ Reply(c)
      PROVE  UNCHANGED ring
  BY <1>5, ListenIs, BeginSaveIs, FileStepIs, ReplyIs
<1>6. UNCHANGED vars => UNCHANGED ring
  BY DEF vars
<1>7. QED BY <1>1, <1>2, <1>3, <1>4, <1>5, <1>6, StepCases

JobInv == BaseInv /\ IdInv /\ RingInv

LEMMA JobInit == Init => JobInv
<1> SUFFICES ASSUME Init PROVE JobInv
  OBVIOUS
<1>1. BaseInv
  BY BaseInit
<1>2. Range(added) = {} /\ Range(jobs) = {} /\ DistinctIDs(jobs)
  BY DEF Init, Range, DistinctIDs
<1>3. \A c \in Conns : ~Saving(c) /\ ~InSave(c)
  BY DEF Init, Saving, InSave, SavePC
<1>4. IdInv
  BY <1>2, <1>3 DEF IdInv
<1>5. RingInv
  BY <1>2 DEF Init, RingInv
<1>6. QED BY <1>1, <1>4, <1>5 DEF JobInv

LEMMA JobStep == JobInv /\ [Next]_vars => JobInv'
BY BaseStep, IdStep, RingStep DEF JobInv

LEMMA JobInvariant == Spec => []JobInv
BY JobInit, JobStep, PTL DEF Spec

LEMMA BegunIs ==
    \A j : j \in Begun <=> j \in Range(added) \/ \E c \in Conns : Saving(c) /\ j = job[c]
BY DEF Begun, Saving

\* No two documents share an ID, by which files are named and jobs are found and
\* deleted, however their handlers interleave.
THEOREM IDsAreUnique == Spec => []UniqueIDs
<1>1. JobInv => UniqueIDs
  BY BegunIs DEF JobInv, IdInv, UniqueIDs
<1>2. QED BY <1>1, JobInvariant, PTL

-----------------------------------------------------------------------------
(* The capture directory *)

\* What a file step leaves on disk of its job.
LEMMA FileStepDisk ==
    ASSUME BaseInv, NEW c \in Conns, FileStep(c)
    PROVE  /\ files \subseteq files'
           /\ \A f \in files' : f \in files \/ f[1] = job[c].id
           /\ damaged \subseteq damaged'
           /\ damaged' \subseteq damaged \cup {job[c].id}
           /\ job'[c].savedAs => job[c].savedAs \/ <<job[c].id, "spool">> \in files'
           /\ job'[c].decodedAs => job[c].decodedAs \/ <<job[c].id, "decoded">> \in files'
           /\ job[c].savedAs => job'[c].savedAs
           /\ job[c].decodedAs => job'[c].decodedAs
           /\ job[c].id \notin damaged' =>
                 /\ <<job[c].id, "spool">> \in files' =>
                       <<job[c].id, "spool">> \in files \/ job'[c].savedAs
                 /\ <<job[c].id, "decoded">> \in files' =>
                       <<job[c].id, "decoded">> \in files \/ job'[c].decodedAs
           /\ \/ meta' = meta
              \/ /\ pc[c] = "meta" /\ job'[c] = job[c]
                 /\ meta' = meta \cup {job[c]} /\ <<job[c].id, "json">> \in files'
<1>1. job[c] \in Jobs /\ job \in [Conns -> Jobs \cup {NoJob}]
  <2>1. pc[c] \in {"spool", "forward", "decode", "meta"}
    BY FileStepIs
  <2>2. QED BY <2>1 DEF BaseInv, ReceptionType, HandlerInv, Saving, SavePC
<1>2. ASSUME NEW kind \in FileKinds, Write(c, kind)
      PROVE  files' = files \cup {<<job[c].id, kind>>} /\ damaged' = damaged
  BY <1>2 DEF Write
<1>3. ASSUME NEW kind \in FileKinds, WriteFails(c, kind)
      PROVE  /\ files' \in {files, files \cup {<<job[c].id, kind>>}}
             /\ damaged' = damaged \cup {job[c].id}
  BY <1>3 DEF WriteFails
<1>4. CASE WriteSpool(c)
  <2>1. CASE UNCHANGED <<job, files, damaged>>
    BY <1>4, <2>1 DEF WriteSpool
  <2>2. CASE Write(c, "spool") /\ job' = [job EXCEPT ![c].savedAs = TRUE]
    <3>1. job'[c] = [job[c] EXCEPT !.savedAs = TRUE]
      BY <1>1, <2>2
    <3>2. job'[c].savedAs /\ job'[c].decodedAs = job[c].decodedAs
      BY <1>1, <3>1 DEF Jobs
    <3>3. QED BY <1>2, <1>4, <2>2, <3>2 DEF WriteSpool, FileKinds
  <2>3. CASE WriteFails(c, "spool") /\ UNCHANGED job
    BY <1>3, <1>4, <2>3 DEF WriteSpool, FileKinds
  <2>4. QED BY <1>4, <2>1, <2>2, <2>3 DEF WriteSpool
<1>5. CASE Forward(c)
  <2>1. job'[c].savedAs = job[c].savedAs /\ job'[c].decodedAs = job[c].decodedAs
    <3>1. CASE UNCHANGED job
      BY <3>1
    <3>2. ASSUME NEW outcome \in Outcomes, job' = [job EXCEPT ![c].forwards = outcome]
          PROVE  <2>1
      <4>1. job'[c] = [job[c] EXCEPT !.forwards = outcome]
        BY <1>1, <3>2
      <4>2. QED BY <1>1, <4>1 DEF Jobs
    <3>3. QED BY <1>5, <3>1, <3>2 DEF Forward
  <2>2. CASE UNCHANGED <<files, damaged>>
    BY <1>5, <2>1, <2>2 DEF Forward
  <2>3. CASE Write(c, "sent")
    BY <1>2, <1>5, <2>1, <2>3 DEF Forward, FileKinds
  <2>4. CASE WriteFails(c, "sent")
    BY <1>3, <1>5, <2>1, <2>4 DEF Forward, FileKinds
  <2>5. QED BY <1>5, <2>2, <2>3, <2>4 DEF Forward
<1>6. CASE Decode(c)
  <2>1. CASE UNCHANGED <<job, files, damaged>>
    BY <1>6, <2>1 DEF Decode
  <2>2. CASE Write(c, "decoded") /\ job' = [job EXCEPT ![c].decodedAs = TRUE]
    <3>1. job'[c] = [job[c] EXCEPT !.decodedAs = TRUE]
      BY <1>1, <2>2
    <3>2. job'[c].decodedAs /\ job'[c].savedAs = job[c].savedAs
      BY <1>1, <3>1 DEF Jobs
    <3>3. QED BY <1>2, <1>6, <2>2, <3>2 DEF Decode, FileKinds
  <2>3. CASE WriteFails(c, "decoded") /\ UNCHANGED job
    BY <1>3, <1>6, <2>3 DEF Decode, FileKinds
  <2>4. QED BY <1>6, <2>1, <2>2, <2>3 DEF Decode
<1>7. CASE WriteMeta(c)
  <2>1. pc[c] = "meta" /\ UNCHANGED job
    BY <1>7 DEF WriteMeta, At
  <2>2. CASE UNCHANGED disk
    BY <2>1, <2>2 DEF disk
  <2>3. CASE Write(c, "json") /\ meta' = meta \cup {job[c]}
    BY <1>2, <2>1, <2>3 DEF FileKinds
  <2>4. CASE WriteFails(c, "json") /\ UNCHANGED meta
    BY <1>3, <2>1, <2>4 DEF FileKinds
  <2>5. QED BY <1>7, <2>2, <2>3, <2>4 DEF WriteMeta
<1>8. QED BY <1>4, <1>5, <1>6, <1>7 DEF FileStep

LEMMA DiskInit == Init => DiskInv
BY DEF Init, DiskInv, Begun, SavePC, Range

\* A file step of c.
LEMMA DiskFileStep ==
    ASSUME JobInv, DiskInv, NEW c \in Conns, FileStep(c)
    PROVE  DiskInv'
<1>0. BaseInv /\ IdInv /\ RingInv /\ pc \in [Conns -> {"idle", "sub", "closed"} \cup SavePC]
  BY DEF JobInv, BaseInv, ReceptionType
<1>1. /\ pc[c] \in {"spool", "forward", "decode", "meta"}
      /\ pc' = [pc EXCEPT ![c] = After[pc[c]]] /\ UNCHANGED <<seqNum, ring>>
  BY <1>0, FileStepIs
<1>2. PICK j \in Jobs : job' = [job EXCEPT ![c] = j] /\ j.id = job[c].id
  BY <1>0, FileStepIs
<1>3. /\ \A d \in Conns : Saving(d)' <=> Saving(d)
      /\ \A d \in Conns : d # c => job'[d] = job[d]
      /\ Saving(c) /\ InSave(c) /\ job'[c].id = job[c].id
  BY <1>0, <1>1, <1>2 DEF BaseInv, ReceptionType, Saving, InSave, SavePC, After
<1>4. /\ job[c].id \in 1..seqNum
      /\ \A d \in Conns : Saving(d) /\ d # c => job[d].id # job[c].id
      /\ \A a \in Range(added) : a.id # job[c].id
      /\ job[c].id \notin removed
  BY <1>0, <1>3 DEF IdInv, RingInv
<1>5. \A b : b \in Begun' => b = job'[c] \/ (b \in Begun /\ b.id # job[c].id)
  BY <1>1, <1>3, <1>4 DEF Begun, Saving, ring
<1>6. job[c] \in Begun
  BY <1>3, BegunIs
<1>7. /\ files \subseteq files'
      /\ \A f \in files' : f \in files \/ f[1] = job[c].id
      /\ damaged \subseteq damaged'
      /\ damaged' \subseteq damaged \cup {job[c].id}
      /\ \/ meta' = meta
         \/ /\ pc[c] = "meta" /\ job'[c] = job[c]
            /\ meta' = meta \cup {job[c]} /\ <<job[c].id, "json">> \in files'
  BY <1>0, FileStepDisk
<1>8. \A f \in files' : f[1] \in 1..seqNum'
  BY <1>1, <1>4, <1>7 DEF DiskInv
<1>9. \A m \in meta' : <<m.id, "json">> \in files'
  BY <1>7 DEF DiskInv
<1>10. \A m \in meta : m.id # job[c].id
  BY <1>1 DEF DiskInv
<1>11. \A m \in meta', b \in Begun' : m.id = b.id => m = b
  BY <1>3, <1>5, <1>7, <1>10 DEF DiskInv
<1>12. \A m \in meta', d \in Conns :
          pc'[d] \in {"spool", "forward", "decode", "meta"} => m.id # job'[d].id
  <2> SUFFICES ASSUME NEW m \in meta', NEW d \in Conns,
                      pc'[d] \in {"spool", "forward", "decode", "meta"}
               PROVE  m.id # job'[d].id
    OBVIOUS
  <2>1. CASE d = c
    <3>1. pc[c] # "meta"
      BY <1>0, <1>1, <2>1 DEF After
    <3>2. QED BY <1>3, <1>7, <1>10, <2>1, <3>1
  <2>2. CASE d # c
    <3>1. pc'[d] = pc[d] /\ Saving(d) /\ job'[d] = job[d]
      BY <1>0, <1>1, <1>3, <2>2 DEF Saving, SavePC
    <3>2. m \in meta => m.id # job[d].id
      BY <3>1 DEF DiskInv
    <3>3. QED BY <1>4, <1>7, <2>2, <3>1, <3>2
  <2>3. QED BY <2>1, <2>2
<1>13. \A b \in Begun' : b.id \notin removed' =>
          /\ b.savedAs => <<b.id, "spool">> \in files'
          /\ b.decodedAs => <<b.id, "decoded">> \in files'
  <2>1. /\ job[c].savedAs => <<job[c].id, "spool">> \in files
        /\ job[c].decodedAs => <<job[c].id, "decoded">> \in files
    BY <1>4, <1>6 DEF DiskInv
  <2>2. /\ job'[c].savedAs => job[c].savedAs \/ <<job[c].id, "spool">> \in files'
        /\ job'[c].decodedAs => job[c].decodedAs \/ <<job[c].id, "decoded">> \in files'
    BY <1>0, FileStepDisk
  <2>3. \A b \in Begun : b.id \notin removed =>
          /\ b.savedAs => <<b.id, "spool">> \in files
          /\ b.decodedAs => <<b.id, "decoded">> \in files
    BY DEF DiskInv
  <2>4. removed' = removed
    BY <1>1 DEF ring
  <2>5. QED BY <1>3, <1>5, <1>7, <2>1, <2>2, <2>3, <2>4
<1>14. \A b \in Begun' : b.id \notin damaged' =>
          /\ <<b.id, "spool">> \in files' => b.savedAs
          /\ <<b.id, "decoded">> \in files' => b.decodedAs
  <2>1. \A b \in Begun : b.id \notin damaged =>
          /\ <<b.id, "spool">> \in files => b.savedAs
          /\ <<b.id, "decoded">> \in files => b.decodedAs
    BY DEF DiskInv
  <2>2. /\ job[c].savedAs => job'[c].savedAs
        /\ job[c].decodedAs => job'[c].decodedAs
        /\ job[c].id \notin damaged' =>
              /\ <<job[c].id, "spool">> \in files' =>
                    <<job[c].id, "spool">> \in files \/ job'[c].savedAs
              /\ <<job[c].id, "decoded">> \in files' =>
                    <<job[c].id, "decoded">> \in files \/ job'[c].decodedAs
    BY <1>0, FileStepDisk
  <2>3. \A x, kind : <<x, kind>> \in files' => <<x, kind>> \in files \/ x = job[c].id
    BY <1>7
  <2>4. QED BY <1>3, <1>5, <1>6, <1>7, <2>1, <2>2, <2>3
<1>15. \A f \in files' : f[1] \in removed' =>
          f[1] \in damaged' \/ \E b \in deleting' : b.id = f[1]
  <2>1. removed' = removed /\ deleting' = deleting
    BY <1>1 DEF ring
  <2>2. QED BY <1>4, <1>7, <2>1 DEF DiskInv
<1>16. QED BY <1>8, <1>9, <1>11, <1>12, <1>13, <1>14, <1>15 DEF DiskInv

\* The second half of a deletion.
LEMMA DiskRemoveFiles ==
    ASSUME JobInv, DiskInv, NEW j \in deleting, RemoveFiles(j)
    PROVE  DiskInv'
<1>0. BaseInv /\ IdInv /\ RingInv
  BY DEF JobInv
<1>1. /\ j \in Range(added) /\ j \in Begun /\ j.id \in removed
      /\ files \subseteq Nat \X FileKinds
  BY <1>0, BegunIs DEF RingInv, BaseInv, ReceptionType
<1>2. /\ deleting' = deleting \ {j} /\ files' \subseteq files
      /\ \A f \in files : f \in files' \/ f \in FilesOf(j)
      /\ damaged \subseteq damaged'
      /\ files' = files \ FilesOf(j) \/ j.id \in damaged'
      /\ meta' = IF <<j.id, "json">> \in files' THEN meta ELSE {m \in meta : m.id # j.id}
      /\ UNCHANGED <<setup, seqNum, handlers, jobs, added, removed>>
  BY DEF RemoveFiles
<1>3. \A f \in FilesOf(j) : f[1] = j.id
  BY DEF FilesOf
<1>4. Begun' = Begun
  BY <1>2 DEF Begun, handlers
<1>5. \A f \in files' : f[1] \in 1..seqNum'
  BY <1>2 DEF DiskInv
<1>6. \A m \in meta' : <<m.id, "json">> \in files'
  <2> SUFFICES ASSUME NEW m \in meta' PROVE <<m.id, "json">> \in files'
    OBVIOUS
  <2>1. m \in meta /\ <<m.id, "json">> \in files
    BY <1>2 DEF DiskInv
  <2>2. CASE m.id = j.id
    BY <1>2, <2>2
  <2>3. CASE m.id # j.id
    <3>1. <<m.id, "json">> \notin FilesOf(j)
      BY <1>3, <2>3
    <3>2. QED BY <1>2, <2>1, <3>1
  <2>4. QED BY <2>2, <2>3
<1>7. \A m \in meta', b \in Begun' : m.id = b.id => m = b
  BY <1>2, <1>4 DEF DiskInv
<1>8. \A m \in meta', d \in Conns :
          pc'[d] \in {"spool", "forward", "decode", "meta"} => m.id # job'[d].id
  BY <1>2 DEF DiskInv, handlers
<1>9. \A b \in Begun' : b.id \notin removed' =>
          /\ b.savedAs => <<b.id, "spool">> \in files'
          /\ b.decodedAs => <<b.id, "decoded">> \in files'
  <2>1. \A x, kind : <<x, kind>> \in files /\ x # j.id => <<x, kind>> \in files'
    BY <1>2, <1>3
  <2>2. \A b \in Begun : b.id \notin removed =>
          /\ b.savedAs => <<b.id, "spool">> \in files
          /\ b.decodedAs => <<b.id, "decoded">> \in files
    BY DEF DiskInv
  <2>3. QED BY <1>1, <1>2, <1>4, <2>1, <2>2
<1>10. \A b \in Begun' : b.id \notin damaged' =>
          /\ <<b.id, "spool">> \in files' => b.savedAs
          /\ <<b.id, "decoded">> \in files' => b.decodedAs
  BY <1>2, <1>4 DEF DiskInv
<1>11. \A f \in files' : f[1] \in removed' =>
          f[1] \in damaged' \/ \E b \in deleting' : b.id = f[1]
  <2> SUFFICES ASSUME NEW f \in files', f[1] \in removed', f[1] \notin damaged'
               PROVE  \E b \in deleting' : b.id = f[1]
    OBVIOUS
  <2>1. f \in files /\ f[1] \in removed /\ f[1] \notin damaged
    BY <1>2
  <2>2. PICK b \in deleting : b.id = f[1]
    BY <2>1 DEF DiskInv
  <2>3. f[1] # j.id
    <3>1. SUFFICES ASSUME f[1] = j.id PROVE FALSE
      OBVIOUS
    <3>2. f \notin FilesOf(j)
      BY <1>2, <3>1
    <3>3. f = <<f[1], f[2]>> /\ f[2] \in FileKinds
      BY <1>1, <2>1
    <3>4. /\ <<j.id, "spool">> \in files => j.savedAs
          /\ <<j.id, "decoded">> \in files => j.decodedAs
      BY <1>1, <2>1, <3>1 DEF DiskInv
    <3>5. QED BY <2>1, <3>1, <3>2, <3>3, <3>4 DEF FilesOf, FileKinds
  <2>4. QED BY <1>2, <2>2, <2>3
<1>12. QED BY <1>5, <1>6, <1>7, <1>8, <1>9, <1>10, <1>11 DEF DiskInv

LEMMA DiskStep ==
    ASSUME JobInv, DiskInv, [Next]_vars
    PROVE  DiskInv'
<1>0. /\ BaseInv /\ IdInv /\ RingInv
      /\ pc \in [Conns -> {"idle", "sub", "closed"} \cup SavePC]
      /\ job \in [Conns -> Jobs \cup {NoJob}]
  BY DEF JobInv, BaseInv, ReceptionType
<1>1. ASSUME NEW c \in Conns, Listen(c) PROVE DiskInv'
  <2>1. PICK label \in {"sub", "save", "closed"} : pc' = [pc EXCEPT ![c] = label]
    BY <1>0, <1>1, ListenIs
  <2>2. pc[c] \in {"idle", "sub"} /\ UNCHANGED <<seqNum, job, disk, ring>>
    BY <1>0, <1>1, ListenIs
  <2>3. \A d \in Conns : /\ Saving(d)' <=> Saving(d)
                         /\ pc'[d] \in {"spool", "forward", "decode", "meta"} => pc'[d] = pc[d]
    BY <1>0, <2>1, <2>2 DEF Saving, SavePC
  <2>4. Begun' = Begun
    BY <2>2, <2>3 DEF Begun, Saving, ring
  <2>5. QED BY <2>2, <2>3, <2>4 DEF DiskInv, disk, ring
<1>2. ASSUME NEW c \in Conns, BeginSave(c) PROVE DiskInv'
  <2>1. PICK j \in Jobs : /\ job' = [job EXCEPT ![c] = j] /\ j.id = seqNum + 1
                          /\ ~j.savedAs /\ ~j.decodedAs
    BY <1>0, <1>2, BeginSaveIs
  <2>2. /\ pc[c] = "save" /\ pc' = [pc EXCEPT ![c] = "spool"]
        /\ seqNum \in Nat /\ seqNum' = seqNum + 1 /\ UNCHANGED <<disk, ring>>
    BY <1>0, <1>2, BeginSaveIs
  <2>3. /\ \A d \in Conns : d # c => (Saving(d)' <=> Saving(d)) /\ job'[d] = job[d] /\ pc'[d] = pc[d]
        /\ job'[c] = j
    BY <1>0, <2>1, <2>2 DEF Saving, SavePC
  <2>4. \A b : b \in Begun' => b = j \/ b \in Begun
    BY <2>2, <2>3 DEF Begun, Saving, ring
  <2>5. /\ \A f \in files : f[1] # j.id
        /\ \A m \in meta : m.id # j.id
    <3>1. \A f \in files : f[1] \in 1..seqNum
      BY DEF DiskInv
    <3>2. \A m \in meta : <<m.id, "json">> \in files
      BY DEF DiskInv
    <3>3. \A f \in files : f[1] # j.id
      BY <2>1, <2>2, <3>1
    <3>4. QED BY <3>2, <3>3
  <2>6. UNCHANGED <<files, meta, damaged, deleting, removed>>
    BY <2>2 DEF disk, ring
  <2>7. \A f \in files : f[1] \in 1..seqNum'
    BY <2>2 DEF DiskInv
  <2>8. \A kind : <<j.id, kind>> \notin files
    BY <2>5
  <2>9. QED BY <2>1, <2>3, <2>4, <2>5, <2>6, <2>7, <2>8 DEF DiskInv
<1>3. ASSUME NEW c \in Conns, FileStep(c) PROVE DiskInv'
  BY <1>3, DiskFileStep
<1>4. ASSUME NEW c \in Conns, Add(c) PROVE DiskInv'
  <2>1. /\ pc[c] = "add" /\ pc' = [pc EXCEPT ![c] = "reply"]
        /\ Range(added') = Range(added) \cup {job[c]}
        /\ UNCHANGED <<seqNum, job, disk, deleting, removed>>
    BY <1>0, <1>4, AddIs
  <2>2. \A d \in Conns : /\ Saving(d)' <=> Saving(d)
                         /\ pc'[d] \in {"spool", "forward", "decode", "meta"} => pc'[d] = pc[d]
    BY <1>0, <2>1 DEF Saving, SavePC
  <2>3. Saving(c)
    BY <2>1 DEF Saving, SavePC
  <2>4. Begun' = Begun
    BY <2>1, <2>2, <2>3 DEF Begun, Saving
  <2>5. QED BY <2>1, <2>2, <2>4 DEF DiskInv, disk
<1>5. ASSUME NEW c \in Conns, Reply(c) PROVE DiskInv'
  <2>1. PICK docs \in Seq(1..MaxDocs) : pc' = [pc EXCEPT ![c] = IF docs = <<>> THEN "closed" ELSE "save"]
    BY <1>0, <1>5, ReplyIs
  <2>2. job' = [job EXCEPT ![c] = NoJob] /\ UNCHANGED <<seqNum, disk, ring>>
    BY <1>0, <1>5, ReplyIs
  <2>3. /\ ~Saving(c)' /\ pc'[c] \notin {"spool", "forward", "decode", "meta"}
        /\ \A d \in Conns : d # c =>
              (Saving(d)' <=> Saving(d)) /\ job'[d] = job[d] /\ pc'[d] = pc[d]
    BY <1>0, <2>1, <2>2 DEF Saving, SavePC
  <2>4. Begun' \subseteq Begun
    BY <2>2, <2>3 DEF Begun, Saving, ring
  <2>5. QED BY <2>2, <2>3, <2>4 DEF DiskInv, disk, ring
<1>6. ASSUME NEW i \in DOMAIN jobs, Delete(i) PROVE DiskInv'
  <2>1. /\ deleting' = deleting \cup {jobs[i]} /\ removed' = removed \cup {jobs[i].id}
        /\ UNCHANGED <<seqNum, handlers, disk, added>>
    BY <1>6 DEF Delete
  <2>2. Begun' = Begun
    BY <2>1 DEF Begun, handlers
  <2>3. QED BY <2>1, <2>2 DEF DiskInv, handlers, disk
<1>7. ASSUME NEW j \in deleting, RemoveFiles(j) PROVE DiskInv'
  BY <1>7, DiskRemoveFiles
<1>8. CASE UNCHANGED vars
  BY <1>8 DEF vars, handlers, disk, ring, DiskInv, Begun
<1>9. QED BY <1>1, <1>2, <1>3, <1>4, <1>5, <1>6, <1>7, <1>8, StepCases

LEMMA DiskInvariant == Spec => [](JobInv /\ DiskInv)
<1>1. Init => JobInv /\ DiskInv
  BY JobInit, DiskInit
<1>2. (JobInv /\ DiskInv) /\ [Next]_vars => (JobInv /\ DiskInv)'
  BY JobStep, DiskStep
<1>3. QED BY <1>1, <1>2, PTL DEF Spec

\* What the dashboard shows of a job is what its metadata says, and the files it
\* names are there for as long as it is in the ring.
THEOREM MetadataAlwaysAgrees == Spec => []MetadataAgrees
<1>1. JobInv /\ DiskInv => MetadataAgrees
  <2> SUFFICES ASSUME JobInv, DiskInv, NEW j \in Range(jobs)
               PROVE  /\ \A m \in meta : m.id = j.id => m = j
                      /\ j.savedAs => <<j.id, "spool">> \in files
                      /\ j.decodedAs => <<j.id, "decoded">> \in files
    BY DEF MetadataAgrees
  <2>1. j \in Begun /\ j.id \notin removed
    BY BegunIs DEF JobInv, RingInv
  <2>2. QED BY <2>1 DEF DiskInv
<1>2. QED BY <1>1, DiskInvariant, PTL

\* After apiJobDelete nothing of the job is left or comes back, neither in the
\* ring nor on disk, unless a file operation on it failed.
THEOREM DeletedStaysGone == Spec => []DeletedIsGone
<1>1. JobInv /\ DiskInv => DeletedIsGone
  <2> SUFFICES ASSUME JobInv, DiskInv, NEW id \in removed
               PROVE  /\ \A j \in Range(jobs) : j.id # id
                      /\ id \notin damaged \cup {j.id : j \in deleting} =>
                            /\ \A f \in files : f[1] # id
                            /\ \A m \in meta : m.id # id
    BY DEF DeletedIsGone
  <2>1. \A j \in Range(jobs) : j.id # id
    BY DEF JobInv, RingInv
  <2>2. ASSUME id \notin damaged \cup {j.id : j \in deleting}
        PROVE  \A f \in files : f[1] # id
    BY <2>2 DEF DiskInv
  <2>3. \A m \in meta : <<m.id, "json">> \in files
    BY DEF DiskInv
  <2>4. ASSUME id \notin damaged \cup {j.id : j \in deleting}
        PROVE  \A m \in meta : m.id # id
    BY <2>2, <2>3, <2>4
  <2>5. QED BY <2>1, <2>2, <2>4
<1>2. QED BY <1>1, DiskInvariant, PTL

-----------------------------------------------------------------------------
(* Documents *)

LEMMA KeptIs ==
    \A c, d : d \in Kept(c) <=> \E a \in Range(added) : a.conn = c /\ a.doc = d
BY DEF Kept

\* The documents that are captured grow by the one that is added.
LEMMA KeptAdd ==
    ASSUME JobInv, NEW c \in Conns, Add(c)
    PROVE  /\ Kept(c)' = Kept(c) \cup {Head(held[c])}
           /\ \A d \in Conns : d # c => Kept(d)' = Kept(d)
<1>1. Range(added') = Range(added) \cup {job[c]}
  BY AddIs DEF JobInv
<1>2. job[c].conn = c /\ job[c].doc = Head(held[c])
  BY DEF JobInv, BaseInv, HandlerInv, Saving, SavePC, Add, At
<1>3. QED BY <1>1, <1>2 DEF Kept

\* A connection whose part of the state stays is as it was.
LEMMA ConnUnchanged ==
    ASSUME NEW d \in Conns, ConnInv(d),
           proto'[d] = proto[d], pc'[d] = pc[d], held'[d] = held[d], sent'[d] = sent[d],
           err'[d] = err[d], told'[d] = told[d],
           Saving(d) => job'[d].doc = job[d].doc,
           d \in cut' <=> d \in cut,
           \A x : <<d, x>> \in blocked' <=> <<d, x>> \in blocked,
           Kept(d)' = Kept(d)
    PROVE  ConnInv(d)'
<1>1. Saving(d)' <=> Saving(d)
  BY DEF Saving
<1>2. DocInv(d)'
  BY <1>1 DEF ConnInv, DocInv
<1>3. StreamInv(d)'
  BY DEF ConnInv, StreamInv
<1>4. LpdInv(d)'
  BY DEF ConnInv, LpdInv
<1>5. IppInv(d)'
  BY DEF ConnInv, IppInv
<1>6. QED BY <1>2, <1>3, <1>4, <1>5 DEF ConnInv

\* The steps of c leave the other connections alone.
LEMMA OthersUnchanged ==
    ASSUME JobInv, NEW c \in Conns, Listen(c) \/ BeginSave(c) \/ FileStep(c) \/ Add(c) \/ Reply(c),
           NEW d \in Conns, d # c, ConnInv(d)
    PROVE  ConnInv(d)'
<1>0. BaseInv /\ IdInv /\ RingInv /\ ReceptionType
  BY DEF JobInv, BaseInv
<1>1. CASE Listen(c)
  <2>1. PICK label \in {"sub", "save", "closed"} : pc' = [pc EXCEPT ![c] = label]
    BY <1>0, <1>1, ListenIs
  <2>2. PICK docs \in Seq(1..MaxDocs) : held' = [held EXCEPT ![c] = docs]
    BY <1>0, <1>1, ListenIs
  <2>3. PICK n \in 0..MaxDocs : sent' = [sent EXCEPT ![c] = n]
    BY <1>0, <1>1, ListenIs
  <2>4. PICK answer \in {"nothing", "ok", "error"} : told' = [told EXCEPT ![c] = answer]
    BY <1>0, <1>1, ListenIs
  <2>5. cut' \in {cut, cut \cup {c}} /\ UNCHANGED <<setup, job, err, blocked, ring>>
    BY <1>0, <1>1, ListenIs
  <2>6. Kept(d)' = Kept(d)
    BY <2>5 DEF Kept, ring
  <2>7. /\ pc'[d] = pc[d] /\ held'[d] = held[d] /\ sent'[d] = sent[d] /\ told'[d] = told[d]
        /\ proto' = proto
    BY <1>0, <2>1, <2>2, <2>3, <2>4, <2>5 DEF ReceptionType, setup
  <2>8. QED BY <2>5, <2>6, <2>7, ConnUnchanged
<1>2. CASE BeginSave(c)
  <2>1. PICK j \in Jobs : job' = [job EXCEPT ![c] = j]
    BY <1>0, <1>2, BeginSaveIs
  <2>2. /\ pc' = [pc EXCEPT ![c] = "spool"] /\ err' = [err EXCEPT ![c] = FALSE]
        /\ UNCHANGED <<setup, held, told, sent, cut, blocked, ring>>
    BY <1>0, <1>2, BeginSaveIs
  <2>3. Kept(d)' = Kept(d)
    BY <2>2 DEF Kept, ring
  <2>4. pc'[d] = pc[d] /\ err'[d] = err[d] /\ job'[d] = job[d] /\ proto' = proto
    BY <1>0, <2>1, <2>2 DEF ReceptionType, setup
  <2>5. QED BY <2>2, <2>3, <2>4, ConnUnchanged
<1>3. CASE FileStep(c)
  <2>1. PICK j \in Jobs : job' = [job EXCEPT ![c] = j]
    BY <1>0, <1>3, FileStepIs
  <2>2. PICK e \in BOOLEAN : err' = [err EXCEPT ![c] = e]
    BY <1>0, <1>3, FileStepIs
  <2>3. /\ pc' = [pc EXCEPT ![c] = After[pc[c]]]
        /\ blocked' \in {blocked, blocked \cup {<<c, job[c].doc>>}}
        /\ UNCHANGED <<setup, held, told, sent, cut, ring>>
    BY <1>0, <1>3, FileStepIs
  <2>4. Kept(d)' = Kept(d)
    BY <2>3 DEF Kept, ring
  <2>5. pc'[d] = pc[d] /\ err'[d] = err[d] /\ job'[d] = job[d] /\ proto' = proto
    BY <1>0, <2>1, <2>2, <2>3 DEF ReceptionType, setup
  <2>6. \A x : <<d, x>> \in blocked' <=> <<d, x>> \in blocked
    BY <2>3
  <2>7. QED BY <2>3, <2>4, <2>5, <2>6, ConnUnchanged
<1>4. CASE Add(c)
  <2>1. /\ pc' = [pc EXCEPT ![c] = "reply"]
        /\ UNCHANGED <<setup, held, job, err, told, sent, cut, blocked>>
    BY <1>0, <1>4, AddIs
  <2>2. Kept(d)' = Kept(d)
    BY <1>4, KeptAdd
  <2>3. pc'[d] = pc[d] /\ proto' = proto
    BY <1>0, <2>1 DEF ReceptionType, setup
  <2>4. QED BY <2>1, <2>2, <2>3, ConnUnchanged
<1>5. CASE Reply(c)
  <2>1. PICK docs \in Seq(1..MaxDocs) :
           /\ held' = [held EXCEPT ![c] = docs]
           /\ pc' = [pc EXCEPT ![c] = IF docs = <<>> THEN "closed" ELSE "save"]
    BY <1>0, <1>5, ReplyIs
  <2>2. PICK answer \in {"nothing", "ok", "error"} : told' = [told EXCEPT ![c] = answer]
    BY <1>0, <1>5, ReplyIs
  <2>3. /\ job' = [job EXCEPT ![c] = NoJob] /\ err' = [err EXCEPT ![c] = FALSE]
        /\ UNCHANGED <<setup, sent, cut, blocked, ring>>
    BY <1>0, <1>5, ReplyIs
  <2>4. Kept(d)' = Kept(d)
    BY <2>3 DEF Kept, ring
  <2>5. /\ pc'[d] = pc[d] /\ held'[d] = held[d] /\ told'[d] = told[d] /\ err'[d] = err[d]
        /\ job'[d] = job[d] /\ proto' = proto
    BY <1>0, <2>1, <2>2, <2>3 DEF ReceptionType, setup
  <2>6. QED BY <2>3, <2>4, <2>5, ConnUnchanged
<1>6. QED BY <1>1, <1>2, <1>3, <1>4, <1>5

\* What comes in is what is to be saved.
LEMMA ListenConn ==
    ASSUME JobInv, NEW c \in Conns, Listen(c), ConnInv(c)
    PROVE  ConnInv(c)'
<1>0. /\ BaseInv
      /\ pc \in [Conns -> {"idle", "sub", "closed"} \cup SavePC]
      /\ held \in [Conns -> Seq(1..MaxDocs)] /\ sent \in [Conns -> 0..MaxDocs]
      /\ cut \subseteq Conns /\ proto[c] \in {"9100", "LPR", "IPP"}
  BY ReceptionAssumption DEF JobInv, BaseInv, ReceptionType
<1>1. /\ pc[c] \in {"idle", "sub"} /\ UNCHANGED <<setup, job, err, blocked, ring>>
      /\ cut' \in {cut, cut \cup {c}}
  BY <1>0, ListenIs
<1>2. PICK label \in {"sub", "save", "closed"} : pc' = [pc EXCEPT ![c] = label]
  BY <1>0, ListenIs
<1>3. Kept(c) = {} /\ Kept(c)' = {} /\ ~err'[c] /\ proto' = proto
  BY <1>1 DEF ConnInv, DocInv, Kept, ring, setup
<1>4. DocInv(c)'
  BY <1>0, <1>2, <1>3 DEF DocInv, SavePC
<1>5. ASSUME proto[c] # "LPR", NEW n \in 0..MaxDocs, sent'[c] = n,
             held'[c] \in Seq(1..MaxDocs), Len(held'[c]) = n, \A i \in 1..n : held'[c][i] = i,
             pc'[c] = (IF n = 0 THEN "closed" ELSE "save")
      PROVE  StreamInv(c)' /\ LpdInv(c)'
  <2>1. DOMAIN held'[c] = 1..n
    BY <1>5, LenProperties
  <2>2. \A i \in DOMAIN held'[c] : held'[c][i] = sent'[c] - Len(held'[c]) + i
    BY <1>5, <2>1
  <2>3. 1..(sent'[c] - Len(held'[c])) = {}
    BY <1>5
  <2>4. pc'[c] = "closed" => 1..sent'[c] = {}
    BY <1>5
  <2>5. StreamInv(c)'
    BY <1>5, <2>2, <2>3, <2>4 DEF StreamInv
  <2>6. LpdInv(c)'
    BY <1>3, <1>5 DEF LpdInv
  <2>7. QED BY <2>5, <2>6
<1>6. CASE Raw(c)
  <2>1. proto[c] = "9100"
    BY <1>6 DEF Raw
  <2>2. PICK n \in 0..MaxDocs : sent' = [sent EXCEPT ![c] = n] /\ SaveAll(c, [i \in 1..n |-> i])
    BY <1>6 DEF Raw
  <2>3. /\ [i \in 1..n |-> i] \in Seq(1..MaxDocs) /\ Len([i \in 1..n |-> i]) = n
        /\ [i \in 1..n |-> i] = <<>> <=> n = 0
    BY Documents
  <2>4. /\ sent'[c] = n /\ held'[c] = [i \in 1..n |-> i]
        /\ pc'[c] = (IF n = 0 THEN "closed" ELSE "save")
    BY <1>0, <2>2, <2>3 DEF SaveAll, Hold, Goto
  <2>5. StreamInv(c)' /\ LpdInv(c)'
    BY <1>5, <2>1, <2>3, <2>4
  <2>6. IppInv(c)'
    BY <1>3, <2>1 DEF IppInv
  <2>7. QED BY <1>4, <2>5, <2>6 DEF ConnInv
<1>7. CASE Ipp(c)
  <2>1. proto[c] = "IPP" /\ pc[c] = "idle" /\ sent[c] = 0 /\ <<c, 1>> \notin blocked
    BY <1>7 DEF Ipp, ConnInv, IppInv
  <2>2. CASE Goto(c, "closed") /\ UNCHANGED <<held, sent>>
    <3>1. pc'[c] = "closed" /\ sent'[c] = 0
      BY <1>0, <2>1, <2>2 DEF Goto
    <3>2. StreamInv(c)'
      BY <3>1 DEF StreamInv, SavePC
    <3>3. LpdInv(c)' /\ IppInv(c)'
      BY <1>3, <2>1, <3>1 DEF LpdInv, IppInv, SavePC
    <3>4. QED BY <1>4, <3>2, <3>3 DEF ConnInv
  <2>3. CASE sent' = [sent EXCEPT ![c] = 1] /\ SaveAll(c, <<1>>)
    <3>1. sent'[c] = 1 /\ held'[c] = <<1>> /\ pc'[c] = "save"
      BY <1>0, <2>3 DEF SaveAll, Hold, Goto
    <3>2. 1 \in 1..MaxDocs
      BY ReceptionAssumption
    <3>3. <<1>> \in Seq(1..MaxDocs) /\ Len(<<1>>) = 1 /\ \A i \in 1..1 : <<1>>[i] = i
      BY <3>2
    <3>4. 1 \in 0..MaxDocs /\ (IF 1 = 0 THEN "closed" ELSE "save") = "save"
      BY ReceptionAssumption
    <3>5. StreamInv(c)' /\ LpdInv(c)'
      BY <1>5, <2>1, <3>1, <3>3, <3>4
    <3>6. IppInv(c)'
      BY <1>1, <2>1, <3>1 DEF IppInv, SavePC
    <3>7. QED BY <1>4, <3>5, <3>6 DEF ConnInv
  <2>4. QED BY <1>7, <2>2, <2>3 DEF Ipp
<1>8. ASSUME proto[c] = "LPR" PROVE StreamInv(c)' /\ IppInv(c)'
  BY <1>3, <1>8 DEF StreamInv, IppInv
<1>9. CASE Lpd(c)
  <2>1. proto[c] = "LPR" /\ pc[c] = "idle" /\ UNCHANGED <<held, sent, cut>>
    BY <1>9 DEF Lpd
  <2>2. pc'[c] \in {"sub", "closed"}
    BY <1>0, <1>9 DEF Lpd, Goto
  <2>3. LpdInv(c)'
    BY <1>0, <2>1, <2>2 DEF ConnInv, LpdInv, SavePC
  <2>4. QED BY <1>4, <1>8, <2>1, <2>3 DEF ConnInv
<1>10. CASE pc[c] = "sub"
  <2>1. proto[c] = "LPR" /\ c \notin cut /\ held[c] = IF sent[c] = 0 THEN <<>> ELSE <<sent[c]>>
    BY <1>10 DEF ConnInv, StreamInv, LpdInv
  <2>2. CASE LpdData(c)
    <3>1. /\ sent'[c] = sent[c] + 1 /\ held'[c] = <<sent[c] + 1>> /\ cut' = cut
          /\ pc'[c] \in {"sub", "save"}
      BY <1>0, <2>2 DEF LpdData, Hold, Goto
    <3>2. sent[c] + 1 # 0
      BY <1>0
    <3>3. LpdInv(c)'
      BY <1>3, <2>1, <3>1, <3>2 DEF LpdInv, SavePC
    <3>4. QED BY <1>4, <1>8, <2>1, <3>3 DEF ConnInv
  <2>3. CASE LpdClose(c)
    <3>1. /\ sent' = sent /\ cut' = cut /\ held'[c] = held[c]
          /\ pc'[c] = (IF held[c] = <<>> THEN "closed" ELSE "save")
      BY <1>0, <2>3 DEF LpdClose, SaveAll, Hold, Goto
    <3>2. sent[c] # 0 => <<sent[c]>> # <<>>
      OBVIOUS
    <3>3. LpdInv(c)'
      BY <1>0, <1>3, <2>1, <3>1, <3>2 DEF LpdInv, SavePC
    <3>4. QED BY <1>4, <1>8, <2>1, <3>3 DEF ConnInv
  <2>4. CASE LpdLost(c)
    <3>1. PICK part \in {<<>>, <<sent[c] + 1>>} : SaveAll(c, part)
      BY <2>4 DEF LpdLost
    <3>2. /\ held'[c] = part /\ c \in cut'
          /\ pc'[c] = (IF part = <<>> THEN "closed" ELSE "save")
      BY <1>0, <2>4, <3>1 DEF LpdLost, SaveAll, Hold, Goto
    <3>3. LpdInv(c)'
      BY <1>3, <3>2 DEF LpdInv, SavePC
    <3>4. QED BY <1>4, <1>8, <2>1, <3>3 DEF ConnInv
  <2>5. CASE LpdUnknown(c)
    <3>1. c \in cut' /\ pc'[c] = "closed"
      BY <1>0, <2>5 DEF LpdUnknown, SaveAll, Hold, Goto
    <3>2. LpdInv(c)'
      BY <3>1 DEF LpdInv, SavePC
    <3>3. QED BY <1>4, <1>8, <2>1, <3>2 DEF ConnInv
  <2>6. QED BY <1>10, <2>2, <2>3, <2>4, <2>5 DEF Listen, Raw, Ipp, Lpd
<1>11. QED
  BY <1>6, <1>7, <1>9, <1>10 DEF Listen, LpdData, LpdClose, LpdLost, LpdUnknown

\* An IPP request holds one document, its first.
LEMMA IppHoldsOne ==
    ASSUME BaseInv, NEW c \in Conns, ConnInv(c), proto[c] = "IPP", pc[c] \in SavePC
    PROVE  Len(held[c]) = 1 /\ Head(held[c]) = 1
<1>1. held[c] \in Seq(1..MaxDocs) /\ held[c] # <<>>
  BY DEF BaseInv, ReceptionType, HandlerInv
<1>2. Len(held[c]) \in Nat \ {0} /\ DOMAIN held[c] = 1..Len(held[c]) /\ Head(held[c]) = held[c][1]
  BY <1>1, LenProperties, EmptySeq
<1>3. sent[c] = 1 /\ \A i \in DOMAIN held[c] : held[c][i] = sent[c] - Len(held[c]) + i
  BY DEF ConnInv, IppInv, StreamInv
<1> DEFINE h == held[c]
           n == Len(h)
<1>4. 1 \in 1..n /\ n \in Nat \ {0}
  BY <1>2
<1>5. h[1] \in 1..MaxDocs
  BY <1>1, <1>4, ElementOfSeq
<1>6. h[1] = 1 - n + 1
  BY <1>2, <1>3, <1>4
<1> HIDE DEF n
<1>7. n = 1 /\ h[1] = 1
  BY <1>4, <1>5, <1>6, ReceptionAssumption
<1>8. QED BY <1>2, <1>7 DEF n

LEMMA BeginSaveConn ==
    ASSUME JobInv, NEW c \in Conns, BeginSave(c), ConnInv(c)
    PROVE  ConnInv(c)'
<1>0. /\ BaseInv
      /\ pc \in [Conns -> {"idle", "sub", "closed"} \cup SavePC] /\ err \in [Conns -> BOOLEAN]
  BY DEF JobInv, BaseInv, ReceptionType
<1>1. /\ pc[c] = "save" /\ pc'[c] = "spool" /\ ~err'[c]
      /\ UNCHANGED <<proto, held, told, sent, cut, blocked>> /\ Kept(c)' = Kept(c)
  BY <1>0, BeginSaveIs DEF setup, ring, Kept
<1>2. DocInv(c)'
  BY <1>1 DEF ConnInv, DocInv, SavePC
<1>3. StreamInv(c)'
  BY <1>1 DEF ConnInv, StreamInv, SavePC
<1>4. LpdInv(c)'
  BY <1>1 DEF ConnInv, LpdInv, SavePC
<1>5. IppInv(c)'
  BY <1>1 DEF ConnInv, IppInv, SavePC
<1>6. QED BY <1>2, <1>3, <1>4, <1>5 DEF ConnInv

\* The error of save is that its document was blocked.
LEMMA FileStepConn ==
    ASSUME JobInv, NEW c \in Conns, FileStep(c), ConnInv(c)
    PROVE  ConnInv(c)'
<1>0. /\ BaseInv
      /\ pc \in [Conns -> {"idle", "sub", "closed"} \cup SavePC] /\ err \in [Conns -> BOOLEAN]
  BY DEF JobInv, BaseInv, ReceptionType
<1>1. /\ pc[c] \in {"spool", "forward", "decode", "meta"} /\ pc'[c] = After[pc[c]]
      /\ UNCHANGED <<proto, held, told, sent, cut>> /\ Kept(c)' = Kept(c)
      /\ job'[c].doc = job[c].doc
  BY <1>0, FileStepIs DEF BaseInv, ReceptionType, setup, ring, Kept
<1>2. /\ pc[c] = "spool" => pc'[c] = "forward"
      /\ pc[c] = "forward" => pc'[c] = "decode"
      /\ pc[c] = "decode" => pc'[c] = "meta"
      /\ pc[c] = "meta" => pc'[c] = "add"
      /\ pc'[c] \in {"forward", "decode", "meta", "add"}
  BY <1>1 DEF After
<1>3. \/ err' = err /\ blocked' = blocked
      \/ /\ pc[c] = "forward"
         /\ \/ err'[c] /\ blocked' = blocked \cup {<<c, job[c].doc>>}
            \/ ~err'[c] /\ blocked' = blocked
  <2>1. CASE Forward(c)
    <3>1. CASE UNCHANGED <<err, blocked>>
      BY <3>1
    <3>2. ASSUME NEW e \in BOOLEAN, err' = [err EXCEPT ![c] = e],
                 blocked' = IF err'[c] THEN blocked \cup {<<c, job[c].doc>>} ELSE blocked
          PROVE  <1>3
      BY <1>0, <2>1, <3>2 DEF Forward, At
    <3>3. QED BY <2>1, <3>1, <3>2 DEF Forward
  <2>2. QED BY <2>1 DEF FileStep, WriteSpool, Decode, WriteMeta
<1>4. job[c].doc = Head(held[c]) /\ pc[c] \in SavePC /\ Saving(c) /\ pc[c] # "reply"
  BY <1>1 DEF JobInv, BaseInv, HandlerInv, Saving, SavePC
<1>5. pc[c] \in {"spool", "forward"} => ~err[c]
  BY DEF ConnInv, DocInv
<1>6. DocInv(c)'
  <2>1. \A d \in Kept(c) : d < Head(held[c])
    BY <1>4 DEF ConnInv, DocInv
  <2>2. err[c] => <<c, job[c].doc>> \in blocked
    BY <1>4 DEF ConnInv, DocInv
  <2>3. err'[c] => <<c, job'[c].doc>> \in blocked'
    BY <1>1, <1>3, <2>2
  <2>4. pc'[c] = "forward" => ~err'[c]
    BY <1>1, <1>2, <1>3, <1>5
  <2>5. QED BY <1>1, <1>2, <2>1, <2>3, <2>4 DEF DocInv, SavePC
<1>7. StreamInv(c)'
  BY <1>1, <1>2, <1>4 DEF ConnInv, StreamInv, SavePC
<1>8. LpdInv(c)'
  BY <1>1, <1>2, <1>4 DEF ConnInv, LpdInv, SavePC
<1>9. IppInv(c)'
  <2> SUFFICES ASSUME proto[c] = "IPP" PROVE IppInv(c)'
    BY <1>1 DEF IppInv
  <2>1. job[c].doc = 1
    BY <1>0, <1>4, IppHoldsOne
  <2>2. sent[c] = 1
    BY <1>4 DEF ConnInv, IppInv
  <2>3. /\ pc[c] \in {"spool", "forward"} => <<c, 1>> \notin blocked
        /\ pc[c] \in {"decode", "meta"} => (err[c] <=> <<c, 1>> \in blocked)
    BY DEF ConnInv, IppInv
  <2>4. /\ pc[c] = "spool" => <<c, 1>> \notin blocked'
        /\ pc[c] \in {"forward", "decode", "meta"} => (err'[c] <=> <<c, 1>> \in blocked')
    <3>1. CASE err' = err /\ blocked' = blocked
      BY <1>5, <2>3, <3>1
    <3>2. CASE pc[c] = "forward" /\ err'[c] /\ blocked' = blocked \cup {<<c, job[c].doc>>}
      BY <2>1, <3>2
    <3>3. CASE pc[c] = "forward" /\ ~err'[c] /\ blocked' = blocked
      BY <2>3, <3>3
    <3>4. QED BY <1>3, <3>1, <3>2, <3>3
  <2>5. QED BY <1>1, <1>2, <2>2, <2>4 DEF IppInv, SavePC
<1>10. QED BY <1>6, <1>7, <1>8, <1>9 DEF ConnInv

LEMMA AddConn ==
    ASSUME JobInv, NEW c \in Conns, Add(c), ConnInv(c)
    PROVE  ConnInv(c)'
<1>0. pc \in [Conns -> {"idle", "sub", "closed"} \cup SavePC] /\ held[c] \in Seq(1..MaxDocs) /\ held[c] # <<>>
  BY DEF JobInv, BaseInv, ReceptionType, HandlerInv, Add, At, SavePC
<1>1. /\ pc[c] = "add" /\ pc'[c] = "reply"
      /\ UNCHANGED <<proto, held, job, err, told, sent, cut, blocked>>
  BY <1>0, AddIs DEF JobInv, setup
<1>2. Kept(c)' = Kept(c) \cup {Head(held[c])}
  BY KeptAdd
<1>3. Head(held[c]) \in Nat
  <2>1. Head(held[c]) \in 1..MaxDocs
    BY <1>0, HeadTailProperties
  <2>2. QED BY <2>1, ReceptionAssumption
<1>4. \A d \in Kept(c) : d < Head(held[c])
  BY <1>1 DEF ConnInv, DocInv, SavePC
<1>5. Saving(c)
  BY <1>1 DEF Saving, SavePC
<1>6. DocInv(c)'
  <2>1. err'[c] /\ Saving(c)' => <<c, job'[c].doc>> \in blocked'
    BY <1>1, <1>5 DEF ConnInv, DocInv
  <2>2. Head(held[c]) \in Kept(c)' /\ \A d \in Kept(c)' : d <= Head(held[c])
    <3>1. ASSUME NEW d \in Kept(c)' PROVE d <= Head(held[c])
      <4>1. CASE d \in Kept(c)
        <5>1. d \in Nat
          <6>1. added \in Seq(Jobs)
            BY DEF JobInv, BaseInv, ReceptionType
          <6>2. \A a \in Range(added) : a \in Jobs
            BY <6>1, LenProperties, ElementOfSeq DEF Range
          <6>3. QED BY <4>1, <6>2 DEF Kept, Jobs
        <5>2. QED BY <1>3, <1>4, <4>1, <5>1
      <4>2. CASE d = Head(held[c])
        BY <1>3, <4>2
      <4>3. QED BY <1>2, <4>1, <4>2
    <3>2. QED BY <1>2, <3>1
  <2>3. QED BY <1>1, <2>1, <2>2 DEF DocInv, SavePC
<1>7. StreamInv(c)'
  BY <1>1, <1>2 DEF ConnInv, StreamInv, SavePC
<1>8. LpdInv(c)'
  BY <1>1, <1>2 DEF ConnInv, LpdInv, SavePC
<1>9. IppInv(c)'
  BY <1>1 DEF ConnInv, IppInv, SavePC
<1>10. QED BY <1>6, <1>7, <1>8, <1>9 DEF ConnInv

\* A document done: the ones behind it are held still, or it blocked them.
LEMMA ReplyConn ==
    ASSUME JobInv, NEW c \in Conns, Reply(c), ConnInv(c)
    PROVE  ConnInv(c)'
<1> DEFINE h == held[c]
           n == Len(h)
<1>0. /\ BaseInv /\ pc[c] = "reply"
      /\ pc \in [Conns -> {"idle", "sub", "closed"} \cup SavePC]
      /\ held \in [Conns -> Seq(1..MaxDocs)] /\ err \in [Conns -> BOOLEAN]
      /\ told \in [Conns -> {"nothing", "ok", "error"}]
      /\ proto[c] \in {"9100", "LPR", "IPP"} /\ sent[c] \in Nat
  <2>1. BaseInv /\ ReceptionType /\ pc[c] = "reply"
    BY DEF JobInv, BaseInv, Reply
  <2>2. proto[c] \in {"9100", "LPR", "IPP"} /\ sent[c] \in 0..MaxDocs
    BY <2>1, ReceptionAssumption DEF ReceptionType
  <2>3. QED BY <2>1, <2>2, ReceptionAssumption DEF ReceptionType
<1>1. h \in Seq(1..MaxDocs) /\ h # <<>> /\ Saving(c)
  BY <1>0 DEF BaseInv, HandlerInv, Saving, SavePC
<1>2. n \in Nat \ {0} /\ DOMAIN h = 1..n /\ Head(h) = h[1] /\ h[1] \in Nat \ {0}
  <2>1. n \in Nat /\ DOMAIN h = 1..n /\ n # 0
    BY <1>1, LenProperties, EmptySeq
  <2>2. 1 \in 1..n
    BY <2>1
  <2>3. h[1] \in 1..MaxDocs
    BY <1>1, <2>2, ElementOfSeq
  <2>4. QED BY <2>1, <2>3, ReceptionAssumption
<1>3. /\ Tail(h) \in Seq(1..MaxDocs) /\ Len(Tail(h)) = n - 1
      /\ \A i \in 1..(n - 1) : Tail(h)[i] = h[i + 1]
      /\ DOMAIN Tail(h) = 1..(n - 1)
  <2>1. /\ Tail(h) \in Seq(1..MaxDocs) /\ Len(Tail(h)) = n - 1
        /\ \A i \in 1..Len(Tail(h)) : Tail(h)[i] = h[i + 1]
    BY <1>1, HeadTailProperties
  <2>2. DOMAIN Tail(h) = 1..Len(Tail(h))
    BY <2>1, LenProperties
  <2>3. QED BY <2>1, <2>2
<1>4. Tail(h) = <<>> <=> n = 1
  <2>1. Tail(h) = <<>> <=> Len(Tail(h)) = 0
    BY <1>3, EmptySeq
  <2>2. QED BY <1>2, <1>3, <2>1
<1>5. PICK docs \in {<<>>, Tail(h)} :
         /\ held' = [held EXCEPT ![c] = docs]
         /\ pc' = [pc EXCEPT ![c] = IF docs = <<>> THEN "closed" ELSE "save"]
         /\ proto[c] # "9100" => docs = <<>>
         /\ proto[c] = "9100" => docs = IF err[c] THEN <<>> ELSE Tail(h)
  BY <1>0, ReplyIs
<1>6. PICK answer \in {"nothing", "ok", "error"} :
         /\ told' = [told EXCEPT ![c] = answer]
         /\ proto[c] = "IPP" => answer = IF err[c] THEN "error" ELSE "ok"
  BY <1>0, ReplyIs
<1>7. /\ err' = [err EXCEPT ![c] = FALSE]
      /\ UNCHANGED <<setup, sent, cut, blocked, ring>>
  BY <1>0, ReplyIs
<1>8. Kept(c)' = Kept(c) /\ proto' = proto /\ ~err'[c] /\ told'[c] = answer /\ held'[c] = docs
  BY <1>0, <1>5, <1>6, <1>7 DEF Kept, ring, setup
<1>9. pc'[c] = IF docs = <<>> THEN "closed" ELSE "save"
  BY <1>0, <1>5
<1>10. /\ h[1] \in Kept(c) /\ \A d \in Kept(c) : d <= h[1]
       /\ err[c] => <<c, h[1]>> \in blocked
  <2>1. job[c].doc = Head(h)
    BY <1>0, <1>1 DEF BaseInv, HandlerInv
  <2>2. QED BY <1>0, <1>1, <1>2, <2>1 DEF ConnInv, DocInv
<1>11. proto[c] # "LPR" =>
          /\ \A i \in 1..n : h[i] = sent[c] - n + i
          /\ \A d \in 1..(sent[c] - n) : d \in Kept(c)
  BY <1>0, <1>2 DEF ConnInv, StreamInv, SavePC
<1>12. proto[c] = "IPP" => n = 1
  BY <1>0, IppHoldsOne DEF SavePC
<1> HIDE DEF h, n
<1>13. \A d \in Kept(c) : d \in Nat
  <2>1. \A a \in Range(added) : a \in Jobs
    BY LenProperties, ElementOfSeq DEF JobInv, BaseInv, ReceptionType, Range
  <2>2. QED BY <2>1 DEF Kept, Jobs
<1>14. ASSUME docs # <<>>
       PROVE  /\ proto[c] = "9100" /\ docs = Tail(h) /\ n > 1 /\ pc'[c] = "save"
              /\ Len(docs) = n - 1 /\ DOMAIN docs = 1..(n - 1)
              /\ \A i \in 1..(n - 1) : docs[i] = sent[c] - (n - 1) + i
              /\ Head(docs) = h[1] + 1
  <2>1. proto[c] = "9100" /\ docs = Tail(h) /\ n > 1 /\ pc'[c] = "save"
    BY <1>2, <1>4, <1>5, <1>9, <1>14
  <2>2. \A i \in 1..(n - 1) : i + 1 \in 1..n
    BY <1>2
  <2>3. \A i \in 1..(n - 1) : docs[i] = sent[c] - (n - 1) + i
    <3> SUFFICES ASSUME NEW i \in 1..(n - 1) PROVE docs[i] = sent[c] - (n - 1) + i
      OBVIOUS
    <3>1. docs[i] = h[i + 1]
      BY <1>3, <2>1
    <3>2. h[i + 1] = sent[c] - n + (i + 1)
      BY <1>11, <2>1, <2>2
    <3>3. n \in Int /\ sent[c] \in Int /\ i \in Int
      BY <1>0, <1>2
    <3>4. sent[c] - n + (i + 1) = sent[c] - (n - 1) + i
      BY <3>3
    <3>5. QED BY <3>1, <3>2, <3>4
  <2>4. 1 \in 1..(n - 1) /\ 1 \in 1..n
    BY <1>2, <2>1
  <2>5. docs[1] = sent[c] - (n - 1) + 1 /\ h[1] = sent[c] - n + 1
    BY <1>11, <2>1, <2>3, <2>4
  <2>6. Head(docs) = docs[1]
    BY <1>3, <1>14, <2>1
  <2>7. docs[1] = h[1] + 1
    <3> DEFINE m == sent[c]
    <3>1. n \in Int /\ m \in Int
      BY <1>0, <1>2
    <3>2. docs[1] = m - (n - 1) + 1 /\ h[1] = m - n + 1
      BY <2>5
    <3> HIDE DEF m
    <3>3. QED BY <3>1, <3>2
  <2>8. Len(docs) = n - 1 /\ DOMAIN docs = 1..(n - 1)
    BY <1>3, <2>1
  <2>9. Head(docs) = h[1] + 1
    BY <2>6, <2>7
  <2>10. QED BY <2>1, <2>3, <2>8, <2>9
<1>15. ASSUME proto[c] # "LPR", NEW d \in 1..(sent[c] - (n - 1)) PROVE d \in Kept(c)
  <2>1. 1 \in 1..n
    BY <1>2
  <2>2. h[1] = sent[c] - n + 1
    BY <1>11, <1>15, <2>1
  <2>3. d \in 1..(sent[c] - n) \/ d = h[1]
    BY <1>0, <1>2, <2>2
  <2>4. QED BY <1>10, <1>11, <1>15, <2>3
<1>16. DocInv(c)'
  <2>1. docs # <<>> => \A d \in Kept(c) : d < Head(docs)
    BY <1>2, <1>10, <1>13, <1>14
  <2>2. QED BY <1>8, <1>9, <2>1 DEF DocInv, SavePC
<1>17. StreamInv(c)'
  <2> SUFFICES ASSUME proto[c] # "LPR" PROVE StreamInv(c)'
    BY <1>8 DEF StreamInv
  <2>1. CASE docs # <<>>
    <3>1. /\ pc'[c] = "save" /\ sent'[c] = sent[c]
          /\ \A i \in DOMAIN docs : docs[i] = sent[c] - Len(docs) + i
          /\ \A d \in 1..(sent[c] - Len(docs)) : d \in Kept(c)
      BY <1>7, <1>14, <1>15, <2>1
    <3>2. QED BY <1>8, <3>1 DEF StreamInv, SavePC
  <2>2. CASE docs = <<>>
    <3>1. pc'[c] = "closed"
      BY <1>9, <2>2
    <3>2. ASSUME NEW d \in 1..sent[c]
          PROVE  d \in Kept(c) \/ \E b \in 1..(d - 1) : <<c, b>> \in blocked
      <4>1. CASE n = 1
        <5>1. d \in 1..(sent[c] - (n - 1))
          BY <1>0, <4>1
        <5>2. QED BY <1>15, <5>1
      <4>2. CASE n # 1
        <5>1. err[c]
          BY <1>0, <1>4, <1>5, <1>12, <2>2, <4>2
        <5>2. <<c, h[1]>> \in blocked
          BY <1>10, <5>1
        <5>3. 1 \in 1..n
          BY <1>2
        <5>4. h[1] = sent[c] - n + 1
          BY <1>11, <5>3
        <5>5. d \in 1..(sent[c] - (n - 1)) \/ h[1] \in 1..(d - 1)
          BY <1>0, <1>2, <5>4
        <5>6. QED BY <1>15, <5>2, <5>5
      <4>3. QED BY <4>1, <4>2
    <3>3. QED BY <1>7, <1>8, <3>1, <3>2 DEF StreamInv, SavePC
  <2>3. QED BY <2>1, <2>2
<1>18. LpdInv(c)'
  <2> SUFFICES ASSUME proto[c] = "LPR" PROVE LpdInv(c)'
    BY <1>8 DEF LpdInv
  <2>1. pc'[c] = "closed"
    BY <1>5, <1>9
  <2>2. /\ Kept(c) = {Head(held[c])}
        /\ c \notin cut => held[c] = IF sent[c] = 0 THEN <<>> ELSE <<sent[c]>>
    BY <1>0 DEF ConnInv, LpdInv, SavePC
  <2>3. c \notin cut /\ sent[c] > 0 => Kept(c) = {sent[c]}
    BY <1>0, <2>2
  <2>4. QED BY <1>7, <1>8, <2>1, <2>3 DEF LpdInv, SavePC
<1>19. IppInv(c)'
  <2> SUFFICES ASSUME proto[c] = "IPP" PROVE IppInv(c)'
    BY <1>8 DEF IppInv
  <2>1. pc'[c] = "closed" /\ answer = IF err[c] THEN "error" ELSE "ok"
    BY <1>5, <1>6, <1>9
  <2>2. err[c] <=> <<c, 1>> \in blocked
    BY <1>0 DEF ConnInv, IppInv
  <2>3. QED BY <1>7, <1>8, <2>1, <2>2 DEF IppInv, SavePC
<1>20. QED BY <1>16, <1>17, <1>18, <1>19 DEF ConnInv

LEMMA OnceStep ==
    ASSUME JobInv, DocumentInv, [Next]_vars
    PROVE  OnceInv'
<1>1. ASSUME NEW c \in Conns, Add(c) PROVE OnceInv'
  <2>1. added \in Seq(Jobs) /\ job[c] \in Jobs /\ added' = Append(added, job[c]) /\ pc[c] = "add"
    BY <1>1, AddIs DEF JobInv, BaseInv, ReceptionType
  <2>2. job[c].conn = c /\ job[c].doc = Head(held[c]) /\ job[c].doc \in 1..MaxDocs
    BY <2>1 DEF JobInv, BaseInv, HandlerInv, Saving, SavePC, Jobs
  <2>3. \A d \in Kept(c) : d < job[c].doc
    BY <2>1, <2>2 DEF DocumentInv, ConnInv, DocInv, SavePC
  <2>4. \A a \in Range(added) : a.conn = c => a.doc # job[c].doc
    BY <2>2, <2>3, KeptIs, ReceptionAssumption
  <2>5. /\ Len(added) \in Nat /\ DOMAIN added = 1..Len(added)
        /\ DOMAIN added' = 1..(Len(added) + 1)
        /\ \A i \in 1..Len(added) : added'[i] = added[i]
        /\ added'[Len(added) + 1] = job[c]
    BY <2>1, LenProperties, AppendProperties
  <2>6. \A i \in 1..Len(added) : added[i].conn = c => added[i].doc # job[c].doc
    BY <2>4, <2>5 DEF Range
  <2>7. QED BY <2>2, <2>5, <2>6 DEF OnceInv, DocumentInv
<1>2. CASE UNCHANGED added
  BY <1>2 DEF OnceInv, DocumentInv
<1>3. ASSUME NEW c \in Conns, Listen(c) \/ BeginSave(c) \/ FileStep(c) \/ Reply(c)
      PROVE  UNCHANGED added
  BY <1>3, ListenIs, BeginSaveIs, FileStepIs, ReplyIs DEF JobInv, ring
<1>4. ASSUME NEW i \in DOMAIN jobs, Delete(i) PROVE UNCHANGED added
  BY <1>4 DEF Delete
<1>5. ASSUME NEW j \in deleting, RemoveFiles(j) PROVE UNCHANGED added
  BY <1>5 DEF RemoveFiles
<1>6. UNCHANGED vars => UNCHANGED added
  BY DEF vars, ring
<1>7. QED BY <1>1, <1>2, <1>3, <1>4, <1>5, <1>6, StepCases

LEMMA DocumentStep ==
    ASSUME JobInv, DocumentInv, [Next]_vars
    PROVE  DocumentInv'
<1>1. OnceInv'
  BY OnceStep
<1>2. ASSUME NEW c \in Conns, Listen(c) \/ BeginSave(c) \/ FileStep(c) \/ Add(c) \/ Reply(c)
      PROVE  \A d \in Conns : ConnInv(d)'
  <2> SUFFICES ASSUME NEW d \in Conns PROVE ConnInv(d)'
    OBVIOUS
  <2>1. ConnInv(c) /\ ConnInv(d)
    BY DEF DocumentInv
  <2>2. CASE d # c
    BY <1>2, <2>1, <2>2, OthersUnchanged
  <2>3. ConnInv(c)'
    BY <1>2, <2>1, ListenConn, BeginSaveConn, FileStepConn, AddConn, ReplyConn
  <2>4. QED BY <2>2, <2>3
<1>3. CASE UNCHANGED <<setup, handlers, added>>
  <2> SUFFICES ASSUME NEW d \in Conns PROVE ConnInv(d)'
    BY <1>1 DEF DocumentInv
  <2>1. ConnInv(d)
    BY DEF DocumentInv
  <2>2. Kept(d)' = Kept(d)
    BY <1>3 DEF Kept
  <2>3. QED BY <1>3, <2>1, <2>2, ConnUnchanged DEF setup, handlers
<1>4. ASSUME NEW i \in DOMAIN jobs, Delete(i) PROVE UNCHANGED <<setup, handlers, added>>
  BY <1>4 DEF Delete
<1>5. ASSUME NEW j \in deleting, RemoveFiles(j) PROVE UNCHANGED <<setup, handlers, added>>
  BY <1>5 DEF RemoveFiles
<1>6. UNCHANGED vars => UNCHANGED <<setup, handlers, added>>
  BY DEF vars, ring
<1>7. QED BY <1>1, <1>2, <1>3, <1>4, <1>5, <1>6, StepCases DEF DocumentInv

LEMMA DocumentInit == Init => DocumentInv
<1> SUFFICES ASSUME Init PROVE DocumentInv
  OBVIOUS
<1>1. OnceInv
  BY DEF Init, OnceInv
<1>2. ASSUME NEW c \in Conns PROVE ConnInv(c)
  <2>1. /\ pc[c] = "idle" /\ held[c] = <<>> /\ ~err[c] /\ sent[c] = 0 /\ cut = {} /\ blocked = {}
        /\ Kept(c) = {}
    BY DEF Init, Kept, Range
  <2>2. DocInv(c)
    BY <2>1 DEF DocInv, Saving, SavePC
  <2>3. StreamInv(c) /\ LpdInv(c) /\ IppInv(c)
    BY <2>1 DEF StreamInv, LpdInv, IppInv, SavePC
  <2>4. QED BY <2>2, <2>3 DEF ConnInv
<1>3. QED BY <1>1, <1>2 DEF DocumentInv

LEMMA DocumentInvariant == Spec => [](JobInv /\ DocumentInv)
<1>1. Init => JobInv /\ DocumentInv
  BY JobInit, DocumentInit
<1>2. (JobInv /\ DocumentInv) /\ [Next]_vars => (JobInv /\ DocumentInv)'
  BY JobStep, DocumentStep
<1>3. QED BY <1>1, <1>2, PTL DEF Spec

\* Whatever happens to files and forwarding, no document is captured twice, and
\* when a handler is done it has captured what its client sent: over raw and IPP
\* all of it, but for what comes behind a job that a target blocked; over LPD the
\* last data file alone, and only when the connection ended between two files.
\* (captureSink.save returns the forwarder's error after it has added the job)
THEOREM EverythingReceivedIsKept == Spec => []ReceivedIsKept
<1>1. JobInv /\ DocumentInv => ReceivedIsKept
  BY DEF DocumentInv, OnceInv, ConnInv, StreamInv, LpdInv, ReceivedIsKept
<1>2. QED BY <1>1, DocumentInvariant, PTL

\* An IPP client with a document is told success only if the document was captured
\* and no "block" target refused it, and an error only if one did (ippHandler).
THEOREM IppIsToldTheTruth == Spec => []IppToldTheTruth
<1>1. JobInv /\ DocumentInv => IppToldTheTruth
  <2> SUFFICES ASSUME DocumentInv, NEW c \in Conns,
                      proto[c] = "IPP", pc[c] = "closed", sent[c] = 1
               PROVE  (told[c] = "ok" <=> <<c, 1>> \notin blocked) /\ 1 \in Kept(c)
    BY DEF IppToldTheTruth
  <2>1. told[c] = "ok" <=> <<c, 1>> \notin blocked
    BY DEF DocumentInv, ConnInv, IppInv
  <2>2. 1 \in Kept(c) \/ \E b \in 1..(1 - 1) : <<c, b>> \in blocked
    <3>1. 1 \in 1..sent[c]
      OBVIOUS
    <3>2. StreamInv(c) /\ proto[c] # "LPR"
      BY DEF DocumentInv, ConnInv
    <3>3. QED BY <3>1, <3>2 DEF StreamInv
  <2>3. QED BY <2>1, <2>2
<1>2. QED BY <1>1, DocumentInvariant, PTL

=============================================================================
