---------------------------- MODULE Agents_proofs ----------------------------
(***************************************************************************)
(* Proofs about the agents: what the mDNS responder and the WSD device     *)
(* leave behind when they close, what a WSD document is captured under,    *)
(* and what a walk of the SNMP agent collects, for any hosts, sockets,     *)
(* records, jobs, OIDs and limits.                                         *)
(***************************************************************************)
EXTENDS Agents, Transport_proofs, FiniteSetTheorems, WellFoundedInduction, TLAPS

-----------------------------------------------------------------------------
(* The pending jobs of WSD *)

\* What is known of a captured document.
Entries ==
    [id : Nat, request : Requests, doc : {"document", "envelope", "nothing"},
     issued : BOOLEAN, again : BOOLEAN,
     meta : ({"meta"} \X Nat) \cup {NoMeta}, younger : Int]

\* The ids given out so far.
Ids == 1..wsdNextJob

\* A job that was created is pending under its own metadata, or a document was
\* sent for it, or it made room: then MaxPendingJobs younger ones were created.
PendingInv ==
    /\ wsdNextJob \in Nat
    /\ sent \subseteq Ids
    /\ DOMAIN wsdJobs \subseteq Ids
    /\ DOMAIN wsdJobs \cap sent = {}
    /\ \A id \in DOMAIN wsdJobs : wsdJobs[id] = <<"meta", id>>
    /\ \A id \in Ids : \/ id \in DOMAIN wsdJobs
                       \/ id \in sent
                       \/ wsdNextJob - id >= MaxPendingJobs

CapturedInv == captured \in Seq(Entries) /\ AttributedAsCreated

JobsInv == PendingInv /\ CapturedInv

\* A non-empty set of naturals has a least element, which Min chooses.
LEMMA MinIsLeast ==
    ASSUME NEW S \in SUBSET Nat, S # {}
    PROVE  Min(S) \in S /\ \A y \in S : Min(S) <= y
<1>1. PICK x \in S : \A y \in S : ~(<<y, x>> \in OpToRel(<, Nat))
  BY WFMin, NatLessThanWellFounded
<1>2. ASSUME NEW y \in S PROVE x <= y
  <2>1. x \in Nat /\ y \in Nat
    BY <1>1
  <2>2. ~(<<y, x>> \in {ss \in Nat \X Nat : ss[1] < ss[2]})
    BY <1>1 DEF OpToRel
  <2>3. <<y, x>> \in Nat \X Nat /\ <<y, x>>[1] = y /\ <<y, x>>[2] = x
    BY <2>1
  <2>4. ~(y < x)
    BY <2>2, <2>3
  <2>5. QED BY <2>1, <2>4
<1>3. QED BY <1>2 DEF Min

\* The oldest of as many pending jobs as there may be has MaxPendingJobs - 1
\* younger ones.
LEMMA EvictedIsOld ==
    ASSUME NEW n \in Nat, NEW ids \in SUBSET (1..n), Cardinality(ids) >= MaxPendingJobs
    PROVE  Min(ids) \in ids /\ (n + 1) - Min(ids) >= MaxPendingJobs
<1>1. IsFiniteSet(ids)
  <2>1. IsFiniteSet(1..n)
    BY FS_Interval
  <2>2. QED BY <2>1, FS_Subset
<1>2. Cardinality(ids) \in Nat
  BY <1>1, FS_CardinalityType
<1>3. ids # {}
  BY <1>2, FS_EmptySet, WsdAssumption
<1>4. Min(ids) \in ids /\ \A y \in ids : Min(ids) <= y
  BY <1>3, MinIsLeast
<1> DEFINE m == Min(ids)
<1>5. m \in 1..n
  BY <1>4
<1> HIDE DEF m
<1>6. ids \subseteq m..n
  BY <1>4, <1>5 DEF m
<1>7. Cardinality(m..n) = n - m + 1 /\ IsFiniteSet(m..n)
  BY <1>5, FS_Interval
<1>8. Cardinality(ids) <= n - m + 1
  BY <1>6, <1>7, FS_Subset
<1>9. (n + 1) - m >= MaxPendingJobs
  BY <1>2, <1>5, <1>8, WsdAssumption
<1>10. QED BY <1>4, <1>9 DEF m

LEMMA CreateKeepsPending ==
    ASSUME PendingInv, CreatePrintJob
    PROVE  PendingInv'
<1> DEFINE ids  == DOMAIN wsdJobs
           kept == IF Cardinality(ids) >= MaxPendingJobs THEN ids \ {Evict(ids)} ELSE ids
           new  == wsdNextJob + 1
<1>1. wsdNextJob' = new /\ sent' = sent
  BY DEF CreatePrintJob
<1>2. wsdJobs' = [i \in kept \cup {new} |-> IF i = new THEN <<"meta", new>> ELSE wsdJobs[i]]
  BY DEF CreatePrintJob
<1>3. wsdNextJob \in Nat /\ ids \subseteq 1..wsdNextJob /\ sent \subseteq 1..wsdNextJob
  BY DEF PendingInv, Ids
<1>4. \A id \in ids : id \in kept \/ new - id >= MaxPendingJobs
  <2>1. CASE Cardinality(ids) >= MaxPendingJobs
    <3>1. (wsdNextJob + 1) - Min(ids) >= MaxPendingJobs
      BY <1>3, <2>1, EvictedIsOld
    <3>2. kept = ids \ {Min(ids)}
      BY <2>1 DEF Evict
    <3>3. QED BY <3>1, <3>2
  <2>2. CASE ~(Cardinality(ids) >= MaxPendingJobs)
    BY <2>2
  <2>3. QED BY <2>1, <2>2
<1>5. kept \subseteq ids
  OBVIOUS
<1>6. ids \cap sent = {} /\ (\A id \in ids : wsdJobs[id] = <<"meta", id>>)
  BY DEF PendingInv
<1>7. \A id \in 1..wsdNextJob : id \in ids \/ id \in sent \/ wsdNextJob - id >= MaxPendingJobs
  BY DEF PendingInv, Ids
<1> HIDE DEF ids, kept
<1>8. new \in Nat /\ (1..wsdNextJob) \subseteq 1..new /\ new \notin 1..wsdNextJob
      /\ new \in 1..new /\ (\A i \in 1..new : i = new \/ i \in 1..wsdNextJob)
      /\ (\A i \in 1..wsdNextJob : wsdNextJob - i >= MaxPendingJobs => new - i >= MaxPendingJobs)
  BY <1>3, WsdAssumption
<1> HIDE DEF new
<1>9. DOMAIN wsdJobs' = kept \cup {new}
  BY <1>2
<1>10. DOMAIN wsdJobs' \subseteq 1..new /\ sent' \subseteq 1..new
  BY <1>1, <1>3, <1>5, <1>8, <1>9
<1>11. DOMAIN wsdJobs' \cap sent' = {}
  BY <1>1, <1>3, <1>5, <1>6, <1>8, <1>9
<1>12. \A id \in DOMAIN wsdJobs' : wsdJobs'[id] = <<"meta", id>>
  BY <1>2, <1>5, <1>6, <1>9
<1>13. \A id \in 1..new : id \in DOMAIN wsdJobs' \/ id \in sent' \/ new - id >= MaxPendingJobs
  BY <1>1, <1>4, <1>7, <1>8, <1>9
<1>14. Ids' = 1..new
  BY <1>1 DEF Ids
<1>15. QED BY <1>1, <1>8, <1>10, <1>11, <1>12, <1>13, <1>14 DEF PendingInv

\* Being a member is true or false.
LEMMA MemberIsBoolean ==
    ASSUME NEW S, NEW x
    PROVE  (x \in S) \in BOOLEAN
OBVIOUS

LEMMA SendKeepsJobs ==
    ASSUME JobsInv, SendDocument
    PROVE  JobsInv'
<1>1. PICK id \in 0..MaxJobs, r \in Requests :
        /\ captured' = Append(captured,
                [id |-> id, request |-> r, doc |-> Document(r),
                 issued |-> id \in 1..wsdNextJob, again |-> id \in sent,
                 meta |-> IF id \in DOMAIN wsdJobs THEN wsdJobs[id] ELSE NoMeta,
                 younger |-> wsdNextJob - id])
        /\ wsdJobs' = [i \in DOMAIN wsdJobs \ {id} |-> wsdJobs[i]]
        /\ sent' = sent \cup ({id} \cap (1..wsdNextJob))
  BY DEF SendDocument
<1>2. wsdNextJob' = wsdNextJob /\ wsdNextJob \in Nat /\ Ids' = Ids
  BY DEF SendDocument, JobsInv, PendingInv, Ids
<1>3. PendingInv'
  <2>1. DOMAIN wsdJobs' = DOMAIN wsdJobs \ {id}
    BY <1>1
  <2>2. sent' = sent \cup ({id} \cap Ids)
    BY <1>1 DEF Ids
  <2>3. \A i \in Ids : i \in DOMAIN wsdJobs' \/ i \in sent' \/ wsdNextJob - i >= MaxPendingJobs
    BY <2>1, <2>2 DEF JobsInv, PendingInv
  <2>4. sent' \subseteq Ids /\ DOMAIN wsdJobs' \subseteq Ids /\ DOMAIN wsdJobs' \cap sent' = {}
    BY <2>1, <2>2 DEF JobsInv, PendingInv
  <2>5. \A i \in DOMAIN wsdJobs' : wsdJobs'[i] = <<"meta", i>>
    BY <1>1, <2>1 DEF JobsInv, PendingInv
  <2>6. QED BY <1>2, <2>3, <2>4, <2>5 DEF PendingInv
<1> DEFINE m == IF id \in DOMAIN wsdJobs THEN wsdJobs[id] ELSE NoMeta
           d == [id |-> id, request |-> r, doc |-> Document(r),
                 issued |-> id \in 1..wsdNextJob, again |-> id \in sent,
                 meta |-> m, younger |-> wsdNextJob - id]
           Fine(e) == \/ e.meta = <<"meta", e.id>> /\ e.issued /\ ~e.again
                      \/ e.meta = NoMeta /\ (~e.issued \/ e.again \/ e.younger >= MaxPendingJobs)
<1>4. \/ id \in DOMAIN wsdJobs /\ id \in Ids /\ id \notin sent /\ wsdJobs[id] = <<"meta", id>>
      \/ id \notin DOMAIN wsdJobs /\ id \notin Ids
      \/ id \notin DOMAIN wsdJobs /\ id \in sent
      \/ id \notin DOMAIN wsdJobs /\ wsdNextJob - id >= MaxPendingJobs
  BY DEF JobsInv, PendingInv
<1>5. Fine(d)
  BY <1>4 DEF Ids
<1>6. d \in Entries
  <2>1. Document(r) \in {"document", "envelope", "nothing"}
    BY DEF Document
  <2>2. m \in ({"meta"} \X Nat) \cup {NoMeta}
    <3>1. id \in Nat
      BY <1>1
    <3>2. <<"meta", id>> \in {"meta"} \X Nat
      BY <3>1
    <3>3. m = <<"meta", id>> \/ m = NoMeta
      BY <1>4
    <3>4. QED BY <3>2, <3>3
  <2>3. (id \in sent) \in BOOLEAN /\ (id \in 1..wsdNextJob) \in BOOLEAN
    BY MemberIsBoolean, Zenon
  <2>4. wsdNextJob - id \in Int /\ id \in Nat
    BY <1>1, <1>2
  <2> HIDE DEF m
  <2>5. QED BY <1>1, <2>1, <2>2, <2>3, <2>4 DEF Entries
<1>7. captured \in Seq(Entries) /\ \A i \in DOMAIN captured : Fine(captured[i])
  BY DEF JobsInv, CapturedInv, AttributedAsCreated
<1> HIDE DEF Fine
<1>8. captured' = Append(captured, d)
  BY <1>1
<1> HIDE DEF d
<1>9. captured' \in Seq(Entries)
  BY <1>6, <1>7, <1>8
<1>10. \A i \in DOMAIN captured' : captured'[i] = d \/ (i \in DOMAIN captured /\ captured'[i] = captured[i])
  BY <1>6, <1>7, <1>8
<1>11. \A i \in DOMAIN captured' : Fine(captured'[i])
  BY <1>5, <1>7, <1>10
<1>12. AttributedAsCreated'
  BY <1>11 DEF AttributedAsCreated, Fine
<1>13. QED BY <1>3, <1>9, <1>12 DEF JobsInv, CapturedInv

\* The steps that have nothing to do with jobs.
LEMMA OthersKeepJobs ==
    ASSUME JobsInv, UNCHANGED <<wsdJobs, wsdNextJob, captured, sent>>
    PROVE  JobsInv'
BY DEF JobsInv, PendingInv, Ids, CapturedInv, AttributedAsCreated

LEMMA WsdKeepsJobs ==
    ASSUME JobsInv, WsdNext \/ UNCHANGED wsdVars
    PROVE  JobsInv'
<1>1. CASE CreatePrintJob
  <2>1. PendingInv'
    BY <1>1, CreateKeepsPending DEF JobsInv
  <2>2. captured' = captured
    BY <1>1 DEF CreatePrintJob
  <2>3. QED BY <2>1, <2>2 DEF JobsInv, CapturedInv, AttributedAsCreated
<1>2. CASE SendDocument
  BY <1>2, SendKeepsJobs
<1>3. CASE StartWSD
  BY <1>3, OthersKeepJobs DEF StartWSD
<1>4. CASE ServeProbe
  BY <1>4, OthersKeepJobs DEF ServeProbe
<1>5. CASE CloseWSD
  BY <1>5, OthersKeepJobs DEF CloseWSD
<1>6. CASE SayBye
  BY <1>6, OthersKeepJobs DEF SayBye
<1>7. CASE CloseDiscovery
  BY <1>7, OthersKeepJobs DEF CloseDiscovery
<1>8. CASE UNCHANGED wsdVars
  BY <1>8, OthersKeepJobs DEF wsdVars
<1>9. QED BY <1>1, <1>2, <1>3, <1>4, <1>5, <1>6, <1>7, <1>8 DEF WsdNext

-----------------------------------------------------------------------------
(* Discovery by WSD *)

\* No Bye is written before Close.  Once one is, and every socket that is left
\* has had its own, nobody can have found the device again unnoticed.
ByeInv ==
    /\ device \in {"off", "up"} => byes = {}
    /\ device = "gone" => sockets = {}
    /\ (byes # {} /\ sockets \subseteq byes /\ ~wsdRaced) => found = {}

LEMMA WsdKeepsByes ==
    ASSUME ByeInv, WsdNext \/ UNCHANGED wsdVars
    PROVE  ByeInv'
<1>1. CASE StartWSD
  BY <1>1 DEF StartWSD, JoinDiscovery, ByeInv
<1>2. CASE ServeProbe
  <2>1. PICK h \in Hosts, s \in sockets :
          /\ found' = found \cup {h}
          /\ wsdRaced' = (wsdRaced \/ s \in byes)
          /\ UNCHANGED <<device, sockets, byes>>
    BY <1>2 DEF ServeProbe
  <2>2. CASE s \in byes
    <3>1. wsdRaced'
      BY <2>1, <2>2
    <3>2. QED BY <2>1, <3>1 DEF ByeInv
  <2>3. CASE s \notin byes
    <3>1. ~(sockets' \subseteq byes')
      BY <2>1, <2>3
    <3>2. QED BY <2>1, <3>1 DEF ByeInv
  <2>4. QED BY <2>2, <2>3
<1>3. CASE CloseWSD
  BY <1>3 DEF CloseWSD, ByeInv
<1>4. CASE SayBye
  BY <1>4 DEF SayBye, ByeInv
<1>5. CASE CloseDiscovery
  <2>1. PICK s \in sockets \cap byes : sockets' = sockets \ {s}
    BY <1>5 DEF CloseDiscovery
  <2>2. sockets' \subseteq byes => sockets \subseteq byes
    BY <2>1
  <2>3. device' = (IF sockets' = {} THEN "gone" ELSE "closing")
        /\ UNCHANGED <<byes, found, wsdRaced>>
    BY <1>5 DEF CloseDiscovery
  <2>4. QED BY <2>2, <2>3 DEF ByeInv
<1>6. CASE CreatePrintJob
  BY <1>6 DEF CreatePrintJob, ByeInv
<1>7. CASE SendDocument
  BY <1>7 DEF SendDocument, ByeInv
<1>8. CASE UNCHANGED wsdVars
  BY <1>8 DEF wsdVars, ByeInv
<1>9. QED BY <1>1, <1>2, <1>3, <1>4, <1>5, <1>6, <1>7, <1>8 DEF WsdNext

-----------------------------------------------------------------------------
(* The mDNS responder *)

\* Nothing is withdrawn before Close.  A browser that no socket reaches holds
\* only what it held.  One all of whose links have had the goodbye holds none
\* of our records but such as others announce under the same name, if nothing
\* was lost and nothing was sent on a link after its goodbye.
CacheInv ==
    /\ DOMAIN cache = Browsers
    /\ lost \in Nat
    /\ responder \in {"idle", "probing", "up"} => withdrawn = {}
    /\ \A b \in Browsers : Listens[b] = {} => cache[b] \subseteq Foreign
    /\ (lost = 0 /\ ~raced) =>
          \A b \in Browsers :
              Listens[b] \subseteq withdrawn => cache[b] \cap AllRecords \subseteq Foreign

\* A name, once settled on, stands for the same records.
LEMMA SameRecords ==
    ASSUME instance' = instance
    PROVE  AllRecords' = AllRecords
BY DEF AllRecords, SrvAndTxt, Owned, Ptr, Rec, HostRecords

\* Who of those reached did not hear is counted as lost.
LEMMA HeardByAll ==
    ASSUME NEW R \in SUBSET Browsers, NEW B \in SUBSET R, NEW n \in Nat
    PROVE  /\ n + Cardinality(R \ B) \in Nat
           /\ n + Cardinality(R \ B) = 0 => n = 0 /\ B = R
<1>1. IsFiniteSet(R \ B)
  BY FS_Subset, MdnsAssumption
<1>2. Cardinality(R \ B) \in Nat
  BY <1>1, FS_CardinalityType
<1>3. Cardinality(R \ B) = 0 => R \ B = {}
  BY <1>1, FS_EmptySet
<1>4. /\ n + Cardinality(R \ B) \in Nat
      /\ n + Cardinality(R \ B) = 0 => n = 0 /\ Cardinality(R \ B) = 0
  BY <1>2
<1>5. R \ B = {} => B = R
  OBVIOUS
<1>6. QED BY <1>3, <1>4, <1>5

\* A write of an announcement.
LEMMA AnnounceKeepsCaches ==
    ASSUME CacheInv, Announce
    PROVE  CacheInv'
<1>1. PICK c \in toSend.conns :
        /\ IF c \in open
           THEN Multicast(c, [b \in Browsers |-> cache[b] \cup AllRecords]) /\ Races(c)
           ELSE UNCHANGED <<cache, lost, raced>>
        /\ UNCHANGED <<responder, instance, open, withdrawn, answered>>
  BY DEF Announce
<1>2. AllRecords' = AllRecords
  BY <1>1, SameRecords
<1>3. CASE c \notin open
  BY <1>1, <1>2, <1>3 DEF CacheInv, Foreign
<1>4. CASE c \in open
  <2> DEFINE R == {b \in Browsers : c \in Listens[b]}
             held == [b \in Browsers |-> cache[b] \cup AllRecords]
  <2>1. PICK B \in SUBSET R :
          /\ lost' = lost + Cardinality(R \ B)
          /\ cache' = [b \in Browsers |-> IF b \in B THEN held[b] ELSE cache[b]]
    BY <1>1, <1>4 DEF Multicast
  <2>2. lost' \in Nat /\ (lost' = 0 => lost = 0 /\ B = R)
    BY <2>1, HeardByAll DEF CacheInv
  <2>3. raced' = (raced \/ c \in withdrawn)
    BY <1>1, <1>4 DEF Races
  <2>4. \A b \in B : c \in Listens[b]
    OBVIOUS
  <2>5. \A b \in Browsers : cache'[b] = IF b \in B THEN cache[b] \cup AllRecords ELSE cache[b]
    BY <2>1
  <2>6. \A b \in Browsers : Listens[b] = {} => cache'[b] \subseteq Foreign
    BY <2>4, <2>5 DEF CacheInv
  <2>7. ASSUME lost' = 0, ~raced', NEW b \in Browsers, Listens[b] \subseteq withdrawn
        PROVE  cache'[b] \cap AllRecords \subseteq Foreign
    <3>1. b \notin B
      BY <2>3, <2>4, <2>7
    <3>2. cache'[b] = cache[b]
      BY <2>5, <3>1
    <3>3. lost = 0 /\ ~raced
      BY <2>2, <2>3, <2>7
    <3>4. QED BY <2>7, <3>2, <3>3 DEF CacheInv
  <2>8. DOMAIN cache' = Browsers
    BY <2>1
  <2>9. QED BY <1>1, <1>2, <2>2, <2>6, <2>7, <2>8 DEF CacheInv, Foreign
<1>5. QED BY <1>3, <1>4

\* An answer.
LEMMA ServeKeepsCaches ==
    ASSUME CacheInv, Serve
    PROVE  CacheInv'
<1>0. PICK b \in Browsers, q \in Questions : \E c \in Listens[b] \cap open, listed \in Known(b, q) :
        LET out == {r \in AnswersFor(q) : ~RecordKnown(r, listed)}
        IN  /\ \/ cache' = [cache EXCEPT ![b] = @ \cup out] /\ UNCHANGED lost
               \/ lost' = lost + 1 /\ UNCHANGED cache
            /\ IF out = {} THEN UNCHANGED raced ELSE Races(c)
            /\ UNCHANGED <<responder, instance, withdrawn>>
  BY DEF Serve
<1>1. PICK c \in Listens[b] \cap open, listed \in Known(b, q) :
        LET out == {r \in AnswersFor(q) : ~RecordKnown(r, listed)}
        IN  /\ \/ cache' = [cache EXCEPT ![b] = @ \cup out] /\ UNCHANGED lost
               \/ lost' = lost + 1 /\ UNCHANGED cache
            /\ IF out = {} THEN UNCHANGED raced ELSE Races(c)
            /\ UNCHANGED <<responder, instance, withdrawn>>
  BY <1>0
<1> DEFINE out == {r \in AnswersFor(q) : ~RecordKnown(r, listed)}
<1>2. /\ \/ cache' = [cache EXCEPT ![b] = @ \cup out] /\ lost' = lost
         \/ lost' = lost + 1 /\ cache' = cache
      /\ IF out = {} THEN raced' = raced ELSE Races(c)
      /\ responder' = responder /\ instance' = instance /\ withdrawn' = withdrawn
  BY <1>1
<1> HIDE DEF out
<1>3. AllRecords' = AllRecords
  BY <1>2, SameRecords
<1>4. raced => raced'
  BY <1>2 DEF Races
<1>5. lost \in Nat /\ lost + 1 \in Nat /\ lost + 1 # 0
  BY DEF CacheInv
<1>6. c \in Listens[b]
  OBVIOUS
<1>7. CASE lost' = lost + 1 /\ cache' = cache
  <2>1. lost' \in Nat /\ lost' # 0
    BY <1>5, <1>7
  <2>2. QED BY <1>2, <1>3, <1>7, <2>1 DEF CacheInv, Foreign
<1>8. CASE cache' = [cache EXCEPT ![b] = @ \cup out] /\ lost' = lost
  <2>1. DOMAIN cache' = Browsers
    BY <1>8 DEF CacheInv
  <2>2. \A h \in Browsers : cache'[h] = IF h = b THEN cache[b] \cup out ELSE cache[h]
    BY <1>8 DEF CacheInv
  <2>3. \A h \in Browsers : Listens[h] = {} => cache'[h] \subseteq Foreign
    BY <1>6, <2>2 DEF CacheInv
  <2>4. ASSUME lost' = 0, ~raced', NEW h \in Browsers, Listens[h] \subseteq withdrawn
        PROVE  cache'[h] \cap AllRecords \subseteq Foreign
    <3>1. cache[h] \cap AllRecords \subseteq Foreign
      BY <1>4, <1>8, <2>4 DEF CacheInv
    <3>2. CASE h = b /\ out # {}
      <4>1. c \in withdrawn
        BY <1>6, <2>4, <3>2
      <4>2. raced'
        BY <1>2, <3>2, <4>1 DEF Races
      <4>3. QED BY <2>4, <4>2
    <3>3. CASE ~(h = b /\ out # {})
      BY <2>2, <3>1, <3>3
    <3>4. QED BY <3>2, <3>3
  <2>5. QED BY <1>2, <1>3, <1>5, <1>8, <2>1, <2>3, <2>4 DEF CacheInv, Foreign
<1>9. QED BY <1>2, <1>7, <1>8

\* A goodbye, heard by all it reaches or counted as lost.
LEMMA WithdrawKeepsCaches ==
    ASSUME CacheInv, Withdraw
    PROVE  CacheInv'
<1>1. PICK c \in open :
        /\ Multicast(c, [b \in Browsers |-> cache[b] \ Goodbye])
        /\ withdrawn' = withdrawn \cup {c}
  BY DEF Withdraw
<1>2. responder' = responder /\ instance' = instance /\ raced' = raced
      /\ responder = "closing"
  BY DEF Withdraw
<1>3. AllRecords' = AllRecords
  BY <1>2, SameRecords
<1> DEFINE R == {b \in Browsers : c \in Listens[b]}
           held == [b \in Browsers |-> cache[b] \ Goodbye]
<1>4. PICK B \in SUBSET R :
        /\ lost' = lost + Cardinality(R \ B)
        /\ cache' = [b \in Browsers |-> IF b \in B THEN held[b] ELSE cache[b]]
  BY <1>1 DEF Multicast
<1>5. lost' \in Nat /\ (lost' = 0 => lost = 0 /\ B = R)
  BY <1>4, HeardByAll DEF CacheInv
<1>6. \A b \in Browsers : cache'[b] = IF b \in B THEN cache[b] \ AllRecords ELSE cache[b]
  BY <1>4 DEF Goodbye
<1>7. \A b \in Browsers : Listens[b] = {} => cache'[b] \subseteq Foreign
  BY <1>6 DEF CacheInv
<1>8. ASSUME lost' = 0, ~raced', NEW b \in Browsers, Listens[b] \subseteq withdrawn'
      PROVE  cache'[b] \cap AllRecords \subseteq Foreign
  <2>1. lost = 0 /\ ~raced /\ B = R
    BY <1>2, <1>5, <1>8
  <2>2. CASE c \in Listens[b]
    <3>1. cache'[b] = cache[b] \ AllRecords
      BY <1>6, <2>1, <2>2
    <3>2. QED BY <3>1
  <2>3. CASE c \notin Listens[b]
    <3>1. Listens[b] \subseteq withdrawn
      BY <1>1, <1>8, <2>3
    <3>2. cache'[b] = cache[b]
      BY <1>6, <2>1, <2>3
    <3>3. QED BY <2>1, <3>1, <3>2 DEF CacheInv
  <2>4. QED BY <2>2, <2>3
<1>9. DOMAIN cache' = Browsers
  BY <1>4
<1>10. QED BY <1>2, <1>3, <1>5, <1>7, <1>8, <1>9 DEF CacheInv, Foreign

\* Records expire.
LEMMA ExpireKeepsCaches ==
    ASSUME CacheInv, Expire
    PROVE  CacheInv'
<1>1. PICK b \in Browsers, left \in {{"PTR", "SRV", "TXT"}, {}} :
        cache' = [cache EXCEPT ![b] = {r \in @ : r.type \in left}]
  BY DEF Expire
<1>2. responder' = responder /\ instance' = instance /\ withdrawn' = withdrawn
      /\ lost' = lost /\ raced' = raced
  BY DEF Expire
<1>3. AllRecords' = AllRecords
  BY <1>2, SameRecords
<1>4. DOMAIN cache' = Browsers /\ \A h \in Browsers : cache'[h] \subseteq cache[h]
  BY <1>1 DEF CacheInv
<1>5. QED BY <1>2, <1>3, <1>4 DEF CacheInv, Foreign

\* The name is settled on before anything is sent or withdrawn.
LEMMA ProbeKeepsCaches ==
    ASSUME CacheInv, Probe
    PROVE  CacheInv'
<1>1. withdrawn' = {} /\ withdrawn = {} /\ cache' = cache /\ lost' = lost /\ raced' = raced
  BY DEF Probe, CacheInv
<1>2. \A b \in Browsers : Listens[b] \subseteq withdrawn => cache[b] \subseteq Foreign
  BY <1>1 DEF CacheInv
<1>3. QED BY <1>1, <1>2 DEF CacheInv, Foreign

LEMMA MdnsKeepsCaches ==
    ASSUME CacheInv, MdnsNext \/ UNCHANGED mdnsVars
    PROVE  CacheInv'
<1>1. ASSUME UNCHANGED <<instance, withdrawn, cache, lost, raced>>,
             responder' \in {"idle", "probing", "up"} => withdrawn = {}
      PROVE  CacheInv'
  <2>1. AllRecords' = AllRecords
    BY <1>1, SameRecords
  <2>2. QED BY <1>1, <2>1 DEF CacheInv, Foreign
<1>2. CASE Join
  BY <1>1, <1>2 DEF Join, CacheInv
<1>3. CASE Probe
  BY <1>3, ProbeKeepsCaches
<1>4. CASE Announce
  BY <1>4, AnnounceKeepsCaches
<1>5. CASE NextRound
  BY <1>1, <1>5 DEF NextRound, CacheInv
<1>6. CASE Serve
  BY <1>6, ServeKeepsCaches
<1>7. CASE CloseResponder
  BY <1>1, <1>7 DEF CloseResponder
<1>8. CASE Withdraw
  BY <1>8, WithdrawKeepsCaches
<1>9. CASE CloseSocket
  BY <1>1, <1>9 DEF CloseSocket
<1>10. CASE Expire
  BY <1>10, ExpireKeepsCaches
<1>11. CASE UNCHANGED mdnsVars
  BY <1>1, <1>11 DEF mdnsVars, CacheInv
<1>12. QED BY <1>2, <1>3, <1>4, <1>5, <1>6, <1>7, <1>8, <1>9, <1>10, <1>11 DEF MdnsNext

-----------------------------------------------------------------------------
(* The order of the MIB *)

Names == Seq(Nat)

\* A run of the elements of a sequence, from place f to place l.
LEMMA RunIs ==
    ASSUME NEW S, NEW s \in Seq(S), NEW l \in Nat, l <= Len(s),
           NEW f \in Nat \ {0}, f <= l + 1
    PROVE  /\ SubSeq(s, f, l) \in Seq(S) /\ Len(SubSeq(s, f, l)) = l - f + 1
           /\ \A j \in 1..(l - f + 1) : SubSeq(s, f, l)[j] = s[f + j - 1]
<1>1. Len(s) \in Nat /\ \A j \in 1..Len(s) : s[j] \in S
  BY LenIs, ElementOfSeq
<1>2. \A j \in f..l : j \in 1..Len(s)
  BY <1>1
<1>3. \A j \in f..l : s[j] \in S
  BY <1>1, <1>2
<1>4. f \in Int /\ l \in Int /\ (IF f <= l THEN l - f + 1 ELSE 0) = l - f + 1
  OBVIOUS
<1>5. QED BY <1>3, <1>4, SubSeqProperties

\* The first parts of m numbers are the same.
LEMMA SameStart ==
    ASSUME NEW a \in Names, NEW b \in Names, NEW m \in Nat, m <= Len(a), m <= Len(b)
    PROVE  SubSeq(a, 1, m) = SubSeq(b, 1, m) <=> \A j \in 1..m : a[j] = b[j]
<1>1. Len(a) \in Nat /\ Len(b) \in Nat
  BY LenIs DEF Names
<1> DEFINE p == SubSeq(a, 1, m)
           q == SubSeq(b, 1, m)
<1>2. 1 \in Nat \ {0} /\ 1 <= m + 1 /\ m - 1 + 1 = m /\ \A j \in 1..m : 1 + j - 1 = j
  OBVIOUS
<1>3. p \in Seq(Nat) /\ Len(p) = m /\ \A j \in 1..m : p[j] = a[j]
  BY <1>2, RunIs DEF Names
<1>4. q \in Seq(Nat) /\ Len(q) = m /\ \A j \in 1..m : q[j] = b[j]
  BY <1>2, RunIs DEF Names
<1> HIDE DEF p, q
<1>5. p = q <=> \A j \in 1..m : p[j] = q[j]
  BY <1>3, <1>4, SeqEqual
<1>6. QED BY <1>3, <1>4, <1>5 DEF p, q

\* a and b agree before place i, where a ends or has the smaller number.
LessAt(a, b, i) ==
    /\ i \in 1..Len(b) /\ i <= Len(a) + 1
    /\ \A j \in 1..(i - 1) : a[j] = b[j]
    /\ i = Len(a) + 1 \/ a[i] < b[i]

LEMMA LessIs ==
    ASSUME NEW a \in Names, NEW b \in Names
    PROVE  Less(a, b) <=> \E i \in Nat : LessAt(a, b, i)
<1>1. Len(a) \in Nat /\ Len(b) \in Nat
  BY LenIs DEF Names
<1>2. IsStrictPrefix(a, b) <=> LessAt(a, b, Len(a) + 1)
  <2>1. IsPrefix(a, b) <=> Len(a) <= Len(b) /\ \A j \in 1..Len(a) : a[j] = b[j]
    BY PrefixIs DEF Names
  <2>2. Len(a) + 1 - 1 = Len(a) /\ (Len(a) + 1 \in 1..Len(b) <=> Len(a) < Len(b))
    BY <1>1
  <2>3. IsPrefix(a, b) => (a # b <=> Len(a) < Len(b))
    BY <1>1, <2>1, LongPrefixIsWhole DEF Names
  <2>4. QED BY <1>1, <2>1, <2>2, <2>3 DEF IsStrictPrefix, LessAt
<1>3. ASSUME NEW i \in 1..Len(b), i <= Len(a)
      PROVE  (SubSeq(a, 1, i - 1) = SubSeq(b, 1, i - 1) /\ a[i] < b[i]) <=> LessAt(a, b, i)
  <2>1. i - 1 \in Nat /\ i - 1 <= Len(a) /\ i - 1 <= Len(b) /\ i # Len(a) + 1 /\ i <= Len(a) + 1
    BY <1>1, <1>3
  <2>2. SubSeq(a, 1, i - 1) = SubSeq(b, 1, i - 1) <=> \A j \in 1..(i - 1) : a[j] = b[j]
    BY <2>1, SameStart
  <2>3. QED BY <2>1, <2>2 DEF LessAt
<1>4. ASSUME Less(a, b) PROVE \E i \in Nat : LessAt(a, b, i)
  <2>1. CASE IsStrictPrefix(a, b)
    BY <1>1, <1>2, <2>1
  <2>2. CASE ~IsStrictPrefix(a, b)
    <3>1. PICK i \in 1..Len(b) :
            i <= Len(a) /\ SubSeq(a, 1, i - 1) = SubSeq(b, 1, i - 1) /\ a[i] < b[i]
      BY <1>4, <2>2 DEF Less
    <3>2. i \in Nat
      BY <3>1
    <3>3. QED BY <1>3, <3>1, <3>2
  <2>3. QED BY <2>1, <2>2
<1>5. ASSUME NEW i \in Nat, LessAt(a, b, i) PROVE Less(a, b)
  <2>1. i \in 1..Len(b) /\ (i = Len(a) + 1 \/ i <= Len(a))
    BY <1>1, <1>5 DEF LessAt
  <2>2. CASE i = Len(a) + 1
    BY <1>2, <1>5, <2>2 DEF Less
  <2>3. CASE i <= Len(a)
    BY <1>3, <1>5, <2>1, <2>3 DEF Less
  <2>4. QED BY <2>1, <2>2, <2>3
<1>6. QED BY <1>4, <1>5

LEMMA LessIsIrreflexive ==
    ASSUME NEW a \in Names
    PROVE  ~Less(a, a)
<1> SUFFICES ASSUME Less(a, a) PROVE FALSE
  OBVIOUS
<1>1. Len(a) \in Nat /\ \A i \in 1..Len(a) : a[i] \in Nat
  BY LenIs, ElementOfSeq DEF Names
<1>2. PICK i \in Nat : LessAt(a, a, i)
  BY LessIs
<1>3. i \in 1..Len(a) /\ i # Len(a) + 1 /\ a[i] < a[i]
  BY <1>1, <1>2 DEF LessAt
<1>4. a[i] \in Nat
  BY <1>1, <1>3
<1>5. QED BY <1>3, <1>4

LEMMA LessIsTransitive ==
    ASSUME NEW a \in Names, NEW b \in Names, NEW c \in Names, Less(a, b), Less(b, c)
    PROVE  Less(a, c)
<1>1. /\ Len(a) \in Nat /\ \A i \in 1..Len(a) : a[i] \in Nat
      /\ Len(b) \in Nat /\ \A i \in 1..Len(b) : b[i] \in Nat
      /\ Len(c) \in Nat /\ \A i \in 1..Len(c) : c[i] \in Nat
  BY LenIs, ElementOfSeq DEF Names
<1>2. PICK i \in Nat : LessAt(a, b, i)
  BY LessIs
<1>3. PICK k \in Nat : LessAt(b, c, k)
  BY LessIs
<1>4. /\ i \in 1..Len(b) /\ i <= Len(a) + 1 /\ (i = Len(a) + 1 \/ a[i] < b[i])
      /\ \A j \in 1..(i - 1) : a[j] = b[j]
  BY <1>2 DEF LessAt
<1>5. /\ k \in 1..Len(c) /\ k <= Len(b) + 1 /\ (k = Len(b) + 1 \/ b[k] < c[k])
      /\ \A j \in 1..(k - 1) : b[j] = c[j]
  BY <1>3 DEF LessAt
<1>6. CASE i < k
  <2>1. i \in 1..Len(c) /\ i \in 1..(k - 1) /\ \A j \in 1..(i - 1) : j \in 1..(k - 1)
    BY <1>4, <1>5, <1>6
  <2>2. b[i] = c[i] /\ \A j \in 1..(i - 1) : a[j] = c[j]
    BY <1>4, <1>5, <2>1
  <2>3. i = Len(a) + 1 \/ a[i] < c[i]
    BY <1>4, <2>2
  <2>4. LessAt(a, c, i)
    BY <1>4, <2>1, <2>2, <2>3 DEF LessAt
  <2>5. QED BY <2>4, LessIs
<1>7. CASE i = k
  <2>1. k # Len(b) + 1 /\ b[k] < c[k]
    BY <1>1, <1>4, <1>5, <1>7
  <2>2. \A j \in 1..(i - 1) : a[j] = c[j]
    BY <1>4, <1>5, <1>7
  <2>3. i = Len(a) + 1 \/ a[i] < c[i]
    <3>1. ASSUME i # Len(a) + 1 PROVE a[i] < c[i]
      <4>1. i \in 1..Len(a) /\ a[i] < b[i] /\ b[i] < c[i] /\ i \in 1..Len(b) /\ i \in 1..Len(c)
        BY <1>1, <1>4, <1>5, <1>7, <2>1, <3>1
      <4>2. a[i] \in Nat /\ b[i] \in Nat /\ c[i] \in Nat
        BY <1>1, <4>1
      <4>3. QED BY <4>1, <4>2
    <3>2. QED BY <3>1
  <2>4. LessAt(a, c, i)
    BY <1>4, <1>5, <1>7, <2>2, <2>3 DEF LessAt
  <2>5. QED BY <2>4, LessIs
<1>8. CASE k < i
  <2>1. /\ k \in 1..(i - 1) /\ k \in 1..Len(b) /\ k <= Len(a) + 1 /\ k # Len(b) + 1
        /\ \A j \in 1..(k - 1) : j \in 1..(i - 1)
    BY <1>1, <1>4, <1>5, <1>8
  <2>2. a[k] = b[k] /\ b[k] < c[k] /\ \A j \in 1..(k - 1) : a[j] = c[j]
    BY <1>4, <1>5, <2>1
  <2>3. LessAt(a, c, k)
    BY <1>5, <2>1, <2>2 DEF LessAt
  <2>4. QED BY <2>3, LessIs
<1>9. QED BY <1>6, <1>7, <1>8

LEMMA LessIsTotal ==
    ASSUME NEW a \in Names, NEW b \in Names, a # b
    PROVE  Less(a, b) \/ Less(b, a)
<1>1. /\ Len(a) \in Nat /\ \A i \in 1..Len(a) : a[i] \in Nat
      /\ Len(b) \in Nat /\ \A i \in 1..Len(b) : b[i] \in Nat
  BY LenIs, ElementOfSeq DEF Names
<1> DEFINE D == {i \in Nat \ {0} : i > Len(a) \/ i > Len(b) \/ a[i] # b[i]}
<1>2. Len(a) + 1 \in D
  BY <1>1
<1>3. D \in SUBSET Nat /\ D # {}
  BY <1>2
<1>4. PICK i \in D : \A j \in D : i <= j
  <2> HIDE DEF D
  <2>1. QED BY <1>3, MinIsLeast
<1>5. i \in Nat /\ i # 0 /\ (i > Len(a) \/ i > Len(b) \/ a[i] # b[i])
  BY <1>4
<1>6. \A j \in 1..(i - 1) : j <= Len(a) /\ j <= Len(b) /\ a[j] = b[j]
  <2>1. SUFFICES ASSUME NEW j \in 1..(i - 1) PROVE j <= Len(a) /\ j <= Len(b) /\ a[j] = b[j]
    OBVIOUS
  <2>2. j \in Nat \ {0} /\ j < i
    BY <1>5
  <2>3. j \notin D
    BY <1>4, <1>5, <2>2
  <2>4. QED BY <1>1, <2>2, <2>3
<1> HIDE DEF D
<1>7. i <= Len(a) + 1 /\ i <= Len(b) + 1
  <2>1. CASE i = 1
    BY <1>1, <2>1
  <2>2. CASE i # 1
    <3>1. i - 1 \in 1..(i - 1)
      BY <1>5, <2>2
    <3>2. i - 1 <= Len(a) /\ i - 1 <= Len(b)
      BY <1>6, <3>1
    <3>3. QED BY <1>1, <1>5, <3>2
  <2>3. QED BY <2>1, <2>2
<1>8. CASE i = Len(a) + 1 /\ i = Len(b) + 1
  <2>1. Len(a) = Len(b) /\ i - 1 = Len(a)
    BY <1>1, <1>8
  <2>2. \A j \in 1..Len(a) : a[j] = b[j]
    BY <1>6, <2>1
  <2>3. a = b
    BY <2>1, <2>2, SeqEqual DEF Names
  <2>4. QED BY <2>3
<1>9. CASE i = Len(a) + 1 /\ i # Len(b) + 1
  <2>1. LessAt(a, b, i)
    BY <1>1, <1>5, <1>6, <1>7, <1>9 DEF LessAt
  <2>2. QED BY <1>5, <2>1, LessIs
<1>10. CASE i # Len(a) + 1 /\ i = Len(b) + 1
  <2>1. LessAt(b, a, i)
    BY <1>1, <1>5, <1>6, <1>7, <1>10 DEF LessAt
  <2>2. QED BY <1>5, <2>1, LessIs
<1>11. CASE i # Len(a) + 1 /\ i # Len(b) + 1
  <2>1. i \in 1..Len(a) /\ i \in 1..Len(b) /\ a[i] # b[i]
    BY <1>1, <1>5, <1>7, <1>11
  <2>2. a[i] \in Nat /\ b[i] \in Nat
    BY <1>1, <2>1
  <2>3. CASE a[i] < b[i]
    <3>1. LessAt(a, b, i)
      BY <1>6, <1>7, <2>1, <2>3 DEF LessAt
    <3>2. QED BY <1>5, <3>1, LessIs
  <2>4. CASE b[i] < a[i]
    <3>1. LessAt(b, a, i)
      BY <1>6, <1>7, <2>1, <2>4 DEF LessAt
    <3>2. QED BY <1>5, <3>1, LessIs
  <2>5. QED BY <2>1, <2>2, <2>3, <2>4
<1>12. QED BY <1>8, <1>9, <1>10, <1>11

\* The MIB in some order, as a function from places.
LEMMA OidsAre ==
    /\ IsFiniteSet(Oids) /\ Cardinality(Oids) \in Nat /\ None \notin Oids
    /\ \A o \in Oids : o \in Names /\ o # <<>>
    /\ \E f \in [1..Cardinality(Oids) -> Oids] :
          /\ \A i, j \in 1..Cardinality(Oids) : f[i] = f[j] => i = j
          /\ \A o \in Oids : \E i \in 1..Cardinality(Oids) : f[i] = o
<1>1. IsFiniteSet(Oids) /\ None \notin Oids /\ \A o \in Oids : o \in Names /\ o # <<>>
  BY SnmpAssumption DEF Names
<1> DEFINE n == Cardinality(Oids)
<1>2. n \in Nat /\ Bijection(1..n, Oids) # {}
  BY <1>1, FS_CardinalityType DEF ExistsBijection
<1> HIDE DEF n
<1>3. PICK f : f \in Bijection(1..n, Oids)
  BY <1>2
<1>4. /\ f \in [1..n -> Oids] /\ IsInjective(f)
      /\ \A o \in Oids : \E i \in 1..n : f[i] = o
  BY <1>3 DEF Bijection, Injection, Surjection
<1>5. \A i, j \in 1..n : f[i] = f[j] => i = j
  BY <1>4 DEF IsInjective
<1>6. QED BY <1>1, <1>2, <1>4, <1>5 DEF n

\* A finite set of OIDs can be sorted: each goes to the place that is the number
\* of those that are not greater.
LEMMA Sortable ==
    \E s \in [1..Cardinality(Oids) -> Oids] :
        /\ Range(s) = Oids
        /\ \A i, j \in 1..Cardinality(Oids) : i < j => ~Less(s[j], s[i])
<1> DEFINE n == Cardinality(Oids)
<1>1. PICK f \in [1..n -> Oids] : /\ \A i, j \in 1..n : f[i] = f[j] => i = j
                                  /\ \A o \in Oids : \E i \in 1..n : f[i] = o
  BY OidsAre
<1>2. n \in Nat /\ \A i \in 1..n : f[i] \in Oids /\ f[i] \in Names
  BY <1>1, OidsAre
<1> HIDE DEF n
<1>3. IsFiniteSet(1..n) /\ Cardinality(1..n) = n
  BY <1>2, FS_Interval
<1> DEFINE below == [i \in 1..n |-> {j \in 1..n : ~Less(f[i], f[j])}]
           r == [i \in 1..n |-> Cardinality(below[i])]
<1>4. ASSUME NEW i \in 1..n
      PROVE  below[i] \in SUBSET (1..n) /\ i \in below[i] /\ IsFiniteSet(below[i])
             /\ r[i] = Cardinality(below[i]) /\ r[i] \in 1..n
  <2>1. ~Less(f[i], f[i])
    BY <1>2, LessIsIrreflexive
  <2>2. below[i] \in SUBSET (1..n) /\ i \in below[i] /\ r[i] = Cardinality(below[i])
    BY <2>1
  <2> HIDE DEF below, r
  <2>3. IsFiniteSet(below[i]) /\ Cardinality(below[i]) <= n
    BY <1>3, <2>2, FS_Subset
  <2>4. Cardinality(below[i]) \in Nat /\ Cardinality(below[i]) # 0
    BY <2>2, <2>3, FS_CardinalityType, FS_EmptySet
  <2>5. QED BY <1>2, <2>2, <2>3, <2>4
<1>5. ASSUME NEW i \in 1..n, NEW j \in 1..n, Less(f[i], f[j])
      PROVE  r[i] < r[j]
  <2>1. f[i] \in Names /\ f[j] \in Names
    BY <1>2
  <2>2. j \notin below[i]
    BY <1>5
  <2>3. ASSUME NEW m \in below[i] PROVE m \in below[j]
    <3>1. m \in 1..n /\ ~Less(f[i], f[m])
      BY <2>3
    <3>2. f[m] \in Names
      BY <1>2, <3>1
    <3>3. ASSUME Less(f[j], f[m]) PROVE FALSE
      BY <1>5, <2>1, <3>1, <3>2, <3>3, LessIsTransitive
    <3>4. QED BY <3>1, <3>3
  <2> HIDE DEF below, r
  <2>4. below[i] \in SUBSET below[j] /\ below[i] # below[j]
    BY <1>4, <2>2, <2>3
  <2>5. /\ Cardinality(below[i]) <= Cardinality(below[j])
        /\ Cardinality(below[i]) # Cardinality(below[j])
    BY <1>4, <2>4, FS_Subset
  <2>6. r[i] \in Nat /\ r[j] \in Nat /\ r[i] <= r[j] /\ r[i] # r[j]
    BY <1>4, <2>5
  <2>7. QED BY <2>6
<1>6. r \in [1..n -> 1..n]
  BY <1>4
<1> HIDE DEF below, r
<1>7. \A i, j \in 1..n : r[i] = r[j] => i = j
  <2> SUFFICES ASSUME NEW i \in 1..n, NEW j \in 1..n, i # j PROVE r[i] # r[j]
    OBVIOUS
  <2>1. f[i] # f[j] /\ f[i] \in Names /\ f[j] \in Names
    BY <1>1, <1>2
  <2>2. Less(f[i], f[j]) \/ Less(f[j], f[i])
    BY <2>1, LessIsTotal
  <2>3. r[i] < r[j] \/ r[j] < r[i]
    BY <1>5, <2>2
  <2>4. r[i] \in Nat /\ r[j] \in Nat
    BY <1>4
  <2>5. QED BY <2>3, <2>4
<1>8. \A k \in 1..n : \E i \in 1..n : r[i] = k
  <2>1. r \in Injection(1..n, 1..n)
    BY <1>6, <1>7 DEF Injection, IsInjective
  <2>2. r \in Surjection(1..n, 1..n)
    BY <1>3, <2>1, FS_Injection
  <2>3. QED BY <2>2 DEF Surjection
<1> DEFINE p == [k \in 1..n |-> CHOOSE i \in 1..n : r[i] = k]
           s == [k \in 1..n |-> f[p[k]]]
<1>9. \A k \in 1..n : p[k] \in 1..n /\ r[p[k]] = k
  BY <1>8
<1>10. \A k \in 1..n : s[k] = f[p[k]]
  OBVIOUS
<1> HIDE DEF p
<1>11. s \in [1..n -> Oids]
  BY <1>2, <1>9
<1> HIDE DEF s
<1>12. Range(s) = Oids
  <2>1. ASSUME NEW o \in Oids PROVE \E k \in 1..n : s[k] = o
    <3>1. PICK i \in 1..n : f[i] = o
      BY <1>1
    <3>2. r[i] \in 1..n
      BY <1>4
    <3>3. p[r[i]] = i
      BY <1>7, <1>9, <3>2
    <3>4. QED BY <1>10, <3>1, <3>2, <3>3
  <2>2. QED BY <1>11, <2>1 DEF Range
<1>13. \A i, j \in 1..n : i < j => ~Less(s[j], s[i])
  <2> SUFFICES ASSUME NEW i \in 1..n, NEW j \in 1..n, Less(s[j], s[i]) PROVE ~(i < j)
    OBVIOUS
  <2>1. Less(f[p[j]], f[p[i]]) /\ p[i] \in 1..n /\ p[j] \in 1..n
    BY <1>9, <1>10
  <2>2. r[p[j]] < r[p[i]]
    BY <1>5, <2>1
  <2>3. j < i
    BY <1>9, <2>2
  <2>4. QED BY <1>2, <2>3
<1>14. QED BY <1>11, <1>12, <1>13 DEF n

\* The MIB is strictly increasing, and has each of the OIDs.
LEMMA MibIs ==
    /\ Mib \in Seq(Oids) /\ Len(Mib) = Cardinality(Oids) /\ Len(Mib) \in Nat
    /\ \A i \in 1..Len(Mib) : Mib[i] \in Oids
    /\ \A i, j \in 1..Len(Mib) : i < j => Less(Mib[i], Mib[j])
<1> DEFINE n == Cardinality(Oids)
<1>1. /\ Mib \in [1..n -> Oids] /\ Range(Mib) = Oids
      /\ \A i, j \in 1..n : i < j => ~Less(Mib[j], Mib[i])
  BY Sortable DEF Mib
<1>2. n \in Nat /\ IsFiniteSet(Oids)
  BY OidsAre
<1> HIDE DEF n
<1>3. Mib \in Seq(Oids)
  BY <1>1, <1>2, SeqDef
<1>4. Len(Mib) = n
  BY <1>1, <1>2, <1>3, LenIs, LenProperties
<1>5. IsFiniteSet(1..n) /\ Cardinality(1..n) = n
  BY <1>2, FS_Interval
<1>6. \A o \in Oids : \E i \in 1..n : Mib[i] = o
  BY <1>1 DEF Range
<1>7. Mib \in Surjection(1..n, Oids)
  BY <1>1, <1>6 DEF Surjection
<1>8. \A i, j \in 1..n : Mib[i] = Mib[j] => i = j
  <2>1. Mib \in Injection(1..n, Oids)
    BY <1>5, <1>7, FS_Surjection DEF n
  <2>2. QED BY <1>1, <2>1 DEF Injection, IsInjective
<1>9. ASSUME NEW i \in 1..n, NEW j \in 1..n, i < j PROVE Less(Mib[i], Mib[j])
  <2>1. Mib[i] \in Names /\ Mib[j] \in Names
    BY <1>1, OidsAre
  <2>2. Mib[i] # Mib[j]
    BY <1>2, <1>8, <1>9
  <2>3. ~Less(Mib[j], Mib[i])
    BY <1>1, <1>9
  <2>4. QED BY <2>1, <2>2, <2>3, LessIsTotal
<1>10. QED BY <1>1, <1>2, <1>3, <1>4, <1>9 DEF n

-----------------------------------------------------------------------------
(* What a request is answered with *)

\* Where a manager is that has collected k entries.
Place(k) == IF k = 0 THEN <<>> ELSE Mib[k]

Places == 0..Len(Mib)

LEMMA PlaceIs ==
    ASSUME NEW k \in Places
    PROVE  /\ Place(k) \in Names
           /\ \A i \in 1..Len(Mib) : Less(Place(k), Mib[i]) <=> i > k
<1> DEFINE n == Len(Mib)
<1>1. /\ n \in Nat /\ \A i \in 1..n : Mib[i] \in Names /\ Mib[i] # <<>>
      /\ \A i, j \in 1..n : i < j => Less(Mib[i], Mib[j])
  BY MibIs, OidsAre
<1>2. k \in 0..n
  BY DEF Places
<1> HIDE DEF n
<1>3. CASE k = 0
  <2> DEFINE e == << >>
  <2>1. e \in Names /\ Len(e) = 0 /\ Place(k) = e
    BY <1>3 DEF Names, Place
  <2> HIDE DEF e
  <2>2. ASSUME NEW i \in 1..n PROVE Less(e, Mib[i]) /\ i > k
    <3>1. Mib[i] \in Names /\ Len(Mib[i]) \in Nat /\ Len(Mib[i]) # 0
      BY <1>1, LenIs DEF Names
    <3>2. \A j \in 1..(1 - 1) : FALSE
      OBVIOUS
    <3>3. LessAt(e, Mib[i], 1)
      BY <2>1, <3>1, <3>2 DEF LessAt
    <3>4. Less(e, Mib[i])
      BY <2>1, <3>1, <3>3, LessIs
    <3>5. QED BY <1>3, <2>2, <3>4
  <2>3. QED BY <2>1, <2>2 DEF n
<1>4. CASE k # 0
  <2>1. k \in 1..n /\ Place(k) = Mib[k] /\ Mib[k] \in Names
    BY <1>1, <1>2, <1>4 DEF Place
  <2>2. ASSUME NEW i \in 1..n PROVE Less(Mib[k], Mib[i]) <=> i > k
    <3>1. CASE i > k
      BY <1>1, <2>1, <3>1
    <3>2. CASE i = k
      BY <2>1, <3>2, LessIsIrreflexive
    <3>3. CASE i < k
      <4>1. Less(Mib[i], Mib[k]) /\ Mib[i] \in Names
        BY <1>1, <2>1, <3>3
      <4>2. ~Less(Mib[k], Mib[i])
        BY <2>1, <4>1, LessIsIrreflexive, LessIsTransitive
      <4>3. QED BY <2>1, <3>3, <4>2
    <3>4. QED BY <2>1, <3>1, <3>2, <3>3
  <2>3. QED BY <2>1, <2>2 DEF n
<1>5. QED BY <1>3, <1>4

\* A place is where one walk only can be.
LEMMA PlacesDiffer ==
    ASSUME NEW k \in Places, NEW l \in Places, Place(k) = Place(l)
    PROVE  k = l
<1>1. Len(Mib) \in Nat
  BY MibIs
<1>2. \A i \in 1..Len(Mib) : i > k <=> i > l
  BY PlaceIs
<1>3. k \in Nat /\ l \in Nat /\ k <= Len(Mib) /\ l <= Len(Mib)
  BY <1>1 DEF Places
<1>4. CASE k < l
  <2>1. l \in 1..Len(Mib) /\ l > k
    BY <1>1, <1>3, <1>4
  <2>2. l > l
    BY <1>2, <2>1
  <2>3. QED BY <1>3, <2>2
<1>5. CASE l < k
  <2>1. k \in 1..Len(Mib) /\ k > l
    BY <1>1, <1>3, <1>5
  <2>2. k > k
    BY <1>2, <2>1
  <2>3. QED BY <1>3, <2>2
<1>6. QED BY <1>3, <1>4, <1>5

\* The place after k is the first one whose entry is greater.
LEMMA FirstGreater ==
    ASSUME NEW k \in Places, NEW i \in 1..(Len(Mib) + 1),
           i > Len(Mib) \/ Less(Place(k), Mib[i]),
           \A j \in 1..(i - 1) : ~Less(Place(k), Mib[j])
    PROVE  i = k + 1
<1>1. Len(Mib) \in Nat /\ k \in Nat /\ k <= Len(Mib)
  BY MibIs DEF Places
<1>2. i > k
  <2>1. CASE i > Len(Mib)
    BY <1>1, <2>1
  <2>2. CASE ~(i > Len(Mib))
    <3>1. i \in 1..Len(Mib) /\ Less(Place(k), Mib[i])
      BY <1>1, <2>2
    <3>2. QED BY <3>1, PlaceIs
  <2>3. QED BY <2>1, <2>2
<1>3. ~(i > k + 1)
  <2> SUFFICES ASSUME i > k + 1 PROVE FALSE
    OBVIOUS
  <2>1. k + 1 \in 1..(i - 1) /\ k + 1 \in 1..Len(Mib) /\ k + 1 > k
    BY <1>1
  <2>2. Less(Place(k), Mib[k + 1])
    BY <2>1, PlaceIs
  <2>3. QED BY <2>1, <2>2
<1>4. QED BY <1>1, <1>2, <1>3

LEMMA AfterIs ==
    ASSUME NEW k \in Places, k < Len(Mib)
    PROVE  /\ k + 1 \in 1..Len(Mib) /\ Less(Place(k), Mib[k + 1])
           /\ \A j \in 1..(k + 1 - 1) : ~Less(Place(k), Mib[j])
<1>1. Len(Mib) \in Nat /\ k \in Nat
  BY MibIs DEF Places
<1>2. k + 1 \in 1..Len(Mib) /\ k + 1 > k
  BY <1>1
<1>3. \A j \in 1..(k + 1 - 1) : j \in 1..Len(Mib) /\ ~(j > k)
  BY <1>1
<1>4. QED BY <1>2, <1>3, PlaceIs

\* GETNEXT goes one entry on, and has none after the last.
LEMMA NextEntryIs ==
    ASSUME NEW k \in Places
    PROVE  NextEntry(Place(k)) = IF k < Len(Mib) THEN Mib[k + 1] ELSE None
<1>1. Len(Mib) \in Nat /\ k \in Nat /\ k <= Len(Mib) /\ DOMAIN Mib = 1..Len(Mib)
  BY MibIs, LenIs DEF Places
<1> DEFINE o == Place(k)
           First1(i) == Less(o, Mib[i]) /\ \A j \in 1..(i - 1) : ~Less(o, Mib[j])
<1>2. CASE k < Len(Mib)
  <2>1. k + 1 \in DOMAIN Mib /\ First1(k + 1)
    BY <1>1, <1>2, AfterIs
  <2>2. ASSUME NEW i \in DOMAIN Mib, First1(i) PROVE i = k + 1
    <3>1. i \in 1..(Len(Mib) + 1)
      BY <1>1
    <3>2. QED BY <2>2, <3>1, FirstGreater
  <2> HIDE DEF First1
  <2>3. (CHOOSE i \in DOMAIN Mib : First1(i)) = k + 1
    BY <2>1, <2>2
  <2>4. QED BY <1>2, <2>1, <2>3 DEF NextEntry, First1
<1>3. CASE ~(k < Len(Mib))
  <2>1. \A i \in DOMAIN Mib : ~(i > k)
    BY <1>1, <1>3
  <2>2. \A i \in DOMAIN Mib : ~Less(o, Mib[i])
    BY <1>1, <2>1, PlaceIs
  <2>3. QED BY <1>3, <2>2 DEF NextEntry
<1>4. QED BY <1>2, <1>3

\* What follows place k, up to place l; the end is told at the last place only.
Follows(pdu, k, l) ==
    /\ pdu.oids = SubSeq(Mib, k + 1, l)
    /\ pdu.end => l = Len(Mib)

LEMMA PduIs ==
    ASSUME NEW x, NEW y
    PROVE  [oids |-> x, end |-> y].oids = x /\ [oids |-> x, end |-> y].end = y
OBVIOUS

LEMMA MinOfTwo ==
    ASSUME NEW a \in Int, NEW b \in Int
    PROVE  Min({a, b}) = IF a <= b THEN a ELSE b
<1> DEFINE m == IF a <= b THEN a ELSE b
<1>1. m \in {a, b} /\ \A y \in {a, b} : m <= y
  OBVIOUS
<1>2. \A x \in {a, b} : (\A y \in {a, b} : x <= y) => x = m
  OBVIOUS
<1> HIDE DEF m
<1>3. QED BY <1>1, <1>2 DEF Min, m

\* Where a GETBULK starts.
Starts(o, i) == (i > Len(Mib) \/ Less(o, Mib[i])) /\ \A j \in 1..(i - 1) : ~Less(o, Mib[j])

LEMMA StartsAfter ==
    ASSUME NEW k \in Places
    PROVE  /\ k + 1 \in 1..(Len(Mib) + 1) /\ Starts(Place(k), k + 1)
           /\ \A i \in 1..(Len(Mib) + 1) : Starts(Place(k), i) => i = k + 1
<1>1. Len(Mib) \in Nat /\ k \in Nat /\ k <= Len(Mib)
  BY MibIs DEF Places
<1>2. Starts(Place(k), k + 1)
  <2>1. CASE k < Len(Mib)
    <3>1. Less(Place(k), Mib[k + 1]) /\ \A j \in 1..(k + 1 - 1) : ~Less(Place(k), Mib[j])
      BY <2>1, AfterIs
    <3>2. QED BY <1>1, <3>1 DEF Starts
  <2>2. CASE k = Len(Mib)
    <3>1. \A j \in 1..(k + 1 - 1) : j \in 1..Len(Mib) /\ ~(j > k)
      BY <1>1, <2>2
    <3>2. \A j \in 1..(k + 1 - 1) : ~Less(Place(k), Mib[j])
      BY <3>1, PlaceIs
    <3>3. k + 1 > Len(Mib)
      BY <1>1, <2>2
    <3>4. QED BY <1>1, <3>2, <3>3 DEF Starts
  <2>3. QED BY <1>1, <2>1, <2>2
<1>3. \A i \in 1..(Len(Mib) + 1) : Starts(Place(k), i) => i = k + 1
  BY FirstGreater DEF Starts
<1>4. QED BY <1>1, <1>2, <1>3

\* GETBULK goes up to m entries on.
LEMMA BulkIs ==
    ASSUME NEW k \in Places, NEW m \in Nat
    PROVE  \E l \in k..Len(Mib) : Follows(BulkFrom(Place(k), m), k, l)
<1> DEFINE n == Len(Mib)
           o == Place(k)
           c == CHOOSE i \in 1..(n + 1) : Starts(o, i)
<1>1. n \in Nat /\ k \in Nat /\ k <= n
  BY MibIs DEF Places
<1>4. c = k + 1
  BY StartsAfter
<1>5. BulkFrom(o, m) = [oids |-> SubSeq(Mib, c, Min({c + m - 1, n})), end |-> c + m - 1 > n]
  BY DEF BulkFrom, Starts
<1> DEFINE e == c + m - 1 > n
<1>12. BulkFrom(o, m).oids = SubSeq(Mib, c, Min({c + m - 1, n})) /\ BulkFrom(o, m).end = e
  <2> DEFINE x == SubSeq(Mib, c, Min({c + m - 1, n}))
  <2>1. BulkFrom(o, m) = [oids |-> x, end |-> e]
    BY <1>5
  <2> HIDE DEF x, e
  <2>2. BulkFrom(o, m).oids = x /\ BulkFrom(o, m).end = e
    BY <2>1, PduIs
  <2>3. QED BY <2>2 DEF x
<1> HIDE DEF n, o, c
<1>6. c + m - 1 = k + m
  BY <1>1, <1>4
<1> DEFINE l == IF k + m <= n THEN k + m ELSE n
<1>7. Min({k + m, n}) = l
  BY <1>1, MinOfTwo
<1>8. BulkFrom(o, m).oids = SubSeq(Mib, k + 1, l) /\ BulkFrom(o, m).end = e
  <2> HIDE DEF l, e
  <2>1. QED BY <1>4, <1>6, <1>7, <1>12
<1>9. l \in k..n /\ (e => l = n)
  BY <1>1, <1>6
<1>10. Follows(BulkFrom(o, m), k, l)
  <2> HIDE DEF l, e
  <2>1. BulkFrom(o, m).end => l = n
    BY <1>8, <1>9
  <2>2. QED BY <1>8, <2>1 DEF Follows, n
<1>11. QED BY <1>9, <1>10 DEF n, o

LEMMA ServedIs ==
    ASSUME NEW k \in Places, NEW r, r.oid = Place(k)
    PROVE  \E l \in k..Len(Mib) : Follows(ServePDU(r), k, l)
<1>1. Len(Mib) \in Nat /\ k \in Nat /\ k <= Len(Mib) /\ Repetitions \in Nat
  BY MibIs, SnmpAssumption DEF Places
<1>2. CASE r.op = "GetBulk"
  BY <1>1, <1>2, BulkIs DEF ServePDU
<1>3. CASE r.op # "GetBulk" /\ k < Len(Mib)
  <2>1. k + 1 \in 1..Len(Mib) /\ k + 1 \in k..Len(Mib)
    BY <1>1, <1>3
  <2>2. Mib[k + 1] \in Oids /\ Mib[k + 1] # None
    BY <2>1, MibIs, OidsAre
  <2>3. ServePDU(r) = [oids |-> <<Mib[k + 1]>>, end |-> FALSE]
    BY <1>3, <2>2, NextEntryIs DEF ServePDU
  <2>4. SubSeq(Mib, k + 1, k + 1) = <<Mib[k + 1]>>
    <3> DEFINE u == SubSeq(Mib, k + 1, k + 1)
               v == << Mib[k + 1] >>
    <3>1. u \in Seq(Oids) /\ Len(u) = 1 /\ u[1] = Mib[k + 1]
      <4> HIDE DEF v
      <4>1. PICK f \in Nat \ {0} : f = k + 1 /\ f <= Len(Mib)
        BY <1>1, <2>1
      <4>2. f \in Nat /\ f <= f + 1 /\ f - f + 1 = 1 /\ f + 1 - 1 = f /\ 1 \in 1..1
        BY <4>1
      <4> DEFINE g == SubSeq(Mib, f, f)
      <4>3. g \in Seq(Oids) /\ Len(g) = f - f + 1 /\ \A j \in 1..(f - f + 1) : g[j] = Mib[f + j - 1]
        <5>1. Mib \in Seq(Oids) /\ f <= Len(Mib) /\ f \in Nat /\ f <= f + 1
          BY <4>1, <4>2, MibIs
        <5> HIDE DEF u
        <5>2. QED BY <5>1, RunIs
      <4> HIDE DEF g
      <4>4. Len(g) = 1 /\ g[1] = Mib[f]
        BY <4>2, <4>3
      <4>5. QED BY <4>1, <4>3, <4>4 DEF g
    <3>2. v \in Seq(Oids) /\ Len(v) = 1 /\ v[1] = Mib[k + 1]
      BY <2>2
    <3> HIDE DEF u, v
    <3>3. \A j \in 1..Len(u) : j = 1
      BY <3>1
    <3>4. u = v
      BY <3>1, <3>2, <3>3, SeqEqual
    <3>5. QED BY <3>4 DEF u, v
  <2>5. ServePDU(r).oids = SubSeq(Mib, k + 1, k + 1) /\ ~ServePDU(r).end
    <3> DEFINE x == <<Mib[k + 1]>>
    <3>1. ServePDU(r) = [oids |-> x, end |-> FALSE] /\ SubSeq(Mib, k + 1, k + 1) = x
      BY <2>3, <2>4
    <3> HIDE DEF x
    <3>2. QED BY <3>1, PduIs
  <2>6. QED BY <2>1, <2>5 DEF Follows
<1>4. CASE r.op # "GetBulk" /\ ~(k < Len(Mib))
  <2>1. k = Len(Mib) /\ k \in k..Len(Mib)
    BY <1>1, <1>4
  <2>2. ServePDU(r) = [oids |-> <<>>, end |-> TRUE]
    BY <1>4, NextEntryIs DEF ServePDU
  <2>3. SubSeq(Mib, k + 1, k) = <<>>
    BY <1>1, SubSeqEmpty
  <2>4. QED BY <2>1, <2>2, <2>3 DEF Follows
<1>5. QED BY <1>2, <1>3, <1>4

-----------------------------------------------------------------------------
(* The walk *)

\* A response goes on from the place it answers.
AnswerInv(a) ==
    \E k \in Places : \E l \in k..Len(Mib) : a.to = Place(k) /\ Follows(a, k, l)

\* The manager has collected the first entries and is at the last of them, every
\* request asks for what follows a place, whenever it was sent, and every
\* response in the network goes on from the place that it was asked for.
WalkInv ==
    /\ \E k \in Places : /\ walk.got = SubSeq(Mib, 1, k) /\ walk.at = Place(k)
                         /\ walk.done => k = Len(Mib)
    /\ \A r \in requests : \E k \in Places : r.oid = Place(k)
    /\ \A a \in responses : a.kind = "response" => AnswerInv(a)

\* Two runs of the MIB, the second from where the first ends.
LEMMA RunsJoin ==
    ASSUME NEW k \in Places, NEW l \in k..Len(Mib)
    PROVE  /\ SubSeq(Mib, 1, k) \o SubSeq(Mib, k + 1, l) = SubSeq(Mib, 1, l)
           /\ SubSeq(Mib, k + 1, l) = <<>> <=> l = k
           /\ l # k => Last(SubSeq(Mib, k + 1, l)) = Place(l)
<1>1. Mib \in Seq(Oids) /\ Len(Mib) \in Nat
  BY MibIs
<1>2. k \in Nat /\ l \in Nat /\ k <= l /\ l <= Len(Mib)
  BY <1>1 DEF Places
<1> DEFINE s == SubSeq(Mib, 1, k)
           t == SubSeq(Mib, k + 1, l)
           u == SubSeq(Mib, 1, l)
<1>3. s \in Seq(Oids) /\ Len(s) = k /\ \A j \in 1..k : s[j] = Mib[j]
  <2>1. 1 \in Nat \ {0} /\ 1 <= k + 1 /\ k <= Len(Mib) /\ k - 1 + 1 = k /\ \A j \in 1..k : 1 + j - 1 = j
    BY <1>1, <1>2
  <2>2. /\ SubSeq(Mib, 1, k) \in Seq(Oids) /\ Len(SubSeq(Mib, 1, k)) = k - 1 + 1
        /\ \A j \in 1..(k - 1 + 1) : SubSeq(Mib, 1, k)[j] = Mib[1 + j - 1]
    BY <1>1, <1>2, <2>1, RunIs
  <2>3. QED BY <2>1, <2>2
<1>4. t \in Seq(Oids) /\ Len(t) = l - k /\ \A j \in 1..(l - k) : t[j] = Mib[k + j]
  <2>1. PICK f \in Nat \ {0} : f = k + 1
    BY <1>2
  <2>2. f <= l + 1 /\ l - f + 1 = l - k /\ \A j \in 1..(l - k) : f + j - 1 = k + j
    BY <1>2, <2>1
  <2>3. /\ SubSeq(Mib, f, l) \in Seq(Oids) /\ Len(SubSeq(Mib, f, l)) = l - f + 1
        /\ \A j \in 1..(l - f + 1) : SubSeq(Mib, f, l)[j] = Mib[f + j - 1]
    BY <1>1, <1>2, <2>2, RunIs
  <2>4. QED BY <2>1, <2>2, <2>3
<1>5. u \in Seq(Oids) /\ Len(u) = l /\ \A j \in 1..l : u[j] = Mib[j]
  <2>1. 1 \in Nat \ {0} /\ 1 <= l + 1 /\ l - 1 + 1 = l /\ \A j \in 1..l : 1 + j - 1 = j
    BY <1>1, <1>2
  <2>2. /\ SubSeq(Mib, 1, l) \in Seq(Oids) /\ Len(SubSeq(Mib, 1, l)) = l - 1 + 1
        /\ \A j \in 1..(l - 1 + 1) : SubSeq(Mib, 1, l)[j] = Mib[1 + j - 1]
    BY <1>1, <1>2, <2>1, RunIs
  <2>3. QED BY <2>1, <2>2
<1> HIDE DEF s, t, u
<1>6. s \o t = u
  <2>1. s \o t \in Seq(Oids) /\ Len(s \o t) = Len(s) + Len(t)
        /\ \A j \in 1..(Len(s) + Len(t)) : (s \o t)[j] = IF j <= Len(s) THEN s[j] ELSE t[j - Len(s)]
    BY <1>3, <1>4, ConcatProperties
  <2>2. Len(s) + Len(t) = l
    BY <1>2, <1>3, <1>4
  <2>3. ASSUME NEW j \in 1..l PROVE (s \o t)[j] = u[j]
    <3>1. CASE j <= k
      <4>1. j \in 1..k
        BY <1>2, <3>1
      <4>2. QED BY <1>3, <1>5, <2>1, <2>2, <3>1, <4>1
    <3>2. CASE ~(j <= k)
      <4>1. j - k \in 1..(l - k) /\ k + (j - k) = j
        BY <1>2, <3>2
      <4>2. t[j - k] = Mib[j]
        BY <1>4, <4>1
      <4>3. QED BY <1>3, <1>5, <2>1, <2>2, <3>2, <4>2
    <3>3. QED BY <3>1, <3>2
  <2>4. QED BY <1>5, <2>1, <2>2, <2>3, SeqEqual
<1>7. t = <<>> <=> l = k
  <2>1. t = <<>> <=> Len(t) = 0
    BY <1>4, LenIs
  <2>2. QED BY <1>2, <1>4, <2>1
<1>8. ASSUME l # k PROVE Last(t) = Place(l)
  <2>1. l - k \in 1..(l - k) /\ k + (l - k) = l /\ l # 0
    BY <1>2, <1>8
  <2>2. t[l - k] = Mib[l]
    BY <1>4, <2>1
  <2>3. QED BY <1>4, <2>1, <2>2 DEF Last, Place
<1>9. QED BY <1>6, <1>7, <1>8 DEF s, t, u

\* Whatever the checks of a request come to, a response goes on from the place
\* that was asked for.
LEMMA HandledIs ==
    ASSUME NEW r, NEW k \in Places, r.oid = Place(k),
           NEW a \in Handle(r), a.kind = "response"
    PROVE  AnswerInv(a)
<1>1. ASSUME NEW why \in {"unknownEngineID", "unknownUserName", "unsupportedSecLevel",
                          "wrongDigest", "notInTimeWindow"}
      PROVE  Report(r, why).kind # "response"
  <2>1. Report(r, why).kind = why
    BY DEF Report, Message
  <2>2. QED BY <2>1
<1>2. a = Response(r)
  <2>1. a = Response(r) \/ \E why \in {"unknownEngineID", "unknownUserName",
                 "unsupportedSecLevel", "wrongDigest", "notInTimeWindow"} : a = Report(r, why)
    <3>1. CASE r.version = 3
      BY <3>1 DEF Handle, HandleV3, OtherEngine
    <3>2. CASE r.version # 3
      BY <3>2 DEF Handle
    <3>3. QED BY <3>1, <3>2
  <2>2. QED BY <1>1, <2>1
<1>3. a.to = r.oid /\ a.oids = ServePDU(r).oids /\ a.end = ServePDU(r).end
  BY <1>2 DEF Response, Message
<1>4. PICK l \in k..Len(Mib) : Follows(ServePDU(r), k, l)
  BY ServedIs
<1>5. Follows(a, k, l)
  BY <1>3, <1>4 DEF Follows
<1>6. QED BY <1>3, <1>5 DEF AnswerInv

\* An answer to what the manager asks now takes the walk to a later place.
LEMMA LearnKeepsWalk ==
    ASSUME WalkInv, Learn
    PROVE  WalkInv'
<1>1. PICK k \in Places : /\ walk.got = SubSeq(Mib, 1, k) /\ walk.at = Place(k)
                          /\ walk.done => k = Len(Mib)
  BY DEF WalkInv
<1>2. requests' = requests /\ responses' \in SUBSET responses
  BY DEF Learn
<1>3. \E m \in Places : /\ walk'.got = SubSeq(Mib, 1, m) /\ walk'.at = Place(m)
                        /\ walk'.done => m = Len(Mib)
  <2>1. CASE walk' = walk
    BY <1>1, <2>1
  <2>2. CASE walk' # walk
    <3>1. PICK a \in responses :
            /\ a.to = walk.at /\ a.kind = "response"
            /\ walk' = [got |-> walk.got \o a.oids,
                        at |-> IF a.oids = <<>> THEN walk.at ELSE Last(a.oids),
                        done |-> a.end]
      BY <2>2 DEF Learn
    <3>2. PICK j \in Places : \E l \in j..Len(Mib) : a.to = Place(j) /\ Follows(a, j, l)
      BY <3>1 DEF WalkInv, AnswerInv
    <3>3. PICK l \in j..Len(Mib) : a.to = Place(j) /\ Follows(a, j, l)
      BY <3>2
    <3>4. j = k
      BY <1>1, <3>1, <3>3, PlacesDiffer
    <3>5. l \in Places /\ l \in k..Len(Mib)
      BY <3>3, <3>4, MibIs DEF Places
    <3>6. a.oids = SubSeq(Mib, k + 1, l) /\ (a.end => l = Len(Mib))
      BY <3>3, <3>4 DEF Follows
    <3>7. /\ walk.got \o a.oids = SubSeq(Mib, 1, l)
          /\ (IF a.oids = <<>> THEN walk.at ELSE Last(a.oids)) = Place(l)
      <4> DEFINE t == SubSeq(Mib, k + 1, l)
      <4>1. /\ SubSeq(Mib, 1, k) \o t = SubSeq(Mib, 1, l)
            /\ t = <<>> <=> l = k
            /\ l # k => Last(t) = Place(l)
        BY <3>5, RunsJoin
      <4> HIDE DEF t
      <4>2. walk.got \o a.oids = SubSeq(Mib, 1, l)
        BY <1>1, <3>6, <4>1 DEF t
      <4>3. CASE l = k
        BY <1>1, <3>6, <4>1, <4>2, <4>3 DEF t
      <4>4. CASE l # k
        BY <3>6, <4>1, <4>2, <4>4 DEF t
      <4>5. QED BY <4>3, <4>4
    <3>8. /\ walk'.got = SubSeq(Mib, 1, l) /\ walk'.at = Place(l)
          /\ walk'.done => l = Len(Mib)
      BY <3>1, <3>6, <3>7
    <3>9. QED BY <3>5, <3>8
  <2>3. QED BY <2>1, <2>2
<1>4. QED BY <1>2, <1>3 DEF WalkInv, AnswerInv, Follows, Place, Places

LEMMA ServeKeepsWalk ==
    ASSUME WalkInv, NEW r \in requests, NEW again \in BOOLEAN, ServeSNMP(r, again)
    PROVE  WalkInv'
<1>1. PICK k \in Places : r.oid = Place(k)
  BY DEF WalkInv
<1>2. walk' = walk /\ requests' \in SUBSET requests /\ responses' = responses \cup Handle(r)
  BY DEF ServeSNMP
<1>3. \A a \in Handle(r) : a.kind = "response" => AnswerInv(a)
  BY <1>1, HandledIs
<1>4. \A a \in responses' : a.kind = "response" => AnswerInv(a)
  BY <1>2, <1>3 DEF WalkInv
<1>5. QED BY <1>2, <1>4 DEF WalkInv, AnswerInv, Follows, Place, Places

LEMMA SnmpKeepsWalk ==
    ASSUME WalkInv, SnmpNext \/ UNCHANGED snmpVars
    PROVE  WalkInv'
<1>1. CASE ServeRequest \/ ServeDuplicate
  BY <1>1, ServeKeepsWalk DEF ServeRequest, ServeDuplicate
<1>2. CASE Learn
  BY <1>2, LearnKeepsWalk
<1>3. CASE Ask
  <2>1. /\ walk' = walk /\ responses' = responses
        /\ requests' = requests \cup {Request} /\ Request.oid = walk.at
    BY <1>3 DEF Ask, Request
  <2>2. \E k \in Places : Request.oid = Place(k)
    BY <2>1 DEF WalkInv
  <2>3. \A r \in requests' : \E k \in Places : r.oid = Place(k)
    BY <2>1, <2>2 DEF WalkInv
  <2>4. QED BY <2>1, <2>3 DEF WalkInv, AnswerInv, Follows, Place, Places
<1>4. CASE Lose
  <2>1. walk' = walk /\ requests' \in SUBSET requests /\ responses' \in SUBSET responses
    BY <1>4 DEF Lose
  <2>2. QED BY <2>1 DEF WalkInv, AnswerInv, Follows, Place, Places
<1>5. CASE RestartEngine \/ PassTime \/ UNCHANGED snmpVars
  <2>1. walk' = walk /\ requests' = requests /\ responses' = responses
    BY <1>5 DEF RestartEngine, PassTime, snmpVars
  <2>2. QED BY <2>1 DEF WalkInv, AnswerInv, Follows, Place, Places
<1>6. QED BY <1>1, <1>2, <1>3, <1>4, <1>5 DEF SnmpNext

-----------------------------------------------------------------------------
(* Together *)

Inv == JobsInv /\ ByeInv /\ CacheInv /\ WalkInv

LEMMA InitInv == Init => Inv
<1> SUFFICES ASSUME Init PROVE Inv
  OBVIOUS
<1>1. JobsInv
  <2>1. wsdNextJob = 0 /\ wsdJobs = <<>> /\ sent = {} /\ captured = <<>>
    BY DEF Init, WsdInit
  <2>2. Ids = {} /\ DOMAIN wsdJobs = {} /\ DOMAIN captured = {} /\ captured \in Seq(Entries)
    BY <2>1 DEF Ids
  <2>3. QED BY <2>1, <2>2 DEF JobsInv, PendingInv, CapturedInv, AttributedAsCreated
<1>2. ByeInv
  BY DEF Init, WsdInit, ByeInv
<1>3. CacheInv
  BY DEF Init, MdnsInit, CacheInv
<1>4. WalkInv
  <2>1. /\ walk.got = <<>> /\ walk.at = <<>> /\ ~walk.done
        /\ requests = {} /\ responses = {}
    BY DEF Init, SnmpInit
  <2>2. 0 \in Places /\ Place(0) = <<>>
    BY MibIs DEF Places, Place
  <2>3. SubSeq(Mib, 1, 0) = <<>>
    BY SubSeqEmpty
  <2>4. QED BY <2>1, <2>2, <2>3 DEF WalkInv
<1>5. QED BY <1>1, <1>2, <1>3, <1>4 DEF Inv

LEMMA NextInv == Inv /\ [Next]_vars => Inv'
<1> SUFFICES ASSUME Inv, [Next]_vars PROVE Inv'
  OBVIOUS
<1>1. WsdNext \/ UNCHANGED wsdVars
  BY DEF Next, vars
<1>2. MdnsNext \/ UNCHANGED mdnsVars
  BY DEF Next, vars
<1>3. SnmpNext \/ UNCHANGED snmpVars
  BY DEF Next, vars
<1>4. QED BY <1>1, <1>2, <1>3, WsdKeepsJobs, WsdKeepsByes, MdnsKeepsCaches, SnmpKeepsWalk DEF Inv

LEMMA Invariance == Spec => []Inv
<1>1. QED BY InitInv, NextInv, PTL DEF Spec

\* A document is captured under the metadata its job was created with, or under
\* none if its id was never given out, if it was sent before or if its job had
\* to make room; never under another's.  (wsprintCreatePrintJob, wsprintSendDocument)
THEOREM Attribution == Spec => []AttributedAsCreated
<1>1. Inv => AttributedAsCreated
  BY DEF Inv, JobsInv, CapturedInv
<1>2. QED BY <1>1, Invariance, PTL

\* A responder that has closed leaves no trace in the clients that heard
\* everything, unless something was sent between a goodbye and a close.
\* (Close of both responders)
THEOREM NothingLeftBehind == Spec => []Withdrawn
<1>1. Inv => Withdrawn
  <2>1. ByeInv => WsdWithdrawn
    BY DEF ByeInv, WsdWithdrawn
  <2>2. CacheInv => MdnsWithdrawn
    BY DEF CacheInv, MdnsWithdrawn, GoodbyeIsLast
  <2>3. QED BY <2>1, <2>2 DEF Inv, Withdrawn
<1>2. QED BY <1>1, Invariance, PTL

\* What a manager collects is the first part of the MIB in its order, with
\* nothing skipped or repeated, and at the end of the walk all of it, whatever
\* is lost, late, doubled or left over from before a restart of the engine.
\* (nextEntry and servePDU under handleSNMP and handleSNMPv3)
THEOREM WalksAreComplete == Spec => []WalkIsComplete
<1>1. Inv => WalkIsComplete
  <2> SUFFICES ASSUME WalkInv PROVE WalkIsComplete
    BY DEF Inv
  <2>1. PICK k \in Places : walk.got = SubSeq(Mib, 1, k) /\ (walk.done => k = Len(Mib))
    BY DEF WalkInv
  <2>2. Mib \in Seq(Oids) /\ Len(Mib) \in Nat /\ k \in Nat /\ k <= Len(Mib)
    BY MibIs DEF Places
  <2>3. SubSeq(Mib, 1, k) \in Prefixes(Mib)
    BY <2>2 DEF Prefixes
  <2>4. IsPrefix(SubSeq(Mib, 1, k), Mib)
    BY <2>2, <2>3, CutIsPrefix
  <2>5. SubSeq(Mib, 1, Len(Mib)) = Mib
    BY <2>2, SubSeqFull
  <2>6. QED BY <2>1, <2>4, <2>5 DEF WalkIsComplete
<1>2. QED BY <1>1, Invariance, PTL
=============================================================================
