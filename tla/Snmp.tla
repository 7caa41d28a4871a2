-------------------------------- MODULE Snmp --------------------------------
(***************************************************************************)
(* The SNMP agent (snmp.go, snmpv3.go, usm.go) and a manager that walks    *)
(* it: GetNext or GetBulk by v1, v2c or v3, over datagrams that are lost,  *)
(* delayed, reordered and duplicated, while the engine is restarted.       *)
(*                                                                         *)
(* Keys are symbolic: a key is the pair of a pass phrase and the engine id *)
(* it is localized to, and a digest opens to the key it was made with.     *)
(***************************************************************************)
EXTENDS Integers, Sequences, FiniteSets, FiniteSetsExt, SequencesExt

CONSTANTS
    Oids,           \* the MIB: a set of OIDs, tuples of numbers
    User,           \* the USM user: its level, auth and priv pass phrases
    Managers,       \* what a manager may be configured with
    EngineIds,      \* the ids generateEngineID may come to
    Repetitions,    \* max-repetitions of a GetBulk
    Window,         \* the timeliness window (150 s)
    MaxTime,        \* bound: time
    MaxRestarts,    \* bound: restarts of the engine
    MaxNet,         \* bound: requests, and responses, in flight
    MaxDrops,       \* bound: datagrams lost or duplicated
    None

\* buildMIB writes every OID out, and none of them is empty.
ASSUME SnmpAssumption ==
    /\ IsFiniteSet(Oids) /\ \A o \in Oids : o \in Seq(Nat) /\ o # <<>>
    /\ None \notin Oids
    /\ {Repetitions, Window, MaxTime, MaxRestarts, MaxNet, MaxDrops} \subseteq Nat
    /\ Managers \subseteq [version : {0, 1, 3}, auth : BOOLEAN, priv : BOOLEAN,
                           community : BOOLEAN, pass : STRING, bulk : BOOLEAN]

VARIABLES
    manager,        \* the manager's configuration, and whether it gave up
    known,          \* the engine id it goes by
    walk,           \* the OIDs it has collected, and whether it has come to the end
    engineId,       \* snmpEngineID
    now, skew,      \* agent time; the manager's notion of it is now - skew
    restarts, drops,
    requests,       \* requests in flight
    responses       \* responses in flight

snmpVars == <<manager, known, walk, engineId, now, skew, restarts, drops, requests, responses>>

-----------------------------------------------------------------------------
(* The MIB *)

\* Variant: numbers decide only as far as both go.
LessByPrefix(a, b) ==
    \E i \in 1..Len(b) : i <= Len(a) /\ SubSeq(a, 1, i - 1) = SubSeq(b, 1, i - 1) /\ a[i] < b[i]

\* compareOID < 0: the first number that differs decides, then the length.
Less(a, b) ==
    \/ IsStrictPrefix(a, b)
    \/ \E i \in 1..Len(b) :
          i <= Len(a) /\ SubSeq(a, 1, i - 1) = SubSeq(b, 1, i - 1) /\ a[i] < b[i]

\* buildMIB: sorted, no entry less than an earlier one.
Mib ==
    LET n == Cardinality(Oids)
    IN  CHOOSE s \in [1..n -> Oids] :
            /\ Range(s) = Oids
            /\ \A i, j \in 1..n : i < j => ~Less(s[j], s[i])

\* nextEntry: the first entry greater than o, or None.
NextEntry(o) ==
    IF \E i \in DOMAIN Mib : Less(o, Mib[i])
    THEN Mib[CHOOSE i \in DOMAIN Mib : Less(o, Mib[i]) /\ \A j \in 1..(i - 1) : ~Less(o, Mib[j])]
    ELSE None

\* The repetitions of a GetBulk from o: up to n entries, then the end marker.
BulkFrom(o, n) ==
    LET i == CHOOSE i \in 1..(Len(Mib) + 1) :
               (i > Len(Mib) \/ Less(o, Mib[i])) /\ \A j \in 1..(i - 1) : ~Less(o, Mib[j])
    IN  [oids |-> SubSeq(Mib, i, Min({i + n - 1, Len(Mib)})), end |-> i + n - 1 > Len(Mib)]

\* servePDU for one requested name: the OIDs answered with, and whether the
\* end of the MIB was reported (an exception of v2c, an error of v1).
ServePDU(r) ==
    IF r.op = "GetBulk" THEN BulkFrom(r.oid, Repetitions)
    ELSE IF NextEntry(r.oid) = None THEN [oids |-> <<>>, end |-> TRUE]
    ELSE [oids |-> <<NextEntry(r.oid)>>, end |-> FALSE]

-----------------------------------------------------------------------------
(* USM *)

\* passwordToKey
Key(pass, id) == IF pass = "" THEN None ELSE <<pass, id>>

\* levelAllowed: a request may not ask for more than the user's level.
LevelAllowed(r) ==
    /\ r.auth => User.level \in {"authNoPriv", "authPriv"}
    /\ r.priv => User.level = "authPriv"

\* inTimeWindow; the boots are always 1.
InTimeWindow(t) == t - now <= Window /\ now - t <= Window

\* A digest, and a ciphertext: what opens it is the key it was made with.
Sign(on, pass, id) == IF on THEN Key(pass, id) ELSE None
Encrypt(on, pass, id) == IF on THEN Key(pass, id) ELSE None

\* v3Message, with our engine id and time; v1 and v2c have the contents only.
Message(kind, to, pdu, mac, cipher) ==
    [kind |-> kind, to |-> to, oids |-> pdu.oids, end |-> pdu.end,
     id |-> engineId, time |-> now, mac |-> mac, cipher |-> cipher]

\* buildReport: neither signed nor encrypted.
Report(r, why) == Message(why, r.oid, [oids |-> <<>>, end |-> FALSE], None, None)

\* assembleV3Response: at the level of the request.
Response(r) ==
    Message("response", r.oid, ServePDU(r), Sign(r.auth, User.authPass, engineId),
            Encrypt(r.priv, User.privPass, engineId))

\* Variant: a request for another engine is not answered.
OtherEngineIgnored(r) == {}

\* A probe, and a request addressed to another engine, learn our engine id.
OtherEngine(r) == {Report(r, "unknownEngineID")}

\* handleSNMPv3, one check after the other; an empty set is silence.
HandleV3(r) ==
    IF r.id # engineId THEN OtherEngine(r)
    ELSE IF r.user # User.name THEN {Report(r, "unknownUserName")}
    ELSE IF ~LevelAllowed(r) THEN {Report(r, "unsupportedSecLevel")}
    ELSE IF r.auth /\ r.mac # Sign(TRUE, User.authPass, engineId) THEN {Report(r, "wrongDigest")}
    ELSE IF r.auth /\ ~InTimeWindow(r.time) THEN {Report(r, "notInTimeWindow")}
    ELSE IF r.priv /\ r.cipher # Encrypt(TRUE, User.privPass, engineId) THEN {}
    ELSE {Response(r)}

\* handleSNMP: v1 and v2c ask for the community.
Handle(r) ==
    IF r.version = 3 THEN HandleV3(r)
    ELSE IF r.community THEN {Response(r)} ELSE {}

-----------------------------------------------------------------------------
(* The agent *)

SnmpInit ==
    /\ manager \in {[conf |-> m, gaveUp |-> FALSE] : m \in Managers}
    /\ known = None
    /\ walk = [got |-> <<>>, at |-> <<>>, done |-> FALSE]
    /\ engineId \in EngineIds
    /\ now = 0 /\ skew = 0 /\ restarts = 0 /\ drops = 0
    /\ requests = {} /\ responses = {}

\* serveSNMP: a request, which stays in the network if it was duplicated.
ServeSNMP(r, again) ==
    /\ Cardinality(responses \cup Handle(r)) <= MaxNet
    /\ responses' = responses \cup Handle(r)
    /\ requests' = IF again THEN requests ELSE requests \ {r}
    /\ drops' = IF again THEN drops + 1 ELSE drops
    /\ UNCHANGED <<manager, known, walk, engineId, now, skew, restarts>>

ServeRequest == \E r \in requests : ServeSNMP(r, FALSE)
ServeDuplicate == drops < MaxDrops /\ \E r \in requests : ServeSNMP(r, TRUE)

\* The engine is restarted: buildMIB derives the id anew.  The clock it counts
\* from belongs to the process.
RestartEngine ==
    /\ restarts < MaxRestarts
    /\ restarts' = restarts + 1
    /\ engineId' \in EngineIds
    /\ UNCHANGED <<manager, known, walk, now, skew, drops, requests, responses>>

-----------------------------------------------------------------------------
(* The manager (external): one request outstanding, repeated until answered. *)

Request ==
    LET m == manager.conf
    IN  [version |-> m.version, community |-> m.community,
         op |-> IF m.bulk THEN "GetBulk" ELSE "GetNext", oid |-> walk.at,
         id |-> known, user |-> User.name, auth |-> m.auth, priv |-> m.priv,
         mac |-> Sign(m.auth, m.pass, known), cipher |-> Encrypt(m.priv, m.pass, known),
         time |-> now - skew]

Ask ==
    /\ ~walk.done /\ ~manager.gaveUp
    /\ Request \notin requests /\ Cardinality(requests) < MaxNet
    /\ requests' = requests \cup {Request}
    /\ UNCHANGED <<manager, known, walk, engineId, now, skew, restarts, drops, responses>>

\* A response must be of the level and by the keys of the request.
Genuine(a) ==
    a.kind = "response" => a.mac = Request.mac /\ a.cipher = Request.cipher

\* An answer to the question it asks now; any other is late or not genuine and
\* dropped.
Learn ==
    \E a \in responses :
        /\ responses' = responses \ {a}
        /\ IF a.to # walk.at \/ walk.done \/ ~Genuine(a)
           THEN UNCHANGED <<manager, known, walk, skew>>
           ELSE CASE a.kind = "response" ->
                       /\ walk' = [got |-> walk.got \o a.oids,
                                   at |-> IF a.oids = <<>> THEN walk.at ELSE Last(a.oids),
                                   done |-> a.end]
                       /\ UNCHANGED <<manager, known, skew>>
                  [] a.kind \in {"unknownEngineID", "notInTimeWindow"} ->
                       /\ known' = a.id
                       /\ skew' = now - a.time
                       /\ UNCHANGED <<manager, walk>>
                  [] OTHER ->
                       /\ manager' = [manager EXCEPT !.gaveUp = TRUE]
                       /\ UNCHANGED <<known, walk, skew>>
        /\ UNCHANGED <<engineId, now, restarts, drops, requests>>

Lose ==
    /\ drops < MaxDrops
    /\ drops' = drops + 1
    /\ \/ \E r \in requests : requests' = requests \ {r} /\ UNCHANGED responses
       \/ \E a \in responses : responses' = responses \ {a} /\ UNCHANGED requests
    /\ UNCHANGED <<manager, known, walk, engineId, now, skew, restarts>>

PassTime ==
    /\ now < MaxTime
    /\ now' = now + 1
    /\ UNCHANGED <<manager, known, walk, engineId, skew, restarts, drops, requests, responses>>

SnmpNext ==
    \/ ServeRequest \/ ServeDuplicate \/ RestartEngine
    \/ Ask \/ Learn \/ Lose \/ PassTime

SnmpFairness == WF_snmpVars(ServeRequest) /\ WF_snmpVars(Ask) /\ WF_snmpVars(Learn)

-----------------------------------------------------------------------------
(* Properties *)

\* What the manager has collected is always the first part of the MIB in
\* order, nothing skipped or repeated, and at the end of the walk it is all of
\* it, whatever the network did.  (nextEntry, "the heart of snmpwalk")
WalkIsComplete ==
    /\ IsPrefix(walk.got, Mib)
    /\ walk.done => walk.got = Mib

\* If datagrams keep getting through, a manager with the right secrets comes to
\* the end of the walk: it finds the new engine id after a restart.
\* (handleSNMPv3, "Reject requests addressed to a different engine")
Rediscovers ==
    (manager.conf.pass = User.authPass /\ manager.conf.community) ~> walk.done
=============================================================================
