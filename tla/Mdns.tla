-------------------------------- MODULE Mdns --------------------------------
(***************************************************************************)
(* The mDNS responder (mdns.go, dnsmsg.go, dnssd.go): it probes for its    *)
(* instance name, announces its services twice, answers questions and      *)
(* says goodbye, over one multicast socket per interface and family.       *)
(*                                                                         *)
(* Other printers of the same service type are on the link, and browsers   *)
(* that keep what they hear until it expires.  Datagrams get lost.         *)
(***************************************************************************)
EXTENDS Integers, FiniteSets, Sequences, TLC

CONSTANTS
    Conns,          \* the sockets that can be opened
    Bound,          \* the listeners that came up: of "IPP", "IPPS", "9100", "LPR"
    Browsers,       \* other hosts on the link
    Listens,        \* Listens[b]: the sockets whose datagrams reach b
    Base,           \* the configured instance name (names are sequences of labels)
    Others,         \* instance names of other printers
    MaxLost         \* bound: datagrams lost

ASSUME MdnsAssumption ==
    /\ Bound \subseteq {"IPP", "IPPS", "9100", "LPR"}
    /\ Listens \in [Browsers -> SUBSET Conns] /\ IsFiniteSet(Browsers)
    /\ MaxLost \in Nat

VARIABLES
    responder,      \* "idle", "probing", "up", "closing" or "closed"
    instance,       \* the name advertised
    open,           \* sockets not closed
    toSend,         \* announce: rounds left, and sockets left in this one
    withdrawn,      \* sockets the goodbye has been written to
    cache,          \* cache[b]: the records browser b holds
    answered,       \* history: the question b asked last, since when nothing expired
    lost, raced     \* history: datagrams lost; sent between goodbye and close

mdnsVars == <<responder, instance, open, toSend, withdrawn, cache, answered, lost, raced>>

-----------------------------------------------------------------------------
(* Records, their names and data as labels: a browse PTR names an instance, *)
(* SRV and TXT belong to one.  PTRs of subtypes and the list of types are   *)
(* left out: they are handled like the browse PTRs.                        *)

\* buildServices: a service type for each listener that is bound.
Services == {CASE l = "IPP"  -> "_ipp._tcp"
               [] l = "IPPS" -> "_ipps._tcp"
               [] l = "9100" -> "_pdl-datastream._tcp"
               [] l = "LPR"  -> "_printer._tcp" : l \in Bound}

Rec(name, type, data) == [name |-> name, type |-> type, data |-> data]
Ptr(s, i) == Rec(<<s>>, "PTR", i)
Owned(s) == instance \o <<s>>
HostRecords == {Rec(<<"host">>, "A", <<"address">>)}     \* A, and AAAA likewise
SrvAndTxt(s) ==
    {Rec(Owned(s), "SRV", <<"port">>), Rec(Owned(s), "TXT", <<"txt">>)} \cup HostRecords

\* allRecords
AllRecords == UNION {{Ptr(s, instance)} \cup SrvAndTxt(s) : s \in Services}

\* What the other printers have announced.
Foreign == {Ptr(s, o) : s \in Services, o \in Others}

Questions ==
    {[name |-> <<s>>, type |-> "PTR"] : s \in Services}
    \cup {[name |-> Owned(s), type |-> t] : s \in Services, t \in {"SRV", "TXT"}}
    \cup {[name |-> <<"host">>, type |-> "A"]}

\* answersFor: a browse answer carries what resolves it.
AnswersFor(q) ==
    LET about(s) == \/ q.type = "PTR" /\ q.name = <<s>>
                    \/ q.type = "SRV" /\ q.name = Owned(s)
    IN  {r \in AllRecords : r.name = q.name /\ r.type = q.type
                                            /\ (q.type = "PTR" => r.data = instance)}
        \cup UNION {SrvAndTxt(s) : s \in {s \in Services : about(s)}}

\* recordKnown: name and type agree and the answer has at least half of our
\* time to live left; the data is not compared.
RecordKnown(rec, known) ==
    \E k \in DOMAIN known : k.name = rec.name /\ k.type = rec.type /\ known[k]

\* uniqueInstance: the configured name, or else its first free variant.
Variant(n) == IF n = 1 THEN Base ELSE Append(Base, ToString(n))
UniqueInstance(taken) ==
    Variant(CHOOSE n \in 1..(Cardinality(taken) + 1) :
        Variant(n) \notin taken /\ \A m \in 1..(n - 1) : Variant(m) \in taken)

-----------------------------------------------------------------------------
(* The link *)

\* A datagram on socket c, after which browser b holds held[b]: each browser it
\* reaches hears it or does not.
Multicast(c, held) ==
    \E B \in SUBSET {b \in Browsers : c \in Listens[b]} :
        LET deaf == Cardinality({b \in Browsers : c \in Listens[b]} \ B)
        IN  /\ lost + deaf <= MaxLost
            /\ lost' = lost + deaf
            /\ cache' = [b \in Browsers |-> IF b \in B THEN held[b] ELSE cache[b]]

\* Has a datagram on c come between its goodbye and its close?
Races(c) == raced' = (raced \/ c \in withdrawn)

\* Records expire, the addresses' two minutes before the others' 75.
Expire ==
    \E b \in Browsers, left \in {{"PTR", "SRV", "TXT"}, {}} :
        /\ cache' = [cache EXCEPT ![b] = {r \in @ : r.type \in left}]
        /\ cache' # cache
        /\ answered' = [answered EXCEPT ![b] = {}]
        /\ UNCHANGED <<responder, instance, open, toSend, withdrawn, lost, raced>>

-----------------------------------------------------------------------------
(* The responder *)

MdnsInit ==
    /\ responder = "idle" /\ instance = Base
    /\ open = {} /\ withdrawn = {}
    /\ toSend = [rounds |-> 0, conns |-> {}]
    /\ cache = [b \in Browsers |-> Foreign]
    /\ answered = [b \in Browsers |-> {}]
    /\ lost = 0 /\ raced = FALSE

\* startResponder: whatever sockets join; with none there is no responder.
Join ==
    /\ responder = "idle"
    /\ \E C \in SUBSET Conns \ {{}} : open' = C
    /\ responder' = "probing"
    /\ UNCHANGED <<instance, toSend, withdrawn, cache, answered, lost, raced>>

\* probeAndResolve, then the goroutines: a name is found taken only if the
\* answer of its owner arrives in the window and spells the name out.
Probe ==
    /\ responder = "probing"
    /\ \E taken \in SUBSET Others : instance' = UniqueInstance(taken)
    /\ responder' = "up"
    /\ toSend' = [rounds |-> 2, conns |-> open]
    /\ UNCHANGED <<open, withdrawn, cache, answered, lost, raced>>

\* announce: one write of a round.  A write to a closed socket fails.
Announce ==
    \E c \in toSend.conns :
        /\ toSend' = [toSend EXCEPT !.conns = @ \ {c}]
        /\ IF c \in open
           THEN Multicast(c, [b \in Browsers |-> cache[b] \cup AllRecords]) /\ Races(c)
           ELSE UNCHANGED <<cache, lost, raced>>
        /\ UNCHANGED <<responder, instance, open, withdrawn, answered>>

\* After a round, the timer or done.
RoundsAfter == IF responder = "up" THEN {toSend.rounds - 1} ELSE {0, toSend.rounds - 1}

NextRound ==
    /\ toSend.conns = {} /\ toSend.rounds > 0
    /\ \E r \in RoundsAfter :
         toSend' = [rounds |-> r, conns |-> IF r = 0 THEN {} ELSE Conns \cap (open \cup withdrawn)]
    /\ UNCHANGED <<responder, instance, open, withdrawn, cache, answered, lost, raced>>

\* knownAnswers: the records the asker lists with its question, and whether at
\* least half of our time to live is left of each.
Known(b, q) == [{r \in cache[b] : r.name = q.name /\ r.type = q.type} -> BOOLEAN]

\* serve: a browser's question with the records it holds for it; what it knows
\* is left out, and with nothing left there is no answer.  (An answer to the
\* group reaches the one that asked; what the others overhear is left out.)
Serve ==
    \E b \in Browsers, q \in Questions :
      \E c \in Listens[b] \cap open, known \in Known(b, q) :
        LET out == {r \in AnswersFor(q) : ~RecordKnown(r, known)}
        IN  /\ responder \in {"up", "closing"}
            /\ \/ /\ cache' = [cache EXCEPT ![b] = @ \cup out]
                  /\ answered' = [answered EXCEPT ![b] = {q}]
                  /\ UNCHANGED lost
               \/ /\ lost < MaxLost /\ lost' = lost + 1
                  /\ UNCHANGED <<cache, answered>>
            /\ IF out = {} THEN UNCHANGED raced ELSE Races(c)
            /\ UNCHANGED <<responder, instance, open, toSend, withdrawn>>

\* Close: done, then on each socket the goodbye and the close.
CloseResponder ==
    /\ responder = "up"
    /\ responder' = "closing"
    /\ UNCHANGED <<instance, open, toSend, withdrawn, cache, answered, lost, raced>>

\* Variant: only the browse records are withdrawn.
GoodbyePtrs == {Ptr(s, instance) : s \in Services}

\* Every record announced, with no time to live.
Goodbye == AllRecords

Withdraw ==
    /\ responder = "closing" /\ open \cap withdrawn = {}
    /\ \E c \in open :
        /\ Multicast(c, [b \in Browsers |-> cache[b] \ Goodbye])
        /\ withdrawn' = withdrawn \cup {c}
    /\ UNCHANGED <<responder, instance, open, toSend, answered, raced>>

CloseSocket ==
    /\ responder = "closing"
    /\ \E c \in open \cap withdrawn : open' = open \ {c}
    /\ responder' = IF open' = {} THEN "closed" ELSE "closing"
    /\ UNCHANGED <<instance, toSend, withdrawn, cache, answered, lost, raced>>

MdnsNext ==
    \/ Join \/ Probe \/ Announce \/ NextRound \/ Serve
    \/ CloseResponder \/ Withdraw \/ CloseSocket
    \/ Expire

-----------------------------------------------------------------------------
(* Properties *)

\* Once the responder is closed, and no datagram was lost, no browser whose
\* links all had the goodbye still holds its records.  (Close: "sends goodbye
\* packets (TTL 0) and shuts the sockets", beside announce and serve, which
\* write to the same sockets until they are shut)
GoodbyeIsLast ==
    (responder = "closed" /\ lost = 0) =>
        \A b \in Browsers :
            Listens[b] \subseteq withdrawn => cache[b] \cap AllRecords \subseteq Foreign

\* The same, unless a datagram was sent between a socket's goodbye and its
\* close.
MdnsWithdrawn == ~raced => GoodbyeIsLast

\* A browser whose question was handled knows the answer, unless it has since
\* expired.  (recordKnown: "whether the querier already knows rec")
AnsweredOrKnown ==
    responder = "up" => \A b \in Browsers : \A q \in answered[b] : AnswersFor(q) \subseteq cache[b]
=============================================================================
