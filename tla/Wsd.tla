-------------------------------- MODULE Wsd ---------------------------------
(***************************************************************************)
(* WSD: the WS-Discovery responder (wsd_discovery.go) and the WSPrint      *)
(* service (wsd.go, wsprint.go, mtom.go, wsd_soap.go, wsd_metadata.go).    *)
(*                                                                         *)
(* A job arrives in two requests, CreatePrintJob with its metadata and     *)
(* SendDocument with its bytes, correlated by a job id; requests of        *)
(* several clients interleave, and a client that lost the answer repeats   *)
(* its request.                                                            *)
(***************************************************************************)
EXTENDS Integers, Sequences, FiniteSets, FiniteSetsExt

CONSTANTS
    Hosts,          \* clients
    Sockets,        \* discovery sockets
    MaxPendingJobs, \* maxPendingWSDJobs
    MaxJobs,        \* bound: jobs created
    MaxDocs,        \* bound: documents sent
    NoMeta          \* the empty metadata

ASSUME WsdAssumption ==
    /\ MaxPendingJobs \in Nat \ {0} /\ MaxJobs \in Nat /\ MaxDocs \in Nat

VARIABLES
    device,         \* "off", "up", "closing" or "gone"
    sockets,        \* discovery sockets not closed
    byes,           \* sockets the Bye has been written to
    found,          \* clients that hold our endpoint
    wsdJobs,        \* pending jobs: id -> metadata
    wsdNextJob,
    captured,       \* the documents captured, in order
    sent,           \* history: ids given out that a document was sent for
    wsdRaced        \* history: answered between Bye and close

wsdVars == <<device, sockets, byes, found, wsdJobs, wsdNextJob, captured, sent, wsdRaced>>

WsdInit ==
    /\ device = "off" /\ sockets = {} /\ byes = {} /\ found = {}
    /\ wsdJobs = <<>> /\ wsdNextJob = 0
    /\ captured = <<>> /\ sent = {} /\ wsdRaced = FALSE

-----------------------------------------------------------------------------
(* Discovery *)

\* startWSDDiscovery: the sockets that join are served, and a Hello goes out on
\* them; some clients hear it.
JoinDiscovery ==
    /\ sockets' \in SUBSET Sockets
    /\ \E heard \in SUBSET Hosts : found' = IF sockets' = {} THEN found ELSE heard

\* startWSD: the SOAP endpoint listens, whether discovery comes up or not.
StartWSD ==
    /\ device = "off"
    /\ device' = "up"
    /\ JoinDiscovery
    /\ UNCHANGED <<byes, wsdJobs, wsdNextJob, captured, sent, wsdRaced>>

\* probeMatches: any device, or a print device.
Matches(type) == type \in {"", "PrintDeviceType"}

\* serve: a Probe that matches, or a Resolve, is answered by unicast.
ServeProbe ==
    \E h \in Hosts, s \in sockets, type \in {"", "PrintDeviceType", "other"} :
        /\ Matches(type)
        /\ found' = found \cup {h}
        /\ wsdRaced' = (wsdRaced \/ s \in byes)
        /\ UNCHANGED <<device, sockets, byes, wsdJobs, wsdNextJob, captured, sent>>

\* wsdServer.Close: the SOAP server first, then Bye and close on each socket.
CloseWSD ==
    /\ device = "up"
    /\ device' = IF sockets = {} THEN "gone" ELSE "closing"
    /\ UNCHANGED <<sockets, byes, found, wsdJobs, wsdNextJob, captured, sent, wsdRaced>>

\* The Bye of a socket is heard by the clients, which are on every link.
SayBye ==
    /\ device = "closing" /\ sockets \cap byes = {}
    /\ \E s \in sockets : byes' = byes \cup {s}
    /\ found' = {}
    /\ UNCHANGED <<device, sockets, wsdJobs, wsdNextJob, captured, sent, wsdRaced>>

CloseDiscovery ==
    /\ device = "closing"
    /\ \E s \in sockets \cap byes : sockets' = sockets \ {s}
    /\ device' = IF sockets' = {} THEN "gone" ELSE "closing"
    /\ UNCHANGED <<byes, found, wsdJobs, wsdNextJob, captured, sent, wsdRaced>>

-----------------------------------------------------------------------------
(* WSPrint *)

\* Variant: the youngest goes.
EvictYoungest(ids) == Max(ids)

\* The lowest id is the oldest.
Evict(ids) == Min(ids)

\* CreatePrintJob: room is made for one, and the id is the next number.
CreatePrintJob ==
    /\ device = "up" /\ wsdNextJob < MaxJobs
    /\ LET ids  == DOMAIN wsdJobs
           kept == IF Cardinality(ids) >= MaxPendingJobs THEN ids \ {Evict(ids)} ELSE ids
           id   == wsdNextJob + 1
       IN  /\ wsdNextJob' = id
           /\ wsdJobs' = [i \in kept \cup {id} |-> IF i = id THEN <<"meta", id>> ELSE wsdJobs[i]]
    /\ UNCHANGED <<device, sockets, byes, found, captured, sent, wsdRaced>>

\* A multipart request: the envelope, which has a Content-ID or not, and one
\* attachment, which is what the envelope's href names or not.  Every part
\* with a Content-ID counts, the envelope among them.  (extractMTOM)
Requests == [rootNamed : BOOLEAN, attached : BOOLEAN, hrefMatches : BOOLEAN]

PartCount(r) == (IF r.rootNamed THEN 1 ELSE 0) + (IF r.attached THEN 1 ELSE 0)

\* The part the href names, or the only part, which may be the envelope.
Document(r) ==
    IF r.attached /\ r.hrefMatches THEN "document"
    ELSE IF PartCount(r) # 1 THEN "nothing"
    ELSE IF r.attached THEN "document" ELSE "envelope"

\* SendDocument: the pending job is consumed; the answer is success whether
\* the id was known, the document found and the capture saved, or not.  The id
\* is whatever atoiSafe makes of the client's text: one that was given out, one
\* that never was, or 0 for what is no number.
SendDocument ==
    /\ device = "up" /\ Len(captured) < MaxDocs
    /\ \E id \in 0..MaxJobs, r \in Requests :
         /\ captured' = Append(captured,
                [id |-> id, request |-> r, doc |-> Document(r),
                 issued |-> id \in 1..wsdNextJob, again |-> id \in sent,
                 meta |-> IF id \in DOMAIN wsdJobs THEN wsdJobs[id] ELSE NoMeta,
                 younger |-> wsdNextJob - id])
         /\ wsdJobs' = [i \in DOMAIN wsdJobs \ {id} |-> wsdJobs[i]]
         /\ sent' = sent \cup ({id} \cap (1..wsdNextJob))
    /\ UNCHANGED <<device, sockets, byes, found, wsdNextJob, wsdRaced>>

WsdNext ==
    \/ StartWSD \/ ServeProbe \/ CloseWSD \/ SayBye \/ CloseDiscovery
    \/ CreatePrintJob \/ SendDocument

-----------------------------------------------------------------------------
(* Properties *)

\* Once discovery is closed no client holds our endpoint, unless a Probe was
\* answered between a socket's Bye and its close.  (Close: "sends Bye")
WsdWithdrawn == (device = "gone" /\ byes # {} /\ ~wsdRaced) => found = {}

\* A document is captured under the metadata its job was created with: it is
\* without only if its id was never given out, if it was sent before, or if
\* MaxPendingJobs younger jobs were created in between; and never under another
\* job's.  (wsprintCreatePrintJob,
\* "Evict the oldest pending jobs")
AttributedAsCreated ==
    \A i \in DOMAIN captured :
        LET d == captured[i]
        IN  \/ d.meta = <<"meta", d.id>> /\ d.issued /\ ~d.again
            \/ d.meta = NoMeta /\ (~d.issued \/ d.again \/ d.younger >= MaxPendingJobs)

\* A request with one attachment is captured with it.  (wsprintSendDocument:
\* "Fall back to the sole attachment if the exact CID is absent")
AttachmentIsCaptured ==
    \A i \in DOMAIN captured : captured[i].request.attached => captured[i].doc = "document"
=============================================================================
