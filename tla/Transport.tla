------------------------------ MODULE Transport ------------------------------
(***************************************************************************)
(* One send of a forwarder to a target (fwd_raw.go, fwd_lpr.go,            *)
(* fwd_ipp.go), the target being another printcap: its raw, LPD or IPP     *)
(* listener at the other end of a TCP connection that may be cut.          *)
(*                                                                         *)
(* Streams are sequences of tokens: bytes of the document, the lines of    *)
(* LPD, an IPP envelope.  Target timeouts are taken to be shorter than the *)
(* minute after which a listener gives up on a silent client; a listener   *)
(* whose connection was cut comes to the end of its input.                 *)
(***************************************************************************)
EXTENDS Integers, Sequences, SequencesExt

CONSTANTS
    Transports,     \* of "9100", "LPR" and "IPP"
    Sizes,          \* sizes of the document; a transform may have emptied it
    Caps            \* the peer's byte cap (jobByteCap), 0 for none

\* A cap is of so many megabytes, never of a single byte.
ASSUME TransportAssumption ==
    /\ Transports \subseteq {"9100", "LPR", "IPP"}
    /\ Sizes \subseteq Nat
    /\ Caps \subseteq Nat \ {1}

VARIABLES
    xfer,           \* the transport, the size of the document, the peer's cap
    client,         \* the step it is at, whether it awaits the answer, its outcome
    up, upEnd,      \* written and not yet read; "open", "closed" or "cut"
    down, downEnd,  \* the answers on their way; likewise
    peer            \* the handler: where it is, the data it holds, what it saved

transportVars == <<xfer, client, up, upEnd, down, downEnd, peer>>

Doc == [i \in 1..xfer.size |-> <<"byte", i>>]
Nul == <<"nul", 0>>

\* lprTransport.send: command, control file and data file, each announced.
LprDialogue == << <<<<"job", 0>>>>,
                  <<<<"control", 1>>>>, <<<<"ctl", 0>>, Nul>>,
                  <<<<"data", xfer.size>>>>, Doc \o <<Nul>> >>

\* ippTransport.send: the document follows the envelope.
IppRequest == <<<<"envelope", 0>>>> \o Doc

\* What is written before each answer; a raw stream has no answer.
Script == CASE xfer.by = "9100" -> <<Doc>>
            [] xfer.by = "IPP"  -> <<IppRequest>>
            [] xfer.by = "LPR"  -> LprDialogue

First(s, n) == SubSeq(s, 1, IF n < Len(s) THEN n ELSE Len(s))
Capped(s) == IF xfer.cap = 0 THEN s ELSE First(s, xfer.cap)

-----------------------------------------------------------------------------
(* The sender *)

TransportInit ==
    /\ xfer \in [by : Transports, size : Sizes, cap : Caps]
    /\ client = [step |-> 0, awaits |-> FALSE, outcome |-> "none"]
    /\ up = <<>> /\ upEnd = "open" /\ down = <<>> /\ downEnd = "open"
    /\ peer = [at |-> "start", want |-> 0, held |-> <<>>, saved |-> <<>>]

Sending == client.outcome = "none" /\ client.step > 0

\* send returns, and the deferred Close closes the connection.
Return(outcome) ==
    /\ client' = [client EXCEPT !.outcome = outcome, !.awaits = FALSE]
    /\ upEnd' = IF upEnd = "open" THEN "closed" ELSE upEnd

\* dialMaybePrivileged: the last attempt is from any port.
Dial ==
    /\ client.step = 0 /\ client.outcome = "none"
    /\ \/ client' = [client EXCEPT !.step = 1] /\ UNCHANGED <<upEnd, peer>>
       \/ Return("error") /\ peer' = [peer EXCEPT !.at = "end"]
    /\ UNCHANGED <<xfer, up, down, downEnd>>

WriteStep ==
    /\ Sending /\ ~client.awaits /\ upEnd = "open"
    /\ up' = up \o Script[client.step]
    /\ IF xfer.by = "9100"
       THEN Return("ok")
       ELSE client' = [client EXCEPT !.awaits = TRUE] /\ UNCHANGED upEnd
    /\ UNCHANGED <<xfer, down, downEnd, peer>>

\* A write or a read fails: the other end is gone, or the deadline is past.
\* An IPP client is content with a status line whose body does not come.
SendFails ==
    /\ Sending
    /\ Return(IF xfer.by = "IPP" /\ client.step = 2 THEN "presumed" ELSE "error")
    /\ UNCHANGED <<xfer, up, down, downEnd, peer>>

\* Variant: the status in the body of an HTTP 200 is not looked at.
AcceptsAny(answer) == answer # "400"

\* expectAck; the HTTP and IPP status.
Accepts(answer) == answer \in {"ack", "200", "successful-ok"}

Answered ==
    /\ Sending /\ client.awaits /\ down # <<>>
    /\ down' = Tail(down)
    /\ IF ~Accepts(Head(down)) THEN Return("error")
       ELSE IF Head(down) = "200" \/ (xfer.by = "LPR" /\ client.step < Len(Script))
       THEN /\ client' = [client EXCEPT !.step = @ + 1, !.awaits = Head(down) = "200"]
            /\ UNCHANGED upEnd
       ELSE Return("ok")
    /\ UNCHANGED <<xfer, up, downEnd, peer>>

\* The connection is lost with some of what is on its way.
CutOff ==
    /\ client.step > 0 /\ upEnd # "cut"
    /\ upEnd' = "cut" /\ downEnd' = "cut"
    /\ up' \in Prefixes(up) /\ down' \in Prefixes(down)
    /\ UNCHANGED <<xfer, client, peer>>

-----------------------------------------------------------------------------
(* The peer *)

\* n tokens are there to read, or no more than there are will come.
Arrived(n) == Len(up) >= n \/ upEnd # "open"
CapArrived == (xfer.cap > 0 /\ Len(up) >= xfer.cap) \/ upEnd # "open"
Drop(n) == SubSeq(up, n + 1, Len(up))

Say(answers) == down' = IF downEnd = "cut" THEN down ELSE down \o answers
EndWith(data) ==
    /\ peer' = [peer EXCEPT !.at = "end", !.saved = data]
    /\ downEnd' = IF downEnd = "open" THEN "closed" ELSE downEnd

\* handleRaw9100, readStream: to the end or the cap, whatever came.
PeerRaw ==
    /\ xfer.by = "9100" /\ peer.at = "start" /\ client.step > 0 /\ CapArrived
    /\ EndWith(Capped(up))
    /\ up' = <<>>
    /\ UNCHANGED <<xfer, client, upEnd, down>>

\* ippHandler: a body that ends early is refused, one beyond the cap is cut; the
\* format is refused, or forwarding fails and the job is saved nevertheless.
PeerIpp ==
    /\ xfer.by = "IPP" /\ peer.at = "start" /\ client.step > 0
    /\ CapArrived \/ Arrived(xfer.size + 1)
    /\ LET body == Capped(up)
       IN  IF Len(body) # Len(Capped(IppRequest))
           THEN EndWith(<<>>) /\ Say(<<"400">>)
           ELSE \/ EndWith(<<>>) /\ Say(<<"200", "format-not-supported">>)
                \/ EndWith(Tail(body)) /\ Say(<<"200", "successful-ok">>)
                \/ Tail(body) # <<>> /\ EndWith(Tail(body)) /\ Say(<<"200", "job-canceled">>)
    /\ up' = <<>>
    /\ UNCHANGED <<xfer, client, upEnd>>

\* isPrivilegedSource, queueAllowed: how a client is turned away, if at all.
TurnedAway == {<<>>, <<"nak">>}

LpdCommand ==
    /\ xfer.by = "LPR" /\ peer.at = "start" /\ up # <<>>
    /\ up' = Tail(up)
    /\ \/ Say(<<"ack">>) /\ peer' = [peer EXCEPT !.at = "sub"] /\ UNCHANGED downEnd
       \/ \E answer \in TurnedAway : Say(answer) /\ EndWith(<<>>)
    /\ UNCHANGED <<xfer, client, upEnd>>

\* readLine, parseCountName: the kind of file and its length.
Subcommand == [kind |-> Head(up)[1], count |-> Head(up)[2]]

LpdFile ==
    /\ peer.at = "sub" /\ up # <<>>
    /\ peer' = [peer EXCEPT !.at = Subcommand.kind, !.want = Subcommand.count]
    /\ up' = Tail(up)
    /\ Say(<<"ack">>)
    /\ UNCHANGED <<xfer, client, upEnd, downEnd>>

LpdControl ==
    /\ peer.at = "control" /\ Arrived(peer.want + 1)
    /\ peer' = [peer EXCEPT !.at = "sub"]
    /\ up' = Drop(peer.want + 1)
    /\ Say(<<"ack">>)
    /\ UNCHANGED <<xfer, client, upEnd, downEnd>>

\* readChunk: a length of 0 is unknown, and the file goes to the end.
ReadChunk ==
    LET clipped == xfer.cap > 0 /\ (IF peer.want > 0 THEN peer.want > xfer.cap
                                                     ELSE Len(up) >= xfer.cap)
    IN  [clipped |-> clipped,
         data |-> IF clipped THEN First(up, xfer.cap)
                  ELSE IF peer.want > 0 THEN First(up, peer.want) ELSE up]

\* A data file that reaches the cap is saved at once and ends the dialogue.
LpdData ==
    /\ peer.at = "data"
    /\ IF ReadChunk.clipped \/ peer.want = 0 THEN CapArrived ELSE Arrived(peer.want + 1)
    /\ Say(<<"ack">>)
    /\ IF ReadChunk.clipped
       THEN EndWith(ReadChunk.data) /\ up' = <<>>
       ELSE /\ peer' = [peer EXCEPT !.at = "sub", !.held = ReadChunk.data]
            /\ up' = Drop(Len(ReadChunk.data) + (IF peer.want > 0 THEN 1 ELSE 0))
            /\ UNCHANGED downEnd
    /\ UNCHANGED <<xfer, client, upEnd>>

\* The stream ends between two parts: what there is gets saved.
LpdEnd ==
    /\ xfer.by = "LPR" /\ peer.at \in {"start", "sub"} /\ client.step > 0
    /\ up = <<>> /\ upEnd # "open"
    /\ EndWith(peer.held)
    /\ UNCHANGED <<xfer, client, up, upEnd, down>>

TransportNext ==
    \/ Dial \/ WriteStep \/ Answered \/ SendFails \/ CutOff
    \/ PeerRaw \/ PeerIpp \/ LpdCommand \/ LpdFile \/ LpdControl \/ LpdData \/ LpdEnd

-----------------------------------------------------------------------------
(* Properties *)

\* What the peer captures is the first part of the document that was sent.
\* (fwd_lpr.go, "receive-job, then control file then data file"; readChunk)
CapturedIsSent == IsPrefix(peer.saved, Doc)

\* What the peer's cap leaves of the document; an IPP envelope counts.
Admitted == IF xfer.by = "IPP" THEN Tail(Capped(IppRequest)) ELSE Capped(Doc)

\* A send that returns success over LPR or IPP has put into the peer's capture
\* all that its cap admits.  (send returns nil: recorded as "ok")
SuccessIsCaptured ==
    (client.outcome \in {"ok", "presumed"} /\ xfer.by # "9100" /\ peer.at = "end")
        => peer.saved = Admitted

\* Both, but for two cases of the code: an LPR data file of length 0 is read as
\* one of unknown length, and an IPP answer without a body counts as success.
\* (lprTransport.send, ippTransport.send against handleLPD, ippHandler)
DeliveredIsCaptured ==
    /\ ~(xfer.by = "LPR" /\ xfer.size = 0) => CapturedIsSent
    /\ client.outcome # "presumed" => SuccessIsCaptured
=============================================================================
