------------------------------ MODULE Spoolss ------------------------------
(***************************************************************************)
(* The DCE/RPC endpoint behind the \spoolss pipe and the print calls it    *)
(* dispatches, as functions of the state of one pipe: an open pipe, the    *)
(* fragment written to it, and what comes back.  A stub is the sequence of *)
(* the parts it was sent in, each naming the call it was marshalled for    *)
(* and the piece of a document it carries, 0 for none.                     *)
(***************************************************************************)
EXTENDS Naturals, Sequences

CONSTANTS
    Cap,            \* pieces of a document a job keeps (jobByteCap)
    ReasmMax        \* parts a request may be sent in (reasmMax)

ASSUME SpoolssAssumption == Cap \in Nat \ {0} /\ ReasmMax \in Nat \ {0}

Ops == {"OpenPrinter", "StartDoc", "WritePrinter", "EndDoc", "ClosePrinter", "other"}

\* appendCapped: what is past the cap is dropped, and still acknowledged.
AppendUncapped(buf, data) == buf \o data
AppendCapped(buf, data) ==
    IF Len(buf \o data) <= Cap THEN buf \o data ELSE SubSeq(buf \o data, 1, Cap)

\* spoolssJob: one for the pipe, whatever printers are opened over it.
NewSpool == [open |-> FALSE, buf |-> <<>>]

\* dcerpc: newDcerpc and resetReasm.
NoReasm == [active |-> FALSE, op |-> "none", parts |-> <<>>]
NewPipe == [reasm |-> NoReasm, spool |-> NewSpool]

\* Every part of a stub that decodes as a WritePrinter carries a piece.
Pieces(stub) == [i \in DOMAIN stub |-> stub[i].piece]

\* A stub decodes when all of it was marshalled for the call: parseStartDoc,
\* parseWrite, the length check of EndDocPrinter.
WellFormed(op, stub) ==
    op \in {"StartDoc", "WritePrinter", "EndDoc"} => \A i \in DOMAIN stub: stub[i].op = op

\* realSpoolssDispatcher: the new state of the spool, whether the call
\* succeeds, and the documents captured by it.
Answered(spool) == [spool |-> spool, ok |-> TRUE, captured |-> <<>>]

OpenPrinter(spool) == Answered(NewSpool)
StartDocPrinter(spool) == Answered([open |-> TRUE, buf |-> <<>>])
WritePrinter(spool, stub) == Answered([spool EXCEPT !.buf = AppendCapped(@, Pieces(stub))])
EndDocPrinter(spool) ==
    IF spool.open THEN [Answered(NewSpool) EXCEPT !.captured = <<spool.buf>>]
    ELSE Answered(spool)
ClosePrinter(spool) == Answered(NewSpool)

Dispatch(spool, op, stub) ==
    CASE ~WellFormed(op, stub) -> [Answered(spool) EXCEPT !.ok = FALSE]
      [] OTHER ->
         CASE op = "OpenPrinter" -> OpenPrinter(spool)
           [] op = "StartDoc" -> StartDocPrinter(spool)
           [] op = "WritePrinter" -> WritePrinter(spool, stub)
           [] op = "EndDoc" -> EndDocPrinter(spool)
           [] op = "ClosePrinter" -> ClosePrinter(spool)
           [] OTHER -> Answered(spool)

\* dcerpc.handleRequest: the new state of the pipe, the reply if one is due
\* ("none", "response" or "fault") and what was captured.  The call of a
\* request is the one its first fragment names.
Awaits(pipe) == [pipe |-> pipe, reply |-> "none", captured |-> <<>>]
Fault(pipe) == [pipe |-> pipe, reply |-> "fault", captured |-> <<>>]

CollectedStale(reasm, pdu) ==
    [active |-> TRUE, op |-> IF pdu.first THEN pdu.op ELSE reasm.op,
     parts |-> Append(reasm.parts, pdu.part)]
Collected(reasm, pdu) ==
    IF pdu.first THEN [active |-> TRUE, op |-> pdu.op, parts |-> <<pdu.part>>]
    ELSE [reasm EXCEPT !.parts = Append(@, pdu.part)]

Complete(pipe, reasm) ==
    LET answer == Dispatch(pipe.spool, reasm.op, reasm.parts)
    IN [pipe |-> [reasm |-> NoReasm, spool |-> answer.spool],
        reply |-> IF answer.ok THEN "response" ELSE "fault",
        captured |-> answer.captured]

HandleRequest(pipe, pdu) ==
    LET reasm == Collected(pipe.reasm, pdu)
    IN IF ~pdu.first /\ ~pipe.reasm.active THEN Awaits(pipe)
       ELSE IF ~pdu.first /\ Len(pipe.reasm.parts) >= ReasmMax
       THEN Fault([pipe EXCEPT !.reasm = NoReasm])
       ELSE IF pdu.last THEN Complete(pipe, reasm)
       ELSE Awaits([pipe EXCEPT !.reasm = reasm])

\* dcerpc.onWrite: a BIND is answered whatever interface it asks for, and a
\* request is served without one; anything else is ignored.
OnWrite(pipe, pdu) ==
    CASE pdu.type = "bind" -> [pipe |-> pipe, reply |-> "response", captured |-> <<>>]
      [] pdu.type = "request" -> HandleRequest(pipe, pdu)
      [] OTHER -> Awaits(pipe)
=============================================================================
