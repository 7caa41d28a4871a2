-------------------------- MODULE Transport_proofs --------------------------
(***************************************************************************)
(* Proofs about the transports: what the peer captures of a document that  *)
(* is sent to it over a raw stream, LPR or IPP, and what a success means,  *)
(* for documents and byte caps of any size and a connection that may be    *)
(* cut at any point.                                                       *)
(***************************************************************************)
EXTENDS Agents, SequenceTheorems, TLAPS

-----------------------------------------------------------------------------
(* First parts of streams *)

LEMMA LenIs ==
    ASSUME NEW S, NEW s \in Seq(S)
    PROVE  Len(s) \in Nat /\ DOMAIN s = 1..Len(s) /\ (s = <<>> <=> Len(s) = 0)
BY LenProperties, EmptySeq

LEMMA PrefixIs ==
    ASSUME NEW S, NEW s \in Seq(S), NEW t \in Seq(S)
    PROVE  IsPrefix(s, t) <=> Len(s) <= Len(t) /\ \A i \in 1..Len(s) : s[i] = t[i]
<1>1. Len(s) \in Nat /\ Len(t) \in Nat /\ DOMAIN s = 1..Len(s) /\ DOMAIN t = 1..Len(t)
  BY LenProperties
<1>2. SubSeq(s, 1, Len(s)) = s
  BY SubSeqFull
<1>3. CASE Len(s) <= Len(t)
  <2>1. \A i \in 1..Len(s) : i \in 1..Len(t)
    BY <1>1, <1>3
  <2>2. ASSUME NEW i \in 1..Len(s) PROVE SubSeq(t, 1, Len(s))[i] = t[i]
    BY <1>1, <2>1, <2>2, SubSeqProperties
  <2>3. SubSeq(t, 1, Len(s)) \in Seq(S) /\ Len(SubSeq(t, 1, Len(s))) = Len(s)
    BY <1>1, <1>3, SubSeqProperties
  <2>4. s = SubSeq(t, 1, Len(s)) <=> \A i \in 1..Len(s) : s[i] = SubSeq(t, 1, Len(s))[i]
    BY <2>3, SeqEqual
  <2>5. QED BY <1>2, <1>3, <2>2, <2>4 DEF IsPrefix
<1>4. CASE ~(Len(s) <= Len(t))
  BY <1>4 DEF IsPrefix
<1>5. QED BY <1>3, <1>4

LEMMA PrefixOfPrefix ==
    ASSUME NEW S, NEW s \in Seq(S), NEW t \in Seq(S), NEW u \in Seq(S),
           IsPrefix(s, t), IsPrefix(t, u)
    PROVE  IsPrefix(s, u)
<1>1. Len(s) \in Nat /\ Len(t) \in Nat /\ Len(u) \in Nat
  BY LenIs
<1>2. Len(s) <= Len(t) /\ Len(t) <= Len(u)
  BY PrefixIs
<1>3. \A i \in 1..Len(s) : i \in 1..Len(t) /\ s[i] = t[i] /\ t[i] = u[i]
  BY <1>1, <1>2, PrefixIs
<1>4. QED BY <1>1, <1>2, <1>3, PrefixIs

LEMMA EmptyIsPrefix ==
    ASSUME NEW S, NEW s \in Seq(S)
    PROVE  << >> \in Seq(S) /\ IsPrefix(<<>>, s)
<1> DEFINE e == << >>
<1>1. e \in Seq(S) /\ Len(e) = 0
  OBVIOUS
<1> HIDE DEF e
<1>2. Len(s) \in Nat /\ \A i \in 1..Len(e) : FALSE
  BY <1>1, LenIs
<1>3. Len(e) <= Len(s)
  BY <1>1, <1>2
<1>4. IsPrefix(e, s)
  BY <1>1, <1>2, <1>3, PrefixIs
<1>5. QED BY <1>1, <1>4 DEF e

LEMMA WholeIsPrefix ==
    ASSUME NEW S, NEW s \in Seq(S)
    PROVE  IsPrefix(s, s)
<1>1. Len(s) \in Nat
  BY LenIs
<1>2. QED BY <1>1, PrefixIs

\* A first part of the same length is the whole.
LEMMA LongPrefixIsWhole ==
    ASSUME NEW S, NEW s \in Seq(S), NEW t \in Seq(S), IsPrefix(s, t), Len(s) >= Len(t)
    PROVE  s = t
<1>1. Len(s) \in Nat /\ Len(t) \in Nat
  BY LenIs
<1>2. Len(s) = Len(t) /\ \A i \in 1..Len(s) : s[i] = t[i]
  BY <1>1, PrefixIs
<1>3. QED BY <1>2, SeqEqual

\* What is left of a direction that was cut.
LEMMA CutIsPrefix ==
    ASSUME NEW S, NEW s \in Seq(S), NEW p \in Prefixes(s)
    PROVE  p \in Seq(S) /\ IsPrefix(p, s)
<1>1. PICK l \in 0..Len(s) : p = SubSeq(s, 1, l)
  BY DEF Prefixes
<1>2. Len(s) \in Nat /\ l \in Nat /\ l <= Len(s)
  BY <1>1, LenIs
<1>3. \A i \in 1..l : i \in 1..Len(s)
  BY <1>2
<1>4. p \in Seq(S) /\ Len(p) = l /\ \A i \in 1..l : p[i] = s[i]
  <2>1. /\ SubSeq(s, 1, l) \in Seq(S)
        /\ Len(SubSeq(s, 1, l)) = IF 1 <= l THEN l - 1 + 1 ELSE 0
        /\ \A i \in 1..(l - 1 + 1) : SubSeq(s, 1, l)[i] = s[1 + i - 1]
    BY <1>2, <1>3, SubSeqProperties
  <2>2. l - 1 + 1 = l /\ \A i \in 1..l : 1 + i - 1 = i
    BY <1>2
  <2>3. QED BY <1>1, <1>2, <2>1, <2>2
<1>5. QED BY <1>2, <1>4, PrefixIs

\* The first n elements.
LEMMA FirstIs ==
    ASSUME NEW S, NEW s \in Seq(S), NEW n \in Nat
    PROVE  /\ First(s, n) \in Seq(S) /\ IsPrefix(First(s, n), s)
           /\ Len(First(s, n)) = IF n < Len(s) THEN n ELSE Len(s)
<1> DEFINE l == IF n < Len(s) THEN n ELSE Len(s)
<1>1. l \in 0..Len(s) /\ First(s, n) = SubSeq(s, 1, l) /\ Len(s) \in Nat /\ l \in Nat
  BY LenIs DEF First
<1> HIDE DEF l
<1>2. First(s, n) \in Seq(S) /\ IsPrefix(First(s, n), s)
  BY <1>1, CutIsPrefix DEF Prefixes
<1>3. Len(SubSeq(s, 1, l)) = l
  <2>1. \A i \in 1..l : i \in 1..Len(s)
    BY <1>1
  <2>2. Len(SubSeq(s, 1, l)) = IF 1 <= l THEN l - 1 + 1 ELSE 0
    BY <1>1, <2>1, SubSeqProperties
  <2>3. QED BY <1>1, <2>2
<1>4. QED BY <1>1, <1>2, <1>3 DEF l

\* Streams with the same first part of n elements, or that end before.
LEMMA FirstOfPrefix ==
    ASSUME NEW S, NEW s \in Seq(S), NEW t \in Seq(S), NEW n \in Nat, IsPrefix(s, t)
    PROVE  /\ IsPrefix(First(s, n), First(t, n))
           /\ Len(s) >= n => First(s, n) = First(t, n)
<1> DEFINE f == First(s, n)
           g == First(t, n)
<1>1. Len(s) \in Nat /\ Len(t) \in Nat /\ Len(s) <= Len(t)
  BY LenIs, PrefixIs
<1>2. /\ f \in Seq(S) /\ IsPrefix(f, s) /\ Len(f) = IF n < Len(s) THEN n ELSE Len(s)
      /\ g \in Seq(S) /\ IsPrefix(g, t) /\ Len(g) = IF n < Len(t) THEN n ELSE Len(t)
  BY FirstIs
<1> HIDE DEF f, g
<1>3. IsPrefix(f, t)
  BY <1>2, PrefixOfPrefix
<1>4. (\A i \in 1..Len(f) : f[i] = t[i]) /\ (\A i \in 1..Len(g) : g[i] = t[i])
  BY <1>2, <1>3, PrefixIs
<1>5. Len(f) <= Len(g) /\ Len(f) \in Nat /\ Len(g) \in Nat
  BY <1>1, <1>2
<1>6. IsPrefix(f, g)
  BY <1>2, <1>4, <1>5, PrefixIs
<1>7. ASSUME Len(s) >= n PROVE f = g
  <2>1. Len(f) >= Len(g)
    BY <1>1, <1>2, <1>7
  <2>2. QED BY <1>2, <1>6, <2>1, LongPrefixIsWhole
<1>8. QED BY <1>6, <1>7 DEF f, g

\* What is not cut by n elements stays.
LEMMA FirstIsWhole ==
    ASSUME NEW S, NEW s \in Seq(S), NEW n \in Nat, n >= Len(s)
    PROVE  First(s, n) = s
<1>1. Len(s) \in Nat
  BY LenIs
<1>2. First(s, n) \in Seq(S) /\ IsPrefix(First(s, n), s) /\ Len(First(s, n)) >= Len(s)
  BY <1>1, FirstIs
<1>3. QED BY <1>2, LongPrefixIsWhole

\* The tail of a first part is a first part of the tail.
LEMMA TailOfPrefix ==
    ASSUME NEW S, NEW s \in Seq(S), NEW t \in Seq(S), s # <<>>, IsPrefix(s, t)
    PROVE  t # <<>> /\ Tail(s) \in Seq(S) /\ Tail(t) \in Seq(S) /\ IsPrefix(Tail(s), Tail(t))
<1>1. Len(s) \in Nat /\ Len(t) \in Nat /\ Len(s) # 0 /\ Len(s) <= Len(t)
  BY LenIs, PrefixIs
<1>2. t # <<>>
  BY <1>1, LenIs
<1> DEFINE a == Tail(s)
           b == Tail(t)
<1>3. /\ a \in Seq(S) /\ Len(a) = Len(s) - 1 /\ \A i \in 1..Len(a) : a[i] = s[i + 1]
      /\ b \in Seq(S) /\ Len(b) = Len(t) - 1 /\ \A i \in 1..Len(b) : b[i] = t[i + 1]
  BY <1>2, HeadTailProperties
<1> HIDE DEF a, b
<1>4. \A i \in 1..Len(a) : i \in 1..Len(b) /\ i + 1 \in 1..Len(s)
  BY <1>1, <1>3
<1>5. \A i \in 1..Len(s) : s[i] = t[i]
  BY PrefixIs
<1>6. \A i \in 1..Len(a) : a[i] = b[i]
  BY <1>3, <1>4, <1>5
<1>7. IsPrefix(a, b)
  BY <1>1, <1>3, <1>6, PrefixIs
<1>8. QED BY <1>2, <1>3, <1>7 DEF a, b

\* A part of what was appended first.
LEMMA PrefixOfConcat ==
    ASSUME NEW S, NEW s \in Seq(S), NEW t \in Seq(S)
    PROVE  s \o t \in Seq(S) /\ Len(s \o t) = Len(s) + Len(t) /\ IsPrefix(s, s \o t)
<1>1. Len(s) \in Nat /\ Len(t) \in Nat
  BY LenIs
<1> DEFINE u == s \o t
<1>2. /\ u \in Seq(S) /\ Len(u) = Len(s) + Len(t)
      /\ \A i \in 1..(Len(s) + Len(t)) : u[i] = IF i <= Len(s) THEN s[i] ELSE t[i - Len(s)]
  BY ConcatProperties
<1> HIDE DEF u
<1>3. \A i \in 1..Len(s) : i \in 1..(Len(s) + Len(t)) /\ i <= Len(s)
  BY <1>1
<1>4. IsPrefix(s, u)
  BY <1>1, <1>2, <1>3, PrefixIs
<1>5. QED BY <1>2, <1>4 DEF u

-----------------------------------------------------------------------------
(* The invariant *)

Kinds == {"byte", "nul", "job", "control", "ctl", "data", "envelope"}
Tokens == Kinds \X Nat
Streams == Seq(Tokens)
Answers ==
    {"ack", "nak", "400", "200", "successful-ok", "format-not-supported", "job-canceled"}

TransportType ==
    /\ xfer \in [by : {"9100", "LPR", "IPP"}, size : Nat, cap : Nat \ {1}]
    /\ client \in [step : Nat, awaits : BOOLEAN, outcome : {"none", "ok", "error", "presumed"}]
    /\ up \in Streams /\ upEnd \in {"open", "closed", "cut"}
    /\ down \in Seq(Answers) /\ downEnd \in {"open", "closed", "cut"}
    /\ peer \in [at : {"start", "sub", "end"} \cup Kinds, want : Nat, held : Streams, saved : Streams]

\* A cut is of both directions, and a send that has not returned has not closed.
EndsInv ==
    /\ upEnd = "cut" <=> downEnd = "cut"
    /\ client.outcome = "none" => upEnd # "closed"

\* A raw stream: what is on its way, and what was saved, is a first part of the
\* document, and nothing is on its way before the one write that ends the send.
RawInv ==
    /\ client.step <= 1 /\ ~client.awaits
    /\ peer.at \in {"start", "end"}
    /\ IsPrefix(up, Doc) /\ IsPrefix(peer.saved, Doc)
    /\ client.outcome = "none" => up = <<>>

\* IPP: all that the cap admits is saved or nothing, and the peer says that it
\* was successful only after it saved it.
IppInv ==
    /\ peer.at \in {"start", "end"}
    /\ IsPrefix(up, IppRequest)
    /\ peer.saved \in {<<>>, Admitted}
    /\ (client.outcome = "none" /\ ~client.awaits) => client.step <= 1 /\ up = <<>>
    /\ \A i \in DOMAIN down : down[i] # "ack"
    /\ (client.outcome = "ok" \/ \E i \in DOMAIN down : down[i] = "successful-ok")
          => peer.at = "end" /\ peer.saved = Admitted

\* LPR: where the peer is when it is about to read what step s writes.
ReadsAt == <<"start", "sub", "control", "sub", "data">>

Ready(s) ==
    /\ peer.at = ReadsAt[s] /\ peer.held = <<>>
    /\ s = 3 => peer.want = 1
    /\ s = 5 => peer.want = xfer.size

\* The whole of the document was read: it is saved, or held until the end.
Done ==
    \/ peer.at = "sub" /\ up = <<>> /\ peer.held = Admitted
    \/ peer.at = "end" /\ peer.saved = Admitted

\* What is on its way is a first part of what the current step wrote, and the
\* peer is where it reads that.
InTransit ==
    up # <<>> => /\ client.step >= 1
                 /\ IsPrefix(up, LprDialogue[client.step])
                 /\ Ready(client.step)

\* The step was written and awaits its answer over a connection that is open: it
\* is still to be read, or was acknowledged, or the peer turned the client away.
Unanswered ==
    \/ up = LprDialogue[client.step] /\ down = <<>>
    \/ /\ up = <<>> /\ down = <<"ack">>
       /\ IF client.step = 5 THEN Done ELSE Ready(client.step + 1)
    \/ up = <<>> /\ peer.at = "end" /\ down \in {<<>>, <<"nak">>}

\* Likewise when the connection was cut: an answer may yet be on its way.
LastAnswer ==
    down # <<>> => /\ up = <<>> /\ down \in {<<"ack">>, <<"nak">>}
                   /\ (client.step = 5 /\ down = <<"ack">>) => Done

Rest ==
    /\ up = <<>> /\ down = <<>>
    /\ (upEnd = "open" /\ client.step >= 1) => Ready(client.step)

LprInv ==
    /\ client.step <= 5
    /\ client.step = 0 => up = <<>> /\ ~client.awaits
    /\ (client.step = 0 /\ client.outcome = "none") => Ready(1)
    /\ InTransit
    /\ xfer.size # 0 => IsPrefix(peer.held, Doc) /\ IsPrefix(peer.saved, Doc)
    /\ client.outcome = "none" =>
          /\ ~client.awaits => Rest
          /\ (client.awaits /\ upEnd = "open") => Unanswered
          /\ (client.awaits /\ upEnd = "cut") => LastAnswer
    /\ client.outcome \in {"none", "ok", "error"}
    /\ client.outcome = "ok" => Done

TransportInv ==
    /\ TransportType /\ EndsInv
    /\ xfer.by = "9100" => RawInv
    /\ xfer.by = "IPP" => IppInv
    /\ xfer.by = "LPR" => LprInv
-----------------------------------------------------------------------------
(* The document and what the transports make of it *)

LEMMA XferTypes ==
    ASSUME TransportType
    PROVE  /\ xfer.by \in {"9100", "LPR", "IPP"} /\ xfer.size \in Nat
           /\ xfer.cap \in Nat /\ xfer.cap # 1
BY DEF TransportType

LEMMA DocIs ==
    ASSUME TransportType
    PROVE  Doc \in Streams /\ Len(Doc) = xfer.size /\ (xfer.size = 0 => Doc = <<>>)
<1> DEFINE n == xfer.size
<1>1. n \in Nat
  BY XferTypes
<1> HIDE DEF n
<1>2. \A i \in 1..n : i \in Nat
  BY <1>1
<1>3. \A i \in 1..n : <<"byte", i>> \in Tokens
  BY <1>2 DEF Tokens, Kinds
<1>4. Doc = [i \in 1..n |-> <<"byte", i>>]
  BY DEF Doc, n
<1>5. Doc \in [1..n -> Tokens]
  BY <1>3, <1>4
<1>6. Doc \in Seq(Tokens)
  BY <1>1, <1>5, SeqDef
<1>7. Len(Doc) = n
  BY <1>1, <1>4, <1>6, LenProperties
<1>8. QED BY <1>6, <1>7, LenIs DEF Streams, n

LEMMA NulIs ==
    /\ Nul \in Tokens /\ <<Nul>> \in Streams /\ Len(<<Nul>>) = 1
    /\ <<"envelope", 0>> \in Tokens /\ <<<<"envelope", 0>>>> \in Streams
    /\ Len(<<<<"envelope", 0>>>>) = 1
<1>1. Nul \in Tokens /\ <<"envelope", 0>> \in Tokens
  BY DEF Nul, Tokens, Kinds
<1>2. ASSUME NEW x \in Tokens PROVE <<x>> \in Streams /\ Len(<<x>>) = 1
  BY <1>2 DEF Streams
<1>3. QED BY <1>1, <1>2

LEMMA IppIs ==
    ASSUME TransportType
    PROVE  /\ IppRequest \in Streams /\ Len(IppRequest) = xfer.size + 1
           /\ Tail(IppRequest) = Doc /\ IppRequest # <<>>
<1> DEFINE e == <<<<"envelope", 0>>>>
           d == Doc
<1>1. d \in Streams /\ Len(d) = xfer.size /\ xfer.size \in Nat
  BY DocIs, XferTypes
<1>2. e \in Streams /\ Len(e) = 1
  BY NulIs
<1>3. IppRequest = e \o d
  BY DEF IppRequest
<1> HIDE DEF e, d
<1>4. /\ e \o d \in Streams /\ Len(e \o d) = 1 + Len(d)
      /\ \A i \in 1..(Len(e) + Len(d)) : (e \o d)[i] = IF i <= Len(e) THEN e[i] ELSE d[i - Len(e)]
  <2>1. e \in Seq(Tokens) /\ d \in Seq(Tokens)
    BY <1>1, <1>2 DEF Streams
  <2>2. e \o d \in Seq(Tokens) /\ Len(e \o d) = Len(e) + Len(d)
    BY <2>1, ConcatProperties
  <2>3. \A i \in 1..(Len(e) + Len(d)) : (e \o d)[i] = IF i <= Len(e) THEN e[i] ELSE d[i - Len(e)]
    BY <2>1, ConcatProperties
  <2>4. QED BY <1>2, <2>2, <2>3 DEF Streams
<1> DEFINE r == e \o d
           t == Tail(r)
<1>5. r \in Streams /\ Len(r) = xfer.size + 1
  BY <1>1, <1>4
<1>6. \A i \in 1..xfer.size : r[i + 1] = d[i]
  <2> SUFFICES ASSUME NEW i \in 1..xfer.size PROVE r[i + 1] = d[i]
    OBVIOUS
  <2>1. i + 1 \in 1..(Len(e) + Len(d)) /\ ~(i + 1 <= Len(e)) /\ i + 1 - Len(e) = i
    BY <1>1, <1>2
  <2>2. QED BY <1>4, <2>1
<1> HIDE DEF r
<1>7. r # <<>>
  BY <1>1, <1>5, LenIs DEF Streams
<1>8. t \in Seq(Tokens) /\ Len(t) = Len(r) - 1 /\ \A i \in 1..Len(t) : t[i] = r[i + 1]
  BY <1>5, <1>7, HeadTailProperties DEF Streams
<1> HIDE DEF t
<1>9. Len(t) = xfer.size
  BY <1>1, <1>5, <1>8
<1>10. \A i \in 1..Len(t) : t[i] = d[i]
  BY <1>6, <1>8, <1>9
<1>11. t = d
  BY <1>1, <1>8, <1>9, <1>10, SeqEqual DEF Streams
<1>12. QED BY <1>3, <1>5, <1>7, <1>11 DEF r, t, d

\* What the cap leaves of a first part of a stream is a first part of what it
\* leaves of the stream, and all of it unless the part is shorter.
LEMMA CappedIs ==
    ASSUME TransportType, NEW s \in Streams, NEW t \in Streams, IsPrefix(s, t)
    PROVE  /\ Capped(s) \in Streams /\ Capped(t) \in Streams
           /\ IsPrefix(Capped(s), s) /\ IsPrefix(Capped(s), Capped(t))
           /\ t # <<>> => Capped(t) # <<>>
<1>1. CASE xfer.cap = 0
  BY <1>1, WholeIsPrefix DEF Capped, Streams
<1>2. CASE xfer.cap # 0
  <2> DEFINE n == xfer.cap
  <2>1. n \in Nat /\ n >= 1 /\ Capped(s) = First(s, n) /\ Capped(t) = First(t, n)
    BY <1>2, XferTypes DEF Capped
  <2> HIDE DEF n
  <2>2. /\ First(s, n) \in Streams /\ First(t, n) \in Streams
        /\ IsPrefix(First(s, n), s) /\ IsPrefix(First(s, n), First(t, n))
    BY <2>1, FirstIs, FirstOfPrefix DEF Streams
  <2>3. ASSUME t # <<>> PROVE First(t, n) # <<>>
    <3>1. Len(t) \in Nat /\ Len(t) # 0
      BY <2>3, LenIs DEF Streams
    <3>2. Len(First(t, n)) # 0
      BY <2>1, <3>1, FirstIs DEF Streams
    <3>3. QED BY <2>2, <3>2, LenIs DEF Streams
  <2>4. QED BY <2>1, <2>2, <2>3
<1>3. QED BY <1>1, <1>2

\* What an IPP peer admits is a first part of the document.
LEMMA AdmittedIsSent ==
    ASSUME TransportType
    PROVE  Admitted \in Streams /\ IsPrefix(Admitted, Doc)
<1>1. CASE xfer.by = "IPP"
  <2> DEFINE r == IppRequest
  <2>1. r \in Streams /\ Tail(r) = Doc /\ r # <<>>
    BY IppIs
  <2>2. Admitted = Tail(Capped(r))
    BY <1>1 DEF Admitted
  <2> HIDE DEF r
  <2>3. IsPrefix(r, r)
    BY <2>1, WholeIsPrefix DEF Streams
  <2>4. Capped(r) \in Streams /\ IsPrefix(Capped(r), r) /\ Capped(r) # <<>>
    BY <2>1, <2>3, CappedIs
  <2>5. Tail(Capped(r)) \in Streams /\ IsPrefix(Tail(Capped(r)), Tail(r))
    BY <2>1, <2>4, TailOfPrefix DEF Streams
  <2>6. QED BY <2>1, <2>2, <2>5
<1>2. CASE xfer.by # "IPP"
  <2> DEFINE d == Doc
  <2>1. d \in Streams /\ Admitted = Capped(d)
    BY <1>2, DocIs DEF Admitted
  <2> HIDE DEF d
  <2>2. Capped(d) \in Streams /\ IsPrefix(Capped(d), d)
    BY <2>1, WholeIsPrefix, CappedIs DEF Streams
  <2>3. QED BY <2>1, <2>2 DEF d
<1>3. QED BY <1>1, <1>2
-----------------------------------------------------------------------------
(* The dialogue of LPR *)

LEMMA LinesAre ==
    /\ <<"job", 0>> \in Tokens /\ <<"control", 1>> \in Tokens /\ <<"ctl", 0>> \in Tokens
    /\ \A n \in Nat : <<"data", n>> \in Tokens
BY DEF Tokens, Kinds

LEMMA DialogueIs ==
    ASSUME TransportType
    PROVE  /\ Len(LprDialogue) = 5
           /\ LprDialogue[1] = <<<<"job", 0>>>> /\ LprDialogue[2] = <<<<"control", 1>>>>
           /\ LprDialogue[3] = <<<<"ctl", 0>>, Nul>> /\ LprDialogue[4] = <<<<"data", xfer.size>>>>
           /\ LprDialogue[5] = Doc \o <<Nul>>
<1> DEFINE d == Doc
<1>1. LprDialogue = << <<<<"job", 0>>>>, <<<<"control", 1>>>>, <<<<"ctl", 0>>, Nul>>,
                       <<<<"data", xfer.size>>>>, d \o <<Nul>> >>
  BY DEF LprDialogue
<1> HIDE DEF d
<1>2. QED BY <1>1 DEF d

\* A step that writes one token is on its way whole or not at all.
LEMMA SingleIs ==
    ASSUME NEW x \in Tokens
    PROVE  /\ <<x>> \in Streams /\ Len(<<x>>) = 1 /\ Head(<<x>>) = x /\ Tail(<<x>>) = <<>>
           /\ \A u \in Streams : (u # <<>> /\ IsPrefix(u, <<x>>)) => u = <<x>>
<1> DEFINE t == <<x>>
<1>1. t \in Streams /\ Len(t) = 1 /\ Head(t) = x /\ Tail(t) = <<>>
  BY DEF Streams
<1> HIDE DEF t
<1>2. ASSUME NEW u \in Streams, u # <<>>, IsPrefix(u, t) PROVE u = t
  <2>1. Len(u) \in Nat /\ Len(u) # 0
    BY <1>2, LenIs DEF Streams
  <2>2. Len(u) >= Len(t)
    BY <1>1, <2>1
  <2>3. QED BY <1>1, <1>2, <2>2, LongPrefixIsWhole DEF Streams
<1>3. QED BY <1>1, <1>2 DEF t

\* The steps of the dialogue are streams, the first, second and fourth of one
\* token, and each of them writes something.
LEMMA StepsAre ==
    ASSUME TransportType, NEW s \in 1..5
    PROVE  /\ LprDialogue[s] \in Streams /\ LprDialogue[s] # <<>>
           /\ s \in {1, 2, 4} => /\ Tail(LprDialogue[s]) = <<>>
                                 /\ \A u \in Streams : (u # <<>> /\ IsPrefix(u, LprDialogue[s]))
                                                          => u = LprDialogue[s]
           /\ s = 2 => Head(LprDialogue[s]) = <<"control", 1>>
           /\ s = 3 => Len(LprDialogue[s]) = 2
           /\ s = 4 => Head(LprDialogue[s]) = <<"data", xfer.size>>
           /\ s = 5 => Len(LprDialogue[s]) = xfer.size + 1 /\ IsPrefix(Doc, LprDialogue[s])
<1>1. /\ LprDialogue[1] = <<<<"job", 0>>>> /\ LprDialogue[2] = <<<<"control", 1>>>>
      /\ LprDialogue[3] = <<<<"ctl", 0>>, Nul>> /\ LprDialogue[4] = <<<<"data", xfer.size>>>>
      /\ LprDialogue[5] = Doc \o <<Nul>>
  BY DialogueIs
<1>2. ASSUME NEW x \in Tokens, LprDialogue[s] = <<x>>
      PROVE  /\ LprDialogue[s] \in Streams /\ LprDialogue[s] # <<>>
             /\ Tail(LprDialogue[s]) = <<>> /\ Head(LprDialogue[s]) = x
             /\ \A u \in Streams : (u # <<>> /\ IsPrefix(u, LprDialogue[s])) => u = LprDialogue[s]
  <2>1. /\ <<x>> \in Streams /\ Len(<<x>>) = 1 /\ Head(<<x>>) = x /\ Tail(<<x>>) = <<>>
        /\ \A u \in Streams : (u # <<>> /\ IsPrefix(u, <<x>>)) => u = <<x>>
    BY SingleIs
  <2>2. <<x>> # <<>>
    OBVIOUS
  <2>3. QED BY <1>2, <2>1, <2>2
<1>3. CASE s = 1
  <2>1. LprDialogue[s] = <<<<"job", 0>>>>
    BY <1>1, <1>3
  <2>2. QED BY <1>2, <1>3, <2>1, LinesAre
<1>4. CASE s = 2
  <2>1. LprDialogue[s] = <<<<"control", 1>>>>
    BY <1>1, <1>4
  <2>2. QED BY <1>2, <1>4, <2>1, LinesAre
<1>5. CASE s = 3
  <2> DEFINE t == <<<<"ctl", 0>>, Nul>>
  <2>1. t \in Streams /\ Len(t) = 2 /\ t # <<>>
    <3> SUFFICES ASSUME NEW x \in Tokens, NEW y \in Tokens
                 PROVE  <<x, y>> \in Streams /\ Len(<<x, y>>) = 2 /\ <<x, y>> # <<>>
      BY LinesAre, NulIs
    <3>1. QED BY DEF Streams
  <2>2. LprDialogue[s] = t
    BY <1>1, <1>5
  <2> HIDE DEF t
  <2>3. QED BY <1>5, <2>1, <2>2
<1>6. CASE s = 4
  <2>1. LprDialogue[s] = <<<<"data", xfer.size>>>> /\ <<"data", xfer.size>> \in Tokens
    BY <1>1, <1>6, LinesAre, XferTypes
  <2>2. QED BY <1>2, <1>6, <2>1
<1>7. CASE s = 5
  <2> DEFINE d == Doc
             e == <<Nul>>
  <2>1. LprDialogue[s] = d \o e
    BY <1>1, <1>7
  <2>2. d \in Streams /\ Len(d) = xfer.size /\ xfer.size \in Nat /\ e \in Streams /\ Len(e) = 1
    BY DocIs, XferTypes, NulIs
  <2> HIDE DEF d, e
  <2>3. d \o e \in Streams /\ Len(d \o e) = xfer.size + 1 /\ IsPrefix(d, d \o e)
    BY <2>2, PrefixOfConcat DEF Streams
  <2>4. d \o e # <<>>
    BY <2>2, <2>3, LenIs DEF Streams
  <2>5. QED BY <1>7, <2>1, <2>3, <2>4 DEF d
<1>8. QED BY <1>3, <1>4, <1>5, <1>6, <1>7

-----------------------------------------------------------------------------
(* Types *)

LEMMA DropIs ==
    ASSUME TransportType, NEW n \in Nat
    PROVE  Drop(n) \in Streams /\ (n >= Len(up) => Drop(n) = <<>>)
<1>1. up \in Seq(Tokens) /\ Len(up) \in Nat
  BY LenIs DEF TransportType, Streams
<1>2. \A i \in (n + 1)..Len(up) : i \in 1..Len(up)
  BY <1>1
<1>3. /\ SubSeq(up, n + 1, Len(up)) \in Seq(Tokens)
      /\ Len(SubSeq(up, n + 1, Len(up))) = IF n + 1 <= Len(up) THEN Len(up) - (n + 1) + 1 ELSE 0
  BY <1>1, <1>2, SubSeqProperties
<1>4. ASSUME n >= Len(up) PROVE Len(SubSeq(up, n + 1, Len(up))) = 0
  BY <1>1, <1>3, <1>4
<1>5. QED BY <1>3, <1>4, LenIs DEF Drop, Streams

LEMMA ScriptIs ==
    ASSUME TransportType
    PROVE  /\ xfer.by = "9100" => Script[1] = Doc /\ Len(Script) = 1
           /\ xfer.by = "IPP" => Script[1] = IppRequest /\ Len(Script) = 1
           /\ xfer.by = "LPR" => Script = LprDialogue
BY DEF Script
-----------------------------------------------------------------------------
(* The sender *)

LEMMA SameXfer ==
    ASSUME xfer' = xfer
    PROVE  /\ Doc' = Doc /\ IppRequest' = IppRequest /\ LprDialogue' = LprDialogue
           /\ Admitted' = Admitted /\ Script' = Script
<1>1. Doc' = Doc
  BY DEF Doc
<1>2. IppRequest' = IppRequest /\ LprDialogue' = LprDialogue
  BY <1>1 DEF IppRequest, LprDialogue
<1>3. Admitted' = Admitted
  BY <1>1, <1>2 DEF Admitted, Capped, First
<1>4. Script' = Script
  BY <1>1, <1>2 DEF Script
<1>5. QED BY <1>1, <1>2, <1>3, <1>4

LEMMA ReadsAtIs ==
    /\ ReadsAt[1] = "start" /\ ReadsAt[2] = "sub" /\ ReadsAt[3] = "control"
    /\ ReadsAt[4] = "sub" /\ ReadsAt[5] = "data"
BY DEF ReadsAt

LEMMA DialKeeps ==
    ASSUME TransportInv, Dial
    PROVE  TransportInv'
<1>1. /\ TransportType /\ client.step = 0 /\ client.outcome = "none"
      /\ UNCHANGED <<xfer, up, down, downEnd>>
  BY DEF TransportInv, Dial
<1>2. Doc' = Doc /\ IppRequest' = IppRequest /\ LprDialogue' = LprDialogue /\ Admitted' = Admitted
  BY <1>1, SameXfer
<1>3. CASE client' = [client EXCEPT !.step = 1] /\ UNCHANGED <<upEnd, peer>>
  <2>1. /\ client'.step = 1 /\ client'.awaits = client.awaits /\ client'.outcome = "none"
        /\ TransportType'
    BY <1>1, <1>3 DEF TransportType
  <2>2. EndsInv'
    BY <1>1, <1>3, <2>1 DEF TransportInv, EndsInv
  <2>3. RawInv => RawInv'
    BY <1>1, <1>2, <1>3, <2>1 DEF RawInv
  <2>4. IppInv => IppInv'
    BY <1>1, <1>2, <1>3, <2>1 DEF IppInv
  <2>5. ASSUME LprInv PROVE LprInv'
    <3>1. up = <<>> /\ down = <<>> /\ ~client.awaits /\ Ready(1)
      BY <1>1, <2>5 DEF LprInv, Rest
    <3>2. Ready(1)'
      BY <1>1, <1>3, <3>1 DEF Ready
    <3>3. InTransit' /\ Rest'
      BY <1>1, <2>1, <3>1, <3>2 DEF InTransit, Rest
    <3>4. QED BY <1>1, <1>2, <1>3, <2>1, <2>5, <3>1, <3>3 DEF LprInv
  <2>6. QED BY <1>1, <2>1, <2>2, <2>3, <2>4, <2>5 DEF TransportInv
<1>4. CASE Return("error") /\ peer' = [peer EXCEPT !.at = "end"]
  <2>1. /\ client'.step = 0 /\ client'.awaits = FALSE /\ client'.outcome = "error"
        /\ peer'.at = "end" /\ peer'.want = peer.want /\ peer'.held = peer.held
        /\ peer'.saved = peer.saved /\ upEnd' = IF upEnd = "open" THEN "closed" ELSE upEnd
        /\ TransportType'
    BY <1>1, <1>4 DEF TransportType, Return
  <2>2. EndsInv'
    BY <1>1, <2>1 DEF TransportInv, EndsInv
  <2>3. RawInv => RawInv'
    BY <1>1, <1>2, <2>1 DEF RawInv
  <2>4. IppInv => IppInv'
    BY <1>1, <1>2, <2>1 DEF IppInv
  <2>5. ASSUME LprInv PROVE LprInv'
    <3>1. up = <<>>
      BY <1>1, <2>5 DEF LprInv
    <3>2. InTransit'
      BY <1>1, <3>1 DEF InTransit
    <3>3. QED BY <1>1, <1>2, <2>1, <2>5, <3>1, <3>2 DEF LprInv
  <2>6. QED BY <1>1, <2>1, <2>2, <2>3, <2>4, <2>5 DEF TransportInv
<1>5. QED BY <1>3, <1>4 DEF Dial

LEMMA SendFailsKeeps ==
    ASSUME TransportInv, SendFails
    PROVE  TransportInv'
<1>1. /\ TransportType /\ client.step > 0 /\ client.outcome = "none"
      /\ UNCHANGED <<xfer, up, down, downEnd, peer>>
  BY DEF TransportInv, SendFails, Sending
<1>2. Doc' = Doc /\ IppRequest' = IppRequest /\ LprDialogue' = LprDialogue /\ Admitted' = Admitted
  BY <1>1, SameXfer
<1>3. /\ client'.step = client.step /\ client'.awaits = FALSE
      /\ client'.outcome \in {"error", "presumed"}
      /\ xfer.by # "IPP" => client'.outcome = "error"
      /\ upEnd' = IF upEnd = "open" THEN "closed" ELSE upEnd
      /\ TransportType'
  BY <1>1 DEF TransportType, SendFails, Return
<1>4. EndsInv'
  BY <1>1, <1>3 DEF TransportInv, EndsInv
<1>5. RawInv => RawInv'
  BY <1>1, <1>2, <1>3 DEF RawInv
<1>6. IppInv => IppInv'
  BY <1>1, <1>2, <1>3 DEF IppInv
<1>7. ASSUME LprInv, xfer.by = "LPR" PROVE LprInv'
  <2>1. InTransit'
    BY <1>1, <1>2, <1>3, <1>7 DEF LprInv, InTransit, Ready
  <2>2. client'.outcome = "error"
    BY <1>3, <1>7
  <2>3. QED BY <1>1, <1>2, <1>3, <1>7, <2>1, <2>2 DEF LprInv
<1>8. QED BY <1>1, <1>3, <1>4, <1>5, <1>6, <1>7 DEF TransportInv

LEMMA WriteStepKeeps ==
    ASSUME TransportInv, WriteStep
    PROVE  TransportInv'
<1>1. /\ TransportType /\ client.step > 0 /\ client.outcome = "none" /\ ~client.awaits
      /\ upEnd = "open" /\ up' = up \o Script[client.step]
      /\ UNCHANGED <<xfer, down, downEnd, peer>>
  BY DEF TransportInv, WriteStep, Sending
<1>2. Doc' = Doc /\ IppRequest' = IppRequest /\ LprDialogue' = LprDialogue /\ Admitted' = Admitted
  BY <1>1, SameXfer
<1>3. client.step \in Nat /\ client.awaits \in BOOLEAN
  BY <1>1 DEF TransportType
<1>4. ASSUME NEW s \in Streams, up = <<>>, Script[client.step] = s PROVE up' = s
  BY <1>1, <1>4 DEF Streams
<1>5. CASE xfer.by = "9100"
  <2>1. up = <<>> /\ client.step = 1 /\ RawInv
    BY <1>1, <1>3, <1>5 DEF TransportInv, RawInv
  <2>2. up' = Doc /\ Doc \in Streams
    BY <1>1, <1>4, <1>5, <2>1, ScriptIs, DocIs
  <2>3. /\ client'.step = 1 /\ client'.awaits = FALSE /\ client'.outcome = "ok"
        /\ upEnd' = "closed"
        /\ TransportType'
    BY <1>1, <1>5, <2>1, <2>2 DEF TransportType, WriteStep, Return
  <2>4. EndsInv'
    BY <1>1, <2>3 DEF TransportInv, EndsInv
  <2>5. IsPrefix(Doc, Doc)
    BY <2>2, WholeIsPrefix DEF Streams
  <2>6. RawInv'
    BY <1>1, <1>2, <2>1, <2>2, <2>3, <2>5 DEF RawInv
  <2>7. QED BY <1>1, <1>5, <2>3, <2>4, <2>6 DEF TransportInv
<1>6. CASE xfer.by = "IPP"
  <2>1. up = <<>> /\ client.step = 1 /\ IppInv
    BY <1>1, <1>3, <1>6 DEF TransportInv, IppInv
  <2>2. up' = IppRequest /\ IppRequest \in Streams
    BY <1>1, <1>4, <1>6, <2>1, ScriptIs, IppIs
  <2>3. /\ client'.step = 1 /\ client'.awaits = TRUE /\ client'.outcome = "none"
        /\ upEnd' = upEnd
        /\ TransportType'
    BY <1>1, <1>6, <2>1, <2>2 DEF TransportType, WriteStep
  <2>4. EndsInv'
    BY <1>1, <2>3 DEF TransportInv, EndsInv
  <2>5. IsPrefix(IppRequest, IppRequest)
    BY <2>2, WholeIsPrefix DEF Streams
  <2>6. IppInv'
    BY <1>1, <1>2, <2>1, <2>2, <2>3, <2>5 DEF IppInv
  <2>7. QED BY <1>1, <1>6, <2>3, <2>4, <2>6 DEF TransportInv
<1>7. CASE xfer.by = "LPR"
  <2> DEFINE n == client.step
             d == LprDialogue[n]
  <2>1. LprInv /\ n \in 1..5 /\ up = <<>> /\ down = <<>> /\ Ready(n)
    BY <1>1, <1>3, <1>7 DEF TransportInv, LprInv, Rest
  <2>2. d \in Streams /\ d # <<>> /\ Script[n] = d
    BY <1>1, <1>7, <2>1, ScriptIs, StepsAre
  <2> HIDE DEF d
  <2>3. up' = d
    BY <1>4, <2>1, <2>2
  <2>4. /\ client'.step = n /\ client'.awaits = TRUE /\ client'.outcome = "none"
        /\ upEnd' = upEnd
        /\ TransportType'
    BY <1>1, <1>7, <2>2, <2>3 DEF TransportType, WriteStep
  <2>5. EndsInv'
    BY <1>1, <2>4 DEF TransportInv, EndsInv
  <2>6. IsPrefix(d, d)
    BY <2>2, WholeIsPrefix DEF Streams
  <2>7. Ready(n)'
    BY <1>1, <2>1, <2>4 DEF Ready
  <2>8. LprDialogue'[client'.step] = d
    BY <1>2, <2>4 DEF d
  <2>9. InTransit'
    BY <2>1, <2>3, <2>4, <2>6, <2>7, <2>8 DEF InTransit
  <2>10. Unanswered'
    BY <1>1, <2>1, <2>3, <2>8 DEF Unanswered
  <2>11. LprInv'
    BY <1>1, <1>2, <2>1, <2>4, <2>9, <2>10 DEF LprInv
  <2>12. QED BY <1>1, <1>7, <2>4, <2>5, <2>11 DEF TransportInv
<1>8. QED BY <1>1, <1>5, <1>6, <1>7, XferTypes
LEMMA AnsweredKeeps ==
    ASSUME TransportInv, Answered
    PROVE  TransportInv'
<1> DEFINE a == Head(down)
<1>1. /\ TransportType /\ client.step > 0 /\ client.outcome = "none" /\ client.awaits
      /\ down # <<>> /\ down' = Tail(down)
      /\ UNCHANGED <<xfer, up, downEnd, peer>>
  BY DEF TransportInv, Answered, Sending
<1>2. Doc' = Doc /\ IppRequest' = IppRequest /\ LprDialogue' = LprDialogue /\ Admitted' = Admitted
  BY <1>1, SameXfer
<1>3. client.step \in Nat /\ down \in Seq(Answers) /\ upEnd # "closed"
  BY <1>1 DEF TransportInv, TransportType, EndsInv
<1>4. down' \in Seq(Answers) /\ \A i \in DOMAIN down' : \E j \in DOMAIN down : down'[i] = down[j]
  <2>1. /\ down' \in Seq(Answers) /\ Len(down') = Len(down) - 1
        /\ \A i \in 1..Len(down') : down'[i] = down[i + 1]
    BY <1>1, <1>3, HeadTailProperties
  <2>2. Len(down) \in Nat /\ DOMAIN down = 1..Len(down) /\ DOMAIN down' = 1..Len(down')
    BY <1>3, <2>1, LenIs
  <2>3. \A i \in 1..Len(down') : i + 1 \in 1..Len(down)
    BY <2>1, <2>2
  <2>4. QED BY <2>1, <2>2, <2>3
<1>5. a = down[1] /\ 1 \in DOMAIN down
  <2>1. Len(down) \in Nat /\ DOMAIN down = 1..Len(down) /\ Len(down) # 0
    BY <1>1, <1>3, LenIs
  <2>2. 1 \in 1..Len(down)
    BY <2>1
  <2>3. QED BY <1>1, <1>3, <2>1, <2>2
\* What the client does with the answer.
<1>6. \/ /\ a \notin {"ack", "200", "successful-ok"} /\ Return("error")
      \/ /\ a = "200" \/ (a \in {"ack", "successful-ok"} /\ xfer.by = "LPR" /\ client.step < Len(Script))
         /\ client' = [client EXCEPT !.step = @ + 1, !.awaits = (a = "200")]
         /\ UNCHANGED upEnd
      \/ /\ a \in {"ack", "successful-ok"} /\ ~(xfer.by = "LPR" /\ client.step < Len(Script))
         /\ Return("ok")
  BY DEF Answered, Accepts
<1> HIDE DEF a
<1>7. ASSUME RawInv PROVE FALSE
  BY <1>1, <1>7 DEF RawInv
<1>8. ASSUME NEW o \in {"ok", "error"}, Return(o)
      PROVE  /\ client'.step = client.step /\ client'.awaits = FALSE /\ client'.outcome = o
             /\ upEnd' = IF upEnd = "open" THEN "closed" ELSE upEnd
             /\ TransportType' /\ EndsInv'
  <2>1. /\ client'.step = client.step /\ client'.awaits = FALSE /\ client'.outcome = o
        /\ upEnd' = IF upEnd = "open" THEN "closed" ELSE upEnd
        /\ TransportType'
    BY <1>1, <1>4, <1>8 DEF TransportType, Return
  <2>2. EndsInv'
    BY <1>1, <2>1 DEF TransportInv, EndsInv
  <2>3. QED BY <2>1, <2>2
<1>9. ASSUME client' = [client EXCEPT !.step = @ + 1, !.awaits = (a = "200")], UNCHANGED upEnd
      PROVE  /\ client'.step = client.step + 1 /\ client'.awaits = (a = "200")
             /\ client'.outcome = "none"
             /\ TransportType' /\ EndsInv'
  <2>1. /\ client'.step = client.step + 1 /\ client'.awaits = (a = "200")
        /\ client'.outcome = "none"
    BY <1>1, <1>9 DEF TransportType
  <2>2. client' \in [step : Nat, awaits : BOOLEAN, outcome : {"none", "ok", "error", "presumed"}]
    <3>1. /\ client \in [step : Nat, awaits : BOOLEAN,
                         outcome : {"none", "ok", "error", "presumed"}]
          /\ client.step + 1 \in Nat
      BY <1>1, <1>3 DEF TransportType
    <3>2. ASSUME NEW b \in BOOLEAN, NEW m \in Nat
          PROVE  [client EXCEPT !.step = m, !.awaits = b]
                   \in [step : Nat, awaits : BOOLEAN, outcome : {"none", "ok", "error", "presumed"}]
      BY <3>1
    <3>3. (a = "200") \in BOOLEAN
      OBVIOUS
    <3>4. QED BY <1>9, <3>1, <3>2, <3>3
  <2>3. TransportType'
    BY <1>1, <1>4, <1>9, <2>2 DEF TransportType
  <2>4. EndsInv'
    BY <1>1, <1>9, <2>1 DEF TransportInv, EndsInv
  <2>5. QED BY <2>1, <2>3, <2>4
<1>10. CASE xfer.by = "IPP"
  <2>1. /\ IppInv /\ a # "ack" /\ \A i \in DOMAIN down' : down'[i] # "ack"
        /\ (\E i \in DOMAIN down' : down'[i] = "successful-ok")
              => \E i \in DOMAIN down : down[i] = "successful-ok"
    BY <1>4, <1>5, <1>10 DEF TransportInv, IppInv
  <2>2. CASE a \notin {"ack", "200", "successful-ok"} /\ Return("error")
    <3>1. IppInv'
      BY <1>1, <1>2, <1>8, <2>1, <2>2 DEF IppInv
    <3>2. QED BY <1>1, <1>8, <1>10, <2>2, <3>1 DEF TransportInv
  <2>3. CASE a = "200" /\ client' = [client EXCEPT !.step = @ + 1, !.awaits = (a = "200")]
             /\ UNCHANGED upEnd
    <3>1. IppInv'
      BY <1>1, <1>2, <1>9, <2>1, <2>3 DEF IppInv
    <3>2. QED BY <1>1, <1>9, <1>10, <2>3, <3>1 DEF TransportInv
  <2>4. CASE a \in {"ack", "successful-ok"} /\ Return("ok")
    <3>1. a = "successful-ok"
      BY <2>1, <2>4
    <3>2. peer.at = "end" /\ peer.saved = Admitted
      BY <1>5, <2>1, <3>1 DEF IppInv
    <3>3. IppInv'
      BY <1>1, <1>2, <1>8, <2>1, <2>4, <3>2 DEF IppInv
    <3>4. QED BY <1>1, <1>8, <1>10, <2>4, <3>3 DEF TransportInv
  <2>5. QED BY <1>6, <1>10, <2>2, <2>3, <2>4
<1>11. CASE xfer.by = "LPR"
  <2> DEFINE n == client.step
  <2>1. LprInv /\ n \in 1..5 /\ InTransit /\ Len(Script) = 5
    BY <1>1, <1>3, <1>11, ScriptIs, DialogueIs DEF TransportInv, LprInv
  \* The answer is the only one on its way, and the step was read.
  <2>2. /\ up = <<>> /\ down \in {<<"ack">>, <<"nak">>}
        /\ (upEnd = "open" /\ down = <<"ack">>) => IF n = 5 THEN Done ELSE Ready(n + 1)
        /\ (n = 5 /\ down = <<"ack">>) => Done
    <3>1. CASE upEnd = "open"
      <4>1. Unanswered
        BY <1>1, <2>1, <3>1 DEF LprInv
      <4>2. <<"ack">> # <<"nak">>
        OBVIOUS
      <4>3. QED BY <1>1, <3>1, <4>1, <4>2 DEF Unanswered
    <3>2. CASE upEnd = "cut"
      <4>1. LastAnswer
        BY <1>1, <2>1, <3>2 DEF LprInv
      <4>2. QED BY <1>1, <3>2, <4>1 DEF LastAnswer
    <3>3. QED BY <1>1, <1>3, <3>1, <3>2 DEF TransportType
  <2>3. down' = <<>> /\ a \in {"ack", "nak"} /\ (a = "ack" => down = <<"ack">>)
    BY <1>1, <2>2 DEF a
  <2>4. InTransit'
    BY <1>1, <2>2 DEF InTransit
  <2>5. CASE a = "nak" /\ Return("error")
    <3>1. LprInv'
      BY <1>1, <1>2, <1>8, <2>1, <2>4, <2>5 DEF LprInv
    <3>2. QED BY <1>1, <1>8, <1>11, <2>5, <3>1 DEF TransportInv
  <2>6. CASE /\ a = "ack" /\ n < 5 /\ UNCHANGED upEnd
             /\ client' = [client EXCEPT !.step = @ + 1, !.awaits = (a = "200")]
    <3>0. PICK m \in Nat : m = client.step + 1
      BY <1>3
    <3>1. client'.step = m /\ client'.awaits = FALSE /\ client'.outcome = "none"
      BY <1>9, <2>6, <3>0
    <3>2. upEnd = "open" => Ready(m)
      BY <2>2, <2>3, <2>6, <3>0
    <3>3. upEnd' = "open" => Ready(m)'
      BY <1>1, <2>6, <3>2 DEF Ready
    <3>4. Rest'
      BY <1>1, <2>2, <2>3, <3>1, <3>3 DEF Rest
    <3>5. m <= 5 /\ m # 0
      BY <2>1, <2>6, <3>0
    <3>6. LprInv'
      BY <1>1, <1>2, <2>1, <2>4, <3>1, <3>4, <3>5 DEF LprInv
    <3>7. QED BY <1>1, <1>9, <1>11, <2>6, <3>6 DEF TransportInv
  <2>7. CASE a = "ack" /\ ~(n < 5) /\ Return("ok")
    <3>1. n = 5
      BY <2>1, <2>7
    <3>2. Done
      BY <2>2, <2>3, <2>7, <3>1
    <3>3. Done'
      BY <1>1, <1>2, <3>2 DEF Done
    <3>4. LprInv'
      BY <1>1, <1>2, <1>8, <2>1, <2>4, <2>7, <3>1, <3>3 DEF LprInv
    <3>5. QED BY <1>1, <1>8, <1>11, <2>7, <3>4 DEF TransportInv
  <2>8. QED BY <1>6, <1>11, <2>1, <2>3, <2>5, <2>6, <2>7
<1>12. QED BY <1>1, <1>7, <1>10, <1>11, XferTypes DEF TransportInv

LEMMA CutOffKeeps ==
    ASSUME TransportInv, CutOff
    PROVE  TransportInv'
<1>1. /\ TransportType /\ client.step > 0 /\ upEnd # "cut" /\ upEnd' = "cut" /\ downEnd' = "cut"
      /\ up' \in Prefixes(up) /\ down' \in Prefixes(down)
      /\ UNCHANGED <<xfer, client, peer>>
  BY DEF TransportInv, CutOff
<1>2. Doc' = Doc /\ IppRequest' = IppRequest /\ LprDialogue' = LprDialogue /\ Admitted' = Admitted
  BY <1>1, SameXfer
<1>3. up \in Streams /\ down \in Seq(Answers) /\ client.step \in Nat /\ client.awaits \in BOOLEAN
  BY <1>1 DEF TransportType
<1>4. up' \in Streams /\ IsPrefix(up', up) /\ down' \in Seq(Answers) /\ IsPrefix(down', down)
  BY <1>1, <1>3, CutIsPrefix DEF Streams
<1>5. (up = <<>> => up' = <<>>) /\ (down = <<>> => down' = <<>>)
  <2>1. ASSUME NEW S, NEW s \in Seq(S), NEW t \in Seq(S), IsPrefix(s, t), t = <<>> PROVE s = <<>>
    <3>1. Len(t) = 0 /\ Len(s) \in Nat /\ Len(s) <= Len(t)
      BY <2>1, LenIs, PrefixIs
    <3>2. QED BY <3>1, LenIs
  <2>2. QED BY <1>3, <1>4, <2>1 DEF Streams
<1>6. TransportType'
  BY <1>1, <1>4 DEF TransportType
<1>7. EndsInv'
  BY <1>1 DEF EndsInv
<1>8. ASSUME NEW t \in Streams, IsPrefix(up, t) PROVE IsPrefix(up', t)
  BY <1>3, <1>4, <1>8, PrefixOfPrefix DEF Streams
<1>9. ASSUME RawInv PROVE RawInv'
  <2>1. IsPrefix(up', Doc)
    BY <1>1, <1>8, <1>9, DocIs DEF RawInv
  <2>2. QED BY <1>1, <1>2, <1>5, <1>9, <2>1 DEF RawInv
<1>10. ASSUME IppInv PROVE IppInv'
  <2>1. IsPrefix(up', IppRequest)
    BY <1>1, <1>8, <1>10, IppIs DEF IppInv
  <2>2. \A i \in DOMAIN down' : i \in DOMAIN down /\ down'[i] = down[i]
    <3>1. /\ Len(down') <= Len(down) /\ Len(down') \in Nat /\ Len(down) \in Nat
          /\ \A i \in 1..Len(down') : down'[i] = down[i]
          /\ DOMAIN down' = 1..Len(down') /\ DOMAIN down = 1..Len(down)
      BY <1>3, <1>4, PrefixIs, LenIs
    <3>2. QED BY <3>1
  <2>3. QED BY <1>1, <1>2, <1>5, <1>10, <2>1, <2>2 DEF IppInv
<1>11. ASSUME LprInv PROVE LprInv'
  <2> DEFINE n == client.step
  <2>1. n \in 1..5
    BY <1>1, <1>3, <1>11 DEF LprInv
  <2>2. Done => Done'
    BY <1>1, <1>2, <1>5 DEF Done
  <2>3. InTransit'
    <3> SUFFICES ASSUME up' # <<>> PROVE InTransit'
      BY DEF InTransit
    <3>1. up # <<>> /\ IsPrefix(up, LprDialogue[n]) /\ Ready(n)
      BY <1>5, <1>11 DEF LprInv, InTransit
    <3>2. IsPrefix(up', LprDialogue[n])
      BY <1>1, <1>8, <2>1, <3>1, StepsAre
    <3>3. Ready(n)'
      BY <1>1, <3>1 DEF Ready
    <3>4. QED BY <1>1, <1>2, <2>1, <3>2, <3>3 DEF InTransit
  <2>4. ASSUME client.outcome = "none", ~client.awaits PROVE Rest'
    BY <1>1, <1>5, <1>11, <2>4 DEF LprInv, Rest
  <2>5. ASSUME client.outcome = "none", client.awaits PROVE LastAnswer'
    <3> SUFFICES ASSUME down' # <<>> PROVE LastAnswer'
      BY DEF LastAnswer
    <3>1. upEnd = "open"
      BY <1>1, <2>5 DEF TransportInv, EndsInv, TransportType
    <3>2. Unanswered /\ down # <<>>
      BY <1>5, <1>11, <2>5, <3>1 DEF LprInv
    <3>3. /\ up = <<>> /\ down \in {<<"ack">>, <<"nak">>}
          /\ (n = 5 /\ down = <<"ack">>) => Done
      <4>1. <<"ack">> # <<"nak">>
        OBVIOUS
      <4>2. QED BY <3>2, <4>1 DEF Unanswered
    <3>4. down' = down
      <4>1. Len(down) = 1
        BY <3>3
      <4>2. Len(down') \in Nat /\ Len(down') # 0
        BY <1>4, LenIs
      <4>3. QED BY <1>3, <1>4, <4>1, <4>2, LongPrefixIsWhole
    <3>5. QED BY <1>1, <1>5, <2>2, <3>3, <3>4 DEF LastAnswer
  <2>6. QED BY <1>1, <1>2, <1>5, <1>11, <2>1, <2>2, <2>3, <2>4, <2>5 DEF LprInv
<1>12. QED BY <1>1, <1>6, <1>7, <1>9, <1>10, <1>11 DEF TransportInv
-----------------------------------------------------------------------------
(* The peer *)

LEMMA SayIs ==
    ASSUME TransportType, NEW x \in Seq(Answers), Say(x)
    PROVE  /\ down' \in Seq(Answers)
           /\ downEnd = "cut" => down' = down
           /\ (downEnd # "cut" /\ down = <<>>) => down' = x
           /\ \A i \in DOMAIN down' : \/ \E j \in DOMAIN down : down'[i] = down[j]
                                      \/ \E j \in DOMAIN x : down'[i] = x[j]
<1>1. down \in Seq(Answers)
  BY DEF TransportType
<1>2. CASE downEnd = "cut"
  BY <1>1, <1>2 DEF Say
<1>3. CASE downEnd # "cut"
  <2> DEFINE d == down \o x
  <2>1. down' = d
    BY <1>3 DEF Say
  <2>2. /\ d \in Seq(Answers) /\ Len(d) = Len(down) + Len(x)
        /\ \A i \in 1..(Len(down) + Len(x)) : d[i] = IF i <= Len(down) THEN down[i]
                                                     ELSE x[i - Len(down)]
    BY <1>1, ConcatProperties
  <2>3. down = <<>> => d = x
    OBVIOUS
  <2> HIDE DEF d
  <2>4. /\ Len(down) \in Nat /\ Len(x) \in Nat /\ DOMAIN down = 1..Len(down)
        /\ DOMAIN x = 1..Len(x) /\ DOMAIN d = 1..(Len(down) + Len(x))
    BY <1>1, <2>2, LenIs
  <2>5. ASSUME NEW i \in DOMAIN d
        PROVE  \/ \E j \in DOMAIN down : d[i] = down[j]
               \/ \E j \in DOMAIN x : d[i] = x[j]
    <3>1. CASE i <= Len(down)
      <4>1. i \in DOMAIN down /\ d[i] = down[i]
        BY <2>2, <2>4, <2>5, <3>1
      <4>2. QED BY <4>1
    <3>2. CASE ~(i <= Len(down))
      <4>1. i - Len(down) \in DOMAIN x /\ d[i] = x[i - Len(down)]
        BY <2>2, <2>4, <2>5, <3>2
      <4>2. QED BY <4>1
    <3>3. QED BY <3>1, <3>2
  <2>6. QED BY <1>3, <2>1, <2>2, <2>3, <2>5
<1>4. QED BY <1>2, <1>3

LEMMA AnswersAre ==
    /\ <<"ack">> \in Seq(Answers) /\ <<"nak">> \in Seq(Answers) /\ << >> \in Seq(Answers)
    /\ <<"400">> \in Seq(Answers) /\ <<"200", "format-not-supported">> \in Seq(Answers)
    /\ <<"200", "successful-ok">> \in Seq(Answers) /\ <<"200", "job-canceled">> \in Seq(Answers)
<1>1. ASSUME NEW T, NEW x \in T PROVE <<x>> \in Seq(T)
  OBVIOUS
<1>2. ASSUME NEW T, NEW x \in T, NEW y \in T PROVE <<x, y>> \in Seq(T)
  OBVIOUS
<1>3. << >> \in Seq(Answers)
  OBVIOUS
<1>4. /\ "ack" \in Answers /\ "nak" \in Answers /\ "400" \in Answers /\ "200" \in Answers
      /\ "format-not-supported" \in Answers /\ "successful-ok" \in Answers
      /\ "job-canceled" \in Answers
  BY DEF Answers
<1>5. QED BY <1>1, <1>2, <1>3, <1>4

LEMMA EndWithIs ==
    ASSUME TransportType, NEW data \in Streams, EndWith(data)
    PROVE  /\ peer'.at = "end" /\ peer'.saved = data
           /\ peer'.held = peer.held /\ peer'.want = peer.want
           /\ peer' \in [at : {"start", "sub", "end"} \cup Kinds, want : Nat,
                         held : Streams, saved : Streams]
           /\ downEnd' \in {"open", "closed", "cut"}
           /\ downEnd' = "cut" <=> downEnd = "cut"
<1>1. /\ peer \in [at : {"start", "sub", "end"} \cup Kinds, want : Nat,
                   held : Streams, saved : Streams]
      /\ peer' = [peer EXCEPT !.at = "end", !.saved = data]
      /\ downEnd \in {"open", "closed", "cut"}
      /\ downEnd' = IF downEnd = "open" THEN "closed" ELSE downEnd
  BY DEF TransportType, EndWith
<1>2. QED BY <1>1

LEMMA PeerRawKeeps ==
    ASSUME TransportInv, PeerRaw
    PROVE  TransportInv'
<1>1. /\ TransportType /\ EndsInv /\ RawInv /\ xfer.by = "9100"
      /\ EndWith(Capped(up)) /\ up' = <<>>
      /\ UNCHANGED <<xfer, client, upEnd, down>>
  BY DEF TransportInv, PeerRaw
<1>2. Doc' = Doc /\ Doc \in Streams /\ up \in Streams
  BY <1>1, SameXfer, DocIs DEF TransportType
<1>3. Capped(up) \in Streams /\ IsPrefix(Capped(up), Doc)
  <2>1. Capped(up) \in Streams /\ IsPrefix(Capped(up), up)
    BY <1>1, <1>2, CappedIs DEF RawInv
  <2>2. QED BY <1>1, <1>2, <2>1, PrefixOfPrefix DEF RawInv, Streams
<1>4. /\ peer'.at = "end" /\ peer'.saved = Capped(up)
      /\ peer' \in [at : {"start", "sub", "end"} \cup Kinds, want : Nat,
                    held : Streams, saved : Streams]
      /\ downEnd' \in {"open", "closed", "cut"}
      /\ downEnd' = "cut" <=> downEnd = "cut"
  BY <1>1, <1>3, EndWithIs
<1>5. up' \in Streams /\ IsPrefix(up', Doc)
  BY <1>1, <1>2, EmptyIsPrefix DEF Streams
<1>6. TransportType'
  BY <1>1, <1>4, <1>5 DEF TransportType
<1>7. EndsInv'
  BY <1>1, <1>4 DEF EndsInv
<1>8. RawInv'
  BY <1>1, <1>2, <1>3, <1>4, <1>5 DEF RawInv
<1>9. QED BY <1>1, <1>6, <1>7, <1>8 DEF TransportInv

LEMMA PeerIppKeeps ==
    ASSUME TransportInv, PeerIpp
    PROVE  TransportInv'
<1> DEFINE body == Capped(up)
           all == Capped(IppRequest)
<1>1. /\ TransportType /\ EndsInv /\ IppInv /\ xfer.by = "IPP" /\ peer.at = "start"
      /\ up' = <<>> /\ UNCHANGED <<xfer, client, upEnd>>
  BY DEF TransportInv, PeerIpp
<1>2. IppRequest' = IppRequest /\ Admitted' = Admitted /\ IppRequest \in Streams /\ up \in Streams
      /\ IppRequest # <<>> /\ Admitted \in Streams
  BY <1>1, SameXfer, IppIs, AdmittedIsSent DEF TransportType
<1>3. body \in Streams /\ all \in Streams /\ IsPrefix(body, all)
  BY <1>1, <1>2, CappedIs DEF IppInv
<1>4. Admitted = Tail(all)
  BY <1>1 DEF Admitted
<1>5. \/ EndWith(<<>>) /\ Say(<<"400">>)
      \/ EndWith(<<>>) /\ Say(<<"200", "format-not-supported">>)
      \/ Len(body) = Len(all) /\ EndWith(Tail(body)) /\ Say(<<"200", "successful-ok">>)
      \/ Len(body) = Len(all) /\ EndWith(Tail(body)) /\ Say(<<"200", "job-canceled">>)
  BY DEF PeerIpp
<1> HIDE DEF body, all
<1>6. ASSUME Len(body) = Len(all) PROVE body = all
  <2>1. Len(body) \in Nat /\ Len(body) >= Len(all)
    BY <1>3, <1>6, LenIs DEF Streams
  <2>2. QED BY <1>3, <2>1, LongPrefixIsWhole DEF Streams
\* Nobody has been told of a success before the handler comes to its end.
<1>7. client.outcome # "ok" /\ \A i \in DOMAIN down : down[i] # "successful-ok" /\ down[i] # "ack"
  BY <1>1 DEF IppInv
<1>8. << >> \in Streams /\ IsPrefix(<<>>, IppRequest)
  BY <1>2, EmptyIsPrefix DEF Streams
<1>9. ASSUME NEW data \in {<<>>, Admitted}, EndWith(data), NEW x \in Seq(Answers), Say(x),
             \A i \in DOMAIN x : x[i] # "ack",
             data = Admitted \/ \A i \in DOMAIN x : x[i] # "successful-ok"
      PROVE  TransportInv'
  <2>1. data \in Streams
    BY <1>2, <1>8
  <2>2. /\ peer'.at = "end" /\ peer'.saved = data
        /\ peer' \in [at : {"start", "sub", "end"} \cup Kinds, want : Nat,
                      held : Streams, saved : Streams]
        /\ downEnd' \in {"open", "closed", "cut"}
        /\ downEnd' = "cut" <=> downEnd = "cut"
    BY <1>1, <1>9, <2>1, EndWithIs
  <2>3. /\ down' \in Seq(Answers)
        /\ \A i \in DOMAIN down' : \/ \E j \in DOMAIN down : down'[i] = down[j]
                                   \/ \E j \in DOMAIN x : down'[i] = x[j]
    BY <1>1, <1>9, SayIs
  <2>4. TransportType'
    BY <1>1, <1>8, <2>2, <2>3 DEF TransportType
  <2>5. EndsInv'
    BY <1>1, <2>2 DEF EndsInv
  <2>6. \A i \in DOMAIN down' : down'[i] # "ack"
    BY <1>7, <1>9, <2>3
  <2>7. (\E i \in DOMAIN down' : down'[i] = "successful-ok") => data = Admitted
    BY <1>7, <1>9, <2>3
  <2>8. IppInv'
    BY <1>1, <1>2, <1>7, <1>8, <2>2, <2>6, <2>7 DEF IppInv
  <2>9. QED BY <1>1, <2>4, <2>5, <2>8 DEF TransportInv
<1>10. CASE EndWith(<<>>) /\ Say(<<"400">>)
  <2>1. \A i \in DOMAIN <<"400">> : <<"400">>[i] # "ack" /\ <<"400">>[i] # "successful-ok"
    OBVIOUS
  <2>2. QED BY <1>9, <1>10, <2>1, AnswersAre
<1>11. CASE EndWith(<<>>) /\ Say(<<"200", "format-not-supported">>)
  <2> DEFINE x == <<"200", "format-not-supported">>
  <2>1. \A i \in DOMAIN x : x[i] # "ack" /\ x[i] # "successful-ok"
    OBVIOUS
  <2>2. QED BY <1>9, <1>11, <2>1, AnswersAre
<1>12. CASE Len(body) = Len(all) /\ EndWith(Tail(body)) /\ Say(<<"200", "successful-ok">>)
  <2> DEFINE x == <<"200", "successful-ok">>
  <2>1. \A i \in DOMAIN x : x[i] # "ack"
    OBVIOUS
  <2>2. QED BY <1>4, <1>6, <1>9, <1>12, <2>1, AnswersAre
<1>13. CASE Len(body) = Len(all) /\ EndWith(Tail(body)) /\ Say(<<"200", "job-canceled">>)
  <2> DEFINE x == <<"200", "job-canceled">>
  <2>1. \A i \in DOMAIN x : x[i] # "ack"
    OBVIOUS
  <2>2. QED BY <1>4, <1>6, <1>9, <1>13, <2>1, AnswersAre
<1>14. QED BY <1>5, <1>10, <1>11, <1>12, <1>13
\* A step of the peer in an LPR dialogue, which reads all that is on its way: it
\* answers what was written if the connection is open, and leaves what is done.
LEMMA LprPeerStep ==
    ASSUME TransportType, EndsInv, LprInv, UNCHANGED <<xfer, client, upEnd>>, up' = <<>>,
           client.step = 0 => client.outcome # "none",
           xfer.size # 0 => IsPrefix(peer'.held, Doc) /\ IsPrefix(peer'.saved, Doc),
           Done => Done',
           downEnd = "cut" => down' = down,
           upEnd = "open" => up # <<>>,
           (upEnd = "open" /\ client.outcome = "none" /\ up = LprDialogue[client.step]
              /\ down = <<>>) => Unanswered'
    PROVE  LprInv'
<1>1. Doc' = Doc /\ LprDialogue' = LprDialogue
  BY SameXfer
<1>2. upEnd \in {"open", "closed", "cut"} /\ client.awaits \in BOOLEAN
  BY DEF TransportType
<1>3. InTransit'
  BY DEF InTransit
<1>4. ASSUME client.outcome = "none", upEnd = "open" PROVE client.awaits /\ Unanswered'
  <2>1. client.awaits
    BY <1>4 DEF LprInv, Rest
  <2>2. Unanswered
    BY <1>4, <2>1 DEF LprInv
  <2>3. QED BY <1>4, <2>1, <2>2 DEF Unanswered
<1>5. ASSUME client.outcome = "none", upEnd = "cut"
      PROVE  (~client.awaits => Rest') /\ (client.awaits => LastAnswer')
  <2>1. down' = down
    BY <1>5 DEF EndsInv
  <2>2. ~client.awaits => Rest'
    BY <1>5, <2>1 DEF LprInv, Rest
  <2>3. client.awaits => LastAnswer'
    BY <1>5, <2>1 DEF LprInv, LastAnswer
  <2>4. QED BY <2>2, <2>3
<1>6. client.outcome = "none" => upEnd # "closed"
  BY DEF EndsInv
<1>7. client.outcome = "none" =>
          /\ ~client.awaits => Rest'
          /\ (client.awaits /\ upEnd = "open") => Unanswered'
          /\ (client.awaits /\ upEnd = "cut") => LastAnswer'
  BY <1>2, <1>4, <1>5, <1>6
<1>8. QED BY <1>1, <1>3, <1>7 DEF LprInv

\* What is read when something is on its way.
LEMMA InTransitIs ==
    ASSUME TransportType, LprInv, up # <<>>
    PROVE  /\ client.step \in 1..5 /\ Ready(client.step)
           /\ IsPrefix(up, LprDialogue[client.step])
           /\ peer.at = "start" => client.step = 1
           /\ peer.at = "sub" => client.step \in {2, 4}
           /\ peer.at = "control" => client.step = 3
           /\ peer.at = "data" => client.step = 5
           /\ client.step \in {1, 2, 4} => up = LprDialogue[client.step]
<1> DEFINE n == client.step
<1>1. n \in 1..5 /\ Ready(n) /\ IsPrefix(up, LprDialogue[n]) /\ up \in Streams
  BY DEF LprInv, InTransit, TransportType
<1>2. peer.at = ReadsAt[n]
  BY <1>1 DEF Ready
<1>3. n = 1 \/ n = 2 \/ n = 3 \/ n = 4 \/ n = 5
  BY <1>1
<1>4. n \in {1, 2, 4} => up = LprDialogue[n]
  BY <1>1, StepsAre
<1>5. QED BY <1>1, <1>2, <1>3, <1>4, ReadsAtIs

LEMMA LpdCommandKeeps ==
    ASSUME TransportInv, LpdCommand
    PROVE  TransportInv'
<1> DEFINE P == [at : {"start", "sub", "end"} \cup Kinds, want : Nat,
                 held : Streams, saved : Streams]
<1>1. /\ TransportType /\ EndsInv /\ LprInv /\ xfer.by = "LPR" /\ peer.at = "start" /\ up # <<>>
      /\ up' = Tail(up) /\ UNCHANGED <<xfer, client, upEnd>>
  BY DEF TransportInv, LpdCommand
<1>2. client.step = 1 /\ Ready(1) /\ up = LprDialogue[1]
  BY <1>1, InTransitIs
<1>3. up' = <<>> /\ << >> \in Streams
  BY <1>1, <1>2, StepsAre, EmptyIsPrefix DEF Streams
<1>4. ~Done
  BY <1>1 DEF Done
<1>5. (downEnd = "cut" <=> upEnd = "cut") /\ peer \in P
  BY <1>1 DEF EndsInv, TransportType
<1>6. CASE Say(<<"ack">>) /\ peer' = [peer EXCEPT !.at = "sub"] /\ UNCHANGED downEnd
  <2>1. /\ down' \in Seq(Answers) /\ (downEnd = "cut" => down' = down)
        /\ (downEnd # "cut" /\ down = <<>>) => down' = <<"ack">>
    BY <1>1, <1>6, SayIs, AnswersAre
  <2>2. /\ peer'.at = "sub" /\ peer'.held = peer.held /\ peer'.saved = peer.saved
        /\ peer' \in P
    BY <1>5, <1>6
  <2>3. TransportType' /\ EndsInv'
    BY <1>1, <1>3, <1>6, <2>1, <2>2 DEF TransportType, EndsInv
  <2>4. ASSUME upEnd = "open", down = <<>> PROVE Unanswered'
    <3>1. Ready(2)'
      BY <1>2, <2>2, ReadsAtIs DEF Ready
    <3>2. QED BY <1>1, <1>2, <1>3, <1>5, <2>1, <2>4, <3>1 DEF Unanswered
  <2>5. LprInv'
    <3>1. xfer.size # 0 => IsPrefix(peer'.held, Doc) /\ IsPrefix(peer'.saved, Doc)
      BY <1>1, <2>2 DEF LprInv
    <3>2. QED BY <1>1, <1>2, <1>3, <1>4, <2>1, <2>4, <3>1, LprPeerStep
  <2>6. QED BY <1>1, <2>3, <2>5 DEF TransportInv
<1>7. ASSUME NEW answer \in TurnedAway, Say(answer), EndWith(<<>>)
      PROVE  TransportInv'
  <2>1. answer \in {<<>>, <<"nak">>} /\ answer \in Seq(Answers)
    BY AnswersAre DEF TurnedAway
  <2>2. /\ down' \in Seq(Answers) /\ (downEnd = "cut" => down' = down)
        /\ (downEnd # "cut" /\ down = <<>>) => down' = answer
    BY <1>1, <1>7, <2>1, SayIs
  <2>3. /\ peer'.at = "end" /\ peer'.held = peer.held /\ peer'.saved = <<>>
        /\ peer' \in P
        /\ downEnd' \in {"open", "closed", "cut"}
        /\ downEnd' = "cut" <=> downEnd = "cut"
    BY <1>1, <1>3, <1>7, EndWithIs
  <2>4. TransportType' /\ EndsInv'
    BY <1>1, <1>3, <2>2, <2>3 DEF TransportType, EndsInv
  <2>5. ASSUME upEnd = "open", down = <<>> PROVE Unanswered'
    BY <1>1, <1>3, <1>5, <2>1, <2>2, <2>3, <2>5 DEF Unanswered
  <2>6. LprInv'
    <3>1. xfer.size # 0 => IsPrefix(peer'.held, Doc) /\ IsPrefix(peer'.saved, Doc)
      BY <1>1, <2>3, DocIs, EmptyIsPrefix DEF LprInv, Streams
    <3>2. QED BY <1>1, <1>2, <1>3, <1>4, <2>2, <2>5, <3>1, LprPeerStep
  <2>7. QED BY <1>1, <2>4, <2>6 DEF TransportInv
<1>8. QED BY <1>6, <1>7 DEF LpdCommand
LEMMA LpdFileKeeps ==
    ASSUME TransportInv, LpdFile
    PROVE  TransportInv'
<1> DEFINE P == [at : {"start", "sub", "end"} \cup Kinds, want : Nat,
                 held : Streams, saved : Streams]
           n == client.step
<1>1. /\ TransportType /\ EndsInv /\ peer.at = "sub" /\ up # <<>>
      /\ up' = Tail(up) /\ UNCHANGED <<xfer, client, upEnd, downEnd>>
      /\ peer' = [peer EXCEPT !.at = Head(up)[1], !.want = Head(up)[2]]
      /\ Say(<<"ack">>)
  BY DEF TransportInv, LpdFile, Subcommand
<1>2. LprInv /\ xfer.by = "LPR"
  BY <1>1, XferTypes DEF TransportInv, RawInv, IppInv
<1>3. n \in {2, 4} /\ Ready(n) /\ up = LprDialogue[n]
  BY <1>1, <1>2, InTransitIs
<1>4. up' = <<>> /\ << >> \in Streams
  <2>1. n \in 1..5 /\ n \in {1, 2, 4}
    BY <1>3
  <2>2. Tail(LprDialogue[n]) = <<>>
    BY <1>1, <2>1, StepsAre
  <2>3. << >> \in Streams
    BY DEF Streams
  <2>4. QED BY <1>1, <1>3, <2>2, <2>3
<1>5. /\ Head(up)[1] = (IF n = 2 THEN "control" ELSE "data")
      /\ Head(up)[2] = (IF n = 2 THEN 1 ELSE xfer.size)
  <2>1. CASE n = 2
    <3>1. Head(up) = <<"control", 1>>
      BY <1>1, <1>3, <2>1, StepsAre
    <3>2. QED BY <2>1, <3>1
  <2>2. CASE n = 4
    <3>1. Head(up) = <<"data", xfer.size>>
      BY <1>1, <1>3, <2>2, StepsAre
    <3>2. QED BY <2>2, <3>1
  <2>3. QED BY <1>3, <2>1, <2>2
<1>6. peer \in P /\ xfer.size \in Nat /\ (downEnd = "cut" <=> upEnd = "cut")
  BY <1>1, XferTypes DEF TransportType, EndsInv
<1>7. /\ peer'.at = (IF n = 2 THEN "control" ELSE "data")
      /\ peer'.want = (IF n = 2 THEN 1 ELSE xfer.size)
      /\ peer'.held = peer.held /\ peer'.saved = peer.saved
  BY <1>1, <1>5, <1>6
<1>8. peer' \in P
  <2>1. ASSUME NEW a \in Kinds, NEW w \in Nat PROVE [peer EXCEPT !.at = a, !.want = w] \in P
    BY <1>6
  <2>2. Head(up)[1] \in Kinds /\ Head(up)[2] \in Nat
    BY <1>3, <1>5, <1>6 DEF Kinds
  <2>3. QED BY <1>1, <2>1, <2>2
<1>9. /\ down' \in Seq(Answers) /\ (downEnd = "cut" => down' = down)
      /\ (downEnd # "cut" /\ down = <<>>) => down' = <<"ack">>
  BY <1>1, SayIs, AnswersAre
<1>10. TransportType' /\ EndsInv'
  BY <1>1, <1>4, <1>8, <1>9 DEF TransportType, EndsInv
<1>11. ~Done
  BY <1>1 DEF Done
<1>12. ASSUME upEnd = "open", down = <<>> PROVE Unanswered'
  <2>1. PICK m \in Nat : m = n + 1
    BY <1>3
  <2>2. Ready(m)'
    BY <1>1, <1>3, <1>7, <2>1, ReadsAtIs DEF Ready
  <2>3. n # 5
    BY <1>3
  <2>4. QED BY <1>1, <1>4, <1>6, <1>9, <1>12, <2>1, <2>2, <2>3 DEF Unanswered
<1>13. LprInv'
  <2>1. xfer.size # 0 => IsPrefix(peer'.held, Doc) /\ IsPrefix(peer'.saved, Doc)
    BY <1>2, <1>7 DEF LprInv
  <2>2. n # 0
    BY <1>3
  <2>3. QED BY <1>1, <1>2, <1>4, <1>9, <1>11, <1>12, <2>1, <2>2, LprPeerStep
<1>14. QED BY <1>1, <1>2, <1>10, <1>13 DEF TransportInv

\* With nothing on its way, a peer that waits for more reads on at the end only.
LEMMA NothingArrives ==
    ASSUME TransportType, up = <<>>, NEW n \in Nat, n > 0, Arrived(n) \/ CapArrived
    PROVE  upEnd # "open"
<1>1. Len(up) = 0 /\ xfer.cap \in Nat
  BY XferTypes
<1>2. QED BY <1>1 DEF Arrived, CapArrived

LEMMA LpdControlKeeps ==
    ASSUME TransportInv, LpdControl
    PROVE  TransportInv'
<1> DEFINE P == [at : {"start", "sub", "end"} \cup Kinds, want : Nat,
                 held : Streams, saved : Streams]
           n == client.step
<1>1. /\ TransportType /\ EndsInv /\ peer.at = "control" /\ Arrived(peer.want + 1)
      /\ up' = Drop(peer.want + 1) /\ UNCHANGED <<xfer, client, upEnd, downEnd>>
      /\ peer' = [peer EXCEPT !.at = "sub"]
      /\ Say(<<"ack">>)
  BY DEF TransportInv, LpdControl
<1>2. LprInv /\ xfer.by = "LPR"
  BY <1>1, XferTypes DEF TransportInv, RawInv, IppInv
<1>3. peer \in P /\ peer.want \in Nat /\ (downEnd = "cut" <=> upEnd = "cut") /\ up \in Streams
  BY <1>1 DEF TransportType, EndsInv
<1>4. up # <<>> => n = 3 /\ Ready(3)
  BY <1>1, <1>2, InTransitIs
<1>5. up' = <<>> /\ << >> \in Streams
  <2>1. peer.want + 1 \in Nat
    BY <1>3
  <2>2. peer.want + 1 >= Len(up)
    <3>1. CASE up = <<>>
      <4>1. Len(up) = 0
        BY <3>1
      <4>2. QED BY <1>3, <4>1
    <3>2. CASE up # <<>>
      <4>1. n = 3 /\ peer.want = 1 /\ IsPrefix(up, LprDialogue[n])
        BY <1>1, <1>2, <1>4, <3>2, InTransitIs DEF Ready
      <4>2. LprDialogue[n] \in Streams /\ Len(LprDialogue[n]) = 2
        BY <1>1, <4>1, StepsAre
      <4>3. Len(up) <= 2
        <5>1. PICK d \in Streams : d = LprDialogue[n] /\ Len(d) = 2
          BY <4>2
        <5>2. IsPrefix(up, d) /\ up \in Seq(Tokens) /\ d \in Seq(Tokens)
          BY <1>3, <4>1, <5>1 DEF Streams
        <5>3. QED BY <5>1, <5>2, PrefixIs
      <4>4. QED BY <4>1, <4>3
    <3>3. QED BY <3>1, <3>2
  <2>3. QED BY <1>1, <2>1, <2>2, DropIs, EmptyIsPrefix DEF Streams
<1>6. /\ peer'.at = "sub" /\ peer'.held = peer.held /\ peer'.saved = peer.saved
      /\ peer' \in P
  BY <1>1, <1>3
<1>7. /\ down' \in Seq(Answers) /\ (downEnd = "cut" => down' = down)
      /\ (downEnd # "cut" /\ down = <<>>) => down' = <<"ack">>
  BY <1>1, SayIs, AnswersAre
<1>8. TransportType' /\ EndsInv'
  BY <1>1, <1>5, <1>6, <1>7 DEF TransportType, EndsInv
<1>9. ~Done
  BY <1>1 DEF Done
<1>10. upEnd = "open" => up # <<>>
  <2>1. peer.want + 1 \in Nat /\ peer.want + 1 > 0
    BY <1>3
  <2>2. QED BY <1>1, <2>1, NothingArrives
<1>11. ASSUME upEnd = "open", down = <<>> PROVE Unanswered'
  <2>1. n = 3 /\ Ready(3)
    BY <1>4, <1>10, <1>11
  <2>2. Ready(4)'
    BY <1>6, <2>1, ReadsAtIs DEF Ready
  <2>3. client'.step = 3
    BY <1>1, <2>1
  <2>4. down' = <<"ack">>
    BY <1>3, <1>7, <1>11
  <2>5. QED BY <1>5, <2>2, <2>3, <2>4 DEF Unanswered
<1>12. n = 0 => client.outcome # "none"
  <2>1. (n = 0 /\ client.outcome = "none") => Ready(1)
    BY <1>2 DEF LprInv
  <2>2. QED BY <1>1, <2>1, ReadsAtIs DEF Ready
<1>13. LprInv'
  <2>1. xfer.size # 0 => IsPrefix(peer'.held, Doc) /\ IsPrefix(peer'.saved, Doc)
    BY <1>2, <1>6 DEF LprInv
  <2>2. QED BY <1>1, <1>2, <1>5, <1>7, <1>9, <1>10, <1>11, <1>12, <2>1, LprPeerStep
<1>14. QED BY <1>1, <1>2, <1>8, <1>13 DEF TransportInv

LEMMA LpdEndKeeps ==
    ASSUME TransportInv, LpdEnd
    PROVE  TransportInv'
<1> DEFINE P == [at : {"start", "sub", "end"} \cup Kinds, want : Nat,
                 held : Streams, saved : Streams]
<1>1. /\ TransportType /\ EndsInv /\ LprInv /\ xfer.by = "LPR"
      /\ peer.at \in {"start", "sub"} /\ client.step > 0 /\ up = <<>> /\ upEnd # "open"
      /\ EndWith(peer.held) /\ UNCHANGED <<xfer, client, up, upEnd, down>>
  BY DEF TransportInv, LpdEnd
<1>2. Admitted' = Admitted /\ peer.held \in Streams /\ client.step \in Nat
  BY <1>1, SameXfer DEF TransportType
<1>3. /\ peer'.at = "end" /\ peer'.saved = peer.held /\ peer'.held = peer.held
      /\ peer' \in P
      /\ downEnd' \in {"open", "closed", "cut"}
      /\ downEnd' = "cut" <=> downEnd = "cut"
  BY <1>1, <1>2, EndWithIs
<1>4. TransportType' /\ EndsInv'
  BY <1>1, <1>3 DEF TransportType, EndsInv
<1>5. Done => Done'
  BY <1>1, <1>2, <1>3 DEF Done
<1>6. LprInv'
  <2>1. xfer.size # 0 => IsPrefix(peer'.held, Doc) /\ IsPrefix(peer'.saved, Doc)
    BY <1>1, <1>3 DEF LprInv
  <2>2. client.step # 0
    BY <1>1, <1>2
  <2>3. up' = <<>> /\ down' = down
    BY <1>1
  <2>4. QED BY <1>1, <1>5, <2>1, <2>2, <2>3, LprPeerStep
<1>7. QED BY <1>1, <1>4, <1>6 DEF TransportInv
\* The first m tokens of the data file, where the document has as many.
LEMMA FirstOfData ==
    ASSUME TransportType, NEW u \in Streams, IsPrefix(u, LprDialogue[5]),
           NEW m \in Nat, m <= xfer.size
    PROVE  /\ IsPrefix(First(u, m), Doc)
           /\ Len(u) >= m => First(u, m) = First(Doc, m)
<1> DEFINE d == Doc
           t == LprDialogue[5]
<1>1. d \in Streams /\ Len(d) = xfer.size /\ xfer.size \in Nat
  BY DocIs, XferTypes
<1>2. t \in Streams /\ Len(t) = xfer.size + 1 /\ IsPrefix(d, t) /\ IsPrefix(u, t)
  <2>1. 5 \in 1..5
    OBVIOUS
  <2>2. QED BY <2>1, StepsAre
<1> HIDE DEF d, t
<1>3. First(d, m) = First(t, m) /\ First(d, m) \in Streams /\ IsPrefix(First(d, m), d)
  BY <1>1, <1>2, FirstOfPrefix, FirstIs DEF Streams
<1>4. /\ First(u, m) \in Streams /\ IsPrefix(First(u, m), First(t, m))
      /\ Len(u) >= m => First(u, m) = First(t, m)
  BY <1>2, FirstOfPrefix, FirstIs DEF Streams
<1>5. IsPrefix(First(u, m), d)
  BY <1>1, <1>3, <1>4, PrefixOfPrefix DEF Streams
<1>6. QED BY <1>3, <1>4, <1>5 DEF d

\* What readChunk returns: a first part of the document, if it has a byte, and
\* all of it that the cap admits if the file is there whole.
LEMMA ReadChunkIs ==
    ASSUME TransportType, LprInv, peer.at = "data"
    PROVE  LET c == ReadChunk
               extra == IF peer.want > 0 THEN 1 ELSE 0
           IN  /\ c.clipped \in BOOLEAN /\ c.data \in Streams
               /\ c.clipped => xfer.cap > 0
               /\ c.clipped \/ Drop(Len(c.data) + extra) = <<>>
               /\ xfer.size # 0 => IsPrefix(c.data, Doc)
               /\ (up = LprDialogue[5] /\ peer.want = xfer.size /\ xfer.size # 0)
                     => c.data = Capped(Doc)
<1> DEFINE w == peer.want
           cap == xfer.cap
           n == xfer.size
           clipped == cap > 0 /\ (IF w > 0 THEN w > cap ELSE Len(up) >= cap)
           data == IF clipped THEN First(up, cap) ELSE IF w > 0 THEN First(up, w) ELSE up
           extra == IF w > 0 THEN 1 ELSE 0
<1>1. ReadChunk = [clipped |-> clipped, data |-> data]
  BY DEF ReadChunk
<1>2. /\ w \in Nat /\ cap \in Nat /\ cap # 1 /\ n \in Nat /\ up \in Streams /\ Len(up) \in Nat
      /\ up \in Seq(Tokens)
  BY XferTypes, LenIs DEF TransportType, Streams
<1>3. up # <<>> => /\ w = n /\ IsPrefix(up, LprDialogue[5]) /\ Len(up) <= n + 1
  <2> SUFFICES ASSUME up # <<>> PROVE w = n /\ IsPrefix(up, LprDialogue[5]) /\ Len(up) <= n + 1
    OBVIOUS
  <2>1. client.step = 5 /\ Ready(5) /\ IsPrefix(up, LprDialogue[5])
    BY InTransitIs
  <2>2. PICK t \in Streams : t = LprDialogue[5] /\ Len(t) = n + 1
    <3>1. 5 \in 1..5
      OBVIOUS
    <3>2. QED BY <3>1, StepsAre
  <2>3. Len(up) <= Len(t)
    BY <1>2, <2>1, <2>2, PrefixIs DEF Streams
  <2>4. QED BY <2>1, <2>2, <2>3 DEF Ready
<1>4. \A m \in Nat : /\ First(up, m) \in Streams /\ IsPrefix(First(up, m), up)
                     /\ Len(First(up, m)) = IF m < Len(up) THEN m ELSE Len(up)
  BY <1>2, FirstIs DEF Streams
<1> HIDE DEF w, cap, n
<1>5. data \in Streams /\ IsPrefix(data, up) /\ clipped \in BOOLEAN
  <2>1. IsPrefix(up, up)
    BY <1>2, WholeIsPrefix
  <2>2. QED BY <1>2, <1>4, <2>1
<1>6. ASSUME ~clipped PROVE Drop(Len(data) + extra) = <<>>
  <2>1. Len(data) \in Nat
    BY <1>5, LenIs DEF Streams
  <2>2. extra \in {0, 1}
    OBVIOUS
  <2>3. w > 0 => data = First(up, w) /\ extra = 1
    BY <1>6
  <2>4. ~(w > 0) => data = up
    BY <1>6
  <2> HIDE DEF data, extra
  <2>5. Len(data) + extra \in Nat
    BY <2>1, <2>2
  <2>6. Len(data) + extra >= Len(up)
    <3>1. CASE w > 0
      <4>1. Len(data) = IF w < Len(up) THEN w ELSE Len(up)
        BY <1>2, <1>4, <2>3, <3>1
      <4>2. Len(up) <= w + 1
        <5>1. CASE up = <<>>
          <6>1. Len(up) = 0
            BY <5>1
          <6>2. QED BY <1>2, <6>1
        <5>2. CASE up # <<>>
          BY <1>3, <5>2
        <5>3. QED BY <5>1, <5>2
      <4>3. extra = 1
        BY <2>3, <3>1
      <4>4. QED BY <1>2, <4>1, <4>2, <4>3
    <3>2. CASE ~(w > 0)
      <4>1. Len(data) = Len(up)
        BY <2>4, <3>2
      <4>2. QED BY <1>2, <2>2, <4>1
    <3>3. QED BY <3>1, <3>2
  <2>7. QED BY <2>5, <2>6, DropIs
\* The number of tokens that are read of a file that is announced with its length.
<1>7. ASSUME n # 0, up # <<>>
      PROVE  \E m \in Nat : /\ m <= n /\ data = First(up, m)
                            /\ First(Doc, m) = Capped(Doc)
  <2>1. w = n /\ w > 0
    BY <1>2, <1>3, <1>7
  <2>2. CASE clipped
    <3>1. cap <= n /\ cap > 0 /\ data = First(up, cap)
      BY <1>2, <2>1, <2>2
    <3>2. Capped(Doc) = First(Doc, cap)
      BY <3>1 DEF Capped, cap
    <3>3. QED BY <1>2, <3>1, <3>2
  <2>3. CASE ~clipped
    <3>1. data = First(up, n) /\ (cap = 0 \/ cap >= n)
      BY <1>2, <2>1, <2>3
    <3> DEFINE d == Doc
    <3>2. d \in Seq(Tokens) /\ Len(d) = n
      BY DocIs DEF Streams, n
    <3> HIDE DEF d
    <3>3. First(d, n) = d
      BY <1>2, <3>2, FirstIsWhole
    <3>4. Capped(d) = d
      <4>1. CASE cap = 0
        BY <4>1 DEF Capped, cap
      <4>2. CASE cap >= n /\ cap # 0
        <5>1. First(d, cap) = d
          BY <1>2, <3>2, <4>2, FirstIsWhole
        <5>2. QED BY <4>2, <5>1 DEF Capped, cap
      <4>3. QED BY <3>1, <4>1, <4>2
    <3>5. QED BY <1>2, <3>1, <3>3, <3>4 DEF d
  <2>4. QED BY <2>2, <2>3
<1>8. ASSUME n # 0 PROVE IsPrefix(data, Doc)
  <2>1. CASE up = <<>>
    <3>1. Len(data) \in Nat /\ Len(data) <= Len(up) /\ Len(up) = 0
      BY <1>2, <1>5, <2>1, LenIs, PrefixIs DEF Streams
    <3>2. data = <<>>
      BY <1>5, <3>1, LenIs DEF Streams
    <3>3. QED BY <3>2, DocIs, EmptyIsPrefix DEF Streams
  <2>2. CASE up # <<>>
    <3>1. PICK m \in Nat : m <= n /\ data = First(up, m)
      BY <1>7, <1>8, <2>2
    <3>2. QED BY <1>2, <1>3, <2>2, <3>1, FirstOfData DEF n
  <2>3. QED BY <2>1, <2>2
<1>9. ASSUME up = LprDialogue[5], n # 0 PROVE data = Capped(Doc)
  <2>1. up # <<>> /\ Len(up) = n + 1
    <3>1. 5 \in 1..5
      OBVIOUS
    <3>2. QED BY <1>9, <3>1, StepsAre DEF n
  <2>2. PICK m \in Nat : m <= n /\ data = First(up, m) /\ First(Doc, m) = Capped(Doc)
    BY <1>7, <1>9, <2>1
  <2>3. Len(up) >= m
    BY <1>2, <2>1, <2>2
  <2>4. QED BY <1>2, <1>3, <2>1, <2>2, <2>3, FirstOfData DEF n
<1>10. clipped => cap > 0
  OBVIOUS
<1> HIDE DEF clipped, data, extra
<1>11. ReadChunk.clipped = clipped /\ ReadChunk.data = data
  BY <1>1, <1>5
<1>12. QED BY <1>5, <1>6, <1>8, <1>9, <1>10, <1>11 DEF w, cap, n, extra

LEMMA LpdDataKeeps ==
    ASSUME TransportInv, LpdData
    PROVE  TransportInv'
<1> DEFINE P == [at : {"start", "sub", "end"} \cup Kinds, want : Nat,
                 held : Streams, saved : Streams]
           c == ReadChunk
           extra == IF peer.want > 0 THEN 1 ELSE 0
<1>1. /\ TransportType /\ EndsInv /\ peer.at = "data"
      /\ UNCHANGED <<xfer, client, upEnd>> /\ Say(<<"ack">>)
      /\ IF c.clipped \/ peer.want = 0 THEN CapArrived ELSE Arrived(peer.want + 1)
      /\ \/ c.clipped /\ EndWith(c.data) /\ up' = <<>>
         \/ /\ ~c.clipped /\ peer' = [peer EXCEPT !.at = "sub", !.held = c.data]
            /\ up' = Drop(Len(c.data) + extra) /\ UNCHANGED downEnd
  BY DEF TransportInv, LpdData
<1>2. LprInv /\ xfer.by = "LPR"
  BY <1>1, XferTypes DEF TransportInv, RawInv, IppInv
<1>3. /\ peer \in P /\ peer.want \in Nat /\ (downEnd = "cut" <=> upEnd = "cut") /\ up \in Streams
      /\ downEnd \in {"open", "closed", "cut"}
  BY <1>1 DEF TransportType, EndsInv
<1>4. /\ c.clipped \in BOOLEAN /\ c.data \in Streams
      /\ c.clipped \/ Drop(Len(c.data) + extra) = <<>>
      /\ xfer.size # 0 => IsPrefix(c.data, Doc)
      /\ (up = LprDialogue[5] /\ peer.want = xfer.size /\ xfer.size # 0) => c.data = Capped(Doc)
  BY <1>1, <1>2, ReadChunkIs
<1> HIDE DEF c, extra
<1>5. up' = <<>> /\ << >> \in Streams
  <2>1. << >> \in Streams
    BY DEF Streams
  <2>2. QED BY <1>1, <1>4, <2>1
\* The data read is held until the next file, or saved.
<1>6. /\ \/ peer'.at = "sub" /\ peer'.held = c.data /\ peer'.saved = peer.saved
         \/ peer'.at = "end" /\ peer'.held = peer.held /\ peer'.saved = c.data
      /\ peer' \in P
      /\ downEnd' \in {"open", "closed", "cut"}
      /\ downEnd' = "cut" <=> downEnd = "cut"
  <2>1. CASE c.clipped /\ EndWith(c.data)
    BY <1>1, <1>4, <2>1, EndWithIs
  <2>2. CASE ~c.clipped /\ peer' = [peer EXCEPT !.at = "sub", !.held = c.data] /\ UNCHANGED downEnd
    BY <1>3, <1>4, <2>2
  <2>3. QED BY <1>1, <2>1, <2>2
<1>7. /\ down' \in Seq(Answers) /\ (downEnd = "cut" => down' = down)
      /\ (downEnd # "cut" /\ down = <<>>) => down' = <<"ack">>
  BY <1>1, SayIs, AnswersAre
<1>8. TransportType' /\ EndsInv'
  BY <1>1, <1>5, <1>6, <1>7 DEF TransportType, EndsInv
<1>9. ~Done
  BY <1>1 DEF Done
<1>10. upEnd = "open" => up # <<>>
  <2>1. peer.want + 1 \in Nat /\ peer.want + 1 > 0
    BY <1>3
  <2>2. CapArrived \/ Arrived(peer.want + 1)
    BY <1>1
  <2>3. QED BY <1>1, <2>1, <2>2, NothingArrives
<1>11. ASSUME upEnd = "open", down = <<>>, up = LprDialogue[client.step] PROVE Unanswered'
  <2>1. client.step = 5 /\ peer.want = xfer.size /\ up = LprDialogue[5]
    BY <1>1, <1>2, <1>10, <1>11, InTransitIs DEF Ready
  <2>2. xfer.size # 0
    <3> SUFFICES ASSUME xfer.size = 0 PROVE FALSE
      OBVIOUS
    <3>1. Len(up) = 1
      <4>1. 5 \in 1..5
        OBVIOUS
      <4>2. QED BY <1>1, <2>1, <4>1, StepsAre
    <3>2. CapArrived
      BY <1>1, <2>1
    <3>3. QED BY <1>1, <1>11, <3>1, <3>2, XferTypes DEF CapArrived
  <2>3. c.data = Admitted
    BY <1>2, <1>4, <2>1, <2>2 DEF Admitted
  <2>4. Admitted' = Admitted
    BY <1>1, SameXfer
  <2>5. Done'
    BY <1>5, <1>6, <2>3, <2>4 DEF Done
  <2>6. down' = <<"ack">> /\ client'.step = 5
    BY <1>1, <1>3, <1>7, <1>11, <2>1
  <2>7. QED BY <1>5, <2>5, <2>6 DEF Unanswered
<1>12. client.step = 0 => client.outcome # "none"
  <2>1. (client.step = 0 /\ client.outcome = "none") => Ready(1)
    BY <1>2 DEF LprInv
  <2>2. QED BY <1>1, <2>1, ReadsAtIs DEF Ready
<1>13. LprInv'
  <2>1. xfer.size # 0 => IsPrefix(peer'.held, Doc) /\ IsPrefix(peer'.saved, Doc)
    BY <1>2, <1>4, <1>6 DEF LprInv
  <2>2. QED BY <1>1, <1>2, <1>5, <1>7, <1>9, <1>10, <1>11, <1>12, <2>1, LprPeerStep
<1>14. QED BY <1>1, <1>2, <1>8, <1>13 DEF TransportInv

-----------------------------------------------------------------------------
(* Together *)

LEMMA TransportInitInv == TransportInit => TransportInv
<1> SUFFICES ASSUME TransportInit PROVE TransportInv
  OBVIOUS
<1>1. /\ xfer.by \in {"9100", "LPR", "IPP"} /\ xfer.size \in Nat /\ xfer.cap \in Nat \ {1}
      /\ xfer \in [by : {"9100", "LPR", "IPP"}, size : Nat, cap : Nat \ {1}]
  BY TransportAssumption DEF TransportInit
<1>2. /\ client = [step |-> 0, awaits |-> FALSE, outcome |-> "none"]
      /\ up = <<>> /\ upEnd = "open" /\ down = <<>> /\ downEnd = "open"
      /\ peer = [at |-> "start", want |-> 0, held |-> <<>>, saved |-> <<>>]
  BY DEF TransportInit
<1>3. << >> \in Streams /\ << >> \in Seq(Answers)
  BY AnswersAre DEF Streams
<1>4. TransportType
  <2>1. client \in [step : Nat, awaits : BOOLEAN, outcome : {"none", "ok", "error", "presumed"}]
    BY <1>2
  <2>2. peer \in [at : {"start", "sub", "end"} \cup Kinds, want : Nat,
                  held : Streams, saved : Streams]
    BY <1>2, <1>3
  <2>3. QED BY <1>1, <1>2, <1>3, <2>1, <2>2 DEF TransportType
<1>5. EndsInv
  BY <1>2 DEF EndsInv
<1>6. IsPrefix(<<>>, Doc) /\ IsPrefix(<<>>, IppRequest)
  BY <1>4, DocIs, IppIs, EmptyIsPrefix DEF Streams
<1>7. RawInv
  BY <1>2, <1>6 DEF RawInv
<1>8. IppInv
  <2>1. DOMAIN down = {}
    BY <1>2
  <2>2. QED BY <1>2, <1>6, <2>1 DEF IppInv
<1>9. LprInv
  <2>1. Ready(1)
    BY <1>2, ReadsAtIs DEF Ready
  <2>2. InTransit /\ Rest
    BY <1>2 DEF InTransit, Rest
  <2>3. QED BY <1>2, <1>6, <2>1, <2>2 DEF LprInv
<1>10. QED BY <1>4, <1>5, <1>7, <1>8, <1>9 DEF TransportInv

LEMMA TransportNextInv ==
    ASSUME TransportInv, TransportNext \/ UNCHANGED transportVars
    PROVE  TransportInv'
<1>1. CASE UNCHANGED transportVars
  <2>1. UNCHANGED <<xfer, client, up, upEnd, down, downEnd, peer>>
    BY <1>1 DEF transportVars
  <2>2. Doc' = Doc /\ IppRequest' = IppRequest /\ LprDialogue' = LprDialogue /\ Admitted' = Admitted
    BY <2>1, SameXfer
  <2>3. TransportType' /\ EndsInv'
    BY <2>1 DEF TransportInv, TransportType, EndsInv
  <2>4. (RawInv => RawInv') /\ (IppInv => IppInv')
    BY <2>1, <2>2 DEF RawInv, IppInv
  <2>5. (Done => Done') /\ (InTransit => InTransit') /\ (Rest => Rest') /\ (Ready(1) => Ready(1)')
    BY <2>1, <2>2 DEF Done, InTransit, Rest, Ready
  <2>6. (Unanswered => Unanswered') /\ (LastAnswer => LastAnswer')
    BY <2>1, <2>2, <2>5 DEF Unanswered, LastAnswer, Ready
  <2>7. LprInv => LprInv'
    BY <2>1, <2>2, <2>5, <2>6 DEF LprInv
  <2>8. QED BY <2>1, <2>3, <2>4, <2>7 DEF TransportInv
<1>2. CASE Dial \/ WriteStep \/ Answered \/ SendFails \/ CutOff
  BY <1>2, DialKeeps, WriteStepKeeps, AnsweredKeeps, SendFailsKeeps, CutOffKeeps
<1>3. CASE PeerRaw \/ PeerIpp \/ LpdCommand \/ LpdFile \/ LpdControl \/ LpdData \/ LpdEnd
  BY <1>3, PeerRawKeeps, PeerIppKeeps, LpdCommandKeeps, LpdFileKeeps, LpdControlKeeps,
     LpdDataKeeps, LpdEndKeeps
<1>4. QED BY <1>1, <1>2, <1>3 DEF TransportNext

\* What a peer captures is a first part of the document that was sent to it,
\* and after a success all that its cap admits, wherever the connection is cut;
\* but for LPR data files of length 0 and IPP answers without a body.
\* (lprTransport.send, ippTransport.send against handleLPD, ippHandler)
THEOREM Delivery == Spec => []DeliveredIsCaptured
<1>1. Init => TransportInv
  BY TransportInitInv DEF Init
<1>2. TransportInv /\ [Next]_vars => TransportInv'
  <2> SUFFICES ASSUME TransportInv, [Next]_vars PROVE TransportInv'
    OBVIOUS
  <2>1. TransportNext \/ UNCHANGED transportVars
    BY DEF Next, vars
  <2>2. QED BY <2>1, TransportNextInv
<1>3. TransportInv => DeliveredIsCaptured
  <2> SUFFICES ASSUME TransportInv PROVE DeliveredIsCaptured
    OBVIOUS
  <2>1. TransportType /\ xfer.by \in {"9100", "LPR", "IPP"}
    BY XferTypes DEF TransportInv
  <2>2. CASE xfer.by = "9100"
    BY <2>2 DEF TransportInv, RawInv, DeliveredIsCaptured, CapturedIsSent, SuccessIsCaptured
  <2>3. CASE xfer.by = "IPP"
    <3>1. IsPrefix(<<>>, Doc) /\ IsPrefix(Admitted, Doc)
      BY <2>1, AdmittedIsSent, DocIs, EmptyIsPrefix DEF Streams
    <3>2. QED BY <2>3, <3>1
          DEF TransportInv, IppInv, DeliveredIsCaptured, CapturedIsSent, SuccessIsCaptured
  <2>4. CASE xfer.by = "LPR"
    <3>1. LprInv
      BY <2>4 DEF TransportInv
    <3>2. xfer.size # 0 => CapturedIsSent
      BY <3>1 DEF LprInv, CapturedIsSent
    <3>3. client.outcome # "presumed" => SuccessIsCaptured
      BY <3>1 DEF LprInv, Done, SuccessIsCaptured
    <3>4. QED BY <2>4, <3>2, <3>3 DEF DeliveredIsCaptured
  <2>5. QED BY <2>1, <2>2, <2>3, <2>4
<1>4. QED BY <1>1, <1>2, <1>3, PTL DEF Spec
=============================================================================
