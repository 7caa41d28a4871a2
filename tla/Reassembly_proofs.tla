-------------------------- MODULE Reassembly_proofs --------------------------
(***************************************************************************)
(* Proofs about Reassembly, for any flows, sequence numbers, segments and  *)
(* bounds.                                                                 *)
(***************************************************************************)
EXTENDS Reassembly, FiniteSetTheorems, SequenceTheorems, WellFoundedInduction, TLAPS

-----------------------------------------------------------------------------
(* Sequence numbers *)

\* A remainder by one subtraction or one addition.
LEMMA OneModulus ==
    ASSUME NEW m \in Nat, m > 0, NEW x \in Int, -m <= x, x < 2 * m
    PROVE  x % m = IF x < 0 THEN x + m ELSE IF x < m THEN x ELSE x - m
<1>1. \E q \in Int : x = m * q + (x % m) /\ 0 <= x % m /\ x % m < m
  OBVIOUS
<1>2. QED BY <1>1

LEMMA Halves ==
    \E h \in Nat : SeqMod = 2 * h /\ SeqMod \div 2 = h /\ StreamLen + 1 < h
<1>1. SeqMod \in Nat /\ SeqMod % 2 = 0 /\ StreamLen + 1 < SeqMod \div 2 /\ StreamLen \in Nat
  BY ReassemblyAssumption
<1> DEFINE h == SeqMod \div 2
<1>2. h \in Nat /\ SeqMod = 2 * h
  BY <1>1
<1>3. QED BY <1>1, <1>2

\* The sequence number of a byte of flow k.
At(k, o) == SeqAdd(Isn[k], 1 + o)

LEMMA AtIs ==
    ASSUME NEW k \in Flows, NEW a \in 0..StreamLen
    PROVE  /\ At(k, a) \in SeqNums
           /\ At(k, a) = IF Isn[k] + 1 + a < SeqMod THEN Isn[k] + 1 + a
                         ELSE Isn[k] + 1 + a - SeqMod
<1>1. PICK h \in Nat : SeqMod = 2 * h /\ StreamLen + 1 < h
  BY Halves
<1>2. Isn[k] \in 0..(SeqMod - 1) /\ StreamLen \in Nat
  BY ReassemblyAssumption DEF SeqNums
<1> DEFINE x == Isn[k] + (1 + a)
<1>3. x \in Int /\ 0 <= x /\ x < 2 * SeqMod /\ SeqMod > 0 /\ SeqMod \in Nat /\ -SeqMod <= x
  BY <1>1, <1>2
<1> HIDE DEF x
<1>4. x % SeqMod = IF x < SeqMod THEN x ELSE x - SeqMod
  <2>1. ~(x < 0)
    BY <1>3
  <2>2. QED BY <1>3, <2>1, OneModulus
<1>5. x % SeqMod \in 0..(SeqMod - 1)
  BY <1>3, <1>4
<1>6. At(k, a) = x % SeqMod
  BY DEF At, SeqAdd, x
<1> DEFINE v == Isn[k] + 1 + a
<1>7. x = v
  BY <1>2 DEF x
<1> HIDE DEF v
<1>8. At(k, a) = IF v < SeqMod THEN v ELSE v - SeqMod
  BY <1>4, <1>6, <1>7
<1>9. At(k, a) \in SeqNums
  BY <1>5, <1>6 DEF SeqNums
<1>10. QED BY <1>1, <1>2, <1>8, <1>9 DEF v

\* Sequence numbers of a stream compare as its offsets do, wherever they wrap.
LEMMA SeqOrder ==
    ASSUME NEW k \in Flows, NEW a \in 0..StreamLen, NEW b \in 0..StreamLen
    PROVE  /\ SeqSub(At(k, a), At(k, b)) = IF a >= b THEN a - b ELSE a - b + SeqMod
           /\ At(k, a) = At(k, b) <=> a = b
           /\ SeqAfter(At(k, a), At(k, b)) <=> a > b
<1>1. PICK h \in Nat : SeqMod = 2 * h /\ SeqMod \div 2 = h /\ StreamLen + 1 < h
  BY Halves
<1>2. Isn[k] \in 0..(SeqMod - 1) /\ StreamLen \in Nat
  BY ReassemblyAssumption DEF SeqNums
<1> DEFINE i == Isn[k]
           x == At(k, a)
           y == At(k, b)
<1>3. x = (IF i + 1 + a < SeqMod THEN i + 1 + a ELSE i + 1 + a - SeqMod) /\ x \in 0..(SeqMod - 1)
  BY AtIs DEF SeqNums
<1>4. y = (IF i + 1 + b < SeqMod THEN i + 1 + b ELSE i + 1 + b - SeqMod) /\ y \in 0..(SeqMod - 1)
  BY AtIs DEF SeqNums
<1>5. i \in 0..(SeqMod - 1)
  BY <1>2
<1> HIDE DEF i, x, y
<1>6. (x - y) % SeqMod = IF x - y < 0 THEN x - y + SeqMod ELSE x - y
  <2>1. x - y \in Int /\ -SeqMod <= x - y /\ x - y < SeqMod /\ x - y < 2 * SeqMod
        /\ SeqMod \in Nat /\ SeqMod > 0
    BY <1>1, <1>2, <1>3, <1>4
  <2>2. QED BY <2>1, OneModulus
<1>7. (x - y) % SeqMod = IF a >= b THEN a - b ELSE a - b + SeqMod
  BY <1>1, <1>2, <1>3, <1>4, <1>5, <1>6
<1>8. x = y <=> a = b
  BY <1>1, <1>2, <1>3, <1>4, <1>5
<1>9. SeqSub(x, y) = IF a >= b THEN a - b ELSE a - b + SeqMod
  BY <1>7 DEF SeqSub
<1>10. SeqAfter(x, y) <=> a > b
  <2>1. SeqAfter(x, y) <=> (IF a >= b THEN a - b ELSE a - b + SeqMod) \in 1..(h - 1)
    BY <1>1, <1>9 DEF SeqAfter
  <2>2. QED BY <1>1, <1>2, <2>1
<1>11. QED BY <1>8, <1>9, <1>10 DEF x, y

\* The number after n more bytes.
LEMMA SeqAdvance ==
    ASSUME NEW k \in Flows, NEW a \in 0..StreamLen, NEW n \in Nat, a + n <= StreamLen
    PROVE  SeqAdd(At(k, a), n) = At(k, a + n)
<1>1. PICK h \in Nat : SeqMod = 2 * h /\ StreamLen + 1 < h
  BY Halves
<1>2. Isn[k] \in 0..(SeqMod - 1) /\ StreamLen \in Nat /\ a + n \in 0..StreamLen
  BY ReassemblyAssumption DEF SeqNums
<1> DEFINE i == Isn[k]
           x == At(k, a)
           y == At(k, a + n)
           z == x + n
<1>3. x = (IF i + 1 + a < SeqMod THEN i + 1 + a ELSE i + 1 + a - SeqMod) /\ x \in 0..(SeqMod - 1)
  BY AtIs DEF SeqNums
<1>4. y = IF i + 1 + (a + n) < SeqMod THEN i + 1 + (a + n) ELSE i + 1 + (a + n) - SeqMod
  BY <1>2, AtIs
<1>5. i \in 0..(SeqMod - 1)
  BY <1>2
<1> HIDE DEF i, x, y
<1>6. z \in Int /\ 0 <= z /\ z < 2 * SeqMod /\ SeqMod \in Nat /\ SeqMod > 0 /\ -SeqMod <= z
  BY <1>1, <1>2, <1>3
<1>7. z % SeqMod = IF z < SeqMod THEN z ELSE z - SeqMod
  <2> HIDE DEF z
  <2>1. ~(z < 0)
    BY <1>6
  <2>2. QED BY <1>6, <2>1, OneModulus
<1>8. z % SeqMod = y
  BY <1>1, <1>2, <1>3, <1>4, <1>5, <1>7
<1>9. QED BY <1>8 DEF SeqAdd, x, y, z

-----------------------------------------------------------------------------
(* The rounds of drainPending *)

\* Induction, for a set of numbers.
LEMMA AllNumbers ==
    ASSUME NEW S, 0 \in S, \A n \in Nat : n \in S => n + 1 \in S
    PROVE  \A n \in Nat : n \in S
<1> DEFINE T == {n \in Nat : n \notin S}
<1> SUFFICES ASSUME T # {} PROVE FALSE
  OBVIOUS
<1>1. PICK x \in T : \A y \in T : ~(<<y, x>> \in OpToRel(<, Nat))
  <2>1. T \subseteq Nat
    OBVIOUS
  <2> HIDE DEF T
  <2>2. QED BY <2>1, WFMin, NatLessThanWellFounded
<1>2. x \in Nat /\ x \notin S /\ x # 0
  OBVIOUS
<1>3. x - 1 \in Nat /\ x - 1 < x /\ (x - 1) + 1 = x
  BY <1>2
<1>4. x - 1 \in T
  BY <1>2, <1>3
<1> HIDE DEF T
<1>5. ~(<<x - 1, x>> \in {ss \in Nat \X Nat : ss[1] < ss[2]})
  BY <1>1, <1>4 DEF OpToRel
<1> DEFINE w == x - 1
<1>6. w \in Nat /\ w < x
  BY <1>3
<1> HIDE DEF w
<1>7. <<w, x>> \in Nat \X Nat /\ <<w, x>>[1] = w /\ <<w, x>>[2] = x
  BY <1>2, <1>6
<1>8. <<w, x>> \in {ss \in Nat \X Nat : ss[1] < ss[2]}
  BY <1>6, <1>7
<1>9. QED BY <1>5, <1>8 DEF w

\* The first n rounds, one by one.
FirstRounds(f, n, g) ==
    /\ g = [i \in 0..n |-> g[i]]
    /\ g[0] = f
    /\ \A i \in 1..n : g[i] = Taken(g[i - 1])

LEMMA FirstRoundsExist == \A f : \A n \in Nat : \E g : FirstRounds(f, n, g)
<1> SUFFICES ASSUME NEW f PROVE \A n \in Nat : \E g : FirstRounds(f, n, g)
  OBVIOUS
<1> DEFINE S == {n \in Nat : \E g : FirstRounds(f, n, g)}
<1>1. 0 \in S
  <2> DEFINE g == [i \in 0..0 |-> f]
  <2>1. FirstRounds(f, 0, g)
    BY DEF FirstRounds
  <2>2. QED BY <2>1
<1>2. ASSUME NEW n \in Nat, n \in S PROVE n + 1 \in S
  <2>1. PICK g : FirstRounds(f, n, g)
    BY <1>2
  <2> DEFINE h == [i \in 0..(n + 1) |-> IF i = n + 1 THEN Taken(g[n]) ELSE g[i]]
  <2>2. \A i \in 0..n : i \in 0..(n + 1) /\ i # n + 1
    OBVIOUS
  <2>3. \A i \in 0..n : h[i] = g[i]
    BY <2>2
  <2>4. 0 \in 0..n /\ n \in 0..n /\ n + 1 \in 0..(n + 1)
    OBVIOUS
  <2>5. h[0] = f /\ h[n + 1] = Taken(h[n])
    BY <2>1, <2>3, <2>4 DEF FirstRounds
  <2>6. h = [i \in 0..(n + 1) |-> h[i]]
    OBVIOUS
  <2> HIDE DEF h
  <2>7. ASSUME NEW i \in 1..(n + 1) PROVE h[i] = Taken(h[i - 1])
    <3>1. CASE i = n + 1
      <4>1. i - 1 = n
        BY <3>1
      <4>2. QED BY <2>5, <3>1, <4>1
    <3>2. CASE i # n + 1
      <4>1. i \in 1..n /\ i \in 0..n /\ i - 1 \in 0..n
        BY <3>2
      <4>2. g[i] = Taken(g[i - 1])
        BY <2>1, <4>1 DEF FirstRounds
      <4>3. h[i] = g[i] /\ h[i - 1] = g[i - 1]
        BY <2>3, <4>1
      <4>4. QED BY <4>2, <4>3
    <3>3. QED BY <3>1, <3>2
  <2>8. FirstRounds(f, n + 1, h)
    BY <2>5, <2>6, <2>7 DEF FirstRounds
  <2>9. QED BY <2>8
<1> HIDE DEF S
<1>3. \A n \in Nat : n \in S
  BY <1>1, <1>2, AllNumbers
<1>4. QED BY <1>3 DEF S

LEMMA FirstRoundsAgree ==
    ASSUME NEW f, NEW n \in Nat, NEW g, FirstRounds(f, n, g),
           NEW m \in Nat, NEW h, FirstRounds(f, m, h), m <= n
    PROVE  g[m] = h[m]
<1> DEFINE S == {i \in Nat : i <= m => g[i] = h[i]}
<1>1. 0 \in S
  BY DEF FirstRounds
<1>2. ASSUME NEW i \in Nat, i \in S PROVE i + 1 \in S
  <2> SUFFICES ASSUME i + 1 <= m PROVE g[i + 1] = h[i + 1]
    OBVIOUS
  <2>1. i + 1 \in 1..n /\ i + 1 \in 1..m /\ i <= m /\ (i + 1) - 1 = i
    OBVIOUS
  <2>2. g[i] = h[i]
    BY <1>2, <2>1
  <2>3. g[i + 1] = Taken(g[(i + 1) - 1]) /\ h[i + 1] = Taken(h[(i + 1) - 1])
    BY <2>1 DEF FirstRounds
  <2>4. QED BY <2>1, <2>2, <2>3
<1> HIDE DEF S
<1>3. \A i \in Nat : i \in S
  BY <1>1, <1>2, AllNumbers
<1>4. QED BY <1>3 DEF S

\* The definition of Rounds is one.
LEMMA RoundsAre ==
    ASSUME NEW f
    PROVE  /\ Rounds(f)[0] = f
           /\ \A n \in Nat : Rounds(f)[n + 1] = Taken(Rounds(f)[n])
<1> DEFINE g(n) == CHOOSE x : FirstRounds(f, n, x)
           h == [n \in Nat |-> g(n)[n]]
<1>1. \A n \in Nat : FirstRounds(f, n, g(n))
  BY FirstRoundsExist
<1> HIDE DEF g
<1>2. h[0] = f
  BY <1>1 DEF FirstRounds
<1>3. ASSUME NEW n \in Nat, n # 0 PROVE h[n] = Taken(h[n - 1])
  <2>1. n - 1 \in Nat /\ n - 1 <= n /\ n \in 1..n
    BY <1>3
  <2>2. g(n)[n] = Taken(g(n)[n - 1])
    BY <1>1, <2>1 DEF FirstRounds
  <2>3. g(n)[n - 1] = g(n - 1)[n - 1]
    BY <1>1, <2>1, FirstRoundsAgree
  <2>4. QED BY <2>1, <2>2, <2>3
<1>4. h = [n \in Nat |-> h[n]]
  OBVIOUS
<1> HIDE DEF h
<1>5. h = [n \in Nat |-> IF n = 0 THEN f ELSE Taken(h[n - 1])]
  BY <1>2, <1>3, <1>4
<1>6. \E x : x = [n \in Nat |-> IF n = 0 THEN f ELSE Taken(x[n - 1])]
  BY <1>5
<1> DEFINE r == Rounds(f)
<1>7. r = [n \in Nat |-> IF n = 0 THEN f ELSE Taken(r[n - 1])]
  BY <1>6 DEF Rounds
<1> HIDE DEF r
<1>8. r[0] = f
  BY <1>7
<1>9. ASSUME NEW n \in Nat PROVE r[n + 1] = Taken(r[n])
  <2>1. n + 1 \in Nat /\ n + 1 # 0 /\ (n + 1) - 1 = n
    OBVIOUS
  <2>2. r[n + 1] = Taken(r[(n + 1) - 1])
    BY <1>7, <2>1
  <2>3. QED BY <2>1, <2>2
<1>10. QED BY <1>8, <1>9 DEF r

-----------------------------------------------------------------------------
(* The state of one flow *)

FlowFields == {"next", "have", "buf", "pending", "last", "overflow", "base", "seen"}

LEMMA BytesAre ==
    ASSUME NEW a \in Int, NEW n \in Nat
    PROVE  /\ Bytes(a, n) \in Seq(Int) /\ Len(Bytes(a, n)) = n /\ DOMAIN Bytes(a, n) = 1..n
           /\ \A i \in 1..n : Bytes(a, n)[i] = a + i - 1
<1>1. Bytes(a, n) \in [1..n -> Int]
  BY DEF Bytes
<1>2. Bytes(a, n) \in Seq(Int) /\ Len(Bytes(a, n)) = n
  BY <1>1
<1>3. QED BY <1>2 DEF Bytes

\* Runs of bytes that follow each other are one.
LEMMA BytesJoin ==
    ASSUME NEW a \in Int, NEW n \in Nat, NEW m \in Nat
    PROVE  Bytes(a, n) \o Bytes(a + n, m) = Bytes(a, n + m)
<1> DEFINE x == Bytes(a, n)
           y == Bytes(a + n, m)
           z == Bytes(a, n + m)
<1>1. x \in Seq(Int) /\ Len(x) = n /\ \A i \in 1..n : x[i] = a + i - 1
  BY BytesAre
<1>2. y \in Seq(Int) /\ Len(y) = m /\ \A i \in 1..m : y[i] = a + n + i - 1
  BY BytesAre
<1>3. z \in Seq(Int) /\ Len(z) = n + m /\ \A i \in 1..(n + m) : z[i] = a + i - 1
  BY BytesAre
<1> HIDE DEF x, y, z
<1>4. x \o y \in Seq(Int) /\ Len(x \o y) = n + m
      /\ \A i \in 1..(n + m) : (x \o y)[i] = IF i <= n THEN x[i] ELSE y[i - n]
  BY <1>1, <1>2, ConcatProperties
<1>5. ASSUME NEW i \in 1..(n + m) PROVE (x \o y)[i] = z[i]
  <2>1. CASE i <= n
    BY <1>1, <1>3, <1>4, <2>1
  <2>2. CASE ~(i <= n)
    <3>1. i - n \in 1..m
      BY <2>2
    <3>2. y[i - n] = a + n + (i - n) - 1
      BY <1>2, <3>1
    <3>3. a + n + (i - n) - 1 = a + i - 1
      OBVIOUS
    <3>4. z[i] = a + i - 1 /\ (x \o y)[i] = y[i - n]
      BY <1>3, <1>4, <2>2
    <3>5. QED BY <3>2, <3>3, <3>4
  <2>3. QED BY <2>1, <2>2
<1>6. x \o y = z
  BY <1>3, <1>4, <1>5, SeqEqual
<1>7. QED BY <1>6 DEF x, y, z

\* A part of a run is a run.
LEMMA BytesPart ==
    ASSUME NEW a \in Int, NEW n \in Nat, NEW i \in 0..n, NEW j \in 0..n, i <= j
    PROVE  SubSeq(Bytes(a, n), i + 1, j) = Bytes(a + i, j - i)
<1> DEFINE x == Bytes(a, n)
           y == SubSeq(x, i + 1, j)
           z == Bytes(a + i, j - i)
<1>1. x \in Seq(Int) /\ Len(x) = n /\ \A l \in 1..n : x[l] = a + l - 1
  BY BytesAre
<1>2. j - i \in Nat
  OBVIOUS
<1>3. z \in Seq(Int) /\ Len(z) = j - i /\ \A l \in 1..(j - i) : z[l] = (a + i) + l - 1
  BY <1>2, BytesAre
<1>4. y \in Seq(Int) /\ Len(y) = j - i /\ \A l \in 1..(j - i) : y[l] = x[i + l]
  <2> HIDE DEF x, z
  <2>1. CASE i = j
    <3>1. y = <<>>
      BY <1>1, <2>1, SubSeqEmpty
    <3>2. QED BY <2>1, <3>1
  <2>2. CASE i # j
    <3> DEFINE m == i + 1
    <3>1. m \in Int /\ j \in Int /\ m <= j /\ j - m + 1 = j - i
      BY <2>2
    <3>2. \A l \in m..j : x[l] \in Int
      <4>1. \A l \in m..j : l \in 1..n
        OBVIOUS
      <4>2. \A l \in 1..n : x[l] \in Int
        BY <1>1
      <4>3. QED BY <4>1, <4>2
    <3> HIDE DEF m, y
    <3>3. y \in Seq(Int) /\ Len(y) = (IF m <= j THEN j - m + 1 ELSE 0)
          /\ \A l \in 1..(j - m + 1) : y[l] = x[m + l - 1]
      BY <3>1, <3>2, SubSeqProperties DEF y, m
    <3>4. \A l \in 1..(j - i) : m + l - 1 = i + l
      BY DEF m
    <3>5. Len(y) = j - i
      BY <3>1, <3>3
    <3>6. \A l \in 1..(j - i) : y[l] = x[i + l]
      BY <3>1, <3>3, <3>4
    <3>7. QED BY <3>3, <3>5, <3>6
  <2>3. QED BY <2>1, <2>2
<1>5. ASSUME NEW l \in 1..(j - i) PROVE y[l] = z[l]
  <2>1. i + l \in 1..n
    OBVIOUS
  <2>2. x[i + l] = a + (i + l) - 1
    BY <1>1, <2>1
  <2>3. QED BY <1>3, <1>4, <2>2
<1> HIDE DEF x, y, z
<1>6. y = z
  BY <1>3, <1>4, <1>5, SeqEqual
<1>7. QED BY <1>6 DEF x, y, z

\* The n bytes that flow k holds run from its base up to the position next
\* stands for, or to the cap.
Run(f, pos, n) ==
    /\ f.buf = Bytes(f.base, n) /\ f.base + n <= pos
    /\ f.base + n < pos => f.overflow /\ maxFlow # 0 /\ n = maxFlow
    /\ maxFlow # 0 => n <= maxFlow

Placed(k, f, pos) ==
    /\ DOMAIN f = FlowFields /\ f.overflow \in BOOLEAN /\ f.base \in Nat
    /\ pos \in 0..StreamLen /\ f.next = At(k, pos)
    /\ \E n \in Nat : Run(f, pos, n)

\* Segment c waits in flow k.
Waits(k, f, c) ==
    At(k, c[1]) \in DOMAIN f.pending /\ f.pending[At(k, c[1])] = Bytes(c[1], c[2])

\* What waits are segments of the stream, no more than may.
Held(k, f) ==
    /\ \A s \in DOMAIN f.pending : \E c \in Segments : s = At(k, c[1]) /\ Waits(k, f, c)
    /\ IsFiniteSet(DOMAIN f.pending) /\ Cardinality(DOMAIN f.pending) <= MaxPending

\* What a later state of a flow keeps of an earlier one.
Follows(f, g) ==
    /\ g.base = f.base /\ g.seen = f.seen /\ g.have = f.have /\ g.last = f.last
    /\ Len(f.buf) <= Len(g.buf) /\ (f.overflow => g.overflow)

\* The cap and the lengths are numbers.
Capped == maxFlow \in Nat

LEMMA SegmentTypes ==
    ASSUME NEW c \in Segments
    PROVE  /\ c[1] \in 0..StreamLen /\ c[1] \in Nat /\ c[2] \in Nat /\ c[2] >= 1
           /\ c[1] + c[2] \in 0..StreamLen
<1>1. c \in Offsets \X (1..StreamLen) /\ c[1] + c[2] <= StreamLen /\ StreamLen \in Nat
  BY ReassemblyAssumption
<1>2. c[1] \in 0..(StreamLen - 1) /\ c[2] \in 1..StreamLen
  BY <1>1 DEF Offsets
<1>3. QED BY <1>1, <1>2

\* Bytes up to the position m are appended.
LEMMA AppendPlaced ==
    ASSUME Capped, NEW k \in Flows, NEW f, NEW pos, Placed(k, f, pos),
           NEW n \in Nat, n >= 1, pos + n <= StreamLen
    PROVE  LET g == AppendInOrder(f, Bytes(pos, n))
           IN  Placed(k, g, pos + n) /\ g.pending = f.pending /\ Follows(f, g)
<1> DEFINE p == Bytes(pos, n)
           g == AppendInOrder(f, p)
           room == maxFlow - Len(f.buf)
           all == maxFlow = 0 \/ n <= room
           more == IF all THEN p ELSE SubSeq(p, 1, room)
<1>1. /\ DOMAIN f = FlowFields /\ f.overflow \in BOOLEAN /\ f.base \in Nat
      /\ pos \in 0..StreamLen /\ f.next = At(k, pos) /\ maxFlow \in Nat /\ StreamLen \in Nat
  BY ReassemblyAssumption DEF Placed, Capped
<1>2. PICK l \in Nat : Run(f, pos, l)
  BY DEF Placed
<1>3. Len(p) = n /\ Len(f.buf) = l /\ f.buf = Bytes(f.base, l) /\ f.buf \in Seq(Int)
  BY <1>1, <1>2, BytesAre DEF Run
<1>4. g = [f EXCEPT !.buf = @ \o more, !.overflow = @ \/ ~all, !.next = SeqAdd(@, n)]
  BY <1>3 DEF AppendInOrder
<1>5. SeqAdd(f.next, n) = At(k, pos + n)
  BY <1>1, SeqAdvance
<1>6. room = maxFlow - l
  BY <1>3
<1> DEFINE b == f.base
<1> HIDE DEF p, more, room, all, g
<1>7. /\ DOMAIN g = FlowFields /\ g.overflow = (f.overflow \/ ~all) /\ g.next = At(k, pos + n)
      /\ g.buf = f.buf \o more
      /\ g.base = f.base /\ g.pending = f.pending /\ g.seen = f.seen /\ g.have = f.have
      /\ g.last = f.last
  BY <1>1, <1>4, <1>5 DEF FlowFields
<1>8. pos + n \in 0..StreamLen /\ pos \in Nat
  BY <1>1
<1>9. /\ b \in Nat /\ f.buf = Bytes(b, l) /\ b + l <= pos
      /\ b + l < pos => maxFlow # 0 /\ l = maxFlow
      /\ maxFlow # 0 => l <= maxFlow
      /\ g.base = b
  BY <1>1, <1>2, <1>7 DEF Run
<1> HIDE DEF b
<1>9a. b \in Int /\ pos \in Int
  BY <1>8, <1>9
<1>10. \E m \in Nat : Run(g, pos + n, m) /\ l <= m
  <2>1. CASE all
    <3>1. b + l = pos
      <4>1. CASE maxFlow = 0
        BY <1>8, <1>9, <4>1
      <4>2. CASE n <= room
        BY <1>1, <1>6, <1>8, <1>9, <4>2
      <4>3. QED BY <2>1, <4>1, <4>2 DEF all
    <3>2. g.buf = Bytes(b, l + n)
      <4>1. more = Bytes(b + l, n)
        BY <2>1, <3>1 DEF more, p
      <4>2. Bytes(b, l) \o Bytes(b + l, n) = Bytes(b, l + n)
        BY <1>9a, BytesJoin
      <4>3. QED BY <1>7, <1>9, <4>1, <4>2
    <3>3. maxFlow # 0 => l + n <= maxFlow
      BY <1>1, <1>6, <2>1 DEF all
    <3>4. b + (l + n) = pos + n
      BY <1>8, <1>9, <3>1
    <3>5. ~(b + (l + n) < pos + n) /\ b + (l + n) <= pos + n
      BY <1>8, <1>9, <3>4
    <3>6. Run(g, pos + n, l + n)
      BY <1>9, <3>2, <3>3, <3>5 DEF Run
    <3>7. l + n \in Nat /\ l <= l + n
      OBVIOUS
    <3>8. QED BY <3>6, <3>7
  <2>2. CASE ~all
    <3>1. maxFlow # 0 /\ ~(n <= room)
      BY <2>2 DEF all
    <3>2. room \in Nat /\ room <= n
      BY <1>1, <1>6, <1>9, <3>1
    <3>3. g.overflow
      BY <1>7, <2>2
    <3>4. more = Bytes(pos, room)
      <4>1. more = SubSeq(p, 1, room)
        BY <2>2 DEF more
      <4> DEFINE i == 0
      <4>2. i \in 0..n /\ room \in 0..n /\ i <= room
        BY <3>2
      <4> HIDE DEF i
      <4>3. SubSeq(p, i + 1, room) = Bytes(pos + i, room - i)
        BY <4>2, <1>9a, BytesPart DEF p
      <4>4. i + 1 = 1 /\ pos + i = pos /\ room - i = room
        BY <1>8, <3>2 DEF i
      <4>5. QED BY <4>1, <4>3, <4>4
    <3>5. g.buf = Bytes(b, maxFlow)
      <4>1. CASE room = 0
        <5>1. Bytes(pos, 0) = <<>>
          BY <1>8, BytesAre
        <5>2. g.buf = f.buf
          BY <1>3, <1>7, <3>4, <4>1, <5>1, ConcatEmptySeq
        <5>3. l = maxFlow
          BY <1>1, <1>6, <4>1
        <5>4. QED BY <1>9, <5>2, <5>3
      <4>2. CASE room # 0
        <5>1. b + l = pos
          BY <1>1, <1>6, <1>8, <1>9, <4>2
        <5>2. Bytes(b, l) \o Bytes(b + l, room) = Bytes(b, l + room)
          BY <3>2, <1>9a, BytesJoin
        <5>3. l + room = maxFlow
          BY <1>1, <1>6
        <5>4. QED BY <1>7, <1>9, <3>4, <5>1, <5>2, <5>3
      <4>3. QED BY <4>1, <4>2
    <3>6. b + maxFlow <= pos + n /\ l <= maxFlow
      BY <1>1, <1>6, <1>8, <1>9, <3>1, <3>2
    <3>7. Run(g, pos + n, maxFlow)
      BY <1>1, <1>9, <3>1, <3>3, <3>5, <3>6 DEF Run
    <3>8. QED BY <1>1, <3>6, <3>7
  <2>3. QED BY <2>1, <2>2
<1>11. Placed(k, g, pos + n) /\ Len(f.buf) <= Len(g.buf)
  <2>1. g.overflow \in BOOLEAN
    BY <1>1, <1>7
  <2>2. Placed(k, g, pos + n)
    BY <1>7, <1>8, <1>9, <1>10, <2>1 DEF Placed
  <2>3. PICK m \in Nat : Run(g, pos + n, m) /\ l <= m
    BY <1>10
  <2>4. g.buf = Bytes(b, m)
    BY <1>9, <2>3 DEF Run
  <2>5. Len(Bytes(b, m)) = m
    BY <1>9, BytesAre
  <2>6. QED BY <1>3, <2>2, <2>3, <2>4, <2>5
<1>12. Follows(f, g)
  BY <1>7, <1>11 DEF Follows
<1>13. QED BY <1>7, <1>11, <1>12 DEF g, p

\* Senders that cut a stream in one way: segments that start at the same byte,
\* other than the first one of the stream, are the same.
OneCut ==
    \A s, t \in Segments : s[1] = t[1] /\ s[1] # 0 => s[2] = t[2]

\* Senders that repeat a stream in multiples of the segments it was sent in: a
\* segment that starts within another one ends within it.
Nested ==
    \A s, t \in Segments : s[1] < t[1] /\ t[1] < s[1] + s[2] => t[1] + t[2] <= s[1] + s[2]

\* The bytes S are before the position, or wait.
Covers(f, pos, S) == f.overflow \/ \A b \in S : b < pos \/ b \in Waiting(f)

\* Nothing that waits contains the byte before the position and the one after.
Ahead(k, f, pos) ==
    \A c \in Segments : Waits(k, f, c) => c[1] >= pos \/ c[1] + c[2] <= pos

Sound(k, f, pos, S) ==
    /\ Placed(k, f, pos) /\ Held(k, f)
    /\ OneCut => Covers(f, pos, S)
    /\ Nested => Ahead(k, f, pos)

\* What waits in g is what waits in f, without the segment at the position.
Without(f, g) == g.pending = [x \in DOMAIN f.pending \ {f.next} |-> f.pending[x]]

\* The segment at the position is taken out of those that wait.
LEMMA TakenOut ==
    ASSUME NEW k \in Flows, NEW f, NEW pos, Placed(k, f, pos), Held(k, f),
           f.next \in DOMAIN f.pending,
           NEW g, Without(f, g)
    PROVE  /\ Held(k, g) /\ Cardinality(DOMAIN g.pending) = Cardinality(DOMAIN f.pending) - 1
           /\ \A d \in Segments : Waits(k, g, d) => Waits(k, f, d) /\ d[1] # pos
<1> DEFINE D == DOMAIN f.pending
           E == D \ {f.next}
<1>1. DOMAIN g.pending = E /\ \A x \in E : x \in D /\ x # f.next /\ g.pending[x] = f.pending[x]
  BY DEF Without
<1>2. IsFiniteSet(D) /\ Cardinality(D) <= MaxPending /\ MaxPending \in Nat
  BY ReassemblyAssumption DEF Held
<1>3. f.next = At(k, pos) /\ pos \in 0..StreamLen
  BY DEF Placed
<1>4. IsFiniteSet(E) /\ Cardinality(E) = Cardinality(D) - 1 /\ Cardinality(D) \in Nat
  BY <1>2, FS_RemoveElement, FS_CardinalityType
<1>5. Cardinality(E) <= MaxPending
  BY <1>2, <1>4
<1> HIDE DEF D, E
<1>6. ASSUME NEW d \in Segments, Waits(k, g, d) PROVE Waits(k, f, d) /\ d[1] # pos
  <2>1. At(k, d[1]) \in E /\ g.pending[At(k, d[1])] = Bytes(d[1], d[2])
    BY <1>1, <1>6 DEF Waits
  <2>2. Waits(k, f, d)
    BY <1>1, <2>1 DEF Waits, D
  <2>3. At(k, d[1]) # At(k, pos)
    BY <1>1, <1>3, <2>1
  <2>4. QED BY <2>2, <2>3
<1>7. ASSUME NEW x \in DOMAIN g.pending
      PROVE  \E c \in Segments : x = At(k, c[1]) /\ Waits(k, g, c)
  <2>1. x \in E /\ x \in D
    BY <1>1
  <2>2. PICK c \in Segments : x = At(k, c[1]) /\ Waits(k, f, c)
    BY <2>1 DEF Held, D
  <2>3. Waits(k, g, c)
    BY <1>1, <2>1, <2>2 DEF Waits
  <2>4. QED BY <2>2, <2>3
<1>8. Held(k, g)
  BY <1>1, <1>4, <1>5, <1>7 DEF Held
<1>9. QED BY <1>1, <1>4, <1>6, <1>8 DEF D

\* A round of drainPending.
LEMMA TakenSound ==
    ASSUME Capped, NEW k \in Flows, NEW f, NEW pos, NEW S \in SUBSET Int, Sound(k, f, pos, S)
    PROVE  LET g == Taken(f)
           IN  /\ \E p \in Nat : Sound(k, g, p, S)
               /\ Follows(f, g)
               /\ f.next \notin DOMAIN f.pending => g = f
               /\ f.next \in DOMAIN f.pending =>
                    Cardinality(DOMAIN g.pending) = Cardinality(DOMAIN f.pending) - 1
<1> DEFINE g == Taken(f)
           Goal == /\ \E p \in Nat : Sound(k, g, p, S)
                   /\ Follows(f, g)
                   /\ f.next \notin DOMAIN f.pending => g = f
                   /\ f.next \in DOMAIN f.pending =>
                        Cardinality(DOMAIN g.pending) = Cardinality(DOMAIN f.pending) - 1
<1> SUFFICES Goal
  OBVIOUS
<1>1. Placed(k, f, pos) /\ Held(k, f) /\ (OneCut => Covers(f, pos, S)) /\ (Nested => Ahead(k, f, pos))
  BY DEF Sound
<1>2. /\ DOMAIN f = FlowFields /\ f.overflow \in BOOLEAN /\ f.base \in Nat
      /\ pos \in 0..StreamLen /\ f.next = At(k, pos) /\ \E n \in Nat : Run(f, pos, n)
  BY <1>1 DEF Placed
<1>3. pos \in Nat /\ pos \in Int
  BY <1>2
<1>4. CASE f.next \notin DOMAIN f.pending
  <2>1. g = f
    BY <1>4 DEF Taken
  <2>2. Len(f.buf) <= Len(f.buf)
    <3>1. Len(f.buf) \in Nat
      BY <1>2, BytesAre DEF Run
    <3>2. QED BY <3>1
  <2> HIDE DEF g
  <2>3. Follows(f, g)
    BY <2>1, <2>2 DEF Follows
  <2>4. QED BY <1>3, <1>4, <2>1, <2>3
<1>5. CASE f.next \in DOMAIN f.pending
  <2>1. PICK c \in Segments : f.next = At(k, c[1]) /\ Waits(k, f, c)
    BY <1>1, <1>5 DEF Held
  <2>2. c[1] \in 0..StreamLen /\ c[2] \in Nat /\ c[2] >= 1 /\ c[1] + c[2] \in 0..StreamLen
    BY SegmentTypes
  <2>3. c[1] = pos
    <3> DEFINE q == c[1]
    <3>1. q \in 0..StreamLen /\ At(k, q) = At(k, pos)
      BY <1>2, <2>1, <2>2
    <3> HIDE DEF q
    <3>2. q = pos
      BY <1>2, <3>1, SeqOrder
    <3>3. QED BY <3>2 DEF q
  <2> DEFINE n == c[2]
             f0 == [f EXCEPT !.pending = [x \in DOMAIN @ \ {f.next} |-> @[x]]]
  <2>4. n \in Nat /\ n >= 1 /\ pos + n <= StreamLen /\ f.pending[f.next] = Bytes(pos, n)
    BY <2>1, <2>2, <2>3 DEF Waits
  <2>5. g = AppendInOrder(f0, Bytes(pos, n))
    BY <1>5, <2>4 DEF Taken
  <2>6. /\ DOMAIN f0 = FlowFields /\ f0.pending = [x \in DOMAIN f.pending \ {f.next} |-> f.pending[x]]
        /\ f0.next = f.next /\ f0.overflow = f.overflow /\ f0.base = f.base /\ f0.buf = f.buf
        /\ f0.seen = f.seen /\ f0.have = f.have /\ f0.last = f.last
    BY <1>2 DEF FlowFields
  <2> HIDE DEF f0, g, n
  <2>7. Placed(k, f0, pos)
    BY <1>2, <2>6 DEF Placed, Run
  <2>8. Placed(k, g, pos + n) /\ g.pending = f0.pending /\ Follows(f0, g)
    BY <2>4, <2>5, <2>7, AppendPlaced
  <2>9. Follows(f, g)
    BY <2>6, <2>8 DEF Follows
  <2>10. Without(f, g)
    BY <2>6, <2>8 DEF Without
  <2>11. /\ Held(k, g) /\ Cardinality(DOMAIN g.pending) = Cardinality(DOMAIN f.pending) - 1
         /\ \A d \in Segments : Waits(k, g, d) => Waits(k, f, d) /\ d[1] # pos
    BY <1>1, <1>5, <2>10, TakenOut
  <2>12. ASSUME OneCut PROVE Covers(g, pos + n, S)
    <3>1. SUFFICES ASSUME ~g.overflow, NEW b \in S, ~(b < pos + n) PROVE b \in Waiting(g)
      BY DEF Covers
    <3>2. ~f.overflow
      BY <2>9, <3>1 DEF Follows
    <3>3. b \in Waiting(f)
      <4>1. ~(b < pos)
        BY <1>3, <2>4, <3>1
      <4>2. QED BY <1>1, <2>12, <3>2, <4>1 DEF Covers
    <3>4. PICK s \in DOMAIN f.pending : \E i \in DOMAIN f.pending[s] : f.pending[s][i] = b
      BY <3>3 DEF Waiting
    <3>5. s # f.next
      <4>1. ASSUME NEW i \in 1..n PROVE Bytes(pos, n)[i] < pos + n
        <5>1. Bytes(pos, n)[i] = pos + i - 1
          BY <1>3, <2>4, BytesAre
        <5>2. QED BY <1>3, <2>4, <5>1
      <4>2. DOMAIN Bytes(pos, n) = 1..n
        BY <1>3, <2>4, BytesAre
      <4>3. QED BY <2>4, <3>1, <3>4, <4>1, <4>2
    <3>6. s \in DOMAIN g.pending /\ g.pending[s] = f.pending[s]
      BY <2>10, <3>5 DEF Without
    <3>7. QED BY <3>4, <3>6 DEF Waiting
  <2>13. ASSUME Nested PROVE Ahead(k, g, pos + n)
    <3> SUFFICES ASSUME NEW d \in Segments, Waits(k, g, d)
                 PROVE  d[1] >= pos + n \/ d[1] + d[2] <= pos + n
      BY DEF Ahead
    <3>1. Waits(k, f, d) /\ d[1] # pos
      BY <2>11
    <3>2. d[1] >= pos \/ d[1] + d[2] <= pos
      BY <1>1, <2>13, <3>1 DEF Ahead
    <3>3. d[1] \in Nat /\ d[2] \in Nat
      BY SegmentTypes
    <3>4. pos < d[1] /\ d[1] < pos + n => d[1] + d[2] <= pos + n
      BY <2>3, <2>13 DEF Nested, n
    <3>5. QED BY <1>3, <2>4, <3>1, <3>2, <3>3, <3>4
  <2>14. Sound(k, g, pos + n, S) /\ pos + n \in Nat
    BY <1>3, <2>4, <2>8, <2>11, <2>12, <2>13 DEF Sound
  <2>15. QED BY <1>5, <2>9, <2>11, <2>14
<1>6. QED BY <1>4, <1>5

\* All of them: what waits at the position, and what follows it, is taken.
LEMMA DrainSound ==
    ASSUME Capped, NEW k \in Flows, NEW f, NEW pos, NEW S \in SUBSET Int, Sound(k, f, pos, S)
    PROVE  LET g == Drain(f)
           IN  /\ \E p \in Nat : Sound(k, g, p, S)
               /\ Follows(f, g)
               /\ g.next \notin DOMAIN g.pending
<1> DEFINE r == Rounds(f)
           m == Cardinality(DOMAIN f.pending)
           Done(g) == g.next \notin DOMAIN g.pending
           P(n) == /\ \E p \in Nat : Sound(k, r[n], p, S)
                   /\ Follows(f, r[n])
                   /\ Done(r[n]) \/ Cardinality(DOMAIN r[n].pending) + n <= m
           T == {n \in Nat : P(n)}
<1>1. r[0] = f /\ \A n \in Nat : r[n + 1] = Taken(r[n])
  BY RoundsAre
<1>2. pos \in Nat /\ IsFiniteSet(DOMAIN f.pending) /\ Len(f.buf) \in Nat
  <2>1. pos \in Nat /\ IsFiniteSet(DOMAIN f.pending) /\ f.base \in Nat
        /\ \E n \in Nat : Run(f, pos, n)
    BY DEF Sound, Placed, Held
  <2>2. QED BY <2>1, BytesAre DEF Run
<1>3. m \in Nat
  BY <1>2, FS_CardinalityType
<1> HIDE DEF r, m, Done
<1>4. P(0)
  <2>1. Cardinality(DOMAIN r[0].pending) + 0 <= m
    BY <1>1, <1>3 DEF m
  <2>2. Follows(f, f)
    BY <1>2 DEF Follows
  <2>3. QED BY <1>1, <1>2, <2>1, <2>2
<1>5. ASSUME NEW n \in Nat, P(n) PROVE P(n + 1)
  <2> DEFINE h == r[n]
             g == r[n + 1]
  <2>1. PICK q \in Nat : Sound(k, h, q, S)
    BY <1>5
  <2>2. Follows(f, h) /\ (Done(h) \/ Cardinality(DOMAIN h.pending) + n <= m)
    BY <1>5
  <2>3. g = Taken(h)
    BY <1>1
  <2> HIDE DEF h, g
  <2>4. /\ \E p \in Nat : Sound(k, g, p, S)
        /\ Follows(h, g)
        /\ h.next \notin DOMAIN h.pending => g = h
        /\ h.next \in DOMAIN h.pending =>
             Cardinality(DOMAIN g.pending) = Cardinality(DOMAIN h.pending) - 1
    BY <2>1, <2>3, TakenSound
  <2>5. Follows(f, g)
    <3>1. Len(h.buf) \in Nat /\ Len(g.buf) \in Nat
      <4>1. \A x, p : Sound(k, x, p, S) => Len(x.buf) \in Nat
        BY BytesAre DEF Sound, Placed, Run
      <4>2. QED BY <2>1, <2>4, <4>1
    <3>2. QED BY <1>2, <2>2, <2>4, <3>1 DEF Follows
  <2>6. Cardinality(DOMAIN h.pending) \in Nat
    BY <2>1, FS_CardinalityType DEF Sound, Held
  <2>7. Done(g) \/ Cardinality(DOMAIN g.pending) + (n + 1) <= m
    <3>1. CASE Done(h)
      BY <2>4, <3>1 DEF Done
    <3>2. CASE ~Done(h)
      <4>1. Cardinality(DOMAIN g.pending) = Cardinality(DOMAIN h.pending) - 1
            /\ Cardinality(DOMAIN h.pending) + n <= m
        BY <2>2, <2>4, <3>2 DEF Done
      <4>2. QED BY <1>3, <2>6, <4>1
    <3>3. QED BY <3>1, <3>2
  <2>8. QED BY <2>4, <2>5, <2>7 DEF g
<1>6. \A n \in Nat : P(n)
  <2> HIDE DEF P
  <2>1. 0 \in T /\ \A n \in Nat : n \in T => n + 1 \in T
    BY <1>4, <1>5
  <2> HIDE DEF T
  <2>2. \A n \in Nat : n \in T
    BY <2>1, AllNumbers
  <2>3. QED BY <2>2 DEF T
<1> DEFINE g == r[m]
<1>7. P(m)
  BY <1>3, <1>6
<1>8. Drain(f) = g
  BY DEF Drain, r, m
<1>9. PICK p \in Nat : Sound(k, g, p, S)
  BY <1>7
<1>10. Follows(f, g) /\ (Done(g) \/ Cardinality(DOMAIN g.pending) + m <= m)
  BY <1>7
<1> HIDE DEF g
<1>11. Done(g)
  <2>1. IsFiniteSet(DOMAIN g.pending)
    BY <1>9 DEF Sound, Held
  <2>2. CASE Cardinality(DOMAIN g.pending) + m <= m
    <3>1. Cardinality(DOMAIN g.pending) \in Nat
      BY <2>1, FS_CardinalityType
    <3>2. Cardinality(DOMAIN g.pending) = 0
      BY <1>3, <2>2, <3>1
    <3>3. DOMAIN g.pending = {}
      BY <2>1, <3>2, FS_EmptySet
    <3>4. QED BY <3>3 DEF Done
  <2>3. QED BY <1>10, <2>2
<1>12. QED BY <1>8, <1>9, <1>10, <1>11 DEF Done

\* The bytes of a segment.
Of(c) == c[1]..(c[1] + c[2] - 1)

\* The part of a segment from the position on is appended.
LEMMA AppendSound ==
    ASSUME Capped, NEW k \in Flows, NEW f, NEW pos, NEW S \in SUBSET Int, Sound(k, f, pos, S),
           f.next \notin DOMAIN f.pending,
           NEW c \in Segments, c[1] <= pos, NEW n \in Nat, n >= 1, pos + n = c[1] + c[2]
    PROVE  LET g == AppendInOrder(f, Bytes(pos, n))
           IN  Sound(k, g, pos + n, S \cup Of(c)) /\ Follows(f, g)
<1> DEFINE end == pos + n
           g == AppendInOrder(f, Bytes(pos, n))
           Goal == Sound(k, g, end, S \cup Of(c)) /\ Follows(f, g)
<1> SUFFICES Goal
  OBVIOUS
<1>1. c[1] \in Nat /\ c[2] \in Nat /\ end = c[1] + c[2] /\ end \in 0..StreamLen /\ StreamLen \in Nat
  BY SegmentTypes, ReassemblyAssumption
<1>2. Placed(k, f, pos) /\ Held(k, f) /\ (OneCut => Covers(f, pos, S)) /\ (Nested => Ahead(k, f, pos))
  BY DEF Sound
<1>3. pos \in 0..StreamLen /\ f.next = At(k, pos)
  BY <1>2 DEF Placed
<1>4. pos \in Nat /\ end \in Nat /\ n \in Nat /\ n >= 1 /\ pos + n = end /\ end <= StreamLen
      /\ pos < end
  BY <1>1, <1>3
<1>5. \A b \in Of(c) : b < end
  BY <1>1 DEF Of
<1> HIDE DEF end, g
<1>6. Placed(k, g, end) /\ g.pending = f.pending /\ Follows(f, g)
  <2>1. Placed(k, g, pos + n) /\ g.pending = f.pending /\ Follows(f, g)
    BY <1>2, <1>4, AppendPlaced DEF g
  <2>2. QED BY <1>4, <2>1
<1>7. Held(k, g)
  BY <1>2, <1>6 DEF Held, Waits
<1>8. ASSUME OneCut PROVE Covers(g, end, S \cup Of(c))
  <2>1. SUFFICES ASSUME ~g.overflow, NEW b \in S \cup Of(c), ~(b < end) PROVE b \in Waiting(g)
    BY DEF Covers
  <2>2. b \in S /\ b \in Int
    BY <1>5, <2>1
  <2>3. ~(b < pos)
    BY <1>4, <2>1, <2>2
  <2>4. ~f.overflow
    BY <1>6, <2>1 DEF Follows
  <2>5. b \in Waiting(f)
    BY <1>2, <1>8, <2>2, <2>3, <2>4 DEF Covers
  <2>6. QED BY <1>6, <2>5 DEF Waiting
<1>9. ASSUME Nested PROVE Ahead(k, g, end)
  <2> SUFFICES ASSUME NEW d \in Segments, Waits(k, g, d)
               PROVE  d[1] >= end \/ d[1] + d[2] <= end
    BY DEF Ahead
  <2>1. Waits(k, f, d)
    BY <1>6 DEF Waits
  <2>2. d[1] >= pos \/ d[1] + d[2] <= pos
    BY <1>2, <1>9, <2>1 DEF Ahead
  <2>3. d[1] # pos
    <3>1. At(k, d[1]) # At(k, pos)
      BY <1>3, <2>1 DEF Waits
    <3>2. QED BY <3>1
  <2>4. d[1] \in Nat /\ d[2] \in Nat
    BY SegmentTypes
  <2>5. c[1] < d[1] /\ d[1] < end => d[1] + d[2] <= end
    BY <1>1, <1>9 DEF Nested
  <2> DEFINE x == d[1]
             y == x + d[2]
  <2>6. x \in Nat /\ y \in Nat
    BY <2>4
  <2> HIDE DEF x, y
  <2>7. (x >= pos \/ y <= pos) /\ x # pos /\ (c[1] < x /\ x < end => y <= end)
    BY <2>2, <2>3, <2>5 DEF x, y
  <2>8. x >= end \/ y <= end
    BY <1>1, <1>4, <2>6, <2>7
  <2>9. QED BY <2>8 DEF x, y
<1>10. Sound(k, g, end, S \cup Of(c))
  BY <1>6, <1>7, <1>8, <1>9 DEF Sound
<1>11. QED BY <1>6, <1>10

\* A segment past the position waits, or is dropped and the flow marked.
LEMMA BufferSound ==
    ASSUME NEW k \in Flows, NEW f, NEW pos, NEW S \in SUBSET Int, Sound(k, f, pos, S),
           f.next \notin DOMAIN f.pending,
           NEW c \in Segments, pos < c[1]
    PROVE  LET g == Buffer(f, At(k, c[1]), Bytes(c[1], c[2]))
           IN  Sound(k, g, pos, S \cup Of(c)) /\ Follows(f, g) /\ g.next \notin DOMAIN g.pending
<1> DEFINE s == At(k, c[1])
           v == Bytes(c[1], c[2])
           g == Buffer(f, s, v)
           D == DOMAIN f.pending
           Goal == Sound(k, g, pos, S \cup Of(c)) /\ Follows(f, g) /\ g.next \notin DOMAIN g.pending
<1> SUFFICES Goal
  OBVIOUS
<1>1. Placed(k, f, pos) /\ Held(k, f) /\ (OneCut => Covers(f, pos, S)) /\ (Nested => Ahead(k, f, pos))
  BY DEF Sound
<1>2. /\ DOMAIN f = FlowFields /\ f.overflow \in BOOLEAN /\ f.base \in Nat
      /\ pos \in 0..StreamLen /\ f.next = At(k, pos) /\ \E n \in Nat : Run(f, pos, n)
  BY <1>1 DEF Placed
<1>3. Len(f.buf) \in Nat
  BY <1>2, BytesAre DEF Run
<1>4. IsFiniteSet(D) /\ Cardinality(D) <= MaxPending /\ Cardinality(D) \in Nat /\ MaxPending \in Nat
  BY <1>1, FS_CardinalityType, ReassemblyAssumption DEF Held
<1>5. c[1] \in 0..StreamLen /\ c[1] \in Nat /\ c[2] \in Nat /\ pos \in Nat
  BY <1>2, SegmentTypes
<1>6. s # f.next
  <2> DEFINE q == c[1]
  <2>1. q \in 0..StreamLen /\ q # pos
    BY <1>5
  <2> HIDE DEF q
  <2>2. At(k, q) # At(k, pos)
    BY <1>2, <2>1, SeqOrder
  <2>3. QED BY <1>2, <2>2 DEF q
<1> HIDE DEF s, v
<1>7. CASE s \notin D /\ Cardinality(D) >= MaxPending
  <2>1. g = [f EXCEPT !.overflow = TRUE]
    BY <1>7 DEF Buffer
  <2>2. /\ DOMAIN g = FlowFields /\ g.overflow = TRUE /\ g.next = f.next /\ g.pending = f.pending
        /\ g.base = f.base /\ g.buf = f.buf /\ g.seen = f.seen /\ g.have = f.have
        /\ g.last = f.last
    BY <1>2, <2>1 DEF FlowFields
  <2> HIDE DEF g
  <2>3. Placed(k, g, pos)
    BY <1>2, <2>2 DEF Placed, Run
  <2>4. Held(k, g) /\ (Nested => Ahead(k, g, pos))
    BY <1>1, <2>2 DEF Held, Waits, Ahead
  <2>5. Covers(g, pos, S \cup Of(c))
    BY <2>2 DEF Covers
  <2>6. Follows(f, g)
    BY <1>3, <2>2 DEF Follows
  <2>7. QED BY <2>2, <2>3, <2>4, <2>5, <2>6 DEF Sound
<1>8. CASE ~(s \notin D /\ Cardinality(D) >= MaxPending)
  <2> DEFINE E == D \cup {s}
  <2>1. g = [f EXCEPT !.pending = [x \in DOMAIN @ \cup {s} |-> IF x = s THEN v ELSE @[x]]]
    BY <1>8 DEF Buffer
  <2>2. /\ DOMAIN g = FlowFields /\ g.overflow = f.overflow /\ g.next = f.next
        /\ g.pending = [x \in E |-> IF x = s THEN v ELSE f.pending[x]]
        /\ g.base = f.base /\ g.buf = f.buf /\ g.seen = f.seen /\ g.have = f.have
        /\ g.last = f.last
    BY <1>2, <2>1 DEF FlowFields
  <2>3. DOMAIN g.pending = E /\ g.pending[s] = v
        /\ \A x \in D : x # s => g.pending[x] = f.pending[x]
    BY <2>2
  <2>4. IsFiniteSet(E) /\ Cardinality(E) <= MaxPending
    <3>1. IsFiniteSet(E) /\ Cardinality(E) = IF s \in D THEN Cardinality(D) ELSE Cardinality(D) + 1
      BY <1>4, FS_AddElement
    <3>2. QED BY <1>4, <1>8, <3>1
  <2> HIDE DEF g
  <2>5. Placed(k, g, pos)
    BY <1>2, <2>2 DEF Placed, Run
  <2>6. Waits(k, g, c)
    BY <2>3 DEF Waits, s, v
  <2>7. ASSUME NEW d \in Segments, Waits(k, g, d) PROVE Waits(k, f, d) \/ (d[1] = c[1] /\ At(k, d[1]) = s)
    <3>1. CASE At(k, d[1]) = s
      <4> DEFINE x == d[1]
                 y == c[1]
      <4>1. x \in 0..StreamLen /\ y \in 0..StreamLen /\ At(k, x) = At(k, y)
        BY <3>1, SegmentTypes DEF s
      <4> HIDE DEF x, y
      <4>2. x = y
        BY <4>1, SeqOrder
      <4>3. QED BY <3>1, <4>2 DEF x, y
    <3>2. CASE At(k, d[1]) # s
      BY <2>3, <2>7, <3>2 DEF Waits
    <3>3. QED BY <3>1, <3>2
  <2>8. Held(k, g)
    <3>1. ASSUME NEW x \in DOMAIN g.pending
          PROVE  \E d \in Segments : x = At(k, d[1]) /\ Waits(k, g, d)
      <4>1. CASE x = s
        BY <2>6, <4>1 DEF s
      <4>2. CASE x # s
        <5>1. x \in D
          BY <2>3, <4>2
        <5>2. PICK d \in Segments : x = At(k, d[1]) /\ Waits(k, f, d)
          BY <1>1, <5>1 DEF Held
        <5>3. Waits(k, g, d)
          BY <2>3, <4>2, <5>1, <5>2 DEF Waits
        <5>4. QED BY <5>2, <5>3
      <4>3. QED BY <4>1, <4>2
    <3>2. QED BY <2>3, <2>4, <3>1 DEF Held
  <2>9. ASSUME OneCut PROVE Covers(g, pos, S \cup Of(c))
    <3>1. SUFFICES ASSUME ~g.overflow, NEW b \in S \cup Of(c), ~(b < pos) PROVE b \in Waiting(g)
      BY DEF Covers
    <3>2. s \in DOMAIN g.pending /\ g.pending[s] = v
      BY <2>3
    <3>3. CASE b \in Of(c)
      <4>1. b - c[1] + 1 \in 1..c[2]
        BY <1>5, <3>3 DEF Of
      <4> DEFINE i == b - c[1] + 1
      <4>2. i \in 1..c[2] /\ c[1] + i - 1 = b
        BY <1>5, <3>3, <4>1 DEF Of
      <4> HIDE DEF i
      <4>3. DOMAIN v = 1..c[2] /\ v[i] = c[1] + i - 1
        <5> DEFINE x == c[1]
                   y == c[2]
        <5>1. x \in Int /\ y \in Nat /\ v = Bytes(x, y) /\ i \in 1..y
          BY <1>5, <4>2 DEF v
        <5> HIDE DEF x, y, v
        <5>2. DOMAIN v = 1..y /\ v[i] = x + i - 1
          BY <5>1, BytesAre
        <5>3. QED BY <5>2 DEF x, y
      <4>4. i \in DOMAIN g.pending[s] /\ g.pending[s][i] = b
        BY <3>2, <4>2, <4>3
      <4>5. QED BY <3>2, <4>4 DEF Waiting
    <3>4. CASE b \in S
      <4>1. b \in Waiting(f)
        BY <1>1, <2>2, <2>9, <3>1, <3>4 DEF Covers
      <4>2. PICK x \in D : \E i \in DOMAIN f.pending[x] : f.pending[x][i] = b
        BY <4>1 DEF Waiting
      <4>3. x \in DOMAIN g.pending /\ g.pending[x] = f.pending[x]
        <5>1. CASE x # s
          BY <2>3, <5>1
        <5>2. CASE x = s
          <6>1. PICK d \in Segments : x = At(k, d[1]) /\ Waits(k, f, d)
            BY <1>1, <4>2 DEF Held
          <6>2. d[1] = c[1]
            <7> DEFINE y == d[1]
                       z == c[1]
            <7>1. y \in 0..StreamLen /\ z \in 0..StreamLen /\ At(k, y) = At(k, z)
              BY <5>2, <6>1, SegmentTypes DEF s
            <7> HIDE DEF y, z
            <7>2. y = z
              BY <7>1, SeqOrder
            <7>3. QED BY <7>2 DEF y, z
          <6>3. c[1] # 0
            BY <1>5
          <6>4. d[2] = c[2]
            BY <2>9, <6>2, <6>3 DEF OneCut
          <6>5. f.pending[x] = v
            BY <6>1, <6>2, <6>4 DEF Waits, v
          <6>6. QED BY <2>3, <5>2, <6>5
        <5>3. QED BY <5>1, <5>2
      <4>4. QED BY <4>2, <4>3 DEF Waiting
    <3>5. QED BY <3>3, <3>4
  <2>10. ASSUME Nested PROVE Ahead(k, g, pos)
    <3> SUFFICES ASSUME NEW d \in Segments, Waits(k, g, d)
                 PROVE  d[1] >= pos \/ d[1] + d[2] <= pos
      BY DEF Ahead
    <3>1. CASE Waits(k, f, d)
      BY <1>1, <2>10, <3>1 DEF Ahead
    <3>2. CASE d[1] = c[1]
      BY <1>5, <3>2
    <3>3. QED BY <2>7, <3>1, <3>2
  <2>11. Follows(f, g)
    BY <1>3, <2>2 DEF Follows
  <2>12. g.next \notin DOMAIN g.pending
    BY <1>6, <2>2, <2>3
  <2>13. QED BY <2>5, <2>8, <2>9, <2>10, <2>11, <2>12 DEF Sound
<1> HIDE DEF Goal
<1>9. QED BY <1>7, <1>8

\* A buffer has a length, and Follows is transitive.
LEMMA FollowsOn ==
    ASSUME NEW k \in Flows, NEW f, NEW g, NEW h,
           NEW p, NEW q, NEW r, Placed(k, f, p), Placed(k, g, q), Placed(k, h, r),
           Follows(f, g), Follows(g, h)
    PROVE  Follows(f, h)
<1>1. \A x, i : Placed(k, x, i) => Len(x.buf) \in Nat
  BY BytesAre DEF Placed, Run
<1>2. Len(f.buf) \in Nat /\ Len(g.buf) \in Nat /\ Len(h.buf) \in Nat
  BY <1>1
<1>3. QED BY <1>2 DEF Follows

\* A segment is integrated: nothing of what was captured is lost by it.
LEMMA IntegrateSound ==
    ASSUME Capped, NEW k \in Flows, NEW f, NEW pos, NEW S \in SUBSET Int, Sound(k, f, pos, S),
           f.next \notin DOMAIN f.pending, NEW c \in Segments
    PROVE  LET g == Integrate(f, At(k, c[1]), Bytes(c[1], c[2]))
           IN  /\ \E p \in Nat : Sound(k, g, p, S \cup Of(c))
               /\ Follows(f, g)
               /\ g.next \notin DOMAIN g.pending
<1> DEFINE off == c[1]
           len == c[2]
           all == S \cup Of(c)
           seq == At(k, c[1])
           load == Bytes(c[1], c[2])
           g == Integrate(f, seq, load)
           Goal == /\ \E p \in Nat : Sound(k, g, p, all)
                   /\ Follows(f, g)
                   /\ g.next \notin DOMAIN g.pending
<1> SUFFICES Goal
  OBVIOUS
<1>1. off \in Nat /\ off \in 0..StreamLen /\ len \in Nat /\ len >= 1 /\ off + len \in 0..StreamLen
  BY SegmentTypes
<1>2. Placed(k, f, pos) /\ pos \in 0..StreamLen /\ f.next = At(k, pos) /\ pos \in Nat
  BY DEF Sound, Placed
<1>3. seq = At(k, off) /\ load = Bytes(off, len) /\ Len(load) = len /\ all \in SUBSET Int
  <2>1. seq = At(k, off) /\ load = Bytes(off, len)
    OBVIOUS
  <2>2. Of(c) = off..(off + len - 1)
    BY DEF Of
  <2> HIDE DEF off, len, seq, load
  <2>3. Len(load) = len
    <3>1. \A a \in Int, n \in Nat : Len(Bytes(a, n)) = n
      BY BytesAre
    <3>2. off \in Int /\ len \in Nat
      BY <1>1
    <3>3. Len(Bytes(off, len)) = len
      BY <3>1, <3>2
    <3>4. QED BY <2>1, <3>3
  <2>4. Of(c) \subseteq Int
    BY <1>1, <2>2
  <2>5. all \in SUBSET Int
    BY <2>4
  <2> HIDE DEF all
  <2>6. QED BY <2>1, <2>3, <2>5
<1>4. Of(c) = off..(off + len - 1)
  BY DEF Of
<1> HIDE DEF off, len, all, seq, load
<1>5. (seq = f.next <=> off = pos) /\ (SeqAfter(seq, f.next) <=> off > pos)
  BY <1>1, <1>2, <1>3, SeqOrder
<1>6. SeqAfter(SeqAdd(seq, Len(load)), f.next) <=> off + len > pos
  <2> DEFINE end == off + len
  <2>1. SeqAdd(seq, Len(load)) = At(k, end)
    BY <1>1, <1>3, SeqAdvance
  <2>2. end \in 0..StreamLen
    BY <1>1
  <2> HIDE DEF end
  <2>3. SeqAfter(At(k, end), At(k, pos)) <=> end > pos
    BY <1>2, <2>2, SeqOrder
  <2>4. QED BY <1>2, <2>1, <2>3 DEF end
\* What follows when a part of the segment is appended and the rest drained.
<1>7. ASSUME NEW n \in Nat, n >= 1, off <= pos, pos + n = off + len, g = Drain(AppendInOrder(f, Bytes(pos, n)))
      PROVE  Goal
  <2> DEFINE h == AppendInOrder(f, Bytes(pos, n))
  <2>1. Sound(k, h, pos + n, all) /\ Follows(f, h)
    BY <1>7, AppendSound DEF off, len, all
  <2> HIDE DEF h
  <2>2. /\ \E p \in Nat : Sound(k, Drain(h), p, all)
        /\ Follows(h, Drain(h))
        /\ Drain(h).next \notin DOMAIN Drain(h).pending
    BY <1>3, <2>1, DrainSound
  <2>3. g = Drain(h)
    BY <1>7 DEF h
  <2> HIDE DEF g
  <2>4. PICK p \in Nat : Sound(k, g, p, all)
    BY <2>2, <2>3
  <2>5. Placed(k, h, pos + n) /\ Placed(k, g, p)
    BY <2>1, <2>4 DEF Sound
  <2>6. Follows(f, g)
    BY <1>2, <2>1, <2>2, <2>3, <2>5, FollowsOn
  <2>7. QED BY <2>2, <2>3, <2>6
<1>8. CASE off = pos
  <2>1. g = Drain(AppendInOrder(f, load))
    BY <1>5, <1>8 DEF Integrate
  <2>2. g = Drain(AppendInOrder(f, Bytes(pos, len)))
    BY <1>3, <1>8, <2>1
  <2>3. QED BY <1>1, <1>2, <1>7, <1>8, <2>2
<1>9. CASE off > pos
  <2>1. g = Buffer(f, seq, load)
    BY <1>1, <1>2, <1>5, <1>9 DEF Integrate
  <2>2. pos < c[1]
    BY <1>1, <1>2, <1>9 DEF off
  <2>3. LET h == Buffer(f, At(k, c[1]), Bytes(c[1], c[2]))
        IN  Sound(k, h, pos, S \cup Of(c)) /\ Follows(f, h) /\ h.next \notin DOMAIN h.pending
    BY <2>2, BufferSound
  <2>4. g = Buffer(f, At(k, c[1]), Bytes(c[1], c[2]))
    BY <2>1 DEF seq, load
  <2> HIDE DEF g
  <2>5. Sound(k, g, pos, all) /\ Follows(f, g) /\ g.next \notin DOMAIN g.pending
    BY <2>3, <2>4 DEF all
  <2>6. QED BY <1>2, <2>5
<1>10. CASE off < pos /\ off + len > pos
  <2> DEFINE skip == pos - off
  <2>1. skip \in 0..len /\ skip + off = pos /\ skip \in Nat /\ skip < len /\ off >= 0
    BY <1>1, <1>2, <1>10
  <2>2. SeqSub(f.next, seq) = skip
    BY <1>1, <1>2, <1>3, <1>10, SeqOrder
  <2>3. ~(off = pos) /\ ~(off > pos)
    BY <1>1, <1>2, <1>10
  <2>4. g = Drain(AppendInOrder(f, SubSeq(load, skip + 1, len)))
    BY <1>3, <1>5, <1>6, <1>10, <2>1, <2>2, <2>3 DEF Integrate
  <2>5. SubSeq(load, skip + 1, len) = Bytes(off + skip, len - skip)
    <3>1. off \in Int /\ skip \in 0..len /\ len \in 0..len /\ skip <= len
      BY <1>1, <2>1
    <3> HIDE DEF skip
    <3>2. QED BY <1>1, <1>3, <3>1, BytesPart
  <2>6. off + skip = pos
    BY <1>1, <1>2
  <2>7. len - skip \in Nat /\ len - skip >= 1 /\ pos + (len - skip) = off + len
    BY <1>1, <1>2, <2>1
  <2> HIDE DEF skip
  <2>8. g = Drain(AppendInOrder(f, Bytes(pos, len - skip)))
    BY <2>4, <2>5, <2>6
  <2>9. off <= pos
    BY <1>1, <1>2, <1>10
  <2>10. QED BY <1>7, <2>7, <2>8, <2>9
<1>11. CASE off < pos /\ ~(off + len > pos)
  <2>1. ~(off = pos) /\ ~(off > pos)
    BY <1>1, <1>2, <1>11
  <2>2. g = f
    BY <1>5, <1>6, <1>11, <2>1 DEF Integrate
  <2> HIDE DEF g
  <2>3. Covers(f, pos, S) => Covers(f, pos, all)
    <3>1. \A b \in Of(c) : b < pos
      BY <1>1, <1>2, <1>4, <1>11
    <3>2. QED BY <3>1 DEF Covers, all
  <2>4. Sound(k, f, pos, all)
    BY <2>3 DEF Sound
  <2>5. Len(f.buf) \in Nat
    BY <1>2, BytesAre DEF Placed, Run
  <2>6. Follows(f, f)
    BY <2>5 DEF Follows
  <2>7. QED BY <1>2, <2>2, <2>4, <2>6
<1>12. off = pos \/ off > pos \/ (off < pos /\ off + len > pos) \/ (off < pos /\ ~(off + len > pos))
  BY <1>1, <1>2
<1> HIDE DEF Goal
<1>13. QED BY <1>8, <1>9, <1>10, <1>11, <1>12

-----------------------------------------------------------------------------
(* The invariant of a flow *)

\* Nothing has been captured for a flow that holds nothing; one that has a
\* baseline is at a position of its stream, and nothing waits at it.
FlowInv(k, f) ==
    /\ DOMAIN f = FlowFields /\ f.have \in BOOLEAN /\ f.seen \in SUBSET Int /\ f.last \in Int
    /\ ~f.have => f.seen = {}
    /\ f.seen = {} => f.buf = <<>> /\ DOMAIN f.pending = {} /\ f.base = 0 /\ ~f.overflow
    /\ f.overflow \in BOOLEAN
    /\ f.have => f.next \notin DOMAIN f.pending /\ \E p \in Nat : Sound(k, f, p, f.seen)

\* The bytes of an empty payload.
LEMMA NoBytes == \A a \in Int : Bytes(a, 0) = <<>>
<1> TAKE a \in Int
<1> DEFINE x == Bytes(a, 0)
<1>1. x \in Seq(Int) /\ Len(x) = 0
  BY BytesAre
<1> HIDE DEF x
<1>2. x = <<>>
  BY <1>1
<1>3. QED BY <1>2 DEF x

\* Sound is about the buffer and what waits.
LEMMA SameSound ==
    ASSUME NEW k \in Flows, NEW f, NEW p, NEW S, Sound(k, f, p, S),
           NEW g, DOMAIN g = FlowFields, g.next = f.next, g.buf = f.buf, g.pending = f.pending,
           g.overflow = f.overflow, g.base = f.base
    PROVE  Sound(k, g, p, S)
<1>1. Placed(k, g, p)
  <2>1. Placed(k, f, p)
    BY DEF Sound
  <2>2. \A n : Run(f, p, n) => Run(g, p, n)
    BY DEF Run
  <2>3. QED BY <2>1, <2>2 DEF Placed
<1>2. \A c : Waits(k, g, c) <=> Waits(k, f, c)
  BY DEF Waits
<1>3. Held(k, g)
  BY <1>2 DEF Sound, Held
<1>4. Waiting(g) = Waiting(f)
  BY DEF Waiting
<1>5. Covers(f, p, S) => Covers(g, p, S)
  BY <1>4 DEF Covers
<1>6. Ahead(k, f, p) => Ahead(k, g, p)
  BY <1>2 DEF Ahead
<1>7. QED BY <1>1, <1>3, <1>5, <1>6 DEF Sound

\* A flow that holds nothing can be placed anywhere.
LEMMA EmptySound ==
    ASSUME Capped, NEW k \in Flows, NEW pos \in 0..StreamLen,
           NEW g, DOMAIN g = FlowFields, g.next = At(k, pos), g.buf = <<>>, DOMAIN g.pending = {},
           g.overflow = FALSE, g.base = pos
    PROVE  Sound(k, g, pos, {})
<1>1. pos \in Nat /\ pos \in Int /\ pos + 0 = pos /\ maxFlow \in Nat
  BY ReassemblyAssumption DEF Capped
<1>2. Bytes(pos, 0) = <<>>
  BY <1>1, NoBytes
<1>3. Run(g, pos, 0)
  BY <1>1, <1>2 DEF Run
<1>4. Placed(k, g, pos)
  <2>1. g.overflow \in BOOLEAN
    OBVIOUS
  <2>2. 0 \in Nat
    OBVIOUS
  <2>3. QED BY <1>1, <1>3, <2>1, <2>2 DEF Placed
<1>5. Held(k, g)
  <2>1. IsFiniteSet({}) /\ Cardinality({}) = 0
    BY FS_EmptySet
  <2>2. MaxPending \in Nat
    BY ReassemblyAssumption
  <2>3. QED BY <2>1, <2>2 DEF Held
<1>6. Covers(g, pos, {}) /\ Ahead(k, g, pos)
  BY DEF Covers, Ahead, Waits
<1>7. QED BY <1>4, <1>5, <1>6 DEF Sound

LEMMA NewFlowInv == ASSUME NEW k \in Flows PROVE FlowInv(k, NewFlow)
<1> DEFINE f == NewFlow
<1>1. /\ DOMAIN f = FlowFields /\ f.have = FALSE /\ f.seen = {} /\ f.last = 0 /\ f.buf = <<>>
      /\ f.pending = <<>> /\ f.base = 0 /\ f.overflow = FALSE
  BY DEF NewFlow, FlowFields
<1> HIDE DEF f
<1>2. DOMAIN <<>> = {}
  OBVIOUS
<1>3. f.seen \in SUBSET Int /\ f.last \in Int /\ DOMAIN f.pending = {}
  BY <1>1, <1>2
<1>4. f.have \in BOOLEAN /\ f.overflow \in BOOLEAN
  BY <1>1
<1>5. QED BY <1>1, <1>3, <1>4 DEF FlowInv, f

\* The timestamp of a segment.
LEMMA TouchedInv ==
    ASSUME NEW k \in Flows, NEW f, FlowInv(k, f), NEW ts \in Int,
           NEW g, g = [f EXCEPT !.last = ts]
    PROVE  FlowInv(k, g) /\ g.seen = f.seen /\ g.buf = f.buf /\ g.last = ts
<1>1. /\ DOMAIN g = FlowFields /\ g.last = ts /\ g.next = f.next /\ g.have = f.have /\ g.buf = f.buf
      /\ g.pending = f.pending /\ g.overflow = f.overflow /\ g.base = f.base /\ g.seen = f.seen
  BY DEF FlowInv, FlowFields
<1>2. ASSUME f.have PROVE g.next \notin DOMAIN g.pending /\ \E p \in Nat : Sound(k, g, p, g.seen)
  <2>1. PICK p \in Nat : Sound(k, f, p, f.seen)
    BY <1>2 DEF FlowInv
  <2>2. Sound(k, g, p, g.seen)
    BY <1>1, <2>1, SameSound
  <2>3. QED BY <1>1, <1>2, <2>2 DEF FlowInv
<1>3. FlowInv(k, g)
  BY <1>1, <1>2 DEF FlowInv
<1>4. QED BY <1>1, <1>3

\* A SYN of a flow that holds nothing: its stream starts at the first byte.
LEMMA SynInv ==
    ASSUME Capped, NEW k \in Flows, NEW f, FlowInv(k, f), f.seen = {},
           NEW g, g = Baseline(f, Isn[k], TRUE, FALSE, 0)
    PROVE  FlowInv(k, g) /\ g.seen = f.seen /\ g.buf = f.buf /\ g.last = f.last
<1>1. DOMAIN f = FlowFields
  BY DEF FlowInv
<1>2. g = [f EXCEPT !.next = SeqAdd(Isn[k], 1), !.have = TRUE]
  BY DEF Baseline
<1>3. /\ DOMAIN g = FlowFields /\ g.last = f.last /\ g.next = SeqAdd(Isn[k], 1) /\ g.have = TRUE
      /\ g.buf = f.buf /\ g.pending = f.pending /\ g.overflow = f.overflow /\ g.base = f.base
      /\ g.seen = f.seen
  BY <1>1, <1>2 DEF FlowFields
<1>4. f.buf = <<>> /\ DOMAIN f.pending = {} /\ f.base = 0 /\ ~f.overflow /\ f.overflow \in BOOLEAN
  BY DEF FlowInv
<1>5. 0 \in 0..StreamLen /\ 1 + 0 = 1 /\ 0 \in Nat
  BY ReassemblyAssumption
<1>6. g.next = At(k, 0)
  BY <1>3, <1>5 DEF At
<1>7. Sound(k, g, 0, {})
  BY <1>3, <1>4, <1>5, <1>6, EmptySound
<1>8. g.next \notin DOMAIN g.pending /\ \E p \in Nat : Sound(k, g, p, g.seen)
  BY <1>3, <1>4, <1>5, <1>7
<1>9. FlowInv(k, g)
  BY <1>3, <1>4, <1>8 DEF FlowInv
<1>10. QED BY <1>3, <1>9

\* The flow f, for which the bytes S were captured too.
Noted(f, S) == [f EXCEPT !.seen = @ \cup S]

\* The flow f after the segment c.
WithSegment(k, f, c) ==
    LET s == At(k, c[1])
    IN  Noted(Integrate(Baseline(f, s, FALSE, TRUE, c[1]), s, Bytes(c[1], c[2])), Of(c))

\* A segment with data: its bytes are captured, in the buffer or waiting.
LEMMA DataInv ==
    ASSUME Capped, NEW k \in Flows, NEW f, FlowInv(k, f), NEW c \in Segments,
           NEW e, e = WithSegment(k, f, c)
    PROVE  FlowInv(k, e) /\ Len(f.buf) <= Len(e.buf) /\ e.last = f.last
<1> DEFINE g == Baseline(f, At(k, c[1]), FALSE, TRUE, c[1])
           h == Integrate(g, At(k, c[1]), Bytes(c[1], c[2]))
<1>0. e = Noted(h, Of(c))
  BY DEF WithSegment
<1> HIDE DEF h
<1>1. DOMAIN f = FlowFields /\ f.have \in BOOLEAN /\ f.seen \in SUBSET Int /\ f.last \in Int
  BY DEF FlowInv
<1>2. c[1] \in 0..StreamLen /\ c[1] \in Nat /\ c[2] \in Nat /\ c[2] >= 1
  BY SegmentTypes
<1>3. Of(c) # {} /\ Of(c) \in SUBSET Int
  <2> DEFINE x == c[1]
             y == c[2]
  <2>1. x \in Nat /\ y \in Nat /\ y >= 1 /\ Of(c) = x..(x + y - 1)
    BY <1>2 DEF Of
  <2> HIDE DEF x, y
  <2>2. x \in x..(x + y - 1)
    BY <2>1
  <2>3. QED BY <2>1, <2>2
\* The baseline is set, or was set before.
<1>4. /\ \E p \in Nat : Sound(k, g, p, f.seen)
      /\ g.next \notin DOMAIN g.pending
      /\ g.have = TRUE /\ g.seen = f.seen /\ g.buf = f.buf /\ g.last = f.last
  <2>1. CASE f.have
    <3>1. g = f
      BY <2>1 DEF Baseline
    <3>2. QED BY <1>1, <2>1, <3>1 DEF FlowInv
  <2>2. CASE ~f.have
    <3>1. g = [f EXCEPT !.next = At(k, c[1]), !.have = TRUE, !.base = c[1]]
      BY <2>2 DEF Baseline
    <3>2. f.seen = {} /\ f.buf = <<>> /\ DOMAIN f.pending = {} /\ ~f.overflow /\ f.overflow \in BOOLEAN
      BY <2>2 DEF FlowInv
    <3>3. /\ DOMAIN g = FlowFields /\ g.last = f.last /\ g.next = At(k, c[1]) /\ g.have = TRUE
          /\ g.buf = f.buf /\ g.pending = f.pending /\ g.overflow = f.overflow /\ g.base = c[1]
          /\ g.seen = f.seen
      BY <1>1, <3>1 DEF FlowFields
    <3>4. g.overflow = FALSE /\ g.buf = <<>> /\ DOMAIN g.pending = {}
      BY <3>2, <3>3
    <3> DEFINE off == c[1]
    <3>5. off \in 0..StreamLen /\ off \in Nat /\ g.next = At(k, off) /\ g.base = off
      BY <1>2, <3>3
    <3> HIDE DEF off, g
    <3>6. Sound(k, g, off, {})
      BY <3>3, <3>4, <3>5, EmptySound
    <3>7. QED BY <3>2, <3>3, <3>4, <3>5, <3>6
  <2>3. QED BY <2>1, <2>2
<1> HIDE DEF g
<1>5. PICK p \in Nat : Sound(k, g, p, f.seen)
  BY <1>4
<1>6. /\ \E q \in Nat : Sound(k, h, q, f.seen \cup Of(c))
      /\ Follows(g, h)
      /\ h.next \notin DOMAIN h.pending
  BY <1>1, <1>4, <1>5, IntegrateSound DEF h
<1>7. PICK q \in Nat : Sound(k, h, q, f.seen \cup Of(c))
  BY <1>6
<1>8. DOMAIN h = FlowFields /\ h.overflow \in BOOLEAN
  BY <1>7 DEF Sound, Placed
<1>9. h.seen = f.seen /\ h.have = TRUE /\ h.last = f.last /\ Len(f.buf) <= Len(h.buf)
  BY <1>4, <1>6 DEF Follows
<1>10. /\ DOMAIN e = FlowFields /\ e.last = h.last /\ e.next = h.next /\ e.have = h.have
       /\ e.buf = h.buf /\ e.pending = h.pending /\ e.overflow = h.overflow /\ e.base = h.base
       /\ e.seen = f.seen \cup Of(c)
  BY <1>0, <1>8, <1>9 DEF FlowFields, Noted
<1>11. Sound(k, e, q, e.seen)
  BY <1>7, <1>10, SameSound
<1>12. e.seen # {} /\ e.seen \in SUBSET Int
  BY <1>1, <1>3, <1>10
<1>13. FlowInv(k, e)
  BY <1>1, <1>6, <1>8, <1>9, <1>10, <1>11, <1>12 DEF FlowInv
<1>14. QED BY <1>9, <1>10, <1>13

\* What a capture can hold: a SYN before the data, a segment of data, or a FIN
\* or a RST of its own.
Captured(k, off, len, syn) ==
    \/ syn = TRUE /\ off = 0 /\ len = 0 /\ Known(k).seen = {}
    \/ syn = FALSE /\ len = 0 /\ off \in Nat
    \/ syn = FALSE /\ <<off, len>> \in Segments

LEMMA LengthIs ==
    ASSUME NEW k \in Flows, NEW f, FlowInv(k, f)
    PROVE  Len(f.buf) \in Nat /\ (f.buf # <<>> => Len(f.buf) > 0)
<1>1. CASE f.have
  <2>1. PICK p \in Nat : Sound(k, f, p, f.seen)
    BY <1>1 DEF FlowInv
  <2>2. PICK n \in Nat : f.buf = Bytes(f.base, n) /\ f.base \in Nat
    BY <2>1 DEF Sound, Placed, Run
  <2>3. Len(f.buf) = n
    BY <2>2, BytesAre
  <2>4. n = 0 => f.buf = <<>>
    BY <2>2, NoBytes
  <2>5. QED BY <2>3, <2>4
<1>2. CASE ~f.have
  <2>1. f.buf = <<>>
    BY <1>2 DEF FlowInv
  <2>2. QED BY <2>1
<1>3. QED BY <1>1, <1>2 DEF FlowInv

\* A segment keeps the invariant of its flow.
LEMMA ArrivedInv ==
    ASSUME Capped, NEW k \in Flows, FlowInv(k, Known(k)), NEW off, NEW len, NEW syn,
           Captured(k, off, len, syn), NEW ts \in Int
    PROVE  LET e == Arrived(k, off, len, syn, ts)
           IN  FlowInv(k, e) /\ Len(Known(k).buf) <= Len(e.buf) /\ e.last = ts
<1> DEFINE e == Arrived(k, off, len, syn, ts)
           f0 == Known(k)
           f == [f0 EXCEPT !.last = ts]
           seq == IF syn THEN Isn[k] ELSE SeqAdd(Isn[k], 1 + off)
           g == Baseline(f, seq, syn, len > 0, off)
           h == IF len > 0 THEN Integrate(g, seq, Bytes(off, len)) ELSE g
           Goal == FlowInv(k, e) /\ Len(f0.buf) <= Len(e.buf) /\ e.last = ts
<1> SUFFICES Goal
  OBVIOUS
<1>1. e = [h EXCEPT !.seen = @ \cup (off..(off + len - 1))]
  BY DEF Arrived
<1>2. FlowInv(k, f) /\ f.seen = f0.seen /\ f.buf = f0.buf /\ f.last = ts
  BY TouchedInv
<1>3. Len(f.buf) \in Nat
  BY <1>2, LengthIs
<1> HIDE DEF e, f0, f
\* Without data, a flow keeps what it had.
<1>4. ASSUME len = 0, off \in Nat, FlowInv(k, g), g.seen = f.seen, g.buf = f.buf, g.last = f.last
      PROVE  Goal
  <2>1. ~(len > 0) /\ off + len - 1 = off - 1
    BY <1>4
  <2>2. off..(off + len - 1) = {}
    BY <1>4, <2>1
  <2>3. h = g
    BY <2>1
  <2> HIDE DEF g, h
  <2>4. e = [g EXCEPT !.seen = @ \cup {}]
    BY <1>1, <2>2, <2>3
  <2>5. DOMAIN g = FlowFields
    BY <1>4 DEF FlowInv
  <2>6. /\ DOMAIN e = FlowFields /\ e.last = g.last /\ e.next = g.next /\ e.have = g.have
        /\ e.buf = g.buf /\ e.pending = g.pending /\ e.overflow = g.overflow /\ e.base = g.base
        /\ e.seen = g.seen
    BY <2>4, <2>5 DEF FlowFields
  <2>7. ASSUME g.have PROVE \E p \in Nat : Sound(k, e, p, e.seen)
    <3>1. PICK p \in Nat : Sound(k, g, p, g.seen)
      BY <1>4, <2>7 DEF FlowInv
    <3>2. Sound(k, e, p, e.seen)
      BY <2>6, <3>1, SameSound
    <3>3. QED BY <3>2
  <2>8. FlowInv(k, e)
    BY <1>4, <2>6, <2>7 DEF FlowInv
  <2>9. QED BY <1>2, <1>3, <1>4, <2>6, <2>8
<1>5. CASE syn = TRUE /\ off = 0 /\ len = 0 /\ Known(k).seen = {}
  <2>1. f.seen = {}
    BY <1>2, <1>5 DEF f0
  <2>2. (len > 0) = FALSE
    BY <1>5
  <2>3. g = Baseline(f, Isn[k], TRUE, FALSE, 0)
    BY <1>5, <2>2
  <2> HIDE DEF g
  <2>4. FlowInv(k, g) /\ g.seen = f.seen /\ g.buf = f.buf /\ g.last = f.last
    BY <1>2, <2>1, <2>3, SynInv
  <2> HIDE DEF Goal
  <2>5. QED BY <1>4, <1>5, <2>4 DEF g
<1>6. CASE syn = FALSE /\ len = 0 /\ off \in Nat
  <2>1. ~(len > 0) /\ ~syn
    BY <1>6
  <2>2. g = f
    BY <2>1 DEF Baseline
  <2> HIDE DEF Goal
  <2>3. QED BY <1>2, <1>4, <1>6, <2>2
<1>7. CASE syn = FALSE /\ <<off, len>> \in Segments
  <2>1. PICK c \in Segments : c = <<off, len>>
    BY <1>7
  <2>2. c[1] = off /\ c[2] = len
    BY <2>1
  <2>3. len \in Nat /\ len >= 1 /\ len > 0
    BY <2>2, SegmentTypes
  <2>4. seq = At(k, c[1]) /\ (len > 0) = TRUE
    BY <1>7, <2>2, <2>3 DEF At
  <2>5. g = Baseline(f, At(k, c[1]), FALSE, TRUE, c[1])
    BY <1>7, <2>2, <2>4
  <2>6. h = Integrate(g, At(k, c[1]), Bytes(c[1], c[2]))
    BY <2>2, <2>3, <2>4
  <2>7. e = Noted(h, Of(c))
    BY <1>1, <2>2 DEF Of, Noted
  <2> HIDE DEF g, h
  <2>8. FlowInv(k, e) /\ Len(f.buf) <= Len(e.buf) /\ e.last = f.last
    <3> HIDE DEF seq, Goal
    <3>1. FlowInv(k, f)
      BY <1>2
    <3>2. e = WithSegment(k, f, c)
      BY <2>5, <2>6, <2>7 DEF WithSegment
    <3>3. QED BY <3>1, <3>2, DataInv
  <2>9. QED BY <1>2, <2>8
<1>8. QED BY <1>5, <1>6, <1>7 DEF Captured

\* The invariant of a flow depends on no variable but the cap.
LEMMA SameCap ==
    ASSUME maxFlow' = maxFlow, NEW k \in Flows, NEW f, FlowInv(k, f)
    PROVE  FlowInv(k, f)'
<1>1. \A p, n : Run(f, p, n) => Run(f, p, n)'
  BY DEF Run
<1>2. \A p : Placed(k, f, p) => Placed(k, f, p)'
  BY <1>1 DEF Placed
<1>3. Held(k, f) => Held(k, f)'
  BY DEF Held, Waits
<1>4. \A p : Sound(k, f, p, f.seen) => Sound(k, f, p, f.seen)'
  BY <1>2, <1>3 DEF Sound, OneCut, Nested, Covers, Ahead, Waits, Waiting
<1>5. QED BY <1>4 DEF FlowInv

\* What the properties say of a flow.
LEMMA FlowFacts ==
    ASSUME Capped, NEW k \in Flows, NEW f, FlowInv(k, f)
    PROVE  /\ Consecutive(f)
           /\ maxFlow = 0 \/ Len(f.buf) <= maxFlow
           /\ Cardinality(DOMAIN f.pending) <= MaxPending
           /\ OneCut => f.overflow \/ \A b \in f.seen :
                b < f.base \/ b < f.base + Len(f.buf) \/ b \in Waiting(f)
           /\ OneCut /\ Nested /\ f.buf # <<>> => f.overflow \/ f.base + Len(f.buf) \notin f.seen
<1>1. CASE ~f.have
  <2>1. f.seen = {} /\ f.buf = <<>> /\ DOMAIN f.pending = {}
    BY <1>1 DEF FlowInv
  <2>2. Cardinality({}) = 0 /\ MaxPending \in Nat /\ maxFlow \in Nat
    BY FS_EmptySet, ReassemblyAssumption DEF Capped
  <2>3. Consecutive(f)
    BY <2>1 DEF Consecutive
  <2>4. QED BY <2>1, <2>2, <2>3
<1>2. CASE f.have
  <2>1. PICK p \in Nat : Sound(k, f, p, f.seen)
    BY <1>2 DEF FlowInv
  <2>2. f.next \notin DOMAIN f.pending /\ f.seen \in SUBSET Int
    BY <1>2 DEF FlowInv
  <2>3. Placed(k, f, p) /\ Held(k, f) /\ (OneCut => Covers(f, p, f.seen)) /\ (Nested => Ahead(k, f, p))
    BY <2>1 DEF Sound
  <2>4. f.base \in Nat /\ p \in 0..StreamLen /\ f.next = At(k, p) /\ \E n \in Nat : Run(f, p, n)
    BY <2>3 DEF Placed
  <2>5. PICK n \in Nat : Run(f, p, n)
    BY <2>4
  <2> DEFINE b == f.base
  <2>6. f.buf = Bytes(b, n) /\ b \in Int
    BY <2>4, <2>5 DEF Run
  <2>7. Len(f.buf) = n /\ \A i \in 1..n : f.buf[i] = b + i - 1
    <3> HIDE DEF b
    <3>1. QED BY <2>6, BytesAre
  <2>8. Consecutive(f)
    BY <2>7 DEF Consecutive
  <2>9. maxFlow = 0 \/ Len(f.buf) <= maxFlow
    BY <2>5, <2>7 DEF Run
  <2>10. Cardinality(DOMAIN f.pending) <= MaxPending
    BY <2>3 DEF Held
  <2>11. ~f.overflow => p = f.base + Len(f.buf)
    <3>1. f.base + n <= p /\ (f.base + n < p => f.overflow)
      BY <2>5 DEF Run
    <3>2. QED BY <2>4, <2>7, <3>1
  <2>12. ASSUME OneCut, ~f.overflow, NEW x \in f.seen, ~(x < f.base + Len(f.buf)) PROVE x \in Waiting(f)
    BY <2>3, <2>11, <2>12 DEF Covers
  <2>13. ASSUME OneCut, Nested, ~f.overflow PROVE p \notin f.seen
    <3> SUFFICES ASSUME p \in f.seen PROVE FALSE
      OBVIOUS
    <3>1. ~(p < p)
      OBVIOUS
    <3>2. p \in Waiting(f)
      BY <2>3, <2>13, <3>1 DEF Covers
    <3>3. PICK s \in DOMAIN f.pending : \E i \in DOMAIN f.pending[s] : f.pending[s][i] = p
      BY <3>2 DEF Waiting
    <3>4. PICK c \in Segments : s = At(k, c[1]) /\ Waits(k, f, c)
      BY <2>3, <3>3 DEF Held
    <3> DEFINE x == c[1]
               y == c[2]
    <3>5. x \in Nat /\ y \in Nat
      BY SegmentTypes
    <3>6. x >= p \/ x + y <= p
      BY <2>3, <2>13, <3>4 DEF Ahead
    <3>7. f.pending[s] = Bytes(x, y) /\ s = At(k, x)
      BY <3>4 DEF Waits
    <3> HIDE DEF x, y
    <3>8. PICK i \in 1..y : Bytes(x, y)[i] = p
      BY <3>3, <3>5, <3>7, BytesAre
    <3>9. p = x + i - 1
      BY <3>5, <3>8, BytesAre
    <3>10. x = p
      BY <3>5, <3>6, <3>8, <3>9
    <3>11. QED BY <2>2, <2>4, <3>3, <3>7, <3>10
  <2>14. QED BY <2>8, <2>9, <2>10, <2>11, <2>12, <2>13
<1>3. QED BY <1>1, <1>2

-----------------------------------------------------------------------------
(* The invariant of the reassembler *)

\* Every flow keeps its invariant, and none has been silent for too long.
StreamInv ==
    /\ maxFlow \in Caps /\ latest \in Int /\ DOMAIN flows \subseteq Flows
    /\ \A k \in DOMAIN flows : FlowInv(k, flows[k]) /\ (Idle > 0 => latest - flows[k].last < Idle)

\* What was handed over is a run of a stream, and holds all that was captured
\* of it, under the assumptions on how the senders cut it.
Whole(e) ==
    /\ Consecutive(e)
    /\ OneCut /\ Nested => e.overflow \/ e.base + Len(e.buf) \notin e.seen

EmittedInv == \A e \in emitted : Whole(e)

LEMMA CarvedWhole ==
    ASSUME Capped, NEW k \in Flows, NEW f, FlowInv(k, f), NEW e \in Carved(k, f)
    PROVE  Whole(e)
<1>1. f.buf # <<>> /\ e.buf = f.buf /\ e.overflow = f.overflow /\ e.base = f.base /\ e.seen = f.seen
  BY DEF Carved
<1>2. Consecutive(f) /\ (OneCut /\ Nested => f.overflow \/ f.base + Len(f.buf) \notin f.seen)
  BY <1>1, FlowFacts
<1>3. QED BY <1>1, <1>2 DEF Whole, Consecutive

LEMMA KnownInv == ASSUME StreamInv, NEW k \in Flows PROVE FlowInv(k, Known(k)) /\ Capped
<1>1. Capped
  BY ReassemblyAssumption DEF StreamInv, Capped
<1>2. QED BY <1>1, NewFlowInv DEF StreamInv, Known

\* A segment keeps the invariant, and what it ends is whole.
LEMMA ConsumeInv ==
    ASSUME StreamInv, NEW k \in Flows, NEW off, NEW len, NEW syn, Captured(k, off, len, syn),
           NEW ends \in BOOLEAN, NEW ts \in Int, Consume(k, off, len, syn, ends, ts)
    PROVE  StreamInv' /\ EmittedInv'
<1> DEFINE now == IF ts > latest THEN ts ELSE latest
           f == Arrived(k, off, len, syn, ts)
           kept == (DOMAIN flows \cup {k}) \ {j \in {k} : ends}
           fs == [j \in kept |-> IF j = k THEN f ELSE flows[j]]
           idle == IdleFlows(fs, now)
           gone == UNION {Carved(j, fs[j]) : j \in idle}
<1>1. /\ latest' = now
      /\ flows' = [j \in kept \ idle |-> fs[j]]
      /\ emitted' = (IF ends THEN Carved(k, f) ELSE {}) \cup gone
      /\ maxFlow' = maxFlow
  BY DEF Consume
<1>2. /\ FlowInv(k, f) /\ Len(Known(k).buf) <= Len(f.buf)
      /\ Capped
  BY KnownInv, ArrivedInv
<1>3. latest \in Int /\ maxFlow \in Caps /\ DOMAIN flows \subseteq Flows
      /\ \A j \in DOMAIN flows : FlowInv(j, flows[j])
  BY DEF StreamInv
<1>4. now \in Int /\ Idle \in Nat
  BY <1>3, ReassemblyAssumption
<1> HIDE DEF f, now
<1>5. DOMAIN fs = kept /\ (k \in kept => fs[k] = f)
      /\ \A j \in kept : j # k => j \in DOMAIN flows /\ fs[j] = flows[j]
  OBVIOUS
<1>6. kept \subseteq Flows /\ (k \in kept <=> ~ends) /\ \A j \in DOMAIN flows : j # k => j \in kept
  BY <1>3
<1> HIDE DEF kept, fs
<1>7. \A j \in kept : FlowInv(j, fs[j])
  BY <1>2, <1>3, <1>5
<1>8. idle \subseteq kept /\ \A j \in kept \ idle : Idle > 0 => ~(now - fs[j].last >= Idle)
  BY <1>5 DEF IdleFlows
<1> HIDE DEF idle
<1>9. StreamInv'
  <2>1. DOMAIN flows' = kept \ idle /\ \A j \in kept \ idle : flows'[j] = fs[j]
    BY <1>1
  <2>2. ASSUME NEW j \in kept \ idle
        PROVE  FlowInv(j, flows[j])' /\ (Idle > 0 => latest' - flows'[j].last < Idle)
    <3>1. j \in Flows /\ FlowInv(j, fs[j])
      BY <1>6, <1>7
    <3> DEFINE g == fs[j]
    <3>2. flows'[j] = g /\ FlowInv(j, g)
      BY <2>1, <3>1
    <3>3. g.last \in Int
      BY <3>2 DEF FlowInv
    <3>4. Idle > 0 => latest' - g.last < Idle
      <4> DEFINE x == g.last
      <4>1. x \in Int /\ (Idle > 0 => ~(now - x >= Idle))
        BY <1>8, <3>3
      <4> HIDE DEF x
      <4>2. Idle > 0 => now - x < Idle
        BY <1>4, <4>1
      <4>3. QED BY <1>1, <4>2 DEF x
    <3> HIDE DEF g
    <3>5. FlowInv(j, flows[j])'
      <4>1. \A h : FlowInv(j, h) => FlowInv(j, h)'
        BY <1>1, <3>1, SameCap
      <4>2. QED BY <3>2, <4>1
    <3>6. QED BY <3>2, <3>4, <3>5
  <2>3. maxFlow' \in Caps /\ latest' \in Int /\ DOMAIN flows' \subseteq Flows
    BY <1>1, <1>3, <1>4, <1>6, <2>1
  <2>4. QED BY <2>1, <2>2, <2>3 DEF StreamInv
<1>10. EmittedInv'
  <2>1. \A e \in Carved(k, f) : Whole(e)
    BY <1>2, CarvedWhole
  <2>2. \A e \in gone : Whole(e)
    BY <1>2, <1>6, <1>7, <1>8, CarvedWhole
  <2>3. \A e \in emitted' : Whole(e)
    BY <1>1, <2>1, <2>2
  <2>4. QED BY <2>3 DEF EmittedInv, Whole, Consecutive, OneCut, Nested
<1>11. QED BY <1>9, <1>10

LEMMA FlushInv == ASSUME StreamInv, Flush PROVE StreamInv' /\ EmittedInv'
<1>1. flows' = <<>> /\ DOMAIN <<>> = {} /\ latest' = 0 /\ maxFlow' = maxFlow
      /\ emitted' = UNION {Carved(k, flows[k]) : k \in DOMAIN flows}
  BY DEF Flush
<1>2. StreamInv'
  <2>1. DOMAIN flows' = {} /\ latest' \in Int /\ maxFlow' \in Caps
    BY <1>1 DEF StreamInv
  <2>2. QED BY <2>1 DEF StreamInv
<1>3. \A k \in DOMAIN flows : k \in Flows /\ FlowInv(k, flows[k])
  BY DEF StreamInv
<1>4. Capped
  BY ReassemblyAssumption DEF StreamInv, Capped
<1>5. \A e \in emitted' : Whole(e)
  BY <1>1, <1>3, <1>4, CarvedWhole
<1>6. EmittedInv'
  BY <1>5 DEF EmittedInv, Whole, Consecutive, OneCut, Nested
<1>7. QED BY <1>2, <1>6

\* A segment of data is one of those senders cut.
LEMMA DataCaptured ==
    ASSUME NEW k \in Flows, NEW s \in Segments PROVE Captured(k, s[1], s[2], FALSE)
<1>1. s \in Offsets \X (1..StreamLen)
  BY ReassemblyAssumption
<1>2. s = <<s[1], s[2]>>
  BY <1>1
<1>3. QED BY <1>2 DEF Captured

LEMMA StreamStep ==
    ASSUME Orderly, StreamInv, EmittedInv, [Next]_vars
    PROVE  StreamInv' /\ EmittedInv'
<1>1. ASSUME NEW k \in Flows, NEW ts \in 1..MaxTime, NEW s \in Segments, NEW fin \in BOOLEAN,
             Data(k, s, fin, ts)
      PROVE  StreamInv' /\ EmittedInv'
  <2>1. Consume(k, s[1], s[2], FALSE, fin, ts)
    BY <1>1 DEF Data
  <2>2. ts \in Int
    OBVIOUS
  <2>3. QED BY <2>1, <2>2, DataCaptured, ConsumeInv
<1>2. ASSUME NEW k \in Flows, NEW ts \in 1..MaxTime, Syn(k, ts)
      PROVE  StreamInv' /\ EmittedInv'
  <2>1. Consume(k, 0, 0, TRUE, FALSE, ts) /\ Known(k).seen = {}
    BY <1>2 DEF Syn
  <2>1a. ts \in Int /\ FALSE \in BOOLEAN
    OBVIOUS
  <2>2. Captured(k, 0, 0, TRUE)
    BY <2>1 DEF Captured
  <2>3. QED BY <2>1, <2>1a, <2>2, ConsumeInv
<1>3. ASSUME NEW k \in Flows, NEW ts \in 1..MaxTime, NEW off \in Nat,
             Consume(k, off, 0, FALSE, TRUE, ts)
      PROVE  StreamInv' /\ EmittedInv'
  <2>1. Captured(k, off, 0, FALSE)
    BY DEF Captured
  <2>2. TRUE \in BOOLEAN /\ ts \in Int
    OBVIOUS
  <2>3. QED BY <1>3, <2>1, <2>2, ConsumeInv
<1>4. ASSUME NEW k \in Flows, NEW ts \in 1..MaxTime, Fin(k, ts) \/ Rst(k, ts)
      PROVE  StreamInv' /\ EmittedInv'
  <2>1. StreamLen \in Nat /\ 0 \in Nat
    BY ReassemblyAssumption
  <2>2. QED BY <1>3, <1>4, <2>1 DEF Fin, Rst
<1>5. CASE Flush
  BY <1>5, FlushInv
<1>6. CASE UNCHANGED vars
  <2>1. maxFlow' = maxFlow /\ flows' = flows /\ latest' = latest /\ emitted' = emitted
    BY <1>6 DEF vars
  <2>2. ASSUME NEW k \in DOMAIN flows
        PROVE  FlowInv(k, flows[k])' /\ (Idle > 0 => latest' - flows'[k].last < Idle)
    <3> DEFINE g == flows[k]
    <3>1. k \in Flows /\ FlowInv(k, g) /\ flows'[k] = g /\ (Idle > 0 => latest' - g.last < Idle)
      BY <2>1 DEF StreamInv
    <3> HIDE DEF g
    <3>2. \A h : FlowInv(k, h) => FlowInv(k, h)'
      BY <2>1, <3>1, SameCap
    <3>3. QED BY <3>1, <3>2
  <2>3. StreamInv'
    BY <2>1, <2>2 DEF StreamInv
  <2>4. EmittedInv'
    BY <2>1 DEF EmittedInv, Whole, Consecutive, OneCut, Nested
  <2>5. QED BY <2>3, <2>4
<1>7. QED BY <1>1, <1>2, <1>4, <1>5, <1>6 DEF Next

LEMMA StreamInit == Init => StreamInv /\ EmittedInv
<1> SUFFICES ASSUME Init PROVE StreamInv /\ EmittedInv
  OBVIOUS
<1>1. maxFlow \in Caps /\ flows = <<>> /\ latest = 0 /\ emitted = {} /\ DOMAIN <<>> = {}
  BY DEF Init
<1>2. QED BY <1>1 DEF StreamInv, EmittedInv

LEMMA StreamInvariant == ASSUME Orderly PROVE Spec => [](StreamInv /\ EmittedInv)
<1>1. Init => StreamInv /\ EmittedInv
  BY StreamInit
<1>2. StreamInv /\ EmittedInv /\ [Next]_vars => (StreamInv /\ EmittedInv)'
  BY StreamStep
<1>3. QED BY <1>1, <1>2, PTL DEF Spec

\* A job is a run of the bytes its client sent, and so is what is kept of a
\* flow, whatever is lost, repeated or reordered and wherever the sequence
\* numbers wrap (integrate, drainPending, appendInOrder): no byte is taken
\* twice, skipped, or out of its place.
THEOREM JobsAreRunsOfStreams == ASSUME Orderly PROVE Spec => []StreamsContiguous
<1>1. StreamInv /\ EmittedInv => StreamsContiguous
  <2> SUFFICES ASSUME StreamInv, EmittedInv PROVE StreamsContiguous
    OBVIOUS
  <2>1. ASSUME NEW k \in Live PROVE Consecutive(flows[k])
    <3>1. k \in Flows /\ FlowInv(k, flows[k]) /\ Capped
      BY ReassemblyAssumption DEF StreamInv, Live, Capped
    <3>2. QED BY <3>1, FlowFacts
  <2>2. \A e \in emitted : Consecutive(e)
    BY DEF EmittedInv, Whole
  <2>3. QED BY <2>1, <2>2 DEF StreamsContiguous
<1>2. QED BY <1>1, StreamInvariant, PTL

\* A captured byte is not lost while its flow is kept: it is in the buffer, or
\* waits (appendInOrder, the pending map), or the flow is marked as truncated,
\* when a segment other than the first one is sent again as it was.
THEOREM CapturedIsKept == ASSUME Orderly, OneCut PROVE Spec => []NothingDroppedSilently
<1>1. StreamInv => NothingDroppedSilently
  <2> SUFFICES ASSUME StreamInv, NEW k \in Live
               PROVE  LET f == flows[k]
                      IN  f.overflow \/ \A b \in f.seen :
                              b < f.base \/ b < f.base + Len(f.buf) \/ b \in Waiting(f)
    BY DEF NothingDroppedSilently
  <2>1. k \in Flows /\ FlowInv(k, flows[k]) /\ Capped
    BY ReassemblyAssumption DEF StreamInv, Live, Capped
  <2>2. QED BY <2>1, FlowFacts
<1>2. QED BY <1>1, StreamInvariant, PTL

\* A job that is not marked as truncated ends at a byte that was never
\* captured, when senders repeat whole segments (onStream, sweepIdle, flush).
THEOREM JobsAreWhole == ASSUME Orderly, OneCut, Nested PROVE Spec => []CapturedIsCarved
<1>1. EmittedInv => CapturedIsCarved
  BY DEF EmittedInv, Whole, CapturedIsCarved
<1>2. QED BY <1>1, StreamInvariant, PTL

-----------------------------------------------------------------------------
(* What is held of a flow, in whatever order its segments come *)

Small(f) ==
    /\ DOMAIN f = FlowFields /\ f.last \in Int /\ f.next \in Int
    /\ f.buf \in Seq(Int) /\ (maxFlow = 0 \/ Len(f.buf) <= maxFlow)
    /\ \A s \in DOMAIN f.pending : f.pending[s] \in Seq(Int)
    /\ IsFiniteSet(DOMAIN f.pending) /\ Cardinality(DOMAIN f.pending) <= MaxPending

Grew(f, g) == Len(f.buf) <= Len(g.buf) /\ g.last = f.last

\* Sequence numbers stay numbers.
LEMMA SeqTypes ==
    ASSUME NEW a \in Int, NEW b \in Int
    PROVE  SeqAdd(a, b) \in Nat /\ SeqSub(a, b) \in Nat
<1>1. SeqMod \in Nat /\ SeqMod > 0
  <2>1. PICK h \in Nat : SeqMod = 2 * h /\ StreamLen + 1 < h
    BY Halves
  <2>2. QED BY <2>1, ReassemblyAssumption
<1>2. \A x \in Int : x % SeqMod \in Nat
  BY <1>1
<1>3. QED BY <1>2 DEF SeqAdd, SeqSub

LEMMA AppendSmall ==
    ASSUME Capped, NEW f, Small(f), NEW p \in Seq(Int)
    PROVE  LET g == AppendInOrder(f, p)
           IN  Small(g) /\ Grew(f, g) /\ g.pending = f.pending
<1> DEFINE g == AppendInOrder(f, p)
           room == maxFlow - Len(f.buf)
           all == maxFlow = 0 \/ Len(p) <= room
           more == IF all THEN p ELSE SubSeq(p, 1, room)
<1>1. DOMAIN f = FlowFields /\ f.last \in Int /\ f.next \in Int /\ f.buf \in Seq(Int)
      /\ (maxFlow = 0 \/ Len(f.buf) <= maxFlow) /\ maxFlow \in Nat
  BY DEF Small, Capped
<1>2. g = [f EXCEPT !.buf = @ \o more, !.overflow = @ \/ ~all, !.next = SeqAdd(@, Len(p))]
  BY DEF AppendInOrder
<1>3. Len(p) \in Nat /\ Len(f.buf) \in Nat
  BY <1>1
<1> HIDE DEF g
<1>4. more \in Seq(Int) /\ (maxFlow # 0 => Len(more) <= room)
  <2>1. CASE all
    BY <1>1, <1>3, <2>1
  <2>2. CASE ~all
    <3>1. room \in Nat /\ room < Len(p) /\ maxFlow # 0
      BY <1>1, <1>3, <2>2
    <3> DEFINE q == SubSeq(p, 1, room)
    <3>2. more = q
      BY <2>2
    <3> HIDE DEF room, q, more, all
    <3>3. \A i \in 1..room : p[i] \in Int
      <4>1. \A i \in 1..room : i \in 1..Len(p)
        BY <1>3, <3>1
      <4>2. QED BY <4>1
    <3>4. q \in Seq(Int) /\ Len(q) = IF 1 <= room THEN room - 1 + 1 ELSE 0
      BY <3>1, <3>3, SubSeqProperties DEF q
    <3>5. QED BY <3>1, <3>2, <3>4
  <2>3. QED BY <2>1, <2>2
<1>5. /\ DOMAIN g = FlowFields /\ g.buf = f.buf \o more /\ g.last = f.last
      /\ g.pending = f.pending /\ g.next = SeqAdd(f.next, Len(p))
  BY <1>1, <1>2 DEF FlowFields
<1>6. g.next \in Int
  <2> DEFINE a == f.next
             b == Len(p)
  <2>1. a \in Int /\ b \in Int /\ g.next = SeqAdd(a, b)
    BY <1>1, <1>3, <1>5
  <2> HIDE DEF a, b
  <2>2. SeqAdd(a, b) \in Nat
    BY <2>1, SeqTypes
  <2>3. QED BY <2>1, <2>2
<1>7. Len(more) \in Nat
  BY <1>4
<1> HIDE DEF more
<1>8. g.buf \in Seq(Int) /\ Len(g.buf) = Len(f.buf) + Len(more)
  BY <1>1, <1>4, <1>5, ConcatProperties
<1>9. (maxFlow = 0 \/ Len(g.buf) <= maxFlow) /\ Len(f.buf) <= Len(g.buf)
  BY <1>1, <1>3, <1>4, <1>7, <1>8
<1>10. Small(g) /\ Grew(f, g)
  BY <1>1, <1>5, <1>6, <1>8, <1>9 DEF Small, Grew
<1>11. QED BY <1>5, <1>10 DEF g

\* Segments that no longer wait, or one more that does.
LEMMA PendingSmall ==
    ASSUME NEW f, Small(f), NEW g, DOMAIN g = FlowFields, g.buf = f.buf, g.last = f.last,
           g.next = f.next, \A s \in DOMAIN g.pending : g.pending[s] \in Seq(Int),
           IsFiniteSet(DOMAIN g.pending), Cardinality(DOMAIN g.pending) <= MaxPending
    PROVE  Small(g) /\ Grew(f, g)
<1>1. Len(f.buf) \in Nat
  BY DEF Small
<1>2. QED BY <1>1 DEF Small, Grew

LEMMA TakenSmall ==
    ASSUME Capped, NEW f, Small(f)
    PROVE  Small(Taken(f)) /\ Grew(f, Taken(f))
<1>1. CASE f.next \in DOMAIN f.pending
  <2> DEFINE D == DOMAIN f.pending
             E == D \ {f.next}
             p == f.pending[f.next]
             f0 == [f EXCEPT !.pending = [s \in DOMAIN @ \ {f.next} |-> @[s]]]
  <2>1. Taken(f) = AppendInOrder(f0, p)
    BY <1>1 DEF Taken
  <2>2. DOMAIN f = FlowFields /\ p \in Seq(Int) /\ IsFiniteSet(D) /\ Cardinality(D) <= MaxPending
        /\ MaxPending \in Nat
    BY <1>1, ReassemblyAssumption DEF Small
  <2>3. IsFiniteSet(E) /\ Cardinality(E) = Cardinality(D) - 1 /\ Cardinality(D) \in Nat
    BY <1>1, <2>2, FS_RemoveElement, FS_CardinalityType
  <2>4. Cardinality(E) <= MaxPending
    BY <2>2, <2>3
  <2>5. DOMAIN f0 = FlowFields /\ f0.buf = f.buf /\ f0.last = f.last /\ f0.next = f.next
        /\ f0.pending = [s \in E |-> f.pending[s]]
    BY <2>2 DEF FlowFields
  <2> HIDE DEF f0, p
  <2>6. DOMAIN f0.pending = E /\ \A s \in E : f0.pending[s] \in Seq(Int)
    BY <2>5 DEF Small
  <2>7. Small(f0) /\ Grew(f, f0)
    BY <2>3, <2>4, <2>5, <2>6, PendingSmall
  <2>8. Small(Taken(f)) /\ Grew(f0, Taken(f))
    BY <2>1, <2>2, <2>7, AppendSmall
  <2>9. QED BY <2>5, <2>8 DEF Grew
<1>2. CASE f.next \notin DOMAIN f.pending
  <2>1. Taken(f) = f /\ Len(f.buf) \in Nat
    BY <1>2 DEF Taken, Small
  <2>2. QED BY <2>1 DEF Grew
<1>3. QED BY <1>1, <1>2

LEMMA DrainSmall ==
    ASSUME Capped, NEW f, Small(f)
    PROVE  Small(Drain(f)) /\ Grew(f, Drain(f))
<1> DEFINE r == Rounds(f)
           P(n) == Small(r[n]) /\ Grew(f, r[n])
           T == {n \in Nat : P(n)}
<1>1. r[0] = f /\ \A n \in Nat : r[n + 1] = Taken(r[n])
  BY RoundsAre
<1> HIDE DEF r
<1>2. \A g : Small(g) => Len(g.buf) \in Nat
  BY DEF Small
<1>3. P(0)
  BY <1>1, <1>2 DEF Grew
<1>4. ASSUME NEW n \in Nat, P(n) PROVE P(n + 1)
  <2>1. Small(r[n + 1]) /\ Grew(r[n], r[n + 1])
    BY <1>1, <1>4, TakenSmall
  <2>2. QED BY <1>2, <1>4, <2>1 DEF Grew
<1>5. \A n \in Nat : P(n)
  <2> HIDE DEF P
  <2>1. 0 \in T /\ \A n \in Nat : n \in T => n + 1 \in T
    BY <1>3, <1>4
  <2> HIDE DEF T
  <2>2. \A n \in Nat : n \in T
    BY <2>1, AllNumbers
  <2>3. QED BY <2>2 DEF T
<1>6. Cardinality(DOMAIN f.pending) \in Nat
  BY FS_CardinalityType DEF Small
<1>7. Drain(f) = r[Cardinality(DOMAIN f.pending)]
  BY DEF Drain, r
<1>8. QED BY <1>5, <1>6, <1>7

LEMMA IntegrateSmall ==
    ASSUME Capped, NEW f, Small(f), NEW seq \in Int, NEW p \in Seq(Int)
    PROVE  Small(Integrate(f, seq, p)) /\ Grew(f, Integrate(f, seq, p))
<1> DEFINE g == Integrate(f, seq, p)
           skip == SeqSub(f.next, seq)
           tail == SubSeq(p, skip + 1, Len(p))
           D == DOMAIN f.pending
<1>1. DOMAIN f = FlowFields /\ f.next \in Int /\ Len(f.buf) \in Nat /\ Len(p) \in Nat
  BY DEF Small
<1>2. skip \in Nat
  <2> DEFINE a == f.next
  <2>1. a \in Int
    BY <1>1
  <2> HIDE DEF a
  <2>2. SeqSub(a, seq) \in Nat
    BY <2>1, SeqTypes
  <2>3. QED BY <2>2 DEF a
<1> HIDE DEF skip
<1>3. tail \in Seq(Int)
  <2> DEFINE m == skip + 1
             l == Len(p)
  <2>1. m \in Int /\ l \in Int /\ \A i \in m..l : i \in 1..l
    BY <1>1, <1>2
  <2>2. \A i \in m..l : p[i] \in Int
    BY <2>1
  <2> HIDE DEF m, l
  <2>3. SubSeq(p, m, l) \in Seq(Int)
    BY <2>1, <2>2, SubSeqProperties
  <2>4. QED BY <2>3 DEF m, l
\* What is appended is drained.
<1>4. ASSUME NEW q \in Seq(Int)
      PROVE  Small(Drain(AppendInOrder(f, q))) /\ Grew(f, Drain(AppendInOrder(f, q)))
  <2> DEFINE h == AppendInOrder(f, q)
  <2>1. Small(h) /\ Grew(f, h)
    BY AppendSmall
  <2> HIDE DEF h
  <2>2. Small(Drain(h)) /\ Grew(h, Drain(h))
    BY <2>1, DrainSmall
  <2>3. Len(h.buf) \in Nat /\ Len(Drain(h).buf) \in Nat
    BY <2>1, <2>2 DEF Small
  <2>4. Grew(f, Drain(h))
    BY <1>1, <2>1, <2>2, <2>3 DEF Grew
  <2>5. QED BY <2>2, <2>4 DEF h
<1>5. Small(Buffer(f, seq, p)) /\ Grew(f, Buffer(f, seq, p))
  <2> DEFINE b == Buffer(f, seq, p)
             E == D \cup {seq}
  <2>1. IsFiniteSet(D) /\ Cardinality(D) <= MaxPending /\ Cardinality(D) \in Nat /\ MaxPending \in Nat
        /\ \A s \in D : f.pending[s] \in Seq(Int)
    BY FS_CardinalityType, ReassemblyAssumption DEF Small
  <2>2. CASE seq \notin D /\ Cardinality(D) >= MaxPending
    <3>1. b = [f EXCEPT !.overflow = TRUE]
      BY <2>2 DEF Buffer
    <3> HIDE DEF b
    <3>2. DOMAIN b = FlowFields /\ b.buf = f.buf /\ b.last = f.last /\ b.next = f.next
          /\ b.pending = f.pending
      BY <1>1, <3>1 DEF FlowFields
    <3>3. QED BY <2>1, <3>2, PendingSmall DEF b
  <2>3. CASE ~(seq \notin D /\ Cardinality(D) >= MaxPending)
    <3>1. b = [f EXCEPT !.pending = [x \in DOMAIN @ \cup {seq} |-> IF x = seq THEN p ELSE @[x]]]
      BY <2>3 DEF Buffer
    <3> HIDE DEF b
    <3>2. DOMAIN b = FlowFields /\ b.buf = f.buf /\ b.last = f.last /\ b.next = f.next
          /\ b.pending = [x \in E |-> IF x = seq THEN p ELSE f.pending[x]]
      BY <1>1, <3>1 DEF FlowFields
    <3>3. DOMAIN b.pending = E /\ \A s \in E : b.pending[s] \in Seq(Int)
      BY <2>1, <3>2
    <3>4. IsFiniteSet(E) /\ Cardinality(E) = IF seq \in D THEN Cardinality(D) ELSE Cardinality(D) + 1
      BY <2>1, FS_AddElement
    <3>5. Cardinality(E) <= MaxPending
      BY <2>1, <2>3, <3>4
    <3>6. QED BY <3>2, <3>3, <3>4, <3>5, PendingSmall DEF b
  <2>4. QED BY <2>2, <2>3
<1>6. Grew(f, f)
  BY <1>1 DEF Grew
<1> HIDE DEF tail
<1>7. \/ g = Drain(AppendInOrder(f, p))
      \/ g = Buffer(f, seq, p)
      \/ g = Drain(AppendInOrder(f, tail))
      \/ g = f
  BY DEF Integrate, skip, tail
<1>8. QED BY <1>3, <1>4, <1>5, <1>6, <1>7

\* A segment of any kind.
LEMMA ArrivedSmall ==
    ASSUME Capped, NEW k \in Flows, Small(Known(k)), NEW off \in Nat, NEW len \in Nat,
           NEW syn \in BOOLEAN, NEW ts \in Int
    PROVE  LET e == Arrived(k, off, len, syn, ts)
           IN  Small(e) /\ Len(Known(k).buf) <= Len(e.buf) /\ e.last = ts
<1> DEFINE e == Arrived(k, off, len, syn, ts)
           f0 == Known(k)
           f == [f0 EXCEPT !.last = ts]
           seq == IF syn THEN Isn[k] ELSE SeqAdd(Isn[k], 1 + off)
           g == Baseline(f, seq, syn, len > 0, off)
           h == IF len > 0 THEN Integrate(g, seq, Bytes(off, len)) ELSE g
           Goal == Small(e) /\ Len(f0.buf) <= Len(e.buf) /\ e.last = ts
<1> SUFFICES Goal
  OBVIOUS
<1>1. e = Noted(h, off..(off + len - 1))
  BY DEF Arrived, Noted
<1>2. Small(f0)
  OBVIOUS
<1> HIDE DEF e, f0
<1>3. /\ DOMAIN f = FlowFields /\ f.last = ts /\ f.next = f0.next /\ f.buf = f0.buf
      /\ f.pending = f0.pending
  BY <1>2 DEF Small, FlowFields
<1> HIDE DEF f
<1>4. Small(f) /\ Len(f.buf) \in Nat
  BY <1>2, <1>3 DEF Small
<1>5. seq \in Int
  <2>1. Isn[k] \in Int
    BY ReassemblyAssumption DEF SeqNums
  <2> DEFINE a == Isn[k]
             b == 1 + off
  <2>2. a \in Int /\ b \in Int
    BY <2>1
  <2> HIDE DEF a, b
  <2>3. SeqAdd(a, b) \in Nat
    BY <2>2, SeqTypes
  <2>4. QED BY <2>1, <2>3 DEF a, b
<1> HIDE DEF seq
<1>6. Small(g) /\ g.buf = f.buf /\ g.last = f.last
  <2>1. SeqAdd(seq, 1) \in Int
    BY <1>5, SeqTypes
  <2>2. \/ g = f
        \/ g = [f EXCEPT !.next = SeqAdd(seq, 1), !.have = TRUE]
        \/ g = [f EXCEPT !.next = seq, !.have = TRUE, !.base = off]
    BY DEF Baseline
  <2> HIDE DEF g
  <2>3. /\ DOMAIN g = FlowFields /\ g.last = f.last /\ g.buf = f.buf /\ g.pending = f.pending
        /\ (g.next = f.next \/ g.next = seq \/ g.next = SeqAdd(seq, 1))
    BY <1>3, <2>2 DEF FlowFields
  <2>4. g.next \in Int
    BY <1>4, <1>5, <2>1, <2>3 DEF Small
  <2>5. QED BY <1>4, <2>3, <2>4 DEF Small
<1> HIDE DEF g
<1>7. Small(h) /\ Grew(g, h)
  <2>1. CASE len > 0
    <3>1. Bytes(off, len) \in Seq(Int)
      BY BytesAre
    <3>2. QED BY <1>5, <1>6, <2>1, <3>1, IntegrateSmall
  <2>2. CASE ~(len > 0)
    BY <1>4, <1>6, <2>2 DEF Grew
  <2>3. QED BY <2>1, <2>2
<1> HIDE DEF h
<1>8. /\ DOMAIN e = FlowFields /\ e.last = h.last /\ e.next = h.next /\ e.buf = h.buf
      /\ e.pending = h.pending
  BY <1>1, <1>7 DEF Noted, Small, FlowFields
<1>9. Small(e)
  BY <1>7, <1>8 DEF Small
<1>10. QED BY <1>3, <1>6, <1>7, <1>8, <1>9 DEF Grew

\* No flow holds more than it may, or has been silent for too long.
MemoryInv ==
    /\ maxFlow \in Caps /\ latest \in Int /\ DOMAIN flows \subseteq Flows
    /\ \A k \in DOMAIN flows : Small(flows[k]) /\ (Idle > 0 => latest - flows[k].last < Idle)

\* A flow that ends is handed over, when it held something.
Ended ==
    \A k \in DOMAIN flows \ DOMAIN flows' : flows[k].buf # <<>> =>
        \E e \in emitted' : e.key = k /\ Len(e.buf) >= Len(flows[k].buf)

LEMMA KnownSmall == ASSUME MemoryInv, NEW k \in Flows PROVE Small(Known(k)) /\ Capped
<1>1. maxFlow \in Nat
  BY ReassemblyAssumption DEF MemoryInv
<1>2. Small(NewFlow)
  <2> DEFINE f == NewFlow
  <2>1. DOMAIN f = FlowFields /\ f.next = 0 /\ f.last = 0 /\ f.buf = <<>> /\ f.pending = <<>>
    BY DEF NewFlow, FlowFields
  <2> HIDE DEF f
  <2>2. DOMAIN <<>> = {} /\ <<>> \in Seq(Int) /\ Len(<<>>) = 0
    OBVIOUS
  <2>3. IsFiniteSet({}) /\ Cardinality({}) = 0 /\ MaxPending \in Nat
    BY FS_EmptySet, ReassemblyAssumption
  <2>4. Small(f)
    BY <1>1, <2>1, <2>2, <2>3 DEF Small
  <2>5. QED BY <2>4 DEF f
<1>3. QED BY <1>1, <1>2 DEF MemoryInv, Known, Capped

\* A segment, in whatever order segments come.
LEMMA ConsumeMemory ==
    ASSUME MemoryInv, NEW k \in Flows, NEW off \in Nat, NEW len \in Nat, NEW syn \in BOOLEAN,
           NEW ends \in BOOLEAN, NEW ts \in Int, Consume(k, off, len, syn, ends, ts)
    PROVE  MemoryInv' /\ Ended
<1> DEFINE now == IF ts > latest THEN ts ELSE latest
           f == Arrived(k, off, len, syn, ts)
           kept == (DOMAIN flows \cup {k}) \ {j \in {k} : ends}
           fs == [j \in kept |-> IF j = k THEN f ELSE flows[j]]
           idle == IdleFlows(fs, now)
           gone == UNION {Carved(j, fs[j]) : j \in idle}
<1>1. /\ latest' = now
      /\ flows' = [j \in kept \ idle |-> fs[j]]
      /\ emitted' = (IF ends THEN Carved(k, f) ELSE {}) \cup gone
      /\ maxFlow' = maxFlow
  BY DEF Consume
<1>2. Small(f) /\ Len(Known(k).buf) <= Len(f.buf)
  BY KnownSmall, ArrivedSmall
<1>3. latest \in Int /\ maxFlow \in Caps /\ DOMAIN flows \subseteq Flows
      /\ \A j \in DOMAIN flows : Small(flows[j])
  BY DEF MemoryInv
<1>4. now \in Int /\ Idle \in Nat
  BY <1>3, ReassemblyAssumption
<1> HIDE DEF f, now
<1>5. DOMAIN fs = kept /\ (k \in kept => fs[k] = f)
      /\ \A j \in kept : j # k => j \in DOMAIN flows /\ fs[j] = flows[j]
  OBVIOUS
<1>6. kept \subseteq Flows /\ (k \in kept <=> ~ends) /\ \A j \in DOMAIN flows : j # k => j \in kept
  BY <1>3
<1> HIDE DEF kept, fs
<1>7. \A j \in kept : Small(fs[j])
  BY <1>2, <1>3, <1>5
<1>8. idle \subseteq kept /\ \A j \in kept \ idle : Idle > 0 => ~(now - fs[j].last >= Idle)
  BY <1>5 DEF IdleFlows
<1> HIDE DEF idle
<1>9. MemoryInv'
  <2>1. DOMAIN flows' = kept \ idle /\ \A j \in kept \ idle : flows'[j] = fs[j]
    BY <1>1
  <2>2. ASSUME NEW j \in kept \ idle
        PROVE  Small(flows[j])' /\ (Idle > 0 => latest' - flows'[j].last < Idle)
    <3> DEFINE g == fs[j]
    <3>1. flows'[j] = g /\ Small(g)
      BY <1>7, <2>1
    <3>2. g.last \in Int
      BY <3>1 DEF Small
    <3>3. Idle > 0 => latest' - g.last < Idle
      <4> DEFINE x == g.last
      <4>1. x \in Int /\ (Idle > 0 => ~(now - x >= Idle))
        BY <1>8, <3>2
      <4> HIDE DEF x
      <4>2. Idle > 0 => now - x < Idle
        BY <1>4, <4>1
      <4>3. QED BY <1>1, <4>2 DEF x
    <3> HIDE DEF g
    <3>4. Small(flows[j])'
      <4>1. \A h : Small(h) => Small(h)'
        BY <1>1 DEF Small
      <4>2. QED BY <3>1, <4>1
    <3>5. QED BY <3>1, <3>3, <3>4
  <2>3. maxFlow' \in Caps /\ latest' \in Int /\ DOMAIN flows' \subseteq Flows
    BY <1>1, <1>3, <1>4, <1>6, <2>1
  <2>4. QED BY <2>1, <2>2, <2>3 DEF MemoryInv
<1>10. Ended
  <2> SUFFICES ASSUME NEW j \in DOMAIN flows, j \notin DOMAIN flows', flows[j].buf # <<>>
               PROVE  \E e \in emitted' : e.key = j /\ Len(e.buf) >= Len(flows[j].buf)
    BY DEF Ended
  <2> DEFINE n == Len(flows[j].buf)
  <2>1. n \in Nat /\ n > 0 /\ flows[j].buf \in Seq(Int)
    <3>1. flows[j].buf \in Seq(Int)
      BY <1>3 DEF Small
    <3>2. QED BY <3>1, EmptySeq
  <2>2. j \notin kept \/ j \in idle
    BY <1>1
  \* What is carved of a flow that holds no less.
  <2>2a. ASSUME NEW g, Len(g.buf) \in Nat, Len(g.buf) >= n, Carved(j, g) \subseteq emitted'
         PROVE  \E e \in emitted' : e.key = j /\ Len(e.buf) >= n
    <3> HIDE DEF n
    <3>1. g.buf # <<>>
      <4>1. Len(<<>>) = 0
        OBVIOUS
      <4>2. QED BY <2>1, <2>2a, <4>1
    <3> DEFINE e == [key |-> j, buf |-> g.buf, overflow |-> g.overflow, base |-> g.base, seen |-> g.seen]
    <3>2. e \in Carved(j, g)
      BY <3>1 DEF Carved
    <3>3. e.key = j /\ e.buf = g.buf
      OBVIOUS
    <3> HIDE DEF e
    <3>4. QED BY <2>2a, <3>2, <3>3
  <2>3. CASE j = k
    <3>1. Known(k) = flows[j]
      BY <2>3 DEF Known
    <3>2. Len(f.buf) \in Nat /\ Len(f.buf) >= n
      BY <1>2, <2>1, <3>1 DEF Small
    <3>3. Carved(j, f) \subseteq emitted'
      <4>1. CASE ends
        BY <1>1, <2>3, <4>1
      <4>2. CASE ~ends
        <5>1. k \in idle /\ fs[k] = f
          BY <1>5, <1>6, <2>2, <2>3, <4>2
        <5>2. QED BY <1>1, <2>3, <5>1
      <4>3. QED BY <4>1, <4>2
    <3> HIDE DEF n
    <3>4. \E e \in emitted' : e.key = j /\ Len(e.buf) >= n
      BY <2>2a, <3>2, <3>3
    <3>5. QED BY <3>4 DEF n
  <2>4. CASE j # k
    <3>1. j \in idle /\ fs[j] = flows[j]
      BY <1>5, <1>6, <2>2, <2>4
    <3>2. Carved(j, flows[j]) \subseteq emitted'
      BY <1>1, <3>1
    <3>3. Len(flows[j].buf) \in Nat /\ Len(flows[j].buf) >= n
      BY <2>1
    <3> HIDE DEF n
    <3>4. \E e \in emitted' : e.key = j /\ Len(e.buf) >= n
      BY <2>2a, <3>2, <3>3
    <3>5. QED BY <3>4 DEF n
  <2>5. QED BY <2>3, <2>4
<1>11. QED BY <1>9, <1>10

LEMMA FlushMemory == ASSUME MemoryInv, Flush PROVE MemoryInv' /\ Ended
<1>1. flows' = <<>> /\ DOMAIN <<>> = {} /\ latest' = 0 /\ maxFlow' = maxFlow
      /\ emitted' = UNION {Carved(k, flows[k]) : k \in DOMAIN flows}
  BY DEF Flush
<1>2. MemoryInv'
  <2>1. DOMAIN flows' = {} /\ latest' \in Int /\ maxFlow' \in Caps
    BY <1>1 DEF MemoryInv
  <2>2. QED BY <2>1 DEF MemoryInv
<1>3. Ended
  <2> SUFFICES ASSUME NEW j \in DOMAIN flows, flows[j].buf # <<>>
               PROVE  \E e \in emitted' : e.key = j /\ Len(e.buf) >= Len(flows[j].buf)
    BY DEF Ended
  <2> DEFINE b == flows[j].buf
             e == [key |-> j, buf |-> b, overflow |-> flows[j].overflow,
                   base |-> flows[j].base, seen |-> flows[j].seen]
  <2>1. e \in Carved(j, flows[j])
    BY DEF Carved
  <2>2. e \in emitted'
    BY <1>1, <2>1
  <2>3. b \in Seq(Int)
    BY DEF MemoryInv, Small
  <2>4. Len(b) >= Len(b) /\ e.key = j /\ e.buf = b
    BY <2>3
  <2> HIDE DEF e
  <2>5. QED BY <2>2, <2>4
<1>4. QED BY <1>2, <1>3

LEMMA MemoryStep == ASSUME MemoryInv, Next PROVE MemoryInv' /\ Ended
<1>1. ASSUME NEW k \in Flows, NEW ts \in 1..MaxTime, NEW off \in Nat, NEW len \in Nat,
             NEW syn \in BOOLEAN, NEW ends \in BOOLEAN, Consume(k, off, len, syn, ends, ts)
      PROVE  MemoryInv' /\ Ended
  <2>1. ts \in Int
    OBVIOUS
  <2>2. QED BY <1>1, <2>1, ConsumeMemory
<1>2. ASSUME NEW k \in Flows, NEW ts \in 1..MaxTime, NEW s \in Segments, NEW fin \in BOOLEAN,
             Data(k, s, fin, ts)
      PROVE  MemoryInv' /\ Ended
  <2>1. Consume(k, s[1], s[2], FALSE, fin, ts)
    BY <1>2 DEF Data
  <2>2. s[1] \in Nat /\ s[2] \in Nat
    BY SegmentTypes
  <2>3. FALSE \in BOOLEAN
    OBVIOUS
  <2>4. QED BY <1>1, <2>1, <2>2, <2>3
<1>3. ASSUME NEW k \in Flows, NEW ts \in 1..MaxTime, Syn(k, ts) \/ Fin(k, ts) \/ Rst(k, ts)
      PROVE  MemoryInv' /\ Ended
  <2>1. \/ Consume(k, 0, 0, TRUE, FALSE, ts)
        \/ Consume(k, StreamLen, 0, FALSE, TRUE, ts)
        \/ Consume(k, 0, 0, FALSE, TRUE, ts)
    BY <1>3 DEF Syn, Fin, Rst
  <2>2. StreamLen \in Nat /\ 0 \in Nat
    BY ReassemblyAssumption
  <2>3. TRUE \in BOOLEAN /\ FALSE \in BOOLEAN
    OBVIOUS
  <2>4. QED BY <1>1, <2>1, <2>2, <2>3
<1>4. CASE Flush
  BY <1>4, FlushMemory
<1>5. QED BY <1>2, <1>3, <1>4 DEF Next

LEMMA MemoryInvariant == Spec => []MemoryInv
<1>1. Init => MemoryInv
  <2> SUFFICES ASSUME Init PROVE MemoryInv
    OBVIOUS
  <2>1. maxFlow \in Caps /\ flows = <<>> /\ latest = 0 /\ DOMAIN <<>> = {}
    BY DEF Init
  <2>2. QED BY <2>1 DEF MemoryInv
<1>2. MemoryInv /\ [Next]_vars => MemoryInv'
  <2>1. CASE Next
    BY <2>1, MemoryStep
  <2>2. CASE UNCHANGED vars
    BY <2>2 DEF vars, MemoryInv, Small
  <2>3. QED BY <2>1, <2>2
<1>3. QED BY <1>1, <1>2, PTL DEF Spec

\* What the reassembler holds is bounded by the cap and the number of waiting
\* segments of each flow, and a flow that has been silent for the idle window is
\* gone (appendInOrder, integrate, sweepIdle), whatever is captured.
THEOREM MemoryIsBounded == Spec => []MemoryBounded
<1>1. MemoryInv => MemoryBounded
  BY DEF MemoryInv, Small, MemoryBounded, Live
<1>2. QED BY <1>1, MemoryInvariant, PTL

\* A flow that goes away, by its FIN, a RST, the idle window or the end of the
\* capture, is handed over with all that its buffer held (consume, flush),
\* whatever is captured.
THEOREM NoFlowVanishes == Spec => EndedIsEmitted
<1> DEFINE Step == \A k \in Live \ Live' : flows[k].buf # <<>> =>
                      \E e \in emitted' : e.key = k /\ Len(e.buf) >= Len(flows[k].buf)
<1>1. MemoryInv /\ [Next]_vars => [Step]_vars
  <2>1. ASSUME MemoryInv, Next PROVE Step
    BY <2>1, MemoryStep DEF Ended, Live
  <2>2. QED BY <2>1
<1>2. Spec => [][Step]_vars
  BY <1>1, MemoryInvariant, PTL DEF Spec
<1>3. QED BY <1>2 DEF EndedIsEmitted
=============================================================================
