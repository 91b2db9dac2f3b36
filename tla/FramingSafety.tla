--------------------------- MODULE FramingSafety ---------------------------
(***************************************************************************)
(* The inductive invariants behind the properties of Framing and Sending,  *)
(* and their proofs, for any PDUs, reads, sends and sizes.                 *)
(*                                                                         *)
(* The buffer holds the bytes between the end of the last PDU that was     *)
(* given and the last byte that was read; whenever read_data reads or      *)
(* waits, the next PDU has not been read whole.  On the other side, the    *)
(* wire and _output hold what was accepted, and without interest in        *)
(* writing _output is empty.  What the operations of DataBuffer do to the  *)
(* data, the room and the memory is a lemma for each.                      *)
(***************************************************************************)
EXTENDS Sending, FiniteSetTheorems, SequenceTheorems, TLAPS

----------------------------------------------------------------------------
(* The invariants.                                                         *)

\* A buffer of members of S: the window lies in the memory.
IsBuffer(b, S) ==
  /\ b \in [mem : Seq(S), data : Nat, free : Nat]
  /\ b.data <= b.free /\ b.free <= Len(b.mem)

\* The buffer of the receiving side is one, over the bytes that have arrived
\* and those nothing was written to.
InputTyped == IsBuffer(input, 0 .. arrived)

\* The window begins behind the last PDU that was given.
Aligned == taken - DataLen(input) = Ends[Len(given)]

\* read_data reads with room, on a connection that is up.
Reading ==
  /\ pc # "wait" => error = "none"
  /\ pc = "read" => FreeLen(input) > 0
  /\ pc = "read" /\ reads = 0 /\ net = "up" => taken < arrived

\* Where nothing more can be parsed.
Parsed == \/ pc = "read"
          \/ pc = "wait" /\ error = "none"
          \/ pc = "check" /\ ~Malformed(pduLen)

\* There, the next PDU has not been taken from the socket whole.
NothingWhole == Parsed /\ Len(given) < Len(sent) => taken < Ends[Len(given) + 1]

\* Before a read, the buffer holds part of one PDU.
Short ==
  /\ pc = "check" /\ ~Malformed(pduLen) => DataLen(input) < pduLen
  /\ pc = "wait" /\ error = "none" => DataLen(input) <= BreakLen

Receiving ==
  /\ TypeOK /\ InputTyped /\ InOrder /\ Aligned /\ Whole
  /\ Reading /\ NothingWhole /\ Short /\ RemoteCloseTrue /\ BrokenWhileUp

\* Without interest in writing there is nothing left to write.
Idle == ~armed => DataLen(output) = 0

Delivering ==
  /\ IsBuffer(output, Nat) /\ wire \in Seq(Nat) /\ posted \in Nat /\ quota \in Nat
  /\ OutputWhole /\ Idle /\ GivenBack

\* What Bounded allows.
Longest == 2 * (BreakLen + ReadWriteSize + BreakLen \div 4)

\* The first allocation is not longer than that (256 bytes, and 8 MB).
FirstFits == FirstSize <= Longest

----------------------------------------------------------------------------
(* Induction and recursion over the naturals.                              *)

\* A set of naturals that is not empty has a least member: its initial segments
\* are finite, and strict inclusion of finite sets is well-founded.
LEMMA Least ==
  ASSUME NEW T \in SUBSET Nat, T # {}
  PROVE  \E x \in T : \A y \in T : ~ (y < x)
<1> DEFINE R == StrictSubsetOrdering(Nat)
           U == {0 .. x : x \in T}
           F == FiniteSubsetsOf(Nat)
<1>1. IsWellFoundedOn(R, F)
  BY FS_StrictSubsetOrderingWellFounded
<1>2. U \subseteq F
  <2> SUFFICES ASSUME NEW x \in Nat PROVE 0 .. x \in F
    OBVIOUS
  <2>1. IsFiniteSet(0 .. x)
    BY FS_Interval
  <2>2. QED
    BY <2>1 DEF FiniteSubsetsOf
<1>3. U # {}
  OBVIOUS
<1>4. ASSUME NEW x \in Nat, NEW y \in Nat, y < x
      PROVE  <<0 .. y, 0 .. x>> \in R
  <2>1. 0 .. y \subseteq 0 .. x /\ x \in 0 .. x /\ x \notin 0 .. y
    BY <1>4
  <2>2. QED
    BY <2>1 DEF StrictSubsetOrdering
<1> HIDE DEF R, F, U
<1>5. PICK u \in U : \A v \in U : <<v, u>> \notin R
  BY <1>1, <1>2, <1>3, WFMin
<1>6. PICK x \in T : u = 0 .. x
  BY DEF U
<1>7. QED
  BY <1>4, <1>5, <1>6 DEF U

\* A set that holds 0, and with each natural the next, holds them all.
LEMMA Induct ==
  ASSUME NEW S, 0 \in S, \A n \in Nat : n \in S => n + 1 \in S
  PROVE  Nat \subseteq S
<1> SUFFICES ASSUME Nat \ S # {} PROVE FALSE
  OBVIOUS
<1>1. PICK x \in Nat \ S : \A y \in Nat \ S : ~ (y < x)
  BY Least
<1>2. x # 0 /\ x - 1 \in Nat
  BY <1>1
<1>3. x - 1 \in S
  BY <1>1, <1>2
<1>4. QED
  BY <1>1, <1>2, <1>3

\* g computes the first n values of the recursion.
Computes(g, n, a, step) ==
  /\ g[0] = a
  /\ \A i \in 1 .. n : g[i] = step[<<i, g[i - 1]>>]

\* A recursion over 0 .. N has a solution.
LEMMA Recursion ==
  ASSUME NEW N \in Nat, NEW S, NEW a \in S, NEW step \in [Nat \X S -> S]
  PROVE  \E g \in [0 .. N -> S] : Computes(g, N, a, step)
<1> DEFINE Able(n) == \E g \in [0 .. n -> S] : Computes(g, n, a, step)
           T == {n \in Nat : Able(n)}
<1>1. 0 \in T
  <2> DEFINE g == [i \in 0 .. 0 |-> a]
  <2>1. g \in [0 .. 0 -> S] /\ Computes(g, 0, a, step)
    BY DEF Computes
  <2>2. QED
    BY <2>1
<1>2. ASSUME NEW n \in Nat, n \in T
      PROVE  n + 1 \in T
  <2>1. PICK g \in [0 .. n -> S] : Computes(g, n, a, step)
    BY <1>2
  <2> DEFINE h == [i \in 0 .. n + 1 |->
                     IF i = n + 1 THEN step[<<n + 1, g[n]>>] ELSE g[i]]
  <2>2. g[n] \in S /\ <<n + 1, g[n]>> \in Nat \X S
    OBVIOUS
  <2>3. h \in [0 .. n + 1 -> S]
    BY <2>2
  <2>4. h[0] = a
    BY <2>1 DEF Computes
  <2>5. ASSUME NEW i \in 1 .. n + 1
        PROVE  h[i] = step[<<i, h[i - 1]>>]
    <3>1. CASE i = n + 1
      <4>1. i - 1 = n /\ n \in 0 .. n + 1 /\ n # n + 1 /\ n + 1 \in 0 .. n + 1
        BY <3>1
      <4>2. h[n] = g[n] /\ h[n + 1] = step[<<n + 1, g[n]>>]
        BY <4>1
      <4> HIDE DEF h
      <4>3. QED
        BY <3>1, <4>1, <4>2
    <3>2. CASE i \in 1 .. n
      <4>1. h[i] = g[i] /\ h[i - 1] = g[i - 1]
        BY <3>2
      <4>2. QED
        BY <4>1, <3>2, <2>1 DEF Computes
    <3>3. QED
      BY <3>1, <3>2
  <2> HIDE DEF h
  <2>6. Computes(h, n + 1, a, step)
    BY <2>4, <2>5 DEF Computes
  <2>7. QED
    BY <2>3, <2>6
<1> HIDE DEF T
<1>3. N \in T
  BY <1>1, <1>2, Induct
<1>4. QED
  BY <1>3 DEF T

\* g computes all the values of the recursion.
ComputesAll(g, a, step) ==
  g[0] = a /\ \A i \in Nat \ {0} : g[i] = step[<<i, g[i - 1]>>]

\* A recursion over the naturals has a solution: the recursions over 0 .. n
\* agree where they overlap.
LEMMA RecursionOnNat ==
  ASSUME NEW S, NEW a \in S, NEW step \in [Nat \X S -> S]
  PROVE  \E g \in [Nat -> S] : ComputesAll(g, a, step)
<1> DEFINE Solves(h, n) == h \in [0 .. n -> S] /\ Computes(h, n, a, step)
           F(n) == CHOOSE h : Solves(h, n)
           g == [n \in Nat |-> F(n)[n]]
<1>1. \A n \in Nat : Solves(F(n), n)
  BY Recursion
<1> HIDE DEF F
<1>2. ASSUME NEW n \in Nat
      PROVE  F(n + 1)[n] = F(n)[n]
  <2> DEFINE h == F(n + 1)
             k == F(n)
             T == {i \in Nat : i <= n => h[i] = k[i]}
  <2>1. /\ h[0] = a /\ \A i \in 1 .. n + 1 : h[i] = step[<<i, h[i - 1]>>]
        /\ k[0] = a /\ \A i \in 1 .. n : k[i] = step[<<i, k[i - 1]>>]
    BY <1>1 DEF Computes
  <2> HIDE DEF h, k
  <2>2. 0 \in T
    BY <2>1
  <2>3. ASSUME NEW i \in Nat, i \in T
        PROVE  i + 1 \in T
    <3> SUFFICES ASSUME i + 1 <= n PROVE h[i + 1] = k[i + 1]
      OBVIOUS
    <3>1. h[i] = k[i] /\ i + 1 \in 1 .. n + 1 /\ i + 1 \in 1 .. n /\ (i + 1) - 1 = i
      BY <2>3
    <3>2. h[i + 1] = step[<<i + 1, h[i]>>] /\ k[i + 1] = step[<<i + 1, k[i]>>]
      BY <2>1, <3>1
    <3>3. QED
      BY <3>1, <3>2
  <2> HIDE DEF T
  <2>4. n \in T
    BY <2>2, <2>3, Induct
  <2>5. QED
    BY <2>4 DEF T, h, k
<1>3. g \in [Nat -> S]
  BY <1>1
<1>4. g[0] = a
  BY <1>1 DEF Computes
<1>5. ASSUME NEW i \in Nat \ {0}
      PROVE  g[i] = step[<<i, g[i - 1]>>]
  <2>1. i - 1 \in Nat /\ (i - 1) + 1 = i /\ i \in 1 .. i
    OBVIOUS
  <2>2. F(i)[i] = step[<<i, F(i)[i - 1]>>]
    BY <1>1, <2>1 DEF Computes
  <2>3. F(i)[i - 1] = F(i - 1)[i - 1]
    BY <1>2, <2>1
  <2>4. QED
    BY <2>1, <2>2, <2>3
<1> HIDE DEF g
<1>6. ComputesAll(g, a, step)
  BY <1>4, <1>5 DEF ComputesAll
<1>7. QED
  BY <1>3, <1>6

----------------------------------------------------------------------------
(* The ends of the PDUs.                                                   *)

\* A PDU takes the bytes of its header at least.
LEMMA WireTyped ==
  \A d \in Nat : Wire(d) \in Nat /\ Wire(d) >= HeaderLen /\ Wire(d) >= d /\ Wire(d) > 0
BY LimitsAssumption DEF Wire

\* Ends satisfies its definition, and its values are naturals.
LEMMA EndsAre ==
  ASSUME sent \in Seq(Nat)
  PROVE  /\ Ends \in [0 .. Len(sent) -> Nat]
         /\ Ends[0] = 0
         /\ \A i \in 1 .. Len(sent) : Ends[i] = Ends[i - 1] + Wire(sent[i])
<1> DEFINE step == [p \in Nat \X Nat |->
                      p[2] + (IF p[1] \in 1 .. Len(sent) THEN Wire(sent[p[1]]) ELSE 0)]
<1>1. Len(sent) \in Nat /\ \A i \in 1 .. Len(sent) : sent[i] \in Nat
  OBVIOUS
<1>2. step \in [Nat \X Nat -> Nat]
  <2>1. \A i \in 1 .. Len(sent) : Wire(sent[i]) \in Nat
    BY <1>1, WireTyped
  <2>2. QED
    BY <2>1
<1>3. \A i \in 1 .. Len(sent) : \A n \in Nat : step[<<i, n>>] = n + Wire(sent[i])
  BY <1>1
<1> HIDE DEF step
<1>4. PICK g \in [0 .. Len(sent) -> Nat] : Computes(g, Len(sent), 0, step)
  BY <1>1, <1>2, Recursion
<1>5. g = [i \in 0 .. Len(sent) |-> IF i = 0 THEN 0 ELSE g[i - 1] + Wire(sent[i])]
  <2>1. \A i \in 0 .. Len(sent) : g[i] = IF i = 0 THEN 0 ELSE g[i - 1] + Wire(sent[i])
    <3>1. \A i \in 1 .. Len(sent) : i - 1 \in 0 .. Len(sent)
      BY <1>1
    <3>2. \A i \in 1 .. Len(sent) : g[i - 1] \in Nat
      BY <3>1
    <3>3. g[0] = 0 /\ \A i \in 1 .. Len(sent) : g[i] = step[<<i, g[i - 1]>>]
      BY <1>4 DEF Computes
    <3>4. \A i \in 1 .. Len(sent) : g[i] = g[i - 1] + Wire(sent[i])
      BY <1>3, <3>2, <3>3
    <3>5. QED
      BY <1>1, <3>3, <3>4
  <2>2. QED
    BY <2>1
<1>6. Ends = [i \in 0 .. Len(sent) |-> IF i = 0 THEN 0 ELSE Ends[i - 1] + Wire(sent[i])]
  BY <1>5 DEF Ends
<1> DEFINE T == {n \in Nat : n <= Len(sent) => Ends[n] \in Nat}
<1>7. Ends[0] = 0 /\ \A i \in 1 .. Len(sent) : Ends[i] = Ends[i - 1] + Wire(sent[i])
  BY <1>1, <1>6, SMTT(30)
<1>8. 0 \in T
  BY <1>7
<1>a. ASSUME NEW n \in Nat, n \in T PROVE n + 1 \in T
  <2> SUFFICES ASSUME n + 1 \in 1 .. Len(sent) PROVE Ends[n + 1] \in Nat
    OBVIOUS
  <2>1. sent[n + 1] \in Nat /\ Ends[n + 1] = Ends[n] + Wire(sent[n + 1])
    BY <1>1, <1>7
  <2>2. Ends[n] \in Nat
    BY <1>1, <1>a
  <2>4. Wire(sent[n + 1]) \in Nat
    BY <2>1, WireTyped
  <2>3. QED
    BY <2>1, <2>2, <2>4
<1> HIDE DEF T
<1>9. Nat \subseteq T
  BY <1>8, <1>a, Induct
<1>10. \A i \in 0 .. Len(sent) : Ends[i] \in Nat
  BY <1>1, <1>9 DEF T
<1>11. QED
  BY <1>6, <1>7, <1>10

\* Each PDU ends behind the one before it.
LEMMA EndsGrow ==
  ASSUME sent \in Seq(Nat)
  PROVE  \A i, j \in 0 .. Len(sent) : i < j => Ends[i] < Ends[j]
<1> USE EndsAre
<1>1. Len(sent) \in Nat /\ \A i \in 1 .. Len(sent) : sent[i] \in Nat
  OBVIOUS
<1> SUFFICES ASSUME NEW i \in 0 .. Len(sent)
             PROVE  \A j \in 0 .. Len(sent) : i < j => Ends[i] < Ends[j]
  OBVIOUS
<1> DEFINE T == {n \in Nat : n \in i + 1 .. Len(sent) => Ends[i] < Ends[n]}
<1>2. 0 \in T
  OBVIOUS
<1>3. ASSUME NEW n \in Nat, n \in T PROVE n + 1 \in T
  <2> SUFFICES ASSUME n + 1 \in i + 1 .. Len(sent) PROVE Ends[i] < Ends[n + 1]
    OBVIOUS
  <2>1. Ends[n + 1] = Ends[n] + Wire(sent[n + 1]) /\ Ends[n] \in Nat
    BY <1>1
  <2>2. Wire(sent[n + 1]) > 0 /\ Wire(sent[n + 1]) \in Nat
    <3>1. sent[n + 1] \in Nat
      BY <1>1
    <3>2. QED
      BY <3>1, WireTyped
  <2>3. Ends[i] \in Nat /\ (n = i \/ Ends[i] < Ends[n])
    BY <1>3
  <2>4. QED
    BY <2>1, <2>2, <2>3
<1> HIDE DEF T
<1>4. Nat \subseteq T
  BY <1>2, <1>3, Induct
<1>5. QED
  BY <1>1, <1>4 DEF T

\* Ends is a function of what the peer sends.
LEMMA EndsStay ==
  ASSUME sent' = sent
  PROVE  Ends' = Ends
BY DEF Ends

----------------------------------------------------------------------------
(* The operations of DataBuffer.                                           *)

\* What expand allocates is enough, and at most twice what is needed unless it
\* is the size that was doubled.
LEMMA DoubledIs ==
  ASSUME NEW n \in Nat, n > 0, NEW need \in Nat
  PROVE  /\ Doubled(n, need) \in Nat
         /\ Doubled(n, need) >= need /\ Doubled(n, need) >= n
         /\ Doubled(n, need) = n \/ Doubled(n, need) < 2 * need
<1> DEFINE step == [p \in Nat \X Nat |-> IF p[2] < need THEN 2 * p[2] ELSE p[2]]
           Eq(D) == D = [k \in 0 .. need |->
                           IF k = 0 THEN n ELSE IF D[k - 1] < need THEN 2 * D[k - 1] ELSE D[k - 1]]
           D == CHOOSE D : Eq(D)
<1>1. step \in [Nat \X Nat -> Nat]
  OBVIOUS
<1>2. \A i, m \in Nat : step[<<i, m>>] = IF m < need THEN 2 * m ELSE m
  OBVIOUS
<1> HIDE DEF step
<1>3. PICK g \in [0 .. need -> Nat] : Computes(g, need, n, step)
  BY <1>1, Recursion
<1>4. Eq(g)
  <2>1. \A k \in 0 .. need : g[k] = IF k = 0 THEN n ELSE IF g[k - 1] < need THEN 2 * g[k - 1] ELSE g[k - 1]
    <3>1. \A k \in 1 .. need : k - 1 \in 0 .. need /\ g[k - 1] \in Nat /\ k \in Nat
      OBVIOUS
    <3>2. \A k \in 1 .. need : g[k] = step[<<k, g[k - 1]>>]
      BY <1>3 DEF Computes
    <3>3. \A k \in 1 .. need : g[k] = IF g[k - 1] < need THEN 2 * g[k - 1] ELSE g[k - 1]
      BY <1>2, <3>1, <3>2
    <3>4. QED
      BY <1>3, <3>3 DEF Computes
  <2>2. QED
    BY <2>1
<1>5. Eq(D)
  <2> HIDE DEF Eq
  <2>1. QED
    BY <1>4
<1>6. Doubled(n, need) = D[need]
  BY DEF Doubled
<1> HIDE DEF D
<1>7. D[0] = n /\ \A k \in 1 .. need : D[k] = IF D[k - 1] < need THEN 2 * D[k - 1] ELSE D[k - 1]
  BY <1>5
<1> DEFINE Good(k) == /\ D[k] \in Nat /\ D[k] >= n
                      /\ D[k] >= need \/ D[k] > k
                      /\ D[k] = n \/ D[k] < 2 * need
           T == {k \in Nat : k <= need => Good(k)}
<1>8. 0 \in T
  BY <1>7
<1>9. ASSUME NEW k \in Nat, k \in T PROVE k + 1 \in T
  <2> SUFFICES ASSUME k + 1 <= need PROVE Good(k + 1)
    OBVIOUS
  <2>1. Good(k) /\ D[k + 1] = IF D[k] < need THEN 2 * D[k] ELSE D[k]
    BY <1>7, <1>9
  <2>2. QED
    BY <2>1, SMTT(30)
<1> HIDE DEF T
<1>10. Nat \subseteq T
  BY <1>8, <1>9, Induct
<1>11. Good(need)
  BY <1>10 DEF T
<1>12. QED
  BY <1>6, <1>11

\* The window and what is free behind it.
LEMMA WindowIs ==
  ASSUME NEW S, NEW b, IsBuffer(b, S)
  PROVE  /\ DataLen(b) \in Nat /\ FreeLen(b) \in Nat
         /\ Data(b) \in Seq(S) /\ Len(Data(b)) = DataLen(b)
         /\ \A i \in 1 .. DataLen(b) : Data(b)[i] = b.mem[b.data + i]
<1>1. b.mem \in Seq(S) /\ b.data \in Nat /\ b.free \in Nat
      /\ b.data <= b.free /\ b.free <= Len(b.mem)
  BY DEF IsBuffer
<1> DEFINE m == b.mem  lo == b.data  hi == b.free
<1> HIDE DEF m, lo, hi
<1>2. m \in Seq(S) /\ lo \in Nat /\ hi \in Nat /\ lo <= hi /\ hi <= Len(m)
  BY <1>1 DEF m, lo, hi
<1>3. Len(m) \in Nat /\ \A i \in lo + 1 .. hi : m[i] \in S
  BY <1>2
<1>4. /\ SubSeq(m, lo + 1, hi) \in Seq(S)
      /\ Len(SubSeq(m, lo + 1, hi)) = IF lo + 1 <= hi THEN hi - (lo + 1) + 1 ELSE 0
      /\ \A i \in 1 .. hi - (lo + 1) + 1 : SubSeq(m, lo + 1, hi)[i] = m[lo + 1 + i - 1]
  BY <1>2, <1>3, SubSeqProperties
<1>5. /\ hi - lo \in Nat /\ Len(m) - hi \in Nat
      /\ Len(SubSeq(m, lo + 1, hi)) = hi - lo
      /\ \A i \in 1 .. hi - lo : SubSeq(m, lo + 1, hi)[i] = m[lo + i]
  BY <1>2, <1>3, <1>4
<1>6. QED
  BY <1>4, <1>5 DEF m, lo, hi, Data, DataLen, FreeLen

\* Memory that nothing was written to.
LEMMA JunkIs ==
  ASSUME NEW S, 0 \in S, NEW n \in Nat
  PROVE  /\ [i \in 1 .. n |-> Junk] \in Seq(S)
         /\ Len([i \in 1 .. n |-> Junk]) = n
BY DEF Junk

\* An allocation holds what was copied into it, and has the size it was given.
LEMMA FreshIs ==
  ASSUME NEW S, 0 \in S, NEW d \in Seq(S), NEW n \in Nat, Len(d) <= n
  PROVE  /\ IsBuffer(Fresh(d, n), S)
         /\ Data(Fresh(d, n)) = d
         /\ DataLen(Fresh(d, n)) = Len(d)
         /\ FreeLen(Fresh(d, n)) = n - Len(d)
         /\ Len(Fresh(d, n).mem) = n
<1> DEFINE z == [i \in 1 .. n - Len(d) |-> Junk]
           m == d \o z
<1>1. Len(d) \in Nat /\ n - Len(d) \in Nat
  OBVIOUS
<1>2. z \in Seq(S) /\ Len(z) = n - Len(d)
  BY <1>1, JunkIs
<1> HIDE DEF z
<1>3. m \in Seq(S) /\ Len(m) = n
      /\ \A i \in 1 .. Len(d) : m[i] = d[i]
  BY <1>1, <1>2, ConcatProperties
<1>4. Fresh(d, n) = [mem |-> m, data |-> 0, free |-> Len(d)]
  BY DEF Fresh, z
<1> HIDE DEF m
<1>5. SubSeq(m, 1, Len(d)) = d
  <2>1. \A i \in 1 .. Len(d) : m[i] \in S
    BY <1>1, <1>3
  <2>2. /\ SubSeq(m, 1, Len(d)) \in Seq(S)
        /\ Len(SubSeq(m, 1, Len(d))) = IF 1 <= Len(d) THEN Len(d) - 1 + 1 ELSE 0
        /\ \A i \in 1 .. Len(d) - 1 + 1 : SubSeq(m, 1, Len(d))[i] = m[1 + i - 1]
    BY <1>1, <2>1, SubSeqProperties
  <2>3. Len(SubSeq(m, 1, Len(d))) = Len(d)
        /\ \A i \in 1 .. Len(d) : SubSeq(m, 1, Len(d))[i] = d[i]
    BY <1>1, <1>3, <2>2
  <2>4. QED
    BY <2>2, <2>3, SeqEqual
<1>6. QED
  BY <1>1, <1>3, <1>4, <1>5 DEF IsBuffer, Data, DataLen, FreeLen

\* The first allocation holds nothing.
LEMMA FreshEmptyIs ==
  ASSUME NEW S, 0 \in S, NEW n \in Nat
  PROVE  /\ IsBuffer(Fresh(<<>>, n), S)
         /\ Data(Fresh(<<>>, n)) = <<>>
         /\ DataLen(Fresh(<<>>, n)) = 0
         /\ FreeLen(Fresh(<<>>, n)) = n
         /\ Len(Fresh(<<>>, n).mem) = n
<1> DEFINE d == <<>>
<1>1. d \in Seq(S) /\ Len(d) = 0
  BY EmptySeq
<1> HIDE DEF d
<1>2. Len(d) <= n /\ n - Len(d) = n
  BY <1>1
<1>3. /\ IsBuffer(Fresh(d, n), S) /\ Data(Fresh(d, n)) = d
      /\ DataLen(Fresh(d, n)) = Len(d) /\ FreeLen(Fresh(d, n)) = n - Len(d)
      /\ Len(Fresh(d, n).mem) = n
  BY <1>1, <1>2, FreshIs
<1>4. QED
  BY <1>1, <1>2, <1>3 DEF d

\* A buffer begins without memory.
LEMMA EmptyIs ==
  ASSUME NEW S
  PROVE  IsBuffer(Empty, S) /\ DataLen(Empty) = 0 /\ Empty.mem = <<>>
         /\ Data(Empty) = <<>> /\ Len(Empty.mem) = 0
<1>1. SubSeq(<<>>, 1, 0) = <<>>
  BY SubSeqEmpty
<1>2. QED
  BY <1>1, EmptySeq DEF Empty, IsBuffer, DataLen, Data

\* Moving the data to the beginning changes none of it, and joins what is free.
LEMMA MovedIs ==
  ASSUME NEW S, NEW b, IsBuffer(b, S)
  PROVE  /\ IsBuffer(Moved(b), S)
         /\ Data(Moved(b)) = Data(b)
         /\ DataLen(Moved(b)) = DataLen(b)
         /\ FreeLen(Moved(b)) = FreeLen(b) + b.data
         /\ Len(Moved(b).mem) = Len(b.mem)
<1> DEFINE d == Data(b)
           n == DataLen(b)
           r == SubSeq(b.mem, n + 1, Len(b.mem))
           m == d \o r
<1>1. n \in Nat /\ d \in Seq(S) /\ Len(d) = n
  BY WindowIs
<1>2. b.mem \in Seq(S) /\ Len(b.mem) \in Nat /\ n <= Len(b.mem)
      /\ b.data \in Nat /\ b.free \in Nat /\ FreeLen(b) + b.data = Len(b.mem) - n
  BY LenProperties DEF IsBuffer, DataLen, FreeLen
<1>3. Moved(b) = [mem |-> m, data |-> 0, free |-> n]
  BY DEF Moved
<1> HIDE DEF d, n
<1>4. r \in Seq(S) /\ Len(r) = Len(b.mem) - n
  <2>1. \A i \in n + 1 .. Len(b.mem) : b.mem[i] \in S
    BY <1>1, <1>2
  <2>2. r \in Seq(S)
        /\ Len(r) = IF n + 1 <= Len(b.mem) THEN Len(b.mem) - (n + 1) + 1 ELSE 0
    BY <1>1, <1>2, <2>1, SubSeqProperties
  <2> HIDE DEF r
  <2>3. QED
    BY <1>1, <1>2, <2>2
<1> HIDE DEF r
<1>5. m \in Seq(S) /\ Len(m) = Len(b.mem)
      /\ \A i \in 1 .. n : m[i] = d[i]
  <2>1. /\ m \in Seq(S)
        /\ Len(m) = Len(d) + Len(r)
        /\ \A i \in 1 .. Len(d) + Len(r) : m[i] = IF i <= Len(d) THEN d[i] ELSE r[i - Len(d)]
    BY <1>1, <1>4, ConcatProperties
  <2> HIDE DEF m
  <2>2. QED
    BY <1>1, <1>2, <1>4, <2>1
<1> HIDE DEF m
<1>6. SubSeq(m, 1, n) = d
  <2>1. \A i \in 1 .. n : m[i] \in S
    BY <1>1, <1>2, <1>5
  <2>2. /\ SubSeq(m, 1, n) \in Seq(S)
        /\ Len(SubSeq(m, 1, n)) = IF 1 <= n THEN n - 1 + 1 ELSE 0
        /\ \A i \in 1 .. n - 1 + 1 : SubSeq(m, 1, n)[i] = m[1 + i - 1]
    BY <1>1, <2>1, SubSeqProperties
  <2>3. Len(SubSeq(m, 1, n)) = n
        /\ \A i \in 1 .. n : SubSeq(m, 1, n)[i] = d[i]
    BY <1>1, <1>5, <2>2
  <2>4. QED
    BY <1>1, <2>2, <2>3, SeqEqual
<1>7. IsBuffer(Moved(b), S) /\ Len(Moved(b).mem) = Len(b.mem)
  BY <1>1, <1>2, <1>3, <1>5 DEF IsBuffer
<1>8. Data(Moved(b)) = d /\ DataLen(Moved(b)) = n
      /\ FreeLen(Moved(b)) = Len(b.mem) - n
  BY <1>1, <1>2, <1>3, <1>5, <1>6 DEF Data, DataLen, FreeLen
<1>9. QED
  BY <1>2, <1>7, <1>8 DEF d, n

\* A window that is used up goes back to the beginning.
LEMMA ResetIs ==
  ASSUME NEW S, NEW b \in [mem : Seq(S), data : Nat, free : Nat]
  PROVE  /\ [b EXCEPT !.data = 0, !.free = 0] \in [mem : Seq(S), data : Nat, free : Nat]
         /\ [b EXCEPT !.data = 0, !.free = 0].mem = b.mem
         /\ [b EXCEPT !.data = 0, !.free = 0].data = 0
         /\ [b EXCEPT !.data = 0, !.free = 0].free = 0
OBVIOUS

\* A window whose beginning moves.
LEMMA SkipIs ==
  ASSUME NEW S, NEW b \in [mem : Seq(S), data : Nat, free : Nat], NEW n \in Nat
  PROVE  /\ [b EXCEPT !.data = n] \in [mem : Seq(S), data : Nat, free : Nat]
         /\ [b EXCEPT !.data = n].mem = b.mem
         /\ [b EXCEPT !.data = n].data = n
         /\ [b EXCEPT !.data = n].free = b.free
OBVIOUS

\* drainData takes the first n bytes of the data, and no memory.
LEMMA DrainIs ==
  ASSUME NEW S, NEW b, IsBuffer(b, S), NEW n \in 0 .. DataLen(b)
  PROVE  /\ IsBuffer(Drain(b, n), S)
         /\ Data(Drain(b, n)) = SubSeq(Data(b), n + 1, DataLen(b))
         /\ DataLen(Drain(b, n)) = DataLen(b) - n
         /\ Drain(b, n).mem = b.mem
<1> DEFINE d == Drain(b, n)
           rest == SubSeq(Data(b), n + 1, DataLen(b))
<1>1. /\ b \in [mem : Seq(S), data : Nat, free : Nat]
      /\ b.mem \in Seq(S) /\ b.data \in Nat /\ b.free \in Nat
      /\ b.data <= b.free /\ b.free <= Len(b.mem)
  BY DEF IsBuffer
<1>2. DataLen(b) \in Nat /\ DataLen(b) = b.free - b.data /\ n \in Nat /\ n <= DataLen(b)
  BY WindowIs DEF DataLen
<1>3. /\ Data(b) \in Seq(S) /\ Len(Data(b)) = DataLen(b)
      /\ \A i \in 1 .. DataLen(b) : Data(b)[i] = b.mem[b.data + i] /\ Data(b)[i] \in S
  BY WindowIs, ElementOfSeq
<1>4. /\ rest \in Seq(S)
      /\ Len(rest) = DataLen(b) - n
      /\ \A i \in 1 .. DataLen(b) - n : rest[i] = b.mem[b.data + n + i]
  <2>1. \A i \in n + 1 .. DataLen(b) : Data(b)[i] \in S
    BY <1>2, <1>3
  <2>2. /\ rest \in Seq(S)
        /\ Len(rest) = IF n + 1 <= DataLen(b) THEN DataLen(b) - (n + 1) + 1 ELSE 0
        /\ \A i \in 1 .. DataLen(b) - (n + 1) + 1 : rest[i] = Data(b)[n + 1 + i - 1]
    BY <1>2, <2>1, SubSeqProperties
  <2> HIDE DEF rest
  <2>3. ASSUME NEW i \in 1 .. DataLen(b) - n
        PROVE  rest[i] = b.mem[b.data + n + i]
    <3>1. n + i \in 1 .. DataLen(b) /\ n + 1 + i - 1 = n + i
          /\ i \in 1 .. DataLen(b) - (n + 1) + 1
      BY <1>2
    <3>2. rest[i] = Data(b)[n + i]
      BY <2>2, <3>1
    <3>3. Data(b)[n + i] = b.mem[b.data + (n + i)]
      BY <1>3, <3>1
    <3>4. QED
      BY <1>1, <1>2, <3>2, <3>3
  <2>4. QED
    BY <1>2, <2>2, <2>3
<1> HIDE DEF rest
<1>5. /\ IsBuffer(d, S) /\ d.mem = b.mem /\ DataLen(d) = DataLen(b) - n
      /\ d.data = b.data + n \/ DataLen(b) - n = 0
  <2>1. CASE b.data + n >= b.free
    <3>1. d = [b EXCEPT !.data = 0, !.free = 0] /\ DataLen(b) - n = 0
      BY <1>1, <1>2, <2>1 DEF Drain
    <3>2. d \in [mem : Seq(S), data : Nat, free : Nat]
          /\ d.mem = b.mem /\ d.data = 0 /\ d.free = 0
      <4> HIDE DEF d
      <4>1. QED
        BY <1>1, <3>1, ResetIs
    <3>3. QED
      BY <1>1, <3>1, <3>2 DEF IsBuffer, DataLen
  <2>2. CASE ~ (b.data + n >= b.free)
    <3> DEFINE w == b.data + n
    <3>1. d = [b EXCEPT !.data = w] /\ w \in Nat
      BY <1>1, <1>2, <2>2 DEF Drain
    <3> HIDE DEF d, w
    <3>2. d \in [mem : Seq(S), data : Nat, free : Nat]
          /\ d.mem = b.mem /\ d.data = w /\ d.free = b.free
      BY <1>1, <3>1, SkipIs
    <3> USE DEF w
    <3> HIDE DEF d
    <3>3. d.data <= d.free /\ d.free <= Len(d.mem) /\ d.free - d.data = DataLen(b) - n
      BY <1>1, <1>2, <2>2, <3>2
    <3>4. QED
      BY <3>2, <3>3 DEF IsBuffer, DataLen
  <2>3. QED
    BY <2>1, <2>2
<1> HIDE DEF d
<1>6. Data(d) = rest
  <2>1. /\ Data(d) \in Seq(S) /\ Len(Data(d)) = DataLen(d)
        /\ \A i \in 1 .. DataLen(d) : Data(d)[i] = d.mem[d.data + i]
    BY <1>5, WindowIs
  <2>2. \A i \in 1 .. DataLen(b) - n : Data(d)[i] = rest[i]
    BY <1>2, <1>4, <1>5, <2>1
  <2>3. QED
    BY <1>4, <1>5, <2>1, <2>2, SeqEqual
<1>7. QED
  BY <1>5, <1>6 DEF d, rest

\* What is poured into the free part follows the data.
LEMMA PourIs ==
  ASSUME NEW S, NEW b, IsBuffer(b, S), NEW s \in Seq(S), Len(s) <= FreeLen(b)
  PROVE  /\ IsBuffer(Pour(b, s), S)
         /\ Data(Pour(b, s)) = Data(b) \o s
         /\ DataLen(Pour(b, s)) = DataLen(b) + Len(s)
         /\ FreeLen(Pour(b, s)) = FreeLen(b) - Len(s)
         /\ Len(Pour(b, s).mem) = Len(b.mem)
<1> DEFINE m == b.mem
           hi == b.free
           k == Len(s)
           front == SubSeq(m, 1, hi)
           back == SubSeq(m, hi + k + 1, Len(m))
           new == front \o s \o back
           p == Pour(b, s)
<1>1. /\ b \in [mem : Seq(S), data : Nat, free : Nat]
      /\ m \in Seq(S) /\ b.data \in Nat /\ hi \in Nat /\ k \in Nat
      /\ b.data <= hi /\ hi + k <= Len(m) /\ Len(m) \in Nat
  BY DEF IsBuffer, FreeLen
<1>2. p = [b EXCEPT !.mem = new, !.free = hi + k]
  BY DEF Pour
<1>3. /\ front \in Seq(S) /\ Len(front) = hi
      /\ \A i \in 1 .. hi : front[i] = m[i]
  <2> HIDE DEF m, hi, k
  <2>1. \A i \in 1 .. hi : m[i] \in S
    BY <1>1
  <2>2. /\ front \in Seq(S)
        /\ Len(front) = IF 1 <= hi THEN hi - 1 + 1 ELSE 0
        /\ \A i \in 1 .. hi - 1 + 1 : front[i] = m[1 + i - 1]
    BY <1>1, <2>1, SubSeqProperties
  <2> HIDE DEF front
  <2>3. QED
    BY <1>1, <2>2
<1>4. /\ back \in Seq(S) /\ Len(back) = Len(m) - (hi + k)
  <2> HIDE DEF m, hi, k
  <2>1. \A i \in hi + k + 1 .. Len(m) : m[i] \in S
    BY <1>1
  <2>2. /\ back \in Seq(S)
        /\ Len(back) = IF hi + k + 1 <= Len(m) THEN Len(m) - (hi + k + 1) + 1 ELSE 0
    BY <1>1, <2>1, SubSeqProperties
  <2> HIDE DEF back
  <2>3. QED
    BY <1>1, <2>2
<1> HIDE DEF front, back
<1>5. /\ new \in Seq(S) /\ Len(new) = Len(m)
      /\ \A i \in 1 .. hi : new[i] = m[i]
      /\ \A i \in 1 .. k : new[hi + i] = s[i]
  <2> HIDE DEF m, hi
  <2>1. /\ front \o s \in Seq(S) /\ Len(front \o s) = hi + k
        /\ \A i \in 1 .. hi + k : (front \o s)[i] = IF i <= hi THEN front[i] ELSE s[i - hi]
    BY <1>1, <1>3, ConcatProperties
  <2> DEFINE t == front \o s
  <2> HIDE DEF t, k
  <2>2. /\ t \o back \in Seq(S) /\ Len(t \o back) = Len(t) + Len(back)
        /\ \A i \in 1 .. Len(t) + Len(back) : (t \o back)[i] = IF i <= Len(t) THEN t[i] ELSE back[i - Len(t)]
    BY <1>4, <2>1, ConcatProperties DEF t
  <2>3. Len(t) = hi + k
        /\ \A i \in 1 .. hi + k : t[i] = IF i <= hi THEN front[i] ELSE s[i - hi]
    BY <2>1 DEF t
  <2>9. Len(t) + Len(back) = Len(m)
    BY <1>1, <1>4, <2>3
  <2>4. new = t \o back
    BY DEF t
  <2> HIDE DEF new
  <2>5. \A i \in 1 .. hi + k : new[i] = t[i]
    BY <1>1, <1>4, <2>2, <2>3, <2>4
  <2>6. \A i \in 1 .. hi : new[i] = m[i]
    BY <1>1, <1>3, <2>3, <2>5
  <2>7. ASSUME NEW i \in 1 .. k
        PROVE  new[hi + i] = s[i]
    <3>1. hi + i \in 1 .. hi + k /\ ~ (hi + i <= hi) /\ (hi + i) - hi = i
      BY <1>1
    <3>2. new[hi + i] = t[hi + i] /\ t[hi + i] = s[(hi + i) - hi]
      BY <2>3, <2>5, <3>1
    <3>3. QED
      BY <3>1, <3>2
  <2>8. QED
    BY <2>2, <2>4, <2>6, <2>7, <2>9
<1> HIDE DEF new
<1>6. p.mem = new /\ p.data = b.data /\ p.free = hi + k
      /\ p \in [mem : Seq(S), data : Nat, free : Nat]
  <2> DEFINE h == hi + k
  <2>1. h \in Nat
    BY <1>1
  <2>2. p = [b EXCEPT !.mem = new, !.free = h]
    BY <1>2
  <2> HIDE DEF h, p
  <2>3. p.mem = new /\ p.data = b.data /\ p.free = h
        /\ p \in [mem : Seq(S), data : Nat, free : Nat]
    BY <1>1, <1>5, <2>1, <2>2
  <2>4. QED
    BY <2>3 DEF h
<1> HIDE DEF p
<1>7. IsBuffer(p, S) /\ Len(p.mem) = Len(m)
  BY <1>1, <1>5, <1>6 DEF IsBuffer
<1>8. DataLen(p) = DataLen(b) + k /\ FreeLen(p) = FreeLen(b) - k
  BY <1>1, <1>6, <1>7 DEF DataLen, FreeLen
<1>9. Data(p) = Data(b) \o s
  <2>1. /\ Data(b) \in Seq(S) /\ Len(Data(b)) = DataLen(b) /\ DataLen(b) \in Nat
        /\ \A i \in 1 .. DataLen(b) : Data(b)[i] = m[b.data + i]
    BY WindowIs
  <2>2. /\ Data(p) \in Seq(S) /\ Len(Data(p)) = DataLen(p)
        /\ \A i \in 1 .. DataLen(p) : Data(p)[i] = new[b.data + i]
    BY <1>6, <1>7, WindowIs
  <2>3. /\ Data(b) \o s \in Seq(S) /\ Len(Data(b) \o s) = Len(Data(b)) + k
        /\ \A i \in 1 .. Len(Data(b)) + k :
             (Data(b) \o s)[i] = IF i <= Len(Data(b)) THEN Data(b)[i] ELSE s[i - Len(Data(b))]
    BY <2>1, ConcatProperties
  <2>4. DataLen(b) = hi - b.data
    BY DEF DataLen
  <2>5. ASSUME NEW i \in 1 .. DataLen(p)
        PROVE  Data(p)[i] = (Data(b) \o s)[i]
    <3> HIDE DEF m, hi, k
    <3>1. CASE i <= DataLen(b)
      <4>1. b.data + i \in 1 .. hi /\ i \in 1 .. DataLen(b) /\ i \in 1 .. Len(Data(b)) + k
        BY <1>1, <2>1, <2>4, <3>1
      <4>2. Data(p)[i] = m[b.data + i]
        BY <1>5, <2>2, <4>1
      <4>3. (Data(b) \o s)[i] = m[b.data + i]
        BY <2>1, <2>3, <3>1, <4>1
      <4>4. QED
        BY <4>2, <4>3
    <3>2. CASE i > DataLen(b)
      <4> DEFINE j == i - DataLen(b)
      <4>1. j \in 1 .. k /\ b.data + i = hi + j /\ i \in 1 .. Len(Data(b)) + k
            /\ ~ (i <= Len(Data(b))) /\ i - Len(Data(b)) = j
        BY <1>1, <1>8, <2>1, <2>4, <3>2, SMTT(30)
      <4> HIDE DEF j
      <4>2. Data(p)[i] = s[j]
        BY <1>5, <2>2, <4>1
      <4>3. (Data(b) \o s)[i] = s[j]
        BY <2>3, <4>1
      <4>4. QED
        BY <4>2, <4>3
    <3>3. QED
      <4>1. i <= DataLen(b) \/ i > DataLen(b)
        BY <1>1, <1>8, <2>1
      <4>2. QED
        BY <3>1, <3>2, <4>1
  <2>6. QED
    BY <1>8, <2>1, <2>2, <2>3, <2>5, SeqEqual
<1>10. QED
  BY <1>7, <1>8, <1>9 DEF p, m, k

\* shrink changes none of the data, and gives a large allocation back when the
\* data fits into the small one.
LEMMA ShrinkIs ==
  ASSUME NEW S, 0 \in S, NEW b, IsBuffer(b, S)
  PROVE  /\ IsBuffer(Shrink(b), S)
         /\ Data(Shrink(b)) = Data(b)
         /\ DataLen(Shrink(b)) = DataLen(b)
         /\ Len(Shrink(b).mem) <= Len(b.mem)
         /\ DataLen(b) <= MaxBufferSize => Len(Shrink(b).mem) <= MaxBufferSize
<1>1. Data(b) \in Seq(S) /\ Len(Data(b)) = DataLen(b) /\ DataLen(b) \in Nat
      /\ Len(b.mem) \in Nat /\ MaxBufferSize \in Nat
  BY WindowIs, LenProperties, SizesAssumption DEF IsBuffer
<1>2. CASE Len(b.mem) <= MaxBufferSize \/ DataLen(b) > MaxBufferSize
  BY <1>1, <1>2 DEF Shrink
<1>3. CASE ~ (Len(b.mem) <= MaxBufferSize \/ DataLen(b) > MaxBufferSize)
  <2>1. Shrink(b) = Fresh(Data(b), MaxBufferSize)
    BY <1>3 DEF Shrink
  <2>2. Len(Data(b)) <= MaxBufferSize
    BY <1>1, <1>3
  <2>3. /\ IsBuffer(Fresh(Data(b), MaxBufferSize), S)
        /\ Data(Fresh(Data(b), MaxBufferSize)) = Data(b)
        /\ DataLen(Fresh(Data(b), MaxBufferSize)) = Len(Data(b))
        /\ Len(Fresh(Data(b), MaxBufferSize).mem) = MaxBufferSize
    BY <1>1, <2>2, FreshIs
  <2>4. QED
    BY <1>1, <1>3, <2>1, <2>3
<1>4. QED
  BY <1>2, <1>3

\* expand changes none of the data, makes room for what is asked, and allocates
\* no more than this.
LEMMA ExpandIs ==
  ASSUME NEW S, 0 \in S, NEW b, IsBuffer(b, S), NEW need \in Nat
  PROVE  /\ IsBuffer(Expand(b, need), S)
         /\ Data(Expand(b, need)) = Data(b)
         /\ DataLen(Expand(b, need)) = DataLen(b)
         /\ FreeLen(Expand(b, need)) >= need
         /\ \/ Len(Expand(b, need).mem) <= Len(b.mem)
            \/ Len(Expand(b, need).mem) = FirstSize
            \/ Len(Expand(b, need).mem) < 2 * (need + DataLen(b))
            \/ 2 * Len(Expand(b, need).mem) < 5 * DataLen(b)
<1> DEFINE room == FreeLen(b) + b.data
           e == Expand(b, need)
<1>1. /\ Data(b) \in Seq(S) /\ Len(Data(b)) = DataLen(b)
      /\ DataLen(b) \in Nat /\ FreeLen(b) \in Nat /\ b.data \in Nat
      /\ b.mem \in Seq(S) /\ Len(b.mem) \in Nat
      /\ room = Len(b.mem) - DataLen(b)
  <2>1. b.mem \in Seq(S) /\ Len(b.mem) \in Nat /\ b.data \in Nat /\ b.free \in Nat
    BY LenProperties DEF IsBuffer
  <2>2. room = Len(b.mem) - DataLen(b)
    BY <2>1 DEF FreeLen, DataLen
  <2>3. QED
    BY <2>1, <2>2, WindowIs
<1> HIDE DEF room
<1>2. CASE b.mem = <<>>
  <2> DEFINE n == Doubled(FirstSize, need)
  <2>1. e = Fresh(<<>>, n)
    BY <1>2 DEF Expand
  <2>2. n \in Nat /\ n >= need /\ (n = FirstSize \/ n < 2 * need)
    BY SizesAssumption, DoubledIs
  <2> HIDE DEF n
  <2>3. <<>> \in Seq(S) /\ Len(<<>>) = 0 /\ Len(b.mem) = 0
    BY <1>2, EmptySeq
  <2>4. DataLen(b) = 0 /\ Data(b) = <<>>
    <3>1. DataLen(b) = 0
      BY <1>1, <2>3 DEF IsBuffer, DataLen
    <3>2. QED
      BY <1>1, <3>1, EmptySeq
  <2>5. /\ IsBuffer(Fresh(<<>>, n), S) /\ Data(Fresh(<<>>, n)) = <<>>
        /\ DataLen(Fresh(<<>>, n)) = 0 /\ FreeLen(Fresh(<<>>, n)) = n
        /\ Len(Fresh(<<>>, n).mem) = n
    BY <2>2, FreshEmptyIs
  <2>6. QED
    BY <2>1, <2>2, <2>4, <2>5
<1>3. CASE b.mem # <<>> /\ FreeLen(b) >= need
  <2>1. e = b
    BY <1>1, <1>3 DEF Expand, room
  <2>2. QED
    BY <1>1, <1>3, <2>1
<1>4. CASE b.mem # <<>> /\ FreeLen(b) < need /\ (room < need \/ room * 4 < DataLen(b))
  <2> DEFINE least == need + DataLen(b)
             n == Doubled(2 * Len(b.mem), least)
  <2>1. e = Fresh(Data(b), n)
    BY <1>1, <1>4 DEF Expand, room
  <2>2. least \in Nat /\ 2 * Len(b.mem) \in Nat /\ 2 * Len(b.mem) > 0
    <3>1. Len(b.mem) # 0
      BY <1>1, <1>4, EmptySeq
    <3>2. QED
      BY <1>1, <3>1
  <2>3. n \in Nat /\ n >= least /\ (n = 2 * Len(b.mem) \/ n < 2 * least)
    BY <2>2, DoubledIs
  <2> HIDE DEF n
  <2>4. Len(Data(b)) <= n
    BY <1>1, <2>3
  <2>5. /\ IsBuffer(Fresh(Data(b), n), S) /\ Data(Fresh(Data(b), n)) = Data(b)
        /\ DataLen(Fresh(Data(b), n)) = Len(Data(b))
        /\ FreeLen(Fresh(Data(b), n)) = n - Len(Data(b))
        /\ Len(Fresh(Data(b), n).mem) = n
    BY <1>1, <2>3, <2>4, FreshIs
  <2>6. n - DataLen(b) >= need
    BY <1>1, <2>3
  <2>7. n < 2 * (need + DataLen(b)) \/ 2 * n < 5 * DataLen(b)
    BY <1>1, <1>4, <2>3, SMTT(30)
  <2>8. QED
    BY <1>1, <2>1, <2>5, <2>6, <2>7
<1>5. CASE b.mem # <<>> /\ FreeLen(b) < need /\ ~ (room < need \/ room * 4 < DataLen(b))
  <2>1. e = Moved(b)
    BY <1>1, <1>5 DEF Expand, room
  <2>2. room >= need
    BY <1>1, <1>5
  <2>3. /\ IsBuffer(e, S) /\ Data(e) = Data(b) /\ DataLen(e) = DataLen(b)
        /\ FreeLen(e) = room /\ Len(e.mem) = Len(b.mem)
    BY <2>1, MovedIs DEF room
  <2> HIDE DEF e
  <2>4. QED
    BY <1>1, <2>2, <2>3 DEF e
<1>6. QED
  <2>1. FreeLen(b) >= need \/ FreeLen(b) < need
    BY <1>1
  <2>2. QED
    BY <1>2, <1>3, <1>4, <1>5, <2>1

----------------------------------------------------------------------------
(* The sending side.                                                       *)

\* The bytes of the stream behind the first n.
LEMMA RampIs ==
  ASSUME NEW n \in Nat, NEW m \in Nat
  PROVE  /\ [i \in 1 .. m |-> n + i] \in Seq(Nat)
         /\ Len([i \in 1 .. m |-> n + i]) = m
OBVIOUS

\* The first n bytes of the stream.
LEMMA SentIs ==
  ASSUME NEW n \in Nat
  PROVE  /\ [i \in 1 .. n |-> i] \in Seq(Nat)
         /\ Len([i \in 1 .. n |-> i]) = n
OBVIOUS

\* What is sent next follows what was sent.
LEMMA RampGrows ==
  ASSUME NEW n \in Nat, NEW m \in Nat
  PROVE  [i \in 1 .. n |-> i] \o [i \in 1 .. m |-> n + i] = [i \in 1 .. n + m |-> i]
<1> DEFINE a == [i \in 1 .. n |-> i]
           b == [i \in 1 .. m |-> n + i]
           c == [i \in 1 .. n + m |-> i]
<1>1. a \in Seq(Nat) /\ Len(a) = n /\ b \in Seq(Nat) /\ Len(b) = m
      /\ c \in Seq(Nat) /\ Len(c) = n + m
  BY RampIs, SentIs
<1>2. /\ \A i \in 1 .. n : a[i] = i
      /\ \A i \in 1 .. m : b[i] = n + i
      /\ \A i \in 1 .. n + m : c[i] = i
  OBVIOUS
<1> HIDE DEF a, b, c
<1>3. /\ a \o b \in Seq(Nat) /\ Len(a \o b) = n + m
      /\ \A i \in 1 .. n + m : (a \o b)[i] = IF i <= n THEN a[i] ELSE b[i - n]
  BY <1>1, ConcatProperties
<1>4. ASSUME NEW i \in 1 .. n + m
      PROVE  (a \o b)[i] = c[i]
  <2>1. CASE i <= n
    <3>1. i \in 1 .. n
      BY <2>1
    <3>2. QED
      BY <1>2, <1>3, <2>1, <3>1
  <2>2. CASE i > n
    <3>1. i - n \in 1 .. m /\ n + (i - n) = i /\ ~ (i <= n)
      BY <2>2
    <3>2. b[i - n] = n + (i - n)
      BY <1>2, <3>1
    <3>3. QED
      BY <1>2, <1>3, <3>1, <3>2
  <2>3. i <= n \/ i > n
    OBVIOUS
  <2>4. QED
    BY <2>1, <2>2, <2>3
<1>5. a \o b = c
  BY <1>1, <1>3, <1>4, SeqEqual
<1>6. QED
  BY <1>5 DEF a, b, c

\* What is on the wire, what goes onto it and what is left.
LEMMA PartsOf ==
  ASSUME NEW a \in Seq(Nat), NEW b \in Seq(Nat), NEW c \in Seq(Nat)
  PROVE  (a \o b) \o c = a \o (b \o c)
BY ConcatAssociative, SMTT(30)

\* A connection begins with nothing sent.
LEMMA DeliveringInit ==
  ASSUME StreamInit
  PROVE  Delivering
<1>1. posted = 0 /\ output = Empty /\ armed = FALSE /\ wire = <<>>
  BY DEF StreamInit
<1>2. quota \in Nat
  BY ExchangesAssumption DEF StreamInit
<1>3. IsBuffer(output, Nat) /\ DataLen(output) = 0 /\ Data(output) = <<>> /\ Len(output.mem) = 0
  BY <1>1, EmptyIs
<1>4. wire \in Seq(Nat) /\ posted \in Nat
  BY <1>1, EmptySeq
<1>5. OutputWhole
  <2>1. [i \in 1 .. 0 |-> i] = <<>>
    <3>1. [i \in 1 .. 0 |-> i] \in Seq(Nat) /\ Len([i \in 1 .. 0 |-> i]) = 0
      BY SentIs
    <3>2. QED
      BY <3>1, EmptySeq
  <2>2. <<>> \o <<>> = <<>>
    BY EmptySeq, ConcatEmptySeq
  <2>3. QED
    BY <1>1, <1>3, <2>1, <2>2 DEF OutputWhole
<1>6. QED
  BY <1>2, <1>3, <1>4, <1>5, SizesAssumption DEF Delivering, Idle, GivenBack

\* Steps of the receiving side and of the peer leave what was sent alone.
LEMMA DeliveringStays ==
  ASSUME Delivering, UNCHANGED <<quota, posted, output, armed, wire>>
  PROVE  Delivering'
<1>1. quota' = quota /\ posted' = posted /\ output' = output /\ armed' = armed /\ wire' = wire
  OBVIOUS
<1>2. OutputWhole' /\ Idle' /\ GivenBack'
  BY <1>1 DEF Delivering, OutputWhole, Idle, GivenBack
<1>3. QED
  BY <1>1, <1>2 DEF Delivering

\* deliver_data puts the bytes behind those it has.
LEMMA DeliveringPost ==
  ASSUME Delivering, Post
  PROVE  Delivering'
<1>1. PICK n \in SendSizes \cap 0 .. quota :
        /\ output' = Pour(Expand(output, n), [i \in 1 .. n |-> posted + i])
        /\ posted' = posted + n
        /\ quota'  = quota - n
  BY DEF Post
<1>2. armed' = TRUE /\ wire' = wire
  BY DEF Post
<1>3. /\ IsBuffer(output, Nat) /\ posted \in Nat /\ quota \in Nat /\ wire \in Seq(Nat)
      /\ wire \o Data(output) = [i \in 1 .. posted |-> i]
  BY DEF Delivering, OutputWhole
<1>4. n \in Nat /\ quota - n \in Nat /\ posted + n \in Nat
  BY <1>3
<1> DEFINE s == [i \in 1 .. n |-> posted + i]
           e == Expand(output, n)
<1>5. s \in Seq(Nat) /\ Len(s) = n
  BY <1>3, <1>4, RampIs
<1>6. /\ IsBuffer(e, Nat) /\ Data(e) = Data(output) /\ FreeLen(e) >= n
  BY <1>3, <1>4, ExpandIs
<1> HIDE DEF s, e
<1>7. IsBuffer(Pour(e, s), Nat) /\ Data(Pour(e, s)) = Data(e) \o s
  BY <1>5, <1>6, PourIs
<1>8. OutputWhole'
  <2>1. Data(output) \in Seq(Nat)
    BY <1>3, WindowIs
  <2>2. (wire \o Data(output)) \o s = wire \o (Data(output) \o s)
    <3>1. wire \in Seq(Nat)
      BY <1>3
    <3>2. QED
      BY <1>5, <2>1, <3>1, PartsOf
  <2>3. [i \in 1 .. posted |-> i] \o s = [i \in 1 .. posted + n |-> i]
    BY <1>3, <1>4, RampGrows DEF s
  <2>4. wire' \o Data(output') = [i \in 1 .. posted' |-> i]
    BY <1>1, <1>2, <1>3, <1>6, <1>7, <2>2, <2>3 DEF s, e
  <2>5. QED
    BY <2>4 DEF OutputWhole, Data
<1>9. IsBuffer(output', Nat)
  BY <1>1, <1>7 DEF s, e
<1>10. QED
  BY <1>1, <1>2, <1>3, <1>4, <1>8, <1>9 DEF Delivering, Idle, GivenBack, IsBuffer

\* write_data writes n bytes.
Sends(n) == Written(n) /\ wire' = wire \o SubSeq(Data(output), 1, n)

\* A write moves the bytes from the one to the other, and the interest goes
\* with the last of them.
LEMMA DeliveringWritten ==
  ASSUME Delivering, NEW n \in 0 .. DataLen(output), Sends(n),
         UNCHANGED <<quota, posted>>
  PROVE  Delivering'
<1>1. /\ IsBuffer(output, Nat) /\ posted \in Nat /\ quota \in Nat /\ wire \in Seq(Nat)
      /\ wire \o Data(output) = [i \in 1 .. posted |-> i]
  BY DEF Delivering, OutputWhole
<1>2. /\ Data(output) \in Seq(Nat) /\ Len(Data(output)) = DataLen(output)
      /\ DataLen(output) \in Nat
  BY <1>1, WindowIs
<1> DEFINE d == Data(output)
           k == DataLen(output)
           r == Drain(output, n)
           out == SubSeq(d, 1, n)
           left == SubSeq(d, n + 1, k)
<1>3. /\ IsBuffer(r, Nat) /\ Data(r) = left /\ DataLen(r) = k - n
  BY <1>1, DrainIs
<1>4. output' = Shrink(r) /\ armed' = ArmedAfter(Shrink(r))
  BY DEF Sends, Written
<1>5. /\ IsBuffer(Shrink(r), Nat) /\ Data(Shrink(r)) = Data(r)
      /\ DataLen(Shrink(r)) = DataLen(r)
      /\ DataLen(r) <= MaxBufferSize => Len(Shrink(r).mem) <= MaxBufferSize
  BY <1>3, ShrinkIs
<1>6. out \in Seq(Nat) /\ left \in Seq(Nat) /\ out \o left = d
  <2> HIDE DEF d, k
  <2>1. d \in Seq(Nat) /\ Len(d) = k /\ k \in Nat /\ n \in 0 .. k
    BY <1>2 DEF d, k
  <2>2. \A i \in 1 .. k : d[i] \in Nat
    BY <2>1
  <2>3. out \in Seq(Nat) /\ left \in Seq(Nat)
    <3>1. \A i \in 1 .. n : d[i] \in Nat
      BY <2>1, <2>2
    <3>2. \A i \in n + 1 .. k : d[i] \in Nat
      BY <2>1, <2>2
    <3>3. QED
      BY <2>1, <3>1, <3>2, SubSeqProperties
  <2>4. out \o left = SubSeq(d, 1, k)
    <3>1. 1 \in 1 .. Len(d) + 1 /\ n \in 1 - 1 .. Len(d) /\ k \in n .. Len(d)
      BY <2>1
    <3>2. QED
      BY <2>1, <3>1, ConcatAdjacentSubSeq
  <2>5. SubSeq(d, 1, k) = d
    BY <2>1, SubSeqFull
  <2>6. QED
    BY <2>3, <2>4, <2>5
<1>7. (wire \o out) \o left = wire \o d
  <2>1. wire \in Seq(Nat)
    BY <1>1
  <2>2. out \in Seq(Nat) /\ left \in Seq(Nat)
    BY <1>6
  <2> HIDE DEF d, out, left
  <2>3. (wire \o out) \o left = wire \o (out \o left)
    BY <2>1, <2>2, PartsOf
  <2>4. QED
    BY <1>6, <2>3
<1>8. wire \o out \in Seq(Nat)
  BY <1>1, <1>6, ConcatProperties
<1> HIDE DEF r, d, out, left
<1>9. OutputWhole'
  <2>1. wire' \o Data(output') = [i \in 1 .. posted' |-> i]
    BY <1>1, <1>3, <1>4, <1>5, <1>7 DEF out, d, Sends
  <2>2. QED
    BY <2>1 DEF OutputWhole, Data
<1>10. ~armed' => DataLen(output') = 0
  <2>1. armed /\ ~armed' => ~ (DataLen(output') > 0)
    <3>1. armed' = (armed /\ DataLen(Shrink(r)) > 0) /\ output' = Shrink(r)
      BY <1>4 DEF ArmedAfter
    <3> HIDE DEF k
    <3>2. armed /\ DataLen(Shrink(r)) > 0 => armed'
      BY <3>1
    <3>3. DataLen(output') = DataLen(Shrink(r))
      BY <3>1
    <3>4. QED
      BY <3>2, <3>3
  <2>2. DataLen(output') = k - n /\ k - n \in Nat
    BY <1>2, <1>3, <1>4, <1>5
  <2>3. ~armed => k = 0
    BY DEF Delivering, Idle
  <2>4. CASE armed
    BY <2>1, <2>2, <2>4
  <2>5. CASE ~armed
    <3>1. n = 0 /\ k = 0
      BY <1>2, <2>3, <2>5
    <3>2. k - n = 0
      BY <3>1
    <3>3. QED
      BY <2>2, <3>2
  <2>6. QED
    BY <2>4, <2>5
<1>11. ~armed' => Len(output'.mem) <= MaxBufferSize
  <2>1. DataLen(output') = DataLen(r)
    BY <1>4, <1>5
  <2>2. QED
    BY <1>4, <1>5, <1>10, <2>1, SizesAssumption
<1>12. QED
  BY <1>1, <1>4, <1>5, <1>8, <1>9, <1>10, <1>11
     DEF Delivering, Idle, GivenBack, IsBuffer, DataLen, out, d, Sends

\* Every step preserves the invariant of the sending side.
LEMMA DeliveringStep ==
  ASSUME Delivering, [StreamNext]_streamVars
  PROVE  Delivering'
<1>1. CASE Next /\ UNCHANGED sendVars
  BY <1>1, DeliveringStays DEF sendVars
<1>2. CASE Post
  BY <1>2, DeliveringPost
<1>3. CASE WriteNone
  <2>1. Written(0) /\ quota' = quota /\ posted' = posted /\ wire' = wire /\ DataLen(output) = 0
    BY <1>3 DEF WriteNone
  <2>2. wire' = wire \o SubSeq(Data(output), 1, 0)
    <3>1. SubSeq(Data(output), 1, 0) = <<>>
      BY SubSeqEmpty
    <3>2. wire \o <<>> = wire
      BY ConcatEmptySeq DEF Delivering
    <3>3. QED
      BY <2>1, <3>1, <3>2
  <2>3. 0 \in 0 .. DataLen(output)
    BY <2>1
  <2>4. QED
    BY <2>1, <2>2, <2>3, DeliveringWritten DEF Sends
<1>4. CASE Write
  <2>1. PICK n \in 1 .. DataLen(output) :
          wire' = wire \o SubSeq(Data(output), 1, n) /\ Written(n)
    BY <1>4 DEF Write
  <2>2. n \in 0 .. DataLen(output)
    BY WindowIs DEF Delivering
  <2>3. quota' = quota /\ posted' = posted
    BY <1>4 DEF Write
  <2>4. QED
    BY <2>1, <2>2, <2>3, DeliveringWritten DEF Sends
<1>5. CASE WriteFail
  <2>1. output' = Shrink(output) /\ armed' = armed /\ armed
        /\ quota' = quota /\ posted' = posted /\ wire' = wire
    BY <1>5 DEF WriteFail, Writable
  <2>2. IsBuffer(output, Nat)
    BY DEF Delivering
  <2>3. IsBuffer(Shrink(output), Nat) /\ Data(Shrink(output)) = Data(output)
    BY <2>2, ShrinkIs
  <2>4. OutputWhole'
    <3>1. wire' \o Data(output') = [i \in 1 .. posted' |-> i]
      BY <2>1, <2>3 DEF Delivering, OutputWhole
    <3>2. QED
      BY <3>1 DEF OutputWhole, Data
  <2>5. QED
    BY <2>1, <2>2, <2>3, <2>4 DEF Delivering, Idle, GivenBack, IsBuffer
<1>6. CASE Ack
  BY <1>6, DeliveringStays DEF Ack
<1>7. CASE UNCHANGED streamVars
  BY <1>7, DeliveringStays DEF streamVars, sendVars
<1>8. QED
  BY <1>1, <1>2, <1>3, <1>4, <1>5, <1>6, <1>7 DEF StreamNext, WriteData

----------------------------------------------------------------------------
(* The receiving side.                                                     *)

\* The header at the first byte of a PDU declares its length.
LEMMA HeaderIs ==
  ASSUME sent \in Seq(Nat), NEW k \in 1 .. Len(sent)
  PROVE  Header(Ends[k - 1] + 1) = sent[k]
<1> DEFINE p == Ends[k - 1] + 1
<1>1. Len(sent) \in Nat /\ k - 1 \in 0 .. Len(sent)
  OBVIOUS
<1>2. ASSUME NEW i \in 1 .. Len(sent), p = Ends[i - 1] + 1
      PROVE  i = k
  <2>1. i - 1 \in 0 .. Len(sent)
    BY <1>1
  <2>2. Ends[i - 1] \in Nat /\ Ends[k - 1] \in Nat
    BY <1>1, <2>1, EndsAre
  <2>3. Ends[i - 1] = Ends[k - 1]
    BY <1>2, <2>2
  <2>4. ~ (i - 1 < k - 1) /\ ~ (k - 1 < i - 1)
    BY <1>1, <2>1, <2>2, <2>3, EndsGrow, SMTT(30)
  <2>5. QED
    BY <2>4
<1>3. \E i \in 1 .. Len(sent) : p = Ends[i - 1] + 1
  OBVIOUS
<1>4. (CHOOSE i \in 1 .. Len(sent) : p = Ends[i - 1] + 1) = k
  <2> HIDE DEF p
  <2>1. QED
    BY <1>2, <1>3
<1>5. QED
  BY <1>3, <1>4 DEF Header

\* What the proofs below use of the state.
LEMMA ReceivingIs ==
  ASSUME Receiving
  PROVE  /\ sent \in Seq(Nat) /\ Len(sent) \in Nat
         /\ \A i \in 0 .. Len(sent) : Ends[i] \in Nat
         /\ arrived \in Nat /\ arrived <= Ends[Len(sent)]
         /\ taken \in Nat /\ taken <= arrived
         /\ IsBuffer(input, 0 .. arrived) /\ 0 \in 0 .. arrived
         /\ DataLen(input) \in Nat /\ FreeLen(input) \in Nat
         /\ given \in Seq(Seq(1 .. arrived))
         /\ Len(given) \in Nat /\ Len(given) <= Len(sent)
         /\ taken = Ends[Len(given)] + DataLen(input)
         /\ pduLen \in Nat
<1>1. sent \in Seq(Nat)
  BY LimitsAssumption DEF Receiving, TypeOK
<1>2. Len(sent) \in Nat /\ \A i \in 0 .. Len(sent) : Ends[i] \in Nat
  <2>1. Ends \in [0 .. Len(sent) -> Nat]
    BY <1>1, EndsAre
  <2>2. QED
    BY <1>1, <2>1
<1>3. arrived \in 0 .. Ends[Len(sent)] /\ taken \in 0 .. arrived
      /\ given \in Seq(Seq(1 .. arrived)) /\ pduLen \in Nat
      /\ IsBuffer(input, 0 .. arrived) /\ Len(given) <= Len(sent)
      /\ taken - DataLen(input) = Ends[Len(given)]
  BY DEF Receiving, TypeOK, InputTyped, Whole, Aligned
<1>4. Ends[Len(sent)] \in Nat
  BY <1>2
<1>5. arrived \in Nat /\ arrived <= Ends[Len(sent)] /\ taken \in Nat /\ taken <= arrived
      /\ 0 \in 0 .. arrived
  BY <1>3, <1>4
<1>6. DataLen(input) \in Nat /\ FreeLen(input) \in Nat
  BY <1>3, WindowIs
<1>7. Len(given) \in Nat
  BY <1>3
<1>8. taken = Ends[Len(given)] + DataLen(input)
  <2>1. Ends[Len(given)] \in Nat
    BY <1>2, <1>3, <1>7
  <2>2. QED
    BY <1>3, <1>5, <1>6, <2>1
<1>9. QED
  BY <1>1, <1>2, <1>3, <1>5, <1>6, <1>7, <1>8

\* The buffer holds a byte of the next PDU only if there is one, and begins
\* with its first byte.
LEMMA NextPdu ==
  ASSUME Receiving, DataLen(input) > 0
  PROVE  /\ Len(given) + 1 \in 1 .. Len(sent)
         /\ Header(Data(input)[1]) = sent[Len(given) + 1]
<1> USE ReceivingIs
<1>1. Len(given) < Len(sent)
  <2>1. Ends[Len(given)] < Ends[Len(sent)]
    <3>1. Ends[Len(given)] \in Nat /\ Ends[Len(sent)] \in Nat
      OBVIOUS
    <3>2. QED
      BY <3>1
  <2>2. Len(given) # Len(sent)
    BY <2>1
  <2>3. QED
    BY <2>2
<1>2. Len(given) + 1 \in 1 .. Len(sent)
  BY <1>1
<1>3. Data(input)[1] = taken - DataLen(input) + 1
  <2>1. 1 \in 1 .. DataLen(input)
    OBVIOUS
  <2>2. QED
    BY <2>1 DEF Receiving, InOrder
<1>4. Data(input)[1] = Ends[(Len(given) + 1) - 1] + 1
  <2>1. Ends[Len(given)] \in Nat /\ (Len(given) + 1) - 1 = Len(given)
    OBVIOUS
  <2>2. QED
    BY <1>3, <2>1
<1>5. QED
  BY <1>2, <1>4, HeaderIs

\* A connection begins with nothing received.
LEMMA ReceivingInit ==
  ASSUME StreamInit
  PROVE  Receiving
<1>1. /\ sent \in Streams /\ arrived = 0 /\ taken = 0 /\ net = "up"
      /\ input = Empty /\ pc = "wait" /\ pduLen = 0 /\ reads = 0 /\ error = "none"
      /\ given = <<>>
  BY DEF StreamInit, Init
<1>2. sent \in Seq(Nat) /\ Len(sent) \in Nat
  BY <1>1, LimitsAssumption
<1>3. /\ IsBuffer(input, 0 .. arrived) /\ DataLen(input) = 0 /\ input.mem = <<>>
      /\ Data(input) = <<>>
  BY <1>1, EmptyIs
<1>4. Ends[0] = 0 /\ Ends[Len(sent)] \in Nat
  BY <1>2, EndsAre
<1>5. given \in Seq(Seq(1 .. arrived)) /\ Len(given) = 0
  BY <1>1, EmptySeq
<1>6. TypeOK
  <2>1. input.mem \in Seq(0 .. arrived) /\ input.data \in Nat
        /\ input.data <= input.free /\ input.free <= Len(input.mem)
    BY <1>3 DEF IsBuffer
  <2>2. arrived \in 0 .. Ends[Len(sent)] /\ taken \in 0 .. arrived
    BY <1>1, <1>4
  <2>3. reads \in 0 .. MaxReads /\ pduLen \in Nat
    BY <1>1, LimitsAssumption
  <2>4. 0 <= input.data
    BY <2>1
  <2>5. QED
    BY <1>1, <1>5, <2>1, <2>2, <2>3, <2>4 DEF TypeOK
<1>7. InputTyped /\ InOrder /\ Aligned /\ Whole
  BY <1>1, <1>2, <1>3, <1>4, <1>5 DEF InputTyped, InOrder, Aligned, Whole
<1>8. NothingWhole
  <2> SUFFICES ASSUME 0 < Len(sent) PROVE 0 < Ends[1]
    BY <1>1, <1>5 DEF NothingWhole
  <2>1. QED
    BY <1>2, <1>4, EndsGrow
<1>9. Reading /\ Short /\ RemoteCloseTrue /\ BrokenWhileUp
  BY <1>1, <1>3, LimitsAssumption DEF Reading, Short, RemoteCloseTrue, BrokenWhileUp
<1>10. QED
  BY <1>6, <1>7, <1>8, <1>9 DEF Receiving

\* Bytes arrive.
LEMMA ReceivingArrive ==
  ASSUME Receiving, Arrive
  PROVE  Receiving'
<1> USE ReceivingIs
<1>1. /\ net = "up" /\ error = "none" /\ arrived' \in arrived + 1 .. Ends[Len(sent)]
      /\ sent' = sent /\ taken' = taken /\ net' = net /\ input' = input /\ pc' = pc
      /\ pduLen' = pduLen /\ reads' = reads /\ error' = error /\ given' = given
  BY DEF Arrive
<1>2. Ends' = Ends
  BY <1>1, EndsStay
<1>3. Ends[Len(sent)] \in Nat /\ arrived' \in Nat /\ arrived < arrived'
      /\ arrived' \in 0 .. Ends[Len(sent)] /\ taken' \in 0 .. arrived'
  BY <1>1
<1>4. given' \in Seq(Seq(1 .. arrived'))
  <2>1. \A s \in Seq(1 .. arrived) : s \in Seq(1 .. arrived')
    <3>1. 1 .. arrived \subseteq 1 .. arrived'
      BY <1>3
    <3>2. QED
      BY <3>1, SeqMonotonic
  <2>2. Seq(1 .. arrived) \subseteq Seq(1 .. arrived')
    BY <2>1
  <2>3. QED
    BY <1>1, <2>2, SeqMonotonic
<1>5. IsBuffer(input', 0 .. arrived')
  <2>1. 0 .. arrived \subseteq 0 .. arrived'
    BY <1>3
  <2>2. Seq(0 .. arrived) \subseteq Seq(0 .. arrived')
    BY <2>1, SeqMonotonic
  <2>3. QED
    BY <1>1, <2>2 DEF IsBuffer
<1>6. TypeOK'
  <2>1. input'.mem \in Seq(0 .. arrived')
    BY <1>5 DEF IsBuffer
  <2>2. QED
    BY <1>1, <1>2, <1>3, <1>4, <2>1 DEF Receiving, TypeOK
<1>7. InOrder' /\ Aligned' /\ Whole'
  BY <1>1, <1>2 DEF Receiving, InOrder, Aligned, Whole, Data, DataLen
<1>8. NothingWhole' /\ Short'
  BY <1>1, <1>2 DEF Receiving, NothingWhole, Parsed, Malformed, Short, DataLen
<1>9. Reading'
  <2>1. taken' < arrived' \/ taken >= arrived
    BY <1>1, <1>3
  <2>2. QED
    BY <1>1, <1>3, <2>1 DEF Receiving, Reading, FreeLen
<1>10. RemoteCloseTrue' /\ BrokenWhileUp'
  BY <1>1 DEF RemoteCloseTrue, BrokenWhileUp
<1>11. InputTyped'
  BY <1>5 DEF InputTyped, IsBuffer
<1>12. QED
  BY <1>6, <1>7, <1>8, <1>9, <1>10, <1>11 DEF Receiving

\* The peer closes or resets the connection.
LEMMA ReceivingHangup ==
  ASSUME Receiving, Hangup
  PROVE  Receiving'
<1>1. /\ net = "up" /\ error = "none" /\ net' \in {"closed", "reset"}
      /\ sent' = sent /\ taken' = taken /\ arrived' = arrived /\ input' = input /\ pc' = pc
      /\ pduLen' = pduLen /\ reads' = reads /\ error' = error /\ given' = given
  BY DEF Hangup
<1>2. Ends' = Ends
  BY <1>1, EndsStay
<1>3. TypeOK'
  BY <1>1, <1>2 DEF Receiving, TypeOK
<1>4. InOrder' /\ Aligned' /\ Whole' /\ InputTyped'
  BY <1>1, <1>2 DEF Receiving, InOrder, Aligned, Whole, Data, DataLen, InputTyped, IsBuffer
<1>5. NothingWhole' /\ Short'
  BY <1>1, <1>2 DEF Receiving, NothingWhole, Parsed, Malformed, Short, DataLen
<1>6. Reading'
  BY <1>1 DEF Receiving, Reading, FreeLen
<1>7. RemoteCloseTrue' /\ BrokenWhileUp'
  BY <1>1 DEF RemoteCloseTrue, BrokenWhileUp
<1>8. QED
  BY <1>3, <1>4, <1>5, <1>6, <1>7 DEF Receiving

\* A step that leaves the window as it is, whatever becomes of the memory.
WindowKept ==
  /\ IsBuffer(input', 0 .. arrived)
  /\ Data(input') = Data(input) /\ DataLen(input') = DataLen(input)
  /\ sent' = sent /\ arrived' = arrived /\ taken' = taken /\ net' = net /\ given' = given

\* Then what was received keeps its place.
LEMMA WindowStays ==
  ASSUME Receiving, WindowKept,
         pc' \in {"wait", "read", "parse", "check"}, pduLen' \in Nat,
         reads' \in 0 .. MaxReads,
         error' \in {"none", "REMOTE_CLOSE", "CLOSE", "PARSE_PDU"}
  PROVE  TypeOK' /\ InputTyped' /\ InOrder' /\ Aligned' /\ Whole'
<1>1. /\ sent' = sent /\ arrived' = arrived /\ taken' = taken /\ net' = net /\ given' = given
      /\ IsBuffer(input', 0 .. arrived)
      /\ Data(input') = Data(input) /\ DataLen(input') = DataLen(input)
  BY DEF WindowKept
<1>2. Ends' = Ends
  BY <1>1, EndsStay
<1>3. TypeOK'
  <2>1. input'.mem \in Seq(0 .. arrived) /\ input'.data \in Nat
        /\ input'.data <= input'.free /\ input'.free <= Len(input'.mem)
    BY <1>1 DEF IsBuffer
  <2>2. 0 <= input'.data
    BY <2>1
  <2>3. QED
    BY <1>1, <1>2, <2>1, <2>2 DEF Receiving, TypeOK
<1>4. InputTyped'
  BY <1>1 DEF InputTyped, IsBuffer
<1>5. InOrder'
  <2>1. \A i \in 1 .. DataLen(input') : Data(input')[i] = taken' - DataLen(input') + i
    BY <1>1 DEF Receiving, InOrder
  <2>2. QED
    BY <2>1 DEF InOrder, Data, DataLen
<1>6. Aligned'
  <2>1. taken' - DataLen(input') = Ends'[Len(given')]
    BY <1>1, <1>2 DEF Receiving, Aligned
  <2>2. QED
    BY <2>1 DEF Aligned, DataLen
<1>7. Whole'
  BY <1>1, <1>2 DEF Receiving, Whole
<1>8. QED
  BY <1>3, <1>4, <1>5, <1>6, <1>7

\* Every return of read_data.
LEMMA ReturnKeeps ==
  ASSUME Receiving, NEW reason \in {"none", "REMOTE_CLOSE", "CLOSE", "PARSE_PDU"},
         Return(reason), UNCHANGED <<netVars, taken, pduLen, reads, given>>
  PROVE  /\ TypeOK' /\ InputTyped' /\ InOrder' /\ Aligned' /\ Whole' /\ Reading'
         /\ error' = reason /\ pc' = "wait"
         /\ sent' = sent /\ arrived' = arrived /\ taken' = taken /\ net' = net
         /\ pduLen' = pduLen /\ reads' = reads /\ given' = given
         /\ DataLen(input') = DataLen(input)
<1>1. /\ sent' = sent /\ arrived' = arrived /\ taken' = taken /\ net' = net
      /\ pduLen' = pduLen /\ reads' = reads /\ given' = given
      /\ input' = Shrink(input) /\ error' = reason /\ pc' = "wait"
  BY DEF Return, netVars
<1>2. WindowKept /\ DataLen(input') = DataLen(input)
  BY <1>1, ReceivingIs, ShrinkIs DEF WindowKept
<1>3. pduLen' \in Nat /\ reads' \in 0 .. MaxReads
  BY <1>1 DEF Receiving, TypeOK
<1>4. TypeOK' /\ InputTyped' /\ InOrder' /\ Aligned' /\ Whole'
  BY <1>1, <1>2, <1>3, WindowStays
<1>5. Reading'
  BY <1>1 DEF Reading
<1>6. QED
  BY <1>1, <1>2, <1>4, <1>5

\* read_data breaks the connection for a read of 0 bytes.
LEMMA ReceivingReadEnd ==
  ASSUME Receiving, ReadEnd
  PROVE  Receiving'
<1>1. /\ pc = "read" /\ (FreeLen(input) = 0 \/ (taken = arrived /\ net = "closed"))
      /\ Return("REMOTE_CLOSE") /\ UNCHANGED <<netVars, taken, pduLen, reads, given>>
  BY DEF ReadEnd
<1>2. taken = arrived /\ net = "closed"
  BY <1>1 DEF Receiving, Reading
<1>3. /\ TypeOK' /\ InputTyped' /\ InOrder' /\ Aligned' /\ Whole' /\ Reading'
      /\ error' = "REMOTE_CLOSE" /\ pc' = "wait"
      /\ sent' = sent /\ arrived' = arrived /\ taken' = taken /\ net' = net /\ given' = given
  BY <1>1, ReturnKeeps
<1>4. ~Behind
  <2> SUFFICES ASSUME NEW i \in 1 .. Len(sent), arrived >= Ends[i], Len(given) < i
               PROVE  FALSE
    BY DEF Behind
  <2> USE ReceivingIs
  <2>1. Len(given) + 1 \in 0 .. Len(sent) /\ i \in 0 .. Len(sent) /\ Len(given) < Len(sent)
    OBVIOUS
  <2>2. taken < Ends[Len(given) + 1]
    BY <2>1, <1>1 DEF Receiving, NothingWhole, Parsed
  <2>3. Len(given) + 1 = i \/ Len(given) + 1 < i
    BY SMTT(30)
  <2>4. Ends[Len(given) + 1] = Ends[i] \/ Ends[Len(given) + 1] < Ends[i]
    BY <2>1, <2>3, EndsGrow
  <2>5. Ends[Len(given) + 1] \in Nat /\ Ends[i] \in Nat
    BY <2>1
  <2>6. QED
    BY <1>2, <2>2, <2>4, <2>5, SMTT(30)
<1>5. RemoteCloseTrue'
  <2>1. Ends' = Ends
    BY <1>3, EndsStay
  <2>2. ~Behind'
    BY <1>3, <1>4, <2>1 DEF Behind
  <2>3. QED
    BY <1>2, <1>3, <2>2 DEF RemoteCloseTrue
<1>6. NothingWhole' /\ Short' /\ BrokenWhileUp'
  BY <1>3 DEF NothingWhole, Parsed, Short, BrokenWhileUp
<1>7. QED
  BY <1>3, <1>5, <1>6 DEF Receiving

\* read_data breaks the connection for a read that fails.
LEMMA ReceivingReadFail ==
  ASSUME Receiving, ReadFail
  PROVE  Receiving'
<1>1. /\ pc = "read" /\ (net = "reset" \/ (net = "up" /\ taken = arrived))
      /\ Return("CLOSE") /\ UNCHANGED <<netVars, taken, pduLen, reads, given>>
  BY DEF ReadFail
<1>2. /\ TypeOK' /\ InputTyped' /\ InOrder' /\ Aligned' /\ Whole' /\ Reading'
      /\ error' = "CLOSE" /\ pc' = "wait" /\ net' = net /\ reads' = reads
  BY <1>1, ReturnKeeps
<1>3. BrokenWhileUp'
  <2> SUFFICES ASSUME net = "up" PROVE reads > 0
    BY <1>2 DEF BrokenWhileUp
  <2>1. reads # 0
    <3>1. taken = arrived /\ taken \in Nat
      BY <1>1, ReceivingIs
    <3>2. ~ (taken < arrived)
      BY <3>1
    <3>3. QED
      BY <1>1, <3>2 DEF Receiving, Reading
  <2>2. QED
    BY <2>1, LimitsAssumption DEF Receiving, TypeOK
<1>4. NothingWhole' /\ Short' /\ RemoteCloseTrue'
  BY <1>2 DEF NothingWhole, Parsed, Short, RemoteCloseTrue
<1>5. QED
  BY <1>2, <1>3, <1>4 DEF Receiving

\* read_data breaks the connection for a PDU it cannot parse.
LEMMA ReceivingParseBroken ==
  ASSUME Receiving, ParseBroken
  PROVE  Receiving'
<1>1. Return("PARSE_PDU") /\ UNCHANGED <<netVars, taken, pduLen, reads, given>>
  BY DEF ParseBroken
<1>2. /\ TypeOK' /\ InputTyped' /\ InOrder' /\ Aligned' /\ Whole' /\ Reading'
      /\ error' = "PARSE_PDU" /\ pc' = "wait"
  BY <1>1, ReturnKeeps
<1>3. NothingWhole' /\ Short' /\ RemoteCloseTrue' /\ BrokenWhileUp'
  BY <1>2 DEF NothingWhole, Parsed, Short, RemoteCloseTrue, BrokenWhileUp
<1>4. QED
  BY <1>2, <1>3 DEF Receiving

\* read_data is done.
LEMMA ReceivingParseDone ==
  ASSUME Receiving, ParseDone
  PROVE  Receiving'
<1>1. pc = "check" /\ ~Malformed(pduLen) /\ Return("none")
      /\ UNCHANGED <<netVars, taken, pduLen, reads, given>>
  BY DEF ParseDone
<1>2. /\ TypeOK' /\ InputTyped' /\ InOrder' /\ Aligned' /\ Whole' /\ Reading'
      /\ error' = "none" /\ pc' = "wait"
      /\ sent' = sent /\ taken' = taken /\ given' = given
      /\ DataLen(input') = DataLen(input)
  BY <1>1, ReturnKeeps
<1>3. NothingWhole'
  <2>1. Ends' = Ends
    BY <1>2, EndsStay
  <2>2. Len(given) < Len(sent) => taken < Ends[Len(given) + 1]
    BY <1>1 DEF Receiving, NothingWhole, Parsed
  <2>3. QED
    BY <1>2, <2>1, <2>2 DEF NothingWhole
<1>4. Short'
  <2>1. DataLen(input) < pduLen /\ pduLen <= BreakLen
    BY <1>1, ReceivingIs, LimitsAssumption DEF Receiving, Short, Malformed
  <2>2. DataLen(input') <= BreakLen
    BY <1>2, <2>1, ReceivingIs, LimitsAssumption
  <2>3. QED
    BY <1>2, <2>2 DEF Short, DataLen
<1>5. RemoteCloseTrue' /\ BrokenWhileUp'
  BY <1>2 DEF RemoteCloseTrue, BrokenWhileUp
<1>6. QED
  BY <1>2, <1>3, <1>4, <1>5 DEF Receiving

\* read_data begins, with room to read into.
LEMMA ReceivingReadEvent ==
  ASSUME Receiving, ReadEvent
  PROVE  Receiving'
<1>1. /\ pc = "wait" /\ error = "none" /\ (taken < arrived \/ net # "up")
      /\ input' = Expand(input, ReadWriteSize) /\ pduLen' = 0 /\ reads' = 0
      /\ pc' = "read" /\ sent' = sent /\ arrived' = arrived /\ net' = net
      /\ taken' = taken /\ error' = error /\ given' = given
  BY DEF ReadEvent, Room, netVars
<1>2. /\ IsBuffer(input', 0 .. arrived) /\ Data(input') = Data(input)
      /\ DataLen(input') = DataLen(input) /\ FreeLen(input') >= ReadWriteSize
  BY <1>1, ReceivingIs, ExpandIs, LimitsAssumption
<1>3. TypeOK' /\ InputTyped' /\ InOrder' /\ Aligned' /\ Whole'
  <2>1. WindowKept
    BY <1>1, <1>2 DEF WindowKept
  <2>2. reads' \in 0 .. MaxReads /\ pduLen' \in Nat
    BY <1>1, LimitsAssumption
  <2>3. QED
    BY <1>1, <2>1, <2>2, WindowStays
<1>4. Reading'
  <2>1. FreeLen(input') \in Nat
    BY <1>2, WindowIs
  <2>2. FreeLen(input') > 0
    BY <1>2, <2>1, LimitsAssumption
  <2>3. QED
    BY <1>1, <2>2 DEF Reading, FreeLen
<1>5. NothingWhole'
  <2>1. Ends' = Ends
    BY <1>1, EndsStay
  <2>2. Len(given) < Len(sent) => taken < Ends[Len(given) + 1]
    BY <1>1 DEF Receiving, NothingWhole, Parsed
  <2>3. QED
    BY <1>1, <2>1, <2>2 DEF NothingWhole
<1>6. Short' /\ RemoteCloseTrue' /\ BrokenWhileUp'
  BY <1>1 DEF Short, RemoteCloseTrue, BrokenWhileUp
<1>7. QED
  BY <1>3, <1>4, <1>5, <1>6 DEF Receiving

\* The buffer was filled: read_data makes room and reads again.
LEMMA ReceivingReadAgain ==
  ASSUME Receiving, ReadAgain
  PROVE  Receiving'
<1>1. /\ pc = "check" /\ ~Malformed(pduLen)
      /\ input' = IF pduLen > DataLen(input) THEN Expand(input, ReadWriteSize) ELSE input
      /\ reads' = reads + 1 /\ pc' = "read"
      /\ sent' = sent /\ arrived' = arrived /\ net' = net
      /\ taken' = taken /\ pduLen' = pduLen /\ error' = error /\ given' = given
  BY DEF ReadAgain, Room, CountRead, netVars
<1>2. reads' \in 0 .. MaxReads /\ reads' # 0
  BY <1>1, LimitsAssumption DEF ReadAgain, Done, Receiving, TypeOK
<1>3. pduLen > DataLen(input)
  BY <1>1, ReceivingIs DEF Receiving, Short
<1>4. /\ IsBuffer(input', 0 .. arrived) /\ Data(input') = Data(input)
      /\ DataLen(input') = DataLen(input) /\ FreeLen(input') >= ReadWriteSize
  BY <1>1, <1>3, ReceivingIs, ExpandIs, LimitsAssumption
<1>5. error = "none"
  BY <1>1 DEF Receiving, Reading
<1>6. TypeOK' /\ InputTyped' /\ InOrder' /\ Aligned' /\ Whole'
  <2>1. WindowKept
    BY <1>1, <1>4 DEF WindowKept
  <2>2. pduLen' \in Nat
    BY <1>1, ReceivingIs
  <2>3. QED
    BY <1>1, <1>2, <1>5, <2>1, <2>2, WindowStays
<1>7. Reading'
  <2>1. FreeLen(input') \in Nat
    BY <1>4, WindowIs
  <2>2. FreeLen(input') > 0
    BY <1>4, <2>1, LimitsAssumption
  <2>3. QED
    BY <1>1, <1>2, <1>5, <2>2 DEF Reading, FreeLen
<1>8. NothingWhole'
  <2>1. Ends' = Ends
    BY <1>1, EndsStay
  <2>2. Len(given) < Len(sent) => taken < Ends[Len(given) + 1]
    BY <1>1 DEF Receiving, NothingWhole, Parsed
  <2>3. QED
    BY <1>1, <2>1, <2>2 DEF NothingWhole
<1>9. Short' /\ RemoteCloseTrue' /\ BrokenWhileUp'
  BY <1>1, <1>5 DEF Short, RemoteCloseTrue, BrokenWhileUp
<1>10. QED
  BY <1>6, <1>7, <1>8, <1>9 DEF Receiving

\* Bytes are read behind the data.
LEMMA ReceivingRead ==
  ASSUME Receiving, Read
  PROVE  Receiving'
<1>0. /\ IsBuffer(input, 0 .. arrived) /\ DataLen(input) \in Nat /\ FreeLen(input) \in Nat
      /\ taken \in Nat /\ arrived \in Nat /\ pduLen \in Nat
  BY ReceivingIs
<1>1. PICK n \in 1 .. FreeLen(input) :
        /\ taken + n <= arrived
        /\ input' = Pour(input, [i \in 1 .. n |-> taken + i])
        /\ taken' = taken + n
  BY DEF Read
<1>2. /\ pc = "read" /\ pc' = "parse" /\ sent' = sent /\ arrived' = arrived /\ net' = net
      /\ pduLen' = pduLen /\ reads' = reads /\ error' = error /\ given' = given
  BY DEF Read, netVars
<1>3. error = "none"
  BY <1>2 DEF Receiving, Reading
<1> DEFINE s == [i \in 1 .. n |-> taken + i]
<1>4. n \in Nat /\ n <= FreeLen(input) /\ taken + n <= arrived
  BY <1>0, <1>1
<1>5. s \in Seq(0 .. arrived) /\ Len(s) = n /\ \A i \in 1 .. n : s[i] = taken + i
  <2>1. \A i \in 1 .. n : taken + i \in 0 .. arrived
    BY <1>0, <1>4
  <2>2. QED
    BY <1>4, <2>1
<1> HIDE DEF s
<1>6. input' = Pour(input, s)
  BY <1>1 DEF s
<1>7. /\ IsBuffer(input', 0 .. arrived)
      /\ Data(input') = Data(input) \o s
      /\ DataLen(input') = DataLen(input) + n
  <2>1. Len(s) <= FreeLen(input)
    BY <1>4, <1>5
  <2>2. /\ IsBuffer(Pour(input, s), 0 .. arrived)
        /\ Data(Pour(input, s)) = Data(input) \o s
        /\ DataLen(Pour(input, s)) = DataLen(input) + Len(s)
    BY <1>0, <1>5, <2>1, PourIs
  <2>3. QED
    BY <1>5, <1>6, <2>2
<1>8. Ends' = Ends
  BY <1>2, EndsStay
<1>9. TypeOK'
  <2>1. input'.mem \in Seq(0 .. arrived) /\ input'.data \in Nat
        /\ input'.data <= input'.free /\ input'.free <= Len(input'.mem)
    BY <1>7 DEF IsBuffer
  <2>2. taken' \in 0 .. arrived
    BY <1>0, <1>1, <1>4
  <2>3. 0 <= input'.data
    BY <2>1
  <2>4. QED
    BY <1>2, <1>8, <2>1, <2>2, <2>3 DEF Receiving, TypeOK
<1>10. InputTyped'
  BY <1>2, <1>7 DEF InputTyped, IsBuffer
<1>11. InOrder'
  <2>1. /\ Data(input) \in Seq(0 .. arrived) /\ Len(Data(input)) = DataLen(input)
    BY <1>0, WindowIs
  <2>2. \A i \in 1 .. Len(Data(input)) + Len(s) :
          (Data(input) \o s)[i]
            = IF i <= Len(Data(input)) THEN Data(input)[i] ELSE s[i - Len(Data(input))]
    BY <1>5, <2>1, ConcatProperties
  <2>3. ASSUME NEW i \in 1 .. DataLen(input) + n
        PROVE  (Data(input) \o s)[i] = taken - DataLen(input) + i
    <3>1. CASE i <= DataLen(input)
      <4>1. i \in 1 .. DataLen(input) /\ i \in 1 .. Len(Data(input)) + Len(s)
        BY <1>0, <1>4, <1>5, <2>1, <3>1
      <4>2. (Data(input) \o s)[i] = Data(input)[i]
        BY <2>1, <2>2, <3>1, <4>1
      <4>3. QED
        BY <4>1, <4>2 DEF Receiving, InOrder
    <3>2. CASE i > DataLen(input)
      <4> DEFINE h == DataLen(input)
      <4>0. h \in Nat /\ n \in Nat /\ i \in 1 .. h + n /\ i > h
        BY <1>0, <1>4, <3>2
      <4> HIDE DEF h
      <4>5. i - h \in 1 .. n /\ ~ (i <= h)
        BY <4>0
      <4>1. i - DataLen(input) \in 1 .. n /\ i \in 1 .. Len(Data(input)) + Len(s)
            /\ ~ (i <= DataLen(input))
        BY <1>5, <2>1, <4>5 DEF h
      <4>2. (Data(input) \o s)[i] = s[i - DataLen(input)]
        BY <2>1, <2>2, <4>1
      <4>3. s[i - DataLen(input)] = taken + (i - DataLen(input))
        BY <1>5, <4>1
      <4>4. taken + (i - DataLen(input)) = taken - DataLen(input) + i
        BY <1>0, <1>4
      <4>6. QED
        BY <4>2, <4>3, <4>4
    <3>3. i <= DataLen(input) \/ i > DataLen(input)
      BY <1>0, <1>4
    <3>4. QED
      BY <3>1, <3>2, <3>3
  <2>4. taken' - DataLen(input') = taken - DataLen(input)
    BY <1>0, <1>1, <1>4, <1>7
  <2>5. \A i \in 1 .. DataLen(input') : Data(input')[i] = taken' - DataLen(input') + i
    BY <1>7, <2>3, <2>4
  <2>6. QED
    BY <2>5 DEF InOrder, Data, DataLen
<1>12. Aligned'
  <2>1. taken' - DataLen(input') = taken - DataLen(input)
    BY <1>0, <1>1, <1>4, <1>7
  <2>2. taken' - DataLen(input') = Ends'[Len(given')]
    BY <1>2, <1>8, <2>1 DEF Receiving, Aligned
  <2>3. QED
    BY <2>2 DEF Aligned, DataLen
<1>13. Whole'
  BY <1>2, <1>8 DEF Receiving, Whole
<1>14. Reading' /\ NothingWhole' /\ Short' /\ RemoteCloseTrue' /\ BrokenWhileUp'
  BY <1>2, <1>3 DEF Reading, NothingWhole, Parsed, Short, RemoteCloseTrue, BrokenWhileUp
<1>15. QED
  BY <1>9, <1>10, <1>11, <1>12, <1>13, <1>14 DEF Receiving

\* The end of parsing, given that the next PDU is not there whole.
LEMMA ParseEndKeeps ==
  ASSUME Receiving, ParseEnd, Declared \in Nat,
         ~Malformed(Declared) => DataLen(input) < Declared,
         ~Malformed(Declared) /\ Len(given) < Len(sent) => taken < Ends[Len(given) + 1]
  PROVE  Receiving'
<1>1. /\ pc = "parse" /\ pduLen' = Declared /\ pc' = "check"
      /\ sent' = sent /\ arrived' = arrived /\ net' = net /\ taken' = taken
      /\ input' = input /\ reads' = reads /\ error' = error /\ given' = given
  BY DEF ParseEnd, netVars
<1>2. error = "none"
  BY <1>1 DEF Receiving, Reading
<1>3. TypeOK' /\ InputTyped' /\ InOrder' /\ Aligned' /\ Whole'
  <2>1. IsBuffer(input', 0 .. arrived)
    BY <1>1, ReceivingIs
  <2>2. WindowKept
    BY <1>1, <2>1 DEF WindowKept
  <2>3. reads' \in 0 .. MaxReads
    BY <1>1 DEF Receiving, TypeOK
  <2>4. QED
    BY <1>1, <1>2, <2>2, <2>3, WindowStays
<1>4. Reading' /\ RemoteCloseTrue' /\ BrokenWhileUp'
  BY <1>1, <1>2 DEF Reading, RemoteCloseTrue, BrokenWhileUp
<1>5. NothingWhole'
  <2>1. Ends' = Ends
    BY <1>1, EndsStay
  <2>2. Parsed' => ~Malformed(Declared)
    BY <1>1 DEF Parsed, Malformed
  <2>3. QED
    BY <1>1, <2>1, <2>2 DEF NothingWhole
<1>6. Short'
  BY <1>1 DEF Short, Malformed, DataLen
<1>7. QED
  BY <1>3, <1>4, <1>5, <1>6 DEF Receiving

\* Where the next PDU ends, if there is one.
LEMMA NextEnd ==
  ASSUME Receiving, Len(given) + 1 \in 1 .. Len(sent)
  PROVE  /\ sent[Len(given) + 1] \in Nat
         /\ Ends[Len(given)] \in Nat
         /\ Ends[Len(given) + 1] = Ends[Len(given)] + Wire(sent[Len(given) + 1])
         /\ Wire(sent[Len(given) + 1]) \in Nat
         /\ Wire(sent[Len(given) + 1]) >= HeaderLen
         /\ Wire(sent[Len(given) + 1]) >= sent[Len(given) + 1]
<1> DEFINE k == Len(given)
<1>1. k \in Nat /\ sent \in Seq(Nat) /\ Len(sent) \in Nat /\ k <= Len(sent)
  BY ReceivingIs
<1> HIDE DEF k
<1>2. k + 1 \in 1 .. Len(sent)
  BY DEF k
<1>3. sent[k + 1] \in Nat
  BY <1>1, <1>2, ElementOfSeq
<1>4. (k + 1) - 1 = k /\ k \in 0 .. Len(sent)
  BY <1>1
<1>5. Ends[k] \in Nat
  BY <1>1, <1>4, EndsAre
<1>6. Ends[k + 1] = Ends[k] + Wire(sent[k + 1])
  BY <1>1, <1>2, <1>4, EndsAre
<1>7. Wire(sent[k + 1]) \in Nat /\ Wire(sent[k + 1]) >= HeaderLen
      /\ Wire(sent[k + 1]) >= sent[k + 1]
  BY <1>3, WireTyped
<1>8. QED
  BY <1>3, <1>5, <1>6, <1>7 DEF k

\* Parsing ends where the next PDU is not there whole.
LEMMA ReceivingParseEnd ==
  ASSUME Receiving, ParseEnd
  PROVE  Receiving'
<1>0. /\ DataLen(input) \in Nat /\ pduLen \in Nat /\ taken \in Nat
      /\ taken = Ends[Len(given)] + DataLen(input)
      /\ Len(given) \in Nat /\ Len(sent) \in Nat
  BY ReceivingIs
<1>1. /\ pc = "parse" /\ ~Available /\ pduLen' = Declared /\ pc' = "check"
      /\ sent' = sent /\ arrived' = arrived /\ net' = net /\ taken' = taken
      /\ input' = input /\ reads' = reads /\ error' = error /\ given' = given
  BY DEF ParseEnd, netVars
<1>2. error = "none"
  BY <1>1 DEF Receiving, Reading
<1>3. HeaderLen \in Nat /\ HeaderLen > 0 /\ BreakLen \in Nat
  BY LimitsAssumption
<1>4. CASE DataLen(input) < HeaderLen
  <2>1. Declared = pduLen
    BY <1>4 DEF Declared
  <2>2. ~Malformed(pduLen) => DataLen(input) < pduLen
    BY <1>0, <1>3, <1>4 DEF Malformed
  <2>3. ASSUME Len(given) < Len(sent)
        PROVE  taken < Ends[Len(given) + 1]
    <3>1. Len(given) + 1 \in 1 .. Len(sent)
      BY <1>0, <2>3
    <3>2. /\ Ends[Len(given) + 1] = Ends[Len(given)] + Wire(sent[Len(given) + 1])
          /\ Ends[Len(given)] \in Nat /\ Wire(sent[Len(given) + 1]) \in Nat
          /\ Wire(sent[Len(given) + 1]) >= HeaderLen
      BY <3>1, NextEnd
    <3>3. QED
      BY <1>0, <1>3, <1>4, <3>2
  <2>4. Declared \in Nat
    BY <1>0, <2>1
  <2>5. QED
    BY <2>1, <2>2, <2>3, <2>4, ParseEndKeeps
<1>5. CASE DataLen(input) >= HeaderLen
  <2>1. DataLen(input) > 0
    BY <1>0, <1>3, <1>5
  <2>2. /\ Len(given) + 1 \in 1 .. Len(sent)
        /\ Header(Data(input)[1]) = sent[Len(given) + 1]
    BY <2>1, NextPdu
  <2>3. Declared = sent[Len(given) + 1] /\ Declared \in Nat
    <3>1. sent[Len(given) + 1] \in Nat
      BY <2>2, NextEnd
    <3>2. ~ (DataLen(input) < HeaderLen)
      BY <1>0, <1>3, <1>5
    <3>3. QED
      BY <2>2, <3>1, <3>2 DEF Declared
  <2>4. ASSUME ~Malformed(Declared)
        PROVE  DataLen(input) < Declared /\ taken < Ends[Len(given) + 1]
    <3> DEFINE n == Declared
    <3>1. n \in Nat /\ n > HeaderLen
      BY <1>3, <2>3, <2>4 DEF Malformed
    <3>2. ~ (n <= DataLen(input) /\ n >= HeaderLen)
      BY <1>1, <1>5 DEF Available
    <3> HIDE DEF n
    <3>3. DataLen(input) < n
      BY <1>0, <1>3, <3>1, <3>2
    <3>4. /\ Ends[Len(given) + 1] = Ends[Len(given)] + Wire(n)
          /\ Ends[Len(given)] \in Nat /\ Wire(n) \in Nat /\ Wire(n) >= n
      BY <2>2, <2>3, NextEnd DEF n
    <3>5. taken < Ends[Len(given) + 1]
      BY <1>0, <3>1, <3>3, <3>4
    <3>6. QED
      BY <3>3, <3>5 DEF n
  <2>5. QED
    BY <2>3, <2>4, ParseEndKeeps
<1>6. QED
  BY <1>0, <1>3, <1>4, <1>5

\* The length that a header declares is that of the PDU it begins.
LEMMA DeclaredIs ==
  ASSUME Receiving, Available
  PROVE  /\ Len(given) + 1 \in 1 .. Len(sent)
         /\ Declared = sent[Len(given) + 1] /\ Declared \in Nat
         /\ Declared > 0 /\ Declared <= DataLen(input)
         /\ Ends[Len(given) + 1] = Ends[Len(given)] + Declared
<1>0. DataLen(input) \in Nat
  BY ReceivingIs
<1>1. HeaderLen \in Nat /\ HeaderLen > 0
  BY LimitsAssumption
<1>2. DataLen(input) >= HeaderLen /\ Declared <= DataLen(input) /\ Declared >= HeaderLen
  BY DEF Available
<1>3. DataLen(input) > 0 /\ ~ (DataLen(input) < HeaderLen)
  BY <1>0, <1>1, <1>2
<1>4. /\ Len(given) + 1 \in 1 .. Len(sent)
      /\ Header(Data(input)[1]) = sent[Len(given) + 1]
  BY <1>3, NextPdu
<1>5. Declared = sent[Len(given) + 1] /\ Declared \in Nat
  <2>1. sent[Len(given) + 1] \in Nat
    BY <1>4, NextEnd
  <2>2. QED
    BY <1>3, <1>4, <2>1 DEF Declared
<1> DEFINE n == Declared
<1> HIDE DEF n
<1>6. n \in Nat /\ n >= HeaderLen /\ n <= DataLen(input)
  BY <1>2, <1>5 DEF n
<1>7. n > 0 /\ Wire(n) = n
  BY <1>1, <1>6 DEF Wire
<1>8. Ends[Len(given) + 1] = Ends[Len(given)] + n
  <2>1. Ends[Len(given) + 1] = Ends[Len(given)] + Wire(n)
    BY <1>4, <1>5, NextEnd DEF n
  <2>2. QED
    BY <1>7, <2>1
<1>9. QED
  BY <1>4, <1>5, <1>6, <1>7, <1>8 DEF n

\* The next PDU is cut out of the data and given.
LEMMA ReceivingDeliver ==
  ASSUME Receiving, Deliver
  PROVE  Receiving'
<1>1. /\ pc = "parse" /\ Available /\ pduLen' = Declared
      /\ given' = Append(given, SubSeq(Data(input), 1, Declared))
      /\ input' = Drain(input, Declared) /\ pc' = "parse"
      /\ sent' = sent /\ arrived' = arrived /\ net' = net /\ taken' = taken
      /\ reads' = reads /\ error' = error
  BY DEF Deliver, ParseMore, netVars
<1>2. error = "none"
  BY <1>1 DEF Receiving, Reading
<1> DEFINE k == Len(given)
           n == Declared
           pdu == SubSeq(Data(input), 1, n)
<1>3. /\ k + 1 \in 1 .. Len(sent) /\ n = sent[k + 1] /\ n \in Nat /\ n > 0
      /\ n <= DataLen(input) /\ Ends[k + 1] = Ends[k] + n
      /\ k \in Nat /\ Ends[k] \in Nat /\ k < Len(sent)
  <2>1. k \in Nat /\ Ends[k] \in Nat
    BY ReceivingIs
  <2>2. /\ k + 1 \in 1 .. Len(sent) /\ n = sent[k + 1] /\ n \in Nat /\ n > 0
        /\ n <= DataLen(input) /\ Ends[k + 1] = Ends[k] + n
    BY <1>1, DeclaredIs
  <2> HIDE DEF n
  <2>3. k < Len(sent)
    BY <2>1, <2>2, ReceivingIs
  <2>4. QED
    BY <2>1, <2>2, <2>3
<1>4. input' = Drain(input, n) /\ given' = Append(given, pdu) /\ pduLen' = n
  BY <1>1
<1> HIDE DEF n
<1> DEFINE h == DataLen(input)
<1>5. /\ n \in Nat /\ n > 0 /\ n <= h /\ h \in Nat /\ Ends[k] \in Nat
      /\ taken \in Nat /\ arrived \in Nat /\ taken <= arrived
      /\ taken = Ends[k] + h /\ Ends[k + 1] = Ends[k] + n
      /\ IsBuffer(input, 0 .. arrived)
  BY <1>3, ReceivingIs
<1>6. /\ IsBuffer(input', 0 .. arrived)
      /\ Data(input') = SubSeq(Data(input), n + 1, DataLen(input))
      /\ DataLen(input') = DataLen(input) - n
  <2>1. n \in 0 .. DataLen(input)
    BY <1>5
  <2>2. QED
    BY <1>4, <1>5, <2>1, DrainIs
<1>7. /\ Data(input) \in Seq(0 .. arrived) /\ Len(Data(input)) = DataLen(input)
      /\ \A i \in 1 .. DataLen(input) : Data(input)[i] = Ends[k] + i
  <2>1. taken - DataLen(input) = Ends[k]
    BY DEF Receiving, Aligned
  <2>2. \A i \in 1 .. DataLen(input) : Data(input)[i] = taken - DataLen(input) + i
    BY DEF Receiving, InOrder
  <2>3. QED
    BY <1>5, <2>1, <2>2, WindowIs
<1> HIDE DEF h
<1>8. /\ pdu \in Seq(1 .. arrived)
      /\ pdu = [j \in 1 .. n |-> Ends[k] + j]
  <2> DEFINE d == Data(input)
  <2> HIDE DEF d
  <2>1. \A i \in 1 .. n : d[i] = Ends[k] + i /\ d[i] \in 1 .. arrived
    <3>1. \A i \in 1 .. n : i \in 1 .. h
      BY <1>5
    <3>2. \A i \in 1 .. n : d[i] = Ends[k] + i
      BY <1>7, <3>1 DEF d, h
    <3>3. \A i \in 1 .. n : Ends[k] + i \in 1 .. arrived
      BY <1>5, SMTT(30)
    <3>4. QED
      BY <3>2, <3>3
  <2>2. /\ SubSeq(d, 1, n) \in Seq(1 .. arrived)
        /\ Len(SubSeq(d, 1, n)) = IF 1 <= n THEN n - 1 + 1 ELSE 0
        /\ \A i \in 1 .. n - 1 + 1 : SubSeq(d, 1, n)[i] = d[1 + i - 1]
    BY <1>5, <2>1, SubSeqProperties
  <2>3. pdu = SubSeq(d, 1, n)
    BY DEF d
  <2> HIDE DEF pdu
  <2>4. pdu \in Seq(1 .. arrived) /\ Len(pdu) = n
        /\ \A i \in 1 .. n : pdu[i] = Ends[k] + i
    BY <1>5, <2>1, <2>2, <2>3
  <2>5. pdu \in [1 .. n -> 1 .. arrived]
    BY <2>4, LenProperties
  <2>6. QED
    BY <2>4, <2>5
<1> HIDE DEF pdu
<1>9. /\ given' \in Seq(Seq(1 .. arrived)) /\ Len(given') = k + 1
      /\ \A i \in 1 .. k : given'[i] = given[i]
      /\ given'[k + 1] = pdu
  <2>1. given \in Seq(Seq(1 .. arrived))
    BY ReceivingIs
  <2>2. QED
    BY <1>4, <1>8, <2>1, AppendProperties
<1>10. Ends' = Ends
  BY <1>1, EndsStay
<1>11. TypeOK'
  <2>1. input'.mem \in Seq(0 .. arrived) /\ input'.data \in Nat
        /\ input'.data <= input'.free /\ input'.free <= Len(input'.mem)
    BY <1>6 DEF IsBuffer
  <2>2. 0 <= input'.data
    BY <2>1
  <2>3. pduLen' \in Nat
    BY <1>3, <1>4
  <2>4. QED
    BY <1>1, <1>9, <1>10, <2>1, <2>2, <2>3 DEF Receiving, TypeOK
<1>12. InputTyped'
  BY <1>1, <1>6 DEF InputTyped, IsBuffer
<1>13. taken' - DataLen(input') = Ends[k + 1]
  <2>1. taken' = taken /\ DataLen(input') = h - n
    BY <1>1, <1>6 DEF h
  <2>2. QED
    BY <1>5, <2>1
<1>14. InOrder'
  <2> DEFINE d == Data(input)
             r == SubSeq(d, n + 1, h)
  <2>1. Data(input') = r /\ DataLen(input') = h - n
    BY <1>6 DEF h
  <2>2. \A i \in 1 .. h : d[i] = Ends[k] + i /\ d[i] \in 0 .. arrived
    BY <1>7, ElementOfSeq DEF h
  <2> HIDE DEF d
  <2>3. /\ n + 1 \in Int /\ h \in Int /\ h - (n + 1) + 1 = h - n
        /\ \A i \in n + 1 .. h : i \in 1 .. h
        /\ \A i \in 1 .. h - n : n + i \in 1 .. h /\ n + 1 + i - 1 = n + i
    BY <1>5
  <2>5. \A i \in n + 1 .. h : d[i] \in 0 .. arrived
    BY <2>2, <2>3
  <2>6. \A i \in 1 .. h - (n + 1) + 1 : r[i] = d[n + 1 + i - 1]
    BY <2>3, <2>5, SubSeqProperties
  <2> HIDE DEF r
  <2>7. \A i \in 1 .. h - n : r[i] = d[n + i] /\ d[n + i] = Ends[k] + (n + i)
    BY <2>2, <2>3, <2>6
  <2>8. \A i \in 1 .. h - n : Ends[k] + (n + i) = Ends[k + 1] + i
    BY <1>5
  <2>9. \A i \in 1 .. h - n : r[i] = Ends[k + 1] + i
    BY <2>7, <2>8
  <2>4. \A i \in 1 .. DataLen(input') : Data(input')[i] = taken' - DataLen(input') + i
    BY <1>13, <2>1, <2>9
  <2>10. QED
    BY <2>4 DEF InOrder, Data, DataLen
<1>15. Aligned'
  <2>1. taken' - DataLen(input') = Ends'[Len(given')]
    BY <1>9, <1>10, <1>13
  <2>2. QED
    BY <2>1 DEF Aligned, DataLen
<1>16. Whole'
  <2>1. Len(given') <= Len(sent')
    BY <1>1, <1>3, <1>9
  <2>2. ASSUME NEW i \in 1 .. Len(given')
        PROVE  given'[i] = [j \in 1 .. sent[i] |-> Ends[i - 1] + j]
    <3>1. CASE i = k + 1
      <4>1. i - 1 = k
        BY <3>1
      <4>2. QED
        BY <1>3, <1>8, <1>9, <3>1, <4>1
    <3>2. CASE i # k + 1
      <4>1. i \in 1 .. k
        BY <1>9, <3>2
      <4>2. QED
        BY <1>9, <4>1 DEF Receiving, Whole
    <3>3. QED
      BY <3>1, <3>2
  <2>3. \A i \in 1 .. Len(given') :
          given'[i] = [j \in 1 .. sent'[i] |-> Ends'[i - 1] + j]
    BY <1>1, <1>10, <2>2
  <2>4. QED
    BY <2>1, <2>3 DEF Whole
<1>17. Reading' /\ NothingWhole' /\ Short' /\ RemoteCloseTrue' /\ BrokenWhileUp'
  BY <1>1, <1>2 DEF Reading, NothingWhole, Parsed, Short, RemoteCloseTrue, BrokenWhileUp
<1>18. QED
  BY <1>11, <1>12, <1>14, <1>15, <1>16, <1>17 DEF Receiving

\* A step of the sending side leaves what was received alone.
LEMMA ReceivingStays ==
  ASSUME Receiving, UNCHANGED vars
  PROVE  Receiving'
<1>1. /\ sent' = sent /\ arrived' = arrived /\ net' = net /\ taken' = taken
      /\ input' = input /\ pc' = pc /\ pduLen' = pduLen /\ reads' = reads
      /\ error' = error /\ given' = given
  BY DEF vars, netVars
<1>2. Ends' = Ends
  BY <1>1, EndsStay
<1>3. TypeOK'
  BY <1>1, <1>2 DEF Receiving, TypeOK
<1>4. InOrder' /\ Aligned' /\ Whole' /\ InputTyped'
  BY <1>1, <1>2 DEF Receiving, InOrder, Aligned, Whole, Data, DataLen, InputTyped, IsBuffer
<1>5. NothingWhole' /\ Short'
  BY <1>1, <1>2 DEF Receiving, NothingWhole, Parsed, Malformed, Short, DataLen
<1>6. Reading'
  BY <1>1 DEF Receiving, Reading, FreeLen
<1>7. RemoteCloseTrue' /\ BrokenWhileUp'
  <2>1. Behind' = Behind
    BY <1>1, <1>2 DEF Behind
  <2>2. QED
    BY <1>1, <2>1 DEF Receiving, RemoteCloseTrue, BrokenWhileUp
<1>8. QED
  BY <1>3, <1>4, <1>5, <1>6, <1>7 DEF Receiving

\* Every step preserves the invariant of the receiving side.
LEMMA ReceivingStep ==
  ASSUME Receiving, [StreamNext]_streamVars
  PROVE  Receiving'
<1>1. CASE Next
  BY <1>1, ReceivingArrive, ReceivingHangup, ReceivingReadEvent, ReceivingRead,
     ReceivingReadEnd, ReceivingReadFail, ReceivingDeliver, ReceivingParseEnd,
     ReceivingParseBroken, ReceivingParseDone, ReceivingReadAgain
     DEF Next, ReadData
<1>2. CASE Post \/ WriteData \/ Ack \/ UNCHANGED streamVars
  <2>1. UNCHANGED vars
    BY <1>2 DEF Post, WriteData, WriteNone, Write, WriteFail, Ack, streamVars
  <2>2. QED
    BY <2>1, ReceivingStays
<1>3. QED
  BY <1>1, <1>2 DEF StreamNext

----------------------------------------------------------------------------
(* The memory of the receiving side.                                       *)

\* What the bound has room for.
LEMMA LongestIs ==
  /\ Longest \in Nat
  /\ 2 * (ReadWriteSize + BreakLen) <= Longest
  /\ 5 * BreakLen < 2 * Longest
<1> DEFINE q == BreakLen \div 4
<1>1. BreakLen \in Nat /\ ReadWriteSize \in Nat /\ ReadWriteSize > 0
  BY LimitsAssumption
<1>2. q \in Nat /\ 4 * q <= BreakLen /\ BreakLen < 4 * q + 4
  BY <1>1
<1>3. Longest = 2 * (BreakLen + ReadWriteSize + q)
  BY DEF Longest
<1> HIDE DEF q
<1>4. QED
  BY <1>1, <1>2, <1>3

\* Making room for a read, with part of one PDU in the buffer, stays within it.
LEMMA RoomBounded ==
  ASSUME FirstFits, NEW S, 0 \in S, NEW b, IsBuffer(b, S),
         Len(b.mem) <= Longest, DataLen(b) <= BreakLen
  PROVE  Len(Expand(b, ReadWriteSize).mem) <= Longest
<1> DEFINE m == Len(Expand(b, ReadWriteSize).mem)
           n == DataLen(b)
<1>1. ReadWriteSize \in Nat /\ BreakLen \in Nat
  BY LimitsAssumption
<1>2. /\ IsBuffer(Expand(b, ReadWriteSize), S)
      /\ \/ m <= Len(b.mem)
         \/ m = FirstSize
         \/ m < 2 * (ReadWriteSize + n)
         \/ 2 * m < 5 * n
  BY <1>1, ExpandIs
<1>3. m \in Nat /\ Len(b.mem) \in Nat /\ n \in Nat
  BY <1>2, WindowIs, LenProperties DEF IsBuffer
<1>4. FirstSize <= Longest /\ FirstSize \in Nat
  BY SizesAssumption DEF FirstFits
<1> HIDE DEF m, n
<1>5. n <= BreakLen
  BY DEF n
<1>6. m <= Longest
  BY <1>1, <1>2, <1>3, <1>4, <1>5, LongestIs
<1>7. QED
  BY <1>6 DEF m

\* Every step keeps to the bound.
LEMMA BoundedStep ==
  ASSUME FirstFits, Receiving, Bounded, [StreamNext]_streamVars
  PROVE  Bounded'
<1>1. /\ IsBuffer(input, 0 .. arrived) /\ 0 \in 0 .. arrived
      /\ DataLen(input) \in Nat /\ Len(input.mem) \in Nat
      /\ Len(input.mem) <= Longest
  BY ReceivingIs, LenProperties DEF Bounded, Longest, IsBuffer
<1>2. Longest \in Nat
  BY LongestIs
<1>3. ASSUME NEW reason, Return(reason)
      PROVE  Bounded'
  <2>1. input' = Shrink(input)
    BY <1>3 DEF Return
  <2>2. IsBuffer(Shrink(input), 0 .. arrived) /\ Len(Shrink(input).mem) <= Len(input.mem)
    BY <1>1, ShrinkIs
  <2>3. Len(Shrink(input).mem) \in Nat
    BY <2>2, LenProperties DEF IsBuffer
  <2>4. Len(input'.mem) <= Longest
    BY <1>1, <1>2, <2>1, <2>2, <2>3
  <2>5. QED
    BY <2>4 DEF Bounded, Longest
<1>4. CASE ReadEvent
  <2>1. DataLen(input) <= BreakLen /\ input' = Expand(input, ReadWriteSize)
    BY <1>4 DEF ReadEvent, Room, Receiving, Short
  <2>2. Len(input'.mem) <= Longest
    BY <1>1, <2>1, RoomBounded
  <2>3. QED
    BY <2>2 DEF Bounded, Longest
<1>5. CASE Read
  <2>1. PICK n \in 1 .. FreeLen(input) :
          taken + n <= arrived /\ input' = Pour(input, [i \in 1 .. n |-> taken + i])
    BY <1>5 DEF Read
  <2> DEFINE s == [i \in 1 .. n |-> taken + i]
  <2>2. n \in Nat /\ n <= FreeLen(input) /\ taken \in Nat
    BY ReceivingIs
  <2>3. s \in Seq(Nat) /\ Len(s) = n
    BY <2>2, RampIs
  <2> HIDE DEF s
  <2>4. IsBuffer(input, Nat)
    <3>1. 0 .. arrived \subseteq Nat
      OBVIOUS
    <3>2. Seq(0 .. arrived) \subseteq Seq(Nat)
      BY <3>1, SeqMonotonic
    <3>3. QED
      BY <1>1, <3>2 DEF IsBuffer
  <2>5. Len(Pour(input, s).mem) = Len(input.mem)
    BY <2>2, <2>3, <2>4, PourIs
  <2>6. Len(input'.mem) <= Longest
    BY <1>1, <2>1, <2>5 DEF s
  <2>7. QED
    BY <2>6 DEF Bounded, Longest
<1>6. CASE Deliver
  <2>1. Available /\ input' = Drain(input, Declared)
    BY <1>6 DEF Deliver
  <2>2. Declared \in 0 .. DataLen(input)
    BY <1>1, <2>1, DeclaredIs
  <2>3. input'.mem = input.mem
    BY <1>1, <2>1, <2>2, DrainIs
  <2>4. QED
    BY <2>3 DEF Bounded
<1>7. CASE ReadAgain
  <2>1. /\ pc = "check" /\ ~Malformed(pduLen)
        /\ input' = Expand(input, ReadWriteSize) \/ input' = input
    BY <1>7 DEF ReadAgain, Room
  <2>2. DataLen(input) < pduLen /\ pduLen <= BreakLen /\ pduLen \in Nat
    BY <2>1, ReceivingIs, LimitsAssumption DEF Receiving, Short, Malformed
  <2>3. DataLen(input) <= BreakLen
    BY <1>1, <2>2, LimitsAssumption
  <2>4. Len(input'.mem) <= Longest
    BY <1>1, <2>1, <2>3, RoomBounded
  <2>5. QED
    BY <2>4 DEF Bounded, Longest
<1>8. CASE UNCHANGED input
  BY <1>8 DEF Bounded
<1>9. QED
  <2>1. CASE Next
    BY <2>1, <1>3, <1>4, <1>5, <1>6, <1>7, <1>8
       DEF Next, Arrive, Hangup, ReadData, ReadEnd, ReadFail, ParseEnd, ParseBroken, ParseDone
  <2>2. CASE Post \/ WriteData \/ Ack \/ UNCHANGED streamVars
    BY <2>2, <1>8 DEF Post, WriteData, WriteNone, Write, WriteFail, Ack, streamVars, vars
  <2>3. QED
    BY <2>1, <2>2 DEF StreamNext

----------------------------------------------------------------------------
(* The typed reads and writes.                                             *)

\* The quotient and the remainder of a division.
LEMMA DivisionIs ==
  ASSUME NEW n \in Nat, NEW d \in Nat, d > 0
  PROVE  /\ n \div d \in Nat /\ n % d \in 0 .. d - 1
         /\ n = d * (n \div d) + (n % d)
OBVIOUS

\* A division by a product is a division behind another.
LEMMA DivisionTwice ==
  ASSUME NEW n \in Nat, NEW d \in Nat, d > 0, NEW c \in Nat, c > 0
  PROVE  n \div (c * d) = (n \div d) \div c
OBVIOUS

\* A product of naturals is one, in either order.
LEMMA ProductIs ==
  ASSUME NEW c \in Nat, NEW d \in Nat
  PROVE  c * d \in Nat /\ c * d = d * c
OBVIOUS

\* What is less than the divisor has the quotient 0, and 1 divides all.
LEMMA SmallQuotient ==
  ASSUME NEW n \in Nat
  PROVE  /\ n \div 1 = n
         /\ \A d \in Nat : n < d => n \div d = 0
OBVIOUS

\* Power satisfies its definition, and its values are positive.
LEMMA PowerIs ==
  /\ Power \in [Nat -> Nat]
  /\ Power[0] = 1 /\ \A w \in Nat \ {0} : Power[w] = Radix * Power[w - 1]
  /\ \A w \in Nat : Power[w] > 0
<1> DEFINE step == [p \in Nat \X Nat |-> Radix * p[2]]
           Eq(P) == P = [w \in Nat |-> IF w = 0 THEN 1 ELSE Radix * P[w - 1]]
<1>1. Radix \in Nat /\ Radix > 0 /\ 1 \in Nat
  BY RadixAssumption
<1>2. step \in [Nat \X Nat -> Nat]
  BY <1>1
<1>3. \A i, m \in Nat : step[<<i, m>>] = Radix * m
  BY <1>1
<1> HIDE DEF step
<1>4. PICK g \in [Nat -> Nat] : ComputesAll(g, 1, step)
  BY <1>1, <1>2, RecursionOnNat
<1>5. g[0] = 1 /\ \A i \in Nat \ {0} : g[i] = step[<<i, g[i - 1]>>]
  BY <1>4 DEF ComputesAll
<1>6. Eq(g)
  <2>1. \A w \in Nat \ {0} : w - 1 \in Nat /\ g[w - 1] \in Nat
    OBVIOUS
  <2>2. \A w \in Nat \ {0} : g[w] = Radix * g[w - 1]
    BY <1>3, <1>5, <2>1
  <2>3. \A w \in Nat : g[w] = IF w = 0 THEN 1 ELSE Radix * g[w - 1]
    BY <1>5, <2>2
  <2>4. QED
    BY <2>3
<1>7. Eq(Power)
  <2>1. Power = CHOOSE P : Eq(P)
    BY DEF Power
  <2> HIDE DEF Eq
  <2>2. QED
    BY <1>6, <2>1
<1>8. Power[0] = 1 /\ \A w \in Nat \ {0} : Power[w] = Radix * Power[w - 1]
  BY <1>7
<1> DEFINE T == {w \in Nat : Power[w] \in Nat /\ Power[w] > 0}
<1>9. 0 \in T
  BY <1>8
<1>10. ASSUME NEW w \in Nat, w \in T
       PROVE  w + 1 \in T
  <2>1. Power[w] \in Nat /\ Power[w] > 0 /\ (w + 1) - 1 = w /\ w + 1 \in Nat \ {0}
    BY <1>10
  <2>2. Power[w + 1] = Radix * Power[w]
    BY <1>8, <2>1
  <2>3. QED
    BY <1>1, <2>1, <2>2
<1> HIDE DEF T
<1>11. Nat \subseteq T
  BY <1>9, <1>10, Induct
<1>12. \A w \in Nat : Power[w] \in Nat /\ Power[w] > 0
  BY <1>11 DEF T
<1>13. Power \in [Nat -> Nat]
  BY <1>7, <1>12
<1>14. QED
  BY <1>8, <1>12, <1>13

\* What readInt.. computes, byte by byte.
LEMMA UnsignedIs ==
  ASSUME NEW s \in Seq(Nat)
  PROVE  \E N \in [0 .. Len(s) -> Nat] :
           /\ N[0] = 0 /\ \A j \in 1 .. Len(s) : N[j] = N[j - 1] * Radix + s[j]
           /\ Unsigned(s) = N[Len(s)]
<1> DEFINE step == [p \in Nat \X Nat |->
                      p[2] * Radix + (IF p[1] \in 1 .. Len(s) THEN s[p[1]] ELSE 0)]
           Eq(N) == N = [i \in 0 .. Len(s) |-> IF i = 0 THEN 0 ELSE N[i - 1] * Radix + s[i]]
           N == CHOOSE N : Eq(N)
<1>1. Len(s) \in Nat /\ (\A i \in 1 .. Len(s) : s[i] \in Nat) /\ Radix \in Nat
  BY RadixAssumption
<1>2. step \in [Nat \X Nat -> Nat]
  BY <1>1
<1>3. \A i \in 1 .. Len(s) : \A n \in Nat : step[<<i, n>>] = n * Radix + s[i]
  <2> SUFFICES ASSUME NEW i \in 1 .. Len(s), NEW n \in Nat
               PROVE  step[<<i, n>>] = n * Radix + s[i]
    OBVIOUS
  <2>1. i \in Nat
    BY <1>1
  <2>2. QED
    BY <2>1, SMTT(30)
<1> HIDE DEF step
<1>4. PICK g \in [0 .. Len(s) -> Nat] : Computes(g, Len(s), 0, step)
  BY <1>1, <1>2, Recursion
<1>5. Eq(g)
  <2>0. \A i \in 1 .. Len(s) : i - 1 \in 0 .. Len(s)
    BY <1>1
  <2>1. \A i \in 1 .. Len(s) : i - 1 \in 0 .. Len(s) /\ g[i - 1] \in Nat
    BY <2>0
  <2>2. \A i \in 1 .. Len(s) : g[i] = g[i - 1] * Radix + s[i]
    BY <1>3, <1>4, <2>1 DEF Computes
  <2>3. \A i \in 0 .. Len(s) : g[i] = IF i = 0 THEN 0 ELSE g[i - 1] * Radix + s[i]
    BY <1>1, <1>4, <2>2 DEF Computes
  <2>4. QED
    BY <2>3
<1>6. Eq(N)
  <2> HIDE DEF Eq
  <2>1. QED
    BY <1>5
<1>7. Unsigned(s) = N[Len(s)]
  BY DEF Unsigned
<1> HIDE DEF N
<1>8. N[0] = 0 /\ \A j \in 1 .. Len(s) : N[j] = N[j - 1] * Radix + s[j]
  <2>1. 0 \in 0 .. Len(s) /\ \A j \in 1 .. Len(s) : j \in 0 .. Len(s) /\ j # 0
    BY <1>1
  <2>2. \A j \in 0 .. Len(s) : N[j] = IF j = 0 THEN 0 ELSE N[j - 1] * Radix + s[j]
    BY <1>6
  <2>3. QED
    BY <2>1, <2>2
<1> DEFINE T == {k \in Nat : k <= Len(s) => N[k] \in Nat}
<1>9. 0 \in T
  BY <1>8
<1>10. ASSUME NEW k \in Nat, k \in T
       PROVE  k + 1 \in T
  <2> SUFFICES ASSUME k + 1 <= Len(s) PROVE N[k + 1] \in Nat
    OBVIOUS
  <2>1. k + 1 \in 1 .. Len(s) /\ (k + 1) - 1 = k /\ N[k] \in Nat /\ s[k + 1] \in Nat
    BY <1>1, <1>10
  <2>2. N[k + 1] = N[k] * Radix + s[k + 1]
    BY <1>8, <2>1
  <2>3. N[k] * Radix \in Nat
    BY <1>1, <2>1, ProductIs
  <2>4. QED
    BY <2>1, <2>2, <2>3
<1> HIDE DEF T
<1>11. Nat \subseteq T
  BY <1>9, <1>10, Induct
<1>12. N \in [0 .. Len(s) -> Nat]
  <2>1. \A k \in 0 .. Len(s) : N[k] \in Nat
    BY <1>1, <1>11 DEF T
  <2>2. QED
    BY <1>6, <2>1
<1>13. QED
  BY <1>7, <1>8, <1>12

\* The low bytes of a number.
LEMMA DigitsAre ==
  ASSUME NEW n \in Nat, NEW w \in Nat
  PROVE  /\ Digits(n, w) \in Seq(Byte) /\ Digits(n, w) \in Seq(Nat)
         /\ Len(Digits(n, w)) = w
         /\ \A i \in 1 .. w : Digits(n, w)[i] = (n \div Power[w - i]) % Radix
<1> DEFINE d == Digits(n, w)
<1>1. ASSUME NEW i \in 1 .. w
      PROVE  (n \div Power[w - i]) % Radix \in Byte
  <2>1. w - i \in Nat
    OBVIOUS
  <2>2. Power[w - i] \in Nat /\ Power[w - i] > 0
    BY <2>1, PowerIs
  <2>3. n \div Power[w - i] \in Nat
    BY <2>2, DivisionIs
  <2>4. Radix \in Nat /\ Radix > 0
    BY RadixAssumption
  <2>5. QED
    BY <2>3, <2>4, DivisionIs DEF Byte
<1>2. Byte \subseteq Nat
  BY RadixAssumption DEF Byte
<1>3. d = [i \in 1 .. w |-> (n \div Power[w - i]) % Radix]
  BY DEF Digits
<1>4. d \in [1 .. w -> Byte] /\ d \in [1 .. w -> Nat]
  BY <1>1, <1>2, <1>3
<1>5. d \in Seq(Byte) /\ d \in Seq(Nat) /\ Len(d) = w
  <2> HIDE DEF d
  <2>1. QED
    BY <1>4
<1>6. QED
  BY <1>3, <1>5

\* What was written is read.
LEMMA DigitsRead ==
  ASSUME NEW w \in Nat, NEW n \in Nat, n < Power[w]
  PROVE  Unsigned(Digits(n, w)) = n
<1> DEFINE s == Digits(n, w)
<1>1. n \in Nat /\ n < Power[w] /\ Power[w] \in Nat /\ Radix \in Nat /\ Radix > 0
  BY PowerIs, RadixAssumption
<1>2. s \in Seq(Nat) /\ Len(s) = w
      /\ \A i \in 1 .. w : s[i] = (n \div Power[w - i]) % Radix
  BY <1>1, DigitsAre
<1> HIDE DEF s
<1>3. PICK N \in [0 .. w -> Nat] :
        /\ N[0] = 0 /\ \A j \in 1 .. w : N[j] = N[j - 1] * Radix + s[j]
        /\ Unsigned(s) = N[w]
  BY <1>2, UnsignedIs
<1> DEFINE T == {i \in Nat : i <= w => N[i] = n \div Power[w - i]}
<1>4. 0 \in T
  <2>1. n \div Power[w] = 0
    BY <1>1, SmallQuotient
  <2>2. w - 0 = w
    OBVIOUS
  <2>3. QED
    BY <1>3, <2>1, <2>2
<1>5. ASSUME NEW i \in Nat, i \in T
      PROVE  i + 1 \in T
  <2> SUFFICES ASSUME i + 1 <= w PROVE N[i + 1] = n \div Power[w - (i + 1)]
    OBVIOUS
  <2> DEFINE p == Power[w - (i + 1)]
             q == n \div p
  <2>1. /\ i + 1 \in 1 .. w /\ (i + 1) - 1 = i /\ i <= w /\ w - (i + 1) \in Nat
        /\ w - i \in Nat \ {0} /\ (w - i) - 1 = w - (i + 1)
    OBVIOUS
  <2>2. p \in Nat /\ p > 0 /\ Power[w - i] = Radix * p
    BY <2>1, PowerIs
  <2>3. N[i] = n \div (Radix * p) /\ N[i + 1] = N[i] * Radix + (q % Radix)
    BY <1>2, <1>3, <1>5, <2>1, <2>2
  <2>4. q \in Nat
    BY <1>1, <2>2, DivisionIs
  <2> HIDE DEF p
  <2>5. N[i] = q \div Radix
    <3>1. n \div (Radix * p) = (n \div p) \div Radix
      <4> DEFINE R == Radix
      <4>1. R \in Nat /\ R > 0 /\ p \in Nat /\ p > 0 /\ n \in Nat
        BY <1>1, <2>2
      <4> HIDE DEF R
      <4>2. n \div (R * p) = (n \div p) \div R
        BY <4>1, DivisionTwice
      <4>3. QED
        BY <4>2 DEF R
    <3>2. QED
      BY <2>3, <3>1
  <2> HIDE DEF q
  <2>6. q = Radix * (q \div Radix) + (q % Radix) /\ q \div Radix \in Nat
    BY <1>1, <2>4, DivisionIs
  <2>7. N[i + 1] = q
    <3> DEFINE a == q \div Radix
               r == q % Radix
    <3>1. a \in Nat /\ N[i + 1] = a * Radix + r /\ q = Radix * a + r
      BY <2>3, <2>5, <2>6
    <3> HIDE DEF a, r
    <3>2. a * Radix = Radix * a
      BY <1>1, <3>1, ProductIs
    <3>3. QED
      BY <3>1, <3>2
  <2>8. QED
    BY <2>7 DEF p, q
<1> HIDE DEF T
<1>6. w \in T
  BY <1>4, <1>5, Induct
<1>7. N[w] = n
  <2>1. N[w] = n \div Power[0]
    BY <1>6 DEF T
  <2>2. n \div 1 = n
    BY <1>1, SmallQuotient
  <2>3. QED
    BY <2>1, <2>2, PowerIs
<1>8. QED
  BY <1>3, <1>7 DEF s

\* The data of b holds s behind its first n bytes.
Holds(b, n, s) ==
  /\ n + Len(s) <= DataLen(b)
  /\ \A i \in 1 .. Len(s) : b.mem[b.data + (n + i)] = s[i]

\* The data of c begins with that of b.
Keeps(c, b) ==
  /\ DataLen(b) <= DataLen(c)
  /\ \A i \in 1 .. DataLen(b) : c.mem[c.data + i] = b.mem[b.data + i]

\* What is kept is held.
LEMMA KeptIsHeld ==
  ASSUME NEW b, IsBuffer(b, Nat), NEW c, IsBuffer(c, Nat), Keeps(c, b),
         NEW n \in Nat, NEW s \in Seq(Nat), Holds(b, n, s)
  PROVE  Holds(c, n, s)
<1>1. DataLen(b) \in Nat /\ DataLen(c) \in Nat /\ Len(s) \in Nat
  BY WindowIs
<1>2. n + Len(s) <= DataLen(c)
  BY <1>1 DEF Holds, Keeps
<1>3. ASSUME NEW i \in 1 .. Len(s)
      PROVE  c.mem[c.data + (n + i)] = s[i]
  <2>1. n + i \in 1 .. DataLen(b)
    BY <1>1 DEF Holds
  <2>2. QED
    BY <2>1 DEF Holds, Keeps
<1>4. QED
  BY <1>2, <1>3 DEF Holds

\* What is kept is kept on.
LEMMA KeptOn ==
  ASSUME NEW a, IsBuffer(a, Nat), NEW b, IsBuffer(b, Nat), NEW c, IsBuffer(c, Nat),
         Keeps(b, a), Keeps(c, b)
  PROVE  Keeps(c, a)
<1>1. DataLen(a) \in Nat /\ DataLen(b) \in Nat /\ DataLen(c) \in Nat
  BY WindowIs
<1>2. DataLen(a) <= DataLen(b) /\ DataLen(b) <= DataLen(c)
  BY DEF Keeps
<1>3. \A i \in 1 .. DataLen(a) : i \in 1 .. DataLen(b)
  BY <1>1, <1>2
<1>4. QED
  BY <1>1, <1>2, <1>3 DEF Keeps

\* The same data is kept.
LEMMA SameIsKept ==
  ASSUME NEW b, IsBuffer(b, Nat), NEW c, IsBuffer(c, Nat), Data(c) = Data(b)
  PROVE  Keeps(c, b) /\ DataLen(c) = DataLen(b)
<1>1. /\ Len(Data(b)) = DataLen(b) /\ DataLen(b) \in Nat
      /\ \A i \in 1 .. DataLen(b) : Data(b)[i] = b.mem[b.data + i]
  BY WindowIs
<1>2. /\ Len(Data(c)) = DataLen(c)
      /\ \A i \in 1 .. DataLen(c) : Data(c)[i] = c.mem[c.data + i]
  BY WindowIs
<1>3. DataLen(c) = DataLen(b)
  BY <1>1, <1>2
<1>4. QED
  BY <1>1, <1>2, <1>3 DEF Keeps

\* What is poured is behind what is kept.
LEMMA PouredIsHeld ==
  ASSUME NEW b, IsBuffer(b, Nat), NEW s \in Seq(Nat), Len(s) <= FreeLen(b)
  PROVE  /\ IsBuffer(Pour(b, s), Nat) /\ DataLen(Pour(b, s)) = DataLen(b) + Len(s)
         /\ FreeLen(Pour(b, s)) = FreeLen(b) - Len(s)
         /\ Keeps(Pour(b, s), b) /\ Holds(Pour(b, s), DataLen(b), s)
<1> DEFINE c == Pour(b, s)
           k == DataLen(b)
           d == Data(b)
<1>1. /\ IsBuffer(c, Nat) /\ Data(c) = d \o s
      /\ DataLen(c) = k + Len(s) /\ FreeLen(c) = FreeLen(b) - Len(s)
  BY PourIs
<1>2. /\ d \in Seq(Nat) /\ Len(d) = k /\ k \in Nat /\ Len(s) \in Nat
      /\ \A i \in 1 .. k : d[i] = b.mem[b.data + i]
  BY WindowIs
<1> HIDE DEF c, d
<1>3. \A i \in 1 .. k + Len(s) : Data(c)[i] = c.mem[c.data + i]
  BY <1>1, WindowIs
<1> HIDE DEF k
<1>4. \A i \in 1 .. k + Len(s) : (d \o s)[i] = IF i <= k THEN d[i] ELSE s[i - k]
  BY <1>2, ConcatProperties
<1>5. \A i \in 1 .. k : c.mem[c.data + i] = b.mem[b.data + i]
  <2> SUFFICES ASSUME NEW i \in 1 .. k PROVE c.mem[c.data + i] = b.mem[b.data + i]
    OBVIOUS
  <2>1. i \in 1 .. k + Len(s) /\ i <= k
    BY <1>2
  <2>2. QED
    BY <1>1, <1>2, <1>3, <1>4, <2>1
<1>6. \A i \in 1 .. Len(s) : c.mem[c.data + (k + i)] = s[i]
  <2> SUFFICES ASSUME NEW i \in 1 .. Len(s) PROVE c.mem[c.data + (k + i)] = s[i]
    OBVIOUS
  <2>1. k + i \in 1 .. k + Len(s) /\ ~ (k + i <= k) /\ (k + i) - k = i
    BY <1>2
  <2>2. QED
    BY <1>1, <1>3, <1>4, <2>1
<1>7. Keeps(c, b)
  BY <1>1, <1>2, <1>5 DEF Keeps, k
<1>8. Holds(c, k, s)
  <2>1. k + Len(s) <= DataLen(c)
    BY <1>1, <1>2
  <2>2. QED
    BY <1>6, <2>1, Zenon DEF Holds
<1>9. QED
  BY <1>1, <1>7, <1>8 DEF c, k

\* expand leaves the data, and a buffer with the room, alone.
LEMMA ExpandKeeps ==
  ASSUME NEW b, IsBuffer(b, Nat), NEW n \in Nat
  PROVE  /\ IsBuffer(Expand(b, n), Nat) /\ DataLen(Expand(b, n)) = DataLen(b)
         /\ FreeLen(Expand(b, n)) >= n /\ FreeLen(Expand(b, n)) \in Nat
         /\ Keeps(Expand(b, n), b)
         /\ b.mem # <<>> /\ FreeLen(b) >= n => Expand(b, n) = b
<1> DEFINE c == Expand(b, n)
<1>1. IsBuffer(c, Nat) /\ Data(c) = Data(b) /\ FreeLen(c) >= n
  BY ExpandIs
<1>2. b.mem # <<>> /\ FreeLen(b) >= n => c = b
  <2>1. FreeLen(b) \in Nat
    BY WindowIs
  <2>2. QED
    BY <2>1 DEF Expand
<1> HIDE DEF c
<1>3. Keeps(c, b) /\ DataLen(c) = DataLen(b) /\ FreeLen(c) \in Nat
  BY <1>1, SameIsKept, WindowIs
<1>4. QED
  BY <1>1, <1>2, <1>3 DEF c

\* Bytes that are written are behind what is kept.
LEMMA WrittenIsHeld ==
  ASSUME NEW b, IsBuffer(b, Nat), NEW s \in Seq(Nat)
  PROVE  /\ IsBuffer(WriteBytes(b, s), Nat)
         /\ DataLen(WriteBytes(b, s)) = DataLen(b) + Len(s)
         /\ Keeps(WriteBytes(b, s), b) /\ Holds(WriteBytes(b, s), DataLen(b), s)
         /\ b.mem # <<>> /\ FreeLen(b) >= Len(s) =>
              FreeLen(WriteBytes(b, s)) = FreeLen(b) - Len(s)
<1> DEFINE x == Expand(b, Len(s))
           c == Pour(x, s)
<1>1. Len(s) \in Nat
  OBVIOUS
<1>2. /\ IsBuffer(x, Nat) /\ DataLen(x) = DataLen(b)
      /\ Len(s) <= FreeLen(x) /\ Keeps(x, b)
      /\ b.mem # <<>> /\ FreeLen(b) >= Len(s) => x = b
  <2>1. /\ IsBuffer(x, Nat) /\ DataLen(x) = DataLen(b)
        /\ FreeLen(x) >= Len(s) /\ FreeLen(x) \in Nat /\ Keeps(x, b)
        /\ b.mem # <<>> /\ FreeLen(b) >= Len(s) => x = b
    BY <1>1, ExpandKeeps
  <2> HIDE DEF x
  <2>2. QED
    BY <1>1, <2>1
<1> HIDE DEF x
<1>3. /\ IsBuffer(c, Nat) /\ DataLen(c) = DataLen(x) + Len(s)
      /\ FreeLen(c) = FreeLen(x) - Len(s)
      /\ Keeps(c, x) /\ Holds(c, DataLen(x), s)
  BY <1>2, PouredIsHeld
<1> HIDE DEF c
<1>4. Keeps(c, b)
  BY <1>2, <1>3, KeptOn
<1>5. WriteBytes(b, s) = c
  BY DEF WriteBytes, c, x
<1>6. QED
  BY <1>2, <1>3, <1>4, <1>5

\* An integer is written as its bytes.
LEMMA WriteIntIs ==
  ASSUME NEW b, IsBuffer(b, Nat), NEW n \in Nat, NEW w \in Nat
  PROVE  /\ IsBuffer(WriteInt(b, n, w), Nat)
         /\ DataLen(WriteInt(b, n, w)) = DataLen(b) + w
         /\ Keeps(WriteInt(b, n, w), b)
         /\ Holds(WriteInt(b, n, w), DataLen(b), Digits(n, w))
         /\ b.mem # <<>> /\ FreeLen(b) >= w =>
              FreeLen(WriteInt(b, n, w)) = FreeLen(b) - w
<1> DEFINE s == Digits(n, w)
<1>1. s \in Seq(Nat) /\ Len(s) = w
  BY DigitsAre
<1>2. WriteInt(b, n, w) = WriteBytes(b, s)
  BY DEF WriteInt
<1> HIDE DEF s
<1>3. /\ IsBuffer(WriteBytes(b, s), Nat)
      /\ DataLen(WriteBytes(b, s)) = DataLen(b) + Len(s)
      /\ Keeps(WriteBytes(b, s), b) /\ Holds(WriteBytes(b, s), DataLen(b), s)
      /\ b.mem # <<>> /\ FreeLen(b) >= Len(s) =>
           FreeLen(WriteBytes(b, s)) = FreeLen(b) - Len(s)
  BY <1>1, WrittenIsHeld
<1>4. QED
  BY <1>1, <1>2, <1>3 DEF s

\* A string of bytes is one of naturals, with or without its NUL.
LEMMA TerminatedIs ==
  ASSUME NEW s \in Seq(Byte)
  PROVE  Terminated(s) \in Seq(Nat) /\ s \in Seq(Nat)
<1>1. Byte \subseteq Nat /\ NUL \in Nat
  BY RadixAssumption DEF Byte, NUL
<1>2. s \in Seq(Nat)
  <2>1. Len(s) \in Nat /\ s \in [1 .. Len(s) -> Byte]
    OBVIOUS
  <2>2. s \in [1 .. Len(s) -> Nat]
    BY <1>1, <2>1
  <2>3. QED
    BY <2>1, <2>2
<1>3. Append(s, NUL) \in Seq(Nat)
  BY <1>1, <1>2
<1>4. QED
  BY <1>2, <1>3 DEF Terminated

\* A string is written as its length and its bytes, the NUL included.
LEMMA WriteStringIs ==
  ASSUME NEW b, IsBuffer(b, Nat), NEW s, Terminated(s) \in Seq(Nat)
  PROVE  /\ IsBuffer(WriteString(b, s), Nat)
         /\ DataLen(WriteString(b, s)) = DataLen(b) + LenWidth + Len(Terminated(s))
         /\ Keeps(WriteString(b, s), b)
         /\ Holds(WriteString(b, s), DataLen(b), Digits(Len(Terminated(s)), LenWidth))
         /\ Holds(WriteString(b, s), DataLen(b) + LenWidth, Terminated(s))
<1> DEFINE t == Terminated(s)
           k == Len(t)
           x == Expand(b, k + LenWidth)
           y == WriteInt(x, k, LenWidth)
           c == Pour(y, t)
<1>1. t \in Seq(Nat) /\ k \in Nat /\ LenWidth \in Nat /\ LenWidth > 0
  BY RadixAssumption
<1>2. WriteString(b, s) = c
  BY DEF WriteString
<1> HIDE DEF t
<1>3. /\ IsBuffer(x, Nat) /\ DataLen(x) = DataLen(b) /\ Keeps(x, b)
      /\ FreeLen(x) >= k + LenWidth /\ FreeLen(x) \in Nat
  <2> DEFINE n == k + LenWidth
  <2>1. n \in Nat
    BY <1>1
  <2> HIDE DEF n
  <2>2. /\ IsBuffer(Expand(b, n), Nat) /\ DataLen(Expand(b, n)) = DataLen(b)
        /\ Keeps(Expand(b, n), b)
        /\ FreeLen(Expand(b, n)) >= n /\ FreeLen(Expand(b, n)) \in Nat
    BY <2>1, ExpandKeeps
  <2>3. QED
    BY <2>2 DEF n
<1> HIDE DEF x
<1>4. x.mem # <<>> /\ FreeLen(x) >= LenWidth
  <2>1. x.mem \in Seq(Nat) /\ x.free \in Nat /\ FreeLen(x) = Len(x.mem) - x.free
    BY <1>3 DEF IsBuffer, FreeLen
  <2>2. FreeLen(x) >= LenWidth
    BY <1>1, <1>3
  <2>3. Len(x.mem) \in Nat /\ Len(x.mem) > 0
    <3> DEFINE l == Len(x.mem)
    <3>1. l \in Nat /\ l - x.free >= LenWidth
      BY <2>1, <2>2
    <3> HIDE DEF l
    <3>2. l > 0
      BY <1>1, <2>1, <3>1
    <3>3. QED
      BY <3>1, <3>2 DEF l
  <2>4. QED
    BY <2>1, <2>2, <2>3
<1>5. /\ IsBuffer(y, Nat) /\ DataLen(y) = DataLen(b) + LenWidth /\ Keeps(y, x)
      /\ Holds(y, DataLen(b), Digits(k, LenWidth))
      /\ FreeLen(y) = FreeLen(x) - LenWidth
  <2> HIDE DEF k
  <2>1. /\ IsBuffer(y, Nat) /\ DataLen(y) = DataLen(x) + LenWidth /\ Keeps(y, x)
        /\ Holds(y, DataLen(x), Digits(k, LenWidth))
        /\ x.mem # <<>> /\ FreeLen(x) >= LenWidth => FreeLen(y) = FreeLen(x) - LenWidth
    BY <1>1, <1>3, WriteIntIs
  <2> HIDE DEF y
  <2>2. QED
    BY <1>3, <1>4, <2>1
<1> HIDE DEF y
<1>6. Len(t) <= FreeLen(y)
  BY <1>1, <1>3, <1>5
<1>7. /\ IsBuffer(c, Nat) /\ DataLen(c) = DataLen(y) + Len(t)
      /\ Keeps(c, y) /\ Holds(c, DataLen(y), t)
  BY <1>1, <1>5, <1>6, PouredIsHeld
<1> HIDE DEF c
<1>8. Keeps(c, b)
  <2>1. Keeps(y, b)
    BY <1>3, <1>5, KeptOn
  <2>2. QED
    BY <1>5, <1>7, <2>1, KeptOn
<1>9. Holds(c, DataLen(b), Digits(k, LenWidth))
  <2> DEFINE d == Digits(k, LenWidth)
             n == DataLen(b)
  <2>1. d \in Seq(Nat) /\ n \in Nat
    BY <1>1, DigitsAre, WindowIs
  <2>2. Holds(y, n, d)
    BY <1>5
  <2> HIDE DEF d, n
  <2>3. Holds(c, n, d)
    BY <1>5, <1>7, <2>1, <2>2, KeptIsHeld
  <2>4. QED
    BY <2>3 DEF d, n
<1> HIDE DEF k
<1>10. DataLen(c) = DataLen(b) + LenWidth + Len(t) /\ Holds(c, DataLen(b) + LenWidth, t)
  BY <1>5, <1>7
<1>11. QED
  BY <1>2, <1>7, <1>8, <1>9, <1>10 DEF k, t

\* A list is written as its length and its items.
LEMMA WriteVectorIs ==
  ASSUME NEW b, IsBuffer(b, Nat), NEW w \in Nat, NEW v \in Seq(Nat)
  PROVE  /\ IsBuffer(WriteVector(b, v, w), Nat)
         /\ DataLen(WriteVector(b, v, w)) = DataLen(b) + LenWidth + Len(v) * w
         /\ Keeps(WriteVector(b, v, w), b)
         /\ Holds(WriteVector(b, v, w), DataLen(b), Digits(Len(v), LenWidth))
         /\ \A i \in 1 .. Len(v) :
              Holds(WriteVector(b, v, w), DataLen(b) + LenWidth + (i - 1) * w, Digits(v[i], w))
<1> DEFINE B == {c \in [mem : Seq(Nat), data : Nat, free : Nat] : IsBuffer(c, Nat)}
           first == WriteInt(b, Len(v), LenWidth)
           item(i) == IF i \in 1 .. Len(v) THEN v[i] ELSE 0
           step == [p \in Nat \X B |-> WriteInt(p[2], item(p[1]), w)]
           Eq(I) == I = [i \in 0 .. Len(v) |-> IF i = 0 THEN first ELSE WriteInt(I[i - 1], v[i], w)]
           Items == CHOOSE I : Eq(I)
<1>1. Len(v) \in Nat /\ (\A i \in 1 .. Len(v) : v[i] \in Nat) /\ LenWidth \in Nat
  BY RadixAssumption
<1>2. \A c : c \in B <=> IsBuffer(c, Nat)
  BY DEF IsBuffer
<1>3. /\ IsBuffer(first, Nat) /\ DataLen(first) = DataLen(b) + LenWidth
      /\ Keeps(first, b) /\ Holds(first, DataLen(b), Digits(Len(v), LenWidth))
  BY <1>1, WriteIntIs
<1> HIDE DEF B, first
<1>4. \A i \in Nat : item(i) \in Nat
  BY <1>1
<1>5. \A i \in 1 .. Len(v) : item(i) = v[i]
  BY <1>1
<1> HIDE DEF item
<1>6. step \in [Nat \X B -> B]
  <2> SUFFICES ASSUME NEW i \in Nat, NEW c \in B PROVE WriteInt(c, item(i), w) \in B
    OBVIOUS
  <2>1. IsBuffer(c, Nat) /\ item(i) \in Nat
    BY <1>2, <1>4
  <2>2. IsBuffer(WriteInt(c, item(i), w), Nat)
    BY <2>1, WriteIntIs
  <2>3. QED
    BY <1>2, <2>2
<1>7. \A i \in 1 .. Len(v) : \A c \in B : step[<<i, c>>] = WriteInt(c, v[i], w)
  BY <1>1, <1>5
<1> HIDE DEF step
<1>8. PICK g \in [0 .. Len(v) -> B] : Computes(g, Len(v), first, step)
  <2>1. first \in B
    BY <1>2, <1>3
  <2>2. QED
    BY <1>1, <1>6, <2>1, Recursion
<1>9. Eq(g)
  <2>0. \A i \in 1 .. Len(v) : i - 1 \in 0 .. Len(v)
    BY <1>1
  <2>1. \A i \in 1 .. Len(v) : g[i - 1] \in B
    BY <2>0
  <2>2. \A i \in 1 .. Len(v) : g[i] = WriteInt(g[i - 1], v[i], w)
    BY <1>7, <1>8, <2>1 DEF Computes
  <2>3. \A i \in 0 .. Len(v) : g[i] = IF i = 0 THEN first ELSE WriteInt(g[i - 1], v[i], w)
    BY <1>1, <1>8, <2>2 DEF Computes
  <2>4. QED
    BY <2>3
<1>10. Eq(Items)
  <2> HIDE DEF Eq
  <2>1. QED
    BY <1>9
<1>11. WriteVector(b, v, w) = Items[Len(v)]
  BY DEF WriteVector, first
<1> HIDE DEF Items
<1>12. Items[0] = first /\ \A i \in 1 .. Len(v) : Items[i] = WriteInt(Items[i - 1], v[i], w)
  <2>1. Eq(Items)
    BY <1>10
  <2>2. 0 \in 0 .. Len(v) /\ \A i \in 1 .. Len(v) : i \in 0 .. Len(v) /\ i # 0
    BY <1>1
  <2>3. \A i \in 0 .. Len(v) :
          Items[i] = IF i = 0 THEN first ELSE WriteInt(Items[i - 1], v[i], w)
    BY <2>1
  <2>4. QED
    BY <2>2, <2>3
<1> HIDE DEF Eq
<1> DEFINE At(i) == DataLen(b) + LenWidth + (i - 1) * w
           Good(k) == /\ IsBuffer(Items[k], Nat)
                      /\ DataLen(Items[k]) = At(k + 1)
                      /\ Keeps(Items[k], first)
                      /\ \A i \in 1 .. k : Holds(Items[k], At(i), Digits(v[i], w))
           T == {k \in Nat : k <= Len(v) => Good(k)}
<1>13. DataLen(b) \in Nat /\ \A i \in Nat \ {0} : At(i) \in Nat /\ At(i + 1) = At(i) + w
  <2>1. DataLen(b) \in Nat
    BY WindowIs
  <2> SUFFICES ASSUME NEW i \in Nat \ {0} PROVE At(i) \in Nat /\ At(i + 1) = At(i) + w
    BY <2>1
  <2> DEFINE j == i - 1
  <2>2. j \in Nat /\ (i + 1) - 1 = j + 1
    OBVIOUS
  <2> HIDE DEF j
  <2>3. j * w \in Nat /\ (j + 1) * w = j * w + w
    BY <2>2
  <2>4. QED
    BY <1>1, <2>1, <2>2, <2>3 DEF j
<1>14. At(1) = DataLen(first)
  <2>1. (1 - 1) * w = 0
    OBVIOUS
  <2>2. QED
    BY <1>1, <1>3, <1>13, <2>1
<1> HIDE DEF At
<1>15. 0 \in T
  <2>1. Keeps(first, first)
    BY <1>3, SameIsKept
  <2>2. QED
    BY <1>3, <1>12, <1>14, <2>1
<1>16. ASSUME NEW k \in Nat, k \in T
       PROVE  k + 1 \in T
  <2> SUFFICES ASSUME k + 1 <= Len(v) PROVE Good(k + 1)
    OBVIOUS
  <2> DEFINE c == Items[k]
             e == Items[k + 1]
  <2>1. /\ Good(k) /\ k + 1 \in 1 .. Len(v) /\ (k + 1) - 1 = k
        /\ k + 1 \in Nat \ {0} /\ v[k + 1] \in Nat
    BY <1>1, <1>16
  <2>2. e = WriteInt(c, v[k + 1], w)
    BY <1>12, <2>1
  <2>3. /\ IsBuffer(c, Nat) /\ DataLen(c) = At(k + 1) /\ Keeps(c, first)
        /\ \A i \in 1 .. k : Holds(c, At(i), Digits(v[i], w))
    BY <2>1
  <2> HIDE DEF c, e
  <2>4. /\ IsBuffer(e, Nat) /\ DataLen(e) = At(k + 1) + w /\ Keeps(e, c)
        /\ Holds(e, At(k + 1), Digits(v[k + 1], w))
    <3> DEFINE n == v[k + 1]
    <3>1. n \in Nat /\ e = WriteInt(c, n, w)
      BY <2>1, <2>2
    <3> HIDE DEF n
    <3>2. /\ IsBuffer(e, Nat) /\ DataLen(e) = DataLen(c) + w /\ Keeps(e, c)
          /\ Holds(e, DataLen(c), Digits(n, w))
      BY <2>3, <3>1, WriteIntIs
    <3>3. QED
      BY <2>3, <3>2 DEF n
  <2>5. Keeps(e, first)
    BY <1>3, <2>3, <2>4, KeptOn
  <2>6. ASSUME NEW i \in 1 .. k + 1
        PROVE  Holds(e, At(i), Digits(v[i], w))
    <3>1. CASE i = k + 1
      BY <2>4, <3>1
    <3>2. CASE i \in 1 .. k
      <4> DEFINE d == Digits(v[i], w)
                 n == At(i)
      <4>1. i \in Nat \ {0} /\ i \in 1 .. Len(v)
        BY <2>1, <3>2
      <4>2. d \in Seq(Nat) /\ n \in Nat
        BY <1>1, <1>13, <4>1, DigitsAre
      <4>3. Holds(c, n, d)
        BY <2>3, <3>2
      <4> HIDE DEF d, n
      <4>4. Holds(e, n, d)
        BY <2>3, <2>4, <4>2, <4>3, KeptIsHeld
      <4>5. QED
        BY <4>4 DEF d, n
    <3>3. QED
      BY <2>1, <3>1, <3>2
  <2>7. DataLen(e) = At((k + 1) + 1)
    BY <1>13, <2>1, <2>4
  <2>8. QED
    BY <2>4, <2>5, <2>6, <2>7 DEF e
<1> HIDE DEF T
<1>17. Nat \subseteq T
  BY <1>15, <1>16, Induct
<1>18. Good(Len(v))
  BY <1>1, <1>17 DEF T
<1> DEFINE e == Items[Len(v)]
<1>19. /\ IsBuffer(e, Nat) /\ DataLen(e) = At(Len(v) + 1) /\ Keeps(e, first)
       /\ \A i \in 1 .. Len(v) : Holds(e, At(i), Digits(v[i], w))
  BY <1>18
<1>20. e = WriteVector(b, v, w)
  BY <1>11
<1> HIDE DEF e
<1>21. Keeps(e, b)
  BY <1>3, <1>19, KeptOn
<1>22. Holds(e, DataLen(b), Digits(Len(v), LenWidth))
  <2> DEFINE d == Digits(Len(v), LenWidth)
             n == DataLen(b)
  <2>1. d \in Seq(Nat) /\ n \in Nat
    BY <1>1, <1>13, DigitsAre
  <2>2. Holds(first, n, d)
    BY <1>3
  <2> HIDE DEF d, n
  <2>3. Holds(e, n, d)
    BY <1>3, <1>19, <2>1, <2>2, KeptIsHeld
  <2>4. QED
    BY <2>3 DEF d, n
<1>23. At(Len(v) + 1) = DataLen(b) + LenWidth + Len(v) * w
  <2>1. (Len(v) + 1) - 1 = Len(v)
    BY <1>1
  <2>2. QED
    BY <2>1 DEF At
<1>24. QED
  BY <1>19, <1>20, <1>21, <1>22, <1>23 DEF At

\* Bytes that are skipped leave a buffer with the rest of the data.
LEMMA SkippedIs ==
  ASSUME NEW b, IsBuffer(b, Nat), NEW n \in Nat, n <= DataLen(b)
  PROVE  /\ IsBuffer(Skip(b, n), Nat) /\ DataLen(Skip(b, n)) = DataLen(b) - n
         /\ Skip(b, n).mem = b.mem /\ Skip(b, n).data = b.data + n
<1> DEFINE k == b.data + n
           c == [b EXCEPT !.data = k]
<1>1. /\ b \in [mem : Seq(Nat), data : Nat, free : Nat]
      /\ b.data \in Nat /\ b.free \in Nat /\ b.data <= b.free /\ b.free <= Len(b.mem)
      /\ DataLen(b) = b.free - b.data
  BY DEF IsBuffer, DataLen
<1>2. k \in Nat /\ k <= b.free
  BY <1>1
<1>3. Skip(b, n) = c
  BY DEF Skip
<1>4. /\ c \in [mem : Seq(Nat), data : Nat, free : Nat]
      /\ c.mem = b.mem /\ c.data = k /\ c.free = b.free
  <2> HIDE DEF k
  <2>1. QED
    BY <1>1, <1>2, SkipIs
<1> HIDE DEF c
<1>5. IsBuffer(c, Nat)
  BY <1>1, <1>2, <1>4 DEF IsBuffer
<1>6. DataLen(c) = DataLen(b) - n
  BY <1>1, <1>4 DEF DataLen
<1>7. QED
  BY <1>3, <1>4, <1>5, <1>6

\* Bytes that are skipped one time and another.
LEMMA SkippedTwice ==
  ASSUME NEW b, IsBuffer(b, Nat), NEW n \in Nat, NEW k \in Nat
  PROVE  Skip(Skip(b, n), k) = Skip(b, n + k)
<1>1. b \in [mem : Seq(Nat), data : Nat, free : Nat] /\ b.data \in Nat
  BY DEF IsBuffer
<1> DEFINE i == b.data + n
           j == i + k
<1>2. i \in Nat /\ j \in Nat /\ j = b.data + (n + k)
  BY <1>1
<1>3. Skip(b, n) = [b EXCEPT !.data = i] /\ Skip(b, n + k) = [b EXCEPT !.data = j]
  BY <1>2 DEF Skip
<1> HIDE DEF i
<1>4. [b EXCEPT !.data = i].data = i
  BY <1>1, <1>2
<1>5. Skip(Skip(b, n), k) = [[b EXCEPT !.data = i] EXCEPT !.data = j]
  BY <1>3, <1>4 DEF Skip
<1> HIDE DEF j
<1>6. [[b EXCEPT !.data = i] EXCEPT !.data = j] = [b EXCEPT !.data = j]
  BY <1>1, <1>2
<1>7. QED
  BY <1>3, <1>5, <1>6

\* The bytes that are held are read.
LEMMA BytesAre ==
  ASSUME NEW b, IsBuffer(b, Nat), NEW n \in Nat, NEW s \in Seq(Nat), Holds(b, n, s)
  PROVE  /\ Bytes(Skip(b, n), Len(s)) = s
         /\ Len(s) <= DataLen(Skip(b, n)) /\ DataLen(Skip(b, n)) = DataLen(b) - n
<1> DEFINE x == Skip(b, n)
           m == b.mem
           lo == b.data + n
           k == Len(s)
<1>1. /\ m \in Seq(Nat) /\ b.data \in Nat /\ b.free \in Nat
      /\ b.data <= b.free /\ b.free <= Len(m) /\ DataLen(b) = b.free - b.data
      /\ k \in Nat /\ Len(m) \in Nat
  BY DEF IsBuffer, DataLen
<1>2. n + k <= DataLen(b) /\ \A i \in 1 .. k : m[b.data + (n + i)] = s[i]
  BY DEF Holds
<1>3. n <= DataLen(b)
  BY <1>1, <1>2
<1>4. x.mem = m /\ x.data = lo /\ DataLen(x) = DataLen(b) - n
  BY <1>3, SkippedIs
<1>5. lo \in Nat /\ lo + k <= Len(m) /\ \A i \in 1 .. k : lo + i = b.data + (n + i)
  BY <1>1, <1>2
<1>6. \A i \in 1 .. k : m[lo + i] = s[i]
  BY <1>2, <1>5
<1> HIDE DEF lo, m, k, x
<1>7. /\ SubSeq(m, lo + 1, lo + k) \in Seq(Nat)
      /\ Len(SubSeq(m, lo + 1, lo + k)) = IF lo + 1 <= lo + k THEN lo + k - (lo + 1) + 1 ELSE 0
      /\ \A i \in 1 .. lo + k - (lo + 1) + 1 : SubSeq(m, lo + 1, lo + k)[i] = m[lo + 1 + i - 1]
  <2>1. \A i \in lo + 1 .. lo + k : m[i] \in Nat
    BY <1>1, <1>5
  <2>2. QED
    BY <1>1, <1>5, <2>1, SubSeqProperties
<1>8. /\ Len(SubSeq(m, lo + 1, lo + k)) = k
      /\ \A i \in 1 .. k : SubSeq(m, lo + 1, lo + k)[i] = s[i]
  <2> DEFINE t == SubSeq(m, lo + 1, lo + k)
  <2>1. lo + k - (lo + 1) + 1 = k /\ (lo + 1 <= lo + k \/ k = 0)
    BY <1>1, <1>5
  <2>2. /\ Len(t) = IF lo + 1 <= lo + k THEN k ELSE 0
        /\ \A i \in 1 .. k : t[i] = m[lo + 1 + i - 1]
    BY <1>7, <2>1
  <2> HIDE DEF t
  <2>3. Len(t) = k
    BY <1>1, <1>5, <2>1, <2>2
  <2>4. \A i \in 1 .. k : lo + 1 + i - 1 = lo + i
    BY <1>1, <1>5
  <2>5. \A i \in 1 .. k : t[i] = s[i]
    BY <1>6, <2>2, <2>4
  <2>6. QED
    BY <2>3, <2>5 DEF t
<1>9. SubSeq(m, lo + 1, lo + k) = s
  BY <1>7, <1>8, SeqEqual DEF k
<1>10. Bytes(x, k) = s
  BY <1>4, <1>9 DEF Bytes
<1>11. k <= DataLen(x)
  BY <1>1, <1>2, <1>4
<1>12. QED
  BY <1>4, <1>10, <1>11 DEF x, k

\* The number that was written is read.
LEMMA NumberIs ==
  ASSUME NEW b, IsBuffer(b, Nat), NEW n \in Nat, NEW w \in Nat,
         NEW q \in 0 .. Power[w] - 1, Holds(b, n, Digits(q, w))
  PROVE  /\ Unsigned(Bytes(Skip(b, n), w)) = q
         /\ q < Power[w] \div 2 => Signed(Bytes(Skip(b, n), w)) = q
         /\ w <= DataLen(Skip(b, n))
<1> DEFINE s == Digits(q, w)
<1>1. q \in Nat /\ q < Power[w]
  BY PowerIs
<1>2. s \in Seq(Nat) /\ Len(s) = w
  BY <1>1, DigitsAre
<1>3. Unsigned(s) = q
  BY <1>1, DigitsRead
<1>4. Holds(b, n, s)
  OBVIOUS
<1> HIDE DEF s
<1>5. Bytes(Skip(b, n), w) = s /\ w <= DataLen(Skip(b, n))
  BY <1>2, <1>4, BytesAre
<1>6. q < Power[w] \div 2 => Signed(s) = q
  BY <1>2, <1>3 DEF Signed
<1>7. QED
  BY <1>3, <1>5, <1>6

\* An integer is read where it was written, and the window goes on behind it.
LEMMA ReadIntIs ==
  ASSUME NEW b, IsBuffer(b, Nat), NEW n \in Nat, NEW w \in Nat,
         NEW q \in 0 .. Power[w] - 1, Holds(b, n, Digits(q, w))
  PROVE  /\ ReadInt(Skip(b, n), w).val = q
         /\ ReadInt(Skip(b, n), w).rest = Skip(b, n + w)
<1> DEFINE x == Skip(b, n)
<1>1. Unsigned(Bytes(x, w)) = q /\ w <= DataLen(x)
  BY NumberIs
<1>2. Skip(x, w) = Skip(b, n + w)
  BY SkippedTwice
<1>3. Enough(x, w)
  <2>1. DataLen(x) \in Int /\ w \in Int
    <3>1. Len(Digits(q, w)) = w
      BY PowerIs, DigitsAre
    <3>2. DataLen(b) \in Nat /\ n + w <= DataLen(b)
      BY <3>1, WindowIs DEF Holds
    <3>3. n <= DataLen(b)
      BY <3>2
    <3>4. DataLen(x) = DataLen(b) - n
      BY <3>3, SkippedIs
    <3>5. QED
      BY <3>2, <3>4
  <2> HIDE DEF x
  <2>2. QED
    BY <1>1, <2>1 DEF Enough
<1> HIDE DEF x
<1>4. ReadBytes(x, w) = [ok |-> TRUE, val |-> Bytes(x, w), rest |-> Skip(x, w)]
  BY <1>3 DEF ReadBytes
<1>5. ReadInt(x, w).val = Unsigned(Bytes(x, w)) /\ ReadInt(x, w).rest = Skip(x, w)
  BY <1>4 DEF ReadInt
<1>6. QED
  BY <1>1, <1>2, <1>5 DEF x

\* Without enough bytes nothing is read and nothing consumed.
LEMMA ReadCut ==
  ASSUME NEW b, IsBuffer(b, Nat), NEW w \in Nat, DataLen(b) < w
  PROVE  ReadInt(b, w) = [ok |-> FALSE, val |-> 0, rest |-> b]
<1>1. ~ Enough(b, w)
  BY WindowIs DEF Enough
<1>2. ReadBytes(b, w) = [ok |-> FALSE, val |-> <<>>, rest |-> b]
  BY <1>1 DEF ReadBytes
<1>3. Unsigned(<<>>) = 0
  <2> DEFINE s == <<>>
  <2>1. s \in Seq(Nat) /\ Len(s) = 0
    BY EmptySeq
  <2> HIDE DEF s
  <2>2. Unsigned(s) = 0
    BY <2>1, UnsignedIs
  <2>3. QED
    BY <2>2 DEF s
<1> DEFINE o == FALSE
           v == <<>>
           z == 0
           r == [ok |-> o, val |-> v, rest |-> b]
<1>4. ReadInt(b, w) = [r EXCEPT !.val = Unsigned(r.val)]
  BY <1>2 DEF ReadInt
<1>5. Unsigned(v) = z
  BY <1>3
<1> HIDE DEF o, v, z
<1>6. r.val = v
  OBVIOUS
<1>7. [r EXCEPT !.val = z] = [ok |-> o, val |-> z, rest |-> b]
  <2>1. \A p, q, t, c : [[ok |-> p, val |-> q, rest |-> c] EXCEPT !.val = t]
                        = [ok |-> p, val |-> t, rest |-> c]
    OBVIOUS
  <2>2. QED
    BY <2>1
<1> HIDE DEF r
<1>8. ReadInt(b, w) = [ok |-> o, val |-> z, rest |-> b]
  BY <1>4, <1>5, <1>6, <1>7
<1>9. QED
  BY <1>8, Zenon DEF o, z

\* A string is read where it was written, with its NUL.
LEMMA ReadStringIs ==
  ASSUME NEW b, IsBuffer(b, Nat), NEW n \in Nat, NEW s \in Seq(Byte),
         Len(Terminated(s)) < Power[LenWidth] \div 2,
         Holds(b, n, Digits(Len(Terminated(s)), LenWidth)),
         Holds(b, n + LenWidth, Terminated(s))
  PROVE  /\ ReadString(Skip(b, n), 0).val = Terminated(s)
         /\ ReadString(Skip(b, n), 0).rest =
              Skip(b, n + LenWidth + Len(Terminated(s)))
<1> DEFINE t == Terminated(s)
           k == Len(t)
           at == n + LenWidth
           x == Skip(b, n)
           body == Skip(b, at)
<1>1. /\ t \in Seq(Nat) /\ s \in Seq(Nat) /\ k \in Nat
      /\ LenWidth \in Nat /\ LenWidth > 0 /\ at \in Nat
      /\ DataLen(b) \in Nat
  BY TerminatedIs, RadixAssumption, WindowIs
<1>2. k \in 0 .. Power[LenWidth] - 1
  <2>1. Power[LenWidth] \in Nat /\ Power[LenWidth] > 0
    BY <1>1, PowerIs
  <2> DEFINE p == Power[LenWidth]
  <2>2. p \in Nat /\ k < p \div 2
    BY <2>1
  <2> HIDE DEF p, k
  <2>3. k < p
    BY <1>1, <2>2
  <2>4. QED
    BY <1>1, <2>1, <2>3 DEF p
<1>3. Signed(Bytes(x, LenWidth)) = k /\ LenWidth <= DataLen(x)
  <2>1. Holds(b, n, Digits(k, LenWidth)) /\ k < Power[LenWidth] \div 2
    OBVIOUS
  <2> HIDE DEF k, x
  <2>2. QED
    BY <1>1, <1>2, <2>1, NumberIs DEF x
<1>4. Skip(x, LenWidth) = body
  BY <1>1, SkippedTwice
<1>5. k <= DataLen(body) /\ DataLen(body) \in Nat /\ DataLen(x) \in Int /\ IsBuffer(body, Nat)
  <2>1. at + k <= DataLen(b)
    BY DEF Holds
  <2> HIDE DEF at
  <2>2. at <= DataLen(b) /\ n <= DataLen(b)
    BY <1>1, <2>1 DEF at
  <2>3. DataLen(body) = DataLen(b) - at /\ DataLen(x) = DataLen(b) - n /\ IsBuffer(body, Nat)
    BY <1>1, <2>2, SkippedIs
  <2> HIDE DEF body, x, k
  <2>4. QED
    BY <1>1, <2>1, <2>2, <2>3
<1>6. Skip(body, k) = Skip(b, at + k)
  BY <1>1, SkippedTwice
<1>7. k > 0 => Append(Bytes(body, k - 1), NUL) = t
  <2> SUFFICES ASSUME k > 0 PROVE Append(Bytes(body, k - 1), NUL) = t
    OBVIOUS
  <2>1. t = Append(s, NUL) /\ Len(s) = k - 1 /\ Len(s) \in Nat
    <3>1. s # <<>>
      BY DEF Terminated
    <3>2. t = Append(s, NUL)
      BY <3>1 DEF Terminated
    <3>3. Len(Append(s, NUL)) = Len(s) + 1 /\ Len(s) \in Nat
      BY <1>1
    <3>4. k = Len(s) + 1
      BY <3>2, <3>3
    <3>5. QED
      BY <3>2, <3>3, <3>4
  <2>2. \A i \in 1 .. Len(s) : i \in 1 .. k /\ t[i] = s[i]
    BY <1>1, <2>1
  <2> HIDE DEF at, body
  <2>3. at + k <= DataLen(b) /\ \A i \in 1 .. k : b.mem[b.data + (at + i)] = t[i]
    BY DEF Holds, at
  <2> HIDE DEF k, t
  <2>4. \A i \in 1 .. Len(s) : b.mem[b.data + (at + i)] = s[i]
    BY <2>2, <2>3
  <2>5. at + Len(s) <= DataLen(b)
    BY <1>1, <2>1, <2>3
  <2>6. Holds(b, at, s)
    BY <2>4, <2>5 DEF Holds
  <2>7. Bytes(body, Len(s)) = s
    BY <1>1, <2>6, BytesAre DEF body
  <2>8. QED
    BY <2>1, <2>7
<1>8. k = 0 => t = <<>>
  BY <1>1
<1> HIDE DEF x, t, at
<1> DEFINE slen == IF DataLen(body) < k THEN DataLen(body) ELSE k
           len == IF 0 = 0 \/ 0 > slen THEN slen ELSE 0
<1>9. ReadString(x, 0) =
        [ok   |-> TRUE,
         val  |-> IF len <= 0 THEN <<>> ELSE Append(Bytes(body, len - 1), NUL),
         rest |-> Skip(body, slen)]
  <2>1. Enough(x, LenWidth)
    BY <1>1, <1>3, <1>5 DEF Enough
  <2> HIDE DEF body, k
  <2>2. QED
    BY <1>3, <1>4, <2>1 DEF ReadString
<1>10. slen = k /\ len = k
  <2> HIDE DEF body, k
  <2>1. slen = k
    BY <1>1, <1>5
  <2>2. QED
    BY <2>1
<1> HIDE DEF slen, len
<1>11. ReadString(x, 0).val = IF k <= 0 THEN <<>> ELSE Append(Bytes(body, k - 1), NUL)
  <2> DEFINE f(m) == IF m <= 0 THEN <<>> ELSE Append(Bytes(body, m - 1), NUL)
  <2>1. ReadString(x, 0) = [ok |-> TRUE, val |-> f(len), rest |-> Skip(body, slen)]
    BY <1>9
  <2> HIDE DEF f
  <2>2. ReadString(x, 0).val = f(k)
    BY <1>10, <2>1
  <2>3. QED
    BY <2>2 DEF f
<1>12. ReadString(x, 0).val = t
  <2>1. CASE k = 0
    BY <1>8, <1>11, <2>1
  <2>2. CASE k > 0
    <3>1. ~ (k <= 0)
      BY <1>1, <2>2
    <3>2. QED
      BY <1>7, <1>11, <2>2, <3>1
  <2>3. QED
    BY <1>1, <2>1, <2>2
<1>13. ReadString(x, 0).rest = Skip(b, at + k)
  BY <1>6, <1>9, <1>10
<1>14. QED
  BY <1>12, <1>13 DEF x, t, at

\* A list is read where it was written.
LEMMA ReadVectorIs ==
  ASSUME NEW b, IsBuffer(b, Nat), NEW n \in Nat, NEW w \in Nat,
         NEW v \in Seq(0 .. Power[w] - 1), Len(v) < Power[LenWidth],
         Holds(b, n, Digits(Len(v), LenWidth)),
         \A i \in 1 .. Len(v) : Holds(b, n + LenWidth + (i - 1) * w, Digits(v[i], w))
  PROVE  /\ ReadVector(Skip(b, n), w).val = v
         /\ ReadVector(Skip(b, n), w).rest = Skip(b, n + LenWidth + Len(v) * w)
<1> DEFINE k == Len(v)
           at == n + LenWidth
           x == Skip(b, n)
           body == Skip(b, at)
           u == [i \in 1 .. k |-> Unsigned(Bytes(Skip(body, (i - 1) * w), w))]
<1>1. /\ k \in Nat /\ LenWidth \in Nat /\ at \in Nat /\ Power[LenWidth] \in Nat
      /\ \A i \in 1 .. k : v[i] \in 0 .. Power[w] - 1
  <2>1. k \in Nat /\ \A i \in 1 .. k : v[i] \in 0 .. Power[w] - 1
    <3> DEFINE V == 0 .. Power[w] - 1
    <3>1. v \in Seq(V)
      OBVIOUS
    <3> HIDE DEF V
    <3>2. k \in Nat /\ \A i \in 1 .. k : v[i] \in V
      BY <3>1
    <3>3. QED
      BY <3>2 DEF V
  <2>2. LenWidth \in Nat /\ Power[LenWidth] \in Nat
    BY RadixAssumption, PowerIs
  <2>3. QED
    BY <2>1, <2>2
<1>2. k \in 0 .. Power[LenWidth] - 1
  BY <1>1
<1>3. Unsigned(Bytes(x, LenWidth)) = k
  <2>1. Holds(b, n, Digits(k, LenWidth))
    OBVIOUS
  <2> HIDE DEF k, x
  <2>2. QED
    BY <1>1, <1>2, <2>1, NumberIs DEF x
<1>4. Skip(x, LenWidth) = body
  BY <1>1, SkippedTwice
<1>5. k * w \in Nat /\ \A i \in 1 .. k : (i - 1) * w \in Nat
  <2>1. \A i \in 1 .. k : i - 1 \in Nat
    BY <1>1
  <2> HIDE DEF k
  <2>2. QED
    BY <1>1, <2>1, ProductIs
<1>6. ASSUME NEW i \in 1 .. k
      PROVE  Unsigned(Bytes(Skip(body, (i - 1) * w), w)) = v[i]
  <2> DEFINE j == (i - 1) * w
             q == v[i]
             y == at + j
  <2>0. Holds(b, y, Digits(q, w))
    OBVIOUS
  <2>1. j \in Nat /\ q \in 0 .. Power[w] - 1
    BY <1>1, <1>5
  <2> HIDE DEF j, q
  <2>5. y \in Nat
    BY <1>1, <2>1
  <2>2. Skip(body, j) = Skip(b, y)
    BY <1>1, <2>1, SkippedTwice
  <2> HIDE DEF y, body
  <2>3. Unsigned(Bytes(Skip(b, y), w)) = q
    BY <2>0, <2>1, <2>5, NumberIs
  <2>4. QED
    BY <2>2, <2>3 DEF j, q
<1>7. Skip(body, k * w) = Skip(b, at + k * w)
  <2> DEFINE j == k * w
  <2>1. j \in Nat
    BY <1>5
  <2> HIDE DEF j
  <2>2. Skip(body, j) = Skip(b, at + j)
    BY <1>1, <2>1, SkippedTwice
  <2>3. QED
    BY <2>2 DEF j
<1>8. ReadVector(x, w) = [ok |-> TRUE, val |-> u, rest |-> Skip(body, k * w)]
  <2> HIDE DEF x, body, k
  <2>1. QED
    BY <1>3, <1>4 DEF ReadVector
<1>9. u = v
  <2>1. u = [i \in 1 .. k |-> v[i]]
    <3> HIDE DEF body, k
    <3>1. QED
      BY <1>6, Zenon
  <2>2. v = [i \in 1 .. k |-> v[i]]
    OBVIOUS
  <2>3. QED
    BY <2>1, <2>2
<1> HIDE DEF u, x, body, at, k
<1>10. ReadVector(x, w).val = u /\ ReadVector(x, w).rest = Skip(body, k * w)
  BY <1>8
<1>11. QED
  BY <1>7, <1>9, <1>10 DEF x, at, k

\* Bytes that are written over replace those n behind the beginning of the data,
\* and no others.
LEMMA FillIs ==
  ASSUME NEW b, IsBuffer(b, Nat), NEW n \in Nat, NEW s \in Seq(Nat),
         n + Len(s) <= DataLen(b)
  PROVE  /\ IsBuffer(Fill(b, s, b.data + n), Nat)
         /\ DataLen(Fill(b, s, b.data + n)) = DataLen(b)
         /\ \A i \in 1 .. DataLen(b) :
              Fill(b, s, b.data + n).mem[Fill(b, s, b.data + n).data + i] =
                IF i \in n + 1 .. n + Len(s) THEN s[i - n] ELSE b.mem[b.data + i]
<1> DEFINE off == b.data + n
           m == b.mem
           k == Len(s)
           new == [i \in DOMAIN m |-> IF i \in off + 1 .. off + k THEN s[i - off] ELSE m[i]]
           e == Fill(b, s, off)
<1>1. /\ b \in [mem : Seq(Nat), data : Nat, free : Nat]
      /\ m \in Seq(Nat) /\ b.data \in Nat /\ b.free \in Nat /\ Len(m) \in Nat
      /\ b.data <= b.free /\ b.free <= Len(m) /\ DataLen(b) = b.free - b.data
      /\ k \in Nat /\ off \in Nat /\ DOMAIN m = 1 .. Len(m)
  BY DEF IsBuffer, DataLen
<1>2. e = [b EXCEPT !.mem = new]
  BY DEF Fill
<1>3. new \in Seq(Nat) /\ Len(new) = Len(m)
  <2> HIDE DEF off, m, k
  <2>1. \A i \in off + 1 .. off + k : i - off \in 1 .. k
    BY <1>1
  <2>2. \A j \in 1 .. k : s[j] \in Nat
    BY DEF k
  <2>3. \A i \in 1 .. Len(m) : m[i] \in Nat
    BY <1>1
  <2>4. new \in [1 .. Len(m) -> Nat]
    BY <1>1, <2>1, <2>2, <2>3
  <2> DEFINE l == Len(m)
  <2>5. l \in Nat /\ new \in [1 .. l -> Nat]
    BY <1>1, <2>4
  <2> HIDE DEF new, l
  <2>6. new \in Seq(Nat) /\ Len(new) = l
    BY <2>5
  <2>7. QED
    BY <2>6 DEF l
<1>4. \A i \in 1 .. Len(m) : new[i] = IF i \in off + 1 .. off + k THEN s[i - off] ELSE m[i]
  BY <1>1
<1> HIDE DEF new, e, m, k
<1>5. e \in [mem : Seq(Nat), data : Nat, free : Nat]
      /\ e.mem = new /\ e.data = b.data /\ e.free = b.free
  BY <1>1, <1>2, <1>3
<1>6. IsBuffer(e, Nat) /\ DataLen(e) = DataLen(b)
  BY <1>1, <1>3, <1>5 DEF IsBuffer, DataLen
<1>7. ASSUME NEW i \in 1 .. DataLen(b)
      PROVE  e.mem[e.data + i] = IF i \in n + 1 .. n + k THEN s[i - n] ELSE m[b.data + i]
  <2> DEFINE j == b.data + i
  <2>1. i \in Nat /\ b.data \in Nat /\ k \in Nat
    BY <1>1
  <2>2. j \in 1 .. Len(m)
    <3>1. i <= b.free - b.data /\ 1 <= i
      BY <1>1
    <3> HIDE DEF off
    <3>2. QED
      BY <1>1, <2>1, <3>1, SMTT(30)
  <2>3. j - off = i - n
    BY <2>1
  <2>4. j \in off + 1 .. off + k <=> i \in n + 1 .. n + k
    BY <2>1
  <2> HIDE DEF off
  <2>5. new[j] = IF i \in n + 1 .. n + k THEN s[i - n] ELSE m[j]
    BY <1>4, <2>2, <2>3, <2>4
  <2>6. QED
    BY <1>5, <2>5
<1>8. QED
  BY <1>6, <1>7 DEF e, m, k

\* It holds what is written over, and still what lies beside.
LEMMA FilledIsHeld ==
  ASSUME NEW b, IsBuffer(b, Nat), NEW n \in Nat, NEW s \in Seq(Nat),
         n + Len(s) <= DataLen(b),
         NEW e, IsBuffer(e, Nat), DataLen(e) = DataLen(b),
         \A i \in 1 .. DataLen(b) :
           e.mem[e.data + i] = IF i \in n + 1 .. n + Len(s) THEN s[i - n] ELSE b.mem[b.data + i]
  PROVE  /\ Holds(e, n, s)
         /\ \A k \in Nat : \A t \in Seq(Nat) : k >= n + Len(s) /\ Holds(b, k, t) => Holds(e, k, t)
         /\ \A a : IsBuffer(a, Nat) /\ DataLen(a) <= n /\ Keeps(b, a) => Keeps(e, a)
<1>1. Len(s) \in Nat /\ DataLen(b) \in Nat
  BY WindowIs
<1>2. Holds(e, n, s)
  <2>1. ASSUME NEW i \in 1 .. Len(s)
        PROVE  e.mem[e.data + (n + i)] = s[i]
    <3>1. n + i \in 1 .. DataLen(b) /\ n + i \in n + 1 .. n + Len(s) /\ (n + i) - n = i
      BY <1>1
    <3>2. QED
      BY <3>1
  <2>2. QED
    BY <2>1 DEF Holds
<1>3. ASSUME NEW k \in Nat, NEW t \in Seq(Nat), k >= n + Len(s), Holds(b, k, t)
      PROVE  Holds(e, k, t)
  <2>0. Len(t) \in Nat /\ k + Len(t) <= DataLen(b)
    BY <1>3 DEF Holds
  <2>1. ASSUME NEW i \in 1 .. Len(t)
        PROVE  e.mem[e.data + (k + i)] = t[i]
    <3>1. k + i \in 1 .. DataLen(b) /\ k + i \notin n + 1 .. n + Len(s)
      BY <1>1, <1>3, <2>0
    <3>2. e.mem[e.data + (k + i)] = b.mem[b.data + (k + i)]
      BY <3>1
    <3>3. QED
      BY <1>3, <3>2 DEF Holds
  <2>2. QED
    BY <2>0, <2>1 DEF Holds
<1>4. ASSUME NEW a, IsBuffer(a, Nat), DataLen(a) <= n, Keeps(b, a)
      PROVE  Keeps(e, a)
  <2>0. DataLen(a) \in Nat /\ DataLen(a) <= DataLen(b)
    BY <1>4, WindowIs DEF Keeps
  <2>1. ASSUME NEW i \in 1 .. DataLen(a)
        PROVE  e.mem[e.data + i] = a.mem[a.data + i]
    <3>1. i \in 1 .. DataLen(b) /\ i \notin n + 1 .. n + Len(s)
      BY <1>1, <1>4, <2>0
    <3>2. e.mem[e.data + i] = b.mem[b.data + i]
      BY <3>1
    <3>3. QED
      BY <1>4, <3>2 DEF Keeps
  <2>2. QED
    BY <2>0, <2>1 DEF Keeps
<1>5. QED
  BY <1>2, <1>3, <1>4

\* The type of a message.
LEMMA MessageIs ==
  ASSUME NEW m \in Messages
  PROVE  /\ m.width \in Nat /\ m.width > 0 /\ m.int \in 0 .. Power[m.width] - 1 /\ m.int \in Nat
         /\ m.str \in Seq(Byte) /\ Terminated(m.str) \in Seq(Nat)
         /\ m.vec \in Seq(0 .. Power[m.width] - 1) /\ m.vec \in Seq(Nat)
         /\ Size(m) \in Nat /\ Size(m) < Power[LenWidth] \div 2
         /\ Power[LenWidth] \in Nat /\ Len(m.vec) * m.width \in Nat
         /\ Len(Terminated(m.str)) \in Nat
         /\ Size(m) = 3 * LenWidth + m.width + Len(Terminated(m.str)) + Len(m.vec) * m.width
<1>1. /\ m.width \in Nat \ {0} /\ m.int \in 0 .. Power[m.width] - 1
      /\ m.str \in Seq(Byte) /\ m.vec \in Seq(0 .. Power[m.width] - 1)
      /\ Size(m) < Power[LenWidth] \div 2
  BY MessagesAssumption
<1>2. LenWidth \in Nat
  BY RadixAssumption
<1>3. Power[m.width] \in Nat /\ Power[LenWidth] \in Nat
  BY <1>1, <1>2, PowerIs
<1>4. m.int \in Nat /\ m.width \in Nat /\ m.width > 0
  BY <1>1, <1>3
<1>5. m.vec \in Seq(Nat) /\ Len(m.vec) \in Nat
  <2> DEFINE V == 0 .. Power[m.width] - 1
  <2>1. V \subseteq Nat
    BY <1>3
  <2>2. m.vec \in Seq(V)
    BY <1>1
  <2> HIDE DEF V
  <2>3. Len(m.vec) \in Nat /\ m.vec \in [1 .. Len(m.vec) -> V]
    BY <2>2
  <2>4. m.vec \in [1 .. Len(m.vec) -> Nat]
    BY <2>1, <2>3
  <2>5. QED
    BY <2>3, <2>4
<1>6. Terminated(m.str) \in Seq(Nat) /\ Len(Terminated(m.str)) \in Nat
  BY <1>1, TerminatedIs
<1>7. Len(m.vec) * m.width \in Nat
  BY <1>4, <1>5, ProductIs
<1>8. Size(m) = 3 * LenWidth + m.width + Len(Terminated(m.str)) + Len(m.vec) * m.width
  BY DEF Size
<1>9. Size(m) \in Nat
  <2> DEFINE p == Len(m.vec) * m.width
  <2>1. p \in Nat /\ Size(m) = 3 * LenWidth + m.width + Len(Terminated(m.str)) + p
    BY <1>7, <1>8
  <2> HIDE DEF p
  <2>2. QED
    BY <1>2, <1>4, <1>6, <2>1
<1>10. QED
  BY <1>1, <1>3, <1>4, <1>5, <1>6, <1>7, <1>8, <1>9

\* Where the parts of a message lie behind the data of b.
IntAt(b)     == DataLen(b) + LenWidth
StrLenAt(b, m) == IntAt(b) + m.width
StrAt(b, m)  == StrLenAt(b, m) + LenWidth
VecLenAt(b, m) == StrAt(b, m) + Len(Terminated(m.str))
ItemAt(b, m, i) == VecLenAt(b, m) + LenWidth + (i - 1) * m.width

\* A message behind the data of b.
Encoded(e, b, m) ==
  /\ IsBuffer(e, Nat) /\ DataLen(e) = DataLen(b) + Size(m) /\ Keeps(e, b)
  /\ Holds(e, DataLen(b), Digits(Size(m), LenWidth))
  /\ Holds(e, IntAt(b), Digits(m.int, m.width))
  /\ Holds(e, StrLenAt(b, m), Digits(Len(Terminated(m.str)), LenWidth))
  /\ Holds(e, StrAt(b, m), Terminated(m.str))
  /\ Holds(e, VecLenAt(b, m), Digits(Len(m.vec), LenWidth))
  /\ \A i \in 1 .. Len(m.vec) : Holds(e, ItemAt(b, m, i), Digits(m.vec[i], m.width))

\* The places are naturals.
LEMMA PlacesAre ==
  ASSUME NEW b, IsBuffer(b, Nat), NEW m \in Messages
  PROVE  /\ DataLen(b) \in Nat /\ LenWidth \in Nat /\ LenWidth > 0
         /\ IntAt(b) \in Nat /\ StrLenAt(b, m) \in Nat /\ StrAt(b, m) \in Nat
         /\ VecLenAt(b, m) \in Nat
         /\ \A i \in 1 .. Len(m.vec) : ItemAt(b, m, i) \in Nat /\ ItemAt(b, m, i) >= IntAt(b)
         /\ IntAt(b) <= StrLenAt(b, m) /\ StrLenAt(b, m) <= StrAt(b, m)
         /\ StrAt(b, m) <= VecLenAt(b, m)
         /\ VecLenAt(b, m) + LenWidth + Len(m.vec) * m.width = DataLen(b) + Size(m)
<1> DEFINE w == m.width
           k == Len(Terminated(m.str))
           l == Len(m.vec)
           p == l * w
<1>1. /\ w \in Nat /\ k \in Nat /\ p \in Nat
      /\ Size(m) = 3 * LenWidth + w + k + p
  BY MessageIs
<1>2. DataLen(b) \in Nat /\ LenWidth \in Nat /\ LenWidth > 0
  BY WindowIs, RadixAssumption
<1>3. \A i \in 1 .. l : (i - 1) * w \in Nat
  <2>1. l \in Nat
    BY MessageIs
  <2> HIDE DEF l
  <2>2. \A i \in 1 .. l : i - 1 \in Nat
    BY <2>1
  <2> HIDE DEF w
  <2>3. QED
    BY <1>1, <2>2, ProductIs
<1> HIDE DEF w, k, p, l
<1>4. /\ IntAt(b) \in Nat /\ StrLenAt(b, m) = IntAt(b) + w
      /\ StrAt(b, m) = StrLenAt(b, m) + LenWidth
      /\ VecLenAt(b, m) = StrAt(b, m) + k
      /\ IntAt(b) = DataLen(b) + LenWidth
  BY <1>2 DEF IntAt, StrLenAt, StrAt, VecLenAt, w, k
<1>5. /\ StrLenAt(b, m) \in Nat /\ StrAt(b, m) \in Nat /\ VecLenAt(b, m) \in Nat
      /\ IntAt(b) <= StrLenAt(b, m) /\ StrLenAt(b, m) <= StrAt(b, m)
      /\ StrAt(b, m) <= VecLenAt(b, m)
  BY <1>1, <1>2, <1>4
<1>6. VecLenAt(b, m) + LenWidth + p = DataLen(b) + Size(m)
  BY <1>1, <1>2, <1>4, <1>5
<1>7. ASSUME NEW i \in 1 .. l
      PROVE  ItemAt(b, m, i) \in Nat /\ ItemAt(b, m, i) >= IntAt(b)
  <2> DEFINE j == (i - 1) * w
  <2>1. j \in Nat /\ ItemAt(b, m, i) = VecLenAt(b, m) + LenWidth + j
    BY <1>3 DEF ItemAt, w
  <2> HIDE DEF j
  <2>2. QED
    BY <1>2, <1>4, <1>5, <2>1
<1>8. QED
  BY <1>2, <1>4, <1>5, <1>6, <1>7 DEF p, l, w

\* What the typed writes leave.
LEMMA EncodeIs ==
  ASSUME NEW b, IsBuffer(b, Nat), NEW m \in Messages
  PROVE  Encoded(Encode(b, m), b, m)
<1> DEFINE w == m.width
           t == Terminated(m.str)
           v == m.vec
           L == LenWidth
           b0 == WriteInt(b, 0, L)
           b1 == WriteInt(b0, m.int, w)
           b2 == WriteString(b1, m.str)
           b3 == WriteVector(b2, v, w)
<1>1. /\ DataLen(b) \in Nat /\ L \in Nat /\ w \in Nat /\ m.int \in Nat
      /\ t \in Seq(Nat) /\ v \in Seq(Nat) /\ Len(t) \in Nat /\ Len(v) \in Nat
      /\ Size(m) \in Nat /\ 0 \in Nat
  <2>1. DataLen(b) \in Nat /\ L \in Nat
    BY PlacesAre
  <2>2. /\ w \in Nat /\ m.int \in Nat /\ t \in Seq(Nat) /\ v \in Seq(Nat)
        /\ Len(t) \in Nat /\ Size(m) \in Nat
    BY MessageIs
  <2>3. Len(v) \in Nat
    BY <2>2
  <2>4. QED
    BY <2>1, <2>2, <2>3
<1>2. Encode(b, m) = Fill(b3, Digits(DataLen(b3) - DataLen(b), L), b3.data + DataLen(b))
  BY DEF Encode
<1>3. IsBuffer(b0, Nat) /\ DataLen(b0) = IntAt(b) /\ Keeps(b0, b)
  <2>1. IsBuffer(b0, Nat) /\ DataLen(b0) = DataLen(b) + L /\ Keeps(b0, b)
    BY <1>1, WriteIntIs
  <2>2. QED
    BY <2>1 DEF IntAt
<1> HIDE DEF b0
<1>4. /\ IsBuffer(b1, Nat) /\ DataLen(b1) = StrLenAt(b, m) /\ Keeps(b1, b0)
      /\ Holds(b1, IntAt(b), Digits(m.int, w))
  <2>1. IsBuffer(b1, Nat) /\ DataLen(b1) = DataLen(b0) + w /\ Keeps(b1, b0)
        /\ Holds(b1, DataLen(b0), Digits(m.int, w))
    BY <1>1, <1>3, WriteIntIs
  <2> HIDE DEF b1
  <2>2. QED
    BY <1>3, <2>1 DEF StrLenAt
<1> HIDE DEF b1
<1>5. /\ IsBuffer(b2, Nat) /\ DataLen(b2) = VecLenAt(b, m) /\ Keeps(b2, b1)
      /\ Holds(b2, StrLenAt(b, m), Digits(Len(t), L)) /\ Holds(b2, StrAt(b, m), t)
  <2>1. /\ IsBuffer(b2, Nat) /\ DataLen(b2) = DataLen(b1) + L + Len(t) /\ Keeps(b2, b1)
        /\ Holds(b2, DataLen(b1), Digits(Len(t), L)) /\ Holds(b2, DataLen(b1) + L, t)
    BY <1>1, <1>4, WriteStringIs
  <2> HIDE DEF b2
  <2>2. QED
    BY <1>4, <2>1 DEF StrAt, VecLenAt
<1> HIDE DEF b2
<1>6. /\ IsBuffer(b3, Nat) /\ DataLen(b3) = DataLen(b) + Size(m) /\ Keeps(b3, b2)
      /\ Holds(b3, VecLenAt(b, m), Digits(Len(v), L))
      /\ \A i \in 1 .. Len(v) : Holds(b3, ItemAt(b, m, i), Digits(v[i], w))
  <2>1. /\ IsBuffer(b3, Nat) /\ DataLen(b3) = DataLen(b2) + L + Len(v) * w
        /\ Keeps(b3, b2)
        /\ Holds(b3, DataLen(b2), Digits(Len(v), L))
        /\ \A i \in 1 .. Len(v) : Holds(b3, DataLen(b2) + L + (i - 1) * w, Digits(v[i], w))
    BY <1>1, <1>5, WriteVectorIs
  <2> HIDE DEF b3
  <2>2. DataLen(b3) = DataLen(b) + Size(m)
    BY <1>5, <2>1, PlacesAre
  <2>3. \A i \in 1 .. Len(v) : Holds(b3, ItemAt(b, m, i), Digits(v[i], w))
    BY <1>5, <2>1 DEF ItemAt
  <2>4. QED
    BY <1>5, <2>1, <2>2, <2>3
<1> HIDE DEF b3, w, t, v, L
<1>7. Keeps(b3, b0) /\ Keeps(b3, b1) /\ Keeps(b3, b)
  <2>1. Keeps(b3, b1)
    BY <1>4, <1>5, <1>6, KeptOn
  <2>2. Keeps(b3, b0)
    BY <1>3, <1>4, <1>6, <2>1, KeptOn
  <2>3. Keeps(b3, b)
    BY <1>3, <1>6, <2>2, KeptOn
  <2>4. QED
    BY <2>1, <2>2, <2>3
<1>8. \A q, x \in Nat : Digits(q, x) \in Seq(Nat) /\ Len(Digits(q, x)) = x
  BY DigitsAre
<1>9. /\ IntAt(b) \in Nat /\ StrLenAt(b, m) \in Nat /\ StrAt(b, m) \in Nat
      /\ VecLenAt(b, m) \in Nat
      /\ IntAt(b) <= StrLenAt(b, m) /\ StrLenAt(b, m) <= StrAt(b, m)
      /\ StrAt(b, m) <= VecLenAt(b, m) /\ IntAt(b) = DataLen(b) + L
      /\ \A i \in 1 .. Len(v) : ItemAt(b, m, i) \in Nat /\ ItemAt(b, m, i) >= IntAt(b)
  BY PlacesAre DEF IntAt, v, L
<1>10. Holds(b3, IntAt(b), Digits(m.int, w))
  BY <1>1, <1>4, <1>6, <1>7, <1>8, <1>9, KeptIsHeld
<1>11. Holds(b3, StrLenAt(b, m), Digits(Len(t), L)) /\ Holds(b3, StrAt(b, m), t)
  BY <1>1, <1>5, <1>6, <1>8, <1>9, KeptIsHeld
<1> DEFINE s == Digits(Size(m), L)
           n == DataLen(b)
           e == Fill(b3, s, b3.data + n)
<1>12. Encode(b, m) = e
  <2>1. DataLen(b3) - DataLen(b) = Size(m)
    BY <1>1, <1>6
  <2>2. QED
    BY <1>2, <2>1 DEF L
<1>13. s \in Seq(Nat) /\ Len(s) = L /\ n \in Nat /\ n + L = IntAt(b) /\ n + Len(s) <= DataLen(b3)
  <2>1. n + L <= DataLen(b3)
    <3>1. IntAt(b) <= DataLen(b1)
      BY <1>4, <1>9
    <3>2. DataLen(b1) <= DataLen(b3)
      BY <1>7 DEF Keeps
    <3>3. DataLen(b1) \in Nat /\ DataLen(b3) \in Nat
      BY <1>4, <1>6, WindowIs
    <3>4. QED
      BY <1>9, <3>1, <3>2, <3>3
  <2>2. s \in Seq(Nat) /\ Len(s) = L
    BY <1>1, <1>8
  <2> HIDE DEF s
  <2>3. QED
    BY <1>1, <1>9, <2>1, <2>2
<1> HIDE DEF s, n
<1>14. /\ IsBuffer(e, Nat) /\ DataLen(e) = DataLen(b3)
       /\ \A i \in 1 .. DataLen(b3) :
            e.mem[e.data + i] = IF i \in n + 1 .. n + Len(s) THEN s[i - n] ELSE b3.mem[b3.data + i]
  BY <1>6, <1>13, FillIs
<1> HIDE DEF e
<1>15. /\ Holds(e, n, s)
       /\ \A k \in Nat : \A x \in Seq(Nat) :
            k >= n + Len(s) /\ Holds(b3, k, x) => Holds(e, k, x)
       /\ \A a : IsBuffer(a, Nat) /\ DataLen(a) <= n /\ Keeps(b3, a) => Keeps(e, a)
  BY <1>6, <1>13, <1>14, FilledIsHeld
<1>16. \A k \in Nat : \A x \in Seq(Nat) :
         k >= IntAt(b) /\ Holds(b3, k, x) => Holds(e, k, x)
  BY <1>13, <1>15
<1>17. Keeps(e, b)
  BY <1>1, <1>7, <1>15 DEF n
<1>18. Holds(e, IntAt(b), Digits(m.int, w))
  <2>1. IntAt(b) >= IntAt(b)
    BY <1>9
  <2>2. QED
    BY <1>1, <1>8, <1>9, <1>10, <1>16, <2>1
<1>19. Holds(e, StrLenAt(b, m), Digits(Len(t), L)) /\ Holds(e, StrAt(b, m), t)
  <2>1. StrLenAt(b, m) >= IntAt(b) /\ StrAt(b, m) >= IntAt(b)
    BY <1>9
  <2>2. QED
    BY <1>1, <1>8, <1>9, <1>11, <1>16, <2>1
<1>20. Holds(e, VecLenAt(b, m), Digits(Len(v), L))
  <2>1. VecLenAt(b, m) >= IntAt(b)
    BY <1>9
  <2>2. QED
    BY <1>1, <1>6, <1>8, <1>9, <1>16, <2>1
<1>21. \A i \in 1 .. Len(v) : Holds(e, ItemAt(b, m, i), Digits(v[i], w))
  <2> SUFFICES ASSUME NEW i \in 1 .. Len(v) PROVE Holds(e, ItemAt(b, m, i), Digits(v[i], w))
    OBVIOUS
  <2>1. v[i] \in Nat
    BY <1>1
  <2>2. Digits(v[i], w) \in Seq(Nat) /\ ItemAt(b, m, i) \in Nat /\ ItemAt(b, m, i) >= IntAt(b)
    BY <1>1, <1>8, <1>9, <2>1
  <2>3. QED
    BY <1>6, <1>16, <2>2
<1>22. QED
  BY <1>6, <1>12, <1>14, <1>15, <1>17, <1>18, <1>19, <1>20, <1>21
     DEF Encoded, s, n, w, t, v, L

\* A window whose end moves.
LEMMA CutIs ==
  ASSUME NEW b, IsBuffer(b, Nat), NEW n \in Nat, n <= DataLen(b)
  PROVE  /\ IsBuffer([b EXCEPT !.free = b.data + n], Nat)
         /\ DataLen([b EXCEPT !.free = b.data + n]) = n
         /\ [b EXCEPT !.free = b.data + n].mem = b.mem
         /\ [b EXCEPT !.free = b.data + n].data = b.data
<1> DEFINE k == b.data + n
           c == [b EXCEPT !.free = k]
<1>1. /\ b \in [mem : Seq(Nat), data : Nat, free : Nat] /\ Len(b.mem) \in Nat
      /\ b.data \in Nat /\ b.free \in Nat /\ b.data <= b.free /\ b.free <= Len(b.mem)
      /\ DataLen(b) = b.free - b.data
  BY DEF IsBuffer, DataLen
<1>2. k \in Nat /\ b.data <= k /\ k <= Len(b.mem) /\ k - b.data = n
  BY <1>1
<1>3. /\ c \in [mem : Seq(Nat), data : Nat, free : Nat]
      /\ c.mem = b.mem /\ c.data = b.data /\ c.free = k
  <2> HIDE DEF k
  <2>1. QED
    BY <1>1, <1>2
<1> HIDE DEF c, k
<1>4. IsBuffer(c, Nat)
  BY <1>1, <1>2, <1>3 DEF IsBuffer
<1>5. DataLen(c) = n
  BY <1>1, <1>2, <1>3 DEF DataLen
<1>6. QED
  BY <1>3, <1>4, <1>5 DEF c, k

\* Without the message, the data is what it was.
LEMMA StripIs ==
  ASSUME NEW b, IsBuffer(b, Nat), NEW e, IsBuffer(e, Nat), Keeps(e, b),
         NEW n \in Nat, DataLen(e) = DataLen(b) + n
  PROVE  Data(Strip(e, n)) = Data(b)
<1> DEFINE k == DataLen(b)
           c == [e EXCEPT !.free = e.data + k]
<1>1. /\ e.data \in Nat /\ e.free \in Nat /\ DataLen(e) = e.free - e.data
      /\ k \in Nat /\ DataLen(e) \in Nat
  BY WindowIs DEF IsBuffer, DataLen
<1> HIDE DEF k
<1>2. e.free - n = e.data + k /\ k <= DataLen(e)
  BY <1>1 DEF k
<1>3. Strip(e, n) = c
  BY <1>2 DEF Strip
<1>4. IsBuffer(c, Nat) /\ DataLen(c) = k /\ c.mem = e.mem /\ c.data = e.data
  BY <1>1, <1>2, CutIs
<1> HIDE DEF c
<1>5. /\ Data(c) \in Seq(Nat) /\ Len(Data(c)) = k
      /\ \A i \in 1 .. k : Data(c)[i] = e.mem[e.data + i]
  BY <1>4, WindowIs
<1>6. /\ Data(b) \in Seq(Nat) /\ Len(Data(b)) = k
      /\ \A i \in 1 .. k : Data(b)[i] = b.mem[b.data + i]
  BY WindowIs DEF k
<1>7. \A i \in 1 .. k : e.mem[e.data + i] = b.mem[b.data + i]
  BY DEF Keeps, k
<1>8. Data(c) = Data(b)
  <2>1. \A i \in 1 .. k : Data(c)[i] = Data(b)[i]
    BY <1>5, <1>6, <1>7
  <2>2. QED
    BY <1>5, <1>6, <2>1, SeqEqual
<1>9. QED
  BY <1>3, <1>8

\* A string that is held is found, there or before.
LEMMA FoundIs ==
  ASSUME NEW b, IsBuffer(b, Nat), NEW n \in Nat, n <= DataLen(b), NEW j \in Nat,
         NEW s \in Seq(Nat), Holds(b, n + j, s)
  PROVE  FindBytes(Skip(b, n), s) \in 0 .. j
<1> DEFINE x == Skip(b, n)
           places == {i \in 0 .. DataLen(x) - Len(s) : Bytes(Skip(x, i), Len(s)) = s}
<1>1. Len(s) \in Nat /\ DataLen(b) \in Nat /\ DataLen(x) = DataLen(b) - n
  BY WindowIs, SkippedIs
<1>2. j \in places
  <2>1. Skip(x, j) = Skip(b, n + j)
    BY SkippedTwice
  <2>2. Bytes(Skip(x, j), Len(s)) = s
    <3> DEFINE k == n + j
    <3>1. k \in Nat /\ Holds(b, k, s)
      OBVIOUS
    <3> HIDE DEF k
    <3>2. Bytes(Skip(b, k), Len(s)) = s
      BY <3>1, BytesAre
    <3>3. QED
      BY <2>1, <3>2 DEF k
  <2>3. (n + j) + Len(s) <= DataLen(b)
    BY DEF Holds
  <2> HIDE DEF x
  <2>4. j \in 0 .. DataLen(x) - Len(s)
    BY <1>1, <2>3
  <2>5. QED
    BY <2>2, <2>4
<1>3. places \subseteq Nat
  BY <1>1
<1>4. FindBytes(x, s) = IF places = {} THEN -1
                        ELSE CHOOSE i \in places : \A k \in places : i <= k
  BY DEF FindBytes
<1> HIDE DEF places, x
<1>5. PICK i \in places : \A k \in places : ~ (k < i)
  BY <1>2, <1>3, Least
<1>6. \A k \in places : i <= k
  BY <1>3, <1>5
<1>7. \E i_1 \in places : \A k \in places : i_1 <= k
  BY <1>6
<1> DEFINE f == CHOOSE i_1 \in places : \A k \in places : i_1 <= k
<1>8. f \in places /\ \A k \in places : f <= k
  BY <1>7
<1>9. FindBytes(x, s) = f
  BY <1>2, <1>4
<1> HIDE DEF f
<1>10. QED
  BY <1>2, <1>3, <1>8, <1>9 DEF x

\* On every buffer the typed reads give back what the typed writes wrote.
LEMMA RoundTripIs ==
  ASSUME NEW b, IsBuffer(b, Nat), NEW m \in Messages
  PROVE  RoundTrip(b, m)
<1> DEFINE e == Encode(b, m)
           t == Terminated(m.str)
           x == Skip(e, DataLen(b))
           d == Decode(x, m.width)
           cut == [e EXCEPT !.free = @ - DataLen(e) + m.width - 1]
           r1 == ReadInt(x, LenWidth)
           r2 == ReadInt(r1.rest, m.width)
           r3 == ReadString(r2.rest, 0)
           r4 == ReadVector(r3.rest, m.width)
<1>1. Encoded(e, b, m)
  BY EncodeIs
<1>2. RoundTrip(b, m) <=>
        /\ Data(Strip(e, d.len)) = Data(b)
        /\ t # <<>> => FindBytes(x, t) \in 0 .. 2 * LenWidth + m.width
        /\ d.len = DataLen(e) - DataLen(b)
        /\ d.int = m.int /\ d.str = t /\ d.vec = m.vec
        /\ DataLen(d.rest) = 0
        /\ ReadInt(cut, m.width) = [ok |-> FALSE, val |-> 0, rest |-> cut]
  BY DEF RoundTrip
<1>3. d = [len |-> r1.val, int |-> r2.val, str |-> r3.val, vec |-> r4.val, rest |-> r4.rest]
  BY DEF Decode
<1> HIDE DEF e
<1>4. /\ IsBuffer(e, Nat) /\ DataLen(e) = DataLen(b) + Size(m) /\ Keeps(e, b)
      /\ Holds(e, DataLen(b), Digits(Size(m), LenWidth))
      /\ Holds(e, IntAt(b), Digits(m.int, m.width))
      /\ Holds(e, StrLenAt(b, m), Digits(Len(t), LenWidth))
      /\ Holds(e, StrAt(b, m), t)
      /\ Holds(e, VecLenAt(b, m), Digits(Len(m.vec), LenWidth))
      /\ \A i \in 1 .. Len(m.vec) : Holds(e, ItemAt(b, m, i), Digits(m.vec[i], m.width))
  BY <1>1 DEF Encoded
<1>5. /\ DataLen(b) \in Nat /\ LenWidth \in Nat /\ LenWidth > 0
      /\ IntAt(b) \in Nat /\ StrLenAt(b, m) \in Nat /\ StrAt(b, m) \in Nat
      /\ VecLenAt(b, m) \in Nat
      /\ VecLenAt(b, m) + LenWidth + Len(m.vec) * m.width = DataLen(b) + Size(m)
  BY PlacesAre
<1>6. /\ m.width \in Nat /\ m.width > 0 /\ m.int \in 0 .. Power[m.width] - 1 /\ m.int \in Nat
      /\ m.str \in Seq(Byte) /\ t \in Seq(Nat)
      /\ m.vec \in Seq(0 .. Power[m.width] - 1) /\ Len(m.vec) \in Nat
      /\ Size(m) \in Nat /\ Size(m) < Power[LenWidth] \div 2
      /\ Power[LenWidth] \in Nat /\ Len(t) \in Nat /\ Len(m.vec) * m.width \in Nat
      /\ Size(m) = 3 * LenWidth + m.width + Len(t) + Len(m.vec) * m.width
  <2>1. Len(m.vec) \in Nat
    BY MessageIs
  <2>2. QED
    BY <2>1, MessageIs
<1>7. /\ Size(m) \in 0 .. Power[LenWidth] - 1
      /\ Len(t) < Power[LenWidth] \div 2
      /\ Len(m.vec) < Power[LenWidth]
  <2> DEFINE p == Power[LenWidth]
             l == Len(m.vec)
             w == m.width
             z == Size(m)
             k == Len(t)
  <2>1. p \in Nat /\ l \in Nat /\ w \in Nat /\ w > 0 /\ z \in Nat /\ k \in Nat
    BY <1>6
  <2>2. z < p \div 2 /\ z = 3 * LenWidth + w + k + l * w /\ l * w \in Nat
    BY <1>6
  <2> HIDE DEF p, l, w, z, k
  <2>3. l * w >= l
    BY <2>1
  <2>4. z < p /\ p \div 2 \in Nat /\ p \div 2 <= p
    BY <2>1, <2>2
  <2>5. k < p \div 2 /\ l < p
    BY <1>5, <2>1, <2>2, <2>3, <2>4
  <2>6. QED
    BY <2>1, <2>4, <2>5 DEF p, l, w, z, k
<1> HIDE DEF t
<1>8. r1.val = Size(m) /\ r1.rest = Skip(e, IntAt(b))
  BY <1>4, <1>5, <1>7, ReadIntIs DEF IntAt
<1>9. r2.val = m.int /\ r2.rest = Skip(e, StrLenAt(b, m))
  <2> HIDE DEF r1
  <2>1. ReadInt(Skip(e, IntAt(b)), m.width).val = m.int
        /\ ReadInt(Skip(e, IntAt(b)), m.width).rest = Skip(e, IntAt(b) + m.width)
    <3>1. /\ IsBuffer(e, Nat) /\ IntAt(b) \in Nat /\ m.width \in Nat
          /\ m.int \in 0 .. Power[m.width] - 1
          /\ Holds(e, IntAt(b), Digits(m.int, m.width))
      BY <1>4, <1>5, <1>6
    <3>2. QED
      BY <3>1, ReadIntIs
  <2>2. QED
    BY <1>8, <2>1 DEF StrLenAt
<1>10. r3.val = t /\ r3.rest = Skip(e, VecLenAt(b, m))
  <2> HIDE DEF r2
  <2>1. /\ Len(Terminated(m.str)) < Power[LenWidth] \div 2
        /\ Holds(e, StrLenAt(b, m), Digits(Len(Terminated(m.str)), LenWidth))
        /\ Holds(e, StrLenAt(b, m) + LenWidth, Terminated(m.str))
    BY <1>4, <1>7 DEF t, StrAt
  <2>2. /\ ReadString(Skip(e, StrLenAt(b, m)), 0).val = Terminated(m.str)
        /\ ReadString(Skip(e, StrLenAt(b, m)), 0).rest =
             Skip(e, StrLenAt(b, m) + LenWidth + Len(Terminated(m.str)))
    <3>1. IsBuffer(e, Nat) /\ StrLenAt(b, m) \in Nat /\ m.str \in Seq(Byte)
      BY <1>4, <1>5, <1>6
    <3>2. QED
      BY <2>1, <3>1, ReadStringIs
  <2>3. QED
    BY <1>9, <2>2 DEF t, StrAt, VecLenAt
<1>11. r4.val = m.vec /\ r4.rest = Skip(e, DataLen(b) + Size(m))
  <2> HIDE DEF r3
  <2>1. \A i \in 1 .. Len(m.vec) :
          Holds(e, VecLenAt(b, m) + LenWidth + (i - 1) * m.width, Digits(m.vec[i], m.width))
    BY <1>4 DEF ItemAt
  <2>2. /\ ReadVector(Skip(e, VecLenAt(b, m)), m.width).val = m.vec
        /\ ReadVector(Skip(e, VecLenAt(b, m)), m.width).rest =
             Skip(e, VecLenAt(b, m) + LenWidth + Len(m.vec) * m.width)
    <3>1. /\ IsBuffer(e, Nat) /\ VecLenAt(b, m) \in Nat /\ m.width \in Nat
          /\ m.vec \in Seq(0 .. Power[m.width] - 1) /\ Len(m.vec) < Power[LenWidth]
          /\ Holds(e, VecLenAt(b, m), Digits(Len(m.vec), LenWidth))
      BY <1>4, <1>5, <1>6, <1>7
    <3> DEFINE v == m.vec
               w == m.width
               n == VecLenAt(b, m)
    <3>2. /\ IsBuffer(e, Nat) /\ n \in Nat /\ w \in Nat
          /\ v \in Seq(0 .. Power[w] - 1) /\ Len(v) < Power[LenWidth]
          /\ Holds(e, n, Digits(Len(v), LenWidth))
          /\ \A i \in 1 .. Len(v) : Holds(e, n + LenWidth + (i - 1) * w, Digits(v[i], w))
      BY <2>1, <3>1
    <3> HIDE DEF v, w, n
    <3>3. /\ ReadVector(Skip(e, n), w).val = v
          /\ ReadVector(Skip(e, n), w).rest = Skip(e, n + LenWidth + Len(v) * w)
      BY <3>2, ReadVectorIs
    <3>4. QED
      BY <3>3 DEF v, w, n
  <2>3. QED
    BY <1>5, <1>10, <2>2
<1> HIDE DEF r1, r2, r3, r4
<1>12. /\ d.len = Size(m) /\ d.int = m.int /\ d.str = t /\ d.vec = m.vec
       /\ d.rest = Skip(e, DataLen(b) + Size(m))
  BY <1>3, <1>8, <1>9, <1>10, <1>11
<1> HIDE DEF d
<1> DEFINE o == DataLen(b)
           w == m.width
           z == Size(m)
<1>13. /\ o \in Nat /\ w \in Nat /\ w > 0 /\ z \in Nat /\ z >= w
       /\ DataLen(e) = o + z
  <2> DEFINE k == Len(t)
             p == Len(m.vec) * w
  <2>1. k \in Nat /\ p \in Nat /\ z = 3 * LenWidth + w + k + p
    BY <1>6
  <2>2. o \in Nat /\ w \in Nat /\ w > 0 /\ z \in Nat /\ DataLen(e) = o + z /\ LenWidth \in Nat
    BY <1>4, <1>5, <1>6
  <2> HIDE DEF k, p, o, w, z
  <2>3. z >= w
    BY <2>1, <2>2
  <2>4. QED
    BY <2>2, <2>3
<1>14. d.len = DataLen(e) - DataLen(b)
  BY <1>4, <1>5, <1>6, <1>12
<1>15. Data(Strip(e, d.len)) = Data(b)
  BY <1>4, <1>6, <1>12, StripIs
<1>16. DataLen(d.rest) = 0
  <2> DEFINE n == DataLen(b) + Size(m)
  <2>1. n \in Nat /\ n <= DataLen(e) /\ DataLen(e) - n = 0
    <3> HIDE DEF o, w, z
    <3>1. o + z \in Nat /\ o + z <= DataLen(e) /\ DataLen(e) - (o + z) = 0
      BY <1>13
    <3>2. QED
      BY <3>1 DEF o, z
  <2> HIDE DEF n
  <2>2. DataLen(Skip(e, n)) = DataLen(e) - n
    BY <1>4, <2>1, SkippedIs
  <2>3. QED
    BY <1>12, <2>1, <2>2 DEF n
<1>17. FindBytes(x, t) \in 0 .. 2 * LenWidth + m.width
  <2> DEFINE j == 2 * LenWidth + m.width
             n == DataLen(b)
  <2>1. j \in Nat /\ StrAt(b, m) = n + j /\ n \in Nat /\ n <= DataLen(e)
    <3>1. StrAt(b, m) = o + LenWidth + w + LenWidth
      BY DEF StrAt, StrLenAt, IntAt
    <3> HIDE DEF o, w, z
    <3>2. LenWidth \in Nat
      BY <1>5
    <3>3. 2 * LenWidth + w \in Nat /\ StrAt(b, m) = o + (2 * LenWidth + w)
          /\ o \in Nat /\ o <= DataLen(e)
      BY <1>13, <3>1, <3>2
    <3>4. QED
      BY <3>3 DEF o, w
  <2>2. Holds(e, n + j, t)
    BY <1>4, <2>1
  <2> HIDE DEF j, n
  <2>3. FindBytes(Skip(e, n), t) \in 0 .. j
    BY <1>4, <1>6, <2>1, <2>2, FoundIs
  <2>4. QED
    BY <2>3 DEF n, j
<1>18. ReadInt(cut, m.width) = [ok |-> FALSE, val |-> 0, rest |-> cut]
  <2> DEFINE n == m.width - 1
             c == [e EXCEPT !.free = e.data + n]
  <2>1. n \in Nat /\ n < m.width /\ n <= DataLen(e)
    <3> HIDE DEF o, w, z
    <3>1. w - 1 \in Nat /\ w - 1 < w /\ w - 1 <= DataLen(e)
      BY <1>13
    <3>2. QED
      BY <3>1 DEF w
  <2>2. /\ e.data \in Nat /\ e.free \in Nat /\ DataLen(e) = e.free - e.data
    BY <1>4 DEF IsBuffer, DataLen
  <2>3. e.free - DataLen(e) + m.width - 1 = e.data + n
    BY <1>6, <2>2
  <2>4. cut = c
    BY <2>3
  <2> HIDE DEF n
  <2>5. IsBuffer(c, Nat) /\ DataLen(c) = n
    BY <1>4, <2>1, CutIs
  <2> HIDE DEF c, cut
  <2>6. ReadInt(c, m.width) = [ok |-> FALSE, val |-> 0, rest |-> c]
    BY <1>6, <2>1, <2>5, ReadCut
  <2>7. QED
    BY <2>4, <2>6
<1> HIDE DEF x, cut
<1>19. QED
  BY <1>2, <1>12, <1>14, <1>15, <1>16, <1>17, <1>18

----------------------------------------------------------------------------
(* The theorems.                                                           *)

\* The invariants hold in every state of the two sides of a connection.
THEOREM StreamInvariant == StreamSpec => [](Receiving /\ Delivering)
<1>1. StreamInit => Receiving /\ Delivering
  BY ReceivingInit, DeliveringInit
<1>2. Receiving /\ Delivering /\ [StreamNext]_streamVars => (Receiving /\ Delivering)'
  BY ReceivingStep, DeliveringStep
<1>3. QED
  BY <1>1, <1>2, PTL DEF StreamSpec

\* Every variable of the receiving side has its type.
THEOREM StreamTyped == StreamSpec => []TypeOK
<1>1. Receiving => TypeOK
  BY DEF Receiving
<1>2. QED
  BY <1>1, StreamInvariant, PTL

\* The bytes in _input are the last that were taken from the socket, in order,
\* whatever expand, drainData and shrink do between the reads.
THEOREM BytesInOrder == StreamSpec => []InOrder
<1>1. Receiving => InOrder
  BY DEF Receiving
<1>2. QED
  BY <1>1, StreamInvariant, PTL

\* onRead gets the PDUs of the stream, whole and in order, however the reads cut
\* them.
THEOREM PdusAreWhole == StreamSpec => []Whole
<1>1. Receiving => Whole
  BY DEF Receiving
<1>2. QED
  BY <1>1, StreamInvariant, PTL

\* A connection reported as closed by the peer was closed by it, and onRead had
\* every PDU that came whole: read_data never reads into a full buffer.
THEOREM RemoteClosesAreTrue == StreamSpec => []RemoteCloseTrue
<1>1. Receiving => RemoteCloseTrue
  BY DEF Receiving
<1>2. QED
  BY <1>1, StreamInvariant, PTL

\* With the peer and the network up, only a read after the first of read_data
\* breaks a connection.
THEOREM OnlyLaterReadsBreak == StreamSpec => []BrokenWhileUp
<1>1. Receiving => BrokenWhileUp
  BY DEF Receiving
<1>2. QED
  BY <1>1, StreamInvariant, PTL

\* Every byte a send accepted is, once and in its place, on the wire or still in
\* _output.
THEOREM NothingSentIsLost == StreamSpec => []OutputWhole
<1>1. Delivering => OutputWhole
  BY DEF Delivering
<1>2. QED
  BY <1>1, StreamInvariant, PTL

\* Without interest in writing, _output has at most the memory that shrink goes
\* back to.
THEOREM MemoryIsGivenBack == StreamSpec => []GivenBack
<1>1. Delivering => GivenBack
  BY DEF Delivering
<1>2. QED
  BY <1>1, StreamInvariant, PTL

\* However PDUs are cut by the reads, _input never takes more memory than about
\* twice what the longest PDU and a read need.
THEOREM MemoryIsBounded ==
  ASSUME FirstFits
  PROVE  StreamSpec => []Bounded
<1>1. StreamInit => Bounded
  <2>1. StreamInit => Len(input.mem) = 0
    BY EmptyIs DEF StreamInit, Init
  <2>2. QED
    BY <2>1, LongestIs DEF Bounded, Longest
<1>2. Receiving /\ Bounded /\ [StreamNext]_streamVars => Bounded'
  BY BoundedStep
<1>3. QED
  BY <1>1, <1>2, StreamInvariant, PTL DEF StreamSpec

\* writeInt.., writeString, writeVector and fillInt.. of DataBuffer agree with
\* readInt.., readString and readVector on _input and _output, whatever the
\* connection has done to these.
THEOREM TypedReadsAgree == StreamSpec => []TypedRoundTrip
<1>1. Receiving /\ Delivering => TypedRoundTrip
  <2> SUFFICES ASSUME Receiving, Delivering, NEW m \in Messages
               PROVE  RoundTrip(input, m) /\ RoundTrip(output, m)
    BY DEF TypedRoundTrip
  <2>1. IsBuffer(output, Nat)
    BY DEF Delivering
  <2>2. IsBuffer(input, Nat)
    <3>1. IsBuffer(input, 0 .. arrived)
      BY DEF Receiving, InputTyped
    <3> DEFINE S == 0 .. arrived
               s == input.mem
    <3>2. S \subseteq Nat
      OBVIOUS
    <3>3. input \in [mem : Seq(S), data : Nat, free : Nat] /\ s \in Seq(S)
          /\ input.data <= input.free /\ input.free <= Len(s)
      BY <3>1 DEF IsBuffer
    <3> HIDE DEF S
    <3>4. Len(s) \in Nat /\ s \in [1 .. Len(s) -> S]
      BY <3>3
    <3>5. s \in [1 .. Len(s) -> Nat]
      BY <3>2, <3>4
    <3>6. s \in Seq(Nat)
      BY <3>4, <3>5
    <3>7. input \in [mem : Seq(Nat), data : Nat, free : Nat]
      BY <3>3, <3>6
    <3>8. QED
      BY <3>3, <3>7 DEF IsBuffer
  <2>3. QED
    BY <2>1, <2>2, RoundTripIs
<1>2. QED
  BY <1>1, StreamInvariant, PTL

=============================================================================
