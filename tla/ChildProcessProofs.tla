------------------------ MODULE ChildProcessProofs --------------------------
(***************************************************************************)
(* RunCmd returns the end of the child's output, for every limit and every *)
(* way the child divides its output into writes. The buffer alone says     *)
(* enough for that: IsTail is inductive once the types are known, because  *)
(* the last Limit bytes of a concatenation depend on no more than the last *)
(* Limit bytes of its two parts. And the child's memory limit is usable,   *)
(* for every setting, every pair of cgroup files and every integer range.  *)
(***************************************************************************)
EXTENDS ChildProcess, SequenceTheorems, TLAPS

(* LastOf keeps the type, has the length it should, and counts from the end. *)
LEMMA LastOfProperties ==
  ASSUME NEW S, NEW s \in Seq(S), NEW n \in Nat
  PROVE  /\ LastOf(s, n) \in Seq(S)
         /\ Len(LastOf(s, n)) = IF Len(s) > n THEN n ELSE Len(s)
         /\ \A i \in 1..Len(LastOf(s, n)) :
              LastOf(s, n)[i] = s[Len(s) - Len(LastOf(s, n)) + i]
<1>1. Len(s) \in Nat
  BY LenProperties
<1>2. CASE Len(s) > n
  <2> DEFINE a == Len(s) - n + 1
  <2>1. LastOf(s, n) = SubSeq(s, a, Len(s))
    BY <1>2 DEF LastOf
  <2>2. a \in Int /\ a >= 1 /\ Len(s) - a + 1 = n
    BY <1>1, <1>2
  <2>3. \A i \in a..Len(s) : i \in 1..Len(s) /\ s[i] \in S
    BY <1>1, <2>2, ElementOfSeq
  <2>4. /\ SubSeq(s, a, Len(s)) \in Seq(S)
        /\ Len(SubSeq(s, a, Len(s))) = IF a <= Len(s) THEN Len(s) - a + 1 ELSE 0
        /\ \A i \in 1..(Len(s) - a + 1) : SubSeq(s, a, Len(s))[i] = s[a + i - 1]
    BY <1>1, <2>2, <2>3, SubSeqProperties
  <2>5. Len(LastOf(s, n)) = n
    BY <1>1, <1>2, <2>1, <2>2, <2>4
  <2>6. ASSUME NEW i \in 1..n
        PROVE  LastOf(s, n)[i] = s[Len(s) - n + i]
    <3>1. a + i - 1 = Len(s) - n + i
      BY <1>1
    <3> QED
      BY <2>1, <2>2, <2>4, <3>1
  <2> QED
    BY <1>2, <2>1, <2>4, <2>5, <2>6
<1>3. CASE ~(Len(s) > n)
  BY <1>1, <1>3, LenProperties DEF LastOf
<1> QED
  BY <1>2, <1>3

(* Trimming twice is trimming once. *)
LEMMA LastOfIdempotent ==
  ASSUME NEW S, NEW s \in Seq(S), NEW n \in Nat
  PROVE  LastOf(LastOf(s, n), n) = LastOf(s, n)
<1>1. Len(LastOf(s, n)) <= n
  BY LenProperties, LastOfProperties
<1> QED
  BY <1>1 DEF LastOf

(* Two sequences have the same last bytes if they agree counted from the end. *)
LEMMA SameEnd ==
  ASSUME NEW S, NEW s \in Seq(S), NEW t \in Seq(S), NEW n \in Nat
  PROVE  LastOf(s, n) = LastOf(t, n) <=>
           /\ (IF Len(s) > n THEN n ELSE Len(s)) = (IF Len(t) > n THEN n ELSE Len(t))
           /\ \A k \in Nat : k < n /\ k < Len(s) /\ k < Len(t) => s[Len(s) - k] = t[Len(t) - k]
<1> DEFINE c == LastOf(s, n)
           d == LastOf(t, n)
<1>1. /\ Len(s) \in Nat /\ Len(t) \in Nat
      /\ c \in Seq(S) /\ Len(c) = IF Len(s) > n THEN n ELSE Len(s)
      /\ d \in Seq(S) /\ Len(d) = IF Len(t) > n THEN n ELSE Len(t)
  BY LenProperties, LastOfProperties
<1>2. /\ \A i \in 1..Len(c) : c[i] = s[Len(s) - Len(c) + i]
      /\ \A i \in 1..Len(d) : d[i] = t[Len(t) - Len(d) + i]
  BY LastOfProperties
<1> HIDE DEF c, d
<1>3. ASSUME c = d, NEW k \in Nat, k < n, k < Len(s), k < Len(t)
      PROVE  s[Len(s) - k] = t[Len(t) - k]
  <2>1. Len(c) - k \in 1..Len(c) /\ Len(d) - k \in 1..Len(d)
    BY <1>1, <1>3
  <2>2. Len(s) - Len(c) + (Len(c) - k) = Len(s) - k /\ Len(t) - Len(d) + (Len(d) - k) = Len(t) - k
    BY <1>1
  <2> QED
    BY <1>2, <1>3, <2>1, <2>2
<1>4. ASSUME Len(c) = Len(d),
             \A k \in Nat : k < n /\ k < Len(s) /\ k < Len(t) => s[Len(s) - k] = t[Len(t) - k]
      PROVE  c = d
  <2>1. ASSUME NEW i \in 1..Len(c)
        PROVE  c[i] = d[i]
    <3> DEFINE k == Len(c) - i
    <3>1. k \in Nat /\ k < n /\ k < Len(s) /\ k < Len(t)
      BY <1>1, <1>4
    <3>2. Len(s) - Len(c) + i = Len(s) - k /\ Len(t) - Len(d) + i = Len(t) - k
      <4>1. Len(s) \in Int /\ Len(t) \in Int /\ Len(c) \in Int /\ i \in Int /\ Len(d) = Len(c)
        BY <1>1, <1>4
      <4> QED
        BY <4>1
    <3> HIDE DEF k
    <3>3. s[Len(s) - k] = t[Len(t) - k]
      BY <1>4, <3>1
    <3> QED
      BY <1>2, <1>4, <3>2, <3>3
  <2> QED
    BY <1>1, <1>4, <2>1, SeqEqual
<1>5. c = d => Len(c) = Len(d)
  OBVIOUS
<1> QED
  BY <1>1, <1>3, <1>4, <1>5 DEF c, d

(* What was written before matters only by its own last bytes. *)
LEMMA LastOfConcat ==
  ASSUME NEW S, NEW s \in Seq(S), NEW t \in Seq(S), NEW p \in Seq(S), NEW n \in Nat,
         LastOf(s, n) = LastOf(t, n)
  PROVE  LastOf(s \o LastOf(p, n), n) = LastOf(t \o p, n)
<1> DEFINE q == LastOf(p, n)
           a == s \o q
           b == t \o p
<1>1. /\ Len(s) \in Nat /\ Len(t) \in Nat /\ Len(p) \in Nat
      /\ q \in Seq(S) /\ Len(q) = IF Len(p) > n THEN n ELSE Len(p)
      /\ \A i \in 1..Len(q) : q[i] = p[Len(p) - Len(q) + i]
  BY LenProperties, LastOfProperties
<1>2. /\ a \in Seq(S) /\ Len(a) = Len(s) + Len(q)
      /\ \A i \in 1..(Len(s) + Len(q)) : a[i] = IF i <= Len(s) THEN s[i] ELSE q[i - Len(s)]
  BY <1>1, ConcatProperties
<1>3. /\ b \in Seq(S) /\ Len(b) = Len(t) + Len(p)
      /\ \A i \in 1..(Len(t) + Len(p)) : b[i] = IF i <= Len(t) THEN t[i] ELSE p[i - Len(t)]
  BY <1>1, ConcatProperties
<1>4. /\ (IF Len(s) > n THEN n ELSE Len(s)) = (IF Len(t) > n THEN n ELSE Len(t))
      /\ \A k \in Nat : k < n /\ k < Len(s) /\ k < Len(t) => s[Len(s) - k] = t[Len(t) - k]
  BY SameEnd
<1> HIDE DEF q, a, b
<1>5. (IF Len(a) > n THEN n ELSE Len(a)) = (IF Len(b) > n THEN n ELSE Len(b))
  BY <1>1, <1>2, <1>3, <1>4
<1>6. ASSUME NEW k \in Nat, k < n, k < Len(a), k < Len(b)
      PROVE  a[Len(a) - k] = b[Len(b) - k]
  <2>1. CASE k < Len(q)
    <3>1. a[Len(a) - k] = q[Len(q) - k]
      <4>1. /\ Len(a) - k \in 1..(Len(s) + Len(q)) /\ ~(Len(a) - k <= Len(s))
            /\ Len(a) - k - Len(s) = Len(q) - k
        BY <1>1, <1>2, <1>6, <2>1
      <4> QED
        BY <1>2, <4>1
    <3>2. q[Len(q) - k] = p[Len(p) - k]
      <4>1. Len(q) - k \in 1..Len(q) /\ Len(p) - Len(q) + (Len(q) - k) = Len(p) - k
        BY <1>1, <2>1
      <4> QED
        BY <1>1, <4>1
    <3>3. b[Len(b) - k] = p[Len(p) - k]
      <4>1. /\ Len(b) - k \in 1..(Len(t) + Len(p)) /\ ~(Len(b) - k <= Len(t))
            /\ Len(b) - k - Len(t) = Len(p) - k
        BY <1>1, <1>3, <1>6, <2>1
      <4> QED
        BY <1>3, <4>1
    <3> QED
      BY <3>1, <3>2, <3>3
  <2>2. CASE ~(k < Len(q))
    <3>1. Len(q) = Len(p)
      BY <1>1, <1>6, <2>2
    <3> DEFINE j == k - Len(p)
    <3>2. j \in Nat /\ j < n /\ j < Len(s) /\ j < Len(t)
      BY <1>1, <1>2, <1>3, <1>6, <2>2, <3>1
    <3>3. a[Len(a) - k] = s[Len(s) - j]
      <4>1. /\ Len(a) - k \in 1..(Len(s) + Len(q)) /\ Len(a) - k <= Len(s)
            /\ Len(a) - k = Len(s) - j
        BY <1>1, <1>2, <1>6, <2>2, <3>1
      <4> QED
        BY <1>2, <4>1
    <3>4. b[Len(b) - k] = t[Len(t) - j]
      <4>1. /\ Len(b) - k \in 1..(Len(t) + Len(p)) /\ Len(b) - k <= Len(t)
            /\ Len(b) - k = Len(t) - j
        BY <1>1, <1>3, <1>6, <2>2, <3>1
      <4> QED
        BY <1>3, <4>1
    <3> QED
      BY <1>4, <3>2, <3>3, <3>4
  <2> QED
    BY <2>1, <2>2
<1>7. LastOf(a, n) = LastOf(b, n) <=>
        /\ (IF Len(a) > n THEN n ELSE Len(a)) = (IF Len(b) > n THEN n ELSE Len(b))
        /\ \A k \in Nat : k < n /\ k < Len(a) /\ k < Len(b) => a[Len(a) - k] = b[Len(b) - k]
  BY <1>2, <1>3, SameEnd
<1>8. LastOf(a, n) = LastOf(b, n)
  BY <1>5, <1>6, <1>7
<1> QED
  BY <1>8 DEF a, b, q

(* A write adds its bytes to what the buffer stands for. *)
LEMMA WriteKeepsTheTail ==
  ASSUME NEW S, NEW b \in [held : Seq(S), truncated : BOOLEAN],
         NEW s \in Seq(S), NEW p \in Seq(S), IsTail(b, s)
  PROVE  /\ Written(b, p) \in [held : Seq(S), truncated : BOOLEAN]
         /\ IsTail(Written(b, p), s \o p)
<1> DEFINE q == LastOf(p, Limit)
           all == b.held \o q
           kept == IF Len(all) > 2 * Limit THEN Trim(all) ELSE all
<1>1. Limit \in Nat
  BY ChildAssumption
<1>2. b.held \in Seq(S) /\ b.truncated \in BOOLEAN
  OBVIOUS
<1>3. /\ Len(s) \in Nat /\ Len(p) \in Nat /\ Len(b.held) \in Nat
      /\ q \in Seq(S) /\ Len(q) = IF Len(p) > Limit THEN Limit ELSE Len(p)
  BY <1>1, <1>2, LenProperties, LastOfProperties
<1>4. /\ all \in Seq(S) /\ Len(all) = Len(b.held) + Len(q)
      /\ s \o p \in Seq(S) /\ Len(s \o p) = Len(s) + Len(p)
  BY <1>2, <1>3, ConcatProperties
<1>5. LastOf(all, Limit) = LastOf(s \o p, Limit)
  BY <1>1, <1>2, LastOfConcat DEF IsTail
<1>6. /\ Len(b.held) <= Len(s) /\ Len(b.held) <= 2 * Limit
      /\ b.truncated <=> Len(s) > Limit
      /\ Len(b.held) >= Limit \/ Len(b.held) = Len(s)
  <2>1. (IF Len(b.held) > Limit THEN Limit ELSE Len(b.held)) = (IF Len(s) > Limit THEN Limit ELSE Len(s))
    BY <1>1, <1>2, SameEnd DEF IsTail
  <2>2. /\ Len(b.held) <= Len(s) /\ Len(b.held) <= 2 * Limit
        /\ b.truncated <=> Len(s) > Limit
    BY DEF IsTail
  <2> QED
    BY <1>1, <1>3, <2>1, <2>2
<1>7. /\ LastOf(all, Limit) \in Seq(S)
      /\ Len(LastOf(all, Limit)) = IF Len(all) > Limit THEN Limit ELSE Len(all)
  BY <1>1, <1>4, LastOfProperties
<1>8. Written(b, p).held = kept /\ (Written(b, p).truncated <=> (b.truncated \/ Len(p) > Limit \/ Len(all) > Limit))
  BY DEF Written
<1>9. Written(b, p) \in [held : Seq(S), truncated : BOOLEAN]
  BY <1>2, <1>4, <1>7 DEF Written, Trim
<1> HIDE DEF q, all
<1>10. LastOf(kept, Limit) = LastOf(s \o p, Limit)
  BY <1>1, <1>4, <1>5, LastOfIdempotent DEF Trim
<1>11. Len(kept) <= Len(s \o p) /\ Len(kept) <= 2 * Limit
  BY <1>1, <1>3, <1>4, <1>6, <1>7 DEF Trim
<1>12. (Len(s) > Limit \/ Len(p) > Limit \/ Len(all) > Limit) <=> Len(s \o p) > Limit
  BY <1>1, <1>3, <1>4, <1>6
<1>13. Written(b, p).truncated <=> Len(s \o p) > Limit
  BY <1>6, <1>8, <1>12
<1> QED
  BY <1>8, <1>9, <1>10, <1>11, <1>13 DEF IsTail

(* The stream grows by the bytes of a write. *)
LEMMA StreamGrows ==
  ASSUME NEW m \in Nat, NEW n \in Nat
  PROVE  /\ Stream(m) \in Seq(Nat) /\ Piece(m, n) \in Seq(Nat)
         /\ Len(Stream(m)) = m /\ Len(Piece(m, n)) = n
         /\ Stream(m + n) = Stream(m) \o Piece(m, n)
<1>1. /\ Stream(m) \in Seq(Nat) /\ Len(Stream(m)) = m
      /\ \A i \in 1..m : Stream(m)[i] = i
  BY DEF Stream
<1>2. /\ Piece(m, n) \in Seq(Nat) /\ Len(Piece(m, n)) = n
      /\ \A i \in 1..n : Piece(m, n)[i] = m + i
  BY DEF Piece
<1>3. m + n \in Nat
  OBVIOUS
<1>4. /\ Stream(m + n) \in Seq(Nat) /\ Len(Stream(m + n)) = m + n
      /\ \A i \in 1..(m + n) : Stream(m + n)[i] = i
  BY <1>3 DEF Stream
<1>5. /\ Stream(m) \o Piece(m, n) \in Seq(Nat) /\ Len(Stream(m) \o Piece(m, n)) = m + n
      /\ \A i \in 1..(m + n) : (Stream(m) \o Piece(m, n))[i] =
             IF i <= m THEN Stream(m)[i] ELSE Piece(m, n)[i - m]
  <2> DEFINE s == Stream(m)
             p == Piece(m, n)
  <2>1. s \in Seq(Nat) /\ p \in Seq(Nat) /\ Len(s) = m /\ Len(p) = n
    BY <1>1, <1>2
  <2> HIDE DEF s, p
  <2>2. /\ s \o p \in Seq(Nat) /\ Len(s \o p) = Len(s) + Len(p)
        /\ \A i \in 1..(Len(s) + Len(p)) : (s \o p)[i] = IF i <= Len(s) THEN s[i] ELSE p[i - Len(s)]
    BY <2>1, ConcatProperties
  <2> QED
    BY <2>1, <2>2 DEF s, p
<1>6. \A i \in 1..(m + n) : (Stream(m) \o Piece(m, n))[i] = i
  BY <1>1, <1>2, <1>5
<1>7. Stream(m + n) = Stream(m) \o Piece(m, n)
  BY <1>4, <1>5, <1>6, SeqEqual
<1> QED
  BY <1>1, <1>2, <1>7

-----------------------------------------------------------------------------
(* The types the argument needs. *)
BufferType ==
  /\ written \in Nat
  /\ buffer \in [held : Seq(Nat), truncated : BOOLEAN]

BufferInv == BufferType /\ OutputIsItsTail

LEMMA InitBuffer == Init => BufferInv
<1> SUFFICES ASSUME Init
             PROVE  BufferInv
  OBVIOUS
<1>1. written = 0 /\ buffer = [held |-> <<>>, truncated |-> FALSE] /\ child = "none"
  BY DEF Init, Empty
<1>2. BufferType
  BY <1>1, EmptySeq DEF BufferType
<1>3. Stream(written) = <<>>
  BY <1>1 DEF Stream
<1>4. Len(<<>>) = 0 /\ Limit \in Nat
  BY EmptySeq, ChildAssumption
<1>5. IsTail(buffer, Stream(written))
  <2>1. LastOf(buffer.held, Limit) = LastOf(Stream(written), Limit)
    BY <1>1, <1>3
  <2>2. Len(buffer.held) = 0 /\ Len(Stream(written)) = 0 /\ buffer.truncated = FALSE
    BY <1>1, <1>3, <1>4
  <2> QED
    BY <1>4, <2>1, <2>2 DEF IsTail
<1> QED
  BY <1>1, <1>2, <1>5 DEF BufferInv, OutputIsItsTail

LEMMA NextBuffer == BufferInv /\ [Next]_vars => BufferInv'
<1> SUFFICES ASSUME BufferInv, [Next]_vars
             PROVE  BufferInv'
  OBVIOUS
<1>1. /\ written \in Nat /\ buffer \in [held : Seq(Nat), truncated : BOOLEAN]
      /\ IsTail(buffer, Stream(written))
      /\ child = "exited" => output = LastOf(Stream(written), Limit)
      /\ Limit \in Nat /\ MaxOutput \in Nat
  BY ChildAssumption DEF BufferInv, BufferType, OutputIsItsTail
<1>2. CASE Start
  <2>1. written' = 0 /\ buffer' = [held |-> <<>>, truncated |-> FALSE] /\ child' = "running"
    BY <1>2 DEF Start, Empty
  <2>2. BufferType'
    BY <2>1, EmptySeq DEF BufferType
  <2>3. Stream(0) = <<>> /\ Len(<<>>) = 0
    BY EmptySeq DEF Stream
  <2>4. IsTail([held |-> <<>>, truncated |-> FALSE], <<>>)
    BY <1>1, <2>3 DEF IsTail
  <2>5. IsTail(buffer, Stream(written))'
    BY <2>1, <2>3, <2>4
  <2> QED
    BY <2>1, <2>2, <2>5 DEF BufferInv, OutputIsItsTail
<1>3. ASSUME NEW n \in 0..MaxOutput, Write(n)
      PROVE  BufferInv'
  <2>1. /\ n \in Nat /\ written' = written + n /\ child' = "running"
        /\ buffer' = Written(buffer, Piece(written, n))
    BY <1>1, <1>3 DEF Write
  <2>2. /\ Stream(written) \in Seq(Nat) /\ Piece(written, n) \in Seq(Nat)
        /\ Stream(written + n) = Stream(written) \o Piece(written, n)
    BY <1>1, <2>1, StreamGrows
  <2>3. /\ Written(buffer, Piece(written, n)) \in [held : Seq(Nat), truncated : BOOLEAN]
        /\ IsTail(Written(buffer, Piece(written, n)), Stream(written + n))
    <3> DEFINE s == Stream(written)
               p == Piece(written, n)
    <3>1. s \in Seq(Nat) /\ p \in Seq(Nat) /\ IsTail(buffer, s)
      BY <1>1, <2>2
    <3> HIDE DEF s, p
    <3>2. /\ Written(buffer, p) \in [held : Seq(Nat), truncated : BOOLEAN]
          /\ IsTail(Written(buffer, p), s \o p)
      BY <1>1, <3>1, WriteKeepsTheTail
    <3> QED
      BY <2>2, <3>2 DEF s, p
  <2>4. BufferType'
    BY <1>1, <2>1, <2>3 DEF BufferType
  <2>5. IsTail(buffer, Stream(written))'
    BY <2>1, <2>3
  <2> QED
    BY <2>1, <2>4, <2>5 DEF BufferInv, OutputIsItsTail
<1>4. CASE Exit
  <2> DEFINE s == Stream(written)
             kept == LastOf(buffer.held, Limit)
  <2>1. /\ written' = written /\ child' = "exited" /\ output' = kept
        /\ buffer' = [held |-> kept, truncated |-> buffer.truncated]
    BY <1>1, <1>4 DEF Exit, Trim
  <2>2. kept = LastOf(s, Limit) /\ Len(buffer.held) <= Len(s) /\ (buffer.truncated <=> Len(s) > Limit)
    BY <1>1 DEF IsTail
  <2>3. /\ kept \in Seq(Nat) /\ LastOf(kept, Limit) = kept
        /\ Len(kept) = IF Len(buffer.held) > Limit THEN Limit ELSE Len(buffer.held)
        /\ Len(buffer.held) \in Nat /\ Len(s) \in Nat
    BY <1>1, LastOfProperties, LastOfIdempotent, LenProperties, StreamGrows
  <2>4. BufferType'
    BY <1>1, <2>1, <2>3 DEF BufferType
  <2>5. IsTail([held |-> kept, truncated |-> buffer.truncated], s)
    <3>1. Len(kept) <= Len(s) /\ Len(kept) <= 2 * Limit
      BY <1>1, <2>2, <2>3
    <3> QED
      BY <2>2, <2>3, <3>1 DEF IsTail
  <2>6. IsTail(buffer, Stream(written))'
    BY <2>1, <2>5
  <2> QED
    BY <2>1, <2>2, <2>4, <2>6 DEF BufferInv, OutputIsItsTail
<1>5. CASE UNCHANGED vars
  BY <1>1, <1>5 DEF vars, memoryVars, outputVars, BufferInv, BufferType, OutputIsItsTail
<1> QED
  BY <1>2, <1>3, <1>4, <1>5 DEF Next

(* For every limit of a buffer, RunCmd returns the end of the output, and
   between two writes the adapter holds at most twice the limit of it. *)
THEOREM OutputBounded == Spec => []OutputIsItsTail
<1>1. BufferInv => OutputIsItsTail
  BY DEF BufferInv
<1> QED
  BY <1>1, InitBuffer, NextBuffer, PTL DEF Spec

-----------------------------------------------------------------------------
(* A number of units that a quotient allows is within the bound. *)
LEMMA QuotientBounds ==
  ASSUME NEW m \in Nat, NEW u \in Nat \ {0}, NEW n \in Nat, n <= m \div u
  PROVE  n * u <= m
<1>1. m \div u \in Nat /\ (m \div u) * u <= m
  OBVIOUS
<1>2. n * u <= (m \div u) * u
  BY <1>1
<1> QED
  BY <1>1, <1>2

(* Four fifths of a positive limit are less than the limit. *)
LEMMA ShareIsLess ==
  ASSUME NEW m \in Nat, m > 0
  PROVE  (m * 4) \div 5 \in Nat /\ (m * 4) \div 5 < m
  OBVIOUS

LEMMA UnitsArePositive == \A u \in DOMAIN Units : Units[u] \in Nat \ {0}
<1>1. Kilo \in Nat \ {0}
  BY ChildAssumption
<1>2. Kilo * Kilo \in Nat \ {0}
  BY <1>1
<1>3. Kilo * Kilo * Kilo \in Nat \ {0}
  BY <1>1, <1>2
<1>4. Kilo * Kilo * Kilo * Kilo \in Nat \ {0}
  BY <1>1, <1>3
<1> QED
  BY <1>1, <1>2, <1>3, <1>4 DEF Units

(* A limit that is taken from the configuration fits the runtime's integer. *)
LEMMA ConfiguredIsUsable ==
  ASSUME configured \in Configured, configured.text = "value", ValidGoMemLimit(configured)
  PROVE  configured.value * Units[configured.unit] <= MaxInt64
<1>1. configured.value \in Nat /\ configured.unit \in DOMAIN Units
  BY DEF Configured
<1>2. configured.value <= MaxInt64 \div Units[configured.unit]
  BY DEF ValidGoMemLimit
<1> QED
  BY <1>1, <1>2, UnitsArePositive, QuotientBounds, ChildAssumption

(* A limit that is taken from a cgroup fits too, and lies below the enforced one:
   the first readable file is the file of v2 wherever there is one. *)
LEMMA CgroupIsUsable ==
  ASSUME cgroups \in [1..2 -> Cgroup], NEW limit \in CgroupGoMemLimit
  PROVE  /\ limit.value * Units[limit.unit] <= MaxInt64
         /\ Enforced.text = "value" /\ limit.value < Enforced.value
<1>1. PICK i \in Authority : /\ cgroups[i].text = "value"
                             /\ cgroups[i].value > 0 /\ cgroups[i].value < Unlimited
                             /\ limit = [text |-> "value", value |-> (cgroups[i].value * 4) \div 5,
                                         unit |-> "none"]
  BY DEF CgroupGoMemLimit, CgroupMemoryLimit
<1>2. cgroups[i].value \in Nat
  <2>1. i \in 1..2 /\ cgroups[i] \in Cgroup
    BY DEF Authority, Readable
  <2>2. cgroups[i].value \in Int
    BY <1>1, <2>1, ChildAssumption DEF Cgroup
  <2> QED
    BY <1>1, <2>2
<1>3. Enforced = cgroups[i]
  BY DEF Authority, Readable, Enforced
<1>4. limit.value \in Nat /\ limit.value < cgroups[i].value /\ limit.unit = "none"
  BY <1>1, <1>2, ShareIsLess
<1>5. Units[limit.unit] = 1
  BY <1>4 DEF Units
<1> QED
  BY <1>1, <1>2, <1>3, <1>4, <1>5, ChildAssumption

(* The settings do not change while the adapter runs. *)
MemoryInv ==
  /\ configured \in Configured /\ cgroups \in [1..2 -> Cgroup]
  /\ MemoryLimitIsUsable

LEMMA NextMemory == MemoryInv /\ [Next]_vars => MemoryInv'
<1> SUFFICES ASSUME MemoryInv, [Next]_vars PROVE MemoryInv'
  OBVIOUS
<1>1. CASE Start
  <2>1. UNCHANGED <<configured, cgroups>> /\ given' = ChildGoMemLimit
    BY <1>1 DEF Start
  <2>2. ASSUME NEW limit \in ChildGoMemLimit
        PROVE  /\ limit.value * Units[limit.unit] <= MaxInt64
               /\ limit # configured => Enforced.text = "value" /\ limit.value < Enforced.value
    <3>1. \/ limit = configured /\ configured.text = "value" /\ ValidGoMemLimit(configured)
          \/ limit \in CgroupGoMemLimit
      BY <2>2 DEF ChildGoMemLimit
    <3> QED
      BY <3>1, ConfiguredIsUsable, CgroupIsUsable DEF MemoryInv
  <2> QED
    BY <2>1, <2>2 DEF MemoryInv, MemoryLimitIsUsable, Enforced
<1>2. CASE UNCHANGED memoryVars
  BY <1>2 DEF memoryVars, MemoryInv, MemoryLimitIsUsable, Enforced
<1>3. ASSUME NEW n \in 0..MaxOutput, Write(n)
      PROVE  UNCHANGED memoryVars
  BY <1>3 DEF Write
<1>4. CASE Exit
  BY <1>2, <1>4 DEF Exit
<1> QED
  BY <1>1, <1>2, <1>3, <1>4 DEF Next, vars

(* Whatever was configured and whatever the cgroup files say, the child starts
   with a limit that its runtime accepts, and a derived one is a real one. *)
THEOREM MemoryLimited == Spec => []MemoryLimitIsUsable
<1>1. Init => MemoryInv
  BY DEF Init, MemoryInv, MemoryLimitIsUsable
<1>2. MemoryInv => MemoryLimitIsUsable
  BY DEF MemoryInv
<1> QED
  BY <1>1, <1>2, NextMemory, PTL DEF Spec
=============================================================================
