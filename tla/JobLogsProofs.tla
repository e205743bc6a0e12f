----------------------------- MODULE JobLogsProofs -----------------------------
(***************************************************************************)
(* Proofs about the log of a job, for any number of streams and lines,     *)
(* lines of any length and any bounds of ring and channel: the types, the  *)
(* exact accounts of the ring, and what a client reads.                    *)
(***************************************************************************)
EXTENDS JobLogs, TLAPS, SequenceTheorems, WellFoundedInduction

-----------------------------------------------------------------------------
(* Naturals *)

(* A set of naturals has a least element.                                   *)
LEMMA LeastExists ==
  ASSUME NEW T \in SUBSET Nat, T # {}
  PROVE  \E x \in T : \A y \in T : x <= y
<1>1. PICK x \in T : \A y \in T : <<y, x>> \notin OpToRel(<, Nat)
  BY NatLessThanWellFounded, WFMin, Zenon
<1>2. \A y \in T : ~(y < x)
  BY <1>1, Zenon DEF OpToRel
<1> QED BY <1>2

(* A set of naturals that has 0 and every successor has them all.           *)
LEMMA AllNaturals ==
  ASSUME NEW T \in SUBSET Nat, 0 \in T, \A n \in T : n + 1 \in T
  PROVE  T = Nat
<1> SUFFICES ASSUME Nat \ T # {} PROVE FALSE
  OBVIOUS
<1>1. PICK x \in Nat \ T : \A y \in Nat \ T : x <= y
  BY LeastExists
<1>2. x # 0 /\ x - 1 \in Nat
  BY <1>1
<1>3. x - 1 \in T
  BY <1>1, <1>2
<1> QED BY <1>1, <1>2, <1>3

-----------------------------------------------------------------------------
(* The bytes of a prefix *)

(* f is the function that PrefixBytes(s, n) computes.                       *)
Sums(f, s, n) == f = [k \in 0 .. n |-> IF k = 0 THEN 0 ELSE f[k - 1] + LineBytes[s[k]]]

(* There is such a function for every number of lines.                      *)
LEMMA SumsExist ==
  ASSUME NEW s, NEW n \in Nat
  PROVE  \E f : Sums(f, s, n)
<1> DEFINE T == {k \in Nat : \E f : Sums(f, s, k)}
<1>1. 0 \in T
  <2>1. Sums([k \in 0 .. 0 |-> 0], s, 0)
    BY DEF Sums
  <2> QED BY <2>1
<1>2. ASSUME NEW m \in T PROVE m + 1 \in T
  <2>1. PICK f : Sums(f, s, m)
    OBVIOUS
  <2> DEFINE g == [k \in 0 .. m + 1 |-> IF k = m + 1 THEN f[m] + LineBytes[s[m + 1]] ELSE f[k]]
             h == [k \in 0 .. m + 1 |-> IF k = 0 THEN 0 ELSE g[k - 1] + LineBytes[s[k]]]
  <2>2. \A k \in 0 .. m : f[k] = IF k = 0 THEN 0 ELSE f[k - 1] + LineBytes[s[k]]
    BY <2>1 DEF Sums
  <2>3. ASSUME NEW k \in 0 .. m + 1 PROVE g[k] = h[k]
    <3>1. CASE k = m + 1
      BY <3>1
    <3>2. CASE k \in 0 .. m
      BY <2>2, <3>2
    <3> QED BY <3>1, <3>2
  <2>4. g = h
    BY <2>3
  <2>5. Sums(g, s, m + 1)
    BY <2>4 DEF Sums
  <2> QED BY <2>5
<1>3. T = Nat
  <2> HIDE DEF T
  <2>1. T \in SUBSET Nat
    BY DEF T
  <2> QED BY <1>1, <1>2, <2>1, AllNaturals
<1> QED BY <1>3

(* It is the one PrefixBytes chooses.                                       *)
LEMMA PrefixSums ==
  ASSUME NEW s, NEW n \in Nat
  PROVE  \E f : Sums(f, s, n) /\ PrefixBytes(s, n) = f[n]
<1> DEFINE f == CHOOSE g : g = [k \in 0 .. n |-> IF k = 0 THEN 0 ELSE g[k - 1] + LineBytes[s[k]]]
<1>1. Sums(f, s, n)
  BY SumsExist DEF Sums
<1>2. PrefixBytes(s, n) = f[n]
  BY DEF PrefixBytes
<1> QED BY <1>1, <1>2

(* The first n lines of s have a length; b continues a after d lines.       *)
Measured(s, n) == \A k \in 1 .. n : LineBytes[s[k]] \in Nat
Continues(a, b, d, n) == \A k \in 1 .. n : a[d + k] = b[k]

(* From d on the sums f grow like the sums g.                               *)
GrowLike(f, g, d, n) == \A k \in 0 .. n : f[d + k] = f[d] + g[k] /\ f[d] \in Nat /\ g[k] \in Nat

(* Two sums over the same lines grow alike, whatever came before.           *)
LEMMA SumsShift ==
  ASSUME NEW a, NEW b, NEW d \in Nat, NEW n \in Nat, NEW N \in Nat, d + n <= N,
         Measured(a, N), Continues(a, b, d, n),
         NEW f, NEW g, Sums(f, a, N), Sums(g, b, n)
  PROVE  GrowLike(f, g, d, n)
<1> USE DEF Measured, Continues, GrowLike
<1>1. \A k \in 0 .. N : f[k] = IF k = 0 THEN 0 ELSE f[k - 1] + LineBytes[a[k]]
  BY DEF Sums
<1>2. \A k \in 0 .. n : g[k] = IF k = 0 THEN 0 ELSE g[k - 1] + LineBytes[b[k]]
  BY DEF Sums
<1>3. \A k \in 0 .. N : f[k] \in Nat
  <2> DEFINE T == {k \in Nat : k <= N => f[k] \in Nat}
  <2>1. 0 \in T
    BY <1>1
  <2>2. ASSUME NEW k \in T, k + 1 <= N PROVE f[k + 1] \in Nat
    <3>1. f[k] \in Nat /\ k + 1 \in 1 .. N
      BY <2>2
    <3>2. LineBytes[a[k + 1]] \in Nat
      BY <3>1
    <3>3. f[k + 1] = f[k] + LineBytes[a[k + 1]]
      BY <1>1, <3>1
    <3> QED BY <3>1, <3>2, <3>3
  <2>3. T \in SUBSET Nat /\ \A k \in T : k + 1 \in T
    BY <2>2
  <2> HIDE DEF T
  <2>4. T = Nat
    BY <2>1, <2>3, AllNaturals
  <2> QED BY <2>4 DEF T
<1>4. \A k \in 0 .. n : g[k] \in Nat /\ f[d + k] = f[d] + g[k]
  <2> DEFINE T == {k \in Nat : k <= n => g[k] \in Nat /\ f[d + k] = f[d] + g[k]}
  <2>1. 0 \in T
    <3>1. g[0] = 0 /\ f[d] \in Nat /\ d + 0 = d
      BY <1>2, <1>3
    <3> QED BY <3>1
  <2>2. ASSUME NEW k \in T, k + 1 <= n PROVE g[k + 1] \in Nat /\ f[d + (k + 1)] = f[d] + g[k + 1]
    <3>1. g[k] \in Nat /\ f[d + k] = f[d] + g[k] /\ k \in Nat /\ f[d] \in Nat
      BY <1>3, <2>2
    <3>2. LineBytes[b[k + 1]] \in Nat /\ a[d + (k + 1)] = b[k + 1]
      BY <2>2
    <3>3. g[k + 1] = g[k] + LineBytes[b[k + 1]]
      BY <1>2, <2>2
    <3>4. f[d + (k + 1)] = f[d + k] + LineBytes[a[d + (k + 1)]]
      <4>1. d + (k + 1) \in 0 .. N /\ d + (k + 1) # 0 /\ d + (k + 1) - 1 = d + k
        BY <2>2
      <4> QED BY <1>1, <4>1
    <3> QED BY <3>1, <3>2, <3>3, <3>4
  <2>3. T \in SUBSET Nat /\ \A k \in T : k + 1 \in T
    BY <2>2
  <2> HIDE DEF T
  <2>4. T = Nat
    BY <2>1, <2>3, AllNaturals
  <2> QED BY <2>4 DEF T
<1> QED BY <1>3, <1>4

(* Bytes of lines that follow one another add up.                           *)
LEMMA PrefixShift ==
  ASSUME NEW a, NEW b, NEW d \in Nat, NEW n \in Nat,
         Measured(a, d + n), Continues(a, b, d, n)
  PROVE  /\ PrefixBytes(a, d + n) = PrefixBytes(a, d) + PrefixBytes(b, n)
         /\ PrefixBytes(a, d) \in Nat /\ PrefixBytes(b, n) \in Nat
<1>1. PICK f : Sums(f, a, d + n) /\ PrefixBytes(a, d + n) = f[d + n]
  BY PrefixSums
<1>2. PICK g : Sums(g, b, n) /\ PrefixBytes(b, n) = g[n]
  BY PrefixSums
<1>3. PICK h : Sums(h, a, d) /\ PrefixBytes(a, d) = h[d]
  BY PrefixSums
<1>4. f[d + n] = f[d] + g[n] /\ g[n] \in Nat
  <2> DEFINE N == d + n
  <2>1. N \in Nat /\ d + n <= N /\ Measured(a, N) /\ Sums(f, a, N)
    BY <1>1
  <2> HIDE DEF N
  <2>2. GrowLike(f, g, d, n)
    BY <1>2, <2>1, SumsShift
  <2>3. n \in 0 .. n
    OBVIOUS
  <2> QED BY <2>2, <2>3 DEF GrowLike
<1>5. f[d] = h[d] /\ h[d] \in Nat
  <2>1. Continues(a, a, 0, d)
    BY DEF Continues
  <2> DEFINE N == d + n
  <2>2. 0 + d <= N /\ 0 \in Nat /\ N \in Nat /\ Sums(f, a, N)
        /\ Measured(a, N)
    BY <1>1
  <2> HIDE DEF N
  <2>3. GrowLike(f, h, 0, d)
    BY <1>3, <2>1, <2>2, SumsShift
  <2>4. f[0] = 0 /\ d \in 0 .. d /\ 0 + d = d
    BY <1>1 DEF Sums
  <2> QED BY <2>3, <2>4 DEF GrowLike
<1> QED BY <1>1, <1>2, <1>3, <1>4, <1>5

(* One line more, and none.                                                 *)
LEMMA PrefixStep ==
  ASSUME NEW s, NEW n \in Nat, Measured(s, n + 1)
  PROVE  /\ PrefixBytes(s, 0) = 0
         /\ PrefixBytes(s, n + 1) = PrefixBytes(s, n) + LineBytes[s[n + 1]]
<1>1. PICK f : Sums(f, s, 0) /\ PrefixBytes(s, 0) = f[0]
  BY PrefixSums
<1>2. PICK g : Sums(g, s, n + 1) /\ PrefixBytes(s, n + 1) = g[n + 1]
  BY PrefixSums
<1>3. PICK h : Sums(h, s, n) /\ PrefixBytes(s, n) = h[n]
  BY PrefixSums
<1>4. f[0] = 0
  BY <1>1 DEF Sums
<1>5. g[n + 1] = g[n] + LineBytes[s[n + 1]]
  BY <1>2 DEF Sums
<1>6. g[n] = h[n]
  <2>1. Continues(s, s, 0, n)
    BY DEF Continues
  <2> DEFINE N == n + 1
  <2>2. 0 + n <= N /\ 0 \in Nat /\ N \in Nat /\ Sums(g, s, N)
        /\ Measured(s, N)
    BY <1>2
  <2> HIDE DEF N
  <2>3. GrowLike(g, h, 0, n)
    BY <1>3, <2>1, <2>2, SumsShift
  <2>4. g[0] = 0 /\ n \in 0 .. n /\ 0 + n = n
    BY <1>2 DEF Sums
  <2> QED BY <2>3, <2>4 DEF GrowLike
<1> QED BY <1>1, <1>2, <1>3, <1>4, <1>5, <1>6
-----------------------------------------------------------------------------
(* The ring *)

BusRec == [lines : Seq(Lines), bytes : Nat, dropped_lines : Nat, dropped_bytes : Nat,
           pushed : Nat, sent : Seq(Lines), done : BOOLEAN]

(* The lines by number.                                                     *)
Numbers == [n \in Lines |-> n]

(* RingExact for one bus.                                                   *)
Bounded(b) ==
    /\ Len(b.lines) <= MaxLines
    /\ b.bytes <= MaxBytes \/ Len(b.lines) = 1

Newest(b) ==
    /\ b.dropped_lines + Len(b.lines) = b.pushed
    /\ \A k \in 1 .. Len(b.lines) : b.lines[k] = b.dropped_lines + k

Accounted(b) ==
    /\ b.bytes = PrefixBytes(b.lines, Len(b.lines))
    /\ b.bytes + b.dropped_bytes = PrefixBytes(Numbers, b.pushed)

Exact(b) == Bounded(b) /\ Newest(b) /\ Accounted(b)

(* RingExact speaks of each bus alone.                                      *)
LEMMA ExactRing == RingExact <=> \A g \in Buses : Exact(bus[g])
<1> QED BY DEF RingExact, Exact, Bounded, Newest, Accounted, Numbers

(* Lines that were numbered have a length.                                  *)
LEMMA LinesMeasured ==
  ASSUME NEW s \in Seq(Lines)
  PROVE  Measured(s, Len(s))
<1>1. ASSUME NEW k \in 1 .. Len(s) PROVE LineBytes[s[k]] \in Nat
  <2>1. s[k] \in 1 .. BuildLines + 1
    BY ElementOfSeq DEF Lines
  <2> QED BY <2>1, LogConstants
<1> QED BY <1>1 DEF Measured

(* So have the numbers themselves.                                          *)
LEMMA NumbersMeasured ==
  ASSUME NEW n \in Nat, n < BuildLines + 1
  PROVE  Measured(Numbers, n + 1) /\ Numbers[n + 1] = n + 1
<1>1. \A k \in 1 .. n + 1 : k \in Lines /\ k \in 1 .. BuildLines + 1
  BY LogConstants DEF Lines
<1>2. \A k \in 1 .. n + 1 : Numbers[k] = k
  BY <1>1 DEF Numbers
<1>3. \A k \in 1 .. n + 1 : LineBytes[k] \in Nat
  BY <1>1, LogConstants
<1> QED BY <1>2, <1>3 DEF Measured

(* One push of a line into an exact ring.                                   *)
LEMMA PushRingExact ==
  ASSUME NEW b \in BusRec, Exact(b), b.pushed < BuildLines + 1
  PROVE  /\ PushRing(b) \in BusRec /\ Exact(PushRing(b))
         /\ PushRing(b).pushed = b.pushed + 1
         /\ PushRing(b).sent = b.sent /\ PushRing(b).done = b.done
<1> DEFINE n == b.pushed + 1
           L == Len(b.lines)
           s == Append(b.lines, n)
           bytes == b.bytes + LineBytes[n]
           Stops(k) == ~Over(s, bytes, k) /\ \A i \in 0 .. k - 1 : Over(s, bytes, i)
           p == CHOOSE k \in 0 .. Len(s) : Stops(k)
           r == SubSeq(s, p + 1, Len(s))
           after == [b EXCEPT !.lines = r, !.bytes = SatSub(bytes, PrefixBytes(s, p)),
                              !.dropped_lines = b.dropped_lines + p,
                              !.dropped_bytes = b.dropped_bytes + PrefixBytes(s, p),
                              !.pushed = n]
<1>1. PushRing(b) = after
  BY DEF PushRing
<1>2. /\ n \in Lines /\ n \in Nat /\ b.pushed \in Nat /\ LineBytes[n] \in Nat
      /\ b.lines \in Seq(Lines) /\ L \in Nat /\ b.dropped_lines \in Nat
      /\ b.bytes \in Nat /\ b.dropped_bytes \in Nat /\ b.sent \in Seq(Lines) /\ b.done \in BOOLEAN
  BY LogConstants DEF BusRec, Lines
<1>3. /\ s \in Seq(Lines) /\ Len(s) = L + 1
      /\ \A k \in 1 .. L : s[k] = b.lines[k]
      /\ s[L + 1] = n
  BY <1>2, AppendProperties
<1> HIDE DEF s
<1>4. ASSUME NEW k \in 1 .. L + 1 PROVE s[k] = b.dropped_lines + k
  <2>1. b.dropped_lines + L = b.pushed /\ \A i \in 1 .. L : b.lines[i] = b.dropped_lines + i
    BY DEF Exact, Newest
  <2>2. CASE k = L + 1
    <3>1. s[k] = n
      BY <1>3, <2>2, Zenon
    <3>2. n = b.dropped_lines + (L + 1)
      BY <1>2, <2>1
    <3> QED BY <2>2, <3>1, <3>2, Zenon
  <2>3. CASE k \in 1 .. L
    BY <1>3, <2>1, <2>3
  <2> QED BY <1>2, <2>2, <2>3
<1>5. /\ PrefixBytes(s, L + 1) = bytes /\ bytes \in Nat
  <2>1. Measured(s, L + 1)
    BY <1>3, LinesMeasured
  <2>2. Measured(s, 0 + L) /\ Continues(s, b.lines, 0, L)
    BY <1>2, <1>3, <2>1 DEF Measured, Continues
  <2>3. PrefixBytes(s, 0 + L) = PrefixBytes(s, 0) + PrefixBytes(b.lines, L)
        /\ PrefixBytes(b.lines, L) \in Nat
    <3>1. 0 \in Nat
      OBVIOUS
    <3> HIDE DEF L
    <3> QED BY <1>2, <2>2, <3>1, PrefixShift
  <2>4. PrefixBytes(s, 0) = 0 /\ PrefixBytes(s, L + 1) = PrefixBytes(s, L) + LineBytes[s[L + 1]]
    <3> HIDE DEF L
    <3> QED BY <1>2, <2>1, PrefixStep
  <2>5. b.bytes = PrefixBytes(b.lines, L)
    BY DEF Exact, Accounted
  <2>6. 0 + L = L
    BY <1>2
  <2> QED BY <1>2, <1>3, <2>3, <2>4, <2>5, <2>6
<1> HIDE DEF bytes
<1>6. ~Over(s, bytes, L)
  BY <1>2, <1>3, LogConstants DEF Over
<1>7. p \in 0 .. L /\ ~Over(s, bytes, p)
  <2>1. PICK m \in 0 .. L : ~Over(s, bytes, m) /\ \A i \in 0 .. L : ~Over(s, bytes, i) => m <= i
    <3> DEFINE T == {k \in 0 .. L : ~Over(s, bytes, k)}
    <3>1. T \in SUBSET Nat /\ T # {}
      BY <1>2, <1>6
    <3> HIDE DEF T
    <3>2. PICK m \in T : \A i \in T : m <= i
      BY <3>1, LeastExists
    <3> QED BY <3>2 DEF T
  <2>2. m \in 0 .. Len(s) /\ Stops(m)
    BY <1>2, <1>3, <2>1
  <2> HIDE DEF Stops
  <2>3. p \in 0 .. Len(s) /\ Stops(p)
    BY <2>2
  <2> USE DEF Stops
  <2>4. ASSUME p = L + 1 PROVE FALSE
    BY <1>2, <1>6, <2>3, <2>4
  <2> QED BY <1>2, <1>3, <2>3, <2>4
<1> HIDE DEF p
<1>8. /\ r \in Seq(Lines) /\ Len(r) = L + 1 - p /\ Len(r) \in Nat
      /\ \A k \in 1 .. Len(r) : r[k] = s[p + k]
  <2>1. p + 1 \in 1 .. Len(s) + 1 /\ Len(s) \in 0 .. Len(s) /\ p \in Nat
    BY <1>2, <1>3, <1>7
  <2>2. r \in Seq(Lines) /\ Len(r) = IF p + 1 <= Len(s) THEN Len(s) - (p + 1) + 1 ELSE 0
    BY <1>3, <2>1, SubSeqProperties
  <2>3. \A k \in 1 .. Len(s) - (p + 1) + 1 : r[k] = s[(p + 1) + k - 1]
    BY <1>3, <2>1, SubSeqProperties
  <2>4. Len(r) = L + 1 - p /\ Len(r) \in Nat
    BY <1>2, <1>3, <1>7, <2>2
  <2>5. ASSUME NEW k \in 1 .. Len(r) PROVE r[k] = s[p + k]
    <3>1. (p + 1) + k - 1 = p + k /\ k \in 1 .. Len(s) - (p + 1) + 1
      BY <1>2, <1>3, <1>7, <2>1, <2>4
    <3> QED BY <2>3, <3>1
  <2> QED BY <2>2, <2>4, <2>5
<1> HIDE DEF r
<1>9. /\ bytes = PrefixBytes(s, p) + PrefixBytes(r, Len(r))
      /\ PrefixBytes(s, p) \in Nat /\ PrefixBytes(r, Len(r)) \in Nat
  <2>1. p + Len(r) = L + 1 /\ p \in Nat
    BY <1>2, <1>7, <1>8
  <2>2. Measured(s, p + Len(r)) /\ Continues(s, r, p, Len(r))
    BY <1>3, <1>8, <2>1, LinesMeasured DEF Continues
  <2> DEFINE m == Len(r)
  <2>3. m \in Nat /\ Measured(s, p + m) /\ Continues(s, r, p, m)
    BY <1>8, <2>2
  <2> HIDE DEF m
  <2>4. /\ PrefixBytes(s, p + m) = PrefixBytes(s, p) + PrefixBytes(r, m)
        /\ PrefixBytes(s, p) \in Nat /\ PrefixBytes(r, m) \in Nat
    BY <2>1, <2>3, PrefixShift
  <2> QED BY <1>5, <2>1, <2>4 DEF m
<1>10. SatSub(bytes, PrefixBytes(s, p)) = PrefixBytes(r, Len(r))
  BY <1>5, <1>9 DEF SatSub
<1>11. /\ after.lines = r /\ after.bytes = PrefixBytes(r, Len(r))
       /\ after.dropped_lines = b.dropped_lines + p
       /\ after.dropped_bytes = b.dropped_bytes + PrefixBytes(s, p)
       /\ after.pushed = n /\ after.sent = b.sent /\ after.done = b.done
  BY <1>10 DEF BusRec
<1>12. after \in BusRec
  <2>1. /\ b.dropped_lines + p \in Nat /\ b.dropped_bytes + PrefixBytes(s, p) \in Nat
        /\ SatSub(bytes, PrefixBytes(s, p)) \in Nat
    BY <1>2, <1>7, <1>9, <1>10
  <2> HIDE DEF n
  <2> QED BY <1>2, <1>8, <2>1 DEF BusRec
<1>13. Bounded(after)
  <2>1. Len(r) <= MaxLines /\ (PrefixBytes(r, Len(r)) <= MaxBytes \/ Len(r) = 1)
    <3>1. /\ ~(Len(s) - p > MaxLines)
          /\ ~(bytes - PrefixBytes(s, p) > MaxBytes /\ Len(s) - p > 1)
      BY <1>7 DEF Over
    <3>2. MaxLines \in Nat /\ MaxBytes \in Nat
      BY LogConstants
    <3>3. bytes - PrefixBytes(s, p) = PrefixBytes(r, Len(r))
      BY <1>5, <1>9
    <3>4. /\ L \in Nat /\ p \in 0 .. L /\ Len(s) = L + 1 /\ Len(r) = L + 1 - p
      BY <1>2, <1>3, <1>7, <1>8
    <3> HIDE DEF L
    <3>5. Len(s) - p = Len(r) /\ p \in Nat /\ Len(r) >= 1
      BY <3>4
    <3> QED BY <1>8, <1>9, <3>1, <3>2, <3>3, <3>5
  <2> QED BY <1>11, <2>1 DEF Bounded
<1>14. Newest(after)
  <2>1. (b.dropped_lines + p) + Len(r) = n
    BY <1>2, <1>7, <1>8 DEF Exact, Newest
  <2>2. ASSUME NEW k \in 1 .. Len(r) PROVE r[k] = (b.dropped_lines + p) + k
    <3>1. p + k \in 1 .. L + 1
      BY <1>2, <1>7, <1>8
    <3>2. s[p + k] = b.dropped_lines + (p + k)
      BY <1>4, <3>1
    <3> QED BY <1>2, <1>7, <1>8, <3>2
  <2> QED BY <1>11, <2>1, <2>2 DEF Newest
<1>15. Accounted(after)
  <2>1. PrefixBytes(Numbers, b.pushed + 1) = PrefixBytes(Numbers, b.pushed) + LineBytes[b.pushed + 1]
    BY <1>2, NumbersMeasured, PrefixStep
  <2>2. b.bytes + b.dropped_bytes = PrefixBytes(Numbers, b.pushed)
    BY DEF Exact, Accounted
  <2>3. PrefixBytes(r, Len(r)) + (b.dropped_bytes + PrefixBytes(s, p)) = bytes + b.dropped_bytes
    BY <1>2, <1>5, <1>9
  <2>4. bytes + b.dropped_bytes = PrefixBytes(Numbers, n)
    BY <1>2, <2>1, <2>2 DEF bytes
  <2> QED BY <1>11, <2>3, <2>4 DEF Accounted
<1> QED BY <1>1, <1>11, <1>12, <1>13, <1>14, <1>15 DEF Exact
-----------------------------------------------------------------------------
(* What is true of the buses *)

(* Every bus that exists was made by submit or by the build task, at most   *)
(* one by each.                                                             *)
BusesMade ==
    /\ submit = "start" => build = "none"
    /\ made <= (IF submit = "end" THEN 1 ELSE 0)
               + (IF build \in {"run", "send", "record", "err_send", "teardown", "over"}
                  THEN 1 ELSE 0)
    /\ current <= made /\ out <= made

(* Only the build task's bus has lines, and it has no bus before it looks.  *)
OneWriter ==
    /\ \A g \in Buses : g # out => bus[g] = EmptyBus
    /\ build \in {"none", "queued", "fail_lookup"} => out = NoBus

(* Where the task stands between the ring, the channel and the done flag.   *)
Writing(b) ==
    /\ b.pushed = Len(b.sent) + (IF build \in {"send", "err_send", "fail_send"} THEN 1 ELSE 0)
    /\ \A k \in 1 .. Len(b.sent) : b.sent[k] = k
    /\ b.pushed <= BuildLines + (IF build \in {"run", "send", "record"} THEN 0 ELSE 1)
    /\ b.done => build \in {"record", "err_send", "teardown", "over"}

Writer ==
    /\ build = "err_send" => err
    /\ out \in Buses => Writing(bus[out])

-----------------------------------------------------------------------------
(* What is true of a stream *)

Reached(t) == t.marker + Len(t.backlog)

(* What a stream has read is a piece of the log that starts after the       *)
(* marker; only its first live line can be the last one of the backlog.     *)
Reading(t) ==
    /\ \A k \in 1 .. Len(t.backlog) : t.backlog[k] = t.marker + k
    /\ Reached(t) <= t.next
    /\ \A j \in 1 .. Len(t.live) : Reached(t) <= t.live[j] /\ t.live[j] < t.next
    /\ \A j \in 1 .. Len(t.live) - 1 : t.live[j] < t.live[j + 1]

(* A stream that was never overrun has read every line.                     *)
Gapless(t) ==
    /\ t.next - Len(t.live) \in Reached(t) .. Reached(t) + 1
    /\ \A j \in 1 .. Len(t.live) : t.live[j] = t.next - Len(t.live) + j - 1

(* Nothing is printed into the bus any more, but for the error line.        *)
Finished(g) ==
    \/ out \in Buses /\ bus[out].done
    \/ g # current /\ (g = out => build = "over")

Idle(t) == t.pc \in {"new", "not_found"} /\ t = [NewTail EXCEPT !.pc = t.pc]

Follows(t) ==
    /\ t.pc \in {"live", "check", "last", "ended"}
    /\ t.bus \in 1 .. made /\ t.bus \in Buses
    /\ t.next \in 1 .. Len(bus[t.bus].sent) + 1
    /\ Reading(t)
    /\ ~t.lagged => Gapless(t)
    /\ t.pc = "last" => out \in Buses /\ bus[out].done
    /\ t.pc = "ended" /\ ~t.lagged => t.next - 1 >= Printed(t.bus) /\ Finished(t.bus)

Followers == \A s \in Streams : Idle(tail[s]) \/ Follows(tail[s])

(* Every ring is exact.                                                     *)
Rings == \A g \in Buses : Exact(bus[g])

Inv == TypeOK /\ Rings /\ BusesMade /\ OneWriter /\ Writer /\ Followers

-----------------------------------------------------------------------------
(* Steps of a bus *)

(* LogBus::new.                                                             *)
LEMMA EmptyExact == EmptyBus \in BusRec /\ Exact(EmptyBus)
<1> DEFINE e == EmptyBus
<1>1. /\ e.lines = <<>> /\ e.bytes = 0 /\ e.dropped_lines = 0 /\ e.dropped_bytes = 0
      /\ e.pushed = 0 /\ e.sent = <<>> /\ e.done = FALSE /\ Len(<<>>) = 0
  BY DEF EmptyBus
<1>2. <<>> \in Seq(Lines)
  OBVIOUS
<1>3. e \in BusRec
  BY <1>2 DEF EmptyBus, BusRec
<1>4. PrefixBytes(<<>>, 0) = 0 /\ PrefixBytes(Numbers, 0) = 0
  <2>1. ASSUME NEW s PROVE PrefixBytes(s, 0) = 0
    <3>1. PICK f : Sums(f, s, 0) /\ PrefixBytes(s, 0) = f[0]
      BY PrefixSums
    <3>2. f[0] = 0
      BY <3>1 DEF Sums
    <3> QED BY <3>1, <3>2
  <2> QED BY <2>1
<1> HIDE DEF e
<1>5. Bounded(e) /\ Newest(e) /\ Accounted(e)
  BY <1>1, <1>4, LogConstants DEF Bounded, Newest, Accounted
<1> QED BY <1>3, <1>5 DEF Exact, e

(* Send and MarkDone leave the ring alone.                                  *)
LEMMA SendExact ==
  ASSUME NEW b \in BusRec, Exact(b), b.pushed \in Lines
  PROVE  /\ Send(b) \in BusRec /\ Exact(Send(b))
         /\ Send(b).sent = Append(b.sent, b.pushed)
         /\ Send(b).pushed = b.pushed /\ Send(b).done = b.done
<1> DEFINE r == Send(b)
<1>1. /\ r.lines = b.lines /\ r.bytes = b.bytes /\ r.dropped_lines = b.dropped_lines
      /\ r.dropped_bytes = b.dropped_bytes /\ r.pushed = b.pushed /\ r.done = b.done
      /\ r.sent = Append(b.sent, b.pushed)
  BY DEF Send, BusRec
<1>2. r \in BusRec
  <2>1. Append(b.sent, b.pushed) \in Seq(Lines)
    BY AppendProperties DEF BusRec
  <2> QED BY <2>1 DEF Send, BusRec
<1> HIDE DEF r
<1>3. Exact(r)
  BY <1>1 DEF Exact, Bounded, Newest, Accounted
<1> QED BY <1>1, <1>2, <1>3 DEF r

(* mark_done only sets the flag.                                            *)
LEMMA MarkDoneExact ==
  ASSUME NEW b \in BusRec, Exact(b)
  PROVE  /\ MarkDone(b) \in BusRec /\ Exact(MarkDone(b))
         /\ MarkDone(b).sent = b.sent
         /\ MarkDone(b).pushed = b.pushed /\ MarkDone(b).done = TRUE
<1> DEFINE r == MarkDone(b)
<1>1. /\ r.lines = b.lines /\ r.bytes = b.bytes /\ r.dropped_lines = b.dropped_lines
      /\ r.dropped_bytes = b.dropped_bytes /\ r.pushed = b.pushed /\ r.done = TRUE
      /\ r.sent = b.sent
  BY DEF MarkDone, BusRec
<1>2. r \in BusRec
  BY DEF MarkDone, BusRec
<1> HIDE DEF r
<1>3. Exact(r)
  BY <1>1 DEF Exact, Bounded, Newest, Accounted
<1> QED BY <1>1, <1>2, <1>3 DEF r

-----------------------------------------------------------------------------
(* Steps of submit, the build task and eviction *)

(* What such a step leaves true for the streams.                            *)
Grows ==
    /\ tail' = tail /\ made <= made'
    /\ \A g \in Buses : Len(bus[g].sent) <= Len(bus'[g].sent)
    /\ (out \in Buses /\ bus[out].done) => (out' \in Buses /\ bus'[out'].done)
    /\ \A g \in Buses : g <= made /\ Finished(g) => Finished(g)' /\ Printed(g)' = Printed(g)

(* What it has to keep.                                                     *)
Control == TypeOK /\ Rings /\ BusesMade /\ OneWriter /\ Writer

(* submit's insert of the job record touches no bus.                        *)
LEMMA SubmitRecordKeeps == Inv /\ SubmitRecord => Control' /\ Grows
<1> SUFFICES ASSUME Inv, SubmitRecord PROVE Control' /\ Grows
  OBVIOUS
<1> USE DEF Inv, SubmitRecord
<1>1. TypeOK'
  BY DEF TypeOK
<1>2. Rings' /\ BusesMade' /\ OneWriter' /\ Writer'
  BY DEF TypeOK, Rings, BusesMade, OneWriter, Writer, Writing
<1>3. Grows
  BY DEF Grows, TypeOK, Finished, Printed, BusesMade, OneWriter, Buses, NoBus
<1> QED BY <1>1, <1>2, <1>3 DEF Control

(* A failed provisioning has not looked for the bus yet.                    *)
LEMMA FailProvisionKeeps == Inv /\ FailProvision => Control' /\ Grows
<1> SUFFICES ASSUME Inv, FailProvision PROVE Control' /\ Grows
  OBVIOUS
<1> USE DEF Inv, FailProvision
<1>1. TypeOK'
  BY DEF TypeOK
<1>2. Rings' /\ BusesMade' /\ OneWriter' /\ Writer'
  <2>1. Rings'
    BY DEF Rings
  <2>2. BusesMade'
    BY DEF TypeOK, BusesMade, Buses, NoBus
  <2>3. OneWriter'
    BY DEF OneWriter
  <2>4. Writer'
    BY LogConstants DEF TypeOK, Writer, Writing
  <2> QED BY <2>1, <2>2, <2>3, <2>4
<1>3. Grows
  BY DEF Grows, TypeOK, Finished, Printed, BusesMade, OneWriter, Writer, Writing, Buses, NoBus
<1> QED BY <1>1, <1>2, <1>3 DEF Control

(* A build without a backend error writes no further line.                  *)
LEMMA RecordOkKeeps == Inv /\ RecordOk => Control' /\ Grows
<1> SUFFICES ASSUME Inv, RecordOk PROVE Control' /\ Grows
  OBVIOUS
<1> USE DEF Inv, RecordOk
<1>1. TypeOK'
  BY DEF TypeOK
<1>2. Rings' /\ BusesMade' /\ OneWriter' /\ Writer'
  <2>1. Rings'
    BY DEF Rings
  <2>2. BusesMade'
    BY DEF TypeOK, BusesMade, Buses, NoBus
  <2>3. OneWriter'
    BY DEF OneWriter
  <2>4. Writer'
    BY LogConstants DEF TypeOK, Writer, Writing
  <2> QED BY <2>1, <2>2, <2>3, <2>4
<1>3. Grows
  BY DEF Grows, TypeOK, Finished, Printed, BusesMade, OneWriter, Writer, Writing, Buses, NoBus
<1> QED BY <1>1, <1>2, <1>3 DEF Control

(* Dropping the handle ends the writing.                                    *)
LEMMA TeardownDoneKeeps == Inv /\ TeardownDone => Control' /\ Grows
<1> SUFFICES ASSUME Inv, TeardownDone PROVE Control' /\ Grows
  OBVIOUS
<1> USE DEF Inv, TeardownDone
<1>1. TypeOK'
  BY DEF TypeOK
<1>2. Rings' /\ BusesMade' /\ OneWriter' /\ Writer'
  <2>1. Rings'
    BY DEF Rings
  <2>2. BusesMade'
    BY DEF TypeOK, BusesMade, Buses, NoBus
  <2>3. OneWriter'
    BY DEF OneWriter
  <2>4. Writer'
    BY LogConstants DEF TypeOK, Writer, Writing
  <2> QED BY <2>1, <2>2, <2>3, <2>4
<1>3. Grows
  BY DEF Grows, TypeOK, Finished, Printed, BusesMade, OneWriter, Writer, Writing, Buses, NoBus
<1> QED BY <1>1, <1>2, <1>3 DEF Control

(* Removing the job's record leaves its bus.                                *)
LEMMA EvictRecordKeeps == Inv /\ EvictRecord => Control' /\ Grows
<1> SUFFICES ASSUME Inv, EvictRecord PROVE Control' /\ Grows
  OBVIOUS
<1> USE DEF Inv, EvictRecord
<1>1. TypeOK'
  BY DEF TypeOK
<1>2. Rings' /\ BusesMade' /\ OneWriter' /\ Writer'
  <2>1. Rings'
    BY DEF Rings
  <2>2. BusesMade'
    BY DEF TypeOK, BusesMade, Buses, NoBus
  <2>3. OneWriter'
    BY DEF OneWriter
  <2>4. Writer'
    BY LogConstants DEF TypeOK, Writer, Writing
  <2> QED BY <2>1, <2>2, <2>3, <2>4
<1>3. Grows
  BY DEF Grows, TypeOK, Finished, Printed, BusesMade, OneWriter, Writer, Writing, Buses, NoBus
<1> QED BY <1>1, <1>2, <1>3 DEF Control

(* Removing the bus from the map leaves it to those that hold it.           *)
LEMMA EvictBusKeeps == Inv /\ EvictBus => Control' /\ Grows
<1> SUFFICES ASSUME Inv, EvictBus PROVE Control' /\ Grows
  OBVIOUS
<1> USE DEF Inv, EvictBus
<1>1. TypeOK'
  BY DEF TypeOK, Buses, NoBus
<1>2. Rings' /\ BusesMade' /\ OneWriter' /\ Writer'
  <2>1. Rings'
    BY DEF Rings
  <2>2. BusesMade'
    BY DEF TypeOK, BusesMade, Buses, NoBus
  <2>3. OneWriter'
    BY DEF OneWriter
  <2>4. Writer'
    BY LogConstants DEF TypeOK, Writer, Writing
  <2> QED BY <2>1, <2>2, <2>3, <2>4
<1>3. Grows
  BY DEF Grows, TypeOK, Finished, Printed, BusesMade, OneWriter, Writer, Writing, Buses, NoBus
<1> QED BY <1>1, <1>2, <1>3 DEF Control

(* A bus is made by at most two tasks, so there is a number for it.         *)
LEMMA SubmitBusKeeps == Inv /\ SubmitBus => Control' /\ Grows
<1> SUFFICES ASSUME Inv, SubmitBus PROVE Control' /\ Grows
  OBVIOUS
<1> USE DEF Inv, SubmitBus, GetOrInsert
<1>1. TypeOK' /\ BusesMade'
  <2>1. made \in 0 .. 1
    BY DEF TypeOK, BusesMade
  <2>2. CASE current = NoBus
    <3>1. current' = made + 1 /\ made' = made + 1 /\ made + 1 \in Buses
      BY <2>1, <2>2 DEF Buses
    <3>2. TypeOK'
      BY <2>1, <3>1 DEF TypeOK, Buses
    <3>3. BusesMade'
      BY <2>1, <3>1 DEF TypeOK, BusesMade, Buses, NoBus
    <3> QED BY <3>2, <3>3
  <2>3. CASE current # NoBus
    <3>1. current' = current /\ made' = made
      BY <2>3
    <3>2. TypeOK'
      BY <2>3, <3>1 DEF TypeOK
    <3>3. BusesMade'
      BY <2>1, <3>1 DEF TypeOK, BusesMade, Buses, NoBus
    <3> QED BY <3>2, <3>3
  <2> QED BY <2>2, <2>3
<1>2. Rings' /\ OneWriter' /\ Writer'
  BY DEF TypeOK, Rings, OneWriter, Writer, Writing
<1>3. Grows
  <2>1. tail' = tail /\ made <= made' /\ bus' = bus /\ out' = out /\ build' = build /\ err' = err
    BY DEF TypeOK
  <2>2. ASSUME NEW g \in Buses, g <= made, Finished(g) PROVE Finished(g)'
    BY <2>2 DEF Finished, TypeOK, Buses, NoBus
  <2>3. ASSUME NEW g \in Buses PROVE Printed(g)' = Printed(g)
    BY <2>1 DEF Printed
  <2>4. \A g \in Buses : Len(bus[g].sent) <= Len(bus'[g].sent)
    BY <2>1 DEF TypeOK
  <2> QED BY <2>1, <2>2, <2>3, <2>4 DEF Grows
<1> QED BY <1>1, <1>2, <1>3 DEF Control

(* The build task's lookup: its bus has no line yet.                        *)
LEMMA BuildBusKeeps == Inv /\ BuildBus => Control' /\ Grows
<1> SUFFICES ASSUME Inv, BuildBus PROVE Control' /\ Grows
  OBVIOUS
<1> USE DEF Inv, BuildBus, GetOrInsert
<1>1. TypeOK' /\ BusesMade'
  <2>1. made \in 0 .. 1
    BY DEF TypeOK, BusesMade
  <2>2. CASE current = NoBus
    <3>1. current' = made + 1 /\ made' = made + 1 /\ made + 1 \in Buses
      BY <2>1, <2>2 DEF Buses
    <3>2. TypeOK'
      BY <2>1, <3>1 DEF TypeOK, Buses
    <3>3. BusesMade'
      BY <2>1, <3>1 DEF TypeOK, BusesMade, Buses, NoBus
    <3> QED BY <3>2, <3>3
  <2>3. CASE current # NoBus
    <3>1. current' = current /\ made' = made
      BY <2>3
    <3>2. TypeOK'
      BY <2>3, <3>1 DEF TypeOK
    <3>3. BusesMade'
      BY <2>1, <3>1 DEF TypeOK, BusesMade, Buses, NoBus
    <3> QED BY <3>2, <3>3
  <2> QED BY <2>2, <2>3
<1>2. Rings' /\ OneWriter'
  BY DEF TypeOK, Rings, OneWriter, Buses, NoBus
<1>3. Writer'
  <2>1. out = NoBus /\ \A g \in Buses : bus'[g] = EmptyBus
    BY DEF OneWriter, Buses, NoBus
  <2>2. Len(EmptyBus.sent) = 0 /\ EmptyBus.pushed = 0 /\ EmptyBus.done = FALSE
    BY DEF EmptyBus
  <2> QED BY <2>1, <2>2, LogConstants DEF Writer, Writing
<1>4. Grows
  <2>1. tail' = tail /\ made <= made' /\ bus' = bus /\ build' = "run" /\ out = NoBus
    BY DEF TypeOK, OneWriter
  <2>2. ASSUME NEW g \in Buses, g <= made, Finished(g)
        PROVE  g # current /\ g # current' /\ g # out' /\ g # out
    BY <2>1, <2>2 DEF Finished, TypeOK, Buses, NoBus
  <2>3. ASSUME NEW g \in Buses, g <= made, Finished(g) PROVE Finished(g)' /\ Printed(g)' = Printed(g)
    BY <2>1, <2>2, <2>3 DEF Finished, Printed
  <2>4. \A g \in Buses : Len(bus[g].sent) <= Len(bus'[g].sent)
    BY <2>1 DEF TypeOK
  <2> QED BY <2>1, <2>3, <2>4 DEF Grows, Buses, NoBus
<1> QED BY <1>1, <1>2, <1>3, <1>4 DEF Control

(* A step that writes the task's bus and leaves it well formed.             *)
LEMMA BusWritten ==
  ASSUME Inv, out' \in Buses, out \in {out', NoBus},
         bus' = [bus EXCEPT ![out'] = bus'[out']],
         bus'[out'] \in BusRec, Exact(bus'[out'])
  PROVE  /\ bus' \in [Buses -> BusRec] /\ Rings' /\ (\A g \in Buses : g # out' => bus'[g] = EmptyBus)
         /\ \A g \in Buses : g # out' => bus'[g] = bus[g]
<1> USE DEF Inv
<1>1. bus \in [Buses -> BusRec]
  BY DEF TypeOK, BusRec
<1>2. bus' \in [Buses -> BusRec] /\ \A g \in Buses : g # out' => bus'[g] = bus[g]
  BY <1>1
<1>3. \A g \in Buses : Exact(bus'[g])
  BY <1>2 DEF Rings
<1>4. \A g \in Buses : g # out' => bus'[g] = EmptyBus
  BY <1>2 DEF OneWriter, Buses, NoBus
<1> QED BY <1>2, <1>3, <1>4 DEF Rings

(* Before the done flag is set, what is finished is another bus.            *)
LEMMA UnfinishedGrows ==
  ASSUME Inv, out' \in Buses, out \in {out', NoBus}, current' = current, tail' = tail, made' = made,
         build \in {"fail_lookup", "fail_send", "run", "send"},
         out = NoBus => out' = current,
         \A g \in Buses : g # out' => bus'[g] = bus[g],
         Len(bus[out'].sent) <= Len(bus'[out'].sent)
  PROVE  Grows
<1> USE DEF Inv
<1>1. ~(out \in Buses /\ bus[out].done)
  BY DEF Writer, Writing
<1>2. ASSUME NEW g \in Buses, g <= made, Finished(g) PROVE g # current /\ g # out /\ g # out'
  <2>1. g # current /\ g # out
    BY <1>1, <1>2 DEF Finished
  <2> QED BY <2>1
<1>3. ASSUME NEW g \in Buses, g <= made, Finished(g) PROVE Finished(g)' /\ Printed(g)' = Printed(g)
  <2>1. Finished(g)'
    BY <1>2, <1>3 DEF Finished
  <2>2. Printed(g) = bus[g].pushed /\ Printed(g)' = bus'[g].pushed
    BY <1>2, <1>3 DEF Printed
  <2> QED BY <1>2, <1>3, <2>1, <2>2
<1>4. \A g \in Buses : Len(bus[g].sent) <= Len(bus'[g].sent)
  <2>1. \A g \in Buses : Len(bus[g].sent) \in Nat
    BY DEF TypeOK
  <2> QED BY <2>1
<1>5. made <= made'
  BY DEF TypeOK
<1> QED BY <1>1, <1>3, <1>4, <1>5 DEF Grows

(* The facts about the bus a step writes.                                   *)
LEMMA WriterFacts ==
  ASSUME Inv, out \in Buses
  PROVE  /\ bus[out] \in BusRec /\ Exact(bus[out])
         /\ bus[out].pushed \in Nat /\ bus[out].sent \in Seq(Lines) /\ Len(bus[out].sent) \in Nat
         /\ bus \in [Buses -> BusRec]
<1>1. bus \in [Buses -> BusRec] /\ Exact(bus[out])
  BY DEF Inv, TypeOK, BusRec, Rings
<1> QED BY <1>1, LenProperties DEF BusRec

(* push, under the ring's mutex.                                            *)
LEMMA PrintLineKeeps == Inv /\ PrintLine => Control' /\ Grows
<1> SUFFICES ASSUME Inv, PrintLine PROVE Control' /\ Grows
  OBVIOUS
<1> DEFINE b == bus[out]
<1>0. out \in Buses /\ out' = out /\ current' = current /\ made' = made /\ tail' = tail
  BY DEF Inv, TypeOK, PrintLine
<1>1. /\ b \in BusRec /\ Exact(b) /\ b.pushed \in Nat /\ b.sent \in Seq(Lines)
      /\ Len(b.sent) \in Nat /\ bus \in [Buses -> BusRec] /\ Writing(b)
  BY <1>0, WriterFacts DEF Inv, Writer
<1>2. bus' = [bus EXCEPT ![out] = PushRing(b)] /\ bus'[out] = PushRing(b)
  BY <1>0, <1>1 DEF PrintLine
<1>3. /\ bus'[out] \in BusRec /\ Exact(bus'[out]) /\ bus'[out].pushed = b.pushed + 1
      /\ bus'[out].sent = b.sent /\ bus'[out].done = b.done
  <2>1. b.pushed < BuildLines + 1
    BY <1>1, LogConstants DEF PrintLine, Writing
  <2> HIDE DEF b
  <2> QED BY <1>1, <1>2, <2>1, PushRingExact
<1>4. /\ bus' \in [Buses -> BusRec] /\ Rings' /\ (\A g \in Buses : g # out => bus'[g] = EmptyBus)
      /\ \A g \in Buses : g # out => bus'[g] = bus[g]
  <2>1. bus' = [bus EXCEPT ![out'] = bus'[out']]
    BY <1>0, <1>2
  <2> QED BY <1>0, <1>3, <2>1, BusWritten
<1>5. TypeOK' /\ BusesMade'
  BY <1>0, <1>4 DEF Inv, TypeOK, BusesMade, BusRec, PrintLine
<1>6. OneWriter'
  BY <1>0, <1>4 DEF OneWriter, PrintLine, Buses, NoBus
<1>7. Writer'
  <2>1. /\ b.pushed = Len(b.sent) /\ (\A k \in 1 .. Len(b.sent) : b.sent[k] = k)
        /\ b.pushed < BuildLines /\ ~b.done /\ build' = "send"
    BY <1>1, LogConstants DEF Writing, PrintLine
  <2> HIDE DEF b
  <2>2. /\ bus'[out'].pushed = Len(bus'[out'].sent) + 1
        /\ \A k \in 1 .. Len(bus'[out'].sent) : bus'[out'].sent[k] = k
        /\ bus'[out'].pushed <= BuildLines + 0 /\ ~bus'[out'].done
    <3>1. b.pushed \in Nat /\ BuildLines \in Nat
      BY <1>1, LogConstants
    <3> QED BY <1>0, <1>3, <2>1, <3>1
  <2> QED BY <2>1, <2>2 DEF Writer, Writing
<1>8. Grows
  <2>1. Len(b.sent) <= Len(bus'[out].sent)
    BY <1>1, <1>3, LenProperties, AppendProperties DEF BusRec, Lines
  <2> QED BY <1>0, <1>4, <2>1, UnfinishedGrows DEF PrintLine, Buses, NoBus
<1> QED BY <1>4, <1>5, <1>6, <1>7, <1>8 DEF Control

(* push, after the mutex: the line goes into the channel.                   *)
LEMMA PrintLineSendKeeps == Inv /\ PrintLineSend => Control' /\ Grows
<1> SUFFICES ASSUME Inv, PrintLineSend PROVE Control' /\ Grows
  OBVIOUS
<1> DEFINE b == bus[out]
<1>0. out \in Buses /\ out' = out /\ current' = current /\ made' = made /\ tail' = tail
  BY DEF Inv, TypeOK, PrintLineSend
<1>1. /\ b \in BusRec /\ Exact(b) /\ b.pushed \in Nat /\ b.sent \in Seq(Lines)
      /\ Len(b.sent) \in Nat /\ bus \in [Buses -> BusRec] /\ Writing(b)
  BY <1>0, WriterFacts DEF Inv, Writer
<1>2. bus' = [bus EXCEPT ![out] = Send(b)] /\ bus'[out] = Send(b)
  BY <1>0, <1>1 DEF PrintLineSend
<1>3. /\ bus'[out] \in BusRec /\ Exact(bus'[out]) /\ bus'[out].pushed = b.pushed
      /\ bus'[out].sent = Append(b.sent, b.pushed) /\ bus'[out].done = b.done
  <2>1. b.pushed \in Lines
    BY <1>1, LogConstants DEF PrintLineSend, Writing, Lines
  <2> HIDE DEF b
  <2> QED BY <1>1, <1>2, <2>1, SendExact
<1>4. /\ bus' \in [Buses -> BusRec] /\ Rings' /\ (\A g \in Buses : g # out => bus'[g] = EmptyBus)
      /\ \A g \in Buses : g # out => bus'[g] = bus[g]
  <2>1. bus' = [bus EXCEPT ![out'] = bus'[out']]
    BY <1>0, <1>2
  <2> QED BY <1>0, <1>3, <2>1, BusWritten
<1>5. TypeOK' /\ BusesMade'
  BY <1>0, <1>4 DEF Inv, TypeOK, BusesMade, BusRec, PrintLineSend
<1>6. OneWriter'
  BY <1>0, <1>4 DEF OneWriter, PrintLineSend, Buses, NoBus
<1>7. Writer'
  <2>1. b.pushed = Len(b.sent) + 1 /\ \A k \in 1 .. Len(b.sent) : b.sent[k] = k
    BY <1>1 DEF PrintLineSend, Writing
  <2>2. /\ Len(bus'[out].sent) = Len(b.sent) + 1
        /\ \A k \in 1 .. Len(bus'[out].sent) : bus'[out].sent[k] = k
    <3>1. /\ Len(bus'[out].sent) = Len(b.sent) + 1
          /\ \A k \in 1 .. Len(b.sent) : bus'[out].sent[k] = b.sent[k]
          /\ bus'[out].sent[Len(b.sent) + 1] = b.pushed
      BY <1>1, <1>3, <2>1, AppendProperties, LogConstants DEF Lines, BusRec
    <3>2. ASSUME NEW k \in 1 .. Len(bus'[out].sent) PROVE bus'[out].sent[k] = k
      <4>1. CASE k = Len(b.sent) + 1
        BY <2>1, <3>1, <4>1
      <4>2. CASE k # Len(b.sent) + 1
        <5>1. k \in 1 .. Len(b.sent)
          BY <1>1, <3>1, <4>2
        <5> QED BY <2>1, <3>1, <5>1
      <4> QED BY <4>1, <4>2
    <3> QED BY <3>1, <3>2
  <2> HIDE DEF b
  <2> QED BY <1>0, <1>1, <1>3, <2>1, <2>2, LogConstants DEF Inv, Writer, Writing, PrintLineSend
<1>8. Grows
  <2>1. Len(b.sent) <= Len(bus'[out].sent)
    BY <1>1, <1>3, LenProperties, AppendProperties DEF BusRec, Lines
  <2> QED BY <1>0, <1>4, <2>1, UnfinishedGrows DEF PrintLineSend, Buses, NoBus
<1> QED BY <1>4, <1>5, <1>6, <1>7, <1>8 DEF Control

(* The line of a backend error reaches the channel after the done flag.     *)
LEMMA RecordErrSendKeeps == Inv /\ RecordErrSend => Control' /\ Grows
<1> SUFFICES ASSUME Inv, RecordErrSend PROVE Control' /\ Grows
  OBVIOUS
<1> DEFINE b == bus[out]
<1>0. out \in Buses /\ out' = out /\ current' = current /\ made' = made /\ tail' = tail
  BY DEF Inv, TypeOK, RecordErrSend
<1>1. /\ b \in BusRec /\ Exact(b) /\ b.pushed \in Nat /\ b.sent \in Seq(Lines)
      /\ Len(b.sent) \in Nat /\ bus \in [Buses -> BusRec] /\ Writing(b)
  BY <1>0, WriterFacts DEF Inv, Writer
<1>2. bus' = [bus EXCEPT ![out] = Send(b)] /\ bus'[out] = Send(b)
  BY <1>0, <1>1 DEF RecordErrSend
<1>3. /\ bus'[out] \in BusRec /\ Exact(bus'[out]) /\ bus'[out].pushed = b.pushed
      /\ bus'[out].sent = Append(b.sent, b.pushed) /\ bus'[out].done = b.done
  <2>1. b.pushed \in Lines
    BY <1>1, LogConstants DEF RecordErrSend, Writing, Lines
  <2> HIDE DEF b
  <2> QED BY <1>1, <1>2, <2>1, SendExact
<1>4. /\ bus' \in [Buses -> BusRec] /\ Rings' /\ (\A g \in Buses : g # out => bus'[g] = EmptyBus)
      /\ \A g \in Buses : g # out => bus'[g] = bus[g]
  <2>1. bus' = [bus EXCEPT ![out'] = bus'[out']]
    BY <1>0, <1>2
  <2> QED BY <1>0, <1>3, <2>1, BusWritten
<1>5. TypeOK' /\ BusesMade'
  BY <1>0, <1>4 DEF Inv, TypeOK, BusesMade, BusRec, RecordErrSend
<1>6. OneWriter'
  BY <1>0, <1>4 DEF OneWriter, RecordErrSend, Buses, NoBus
<1>7. Writer'
  <2>1. b.pushed = Len(b.sent) + 1 /\ \A k \in 1 .. Len(b.sent) : b.sent[k] = k
    BY <1>1 DEF RecordErrSend, Writing
  <2>2. /\ Len(bus'[out].sent) = Len(b.sent) + 1
        /\ \A k \in 1 .. Len(bus'[out].sent) : bus'[out].sent[k] = k
    <3>1. /\ Len(bus'[out].sent) = Len(b.sent) + 1
          /\ \A k \in 1 .. Len(b.sent) : bus'[out].sent[k] = b.sent[k]
          /\ bus'[out].sent[Len(b.sent) + 1] = b.pushed
      BY <1>1, <1>3, <2>1, AppendProperties, LogConstants DEF Lines, BusRec
    <3>2. ASSUME NEW k \in 1 .. Len(bus'[out].sent) PROVE bus'[out].sent[k] = k
      <4>1. CASE k = Len(b.sent) + 1
        BY <2>1, <3>1, <4>1
      <4>2. CASE k # Len(b.sent) + 1
        <5>1. k \in 1 .. Len(b.sent)
          BY <1>1, <3>1, <4>2
        <5> QED BY <2>1, <3>1, <5>1
      <4> QED BY <4>1, <4>2
    <3> QED BY <3>1, <3>2
  <2> HIDE DEF b
  <2> QED BY <1>0, <1>1, <1>3, <2>1, <2>2, LogConstants DEF Inv, Writer, Writing, RecordErrSend
<1>8. Grows
  <2>1. /\ bus[out].pushed = Len(bus[out].sent) + 1 /\ err /\ err' = err
        /\ build = "err_send" /\ build' = "teardown"
    BY <1>1 DEF Inv, Writer, Writing, RecordErrSend
  <2>2. ASSUME NEW g \in Buses PROVE Printed(g)' = Printed(g)
    BY <1>0, <1>1, <1>3, <1>4, <2>1, <2>2 DEF Printed
  <2>3. ASSUME NEW g \in Buses, g <= made, Finished(g) PROVE Finished(g)'
    BY <1>0, <1>3, <2>1, <2>3 DEF Finished
  <2>4. ASSUME NEW g \in Buses PROVE Len(bus[g].sent) <= Len(bus'[g].sent)
    <3>1. Len(b.sent) <= Len(bus'[out].sent)
      BY <1>1, <1>3, LenProperties, AppendProperties, LogConstants DEF BusRec, Lines, Writing
    <3>2. Len(bus[g].sent) \in Nat
      BY <1>1, LenProperties DEF BusRec
    <3> QED BY <1>0, <1>4, <3>1, <3>2
  <2>5. made <= made'
    BY <1>0 DEF Inv, TypeOK
  <2> QED BY <1>0, <1>3, <2>2, <2>3, <2>4, <2>5 DEF Grows
<1> QED BY <1>4, <1>5, <1>6, <1>7, <1>8 DEF Control

(* fail_provision sends its line and marks the bus done.                    *)
LEMMA FailSendKeeps == Inv /\ FailSend => Control' /\ Grows
<1> SUFFICES ASSUME Inv, FailSend PROVE Control' /\ Grows
  OBVIOUS
<1> DEFINE b == bus[out]
<1>0. out \in Buses /\ out' = out /\ current' = current /\ made' = made /\ tail' = tail
  BY DEF Inv, TypeOK, FailSend
<1>1. /\ b \in BusRec /\ Exact(b) /\ b.pushed \in Nat /\ b.sent \in Seq(Lines)
      /\ Len(b.sent) \in Nat /\ bus \in [Buses -> BusRec] /\ Writing(b)
  BY <1>0, WriterFacts DEF Inv, Writer
<1>2. bus' = [bus EXCEPT ![out] = MarkDone(Send(b))] /\ bus'[out] = MarkDone(Send(b))
  BY <1>0, <1>1 DEF FailSend
<1>3. /\ bus'[out] \in BusRec /\ Exact(bus'[out]) /\ bus'[out].pushed = b.pushed
      /\ bus'[out].sent = Append(b.sent, b.pushed) /\ bus'[out].done = TRUE
  <2>1. b.pushed \in Lines
    BY <1>1, LogConstants DEF FailSend, Writing, Lines
  <2> HIDE DEF b
  <2>2. /\ Send(b) \in BusRec /\ Exact(Send(b)) /\ Send(b).pushed = b.pushed
        /\ Send(b).sent = Append(b.sent, b.pushed)
    BY <1>1, <2>1, SendExact
  <2> QED BY <1>2, <2>2, MarkDoneExact
<1>4. /\ bus' \in [Buses -> BusRec] /\ Rings' /\ (\A g \in Buses : g # out => bus'[g] = EmptyBus)
      /\ \A g \in Buses : g # out => bus'[g] = bus[g]
  <2>1. bus' = [bus EXCEPT ![out'] = bus'[out']]
    BY <1>0, <1>2
  <2> QED BY <1>0, <1>3, <2>1, BusWritten
<1>5. TypeOK' /\ BusesMade'
  <2>1. /\ build' = "over" /\ build = "fail_send"
        /\ UNCHANGED <<submit, err, current, made, out, evict, tail>>
    BY DEF FailSend
  <2>2. TypeOK'
    BY <1>0, <1>4, <2>1 DEF Inv, TypeOK, BusRec
  <2>3. BusesMade'
    BY <2>1 DEF Inv, TypeOK, BusesMade
  <2> QED BY <2>2, <2>3
<1>6. OneWriter'
  BY <1>0, <1>4 DEF OneWriter, FailSend, Buses, NoBus
<1>7. Writer'
  <2>1. b.pushed = Len(b.sent) + 1 /\ \A k \in 1 .. Len(b.sent) : b.sent[k] = k
    BY <1>1 DEF FailSend, Writing
  <2>2. /\ Len(bus'[out].sent) = Len(b.sent) + 1
        /\ \A k \in 1 .. Len(bus'[out].sent) : bus'[out].sent[k] = k
    <3>1. /\ Len(bus'[out].sent) = Len(b.sent) + 1
          /\ \A k \in 1 .. Len(b.sent) : bus'[out].sent[k] = b.sent[k]
          /\ bus'[out].sent[Len(b.sent) + 1] = b.pushed
      BY <1>1, <1>3, <2>1, AppendProperties, LogConstants DEF Lines, BusRec
    <3>2. ASSUME NEW k \in 1 .. Len(bus'[out].sent) PROVE bus'[out].sent[k] = k
      <4>1. CASE k = Len(b.sent) + 1
        BY <2>1, <3>1, <4>1
      <4>2. CASE k # Len(b.sent) + 1
        <5>1. k \in 1 .. Len(b.sent)
          BY <1>1, <3>1, <4>2
        <5> QED BY <2>1, <3>1, <5>1
      <4> QED BY <4>1, <4>2
    <3> QED BY <3>1, <3>2
  <2> HIDE DEF b
  <2> QED BY <1>0, <1>1, <1>3, <2>1, <2>2, LogConstants DEF Inv, Writer, Writing, FailSend
<1>8. Grows
  <2>1. Len(b.sent) <= Len(bus'[out].sent)
    BY <1>1, <1>3, LenProperties, AppendProperties DEF BusRec, Lines
  <2> QED BY <1>0, <1>4, <2>1, UnfinishedGrows DEF FailSend, Buses, NoBus
<1> QED BY <1>4, <1>5, <1>6, <1>7, <1>8 DEF Control

(* The line of a backend error goes into a ring that is marked done.        *)
LEMMA RecordErrKeeps == Inv /\ RecordErr => Control' /\ Grows
<1> SUFFICES ASSUME Inv, RecordErr PROVE Control' /\ Grows
  OBVIOUS
<1> DEFINE b == bus[out]
<1>0. out \in Buses /\ out' = out /\ current' = current /\ made' = made /\ tail' = tail
  BY DEF Inv, TypeOK, RecordErr
<1>1. /\ b \in BusRec /\ Exact(b) /\ b.pushed \in Nat /\ b.sent \in Seq(Lines)
      /\ Len(b.sent) \in Nat /\ bus \in [Buses -> BusRec] /\ Writing(b)
  BY <1>0, WriterFacts DEF Inv, Writer
<1>2. bus' = [bus EXCEPT ![out] = PushRing(b)] /\ bus'[out] = PushRing(b)
  BY <1>0, <1>1 DEF RecordErr
<1>3. /\ bus'[out] \in BusRec /\ Exact(bus'[out]) /\ bus'[out].pushed = b.pushed + 1
      /\ bus'[out].sent = b.sent /\ bus'[out].done = b.done
  <2>1. b.pushed < BuildLines + 1
    BY <1>1, LogConstants DEF RecordErr, Writing
  <2> HIDE DEF b
  <2> QED BY <1>1, <1>2, <2>1, PushRingExact
<1>4. /\ bus' \in [Buses -> BusRec] /\ Rings' /\ (\A g \in Buses : g # out => bus'[g] = EmptyBus)
      /\ \A g \in Buses : g # out => bus'[g] = bus[g]
  <2>1. bus' = [bus EXCEPT ![out'] = bus'[out']]
    BY <1>0, <1>2
  <2> QED BY <1>0, <1>3, <2>1, BusWritten
<1>5. TypeOK' /\ BusesMade'
  BY <1>0, <1>4 DEF Inv, TypeOK, BusesMade, BusRec, RecordErr
<1>6. OneWriter'
  BY <1>0, <1>4 DEF OneWriter, RecordErr, Buses, NoBus
<1>7. Writer'
  <2>1. /\ b.pushed = Len(b.sent) /\ (\A k \in 1 .. Len(b.sent) : b.sent[k] = k)
        /\ b.pushed <= BuildLines /\ build' = "err_send" /\ err'
    BY <1>1, LogConstants DEF Writing, RecordErr
  <2> HIDE DEF b
  <2>2. /\ bus'[out'].pushed = Len(bus'[out'].sent) + 1
        /\ \A k \in 1 .. Len(bus'[out'].sent) : bus'[out'].sent[k] = k
        /\ bus'[out'].pushed <= BuildLines + 1
    <3>1. b.pushed \in Nat /\ BuildLines \in Nat
      BY <1>1, LogConstants
    <3> QED BY <1>0, <1>3, <2>1, <3>1
  <2> QED BY <2>1, <2>2 DEF Writer, Writing
<1>8. Grows
  <2>1. /\ bus[out].pushed = Len(bus[out].sent) + 0 /\ err /\ err' = err
        /\ build = "record" /\ build' = "err_send"
    BY <1>1 DEF Inv, Writer, Writing, RecordErr
  <2>2. ASSUME NEW g \in Buses PROVE Printed(g)' = Printed(g)
    BY <1>0, <1>1, <1>3, <1>4, <2>1, <2>2 DEF Printed
  <2>3. ASSUME NEW g \in Buses, g <= made, Finished(g) PROVE Finished(g)'
    BY <1>0, <1>3, <2>1, <2>3 DEF Finished
  <2>4. ASSUME NEW g \in Buses PROVE Len(bus[g].sent) <= Len(bus'[g].sent)
    <3>1. Len(b.sent) <= Len(bus'[out].sent)
      BY <1>1, <1>3, LenProperties, AppendProperties, LogConstants DEF BusRec, Lines, Writing
    <3>2. Len(bus[g].sent) \in Nat
      BY <1>1, LenProperties DEF BusRec
    <3> QED BY <1>0, <1>4, <3>1, <3>2
  <2>5. made <= made'
    BY <1>0 DEF Inv, TypeOK
  <2> QED BY <1>0, <1>3, <2>2, <2>3, <2>4, <2>5 DEF Grows
<1> QED BY <1>4, <1>5, <1>6, <1>7, <1>8 DEF Control

(* The build has printed its last line when the bus is marked done.         *)
LEMMA BuildReturnsKeeps == Inv /\ BuildReturns => Control' /\ Grows
<1> SUFFICES ASSUME Inv, BuildReturns PROVE Control' /\ Grows
  OBVIOUS
<1> DEFINE b == bus[out]
<1>0. out \in Buses /\ out' = out /\ current' = current /\ made' = made /\ tail' = tail
  BY DEF Inv, TypeOK, BuildReturns
<1>1. /\ b \in BusRec /\ Exact(b) /\ b.pushed \in Nat /\ b.sent \in Seq(Lines)
      /\ Len(b.sent) \in Nat /\ bus \in [Buses -> BusRec] /\ Writing(b)
  BY <1>0, WriterFacts DEF Inv, Writer
<1>2. bus' = [bus EXCEPT ![out] = MarkDone(b)] /\ bus'[out] = MarkDone(b)
  BY <1>0, <1>1 DEF BuildReturns
<1>3. /\ bus'[out] \in BusRec /\ Exact(bus'[out]) /\ bus'[out].pushed = b.pushed
      /\ bus'[out].sent = b.sent /\ bus'[out].done = TRUE
  <2> HIDE DEF b
  <2> QED BY <1>1, <1>2, MarkDoneExact
<1>4. /\ bus' \in [Buses -> BusRec] /\ Rings' /\ (\A g \in Buses : g # out => bus'[g] = EmptyBus)
      /\ \A g \in Buses : g # out => bus'[g] = bus[g]
  <2>1. bus' = [bus EXCEPT ![out'] = bus'[out']]
    BY <1>0, <1>2
  <2> QED BY <1>0, <1>3, <2>1, BusWritten
<1>5. TypeOK' /\ BusesMade'
  BY <1>0, <1>4 DEF Inv, TypeOK, BusesMade, BusRec, BuildReturns
<1>6. OneWriter'
  BY <1>0, <1>4 DEF OneWriter, BuildReturns, Buses, NoBus
<1>7. Writer'
  <2>1. /\ b.pushed = Len(b.sent) /\ (\A k \in 1 .. Len(b.sent) : b.sent[k] = k)
        /\ b.pushed <= BuildLines /\ build' = "record"
    BY <1>1, LogConstants DEF Writing, BuildReturns
  <2> HIDE DEF b
  <2>2. /\ bus'[out'].pushed = Len(bus'[out'].sent) + 0
        /\ \A k \in 1 .. Len(bus'[out'].sent) : bus'[out'].sent[k] = k
        /\ bus'[out'].pushed <= BuildLines + 0
    <3>1. b.pushed \in Nat /\ BuildLines \in Nat
      BY <1>1, LogConstants
    <3> QED BY <1>0, <1>3, <2>1, <3>1
  <2> QED BY <2>1, <2>2 DEF Writer, Writing
<1>8. Grows
  <2>1. Len(b.sent) <= Len(bus'[out].sent)
    BY <1>1, <1>3, LenProperties, AppendProperties DEF BusRec, Lines
  <2> QED BY <1>0, <1>4, <2>1, UnfinishedGrows DEF BuildReturns, Buses, NoBus
<1> QED BY <1>4, <1>5, <1>6, <1>7, <1>8 DEF Control

(* A job that fails before it is built: the first line of its log, if submit *)
(* made one.                                                                *)
LEMMA FailLookupKeeps == Inv /\ FailLookup => Control' /\ Grows
<1> SUFFICES ASSUME Inv, FailLookup PROVE Control' /\ Grows
  OBVIOUS
<1>0. /\ out' = current /\ current' = current /\ made' = made /\ tail' = tail /\ out = NoBus
      /\ \A g \in Buses : bus[g] = EmptyBus
  BY DEF Inv, OneWriter, FailLookup, Buses, NoBus
<1>1. CASE current = NoBus
  <2>1. bus' = bus /\ build' = "over" /\ out' = out
    BY <1>0, <1>1 DEF FailLookup
  <2>2. TypeOK' /\ BusesMade'
    BY <1>0, <2>1 DEF Inv, TypeOK, BusesMade, Buses, NoBus, FailLookup
  <2>3. Rings' /\ OneWriter' /\ Writer'
    BY <1>0, <2>1 DEF Inv, Rings, OneWriter, Writer, Buses, NoBus
  <2>4. Grows
    BY <1>0, <1>1, <2>1 DEF Inv, TypeOK, Grows, Finished, Printed, Buses, NoBus
  <2> QED BY <2>2, <2>3, <2>4 DEF Control
<1>2. CASE current # NoBus
  <2>1. /\ current \in Buses /\ bus \in [Buses -> BusRec] /\ bus[current] = EmptyBus
        /\ EmptyBus \in BusRec /\ Exact(EmptyBus)
    BY <1>0, <1>2, EmptyExact DEF Inv, TypeOK, BusRec
  <2>2. /\ build' = "fail_send" /\ err' = err /\ bus' = [bus EXCEPT ![current] = PushRing(EmptyBus)]
        /\ bus'[out'] = PushRing(EmptyBus)
    BY <1>0, <1>2, <2>1 DEF FailLookup
  <2>3. EmptyBus.pushed = 0 /\ EmptyBus.sent = <<>> /\ EmptyBus.done = FALSE
    BY DEF EmptyBus
  <2>4. /\ bus'[out'] \in BusRec /\ Exact(bus'[out']) /\ bus'[out'].pushed = 1
        /\ bus'[out'].sent = <<>> /\ bus'[out'].done = FALSE
    <3>1. EmptyBus.pushed < BuildLines + 1
      BY <2>3, LogConstants
    <3> QED BY <2>1, <2>2, <2>3, <3>1, PushRingExact
  <2>5. /\ bus' \in [Buses -> BusRec] /\ Rings'
        /\ (\A g \in Buses : g # out' => bus'[g] = EmptyBus)
        /\ \A g \in Buses : g # out' => bus'[g] = bus[g]
    <3>1. bus' = [bus EXCEPT ![out'] = bus'[out']]
      BY <1>0, <2>2
    <3> QED BY <1>0, <2>1, <2>4, <3>1, BusWritten
  <2>6. TypeOK' /\ BusesMade'
    BY <1>0, <2>1, <2>2, <2>5 DEF Inv, TypeOK, BusesMade, BusRec, FailLookup
  <2>7. OneWriter' /\ Writer'
    <3>1. Len(<<>>) = 0 /\ BuildLines \in Nat
      BY LogConstants
    <3> QED BY <2>2, <2>4, <2>5, <3>1 DEF OneWriter, Writer, Writing
  <2>8. Grows
    <3>1. Len(bus[out'].sent) <= Len(bus'[out'].sent)
      BY <1>0, <2>1, <2>3, <2>4
    <3> QED BY <1>0, <2>1, <2>5, <3>1, UnfinishedGrows DEF FailLookup
  <2> QED BY <2>5, <2>6, <2>7, <2>8 DEF Control
<1> QED BY <1>1, <1>2

-----------------------------------------------------------------------------
(* Steps of the streams *)

TailRec == [pc : {"new", "not_found", "live", "check", "last", "ended"},
            bus : Buses \cup {NoBus}, next : Nat, backlog : Seq(Lines),
            marker : Nat, live : Seq(Lines), lagged : BOOLEAN]

BusesTyped ==
    /\ made \in Nat
    /\ \A g \in Buses : /\ bus[g] \in BusRec /\ bus[g].pushed \in Nat
                        /\ bus[g].sent \in Seq(Lines) /\ Len(bus[g].sent) \in Nat

(* The buses' fields.                                                       *)
LEMMA BusTyped == TypeOK => BusesTyped
<1> SUFFICES ASSUME TypeOK PROVE BusesTyped
  OBVIOUS
<1>1. made \in Nat /\ bus \in [Buses -> BusRec]
  BY DEF TypeOK, BusRec
<1>2. \A b \in BusRec : b.pushed \in Nat /\ b.sent \in Seq(Lines) /\ Len(b.sent) \in Nat
  BY LenProperties DEF BusRec
<1> QED BY <1>1, <1>2 DEF BusesTyped

(* What the other tasks do leaves every stream where it was in the log.     *)
LEMMA FollowersKept == Inv /\ Control' /\ Grows => Followers'
<1> SUFFICES ASSUME Inv, Control', Grows, NEW s \in Streams
             PROVE  (Idle(tail[s]) \/ Follows(tail[s]))'
  BY DEF Followers
<1> DEFINE t == tail[s]
<1>1. tail'[s] = t /\ tail' = tail
  BY DEF Grows
<1>2. CASE Idle(t)
  BY <1>1, <1>2 DEF Idle
<1>3. CASE Follows(t)
  <2>1. t.bus \in Buses /\ t.bus \in 1 .. made /\ t.next \in 1 .. Len(bus[t.bus].sent) + 1
    BY <1>3 DEF Follows
  <2>2. /\ made \in Nat /\ made' \in Nat /\ made <= made' /\ t.bus <= made
        /\ Len(bus[t.bus].sent) \in Nat /\ \A g \in Buses : Len(bus'[g].sent) \in Nat
    <3>1. TypeOK /\ TypeOK'
      BY DEF Inv, Control
    <3>2. TypeOK' => BusesTyped'
      BY BusTyped, PTL
    <3>3. made \in Nat /\ Len(bus[t.bus].sent) \in Nat
      BY <2>1, <3>1, BusTyped DEF BusesTyped
    <3>4. made <= made'
      BY DEF Grows
    <3>5. made' \in Nat /\ \A g \in Buses : Len(bus'[g].sent) \in Nat
      BY <3>1, <3>2 DEF BusesTyped
    <3> HIDE DEF t
    <3> QED BY <2>1, <3>3, <3>4, <3>5
  <2>3. PICK g \in Buses : g = t.bus
    BY <2>1
  <2>4. g \in 1 .. made' /\ t.next \in 1 .. Len(bus'[g].sent) + 1
    <3>1. Len(bus[g].sent) <= Len(bus'[g].sent)
      BY DEF Grows
    <3>2. /\ t.bus \in 1 .. made /\ t.next \in 1 .. Len(bus[g].sent) + 1
          /\ Len(bus[g].sent) \in Nat /\ Len(bus'[g].sent) \in Nat
      BY <2>1, <2>2, <2>3
    <3>3. t.next \in 1 .. Len(bus'[g].sent) + 1
      BY <3>1, <3>2
    <3>4. g \in 1 .. made'
      BY <2>2, <2>3, <3>2
    <3> QED BY <3>3, <3>4
  <2>5. /\ t.pc \in {"live", "check", "last", "ended"} /\ Reading(t) /\ (~t.lagged => Gapless(t))
        /\ t.pc = "last" => (out' \in Buses /\ bus'[out'].done)
    BY <1>3 DEF Follows, Grows
  <2>6. t.pc = "ended" /\ ~t.lagged => (t.next - 1 >= Printed(g)' /\ Finished(g)')
    BY <1>3, <2>1, <2>2, <2>3 DEF Follows, Grows
  <2>7. tail'[s].pc = "ended" /\ ~tail'[s].lagged
        => (tail'[s].next - 1 >= Printed(tail[s].bus)' /\ Finished(tail[s].bus)')
    BY <1>1, <2>3, <2>6 DEF Printed, Finished
  <2>8. Follows(tail[s])'
    BY <1>1, <2>3, <2>4, <2>5, <2>7 DEF Follows
  <2> QED BY <2>8
<1> QED BY <1>2, <1>3 DEF Inv, Followers

(* A step of one stream.                                                    *)
LEMMA StreamStep ==
  ASSUME Inv, UNCHANGED <<submit, build, err, current, made, bus, out, evict>>,
         NEW s \in Streams, tail' = [tail EXCEPT ![s] = tail'[s]],
         tail'[s] \in TailRec, Idle(tail'[s]) \/ Follows(tail'[s])
  PROVE  Inv'
<1>1. TypeOK'
  BY DEF Inv, TypeOK, TailRec
<1>2. Rings' /\ BusesMade' /\ OneWriter' /\ Writer'
  BY DEF Inv, Rings, BusesMade, OneWriter, Writer, Writing
<1>3. ASSUME NEW r \in Streams PROVE (Idle(tail[r]) \/ Follows(tail[r]))'
  <2>1. Idle(tail'[r]) \/ Follows(tail'[r])
    BY DEF Inv, Followers, TypeOK
  <2> QED BY <2>1 DEF Idle, Follows, Finished, Printed
<1> QED BY <1>1, <1>2, <1>3 DEF Inv, Followers

(* A finished bus has sent all its build printed.                           *)
LEMMA AllSent ==
  ASSUME Inv, NEW g \in Buses, Finished(g)
  PROVE  Printed(g) <= Len(bus[g].sent) /\ Len(bus[g].sent) \in Nat
<1>1. bus[g].pushed \in Nat /\ Len(bus[g].sent) \in Nat
  BY BusTyped DEF Inv, BusesTyped
<1>2. CASE g # out
  BY <1>1, <1>2 DEF Inv, OneWriter, EmptyBus, Printed
<1>3. CASE g = out
  <2>1. build \in {"record", "err_send", "teardown", "over"}
    BY <1>3 DEF Inv, Finished, Writer, Writing
  <2>2. /\ bus[g].pushed = Len(bus[g].sent) + (IF build = "err_send" THEN 1 ELSE 0)
        /\ build = "err_send" => err
    BY <1>3, <2>1 DEF Inv, Writer, Writing
  <2>3. Printed(g) \in {bus[g].pushed, bus[g].pushed - 1}
    BY DEF Printed
  <2>4. build = "err_send" => Printed(g) = bus[g].pushed - 1
    BY <1>3, <2>2 DEF Printed
  <2>5. CASE build = "err_send"
    BY <1>1, <2>2, <2>4, <2>5
  <2>6. CASE build # "err_send"
    BY <1>1, <2>2, <2>3, <2>6
  <2> QED BY <2>5, <2>6
<1> QED BY <1>1, <1>2, <1>3

(* The streams' fields.                                                     *)
LEMMA TailTyped ==
  ASSUME Inv, NEW s \in Streams
  PROVE  tail \in [Streams -> TailRec] /\ tail[s] \in TailRec
BY DEF Inv, TypeOK, TailRec

(* subscribe_logs: the receiver starts where the copied ring ends, or one line*)
(* earlier.                                                                 *)
LEMMA SubscribeKeeps ==
  ASSUME Inv, NEW s \in Streams, Subscribe(s)
  PROVE  Inv'
<1>1. tail \in [Streams -> TailRec] /\ tail[s] \in TailRec
  BY TailTyped
<1>2. tail[s] = NewTail
  BY DEF Subscribe, Inv, Followers, Idle, Follows, NewTail
<1>3. /\ NewTail.next = 1 /\ NewTail.live = <<>> /\ NewTail.lagged = FALSE /\ Len(<<>>) = 0
  BY DEF NewTail
<1>4. CASE current = NoBus
  <2>1. tail' = [tail EXCEPT ![s].pc = "not_found"] /\ tail'[s] = [NewTail EXCEPT !.pc = "not_found"]
    BY <1>1, <1>2, <1>4 DEF Subscribe
  <2>2. tail'[s] \in TailRec
    BY <1>1, <1>2, <2>1 DEF TailRec
  <2>3. tail'[s].pc = "not_found" /\ Idle(tail'[s])
    BY <2>1 DEF Idle, NewTail
  <2>4. tail' = [tail EXCEPT ![s] = tail'[s]]
    BY <1>1, <1>2, <2>1
  <2> QED BY <2>2, <2>3, <2>4, StreamStep DEF Subscribe
<1>5. CASE current # NoBus
  <2> DEFINE b == bus[current]
             u == [NewTail EXCEPT !.pc = "live", !.bus = current, !.next = Len(b.sent) + 1,
                                  !.marker = b.dropped_lines, !.backlog = b.lines]
  <2>1. current \in Buses /\ current \in 1 .. made /\ b \in BusRec /\ Exact(b)
    BY <1>5 DEF Inv, TypeOK, BusesMade, Rings, Buses, NoBus, BusRec
  <2>2. tail' = [tail EXCEPT ![s] = u] /\ tail'[s] = u
    BY <1>1, <1>2, <1>5 DEF Subscribe
  <2>3. /\ b.lines \in Seq(Lines) /\ Len(b.lines) \in Nat /\ Len(b.sent) \in Nat
        /\ b.dropped_lines \in Nat /\ b.pushed \in Nat
    BY <2>1 DEF BusRec
  <2>4. b.pushed \in {Len(b.sent), Len(b.sent) + 1}
    <3>1. CASE current = out
      <4>1. Writing(b)
        BY <2>1, <3>1 DEF Inv, Writer
      <4> HIDE DEF b
      <4>2. CASE build \in {"send", "err_send", "fail_send"}
        BY <2>3, <4>1, <4>2 DEF Writing
      <4>3. CASE build \notin {"send", "err_send", "fail_send"}
        BY <2>3, <4>1, <4>3 DEF Writing
      <4> QED BY <4>2, <4>3
    <3>2. CASE current # out
      BY <2>1, <3>2, <1>3 DEF Inv, OneWriter, EmptyBus
    <3> QED BY <3>1, <3>2
  <2>5. /\ u.pc = "live" /\ u.bus = current /\ u.next = Len(b.sent) + 1
        /\ u.marker = b.dropped_lines /\ u.backlog = b.lines /\ u.live = <<>> /\ u.lagged = FALSE
    BY DEF NewTail
  <2>6. u \in TailRec
    <3>1. Len(b.sent) + 1 \in Nat /\ NewTail \in TailRec
      BY <1>1, <1>2, <2>3
    <3> HIDE DEF b
    <3> QED BY <2>1, <2>3, <3>1 DEF TailRec
  <2>7. Reached(u) = b.pushed /\ \A k \in 1 .. Len(b.lines) : b.lines[k] = b.dropped_lines + k
    BY <2>1, <2>5 DEF Reached, Exact, Newest
  <2> HIDE DEF u
  <2>8. Reading(u)
    BY <1>3, <2>3, <2>4, <2>5, <2>7 DEF Reading
  <2>9. Gapless(u)
    BY <1>3, <2>3, <2>4, <2>5, <2>7 DEF Gapless
  <2>10. Follows(u)
    BY <2>1, <2>3, <2>5, <2>8, <2>9 DEF Follows
  <2>11. tail' = [tail EXCEPT ![s] = tail'[s]]
    BY <2>2
  <2> QED BY <2>2, <2>6, <2>10, <2>11, StreamStep DEF Subscribe
<1> QED BY <1>4, <1>5

(* A stream that follows a bus has the bus's numbers.                       *)
LEMMA FollowsFacts ==
  ASSUME Inv, NEW s \in Streams, Follows(tail[s])
  PROVE  /\ tail[s].bus \in Buses /\ tail[s].next \in Nat \ {0}
         /\ bus[tail[s].bus].sent \in Seq(Lines) /\ Len(bus[tail[s].bus].sent) \in Nat
         /\ Unread(tail[s]) = Len(bus[tail[s].bus].sent) - tail[s].next + 1
         /\ Unread(tail[s]) \in Nat /\ ChanCap \in Nat \ {0}
         /\ tail[s].backlog \in Seq(Lines) /\ tail[s].live \in Seq(Lines)
         /\ Len(tail[s].live) \in Nat /\ tail[s].marker \in Nat /\ Reached(tail[s]) \in Nat
         /\ tail[s].lagged \in BOOLEAN
<1> DEFINE t == tail[s]
<1>1. t.bus \in Buses /\ t.next \in 1 .. Len(bus[t.bus].sent) + 1
  BY DEF Follows
<1>2. bus[t.bus].sent \in Seq(Lines) /\ Len(bus[t.bus].sent) \in Nat
  BY <1>1, BusTyped DEF Inv, BusesTyped
<1>3. t.backlog \in Seq(Lines) /\ t.live \in Seq(Lines) /\ t.marker \in Nat /\ t.lagged \in BOOLEAN
  BY TailTyped DEF TailRec
<1>4. Len(t.live) \in Nat /\ Len(t.backlog) \in Nat
  BY <1>3, LenProperties
<1>5. Unread(t) = Len(bus[t.bus].sent) - t.next + 1
  BY DEF Unread
<1> HIDE DEF t
<1>6. Unread(t) \in Nat /\ t.next \in Nat \ {0} /\ Reached(t) \in Nat
  BY <1>1, <1>2, <1>3, <1>4, <1>5 DEF Reached
<1> QED BY <1>1, <1>2, <1>3, <1>4, <1>5, <1>6, LogConstants DEF t

(* A line's number.                                                         *)
LEMMA LinesNat ==
  ASSUME NEW q \in Seq(Lines), NEW j \in 1 .. Len(q)
  PROVE  q[j] \in Nat
<1>1. q[j] \in 1 .. BuildLines + 1
  BY ElementOfSeq DEF Lines
<1> QED BY <1>1, LogConstants

(* A line from the channel, or the jump over the lines it lost.             *)
LEMMA TakeKeeps ==
  ASSUME Inv, NEW s \in Streams, Follows(tail[s]), tail[s].pc \in {"live", "last"},
         Unread(tail[s]) > 0, Take(s, tail[s]),
         UNCHANGED <<submit, build, err, current, made, bus, out, evict>>
  PROVE  Inv'
<1> DEFINE t == tail[s]
           q == bus[t.bus].sent
<1>0. /\ t.bus \in Buses /\ t.next \in Nat \ {0} /\ q \in Seq(Lines) /\ Len(q) \in Nat
      /\ Unread(t) = Len(q) - t.next + 1 /\ Unread(t) \in Nat /\ ChanCap \in Nat \ {0}
      /\ t.live \in Seq(Lines) /\ Len(t.live) \in Nat /\ Reached(t) \in Nat /\ t.lagged \in BOOLEAN
  BY FollowsFacts
<1>1. tail \in [Streams -> TailRec] /\ t \in TailRec
  BY TailTyped
<1>2. /\ t.pc \in {"live", "check", "last", "ended"} /\ t.bus \in 1 .. made
      /\ t.next \in 1 .. Len(q) + 1 /\ Reading(t) /\ (~t.lagged => Gapless(t))
      /\ t.pc = "last" => (out \in Buses /\ bus[out].done)
  BY DEF Follows
<1>3. CASE Lagging(t)
  <2> DEFINE u == [t EXCEPT !.next = Len(q) - ChanCap + 1, !.lagged = TRUE]
  <2>1. tail' = [tail EXCEPT ![s] = u] /\ tail'[s] = u
    BY <1>1, <1>3 DEF Take
  <2>2. /\ u.pc = t.pc /\ u.bus = t.bus /\ u.next = Len(q) - ChanCap + 1 /\ u.marker = t.marker
        /\ u.backlog = t.backlog /\ u.live = t.live /\ u.lagged = TRUE
    BY <1>1 DEF TailRec
  <2>3. Len(q) - ChanCap + 1 > t.next /\ Len(q) - ChanCap + 1 \in 1 .. Len(q) + 1
    <3>1. Unread(t) > ChanCap
      BY <1>3 DEF Lagging
    <3> HIDE DEF t, q
    <3> QED BY <1>0, <3>1
  <2>4. u \in TailRec
    <3>1. Len(q) - ChanCap + 1 \in Nat
      BY <2>3
    <3> HIDE DEF q
    <3> QED BY <1>1, <3>1 DEF TailRec
  <2>5. /\ \A k \in 1 .. Len(t.backlog) : t.backlog[k] = t.marker + k
        /\ Reached(t) <= t.next
        /\ \A j \in 1 .. Len(t.live) : Reached(t) <= t.live[j] /\ t.live[j] < t.next
        /\ \A j \in 1 .. Len(t.live) - 1 : t.live[j] < t.live[j + 1]
    BY <1>2 DEF Reading
  <2>6. Reached(u) = Reached(t)
    BY <2>2 DEF Reached
  <2>7. \A j \in 1 .. Len(t.live) : t.live[j] \in Nat
    BY <1>0, LinesNat
  <2> HIDE DEF u, t, q
  <2>8. Reading(u)
    <3>1. Reached(u) <= u.next
      BY <1>0, <2>2, <2>3, <2>5, <2>6
    <3>2. \A j \in 1 .. Len(u.live) : Reached(u) <= u.live[j] /\ u.live[j] < u.next
      BY <1>0, <2>2, <2>3, <2>5, <2>6, <2>7
    <3> QED BY <2>2, <2>5, <3>1, <3>2 DEF Reading
  <2>9. Follows(u)
    <3>1. u.pc \in {"live", "last"}
      BY <2>2 DEF t
    <3>2. u.next \in 1 .. Len(bus[u.bus].sent) + 1
      BY <2>2, <2>3 DEF q
    <3> QED BY <1>0, <1>2, <2>2, <2>8, <3>1, <3>2 DEF Follows
  <2>10. tail' = [tail EXCEPT ![s] = tail'[s]]
    BY <2>1
  <2> QED BY <2>1, <2>4, <2>9, <2>10, StreamStep
<1>4. CASE ~Lagging(t)
  <2> DEFINE u == [t EXCEPT !.next = t.next + 1, !.pc = "live", !.live = Append(t.live, q[t.next])]
             n == Len(t.live)
  <2>1. tail' = [tail EXCEPT ![s] = u] /\ tail'[s] = u
    BY <1>1, <1>4 DEF Take
  <2>2. /\ u.pc = "live" /\ u.bus = t.bus /\ u.next = t.next + 1 /\ u.marker = t.marker
        /\ u.backlog = t.backlog /\ u.live = Append(t.live, q[t.next]) /\ u.lagged = t.lagged
    BY <1>1 DEF TailRec
  <2>3. t.next \in 1 .. Len(q)
    <3> HIDE DEF q
    <3> QED BY <1>0
  <2>4. q[t.next] = t.next /\ q[t.next] \in Lines
    <3>1. t.bus = out
      <4>1. CASE t.bus # out
        BY <1>0, <2>3, <4>1 DEF Inv, OneWriter, EmptyBus
      <4> QED BY <4>1
    <3>2. Writing(bus[t.bus])
      BY <1>0, <3>1 DEF Inv, Writer
    <3>3. \A k \in 1 .. Len(q) : q[k] = k
      BY <3>2 DEF Writing
    <3> HIDE DEF q, t
    <3> QED BY <1>0, <2>3, <3>3, ElementOfSeq
  <2>5. /\ u.live \in Seq(Lines) /\ Len(u.live) = n + 1
        /\ \A j \in 1 .. n : u.live[j] = t.live[j]
        /\ u.live[n + 1] = t.next
    BY <1>0, <2>2, <2>4, AppendProperties
  <2>6. u \in TailRec
    <3>1. t.next + 1 \in Nat /\ Append(t.live, q[t.next]) \in Seq(Lines)
      BY <1>0, <2>2, <2>5
    <3> HIDE DEF q
    <3> QED BY <1>1, <3>1 DEF TailRec
  <2>7. /\ \A k \in 1 .. Len(t.backlog) : t.backlog[k] = t.marker + k
        /\ Reached(t) <= t.next
        /\ \A j \in 1 .. n : Reached(t) <= t.live[j] /\ t.live[j] < t.next
        /\ \A j \in 1 .. n - 1 : t.live[j] < t.live[j + 1]
    BY <1>2 DEF Reading
  <2>8. Reached(u) = Reached(t) /\ n \in Nat
    BY <1>0, <2>2 DEF Reached
  <2>9. \A j \in 1 .. n : t.live[j] \in Nat
    BY <1>0, LinesNat
  <2>10. \A j \in 1 .. n + 1 : (j \in 1 .. n /\ u.live[j] = t.live[j]) \/ (j = n + 1 /\ u.live[j] = t.next)
    <3> HIDE DEF n, u
    <3> QED BY <2>5, <2>8
  <2> HIDE DEF u, t, q
  <2>11. Reading(u)
    <3> HIDE DEF n
    <3>1. Reached(u) <= u.next
      BY <1>0, <2>2, <2>7, <2>8
    <3>2. ASSUME NEW j \in 1 .. Len(u.live) PROVE Reached(u) <= u.live[j] /\ u.live[j] < u.next
      <4>1. j \in 1 .. n + 1
        BY <2>5
      <4>2. CASE j \in 1 .. n /\ u.live[j] = t.live[j]
        BY <1>0, <2>2, <2>7, <2>8, <2>9, <4>2
      <4>3. CASE j = n + 1 /\ u.live[j] = t.next
        BY <1>0, <2>2, <2>7, <2>8, <4>3
      <4> QED BY <2>10, <4>1, <4>2, <4>3
    <3>3. ASSUME NEW j \in 1 .. Len(u.live) - 1 PROVE u.live[j] < u.live[j + 1]
      <4>1. j \in 1 .. n /\ u.live[j] = t.live[j]
        BY <2>5, <2>8
      <4>2. CASE j = n
        BY <2>5, <2>7, <4>1, <4>2
      <4>3. CASE j # n
        <5>1. j + 1 \in 1 .. n /\ j \in 1 .. n - 1
          BY <2>8, <4>1, <4>3
        <5> QED BY <2>5, <2>7, <4>1, <5>1
      <4> QED BY <4>2, <4>3
    <3> QED BY <2>2, <2>7, <3>1, <3>2, <3>3 DEF Reading
  <2>12. ASSUME ~u.lagged PROVE Gapless(u)
    <3>1. /\ t.next - n \in Reached(t) .. Reached(t) + 1
          /\ \A j \in 1 .. n : t.live[j] = t.next - n + j - 1
      BY <1>2, <2>2, <2>12 DEF Gapless
    <3> HIDE DEF n
    <3>2. u.next - Len(u.live) = t.next - n
      <4>1. u.next = t.next + 1 /\ Len(u.live) = n + 1 /\ t.next \in Nat /\ n \in Nat
        BY <1>0, <2>2, <2>5, <2>8
      <4> QED BY <4>1
    <3>3. ASSUME NEW j \in 1 .. Len(u.live) PROVE u.live[j] = u.next - Len(u.live) + j - 1
      <4>1. j \in 1 .. n + 1
        BY <2>5
      <4>2. CASE j \in 1 .. n /\ u.live[j] = t.live[j]
        BY <3>1, <3>2, <4>2
      <4>3. CASE j = n + 1 /\ u.live[j] = t.next
        BY <1>0, <2>8, <3>2, <4>3
      <4> QED BY <2>10, <4>1, <4>2, <4>3
    <3> QED BY <2>8, <3>1, <3>2, <3>3 DEF Gapless
  <2>13. Follows(u)
    <3>1. u.next \in 1 .. Len(bus[u.bus].sent) + 1
      <4>1. t.next + 1 \in 1 .. Len(q) + 1
        BY <1>0, <2>3
      <4> QED BY <2>2, <4>1 DEF q
    <3> QED BY <1>0, <1>2, <2>2, <2>11, <2>12, <3>1 DEF Follows
  <2>14. tail' = [tail EXCEPT ![s] = tail'[s]]
    BY <2>1
  <2> QED BY <2>1, <2>6, <2>13, <2>14, StreamStep
<1> QED BY <1>3, <1>4

(* recv in the stream's loop.                                               *)
LEMMA ReceiveKeeps ==
  ASSUME Inv, NEW s \in Streams, Receive(s)
  PROVE  Inv'
<1>1. Follows(tail[s])
  BY DEF Receive, Inv, Followers, Idle
<1> QED BY <1>1, TakeKeeps DEF Receive

(* A stream that changes where it stands and nothing it has read.           *)
LEMMA PcStep ==
  ASSUME Inv, NEW s \in Streams, Follows(tail[s]),
         UNCHANGED <<submit, build, err, current, made, bus, out, evict>>,
         NEW p \in {"live", "check", "last"}, p = "last" => out \in Buses /\ bus[out].done,
         tail' = [tail EXCEPT ![s].pc = p]
  PROVE  Inv'
<1> DEFINE t == tail[s]
           u == [t EXCEPT !.pc = p]
<1>1. tail \in [Streams -> TailRec] /\ t \in TailRec
  BY TailTyped
<1>2. tail' = [tail EXCEPT ![s] = u] /\ tail'[s] = u
  BY <1>1
<1>3. /\ u.pc = p /\ u.bus = t.bus /\ u.next = t.next /\ u.marker = t.marker
      /\ u.backlog = t.backlog /\ u.live = t.live /\ u.lagged = t.lagged
  BY <1>1 DEF TailRec
<1>4. u \in TailRec
  BY <1>1 DEF TailRec
<1> HIDE DEF u
<1>5. Follows(u)
  BY <1>3 DEF Follows, Reading, Gapless, Reached
<1>6. tail' = [tail EXCEPT ![s] = tail'[s]]
  BY <1>2
<1> QED BY <1>2, <1>4, <1>5, <1>6, StreamStep

(* A stream that ends.                                                      *)
LEMMA EndStep ==
  ASSUME Inv, NEW s \in Streams, Follows(tail[s]), Finished(tail[s].bus),
         UNCHANGED <<submit, build, err, current, made, bus, out, evict>>,
         NEW lagged \in BOOLEAN, tail[s].lagged => lagged, ~lagged => Unread(tail[s]) = 0,
         tail' = [tail EXCEPT ![s] = [tail[s] EXCEPT !.pc = "ended", !.lagged = lagged]]
  PROVE  Inv'
<1> DEFINE t == tail[s]
           u == [t EXCEPT !.pc = "ended", !.lagged = lagged]
<1>1. tail \in [Streams -> TailRec] /\ t \in TailRec
  BY TailTyped
<1>2. tail' = [tail EXCEPT ![s] = u] /\ tail'[s] = u
  BY <1>1
<1>3. /\ u.pc = "ended" /\ u.bus = t.bus /\ u.next = t.next /\ u.marker = t.marker
      /\ u.backlog = t.backlog /\ u.live = t.live /\ u.lagged = lagged
  BY <1>1 DEF TailRec
<1>4. u \in TailRec
  BY <1>1 DEF TailRec
<1>5. t.bus \in Buses /\ t.next \in Nat /\ Unread(t) = Len(bus[t.bus].sent) - t.next + 1
  BY FollowsFacts
<1>6. Printed(t.bus) <= Len(bus[t.bus].sent) /\ Len(bus[t.bus].sent) \in Nat
  BY <1>5, AllSent
<1>7. ASSUME ~lagged PROVE t.next - 1 >= Printed(t.bus)
  <2>1. t.next - 1 = Len(bus[t.bus].sent)
    BY <1>5, <1>6, <1>7
  <2>2. Printed(t.bus) <= Len(bus[t.bus].sent)
    BY <1>6
  <2> QED BY <2>1, <2>2
<1> HIDE DEF u
<1>8. Printed(u.bus) = Printed(t.bus) /\ Finished(u.bus)
  BY <1>3
<1>9. Follows(u)
  <2>1. Reading(u) /\ (~u.lagged => Gapless(u))
    BY <1>3 DEF Follows, Reading, Gapless, Reached
  <2>2. u.bus \in 1 .. made /\ u.bus \in Buses /\ u.next \in 1 .. Len(bus[u.bus].sent) + 1
    BY <1>3 DEF Follows
  <2>3. ~u.lagged => u.next - 1 >= Printed(u.bus) /\ Finished(u.bus)
    BY <1>3, <1>7, <1>8
  <2> QED BY <1>3, <2>1, <2>2, <2>3 DEF Follows
<1>10. tail' = [tail EXCEPT ![s] = tail'[s]]
  BY <1>2
<1> QED BY <1>2, <1>4, <1>9, <1>10, StreamStep

(* Every step of a stream's loop.                                           *)
LEMMA FollowingKeeps ==
  ASSUME Inv, NEW s \in Streams, Following(s)
  PROVE  Inv'
<1> DEFINE t == tail[s]
<1>1. Follows(t)
  BY DEF Following, Receive, Hangup, TimeOut, CheckDone, LastTry, Inv, Followers, Idle
<1>2. t \in TailRec /\ tail \in [Streams -> TailRec]
  BY TailTyped
<1>3. CASE Receive(s)
  BY <1>3, ReceiveKeeps
<1>4. CASE Hangup(s)
  <2>1. Finished(t.bus)
    BY <1>4 DEF Hangup, Closed, Finished
  <2>2. tail' = [tail EXCEPT ![s] = [t EXCEPT !.pc = "ended", !.lagged = t.lagged]]
    BY <1>2, <1>4 DEF Hangup, TailRec
  <2>3. t.lagged \in BOOLEAN
    BY <1>2 DEF TailRec
  <2> QED BY <1>1, <1>4, <2>1, <2>2, <2>3, EndStep DEF Hangup
<1>5. CASE TimeOut(s)
  BY <1>1, <1>5, PcStep DEF TimeOut
<1>6. CASE CheckDone(s)
  <2>1. CASE LogsDone
    <3>1. out \in Buses /\ bus[out].done
      <4>1. current \in Buses /\ bus[current].done
        BY <2>1 DEF LogsDone, Inv, TypeOK
      <4>2. EmptyBus.done = FALSE
        BY DEF EmptyBus
      <4>3. current = out
        BY <4>1, <4>2 DEF Inv, OneWriter
      <4> QED BY <4>1, <4>3
    <3>2. tail' = [tail EXCEPT ![s].pc = "last"]
      BY <1>6, <2>1 DEF CheckDone
    <3> QED BY <1>1, <1>6, <3>1, <3>2, PcStep DEF CheckDone
  <2>2. CASE ~LogsDone
    <3>1. tail' = [tail EXCEPT ![s].pc = "live"]
      BY <1>6, <2>2 DEF CheckDone
    <3> QED BY <1>1, <1>6, <3>1, PcStep DEF CheckDone
  <2> QED BY <2>1, <2>2
<1>7. CASE LastTry(s)
  <2>1. CASE Unread(t) > 0 /\ ~Lagging(t)
    BY <1>1, <1>7, <2>1, TakeKeeps DEF LastTry
  <2>2. CASE ~(Unread(t) > 0 /\ ~Lagging(t))
    <3> DEFINE lagged == t.lagged \/ Lagging(t)
    <3>1. tail' = [tail EXCEPT ![s] = [t EXCEPT !.pc = "ended", !.lagged = lagged]]
      <4>1. tail' = [tail EXCEPT ![s].pc = "ended", ![s].lagged = @ \/ Lagging(tail[s])]
        BY <1>7, <2>2, Zenon DEF LastTry
      <4> HIDE DEF t
      <4>2. tail' = [tail EXCEPT ![s] = [tail[s] EXCEPT !.pc = "ended", !.lagged = lagged]]
        BY <1>2, <4>1 DEF t
      <4> QED BY <4>2 DEF t
    <3>2. Finished(t.bus)
      BY <1>1, <1>7 DEF LastTry, Follows, Finished
    <3>3. ~lagged => Unread(t) = 0
      <4>1. Unread(t) \in Nat
        BY <1>1, FollowsFacts
      <4> QED BY <2>2, <4>1
    <3>4. lagged \in BOOLEAN /\ (t.lagged => lagged)
      OBVIOUS
    <3> QED BY <1>1, <1>7, <3>1, <3>2, <3>3, <3>4, EndStep DEF LastTry
  <2> QED BY <2>1, <2>2
<1> QED BY <1>3, <1>4, <1>5, <1>6, <1>7 DEF Following

-----------------------------------------------------------------------------
(* The invariant *)

(* No bus, no line, no reader.                                              *)
LEMMA InitInv == Init => Inv
<1> SUFFICES ASSUME Init PROVE Inv
  OBVIOUS
<1> USE DEF Init
<1>1. EmptyBus \in BusRec /\ Exact(EmptyBus)
  BY EmptyExact
<1>2. NewTail \in TailRec /\ NewTail.pc = "new" /\ Idle(NewTail)
  <2>1. <<>> \in Seq(Lines)
    OBVIOUS
  <2> QED BY <2>1 DEF NewTail, TailRec, Idle
<1>3. bus \in [Buses -> BusRec] /\ tail \in [Streams -> TailRec]
  BY <1>1, <1>2
<1>4. TypeOK
  <2>1. NoBus \in Buses \cup {NoBus} /\ 0 \in 0 .. 2 /\ FALSE \in BOOLEAN
    OBVIOUS
  <2> HIDE DEF Init
  <2>2. bus \in [Buses -> BusRec] /\ tail \in [Streams -> TailRec]
    BY <1>3
  <2>3. /\ submit = "start" /\ build = "none" /\ err = FALSE /\ current = NoBus /\ made = 0
        /\ out = NoBus /\ evict = "kept"
    BY DEF Init
  <2> QED BY <2>1, <2>2, <2>3 DEF TypeOK, BusRec, TailRec
<1>5. Rings /\ BusesMade /\ OneWriter /\ Writer
  BY <1>1 DEF Rings, BusesMade, OneWriter, Writer, Buses, NoBus
<1>6. Followers
  BY <1>2 DEF Followers
<1> QED BY <1>4, <1>5, <1>6 DEF Inv

(* Every step of submit, the build task, eviction and the streams.          *)
LEMMA NextKeeps == Inv /\ [Next]_vars => Inv'
<1> SUFFICES ASSUME Inv, [Next]_vars PROVE Inv'
  OBVIOUS
<1>1. ASSUME Control', Grows PROVE Inv'
  BY <1>1, FollowersKept DEF Control, Inv
<1>2. CASE Submitting
  BY <1>1, <1>2, SubmitRecordKeeps, SubmitBusKeeps DEF Submitting
<1>3. CASE Building
  BY <1>1, <1>3, FailProvisionKeeps, FailLookupKeeps, FailSendKeeps, BuildBusKeeps, PrintLineKeeps,
     PrintLineSendKeeps, BuildReturnsKeeps, RecordOkKeeps, RecordErrKeeps, RecordErrSendKeeps,
     TeardownDoneKeeps DEF Building
<1>4. CASE Evicting
  BY <1>1, <1>4, EvictRecordKeeps, EvictBusKeeps DEF Evicting
<1>5. ASSUME NEW s \in Streams, Subscribe(s) PROVE Inv'
  BY <1>5, SubscribeKeeps
<1>6. ASSUME NEW s \in Streams, Following(s) PROVE Inv'
  BY <1>6, FollowingKeeps
<1>7. CASE UNCHANGED vars
  <2>1. UNCHANGED <<submit, build, err, current, made, bus, out, evict, tail>>
    BY <1>7 DEF vars
  <2>2. TypeOK'
    BY <2>1 DEF Inv, TypeOK
  <2>3. Rings' /\ BusesMade' /\ OneWriter' /\ Writer'
    BY <2>1 DEF Inv, Rings, BusesMade, OneWriter, Writer, Writing
  <2>4. Followers'
    BY <2>1 DEF Inv, Followers, Idle, Follows, Finished, Printed
  <2> QED BY <2>2, <2>3, <2>4 DEF Inv
<1> QED BY <1>2, <1>3, <1>4, <1>5, <1>6, <1>7 DEF Next

(* In every reachable state the buses, the build task's place in push and   *)
(* mark_done and every stream's place in the log fit together as above.     *)
THEOREM Invariant == Spec => []Inv
<1> QED BY InitInv, NextKeeps, PTL DEF Spec

-----------------------------------------------------------------------------
(* What follows from it *)

(* Every step of submit, of the build task, of eviction and of a stream     *)
(* keeps the buses, the streams and the program positions well formed, and  *)
(* a task that writes a log holds a bus that was created.                   *)
THEOREM TypeCorrect == Spec => []TypeOK
<1>1. Inv => TypeOK
  BY DEF Inv
<1> QED BY <1>1, Invariant, PTL

(* After every LogBus::push the ring keeps its two bounds, and its byte and *)
(* dropped counts are exact for lines of any length.                        *)
THEOREM RingExactCorrect == Spec => []RingExact
<1>1. Inv => RingExact
  BY ExactRing DEF Inv, Rings
<1> QED BY <1>1, Invariant, PTL

(* What a client has read, line by line.                                    *)
LEMMA GotLines ==
  ASSUME NEW t \in TailRec
  PROVE  /\ t.backlog \in Seq(Lines) /\ t.live \in Seq(Lines) /\ t.marker \in Nat /\ t.next \in Nat
         /\ Len(t.backlog) \in Nat /\ Len(t.live) \in Nat
         /\ Got(t) \in Seq(Lines) /\ Len(Got(t)) = Len(t.backlog) + Len(t.live)
         /\ \A k \in 1 .. Len(t.backlog) : Got(t)[k] = t.backlog[k]
         /\ \A j \in 1 .. Len(t.live) : Got(t)[Len(t.backlog) + j] = t.live[j]
         /\ \A j \in 1 .. Len(t.live) : t.live[j] \in Nat
<1>1. t.backlog \in Seq(Lines) /\ t.live \in Seq(Lines) /\ t.marker \in Nat /\ t.next \in Nat
  BY DEF TailRec
<1> DEFINE b == t.backlog
           l == t.live
<1> HIDE DEF b, l
<1>2. b \in Seq(Lines) /\ l \in Seq(Lines)
  BY <1>1 DEF b, l
<1>3. Len(b) \in Nat /\ Len(l) \in Nat /\ \A j \in 1 .. Len(l) : l[j] \in Nat
  BY <1>2, LenProperties, LinesNat
<1>4. /\ b \o l \in Seq(Lines) /\ Len(b \o l) = Len(b) + Len(l)
      /\ \A k \in 1 .. Len(b) + Len(l) : (b \o l)[k] = IF k <= Len(b) THEN b[k] ELSE l[k - Len(b)]
  BY <1>2, ConcatProperties
<1>5. \A k \in 1 .. Len(b) : (b \o l)[k] = b[k]
  BY <1>3, <1>4
<1>6. ASSUME NEW j \in 1 .. Len(l) PROVE (b \o l)[Len(b) + j] = l[j]
  <2>1. Len(b) + j \in 1 .. Len(b) + Len(l) /\ ~(Len(b) + j <= Len(b)) /\ (Len(b) + j) - Len(b) = j
    BY <1>3
  <2> QED BY <1>4, <2>1
<1> QED BY <1>1, <1>3, <1>4, <1>5, <1>6 DEF Got, b, l

InOrder(t) ==
    \A k \in 1 .. Len(Got(t)) - 1 :
      \/ Got(t)[k] < Got(t)[k + 1]
      \/ Got(t)[k] = Got(t)[k + 1] /\ k = Len(t.backlog)

NoGap(t) ==
    \A k \in 1 .. Len(Got(t)) : Got(t)[k] <= 1 + (IF k = 1 THEN t.marker ELSE Got(t)[k - 1])

(* A stream that follows no bus has read nothing.                           *)
LEMMA IdleReads ==
  ASSUME NEW t \in TailRec, Idle(t)
  PROVE  InOrder(t) /\ NoGap(t)
<1>1. t.backlog = <<>> /\ t.live = <<>> /\ Len(<<>>) = 0
  BY DEF Idle, NewTail
<1>2. Len(Got(t)) = 0
  <2>1. Len(Got(t)) = Len(t.backlog) + Len(t.live)
    BY GotLines
  <2>2. Len(t.backlog) = 0 /\ Len(t.live) = 0
    BY <1>1
  <2> QED BY <2>1, <2>2
<1> QED BY <1>2 DEF InOrder, NoGap

(* A backlog and the live lines after it are in order.                      *)
LEMMA ReadingInOrder ==
  ASSUME NEW t \in TailRec, Reading(t)
  PROVE  InOrder(t)
<1> DEFINE m == Len(t.backlog)
           n == Len(t.live)
           got == Got(t)
<1>1. /\ m \in Nat /\ n \in Nat /\ Len(got) = m + n /\ t.marker \in Nat
      /\ \A k \in 1 .. m : got[k] = t.backlog[k]
      /\ \A j \in 1 .. n : got[m + j] = t.live[j]
      /\ \A j \in 1 .. n : t.live[j] \in Nat
  BY GotLines
<1>2. /\ \A k \in 1 .. m : t.backlog[k] = t.marker + k
      /\ \A j \in 1 .. n : t.marker + m <= t.live[j]
      /\ \A j \in 1 .. n - 1 : t.live[j] < t.live[j + 1]
  BY DEF Reading, Reached
<1>a. InOrder(t) <=> \A k \in 1 .. Len(got) - 1 :
                       got[k] < got[k + 1] \/ (got[k] = got[k + 1] /\ k = m)
  BY DEF InOrder
<1> HIDE DEF m, n, got
<1> SUFFICES ASSUME NEW k \in 1 .. m + n - 1
             PROVE  got[k] < got[k + 1] \/ (got[k] = got[k + 1] /\ k = m)
  BY <1>1, <1>a
<1>3. CASE k < m
  <2>1. k \in 1 .. m /\ k + 1 \in 1 .. m
    BY <1>1, <1>3
  <2>2. got[k] = t.marker + k /\ got[k + 1] = t.marker + (k + 1)
    BY <1>1, <1>2, <2>1
  <2> QED BY <1>1, <2>2
<1>4. CASE k = m
  <2>1. m \in 1 .. m /\ 1 \in 1 .. n
    BY <1>1, <1>4
  <2>2. got[k] = t.marker + m /\ got[k + 1] = t.live[1] /\ t.live[1] \in Nat /\ t.marker + m <= t.live[1]
    BY <1>1, <1>2, <1>4, <2>1
  <2> QED BY <1>1, <1>4, <2>2
<1>5. CASE k > m
  <2> DEFINE j == k - m
  <2>1. j \in 1 .. n - 1 /\ j \in 1 .. n /\ j + 1 \in 1 .. n /\ m + j = k /\ m + (j + 1) = k + 1
    BY <1>1, <1>5
  <2> HIDE DEF j
  <2>2. got[m + j] = t.live[j] /\ got[m + (j + 1)] = t.live[j + 1] /\ t.live[j] < t.live[j + 1]
    BY <1>1, <1>2, <2>1
  <2> QED BY <2>1, <2>2
<1> QED BY <1>1, <1>3, <1>4, <1>5

(* A stream that was never overrun has read every line up to the next one.  *)
LEMMA GaplessReads ==
  ASSUME NEW t \in TailRec, Reading(t), Gapless(t)
  PROVE  NoGap(t) /\ Delivered(t) \in Nat /\ Delivered(t) >= t.next - 1
<1> DEFINE m == Len(t.backlog)
           n == Len(t.live)
           got == Got(t)
<1>1. /\ m \in Nat /\ n \in Nat /\ Len(got) = m + n /\ t.marker \in Nat /\ t.next \in Nat
      /\ \A k \in 1 .. m : got[k] = t.backlog[k]
      /\ \A j \in 1 .. n : got[m + j] = t.live[j]
      /\ got \in Seq(Lines)
  BY GotLines
<1>2. /\ \A k \in 1 .. m : t.backlog[k] = t.marker + k
      /\ t.next - n \in t.marker + m .. t.marker + m + 1
      /\ \A j \in 1 .. n : t.live[j] = t.next - n + j - 1
  BY DEF Reading, Gapless, Reached
<1>3. Delivered(t) = IF got = <<>> THEN t.marker ELSE got[Len(got)]
  BY DEF Delivered
<1>4. NoGap(t) <=> \A k \in 1 .. Len(got) : got[k] <= 1 + (IF k = 1 THEN t.marker ELSE got[k - 1])
  BY DEF NoGap
<1> HIDE DEF m, n, got
<1>5. ASSUME NEW k \in 1 .. m + n PROVE got[k] <= 1 + (IF k = 1 THEN t.marker ELSE got[k - 1])
  <2>1. CASE k <= m
    <3>1. k \in 1 .. m /\ got[k] = t.marker + k
      BY <1>1, <1>2, <2>1
    <3>2. CASE k = 1
      BY <1>1, <3>1, <3>2
    <3>3. CASE k # 1
      <4>1. k - 1 \in 1 .. m /\ got[k - 1] = t.marker + (k - 1)
        BY <1>1, <1>2, <3>1, <3>3
      <4> QED BY <1>1, <3>1, <3>3, <4>1
    <3> QED BY <3>2, <3>3
  <2>2. CASE k > m
    <3> DEFINE j == k - m
    <3>1. j \in 1 .. n /\ m + j = k
      BY <1>1, <2>2
    <3> HIDE DEF j
    <3>2. got[k] = t.next - n + j - 1
      BY <1>1, <1>2, <3>1
    <3>3. CASE k = 1
      <4>1. m = 0 /\ j = 1
        BY <1>1, <2>2, <3>1, <3>3
      <4> QED BY <1>1, <1>2, <3>2, <3>3, <4>1
    <3>4. CASE k # 1 /\ j = 1
      <4>1. m \in 1 .. m /\ k - 1 = m
        BY <1>1, <3>1, <3>4
      <4>2. got[k - 1] = t.marker + m
        BY <1>1, <1>2, <4>1
      <4> QED BY <1>1, <1>2, <3>2, <3>4, <4>2
    <3>5. CASE j # 1
      <4>1. j - 1 \in 1 .. n /\ k - 1 = m + (j - 1) /\ k # 1
        BY <1>1, <3>1, <3>5
      <4>2. got[k - 1] = t.next - n + (j - 1) - 1
        BY <1>1, <1>2, <4>1
      <4> QED BY <1>1, <3>1, <3>2, <4>1, <4>2
    <3> QED BY <3>3, <3>4, <3>5
  <2> QED BY <1>1, <2>1, <2>2
<1>6. Delivered(t) \in Nat /\ Delivered(t) >= t.next - 1
  <2>1. CASE m + n = 0
    <3>1. got = <<>>
      BY <1>1, <2>1, EmptySeq
    <3> QED BY <1>1, <1>2, <1>3, <2>1, <3>1
  <2>2. CASE m + n # 0
    <3>1. got # <<>> /\ Delivered(t) = got[m + n]
      BY <1>1, <1>3, <2>2
    <3>2. CASE n # 0
      <4>1. n \in 1 .. n
        BY <1>1, <3>2
      <4>2. got[m + n] = t.next - n + n - 1
        BY <1>1, <1>2, <4>1
      <4>3. t.next - n + n - 1 = t.next - 1 /\ t.next - 1 \in Nat
        <5>1. /\ t.next \in Nat /\ n \in Nat /\ m \in Nat /\ t.marker \in Nat /\ n >= 1
              /\ t.next - n \in t.marker + m .. t.marker + m + 1
          BY <1>1, <1>2, <4>1
        <5>2. t.next - n >= 0
          BY <5>1
        <5> QED BY <5>1, <5>2
      <4>4. Delivered(t) = t.next - 1
        BY <3>1, <4>2, <4>3
      <4> QED BY <4>3, <4>4
    <3>3. CASE n = 0
      <4>1. m \in 1 .. m /\ m + n = m
        BY <1>1, <2>2, <3>3
      <4>2. got[m + n] = t.marker + m
        BY <1>1, <1>2, <4>1
      <4> QED BY <1>1, <1>2, <3>1, <3>3, <4>2
    <3> QED BY <3>2, <3>3
  <2> QED BY <2>1, <2>2
<1> QED BY <1>1, <1>4, <1>5, <1>6

(* The invariant gives the three promises to a client.                      *)
LEMMA InvReadsAll == Inv => ClientReadsAll
<1> SUFFICES ASSUME Inv PROVE ClientReadsAll
  OBVIOUS
<1>1. ASSUME NEW s \in Streams
      PROVE  /\ InOrder(tail[s])
             /\ tail[s].pc # "new" /\ ~tail[s].lagged => NoGap(tail[s])
             /\ tail[s].pc = "ended" /\ ~tail[s].lagged
                => Delivered(tail[s]) >= Printed(tail[s].bus)
  <2> DEFINE t == tail[s]
  <2>1. t \in TailRec
    BY TailTyped
  <2>2. CASE Idle(t)
    <3>1. t.pc # "ended"
      BY <2>2 DEF Idle
    <3> QED BY <2>1, <2>2, <3>1, IdleReads
  <2>3. CASE Follows(t)
    <3>1. Reading(t) /\ (~t.lagged => Gapless(t)) /\ t.bus \in Buses /\ t.next \in Nat
      BY <2>1, <2>3 DEF Follows, TailRec
    <3>2. Printed(t.bus) \in Int
      <4>1. bus[t.bus].pushed \in Nat
        BY <3>1, BusTyped DEF Inv, BusesTyped
      <4> QED BY <4>1 DEF Printed
    <3>3. InOrder(t)
      BY <2>1, <3>1, ReadingInOrder
    <3>4. ASSUME ~t.lagged
          PROVE  NoGap(t) /\ Delivered(t) \in Nat /\ Delivered(t) >= t.next - 1
      BY <2>1, <3>1, <3>4, GaplessReads
    <3>5. ASSUME t.pc = "ended", ~t.lagged PROVE Delivered(t) >= Printed(t.bus)
      <4>1. t.next - 1 >= Printed(t.bus)
        BY <2>3, <3>5 DEF Follows
      <4> QED BY <3>1, <3>2, <3>4, <3>5, <4>1
    <3> QED BY <3>3, <3>4, <3>5
  <2> QED BY <2>2, <2>3 DEF Inv, Followers
<1>2. StreamInOrder
  BY <1>1 DEF StreamInOrder, InOrder
<1>3. GapFree
  BY <1>1 DEF GapFree, NoGap
<1>4. CompleteAtEnd
  BY <1>1 DEF CompleteAtEnd
<1> QED BY <1>2, <1>3, <1>4 DEF ClientReadsAll

(* What GET /v1/jobs/:id/logs sends is the log in order, without a gap      *)
(* where the backlog meets the live lines, and, when the stream ends, to    *)
(* its end: however push, mark_done, eviction and the stream's time-out     *)
(* interleave.                                                              *)
THEOREM ClientReadsAllCorrect == Spec => []ClientReadsAll
BY Invariant, InvReadsAll, PTL
=============================================================================
