-------------------------- MODULE TenantQueueProofs --------------------------
(***************************************************************************)
(* Proofs about a tenant's queue, for any number of messages and of nodes  *)
(* that serve and push it at once, and any interleaving of clients,        *)
(* delivery loops, mirror writes that land or fail and restarts: the       *)
(* types, honest attempt counts, no message lost, one consumer on a node.  *)
(***************************************************************************)
EXTENDS TenantQueue, TLAPS, FiniteSetTheorems, FunctionTheorems, SequenceTheorems

-----------------------------------------------------------------------------
(* What Subsequences keeps of a log: the type of its messages, which        *)
(* messages, and one copy of each.                                          *)

(* Every position of J comes up once. *)
LEMMA NthBijects ==
    ASSUME NEW J \in SUBSET Int, IsFiniteSet(J)
    PROVE  /\ Cardinality(J) \in Nat
           /\ \A k \in 1 .. Cardinality(J) : Nth(J, k) \in J
           /\ \A k, l \in 1 .. Cardinality(J) : Nth(J, k) = Nth(J, l) => k = l
           /\ \A i \in J : \E k \in 1 .. Cardinality(J) : i = Nth(J, k)
<1> DEFINE Below(i) == {j \in J : j < i}
           n == Cardinality(J)
           f == [i \in J |-> Cardinality(Below(i)) + 1]
<1>1. n \in Nat
  BY FS_CardinalityType
<1>2. ASSUME NEW i \in J
      PROVE  /\ IsFiniteSet(Below(i)) /\ Cardinality(Below(i)) \in Nat
             /\ Cardinality(Below(i)) + 1 \in 1 .. n
  <2>1. IsFiniteSet(Below(i)) /\ Cardinality(Below(i)) \in Nat /\ Cardinality(Below(i)) <= n
    BY FS_Subset, FS_CardinalityType
  <2>2. Cardinality(Below(i)) # n
    BY FS_Subset
  <2> HIDE DEF Below, n
  <2> QED BY <1>1, <2>1, <2>2
<1>3. ASSUME NEW i \in J, NEW j \in J, i < j
      PROVE  Cardinality(Below(i)) < Cardinality(Below(j))
  <2>1. Below(i) \subseteq Below(j) /\ i \in Below(j) /\ i \notin Below(i)
    <3>1. \A x \in J : x \in Int
      OBVIOUS
    <3>2. \A x \in J : x < i => x < j
      BY <1>3, <3>1
    <3>3. ~(i < i)
      BY <3>1
    <3> QED BY <1>3, <3>2, <3>3
  <2>2. Cardinality(Below(i)) <= Cardinality(Below(j)) /\ Cardinality(Below(i)) # Cardinality(Below(j))
    BY <1>2, <2>1, FS_Subset
  <2> QED BY <1>2, <2>2
<1>4. f \in Injection(J, 1 .. n)
  <2>1. f \in [J -> 1 .. n]
    BY <1>2
  <2>2. ASSUME NEW i \in J, NEW j \in J, f[i] = f[j] PROVE i = j
    <3>1. Cardinality(Below(i)) = Cardinality(Below(j))
      BY <1>2, <2>2
    <3> QED BY <1>2, <1>3, <3>1
  <2> QED BY <2>1, <2>2 DEF Injection, IsInjective
<1>5. f \in Surjection(J, 1 .. n)
  <2>1. IsFiniteSet(1 .. n) /\ Cardinality(1 .. n) = n
    BY <1>1, FS_Interval
  <2> HIDE DEF f
  <2> QED BY <1>4, <2>1, FS_Injection
<1>6. ASSUME NEW k \in 1 .. n
      PROVE  Nth(J, k) \in J /\ f[Nth(J, k)] = k
  <2>1. PICK i \in J : f[i] = k
    BY <1>5 DEF Surjection
  <2>2. Cardinality(Below(i)) = k - 1
    BY <1>2, <2>1
  <2>3. Nth(J, k) \in J /\ Cardinality(Below(Nth(J, k))) = k - 1
    BY <2>2 DEF Nth
  <2> QED BY <1>2, <2>3
<1>7. ASSUME NEW i \in J PROVE f[i] \in 1 .. n /\ Nth(J, f[i]) = i
  BY <1>4, <1>6 DEF Injection, IsInjective
<1> HIDE DEF f
<1> QED BY <1>1, <1>6, <1>7

(* What a filter leaves of a sequence over S is a sequence over S.          *)
LEMMA PickedSeq ==
    ASSUME NEW S, NEW s \in Seq(S), NEW J \in SUBSET DOMAIN s
    PROVE  Picked(s, J) \in Seq(S)
<1>1. DOMAIN s = 1 .. Len(s) /\ Len(s) \in Nat /\ \A i \in 1 .. Len(s) : s[i] \in S
  BY LenProperties, ElementOfSeq
<1>2. IsFiniteSet(J) /\ J \in SUBSET Int
  <2>1. IsFiniteSet(1 .. Len(s)) /\ J \in SUBSET (1 .. Len(s))
    BY <1>1, FS_Interval
  <2>2. IsFiniteSet(J)
    BY <2>1, FS_Subset
  <2> QED BY <2>1, <2>2
<1>3. /\ Cardinality(J) \in Nat
      /\ \A k \in 1 .. Cardinality(J) : s[Nth(J, k)] \in S
  BY <1>1, <1>2, NthBijects
<1> DEFINE n == Cardinality(J)
           e(k) == s[Nth(J, k)]
<1>4. n \in Nat /\ \A k \in 1 .. n : e(k) \in S
  BY <1>3
<1> HIDE DEF n, e
<1>5. [k \in 1 .. n |-> e(k)] \in Seq(S)
  BY <1>4, IsASeq
<1> QED BY <1>5 DEF Picked, n, e

(* The elements of Picked(s, J) are those at the positions J, each once.    *)
LEMMA PickedElements ==
    ASSUME NEW S, NEW s \in Seq(S), NEW J \in SUBSET DOMAIN s
    PROVE  /\ \A k \in DOMAIN Picked(s, J) : \E i \in J : Picked(s, J)[k] = s[i]
           /\ \A i \in J : \E k \in DOMAIN Picked(s, J) : Picked(s, J)[k] = s[i]
           /\ \A k, l \in DOMAIN Picked(s, J) :
                 k # l => \E i, j \in J : /\ i # j
                                          /\ Picked(s, J)[k] = s[i] /\ Picked(s, J)[l] = s[j]
<1>1. IsFiniteSet(J) /\ J \in SUBSET Int
  <2>1. DOMAIN s = 1 .. Len(s) /\ Len(s) \in Nat
    BY LenProperties
  <2>2. IsFiniteSet(1 .. Len(s)) /\ J \in SUBSET (1 .. Len(s))
    BY <2>1, FS_Interval
  <2> QED BY <2>1, <2>2, FS_Subset
<1> DEFINE n == Cardinality(J)
           P == Picked(s, J)
<1>2. DOMAIN P = 1 .. n /\ \A k \in 1 .. n : P[k] = s[Nth(J, k)]
  BY DEF Picked
<1>3. /\ \A k \in 1 .. n : Nth(J, k) \in J
      /\ \A k, l \in 1 .. n : Nth(J, k) = Nth(J, l) => k = l
      /\ \A i \in J : \E k \in 1 .. n : i = Nth(J, k)
  BY <1>1, NthBijects
<1> HIDE DEF n, P
<1>4. \A k \in DOMAIN P : \E i \in J : P[k] = s[i]
  BY <1>2, <1>3
<1>5. \A i \in J : \E k \in DOMAIN P : P[k] = s[i]
  BY <1>2, <1>3
<1>6. ASSUME NEW k \in DOMAIN P, NEW l \in DOMAIN P, k # l
      PROVE  \E i, j \in J : i # j /\ P[k] = s[i] /\ P[l] = s[j]
  BY <1>2, <1>3, <1>6
<1> QED BY <1>4, <1>5, <1>6 DEF P

-----------------------------------------------------------------------------
(* A copy of m that counts k attempts is honest: m was sent, and each       *)
(* attempt was an offer (S and o stand for sent and offers).                *)
Honest(S, o, m, k) ==
    /\ m \in S /\ k \in 0 .. MaxAttempts - 1
    /\ AtMost(k, Enough) <= o[m]

HonestLog(S, o, s) ==
    s \in Seq(Copy) /\ \A i \in DOMAIN s : Honest(S, o, s[i].id, s[i].attempts)

(* The logs of one node, and of all.                                        *)
NodeGood(S, o, l) ==
    DOMAIN l = Queues /\ l = [q \in Queues |-> l[q]] /\ \A q \in Queues : HonestLog(S, o, l[q])

LogsGood(S, o, l) ==
    DOMAIN l = Nodes /\ l = [n \in Nodes |-> l[n]] /\ \A n \in Nodes : NodeGood(S, o, l[n])

MirrorGood(S, o, k) ==
    /\ k \in [Queues -> [Msgs -> 0 .. MaxAttempts \cup {Absent}]]
    /\ \A q \in Queues, m \in Msgs : k[q][m] # Absent => Honest(S, o, m, k[q][m])

OpGood(S, o, w) ==
    /\ w \in OpRecord /\ w.id \in S
    /\ w.kind = "put" => Honest(S, o, w.id, w.attempts)

OpsGood(S, o, p) == \A w \in p : OpGood(S, o, w)

(* What a loop holds was offered once more than the log counted.            *)
BatchGood(S, o, b) ==
    /\ b \in Seq(Copy)
    /\ \A i \in DOMAIN b : b[i].id \in S /\ AtMost(b[i].attempts, Enough) <= o[b[i].id]

LoopGood(S, o, l) ==
    /\ l \in LoopRecord
    /\ BatchGood(S, o, l.batch)
    /\ l.at # "await" => l.batch = <<>>
    /\ l.at \in {"take", "await"} => l.queue = Main

LoopsGood(S, o, l) ==
    DOMAIN l = Nodes /\ l = [n \in Nodes |-> l[n]] /\ \A n \in Nodes : LoopGood(S, o, l[n])

(* What a loop gave up was offered more often than max_retries.             *)
GivenUpGood(S, o, g) == \A m \in g : m \in S /\ o[m] > MaxRetries

OffersOK(S, o) == S \subseteq Msgs /\ o \in [Msgs -> 0 .. Enough]

Rest == /\ target \in DeadLetters
        /\ synced \in [Nodes -> [Queues -> BOOLEAN]]
        /\ api \in [Nodes -> [Queues -> SUBSET Msgs]]
        /\ raced \in [Nodes -> BOOLEAN]
        /\ ended \subseteq sent /\ exposed \subseteq sent /\ forgotten \subseteq sent
        /\ faults \in 0 .. MaxFaults

CountsInv ==
    /\ OffersOK(sent, offers) /\ Rest /\ GivenUpGood(sent, offers, givenUp)
    /\ LogsGood(sent, offers, log) /\ MirrorGood(sent, offers, kv)
    /\ OpsGood(sent, offers, ops) /\ LoopsGood(sent, offers, loop)

----------------------------------------------------------------------------
(* Numbers.                                                                 *)

LEMMA Bounds ==
    /\ Enough \in Nat /\ Enough = MaxRetries + 1 /\ MaxRetries \in Nat
    /\ MaxAttempts \in Nat /\ MaxPulls \in Nat /\ MaxPulls <= MaxAttempts - 1
    /\ Enough <= MaxAttempts - 1
    /\ Main \in Queues /\ Dlq \in Queues /\ Main # Dlq /\ Queues = {Main, Dlq}
    /\ Leaders \subseteq Nodes /\ Primaries \subseteq Nodes
    /\ None \notin Queues /\ DeadLetters \subseteq Queues \cup {None}
BY TenantQueueAssumption DEF Enough, MaxAttempts, Queues

LEMMA Counts ==
    ASSUME NEW k \in Nat, NEW e \in Nat
    PROVE  /\ AtMost(k, e) \in 0 .. e
           /\ AtMost(k, e) <= k
           /\ \A n \in Nat : AtMost(k, e) <= n => AtMost(k + 1, e) <= AtMost(n + 1, e)
           /\ k >= e => AtMost(k, e) = e
BY DEF AtMost

(* The history only grows.                                                  *)
Grow(S, o, S2, o2) == S \subseteq S2 /\ \A m \in Msgs : o[m] <= o2[m]

LEMMA HonestGrows ==
    ASSUME NEW S, NEW o, NEW S2, NEW o2, OffersOK(S, o), OffersOK(S2, o2), Grow(S, o, S2, o2),
           NEW m, NEW k, Honest(S, o, m, k)
    PROVE  Honest(S2, o2, m, k)
<1> DEFINE x == o[m]
           y == o2[m]
           a == AtMost(k, Enough)
<1>1. m \in Msgs /\ m \in S2 /\ k \in 0 .. MaxAttempts - 1 /\ a <= x
  BY DEF Honest, OffersOK, Grow
<1>2. x \in 0 .. Enough /\ y \in 0 .. Enough /\ x <= y
  BY <1>1 DEF OffersOK, Grow
<1>3. k \in Nat
  BY <1>1, Bounds
<1>4. a \in 0 .. Enough
  BY <1>3, Bounds, Counts
<1> HIDE DEF x, y, a
<1>5. a <= y
  BY <1>1, <1>2, <1>4, Bounds
<1> QED BY <1>1, <1>5 DEF Honest, a, y

LEMMA GoodGrows ==
    ASSUME NEW S, NEW o, NEW S2, NEW o2, OffersOK(S, o), OffersOK(S2, o2), Grow(S, o, S2, o2)
    PROVE  /\ \A l : LogsGood(S, o, l) => LogsGood(S2, o2, l)
           /\ \A k : MirrorGood(S, o, k) => MirrorGood(S2, o2, k)
           /\ \A p : OpsGood(S, o, p) => OpsGood(S2, o2, p)
           /\ \A b : BatchGood(S, o, b) => BatchGood(S2, o2, b)
           /\ \A l : LoopsGood(S, o, l) => LoopsGood(S2, o2, l)
           /\ \A g : GivenUpGood(S, o, g) => GivenUpGood(S2, o2, g)
<1>1. \A m, k : Honest(S, o, m, k) => Honest(S2, o2, m, k)
  BY HonestGrows
<1>2. ASSUME NEW l, LogsGood(S, o, l) PROVE LogsGood(S2, o2, l)
  BY <1>1, <1>2 DEF LogsGood, NodeGood, HonestLog
<1>3. ASSUME NEW k, MirrorGood(S, o, k) PROVE MirrorGood(S2, o2, k)
  BY <1>1, <1>3 DEF MirrorGood
<1>4. ASSUME NEW p, OpsGood(S, o, p) PROVE OpsGood(S2, o2, p)
  BY <1>1, <1>4 DEF OpsGood, OpGood, Grow
<1>5. ASSUME NEW b, BatchGood(S, o, b) PROVE BatchGood(S2, o2, b)
  <2> SUFFICES ASSUME NEW i \in DOMAIN b
               PROVE  b[i].id \in S2 /\ AtMost(b[i].attempts, Enough) <= o2[b[i].id]
    BY <1>5 DEF BatchGood
  <2> DEFINE m == b[i].id
             k == b[i].attempts
  <2>1. b[i] \in Copy
    BY <1>5, ElementOfSeq DEF BatchGood
  <2>2. m \in S /\ AtMost(k, Enough) <= o[m] /\ k \in 0 .. MaxAttempts
    BY <1>5, <2>1 DEF BatchGood, Copy
  <2>3. k \in Nat /\ AtMost(k, Enough) \in 0 .. Enough
    <3>1. k \in Nat
      BY <2>2, Bounds
    <3> QED BY <3>1, Bounds, Counts
  <2> DEFINE a == AtMost(k, Enough)
             x == o[m]
             y == o2[m]
  <2>4. x \in 0 .. Enough /\ y \in 0 .. Enough /\ x <= y /\ m \in S2
    BY <2>2 DEF OffersOK, Grow
  <2>5. a \in 0 .. Enough /\ a <= x
    BY <2>2, <2>3
  <2> HIDE DEF a, x, y
  <2>6. a <= y
    BY <2>4, <2>5, Bounds
  <2> QED BY <2>4, <2>6 DEF a, y
<1>6. ASSUME NEW l, LoopGood(S, o, l) PROVE LoopGood(S2, o2, l)
  BY <1>5, <1>6 DEF LoopGood
<1>7. ASSUME NEW l, LoopsGood(S, o, l) PROVE LoopsGood(S2, o2, l)
  BY <1>6, <1>7 DEF LoopsGood
<1>8. ASSUME NEW g, GivenUpGood(S, o, g) PROVE GivenUpGood(S2, o2, g)
  <2> SUFFICES ASSUME NEW m \in g PROVE m \in S2 /\ o2[m] > MaxRetries
    BY DEF GivenUpGood
  <2> DEFINE x == o[m]
             y == o2[m]
  <2>1. m \in S2 /\ x > MaxRetries /\ x \in 0 .. Enough /\ y \in 0 .. Enough /\ x <= y
    BY <1>8 DEF GivenUpGood, OffersOK, Grow
  <2> HIDE DEF x, y
  <2>2. y > MaxRetries
    BY <2>1, Bounds
  <2> QED BY <2>1, <2>2 DEF y
<1> QED BY <1>2, <1>3, <1>4, <1>5, <1>7, <1>8

(* One more offer of the messages in ids.                                   *)
LEMMA OfferedCounts ==
    ASSUME OffersOK(sent, offers), NEW ids \in SUBSET Msgs, Offered(ids), UNCHANGED sent
    PROVE  /\ OffersOK(sent', offers') /\ Grow(sent, offers, sent', offers')
           /\ \A m \in ids : \A k \in Nat :
                 AtMost(k, Enough) <= offers[m] => AtMost(k + 1, Enough) <= offers'[m]
<1>1. \A m \in Msgs : offers[m] \in 0 .. Enough
  BY DEF OffersOK
<1>2. offers' = [m \in Msgs |-> AtMost(offers[m] + IF m \in ids THEN 1 ELSE 0, Enough)]
  BY DEF Offered
<1>3. ASSUME NEW m \in Msgs
      PROVE  offers'[m] \in 0 .. Enough /\ offers[m] <= offers'[m]
  <2> DEFINE x == offers[m]
             y == offers'[m]
  <2>1. x \in 0 .. Enough /\ y \in {AtMost(x, Enough), AtMost(x + 1, Enough)}
    <3>1. offers[m] + 0 = offers[m]
      BY <1>1, Bounds
    <3> QED BY <1>1, <1>2, <3>1
  <2> HIDE DEF x, y
  <2> QED BY <2>1, Bounds DEF AtMost, x, y
<1>4. ASSUME NEW m \in ids, NEW k \in Nat, AtMost(k, Enough) <= offers[m]
      PROVE  AtMost(k + 1, Enough) <= offers'[m]
  <2>1. offers[m] \in Nat /\ offers'[m] = AtMost(offers[m] + 1, Enough)
    BY <1>1, <1>2, Bounds
  <2> DEFINE n == offers[m]
  <2>2. n \in Nat /\ AtMost(k, Enough) <= n /\ offers'[m] = AtMost(n + 1, Enough)
    BY <1>4, <2>1
  <2> HIDE DEF n
  <2>3. AtMost(k + 1, Enough) <= AtMost(n + 1, Enough)
    BY <2>2, Bounds, Counts
  <2> QED BY <2>2, <2>3
<1>5. offers' \in [Msgs -> 0 .. Enough]
  BY <1>2, <1>3
<1> QED BY <1>3, <1>4, <1>5 DEF OffersOK, Grow

----------------------------------------------------------------------------
(* Logs.                                                                    *)

LEMMA HonestElement ==
    ASSUME NEW S, NEW o, NEW s, HonestLog(S, o, s), NEW i \in DOMAIN s
    PROVE  /\ s[i] \in Copy /\ s[i].id \in Msgs /\ s[i].attempts \in 0 .. MaxAttempts - 1
           /\ s[i].attempts \in Nat /\ Honest(S, o, s[i].id, s[i].attempts)
<1>1. s[i] \in Copy /\ Honest(S, o, s[i].id, s[i].attempts)
  BY ElementOfSeq DEF HonestLog
<1>2. s[i].attempts \in 0 .. MaxAttempts - 1 /\ s[i].id \in Msgs
  BY <1>1 DEF Honest, Copy
<1> QED BY <1>1, <1>2, Bounds

LEMMA HonestAppend ==
    ASSUME NEW S, NEW o, NEW s, HonestLog(S, o, s), NEW c \in Copy,
           Honest(S, o, c.id, c.attempts)
    PROVE  HonestLog(S, o, Append(s, c))
<1>1. s \in Seq(Copy)
  BY DEF HonestLog
<1>2. Append(s, c) \in Seq(Copy) /\ \A i \in DOMAIN Append(s, c) :
          Append(s, c)[i] = c \/ (i \in DOMAIN s /\ Append(s, c)[i] = s[i])
  BY <1>1
<1> HIDE DEF Copy
<1> QED BY <1>2 DEF HonestLog

LEMMA HonestPicked ==
    ASSUME NEW S, NEW o, NEW s, HonestLog(S, o, s), NEW J \in SUBSET DOMAIN s
    PROVE  HonestLog(S, o, Picked(s, J))
<1>1. s \in Seq(Copy)
  BY DEF HonestLog
<1>2. Picked(s, J) \in Seq(Copy)
  BY <1>1, PickedSeq
<1>3. \A k \in DOMAIN Picked(s, J) : \E i \in J : Picked(s, J)[k] = s[i]
  BY <1>1, PickedElements
<1> QED BY <1>2, <1>3 DEF HonestLog

LEMMA HonestConcat ==
    ASSUME NEW S, NEW o, NEW s, HonestLog(S, o, s), NEW t, HonestLog(S, o, t)
    PROVE  HonestLog(S, o, s \o t)
<1>1. s \in Seq(Copy) /\ t \in Seq(Copy)
  BY DEF HonestLog
<1>2. /\ s \o t \in Seq(Copy) /\ Len(s) \in Nat /\ Len(t) \in Nat
      /\ DOMAIN s = 1 .. Len(s) /\ DOMAIN t = 1 .. Len(t)
      /\ DOMAIN (s \o t) = 1 .. Len(s) + Len(t)
      /\ \A i \in 1 .. Len(s) + Len(t) :
             (s \o t)[i] = IF i <= Len(s) THEN s[i] ELSE t[i - Len(s)]
  BY <1>1
<1> DEFINE n == Len(s)
           k == Len(t)
           u == s \o t
<1>3. /\ n \in Nat /\ k \in Nat /\ DOMAIN s = 1 .. n /\ DOMAIN t = 1 .. k
      /\ u \in Seq(Copy) /\ DOMAIN u = 1 .. n + k
      /\ \A i \in 1 .. n + k : u[i] = IF i <= n THEN s[i] ELSE t[i - n]
  BY <1>2
<1> HIDE DEF n, k, u
<1>4. ASSUME NEW i \in DOMAIN u
      PROVE  (\E j \in DOMAIN s : u[i] = s[j]) \/ (\E j \in DOMAIN t : u[i] = t[j])
  <2>1. CASE i <= n
    BY <1>3, <2>1
  <2>2. CASE ~(i <= n)
    <3>1. i - n \in 1 .. k
      BY <1>3, <2>2
    <3> QED BY <1>3, <2>2, <3>1
  <2> QED BY <2>1, <2>2
<1>5. u \in Seq(Copy) /\ \A i \in DOMAIN u : Honest(S, o, u[i].id, u[i].attempts)
  BY <1>3, <1>4 DEF HonestLog
<1> QED BY <1>5 DEF HonestLog, u

(* Only one log changes.                                                    *)
LEMMA OneLogGood ==
    ASSUME NEW S, NEW o, NEW l, LogsGood(S, o, l), NEW n \in Nodes, NEW q \in Queues, NEW s,
           HonestLog(S, o, s)
    PROVE  LogsGood(S, o, [l EXCEPT ![n][q] = s])
<1> DEFINE t == [l EXCEPT ![n][q] = s]
           u == [l[n] EXCEPT ![q] = s]
<1>1. DOMAIN l = Nodes /\ NodeGood(S, o, l[n])
  BY DEF LogsGood
<1>2. NodeGood(S, o, u)
  BY <1>1 DEF NodeGood
<1>3. t = [l EXCEPT ![n] = u]
  BY <1>1
<1> HIDE DEF u, t
<1>4. LogsGood(S, o, t)
  BY <1>2, <1>3 DEF LogsGood
<1> QED BY <1>4 DEF t

(* Only one loop steps.                                                     *)
LEMMA OneLoopGood ==
    ASSUME NEW S, NEW o, NEW l, LoopsGood(S, o, l), NEW n \in Nodes, NEW x, LoopGood(S, o, x)
    PROVE  LoopsGood(S, o, [l EXCEPT ![n] = x])
BY DEF LoopsGood

(* sync_from_guardian, one key.                                             *)
LEMMA AdoptGood ==
    ASSUME CountsInv, NEW n \in Nodes, NEW q \in Queues, NEW m \in Msgs, AdoptKey(n, q, m)
    PROVE  LogsGood(sent, offers, log')
<1> DEFINE c == [id |-> m, attempts |-> kv[q][m], lease |-> "none"]
<1>1. LogsGood(sent, offers, log) /\ HonestLog(sent, offers, log[n][q])
  BY DEF CountsInv, LogsGood, NodeGood
<1>2. CASE m \in Mirrored(q) \ Ids(log[n][q])
  <2>1. Honest(sent, offers, m, kv[q][m])
    BY <1>2 DEF CountsInv, MirrorGood, Mirrored
  <2>2. kv[q][m] \in 0 .. MaxAttempts
    BY <2>1, Bounds DEF Honest
  <2>3. c \in Copy /\ c.id = m /\ c.attempts = kv[q][m]
    BY <2>2 DEF Copy
  <2>4. log' = [log EXCEPT ![n][q] = Append(log[n][q], c)]
    BY <1>1, <1>2 DEF AdoptKey, LogsGood, NodeGood
  <2> HIDE DEF c
  <2>5. HonestLog(sent, offers, Append(log[n][q], c))
    BY <1>1, <2>1, <2>3, HonestAppend
  <2> QED BY <1>1, <2>4, <2>5, OneLogGood
<1>3. CASE m \notin Mirrored(q) \ Ids(log[n][q])
  BY <1>1, <1>3 DEF AdoptKey
<1> QED BY <1>2, <1>3

(* A log whose copies only had their lease and their count changed.         *)
LEMMA HonestUpdated ==
    ASSUME NEW S, NEW o, NEW s \in Seq(Copy), NEW t, DOMAIN t = DOMAIN s,
           t = [i \in DOMAIN t |-> t[i]],
           \A i \in DOMAIN s : t[i] \in Copy /\ Honest(S, o, t[i].id, t[i].attempts)
    PROVE  HonestLog(S, o, t)
<1>1. DOMAIN s = 1 .. Len(s) /\ Len(s) \in Nat
  BY LenProperties
<1> DEFINE n == Len(s)
           e(i) == t[i]
<1>2. n \in Nat /\ \A i \in 1 .. n : e(i) \in Copy
  BY <1>1
<1>3. t = [i \in 1 .. n |-> e(i)]
  BY <1>1
<1> HIDE DEF n, e
<1>4. [i \in 1 .. n |-> e(i)] \in Seq(Copy)
  BY <1>2, IsASeq
<1> QED BY <1>3, <1>4 DEF HonestLog

(* What a failed push puts back, and what it moves to the dead letters.     *)
LEMMA BatchParts ==
    ASSUME CountsInv, NEW n \in Nodes, NEW J \in SUBSET DOMAIN loop[n].batch
    PROVE  LET part == Picked(loop[n].batch, J) IN
           /\ part \in Seq(Copy)
           /\ \A k \in DOMAIN part :
                 /\ part[k] \in Copy /\ part[k].id \in sent
                 /\ AtMost(part[k].attempts, Enough) <= offers[part[k].id]
                 /\ \E i \in J : part[k] = loop[n].batch[i]
<1> DEFINE b == loop[n].batch
           part == Picked(b, J)
<1>1. /\ b \in Seq(Copy)
      /\ \A i \in DOMAIN b : b[i].id \in sent /\ AtMost(b[i].attempts, Enough) <= offers[b[i].id]
  BY DEF CountsInv, LoopsGood, LoopGood, BatchGood
<1>0. J \in SUBSET DOMAIN b
  OBVIOUS
<1> HIDE DEF b
<1>2. part \in Seq(Copy)
  BY <1>0, <1>1, PickedSeq
<1>3. \A k \in DOMAIN part : \E i \in J : part[k] = b[i]
  BY <1>0, <1>1, PickedElements
<1>4. \A k \in DOMAIN part : part[k] \in Copy
  BY <1>2, ElementOfSeq
<1> HIDE DEF part
<1>5. \A k \in DOMAIN part : /\ part[k] \in Copy /\ part[k].id \in sent
                             /\ AtMost(part[k].attempts, Enough) <= offers[part[k].id]
                             /\ \E i \in J : part[k] = b[i]
  BY <1>1, <1>3, <1>4 DEF b
<1> QED BY <1>2, <1>5 DEF b, part

Again(n) == Picked(loop[n].batch, {i \in DOMAIN loop[n].batch : ~Exhausted(loop[n].batch[i])})
Gone(n) == Picked(loop[n].batch, {i \in DOMAIN loop[n].batch : Exhausted(loop[n].batch[i])})
Letters(n) == [k \in DOMAIN Gone(n) |-> [Gone(n)[k] EXCEPT !.attempts = 0]]
LettersFor(n, q) == IF q = target THEN Letters(n) ELSE <<>>
LetterPuts(n) == IF target = None THEN {} ELSE PutAll(n, target, Letters(n))

LEMMA PushFailsIs ==
    ASSUME NEW n \in Nodes, PushFails(n)
    PROVE  /\ loop[n].at = "await"
           /\ log' = [log EXCEPT ![n][Dlq] = @ \o LettersFor(n, Dlq),
                                 ![n][Main] = (@ \o LettersFor(n, Main)) \o Again(n)]
           /\ ops' = ops \cup ((DeleteAll(n, Main, Gone(n)) \cup LetterPuts(n))
                               \cup PutAll(n, Main, Again(n)))
           /\ givenUp' = givenUp \cup Ids(Gone(n))
           /\ ended' = IF target = None THEN ended \cup Ids(Gone(n)) ELSE ended
           /\ exposed' = IF target = Main THEN exposed \cup Ids(Gone(n)) ELSE exposed
           /\ loop' = [loop EXCEPT ![n] = Idle]
           /\ UNCHANGED <<target, synced, api, kv, sent, offers, forgotten, raced, faults>>
<1> DEFINE dead == DeadLetter(n, Gone(n))
<1>1. /\ loop[n].at = "await"
      /\ log' = [log EXCEPT ![n][Dlq] = @ \o dead.log[Dlq],
                            ![n][Main] = (@ \o dead.log[Main]) \o Again(n)]
      /\ ops' = ops \cup (dead.ops \cup PutAll(n, Main, Again(n)))
      /\ givenUp' = givenUp \cup Ids(Gone(n))
      /\ ended' = IF target = None THEN ended \cup Ids(Gone(n)) ELSE ended
      /\ exposed' = IF target = Main THEN exposed \cup Ids(Gone(n)) ELSE exposed
      /\ loop' = [loop EXCEPT ![n] = Idle]
      /\ UNCHANGED <<target, synced, api, kv, sent, offers, forgotten, raced, faults>>
  BY DEF PushFails, Spawn, PutBack, Filtered, Again, Gone
<1>2. /\ dead.log[Dlq] = LettersFor(n, Dlq) /\ dead.log[Main] = LettersFor(n, Main)
      /\ dead.ops = DeleteAll(n, Main, Gone(n)) \cup LetterPuts(n)
  BY Bounds DEF DeadLetter, LettersFor, LetterPuts, Letters
<1> HIDE DEF dead
<1> QED BY <1>1, <1>2

LEMMA AgainGood ==
    ASSUME CountsInv, NEW n \in Nodes
    PROVE  HonestLog(sent, offers, Again(n))
<1> DEFINE b == loop[n].batch
           J == {i \in DOMAIN b : ~Exhausted(b[i])}
           a == Again(n)
<1>1. /\ a \in Seq(Copy)
      /\ \A k \in DOMAIN a : /\ a[k] \in Copy /\ a[k].id \in sent
                             /\ AtMost(a[k].attempts, Enough) <= offers[a[k].id]
                             /\ \E i \in J : a[k] = b[i]
  <2>1. J \in SUBSET DOMAIN loop[n].batch /\ a = Picked(loop[n].batch, J)
    BY DEF Again
  <2> HIDE DEF a, J
  <2> QED BY <2>1, BatchParts
<1> HIDE DEF a
<1>2. ASSUME NEW k \in DOMAIN a
      PROVE  a[k].attempts \in 0 .. MaxAttempts - 1
  <2>1. a[k].attempts \in 0 .. MaxAttempts /\ ~(a[k].attempts > MaxRetries)
    BY <1>1 DEF Copy, Exhausted
  <2> QED BY <2>1, Bounds
<1>3. HonestLog(sent, offers, a)
  BY <1>1, <1>2, Bounds DEF HonestLog, Honest
<1> QED BY <1>3 DEF a

LEMMA GoneGood ==
    ASSUME CountsInv, NEW n \in Nodes
    PROVE  /\ Gone(n) \in Seq(Copy)
           /\ \A k \in DOMAIN Gone(n) :
                 /\ Gone(n)[k] \in Copy /\ Gone(n)[k].id \in sent
                 /\ Gone(n)[k].id \in Ids(loop[n].batch)
                 /\ offers[Gone(n)[k].id] > MaxRetries
<1> DEFINE b == loop[n].batch
           J == {i \in DOMAIN b : Exhausted(b[i])}
           g == Gone(n)
<1>1. /\ g \in Seq(Copy)
      /\ \A k \in DOMAIN g : /\ g[k] \in Copy /\ g[k].id \in sent
                             /\ AtMost(g[k].attempts, Enough) <= offers[g[k].id]
                             /\ \E i \in J : g[k] = b[i]
  <2>1. J \in SUBSET DOMAIN loop[n].batch /\ g = Picked(loop[n].batch, J)
    BY DEF Gone
  <2> HIDE DEF g, J
  <2> QED BY <2>1, BatchParts
<1> HIDE DEF g
<1>2. ASSUME NEW k \in DOMAIN g
      PROVE  offers[g[k].id] > MaxRetries /\ g[k].id \in Ids(b)
  <2> DEFINE a == g[k].attempts
             x == offers[g[k].id]
  <2>1. a \in 0 .. MaxAttempts /\ a > MaxRetries /\ AtMost(a, Enough) <= x
    BY <1>1 DEF Copy, Exhausted
  <2>2. x \in 0 .. Enough
    BY <1>1 DEF CountsInv, OffersOK
  <2>3. g[k].id \in Ids(b)
    BY <1>1 DEF Ids
  <2> HIDE DEF a, x
  <2>4. x > MaxRetries
    BY <2>1, <2>2, Bounds DEF AtMost
  <2> QED BY <2>3, <2>4 DEF x
<1>3. /\ g \in Seq(Copy)
      /\ \A k \in DOMAIN g : /\ g[k] \in Copy /\ g[k].id \in sent /\ g[k].id \in Ids(b)
                             /\ offers[g[k].id] > MaxRetries
  BY <1>1, <1>2
<1> QED BY <1>3 DEF g

LEMMA LettersGood ==
    ASSUME CountsInv, NEW n \in Nodes
    PROVE  /\ HonestLog(sent, offers, Letters(n)) /\ DOMAIN Letters(n) = DOMAIN Gone(n)
           /\ \A k \in DOMAIN Gone(n) : Letters(n)[k].id = Gone(n)[k].id
<1> DEFINE g == Gone(n)
           l == Letters(n)
<1>1. \A c \in Copy : LET d == [c EXCEPT !.attempts = 0]
                      IN  d \in Copy /\ d.id = c.id /\ d.attempts = 0
  BY Bounds DEF Copy
<1>2. \A k \in DOMAIN g : l[k] \in Copy /\ l[k].id = g[k].id /\ l[k].attempts = 0
  BY <1>1, GoneGood DEF Letters
<1>3. \A m \in sent : m \in Msgs /\ offers[m] \in 0 .. Enough
  BY DEF CountsInv, OffersOK
<1>4. 0 \in 0 .. MaxAttempts - 1 /\ AtMost(0, Enough) = 0
  BY Bounds DEF AtMost
<1>5. DOMAIN l = DOMAIN g /\ l = [k \in DOMAIN l |-> l[k]]
  BY DEF Letters
<1>6. g \in Seq(Copy) /\ \A k \in DOMAIN g : g[k].id \in sent
  BY GoneGood
<1> HIDE DEF g, l
<1>7. ASSUME NEW k \in DOMAIN g
      PROVE  Honest(sent, offers, l[k].id, l[k].attempts)
  <2> DEFINE x == offers[g[k].id]
  <2>1. g[k].id \in sent /\ x \in 0 .. Enough
    BY <1>3, <1>6
  <2> HIDE DEF x
  <2>2. 0 <= x
    BY <2>1, Bounds
  <2> QED BY <1>2, <1>4, <2>1, <2>2 DEF Honest, x
<1>8. HonestLog(sent, offers, l)
  BY <1>2, <1>5, <1>6, <1>7, HonestUpdated
<1> QED BY <1>2, <1>5, <1>8 DEF g, l

(* What comes to q of the dead letters.                                     *)
LEMMA LettersForGood ==
    ASSUME CountsInv, NEW n \in Nodes, NEW q
    PROVE  HonestLog(sent, offers, LettersFor(n, q))
<1>1. HonestLog(sent, offers, <<>>)
  <2>1. <<>> \in Seq(Copy) /\ DOMAIN <<>> = {}
    OBVIOUS
  <2> QED BY <2>1 DEF HonestLog
<1> QED BY <1>1, LettersGood DEF LettersFor

----------------------------------------------------------------------------
(* Mirror writes.                                                           *)

LEMMA DeleteGood ==
    ASSUME NEW S, NEW o, OffersOK(S, o), NEW n \in Nodes, NEW q \in Queues, NEW m \in S
    PROVE  OpGood(S, o, Delete(n, q, m))
BY Bounds DEF OpGood, Delete, OpRecord, OffersOK

LEMMA PutGood ==
    ASSUME NEW S, NEW o, OffersOK(S, o), NEW n \in Nodes, NEW q \in Queues, NEW c,
           Honest(S, o, c.id, c.attempts)
    PROVE  OpGood(S, o, Put(n, q, c))
<1>1. c.id \in Msgs /\ c.id \in S /\ c.attempts \in 0 .. MaxAttempts - 1
  BY DEF Honest, OffersOK
<1>2. c.attempts \in 0 .. MaxAttempts
  BY <1>1, Bounds
<1> DEFINE w == Put(n, q, c)
<1>3. w.kind = "put" /\ w.queue = q /\ w.id = c.id /\ w.attempts = c.attempts
  BY DEF Put
<1>4. w \in OpRecord
  BY <1>1, <1>2 DEF Put, OpRecord
<1> HIDE DEF w
<1>5. OpGood(S, o, w)
  BY <1>1, <1>3, <1>4 DEF OpGood
<1> QED BY <1>5 DEF w

LEMMA PutAllGood ==
    ASSUME NEW S, NEW o, OffersOK(S, o), NEW n \in Nodes, NEW q \in Queues, NEW s, HonestLog(S, o, s)
    PROVE  OpsGood(S, o, PutAll(n, q, s))
<1>1. \A i \in DOMAIN s : Honest(S, o, s[i].id, s[i].attempts)
  BY DEF HonestLog
<1>2. \A i \in DOMAIN s : OpGood(S, o, Put(n, q, s[i]))
  BY <1>1, PutGood
<1> QED BY <1>2 DEF OpsGood, PutAll

LEMMA DeleteAllGood ==
    ASSUME NEW S, NEW o, OffersOK(S, o), NEW n \in Nodes, NEW q \in Queues, NEW s, Ids(s) \subseteq S
    PROVE  OpsGood(S, o, DeleteAll(n, q, s))
BY DeleteGood DEF OpsGood, DeleteAll

LEMMA OpsUnion ==
    ASSUME NEW S, NEW o, NEW p, NEW r, OpsGood(S, o, p), OpsGood(S, o, r)
    PROVE  OpsGood(S, o, p \cup r)
BY DEF OpsGood

----------------------------------------------------------------------------
(* Counts and types are kept.                                               *)

LEMMA CountsInit == Init => CountsInv
<1> SUFFICES ASSUME Init PROVE CountsInv
  OBVIOUS
<1>1. OffersOK(sent, offers) /\ Rest /\ GivenUpGood(sent, offers, givenUp)
  <2>1. 0 \in 0 .. Enough /\ 0 \in 0 .. MaxFaults
    BY TenantQueueAssumption, Bounds
  <2>2. OffersOK(sent, offers) /\ GivenUpGood(sent, offers, givenUp)
    BY <2>1 DEF Init, OffersOK, GivenUpGood
  <2>3. Rest
    BY <2>1 DEF Init, Rest
  <2> QED BY <2>2, <2>3
<1>2. <<>> \in Seq(Copy) /\ DOMAIN <<>> = {}
  OBVIOUS
<1>3. \A n \in Nodes : NodeGood(sent, offers, log[n])
  BY <1>2 DEF Init, NodeGood, HonestLog
<1>4. LogsGood(sent, offers, log)
  BY <1>3 DEF Init, LogsGood
<1>5. MirrorGood(sent, offers, kv) /\ OpsGood(sent, offers, ops)
  BY DEF Init, MirrorGood, OpsGood
<1>6. LoopGood(sent, offers, Idle)
  BY <1>2, Bounds DEF Idle, LoopGood, LoopRecord, BatchGood
<1>7. LoopsGood(sent, offers, loop)
  BY <1>6 DEF Init, LoopsGood
<1> QED BY <1>1, <1>4, <1>5, <1>7 DEF CountsInv

LEMMA CountsStep == CountsInv /\ [Next]_vars => CountsInv'
<1> SUFFICES ASSUME CountsInv, [Next]_vars PROVE CountsInv'
  OBVIOUS
<1>0. /\ OffersOK(sent, offers) /\ Rest /\ GivenUpGood(sent, offers, givenUp)
      /\ LogsGood(sent, offers, log) /\ MirrorGood(sent, offers, kv)
      /\ OpsGood(sent, offers, ops) /\ LoopsGood(sent, offers, loop)
      /\ sent \subseteq Msgs
      /\ DOMAIN log = Nodes /\ DOMAIN loop = Nodes
      /\ \A n \in Nodes : /\ DOMAIN log[n] = Queues
                          /\ \A q \in Queues : HonestLog(sent, offers, log[n][q])
                          /\ LoopGood(sent, offers, loop[n])
                          /\ loop[n] \in LoopRecord /\ loop[n].queue \in Queues
      /\ synced \in [Nodes -> [Queues -> BOOLEAN]]
      /\ api \in [Nodes -> [Queues -> SUBSET Msgs]]
  BY DEF CountsInv, OffersOK, LogsGood, NodeGood, LoopsGood, LoopGood, LoopRecord, Rest
<1>1. ASSUME NEW o \in ops, OpLands(o) PROVE CountsInv'
  <2>1. OpGood(sent, offers, o) /\ o \in OpRecord /\ o.queue \in Queues /\ o.id \in Msgs
    BY <1>0 DEF OpsGood, OpGood, OpRecord
  <2> DEFINE v == IF o.kind = "put" THEN o.attempts ELSE Absent
  <2>2. v \in 0 .. MaxAttempts \cup {Absent} /\ (v # Absent => Honest(sent, offers, o.id, v))
    BY <2>1 DEF OpGood, OpRecord
  <2>3. kv' = [kv EXCEPT ![o.queue][o.id] = v]
    BY <1>1 DEF OpLands
  <2> HIDE DEF v
  <2>4. MirrorGood(sent, offers, kv')
    <3>1. kv \in [Queues -> [Msgs -> 0 .. MaxAttempts \cup {Absent}]]
      BY <1>0 DEF MirrorGood
    <3>2. kv' \in [Queues -> [Msgs -> 0 .. MaxAttempts \cup {Absent}]]
      BY <2>1, <2>2, <2>3, <3>1
    <3>3. \A q \in Queues, m \in Msgs :
             kv'[q][m] = IF q = o.queue /\ m = o.id THEN v ELSE kv[q][m]
      BY <2>1, <2>3, <3>1
    <3> QED BY <1>0, <2>2, <3>2, <3>3 DEF MirrorGood
  <2>5. OpsGood(sent, offers, ops')
    BY <1>0, <1>1 DEF OpLands, OpsGood
  <2> QED BY <1>0, <1>1, <2>4, <2>5 DEF OpLands, CountsInv, Rest
<1>2. ASSUME NEW n \in Nodes, NEW m \in Msgs, Send(n, m) PROVE CountsInv'
  <2> DEFINE c == [id |-> m, attempts |-> 0, lease |-> "none"]
  <2>1. /\ c \in Copy /\ c.id = m /\ c.attempts = 0
        /\ Honest(sent', offers', c.id, c.attempts)
    <3>1. offers[m] \in 0 .. Enough
      BY <1>0 DEF OffersOK
    <3>2. 0 \in 0 .. MaxAttempts - 1 /\ 0 \in 0 .. MaxAttempts /\ AtMost(0, Enough) = 0
          /\ 0 <= offers[m]
      BY <3>1, Bounds DEF AtMost
    <3> QED BY <1>2, <3>2, Bounds DEF Send, Copy, Honest
  <2>2. /\ OffersOK(sent', offers') /\ Grow(sent, offers, sent', offers')
    <3>1. \A k \in Msgs : offers[k] <= offers[k]
      BY <1>0, Bounds DEF OffersOK
    <3> QED BY <1>0, <1>2, <3>1 DEF Send, OffersOK, Grow
  <2>3. log' = [log EXCEPT ![n][Main] = Append(log[n][Main], c)] /\ ops' = ops \cup {Put(n, Main, c)}
    BY <1>0, <1>2, Bounds DEF Send, Spawn
  <2> HIDE DEF c
  <2>4. /\ LogsGood(sent', offers', log) /\ MirrorGood(sent', offers', kv)
        /\ OpsGood(sent', offers', ops) /\ LoopsGood(sent', offers', loop)
        /\ GivenUpGood(sent', offers', givenUp)
    BY <1>0, <2>2, GoodGrows
  <2>5. HonestLog(sent', offers', log[n][Main])
    BY <2>4, Bounds DEF LogsGood, NodeGood
  <2>6. LogsGood(sent', offers', log')
    BY <2>1, <2>3, <2>4, <2>5, Bounds, HonestAppend, OneLogGood
  <2>7. OpsGood(sent', offers', ops')
    BY <2>1, <2>2, <2>3, <2>4, Bounds, PutGood DEF OpsGood
  <2>8. Rest'
    BY <1>0, <1>2 DEF Send, Rest
  <2> QED BY <1>2, <2>2, <2>4, <2>6, <2>7, <2>8 DEF Send, CountsInv
<1>3. ASSUME NEW n \in Nodes, NEW q \in Queues, FirstTouch(n, q) PROVE CountsInv'
  <2>1. synced' \in [Nodes -> [Queues -> BOOLEAN]] /\ api' \in [Nodes -> [Queues -> SUBSET Msgs]]
    BY <1>0, <1>3 DEF FirstTouch, Mirrored
  <2> QED BY <1>0, <1>3, <2>1 DEF FirstTouch, CountsInv, Rest
<1>4. ASSUME NEW n \in Nodes, NEW q \in Queues, NEW m \in Msgs, FirstTouchKey(n, q, m) PROVE CountsInv'
  <2>1. LogsGood(sent, offers, log')
    BY <1>4, AdoptGood DEF FirstTouchKey
  <2>2. api' \in [Nodes -> [Queues -> SUBSET Msgs]] /\ raced' \in [Nodes -> BOOLEAN]
    BY <1>0, <1>4 DEF FirstTouchKey, InHand, Rest
  <2> QED BY <1>0, <1>4, <2>1, <2>2 DEF FirstTouchKey, CountsInv, Rest
<1>5. ASSUME NEW n \in Nodes, NEW q \in Queues, NEW I \in SUBSET DOMAIN log[n][q], Pull(n, q, I) PROVE CountsInv'
  <2> DEFINE s == log[n][q]
             t == [i \in DOMAIN s |-> IF i \in I THEN Leased(s[i]) ELSE s[i]]
             ids == {s[i].id : i \in I}
  <2>1. s \in Seq(Copy) /\ HonestLog(sent, offers, s)
    BY <1>0 DEF HonestLog
  <2>2. \A i \in DOMAIN s : /\ s[i] \in Copy /\ s[i].id \in Msgs
                            /\ s[i].attempts \in 0 .. MaxAttempts - 1 /\ s[i].attempts \in Nat
                            /\ Honest(sent, offers, s[i].id, s[i].attempts)
    BY <2>1, HonestElement
  <2>3. ids \in SUBSET Msgs /\ Offered(ids) /\ UNCHANGED sent
        /\ log' = [log EXCEPT ![n][q] = t] /\ \A i \in I : s[i].attempts < MaxPulls
    <3>1. ids \in SUBSET Msgs
      BY <2>2
    <3>2. Offered(ids) /\ UNCHANGED sent /\ \A i \in I : s[i].attempts < MaxPulls
      BY <1>5 DEF Pull
    <3>3. log' = [log EXCEPT ![n][q] = t]
      BY <1>5 DEF Pull
    <3> QED BY <3>1, <3>2, <3>3
  <2>4. /\ OffersOK(sent', offers') /\ Grow(sent, offers, sent', offers')
        /\ \A m \in ids : \A k \in Nat :
              AtMost(k, Enough) <= offers[m] => AtMost(k + 1, Enough) <= offers'[m]
    BY <1>0, <2>3, OfferedCounts
  <2>5. /\ LogsGood(sent', offers', log) /\ MirrorGood(sent', offers', kv)
        /\ OpsGood(sent', offers', ops) /\ LoopsGood(sent', offers', loop)
        /\ GivenUpGood(sent', offers', givenUp)
        /\ HonestLog(sent', offers', s)
        /\ GivenUpGood(sent', offers', givenUp)
    BY <1>0, <2>4, GoodGrows DEF LogsGood, NodeGood
  <2>6. ASSUME NEW i \in DOMAIN s
        PROVE  t[i] \in Copy /\ Honest(sent', offers', t[i].id, t[i].attempts)
    <3> DEFINE c == s[i]
               d == Leased(c)
               k == c.attempts
    <3>1. c \in Copy /\ k \in Nat /\ Honest(sent', offers', c.id, k)
      BY <2>2, <2>5 DEF HonestLog
    <3>2. CASE i \in I
      <4>1. t[i] = d
        BY <3>2
      <4>2. k < MaxPulls /\ c.id \in ids /\ AtMost(k, Enough) <= offers[c.id]
        BY <2>2, <2>3, <3>2 DEF Honest
      <4>3. AtMost(k + 1, Enough) <= offers'[c.id]
        BY <2>4, <3>1, <4>2
      <4> HIDE DEF c, k
      <4>4. k + 1 \in 0 .. MaxAttempts - 1 /\ k + 1 \in 0 .. MaxAttempts
        BY <3>1, <4>2, Bounds
      <4>5. d \in Copy /\ d.id = c.id /\ d.attempts = k + 1
        BY <3>1, <4>4 DEF Copy, Leased, k
      <4>6. Honest(sent', offers', c.id, k + 1)
        BY <3>1, <4>3, <4>4 DEF Honest
      <4> HIDE DEF d
      <4> QED BY <4>1, <4>5, <4>6
    <3>3. CASE i \notin I
      BY <3>1, <3>3
    <3> QED BY <3>2, <3>3
  <2>7. DOMAIN t = DOMAIN s /\ t = [i \in DOMAIN t |-> t[i]]
    OBVIOUS
  <2> HIDE DEF t
  <2>8. HonestLog(sent', offers', t)
    BY <2>1, <2>6, <2>7, HonestUpdated
  <2>9. LogsGood(sent', offers', log')
    BY <2>3, <2>5, <2>8, OneLogGood
  <2> QED BY <1>0, <1>5, <2>4, <2>5, <2>9 DEF Pull, CountsInv, Rest
<1>6. ASSUME NEW n \in Nodes, NEW q \in Queues, NEW i \in DOMAIN log[n][q], NEW lease \in {"none", "expired"},
             log' = [log EXCEPT ![n][q][i].lease = lease],
             UNCHANGED <<target, synced, api, loop, kv, ops, sent, ended, givenUp, offers, exposed,
                         forgotten, raced, faults>>
      PROVE  CountsInv'
  <2> DEFINE s == log[n][q]
             t == [s EXCEPT ![i].lease = lease]
  <2>1. s \in Seq(Copy) /\ HonestLog(sent, offers, s) /\ i \in DOMAIN s
    BY <1>0 DEF HonestLog
  <2>2. log' = [log EXCEPT ![n][q] = t]
    BY <1>0, <1>6
  <2>3. \A j \in DOMAIN s : s[j] \in Copy /\ Honest(sent, offers, s[j].id, s[j].attempts)
    BY <2>1, HonestElement
  <2> HIDE DEF s
  <2>4. DOMAIN s = 1 .. Len(s)
    BY <2>1, LenProperties
  <2>5. DOMAIN t = DOMAIN s /\ t = [j \in DOMAIN t |-> t[j]]
        /\ \A j \in DOMAIN s : t[j] = IF j = i THEN [s[i] EXCEPT !.lease = lease] ELSE s[j]
    BY <2>1, <2>4
  <2>6. \A c \in Copy : LET d == [c EXCEPT !.lease = lease]
                        IN  d \in Copy /\ d.id = c.id /\ d.attempts = c.attempts
    BY DEF Copy
  <2>7. ASSUME NEW j \in DOMAIN s
        PROVE  t[j] \in Copy /\ Honest(sent, offers, t[j].id, t[j].attempts)
    BY <2>1, <2>3, <2>5, <2>6
  <2> HIDE DEF t
  <2>8. LogsGood(sent, offers, log')
    BY <1>0, <2>1, <2>2, <2>5, <2>7, HonestUpdated, OneLogGood
  <2> QED BY <1>0, <1>6, <2>8 DEF CountsInv, Rest
<1>7. ASSUME NEW n \in Nodes, NEW q \in Queues, NEW i \in DOMAIN log[n][q], Ack(n, q, i) PROVE CountsInv'
  <2> DEFINE J == DOMAIN log[n][q] \ {i}
             t == Picked(log[n][q], J)
  <2>1. HonestLog(sent, offers, t)
    BY <1>0, HonestPicked
  <2>2. log' = [log EXCEPT ![n][q] = t]
    BY <1>0, <1>7 DEF Ack
  <2> HIDE DEF t
  <2>3. LogsGood(sent, offers, log')
    BY <1>0, <2>1, <2>2, OneLogGood
  <2>4. log[n][q][i].id \in sent
    BY <1>0, HonestElement DEF Honest
  <2>5. OpsGood(sent, offers, ops') /\ ended' \subseteq sent
    BY <1>0, <1>7, <2>4, DeleteGood DEF Ack, Spawn, OpsGood, Rest
  <2> QED BY <1>0, <1>7, <2>3, <2>5 DEF Ack, CountsInv, Rest
<1>8. ASSUME NEW n \in Nodes, NEW q \in Queues, Visit(n, q) PROVE CountsInv'
  <2>1. PICK at \in {"first", "sync", "take"} :
           /\ (at = "take") => q = Main
           /\ loop' = [loop EXCEPT ![n] = [at |-> at, queue |-> q, batch |-> <<>>,
                          keys |-> IF at = "take" THEN {} ELSE Mirrored(q)]]
    BY <1>8 DEF Visit
  <2>2. <<>> \in Seq(Copy) /\ DOMAIN <<>> = {} /\ Mirrored(q) \in SUBSET Msgs
    BY DEF Mirrored
  <2> DEFINE x == [at |-> at, queue |-> q, batch |-> <<>>,
                   keys |-> IF at = "take" THEN {} ELSE Mirrored(q)]
  <2>5. LoopGood(sent, offers, x)
    BY <2>1, <2>2 DEF LoopGood, LoopRecord, BatchGood
  <2> HIDE DEF x
  <2>3. LoopsGood(sent, offers, loop')
    BY <1>0, <2>1, <2>5, OneLoopGood DEF x
  <2>4. synced' \in [Nodes -> [Queues -> BOOLEAN]]
    BY <1>0, <1>8 DEF Visit
  <2> QED BY <1>0, <1>8, <2>3, <2>4 DEF Visit, CountsInv, Rest
<1>9. ASSUME NEW n \in Nodes, NEW m \in Msgs, SyncKey(n, m) PROVE CountsInv'
  <2>1. LogsGood(sent, offers, log')
    BY <1>0, <1>9, AdoptGood DEF SyncKey
  <2>2. LoopsGood(sent, offers, loop')
    <3> DEFINE l == loop[n]
               k == [l EXCEPT !.keys = @ \ {m}]
    <3>1. l \in LoopRecord /\ loop' = [loop EXCEPT ![n] = k]
      BY <1>0, <1>9 DEF SyncKey
    <3> HIDE DEF l
    <3>2. k \in LoopRecord /\ k.at = l.at /\ k.queue = l.queue /\ k.batch = l.batch
      BY <3>1 DEF LoopRecord
    <3> HIDE DEF k
    <3>3. LoopGood(sent, offers, k)
      BY <1>0, <3>1, <3>2 DEF LoopGood, l
    <3> QED BY <1>0, <3>1, <3>3, OneLoopGood
  <2> QED BY <1>0, <1>9, <2>1, <2>2 DEF SyncKey, CountsInv, Rest
<1>10. ASSUME NEW n \in Nodes, NEW at \in {"idle", "sweep", "take"},
              loop' = [loop EXCEPT ![n].at = at],
              loop[n].at # "await", at = "take" => loop[n].queue = Main
       PROVE  LoopsGood(sent, offers, loop')
  <2> DEFINE l == loop[n]
             k == [l EXCEPT !.at = at]
  <2>1. l \in LoopRecord /\ loop' = [loop EXCEPT ![n] = k]
    BY <1>0, <1>10
  <2> HIDE DEF l
  <2>2. k \in LoopRecord /\ k.at = at /\ k.queue = l.queue /\ k.batch = l.batch
    BY <2>1 DEF LoopRecord
  <2> HIDE DEF k
  <2>3. LoopGood(sent, offers, k)
    BY <1>0, <1>10, <2>1, <2>2 DEF LoopGood, l
  <2> QED BY <1>0, <2>1, <2>3, OneLoopGood
<1>11. ASSUME NEW n \in Nodes, SyncDone(n) PROVE CountsInv'
  <2> DEFINE at == IF loop[n].at = "sync" THEN "sweep"
                   ELSE IF loop[n].queue = Main THEN "take" ELSE "idle"
  <2>1. loop' = [loop EXCEPT ![n].at = at] /\ loop[n].at # "await"
    BY <1>11 DEF SyncDone
  <2>2. at \in {"idle", "sweep", "take"} /\ (at = "take" => loop[n].queue = Main)
    OBVIOUS
  <2> HIDE DEF at
  <2>3. LoopsGood(sent, offers, loop')
    BY <1>10, <2>1, <2>2
  <2> QED BY <1>0, <1>11, <2>3 DEF SyncDone, CountsInv, Rest
<1>12. ASSUME NEW n \in Nodes, NEW old \in SUBSET Msgs, SweepExpired(n, old) PROVE CountsInv'
  <2> DEFINE q == loop[n].queue
             expired == {i \in DOMAIN log[n][q] : log[n][q][i].id \in old}
             reap == {log[n][q][i].id : i \in {k \in expired :
                         Cardinality({j \in expired : j <= k}) <= MaxReap(Len(log[n][q]))}}
             J == {i \in DOMAIN log[n][q] : log[n][q][i].id \notin reap}
             t == Picked(log[n][q], J)
             at == IF q = Main THEN "take" ELSE "idle"
  <2>1. /\ q \in Queues /\ log' = [log EXCEPT ![n][q] = t] /\ loop[n].at = "sweep"
        /\ ops' = ops \cup {Delete(n, q, m) : m \in reap}
        /\ ended' = ended \cup reap /\ loop' = [loop EXCEPT ![n].at = at]
    BY <1>0, <1>12 DEF SweepExpired, Spawn, Filtered
  <2>2. reap \subseteq sent
    <3>1. \A i \in DOMAIN log[n][q] : log[n][q][i].id \in sent
      BY <1>0, <2>1, HonestElement DEF Honest
    <3> QED BY <3>1
  <2> HIDE DEF reap, q
  <2>3. HonestLog(sent, offers, t)
    BY <1>0, <2>1, HonestPicked
  <2> HIDE DEF t
  <2>4. LogsGood(sent, offers, log')
    BY <1>0, <2>1, <2>3, OneLogGood
  <2>5. OpsGood(sent, offers, ops')
    BY <1>0, <2>1, <2>2, DeleteGood DEF OpsGood
  <2>6. LoopsGood(sent, offers, loop')
    BY <1>10, <2>1 DEF q
  <2>7. ended' \subseteq sent
    BY <1>0, <2>1, <2>2 DEF Rest
  <2> QED BY <1>0, <1>12, <2>4, <2>5, <2>6, <2>7 DEF SweepExpired, CountsInv, Rest
<1>13. ASSUME NEW n \in Nodes, NEW I \in SUBSET DOMAIN log[n][loop[n].queue], TakeDueForPush(n, I) PROVE CountsInv'
  <2> DEFINE q == loop[n].queue
             s == log[n][q]
             ids == {s[i].id : i \in I}
             taken == Picked(s, I)
             b == [k \in DOMAIN taken |-> [taken[k] EXCEPT !.attempts = @ + 1]]
             t == Picked(s, DOMAIN s \ I)
             at == IF I = {} THEN "idle" ELSE "await"
  <2>1. s \in Seq(Copy) /\ HonestLog(sent, offers, s) /\ q \in Queues
    BY <1>0 DEF HonestLog
  <2>2. \A i \in DOMAIN s : s[i].id \in Msgs
    BY <2>1, HonestElement
  <2>3. /\ loop[n].at = "take" /\ loop' = [loop EXCEPT ![n].at = at, ![n].batch = b]
        /\ log' = [log EXCEPT ![n][q] = t] /\ Offered(ids) /\ ids \in SUBSET Msgs
        /\ UNCHANGED sent /\ I \in SUBSET DOMAIN s
    BY <1>0, <1>13, <2>2 DEF TakeDueForPush
  <2>4. /\ OffersOK(sent', offers') /\ Grow(sent, offers, sent', offers')
        /\ \A m \in ids : \A k \in Nat :
              AtMost(k, Enough) <= offers[m] => AtMost(k + 1, Enough) <= offers'[m]
    BY <1>0, <2>3, OfferedCounts
  <2>5. /\ LogsGood(sent', offers', log) /\ MirrorGood(sent', offers', kv)
        /\ OpsGood(sent', offers', ops) /\ HonestLog(sent', offers', s)
        /\ LoopsGood(sent', offers', loop) /\ GivenUpGood(sent', offers', givenUp)
    BY <1>0, <2>1, <2>4, GoodGrows DEF LogsGood, NodeGood
  <2>6. HonestLog(sent', offers', t) /\ HonestLog(sent, offers, taken)
    BY <2>1, <2>3, <2>5, HonestPicked
  <2>7. \A k \in DOMAIN taken : \E i \in I : taken[k] = s[i]
    BY <2>1, <2>3, PickedElements
  <2>8. \A k \in DOMAIN taken : taken[k].id \in ids
    BY <2>7
  <2> HIDE DEF t, taken, ids, s, q
  <2>9. LogsGood(sent', offers', log')
    BY <2>1, <2>3, <2>5, <2>6, OneLogGood
  <2>10. ASSUME NEW k \in DOMAIN taken
         PROVE  /\ b[k] \in Copy /\ b[k].id \in sent
                /\ AtMost(b[k].attempts, Enough) <= offers'[b[k].id]
    <3> DEFINE c == taken[k]
               d == [c EXCEPT !.attempts = @ + 1]
    <3>1. /\ c \in Copy /\ c.attempts \in 0 .. MaxAttempts - 1 /\ c.attempts \in Nat
          /\ Honest(sent, offers, c.id, c.attempts)
      BY <2>6, HonestElement
    <3>2. c.id \in ids /\ b[k] = d
      BY <2>8
    <3> HIDE DEF c
    <3>3. c.attempts + 1 \in 0 .. MaxAttempts
      BY <3>1, Bounds
    <3>4. d \in Copy /\ d.id = c.id /\ d.attempts = c.attempts + 1
      BY <3>1, <3>3 DEF Copy
    <3>5. AtMost(c.attempts + 1, Enough) <= offers'[c.id]
      BY <2>4, <3>1, <3>2 DEF Honest
    <3> HIDE DEF d
    <3> QED BY <3>1, <3>2, <3>4, <3>5 DEF Honest
  <2>11. BatchGood(sent, offers', b)
    <3>1. taken \in Seq(Copy)
      BY <2>6 DEF HonestLog
    <3>2. DOMAIN taken = 1 .. Len(taken) /\ Len(taken) \in Nat
      BY <3>1, LenProperties
    <3> DEFINE size == Len(taken)
               e(k) == [taken[k] EXCEPT !.attempts = @ + 1]
    <3>3. size \in Nat /\ b = [k \in 1 .. size |-> e(k)] /\ DOMAIN b = DOMAIN taken
      BY <3>2
    <3>4. \A k \in 1 .. size : e(k) \in Copy
      BY <2>10, <3>2
    <3> HIDE DEF size, e
    <3>5. [k \in 1 .. size |-> e(k)] \in Seq(Copy)
      BY <3>3, <3>4, IsASeq
    <3> QED BY <2>10, <3>3, <3>5 DEF BatchGood
  <2>12. I = {} => b = <<>>
    <3>1. ASSUME I = {} PROVE DOMAIN b = {}
      BY <2>7, <3>1
    <3>2. b \in Seq(Copy) /\ (I = {} => DOMAIN b = {})
      BY <2>11, <3>1 DEF BatchGood
    <3> HIDE DEF b
    <3> QED BY <3>2
  <2>13. LoopsGood(sent', offers', loop')
    <3> DEFINE l == loop[n]
               k == [l EXCEPT !.at = at, !.batch = b]
    <3>1. l \in LoopRecord /\ l.queue = Main /\ b \in Seq(Copy)
      BY <1>0, <2>3, <2>11 DEF BatchGood, LoopGood
    <3>2. at \in {"idle", "await"} /\ (at # "await" => b = <<>>)
      BY <2>12
    <3> HIDE DEF b, at
    <3>4. loop' = [loop EXCEPT ![n] = k]
      BY <1>0, <2>3
    <3> HIDE DEF l
    <3>3. k \in LoopRecord /\ k.at = at /\ k.queue = Main /\ k.batch = b
      BY <3>1, <3>2 DEF LoopRecord
    <3> HIDE DEF k
    <3>5. LoopGood(sent', offers', k)
      BY <2>3, <2>11, <3>1, <3>2, <3>3 DEF LoopGood
    <3> QED BY <2>5, <3>4, <3>5, OneLoopGood
  <2> QED BY <1>0, <1>13, <2>4, <2>5, <2>9, <2>13 DEF TakeDueForPush, CountsInv, Rest
<1>14. LoopGood(sent, offers, Idle)
  <2>1. <<>> \in Seq(Copy) /\ DOMAIN <<>> = {}
    OBVIOUS
  <2> QED BY <2>1, Bounds DEF Idle, LoopGood, LoopRecord, BatchGood
<1>15. ASSUME NEW n \in Nodes, PushOk(n) PROVE CountsInv'
  <2>1. Ids(loop[n].batch) \subseteq sent
    BY <1>0 DEF LoopGood, BatchGood, Ids
  <2>2. OpsGood(sent, offers, ops')
    BY <1>0, <1>15, <2>1, DeleteAllGood, OpsUnion DEF PushOk, Spawn
  <2>3. ended' \subseteq sent
    BY <1>0, <1>15, <2>1 DEF PushOk, Rest
  <2>4. LoopsGood(sent, offers, loop')
    BY <1>0, <1>14, <1>15, OneLoopGood DEF PushOk
  <2> QED BY <1>0, <1>15, <2>2, <2>3, <2>4 DEF PushOk, CountsInv, Rest
<1>16. ASSUME NEW n \in Nodes, PushFails(n) PROVE CountsInv'
  <2> DEFINE s == log[n][Dlq] \o LettersFor(n, Dlq)
             t == (log[n][Main] \o LettersFor(n, Main)) \o Again(n)
  <2>1. /\ log' = [log EXCEPT ![n][Dlq] = @ \o LettersFor(n, Dlq),
                              ![n][Main] = (@ \o LettersFor(n, Main)) \o Again(n)]
        /\ ops' = ops \cup ((DeleteAll(n, Main, Gone(n)) \cup LetterPuts(n))
                            \cup PutAll(n, Main, Again(n)))
        /\ givenUp' = givenUp \cup Ids(Gone(n))
        /\ ended' = IF target = None THEN ended \cup Ids(Gone(n)) ELSE ended
        /\ exposed' = IF target = Main THEN exposed \cup Ids(Gone(n)) ELSE exposed
        /\ loop' = [loop EXCEPT ![n] = Idle]
        /\ UNCHANGED <<target, synced, api, kv, sent, offers, forgotten, raced, faults>>
    BY <1>16, PushFailsIs
  <2>2. /\ HonestLog(sent, offers, Again(n)) /\ HonestLog(sent, offers, Letters(n))
        /\ HonestLog(sent, offers, LettersFor(n, Dlq))
        /\ HonestLog(sent, offers, LettersFor(n, Main))
    BY AgainGood, LettersGood, LettersForGood
  <2>3. HonestLog(sent, offers, s) /\ HonestLog(sent, offers, t)
    BY <1>0, <2>2, Bounds, HonestConcat
  <2>4. LogsGood(sent, offers, log')
    <3>1. log' = [[log EXCEPT ![n][Dlq] = s] EXCEPT ![n][Main] = t]
      BY <1>0, <2>1, Bounds
    <3> HIDE DEF s, t
    <3>2. LogsGood(sent, offers, [log EXCEPT ![n][Dlq] = s])
      BY <1>0, <2>3, Bounds, OneLogGood
    <3> QED BY <2>3, <3>1, <3>2, Bounds, OneLogGood
  <2>5. Ids(Gone(n)) \subseteq sent /\ GivenUpGood(sent, offers, givenUp')
    <3>1. \A m \in Ids(Gone(n)) : m \in sent /\ offers[m] > MaxRetries
      BY GoneGood DEF Ids
    <3> QED BY <1>0, <2>1, <3>1 DEF GivenUpGood
  <2>6. OpsGood(sent, offers, ops')
    <3>1. OpsGood(sent, offers, DeleteAll(n, Main, Gone(n)))
      BY <1>0, <2>5, Bounds, DeleteAllGood
    <3>2. OpsGood(sent, offers, PutAll(n, Main, Again(n)))
      BY <1>0, <2>2, Bounds, PutAllGood
    <3>3. OpsGood(sent, offers, LetterPuts(n))
      <4>1. CASE target = None
        BY <4>1 DEF LetterPuts, OpsGood
      <4>2. CASE target # None
        <5>1. target \in Queues
          BY <1>0, <4>2, Bounds DEF Rest
        <5> QED BY <1>0, <2>2, <4>2, <5>1, PutAllGood DEF LetterPuts
      <4> QED BY <4>1, <4>2
    <3> QED BY <1>0, <2>1, <3>1, <3>2, <3>3 DEF OpsGood
  <2>7. LoopsGood(sent, offers, loop')
    BY <1>0, <1>14, <2>1, OneLoopGood
  <2>8. Rest'
    BY <1>0, <2>1, <2>5 DEF Rest
  <2> QED BY <1>0, <2>1, <2>4, <2>5, <2>6, <2>7, <2>8 DEF CountsInv
<1>17. ASSUME NEW n \in Nodes, Restart(n) PROVE CountsInv'
  <2> DEFINE mine == {o \in ops : o.node = n}
             empty == [q \in Queues |-> <<>>]
  <2>0. /\ faults < MaxFaults /\ faults' = faults + 1
        /\ log' = [log EXCEPT ![n] = empty]
        /\ synced' = [synced EXCEPT ![n] = [q \in Queues |-> FALSE]]
        /\ api' = [api EXCEPT ![n] = [q \in Queues |-> {}]]
        /\ loop' = [loop EXCEPT ![n] = Idle]
        /\ ops' = ops \ mine
        /\ exposed' = exposed \cup Unwritten(mine)
        /\ forgotten' = forgotten \cup {m \in sent : Holds(n, m)}
        /\ raced' = [raced EXCEPT ![n] = FALSE]
        /\ UNCHANGED <<target, kv, sent, ended, givenUp, offers>>
    BY <1>17 DEF Restart
  <2>1. LogsGood(sent, offers, log')
    <3>1. <<>> \in Seq(Copy) /\ DOMAIN <<>> = {}
      OBVIOUS
    <3>2. NodeGood(sent, offers, empty)
      BY <3>1 DEF NodeGood, HonestLog
    <3> HIDE DEF empty
    <3> QED BY <1>0, <2>0, <3>2 DEF LogsGood
  <2>2. OpsGood(sent, offers, ops')
    BY <1>0, <2>0 DEF OpsGood
  <2>3. exposed' \subseteq sent /\ forgotten' \subseteq sent
    BY <1>0, <2>0 DEF OpsGood, OpGood, Rest, Unwritten
  <2>4. /\ synced' \in [Nodes -> [Queues -> BOOLEAN]]
        /\ api' \in [Nodes -> [Queues -> SUBSET Msgs]]
        /\ raced' \in [Nodes -> BOOLEAN]
    BY <1>0, <2>0 DEF Rest
  <2>5. faults' \in 0 .. MaxFaults
    BY <1>0, <2>0, TenantQueueAssumption DEF Rest
  <2>6. LoopsGood(sent, offers, loop')
    BY <1>0, <1>14, <2>0, OneLoopGood
  <2> QED BY <1>0, <2>0, <2>1, <2>2, <2>3, <2>4, <2>5, <2>6 DEF CountsInv, Rest
<1>18. CASE UNCHANGED vars
  BY <1>18 DEF vars, CountsInv, Rest
<1>19. ASSUME NEW n \in Nodes, NEW q \in Queues, NEW i \in DOMAIN log[n][q], LeaseExpires(n, q, i) \/ Retry(n, q, i)
       PROVE  CountsInv'
  BY <1>6, <1>19 DEF LeaseExpires, Retry
<1>20. ASSUME NEW o \in ops, OpFails(o) PROVE CountsInv'
  <2>1. o \in ops /\ o.id \in sent
    BY <1>0, <1>20 DEF OpsGood, OpGood
  <2>2. exposed' \subseteq sent /\ OpsGood(sent, offers, ops')
    BY <1>0, <1>20, <2>1 DEF OpFails, Unwritten, OpsGood, Rest
  <2>3. faults' \in 0 .. MaxFaults
    BY <1>0, <1>20, TenantQueueAssumption DEF OpFails, Rest
  <2> QED BY <1>0, <1>20, <2>2, <2>3 DEF OpFails, CountsInv, Rest
<1> QED BY <1>1, <1>2, <1>3, <1>4, <1>5, <1>7, <1>8, <1>9, <1>11, <1>12, <1>13, <1>15, <1>16,
           <1>17, <1>18, <1>19, <1>20, Bounds DEF Next, Serve, Touch, LoopStep

LEMMA CountsInvariant == Spec => []CountsInv
BY CountsInit, CountsStep, PTL DEF Spec

(* Every variable has its type: no copy counts more attempts than the       *)
(* consumers and the loops may make, and what ends, is given up or is       *)
(* missing somewhere was sent (QueueMessage, queues.rs).                    *)
THEOREM TypeCorrect == Spec => []TypeOK
<1>1. CountsInv => TypeOK
  <2> SUFFICES ASSUME CountsInv PROVE TypeOK
    OBVIOUS
  <2>1. log \in [Nodes -> [Queues -> Seq(Copy)]]
    <3>1. log = [n \in Nodes |-> log[n]] /\ \A n \in Nodes : NodeGood(sent, offers, log[n])
      BY DEF CountsInv, LogsGood
    <3>2. \A n \in Nodes : log[n] \in [Queues -> Seq(Copy)]
      BY <3>1 DEF NodeGood, HonestLog
    <3> QED BY <3>1, <3>2
  <2>2. ops \subseteq OpRecord /\ givenUp \subseteq sent
    BY DEF CountsInv, OpsGood, OpGood, GivenUpGood
  <2>3. loop \in [Nodes -> LoopRecord]
    BY DEF CountsInv, LoopsGood, LoopGood
  <2> QED BY <2>1, <2>2, <2>3 DEF CountsInv, Rest, MirrorGood, OffersOK, TypeOK
<1> QED BY <1>1, CountsInvariant, PTL

(* A message is given up only after more than max_retries offers, through   *)
(* any number of pulls and pushes on any nodes, restarts and mirror writes  *)
(* that land in any order (pull, take_due_for_push, reschedule).            *)
THEOREM AttemptsHonestCorrect == Spec => []AttemptsHonest
<1>1. CountsInv => AttemptsHonest
  <2> SUFFICES ASSUME CountsInv PROVE AttemptsHonest
    OBVIOUS
  <2>1. \A n \in Nodes, q \in Queues : \A i \in DOMAIN log[n][q] :
            Honest(sent, offers, log[n][q][i].id, log[n][q][i].attempts)
    BY DEF CountsInv, LogsGood, NodeGood, HonestLog
  <2>2. \A q \in Queues : \A m \in Mirrored(q) : Honest(sent, offers, m, kv[q][m])
    BY DEF CountsInv, MirrorGood, Mirrored
  <2>3. \A m \in givenUp : offers[m] > MaxRetries
    BY DEF CountsInv, GivenUpGood
  <2> QED BY <2>1, <2>2, <2>3 DEF AttemptsHonest, Honest
<1> QED BY <1>1, CountsInvariant, PTL

----------------------------------------------------------------------------
(* No message is lost: in the mirror.                                       *)

PutIn(p, q, m) == \E o \in p : o.kind = "put" /\ o.queue = q /\ o.id = m
DeleteIn(p, q, m) == \E o \in p : o.kind = "delete" /\ o.queue = q /\ o.id = m

(* With the mirror k and the writes p, m is mirrored or about to be, and    *)
(* a delete of its copy in the queue is followed by a letter.               *)
Safe(m, p, k) ==
    /\ ~DeleteIn(p, Dlq, m)
    /\ DeleteIn(p, Main, m) => k[Dlq][m] # Absent \/ PutIn(p, Dlq, m)
    /\ \E q \in Queues : k[q][m] # Absent \/ PutIn(p, q, m)

Kept == \A m \in sent \ (ended \cup exposed) : Safe(m, ops, kv)

(* Writes that delete nothing of m leave it safe.                           *)
LEMMA SafeAdds ==
    ASSUME NEW m, NEW p, NEW X, NEW k, Safe(m, p, k),
           \A o \in X : o.id = m => o.kind # "delete"
    PROVE  Safe(m, p \cup X, k)
<1>1. \A q : PutIn(p, q, m) => PutIn(p \cup X, q, m)
  BY DEF PutIn
<1>2. \A q : DeleteIn(p \cup X, q, m) => DeleteIn(p, q, m)
  BY DEF DeleteIn
<1> QED BY <1>1, <1>2 DEF Safe

LEMMA SafeLands ==
    ASSUME CountsInv, NEW o \in ops, OpLands(o), NEW m \in Msgs, Safe(m, ops, kv)
    PROVE  Safe(m, ops', kv')
<1> DEFINE v == IF o.kind = "put" THEN o.attempts ELSE Absent
<1>1. o \in OpRecord /\ kv \in [Queues -> [Msgs -> 0 .. MaxAttempts \cup {Absent}]]
  BY DEF CountsInv, OpsGood, OpGood, MirrorGood
<1>2. /\ o.kind \in {"put", "delete"} /\ o.queue \in Queues /\ o.id \in Msgs
      /\ o.attempts # Absent
  <2>1. Absent \notin 0 .. MaxAttempts
    BY TenantQueueAssumption, Bounds
  <2> QED BY <1>1, <2>1 DEF OpRecord
<1>3. kv' = [kv EXCEPT ![o.queue][o.id] = v] /\ ops' = ops \ {o}
  BY DEF OpLands
<1> HIDE DEF v
<1>4. \A q \in Queues : kv'[q][m] = IF q = o.queue /\ m = o.id THEN v ELSE kv[q][m]
  BY <1>1, <1>2, <1>3
<1>5. \A q : DeleteIn(ops', q, m) => DeleteIn(ops, q, m)
  BY <1>3 DEF DeleteIn
<1>6. CASE o.id # m
  <2>1. \A q \in Queues : /\ kv'[q][m] = kv[q][m]
                          /\ PutIn(ops, q, m) => PutIn(ops', q, m)
    BY <1>3, <1>4, <1>6 DEF PutIn
  <2> QED BY <1>5, <2>1, Bounds DEF Safe
<1>7. CASE o.id = m /\ o.kind = "put"
  <2>1. v # Absent /\ kv'[o.queue][m] # Absent
    BY <1>2, <1>4, <1>7 DEF v
  <2>2. \A q \in Queues : kv[q][m] # Absent => kv'[q][m] # Absent
    BY <1>4, <2>1
  <2>3. \A q \in Queues : PutIn(ops, q, m) => PutIn(ops', q, m) \/ kv'[q][m] # Absent
    BY <1>3, <2>1 DEF PutIn
  <2> QED BY <1>5, <2>2, <2>3, Bounds DEF Safe
<1>8. CASE o.id = m /\ o.kind = "delete"
  <2>1. DeleteIn(ops, o.queue, m)
    BY <1>8 DEF DeleteIn
  <2>2. o.queue = Main
    BY <1>2, <2>1, Bounds DEF Safe
  <2>3. kv'[Dlq][m] = kv[Dlq][m] /\ (PutIn(ops, Dlq, m) => PutIn(ops', Dlq, m))
    BY <1>3, <1>4, <1>8, <2>2, Bounds DEF PutIn
  <2> QED BY <1>5, <2>1, <2>2, <2>3, Bounds DEF Safe
<1> QED BY <1>2, <1>6, <1>7, <1>8

LEMMA KeptStep == CountsInv /\ Kept /\ [Next]_vars => Kept'
<1> SUFFICES ASSUME CountsInv, Kept, [Next]_vars PROVE Kept'
  OBVIOUS
<1>0. sent \subseteq Msgs /\ \A o \in ops : o.id \in sent
  BY DEF CountsInv, OffersOK, OpsGood, OpGood
<1>1. ASSUME UNCHANGED <<sent, ended, exposed, ops, kv>> PROVE Kept'
  BY <1>1 DEF Kept
<1>2. ASSUME NEW o \in ops, OpLands(o) PROVE Kept'
  <2>1. ASSUME NEW m \in sent \ (ended \cup exposed) PROVE Safe(m, ops', kv')
    BY <1>0, <1>2, <2>1, SafeLands DEF Kept
  <2> QED BY <1>2, <2>1 DEF OpLands, Kept
<1>3. ASSUME NEW n \in Nodes, NEW m \in Msgs, Send(n, m) PROVE Kept'
  <2> DEFINE c == [id |-> m, attempts |-> 0, lease |-> "none"]
             w == Put(n, Main, c)
  <2>1. /\ ops' = ops \cup {w} /\ m \notin sent /\ sent' = sent \cup {m}
        /\ UNCHANGED <<kv, ended, exposed>>
        /\ w.kind = "put" /\ w.queue = Main /\ w.id = m
    BY <1>3 DEF Send, Spawn, Put
  <2> HIDE DEF w
  <2>2. Safe(m, ops', kv)
    BY <1>0, <2>1, Bounds DEF Safe, DeleteIn, PutIn
  <2>3. ASSUME NEW k \in sent \ (ended \cup exposed) PROVE Safe(k, ops', kv)
    BY <2>1, SafeAdds DEF Kept
  <2> QED BY <2>1, <2>2, <2>3 DEF Kept
(* Deletes of messages that have ended.                                     *)
<1>4. ASSUME NEW X, ops' = ops \cup X, \A o \in X : o.kind = "delete" => o.id \in ended',
             ended \subseteq ended', UNCHANGED <<sent, exposed, kv>>
      PROVE  Kept'
  <2>1. ASSUME NEW m \in sent \ (ended' \cup exposed) PROVE Safe(m, ops', kv)
    BY <1>4, SafeAdds DEF Kept
  <2> QED BY <1>4, <2>1 DEF Kept
<1>5. ASSUME NEW n \in Nodes, NEW q \in Queues, NEW i \in DOMAIN log[n][q], Ack(n, q, i) PROVE Kept'
  <2> DEFINE X == {Delete(n, q, log[n][q][i].id)}
  <2>1. ops' = ops \cup X /\ ended \subseteq ended' /\ UNCHANGED <<sent, exposed, kv>>
    BY <1>5 DEF Ack, Spawn
  <2>2. \A o \in X : o.id \in ended'
    BY <1>5 DEF Ack, Delete
  <2> HIDE DEF X
  <2> QED BY <1>4, <2>1, <2>2
<1>6. ASSUME NEW n \in Nodes, NEW old \in SUBSET Msgs, SweepExpired(n, old) PROVE Kept'
  <2> DEFINE q == loop[n].queue
             expired == {i \in DOMAIN log[n][q] : log[n][q][i].id \in old}
             reap == {log[n][q][i].id : i \in {k \in expired :
                         Cardinality({j \in expired : j <= k}) <= MaxReap(Len(log[n][q]))}}
             X == {Delete(n, q, m) : m \in reap}
  <2>1. ops' = ops \cup X /\ ended' = ended \cup reap /\ UNCHANGED <<sent, exposed, kv>>
    BY <1>6 DEF SweepExpired, Spawn
  <2> HIDE DEF reap
  <2>2. \A o \in X : o.id \in reap
    BY DEF Delete
  <2> HIDE DEF X
  <2> QED BY <1>4, <2>1, <2>2
<1>7. ASSUME NEW n \in Nodes, PushOk(n) PROVE Kept'
  <2> DEFINE X == DeleteAll(n, loop[n].queue, loop[n].batch)
  <2>1. ops' = ops \cup X /\ ended' = ended \cup Ids(loop[n].batch) /\ UNCHANGED <<sent, exposed, kv>>
    BY <1>7 DEF PushOk, Spawn
  <2>2. \A o \in X : o.id \in Ids(loop[n].batch)
    BY DEF DeleteAll, Delete
  <2> HIDE DEF X
  <2> QED BY <1>4, <2>1, <2>2
<1>8. ASSUME NEW n \in Nodes, PushFails(n) PROVE Kept'
  <2> DEFINE D == DeleteAll(n, Main, Gone(n))
             P == LetterPuts(n)
             A == PutAll(n, Main, Again(n))
             G == Ids(Gone(n))
  <2>1. /\ ops' = ops \cup ((D \cup P) \cup A) /\ UNCHANGED <<sent, kv>>
        /\ ended' = IF target = None THEN ended \cup G ELSE ended
        /\ exposed' = IF target = Main THEN exposed \cup G ELSE exposed
    BY <1>8, PushFailsIs
  <2>2. /\ \A o \in D : o.kind = "delete" /\ o.queue = Main /\ o.id \in G
        /\ \A o \in P \cup A : o.kind = "put"
    BY DEF DeleteAll, Delete, PutAll, Put, LetterPuts
  <2>3. target = Dlq => \A m \in G : PutIn(P, Dlq, m)
    <3> SUFFICES ASSUME target = Dlq PROVE \A m \in G : PutIn(P, Dlq, m)
      OBVIOUS
    <3>1. \A k \in DOMAIN Gone(n) : k \in DOMAIN Letters(n) /\ Letters(n)[k].id = Gone(n)[k].id
      BY LettersGood
    <3>2. P = PutAll(n, Dlq, Letters(n))
      BY Bounds DEF LetterPuts
    <3>3. \A k \in DOMAIN Gone(n) : LET o == Put(n, Dlq, Letters(n)[k]) IN
              o \in P /\ o.kind = "put" /\ o.queue = Dlq /\ o.id = Gone(n)[k].id
      BY <3>1, <3>2 DEF PutAll, Put
    <3> HIDE DEF P
    <3>4. ASSUME NEW k \in DOMAIN Gone(n) PROVE PutIn(P, Dlq, Gone(n)[k].id)
      BY <3>3 DEF PutIn
    <3> QED BY <3>4 DEF Ids
  <2>4. target \in {Main, Dlq, None}
    BY Bounds DEF CountsInv, Rest
  <2> HIDE DEF D, P, A, G
  <2>5. ASSUME NEW m \in sent \ (ended' \cup exposed') PROVE Safe(m, ops', kv)
    <3>1. Safe(m, ops, kv) /\ (m \in G => target = Dlq)
      BY <2>1, <2>4 DEF Kept
    <3>2. CASE m \notin G
      BY <2>1, <2>2, <3>1, <3>2, SafeAdds
    <3>3. CASE m \in G
      <4>1. PutIn(ops', Dlq, m)
        BY <2>1, <2>3, <3>1, <3>3 DEF PutIn
      <4>2. ~DeleteIn(ops', Dlq, m)
        BY <2>1, <2>2, <3>1, Bounds DEF DeleteIn, Safe
      <4> QED BY <4>1, <4>2, Bounds DEF Safe
    <3> QED BY <3>2, <3>3
  <2> QED BY <2>1, <2>5 DEF Kept
(* Writes that are gone: a message of theirs that is not exposed has none   *)
(* of its puts among them.                                                  *)
<1>9. ASSUME NEW X, ops' = ops \ X, exposed' = exposed \cup Unwritten(X),
             X \subseteq ops, UNCHANGED <<kv, sent, ended>>
      PROVE  Kept'
  <2>1. ASSUME NEW m \in sent \ (ended \cup exposed') PROVE Safe(m, ops', kv)
    <3>1. m \notin exposed /\ \A q : PutIn(ops, q, m) => PutIn(ops', q, m)
      BY <1>9 DEF PutIn, Unwritten
    <3>2. \A q : DeleteIn(ops', q, m) => DeleteIn(ops, q, m)
      BY <1>9 DEF DeleteIn
    <3>3. Safe(m, ops, kv)
      BY <3>1 DEF Kept
    <3> QED BY <3>1, <3>2, <3>3 DEF Safe
  <2> QED BY <1>9, <2>1 DEF Kept
<1>18. ASSUME NEW n \in Nodes, Restart(n) PROVE Kept'
  BY <1>9, <1>18 DEF Restart
<1>19. ASSUME NEW o \in ops, OpFails(o) PROVE Kept'
  BY <1>9, <1>19 DEF OpFails
<1>10. ASSUME NEW n \in Nodes, NEW q \in Queues, FirstTouch(n, q) \/ Visit(n, q) PROVE Kept'
  BY <1>1, <1>10 DEF FirstTouch, Visit
<1>11. ASSUME NEW n \in Nodes, NEW q \in Queues, NEW m \in Msgs, FirstTouchKey(n, q, m) PROVE Kept'
  BY <1>1, <1>11 DEF FirstTouchKey
<1>12. ASSUME NEW n \in Nodes, NEW q \in Queues, NEW I, Pull(n, q, I) PROVE Kept'
  BY <1>1, <1>12 DEF Pull
<1>13. ASSUME NEW n \in Nodes, NEW q \in Queues, NEW i, LeaseExpires(n, q, i) \/ Retry(n, q, i) PROVE Kept'
  BY <1>1, <1>13 DEF LeaseExpires, Retry
<1>14. ASSUME NEW n \in Nodes, NEW m \in Msgs, SyncKey(n, m) PROVE Kept'
  BY <1>1, <1>14 DEF SyncKey
<1>15. ASSUME NEW n \in Nodes, SyncDone(n) PROVE Kept'
  BY <1>1, <1>15 DEF SyncDone
<1>16. ASSUME NEW n \in Nodes, NEW I, TakeDueForPush(n, I) PROVE Kept'
  BY <1>1, <1>16 DEF TakeDueForPush
<1>17. CASE UNCHANGED vars
  BY <1>1, <1>17 DEF vars
<1> QED BY <1>2, <1>3, <1>5, <1>6, <1>7, <1>8, <1>10, <1>11, <1>12, <1>13, <1>14, <1>15,
           <1>16, <1>17, <1>18, <1>19, Bounds DEF Next, Serve, Touch, LoopStep

----------------------------------------------------------------------------
(* No message is lost: in memory.                                           *)

Remembered == \A m \in sent \ (ended \cup forgotten) : \E n \in Nodes : Holds(n, m)

LEMMA IdsAppend ==
    ASSUME NEW s \in Seq(Copy), NEW c
    PROVE  Ids(Append(s, c)) = Ids(s) \cup {c.id}
<1>1. /\ Len(s) \in Nat /\ DOMAIN s = 1 .. Len(s) /\ DOMAIN Append(s, c) = 1 .. Len(s) + 1
      /\ \A i \in 1 .. Len(s) : Append(s, c)[i] = s[i]
      /\ Append(s, c)[Len(s) + 1] = c
  OBVIOUS
<1> DEFINE k == Len(s)
           t == Append(s, c)
<1>2. k \in Nat /\ DOMAIN s = 1 .. k /\ DOMAIN t = 1 .. k + 1
      /\ (\A i \in 1 .. k : t[i] = s[i]) /\ t[k + 1] = c
  BY <1>1
<1> HIDE DEF k, t
<1>3. \A i \in DOMAIN t : i = k + 1 \/ i \in DOMAIN s
  BY <1>2
<1>4. k + 1 \in DOMAIN t /\ DOMAIN s \subseteq DOMAIN t
  BY <1>2
<1>5. Ids(t) = Ids(s) \cup {c.id}
  BY <1>2, <1>3, <1>4 DEF Ids
<1> QED BY <1>5 DEF t

LEMMA IdsConcat ==
    ASSUME NEW s \in Seq(Copy), NEW t \in Seq(Copy)
    PROVE  s \o t \in Seq(Copy) /\ Ids(s \o t) = Ids(s) \cup Ids(t)
<1>1. /\ Len(s) \in Nat /\ Len(t) \in Nat
      /\ DOMAIN s = 1 .. Len(s) /\ DOMAIN t = 1 .. Len(t)
      /\ DOMAIN (s \o t) = 1 .. Len(s) + Len(t)
      /\ \A i \in 1 .. Len(s) + Len(t) :
             (s \o t)[i] = IF i <= Len(s) THEN s[i] ELSE t[i - Len(s)]
  OBVIOUS
<1> DEFINE a == Len(s)
           b == Len(t)
           u == s \o t
<1>2. /\ a \in Nat /\ b \in Nat /\ DOMAIN s = 1 .. a /\ DOMAIN t = 1 .. b
      /\ DOMAIN u = 1 .. a + b
      /\ \A i \in 1 .. a + b : u[i] = IF i <= a THEN s[i] ELSE t[i - a]
  BY <1>1
<1> HIDE DEF a, b, u
<1>3. \A i \in DOMAIN u : \/ i \in DOMAIN s /\ u[i] = s[i]
                          \/ i - a \in DOMAIN t /\ u[i] = t[i - a]
  BY <1>2
<1>4. \A i \in DOMAIN s : i \in DOMAIN u /\ u[i] = s[i]
  BY <1>2
<1>5. \A i \in DOMAIN t : a + i \in DOMAIN u /\ u[a + i] = t[i]
  <2> SUFFICES ASSUME NEW i \in DOMAIN t PROVE a + i \in DOMAIN u /\ u[a + i] = t[i]
    OBVIOUS
  <2>1. i \in 1 .. b /\ a + i \in 1 .. a + b /\ ~(a + i <= a) /\ (a + i) - a = i
    BY <1>2
  <2> QED BY <1>2, <2>1
<1>6. Ids(u) = Ids(s) \cup Ids(t)
  <2>1. Ids(u) \subseteq Ids(s) \cup Ids(t)
    BY <1>3 DEF Ids
  <2>2. Ids(s) \subseteq Ids(u)
    BY <1>4 DEF Ids
  <2>3. Ids(t) \subseteq Ids(u)
    BY <1>5 DEF Ids
  <2> QED BY <2>1, <2>2, <2>3
<1> QED BY <1>6 DEF u

LEMMA IdsPicked ==
    ASSUME NEW s \in Seq(Copy), NEW J \in SUBSET DOMAIN s
    PROVE  Ids(Picked(s, J)) = {s[i].id : i \in J}
<1> DEFINE P == Picked(s, J)
<1>1. /\ \A k \in DOMAIN P : \E i \in J : P[k] = s[i]
      /\ \A i \in J : \E k \in DOMAIN P : P[k] = s[i]
  BY PickedElements
<1> HIDE DEF P
<1>2. Ids(P) = {s[i].id : i \in J}
  BY <1>1 DEF Ids
<1> QED BY <1>2 DEF P

(* Sequences with the same messages at the same positions.                  *)
LEMMA SameIds ==
    ASSUME NEW s, NEW t, DOMAIN t = DOMAIN s, \A i \in DOMAIN s : t[i].id = s[i].id
    PROVE  Ids(t) = Ids(s)
BY DEF Ids

LEMMA RememberedStep == CountsInv /\ Remembered /\ [Next]_vars => Remembered'
<1> SUFFICES ASSUME CountsInv, Remembered, [Next]_vars PROVE Remembered'
  OBVIOUS
<1>0. /\ DOMAIN log = Nodes /\ DOMAIN loop = Nodes
      /\ \A n \in Nodes :
            /\ DOMAIN log[n] = Queues /\ \A q \in Queues : log[n][q] \in Seq(Copy)
            /\ loop[n].batch \in Seq(Copy) /\ loop[n] \in LoopRecord /\ loop[n].queue \in Queues
            /\ loop[n].at # "await" => loop[n].batch = <<>>
            /\ loop[n].at \in {"take", "await"} => loop[n].queue = Main
      /\ kv \in [Queues -> [Msgs -> 0 .. MaxAttempts \cup {Absent}]]
  BY DEF CountsInv, LogsGood, NodeGood, HonestLog, LoopsGood, LoopGood, BatchGood, LoopRecord,
         MirrorGood
<1>1. Ids(<<>>) = {}
  BY DEF Ids
(* Only node n steps, and it forgets only what has ended or is forgotten.   *)
<1>2. ASSUME NEW n \in Nodes, UNCHANGED sent, ended \subseteq ended', forgotten \subseteq forgotten',
             \A k \in Nodes \ {n} : log'[k] = log[k] /\ loop'[k] = loop[k],
             \A m \in sent \ (ended' \cup forgotten') : Holds(n, m) => Holds(n, m)'
      PROVE  Remembered'
  <2> SUFFICES ASSUME NEW m \in sent \ (ended' \cup forgotten')
               PROVE  \E k \in Nodes : Holds(k, m)'
    BY <1>2 DEF Remembered
  <2>1. PICK k \in Nodes : Holds(k, m)
    BY <1>2 DEF Remembered
  <2>2. CASE k = n
    BY <1>2, <2>1, <2>2
  <2>3. CASE k # n
    <3>1. Holds(k, m)'
      BY <1>2, <2>1, <2>3 DEF Holds
    <3> QED BY <3>1
  <2> QED BY <2>2, <2>3
<1>3. ASSUME UNCHANGED <<log, loop, sent, ended, forgotten>> PROVE Remembered'
  BY <1>3 DEF Remembered, Holds
(* A log that keeps all but the messages R, which have ended.               *)
<1>4. ASSUME NEW n \in Nodes, NEW q \in Queues, NEW s, NEW R,
             log' = [log EXCEPT ![n][q] = s], Ids(log[n][q]) \ R \subseteq Ids(s),
             ended' = ended \cup R, UNCHANGED <<sent, forgotten>>,
             \A k \in Nodes : loop'[k].batch = loop[k].batch,
             \A k \in Nodes \ {n} : loop'[k] = loop[k]
      PROVE  Remembered'
  <2>1. log'[n][q] = s /\ \A p \in Queues \ {q} : log'[n][p] = log[n][p]
    BY <1>0, <1>4
  <2>2. \A k \in Nodes \ {n} : log'[k] = log[k]
    BY <1>0, <1>4
  <2>3. ASSUME NEW m \in sent \ (ended' \cup forgotten'), Holds(n, m) PROVE Holds(n, m)'
    <3>1. m \notin R
      BY <1>4
    <3> QED BY <1>4, <2>1, <2>3, <3>1 DEF Holds
  <2> QED BY <1>2, <1>4, <2>2, <2>3
<1>5. ASSUME NEW n \in Nodes, NEW q \in Queues, NEW m \in Msgs, AdoptKey(n, q, m),
             UNCHANGED <<sent, ended, forgotten>>,
             \A k \in Nodes : loop'[k].batch = loop[k].batch,
             \A k \in Nodes \ {n} : loop'[k] = loop[k]
      PROVE  Remembered'
  <2> DEFINE c == [id |-> m, attempts |-> kv[q][m], lease |-> "none"]
  <2>1. CASE m \in Mirrored(q) \ Ids(log[n][q])
    <3>1. log' = [log EXCEPT ![n][q] = Append(log[n][q], c)]
      BY <1>0, <1>5, <2>1 DEF AdoptKey
    <3> HIDE DEF c
    <3>2. Ids(log[n][q]) \ {} \subseteq Ids(Append(log[n][q], c)) /\ ended' = ended \cup {}
      BY <1>0, <1>5, IdsAppend
    <3> QED BY <1>4, <1>5, <3>1, <3>2
  <2>2. CASE m \notin Mirrored(q) \ Ids(log[n][q])
    <3>1. UNCHANGED log
      BY <1>5, <2>2 DEF AdoptKey
    <3>2. \A k \in Nodes, i \in Msgs : Holds(k, i) => Holds(k, i)'
      BY <1>5, <3>1 DEF Holds
    <3> QED BY <1>5, <3>2 DEF Remembered, CountsInv, OffersOK
  <2> QED BY <2>1, <2>2
<1>6. ASSUME NEW n \in Nodes, NEW q \in Queues, FirstTouch(n, q) PROVE Remembered'
  BY <1>3, <1>6 DEF FirstTouch
<1>7. ASSUME NEW n \in Nodes, NEW q \in Queues, NEW m \in Msgs, FirstTouchKey(n, q, m)
      PROVE  Remembered'
  <2>1. AdoptKey(n, q, m) /\ UNCHANGED <<sent, ended, forgotten, loop>>
    BY <1>7 DEF FirstTouchKey
  <2> QED BY <1>5, <2>1
<1>8. ASSUME NEW n \in Nodes, NEW m \in Msgs, Send(n, m) PROVE Remembered'
  <2> DEFINE c == [id |-> m, attempts |-> 0, lease |-> "none"]
             s == Append(log[n][Main], c)
  <2>1. /\ log' = [log EXCEPT ![n][Main] = s] /\ sent' = sent \cup {m}
        /\ UNCHANGED <<loop, ended, forgotten>>
    BY <1>0, <1>8, Bounds DEF Send
  <2>2. c.id = m
    OBVIOUS
  <2> HIDE DEF c
  <2>3. Ids(s) = Ids(log[n][Main]) \cup {m}
    BY <1>0, <2>2, Bounds, IdsAppend
  <2> HIDE DEF s
  <2>4. /\ log'[n][Main] = s /\ \A p \in Queues \ {Main} : log'[n][p] = log[n][p]
        /\ \A k \in Nodes \ {n} : log'[k] = log[k]
    BY <1>0, <2>1, Bounds
  <2>5. \A k \in Nodes, i \in Msgs : Holds(k, i) => Holds(k, i)'
    BY <2>1, <2>3, <2>4 DEF Holds
  <2>6. Holds(n, m)'
    BY <2>3, <2>4, Bounds DEF Holds
  <2> QED BY <2>1, <2>5, <2>6 DEF Remembered, CountsInv, OffersOK
<1>9. ASSUME NEW n \in Nodes, NEW q \in Queues, NEW I \in SUBSET DOMAIN log[n][q], Pull(n, q, I)
      PROVE  Remembered'
  <2> DEFINE s == log[n][q]
             t == [i \in DOMAIN s |-> IF i \in I THEN Leased(s[i]) ELSE s[i]]
  <2>1. log' = [log EXCEPT ![n][q] = t] /\ UNCHANGED <<sent, ended, forgotten, loop>>
    BY <1>0, <1>9 DEF Pull
  <2>2. \A i \in DOMAIN s : s[i] \in Copy
    BY <1>0, ElementOfSeq
  <2>3. \A c \in Copy : Leased(c).id = c.id
    BY DEF Leased, Copy
  <2>4. Ids(t) = Ids(s)
    <3>1. DOMAIN t = DOMAIN s /\ \A i \in DOMAIN s : t[i].id = s[i].id
      BY <2>2, <2>3
    <3> HIDE DEF t, s
    <3> QED BY <3>1, SameIds
  <2> HIDE DEF t
  <2>5. Ids(log[n][q]) \ {} \subseteq Ids(t) /\ ended' = ended \cup {}
    BY <2>1, <2>4
  <2> QED BY <1>4, <2>1, <2>5
<1>10. ASSUME NEW n \in Nodes, NEW q \in Queues, NEW i \in DOMAIN log[n][q],
              LeaseExpires(n, q, i) \/ Retry(n, q, i)
       PROVE  Remembered'
  <2>1. PICK lease \in {"none", "expired"} : log' = [log EXCEPT ![n][q][i].lease = lease]
    BY <1>10 DEF LeaseExpires, Retry
  <2> DEFINE s == log[n][q]
             t == [s EXCEPT ![i].lease = lease]
  <2>2. log' = [log EXCEPT ![n][q] = t] /\ UNCHANGED <<sent, ended, forgotten, loop>>
    BY <1>0, <1>10, <2>1 DEF LeaseExpires, Retry
  <2>3. \A j \in DOMAIN s : s[j] \in Copy
    BY <1>0, ElementOfSeq
  <2>4. Ids(t) = Ids(s)
    <3>1. DOMAIN t = DOMAIN s /\ \A j \in DOMAIN s : t[j].id = s[j].id
      BY <2>3 DEF Copy
    <3> HIDE DEF t, s
    <3> QED BY <3>1, SameIds
  <2> HIDE DEF t
  <2>5. Ids(log[n][q]) \ {} \subseteq Ids(t) /\ ended' = ended \cup {}
    BY <2>2, <2>4
  <2> QED BY <1>4, <2>2, <2>5
<1>11. ASSUME NEW n \in Nodes, NEW q \in Queues, NEW i \in DOMAIN log[n][q], Ack(n, q, i)
       PROVE  Remembered'
  <2> DEFINE s == log[n][q]
             J == DOMAIN s \ {i}
             t == Picked(s, J)
             R == {s[i].id}
  <2>1. log' = [log EXCEPT ![n][q] = t] /\ ended' = ended \cup R
        /\ UNCHANGED <<sent, forgotten, loop>>
    BY <1>0, <1>11 DEF Ack
  <2>2. Ids(t) = {s[j].id : j \in J}
    BY <1>0, IdsPicked
  <2>3. Ids(s) \ R \subseteq Ids(t)
    BY <2>2 DEF Ids
  <2> HIDE DEF t, R
  <2> QED BY <1>4, <2>1, <2>3
<1>12. ASSUME NEW n \in Nodes, NEW q \in Queues, Visit(n, q) PROVE Remembered'
  <2>1. PICK x : x.batch = <<>> /\ loop' = [loop EXCEPT ![n] = x]
    BY <1>12 DEF Visit
  <2>2. UNCHANGED <<log, sent, ended, forgotten>> /\ loop[n].batch = <<>>
    BY <1>0, <1>12 DEF Visit
  <2>3. loop'[n].batch = loop[n].batch /\ \A k \in Nodes \ {n} : loop'[k] = loop[k]
    BY <1>0, <2>1, <2>2
  <2>4. \A m : Holds(n, m) => Holds(n, m)'
    BY <2>2, <2>3 DEF Holds
  <2> QED BY <1>2, <2>2, <2>3, <2>4
(* A step of n's loop that keeps its batch.                                 *)
<1>13. ASSUME NEW n \in Nodes, NEW x, loop' = [loop EXCEPT ![n] = x], x.batch = loop[n].batch
       PROVE  /\ \A k \in Nodes : loop'[k].batch = loop[k].batch
              /\ \A k \in Nodes \ {n} : loop'[k] = loop[k]
  BY <1>0, <1>13
<1>14. ASSUME NEW n \in Nodes, NEW m \in Msgs, SyncKey(n, m) PROVE Remembered'
  <2> DEFINE x == [loop[n] EXCEPT !.keys = @ \ {m}]
  <2>1. loop' = [loop EXCEPT ![n] = x] /\ x.batch = loop[n].batch
    BY <1>0, <1>14 DEF SyncKey, LoopRecord
  <2> HIDE DEF x
  <2>2. AdoptKey(n, loop[n].queue, m) /\ UNCHANGED <<sent, ended, forgotten>>
    BY <1>14 DEF SyncKey
  <2> QED BY <1>0, <1>5, <1>13, <2>1, <2>2
<1>15. ASSUME NEW n \in Nodes, SyncDone(n) PROVE Remembered'
  <2>1. PICK at : loop' = [loop EXCEPT ![n].at = at]
    BY <1>15 DEF SyncDone
  <2> DEFINE x == [loop[n] EXCEPT !.at = at]
  <2>2. loop' = [loop EXCEPT ![n] = x] /\ x.batch = loop[n].batch
    BY <1>0, <2>1 DEF LoopRecord
  <2> HIDE DEF x
  <2>3. UNCHANGED <<log, sent, ended, forgotten>>
    BY <1>15 DEF SyncDone
  <2>4. \A m : Holds(n, m) => Holds(n, m)'
    BY <1>13, <2>2, <2>3 DEF Holds
  <2> QED BY <1>2, <1>13, <2>2, <2>3, <2>4
<1>16. ASSUME NEW n \in Nodes, NEW old \in SUBSET Msgs, SweepExpired(n, old) PROVE Remembered'
  <2> DEFINE q == loop[n].queue
             s == log[n][q]
             expired == {i \in DOMAIN s : s[i].id \in old}
             reap == {s[i].id : i \in {k \in expired :
                         Cardinality({j \in expired : j <= k}) <= MaxReap(Len(s))}}
             J == {i \in DOMAIN s : s[i].id \notin reap}
             t == Picked(s, J)
             at == IF q = Main THEN "take" ELSE "idle"
             x == [loop[n] EXCEPT !.at = at]
  <2>1. /\ log' = [log EXCEPT ![n][q] = t] /\ ended' = ended \cup reap
        /\ UNCHANGED <<sent, forgotten>> /\ loop' = [loop EXCEPT ![n].at = at]
    BY <1>0, <1>16 DEF SweepExpired, Filtered
  <2>2. loop' = [loop EXCEPT ![n] = x] /\ x.batch = loop[n].batch
    BY <1>0, <2>1 DEF LoopRecord
  <2> HIDE DEF reap, x
  <2>3. Ids(t) = {s[i].id : i \in J}
    BY <1>0, IdsPicked
  <2>4. Ids(s) \ reap \subseteq Ids(t)
    BY <2>3 DEF Ids
  <2> HIDE DEF t
  <2>5. q \in Queues
    BY <1>0
  <2>6. /\ \A k \in Nodes : loop'[k].batch = loop[k].batch
        /\ \A k \in Nodes \ {n} : loop'[k] = loop[k]
    BY <1>13, <2>2
  <2> HIDE DEF q
  <2> QED BY <1>4, <2>1, <2>4, <2>5, <2>6
<1>17. ASSUME NEW n \in Nodes, NEW I \in SUBSET DOMAIN log[n][loop[n].queue],
              TakeDueForPush(n, I)
       PROVE  Remembered'
  <2> DEFINE s == log[n][Main]
             taken == Picked(s, I)
             b == [k \in DOMAIN taken |-> [taken[k] EXCEPT !.attempts = @ + 1]]
             t == Picked(s, DOMAIN s \ I)
  <2>1. loop[n].queue = Main /\ loop[n].at = "take" /\ loop[n].batch = <<>>
        /\ UNCHANGED <<sent, ended, forgotten>>
    BY <1>0, <1>17 DEF TakeDueForPush
  <2>2. I \in SUBSET DOMAIN s /\ log' = [log EXCEPT ![n][Main] = t]
    BY <1>0, <1>17, <2>1, Bounds DEF TakeDueForPush
  <2>3. loop'[n].batch = b /\ \A k \in Nodes \ {n} : loop'[k] = loop[k]
    BY <1>0, <1>17, <2>1 DEF TakeDueForPush, LoopRecord
  <2>4. s \in Seq(Copy) /\ taken \in Seq(Copy)
    BY <1>0, <2>2, Bounds, PickedSeq
  <2>5. \A k \in DOMAIN taken : taken[k] \in Copy
    BY <2>4, ElementOfSeq
  <2>6. Ids(b) = Ids(taken)
    <3>1. DOMAIN b = DOMAIN taken /\ \A k \in DOMAIN taken : b[k].id = taken[k].id
      BY <2>5 DEF Copy
    <3> HIDE DEF b, taken
    <3> QED BY <3>1, SameIds
  <2>7. Ids(taken) = {s[i].id : i \in I} /\ Ids(t) = {s[i].id : i \in DOMAIN s \ I}
    BY <2>2, <2>4, IdsPicked
  <2>8. Ids(s) \subseteq Ids(b) \cup Ids(t)
    BY <2>6, <2>7 DEF Ids
  <2> HIDE DEF b, t, taken
  <2>9. /\ log'[n][Main] = t /\ \A p \in Queues \ {Main} : log'[n][p] = log[n][p]
        /\ \A k \in Nodes \ {n} : log'[k] = log[k]
    BY <1>0, <2>2, Bounds
  <2>10. \A m : Holds(n, m) => Holds(n, m)'
    BY <1>1, <2>1, <2>3, <2>8, <2>9, Bounds DEF Holds
  <2> QED BY <1>2, <2>1, <2>3, <2>9, <2>10
<1>18. ASSUME NEW n \in Nodes, PushOk(n) PROVE Remembered'
  <2>1. /\ loop' = [loop EXCEPT ![n] = Idle] /\ ended' = ended \cup Ids(loop[n].batch)
        /\ UNCHANGED <<log, sent, forgotten>>
    BY <1>18 DEF PushOk
  <2>2. \A m \in sent \ (ended' \cup forgotten') : Holds(n, m) => Holds(n, m)'
    BY <2>1 DEF Holds
  <2>3. \A k \in Nodes \ {n} : loop'[k] = loop[k]
    BY <1>0, <2>1
  <2> QED BY <1>2, <2>1, <2>2, <2>3
<1>19. ASSUME NEW n \in Nodes, PushFails(n) PROVE Remembered'
  <2> DEFINE s == log[n][Dlq] \o LettersFor(n, Dlq)
             u == log[n][Main] \o LettersFor(n, Main)
             t == u \o Again(n)
             b == loop[n].batch
             G == Ids(Gone(n))
  <2>1. /\ log' = [log EXCEPT ![n][Dlq] = @ \o LettersFor(n, Dlq),
                              ![n][Main] = (@ \o LettersFor(n, Main)) \o Again(n)]
        /\ ended' = IF target = None THEN ended \cup G ELSE ended
        /\ loop' = [loop EXCEPT ![n] = Idle]
        /\ UNCHANGED <<sent, forgotten>>
    BY <1>19, PushFailsIs
  <2>2. /\ log'[n][Dlq] = s /\ log'[n][Main] = t
        /\ \A k \in Nodes \ {n} : log'[k] = log[k] /\ loop'[k] = loop[k]
    BY <1>0, <2>1, Bounds
  <2>3. /\ Again(n) \in Seq(Copy) /\ LettersFor(n, Dlq) \in Seq(Copy)
        /\ LettersFor(n, Main) \in Seq(Copy)
    BY AgainGood, LettersForGood DEF HonestLog
  <2>4. /\ Ids(s) = Ids(log[n][Dlq]) \cup Ids(LettersFor(n, Dlq))
        /\ Ids(u) = Ids(log[n][Main]) \cup Ids(LettersFor(n, Main)) /\ u \in Seq(Copy)
    BY <1>0, <2>3, Bounds, IdsConcat
  <2>5. Ids(t) = Ids(u) \cup Ids(Again(n))
    BY <2>3, <2>4, IdsConcat
  <2>6. Ids(b) \subseteq G \cup Ids(Again(n))
    <3> DEFINE J == {i \in DOMAIN b : ~Exhausted(b[i])}
               K == {i \in DOMAIN b : Exhausted(b[i])}
    <3>1. Again(n) = Picked(b, J) /\ Gone(n) = Picked(b, K) /\ b \in Seq(Copy)
      BY <1>0 DEF Again, Gone
    <3>2. J \in SUBSET DOMAIN b /\ K \in SUBSET DOMAIN b /\ J \cup K = DOMAIN b
      OBVIOUS
    <3> HIDE DEF J, K, b
    <3>3. Ids(Again(n)) = {b[i].id : i \in J} /\ G = {b[i].id : i \in K}
      BY <3>1, <3>2, IdsPicked
    <3> QED BY <3>2, <3>3 DEF Ids
  <2>7. Ids(Letters(n)) = G
    BY LettersGood, SameIds
  <2>8. target \in {Main, Dlq, None}
    BY Bounds DEF CountsInv, Rest
  <2> HIDE DEF s, u, t, b, G
  <2>9. target # None => G \subseteq Ids(s) \cup Ids(t)
    BY <2>4, <2>5, <2>7, <2>8 DEF LettersFor
  <2>10. \A m \in sent \ (ended' \cup forgotten') : Holds(n, m) => Holds(n, m)'
    <3> SUFFICES ASSUME NEW m \in sent \ (ended' \cup forgotten'), Holds(n, m)
                 PROVE  m \in Ids(log'[n][Dlq]) \cup Ids(log'[n][Main])
      BY Bounds DEF Holds
    <3>1. m \in Ids(b) \cup Ids(log[n][Dlq]) \cup Ids(log[n][Main])
      BY Bounds DEF Holds, b
    <3>2. m \in G => target # None
      BY <2>1
    <3> QED BY <2>2, <2>4, <2>5, <2>6, <2>9, <3>1, <3>2
  <2>11. ended \subseteq ended'
    BY <2>1
  <2> QED BY <1>2, <2>1, <2>2, <2>10, <2>11
<1>20. ASSUME NEW n \in Nodes, Restart(n) PROVE Remembered'
  <2>1. /\ log' = [log EXCEPT ![n] = [q \in Queues |-> <<>>]] /\ loop' = [loop EXCEPT ![n] = Idle]
        /\ forgotten' = forgotten \cup {m \in sent : Holds(n, m)}
        /\ UNCHANGED <<sent, ended>>
    BY <1>20 DEF Restart
  <2>2. \A k \in Nodes \ {n} : log'[k] = log[k] /\ loop'[k] = loop[k]
    BY <1>0, <2>1
  <2> QED BY <1>2, <2>1, <2>2
<1>21. ASSUME NEW o \in ops, OpLands(o) \/ OpFails(o) PROVE Remembered'
  BY <1>3, <1>21 DEF OpLands, OpFails
<1>22. CASE UNCHANGED vars
  BY <1>3, <1>22 DEF vars
<1> QED BY <1>6, <1>7, <1>8, <1>9, <1>10, <1>11, <1>12, <1>14, <1>15, <1>16, <1>17, <1>18,
           <1>19, <1>20, <1>21, <1>22, Bounds DEF Next, Serve, Touch, LoopStep

(* A message that nobody acknowledged, delivered, swept or dropped for want *)
(* of a dead-letter queue stays mirrored, in its queue or as a letter, or a *)
(* write of it is on its way, unless one of its writes failed or died: the  *)
(* delete of an exhausted message is never the last word on it              *)
(* (dead_letter).  And some node keeps it in memory, in a log or in its     *)
(* loop, unless one that did has restarted.                                 *)
THEOREM NoMessageLostCorrect == Spec => []NoMessageLost
<1>1. Init => Kept /\ Remembered
  BY DEF Init, Kept, Remembered
<1>2. CountsInv /\ Kept /\ Remembered => NoMessageLost
  <2> SUFFICES ASSUME CountsInv, Kept, Remembered, NEW m \in sent \ ended
               PROVE  /\ m \in exposed \/ Durable(m)
                      /\ m \in forgotten \/ \E n \in Nodes : Holds(n, m)
    BY DEF NoMessageLost
  <2>1. m \notin exposed => Durable(m)
    BY DEF CountsInv, OffersOK, Kept, Safe, PutIn, Durable, Mirrored
  <2>2. m \notin forgotten => \E n \in Nodes : Holds(n, m)
    BY DEF Remembered
  <2> QED BY <2>1, <2>2
<1> QED BY <1>1, <1>2, CountsInit, CountsStep, KeptStep, RememberedStep, PTL DEF Spec

----------------------------------------------------------------------------
(* One consumer.                                                            *)

Distinct(s) == \A i, k \in DOMAIN s : s[i].id = s[k].id => i = k

(* No message is twice in the log s and the batch b.                        *)
Apart(s, b) == Distinct(s) /\ Distinct(b) /\ Ids(s) \cap Ids(b) = {}

OnePlaceOn(n) == raced[n] \/ Apart(log[n][Main], loop[n].batch)

OnePlace == \A n \in Nodes : OnePlaceOn(n)

(* The same messages at the same positions.                                 *)
LEMMA ApartSameIds ==
    ASSUME NEW s, NEW t, NEW b, Apart(s, b), DOMAIN t = DOMAIN s,
           \A i \in DOMAIN s : t[i].id = s[i].id
    PROVE  Apart(t, b)
BY DEF Apart, Distinct, Ids

LEMMA ApartAppend ==
    ASSUME NEW s \in Seq(Copy), NEW b, Apart(s, b), NEW c \in Copy, c.id \notin Ids(s) \cup Ids(b)
    PROVE  Apart(Append(s, c), b)
<1>1. /\ Len(s) \in Nat /\ DOMAIN s = 1 .. Len(s) /\ DOMAIN Append(s, c) = 1 .. Len(s) + 1
      /\ \A i \in 1 .. Len(s) : Append(s, c)[i] = s[i]
      /\ Append(s, c)[Len(s) + 1] = c
  OBVIOUS
<1> DEFINE n == Len(s)
           t == Append(s, c)
<1>2. n \in Nat /\ DOMAIN s = 1 .. n /\ DOMAIN t = 1 .. n + 1
      /\ (\A i \in 1 .. n : t[i] = s[i]) /\ t[n + 1] = c
  BY <1>1
<1> HIDE DEF n, t
<1>3. \A i \in DOMAIN t : i = n + 1 \/ i \in DOMAIN s
  BY <1>2
<1>4. \A i \in DOMAIN s : s[i].id # c.id
  BY DEF Ids
<1>5. Distinct(t)
  BY <1>2, <1>3, <1>4 DEF Distinct, Apart
<1>6. Ids(t) \subseteq Ids(s) \cup {c.id}
  BY <1>2, <1>3 DEF Ids
<1> QED BY <1>5, <1>6 DEF Apart, t

LEMMA PickedDistinct ==
    ASSUME NEW s \in Seq(Copy), NEW J \in SUBSET DOMAIN s, Distinct(s)
    PROVE  Distinct(Picked(s, J)) /\ Ids(Picked(s, J)) = {s[i].id : i \in J}
<1> DEFINE P == Picked(s, J)
<1>1. /\ \A k \in DOMAIN P : \E i \in J : P[k] = s[i]
      /\ \A i \in J : \E k \in DOMAIN P : P[k] = s[i]
      /\ \A k, l \in DOMAIN P :
            k # l => \E i, j \in J : i # j /\ P[k] = s[i] /\ P[l] = s[j]
  BY PickedElements
<1> HIDE DEF P
<1>2. Distinct(P)
  <2> SUFFICES ASSUME NEW k \in DOMAIN P, NEW l \in DOMAIN P, P[k].id = P[l].id, k # l
               PROVE  FALSE
    BY DEF Distinct
  <2>1. PICK i \in J, j \in J : i # j /\ P[k] = s[i] /\ P[l] = s[j]
    BY <1>1
  <2> QED BY <2>1 DEF Distinct
<1>3. Ids(P) = {s[i].id : i \in J}
  BY <1>1 DEF Ids
<1> QED BY <1>2, <1>3 DEF P

LEMMA ApartPicked ==
    ASSUME NEW s \in Seq(Copy), NEW b, Apart(s, b), NEW J \in SUBSET DOMAIN s
    PROVE  Apart(Picked(s, J), b)
<1>1. Distinct(s)
  BY DEF Apart
<1>2. Distinct(Picked(s, J)) /\ Ids(Picked(s, J)) = {s[i].id : i \in J}
  BY <1>1, PickedDistinct
<1>3. {s[i].id : i \in J} \subseteq Ids(s)
  BY DEF Ids
<1> QED BY <1>2, <1>3 DEF Apart

LEMMA ApartConcat ==
    ASSUME NEW s \in Seq(Copy), NEW t \in Seq(Copy), Apart(s, t)
    PROVE  Apart(s \o t, <<>>)
<1>1. /\ Len(s) \in Nat /\ Len(t) \in Nat
      /\ DOMAIN s = 1 .. Len(s) /\ DOMAIN t = 1 .. Len(t)
      /\ DOMAIN (s \o t) = 1 .. Len(s) + Len(t)
      /\ \A i \in 1 .. Len(s) + Len(t) :
             (s \o t)[i] = IF i <= Len(s) THEN s[i] ELSE t[i - Len(s)]
  OBVIOUS
<1> DEFINE n == Len(s)
           k == Len(t)
           u == s \o t
<1>2. /\ n \in Nat /\ k \in Nat /\ DOMAIN s = 1 .. n /\ DOMAIN t = 1 .. k
      /\ DOMAIN u = 1 .. n + k
      /\ \A i \in 1 .. n + k : u[i] = IF i <= n THEN s[i] ELSE t[i - n]
  BY <1>1
<1> HIDE DEF n, k, u
<1>3. \A i \in DOMAIN u : \/ i \in DOMAIN s /\ u[i] = s[i]
                          \/ i \notin DOMAIN s /\ i - n \in DOMAIN t /\ u[i] = t[i - n]
  BY <1>2
<1>4. \A i \in DOMAIN s, j \in DOMAIN t : s[i].id # t[j].id
  BY DEF Apart, Ids
<1>5. ASSUME NEW i \in DOMAIN u, NEW j \in DOMAIN u, u[i].id = u[j].id PROVE i = j
  <2>1. CASE i \in DOMAIN s
    <3>1. j \in DOMAIN s /\ u[i] = s[i] /\ u[j] = s[j]
      BY <1>3, <1>4, <1>5, <2>1
    <3> QED BY <1>5, <2>1, <3>1 DEF Apart, Distinct
  <2>2. CASE i \notin DOMAIN s
    <3>1. /\ i - n \in DOMAIN t /\ u[i] = t[i - n]
          /\ j - n \in DOMAIN t /\ u[j] = t[j - n]
      BY <1>3, <1>4, <1>5, <2>2
    <3>2. i - n = j - n
      BY <1>5, <3>1 DEF Apart, Distinct
    <3> QED BY <1>2, <3>2
  <2> QED BY <2>1, <2>2
<1>6. Distinct(u) /\ Ids(<<>>) = {} /\ Distinct(<<>>)
  BY <1>5 DEF Distinct, Ids
<1> QED BY <1>6 DEF Apart, u

(* On every node but n, what OnePlace speaks of stays as it is.             *)
Others(n) == \A k \in Nodes \ {n} : /\ log'[k] = log[k] /\ loop'[k] = loop[k]
                                    /\ raced'[k] = raced[k]

LEMMA OnePlaceStep == CountsInv /\ OnePlace /\ [Next]_vars => OnePlace'
<1> SUFFICES ASSUME CountsInv, OnePlace, [Next]_vars PROVE OnePlace'
  OBVIOUS
<1>0. /\ DOMAIN log = Nodes /\ DOMAIN loop = Nodes /\ raced \in [Nodes -> BOOLEAN]
      /\ \A n \in Nodes :
            /\ DOMAIN log[n] = Queues
            /\ \A q \in Queues : /\ log[n][q] \in Seq(Copy)
                                 /\ \A i \in DOMAIN log[n][q] : log[n][q][i].id \in sent
            /\ loop[n].batch \in Seq(Copy)
            /\ \A i \in DOMAIN loop[n].batch : loop[n].batch[i].id \in sent
            /\ loop[n].at # "await" => loop[n].batch = <<>>
            /\ loop[n].at \in {"take", "await"} => loop[n].queue = Main
            /\ loop[n] \in LoopRecord /\ loop[n].queue \in Queues
      /\ kv \in [Queues -> [Msgs -> 0 .. MaxAttempts \cup {Absent}]]
  BY DEF CountsInv, Rest, LogsGood, NodeGood, HonestLog, Honest, LoopsGood, LoopGood, BatchGood,
         LoopRecord, MirrorGood
<1>1. ASSUME NEW n \in Nodes, Others(n),
             ~raced'[n] => Apart(log'[n][Main], loop'[n].batch)
      PROVE  OnePlace'
  <2> SUFFICES ASSUME NEW k \in Nodes PROVE raced'[k] \/ Apart(log'[k][Main], loop'[k].batch)
    BY DEF OnePlace, OnePlaceOn
  <2>1. CASE k = n
    BY <1>1, <2>1
  <2>2. CASE k # n
    <3>1. raced[k] \/ Apart(log[k][Main], loop[k].batch)
      BY DEF OnePlace, OnePlaceOn
    <3> QED BY <1>1, <2>2, <3>1 DEF Others
  <2> QED BY <2>1, <2>2
<1>2. Ids(<<>>) = {} /\ Distinct(<<>>)
  BY DEF Ids, Distinct
<1>3. ASSUME NEW s, NEW b, Apart(s, b) PROVE Apart(s, <<>>)
  BY <1>2, <1>3 DEF Apart
<1>4. ASSUME NEW n \in Nodes, ~raced[n] PROVE Apart(log[n][Main], loop[n].batch)
  BY <1>4 DEF OnePlace, OnePlaceOn
<1>5. ASSUME UNCHANGED <<log, loop, raced>> PROVE OnePlace'
  BY <1>5 DEF OnePlace, OnePlaceOn
(* One log of node n becomes s, and nothing else changes.                   *)
<1>6. ASSUME NEW n \in Nodes, NEW q \in Queues, NEW s, log' = [log EXCEPT ![n][q] = s],
             \A k \in Nodes \ {n} : loop'[k] = loop[k], loop'[n].batch = loop[n].batch,
             UNCHANGED raced,
             q = Main /\ Apart(log[n][q], loop[n].batch) => Apart(s, loop[n].batch)
      PROVE  OnePlace'
  <2>1. Others(n) /\ log'[n][q] = s /\ \A p \in Queues \ {q} : log'[n][p] = log[n][p]
    BY <1>0, <1>6 DEF Others
  <2>2. ~raced'[n] => Apart(log'[n][Main], loop'[n].batch)
    BY <1>4, <1>6, <2>1, Bounds
  <2> QED BY <1>1, <2>1, <2>2
<1>7. ASSUME NEW n \in Nodes, NEW q \in Queues, NEW m \in Msgs, AdoptKey(n, q, m), ~raced[n],
             q = Main => m \notin Ids(loop[n].batch)
      PROVE  Apart(log'[n][Main], loop[n].batch)
  <2> DEFINE c == [id |-> m, attempts |-> kv[q][m], lease |-> "none"]
  <2>1. CASE m \in Mirrored(q) \ Ids(log[n][q])
    <3>1. kv[q][m] \in 0 .. MaxAttempts
      BY <1>0, <2>1 DEF Mirrored
    <3>2. c \in Copy /\ c.id = m
      BY <3>1 DEF Copy
    <3>3. log' = [log EXCEPT ![n][q] = Append(log[n][q], c)]
      BY <1>0, <1>7, <2>1 DEF AdoptKey
    <3> HIDE DEF c
    <3>4. CASE q = Main
      <4>1. log'[n][Main] = Append(log[n][Main], c)
        BY <1>0, <3>3, <3>4
      <4>2. Apart(Append(log[n][Main], c), loop[n].batch)
        BY <1>0, <1>4, <1>7, <2>1, <3>2, <3>4, ApartAppend
      <4> QED BY <4>1, <4>2
    <3>5. CASE q # Main
      <4>1. log'[n][Main] = log[n][Main]
        BY <1>0, <3>3, <3>5, Bounds
      <4> QED BY <1>4, <1>7, <4>1
    <3> QED BY <3>4, <3>5
  <2>2. CASE m \notin Mirrored(q) \ Ids(log[n][q])
    BY <1>4, <1>7, <2>2 DEF AdoptKey
  <2> QED BY <2>1, <2>2
<1>8. ASSUME NEW n \in Nodes, NEW q \in Queues, NEW m, AdoptKey(n, q, m)
      PROVE  \A k \in Nodes \ {n} : log'[k] = log[k]
  BY <1>0, <1>8 DEF AdoptKey
<1>9. ASSUME NEW o \in ops, OpLands(o) \/ OpFails(o) PROVE OnePlace'
  BY <1>5, <1>9 DEF OpLands, OpFails
<1>10. ASSUME NEW n \in Nodes, NEW m \in Msgs, Send(n, m) PROVE OnePlace'
  <2> DEFINE c == [id |-> m, attempts |-> 0, lease |-> "none"]
  <2>1. c \in Copy /\ c.id = m
    BY Bounds DEF Copy
  <2>2. m \notin Ids(log[n][Main]) \cup Ids(loop[n].batch)
    BY <1>0, <1>10, Bounds DEF Send, Ids
  <2>3. log' = [log EXCEPT ![n][Main] = Append(log[n][Main], c)] /\ UNCHANGED <<loop, raced>>
    BY <1>0, <1>10, Bounds DEF Send
  <2> HIDE DEF c
  <2>4. Apart(log[n][Main], loop[n].batch) => Apart(Append(log[n][Main], c), loop[n].batch)
    BY <1>0, <2>1, <2>2, Bounds, ApartAppend
  <2> QED BY <1>6, <2>3, <2>4, Bounds
<1>11. ASSUME NEW n \in Nodes, NEW q \in Queues, FirstTouch(n, q) PROVE OnePlace'
  BY <1>5, <1>11 DEF FirstTouch
<1>12. ASSUME NEW n \in Nodes, NEW q \in Queues, NEW m \in Msgs, FirstTouchKey(n, q, m)
       PROVE  OnePlace'
  <2>1. AdoptKey(n, q, m) /\ UNCHANGED loop
        /\ raced' = [raced EXCEPT ![n] = @ \/ InHand(n, q, m)]
    BY <1>12 DEF FirstTouchKey
  <2>2. Others(n)
    BY <1>0, <1>8, <2>1 DEF Others
  <2>3. ASSUME ~raced'[n] PROVE Apart(log'[n][Main], loop'[n].batch)
    <3>1. ~raced[n] /\ ~InHand(n, q, m)
      BY <1>0, <2>1, <2>3
    <3>2. Ids(loop[n].batch) # {} => loop[n].queue = Main
      BY <1>0, <1>2
    <3>3. q = Main => m \notin Ids(loop[n].batch)
      BY <3>1, <3>2 DEF InHand
    <3> QED BY <1>7, <2>1, <3>1, <3>3
  <2> QED BY <1>1, <2>2, <2>3
<1>13. ASSUME NEW n \in Nodes, NEW q \in Queues, NEW I \in SUBSET DOMAIN log[n][q], Pull(n, q, I)
       PROVE  OnePlace'
  <2> DEFINE s == log[n][q]
             t == [i \in DOMAIN s |-> IF i \in I THEN Leased(s[i]) ELSE s[i]]
  <2>1. log' = [log EXCEPT ![n][q] = t] /\ UNCHANGED <<loop, raced>>
    BY <1>0, <1>13 DEF Pull
  <2>2. \A i \in DOMAIN s : s[i] \in Copy
    BY <1>0, ElementOfSeq
  <2>3. \A c \in Copy : Leased(c).id = c.id
    BY DEF Leased, Copy
  <2>4. DOMAIN t = DOMAIN s /\ \A i \in DOMAIN s : t[i].id = s[i].id
    BY <2>2, <2>3
  <2> HIDE DEF t
  <2>5. Apart(log[n][q], loop[n].batch) => Apart(t, loop[n].batch)
    BY <2>4, ApartSameIds
  <2> QED BY <1>6, <2>1, <2>5
<1>14. ASSUME NEW n \in Nodes, NEW q \in Queues, NEW i \in DOMAIN log[n][q],
              LeaseExpires(n, q, i) \/ Retry(n, q, i)
       PROVE  OnePlace'
  <2>1. PICK lease \in {"none", "expired"} : log' = [log EXCEPT ![n][q][i].lease = lease]
    BY <1>14 DEF LeaseExpires, Retry
  <2> DEFINE s == log[n][q]
             t == [s EXCEPT ![i].lease = lease]
  <2>2. log' = [log EXCEPT ![n][q] = t] /\ UNCHANGED <<loop, raced>>
    BY <1>0, <1>14, <2>1 DEF LeaseExpires, Retry
  <2>3. \A j \in DOMAIN s : s[j] \in Copy
    BY <1>0, ElementOfSeq
  <2>4. DOMAIN t = DOMAIN s /\ \A j \in DOMAIN s : t[j].id = s[j].id
    BY <2>3 DEF Copy
  <2> HIDE DEF t
  <2>5. Apart(log[n][q], loop[n].batch) => Apart(t, loop[n].batch)
    BY <2>4, ApartSameIds
  <2> QED BY <1>6, <2>2, <2>5
<1>15. ASSUME NEW n \in Nodes, NEW q \in Queues, NEW i \in DOMAIN log[n][q], Ack(n, q, i)
       PROVE  OnePlace'
  <2> DEFINE t == Picked(log[n][q], DOMAIN log[n][q] \ {i})
  <2>1. log' = [log EXCEPT ![n][q] = t] /\ UNCHANGED <<loop, raced>>
    BY <1>0, <1>15 DEF Ack
  <2>2. Apart(log[n][q], loop[n].batch) => Apart(t, loop[n].batch)
    BY <1>0, ApartPicked
  <2> HIDE DEF t
  <2> QED BY <1>6, <2>1, <2>2
(* A step of n's loop that leaves the logs alone and empties its batch.     *)
<1>16. ASSUME NEW n \in Nodes, NEW x, x.batch = <<>>, loop' = [loop EXCEPT ![n] = x],
              UNCHANGED <<log, raced>>
       PROVE  OnePlace'
  <2>1. Others(n) /\ loop'[n].batch = <<>>
    BY <1>0, <1>16 DEF Others
  <2> QED BY <1>1, <1>3, <1>4, <1>16, <2>1
<1>17. ASSUME NEW n \in Nodes, NEW q \in Queues, Visit(n, q) PROVE OnePlace'
  <2>1. PICK x : x.batch = <<>> /\ loop' = [loop EXCEPT ![n] = x]
    BY <1>17 DEF Visit
  <2>2. UNCHANGED <<log, raced>>
    BY <1>17 DEF Visit
  <2> QED BY <1>16, <2>1, <2>2
<1>18. ASSUME NEW n \in Nodes, NEW m \in Msgs, SyncKey(n, m) PROVE OnePlace'
  <2> DEFINE x == [loop[n] EXCEPT !.keys = @ \ {m}]
  <2>1. loop[n].batch = <<>> /\ AdoptKey(n, loop[n].queue, m) /\ UNCHANGED raced
    BY <1>0, <1>18 DEF SyncKey
  <2>2. loop' = [loop EXCEPT ![n] = x] /\ x.batch = loop[n].batch
    BY <1>0, <1>18 DEF SyncKey, LoopRecord
  <2> HIDE DEF x
  <2>3. Others(n) /\ loop'[n].batch = loop[n].batch
    BY <1>0, <1>8, <2>1, <2>2 DEF Others
  <2>4. ~raced[n] => Apart(log'[n][Main], loop[n].batch)
    BY <1>0, <1>2, <1>7, <2>1
  <2> QED BY <1>1, <2>1, <2>3, <2>4
<1>19. ASSUME NEW n \in Nodes, SyncDone(n) PROVE OnePlace'
  <2>1. PICK at : loop' = [loop EXCEPT ![n].at = at]
    BY <1>19 DEF SyncDone
  <2> DEFINE x == [loop[n] EXCEPT !.at = at]
  <2>2. loop' = [loop EXCEPT ![n] = x] /\ x.batch = <<>>
    BY <1>0, <1>19, <2>1 DEF SyncDone, LoopRecord
  <2>3. UNCHANGED <<log, raced>>
    BY <1>19 DEF SyncDone
  <2> HIDE DEF x
  <2>4. loop' = [loop EXCEPT ![n] = x] /\ x.batch = <<>>
    BY <2>2
  <2> QED BY <1>16, <2>3, <2>4
<1>20. ASSUME NEW n \in Nodes, NEW old \in SUBSET Msgs, SweepExpired(n, old) PROVE OnePlace'
  <2> DEFINE q == loop[n].queue
             s == log[n][q]
             expired == {i \in DOMAIN s : s[i].id \in old}
             reap == {s[i].id : i \in {k \in expired :
                         Cardinality({j \in expired : j <= k}) <= MaxReap(Len(s))}}
             J == {i \in DOMAIN s : s[i].id \notin reap}
             t == Picked(s, J)
             at == IF q = Main THEN "take" ELSE "idle"
             x == [loop[n] EXCEPT !.at = at]
  <2>1. log' = [log EXCEPT ![n][q] = t] /\ UNCHANGED raced /\ loop' = [loop EXCEPT ![n].at = at]
    BY <1>0, <1>20 DEF SweepExpired, Filtered
  <2>2. loop' = [loop EXCEPT ![n] = x] /\ x.batch = loop[n].batch /\ q \in Queues
    BY <1>0, <2>1 DEF LoopRecord
  <2> HIDE DEF reap, x
  <2>3. Apart(s, loop[n].batch) => Apart(t, loop[n].batch)
    BY <1>0, ApartPicked
  <2>4. loop'[n].batch = loop[n].batch /\ \A k \in Nodes \ {n} : loop'[k] = loop[k]
    BY <1>0, <2>2
  <2>5. Apart(log[n][q], loop[n].batch) => Apart(t, loop[n].batch)
    BY <2>3
  <2> HIDE DEF q, t
  <2> QED BY <1>6, <2>1, <2>2, <2>4, <2>5
<1>21. ASSUME NEW n \in Nodes, NEW I \in SUBSET DOMAIN log[n][loop[n].queue], TakeDueForPush(n, I)
       PROVE  OnePlace'
  <2> DEFINE s == log[n][Main]
             taken == Picked(s, I)
             b == [k \in DOMAIN taken |-> [taken[k] EXCEPT !.attempts = @ + 1]]
             t == Picked(s, DOMAIN s \ I)
  <2>1. loop[n].queue = Main /\ loop[n].at = "take" /\ UNCHANGED raced
    BY <1>0, <1>21 DEF TakeDueForPush
  <2>2. log' = [log EXCEPT ![n][Main] = t] /\ I \in SUBSET DOMAIN s
    BY <1>0, <1>21, <2>1, Bounds DEF TakeDueForPush
  <2>3. loop'[n].batch = b /\ \A k \in Nodes \ {n} : loop'[k] = loop[k]
    BY <1>0, <1>21, <2>1 DEF TakeDueForPush, LoopRecord
  <2>4. log'[n][Main] = t /\ Others(n)
    BY <1>0, <2>1, <2>2, <2>3, Bounds DEF Others
  <2>5. ASSUME ~raced[n] PROVE Apart(t, b)
    <3>1. s \in Seq(Copy) /\ Distinct(s)
      BY <1>0, <1>4, <2>5, Bounds DEF Apart
    <3>2. /\ Distinct(taken) /\ Ids(taken) = {s[i].id : i \in I}
          /\ Distinct(t) /\ Ids(t) = {s[i].id : i \in DOMAIN s \ I}
      BY <2>2, <3>1, PickedDistinct
    <3>3. taken \in Seq(Copy)
      BY <2>2, <3>1, PickedSeq
    <3>4. \A k \in DOMAIN taken : taken[k] \in Copy
      BY <3>3, ElementOfSeq
    <3>5. {s[i].id : i \in I} \cap {s[i].id : i \in DOMAIN s \ I} = {}
      BY <2>2, <3>1 DEF Distinct
    <3>6. DOMAIN b = DOMAIN taken /\ \A k \in DOMAIN taken : b[k].id = taken[k].id
      BY <3>4 DEF Copy
    <3> HIDE DEF s, t, taken, b
    <3>7. Distinct(b) /\ Ids(b) = Ids(taken)
      BY <3>2, <3>6 DEF Distinct, Ids
    <3> QED BY <3>2, <3>5, <3>7 DEF Apart
  <2> HIDE DEF t, b
  <2> QED BY <1>1, <2>1, <2>3, <2>4, <2>5
<1>22. ASSUME NEW n \in Nodes, PushOk(n) PROVE OnePlace'
  BY <1>16, <1>22 DEF PushOk, Idle
<1>23. ASSUME NEW n \in Nodes, PushFails(n) PROVE OnePlace'
  <2> DEFINE s == log[n][Main]
             l == LettersFor(n, Main)
             a == Again(n)
             b == loop[n].batch
             J == {i \in DOMAIN b : ~Exhausted(b[i])}
             K == {i \in DOMAIN b : Exhausted(b[i])}
  <2>1. /\ log' = [log EXCEPT ![n][Dlq] = @ \o LettersFor(n, Dlq), ![n][Main] = (@ \o l) \o a]
        /\ loop' = [loop EXCEPT ![n] = Idle] /\ UNCHANGED raced
    BY <1>23, PushFailsIs
  <2>2. /\ log'[n][Main] = (s \o l) \o a /\ loop'[n].batch = <<>> /\ Others(n)
    BY <1>0, <2>1, Bounds DEF Others, Idle
  <2>3. s \in Seq(Copy) /\ l \in Seq(Copy) /\ a \in Seq(Copy) /\ b \in Seq(Copy)
    BY <1>0, Bounds, AgainGood, LettersForGood DEF HonestLog
  <2>4. ASSUME ~raced[n] PROVE Apart((s \o l) \o a, <<>>)
    <3>1. Apart(s, b)
      BY <1>4, <2>4
    <3>2. /\ Distinct(a) /\ Ids(a) = {b[i].id : i \in J}
          /\ Distinct(Gone(n)) /\ Ids(Gone(n)) = {b[i].id : i \in K}
      BY <2>3, <3>1, PickedDistinct DEF Again, Gone, Apart
    <3>3. Distinct(l) /\ Ids(l) \subseteq Ids(Gone(n))
      <4>1. Distinct(Letters(n)) /\ Ids(Letters(n)) = Ids(Gone(n))
        <5>1. /\ DOMAIN Letters(n) = DOMAIN Gone(n)
              /\ \A k \in DOMAIN Gone(n) : Letters(n)[k].id = Gone(n)[k].id
          BY LettersGood
        <5> QED BY <3>2, <5>1 DEF Distinct, Ids
      <4> QED BY <1>2, <4>1 DEF LettersFor
    <3>4. Ids(a) \subseteq Ids(b) /\ Ids(l) \subseteq Ids(b) /\ Ids(l) \cap Ids(a) = {}
      <4>1. \A i \in J, k \in K : b[i].id # b[k].id
        BY <3>1 DEF Apart, Distinct
      <4>2. Ids(b) = {b[i].id : i \in DOMAIN b}
        BY DEF Ids
      <4>3. J \subseteq DOMAIN b /\ K \subseteq DOMAIN b
        OBVIOUS
      <4> DEFINE inJ == {b[i].id : i \in J}
                 inK == {b[i].id : i \in K}
      <4>4. inJ \subseteq Ids(b) /\ inK \subseteq Ids(b)
        <5> HIDE DEF b, J, K
        <5> QED BY <4>2, <4>3
      <4>5. inJ \cap inK = {}
        <5> HIDE DEF b, J, K
        <5> QED BY <4>1
      <4>6. Ids(a) = inJ /\ Ids(l) \subseteq inK
        BY <3>2, <3>3
      <4> HIDE DEF inJ, inK, a, b, l
      <4> QED BY <4>4, <4>5, <4>6
    <3> HIDE DEF s, l, a, b
    <3>5. Apart(s, l)
      BY <3>1, <3>3, <3>4 DEF Apart
    <3>6. s \o l \in Seq(Copy) /\ Ids(s \o l) = Ids(s) \cup Ids(l) /\ Distinct(s \o l)
      BY <2>3, <3>5, IdsConcat, ApartConcat DEF Apart
    <3>7. Apart(s \o l, a)
      BY <3>1, <3>2, <3>4, <3>6 DEF Apart
    <3> QED BY <2>3, <3>6, <3>7, ApartConcat
  <2> QED BY <1>1, <2>1, <2>2, <2>4
<1>24. ASSUME NEW n \in Nodes, Restart(n) PROVE OnePlace'
  <2>1. /\ log' = [log EXCEPT ![n] = [q \in Queues |-> <<>>]] /\ loop' = [loop EXCEPT ![n] = Idle]
        /\ raced' = [raced EXCEPT ![n] = FALSE]
    BY <1>24 DEF Restart
  <2>2. Others(n) /\ log'[n][Main] = <<>> /\ loop'[n].batch = <<>>
    BY <1>0, <2>1, Bounds DEF Others, Idle
  <2>3. Apart(<<>>, <<>>)
    BY <1>2 DEF Apart
  <2> QED BY <1>1, <2>2, <2>3
<1>25. CASE UNCHANGED vars
  BY <1>5, <1>25 DEF vars
<1> QED BY <1>9, <1>10, <1>11, <1>12, <1>13, <1>14, <1>15, <1>17, <1>18, <1>19, <1>20, <1>21,
           <1>22, <1>23, <1>24, <1>25, Bounds DEF Next, Serve, Touch, LoopStep

(* On each node, no message of the queue is leased twice at once, nor       *)
(* leased while the node's loop pushes it, unless a request's first-touch   *)
(* sync read it back while the loop had it (pull, take_due_for_push,        *)
(* sync_from_guardian): the lock of a node's log and adopting a key only    *)
(* when it is absent are enough for this, whatever other nodes do.          *)
THEOREM OneConsumerCorrect == Spec => []OneConsumer
<1>1. Init => OnePlace
  BY Bounds DEF Init, Idle, OnePlace, OnePlaceOn, Apart, Distinct, Ids
<1>2. OnePlace => OneConsumer
  <2> SUFFICES ASSUME NEW n \in Nodes, Apart(log[n][Main], loop[n].batch),
                      NEW i \in DOMAIN log[n][Main]
               PROVE  /\ ~InHand(n, Main, log[n][Main][i].id)
                      /\ \A k \in DOMAIN log[n][Main] \ {i} :
                            log[n][Main][k].id # log[n][Main][i].id
    BY DEF OnePlace, OnePlaceOn, OneConsumer
  <2>1. log[n][Main][i].id \in Ids(log[n][Main])
    BY DEF Ids
  <2> QED BY <2>1 DEF Apart, Distinct, InHand
<1> QED BY <1>1, <1>2, CountsInit, CountsStep, OnePlaceStep, PTL DEF Spec
=============================================================================
