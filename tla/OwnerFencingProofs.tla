-------------------------- MODULE OwnerFencingProofs --------------------------
(***************************************************************************)
(* Proofs about the forwarding of mutations, for every fleet, operator     *)
(* chain and election order, any number of mutations in flight, stale      *)
(* epochs, failed dials and crashes: the client is told the truth, the     *)
(* types, and a settled fleet with a reachable owner refuses a mutation    *)
(* only if every re-stamp was used up.                                     *)
(***************************************************************************)
EXTENDS OwnerFencing, TLAPS, FiniteSetTheorems, FunctionTheorems, SequenceTheorems,
        WellFoundedInduction

(* What the proof needs of the shapes; epochs and candidate lists are free. *)
Shapes ==
    /\ applied \in [Mutation -> Nat]
    /\ DOMAIN fwd = Mutation /\ DOMAIN wire = Mutation
    /\ \A r \in Mutation : /\ DOMAIN fwd[r] = DOMAIN Idle
                           /\ DOMAIN wire[r] = DOMAIN NoCopy

(* Where the only copy of r can be.  Until the handler waits for an answer, *)
(* and again once it walks on, r has not run and is nowhere but with it;    *)
(* a copy on the wire has run exactly when its peer has answered ok.        *)
OneCopy(r) ==
    /\ fwd[r].pc \in {"idle", "body", "serving", "walk", "restamp"} =>
           applied[r] = 0 /\ wire[r].pc = "none"
    /\ wire[r].pc \in {"sent", "serving", "stale", "not_leader"} => applied[r] = 0
    /\ wire[r].pc = "ok" => applied[r] = 1
    /\ applied[r] <= 1

(* What the client was told, once the handler is done.                      *)
Told(r) ==
    /\ fwd[r].answer # "none" => fwd[r].pc = "done"
    /\ fwd[r].answer = "ok" => applied[r] = 1
    /\ fwd[r].answer = "refused" => applied[r] = 0 /\ wire[r].pc = "none"

Inv == Shapes /\ \A r \in Mutation : OneCopy(r) /\ Told(r)

(* Every step of the mesh, the epochs, a handler and a peer keeps the       *)
(* invariant.                                                               *)
LEMMA NextKeepsInv == Inv /\ [Next]_vars => Inv'
<1> SUFFICES ASSUME Inv, [Next]_vars PROVE Inv'
  OBVIOUS
<1> USE FleetAssumption DEF Inv, Shapes, OneCopy, Told, Idle, NoCopy, requests, cluster
<1>1. ASSUME NEW n \in Node, NEW m \in Node, Hear(n, m) PROVE Inv'
  BY <1>1 DEF Hear
<1>2. ASSUME NEW n \in Node, NEW m \in Node, Blip(n, m) PROVE Inv'
  BY <1>2 DEF Blip, Disturb
<1>3. ASSUME NEW n \in Node, ClusterLoop(n) \/ GossipEpoch(n) \/ Adopt(n) PROVE Inv'
  BY <1>3 DEF ClusterLoop, GossipEpoch, Adopt, AdoptWrites, Disturb
<1>4. ASSUME NEW n \in Node, Crash(n) PROVE Inv'
  BY <1>4 DEF Crash, Drops
<1>5. ASSUME NEW r \in Mutation, NEW n \in Node, Ingress(r, n) PROVE Inv'
  BY <1>5 DEF Ingress
<1>6. ASSUME NEW r \in Mutation, Stamp(r) PROVE Inv'
  BY <1>6 DEF Stamp
<1>7. ASSUME NEW r \in Mutation, Refuse(r) PROVE Inv'
  BY <1>7 DEF Refuse
<1>8. ASSUME NEW r \in Mutation, SendTo(r) PROVE Inv'
  BY <1>8 DEF SendTo
<1>9. ASSUME NEW r \in Mutation, ConnectFails(r) PROVE Inv'
  BY <1>9 DEF ConnectFails
<1>10. ASSUME NEW r \in Mutation, Receive(r) PROVE Inv'
  <2>1. UNCHANGED <<fwd, applied>>
    BY <1>10 DEF Receive
  <2>2. wire[r].pc = "sent"
    BY <1>10 DEF Receive
  <2>3. ASSUME NEW pc \in {"stale", "serving", "not_leader"}, NEW e, Answered(r, pc, e)
        PROVE  Inv'
    BY <2>1, <2>2, <2>3 DEF Answered
  <2>4. CASE Fenced(r, wire[r].to)
    BY <2>3, <2>4 DEF Fenced
  <2>5. CASE Unfenced(r, wire[r].to)
    BY <2>3, <2>5 DEF Unfenced
  <2> QED BY <1>10, <2>4, <2>5 DEF Receive
<1>11. ASSUME NEW r \in Mutation, ServeForwarded(r) PROVE Inv'
  BY <1>11 DEF ServeForwarded, Answered
<1>12. ASSUME NEW r \in Mutation, ServeLocal(r) PROVE Inv'
  BY <1>12 DEF ServeLocal
<1>13. ASSUME NEW r \in Mutation, ReplyOk(r) PROVE Inv'
  BY <1>13 DEF ReplyOk
<1>14. ASSUME NEW r \in Mutation, ReplyNotLeader(r) PROVE Inv'
  BY <1>14 DEF ReplyNotLeader
<1>15. ASSUME NEW r \in Mutation, ReplyStale(r) PROVE Inv'
  BY <1>15 DEF ReplyStale
<1>16. ASSUME NEW r \in Mutation, Restamp(r) PROVE Inv'
  <2>1. fwd[r].pc = "restamp" /\ UNCHANGED <<wire, applied>>
    BY <1>16 DEF Restamp
  <2>2. CASE epoch[fwd[r].at] > fwd[r].stamp /\ fwd[r].retries < MaxRetries
    <3>1. fwd' = [fwd EXCEPT ![r].pc = "walk", ![r].stamp = epoch[fwd[r].at],
                             ![r].retries = @ + 1]
      BY <1>16, <2>2 DEF Restamp
    <3> QED BY <2>1, <3>1
  <2>3. CASE ~(epoch[fwd[r].at] > fwd[r].stamp /\ fwd[r].retries < MaxRetries)
    <3>1. fwd' = [fwd EXCEPT ![r].pc = "walk", ![r].left = Tail(@)]
      BY <1>16, <2>3 DEF Restamp
    <3> QED BY <2>1, <3>1
  <2> QED BY <2>2, <2>3
<1>17. ASSUME NEW r \in Mutation, GiveUp(r) PROVE Inv'
  BY <1>17 DEF GiveUp
<1>18. CASE UNCHANGED vars
  BY <1>18 DEF vars
<1> QED
  BY <1>1, <1>2, <1>3, <1>4, <1>5, <1>6, <1>7, <1>8, <1>9,
     <1>10, <1>11, <1>12, <1>13, <1>14, <1>15, <1>16, <1>17, <1>18
  DEF Next, Handler, Peer

(* No mutation has been sent yet (Cluster::new).                            *)
LEMMA InitEstablishesInv == Init => Inv
BY DEF Init, Inv, Shapes, OneCopy, Told, Idle, NoCopy

(* A client that was told ok had its mutation applied once; one that was    *)
(* refused may send it again, since no copy of it runs or will run          *)
(* (admin_forward_to_leader, main.rs).                                      *)
THEOREM AnswersHonestCorrect == Spec => []AnswersHonest
<1>1. Inv => AnswersHonest
  BY DEF Inv, Shapes, OneCopy, Told, AnswersHonest
<1> QED BY <1>1, InitEstablishesInv, NextKeepsInv, PTL DEF Spec

----------------------------------------------------------------------------
(* Resolution and candidates.                                               *)

(* Every position of J comes up once. *)
LEMMA NthBijects ==
    ASSUME NEW J \in SUBSET Int, IsFiniteSet(J)
    PROVE  /\ Cardinality(J) \in Nat
           /\ \A k \in 1 .. Cardinality(J) : Nth(J, k) \in J
           /\ \A k, l \in 1 .. Cardinality(J) : Nth(J, k) = Nth(J, l) => k = l
           /\ \A i \in J : \E k \in 1 .. Cardinality(J) : i = Nth(J, k)
<1> DEFINE Below(i) == {j \in J : j < i}
           n == Cardinality(J)
           f == [i \in J |-> Cardinality(Below(i)) + 1]
<1>1. n \in Nat
  BY FS_CardinalityType
<1>2. ASSUME NEW i \in J
      PROVE  /\ IsFiniteSet(Below(i)) /\ Cardinality(Below(i)) \in Nat
             /\ Cardinality(Below(i)) + 1 \in 1 .. n
  <2>1. IsFiniteSet(Below(i)) /\ Cardinality(Below(i)) \in Nat /\ Cardinality(Below(i)) <= n
    BY FS_Subset, FS_CardinalityType
  <2>2. Cardinality(Below(i)) # n
    BY FS_Subset
  <2> HIDE DEF Below, n
  <2> QED BY <1>1, <2>1, <2>2
<1>3. ASSUME NEW i \in J, NEW j \in J, i < j
      PROVE  Cardinality(Below(i)) < Cardinality(Below(j))
  <2>1. Below(i) \subseteq Below(j) /\ i \in Below(j) /\ i \notin Below(i)
    <3>1. \A x \in J : x \in Int
      OBVIOUS
    <3>2. \A x \in J : x < i => x < j
      BY <1>3, <3>1
    <3>3. ~(i < i)
      BY <3>1
    <3> QED BY <1>3, <3>2, <3>3
  <2>2. Cardinality(Below(i)) <= Cardinality(Below(j)) /\ Cardinality(Below(i)) # Cardinality(Below(j))
    BY <1>2, <2>1, FS_Subset
  <2> QED BY <1>2, <2>2
<1>4. f \in Injection(J, 1 .. n)
  <2>1. f \in [J -> 1 .. n]
    BY <1>2
  <2>2. ASSUME NEW i \in J, NEW j \in J, f[i] = f[j] PROVE i = j
    <3>1. Cardinality(Below(i)) = Cardinality(Below(j))
      BY <1>2, <2>2
    <3> QED BY <1>2, <1>3, <3>1
  <2> QED BY <2>1, <2>2 DEF Injection, IsInjective
<1>5. f \in Surjection(J, 1 .. n)
  <2>1. IsFiniteSet(1 .. n) /\ Cardinality(1 .. n) = n
    BY <1>1, FS_Interval
  <2> HIDE DEF f
  <2> QED BY <1>4, <2>1, FS_Injection
<1>6. ASSUME NEW k \in 1 .. n
      PROVE  Nth(J, k) \in J /\ f[Nth(J, k)] = k
  <2>1. PICK i \in J : f[i] = k
    BY <1>5 DEF Surjection
  <2>2. Cardinality(Below(i)) = k - 1
    BY <1>2, <2>1
  <2>3. Nth(J, k) \in J /\ Cardinality(Below(Nth(J, k))) = k - 1
    BY <2>2 DEF Nth
  <2> QED BY <1>2, <2>3
<1>7. ASSUME NEW i \in J PROVE f[i] \in 1 .. n /\ Nth(J, f[i]) = i
  BY <1>4, <1>6 DEF Injection, IsInjective
<1> HIDE DEF f
<1> QED BY <1>1, <1>6, <1>7

(* What a filter leaves of a sequence over S is a sequence over S.          *)
LEMMA PickedSeq ==
    ASSUME NEW S, NEW s \in Seq(S), NEW J \in SUBSET DOMAIN s
    PROVE  Picked(s, J) \in Seq(S)
<1>1. DOMAIN s = 1 .. Len(s) /\ Len(s) \in Nat /\ \A i \in 1 .. Len(s) : s[i] \in S
  BY LenProperties, ElementOfSeq
<1>2. IsFiniteSet(J) /\ J \in SUBSET Int
  <2>1. IsFiniteSet(1 .. Len(s)) /\ J \in SUBSET (1 .. Len(s))
    BY <1>1, FS_Interval
  <2>2. IsFiniteSet(J)
    BY <2>1, FS_Subset
  <2> QED BY <2>1, <2>2
<1>3. /\ Cardinality(J) \in Nat
      /\ \A k \in 1 .. Cardinality(J) : s[Nth(J, k)] \in S
  BY <1>1, <1>2, NthBijects
<1> DEFINE n == Cardinality(J)
           e(k) == s[Nth(J, k)]
<1>4. n \in Nat /\ \A k \in 1 .. n : e(k) \in S
  BY <1>3
<1> HIDE DEF n, e
<1>5. [k \in 1 .. n |-> e(k)] \in Seq(S)
  BY <1>4, IsASeq
<1> QED BY <1>5 DEF Picked, n, e

(* A set of naturals has a least element.                                   *)
LEMMA LeastExists ==
    ASSUME NEW T \in SUBSET Nat, T # {}
    PROVE  \E x \in T : \A y \in T : x <= y
<1>1. PICK x \in T : \A y \in T : <<y, x>> \notin OpToRel(<, Nat)
  BY NatLessThanWellFounded, WFMin, Zenon
<1>2. \A y \in T : ~(y < x)
  BY <1>1, Zenon DEF OpToRel
<1> QED BY <1>2

LEMMA FirstInType ==
    ASSUME NEW seq \in Seq(Node), NEW S
    PROVE  FirstIn(seq, S) \in (S \cap Node) \cup {None}
<1> DEFINE hits == {i \in DOMAIN seq : seq[i] \in S}
<1>1. DOMAIN seq = 1 .. Len(seq) /\ Len(seq) \in Nat /\ \A i \in 1 .. Len(seq) : seq[i] \in Node
  BY LenProperties, ElementOfSeq
<1>2. CASE hits = {}
  BY <1>2 DEF FirstIn
<1>3. CASE hits # {}
  <2>1. hits \in SUBSET Nat
    BY <1>1
  <2>2. \E i \in hits : \A j \in hits : i <= j
    BY <1>3, <2>1, LeastExists
  <2>3. (CHOOSE i \in hits : \A j \in hits : i <= j) \in hits
    BY <2>2
  <2> QED BY <1>1, <1>3, <2>3 DEF FirstIn
<1> QED BY <1>2, <1>3

LEMMA OwnerType ==
    ASSUME NEW healthy \in SUBSET Node
    PROVE  ControlPlaneOwner(healthy) \in Node \cup {None}
<1>1. BillingLeader(healthy) \in Node \cup {None}
  <2>1. \A S : FirstIn(Identity, S) \in Node \cup {None}
    BY FleetAssumption, FirstInType
  <2>2. Pin \in healthy => Pin \in Node
    OBVIOUS
  <2> QED BY <2>1, <2>2 DEF BillingLeader
<1>2. \A S : FirstIn(Chain, S) \in Node \cup {None}
  BY FleetAssumption, FirstInType
<1> QED BY <1>1, <1>2 DEF ControlPlaneOwner

LEMMA LeaderType ==
    ASSUME NEW n \in Node, view[n] \subseteq Node
    PROVE  Leader(n) \in Node
BY OwnerType DEF Leader

LEMMA CandidatesType ==
    ASSUME NEW n \in Node, view[n] \subseteq Node, NEW audible
    PROVE  /\ Candidates(n, audible) \in Seq(Node)
           /\ Leader(n) # n /\ Leader(n) \in Public =>
                 Candidates(n, audible) # <<>> /\ Head(Candidates(n, audible)) = Leader(n)
<1> DEFINE J == {i \in DOMAIN Chain : /\ Chain[i] \notin {n, Leader(n)}
                                      /\ Chain[i] \in view[n] \cup audible}
           rest == Picked(Chain, J)
<1>1. rest \in Seq(Node)
  BY FleetAssumption, PickedSeq
<1>2. Candidates(n, audible) = IF Leader(n) # n /\ Leader(n) \in Public
                               THEN <<Leader(n)>> \o rest ELSE rest
  BY DEF Candidates, Filtered
<1> HIDE DEF rest
<1>3. Leader(n) \in Node
  BY LeaderType
<1>4. \A l \in Node : /\ <<l>> \o rest \in Seq(Node) /\ <<l>> \o rest # <<>>
                      /\ Head(<<l>> \o rest) = l
  BY <1>1
<1> QED BY <1>1, <1>2, <1>3, <1>4

----------------------------------------------------------------------------
(* Types.                                                                   *)

(* Which node and which candidate a handler and a copy are at.              *)
Located ==
    \A r \in Mutation :
        /\ fwd[r].pc # "idle" => fwd[r].at \in Node
        /\ fwd[r].pc \in {"wait", "restamp"} => fwd[r].left # <<>>
        /\ wire[r].pc # "none" => wire[r].to \in Node

Handling == [pc : {"idle", "body", "serving", "walk", "wait", "restamp", "done"},
             at : Node \cup {None}, stamp : Nat, left : Seq(Node),
             disclosed : Nat, retries : 0 .. MaxRetries, calm : BOOLEAN,
             answer : {"none", "ok", "refused", "unknown"}]
Copied == [pc : {"none", "sent", "serving", "ok", "stale", "not_leader"},
           to : Node \cup {None}, stamp : Nat, disclosed : Nat]

TypeInv == TypeOK /\ Located

LEMMA InitTypes == Init => TypeInv
<1> SUFFICES ASSUME Init PROVE TypeInv
  OBVIOUS
<1> USE FleetAssumption
<1>1. owner \in [Node -> Node]
  BY LeaderType DEF Init
<1>2. epoch \in [Node -> Epoch]
  BY DEF Init, FirstEpoch, Epoch
<1>3. Idle \in Handling /\ NoCopy \in Copied
  BY DEF Handling, Copied, Idle, NoCopy
<1>4. TypeOK
  BY <1>1, <1>2, <1>3 DEF Init, TypeOK, Handling, Copied
<1>5. Located
  BY DEF Init, Located, Idle, NoCopy
<1> QED BY <1>4, <1>5 DEF TypeInv

(* Observing the owner keeps owners and epochs well formed.                 *)
LEMMA ObserveTypes ==
    ASSUME TypeOK, NEW n \in Node, Observe(n) \/ ObserveIfLinked(n)
    PROVE  owner' \in [Node -> Node] /\ epoch' \in [Node -> Epoch]
<1>1. Leader(n) \in Node
  BY LeaderType DEF TypeOK
<1>2. \A e \in Epoch : e + 1 \in Epoch
  BY DEF Epoch
<1>3. owner \in [Node -> Node] /\ epoch \in [Node -> Epoch]
  BY DEF TypeOK
<1>4. CASE Observe(n)
  BY <1>1, <1>2, <1>3, <1>4 DEF Observe
<1>5. CASE UNCHANGED <<owner, epoch>>
  BY <1>3, <1>5
<1> QED BY <1>4, <1>5 DEF ObserveIfLinked

LEMMA TailType ==
    ASSUME NEW s \in Seq(Node), s # <<>>
    PROVE  Tail(s) \in Seq(Node) /\ Head(s) \in Node
BY HeadTailProperties

(* A step of mutation r leaves the other mutations alone.                   *)
Local(r) ==
    /\ fwd' \in [Mutation -> Handling] /\ wire' \in [Mutation -> Copied]
    /\ \A q \in Mutation \ {r} : fwd'[q] = fwd[q] /\ wire'[q] = wire[q]

LEMMA Replaced ==
    ASSUME TypeInv, NEW r \in Mutation, NEW g \in Handling, NEW w \in Copied,
           fwd' = [fwd EXCEPT ![r] = g], wire' = [wire EXCEPT ![r] = w]
    PROVE  Local(r) /\ fwd'[r] = g /\ wire'[r] = w
<1>1. fwd \in [Mutation -> Handling] /\ wire \in [Mutation -> Copied]
  BY DEF TypeInv, TypeOK, Handling, Copied
<1> QED BY <1>1 DEF Local

(* The same when the copy stays as it was.                                  *)
LEMMA Advanced ==
    ASSUME TypeInv, NEW r \in Mutation, NEW g \in Handling,
           fwd' = [fwd EXCEPT ![r] = g], UNCHANGED wire
    PROVE  Local(r) /\ fwd'[r] = g /\ wire'[r] = wire[r]
<1>1. fwd \in [Mutation -> Handling] /\ wire \in [Mutation -> Copied]
  BY DEF TypeInv, TypeOK, Handling, Copied
<1> QED BY <1>1 DEF Local

LEMMA Placed ==
    ASSUME TypeInv, NEW r \in Mutation
    PROVE  /\ fwd \in [Mutation -> Handling] /\ wire \in [Mutation -> Copied]
           /\ fwd[r] \in Handling /\ wire[r] \in Copied
           /\ fwd[r].left \in Seq(Node) /\ fwd[r].stamp \in Nat
           /\ fwd[r].disclosed \in Nat /\ fwd[r].retries \in 0 .. MaxRetries
           /\ wire[r].stamp \in Nat /\ wire[r].disclosed \in Nat
           /\ fwd[r].pc # "idle" => fwd[r].at \in Node
           /\ fwd[r].pc \in {"wait", "restamp"} => fwd[r].left # <<>>
           /\ wire[r].pc # "none" => wire[r].to \in Node
<1>1. fwd \in [Mutation -> Handling] /\ wire \in [Mutation -> Copied]
  BY DEF TypeInv, TypeOK, Handling, Copied
<1>2. fwd[r] \in Handling /\ wire[r] \in Copied
  BY <1>1
<1> QED BY <1>1, <1>2 DEF TypeInv, Located, Handling, Copied

----------------------------------------------------------------------------
(* What each step of a mutation does to its handler and to its copy.        *)

LEMMA IngressEffect ==
    ASSUME TypeInv, NEW r \in Mutation, NEW n \in Node, Ingress(r, n)
    PROVE  /\ Local(r) /\ wire'[r] = wire[r]
           /\ fwd'[r].pc = (IF IsLeader(n) THEN "serving" ELSE "body")
           /\ fwd'[r].at = n /\ fwd'[r].calm = Settled
           /\ fwd'[r].answer = "none" /\ fwd'[r].retries = 0
<1> USE FleetAssumption
<1> DEFINE home == IsLeader(n)
           calm == Settled
           g == [Idle EXCEPT !.pc = IF home THEN "serving" ELSE "body", !.at = n, !.calm = calm]
<1>1. calm \in BOOLEAN
  BY DEF Settled
<1>2. fwd' = [fwd EXCEPT ![r] = g] /\ UNCHANGED wire
  BY DEF Ingress
<1> HIDE DEF calm, home
<1>3. <<>> \in Seq(Node) /\ 0 \in 0 .. MaxRetries
  OBVIOUS
<1>4. g \in Handling
  BY <1>1, <1>3 DEF Handling, Idle
<1>5. /\ g.pc = (IF home THEN "serving" ELSE "body") /\ g.at = n /\ g.calm = calm
      /\ g.answer = "none" /\ g.retries = 0
  BY DEF Idle
<1> HIDE DEF g
<1>6. Local(r) /\ fwd'[r] = g /\ wire'[r] = wire[r]
  BY <1>2, <1>4, Advanced
<1> QED BY <1>5, <1>6 DEF home, calm

LEMMA StampEffect ==
    ASSUME TypeInv, NEW r \in Mutation, Stamp(r)
    PROVE  /\ Local(r) /\ wire'[r] = wire[r]
           /\ fwd'[r].pc = "walk" /\ fwd'[r].at = fwd[r].at
           /\ fwd'[r].calm = fwd[r].calm /\ fwd'[r].answer = fwd[r].answer
           /\ fwd'[r].retries = fwd[r].retries
           /\ Leader(fwd[r].at) # fwd[r].at /\ Leader(fwd[r].at) \in Public =>
                 fwd'[r].left # <<>> /\ Head(fwd'[r].left) = Leader(fwd[r].at)
<1> DEFINE f == fwd[r]
           n == f.at
<1>1. f \in Handling /\ n \in Node
  BY Placed DEF Stamp
<1>2. PICK audible :
          fwd' = [fwd EXCEPT ![r].pc = "walk", ![r].stamp = epoch[n],
                             ![r].left = Candidates(n, audible)]
  BY DEF Stamp
<1>3. view[n] \subseteq Node /\ epoch[n] \in Nat
  BY <1>1 DEF TypeInv, TypeOK, Epoch
<1> DEFINE e == epoch[n]
           left == Candidates(n, audible)
           g == [f EXCEPT !.pc = "walk", !.stamp = e, !.left = left]
<1>4. /\ left \in Seq(Node)
      /\ Leader(n) # n /\ Leader(n) \in Public => left # <<>> /\ Head(left) = Leader(n)
  BY <1>1, <1>3, CandidatesType
<1>5. fwd' = [fwd EXCEPT ![r] = g] /\ UNCHANGED wire
  BY <1>2, Placed DEF Stamp
<1> HIDE DEF f, e, left
<1>6. /\ g \in Handling /\ g.pc = "walk" /\ g.at = f.at /\ g.calm = f.calm
      /\ g.answer = f.answer /\ g.retries = f.retries /\ g.left = left
  BY <1>1, <1>3, <1>4 DEF Handling, e
<1> HIDE DEF g
<1>7. Local(r) /\ fwd'[r] = g /\ wire'[r] = wire[r]
  BY <1>5, <1>6, Advanced
<1> QED BY <1>4, <1>6, <1>7 DEF f

(* An answer, or the end of the walk.                                       *)
LEMMA DoneEffect ==
    ASSUME TypeInv, NEW r \in Mutation, NEW answer \in {"ok", "refused", "unknown"},
           fwd' = [fwd EXCEPT ![r].pc = "done", ![r].answer = answer], UNCHANGED wire
    PROVE  /\ Local(r) /\ wire'[r] = wire[r]
           /\ fwd'[r].pc = "done" /\ fwd'[r].at = fwd[r].at /\ fwd'[r].left = fwd[r].left
           /\ fwd'[r].calm = fwd[r].calm /\ fwd'[r].answer = answer
           /\ fwd'[r].retries = fwd[r].retries
<1> DEFINE f == fwd[r]
           g == [f EXCEPT !.pc = "done", !.answer = answer]
<1>1. f \in Handling /\ fwd' = [fwd EXCEPT ![r] = g]
  BY Placed
<1> HIDE DEF f
<1>2. /\ g \in Handling /\ g.pc = "done" /\ g.at = f.at /\ g.left = f.left
      /\ g.calm = f.calm /\ g.answer = answer /\ g.retries = f.retries
  BY <1>1 DEF Handling
<1> HIDE DEF g
<1>3. Local(r) /\ fwd'[r] = g /\ wire'[r] = wire[r]
  BY <1>1, <1>2, Advanced
<1> QED BY <1>2, <1>3 DEF f

LEMMA SendEffect ==
    ASSUME TypeInv, NEW r \in Mutation, SendTo(r)
    PROVE  /\ Local(r)
           /\ fwd'[r].pc = "wait" /\ fwd'[r].at = fwd[r].at /\ fwd'[r].left = fwd[r].left
           /\ fwd'[r].calm = fwd[r].calm /\ fwd'[r].answer = fwd[r].answer
           /\ fwd'[r].retries = fwd[r].retries /\ fwd'[r].stamp = fwd[r].stamp
           /\ wire'[r].pc = "sent" /\ wire'[r].to = Head(fwd[r].left)
           /\ wire'[r].stamp = fwd[r].stamp
<1> DEFINE f == fwd[r]
           g == [f EXCEPT !.pc = "wait"]
           w == [NoCopy EXCEPT !.pc = "sent", !.to = Head(f.left), !.stamp = f.stamp]
<1>1. f \in Handling /\ f.left \in Seq(Node) /\ f.left # <<>> /\ f.stamp \in Nat
  BY Placed DEF SendTo
<1>2. fwd' = [fwd EXCEPT ![r] = g] /\ wire' = [wire EXCEPT ![r] = w]
  BY Placed DEF SendTo
<1>3. Head(f.left) \in Node
  BY <1>1, TailType
<1> HIDE DEF f
<1>4. /\ g \in Handling /\ g.pc = "wait" /\ g.at = f.at /\ g.left = f.left
      /\ g.calm = f.calm /\ g.answer = f.answer /\ g.retries = f.retries
      /\ g.stamp = f.stamp
  BY <1>1 DEF Handling
<1>5. w \in Copied /\ w.pc = "sent" /\ w.to = Head(f.left) /\ w.stamp = f.stamp
  BY <1>1, <1>3 DEF Copied, NoCopy
<1> HIDE DEF g, w
<1>6. Local(r) /\ fwd'[r] = g /\ wire'[r] = w
  BY <1>2, <1>4, <1>5, Replaced
<1> QED BY <1>4, <1>5, <1>6 DEF f

LEMMA ConnectEffect ==
    ASSUME TypeInv, NEW r \in Mutation, ConnectFails(r)
    PROVE  /\ Local(r) /\ wire'[r] = wire[r] /\ fwd'[r].calm = FALSE
           /\ fwd'[r].pc = "walk" /\ fwd'[r].at = fwd[r].at
<1> DEFINE f == fwd[r]
           g == [f EXCEPT !.left = Tail(@), !.calm = FALSE]
<1>1. f \in Handling /\ f.left \in Seq(Node) /\ f.left # <<>> /\ f.pc = "walk"
  BY Placed DEF ConnectFails
<1>2. fwd' = [fwd EXCEPT ![r] = g] /\ UNCHANGED wire
  BY Placed DEF ConnectFails
<1>3. Tail(f.left) \in Seq(Node)
  BY <1>1, TailType
<1> HIDE DEF f
<1>4. g \in Handling /\ g.calm = FALSE /\ g.pc = "walk" /\ g.at = f.at
  BY <1>1, <1>3 DEF Handling
<1> HIDE DEF g
<1>5. Local(r) /\ fwd'[r] = g /\ wire'[r] = wire[r]
  BY <1>2, <1>4, Advanced
<1> QED BY <1>4, <1>5 DEF f

(* The peer turns the copy into an answer.                                  *)
LEMMA AnsweredEffect ==
    ASSUME TypeInv, NEW r \in Mutation, NEW pc \in {"serving", "ok", "stale", "not_leader"},
           NEW d \in Nat, Answered(r, pc, d), UNCHANGED fwd
    PROVE  /\ Local(r) /\ fwd'[r] = fwd[r]
           /\ wire'[r].pc = pc /\ wire'[r].disclosed = d
           /\ wire'[r].to = wire[r].to /\ wire'[r].stamp = wire[r].stamp
<1> DEFINE c == wire[r]
           w == [c EXCEPT !.pc = pc, !.disclosed = d]
<1>1. c \in Copied /\ wire' = [wire EXCEPT ![r] = w]
  BY Placed DEF Answered
<1>2. fwd \in [Mutation -> Handling] /\ wire \in [Mutation -> Copied]
  BY Placed
<1> HIDE DEF c
<1>3. /\ w \in Copied /\ w.pc = pc /\ w.disclosed = d /\ w.to = c.to
      /\ w.stamp = c.stamp
  BY <1>1 DEF Copied
<1> HIDE DEF w
<1>4. Local(r) /\ fwd'[r] = fwd[r] /\ wire'[r] = w
  BY <1>1, <1>2, <1>3 DEF Local
<1> QED BY <1>3, <1>4 DEF c

LEMMA NotLeaderEffect ==
    ASSUME TypeInv, NEW r \in Mutation, ReplyNotLeader(r)
    PROVE  /\ Local(r) /\ wire'[r] = NoCopy
           /\ fwd'[r].pc = "walk" /\ fwd'[r].at = fwd[r].at
           /\ fwd'[r].calm = fwd[r].calm /\ fwd'[r].answer = fwd[r].answer
           /\ fwd'[r].retries = fwd[r].retries
<1> DEFINE f == fwd[r]
           g == [f EXCEPT !.pc = "walk", !.left = Tail(@)]
<1>1. f \in Handling /\ f.left \in Seq(Node) /\ f.left # <<>>
  BY Placed DEF ReplyNotLeader
<1>2. fwd' = [fwd EXCEPT ![r] = g] /\ wire' = [wire EXCEPT ![r] = NoCopy]
  BY Placed DEF ReplyNotLeader
<1>3. Tail(f.left) \in Seq(Node)
  BY <1>1, TailType
<1>4. NoCopy \in Copied
  BY DEF NoCopy, Copied
<1> HIDE DEF f
<1>5. /\ g \in Handling /\ g.pc = "walk" /\ g.at = f.at /\ g.calm = f.calm
      /\ g.answer = f.answer /\ g.retries = f.retries
  BY <1>1, <1>3 DEF Handling
<1> HIDE DEF g
<1>6. Local(r) /\ fwd'[r] = g /\ wire'[r] = NoCopy
  BY <1>2, <1>4, <1>5, Replaced
<1> QED BY <1>5, <1>6 DEF f

LEMMA StaleEffect ==
    ASSUME TypeInv, NEW r \in Mutation, ReplyStale(r)
    PROVE  /\ Local(r) /\ wire'[r] = NoCopy
           /\ fwd'[r].pc = "restamp" /\ fwd'[r].at = fwd[r].at /\ fwd'[r].left = fwd[r].left
           /\ fwd'[r].calm = fwd[r].calm /\ fwd'[r].answer = fwd[r].answer
           /\ fwd'[r].retries = fwd[r].retries /\ fwd'[r].stamp = fwd[r].stamp
           /\ fwd'[r].disclosed = wire[r].disclosed
<1> DEFINE f == fwd[r]
           d == wire[r].disclosed
           g == [f EXCEPT !.pc = "restamp", !.disclosed = d]
<1>1. f \in Handling /\ d \in Nat
  BY Placed
<1>2. fwd' = [fwd EXCEPT ![r] = g] /\ wire' = [wire EXCEPT ![r] = NoCopy]
  BY Placed DEF ReplyStale
<1>3. NoCopy \in Copied
  BY DEF NoCopy, Copied
<1> HIDE DEF f, d
<1>4. /\ g \in Handling /\ g.pc = "restamp" /\ g.at = f.at /\ g.left = f.left
      /\ g.calm = f.calm /\ g.answer = f.answer /\ g.retries = f.retries
      /\ g.stamp = f.stamp /\ g.disclosed = d
  BY <1>1 DEF Handling
<1> HIDE DEF g
<1>5. Local(r) /\ fwd'[r] = g /\ wire'[r] = NoCopy
  BY <1>2, <1>3, <1>4, Replaced
<1> QED BY <1>4, <1>5 DEF f, d

LEMMA RestampEffect ==
    ASSUME TypeInv, NEW r \in Mutation, Restamp(r)
    PROVE  /\ Local(r) /\ wire'[r] = wire[r]
           /\ fwd'[r].pc = "walk" /\ fwd'[r].at = fwd[r].at
           /\ fwd'[r].calm = fwd[r].calm /\ fwd'[r].answer = fwd[r].answer
           /\ fwd'[r].retries >= fwd[r].retries
           /\ epoch[fwd[r].at] > fwd[r].stamp /\ fwd[r].retries < MaxRetries =>
                 fwd'[r].left = fwd[r].left
<1> USE FleetAssumption
<1> DEFINE f == fwd[r]
           e == epoch[f.at]
           more == e > f.stamp /\ f.retries < MaxRetries
           retried == [f EXCEPT !.pc = "walk", !.stamp = e, !.retries = @ + 1]
           passed == [f EXCEPT !.pc = "walk", !.left = Tail(@)]
           g == IF more THEN retried ELSE passed
<1>1. /\ f \in Handling /\ f.left \in Seq(Node) /\ f.left # <<>> /\ f.at \in Node
      /\ f.retries \in 0 .. MaxRetries
  BY Placed DEF Restamp
<1>2. e \in Nat /\ Tail(f.left) \in Seq(Node)
  <2>1. e \in Nat
    BY <1>1 DEF TypeInv, TypeOK, Epoch
  <2> QED BY <1>1, <2>1, TailType
<1>3. fwd' = [fwd EXCEPT ![r] = g] /\ UNCHANGED wire
  BY Placed DEF Restamp
<1> HIDE DEF f, e
<1>4. f.retries < MaxRetries => f.retries + 1 \in 0 .. MaxRetries
  BY <1>1
<1>5. /\ f.retries < MaxRetries => retried \in Handling
      /\ retried.pc = "walk" /\ retried.at = f.at /\ retried.calm = f.calm
      /\ retried.answer = f.answer /\ retried.left = f.left
      /\ retried.retries = f.retries + 1
  BY <1>1, <1>2, <1>4 DEF Handling
<1>6. /\ passed \in Handling
      /\ passed.pc = "walk" /\ passed.at = f.at /\ passed.calm = f.calm
      /\ passed.answer = f.answer /\ passed.retries = f.retries
  BY <1>1, <1>2 DEF Handling
<1> HIDE DEF retried, passed
<1>7. /\ g \in Handling /\ g.pc = "walk" /\ g.at = f.at /\ g.calm = f.calm
      /\ g.answer = f.answer /\ g.retries \in {f.retries, f.retries + 1}
      /\ e > f.stamp /\ f.retries < MaxRetries => g.left = f.left
  BY <1>5, <1>6
<1> HIDE DEF g
<1>8. Local(r) /\ fwd'[r] = g /\ wire'[r] = wire[r]
  BY <1>3, <1>7, Advanced
<1>9. g.retries >= f.retries
  BY <1>1, <1>7
<1> QED BY <1>7, <1>8, <1>9 DEF f, e

----------------------------------------------------------------------------
(* Types.                                                                   *)

(* A step of one mutation keeps the types if it leaves it located.          *)
LEMMA LocalTypes ==
    ASSUME TypeInv, NEW r \in Mutation, Local(r),
           fwd'[r].pc # "idle" => fwd'[r].at \in Node,
           fwd'[r].pc \in {"wait", "restamp"} => fwd'[r].left # <<>>,
           wire'[r].pc # "none" => wire'[r].to \in Node,
           UNCHANGED <<view, linked, told>>,
           owner' \in [Node -> Node], epoch' \in [Node -> Epoch],
           adopting' \in [Node -> SUBSET Epoch],
           applied' \in [Mutation -> Nat], faults' \in 0 .. MaxFaults
    PROVE  TypeInv'
<1>1. Located'
  BY DEF TypeInv, Located, Local
<1> QED BY <1>1 DEF TypeInv, TypeOK, Local, Handling, Copied

LEMMA AnotherFault ==
    ASSUME TypeInv, faults < MaxFaults, faults' = faults + 1
    PROVE  faults' \in 0 .. MaxFaults
<1>1. faults \in 0 .. MaxFaults /\ MaxFaults \in Nat
  BY FleetAssumption DEF TypeInv, TypeOK
<1> QED BY <1>1

(* Every step keeps the types.                                              *)
LEMMA NextKeepsTypes == TypeInv /\ [Next]_vars => TypeInv'
<1> SUFFICES ASSUME TypeInv, [Next]_vars PROVE TypeInv'
  OBVIOUS
<1> USE DEF requests, cluster
<1>0. /\ fwd \in [Mutation -> Handling] /\ wire \in [Mutation -> Copied]
      /\ view \in [Node -> SUBSET Node] /\ linked \in [Node -> BOOLEAN]
      /\ owner \in [Node -> Node] /\ epoch \in [Node -> Epoch]
      /\ adopting \in [Node -> SUBSET Epoch] /\ told \subseteq Epoch
      /\ applied \in [Mutation -> Nat] /\ faults \in 0 .. MaxFaults
  BY DEF TypeInv, TypeOK, Handling, Copied
<1>1. ASSUME NEW n \in Node, NEW m \in Node, Hear(n, m) PROVE TypeInv'
  BY <1>1 DEF Hear, TypeInv, TypeOK, Located
<1>2. ASSUME Disturb
      PROVE  /\ fwd' \in [Mutation -> Handling]
             /\ \A r \in Mutation : /\ fwd'[r].pc = fwd[r].pc /\ fwd'[r].at = fwd[r].at
                                    /\ fwd'[r].left = fwd[r].left
  <2>1. \A f \in Handling : LET g == [f EXCEPT !.calm = FALSE]
                            IN  g \in Handling /\ g.pc = f.pc /\ g.at = f.at /\ g.left = f.left
    BY DEF Handling
  <2> QED BY <1>0, <1>2, <2>1 DEF Disturb
<1>3. ASSUME NEW n \in Node, NEW m \in Node, Blip(n, m) PROVE TypeInv'
  <2>1. fwd' \in [Mutation -> Handling]
    BY <1>2, <1>3 DEF Blip
  <2>2. Located'
    BY <1>2, <1>3 DEF Blip, Located, TypeInv
  <2>3. faults' \in 0 .. MaxFaults
    BY <1>3, AnotherFault DEF Blip
  <2>4. view' \in [Node -> SUBSET Node] /\ linked' \in [Node -> BOOLEAN]
    BY <1>0, <1>3 DEF Blip
  <2> QED BY <1>3, <2>1, <2>2, <2>3, <2>4 DEF Blip, TypeInv, TypeOK, Handling
<1>4. ASSUME NEW n \in Node, ClusterLoop(n) PROVE TypeInv'
  <2>1. owner' \in [Node -> Node] /\ epoch' \in [Node -> Epoch]
    BY <1>4, ObserveTypes DEF ClusterLoop, TypeInv
  <2> QED BY <1>4, <2>1 DEF ClusterLoop, TypeInv, TypeOK, Located
<1>5. ASSUME NEW n \in Node, GossipEpoch(n) PROVE TypeInv'
  <2>1. adopting' \in [Node -> SUBSET Epoch]
    BY <1>0, <1>5 DEF GossipEpoch, AdoptReads
  <2> QED BY <1>5, <2>1 DEF GossipEpoch, TypeInv, TypeOK, Located
<1>6. ASSUME NEW n \in Node, Adopt(n) PROVE TypeInv'
  <2>1. PICK e \in adopting[n] : AdoptWrites(n, e)
    BY <1>6 DEF Adopt
  <2>2. adopting' \in [Node -> SUBSET Epoch] /\ epoch' \in [Node -> Epoch]
    BY <1>0, <2>1 DEF AdoptWrites
  <2>3. fwd' \in [Mutation -> Handling] /\ Located'
    BY <1>0, <1>2, <2>1 DEF AdoptWrites, Located, TypeInv
  <2> QED BY <2>1, <2>2, <2>3 DEF AdoptWrites, TypeInv, TypeOK, Handling
<1>7. ASSUME NEW n \in Node, Crash(n) PROVE TypeInv'
  <2>1. /\ view' \in [Node -> SUBSET Node] /\ linked' \in [Node -> BOOLEAN]
        /\ owner' \in [Node -> Node] /\ epoch' \in [Node -> Epoch]
        /\ adopting' \in [Node -> SUBSET Epoch] /\ faults' \in 0 .. MaxFaults
    <3>1. view' \in [Node -> SUBSET Node] /\ linked' \in [Node -> BOOLEAN]
      BY <1>0, <1>7 DEF Crash
    <3>2. owner' \in [Node -> Node] /\ adopting' \in [Node -> SUBSET Epoch]
      BY <1>0, <1>7 DEF Crash
    <3>3. FirstEpoch \in Epoch
      BY DEF FirstEpoch, Epoch
    <3>4. epoch' \in [Node -> Epoch]
      BY <1>0, <1>7, <3>3 DEF Crash
    <3>5. faults' \in 0 .. MaxFaults
      BY <1>7, AnotherFault DEF Crash
    <3> QED BY <3>1, <3>2, <3>4, <3>5
  <2>2. wire' \in [Mutation -> Copied]
    BY <1>0, <1>7 DEF Crash, NoCopy, Copied
  <2>3. \A f \in Handling : \A gone \in BOOLEAN :
           LET g == [f EXCEPT !.calm = FALSE, !.pc = IF gone THEN "done" ELSE @,
                              !.answer = IF gone THEN "unknown" ELSE @]
           IN  /\ g \in Handling /\ g.pc = (IF gone THEN "done" ELSE f.pc)
               /\ g.at = f.at /\ g.left = f.left
    <3> SUFFICES ASSUME NEW f \in Handling, NEW gone \in BOOLEAN
                 PROVE  LET g == [f EXCEPT !.calm = FALSE, !.pc = IF gone THEN "done" ELSE @,
                                           !.answer = IF gone THEN "unknown" ELSE @]
                        IN  /\ g \in Handling /\ g.pc = (IF gone THEN "done" ELSE f.pc)
                            /\ g.at = f.at /\ g.left = f.left
      OBVIOUS
    <3>1. [f EXCEPT !.calm = FALSE, !.pc = "done", !.answer = "unknown"] \in Handling
      BY DEF Handling
    <3>2. [f EXCEPT !.calm = FALSE, !.pc = f.pc, !.answer = f.answer] \in Handling
      BY DEF Handling
    <3>3. CASE gone
      BY <3>1, <3>3 DEF Handling
    <3>4. CASE ~gone
      BY <3>2, <3>4 DEF Handling
    <3> QED BY <3>3, <3>4
  <2>4. ASSUME NEW r \in Mutation
        PROVE  /\ fwd'[r] \in Handling
               /\ fwd'[r].pc = (IF Drops(r, n) THEN "done" ELSE fwd[r].pc)
               /\ fwd'[r].at = fwd[r].at /\ fwd'[r].left = fwd[r].left
               /\ wire'[r] \in {wire[r], NoCopy}
    <3> DEFINE f == fwd[r]
               gone == Drops(r, n)
    <3>1. f \in Handling /\ gone \in BOOLEAN
      BY <1>0 DEF Drops
    <3>2. fwd'[r] = [f EXCEPT !.calm = FALSE, !.pc = IF gone THEN "done" ELSE @,
                              !.answer = IF gone THEN "unknown" ELSE @]
      BY <1>7 DEF Crash
    <3>3. wire'[r] \in {wire[r], NoCopy}
      BY <1>7 DEF Crash
    <3> HIDE DEF f, gone
    <3>4. /\ fwd'[r] \in Handling /\ fwd'[r].pc = (IF gone THEN "done" ELSE f.pc)
          /\ fwd'[r].at = f.at /\ fwd'[r].left = f.left
      BY <2>3, <3>1, <3>2
    <3> QED BY <3>3, <3>4 DEF f, gone
  <2>5. fwd' \in [Mutation -> Handling]
    BY <1>7, <2>4 DEF Crash
  <2>6. Located'
    BY <2>4 DEF Located, NoCopy, Drops, TypeInv
  <2> QED BY <1>7, <2>1, <2>2, <2>5, <2>6 DEF Crash, TypeInv, TypeOK, Handling, Copied
<1>8. ASSUME NEW r \in Mutation, NEW n \in Node, Ingress(r, n) PROVE TypeInv'
  <2>1. owner' \in [Node -> Node] /\ epoch' \in [Node -> Epoch]
    BY <1>8, ObserveTypes DEF Ingress, TypeInv
  <2>2. /\ fwd'[r].pc \notin {"wait", "restamp"}
        /\ wire'[r].pc # "none" => wire'[r].to \in Node
    BY <1>8, IngressEffect, Placed
  <2> QED BY <1>0, <1>8, <2>1, <2>2, IngressEffect, LocalTypes DEF Ingress
<1>9. ASSUME NEW r \in Mutation, Stamp(r) PROVE TypeInv'
  <2>1. fwd[r].at \in Node
    BY <1>9, Placed DEF Stamp
  <2>2. owner' \in [Node -> Node] /\ epoch' \in [Node -> Epoch]
    BY <1>9, <2>1, ObserveTypes DEF Stamp, TypeInv
  <2>3. Local(r) /\ fwd'[r].pc = "walk" /\ fwd'[r].at \in Node /\ wire'[r] = wire[r]
    BY <1>9, <2>1, StampEffect
  <2> QED BY <1>0, <1>9, <2>2, <2>3, Placed, LocalTypes DEF Stamp
<1>10. ASSUME NEW r \in Mutation, NEW answer \in {"ok", "refused", "unknown"},
              fwd[r].pc # "idle",
              fwd' = [fwd EXCEPT ![r].pc = "done", ![r].answer = answer],
              UNCHANGED <<view, linked, cluster, wire, faults>>,
              applied' \in [Mutation -> Nat]
       PROVE  TypeInv'
  <2>1. Local(r) /\ fwd'[r].pc = "done" /\ fwd'[r].at \in Node /\ wire'[r] = wire[r]
    BY <1>10, DoneEffect, Placed
  <2> QED BY <1>0, <1>10, <2>1, Placed, LocalTypes
<1>11. ASSUME NEW r \in Mutation, Refuse(r) PROVE TypeInv'
  BY <1>0, <1>10, <1>11 DEF Refuse
<1>12. ASSUME NEW r \in Mutation, SendTo(r) PROVE TypeInv'
  <2>1. fwd[r].at \in Node /\ fwd[r].left # <<>> /\ Head(fwd[r].left) \in Node
    BY <1>12, Placed, TailType DEF SendTo
  <2>2. /\ Local(r) /\ fwd'[r].at \in Node /\ fwd'[r].left # <<>> /\ wire'[r].to \in Node
    BY <1>12, <2>1, SendEffect
  <2> QED BY <1>0, <1>12, <2>2, LocalTypes DEF SendTo
<1>13. ASSUME NEW r \in Mutation, ConnectFails(r) PROVE TypeInv'
  <2>1. fwd[r].at \in Node /\ faults' \in 0 .. MaxFaults
    BY <1>13, Placed, AnotherFault DEF ConnectFails
  <2>2. Local(r) /\ fwd'[r].pc = "walk" /\ fwd'[r].at \in Node /\ wire'[r] = wire[r]
    BY <1>13, <2>1, ConnectEffect
  <2> QED BY <1>0, <1>13, <2>1, <2>2, Placed, LocalTypes DEF ConnectFails
<1>14. ASSUME NEW r \in Mutation, NEW pc \in {"serving", "ok", "stale", "not_leader"},
              NEW d \in Nat, Answered(r, pc, d), wire[r].pc # "none",
              UNCHANGED <<view, linked, adopting, told, fwd, faults>>,
              owner' \in [Node -> Node], epoch' \in [Node -> Epoch],
              applied' \in [Mutation -> Nat]
       PROVE  TypeInv'
  <2>1. Local(r) /\ fwd'[r] = fwd[r] /\ wire'[r].to \in Node
    BY <1>14, AnsweredEffect, Placed
  <2> QED BY <1>0, <1>14, <2>1, Placed, LocalTypes
<1>15. ASSUME NEW r \in Mutation, Receive(r) PROVE TypeInv'
  <2> DEFINE m == wire[r].to
  <2>1. m \in Node /\ wire[r].pc # "none"
    BY <1>15, Placed DEF Receive
  <2>2. epoch[m] \in Nat /\ 0 \in Nat
    BY <1>0, <2>1 DEF Epoch
  <2>3. CASE Fenced(r, m)
    <3>1. Answered(r, "stale", epoch[m]) /\ UNCHANGED <<owner, epoch>>
      BY <2>3 DEF Fenced
    <3> QED BY <1>0, <1>14, <1>15, <2>1, <2>2, <3>1 DEF Receive
  <2>4. CASE Unfenced(r, m)
    <3>1. owner' \in [Node -> Node] /\ epoch' \in [Node -> Epoch]
      BY <2>1, <2>4, ObserveTypes DEF Unfenced, TypeInv
    <3>2. \E pc \in {"serving", "not_leader"} : Answered(r, pc, 0)
      BY <2>4 DEF Unfenced
    <3> QED BY <1>0, <1>14, <1>15, <2>1, <2>2, <3>1, <3>2 DEF Receive
  <2> QED BY <1>15, <2>3, <2>4 DEF Receive
<1>16. ASSUME NEW r \in Mutation, ServeForwarded(r) PROVE TypeInv'
  <2>1. applied' \in [Mutation -> Nat]
    BY <1>0, <1>16 DEF ServeForwarded
  <2> QED BY <1>0, <1>14, <1>16, <2>1 DEF ServeForwarded
<1>17. ASSUME NEW r \in Mutation, ServeLocal(r) PROVE TypeInv'
  <2>1. applied' \in [Mutation -> Nat]
    BY <1>0, <1>17 DEF ServeLocal
  <2> QED BY <1>10, <1>17, <2>1 DEF ServeLocal
<1>18. ASSUME NEW r \in Mutation, ReplyOk(r) PROVE TypeInv'
  BY <1>0, <1>10, <1>18 DEF ReplyOk
<1>19. ASSUME NEW r \in Mutation, GiveUp(r) PROVE TypeInv'
  BY <1>0, <1>10, <1>19 DEF GiveUp
<1>20. ASSUME NEW r \in Mutation, ReplyNotLeader(r) PROVE TypeInv'
  <2>1. Local(r) /\ fwd'[r].pc = "walk" /\ fwd'[r].at \in Node /\ wire'[r].pc = "none"
    BY <1>20, NotLeaderEffect, Placed DEF ReplyNotLeader, NoCopy
  <2> QED BY <1>0, <1>20, <2>1, LocalTypes DEF ReplyNotLeader
<1>21. ASSUME NEW r \in Mutation, ReplyStale(r) PROVE TypeInv'
  <2>1. fwd[r].at \in Node /\ fwd[r].left # <<>> /\ wire[r].disclosed \in Nat
    BY <1>21, Placed DEF ReplyStale
  <2>2. adopting' \in [Node -> SUBSET Epoch]
    <3>1. CASE AdoptReads(fwd[r].at, wire[r].disclosed)
      <4>1. wire[r].disclosed \in Epoch
        BY <1>0, <2>1, <3>1 DEF AdoptReads, Epoch
      <4> QED BY <1>0, <3>1, <4>1 DEF AdoptReads
    <3> QED BY <1>0, <1>21, <3>1 DEF ReplyStale
  <2>3. Local(r) /\ fwd'[r].left # <<>> /\ fwd'[r].at \in Node /\ wire'[r].pc = "none"
    BY <1>21, <2>1, StaleEffect DEF NoCopy
  <2> QED BY <1>0, <1>21, <2>2, <2>3, LocalTypes DEF ReplyStale
<1>22. ASSUME NEW r \in Mutation, Restamp(r) PROVE TypeInv'
  <2>1. Local(r) /\ fwd'[r].pc = "walk" /\ fwd'[r].at \in Node /\ wire'[r] = wire[r]
    BY <1>22, RestampEffect, Placed DEF Restamp
  <2> QED BY <1>0, <1>22, <2>1, Placed, LocalTypes DEF Restamp
<1>23. CASE UNCHANGED vars
  BY <1>23 DEF vars, TypeInv, TypeOK, Located
<1> QED BY <1>1, <1>3, <1>4, <1>5, <1>6, <1>7, <1>8, <1>9, <1>11, <1>12, <1>13, <1>15,
           <1>16, <1>17, <1>18, <1>19, <1>20, <1>21, <1>22, <1>23
        DEF Next, Handler, Peer

(* The state stays well formed through every interleaving of elections,     *)
(* gossip, forwarding, faults and restarts: no handler is ever at nobody,   *)
(* and the retries never exceed MAX_STALE_EPOCH_RETRIES                     *)
(* (admin_forward_to_leader, main.rs).                                      *)
THEOREM TypeCorrect == Spec => []TypeOK
<1>1. TypeInv => TypeOK
  BY DEF TypeInv
<1> QED BY <1>1, InitTypes, NextKeepsTypes, PTL DEF Spec

----------------------------------------------------------------------------
(* A settled fleet accepts what it is sent.                                 *)

(* Who a fleet elects whose nodes all see each other.                       *)
Elected == ControlPlaneOwner(Node)

(* A mutation nothing disturbed: the fleet is settled, its handler is not   *)
(* at the elected owner, and, until the retries are spent, it walks to the  *)
(* owner first and reads of it either that it served or a newer epoch than  *)
(* the one the copy carried.                                                *)
Undisturbed(f, w) ==
    f.calm =>
        /\ Settled
        /\ f.pc \in {"body", "walk", "wait", "restamp"} => Elected \notin {None, f.at}
        /\ f.retries < MaxRetries =>
              /\ f.answer # "refused"
              /\ f.pc \in {"walk", "wait", "restamp"} =>
                    f.left # <<>> /\ Head(f.left) = Elected
              /\ f.pc = "wait" =>
                    /\ w.to = Elected /\ w.stamp = f.stamp
                    /\ w.pc \notin {"none", "not_leader"}
                    /\ w.pc = "stale" => w.disclosed > w.stamp
              /\ f.pc = "restamp" =>
                    /\ f.disclosed > f.stamp
                    /\ f.disclosed \in adopting[f.at] \/ epoch[f.at] >= f.disclosed

CalmInv == \A r \in Mutation : Undisturbed(fwd[r], wire[r])

(* In a settled fleet every node resolves the same owner.                   *)
LEMMA SettledLeader ==
    ASSUME Settled, NEW n \in Node, OwnerReachable
    PROVE  /\ linked[n] /\ Leader(n) = IF Elected = None THEN n ELSE Elected
           /\ Leader(n) \notin Public => Leader(n) = n
<1>1. view[n] = Node /\ linked[n]
  BY DEF Settled
<1> QED BY <1>1 DEF Leader, Elected, OwnerReachable

(* The fleet stays settled, epochs only grow, and an epoch a node compared  *)
(* is still to be written or was.                                           *)
Forward ==
    /\ Settled => Settled'
    /\ \A n \in Node : /\ epoch'[n] >= epoch[n]
                       /\ \A e \in adopting[n] : e \in adopting'[n] \/ epoch'[n] >= e

LEMMA ForwardAt ==
    ASSUME TypeInv, TypeInv', Forward, NEW n \in Node, NEW d \in Nat,
           d \in adopting[n] \/ epoch[n] >= d
    PROVE  d \in adopting'[n] \/ epoch'[n] >= d
<1> DEFINE e == epoch[n]
           next == epoch'[n]
<1>1. next >= e /\ (d \in adopting[n] => d \in adopting'[n] \/ next >= d)
  BY DEF Forward
<1>2. e \in Nat /\ next \in Nat
  BY DEF TypeInv, TypeOK, Epoch
<1>3. d \in adopting[n] \/ e >= d
  OBVIOUS
<1> HIDE DEF e, next
<1>4. d \in adopting'[n] \/ next >= d
  BY <1>1, <1>2, <1>3
<1> QED BY <1>4 DEF next

LEMMA StaysUndisturbed ==
    ASSUME TypeInv, TypeInv', Forward, NEW r \in Mutation, Undisturbed(fwd[r], wire[r]),
           fwd'[r] = fwd[r], wire'[r] = wire[r]
    PROVE  Undisturbed(fwd[r], wire[r])'
<1>1. ASSUME fwd[r].pc = "restamp",
             fwd[r].disclosed \in adopting[fwd[r].at] \/ epoch[fwd[r].at] >= fwd[r].disclosed
      PROVE  fwd[r].disclosed \in adopting'[fwd[r].at] \/ epoch'[fwd[r].at] >= fwd[r].disclosed
  BY <1>1, ForwardAt, Placed
<1> QED BY <1>1 DEF Undisturbed, Forward, Elected

LEMMA LocalUndisturbed ==
    ASSUME TypeInv, TypeInv', CalmInv, Forward, NEW r \in Mutation, Local(r),
           Undisturbed(fwd[r], wire[r])'
    PROVE  CalmInv'
<1>1. ASSUME NEW q \in Mutation, q # r PROVE Undisturbed(fwd[q], wire[q])'
  <2>1. fwd'[q] = fwd[q] /\ wire'[q] = wire[q]
    BY <1>1 DEF Local
  <2>2. Undisturbed(fwd[q], wire[q])
    BY DEF CalmInv
  <2> QED BY <2>1, <2>2, StaysUndisturbed
<1> QED BY <1>1 DEF CalmInv

LEMMA SameUndisturbed ==
    ASSUME TypeInv, TypeInv', CalmInv, Forward, UNCHANGED <<fwd, wire>>
    PROVE  CalmInv'
<1>1. ASSUME NEW q \in Mutation PROVE Undisturbed(fwd[q], wire[q])'
  BY StaysUndisturbed DEF CalmInv
<1> QED BY <1>1 DEF CalmInv

LEMMA DisturbedNoMore ==
    ASSUME \A r \in Mutation : ~fwd'[r].calm
    PROVE  CalmInv'
BY DEF CalmInv, Undisturbed

(* A step that leaves views, epochs and comparisons alone is forward.       *)
LEMMA SteadyForward ==
    ASSUME TypeInv, UNCHANGED <<view, linked, epoch, adopting>>
    PROVE  Forward
<1>1. \A n \in Node : epoch[n] \in Nat
  BY DEF TypeInv, TypeOK, Epoch
<1> QED BY <1>1 DEF Forward, Settled

LEMMA ObserveForward ==
    ASSUME TypeInv, NEW n \in Node, Observe(n) \/ ObserveIfLinked(n),
           UNCHANGED <<view, linked, adopting>>
    PROVE  Forward
<1>1. \A k \in Node : epoch[k] \in Nat
  BY DEF TypeInv, TypeOK, Epoch
<1>2. epoch \in [Node -> Epoch]
  BY DEF TypeInv, TypeOK
<1>3. \A k \in Node : epoch'[k] \in {epoch[k], epoch[k] + 1}
  BY <1>2 DEF Observe, ObserveIfLinked
<1>4. \A k \in Node : epoch'[k] >= epoch[k]
  BY <1>1, <1>3
<1> QED BY <1>4 DEF Forward, Settled

LEMMA CalmInit == Init => CalmInv
BY DEF Init, CalmInv, Undisturbed, Idle

LEMMA CalmStep ==
    ASSUME TypeInv, TypeInv', CalmInv, OwnerReachable, [Next]_vars
    PROVE  CalmInv'
<1> USE DEF requests, cluster
<1>0. \A r \in Mutation : Undisturbed(fwd[r], wire[r])
  BY DEF CalmInv
<1>1. ASSUME NEW n \in Node, NEW m \in Node, Hear(n, m) PROVE CalmInv'
  <2>1. ~Settled
    BY <1>1 DEF Hear, Settled
  <2>2. \A r \in Mutation : ~fwd[r].calm
    BY <1>0, <2>1 DEF Undisturbed
  <2> QED BY <1>1, <2>2, DisturbedNoMore DEF Hear
<1>2. ASSUME Disturb PROVE CalmInv'
  <2>1. fwd \in [Mutation -> Handling]
    BY DEF TypeInv, TypeOK, Handling
  <2>2. \A f \in Handling : ~[f EXCEPT !.calm = FALSE].calm
    BY DEF Handling
  <2>3. \A r \in Mutation : ~fwd'[r].calm
    BY <1>2, <2>1, <2>2 DEF Disturb
  <2> QED BY <2>3, DisturbedNoMore
<1>3. ASSUME NEW n \in Node, NEW m \in Node, Blip(n, m) PROVE CalmInv'
  BY <1>2, <1>3 DEF Blip
<1>4. ASSUME NEW n \in Node, ClusterLoop(n) PROVE CalmInv'
  BY <1>4, ObserveForward, SameUndisturbed DEF ClusterLoop
<1>5. ASSUME NEW n \in Node, GossipEpoch(n) PROVE CalmInv'
  <2>1. \A k \in Node : epoch[k] \in Nat
    BY DEF TypeInv, TypeOK, Epoch
  <2>2. \A k \in Node : adopting[k] \subseteq adopting'[k]
    BY <1>5 DEF GossipEpoch, AdoptReads, TypeInv, TypeOK
  <2>3. Forward
    BY <1>5, <2>1, <2>2 DEF Forward, Settled, GossipEpoch
  <2> QED BY <1>5, <2>3, SameUndisturbed DEF GossipEpoch
<1>6. ASSUME NEW n \in Node, Adopt(n) PROVE CalmInv'
  <2>1. PICK e \in adopting[n] : AdoptWrites(n, e)
    BY <1>6 DEF Adopt
  <2>2. CASE e < epoch[n]
    BY <1>2, <2>1, <2>2 DEF AdoptWrites
  <2>3. CASE ~(e < epoch[n])
    <3>1. e \in Nat /\ \A k \in Node : epoch[k] \in Nat
      BY DEF TypeInv, TypeOK, Epoch
    <3>2. epoch' = [epoch EXCEPT ![n] = e] /\ adopting' = [adopting EXCEPT ![n] = @ \ {e}]
      BY <2>1 DEF AdoptWrites
    <3>3. epoch \in [Node -> Epoch] /\ adopting \in [Node -> SUBSET Epoch]
      BY DEF TypeInv, TypeOK
    <3>4. epoch'[n] = e /\ epoch'[n] >= epoch[n]
      BY <2>3, <3>1, <3>2, <3>3
    <3>5. \A d \in adopting[n] : d \in adopting'[n] \/ epoch'[n] >= d
      BY <3>1, <3>2, <3>3, <3>4
    <3>6. \A k \in Node \ {n} : epoch'[k] = epoch[k] /\ adopting'[k] = adopting[k]
      BY <3>2, <3>3
    <3>7. \A k \in Node : epoch[k] >= epoch[k]
      BY <3>1
    <3>8. Settled => Settled'
      BY <2>1 DEF AdoptWrites, Settled
    <3>9. Forward
      BY <3>4, <3>5, <3>6, <3>7, <3>8 DEF Forward
    <3> QED BY <2>1, <2>3, <3>9, SameUndisturbed DEF AdoptWrites
  <2> QED BY <2>2, <2>3
<1>7. ASSUME NEW n \in Node, Crash(n) PROVE CalmInv'
  <2>1. fwd \in [Mutation -> Handling]
    BY DEF TypeInv, TypeOK, Handling
  <2>2. \A f \in Handling : \A pc, answer :
            ~[f EXCEPT !.calm = FALSE, !.pc = pc, !.answer = answer].calm
    BY DEF Handling
  <2>3. ASSUME NEW r \in Mutation PROVE ~fwd'[r].calm
    <3> DEFINE f == fwd[r]
               gone == Drops(r, n)
    <3>1. f \in Handling
      BY <2>1
    <3>2. fwd'[r] = [f EXCEPT !.calm = FALSE, !.pc = IF gone THEN "done" ELSE @,
                              !.answer = IF gone THEN "unknown" ELSE @]
      BY <1>7 DEF Crash
    <3> HIDE DEF f, gone
    <3> QED BY <3>1, <3>2 DEF Handling
  <2> QED BY <2>3, DisturbedNoMore
<1>8. ASSUME NEW r \in Mutation, NEW n \in Node, Ingress(r, n) PROVE CalmInv'
  <2>1. Forward
    BY <1>8, ObserveForward DEF Ingress
  <2>2. Local(r) /\ wire'[r] = wire[r]
        /\ fwd'[r].pc = (IF IsLeader(n) THEN "serving" ELSE "body")
        /\ fwd'[r].at = n /\ fwd'[r].calm = Settled
        /\ fwd'[r].answer = "none" /\ fwd'[r].retries = 0
    BY <1>8, IngressEffect
  <2>3. Settled /\ ~IsLeader(n) => Elected \notin {None, n}
    BY SettledLeader DEF IsLeader
  <2>4. Undisturbed(fwd[r], wire[r])'
    BY <2>1, <2>2, <2>3 DEF Undisturbed, Forward, Elected
  <2> QED BY <2>1, <2>2, <2>4, LocalUndisturbed
<1>9. ASSUME NEW r \in Mutation, Stamp(r) PROVE CalmInv'
  <2> DEFINE n == fwd[r].at
  <2>1. n \in Node /\ fwd[r].pc = "body"
    BY <1>9, Placed DEF Stamp
  <2>2. Forward
    BY <1>9, <2>1, ObserveForward DEF Stamp
  <2>3. /\ Local(r) /\ wire'[r] = wire[r]
        /\ fwd'[r].pc = "walk" /\ fwd'[r].at = n
        /\ fwd'[r].calm = fwd[r].calm /\ fwd'[r].answer = fwd[r].answer
        /\ fwd'[r].retries = fwd[r].retries
        /\ Leader(n) # n /\ Leader(n) \in Public =>
              fwd'[r].left # <<>> /\ Head(fwd'[r].left) = Leader(n)
    BY <1>9, StampEffect
  <2>4. fwd[r].calm => Settled /\ Elected \notin {None, n}
    BY <1>0, <2>1 DEF Undisturbed
  <2>5. fwd[r].calm => fwd'[r].left # <<>> /\ Head(fwd'[r].left) = Elected
    BY <2>1, <2>3, <2>4, SettledLeader
  <2>6. fwd[r].retries < MaxRetries /\ fwd[r].calm => fwd[r].answer # "refused"
    BY <1>0 DEF Undisturbed
  <2>7. Undisturbed(fwd[r], wire[r])'
    BY <2>2, <2>3, <2>4, <2>5, <2>6 DEF Undisturbed, Forward, Elected
  <2> QED BY <2>2, <2>3, <2>7, LocalUndisturbed
<1>10. ASSUME NEW r \in Mutation, NEW answer \in {"ok", "refused", "unknown"},
              fwd[r].calm /\ answer = "refused" => fwd[r].retries >= MaxRetries,
              fwd[r].pc # "idle",
              fwd' = [fwd EXCEPT ![r].pc = "done", ![r].answer = answer],
              UNCHANGED <<view, linked, epoch, adopting, wire>>
       PROVE  CalmInv'
  <2>1. Forward
    BY <1>10, SteadyForward
  <2>2. /\ Local(r) /\ fwd'[r].pc = "done" /\ fwd'[r].calm = fwd[r].calm
        /\ fwd'[r].retries = fwd[r].retries /\ fwd'[r].answer = answer
    BY <1>10, DoneEffect
  <2>3. fwd[r].retries \in Nat /\ MaxRetries \in Nat
    BY Placed, FleetAssumption
  <2>4. fwd[r].calm => Settled
    BY <1>0 DEF Undisturbed
  <2>5. fwd[r].retries < MaxRetries /\ fwd[r].calm => answer # "refused"
    BY <1>10, <2>3
  <2>6. Undisturbed(fwd[r], wire[r])'
    BY <2>1, <2>2, <2>4, <2>5 DEF Undisturbed, Forward, Elected
  <2> QED BY <2>1, <2>2, <2>6, LocalUndisturbed
<1>11. ASSUME NEW r \in Mutation, Refuse(r) PROVE CalmInv'
  <2>1. fwd[r].calm => ~(fwd[r].retries < MaxRetries)
    BY <1>0, <1>11 DEF Undisturbed, Refuse
  <2>2. fwd[r].retries \in Nat /\ MaxRetries \in Nat
    BY Placed, FleetAssumption
  <2>3. fwd[r].calm => fwd[r].retries >= MaxRetries
    BY <2>1, <2>2
  <2> QED BY <1>10, <1>11, <2>3 DEF Refuse
<1>12. ASSUME NEW r \in Mutation, SendTo(r) PROVE CalmInv'
  <2>1. Forward
    BY <1>12, SteadyForward DEF SendTo
  <2>2. /\ Local(r)
        /\ fwd'[r].pc = "wait" /\ fwd'[r].at = fwd[r].at /\ fwd'[r].left = fwd[r].left
        /\ fwd'[r].calm = fwd[r].calm /\ fwd'[r].answer = fwd[r].answer
        /\ fwd'[r].retries = fwd[r].retries /\ fwd'[r].stamp = fwd[r].stamp
        /\ wire'[r].pc = "sent" /\ wire'[r].to = Head(fwd[r].left)
        /\ wire'[r].stamp = fwd[r].stamp
    BY <1>12, SendEffect
  <2>3. Undisturbed(fwd[r], wire[r]) /\ fwd[r].pc = "walk"
    BY <1>0, <1>12 DEF SendTo
  <2>4. Undisturbed(fwd[r], wire[r])'
    BY <2>1, <2>2, <2>3 DEF Undisturbed, Forward, Elected
  <2> QED BY <2>1, <2>2, <2>4, LocalUndisturbed
<1>13. ASSUME NEW r \in Mutation, ConnectFails(r) PROVE CalmInv'
  <2>1. Forward
    BY <1>13, SteadyForward DEF ConnectFails
  <2>2. Local(r) /\ fwd'[r].calm = FALSE
    BY <1>13, ConnectEffect
  <2>3. Undisturbed(fwd[r], wire[r])'
    BY <2>2 DEF Undisturbed
  <2> QED BY <2>1, <2>2, <2>3, LocalUndisturbed
<1>14. ASSUME NEW r \in Mutation, NEW pc \in {"serving", "ok", "stale", "not_leader"},
              NEW d \in Nat, Answered(r, pc, d), UNCHANGED fwd, Forward,
              fwd[r].calm /\ wire[r].to = Elected => pc # "not_leader",
              pc = "stale" => d > wire[r].stamp
       PROVE  CalmInv'
  <2>1. /\ Local(r) /\ fwd'[r] = fwd[r]
        /\ wire'[r].pc = pc /\ wire'[r].disclosed = d
        /\ wire'[r].to = wire[r].to /\ wire'[r].stamp = wire[r].stamp
    BY <1>14, AnsweredEffect
  <2>2. wire[r].disclosed \in Nat /\ (fwd[r].pc = "restamp" => fwd[r].at \in Node)
    BY Placed
  <2>3. ASSUME fwd[r].pc = "restamp",
               fwd[r].disclosed \in adopting[fwd[r].at] \/ epoch[fwd[r].at] >= fwd[r].disclosed
        PROVE  fwd[r].disclosed \in adopting'[fwd[r].at] \/ epoch'[fwd[r].at] >= fwd[r].disclosed
    BY <1>14, <2>3, ForwardAt, Placed
  <2>4. Undisturbed(fwd[r], wire[r])'
    BY <1>0, <1>14, <2>1, <2>3 DEF Undisturbed, Forward, Elected
  <2> QED BY <1>14, <2>1, <2>4, LocalUndisturbed
<1>15. ASSUME NEW r \in Mutation, Receive(r) PROVE CalmInv'
  <2> DEFINE m == wire[r].to
  <2>1. m \in Node /\ epoch[m] \in Nat /\ wire[r].stamp \in Nat
    BY <1>15, Placed DEF Receive, TypeInv, TypeOK, Epoch
  <2>2. CASE Fenced(r, m)
    <3>1. Forward
      BY <1>15, <2>2, SteadyForward DEF Receive, Fenced
    <3>2. Answered(r, "stale", epoch[m]) /\ epoch[m] > wire[r].stamp
      BY <2>1, <2>2 DEF Fenced
    <3> QED BY <1>14, <1>15, <2>1, <3>1, <3>2 DEF Receive
  <2>3. CASE Unfenced(r, m)
    <3>1. Forward
      BY <1>15, <2>1, <2>3, ObserveForward DEF Receive, Unfenced
    <3>2. fwd[r].calm /\ m = Elected => IsLeader(m)
      <4>1. fwd[r].calm => Settled
        BY <1>0 DEF Undisturbed
      <4> QED BY <2>1, <4>1, SettledLeader DEF IsLeader
    <3>3. PICK pc \in {"serving", "not_leader"} :
              Answered(r, pc, 0) /\ (IsLeader(m) => pc # "not_leader")
      BY <2>3 DEF Unfenced
    <3>4. 0 \in Nat /\ pc \in {"serving", "ok", "stale", "not_leader"} /\ pc # "stale"
      BY <3>3
    <3> QED BY <1>14, <1>15, <3>1, <3>2, <3>3, <3>4 DEF Receive
  <2> QED BY <1>15, <2>2, <2>3 DEF Receive
<1>16. ASSUME NEW r \in Mutation, ServeForwarded(r) PROVE CalmInv'
  BY <1>14, <1>16, SteadyForward DEF ServeForwarded
<1>17. ASSUME NEW r \in Mutation, ServeLocal(r) PROVE CalmInv'
  BY <1>10, <1>17 DEF ServeLocal
<1>18. ASSUME NEW r \in Mutation, ReplyOk(r) PROVE CalmInv'
  BY <1>10, <1>18 DEF ReplyOk
<1>19. ASSUME NEW r \in Mutation, GiveUp(r) PROVE CalmInv'
  BY <1>10, <1>19 DEF GiveUp
<1>20. ASSUME NEW r \in Mutation, ReplyNotLeader(r) PROVE CalmInv'
  <2>1. Forward
    BY <1>20, SteadyForward DEF ReplyNotLeader
  <2>2. /\ Local(r) /\ wire'[r] = NoCopy
        /\ fwd'[r].pc = "walk" /\ fwd'[r].at = fwd[r].at
        /\ fwd'[r].calm = fwd[r].calm /\ fwd'[r].answer = fwd[r].answer
        /\ fwd'[r].retries = fwd[r].retries
    BY <1>20, NotLeaderEffect
  <2>3. Undisturbed(fwd[r], wire[r]) /\ fwd[r].pc = "wait" /\ wire[r].pc = "not_leader"
    BY <1>0, <1>20 DEF ReplyNotLeader
  <2>4. Undisturbed(fwd[r], wire[r])'
    BY <2>1, <2>2, <2>3 DEF Undisturbed, Forward, Elected
  <2> QED BY <2>1, <2>2, <2>4, LocalUndisturbed
<1>21. ASSUME NEW r \in Mutation, ReplyStale(r) PROVE CalmInv'
  <2> DEFINE n == fwd[r].at
             d == wire[r].disclosed
  <2>1. n \in Node /\ d \in Nat /\ \A k \in Node : epoch[k] \in Nat
    BY <1>21, Placed DEF ReplyStale, TypeInv, TypeOK, Epoch
  <2>2. /\ \A k \in Node : adopting[k] \subseteq adopting'[k]
        /\ d \in adopting'[n] \/ d <= epoch[n]
    <3>1. adopting \in [Node -> SUBSET Epoch]
      BY DEF TypeInv, TypeOK
    <3>2. CASE AdoptReads(n, d)
      BY <2>1, <3>1, <3>2 DEF AdoptReads
    <3>3. CASE d <= epoch[n] /\ UNCHANGED adopting
      BY <3>3
    <3> QED BY <1>21, <3>2, <3>3 DEF ReplyStale
  <2>3. Forward
    BY <1>21, <2>1, <2>2 DEF Forward, Settled, ReplyStale
  <2>4. epoch'[n] = epoch[n] /\ (d \in adopting'[n] \/ epoch[n] >= d)
    BY <1>21, <2>1, <2>2 DEF ReplyStale
  <2>5. /\ Local(r) /\ wire'[r] = NoCopy
        /\ fwd'[r].pc = "restamp" /\ fwd'[r].at = n /\ fwd'[r].left = fwd[r].left
        /\ fwd'[r].calm = fwd[r].calm /\ fwd'[r].answer = fwd[r].answer
        /\ fwd'[r].retries = fwd[r].retries /\ fwd'[r].stamp = fwd[r].stamp
        /\ fwd'[r].disclosed = d
    BY <1>21, StaleEffect
  <2>6. Undisturbed(fwd[r], wire[r]) /\ fwd[r].pc = "wait" /\ wire[r].pc = "stale"
    BY <1>0, <1>21 DEF ReplyStale
  <2>7. Undisturbed(fwd[r], wire[r])'
    BY <2>3, <2>4, <2>5, <2>6 DEF Undisturbed, Forward, Elected
  <2> QED BY <2>3, <2>5, <2>7, LocalUndisturbed
<1>22. ASSUME NEW r \in Mutation, Restamp(r) PROVE CalmInv'
  <2> DEFINE n == fwd[r].at
             f == fwd[r]
  <2>1. Forward
    BY <1>22, SteadyForward DEF Restamp
  <2>2. /\ Local(r) /\ wire'[r] = wire[r]
        /\ fwd'[r].pc = "walk" /\ fwd'[r].at = n
        /\ fwd'[r].calm = f.calm /\ fwd'[r].answer = f.answer
        /\ fwd'[r].retries >= f.retries
        /\ epoch[n] > f.stamp /\ f.retries < MaxRetries => fwd'[r].left = f.left
    BY <1>22, RestampEffect
  <2>3. Undisturbed(f, wire[r]) /\ f.pc = "restamp" /\ f.disclosed \notin adopting[n]
    BY <1>0, <1>22 DEF Restamp
  <2>4. n \in Node /\ f.disclosed \in Nat /\ f.stamp \in Nat
    BY <2>3, Placed
  <2>5. epoch[n] \in Nat
    BY <2>4 DEF TypeInv, TypeOK, Epoch
  <2>6. f.calm /\ f.retries < MaxRetries =>
            f.disclosed > f.stamp /\ epoch[n] >= f.disclosed
    BY <2>3 DEF Undisturbed
  <2>7. f.calm /\ f.retries < MaxRetries => epoch[n] > f.stamp
    <3> DEFINE d == f.disclosed
               e == epoch[n]
               s == f.stamp
               early == f.calm /\ f.retries < MaxRetries
    <3>1. early => d > s /\ e >= d
      BY <2>6
    <3>2. d \in Nat /\ e \in Nat /\ s \in Nat
      BY <2>4, <2>5
    <3> HIDE DEF d, e, s, early
    <3>3. early => e > s
      BY <3>1, <3>2
    <3> QED BY <3>3 DEF e, s, early
  <2>8. f.calm /\ f.retries < MaxRetries => fwd'[r].left = f.left
    BY <2>2, <2>7
  <2>9. fwd'[r].retries < MaxRetries => f.retries < MaxRetries
    <3>1. f.retries \in 0 .. MaxRetries /\ MaxRetries \in Nat
      BY Placed, FleetAssumption
    <3>2. fwd'[r] \in Handling
      BY <2>2 DEF Local
    <3>3. fwd'[r].retries \in 0 .. MaxRetries
      BY <3>2 DEF Handling
    <3> QED BY <2>2, <3>1, <3>3
  <2>10. Undisturbed(fwd[r], wire[r])'
    BY <2>1, <2>2, <2>3, <2>8, <2>9 DEF Undisturbed, Forward, Elected
  <2> QED BY <2>1, <2>2, <2>10, LocalUndisturbed
<1>23. CASE UNCHANGED vars
  BY <1>23, SteadyForward, SameUndisturbed DEF vars
<1> QED BY <1>1, <1>3, <1>4, <1>5, <1>6, <1>7, <1>8, <1>9, <1>11, <1>12, <1>13, <1>15,
           <1>16, <1>17, <1>18, <1>19, <1>20, <1>21, <1>22, <1>23
        DEF Next, Handler, Peer

(* A mutation that reaches a settled fleet is not refused while nothing     *)
(* disturbs the fleet, unless the owner fenced it more often than           *)
(* MAX_STALE_EPOCH_RETRIES: the retry carries the epoch the fence disclosed *)
(* (admin_forward_to_leader, main.rs).                                      *)
THEOREM SettledFleetAcceptsCorrect == Spec => []SettledFleetAccepts
<1> DEFINE Settles == TypeInv /\ (OwnerReachable => CalmInv)
<1>1. Init => Settles
  BY InitTypes, CalmInit
<1>2. Settles /\ [Next]_vars => Settles'
  BY NextKeepsTypes, CalmStep DEF OwnerReachable
<1>3. Settles => SettledFleetAccepts
  <2> SUFFICES ASSUME TypeInv, OwnerReachable, CalmInv, NEW r \in Mutation,
                      fwd[r].calm, fwd[r].answer = "refused"
               PROVE  fwd[r].retries = MaxRetries
    BY DEF SettledFleetAccepts
  <2>1. fwd[r].retries \in 0 .. MaxRetries /\ MaxRetries \in Nat
    BY Placed, FleetAssumption
  <2>2. ~(fwd[r].retries < MaxRetries)
    BY DEF CalmInv, Undisturbed
  <2> QED BY <2>1, <2>2
<1> HIDE DEF Settles
<1> QED BY <1>1, <1>2, <1>3, PTL DEF Spec
=============================================================================
