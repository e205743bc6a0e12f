------------------------- MODULE SnapshotPartsProofs -------------------------
(***************************************************************************)
(* Proofs about SnapshotParts for every set of parts and states, every     *)
(* retention window and delete budget, and any number of failures and      *)
(* crashes: the types, the generations that are kept, and the refinement   *)
(* of SnapshotRegister.                                                    *)
(***************************************************************************)
EXTENDS SnapshotParts, TLAPS, WellFoundedInduction, FiniteSetTheorems

----------------------------------------------------------------------------
(* The types the proofs need; a pass only ever dooms markers.               *)
Typed ==
    /\ live \in State \cup {{}}
    /\ queue \in [parts : State \cup {{}}, fresh : BOOLEAN]
    /\ born \in [Part -> Nat] /\ clock \in Nat
    /\ head \in Entry /\ head.ms <= clock
    /\ \A m \in markers : m \in Entry /\ m.ms <= clock
    /\ writer \in [pc : {"wait", "top", "retry", "batch", "marker"},
                   parts : State \cup {{}}]
    /\ pass \in [pc : {"idle", "run"}, doomed : SUBSET markers, budget : Int, cursor : Nat]
    /\ cursor \in Nat
    /\ pass.pc = "idle" => pass.doomed = {}

(* What is queued, being written or named by the head was asked for.        *)
OnlyAsked ==
    /\ queue.parts # {} => queue.parts \in asked
    /\ writer.pc \in {"batch", "marker"} => writer.parts # {} /\ writer.parts \in asked
    /\ IF head.ms = 0 THEN head.parts = {} ELSE head.parts \in asked

(* Whatever the head or a marker names is there.                            *)
NamedPresent ==
    /\ head.parts \subseteq Present
    /\ \A m \in markers : m.parts \subseteq Present

(* While a pass has markers to retire, two that differ are not among them:  *)
(* the anchor, and the newest of the others.                                *)
PassSpares ==
    Keep > 0 /\ pass.doomed # {} =>
        \E m, n \in markers \ pass.doomed : m.parts # n.parts

(* If a state other than s was ever verified, a marker of one is left.      *)
OthersKept ==
    Keep > 0 => \A s : (\E m \in verified : m.parts # s) => \E m \in markers : m.parts # s

Inv == Typed /\ OnlyAsked /\ NamedPresent /\ PassSpares /\ OthersKept

----------------------------------------------------------------------------
(* A store with neither head nor marker nor part (Init).                    *)
LEMMA InitEstablishesInv == Init => Inv
<1> SUFFICES ASSUME Init PROVE Inv
  OBVIOUS
<1> USE PartsAssumption DEF Init, Inv, NoQueue, Waiting, NoPass, Entry
<1>1. Typed BY DEF Typed
<1>2. OnlyAsked BY DEF OnlyAsked
<1>3. NamedPresent BY DEF NamedPresent
<1>4. PassSpares /\ OthersKept BY DEF PassSpares, OthersKept
<1> QED BY <1>1, <1>2, <1>3, <1>4

(* A set of naturals has a least element, the one the delete budget stops   *)
(* the listing at (Min).                                                    *)
LEMMA LeastExists ==
    ASSUME NEW T \in SUBSET Nat, T # {}
    PROVE  \E x \in T : \A y \in T : x <= y
<1>1. PICK x \in T : \A y \in T : <<y, x>> \notin OpToRel(<, Nat)
  BY NatLessThanWellFounded, WFMin, Zenon
<1>2. \A y \in T : ~(y < x)
  BY <1>1, Zenon DEF OpToRel
<1> QED BY <1>2

(* Min is a member of its set (PublishPart, ResumeAt).                      *)
LEMMA MinInSet ==
    ASSUME NEW T \in SUBSET Nat, T # {}
    PROVE  Min(T) \in T
BY LeastExists DEF Min

(* The newest of the prior markers is never doomed (retire in               *)
(* guardian_v2_retention_pass_with, beyond the newest keep_generations).    *)
LEMMA NewestSpared ==
    ASSUME Typed, Keep > 0, Prior # {}
    PROVE  \E m \in Prior : m \notin Doomed
<1> DEFINE T == {clock - m.ms : m \in Prior}
<1>1. T \subseteq Nat /\ T # {}
  BY DEF Typed, Prior, Entry
<1>2. PICK x \in T : \A y \in T : x <= y
  BY <1>1, LeastExists
<1>3. PICK m \in Prior : x = clock - m.ms
  OBVIOUS
<1>4. Newer(m, Prior) = {}
  <2> SUFFICES ASSUME NEW n \in Prior, n.ms > m.ms PROVE FALSE
    BY DEF Newer
  <2>1. m.ms \in Nat /\ n.ms \in Nat /\ clock \in Nat
    BY DEF Typed, Prior, Entry
  <2>2. clock - n.ms < clock - m.ms
    BY <2>1
  <2>3. clock - m.ms <= clock - n.ms
    BY <1>2, <1>3
  <2> QED BY <2>1, <2>2, <2>3
<1>5. m \notin BeyondWindow
  <2>1. Cardinality(Newer(m, Prior)) = 0
    BY <1>4, FS_EmptySet
  <2>2. ~(0 >= Keep)
    BY PartsAssumption
  <2> QED BY <2>1, <2>2 DEF BeyondWindow
<1> QED BY <1>5 DEF Doomed

(* Every step of the process, of a batch and of a retention pass keeps the  *)
(* invariant.                                                               *)
LEMMA NextKeepsInv == Inv /\ [Next]_vars => Inv'
<1> SUFFICES ASSUME Inv, [Next]_vars PROVE Inv'
  OBVIOUS
<1> USE PartsAssumption DEF Inv, entries, history, bounds
<1>1. ASSUME NEW s \in State, Change(s) PROVE Inv'
  <2> USE <1>1 DEF Change
  <2>1. Typed' BY DEF Typed, Entry
  <2>2. OnlyAsked' BY DEF Typed, OnlyAsked
  <2>3. NamedPresent' BY DEF Typed, Entry, OnlyAsked, NamedPresent, Present
  <2>4. PassSpares' BY DEF Typed, PassSpares
  <2>5. OthersKept' BY DEF OthersKept
  <2> QED BY <2>1, <2>2, <2>3, <2>4, <2>5
<1>2. CASE Replicate
  <2> USE <1>2 DEF Replicate
  <2>1. Typed' BY DEF Typed, Entry
  <2>2. OnlyAsked' BY DEF Typed, OnlyAsked
  <2>3. NamedPresent' BY DEF Typed, Entry, OnlyAsked, NamedPresent, Present
  <2>4. PassSpares' BY DEF Typed, PassSpares
  <2>5. OthersKept' BY DEF OthersKept
  <2> QED BY <2>1, <2>2, <2>3, <2>4, <2>5
<1>3. CASE Age
  <2> USE <1>3 DEF Age
  <2>1. Typed' BY DEF Typed, Entry
  <2>2. OnlyAsked' BY DEF Typed, OnlyAsked
  <2>3. NamedPresent' BY DEF Typed, Entry, OnlyAsked, NamedPresent, Present
  <2>4. PassSpares' BY DEF Typed, PassSpares
  <2>5. OthersKept' BY DEF OthersKept
  <2> QED BY <2>1, <2>2, <2>3, <2>4, <2>5
<1>4. CASE Borrow
  <2> USE <1>4 DEF Borrow
  <2>1. Typed' BY DEF Typed, Entry
  <2>2. OnlyAsked' BY DEF Typed, OnlyAsked
  <2>3. NamedPresent' BY DEF Typed, Entry, OnlyAsked, NamedPresent, Present
  <2>4. PassSpares' BY DEF Typed, PassSpares
  <2>5. OthersKept' BY DEF OthersKept
  <2> QED BY <2>1, <2>2, <2>3, <2>4, <2>5
<1>5. CASE PublishPart
  <2> USE <1>5 DEF PublishPart
  <2>1. Typed'
    <3>1. PICK p : born' = [born EXCEPT ![p] = clock + 1]
      OBVIOUS
    <3>2. born' \in [Part -> Nat]
      <4>1. born \in [Part -> Nat] /\ clock + 1 \in Nat
        BY DEF Typed
      <4>2. born' = [q \in Part |-> IF q = p THEN clock + 1 ELSE born[q]]
        BY <3>1, <4>1
      <4> QED BY <4>1, <4>2
    <3> QED BY <3>2 DEF Typed, Entry
  <2>2. OnlyAsked' BY DEF Typed, OnlyAsked
  <2>3. NamedPresent' BY DEF Typed, Entry, OnlyAsked, NamedPresent, Present
  <2>4. PassSpares' BY DEF Typed, PassSpares
  <2>5. OthersKept' BY DEF OthersKept
  <2> QED BY <2>1, <2>2, <2>3, <2>4, <2>5
<1>6. CASE PutHead
  <2> USE <1>6 DEF PutHead, HeadOf
  <2>1. Typed' BY DEF Typed, Entry
  <2>2. OnlyAsked' BY DEF Typed, OnlyAsked
  <2>3. NamedPresent' BY DEF Typed, Entry, OnlyAsked, NamedPresent, Present
  <2>4. PassSpares' BY DEF Typed, PassSpares
  <2>5. OthersKept' BY DEF OthersKept
  <2> QED BY <2>1, <2>2, <2>3, <2>4, <2>5
<1>7. CASE PublishMarker
  <2> USE <1>7 DEF PublishMarker, Verified, Waiting
  <2>1. Typed' BY DEF Typed, Entry
  <2>2. OnlyAsked' BY DEF Typed, OnlyAsked
  <2>3. NamedPresent' BY DEF Typed, Entry, OnlyAsked, NamedPresent, Present
  <2>4. PassSpares' BY DEF Typed, PassSpares
  <2>5. OthersKept' BY DEF OthersKept
  <2> QED BY <2>1, <2>2, <2>3, <2>4, <2>5
<1>8. CASE BatchFails
  <2> USE <1>8 DEF BatchFails, Waiting, Fault
  <2>1. Typed' BY DEF Typed, Entry
  <2>2. OnlyAsked' BY DEF Typed, OnlyAsked
  <2>3. NamedPresent' BY DEF Typed, Entry, OnlyAsked, NamedPresent, Present
  <2>4. PassSpares' BY DEF Typed, PassSpares
  <2>5. OthersKept' BY DEF OthersKept
  <2> QED BY <2>1, <2>2, <2>3, <2>4, <2>5
<1>9. CASE PassRefuses
  <2> USE <1>9 DEF PassRefuses, Waiting
  <2>1. Typed' BY DEF Typed, Entry
  <2>2. OnlyAsked' BY DEF Typed, OnlyAsked
  <2>3. NamedPresent' BY DEF Typed, Entry, OnlyAsked, NamedPresent, Present
  <2>4. PassSpares' BY DEF Typed, PassSpares
  <2>5. OthersKept' BY DEF OthersKept
  <2> QED BY <2>1, <2>2, <2>3, <2>4, <2>5
<1>10. CASE PassBegins
  <2> USE <1>10 DEF PassBegins, AtLeisure, Anchored
  <2>1. Typed'
    <3>1. Doomed \subseteq markers
      BY DEF Doomed, BeyondWindow, Prior
    <3>2. pass' \in [pc : {"idle", "run"}, doomed : SUBSET markers, budget : Int, cursor : Nat]
      BY <3>1 DEF Typed
    <3> QED BY <3>2 DEF Typed, Entry
  <2>2. OnlyAsked' BY DEF Typed, OnlyAsked
  <2>3. NamedPresent' BY DEF Typed, Entry, OnlyAsked, NamedPresent, Present
  <2>4. PassSpares'
    <3> SUFFICES ASSUME Keep > 0, Doomed # {}
                 PROVE  \E m, n \in markers \ Doomed : m.parts # n.parts
      BY DEF PassSpares
    <3>1. Doomed \subseteq Prior
      BY DEF Doomed, BeyondWindow
    <3>2. PICK m \in Prior : m \notin Doomed
      BY <3>1, NewestSpared
    <3>3. PICK n \in markers : n.parts = head.parts
      OBVIOUS
    <3> QED BY <3>1, <3>2, <3>3 DEF Prior
  <2>5. OthersKept' BY DEF OthersKept
  <2> QED BY <2>1, <2>2, <2>3, <2>4, <2>5
<1>11. CASE RetireMarker
  <2> USE <1>11 DEF RetireMarker
  <2>1. Typed'
    <3>1. PICK m \in pass.doomed :
              /\ markers' = markers \ {m}
              /\ pass' = [pass EXCEPT !.doomed = @ \ {m}, !.budget = @ - 1]
      OBVIOUS
    <3>2. pass.doomed \ {m} \in SUBSET markers' /\ pass.budget - 1 \in Int
      BY <3>1 DEF Typed
    <3>3. pass' \in [pc : {"idle", "run"}, doomed : SUBSET markers', budget : Int, cursor : Nat]
      BY <3>1, <3>2 DEF Typed
    <3> QED BY <3>1, <3>3 DEF Typed, Entry
  <2>2. OnlyAsked' BY DEF Typed, OnlyAsked
  <2>3. NamedPresent' BY DEF Typed, Entry, OnlyAsked, NamedPresent, Present
  <2>4. PassSpares' BY DEF Typed, PassSpares
  <2>5. OthersKept'
    <3> SUFFICES ASSUME Keep > 0
                 PROVE  \A s : \E m \in markers' : m.parts # s
      BY DEF OthersKept
    <3>1. PICK m, n \in markers \ pass.doomed : m.parts # n.parts
      BY DEF PassSpares
    <3>2. m \in markers' /\ n \in markers'
      OBVIOUS
    <3> QED BY <3>1, <3>2
  <2> QED BY <2>1, <2>2, <2>3, <2>4, <2>5
<1>12. CASE RetirePart
  <2> USE <1>12 DEF RetirePart, Candidates, Referenced
  <2>1. Typed'
    <3>1. PICK p \in Candidates :
              /\ born' = [born EXCEPT ![p] = 0]
              /\ pass' = [pass EXCEPT !.budget = @ - 1, !.cursor = p]
      OBVIOUS
    <3>2. p \in Nat
      BY DEF Present, Part
    <3>3. born' \in [Part -> Nat]
      BY <3>1 DEF Typed
    <3>4. pass.budget - 1 \in Int
      BY DEF Typed
    <3>5. pass' \in [pc : {"idle", "run"}, doomed : SUBSET markers, budget : Int, cursor : Nat]
      BY <3>1, <3>2, <3>4 DEF Typed
    <3> QED BY <3>3, <3>5 DEF Typed, Entry
  <2>2. OnlyAsked' BY DEF Typed, OnlyAsked
  <2>3. NamedPresent' BY DEF Typed, Entry, OnlyAsked, NamedPresent, Present
  <2>4. PassSpares' BY DEF Typed, PassSpares
  <2>5. OthersKept' BY DEF OthersKept
  <2> QED BY <2>1, <2>2, <2>3, <2>4, <2>5
<1>13. CASE PassEnds
  <2> USE <1>13 DEF PassEnds, NoPass, Waiting
  <2>1. Typed'
    <3>1. Candidates \subseteq Nat
      BY DEF Candidates, Present, Part
    <3>2. ResumeAt \in Nat
      BY <3>1, MinInSet DEF ResumeAt
    <3>3. pass' \in [pc : {"idle", "run"}, doomed : SUBSET markers, budget : Int, cursor : Nat]
      BY DEF Typed
    <3> QED BY <3>2, <3>3 DEF Typed, Entry
  <2>2. OnlyAsked' BY DEF Typed, OnlyAsked
  <2>3. NamedPresent' BY DEF Typed, Entry, OnlyAsked, NamedPresent, Present
  <2>4. PassSpares' BY DEF Typed, PassSpares
  <2>5. OthersKept' BY DEF OthersKept
  <2> QED BY <2>1, <2>2, <2>3, <2>4, <2>5
<1>14. CASE DeleteFails
  <2> USE <1>14 DEF DeleteFails, NoPass, Waiting, Fault
  <2>1. Typed' BY DEF Typed, Entry
  <2>2. OnlyAsked' BY DEF Typed, OnlyAsked
  <2>3. NamedPresent' BY DEF Typed, Entry, OnlyAsked, NamedPresent, Present
  <2>4. PassSpares' BY DEF Typed, PassSpares
  <2>5. OthersKept' BY DEF OthersKept
  <2> QED BY <2>1, <2>2, <2>3, <2>4, <2>5
<1>15. CASE Crash
  <2> USE <1>15 DEF Crash, NoQueue, Waiting, NoPass, Fault
  <2>1. Typed' BY DEF Typed, Entry
  <2>2. OnlyAsked' BY DEF Typed, OnlyAsked
  <2>3. NamedPresent' BY DEF Typed, Entry, OnlyAsked, NamedPresent, Present
  <2>4. PassSpares' BY DEF Typed, PassSpares
  <2>5. OthersKept' BY DEF OthersKept
  <2> QED BY <2>1, <2>2, <2>3, <2>4, <2>5
<1>16. CASE UNCHANGED vars
  BY <1>16 DEF vars, Typed, OnlyAsked, NamedPresent, PassSpares, OthersKept, Present
<1> QED
  BY <1>1, <1>2, <1>3, <1>4, <1>5, <1>6, <1>7, <1>8, <1>9, <1>10, <1>11,
     <1>12, <1>13, <1>14, <1>15, <1>16
  DEF Next, Batch, Retention

(* The invariant holds in every reachable state.                            *)
LEMMA InvariantHolds == Spec => []Inv
<1> QED BY InitEstablishesInv, NextKeepsInv, PTL DEF Spec

----------------------------------------------------------------------------
(* The generation of every marker stays whole, and while any state but the  *)
(* current one was ever verified one is left to go back to, whatever the    *)
(* budget and wherever a pass stops (guardian_v2_retention_pass_with).      *)
THEOREM GenerationsKeptCorrect == Spec => []GenerationsKept
<1>1. Inv => GenerationsKept
  BY DEF Inv, NamedPresent, OthersKept, GenerationsKept, Prior
<1> QED BY <1>1, InvariantHolds, PTL

(* Parts, head and marker put one after the other, retried, interrupted and *)
(* retired, implement a register that is replaced atomically: a reader gets *)
(* one whole state that was asked for (write_replication_batch,             *)
(* guardian_v2_probe).                                                      *)
THEOREM Refinement == Spec => ImplementsRegister
<1>1. Init => Register!Init
  BY DEF Init, Register!Init, Probe
<1>2. ASSUME Inv, Inv', [Next]_vars
      PROVE  [Register!Next]_<<asked, Probe>>
  <2>1. Probe = head.parts /\ Probe' = head'.parts
    BY <1>2 DEF Inv, OnlyAsked, NamedPresent, Probe
  <2>2. CASE Replicate
    <3>1. live \in State
      BY <1>2, <2>2 DEF Inv, Typed, Replicate
    <3> QED BY <2>1, <2>2, <3>1 DEF Replicate, entries, Register!Next, Register!Ask
  <2>3. CASE PutHead
    <3>1. head'.parts \in asked
      BY <1>2, <2>3 DEF Inv, OnlyAsked, PutHead, HeadOf
    <3>2. UNCHANGED asked
      BY <2>3 DEF PutHead, history
    <3> QED BY <2>1, <3>1, <3>2 DEF Register!Next, Register!Replace
  <2>4. ASSUME UNCHANGED <<asked, head>>
        PROVE  UNCHANGED <<asked, Probe>>
    BY <2>1, <2>4
  <2>5. CASE (\E s \in State : Change(s)) \/ Age \/ Crash
    BY <2>4, <2>5 DEF Change, Age, Crash, entries, history
  <2>6. CASE Borrow \/ PublishPart \/ PublishMarker \/ BatchFails
    BY <2>4, <2>6 DEF Borrow, PublishPart, PublishMarker, BatchFails, entries, history
  <2>7. CASE Retention \/ DeleteFails
    BY <2>4, <2>7 DEF Retention, PassRefuses, PassBegins, RetireMarker, RetirePart,
                      PassEnds, DeleteFails, entries, history
  <2>8. CASE UNCHANGED vars
    BY <2>4, <2>8 DEF vars, entries, history
  <2> QED BY <1>2, <2>2, <2>3, <2>5, <2>6, <2>7, <2>8 DEF Next, Batch
<1> QED
  BY <1>1, <1>2, InvariantHolds, PTL DEF Spec, ImplementsRegister, Register!Spec

----------------------------------------------------------------------------
(* Types.  A pass dooms no more markers than it may delete, because no two  *)
(* markers are of the same age: the head's clock ticks with every head.     *)
Stamped ==
    /\ IsFiniteSet(verified)
    /\ \A m, n \in verified : m.ms = n.ms => m = n
    /\ \A m \in verified : m.ms = head.ms => m = head

(* Of the entries of R, which differ in age, at most K have fewer than K    *)
(* older ones (retire.truncate in guardian_v2_retention_pass_with).         *)
LEMMA OldestBounded ==
    ASSUME NEW R, IsFiniteSet(R), NEW K \in Nat, NEW B \in Nat,
           \A m \in R : m.ms \in Nat /\ m.ms <= B,
           \A m, n \in R : m.ms = n.ms => m = n
    PROVE  LET D == {m \in R : Cardinality({n \in R : n.ms < m.ms}) < K}
           IN  IsFiniteSet(D) /\ Cardinality(D) <= K
<1> DEFINE Older(m) == {n \in R : n.ms < m.ms}
           D == {m \in R : Cardinality(Older(m)) < K}
<1> SUFFICES IsFiniteSet(D) /\ Cardinality(D) <= K
  OBVIOUS
<1>1. /\ IsFiniteSet(D) /\ Cardinality(D) \in Nat /\ D \subseteq R
      /\ \A m \in D : Cardinality(Older(m)) < K
      /\ \A m \in R : IsFiniteSet(Older(m)) /\ Cardinality(Older(m)) \in Nat
  BY FS_Subset, FS_CardinalityType
<1>2. ASSUME NEW m \in D, \A n \in D : n.ms <= m.ms
      PROVE  D \ {m} \subseteq Older(m)
  BY <1>1, <1>2
<1> HIDE DEF D, Older
<1>3. CASE D = {}
  BY <1>1, <1>3, FS_EmptySet
<1>4. CASE D # {}
  <2>1. PICK m \in D : \A n \in D : n.ms <= m.ms
    <3> DEFINE T == {B - n.ms : n \in D}
    <3>1. T \subseteq Nat /\ T # {}
      BY <1>1, <1>4
    <3>2. PICK x \in T : \A y \in T : x <= y
      BY <3>1, LeastExists
    <3>3. PICK m \in D : x = B - m.ms
      OBVIOUS
    <3>4. ASSUME NEW n \in D PROVE n.ms <= m.ms
      <4>1. B - m.ms <= B - n.ms
        BY <3>2, <3>3
      <4>2. m.ms \in Nat /\ n.ms \in Nat
        BY <1>1
      <4> QED BY <4>1, <4>2
    <3> QED BY <3>4
  <2>2. Cardinality(D \ {m}) <= Cardinality(Older(m)) /\ Cardinality(Older(m)) < K
    BY <1>1, <1>2, <2>1, FS_Subset
  <2>3. Cardinality(D \ {m}) = Cardinality(D) - 1
    BY <1>1, FS_RemoveElement
  <2>4. Cardinality(Older(m)) \in Nat
    BY <1>1
  <2> QED BY <1>1, <2>2, <2>3, <2>4
<1> QED BY <1>3, <1>4

(* A pass dooms at most as many markers as it may delete (MarkerCap).       *)
LEMMA DoomedWithinBudget ==
    ASSUME Inv, TypeOK, Stamped
    PROVE  IsFiniteSet(Doomed) /\ Cardinality(Doomed) \in 0 .. MaxDeletes
<1> DEFINE R == {m \in BeyondWindow : m.ms <= aged}
           half == Cardinality(markers) \div 2
<1>1. R \subseteq verified /\ IsFiniteSet(R) /\ IsFiniteSet(markers)
  BY FS_Subset DEF BeyondWindow, Prior, TypeOK, Stamped
<1>2. MarkerCap \in Nat /\ MarkerCap <= MaxDeletes
  <2>1. half \in Nat
    BY <1>1, FS_CardinalityType
  <2>2. Max({1, half}) \in {1, half}
    <3> DEFINE T == {1, half}
    <3>1. \E x \in T : \A y \in T : x >= y
      BY <2>1
    <3> HIDE DEF T
    <3>2. Max(T) \in T
      BY <3>1 DEF Max
    <3> QED BY <3>2 DEF T
  <2>3. \A k \in Nat : Min({MaxDeletes, k}) \in Nat /\ Min({MaxDeletes, k}) <= MaxDeletes
    <3> SUFFICES ASSUME NEW k \in Nat
                 PROVE  Min({MaxDeletes, k}) \in Nat /\ Min({MaxDeletes, k}) <= MaxDeletes
      OBVIOUS
    <3> DEFINE T == {MaxDeletes, k}
    <3>1. \E x \in T : \A y \in T : x <= y
      BY PartsAssumption
    <3> HIDE DEF T
    <3>2. Min(T) \in T /\ \A y \in T : Min(T) <= y
      BY <3>1 DEF Min
    <3> QED BY <3>2, PartsAssumption DEF T
  <2>4. Max({1, half}) \in Nat
    BY <2>1, <2>2
  <2> HIDE DEF half
  <2>5. MarkerCap = Min({MaxDeletes, Max({1, half})})
    BY DEF MarkerCap, half
  <2> QED BY <2>3, <2>4, <2>5
<1>3. \A m \in R : m.ms \in Nat /\ m.ms <= clock
  BY <1>1 DEF TypeOK, Entry
<1>4. clock \in Nat
  BY DEF Inv, Typed
<1>5. \A m, n \in R : m.ms = n.ms => m = n
  BY <1>1 DEF Stamped
<1>6. Doomed = {m \in R : Cardinality({n \in R : n.ms < m.ms}) < MarkerCap}
  BY DEF Doomed
<1> HIDE DEF R
<1>7. IsFiniteSet(Doomed) /\ Cardinality(Doomed) <= MarkerCap
  BY <1>1, <1>2, <1>3, <1>4, <1>5, <1>6, OldestBounded
<1>8. Cardinality(Doomed) \in Nat
  BY <1>7, FS_CardinalityType
<1> QED BY <1>2, <1>7, <1>8, PartsAssumption

(* What TypeOK says beyond the invariant: who vouches for a marker, and the *)
(* ranges of the ages, the budget and the cursor.                           *)
Bounded ==
    /\ asked \subseteq State /\ born \in [Part -> 0 .. clock + 1]
    /\ markers \subseteq verified /\ \A m \in verified : m \in Entry /\ m.ms <= clock
    /\ aged \in 0 .. clock + 1
    /\ pass.budget \in Cardinality(pass.doomed) .. MaxDeletes
    /\ pass.cursor \in 0 .. NumParts /\ cursor \in 0 .. NumParts

LEMMA BoundedIsTypeOK == Inv /\ Bounded => TypeOK
BY DEF Inv, Typed, Bounded, TypeOK

(* Every step keeps the types and the markers distinct in age.              *)
LEMMA TypeStep ==
    ASSUME Inv, Inv', Bounded, Stamped, [Next]_vars
    PROVE  Bounded' /\ Stamped'
<1> USE PartsAssumption DEF entries, history, bounds
<1>0. /\ TypeOK /\ clock \in Nat /\ head \in Entry /\ head.ms <= clock
      /\ pass \in [pc : {"idle", "run"}, doomed : SUBSET markers, budget : Int, cursor : Nat]
      /\ live \in State \cup {{}}
      /\ IsFiniteSet(pass.doomed) /\ Cardinality(pass.doomed) \in Nat
  <2>1. Typed /\ TypeOK
    BY BoundedIsTypeOK DEF Inv
  <2>2. pass.doomed \subseteq verified
    BY <2>1 DEF TypeOK
  <2>3. IsFiniteSet(pass.doomed) /\ Cardinality(pass.doomed) \in Nat
    BY <2>2, FS_Subset, FS_CardinalityType DEF Stamped
  <2> QED BY <2>1, <2>3 DEF Typed
<1>1. UNCHANGED <<head, verified>> => Stamped'
  BY DEF Stamped
<1>2. UNCHANGED <<asked, born, markers, verified, clock, aged, pass, cursor>> => Bounded'
  BY DEF Bounded
<1>3. CASE Replicate
  <2>1. live \in State
    BY <1>0, <1>3 DEF Replicate
  <2> QED BY <1>1, <1>3, <2>1 DEF Replicate, Bounded
<1>4. CASE Age
  <2>1. aged' \in 0 .. clock + 1
    BY <1>0, <1>4 DEF Age
  <2> QED BY <1>1, <1>4, <2>1 DEF Age, Bounded
<1>5. CASE PublishPart
  <2>1. PICK p : born' = [born EXCEPT ![p] = clock + 1]
    BY <1>5 DEF PublishPart
  <2>2. born \in [Part -> 0 .. clock + 1] /\ clock + 1 \in 0 .. clock + 1
    BY <1>0 DEF Bounded
  <2>3. born' \in [Part -> 0 .. clock + 1]
    BY <2>1, <2>2
  <2> QED BY <1>1, <1>5, <2>3 DEF PublishPart, Bounded
<1>6. CASE PutHead
  <2>1. CASE UNCHANGED <<head, clock>>
    BY <1>1, <1>6, <2>1 DEF PutHead, Bounded
  <2>2. CASE head'.ms = clock + 1 /\ clock' = clock + 1
    <3>1. \A m \in verified : m.ms \in Nat /\ m.ms <= clock
      BY DEF Bounded, Entry
    <3>2. \A m \in verified : m.ms <= clock' /\ m.ms # head'.ms
      BY <1>0, <2>2, <3>1
    <3>3. Stamped'
      BY <1>6, <3>2 DEF PutHead, Stamped
    <3>4. 0 .. clock + 1 \subseteq 0 .. clock' + 1
      BY <1>0, <2>2
    <3>5. born' \in [Part -> 0 .. clock' + 1]
      BY <1>6, <3>4 DEF PutHead, Bounded
    <3> QED BY <1>6, <3>2, <3>3, <3>4, <3>5 DEF PutHead, Bounded
  <2> QED BY <1>0, <1>6, <2>1, <2>2 DEF PutHead, HeadOf
<1>7. CASE PublishMarker
  <2>1. CASE Verified
    <3>1. markers' = markers \cup {head} /\ verified' = verified \cup {head} /\ head' = head
      BY <1>7, <2>1 DEF PublishMarker
    <3>2. IsFiniteSet(verified')
      BY <3>1, FS_AddElement DEF Stamped
    <3> QED BY <1>0, <1>7, <3>1, <3>2 DEF PublishMarker, Bounded, Stamped
  <2>2. CASE ~Verified
    BY <1>1, <1>7, <2>2 DEF PublishMarker, Bounded
  <2> QED BY <2>1, <2>2
<1>8. CASE PassRefuses
  BY <1>1, <1>8 DEF PassRefuses, Bounded
<1>9. CASE PassBegins
  <2>1. pass'.doomed = Doomed /\ pass'.budget = MaxDeletes /\ pass'.cursor = cursor
    BY <1>9 DEF PassBegins
  <2>2. Cardinality(Doomed) \in 0 .. MaxDeletes
    BY <1>0, DoomedWithinBudget
  <2> QED BY <1>1, <1>9, <2>1, <2>2 DEF PassBegins, Bounded
<1>10. CASE RetireMarker
  <2>1. PICK m \in pass.doomed :
            /\ markers' = markers \ {m}
            /\ pass' = [pass EXCEPT !.doomed = @ \ {m}, !.budget = @ - 1]
    BY <1>10 DEF RetireMarker
  <2>2. /\ pass'.doomed = pass.doomed \ {m} /\ pass'.budget = pass.budget - 1
        /\ pass'.cursor = pass.cursor
    BY <1>0, <2>1
  <2>3. Cardinality(pass.doomed \ {m}) = Cardinality(pass.doomed) - 1
    <3> DEFINE S == pass.doomed
    <3>1. IsFiniteSet(S) /\ m \in S
      BY <1>0
    <3> HIDE DEF S
    <3>2. Cardinality(S \ {m}) = Cardinality(S) - 1
      BY <3>1, FS_RemoveElement
    <3> QED BY <3>2 DEF S
  <2> DEFINE k == Cardinality(pass.doomed)
             b == pass.budget
  <2>4. b - 1 \in k - 1 .. MaxDeletes
    <3>1. b \in k .. MaxDeletes /\ k \in Nat
      BY <1>0 DEF Bounded
    <3> HIDE DEF k, b
    <3> QED BY <3>1
  <2> QED BY <1>1, <1>10, <2>1, <2>2, <2>3, <2>4 DEF RetireMarker, Bounded
<1>11. CASE RetirePart
  <2>1. PICK p \in Candidates :
            /\ born' = [born EXCEPT ![p] = 0]
            /\ pass' = [pass EXCEPT !.budget = @ - 1, !.cursor = p]
    BY <1>11 DEF RetirePart
  <2>2. pass'.doomed = {} /\ pass'.budget = pass.budget - 1 /\ pass'.cursor = p
    BY <1>0, <1>11, <2>1 DEF RetirePart
  <2>3. p \in 0 .. NumParts
    BY DEF Candidates, Present, Part
  <2>4. born' \in [Part -> 0 .. clock + 1]
    <3>1. 0 \in 0 .. clock + 1 /\ born \in [Part -> 0 .. clock + 1]
      BY <1>0 DEF Bounded
    <3> QED BY <2>1, <3>1
  <2>5. pass'.budget \in Cardinality(pass'.doomed) .. MaxDeletes
    <3>1. Cardinality(pass'.doomed) = 0
      BY <2>2, FS_EmptySet
    <3>2. pass.budget > 0 /\ pass.doomed = {} /\ pass.budget \in Int /\ pass.budget <= MaxDeletes
      BY <1>0, <1>11 DEF RetirePart, Bounded
    <3> QED BY <2>2, <3>1, <3>2
  <2> QED BY <1>1, <1>11, <2>2, <2>3, <2>4, <2>5 DEF RetirePart, Bounded
<1>12. Cardinality(NoPass.doomed) = 0 /\ NoPass.budget = 0 /\ NoPass.cursor = 0
  BY FS_EmptySet DEF NoPass
<1>13. CASE PassEnds
  <2>1. ResumeAt \in 0 .. NumParts
    <3>1. Candidates \subseteq 1 .. NumParts
      BY DEF Candidates, Present, Part
    <3>2. Candidates # {} => Min(Candidates) \in 1 .. NumParts
      <4>1. Candidates \in SUBSET Nat
        BY <3>1
      <4>2. Candidates # {} => Min(Candidates) \in Candidates
        BY <4>1, MinInSet
      <4> QED BY <3>1, <4>2
    <3>3. ResumeAt \in {0, NumParts} \/ (Candidates # {} /\ ResumeAt = Min(Candidates))
      BY DEF ResumeAt
    <3> QED BY <3>2, <3>3
  <2> QED BY <1>1, <1>12, <1>13, <2>1 DEF PassEnds, Bounded
<1>14. CASE DeleteFails
  BY <1>1, <1>12, <1>14 DEF DeleteFails, Bounded
<1>15. CASE Crash
  BY <1>1, <1>12, <1>15 DEF Crash, Bounded
<1>16. CASE (\E s \in State : Change(s)) \/ Borrow \/ BatchFails \/ UNCHANGED vars
  BY <1>1, <1>2, <1>16 DEF Change, Borrow, BatchFails, vars
<1> QED
  BY <1>3, <1>4, <1>5, <1>6, <1>7, <1>8, <1>9, <1>10, <1>11, <1>13, <1>14, <1>15, <1>16
  DEF Next, Batch, Retention

(* The store, the writer task and a pass stay well formed; in particular a  *)
(* pass never deletes more than its budget, whichever markers it retires    *)
(* and wherever it stops (MarkerCap, RetentionState).                       *)
THEOREM TypeCorrect == Spec => []TypeOK
<1>1. Init => Bounded /\ Stamped
  <2> SUFFICES ASSUME Init PROVE Bounded /\ Stamped
    OBVIOUS
  <2>1. Cardinality(pass.doomed) = 0
    BY FS_EmptySet DEF Init, NoPass
  <2>2. Bounded
    BY <2>1, PartsAssumption DEF Init, Bounded, NoPass
  <2>3. Stamped
    BY FS_EmptySet DEF Init, Stamped
  <2> QED BY <2>2, <2>3
<1>2. Inv /\ Inv' /\ Bounded /\ Stamped /\ [Next]_vars => Bounded' /\ Stamped'
  BY TypeStep
<1> QED
  BY <1>1, <1>2, BoundedIsTypeOK, InvariantHolds, PTL DEF Spec

==============================================================================
