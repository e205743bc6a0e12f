--------------------------- MODULE WorldQueueProofs ---------------------------
(***************************************************************************)
(* Proofs about WorldQueue for every set of nodes and jobs, every bound on *)
(* attempts, and any number of crashes, lost writes and changes of a       *)
(* node's view: type correctness, no lost job, honest attempt counts and   *)
(* the refinement of AtLeastOnce.                                          *)
(***************************************************************************)
EXTENDS WorldQueue, TLAPS, WellFoundedInduction

----------------------------------------------------------------------------
(* Every copy of a job, in memory, in a batch, in the mirror or on its way  *)
(* there, is of a job that enqueue accepted.                                *)
CopiesAccepted ==
    /\ Held(kv) \subseteq accepted
    /\ \A n \in Nodes : Held(pending[n]) \cup Held(loop[n].batch) \subseteq accepted
    /\ \A o \in ops : o.job \in accepted

(* The job whose answer a loop waits for is in its batch.                   *)
AwaitedHeld ==
    \A n \in Nodes : loop[n].at \in Jobs => loop[n].batch[loop[n].at] # Absent

(* Nobody removes a job from the mirror before it has ended.                *)
DeletesSettled == \A o \in ops : o.kind = "delete" => Settled(o.job)

Inv == /\ TypeOK /\ AttemptsHonest /\ NoJobLost
       /\ CopiesAccepted /\ AwaitedHeld /\ DeletesSettled

----------------------------------------------------------------------------
(* The election returns one of its candidates (Cluster::elect_among).       *)
LEMMA LowestByInSet ==
    ASSUME NEW S \in SUBSET Nodes, S # {}, NEW rank \in [Nodes -> Nat]
    PROVE  LowestBy(S, rank) \in S
<1> DEFINE T == {rank[n] : n \in S}
<1>1. T \subseteq Nat /\ T # {}
  OBVIOUS
<1>2. PICK x \in T : \A y \in T : <<y, x>> \notin OpToRel(<, Nat)
  BY <1>1, NatLessThanWellFounded, WFMin, Zenon
<1>3. \A y \in T : x <= y
  <2> TAKE y \in T
  <2>1. ~(y < x)
    BY <1>1, <1>2, Zenon DEF OpToRel
  <2> QED BY <1>1, <2>1
<1>4. PICK n \in S : rank[n] = x
  OBVIOUS
<1>5. \A m \in S : rank[n] <= rank[m]
  BY <1>3, <1>4
<1> QED BY <1>5 DEF LowestBy

(* ... whatever the node knows of their health.                             *)
LEMMA ElectAmongInNodes ==
    ASSUME NEW candidates \in SUBSET Nodes, candidates # {},
           NEW healthy \in SUBSET Nodes
    PROVE  ElectAmong(candidates, healthy) \in Nodes
<1>1. NameRank \in [Nodes -> Nat] /\ [n \in Nodes |-> n] \in [Nodes -> Nat]
  BY WorldQueueAssumption
<1> QED BY <1>1, LowestByInSet DEF ElectAmong

(* Every step of the nodes, of their mirror writes and of what happens to   *)
(* them keeps the invariant.                                                *)
LEMMA NextKeepsInv == Inv /\ [Next]_vars => Inv'
<1> SUFFICES ASSUME Inv, [Next]_vars PROVE Inv'
  OBVIOUS
<1> USE WorldQueueAssumption
        DEF Inv, Attempts, Copies, LoopRecord, OpRecord
<1>1. ASSUME NEW n \in Nodes, ChangeView(n) PROVE Inv'
  <2> USE <1>1, ElectAmongInNodes DEF ChangeView
  <2>1. TypeOK' BY DEF TypeOK, CopiesAccepted, AwaitedHeld
  <2>2. AttemptsHonest' BY DEF TypeOK, AttemptsHonest, AwaitedHeld
  <2>3. CopiesAccepted' BY DEF TypeOK, CopiesAccepted, AwaitedHeld
  <2>4. AwaitedHeld' BY DEF TypeOK, AwaitedHeld
  <2>5. DeletesSettled' BY DEF TypeOK, DeletesSettled, Settled
  <2>6. NoJobLost' BY DEF TypeOK, NoJobLost, DeletesSettled, Settled
  <2> QED BY <2>1, <2>2, <2>3, <2>4, <2>5, <2>6
<1>2. ASSUME NEW n \in Nodes, Crash(n) PROVE Inv'
  <2> USE <1>2 DEF Crash, NoJobs, Idle, Held
  <2>1. TypeOK' BY DEF TypeOK, CopiesAccepted, AwaitedHeld
  <2>2. AttemptsHonest' BY DEF TypeOK, AttemptsHonest, AwaitedHeld
  <2>3. CopiesAccepted' BY DEF TypeOK, CopiesAccepted, AwaitedHeld
  <2>4. AwaitedHeld' BY DEF TypeOK, AwaitedHeld
  <2>5. DeletesSettled' BY DEF TypeOK, DeletesSettled, Settled
  <2>6. NoJobLost' BY DEF TypeOK, NoJobLost, DeletesSettled, Settled
  <2> QED BY <2>1, <2>2, <2>3, <2>4, <2>5, <2>6
<1>3. ASSUME NEW o \in ops, OpLands(o) PROVE Inv'
  <2> USE <1>3 DEF OpLands, Held
  <2>1. TypeOK' BY DEF TypeOK, CopiesAccepted, AwaitedHeld
  <2>2. AttemptsHonest' BY DEF TypeOK, AttemptsHonest, AwaitedHeld
  <2>3. CopiesAccepted' BY DEF TypeOK, CopiesAccepted, AwaitedHeld
  <2>4. AwaitedHeld' BY DEF TypeOK, AwaitedHeld
  <2>5. DeletesSettled' BY DEF TypeOK, DeletesSettled, Settled
  <2>6. NoJobLost' BY DEF TypeOK, NoJobLost, DeletesSettled, Settled
  <2> QED BY <2>1, <2>2, <2>3, <2>4, <2>5, <2>6
<1>4. ASSUME NEW o \in ops, OpFails(o) PROVE Inv'
  <2> USE <1>4 DEF OpFails, Held
  <2>1. TypeOK' BY DEF TypeOK, CopiesAccepted, AwaitedHeld
  <2>2. AttemptsHonest' BY DEF TypeOK, AttemptsHonest, AwaitedHeld
  <2>3. CopiesAccepted' BY DEF TypeOK, CopiesAccepted, AwaitedHeld
  <2>4. AwaitedHeld' BY DEF TypeOK, AwaitedHeld
  <2>5. DeletesSettled' BY DEF TypeOK, DeletesSettled, Settled
  <2>6. NoJobLost' BY DEF TypeOK, NoJobLost, DeletesSettled, Settled
  <2> QED BY <2>1, <2>2, <2>3, <2>4, <2>5, <2>6
<1>5. ASSUME NEW n \in Nodes, NEW j \in Jobs, Enqueue(n, j) PROVE Inv'
  <2> USE <1>5 DEF Enqueue, Put, Held
  <2>1. TypeOK' BY DEF TypeOK, CopiesAccepted, AwaitedHeld
  <2>2. AttemptsHonest' BY DEF TypeOK, AttemptsHonest, AwaitedHeld
  <2>3. CopiesAccepted' BY DEF TypeOK, CopiesAccepted, AwaitedHeld
  <2>4. AwaitedHeld' BY DEF TypeOK, AwaitedHeld
  <2>5. DeletesSettled' BY DEF TypeOK, DeletesSettled, Settled
  <2>6. NoJobLost'
    <3>1. Put(n, j, 0) \in ops' /\ Put(n, j, 0).job = j /\ Put(n, j, 0).kind = "put"
      OBVIOUS
    <3>2. ASSUME NEW k \in accepted', k # j
          PROVE  k \in accepted
      BY <3>2
    <3> HIDE DEF Put
    <3> QED BY <3>1, <3>2 DEF TypeOK, NoJobLost, Settled
  <2> QED BY <2>1, <2>2, <2>3, <2>4, <2>5, <2>6
<1>6. ASSUME NEW n \in Nodes, SyncStart(n) PROVE Inv'
  <2> USE <1>6 DEF SyncStart, Held
  <2>1. TypeOK'
    <3>1. loop[n] \in LoopRecord
      BY DEF TypeOK
    <3>2. [loop[n] EXCEPT !.at = IF Held(kv) = {} THEN "take" ELSE "sync",
                          !.keys = Held(kv)] \in LoopRecord
      BY <3>1 DEF TypeOK
    <3>3. loop' \in [Nodes -> LoopRecord]
      BY <3>1, <3>2 DEF TypeOK
    <3> HIDE DEF LoopRecord
    <3> QED BY <3>3 DEF TypeOK, CopiesAccepted, AwaitedHeld
  <2>2. AttemptsHonest' BY DEF TypeOK, AttemptsHonest, AwaitedHeld
  <2>3. CopiesAccepted' BY DEF TypeOK, CopiesAccepted, AwaitedHeld
  <2>4. AwaitedHeld' BY DEF TypeOK, AwaitedHeld
  <2>5. DeletesSettled' BY DEF TypeOK, DeletesSettled, Settled
  <2>6. NoJobLost' BY DEF TypeOK, NoJobLost, DeletesSettled, Settled
  <2> QED BY <2>1, <2>2, <2>3, <2>4, <2>5, <2>6
<1>7. ASSUME NEW n \in Nodes, NEW j \in Jobs, SyncKey(n, j) PROVE Inv'
  <2> USE <1>7 DEF SyncKey, Adopt, Held
  <2>1. TypeOK'
    <3>1. loop[n] \in LoopRecord
      BY DEF TypeOK
    <3>2. [loop[n] EXCEPT !.keys = @ \ {j},
                          !.at = IF loop[n].keys = {j} THEN "take" ELSE @] \in LoopRecord
      BY <3>1
    <3>3. loop' \in [Nodes -> LoopRecord]
      BY <3>1, <3>2 DEF TypeOK
    <3> HIDE DEF LoopRecord
    <3> QED BY <3>3 DEF TypeOK, CopiesAccepted, AwaitedHeld
  <2>2. AttemptsHonest' BY DEF TypeOK, AttemptsHonest, AwaitedHeld
  <2>3. CopiesAccepted' BY DEF TypeOK, CopiesAccepted, AwaitedHeld
  <2>4. AwaitedHeld' BY DEF TypeOK, AwaitedHeld
  <2>5. DeletesSettled' BY DEF TypeOK, DeletesSettled, Settled
  <2>6. NoJobLost' BY DEF TypeOK, NoJobLost, DeletesSettled, Settled
  <2> QED BY <2>1, <2>2, <2>3, <2>4, <2>5, <2>6
<1>8. ASSUME NEW n \in Nodes, NEW D \in SUBSET Jobs, TakeDue(n, D) PROVE Inv'
  <2> USE <1>8 DEF TakeDue, Held
  <2>1. TypeOK' BY DEF TypeOK, CopiesAccepted, AwaitedHeld
  <2>2. AttemptsHonest' BY DEF TypeOK, AttemptsHonest, AwaitedHeld
  <2>3. CopiesAccepted' BY DEF TypeOK, CopiesAccepted, AwaitedHeld
  <2>4. AwaitedHeld' BY DEF TypeOK, AwaitedHeld
  <2>5. DeletesSettled' BY DEF TypeOK, DeletesSettled, Settled
  <2>6. NoJobLost' BY DEF TypeOK, NoJobLost, DeletesSettled, Settled
  <2> QED BY <2>1, <2>2, <2>3, <2>4, <2>5, <2>6
<1>9. ASSUME NEW n \in Nodes, NEW j \in Jobs, SkipJob(n, j) PROVE Inv'
  <2> USE <1>9 DEF SkipJob, Without, Held
  <2>1. TypeOK'
    <3>1. loop[n] \in LoopRecord
      BY DEF TypeOK
    <3>2. Without(loop[n], j) \in LoopRecord
      BY <3>1 DEF TypeOK
    <3>3. loop' \in [Nodes -> LoopRecord]
      BY <3>1, <3>2 DEF TypeOK
    <3> HIDE DEF LoopRecord
    <3> QED BY <3>3 DEF TypeOK, CopiesAccepted, AwaitedHeld
  <2>2. AttemptsHonest' BY DEF TypeOK, AttemptsHonest, AwaitedHeld
  <2>3. CopiesAccepted' BY DEF TypeOK, CopiesAccepted, AwaitedHeld
  <2>4. AwaitedHeld' BY DEF TypeOK, AwaitedHeld
  <2>5. DeletesSettled' BY DEF TypeOK, DeletesSettled, Settled
  <2>6. NoJobLost' BY DEF TypeOK, NoJobLost, DeletesSettled, Settled
  <2> QED BY <2>1, <2>2, <2>3, <2>4, <2>5, <2>6
<1>10. ASSUME NEW n \in Nodes, NEW j \in Jobs, Dispatch(n, j) PROVE Inv'
  <2> USE <1>10 DEF Dispatch, Held
  <2>1. TypeOK'
    <3>1. loop[n] \in LoopRecord
      BY DEF TypeOK
    <3>2. [loop[n] EXCEPT !.at = j] \in LoopRecord
      BY <3>1 DEF TypeOK
    <3>3. loop' \in [Nodes -> LoopRecord]
      BY <3>1, <3>2 DEF TypeOK
    <3> HIDE DEF LoopRecord
    <3> QED BY <3>3 DEF TypeOK, CopiesAccepted, AwaitedHeld
  <2>2. AttemptsHonest' BY DEF TypeOK, AttemptsHonest, AwaitedHeld
  <2>3. CopiesAccepted' BY DEF TypeOK, CopiesAccepted, AwaitedHeld
  <2>4. AwaitedHeld' BY DEF TypeOK, AwaitedHeld
  <2>5. DeletesSettled' BY DEF TypeOK, DeletesSettled, Settled
  <2>6. NoJobLost' BY DEF TypeOK, NoJobLost, DeletesSettled, Settled
  <2> QED BY <2>1, <2>2, <2>3, <2>4, <2>5, <2>6
<1>11. ASSUME NEW n \in Nodes, NEW j \in Jobs, Delivered(n, j) PROVE Inv'
  <2> USE <1>11 DEF Delivered, Without, Delete, Held
  <2>1. TypeOK'
    <3>1. loop[n] \in LoopRecord
      BY DEF TypeOK
    <3>2. Without(loop[n], j) \in LoopRecord
      BY <3>1 DEF TypeOK
    <3>3. loop' \in [Nodes -> LoopRecord]
      BY <3>1, <3>2 DEF TypeOK
    <3> HIDE DEF LoopRecord
    <3> QED BY <3>3 DEF TypeOK, CopiesAccepted, AwaitedHeld
  <2>2. AttemptsHonest' BY DEF TypeOK, AttemptsHonest, AwaitedHeld
  <2>3. CopiesAccepted' BY DEF TypeOK, CopiesAccepted, AwaitedHeld
  <2>4. AwaitedHeld' BY DEF TypeOK, AwaitedHeld
  <2>5. DeletesSettled' BY DEF TypeOK, DeletesSettled, Settled
  <2>6. NoJobLost' BY DEF TypeOK, NoJobLost, DeletesSettled, Settled
  <2> QED BY <2>1, <2>2, <2>3, <2>4, <2>5, <2>6
<1>12. ASSUME NEW n \in Nodes, NEW j \in Jobs, DeliveryFails(n, j) PROVE Inv'
  <2> USE <1>12 DEF DeliveryFails
  <2> DEFINE a == loop[n].batch[j]
  <2>1. /\ a \in Attempts /\ a <= tries[j] /\ j \in accepted
        /\ loop[n] \in LoopRecord
    BY DEF TypeOK, AttemptsHonest, CopiesAccepted, AwaitedHeld, Held
  <2>2. /\ tries' \in [Jobs -> 0 .. MaxAttempts]
        /\ \A k \in Jobs : tries[k] <= tries'[k]
    BY DEF TypeOK
  <2>3. ~GivesUp(a) => NextAttempt(a) \in Attempts /\ NextAttempt(a) <= tries'[j]
    BY <2>1 DEF TypeOK, GivesUp, NextAttempt
  <2>4. /\ pending' = [pending EXCEPT ![n][j] = IF GivesUp(a) THEN @ ELSE NextAttempt(a)]
        /\ pending' \in [Nodes -> Copies]
    BY <2>3 DEF TypeOK
  <2>5. /\ ops' = ops \cup {IF GivesUp(a) THEN Delete(n, j) ELSE Put(n, j, NextAttempt(a))}
        /\ ops' \subseteq OpRecord
    BY <2>3 DEF TypeOK, Delete, Put
  <2>6. /\ loop' = [loop EXCEPT ![n] = Without(@, j)]
        /\ loop' \in [Nodes -> LoopRecord]
    <3>1. Without(loop[n], j) \in LoopRecord
      BY <2>1 DEF Without, Held
    <3> HIDE DEF LoopRecord
    <3> QED BY <3>1 DEF TypeOK
  <2>7. \A k \in Jobs : Without(loop[n], j).batch[k] \in {Absent, loop[n].batch[k]}
    BY <2>1 DEF Without
  <2>8. TypeOK'
    <3> HIDE DEF LoopRecord, Copies, OpRecord, a
    <3> QED BY <2>1, <2>2, <2>4, <2>5, <2>6 DEF TypeOK
  <2>9. AttemptsHonest'
    <3> HIDE DEF a
    <3>1. ASSUME NEW k \in Jobs
          PROVE  kv'[k] # Absent => kv'[k] <= tries'[k]
      BY <2>2 DEF TypeOK, AttemptsHonest
    <3>2. ASSUME NEW k \in Jobs, NEW m \in Nodes
          PROVE  pending'[m][k] # Absent => pending'[m][k] <= tries'[k]
      BY <2>2, <2>3, <2>4 DEF TypeOK, AttemptsHonest
    <3>3. ASSUME NEW k \in Jobs, NEW m \in Nodes
          PROVE  loop'[m].batch[k] # Absent => loop'[m].batch[k] <= tries'[k]
      BY <2>2, <2>6, <2>7 DEF TypeOK, AttemptsHonest
    <3>4. ASSUME NEW o \in ops'
          PROVE  o.attempt <= tries'[o.job]
      BY <2>2, <2>3, <2>5 DEF TypeOK, AttemptsHonest, Delete, Put
    <3> QED BY <3>1, <3>2, <3>3, <3>4 DEF AttemptsHonest
  <2>10. CopiesAccepted'
    BY DEF TypeOK, CopiesAccepted, AwaitedHeld, Held, Without, Delete, Put
  <2>11. AwaitedHeld'
    BY DEF TypeOK, AwaitedHeld, Held, Without
  <2>12. DeletesSettled'
    BY <2>5 DEF TypeOK, DeletesSettled, Settled, Delete, Put
  <2>13. NoJobLost'
    BY <2>5 DEF TypeOK, NoJobLost, Settled, Delete, Put
  <2> QED BY <2>8, <2>9, <2>10, <2>11, <2>12, <2>13
<1>13. CASE UNCHANGED vars
  BY <1>13 DEF TypeOK, AttemptsHonest, CopiesAccepted, AwaitedHeld, Held, DeletesSettled,
              NoJobLost, Settled, vars
<1> QED
  BY <1>1, <1>2, <1>3, <1>4, <1>5, <1>6, <1>7, <1>8, <1>9, <1>10, <1>11,
     <1>12, <1>13 DEF Next, JobStep

(* Before the first enqueue there is nothing anywhere (Queue::new).         *)
LEMMA InitEstablishesInv == Init => Inv
<1> SUFFICES ASSUME Init PROVE Inv
  OBVIOUS
<1> USE WorldQueueAssumption DEF Init, Inv, Attempts, Copies, LoopRecord, NoJobs, Idle
<1>1. TypeOK
  BY DEF TypeOK
<1>2. AttemptsHonest
  BY DEF AttemptsHonest
<1>3. CopiesAccepted
  BY DEF CopiesAccepted, Held
<1>4. AwaitedHeld
  BY DEF AwaitedHeld
<1>5. DeletesSettled /\ NoJobLost
  BY DEF DeletesSettled, NoJobLost
<1> QED BY <1>1, <1>2, <1>3, <1>4, <1>5

(* The invariant holds in every reachable state.                            *)
LEMMA InvariantHolds == Spec => []Inv
<1> QED BY InitEstablishesInv, NextKeepsInv, PTL DEF Spec

----------------------------------------------------------------------------
(* Every variable has its type: in particular a copy never counts as many   *)
(* attempts as there may be (reschedule), and only accepted jobs end.       *)
THEOREM TypeCorrect == Spec => []TypeOK
<1> QED BY InvariantHolds, PTL DEF Inv

(* Unless a mirror write of its was lost, an accepted job is in the mirror  *)
(* or on its way there until it has ended (enqueue, run_delivery_loop).     *)
THEOREM NoJobLostCorrect == Spec => []NoJobLost
<1> QED BY InvariantHolds, PTL DEF Inv

(* No copy of a job counts more attempts than have failed, however mirror   *)
(* writes, syncs, crashes and rival nodes interleave (reschedule, adopt).   *)
THEOREM AttemptsHonestCorrect == Spec => []AttemptsHonest
<1> QED BY InvariantHolds, PTL DEF Inv

(* The delivery loops of all nodes implement one reliable queue: a job is   *)
(* worked on only once accepted and given up only after max_attempts failed *)
(* dispatches (run_delivery_loop, reschedule).                              *)
THEOREM Refinement == Spec => ImplementsAtLeastOnce
<1>1. Init => Abstract!QInit
  BY DEF Init, Abstract!QInit, Status
<1>2. ASSUME Inv, [Next]_vars
      PROVE  [Abstract!QNext]_(Abstract!qvars)
  <2> USE <1>2 DEF Inv
  <2>1. ASSUME NEW n \in Nodes, NEW j \in Jobs, Enqueue(n, j)
        PROVE  Abstract!Accept(j)
    BY <2>1 DEF TypeOK, Enqueue, Abstract!Accept, Status
  <2>2. ASSUME NEW n \in Nodes, NEW j \in Jobs, Delivered(n, j)
        PROVE  Abstract!Succeed(j)
    <3>1. j \in accepted
      BY <2>2 DEF Delivered, AwaitedHeld, CopiesAccepted, Held
    <3> QED BY <2>2, <3>1 DEF TypeOK, Delivered, Abstract!Succeed, Status
  <2>3. ASSUME NEW n \in Nodes, NEW j \in Jobs, DeliveryFails(n, j)
        PROVE  Abstract!Fail(j)
    <3>1. j \in accepted /\ loop[n].batch[j] # Absent
      BY <2>3 DEF DeliveryFails, AwaitedHeld, CopiesAccepted, Held
    <3>2. loop[n].batch[j] \in Attempts /\ loop[n].batch[j] <= tries[j]
      BY <3>1 DEF TypeOK, AttemptsHonest, LoopRecord, Copies
    <3>3. GivesUp(loop[n].batch[j]) => tries'[j] = MaxAttempts
      BY <2>3, <3>2, WorldQueueAssumption DEF TypeOK, DeliveryFails, GivesUp, Attempts
    <3>4. dead' = IF GivesUp(loop[n].batch[j]) THEN dead \cup {j} ELSE dead
      BY <2>3 DEF DeliveryFails
    <3> QED BY <2>3, <3>1, <3>3, <3>4 DEF TypeOK, DeliveryFails, Abstract!Fail, Status
  <2>4. ASSUME UNCHANGED <<accepted, delivered, dead, tries>>
        PROVE  UNCHANGED Abstract!qvars
    BY <2>4 DEF Abstract!qvars, Status
  <2>5. ASSUME NEW n \in Nodes, ChangeView(n) \/ SyncStart(n) \/ Crash(n)
        PROVE  UNCHANGED Abstract!qvars
    BY <2>4, <2>5 DEF ChangeView, SyncStart, Crash
  <2>6. ASSUME NEW n \in Nodes, NEW j \in Jobs, SyncKey(n, j) \/ SkipJob(n, j) \/ Dispatch(n, j)
        PROVE  UNCHANGED Abstract!qvars
    BY <2>4, <2>6 DEF SyncKey, SkipJob, Dispatch
  <2>7. ASSUME NEW n \in Nodes, NEW D \in SUBSET Jobs, TakeDue(n, D)
        PROVE  UNCHANGED Abstract!qvars
    BY <2>4, <2>7 DEF TakeDue
  <2>8. ASSUME NEW o \in ops, OpLands(o) \/ OpFails(o)
        PROVE  UNCHANGED Abstract!qvars
    BY <2>4, <2>8 DEF OpLands, OpFails
  <2>9. CASE UNCHANGED vars
    BY <2>4, <2>9 DEF vars
  <2> QED
    BY <1>2, <2>1, <2>2, <2>3, <2>5, <2>6, <2>7, <2>8, <2>9
    DEF Next, JobStep, Abstract!QNext
<1> QED BY <1>1, <1>2, InvariantHolds, PTL DEF Spec, ImplementsAtLeastOnce, Abstract!QSpec
===============================================================================
