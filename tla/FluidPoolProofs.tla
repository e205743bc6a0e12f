---------------------------- MODULE FluidPoolProofs ---------------------------
(***************************************************************************)
(* Proofs about FluidPool for any number of functions, requests, cells,    *)
(* failures, dropped futures and restarts of a key, in three parts.        *)
(*                                                                         *)
(* 1. The registry can be trusted, no cell is forgotten and a successful   *)
(*    shutdown is complete.  The numbers of pools play no part: limits,    *)
(*    reservations and targets are free.                                   *)
(*                                                                         *)
(* 2. Types.                                                               *)
(*                                                                         *)
(* 3. The accounts cold starts are admitted by: for a key that is          *)
(*    registered once, `provisioning` counts its cold starts and no        *)
(*    interleaving takes the pool beyond max_instances.                    *)
(***************************************************************************)
EXTENDS FluidPool, FiniteSetTheorems, TLAPS

-----------------------------------------------------------------------------
(*****************************************************************************)
(* 1. Leases, cells and shutdown                                             *)
(*****************************************************************************)

-----------------------------------------------------------------------------
(* What the proof needs of the shapes.  The pools themselves are free: no   *)
(* count, limit or registration has a part in the argument.                 *)
Shapes ==
    /\ DOMAIN inst = CellIds /\ DOMAIN cold = CellIds /\ DOMAIN req = Requests
    /\ DOMAIN term = CellIds /\ DOMAIN drain = CellIds
    /\ \A c \in CellIds : /\ DOMAIN inst[c] = DOMAIN NoInst /\ inst[c].inflight \in Nat
                          /\ DOMAIN cold[c] = DOMAIN NoCold
    /\ \A r \in Requests : DOMAIN req[r] = DOMAIN NoReq /\ req[r].cell \in CellIds \cup {None}
    /\ DOMAIN worker = {"pc", "cell"} /\ (worker.pc = "busy" => worker.cell \in CellIds)
    /\ alive \subseteq CellIds
    /\ DOMAIN unreg = DOMAIN NoUnreg /\ unreg.todo \subseteq CellIds
    /\ DOMAIN sd = {"pc", "attempt", "todo"} /\ sd.attempt \in {0, 1} /\ sd.todo \subseteq CellIds
    /\ DOMAIN used = {"cells", "lost", "registers", "unregisters", "cancels", "dead", "failures"}

Starting(c) == cold[c].pc \in {"admit", "provision", "start"}

(* A cell name is drawn before anything is known of the cell, and nothing   *)
(* but its cold start is until the instance is published.                   *)
Untouched(c) ==
    /\ inst[c].key = None /\ drain[c] = "none" /\ term[c] = "none"
    /\ c \notin hand \cup unreg.todo
    /\ \A r \in Requests : req[r].cell # c

NamesOK ==
    \A c \in CellIds :
        /\ c \notin used.cells => cold[c].pc = "none" /\ Untouched(c)
        /\ Starting(c) => Untouched(c)
        /\ cold[c].pc = "start" => c \in alive

(* Whom a cold start works for: one request, which waits for it, or the     *)
(* autoscaler, whose slot is given back after publication.                  *)
ColdOK ==
    \A c \in CellIds :
        /\ cold[c].pc = "none" => cold[c] = NoCold
        /\ cold[c].pc # "none" => cold[c].by \in Requests \cup {"warm"} /\ cold[c].key \in Keys
        /\ cold[c].pc = "reset" => cold[c].by = "warm" /\ inst[c].key \in {None, cold[c].key}
        /\ \A r \in Requests : cold[c].by = r =>
               /\ req[r].cell = None /\ req[r].key = cold[c].key
               /\ \A d \in CellIds : cold[d].by = r => d = c

(* A lease names the instance it was given, or one that is gone.            *)
LeaseOK ==
    \A r \in Requests :
        req[r].cell # None => inst[req[r].cell].key \in {None, req[r].key}

(* Cells on their way to the worker are out of the registry; a drain that   *)
(* got its answer is of a cell that is gone or queued again.                *)
HandedOK ==
    \A c \in CellIds :
        /\ c \in hand \cup unreg.todo => inst[c].key = None
        /\ drain[c] = "remove" => c \notin alive \/ term[c] # "none"

(* The worker terminates what the map says it does.  Shutdown, once it has  *)
(* every permit, finds no cold start between its backend calls, then no     *)
(* instance, then no worker.                                                *)
EndingOK ==
    /\ worker.pc = "busy" => term[worker.cell] = "busy"
    /\ BarrierHeld => HoldsPermit = {}
    /\ sd.pc \in {"stop", "join", "drain"} => \A c \in CellIds : inst[c].key = None
    /\ sd.pc = "drain" => worker.pc = "stopped" /\ \A c \in sd.todo : term[c] # "none"

Inv == /\ Shapes /\ NamesOK /\ ColdOK /\ LeaseOK /\ HandedOK /\ EndingOK
       /\ NoPhantomLoad /\ LeasableAlive /\ CellOwned
-----------------------------------------------------------------------------
(* A step that starts and ends no lease and adds no load keeps the load     *)
(* accounted for.                                                           *)
LEMMA LoadKept ==
  ASSUME NoPhantomLoad, \A r \in Requests : req'[r].cell = req[r].cell,
         \A c \in CellIds : inst'[c].key # None =>
             /\ inst[c].key # None /\ inst'[c].inflight = inst[c].inflight
             /\ cold[c].pc = "reset" <=> cold'[c].pc = "reset"
  PROVE  NoPhantomLoad'
<1>1. ASSUME NEW c \in CellIds PROVE Leases(c)' = Leases(c)
  BY DEF Leases
<1> QED BY <1>1 DEF NoPhantomLoad

(* The leases on a cell can be counted.                                     *)
LEMMA LeasesFinite ==
  ASSUME NEW c
  PROVE  /\ IsFiniteSet(Leases(c)) /\ Cardinality(Leases(c)) \in Nat
         /\ IsFiniteSet(Leases(c)') /\ Cardinality(Leases(c)') \in Nat
<1>1. Leases(c) \in SUBSET Requests /\ Leases(c)' \in SUBSET Requests
  BY DEF Leases
<1> QED BY <1>1, PoolConstants, FS_Subset, FS_CardinalityType

(* A lease adds one to the load and one to the leases.                      *)
LEMMA LeaseKeepsLoad ==
  ASSUME Inv, NEW r \in Requests, NEW k \in Keys, LeaseReady(r, k)
  PROVE  NoPhantomLoad'
<1> USE PoolConstants DEF Inv, Shapes, NoInst, NoCold, NoReq
<1>1. PICK c \in CellIds :
        /\ inst[c].key = k
        /\ inst' = [inst EXCEPT ![c].inflight = @ + 1]
        /\ req' = [req EXCEPT ![r] = [key |-> k, cell |-> c]]
  BY DEF LeaseReady, Leasable, Serving, InstancesOf
<1>2. cold' = cold /\ req[r].cell = None
  BY DEF LeaseReady
<1>3. ASSUME NEW d \in CellIds, inst'[d].key # None
      PROVE inst'[d].inflight <= Cardinality(Leases(d)') + (IF cold'[d].pc = "reset" THEN 1 ELSE 0)
  <2>1. CASE d = c
    <3>1. Leases(c)' = Leases(c) \cup {r} /\ r \notin Leases(c)
      BY <1>1, <1>2 DEF Leases
    <3>2. Cardinality(Leases(c)') = Cardinality(Leases(c)) + 1 /\ Cardinality(Leases(c)) \in Nat
      <4>1. IsFiniteSet(Leases(c)) /\ Cardinality(Leases(c)) \in Nat
        BY LeasesFinite
      <4>2. Cardinality(Leases(c) \cup {r}) = Cardinality(Leases(c)) + 1
        BY <3>1, <4>1, FS_AddElement
      <4> QED BY <3>1, <4>1, <4>2
    <3>3. inst'[c].inflight = inst[c].inflight + 1 /\ inst[c].key # None
      BY <1>1
    <3>4. inst[c].inflight <= Cardinality(Leases(c)) + (IF cold[c].pc = "reset" THEN 1 ELSE 0)
      BY <3>3 DEF NoPhantomLoad
    <3> QED BY <1>2, <2>1, <3>2, <3>3, <3>4
  <2>2. CASE d # c
    <3>1. inst'[d] = inst[d]
      BY <1>1, <2>2
    <3>2. Leases(d)' = Leases(d)
      BY <1>1, <1>2, <2>2 DEF Leases
    <3> QED BY <1>2, <1>3, <3>1, <3>2 DEF NoPhantomLoad
  <2> QED BY <2>1, <2>2
<1> QED BY <1>3 DEF NoPhantomLoad

(* Lease::drop takes one from both, or finds the instance gone.             *)
LEMMA ReleaseKeepsLoad ==
  ASSUME Inv, NEW r \in Requests, Release(r)
  PROVE  NoPhantomLoad'
<1> USE PoolConstants DEF Inv, Shapes, NoInst, NoCold, NoReq
<1>1. PICK c \in CellIds : c = req[r].cell /\ cold' = cold /\ r \in Leases(c)
  BY DEF Release, Leases
<1>2. ASSUME NEW d \in CellIds, inst'[d].key # None
      PROVE inst'[d].inflight <= Cardinality(Leases(d)') + (IF cold'[d].pc = "reset" THEN 1 ELSE 0)
  <2>1. CASE d = c
    <3>1. inst[c].key = req[r].key
      BY <1>1, <1>2, <2>1 DEF Release, LeaseOK
    <3>2. inst'[c].inflight = SatSub(inst[c].inflight, 1)
      BY <1>1, <3>1 DEF Release
    <3>3. Leases(c)' = Leases(c) \ {r}
      BY <1>1 DEF Release, Leases
    <3>4. Cardinality(Leases(c)') = Cardinality(Leases(c)) - 1 /\ Cardinality(Leases(c)) \in Nat
      <4>1. IsFiniteSet(Leases(c)) /\ Cardinality(Leases(c)) \in Nat
        BY LeasesFinite
      <4>2. Cardinality(Leases(c) \ {r}) = Cardinality(Leases(c)) - 1
        BY <1>1, <4>1, FS_RemoveElement
      <4> QED BY <3>3, <4>1, <4>2
    <3>4a. Cardinality(Leases(c)) # 0
      BY <1>1, LeasesFinite, FS_EmptySet
    <3>5. inst[c].inflight <= Cardinality(Leases(c)) + (IF cold[c].pc = "reset" THEN 1 ELSE 0)
      BY <1>1, <1>2, <2>1, <3>1 DEF NoPhantomLoad, Release
    <3>6. inst[c].inflight \in Nat
      BY <1>1
    <3> QED BY <1>1, <2>1, <3>2, <3>4, <3>4a, <3>5, <3>6 DEF SatSub
  <2>2. CASE d # c
    <3>1. inst'[d] = inst[d]
      BY <1>1, <2>2 DEF Release
    <3>2. Leases(d)' = Leases(d)
      BY <1>1, <2>2 DEF Release, Leases
    <3> QED BY <1>1, <1>2, <3>1, <3>2 DEF NoPhantomLoad
  <2> QED BY <2>1, <2>2
<1> QED BY <1>2 DEF NoPhantomLoad

(* The slot of a new instance is its request's, or keep-warm's to reset.    *)
LEMMA PublishKeepsLoad ==
  ASSUME Inv, NEW c \in CellIds, ColdPublish(c)
  PROVE  NoPhantomLoad'
<1> USE PoolConstants DEF Inv, Shapes, NoInst, NoCold, NoReq
<1>2. ASSUME NEW d \in CellIds, inst'[d].key # None
      PROVE inst'[d].inflight <= Cardinality(Leases(d)') + (IF cold'[d].pc = "reset" THEN 1 ELSE 0)
  <2>0. Cardinality(Leases(d)') \in Nat
    BY LeasesFinite
  <2>1. CASE d = c /\ cold[c].by = "warm"
    BY <2>0, <2>1 DEF ColdPublish
  <2>2. CASE d = c /\ cold[c].by # "warm"
    <3>1. PICK r \in Requests : cold[c].by = r
      BY <2>2 DEF ColdPublish, ColdOK
    <3>2. r \in Leases(d)'
      BY <2>2, <3>1 DEF ColdPublish, Leases
    <3>3. Cardinality(Leases(d)') # 0
      BY <3>2, LeasesFinite, FS_EmptySet
    <3> QED BY <2>0, <2>2, <3>3 DEF ColdPublish
  <2>3. CASE d # c
    <3>1. inst'[d] = inst[d] /\ cold'[d] = cold[d]
      BY <2>3 DEF ColdPublish
    <3>2. Leases(d)' = Leases(d)
      BY <2>3 DEF ColdPublish, Leases, ColdOK
    <3> QED BY <1>2, <3>1, <3>2 DEF NoPhantomLoad
  <2> QED BY <2>1, <2>2, <2>3
<1> QED BY <1>2 DEF NoPhantomLoad

(* Keep-warm's reset gives back its slot, or finds the instance gone.       *)
LEMMA ResetKeepsLoad ==
  ASSUME Inv, NEW c \in CellIds, KeepWarmReset(c)
  PROVE  NoPhantomLoad'
<1> USE PoolConstants DEF Inv, Shapes, NoInst, NoCold, NoReq
<1>1. ASSUME NEW d \in CellIds PROVE Leases(d)' = Leases(d) /\ Cardinality(Leases(d)) \in Nat
  <2>1. Leases(d)' = Leases(d)
    BY DEF Leases, KeepWarmReset
  <2> QED BY <2>1, LeasesFinite
<1>2. ASSUME NEW d \in CellIds, inst'[d].key # None
      PROVE inst'[d].inflight <= Cardinality(Leases(d)') + (IF cold'[d].pc = "reset" THEN 1 ELSE 0)
  <2>1. CASE d = c
    <3>1. inst[c].key = cold[c].key
      BY <1>2, <2>1 DEF KeepWarmReset, ColdOK
    <3>2. inst'[d].inflight = 0
      BY <2>1, <3>1 DEF KeepWarmReset
    <3> QED BY <1>1, <3>2
  <2>2. CASE d # c
    <3>1. inst'[d] = inst[d] /\ cold'[d] = cold[d]
      BY <2>2 DEF KeepWarmReset
    <3> QED BY <1>1, <1>2, <3>1 DEF NoPhantomLoad
  <2> QED BY <2>1, <2>2
<1> QED BY <1>2 DEF NoPhantomLoad

(* A decision of the autoscaler: new cold starts use names nobody knows,    *)
(* and what it drains has left rotation (reconcile).                        *)
LEMMA ReconcileKeepsInv ==
  ASSUME Inv, Reconcile
  PROVE  Inv'
<1> USE PoolConstants DEF Inv, Shapes, NoInst, NoCold, NoReq
<1>1. PICK warm \in WarmPlans, recycle \in SUBSET {c \in InRotation : inst[c].served} :
        \E idle \in SUBSET {c \in InRotation \ recycle : inst[c].inflight = 0} :
          Carry(warm, recycle \cup idle)
  BY DEF Reconcile
<1>2. PICK idle \in SUBSET {c \in InRotation \ recycle : inst[c].inflight = 0} :
          Carry(warm, recycle \cup idle)
  BY <1>1
<1> DEFINE S == recycle \cup idle
<1>3. Carry(warm, S) /\ S \subseteq CellIds /\ \A c \in S : inst[c].key # None
  BY <1>2 DEF InRotation, Serving, InstancesOf
<1>4. /\ DOMAIN warm \subseteq CellIds \ used.cells
      /\ \A c \in DOMAIN warm : warm[c] \in Keys
  <2>1. PICK T \in SUBSET CellIds : Fresh(T) /\ warm \in [T -> {k \in Registered : Shortfall(k) > 0}]
    BY DEF WarmPlans
  <2> QED BY <2>1 DEF Fresh, Registered
<1>5. /\ UNCHANGED <<req, alive, term, worker, hand, unreg, sd>>
      /\ used' = [used EXCEPT !.cells = @ \cup DOMAIN warm]
      /\ cold' = [c \in CellIds |-> IF c \notin DOMAIN warm THEN cold[c]
                                    ELSE [pc |-> "admit", key |-> warm[c], by |-> "warm"]]
      /\ drain' = [c \in CellIds |->
                     IF inst[c].key # None /\ inst[c].inflight = 0 /\ (inst[c].draining \/ c \in S)
                     THEN "enqueue" ELSE "none"]
  BY <1>3 DEF Reconcile, Carry
<1>6. inst' = [c \in CellIds |-> IF c \in S THEN [inst[c] EXCEPT !.draining = TRUE] ELSE inst[c]]
  BY <1>3 DEF Carry, MarkDraining
<1>7. \A c \in DOMAIN warm : cold[c].pc = "none" /\ Untouched(c)
  BY <1>4 DEF NamesOK
<1> HIDE DEF S
<1>8. ASSUME NEW c \in CellIds
      PROVE  /\ inst'[c].key = inst[c].key /\ inst'[c].inflight = inst[c].inflight
             /\ c \in S => inst'[c].draining
             /\ c \notin S => inst'[c] = inst[c]
  BY <1>6
<1>9. Shapes'
  BY <1>5, <1>6
<1>10. NamesOK'
  BY <1>4, <1>5, <1>7, <1>8 DEF NamesOK, Starting, Untouched
<1>11. ColdOK'
  BY <1>4, <1>5, <1>7, <1>8 DEF ColdOK
<1>12. (LeaseOK /\ HandedOK)'
  BY <1>5, <1>8 DEF LeaseOK, HandedOK
<1>13. EndingOK'
  BY <1>5, <1>8 DEF EndingOK, BarrierHeld, HoldsPermit
<1>14. NoPhantomLoad'
  BY <1>5, <1>7, <1>8, LoadKept
<1>15. LeasableAlive'
  BY <1>5, <1>8 DEF LeasableAlive
<1>16. CellOwned'
  BY <1>5, <1>7, <1>8 DEF CellOwned, Owned
<1> QED BY <1>9, <1>10, <1>11, <1>12, <1>13, <1>14, <1>15, <1>16

(* termination_loop.                                                       *)
LEMMA WorkerKeepsInv ==
  ASSUME Inv,
         WorkerAwait \/ WorkerWoken \/ WorkerPick \/ WorkerNothing
         \/ WorkerTerminated \/ WorkerFailed
  PROVE  Inv'
<1> USE PoolConstants, LoadKept
        DEF Inv, Shapes, NamesOK, ColdOK, LeaseOK, HandedOK, EndingOK, LeasableAlive,
            CellOwned, Owned, Starting, Untouched, BarrierHeld, HoldsPermit,
            NoPool, NoInst, NoCold, NoReq, NoUnreg
<1>1. CASE WorkerAwait
  BY <1>1 DEF WorkerAwait
<1>2. CASE WorkerWoken
  BY <1>2 DEF WorkerWoken, Closing
<1>3. CASE WorkerPick
  BY <1>3 DEF WorkerPick
<1>4. CASE WorkerNothing
  BY <1>4 DEF WorkerNothing
<1>5. CASE WorkerTerminated
  BY <1>5 DEF WorkerTerminated, AnswerWaiters, Closing
<1>6. CASE WorkerFailed
  BY <1>6 DEF WorkerFailed, AnswerWaiters, Count
<1> QED BY <1>1, <1>2, <1>3, <1>4, <1>5, <1>6

(* register_many, the settings of a pool, and unregister_many.             *)
LEMMA RegistryKeepsInv ==
  ASSUME Inv, NEW k \in Keys,
         Register(k) \/ SetMinInstances(k) \/ SetSafeConcurrency(k)
         \/ UpdateConfig(k) \/ Unregister(k)
  PROVE  Inv'
<1> USE PoolConstants, LoadKept
        DEF Inv, Shapes, NamesOK, ColdOK, LeaseOK, HandedOK, EndingOK, LeasableAlive,
            CellOwned, Owned, Starting, Untouched, BarrierHeld, HoldsPermit,
            NoPool, NoInst, NoCold, NoReq, NoUnreg
<1>1. CASE Register(k)
  <2>1. /\ inst' = [c \in CellIds |-> IF inst[c].key = k THEN [inst[c] EXCEPT !.draining = TRUE]
                                                        ELSE inst[c]]
        /\ used' = [used EXCEPT !.registers[k] = @ + 1] /\ ~ShuttingDown
        /\ UNCHANGED <<cold, req, alive, term, permit, worker, auto, drain, hand, unreg, sd>>
    BY <1>1 DEF Register
  <2> QED BY <2>1 DEF ShuttingDown
<1>2. CASE SetMinInstances(k)
  BY <1>2 DEF SetMinInstances
<1>3. CASE SetSafeConcurrency(k)
  BY <1>3 DEF SetSafeConcurrency
<1>4. CASE UpdateConfig(k)
  <2>1. UNCHANGED <<inst, cold, req, alive, term, permit, worker, auto, drain, hand, unreg, sd, used>>
    BY <1>4 DEF UpdateConfig
  <2> QED BY <2>1
<1>5. CASE Unregister(k)
  BY <1>5 DEF Unregister, Count, InstancesOf
<1> QED BY <1>1, <1>2, <1>3, <1>4, <1>5

(* What unregister_many does with its list, or loses of it.                *)
LEMMA UnregisterKeepsInv ==
  ASSUME Inv,
         UnregisterNext \/ UnregisterCancel
  PROVE  Inv'
<1> USE PoolConstants, LoadKept
        DEF Inv, Shapes, NamesOK, ColdOK, LeaseOK, HandedOK, EndingOK, LeasableAlive,
            CellOwned, Owned, Starting, Untouched, BarrierHeld, HoldsPermit,
            NoPool, NoInst, NoCold, NoReq, NoUnreg
<1>1. CASE UnregisterNext
  BY <1>1 DEF UnregisterNext, Enqueue
<1>2. CASE UnregisterCancel
  BY <1>2 DEF UnregisterCancel
<1> QED BY <1>1, <1>2

(* mark_dead and the drains of the autoscaler.                             *)
LEMMA HandingKeepsInv ==
  ASSUME Inv, NEW c \in CellIds,
         MarkDead(c) \/ MarkDeadEnqueue(c) \/ DrainEnqueue(c)
         \/ DrainRemove(c)
  PROVE  Inv'
<1> USE PoolConstants, LoadKept
        DEF Inv, Shapes, NamesOK, ColdOK, LeaseOK, HandedOK, EndingOK, LeasableAlive,
            CellOwned, Owned, Starting, Untouched, BarrierHeld, HoldsPermit,
            NoPool, NoInst, NoCold, NoReq, NoUnreg
<1>1. CASE MarkDead(c)
  BY <1>1 DEF MarkDead, Count
<1>2. CASE MarkDeadEnqueue(c)
  BY <1>2 DEF MarkDeadEnqueue, Enqueue
<1>3. CASE DrainEnqueue(c)
  BY <1>3 DEF DrainEnqueue, Enqueue
<1>4. CASE DrainRemove(c)
  BY <1>4 DEF DrainRemove
<1> QED BY <1>1, <1>2, <1>3, <1>4

(* lease, with a slot or with a cold start.                                *)
LEMMA LeaseKeepsInv ==
  ASSUME Inv, NEW k \in Keys, NEW r \in Requests,
         LeaseReady(r, k) \/ LeaseColdStart(r, k)
  PROVE  Inv'
<1> USE PoolConstants, LoadKept
        DEF Inv, Shapes, NamesOK, ColdOK, LeaseOK, HandedOK, EndingOK, LeasableAlive,
            CellOwned, Owned, Starting, Untouched, BarrierHeld, HoldsPermit,
            NoPool, NoInst, NoCold, NoReq, NoUnreg
<1>1. CASE LeaseReady(r, k)
  <2>1. NoPhantomLoad'
    BY <1>1, LeaseKeepsLoad
  <2>2. (Shapes /\ NamesOK /\ ColdOK /\ LeaseOK /\ HandedOK /\ EndingOK
         /\ LeasableAlive /\ CellOwned)'
    BY <1>1 DEF LeaseReady, ShuttingDown, Leasable, Serving, InstancesOf
  <2> QED BY <2>1, <2>2
<1>2. CASE LeaseColdStart(r, k)
  BY <1>2 DEF LeaseColdStart, ShuttingDown, Fresh
<1> QED BY <1>1, <1>2

(* Lease::drop.                                                            *)
LEMMA ReleaseKeepsInv ==
  ASSUME Inv, NEW r \in Requests,
         Release(r)
  PROVE  Inv'
<1> USE PoolConstants, LoadKept
        DEF Inv, Shapes, NamesOK, ColdOK, LeaseOK, HandedOK, EndingOK, LeasableAlive,
            CellOwned, Owned, Starting, Untouched, BarrierHeld, HoldsPermit,
            NoPool, NoInst, NoCold, NoReq, NoUnreg
<1>1. CASE Release(r)
  <2>1. NoPhantomLoad'
    BY <1>1, ReleaseKeepsLoad
  <2>2. (Shapes /\ NamesOK /\ ColdOK /\ LeaseOK /\ HandedOK /\ EndingOK
         /\ LeasableAlive /\ CellOwned)'
    BY <1>1 DEF Release, SatSub
  <2> QED BY <2>1, <2>2
<1> QED BY <1>1

(* A cold start, with every way it can end.                                *)
LEMMA ColdStartKeepsInv ==
  ASSUME Inv, NEW c \in CellIds,
         ColdAdmit(c) \/ ColdRefused(c) \/ ColdProvisioned(c)
         \/ ColdEnds(c) \/ ColdPublish(c) \/ KeepWarmReset(c)
  PROVE  Inv'
<1> USE PoolConstants, LoadKept
        DEF Inv, Shapes, NamesOK, ColdOK, LeaseOK, HandedOK, EndingOK, LeasableAlive,
            CellOwned, Owned, Starting, Untouched, BarrierHeld, HoldsPermit,
            NoPool, NoInst, NoCold, NoReq, NoUnreg
<1>1. CASE ColdAdmit(c)
  BY <1>1 DEF ColdAdmit, ShuttingDown
<1>2. CASE ColdRefused(c)
  BY <1>2 DEF ColdRefused, Abandon, Unreserve, SatSub
<1>3. CASE ColdProvisioned(c)
  BY <1>3 DEF ColdProvisioned
<1>4. CASE ColdEnds(c)
  BY <1>4 DEF ColdEnds, Abandon, Unreserve, SatSub, DropUnpublished, Enqueue
<1>5. CASE ColdPublish(c)
  <2>1. NoPhantomLoad'
    BY <1>5, PublishKeepsLoad
  <2>2. (Shapes /\ NamesOK /\ ColdOK /\ LeaseOK /\ HandedOK /\ EndingOK
         /\ LeasableAlive /\ CellOwned)'
    BY <1>5 DEF ColdPublish, Unreserve, SatSub
  <2> QED BY <2>1, <2>2
<1>6. CASE KeepWarmReset(c)
  <2>1. NoPhantomLoad'
    BY <1>6, ResetKeepsLoad
  <2>2. (Shapes /\ NamesOK /\ ColdOK /\ LeaseOK /\ HandedOK /\ EndingOK
         /\ LeasableAlive /\ CellOwned)'
    BY <1>6 DEF KeepWarmReset
  <2> QED BY <2>1, <2>2
<1> QED BY <1>1, <1>2, <1>3, <1>4, <1>5, <1>6

(* The autoscaler.                                                         *)
LEMMA AutoscalingKeepsInv ==
  ASSUME Inv,
         Reconcile \/ ReconcileDone
  PROVE  Inv'
<1> USE PoolConstants, LoadKept
        DEF Inv, Shapes, NamesOK, ColdOK, LeaseOK, HandedOK, EndingOK, LeasableAlive,
            CellOwned, Owned, Starting, Untouched, BarrierHeld, HoldsPermit,
            NoPool, NoInst, NoCold, NoReq, NoUnreg
<1>1. CASE Reconcile
  BY <1>1, ReconcileKeepsInv
<1>2. CASE ReconcileDone
  BY <1>2 DEF ReconcileDone
<1> QED BY <1>1, <1>2

(* shutdown.                                                               *)
LEMMA ShutdownKeepsInv ==
  ASSUME Inv,
         ShutdownBegin \/ ShutdownAborted \/ ShutdownBarrier
         \/ ShutdownBarrierTimeout \/ ShutdownDetach \/ ShutdownStopWorker
         \/ ShutdownJoined \/ ShutdownJoinTimeout \/ ShutdownTerminate
         \/ ShutdownRound
  PROVE  Inv'
<1> USE PoolConstants, LoadKept
        DEF Inv, Shapes, NamesOK, ColdOK, LeaseOK, HandedOK, EndingOK, LeasableAlive,
            CellOwned, Owned, Starting, Untouched, BarrierHeld, HoldsPermit,
            NoPool, NoInst, NoCold, NoReq, NoUnreg
<1>1. CASE ShutdownBegin
  BY <1>1 DEF ShutdownBegin
<1>2. CASE ShutdownAborted
  BY <1>2 DEF ShutdownAborted
<1>3. CASE ShutdownBarrier
  BY <1>3 DEF ShutdownBarrier, BarrierFree
<1>4. CASE ShutdownBarrierTimeout
  BY <1>4 DEF ShutdownBarrierTimeout
<1>5. CASE ShutdownDetach
  BY <1>5 DEF ShutdownDetach
<1>6. CASE ShutdownStopWorker
  BY <1>6 DEF ShutdownStopWorker
<1>7. CASE ShutdownJoined
  BY <1>7 DEF ShutdownJoined, Pending
<1>8. CASE ShutdownJoinTimeout
  BY <1>8 DEF ShutdownJoinTimeout
<1>9. CASE ShutdownTerminate
  BY <1>9 DEF ShutdownTerminate, AnswerWaiters, Count
<1>10. CASE ShutdownRound
  BY <1>10 DEF ShutdownRound, Pending
<1> QED BY <1>1, <1>2, <1>3, <1>4, <1>5, <1>6, <1>7, <1>8, <1>9, <1>10

-----------------------------------------------------------------------------
(* Every step keeps the invariant. *)
LEMMA NextKeepsInv == Inv /\ [Next]_vars => Inv'
<1> SUFFICES ASSUME Inv, [Next]_vars PROVE Inv'
  OBVIOUS
<1>1. CASE Managing
  BY <1>1, RegistryKeepsInv, UnregisterKeepsInv, HandingKeepsInv, ShutdownKeepsInv DEF Managing
<1>2. CASE Serve
  BY <1>2, LeaseKeepsInv, ReleaseKeepsInv DEF Serve
<1>3. CASE UnregisterNext
  BY <1>3, UnregisterKeepsInv
<1>4. ASSUME NEW c \in CellIds, ColdStart(c) \/ Handing(c) PROVE Inv'
  BY <1>4, ColdStartKeepsInv, HandingKeepsInv DEF ColdStart, Handing
<1>5. CASE Worker
  BY <1>5, WorkerKeepsInv DEF Worker
<1>6. CASE Autoscaling
  BY <1>6, AutoscalingKeepsInv DEF Autoscaling
<1>7. CASE Shutdown
  BY <1>7, ShutdownKeepsInv DEF Shutdown
<1>8. CASE UNCHANGED vars
  BY <1>8 DEF vars, Inv, Shapes, NamesOK, ColdOK, LeaseOK, HandedOK, EndingOK, LeasableAlive,
       CellOwned, Owned, Starting, Untouched, BarrierHeld, HoldsPermit, NoPhantomLoad, Leases
<1> QED BY <1>1, <1>2, <1>3, <1>4, <1>5, <1>6, <1>7, <1>8 DEF Next

(* An empty registry with nothing in the backend. *)
LEMMA InitEstablishesInv == Init => Inv
<1> SUFFICES ASSUME Init PROVE Inv
  OBVIOUS
<1> USE PoolConstants DEF Init
<1>1. Shapes
  BY DEF Shapes, NoInst, NoCold, NoReq, NoUnreg
<1>2. NamesOK /\ ColdOK /\ LeaseOK /\ HandedOK /\ EndingOK
  BY DEF NamesOK, ColdOK, LeaseOK, HandedOK, EndingOK, Starting, Untouched, BarrierHeld,
         NoInst, NoCold, NoReq, NoUnreg
<1>3. NoPhantomLoad /\ LeasableAlive /\ CellOwned
  BY DEF NoPhantomLoad, LeasableAlive, CellOwned, NoInst
<1> QED BY <1>1, <1>2, <1>3 DEF Inv

(* The invariant holds in every reachable state. *)
LEMMA InvHolds == Spec => []Inv
BY InitEstablishesInv, NextKeepsInv, PTL DEF Spec

-----------------------------------------------------------------------------
(* What the registry offers to a request is alive and not on its way to     *)
(* termination, and its load is never overstated, however leases, keep-warm *)
(* resets, drains, dead instances and shutdown interleave (decide_lease).   *)
THEOREM LeasesSoundCorrect == Spec => []LeasesSound
<1>1. Inv => LeasesSound
  BY DEF Inv, LeasesSound
<1> QED BY <1>1, InvHolds, PTL

(* Every cell of the backend has an owner that will see to its end, or was  *)
(* lost with a dropped unregister_many: the guards of a cold start, the     *)
(* registry, the terminating map and the callers that move cells between    *)
(* them leave no gap.                                                       *)
THEOREM CellOwnedCorrect == Spec => []CellOwned
<1>1. Inv => CellOwned
  BY DEF Inv
<1> QED BY <1>1, InvHolds, PTL

(* A shutdown that reports success has terminated every cell but those in   *)
(* the hands of a concurrent call (shutdown): the barrier excludes cold     *)
(* starts between their backend calls and the registry is empty, so what is *)
(* owned is in the terminating map, which it found empty.                   *)
THEOREM ShutdownCompleteCorrect == Spec => ShutdownComplete
<1>1. Inv /\ [Next]_vars => (sd.pc # "ok" /\ sd'.pc = "ok" => alive' \subseteq hand \cup unreg.todo \cup used.lost)
  <2> SUFFICES ASSUME Inv, [Next]_vars, sd.pc # "ok", sd'.pc = "ok"
               PROVE  alive' \subseteq hand \cup unreg.todo \cup used.lost
    OBVIOUS
  <2> USE DEF Inv, Shapes
  <2>1. ShutdownJoined \/ ShutdownRound
    <3>1. sd' # sd
      OBVIOUS
    <3>2. CASE Managing
      BY <3>1, <3>2 DEF Managing, Register, Unregister, SetMinInstances, SetSafeConcurrency,
           UpdateConfig, UnregisterCancel, MarkDead, ShutdownBegin
    <3>3. CASE Serve \/ UnregisterNext
      BY <3>1, <3>3 DEF Serve, Release, LeaseReady, LeaseColdStart, UnregisterNext
    <3>4. ASSUME NEW c \in CellIds, ColdStart(c) \/ Handing(c) PROVE FALSE
      BY <3>1, <3>4 DEF ColdStart, ColdAdmit, ColdRefused, ColdProvisioned, ColdEnds, ColdPublish,
           KeepWarmReset, Handing, MarkDeadEnqueue, DrainEnqueue, DrainRemove
    <3>5. CASE Worker \/ Autoscaling
      BY <3>1, <3>5 DEF Worker, WorkerAwait, WorkerWoken, WorkerPick, WorkerNothing,
           WorkerTerminated, WorkerFailed, Autoscaling, Reconcile, ReconcileDone
    <3>6. CASE Shutdown
      BY <3>6 DEF Shutdown, ShutdownAborted, ShutdownBarrier, ShutdownBarrierTimeout,
           ShutdownDetach, ShutdownStopWorker, ShutdownJoinTimeout, ShutdownTerminate
    <3> QED BY <3>1, <3>2, <3>3, <3>4, <3>5, <3>6 DEF Next, vars
  <2>2. sd.pc \in {"join", "drain"} /\ Pending = {} /\ alive' = alive
    <3>1. CASE ShutdownJoined
      BY <3>1 DEF ShutdownJoined
    <3>2. CASE ShutdownRound
      <4>1. CASE Pending = {}
        BY <3>2, <4>1 DEF ShutdownRound
      <4>2. CASE Pending # {} /\ sd.attempt = 0
        <5>1. sd' = [sd EXCEPT !.attempt = 1, !.todo = Pending]
          BY <3>2, <4>2 DEF ShutdownRound
        <5> QED BY <3>2, <5>1 DEF ShutdownRound
      <4>3. CASE Pending # {} /\ sd.attempt = 1
        <5>1. sd' = [sd EXCEPT !.pc = "err"]
          BY <3>2, <4>3 DEF ShutdownRound
        <5> QED BY <3>2, <5>1
      <4> QED BY <4>1, <4>2, <4>3
    <3> QED BY <2>1, <3>1, <3>2
  <2>3. ASSUME NEW c \in alive PROVE c \in hand \cup unreg.todo \cup used.lost
    <3>1. inst[c].key = None /\ cold[c].pc # "start" /\ term[c] = "none"
      BY <2>2 DEF EndingOK, BarrierHeld, HoldsPermit, Pending
    <3> QED BY <3>1 DEF CellOwned, Owned
  <2> QED BY <2>2, <2>3
<1> QED BY <1>1, InvHolds, PTL DEF Spec, ShutdownComplete

-----------------------------------------------------------------------------
(*****************************************************************************)
(* 2. Types                                                                  *)
(*****************************************************************************)

(* The records of the registry and of the tasks, and TypeOK in parts that a *)
(* step leaves alone or not.                                                *)
PoolRec == [reg : BOOLEAN, provisioning : Nat, min : Nat, max : Nat, safe : 1 .. MaxConcurrency]
InstRec == [key : Keys \cup {None}, inflight : Nat, draining : BOOLEAN, served : BOOLEAN]
ColdRec == [pc : {"none", "admit", "provision", "start", "reset"},
            key : Keys \cup {None}, by : Requests \cup {"warm", None}]
ReqRec == [key : Keys \cup {None}, cell : CellIds \cup {None}]

PoolsTyped == pools \in [Keys -> PoolRec]
InstTyped == inst \in [CellIds -> InstRec]
Homed == \A c \in CellIds : inst[c].key # None => pools[inst[c].key].reg
ColdTyped == cold \in [CellIds -> ColdRec] /\ \A c \in CellIds : cold[c].pc # "none" => cold[c].key \in Keys
ReqTyped == req \in [Requests -> ReqRec]
CellsTyped == alive \subseteq CellIds /\ hand \subseteq CellIds /\ permit \in BOOLEAN
UnregTyped == unreg \in [todo : SUBSET CellIds, wait : CellIds \cup {None}]
TermTyped == term \in [CellIds -> {"none", "queued", "busy"}]
DrainTyped == drain \in [CellIds -> {"none", "enqueue", "wait", "remove"}]
WorkerTyped == /\ worker \in [pc : {"top", "wait", "scan", "busy", "stopped"}, cell : CellIds \cup {None}]
               /\ worker.pc = "busy" => worker.cell \in CellIds
SdTyped == /\ auto \in {"sleep", "join", "aborted"}
           /\ sd \in [pc : {"running", "abort", "barrier", "detach", "stop", "join", "drain",
                     "ok", "err", "timeout"}, attempt : {0, 1}, todo : SUBSET CellIds]
UsedTyped == used \in [cells : SUBSET CellIds, lost : SUBSET CellIds, registers : [Keys -> Nat],
                  unregisters : Nat, cancels : Nat, dead : Nat, failures : Nat]

Parts == /\ PoolsTyped /\ InstTyped /\ Homed /\ ColdTyped /\ ReqTyped /\ CellsTyped /\ UnregTyped
         /\ TermTyped /\ DrainTyped /\ WorkerTyped /\ SdTyped /\ UsedTyped

(* The parts are TypeOK. *)
LEMMA TypeParts == Parts <=> TypeOK
BY DEF Parts, TypeOK, PoolsTyped, InstTyped, Homed, ColdTyped, ReqTyped, CellsTyped, UnregTyped,
       TermTyped, DrainTyped, WorkerTyped, SdTyped, UsedTyped, PoolRec, InstRec, ColdRec, ReqRec

(* A part stays when its variables do. *)
LEMMA PartsKept ==
  ASSUME Parts
  PROVE  /\ UNCHANGED pools => PoolsTyped'
         /\ UNCHANGED inst => InstTyped'
         /\ UNCHANGED <<pools, inst>> => Homed'
         /\ UNCHANGED cold => ColdTyped'
         /\ UNCHANGED req => ReqTyped'
         /\ UNCHANGED <<alive, hand, permit>> => CellsTyped'
         /\ UNCHANGED unreg => UnregTyped'
         /\ UNCHANGED term => TermTyped'
         /\ UNCHANGED drain => DrainTyped'
         /\ UNCHANGED worker => WorkerTyped'
         /\ UNCHANGED <<auto, sd>> => SdTyped'
         /\ UNCHANGED used => UsedTyped'
BY DEF Parts, PoolsTyped, InstTyped, Homed, ColdTyped, ReqTyped, CellsTyped, UnregTyped,
       TermTyped, DrainTyped, WorkerTyped, SdTyped, UsedTyped

(* Any set of cells can be counted.                                         *)
LEMMA CellsFinite ==
  ASSUME NEW S \in SUBSET CellIds
  PROVE  IsFiniteSet(S) /\ Cardinality(S) \in Nat
<1>1. 1 \in Int /\ NCells \in Int
  BY PoolConstants
<1>2. IsFiniteSet(1 .. NCells)
  BY <1>1, FS_Interval
<1>3. IsFiniteSet(CellIds)
  BY <1>2 DEF CellIds
<1> QED BY <1>3, FS_Subset, FS_CardinalityType

(* What the helpers of several actions do to the parts. *)
LEMMA Counted ==
  ASSUME UsedTyped, NEW what \in {"unregisters", "dead", "failures", "cancels"}, Count(what)
  PROVE UsedTyped'
BY DEF Count, UsedTyped

LEMMA Answered ==
  ASSUME UnregTyped, DrainTyped, NEW c, AnswerWaiters(c)
  PROVE UnregTyped' /\ DrainTyped'
BY DEF AnswerWaiters, UnregTyped, DrainTyped

LEMMA Enqueued ==
  ASSUME TermTyped, NEW c, Enqueue(c)
  PROVE TermTyped' /\ permit' = TRUE
BY DEF Enqueue, TermTyped

(* register_many, the settings of a pool, and unregister_many's first half. *)
LEMMA ManagingKeepsParts ==
  ASSUME Parts, NEW k \in Keys,
         Register(k) \/ Unregister(k) \/ SetMinInstances(k) \/ SetSafeConcurrency(k) \/ UpdateConfig(k)
  PROVE  Parts'
<1> USE PoolConstants
<1>1. CASE Register(k)
  <2>1. PoolsTyped'
    <3>0. PICK cfg \in Configs :
            pools' = [pools EXCEPT ![k] = [NoPool EXCEPT !.reg = TRUE, !.min = cfg.min, !.max = cfg.max]]
      BY <1>1 DEF Register
    <3>1. MaxConcurrency \in 1 .. MaxConcurrency /\ cfg.min \in Nat /\ cfg.max \in Nat
      OBVIOUS
    <3>2. [NoPool EXCEPT !.reg = TRUE, !.min = cfg.min, !.max = cfg.max] \in PoolRec
      BY <3>1 DEF NoPool, PoolRec
    <3> QED BY <3>0, <3>2 DEF Parts, PoolsTyped
  <2>2. InstTyped'
    BY <1>1 DEF Parts, Register, InstRec, InstTyped
  <2>3. Homed'
    <3>1. pools'[k].reg /\ \A j \in Keys \ {k} : pools'[j] = pools[j]
      BY <1>1 DEF Parts, Register, NoPool, PoolsTyped
    <3>2. \A c \in CellIds : inst'[c].key = inst[c].key
      BY <1>1 DEF Parts, Register, InstRec, InstTyped
    <3> QED BY <3>1, <3>2 DEF Parts, Homed, InstRec, InstTyped
  <2>4. UsedTyped'
    <3>1. used' = [used EXCEPT !.registers[k] = @ + 1]
      BY <1>1 DEF Register
    <3> QED BY <3>1 DEF Parts, UsedTyped
  <2> QED BY <1>1, <2>1, <2>2, <2>3, <2>4, PartsKept DEF Register, Parts
<1>2. CASE Unregister(k)
  <2>1. PoolsTyped'
    BY <1>2 DEF Parts, Unregister, NoPool, PoolRec, PoolsTyped
  <2>2. InstTyped'
    BY <1>2 DEF Parts, Unregister, InstRec, InstTyped, NoInst
  <2>3. Homed'
    BY <1>2 DEF Parts, Unregister, Homed, InstRec, InstTyped, NoInst, NoPool, PoolRec, PoolsTyped
  <2>4. UnregTyped'
    BY <1>2 DEF Parts, Unregister, InstancesOf, NoUnreg, UnregTyped
  <2>5. UsedTyped'
    BY <1>2, Counted DEF Parts, Unregister, InstRec, InstTyped
  <2> QED BY <1>2, <2>1, <2>2, <2>3, <2>4, <2>5, PartsKept DEF Unregister, Parts
<1>3. CASE SetMinInstances(k)
  <2>1. PoolsTyped'
    BY <1>3 DEF Parts, SetMinInstances, NoPool, PoolRec, PoolsTyped
  <2>2. Homed'
    BY <1>3 DEF Parts, SetMinInstances, Homed, InstRec, InstTyped, NoPool, PoolRec, PoolsTyped
  <2> QED BY <1>3, <2>1, <2>2, PartsKept DEF SetMinInstances, Parts
<1>4. CASE SetSafeConcurrency(k)
  <2>1. PoolsTyped'
    BY <1>4 DEF Parts, SetSafeConcurrency, NoPool, PoolRec, PoolsTyped
  <2>2. Homed'
    BY <1>4 DEF Parts, SetSafeConcurrency, Homed, InstRec, InstTyped, NoPool, PoolRec, PoolsTyped
  <2> QED BY <1>4, <2>1, <2>2, PartsKept DEF SetSafeConcurrency, Parts
<1>5. CASE UpdateConfig(k)
  <2>1. PoolsTyped'
    <3>0. PICK cfg \in Configs, n \in 1 .. MaxConcurrency :
            pools' = [pools EXCEPT ![k].min = cfg.min, ![k].max = cfg.max, ![k].safe = n]
      BY <1>5 DEF UpdateConfig
    <3>1. cfg.min \in Nat /\ cfg.max \in Nat
      OBVIOUS
    <3>2. [pools[k] EXCEPT !.min = cfg.min, !.max = cfg.max, !.safe = n] \in PoolRec
      BY <3>1 DEF Parts, PoolsTyped, PoolRec
    <3>3. pools' = [pools EXCEPT ![k] = [pools[k] EXCEPT !.min = cfg.min, !.max = cfg.max, !.safe = n]]
      BY <3>0 DEF Parts, PoolsTyped
    <3> QED BY <3>2, <3>3 DEF Parts, PoolsTyped
  <2>2. Homed'
    <3>1. inst' = inst /\ \A j \in Keys : pools'[j].reg = pools[j].reg
      BY <1>5 DEF Parts, UpdateConfig, PoolRec, PoolsTyped
    <3> QED BY <3>1 DEF Parts, Homed, InstRec, InstTyped
  <2> QED BY <1>5, <2>1, <2>2, PartsKept DEF UpdateConfig, Parts
<1> QED BY <1>1, <1>2, <1>3, <1>4, <1>5

(* The rest of unregister_many. *)
LEMMA UnregisterKeepsParts ==
  ASSUME Parts, UnregisterNext \/ UnregisterCancel
  PROVE  Parts'
<1> USE PoolConstants
<1>1. CASE UnregisterNext
  <2>1. UnregTyped'
    BY <1>1 DEF Parts, UnregisterNext, UnregTyped
  <2>2. TermTyped' /\ permit' = TRUE
    BY <1>1, Enqueued DEF Parts, UnregisterNext, TermTyped
  <2>3. CellsTyped'
    BY <1>1, <2>2 DEF Parts, UnregisterNext, CellsTyped
  <2> QED BY <1>1, <2>1, <2>2, <2>3, PartsKept DEF UnregisterNext, Parts
<1>2. CASE UnregisterCancel
  <2>1. UnregTyped'
    BY <1>2 DEF Parts, UnregisterCancel, NoUnreg, UnregTyped
  <2>2. UsedTyped'
    <3>1. used' = [used EXCEPT !.cancels = used.cancels + 1, !.lost = used.lost \cup unreg.todo]
      BY <1>2 DEF UnregisterCancel, Parts, UsedTyped
    <3>2. unreg.todo \in SUBSET CellIds
      BY DEF Parts, UnregTyped
    <3>3. used.cancels + 1 \in Nat /\ used.lost \cup unreg.todo \in SUBSET CellIds
      BY <3>2 DEF Parts, UsedTyped
    <3> QED BY <3>1, <3>3 DEF Parts, UsedTyped
  <2> QED BY <1>2, <2>1, <2>2, PartsKept DEF UnregisterCancel, Parts
<1> QED BY <1>1, <1>2

(* mark_dead and the autoscaler's drains. *)
LEMMA HandingKeepsParts ==
  ASSUME Parts, NEW c \in CellIds,
         MarkDead(c) \/ MarkDeadEnqueue(c)
         \/ DrainEnqueue(c) \/ DrainRemove(c)
  PROVE  Parts'
<1> USE PoolConstants
<1>1. CASE MarkDead(c)
  <2>1. InstTyped'
    BY <1>1 DEF Parts, MarkDead, InstRec, InstTyped, NoInst
  <2>2. Homed'
    BY <1>1 DEF Parts, MarkDead, Homed, InstRec, InstTyped, NoInst
  <2>3. CellsTyped'
    BY <1>1 DEF Parts, MarkDead, CellsTyped
  <2>4. UsedTyped'
    BY <1>1, Counted DEF Parts, MarkDead, InstRec, InstTyped
  <2> QED BY <1>1, <2>1, <2>2, <2>3, <2>4, PartsKept DEF MarkDead, Parts
<1>2. CASE MarkDeadEnqueue(c)
  <2>1. TermTyped' /\ permit' = TRUE
    BY <1>2, Enqueued DEF Parts, MarkDeadEnqueue, TermTyped
  <2>2. CellsTyped'
    BY <1>2, <2>1 DEF Parts, MarkDeadEnqueue, CellsTyped
  <2> QED BY <1>2, <2>1, <2>2, PartsKept DEF MarkDeadEnqueue, Parts
<1>3. CASE DrainEnqueue(c)
  <2>1. DrainTyped'
    BY <1>3 DEF Parts, DrainEnqueue, DrainTyped
  <2>2. TermTyped' /\ permit' = TRUE
    BY <1>3, Enqueued DEF Parts, DrainEnqueue, TermTyped
  <2>3. CellsTyped'
    BY <1>3, <2>2 DEF Parts, DrainEnqueue, CellsTyped
  <2> QED BY <1>3, <2>1, <2>2, <2>3, PartsKept DEF DrainEnqueue, Parts
<1>4. CASE DrainRemove(c)
  <2>1. DrainTyped'
    BY <1>4 DEF Parts, DrainRemove, DrainTyped
  <2>2. InstTyped'
    BY <1>4 DEF Parts, DrainRemove, InstRec, InstTyped, NoInst
  <2>3. Homed'
    BY <1>4 DEF Parts, DrainRemove, Homed, InstRec, InstTyped, NoInst
  <2> QED BY <1>4, <2>1, <2>2, <2>3, PartsKept DEF DrainRemove, Parts
<1> QED BY <1>1, <1>2, <1>3, <1>4

(* termination_loop *)
LEMMA WorkerKeepsParts ==
  ASSUME Parts,
         WorkerAwait \/ WorkerWoken \/ WorkerPick \/ WorkerNothing \/ WorkerTerminated \/ WorkerFailed
  PROVE  Parts'
<1> USE PoolConstants
<1>1. CASE WorkerAwait
  <2>1. WorkerTyped'
    BY <1>1 DEF Parts, WorkerAwait, WorkerTyped
  <2> QED BY <1>1, <2>1, PartsKept DEF WorkerAwait, Parts
<1>2. CASE WorkerWoken
  <2>1. WorkerTyped'
    BY <1>2 DEF Parts, WorkerWoken, WorkerTyped
  <2>2. CellsTyped'
    BY <1>2 DEF Parts, WorkerWoken, CellsTyped
  <2> QED BY <1>2, <2>1, <2>2, PartsKept DEF WorkerWoken, Parts
<1>3. CASE WorkerPick
  <2>1. WorkerTyped' /\ TermTyped'
    BY <1>3 DEF Parts, WorkerPick, TermTyped, WorkerTyped
  <2> QED BY <1>3, <2>1, PartsKept DEF WorkerPick, Parts
<1>4. CASE WorkerNothing
  <2>1. WorkerTyped'
    BY <1>4 DEF Parts, WorkerNothing, WorkerTyped
  <2> QED BY <1>4, <2>1, PartsKept DEF WorkerNothing, Parts
<1>5. CASE WorkerTerminated
  <2>1. WorkerTyped' /\ TermTyped'
    BY <1>5 DEF Parts, WorkerTerminated, TermTyped, WorkerTyped
  <2>2. CellsTyped'
    BY <1>5 DEF Parts, WorkerTerminated, CellsTyped
  <2>3. UnregTyped' /\ DrainTyped'
    BY <1>5, Answered DEF Parts, WorkerTerminated, WorkerTyped
  <2> QED BY <1>5, <2>1, <2>2, <2>3, PartsKept DEF WorkerTerminated, Parts
<1>6. CASE WorkerFailed
  <2>1. WorkerTyped' /\ TermTyped'
    BY <1>6 DEF Parts, WorkerFailed, TermTyped, WorkerTyped
  <2>2. UnregTyped' /\ DrainTyped'
    BY <1>6, Answered DEF Parts, WorkerFailed, WorkerTyped
  <2>3. UsedTyped'
    BY <1>6, Counted DEF Parts, WorkerFailed, WorkerTyped
  <2> QED BY <1>6, <2>1, <2>2, <2>3, PartsKept DEF WorkerFailed, Parts
<1> QED BY <1>1, <1>2, <1>3, <1>4, <1>5, <1>6

(* lease *)
LEMMA LeasesKeepParts ==
  ASSUME Parts, NEW r \in Requests, NEW k \in Keys,
         LeaseReady(r, k) \/ LeaseColdStart(r, k)
  PROVE  Parts'
<1> USE PoolConstants
<1>1. CASE LeaseReady(r, k)
  <2>1. InstTyped'
    <3>1. PICK c \in CellIds : inst' = [inst EXCEPT ![c].inflight = @ + 1]
      BY <1>1 DEF LeaseReady, Leasable, Serving, InstancesOf
    <3> QED BY <3>1 DEF Parts, InstTyped, InstRec
  <2>2. ReqTyped'
    <3>1. PICK c \in CellIds : req' = [req EXCEPT ![r] = [key |-> k, cell |-> c]]
      BY <1>1 DEF LeaseReady, Leasable, Serving, InstancesOf
    <3> QED BY <3>1 DEF Parts, ReqTyped, ReqRec
  <2>3. Homed'
    BY <1>1 DEF Parts, LeaseReady, Homed, InstRec, InstTyped
  <2> QED BY <1>1, <2>1, <2>2, <2>3, PartsKept DEF LeaseReady, Parts
<1>2. CASE LeaseColdStart(r, k)
  <2>1. PoolsTyped'
    BY <1>2 DEF Parts, LeaseColdStart, NoPool, PoolRec, PoolsTyped
  <2>2. ColdTyped'
    BY <1>2 DEF Parts, LeaseColdStart, ColdRec, ColdTyped
  <2>3. UsedTyped'
    BY <1>2 DEF Parts, LeaseColdStart, UsedTyped
  <2>4. ReqTyped'
    BY <1>2 DEF Parts, LeaseColdStart, ReqRec, ReqTyped
  <2>5. Homed'
    BY <1>2 DEF Parts, LeaseColdStart, Homed, InstRec, InstTyped, NoPool, PoolRec, PoolsTyped
  <2> QED BY <1>2, <2>1, <2>2, <2>3, <2>4, <2>5, PartsKept DEF LeaseColdStart, Parts
<1> QED BY <1>1, <1>2

(* Lease::drop *)
LEMMA ReleaseKeepsParts ==
  ASSUME Parts, NEW r \in Requests, Release(r)
  PROVE  Parts'
<1> USE PoolConstants
<1>1. CASE Release(r)
  <2>1. InstTyped'
    <3>1. CASE inst' = inst
      BY <3>1 DEF Parts, InstTyped
    <3>2. CASE inst' # inst
      <4>1. inst' = [inst EXCEPT ![req[r].cell] = [@ EXCEPT !.inflight = SatSub(inst[req[r].cell].inflight, 1),
                                                           !.served = TRUE]]
        BY <1>1, <3>2 DEF Release
      <4>2. req[r].cell \in CellIds
        BY <1>1 DEF Release, Parts, ReqTyped, ReqRec
      <4>3. SatSub(inst[req[r].cell].inflight, 1) \in Nat
        BY <4>2 DEF SatSub, Parts, InstTyped, InstRec
      <4> QED BY <4>1, <4>2, <4>3 DEF Parts, InstTyped, InstRec
    <3> QED BY <3>1, <3>2
  <2>2. ReqTyped'
    BY <1>1 DEF Parts, Release, NoReq, ReqRec, ReqTyped
  <2>3. Homed'
    <3>1. ASSUME NEW c \in CellIds PROVE inst'[c].key = inst[c].key
      BY <1>1 DEF Release, Parts, InstTyped, InstRec
    <3> QED BY <1>1, <3>1 DEF Release, Parts, Homed
  <2> QED BY <1>1, <2>1, <2>2, <2>3, PartsKept DEF Release, Parts
<1> QED BY <1>1

(* A cold start publishes only into a pool that is there.                   *)
LEMMA ColdStartsKeepParts ==
  ASSUME Parts, NEW c \in CellIds, ColdStart(c)
  PROVE  Parts'
<1> USE PoolConstants
<1>1. CASE ColdAdmit(c)
  <2>1. ColdTyped'
    BY <1>1 DEF Parts, ColdAdmit, ColdRec, ColdTyped
  <2> QED BY <1>1, <2>1, PartsKept DEF ColdAdmit, Parts
<1>2. CASE ColdRefused(c)
  <2>1. PoolsTyped'
    BY <1>2 DEF Parts, ColdRefused, Abandon, ColdRec, ColdTyped, PoolRec, PoolsTyped, SatSub,
       Unreserve
  <2>2. ColdTyped'
    BY <1>2 DEF Parts, ColdRefused, Abandon, ColdRec, ColdTyped, NoCold
  <2>3. ReqTyped'
    BY <1>2 DEF Parts, ColdRefused, Abandon, NoReq, ReqRec, ReqTyped
  <2>4. Homed'
    BY <1>2 DEF Parts, ColdRefused, Abandon, ColdRec, ColdTyped, Homed, InstRec, InstTyped,
       PoolRec, PoolsTyped, Unreserve
  <2> QED BY <1>2, <2>1, <2>2, <2>3, <2>4, PartsKept DEF ColdRefused, Parts
<1>3. CASE ColdProvisioned(c)
  <2>1. ColdTyped'
    BY <1>3 DEF Parts, ColdProvisioned, ColdRec, ColdTyped
  <2>2. CellsTyped'
    BY <1>3 DEF Parts, ColdProvisioned, CellsTyped
  <2> QED BY <1>3, <2>1, <2>2, PartsKept DEF ColdProvisioned, Parts
<1>4. CASE ColdEnds(c)
  <2>1. PoolsTyped'
    BY <1>4 DEF Parts, ColdEnds, Abandon, ColdRec, ColdTyped, PoolRec, PoolsTyped, SatSub,
       Unreserve
  <2>2. ColdTyped'
    BY <1>4 DEF Parts, ColdEnds, Abandon, ColdRec, ColdTyped, NoCold
  <2>3. ReqTyped'
    BY <1>4 DEF Parts, ColdEnds, Abandon, NoReq, ReqRec, ReqTyped
  <2>4. Homed'
    BY <1>4 DEF Parts, ColdEnds, Abandon, ColdRec, ColdTyped, Homed, InstRec, InstTyped,
       PoolRec, PoolsTyped, Unreserve
  <2>5. TermTyped' /\ permit' \in BOOLEAN
    BY <1>4, Enqueued DEF Parts, ColdEnds, CellsTyped, DropUnpublished, TermTyped
  <2>6. CellsTyped'
    BY <1>4, <2>5 DEF Parts, ColdEnds, CellsTyped
  <2> QED BY <1>4, <2>1, <2>2, <2>3, <2>4, <2>5, <2>6, PartsKept DEF ColdEnds, Parts
<1>5. CASE ColdPublish(c)
  <2>1. PoolsTyped'
    BY <1>5 DEF Parts, ColdPublish, ColdRec, ColdTyped, PoolRec, PoolsTyped, SatSub, Unreserve
  <2>2. InstTyped'
    BY <1>5 DEF Parts, ColdPublish, ColdRec, ColdTyped, InstRec, InstTyped, NoInst
  <2>3. ColdTyped'
    BY <1>5 DEF Parts, ColdPublish, ColdRec, ColdTyped, NoCold
  <2>4. ReqTyped'
    BY <1>5 DEF Parts, ColdPublish, ColdRec, ColdTyped, ReqRec, ReqTyped
  <2>5. Homed'
    BY <1>5 DEF Parts, ColdPublish, ColdRec, ColdTyped, Homed, InstRec, InstTyped, NoInst,
       PoolRec, PoolsTyped, Unreserve
  <2> QED BY <1>5, <2>1, <2>2, <2>3, <2>4, <2>5, PartsKept DEF ColdPublish, Parts
<1>6. CASE KeepWarmReset(c)
  <2>1. InstTyped'
    BY <1>6 DEF Parts, KeepWarmReset, InstRec, InstTyped
  <2>2. ColdTyped'
    BY <1>6 DEF Parts, KeepWarmReset, ColdRec, ColdTyped, NoCold
  <2>3. Homed'
    BY <1>6 DEF Parts, KeepWarmReset, Homed, InstRec, InstTyped
  <2> QED BY <1>6, <2>1, <2>2, <2>3, PartsKept DEF KeepWarmReset, Parts
<1> QED BY <1>1, <1>2, <1>3, <1>4, <1>5, <1>6 DEF ColdStart

(* shutdown; it empties the registry with the pools.                        *)
LEMMA ShutdownKeepsParts ==
  ASSUME Parts, ShutdownBegin \/ Shutdown
  PROVE  Parts'
<1> USE PoolConstants
<1>1. CASE ShutdownBegin
  <2>1. SdTyped'
    BY <1>1 DEF Parts, ShutdownBegin, SdTyped
  <2> QED BY <1>1, <2>1, PartsKept DEF ShutdownBegin, Parts
<1>2. CASE ShutdownAborted
  <2>1. SdTyped' /\ DrainTyped'
    BY <1>2 DEF Parts, ShutdownAborted, DrainTyped, SdTyped
  <2> QED BY <1>2, <2>1, PartsKept DEF ShutdownAborted, Parts
<1>3. CASE ShutdownBarrier
  <2>1. SdTyped'
    BY <1>3 DEF Parts, ShutdownBarrier, SdTyped
  <2> QED BY <1>3, <2>1, PartsKept DEF ShutdownBarrier, Parts
<1>4. CASE ShutdownBarrierTimeout
  <2>1. SdTyped' /\ WorkerTyped'
    BY <1>4 DEF Parts, ShutdownBarrierTimeout, SdTyped, WorkerTyped
  <2> QED BY <1>4, <2>1, PartsKept DEF ShutdownBarrierTimeout, Parts
<1>5. CASE ShutdownDetach
  <2>1. SdTyped'
    BY <1>5 DEF Parts, ShutdownDetach, SdTyped
  <2>2. PoolsTyped'
    BY <1>5 DEF Parts, ShutdownDetach, NoPool, PoolRec, PoolsTyped
  <2>3. InstTyped' /\ Homed'
    BY <1>5 DEF Parts, ShutdownDetach, Homed, InstRec, InstTyped, NoInst
  <2>4. TermTyped'
    BY <1>5 DEF Parts, ShutdownDetach, TermTyped
  <2> QED BY <1>5, <2>1, <2>2, <2>3, <2>4, PartsKept DEF ShutdownDetach, Parts
<1>6. CASE ShutdownStopWorker
  <2>1. SdTyped' /\ CellsTyped'
    BY <1>6 DEF Parts, ShutdownStopWorker, CellsTyped, SdTyped
  <2> QED BY <1>6, <2>1, PartsKept DEF ShutdownStopWorker, Parts
<1>7. CASE ShutdownJoined
  <2>1. SdTyped'
    BY <1>7 DEF Parts, ShutdownJoined, Pending, SdTyped
  <2> QED BY <1>7, <2>1, PartsKept DEF ShutdownJoined, Parts
<1>8. CASE ShutdownJoinTimeout
  <2>1. SdTyped' /\ WorkerTyped'
    BY <1>8 DEF Parts, ShutdownJoinTimeout, SdTyped, WorkerTyped
  <2> QED BY <1>8, <2>1, PartsKept DEF ShutdownJoinTimeout, Parts
<1>9. CASE ShutdownTerminate
  <2>1. SdTyped'
    BY <1>9 DEF Parts, ShutdownTerminate, SdTyped
  <2>2. TermTyped' /\ CellsTyped'
    BY <1>9 DEF Parts, ShutdownTerminate, CellsTyped, TermTyped
  <2>3. UnregTyped' /\ DrainTyped'
    BY <1>9, Answered DEF Parts, ShutdownTerminate, TermTyped
  <2>4. UsedTyped'
    BY <1>9, Counted, PartsKept DEF Parts, ShutdownTerminate, TermTyped
  <2> QED BY <1>9, <2>1, <2>2, <2>3, <2>4, PartsKept DEF ShutdownTerminate, Parts
<1>10. CASE ShutdownRound
  <2>1. SdTyped'
    BY <1>10 DEF Parts, ShutdownRound, Pending, SdTyped
  <2> QED BY <1>10, <2>1, PartsKept DEF ShutdownRound, Parts
<1> QED BY <1>1, <1>2, <1>3, <1>4, <1>5, <1>6, <1>7, <1>8, <1>9, <1>10 DEF Shutdown

(* adapt_concurrency: aimd_step stays within 1 .. max_concurrency.          *)
LEMMA ReconcileDoneKeepsParts ==
  ASSUME Parts, ReconcileDone
  PROVE  Parts'
<1>1. PICK safe \in [Keys -> UNION {AimdSteps(pools[k].safe) : k \in Keys}] :
         /\ \A k \in Keys : IF pools[k].reg /\ Serving(k) # {} THEN safe[k] \in AimdSteps(pools[k].safe)
                            ELSE safe[k] = pools[k].safe
         /\ pools' = [k \in Keys |-> [pools[k] EXCEPT !.safe = safe[k]]]
  BY DEF ReconcileDone
<1>2. \A k \in Keys : safe[k] \in 1 .. MaxConcurrency
  <2> SUFFICES ASSUME NEW k \in Keys PROVE safe[k] \in 1 .. MaxConcurrency
    OBVIOUS
  <2>1. pools[k].safe \in 1 .. MaxConcurrency /\ MaxConcurrency \in Nat
    BY PoolConstants DEF Parts, PoolsTyped, PoolRec
  <2>2. AimdSteps(pools[k].safe) \subseteq 1 .. MaxConcurrency
    BY <2>1 DEF AimdSteps
  <2>3. safe[k] \in AimdSteps(pools[k].safe) \/ safe[k] = pools[k].safe
    BY <1>1
  <2> QED BY <2>1, <2>2, <2>3
<1>3. PoolsTyped'
  BY <1>1, <1>2 DEF Parts, PoolsTyped, PoolRec
<1>4. \A k \in Keys : pools'[k].reg = pools[k].reg
  BY <1>1 DEF Parts, PoolsTyped, PoolRec
<1>5. Homed'
  BY <1>4 DEF Parts, Homed, InstTyped, InstRec, ReconcileDone
<1>6. SdTyped'
  BY DEF Parts, SdTyped, ReconcileDone
<1> QED BY <1>3, <1>5, <1>6, PartsKept DEF Parts, ReconcileDone

(* reconcile *)
LEMMA ReconcileKeepsParts ==
  ASSUME Parts, Reconcile
  PROVE  Parts'
<1>1. PICK warm \in WarmPlans : \E S : Carry(warm, S)
  BY DEF Reconcile
<1>1a. PICK S : Carry(warm, S)
  BY <1>1
<1>2. PICK T \in SUBSET CellIds : warm \in [T -> {k \in Registered : Shortfall(k) > 0}]
  BY DEF WarmPlans
<1>3. DOMAIN warm \subseteq CellIds /\ \A c \in DOMAIN warm : warm[c] \in Keys
  BY <1>2 DEF Registered
<1>4. ASSUME NEW k \in Keys PROVE Cardinality({c \in DOMAIN warm : warm[c] = k}) \in Nat
  <2>1. {c \in DOMAIN warm : warm[c] = k} \in SUBSET CellIds
    BY <1>3
  <2> QED BY <2>1, CellsFinite
<1>5. /\ pools' = [k \in Keys |-> [pools[k] EXCEPT
                   !.provisioning = @ + Cardinality({c \in DOMAIN warm : warm[c] = k})]]
      /\ cold' = [c \in CellIds |-> IF c \notin DOMAIN warm THEN cold[c]
                                  ELSE [pc |-> "admit", key |-> warm[c], by |-> "warm"]]
      /\ used' = [used EXCEPT !.cells = @ \cup DOMAIN warm]
      /\ inst' = [c \in CellIds |-> IF c \in S THEN [inst[c] EXCEPT !.draining = TRUE] ELSE inst[c]]
  BY <1>1a DEF Carry, MarkDraining
<1>6. PoolsTyped' /\ \A k \in Keys : pools'[k].reg = pools[k].reg
  <2> DEFINE n == [k \in Keys |-> Cardinality({c \in DOMAIN warm : warm[c] = k})]
  <2>1. n \in [Keys -> Nat] /\ pools' = [k \in Keys |-> [pools[k] EXCEPT !.provisioning = @ + n[k]]]
    BY <1>4, <1>5
  <2> HIDE DEF n
  <2> QED BY <2>1 DEF Parts, PoolsTyped, PoolRec
<1>7. ColdTyped'
  BY <1>3, <1>5 DEF Parts, ColdTyped, ColdRec
<1>8. InstTyped' /\ \A c \in CellIds : inst'[c].key = inst[c].key
  BY <1>5 DEF Parts, InstTyped, InstRec
<1>9. Homed'
  BY <1>6, <1>8 DEF Parts, Homed, InstTyped, InstRec
<1>10. UsedTyped' /\ DrainTyped' /\ SdTyped'
  BY <1>1a, <1>3, <1>5 DEF Parts, UsedTyped, DrainTyped, SdTyped, Carry, Reconcile
<1> QED BY <1>6, <1>7, <1>8, <1>9, <1>10, PartsKept DEF Parts, Reconcile

(* Every step keeps the types. *)
LEMMA NextKeepsParts == Parts /\ [Next]_vars => Parts'
<1> SUFFICES ASSUME Parts, [Next]_vars PROVE Parts'
  OBVIOUS
<1>1. CASE Managing
  BY <1>1, ManagingKeepsParts, UnregisterKeepsParts, HandingKeepsParts, ShutdownKeepsParts DEF
     Managing
<1>2. CASE Serve
  BY <1>2, LeasesKeepParts, ReleaseKeepsParts DEF Serve
<1>3. CASE UnregisterNext \/ \E c \in CellIds : Handing(c)
  BY <1>3, UnregisterKeepsParts, HandingKeepsParts DEF Handing
<1>4. CASE \E c \in CellIds : ColdStart(c)
  BY <1>4, ColdStartsKeepParts
<1>5. CASE Worker \/ Autoscaling \/ Shutdown
  BY <1>5, WorkerKeepsParts, ReconcileKeepsParts, ReconcileDoneKeepsParts, ShutdownKeepsParts
     DEF Autoscaling, Worker
<1>6. CASE UNCHANGED vars
  BY <1>6, PartsKept DEF Parts, vars
<1> QED BY <1>1, <1>2, <1>3, <1>4, <1>5, <1>6 DEF Next

(* Every reachable state of the pools is well typed: no count goes below    *)
(* zero, the safe concurrency stays between 1 and max_concurrency and an    *)
(* instance belongs to a registered pool.                                   *)
THEOREM TypeCorrect == Spec => []TypeOK
<1>1. Init => Parts
  <2> SUFFICES ASSUME Init PROVE Parts
    OBVIOUS
  <2> USE PoolConstants DEF Init
  <2>1. PoolsTyped /\ InstTyped /\ Homed
    BY DEF PoolsTyped, InstTyped, Homed, PoolRec, InstRec, NoPool, NoInst
  <2>2. ColdTyped /\ ReqTyped
    BY DEF ColdTyped, ReqTyped, ColdRec, ReqRec, NoCold, NoReq
  <2>3. CellsTyped /\ UnregTyped /\ TermTyped /\ DrainTyped /\ WorkerTyped /\ SdTyped /\ UsedTyped
    BY DEF CellsTyped, UnregTyped, TermTyped, DrainTyped, WorkerTyped, SdTyped, UsedTyped, NoUnreg
  <2> QED BY <2>1, <2>2, <2>3 DEF Parts
<1> QED BY <1>1, NextKeepsParts, TypeParts, PTL DEF Spec

-----------------------------------------------------------------------------
(*****************************************************************************)
(* 3. The accounts                                                           *)
(*****************************************************************************)

-----------------------------------------------------------------------------
(* The invariant, key by key. *)

PoolShape(k) ==
    /\ DOMAIN pools[k] = DOMAIN NoPool
    /\ pools[k].provisioning \in Nat /\ pools[k].min \in Nat /\ pools[k].max \in Nat
    /\ used.registers[k] \in Nat

(* Nothing carries the key before its first registration, and nothing is    *)
(* reserved or serving while it is not registered.                          *)
KeyOK(k) ==
    /\ used.registers[k] = 0 => ~pools[k].reg /\ \A c \in CellIds : cold[c].key # k
    /\ ~pools[k].reg => pools[k].provisioning = 0 /\ \A c \in CellIds : inst[c].key # k

Exact(k) ==
    used.registers[k] = 1 /\ pools[k].reg => pools[k].provisioning = Cardinality(ColdStarts(k))

(* What a step may do to the size of one pool.                              *)
Within(k) ==
    used.registers[k] = 1 /\ LiveCount(k)' > LiveCount(k) =>
        \/ LiveCount(k)' <= pools[k].max
        \/ auto = "sleep" /\ auto' = "join" /\ LiveCount(k)' <= pools[k].min

Account(k) == PoolShape(k) /\ KeyOK(k) /\ Exact(k)

Accounts ==
    /\ DOMAIN pools = Keys /\ DOMAIN used.registers = Keys
    /\ \A k \in Keys : Account(k)

(* What is shown of every step.                                             *)
InOrder == Accounts' /\ GrowsWithinLimits

LEMMA SetsOfAKey ==
  ASSUME NEW k
  PROVE  /\ Serving(k) \in SUBSET CellIds /\ Serving(k)' \in SUBSET CellIds
         /\ ColdStarts(k) \in SUBSET CellIds /\ ColdStarts(k)' \in SUBSET CellIds
         /\ Cardinality(Serving(k)) \in Nat /\ Cardinality(Serving(k)') \in Nat
         /\ Cardinality(ColdStarts(k)) \in Nat /\ Cardinality(ColdStarts(k)') \in Nat
<1>1. /\ Serving(k) \in SUBSET CellIds /\ Serving(k)' \in SUBSET CellIds
      /\ ColdStarts(k) \in SUBSET CellIds /\ ColdStarts(k)' \in SUBSET CellIds
  BY DEF Serving, InstancesOf, ColdStarts
<1> QED BY <1>1, CellsFinite

(* Instances of k may leave rotation, no cold start of k begins or ends and *)
(* its reservations stay: its account stays in order.                       *)
LEMMA AccountKept ==
  ASSUME NEW k \in Keys, Account(k), PoolShape(k)',
         used'.registers[k] = used.registers[k],
         pools'[k].reg = pools[k].reg, pools'[k].provisioning = pools[k].provisioning,
         \A c \in CellIds : /\ cold'[c].key = k /\ cold'[c].pc # "reset"
                               <=> cold[c].key = k /\ cold[c].pc # "reset"
                            /\ cold'[c].key = k => cold[c].key = k
                            /\ inst'[c].key = k => inst[c].key = k
                            /\ inst'[c].key = k /\ inst[c].draining => inst'[c].draining
  PROVE  Account(k)' /\ Within(k)
<1>1. ColdStarts(k)' = ColdStarts(k)
  BY DEF ColdStarts
<1>2. Serving(k)' \in SUBSET Serving(k)
  BY DEF Serving, InstancesOf
<1>3. Cardinality(Serving(k)') <= Cardinality(Serving(k))
  BY <1>2, SetsOfAKey, CellsFinite, FS_Subset
<1>4. LiveCount(k)' <= LiveCount(k) /\ LiveCount(k)' \in Nat /\ LiveCount(k) \in Nat
  BY <1>3, SetsOfAKey DEF LiveCount, Account, PoolShape
<1>5. Exact(k)'
  BY <1>1 DEF Account, Exact
<1>6. KeyOK(k)'
  BY DEF Account, KeyOK
<1> QED BY <1>4, <1>5, <1>6 DEF Account, Within

(* A key without a pool has nothing to account for.                         *)
LEMMA NoPoolNoAccount ==
  ASSUME NEW k \in Keys, Account(k), pools'[k] = NoPool,
         used'.registers[k] = used.registers[k],
         \A c \in CellIds : cold'[c].key = k => cold[c].key = k,
         \A c \in CellIds : inst'[c].key # k
  PROVE  Account(k)' /\ Within(k)
<1>1. Serving(k)' = {}
  BY DEF Serving, InstancesOf
<1>2. LiveCount(k)' = 0 /\ LiveCount(k) \in Nat
  BY <1>1, SetsOfAKey, FS_EmptySet DEF LiveCount, NoPool, Account, PoolShape
<1>3. Within(k)
  BY <1>2 DEF Within
<1> QED BY <1>3, PoolConstants DEF Account, PoolShape, KeyOK, Exact, NoPool

-----------------------------------------------------------------------------
(* register_many: the first registration of a key finds nothing of it.      *)
LEMMA RegisterKeepsAccounts ==
  ASSUME Inv, Accounts, NEW k \in Keys, Register(k)
  PROVE  InOrder
<1> USE PoolConstants DEF Inv, Shapes, Accounts, NoPool, NoInst, NoCold
<1>0. PICK cfg \in Configs :
        pools' = [pools EXCEPT ![k] = [NoPool EXCEPT !.reg = TRUE, !.min = cfg.min, !.max = cfg.max]]
  BY DEF Register
<1>1. /\ used' = [used EXCEPT !.registers[k] = @ + 1] /\ cold' = cold
      /\ pools'[k] = [NoPool EXCEPT !.reg = TRUE, !.min = cfg.min, !.max = cfg.max]
      /\ DOMAIN pools' = Keys /\ \A j \in Keys \ {k} : pools'[j] = pools[j]
      /\ inst' = [c \in CellIds |-> IF inst[c].key = k THEN [inst[c] EXCEPT !.draining = TRUE]
                                                     ELSE inst[c]]
  BY <1>0 DEF Register
<1>2. \A c \in CellIds : inst'[c].key = inst[c].key
  BY <1>1
<1>3. Account(k)' /\ Within(k)
  <2>1. Serving(k)' = {}
    BY <1>1 DEF Serving, InstancesOf
  <2>2. LiveCount(k)' = 0 /\ LiveCount(k) \in Nat
    BY <1>1, <2>1, SetsOfAKey, FS_EmptySet DEF LiveCount, Account, PoolShape
  <2>3. used'.registers[k] = used.registers[k] + 1 /\ used.registers[k] \in Nat
    BY <1>1 DEF Account, PoolShape
  <2>4. used.registers[k] = 0 => ColdStarts(k)' = {}
    BY <1>1 DEF Account, KeyOK, ColdStarts
  <2>5. pools'[k].provisioning = 0 /\ pools'[k].reg
    BY <1>1
  <2>6. Exact(k)'
    <3> SUFFICES ASSUME used'.registers[k] = 1
                 PROVE  pools'[k].provisioning = Cardinality(ColdStarts(k)')
      BY DEF Exact
    <3>1. used.registers[k] = 0
      BY <2>3
    <3>2. Cardinality(ColdStarts(k)') = 0
      BY <2>4, <3>1, FS_EmptySet
    <3> QED BY <2>5, <3>2
  <2>7. PoolShape(k)' /\ KeyOK(k)'
    BY <1>1, <2>3 DEF PoolShape, KeyOK
  <2>8. Within(k)
    BY <2>2 DEF Within
  <2> QED BY <2>6, <2>7, <2>8 DEF Account
<1>4. ASSUME NEW j \in Keys, j # k PROVE Account(j)' /\ Within(j)
  <2>1. pools'[j] = pools[j] /\ used'.registers[j] = used.registers[j]
    BY <1>1, <1>4
  <2>2. \A c \in CellIds : inst'[c].key = j => inst'[c] = inst[c]
    BY <1>1, <1>2, <1>4
  <2> QED BY <1>1, <2>1, <2>2, AccountKept DEF Account, PoolShape
<1> QED BY <1>1, <1>3, <1>4 DEF InOrder, GrowsWithinLimits, Within

(* unregister_many takes the pool and its instances out.                    *)
LEMMA UnregisterKeepsAccounts ==
  ASSUME Inv, Accounts, NEW k \in Keys, Unregister(k)
  PROVE  InOrder
<1> USE PoolConstants DEF Inv, Shapes, Accounts, NoInst, NoCold
<1>1. /\ used'.registers = used.registers /\ cold' = cold
      /\ pools' = [pools EXCEPT ![k] = NoPool]
      /\ inst' = [c \in CellIds |-> IF inst[c].key = k THEN NoInst ELSE inst[c]]
  BY DEF Unregister, Count
<1>2. Account(k)' /\ Within(k)
  BY <1>1, NoPoolNoAccount
<1>3. ASSUME NEW j \in Keys, j # k PROVE Account(j)' /\ Within(j)
  BY <1>1, <1>3, AccountKept DEF Account, PoolShape
<1> QED BY <1>1, <1>2, <1>3 DEF InOrder, GrowsWithinLimits, Within

(* A reservation under the lock, for a request.                             *)
LEMMA ReserveKeepsAccounts ==
  ASSUME Inv, Accounts, NEW r \in Requests, NEW k \in Keys, LeaseColdStart(r, k)
  PROVE  InOrder
<1> USE PoolConstants DEF Inv, Shapes, Accounts, NoPool, NoInst, NoCold
<1>1. PICK c \in CellIds :
        /\ Fresh({c})
        /\ cold' = [cold EXCEPT ![c] = [pc |-> "admit", key |-> k, by |-> r]]
        /\ used' = [used EXCEPT !.cells = @ \cup {c}]
  BY DEF LeaseColdStart
<1>2. /\ pools' = [pools EXCEPT ![k].provisioning = @ + 1] /\ inst' = inst
      /\ pools[k].reg /\ LiveCount(k) < pools[k].max
  BY DEF LeaseColdStart, Admissible
<1>3. cold[c].key = None
  BY <1>1 DEF Fresh, NamesOK, ColdOK
<1>4. Account(k)' /\ Within(k)
  <2>1. pools'[k].provisioning = pools[k].provisioning + 1 /\ PoolShape(k)'
    BY <1>1, <1>2 DEF Account, PoolShape
  <2>2. ColdStarts(k)' = ColdStarts(k) \cup {c} /\ c \notin ColdStarts(k)
    BY <1>1, <1>3 DEF ColdStarts
  <2>3. IsFiniteSet(ColdStarts(k))
    BY SetsOfAKey, CellsFinite
  <2>4. Cardinality(ColdStarts(k) \cup {c}) = Cardinality(ColdStarts(k)) + 1
    BY <2>2, <2>3, FS_AddElement
  <2>5. Serving(k)' = Serving(k)
    BY <1>2 DEF Serving, InstancesOf
  <2>6. LiveCount(k)' = LiveCount(k) + 1 /\ LiveCount(k) \in Nat
    BY <2>1, <2>5, SetsOfAKey DEF LiveCount, Account, PoolShape
  <2>7. Exact(k)'
    BY <1>1, <1>2, <2>1, <2>2, <2>4 DEF Account, Exact
  <2>8. KeyOK(k)'
    BY <1>1, <1>2, <2>1 DEF Account, KeyOK
  <2>9. Within(k)
    <3>1. pools[k].max \in Nat
      BY DEF Account, PoolShape
    <3> QED BY <1>2, <2>6, <3>1 DEF Within
  <2> QED BY <2>1, <2>7, <2>8, <2>9 DEF Account
<1>5. ASSUME NEW j \in Keys, j # k PROVE Account(j)' /\ Within(j)
  BY <1>1, <1>2, <1>3, <1>5, AccountKept DEF Account, PoolShape
<1> QED BY <1>1, <1>2, <1>4, <1>5 DEF InOrder, GrowsWithinLimits, Within

(* ColdStartGuard::drop gives back what the cold start held, for a failure  *)
(* and for a success.                                                       *)
LEMMA UnreserveExact ==
  ASSUME Inv, Accounts, NEW c \in CellIds, cold[c].pc \in {"admit", "provision", "start"},
         NEW k \in Keys, k = cold[c].key, Unreserve(k),
         \A d \in CellIds \ {c} : cold'[d] = cold[d],
         cold'[c].key = None \/ cold'[c].pc = "reset"
  PROVE  /\ DOMAIN pools' = Keys /\ \A j \in Keys \ {k} : pools'[j] = pools[j]
         /\ DOMAIN pools'[k] = DOMAIN NoPool
         /\ pools'[k].reg = pools[k].reg /\ pools'[k].min = pools[k].min /\ pools'[k].max = pools[k].max
         /\ pools'[k].provisioning \in Nat
         /\ pools'[k].provisioning <= pools[k].provisioning
         /\ ~pools[k].reg => pools'[k] = pools[k]
         /\ pools[k].reg /\ used.registers[k] = 1 =>
                /\ pools[k].provisioning = pools'[k].provisioning + 1
                /\ pools'[k].provisioning = Cardinality(ColdStarts(k)')
<1> USE PoolConstants DEF Accounts, Account, PoolShape, NoPool
<1>1. c \in ColdStarts(k) /\ ColdStarts(k)' = ColdStarts(k) \ {c}
  BY DEF ColdStarts
<1>2. IsFiniteSet(ColdStarts(k))
  BY SetsOfAKey, CellsFinite
<1>3. Cardinality(ColdStarts(k) \ {c}) = Cardinality(ColdStarts(k)) - 1
  BY <1>1, <1>2, FS_RemoveElement
<1>4. Cardinality(ColdStarts(k)) \in Nat /\ Cardinality(ColdStarts(k)) # 0
  BY <1>1, <1>2, SetsOfAKey, FS_EmptySet
<1>5. pools' = IF pools[k].reg
               THEN [pools EXCEPT ![k].provisioning = SatSub(pools[k].provisioning, 1)] ELSE pools
  BY DEF Unreserve
<1>6. /\ SatSub(pools[k].provisioning, 1) \in Nat
      /\ SatSub(pools[k].provisioning, 1) <= pools[k].provisioning
      /\ pools[k].provisioning # 0 => pools[k].provisioning = SatSub(pools[k].provisioning, 1) + 1
  BY DEF SatSub
<1>7. pools[k].reg /\ used.registers[k] = 1 => pools[k].provisioning = Cardinality(ColdStarts(k))
  BY DEF Exact
<1> HIDE DEF SatSub
<1> QED BY <1>1, <1>3, <1>4, <1>5, <1>6, <1>7

(* A cold start that ends without an instance.                              *)
LEMMA AbandonKeepsAccounts ==
  ASSUME Inv, Accounts, NEW c \in CellIds, ColdRefused(c) \/ ColdEnds(c)
  PROVE  InOrder
<1> USE PoolConstants DEF Inv, Shapes, NoInst, NoCold
<1>1. /\ cold[c].pc \in {"admit", "provision", "start"} /\ Unreserve(cold[c].key)
      /\ cold' = [cold EXCEPT ![c] = NoCold] /\ UNCHANGED <<inst, used>>
  BY DEF ColdRefused, ColdEnds, Abandon
<1>2. PICK k \in Keys : k = cold[c].key
  BY <1>1 DEF ColdOK
<1>3. /\ DOMAIN pools' = Keys /\ \A j \in Keys \ {k} : pools'[j] = pools[j]
      /\ DOMAIN pools'[k] = DOMAIN NoPool
      /\ pools'[k].reg = pools[k].reg /\ pools'[k].min = pools[k].min /\ pools'[k].max = pools[k].max
      /\ pools'[k].provisioning \in Nat
      /\ pools'[k].provisioning <= pools[k].provisioning
      /\ ~pools[k].reg => pools'[k] = pools[k]
      /\ pools[k].reg /\ used.registers[k] = 1 =>
             pools'[k].provisioning = Cardinality(ColdStarts(k)')
  BY <1>1, <1>2, UnreserveExact
<1>4. Account(k)' /\ Within(k)
  <2>1. Serving(k)' = Serving(k)
    BY <1>1 DEF Serving, InstancesOf
  <2>2. LiveCount(k)' <= LiveCount(k) /\ LiveCount(k)' \in Nat /\ LiveCount(k) \in Nat
    BY <1>3, <2>1, SetsOfAKey DEF LiveCount, Accounts, Account, PoolShape
  <2>3. Exact(k)'
    BY <1>1, <1>3 DEF Accounts, Account, Exact
  <2>4. PoolShape(k)' /\ KeyOK(k)'
    BY <1>1, <1>3 DEF Accounts, Account, PoolShape, KeyOK
  <2>5. Within(k)
    BY <2>2 DEF Within
  <2> QED BY <2>3, <2>4, <2>5 DEF Account
<1>5. ASSUME NEW j \in Keys, j # k PROVE Account(j)' /\ Within(j)
  BY <1>1, <1>2, <1>3, <1>5, AccountKept DEF Accounts, Account, PoolShape
<1> QED BY <1>1, <1>3, <1>4, <1>5 DEF Accounts, InOrder, GrowsWithinLimits, Within

(* A cold start that succeeds: its reservation becomes the instance.        *)
LEMMA PublishKeepsAccounts ==
  ASSUME Inv, Accounts, NEW c \in CellIds, ColdPublish(c)
  PROVE  InOrder
<1> USE PoolConstants DEF Inv, Shapes, NoInst, NoCold
<1>1. PICK k \in Keys : k = cold[c].key
  BY DEF ColdPublish, ColdOK
<1>2. /\ cold[c].pc = "start" /\ Unreserve(k) /\ pools[k].reg /\ used' = used
      /\ inst' = [inst EXCEPT ![c] = [NoInst EXCEPT !.key = k, !.inflight = 1]]
      /\ cold' = [cold EXCEPT ![c] = IF @.by = "warm" THEN [@ EXCEPT !.pc = "reset"] ELSE NoCold]
  BY <1>1 DEF ColdPublish
<1>3. /\ \A d \in CellIds \ {c} : cold'[d] = cold[d]
      /\ cold'[c].key \in {k, None}
      /\ cold'[c].key = None \/ cold'[c].pc = "reset"
  BY <1>1, <1>2
<1>4. /\ DOMAIN pools' = Keys /\ \A j \in Keys \ {k} : pools'[j] = pools[j]
      /\ DOMAIN pools'[k] = DOMAIN NoPool
      /\ pools'[k].reg = pools[k].reg /\ pools'[k].min = pools[k].min /\ pools'[k].max = pools[k].max
      /\ pools'[k].provisioning \in Nat
      /\ pools'[k].provisioning <= pools[k].provisioning
      /\ ~pools[k].reg => pools'[k] = pools[k]
      /\ pools[k].reg /\ used.registers[k] = 1 =>
             /\ pools[k].provisioning = pools'[k].provisioning + 1
             /\ pools'[k].provisioning = Cardinality(ColdStarts(k)')
  <2>1. cold[c].pc \in {"admit", "provision", "start"}
    BY <1>2
  <2>2. Unreserve(k) /\ k = cold[c].key
    BY <1>1, <1>2
  <2>3. \A d \in CellIds \ {c} : cold'[d] = cold[d]
    BY <1>3
  <2>4. cold'[c].key = None \/ cold'[c].pc = "reset"
    BY <1>3
  <2> HIDE DEF Inv, Shapes, NoCold
  <2> QED BY <2>1, <2>2, <2>3, <2>4, UnreserveExact
<1>5. inst[c].key = None
  BY <1>2 DEF NamesOK, Starting, Untouched
<1>6. Account(k)' /\ Within(k)
  <2>1. Serving(k)' = Serving(k) \cup {c} /\ c \notin Serving(k)
    BY <1>2, <1>5 DEF Serving, InstancesOf
  <2>2. IsFiniteSet(Serving(k))
    BY SetsOfAKey, CellsFinite
  <2>3. Cardinality(Serving(k) \cup {c}) = Cardinality(Serving(k)) + 1
    BY <2>1, <2>2, FS_AddElement
  <2>4. used.registers[k] = 1 => LiveCount(k)' = LiveCount(k) /\ LiveCount(k) \in Nat
    BY <1>2, <1>4, <2>1, <2>3, SetsOfAKey DEF LiveCount
  <2>5. Exact(k)'
    BY <1>2, <1>4 DEF Accounts, Account, Exact
  <2>6. PoolShape(k)' /\ KeyOK(k)'
    BY <1>1, <1>2, <1>4 DEF Accounts, Account, PoolShape, KeyOK
  <2>7. Within(k)
    BY <2>4 DEF Within
  <2> QED BY <2>5, <2>6, <2>7 DEF Account
<1>7. ASSUME NEW j \in Keys, j # k PROVE Account(j)' /\ Within(j)
  BY <1>1, <1>2, <1>3, <1>4, <1>5, <1>7, AccountKept DEF Accounts, Account, PoolShape
<1> QED BY <1>2, <1>4, <1>6, <1>7 DEF Accounts, InOrder, GrowsWithinLimits, Within

(* A decision of the autoscaler: k is given no cold start, or exactly what  *)
(* it falls short of its minimum.                                           *)
LEMMA ReconcileKeepsAccounts ==
  ASSUME Inv, Accounts, Reconcile
  PROVE  InOrder
<1> USE PoolConstants DEF Inv, Shapes, NoInst, NoCold
<1> DEFINE Given(warm, k) == {c \in DOMAIN warm : warm[c] = k}
<1>1. PICK warm \in WarmPlans, S \in SUBSET CellIds : Carry(warm, S)
  BY DEF Reconcile, InRotation, Serving, InstancesOf
<1>2. PICK T \in SUBSET CellIds :
        /\ Fresh(T) /\ warm \in [T -> {k \in Registered : Shortfall(k) > 0}]
        /\ \A k \in Registered : Cardinality({c \in T : warm[c] = k}) \in {0, Shortfall(k)}
  BY DEF WarmPlans
<1>3. /\ pools' = [k \in Keys |-> [pools[k] EXCEPT !.provisioning = @ + Cardinality(Given(warm, k))]]
      /\ cold' = [c \in CellIds |-> IF c \notin DOMAIN warm THEN cold[c]
                                    ELSE [pc |-> "admit", key |-> warm[c], by |-> "warm"]]
      /\ used' = [used EXCEPT !.cells = @ \cup DOMAIN warm]
      /\ inst' = [c \in CellIds |-> IF c \in S THEN [inst[c] EXCEPT !.draining = TRUE] ELSE inst[c]]
  BY <1>1 DEF Carry, MarkDraining
<1>4. DOMAIN warm = T /\ \A c \in T : cold[c].key = None /\ warm[c] \in Registered
  BY <1>2 DEF Fresh, NamesOK, ColdOK
<1>5. \A k \in Keys : Given(warm, k) \in SUBSET CellIds /\ Cardinality(Given(warm, k)) \in Nat
  BY <1>2, <1>4, CellsFinite
<1>6. ASSUME NEW k \in Keys PROVE Account(k)' /\ Within(k)
  <2> DEFINE G == Given(warm, k)
  <2>1. /\ pools'[k].provisioning = pools[k].provisioning + Cardinality(G)
        /\ pools'[k].reg = pools[k].reg /\ pools'[k].min = pools[k].min /\ pools'[k].max = pools[k].max
        /\ DOMAIN pools'[k] = DOMAIN NoPool /\ used'.registers = used.registers
    BY <1>3 DEF Accounts, Account, PoolShape, NoPool
  <2>2. ColdStarts(k)' = ColdStarts(k) \cup G /\ ColdStarts(k) \cap G = {}
    BY <1>2, <1>3, <1>4 DEF ColdStarts
  <2>3. Cardinality(ColdStarts(k) \cup G) = Cardinality(ColdStarts(k)) + Cardinality(G)
    <3>1. IsFiniteSet(ColdStarts(k)) /\ IsFiniteSet(G)
      BY <1>5, SetsOfAKey, CellsFinite
    <3>2. Cardinality(ColdStarts(k) \cap G) = 0
      BY <2>2, FS_EmptySet
    <3>3. Cardinality(ColdStarts(k) \cup G)
            = Cardinality(ColdStarts(k)) + Cardinality(G) - Cardinality(ColdStarts(k) \cap G)
      BY <3>1, FS_Union
    <3>4. Cardinality(ColdStarts(k)) \in Nat /\ Cardinality(G) \in Nat
      BY <1>5, SetsOfAKey
    <3> HIDE DEF G
    <3> QED BY <3>2, <3>3, <3>4
  <2>4. Serving(k)' \in SUBSET Serving(k)
    BY <1>3 DEF Serving, InstancesOf
  <2>5. Cardinality(Serving(k)') <= Cardinality(Serving(k))
    BY <2>4, SetsOfAKey, CellsFinite, FS_Subset
  <2>6. LiveCount(k)' <= LiveCount(k) + Cardinality(G) /\ LiveCount(k)' \in Nat /\ LiveCount(k) \in Nat
    BY <1>5, <2>1, <2>5, SetsOfAKey DEF LiveCount, Accounts, Account, PoolShape
  <2>7. G = {} \/ (k \in Registered /\ Cardinality(G) \in {0, Shortfall(k)})
    <3>1. G = {c \in T : warm[c] = k}
      BY <1>4
    <3>2. G # {} => k \in Registered
      BY <1>4, <3>1
    <3>3. k \in Registered => Cardinality({c \in T : warm[c] = k}) \in {0, Shortfall(k)}
      BY <1>2
    <3>4. CASE G = {}
      BY <3>4
    <3>5. CASE G # {}
      <4>1. k \in Registered
        BY <3>2, <3>5
      <4>2. Cardinality(G) \in {0, Shortfall(k)}
        BY <3>1, <3>3, <4>1, Zenon
      <4> QED BY <4>1, <4>2
    <3> QED BY <3>4, <3>5
  <2>8. Within(k)
    <3>1. CASE Cardinality(G) = 0
      BY <2>6, <3>1 DEF Within
    <3>2. CASE Cardinality(G) = Shortfall(k) /\ Shortfall(k) # 0
      <4>1. pools[k].min \in Nat
        BY DEF Accounts, Account, PoolShape
      <4>2. LiveCount(k) + Shortfall(k) = pools[k].min
        BY <2>6, <3>2, <4>1 DEF Shortfall, SatSub
      <4>3. auto = "sleep" /\ auto' = "join"
        BY DEF Reconcile
      <4> HIDE DEF G
      <4> QED BY <2>6, <3>2, <4>1, <4>2, <4>3 DEF Within
    <3> QED BY <2>7, <3>1, <3>2, FS_EmptySet
  <2>9. Exact(k)'
    BY <2>1, <2>2, <2>3 DEF Accounts, Account, Exact
  <2>10. KeyOK(k)'
    <3>1. G # {} => pools[k].reg
      BY <2>7 DEF Registered
    <3>2. ~pools[k].reg => Cardinality(G) = 0
      BY <3>1, FS_EmptySet
    <3>3. \A c \in CellIds : /\ inst'[c].key = inst[c].key
                             /\ cold'[c].key = k => cold[c].key = k \/ c \in G
      BY <1>3
    <3> QED BY <2>1, <3>1, <3>2, <3>3 DEF Accounts, Account, KeyOK, PoolShape
  <2>11. PoolShape(k)'
    BY <1>5, <2>1 DEF Accounts, Account, PoolShape
  <2> QED BY <2>8, <2>9, <2>10, <2>11 DEF Account
<1> QED BY <1>3, <1>6 DEF Accounts, InOrder, GrowsWithinLimits, Within

(* adapt_concurrency, the settings and what publishes or reserves nothing.  *)
LEMMA QuietKeepsAccounts ==
  ASSUME Inv, Accounts, DOMAIN pools' = Keys, used'.registers = used.registers,
         \A k \in Keys :
            /\ DOMAIN pools'[k] = DOMAIN NoPool
            /\ pools'[k].reg = pools[k].reg /\ pools'[k].provisioning = pools[k].provisioning
            /\ pools'[k].min \in Nat /\ pools'[k].max \in Nat,
         \A c \in CellIds : \/ cold'[c] = cold[c]
                            \/ /\ cold'[c].key = cold[c].key
                               /\ cold[c].pc # "reset" /\ cold'[c].pc # "reset"
                            \/ cold[c].pc = "reset" /\ cold'[c].key = None,
         \A c \in CellIds : \/ inst'[c].key = None
                            \/ /\ inst'[c].key = inst[c].key
                               /\ inst[c].draining => inst'[c].draining
  PROVE  InOrder
<1>1. ASSUME NEW k \in Keys PROVE Account(k)' /\ Within(k)
  <2>1. Account(k) /\ PoolShape(k)'
    BY DEF Accounts, Account, PoolShape
  <2>2. \A c \in CellIds : /\ cold'[c].key = k /\ cold'[c].pc # "reset"
                              <=> cold[c].key = k /\ cold[c].pc # "reset"
                           /\ cold'[c].key = k => cold[c].key = k
                           /\ inst'[c].key = k => inst[c].key = k
                           /\ inst'[c].key = k /\ inst[c].draining => inst'[c].draining
    BY PoolConstants
  <2> QED BY <2>1, <2>2, AccountKept
<1> QED BY <1>1 DEF Accounts, Account, PoolShape, InOrder, GrowsWithinLimits, Within

-----------------------------------------------------------------------------
(* Every step keeps the accounts, and the limits.                           *)
LEMMA NextKeepsAccounts == Inv /\ Accounts /\ [Next]_vars => InOrder
<1> SUFFICES ASSUME Inv, Accounts, [Next]_vars PROVE InOrder
  OBVIOUS
<1>1. ASSUME UNCHANGED <<pools, inst, cold>>, used'.registers = used.registers PROVE InOrder
  BY <1>1, QuietKeepsAccounts DEF Accounts, Account, PoolShape
<1>2. ASSUME NEW k \in Keys, SetMinInstances(k) \/ SetSafeConcurrency(k) \/ UpdateConfig(k)
      PROVE  InOrder
  <2>1. UNCHANGED <<inst, cold, used>>
    BY <1>2 DEF SetMinInstances, SetSafeConcurrency, UpdateConfig
  <2>2. /\ DOMAIN pools' = Keys
        /\ \A j \in Keys :
             /\ DOMAIN pools'[j] = DOMAIN NoPool
             /\ pools'[j].reg = pools[j].reg /\ pools'[j].provisioning = pools[j].provisioning
             /\ pools'[j].min \in Nat /\ pools'[j].max \in Nat
    <3>1. CASE SetMinInstances(k) \/ SetSafeConcurrency(k)
      BY <3>1, PoolConstants DEF SetMinInstances, SetSafeConcurrency, Accounts, Account, PoolShape, NoPool
    <3>2. CASE UpdateConfig(k)
      <4>1. PICK cfg \in Configs, n \in 1 .. MaxConcurrency :
              pools' = [pools EXCEPT ![k].min = cfg.min, ![k].max = cfg.max, ![k].safe = n]
        BY <3>2 DEF UpdateConfig
      <4>2. cfg.min \in Nat /\ cfg.max \in Nat
        BY PoolConstants
      <4> QED BY <4>1, <4>2 DEF Accounts, Account, PoolShape, NoPool
    <3> QED BY <1>2, <3>1, <3>2
  <2> QED BY <2>1, <2>2, QuietKeepsAccounts
<1>3. CASE Managing
  <2>1. ASSUME NEW c \in CellIds, MarkDead(c) PROVE InOrder
    <3>1. /\ UNCHANGED <<pools, cold>> /\ used'.registers = used.registers
          /\ inst' = [inst EXCEPT ![c] = NoInst]
      BY <2>1 DEF MarkDead, Count, Inv, Shapes
    <3> QED BY <3>1, QuietKeepsAccounts DEF Accounts, Account, PoolShape, Inv, Shapes, NoInst
  <2>2. CASE UnregisterCancel \/ ShutdownBegin
    BY <1>1, <2>2 DEF UnregisterCancel, ShutdownBegin, Inv, Shapes
  <2> QED BY <1>2, <1>3, <2>1, <2>2, RegisterKeepsAccounts, UnregisterKeepsAccounts DEF Managing
<1>4. CASE Serve
  <2>1. ASSUME NEW r \in Requests, Release(r) PROVE InOrder
    <3>1. /\ UNCHANGED <<pools, cold, used>>
          /\ \A c \in CellIds : inst'[c].key = inst[c].key /\ inst'[c].draining = inst[c].draining
      BY <2>1 DEF Release, Inv, Shapes, NoInst
    <3> QED BY <3>1, QuietKeepsAccounts DEF Accounts, Account, PoolShape
  <2>2. ASSUME NEW r \in Requests, NEW k \in Keys, LeaseReady(r, k) PROVE InOrder
    <3>1. /\ UNCHANGED <<pools, cold, used>>
          /\ \A c \in CellIds : inst'[c].key = inst[c].key /\ inst'[c].draining = inst[c].draining
      BY <2>2 DEF LeaseReady, Inv, Shapes, NoInst
    <3> QED BY <3>1, QuietKeepsAccounts DEF Accounts, Account, PoolShape
  <2> QED BY <1>4, <2>1, <2>2, ReserveKeepsAccounts DEF Serve
<1>5. CASE UnregisterNext
  BY <1>1, <1>5 DEF UnregisterNext
<1>6. ASSUME NEW c \in CellIds, ColdStart(c) PROVE InOrder
  <2>1. CASE ColdAdmit(c) \/ ColdProvisioned(c)
    <3>1. /\ UNCHANGED <<pools, inst, used>> /\ cold[c].pc # "reset"
          /\ \A d \in CellIds : /\ cold'[d].key = cold[d].key
                                /\ cold'[d] = cold[d] \/ (d = c /\ cold'[d].pc # "reset")
      BY <2>1 DEF ColdAdmit, ColdProvisioned, Inv, Shapes, NoCold
    <3> QED BY <3>1, QuietKeepsAccounts DEF Accounts, Account, PoolShape
  <2>2. CASE KeepWarmReset(c)
    <3>1. /\ UNCHANGED <<pools, used>> /\ cold[c].pc = "reset" /\ cold' = [cold EXCEPT ![c] = NoCold]
          /\ \A d \in CellIds : inst'[d].key = inst[d].key /\ inst'[d].draining = inst[d].draining
      BY <2>2 DEF KeepWarmReset, Inv, Shapes, NoInst
    <3> QED BY <3>1, QuietKeepsAccounts DEF Accounts, Account, PoolShape, Inv, Shapes, NoCold
  <2> QED BY <1>6, <2>1, <2>2, AbandonKeepsAccounts, PublishKeepsAccounts DEF ColdStart
<1>7. ASSUME NEW c \in CellIds, Handing(c) PROVE InOrder
  <2>1. CASE DrainRemove(c)
    <3>1. UNCHANGED <<pools, cold, used>> /\ inst' = [inst EXCEPT ![c] = NoInst]
      BY <2>1 DEF DrainRemove
    <3> QED BY <3>1, QuietKeepsAccounts DEF Accounts, Account, PoolShape, Inv, Shapes, NoInst
  <2> QED BY <1>1, <1>7, <2>1 DEF Handing, MarkDeadEnqueue, DrainEnqueue
<1>8. CASE Worker
  BY <1>1, <1>8 DEF Worker, WorkerAwait, WorkerWoken, WorkerPick, WorkerNothing, WorkerTerminated,
       WorkerFailed, Count, Inv, Shapes
<1>9. CASE Autoscaling
  <2>1. CASE ReconcileDone
    <3>1. /\ UNCHANGED <<inst, cold, used>>
          /\ \E safe : pools' = [k \in Keys |-> [pools[k] EXCEPT !.safe = safe[k]]]
      BY <2>1 DEF ReconcileDone
    <3> QED BY <3>1, QuietKeepsAccounts DEF Accounts, Account, PoolShape, NoPool
  <2> QED BY <1>9, <2>1, ReconcileKeepsAccounts DEF Autoscaling
<1>10. CASE Shutdown
  <2>1. CASE ShutdownDetach
    <3>1. /\ pools' = [k \in Keys |-> NoPool] /\ inst' = [c \in CellIds |-> NoInst]
          /\ UNCHANGED <<cold, used>>
      BY <2>1 DEF ShutdownDetach
    <3>2. ASSUME NEW k \in Keys PROVE Account(k)' /\ Within(k)
      BY <3>1, NoPoolNoAccount, PoolConstants DEF Accounts, NoInst
    <3> QED BY <3>1, <3>2 DEF Accounts, InOrder, GrowsWithinLimits, Within
  <2>2. CASE ShutdownTerminate
    BY <1>1, <2>2 DEF ShutdownTerminate, Count, Inv, Shapes
  <2> QED BY <1>1, <1>10, <2>1, <2>2 DEF Shutdown, ShutdownAborted, ShutdownBarrier,
           ShutdownBarrierTimeout, ShutdownStopWorker, ShutdownJoined, ShutdownJoinTimeout,
           ShutdownRound
<1>11. CASE UNCHANGED vars
  BY <1>1, <1>11 DEF vars
<1> QED BY <1>3, <1>4, <1>5, <1>6, <1>7, <1>8, <1>9, <1>10, <1>11 DEF Next

(* No pool, no instance, no cold start.                                     *)
LEMMA InitEstablishesAccounts == Init => Accounts
<1> SUFFICES ASSUME Init PROVE Accounts
  OBVIOUS
<1> USE PoolConstants DEF Init, NoPool, NoInst, NoCold
<1>1. ASSUME NEW k \in Keys PROVE Account(k)
  <2>1. PoolShape(k) /\ KeyOK(k)
    BY DEF PoolShape, KeyOK
  <2>2. used.registers[k] = 0
    OBVIOUS
  <2> QED BY <2>1, <2>2 DEF Account, Exact
<1> QED BY <1>1 DEF Accounts

(* A pool whose key is registered once admits by exact numbers: its         *)
(* reservations are its cold starts, so none is ever left behind, and it    *)
(* grows only by a request below the max_instances in force or by keep-warm *)
(* up to the floor in force, however edits of the two limits, requests,     *)
(* failures and dropped futures interleave (decide_lease, reconcile,        *)
(* update_config, set_min_instances, ColdStartGuard).                       *)
THEOREM PoolAccountsCorrect == Spec => PoolAccounts
<1>1. Accounts => ProvisioningExact
  BY DEF Accounts, Account, Exact, ProvisioningExact
<1>2. Inv /\ Accounts /\ [Next]_vars => Accounts' /\ GrowsWithinLimits
  BY NextKeepsAccounts DEF InOrder
<1> QED BY <1>1, <1>2, InvHolds, InitEstablishesAccounts, PTL DEF Spec, PoolAccounts
=============================================================================
