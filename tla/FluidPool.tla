------------------------------- MODULE FluidPool ------------------------------
(***************************************************************************)
(* Fluid compute (crates/fluid-compute): pools of function instances that  *)
(* requests lease slots on, cold starts, the keep-warm and scale-to-zero   *)
(* autoscaler, the one worker that terminates cells, and shutdown.         *)
(*                                                                         *)
(* `registry` and `terminating` are two mutexes, neither held across an    *)
(* `.await`; an action is one critical section with the end of the await   *)
(* before it.  A cold start is the sequence admit, provision, start that a *)
(* request or the autoscaler runs; dropping its future is an action too.   *)
(* Time is abstracted: an instance may be idle past its TTL or due for     *)
(* recycling at any tick, and the circuit breaker may refuse any lease.    *)
(***************************************************************************)
EXTENDS Integers, FiniteSets

CONSTANTS
    Keys,            \* function keys "deployment/function"
    NCells,          \* bound: cells ever started
    Requests,        \* callers of lease
    Configs,         \* bound: the configurations a deploy or an edit may bring
    Floors,          \* bound: the values set_min_instances may be called with
    MaxConcurrency,  \* FunctionConfig.max_concurrency
    TenantOf,        \* FunctionPool.tenant
    TenantQuota,     \* FluidConfig.max_instances_per_tenant, 0 for none
    ColdStartCap,    \* max_concurrent_cold_starts()
    MaxRegisters,    \* bound: registrations of one key
    MaxUnregisters,  \* bound: calls of unregister_many
    MaxCancels,      \* bound: unregister_many futures dropped half-way
    MaxDead,         \* bound: calls of mark_dead
    MaxFailures,     \* bound: failures of backend.terminate
    MayShutdown,     \* whether shutdown is called
    None

CellIds == 1 .. NCells

ASSUME PoolConstants ==
    /\ IsFiniteSet(Keys) /\ NCells \in Nat /\ None \notin Keys \cup CellIds
    /\ Configs \subseteq [min : Nat, max : Nat] /\ Floors \subseteq Nat
    /\ MaxConcurrency \in Nat \ {0} /\ TenantQuota \in Nat /\ ColdStartCap \in Nat \ {0}
    /\ IsFiniteSet(Requests) /\ Requests \cap {"warm", None} = {}
    /\ None # "warm" /\ MayShutdown \in BOOLEAN
    /\ {MaxRegisters, MaxUnregisters, MaxCancels, MaxDead, MaxFailures} \subseteq Nat

VARIABLES
    pools,     \* key -> registered?, cold starts in flight, min, max, safe concurrency
    inst,      \* the instances in the registry
    cold,      \* the cold start that uses each cell name
    req,       \* the callers of lease
    alive,     \* the cells that exist in the backend
    term,      \* the `terminating` map
    permit,    \* the permit stored in termination_notify
    worker,    \* termination_loop
    auto,      \* autoscaler_loop
    drain,     \* the autoscaler's drain of each cell
    hand,      \* cells that a mark_dead took out of the registry
    unreg,     \* the call of unregister_many in progress
    sd,        \* shutdown
    used       \* how much of each bound is used up; cells lost with a caller

vars == <<pools, inst, cold, req, alive, term, permit, worker, auto, drain, hand,
          unreg, sd, used>>

-----------------------------------------------------------------------------

NoPool == [reg |-> FALSE, provisioning |-> 0, min |-> 0, max |-> 0, safe |-> MaxConcurrency]
NoInst == [key |-> None, inflight |-> 0, draining |-> FALSE, served |-> FALSE]
NoCold == [pc |-> "none", key |-> None, by |-> None]
NoReq == [key |-> None, cell |-> None]
NoUnreg == [todo |-> {}, wait |-> None]

SatSub(a, b) == IF b <= a THEN a - b ELSE 0

InstancesOf(k) == {c \in CellIds : inst[c].key = k}
Serving(k) == {c \in InstancesOf(k) : ~inst[c].draining}
ColdStarts(k) == {c \in CellIds : cold[c].key = k /\ cold[c].pc # "reset"}

(* CellId::new(): never used before.  Ids are random, so the order in which *)
(* they are used up carries no information and one order is fixed.          *)
Fresh(S) == used.cells \cap S = {} /\ used.cells \cup S = 1 .. Cardinality(used.cells \cup S)

LiveCount(k) == Cardinality(Serving(k)) + pools[k].provisioning

(* Sum over the tenant's pools, as the number of its live slots. *)
TenantLive(t) ==
    Cardinality(UNION {{<<k, n>> : n \in 1 .. LiveCount(k)} : k \in {x \in Keys : TenantOf[x] = t}})

ShuttingDown == sd.pc # "running"

Count(what) == used' = [used EXCEPT ![what] = @ + 1]

-----------------------------------------------------------------------------
(* The terminating map and its worker *)

(* Mutant: the entry is made and nobody is told. *)
EnqueueSilently(c) ==
    /\ term' = [term EXCEPT ![c] = IF @ = "none" THEN "queued" ELSE @]
    /\ UNCHANGED permit

(* Entry and notify_one: a permit, for the waiting worker or for later. *)
Enqueue(c) ==
    /\ term' = [term EXCEPT ![c] = IF @ = "none" THEN "queued" ELSE @]
    /\ permit' = TRUE

(* The outcome goes to everyone who waits for cell c. *)
AnswerWaiters(c) ==
    /\ drain' = [drain EXCEPT ![c] = IF @ = "wait" THEN "remove" ELSE @]
    /\ unreg' = [unreg EXCEPT !.wait = IF @ = c THEN None ELSE @]

Closing == sd.pc \in {"join", "drain", "ok", "err", "timeout"}

WorkerAwait ==
    /\ worker.pc = "top"
    /\ worker' = [worker EXCEPT !.pc = "wait"]
    /\ UNCHANGED <<pools, inst, cold, req, alive, term, permit, auto, drain, hand, unreg, sd, used>>

(* A notification that comes between the wake-up and the scan is the same   *)
(* as one that comes during the scan.                                       *)
WorkerWoken ==
    /\ worker.pc = "wait" /\ permit
    /\ permit' = FALSE
    /\ worker' = [worker EXCEPT !.pc = IF Closing THEN "stopped" ELSE "scan"]
    /\ UNCHANGED <<pools, inst, cold, req, alive, term, auto, drain, hand, unreg, sd, used>>

(* The worker takes the smallest id, which may be any of the random ids. *)
WorkerPick ==
    /\ worker.pc = "scan"
    /\ \E c \in CellIds :
         /\ term[c] = "queued"
         /\ term' = [term EXCEPT ![c] = "busy"]
         /\ worker' = [pc |-> "busy", cell |-> c]
    /\ UNCHANGED <<pools, inst, cold, req, alive, permit, auto, drain, hand, unreg, sd, used>>

WorkerNothing ==
    /\ worker.pc = "scan" /\ \A c \in CellIds : term[c] # "queued"
    /\ worker' = [worker EXCEPT !.pc = "top"]
    /\ UNCHANGED <<pools, inst, cold, req, alive, term, permit, auto, drain, hand, unreg, sd, used>>

WorkerTerminated ==
    /\ worker.pc = "busy"
    /\ alive' = alive \ {worker.cell}
    /\ term' = [term EXCEPT ![worker.cell] = "none"]
    /\ AnswerWaiters(worker.cell)
    /\ worker' = [pc |-> IF Closing THEN "stopped" ELSE "scan", cell |-> None]
    /\ UNCHANGED <<pools, inst, cold, req, permit, auto, hand, sd, used>>

(* The entry stays and the loop goes back to wait for a notification. *)
WorkerFailed ==
    /\ worker.pc = "busy" /\ used.failures < MaxFailures
    /\ Count("failures")
    /\ term' = [term EXCEPT ![worker.cell] = "queued"]
    /\ AnswerWaiters(worker.cell)
    /\ worker' = [pc |-> "top", cell |-> None]
    /\ UNCHANGED <<pools, inst, cold, req, alive, permit, auto, hand, sd>>

-----------------------------------------------------------------------------
(* Registration *)

Register(k) ==
    /\ used.registers[k] < MaxRegisters /\ ~ShuttingDown
    /\ used' = [used EXCEPT !.registers[k] = @ + 1]
    /\ \E cfg \in Configs :
         pools' = [pools EXCEPT ![k] = [NoPool EXCEPT !.reg = TRUE, !.min = cfg.min, !.max = cfg.max]]
    /\ inst' = [c \in CellIds |-> IF inst[c].key = k THEN [inst[c] EXCEPT !.draining = TRUE]
                                                     ELSE inst[c]]
    /\ UNCHANGED <<cold, req, alive, term, permit, worker, auto, drain, hand, unreg, sd>>

(* A promotion re-pins what is kept warm: production only.  Nobody compares *)
(* the new floor with max_instances.                                        *)
SetMinInstances(k) ==
    /\ pools[k].reg
    /\ \E n \in Floors : pools' = [pools EXCEPT ![k].min = n]
    /\ UNCHANGED <<inst, cold, req, alive, term, permit, worker, auto, drain, hand, unreg, sd, used>>

(* The pressure hook. *)
SetSafeConcurrency(k) ==
    /\ pools[k].reg
    /\ \E n \in 1 .. MaxConcurrency : pools' = [pools EXCEPT ![k].safe = n]
    /\ UNCHANGED <<inst, cold, req, alive, term, permit, worker, auto, drain, hand, unreg, sd, used>>

(* A settings edit: the whole configuration anew, whatever is running, with *)
(* the safe concurrency recommended for it.  The instances stay.            *)
UpdateConfig(k) ==
    /\ pools[k].reg
    /\ \E cfg \in Configs, n \in 1 .. MaxConcurrency :
         pools' = [pools EXCEPT ![k].min = cfg.min, ![k].max = cfg.max, ![k].safe = n]
    /\ UNCHANGED <<inst, cold, req, alive, term, permit, worker, auto, drain, hand, unreg, sd, used>>

(* unregister_many takes the cells out of the registry into a local list... *)
Unregister(k) ==
    /\ used.unregisters < MaxUnregisters /\ unreg = NoUnreg /\ pools[k].reg
    /\ Count("unregisters")
    /\ pools' = [pools EXCEPT ![k] = NoPool]
    /\ unreg' = [unreg EXCEPT !.todo = InstancesOf(k)]
    /\ inst' = [c \in CellIds |-> IF inst[c].key = k THEN NoInst ELSE inst[c]]
    /\ UNCHANGED <<cold, req, alive, term, permit, worker, auto, drain, hand, sd>>

(* ... and hands them to the worker one by one, awaiting each. *)
UnregisterNext ==
    /\ unreg.wait = None
    /\ \E c \in unreg.todo :
         /\ Enqueue(c)
         /\ unreg' = [todo |-> unreg.todo \ {c}, wait |-> c]
    /\ UNCHANGED <<worker, pools, inst, cold, req, alive, auto, drain, hand, sd, used>>

(* The caller's future is dropped while it waits for a termination, and the *)
(* rest of its list with it.                                                *)
UnregisterCancel ==
    /\ used.cancels < MaxCancels /\ unreg.wait # None
    /\ used' = [used EXCEPT !.cancels = @ + 1, !.lost = @ \cup unreg.todo]
    /\ unreg' = NoUnreg
    /\ UNCHANGED <<pools, inst, cold, req, alive, term, permit, worker, auto, drain, hand, sd>>

(* An instance that failed a probe or a request.  The verdict may be stale. *)
MarkDead(c) ==
    /\ used.dead < MaxDead /\ inst[c].key # None
    /\ Count("dead")
    /\ inst' = [inst EXCEPT ![c] = NoInst]
    /\ hand' = hand \cup {c}
    /\ UNCHANGED <<pools, cold, req, alive, term, permit, worker, auto, drain, unreg, sd>>

MarkDeadEnqueue(c) ==
    /\ c \in hand
    /\ hand' = hand \ {c}
    /\ Enqueue(c)
    /\ UNCHANGED <<worker, pools, inst, cold, req, alive, auto, drain, unreg, sd, used>>

-----------------------------------------------------------------------------
(* Leases *)

(* Instances with a free slot below the safe concurrency. *)
Leasable(k) == {c \in Serving(k) : inst[c].inflight < pools[k].safe}

Admissible(k) ==
    /\ LiveCount(k) < pools[k].max
    /\ TenantQuota > 0 => TenantLive(TenantOf[k]) < TenantQuota

(* The least-loaded one takes the request. *)
LeaseReady(r, k) ==
    /\ ~ShuttingDown /\ pools[k].reg /\ req[r] = NoReq
    /\ \E c \in Leasable(k) :
         /\ \A d \in Leasable(k) : inst[c].inflight <= inst[d].inflight
         /\ inst' = [inst EXCEPT ![c].inflight = @ + 1]
         /\ req' = [req EXCEPT ![r] = [key |-> k, cell |-> c]]
    /\ UNCHANGED <<pools, cold, alive, term, permit, worker, auto, drain, hand, unreg, sd, used>>

(* All full.  A request waits for a cold start in flight at most 800 ms, so *)
(* it may start another one while the first is under way.                   *)
LeaseColdStart(r, k) ==
    /\ ~ShuttingDown /\ pools[k].reg /\ req[r] = NoReq
    /\ Leasable(k) = {} /\ Admissible(k)
    /\ pools' = [pools EXCEPT ![k].provisioning = @ + 1]
    /\ \E c \in CellIds :
         /\ Fresh({c})
         /\ cold' = [cold EXCEPT ![c] = [pc |-> "admit", key |-> k, by |-> r]]
         /\ used' = [used EXCEPT !.cells = @ \cup {c}]
    /\ req' = [req EXCEPT ![r].key = k]
    /\ UNCHANGED <<inst, alive, term, permit, worker, auto, drain, hand, unreg, sd>>

(* Lease::drop, also when the client goes away. *)
Release(r) ==
    /\ req[r].cell # None
    /\ LET c == req[r].cell IN
       inst' = IF inst[c].key = req[r].key
               THEN [inst EXCEPT ![c] = [@ EXCEPT !.inflight = SatSub(inst[c].inflight, 1), !.served = TRUE]]
               ELSE inst
    /\ req' = [req EXCEPT ![r] = NoReq]
    /\ UNCHANGED <<pools, cold, alive, term, permit, worker, auto, drain, hand, unreg, sd, used>>

-----------------------------------------------------------------------------
(* Cold starts *)

(* Mutant: the guard forgets the reservation. *)
UnreserveForgets(k) == UNCHANGED pools

(* ColdStartGuard::drop: release the reservation, if the pool is there. *)
Unreserve(k) ==
    pools' = IF pools[k].reg THEN [pools EXCEPT ![k].provisioning = SatSub(@, 1)] ELSE pools

(* The cold start's future is gone; a request that ran it has its error. *)
Abandon(c) ==
    /\ Unreserve(cold[c].key)
    /\ req' = [r \in Requests |-> IF cold[c].by = r THEN NoReq ELSE req[r]]
    /\ cold' = [cold EXCEPT ![c] = NoCold]

(* Mutant: a provisioned cell is forgotten with its cold start. *)
DropUnpublishedForgets(c) == UNCHANGED <<term, permit>>

(* UnpublishedCell::drop *)
DropUnpublished(c) ==
    IF cold[c].pc = "start" THEN Enqueue(c) ELSE UNCHANGED <<term, permit>>

HoldsPermit == {c \in CellIds : cold[c].pc \in {"provision", "start"}}
BarrierHeld == sd.pc \in {"detach", "stop", "join", "drain"}

ColdAdmit(c) ==
    /\ cold[c].pc = "admit" /\ ~ShuttingDown /\ pools[cold[c].key].reg
    /\ Cardinality(HoldsPermit) < ColdStartCap
    /\ cold' = [cold EXCEPT ![c].pc = "provision"]
    /\ UNCHANGED <<pools, inst, req, alive, term, permit, worker, auto, drain, hand, unreg, sd, used>>

(* Shutdown began, or the function was unregistered meanwhile. *)
ColdRefused(c) ==
    /\ cold[c].pc = "admit" /\ (ShuttingDown \/ ~pools[cold[c].key].reg)
    /\ Cardinality(HoldsPermit) < ColdStartCap /\ ~BarrierHeld
    /\ Abandon(c)
    /\ UNCHANGED <<inst, alive, term, permit, worker, auto, drain, hand, unreg, sd, used>>

ColdProvisioned(c) ==
    /\ cold[c].pc = "provision"
    /\ alive' = alive \cup {c}
    /\ cold' = [cold EXCEPT ![c].pc = "start"]
    /\ UNCHANGED <<pools, inst, req, term, permit, worker, auto, drain, hand, unreg, sd, used>>

(* provision or start_function fails, the pool is gone by the time it would *)
(* be published, the client gives up, or shutdown aborts the autoscaler:    *)
(* the future ends or is dropped and its guards run.                        *)
ColdEnds(c) ==
    /\ \/ cold[c].pc \in {"provision", "start"}
       \/ cold[c].pc = "admit" /\ cold[c].by # "warm"
       \/ cold[c].pc = "admit" /\ sd.pc = "abort"
    /\ DropUnpublished(c)
    /\ Abandon(c)
    /\ UNCHANGED <<worker, inst, alive, auto, drain, hand, unreg, sd, used>>

(* start_function returned: the instance enters the pool with the slot of   *)
(* the lease it was started for.                                            *)
ColdPublish(c) ==
    LET k == cold[c].key IN
    /\ cold[c].pc = "start" /\ pools[k].reg
    /\ Unreserve(k)
    /\ inst' = [inst EXCEPT ![c] = [NoInst EXCEPT !.key = k, !.inflight = 1]]
    /\ req' = [r \in Requests |-> IF cold[c].by = r THEN [key |-> k, cell |-> c] ELSE req[r]]
    /\ cold' = [cold EXCEPT ![c] = IF @.by = "warm" THEN [@ EXCEPT !.pc = "reset"] ELSE NoCold]
    /\ UNCHANGED <<alive, term, permit, worker, auto, drain, hand, unreg, sd, used>>

(* A keep-warm start has no request: reset the slot, in a second lock       *)
(* section after the instance became visible.                               *)
KeepWarmReset(c) ==
    /\ cold[c].pc = "reset"
    /\ cold' = [cold EXCEPT ![c] = NoCold]
    /\ inst' = IF inst[c].key = cold[c].key THEN [inst EXCEPT ![c].inflight = 0] ELSE inst
    /\ UNCHANGED <<pools, req, alive, term, permit, worker, auto, drain, hand, unreg, sd, used>>

-----------------------------------------------------------------------------
(* The autoscaler *)

Registered == {k \in Keys : pools[k].reg}
InRotation == UNION {Serving(k) : k \in Keys}
Shortfall(k) == SatSub(pools[k].min, LiveCount(k))
Surplus(k) == SatSub(Cardinality(Serving(k)), pools[k].min)

(* The cells to warm and their pools: per pool none (it backs off) or as    *)
(* many as it falls short of min.                                           *)
WarmPlans ==
    UNION {{f \in [S -> {k \in Registered : Shortfall(k) > 0}] :
              \A k \in Registered : Cardinality({c \in S : f[c] = k}) \in {0, Shortfall(k)}} :
           S \in {T \in SUBSET CellIds : Fresh(T)}}

(* Mutant: the cells are terminated without being taken out of rotation. *)
MarkDrainingNot(S) == UNCHANGED inst

MarkDraining(S) ==
    inst' = [c \in CellIds |-> IF c \in S THEN [inst[c] EXCEPT !.draining = TRUE] ELSE inst[c]]

(* What a decision does at once: reserve the cold starts it plans, take the *)
(* cells in S out of rotation, and drain every cell out of it that is idle. *)
Carry(warm, S) ==
    /\ pools' = [k \in Keys |-> [pools[k] EXCEPT
                   !.provisioning = @ + Cardinality({c \in DOMAIN warm : warm[c] = k})]]
    /\ cold' = [c \in CellIds |-> IF c \notin DOMAIN warm THEN cold[c]
                                  ELSE [pc |-> "admit", key |-> warm[c], by |-> "warm"]]
    /\ used' = [used EXCEPT !.cells = @ \cup DOMAIN warm]
    /\ MarkDraining(S)
    /\ drain' = [c \in CellIds |->
                   IF inst[c].key # None /\ inst[c].inflight = 0 /\ (inst[c].draining \/ c \in S)
                   THEN "enqueue" ELSE "none"]

(* One reconcile decision under the lock.  Per pool: warm up to min unless  *)
(* it backs off; recycle any instance that has served; scale down idle ones *)
(* while more than min are left, recycled ones still counted.               *)
Reconcile ==
    /\ auto = "sleep"
    /\ \E warm \in WarmPlans, recycle \in SUBSET {c \in InRotation : inst[c].served} :
         \E idle \in SUBSET {c \in InRotation \ recycle : inst[c].inflight = 0} :
           /\ \A k \in Registered : Cardinality(idle \cap Serving(k)) <= Surplus(k)
           /\ Carry(warm, recycle \cup idle)
    /\ auto' = "join"
    /\ UNCHANGED <<req, alive, term, permit, worker, hand, unreg, sd>>

DrainEnqueue(c) ==
    /\ drain[c] = "enqueue"
    /\ Enqueue(c)
    /\ drain' = [drain EXCEPT ![c] = "wait"]
    /\ UNCHANGED <<worker, pools, inst, cold, req, alive, auto, hand, unreg, sd, used>>

(* The outcome, good or bad, is in: forget the instance. *)
DrainRemove(c) ==
    /\ drain[c] = "remove"
    /\ drain' = [drain EXCEPT ![c] = "none"]
    /\ inst' = [inst EXCEPT ![c] = NoInst]
    /\ UNCHANGED <<pools, cold, req, alive, term, permit, worker, auto, hand, unreg, sd, used>>

(* Mutant: without the clamp. *)
AimdStepsUnclamped(n) == {n \div 2, n, n + 1}

(* aimd_step for a high, a middling and a low CPU sample. *)
AimdSteps(n) ==
    {IF n >= 2 THEN n \div 2 ELSE 1, n, IF n < MaxConcurrency THEN n + 1 ELSE n}

WarmStarts == {c \in CellIds : cold[c].by = "warm"}

(* All warm starts and drains are done; then adapt_concurrency. *)
ReconcileDone ==
    /\ auto = "join" /\ WarmStarts = {} /\ \A c \in CellIds : drain[c] = "none"
    /\ auto' = "sleep"
    /\ \E safe \in [Keys -> UNION {AimdSteps(pools[k].safe) : k \in Keys}] :
         /\ \A k \in Keys : IF pools[k].reg /\ Serving(k) # {} THEN safe[k] \in AimdSteps(pools[k].safe)
                            ELSE safe[k] = pools[k].safe
         /\ pools' = [k \in Keys |-> [pools[k] EXCEPT !.safe = safe[k]]]
    /\ UNCHANGED <<inst, cold, req, alive, term, permit, worker, drain, hand, unreg, sd, used>>

-----------------------------------------------------------------------------
(* Shutdown *)

ShutdownBegin ==
    /\ MayShutdown /\ sd.pc = "running"
    /\ sd' = [sd EXCEPT !.pc = "abort"]
    /\ UNCHANGED <<pools, inst, cold, req, alive, term, permit, worker, auto, drain, hand, unreg, used>>

(* The background tasks are aborted at their next await and joined; their   *)
(* cold starts were dropped (ColdEnds), their waits for drains go with them.*)
ShutdownAborted ==
    /\ sd.pc = "abort" /\ WarmStarts = {} /\ \A c \in CellIds : drain[c] # "enqueue"
    /\ sd' = [sd EXCEPT !.pc = "barrier"]
    /\ auto' = "aborted"
    /\ drain' = [c \in CellIds |-> "none"]
    /\ UNCHANGED <<pools, inst, cold, req, alive, term, permit, worker, hand, unreg, used>>

(* Mutant: the barrier does not wait for the permits in use. *)
BarrierFreeAlways == TRUE

BarrierFree == HoldsPermit = {}

(* acquire_many takes every cold-start permit. *)
ShutdownBarrier ==
    /\ sd.pc = "barrier" /\ BarrierFree
    /\ sd' = [sd EXCEPT !.pc = "detach"]
    /\ UNCHANGED <<pools, inst, cold, req, alive, term, permit, worker, auto, drain, hand, unreg, used>>

(* A cold start outlasts the deadline: the worker is aborted, nothing else  *)
(* is terminated.                                                           *)
ShutdownBarrierTimeout ==
    /\ sd.pc = "barrier" /\ HoldsPermit # {}
    /\ sd' = [sd EXCEPT !.pc = "err"]
    /\ worker' = [worker EXCEPT !.pc = "stopped"]
    /\ UNCHANGED <<pools, inst, cold, req, alive, term, permit, auto, drain, hand, unreg, used>>

(* The registry is emptied into `terminating`; nobody is notified. *)
ShutdownDetach ==
    /\ sd.pc = "detach"
    /\ sd' = [sd EXCEPT !.pc = "stop"]
    /\ pools' = [k \in Keys |-> NoPool]
    /\ term' = [c \in CellIds |-> IF inst[c].key # None /\ term[c] = "none" THEN "queued" ELSE term[c]]
    /\ inst' = [c \in CellIds |-> NoInst]
    /\ UNCHANGED <<cold, req, alive, permit, worker, auto, drain, hand, unreg, used>>

(* termination_closing is set and notify_waiters wakes a worker that is     *)
(* already waiting; it leaves no permit for one that is not.                *)
ShutdownStopWorker ==
    /\ sd.pc = "stop"
    /\ sd' = [sd EXCEPT !.pc = "join"]
    /\ permit' = (permit \/ worker.pc = "wait")
    /\ UNCHANGED <<pools, inst, cold, req, alive, term, worker, auto, drain, hand, unreg, used>>

Pending == {c \in CellIds : term[c] # "none"}

ShutdownJoined ==
    /\ sd.pc = "join" /\ worker.pc = "stopped"
    /\ sd' = IF Pending = {} THEN [sd EXCEPT !.pc = "ok"]
                             ELSE [pc |-> "drain", attempt |-> 0, todo |-> Pending]
    /\ UNCHANGED <<pools, inst, cold, req, alive, term, permit, worker, auto, drain, hand, unreg, used>>

(* The deadline passes while the worker waits for a notification.  (It may  *)
(* also pass during a terminate that hangs, which is not modelled.)         *)
ShutdownJoinTimeout ==
    /\ sd.pc = "join" /\ worker.pc = "wait" /\ ~permit
    /\ sd' = [sd EXCEPT !.pc = "timeout"]
    /\ worker' = [worker EXCEPT !.pc = "stopped"]
    /\ UNCHANGED <<pools, inst, cold, req, alive, term, permit, auto, drain, hand, unreg, used>>

(* Shutdown terminates a cell itself, or fails to. *)
ShutdownTerminate ==
    /\ sd.pc = "drain"
    /\ \E c \in sd.todo :
         /\ sd' = [sd EXCEPT !.todo = @ \ {c}]
         /\ AnswerWaiters(c)
         /\ \/ /\ alive' = alive \ {c}
               /\ term' = [term EXCEPT ![c] = "none"]
               /\ UNCHANGED used
            \/ /\ used.failures < MaxFailures
               /\ Count("failures")
               /\ UNCHANGED <<alive, term>>
    /\ UNCHANGED <<pools, inst, cold, req, permit, worker, auto, hand>>

(* Two rounds over what is left, then an error. *)
ShutdownRound ==
    /\ sd.pc = "drain" /\ sd.todo = {}
    /\ sd' = CASE Pending = {} -> [sd EXCEPT !.pc = "ok"]
               [] Pending # {} /\ sd.attempt = 0 -> [sd EXCEPT !.attempt = 1, !.todo = Pending]
               [] Pending # {} /\ sd.attempt = 1 -> [sd EXCEPT !.pc = "err"]
    /\ UNCHANGED <<pools, inst, cold, req, alive, term, permit, worker, auto, drain, hand, unreg, used>>

-----------------------------------------------------------------------------

Init ==
    /\ pools = [k \in Keys |-> NoPool]
    /\ inst = [c \in CellIds |-> NoInst]
    /\ cold = [c \in CellIds |-> NoCold]
    /\ req = [r \in Requests |-> NoReq]
    /\ alive = {} /\ hand = {} /\ unreg = NoUnreg
    /\ term = [c \in CellIds |-> "none"] /\ drain = [c \in CellIds |-> "none"]
    /\ permit = FALSE /\ worker = [pc |-> "top", cell |-> None]
    /\ auto = "sleep"
    /\ sd = [pc |-> "running", attempt |-> 0, todo |-> {}]
    /\ used = [cells |-> {}, lost |-> {}, registers |-> [k \in Keys |-> 0], unregisters |-> 0, cancels |-> 0,
               dead |-> 0, failures |-> 0]

Managing ==
    \/ \E k \in Keys : Register(k) \/ Unregister(k)
    \/ \E k \in Keys : SetMinInstances(k) \/ SetSafeConcurrency(k) \/ UpdateConfig(k)
    \/ UnregisterCancel \/ (\E c \in CellIds : MarkDead(c)) \/ ShutdownBegin

Serve == \E r \in Requests : Release(r) \/ \E k \in Keys : LeaseReady(r, k) \/ LeaseColdStart(r, k)

ColdStart(c) ==
    \/ ColdAdmit(c) \/ ColdRefused(c) \/ ColdProvisioned(c) \/ ColdEnds(c)
    \/ ColdPublish(c) \/ KeepWarmReset(c)

Worker ==
    WorkerAwait \/ WorkerWoken \/ WorkerPick \/ WorkerNothing \/ WorkerTerminated \/ WorkerFailed

Autoscaling == Reconcile \/ ReconcileDone

Shutdown ==
    \/ ShutdownAborted \/ ShutdownBarrier \/ ShutdownBarrierTimeout \/ ShutdownDetach
    \/ ShutdownStopWorker \/ ShutdownJoined \/ ShutdownJoinTimeout \/ ShutdownTerminate
    \/ ShutdownRound

Handing(c) == MarkDeadEnqueue(c) \/ DrainEnqueue(c) \/ DrainRemove(c)

Next ==
    \/ Managing \/ Serve \/ UnregisterNext
    \/ (\E c \in CellIds : ColdStart(c) \/ Handing(c))
    \/ Worker \/ Autoscaling \/ Shutdown

Spec == Init /\ [][Next]_vars

(* Every spawned task and every call that was made is polled on, and the    *)
(* backend answers.  Nothing makes clients send requests or end them.       *)
FairSpec ==
    /\ Spec
    /\ WF_vars(Worker) /\ WF_vars(Autoscaling) /\ WF_vars(Shutdown) /\ WF_vars(UnregisterNext)
    /\ \A c \in CellIds : WF_vars(ColdStart(c)) /\ WF_vars(Handing(c))

-----------------------------------------------------------------------------
(* Properties *)

(* Every record of the registry, the terminating map and the tasks is well  *)
(* formed: an instance belongs to a registered pool and a cold start to a   *)
(* function.                                                                *)
TypeOK ==
    /\ pools \in [Keys -> [reg : BOOLEAN, provisioning : Nat, min : Nat, max : Nat,
                          safe : 1 .. MaxConcurrency]]
    /\ inst \in [CellIds -> [key : Keys \cup {None}, inflight : Nat, draining : BOOLEAN, served : BOOLEAN]]
    /\ \A c \in CellIds : inst[c].key # None => pools[inst[c].key].reg
    /\ cold \in [CellIds -> [pc : {"none", "admit", "provision", "start", "reset"},
                             key : Keys \cup {None}, by : Requests \cup {"warm", None}]]
    /\ \A c \in CellIds : cold[c].pc # "none" => cold[c].key \in Keys
    /\ req \in [Requests -> [key : Keys \cup {None}, cell : CellIds \cup {None}]]
    /\ alive \subseteq CellIds /\ hand \subseteq CellIds /\ permit \in BOOLEAN
    /\ unreg \in [todo : SUBSET CellIds, wait : CellIds \cup {None}]
    /\ term \in [CellIds -> {"none", "queued", "busy"}]
    /\ drain \in [CellIds -> {"none", "enqueue", "wait", "remove"}]
    /\ worker \in [pc : {"top", "wait", "scan", "busy", "stopped"}, cell : CellIds \cup {None}]
    /\ worker.pc = "busy" => worker.cell \in CellIds
    /\ auto \in {"sleep", "join", "aborted"}
    /\ sd \in [pc : {"running", "abort", "barrier", "detach", "stop", "join", "drain",
                     "ok", "err", "timeout"}, attempt : {0, 1}, todo : SUBSET CellIds]
    /\ used \in [cells : SUBSET CellIds, lost : SUBSET CellIds, registers : [Keys -> Nat],
                  unregisters : Nat, cancels : Nat, dead : Nat, failures : Nat]

(* "Cold starts currently in flight": a pool's provisioning counts exactly  *)
(* its running cold starts, whichever way they fail or are abandoned, so a  *)
(* pool is never wedged by a reservation that nobody holds.  (A key that is *)
(* registered again starts from 0 with the old cold starts still running.)  *)
ProvisioningExact ==
    \A k \in Keys :
      pools[k].reg /\ used.registers[k] = 1 => pools[k].provisioning = Cardinality(ColdStarts(k))

(* A pool grows, cold starts included, in two ways only: a request starts   *)
(* an instance below max_instances, or the autoscaler warms it up to its    *)
(* floor, which may be above max_instances.  Nothing a cold start does on   *)
(* its way adds to the pool, and an edit that lowers max_instances below    *)
(* what is running lets nothing new in until enough of it is gone.          *)
GrowsWithinLimits ==
    \A k \in Keys :
      used.registers[k] = 1 /\ LiveCount(k)' > LiveCount(k) =>
        \/ LiveCount(k)' <= pools[k].max
        \/ auto = "sleep" /\ auto' = "join" /\ LiveCount(k)' <= pools[k].min

(* The two accounts admission decides by: after every step the reservations *)
(* are exact, and no step makes a pool grow beyond the limit in force.      *)
PoolAccounts == [][ProvisioningExact' /\ GrowsWithinLimits]_vars

(* In the registry, held by a cold start, in the terminating map or in the  *)
(* hands of a call that will put it there.                                  *)
Owned(c) ==
    \/ inst[c].key # None \/ cold[c].pc = "start" \/ term[c] # "none"
    \/ c \in hand \cup unreg.todo

(* No cell of the backend is forgotten, whichever cold starts fail or are   *)
(* abandoned, except what a dropped unregister_many had still in its list.  *)
CellOwned == \A c \in alive : Owned(c) \/ c \in used.lost

Leases(c) == {r \in Requests : req[r].cell = c}

(* An instance is never taken for busier than it is, so an idle one can     *)
(* always be scaled down: inflight counts at most the leases on it, plus    *)
(* the slot that a keep-warm start is about to give back.                   *)
NoPhantomLoad ==
    \A c \in CellIds :
      inst[c].key # None =>
        inst[c].inflight <= Cardinality(Leases(c)) + (IF cold[c].pc = "reset" THEN 1 ELSE 0)

(* An instance that requests may still be sent to exists and is not about   *)
(* to be terminated.                                                        *)
LeasableAlive ==
    \A c \in CellIds :
      inst[c].key # None /\ ~inst[c].draining => c \in alive /\ term[c] = "none" /\ drain[c] = "none"

(* The registry can be trusted by a request: the load it reads is no more   *)
(* than the leases there are, and what it offers is alive.                  *)
LeasesSound == NoPhantomLoad /\ LeasableAlive

(* When shutdown reports success, the only cells left in the backend are    *)
(* those that a concurrent mark_dead or unregister_many holds, or that one  *)
(* of them lost.                                                            *)
ShutdownComplete ==
    [][sd.pc # "ok" /\ sd'.pc = "ok" => alive' \subseteq hand \cup unreg.todo \cup used.lost]_vars

(* While the node runs and no terminate fails, every cell handed to the     *)
(* worker is terminated, whatever notifications it slept through.           *)
TerminationsDone ==
    \A c \in CellIds :
      term[c] # "none" ~> term[c] = "none" \/ used.failures > 0 \/ ShuttingDown

(* Under the same conditions each reconcile ends, so one slow cold start or *)
(* drain never stops keep-warm for good.                                    *)
AutoscalerReturns == auto = "join" ~> auto # "join" \/ used.failures > 0

(* What the two background loops owe: terminations and reconciles end.      *)
LoopsDeliver == TerminationsDone /\ AutoscalerReturns
=============================================================================
