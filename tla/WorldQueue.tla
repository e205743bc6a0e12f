----------------------------- MODULE WorldQueue ------------------------------
(***************************************************************************)
(* The managed World Queue (hive-cloud/src/world_queue.rs): every node     *)
(* keeps a working set of jobs (`pending`), mirrors them into GuardianDB   *)
(* and runs one delivery loop; the node elected for the tenant dispatches. *)
(* One tenant is modelled; tenants share nothing but the loop.             *)
(*                                                                         *)
(* A mirror write is a task spawned and forgotten (`ops`): it lands when   *)
(* it lands, in any order with the others, or not at all.  GuardianDB is   *)
(* external: one map, whose replication delay is part of the delay of an   *)
(* operation.  A due time is not modelled: a job held may be due or not.   *)
(***************************************************************************)
EXTENDS Integers, FiniteSets

CONSTANTS
    Nodes,        \* nodes, as the rank of their peer_id (lowest is elected)
    NameRank,     \* rank of each node's name, for the election's fallback
    Jobs,         \* job ids (uuids: never reused)
    MaxAttempts,  \* QueueJob.max_attempts
    MaxFaults,    \* bound: changes of a node's view of the membership, process
                  \* restarts and mirror writes refused, all together
    Absent,       \* no copy of a job
    Nobody        \* no node is known to host the tenant

Attempts == 0 .. MaxAttempts - 1

ASSUME WorldQueueAssumption ==
    /\ Nodes \subseteq Nat /\ IsFiniteSet(Nodes) /\ Nodes # {}
    /\ NameRank \in [Nodes -> Nat]
    /\ MaxAttempts \in Nat \ {0}   \* enqueue: max_attempts.max(1)
    /\ Absent \notin Nat /\ Nobody \notin Nat
    /\ Jobs \cap {"idle", "sync", "take", "batch"} = {}
    /\ MaxFaults \in Nat

VARIABLES
    pending,    \* pending[n][j]: the attempt count of n's copy, or Absent
    kv,         \* GuardianDB: the mirrored attempt count, or Absent
    ops,        \* spawned mirror writes that have not finished
    loop,       \* run_delivery_loop of each node: position and locals
    primary,    \* whom each node elects from its own view; Nobody without one
    accepted,   \* jobs that enqueue has answered
    delivered,  \* jobs some node has marked delivered
    dead,       \* jobs some node has marked dead
    tries,      \* history: failed dispatches per job, up to MaxAttempts
    lost,       \* history: jobs one of whose mirror writes was lost
    faults      \* how many faults there have been

vars == <<pending, kv, ops, loop, primary, accepted, delivered, dead, tries,
          lost, faults>>

-----------------------------------------------------------------------------
NoJobs == [j \in Jobs |-> Absent]
Copies == [Jobs -> Attempts \cup {Absent}]
Held(f) == {j \in Jobs : f[j] # Absent}
Idle == [at |-> "idle", keys |-> {}, batch |-> NoJobs]
LoopRecord == [at : {"idle", "sync", "take", "batch"} \cup Jobs,
               keys : SUBSET Jobs, batch : Copies]
OpRecord == [node : Nodes, kind : {"put", "delete"}, job : Jobs, attempt : Attempts]

Settled(j) == j \in delivered \cup dead

TypeOK ==
    /\ pending \in [Nodes -> Copies]
    /\ kv \in Copies
    /\ ops \subseteq OpRecord
    /\ loop \in [Nodes -> LoopRecord]
    /\ primary \in [Nodes -> Nodes \cup {Nobody}]
    /\ accepted \subseteq Jobs /\ delivered \subseteq accepted /\ dead \subseteq accepted
    /\ tries \in [Jobs -> 0 .. MaxAttempts]
    /\ lost \subseteq Jobs
    /\ faults \in 0 .. MaxFaults

Init ==
    /\ pending = [n \in Nodes |-> NoJobs]
    /\ kv = NoJobs
    /\ ops = {}
    /\ loop = [n \in Nodes |-> Idle]
    /\ \E m \in Nodes : primary = [n \in Nodes |-> m]
    /\ accepted = {} /\ delivered = {} /\ dead = {}
    /\ tries = [j \in Jobs |-> 0]
    /\ lost = {}
    /\ faults = 0

-----------------------------------------------------------------------------
(* Membership *)

LowestBy(S, rank) == CHOOSE n \in S : \A m \in S : rank[n] <= rank[m]

(* Cluster::elect_among: the lowest peer_id among the healthy candidates,  *)
(* else the first name, healthy or not.                                    *)
ElectAmong(candidates, healthy) ==
    IF candidates \cap healthy # {}
    THEN LowestBy(candidates \cap healthy, [n \in Nodes |-> n])
    ELSE LowestBy(candidates, NameRank)

(* is_primary_for_team fails open when nobody is known to host the tenant. *)
IsPrimary(n) == primary[n] \in {n, Nobody}

(* What gossip and the probes tell n changes; nodes may disagree.          *)
ChangeView(n) ==
    /\ faults < MaxFaults
    /\ \E candidates, healthy \in SUBSET Nodes :
          /\ n \in healthy
          /\ primary' = [primary EXCEPT ![n] = IF candidates = {} THEN Nobody
                                    ELSE ElectAmong(candidates, healthy)]
    /\ primary' # primary
    /\ faults' = faults + 1
    /\ UNCHANGED <<pending, kv, ops, loop, accepted, delivered, dead, tries, lost>>

-----------------------------------------------------------------------------
(* Mirror writes *)

Put(n, j, a) == [node |-> n, kind |-> "put", job |-> j, attempt |-> a]
Delete(n, j) == [node |-> n, kind |-> "delete", job |-> j, attempt |-> 0]

OpLands(o) ==
    /\ o \in ops
    /\ ops' = ops \ {o}
    /\ kv' = [kv EXCEPT ![o.job] = IF o.kind = "put" THEN o.attempt ELSE Absent]
    /\ UNCHANGED <<pending, loop, primary, accepted, delivered, dead, tries, lost, faults>>

(* guardian::put and guardian::delete only log an error.                   *)
OpFails(o) ==
    /\ o \in ops
    /\ faults < MaxFaults
    /\ ops' = ops \ {o}
    /\ lost' = IF o.kind = "put" THEN lost \cup {o.job} ELSE lost
    /\ faults' = faults + 1
    /\ UNCHANGED <<pending, kv, loop, primary, accepted, delivered, dead, tries>>

-----------------------------------------------------------------------------
(* The queue *)

(* Mutant: the job is not mirrored. *)
EnqueueUnmirrored(n, j) ==
    /\ j \notin accepted
    /\ accepted' = accepted \cup {j}
    /\ pending' = [pending EXCEPT ![n][j] = 0]
    /\ UNCHANGED <<kv, ops, loop, primary, delivered, dead, tries, lost, faults>>

(* Mutant: the first attempt is already counted. *)
EnqueueOneBased(n, j) ==
    /\ j \notin accepted
    /\ accepted' = accepted \cup {j}
    /\ pending' = [pending EXCEPT ![n][j] = 1]
    /\ ops' = ops \cup {Put(n, j, 1)}
    /\ UNCHANGED <<kv, loop, primary, delivered, dead, tries, lost, faults>>

Enqueue(n, j) ==
    /\ j \notin accepted
    /\ accepted' = accepted \cup {j}
    /\ pending' = [pending EXCEPT ![n][j] = 0]
    /\ ops' = ops \cup {Put(n, j, 0)}
    /\ UNCHANGED <<kv, loop, primary, delivered, dead, tries, lost, faults>>

(* sync_from_guardian: the keys are listed once, then read one by one.     *)
SyncStart(n) ==
    /\ loop[n].at = "idle"
    /\ primary[n] # Nobody   \* hosted_teams would not contain the tenant
    /\ loop' = [loop EXCEPT ![n].at = IF Held(kv) = {} THEN "take" ELSE "sync",
                            ![n].keys = Held(kv)]
    /\ UNCHANGED <<pending, kv, ops, primary, accepted, delivered, dead, tries, lost, faults>>

(* Mutant: what the mirror holds is not taken over. *)
AdoptNothing(n, j) == UNCHANGED pending

(* adopt: entry(id).or_insert(job).                                        *)
Adopt(n, j) ==
    pending' = [pending EXCEPT ![n][j] = IF @ = Absent THEN kv[j] ELSE @]

SyncKey(n, j) ==
    /\ loop[n].at = "sync" /\ j \in loop[n].keys
    /\ Adopt(n, j)
    /\ loop' = [loop EXCEPT ![n].keys = @ \ {j},
                            ![n].at = IF loop[n].keys = {j} THEN "take" ELSE @]
    /\ UNCHANGED <<kv, ops, primary, accepted, delivered, dead, tries, lost, faults>>

(* take_due removes the jobs D that are due and hands them to the loop.    *)
TakeDue(n, D) ==
    /\ loop[n].at \in {"idle", "take"}
    /\ D \subseteq Held(pending[n])
    /\ D # {} \/ loop[n].at = "take"
    /\ loop' = [loop EXCEPT ![n] =
          [at |-> IF D = {} THEN "idle" ELSE "batch", keys |-> {},
           batch |-> [j \in Jobs |-> IF j \in D THEN pending[n][j] ELSE Absent]]]
    /\ pending' = [pending EXCEPT ![n] = [j \in Jobs |-> IF j \in D THEN Absent ELSE @[j]]]
    /\ UNCHANGED <<kv, ops, primary, accepted, delivered, dead, tries, lost, faults>>

(* The loop goes on with the rest of the batch, or to its next tick.       *)
Without(r, j) ==
    [r EXCEPT !.batch[j] = Absent,
              !.at = IF Held(r.batch) \subseteq {j} THEN "idle" ELSE "batch"]

(* A job of a tenant that is somebody else's now is left out.              *)
SkipJob(n, j) ==
    /\ loop[n].at = "batch" /\ j \in Held(loop[n].batch)
    /\ ~IsPrimary(n)
    /\ loop' = [loop EXCEPT ![n] = Without(@, j)]
    /\ UNCHANGED <<pending, kv, ops, primary, accepted, delivered, dead, tries, lost, faults>>

(* The request is sent; `at` is the job whose answer the loop waits for.   *)
Dispatch(n, j) ==
    /\ loop[n].at = "batch" /\ j \in Held(loop[n].batch)
    /\ IsPrimary(n)
    /\ loop' = [loop EXCEPT ![n].at = j]
    /\ UNCHANGED <<pending, kv, ops, primary, accepted, delivered, dead, tries, lost, faults>>

Delivered(n, j) ==
    /\ loop[n].at = j
    /\ delivered' = delivered \cup {j}
    /\ ops' = ops \cup {Delete(n, j)}
    /\ loop' = [loop EXCEPT ![n] = Without(@, j)]
    /\ UNCHANGED <<pending, kv, primary, accepted, dead, tries, lost, faults>>

NextAttempt(a) == a + 1

(* Mutant: the last attempt is compared without adding it. *)
GivesUpLate(a) == a >= MaxAttempts

(* Mutant: the first failure is final. *)
GivesUpAtOnce(a) == a >= 0

(* No attempt is left: attempt + 1 >= max_attempts.                        *)
GivesUp(a) == a + 1 >= MaxAttempts

(* An error, a refusal or 30 s without an answer.                          *)
DeliveryFails(n, j) ==
    LET a == loop[n].batch[j] IN
    /\ loop[n].at = j
    /\ tries' = [tries EXCEPT ![j] = IF @ < MaxAttempts THEN @ + 1 ELSE @]
    /\ loop' = [loop EXCEPT ![n] = Without(@, j)]
    /\ IF GivesUp(a)
       THEN /\ dead' = dead \cup {j}
            /\ ops' = ops \cup {Delete(n, j)}
            /\ UNCHANGED pending
       ELSE /\ pending' = [pending EXCEPT ![n][j] = NextAttempt(a)]
            /\ ops' = ops \cup {Put(n, j, NextAttempt(a))}
            /\ UNCHANGED dead
    /\ UNCHANGED <<kv, primary, accepted, delivered, lost, faults>>

(* The process dies with its memory and its spawned writes, and restarts.  *)
Crash(n) ==
    LET mine == {o \in ops : o.node = n} IN
    /\ faults < MaxFaults
    /\ pending' = [pending EXCEPT ![n] = NoJobs]
    /\ loop' = [loop EXCEPT ![n] = Idle]
    /\ ops' = ops \ mine
    /\ lost' = lost \cup {o.job : o \in {p \in mine : p.kind = "put"}}
    /\ faults' = faults + 1
    /\ UNCHANGED <<kv, primary, accepted, delivered, dead, tries>>

-----------------------------------------------------------------------------
JobStep(n, j) == SyncKey(n, j) \/ SkipJob(n, j) \/ Dispatch(n, j)
                    \/ Delivered(n, j) \/ DeliveryFails(n, j)

Next ==
    \/ \E n \in Nodes :
          \/ ChangeView(n) \/ SyncStart(n) \/ Crash(n)
          \/ \E j \in Jobs : Enqueue(n, j) \/ JobStep(n, j)
          \/ \E D \in SUBSET Jobs : TakeDue(n, D)
    \/ \E o \in ops : OpLands(o) \/ OpFails(o)

(* The loop is one task with a tick every 200 ms and a sync every 25th, so *)
(* a due job is taken in the next round and a sync always comes: strong    *)
(* fairness, since the other of the two may come first each time.  Spawned *)
(* writes are polled.                                                      *)
Fairness ==
    /\ \A n \in Nodes :
          /\ SF_vars(SyncStart(n))
          /\ WF_vars(TakeDue(n, {}) \/ \E j \in Jobs : JobStep(n, j))
          /\ \A j \in Jobs : SF_vars(\E D \in SUBSET Jobs : j \in D /\ TakeDue(n, D))
    /\ \A n \in Nodes : WF_vars(\E o \in ops : o.node = n /\ OpLands(o))

Spec == Init /\ [][Next]_vars /\ Fairness

-----------------------------------------------------------------------------
(* Properties *)

(* Once enqueue has mirrored a job, no crash, election or failed dispatch  *)
(* loses it: until it is delivered or given up the mirror has it or is     *)
(* about to (enqueue, reschedule, run_delivery_loop).  A write that was    *)
(* itself lost is the one exception.                                       *)
NoJobLost ==
    \A j \in accepted \ lost :
       ~Settled(j) => kv[j] # Absent \/ \E o \in ops : o.job = j /\ o.kind = "put"

(* Stale copies may repeat work but never invent it: whatever order writes *)
(* land in, no copy of a job counts more attempts than have really failed, *)
(* so a job is never given up early (reschedule, adopt, the give-up test). *)
AttemptsHonest ==
    \A j \in Jobs :
       /\ kv[j] # Absent => kv[j] <= tries[j]
       /\ \A n \in Nodes : \A a \in {pending[n][j], loop[n].batch[j]} :
             a # Absent => a <= tries[j]
       /\ \A o \in ops : o.job = j => o.attempt <= tries[j]

(* Every node's delivery loops together implement the queue that one       *)
(* reliable server would be, up to repeated attempts.                      *)
Status == [j \in Jobs |-> CASE j \in delivered -> "delivered"
                            [] j \in dead \ delivered -> "dead"
                            [] j \in accepted \ (delivered \cup dead) -> "accepted"
                            [] OTHER -> "new"]
Abstract == INSTANCE AtLeastOnce WITH status <- Status, failures <- tries
ImplementsAtLeastOnce == Abstract!QSpec

(* Once all nodes elect the same node, every accepted job is delivered or  *)
(* given up, even if its first node is gone: the elected node finds it in  *)
(* the mirror (sync_from_guardian).                                        *)
EveryJobSettles ==
    <>[](\E m \in Nodes : \A n \in Nodes : primary[n] = m)
       => \A j \in Jobs : j \in accepted ~> Settled(j) \/ j \in lost
=============================================================================
