--------------------------- MODULE HiveControlPlane ---------------------------
(***************************************************************************)
(* The Hive control plane (crates/hive-controlplane): job placement, the   *)
(* warm pool of pre-provisioned cells, the capacity ledger of the boxes    *)
(* and the retention of finished jobs.                                     *)
(*                                                                         *)
(* All of `Inner` is guarded by one mutex that is never held across an     *)
(* `.await`, so one action is one critical section together with the       *)
(* completion of the backend call that precedes it.  The log buses live    *)
(* in a separate concurrent map (`logs`); what a handler does to that map  *)
(* outside the mutex is a step of its own.                                 *)
(*                                                                         *)
(* Each cell has at most one task: the build task spawned by               *)
(* `schedule_pass`, the `provision_warm` task or the `teardown_warm` task. *)
(* `task[c]` holds that task's position and its local variables.           *)
(***************************************************************************)
EXTENDS Integers, Sequences, FiniteSets

CONSTANTS
    Jobs,                \* job ids a client may submit
    Images,              \* names of base images
    CellIds,             \* names for cells; a name is reused once forgotten
    JobImage,            \* BuildJob.image
    JobReq,              \* BuildJob.resources
    NBoxes, BoxCap,      \* HiveConfig.boxes: box b offers BoxCap[b]
    WarmImages,          \* HiveConfig.warm_images(), in the order of the map
    WarmTarget,          \* HiveConfig.warm_target_for
    WarmSpec,            \* HiveConfig.warm_spec
    BuildResults,        \* the states BuildResult.job_state() can give
    MaxConcurrentBuilds, \* HiveConfig.max_concurrent_builds
    MaxRetained,         \* max_retained_finished_jobs()
    MaxSubmits,          \* bound: how often a client posts the same job id
    None                 \* Option::None

Boxes == 1 .. NBoxes

ResourceSpec == [vcpus : Nat, mem : Nat, disk : Nat]

ASSUME ConstantsAssumption ==
    /\ IsFiniteSet(Jobs) /\ IsFiniteSet(CellIds)
    /\ None \notin Jobs \cup CellIds \cup Images
    /\ JobImage \in [Jobs -> Images]
    /\ JobReq \in [Jobs -> ResourceSpec]
    /\ NBoxes \in Nat
    /\ BoxCap \in [Boxes -> [vcpus : Nat, mem : Nat]]
    /\ WarmImages \in Seq(Images)
    /\ WarmTarget \in [Images -> Nat]
    /\ WarmSpec \in ResourceSpec
    /\ BuildResults \subseteq {"Succeeded", "Failed", "TimedOut"}
    /\ MaxConcurrentBuilds \in Nat
    /\ MaxRetained \in Nat \ {0}
    /\ MaxSubmits \in [Jobs -> Nat]

VARIABLES
    boxes,          \* [Boxes -> what is reserved on the box]
    cells,          \* the cell table; state "absent" where there is no record
    jobs,           \* the job table; state "absent" where there is no record
    queue,          \* job ids awaiting placement, oldest first
    warm,           \* image -> idle warm cells, oldest first
    warm_pending,   \* image -> warm cells being provisioned
    running_builds, \* builds counted against MaxConcurrentBuilds
    logs,           \* the job ids that have a LogBus in the map
    wake,           \* the permit stored in the scheduler's Notify
    sched,          \* scheduler_loop: waiting, or inside schedule_pass
    auto,           \* autoscaler_loop: position and local variables
    task,           \* the task that works on each cell
    submits,        \* how often each id went through submit's lock section
    published       \* how often each id went through the rest of submit

inner == <<boxes, cells, jobs, queue, warm, warm_pending, running_builds>>
vars == <<boxes, cells, jobs, queue, warm, warm_pending, running_builds,
          logs, wake, sched, auto, task, submits, published>>

-----------------------------------------------------------------------------
(* Records *)

CellStates == {"absent", "Provisioning", "Warm", "Assigned", "Running", "Draining"}
TerminalStates == {"Succeeded", "Failed", "TimedOut", "Canceled"}
JobStates == {"absent", "Queued", "Scheduled", "Building"} \cup TerminalStates

(* Where a build task stands. "lost" is the task that returned because its *)
(* job record was gone, leaving its cell behind.                           *)
BuildPcs == {"provision", "start", "bus", "run", "reap", "reap_logs", "terminate", "lost"}
FailPcs == {"fail_reap", "fail_logs"}
WarmPcs == {"warm_provision", "warm_terminate"}
TaskPcs == {"none"} \cup BuildPcs \cup FailPcs \cup WarmPcs

BoxRecord == [vcpus : Nat, mem : Nat, cells : Nat]
CellRecord == [state : CellStates, box : Boxes \cup {0}, image : Images \cup {None},
               res : ResourceSpec, job : Jobs \cup {None}, handle : BOOLEAN]
JobRecord == [state : JobStates, cell : CellIds \cup {None}]
TaskRecord == [pc : TaskPcs, job : Jobs \cup {None}, evict : SUBSET Jobs]
AutoRecord == [pc : {"scale", "reap_jobs", "reap_logs"},
               img : 1 .. Len(WarmImages) + 1, evict : SUBSET Jobs]

NoSpec == [vcpus |-> 0, mem |-> 0, disk |-> 0]
AbsentCell == [state |-> "absent", box |-> 0, image |-> None, res |-> NoSpec,
               job |-> None, handle |-> FALSE]
AbsentJob == [state |-> "absent", cell |-> None]
QueuedJob == [state |-> "Queued", cell |-> None]
NoTask == [pc |-> "none", job |-> None, evict |-> {}]
Idle == [pc |-> "scale", img |-> 1, evict |-> {}]

Present(c) == cells[c].state # "absent"
Fresh(c) == ~Present(c) /\ task[c].pc = "none"

(* CellId::new(): an id that neither the table nor a task knows.  Which one *)
(* does not matter, so one is fixed.                                        *)
NewCellId == {c \in CellIds : Fresh(c) /\ c = CHOOSE d \in CellIds : Fresh(d)}

-----------------------------------------------------------------------------
(* The capacity ledger *)

SatSub(a, b) == IF b <= a THEN a - b ELSE 0

VcpusFree(b) == SatSub(BoxCap[b].vcpus, boxes[b].vcpus)
MemFree(b) == SatSub(BoxCap[b].mem, boxes[b].mem)
CanFit(b, r) == VcpusFree(b) >= r.vcpus /\ MemFree(b) >= r.mem

Reserve(b, r) ==
    boxes' = [boxes EXCEPT ![b] = [vcpus |-> @.vcpus + r.vcpus,
                                   mem   |-> @.mem + r.mem,
                                   cells |-> @.cells + 1]]

(* Mutant: the record goes, the reservation stays. *)
RemoveCellKeepsBox(c) == cells' = [cells EXCEPT ![c] = AbsentCell] /\ UNCHANGED boxes

(* Mutant: an exit that forgets the cell altogether. *)
RemoveCellForgets(c) == UNCHANGED <<cells, boxes>>

(* Drop cell c's record and give its reservation back to its box. *)
RemoveCell(c) ==
    IF Present(c)
    THEN /\ cells' = [cells EXCEPT ![c] = AbsentCell]
         /\ boxes' = [boxes EXCEPT ![cells[c].box] =
                         [vcpus |-> SatSub(@.vcpus, cells[c].res.vcpus),
                          mem   |-> SatSub(@.mem, cells[c].res.mem),
                          cells |-> SatSub(@.cells, 1)]]
    ELSE UNCHANGED <<cells, boxes>>

(* Worst fit: the box with the most free vCPUs, the last one of equals. *)
PickBox(r) ==
    LET fit == {b \in Boxes : CanFit(b, r)}
    IN  {b \in fit : \A d \in fit : \/ VcpusFree(d) < VcpusFree(b)
                                    \/ VcpusFree(d) = VcpusFree(b) /\ d <= b}

(* Mutant: a box's position in the vector taken for its id. *)
NewCellZeroBased(b, image, r, j) ==
    [state |-> "Provisioning", box |-> b - 1, image |-> image, res |-> r,
     job |-> j, handle |-> FALSE]

NewCell(b, image, r, j) ==
    [state |-> "Provisioning", box |-> b, image |-> image, res |-> r,
     job |-> j, handle |-> FALSE]

Satisfies(res, req) ==
    res.vcpus >= req.vcpus /\ res.mem >= req.mem /\ res.disk >= req.disk

RemoveIdx(s, i) == [k \in 1 .. Len(s) - 1 |-> IF k < i THEN s[k] ELSE s[k + 1]]

-----------------------------------------------------------------------------
(* Submitting a job *)

SubmitRecord(j) ==
    /\ submits[j] < MaxSubmits[j]
    /\ submits' = [submits EXCEPT ![j] = @ + 1]
    /\ jobs' = [jobs EXCEPT ![j] = QueuedJob]
    /\ queue' = Append(queue, j)
    /\ UNCHANGED <<boxes, cells, warm, warm_pending, running_builds, logs,
                   wake, sched, auto, task, published>>

(* The rest of submit: create the bus outside the lock, wake the scheduler. *)
SubmitBus(j) ==
    /\ published[j] < submits[j]
    /\ published' = [published EXCEPT ![j] = @ + 1]
    /\ logs' = logs \cup {j}
    /\ wake' = TRUE
    /\ UNCHANGED <<inner, sched, auto, task, submits>>

-----------------------------------------------------------------------------
(* The scheduler *)

SchedulerWake ==
    /\ sched = "wait" /\ wake
    /\ wake' = FALSE
    /\ sched' = "pass"
    /\ UNCHANGED <<inner, logs, auto, task, submits, published>>

(* The periodic safety tick; a stored permit stays for the next round. *)
SchedulerTick ==
    /\ sched = "wait"
    /\ sched' = "pass"
    /\ UNCHANGED <<inner, logs, wake, auto, task, submits, published>>

(* The positions of the image's pool that hold a big enough warm cell. *)
WarmHits(j) ==
    LET pool == warm[JobImage[j]]
    IN  {p \in 1 .. Len(pool) : /\ cells[pool[p]].state = "Warm"
                                /\ Satisfies(cells[pool[p]].res, JobReq[j])}

Placeable(j) ==
    /\ jobs[j].state # "absent"
    /\ WarmHits(j) # {} \/ PickBox(JobReq[j]) # {}

(* The first position of the queue that decide_one's scan can place. *)
NextPlacement ==
    {i \in 1 .. Len(queue) : /\ Placeable(queue[i])
                             /\ \A k \in 1 .. i - 1 : ~Placeable(queue[k])}

AssignJob(j, c) ==
    jobs' = [jobs EXCEPT ![j] = [@ EXCEPT !.state = "Scheduled", !.cell = c]]

(* Mutant: the warm cell is looked up but not removed from its pool. *)
TakeWarmPeeks(image, p) == UNCHANGED warm

TakeWarm(image, p) == warm' = [warm EXCEPT ![image] = RemoveIdx(@, p)]

PlaceWarm ==
    /\ sched = "pass"
    /\ running_builds < MaxConcurrentBuilds
    /\ \E i \in NextPlacement :
         LET j == queue[i] IN
         \E p \in WarmHits(j) :
           LET c == warm[JobImage[j]][p] IN
           /\ \A q \in WarmHits(j) : p <= q
           /\ TakeWarm(JobImage[j], p)
           /\ queue' = RemoveIdx(queue, i)
           /\ cells' = [cells EXCEPT ![c] = [@ EXCEPT !.state = "Assigned", !.job = j]]
           /\ AssignJob(j, c)
           /\ task' = [task EXCEPT ![c] = [pc |-> "start", job |-> j, evict |-> {}]]
    /\ running_builds' = running_builds + 1
    /\ UNCHANGED <<boxes, warm_pending, logs, wake, sched, auto, submits,
                   published>>

PlaceCold ==
    /\ sched = "pass"
    /\ running_builds < MaxConcurrentBuilds
    /\ \E i \in NextPlacement :
         LET j == queue[i] IN
         /\ WarmHits(j) = {}
         /\ \E b \in PickBox(JobReq[j]), c \in NewCellId :
              /\ Reserve(b, JobReq[j])
              /\ cells' = [cells EXCEPT ![c] = NewCell(b, JobImage[j], JobReq[j], j)]
              /\ AssignJob(j, c)
              /\ task' = [task EXCEPT ![c] = [pc |-> "provision", job |-> j, evict |-> {}]]
         /\ queue' = RemoveIdx(queue, i)
    /\ running_builds' = running_builds + 1
    /\ UNCHANGED <<warm, warm_pending, logs, wake, sched, auto, submits,
                   published>>

PassDone ==
    /\ sched = "pass"
    /\ running_builds >= MaxConcurrentBuilds \/ NextPlacement = {}
    /\ sched' = "wait"
    /\ UNCHANGED <<inner, logs, wake, auto, task, submits, published>>

-----------------------------------------------------------------------------
(* The build task of a cell *)

(* Mutant: an exit that forgets the concurrency counter. *)
BuildLeavesForgets == UNCHANGED running_builds

BuildLeaves == running_builds' = SatSub(running_builds, 1)

(* `if let Some(c) = cells.get_mut(..)`: change a cell that has a record. *)
MoveCell(c, state) ==
    cells' = [cells EXCEPT ![c] = IF Present(c) THEN [@ EXCEPT !.state = state] ELSE @]

BootCell(c, state) ==
    cells' = [cells EXCEPT ![c] = IF Present(c)
                                  THEN [@ EXCEPT !.state = state, !.handle = TRUE]
                                  ELSE @]

SetPc(c, pc) == task' = [task EXCEPT ![c] = [@ EXCEPT !.pc = pc]]

ProvisionOk(c) ==
    /\ task[c].pc = "provision"
    /\ BootCell(c, "Assigned")
    /\ SetPc(c, "start")
    /\ UNCHANGED <<boxes, jobs, queue, warm, warm_pending, running_builds, logs,
                   wake, sched, auto, submits, published>>

FinishJob(j, state) ==
    jobs' = [jobs EXCEPT ![j] = IF @.state # "absent" THEN [@ EXCEPT !.state = state] ELSE @]

(* backend.provision fails: the lock section of fail_provision. *)
ProvisionErr(c) ==
    /\ task[c].pc = "provision"
    /\ RemoveCell(c)
    /\ FinishJob(task[c].job, "Failed")
    /\ BuildLeaves
    /\ SetPc(c, "fail_reap")
    /\ UNCHANGED <<queue, warm, warm_pending, logs, wake, sched, auto, submits,
                   published>>

BuildStart(c) ==
    /\ task[c].pc = "start"
    /\ MoveCell(c, "Running")
    /\ IF jobs[task[c].job].state # "absent"
       THEN /\ jobs' = [jobs EXCEPT ![task[c].job] = [@ EXCEPT !.state = "Building"]]
            /\ SetPc(c, "bus")
       ELSE /\ SetPc(c, "lost")
            /\ UNCHANGED jobs
    /\ UNCHANGED <<boxes, queue, warm, warm_pending, running_builds, logs, wake,
                   sched, auto, submits, published>>

BuildBus(c) ==
    /\ task[c].pc = "bus"
    /\ logs' = logs \cup {task[c].job}
    /\ SetPc(c, "run")
    /\ UNCHANGED <<inner, wake, sched, auto, submits, published>>

(* Mutant: a backend error leaves the function early. *)
BuildEndBails(c) ==
    /\ task[c].pc = "run"
    /\ \/ \E state \in BuildResults : FinishJob(task[c].job, state) /\ SetPc(c, "reap")
       \/ SetPc(c, "lost") /\ UNCHANGED jobs
    /\ UNCHANGED <<boxes, cells, queue, warm, warm_pending, running_builds, logs,
                   wake, sched, auto, submits, published>>

(* run_build returns: BuildResult.job_state(), or Failed on a backend error. *)
BuildEnd(c) ==
    /\ task[c].pc = "run"
    /\ \E state \in BuildResults \cup {"Failed"} : FinishJob(task[c].job, state)
    /\ SetPc(c, "reap")
    /\ UNCHANGED <<boxes, cells, queue, warm, warm_pending, running_builds, logs,
                   wake, sched, auto, submits, published>>

(* Mutant: a local list of states instead of is_terminal(). *)
FinishedOrRunning == {j \in Jobs : jobs[j].state \notin {"absent", "Queued", "Scheduled"}}

Finished == {j \in Jobs : jobs[j].state \in TerminalStates}

(* What reap_finished_jobs evicts: the finished jobs beyond the bound.  The  *)
(* code takes the smallest finished_at_ms first; a successful build's stamp  *)
(* comes from the clock of its cell, so the order in which results reach     *)
(* the table does not decide which jobs those are.                           *)
Evictions ==
    {E \in SUBSET Finished : IF Cardinality(Finished) <= MaxRetained
                             THEN E = {}
                             ELSE Cardinality(Finished \ E) = MaxRetained}

EvictRecords(E) == jobs' = [j \in Jobs |-> IF j \in E THEN AbsentJob ELSE jobs[j]]

TaskReap(c) ==
    /\ task[c].pc \in {"reap", "fail_reap"}
    /\ \E E \in Evictions :
         /\ EvictRecords(E)
         /\ task' = [task EXCEPT ![c] = [@ EXCEPT
                        !.pc = IF task[c].pc = "reap" THEN "reap_logs" ELSE "fail_logs", !.evict = E]]
    /\ UNCHANGED <<boxes, cells, queue, warm, warm_pending, running_builds, logs,
                   wake, sched, auto, submits, published>>

TaskReapLog(c) ==
    /\ \E j \in task[c].evict :
         /\ logs' = logs \ {j}
         /\ task' = [task EXCEPT ![c] = [@ EXCEPT !.evict = task[c].evict \ {j}]]
    /\ UNCHANGED <<inner, wake, sched, auto, submits, published>>

(* The end of fail_provision. *)
FailDone(c) ==
    /\ task[c].pc = "fail_logs" /\ task[c].evict = {}
    /\ task' = [task EXCEPT ![c] = NoTask]
    /\ wake' = TRUE
    /\ UNCHANGED <<inner, logs, sched, auto, submits, published>>

(* Mutant: the cell of a finished build goes back to its pool. *)
DrainCellRecycles(c) ==
    /\ task[c].pc = "reap_logs" /\ task[c].evict = {}
    /\ MoveCell(c, "Warm")
    /\ warm' = [warm EXCEPT ![cells[c].image] = Append(@, c)]
    /\ running_builds' = SatSub(running_builds, 1)
    /\ task' = [task EXCEPT ![c] = NoTask]
    /\ UNCHANGED <<boxes, jobs, queue, warm_pending, logs, wake, sched, auto, submits,
                   published>>

DrainCell(c) ==
    /\ task[c].pc = "reap_logs" /\ task[c].evict = {}
    /\ MoveCell(c, "Draining")
    /\ SetPc(c, "terminate")
    /\ UNCHANGED <<boxes, jobs, queue, warm, warm_pending, running_builds, logs,
                   wake, sched, auto, submits, published>>

(* backend.terminate returned (its error is only logged): release the cell. *)
TeardownCell(c) ==
    /\ task[c].pc = "terminate"
    /\ RemoveCell(c)
    /\ BuildLeaves
    /\ task' = [task EXCEPT ![c] = NoTask]
    /\ wake' = TRUE
    /\ UNCHANGED <<jobs, queue, warm, warm_pending, logs, sched, auto, submits,
                   published>>

-----------------------------------------------------------------------------
(* The autoscaler and the warm pool *)

ScaleImage == WarmImages[auto.img]

BelowTarget == Len(warm[ScaleImage]) + warm_pending[ScaleImage] < WarmTarget[ScaleImage]

ScaleUp ==
    /\ auto.pc = "scale" /\ auto.img <= Len(WarmImages)
    /\ BelowTarget
    /\ \E b \in PickBox(WarmSpec), c \in NewCellId :
         /\ Reserve(b, WarmSpec)
         /\ cells' = [cells EXCEPT ![c] = NewCell(b, ScaleImage, WarmSpec, None)]
         /\ task' = [task EXCEPT ![c] = [NoTask EXCEPT !.pc = "warm_provision"]]
    /\ warm_pending' = [warm_pending EXCEPT ![ScaleImage] = @ + 1]
    /\ UNCHANGED <<jobs, queue, warm, running_builds, logs, wake, sched, auto,
                   submits, published>>

ScaleNext ==
    /\ auto.pc = "scale" /\ auto.img <= Len(WarmImages)
    /\ ~BelowTarget \/ PickBox(WarmSpec) = {}
    /\ auto' = [auto EXCEPT !.img = @ + 1]
    /\ UNCHANGED <<inner, logs, wake, sched, task, submits, published>>

(* The cells a pool keeps.  became_warm_at_ms is stamped under the lock     *)
(* that appends to the pool, so the cells past their TTL are its first n;   *)
(* of the others, those over the target go.                                 *)
Kept(image, n) ==
    LET len == Len(warm[image])
    IN  SubSeq(warm[image], n + 1, IF len <= n + WarmTarget[image] THEN len
                                                                 ELSE n + WarmTarget[image])

Elems(s) == {s[k] : k \in 1 .. Len(s)}

ReapWarm ==
    /\ auto.pc = "scale" /\ auto.img > Len(WarmImages)
    /\ \E stale \in [Images -> 0 .. Cardinality(CellIds)] :
         LET keep == [i \in Images |-> Kept(i, stale[i])]
             reap == UNION {Elems(warm[i]) \ Elems(keep[i]) : i \in Images}
         IN  /\ \A i \in Images : stale[i] <= Len(warm[i])
             /\ warm' = keep
             /\ cells' = [c \in CellIds |->
                            IF c \in reap /\ Present(c)
                            THEN [cells[c] EXCEPT !.state = "Draining"]
                            ELSE cells[c]]
             /\ task' = [c \in CellIds |->
                            IF c \in reap THEN [NoTask EXCEPT !.pc = "warm_terminate"]
                                          ELSE task[c]]
    /\ auto' = [auto EXCEPT !.pc = "reap_jobs"]
    /\ UNCHANGED <<boxes, jobs, queue, warm_pending, running_builds, logs, wake,
                   sched, submits, published>>

AutoReap ==
    /\ auto.pc = "reap_jobs"
    /\ \E E \in Evictions :
         /\ EvictRecords(E)
         /\ auto' = [auto EXCEPT !.pc = "reap_logs", !.evict = E]
    /\ UNCHANGED <<boxes, cells, queue, warm, warm_pending, running_builds, logs,
                   wake, sched, task, submits, published>>

AutoReapLog ==
    /\ auto.pc = "reap_logs"
    /\ \E j \in auto.evict :
         /\ logs' = logs \ {j}
         /\ auto' = [auto EXCEPT !.evict = @ \ {j}]
    /\ UNCHANGED <<inner, wake, sched, task, submits, published>>

AutoSleep ==
    /\ auto.pc = "reap_logs" /\ auto.evict = {}
    /\ auto' = Idle
    /\ UNCHANGED <<inner, logs, wake, sched, task, submits, published>>

WarmReady(c) ==
    /\ task[c].pc = "warm_provision"
    /\ LET image == cells[c].image IN
       /\ warm' = [warm EXCEPT ![image] = Append(@, c)]
       /\ warm_pending' = [warm_pending EXCEPT ![image] = SatSub(@, 1)]
    /\ BootCell(c, "Warm")
    /\ task' = [task EXCEPT ![c] = NoTask]
    /\ wake' = TRUE
    /\ UNCHANGED <<boxes, jobs, queue, running_builds, logs, sched, auto,
                   submits, published>>

WarmFailed(c) ==
    /\ task[c].pc = "warm_provision"
    /\ warm_pending' = [warm_pending EXCEPT ![cells[c].image] = SatSub(@, 1)]
    /\ RemoveCell(c)
    /\ task' = [task EXCEPT ![c] = NoTask]
    /\ UNCHANGED <<jobs, queue, warm, running_builds, logs, wake, sched, auto,
                   submits, published>>

(* Nobody is woken: the capacity is noticed on the next tick. *)
TeardownWarm(c) ==
    /\ task[c].pc = "warm_terminate"
    /\ RemoveCell(c)
    /\ task' = [task EXCEPT ![c] = NoTask]
    /\ UNCHANGED <<jobs, queue, warm, warm_pending, running_builds, logs, wake,
                   sched, auto, submits, published>>

-----------------------------------------------------------------------------

Init ==
    /\ boxes = [b \in Boxes |-> [vcpus |-> 0, mem |-> 0, cells |-> 0]]
    /\ cells = [c \in CellIds |-> AbsentCell]
    /\ jobs = [j \in Jobs |-> AbsentJob]
    /\ queue = <<>>
    /\ warm = [i \in Images |-> <<>>]
    /\ warm_pending = [i \in Images |-> 0]
    /\ running_builds = 0
    /\ logs = {}
    /\ wake = FALSE
    /\ sched = "wait"
    /\ auto = Idle
    /\ task = [c \in CellIds |-> NoTask]
    /\ submits = [j \in Jobs |-> 0]
    /\ published = [j \in Jobs |-> 0]

Submitting == \E j \in Jobs : SubmitRecord(j) \/ SubmitBus(j)

Scheduling == SchedulerWake \/ SchedulerTick \/ PlaceWarm \/ PlaceCold \/ PassDone

BuildTask(c) ==
    \/ ProvisionOk(c) \/ ProvisionErr(c) \/ BuildStart(c) \/ BuildBus(c)
    \/ BuildEnd(c) \/ TaskReap(c) \/ TaskReapLog(c) \/ FailDone(c)
    \/ DrainCell(c) \/ TeardownCell(c)

WarmTask(c) == WarmReady(c) \/ WarmFailed(c) \/ TeardownWarm(c)

Autoscaling ==
    ScaleUp \/ ScaleNext \/ ReapWarm \/ AutoReap \/ AutoReapLog \/ AutoSleep

Next ==
    \/ Submitting
    \/ Scheduling
    \/ \E c \in CellIds : BuildTask(c) \/ WarmTask(c)
    \/ Autoscaling

Spec == Init /\ [][Next]_vars

(* The background loops run for ever, a spawned task is polled until it     *)
(* returns, every backend call returns (a build has a hard timeout), and a  *)
(* submit that took the lock finishes.  Nothing makes a client submit.      *)
Fairness ==
    /\ WF_vars(Scheduling)
    /\ WF_vars(Autoscaling)
    /\ \A c \in CellIds : WF_vars(BuildTask(c) \/ WarmTask(c))
    /\ \A j \in Jobs : WF_vars(SubmitBus(j))

FairSpec == Spec /\ Fairness

-----------------------------------------------------------------------------
(* Properties *)

(* Every record the lock guards is well formed: a present cell names a real *)
(* box and image, and every build task works for a job.                     *)
TypeOK ==
    /\ boxes \in [Boxes -> BoxRecord]
    /\ cells \in [CellIds -> CellRecord]
    /\ \A c \in CellIds : Present(c) => cells[c].box \in Boxes /\ cells[c].image \in Images
    /\ jobs \in [Jobs -> JobRecord]
    /\ queue \in Seq(Jobs)
    /\ warm \in [Images -> Seq(CellIds)]
    /\ warm_pending \in [Images -> Nat]
    /\ running_builds \in Nat
    /\ logs \subseteq Jobs
    /\ wake \in BOOLEAN
    /\ sched \in {"wait", "pass"}
    /\ auto \in AutoRecord
    /\ task \in [CellIds -> TaskRecord]
    /\ \A c \in CellIds : task[c].pc \in BuildPcs => task[c].job \in Jobs
    /\ submits \in [Jobs -> Nat] /\ published \in [Jobs -> Nat]

CellsOn(b) == {c \in CellIds : Present(c) /\ cells[c].box = b}

(* One slot per unit that a cell of S holds: its cardinality is the sum. *)
Slots(S, w) == UNION {{c} \X (1 .. w[c]) : c \in S}
Vcpus == [c \in CellIds |-> cells[c].res.vcpus]
Mem == [c \in CellIds |-> cells[c].res.mem]

(* "Every capacity reservation has exactly one matching release" (lib.rs):  *)
(* what a box's ledger says is reserved is exactly what the cells placed on *)
(* it hold, and never more than the box has, whichever tasks fail.          *)
CapacityExact ==
    \A b \in Boxes :
      /\ boxes[b].vcpus = Cardinality(Slots(CellsOn(b), Vcpus)) /\ boxes[b].vcpus <= BoxCap[b].vcpus
      /\ boxes[b].mem = Cardinality(Slots(CellsOn(b), Mem)) /\ boxes[b].mem <= BoxCap[b].mem
      /\ boxes[b].cells = Cardinality(CellsOn(b))

(* running_builds, incremented by decide_one and decremented by two         *)
(* different exits of the task, counts the build tasks that hold a cell and *)
(* stays within max_concurrent_builds.                                      *)
BuildsExact ==
    /\ running_builds = Cardinality({c \in CellIds : task[c].pc \in BuildPcs})
    /\ running_builds <= MaxConcurrentBuilds

(* warm_pending counts the provision_warm tasks in flight, and a pool plus  *)
(* what is being provisioned for it never exceeds the image's target, so    *)
(* the autoscaler never overshoots however long provisioning takes.         *)
WarmBounded ==
    \A i \in Images :
      /\ warm_pending[i] = Cardinality({c \in CellIds : /\ task[c].pc = "warm_provision"
                                                       /\ cells[c].image = i})
      /\ Len(warm[i]) + warm_pending[i] <= WarmTarget[i]

(* Both counters that one task raises and another lowers are exact, so the  *)
(* scheduler is never starved and the autoscaler never overshoots.          *)
CountersExact == BuildsExact /\ WarmBounded

(* A pool lists each of its cells once, only booted idle cells of its own   *)
(* image that no task works on, and no idle cell is missing from its pool:  *)
(* a cell is never handed out twice and never forgotten by the reaper.      *)
WarmPoolSound ==
    /\ \A i \in Images : \A p, q \in 1 .. Len(warm[i]) :
         LET c == warm[i][p] IN
         /\ cells[c].state = "Warm" /\ cells[c].handle /\ cells[c].image = i
         /\ cells[c].job = None /\ task[c].pc = "none"
         /\ warm[i][p] = warm[i][q] => p = q
    /\ \A c \in CellIds : cells[c].state = "Warm" => c \in Elems(warm[cells[c].image])

(* The state of a cell's record is the one its task's position implies: no  *)
(* task finds its cell removed, moved or handed over behind its back, and a *)
(* build starts on a booted cell, so the "cell has no handle at build time" *)
(* exit of run_build_phase is dead.                                         *)
TaskCellAgree ==
    \A c \in CellIds :
      /\ task[c].pc \in {"provision", "warm_provision"} => cells[c].state = "Provisioning"
      /\ task[c].pc = "start" => cells[c].state = "Assigned" /\ cells[c].handle
      /\ task[c].pc \in {"bus", "run", "reap", "reap_logs", "lost"} => cells[c].state = "Running"
      /\ task[c].pc \in {"terminate", "warm_terminate"} => cells[c].state = "Draining"
      /\ task[c].pc \in FailPcs => ~Present(c)
      /\ task[c].pc = "none" => cells[c].state \in {"absent", "Warm"}
      /\ task[c].pc \in WarmPcs \/ cells[c].state = "Warm" => cells[c].job = None
      /\ task[c].pc \in BuildPcs => cells[c].job = task[c].job

(* Every cell in the table has someone who will release it: its build task, *)
(* its warm task or the pool; a task that returned keeps no cell reserved.  *)
EveryCellOwned ==
    \A c \in CellIds :
      Present(c) <=> \/ task[c].pc \in (BuildPcs \ {"lost"}) \cup WarmPcs
                    \/ \E i \in Images : c \in Elems(warm[i])

(* A job being placed or built agrees with the one cell that serves it.     *)
JobCellAgree ==
    \A j \in Jobs : jobs[j].state \in {"Scheduled", "Building"} =>
      LET c == jobs[j].cell IN
      /\ c \in CellIds /\ cells[c].job = j /\ task[c].job = j
      /\ task[c].pc \in IF jobs[j].state = "Scheduled" THEN {"provision", "start"}
                                                      ELSE {"bus", "run"}

(* The cell table, the pools, the job table and the tasks tell one story:   *)
(* each cell has one owner, each job in progress one cell, and both agree   *)
(* on how far the build is.                                                 *)
CellsAccounted == WarmPoolSound /\ TaskCellAgree /\ EveryCellOwned /\ JobCellAgree

(* "In-flight jobs are never evicted regardless of this number" (lib.rs):   *)
(* a queued job and the job of a task before its result is recorded keep    *)
(* their record.                                                            *)
InFlightNeverEvicted ==
    /\ \A k \in 1 .. Len(queue) : jobs[queue[k]].state = "Queued"
    /\ \A c \in CellIds : task[c].pc \in {"provision", "start", "bus", "run"} =>
                             jobs[task[c].job].state \in {"Scheduled", "Building"}

(* Finished records never exceed the retention bound by more than the tasks *)
(* that recorded a result and have not reaped yet.                          *)
RetentionBounded ==
    Cardinality(Finished) <=
        MaxRetained + Cardinality({c \in CellIds : task[c].pc \in {"reap", "fail_reap"}})

(* A job whose submit returned can have its logs read as long as its record *)
(* is there: eviction never leaves "a JobView whose logs 404".              *)
LogsReadable ==
    \A j \in Jobs : jobs[j].state # "absent" /\ published[j] = submits[j] => j \in logs

(* Retention as a whole: it bounds what is kept, spares what is in flight,  *)
(* and never leaves "a JobView whose logs 404" (lib.rs).                    *)
RetentionSafe == InFlightNeverEvicted /\ RetentionBounded /\ LogsReadable

(* Cells are single-use: once a job is on a cell, no later step gives the   *)
(* cell to another job or puts it back into a pool.                         *)
SingleUse ==
    [][\A c \in CellIds : cells[c].job # None =>
          \/ cells'[c].state = "absent"
          \/ cells'[c].job = cells[c].job /\ cells'[c].state # "Warm"]_vars

(* Every submitted job gets a result (or is already forgotten), through     *)
(* failed provisioning, full boxes and the concurrency limit.               *)
EveryJobFinishes ==
    \A j \in Jobs : jobs[j].state = "Queued" ~> jobs[j].state \in TerminalStates \cup {"absent"}

(* A cell that was given to a job is eventually torn down and its capacity  *)
(* returned, however the build ends.                                        *)
BuildCellsReturn ==
    \A c \in CellIds : task[c].pc \in BuildPcs ~> task[c].pc \notin BuildPcs
=============================================================================
