------------------------ MODULE HiveControlPlaneProofs ------------------------
(***************************************************************************)
(* Proofs about HiveControlPlane for every number of jobs, images, cells   *)
(* and boxes, every capacity and every bound, in four parts.               *)
(*                                                                         *)
(* 1. Types.  TypeOK is inductive as it stands.                            *)
(*                                                                         *)
(* 2. The capacity ledger.  CapacityExact is inductive together with       *)
(*    TypeOK.  A step does one of three things to the ledger and the cell  *)
(*    table: it places a cell that was absent and reserves for it, it      *)
(*    drops a record and gives back what the record says, or it leaves     *)
(*    box, resources and presence of every cell alone.  The sums are       *)
(*    cardinalities of sets of slots, so adding and removing a cell is     *)
(*    adding and removing a disjoint block of slots.                       *)
(*                                                                         *)
(* 3. Cells.  CellsInv says what the pools, the cell table and the tasks   *)
(*    know of each other; single use and the two counters rest on it.      *)
(*    None of it needs to know anything of the job table.                  *)
(*                                                                         *)
(* 4. Jobs.  JobsInv ties the job table to the tasks.  It needs that no    *)
(*    id is posted twice (OncePosted): submit replaces the record of an id *)
(*    it knows, and with it what the record said of its cell and its       *)
(*    state.  The retention bound holds without that hypothesis.           *)
(***************************************************************************)
EXTENDS HiveControlPlane, FiniteSetTheorems, SequenceTheorems, TLAPS

-----------------------------------------------------------------------------
(*****************************************************************************)
(* 1. Types                                                                  *)
(*****************************************************************************)

-----------------------------------------------------------------------------
(* Lemmas about the operators the model is built from *)

LEMMA SatSubType ==
  ASSUME NEW a \in Nat, NEW b \in Nat
  PROVE  SatSub(a, b) \in Nat /\ SatSub(a, b) <= a /\ (b <= a => SatSub(a, b) = a - b)
BY DEF SatSub

(* What VecDeque::remove leaves: one element less, in the same order. *)
LEMMA RemoveIdxSeq ==
  ASSUME NEW S, NEW s \in Seq(S), NEW i \in 1 .. Len(s)
  PROVE  /\ RemoveIdx(s, i) \in Seq(S)
         /\ Len(RemoveIdx(s, i)) = Len(s) - 1
         /\ \A k \in 1 .. Len(s) - 1 :
              RemoveIdx(s, i)[k] = IF k < i THEN s[k] ELSE s[k + 1]
<1> DEFINE r == RemoveIdx(s, i)
<1>1. Len(s) \in Nat /\ \A k \in 1 .. Len(s) : s[k] \in S
  BY LenProperties, ElementOfSeq
<1>2. Len(s) - 1 \in Nat
  BY <1>1
<1>3. r \in [1 .. Len(s) - 1 -> S]
  BY <1>1 DEF RemoveIdx
<1>4. r \in Seq(S)
  BY <1>2, <1>3, SeqDef
<1>5. Len(r) = Len(s) - 1
  BY <1>2, <1>3, <1>4, LenProperties
<1> QED
  BY <1>4, <1>5 DEF RemoveIdx

(* What the reaper keeps of a pool is a stretch of it. *)
LEMMA KeptSeq ==
  ASSUME NEW i \in Images, NEW n \in Nat, warm[i] \in Seq(CellIds), n <= Len(warm[i])
  PROVE  /\ Kept(i, n) \in Seq(CellIds)
         /\ Len(Kept(i, n)) <= Len(warm[i])
         /\ \A k \in 1 .. Len(Kept(i, n)) : k + n \in 1 .. Len(warm[i])
                                            /\ Kept(i, n)[k] = warm[i][k + n]
<1>1. WarmTarget[i] \in Nat
  BY ConstantsAssumption
<1>2. Len(warm[i]) \in Nat
  BY LenProperties
<1> DEFINE m == IF Len(warm[i]) <= n + WarmTarget[i] THEN Len(warm[i])
                                                     ELSE n + WarmTarget[i]
<1>3. m \in Nat /\ n + 1 \in 1 .. Len(warm[i]) + 1 /\ m \in n .. Len(warm[i])
  BY <1>1, <1>2
<1>4. Kept(i, n) = SubSeq(warm[i], n + 1, m)
  BY DEF Kept
<1> HIDE DEF m
<1>5. /\ SubSeq(warm[i], n + 1, m) \in Seq(CellIds)
      /\ Len(SubSeq(warm[i], n + 1, m)) = IF n + 1 <= m THEN m - (n + 1) + 1 ELSE 0
      /\ \A k \in 1 .. m - (n + 1) + 1 :
            SubSeq(warm[i], n + 1, m)[k] = warm[i][n + 1 + k - 1]
  BY <1>2, <1>3, SubSeqProperties
<1> QED
  BY <1>2, <1>3, <1>4, <1>5

-----------------------------------------------------------------------------
(* Type correctness *)

(* Changing fields of a record. *)
LEMMA CellRecordChange ==
  ASSUME NEW r \in CellRecord, NEW st \in CellStates
  PROVE  /\ [r EXCEPT !.state = st] \in CellRecord
         /\ [r EXCEPT !.state = st].state = st
         /\ [r EXCEPT !.state = st].box = r.box
         /\ [r EXCEPT !.state = st].image = r.image
         /\ [r EXCEPT !.state = st].res = r.res
         /\ [r EXCEPT !.state = st].job = r.job
         /\ [r EXCEPT !.state = st].handle = r.handle
         /\ [r EXCEPT !.state = st, !.handle = TRUE] \in CellRecord
         /\ [r EXCEPT !.state = st, !.handle = TRUE].state = st
         /\ [r EXCEPT !.state = st, !.handle = TRUE].box = r.box
         /\ [r EXCEPT !.state = st, !.handle = TRUE].image = r.image
         /\ [r EXCEPT !.state = st, !.handle = TRUE].res = r.res
         /\ [r EXCEPT !.state = st, !.handle = TRUE].job = r.job
         /\ [r EXCEPT !.state = st, !.handle = TRUE].handle = TRUE
BY DEF CellRecord

LEMMA CellRecordAssign ==
  ASSUME NEW r \in CellRecord, NEW j \in Jobs
  PROVE  LET q == [r EXCEPT !.state = "Assigned", !.job = j]
         IN  /\ q \in CellRecord /\ q.state = "Assigned" /\ q.box = r.box
             /\ q.image = r.image /\ q.res = r.res /\ q.job = j /\ q.handle = r.handle
BY DEF CellRecord, CellStates

(* A step of the autoscaler from one of its own records to another. *)
LEMMA AutoRecordChange ==
  ASSUME NEW a \in AutoRecord
  PROVE  /\ \A pc \in {"scale", "reap_jobs", "reap_logs"} :
              /\ [a EXCEPT !.pc = pc] \in AutoRecord
              /\ \A E \in SUBSET Jobs : [a EXCEPT !.pc = pc, !.evict = E] \in AutoRecord
         /\ \A E \in SUBSET Jobs : [a EXCEPT !.evict = E] \in AutoRecord
         /\ \A n \in 1 .. Len(WarmImages) + 1 : [a EXCEPT !.img = n] \in AutoRecord
BY DEF AutoRecord

LEMMA TaskRecordChange ==
  ASSUME NEW t \in TaskRecord, NEW pc \in TaskPcs, NEW E \in SUBSET Jobs
  PROVE  /\ [t EXCEPT !.pc = pc] \in TaskRecord
         /\ [t EXCEPT !.pc = pc].pc = pc
         /\ [t EXCEPT !.pc = pc].job = t.job
         /\ [t EXCEPT !.pc = pc, !.evict = E] \in TaskRecord
         /\ [t EXCEPT !.pc = pc, !.evict = E].pc = pc
         /\ [t EXCEPT !.pc = pc, !.evict = E].job = t.job
         /\ [t EXCEPT !.evict = E] \in TaskRecord
         /\ [t EXCEPT !.evict = E].pc = t.pc
         /\ [t EXCEPT !.evict = E].job = t.job
BY DEF TaskRecord

LEMMA EvictionsAreJobs ==
  ASSUME NEW E \in Evictions
  PROVE  E \subseteq Jobs /\ \A j \in E : jobs[j].state \in TerminalStates
BY DEF Evictions, Finished

(* The records of evicted jobs go and no others change. *)
LEMMA EvictRecordsType ==
  ASSUME TypeOK, NEW E \in Evictions, EvictRecords(E)
  PROVE  jobs' \in [Jobs -> JobRecord]
<1>1. AbsentJob \in JobRecord
  BY DEF AbsentJob, JobRecord, JobStates
<1> QED
  BY <1>1 DEF TypeOK, EvictRecords

(* Dropping a record and giving its reservation back keeps both tables typed. *)
LEMMA RemoveCellType ==
  ASSUME TypeOK, NEW c \in CellIds, RemoveCell(c)
  PROVE  /\ boxes' \in [Boxes -> BoxRecord]
         /\ cells' \in [CellIds -> CellRecord]
         /\ \A d \in CellIds : Present(d)' => cells'[d].box \in Boxes /\ cells'[d].image \in Images
<1>1. CASE ~Present(c)
  BY <1>1 DEF RemoveCell, TypeOK, Present
<1>2. CASE Present(c)
  <2> DEFINE b == cells[c].box
             r == cells[c].res
             left == [vcpus |-> SatSub(boxes[b].vcpus, r.vcpus),
                      mem   |-> SatSub(boxes[b].mem, r.mem),
                      cells |-> SatSub(boxes[b].cells, 1)]
  <2>1. b \in Boxes /\ r \in ResourceSpec
    BY <1>2 DEF TypeOK, CellRecord
  <2>2. /\ boxes[b].vcpus \in Nat /\ boxes[b].mem \in Nat /\ boxes[b].cells \in Nat
        /\ r.vcpus \in Nat /\ r.mem \in Nat
    BY <2>1 DEF TypeOK, BoxRecord, ResourceSpec
  <2>3. left \in BoxRecord
    BY <2>2, SatSubType DEF BoxRecord
  <2>4. boxes' \in [Boxes -> BoxRecord]
    <3>1. boxes' = [boxes EXCEPT ![b] = left]
      BY <1>2 DEF RemoveCell
    <3> HIDE DEF left, b
    <3> QED BY <2>1, <2>3, <3>1 DEF TypeOK
  <2>5. cells' = [cells EXCEPT ![c] = AbsentCell]
    BY <1>2 DEF RemoveCell
  <2>6. AbsentCell \in CellRecord
    BY DEF AbsentCell, CellRecord, CellStates, NoSpec, ResourceSpec
  <2> QED
    BY <2>4, <2>5, <2>6 DEF TypeOK, Present, AbsentCell
<1> QED
  BY <1>1, <1>2

(* What decide_one and reconcile_warm_pool do when they place a new cell. *)
LEMMA PlaceCellType ==
  ASSUME TypeOK, NEW r \in ResourceSpec, NEW b \in PickBox(r), NEW c \in NewCellId,
         NEW image \in Images, NEW j \in Jobs \cup {None},
         Reserve(b, r), cells' = [cells EXCEPT ![c] = NewCell(b, image, r, j)]
  PROVE  /\ boxes' \in [Boxes -> BoxRecord]
         /\ cells' \in [CellIds -> CellRecord]
         /\ \A d \in CellIds : Present(d)' => cells'[d].box \in Boxes /\ cells'[d].image \in Images
<1>1. b \in Boxes /\ c \in CellIds
  BY DEF PickBox, NewCellId
<1>2. boxes' \in [Boxes -> BoxRecord]
  <2> DEFINE taken == [vcpus |-> boxes[b].vcpus + r.vcpus, mem |-> boxes[b].mem + r.mem,
                       cells |-> boxes[b].cells + 1]
  <2>1. taken \in BoxRecord
    BY <1>1 DEF TypeOK, BoxRecord, ResourceSpec
  <2>2. boxes' = [boxes EXCEPT ![b] = taken]
    BY DEF Reserve
  <2> HIDE DEF taken
  <2> QED BY <1>1, <2>1, <2>2 DEF TypeOK
<1>3. NewCell(b, image, r, j) \in CellRecord
  BY <1>1 DEF NewCell, CellRecord, CellStates
<1> QED
  BY <1>1, <1>2, <1>3 DEF TypeOK, Present, NewCell

(* MoveCell and BootCell change a record in place. *)
LEMMA ChangeCellType ==
  ASSUME TypeOK, NEW c \in CellIds, NEW st \in CellStates \ {"absent"},
         MoveCell(c, st) \/ BootCell(c, st)
  PROVE  /\ cells' \in [CellIds -> CellRecord]
         /\ \A d \in CellIds : Present(d)' => cells'[d].box \in Boxes /\ cells'[d].image \in Images
<1> DEFINE r == cells[c]
           r1 == [r EXCEPT !.state = st]
           r2 == [r EXCEPT !.state = st, !.handle = TRUE]
<1>1. r \in CellRecord
  BY DEF TypeOK
<1>2. /\ r1 \in CellRecord /\ r1.box = r.box /\ r1.image = r.image
      /\ r2 \in CellRecord /\ r2.box = r.box /\ r2.image = r.image
  <2>1. st \in CellStates
    OBVIOUS
  <2> HIDE DEF r
  <2> QED BY <1>1, <2>1, CellRecordChange
<1>3. \/ cells' = [cells EXCEPT ![c] = IF Present(c) THEN r1 ELSE cells[c]]
      \/ cells' = [cells EXCEPT ![c] = IF Present(c) THEN r2 ELSE cells[c]]
  BY DEF MoveCell, BootCell
<1> HIDE DEF r1, r2
<1> QED
  BY <1>1, <1>2, <1>3 DEF TypeOK, Present

LEMMA FinishJobType ==
  ASSUME TypeOK, NEW j \in Jobs, NEW st \in TerminalStates, FinishJob(j, st)
  PROVE  jobs' \in [Jobs -> JobRecord]
<1> DEFINE r == IF jobs[j].state # "absent" THEN [jobs[j] EXCEPT !.state = st] ELSE jobs[j]
<1>1. jobs[j] \in JobRecord /\ st \in JobStates
  BY DEF TypeOK, JobStates
<1>2. r \in JobRecord
  BY <1>1 DEF JobRecord
<1>3. jobs' = [jobs EXCEPT ![j] = r]
  BY DEF FinishJob
<1> HIDE DEF r
<1> QED
  BY <1>2, <1>3 DEF TypeOK

LEMMA AssignJobType ==
  ASSUME TypeOK, NEW j \in Jobs, NEW c \in CellIds, AssignJob(j, c)
  PROVE  jobs' \in [Jobs -> JobRecord]
<1> DEFINE r == [jobs[j] EXCEPT !.state = "Scheduled", !.cell = c]
<1>1. jobs[j] \in JobRecord
  BY DEF TypeOK
<1>2. r \in JobRecord
  BY <1>1 DEF JobRecord, JobStates
<1>3. jobs' = [jobs EXCEPT ![j] = r]
  BY DEF AssignJob
<1> HIDE DEF r
<1> QED
  BY <1>2, <1>3 DEF TypeOK

LEMMA SetPcType ==
  ASSUME TypeOK, NEW c \in CellIds, NEW pc \in TaskPcs, SetPc(c, pc),
         pc \in BuildPcs => task[c].pc \in BuildPcs
  PROVE  /\ task' \in [CellIds -> TaskRecord]
         /\ \A d \in CellIds : task'[d].pc \in BuildPcs => task'[d].job \in Jobs
<1> DEFINE t == [task[c] EXCEPT !.pc = pc]
<1>1. task[c] \in TaskRecord
  BY DEF TypeOK
<1>2. t \in TaskRecord /\ t.pc = pc /\ t.job = task[c].job
  BY <1>1 DEF TaskRecord
<1>3. task' = [task EXCEPT ![c] = t]
  BY DEF SetPc
<1> HIDE DEF t
<1> QED
  BY <1>2, <1>3 DEF TypeOK

LEMMA NewTaskType ==
  ASSUME TypeOK, NEW c \in CellIds, NEW t \in TaskRecord,
         task' = [task EXCEPT ![c] = t],
         t.pc \in BuildPcs => t.job \in Jobs
  PROVE  /\ task' \in [CellIds -> TaskRecord]
         /\ \A d \in CellIds : task'[d].pc \in BuildPcs => task'[d].job \in Jobs
BY DEF TypeOK

LEMMA NoTaskType ==
  /\ NoTask \in TaskRecord /\ NoTask.pc \notin BuildPcs
  /\ \A pc \in WarmPcs : /\ [NoTask EXCEPT !.pc = pc] \in TaskRecord
                         /\ [NoTask EXCEPT !.pc = pc].pc \notin BuildPcs
BY DEF NoTask, TaskRecord, TaskPcs, BuildPcs, WarmPcs

LEMMA TypeStep ==
  ASSUME TypeOK, [Next]_vars
  PROVE  TypeOK'
<1> USE ConstantsAssumption
<1>1. ASSUME NEW j \in Jobs, SubmitRecord(j) PROVE TypeOK'
  <2>1. QueuedJob \in JobRecord
    BY DEF QueuedJob, JobRecord, JobStates
  <2> QED BY <1>1, <2>1 DEF TypeOK, SubmitRecord, Present
<1>2. ASSUME NEW j \in Jobs, SubmitBus(j) PROVE TypeOK'
  BY <1>2 DEF TypeOK, SubmitBus, inner, Present
<1>3. CASE SchedulerWake
  BY <1>3 DEF TypeOK, SchedulerWake, inner, Present
<1>4. CASE SchedulerTick
  BY <1>4 DEF TypeOK, SchedulerTick, inner, Present
<1>5. CASE PlaceWarm
  <2>0. PICK i \in NextPlacement : \E p \in WarmHits(queue[i]) :
          LET j == queue[i]
              c == warm[JobImage[j]][p]
          IN /\ TakeWarm(JobImage[j], p)
             /\ queue' = RemoveIdx(queue, i)
             /\ cells' = [cells EXCEPT ![c] = [@ EXCEPT !.state = "Assigned", !.job = j]]
             /\ AssignJob(j, c)
             /\ task' = [task EXCEPT ![c] = [pc |-> "start", job |-> j, evict |-> {}]]
    BY <1>5 DEF PlaceWarm
  <2>1. PICK p \in WarmHits(queue[i]) :
          LET j == queue[i]
              c == warm[JobImage[j]][p]
          IN /\ TakeWarm(JobImage[j], p)
             /\ queue' = RemoveIdx(queue, i)
             /\ cells' = [cells EXCEPT ![c] = [@ EXCEPT !.state = "Assigned", !.job = j]]
             /\ AssignJob(j, c)
             /\ task' = [task EXCEPT ![c] = [pc |-> "start", job |-> j, evict |-> {}]]
    BY <2>0
  <2> DEFINE j == queue[i]
             c == warm[JobImage[j]][p]
  <2>2. queue \in Seq(Jobs) /\ i \in 1 .. Len(queue) /\ j \in Jobs /\ JobImage[j] \in Images
    BY ElementOfSeq DEF NextPlacement, TypeOK
  <2>3. warm[JobImage[j]] \in Seq(CellIds) /\ p \in 1 .. Len(warm[JobImage[j]])
        /\ c \in CellIds /\ cells[c].state = "Warm"
    BY <2>2, ElementOfSeq DEF WarmHits, TypeOK
  <2>4. queue' \in Seq(Jobs)
    BY <2>1, <2>2, RemoveIdxSeq
  <2>5. warm' \in [Images -> Seq(CellIds)]
    BY <2>1, <2>2, <2>3, RemoveIdxSeq DEF TypeOK, TakeWarm
  <2> HIDE DEF j, c
  <2>6. /\ cells' = [cells EXCEPT ![c] = [@ EXCEPT !.state = "Assigned", !.job = j]]
        /\ AssignJob(j, c)
        /\ task' = [task EXCEPT ![c] = [pc |-> "start", job |-> j, evict |-> {}]]
    BY <2>1 DEF j, c
  <2>7. cells' \in [CellIds -> CellRecord]
        /\ \A d \in CellIds : Present(d)' => cells'[d].box \in Boxes /\ cells'[d].image \in Images
    <3> DEFINE r == cells[c]
               q == [r EXCEPT !.state = "Assigned", !.job = j]
    <3>1. r \in CellRecord /\ r.box \in Boxes /\ r.image \in Images
      BY <2>3 DEF TypeOK, Present
    <3>2. q \in CellRecord /\ q.box = r.box /\ q.image = r.image
      <4> HIDE DEF r
      <4> QED BY <2>2, <3>1, CellRecordAssign
    <3>3. cells' = [cells EXCEPT ![c] = q]
      BY <2>6
    <3> HIDE DEF q
    <3> QED BY <2>3, <3>1, <3>2, <3>3 DEF TypeOK, Present
  <2>8. jobs' \in [Jobs -> JobRecord]
    BY <2>2, <2>3, <2>6, AssignJobType
  <2>9. task' \in [CellIds -> TaskRecord]
        /\ \A d \in CellIds : task'[d].pc \in BuildPcs => task'[d].job \in Jobs
    <3>1. [pc |-> "start", job |-> j, evict |-> {}] \in TaskRecord
      BY <2>2 DEF TaskRecord, TaskPcs, BuildPcs
    <3> QED BY <2>2, <2>3, <2>6, <3>1, NewTaskType
  <2>10. /\ running_builds' = running_builds + 1
         /\ UNCHANGED <<boxes, warm_pending, logs, wake, sched, auto, submits, published>>
    BY <1>5 DEF PlaceWarm
  <2>11. running_builds' \in Nat
    <3>1. running_builds \in Nat /\ running_builds' = running_builds + 1
      BY <2>10 DEF TypeOK
    <3> QED BY <3>1
  <2> QED
    BY <2>4, <2>5, <2>7, <2>8, <2>9, <2>10, <2>11 DEF TypeOK
<1>6. CASE PlaceCold
  <2>0. PICK i \in NextPlacement : \E b \in PickBox(JobReq[queue[i]]), c \in NewCellId :
          LET j == queue[i]
          IN /\ Reserve(b, JobReq[j])
             /\ cells' = [cells EXCEPT ![c] = NewCell(b, JobImage[j], JobReq[j], j)]
             /\ AssignJob(j, c)
             /\ task' = [task EXCEPT ![c] = [pc |-> "provision", job |-> j, evict |-> {}]]
             /\ queue' = RemoveIdx(queue, i)
    BY <1>6 DEF PlaceCold
  <2>1. PICK b \in PickBox(JobReq[queue[i]]), c \in NewCellId :
          LET j == queue[i]
          IN /\ Reserve(b, JobReq[j])
             /\ cells' = [cells EXCEPT ![c] = NewCell(b, JobImage[j], JobReq[j], j)]
             /\ AssignJob(j, c)
             /\ task' = [task EXCEPT ![c] = [pc |-> "provision", job |-> j, evict |-> {}]]
             /\ queue' = RemoveIdx(queue, i)
    BY <2>0
  <2> DEFINE j == queue[i]
  <2>2. queue \in Seq(Jobs) /\ i \in 1 .. Len(queue) /\ j \in Jobs /\ JobImage[j] \in Images
        /\ JobReq[j] \in ResourceSpec
    BY ElementOfSeq DEF NextPlacement, TypeOK
  <2>3. c \in CellIds
    BY DEF NewCellId
  <2>4. queue' \in Seq(Jobs)
    BY <2>1, <2>2, RemoveIdxSeq
  <2>5. /\ boxes' \in [Boxes -> BoxRecord]
        /\ cells' \in [CellIds -> CellRecord]
        /\ \A d \in CellIds : Present(d)' => cells'[d].box \in Boxes /\ cells'[d].image \in Images
    <3> HIDE DEF j
    <3>1. b \in PickBox(JobReq[j]) /\ Reserve(b, JobReq[j])
          /\ cells' = [cells EXCEPT ![c] = NewCell(b, JobImage[j], JobReq[j], j)]
      BY <2>1 DEF j
    <3> QED BY <2>2, <3>1, PlaceCellType
  <2>6. jobs' \in [Jobs -> JobRecord]
    <3> HIDE DEF j
    <3>1. AssignJob(j, c)
      BY <2>1 DEF j
    <3> QED BY <2>2, <2>3, <3>1, AssignJobType
  <2>7. task' \in [CellIds -> TaskRecord]
        /\ \A d \in CellIds : task'[d].pc \in BuildPcs => task'[d].job \in Jobs
    <3> HIDE DEF j
    <3>1. [pc |-> "provision", job |-> j, evict |-> {}] \in TaskRecord
      BY <2>2 DEF TaskRecord, TaskPcs, BuildPcs
    <3>2. task' = [task EXCEPT ![c] = [pc |-> "provision", job |-> j, evict |-> {}]]
      BY <2>1 DEF j
    <3> QED BY <2>2, <2>3, <3>1, <3>2, NewTaskType
  <2>8. /\ running_builds' = running_builds + 1
        /\ UNCHANGED <<warm, warm_pending, logs, wake, sched, auto, submits, published>>
    BY <1>6 DEF PlaceCold
  <2>9. running_builds' \in Nat
    <3>1. running_builds \in Nat
      BY DEF TypeOK
    <3> QED BY <2>8, <3>1
  <2> QED
    BY <2>4, <2>5, <2>6, <2>7, <2>8, <2>9 DEF TypeOK
<1>7. CASE PassDone
  BY <1>7 DEF TypeOK, PassDone, inner, Present
<1>8. ASSUME NEW c \in CellIds, ProvisionOk(c) PROVE TypeOK'
  <2>1. "Assigned" \in CellStates \ {"absent"} /\ "start" \in TaskPcs /\ task[c].pc \in BuildPcs
    BY <1>8 DEF CellStates, TaskPcs, BuildPcs, ProvisionOk
  <2> QED BY <1>8, <2>1, ChangeCellType, SetPcType DEF TypeOK, ProvisionOk
<1>9. ASSUME NEW c \in CellIds, ProvisionErr(c) PROVE TypeOK'
  <2>1. "fail_reap" \in TaskPcs \ BuildPcs /\ task[c].job \in Jobs /\ "Failed" \in TerminalStates
    BY <1>9 DEF TaskPcs, FailPcs, BuildPcs, ProvisionErr, TypeOK, TerminalStates
  <2>2. running_builds' \in Nat
    BY <1>9, SatSubType DEF ProvisionErr, BuildLeaves, TypeOK
  <2> QED BY <1>9, <2>1, <2>2, RemoveCellType, FinishJobType, SetPcType DEF TypeOK, ProvisionErr
<1>10. ASSUME NEW c \in CellIds, BuildStart(c) PROVE TypeOK'
  <2>1. /\ "Running" \in CellStates \ {"absent"} /\ {"bus", "lost"} \subseteq TaskPcs
        /\ task[c].pc \in BuildPcs /\ task[c].job \in Jobs
    BY <1>10 DEF CellStates, TaskPcs, BuildPcs, BuildStart, TypeOK
  <2>2. jobs' \in [Jobs -> JobRecord]
    <3> DEFINE j == task[c].job
               r == [jobs[j] EXCEPT !.state = "Building"]
    <3>1. jobs[j] \in JobRecord
      BY <2>1 DEF TypeOK
    <3>2. r \in JobRecord
      BY <3>1 DEF JobRecord, JobStates
    <3>3. jobs' = [jobs EXCEPT ![j] = r] \/ jobs' = jobs
      BY <1>10 DEF BuildStart
    <3> HIDE DEF j, r
    <3> QED BY <3>2, <3>3 DEF TypeOK
  <2>3. SetPc(c, "bus") \/ SetPc(c, "lost")
    BY <1>10 DEF BuildStart
  <2> QED BY <1>10, <2>1, <2>2, <2>3, ChangeCellType, SetPcType DEF TypeOK, BuildStart
<1>11. ASSUME NEW c \in CellIds, BuildBus(c) PROVE TypeOK'
  <2>1. "run" \in TaskPcs /\ task[c].pc \in BuildPcs /\ task[c].job \in Jobs
    BY <1>11 DEF TaskPcs, BuildPcs, BuildBus, TypeOK
  <2> QED BY <1>11, <2>1, SetPcType DEF TypeOK, BuildBus, inner, Present
<1>12. ASSUME NEW c \in CellIds, BuildEnd(c) PROVE TypeOK'
  <2>1. /\ "reap" \in TaskPcs /\ task[c].pc \in BuildPcs /\ task[c].job \in Jobs
        /\ BuildResults \cup {"Failed"} \subseteq TerminalStates
    BY <1>12 DEF TaskPcs, BuildPcs, BuildEnd, TypeOK, TerminalStates
  <2>2. jobs' \in [Jobs -> JobRecord]
    <3>1. \E st \in TerminalStates : FinishJob(task[c].job, st)
      BY <1>12, <2>1 DEF BuildEnd
    <3> QED BY <2>1, <3>1, FinishJobType
  <2> QED BY <1>12, <2>1, <2>2, SetPcType DEF TypeOK, BuildEnd, Present
<1>13. ASSUME NEW c \in CellIds, TaskReap(c) PROVE TypeOK'
  <2>1. PICK E \in Evictions :
          /\ EvictRecords(E)
          /\ task' = [task EXCEPT ![c] = [@ EXCEPT
                        !.pc = IF task[c].pc = "reap" THEN "reap_logs" ELSE "fail_logs", !.evict = E]]
    BY <1>13 DEF TaskReap
  <2>2. jobs' \in [Jobs -> JobRecord] /\ E \subseteq Jobs
    BY <2>1, EvictRecordsType, EvictionsAreJobs
  <2> DEFINE pc == IF task[c].pc = "reap" THEN "reap_logs" ELSE "fail_logs"
             t == [task[c] EXCEPT !.pc = pc, !.evict = E]
  <2>3. t \in TaskRecord /\ (t.pc \in BuildPcs => t.job \in Jobs)
    <3>1. /\ task[c] \in TaskRecord /\ pc \in TaskPcs
          /\ pc \in BuildPcs => task[c].job \in Jobs
      BY <1>13 DEF TaskReap, TypeOK, TaskPcs, BuildPcs, FailPcs
    <3> DEFINE u == task[c]
    <3>2. u \in TaskRecord /\ E \in SUBSET Jobs
      BY <2>2, <3>1
    <3> HIDE DEF pc, u
    <3>3. /\ [u EXCEPT !.pc = pc, !.evict = E] \in TaskRecord
          /\ [u EXCEPT !.pc = pc, !.evict = E].pc = pc
          /\ [u EXCEPT !.pc = pc, !.evict = E].job = u.job
      BY <3>1, <3>2 DEF TaskRecord
    <3> QED BY <3>1, <3>3 DEF u
  <2>4. task' = [task EXCEPT ![c] = t]
    BY <2>1
  <2> HIDE DEF t
  <2>5. /\ task' \in [CellIds -> TaskRecord]
        /\ \A d \in CellIds : task'[d].pc \in BuildPcs => task'[d].job \in Jobs
    BY <2>3, <2>4, NewTaskType
  <2> QED BY <1>13, <2>2, <2>5 DEF TypeOK, TaskReap, Present
<1>14. ASSUME NEW c \in CellIds, TaskReapLog(c) PROVE TypeOK'
  <2>1. PICK j \in task[c].evict : logs' = logs \ {j} /\ task' = [task EXCEPT ![c] = [@ EXCEPT !.evict = task[c].evict \ {j}]]
    BY <1>14 DEF TaskReapLog
  <2> DEFINE E == task[c].evict \ {j}
             t == [task[c] EXCEPT !.evict = E]
  <2>2. t \in TaskRecord /\ (t.pc \in BuildPcs => t.job \in Jobs)
    <3>1. /\ task[c] \in TaskRecord /\ E \in SUBSET Jobs
          /\ task[c].pc \in BuildPcs => task[c].job \in Jobs
      BY DEF TypeOK, TaskRecord
    <3>2. "none" \in TaskPcs
      BY DEF TaskPcs
    <3> DEFINE u == task[c]
    <3>3. u \in TaskRecord
      BY <3>1
    <3> HIDE DEF E, u
    <3>4. /\ [u EXCEPT !.evict = E] \in TaskRecord
          /\ [u EXCEPT !.evict = E].pc = u.pc
          /\ [u EXCEPT !.evict = E].job = u.job
      BY <3>1, <3>2, <3>3, TaskRecordChange
    <3> QED BY <3>1, <3>4 DEF u
  <2>3. task' = [task EXCEPT ![c] = t]
    BY <2>1
  <2> HIDE DEF t
  <2>4. /\ task' \in [CellIds -> TaskRecord]
        /\ \A d \in CellIds : task'[d].pc \in BuildPcs => task'[d].job \in Jobs
    BY <2>2, <2>3, NewTaskType
  <2> QED BY <1>14, <2>1, <2>4 DEF TypeOK, TaskReapLog, inner, Present
<1>15. ASSUME NEW c \in CellIds, FailDone(c) PROVE TypeOK'
  BY <1>15, NoTaskType, NewTaskType DEF TypeOK, FailDone, inner, Present
<1>16. ASSUME NEW c \in CellIds, DrainCell(c) PROVE TypeOK'
  <2>1. "Draining" \in CellStates \ {"absent"} /\ "terminate" \in TaskPcs /\ task[c].pc \in BuildPcs
    BY <1>16 DEF CellStates, TaskPcs, BuildPcs, DrainCell
  <2> QED BY <1>16, <2>1, ChangeCellType, SetPcType DEF TypeOK, DrainCell
<1>17. ASSUME NEW c \in CellIds, TeardownCell(c) PROVE TypeOK'
  <2>1. running_builds' \in Nat
    BY <1>17, SatSubType DEF TeardownCell, BuildLeaves, TypeOK
  <2> QED BY <1>17, <2>1, RemoveCellType, NoTaskType, NewTaskType DEF TypeOK, TeardownCell
<1>18. ASSUME NEW c \in CellIds, WarmReady(c) PROVE TypeOK'
  <2>1. "Warm" \in CellStates \ {"absent"}
    BY DEF CellStates
  <2>2. warm' \in [Images -> Seq(CellIds)]
    <3>1. /\ warm \in [Images -> Seq(CellIds)]
          /\ warm' = [warm EXCEPT ![cells[c].image] = Append(warm[cells[c].image], c)]
      BY <1>18 DEF WarmReady, TypeOK
    <3>2. \A s \in Seq(CellIds) : Append(s, c) \in Seq(CellIds)
      BY AppendProperties
    <3> QED BY <3>1, <3>2
  <2>3. warm_pending' \in [Images -> Nat]
    BY <1>18, SatSubType DEF WarmReady, TypeOK
  <2> QED BY <1>18, <2>1, <2>2, <2>3, ChangeCellType, NoTaskType, NewTaskType DEF TypeOK, WarmReady
<1>19. ASSUME NEW c \in CellIds, WarmFailed(c) PROVE TypeOK'
  <2>1. warm_pending' \in [Images -> Nat]
    BY <1>19, SatSubType DEF WarmFailed, TypeOK
  <2> QED BY <1>19, <2>1, RemoveCellType, NoTaskType, NewTaskType DEF TypeOK, WarmFailed
<1>20. ASSUME NEW c \in CellIds, TeardownWarm(c) PROVE TypeOK'
  BY <1>20, RemoveCellType, NoTaskType, NewTaskType DEF TypeOK, TeardownWarm
<1>21. CASE ScaleUp
  <2>1. PICK b \in PickBox(WarmSpec), c \in NewCellId :
          /\ Reserve(b, WarmSpec)
          /\ cells' = [cells EXCEPT ![c] = NewCell(b, ScaleImage, WarmSpec, None)]
          /\ task' = [task EXCEPT ![c] = [NoTask EXCEPT !.pc = "warm_provision"]]
    BY <1>21 DEF ScaleUp
  <2>2. c \in CellIds /\ ScaleImage \in Images /\ "warm_provision" \in WarmPcs
    <3>1. auto \in AutoRecord /\ auto.img <= Len(WarmImages) /\ Len(WarmImages) \in Nat
      BY <1>21, LenProperties DEF ScaleUp, TypeOK
    <3>2. auto.img \in 1 .. Len(WarmImages)
      BY <3>1 DEF AutoRecord
    <3>3. ScaleImage \in Images
      BY <3>2, ElementOfSeq DEF ScaleImage
    <3> QED BY <3>3 DEF NewCellId, WarmPcs
  <2>3. warm_pending' \in [Images -> Nat]
    <3>1. /\ warm_pending \in [Images -> Nat]
          /\ warm_pending' = [warm_pending EXCEPT ![ScaleImage] = warm_pending[ScaleImage] + 1]
      BY <1>21 DEF ScaleUp, TypeOK
    <3> QED BY <2>2, <3>1
  <2> QED BY <1>21, <2>1, <2>2, <2>3, PlaceCellType, NoTaskType, NewTaskType DEF TypeOK, ScaleUp
<1>22. CASE ScaleNext
  <2>1. auto' \in AutoRecord
    <3>1. auto \in AutoRecord /\ auto.img <= Len(WarmImages) /\ Len(WarmImages) \in Nat
      BY <1>22, LenProperties DEF ScaleNext, TypeOK
    <3>2. auto.img + 1 \in 1 .. Len(WarmImages) + 1
      BY <3>1 DEF AutoRecord
    <3>3. auto' = [auto EXCEPT !.img = auto.img + 1]
      BY <1>22 DEF ScaleNext
    <3> QED BY <3>1, <3>2, <3>3, AutoRecordChange
  <2> QED BY <1>22, <2>1 DEF TypeOK, ScaleNext, inner, Present
<1>23. CASE ReapWarm
  <2>1. PICK stale \in [Images -> 0 .. Cardinality(CellIds)] :
          LET keep == [i \in Images |-> Kept(i, stale[i])]
              reap == UNION {Elems(warm[i]) \ Elems(keep[i]) : i \in Images}
          IN  /\ \A i \in Images : stale[i] <= Len(warm[i])
              /\ warm' = keep
              /\ cells' = [c \in CellIds |->
                             IF c \in reap /\ Present(c)
                             THEN [cells[c] EXCEPT !.state = "Draining"]
                             ELSE cells[c]]
              /\ task' = [c \in CellIds |->
                             IF c \in reap THEN [NoTask EXCEPT !.pc = "warm_terminate"]
                                           ELSE task[c]]
    BY <1>23 DEF ReapWarm
  <2>2. warm' \in [Images -> Seq(CellIds)]
    <3>1. ASSUME NEW i \in Images PROVE Kept(i, stale[i]) \in Seq(CellIds)
      <4>1. stale[i] \in Nat
        BY FS_CardinalityType
      <4> QED BY <2>1, <4>1, KeptSeq DEF TypeOK
    <3> QED BY <2>1, <3>1
  <2> DEFINE reap == UNION {Elems(warm[i]) \ Elems(Kept(i, stale[i])) : i \in Images}
  <2>3. /\ cells' = [c \in CellIds |-> IF c \in reap /\ Present(c)
                                       THEN [cells[c] EXCEPT !.state = "Draining"]
                                       ELSE cells[c]]
        /\ task' = [c \in CellIds |-> IF c \in reap THEN [NoTask EXCEPT !.pc = "warm_terminate"]
                                                    ELSE task[c]]
    BY <2>1
  <2> HIDE DEF reap
  <2>4. /\ cells' \in [CellIds -> CellRecord]
        /\ \A d \in CellIds : Present(d)' => cells'[d].box \in Boxes /\ cells'[d].image \in Images
    <3> DEFINE q(c) == [cells[c] EXCEPT !.state = "Draining"]
    <3>1. ASSUME NEW c \in CellIds
          PROVE  q(c) \in CellRecord /\ q(c).box = cells[c].box /\ q(c).image = cells[c].image
      <4> DEFINE r == cells[c]
      <4>1. r \in CellRecord
        BY DEF TypeOK
      <4> HIDE DEF r
      <4>2. [r EXCEPT !.state = "Draining"] \in CellRecord
            /\ [r EXCEPT !.state = "Draining"].box = r.box
            /\ [r EXCEPT !.state = "Draining"].image = r.image
        BY <4>1 DEF CellRecord, CellStates
      <4> QED BY <4>2 DEF r
    <3>2. cells' = [c \in CellIds |-> IF c \in reap /\ Present(c) THEN q(c) ELSE cells[c]]
      BY <2>3
    <3> HIDE DEF q
    <3> QED BY <3>1, <3>2 DEF TypeOK, Present
  <2>5. /\ task' \in [CellIds -> TaskRecord]
        /\ \A d \in CellIds : task'[d].pc \in BuildPcs => task'[d].job \in Jobs
    <3>1. "warm_terminate" \in WarmPcs
      BY DEF WarmPcs
    <3> QED BY <2>3, <3>1, NoTaskType DEF TypeOK
  <2>6. auto' \in AutoRecord
    BY <1>23, AutoRecordChange DEF ReapWarm, TypeOK
  <2> QED BY <1>23, <2>2, <2>4, <2>5, <2>6 DEF TypeOK, ReapWarm
<1>24. CASE AutoReap
  <2>1. PICK E \in Evictions :
          EvictRecords(E) /\ auto' = [auto EXCEPT !.pc = "reap_logs", !.evict = E]
    BY <1>24 DEF AutoReap
  <2>2. jobs' \in [Jobs -> JobRecord] /\ E \subseteq Jobs
    BY <2>1, EvictRecordsType, EvictionsAreJobs
  <2>3. auto' \in AutoRecord
    BY <2>1, <2>2, AutoRecordChange DEF TypeOK
  <2> QED BY <1>24, <2>2, <2>3 DEF TypeOK, AutoReap, Present
<1>25. CASE AutoReapLog
  <2>1. PICK j \in auto.evict : logs' = logs \ {j} /\ auto' = [auto EXCEPT !.evict = @ \ {j}]
    BY <1>25 DEF AutoReapLog
  <2>2. auto \in AutoRecord /\ auto.evict \ {j} \in SUBSET Jobs
    BY DEF TypeOK, AutoRecord
  <2>3. auto' = [auto EXCEPT !.evict = auto.evict \ {j}]
    BY <2>1
  <2>4. auto' \in AutoRecord
    BY <2>2, <2>3, AutoRecordChange
  <2> QED BY <1>25, <2>1, <2>4 DEF TypeOK, AutoReapLog, inner, Present
<1>26. CASE AutoSleep
  <2>1. Len(WarmImages) \in Nat
    BY LenProperties
  <2>2. auto' \in AutoRecord
    BY <1>26, <2>1 DEF AutoSleep, Idle, AutoRecord
  <2> QED BY <1>26, <2>2 DEF TypeOK, AutoSleep, inner, Present
<1>27. CASE UNCHANGED vars
  BY <1>27 DEF TypeOK, vars, Present
<1> QED
  BY <1>1, <1>2, <1>3, <1>4, <1>5, <1>6, <1>7, <1>8, <1>9, <1>10, <1>11, <1>12, <1>13, <1>14,
     <1>15, <1>16, <1>17, <1>18, <1>19, <1>20, <1>21, <1>22, <1>23, <1>24, <1>25, <1>26, <1>27
     DEF Next, Submitting, Scheduling, BuildTask, WarmTask, Autoscaling

LEMMA TypeInit == Init => TypeOK
<1> SUFFICES ASSUME Init PROVE TypeOK
  OBVIOUS
<1> USE ConstantsAssumption DEF Init
<1>1. boxes \in [Boxes -> BoxRecord]
  BY DEF BoxRecord
<1>2. cells \in [CellIds -> CellRecord] /\ \A c \in CellIds : ~Present(c)
  BY DEF CellRecord, AbsentCell, NoSpec, ResourceSpec, CellStates, Present
<1>3. jobs \in [Jobs -> JobRecord]
  BY DEF JobRecord, AbsentJob, JobStates
<1>4. task \in [CellIds -> TaskRecord] /\ \A c \in CellIds : task[c].pc \notin BuildPcs
  BY NoTaskType
<1>5. auto \in AutoRecord
  <2>1. Len(WarmImages) \in Nat
    BY LenProperties
  <2> QED BY <2>1 DEF Idle, AutoRecord
<1>6. queue \in Seq(Jobs) /\ warm \in [Images -> Seq(CellIds)]
  BY EmptySeq
<1>7. /\ warm_pending \in [Images -> Nat] /\ running_builds \in Nat /\ logs \subseteq Jobs
      /\ wake \in BOOLEAN /\ sched \in {"wait", "pass"}
      /\ submits \in [Jobs -> Nat] /\ published \in [Jobs -> Nat]
  OBVIOUS
<1> QED
  BY <1>1, <1>2, <1>3, <1>4, <1>5, <1>6, <1>7 DEF TypeOK

(* Every reachable state of the control plane is well typed: no counter     *)
(* goes below zero, no task works for a job that does not exist and every   *)
(* cell in the table sits on a box and has an image.                        *)
THEOREM TypeCorrect == Spec => []TypeOK
<1>1. Init => TypeOK
  BY TypeInit
<1>2. TypeOK /\ [Next]_vars => TypeOK'
  BY TypeStep
<1> QED
  BY <1>1, <1>2, PTL DEF Spec

-----------------------------------------------------------------------------
(*****************************************************************************)
(* 2. The capacity ledger                                                    *)
(*****************************************************************************)

-----------------------------------------------------------------------------
(* Sums as cardinalities *)

(* Finitely many cells have finitely many slots. *)
LEMMA SlotsFinite ==
  ASSUME NEW S, IsFiniteSet(S), NEW w, \A c \in S : w[c] \in Nat
  PROVE  IsFiniteSet(Slots(S, w)) /\ Cardinality(Slots(S, w)) \in Nat
<1> DEFINE Block(c) == {c} \X (1 .. w[c])
           T == {Block(c) : c \in S}
           f == [c \in S |-> Block(c)]
<1>1. f \in Surjection(S, T)
  BY DEF Surjection
<1>2. IsFiniteSet(T)
  BY <1>1, FS_Surjection
<1>3. ASSUME NEW c \in S PROVE IsFiniteSet(Block(c))
  <2>1. IsFiniteSet({c})
    BY FS_Singleton
  <2>2. w[c] \in Int /\ 1 \in Int
    OBVIOUS
  <2>3. IsFiniteSet(1 .. w[c])
    BY <2>2, FS_Interval
  <2> QED BY <2>1, <2>3, FS_Product
<1>4. \A B \in T : IsFiniteSet(B)
  BY <1>3
<1>5. IsFiniteSet(UNION T)
  BY <1>2, <1>4, FS_UNION
<1> QED
  BY <1>5, FS_CardinalityType DEF Slots

LEMMA Counting ==
  ASSUME NEW n \in Nat
  PROVE  IsFiniteSet(1 .. n) /\ Cardinality(1 .. n) = n
<1>1. 1 \in Int /\ n \in Int /\ 1 <= n + 1 /\ n - 1 + 1 = n
  OBVIOUS
<1> QED BY <1>1, FS_Interval

(* A cell that joins adds exactly what it holds. *)
LEMMA SlotsAdd ==
  ASSUME NEW S, IsFiniteSet(S), NEW c, c \notin S, NEW w,
         \A d \in S \cup {c} : w[d] \in Nat
  PROVE  Cardinality(Slots(S \cup {c}, w)) = Cardinality(Slots(S, w)) + w[c]
<1> DEFINE B == {c} \X (1 .. w[c])
<1>1. w[c] \in Nat
  OBVIOUS
<1>2. IsFiniteSet(B) /\ Cardinality(B) = w[c]
  <2>1. IsFiniteSet({c}) /\ Cardinality({c}) = 1
    BY FS_Singleton
  <2>2. IsFiniteSet(1 .. w[c]) /\ Cardinality(1 .. w[c]) = w[c]
    BY <1>1, Counting
  <2>3. IsFiniteSet(B) /\ Cardinality(B) = Cardinality({c}) * Cardinality(1 .. w[c])
    BY <2>1, <2>2, FS_Product
  <2>4. 1 * w[c] = w[c]
    BY <1>1
  <2> QED BY <2>1, <2>2, <2>3, <2>4
<1>3. IsFiniteSet(Slots(S, w)) /\ Cardinality(Slots(S, w)) \in Nat
  BY SlotsFinite
<1>4. Slots(S \cup {c}, w) = Slots(S, w) \cup B
  BY DEF Slots
<1>5. Slots(S, w) \cap B = {}
  <2> SUFFICES ASSUME NEW x, x \in Slots(S, w), x \in B PROVE FALSE
    OBVIOUS
  <2>1. PICK d \in S : x \in {d} \X (1 .. w[d])
    BY DEF Slots
  <2> QED BY <2>1
<1> HIDE DEF B
<1>6. Cardinality(Slots(S, w) \cup B)
        = Cardinality(Slots(S, w)) + Cardinality(B) - Cardinality(Slots(S, w) \cap B)
  BY <1>2, <1>3, FS_Union
<1>7. Cardinality(Slots(S, w) \cap B) = 0
  BY <1>5, FS_EmptySet
<1> DEFINE old == Cardinality(Slots(S, w))
           new == Cardinality(Slots(S \cup {c}, w))
<1>8. old \in Nat /\ new = old + w[c] - 0
  BY <1>2, <1>3, <1>4, <1>6, <1>7, Zenon
<1> HIDE DEF old, new
<1>9. new = old + w[c]
  BY <1>1, <1>8
<1> QED
  BY <1>9 DEF old, new

LEMMA SlotsCong ==
  ASSUME NEW S, NEW w, NEW v, \A c \in S : w[c] = v[c]
  PROVE  Slots(S, w) = Slots(S, v)
BY DEF Slots

-----------------------------------------------------------------------------
(* The three things a step does to the ledger *)

LEMMA CellTypes ==
  ASSUME TypeOK
  PROVE  /\ \A b \in Boxes : /\ IsFiniteSet(CellsOn(b)) /\ CellsOn(b) \subseteq CellIds
                             /\ boxes[b] \in BoxRecord
                             /\ boxes[b].vcpus \in Nat /\ boxes[b].mem \in Nat
                             /\ boxes[b].cells \in Nat
                             /\ BoxCap[b].vcpus \in Nat /\ BoxCap[b].mem \in Nat
         /\ \A c \in CellIds : /\ Vcpus[c] = cells[c].res.vcpus /\ Vcpus[c] \in Nat
                               /\ Mem[c] = cells[c].res.mem /\ Mem[c] \in Nat
<1>1. ASSUME NEW c \in CellIds PROVE cells[c].res.vcpus \in Nat /\ cells[c].res.mem \in Nat
  <2>1. cells[c] \in CellRecord
    BY DEF TypeOK
  <2>2. cells[c].res \in ResourceSpec
    BY <2>1 DEF CellRecord
  <2> QED BY <2>2 DEF ResourceSpec
<1>2. ASSUME NEW b \in Boxes PROVE boxes[b] \in BoxRecord
  BY DEF TypeOK
<1>3. ASSUME NEW b \in Boxes PROVE IsFiniteSet(CellsOn(b)) /\ CellsOn(b) \subseteq CellIds
  BY ConstantsAssumption, FS_Subset DEF CellsOn
<1> QED
  BY <1>1, <1>2, <1>3, ConstantsAssumption DEF Vcpus, Mem, BoxRecord

(* A step that leaves presence, box and resources of every cell alone. *)
LEMMA CapacityKept ==
  ASSUME TypeOK, CapacityExact, boxes' = boxes,
         \A c \in CellIds : /\ Present(c)' <=> Present(c)
                            /\ cells'[c].box = cells[c].box
                            /\ cells'[c].res = cells[c].res
  PROVE  CapacityExact'
<1>1. \A b \in Boxes : CellsOn(b)' = CellsOn(b)
  BY DEF CellsOn
<1>2. Vcpus' = Vcpus /\ Mem' = Mem
  BY DEF Vcpus, Mem
<1> QED
  BY <1>1, <1>2 DEF CapacityExact

(* Placing a cell: the box that pick_box chose has room for it. *)
LEMMA CapacityPlaced ==
  ASSUME TypeOK, CapacityExact, NEW r \in ResourceSpec, NEW b \in PickBox(r),
         NEW c \in NewCellId, NEW image, NEW j,
         Reserve(b, r), cells' = [cells EXCEPT ![c] = NewCell(b, image, r, j)]
  PROVE  CapacityExact'
<1>1. b \in Boxes /\ CanFit(b, r) /\ c \in CellIds /\ ~Present(c)
  BY DEF PickBox, NewCellId, Fresh
<1>2. cells'[c] = NewCell(b, image, r, j) /\ \A d \in CellIds \ {c} : cells'[d] = cells[d]
  BY <1>1 DEF TypeOK
<1>3. r.vcpus \in Nat /\ r.mem \in Nat
  BY DEF ResourceSpec
<1>4. /\ CellsOn(b)' = CellsOn(b) \cup {c} /\ c \notin CellsOn(b)
      /\ \A d \in Boxes \ {b} : CellsOn(d)' = CellsOn(d)
  BY <1>1, <1>2 DEF CellsOn, Present, NewCell
<1>5. /\ Vcpus'[c] = r.vcpus /\ Mem'[c] = r.mem
      /\ \A d \in CellIds \ {c} : Vcpus'[d] = Vcpus[d] /\ Mem'[d] = Mem[d]
  BY <1>1, <1>2 DEF Vcpus, Mem, NewCell
<1>6. ASSUME NEW d \in Boxes
      PROVE  Slots(CellsOn(d), Vcpus') = Slots(CellsOn(d), Vcpus)
             /\ Slots(CellsOn(d), Mem') = Slots(CellsOn(d), Mem)
  <2>1. \A e \in CellsOn(d) : Vcpus'[e] = Vcpus[e] /\ Mem'[e] = Mem[e]
    BY <1>1, <1>5, CellTypes DEF CellsOn
  <2> QED BY <2>1, SlotsCong
<1>7. /\ Cardinality(Slots(CellsOn(b) \cup {c}, Vcpus')) = boxes[b].vcpus + r.vcpus
      /\ Cardinality(Slots(CellsOn(b) \cup {c}, Mem')) = boxes[b].mem + r.mem
      /\ Cardinality(CellsOn(b) \cup {c}) = boxes[b].cells + 1
  <2>1. \A e \in CellsOn(b) \cup {c} : Vcpus'[e] \in Nat /\ Mem'[e] \in Nat
    BY <1>1, <1>3, <1>5, CellTypes
  <2>2. IsFiniteSet(CellsOn(b))
    BY <1>1, CellTypes
  <2>3. /\ Cardinality(Slots(CellsOn(b) \cup {c}, Vcpus')) = Cardinality(Slots(CellsOn(b), Vcpus')) + r.vcpus
        /\ Cardinality(Slots(CellsOn(b) \cup {c}, Mem')) = Cardinality(Slots(CellsOn(b), Mem')) + r.mem
    <3> DEFINE S == CellsOn(b)
               vs == Vcpus'
               ms == Mem'
    <3>1. /\ IsFiniteSet(S) /\ c \notin S /\ vs[c] = r.vcpus /\ ms[c] = r.mem
          /\ \A e \in S \cup {c} : vs[e] \in Nat /\ ms[e] \in Nat
      BY <1>4, <1>5, <2>1, <2>2
    <3> HIDE DEF S, vs, ms
    <3>2. Cardinality(Slots(S \cup {c}, vs)) = Cardinality(Slots(S, vs)) + r.vcpus
      BY <3>1, SlotsAdd
    <3>3. Cardinality(Slots(S \cup {c}, ms)) = Cardinality(Slots(S, ms)) + r.mem
      BY <3>1, SlotsAdd
    <3> QED BY <3>2, <3>3 DEF S, vs, ms
  <2>4. Cardinality(CellsOn(b) \cup {c}) = Cardinality(CellsOn(b)) + 1
    BY <1>4, <2>2, FS_AddElement
  <2> QED BY <1>1, <1>6, <2>3, <2>4 DEF CapacityExact
<1>8. /\ boxes'[b].vcpus = boxes[b].vcpus + r.vcpus
      /\ boxes'[b].mem = boxes[b].mem + r.mem
      /\ boxes'[b].cells = boxes[b].cells + 1
      /\ \A d \in Boxes \ {b} : boxes'[d] = boxes[d]
  BY <1>1 DEF Reserve, TypeOK
<1>9. boxes[b].vcpus + r.vcpus <= BoxCap[b].vcpus /\ boxes[b].mem + r.mem <= BoxCap[b].mem
  <2>1. boxes[b].vcpus <= BoxCap[b].vcpus /\ boxes[b].mem <= BoxCap[b].mem
    BY <1>1 DEF CapacityExact
  <2>2. /\ boxes[b].vcpus \in Nat /\ boxes[b].mem \in Nat
        /\ BoxCap[b].vcpus \in Nat /\ BoxCap[b].mem \in Nat
    BY <1>1, CellTypes
  <2> QED BY <1>1, <1>3, <2>1, <2>2 DEF CanFit, VcpusFree, MemFree, SatSub
<1> SUFFICES ASSUME NEW d \in Boxes
             PROVE  /\ boxes'[d].vcpus = Cardinality(Slots(CellsOn(d)', Vcpus'))
                    /\ boxes'[d].vcpus <= BoxCap[d].vcpus
                    /\ boxes'[d].mem = Cardinality(Slots(CellsOn(d)', Mem'))
                    /\ boxes'[d].mem <= BoxCap[d].mem
                    /\ boxes'[d].cells = Cardinality(CellsOn(d)')
  BY DEF CapacityExact
<1>10. CASE d = b
  BY <1>4, <1>7, <1>8, <1>9, <1>10
<1>11. CASE d # b
  BY <1>4, <1>6, <1>8, <1>11 DEF CapacityExact
<1> QED
  BY <1>10, <1>11

(* Dropping a record: exactly what it reserved is given back, so the        *)
(* saturating subtraction never saturates.                                  *)
LEMMA CapacityReleased ==
  ASSUME TypeOK, CapacityExact, NEW c \in CellIds, RemoveCell(c)
  PROVE  CapacityExact'
<1>1. CASE ~Present(c)
  <2>1. cells' = cells /\ boxes' = boxes
    BY <1>1 DEF RemoveCell
  <2> QED BY <2>1, CapacityKept DEF Present
<1>2. CASE Present(c)
  <2>0. cells[c].box \in Boxes /\ Vcpus[c] \in Nat /\ Mem[c] \in Nat
    BY <1>2, CellTypes DEF TypeOK
  <2>1. PICK b \in Boxes, v \in Nat, m \in Nat :
          /\ b = cells[c].box
          /\ v = Vcpus[c] /\ v = cells[c].res.vcpus
          /\ m = Mem[c] /\ m = cells[c].res.mem
    BY <2>0, CellTypes
  <2> DEFINE S == CellsOn(b) \ {c}
  <2>2. cells' = [cells EXCEPT ![c] = AbsentCell]
    BY <1>2 DEF RemoveCell
  <2>3. cells'[c] = AbsentCell /\ \A d \in CellIds \ {c} : cells'[d] = cells[d]
    BY <2>2 DEF TypeOK
  <2>4. c \in CellsOn(b) /\ CellsOn(b) = S \cup {c} /\ c \notin S
    BY <1>2, <2>1 DEF CellsOn
  <2>5. /\ CellsOn(b)' = S
        /\ \A d \in Boxes \ {b} : CellsOn(d)' = CellsOn(d)
    BY <2>1, <2>3 DEF CellsOn, Present, AbsentCell
  <2>6. \A d \in CellIds \ {c} : Vcpus'[d] = Vcpus[d] /\ Mem'[d] = Mem[d]
    BY <2>3 DEF Vcpus, Mem
  <2>7. IsFiniteSet(S) /\ S \subseteq CellIds /\ IsFiniteSet(CellsOn(b))
    BY <2>1, CellTypes, FS_RemoveElement
  <2>8. ASSUME NEW T \in SUBSET (CellIds \ {c})
        PROVE  Slots(T, Vcpus') = Slots(T, Vcpus) /\ Slots(T, Mem') = Slots(T, Mem)
    BY <2>6, SlotsCong
  <2>9. /\ Cardinality(Slots(CellsOn(b), Vcpus)) = Cardinality(Slots(S, Vcpus)) + v
        /\ Cardinality(Slots(CellsOn(b), Mem)) = Cardinality(Slots(S, Mem)) + m
        /\ Cardinality(CellsOn(b)) = Cardinality(S) + 1
        /\ Cardinality(Slots(S, Vcpus)) \in Nat /\ Cardinality(Slots(S, Mem)) \in Nat
        /\ Cardinality(S) \in Nat
    <3>1. \A d \in S \cup {c} : Vcpus[d] \in Nat /\ Mem[d] \in Nat
      BY <2>7, CellTypes
    <3>2. /\ Cardinality(Slots(S \cup {c}, Vcpus)) = Cardinality(Slots(S, Vcpus)) + v
          /\ Cardinality(Slots(S \cup {c}, Mem)) = Cardinality(Slots(S, Mem)) + m
      <4> DEFINE vs == Vcpus
                 ms == Mem
      <4>1. /\ IsFiniteSet(S) /\ c \notin S /\ vs[c] = v /\ ms[c] = m
            /\ \A d \in S \cup {c} : vs[d] \in Nat /\ ms[d] \in Nat
        BY <2>1, <2>4, <2>7, <3>1
      <4> HIDE DEF S, vs, ms
      <4>2. Cardinality(Slots(S \cup {c}, vs)) = Cardinality(Slots(S, vs)) + v
        BY <4>1, SlotsAdd
      <4>3. Cardinality(Slots(S \cup {c}, ms)) = Cardinality(Slots(S, ms)) + m
        BY <4>1, SlotsAdd
      <4> QED BY <4>2, <4>3 DEF vs, ms
    <3>3. /\ Cardinality(Slots(S, Vcpus)) \in Nat /\ Cardinality(Slots(S, Mem)) \in Nat
          /\ Cardinality(S) \in Nat
      BY <2>7, <3>1, SlotsFinite, FS_CardinalityType
    <3>4. Cardinality(S \cup {c}) = Cardinality(S) + 1
      BY <2>4, <2>7, FS_AddElement
    <3> QED BY <2>4, <3>2, <3>3, <3>4
  <2>10. /\ boxes'[b].vcpus = SatSub(boxes[b].vcpus, v)
         /\ boxes'[b].mem = SatSub(boxes[b].mem, m)
         /\ boxes'[b].cells = SatSub(boxes[b].cells, 1)
         /\ \A d \in Boxes \ {b} : boxes'[d] = boxes[d]
    BY <1>2, <2>1 DEF RemoveCell, TypeOK
  <2>11. /\ boxes[b].vcpus = Cardinality(Slots(CellsOn(b), Vcpus))
         /\ boxes[b].mem = Cardinality(Slots(CellsOn(b), Mem))
         /\ boxes[b].cells = Cardinality(CellsOn(b))
         /\ boxes[b].vcpus <= BoxCap[b].vcpus /\ boxes[b].mem <= BoxCap[b].mem
    BY <2>1 DEF CapacityExact
  <2>12. BoxCap[b].vcpus \in Nat /\ BoxCap[b].mem \in Nat
    BY <2>1, CellTypes
  <2> HIDE DEF S
  <2>13. /\ boxes'[b].vcpus = Cardinality(Slots(S, Vcpus)) /\ boxes'[b].vcpus <= BoxCap[b].vcpus
         /\ boxes'[b].mem = Cardinality(Slots(S, Mem)) /\ boxes'[b].mem <= BoxCap[b].mem
         /\ boxes'[b].cells = Cardinality(S)
    BY <2>1, <2>9, <2>10, <2>11, <2>12 DEF SatSub
  <2> SUFFICES ASSUME NEW d \in Boxes
               PROVE  /\ boxes'[d].vcpus = Cardinality(Slots(CellsOn(d)', Vcpus'))
                      /\ boxes'[d].vcpus <= BoxCap[d].vcpus
                      /\ boxes'[d].mem = Cardinality(Slots(CellsOn(d)', Mem'))
                      /\ boxes'[d].mem <= BoxCap[d].mem
                      /\ boxes'[d].cells = Cardinality(CellsOn(d)')
    BY DEF CapacityExact
  <2>14. CASE d = b
    <3>1. S \in SUBSET (CellIds \ {c})
      BY <2>4, <2>7
    <3> QED BY <2>5, <2>8, <2>13, <2>14, <3>1
  <2>15. CASE d # b
    <3>1. CellsOn(d) \in SUBSET (CellIds \ {c})
      BY <2>1, <2>15 DEF CellsOn
    <3> QED BY <2>5, <2>8, <2>10, <2>15, <3>1 DEF CapacityExact
  <2> QED BY <2>14, <2>15
<1> QED
  BY <1>1, <1>2

(* MoveCell and BootCell leave presence, box and resources alone. *)
LEMMA ChangeCellKept ==
  ASSUME TypeOK, NEW c \in CellIds, NEW st \in CellStates \ {"absent"},
         MoveCell(c, st) \/ BootCell(c, st)
  PROVE  \A d \in CellIds : /\ Present(d)' <=> Present(d)
                            /\ cells'[d].box = cells[d].box
                            /\ cells'[d].res = cells[d].res
<1> DEFINE r == cells[c]
           r1 == [r EXCEPT !.state = st]
           r2 == [r EXCEPT !.state = st, !.handle = TRUE]
<1>1. r \in CellRecord /\ st \in CellStates
  BY DEF TypeOK
<1>2. /\ r1.state = st /\ r1.box = r.box /\ r1.res = r.res
      /\ r2.state = st /\ r2.box = r.box /\ r2.res = r.res
  <2> HIDE DEF r
  <2> QED BY <1>1, CellRecordChange
<1>3. \/ cells' = [cells EXCEPT ![c] = IF Present(c) THEN r1 ELSE cells[c]]
      \/ cells' = [cells EXCEPT ![c] = IF Present(c) THEN r2 ELSE cells[c]]
  BY DEF MoveCell, BootCell
<1> HIDE DEF r1, r2
<1> QED
  BY <1>2, <1>3 DEF TypeOK, Present

LEMMA CapacityStep ==
  ASSUME TypeOK, CapacityExact, [Next]_vars
  PROVE  CapacityExact'
<1> DEFINE Kept3 == \A d \in CellIds : /\ Present(d)' <=> Present(d)
                                       /\ cells'[d].box = cells[d].box
                                       /\ cells'[d].res = cells[d].res
<1>0. ASSUME UNCHANGED <<boxes, cells>> PROVE CapacityExact'
  BY <1>0, CapacityKept DEF Present
<1>1. CASE Submitting
  BY <1>0, <1>1 DEF Submitting, SubmitRecord, SubmitBus, inner
<1>2. CASE SchedulerWake \/ SchedulerTick \/ PassDone
  BY <1>0, <1>2 DEF SchedulerWake, SchedulerTick, PassDone, inner
<1>3. CASE PlaceWarm
  <2>1. PICK c \in CellIds, j \in Jobs :
          /\ cells[c].state = "Warm"
          /\ cells' = [cells EXCEPT ![c] = [cells[c] EXCEPT !.state = "Assigned", !.job = j]]
    <3>1. PICK i \in NextPlacement : \E p \in WarmHits(queue[i]) :
            LET c == warm[JobImage[queue[i]]][p]
            IN  cells' = [cells EXCEPT ![c] = [cells[c] EXCEPT !.state = "Assigned", !.job = queue[i]]]
      BY <1>3 DEF PlaceWarm
    <3>2. PICK p \in WarmHits(queue[i]) :
            LET c == warm[JobImage[queue[i]]][p]
            IN  cells' = [cells EXCEPT ![c] = [cells[c] EXCEPT !.state = "Assigned", !.job = queue[i]]]
      BY <3>1
    <3>3. queue[i] \in Jobs /\ JobImage[queue[i]] \in Images
      BY ElementOfSeq, ConstantsAssumption DEF NextPlacement, TypeOK
    <3>4. warm[JobImage[queue[i]]][p] \in CellIds /\ cells[warm[JobImage[queue[i]]][p]].state = "Warm"
      BY <3>3, ElementOfSeq DEF WarmHits, TypeOK
    <3> QED BY <3>2, <3>3, <3>4
  <2> DEFINE r == cells[c]
             q == [r EXCEPT !.state = "Assigned", !.job = j]
  <2>2. r \in CellRecord /\ r.state = "Warm"
    BY <2>1 DEF TypeOK
  <2>3. q.state = "Assigned" /\ q.box = r.box /\ q.res = r.res
    <3> HIDE DEF r
    <3> QED BY <2>2, CellRecordAssign
  <2>4. cells' = [cells EXCEPT ![c] = q]
    BY <2>1
  <2> HIDE DEF q
  <2>5. Kept3
    BY <2>2, <2>3, <2>4 DEF TypeOK, Present
  <2>6. boxes' = boxes
    BY <1>3 DEF PlaceWarm
  <2> QED BY <2>5, <2>6, CapacityKept
<1>4. CASE PlaceCold
  <2>1. PICK i \in NextPlacement : \E b \in PickBox(JobReq[queue[i]]), c \in NewCellId :
          /\ Reserve(b, JobReq[queue[i]])
          /\ cells' = [cells EXCEPT ![c] = NewCell(b, JobImage[queue[i]], JobReq[queue[i]], queue[i])]
    BY <1>4 DEF PlaceCold
  <2>2. queue[i] \in Jobs /\ JobReq[queue[i]] \in ResourceSpec
    BY ElementOfSeq, ConstantsAssumption DEF NextPlacement, TypeOK
  <2> QED BY <2>1, <2>2, CapacityPlaced
<1>5. ASSUME NEW c \in CellIds, ProvisionOk(c) \/ BuildStart(c) \/ DrainCell(c) \/ WarmReady(c)
      PROVE  CapacityExact'
  <2>1. /\ boxes' = boxes
        /\ \E st \in {"Assigned", "Running", "Draining", "Warm"} : MoveCell(c, st) \/ BootCell(c, st)
    BY <1>5 DEF ProvisionOk, BuildStart, DrainCell, WarmReady
  <2>2. {"Assigned", "Running", "Draining", "Warm"} \subseteq CellStates \ {"absent"}
    BY DEF CellStates
  <2>3. Kept3
    BY <2>1, <2>2, ChangeCellKept
  <2> QED BY <2>1, <2>3, CapacityKept
<1>6. ASSUME NEW c \in CellIds, ProvisionErr(c) \/ TeardownCell(c) \/ WarmFailed(c) \/ TeardownWarm(c)
      PROVE  CapacityExact'
  <2>1. RemoveCell(c)
    BY <1>6 DEF ProvisionErr, TeardownCell, WarmFailed, TeardownWarm
  <2> QED BY <2>1, CapacityReleased
<1>7. ASSUME NEW c \in CellIds,
             BuildBus(c) \/ BuildEnd(c) \/ TaskReap(c) \/ TaskReapLog(c) \/ FailDone(c)
      PROVE  CapacityExact'
  BY <1>0, <1>7 DEF BuildBus, BuildEnd, TaskReap, TaskReapLog, FailDone, inner
<1>8. CASE ScaleUp
  <2>1. PICK b \in PickBox(WarmSpec), c \in NewCellId :
          /\ Reserve(b, WarmSpec)
          /\ cells' = [cells EXCEPT ![c] = NewCell(b, ScaleImage, WarmSpec, None)]
    BY <1>8 DEF ScaleUp
  <2> QED BY <2>1, CapacityPlaced, ConstantsAssumption
<1>9. CASE ReapWarm
  <2>1. PICK reap :
          cells' = [c \in CellIds |-> IF c \in reap /\ Present(c)
                                     THEN [cells[c] EXCEPT !.state = "Draining"]
                                     ELSE cells[c]]
    BY <1>9 DEF ReapWarm
  <2> DEFINE q(c) == [cells[c] EXCEPT !.state = "Draining"]
  <2>2. ASSUME NEW c \in CellIds
        PROVE  q(c).state = "Draining" /\ q(c).box = cells[c].box /\ q(c).res = cells[c].res
    <3> DEFINE r == cells[c]
    <3>1. r \in CellRecord
      BY DEF TypeOK
    <3> HIDE DEF r
    <3>2. /\ [r EXCEPT !.state = "Draining"].state = "Draining"
          /\ [r EXCEPT !.state = "Draining"].box = r.box
          /\ [r EXCEPT !.state = "Draining"].res = r.res
      BY <3>1 DEF CellRecord
    <3> QED BY <3>2 DEF r
  <2>3. cells' = [c \in CellIds |-> IF c \in reap /\ Present(c) THEN q(c) ELSE cells[c]]
    BY <2>1
  <2> HIDE DEF q
  <2>4. Kept3
    BY <2>2, <2>3 DEF Present
  <2>5. boxes' = boxes
    BY <1>9 DEF ReapWarm
  <2> QED BY <2>4, <2>5, CapacityKept
<1>10. CASE ScaleNext \/ AutoReap \/ AutoReapLog \/ AutoSleep
  BY <1>0, <1>10 DEF ScaleNext, AutoReap, AutoReapLog, AutoSleep, inner
<1>11. CASE UNCHANGED vars
  BY <1>0, <1>11 DEF vars
<1> QED
  BY <1>1, <1>2, <1>3, <1>4, <1>5, <1>6, <1>7, <1>8, <1>9, <1>10, <1>11
     DEF Next, Scheduling, BuildTask, WarmTask, Autoscaling

(* "Every capacity reservation has exactly one matching release", whatever  *)
(* the boxes, jobs, images and bounds, and whichever backend calls fail:    *)
(* each box's reserved vCPUs, memory and cell count are the sums over the   *)
(* cells placed on it, and no box is ever overcommitted.                    *)
THEOREM CapacityCorrect == Spec => []CapacityExact
<1>1. Init => CapacityExact
  <2> SUFFICES ASSUME Init, NEW b \in Boxes
               PROVE  /\ boxes[b].vcpus = Cardinality(Slots(CellsOn(b), Vcpus))
                      /\ boxes[b].vcpus <= BoxCap[b].vcpus
                      /\ boxes[b].mem = Cardinality(Slots(CellsOn(b), Mem))
                      /\ boxes[b].mem <= BoxCap[b].mem
                      /\ boxes[b].cells = Cardinality(CellsOn(b))
    BY DEF CapacityExact
  <2>1. CellsOn(b) = {}
    BY DEF Init, CellsOn, Present, AbsentCell
  <2>2. Slots(CellsOn(b), Vcpus) = {} /\ Slots(CellsOn(b), Mem) = {}
    BY <2>1 DEF Slots
  <2>3. boxes[b].vcpus = 0 /\ boxes[b].mem = 0 /\ boxes[b].cells = 0
    BY DEF Init
  <2>4. BoxCap[b].vcpus \in Nat /\ BoxCap[b].mem \in Nat
    BY ConstantsAssumption
  <2> QED BY <2>1, <2>2, <2>3, <2>4, FS_EmptySet
<1>2. TypeOK /\ CapacityExact /\ [Next]_vars => CapacityExact'
  BY CapacityStep
<1> QED
  BY <1>1, <1>2, TypeCorrect, PTL DEF Spec

-----------------------------------------------------------------------------
(*****************************************************************************)
(* 3. Cells                                                                  *)
(*****************************************************************************)

-----------------------------------------------------------------------------
(* What each action does to the cells and their tasks *)

(* Nothing but cell c and its task changes. *)
OnlyCell(c) ==
    \A d \in CellIds \ {c} : cells'[d] = cells[d] /\ task'[d] = task[d]

(* Cell c moves to a state; its image and its job stay. *)
CellMoves(c, st) ==
    /\ cells'[c].state = st
    /\ cells'[c].image = cells[c].image /\ cells'[c].job = cells[c].job
    /\ cells'[c].handle = (IF st \in {"Assigned", "Warm"} THEN TRUE ELSE cells[c].handle)

TaskMoves(c, pc) == task'[c].pc = pc /\ task'[c].job = task[c].job

(* A record without a cell on it names no job: removed records are cleared. *)
AbsentClean == \A c \in CellIds : ~Present(c) => cells[c].job = None

(* The backend calls and the lock sections of a build task. *)
LEMMA BuildTaskEffect ==
  ASSUME TypeOK, TaskCellAgree, NEW c \in CellIds
  PROVE  /\ ProvisionOk(c) => OnlyCell(c) /\ CellMoves(c, "Assigned") /\ TaskMoves(c, "start")
                              /\ task'[c].evict = task[c].evict
         /\ ProvisionErr(c) => /\ OnlyCell(c) /\ cells'[c] = AbsentCell
                               /\ TaskMoves(c, "fail_reap") /\ task'[c].evict = task[c].evict
         /\ BuildStart(c) => /\ OnlyCell(c) /\ CellMoves(c, "Running")
                             /\ task'[c].evict = task[c].evict
                             /\ IF jobs[task[c].job].state # "absent"
                                THEN TaskMoves(c, "bus") ELSE TaskMoves(c, "lost")
         /\ DrainCell(c) => OnlyCell(c) /\ CellMoves(c, "Draining") /\ TaskMoves(c, "terminate")
                            /\ task'[c].evict = task[c].evict
         /\ TeardownCell(c) => OnlyCell(c) /\ cells'[c] = AbsentCell /\ task'[c] = NoTask
<1> DEFINE r == cells[c]
           t == task[c]
           m(st) == [r EXCEPT !.state = st]
           b(st) == [r EXCEPT !.state = st, !.handle = TRUE]
           n(pc) == [t EXCEPT !.pc = pc]
<1>1. r \in CellRecord /\ t \in TaskRecord
  BY DEF TypeOK
<1>2. ASSUME NEW st \in CellStates
      PROVE  /\ m(st).state = st /\ m(st).image = r.image /\ m(st).job = r.job /\ m(st).handle = r.handle
             /\ b(st).state = st /\ b(st).image = r.image /\ b(st).job = r.job /\ b(st).handle = TRUE
  <2> HIDE DEF r
  <2> QED BY <1>1, CellRecordChange
<1>3. ASSUME NEW pc \in TaskPcs
      PROVE  n(pc).pc = pc /\ n(pc).job = t.job /\ n(pc).evict = t.evict
  <2> HIDE DEF t
  <2> QED BY <1>1 DEF TaskRecord
<1>4. /\ {"Assigned", "Running", "Draining", "Warm"} \subseteq CellStates
      /\ {"start", "fail_reap", "bus", "lost", "terminate"} \subseteq TaskPcs
  BY DEF CellStates, TaskPcs, BuildPcs, FailPcs, WarmPcs
<1>5. ASSUME NEW st \in CellStates, MoveCell(c, st), Present(c)
      PROVE  cells' = [cells EXCEPT ![c] = m(st)]
  BY <1>5 DEF MoveCell
<1>6. ASSUME NEW st \in CellStates, BootCell(c, st), Present(c)
      PROVE  cells' = [cells EXCEPT ![c] = b(st)]
  BY <1>6 DEF BootCell
<1>7. ASSUME NEW pc \in TaskPcs, SetPc(c, pc)
      PROVE  task' = [task EXCEPT ![c] = n(pc)]
  BY <1>7 DEF SetPc
<1>8. RemoveCell(c) /\ Present(c) => cells' = [cells EXCEPT ![c] = AbsentCell]
  BY DEF RemoveCell
<1>9. cells \in [CellIds -> CellRecord] /\ task \in [CellIds -> TaskRecord]
  BY DEF TypeOK
<1> HIDE DEF m, b, n
<1>10. t.pc \in BuildPcs => Present(c)
  BY DEF TaskCellAgree, BuildPcs, Present
<1>11. ASSUME ProvisionOk(c) PROVE OnlyCell(c) /\ CellMoves(c, "Assigned") /\ TaskMoves(c, "start")
                              /\ task'[c].evict = task[c].evict
  <2>1. Present(c) /\ cells' = [cells EXCEPT ![c] = b("Assigned")] /\ task' = [task EXCEPT ![c] = n("start")]
    BY <1>4, <1>6, <1>7, <1>10, <1>11 DEF ProvisionOk, BuildPcs
  <2> QED BY <1>2, <1>3, <1>4, <1>9, <2>1 DEF OnlyCell, CellMoves, TaskMoves
<1>12. ASSUME ProvisionErr(c) PROVE /\ OnlyCell(c) /\ cells'[c] = AbsentCell
                               /\ TaskMoves(c, "fail_reap") /\ task'[c].evict = task[c].evict
  <2>1. cells' = [cells EXCEPT ![c] = AbsentCell] /\ task' = [task EXCEPT ![c] = n("fail_reap")]
    BY <1>4, <1>7, <1>8, <1>10, <1>12 DEF ProvisionErr, BuildPcs
  <2> QED BY <1>3, <1>4, <1>9, <2>1 DEF OnlyCell, TaskMoves
<1>13. ASSUME BuildStart(c) PROVE /\ OnlyCell(c) /\ CellMoves(c, "Running")
                             /\ task'[c].evict = task[c].evict
                             /\ IF jobs[task[c].job].state # "absent"
                                THEN TaskMoves(c, "bus") ELSE TaskMoves(c, "lost")
  <2>1. cells' = [cells EXCEPT ![c] = m("Running")]
    BY <1>4, <1>5, <1>10, <1>13 DEF BuildStart, BuildPcs
  <2>2. task' = [task EXCEPT ![c] = n(IF jobs[task[c].job].state # "absent" THEN "bus" ELSE "lost")]
    BY <1>4, <1>7, <1>13 DEF BuildStart
  <2> QED BY <1>2, <1>3, <1>4, <1>9, <2>1, <2>2 DEF OnlyCell, CellMoves, TaskMoves
<1>14. ASSUME DrainCell(c) PROVE OnlyCell(c) /\ CellMoves(c, "Draining") /\ TaskMoves(c, "terminate")
                            /\ task'[c].evict = task[c].evict
  <2>1. cells' = [cells EXCEPT ![c] = m("Draining")] /\ task' = [task EXCEPT ![c] = n("terminate")]
    BY <1>4, <1>5, <1>7, <1>10, <1>14 DEF DrainCell, BuildPcs
  <2> QED BY <1>2, <1>3, <1>4, <1>9, <2>1 DEF OnlyCell, CellMoves, TaskMoves
<1>15. ASSUME TeardownCell(c) PROVE OnlyCell(c) /\ cells'[c] = AbsentCell /\ task'[c] = NoTask
  <2>1. cells' = [cells EXCEPT ![c] = AbsentCell] /\ task' = [task EXCEPT ![c] = NoTask]
    BY <1>8, <1>10, <1>15 DEF TeardownCell, BuildPcs
  <2> QED BY <1>9, <2>1 DEF OnlyCell
<1> QED
  BY <1>11, <1>12, <1>13, <1>14, <1>15

(* The steps of a build task that leave its cell alone. *)
LEMMA BuildTaskOnly ==
  ASSUME TypeOK, NEW c \in CellIds
  PROVE  /\ BuildBus(c) => OnlyCell(c) /\ cells' = cells /\ TaskMoves(c, "run")
                           /\ task'[c].evict = task[c].evict
         /\ BuildEnd(c) => OnlyCell(c) /\ cells' = cells /\ TaskMoves(c, "reap")
                           /\ task'[c].evict = task[c].evict
         /\ TaskReap(c) => \E E \in Evictions :
              /\ OnlyCell(c) /\ cells' = cells /\ EvictRecords(E) /\ task'[c].evict = E
              /\ TaskMoves(c, IF task[c].pc = "reap" THEN "reap_logs" ELSE "fail_logs")
         /\ TaskReapLog(c) => \E j \in task[c].evict :
              /\ OnlyCell(c) /\ cells' = cells /\ logs' = logs \ {j}
              /\ TaskMoves(c, task[c].pc) /\ task'[c].evict = task[c].evict \ {j}
         /\ FailDone(c) => OnlyCell(c) /\ cells' = cells /\ task'[c] = NoTask
<1> DEFINE t == task[c]
           n(pc) == [t EXCEPT !.pc = pc]
           e(E) == [t EXCEPT !.evict = E]
           f(pc, E) == [t EXCEPT !.pc = pc, !.evict = E]
<1>1. t \in TaskRecord /\ task \in [CellIds -> TaskRecord]
  BY DEF TypeOK
<1>2. ASSUME NEW pc \in TaskPcs
      PROVE  /\ n(pc).pc = pc /\ n(pc).job = t.job /\ n(pc).evict = t.evict
             /\ \A E : f(pc, E).pc = pc /\ f(pc, E).job = t.job /\ f(pc, E).evict = E
  <2> HIDE DEF t
  <2> QED BY <1>1 DEF TaskRecord
<1>0. \A E : e(E).pc = t.pc /\ e(E).job = t.job /\ e(E).evict = E
  <2> HIDE DEF t
  <2> QED BY <1>1 DEF TaskRecord
<1>3. {"run", "reap", "reap_logs", "fail_logs"} \subseteq TaskPcs
  BY DEF TaskPcs, BuildPcs, FailPcs
<1>4. ASSUME BuildBus(c)
      PROVE  OnlyCell(c) /\ cells' = cells /\ TaskMoves(c, "run") /\ task'[c].evict = t.evict
  <2>1. cells' = cells /\ task' = [task EXCEPT ![c] = n("run")]
    BY <1>4 DEF BuildBus, SetPc, inner
  <2> HIDE DEF n
  <2>2. \A d \in CellIds \ {c} : task'[d] = task[d]
    BY <1>1, <2>1
  <2>3. task'[c] = n("run")
    BY <1>1, <2>1
  <2> QED BY <1>2, <1>3, <2>1, <2>2, <2>3 DEF OnlyCell, TaskMoves
<1>5. ASSUME BuildEnd(c)
      PROVE  OnlyCell(c) /\ cells' = cells /\ TaskMoves(c, "reap") /\ task'[c].evict = t.evict
  <2>1. cells' = cells /\ task' = [task EXCEPT ![c] = n("reap")]
    BY <1>5 DEF BuildEnd, SetPc
  <2> HIDE DEF n
  <2>2. \A d \in CellIds \ {c} : task'[d] = task[d]
    BY <1>1, <2>1
  <2>3. task'[c] = n("reap")
    BY <1>1, <2>1
  <2> QED BY <1>2, <1>3, <2>1, <2>2, <2>3 DEF OnlyCell, TaskMoves
<1>6. ASSUME TaskReap(c)
      PROVE  \E E \in Evictions :
              /\ OnlyCell(c) /\ cells' = cells /\ EvictRecords(E) /\ task'[c].evict = E
              /\ TaskMoves(c, IF task[c].pc = "reap" THEN "reap_logs" ELSE "fail_logs")
  <2> DEFINE pc == IF task[c].pc = "reap" THEN "reap_logs" ELSE "fail_logs"
  <2>1. PICK E \in Evictions :
          EvictRecords(E) /\ task' = [task EXCEPT ![c] = f(pc, E)]
    BY <1>6 DEF TaskReap
  <2>2. pc \in TaskPcs /\ cells' = cells
    BY <1>3, <1>6 DEF TaskReap
  <2> HIDE DEF pc
  <2> HIDE DEF n, e, f
  <2>3. \A d \in CellIds \ {c} : task'[d] = task[d]
    BY <1>1, <2>1
  <2>4. task'[c] = f(pc, E)
    BY <1>1, <2>1
  <2>5. OnlyCell(c) /\ TaskMoves(c, pc) /\ task'[c].evict = E
    BY <1>2, <2>2, <2>3, <2>4 DEF OnlyCell, TaskMoves
  <2> QED BY <2>1, <2>2, <2>5 DEF pc
<1>7. ASSUME TaskReapLog(c)
      PROVE  \E j \in task[c].evict :
              /\ OnlyCell(c) /\ cells' = cells /\ logs' = logs \ {j}
              /\ TaskMoves(c, task[c].pc) /\ task'[c].evict = task[c].evict \ {j}
  <2>1. PICK j \in t.evict :
          logs' = logs \ {j} /\ task' = [task EXCEPT ![c] = e(t.evict \ {j})]
    BY <1>7 DEF TaskReapLog
  <2>2. cells' = cells /\ "run" \in TaskPcs
    BY <1>3, <1>7 DEF TaskReapLog, inner
  <2> HIDE DEF n, e, f
  <2>3. \A d \in CellIds \ {c} : task'[d] = task[d]
    BY <1>1, <2>1
  <2>4. task'[c] = e(t.evict \ {j})
    BY <1>1, <2>1
  <2> QED BY <1>0, <2>1, <2>2, <2>3, <2>4 DEF OnlyCell, TaskMoves
<1>8. ASSUME FailDone(c) PROVE OnlyCell(c) /\ cells' = cells /\ task'[c] = NoTask
  BY <1>1, <1>8 DEF FailDone, inner, OnlyCell
<1> QED
  BY <1>4, <1>5, <1>6, <1>7, <1>8

(* The provision_warm and teardown_warm tasks. *)
LEMMA WarmTaskEffect ==
  ASSUME TypeOK, TaskCellAgree, NEW c \in CellIds
  PROVE  /\ WarmReady(c) => /\ OnlyCell(c) /\ CellMoves(c, "Warm") /\ task'[c] = NoTask
                            /\ cells[c].image \in Images
                            /\ warm' = [warm EXCEPT ![cells[c].image] = Append(@, c)]
         /\ WarmFailed(c) => OnlyCell(c) /\ cells'[c] = AbsentCell /\ task'[c] = NoTask
                             /\ cells[c].image \in Images
         /\ TeardownWarm(c) => OnlyCell(c) /\ cells'[c] = AbsentCell /\ task'[c] = NoTask
<1> DEFINE r == cells[c]
           b == [r EXCEPT !.state = "Warm", !.handle = TRUE]
<1>1. r \in CellRecord /\ cells \in [CellIds -> CellRecord] /\ task \in [CellIds -> TaskRecord]
  BY DEF TypeOK
<1>2. b.state = "Warm" /\ b.image = r.image /\ b.job = r.job /\ b.handle = TRUE
  <2>1. "Warm" \in CellStates
    BY DEF CellStates
  <2> HIDE DEF r
  <2> QED BY <1>1, <2>1, CellRecordChange
<1>3. task[c].pc \in WarmPcs => Present(c) /\ cells[c].image \in Images
  BY DEF TaskCellAgree, WarmPcs, Present, TypeOK
<1>4. ASSUME WarmReady(c)
      PROVE  /\ OnlyCell(c) /\ CellMoves(c, "Warm") /\ task'[c] = NoTask
             /\ cells[c].image \in Images
             /\ warm' = [warm EXCEPT ![cells[c].image] = Append(@, c)]
  <2>1. /\ cells[c].image \in Images /\ cells' = [cells EXCEPT ![c] = b]
        /\ task' = [task EXCEPT ![c] = NoTask]
    BY <1>3, <1>4 DEF WarmReady, BootCell, WarmPcs
  <2> HIDE DEF b
  <2>2. OnlyCell(c) /\ CellMoves(c, "Warm") /\ task'[c] = NoTask
    BY <1>1, <1>2, <2>1 DEF OnlyCell, CellMoves
  <2> QED BY <1>4, <2>1, <2>2 DEF WarmReady
<1>5. ASSUME WarmFailed(c) \/ TeardownWarm(c)
      PROVE  OnlyCell(c) /\ cells'[c] = AbsentCell /\ task'[c] = NoTask /\ cells[c].image \in Images
  <2>1. /\ cells[c].image \in Images /\ cells' = [cells EXCEPT ![c] = AbsentCell]
        /\ task' = [task EXCEPT ![c] = NoTask]
    BY <1>3, <1>5 DEF WarmFailed, TeardownWarm, RemoveCell, WarmPcs
  <2> QED BY <1>1, <2>1 DEF OnlyCell
<1> QED
  BY <1>4, <1>5

(* A placement on warm cell c, at position p of its pool, of the job at     *)
(* position i of the queue.                                                 *)
WarmPlacement(i, p, c) ==
    LET j == queue[i] IN
    /\ i \in 1 .. Len(queue) /\ j \in Jobs /\ JobImage[j] \in Images
    /\ jobs[j].state # "absent"
    /\ p \in 1 .. Len(warm[JobImage[j]]) /\ c = warm[JobImage[j]][p]
    /\ c \in CellIds /\ cells[c].state = "Warm"
    /\ OnlyCell(c)
    /\ cells'[c].state = "Assigned" /\ cells'[c].job = j
    /\ cells'[c].image = cells[c].image /\ cells'[c].handle = cells[c].handle
    /\ task'[c].pc = "start" /\ task'[c].job = j /\ task'[c].evict = {}
    /\ warm' = [warm EXCEPT ![JobImage[j]] = RemoveIdx(@, p)]
    /\ queue' = RemoveIdx(queue, i)
    /\ AssignJob(j, c)

LEMMA PlaceWarmEffect ==
  ASSUME TypeOK, PlaceWarm
  PROVE  \E i, p, c : WarmPlacement(i, p, c)
<1>1. PICK i \in NextPlacement : \E p \in WarmHits(queue[i]) :
        LET j == queue[i]
            c == warm[JobImage[j]][p]
        IN /\ TakeWarm(JobImage[j], p)
           /\ queue' = RemoveIdx(queue, i)
           /\ cells' = [cells EXCEPT ![c] = [@ EXCEPT !.state = "Assigned", !.job = j]]
           /\ AssignJob(j, c)
           /\ task' = [task EXCEPT ![c] = [pc |-> "start", job |-> j, evict |-> {}]]
  BY DEF PlaceWarm
<1>2. PICK p \in WarmHits(queue[i]) :
        LET j == queue[i]
            c == warm[JobImage[j]][p]
        IN /\ TakeWarm(JobImage[j], p)
           /\ queue' = RemoveIdx(queue, i)
           /\ cells' = [cells EXCEPT ![c] = [@ EXCEPT !.state = "Assigned", !.job = j]]
           /\ AssignJob(j, c)
           /\ task' = [task EXCEPT ![c] = [pc |-> "start", job |-> j, evict |-> {}]]
  BY <1>1
<1> DEFINE j == queue[i]
           c == warm[JobImage[j]][p]
           r == cells[c]
           q == [r EXCEPT !.state = "Assigned", !.job = j]
<1>3. /\ queue \in Seq(Jobs) /\ i \in 1 .. Len(queue) /\ j \in Jobs /\ JobImage[j] \in Images
      /\ jobs[j].state # "absent"
  BY ElementOfSeq, ConstantsAssumption DEF NextPlacement, Placeable, TypeOK
<1>4. p \in 1 .. Len(warm[JobImage[j]]) /\ c \in CellIds /\ cells[c].state = "Warm"
  BY <1>3, ElementOfSeq DEF WarmHits, TypeOK
<1>5. r \in CellRecord /\ cells \in [CellIds -> CellRecord] /\ task \in [CellIds -> TaskRecord]
  BY <1>4 DEF TypeOK
<1>6. q.state = "Assigned" /\ q.job = j /\ q.image = r.image /\ q.handle = r.handle
  <2> HIDE DEF r, j
  <2> QED BY <1>3, <1>5, CellRecordAssign
<1>7. /\ cells' = [cells EXCEPT ![c] = q]
      /\ task' = [task EXCEPT ![c] = [pc |-> "start", job |-> j, evict |-> {}]]
      /\ warm' = [warm EXCEPT ![JobImage[j]] = RemoveIdx(@, p)]
      /\ queue' = RemoveIdx(queue, i) /\ AssignJob(j, c)
  BY <1>2 DEF TakeWarm
<1> HIDE DEF q
<1>8. /\ OnlyCell(c) /\ cells'[c] = q
      /\ task'[c] = [pc |-> "start", job |-> j, evict |-> {}]
  BY <1>4, <1>5, <1>7 DEF OnlyCell
<1>9. WarmPlacement(i, p, c)
  <2>1. /\ cells'[c].state = "Assigned" /\ cells'[c].job = j
        /\ cells'[c].image = cells[c].image /\ cells'[c].handle = cells[c].handle
    BY <1>6, <1>8
  <2>2. task'[c].pc = "start" /\ task'[c].job = j /\ task'[c].evict = {}
    BY <1>8
  <2> HIDE DEF c
  <2>3. c = warm[JobImage[queue[i]]][p]
    BY DEF c
  <2> QED BY <1>3, <1>4, <1>7, <1>8, <2>1, <2>2, <2>3 DEF WarmPlacement
<1> QED BY <1>9

(* A new cell c for the job at position i of the queue. *)
ColdPlacement(i, c) ==
    LET j == queue[i] IN
    /\ i \in 1 .. Len(queue) /\ j \in Jobs /\ jobs[j].state # "absent"
    /\ c \in CellIds /\ ~Present(c) /\ task[c].pc = "none"
    /\ OnlyCell(c)
    /\ cells'[c].state = "Provisioning" /\ cells'[c].job = j
    /\ task'[c].pc = "provision" /\ task'[c].job = j /\ task'[c].evict = {}
    /\ queue' = RemoveIdx(queue, i)
    /\ AssignJob(j, c)

LEMMA PlaceColdEffect ==
  ASSUME TypeOK, PlaceCold
  PROVE  \E i, c : ColdPlacement(i, c)
<1>1. PICK i \in NextPlacement : \E b \in PickBox(JobReq[queue[i]]), c \in NewCellId :
        LET j == queue[i]
        IN /\ cells' = [cells EXCEPT ![c] = NewCell(b, JobImage[j], JobReq[j], j)]
           /\ AssignJob(j, c)
           /\ task' = [task EXCEPT ![c] = [pc |-> "provision", job |-> j, evict |-> {}]]
           /\ queue' = RemoveIdx(queue, i)
  BY DEF PlaceCold
<1> DEFINE j == queue[i]
<1>2. PICK b \in PickBox(JobReq[j]), c \in NewCellId :
           /\ cells' = [cells EXCEPT ![c] = NewCell(b, JobImage[j], JobReq[j], j)]
           /\ AssignJob(j, c)
           /\ task' = [task EXCEPT ![c] = [pc |-> "provision", job |-> j, evict |-> {}]]
           /\ queue' = RemoveIdx(queue, i)
  BY <1>1
<1>3. i \in 1 .. Len(queue) /\ j \in Jobs /\ jobs[j].state # "absent"
  BY ElementOfSeq DEF NextPlacement, Placeable, TypeOK
<1>4. c \in CellIds /\ ~Present(c) /\ task[c].pc = "none"
  BY DEF NewCellId, Fresh
<1>5. /\ OnlyCell(c) /\ cells'[c] = NewCell(b, JobImage[j], JobReq[j], j)
      /\ task'[c] = [pc |-> "provision", job |-> j, evict |-> {}]
  BY <1>2, <1>4 DEF OnlyCell, TypeOK
<1>6. ColdPlacement(i, c)
  BY <1>2, <1>3, <1>4, <1>5 DEF ColdPlacement, NewCell
<1> QED BY <1>6

(* A new warm cell. *)
LEMMA ScaleUpEffect ==
  ASSUME TypeOK, ScaleUp
  PROVE  \E c \in CellIds :
           /\ ~Present(c) /\ task[c].pc = "none" /\ OnlyCell(c)
           /\ cells'[c].state = "Provisioning" /\ cells'[c].job = None
           /\ cells'[c].image = ScaleImage /\ ScaleImage \in Images
           /\ task'[c].pc = "warm_provision" /\ task'[c].evict = {}
<1>1. PICK b \in PickBox(WarmSpec), c \in NewCellId :
        /\ cells' = [cells EXCEPT ![c] = NewCell(b, ScaleImage, WarmSpec, None)]
        /\ task' = [task EXCEPT ![c] = [NoTask EXCEPT !.pc = "warm_provision"]]
  BY DEF ScaleUp
<1>2. c \in CellIds /\ ~Present(c) /\ task[c].pc = "none"
  BY DEF NewCellId, Fresh
<1>3. /\ OnlyCell(c) /\ cells'[c] = NewCell(b, ScaleImage, WarmSpec, None)
      /\ task'[c] = [NoTask EXCEPT !.pc = "warm_provision"]
  BY <1>1, <1>2 DEF OnlyCell, TypeOK
<1>4. [NoTask EXCEPT !.pc = "warm_provision"].pc = "warm_provision"
      /\ [NoTask EXCEPT !.pc = "warm_provision"].evict = {}
  BY DEF NoTask
<1>5. ScaleImage \in Images
  <2>1. auto \in AutoRecord /\ auto.img <= Len(WarmImages) /\ Len(WarmImages) \in Nat
    BY ConstantsAssumption, LenProperties DEF ScaleUp, TypeOK
  <2>2. auto.img \in 1 .. Len(WarmImages)
    BY <2>1 DEF AutoRecord
  <2> QED BY <2>2, ElementOfSeq, ConstantsAssumption DEF ScaleImage
<1>6. /\ cells'[c].state = "Provisioning" /\ cells'[c].job = None
      /\ cells'[c].image = ScaleImage
      /\ task'[c].pc = "warm_provision" /\ task'[c].evict = {}
  BY <1>3, <1>4 DEF NewCell
<1> QED BY <1>2, <1>3, <1>5, <1>6

(* The warm cells that the reaper takes out of the pools. *)
Reaped(stale) == UNION {Elems(warm[i]) \ Elems(Kept(i, stale[i])) : i \in Images}

(* Reaped cells drain, under a teardown task; nothing else changes. *)
ReapedOnly(stale) ==
    \A c \in CellIds :
      /\ cells'[c].image = cells[c].image /\ cells'[c].job = cells[c].job
      /\ cells'[c].handle = cells[c].handle
      /\ c \in Reaped(stale) =>
           /\ cells'[c].state = IF Present(c) THEN "Draining" ELSE cells[c].state
           /\ task'[c].pc = "warm_terminate" /\ task'[c].evict = {}
      /\ c \notin Reaped(stale) => cells'[c] = cells[c] /\ task'[c] = task[c]

LEMMA ReapWarmEffect ==
  ASSUME TypeOK, ReapWarm
  PROVE  \E stale :
           /\ \A i \in Images : stale[i] \in Nat /\ stale[i] <= Len(warm[i])
           /\ warm' = [i \in Images |-> Kept(i, stale[i])]
           /\ ReapedOnly(stale)
<1>1. PICK stale \in [Images -> 0 .. Cardinality(CellIds)] :
        LET keep == [i \in Images |-> Kept(i, stale[i])]
            reap == UNION {Elems(warm[i]) \ Elems(keep[i]) : i \in Images}
        IN  /\ \A i \in Images : stale[i] <= Len(warm[i])
            /\ warm' = keep
            /\ cells' = [c \in CellIds |->
                           IF c \in reap /\ Present(c)
                           THEN [cells[c] EXCEPT !.state = "Draining"]
                           ELSE cells[c]]
            /\ task' = [c \in CellIds |->
                           IF c \in reap THEN [NoTask EXCEPT !.pc = "warm_terminate"]
                                         ELSE task[c]]
  BY DEF ReapWarm
<1> DEFINE keep == [i \in Images |-> Kept(i, stale[i])]
           reap == Reaped(stale)
           d(c) == [cells[c] EXCEPT !.state = "Draining"]
           t == [NoTask EXCEPT !.pc = "warm_terminate"]
<1>2. UNION {Elems(warm[i]) \ Elems(keep[i]) : i \in Images} = reap
  BY DEF Reaped
<1>3. /\ warm' = keep
      /\ cells' = [c \in CellIds |-> IF c \in reap /\ Present(c) THEN d(c) ELSE cells[c]]
      /\ task' = [c \in CellIds |-> IF c \in reap THEN t ELSE task[c]]
  BY <1>1, <1>2
<1>4. ASSUME NEW c \in CellIds
      PROVE  /\ d(c).state = "Draining" /\ d(c).image = cells[c].image
             /\ d(c).job = cells[c].job /\ d(c).handle = cells[c].handle
  <2> DEFINE r == cells[c]
  <2>1. r \in CellRecord
    BY DEF TypeOK
  <2> HIDE DEF r
  <2>2. [r EXCEPT !.state = "Draining"].state = "Draining"
        /\ [r EXCEPT !.state = "Draining"].image = r.image
        /\ [r EXCEPT !.state = "Draining"].job = r.job
        /\ [r EXCEPT !.state = "Draining"].handle = r.handle
    BY <2>1 DEF CellRecord
  <2> QED BY <2>2 DEF r
<1>5. t.pc = "warm_terminate" /\ t.evict = {}
  BY DEF NoTask
<1>6. \A i \in Images : stale[i] \in Nat /\ stale[i] <= Len(warm[i])
  <2>1. Cardinality(CellIds) \in Nat
    BY ConstantsAssumption, FS_CardinalityType
  <2> QED BY <1>1, <2>1
<1> HIDE DEF d, t, reap
<1>7. ASSUME NEW c \in CellIds
      PROVE  /\ cells'[c] = IF c \in reap /\ Present(c) THEN d(c) ELSE cells[c]
             /\ task'[c] = IF c \in reap THEN t ELSE task[c]
  BY <1>3
<1>8. ReapedOnly(stale)
  BY <1>4, <1>5, <1>7 DEF ReapedOnly, reap
<1> QED BY <1>3, <1>6, <1>8

-----------------------------------------------------------------------------
(* The warm pools *)

(* What WarmPoolSound says of one pool. *)
LEMMA PoolFacts ==
  ASSUME TypeOK, WarmPoolSound, NEW i \in Images
  PROVE  /\ warm[i] \in Seq(CellIds) /\ Len(warm[i]) \in Nat
         /\ \A p \in 1 .. Len(warm[i]) :
              /\ warm[i][p] \in CellIds /\ cells[warm[i][p]].state = "Warm"
              /\ cells[warm[i][p]].handle /\ cells[warm[i][p]].image = i
              /\ cells[warm[i][p]].job = None /\ task[warm[i][p]].pc = "none"
              /\ \A q \in 1 .. Len(warm[i]) : warm[i][p] = warm[i][q] => p = q
<1>1. warm[i] \in Seq(CellIds) /\ Len(warm[i]) \in Nat
      /\ \A p \in 1 .. Len(warm[i]) : warm[i][p] \in CellIds
  BY LenProperties, ElementOfSeq DEF TypeOK
<1> QED BY <1>1 DEF WarmPoolSound

LEMMA PoolDistinct ==
  ASSUME TypeOK, WarmPoolSound, NEW i \in Images,
         NEW p \in 1 .. Len(warm[i]), NEW q \in 1 .. Len(warm[i]), warm[i][p] = warm[i][q]
  PROVE  p = q
BY PoolFacts

LEMMA PoolSoundNext ==
  ASSUME \A i \in Images : \A p, q \in 1 .. Len(warm'[i]) :
           /\ cells'[warm'[i][p]].state = "Warm" /\ cells'[warm'[i][p]].handle
           /\ cells'[warm'[i][p]].image = i
           /\ cells'[warm'[i][p]].job = None /\ task'[warm'[i][p]].pc = "none"
           /\ warm'[i][p] = warm'[i][q] => p = q,
         \A d \in CellIds : cells'[d].state = "Warm" => d \in Elems(warm'[cells'[d].image])
  PROVE  WarmPoolSound'
BY DEF WarmPoolSound, Elems

(* A pool stays sound while no cell enters or leaves the state Warm. *)
LEMMA PoolUntouched ==
  ASSUME TypeOK, WarmPoolSound, warm' = warm,
         \A d \in CellIds : \/ /\ cells'[d] = cells[d]
                               /\ cells[d].state = "Warm" => task'[d].pc = task[d].pc
                            \/ cells[d].state # "Warm" /\ cells'[d].state # "Warm"
  PROVE  WarmPoolSound'
<1>1. ASSUME NEW i \in Images, NEW p \in 1 .. Len(warm[i]), NEW q \in 1 .. Len(warm[i])
      PROVE  /\ cells'[warm[i][p]].state = "Warm" /\ cells'[warm[i][p]].handle
             /\ cells'[warm[i][p]].image = i
             /\ cells'[warm[i][p]].job = None /\ task'[warm[i][p]].pc = "none"
             /\ warm[i][p] = warm[i][q] => p = q
  <2> DEFINE d == warm[i][p]
  <2>1. /\ d \in CellIds /\ cells[d].state = "Warm" /\ cells[d].handle /\ cells[d].image = i
        /\ cells[d].job = None /\ task[d].pc = "none"
    BY PoolFacts
  <2>2. d = warm[i][q] => p = q
    BY PoolDistinct
  <2> HIDE DEF d
  <2> QED BY <2>1, <2>2 DEF d
<1>2. ASSUME NEW d \in CellIds, cells'[d].state = "Warm"
      PROVE  d \in Elems(warm[cells'[d].image])
  BY <1>2 DEF WarmPoolSound
<1> QED BY <1>1, <1>2, PoolSoundNext

LEMMA PoolAppended ==
  ASSUME TypeOK, WarmPoolSound, NEW c \in CellIds, OnlyCell(c),
         cells[c].state # "Warm", cells[c].image \in Images, cells[c].job = None,
         CellMoves(c, "Warm"), task'[c] = NoTask,
         warm' = [warm EXCEPT ![cells[c].image] = Append(@, c)]
  PROVE  WarmPoolSound'
<1> DEFINE k == cells[c].image
<1>1. warm[k] \in Seq(CellIds) /\ Len(warm[k]) \in Nat
  BY PoolFacts
<1>2. /\ Len(Append(warm[k], c)) = Len(warm[k]) + 1
      /\ \A p \in 1 .. Len(warm[k]) : Append(warm[k], c)[p] = warm[k][p]
      /\ Append(warm[k], c)[Len(warm[k]) + 1] = c
  BY <1>1, AppendProperties
<1>3. warm'[k] = Append(warm[k], c) /\ \A i \in Images \ {k} : warm'[i] = warm[i]
  BY DEF TypeOK
<1>4. cells'[c].state = "Warm" /\ cells'[c].handle /\ cells'[c].image = k /\ cells'[c].job = None
      /\ task'[c].pc = "none"
  BY DEF CellMoves, NoTask
<1> HIDE DEF k
<1>5. ASSUME NEW i \in Images, NEW p \in 1 .. Len(warm[i])
      PROVE  /\ warm[i][p] \in CellIds \ {c}
             /\ cells'[warm[i][p]].state = "Warm" /\ cells'[warm[i][p]].handle
             /\ cells'[warm[i][p]].image = i
             /\ cells'[warm[i][p]].job = None /\ task'[warm[i][p]].pc = "none"
  <2>1. warm[i][p] \in CellIds \ {c}
    BY PoolFacts
  <2> QED BY <2>1, PoolFacts DEF OnlyCell
<1>6. ASSUME NEW i \in Images, NEW p \in 1 .. Len(warm'[i])
      PROVE  \/ p \in 1 .. Len(warm[i]) /\ warm'[i][p] = warm[i][p]
             \/ i = k /\ p = Len(warm[i]) + 1 /\ warm'[i][p] = c
  <2>1. CASE i = k
    <3>1. p \in 1 .. Len(warm[k]) + 1 /\ warm'[i][p] = Append(warm[k], c)[p]
      BY <1>2, <1>3, <2>1
    <3> QED BY <1>1, <1>2, <2>1, <3>1
  <2>2. CASE i # k
    BY <1>3, <2>2
  <2> QED BY <2>1, <2>2
<1>7. ASSUME NEW i \in Images, NEW p \in 1 .. Len(warm'[i]), NEW q \in 1 .. Len(warm'[i])
      PROVE  /\ cells'[warm'[i][p]].state = "Warm" /\ cells'[warm'[i][p]].handle
             /\ cells'[warm'[i][p]].image = i
             /\ cells'[warm'[i][p]].job = None /\ task'[warm'[i][p]].pc = "none"
             /\ warm'[i][p] = warm'[i][q] => p = q
  <2> DEFINE d == warm'[i][p]
             e == warm'[i][q]
  <2>1. \/ p \in 1 .. Len(warm[i]) /\ d = warm[i][p]
        \/ i = k /\ p = Len(warm[i]) + 1 /\ d = c
    BY <1>6
  <2>2. \/ q \in 1 .. Len(warm[i]) /\ e = warm[i][q]
        \/ i = k /\ q = Len(warm[i]) + 1 /\ e = c
    BY <1>6
  <2> HIDE DEF d, e
  <2>3. /\ cells'[d].state = "Warm" /\ cells'[d].handle /\ cells'[d].image = i
        /\ cells'[d].job = None /\ task'[d].pc = "none"
    BY <1>4, <1>5, <2>1
  <2>4. d = e => p = q
    BY <1>5, <2>1, <2>2, PoolDistinct
  <2> QED BY <2>3, <2>4 DEF d, e
<1>8. ASSUME NEW d \in CellIds, cells'[d].state = "Warm"
      PROVE  d \in Elems(warm'[cells'[d].image])
  <2>1. CASE d = c
    BY <1>1, <1>2, <1>3, <1>4, <2>1 DEF Elems
  <2>2. CASE d # c
    <3>1. d \in Elems(warm[cells[d].image]) /\ cells'[d] = cells[d] /\ cells[d].image \in Images
      BY <1>8, <2>2 DEF OnlyCell, WarmPoolSound, TypeOK, Present
    <3>2. PICK p \in 1 .. Len(warm[cells[d].image]) : d = warm[cells[d].image][p]
      BY <3>1 DEF Elems
    <3>3. CASE cells[d].image = k
      BY <1>1, <1>2, <1>3, <3>1, <3>2, <3>3 DEF Elems
    <3>4. CASE cells[d].image # k
      BY <1>3, <3>1, <3>4
    <3> QED BY <3>3, <3>4
  <2> QED BY <2>1, <2>2
<1> HIDE DEF k
<1> QED BY <1>7, <1>8, PoolSoundNext

LEMMA PoolRemoved ==
  ASSUME TypeOK, WarmPoolSound, NEW i, NEW p, NEW c, WarmPlacement(i, p, c)
  PROVE  WarmPoolSound'
<1> DEFINE k == JobImage[queue[i]]
<1>1. /\ k \in Images /\ p \in 1 .. Len(warm[k]) /\ c = warm[k][p] /\ c \in CellIds
      /\ OnlyCell(c) /\ cells'[c].state = "Assigned"
      /\ warm' = [warm EXCEPT ![k] = RemoveIdx(@, p)]
  BY DEF WarmPlacement
<1>2. warm'[k] = RemoveIdx(warm[k], p) /\ \A h \in Images \ {k} : warm'[h] = warm[h]
  BY <1>1 DEF TypeOK
<1> HIDE DEF k
<1>3. /\ warm[k] \in Seq(CellIds) /\ Len(warm[k]) \in Nat
      /\ cells[c].image = k
      /\ \A q \in 1 .. Len(warm[k]) : warm[k][q] = c => q = p
  BY <1>1, PoolFacts
<1>4. /\ Len(RemoveIdx(warm[k], p)) = Len(warm[k]) - 1
      /\ \A q \in 1 .. Len(warm[k]) - 1 :
           RemoveIdx(warm[k], p)[q] = IF q < p THEN warm[k][q] ELSE warm[k][q + 1]
  BY <1>1, <1>3, RemoveIdxSeq
<1> DEFINE src(h, q) == IF h = k /\ q >= p THEN q + 1 ELSE q
<1>5. ASSUME NEW h \in Images, NEW q \in 1 .. Len(warm'[h])
      PROVE  src(h, q) \in 1 .. Len(warm[h]) /\ warm'[h][q] = warm[h][src(h, q)]
             /\ warm'[h][q] \in CellIds \ {c}
  <2>1. src(h, q) \in 1 .. Len(warm[h]) /\ warm'[h][q] = warm[h][src(h, q)]
        /\ (h = k => src(h, q) # p)
    BY <1>1, <1>2, <1>3, <1>4
  <2> HIDE DEF src
  <2>2. warm[h][src(h, q)] \in CellIds /\ cells[warm[h][src(h, q)]].image = h
    BY <2>1, PoolFacts
  <2> QED BY <1>3, <2>1, <2>2
<1>6. ASSUME NEW h \in Images, NEW q \in 1 .. Len(warm'[h]), NEW r \in 1 .. Len(warm'[h])
      PROVE  /\ cells'[warm'[h][q]].state = "Warm" /\ cells'[warm'[h][q]].handle
             /\ cells'[warm'[h][q]].image = h
             /\ cells'[warm'[h][q]].job = None /\ task'[warm'[h][q]].pc = "none"
             /\ warm'[h][q] = warm'[h][r] => q = r
  <2>1. warm'[h][q] = warm'[h][r] => src(h, q) = src(h, r)
    <3> HIDE DEF src
    <3> QED BY <1>5, PoolFacts
  <2>2. Len(warm'[h]) \in Nat
    BY <1>2, <1>3, <1>4, PoolFacts, <1>1
  <2>3. src(h, q) = src(h, r) => q = r
    BY <1>1, <1>3, <2>2
  <2>4. src(h, q) \in 1 .. Len(warm[h]) /\ warm'[h][q] = warm[h][src(h, q)]
        /\ warm'[h][q] \in CellIds \ {c}
    BY <1>5
  <2> HIDE DEF src
  <2>5. PICK d \in CellIds \ {c} : d = warm'[h][q]
    BY <2>4
  <2>6. /\ cells[d].state = "Warm" /\ cells[d].handle /\ cells[d].image = h
        /\ cells[d].job = None /\ task[d].pc = "none"
    BY <2>4, <2>5, PoolFacts
  <2>7. cells'[d] = cells[d] /\ task'[d] = task[d]
    BY <1>1, <2>5 DEF OnlyCell
  <2> QED BY <2>1, <2>3, <2>5, <2>6, <2>7
<1>7. ASSUME NEW d \in CellIds, cells'[d].state = "Warm"
      PROVE  d \in Elems(warm'[cells'[d].image])
  <2>1. d # c /\ cells'[d] = cells[d] /\ cells[d].image \in Images
        /\ d \in Elems(warm[cells[d].image])
    BY <1>1, <1>7 DEF OnlyCell, WarmPoolSound, TypeOK, Present
  <2>2. CASE cells[d].image # k
    BY <1>2, <2>1, <2>2
  <2>3. CASE cells[d].image = k
    <3>1. PICK q \in 1 .. Len(warm[k]) : d = warm[k][q]
      BY <2>1, <2>3 DEF Elems
    <3>2. q # p
      BY <1>1, <2>1, <3>1
    <3>3. CASE q < p
      <4>1. q \in 1 .. Len(warm'[k]) /\ warm'[k][q] = d
        BY <1>1, <1>2, <1>3, <1>4, <3>1, <3>3
      <4> QED BY <2>1, <2>3, <4>1 DEF Elems
    <3>4. CASE q > p
      <4>1. q - 1 \in 1 .. Len(warm'[k]) /\ warm'[k][q - 1] = d
        BY <1>1, <1>2, <1>3, <1>4, <3>1, <3>4
      <4> QED BY <2>1, <2>3, <4>1 DEF Elems
    <3> QED BY <1>1, <3>2, <3>3, <3>4
  <2> QED BY <2>2, <2>3
<1> QED BY <1>6, <1>7 DEF WarmPoolSound

LEMMA PoolReaped ==
  ASSUME TypeOK, WarmPoolSound, NEW stale,
         \A i \in Images : stale[i] \in Nat /\ stale[i] <= Len(warm[i]),
         warm' = [i \in Images |-> Kept(i, stale[i])], ReapedOnly(stale)
  PROVE  /\ WarmPoolSound'
         /\ \A c \in CellIds : c \in Reaped(stale) =>
              cells[c].state = "Warm" /\ cells[c].job = None /\ task[c].pc = "none"
<1>1. ASSUME NEW i \in Images
      PROVE  /\ warm'[i] = Kept(i, stale[i]) /\ Len(warm'[i]) \in Nat
             /\ \A p \in 1 .. Len(warm'[i]) : p + stale[i] \in 1 .. Len(warm[i])
                                              /\ warm'[i][p] = warm[i][p + stale[i]]
  <2>1. warm[i] \in Seq(CellIds)
    BY PoolFacts
  <2>2. warm'[i] = Kept(i, stale[i])
    OBVIOUS
  <2> QED BY <2>1, <2>2, KeptSeq, LenProperties
<1>2. ASSUME NEW c \in CellIds, c \in Reaped(stale)
      PROVE  /\ cells[c].state = "Warm" /\ cells[c].job = None /\ task[c].pc = "none"
             /\ cells[c].image \in Images /\ c \notin Elems(warm'[cells[c].image])
  <2>1. PICK i \in Images : c \in Elems(warm[i]) /\ c \notin Elems(Kept(i, stale[i]))
    BY <1>2 DEF Reaped
  <2> QED BY <1>1, <2>1, PoolFacts DEF Elems
<1>3. ASSUME NEW i \in Images, NEW p \in 1 .. Len(warm'[i]), NEW q \in 1 .. Len(warm'[i])
      PROVE  /\ cells'[warm'[i][p]].state = "Warm" /\ cells'[warm'[i][p]].handle
             /\ cells'[warm'[i][p]].image = i
             /\ cells'[warm'[i][p]].job = None /\ task'[warm'[i][p]].pc = "none"
             /\ warm'[i][p] = warm'[i][q] => p = q
  <2> DEFINE c == warm'[i][p]
  <2>1. /\ c \in CellIds /\ cells[c].state = "Warm" /\ cells[c].handle /\ cells[c].image = i
        /\ cells[c].job = None /\ task[c].pc = "none"
    <3>1. p + stale[i] \in 1 .. Len(warm[i]) /\ c = warm[i][p + stale[i]]
      BY <1>1
    <3> HIDE DEF c
    <3> QED BY <3>1, PoolFacts
  <2>2. c \in Elems(warm'[i])
    BY DEF Elems
  <2>3. c \notin Reaped(stale)
    BY <1>2, <2>1, <2>2
  <2>4. c = warm'[i][q] => p = q
    <3>1. stale[i] \in Nat /\ p \in Int /\ q \in Int
      OBVIOUS
    <3>2. /\ p + stale[i] \in 1 .. Len(warm[i]) /\ c = warm[i][p + stale[i]]
          /\ q + stale[i] \in 1 .. Len(warm[i]) /\ warm'[i][q] = warm[i][q + stale[i]]
      BY <1>1
    <3> HIDE DEF c
    <3>3. c = warm'[i][q] => p + stale[i] = q + stale[i]
      <4> DEFINE u == p + stale[i]
                 v == q + stale[i]
      <4>1. u \in 1 .. Len(warm[i]) /\ c = warm[i][u] /\ v \in 1 .. Len(warm[i])
            /\ warm'[i][q] = warm[i][v]
        BY <3>2
      <4> HIDE DEF u, v
      <4>2. c = warm'[i][q] => u = v
        BY <4>1, PoolDistinct
      <4> QED BY <4>2 DEF u, v
    <3> QED BY <3>1, <3>3
  <2> HIDE DEF c
  <2>5. cells'[c] = cells[c] /\ task'[c] = task[c]
    BY <2>1, <2>3 DEF ReapedOnly
  <2> QED BY <2>1, <2>4, <2>5 DEF c
<1>4. ASSUME NEW d \in CellIds, cells'[d].state = "Warm"
      PROVE  d \in Elems(warm'[cells'[d].image])
  <2>1. d \notin Reaped(stale)
    BY <1>2, <1>4 DEF ReapedOnly, Present
  <2>2. cells'[d] = cells[d]
    BY <2>1 DEF ReapedOnly
  <2>3. d \in Elems(warm[cells[d].image]) /\ cells[d].image \in Images
    BY <1>4, <2>2 DEF WarmPoolSound, TypeOK, Present
  <2> QED BY <1>1, <2>1, <2>2, <2>3 DEF Reaped
<1> QED BY <1>2, <1>3, <1>4 DEF WarmPoolSound

-----------------------------------------------------------------------------
(* The cells, their tasks and the pools, for any number of submissions      *)

CellsInv == TaskCellAgree /\ AbsentClean /\ WarmPoolSound

(* What CellsInv says of one cell and its task. *)
AgreeAt(c) ==
    /\ task[c].pc \in {"provision", "warm_provision"} => cells[c].state = "Provisioning"
    /\ task[c].pc = "start" => cells[c].state = "Assigned" /\ cells[c].handle
    /\ task[c].pc \in {"bus", "run", "reap", "reap_logs", "lost"} => cells[c].state = "Running"
    /\ task[c].pc \in {"terminate", "warm_terminate"} => cells[c].state = "Draining"
    /\ task[c].pc \in FailPcs => ~Present(c)
    /\ task[c].pc = "none" => cells[c].state \in {"absent", "Warm"}
    /\ task[c].pc \in WarmPcs \/ cells[c].state = "Warm" => cells[c].job = None
    /\ task[c].pc \in BuildPcs => cells[c].job = task[c].job
    /\ ~Present(c) => cells[c].job = None

LEMMA AgreeOnly ==
  ASSUME TaskCellAgree, AbsentClean, NEW c \in CellIds, OnlyCell(c), AgreeAt(c)'
  PROVE  TaskCellAgree' /\ AbsentClean'
<1>1. ASSUME NEW d \in CellIds PROVE AgreeAt(d)'
  <2>1. CASE d = c
    BY <2>1
  <2>2. CASE d # c
    BY <2>2 DEF OnlyCell, AgreeAt, TaskCellAgree, AbsentClean, Present
  <2> QED BY <2>1, <2>2
<1> QED BY <1>1 DEF AgreeAt, TaskCellAgree, AbsentClean

(* The record of an absent cell. *)
LEMMA AbsentAgrees ==
  ASSUME NEW c \in CellIds, cells'[c] = AbsentCell,
         task'[c].pc \in FailPcs \cup {"none"}
  PROVE  AgreeAt(c)' /\ cells'[c].state # "Warm"
BY DEF AgreeAt, AbsentCell, FailPcs, BuildPcs, WarmPcs, Present

(* Each handler of a cell's own task leaves the cell in the state that the  *)
(* task's next position implies, and never in a pool's state.               *)
LEMMA OwnTaskAgrees ==
  ASSUME TypeOK, CellsInv, NEW c \in CellIds,
         \/ ProvisionOk(c) \/ ProvisionErr(c) \/ BuildStart(c) \/ BuildBus(c) \/ BuildEnd(c)
         \/ TaskReap(c) \/ TaskReapLog(c) \/ FailDone(c) \/ DrainCell(c) \/ TeardownCell(c)
         \/ WarmFailed(c) \/ TeardownWarm(c)
  PROVE  /\ OnlyCell(c) /\ AgreeAt(c)' /\ warm' = warm
         /\ \/ cells'[c] = cells[c]
            \/ cells[c].state # "Warm" /\ cells'[c].state # "Warm"
         /\ cells[c].state = "Warm" => task'[c].pc = task[c].pc
<1>1. /\ AgreeAt(c)
      /\ task[c].pc = "none" => cells[c].state \in {"absent", "Warm"}
      /\ task[c].pc \notin {"none"} \cup FailPcs => Present(c)
  <2>1. task[c].pc \in TaskPcs
    BY DEF TypeOK, TaskRecord
  <2> QED BY <2>1 DEF CellsInv, AgreeAt, TaskCellAgree, AbsentClean, TaskPcs, BuildPcs, WarmPcs, FailPcs, Present
<1>2. TaskCellAgree
  BY DEF CellsInv
<1> USE <1>1, <1>2
<1>3. CASE ProvisionOk(c)
  <2>1. task[c].pc = "provision" /\ warm' = warm
    BY <1>3 DEF ProvisionOk
  <2>2. OnlyCell(c) /\ CellMoves(c, "Assigned") /\ TaskMoves(c, "start")
    BY <1>3, BuildTaskEffect
  <2> QED BY <2>1, <2>2 DEF AgreeAt, CellMoves, TaskMoves, BuildPcs, WarmPcs, FailPcs, Present
<1>4. CASE ProvisionErr(c)
  <2>1. task[c].pc = "provision" /\ warm' = warm
    BY <1>4 DEF ProvisionErr
  <2>2. OnlyCell(c) /\ cells'[c] = AbsentCell /\ task'[c].pc = "fail_reap"
    BY <1>4, BuildTaskEffect DEF TaskMoves
  <2> QED BY <2>1, <2>2, AbsentAgrees DEF AgreeAt, FailPcs
<1>5. CASE BuildStart(c)
  <2>1. task[c].pc = "start" /\ warm' = warm
    BY <1>5 DEF BuildStart
  <2>2. OnlyCell(c) /\ CellMoves(c, "Running") /\ (TaskMoves(c, "bus") \/ TaskMoves(c, "lost"))
    BY <1>5, BuildTaskEffect
  <2> QED BY <2>1, <2>2 DEF AgreeAt, CellMoves, TaskMoves, BuildPcs, WarmPcs, FailPcs, Present
<1>6. CASE BuildBus(c)
  <2>1. task[c].pc = "bus" /\ warm' = warm
    BY <1>6 DEF BuildBus, inner
  <2>2. OnlyCell(c) /\ cells' = cells /\ TaskMoves(c, "run")
    BY <1>6, BuildTaskOnly
  <2> QED BY <2>1, <2>2 DEF AgreeAt, TaskMoves, BuildPcs, WarmPcs, FailPcs, Present
<1>7. CASE BuildEnd(c)
  <2>1. task[c].pc = "run" /\ warm' = warm
    BY <1>7 DEF BuildEnd
  <2>2. OnlyCell(c) /\ cells' = cells /\ TaskMoves(c, "reap")
    BY <1>7, BuildTaskOnly
  <2> QED BY <2>1, <2>2 DEF AgreeAt, TaskMoves, BuildPcs, WarmPcs, FailPcs, Present
<1>8. CASE TaskReap(c)
  <2>1. task[c].pc \in {"reap", "fail_reap"} /\ warm' = warm
    BY <1>8 DEF TaskReap
  <2>2. OnlyCell(c) /\ cells' = cells
        /\ TaskMoves(c, IF task[c].pc = "reap" THEN "reap_logs" ELSE "fail_logs")
    BY <1>8, BuildTaskOnly
  <2> QED BY <2>1, <2>2 DEF AgreeAt, TaskMoves, BuildPcs, WarmPcs, FailPcs, Present
<1>9. CASE TaskReapLog(c)
  <2>1. warm' = warm
    BY <1>9 DEF TaskReapLog, inner
  <2>2. OnlyCell(c) /\ cells' = cells /\ TaskMoves(c, task[c].pc)
    BY <1>9, BuildTaskOnly
  <2>3. AgreeAt(c)'
    BY <2>2 DEF AgreeAt, TaskMoves, Present
  <2> QED BY <2>1, <2>2, <2>3 DEF TaskMoves
<1>10. CASE FailDone(c)
  <2>1. task[c].pc = "fail_logs" /\ warm' = warm
    BY <1>10 DEF FailDone, inner
  <2>2. OnlyCell(c) /\ cells' = cells /\ task'[c].pc = "none"
    BY <1>10, BuildTaskOnly DEF NoTask
  <2> QED BY <2>1, <2>2 DEF AgreeAt, BuildPcs, WarmPcs, FailPcs, Present
<1>11. CASE DrainCell(c)
  <2>1. task[c].pc = "reap_logs" /\ warm' = warm
    BY <1>11 DEF DrainCell
  <2>2. OnlyCell(c) /\ CellMoves(c, "Draining") /\ TaskMoves(c, "terminate")
    BY <1>11, BuildTaskEffect
  <2> QED BY <2>1, <2>2 DEF AgreeAt, CellMoves, TaskMoves, BuildPcs, WarmPcs, FailPcs, Present
<1>12. CASE TeardownCell(c)
  <2>1. task[c].pc = "terminate" /\ warm' = warm
    BY <1>12 DEF TeardownCell
  <2>2. OnlyCell(c) /\ cells'[c] = AbsentCell /\ task'[c].pc = "none"
    BY <1>12, BuildTaskEffect DEF NoTask
  <2> QED BY <2>1, <2>2, AbsentAgrees DEF AgreeAt
<1>13. CASE WarmFailed(c) \/ TeardownWarm(c)
  <2>1. task[c].pc \in {"warm_provision", "warm_terminate"} /\ warm' = warm
    BY <1>13 DEF WarmFailed, TeardownWarm
  <2>2. OnlyCell(c) /\ cells'[c] = AbsentCell /\ task'[c].pc = "none"
    BY <1>13, WarmTaskEffect DEF NoTask
  <2> QED BY <2>1, <2>2, AbsentAgrees DEF AgreeAt
<1> QED
  BY <1>3, <1>4, <1>5, <1>6, <1>7, <1>8, <1>9, <1>10, <1>11, <1>12, <1>13

(* Steps of the others that only change where a cell's task stands. *)
LEMMA CellsKept ==
  ASSUME TypeOK, CellsInv, UNCHANGED <<cells, warm, task>>
  PROVE  CellsInv'
BY DEF CellsInv, TaskCellAgree, AbsentClean, WarmPoolSound, Elems, Present

LEMMA CellsStep ==
  ASSUME TypeOK, CellsInv, [Next]_vars
  PROVE  CellsInv'
<1> USE DEF CellsInv
<1>1. CASE Submitting
  BY <1>1, CellsKept DEF Submitting, SubmitRecord, SubmitBus, inner
<1>2. CASE SchedulerWake \/ SchedulerTick \/ PassDone
  BY <1>2, CellsKept DEF SchedulerWake, SchedulerTick, PassDone, inner
<1>3. CASE ScaleNext \/ AutoReap \/ AutoReapLog \/ AutoSleep
  BY <1>3, CellsKept DEF ScaleNext, AutoReap, AutoReapLog, AutoSleep, inner
<1>4. CASE UNCHANGED vars
  BY <1>4, CellsKept DEF vars
<1>5. CASE PlaceWarm
  <2>1. PICK i, p, c : WarmPlacement(i, p, c)
    BY <1>5, PlaceWarmEffect
  <2>2. c \in CellIds /\ OnlyCell(c)
    BY <2>1 DEF WarmPlacement
  <2>3. cells[c].handle
    BY <2>1, PoolFacts DEF WarmPlacement
  <2>4. AgreeAt(c)'
    BY <2>1, <2>3 DEF WarmPlacement, AgreeAt, FailPcs, WarmPcs, Present
  <2> QED BY <2>1, <2>2, <2>4, AgreeOnly, PoolRemoved
<1>6. CASE PlaceCold
  <2>1. PICK i, c : ColdPlacement(i, c)
    BY <1>6, PlaceColdEffect
  <2>2. c \in CellIds /\ OnlyCell(c) /\ cells[c].state = "absent" /\ cells'[c].state = "Provisioning"
    BY <2>1 DEF ColdPlacement, Present
  <2>3. AgreeAt(c)'
    BY <2>1 DEF ColdPlacement, AgreeAt, FailPcs, WarmPcs, Present
  <2>4. WarmPoolSound'
    <3>1. warm' = warm
      BY <1>6 DEF PlaceCold
    <3> QED BY <2>2, <3>1, PoolUntouched DEF OnlyCell
  <2> QED BY <2>2, <2>3, <2>4, AgreeOnly
<1>7. CASE ScaleUp
  <2>1. PICK c \in CellIds :
           /\ ~Present(c) /\ task[c].pc = "none" /\ OnlyCell(c)
           /\ cells'[c].state = "Provisioning" /\ cells'[c].job = None
           /\ task'[c].pc = "warm_provision"
    BY <1>7, ScaleUpEffect
  <2>2. AgreeAt(c)'
    BY <2>1 DEF AgreeAt, FailPcs, BuildPcs, Present
  <2>3. WarmPoolSound'
    <3>1. warm' = warm
      BY <1>7 DEF ScaleUp
    <3> QED BY <2>1, <3>1, PoolUntouched DEF OnlyCell, Present
  <2> QED BY <2>1, <2>2, <2>3, AgreeOnly
<1>8. CASE ReapWarm
  <2>1. PICK stale :
           /\ \A i \in Images : stale[i] \in Nat /\ stale[i] <= Len(warm[i])
           /\ warm' = [i \in Images |-> Kept(i, stale[i])]
           /\ ReapedOnly(stale)
    BY <1>8, ReapWarmEffect
  <2>2. /\ WarmPoolSound'
        /\ \A c \in CellIds : c \in Reaped(stale) =>
             cells[c].state = "Warm" /\ cells[c].job = None /\ task[c].pc = "none"
    BY <2>1, PoolReaped
  <2>3. ASSUME NEW c \in CellIds PROVE AgreeAt(c)'
    <3>1. CASE c \in Reaped(stale)
      BY <2>1, <2>2, <3>1 DEF ReapedOnly, AgreeAt, FailPcs, BuildPcs, Present
    <3>2. CASE c \notin Reaped(stale)
      <4>1. cells'[c] = cells[c] /\ task'[c] = task[c]
        BY <2>1, <3>2 DEF ReapedOnly
      <4> QED BY <4>1 DEF AgreeAt, TaskCellAgree, AbsentClean, Present
    <3> QED BY <3>1, <3>2
  <2> QED BY <2>2, <2>3 DEF AgreeAt, TaskCellAgree, AbsentClean
<1>9. ASSUME NEW c \in CellIds, WarmReady(c) PROVE CellsInv'
  <2>1. /\ OnlyCell(c) /\ CellMoves(c, "Warm") /\ task'[c] = NoTask
        /\ cells[c].image \in Images
        /\ warm' = [warm EXCEPT ![cells[c].image] = Append(@, c)]
    BY <1>9, WarmTaskEffect
  <2>2. task[c].pc = "warm_provision" /\ cells[c].state = "Provisioning" /\ cells[c].job = None
    BY <1>9 DEF WarmReady, TaskCellAgree, WarmPcs
  <2>3. AgreeAt(c)'
    BY <2>1, <2>2 DEF AgreeAt, CellMoves, NoTask, FailPcs, BuildPcs, Present
  <2> QED BY <2>1, <2>2, <2>3, AgreeOnly, PoolAppended
<1>10. ASSUME NEW c \in CellIds, BuildTask(c) \/ WarmFailed(c) \/ TeardownWarm(c) PROVE CellsInv'
  <2>1. /\ OnlyCell(c) /\ AgreeAt(c)' /\ warm' = warm
        /\ \/ cells'[c] = cells[c]
           \/ cells[c].state # "Warm" /\ cells'[c].state # "Warm"
        /\ cells[c].state = "Warm" => task'[c].pc = task[c].pc
    BY <1>10, OwnTaskAgrees DEF BuildTask
  <2>2. WarmPoolSound'
    BY <2>1, PoolUntouched DEF OnlyCell
  <2> QED BY <2>1, <2>2, AgreeOnly
<1> QED
  BY <1>1, <1>2, <1>3, <1>4, <1>5, <1>6, <1>7, <1>8, <1>9, <1>10
     DEF Next, Scheduling, WarmTask, Autoscaling

LEMMA CellsInit == Init => CellsInv
BY EmptySeq DEF Init, CellsInv, TaskCellAgree, AbsentClean, WarmPoolSound, AbsentCell, NoTask,
   BuildPcs, FailPcs, WarmPcs, Present

(* However often an id is posted, a pool lists each of its cells once and   *)
(* only idle booted cells of its image, every idle cell is in its pool, and *)
(* a task finds its cell in the state in which it left it: the pools and    *)
(* the tasks never disagree about who holds a cell.                         *)
THEOREM CellsCorrect == Spec => [](WarmPoolSound /\ TaskCellAgree)
<1>1. TypeOK /\ CellsInv /\ [Next]_vars => CellsInv'
  BY CellsStep
<1>2. CellsInv => WarmPoolSound /\ TaskCellAgree
  BY DEF CellsInv
<1> QED
  BY <1>1, <1>2, CellsInit, TypeCorrect, PTL DEF Spec

(* No step takes a cell from a job but to tear it down.                     *)
LEMMA SingleUseStep ==
  ASSUME TypeOK, CellsInv, [Next]_vars, NEW c \in CellIds, cells[c].job # None
  PROVE  \/ cells'[c].state = "absent"
         \/ cells'[c].job = cells[c].job /\ cells'[c].state # "Warm"
<1>1. /\ Present(c) /\ cells[c].state # "Warm"
      /\ task[c].pc \notin WarmPcs
  BY DEF CellsInv, AbsentClean, TaskCellAgree
<1>2. ASSUME cells'[c] = cells[c]
      PROVE  cells'[c].job = cells[c].job /\ cells'[c].state # "Warm"
  BY <1>1, <1>2
<1>3. CASE UNCHANGED cells
  BY <1>2, <1>3
<1>4. CASE PlaceWarm
  <2>1. PICK i, p, d : WarmPlacement(i, p, d)
    BY <1>4, PlaceWarmEffect
  <2> QED BY <1>1, <1>2, <2>1 DEF WarmPlacement, OnlyCell
<1>5. CASE PlaceCold
  <2>1. PICK i, d : ColdPlacement(i, d)
    BY <1>5, PlaceColdEffect
  <2> QED BY <1>1, <1>2, <2>1 DEF ColdPlacement, OnlyCell
<1>6. CASE ScaleUp
  <2>1. PICK d \in CellIds : ~Present(d) /\ OnlyCell(d)
    BY <1>6, ScaleUpEffect
  <2> QED BY <1>1, <1>2, <2>1 DEF OnlyCell
<1>7. CASE ReapWarm
  <2>1. PICK stale :
           /\ \A i \in Images : stale[i] \in Nat /\ stale[i] <= Len(warm[i])
           /\ warm' = [i \in Images |-> Kept(i, stale[i])]
           /\ ReapedOnly(stale)
    BY <1>7, ReapWarmEffect
  <2>2. c \notin Reaped(stale)
    BY <1>1, <2>1, PoolReaped DEF CellsInv
  <2> QED BY <1>2, <2>1, <2>2 DEF ReapedOnly
<1>8. ASSUME NEW d \in CellIds, WarmReady(d)
      PROVE  cells'[c].job = cells[c].job /\ cells'[c].state # "Warm"
  <2>1. OnlyCell(d) /\ task[d].pc \in WarmPcs
    BY <1>8, WarmTaskEffect DEF CellsInv, WarmReady, WarmPcs
  <2> QED BY <1>1, <1>2, <2>1 DEF OnlyCell
<1>9. ASSUME NEW d \in CellIds, BuildTask(d) \/ WarmFailed(d) \/ TeardownWarm(d)
      PROVE  \/ cells'[c].state = "absent"
             \/ cells'[c].job = cells[c].job /\ cells'[c].state # "Warm"
  <2>1. OnlyCell(d)
    BY <1>9, OwnTaskAgrees DEF BuildTask
  <2>2. CASE c # d
    BY <1>2, <2>1, <2>2 DEF OnlyCell
  <2>3. CASE c = d
    <3>1. CASE ProvisionOk(c) \/ BuildStart(c) \/ DrainCell(c)
      BY <3>1, BuildTaskEffect DEF CellMoves, CellsInv
    <3>2. CASE ProvisionErr(c) \/ TeardownCell(c)
      BY <3>2, BuildTaskEffect DEF CellsInv, AbsentCell
    <3>3. CASE BuildBus(c) \/ BuildEnd(c) \/ TaskReap(c) \/ TaskReapLog(c) \/ FailDone(c)
      BY <1>2, <3>3, BuildTaskOnly
    <3>4. CASE WarmFailed(c) \/ TeardownWarm(c)
      BY <3>4, WarmTaskEffect DEF CellsInv, AbsentCell
    <3> QED BY <1>9, <2>3, <3>1, <3>2, <3>3, <3>4 DEF BuildTask
  <2> QED BY <2>2, <2>3
<1> QED
  BY <1>3, <1>4, <1>5, <1>6, <1>7, <1>8, <1>9
     DEF Next, Submitting, SubmitRecord, SubmitBus, Scheduling, SchedulerWake, SchedulerTick,
         PassDone, WarmTask, Autoscaling, ScaleNext, AutoReap, AutoReapLog, AutoSleep, inner, vars

(* Cells are single-use: a cell that was given to a job is removed before   *)
(* anyone else can have it, however often that job is posted again          *)
(* (run_build_task, teardown in lib.rs).                                    *)
THEOREM SingleUseCorrect == Spec => SingleUse
<1>1. TypeOK /\ CellsInv /\ [Next]_vars => CellsInv'
  BY CellsStep
<1>2. TypeOK /\ CellsInv /\ [Next]_vars =>
        [\A c \in CellIds : cells[c].job # None =>
          \/ cells'[c].state = "absent"
          \/ cells'[c].job = cells[c].job /\ cells'[c].state # "Warm"]_vars
  BY SingleUseStep
<1> QED
  BY <1>1, <1>2, CellsInit, TypeCorrect, PTL DEF Spec, SingleUse

-----------------------------------------------------------------------------
(* The two counters *)

BuildTasks == {c \in CellIds : task[c].pc \in BuildPcs}
WarmTasks(i) == {c \in CellIds : task[c].pc = "warm_provision" /\ cells[c].image = i}

LEMMA CountedSets ==
  /\ IsFiniteSet(BuildTasks) /\ Cardinality(BuildTasks) \in Nat
  /\ \A i : IsFiniteSet(WarmTasks(i)) /\ Cardinality(WarmTasks(i)) \in Nat
<1>1. BuildTasks \subseteq CellIds /\ \A i : WarmTasks(i) \subseteq CellIds
  BY DEF BuildTasks, WarmTasks
<1>2. IsFiniteSet(BuildTasks) /\ \A i : IsFiniteSet(WarmTasks(i))
  BY <1>1, ConstantsAssumption, FS_Subset
<1> QED BY <1>2, FS_CardinalityType

LEMMA BuildsSame ==
  ASSUME BuildsExact, running_builds' = running_builds,
         \A c \in CellIds : task'[c].pc \in BuildPcs <=> task[c].pc \in BuildPcs
  PROVE  BuildsExact'
BY DEF BuildsExact

LEMMA BuildsAdd ==
  ASSUME BuildsExact, NEW c \in CellIds, OnlyCell(c), task[c].pc \notin BuildPcs,
         task'[c].pc \in BuildPcs, running_builds < MaxConcurrentBuilds,
         running_builds' = running_builds + 1
  PROVE  BuildsExact'
<1>1. BuildTasks' = BuildTasks \cup {c} /\ c \notin BuildTasks
  BY DEF BuildTasks, OnlyCell
<1>2. Cardinality(BuildTasks \cup {c}) = Cardinality(BuildTasks) + 1
  BY <1>1, CountedSets, FS_AddElement
<1>3. running_builds = Cardinality(BuildTasks) /\ running_builds \in Nat
  BY CountedSets DEF BuildsExact, BuildTasks
<1>4. running_builds' = Cardinality(BuildTasks') /\ running_builds' <= MaxConcurrentBuilds
  BY <1>1, <1>2, <1>3, ConstantsAssumption
<1> QED BY <1>4 DEF BuildsExact, BuildTasks

LEMMA BuildsRemove ==
  ASSUME BuildsExact, NEW c \in CellIds, OnlyCell(c), task[c].pc \in BuildPcs,
         task'[c].pc \notin BuildPcs, BuildLeaves
  PROVE  BuildsExact'
<1>1. BuildTasks' = BuildTasks \ {c} /\ c \in BuildTasks
  BY DEF BuildTasks, OnlyCell
<1>2. /\ Cardinality(BuildTasks \ {c}) = Cardinality(BuildTasks) - 1
      /\ Cardinality(BuildTasks \ {c}) \in Nat
  BY <1>1, CountedSets, FS_RemoveElement, FS_CardinalityType
<1>3. running_builds = Cardinality(BuildTasks) /\ running_builds \in Nat
      /\ running_builds <= MaxConcurrentBuilds
  BY CountedSets DEF BuildsExact, BuildTasks
<1>4. running_builds' = Cardinality(BuildTasks') /\ running_builds' <= MaxConcurrentBuilds
  BY <1>1, <1>2, <1>3, ConstantsAssumption DEF BuildLeaves, SatSub
<1> QED BY <1>4 DEF BuildsExact, BuildTasks

LEMMA BuildsStep ==
  ASSUME TypeOK, CellsInv, BuildsExact, [Next]_vars
  PROVE  BuildsExact'
<1>1. ASSUME UNCHANGED <<task, running_builds>> PROVE BuildsExact'
  BY <1>1, BuildsSame
<1>2. CASE PlaceWarm
  <2>1. PICK i, p, c : WarmPlacement(i, p, c)
    BY <1>2, PlaceWarmEffect
  <2>2. cells[c].state = "Warm" /\ c \in CellIds /\ OnlyCell(c) /\ task'[c].pc = "start"
        /\ warm[JobImage[queue[i]]][p] = c /\ JobImage[queue[i]] \in Images
        /\ p \in 1 .. Len(warm[JobImage[queue[i]]])
    BY <2>1 DEF WarmPlacement
  <2>3. task[c].pc = "none"
    BY <2>2, PoolFacts DEF CellsInv
  <2>4. running_builds < MaxConcurrentBuilds /\ running_builds' = running_builds + 1
    BY <1>2 DEF PlaceWarm
  <2> QED BY <2>2, <2>3, <2>4, BuildsAdd DEF BuildPcs
<1>3. CASE PlaceCold
  <2>1. PICK i, c : ColdPlacement(i, c)
    BY <1>3, PlaceColdEffect
  <2>2. c \in CellIds /\ OnlyCell(c) /\ task[c].pc = "none" /\ task'[c].pc = "provision"
    BY <2>1 DEF ColdPlacement
  <2>3. running_builds < MaxConcurrentBuilds /\ running_builds' = running_builds + 1
    BY <1>3 DEF PlaceCold
  <2> QED BY <2>2, <2>3, BuildsAdd DEF BuildPcs
<1>4. CASE ScaleUp
  <2>1. PICK c \in CellIds : task[c].pc = "none" /\ OnlyCell(c) /\ task'[c].pc = "warm_provision"
    BY <1>4, ScaleUpEffect
  <2>2. running_builds' = running_builds
    BY <1>4 DEF ScaleUp
  <2> QED BY <2>1, <2>2, BuildsSame DEF OnlyCell, BuildPcs
<1>5. CASE ReapWarm
  <2>1. PICK stale :
           /\ \A i \in Images : stale[i] \in Nat /\ stale[i] <= Len(warm[i])
           /\ warm' = [i \in Images |-> Kept(i, stale[i])]
           /\ ReapedOnly(stale)
    BY <1>5, ReapWarmEffect
  <2>2. \A c \in CellIds : c \in Reaped(stale) => task[c].pc = "none"
    BY <2>1, PoolReaped DEF CellsInv
  <2>3. running_builds' = running_builds
    BY <1>5 DEF ReapWarm
  <2> QED BY <2>1, <2>2, <2>3, BuildsSame DEF ReapedOnly, BuildPcs
<1>6. ASSUME NEW c \in CellIds, WarmTask(c) \/ FailDone(c) PROVE BuildsExact'
  <2>1. task[c].pc \in {"warm_provision", "warm_terminate", "fail_logs"}
    BY <1>6 DEF WarmTask, WarmReady, WarmFailed, TeardownWarm, FailDone
  <2>3. OnlyCell(c) /\ task'[c] = NoTask
    BY <1>6, WarmTaskEffect, BuildTaskOnly DEF WarmTask, CellsInv
  <2>2. running_builds' = running_builds
    BY <1>6 DEF WarmTask, WarmReady, WarmFailed, TeardownWarm, FailDone, inner
  <2>4. task'[c].pc = "none"
    BY <2>3 DEF NoTask
  <2> QED BY <2>1, <2>2, <2>3, <2>4, BuildsSame DEF OnlyCell, BuildPcs
<1>7. ASSUME NEW c \in CellIds,
             ProvisionOk(c) \/ BuildStart(c) \/ BuildBus(c) \/ BuildEnd(c) \/ DrainCell(c)
      PROVE  BuildsExact'
  <2>1. OnlyCell(c) /\ task[c].pc \in BuildPcs
    BY <1>7, BuildTaskEffect, BuildTaskOnly
       DEF ProvisionOk, BuildStart, BuildBus, BuildEnd, DrainCell, BuildPcs, CellsInv
  <2>2. task'[c].pc \in BuildPcs
    BY <1>7, BuildTaskEffect, BuildTaskOnly DEF TaskMoves, BuildPcs, CellsInv
  <2>3. running_builds' = running_builds
    BY <1>7 DEF ProvisionOk, BuildStart, BuildBus, BuildEnd, DrainCell, inner
  <2> QED BY <2>1, <2>2, <2>3, BuildsSame DEF OnlyCell
<1>8. ASSUME NEW c \in CellIds, TaskReap(c) \/ TaskReapLog(c) PROVE BuildsExact'
  <2>1. OnlyCell(c) /\ (task'[c].pc \in BuildPcs <=> task[c].pc \in BuildPcs)
    BY <1>8, BuildTaskOnly DEF TaskReap, TaskMoves, BuildPcs
  <2>2. running_builds' = running_builds
    BY <1>8 DEF TaskReap, TaskReapLog, inner
  <2> QED BY <2>1, <2>2, BuildsSame DEF OnlyCell
<1>9. ASSUME NEW c \in CellIds, ProvisionErr(c) \/ TeardownCell(c) PROVE BuildsExact'
  <2>1. task[c].pc \in {"provision", "terminate"} /\ BuildLeaves
    BY <1>9 DEF ProvisionErr, TeardownCell
  <2>2. OnlyCell(c) /\ (TaskMoves(c, "fail_reap") \/ task'[c] = NoTask)
    BY <1>9, BuildTaskEffect DEF CellsInv
  <2>3. task'[c].pc \in {"fail_reap", "none"}
    BY <2>2 DEF TaskMoves, NoTask
  <2> QED BY <2>1, <2>2, <2>3, BuildsRemove DEF BuildPcs
<1> QED
  BY <1>1, <1>2, <1>3, <1>4, <1>5, <1>6, <1>7, <1>8, <1>9
     DEF Next, Submitting, SubmitRecord, SubmitBus, Scheduling, SchedulerWake, SchedulerTick,
         PassDone, BuildTask, Autoscaling, ScaleNext, AutoReap, AutoReapLog, AutoSleep, inner, vars

(* A pool does not grow and no warm task starts or ends. *)
LEMMA WarmSame ==
  ASSUME TypeOK, WarmBounded, warm_pending' = warm_pending,
         \A i \in Images : Len(warm'[i]) \in Nat /\ Len(warm'[i]) <= Len(warm[i]),
         \A c \in CellIds : /\ task'[c].pc = "warm_provision" <=> task[c].pc = "warm_provision"
                            /\ task[c].pc = "warm_provision" => cells'[c].image = cells[c].image
  PROVE  WarmBounded'
<1> SUFFICES ASSUME NEW i \in Images
             PROVE  /\ warm_pending'[i] = Cardinality(WarmTasks(i)')
                    /\ Len(warm'[i]) + warm_pending'[i] <= WarmTarget[i]
  BY DEF WarmBounded, WarmTasks
<1>1. WarmTasks(i)' = WarmTasks(i)
  BY DEF WarmTasks
<1>2. warm_pending[i] = Cardinality(WarmTasks(i)) /\ Len(warm[i]) + warm_pending[i] <= WarmTarget[i]
  BY DEF WarmBounded, WarmTasks
<1>3. warm_pending[i] \in Nat /\ Len(warm[i]) \in Nat /\ WarmTarget[i] \in Nat
  BY LenProperties, ConstantsAssumption DEF TypeOK
<1>4. Len(warm'[i]) \in Nat /\ Len(warm'[i]) <= Len(warm[i])
  OBVIOUS
<1> QED BY <1>1, <1>2, <1>3, <1>4

LEMMA WarmAdd ==
  ASSUME TypeOK, WarmBounded, NEW c \in CellIds, NEW k \in Images, OnlyCell(c),
         task[c].pc = "none", task'[c].pc = "warm_provision", cells'[c].image = k,
         warm' = warm, warm_pending' = [warm_pending EXCEPT ![k] = @ + 1],
         Len(warm[k]) + warm_pending[k] < WarmTarget[k]
  PROVE  WarmBounded'
<1> SUFFICES ASSUME NEW i \in Images
             PROVE  /\ warm_pending'[i] = Cardinality(WarmTasks(i)')
                    /\ Len(warm'[i]) + warm_pending'[i] <= WarmTarget[i]
  BY DEF WarmBounded, WarmTasks
<1>1. WarmTasks(k)' = WarmTasks(k) \cup {c} /\ c \notin WarmTasks(k)
  BY DEF WarmTasks, OnlyCell
<1>2. i # k => WarmTasks(i)' = WarmTasks(i)
  BY DEF WarmTasks, OnlyCell
<1>3. Cardinality(WarmTasks(k) \cup {c}) = Cardinality(WarmTasks(k)) + 1
  BY <1>1, CountedSets, FS_AddElement
<1>4. /\ warm_pending[i] = Cardinality(WarmTasks(i)) /\ Len(warm[i]) + warm_pending[i] <= WarmTarget[i]
      /\ warm_pending[k] = Cardinality(WarmTasks(k))
  BY DEF WarmBounded, WarmTasks
<1>5. /\ warm_pending[i] \in Nat /\ Len(warm[i]) \in Nat /\ WarmTarget[i] \in Nat
      /\ warm_pending'[i] = IF i = k THEN warm_pending[k] + 1 ELSE warm_pending[i]
  BY LenProperties, ConstantsAssumption DEF TypeOK
<1>6. CASE i = k
  <2>1. warm_pending'[k] = warm_pending[k] + 1 /\ warm_pending[k] \in Nat
    BY <1>5, <1>6
  <2>2. Cardinality(WarmTasks(k)') = Cardinality(WarmTasks(k)) + 1
    BY <1>1, <1>3
  <2>3. warm_pending'[k] = Cardinality(WarmTasks(k)')
    BY <1>4, <2>1, <2>2
  <2>4. Len(warm'[k]) + warm_pending'[k] <= WarmTarget[k]
    <3> DEFINE n == Len(warm[k])
    <3>1. n \in Nat /\ WarmTarget[k] \in Nat /\ Len(warm'[k]) = n /\ n + warm_pending[k] < WarmTarget[k]
      BY <1>5, <1>6
    <3> HIDE DEF n
    <3> QED BY <2>1, <3>1
  <2> QED BY <1>6, <2>3, <2>4
<1>7. CASE i # k
  BY <1>2, <1>4, <1>5, <1>7
<1> QED BY <1>6, <1>7

(* The end of a warm task: its cell joins the pool or goes. *)
LEMMA WarmRemove ==
  ASSUME TypeOK, WarmBounded, NEW c \in CellIds, OnlyCell(c), NEW k \in Images,
         task[c].pc = "warm_provision", task'[c].pc = "none", cells[c].image = k,
         warm_pending' = [warm_pending EXCEPT ![k] = SatSub(@, 1)],
         \A i \in Images : /\ Len(warm'[i]) \in Nat
                           /\ Len(warm'[i]) <= Len(warm[i]) + (IF i = k THEN 1 ELSE 0)
  PROVE  WarmBounded'
<1> SUFFICES ASSUME NEW i \in Images
             PROVE  /\ warm_pending'[i] = Cardinality(WarmTasks(i)')
                    /\ Len(warm'[i]) + warm_pending'[i] <= WarmTarget[i]
  BY DEF WarmBounded, WarmTasks
<1>1. WarmTasks(k)' = WarmTasks(k) \ {c} /\ c \in WarmTasks(k)
  BY DEF WarmTasks, OnlyCell
<1>2. i # k => WarmTasks(i)' = WarmTasks(i)
  BY DEF WarmTasks, OnlyCell
<1>3. /\ Cardinality(WarmTasks(k) \ {c}) = Cardinality(WarmTasks(k)) - 1
      /\ Cardinality(WarmTasks(k) \ {c}) \in Nat
  BY <1>1, CountedSets, FS_RemoveElement, FS_CardinalityType
<1>4. /\ warm_pending[i] = Cardinality(WarmTasks(i)) /\ Len(warm[i]) + warm_pending[i] <= WarmTarget[i]
      /\ warm_pending[k] = Cardinality(WarmTasks(k))
  BY DEF WarmBounded, WarmTasks
<1>5. /\ warm_pending[i] \in Nat /\ Len(warm[i]) \in Nat /\ WarmTarget[i] \in Nat
      /\ warm_pending'[i] = IF i = k THEN SatSub(warm_pending[k], 1) ELSE warm_pending[i]
      /\ warm_pending[k] \in Nat
  BY LenProperties, ConstantsAssumption DEF TypeOK
<1>6. Len(warm'[i]) \in Nat /\ Len(warm'[i]) <= Len(warm[i]) + (IF i = k THEN 1 ELSE 0)
  OBVIOUS
<1>7. CASE i = k
  <2>1. Cardinality(WarmTasks(k)) \in Nat
    BY CountedSets
  <2>2. warm_pending'[k] = SatSub(warm_pending[k], 1)
    BY <1>5, <1>7
  <2>3. warm_pending'[k] = warm_pending[k] - 1 /\ warm_pending[k] \in Nat
    BY <1>3, <1>4, <1>5, <2>1, <2>2 DEF SatSub
  <2>4. warm_pending'[k] = Cardinality(WarmTasks(k)')
    BY <1>1, <1>3, <1>4, <2>3
  <2>5. Len(warm'[k]) + warm_pending'[k] <= WarmTarget[k]
    <3> DEFINE n == Len(warm[k])
               m == Len(warm'[k])
    <3>1. /\ n \in Nat /\ m \in Nat /\ m <= n + 1 /\ WarmTarget[k] \in Nat
          /\ n + warm_pending[k] <= WarmTarget[k]
      BY <1>4, <1>5, <1>6, <1>7
    <3> HIDE DEF n, m
    <3>2. m + warm_pending'[k] <= WarmTarget[k]
      BY <2>3, <3>1
    <3> QED BY <3>2 DEF m
  <2> QED BY <1>7, <2>4, <2>5
<1>8. CASE i # k
  BY <1>2, <1>4, <1>5, <1>6, <1>8
<1> QED BY <1>7, <1>8

LEMMA WarmStep ==
  ASSUME TypeOK, CellsInv, WarmBounded, [Next]_vars
  PROVE  WarmBounded'
<1>0. \A i \in Images : Len(warm[i]) \in Nat
  BY LenProperties DEF TypeOK
<1>1. ASSUME UNCHANGED <<task, cells, warm, warm_pending>> PROVE WarmBounded'
  BY <1>0, <1>1, WarmSame
<1>2. CASE PlaceWarm
  <2>1. PICK i, p, c : WarmPlacement(i, p, c)
    BY <1>2, PlaceWarmEffect
  <2> DEFINE k == JobImage[queue[i]]
  <2>2. /\ cells[c].state = "Warm" /\ c \in CellIds /\ OnlyCell(c) /\ task'[c].pc = "start"
        /\ warm[k][p] = c /\ k \in Images /\ p \in 1 .. Len(warm[k])
        /\ warm' = [warm EXCEPT ![k] = RemoveIdx(@, p)]
    BY <2>1 DEF WarmPlacement
  <2> HIDE DEF k
  <2>3. task[c].pc = "none"
    BY <2>2, PoolFacts DEF CellsInv
  <2>4. warm_pending' = warm_pending
    BY <1>2 DEF PlaceWarm
  <2>5. ASSUME NEW h \in Images PROVE Len(warm'[h]) \in Nat /\ Len(warm'[h]) <= Len(warm[h])
    <3>1. CASE h = k
      <4>1. warm'[h] = RemoveIdx(warm[k], p) /\ warm[k] \in Seq(CellIds)
        BY <2>2, <3>1 DEF TypeOK
      <4>2. Len(warm'[h]) = Len(warm[k]) - 1
        BY <2>2, <4>1, RemoveIdxSeq
      <4> QED BY <1>0, <2>2, <3>1, <4>2
    <3>2. CASE h # k
      BY <1>0, <2>2, <3>2 DEF TypeOK
    <3> QED BY <3>1, <3>2
  <2> QED BY <2>2, <2>3, <2>4, <2>5, WarmSame DEF OnlyCell
<1>3. CASE PlaceCold
  <2>1. PICK i, c : ColdPlacement(i, c)
    BY <1>3, PlaceColdEffect
  <2>2. c \in CellIds /\ OnlyCell(c) /\ task[c].pc = "none" /\ task'[c].pc = "provision"
    BY <2>1 DEF ColdPlacement
  <2>3. warm_pending' = warm_pending /\ warm' = warm
    BY <1>3 DEF PlaceCold
  <2> QED BY <1>0, <2>2, <2>3, WarmSame DEF OnlyCell
<1>4. CASE ScaleUp
  <2>1. PICK c \in CellIds :
          /\ task[c].pc = "none" /\ OnlyCell(c) /\ task'[c].pc = "warm_provision"
          /\ cells'[c].image = ScaleImage /\ ScaleImage \in Images
    BY <1>4, ScaleUpEffect
  <2>2. /\ warm' = warm /\ warm_pending' = [warm_pending EXCEPT ![ScaleImage] = @ + 1]
        /\ Len(warm[ScaleImage]) + warm_pending[ScaleImage] < WarmTarget[ScaleImage]
    BY <1>4 DEF ScaleUp, BelowTarget
  <2>3. PICK k \in Images : k = ScaleImage
    BY <2>1
  <2> QED BY <2>1, <2>2, <2>3, WarmAdd
<1>5. CASE ReapWarm
  <2>1. PICK stale :
           /\ \A i \in Images : stale[i] \in Nat /\ stale[i] <= Len(warm[i])
           /\ warm' = [i \in Images |-> Kept(i, stale[i])]
           /\ ReapedOnly(stale)
    BY <1>5, ReapWarmEffect
  <2>2. \A c \in CellIds : c \in Reaped(stale) => task[c].pc = "none"
    BY <2>1, PoolReaped DEF CellsInv
  <2>3. warm_pending' = warm_pending
    BY <1>5 DEF ReapWarm
  <2>4. ASSUME NEW i \in Images PROVE Len(warm'[i]) \in Nat /\ Len(warm'[i]) <= Len(warm[i])
    <3>1. warm'[i] = Kept(i, stale[i]) /\ warm[i] \in Seq(CellIds)
      BY <2>1 DEF TypeOK
    <3> QED BY <2>1, <3>1, KeptSeq, LenProperties
  <2>5. ASSUME NEW c \in CellIds
        PROVE  /\ task'[c].pc = "warm_provision" <=> task[c].pc = "warm_provision"
               /\ task[c].pc = "warm_provision" => cells'[c].image = cells[c].image
    BY <2>1, <2>2 DEF ReapedOnly
  <2> QED BY <2>3, <2>4, <2>5, WarmSame
<1>6. ASSUME NEW c \in CellIds, WarmReady(c) PROVE WarmBounded'
  <2>1. /\ OnlyCell(c) /\ task'[c] = NoTask
        /\ cells[c].image \in Images
        /\ warm' = [warm EXCEPT ![cells[c].image] = Append(@, c)]
    BY <1>6, WarmTaskEffect DEF CellsInv
  <2>2. PICK k \in Images : k = cells[c].image
    BY <2>1
  <2>3. /\ task[c].pc = "warm_provision" /\ task'[c].pc = "none"
        /\ warm_pending' = [warm_pending EXCEPT ![k] = SatSub(@, 1)]
    BY <1>6, <2>1, <2>2 DEF WarmReady, NoTask
  <2>4. ASSUME NEW i \in Images
        PROVE  Len(warm'[i]) \in Nat /\ Len(warm'[i]) <= Len(warm[i]) + (IF i = k THEN 1 ELSE 0)
    <3>1. CASE i = k
      <4>1. warm'[i] = Append(warm[k], c) /\ warm[k] \in Seq(CellIds)
        BY <2>1, <2>2, <3>1 DEF TypeOK
      <4>2. Len(warm'[i]) = Len(warm[k]) + 1
        BY <4>1, AppendProperties
      <4> QED BY <1>0, <3>1, <4>2
    <3>2. CASE i # k
      BY <1>0, <2>1, <2>2, <3>2 DEF TypeOK
    <3> QED BY <3>1, <3>2
  <2> QED BY <2>1, <2>2, <2>3, <2>4, WarmRemove
<1>7. ASSUME NEW c \in CellIds, WarmFailed(c) PROVE WarmBounded'
  <2>1. OnlyCell(c) /\ task'[c] = NoTask /\ cells[c].image \in Images
    BY <1>7, WarmTaskEffect DEF CellsInv
  <2>2. PICK k \in Images : k = cells[c].image
    BY <2>1
  <2>3. /\ task[c].pc = "warm_provision" /\ task'[c].pc = "none" /\ warm' = warm
        /\ warm_pending' = [warm_pending EXCEPT ![k] = SatSub(@, 1)]
    BY <1>7, <2>1, <2>2 DEF WarmFailed, NoTask
  <2>4. \A i \in Images : /\ Len(warm'[i]) \in Nat
                          /\ Len(warm'[i]) <= Len(warm[i]) + (IF i = k THEN 1 ELSE 0)
    <3> SUFFICES ASSUME NEW i \in Images, NEW n \in Nat, n = Len(warm[i])
                 PROVE  n <= n + (IF i = k THEN 1 ELSE 0)
      BY <1>0, <2>3
    <3>1. n <= n + 1 /\ n <= n + 0
      OBVIOUS
    <3> QED BY <3>1
  <2> QED BY <2>4, <1>0, <2>1, <2>2, <2>3, WarmRemove
<1>8. ASSUME NEW c \in CellIds, BuildTask(c) \/ TeardownWarm(c) PROVE WarmBounded'
  <2>1. OnlyCell(c) /\ warm' = warm
    BY <1>8, OwnTaskAgrees DEF BuildTask
  <2>2. warm_pending' = warm_pending
    BY <1>8 DEF BuildTask, ProvisionOk, ProvisionErr, BuildStart, BuildBus, BuildEnd, TaskReap,
                TaskReapLog, FailDone, DrainCell, TeardownCell, TeardownWarm, inner
  <2>3. /\ task'[c].pc = "warm_provision" <=> task[c].pc = "warm_provision"
        /\ task[c].pc = "warm_provision" => cells'[c].image = cells[c].image
    <3>1. CASE TaskReapLog(c)
      BY <3>1, BuildTaskOnly DEF TaskMoves
    <3>2. CASE BuildBus(c) \/ BuildEnd(c) \/ TaskReap(c) \/ FailDone(c)
      <4>1. task[c].pc # "warm_provision" /\ cells' = cells
        BY <3>2, BuildTaskOnly DEF BuildBus, BuildEnd, TaskReap, FailDone
      <4>2. task'[c].pc # "warm_provision"
        BY <3>2, BuildTaskOnly DEF TaskMoves, NoTask
      <4> QED BY <4>1, <4>2
    <3>3. CASE ProvisionOk(c) \/ ProvisionErr(c) \/ BuildStart(c) \/ DrainCell(c) \/ TeardownCell(c)
      <4>1. task[c].pc # "warm_provision"
        BY <3>3 DEF ProvisionOk, ProvisionErr, BuildStart, DrainCell, TeardownCell
      <4>2. task'[c].pc # "warm_provision"
        BY <3>3, BuildTaskEffect DEF TaskMoves, NoTask, CellsInv
      <4> QED BY <4>1, <4>2
    <3>4. CASE TeardownWarm(c)
      <4>1. task[c].pc = "warm_terminate" /\ task'[c] = NoTask
        BY <3>4, WarmTaskEffect DEF TeardownWarm, CellsInv
      <4> QED BY <4>1 DEF NoTask
    <3> QED BY <1>8, <3>1, <3>2, <3>3, <3>4 DEF BuildTask
  <2> QED BY <1>0, <2>1, <2>2, <2>3, WarmSame DEF OnlyCell
<1> QED
  BY <1>1, <1>2, <1>3, <1>4, <1>5, <1>6, <1>7, <1>8
     DEF Next, Submitting, SubmitRecord, SubmitBus, Scheduling, SchedulerWake, SchedulerTick,
         PassDone, WarmTask, Autoscaling, ScaleNext, AutoReap, AutoReapLog, AutoSleep, inner, vars

(* Both counters are exact for every number of cells, images and jobs, in   *)
(* whatever order provisioning, builds and teardowns end.                   *)
THEOREM CountersCorrect == Spec => []CountersExact
<1>1. Init => CountersExact
  <2> SUFFICES ASSUME Init PROVE CountersExact
    OBVIOUS
  <2>1. \A c \in CellIds : task[c].pc = "none"
    BY DEF Init, NoTask
  <2>2. BuildTasks = {} /\ \A i : WarmTasks(i) = {}
    BY <2>1 DEF BuildPcs, BuildTasks, WarmTasks
  <2>3. BuildsExact
    <3>1. running_builds = 0 /\ MaxConcurrentBuilds \in Nat
      BY ConstantsAssumption DEF Init
    <3>2. running_builds = Cardinality(BuildTasks) /\ running_builds <= MaxConcurrentBuilds
      BY <2>2, <3>1, FS_EmptySet
    <3> QED BY <3>2 DEF BuildsExact, BuildTasks
  <2>4. WarmBounded
    <3>1. \A i \in Images : warm_pending[i] = 0 /\ warm[i] = <<>> /\ WarmTarget[i] \in Nat
      BY ConstantsAssumption DEF Init
    <3>2. Len(<<>>) = 0
      BY EmptySeq
    <3>3. ASSUME NEW i \in Images
          PROVE  /\ warm_pending[i] = Cardinality(WarmTasks(i))
                 /\ Len(warm[i]) + warm_pending[i] <= WarmTarget[i]
      BY <2>2, <3>1, <3>2, FS_EmptySet
    <3> QED BY <3>3 DEF WarmBounded, WarmTasks
  <2> QED BY <2>3, <2>4 DEF CountersExact
<1>2. TypeOK /\ CellsInv /\ [Next]_vars => CellsInv'
  BY CellsStep
<1>3. TypeOK /\ CellsInv /\ CountersExact /\ [Next]_vars => CountersExact'
  BY BuildsStep, WarmStep DEF CountersExact
<1> QED
  BY <1>1, <1>2, <1>3, CellsInit, TypeCorrect, PTL DEF Spec

-----------------------------------------------------------------------------
(*****************************************************************************)
(* 4. Jobs                                                                   *)
(*****************************************************************************)

-----------------------------------------------------------------------------
(* The retention bound, for any number of submissions *)

Reapers == {c \in CellIds : task[c].pc \in {"reap", "fail_reap"}}

LEMMA FinishedFinite ==
  /\ IsFiniteSet(Finished) /\ Cardinality(Finished) \in Nat
  /\ IsFiniteSet(Reapers) /\ Cardinality(Reapers) \in Nat
<1>1. Finished \subseteq Jobs /\ Reapers \subseteq CellIds
  BY DEF Finished, Reapers
<1> QED BY <1>1, ConstantsAssumption, FS_Subset, FS_CardinalityType

LEMMA FinishedFiniteNext ==
  /\ IsFiniteSet(Finished') /\ Cardinality(Finished') \in Nat
  /\ IsFiniteSet(Reapers') /\ Cardinality(Reapers') \in Nat
<1>1. Finished' \subseteq Jobs /\ Reapers' \subseteq CellIds
  BY DEF Finished, Reapers
<1> QED BY <1>1, ConstantsAssumption, FS_Subset, FS_CardinalityType

(* After a reap the bound holds outright. *)
LEMMA EvictionsBound ==
  ASSUME TypeOK, NEW E \in Evictions, EvictRecords(E)
  PROVE  RetentionBounded'
<1>1. Finished' = Finished \ E
  BY DEF Finished, EvictRecords, AbsentJob, TerminalStates
<1>2. Cardinality(Finished \ E) <= MaxRetained
  <2>1. CASE Cardinality(Finished) <= MaxRetained
    <3>1. E = {}
      BY <2>1 DEF Evictions
    <3>2. Finished \ E = Finished
      BY <3>1
    <3> QED BY <2>1, <3>2
  <2>2. CASE ~(Cardinality(Finished) <= MaxRetained)
    <3>1. Cardinality(Finished \ E) = MaxRetained
      BY <2>2 DEF Evictions
    <3> QED BY <3>1, ConstantsAssumption
  <2> QED BY <2>1, <2>2
<1>3. Cardinality(Finished') <= MaxRetained + Cardinality(Reapers')
  BY <1>1, <1>2, FinishedFiniteNext, ConstantsAssumption
<1> QED BY <1>3 DEF RetentionBounded, Reapers

LEMMA RetentionKept ==
  ASSUME RetentionBounded, Finished' \subseteq Finished, Reapers' = Reapers
  PROVE  RetentionBounded'
<1>1. Cardinality(Finished') <= Cardinality(Finished)
  BY FinishedFinite, FS_Subset
<1>2. Cardinality(Finished) <= MaxRetained + Cardinality(Reapers)
  BY DEF RetentionBounded, Reapers
<1>3. Cardinality(Finished') <= MaxRetained + Cardinality(Reapers')
  BY <1>1, <1>2, FinishedFinite, FinishedFiniteNext, ConstantsAssumption
<1> QED BY <1>3 DEF RetentionBounded, Reapers

(* A task that records a result is about to reap. *)
LEMMA RetentionFinish ==
  ASSUME TypeOK, RetentionBounded, NEW c \in CellIds, NEW st, FinishJob(task[c].job, st),
         OnlyCell(c), task[c].pc \notin {"reap", "fail_reap"}, task'[c].pc \in {"reap", "fail_reap"}
  PROVE  RetentionBounded'
<1> DEFINE j == task[c].job
<1>1. Finished' \subseteq Finished \cup {j}
  <2>1. \A i \in Jobs : i # j => jobs'[i] = jobs[i]
    BY DEF FinishJob, TypeOK
  <2> QED BY <2>1 DEF Finished
<1>2. Reapers' = Reapers \cup {c} /\ c \notin Reapers
  BY DEF Reapers, OnlyCell
<1> HIDE DEF j
<1>3. IsFiniteSet(Finished \cup {j}) /\ Cardinality(Finished \cup {j}) <= Cardinality(Finished) + 1
      /\ Cardinality(Finished \cup {j}) \in Nat
  <2>1. CASE j \in Finished
    <3>1. Finished \cup {j} = Finished
      BY <2>1
    <3>2. \A n \in Nat : n <= n + 1
      OBVIOUS
    <3> QED BY <3>1, <3>2, FinishedFinite
  <2>2. CASE j \notin Finished
    <3>1. IsFiniteSet(Finished \cup {j}) /\ Cardinality(Finished \cup {j}) = Cardinality(Finished) + 1
      BY <2>2, FinishedFinite, FS_AddElement
    <3> QED BY <3>1, FinishedFinite
  <2> QED BY <2>1, <2>2
<1>4. Cardinality(Finished') <= Cardinality(Finished \cup {j})
  BY <1>1, <1>3, FS_Subset
<1>5. Cardinality(Reapers \cup {c}) = Cardinality(Reapers) + 1
  BY <1>2, FinishedFinite, FS_AddElement
<1>6. Cardinality(Finished) <= MaxRetained + Cardinality(Reapers)
  BY DEF RetentionBounded, Reapers
<1>7. Cardinality(Finished') <= MaxRetained + Cardinality(Reapers')
  BY <1>2, <1>3, <1>4, <1>5, <1>6, FinishedFinite, FinishedFiniteNext, ConstantsAssumption
<1> QED BY <1>7 DEF RetentionBounded, Reapers

LEMMA RetentionStep ==
  ASSUME TypeOK, CellsInv, RetentionBounded, [Next]_vars
  PROVE  RetentionBounded'
<1>1. ASSUME UNCHANGED <<jobs, task>> PROVE RetentionBounded'
  BY <1>1 DEF RetentionBounded, Finished
<1>2. ASSUME NEW j \in Jobs, SubmitRecord(j) PROVE RetentionBounded'
  <2>1. Finished' \subseteq Finished
    BY <1>2 DEF SubmitRecord, TypeOK, Finished, QueuedJob, TerminalStates
  <2>2. Reapers' = Reapers
    BY <1>2 DEF SubmitRecord, Reapers
  <2> QED BY <2>1, <2>2, RetentionKept
<1>3. ASSUME NEW j \in Jobs, NEW c \in CellIds, AssignJob(j, c) PROVE Finished' \subseteq Finished
  <2>1. \A i \in Jobs : i # j => jobs'[i] = jobs[i]
    BY <1>3 DEF AssignJob, TypeOK
  <2>2. jobs'[j].state = "Scheduled"
    <3> DEFINE r == jobs[j]
    <3>1. r \in JobRecord /\ jobs'[j] = [r EXCEPT !.state = "Scheduled", !.cell = c]
      BY <1>3 DEF AssignJob, TypeOK
    <3> HIDE DEF r
    <3> QED BY <3>1 DEF JobRecord
  <2> QED BY <2>1, <2>2 DEF Finished, TerminalStates
<1>4. CASE PlaceWarm
  <2>1. PICK i, p, c : WarmPlacement(i, p, c)
    BY <1>4, PlaceWarmEffect
  <2>2. /\ c \in CellIds /\ OnlyCell(c) /\ task[c].pc = "none" /\ task'[c].pc = "start"
        /\ queue[i] \in Jobs /\ AssignJob(queue[i], c)
    BY <2>1, PoolFacts DEF WarmPlacement, CellsInv
  <2>3. Reapers' = Reapers
    BY <2>2 DEF Reapers, OnlyCell
  <2> QED BY <1>3, <2>2, <2>3, RetentionKept
<1>5. CASE PlaceCold
  <2>1. PICK i, c : ColdPlacement(i, c)
    BY <1>5, PlaceColdEffect
  <2>2. /\ c \in CellIds /\ OnlyCell(c) /\ task[c].pc = "none" /\ task'[c].pc = "provision"
        /\ queue[i] \in Jobs /\ AssignJob(queue[i], c)
    BY <2>1 DEF ColdPlacement
  <2>3. Reapers' = Reapers
    BY <2>2 DEF Reapers, OnlyCell
  <2> QED BY <1>3, <2>2, <2>3, RetentionKept
<1>6. ASSUME NEW c \in CellIds, BuildStart(c) PROVE RetentionBounded'
  <2>1. OnlyCell(c) /\ task[c].pc = "start" /\ task[c].job \in Jobs
        /\ task'[c].pc \in {"bus", "lost"}
    BY <1>6, BuildTaskEffect DEF BuildStart, TaskMoves, CellsInv, TypeOK, BuildPcs
  <2>2. Finished' \subseteq Finished
    <3> DEFINE j == task[c].job
               r == jobs[j]
    <3>1. /\ r \in JobRecord
          /\ jobs' = jobs \/ jobs' = [jobs EXCEPT ![j] = [r EXCEPT !.state = "Building"]]
      BY <1>6, <2>1 DEF BuildStart, TypeOK
    <3>2. [r EXCEPT !.state = "Building"].state = "Building"
      <4> HIDE DEF r
      <4> QED BY <3>1 DEF JobRecord
    <3> DEFINE q == [r EXCEPT !.state = "Building"]
    <3>3. jobs' = jobs \/ jobs' = [jobs EXCEPT ![j] = q]
      BY <3>1
    <3> HIDE DEF j, q, r
    <3> QED BY <3>2, <3>3 DEF TypeOK, Finished, TerminalStates, q
  <2>3. Reapers' = Reapers
    BY <2>1 DEF Reapers, OnlyCell
  <2> QED BY <2>2, <2>3, RetentionKept
<1>7. ASSUME NEW c \in CellIds, ProvisionErr(c) PROVE RetentionBounded'
  <2>1. OnlyCell(c) /\ task[c].pc = "provision" /\ task'[c].pc = "fail_reap"
        /\ FinishJob(task[c].job, "Failed")
    BY <1>7, BuildTaskEffect DEF ProvisionErr, TaskMoves, CellsInv
  <2> QED BY <2>1, RetentionFinish
<1>8. ASSUME NEW c \in CellIds, BuildEnd(c) PROVE RetentionBounded'
  <2>1. OnlyCell(c) /\ task[c].pc = "run" /\ task'[c].pc = "reap"
        /\ \E st \in BuildResults \cup {"Failed"} : FinishJob(task[c].job, st)
    BY <1>8, BuildTaskOnly DEF BuildEnd, TaskMoves
  <2> QED BY <2>1, RetentionFinish
<1>9. ASSUME NEW c \in CellIds, TaskReap(c) PROVE RetentionBounded'
  BY <1>9, EvictionsBound DEF TaskReap
<1>10. CASE AutoReap
  BY <1>10, EvictionsBound DEF AutoReap
<1>11. ASSUME NEW c \in CellIds,
              ProvisionOk(c) \/ BuildBus(c) \/ TaskReapLog(c) \/ FailDone(c) \/ DrainCell(c)
              \/ TeardownCell(c) \/ WarmTask(c)
       PROVE  RetentionBounded'
  <2>1. jobs' = jobs
    BY <1>11 DEF ProvisionOk, BuildBus, TaskReapLog, FailDone, DrainCell, TeardownCell,
                 WarmTask, WarmReady, WarmFailed, TeardownWarm, inner
  <2>2. OnlyCell(c)
    BY <1>11, BuildTaskEffect, BuildTaskOnly, WarmTaskEffect DEF WarmTask, CellsInv
  <2>3. task'[c].pc \in {"reap", "fail_reap"} <=> task[c].pc \in {"reap", "fail_reap"}
    <3>1. CASE TaskReapLog(c)
      BY <3>1, BuildTaskOnly DEF TaskMoves
    <3>2. CASE ~TaskReapLog(c)
      <4>1. task[c].pc \notin {"reap", "fail_reap"}
        BY <1>11, <3>2 DEF ProvisionOk, BuildBus, FailDone, DrainCell, TeardownCell,
                           WarmTask, WarmReady, WarmFailed, TeardownWarm
      <4>2. task'[c].pc \notin {"reap", "fail_reap"}
        BY <1>11, <3>2, BuildTaskEffect, BuildTaskOnly, WarmTaskEffect
           DEF WarmTask, TaskMoves, NoTask, CellsInv
      <4> QED BY <4>1, <4>2
    <3> QED BY <3>1, <3>2
  <2>4. Finished' \subseteq Finished
    BY <2>1 DEF Finished
  <2>5. Reapers' = Reapers
    BY <2>2, <2>3 DEF Reapers, OnlyCell
  <2> QED BY <2>4, <2>5, RetentionKept
<1>12. CASE ScaleUp
  <2>1. PICK c \in CellIds : task[c].pc = "none" /\ OnlyCell(c) /\ task'[c].pc = "warm_provision"
    BY <1>12, ScaleUpEffect
  <2>2. Finished' \subseteq Finished
    BY <1>12 DEF ScaleUp, Finished
  <2>3. Reapers' = Reapers
    BY <2>1 DEF Reapers, OnlyCell
  <2> QED BY <2>2, <2>3, RetentionKept
<1>13. CASE ReapWarm
  <2>1. PICK stale :
           /\ \A i \in Images : stale[i] \in Nat /\ stale[i] <= Len(warm[i])
           /\ warm' = [i \in Images |-> Kept(i, stale[i])]
           /\ ReapedOnly(stale)
    BY <1>13, ReapWarmEffect
  <2>2. \A c \in CellIds : c \in Reaped(stale) => task[c].pc = "none"
    BY <2>1, PoolReaped DEF CellsInv
  <2>3. Finished' \subseteq Finished
    BY <1>13 DEF ReapWarm, Finished
  <2>4. Reapers' = Reapers
    BY <2>1, <2>2 DEF Reapers, ReapedOnly
  <2> QED BY <2>3, <2>4, RetentionKept
<1> QED
  BY <1>1, <1>2, <1>4, <1>5, <1>6, <1>7, <1>8, <1>9, <1>10, <1>11, <1>12, <1>13
     DEF Next, Submitting, SubmitBus, Scheduling, SchedulerWake, SchedulerTick,
         PassDone, BuildTask, Autoscaling, ScaleNext, AutoReapLog, AutoSleep, inner, vars

(* The table never holds more finished records than the bound plus one per  *)
(* task that has recorded a result and not reaped, however often ids are    *)
(* posted and whoever reaps first.                                          *)
THEOREM RetentionCorrect == Spec => []RetentionBounded
<1>1. Init => RetentionBounded
  <2> SUFFICES ASSUME Init PROVE RetentionBounded
    OBVIOUS
  <2>1. Finished = {}
    BY DEF Init, Finished, AbsentJob, TerminalStates
  <2>2. Cardinality(Finished) <= MaxRetained + Cardinality(Reapers)
    BY <2>1, FS_EmptySet, FinishedFinite, ConstantsAssumption
  <2> QED BY <2>2 DEF RetentionBounded, Reapers
<1>2. TypeOK /\ CellsInv /\ [Next]_vars => CellsInv'
  BY CellsStep
<1>3. TypeOK /\ CellsInv /\ RetentionBounded /\ [Next]_vars => RetentionBounded'
  BY RetentionStep
<1> QED
  BY <1>1, <1>2, <1>3, CellsInit, TypeCorrect, PTL DEF Spec

-----------------------------------------------------------------------------
(* Jobs and cells, when no id is posted twice *)

OncePosted == \A j \in Jobs : MaxSubmits[j] <= 1

(* The positions of a build task whose job has no result yet. *)
ActivePcs == {"provision", "start", "bus", "run"}

SubmittedOnce ==
    \A j \in Jobs : /\ submits[j] \in {0, 1} /\ published[j] \in {0, 1}
                    /\ published[j] <= submits[j]
                    /\ jobs[j].state # "absent" => submits[j] = 1

QueueSound ==
    \A p, q \in 1 .. Len(queue) : /\ jobs[queue[p]].state = "Queued"
                                  /\ queue[p] = queue[q] => p = q

TaskJobAgree ==
    \A c \in CellIds :
      /\ task[c].pc \in {"provision", "start"} =>
           jobs[task[c].job].state = "Scheduled" /\ jobs[task[c].job].cell = c
      /\ task[c].pc \in {"bus", "run"} =>
           jobs[task[c].job].state = "Building" /\ jobs[task[c].job].cell = c

EvictedGone ==
    /\ \A c \in CellIds : \A j \in task[c].evict : jobs[j].state = "absent" /\ submits[j] = 1
    /\ \A j \in auto.evict : jobs[j].state = "absent" /\ submits[j] = 1

NoneLost == \A c \in CellIds : task[c].pc # "lost"

JobsInv ==
    /\ SubmittedOnce /\ QueueSound /\ TaskJobAgree /\ JobCellAgree
    /\ EvictedGone /\ NoneLost /\ LogsReadable

LEMMA JobTypes ==
  ASSUME TypeOK
  PROVE  /\ \A j \in Jobs : jobs[j] \in JobRecord
         /\ \A c \in CellIds : /\ task[c].evict \subseteq Jobs
                               /\ task[c].pc \in ActivePcs => task[c].job \in Jobs
         /\ auto.evict \subseteq Jobs
         /\ queue \in Seq(Jobs) /\ Len(queue) \in Nat
         /\ \A k \in 1 .. Len(queue) : queue[k] \in Jobs
BY ElementOfSeq, LenProperties
   DEF TypeOK, TaskRecord, AutoRecord, ActivePcs, BuildPcs

LEMMA AssignFacts ==
  ASSUME TypeOK, NEW j \in Jobs, NEW c \in CellIds, AssignJob(j, c)
  PROVE  /\ jobs'[j].state = "Scheduled" /\ jobs'[j].cell = c
         /\ \A i \in Jobs \ {j} : jobs'[i] = jobs[i]
<1> DEFINE r == jobs[j]
           q == [r EXCEPT !.state = "Scheduled", !.cell = c]
<1>1. r \in JobRecord /\ jobs' = [jobs EXCEPT ![j] = q]
  BY DEF AssignJob, TypeOK
<1>2. q.state = "Scheduled" /\ q.cell = c
  <2> HIDE DEF r
  <2> QED BY <1>1 DEF JobRecord
<1> HIDE DEF q
<1> QED BY <1>1, <1>2 DEF TypeOK

LEMMA FinishFacts ==
  ASSUME TypeOK, NEW j \in Jobs, NEW st, jobs[j].state # "absent", FinishJob(j, st)
  PROVE  /\ jobs'[j].state = st
         /\ \A i \in Jobs \ {j} : jobs'[i] = jobs[i]
<1> DEFINE r == jobs[j]
           q == [r EXCEPT !.state = st]
<1>1. r \in JobRecord /\ jobs' = [jobs EXCEPT ![j] = q]
  BY DEF FinishJob, TypeOK
<1>2. q.state = st
  <2> HIDE DEF r
  <2> QED BY <1>1 DEF JobRecord
<1> HIDE DEF q
<1> QED BY <1>1, <1>2 DEF TypeOK

LEMMA BuildStartFacts ==
  ASSUME TypeOK, NEW c \in CellIds, task[c].job \in Jobs,
         jobs[task[c].job].state # "absent", BuildStart(c)
  PROVE  /\ jobs'[task[c].job].state = "Building"
         /\ jobs'[task[c].job].cell = jobs[task[c].job].cell
         /\ \A i \in Jobs \ {task[c].job} : jobs'[i] = jobs[i]
<1> DEFINE j == task[c].job
           r == jobs[j]
           q == [r EXCEPT !.state = "Building"]
<1>1. r \in JobRecord /\ jobs' = [jobs EXCEPT ![j] = q]
  BY DEF BuildStart, TypeOK
<1>2. q.state = "Building" /\ q.cell = r.cell
  <2> HIDE DEF r
  <2> QED BY <1>1 DEF JobRecord
<1> HIDE DEF q
<1> QED BY <1>1, <1>2 DEF TypeOK

(* Steps that leave the job table, the queue and the log map alone and      *)
(* touch only cells that no active task works on.                           *)
LEMMA IdleStep ==
  ASSUME TypeOK, JobsInv, UNCHANGED <<jobs, queue, logs, submits, published>>,
         auto'.evict \subseteq auto.evict,
         \A c \in CellIds :
           \/ cells'[c] = cells[c] /\ task'[c] = task[c]
           \/ /\ task[c].pc \notin ActivePcs
              /\ task'[c].pc \notin ActivePcs \cup {"lost"}
              /\ task'[c].evict \subseteq task[c].evict
  PROVE  JobsInv'
<1> USE DEF JobsInv
<1>1. SubmittedOnce' /\ QueueSound' /\ LogsReadable'
  BY DEF SubmittedOnce, QueueSound, LogsReadable
<1>2. TaskJobAgree' /\ NoneLost'
  BY DEF TaskJobAgree, NoneLost, ActivePcs
<1>3. EvictedGone'
  BY DEF EvictedGone
<1>4. JobCellAgree'
  <2> SUFFICES ASSUME NEW j \in Jobs, jobs[j].state \in {"Scheduled", "Building"}
               PROVE  LET c == jobs[j].cell IN
                      /\ c \in CellIds /\ cells'[c].job = j /\ task'[c].job = j
                      /\ task'[c].pc \in IF jobs[j].state = "Scheduled" THEN {"provision", "start"}
                                                                       ELSE {"bus", "run"}
    BY DEF JobCellAgree
  <2>1. LET c == jobs[j].cell IN
        /\ c \in CellIds /\ cells[c].job = j /\ task[c].job = j
        /\ task[c].pc \in IF jobs[j].state = "Scheduled" THEN {"provision", "start"}
                                                        ELSE {"bus", "run"}
    BY DEF JobCellAgree
  <2> QED BY <2>1 DEF ActivePcs
<1> QED BY <1>1, <1>2, <1>3, <1>4

(* A first post. *)
LEMMA SubmitRecordJobs ==
  ASSUME OncePosted, TypeOK, JobsInv, NEW j \in Jobs, SubmitRecord(j)
  PROVE  JobsInv'
<1> USE DEF JobsInv
<1>1. MaxSubmits[j] \in Nat /\ submits[j] \in Nat
  BY ConstantsAssumption DEF TypeOK
<1>2. /\ submits[j] = 0 /\ submits'[j] = 1 /\ published[j] = 0
      /\ jobs[j].state = "absent" /\ jobs'[j].state = "Queued"
      /\ \A i \in Jobs \ {j} : jobs'[i] = jobs[i] /\ submits'[i] = submits[i]
      /\ UNCHANGED <<cells, task, auto, logs, published>> /\ queue' = Append(queue, j)
  BY <1>1 DEF SubmitRecord, OncePosted, SubmittedOnce, TypeOK, QueuedJob
<1>3. SubmittedOnce'
  BY <1>2 DEF SubmittedOnce
<1>4. QueueSound'
  <2>1. /\ Len(queue') = Len(queue) + 1 /\ queue'[Len(queue) + 1] = j /\ Len(queue) \in Nat
        /\ \A k \in 1 .. Len(queue) : queue'[k] = queue[k] /\ queue[k] \in Jobs
    BY <1>2, JobTypes, AppendProperties
  <2>2. \A k \in 1 .. Len(queue) : queue[k] # j /\ jobs'[queue[k]].state = "Queued"
    BY <1>2, <2>1 DEF QueueSound
  <2> QED BY <1>2, <2>1, <2>2 DEF QueueSound
<1>5. TaskJobAgree' /\ NoneLost'
  BY <1>2, JobTypes DEF TaskJobAgree, NoneLost, ActivePcs
<1>6. EvictedGone'
  BY <1>2, JobTypes DEF EvictedGone
<1>7. JobCellAgree'
  BY <1>2 DEF JobCellAgree
<1>8. LogsReadable'
  BY <1>2 DEF LogsReadable
<1> QED BY <1>3, <1>4, <1>5, <1>6, <1>7, <1>8

LEMMA SubmitBusJobs ==
  ASSUME TypeOK, JobsInv, NEW j \in Jobs, SubmitBus(j)
  PROVE  JobsInv'
<1> USE DEF JobsInv
<1>1. /\ UNCHANGED <<cells, jobs, queue, task, auto, submits>> /\ logs' = logs \cup {j}
      /\ published[j] = 0 /\ published'[j] = 1 /\ submits[j] = 1
      /\ \A i \in Jobs \ {j} : published'[i] = published[i]
  BY DEF SubmitBus, inner, SubmittedOnce, TypeOK
<1> QED BY <1>1 DEF SubmittedOnce, QueueSound, TaskJobAgree, JobCellAgree, EvictedGone, NoneLost, LogsReadable

(* A placement takes one queued job, whose id occurs nowhere else.          *)
LEMMA PlacedStep ==
  ASSUME TypeOK, JobsInv, NEW i \in 1 .. Len(queue), NEW c \in CellIds, NEW j \in Jobs,
         j = queue[i], OnlyCell(c), task[c].pc = "none", cells'[c].job = j,
         task'[c].pc \in {"provision", "start"}, task'[c].job = j, task'[c].evict = {},
         queue' = RemoveIdx(queue, i), AssignJob(j, c),
         UNCHANGED <<logs, submits, published, auto>>
  PROVE  JobsInv'
<1> USE DEF JobsInv
<1>1. /\ jobs[j].state = "Queued" /\ jobs'[j].state = "Scheduled" /\ jobs'[j].cell = c
      /\ \A h \in Jobs \ {j} : jobs'[h] = jobs[h]
  BY AssignFacts DEF QueueSound
<1>2. SubmittedOnce'
  BY <1>1 DEF SubmittedOnce
<1>3. QueueSound'
  <2> DEFINE src(k) == IF k < i THEN k ELSE k + 1
  <2>1. queue \in Seq(Jobs) /\ Len(queue) \in Nat
    BY JobTypes
  <2>2. /\ Len(queue') = Len(queue) - 1
        /\ \A k \in 1 .. Len(queue) - 1 : queue'[k] = IF k < i THEN queue[k] ELSE queue[k + 1]
    BY <2>1, RemoveIdxSeq
  <2>3. ASSUME NEW k \in 1 .. Len(queue')
        PROVE  /\ src(k) \in 1 .. Len(queue) /\ src(k) # i /\ queue'[k] = queue[src(k)]
    BY <2>1, <2>2
  <2>4. ASSUME NEW k \in 1 .. Len(queue'), NEW l \in 1 .. Len(queue'), src(k) = src(l)
        PROVE  k = l
    BY <2>1, <2>2, <2>4
  <2> HIDE DEF src
  <2>5. ASSUME NEW k \in 1 .. Len(queue')
        PROVE  queue'[k] \in Jobs \ {j} /\ jobs[queue'[k]].state = "Queued"
    <3>1. src(k) \in 1 .. Len(queue) /\ src(k) # i /\ queue'[k] = queue[src(k)]
      BY <2>3
    <3> QED BY <3>1, JobTypes DEF QueueSound
  <2>6. ASSUME NEW k \in 1 .. Len(queue'), NEW l \in 1 .. Len(queue'), queue'[k] = queue'[l]
        PROVE  k = l
    <3>1. src(k) = src(l)
      BY <2>3, <2>6 DEF QueueSound
    <3> QED BY <2>4, <3>1
  <2> QED BY <1>1, <2>5, <2>6 DEF QueueSound
<1>4. TaskJobAgree'
  <2>1. ASSUME NEW d \in CellIds, d # c, task[d].pc \in ActivePcs
        PROVE  task'[d] = task[d] /\ task[d].job \in Jobs \ {j}
    BY <1>1, <2>1, JobTypes DEF OnlyCell, TaskJobAgree, ActivePcs
  <2> QED BY <1>1, <2>1 DEF TaskJobAgree, ActivePcs, OnlyCell
<1>5. NoneLost'
  BY DEF NoneLost, OnlyCell
<1>6. EvictedGone'
  BY <1>1, JobTypes DEF EvictedGone, OnlyCell
<1>7. JobCellAgree'
  <2> SUFFICES ASSUME NEW h \in Jobs, jobs'[h].state \in {"Scheduled", "Building"}
               PROVE  LET d == jobs'[h].cell IN
                      /\ d \in CellIds /\ cells'[d].job = h /\ task'[d].job = h
                      /\ task'[d].pc \in IF jobs'[h].state = "Scheduled" THEN {"provision", "start"}
                                                                        ELSE {"bus", "run"}
    BY DEF JobCellAgree
  <2>1. CASE h = j
    BY <1>1, <2>1
  <2>2. CASE h # j
    <3>1. jobs'[h] = jobs[h]
      BY <1>1, <2>2
    <3>2. LET d == jobs[h].cell IN
          /\ d \in CellIds /\ cells[d].job = h /\ task[d].job = h
          /\ task[d].pc \in IF jobs[h].state = "Scheduled" THEN {"provision", "start"}
                                                          ELSE {"bus", "run"}
      BY <3>1 DEF JobCellAgree
    <3> QED BY <3>1, <3>2 DEF OnlyCell
  <2> QED BY <2>1, <2>2
<1>8. LogsReadable'
  BY <1>1 DEF LogsReadable, TypeOK
<1> QED BY <1>2, <1>3, <1>4, <1>5, <1>6, <1>7, <1>8

(* A build task that takes its next step while its job has no result. *)
LEMMA ActiveStep ==
  ASSUME TypeOK, JobsInv, NEW c \in CellIds, OnlyCell(c),
         task[c].pc \in ActivePcs, task'[c].pc \in ActivePcs,
         cells'[c].job = cells[c].job, task'[c].job = task[c].job, task'[c].evict = task[c].evict,
         jobs'[task[c].job].cell = jobs[task[c].job].cell,
         jobs'[task[c].job].state =
             IF task'[c].pc \in {"provision", "start"} THEN "Scheduled" ELSE "Building",
         \A i \in Jobs \ {task[c].job} : jobs'[i] = jobs[i],
         logs \subseteq logs', UNCHANGED <<queue, submits, published, auto>>
  PROVE  JobsInv'
<1> USE DEF JobsInv
<1>1. PICK j \in Jobs : j = task[c].job
  BY JobTypes
<1>2. jobs[j].state \in {"Scheduled", "Building"} /\ jobs[j].cell = c
  BY <1>1 DEF TaskJobAgree, ActivePcs
<1>3. /\ jobs'[j].cell = c
      /\ jobs'[j].state = IF task'[c].pc \in {"provision", "start"} THEN "Scheduled" ELSE "Building"
      /\ \A i \in Jobs \ {j} : jobs'[i] = jobs[i]
  BY <1>1, <1>2
<1>4. SubmittedOnce' /\ LogsReadable'
  BY <1>2, <1>3 DEF SubmittedOnce, LogsReadable
<1>5. QueueSound'
  <2>1. \A k \in 1 .. Len(queue) : queue[k] \in Jobs \ {j}
    BY <1>2, JobTypes DEF QueueSound
  <2> QED BY <1>3, <2>1 DEF QueueSound
<1>6. TaskJobAgree'
  <2>1. ASSUME NEW d \in CellIds, d # c, task[d].pc \in ActivePcs
        PROVE  task'[d] = task[d] /\ task[d].job \in Jobs \ {j}
    BY <1>2, <2>1, JobTypes DEF OnlyCell, TaskJobAgree, ActivePcs
  <2> QED BY <1>1, <1>3, <2>1 DEF TaskJobAgree, ActivePcs, OnlyCell
<1>7. NoneLost'
  BY DEF NoneLost, OnlyCell, ActivePcs
<1>8. EvictedGone'
  BY <1>2, <1>3, JobTypes DEF EvictedGone, OnlyCell
<1>9. JobCellAgree'
  <2> SUFFICES ASSUME NEW h \in Jobs, jobs'[h].state \in {"Scheduled", "Building"}
               PROVE  LET d == jobs'[h].cell IN
                      /\ d \in CellIds /\ cells'[d].job = h /\ task'[d].job = h
                      /\ task'[d].pc \in IF jobs'[h].state = "Scheduled" THEN {"provision", "start"}
                                                                        ELSE {"bus", "run"}
    BY DEF JobCellAgree
  <2>1. CASE h = j
    <3>1. cells[c].job = j
      BY <1>2 DEF JobCellAgree
    <3> QED BY <1>1, <1>3, <2>1, <3>1 DEF ActivePcs
  <2>2. CASE h # j
    <3>1. jobs'[h] = jobs[h]
      BY <1>3, <2>2
    <3>2. LET d == jobs[h].cell IN
          /\ d \in CellIds /\ cells[d].job = h /\ task[d].job = h
          /\ task[d].pc \in IF jobs[h].state = "Scheduled" THEN {"provision", "start"}
                                                          ELSE {"bus", "run"}
      BY <3>1 DEF JobCellAgree
    <3>3. jobs[h].cell # c
      BY <1>1, <2>2, <3>2
    <3> QED BY <3>1, <3>2, <3>3 DEF OnlyCell
  <2> QED BY <2>1, <2>2
<1> QED BY <1>4, <1>5, <1>6, <1>7, <1>8, <1>9

(* A build task that records its job's result. *)
LEMMA ResultStep ==
  ASSUME TypeOK, JobsInv, NEW c \in CellIds, OnlyCell(c), NEW st \in TerminalStates,
         task[c].pc \in ActivePcs, task'[c].pc \in {"reap", "fail_reap"},
         task'[c].evict = task[c].evict, FinishJob(task[c].job, st),
         UNCHANGED <<queue, logs, submits, published, auto>>
  PROVE  JobsInv'
<1> USE DEF JobsInv
<1>1. PICK j \in Jobs : j = task[c].job
  BY JobTypes
<1>2. jobs[j].state \in {"Scheduled", "Building"} /\ jobs[j].cell = c
  BY <1>1 DEF TaskJobAgree, ActivePcs
<1>3. jobs'[j].state = st /\ \A i \in Jobs \ {j} : jobs'[i] = jobs[i]
  BY <1>1, <1>2, FinishFacts
<1>4. SubmittedOnce' /\ LogsReadable'
  BY <1>2, <1>3 DEF SubmittedOnce, LogsReadable
<1>5. QueueSound'
  <2>1. \A k \in 1 .. Len(queue) : queue[k] \in Jobs \ {j}
    BY <1>2, JobTypes DEF QueueSound
  <2> QED BY <1>3, <2>1 DEF QueueSound
<1>6. TaskJobAgree'
  <2>1. ASSUME NEW d \in CellIds, d # c, task[d].pc \in ActivePcs
        PROVE  task'[d] = task[d] /\ task[d].job \in Jobs \ {j}
    BY <1>2, <2>1, JobTypes DEF OnlyCell, TaskJobAgree, ActivePcs
  <2> QED BY <1>1, <1>3, <2>1 DEF TaskJobAgree, ActivePcs, OnlyCell
<1>7. NoneLost'
  BY DEF NoneLost, OnlyCell
<1>8. EvictedGone'
  BY <1>2, <1>3, JobTypes DEF EvictedGone, OnlyCell
<1>9. JobCellAgree'
  <2> SUFFICES ASSUME NEW h \in Jobs, jobs'[h].state \in {"Scheduled", "Building"}
               PROVE  LET d == jobs'[h].cell IN
                      /\ d \in CellIds /\ cells'[d].job = h /\ task'[d].job = h
                      /\ task'[d].pc \in IF jobs'[h].state = "Scheduled" THEN {"provision", "start"}
                                                                        ELSE {"bus", "run"}
    BY DEF JobCellAgree
  <2>1. h # j /\ jobs'[h] = jobs[h]
    BY <1>3 DEF TerminalStates
  <2>2. LET d == jobs[h].cell IN
        /\ d \in CellIds /\ cells[d].job = h /\ task[d].job = h
        /\ task[d].pc \in IF jobs[h].state = "Scheduled" THEN {"provision", "start"}
                                                        ELSE {"bus", "run"}
    BY <2>1 DEF JobCellAgree
  <2>3. jobs[h].cell # c
    BY <1>1, <2>1, <2>2
  <2> QED BY <2>1, <2>2, <2>3 DEF OnlyCell
<1> QED BY <1>4, <1>5, <1>6, <1>7, <1>8, <1>9

(* An eviction takes finished records only; its reaper remembers which. *)
LEMMA EvictStep ==
  ASSUME TypeOK, JobsInv, NEW E \in Evictions, EvictRecords(E),
         UNCHANGED <<cells, queue, logs, submits, published>>,
         auto'.evict \subseteq auto.evict \cup E,
         \A c \in CellIds :
           \/ task'[c] = task[c]
           \/ /\ task[c].pc \notin ActivePcs
              /\ task'[c].pc \notin ActivePcs \cup {"lost"}
              /\ task'[c].evict \subseteq E
  PROVE  JobsInv'
<1> USE DEF JobsInv
<1>1. /\ E \subseteq Jobs
      /\ \A j \in E : jobs[j].state \in TerminalStates /\ jobs'[j].state = "absent" /\ submits[j] = 1
      /\ \A j \in Jobs \ E : jobs'[j] = jobs[j]
  BY EvictionsAreJobs DEF EvictRecords, AbsentJob, SubmittedOnce, TerminalStates
<1>2. SubmittedOnce' /\ LogsReadable'
  BY <1>1 DEF SubmittedOnce, LogsReadable
<1>3. QueueSound'
  <2>1. \A k \in 1 .. Len(queue) : queue[k] \in Jobs \ E
    BY <1>1, JobTypes DEF QueueSound, TerminalStates
  <2> QED BY <1>1, <2>1 DEF QueueSound
<1>4. TaskJobAgree'
  <2>1. ASSUME NEW d \in CellIds, task[d].pc \in ActivePcs
        PROVE  task'[d] = task[d] /\ task[d].job \in Jobs \ E
    BY <1>1, <2>1, JobTypes DEF TaskJobAgree, ActivePcs, TerminalStates
  <2> QED BY <1>1, <2>1 DEF TaskJobAgree, ActivePcs
<1>5. NoneLost'
  BY DEF NoneLost
<1>6. EvictedGone'
  <2>1. \A j \in Jobs : jobs[j].state = "absent" => jobs'[j].state = "absent"
    BY <1>1
  <2> QED BY <1>1, <2>1, JobTypes DEF EvictedGone
<1>7. JobCellAgree'
  BY <1>1 DEF JobCellAgree, ActivePcs
<1> QED BY <1>2, <1>3, <1>4, <1>5, <1>6, <1>7

(* Removing the log bus of a job whose record is gone for good. *)
LEMMA EvictLogStep ==
  ASSUME TypeOK, JobsInv, NEW j \in Jobs, jobs[j].state = "absent", logs' = logs \ {j},
         UNCHANGED <<cells, jobs, queue, submits, published>>,
         auto'.evict \subseteq auto.evict,
         \A c \in CellIds : /\ task'[c].pc = task[c].pc /\ task'[c].job = task[c].job
                            /\ task'[c].evict \subseteq task[c].evict
  PROVE  JobsInv'
<1> USE DEF JobsInv
<1>1. SubmittedOnce' /\ QueueSound' /\ LogsReadable'
  BY DEF SubmittedOnce, QueueSound, LogsReadable
<1>2. TaskJobAgree' /\ NoneLost' /\ EvictedGone'
  BY DEF TaskJobAgree, NoneLost, EvictedGone
<1>3. JobCellAgree'
  BY DEF JobCellAgree
<1> QED BY <1>1, <1>2, <1>3

(* The autoscaler's eviction list after each of its own steps. *)
LEMMA AutoFacts ==
  ASSUME TypeOK
  PROVE  /\ (ScaleNext \/ ReapWarm \/ AutoSleep) => auto'.evict \subseteq auto.evict
         /\ AutoReap => \E E \in Evictions : EvictRecords(E) /\ auto'.evict = E
         /\ AutoReapLog => \E j \in auto.evict :
                             logs' = logs \ {j} /\ auto'.evict = auto.evict \ {j}
<1> DEFINE a == auto
<1>1. a \in AutoRecord
  BY DEF TypeOK
<1>2. [a EXCEPT !.img = @ + 1].evict = a.evict
  <2> HIDE DEF a
  <2> QED BY <1>1 DEF AutoRecord
<1>3. [a EXCEPT !.pc = "reap_jobs"].evict = a.evict
  <2> HIDE DEF a
  <2> QED BY <1>1 DEF AutoRecord
<1>4. \A E : [a EXCEPT !.pc = "reap_logs", !.evict = E].evict = E
  <2> HIDE DEF a
  <2> QED BY <1>1 DEF AutoRecord
<1>5. \A j : [a EXCEPT !.evict = @ \ {j}].evict = a.evict \ {j}
  <2> HIDE DEF a
  <2> QED BY <1>1 DEF AutoRecord
<1>6. ScaleNext => auto'.evict \subseteq auto.evict
  BY <1>2 DEF ScaleNext
<1>7. ReapWarm => auto'.evict \subseteq auto.evict
  BY <1>3 DEF ReapWarm
<1>8. AutoSleep => auto'.evict \subseteq auto.evict
  BY DEF AutoSleep, Idle
<1>9. AutoReap => \E E \in Evictions : EvictRecords(E) /\ auto'.evict = E
  BY <1>4 DEF AutoReap
<1>10. AutoReapLog => \E j \in auto.evict : logs' = logs \ {j} /\ auto'.evict = auto.evict \ {j}
  BY <1>5 DEF AutoReapLog
<1> QED BY <1>6, <1>7, <1>8, <1>9, <1>10

(* The steps of a build task. *)
LEMMA BuildTaskJobs ==
  ASSUME TypeOK, CellsInv, JobsInv, NEW c \in CellIds, BuildTask(c)
  PROVE  JobsInv'
<1>1. CASE ProvisionOk(c)
  <2>1. /\ OnlyCell(c) /\ task[c].pc = "provision" /\ task'[c].pc = "start"
        /\ cells'[c].job = cells[c].job /\ task'[c].job = task[c].job
        /\ task'[c].evict = task[c].evict
    BY <1>1, BuildTaskEffect DEF ProvisionOk, CellMoves, TaskMoves, CellsInv
  <2>2. jobs[task[c].job].state = "Scheduled"
    BY <2>1 DEF JobsInv, TaskJobAgree
  <2>3. UNCHANGED <<jobs, queue, logs, auto, submits, published>>
    BY <1>1 DEF ProvisionOk
  <2>4. /\ task[c].pc \in ActivePcs /\ task'[c].pc \in ActivePcs
        /\ jobs'[task[c].job].state =
             IF task'[c].pc \in {"provision", "start"} THEN "Scheduled" ELSE "Building"
    BY <2>1, <2>2, <2>3 DEF ActivePcs
  <2> QED BY <2>1, <2>3, <2>4, ActiveStep
<1>2. CASE ProvisionErr(c)
  <2>1. /\ OnlyCell(c) /\ task[c].pc = "provision" /\ task'[c].pc = "fail_reap"
        /\ task'[c].evict = task[c].evict
    BY <1>2, BuildTaskEffect DEF ProvisionErr, TaskMoves, CellsInv
  <2>2. /\ UNCHANGED <<queue, logs, auto, submits, published>>
        /\ FinishJob(task[c].job, "Failed")
    BY <1>2 DEF ProvisionErr
  <2>3. task[c].pc \in ActivePcs /\ "Failed" \in TerminalStates
    BY <2>1 DEF ActivePcs, TerminalStates
  <2> QED BY <2>1, <2>2, <2>3, ResultStep
<1>3. CASE BuildStart(c)
  <2>1. task[c].pc = "start"
    BY <1>3 DEF BuildStart
  <2>2. task[c].job \in Jobs /\ jobs[task[c].job].state = "Scheduled"
    BY <2>1, JobTypes DEF JobsInv, TaskJobAgree, ActivePcs
  <2>3. /\ OnlyCell(c) /\ task'[c].pc = "bus"
        /\ cells'[c].job = cells[c].job /\ task'[c].job = task[c].job
        /\ task'[c].evict = task[c].evict
    BY <1>3, <2>2, BuildTaskEffect DEF CellMoves, TaskMoves, CellsInv
  <2>4. UNCHANGED <<queue, logs, auto, submits, published>>
    BY <1>3 DEF BuildStart
  <2>5. /\ jobs'[task[c].job].cell = jobs[task[c].job].cell
        /\ jobs'[task[c].job].state = "Building"
        /\ \A i \in Jobs \ {task[c].job} : jobs'[i] = jobs[i]
    BY <1>3, <2>2, BuildStartFacts
  <2>6. /\ task[c].pc \in ActivePcs /\ task'[c].pc \in ActivePcs
        /\ jobs'[task[c].job].state =
             IF task'[c].pc \in {"provision", "start"} THEN "Scheduled" ELSE "Building"
    BY <2>1, <2>3, <2>5 DEF ActivePcs
  <2> QED BY <2>3, <2>4, <2>5, <2>6, ActiveStep
<1>4. CASE BuildBus(c)
  <2>1. /\ OnlyCell(c) /\ task[c].pc = "bus" /\ task'[c].pc = "run"
        /\ cells' = cells /\ task'[c].job = task[c].job /\ task'[c].evict = task[c].evict
    BY <1>4, BuildTaskOnly DEF BuildBus, TaskMoves
  <2>2. jobs[task[c].job].state = "Building"
    BY <2>1 DEF JobsInv, TaskJobAgree
  <2>3. UNCHANGED <<jobs, queue, auto, submits, published>> /\ logs \subseteq logs'
    BY <1>4 DEF BuildBus, inner
  <2>4. /\ task[c].pc \in ActivePcs /\ task'[c].pc \in ActivePcs
        /\ jobs'[task[c].job].state =
             IF task'[c].pc \in {"provision", "start"} THEN "Scheduled" ELSE "Building"
    BY <2>1, <2>2, <2>3 DEF ActivePcs
  <2> QED BY <2>1, <2>3, <2>4, ActiveStep
<1>5. CASE BuildEnd(c)
  <2>1. /\ OnlyCell(c) /\ task[c].pc = "run" /\ task'[c].pc = "reap"
        /\ task'[c].evict = task[c].evict
    BY <1>5, BuildTaskOnly DEF BuildEnd, TaskMoves
  <2>2. PICK st \in BuildResults \cup {"Failed"} : FinishJob(task[c].job, st)
    BY <1>5 DEF BuildEnd
  <2>3. st \in TerminalStates /\ task[c].pc \in ActivePcs
    BY <2>1, ConstantsAssumption DEF TerminalStates, ActivePcs
  <2>4. UNCHANGED <<queue, logs, auto, submits, published>>
    BY <1>5 DEF BuildEnd
  <2> QED BY <2>1, <2>2, <2>3, <2>4, ResultStep
<1>6. CASE TaskReap(c)
  <2>1. PICK E \in Evictions :
          /\ OnlyCell(c) /\ cells' = cells /\ EvictRecords(E) /\ task'[c].evict = E
          /\ TaskMoves(c, IF task[c].pc = "reap" THEN "reap_logs" ELSE "fail_logs")
    BY <1>6, BuildTaskOnly
  <2>2. /\ UNCHANGED <<queue, logs, auto, submits, published>>
        /\ task[c].pc \in {"reap", "fail_reap"}
    BY <1>6 DEF TaskReap
  <2>3. \A d \in CellIds :
           \/ task'[d] = task[d]
           \/ /\ task[d].pc \notin ActivePcs /\ task'[d].pc \notin ActivePcs \cup {"lost"}
              /\ task'[d].evict \subseteq E
    BY <2>1, <2>2 DEF OnlyCell, TaskMoves, ActivePcs
  <2> QED BY <2>1, <2>2, <2>3, EvictStep
<1>7. CASE TaskReapLog(c)
  <2>1. PICK j \in task[c].evict :
          /\ OnlyCell(c) /\ cells' = cells /\ logs' = logs \ {j}
          /\ TaskMoves(c, task[c].pc) /\ task'[c].evict = task[c].evict \ {j}
    BY <1>7, BuildTaskOnly
  <2>2. j \in Jobs /\ jobs[j].state = "absent"
    BY JobTypes DEF JobsInv, EvictedGone
  <2>3. UNCHANGED <<cells, jobs, queue, auto, submits, published>>
    BY <1>7 DEF TaskReapLog, inner
  <2>4. \A d \in CellIds : /\ task'[d].pc = task[d].pc /\ task'[d].job = task[d].job
                           /\ task'[d].evict \subseteq task[d].evict
    BY <2>1 DEF OnlyCell, TaskMoves
  <2> QED BY <2>1, <2>2, <2>3, <2>4, EvictLogStep
<1>8. CASE FailDone(c) \/ DrainCell(c) \/ TeardownCell(c)
  <2>1. UNCHANGED <<jobs, queue, logs, auto, submits, published>>
    BY <1>8 DEF FailDone, DrainCell, TeardownCell, inner
  <2>2. OnlyCell(c) /\ task[c].pc \in {"fail_logs", "reap_logs", "terminate"}
    BY <1>8, BuildTaskEffect, BuildTaskOnly DEF FailDone, DrainCell, TeardownCell, CellsInv
  <2>3. task'[c].pc \in {"none", "terminate"} /\ task'[c].evict \subseteq task[c].evict
    BY <1>8, BuildTaskEffect, BuildTaskOnly DEF CellsInv, TaskMoves, NoTask
  <2>4. \A d \in CellIds :
           \/ cells'[d] = cells[d] /\ task'[d] = task[d]
           \/ /\ task[d].pc \notin ActivePcs /\ task'[d].pc \notin ActivePcs \cup {"lost"}
              /\ task'[d].evict \subseteq task[d].evict
    BY <2>2, <2>3 DEF OnlyCell, ActivePcs
  <2>5. auto'.evict \subseteq auto.evict
    BY <2>1
  <2> QED BY <2>1, <2>4, <2>5, IdleStep
<1> QED
  BY <1>1, <1>2, <1>3, <1>4, <1>5, <1>6, <1>7, <1>8 DEF BuildTask

(* The steps of the autoscaler and of the warm tasks. *)
LEMMA WarmStepJobs ==
  ASSUME TypeOK, CellsInv, JobsInv, Autoscaling \/ \E c \in CellIds : WarmTask(c)
  PROVE  JobsInv'
<1>1. ASSUME NEW c \in CellIds, WarmTask(c) PROVE JobsInv'
  <2>1. UNCHANGED <<jobs, queue, logs, auto, submits, published>>
    BY <1>1 DEF WarmTask, WarmReady, WarmFailed, TeardownWarm
  <2>2. OnlyCell(c) /\ task[c].pc \in WarmPcs /\ task'[c] = NoTask
    BY <1>1, WarmTaskEffect DEF WarmTask, WarmReady, WarmFailed, TeardownWarm, CellsInv, WarmPcs
  <2>3. \A d \in CellIds :
           \/ cells'[d] = cells[d] /\ task'[d] = task[d]
           \/ /\ task[d].pc \notin ActivePcs /\ task'[d].pc \notin ActivePcs \cup {"lost"}
              /\ task'[d].evict \subseteq task[d].evict
    BY <2>2 DEF OnlyCell, ActivePcs, NoTask, WarmPcs
  <2>4. auto'.evict \subseteq auto.evict
    BY <2>1
  <2> QED BY <2>1, <2>3, <2>4, IdleStep
<1>2. CASE ScaleUp
  <2>1. UNCHANGED <<jobs, queue, logs, auto, submits, published>>
    BY <1>2 DEF ScaleUp
  <2>2. PICK c \in CellIds : /\ task[c].pc = "none" /\ OnlyCell(c)
                             /\ task'[c].pc = "warm_provision" /\ task'[c].evict = {}
    BY <1>2, ScaleUpEffect
  <2>3. \A d \in CellIds :
           \/ cells'[d] = cells[d] /\ task'[d] = task[d]
           \/ /\ task[d].pc \notin ActivePcs /\ task'[d].pc \notin ActivePcs \cup {"lost"}
              /\ task'[d].evict \subseteq task[d].evict
    BY <2>2 DEF OnlyCell, ActivePcs
  <2>4. auto'.evict \subseteq auto.evict
    BY <2>1
  <2> QED BY <2>1, <2>3, <2>4, IdleStep
<1>3. CASE ReapWarm
  <2>1. UNCHANGED <<jobs, queue, logs, submits, published>>
    BY <1>3 DEF ReapWarm
  <2>2. PICK stale :
           /\ \A i \in Images : stale[i] \in Nat /\ stale[i] <= Len(warm[i])
           /\ warm' = [i \in Images |-> Kept(i, stale[i])]
           /\ ReapedOnly(stale)
    BY <1>3, ReapWarmEffect
  <2>3. \A c \in CellIds : c \in Reaped(stale) => task[c].pc = "none"
    BY <2>2, PoolReaped DEF CellsInv
  <2>4. \A d \in CellIds :
           \/ cells'[d] = cells[d] /\ task'[d] = task[d]
           \/ /\ task[d].pc \notin ActivePcs /\ task'[d].pc \notin ActivePcs \cup {"lost"}
              /\ task'[d].evict \subseteq task[d].evict
    BY <2>2, <2>3 DEF ReapedOnly, ActivePcs
  <2>5. auto'.evict \subseteq auto.evict
    BY <1>3, AutoFacts
  <2> QED BY <2>1, <2>4, <2>5, IdleStep
<1>4. CASE ScaleNext \/ AutoSleep
  <2>1. UNCHANGED <<jobs, queue, logs, cells, task, submits, published>>
    BY <1>4 DEF ScaleNext, AutoSleep, inner
  <2>2. auto'.evict \subseteq auto.evict
    BY <1>4, AutoFacts
  <2> QED BY <2>1, <2>2, IdleStep
<1>5. CASE AutoReap
  <2>1. UNCHANGED <<cells, task, queue, logs, submits, published>>
    BY <1>5 DEF AutoReap
  <2>2. PICK E \in Evictions : EvictRecords(E) /\ auto'.evict = E
    BY <1>5, AutoFacts
  <2> QED BY <2>1, <2>2, EvictStep
<1>6. CASE AutoReapLog
  <2>1. UNCHANGED <<cells, task, jobs, queue, submits, published>>
    BY <1>6 DEF AutoReapLog, inner
  <2>2. PICK j \in auto.evict : logs' = logs \ {j} /\ auto'.evict = auto.evict \ {j}
    BY <1>6, AutoFacts
  <2>3. j \in Jobs /\ jobs[j].state = "absent"
    BY JobTypes DEF JobsInv, EvictedGone
  <2> QED BY <2>1, <2>2, <2>3, EvictLogStep
<1> QED
  BY <1>1, <1>2, <1>3, <1>4, <1>5, <1>6 DEF Autoscaling

LEMMA JobsStep ==
  ASSUME OncePosted, TypeOK, CellsInv, JobsInv, [Next]_vars
  PROVE  JobsInv'
<1>1. CASE UNCHANGED vars
  BY <1>1, IdleStep DEF vars
<1>2. CASE Submitting
  BY <1>2, SubmitRecordJobs, SubmitBusJobs DEF Submitting
<1>3. CASE SchedulerWake \/ SchedulerTick \/ PassDone
  <2>1. UNCHANGED <<cells, jobs, queue, logs, auto, task, submits, published>>
    BY <1>3 DEF SchedulerWake, SchedulerTick, PassDone, inner
  <2> QED BY <2>1, IdleStep
<1>4. CASE PlaceWarm
  <2>1. PICK i, p, c : WarmPlacement(i, p, c)
    BY <1>4, PlaceWarmEffect
  <2>2. task[c].pc = "none" /\ c \in CellIds
    BY <2>1, PoolFacts DEF WarmPlacement, CellsInv
  <2>3. /\ i \in 1 .. Len(queue) /\ queue[i] \in Jobs /\ OnlyCell(c) /\ cells'[c].job = queue[i]
        /\ task'[c].pc = "start" /\ task'[c].job = queue[i] /\ task'[c].evict = {}
        /\ queue' = RemoveIdx(queue, i) /\ AssignJob(queue[i], c)
    BY <2>1 DEF WarmPlacement
  <2>4. UNCHANGED <<logs, submits, published, auto>>
    BY <1>4 DEF PlaceWarm
  <2>5. task'[c].pc \in {"provision", "start"}
    BY <2>3
  <2> QED BY <2>2, <2>3, <2>4, <2>5, PlacedStep
<1>5. CASE PlaceCold
  <2>1. PICK i, c : ColdPlacement(i, c)
    BY <1>5, PlaceColdEffect
  <2>2. /\ c \in CellIds /\ task[c].pc = "none"
        /\ i \in 1 .. Len(queue) /\ queue[i] \in Jobs /\ OnlyCell(c) /\ cells'[c].job = queue[i]
        /\ task'[c].pc = "provision" /\ task'[c].job = queue[i] /\ task'[c].evict = {}
        /\ queue' = RemoveIdx(queue, i) /\ AssignJob(queue[i], c)
    BY <2>1 DEF ColdPlacement
  <2>3. UNCHANGED <<logs, submits, published, auto>>
    BY <1>5 DEF PlaceCold
  <2>4. task'[c].pc \in {"provision", "start"}
    BY <2>2
  <2> QED BY <2>2, <2>3, <2>4, PlacedStep
<1>6. ASSUME NEW c \in CellIds, BuildTask(c) PROVE JobsInv'
  BY <1>6, BuildTaskJobs
<1>7. CASE Autoscaling \/ \E c \in CellIds : WarmTask(c)
  BY <1>7, WarmStepJobs
<1> QED
  BY <1>1, <1>2, <1>3, <1>4, <1>5, <1>6, <1>7 DEF Next, Scheduling

LEMMA JobsInit == Init => JobsInv
<1> SUFFICES ASSUME Init PROVE JobsInv
  OBVIOUS
<1>1. SubmittedOnce
  BY DEF Init, SubmittedOnce, AbsentJob
<1>2. QueueSound
  BY DEF Init, QueueSound
<1>3. TaskJobAgree /\ NoneLost
  BY DEF Init, TaskJobAgree, NoneLost, NoTask
<1>4. EvictedGone
  BY DEF Init, EvictedGone, NoTask, Idle
<1>5. JobCellAgree /\ LogsReadable
  BY DEF Init, JobCellAgree, LogsReadable, AbsentJob
<1> QED BY <1>1, <1>2, <1>3, <1>4, <1>5 DEF JobsInv

(* With no task lost, every record has an owner. *)
LEMMA OwnedCells ==
  ASSUME TypeOK, CellsInv, NoneLost
  PROVE  EveryCellOwned
<1> SUFFICES ASSUME NEW c \in CellIds
             PROVE  Present(c) <=> \/ task[c].pc \in (BuildPcs \ {"lost"}) \cup WarmPcs
                                   \/ \E i \in Images : c \in Elems(warm[i])
  BY DEF EveryCellOwned
<1>1. ASSUME Present(c), task[c].pc \notin (BuildPcs \ {"lost"}) \cup WarmPcs
      PROVE  \E i \in Images : c \in Elems(warm[i])
  <2>1. task[c].pc \in TaskPcs /\ task[c].pc # "lost"
    BY DEF TypeOK, TaskRecord, NoneLost
  <2>2. task[c].pc = "none"
    BY <1>1, <2>1 DEF TaskPcs, CellsInv, TaskCellAgree, BuildPcs, FailPcs, WarmPcs
  <2>3. cells[c].state = "Warm" /\ cells[c].image \in Images
    BY <1>1, <2>2 DEF CellsInv, TaskCellAgree, Present, TypeOK
  <2> QED BY <2>3 DEF CellsInv, WarmPoolSound
<1>2. ASSUME task[c].pc \in (BuildPcs \ {"lost"}) \cup WarmPcs PROVE Present(c)
  BY <1>2 DEF BuildPcs, WarmPcs, CellsInv, TaskCellAgree, Present
<1>3. ASSUME NEW i \in Images, c \in Elems(warm[i]) PROVE Present(c)
  <2>1. PICK p \in 1 .. Len(warm[i]) : warm[i][p] = c
    BY <1>3 DEF Elems
  <2>2. cells[c].state = "Warm"
    BY <2>1 DEF CellsInv, WarmPoolSound
  <2> QED BY <2>2 DEF Present
<1> QED BY <1>1, <1>2, <1>3

LEMMA JobsInvariant == ASSUME OncePosted PROVE Spec => [](TypeOK /\ CellsInv /\ JobsInv)
<1>1. OncePosted /\ TypeOK /\ CellsInv /\ JobsInv /\ [Next]_vars => JobsInv'
  BY JobsStep
<1>2. TypeOK /\ CellsInv /\ JobsInv /\ [Next]_vars => JobsInv'
  BY <1>1
<1>3. TypeOK /\ CellsInv /\ [Next]_vars => CellsInv'
  BY CellsStep
<1> QED
  BY <1>2, <1>3, CellsInit, JobsInit, TypeCorrect, PTL DEF Spec

(* The cell table, the pools, the job table and the build tasks tell one    *)
(* story whatever fails and whoever reaps, as long as no client posts an id *)
(* again: submit replaces the record of an id it knows.                     *)
THEOREM CellsAccountedCorrect == ASSUME OncePosted PROVE Spec => []CellsAccounted
<1>1. TypeOK /\ CellsInv /\ JobsInv => CellsAccounted
  BY OwnedCells DEF CellsAccounted, CellsInv, JobsInv
<1> QED BY <1>1, JobsInvariant, PTL

(* Retention as a whole, under the same hypothesis: it bounds what is kept, *)
(* spares what is in flight and leaves no job view whose logs are gone.     *)
THEOREM RetentionSafeCorrect == ASSUME OncePosted PROVE Spec => []RetentionSafe
<1>1. TypeOK /\ JobsInv => InFlightNeverEvicted
  BY DEF JobsInv, QueueSound, TaskJobAgree, InFlightNeverEvicted
<1>2. TypeOK /\ CellsInv /\ JobsInv /\ RetentionBounded => RetentionSafe
  BY <1>1 DEF RetentionSafe, JobsInv
<1> QED BY <1>2, JobsInvariant, RetentionCorrect, PTL
=============================================================================
