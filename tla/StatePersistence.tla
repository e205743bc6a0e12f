------------------------- MODULE StatePersistence -------------------------
(***************************************************************************)
(* How a node's platform state outlives the process: the coalescing        *)
(* persister and persist_durable write state.json, every save admits a     *)
(* generation that the GuardianDB writer commits to the replicated store,  *)
(* shutdown drains both, and after a boot the restore guard may take the   *)
(* replica for the truth.                                                  *)
(*                                                                         *)
(* Models crates/hive-cloud/src/persist.rs, the replication lifecycle, the *)
(* shutdown and the restore guard of guardian.rs and the snapshot loop and *)
(* shutdown task of main.rs.  State is the set of mutations it contains.   *)
(* One generation is committed in one step here; SnapshotParts models how. *)
(* Times are compared only with the time of the last commit, so the clock  *)
(* ticks there: saved_ms of a capture is the current tick, the timestamp   *)
(* of a committed head is a new one.                                       *)
(***************************************************************************)
EXTENDS Naturals, Sequences

CONSTANTS Mutation,    \* state changes clients ask for
          Durable,     \* those that must be on disk before the answer
          Merged,      \* those in stores that restore merges, not replaces
          Late,        \* bound: those clients may ask for after a restart too
          MaxLoops,    \* bound: passes of the snapshot loop
          MaxBoots,    \* bound: restarts of the process
          MaxFaults    \* bound: failed writes and lost disks

ASSUME PersistenceAssumption ==
    /\ Durable \subseteq Merged /\ Merged \subseteq Mutation /\ Late \subseteq Mutation
    /\ Mutation \cap {"none", "bg", "flush"} = {}
    /\ MaxLoops \in Nat /\ MaxBoots \in Nat /\ MaxFaults \in Nat

VARIABLES
    req,       \* req[m]: how far the request for m got
    mem,       \* CloudState
    file,      \* state.json
    head,      \* the committed replica; ms 0 when there is none
    clock,     \* the time of the last commit
    dirty, saved, open,    \* Persister: generations and admission
    bg,        \* the hive-persister thread
    writer,    \* Persister.writer and what its holder captured
    loopSnap,  \* what the snapshot loop captured and has not replicated
    rep,       \* ReplicationLifecycle
    queue,     \* the watch channel: the latest desired generation
    gw,        \* replication_writer
    shut,      \* the shutdown task
    guard,     \* spawn_restore_guard
    adopted,   \* history: a replica was adopted
    wiped,     \* history: the disk was lost
    carried,   \* history: what was acknowledged before an exit that had its own
               \* final generation committed, if no disk was lost before it
    loops, boots, faults

admission == <<dirty, saved, open>>
disk      == <<file, head, clock>>
guardian  == <<rep, queue, gw>>
history   == <<adopted, wiped, carried>>
bounds    == <<loops, boots, faults>>
vars == <<req, mem, disk, admission, bg, writer, loopSnap, guardian, shut,
          guard, history, bounds>>

----------------------------------------------------------------------------
Free      == [by |-> "none", phase |-> "free", target |-> 0, body |-> {}, ms |-> 0]
NoCapture == [live |-> FALSE, body |-> {}]
Running   == [pc |-> "run", gen |-> 0, own |-> FALSE]
Unguarded == [pc |-> "pending", body |-> {}, ms |-> 0]
NewRep    == [open |-> TRUE, next |-> 0, committed |-> 0]
NewQueue  == {}
NewWriter == [pc |-> "idle", gen |-> 0, body |-> {}]

Init ==
    /\ req = [m \in Mutation |-> "new"]
    /\ mem = {}
    /\ file = [body |-> {}, ms |-> 0]
    /\ head = [body |-> {}, ms |-> 0]
    /\ clock = 0
    /\ dirty = 0 /\ saved = 0 /\ open = TRUE
    /\ bg = "check" /\ writer = Free /\ loopSnap = NoCapture
    /\ rep = NewRep /\ queue = NewQueue /\ gw = NewWriter
    /\ shut = Running /\ guard = [Unguarded EXCEPT !.pc = "done"]
    /\ adopted = FALSE /\ wiped = FALSE /\ carried = {}
    /\ loops = 0 /\ boots = 0 /\ faults = 0

Acked    == {m \in Mutation : req[m] = "acked"}
Admitted == {m \in Mutation : req[m] = "admitted"}

Up == shut.pc \notin {"stopped", "exited"}

Fault == faults < MaxFaults /\ faults' = faults + 1 /\ UNCHANGED <<loops, boots>>

----------------------------------------------------------------------------
(* Requests.                                                               *)

Mutate(m) ==
    /\ Up /\ req[m] = "new"
    /\ mem' = mem \cup {m}
    /\ req' = [req EXCEPT ![m] = "inmem"]
    /\ UNCHANGED <<disk, admission, bg, writer, loopSnap, guardian, shut, guard,
                   history, bounds>>

\* admit_generation: the bump and the admission check share a lock.
Admit == open /\ dirty' = dirty + 1 /\ UNCHANGED <<saved, open>>

\* Mutant: the bump wakes nobody.
NoWake == UNCHANGED bg

\* cv.notify_one.
Wake == bg' = IF bg = "waiting" THEN "check" ELSE bg

\* persist: mark dirty, wake the background writer.
Persist(m) ==
    /\ Up /\ req[m] = "inmem" /\ m \notin Durable
    /\ Admit /\ Wake
    /\ req' = [req EXCEPT ![m] = "admitted"]
    /\ UNCHANGED <<mem, disk, writer, loopSnap, guardian, shut, guard, history, bounds>>

\* persist_durable: admitted, the caller goes on to write itself.
PersistDurable(m) ==
    /\ Up /\ req[m] = "inmem" /\ m \in Durable
    /\ Admit
    /\ req' = [req EXCEPT ![m] = "durable"]
    /\ UNCHANGED <<mem, disk, bg, writer, loopSnap, guardian, shut, guard, history,
                   bounds>>

\* Past the shutdown barrier both refuse without waiting.
PersistRefused(m) ==
    /\ Up /\ req[m] = "inmem" /\ ~open
    /\ req' = [req EXCEPT ![m] = "refused"]
    /\ UNCHANGED <<mem, disk, admission, bg, writer, loopSnap, guardian, shut, guard,
                   history, bounds>>

----------------------------------------------------------------------------
(* The exclusive capture-and-save slot: taken by the background thread, by *)
(* persist_durable (named by its mutation) and by flush_blocking.          *)

\* The condition of the wait loop, under the admission lock.
BgWaits ==
    /\ Up /\ bg = "check" /\ dirty <= saved
    /\ bg' = "waiting"
    /\ UNCHANGED <<req, mem, disk, admission, writer, loopSnap, guardian, shut, guard,
                   history, bounds>>

\* The generation is read first, then the state is captured: what arrives in
\* between is in the capture and counts as newer.
Take(by) ==
    /\ Up /\ writer.by = "none"
    /\ writer' = [by |-> by, phase |-> "captured", target |-> dirty, body |-> mem,
                  ms |-> clock]
    /\ UNCHANGED <<req, mem, disk, admission, loopSnap, guardian, guard, history, bounds>>

BgTake ==
    /\ bg = "check" /\ dirty > saved /\ Take("bg")
    /\ bg' = "saving" /\ UNCHANGED shut

DurableTake(m) == req[m] = "durable" /\ Take(m) /\ UNCHANGED <<bg, shut>>

\* A pass of flush_blocking failed, or left newer generations: once more, or
\* the drain times out.
FlushUnfinished == shut.pc = "failed" \/ (shut.pc = "stable" /\ dirty > saved)

FlushTake ==
    /\ shut.pc = "flush" \/ FlushUnfinished
    /\ Take("flush")
    /\ shut' = [shut EXCEPT !.pc = "saving"] /\ UNCHANGED bg

\* The temporary file is written, synced and renamed into place.
WriteFile ==
    /\ Up /\ writer.phase = "captured"
    /\ file' = [body |-> writer.body, ms |-> writer.ms]
    /\ writer' = [writer EXCEPT !.phase = "filed"]
    /\ UNCHANGED <<req, mem, head, clock, admission, bg, loopSnap, guardian, shut, guard,
                   history, bounds>>

----------------------------------------------------------------------------
(* Guardian admission.                                                     *)

\* replicate: supersede what is queued, queue the new generation.
Replicate(body) ==
    IF rep.open
    THEN rep' = [rep EXCEPT !.next = @ + 1] /\ queue' = body
    ELSE UNCHANGED <<rep, queue>>

\* Mutant: one generation too many counts as saved.
SavedPastTarget == saved' = writer.target + 1

\* The generation read before the capture is on disk.
SavedUpToTarget == saved' = writer.target

\* What the holder does after a save that went through, or did not.
Release(ok) ==
    /\ writer' = Free
    /\ bg' = IF writer.by = "bg" THEN "check" ELSE bg
    /\ req' = [m \in Mutation |->
                 IF writer.by = m THEN (IF ok THEN "acked" ELSE "refused") ELSE req[m]]
    /\ shut' = IF writer.by # "flush" THEN shut
               ELSE [pc |-> IF ok THEN "stable" ELSE "failed",
                     gen |-> IF ok /\ rep.open THEN rep.next + 1 ELSE 0,
                     own |-> FALSE]

\* The save replicates, then the saved generation advances.
FinishSave ==
    /\ Up /\ writer.phase = "filed"
    /\ Replicate(writer.body)
    /\ SavedUpToTarget /\ UNCHANGED <<dirty, open>>
    /\ Release(TRUE)
    /\ UNCHANGED <<mem, disk, loopSnap, gw, guard, history, bounds>>

\* The write or its sync fails, or, once the file is in place, that of the
\* directory or of a namespace document; saved stays behind.
SaveFails ==
    /\ Up /\ writer.by # "none" /\ Fault
    /\ Release(FALSE)
    /\ UNCHANGED <<mem, disk, admission, loopSnap, guardian, guard, history>>

\* spawn_guardian_snapshot_loop captures outside the writer slot...
LoopCapture ==
    /\ Up /\ ~loopSnap.live /\ loops < MaxLoops
    /\ loopSnap' = [live |-> TRUE, body |-> mem]
    /\ loops' = loops + 1
    /\ UNCHANGED <<req, mem, disk, admission, bg, writer, guardian, shut, guard, history,
                   boots, faults>>

\* ... and replicates what it captured.
LoopReplicate ==
    /\ Up /\ loopSnap.live
    /\ Replicate(loopSnap.body)
    /\ loopSnap' = NoCapture
    /\ UNCHANGED <<req, mem, disk, admission, bg, writer, gw, shut, guard, history, bounds>>

----------------------------------------------------------------------------
(* The only writer of the replicated store.                                *)

\* A new generation, or the latest one after a failure.
GuardianBorrow ==
    /\ Up /\ (gw.pc = "retry" \/ (gw.pc = "idle" /\ rep.next > rep.committed))
    /\ gw' = [pc |-> "writing", gen |-> rep.next, body |-> queue]
    /\ UNCHANGED <<req, mem, disk, admission, bg, writer, loopSnap, rep, queue, shut, guard,
                   history, bounds>>

\* The head is put with a fresh timestamp unless it already names this state.
GuardianCommit ==
    /\ Up /\ gw.pc = "writing"
    /\ IF head.ms # 0 /\ head.body = gw.body
       THEN UNCHANGED <<head, clock>>
       ELSE head' = [body |-> gw.body, ms |-> clock + 1] /\ clock' = clock + 1
    /\ rep' = [rep EXCEPT !.committed = gw.gen]
    /\ gw' = NewWriter
    /\ UNCHANGED <<req, mem, file, admission, bg, writer, loopSnap, queue, shut, guard,
                   history, bounds>>

GuardianFails ==
    /\ Up /\ gw.pc = "writing" /\ Fault
    /\ gw' = [NewWriter EXCEPT !.pc = "retry"]
    /\ UNCHANGED <<req, mem, disk, admission, bg, writer, loopSnap, rep, queue, shut, guard,
                   history>>

----------------------------------------------------------------------------
(* Shutdown: flush_blocking, then guardian::shutdown.                      *)

ShutdownBegins ==
    /\ shut.pc = "run" /\ boots < MaxBoots
    /\ shut' = [shut EXCEPT !.pc = "flush"]
    /\ UNCHANGED <<req, mem, disk, admission, bg, writer, loopSnap, guardian, guard,
                   history, bounds>>

\* Mutant: the barrier closes without looking for newer generations.
FlushClosesAtOnce ==
    /\ shut.pc = "stable"
    /\ open' = FALSE
    /\ shut' = [shut EXCEPT !.pc = "close"]
    /\ UNCHANGED <<dirty, saved>>
    /\ UNCHANGED <<req, mem, disk, bg, writer, loopSnap, guardian, guard, history, bounds>>

\* The stable check shares the admission lock: close if nothing is dirty.
FlushCloses ==
    /\ shut.pc = "stable" /\ dirty <= saved
    /\ open' = FALSE
    /\ shut' = [shut EXCEPT !.pc = "close"]
    /\ UNCHANGED <<dirty, saved>>
    /\ UNCHANGED <<req, mem, disk, bg, writer, loopSnap, guardian, guard, history, bounds>>

\* close_replication_admission, also when it is forced at the latest one.
CloseAdmission == rep' = [rep EXCEPT !.open = FALSE]

\* close_replication_admission(final): the generation the flush got back.
CloseAtFinal ==
    /\ shut.pc = "close" /\ shut.gen = rep.next
    /\ CloseAdmission
    /\ shut' = [shut EXCEPT !.pc = "await", !.own = TRUE]
    /\ UNCHANGED <<req, mem, disk, admission, bg, writer, loopSnap, queue, gw, guard,
                   history, bounds>>

\* Refused when final is not the latest, and after a drain that timed out:
\* guardian::shutdown then closes at the latest.
CloseAtLatest ==
    /\ FlushUnfinished \/ (shut.pc = "close" /\ shut.gen # rep.next)
    /\ CloseAdmission
    /\ shut' = [pc |-> "await", gen |-> rep.next, own |-> FALSE]
    /\ UNCHANGED <<req, mem, disk, admission, bg, writer, loopSnap, queue, gw, guard,
                   history, bounds>>

\* Mutant: whatever the writer is at is waited for, not the final generation.
AwaitWriterOnly ==
    /\ shut.pc = "await"
    /\ gw.pc # "writing"
    /\ shut' = [shut EXCEPT !.pc = "stopped"]
    /\ UNCHANGED <<req, mem, disk, admission, bg, writer, loopSnap, guardian, guard,
                   history, bounds>>

\* await_final_generation returns; the writer is stopped and joined.
AwaitDone ==
    /\ shut.pc = "await"
    /\ rep.committed >= shut.gen
    /\ gw.pc # "writing"
    /\ shut' = [shut EXCEPT !.pc = "stopped"]
    /\ UNCHANGED <<req, mem, disk, admission, bg, writer, loopSnap, guardian, guard,
                   history, bounds>>

AwaitTimesOut ==
    /\ shut.pc = "await" /\ rep.committed < shut.gen
    /\ shut' = [shut EXCEPT !.pc = "exited"]
    /\ UNCHANGED <<req, mem, disk, admission, bg, writer, loopSnap, guardian, guard,
                   history, bounds>>

----------------------------------------------------------------------------
(* Death and boot.                                                         *)

\* The process starts from the file; the callers of the old one are gone.
Boot(found) ==
    /\ boots < MaxBoots /\ boots' = boots + 1 /\ UNCHANGED loops
    /\ file' = found /\ mem' = found.body
    /\ req' = [m \in Mutation |->
                 IF req[m] = "acked" \/ (req[m] = "new" /\ m \in Late) THEN req[m]
                 ELSE "gone"]
    /\ dirty' = 0 /\ saved' = 0 /\ open' = TRUE
    /\ bg' = "check" /\ writer' = Free /\ loopSnap' = NoCapture
    /\ rep' = NewRep /\ queue' = NewQueue /\ gw' = NewWriter
    /\ shut' = Running /\ guard' = Unguarded
    /\ carried' = IF shut.pc = "stopped" /\ shut.own /\ ~wiped THEN Acked ELSE {}
    /\ UNCHANGED <<head, clock, adopted>>

\* A crash at any time, or the start after an exit.
Restart == Boot(file) /\ UNCHANGED <<wiped, faults>>

\* The machine comes back with an empty data directory; the store survives.
RestartWiped ==
    /\ faults < MaxFaults /\ faults' = faults + 1 /\ wiped' = TRUE
    /\ Boot([body |-> {}, ms |-> 0])

----------------------------------------------------------------------------
(* The restore guard, once per boot.                                       *)

GuardStep(next) ==
    /\ guard' = next
    /\ UNCHANGED <<req, disk, writer, loopSnap, guardian, shut, wiped, carried, bounds>>

GuardFetch ==
    /\ Up /\ guard.pc = "pending" /\ head.ms # 0
    /\ GuardStep([pc |-> "fetched", body |-> head.body, ms |-> head.ms])
    /\ UNCHANGED <<mem, admission, bg, adopted>>

\* Absent, incomplete for all attempts, or switched off.
GuardGivesUp ==
    /\ Up /\ guard.pc = "pending"
    /\ GuardStep([Unguarded EXCEPT !.pc = "done"])
    /\ UNCHANGED <<mem, admission, bg, adopted>>

\* The disk is read again: a replica that is not newer is dropped.
GuardCompares ==
    /\ Up /\ guard.pc = "fetched"
    /\ GuardStep(IF guard.ms <= file.ms THEN [Unguarded EXCEPT !.pc = "done"]
                 ELSE [guard EXCEPT !.pc = "restore"])
    /\ UNCHANGED <<mem, admission, bg, adopted>>

\* Mutant: every store is replaced.
ReplacedBy(body) == body

\* restore replaces every store but those it merges.
RestoredFrom(body) == body \cup (mem \cap Merged)

\* The replica is restored and persisted.
GuardRestores ==
    /\ Up /\ guard.pc = "restore"
    /\ mem' = RestoredFrom(guard.body)
    /\ adopted' = TRUE
    /\ IF open THEN Admit /\ Wake ELSE UNCHANGED <<admission, bg>>
    /\ GuardStep([Unguarded EXCEPT !.pc = "done"])

----------------------------------------------------------------------------
Persister == BgWaits \/ BgTake

SlotHolder == WriteFile \/ FinishSave

ShutdownTask ==
    \/ FlushTake \/ FlushCloses \/ CloseAtFinal \/ CloseAtLatest
    \/ AwaitDone \/ AwaitTimesOut

Next ==
    \/ \E m \in Mutation :
           \/ Mutate(m) \/ Persist(m) \/ PersistDurable(m) \/ PersistRefused(m)
           \/ DurableTake(m)
    \/ Persister \/ SlotHolder \/ SaveFails
    \/ LoopCapture \/ LoopReplicate
    \/ GuardianBorrow \/ GuardianCommit \/ GuardianFails
    \/ ShutdownBegins \/ ShutdownTask
    \/ Restart \/ RestartWiped
    \/ GuardFetch \/ GuardGivesUp \/ GuardCompares \/ GuardRestores

\* The persister thread and whoever holds the slot keep running.
Fairness == WF_vars(Persister) /\ WF_vars(SlotHolder)

Spec == Init /\ [][Next]_vars /\ Fairness

----------------------------------------------------------------------------
Body == SUBSET Mutation

TypeOK ==
    /\ req \in [Mutation -> {"new", "inmem", "admitted", "durable", "acked",
                             "refused", "gone"}]
    /\ mem \in Body
    /\ file \in [body : Body, ms : 0 .. clock] /\ head \in [body : Body, ms : 0 .. clock]
    /\ clock \in Nat
    /\ dirty \in Nat /\ saved \in 0 .. dirty /\ open \in BOOLEAN
    /\ bg \in {"check", "waiting", "saving"}
    /\ writer \in [by : {"none", "bg", "flush"} \cup Mutation,
                   phase : {"free", "captured", "filed"},
                   target : Nat, body : Body, ms : Nat]
    /\ loopSnap \in [live : BOOLEAN, body : Body]
    /\ rep \in [open : BOOLEAN, next : Nat, committed : Nat]
    /\ rep.committed <= rep.next
    /\ queue \in Body
    /\ gw \in [pc : {"idle", "writing", "retry"}, gen : Nat, body : Body]
    /\ shut \in [pc : {"run", "flush", "saving", "stable", "failed", "close",
                       "await", "stopped", "exited"}, gen : Nat, own : BOOLEAN]
    /\ guard \in [pc : {"pending", "fetched", "restore", "done"}, body : Body, ms : Nat]
    /\ adopted \in BOOLEAN /\ wiped \in BOOLEAN /\ carried \in Body
    /\ loops \in 0 .. MaxLoops /\ boots \in 0 .. MaxBoots /\ faults \in 0 .. MaxFaults

(* A mutation that persist_durable acknowledged is in the live state and in *)
(* state.json from then on, through crashes, failed writes, the saves of    *)
(* the other holders of the writer slot and a replica the guard adopts, as  *)
(* long as the disk is not lost (persist_durable, restore, persist.rs).     *)
AckedSurvives == ~wiped => Acked \subseteq mem \cap file.body

(* Once flush_blocking has closed admission, every mutation that persist    *)
(* admitted is on disk: a graceful restart loses nothing (flush_blocking    *)
(* and admit_generation, persist.rs).                                       *)
BarrierComplete == ~open /\ ~adopted => Admitted \subseteq file.body

(* When shutdown reports that the final generation is committed, the head   *)
(* names the last state anybody admitted: nothing was queued behind the     *)
(* drain target (replicate, close_replication_admission and                 *)
(* await_final_generation, guardian.rs).                                    *)
DrainedIsLatest ==
    shut.pc = "stopped" /\ rep.next # 0 => head.ms # 0 /\ head.body = queue

(* After a shutdown whose own final generation was committed, what the      *)
(* guard of the next process fetches holds every mutation acknowledged      *)
(* before, whatever happens to the disk after it, unless that process has   *)
(* committed a snapshot of its own first (flush_blocking,                   *)
(* guardian::shutdown).  A disk lost before the shutdown is exempt.         *)
CleanExitReplicated ==
    guard.pc \in {"fetched", "restore"} /\ rep.committed = 0
        => carried \subseteq guard.body

(* What a shutdown that reports success has replicated: the last state      *)
(* admitted, and with it every acknowledged mutation for the next process.  *)
DrainSound == DrainedIsLatest /\ CleanExitReplicated

(* A mutation that persist admitted reaches the disk, whatever other saves  *)
(* are going on, unless the process dies first or a replica is adopted      *)
(* (spawn_persister, persist.rs).                                           *)
EveryMutationSaved ==
    \A m \in Mutation \ Durable :
        req[m] = "admitted" ~> m \in file.body \/ req[m] # "admitted" \/ adopted \/ ~Up

(* A change the live process admitted stays in the live state: any mutation *)
(* after the boot vetoes adopting the replica, "no clobbering live changes" *)
(* (spawn_restore_guard, guardian.rs).                                      *)
LiveChangesKept == Admitted \subseteq mem
=============================================================================
