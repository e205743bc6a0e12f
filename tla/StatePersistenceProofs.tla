------------------------ MODULE StatePersistenceProofs ------------------------
(***************************************************************************)
(* Proofs about StatePersistence for every set of mutations, any of them   *)
(* durable, any number of boots, failures, lost disks and captures of the  *)
(* snapshot loop.                                                          *)
(***************************************************************************)
EXTENDS StatePersistence, TLAPS

----------------------------------------------------------------------------
(* The parts of the inductive invariant.                                   *)

Pending(m) == req[m] = "durable"
Held == writer.by # "none"

(* The writer slot: its holder captured what it is going to save, and the   *)
(* counters stay on both sides of the generation it captured.               *)
SlotOK ==
    /\ ~Held <=> writer.phase = "free"
    /\ Held => saved <= writer.target /\ writer.target <= dirty
    /\ writer.phase = "filed" => file.body = writer.body
    /\ writer.ms <= clock
    /\ writer.by = "flush" <=> shut.pc = "saving"
    /\ \A m \in Mutation : writer.by = m => Pending(m) /\ m \in writer.body

(* Mutations whose caller waits for the disk, and those it was told of.     *)
DurableOK ==
    \A m \in Mutation :
        /\ req[m] \in {"durable", "acked"} => m \in Durable
        /\ m \in Durable /\ req[m] \in {"inmem", "durable"} => m \in mem
        /\ Pending(m) /\ Held /\ writer.target = dirty => m \in writer.body
        /\ ~wiped /\ req[m] = "acked" =>
               m \in mem /\ m \in file.body /\ (Held => m \in writer.body)

(* Mutations left to the persister: while no replica was adopted, the       *)
(* newest generation holds them wherever it has got to.                     *)
AdmittedOK ==
    /\ ~open => saved = dirty
    /\ ~adopted => \A m \in Mutation :
           /\ req[m] \in {"inmem", "admitted"} => m \in mem
           /\ req[m] = "admitted" =>
                  /\ Held /\ writer.target = dirty => m \in writer.body
                  /\ saved = dirty => m \in file.body

(* The replication writer: the last generation is what is queued, and once  *)
(* it is committed the head names it.                                       *)
ReplicationOK ==
    /\ gw.gen <= rep.next
    /\ gw.pc = "writing" => gw.gen # 0
    /\ gw.pc = "retry" => rep.next # 0
    /\ gw.pc = "writing" /\ gw.gen = rep.next => gw.body = queue
    /\ rep.next # 0 /\ rep.committed = rep.next => head.ms # 0 /\ head.body = queue

(* Shutdown: the drain target stays the last generation, and the state the  *)
(* flush itself queued holds all that is or will be acknowledged.           *)
Draining == shut.pc \in {"await", "stopped", "exited"}

ShutdownOK ==
    /\ shut.gen <= rep.next
    /\ Draining <=> ~rep.open
    /\ Draining => shut.gen = rep.next
    /\ shut.own => Draining /\ ~open /\ rep.next # 0
    /\ shut.pc = "close" => ~open
    /\ shut.pc \in {"stable", "close"} => shut.gen # 0
    /\ shut.pc = "stopped" => rep.committed = rep.next
    /\ \A m \in Mutation : ~wiped =>
           /\ shut.pc \in {"stable", "close"} /\ shut.gen = rep.next =>
                  /\ req[m] = "acked" => m \in queue
                  /\ Pending(m) /\ saved = dirty => m \in queue
           /\ shut.own /\ req[m] \in {"acked", "durable"} => m \in queue

(* The next process: until it commits a snapshot of its own, head and guard *)
(* hold what was acknowledged before the last clean exit.                   *)
CarriedOK ==
    rep.committed = 0 =>
        /\ carried \subseteq head.body
        /\ guard.pc \in {"fetched", "restore"} => carried \subseteq guard.body

Inv == /\ TypeOK /\ SlotOK /\ DurableOK /\ AdmittedOK
       /\ ReplicationOK /\ ShutdownOK /\ CarriedOK

(* What a request does until its caller waits for the disk (persist and    *)
(* persist_durable, persist.rs).                                           *)
LEMMA RequestKeepsInv ==
    ASSUME Inv, NEW m \in Mutation,
           Mutate(m) \/ Persist(m) \/ PersistDurable(m) \/ PersistRefused(m)
    PROVE  Inv'
<1> USE PersistenceAssumption
        DEF Inv, Held, Pending, Draining, Body, Up, admission, disk, guardian,
            history, bounds
<1>1. CASE Mutate(m)
  <2> USE <1>1 DEF Mutate
  <2>1. TypeOK' BY DEF TypeOK
  <2>2. SlotOK' BY DEF TypeOK, SlotOK
  <2>3. DurableOK' BY DEF TypeOK, DurableOK
  <2>4. AdmittedOK' BY DEF TypeOK, SlotOK, AdmittedOK
  <2>5. ShutdownOK' BY DEF TypeOK, ShutdownOK
  <2>6. (ReplicationOK /\ CarriedOK)'
    BY DEF ReplicationOK, CarriedOK
  <2> QED BY <2>1, <2>2, <2>3, <2>4, <2>5, <2>6
<1>2. CASE Persist(m)
  <2> USE <1>2 DEF Persist, Admit, Wake
  <2>1. TypeOK' BY DEF TypeOK
  <2>2. SlotOK' BY DEF TypeOK, SlotOK
  <2>3. DurableOK' BY DEF TypeOK, SlotOK, DurableOK
  <2>4. AdmittedOK'
    <3>1. open' /\ mem' = mem /\ file' = file /\ writer' = writer /\ adopted' = adopted
      OBVIOUS
    <3>2. saved' # dirty' /\ (Held => writer.target # dirty')
      BY DEF TypeOK, SlotOK
    <3>3. ASSUME NEW k \in Mutation, ~adopted, req'[k] = "admitted"
          PROVE  k \in mem
      BY <3>3 DEF TypeOK, AdmittedOK
    <3> QED BY <3>1, <3>2, <3>3 DEF AdmittedOK
  <2>5. ShutdownOK' BY DEF TypeOK, ShutdownOK
  <2>6. (ReplicationOK /\ CarriedOK)'
    BY DEF ReplicationOK, CarriedOK
  <2> QED BY <2>1, <2>2, <2>3, <2>4, <2>5, <2>6
<1>3. CASE PersistDurable(m)
  <2> USE <1>3 DEF PersistDurable, Admit
  <2>1. TypeOK' BY DEF TypeOK
  <2>2. SlotOK' BY DEF TypeOK, SlotOK
  <2>3. DurableOK'
    <3>1. mem' = mem /\ file' = file /\ writer' = writer /\ wiped' = wiped
      OBVIOUS
    <3>2. Held => writer.target # dirty'
      BY DEF TypeOK, SlotOK
    <3>3. ASSUME NEW k \in Mutation
          PROVE  req'[k] = IF k = m THEN "durable" ELSE req[k]
      BY DEF TypeOK
    <3>4. m \in mem
      BY DEF TypeOK, DurableOK
    <3> QED BY <3>1, <3>2, <3>3, <3>4 DEF DurableOK
  <2>4. AdmittedOK' BY DEF TypeOK, SlotOK, AdmittedOK
  <2>5. ShutdownOK' BY DEF TypeOK, ShutdownOK
  <2>6. (ReplicationOK /\ CarriedOK)'
    BY DEF ReplicationOK, CarriedOK
  <2> QED BY <2>1, <2>2, <2>3, <2>4, <2>5, <2>6
<1>4. CASE PersistRefused(m)
  <2> USE <1>4 DEF PersistRefused
  <2>1. TypeOK' BY DEF TypeOK
  <2>2. SlotOK' BY DEF TypeOK, SlotOK
  <2>3. DurableOK' BY DEF TypeOK, DurableOK
  <2>4. AdmittedOK' BY DEF TypeOK, AdmittedOK
  <2>5. ShutdownOK' BY DEF TypeOK, ShutdownOK
  <2>6. (ReplicationOK /\ CarriedOK)'
    BY DEF ReplicationOK, CarriedOK
  <2> QED BY <2>1, <2>2, <2>3, <2>4, <2>5, <2>6
<1> QED BY <1>1, <1>2, <1>3, <1>4

(* A durable caller gets the writer slot itself (persist_durable).         *)
LEMMA CallerKeepsInv ==
    ASSUME Inv, NEW m \in Mutation, DurableTake(m)
    PROVE  Inv'
<1> USE PersistenceAssumption
        DEF Inv, Held, Pending, Draining, Body, Up, admission, disk, guardian,
            history, bounds, DurableTake, Take
<1>1. TypeOK' BY DEF TypeOK
<1>2. SlotOK' BY DEF TypeOK, SlotOK, DurableOK
<1>3. DurableOK' BY DEF TypeOK, DurableOK
<1>4. AdmittedOK' BY DEF TypeOK, AdmittedOK
<1>5. (ReplicationOK /\ ShutdownOK /\ CarriedOK)'
    BY DEF ReplicationOK, ShutdownOK, CarriedOK
<1> QED BY <1>1, <1>2, <1>3, <1>4, <1>5

(* The persister and the flush take the slot; whoever holds it writes,      *)
(* replicates and releases it (spawn_persister, flush_blocking).            *)
LEMMA SlotKeepsInv ==
    ASSUME Inv,
           BgWaits \/ BgTake \/ FlushTake \/ WriteFile \/ FinishSave \/
             SaveFails
    PROVE  Inv'
<1> USE PersistenceAssumption
        DEF Inv, Held, Pending, Draining, Body, Up, admission, disk, guardian,
            history, bounds
<1>1. CASE BgWaits
  <2> USE <1>1 DEF BgWaits
  <2>1. TypeOK' BY DEF TypeOK
  <2>2. (SlotOK /\ DurableOK /\ AdmittedOK /\ ReplicationOK /\ ShutdownOK /\ CarriedOK)'
    BY DEF SlotOK, DurableOK, AdmittedOK, ReplicationOK, ShutdownOK, CarriedOK
  <2> QED BY <2>1, <2>2
<1>2. CASE BgTake
  <2> USE <1>2 DEF BgTake, Take
  <2>1. TypeOK' BY DEF TypeOK
  <2>2. SlotOK' BY DEF TypeOK, SlotOK
  <2>3. DurableOK' BY DEF TypeOK, DurableOK
  <2>4. AdmittedOK' BY DEF TypeOK, AdmittedOK
  <2>5. (ReplicationOK /\ ShutdownOK /\ CarriedOK)'
    BY DEF ReplicationOK, ShutdownOK, CarriedOK
  <2> QED BY <2>1, <2>2, <2>3, <2>4, <2>5
<1>3. CASE FlushTake
  <2> USE <1>3 DEF FlushTake, FlushUnfinished, Take
  <2>1. TypeOK' BY DEF TypeOK
  <2>2. SlotOK' BY DEF TypeOK, SlotOK
  <2>3. DurableOK' BY DEF TypeOK, DurableOK
  <2>4. AdmittedOK' BY DEF TypeOK, AdmittedOK
  <2>5. ShutdownOK' BY DEF TypeOK, ShutdownOK
  <2>6. (ReplicationOK /\ CarriedOK)'
    BY DEF ReplicationOK, CarriedOK
  <2> QED BY <2>1, <2>2, <2>3, <2>4, <2>5, <2>6
<1>4. CASE WriteFile
  <2> USE <1>4 DEF WriteFile
  <2>1. TypeOK' BY DEF TypeOK, SlotOK
  <2>2. SlotOK' BY DEF TypeOK, SlotOK
  <2>3. DurableOK' BY DEF TypeOK, SlotOK, DurableOK
  <2>4. AdmittedOK' BY DEF TypeOK, SlotOK, AdmittedOK
  <2>5. (ReplicationOK /\ ShutdownOK /\ CarriedOK)'
    BY DEF ReplicationOK, ShutdownOK, CarriedOK
  <2> QED BY <2>1, <2>2, <2>3, <2>4, <2>5
<1>5. CASE FinishSave
  <2> USE <1>5 DEF FinishSave, Replicate, SavedUpToTarget, Release, Free
  <2>1. TypeOK' BY DEF TypeOK, SlotOK
  <2>2. SlotOK' BY DEF TypeOK, SlotOK
  <2>3. DurableOK' BY DEF TypeOK, SlotOK, DurableOK
  <2>4. AdmittedOK' BY DEF TypeOK, SlotOK, AdmittedOK
  <2>5. ReplicationOK' BY DEF TypeOK, ReplicationOK
  <2>6. ShutdownOK' BY DEF TypeOK, SlotOK, DurableOK, ShutdownOK
  <2>7. CarriedOK' BY DEF TypeOK, CarriedOK
  <2> QED BY <2>1, <2>2, <2>3, <2>4, <2>5, <2>6, <2>7
<1>6. CASE SaveFails
  <2> USE <1>6 DEF SaveFails, Release, Free, Fault
  <2>1. TypeOK' BY DEF TypeOK
  <2>2. SlotOK' BY DEF TypeOK, SlotOK
  <2>3. DurableOK' BY DEF TypeOK, DurableOK
  <2>4. AdmittedOK' BY DEF TypeOK, AdmittedOK
  <2>5. ShutdownOK' BY DEF TypeOK, SlotOK, ShutdownOK
  <2>6. (ReplicationOK /\ CarriedOK)'
    BY DEF ReplicationOK, CarriedOK
  <2> QED BY <2>1, <2>2, <2>3, <2>4, <2>5, <2>6
<1> QED BY <1>1, <1>2, <1>3, <1>4, <1>5, <1>6

(* The snapshot loop and the only writer of the replicated store           *)
(* (replicate and replication_writer, guardian.rs).                        *)
LEMMA ReplicationKeepsInv ==
    ASSUME Inv,
           LoopCapture \/ LoopReplicate \/ GuardianBorrow \/ GuardianCommit \/
             GuardianFails
    PROVE  Inv'
<1> USE PersistenceAssumption
        DEF Inv, Held, Pending, Draining, Body, Up, admission, disk, guardian,
            history, bounds
<1>1. CASE LoopCapture
  <2> USE <1>1 DEF LoopCapture
  <2>1. TypeOK' BY DEF TypeOK
  <2>2. (SlotOK /\ DurableOK /\ AdmittedOK /\ ReplicationOK /\ ShutdownOK /\ CarriedOK)'
    BY DEF SlotOK, DurableOK, AdmittedOK, ReplicationOK, ShutdownOK, CarriedOK
  <2> QED BY <2>1, <2>2
<1>2. CASE LoopReplicate
  <2> USE <1>2 DEF LoopReplicate, Replicate, NoCapture
  <2>1. TypeOK' BY DEF TypeOK
  <2>2. ReplicationOK' BY DEF TypeOK, ReplicationOK
  <2>3. ShutdownOK' BY DEF TypeOK, ShutdownOK
  <2>4. CarriedOK' BY DEF TypeOK, CarriedOK
  <2>5. (SlotOK /\ DurableOK /\ AdmittedOK)'
    BY DEF SlotOK, DurableOK, AdmittedOK
  <2> QED BY <2>1, <2>2, <2>3, <2>4, <2>5
<1>3. CASE GuardianBorrow
  <2> USE <1>3 DEF GuardianBorrow
  <2>1. TypeOK' BY DEF TypeOK
  <2>2. ReplicationOK' BY DEF TypeOK, ReplicationOK
  <2>3. (SlotOK /\ DurableOK /\ AdmittedOK /\ ShutdownOK /\ CarriedOK)'
    BY DEF SlotOK, DurableOK, AdmittedOK, ShutdownOK, CarriedOK
  <2> QED BY <2>1, <2>2, <2>3
<1>4. CASE GuardianCommit
  <2> USE <1>4 DEF GuardianCommit, NewWriter
  <2>1. TypeOK' BY DEF TypeOK, ReplicationOK
  <2>2. SlotOK' BY DEF TypeOK, SlotOK
  <2>3. ReplicationOK' BY DEF TypeOK, ReplicationOK
  <2>4. ShutdownOK' BY DEF TypeOK, ShutdownOK
  <2>5. CarriedOK' BY DEF TypeOK, ReplicationOK, CarriedOK
  <2>6. (DurableOK /\ AdmittedOK)'
    BY DEF DurableOK, AdmittedOK
  <2> QED BY <2>1, <2>2, <2>3, <2>4, <2>5, <2>6
<1>5. CASE GuardianFails
  <2> USE <1>5 DEF GuardianFails, NewWriter, Fault
  <2>1. TypeOK' BY DEF TypeOK
  <2>2. ReplicationOK' BY DEF TypeOK, ReplicationOK
  <2>3. (SlotOK /\ DurableOK /\ AdmittedOK /\ ShutdownOK /\ CarriedOK)'
    BY DEF SlotOK, DurableOK, AdmittedOK, ShutdownOK, CarriedOK
  <2> QED BY <2>1, <2>2, <2>3
<1> QED BY <1>1, <1>2, <1>3, <1>4, <1>5

(* The shutdown task: the barrier, the drain target and the wait for it    *)
(* (flush_blocking, close_replication_admission, guardian::shutdown).       *)
LEMMA ShutdownKeepsInv ==
    ASSUME Inv,
           ShutdownBegins \/ FlushCloses \/ CloseAtFinal \/ CloseAtLatest \/
             AwaitDone \/ AwaitTimesOut
    PROVE  Inv'
<1> USE PersistenceAssumption
        DEF Inv, Held, Pending, Draining, Body, Up, admission, disk, guardian,
            history, bounds
<1>1. CASE ShutdownBegins
  <2> USE <1>1 DEF ShutdownBegins
  <2>1. TypeOK' BY DEF TypeOK
  <2>2. SlotOK' BY DEF TypeOK, SlotOK
  <2>3. ShutdownOK' BY DEF TypeOK, ShutdownOK
  <2>4. (DurableOK /\ AdmittedOK /\ ReplicationOK /\ CarriedOK)'
    BY DEF DurableOK, AdmittedOK, ReplicationOK, CarriedOK
  <2> QED BY <2>1, <2>2, <2>3, <2>4
<1>2. CASE FlushCloses
  <2> USE <1>2 DEF FlushCloses
  <2>1. TypeOK'
    <3>1. open' \in BOOLEAN /\ saved' \in 0 .. dirty' /\ dirty' \in Nat
      BY DEF TypeOK
    <3>2. shut' \in [pc : {"run", "flush", "saving", "stable", "failed", "close",
                           "await", "stopped", "exited"}, gen : Nat, own : BOOLEAN]
      BY DEF TypeOK
    <3> QED BY <3>1, <3>2 DEF TypeOK
  <2>2. SlotOK' BY DEF TypeOK, SlotOK
  <2>3. AdmittedOK' BY DEF TypeOK, AdmittedOK
  <2>4. ShutdownOK' BY DEF TypeOK, ShutdownOK
  <2>5. (DurableOK /\ ReplicationOK /\ CarriedOK)'
    BY DEF DurableOK, ReplicationOK, CarriedOK
  <2> QED BY <2>1, <2>2, <2>3, <2>4, <2>5
<1>3. CASE CloseAtFinal
  <2> USE <1>3 DEF CloseAtFinal, CloseAdmission
  <2>1. TypeOK'
    <3>1. rep' \in [open : BOOLEAN, next : Nat, committed : Nat]
          /\ rep'.committed <= rep'.next
      BY DEF TypeOK
    <3>2. shut' \in [pc : {"run", "flush", "saving", "stable", "failed", "close",
                           "await", "stopped", "exited"}, gen : Nat, own : BOOLEAN]
      BY DEF TypeOK
    <3> QED BY <3>1, <3>2 DEF TypeOK
  <2>2. SlotOK' BY DEF TypeOK, SlotOK
  <2>3. ReplicationOK' BY DEF TypeOK, ReplicationOK
  <2>4. ShutdownOK' BY DEF TypeOK, AdmittedOK, ShutdownOK
  <2>5. CarriedOK' BY DEF TypeOK, CarriedOK
  <2>6. (DurableOK /\ AdmittedOK)'
    BY DEF DurableOK, AdmittedOK
  <2> QED BY <2>1, <2>2, <2>3, <2>4, <2>5, <2>6
<1>4. CASE CloseAtLatest
  <2> USE <1>4 DEF CloseAtLatest, CloseAdmission, FlushUnfinished
  <2>1. TypeOK'
    <3>1. rep' \in [open : BOOLEAN, next : Nat, committed : Nat]
          /\ rep'.committed <= rep'.next
      BY DEF TypeOK
    <3>2. shut' \in [pc : {"run", "flush", "saving", "stable", "failed", "close",
                           "await", "stopped", "exited"}, gen : Nat, own : BOOLEAN]
      BY DEF TypeOK
    <3> QED BY <3>1, <3>2 DEF TypeOK
  <2>2. SlotOK' BY DEF TypeOK, SlotOK
  <2>3. ReplicationOK' BY DEF TypeOK, ReplicationOK
  <2>4. ShutdownOK' BY DEF TypeOK, ShutdownOK
  <2>5. CarriedOK' BY DEF TypeOK, CarriedOK
  <2>6. (DurableOK /\ AdmittedOK)'
    BY DEF DurableOK, AdmittedOK
  <2> QED BY <2>1, <2>2, <2>3, <2>4, <2>5, <2>6
<1>5. CASE AwaitDone
  <2> USE <1>5 DEF AwaitDone
  <2>1. TypeOK' BY DEF TypeOK
  <2>2. SlotOK' BY DEF TypeOK, SlotOK
  <2>3. ShutdownOK' BY DEF TypeOK, ShutdownOK
  <2>4. (DurableOK /\ AdmittedOK /\ ReplicationOK /\ CarriedOK)'
    BY DEF DurableOK, AdmittedOK, ReplicationOK, CarriedOK
  <2> QED BY <2>1, <2>2, <2>3, <2>4
<1>6. CASE AwaitTimesOut
  <2> USE <1>6 DEF AwaitTimesOut
  <2>1. TypeOK' BY DEF TypeOK
  <2>2. SlotOK' BY DEF TypeOK, SlotOK
  <2>3. ShutdownOK' BY DEF TypeOK, ShutdownOK
  <2>4. (DurableOK /\ AdmittedOK /\ ReplicationOK /\ CarriedOK)'
    BY DEF DurableOK, AdmittedOK, ReplicationOK, CarriedOK
  <2> QED BY <2>1, <2>2, <2>3, <2>4
<1> QED BY <1>1, <1>2, <1>3, <1>4, <1>5, <1>6

(* A process starts from what is on disk, if the disk is still there.      *)
LEMMA BootKeepsInv ==
    ASSUME Inv,
           Restart \/ RestartWiped
    PROVE  Inv'
<1> USE PersistenceAssumption
        DEF Inv, Held, Pending, Draining, Body, Up, admission, disk, guardian,
            history, bounds
<1>1. CASE Restart
  <2> USE <1>1 DEF Restart, Boot, Free, NoCapture, Running, Unguarded, NewRep,
          NewQueue, NewWriter, Acked
  <2>1. TypeOK' BY DEF TypeOK
  <2>2. SlotOK' BY DEF TypeOK, SlotOK
  <2>3. DurableOK' BY DEF TypeOK, DurableOK
  <2>4. AdmittedOK' BY DEF TypeOK, AdmittedOK
  <2>5. ReplicationOK' BY DEF TypeOK, ReplicationOK
  <2>6. ShutdownOK' BY DEF TypeOK, ShutdownOK
  <2>7. CarriedOK' BY DEF TypeOK, ReplicationOK, ShutdownOK, CarriedOK
  <2> QED BY <2>1, <2>2, <2>3, <2>4, <2>5, <2>6, <2>7
<1>2. CASE RestartWiped
  <2> USE <1>2 DEF RestartWiped, Boot, Free, NoCapture, Running, Unguarded,
          NewRep, NewQueue, NewWriter, Acked
  <2>1. TypeOK' BY DEF TypeOK
  <2>2. SlotOK' BY DEF TypeOK, SlotOK
  <2>3. DurableOK' BY DEF TypeOK, DurableOK
  <2>4. AdmittedOK' BY DEF TypeOK, AdmittedOK
  <2>5. ReplicationOK' BY DEF TypeOK, ReplicationOK
  <2>6. ShutdownOK' BY DEF TypeOK, ShutdownOK
  <2>7. CarriedOK' BY DEF TypeOK, ReplicationOK, ShutdownOK, CarriedOK
  <2> QED BY <2>1, <2>2, <2>3, <2>4, <2>5, <2>6, <2>7
<1> QED BY <1>1, <1>2

(* The restore guard (spawn_restore_guard, guardian.rs).                   *)
LEMMA GuardKeepsInv ==
    ASSUME Inv,
           GuardFetch \/ GuardGivesUp \/ GuardCompares \/ GuardRestores
    PROVE  Inv'
<1> USE PersistenceAssumption
        DEF Inv, Held, Pending, Draining, Body, Up, admission, disk, guardian,
            history, bounds
<1>1. CASE GuardFetch
  <2> USE <1>1 DEF GuardFetch, GuardStep
  <2>1. TypeOK' BY DEF TypeOK
  <2>2. CarriedOK' BY DEF TypeOK, CarriedOK
  <2>3. (SlotOK /\ DurableOK /\ AdmittedOK /\ ReplicationOK /\ ShutdownOK)'
    BY DEF SlotOK, DurableOK, AdmittedOK, ReplicationOK, ShutdownOK
  <2> QED BY <2>1, <2>2, <2>3
<1>2. CASE GuardGivesUp
  <2> USE <1>2 DEF GuardGivesUp, GuardStep, Unguarded
  <2>1. TypeOK' BY DEF TypeOK
  <2>2. CarriedOK' BY DEF TypeOK, CarriedOK
  <2>3. (SlotOK /\ DurableOK /\ AdmittedOK /\ ReplicationOK /\ ShutdownOK)'
    BY DEF SlotOK, DurableOK, AdmittedOK, ReplicationOK, ShutdownOK
  <2> QED BY <2>1, <2>2, <2>3
<1>3. CASE GuardCompares
  <2> USE <1>3 DEF GuardCompares, GuardStep, Unguarded
  <2>1. TypeOK' BY DEF TypeOK
  <2>2. CarriedOK' BY DEF TypeOK, CarriedOK
  <2>3. (SlotOK /\ DurableOK /\ AdmittedOK /\ ReplicationOK /\ ShutdownOK)'
    BY DEF SlotOK, DurableOK, AdmittedOK, ReplicationOK, ShutdownOK
  <2> QED BY <2>1, <2>2, <2>3
<1>4. CASE GuardRestores
  <2> USE <1>4 DEF GuardRestores, GuardStep, RestoredFrom, Admit, Wake,
          Unguarded
  <2>1. TypeOK' BY DEF TypeOK
  <2>2. SlotOK' BY DEF TypeOK, SlotOK
  <2>3. DurableOK' BY DEF TypeOK, SlotOK, DurableOK
  <2>4. AdmittedOK' BY DEF TypeOK, AdmittedOK
  <2>5. ShutdownOK' BY DEF TypeOK, ShutdownOK
  <2>6. CarriedOK' BY DEF TypeOK, CarriedOK
  <2>7. ReplicationOK'
    BY DEF ReplicationOK
  <2> QED BY <2>1, <2>2, <2>3, <2>4, <2>5, <2>6, <2>7
<1> QED BY <1>1, <1>2, <1>3, <1>4

(* The first process starts with an empty disk and nothing replicated       *)
(* (CloudState, Persister::new and ReplicationLifecycle::default).          *)
LEMMA InitEstablishesInv == Init => Inv
<1> SUFFICES ASSUME Init PROVE Inv
  OBVIOUS
<1> USE PersistenceAssumption
        DEF Init, Inv, Held, Pending, Draining, Body, Free, NoCapture, Running,
            Unguarded, NewRep, NewQueue, NewWriter
<1>1. TypeOK
  <2>1. guard \in [pc : {"pending", "fetched", "restore", "done"}, body : Body, ms : Nat]
    OBVIOUS
  <2>2. writer \in [by : {"none", "bg", "flush"} \cup Mutation,
                    phase : {"free", "captured", "filed"},
                    target : Nat, body : Body, ms : Nat]
    OBVIOUS
  <2>3. shut \in [pc : {"run", "flush", "saving", "stable", "failed", "close",
                        "await", "stopped", "exited"}, gen : Nat, own : BOOLEAN]
    OBVIOUS
  <2>4. /\ file \in [body : Body, ms : 0 .. clock] /\ head \in [body : Body, ms : 0 .. clock]
        /\ loopSnap \in [live : BOOLEAN, body : Body]
    OBVIOUS
  <2>5. /\ rep \in [open : BOOLEAN, next : Nat, committed : Nat] /\ queue \in Body
        /\ gw \in [pc : {"idle", "writing", "retry"}, gen : Nat, body : Body]
    OBVIOUS
  <2>6. req \in [Mutation -> {"new", "inmem", "admitted", "durable", "acked",
                             "refused", "gone"}]
    OBVIOUS
  <2>7. /\ clock = 0 /\ dirty = 0 /\ saved = 0 /\ rep.committed <= rep.next
        /\ loops \in 0 .. MaxLoops /\ boots \in 0 .. MaxBoots /\ faults \in 0 .. MaxFaults
    OBVIOUS
  <2>8. /\ open \in BOOLEAN /\ adopted \in BOOLEAN /\ wiped \in BOOLEAN
        /\ bg \in {"check", "waiting", "saving"}
        /\ mem \in Body /\ carried \in Body
    OBVIOUS
  <2> HIDE DEF Init
  <2> QED BY <2>1, <2>2, <2>3, <2>4, <2>5, <2>6, <2>7, <2>8 DEF TypeOK
<1>2. SlotOK BY DEF SlotOK
<1>3. DurableOK /\ AdmittedOK BY DEF DurableOK, AdmittedOK
<1>4. ReplicationOK /\ ShutdownOK BY DEF ReplicationOK, ShutdownOK
<1>5. CarriedOK BY DEF CarriedOK
<1> QED BY <1>1, <1>2, <1>3, <1>4, <1>5

(* Every step of the persister, the guardian writer, the shutdown task, a   *)
(* boot and the restore guard keeps the invariant.                          *)
LEMMA NextKeepsInv == Inv /\ [Next]_vars => Inv'
<1> SUFFICES ASSUME Inv, [Next]_vars PROVE Inv'
  OBVIOUS
<1>1. ASSUME NEW m \in Mutation,
             Mutate(m) \/ Persist(m) \/ PersistDurable(m) \/ PersistRefused(m)
      PROVE  Inv'
  BY <1>1, RequestKeepsInv
<1>2. ASSUME NEW m \in Mutation, DurableTake(m)
      PROVE  Inv'
  BY <1>2, CallerKeepsInv
<1>3. CASE Persister \/ SlotHolder \/ FlushTake \/ SaveFails
  BY <1>3, SlotKeepsInv DEF Persister, SlotHolder
<1>4. CASE LoopCapture \/ LoopReplicate \/ GuardianBorrow \/ GuardianCommit \/ GuardianFails
  BY <1>4, ReplicationKeepsInv
<1>5. CASE ShutdownBegins \/ ShutdownTask
  BY <1>3, <1>5, ShutdownKeepsInv DEF ShutdownTask
<1>6. CASE Restart \/ RestartWiped
  BY <1>6, BootKeepsInv
<1>7. CASE GuardFetch \/ GuardGivesUp \/ GuardCompares \/ GuardRestores
  BY <1>7, GuardKeepsInv
<1>8. CASE UNCHANGED vars
  BY <1>8 DEF Inv, TypeOK, SlotOK, DurableOK, AdmittedOK, ReplicationOK, ShutdownOK,
              CarriedOK, Held, Pending, Draining, vars, admission, disk, guardian,
              history, bounds
<1> QED BY <1>1, <1>2, <1>3, <1>4, <1>5, <1>6, <1>7, <1>8 DEF Next

(* The invariant holds in every reachable state.                            *)
LEMMA InvariantHolds == Spec => []Inv
<1> QED BY InitEstablishesInv, NextKeepsInv, PTL DEF Spec

----------------------------------------------------------------------------
(* The properties of the runs, for every instance.                         *)

(* Every variable has its type; in particular the generation on disk never  *)
(* overtakes the one admitted, and the committed one never the next one     *)
(* (Persister in persist.rs, ReplicationLifecycle in guardian.rs).          *)
THEOREM TypeCorrect == Spec => []TypeOK
<1> QED BY InvariantHolds, PTL DEF Inv

(* A mutation that persist_durable has acknowledged stays in the live state *)
(* and on disk through any number of crashes, failed saves and adopted      *)
(* replicas, as long as no disk is lost (persist_durable, restore).         *)
THEOREM AckedSurvivesCorrect == Spec => []AckedSurvives
<1>1. Inv => AckedSurvives
  BY DEF Inv, DurableOK, AckedSurvives, Acked
<1> QED BY <1>1, InvariantHolds, PTL

(* The barrier of flush_blocking is complete: once it has closed admission, *)
(* nothing that was admitted is missing on disk.                            *)
THEOREM BarrierCorrect == Spec => []BarrierComplete
<1>1. Inv => BarrierComplete
  BY DEF Inv, AdmittedOK, BarrierComplete, Admitted
<1> QED BY <1>1, InvariantHolds, PTL

(* A shutdown that reports success has committed the last generation that   *)
(* anybody queued, and when that generation was its own the next process    *)
(* fetches every mutation acknowledged before (close_replication_admission, *)
(* await_final_generation, spawn_restore_guard).                            *)
THEOREM DrainCorrect == Spec => []DrainSound
<1>1. Inv => DrainedIsLatest
  BY DEF Inv, ReplicationOK, ShutdownOK, Draining, DrainedIsLatest
<1>2. Inv => CleanExitReplicated
  BY DEF Inv, CarriedOK, CleanExitReplicated
<1> QED BY <1>1, <1>2, InvariantHolds, PTL DEF DrainSound
=============================================================================
