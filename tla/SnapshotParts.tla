--------------------------- MODULE SnapshotParts ---------------------------
(***************************************************************************)
(* How one generation of a node's snapshot is kept in GuardianDB.  A state *)
(* is split into immutable parts named by their digests; a head names the  *)
(* parts of the current state and is overwritten in place; a marker per    *)
(* verified generation keeps its parts reachable until the retention pass  *)
(* of the same writer task retires the marker, and then the parts.         *)
(*                                                                         *)
(* Models replication_writer, write_replication_batch and the v2 retention *)
(* pass of crates/hive-cloud/src/guardian.rs, for one node's keys.  A part *)
(* is its place in the lexical order of the keys, a head is the set of     *)
(* parts it names.  The clock ticks when a head is put; `aged' is the last *)
(* tick whose entries are beyond the grace window.                         *)
(***************************************************************************)
EXTENDS Naturals, FiniteSets, FiniteSetsExt

CONSTANTS NumParts,      \* digests there are
          State,         \* the states, each as its set of parts
          Keep,          \* HIVE_GUARDIAN_V2_KEEP_GENERATIONS
          MaxDeletes,    \* HIVE_GUARDIAN_V2_RETENTION_MAX_DELETES
          MaxChanges,    \* bound: changes of the state
          MaxFaults      \* bound: failed puts and deletes, and crashes

Part == 1 .. NumParts

ASSUME PartsAssumption ==
    /\ NumParts \in Nat \ {0} /\ State \subseteq (SUBSET Part) \ {{}}
    /\ Keep \in Nat /\ MaxDeletes \in Nat \ {0}
    /\ MaxChanges \in Nat /\ MaxFaults \in Nat

VARIABLES
    live,      \* the state of the process, {} before the first change
    queue,     \* the watch channel: the desired state, fresh if not yet seen
    born,      \* born[p]: when part p was put, 0 if it is absent
    head,      \* the head key, ms 0 if it is absent
    markers,   \* the generation markers
    clock, aged,
    writer,    \* replication_writer and the batch it is at
    pass,      \* the retention pass it is at
    cursor,    \* RetentionState.cursor, 0 for None
    asked,     \* history: the states that were replicated
    verified,  \* history: the markers ever written
    changes, faults

entries == <<born, head, markers, clock, aged>>
history == <<asked, verified>>
bounds  == <<changes, faults>>
vars == <<live, queue, entries, writer, pass, cursor, history, bounds>>

NoQueue == [parts |-> {}, fresh |-> FALSE]
Waiting == [pc |-> "wait", parts |-> {}]
NoPass  == [pc |-> "idle", doomed |-> {}, budget |-> 0, cursor |-> 0]

Init ==
    /\ live = {} /\ queue = NoQueue
    /\ born = [p \in Part |-> 0]
    /\ head = [ms |-> 0, parts |-> {}] /\ markers = {}
    /\ clock = 0 /\ aged = 0
    /\ writer = Waiting /\ pass = NoPass /\ cursor = 0
    /\ asked = {} /\ verified = {}
    /\ changes = 0 /\ faults = 0

Fault == faults < MaxFaults /\ faults' = faults + 1 /\ UNCHANGED changes

Present == {p \in Part : born[p] # 0}

----------------------------------------------------------------------------
(* The process and time.                                                   *)

Change(s) ==
    /\ s # live /\ changes < MaxChanges
    /\ live' = s /\ changes' = changes + 1
    /\ UNCHANGED <<queue, entries, writer, pass, cursor, history, faults>>

\* replicate: on a save or from the snapshot loop, which repeats itself.
Replicate ==
    /\ live # {} /\ queue # [parts |-> live, fresh |-> TRUE]
    /\ queue' = [parts |-> live, fresh |-> TRUE]
    /\ asked' = asked \cup {live}
    /\ UNCHANGED <<live, entries, writer, pass, cursor, verified, bounds>>

\* All there is by now gets older than the grace window.
Age ==
    /\ aged # clock + 1
    /\ aged' = clock + 1
    /\ UNCHANGED <<live, queue, born, head, markers, clock, writer, pass, cursor,
                   history, bounds>>

----------------------------------------------------------------------------
(* write_replication_batch, the commit of one generation.                  *)

\* Something new, the retry of a failed batch, or the turn after a pass,
\* which takes what is queued even when it is not new.
Borrow ==
    /\ pass.pc = "idle" /\ queue.parts # {}
    /\ writer.pc \in {"retry", "top"} \/ (writer.pc = "wait" /\ queue.fresh)
    /\ writer' = [pc |-> "batch", parts |-> queue.parts]
    /\ queue' = [queue EXCEPT !.fresh = FALSE]
    /\ UNCHANGED <<live, entries, pass, cursor, history, bounds>>

\* guardian_v2_publish_immutable, part after part; one that is there stays.
PublishPart ==
    /\ writer.pc = "batch" /\ ~(writer.parts \subseteq Present)
    /\ born' = [born EXCEPT ![Min(writer.parts \ Present)] = clock + 1]
    /\ UNCHANGED <<live, queue, head, markers, clock, aged, writer, pass, cursor,
                   history, bounds>>

\* The head is put unless it already names these parts.
HeadOf(parts) ==
    IF head.parts = parts THEN UNCHANGED <<head, clock>>
    ELSE head' = [ms |-> clock + 1, parts |-> parts] /\ clock' = clock + 1

\* Mutant: the head does not wait for the parts.
PutHeadFirst ==
    /\ writer.pc = "batch"
    /\ HeadOf(writer.parts)
    /\ writer' = [writer EXCEPT !.pc = "marker"]
    /\ UNCHANGED <<live, queue, born, markers, aged, pass, cursor, history, bounds>>

PutHead ==
    /\ writer.pc = "batch" /\ writer.parts \subseteq Present
    /\ HeadOf(writer.parts)
    /\ writer' = [writer EXCEPT !.pc = "marker"]
    /\ UNCHANGED <<live, queue, born, markers, aged, pass, cursor, history, bounds>>

\* guardian_v2_verify_generation, against what the batch prepared.
Verified == head.parts = writer.parts /\ head.parts \subseteq Present

\* The marker of a generation that verifies; otherwise the batch fails.
PublishMarker ==
    /\ writer.pc = "marker"
    /\ IF Verified
       THEN /\ markers' = markers \cup {head} /\ verified' = verified \cup {head}
            /\ writer' = Waiting
       ELSE writer' = [Waiting EXCEPT !.pc = "retry"] /\ UNCHANGED <<markers, verified>>
    /\ UNCHANGED <<live, queue, born, head, clock, aged, pass, cursor, asked, bounds>>

\* A put fails; the exact desired generation is retried.
BatchFails ==
    /\ writer.pc \in {"batch", "marker"} /\ Fault
    /\ writer' = [Waiting EXCEPT !.pc = "retry"]
    /\ UNCHANGED <<live, queue, entries, pass, cursor, history>>

----------------------------------------------------------------------------
(* guardian_v2_retention_pass_with.                                        *)

Prior == {m \in markers : m.parts # head.parts}

Newer(m, set) == {n \in set : n.ms > m.ms}

\* Mutant: the window is one generation short.
BeyondShortWindow == {m \in Prior : Cardinality(Newer(m, Prior)) + 1 >= Keep}

\* Those beyond the newest Keep.
BeyondWindow == {m \in Prior : Cardinality(Newer(m, Prior)) >= Keep}

\* Mutant: the delete budget does not bound the markers.
HalfOfAll == Max({1, Cardinality(markers) \div 2})

\* The deletes of a pass, and half of the markers, but one at least.
MarkerCap == Min({MaxDeletes, Max({1, Cardinality(markers) \div 2})})

\* The oldest of those that are aged too, as many as a pass may retire.
Doomed ==
    LET retire == {m \in BeyondWindow : m.ms <= aged}
    IN  {m \in retire : Cardinality({n \in retire : n.ms < m.ms}) < MarkerCap}

\* The marker that names the current head anchors the pass.
Anchored == head.ms # 0 /\ \E m \in markers : m.parts = head.parts

AtLeisure == writer.pc \in {"wait", "retry"} /\ pass.pc = "idle"

PassRefuses ==
    /\ AtLeisure /\ ~Anchored
    /\ cursor' = 0
    /\ writer' = [Waiting EXCEPT !.pc = "top"]
    /\ UNCHANGED <<live, queue, entries, pass, history, bounds>>

PassBegins ==
    /\ AtLeisure /\ Anchored
    /\ pass' = [pc |-> "run", doomed |-> Doomed, budget |-> MaxDeletes, cursor |-> cursor]
    /\ UNCHANGED <<live, queue, entries, writer, cursor, history, bounds>>

\* The marker's key is deleted, oldest first.
RetireMarker ==
    /\ pass.doomed # {}
    /\ \E m \in pass.doomed :
           /\ \A n \in pass.doomed : m.ms <= n.ms
           /\ markers' = markers \ {m}
           /\ pass' = [pass EXCEPT !.doomed = @ \ {m}, !.budget = @ - 1]
    /\ UNCHANGED <<live, queue, born, head, clock, aged, writer, cursor, history, bounds>>

\* Named by the head or a surviving marker.  What a batch prepares is rooted
\* too, but the pass is a turn of the task that runs the batches.
Referenced == head.parts \cup UNION {m.parts : m \in markers}

\* What the listing still meets after the cursor.
Candidates ==
    {p \in Present \ Referenced : p > pass.cursor /\ born[p] <= aged}

RetirePart ==
    /\ pass.pc = "run" /\ pass.doomed = {} /\ pass.budget > 0
    /\ \E p \in Candidates :
           /\ \A q \in Candidates : p <= q
           /\ born' = [born EXCEPT ![p] = 0]
           /\ pass' = [pass EXCEPT !.budget = @ - 1, !.cursor = p]
    /\ UNCHANGED <<live, queue, head, markers, clock, aged, writer, cursor, history,
                   bounds>>

\* Mutant: the cursor never wraps.
StayPut == pass.cursor

\* Where the next pass resumes: with the budget spent the row that stopped the
\* listing is already behind the cursor, and the end of the keys does not
\* reset it; with budget left the listing was exhausted.
ResumeAt ==
    IF pass.budget > 0 THEN 0 ELSE IF Candidates # {} THEN Min(Candidates) ELSE NumParts

PassEnds ==
    /\ pass.pc = "run" /\ pass.doomed = {} /\ (pass.budget = 0 \/ Candidates = {})
    /\ cursor' = ResumeAt
    /\ pass' = NoPass
    /\ writer' = [Waiting EXCEPT !.pc = "top"]
    /\ UNCHANGED <<live, queue, entries, history, bounds>>

\* A delete fails: the pass stops and the cursor stays.
DeleteFails ==
    /\ pass.pc = "run" /\ Fault
    /\ pass.doomed # {} \/ (pass.budget > 0 /\ Candidates # {})
    /\ pass' = NoPass
    /\ writer' = [Waiting EXCEPT !.pc = "top"]
    /\ UNCHANGED <<live, queue, entries, cursor, history>>

\* The process dies; its state is on disk and what it queued is gone.
Crash ==
    /\ Fault
    /\ queue' = NoQueue /\ writer' = Waiting /\ pass' = NoPass /\ cursor' = 0
    /\ UNCHANGED <<live, entries, history>>

----------------------------------------------------------------------------
Batch == Borrow \/ PublishPart \/ PutHead \/ PublishMarker

Retention == PassRefuses \/ PassBegins \/ RetireMarker \/ RetirePart \/ PassEnds

Next ==
    \/ \E s \in State : Change(s)
    \/ Replicate \/ Age
    \/ Batch \/ BatchFails
    \/ Retention \/ DeleteFails
    \/ Crash

\* The writer task runs and its timers fire, a queued generation and a due pass
\* in turn; the snapshot loop repeats itself; time passes.
Fairness ==
    /\ WF_vars(Replicate) /\ WF_vars(Age) /\ WF_vars(Batch)
    /\ WF_vars(RetireMarker \/ RetirePart \/ PassEnds)
    /\ SF_vars(PassRefuses \/ PassBegins)

Spec == Init /\ [][Next]_vars /\ Fairness

----------------------------------------------------------------------------
Entry == [ms : Nat, parts : SUBSET Part]

TypeOK ==
    /\ live \in State \cup {{}} /\ asked \subseteq State
    /\ queue \in [parts : State \cup {{}}, fresh : BOOLEAN]
    /\ born \in [Part -> 0 .. clock + 1]
    /\ head \in Entry /\ head.ms <= clock
    /\ markers \subseteq verified /\ \A m \in verified : m \in Entry /\ m.ms <= clock
    /\ aged \in 0 .. clock + 1
    /\ writer \in [pc : {"wait", "top", "retry", "batch", "marker"},
                   parts : State \cup {{}}]
    /\ pass.pc \in {"idle", "run"} /\ pass.doomed \subseteq markers
    /\ pass.budget \in Cardinality(pass.doomed) .. MaxDeletes
    /\ pass.cursor \in 0 .. NumParts /\ cursor \in 0 .. NumParts

(* What guardian_v2_probe finds: no head, a head with parts missing, or a   *)
(* whole state.                                                             *)
Probe == IF head.ms # 0 /\ head.parts \subseteq Present THEN head.parts ELSE {}

Register == INSTANCE SnapshotRegister WITH value <- Probe, Nothing <- {}

(* Publication part by part, failing or dying anywhere, and retention with  *)
(* its budget and its cursor implement an atomic register: a reader that    *)
(* saw a snapshot always finds a whole one that was asked for               *)
(* (write_replication_batch, guardian_v2_retention_pass_with).              *)
ImplementsRegister == Register!Spec

(* The generation of every marker is whole, those it shares parts with and  *)
(* that are retired notwithstanding; and once a state other than the        *)
(* current one was verified there is always one to go back to, whichever    *)
(* heads were put and not verified in between (keep_generations, "a prior   *)
(* complete generation must stay fully reachable").                         *)
GenerationsKept ==
    /\ \A m \in markers : m.parts \subseteq Present
    /\ Keep > 0 /\ (\E m \in verified : m.parts # head.parts) => Prior # {}

(* Once the state stops changing and nothing fails any more, retention      *)
(* converges: no part is left that neither the head nor a marker names, and *)
(* no marker beyond the window, however small the budget of a pass and      *)
(* wherever its cursor stopped (guardian_v2_retention_pass_with).           *)
RetentionConverges == <>[](Present \subseteq Referenced /\ BeyondWindow = {})
=============================================================================
