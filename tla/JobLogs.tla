------------------------------- MODULE JobLogs --------------------------------
(***************************************************************************)
(* The log of one build job: the LogBus (hive-controlplane/src/logbus.rs), *)
(* the places of the control plane that create, feed, finish and evict it, *)
(* and the HTTP streams that follow it (hive-api/src/lib.rs).              *)
(*                                                                         *)
(* HiveControlPlane treats a bus as present or absent; here one job is     *)
(* looked at closely.  `push` is two steps, because the line is sent to    *)
(* the live subscribers after the ring's mutex is released, and a stream's *)
(* time-out, its look at `done` and its last try_recv are three.           *)
(*                                                                         *)
(* The job's id can get two buses: submit and the build task each create   *)
(* one if the map has none, and eviction may remove the first in between.  *)
(***************************************************************************)
EXTENDS Integers, Sequences

CONSTANTS
    Streams,      \* GET /v1/jobs/:id/logs requests
    BuildLines,   \* bound: how many lines the build prints at most
    LineBytes,    \* LineBytes[n]: length of the n-th line of a bus
    MaxLines,     \* HIVE_LOGBUS_MAX_LINES
    MaxBytes,     \* HIVE_LOGBUS_MAX_BYTES
    ChanCap       \* capacity of the broadcast channel

(* A build's lines and the line that reports a backend error. *)
ASSUME LogConstants ==
    /\ BuildLines \in Nat /\ MaxLines \in Nat \ {0} /\ MaxBytes \in Nat \ {0}
    /\ ChanCap \in Nat \ {0}
    /\ LineBytes \in [1 .. BuildLines + 1 -> Nat]

Buses == {1, 2}
NoBus == 0
Lines == 1 .. BuildLines + 1

VARIABLES
    submit,   \* where submit() stands
    build,    \* where the job's task stands
    err,      \* whether run_build returned an error
    current,  \* the bus the map holds for the job
    made,     \* how many buses were created so far
    bus,      \* the buses
    out,      \* the bus the build task works on
    evict,    \* eviction of the job: not yet, record gone, bus gone
    tail      \* the streams

vars == <<submit, build, err, current, made, bus, out, evict, tail>>

(* pushed is a history variable: how many lines went into the ring. *)
EmptyBus == [lines |-> <<>>, bytes |-> 0, dropped_lines |-> 0, dropped_bytes |-> 0,
             pushed |-> 0, sent |-> <<>>, done |-> FALSE]
NewTail == [pc |-> "new", bus |-> NoBus, next |-> 1, backlog |-> <<>>, marker |-> 0,
            live |-> <<>>, lagged |-> FALSE]

-----------------------------------------------------------------------------
(* LogBus *)

SatSub(a, b) == IF b <= a THEN a - b ELSE 0

(* Bytes of the first n lines of s. *)
PrefixBytes(s, n) ==
    LET sum[k \in 0 .. n] == IF k = 0 THEN 0 ELSE sum[k - 1] + LineBytes[s[k]]
    IN  sum[n]

(* Still over one of the two bounds after n lines were popped. *)
Over(s, bytes, n) ==
    \/ Len(s) - n > MaxLines
    \/ bytes - PrefixBytes(s, n) > MaxBytes /\ Len(s) - n > 1

(* Mutant: the bytes of evicted lines stay on the account. *)
PushRingKeepsBytes(b) ==
    LET n == b.pushed + 1
        s == Append(b.lines, n)
        bytes == b.bytes + LineBytes[n]
        pops == CHOOSE k \in 0 .. Len(s) : ~Over(s, bytes, k) /\ \A i \in 0 .. k - 1 : Over(s, bytes, i)
    IN  [b EXCEPT !.lines = SubSeq(s, pops + 1, Len(s)), !.bytes = bytes,
                  !.dropped_lines = @ + pops, !.dropped_bytes = @ + PrefixBytes(s, pops),
                  !.pushed = n]

(* The critical section of push: append, then pop from the front until both *)
(* bounds hold (one line always stays).                                     *)
PushRing(b) ==
    LET n == b.pushed + 1
        s == Append(b.lines, n)
        bytes == b.bytes + LineBytes[n]
        pops == CHOOSE k \in 0 .. Len(s) : ~Over(s, bytes, k) /\ \A i \in 0 .. k - 1 : Over(s, bytes, i)
    IN  [b EXCEPT !.lines = SubSeq(s, pops + 1, Len(s)),
                  !.bytes = SatSub(bytes, PrefixBytes(s, pops)),
                  !.dropped_lines = @ + pops, !.dropped_bytes = @ + PrefixBytes(s, pops),
                  !.pushed = n]

(* tx.send, after the ring is unlocked. *)
Send(b) == [b EXCEPT !.sent = Append(@, b.pushed)]
MarkDone(b) == [b EXCEPT !.done = TRUE]

(* Mutant: the new bus is inserted under the old count. *)
GetOrInsertOffByOne ==
    IF current = NoBus THEN current' = made /\ made' = made + 1
                       ELSE UNCHANGED <<current, made>>

(* `logs.entry(id).or_insert_with(LogBus::new)` *)
GetOrInsert ==
    IF current = NoBus THEN current' = made + 1 /\ made' = made + 1
                       ELSE UNCHANGED <<current, made>>

-----------------------------------------------------------------------------
(* The control plane's side *)

SubmitRecord ==
    /\ submit = "start"
    /\ submit' = "bus"
    /\ build' = "queued"
    /\ UNCHANGED <<err, current, made, bus, out, evict, tail>>

SubmitBus ==
    /\ submit = "bus"
    /\ submit' = "end"
    /\ GetOrInsert
    /\ UNCHANGED <<build, err, bus, out, evict, tail>>

(* The job is placed and its cell cannot be provisioned. *)
FailProvision ==
    /\ build = "queued"
    /\ build' = "fail_lookup"
    /\ UNCHANGED <<submit, err, current, made, bus, out, evict, tail>>

FailLookup ==
    /\ build = "fail_lookup"
    /\ out' = current
    /\ IF current = NoBus THEN build' = "over" /\ UNCHANGED bus
       ELSE build' = "fail_send" /\ bus' = [bus EXCEPT ![current] = PushRing(@)]
    /\ UNCHANGED <<submit, err, current, made, evict, tail>>

FailSend ==
    /\ build = "fail_send"
    /\ bus' = [bus EXCEPT ![out] = MarkDone(Send(@))]
    /\ build' = "over"
    /\ UNCHANGED <<submit, err, current, made, out, evict, tail>>

BuildBus ==
    /\ build = "queued"
    /\ GetOrInsert
    /\ out' = current'
    /\ build' = "run"
    /\ UNCHANGED <<submit, err, bus, evict, tail>>

(* The forwarder task takes a line the build printed. *)
PrintLine ==
    /\ build = "run" /\ bus[out].pushed < BuildLines
    /\ bus' = [bus EXCEPT ![out] = PushRing(@)]
    /\ build' = "send"
    /\ UNCHANGED <<submit, err, current, made, out, evict, tail>>

PrintLineSend ==
    /\ build = "send"
    /\ bus' = [bus EXCEPT ![out] = Send(@)]
    /\ build' = "run"
    /\ UNCHANGED <<submit, err, current, made, out, evict, tail>>

(* run_build returned and the forwarder has drained the lines. *)
BuildReturns ==
    /\ build = "run"
    /\ bus' = [bus EXCEPT ![out] = MarkDone(@)]
    /\ err' \in BOOLEAN
    /\ build' = "record"
    /\ UNCHANGED <<submit, current, made, out, evict, tail>>

RecordOk ==
    /\ build = "record" /\ ~err
    /\ build' = "teardown"
    /\ UNCHANGED <<submit, err, current, made, bus, out, evict, tail>>

RecordErr ==
    /\ build = "record" /\ err
    /\ bus' = [bus EXCEPT ![out] = PushRing(@)]
    /\ build' = "err_send"
    /\ UNCHANGED <<submit, err, current, made, out, evict, tail>>

RecordErrSend ==
    /\ build = "err_send"
    /\ bus' = [bus EXCEPT ![out] = Send(@)]
    /\ build' = "teardown"
    /\ UNCHANGED <<submit, err, current, made, out, evict, tail>>

(* The task returns and drops its handle on the bus. *)
TeardownDone ==
    /\ build = "teardown"
    /\ build' = "over"
    /\ UNCHANGED <<submit, err, current, made, bus, out, evict, tail>>

(* reap_finished_jobs, run by any task once the job is in a final state.  A *)
(* job whose provisioning failed is in one before its log says so; the      *)
(* guard that fail_provision holds on the map keeps the bus there while it  *)
(* writes.  A backend error is written under the lock that eviction needs.  *)
EvictRecord ==
    /\ evict = "kept"
    /\ build \in {"fail_lookup", "fail_send", "teardown", "over"}
    /\ evict' = "record_gone"
    /\ UNCHANGED <<submit, build, err, current, made, bus, out, tail>>

EvictBus ==
    /\ evict = "record_gone" /\ build # "fail_send"
    /\ evict' = "bus_gone"
    /\ current' = NoBus
    /\ UNCHANGED <<submit, build, err, made, bus, out, tail>>

-----------------------------------------------------------------------------
(* A stream *)

(* Mutant: a clone of the sender outlives the bus. *)
ClosedNever(g) == FALSE

(* The last Arc of the bus is gone: RecvError::Closed once it is drained. *)
Closed(g) == g # current /\ ~(g = out /\ build # "over")

Unread(t) == Len(bus[t.bus].sent) - t.next + 1
Lagging(t) == Unread(t) > ChanCap

(* Mutant: the receiver is created after the ring is copied, so a line sent *)
(* in between is in neither.                                                *)
SubscribeLate(s) ==
    /\ tail[s].pc = "new"
    /\ IF current = NoBus THEN tail' = [tail EXCEPT ![s].pc = "not_found"]
       ELSE LET b == bus[current] IN
            \E miss \in {n \in 0 .. 1 : n <= Len(b.lines)} :
            tail' = [tail EXCEPT ![s] = [@ EXCEPT
                       !.pc = "live", !.bus = current, !.next = Len(b.sent) + 1,
                       !.marker = b.dropped_lines,
                       !.backlog = SubSeq(b.lines, 1, Len(b.lines) - miss)]]
    /\ UNCHANGED <<submit, build, err, current, made, bus, out, evict>>

(* subscribe_logs: the ring is copied, after a marker for what it dropped,  *)
(* and the receiver created under one lock; 404 when there is no bus.       *)
Subscribe(s) ==
    /\ tail[s].pc = "new"
    /\ IF current = NoBus THEN tail' = [tail EXCEPT ![s].pc = "not_found"]
       ELSE LET b == bus[current] IN
            tail' = [tail EXCEPT ![s] = [@ EXCEPT
                       !.pc = "live", !.bus = current, !.next = Len(b.sent) + 1,
                       !.marker = b.dropped_lines, !.backlog = b.lines]]
    /\ UNCHANGED <<submit, build, err, current, made, bus, out, evict>>

(* recv: the next line, or Lagged, which skips to the oldest line kept. *)
Take(s, t) ==
    tail' = [tail EXCEPT ![s] =
        IF Lagging(t)
        THEN [t EXCEPT !.next = Len(bus[t.bus].sent) - ChanCap + 1, !.lagged = TRUE]
        ELSE [t EXCEPT !.next = @ + 1, !.pc = "live",
                       !.live = Append(@, bus[t.bus].sent[t.next])]]

Receive(s) ==
    /\ tail[s].pc = "live" /\ Unread(tail[s]) > 0
    /\ Take(s, tail[s])
    /\ UNCHANGED <<submit, build, err, current, made, bus, out, evict>>

Hangup(s) ==
    /\ tail[s].pc = "live" /\ Unread(tail[s]) = 0 /\ Closed(tail[s].bus)
    /\ tail' = [tail EXCEPT ![s].pc = "ended"]
    /\ UNCHANGED <<submit, build, err, current, made, bus, out, evict>>

(* 250 ms without a line. *)
TimeOut(s) ==
    /\ tail[s].pc = "live" /\ Unread(tail[s]) = 0 /\ ~Closed(tail[s].bus)
    /\ tail' = [tail EXCEPT ![s].pc = "check"]
    /\ UNCHANGED <<submit, build, err, current, made, bus, out, evict>>

(* logs_done asks the map, which may have no bus or another one by now. *)
LogsDone == current # NoBus /\ bus[current].done

CheckDone(s) ==
    /\ tail[s].pc = "check"
    /\ tail' = [tail EXCEPT ![s].pc = IF LogsDone THEN "last" ELSE "live"]
    /\ UNCHANGED <<submit, build, err, current, made, bus, out, evict>>

(* try_recv after done: a line keeps the stream going, anything else (no    *)
(* line, Lagged, Closed) ends it.                                           *)
LastTry(s) ==
    /\ tail[s].pc = "last"
    /\ IF Unread(tail[s]) > 0 /\ ~Lagging(tail[s]) THEN Take(s, tail[s])
       ELSE tail' = [tail EXCEPT ![s].pc = "ended", ![s].lagged = @ \/ Lagging(tail[s])]
    /\ UNCHANGED <<submit, build, err, current, made, bus, out, evict>>

-----------------------------------------------------------------------------

Init ==
    /\ submit = "start" /\ build = "none" /\ err = FALSE
    /\ current = NoBus /\ made = 0 /\ out = NoBus /\ evict = "kept"
    /\ bus = [g \in Buses |-> EmptyBus]
    /\ tail = [s \in Streams |-> NewTail]

Submitting == SubmitRecord \/ SubmitBus

Building ==
    \/ FailProvision \/ FailLookup \/ FailSend \/ BuildBus \/ PrintLine \/ PrintLineSend
    \/ BuildReturns \/ RecordOk \/ RecordErr \/ RecordErrSend \/ TeardownDone

Evicting == EvictRecord \/ EvictBus

Following(s) == Receive(s) \/ Hangup(s) \/ TimeOut(s) \/ CheckDone(s) \/ LastTry(s)

Next ==
    \/ Submitting \/ Building \/ Evicting
    \/ \E s \in Streams : Subscribe(s) \/ Following(s)

Spec == Init /\ [][Next]_vars

(* A submitted job is placed, its build ends and its task is polled to the  *)
(* end; a stream is polled as long as the client reads.  Nothing forces a   *)
(* job to be evicted, but an eviction that began ends.                      *)
FairSpec ==
    /\ Spec
    /\ WF_vars(SubmitBus) /\ WF_vars(Building) /\ WF_vars(EvictBus)
    /\ \A s \in Streams : WF_vars(Following(s))

-----------------------------------------------------------------------------
(* Properties *)

(* Every bus, stream and program position is well formed, and a task that   *)
(* writes a log holds a bus that was created.                               *)
TypeOK ==
    /\ submit \in {"start", "bus", "end"}
    /\ build \in {"none", "queued", "fail_lookup", "fail_send", "run", "send", "record",
                  "err_send", "teardown", "over"}
    /\ err \in BOOLEAN /\ evict \in {"kept", "record_gone", "bus_gone"}
    /\ current \in Buses \cup {NoBus} /\ out \in Buses \cup {NoBus} /\ made \in 0 .. 2
    /\ build \in {"run", "send", "record", "err_send", "teardown", "fail_send"} => out \in Buses
    /\ bus \in [Buses -> [lines : Seq(Lines), bytes : Nat, dropped_lines : Nat,
                          dropped_bytes : Nat, pushed : Nat, sent : Seq(Lines), done : BOOLEAN]]
    /\ tail \in [Streams -> [pc : {"new", "not_found", "live", "check", "last", "ended"},
                             bus : Buses \cup {NoBus}, next : Nat, backlog : Seq(Lines),
                             marker : Nat, live : Seq(Lines), lagged : BOOLEAN]]

(* The ring's two bounds hold after every push, and its accounts are exact: *)
(* it holds the newest lines in order, bytes is their total, and what the   *)
(* marker line reports as dropped is exactly what is missing.               *)
RingExact ==
    \A g \in Buses : LET b == bus[g] IN
      /\ Len(b.lines) <= MaxLines
      /\ b.bytes <= MaxBytes \/ Len(b.lines) = 1
      /\ b.dropped_lines + Len(b.lines) = b.pushed
      /\ \A k \in 1 .. Len(b.lines) : b.lines[k] = b.dropped_lines + k
      /\ b.bytes = PrefixBytes(b.lines, Len(b.lines))
      /\ b.bytes + b.dropped_bytes = PrefixBytes([n \in Lines |-> n], b.pushed)

(* What a client reads: the backlog, then the live lines. *)
Got(t) == t.backlog \o t.live

Delivered(t) == IF Got(t) = <<>> THEN t.marker ELSE Got(t)[Len(Got(t))]

(* A client reads the lines in the order they were printed, and only the    *)
(* line being pushed while it subscribed can reach it twice.                *)
StreamInOrder ==
    \A s \in Streams : LET got == Got(tail[s]) IN
      \A k \in 1 .. Len(got) - 1 :
        \/ got[k] < got[k + 1]
        \/ got[k] = got[k + 1] /\ k = Len(tail[s].backlog)

(* No line is lost where the backlog meets the live lines: what a client    *)
(* reads continues the count of the marker without a gap, unless it read so *)
(* slowly that the channel overran it.                                      *)
GapFree ==
    \A s \in Streams : LET t == tail[s] IN
      t.pc # "new" /\ ~t.lagged =>
        \A k \in 1 .. Len(Got(t)) :
          Got(t)[k] <= 1 + (IF k = 1 THEN t.marker ELSE Got(t)[k - 1])

(* The lines of the bus that were printed before it was marked done. *)
Printed(g) ==
    IF g = out /\ err /\ build \in {"err_send", "teardown", "over"} THEN bus[g].pushed - 1
                                                                    ELSE bus[g].pushed

(* A stream that ended without being overrun has delivered every line the   *)
(* build printed, whatever the time-out, the done flag and the last line    *)
(* raced for.                                                               *)
CompleteAtEnd ==
    \A s \in Streams : LET t == tail[s] IN
      t.pc = "ended" /\ ~t.lagged => Delivered(t) >= Printed(t.bus)

(* What a client reads is the log: in order, without a gap, and to its end. *)
ClientReadsAll == StreamInOrder /\ GapFree /\ CompleteAtEnd

(* Once a bus is marked done, each stream that follows it ends, even if the *)
(* job is evicted or its id gets a new bus meanwhile.                       *)
DoneStreamsEnd ==
    \A s \in Streams :
      tail[s].pc = "live" /\ bus[tail[s].bus].done ~> tail[s].pc = "ended"
=============================================================================
