----------------------------- MODULE TenantQueue -----------------------------
(***************************************************************************)
(* A tenant's message queue and its dead-letter queue                      *)
(* (hive-cloud/src/queues.rs and queues_api.rs) on every node.  A mutation *)
(* of /v1/queues (send, pull, ack, retry) is served by a node that takes   *)
(* itself for the control-plane leader, a read such as the metrics by any  *)
(* node, and the delivery loop pushes batches to a worker consumer of Main *)
(* on a node that takes itself for the tenant's primary.  Both are views   *)
(* that change and may disagree, so here any node may be either, or both,  *)
(* at any moment.  Each node reads messages back from the mirror.          *)
(*                                                                         *)
(* A message log is a vector behind a lock, in one node's memory.  Mirror  *)
(* writes are spawned tasks (`ops`) that land in any order, or fail.       *)
(* GuardianDB is external: one map, whose replication delay is part of the *)
(* delay of an operation.  Clocks are left out: a message may be due, a    *)
(* lease may expire and a message may be past its retention at any moment. *)
(***************************************************************************)
EXTENDS Integers, Sequences, FiniteSets, Subsequences

CONSTANTS
    Nodes,       \* the nodes of the fleet
    Leaders,     \* nodes that may take themselves for the control-plane leader
    Primaries,   \* nodes that may take themselves for the tenant's primary
    Msgs,        \* message ids (uuids: never reused)
    Main, Dlq,   \* a queue with a worker consumer, and another queue
    None,        \* no dead_letter_queue
    DeadLetters, \* what that consumer may have for dead_letter_queue
    MaxRetries,  \* ConsumerSettings.max_retries
    BatchSize,   \* batch_size of the consumer and of a pull
    MaxPulls,    \* bound: no copy is pulled that counts as many attempts
    Served,      \* the queues that clients pull from and the loops visit
    MaxLetters,  \* bound: length of a node's log of the dead-letter queue
    MaxWrites,   \* bound: mirror writes under way at once
    MaxFaults,   \* bound: restarts of nodes and mirror writes that fail
    Absent       \* no copy of a message in the mirror

Queues == {Main, Dlq}

ASSUME TenantQueueAssumption ==
    /\ Leaders \subseteq Nodes /\ Primaries \subseteq Nodes
    /\ Main # Dlq /\ None \notin Queues /\ DeadLetters \subseteq Queues \cup {None}
    /\ MaxRetries \in Nat /\ BatchSize \in Nat \ {0}
    /\ MaxPulls \in Nat /\ Served \subseteq Queues /\ MaxLetters \in Nat
    /\ MaxWrites \in Nat /\ MaxFaults \in Nat
    /\ Absent \notin Nat

VARIABLES
    target,    \* Consumer.dead_letter_queue, validated for its tenant only
    log,       \* MessageLog.messages of each node and queue
    synced,    \* MessageLog.synced_once
    api,       \* keys a first-touch ensure_synced of a request still reads
    loop,      \* spawn_delivery_loop of each node: position and locals
    kv,        \* the mirror: attempts of the mirrored copy, or Absent
    ops,       \* spawned mirror writes that have not finished
    sent,      \* messages that send has answered
    ended,     \* history: messages acknowledged, delivered, swept or dropped
    givenUp,   \* history: messages a loop has dead-lettered or dropped
    offers,    \* history: how often a consumer was handed each message, up to Enough
    exposed,   \* history: messages that a write may be missing in the mirror of
    forgotten, \* history: messages that a node held when it restarted
    raced,     \* history: on this node, a request's first-touch sync read a
               \* message while the loop had taken it out of the log
    faults     \* how many faults there have been

vars == <<target, log, synced, api, loop, kv, ops, sent, ended, givenUp, offers,
          exposed, forgotten, raced, faults>>

-----------------------------------------------------------------------------
Enough == MaxRetries + 1
MaxAttempts == (IF MaxPulls > Enough THEN MaxPulls ELSE Enough) + 1
Copy == [id : Msgs, attempts : 0 .. MaxAttempts, lease : {"none", "live", "expired"}]
OpRecord == [node : Nodes, kind : {"put", "delete"}, queue : Queues, id : Msgs,
             attempts : 0 .. MaxAttempts]
Idle == [at |-> "idle", queue |-> Main, keys |-> {}, batch |-> <<>>]
LoopRecord == [at : {"idle", "first", "sync", "sweep", "take", "await"},
               queue : Queues, keys : SUBSET Msgs, batch : Seq(Copy)]

Ids(s) == {s[i].id : i \in DOMAIN s}
Mirrored(q) == {m \in Msgs : kv[q][m] # Absent}
Put(n, q, c) == [node |-> n, kind |-> "put", queue |-> q, id |-> c.id, attempts |-> c.attempts]
Delete(n, q, m) == [node |-> n, kind |-> "delete", queue |-> q, id |-> m, attempts |-> 0]
DeleteAll(n, q, s) == {Delete(n, q, m) : m \in Ids(s)}
PutAll(n, q, s) == {Put(n, q, s[i]) : i \in DOMAIN s}

TypeOK ==
    /\ target \in DeadLetters
    /\ log \in [Nodes -> [Queues -> Seq(Copy)]]
    /\ synced \in [Nodes -> [Queues -> BOOLEAN]]
    /\ api \in [Nodes -> [Queues -> SUBSET Msgs]]
    /\ loop \in [Nodes -> LoopRecord]
    /\ kv \in [Queues -> [Msgs -> 0 .. MaxAttempts \cup {Absent}]]
    /\ ops \subseteq OpRecord
    /\ raced \in [Nodes -> BOOLEAN]
    /\ sent \subseteq Msgs /\ ended \subseteq sent /\ givenUp \subseteq sent
    /\ exposed \subseteq sent /\ forgotten \subseteq sent
    /\ offers \in [Msgs -> 0 .. Enough]
    /\ faults \in 0 .. MaxFaults

Init ==
    /\ target \in DeadLetters
    /\ log = [n \in Nodes |-> [q \in Queues |-> <<>>]]
    /\ synced = [n \in Nodes |-> [q \in Queues |-> FALSE]]
    /\ api = [n \in Nodes |-> [q \in Queues |-> {}]]
    /\ loop = [n \in Nodes |-> Idle]
    /\ kv = [q \in Queues |-> [m \in Msgs |-> Absent]]
    /\ ops = {}
    /\ sent = {} /\ ended = {} /\ givenUp = {} /\ exposed = {} /\ forgotten = {}
    /\ offers = [m \in Msgs |-> 0]
    /\ raced = [n \in Nodes |-> FALSE]
    /\ faults = 0

-----------------------------------------------------------------------------
(* Mirror *)

(* tokio::spawn of mirror writes. *)
Spawn(S) ==
    /\ Cardinality(ops \cup S) <= MaxWrites
    /\ ops' = ops \cup S

OpLands(o) ==
    /\ o \in ops
    /\ ops' = ops \ {o}
    /\ kv' = [kv EXCEPT ![o.queue][o.id] = IF o.kind = "put" THEN o.attempts ELSE Absent]
    /\ UNCHANGED <<target, log, synced, api, loop, sent, ended, givenUp, offers, exposed,
                   forgotten, raced, faults>>

(* Messages of which one of the writes S never reaches the mirror.         *)
Unwritten(S) == {o.id : o \in {p \in S : p.kind = "put"}}

(* guardian::put and guardian::delete log an error and never try again.    *)
OpFails(o) ==
    /\ o \in ops
    /\ faults < MaxFaults
    /\ faults' = faults + 1
    /\ ops' = ops \ {o}
    /\ exposed' = exposed \cup Unwritten({o})
    /\ UNCHANGED <<target, log, synced, api, loop, kv, sent, ended, givenUp, offers,
                   forgotten, raced>>

(* Mutant: a message is added even if the log has it. *)
AdoptKeyTwice(n, q, m) ==
    log' = IF m \in Mirrored(q)
           THEN [log EXCEPT ![n][q] = Append(@, [id |-> m, attempts |-> kv[q][m], lease |-> "none"])]
           ELSE log

(* sync_from_guardian, one key: a message that is not in the log is added. *)
AdoptKey(n, q, m) ==
    log' = IF m \in Mirrored(q) \ Ids(log[n][q])
           THEN [log EXCEPT ![n][q] = Append(@, [id |-> m, attempts |-> kv[q][m], lease |-> "none"])]
           ELSE log

-----------------------------------------------------------------------------
(* Requests *)

Send(n, m) ==
    LET c == [id |-> m, attempts |-> 0, lease |-> "none"] IN
    /\ m \notin sent
    /\ sent' = sent \cup {m}
    /\ log' = [log EXCEPT ![n][Main] = Append(@, c)]
    /\ Spawn({Put(n, Main, c)})
    /\ UNCHANGED <<target, synced, api, loop, kv, ended, givenUp, offers, exposed,
                   forgotten, raced, faults>>

(* ensure_synced by a request: pull or backlog_stats touch the log first.  *)
FirstTouch(n, q) ==
    /\ q \in Served
    /\ ~synced[n][q]
    /\ synced' = [synced EXCEPT ![n][q] = TRUE]
    /\ api' = [api EXCEPT ![n][q] = Mirrored(q)]
    /\ UNCHANGED <<target, log, loop, kv, ops, sent, ended, givenUp, offers, exposed,
                   forgotten, raced, faults>>

InHand(n, q, m) == loop[n].queue = q /\ m \in Ids(loop[n].batch)

FirstTouchKey(n, q, m) ==
    /\ m \in api[n][q]
    /\ api' = [api EXCEPT ![n][q] = @ \ {m}]
    /\ AdoptKey(n, q, m)
    /\ raced' = [raced EXCEPT ![n] = @ \/ InHand(n, q, m)]
    /\ UNCHANGED <<target, synced, loop, kv, ops, sent, ended, givenUp, offers, exposed,
                   forgotten, faults>>

AtMost(k, l) == IF k < l THEN k ELSE l
Offered(ids) == offers' = [m \in Msgs |-> AtMost(offers[m] + IF m \in ids THEN 1 ELSE 0, Enough)]

Available(c) == c.lease # "live"
Leased(c) == [c EXCEPT !.lease = "live", !.attempts = @ + 1]

(* pull: leases the copies at the positions I, under one lock.             *)
Pull(n, q, I) ==
    /\ q \in Served /\ synced[n][q]
    /\ I \subseteq DOMAIN log[n][q] /\ Cardinality(I) \in 1 .. BatchSize
    /\ \A i \in I : Available(log[n][q][i]) /\ log[n][q][i].attempts < MaxPulls
    /\ log' = [log EXCEPT ![n][q] = [i \in DOMAIN @ |->
                  IF i \in I THEN Leased(@[i]) ELSE @[i]]]
    /\ Offered({log[n][q][i].id : i \in I})
    /\ UNCHANGED <<target, synced, api, loop, kv, ops, sent, ended, givenUp, exposed,
                   forgotten, raced, faults>>

LeaseExpires(n, q, i) ==
    /\ i \in DOMAIN log[n][q] /\ log[n][q][i].lease = "live"
    /\ log' = [log EXCEPT ![n][q][i].lease = "expired"]
    /\ UNCHANGED <<target, synced, api, loop, kv, ops, sent, ended, givenUp, offers, exposed,
                   forgotten, raced, faults>>

(* ack: refused unless the lease is the copy's own and has not expired; a  *)
(* node knows no lease but its own.                                        *)
Ack(n, q, i) ==
    /\ i \in DOMAIN log[n][q] /\ log[n][q][i].lease = "live"
    /\ log' = [log EXCEPT ![n][q] = Picked(@, DOMAIN @ \ {i})]
    /\ Spawn({Delete(n, q, log[n][q][i].id)})
    /\ ended' = ended \cup {log[n][q][i].id}
    /\ UNCHANGED <<target, synced, api, loop, kv, sent, givenUp, offers, exposed,
                   forgotten, raced, faults>>

Retry(n, q, i) ==
    /\ i \in DOMAIN log[n][q] /\ log[n][q][i].lease = "live"
    /\ log' = [log EXCEPT ![n][q][i].lease = "none"]
    /\ UNCHANGED <<target, synced, api, loop, kv, ops, sent, ended, givenUp, offers, exposed,
                   forgotten, raced, faults>>

-----------------------------------------------------------------------------
(* The delivery loop *)

(* The loop comes to q: a first touch, the periodic sync, or neither.      *)
Visit(n, q) ==
    /\ loop[n].at = "idle"
    /\ q \in Served
    /\ \E at \in {"first", "sync", "take"} :
          /\ (at = "first") => ~synced[n][q]
          /\ (at = "take") => synced[n][q] /\ q = Main
          /\ loop' = [loop EXCEPT ![n] = [at |-> at, queue |-> q, batch |-> <<>>,
                          keys |-> IF at = "take" THEN {} ELSE Mirrored(q)]]
    /\ synced' = [synced EXCEPT ![n][q] = TRUE]
    /\ UNCHANGED <<target, log, api, kv, ops, sent, ended, givenUp, offers, exposed,
                   forgotten, raced, faults>>

SyncKey(n, m) ==
    /\ loop[n].at \in {"first", "sync"} /\ m \in loop[n].keys
    /\ AdoptKey(n, loop[n].queue, m)
    /\ loop' = [loop EXCEPT ![n].keys = @ \ {m}]
    /\ UNCHANGED <<target, synced, api, kv, ops, sent, ended, givenUp, offers, exposed,
                   forgotten, raced, faults>>

SyncDone(n) ==
    /\ loop[n].at \in {"first", "sync"} /\ loop[n].keys = {}
    /\ loop' = [loop EXCEPT ![n].at = IF loop[n].at = "sync" THEN "sweep"
                                      ELSE IF loop[n].queue = Main THEN "take" ELSE "idle"]
    /\ UNCHANGED <<target, log, synced, api, kv, ops, sent, ended, givenUp, offers, exposed,
                   forgotten, raced, faults>>

(* At most half of the log, but at least one message, goes in one sweep.   *)
MaxReap(total) == IF total \div 2 > 1 THEN total \div 2 ELSE 1

(* sweep_expired, for the messages `old` that are past their retention.    *)
SweepExpired(n, old) ==
    LET q == loop[n].queue
        expired == {i \in DOMAIN log[n][q] : log[n][q][i].id \in old}
        reap == {log[n][q][i].id : i \in {k \in expired :
                    Cardinality({j \in expired : j <= k}) <= MaxReap(Len(log[n][q]))}}
    IN /\ loop[n].at = "sweep"
       /\ old \subseteq Ids(log[n][q])
       /\ log' = [log EXCEPT ![n][q] = Filtered(@, LAMBDA c : c.id \notin reap)]
       /\ Spawn({Delete(n, q, m) : m \in reap})
       /\ ended' = ended \cup reap
       /\ loop' = [loop EXCEPT ![n].at = IF q = Main THEN "take" ELSE "idle"]
       /\ UNCHANGED <<target, synced, api, kv, sent, givenUp, offers, exposed, forgotten,
                      raced, faults>>

(* A copy that carries a lease, expired or not, is not pushed.             *)
Pushable(c) == c.lease = "none"

(* take_due_for_push: takes the copies at the positions I out of the log.  *)
TakeDueForPush(n, I) ==
    LET q == loop[n].queue
        taken == Picked(log[n][q], I)
    IN /\ loop[n].at = "take"
       /\ I \subseteq DOMAIN log[n][q] /\ Cardinality(I) <= BatchSize
       /\ \A i \in I : Pushable(log[n][q][i])
       /\ loop' = [loop EXCEPT ![n].at = IF I = {} THEN "idle" ELSE "await",
                     ![n].batch = [k \in DOMAIN taken |-> [taken[k] EXCEPT !.attempts = @ + 1]]]
       /\ log' = [log EXCEPT ![n][q] = Picked(@, DOMAIN @ \ I)]
       /\ Offered({log[n][q][i].id : i \in I})
       /\ UNCHANGED <<target, synced, api, kv, ops, sent, ended, givenUp, exposed, forgotten,
                      raced, faults>>

PushOk(n) ==
    /\ loop[n].at = "await"
    /\ Spawn(DeleteAll(n, loop[n].queue, loop[n].batch))
    /\ ended' = ended \cup Ids(loop[n].batch)
    /\ loop' = [loop EXCEPT ![n] = Idle]
    /\ UNCHANGED <<target, log, synced, api, kv, sent, givenUp, offers, exposed, forgotten,
                   raced, faults>>

(* Mutant: a message is never given up. *)
NeverExhausted(c) == FALSE

Exhausted(c) == c.attempts > MaxRetries

(* Mutant: the letters are not mirrored. *)
DeadLetterUnmirrored(n, gone) ==
    LET letters == [k \in DOMAIN gone |-> [gone[k] EXCEPT !.attempts = 0]] IN
    [log |-> [q \in Queues |-> IF q = target THEN letters ELSE <<>>],
     ops |-> DeleteAll(n, Main, gone)]

(* dead_letter: what the messages `gone` leave in the logs and spawn.  The *)
(* copies of Main are deleted; with a dead-letter queue, which may be Main *)
(* itself, each comes to it with a fresh count, without one it is dropped. *)
DeadLetter(n, gone) ==
    LET letters == [k \in DOMAIN gone |-> [gone[k] EXCEPT !.attempts = 0]] IN
    [log |-> [q \in Queues |-> IF q = target THEN letters ELSE <<>>],
     ops |-> DeleteAll(n, Main, gone) \cup
             (IF target = None THEN {} ELSE PutAll(n, target, letters))]

(* Mutant: a message put back counts its attempt a second time. *)
PutBackCountsTwice(s) == [k \in DOMAIN s |-> [s[k] EXCEPT !.attempts = @ + 1]]

(* reschedule: back to the log, with the attempts the take has counted.    *)
PutBack(s) == s

(* A failed push: exhausted messages are given up, the others go back.  If *)
(* Main is its own dead-letter queue, the delete and the put of one key    *)
(* race.                                                                   *)
PushFails(n) ==
    LET gone == Filtered(loop[n].batch, Exhausted)
        again == PutBack(Filtered(loop[n].batch, LAMBDA c : ~Exhausted(c)))
        dead == DeadLetter(n, gone)
    IN /\ loop[n].at = "await"
       /\ Len(log[n][Dlq] \o dead.log[Dlq]) <= MaxLetters
       /\ log' = [log EXCEPT ![n][Dlq] = @ \o dead.log[Dlq],
                             ![n][Main] = (@ \o dead.log[Main]) \o again]
       /\ Spawn(dead.ops \cup PutAll(n, Main, again))
       /\ givenUp' = givenUp \cup Ids(gone)
       /\ ended' = IF target = None THEN ended \cup Ids(gone) ELSE ended
       /\ exposed' = IF target = Main THEN exposed \cup Ids(gone) ELSE exposed
       /\ loop' = [loop EXCEPT ![n] = Idle]
       /\ UNCHANGED <<target, synced, api, kv, sent, offers, forgotten, raced, faults>>

(* What node n holds of a message, in a log or in its loop.                *)
Holds(n, m) == m \in Ids(loop[n].batch) \/ \E q \in Queues : m \in Ids(log[n][q])

(* A node restarts: its logs, spawned writes and tasks are gone; the queue *)
(* records come back from the saved snapshot.                              *)
Restart(n) ==
    LET mine == {o \in ops : o.node = n} IN
    /\ faults < MaxFaults
    /\ faults' = faults + 1
    /\ log' = [log EXCEPT ![n] = [q \in Queues |-> <<>>]]
    /\ synced' = [synced EXCEPT ![n] = [q \in Queues |-> FALSE]]
    /\ api' = [api EXCEPT ![n] = [q \in Queues |-> {}]]
    /\ loop' = [loop EXCEPT ![n] = Idle]
    /\ ops' = ops \ mine
    /\ exposed' = exposed \cup Unwritten(mine)
    /\ forgotten' = forgotten \cup {m \in sent : Holds(n, m)}
    /\ raced' = [raced EXCEPT ![n] = FALSE]
    /\ UNCHANGED <<target, kv, sent, ended, givenUp, offers>>

-----------------------------------------------------------------------------
LoopStep(n) ==
    \/ \E m \in Msgs : SyncKey(n, m)
    \/ SyncDone(n) \/ PushOk(n) \/ PushFails(n)
    \/ \E old \in SUBSET Msgs : SweepExpired(n, old)
    \/ \E I \in SUBSET DOMAIN log[n][loop[n].queue] : TakeDueForPush(n, I)

Serve(n) ==
    \/ \E m \in Msgs : Send(n, m)
    \/ \E q \in Queues :
          \/ \E I \in SUBSET DOMAIN log[n][q] : Pull(n, q, I)
          \/ \E i \in DOMAIN log[n][q] : Ack(n, q, i) \/ Retry(n, q, i)

Touch(n, q) ==
    \/ FirstTouch(n, q)
    \/ \E m \in Msgs : FirstTouchKey(n, q, m)
    \/ \E i \in DOMAIN log[n][q] : LeaseExpires(n, q, i)

Next ==
    \/ \E n \in Leaders : Serve(n)
    \/ \E n \in Primaries : \E q \in Queues : Visit(n, q)
    \/ \E n \in Nodes : LoopStep(n) \/ Restart(n) \/ \E q \in Queues : Touch(n, q)
    \/ \E o \in ops : OpLands(o) \/ OpFails(o)

Spec == Init /\ [][Next]_vars

-----------------------------------------------------------------------------
(* Properties *)

(* In one of the two mirrors, or about to be.                              *)
Durable(m) ==
    \E q \in Queues : \/ m \in Mirrored(q)
                      \/ \E o \in ops : o.kind = "put" /\ o.queue = q /\ o.id = m

(* A message that nobody acknowledged, delivered, swept or dropped for want *)
(* of a dead-letter queue is lost by two faults on top of each other only:  *)
(* through pulls, failed pushes, dead-letters and restarts of any nodes it  *)
(* stays in the mirror unless one of its writes failed or died with its     *)
(* node, or raced with a delete because the queue is its own dead-letter    *)
(* queue, and it stays in some node's memory unless a node that held it     *)
(* restarted (send, reschedule, dead_letter, guardian::put).                *)
NoMessageLost ==
    \A m \in sent \ ended :
       /\ m \in exposed \/ Durable(m)
       /\ m \in forgotten \/ \E n \in Nodes : Holds(n, m)

(* One consumer at a time on one node, whichever of the two roles it plays: *)
(* its queue never has two live leases on the same message, nor a live      *)
(* lease on one its loop is pushing (pull, take_due_for_push,               *)
(* sync_from_guardian), unless a request's first-touch sync on that node    *)
(* read the message back while the loop had it.  Nothing excludes a         *)
(* consumer on another node.  The dead-letter queue is not covered: a       *)
(* message may come to it twice.                                            *)
OneConsumer ==
    \A n \in Nodes : raced[n] \/
       \A i \in DOMAIN log[n][Main] :
          log[n][Main][i].lease = "live" =>
             /\ ~InHand(n, Main, log[n][Main][i].id)
             /\ \A k \in DOMAIN log[n][Main] \ {i} : log[n][Main][k].id # log[n][Main][i].id

(* A message is dead-lettered or dropped only after its consumers were      *)
(* offered it more than max_retries times: no copy counts an offer that was *)
(* not made, on whichever node (pull, take_due_for_push, reschedule,        *)
(* dead_letter).                                                            *)
AttemptsHonest ==
    /\ \A q \in Queues :
          /\ \A n \in Nodes : \A i \in DOMAIN log[n][q] :
                AtMost(log[n][q][i].attempts, Enough) <= offers[log[n][q][i].id]
          /\ \A m \in Mirrored(q) : AtMost(kv[q][m], Enough) <= offers[m]
    /\ \A m \in givenUp : offers[m] > MaxRetries
=============================================================================
