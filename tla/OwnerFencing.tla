--------------------------- MODULE OwnerFencing ---------------------------
(***************************************************************************)
(* The control plane's single writer: every node resolves the owner from   *)
(* its own registry (operator chain first, identity election otherwise),   *)
(* bumps a fencing epoch when the owner it observes changes, merges the    *)
(* epochs its peers gossip, and forwards an admin mutation it may not      *)
(* serve to the candidates it knows, one after the other.                  *)
(*                                                                         *)
(* Models crates/hive-cloud/src/cluster.rs, the ownership methods of       *)
(* state.rs and admin_ingress / admin_forward_to_leader of main.rs.  One   *)
(* mutation r is followed from the client to its answer; the client does   *)
(* not resend it.  The wire may lose a request or an answer, a request may *)
(* be served after its forwarder gave up, nodes may crash and restart.     *)
(***************************************************************************)
EXTENDS Naturals, Sequences, FiniteSets, Subsequences

CONSTANTS Node,          \* the nodes of the fleet
          None,          \* no node
          Chain,         \* HIVE_CP_OWNER_CHAIN: a sequence of nodes
          Identity,      \* every node with an iroh identity, by peer_id
          Public,        \* the nodes with a public address
          Pin,           \* HIVE_CP_LEADER, or None
          Mutation,      \* admin mutations clients send
          MaxRetries,    \* MAX_STALE_EPOCH_RETRIES
          MaxFaults      \* bound: missed probes, failed dials and restarts

ASSUME FleetAssumption ==
    /\ IsFiniteSet(Node) /\ None \notin Node
    /\ Chain \in Seq(Node) /\ Identity \in Seq(Node)
    /\ Public \subseteq Node /\ Pin \in Node \cup {None}
    /\ MaxRetries \in Nat /\ MaxFaults \in Nat

VARIABLES
    view,      \* view[n]: the peers n's registry shows healthy, n included
    linked,    \* linked[n]: n recently dialled an expected peer
    epoch,     \* Cluster.epoch
    owner,     \* Cluster.owner, the owner last observed
    adopting,  \* epochs adopt_epoch compared but has not written yet
    told,      \* epochs some node published as NodeInfo.cp_epoch
    fwd,       \* fwd[r]: the ingress handler's progress with mutation r
    wire,      \* wire[r]: the forwarded copy of r, at the peer it was sent to
    applied,   \* applied[r]: how often a router ran r
    faults     \* faults so far

cluster  == <<epoch, owner, adopting, told>>
requests == <<fwd, wire, applied>>
vars     == <<view, linked, cluster, requests, faults>>

----------------------------------------------------------------------------
(* Resolution.                                                             *)

FirstIn(seq, S) ==
    LET hits == {i \in DOMAIN seq : seq[i] \in S}
    IN  IF hits = {} THEN None
        ELSE seq[CHOOSE i \in hits : \A j \in hits : i <= j]

Identified == {Identity[i] : i \in DOMAIN Identity}

\* billing_leader_with_pref: the pin if electable, else the lowest identity,
\* publicly addressable nodes first.
BillingLeader(healthy) ==
    IF Pin \in healthy \cap Public \cap Identified THEN Pin
    ELSE IF FirstIn(Identity, healthy \cap Public) # None
         THEN FirstIn(Identity, healthy \cap Public)
         ELSE FirstIn(Identity, healthy)

\* control_plane_owner: the first eligible entry of the chain, else the
\* election.
ControlPlaneOwner(healthy) ==
    LET listed == FirstIn(Chain, healthy \cap Public \cap Identified)
    IN  IF listed # None THEN listed ELSE BillingLeader(healthy)

\* The owner n resolves now: itself when nothing is electable.
Leader(n) ==
    IF ControlPlaneOwner(view[n]) = None THEN n ELSE ControlPlaneOwner(view[n])

\* is_control_plane_leader: an isolated node never asserts leadership.
IsLeader(n) == linked[n] /\ Leader(n) = n

\* control_plane_leader feeds observe_owner: the epoch moves with the owner.
Observe(n) ==
    /\ owner' = [owner EXCEPT ![n] = Leader(n)]
    /\ epoch' = [epoch EXCEPT ![n] = IF Leader(n) = owner[n] THEN @ ELSE @ + 1]

\* is_control_plane_leader resolves only when the node is not isolated.
ObserveIfLinked(n) ==
    IF linked[n] THEN Observe(n) ELSE UNCHANGED <<owner, epoch>>

----------------------------------------------------------------------------
\* Mutant: the epoch counts from 0, the value of a peer that publishes none.
EpochFromZero == 0

\* Cluster::new.
FirstEpoch == 1

Idle == [pc |-> "idle", at |-> None, stamp |-> 0, left |-> <<>>,
         disclosed |-> 0, retries |-> 0, calm |-> FALSE, answer |-> "none"]

NoCopy == [pc |-> "none", to |-> None, stamp |-> 0, disclosed |-> 0]

\* The fleet has booted (Cluster::new: the node itself is the owner)
\* and every node has heard its peers and resolved the owner once.
Init ==
    /\ view = [n \in Node |-> Node]
    /\ linked = [n \in Node |-> TRUE]
    /\ owner = [n \in Node |-> Leader(n)]
    /\ epoch = [n \in Node |-> IF owner[n] = n THEN FirstEpoch ELSE FirstEpoch + 1]
    /\ adopting = [n \in Node |-> {}]
    /\ told = {}
    /\ fwd = [r \in Mutation |-> Idle]
    /\ wire = [r \in Mutation |-> NoCopy]
    /\ applied = [r \in Mutation |-> 0]
    /\ faults = 0

----------------------------------------------------------------------------
(* The mesh: registry health and dial evidence.                            *)

\* Every node sees every other and has dialled somebody.
Settled == \A n \in Node : view[n] = Node /\ linked[n]

\* A mutation in progress no longer counts as sent to a settled fleet.
Disturb == fwd' = [r \in Mutation |-> [fwd[r] EXCEPT !.calm = FALSE]]

\* A gossip round shows n that m is up.
Hear(n, m) ==
    /\ m \notin view[n] \/ ~linked[n]
    /\ view' = [view EXCEPT ![n] = @ \cup {m}]
    /\ linked' = [linked EXCEPT ![n] = TRUE]
    /\ UNCHANGED <<cluster, requests, faults>>

\* A missed probe: n takes m for down although m is up.
Blip(n, m) ==
    /\ faults < MaxFaults
    /\ m \in view[n] \ {n}
    /\ view' = [view EXCEPT ![n] = @ \ {m}]
    /\ linked' = [linked EXCEPT ![n] = view[n] \ {m} # {n}]
    /\ faults' = faults + 1
    /\ Disturb
    /\ UNCHANGED <<cluster, wire, applied>>

----------------------------------------------------------------------------
(* The fencing epoch.                                                      *)

\* spawn_cluster_loop: resolve, observe, publish the epoch.
ClusterLoop(n) ==
    /\ Observe(n)
    /\ told' = told \cup {epoch'[n]}
    /\ UNCHANGED <<view, linked, adopting, requests, faults>>

\* adopt_epoch, first half: the comparison under the read lock.
AdoptReads(n, e) ==
    /\ e > epoch[n]
    /\ adopting' = [adopting EXCEPT ![n] = @ \cup {e}]

\* Gossip or an announcement brings an epoch some node published.
GossipEpoch(n) ==
    /\ \E e \in told : AdoptReads(n, e)
    /\ UNCHANGED <<view, linked, epoch, owner, told, requests, faults>>

\* Mutant: the write keeps whatever epoch was there.
AdoptDropsWrite(n, e) ==
    /\ e \in adopting[n]
    /\ adopting' = [adopting EXCEPT ![n] = @ \ {e}]
    /\ UNCHANGED <<view, linked, epoch, owner, told, requests, faults>>

\* adopt_epoch, second half: the write, whatever happened in between.  One
\* that takes the epoch back disturbs the fleet.
AdoptWrites(n, e) ==
    /\ e \in adopting[n]
    /\ adopting' = [adopting EXCEPT ![n] = @ \ {e}]
    /\ epoch' = [epoch EXCEPT ![n] = e]
    /\ IF e < epoch[n] THEN Disturb ELSE UNCHANGED fwd
    /\ UNCHANGED <<view, linked, owner, told, wire, applied, faults>>

----------------------------------------------------------------------------
(* The ingress handler that holds the client's connection.                 *)

\* admin_ingress: the leader serves, any other node reads the body first.
Ingress(r, n) ==
    /\ fwd[r].pc = "idle"
    /\ ObserveIfLinked(n)
    /\ fwd' = [fwd EXCEPT ![r] =
           [Idle EXCEPT !.pc = IF IsLeader(n) THEN "serving" ELSE "body",
                        !.at = n, !.calm = Settled]]
    /\ UNCHANGED <<view, linked, adopting, told, wire, applied, faults>>

\* leader_forward_candidates: the believed leader, then the chain; an entry
\* that is not healthy may still be known by its address (audible).
Candidates(n, audible) ==
    LET chain == Filtered(Chain, LAMBDA c : /\ c \notin {n, Leader(n)}
                                            /\ c \in view[n] \cup audible)
    IN  IF Leader(n) # n /\ Leader(n) \in Public
        THEN <<Leader(n)>> \o chain ELSE chain

\* admin_forward_to_leader reads the epoch, then lists the candidates (which
\* resolves and may bump the epoch past the one just read).
Stamp(r) ==
    LET n == fwd[r].at IN
    /\ fwd[r].pc = "body"
    /\ Observe(n)
    /\ \E audible \in SUBSET (Node \ view[n]) :
           fwd' = [fwd EXCEPT ![r].pc = "walk", ![r].stamp = epoch[n],
                              ![r].left = Candidates(n, audible)]
    /\ UNCHANGED <<view, linked, adopting, told, wire, applied, faults>>

\* Nobody is left to try: the refusal is the answer.
Refuse(r) ==
    /\ fwd[r].pc = "walk" /\ fwd[r].left = <<>>
    /\ fwd' = [fwd EXCEPT ![r].pc = "done", ![r].answer = "refused"]
    /\ UNCHANGED <<view, linked, cluster, wire, applied, faults>>

\* The request leaves for the next candidate.
SendTo(r) ==
    /\ fwd[r].pc = "walk" /\ fwd[r].left # <<>>
    /\ wire' = [wire EXCEPT ![r] = [NoCopy EXCEPT !.pc = "sent",
                    !.to = Head(fwd[r].left), !.stamp = fwd[r].stamp]]
    /\ fwd' = [fwd EXCEPT ![r].pc = "wait"]
    /\ UNCHANGED <<view, linked, cluster, applied, faults>>

\* The connection is never established: provably not applied.
ConnectFails(r) ==
    /\ fwd[r].pc = "walk" /\ fwd[r].left # <<>>
    /\ faults < MaxFaults /\ faults' = faults + 1
    /\ fwd' = [fwd EXCEPT ![r].left = Tail(@), ![r].calm = FALSE]
    /\ UNCHANGED <<view, linked, cluster, wire, applied>>

----------------------------------------------------------------------------
(* The peer a forwarded mutation reaches.                                  *)

Answered(r, pc, disclosed) ==
    wire' = [wire EXCEPT ![r].pc = pc, ![r].disclosed = disclosed]

\* Mutant: the fence refuses but hides the epoch it fenced against.
FencedSilently(r, m) ==
    /\ wire[r].stamp < epoch[m]
    /\ Answered(r, "stale", 0)
    /\ UNCHANGED <<owner, epoch>>

\* The epoch fence: the sender is behind, refuse and disclose the epoch.
Fenced(r, m) ==
    /\ wire[r].stamp < epoch[m]
    /\ Answered(r, "stale", epoch[m])
    /\ UNCHANGED <<owner, epoch>>

\* Past the fence only the leader serves.
Unfenced(r, m) ==
    /\ wire[r].stamp >= epoch[m]
    /\ ObserveIfLinked(m)
    /\ Answered(r, IF IsLeader(m) THEN "serving" ELSE "not_leader", 0)

Receive(r) ==
    /\ wire[r].pc = "sent"
    /\ Fenced(r, wire[r].to) \/ Unfenced(r, wire[r].to)
    /\ UNCHANGED <<view, linked, adopting, told, fwd, applied, faults>>

\* The router runs the mutation, for a forwarded copy or for the ingress
\* itself.
ServeForwarded(r) ==
    /\ wire[r].pc = "serving"
    /\ applied' = [applied EXCEPT ![r] = @ + 1]
    /\ Answered(r, "ok", 0)
    /\ UNCHANGED <<view, linked, cluster, fwd, faults>>

ServeLocal(r) ==
    /\ fwd[r].pc = "serving"
    /\ applied' = [applied EXCEPT ![r] = @ + 1]
    /\ fwd' = [fwd EXCEPT ![r].pc = "done", ![r].answer = "ok"]
    /\ UNCHANGED <<view, linked, cluster, wire, faults>>

----------------------------------------------------------------------------
(* The forwarder reads the answer.                                         *)

\* An answer of the router is the client's answer.
ReplyOk(r) ==
    /\ fwd[r].pc = "wait" /\ wire[r].pc = "ok"
    /\ fwd' = [fwd EXCEPT ![r].pc = "done", ![r].answer = "ok"]
    /\ UNCHANGED <<view, linked, cluster, wire, applied, faults>>

\* Not the leader: provably not applied, walk on.
ReplyNotLeader(r) ==
    /\ fwd[r].pc = "wait" /\ wire[r].pc = "not_leader"
    /\ fwd' = [fwd EXCEPT ![r].pc = "walk", ![r].left = Tail(@)]
    /\ wire' = [wire EXCEPT ![r] = NoCopy]
    /\ UNCHANGED <<view, linked, cluster, applied, faults>>

\* Stale epoch: adopt what the fence disclosed.
ReplyStale(r) ==
    LET n == fwd[r].at IN
    /\ fwd[r].pc = "wait" /\ wire[r].pc = "stale"
    /\ \/ AdoptReads(n, wire[r].disclosed)
       \/ wire[r].disclosed <= epoch[n] /\ UNCHANGED adopting
    /\ fwd' = [fwd EXCEPT ![r].pc = "restamp", ![r].disclosed = wire[r].disclosed]
    /\ wire' = [wire EXCEPT ![r] = NoCopy]
    /\ UNCHANGED <<view, linked, epoch, owner, told, applied, faults>>

\* Then retry in place if the epoch moved and retries are left, else walk on.
Restamp(r) ==
    LET n == fwd[r].at IN
    /\ fwd[r].pc = "restamp"
    /\ fwd[r].disclosed \notin adopting[n]
    /\ IF epoch[n] > fwd[r].stamp /\ fwd[r].retries < MaxRetries
       THEN fwd' = [fwd EXCEPT ![r].pc = "walk", ![r].stamp = epoch[n],
                               ![r].retries = @ + 1]
       ELSE fwd' = [fwd EXCEPT ![r].pc = "walk", ![r].left = Tail(@)]
    /\ UNCHANGED <<view, linked, cluster, wire, applied, faults>>

\* Mutant: a transport error walks on like a refusal.
GiveUpWalksOn(r) ==
    /\ fwd[r].pc = "wait"
    /\ fwd' = [fwd EXCEPT ![r].pc = "walk", ![r].left = Tail(@)]
    /\ UNCHANGED <<view, linked, cluster, wire, applied, faults>>

\* A mid-flight transport error or the request timeout: the effect is
\* unknown, the client is told so, and the copy may still be served.
GiveUp(r) ==
    /\ fwd[r].pc = "wait"
    /\ fwd' = [fwd EXCEPT ![r].pc = "done", ![r].answer = "unknown"]
    /\ UNCHANGED <<view, linked, cluster, wire, applied, faults>>

\* n's part in r ends with n: it holds the client, or the copy r waits for.
Drops(r, n) ==
    /\ fwd[r].pc \notin {"idle", "done"}
    /\ fwd[r].at = n \/ (fwd[r].pc = "wait" /\ wire[r].to = n)

\* A node restarts: epoch 1, itself the owner, nobody heard yet.  What it was
\* handling is gone: its clients and forwarders see the connection drop.
Crash(n) ==
    /\ faults < MaxFaults /\ faults' = faults + 1
    /\ view' = [view EXCEPT ![n] = {n}]
    /\ linked' = [linked EXCEPT ![n] = FALSE]
    /\ epoch' = [epoch EXCEPT ![n] = FirstEpoch]
    /\ owner' = [owner EXCEPT ![n] = n]
    /\ adopting' = [adopting EXCEPT ![n] = {}]
    /\ wire' = [r \in Mutation |-> IF wire[r].to = n THEN NoCopy ELSE wire[r]]
    /\ fwd' = [r \in Mutation |->
           [fwd[r] EXCEPT !.calm = FALSE,
                          !.pc = IF Drops(r, n) THEN "done" ELSE @,
                          !.answer = IF Drops(r, n) THEN "unknown" ELSE @]]
    /\ UNCHANGED <<told, applied>>

----------------------------------------------------------------------------
\* The ingress task: it ends, because every await of it has a timeout.
Handler(r) ==
    \/ Stamp(r) \/ Refuse(r) \/ SendTo(r) \/ ServeLocal(r)
    \/ ReplyOk(r) \/ ReplyNotLeader(r) \/ ReplyStale(r) \/ Restamp(r)
    \/ GiveUp(r)

\* The task at the peer.
Peer(r) == Receive(r) \/ ServeForwarded(r)

Adopt(n) == \E e \in adopting[n] : AdoptWrites(n, e)

Next ==
    \/ \E n, m \in Node : Hear(n, m) \/ Blip(n, m)
    \/ \E n \in Node : ClusterLoop(n) \/ GossipEpoch(n) \/ Adopt(n) \/ Crash(n)
    \/ \E r \in Mutation : Handler(r) \/ Peer(r) \/ ConnectFails(r)
    \/ \E r \in Mutation, n \in Node : Ingress(r, n)

\* The 3 s cluster loop and the gossip round of every node keep running.
Fairness ==
    \A n \in Node : /\ WF_vars(ClusterLoop(n))
                     /\ WF_vars(GossipEpoch(n))
                     /\ WF_vars(Adopt(n))

Spec == Init /\ [][Next]_vars /\ Fairness

----------------------------------------------------------------------------
Epoch == Nat \ {0}

TypeOK ==
    /\ view \in [Node -> SUBSET Node]
    /\ linked \in [Node -> BOOLEAN]
    /\ epoch \in [Node -> Epoch]
    /\ owner \in [Node -> Node]
    /\ adopting \in [Node -> SUBSET Epoch]
    /\ told \subseteq Epoch
    /\ fwd \in [Mutation ->
           [pc : {"idle", "body", "serving", "walk", "wait", "restamp", "done"},
            at : Node \cup {None}, stamp : Nat, left : Seq(Node),
            disclosed : Nat, retries : 0 .. MaxRetries, calm : BOOLEAN,
            answer : {"none", "ok", "refused", "unknown"}]]
    /\ wire \in [Mutation ->
           [pc : {"none", "sent", "serving", "ok", "stale", "not_leader"},
            to : Node \cup {None}, stamp : Nat, disclosed : Nat]]
    /\ applied \in [Mutation -> Nat]
    /\ faults \in 0 .. MaxFaults

(* A mutation runs at most once, and the answer its client gets tells the   *)
(* truth: an ok was applied, a refusal never was and never will be (no copy *)
(* of it is on its way), so a client may safely resend what was refused.    *)
(* The walk over the candidates and the retries after a stale epoch must    *)
(* not break this (admin_forward_to_leader, main.rs).                       *)
AnswersHonest ==
    \A r \in Mutation :
        /\ applied[r] <= 1
        /\ fwd[r].answer = "ok" => applied[r] = 1
        /\ fwd[r].answer = "refused" =>
               applied[r] = 0 /\ wire[r].pc \notin {"sent", "serving"}

(* The owner a settled fleet elects, if any, can be forwarded to.           *)
OwnerReachable == ControlPlaneOwner(Node) \in Public \cup {None}

(* A mutation that reaches a fleet whose nodes all see each other is not    *)
(* refused while nothing disturbs the fleet, whatever epochs the nodes are  *)
(* at, before the owner has fenced it once more than MAX_STALE_EPOCH_RETRIES*)
(* times: the epoch a fence discloses is the one the retry carries          *)
(* (admin_forward_to_leader, main.rs).  A disturbance is a missed probe, a  *)
(* failed dial, a crash, and a late write of adopt_epoch that takes an      *)
(* epoch back: that one is enough to end the retries before they are spent. *)
SettledFleetAccepts ==
    OwnerReachable =>
        \A r \in Mutation :
            fwd[r].calm /\ fwd[r].answer = "refused" => fwd[r].retries = MaxRetries

(* Once the fleet stops changing, every node ends up at the same epoch      *)
(* (observe_owner and adopt_epoch, cluster.rs), although adopt_epoch        *)
(* compares under one lock and writes under another and so may overwrite a  *)
(* newer epoch with an older one.                                           *)
EpochsConverge == <>[](\A n, m \in Node : epoch[n] = epoch[m])
=============================================================================
