----------------------------- MODULE AtLeastOnce -----------------------------
(***************************************************************************)
(* What the managed World Queue promises of a job, whatever the number of  *)
(* nodes: it is worked on only after it was accepted, it ends delivered    *)
(* only by an attempt that succeeded, and it is given up only when at      *)
(* least MaxAttempts attempts at it have failed.                           *)
(***************************************************************************)
EXTENDS Naturals

CONSTANTS Jobs, MaxAttempts

VARIABLES
    status,   \* [Jobs -> {"new", "accepted", "delivered", "dead"}]
    failures  \* failed attempts at each job, counted up to MaxAttempts

qvars == <<status, failures>>

QInit == status = [j \in Jobs |-> "new"] /\ failures = [j \in Jobs |-> 0]

Accept(j) ==
    /\ status[j] = "new"
    /\ status' = [status EXCEPT ![j] = "accepted"]
    /\ UNCHANGED failures

(* An attempt fails.  The job may have ended already: another copy of it.  *)
Fail(j) ==
    /\ status[j] # "new"
    /\ failures' = [failures EXCEPT ![j] = IF @ < MaxAttempts THEN @ + 1 ELSE @]
    /\ \/ UNCHANGED status
       \/ /\ failures'[j] = MaxAttempts
          /\ status[j] = "accepted"
          /\ status' = [status EXCEPT ![j] = "dead"]

Succeed(j) ==
    /\ status[j] # "new"
    /\ status' = [status EXCEPT ![j] = "delivered"]
    /\ UNCHANGED failures

QNext == \E j \in Jobs : Accept(j) \/ Fail(j) \/ Succeed(j)

QSpec == QInit /\ [][QNext]_qvars
=============================================================================
