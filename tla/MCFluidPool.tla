------------------------------ MODULE MCFluidPool -----------------------------
(***************************************************************************)
(* Small instances of FluidPool for TLC.                                   *)
(***************************************************************************)
EXTENDS FluidPool, TLC

CONSTANTS k1, r1, r2, t1

(* Edits that lower max_instances below the instances running and below the *)
(* floor, and a configuration that never changes.                           *)
Edits == {[min |-> 0, max |-> 2], [min |-> 2, max |-> 1]}
Zero == {0}
Fixed == {[min |-> 1, max |-> 1]}
UpToOne == {0, 1}
SameRequests == Permutations(Requests)
SameTenant == [k \in Keys |-> t1]
=============================================================================
