-------------------------- MODULE MCHiveControlPlane --------------------------
(***************************************************************************)
(* Small instances of HiveControlPlane for TLC.                            *)
(***************************************************************************)
EXTENDS HiveControlPlane

CONSTANTS j1, j2, c1, c2, c3, imgA

Spec1(v, m) == [vcpus |-> v, mem |-> m, disk |-> 1]

AllA == [j \in Jobs |-> imgA]

(* A job of the size of a warm cell, and one that needs the big box. *)
MixedReq == [j \in Jobs |-> IF j = j2 THEN Spec1(2, 1) ELSE Spec1(1, 1)]
UnitReq == [j \in Jobs |-> Spec1(1, 1)]
WarmUnit == Spec1(1, 1)

OneBox == <<[vcpus |-> 2, mem |-> 2]>>
UnevenBoxes == <<[vcpus |-> 1, mem |-> 1], [vcpus |-> 2, mem |-> 2]>>

NoImages == <<>>
WarmA == <<imgA>>
WarmOne == [i \in Images |-> 1]
WarmNone == [i \in Images |-> 0]

OnceEach == [j \in Jobs |-> 1]
J1Twice == [j \in Jobs |-> IF j = j1 THEN 2 ELSE 1]
=============================================================================
