----------------------------- MODULE MCWorldQueue -----------------------------
(***************************************************************************)
(* Small instances of WorldQueue for TLC.                                  *)
(***************************************************************************)
EXTENDS WorldQueue

CONSTANTS j1, j2

(* Names are ordered the other way round than peer ids.                    *)
Reversed == [n \in Nodes |-> 10 - n]
=============================================================================
