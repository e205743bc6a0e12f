---------------------------- MODULE MCTenantQueue -----------------------------
(***************************************************************************)
(* Small instances of TenantQueue for TLC.                                 *)
(***************************************************************************)
EXTENDS TenantQueue

CONSTANTS n1, n2, m1
=============================================================================
