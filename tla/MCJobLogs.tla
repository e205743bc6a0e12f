------------------------------ MODULE MCJobLogs -------------------------------
(***************************************************************************)
(* Small instances of JobLogs for TLC.                                     *)
(***************************************************************************)
EXTENDS JobLogs

CONSTANT s1

(* A small line, a big one that exceeds the byte bound with any other, and  *)
(* small ones again.                                                        *)
SmallBigSmall == [n \in 1 .. BuildLines + 1 |-> IF n = 3 THEN 3 ELSE 1]
=============================================================================
