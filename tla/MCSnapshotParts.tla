-------------------------- MODULE MCSnapshotParts --------------------------
(* Two fields of a snapshot with two digests each, 1 2 and 3 4: three       *)
(* states, neighbours share a part.                                         *)
EXTENDS SnapshotParts

MCState == {{1, 3}, {1, 4}, {2, 4}}
=============================================================================
