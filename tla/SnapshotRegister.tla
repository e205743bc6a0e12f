------------------------- MODULE SnapshotRegister -------------------------
(***************************************************************************)
(* What the replicated store promises of a node's snapshot: a reader sees  *)
(* nothing until the first one is complete and from then on always one     *)
(* whole state the node asked to replicate, never a mixture and never      *)
(* nothing again, whatever fails while it is replaced.                     *)
(***************************************************************************)
CONSTANTS State, Nothing

VARIABLES asked,    \* the states the node asked to replicate
          value     \* the state a reader gets

Init == asked = {} /\ value = Nothing

Ask(s) == asked' = asked \cup {s} /\ UNCHANGED value

Replace == value' \in asked /\ UNCHANGED asked

Next == (\E s \in State : Ask(s)) \/ Replace

Spec == Init /\ [][Next]_<<asked, value>>
=============================================================================
