------------------------ MODULE MCStatePersistence ------------------------
(* One mutation of each kind: a consumed studio ticket, durable and merged  *)
(* by restore, and a webhook, left to the persister and replaced.           *)
EXTENDS StatePersistence

CONSTANTS ticket, webhook

MCMutation == {ticket, webhook}
MCDurable == {ticket}
MCMerged == {ticket}
MCLate == {}
=============================================================================
