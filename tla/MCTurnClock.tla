---------------------------- MODULE MCTurnClock ----------------------------
(* The budgets the kernel requests: the total, and the work budget within it. *)
EXTENDS TurnClock

CONSTANTS total, work

MCParent == [b \in Budget |-> IF b = work THEN total ELSE Root]
MCSize   == [b \in Budget |-> IF b = work THEN 1 ELSE 2]
=============================================================================
