---------------------------- MODULE ActiveBudget ----------------------------
(***************************************************************************)
(* What the turn clock promises, without timers, goroutines or a list of   *)
(* pauses: active time runs only while nobody holds the clock, a budget    *)
(* ends once, and it ends with a deadline only when what it granted is     *)
(* used or the context it was derived from ended with one.                 *)
(***************************************************************************)
EXTENDS Naturals

CONSTANTS Budget, Pauser, Root, parent, size

VARIABLES used,     \* used[b]: the active time since the budget's start
          holding,  \* the calls that hold the clock
          open,     \* the budgets that were requested
          end       \* how a budget, or the caller's context, ended

vars == <<used, holding, open, end>>

Init ==
  /\ used = [b \in Budget |-> 0]
  /\ holding = {}
  /\ open = {}
  /\ end = [c \in Budget \cup {Root} |-> "nil"]

\* The start of a budget may lie in the past: it opens with part of it used.
Open(b) ==
  /\ b \notin open
  /\ open' = open \cup {b}
  /\ used'[b] \in Nat /\ used' = [used EXCEPT ![b] = used'[b]]
  /\ UNCHANGED <<holding, end>>

\* Time passes for every open budget alike, and for none while the clock is held.
Run ==
  /\ holding = {}
  /\ used' = [b \in Budget |-> IF b \in open THEN used[b] + 1 ELSE used[b]]
  /\ UNCHANGED <<holding, open, end>>

Hold(p) == p \notin holding /\ holding' = holding \cup {p} /\ UNCHANGED <<used, open, end>>
Release(p) == p \in holding /\ holding' = holding \ {p} /\ UNCHANGED <<used, open, end>>

MayEnd(b, how) ==
  \/ how = "canceled" /\ b \in open
  \/ how = "deadline" /\ b \in open /\ used[b] >= size[b]
  \/ how = end[parent[b]] /\ how # "nil"

End(b, how) ==
  /\ end[b] = "nil" /\ MayEnd(b, how)
  /\ end' = [end EXCEPT ![b] = how]
  /\ UNCHANGED <<used, holding, open>>

CallerEnds(how) ==
  /\ end[Root] = "nil"
  /\ end' = [end EXCEPT ![Root] = how]
  /\ UNCHANGED <<used, holding, open>>

Next ==
  \/ Run
  \/ \E p \in Pauser : Hold(p) \/ Release(p)
  \/ \E b \in Budget : Open(b)
  \/ \E b \in Budget, how \in {"deadline", "canceled"} : End(b, how)
  \/ \E how \in {"deadline", "canceled"} : CallerEnds(how)

Spec == Init /\ [][Next]_vars
=============================================================================
