---------------------------- MODULE MCCallLedger ----------------------------
(* Two calls that need approval and one that does not.                     *)
EXTENDS CallLedger, TLC

CONSTANTS pay, send, look

MCCall == {pay, send, look}
MCGated == {pay, send}
MCInspecting == {}
GatedSymmetry == Permutations({pay, send})
=============================================================================
