-------------------------------- MODULE Kept --------------------------------
(* What the loops that filter a turn's records leave of a sequence: in the  *)
(* windows of the completion gate and in the cuts of a compaction.          *)
EXTENDS Naturals, FiniteSets, Sequences

\* The entries of s at the indexes that are kept, in order.
Keep(s, kept) ==
  LET Rank(i) == Cardinality({j \in kept : j <= i})
  IN  [k \in 1 .. Cardinality(kept) |-> s[CHOOSE i \in kept : Rank(i) = k]]
=============================================================================
