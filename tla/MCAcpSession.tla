---------------------------- MODULE MCAcpSession ----------------------------
(* A session for model checking: two runs, two prompts, two levels, each   *)
(* of which the host may pin. Levels have nothing to do with steers and    *)
(* little with calls: where a pin or the higher level is in play, there    *)
(* are no steers and one call.                                             *)
EXTENDS AcpSession

MCLevels == 1..2

LevelsPlay ==
  \/ prompt.pinned # 0 \/ prompt.level > Lowest
  \/ \E i \in DOMAIN turns : turns[i].level > Lowest
  \/ \E r \in Runs : \E l \in About(book.ledger[r] \o book.kept[r], "intake") : l > Lowest

Bound == LevelsPlay => steers = 0 /\ calls <= 1
=============================================================================
