--------------------------- MODULE MCReplyDelivery ---------------------------
(***************************************************************************)
(* ReplyDelivery with two files, only one of them in a format that is      *)
(* looked at, and two messages beside the silent reply that only brings    *)
(* files: three a turn could send, one more than it may.                   *)
(***************************************************************************)
EXTENDS ReplyDelivery

\* A turn with a channel that may speak as it works, and one with neither.
MCRequests == {[channel |-> TRUE, single |-> FALSE], [channel |-> FALSE, single |-> TRUE]}

\* Messages are only compared.
MCSymmetry == Permutations(Message)

\* No step reads what was posted without a note: where there is some, no file changes.
Bound == (\E f \in File : "unnoted" \in posted[f]) => \A f \in File : disk[f].v = 0
=============================================================================
