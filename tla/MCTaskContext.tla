--------------------------- MODULE MCTaskContext ---------------------------
(* TaskContext on a small instance: two messages alike and a last one.      *)
EXTENDS TaskContext

MCTalk == <<"a", "a", "b">>
MCResumes == {"paused", "restarted"}
=============================================================================
