-------------------------- MODULE MCCompletionGate --------------------------
(* Two changes, one held in a field that one of the calls writes.          *)
EXTENDS CompletionGate

MCFieldOf == [c \in Change |-> IF c = "rename" THEN "name" ELSE "date"]
MCWrites == [c \in Recording |-> IF c = "update" THEN {"name"} ELSE {}]
=============================================================================
