-------------------------- MODULE ApprovalPromise --------------------------
(***************************************************************************)
(* What an approval promises the person who gives it, without ledgers,     *)
(* records on their way or restarts: a call that needs one runs only if    *)
(* the last word about it was yes, it runs once, and it is the call that   *)
(* was shown.                                                              *)
(***************************************************************************)
EXTENDS Sequences

CONSTANTS Question, Call, Gated, NoCall

VARIABLES asked,    \* asked[q]: the call a person was shown under question q
          verdict,  \* verdict[q]: the person's last word on it
          ran,      \* ran[q]: what ran under it
          unasked   \* the calls that ran and nobody was asked about

vars == <<asked, verdict, ran, unasked>>

Init ==
  /\ asked = [q \in Question |-> NoCall]
  /\ verdict = [q \in Question |-> "none"]
  /\ ran = [q \in Question |-> <<>>]
  /\ unasked = {}

Ask(q, c) ==
  /\ asked[q] = NoCall /\ c \in Gated
  /\ asked' = [asked EXCEPT ![q] = c]
  /\ UNCHANGED <<verdict, ran, unasked>>

\* A person may be asked again and change their mind, until the call has run.
Say(q, v) ==
  /\ asked[q] # NoCall /\ ran[q] = <<>>
  /\ verdict' = [verdict EXCEPT ![q] = v]
  /\ UNCHANGED <<asked, ran, unasked>>

Run(q) ==
  /\ verdict[q] = "approved" /\ ran[q] = <<>>
  /\ ran' = [ran EXCEPT ![q] = <<asked[q]>>]
  /\ UNCHANGED <<asked, verdict, unasked>>

RunUnasked(c) ==
  /\ c \notin Gated
  /\ unasked' = unasked \cup {c}
  /\ UNCHANGED <<asked, verdict, ran>>

Next ==
  \/ \E q \in Question, c \in Call : Ask(q, c)
  \/ \E q \in Question, v \in {"approved", "rejected"} : Say(q, v)
  \/ \E q \in Question : Run(q)
  \/ \E c \in Call : RunUnasked(c)

Spec == Init /\ [][Next]_vars
=============================================================================
