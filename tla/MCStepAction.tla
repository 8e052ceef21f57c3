---------------------------- MODULE MCStepAction ----------------------------
(***************************************************************************)
(* A small host for StepAction: three kernel tools (plan, equip and a      *)
(* read), four of its own, of which three fit, a skill that owns one of    *)
(* them, and a model that answers with the batches that matter.            *)
(***************************************************************************)
EXTENDS StepAction

MCBuiltIn == <<"plan", "equip", "read">>
MCCallable == <<"plan", "equip", "read", "build", "send", "fetch", "mend">>
MCSkills == <<"mailing">>
MCSkillTools == [skill \in {"mailing"} |-> <<"send">>]
MCChanging == {"build", "send"}

\* What the requests share: nothing asked for but the two steps' tools.
Plain ==
    [pinned |-> <<"build">>, likely |-> <<"build">>, required |-> <<>>, evidence |-> <<>>,
     anyOf |-> <<>>, pins |-> <<>>, chosen |-> {}, files |-> <<>>, sends |-> <<>>,
     immediate |-> FALSE, arbitrated |-> FALSE, plans |-> TRUE, delegates |-> FALSE, short |-> FALSE]

\* A request in free words; one whose contract asks for two tools in order; one
\* that may delegate, on very small limits.
MCRequests ==
    {[Plain EXCEPT !.pins = <<"mailing">>],
     [Plain EXCEPT !.pinned = <<"build", "mend">>, !.required = <<"fetch", "send">>,
                   !.sends = <<"send">>],
     [Plain EXCEPT !.delegates = TRUE, !.short = TRUE, !.plans = FALSE]}

MCAnswers ==
    {<<<<"plan", 1>>, <<"build", 1>>>>,
     <<<<"equip", 1>>, <<"build", 1>>, <<"build", 1>>>>,
     <<<<"fetch", 1>>, <<"reply", 1>>, <<"send", 1>>>>}

MCShortlists == {<<>>, <<"fetch">>}
MCNamed == {<<"fetch">>}
MCFinds == {<<"send">>}
MCHints == {<<>>, <<"mend">>}
MCTitles == {"first", "second"}
=============================================================================
