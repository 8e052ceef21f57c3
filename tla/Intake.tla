------------------------------- MODULE Intake -------------------------------
(***************************************************************************)
(* How a turn is planned before it runs: PlanObserved of                   *)
(* intake/turn_router.go, Decide and SelectToolNames of                    *)
(* intake/decision_planner.go and tool_selection_call.go, and the patience *)
(* of model_call_patience.go.  TurnDecision holds what is asked and how    *)
(* the answers are read, ToolSelection how the catalog is split.           *)
(*                                                                         *)
(* Decision calls run at once, a few at a time, under a context that the   *)
(* first failure cancels; a call may be cut at the measured patience and   *)
(* asked again; the caller may go away at any moment.  Then a chat model   *)
(* writes the words a route needs, and may answer out of shape.            *)
(*                                                                         *)
(* One message is planned, as PlanObserved hands one over; Decide's bursts *)
(* are left out.  So are the wording of the prompts, the records of the    *)
(* calls, and the description of pictures, whose failure is ignored.       *)
(***************************************************************************)
EXTENDS TurnDecision, ToolSelection

CONSTANTS
    Turns,              \* what may be asked
    WordSets,           \* the words a chat model may write
    MaxConcurrent       \* maxConcurrentDecisionRequestCount

ASSUME ConcurrencyAssumption == MaxConcurrent \in Nat \ {0}

\* A turn to plan, whose decision may have been handed over, or a need for tools.
TurnsToPlan ==
    [entry : {"turn", "need"}, routing : {"exact", "given", "none"}, given : Decisions(Nat, Nat),
     request : [decided : {""} \union Works, goal : BOOLEAN, priorTask : BOOLEAN,
                firing : BOOLEAN, language : BOOLEAN, registered : SUBSET Nat, deliver : Nat],
     catalog : Seq([bytes : Nat, provider : Nat]), missing : SUBSET {"router", "planner", "chat"},
     limit : Nat]

ASSUME TurnsAssumption == Turns \subseteq TurnsToPlan /\ WordSets \subseteq TurnWords(Nat)

VARIABLES
    turn,       \* what is asked: a turn to plan, or a need for tools
    at,         \* how far it is
    live,       \* the caller's context lives
    failed,     \* a call failed, which cancels the others
    calls,      \* the decision calls: what each asks, how far it is
    measured,   \* which models have a latency on record
    omitted,    \* the decision model left a question unanswered
    decision,   \* the decision so far; tools alone for a need
    words,      \* the words call: "none", "asked", "again"
    limited,    \* the words call runs under the measured patience
    corrected,  \* the words are being asked a second time, with a correction
    error       \* why planning failed, or ""

intakeVars == <<turn, at, live, failed, calls, measured, omitted, decision,
          words, limited, corrected, error>>
wordsVars == <<words, limited, corrected>>

Phases == {"plan", "deciding", "selecting", "wording", "done"}
InFlight == {"asked", "again"}
CallStates == InFlight \union {"queued", "answered", "failed", "cancelled"}

IntakeTypeOK ==
    /\ at \in Phases
    /\ {live, failed, omitted, limited, corrected} \subseteq BOOLEAN
    /\ measured \subseteq {"decision", "words"}
    /\ \A i \in DOMAIN calls : calls[i].state \in CallStates /\ calls[i].limited \in BOOLEAN
    /\ decision \in Decisions(Nat, Nat)
    /\ words \in InFlight \union {"none"}
    /\ error # "" => at = "done"

IntakeInit ==
    /\ turn \in Turns
    /\ at = "plan" /\ live = TRUE /\ failed = FALSE /\ calls = <<>>
    /\ measured \in SUBSET {"decision", "words"}
    /\ turn.entry = "need" => "words" \notin measured
    /\ omitted = FALSE /\ decision = Blank
    /\ words = "none" /\ limited = FALSE /\ corrected = FALSE
    /\ error = ""

-----------------------------------------------------------------------------
(* Ending *)

\* The planning returns an error.
Refuse(why) ==
    /\ at' = "done" /\ error' = why
    /\ UNCHANGED decision

\* The planning returns a decision.
Decided(d) ==
    /\ at' = "done" /\ decision' = d
    /\ UNCHANGED error

-----------------------------------------------------------------------------
(* The decision calls *)

Queued(asks) == [asks |-> asks, state |-> "queued", limited |-> FALSE]

\* requestsWithQuestions: a request that asks nothing is not made.
Requests(askings) == [i \in DOMAIN askings |-> Queued(askings[i])]

\* The context of the decision calls: the caller's, until one of them fails.
CallsLive == live /\ ~failed

Move(i, state) == calls' = [calls EXCEPT ![i].state = state]

Calling == at \in {"deciding", "selecting"}

\* A goroutine of decideEveryRequest takes a slot and asks, under the measured
\* patience if there is one; after a failure it does not ask at all.
Send(i) ==
    /\ Calling /\ calls[i].state = "queued"
    /\ Cardinality({j \in DOMAIN calls : calls[j].state \in InFlight}) < MaxConcurrent
    /\ calls' = IF CallsLive
                THEN [calls EXCEPT ![i].state = "asked",
                                   ![i].limited = "decision" \in measured]
                ELSE [calls EXCEPT ![i].state = "cancelled"]
    /\ UNCHANGED <<turn, at, live, failed, measured, omitted, decision, wordsVars, error>>

\* The decision model answers, and its latency is recorded.
Answer(i) ==
    /\ Calling /\ calls[i].state \in InFlight
    /\ Move(i, "answered")
    /\ measured' = measured \union {"decision"}
    /\ UNCHANGED <<turn, at, live, failed, omitted, decision, wordsVars, error>>

\* The call fails of itself and cancels the ones still running.
Fail(i) ==
    /\ Calling /\ calls[i].state \in InFlight
    /\ Move(i, "failed")
    /\ failed' = TRUE
    /\ UNCHANGED <<turn, at, live, measured, omitted, decision, wordsVars, error>>

\* The call returns because its context ended.
Abandon(i) ==
    /\ Calling /\ calls[i].state \in InFlight /\ ~CallsLive
    /\ Move(i, "cancelled")
    /\ failed' = TRUE
    /\ UNCHANGED <<turn, at, live, measured, omitted, decision, wordsVars, error>>

\* askPatiently: the measured patience runs out while the caller still waits,
\* and the same question is asked again, without a limit.
Cut(i) ==
    /\ Calling /\ calls[i].state = "asked" /\ calls[i].limited /\ CallsLive
    /\ Move(i, "again")
    /\ UNCHANGED <<turn, at, live, failed, measured, omitted, decision, wordsVars, error>>

Settled == \A i \in DOMAIN calls : calls[i].state \in {"answered", "failed", "cancelled"}

\* firstCallError: the first call in order that did not answer, whichever
\* failed first.
FirstCallError ==
    LET bad == {i \in DOMAIN calls : calls[i].state # "answered"}
    IN  IF bad = {} THEN ""
        ELSE IF calls[Min(bad)].state = "failed" THEN "failed" ELSE "cancelled"

-----------------------------------------------------------------------------
(* Planning *)

\* PlanObserved: a decision handed over is taken as it stands or normalised;
\* else the decision model is asked, if there is one.
Plan ==
    /\ at = "plan" /\ turn.entry = "turn"
    /\ LET given == NormalizeTurnDecision(turn.given, turn.request)
       IN  \/ /\ turn.routing = "exact" /\ Decided(turn.given) /\ UNCHANGED calls
           \/ /\ turn.routing = "given"
              /\ IF IsInvalid(given) THEN Refuse(given.question) ELSE Decided(given)
              /\ UNCHANGED calls
           \/ /\ turn.routing = "none" /\ "router" \notin turn.missing
              /\ "planner" \notin turn.missing
              /\ at' = "deciding"
              /\ calls' = LET asks == RouterQuestions(turn.request)
                          IN  IF asks = {} THEN <<>> ELSE Requests(<<asks>>)
              /\ UNCHANGED <<decision, error>>
           \/ /\ turn.routing = "none" /\ turn.missing \intersect {"router", "planner"} # {}
              /\ Refuse("unavailable") /\ UNCHANGED calls
    /\ UNCHANGED <<turn, live, failed, measured, omitted, wordsVars>>

\* The questions of the selection: every tool over the batches, or one choice
\* among them all.
Selection(count) ==
    IF turn.catalog = <<>> THEN <<>>
    ELSE IF count = "one" THEN <<DOMAIN turn.catalog>>
    ELSE PlanToolSelection(turn.catalog)

\* readDecisions and the first half of withLikelyTools: the merged answers are
\* read, and a decision that starts work has its tools selected.
ReadDecisions ==
    /\ at = "deciding" /\ Settled
    /\ LET asked == RouterQuestions(turn.request)
           Skipped == {{}} \union {{question} : question \in asked}
           Answers(q) == IF q \in asked THEN AnswersTo(q) ELSE {"unasked"}
       IN  IF FirstCallError # "" THEN Refuse(FirstCallError) /\ UNCHANGED <<calls, failed, omitted>>
           ELSE \E skipped \in Skipped,
                   work \in Answers("work"), relation \in Answers("relation"),
                   count \in Answers("count"), shape \in Answers("shape"),
                   kind \in Answers("kind"), prior \in Answers("prior_task"),
                   formats \in Answers("formats") :
                LET answers == [q \in asked \ skipped |->
                                  CASE q = "work" -> work [] q = "relation" -> relation
                                    [] q = "count" -> count [] q = "shape" -> shape
                                    [] q = "kind" -> kind [] q = "prior_task" -> prior
                                    [] q = "formats" -> formats [] OTHER -> "yes"]
                    read == ReadTurnFields(turn.request, answers)
                    asks == IF StartsWork(Canonical(read)) THEN Selection(read.count) ELSE <<>>
                IN  /\ omitted' = (skipped # {})
                    /\ IF IsInvalid(read) THEN Refuse(read.question) /\ UNCHANGED <<calls, failed>>
                       ELSE /\ at' = "selecting" /\ decision' = read
                            /\ calls' = Requests(asks) /\ failed' = FALSE
                            /\ UNCHANGED error
    /\ UNCHANGED <<turn, live, measured, wordsVars>>

\* SelectToolNames: a need described in the middle of a turn.
PlanNeed ==
    /\ at = "plan" /\ turn.entry = "need"
    /\ \/ /\ "planner" \in turn.missing /\ Refuse("unavailable") /\ UNCHANGED calls
       \/ /\ "planner" \notin turn.missing
          /\ at' = "selecting" /\ calls' = Requests(Selection("several"))
          /\ UNCHANGED <<decision, error>>
    /\ UNCHANGED <<turn, live, failed, measured, omitted, wordsVars>>

\* What a decision model may think of the tools, in hundredths: coarse steps
\* that fall on both sides of every limit.
Probabilities == {0, Floor, Threshold, 60}

\* Mutant: the calls that answered are used although another failed.
PartialTools(tools) == IF calls = <<>> THEN {} ELSE tools

\* likelyToolNamesByMessageKey, likelyToolNamesByShape: tools only when every
\* call answered.
SelectedTools(tools) == IF calls = <<>> \/ FirstCallError # "" THEN {} ELSE tools

\* What the selection's calls can come to: each speaks of the tools it asked,
\* and a choice shares one belief among them.
ToolAnswers(count) ==
    LET answered == UNION {calls[i].asks : i \in {j \in DOMAIN calls : calls[j].state = "answered"}}
        Possible == [answered -> Probabilities]
        Shared == {p \in Possible : FoldSet(LAMBDA tool, sum : sum + p[tool], 0, answered) <= 100}
        limit == CountLimit(turn.limit)
    IN  IF count = "one"
        THEN UNION {CoveringBelief(belief, limit) : belief \in Shared}
        ELSE {SelectLikely(p, limit) : p \in Possible}

\* What the words call is asked to do: turnWordsShapeFor.
WantsWords(d) == IsClarificationReview(d) \/ NeedsWords(d) \/ StartsWork(d)

\* The rest of withLikelyTools, then PlanObserved up to the words call: the
\* decided fields are normalised, and a route that needs words asks for them.
ReadSelection ==
    /\ at = "selecting" /\ turn.entry = "turn" /\ Settled
    /\ \E tools \in ToolAnswers(decision.count) :
         LET fields == NormalizeDecidedTurnFields(
                          [decision EXCEPT !.tools = SelectedTools(tools)], turn.request)
         IN  IF IsInvalid(fields) THEN Refuse(fields.question) /\ UNCHANGED wordsVars
             ELSE IF ~WantsWords(fields)
             THEN Decided(NormalizeTurnWords(fields)) /\ UNCHANGED wordsVars
             ELSE IF "chat" \in turn.missing
             THEN Refuse("unavailable") /\ UNCHANGED wordsVars
             ELSE /\ at' = "wording" /\ decision' = fields
                  /\ words' = "asked" /\ limited' = ("words" \in measured)
                  /\ UNCHANGED <<corrected, error>>
    /\ UNCHANGED <<turn, live, failed, calls, measured, omitted>>

\* The end of SelectToolNames: a selection that failed is an error.
ReadNeed ==
    /\ at = "selecting" /\ turn.entry = "need" /\ Settled
    /\ \E tools \in ToolAnswers("several") :
         IF FirstCallError # "" THEN Refuse(FirstCallError)
         ELSE Decided([decision EXCEPT !.tools = SelectedTools(tools)])
    /\ UNCHANGED <<turn, live, failed, calls, measured, omitted, wordsVars>>

-----------------------------------------------------------------------------
(* The words *)

\* generateTurnWords answers with words that keep the contract.
WordsArrive ==
    /\ at = "wording"
    /\ \E written \in WordSets :
         /\ WordsAreValid(decision, written)
         /\ LET worded == WithTurnWords(decision, written)
                starts == /\ IsClarificationReview(decision)
                          /\ written.disposition = "start_work"
            IN  Decided(NormalizeTurnWords(IF starts THEN StartClarifiedWork(worded) ELSE worded))
    /\ measured' = measured \union {"words"}
    /\ words' = "none"
    /\ UNCHANGED <<turn, live, failed, calls, omitted, limited, corrected>>

\* The answer is no object of the schema or breaks the clarification contract.
\* It is corrected once; then the turn goes to the agent loop with what was
\* decided.  To a caller that left it is an error.
WordsMalformed ==
    /\ at = "wording"
    /\ measured' \in {measured, measured \union {"words"}}
    /\ IF live /\ ~corrected
       THEN /\ corrected' = TRUE /\ words' = "asked" /\ limited' = ("words" \in measured')
            /\ UNCHANGED <<at, decision, error>>
       ELSE /\ words' = "none" /\ UNCHANGED <<limited, corrected>>
            /\ IF live THEN Decided(HandToAgentLoop(decision)) ELSE Refuse("malformed")
    /\ UNCHANGED <<turn, live, failed, calls, omitted>>

\* The measured patience runs out while the caller still waits.
WordsCut ==
    /\ at = "wording" /\ words = "asked" /\ limited /\ live
    /\ words' = "again"
    /\ UNCHANGED <<turn, at, live, failed, calls, measured, omitted, decision,
                   limited, corrected, error>>

\* The chat model cannot answer, or the caller is gone.
WordsFail ==
    /\ at = "wording"
    /\ Refuse(IF live THEN "failed" ELSE "cancelled")
    /\ words' = "none"
    /\ UNCHANGED <<turn, live, failed, calls, measured, omitted, limited, corrected>>

\* The caller cancels the planning, or its deadline passes.
CallerLeaves ==
    /\ at # "done" /\ live
    /\ live' = FALSE
    /\ UNCHANGED <<turn, at, failed, calls, measured, omitted, decision, wordsVars, error>>

IntakeNext ==
    \/ Plan \/ PlanNeed \/ ReadDecisions \/ ReadSelection \/ ReadNeed
    \/ \E i \in DOMAIN calls : Send(i) \/ Answer(i) \/ Fail(i) \/ Abandon(i) \/ Cut(i)
    \/ WordsArrive \/ WordsMalformed \/ WordsCut \/ WordsFail
    \/ CallerLeaves

IntakeSpec == IntakeInit /\ [][IntakeNext]_intakeVars

-----------------------------------------------------------------------------
(* Properties *)

\* Tools picked for a turn or a need come of a whole selection: every call
\* answered, every tool of the catalog was asked about exactly once, and no
\* more are picked than may be exposed.  A failed, cut or cancelled batch
\* leaves no tool picked from the batches that did answer.
SelectionIsWhole ==
    at \in {"wording", "done"} /\ turn.routing = "none" /\ decision.tools # {} =>
        /\ \A i \in DOMAIN calls : calls[i].state = "answered"
        /\ \A tool \in DOMAIN turn.catalog :
              Cardinality({i \in DOMAIN calls : tool \in calls[i].asks}) = 1
        /\ Cardinality(decision.tools) <= CountLimit(turn.limit)

\* If every tool fits a request of its own, every request of a selection that
\* asks about each tool fits the byte budget, however the catalog is split.
FitsWhenItCan ==
    /\ at = "selecting" /\ decision.count # "one"
    /\ \A tool \in DOMAIN turn.catalog : RequestBytes(turn.catalog, {tool}) <= ByteBudget
    => \A i \in DOMAIN calls : RequestBytes(turn.catalog, calls[i].asks) <= ByteBudget

\* The reader never misses an answer to a question that was not asked: planning
\* fails for want of an answer only if the model left out one it was asked.
AsksWhatItReads == error = "unanswered" => omitted

\* A decision handed to the loop holds together: normalising it again changes
\* nothing, a clarification carries its question, words that stayed malformed
\* end in work, and planned work is bounded work.
DecisionHoldsTogether ==
    at = "done" /\ error = "" /\ turn.entry = "turn" /\ turn.routing # "exact" =>
        LET said == IF turn.routing = "none" THEN [decision EXCEPT !.results = <<>>] ELSE decision
        IN  /\ NormalizeTurnDecision(said, turn.request) = said
            /\ turn.routing = "none" =>
                  /\ decision.fallback => StartsWork(decision)
                  /\ StartsWork(decision) <=> decision.class = "bounded_task"
                  /\ IsClarificationReview(decision) => decision.question # ""

\* A call that outlived its measured patience is never why planning fails or
\* loses its tools: calls are cancelled only when the caller left or another
\* call failed of itself.
CutIsNotAFailure ==
    Calling /\ (\E i \in DOMAIN calls : calls[i].state = "cancelled") =>
        ~live \/ (\E i \in DOMAIN calls : calls[i].state = "failed")

\* A selection split over several requests picks like one request that asked of
\* every tool: whole, in requests the provider takes (toolSelectionRequests), and
\* never less for a call that was cut (askPatiently).
SelectionHolds == IntakeTypeOK /\ SelectionIsWhole /\ FitsWhenItCan /\ CutIsNotAFailure

\* The decision is read from what was asked, and what is handed on agrees with
\* itself (readTurnFields, normalizeTurnDecision).
DecisionHolds == AsksWhatItReads /\ DecisionHoldsTogether
=============================================================================
