---------------------------- MODULE TurnDecision ----------------------------
(***************************************************************************)
(* The decision about a turn and the rules that make one hold together:    *)
(* turnclassification/turn_decision.go, active_goal.go, task_level.go and  *)
(* intake_normalization.go, intake/turn_decision_normalization.go and the  *)
(* part of intake/decision_planner.go and decision_questions.go that asks  *)
(* about a message and reads the answers back.  It has no state: Intake    *)
(* and the ACP session use it.                                             *)
(*                                                                         *)
(* A text is a model value or "", tools are the numbers of a catalog, the  *)
(* eight output formats are one yes or no, and the expected results are a  *)
(* sequence of records.  The names of routes, classes, shapes and levels   *)
(* come from the protocol library; only those the code names are here, and *)
(* "" stands for any name the library does not know.                       *)
(***************************************************************************)
EXTENDS Naturals, Sequences, SequencesExt, FiniteSets, Kept

-----------------------------------------------------------------------------
(* Names *)

WorkRoutes == {"start_task", "continue_task", "revise_task"}
Routes == WorkRoutes \union {"clarify", "answer_question", "answer_meta", "give_up"}
Classes == {"quick_reply", "bounded_task", "needs_confirmation", "unsupported"}
Shapes == {"immediate_reply", "research_task", "maintenance_task",
           "scheduled_task", "approval_gated_task"}
Kinds == {"none", "document", "presentation"}

\* orderedTaskLevels, smallest first.
LevelOrder == <<"xlow", "low", "medium", "high", "xhigh", "max">>
Levels == Range(LevelOrder)

\* turnclassification.TaskLevelRank: an unknown level ranks below every level.
TaskLevelRank(level) ==
    IF level \in Levels THEN CHOOSE i \in DOMAIN LevelOrder : LevelOrder[i] = level ELSE 0

\* turnclassification.LargerTaskLevel: a tie keeps the first.
LargerTaskLevel(first, second) ==
    IF TaskLevelRank(second) > TaskLevelRank(first) THEN second ELSE first

\* The protocol's Work: nothing to do, not to be done, not yet clear, or
\* work of one of three sizes.
Sizes == {"easy", "normal", "hard"}
Works == Sizes \union {"none", "impossible", "unclear"}

\* Work.TaskLevel, as DOCS.md and decision_planner.go use it.
LevelOfWork(work) ==
    CASE work = "easy" -> "low" [] work = "normal" -> "medium" [] OTHER -> "high"

-----------------------------------------------------------------------------
(* The decision *)

\* An expected result, whose hints may be any of the names.
Results(names) ==
    [type : STRING, about : SUBSET STRING, required : BOOLEAN, hints : SUBSET names]

\* turnclassification.TurnDecision.  "formats" and "language" are whether
\* any is named, "fallback" whether a malformed answer was routed around.
Blank == [route |-> "", class |-> "", shape |-> "", level |-> "", count |-> "",
          kind |-> "none", formats |-> FALSE, results |-> <<>>, tools |-> {},
          priorTask |-> "none", language |-> FALSE, independent |-> FALSE,
          question |-> "", options |-> <<>>, fallback |-> FALSE]

\* The decisions that name tools out of "names", in results that hint at any
\* of "hints", and the words a chat model may add.
Decisions(names, hints) ==
    [route : STRING, class : STRING, shape : STRING, level : STRING, count : STRING,
     kind : STRING, formats : BOOLEAN, results : Seq(Results(hints)), tools : SUBSET names,
     priorTask : STRING, language : BOOLEAN, independent : BOOLEAN,
     question : STRING, options : Seq([key : STRING, label : STRING]), fallback : BOOLEAN]
TurnWords(hints) ==
    [disposition : STRING, question : STRING, options : Seq([key : STRING, label : STRING]),
     results : Seq(Results(hints))]

\* An invalid decision: an error, in the place of a decision.
Invalid(why) == [Blank EXCEPT !.question = why, !.route = "invalid"]
IsInvalid(decision) == decision.route = "invalid"

\* turnRouteStartsWork.
StartsWork(decision) == decision.route \in WorkRoutes

\* turnRouteNeedsWords.
NeedsWords(decision) ==
    decision.route \in {"clarify", "answer_question", "answer_meta", "give_up"}

\* isClarificationReview.
IsClarificationReview(decision) ==
    decision.route = "clarify" \/ decision.class = "needs_confirmation"

\* isBareContinuation.
IsBareContinuation(decision) ==
    /\ decision.route = "continue_task"
    /\ <<decision.class, decision.shape, decision.level>> = <<"", "", "">>

-----------------------------------------------------------------------------
(* Expected results and clarification options *)

\* NormalizeExpectedResults and foldMessageResultsIntoTheReply: results that
\* say nothing or say the same again go, and every further message result
\* folds into the first.  What a result is about is a set of sentences.
NormalizeExpectedResults(results) ==
    LET Type(i) == IF results[i].type \in {"file", "link"} THEN results[i].type ELSE "message"
        Repeats(i) == \E j \in DOMAIN results :
                         j < i /\ Type(j) = Type(i) /\ results[j].about = results[i].about
        said == {i \in DOMAIN results : results[i].about # {} /\ ~Repeats(i)}
        replies == {i \in said : Type(i) = "message"}
        Folded(i) == IF i \in replies THEN replies ELSE {i}
        Whole(i) == [type |-> Type(i), about |-> UNION {results[j].about : j \in Folded(i)},
                     required |-> \E j \in Folded(i) : results[j].required,
                     hints |-> UNION {results[j].hints : j \in Folded(i)}]
    IN  Keep([i \in DOMAIN results |-> Whole(i)],
             {i \in said : \A j \in Folded(i) : i <= j})

\* clarificationOptionKey: past the alphabet every option is called O.
Letters == <<"A", "B", "C", "D", "E", "F", "G", "H", "I", "J", "K", "L", "M",
             "N", "O", "P", "Q", "R", "S", "T", "U", "V", "W", "X", "Y", "Z">>
Letter(i) == IF i \in DOMAIN Letters THEN Letters[i] ELSE "O"

\* normalizeClarificationOptions: an option without a label is dropped, one
\* without a key takes the letter of its place, a key met before drops the
\* option, at most "most" stay, and fewer than two are none.
NormalizeClarificationOptions(options, most) ==
    LET Key(i) == IF options[i].key = "" THEN Letter(i) ELSE options[i].key
        labelled == {i \in DOMAIN options : options[i].label # ""}
        usable == {i \in labelled : \A j \in labelled : j < i => Key(j) # Key(i)}
        kept == {i \in usable : Cardinality({j \in usable : j <= i}) <= most}
    IN  IF Cardinality(kept) < 2 THEN <<>>
        ELSE Keep([i \in DOMAIN options |-> [key |-> Key(i), label |-> options[i].label]], kept)

\* hasFileDeliverable.
HasFileDeliverable(decision) ==
    \/ decision.formats
    \/ \E result \in Range(NormalizeExpectedResults(decision.results)) :
          result.type = "file" /\ result.required

-----------------------------------------------------------------------------
(* Normalisation *)

\* removeFileDeliveryToolWithoutFileDeliverable.
WithoutIdleDelivery(decision, deliver) ==
    IF HasFileDeliverable(decision) THEN decision
    ELSE [decision EXCEPT !.tools = @ \ {deliver}]

\* liftFileDeliverableToBoundedTask: what makes a file is no quick reply.
LiftFileDeliverable(decision) ==
    IF /\ decision.class = "quick_reply"
       /\ HasFileDeliverable(decision) \/ decision.kind \in {"document", "presentation"}
    THEN [decision EXCEPT !.class = "bounded_task"]
    ELSE decision

\* liftBoundedImmediateReplyToMaintenance.
LiftImmediateReply(decision) ==
    IF decision.class = "bounded_task" /\ decision.shape = "immediate_reply"
    THEN [decision EXCEPT !.shape = "maintenance_task"]
    ELSE decision

\* normalizeDecidedWork.
NormalizeDecidedWork(decision, deliver) ==
    IF IsBareContinuation(decision) THEN decision
    ELSE IF decision.class \notin Classes THEN Invalid("classification")
    ELSE IF decision.shape \notin Shapes THEN Invalid("task shape")
    ELSE LiftImmediateReply(LiftFileDeliverable(WithoutIdleDelivery(decision, deliver)))

\* executableTurnRoute.
Executable(route) ==
    IF route \in {"continue_task", "revise_task"} THEN route ELSE "start_task"

\* answerableTurnRoute.
Answerable(route) == IF route \in {"clarify", "give_up"} THEN "answer_question" ELSE route

\* canonicalizeTurnDecision: the class has the last word on the route and,
\* but for work, on the shape.
Canonical(decision) ==
    CASE decision.class = "quick_reply" ->
            [decision EXCEPT !.route = Answerable(@), !.shape = "immediate_reply"]
      [] decision.class = "bounded_task" ->
            [decision EXCEPT !.route = Executable(@)]
      [] decision.class = "needs_confirmation" ->
            [decision EXCEPT !.route = "clarify", !.shape = "approval_gated_task"]
      [] decision.class = "unsupported" ->
            [decision EXCEPT !.route = "give_up", !.shape = "immediate_reply"]
      [] OTHER -> decision

\* normalizeDecidedExecution: canonicalise, then check the level, keep the
\* registered tools and settle the language.
NormalizeDecidedExecution(decision, request) ==
    LET canonical == Canonical(decision)
        spoken == [canonical EXCEPT !.language = @ \/ request.language]
    IN  IF IsBareContinuation(canonical) THEN spoken
        ELSE IF canonical.level \notin Levels THEN Invalid("task level")
        ELSE [spoken EXCEPT !.tools = @ \intersect request.registered]

\* Mutant: the class settles the route before a file makes work of a reply.
CanonicalFirst(decision, request) ==
    LET worked == NormalizeDecidedWork(Canonical(decision), request.deliver)
    IN  IF decision.route \notin Routes THEN Invalid("route")
        ELSE IF IsInvalid(worked) THEN worked
        ELSE IF worked.level \notin Levels /\ ~IsBareContinuation(worked) THEN Invalid("task level")
        ELSE [worked EXCEPT !.tools = @ \intersect request.registered,
                            !.language = @ \/ request.language]

\* normalizeDecidedTurnFields.
NormalizeDecidedTurnFields(decision, request) ==
    LET worked == NormalizeDecidedWork(decision, request.deliver)
    IN  IF decision.route \notin Routes THEN Invalid("route")
        ELSE IF IsInvalid(worked) THEN worked
        ELSE NormalizeDecidedExecution(worked, request)

\* normalizeTurnWords, with maximumClarificationOptionCount = 5.
NormalizeTurnWords(decision) ==
    [decision EXCEPT !.options = NormalizeClarificationOptions(@, 5),
                     !.results = NormalizeExpectedResults(@)]

\* normalizeTurnDecision.
NormalizeTurnDecision(decision, request) ==
    LET fields == NormalizeDecidedTurnFields(decision, request)
    IN  IF IsInvalid(fields) THEN fields ELSE NormalizeTurnWords(fields)

\* startClarifiedWork: the context answers the question the turn would ask.
StartClarifiedWork(decision) ==
    [decision EXCEPT !.route = "start_task", !.class = "bounded_task",
                     !.shape = "maintenance_task", !.question = "", !.options = <<>>]

\* handToAgentLoop: words that stay malformed never hold up the work.
HandToAgentLoop(decision) ==
    NormalizeTurnWords(
        IF StartsWork(decision) THEN [decision EXCEPT !.fallback = TRUE]
        ELSE [decision EXCEPT !.fallback = TRUE, !.route = "start_task",
                              !.class = "bounded_task", !.shape = "maintenance_task"])

\* validateClarificationQuestion: what words make a valid answer.
WordsAreValid(decision, words) ==
    \/ ~IsClarificationReview(decision)
    \/ words.disposition = "ask" /\ words.question # ""
    \/ words.disposition = "start_work" /\ words.question = "" /\ words.options = <<>>

\* TurnDecision.WithTurnWords.
WithTurnWords(decision, words) ==
    [decision EXCEPT !.question = words.question, !.options = words.options,
                     !.results = words.results]

-----------------------------------------------------------------------------
(* The questions about a message and the reading of the answers *)

\* questionBuilder.workQuestions.
WorkQuestions(request) ==
    {"count", "shape", "kind", "formats"}
        \union (IF request.goal THEN {"relation"} ELSE {})
        \union (IF request.priorTask THEN {"prior_task"} ELSE {})

\* questionBuilder.routerQuestions: a host that decided there is no work to
\* do, and named the language, leaves nothing to ask.
RouterQuestions(request) ==
    (IF request.language THEN {} ELSE {"language"})
        \union (IF request.decided = "" THEN {"work"} ELSE {})
        \union (IF request.decided \in {""} \union Sizes THEN WorkQuestions(request) ELSE {})

\* What a decision model may answer.  About the work it weighs two things:
\* whether there is any, and the likeliest of the three sizes.
AnswersTo(question) ==
    CASE question = "work" -> [lean : {"none", "impossible", "unclear", "work", "unknown"},
                               size : Sizes]
      [] question = "relation" -> WorkRoutes
      [] question = "count" -> {"one", "several"}
      [] question = "shape" -> Shapes \ {"immediate_reply"}
      [] question = "kind" -> Kinds
      [] question = "prior_task" -> {"none", "outcome_recovery"}
      [] OTHER -> {"yes", "no"}

\* isWorkKnownToExist: a firing is work, and so is what carries on a goal.
IsWorkKnownToExist(request, answers) ==
    \/ request.firing
    \/ /\ request.goal /\ "relation" \in DOMAIN answers
       /\ answers["relation"] # "start_task"

\* readDecidedWork.  ReadDoableWork reads the size whatever the answer leans
\* to, ReadWork only where it leans to work.
ReadDecidedWork(request, answers) ==
    IF request.decided # "" THEN request.decided
    ELSE IF "work" \notin DOMAIN answers THEN "unanswered"
    ELSE IF IsWorkKnownToExist(request, answers) \/ answers["work"].lean = "work"
    THEN answers["work"].size
    ELSE answers["work"].lean

\* wordsTurn and clarificationTurn.
WordsTurn(work) ==
    LET named == CASE work = "none" -> <<"answer_question", "quick_reply", "immediate_reply">>
                   [] work = "impossible" -> <<"give_up", "unsupported", "immediate_reply">>
                   [] OTHER -> <<"clarify", "needs_confirmation", "approval_gated_task">>
    IN  [Blank EXCEPT !.route = named[1], !.class = named[2], !.shape = named[3],
                      !.level = "low", !.count = "none"]

\* readWorkTurn and workRoute: any of these left unanswered is an error.
ReadWorkTurn(request, work, answers) ==
    LET Needed == {"count", "shape", "kind", "formats"}
                      \union (IF request.goal THEN {"relation"} ELSE {})
                      \union (IF request.priorTask THEN {"prior_task"} ELSE {})
    IN  IF ~(Needed \subseteq DOMAIN answers)
        THEN Invalid("unanswered")
        ELSE [Blank EXCEPT
                !.route = IF request.goal THEN answers["relation"] ELSE "start_task",
                !.class = "bounded_task", !.independent = TRUE,
                !.count = answers["count"], !.shape = answers["shape"],
                !.level = LevelOfWork(work), !.kind = answers["kind"],
                !.priorTask = IF request.priorTask THEN answers["prior_task"] ELSE "none",
                !.formats = answers["formats"] = "yes"]

\* readTurnFields and readResponseLanguage.
ReadTurnFields(request, answers) ==
    LET work == ReadDecidedWork(request, answers)
        read == IF work \in Sizes THEN ReadWorkTurn(request, work, answers) ELSE WordsTurn(work)
    IN  IF work \in {"unknown", "unanswered"} THEN Invalid(work)
        ELSE IF ~request.language /\ "language" \notin DOMAIN answers THEN Invalid("unanswered")
        ELSE IF IsInvalid(read) THEN read
        ELSE [read EXCEPT !.language = ~request.language]
=============================================================================
