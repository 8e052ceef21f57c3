----------------------------- MODULE StepAction -----------------------------
(***************************************************************************)
(* A step of the turn: what the model is offered, what it answers, how the *)
(* answer is read, and the calls it asks for beside the first.  It models  *)
(* requestForStep, the plan of loop/plan.go, DecideAgentAction with its    *)
(* corrections, decideActionPatiently, the queue of a response's calls     *)
(* (loop/batch_drop.go, turn_action_document.go) and the part of RunTurn   *)
(* and handleToolCallAction that ties them.                                *)
(*                                                                         *)
(* Left out: what a call does to the world (CallLedger, Recovery), the     *)
(* gate a final reply passes (CompletionGate, ReplyDelivery), the clock    *)
(* (TurnRunner) and the words of the records.  What a call is answered,    *)
(* why it is refused and whether a success settles the active failure are  *)
(* choices here.  The budget's stage moves forward at will; the grant that *)
(* takes it back is TurnRunner's.  ShouldRestrictNextActionToTerminal is   *)
(* set nowhere and so left out.                                            *)
(***************************************************************************)
EXTENDS ToolExposure

CONSTANTS
    Requests,       \* the requests a turn may be handed
    Answers,        \* the calls a model may put in one response, sequences
    Shortlists,     \* what the tool selector may name for a plan's step
    Finds,          \* what equip may name
    Hints,          \* the recovery tools a failure may hint
    Titles,         \* the titles of a plan's steps
    ChangingTools,  \* the tools whose definition says they change state
    PlanTool,       \* PlanToolName
    MaxSteps,       \* bound: the iterations of a turn
    MaxCorrections, \* maximumAgentActionCorrectionCount
    MaxUnread,      \* maximumConsecutiveUnreadableActionCount
    MaxRestarts     \* bound: how often the process comes back

ASSUME StepAssumption ==
    /\ MaxSteps \in Nat /\ MaxCorrections \in Nat /\ MaxUnread \in Nat \ {0} /\ MaxRestarts \in Nat
    /\ \A calls \in Answers : Len(calls) \in Nat /\ DOMAIN calls = 1..Len(calls)

\* What the code leaves empty: no step of a plan, no tool, no pressure yet.
NoTitle == "untitled"
NoTool == "no_tool"
Early == "early"
Stages == {Early, "wrap_up", "narrow"}

VARIABLES
    request,    \* the AgentTurnRequest
    records,    \* state.Observations
    debt,       \* the active failure debt: whether one is owed, and its hints
    active,     \* the title of the plan's step in progress
    planned,    \* len(state.ExecutionState.Steps) > 0
    stepTitle,  \* state.ActivePlanStepTitle
    stepTools,  \* state.PlanStepToolNames
    selection,  \* the ledger's last step selection that names tools
    nudged,     \* state.DidNudgePlan
    cache,      \* state.StepExposure: its key and its tools
    queue,      \* state.PendingBatchedActions
    queueTools, \* state.PendingBatchedToolNames
    stage,      \* limitPressureStageFor, as of the last step
    warned,     \* limitPressureWarnings
    pc,         \* "head", "asking", "acting" or "ended"
    offered,    \* iterationRequest.ToolSet
    menu,       \* the tools of the chat request: offered, unless narrowed by a correction
    corrections,\* correctionCount of decideAgentActionWithChat
    patient,    \* the call may still be cut and asked again
    unread,     \* consecutiveUnreadableActionCount
    call,       \* the action being handled
    batch,      \* its BatchedActions
    step,       \* iteration
    answers,    \* how many responses named calls
    restarts,   \* how often the process came back
    open,       \* history: the calls the model named and nobody handled
    behind,     \* history: those behind the first of their response that no batch takes
    swept,      \* history: those that waited when their process or their turn went
    shortOf     \* the step whose shortlist stepTools is

vars == <<request, records, debt, active, planned, stepTitle, stepTools, selection, nudged, cache,
          queue, queueTools, stage, warned, pc, offered, menu, corrections, patient, unread, call,
          batch, step, answers, restarts, open, behind, swept, shortOf>>
planVars == <<active, planned, stepTitle, stepTools, selection, shortOf>>
askVars == <<offered, menu, corrections, patient>>
queueVars == <<queue, queueTools>>
named == <<answers, open, behind, swept>>

NoDebt == [owed |-> FALSE, hints |-> <<>>]
Owed(hints) == [owed |-> TRUE, hints |-> hints]
NoCall == [tool |-> NoTool, input |-> 0, id |-> <<0, 0>>]
NoCache == [key |-> <<>>, tools |-> {}]

\* The records of a turn: a call the host answered, a note of the runtime
\* ("policy"), a spent recovery ("exhausted") and the calls that were not run.
\* "of" is the response the call came in, "calls" the calls a record says were
\* not run.  Records that name no tool and stop no batch (replies, delegations,
\* unreadable answers, the warning of the budget) are left out.
Record(kind, tool, failed) ==
    [kind |-> kind, tool |-> tool, failed |-> failed, repeats |-> FALSE, found |-> <<>>,
     hints |-> <<>>, of |-> 0, calls |-> {}]

Init ==
    /\ request \in Requests
    /\ records = <<>> /\ debt = NoDebt /\ active = NoTitle /\ planned = FALSE
    /\ stepTitle = NoTitle /\ stepTools = <<>> /\ selection = [title |-> NoTitle, tools |-> <<>>]
    /\ nudged = FALSE /\ cache = NoCache /\ queue = <<>> /\ queueTools = {}
    /\ stage = Early /\ warned = {} /\ pc = "head" /\ offered = {} /\ menu = {}
    /\ corrections = 0 /\ patient = TRUE /\ unread = 0 /\ call = NoCall /\ batch = <<>>
    /\ step = 0 /\ answers = 0 /\ restarts = 0
    /\ open = {} /\ behind = {} /\ swept = {} /\ shortOf = NoTitle

-----------------------------------------------------------------------------
(* The calls of one response *)

IDs(calls) == {calls[k].id : k \in DOMAIN calls}
SameCall(one, other) == one.tool = other.tool /\ one.input = other.input

\* batchStopReason: the last record is a note, a failure or a repetition.
BatchStops(seen) ==
    seen # <<>> /\ (Last(seen).kind = "policy" \/ Last(seen).failed \/ Last(seen).repeats)

\* withoutRepeatedCalls: the calls that repeat none before them.
IsRepeat(first, calls, k) ==
    SameCall(calls[k], first) \/ \E j \in 1..k - 1 : SameCall(calls[j], calls[k])
NotRepeated(first, calls) ==
    LET Kept == {k \in DOMAIN calls : ~IsRepeat(first, calls, k)}
    IN  [k \in 1..Cardinality(Kept) |->
            calls[CHOOSE j \in Kept : Cardinality({i \in Kept : i <= j}) = k]]

\* notRunObservation, for the calls that are told to the model as not run.
NotRun(ids) ==
    IF ids = {} THEN <<>> ELSE <<[Record("not_run", NoTool, FALSE) EXCEPT !.calls = ids]>>

\* rememberBatchedActions: after the call, "seen" being the records it left.
Remembered(seen) ==
    IF BatchStops(seen)
    THEN [records |-> seen \o NotRun(IDs(queue) \union IDs(batch)), queue |-> <<>>, tools |-> {}]
    ELSE LET Kept == NotRepeated(call, batch)
         IN  [records |-> seen \o NotRun(IDs(batch) \ IDs(Kept)), queue |-> queue \o Kept,
              tools |-> IF Kept # <<>> THEN offered ELSE queueTools]

-----------------------------------------------------------------------------
(* The head of a step *)

\* nextLimitPressureWarning: each stage once, none after the last, and none at
\* all on a turn of very small limits.
Warns(now) == ~request.short /\ now # Early /\ now \notin warned /\ "narrow" \notin warned

\* Mutant: the warning drops the queue and says nothing of it.
PressedSilently(now) == records

\* What limit pressure leaves of the records and of the queue.
Pressed(now) == IF Warns(now) THEN records \o NotRun(IDs(queue)) ELSE records

StepPins(seen) == Pinned(request, stepTools, seen)

\* Mutant: the key leaves out the tool the contract waits for.
KeyWithoutPending(seen) ==
    <<stepTitle, Range(StepPins(seen)), Range(RecoveryNames(debt.hints, seen))>>

\* stepToolExposureKey.
StepKey(seen) ==
    <<stepTitle, Range(StepPins(seen)), Range(RecoveryNames(debt.hints, seen)),
      FirstPending(request.required, seen)>>

\* stepToolExposureFor.
Exposure(seen) == Exposed(request, StepPins(seen), ChosenSkills(request, seen), debt.hints, seen)

\* The exposure of requestForStep: kept while its key stays the same.
StepExposure(seen) ==
    IF cache.key = StepKey(seen) THEN cache ELSE [key |-> StepKey(seen), tools |-> Exposure(seen)]

\* Mutant: a queued call is looked up in the tools of the step it has come to.
CurrentTools(seen) == StepExposure(seen).tools

\* pendingBatchedToolExposure: the tools the queued calls were chosen from.
QueuedTools(seen) == queueTools \intersect Exposable

\* requestForStep: the tools of a step that asks the model.
StepTools(now, seen) ==
    IF now = "narrow" THEN Allowing(WrapUpTools(request)) ELSE {StepExposure(seen).tools}

\* RunTurn up to the model's answer: the warning drops the queue, the request
\* is made, and a queued call is taken in place of an answer.
StepHead ==
    /\ pc = "head" /\ step < MaxSteps
    /\ step' = step + 1
    /\ \E now \in Stages :
        LET Left == IF Warns(now) THEN <<>> ELSE queue
            Seen == Pressed(now)
        IN  /\ stage = "narrow" => now = "narrow"
            /\ stage = "wrap_up" => now # Early
            /\ stage' = now
            /\ warned' = IF Warns(now) THEN warned \union {now} ELSE warned
            /\ records' = Seen
            /\ cache' = StepExposure(Seen)
            /\ IF Left # <<>>
               THEN /\ call' = Head(Left) /\ queue' = Tail(Left)
                    /\ queueTools' = IF Tail(Left) = <<>> THEN {} ELSE queueTools
                    /\ offered' = QueuedTools(Seen)
                    /\ pc' = "acting"
                    /\ UNCHANGED <<menu, corrections, patient>>
               ELSE /\ queue' = <<>> /\ queueTools' = {} /\ call' = NoCall
                    /\ offered' \in StepTools(now, Seen)
                    /\ menu' = offered' /\ corrections' = 0 /\ patient' = TRUE
                    /\ pc' = "asking"
    /\ UNCHANGED <<request, debt, planVars, nudged, unread, batch, restarts, named>>

\* The iterations are used up: the turn stops at its limit.
OutOfSteps ==
    /\ pc = "head" /\ step = MaxSteps
    /\ pc' = "ended"
    /\ UNCHANGED <<request, records, debt, planVars, nudged, cache, queueVars, stage, warned, askVars,
                   unread, call, batch, step, restarts, named>>

-----------------------------------------------------------------------------
(* The answer *)

\* nativeAgentActionRequest: a schema with an action no native tool stands for
\* cannot be put to a chat, and is put as one structured answer instead.
IsNative == ~request.delegates

asked == <<request, debt, planVars, nudged, cache, queueVars, stage, warned, step, restarts>>
Asked == menu' = {} /\ corrections' = 0 /\ patient' = TRUE

\* parseNativeAgentActionResponse and batchedNativeAgentActions: the first call
\* is of the menu, and those after it up to one that is not.  A structured
\* answer is one action, whose tool nobody looks up when it is parsed.
ReadCalls(calls) ==
    LET Bad == {k \in DOMAIN calls : calls[k][1] \notin menu}
        Count == IF ~IsNative THEN 1
                 ELSE CHOOSE n \in 0..Len(calls) : /\ \A k \in 1..n : k \notin Bad
                                                   /\ n < Len(calls) => n + 1 \in Bad
    IN  [k \in 1..Count |-> [tool |-> calls[k][1], input |-> calls[k][2], id |-> <<answers + 1, k>>]]

\* The calls a response names, and those behind its first unreadable or terminal one, which
\* batchedNativeAgentActions leaves out without a word.
Named(calls) == {<<answers + 1, k>> : k \in IF IsNative THEN DOMAIN calls ELSE {1}}
LeftOut(calls) ==
    {<<answers + 1, k>> : k \in {i \in DOMAIN calls : \E j \in 1..i : calls[j][1] \notin menu}}

\* The model names calls.
Calls ==
    /\ pc = "asking"
    /\ \E calls \in Answers :
        LET Read == ReadCalls(calls)
        IN  /\ Read # <<>>
            /\ call' = Head(Read) /\ batch' = Tail(Read)
            /\ open' = open \union Named(calls)
            /\ behind' = IF IsNative THEN behind \union LeftOut(calls) ELSE behind
    /\ answers' = answers + 1 /\ unread' = 0
    /\ pc' = "acting"
    /\ Asked
    /\ UNCHANGED <<asked, records, offered, swept>>

\* A final reply or a failure ends the turn or is sent back, as a message on the
\* way or the quality criteria are; the notes they leave are no call's, and the
\* calls of a response that begins with one are left out.
Speaks ==
    /\ pc = "asking"
    /\ pc' \in {"ended", "head"}
    /\ \E calls \in IF IsNative THEN Answers \union {<<>>} ELSE {<<>>} :
        LET Ids == {<<answers + 1, k + 1>> : k \in DOMAIN calls}
        IN  open' = open \union Ids /\ behind' = behind \union Ids
    /\ answers' = answers + 1 /\ unread' = 0
    /\ Asked
    /\ UNCHANGED <<asked, offered, records, call, batch, swept>>

\* The model hands a piece to a child turn.
Delegate ==
    /\ pc = "asking" /\ request.delegates
    /\ pc' = "head" /\ unread' = 0
    /\ Asked
    /\ UNCHANGED <<asked, offered, records, call, batch, named>>

\* RunTurn: an answer nobody can read is noted and the model asked again, but
\* for the last of MaxUnread in a row.
Unreadable ==
    /\ Asked
    /\ unread' = unread + 1
    /\ UNCHANGED records
    /\ pc' = IF unread + 1 < MaxUnread THEN "head" ELSE "ended"

\* Any other error of the call fails the turn.
CallFails == pc' = "ended" /\ Asked /\ UNCHANGED <<records, unread>>

\* firstPendingActionToolName: nothing is demanded while a failure is owed.
Demanded == IF debt.owed THEN <<>> ELSE FirstPending(request.required, records)

\* correctedAgentActionRequest: asked again within the step, of one tool when
\* the diagnostic names it or it is what the contract is waiting for.
CanCorrect(tool) ==
    IsNative /\ corrections < MaxCorrections /\ (tool = <<>> \/ Head(tool) \in menu)
Correct(tool) ==
    /\ corrections' = corrections + 1
    /\ menu' = IF tool = <<>> THEN menu ELSE {Head(tool)}
    /\ UNCHANGED <<pc, records, unread, patient>>

\* The model answers nothing that can be read: it ends without a word or a
\* call, or its first call is unknown, has no id or no object for input.
Garbled ==
    /\ pc = "asking"
    /\ \E tool \in {<<>>, Demanded} :
        IF CanCorrect(tool) THEN Correct(tool) ELSE Unreadable
    /\ UNCHANGED <<asked, offered, call, batch, named>>

\* The provider refuses the answer, naming the tool it is about, or it is not
\* an answer of an assistant.
Refused ==
    /\ pc = "asking"
    /\ \E tool \in {<<>>} \union {<<name>> : name \in offered} :
        IF CanCorrect(tool) THEN Correct(tool) ELSE CallFails
    /\ UNCHANGED <<asked, offered, call, batch, named>>

\* The call fails for a reason no correction is about.
Broken ==
    /\ pc = "asking"
    /\ CallFails
    /\ UNCHANGED <<asked, offered, call, batch, named>>

\* Mutant: a call that was cut is asked again with the same patience.
CutAgain ==
    /\ pc = "asking" /\ patient
    /\ menu' = offered /\ corrections' = 0
    /\ UNCHANGED <<asked, offered, patient, pc, records, unread, call, batch, named>>

\* decideActionPatiently: a call that outlasts the patience is cut, and asked
\* once more from the beginning without one.
Cut ==
    /\ pc = "asking" /\ patient
    /\ patient' = FALSE /\ menu' = offered /\ corrections' = 0
    /\ UNCHANGED <<asked, offered, pc, records, unread, call, batch, named>>

-----------------------------------------------------------------------------
(* The call *)

\* Records of the call being handled carry the response it came in.
CallRecord(kind, failed, repeats, found, hints) ==
    [Record(kind, call.tool, failed) EXCEPT !.repeats = repeats, !.found = found,
        !.hints = hints, !.of = call.id[1]]
Note == <<[Record("policy", call.tool, FALSE) EXCEPT !.of = call.id[1]]>>

\* The end of a handled call, "seen" being the records it left.
Handled(seen) ==
    LET Now == Remembered(seen)
    IN  /\ records' = Now.records /\ queue' = Now.queue /\ queueTools' = Now.tools
        /\ open' = open \ {call.id}
        /\ call' = NoCall /\ batch' = <<>> /\ offered' = {}
        /\ pc' = "head"

handling == <<request, cache, stage, warned, menu, corrections, patient, unread, step, answers,
              behind, swept, restarts>>

IsAvailable == call.tool \in offered

\* rejectMalformedToolCall, rejectRepeatedToolCall, prepareRecoveryAttempt and
\* rejectUnavailableToolCall: the call is not made, which a failure or a note
\* says, and a stall's directive may follow.
Reject ==
    /\ pc = "acting"
    /\ \E refusal \in {CallRecord("call", TRUE, FALSE, <<>>, <<>>), Note[1],
                       CallRecord("policy", TRUE, FALSE, <<>>, debt.hints),
                       CallRecord("exhausted", TRUE, FALSE, <<>>, debt.hints)},
          directive \in {<<>>, <<Record("policy", NoTool, FALSE)>>} :
        /\ Handled(Append(records, refusal) \o directive)
        /\ debt' = IF refusal.kind = "call" /\ ~IsAvailable THEN Owed(<<>>) ELSE debt
    /\ UNCHANGED <<handling, planVars, nudged>>

\* notePlanMissingBeforeStateChange: once, and the call goes on.
Nudges ==
    /\ ~nudged /\ ~planned /\ request.plans
    /\ PlanTool \in Exposable /\ call.tool \in ChangingTools
BeforeTheCall == IF Nudges THEN records \o Note ELSE records

\* A failed call is owed, and guidance to its recovery may follow.
CallFailed ==
    /\ pc = "acting" /\ IsAvailable
    /\ \E hints \in Hints :
        /\ debt' = Owed(hints)
        /\ \E guidance \in {<<>>, <<CallRecord("recovery_guidance", TRUE, FALSE, <<>>, hints)>>} :
            Handled(BeforeTheCall \o <<CallRecord("call", TRUE, FALSE, <<>>, <<>>)>> \o guidance)
    /\ nudged' = (nudged \/ Nudges)
    /\ UNCHANGED <<handling, planVars>>

\* selectToolsForActivePlanStep, for the title the plan now has in progress.
SelectForStep(title) ==
    IF title \in {NoTitle, stepTitle} THEN UNCHANGED <<stepTitle, stepTools, selection, shortOf>>
    ELSE \/ /\ stepTools' = <<>>
            /\ UNCHANGED <<stepTitle, selection, shortOf>>
         \/ \E names \in Shortlists :
                /\ stepTitle' = title /\ stepTools' = names /\ shortOf' = title
                /\ selection' = IF names = <<>> THEN selection ELSE [title |-> title, tools |-> names]

\* applyPlanObservation.
ApplyPlan ==
    IF call.tool = PlanTool
    THEN \E title \in Titles \union {NoTitle} :
            active' = title /\ planned' = TRUE /\ SelectForStep(title)
    ELSE UNCHANGED planVars

\* A call succeeded: with a result that repeats an earlier one or is new, a
\* reminder after it or not; it may settle the failure that was owed.
CallWorked ==
    /\ pc = "acting" /\ IsAvailable
    /\ \E repeats \in BOOLEAN, reminder \in {<<>>, Note},
          found \in IF call.tool = EquipTool THEN Finds ELSE {<<>>} :
        Handled(BeforeTheCall \o <<CallRecord("call", FALSE, repeats, found, <<>>)>> \o reminder)
    /\ debt' \in {debt, NoDebt}
    /\ ApplyPlan
    /\ nudged' = (nudged \/ Nudges)
    /\ UNCHANGED handling

\* The call ends the turn: the run waits for an approval or an answer, was
\* cancelled, stalled or met its limit.  The queue goes with the process.
CallEnds ==
    /\ pc = "acting"
    /\ pc' = "ended"
    /\ open' = open \ {call.id}
    /\ UNCHANGED <<handling, offered, call, batch, records, debt, planVars, nudged, queueVars>>

-----------------------------------------------------------------------------
(* A new process *)

\* planStepSelectionFromTaskEvents: the last selection that names tools.
Reselected == selection

\* restoreAgentTaskState: the records and the plan are the ledger's; the queue,
\* the exposure and what was said of the plan lived in memory.
Restart ==
    /\ restarts < MaxRestarts /\ restarts' = restarts + 1
    /\ step < MaxSteps
    /\ stepTitle' = Reselected.title /\ stepTools' = Reselected.tools
    /\ shortOf' = Reselected.title
    /\ queue' = <<>> /\ queueTools' = {} /\ cache' = NoCache /\ nudged' = FALSE
    /\ warned' = {} /\ unread' = 0 /\ call' = NoCall /\ batch' = <<>>
    /\ offered' = {} /\ menu' = {} /\ corrections' = 0 /\ patient' = TRUE
    /\ swept' = swept \union IDs(queue) \union IDs(batch) \union {call.id}
    /\ pc' = "head"
    /\ UNCHANGED <<request, records, debt, active, planned, selection, stage, step, answers, open, behind>>

Answer == Calls \/ Speaks \/ Delegate \/ Garbled \/ Refused \/ Broken \/ Cut
Act == Reject \/ CallFailed \/ CallWorked \/ CallEnds

Next == StepHead \/ OutOfSteps \/ Answer \/ Act \/ Restart

\* The model's call comes back, fails, or is cut by its patience or the work
\* context's deadline; nothing here needs the loop or a tool to be as prompt.
Fairness == WF_vars(Answer)

Spec == Init /\ [][Next]_vars /\ Fairness

-----------------------------------------------------------------------------
(* Properties *)

\* One step's state is of its type, and a queue remembers the tools its calls
\* were chosen from.
TypeOK ==
    /\ request \in Requests
    /\ pc \in {"head", "asking", "acting", "ended"} /\ stage \in Stages /\ warned \subseteq Stages
    /\ step \in 0..MaxSteps /\ corrections \in 0..MaxCorrections /\ unread \in 0..MaxUnread
    /\ offered \subseteq Exposable /\ menu \subseteq offered
    /\ queue # <<>> => queueTools # {}

\* A call that waited behind others of its response is made with the tools it
\* was chosen from: what the calls before it changed of the plan, the debt or
\* the tools found never makes it unavailable (pendingBatchedToolExposure).
QueuedKeepsItsTools ==
    (pc = "acting" /\ call.id[2] > 1) => call.tool \in offered

\* The calls the model may believe it made.  When it is asked again, each call it named was
\* handled, still waits, or is named in a record that says it was not run
\* (rememberBatchedActions, the pressure's drop), but for those the code drops without a word:
\* the calls behind the first unreadable or terminal one of their response
\* (batchedNativeAgentActions), and those that waited, or were being made, when a turn parked
\* or its process went.
NoCallIsForgotten ==
    pc \in {"head", "asking"} =>
        open \ (IDs(queue) \union behind \union swept)
            \subseteq UNION {records[k].calls : k \in DOMAIN records}

\* No call waits behind a failed one of its own response: a response's calls
\* after a failure were chosen without knowing of it (batchStopReason looks at
\* the last record only, and a failure may be followed by others).
FailureStopsTheAnswer ==
    \A k \in DOMAIN queue, r \in DOMAIN records :
        records[r].failed => records[r].of # queue[k].id[1]

\* The tool the contract is waiting for is among those the model may call,
\* whatever the cached exposure was made for, unless recovery tools fill the
\* working set or the budget has narrowed it.
RequiredIsOffered ==
    LET Pending == FirstPending(request.required, records)
        Ahead == Extensions(Range(RecoveryNames(debt.hints, records)))
    IN  (/\ pc = "asking" /\ stage # "narrow" /\ Pending # <<>>
         /\ Head(Pending) \in Exposable /\ Cardinality(Ahead) < MaxExtension)
            => Head(Pending) \in offered

\* The tools selected for a step of the plan are offered for that step only: a
\* later step whose selection failed has none rather than another's
\* (selectToolsForActivePlanStep).
ToolsAreOfTheStep == (active # NoTitle /\ stepTools # <<>>) => shortOf = active

\* In one process, that is so.
PlanToolsAreOfTheStep == restarts = 0 => ToolsAreOfTheStep

\* The model is not asked the same step for ever: corrections are counted, and
\* a call is cut once (decideAgentActionWithChat, decideActionPatiently).
EveryAskEnds == (pc = "asking") ~> (pc # "asking")

\* The menu of a step is made for what the step has to do: the tool its contract
\* waits for is there and those of another step of the plan are not
\* (stepToolExposureFor, selectToolsForActivePlanStep).
OfferedForTheStep == TypeOK /\ RequiredIsOffered /\ PlanToolsAreOfTheStep

\* The calls of an answer up to the first that cannot be read or ends it are accounted for while
\* their turn lasts: made, or told as not run, and not made once another of the same answer failed
\* (rememberBatchedActions).
AnswerIsAccountedFor == NoCallIsForgotten /\ FailureStopsTheAnswer
=============================================================================
