------------------------------ MODULE Recovery ------------------------------
(***************************************************************************)
(* What the loop lets a model call next, given what its calls have done so *)
(* far: the refusals of loop/tool_call_validation.go, the failure debt and *)
(* the recovery budget of loop/failure_debt.go, and the stall control of   *)
(* loop/action_loop_progress.go and loop/stall_recovery.go; with what a    *)
(* resume, a restart and a clean restart (loop/agent_turn_state.go) leave  *)
(* of it.                                                                  *)
(*                                                                         *)
(* All of it is decided by the results of calls the turn still knows. What *)
(* else the loop tells the model (the refusals themselves, guidance,       *)
(* reminders, directives) no guard reads, so it is no state here; which of *)
(* the three stall directives is sent makes no difference to what follows. *)
(* Results are never taken off the sequence: what a resume drops is marked *)
(* as not known, so the history remains for the properties.                *)
(*                                                                         *)
(* Left out: the time limit, the step limit and the grant of a larger      *)
(* level (TurnRunner); the delivery of attachments, and with it a success  *)
(* that repeats an output and brings a new attachment; the note about an   *)
(* interrupted call (CallLedger), which has no input key and so no part in *)
(* these decisions; delegated turns; quality criteria, which a turn is     *)
(* asked for once; compaction, whose checkpoint keeps the marks a ledger   *)
(* loses; line ranges, every read of a file standing for the same lines.   *)
(***************************************************************************)
EXTENDS Naturals, Sequences, FiniteSetsExt

CONSTANTS
  Call,       \* tool calls: [tool |-> its name, fields |-> its input, a function of field names]
  Recipient(_), \* whom a call to a sending tool writes to, or NoOne
  Namespace(_), \* the namespace of a tool, or NoNamespace
  Possible(_),  \* what making a call may come to: [outcome, fresh, waits]
  NoCall, NoOne, NoNamespace,
  Allowed,    \* the tools of the turn's tool set
  ReadOnly, Sending, Reading, Editing, Shell, \* what kinds of tool there are
  OneShot,    \* tools whose success is not to be repeated in this request
  Delivering, \* tools whose success brings attachments
  Gated,      \* calls that need the person's approval
  CorrectedRetry, AlternateRoute, AdjacentTool, \* TurnOptions.RecoveryBudget
  MaxToolCallCount,                 \* TurnOptions.MaxToolCallCount
  StallAfter, MaxDirectives, MaxFailureProgress, \* 3, 4 and 4 in the code
  MaxUnreadable, \* maximumConsecutiveUnreadableActionCount: 3
  MaxEvents   \* bound: results over all sessions, resumes and restarts together

ASSUME BudgetAssumption ==
  /\ {CorrectedRetry, AlternateRoute, AdjacentTool} \subseteq Nat
  /\ MaxToolCallCount \in Nat /\ MaxEvents \in Nat
  /\ StallAfter \in Nat \ {0} /\ MaxDirectives \in Nat /\ MaxFailureProgress \in Nat
  /\ MaxUnreadable \in Nat \ {0}
ASSUME CallAssumption == NoCall \notin Call
\* A tool the turn may not use has no definition to look these up in.
ASSUME ToolAssumption ==
  /\ ReadOnly \cup Sending \subseteq Allowed
  /\ \A c \in Call : c.tool \notin Allowed => Namespace(c.tool) = NoNamespace

Outcomes == {"ok", "failed", "final", "stuck", "blocked"}
Steps == {"none", "corrected_retry", "inspection", "independent_work", "alternate_route", "adjacent_tool"}
Free == {"inspection", "independent_work"} \* recoveryStepSpendsBudget says no

ASSUME PossibleAssumption ==
  \A c \in Call : Possible(c) \subseteq [outcome : Outcomes \ {"blocked"}, fresh : BOOLEAN, waits : BOOLEAN]

\* outcome: "final" is a failure with the retry policy do_not_retry, "stuck" one that
\* needs an interaction, "blocked" a call to a tool the turn may not use, never made.
\* here: recorded by the turn that runs now, with its recovery step; a result read back
\* from the ledger has lost it. fresh: the output repeats no earlier one.
\* carried: the host ran the call while the task was paused.
Result == [call : Call, outcome : Outcomes, step : Steps,
           fresh : BOOLEAN, carried : BOOLEAN, here : BOOLEAN, known : BOOLEAN]

VARIABLES
  results,      \* the results of calls, in order: agentTaskState.Observations and the ledger
  toolCalls,    \* agentTaskState.ToolCallCount
  tracker,      \* actionProgressTracker
  pc,           \* where the turn is
  held,         \* the call the person is asked about
  stallPaused,  \* whether a stall has paused the task before
  resumes,      \* resumes and restarts so far
  unread,       \* consecutiveUnreadableActionCount
  idle,         \* history: actions since the last new result that the tracker was asked about
  barren        \* history: all actions since the last new result

vars == <<results, toolCalls, tracker, pc, held, stallPaused, resumes, unread, idle, barren>>

-----------------------------------------------------------------------------
(* Failure debt.                                                           *)

Succeeded(r) == r.known /\ r.outcome = "ok"
Failed(r) == r.known /\ r.outcome # "ok"

\* A success clears the debt unless it only read, or worked on something else. A call
\* the host carried out is never marked as reading.
Settles(r) ==
  /\ Succeeded(r)
  /\ r.call.tool \in ReadOnly => r.carried
  /\ r.here => r.step \notin Free

\* The failures of the episode: those no success has cleared since.
Owed(rs) ==
  {i \in DOMAIN rs : Failed(rs[i]) /\ \A j \in DOMAIN rs : j > i => ~Settles(rs[j])}

Debt(rs) == Owed(rs) # {}
LatestFailure == results[Max(Owed(results))]

\* Mutant: the episode is counted from its latest failure.
LatestStart == Max(Owed(results))
EpisodeStart == Min(Owed(results))

\* hasDistinctTarget: a field both inputs have, with another value. The key recorded for
\* a call the host carried out names no tool, and no field is found in it.
DistinctTarget(failure, c) ==
  /\ ~failure.carried
  /\ \E f \in DOMAIN failure.call.fields \cap DOMAIN c.fields : failure.call.fields[f] # c.fields[f]

AlternatePair(t, u) == Namespace(t) # NoNamespace /\ Namespace(t) = Namespace(u)

\* classifyRecoveryStep
StepAfter(failure, c) ==
  IF failure.call.tool = c.tool THEN "corrected_retry"
  ELSE IF c.tool \in ReadOnly THEN "inspection"
  ELSE IF DistinctTarget(failure, c) THEN "independent_work"
  ELSE IF AlternatePair(failure.call.tool, c.tool) THEN "alternate_route"
  ELSE "adjacent_tool"

RecoveryStep(c) == IF Debt(results) THEN StepAfter(LatestFailure, c) ELSE "none"

\* How often a step was taken in the episode, with one of the given calls.
Used(step, calls) ==
  LET start == EpisodeStart
  IN  Cardinality({i \in DOMAIN results :
                     /\ i >= start
                     /\ results[i].known /\ results[i].here
                     /\ results[i].step = step /\ results[i].call \in calls})

\* recoveryBudgetAllowsStep: a correction is counted against the call it corrects with.
BudgetAllows(c) ==
  LET step == RecoveryStep(c)
  IN  \/ step \in Free \cup {"none"}
      \/ step = "corrected_retry" /\ Used(step, {c}) < CorrectedRetry
      \/ step = "alternate_route" /\ Used(step, Call) < AlternateRoute
      \/ step = "adjacent_tool" /\ Used(step, Call) < AdjacentTool

\* recoveryToolBudgetExhaustedForRequest
NoRouteLeft ==
  LET failure == LatestFailure
      failed == failure.call.tool
      others == Allowed \ {failed}
  IN  \/ failure.outcome = "stuck"
      \/ /\ failed \in Allowed => Used("corrected_retry", Call) >= CorrectedRetry
         /\ (\E t \in others : AlternatePair(failed, t)) => Used("alternate_route", Call) >= AlternateRoute
         /\ (\E t \in others : ~AlternatePair(failed, t)) => Used("adjacent_tool", Call) >= AdjacentTool

-----------------------------------------------------------------------------
(* Refusals: rejectRepeatedToolCall.                                       *)

EditedSince(i, path) ==
  \E j \in DOMAIN results :
    /\ j > i /\ Succeeded(results[j]) /\ results[j].call.tool \in Editing
    /\ path = "any" \/ results[j].call.fields["path"] = path

\* repeatedFileReadObservation
ReadAlready(c) ==
  /\ c.tool \in Reading
  /\ \E i \in DOMAIN results :
       /\ Succeeded(results[i]) /\ results[i].call.tool \in Reading
       /\ results[i].call.fields["path"] = c.fields["path"]
       /\ ~EditedSince(i, c.fields["path"])

\* Mutant: only the very same message counts as sent.
SameMessageSent(c) ==
  /\ c.tool \in Sending
  /\ \E i \in DOMAIN results : Succeeded(results[i]) /\ results[i].call = c

\* previousSuccessfulExternalSend: a call the host carried out has no recipient here.
SentAlready(c) ==
  /\ c.tool \in Sending
  /\ \E i \in DOMAIN results :
       /\ Succeeded(results[i]) /\ results[i].call.tool = c.tool
       /\ \/ Recipient(c) = NoOne
          \/ ~results[i].carried /\ Recipient(results[i].call) = Recipient(c)

\* repeatedSuccessfulToolObservation: a shell command may be repeated after an edit.
DoneAlready(c) ==
  /\ c.tool \in OneShot
  /\ \E i \in DOMAIN results :
       /\ Succeeded(results[i]) /\ results[i].call = c
       /\ results[i].carried => results[i].here
       /\ c.tool \in Shell => ~EditedSince(i, "any")

\* previousNonRetryableToolFailure
NeverAgain(c) ==
  \E i \in DOMAIN results :
    results[i].known /\ results[i].outcome = "final" /\ results[i].call.tool = c.tool

\* Mutant: only failures of the turn that runs are looked at.
FailedHere(c) ==
  \E i \in DOMAIN results :
    /\ Failed(results[i]) /\ results[i].call = c /\ results[i].here
    /\ \A j \in DOMAIN results : j > i => ~Succeeded(results[j])

\* previousFailedToolInput: until something succeeds.
FailedAlready(c) ==
  \E i \in DOMAIN results :
    /\ Failed(results[i]) /\ results[i].call = c /\ ~results[i].carried
    /\ \A j \in DOMAIN results : j > i => ~Succeeded(results[j])

Refused(c) ==
  ReadAlready(c) \/ SentAlready(c) \/ DoneAlready(c) \/ NeverAgain(c) \/ FailedAlready(c)

-----------------------------------------------------------------------------
(* Progress: progressEvents, and the tracker.                              *)

IsEdit(r) == Succeeded(r) /\ r.call.tool \in Editing
IsNews(r) == Succeeded(r) /\ r.fresh

\* The failure's fingerprint (its input key and its code) is new.
NewFailure(rs, i) ==
  /\ Failed(rs[i])
  /\ \A j \in DOMAIN rs : j < i /\ Failed(rs[j]) =>
       <<rs[j].call, rs[j].carried, rs[j].outcome>> # <<rs[i].call, rs[i].carried, rs[i].outcome>>

\* New failures before this one, since the last success that counts.
FailuresBefore(rs, i) ==
  {j \in DOMAIN rs : /\ j < i /\ NewFailure(rs, j)
                     /\ \A k \in DOMAIN rs : j < k /\ k < i => ~IsNews(rs[k]) /\ ~IsEdit(rs[k])}

Progress(rs) ==
  Cardinality({i \in DOMAIN rs : IsNews(rs[i])})
    + Cardinality({i \in DOMAIN rs : IsEdit(rs[i])})
    + Cardinality({i \in DOMAIN rs : NewFailure(rs, i) /\ Cardinality(FailuresBefore(rs, i)) < MaxFailureProgress})

At(place) == pc = place

MakesProgress(count) ==
  /\ count > tracker.last
  /\ tracker' = [last |-> count, quiet |-> 0, directives |-> 0]
  /\ pc' = "choosing" /\ UNCHANGED stallPaused

StaysQuiet(count) ==
  /\ ~(count > tracker.last) /\ tracker.quiet + 1 < StallAfter
  /\ tracker' = [tracker EXCEPT !.quiet = @ + 1]
  /\ pc' = "choosing" /\ UNCHANGED stallPaused

Stalls(count) == ~(count > tracker.last) /\ tracker.quiet + 1 >= StallAfter

\* Mutant: the directive is not counted.
IsDirectedFreely(count) ==
  /\ Stalls(count) /\ tracker.directives < MaxDirectives
  /\ tracker' = [last |-> count, quiet |-> 0, directives |-> tracker.directives]
  /\ pc' = "choosing" /\ UNCHANGED stallPaused

\* noteStallRecoveryDirective, after whichever directive was sent.
IsDirected(count) ==
  /\ Stalls(count) /\ tracker.directives < MaxDirectives
  /\ tracker' = [last |-> count, quiet |-> 0, directives |-> tracker.directives + 1]
  /\ pc' = "choosing" /\ UNCHANGED stallPaused

\* pauseTurnForStall, once in a run, when the failure is one the person can help with;
\* blockTurnForStall otherwise, or when there is no question to ask.
IsStopped(count, indebted) ==
  /\ Stalls(count) /\ tracker.directives >= MaxDirectives
  /\ UNCHANGED tracker
  /\ \/ pc' = "stalled" /\ indebted /\ ~stallPaused /\ stallPaused' = TRUE
     \/ pc' = "ended" /\ UNCHANGED stallPaused

\* stopForNoProgress, with the results as they are after the action.
StopForNoProgress(rs) ==
  LET count == Progress(rs)
  IN  MakesProgress(count) \/ StaysQuiet(count) \/ IsDirected(count) \/ IsStopped(count, Debt(rs))

\* The histories, after an action that leaves these results: the tracker was asked about it
\* (1) or not (0).
Counts(rs, asked) ==
  IF Progress(rs) > Progress(results)
    THEN idle' = 0 /\ barren' = 0
    ELSE idle' = idle + asked /\ barren' = barren + 1

-----------------------------------------------------------------------------
(* The turn's actions: handleToolCallAction.                               *)

Init ==
  /\ results = <<>> /\ toolCalls = 0
  /\ tracker = [last |-> 0, quiet |-> 0, directives |-> 0]
  /\ pc = "choosing" /\ held = NoCall
  /\ stallPaused = FALSE /\ resumes = 0
  /\ unread = 0 /\ idle = 0 /\ barren = 0

Room == Len(results) + resumes < MaxEvents

Record(c, outcome, step, fresh, carried) ==
  [call |-> c, outcome |-> outcome, step |-> step, fresh |-> fresh,
   carried |-> carried, here |-> TRUE, known |-> TRUE]

\* An answer no action can be read from (continue, turn_runner.go): nothing asks the tracker
\* about it; the last of MaxUnreadable in a row ends the turn.
AnswerUnreadably ==
  /\ At("choosing")
  /\ unread' = unread + 1
  /\ pc' = IF unread' < MaxUnreadable THEN "choosing" ELSE "ended"
  /\ Counts(results, 0)
  /\ UNCHANGED <<results, toolCalls, tracker, held, stallPaused, resumes>>

\* An action that calls nothing: a malformed call, a finish that is refused, a reply that
\* is not final, an unknown action.
CallNothing ==
  /\ At("choosing")
  /\ StopForNoProgress(results)
  /\ unread' = 0 /\ Counts(results, 1)
  /\ UNCHANGED <<results, toolCalls, held, resumes>>

\* maxToolCallCountWithRecovery
CallLimit ==
  MaxToolCallCount + (IF Debt(results) THEN CorrectedRetry + AlternateRoute + AdjacentTool ELSE 0)

\* What becomes of a call the model asks for: the guards in the order of the code.
Verdict(c) ==
  IF Refused(c) THEN "refuse"
  ELSE IF ~BudgetAllows(c) THEN "ration"
  ELSE IF c.tool \notin Allowed THEN "block"
  ELSE IF toolCalls + 1 > CallLimit THEN "stop"
  ELSE "run"

\* rejectRepeatedToolCall
Refuse ==
  /\ StopForNoProgress(results)
  /\ Counts(results, 1)
  /\ UNCHANGED <<results, toolCalls, held, resumes>>

\* prepareRecoveryAttempt, when the budget is spent.
Ration ==
  /\ \/ NoRouteLeft /\ pc' = "terminal" /\ UNCHANGED <<tracker, stallPaused, idle, barren>>
     \/ ~NoRouteLeft /\ StopForNoProgress(results) /\ Counts(results, 1)
  /\ UNCHANGED <<results, toolCalls, held, resumes>>

\* rejectUnavailableToolCall records the call as one that failed.
Block(c) ==
  /\ Room
  /\ results' = Append(results, Record(c, "blocked", "none", TRUE, FALSE))
  /\ StopForNoProgress(results')
  /\ Counts(results', 1)
  /\ UNCHANGED <<toolCalls, held, resumes>>

\* completeOrStopForLimit
StopAtLimit ==
  /\ toolCalls' = toolCalls + 1
  /\ pc' = "ended"
  /\ UNCHANGED <<results, tracker, held, stallPaused, resumes, idle, barren>>

\* The call is made and its result recorded. Only of a success that repeats an earlier
\* output while a suggested tool waits is the tracker asked: a repeat with nothing
\* suggested, and a failure that is not new, pass it by. The call may have left the task
\* waiting for the person.
Run(c, p) ==
  /\ Room
  /\ toolCalls' = toolCalls + 1
  /\ results' = Append(results, Record(c, p.outcome, RecoveryStep(c), p.fresh, FALSE))
  /\ \/ /\ pc' = (IF p.waits THEN "paused" ELSE "choosing")
        /\ Counts(results', 0) /\ UNCHANGED <<tracker, stallPaused>>
     \/ /\ ~p.waits /\ p.outcome = "ok" /\ ~p.fresh
        /\ StopForNoProgress(results') /\ Counts(results', 1)
  /\ UNCHANGED <<held, resumes>>

\* The call needs the person's approval: the task waits and the observation is not kept.
AskPerson(c) ==
  /\ c \in Gated
  /\ toolCalls' = toolCalls + 1
  /\ pc' = "paused" /\ held' = c
  /\ UNCHANGED <<results, tracker, stallPaused, resumes, idle, barren>>

HandleToolCall(c) ==
  /\ At("choosing")
  /\ unread' = 0
  /\ LET verdict == Verdict(c)
     IN  \/ verdict = "refuse" /\ Refuse
         \/ verdict = "ration" /\ Ration
         \/ verdict = "block" /\ Block(c)
         \/ verdict = "stop" /\ StopAtLimit
         \/ verdict = "run" /\ \E p \in Possible(c) : Run(c, p)
         \/ verdict = "run" /\ AskPerson(c)

\* The turn replies or fails; or the step without tools (runTerminalNoToolsStep) does,
\* or blocks the run after its third try.
End ==
  /\ pc \in {"choosing", "terminal"}
  /\ pc' = "ended"
  /\ UNCHANGED <<results, toolCalls, tracker, held, stallPaused, resumes, unread, idle, barren>>

-----------------------------------------------------------------------------
(* Resumes: restoreAgentTaskState.                                         *)

Successes(rs) == {i \in DOMAIN rs : Succeeded(rs[i])}

\* What the ledger gives back: results without the marks that are set after the event is
\* written, those the resume drops no longer known.
Restored(kept) ==
  [i \in DOMAIN results |->
    [results[i] EXCEPT !.here = FALSE, !.fresh = TRUE, !.known = @ /\ i \in kept]]

AfterPause == Restored(DOMAIN results)

\* userResumeClearsInheritedFailureDebt
AfterRestart ==
  IF Debt(AfterPause) THEN Restored(Successes(results)) ELSE AfterPause

\* cleanRestartedAgentTaskState
AfterCleanRestart == Restored({i \in Successes(results) : results[i].call.tool \in Delivering})

GoOn(rs, calls) ==
  /\ Room /\ resumes' = resumes + 1
  /\ results' = rs
  /\ toolCalls' = calls
  /\ tracker' = [last |-> Progress(results'), quiet |-> 0, directives |-> 0]
  /\ pc' = "choosing" /\ held' = NoCall
  /\ unread' = 0 /\ idle' = 0 /\ barren' = 0
  /\ UNCHANGED stallPaused

\* The person has answered; the host did not run the held call.
Resume ==
  /\ pc \in {"paused", "stalled"}
  /\ GoOn(AfterPause, Cardinality(Successes(AfterPause)))

\* The host has run the held call and the resumed turn records it: recordCarriedOutCalls.
ResumeCarriedOut(p) ==
  /\ At("paused") /\ held # NoCall /\ p \in Possible(held)
  /\ Len(results) + 1 + resumes < MaxEvents
  /\ GoOn(Append(AfterPause, Record(held, p.outcome, "none", p.fresh, TRUE)),
          Cardinality(Successes(AfterPause)))

\* The person steers a stalled task: it starts over with what it delivered.
RestartClean ==
  /\ At("stalled")
  /\ GoOn(AfterCleanRestart, 0)

\* The process dies and the task is resumed by another.
Restart ==
  /\ ~At("ended")
  /\ GoOn(AfterRestart, Cardinality(Successes(AfterRestart)))

-----------------------------------------------------------------------------
Next ==
  \/ AnswerUnreadably
  \/ CallNothing
  \/ \E c \in Call : HandleToolCall(c)
  \/ End
  \/ Resume
  \/ \E c \in Call : \E p \in Possible(c) : ResumeCarriedOut(p)
  \/ RestartClean
  \/ Restart

Spec == Init /\ [][Next]_vars

-----------------------------------------------------------------------------
(* Properties.                                                             *)

TypeOK ==
  /\ results \in Seq(Result)
  /\ toolCalls \in Nat
  /\ tracker \in [last : Nat, quiet : 0..(StallAfter - 1), directives : 0..MaxDirectives]
  /\ pc \in {"choosing", "terminal", "paused", "stalled", "ended"}
  /\ held \in Call \cup {NoCall}
  /\ stallPaused \in BOOLEAN /\ resumes \in 0..MaxEvents
  /\ unread \in 0..MaxUnreadable /\ idle \in Nat /\ barren \in Nat

\* "This exact tool/input/error fingerprint already failed. Do not repeat it", and "failed
\* in a way no retry can change" (loop/failure_debt.go, loop/tool_call_validation.go): a
\* call that failed is not made again before something succeeds, and a tool that must not
\* be retried is not called again, over pauses, for as long as the turn knows of the failure.
ClosedStaysClosed ==
  \A i, j \in DOMAIN results :
    /\ i < j /\ Failed(results[i]) /\ ~results[i].carried /\ ~results[j].carried =>
         /\ results[i].outcome = "final" => results[j].call.tool # results[i].call.tool
         /\ results[j].call = results[i].call =>
              \E k \in DOMAIN results : i < k /\ k < j /\ results[k].outcome = "ok"

\* "This task already sent to that recipient" (loop/tool_call_validation.go): of its own
\* calls a task makes one successful send with a tool to a recipient it knows of.
SentOnce ==
  \A i, j \in DOMAIN results :
    /\ i < j /\ results[i].call.tool \in Sending /\ results[i].call.tool = results[j].call.tool
    /\ Succeeded(results[i]) /\ results[j].outcome = "ok"
    /\ ~results[i].carried /\ ~results[j].carried
    => Recipient(results[i].call) # Recipient(results[j].call)

\* "These are ceilings" (DOCS.md): the turn that runs makes no more alternate and adjacent
\* calls, and no more corrections with one input, than the budget has, between two
\* successes that clear the debt, however often the failures follow each other.
RecoveryRationed ==
  \A i, j \in DOMAIN results :
    i <= j /\ (\A k \in i..j : results[k].here /\ (k < j => ~Settles(results[k]))) =>
      LET taken(step, calls) == Cardinality({k \in i..j : results[k].step = step /\ results[k].call \in calls})
      IN  /\ taken("alternate_route", Call) <= AlternateRoute
          /\ taken("adjacent_tool", Call) <= AdjacentTool
          /\ \A k \in i..j : taken("corrected_retry", {results[k].call}) <= CorrectedRetry

\* What the stall control bounds (loop/action_loop_progress.go): of the actions it is asked
\* about, which are those the loop refuses or that call nothing, a turn takes no more than
\* the two limits allow without a new result, whatever calls that bring nothing new and
\* unreadable answers come between them; and all the turn's actions since the last new
\* result are at most MaxUnreadable for each of those and of the calls it has made.
ThrashIsBounded ==
  /\ idle <= 1 + StallAfter * (MaxDirectives + 1)
  /\ barren <= MaxUnreadable * (idle + toolCalls + 1)

\* "Progress is counted in novel results [...]. After three consecutive actions without one,
\* the loop steers the model [...], up to four times, then stops the run" (DOCS.md): no turn
\* takes more actions than that, of whatever kind, without a new result.
StopsWithoutNews == barren <= 1 + StallAfter * (MaxDirectives + 1)
=============================================================================
