# A TLA+ model of bluecollar

bluecollar is an embeddable agent harness in Go: a host hands it a request, and it runs a *turn* --
a loop of model calls and tool calls under budgets -- over a store of task runs that it does not
own. This directory models the parts of it whose correctness depends on the order in which things
happen, checks them with TLC on small instances, and proves what matters most for all instances
with TLAPS.

## Contents

| file | what it is |
|---|---|
| `TurnClock.tla` | `turnclock/`: active time, pauses, budget contexts, timer goroutines |
| `ActiveBudget.tla` | what the clock promises, without timers, goroutines or a list of pauses |
| `ClockAndGoalProofs.tla` | the theorems about the clock, and about planning, the tools it picks and what a task owes |
| `MCTurnClock.tla`, `TurnClock.cfg` | a small instance of the clock |
| `TurnRunner.tla` | `loop/turn_runner.go` and the files it stops in: one turn from start to result |
| `MCTurnRunner.tla`, `TurnRunner*.cfg` | small instances of the turn |
| `TurnRunnerProofs.tla` | the theorems about the turn |
| `CallLedger.tla` | `approval/`, the ledger stream of `acpagent/`, the resume of `loop/`: a tool call from request to result |
| `ApprovalPromise.tla` | what an approval promises, without ledgers, updates or restarts |
| `CallLedgerProofs.tla` | the theorems about the calls |
| `MCCallLedger.tla`, `CallLedger.cfg` | a small instance of the calls |
| `Recovery.tla` | the refusals, the failure debt, the recovery budget and the stall tracker of `loop/`, over restarts |
| `RecoveryProofs.tla` | the theorems about the recovery |
| `MCRecovery.tla`, `Recovery*.cfg` | small instances of the recovery |
| `CompletionGate.tla` | the completion gate, the expected changes, refusals, stops and closing reports of `loop/` |
| `ReplyDelivery.tla` | the messages, files and receipts of `loop/`, over crashes and resumes |
| `ReplyDeliveryProofs.tla` | the theorems about what is delivered |
| `Intake.tla` | how `intake/` plans a turn: concurrent, patient decision calls, and the words of a route |
| `TurnDecision.tla`, `ToolSelection.tla` | what a decision asks, reads and is normalised by; the batches of a tool selection (no state; `Intake` uses them) |
| `TaskGoal.tla`, `OutcomeContract.tla` | what a task owes from message to message (extends `Intake`), and the contract that says it (no state) |
| `TaskContext.tla` | the records of a task, the compacted prompt, the checkpoint and the rebuild |
| `Kept.tla` | the entries of a sequence that are kept (no state; `CompletionGate`, `TaskContext`, `TurnDecision` and `OutcomeContract` use it) |
| `ContextAndGateProofs.tla` | the theorems about the memory of a task and about the gate |
| `AcpSession.tla` | `acpagent/` and the kernel's choice of a run: prompts, children, steers, ledgers |
| `AcpSessionProofs.tla` | the theorems about the session |
| `StepAction.tla` | one step: what is offered, answered, corrected, queued and dropped |
| `ToolExposure.tla` | the working set of a step (no state; `StepAction` uses it) |
| `StepActionProofs.tla` | the theorems about the steps |
| `MC<module>.tla`, `<module>*.cfg` | small instances of each of the others |
| `PROJECT.json` | components, runs, mutants, findings, hazards, theorems, and the source lines of every definition |

## Inventory

What the system is made of, what each part keeps, and what makes it correct. Paths are relative to
the repository.

**Turn clock** (`turnclock/`, 258 lines). State: the list of pauses, the number of open ones, a set
of alarms with their timers. Operations: `Pause`/resume, `WithActiveBudget`, `ActiveSince`, timers
ringing, contexts ending. Used by the kernel and the loop for every budget, and paused by the
approval gate and the ACP catalog while a person is asked. Hard: timer goroutines that fired but
wait for the mutex, three mutex sections in one call, a context that several goroutines race to
end. Correct when no time is lost or gained, no alarm is lost, and every deadline is earned.

**Turn loop** (`loop/turn_runner.go`, `turn_results.go`, `limit_stop.go`, `completion_at_stop.go`,
`stall_recovery.go`, `terminal_no_tools.go`). State: the iteration, the counts, the observations,
the attachments; and the task run in the store. One goroutine; around it the clock, the caller, the
requester who cancels, and the host that parks the run on a person. Hard: each of these may fall
between any two store accesses, and there are some twenty ways out of the loop. Correct when the run
is never left open without an owner, a final answer means a completed run, the host is told what is
stored, limits hold, and the turn ends.

**Elapsed budget** (`loop/elapsed_budget.go`, `turnoptions/`, `iterationcost/`). The wall is priced
by the level's steps at the measured cost of one, refreshed after every model call, widened by a
plan, and extended by one level at the first limit met. Correct when a budget in hand never shrinks,
a host's wall is the host's, and a task is granted a level once.

**Task-run store** (blueprotocol's `taskstate`, not in the repository). Statuses, an event ledger
per run, cancel functions registered per run, observers. The loop, the kernel, the gate and the ACP
session all write to it.

**Approval gate** (`approval/`). Holds in the ledger: recorded, asked, decided, spent. Hard: a crash
between two writes, identical calls, answers that come late or from elsewhere, updates that are lost
on their way to the host. Correct when one approval lets one call pass, the one that was shown.

**Expected changes and the completion gate** (`expected_changes*.go`, `completion_changes.go`,
`requested_field_check.go`, `completion_gate.go`, `completion_at_stop.go`). State: the list of what
the request should change, which a goroutine defines once; the latest check and the number of
observations it was made of; the refusals among the observations. The gate, the stop question and
the report read it, each on a context of its own. Correct when a verdict is about what the turn did,
no state is refused twice, a reader waits no longer than its context, and what stays unmet is told
by whatever words the models could write.

**Stall and recovery** (`stall_recovery.go`, `action_loop_progress.go`, `failure_debt.go`,
`recovery_*.go`). Counters and signatures over the observations; four directives before a stop.
Hard: half of the actions never reach the tracker. Correct when a turn without progress stops, and
one that recovers is not charged for it.

**Reply delivery** (`reply_action.go`, `checkpoint_message.go`, `finish_redelivery.go`,
`finish_reply_rewrite.go`, `validity_state.go`, `failure_report_build.go`). State: the attachments in
hand, the paths already sent, receipts in the ledger. Hard: files change after they were delivered,
and the process may die between a reply and its receipt. Correct when a file goes out once, as it is,
sound, and also from a turn that is stopped.

**Intake** (`intake/`, `turnclassification/`). A message becomes a decision: one request of
questions, tool selections split into batches that run at once under a context the first failure
cancels, each call cut at its measured patience; then a chat model words the route. Correct when a
selection is whole, a decision does not contradict itself, and a cut is no failure.

**Outcome contract and goal** (`outcome_contract.go`, `active_goal.go`, half of `agent_kernel.go`).
State: the goal the host keeps, the decisions a run recorded. Each message makes a contract anew, of the
goal's or of its own. Hard: five routes, a host that hands over any run, names of old, tools that go, and
records written after the turn. Correct when a task owes what was asked of it, no more, no less, and
nothing it cannot do.

**Task context** (`task_context_*.go`, `tool_result_*.go`, half of `agent_turn_state.go`). State: the
records in memory, the ledger, the checkpoint, the transcripts. Correct when nothing recent or
pinned is hidden, counts survive a resume, and a resumed task reads what it could read.

**Step and tools** (`step_request.go`, `tool_exposure.go`, `tool_selection.go`, `plan.go`,
`turn_action_document.go`, `batch_drop.go`, `action_schema.go`). State: the plan, the tools selected
for its step, the cached exposure, the queue of a response's calls with the tools they were chosen
from, the count of corrections. Correct when a menu is made for the step, a call of a response is
made with its own tools or told as not run, and no answer is asked for without end.

**ACP session, steering, delegation, kernel** (`acpagent/`, `delegation.go`, `agent_kernel.go`). State:
the session's current run, the tail of its ledger, the turn and its child, the steers a turn applied.
Hard together: every event of any run makes it the session's current one. Correct when nothing is
told twice, a resumed run goes on as what it was, and every end reaches the run it was meant for.

**Instruction bundles** are text put together without state; **turn stream, tape, trace, bench,
command line** are plumbing. The **task-run store** is not in the repository.

`PROJECT.json` lists every part with its status, and under `hazards` the places where this code is
hard to test, each with the properties that watch it or why none does yet.

## Plan

Done, in this order: `TurnClock` with `ActiveBudget` (everything else is measured by it), `TurnRunner`
(the turn), `CallLedger` with `ApprovalPromise` (holds, answers, crashes), `Recovery` (refusals, debt,
stalls), `CompletionGate` and `ReplyDelivery` (the ends of a turn), `AcpSession` (what drives it), `StepAction` on
`ToolExposure` (its steps), `TaskContext` (its memory), `Intake` with `TaskGoal` (the beginning of a
turn). All are proved about: every invariant a run checks is stated by a theorem.

Left: the wall of a child against its parent's, which needs the clocks of two turns; the median of the
iteration cost; and that `CompletionGate` and `Recovery` give only verdicts `TurnRunner` allows.

## The clock

`TurnClock` takes one step per mutex section and one for each thing the code does outside the mutex.
`WithActiveBudget` is therefore four steps (`RequestBudget`, `RefuseSpentBudget`, `WatchParent`,
`InsertAlarm`), `ring` is three (`TimerFires`: the goroutine starts; `Ring`: its mutex section;
`Expire`: the context is finished), the parent's watcher is three, and so is the cancel function. The
variables are the fields of `Clock`, `alarm` and `budgetContext`, plus where each call and each
goroutine is. Time is counted in ticks. `Active` counts the ticks the clock ran; `ActiveBetween` is
the code's subtraction of overlaps, and `OverlapsCountTicks` says they agree.

The state a budget is requested in is arbitrary: its start may be any instant up to now, as it is
when the kernel measures from the arrival of the request. What is left out: a context without a
clock (the standard library's), and deadlines that `Deadline()` reports.

`Ring` keeps the code's re-check of the budget under the mutex, and the proof shows why it is only
a safeguard: a ring that finds the clock running and its alarm present always finds the budget spent
as long as `silenceAlarms` and `arm` do their work.

*Run.* `turn_clock`: a work budget of 1 tick inside a total of 2, two pausers, one pause each, 3
instants, under fairness: enough for a pause inside a pause, a pause that begins while a timer has
fired, and a parent that ends while its child's ring is on its way. Deadlock is not checked since time
stops at the bound.

*Fairness.* A goroutine that started runs, a timer that is due fires, and a call that began
finishes. Nothing makes time pass, a person answer, the caller end or the owner cancel.

*Proved* (`ClockAndGoalProofs`, first part), for all budgets, any nesting, any number of pausers and no bound on
time that matters: `TypeOK`, `AlarmWillRing`, `NoTimerIsReplaced`, `DeadlineIsEarned`,
`OverlapsCountTicks`, and that the clock implements `ActiveBudget`. Assumptions: `ClockAssumption` only (a finite set of pausers, sizes
and bounds natural, parents are budgets or the root). `AlarmWillRing` is not inductive: it needs to
know that all pauses but the last are closed and the last is open exactly while somebody holds the
clock, that an alarm belongs to a call past its insertion, and that a pending timer is due exactly
when the budget is spent if the clock keeps running. `IInv` is the conjunction of these; the lemmas
before it say how `Active` changes when the clock ticks, when a pause opens and when it closes. The
refinement needs one more fact, that a budget whose ring is on its way to finish it stays spent.
`OverlapsCountTicks` needs that each pause ends before the next begins (`OrderInv`), so that no tick is
taken off twice. The sum over the pauses is a recursive function on sets; the number of ticks that some
pauses took satisfies its equation, which shows that there is such a function, and that it gives this
number is shown on a smallest set of pauses over which the two would differ (`OverlapsAddUp`).

## The turn

`TurnRunner` takes one step between any two points where the clock, the caller, the requester or the
store can make a difference: `pc` names these points. `Calling` are the points where the goroutine
waits for a model, a tool or a notice; `Inside` the ones where it runs. `stop` says why a turn is
being stopped, since the stops share the completion question (`AskIfDone`, `CheckAnswers`), the
notice (`NoticeWritten`) and the failing of the run (`FailRun`). `result` is what the host can tell
of an `AgentTurnResult`: a final answer, a notice, silence (`ReplySuppressed`) or a notice nobody
could write; and the status it carries, which may differ from the stored one.

`finishedTurnResult` is three steps, since it goes to the store three times: `Commit`, `LookIfCancelled`
and `KeepUncommittedReply`.

Kept: every early return of `RunTurn` and `handleToolCallAction`, the order of store writes and
notices, which context each call runs on (`CallContextEnded`, `CheckContextEnded`), the budgets and
everything that changes them. Abstracted: levels have a few steps and ticks (`Steps`, `Duration`);
observations are gone, and with them the verdicts computed from them are nondeterministic -- the stall
tracker, the completion gate, the recovery allowance, which batched actions are kept, what a plan
names. The store may accept or refuse a transition where the repository does not say
(`MayMove`, `MustMove`). Approval pauses are left to the clock: `active` is active time. Three or
more levels, several turns and crashes are in `turn_runner_restart`; delegated turns and callers'
deadlines in `turn_runner`.

*Bounds.* `MaxActive`: ticks one turn is watched for, always past the longest wall. `MaxBatch`:
actions behind one answer. `MaxTurns`: turns of a task.

*Runs.*

- `turn_runner` (2 levels of 2 and 3 steps, walls of 3 and 6 ticks, a cheap and a dear measured cost;
  options priced by the level, by the caller, under a deadline of 4, and of a delegated child; 4.7
  million states). `RunIsClosed`: over, the run is only left open for a person or for whoever
  cancelled the caller. `SilenceIsOwned`: whoever gets no word, because the reply is suppressed or
  because its notice was never written, cancelled the run, went away or delegated it -- or there was
  nobody left to write: the notice of a turn that was abandoned or never launched, whose run is told
  as failed, and a last step without tools whose block the store refused. `ToldIsStored`: the host is
  told the stored status, unless a cancellation or a person's hold landed meanwhile. `NoBudgetIsLost`:
  only a plan that names a larger level makes a wall shorter, and to what that level costs.
- `turn_runner_restart` (3 levels, 2 turns, refused writes, crashes, cancellations; 648,694 states).
  `ReplyMatchesRun`: a final answer exactly for a completed run. `EveryTurnEnds`: under fairness,
  though no call returns before its context ended, the turn ends or waits for the notice of its
  failure (`AwaitsFailureNotice`).

What these must except, TLC refutes when it is claimed: `HostWallIsKept` (`TurnRunnerWall.cfg`), a host's
wall is made shorter; `GrantedOncePerTask` (`TurnRunnerGrants.cfg`), a task is granted two levels in two
turns; `NoNoticeHoldsTheTurn` (`TurnRunnerNotice.cfg`), a notice holds a turn (see Findings).

*Fairness.* Time passes and ended contexts propagate (`Tick`, `WorkEnds`, `TaskCancelArrives`); the
goroutine runs between calls; a call whose context has ended returns. A call on a live context need
not return at all, and that holds of the writer of notices too. The notice of a failed turn is
written on the task's context, which has no bound (`limit_stop.go:134`), so that `EveryTurnEnds` says
where a turn may be held, and no fairness lets it go.

*Proved* (`TurnRunnerProofs`), for any levels, prices, options, faults and bounds: `TypeOK`,
`StepsAreBounded`, `ReplyMatchesRun`, `SilenceIsOwned` and `NoBudgetIsLost`.
The one assumption, `RunnerAssumption`, says that levels grow, that prices are positive, and that a
turn starts with no more steps and calls than any level larger than its own gives and with a wall
within its deadline. The code justifies the last part: the kernel takes steps and calls from the
level (`agent_kernel.go:844-853`), a child gets what is left of a parent that was granted one level
at most (`delegation.go:52-59`), and a deadline caps the wall. None of the properties but `TypeOK`
is inductive. `NoBudgetIsLost` needs `BudgetInv` -- a plan that widens finds less in hand than the
level it names -- and `ScaledIsNoLess`: scaling the wall by a ratio of at least one loses nothing to
integer division. `StepsAreBounded` needs to know at which points an iteration has been counted
(`Counted`). `ReplyMatchesRun` needs that a run is completed only on the way to its final answer.
`SilenceIsOwned` needs `ContextOwned`: the task context ends only with the caller's or after a
cancellation in the store, the work context is cancelled only by the task context, and a cancelled
run stays cancelled within its turn (`CancelledStays`); and `UnsaidInv`, that nothing but a notice
which could not be written leaves a turn with nothing to show, and why it was asked for (`Unsaid`). `BudgetMoves` says that a step changes the
budget in one of four ways or starts a new turn; each has a lemma of its own.

`RunIsClosed` and `ToldIsStored` are proved under one more hypothesis, which the run `turn_runner` has
too: the store refuses no write (`"store" \notin Faults`). A store that may refuse any write may refuse
the last one, and the run stays open. The argument is one fact for each `pc` (`StagesAreStored`): what
the run and the messages look like when the turn has come so far.

## Calls, approvals and the ledger

`CallLedger` follows a tool call from its request to its result. The turn's `pc` goes through the
writes of `invokeTool`, `Gate.awaitApproval` and `saveToolObservation` one at a time, so that the
process may die between any two. There are three copies of the ledger: `ledger`, the loop's; `kept`,
the host's; and `tail`, the records no call has carried yet. `AppendEvent` is the append and its
observer: the record joins the tail, and the session update that takes it to the host arrives or is
lost (`sendLedgerEvent` drops the error). `Send` hands the tail to the call (`carry`), and the host
takes it when the call arrives, which may be after the turn gave up waiting or after the process
died. A host that shares the loop's store (`shared`) loses nothing; both kinds are in one run.
`StartSession` makes the kept records the ledger (`replayLedger`) and tells the turn what
`restoreAgentTaskState` tells it. `HostDecides` is a person's decision that reaches the host some
other way than as the answer to the question.

A ledger is a set of records with the number of the attempt that wrote them: nothing is read from it
that needs more order than that. Observation numbers are computed as in the code
(`NextObservation`), since they can repeat.

Assumed of the host, which is not in the repository: it takes the records of a call before it runs
the call; it opens a run again, or lets a person decide a dead process's hold, only when the calls of
that process have arrived or are gone; and while the process lives it does not ask again what was
answered. An update that arrives late instead of at once would show the host nothing in between that
these rules let it act on. Left out: the checks that refuse a repeated call before it is requested
(so the model repeats more freely), calls the host carries out itself, the clean restart of a
stalled run, the wording of the question.

*Runs.* `call_ledger`: two calls that need approval and one that does not, interchangeable where they
may be; 2 attempts, 3 sessions; 444,994 states. Two attempts are what it takes to use one hold
twice, to repeat a call under a new hold, or to use a hold from an earlier session; a third session
resumes a resumed run. `KeepsThePromise`: every step is a step of `ApprovalPromise`, in which a call
runs only on the person's last word, once, and as shown. `ApprovedUnspentHasNotRun`: the note a
resumed turn gets about an approved call is true. `HostCanJustify`: the host
has the records of whatever reached it.

Deadlock is not checked, since a run may stop after its last session.

*Proved* (`CallLedgerProofs`), for any calls, attempts and sessions, with `CallAssumption` and
`BoundAssumption` only: the refinement of `ApprovalPromise`, `ApprovedUnspentHasNotRun`,
`HostCanJustify`, and two facts no run repeats: the host has the request of every call that reached it
(`InterruptedIsKnown`), and no hold is decided twice (`OneDecisionAHold`). The invariant is about where records
are: `RecordsInv`, that a record anywhere -- in the ledger, in the tail, with the host, on its way --
tells the truth about what was shown and decided; `UseInv` and `FlightInv`, that the hold, the
approval and the spending of the call in hand or on its way are with the host or travel with it;
`ReadyInv`, that the host knows of every hold a later call could use; `EarlierInv`, that it has every
decision of an earlier session, so that a person is never asked again what the ledger says was
decided (`UndecidedAnywhere`). `TypeOK` bounds the observation numbers, which may repeat and grow with
every resume: no number in use is above what the attempts so far and the sessions so far allow (`Reach`
in `ObservedInv`), since a resume takes the largest number in the records it is given. Observation
numbers play no part in the rest.

## Refusals, debt and stalls

`Recovery` is about what the model may call next. Its state is the sequence of results of tool calls
(`results`), from which the code computes everything else at each step: whether a call repeats one
that succeeded, was sent or failed (`Refused`, the checks of `rejectRepeatedToolCall` in their
order), whether the turn is in debt and since when (`Owed`, `EpisodeStart`), what kind of recovery a
call would be and whether the budget has any left (`StepAfter`, `BudgetAllows`, `NoRouteLeft`), and
how much progress there was (`Progress`). `tracker` is the stall tracker, `pc` where the turn is.
`HandleToolCall` is one action, since nothing else runs between its checks: `Verdict` gives the
guards in the order of `handleToolCallAction`. `Resume`, `ResumeCarriedOut`, `RestartClean` and
`Restart` are the ways a task goes on in another turn, and say which results the new turn knows and
which marks they have lost; results are never removed, so properties can speak of forgotten ones.

A result carries what the guards read: the call (a tool and a record of fields), the outcome (a
failure may be final or need an interaction), the recovery step, whether the output is new, and
whether the host carried the call out. Contents, summaries, guidance and directives are left out: no
guard reads them. Which of the three directives is sent makes no difference to what follows, so they
are one action. What else is left out is listed at the head of the module.

What counts as news is the code's (`Progress`). Three histories measure the turns without any: `unread`,
the unreadable answers in a row, is the code's own count; `idle` are the actions since the last new
result that the tracker was asked about, and `barren` all of them. The two differ, since the loop asks the
tracker only when it refuses an action or an action calls nothing, and of a repeated output only while a
suggested tool waits.

*Run.* `recovery`: nine calls (deleting, updating and listing calendar events, two messages to one
person, a read, an edit, a build and a tool the turn may not use), each budget 1, a limit of 2 calls, 2
quiet actions before a directive and 1 directive, 2 unreadable answers in a row, 4 results, resumes and
restarts together; 238,120 states. Four events are
enough to fail, recover, be resumed and repeat; the small budgets make the limits meet: the recovery
budget extends the call limit, a rationed call is a quiet action, and the last directive can be followed
by a pause, a stop or new progress. Unreadable answers, repeated outputs and a tool the turn may not use
matter to the count of what brings nothing new, which a resume starts over; where they come in play, the
constraint `Bound` allows only calls that bring nothing new, each in a way of its own, and no resume.
`ClosedStaysClosed` and `SentOnce`: what failed or was sent is not
repeated, over resumes. `RecoveryRationed`: the budget holds over a whole episode, not per failure.
`ThrashIsBounded`: `idle` is bounded by the two limits of the stall control,
whatever came between, and `barren` by those and the calls made, since what the tracker is not asked about
is a call or one of few unreadable answers. `StopsWithoutNews`, that `barren` is bounded as `DOCS.md:344`
says, TLC refutes (`RecoveryRepeats.cfg`; see Findings). Deadlock is not checked: a turn ends.

`SentOnce` and `ClosedStaysClosed` are stated of the turn's own calls: the key recorded for a call
the host carried out names no tool, and the refusals do not recognise it. A turn that starts clean
after a stall forgets all but deliveries, sent messages included; the properties speak of what the
turn knows.

*Proved* in `RecoveryProofs`, for any calls, kinds of tools, budgets and limits, and any number of
results and resumes: the four properties of the run besides the types. The inductive invariant
adds three parts. `StallInv` says that `idle` is what the tracker has counted (`StallAfter` actions for
each directive sent, and the quiet ones since), plus one that progress may have hidden: while the
turn goes on, once one action brought nothing, what is there to count is no more than `last`, so
every further one is counted. `BarrenInv` says that every other action made a call or was an unreadable
answer, of which fewer than `MaxUnreadable` come in a row while the turn goes on.
`StepInv` says that a result marked with a recovery step followed a
failure that nothing had cleared: every recovery step of a stretch therefore comes after
`EpisodeStart` and is among those `Used` counts, which is what makes the ceiling hold for stretches
of any kind and not only for those the code looks at. The steps change the results in three ways
only (`Reshaped`: a result of the turn's own that passed every guard, a restored ledger, a restored
ledger with a carried-out call), and each property is proved from those three.

## The ends of a turn

`CompletionGate` begins where the model says it is finished. `Finish` checks the facts (a failure
debt, a delivery that failed, a flawed file or claim); `AwaitList` waits for the list of expected
changes on the context of its reader; `Judge` makes the check or takes the remembered one; `Settle`
lets the finish through, refuses it, or delivers it as a best effort when its time has run out;
`Answer` commits. `Stop`, `BeginStop`, `FinishStop`, `CloseUndone` and `Report` are the same check at a
limit, when time is up and after a failure. A report is written by a model, and then lists each change
with its state, or it could not be written and a fixed text that names none takes its place
(`limit_stop.go:97`, `:165-171`, `turn_results.go:177-181`); without a model to write with, time that is
up asks for no check at all (`ReportUnasked`, `limit_stop.go:80`). `outcome.says` tells them apart. A call and its outcome stand for its input, result and
effects, and `Judged` is the state the decision model is shown: the distinct calls that recorded a
change, the latest ones that did not, the latest lookups. The model's answers are any answers.

*Run.* `completion_gate`: two changes, one of them in a field that a call writes, three calls, three
observations, one unrecorded call and one lookup kept, so that the windows overflow; the menu withdraws
and offers its terminal actions after 2 and 3 refusals. `RefusedOnce`: a refusal is given once for a
state. `VerdictHolds`: the check a turn ends on is of its calls as they stand, and none that recorded a
change is missing from it. `UnmetIsTold`: a completed run's reply names the changes its last check left unmet,
unless its time ended first, and so does every report that was written.
`TheWaitEnds`: with fair readers and a work and a closing context that end, nobody waits for the list
for ever; a report on the caller's context may, and is excepted.

*Proved* (`ContextAndGateProofs`), for any changes, calls, limits and windows: the three safety properties.
They are proved beside those of `TaskContext`, whose module names other things with other names for that
reason, since the windows of the gate and the cuts of a compaction keep entries of a sequence with the same
operator (`Kept`), and rest on the same lemmas about the ranks of what is kept. `GateInv` says of the
check remembered at the present count, and of the one in hand, that it is of the state it is used in, and
is new over it unless it says that it repeats (`IsAbout`); that no two refusals are over one state
(`Refused`); and that a run still going has not been told anything (`ToldInv`). The remembered check is what makes it
delicate: it is taken when the number of observations is the same, and `Judged` must not have changed.
What the windows drop never matters to the two, since a check and a
refusal are compared by what was judged, windows included.

`ReplyDelivery` is about files and words. `disk` has a version and a shape of each file; an attachment
is the version and shape its delivery checked. `Call`, `Delegate`, `Reply`, `Send` (the message goes
out), `Ask`, `Finish`, `Redeliver`, `Judge` and `Stop` are the steps a turn can be between when the
process dies (`Crash`); `Resume` reads the receipts back, and after a restart drops the failures.

`posted` is how each file came to the requester before the end: with a reply whose receipt is written
(`receipted`), or so that nothing notes it (`unnoted`) -- with a question that parked the run, whose result
carries every attachment of the turn (`Ask`, `turn_results.go:58`), or with a reply after which the
process died before the receipt (`Crash` while replying, `reply_action.go:145-151`).

*Run.* `reply_delivery`: two files, one of a format that is looked at, two messages besides a reply of
files alone, two of which may be sent mid-task, three observations, one resume; where something was posted
without a note no file changes (`Bound`), since no step reads that. `CarriedIsFit`: what a
finished task carries is as it lies on disk, and sound -- unless a child, or a call whose failure a restart
forgot, changed it, which the code cannot see (`unseen`). `ReadOnce`: no message of a turn, and no reply or
file of the task that has its receipt, comes a second time with a message or the end of the task, resumes
included; what is unnoted may. `StopLosesNothing`: a turn stopped at a limit leaves no delivered file
behind. That a question carries no receipted file again (`DeliversOnlyOnce`), TLC refutes
(`ReplyDeliveryQuestion.cfg`; see Findings).

*Proved* (`ReplyDeliveryProofs`), for any files, formats, messages and limits, and any number of crashes
and resumes: all three. The invariant has one part for each thing that must agree. `FilesInv`: a file
whose delivery succeeded is in hand and on record, and what `sentPaths` says was sent is what came with a
receipted reply (`KnownAsSent`).
`WordsInv`: every reply has its receipt and every message of the turn its record until the process
dies, and there are as many messages as records, which is shown with an injection into the
observations. `CurrentInv`: the latest delivery of a file shows it as it is, or a later recorded call
changed it, or something the code cannot see did (`unseen`). `AsJudged`: when a reply is judged, no call
comes after the delivery of a file it may carry. A resume keeps the order of what it keeps and marks
what it drops as forgotten (`Recalls`, `Forgets`), and each part is shown to survive that once.

## The beginning of a turn

`Intake` follows `PlanObserved` and `SelectToolNames`: the calls of a batch (`Send`, `Answer`, `Fail`,
`Cut`, `Abandon`) interleave with each other and with the caller's leaving; `ReadDecisions` and
`ReadSelection` read them when all are back; then the words of the route are asked and, once,
corrected. `TurnDecision` holds the questions that depend on the request, the readers, and the rules
of `turn_decision_normalization.go` in their order; `ToolSelection` the packing of tools into requests
and the choice among the answers. Bytes are small numbers and probabilities hundredths.

*Run.* `intake`: every combination of the fields a host may hand over that a rule looks at; turns to
route with each fact known or not and each model missing; needs over every catalog of up to three
tools of two providers and sizes 1, 2 and 4, and four of one provider, with a request of 7 bytes.
`SelectionHolds`: tools are picked from a whole selection, in which each was asked about once, in
requests that fit where they can. `DecisionHolds`: nothing is read that was not asked, and normalising
the decision handed on again changes nothing. A cut call cancels no other (part of `SelectionHolds`).

`TaskGoal` composes `Intake` with the kernel. `PlanIt` is a step of intake; `TakeUp` is `RunAgentRequest`
with the goal the host saved or none, on the goal's run, a run opened for the message, or no run;
`TurnEnds` saves goal and decision, `Crash` saves neither, and `ResumeTask` takes the run up with what it had
recorded; with `MessageArrives` tools may have come or gone. `RunAgentRequest` has the early ends in
their order: the time is up, a question, a request that is not supported, a plan that must be clarified;
else the turn works under `ContractOfTurn`. `OutcomeContract` has the operators for it, each named for its
function: `ContractFor` continues a goal that requires something or starts anew, `Sanitize` puts it in
shape, `Discharged` drops the question that was answered, and `Reduced` what no tool can meet. A goal
carries `named`, a history of the tools its own messages spoke for, which no action reads.

The messages are part of the run `intake`: twelve decisions over the routes that work and those that do
not, eight tools of different kinds, one of them the old name of another. Messages, hosts and skills speak
of tools by the names of now, all of them registered, or without file delivery, or without two; four sets
of hints, five plans. Two goals an earlier program left: one asks a question under an old name and owes a
file, the other carries an artifact and a draft where a link is all that is required. Two messages
(`MaxMessages`) and any number of crashes and resumes: one makes the goal, one meets it. `ContractHolds` is
that a turn can meet what it must show (`CanBeMet`), that what was answered is not asked again (`AskedOnce`),
that a task owes nothing of another (`OwesItsOwn`, `DOCS.md:305`), that a message which continues it lets go
of nothing, except for the reasons the code has (`KeepsWhatItOwes`), and that a saved goal reads back as it
was (`SavedIsWhatIsRead`).

*Proved* (`ClockAndGoalProofs`, second part), for any requests, answers and words of the models, any tools
and renamings of them, any hosts' decisions and saved goals, and any number of messages, crashes and resumes:
`SelectionHolds`, `DecisionHolds` and `ContractHolds`. The last two say of an end what many functions in a
row come to, so the invariants say which shape each step leaves. `PlanInv` follows a decision through planning: `ReadAs` is what
the readers leave (a route, class and level that agree, no words yet), `Proposed` what the normalised fields
are, `TogetherAs` what is handed on; a lemma for each rule of `turn_decision_normalization.go` says which
fields it may touch and that it does nothing the second time. `Tidy` is what `NormalizeExpectedResults` leaves
of a list of results (each about something, no two alike, one reply at most), and normalising a tidy list
changes nothing. `TaskHolds` does it for contracts: `Shaped` is what `NormalizeOutcomeContract` leaves, `Clean`
what `Sanitize` does, `Narrows` says that a contract asks for nothing the one it came from did not, and is
kept through `Continued`, `Discharged` and `Reduced`; a goal owes only what its own messages named, which is
what two tasks that share a host are kept apart by. The lists are filtered by `Keep`, about which the lemmas
on ranks (`RanksAreDistinct`, `EveryRankIsTaken`) say that it is a sequence of what was kept, in order.

Of the selection it is proved that it asks about every tool exactly once, in requests that fit if each tool
alone does (`PlanSelectionIs`), whatever the sizes and providers. Its loops are recursive functions, which
`RoundsExist` shows to exist for any number of rounds: the set of rounds without one has no least member.
The bytes of some tools are the size of a set (`BytesIn`), so that they add up over batches; `InOrder`
lists every member once; the runs are parts of the catalog. That a selection which fits is found follows
from the last one that is tried, a batch for each tool: the share is then no more than the largest tool, so
no run is larger than that, and while there are no more runs than batches the lightest batch is an empty
one, so that each run has one of its own. `SelectInv` then follows the calls: they ask for the whole catalog as long as they are open (`AsksWell`), tools are picked only of answers to
all of them and no more than the limit (`PickedWhole`), and one is cancelled only when the caller left or a
call failed of itself (`Reasoned`).

Assumed of the constants: `BudgetAssumption` (the budget and the fixed part of a request are sizes, and the
limit of tools is not none), `ToolsAssumption` (three named tools go by their own names, what delivers a file
neither sends, edits nor drafts, a renaming ends in a current name), `TurnsAssumption`, `TaskAssumption`
(messages, skills and hosts use names of now; a saved goal owes what its messages spoke for), and
`TextsAssumption`, that the program's names are strings: true of every string of TLA+, and stated because
the provers do not know it. The proofs of the clock and of the goal have nothing to do with each other but
the module they are in.

## The steps of a turn

`StepAction` has the head of a step (`StepHead`: the stage of the budget, the plan's tools, the
exposure and its cache), the model's answer (`Answer`: read, unreadable, corrected, cut) and what is
done with it (`Act`, which also takes the next call of the queue). `ToolExposure` is the working set,
group by group in the code's order; what is offered is a set, since nothing the step does depends on its order.
The values of a call do not matter, only its tool, its response and its place there. What a call is answered, and whether it settles the debt, are choices.

*Runs.* `step_action`: three kernel tools, four of the host of which three fit, requests in free words,
with a contract for two tools in order, and with delegation on very small limits; batches of a plan, an
equip or a message and calls behind them, and of a call, a final reply and a call behind it; two steps,
one restart. `QueuedKeepsItsTools`, `AnswerIsAccountedFor`, `OfferedForTheStep` (the contract's next tool is offered; a plan's step is not
offered another's tools, in one process), `EveryAskEnds` (assuming only that a model's call comes back,
fails or is cut). `revived_tools`: the tools of another step (see Findings).

`AnswerIsAccountedFor` is about what the model may believe it did. `open` are the calls it named, read or
not, that nobody handled. When it is asked again, each waits or stands in a record that says it was not run,
with two exceptions, which the code makes without a word: those behind the first of their response that
cannot be read or ends it (`behind`, `agent_turn_state.go:1051-1061`; all of them after a first one that is
a reply), and those that waited or were being made when the turn parked or the process went (`swept`). And
none is made after a failure of its own response.

*Proved* (`StepActionProofs`), for any tools, skills, requests, answers, shortlists, hints and limits:
the three safety properties. `ToolsInv`: the queue waits with the tools its calls were chosen from, the
call in hand is one of them, and so is what came with it. `FailInv`: what waits is of an answer that was
given and of which no record says that it failed; an answer that is new has no record yet, which is why
failures are compared by the number of the answer. `OpenInv`: a call that was named waits, is in hand,
is told, or is one of `behind` and `swept`. `PlanInv`: a tool list is of the step it was selected for, and in one process of the step in
progress. `MenuInv` is about the kept exposure: tools made for a key serve it (`Serves`), that is, they
have the tool which the key says the contract waits for, wherever the recovery's leave it room. For
this a lemma (`ExposedServes`) goes through the groups: the second is counted right after the first.
Assumed of the constants: `Callable` is a sequence, every skill has its tools, an answer's calls are
numbered from 1, and at least one unreadable answer is needed to end a turn (`MaxUnread`, 3 in the code).

## The memory of a task

`TaskContext` keeps the records in memory, the ledger and the checkpoint apart. `Prompt` compacts when
the prompt outgrows the budget: the summary, the decision model's choice among the older records, or
its failure; `Resume` rebuilds. A record is its kind, its size and its text as a number.

*Run.* `task_context`: three records, three messages of which two are alike, a budget that one record
more overflows, a decision model or none, one pause or restart. `HiddenIsSettled`: the recent records
are in the prompt, and the newest, the pinned and whatever the model gave as evidence (`cited`) are there
whole; a call of the ledger that is not there was judged unrelated by a decision, so that none is missing
where no decision model is; and only there is something cut out of a record (`tool_result_pruning.go:18`),
which is why what is carried (`Carried`) and what is carried whole (`Whole`) are told apart. `CountsSurvive`: a resumed
task has made as many calls as were made. `RestartLosesNothing`: it reads the same records, and those
that are hidden can be read back where the summary says, unless the host's store may fail, which it may
not in the run. All three are stated of an intact task: a restart in debt drops the failures from memory,
and what comes next takes their numbers again (see below), so from the step in which a record takes a
number that the ledger or the summary already has, the auxiliary variable `intact` is false. The clean
restart of a steered task, which starts its numbers over, is in the module and not in the run.

*Proved* (`ContextAndGateProofs`), for any limits, messages and kinds of result, any number of records,
compactions and resumes, and whether or not transcripts can be saved: all three. `Types` says what is in
memory, in the ledger and in the checkpoint; `Unresumed`, that before the first resume all calls are in
memory. `Sound`, which holds while the task is intact, carries the argument. Two records with one number
are one record (`NumbersApart`), so that a number the checkpoint names means what it meant when it was
written. A record the checkpoint accounts for is hidden, or it is retained there (`HiddenAccounted`,
`AccountedKept`, `RetainedHeld`); one it does not account for is in memory, or a failure that a restart
dropped (`UnaccountedHeld`): so what is rebuilt from the checkpoint and the rest of the ledger is what
was in memory. What is hidden is old, not pinned, judged unrelated and, where the store works, saved
(`HiddenMayGo`), and the ledger has no call that is neither in memory nor judged, but for failures a
restart dropped (`OpenOrJudged`); that evidence stays is because only what the prompt carries whole can
become evidence (`ShownIs`) and what is evidence is pinned from then on. And the checkpoint counts the successes it accounts for and no longer retains
(`GoneCounted`): a record may be retained through several compactions and is counted by the one that
takes it out. Assumed of the constants is `ContextAssumption`: the limits are positive numbers, the
conversation is a sequence of at least two messages, the kinds and the ways to resume are the code's.

## The session

`AcpSession` is what the host drives. `Prompt`, `Replay`, `Plan`, `Launch` lead to a turn; `StepHead`
applies the steers, `BeginCall`, `LoseCall` and `AnswerCall` are a tool call that takes the ledger's
tail along, `Delegate`, `LaunchChild` and `NoChild` the child; `CancelContext` and `CancelRun` are the
two halves of a cancel, and `Steer`, `Panic`, `CloseSession`, `Crash` come at any point. `book` is what
the session writes and what the host has of it.

*Run.* `acp_session`: two prompts, two runs (a turn and its child, or two turns) of two levels, either of
which the host may pin (`withHostTaskLevel`) and the request may raise (`Promoted`), one steer, two calls,
cancellations and the process's death; 2,987,105 states. Where a pin or the higher level is in play the
constraint `Bound` allows no steer and one call, since what is written, carried and heard does not depend
on the level. `NothingTwice`: no record is brought to the host twice and no steer heard twice by a turn.
`SizedTree`: only a prompt's own turn delegates, and the actions of all turns of a
prompt are bounded by the options. `LeftRunningWasMissed`: a run that nobody runs and that is still
open was missed by an end that reached another run, or left by a prompt that replayed another ledger.
`ResumedWhole`: a turn over a replayed ledger knows the calls that were handed over; a run that the host
says it resumes, in this process or a new one, runs no lower than the turns of it that returned, unless the
host pins another level, which the code lets win (`plan.go:70-75`, `plan_test.go:142`); and no turn runs
below the pin. A ledger handed over without that word is planned anew, its level too.

*Proved* (`AcpSessionProofs`), for any runs, levels, limits, steers and number of prompts: all four.
The invariants come in layers, each using those before it. `TreeInv`: no more than two turns are under
way, the second is a child of the first, and the actions are at most what the first has taken plus a full
turn for each delegation that is over. `StreamInv`: what was brought to the host, what the call under
way carries, and the tail are one rising sequence of record numbers, up to the last written. `ToldInv`
and `HeardInv`: a steer stands once in a ledger and in the host's copy, and what a turn heard is what it
applied. `HandedInv`: whoever goes on where a ledger was replayed knows the calls it was handed, is told
what the host says of it, and keeps the level or the pin. `LeftInv`: a run that is open is held by a turn, asked for by a prompt, about to be
reached by a cancel, or `missed`.

In all these runs deadlock is not checked, since a turn or a session ends. Bounds are those of the cfg
files: as large as five minutes allow, and large enough that for each property a plausible mistake in
the code it speaks of (`mutants` in `PROJECT.json`) is found.

## Findings

Promises that a document, a comment or a test makes and the code does not keep. For each there is a
property that states the promise and a configuration under which TLC refutes it by what the code does. The
first is a run of `PROJECT.json`; the others lie beside the runs, which must except what they show:
`tlc -config <file>.cfg <module>`.

- *The tools of another step* (`revived_tools`: `ToolsAreOfTheStep`, `StepActionRevived.cfg`,
  `MCStepAction`). After a selection for a plan's step failed, the turn has
  none for it (`loop/step_tool_selection_test.go:310`); a restart reads back the last selection that named
  tools (`plan.go:94-107`), which was the step's before.
- *The host's wall* (`HostWallIsKept`, `TurnRunnerWall.cfg`, `MCTurnRunner`). "A host that sets an explicit
  wall keeps it" (`DOCS.md:361`); a plan
  that names a larger level prices the wall anew, whoever set it (`plan.go:153`), and a cheap measurement
  makes it shorter than the host's.
- *A second level* (`GrantedOncePerTask`, `TurnRunnerGrants.cfg`, `MCTurnRunner`). The loop extends "once per
  task" (`DOCS.md:365`); the grant is in the
  memory of the turn (`agent_turn_state.go:68`), and a task that is taken up again is granted another.
- *A notice without a bound* (`NoNoticeHoldsTheTurn`, `TurnRunnerNotice.cfg`, `MCTurnRunner`). A notice with
  no deadline "holds the turn, and the
  conversation, open forever" (`abandoned_turn_test.go:115`); the notice of a turn that failed has none
  (`limit_stop.go:134`, `failure_report_build.go:92`).
- *Repeats that nobody counts* (`StopsWithoutNews`, `RecoveryRepeats.cfg`, `MCRecovery`). After three actions
  without a novel result the loop
  steers, and up to four times (`DOCS.md:344`); a success whose output repeats an earlier one is no novel
  result, and is not looked at unless a suggested tool waits (`turn_runner.go:571`).
- *A file twice* (`DeliversOnlyOnce`, `ReplyDeliveryQuestion.cfg`, `MCReplyDelivery`). A reply delivers its
  attachment only once
  (`reply_action_test.go:172`); a question after it carries it again (`reply_action.go:78`).

## Observed while modelling

Places where the code and a document, a comment or a test differ, or where it does what a reader may
not expect. No run states them; the models do what the code does.

- An explicit wall is replaced by the level's, a longer one, after one costly measured step
  (`elapsed_budget.go:44`); a child is charged the time before it twice (`delegation.go:59`).
- A run cancelled before it is launched is answered with a failure notice (`turn_results.go:24`). A
  budget spent between the head's check and the step abandons the turn without the grant and the
  completion question (`turn_runner.go:342`). When the notice of an abandoned turn cannot be written, the
  run is failed and nothing is said (`turn_results.go:41-44`).
- The text that stands in for a report nobody could write names no change, met or unmet
  (`limit_stop.go:80`, `:97`, `:165-171`, `turn_results.go:177-181`).
- The calls behind an unreadable or a terminal one of their response are left out without a record
  (`agent_turn_state.go:1051-1061`), and so are those that wait when a turn parks or the process goes.
- A reply goes out before its receipt is written (`reply_action.go:145-151`): one whose receipt a crash
  forestalled may come again, words and files.
- A level the host pins replaces the one a resumed run had, also a higher one (`acpagent/plan.go:70-75`).
- An unreadable answer is no action for the stall tracker (`turn_runner.go:358-364`); three in a row end
  the turn, and two with a call between them never do.
- The note about an interrupted call is dropped with the inherited failures (`agent_turn_state.go:115`
  against the comment at `:1248`). A resume reads results without their recovery step, so that work
  on another object settles a debt (`tool_invocation.go:30`, `failure_debt_test.go:55`).
- A file revised after its reply went out is not sent again with the end (`reply_action.go:178`,
  `DOCS.md:311`). A restart in debt forgets a failed call that changed a file (`agent_turn_state.go:153`).
- Observation numbers are given out again after a resume that dropped records (`turn_observation.go:148`),
  and a checkpoint that names one then hides the later record, recent or not (`agent_turn_state.go:192`);
  a compaction then takes the later one's call for one it has counted (`task_context_summary.go:206`).
- After enough refusals the menu may offer neither `finish` nor `fail` for a step
  (`agent_turn_state.go:376`). A decided file may be asked of a quick reply.
- A cancel while a child runs ends the child and the parent goes on; one that arrives when the run it
  means is not the session's current one is lost (`ledger.go:73`). Steers during a child reach the child
  only. A resume resets the number of delegations. A ledger's tail is forgotten when it is handed to a
  call, also one that fails (`ledger_stream.go:34`).
- A task that continues turns "one of these tools" into a required send when one of them sends
  (`outcome_contract.go:142`). A clarification is saved with an empty contract, so that the file the message
  asked for is not owed when it is answered (`agent_kernel.go:327`). A run that dies in the turn that answers
  a question is resumed with the decision that asked (`agent_kernel.go:428`).
- A goal that comes down to a link loses its artifact when it is read back or sanitised
  (`outcome_contract.go:201`), and drafts are let go wherever a file is expected, not only where one is
  required.
- A nudge to plan is recorded under the required tool's name and counts as its success (`plan.go:131`,
  `tool_exposure.go:282`). The exposure's key does not tell skill decisions apart (`step_request.go:53`).
  A steer does not drop the calls that wait (`turn_runner.go:317`). A failed selection leaves the title
  of the step before as the active one. A choice of one tool is never split (`tool_selection_call.go:68`).

## What is checked only, and what is not modelled

Checked by TLC only is liveness (`SpentBudgetEnds`, `EveryTurnEnds`, `TheWaitEnds`, `EveryAskEnds`), since
fairness and ENABLED are out of the prover's reach. Where a proof needs an induction it takes the least
counterexample (`LeastExists`), since the prover cannot use the induction theorems. So a recursive function
is reasoned about only where something else is known to satisfy its equations, as the count of ticks does
for the sum of overlaps and `RoundsExist` for the loops of the selection; what the others compute for every
input is not proved.

Not modelled: the turn stream (a channel that drops what is not read), the recording and replay of
model calls, trace bundles, the bench runner, the command line, and the instruction bundles and prompts:
functions of text, or plain input and output. Of the parts with status `partly`, `PROJECT.json` says
what is left out.
