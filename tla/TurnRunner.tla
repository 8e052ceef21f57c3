----------------------------- MODULE TurnRunner -----------------------------
(***************************************************************************)
(* loop/turn_runner.go and the files it stops in: one turn of the agent,   *)
(* from the task run it starts or resumes to the result it hands its host. *)
(*                                                                         *)
(* A turn is one goroutine.  What runs beside it is the clock, the caller  *)
(* that may hang up, the requester who may cancel the run in the store,    *)
(* and the contexts that carry these to the call in flight.  A step of the *)
(* model is what the goroutine does between two points where one of them   *)
(* can matter: a model call, a tool call, a notice being written, or a     *)
(* read or write of the task-run store.                                    *)
(*                                                                         *)
(* The store (blueprotocol's TaskRunStore) is not part of the repository:  *)
(* which transitions it accepts is modelled from how the code and its      *)
(* tests use it, and both outcomes are taken where they leave it open.     *)
(***************************************************************************)
EXTENDS Naturals, FiniteSets, FiniteSetsExt

CONSTANTS Top,           \* task levels are 1..Top (xlow .. max)
          Steps,         \* TaskLevelProfile.MaxIterationCount
          Calls,         \* TaskLevelProfile.MaxToolCallCount
          Costs,         \* measured costs of one step of the model in use
          Duration,      \* Duration[l][c]: elapsedBudgetForProfile of level l at cost c
          MaxClosing,    \* maximumElapsedClosingDuration, in ticks
          StartOptions,  \* the TurnOptions a turn may be started with
          PlanLevels,    \* the levels a plan may name
          RecoveryCalls, \* recoveryToolBudgetTotal: extra calls while a failure is open
          Faults,        \* what may go wrong around the turn, see below
          MaxActive,     \* bound: active ticks one turn is watched for
          MaxBatch,      \* bound: actions batched behind one model answer
          MaxTurns       \* bound: turns of one task

Unmeasured == 0
Levels == 1..Top

\* "cancel": the requester cancels the run in the store     "hangup": the caller's
\* context is cancelled     "deadline": the caller's context reaches its deadline
\* "store": the store may refuse any write     "crash": the process dies mid-turn
FaultKinds == {"cancel", "hangup", "deadline", "store", "crash"}

Options == [level : Levels, steps : Nat \ {0}, calls : Nat \ {0}, elapsed : Nat \ {0},
            source : {"level", "caller"}, deadline : Nat, delegated : BOOLEAN]

ASSUME RunnerAssumption ==
  /\ Top \in Nat \ {0}
  /\ Steps \in [Levels -> Nat \ {0}] /\ Calls \in [Levels -> Nat \ {0}]
  /\ \A l, m \in Levels : l < m => Steps[l] < Steps[m] /\ Calls[l] < Calls[m]
  /\ Costs \subseteq Nat \ {Unmeasured}
  /\ Duration \in [Levels -> [Costs \cup {Unmeasured} -> Nat \ {0}]]
  /\ MaxClosing \in Nat
  /\ StartOptions \subseteq Options
  \* A turn starts with no more than any larger level gives: the kernel prices it by
  \* its level, and a child has what is left of a parent granted one level at most.
  /\ \A o \in StartOptions :
       /\ \A l \in Levels : l > o.level => o.steps <= Steps[l] /\ o.calls <= Calls[l]
       /\ o.deadline > 0 => o.elapsed <= o.deadline
  /\ PlanLevels \subseteq Levels
  /\ RecoveryCalls \in Nat
  /\ Faults \subseteq FaultKinds
  /\ MaxActive \in Nat /\ MaxBatch \in Nat /\ MaxTurns \in Nat

VARIABLES pc,          \* where the turn's goroutine is
          stop,        \* why the turn is being stopped
          status,      \* TaskRun.Status in the store
          caller,      \* ctx.Err()
          taskErr,     \* taskContext.Err()
          workErr,     \* workContext.Err()
          armed,       \* the active time at which workContext ends
          active,      \* active time since EffortStartedAt
          options,     \* agentTurnRunner.options, with state.Request.TaskLevel
          granted,     \* state.GrantedTaskLevel
          retired,     \* warningsRetiredByGrant
          cost,        \* CostOfModelInUse().CostPerIteration
          iteration, toolCalls,
          unreadable,  \* consecutiveUnreadableActionCount
          pending,     \* len(state.PendingBatchedActions)
          spent,       \* iterationSpentModelCall
          asked,       \* a no_progress_loop_paused event is in the task's ledger
          grants,      \* history: one-level grants since the task began
          turn,        \* history: turns of the task so far
          result       \* the AgentTurnResult, as the host can tell it

contexts == <<caller, taskErr, workErr, armed>>
budget   == <<options, granted, retired, cost, grants>>
counts   == <<iteration, toolCalls, unreadable, pending, spent>>
vars == <<pc, stop, status, contexts, active, budget, counts, asked, turn, result>>

NoLevel == 0
NoError == "nil"
Errors == {"deadline", "canceled"}

\* The points where the goroutine waits for a model, a tool or a writer.
Calling == {"deciding", "tool", "delegate", "reply", "gate", "rewrite", "terminal",
            "check", "closing", "notice", "stall pause", "stall block"}
Inside  == {"launch", "again", "head", "count", "prepare", "dispatch", "commit",
            "uncommitted", "keep", "stopping", "unfinished", "failing", "recheck"}

Waiting == {"waiting_approval", "waiting_user_input"}
Statuses == {"planned", "running", "blocked", "completed", "failed", "cancelled", "interrupted"}
            \cup Waiting

NothingYet == [kind |-> "none", told |-> "planned"]

TypeOK ==
  /\ pc \in Calling \cup Inside \cup {"done"}
  /\ stop \in {"none", "max_iterations", "max_tool_calls", "max_elapsed", "failed",
               "abandoned", "launch", "stalled", "no_tools"}
  /\ status \in Statuses
  /\ {caller, taskErr, workErr} \subseteq Errors \cup {NoError}
  /\ armed \in Nat /\ active \in Nat
  /\ options \in Options
  /\ granted \in Levels \cup {NoLevel}
  /\ retired \in BOOLEAN
  /\ cost \in Costs \cup {Unmeasured}
  /\ iteration \in Nat \ {0} /\ toolCalls \in Nat /\ pending \in Nat
  /\ unreadable \in 0..2
  /\ spent \in BOOLEAN /\ asked \in BOOLEAN
  /\ grants \in Nat /\ turn \in Nat \ {0}
  /\ result \in [kind : {"none", "final", "notice", "silent", "unwritten"},
                 told : Statuses \cup {"zero"}]

-----------------------------------------------------------------------------
(* Budgets: elapsed_budget.go *)

WithinDeadline(e) == IF options.deadline > 0 THEN Min({e, options.deadline}) ELSE e

ElapsedForProfile(l, c) == WithinDeadline(Duration[l][c])

ElapsedForGrant(l) ==
  Max({ElapsedForProfile(l, cost),
       WithinDeadline((options.elapsed * Steps[l]) \div options.steps)})

\* workDurationWithinTotal: the total less what closing the turn may take.
Work(total) == total - Min({total \div 3, MaxClosing})

CurrentEffortElapsed == active >= Work(options.elapsed)

BudgetLevel == IF granted # NoLevel THEN granted ELSE options.level

CanExtend ==
  /\ granted = NoLevel
  /\ options.steps = Steps[options.level] /\ options.calls = Calls[options.level]
  /\ options.level < Top

ExtendBudgetOneLevel ==
  LET l == options.level + 1 IN
  /\ CanExtend
  /\ granted' = l
  /\ options' = [options EXCEPT !.steps = Steps[l], !.calls = Calls[l],
                                !.elapsed = ElapsedForGrant(l)]
  /\ grants' = grants + 1
  /\ UNCHANGED <<retired, cost>>

TimeExtends == options.source # "caller" /\ CanExtend

\* Mutant: a cheaper measurement lowers the wall.
RefreshedAnew(c) ==
  IF c = Unmeasured THEN options.elapsed ELSE ElapsedForProfile(BudgetLevel, c)

\* refreshElapsedBudget at cost c: a measured cost may raise the wall, never lower it.
RefreshedElapsed(c) ==
  IF c = Unmeasured THEN options.elapsed
  ELSE Max({options.elapsed, ElapsedForProfile(BudgetLevel, c)})

\* currentEffortContext: a work context for a total of e; one whose budget is
\* already spent is born ended.
NewWorkContext(e) ==
  /\ armed' = Work(e)
  /\ workErr' = IF active >= Work(e) THEN "deadline" ELSE NoError
  /\ UNCHANGED <<caller, taskErr>>

-----------------------------------------------------------------------------
(* The task-run store *)

Open == {"planned", "running"} \cup Waiting \cup {"blocked"}

\* Transitions the store may accept, and those it is known never to refuse.
MayMove(from, to) ==
  \/ from \in Open
  \/ from = "interrupted" /\ to = "running"

MustMove(from, to) ==
  \/ from \in {"planned", "running"}
  \/ from \in Open \cup {"interrupted"} /\ to = "running"
  \/ from = "blocked" /\ to = "blocked"

Moves(to) == MayMove(status, to) /\ status' = to

Refused(to) ==
  /\ "store" \in Faults \/ ~MustMove(status, to) \/ ~MayMove(status, to)
  /\ UNCHANGED status

Finished == {"completed", "failed", "cancelled", "interrupted", "blocked"}

-----------------------------------------------------------------------------
(* The ways out of a step *)

Goto(p) == pc' = p /\ UNCHANGED stop

StopFor(reason, p) == pc' = p /\ stop' = reason

Return(kind, told) ==
  /\ pc' = "done"
  /\ result' = [kind |-> kind, told |-> told]
  /\ UNCHANGED stop

\* cancelledTaskResult: nothing more is said to the host.
ReturnCancelled == status = "cancelled" /\ Return("silent", "cancelled")

\* Mutant: every lost context is somebody else's to report.
AbandonToNobody(cause) ==
  \/ /\ status \in Finished
     /\ Return(IF status = "cancelled" THEN "silent" ELSE "notice", status)
  \/ /\ status \notin Finished
     /\ Return("silent", status)

\* abandonedTurnResult: a deliberate cancellation leaves the run to the hand that
\* cancelled it; any other loss of the context ends the run here.
Abandon(cause) ==
  \/ /\ status \in Finished
     /\ Return(IF status = "cancelled" THEN "silent" ELSE "notice", status)
  \/ /\ status \notin Finished
     /\ cause = "canceled" /\ ~options.delegated
     /\ Return("silent", status)
  \/ /\ status \notin Finished
     /\ cause # "canceled" \/ options.delegated
     /\ StopFor("abandoned", "failing")
     /\ UNCHANGED result

\* stopForElapsedLimitIfReached, on the way to p.
UnlessElapsed(p) ==
  \/ /\ taskErr # NoError \/ ~CurrentEffortElapsed
     /\ Goto(p)
     /\ UNCHANGED budget
  \/ /\ taskErr = NoError /\ CurrentEffortElapsed
     /\ options.source # "caller" /\ ExtendBudgetOneLevel
     /\ Goto(p)
  \/ /\ taskErr = NoError /\ CurrentEffortElapsed /\ ~TimeExtends
     /\ StopFor("max_elapsed", "stopping")
     /\ UNCHANGED budget

\* stopForNoProgress after an action that made no progress: the tracker and its
\* directives decide, from the observations, whether the turn goes on.
UnlessStalled ==
  \/ Goto("again")
  \/ StopFor("stalled", "stall block")
  \/ ~asked /\ StopFor("stalled", "stall pause")

-----------------------------------------------------------------------------
(* Starting, and the head of an iteration *)

Init ==
  /\ pc = "launch" /\ stop = "none" /\ status = "planned"
  /\ caller = NoError /\ taskErr = NoError /\ workErr = NoError
  /\ options \in StartOptions /\ armed = Work(options.elapsed) /\ active = 0
  /\ granted = NoLevel /\ retired = FALSE /\ cost = Unmeasured /\ grants = 0
  /\ iteration = 1 /\ toolCalls = 0 /\ unreadable = 0 /\ pending = 0 /\ spent = FALSE
  /\ asked = FALSE /\ turn = 1 /\ result = NothingYet

\* AdvanceTaskRun, with the run registered for cancellation.
Launch ==
  /\ pc = "launch"
  /\ \/ Moves("running") /\ Goto("head")
     \/ Refused("running") /\ StopFor("launch", "failing")
     \/ Moves("running") /\ StopFor("launch", "failing")    \* its state cannot be restored
  /\ UNCHANGED <<contexts, active, budget, counts, asked, turn, result>>

\* The loop's increment: an iteration that asked the model is a measurement, and a
\* measurement may raise the wall.
NextIteration ==
  /\ pc = "again"
  /\ iteration' = iteration + 1
  /\ spent' = FALSE
  /\ Goto("head")
  /\ \/ ~spent /\ UNCHANGED <<options, cost, contexts>>
     \/ /\ spent
        /\ cost' \in Costs \cup {cost}
        /\ LET e == RefreshedElapsed(cost') IN
           /\ options' = [options EXCEPT !.elapsed = e]
           /\ IF e > options.elapsed THEN NewWorkContext(e) ELSE UNCHANGED contexts
  /\ UNCHANGED <<status, active, granted, retired, grants, toolCalls, unreadable, pending,
                 asked, turn, result>>

CheckHead ==
  /\ pc = "head"
  /\ \/ ReturnCancelled /\ UNCHANGED budget
     \/ /\ status # "cancelled" /\ caller # NoError
        /\ Abandon(caller)
        /\ UNCHANGED budget
     \/ /\ status # "cancelled" /\ caller = NoError
        /\ UnlessElapsed("count")
        /\ UNCHANGED result
  /\ UNCHANGED <<status, contexts, active, counts, asked, turn>>

CountIteration ==
  /\ pc = "count"
  /\ \/ iteration <= options.steps /\ Goto("prepare") /\ UNCHANGED budget
     \/ iteration > options.steps /\ ExtendBudgetOneLevel /\ Goto("prepare")
     \/ /\ iteration > options.steps /\ ~CanExtend
        /\ StopFor("max_iterations", "stopping")
        /\ UNCHANGED budget
  /\ UNCHANGED <<status, contexts, active, counts, asked, turn, result>>

\* From the grant's announcement to the model call.  A grant is announced once, on
\* a fresh work context; pressure on a limit drops the batch in hand.
PrepareStep ==
  /\ pc = "prepare"
  /\ IF granted # NoLevel /\ ~retired
     THEN retired' = TRUE /\ NewWorkContext(options.elapsed)
     ELSE UNCHANGED <<retired, contexts>>
  /\ \E kept \in {pending, 0} :
       \/ /\ workErr' # NoError
          /\ Abandon(workErr')
          /\ pending' = kept
          /\ UNCHANGED <<spent, unreadable>>
       \/ /\ workErr' = NoError /\ kept > 0
          /\ Goto("dispatch")
          /\ pending' = kept - 1 /\ spent' = FALSE /\ unreadable' = 0
          /\ UNCHANGED result
       \/ /\ workErr' = NoError /\ kept = 0
          /\ Goto("deciding")
          /\ pending' = 0 /\ spent' = TRUE
          /\ UNCHANGED <<unreadable, result>>
  /\ UNCHANGED <<status, active, options, granted, cost, grants,
                 iteration, toolCalls, asked, turn>>

-----------------------------------------------------------------------------
(* The model's answer *)

Answer ==
  /\ pc = "deciding"
  /\ Goto("dispatch")
  /\ unreadable' = 0
  /\ UNCHANGED <<status, contexts, active, budget, iteration, toolCalls, pending, spent,
                 asked, turn, result>>

\* A third unreadable answer in a row counts as a failed model call.
UnreadableAnswer ==
  /\ pc = "deciding"
  /\ IF unreadable < 2
     THEN unreadable' = unreadable + 1 /\ Goto("again")
     ELSE UNCHANGED unreadable /\ StopFor("failed", "stopping")
  /\ UNCHANGED <<status, contexts, active, budget, iteration, toolCalls, pending, spent,
                 asked, turn, result>>

\* The call was cancelled with the work context.
AnswerCancelled ==
  /\ pc = "deciding" /\ workErr = "canceled"
  /\ Abandon("canceled")
  /\ UNCHANGED <<status, contexts, active, budget, counts, asked, turn>>

\* The call ran out of time: the work context's, the caller's, or the provider's own.
AnswerTimedOut ==
  /\ pc = "deciding" /\ workErr # "canceled"
  /\ \/ /\ caller # NoError
        /\ Abandon(caller)
        /\ UNCHANGED <<budget, contexts>>
     \/ /\ caller = NoError /\ ~CurrentEffortElapsed
        /\ NewWorkContext(options.elapsed) /\ Goto("again")
        /\ UNCHANGED <<budget, result>>
     \/ /\ caller = NoError /\ CurrentEffortElapsed
        /\ options.source # "caller" /\ ExtendBudgetOneLevel
        /\ NewWorkContext(options'.elapsed) /\ Goto("again")
        /\ UNCHANGED result
     \/ /\ caller = NoError /\ CurrentEffortElapsed /\ ~TimeExtends
        /\ StopFor("max_elapsed", "stopping")
        /\ UNCHANGED <<budget, contexts, result>>
  /\ UNCHANGED <<status, active, counts, asked, turn>>

ModelFails ==
  /\ pc = "deciding"
  /\ StopFor("failed", "stopping")
  /\ UNCHANGED <<status, contexts, active, budget, counts, asked, turn, result>>

-----------------------------------------------------------------------------
(* Carrying out the action *)

\* rememberBatchedActions: what the answer batched is kept, or everything is dropped.
RememberBatch ==
  pending' \in {0} \cup {pending + n : n \in 0..(IF spent THEN MaxBatch ELSE 0)}

Dispatch ==
  /\ pc = "dispatch"
  /\ \/ \E p \in {"again", "delegate", "gate"} : Goto(p) /\ UNCHANGED result
     \/ UnlessStalled /\ UNCHANGED result                           \* unknown action
     \/ ReturnCancelled                                             \* reply
     \/ status # "cancelled" /\ Goto("reply") /\ UNCHANGED result   \* reply
     \/ StopFor("failed", "stopping") /\ UNCHANGED result           \* fail
  /\ UNCHANGED <<status, contexts, active, budget, counts, asked, turn>>

\* failTerminalNoToolsFailure: a failure the model explained ends the run at once.
FailExplained ==
  /\ pc \in {"dispatch", "terminal"}
  /\ \/ Moves("failed") /\ Return("notice", "failed")
     \/ Refused("failed") /\ Return("notice", "zero")
  /\ UNCHANGED <<contexts, active, budget, counts, asked, turn>>

\* A call that is malformed, repeated, out of recovery budget or unavailable.
RejectToolCall ==
  /\ pc = "dispatch"
  /\ UnlessStalled \/ Goto("terminal")
  /\ RememberBatch
  /\ UNCHANGED <<status, contexts, active, budget, iteration, toolCalls, unreadable, spent,
                 asked, turn, result>>

CallTool ==
  /\ pc = "dispatch"
  /\ toolCalls' = toolCalls + 1
  /\ \E bonus \in {0, RecoveryCalls} :
       \/ toolCalls' <= options.calls + bonus /\ Goto("tool") /\ UNCHANGED budget
       \/ toolCalls' > options.calls + bonus /\ ExtendBudgetOneLevel /\ Goto("tool")
       \/ /\ toolCalls' > options.calls + bonus /\ ~CanExtend
          /\ StopFor("max_tool_calls", "stopping")
          /\ UNCHANGED budget
  /\ UNCHANGED <<status, contexts, active, iteration, unreadable, pending, spent,
                 asked, turn, result>>

\* widenPaceForPlannedLevel, when the tool was the plan and it names a larger level.
PlanWidens ==
  \E l \in PlanLevels :
    /\ l > options.level
    /\ options' = [options EXCEPT !.level = l, !.steps = Steps[l], !.calls = Calls[l],
                                  !.elapsed = ElapsedForProfile(l, cost)]

ToolReturns ==
  /\ pc = "tool"
  /\ \/ ReturnCancelled /\ UNCHANGED <<pending, options>>
     \/ status \in Waiting /\ Return("notice", status) /\ UNCHANGED <<pending, options>>
     \/ /\ status \notin Waiting \cup {"cancelled"}
        /\ PlanWidens \/ UNCHANGED options
        /\ RememberBatch
        /\ UnlessStalled
        /\ UNCHANGED result
  /\ UNCHANGED <<status, contexts, active, granted, retired, cost, grants,
                 iteration, toolCalls, unreadable, spent, asked, turn>>

DelegateReturns ==
  /\ pc = "delegate"
  /\ Goto("again")
  /\ UNCHANGED <<status, contexts, active, budget, counts, asked, turn, result>>

\* Only a reply that asked a question looks whether the run now waits.
ReplyReturns ==
  /\ pc = "reply"
  /\ \/ UnlessStalled /\ UNCHANGED result
     \/ status \in Waiting /\ Return("notice", status)
  /\ UNCHANGED <<status, contexts, active, budget, counts, asked, turn>>

\* finish: its files are delivered and the completion gate asks for its evidence.
GateAnswers ==
  /\ pc = "gate"
  /\ \/ UnlessStalled
     \/ workErr # NoError /\ Goto("commit")     \* best effort on unmet changes
     \/ StopFor("failed", "stopping")           \* an empty reply
     \/ Goto("rewrite")
  /\ UNCHANGED <<status, contexts, active, budget, counts, asked, turn, result>>

\* Or the host parks the run on an approval of those files, and the loop goes on
\* without looking whether the run now waits.
DeliveryParks ==
  /\ pc = "gate" /\ status = "running"
  /\ status' = "waiting_approval"
  /\ UnlessStalled
  /\ UNCHANGED <<contexts, active, budget, counts, asked, turn, result>>

ReplyRewritten ==
  /\ pc = "rewrite"
  /\ \/ ReturnCancelled /\ UNCHANGED budget
     \/ status # "cancelled" /\ UnlessElapsed("commit") /\ UNCHANGED result
  /\ UNCHANGED <<status, contexts, active, counts, asked, turn>>

\* Mutant: the reply is final whether or not the store took the completion.
CommitUnchecked ==
  /\ pc = "commit"
  /\ Moves("completed") \/ Refused("completed")
  /\ Return("final", "completed")
  /\ UNCHANGED <<contexts, active, budget, counts, asked, turn>>

\* finishedTurnResult, in the three store accesses it makes: the completion, a look
\* whether a cancellation forestalled it, and the block that keeps the reply.
Commit ==
  /\ pc = "commit"
  /\ \/ Moves("completed") /\ Return("final", "completed")
     \/ Refused("completed") /\ Goto("uncommitted") /\ UNCHANGED result
  /\ UNCHANGED <<contexts, active, budget, counts, asked, turn>>

LookIfCancelled ==
  /\ pc = "uncommitted"
  /\ \/ ReturnCancelled
     \/ status # "cancelled" /\ Goto("keep") /\ UNCHANGED result
  /\ UNCHANGED <<status, contexts, active, budget, counts, asked, turn>>

KeepUncommittedReply ==
  /\ pc = "keep"
  /\ Moves("blocked") \/ Refused("blocked")
  /\ Return("notice", "blocked")
  /\ UNCHANGED <<contexts, active, budget, counts, asked, turn>>

\* runTerminalNoToolsStep: a last word without tools, or a block.
TerminalAnswers ==
  /\ pc = "terminal"
  /\ Goto("commit") \/ StopFor("no_tools", "stall block")
  /\ UNCHANGED <<status, contexts, active, budget, counts, asked, turn, result>>

-----------------------------------------------------------------------------
(* Stops *)

\* pauseTurnForStall: the notice is written first, and no notice is no pause.
StallPauses ==
  /\ pc = "stall pause"
  /\ \/ /\ Moves("waiting_user_input")
        /\ asked' = TRUE
        /\ result' = [kind |-> "notice", told |-> "waiting_user_input"]
        /\ Goto("recheck")
     \/ Refused("waiting_user_input") /\ Goto("stall block") /\ UNCHANGED <<asked, result>>
     \/ Goto("stall block") /\ UNCHANGED <<status, asked, result>>
  /\ UNCHANGED <<contexts, active, budget, counts, turn>>

\* blockTurnForStall: a run the store will not block goes on, except from the
\* terminal step, whose caller returns whatever it got.
StallBlocks ==
  /\ pc = "stall block"
  /\ \/ /\ Moves("blocked")
        /\ result' = [kind |-> "notice", told |-> "blocked"]
        /\ Goto(IF stop = "no_tools" THEN "done" ELSE "recheck")
     \/ Refused("blocked") /\ stop = "no_tools" /\ Return("unwritten", "zero")
     \/ Refused("blocked") /\ stop = "stalled" /\ StopFor("none", "again") /\ UNCHANGED result
  /\ UNCHANGED <<contexts, active, budget, counts, asked, turn>>

\* Mutant: the question is asked without a budget of its own.
CheckOnTaskContext == taskErr # NoError

\* The context the completion question of this stop is asked on has ended.
CheckContextEnded ==
  CASE stop \in {"max_iterations", "max_tool_calls"} -> workErr # NoError
    [] stop = "max_elapsed" -> taskErr # NoError \/ active >= options.elapsed
    [] stop = "failed"      -> taskErr # NoError \/ CurrentEffortElapsed
    [] OTHER                -> FALSE

\* completeAtStop: is the work already done?
AskIfDone ==
  /\ pc = "stopping"
  /\ Goto(IF CheckContextEnded THEN "unfinished" ELSE "check")
  /\ UNCHANGED <<status, contexts, active, budget, counts, asked, turn, result>>

CheckAnswers ==
  /\ pc = "check"
  /\ \/ Goto("unfinished") /\ UNCHANGED status
     \/ Moves("completed") /\ Goto("closing")
     \/ Refused("completed") /\ Goto("unfinished")
  /\ UNCHANGED <<contexts, active, budget, counts, asked, turn, result>>

\* The reply of a run already completed: a plain sentence when it cannot be written.
CompletionReplyWritten ==
  /\ pc = "closing"
  /\ Return("final", "completed")
  /\ UNCHANGED <<status, contexts, active, budget, counts, asked, turn>>

\* Mutant: the run is reported blocked before it is.
BlockUnstored ==
  /\ pc = "unfinished"
  /\ stop \in {"max_iterations", "max_tool_calls", "max_elapsed"}
  /\ result' = [kind |-> "notice", told |-> "blocked"]
  /\ Goto("notice")
  /\ UNCHANGED <<status, contexts, active, budget, counts, asked, turn>>

\* pauseForLimit and blockAtElapsedLimit block the run, then write the notice.
BlockAtLimit ==
  /\ pc = "unfinished"
  /\ stop \in {"max_iterations", "max_tool_calls", "max_elapsed"}
  /\ \/ Moves("blocked") /\ result' = [kind |-> "notice", told |-> "blocked"]
     \/ Refused("blocked") /\ result' = [kind |-> "notice", told |-> "zero"]
  /\ Goto("notice")
  /\ UNCHANGED <<contexts, active, budget, counts, asked, turn>>

\* finalizeIfSatisfiedOrFail, once the work is known not to be done.
FailUnlessElapsed ==
  /\ pc = "unfinished" /\ stop = "failed"
  /\ \/ taskErr # NoError /\ Abandon(taskErr)
     \/ /\ taskErr = NoError
        /\ IF CurrentEffortElapsed THEN StopFor("max_elapsed", "stopping") ELSE Goto("notice")
        /\ UNCHANGED result
  /\ UNCHANGED <<status, contexts, active, budget, counts, asked, turn>>

\* FailTaskRun.  A lost or unstarted turn is reported failed whatever the store says,
\* and its notice comes after; a failed one has its notice already.
FailRun ==
  /\ pc = "failing"
  /\ Moves("failed") \/ Refused("failed")
  /\ \/ stop = "failed" /\ Return("notice", IF status' = "failed" THEN "failed" ELSE "zero")
     \/ stop = "abandoned" /\ options.delegated /\ Return("silent", "failed")
     \/ /\ stop = "launch" \/ (stop = "abandoned" /\ ~options.delegated)
        /\ result' = [kind |-> "notice", told |-> "failed"]
        /\ Goto("notice")
  /\ UNCHANGED <<contexts, active, budget, counts, asked, turn>>

\* Mutant: the work context decides, which the limit itself has ended.
ElapsedNoticeByWork == IF workErr # NoError THEN "silent" ELSE "notice"

\* blockAtElapsedLimit: a turn that lost its task context keeps quiet.
ElapsedNotice == IF taskErr # NoError THEN "silent" ELSE "notice"

NoticeWritten ==
  /\ pc = "notice"
  /\ \/ stop \in {"max_iterations", "max_tool_calls"} /\ Goto("recheck") /\ UNCHANGED result
     \/ /\ stop = "max_elapsed"
        /\ Return(ElapsedNotice, result.told)
     \/ stop = "failed" /\ Goto("failing") /\ UNCHANGED result
     \/ /\ stop \in {"abandoned", "launch"}
        /\ \E kind \in {"notice", "unwritten"} : Return(kind, result.told)
  /\ UNCHANGED <<status, contexts, active, budget, counts, asked, turn>>

\* A stop that did not complete the run yields to the clock.
YieldToElapsed ==
  /\ pc = "recheck"
  /\ UnlessElapsed("done")
  /\ UNCHANGED <<status, contexts, active, counts, asked, turn, result>>

-----------------------------------------------------------------------------
(* What happens around the turn *)

Tick ==
  /\ pc # "done" /\ active < MaxActive
  /\ active' = active + 1
  /\ UNCHANGED <<pc, stop, status, contexts, budget, counts, asked, turn, result>>

\* The work context ends with its parent or with its budget (see TurnClock), some
\* time after either did.
WorkEnds ==
  /\ pc # "done" /\ workErr = NoError
  /\ \/ taskErr # NoError /\ workErr' = taskErr
     \/ active >= armed /\ workErr' = "deadline"
  /\ UNCHANGED <<pc, stop, status, caller, taskErr, armed, active, budget, counts, asked,
                 turn, result>>

CallerEnds ==
  /\ pc # "done" /\ caller = NoError
  /\ \/ "hangup" \in Faults /\ caller' = "canceled"
     \/ "deadline" \in Faults /\ caller' = "deadline"
  /\ taskErr' = IF taskErr = NoError THEN caller' ELSE taskErr
  /\ UNCHANGED <<pc, stop, status, workErr, armed, active, budget, counts, asked, turn, result>>

\* The requester stops the run: first in the store, then through the cancel
\* function the turn registered.  Agent.Cancel leaves a waiting run alone.
HostCancels ==
  /\ "cancel" \in Faults /\ pc # "done"
  /\ status \in {"planned", "running", "blocked"}
  /\ status' = "cancelled"
  /\ UNCHANGED <<pc, stop, contexts, active, budget, counts, asked, turn, result>>

TaskCancelArrives ==
  /\ pc \notin {"launch", "done"} /\ status = "cancelled" /\ taskErr = NoError
  /\ taskErr' = "canceled"
  /\ UNCHANGED <<pc, stop, status, caller, workErr, armed, active, budget, counts, asked,
                 turn, result>>

\* A tool, or a reply that asks or delivers, parks the run on a person.
ToolParks ==
  /\ pc \in {"tool", "reply"} /\ status = "running"
  /\ status' \in Waiting
  /\ UNCHANGED <<pc, stop, contexts, active, budget, counts, asked, turn, result>>

\* The process dies; the host's next start finds the run interrupted.
Crash ==
  /\ "crash" \in Faults /\ pc # "done"
  /\ pc' = "done" /\ stop' = "none"
  /\ status' = IF status \in {"planned", "running"} THEN "interrupted" ELSE status
  /\ result' = NothingYet
  /\ UNCHANGED <<contexts, active, budget, counts, asked, turn>>

\* The host resumes the task.  Its ledger brings back the calls that succeeded and
\* the pause that was announced; budgets and grants start afresh.
NextTurn ==
  /\ pc = "done" /\ turn < MaxTurns
  /\ status \in Waiting \cup {"blocked", "interrupted"}
  /\ turn' = turn + 1
  /\ pc' = "launch" /\ stop' = "none" /\ result' = NothingYet
  /\ caller' = NoError /\ taskErr' = NoError /\ workErr' = NoError
  /\ options' \in StartOptions /\ armed' = Work(options'.elapsed) /\ active' = 0
  /\ granted' = NoLevel /\ retired' = FALSE
  /\ toolCalls' \in 0..toolCalls
  /\ iteration' = 1 /\ unreadable' = 0 /\ pending' = 0 /\ spent' = FALSE
  /\ UNCHANGED <<status, cost, asked, grants>>

Rest == pc = "done" /\ UNCHANGED vars

-----------------------------------------------------------------------------
RunnerStep ==
  \/ Launch \/ NextIteration \/ CheckHead \/ CountIteration \/ PrepareStep
  \/ Answer \/ UnreadableAnswer \/ AnswerCancelled \/ AnswerTimedOut \/ ModelFails
  \/ Dispatch \/ FailExplained \/ RejectToolCall \/ CallTool \/ ToolReturns
  \/ DelegateReturns \/ ReplyReturns \/ GateAnswers \/ DeliveryParks \/ ReplyRewritten
  \/ Commit \/ LookIfCancelled \/ KeepUncommittedReply \/ TerminalAnswers
  \/ StallPauses \/ StallBlocks \/ AskIfDone \/ CheckAnswers \/ CompletionReplyWritten
  \/ BlockAtLimit \/ FailUnlessElapsed \/ FailRun \/ NoticeWritten \/ YieldToElapsed

Next ==
  \/ RunnerStep
  \/ Tick \/ WorkEnds \/ CallerEnds \/ HostCancels \/ TaskCancelArrives \/ ToolParks
  \/ Crash \/ NextTurn \/ Rest

Spec == Init /\ [][Next]_vars

\* The context of the call in flight has ended.
CallContextEnded ==
  CASE pc \in {"check", "closing"} -> CheckContextEnded
    [] pc = "tool" -> taskErr # NoError \/ active >= options.elapsed
    [] pc = "notice" /\ stop \in {"abandoned", "launch"} -> TRUE  \* a minute of its own
    [] pc = "notice" /\ stop = "failed" -> taskErr # NoError
    [] pc = "notice" /\ stop = "max_elapsed" -> CheckContextEnded
    [] OTHER -> workErr # NoError

\* Time passes, contexts end, code runs, and a call returns once its context has
\* ended.  A call whose context is alive need not return at all, a writer of notices
\* no more than a model.
Fairness ==
  /\ WF_vars(Tick) /\ WF_vars(WorkEnds) /\ WF_vars(TaskCancelArrives)
  /\ WF_vars(pc \in Inside /\ RunnerStep)
  /\ WF_vars(pc \in Calling /\ CallContextEnded /\ RunnerStep)

FairSpec == Spec /\ Fairness

-----------------------------------------------------------------------------
(* Properties *)

\* A turn that is over leaves no run behind that nobody will move: the run is open
\* only when a person is asked, or when the hand that cancelled the turn's caller
\* owns its outcome (abandonedTurnResult).
RunIsClosed ==
  pc = "done" /\ status \in {"planned", "running"} => caller = "canceled" /\ ~options.delegated

\* A final answer is handed over exactly when the run was committed as completed:
\* a cancelled or uncommitted run never answers, and completed work is never lost
\* to a notice, a late cancellation or a reply that could not be written.
ReplyMatchesRun ==
  pc = "done" /\ result.kind # "none" =>
    (result.kind = "final" <=> status = "completed")

\* Nothing is said to the host: the reply is suppressed, or there is none to show.
WithoutAWord == result.kind \in {"silent", "unwritten"}

\* The host is left without a word only when the requester cancelled the run, the
\* caller went away or a delegated turn speaks to the turn that delegated -- or when
\* there was no one left to write one: the notice of a turn that never started or
\* whose work context ended between two looks could not be written, and its run is
\* told as failed (failTurnWithGeneratedNotice); or the block that ends the step
\* without tools was refused of a run parked meanwhile (blockTurnForStall).  A turn
\* that stops at a limit, fails or stalls always says something.
SilenceIsOwned ==
  pc = "done" /\ WithoutAWord =>
    \/ status = "cancelled" \/ caller # NoError \/ options.delegated
    \/ stop \in {"abandoned", "launch"} /\ result.told = "failed"
    \/ stop = "no_tools" /\ (status \in Waiting \/ "store" \in Faults)

\* The status the host is told is the one the store holds, unless a cancellation
\* landed while the turn was stopping or the run was parked on a person meanwhile.
ToldIsStored ==
  pc = "done" /\ result.kind # "none" /\ result.told # status =>
    status \in Waiting \cup {"cancelled"}

\* However the budget is refreshed, granted and widened along the way, the turn
\* never starts more iterations than the step budget it holds.
StepsAreBounded == iteration <= options.steps + 1

\* "the loop extends once per task to the next level's profile" (DOCS.md:365).
GrantedOncePerTask == grants <= 1

\* During a turn steps and calls never shrink, and neither does the wall -- not by a
\* cheaper measurement, a grant or a deadline -- except that a plan which names a
\* larger level prices the wall of that level anew, whoever set the wall before it
\* (widenPaceForPlannedLevel; see HostWallIsKept).
NoBudgetIsLost ==
  [][turn' = turn =>
       /\ options'.steps >= options.steps /\ options'.calls >= options.calls
       /\ options'.elapsed < options.elapsed =>
            /\ options'.level > options.level
            /\ options'.elapsed = ElapsedForProfile(options'.level, cost)]_vars

\* "A host that sets an explicit wall keeps it" (DOCS.md:361): at the least, nothing
\* takes time away from the turn that the host gave it.
HostWallIsKept ==
  options.source = "caller" =>
    \E o \in StartOptions : o.source = "caller" /\ o.elapsed <= options.elapsed

\* The notice of a failed turn is written on the context of the task, which neither
\* the budget nor a ceiling of its own ends (replyFinalizationContext).
AwaitsFailureNotice == pc = "notice" /\ stop = "failed" /\ taskErr = NoError

\* Every turn ends, even when models and tools answer only when their context ends,
\* unless it waits for a failure notice on a context that does not.
EveryTurnEnds == (pc # "done") ~> (pc = "done" \/ AwaitsFailureNotice)

\* "a notice generated on the wedged path with no deadline holds the turn, and the
\* conversation, open forever" (abandoned_turn_test.go:115): so every turn ends.
NoNoticeHoldsTheTurn == (pc # "done") ~> (pc = "done")
=============================================================================
