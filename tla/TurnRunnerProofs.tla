-------------------------- MODULE TurnRunnerProofs --------------------------
(***************************************************************************)
(* Proofs about TurnRunner, for any task levels and prices, any set of     *)
(* options a turn may start with, any faults, and any bounds on time,      *)
(* batches and turns.                                                      *)
(***************************************************************************)
EXTENDS TurnRunner, TLAPS

\* A turn never holds more than a larger level would give it, so that a plan widens;
\* and its wall respects the deadline.
BudgetInv ==
  /\ \A l \in Levels : l > options.level => options.steps <= Steps[l] /\ options.calls <= Calls[l]
  /\ options.deadline > 0 => options.elapsed <= options.deadline

\* The points an iteration passes after it was counted against the step budget.
Counted == {"prepare", "deciding", "dispatch", "tool", "delegate", "reply", "gate",
            "terminal", "stall pause", "stall block", "again"}

CountInv ==
  /\ StepsAreBounded
  /\ pc \in Counted => iteration <= options.steps

\* Only the two commits complete a run, and each ends in the final answer.
CompletionInv ==
  /\ status = "completed" => pc \in {"closing", "done"}
  /\ pc = "closing" => status = "completed"
  /\ pc # "done" => result.kind # "final"
  /\ ReplyMatchesRun

\* The task context ends with the caller's or by a cancellation in the store, and the
\* work context is cancelled only by the task context.
ContextOwned ==
  /\ taskErr # NoError => status = "cancelled" \/ caller # NoError
  /\ workErr = "canceled" => taskErr # NoError

Owned == status = "cancelled" \/ caller # NoError \/ options.delegated

\* Nothing is suppressed before the end, and a suppressed reply has an owner.
OwnerInv == ContextOwned /\ (result.kind = "silent" => pc = "done" /\ Owned)

IInv == TypeOK /\ BudgetInv /\ CountInv /\ CompletionInv /\ OwnerInv

-----------------------------------------------------------------------------
(* Lemmas about prices *)

LEMMA MinOfTwo ==
  ASSUME NEW a \in Nat, NEW b \in Nat
  PROVE  Min({a, b}) = IF a <= b THEN a ELSE b
BY DEF Min

LEMMA MaxOfTwo ==
  ASSUME NEW a \in Nat, NEW b \in Nat
  PROVE  Max({a, b}) = IF a >= b THEN a ELSE b
BY DEF Max

\* Scaling by a ratio of at least one loses nothing to integer division.
LEMMA ScaledIsNoLess ==
  ASSUME NEW a \in Nat, NEW b \in Nat, NEW c \in Nat \ {0}, c <= b
  PROVE  (a * b) \div c \in Nat /\ (a * b) \div c >= a
<1> DEFINE q == (a * b) \div c
           r == (a * b) % c
<1>1. a * b \in Nat /\ a * c \in Nat /\ a * c <= a * b
  BY SMT
<1>2. q \in Nat /\ r \in Nat /\ r < c /\ a * b = c * q + r
  BY <1>1, SMT
<1>3. ASSUME q < a PROVE FALSE
  <2>1. q + 1 <= a
    BY <1>2, <1>3
  <2>2. c * (q + 1) <= c * a
    BY <1>2, <2>1, SMT
  <2>3. c * (q + 1) = c * q + c /\ c * a = a * c
    BY <1>2, SMT
  <2> QED
    BY <1>1, <1>2, <2>2, <2>3, SMT
<1> QED
  BY <1>2, <1>3

LEMMA WorkIsNat ==
  ASSUME NEW e \in Nat
  PROVE  Work(e) \in Nat
<1>1. e \div 3 \in Nat /\ e \div 3 <= e
  OBVIOUS
<1> QED
  BY <1>1, MinOfTwo, RunnerAssumption DEF Work

LEMMA DeadlineBounds ==
  ASSUME TypeOK, NEW e \in Nat \ {0}
  PROVE  /\ WithinDeadline(e) \in Nat \ {0}
         /\ options.deadline > 0 => WithinDeadline(e) <= options.deadline
         /\ BudgetInv /\ options.elapsed <= e => options.elapsed <= WithinDeadline(e)
BY MinOfTwo DEF WithinDeadline, TypeOK, Options, BudgetInv

LEMMA ProfileBounds ==
  ASSUME TypeOK, NEW l \in Levels, NEW c \in Costs \cup {Unmeasured}
  PROVE  /\ ElapsedForProfile(l, c) \in Nat \ {0}
         /\ options.deadline > 0 => ElapsedForProfile(l, c) <= options.deadline
BY DeadlineBounds, RunnerAssumption DEF ElapsedForProfile

\* What a grant changes: one more level's steps and calls, and no less of a wall.
LEMMA GrantGrows ==
  ASSUME TypeOK, BudgetInv, ExtendBudgetOneLevel
  PROVE  /\ options.level + 1 \in Levels /\ granted = NoLevel
         /\ granted' = options.level + 1 /\ grants' = grants + 1
         /\ options' = [options EXCEPT !.steps = Steps[options.level + 1],
                                       !.calls = Calls[options.level + 1],
                                       !.elapsed = options'.elapsed]
         /\ options.steps < Steps[options.level + 1]
         /\ options.calls < Calls[options.level + 1]
         /\ options'.elapsed \in Nat \ {0}
         /\ options'.elapsed >= options.elapsed
         /\ options.deadline > 0 => options'.elapsed <= options.deadline
<1> DEFINE l == options.level + 1
           wall == ElapsedForProfile(l, cost)
           scaled == (options.elapsed * Steps[l]) \div options.steps
<1>1. /\ options.level \in Levels /\ l \in Levels /\ options.level < l
      /\ options.steps = Steps[options.level] /\ options.calls = Calls[options.level]
  <2>1. options.level \in Levels /\ Top \in Nat
    BY RunnerAssumption DEF TypeOK, Options
  <2> QED
    BY <2>1 DEF ExtendBudgetOneLevel, CanExtend, Levels
<1>2. /\ options.steps \in Nat \ {0} /\ Steps[l] \in Nat /\ options.steps < Steps[l]
      /\ options.calls < Calls[l] /\ options.elapsed \in Nat \ {0}
  BY <1>1, RunnerAssumption DEF TypeOK, Options
<1>3. scaled \in Nat /\ scaled >= options.elapsed
  BY <1>2, ScaledIsNoLess
<1>4. /\ WithinDeadline(scaled) \in Nat \ {0}
      /\ WithinDeadline(scaled) >= options.elapsed
      /\ options.deadline > 0 => WithinDeadline(scaled) <= options.deadline
  <2>1. scaled \in Nat \ {0}
    BY <1>2, <1>3
  <2>. HIDE DEF scaled
  <2> QED
    BY <2>1, <1>2, <1>3, DeadlineBounds
<1>5. /\ wall \in Nat \ {0}
      /\ options.deadline > 0 => wall <= options.deadline
  BY <1>1, ProfileBounds DEF TypeOK
<1>6. options'.elapsed = Max({wall, WithinDeadline(scaled)})
  BY DEF ExtendBudgetOneLevel, ElapsedForGrant, TypeOK, Options
<1>7. /\ options'.elapsed \in Nat \ {0}
      /\ options'.elapsed >= options.elapsed
      /\ options.deadline > 0 => options'.elapsed <= options.deadline
  <2>. HIDE DEF scaled, wall
  <2> QED
    BY <1>2, <1>4, <1>5, <1>6, MaxOfTwo
<1>8. options' = [options EXCEPT !.steps = Steps[l], !.calls = Calls[l],
                                !.elapsed = options'.elapsed]
  BY DEF ExtendBudgetOneLevel, ElapsedForGrant, TypeOK, Options
<1> QED
  BY <1>1, <1>2, <1>7, <1>8 DEF ExtendBudgetOneLevel, CanExtend

-----------------------------------------------------------------------------
(* What a step does to the budget *)

SameBudget == UNCHANGED <<options, granted, grants, turn>>
Granted    == ExtendBudgetOneLevel /\ UNCHANGED turn
Repriced   == /\ \E c \in Costs \cup {Unmeasured} :
                    options' = [options EXCEPT !.elapsed = RefreshedElapsed(c)]
              /\ UNCHANGED <<granted, grants, turn>>
Widened    == PlanWidens /\ UNCHANGED <<granted, grants, turn>>

\* Within a turn the budget grows, and the turn stays delegated or not.
Grows ==
  turn' = turn =>
    /\ options'.steps >= options.steps /\ options'.calls >= options.calls
    /\ options'.elapsed < options.elapsed =>
         /\ options'.level > options.level
         /\ options'.elapsed = ElapsedForProfile(options'.level, cost)
    /\ options'.delegated = options.delegated

BudgetType ==
  /\ options \in Options /\ granted \in Levels \cup {NoLevel}
  /\ grants \in Nat /\ turn \in Nat \ {0}

BudgetPreserved == BudgetType' /\ BudgetInv' /\ Grows

LEMMA SameBudgetPreserves ==
  ASSUME TypeOK, BudgetInv, SameBudget
  PROVE  BudgetPreserved
BY DEF SameBudget, BudgetPreserved, BudgetType, BudgetInv, Grows,
       TypeOK, Options

LEMMA GrantedPreserves ==
  ASSUME TypeOK, BudgetInv, Granted
  PROVE  BudgetPreserved
<1> DEFINE k == options.level + 1
<1>1. /\ k \in Levels /\ granted = NoLevel
      /\ granted' = k /\ grants' = grants + 1
      /\ options' = [options EXCEPT !.steps = Steps[k], !.calls = Calls[k],
                                    !.elapsed = options'.elapsed]
      /\ options.steps < Steps[k] /\ options.calls < Calls[k]
      /\ options'.elapsed \in Nat \ {0}
      /\ options'.elapsed >= options.elapsed
      /\ options.deadline > 0 => options'.elapsed <= options.deadline
  BY GrantGrows DEF Granted
<1>2. /\ options \in Options /\ options.level \in Nat
      /\ Steps[k] \in Nat \ {0} /\ Calls[k] \in Nat \ {0}
      /\ options.elapsed \in Nat /\ options.steps \in Nat /\ options.calls \in Nat
  <2>1. Steps[k] \in Nat \ {0} /\ Calls[k] \in Nat \ {0}
    BY <1>1, RunnerAssumption
  <2> QED
    BY <2>1 DEF TypeOK, Options, Levels
<1>. HIDE DEF k
<1>3. /\ options'.steps = Steps[k] /\ options'.calls = Calls[k]
      /\ options'.level = options.level /\ options'.deadline = options.deadline
      /\ options'.delegated = options.delegated
      /\ options' \in Options
  BY <1>1, <1>2 DEF Options
<1>4. BudgetType'
  BY <1>1, <1>3 DEF BudgetType, Granted, TypeOK
<1>5. ASSUME NEW l \in Levels, l > options.level
      PROVE  Steps[k] <= Steps[l] /\ Calls[k] <= Calls[l]
  <2>1. k <= l /\ l \in Nat /\ k \in Nat
    BY <1>2, <1>5 DEF k, Levels
  <2>2. CASE k = l
    BY <1>2, <2>2
  <2>3. CASE k < l
    BY <1>1, <1>5, <2>3, RunnerAssumption
  <2> QED
    BY <2>1, <2>2, <2>3
<1>6. BudgetInv'
  <2>1. /\ \A l \in Levels : l > options'.level => options'.steps <= Steps[l] /\ options'.calls <= Calls[l]
        /\ options'.deadline > 0 => options'.elapsed <= options'.deadline
    BY <1>1, <1>3, <1>5
  <2> QED
    BY <2>1 DEF BudgetInv
<1>7. Grows
  BY <1>1, <1>2, <1>3 DEF Grows
<1> QED
  BY <1>4, <1>6, <1>7 DEF BudgetPreserved

LEMMA RepricedPreserves ==
  ASSUME TypeOK, BudgetInv, Repriced
  PROVE  BudgetPreserved
<1>1. PICK c \in Costs \cup {Unmeasured} :
        options' = [options EXCEPT !.elapsed = RefreshedElapsed(c)]
  BY DEF Repriced
<1>2. BudgetLevel \in Levels
  BY DEF BudgetLevel, TypeOK, Options
<1> DEFINE price == ElapsedForProfile(BudgetLevel, c)
<1>3. /\ price \in Nat \ {0}
      /\ options.deadline > 0 => price <= options.deadline
  BY <1>2, ProfileBounds
<1>4. options \in Options /\ options.elapsed \in Nat \ {0}
  BY DEF TypeOK, Options
<1>. HIDE DEF price
<1>5. /\ RefreshedElapsed(c) \in Nat \ {0} /\ RefreshedElapsed(c) >= options.elapsed
      /\ options.deadline > 0 => RefreshedElapsed(c) <= options.deadline
  BY <1>3, <1>4, MaxOfTwo DEF RefreshedElapsed, price, BudgetInv
<1> QED
  BY <1>1, <1>4, <1>5 DEF Repriced, BudgetPreserved, BudgetType, BudgetInv,
     Grows, TypeOK, Options

LEMMA WidenedPreserves ==
  ASSUME TypeOK, BudgetInv, Widened
  PROVE  BudgetPreserved
<1>1. PICK k \in PlanLevels :
        /\ k > options.level
        /\ options' = [options EXCEPT !.level = k, !.steps = Steps[k], !.calls = Calls[k],
                                      !.elapsed = ElapsedForProfile(k, cost)]
  BY DEF Widened, PlanWidens
<1>2. /\ k \in Levels /\ Steps[k] \in Nat \ {0} /\ Calls[k] \in Nat \ {0}
      /\ \A l \in Levels : l > k => Steps[k] <= Steps[l] /\ Calls[k] <= Calls[l]
  BY RunnerAssumption DEF Levels
<1>3. /\ ElapsedForProfile(k, cost) \in Nat \ {0}
      /\ options.deadline > 0 => ElapsedForProfile(k, cost) <= options.deadline
  BY <1>2, ProfileBounds DEF TypeOK
<1>4. /\ options \in Options /\ options.steps <= Steps[k] /\ options.calls <= Calls[k]
      /\ options.steps \in Nat /\ options.calls \in Nat
  BY <1>1, <1>2 DEF TypeOK, BudgetInv, Options
<1>5. /\ options'.steps = Steps[k] /\ options'.calls = Calls[k] /\ options'.level = k
      /\ options'.deadline = options.deadline
      /\ options'.delegated = options.delegated
      /\ options'.elapsed = ElapsedForProfile(k, cost)
      /\ options' \in Options
  BY <1>1, <1>2, <1>3, <1>4 DEF Options
<1> QED
  BY <1>1, <1>2, <1>3, <1>4, <1>5 DEF Widened, BudgetPreserved, BudgetType, BudgetInv,
     Grows, TypeOK

LEMMA NextTurnPreserves ==
  ASSUME TypeOK, BudgetInv, NextTurn
  PROVE  BudgetPreserved
<1>1. /\ options' \in StartOptions /\ granted' = NoLevel /\ grants' = grants
      /\ turn' = turn + 1
  BY DEF NextTurn
<1>2. /\ options' \in Options
      /\ \A l \in Levels : l > options'.level => options'.steps <= Steps[l] /\ options'.calls <= Calls[l]
      /\ options'.deadline > 0 => options'.elapsed <= options'.deadline
  BY <1>1, RunnerAssumption
<1> QED
  BY <1>1, <1>2 DEF BudgetPreserved, BudgetType, BudgetInv, Grows, TypeOK

\* Nothing else happens to a budget.
LEMMA BudgetMoves ==
  ASSUME TypeOK, [Next]_vars
  PROVE  SameBudget \/ Granted \/ Repriced \/ Widened \/ NextTurn
<1>. USE DEF SameBudget, Granted, budget
<1>1. ASSUME CheckHead \/ ReplyRewritten \/ YieldToElapsed
      PROVE  SameBudget \/ Granted
  BY <1>1 DEF CheckHead, ReplyRewritten, YieldToElapsed, UnlessElapsed
<1>2. ASSUME CountIteration \/ CallTool \/ AnswerTimedOut
      PROVE  SameBudget \/ Granted
  BY <1>2 DEF CountIteration, CallTool, AnswerTimedOut
<1>3. ASSUME NextIteration PROVE SameBudget \/ Repriced
  BY <1>3 DEF NextIteration, Repriced, TypeOK
<1>4. ASSUME ToolReturns PROVE SameBudget \/ Widened
  BY <1>4 DEF ToolReturns, Widened
<1>5. ASSUME PrepareStep PROVE SameBudget
  BY <1>5 DEF PrepareStep
<1>6. ASSUME \/ Launch \/ Answer \/ UnreadableAnswer \/ AnswerCancelled \/ ModelFails
             \/ Dispatch \/ FailExplained \/ RejectToolCall \/ DelegateReturns
             \/ ReplyReturns \/ GateAnswers \/ DeliveryParks \/ Commit
             \/ LookIfCancelled \/ KeepUncommittedReply \/ TerminalAnswers
      PROVE  SameBudget
  BY <1>6 DEF Launch, Answer, UnreadableAnswer, AnswerCancelled, ModelFails, Dispatch,
     FailExplained, RejectToolCall, DelegateReturns, ReplyReturns, GateAnswers,
     DeliveryParks, Commit, LookIfCancelled, KeepUncommittedReply, TerminalAnswers
<1>7. ASSUME \/ StallPauses \/ StallBlocks \/ AskIfDone \/ CheckAnswers
             \/ CompletionReplyWritten \/ BlockAtLimit \/ FailUnlessElapsed \/ FailRun
             \/ NoticeWritten
      PROVE  SameBudget
  BY <1>7 DEF StallPauses, StallBlocks, AskIfDone, CheckAnswers, CompletionReplyWritten,
     BlockAtLimit, FailUnlessElapsed, FailRun, NoticeWritten
<1>8. ASSUME \/ Tick \/ WorkEnds \/ CallerEnds \/ HostCancels \/ TaskCancelArrives
             \/ ToolParks \/ Crash \/ Rest \/ UNCHANGED vars
      PROVE  SameBudget
  BY <1>8 DEF Tick, WorkEnds, CallerEnds, HostCancels, TaskCancelArrives, ToolParks,
     Crash, Rest, vars
<1> QED
  BY <1>1, <1>2, <1>3, <1>4, <1>5, <1>6, <1>7, <1>8 DEF Next, RunnerStep

LEMMA BudgetStep ==
  ASSUME TypeOK, BudgetInv, [Next]_vars
  PROVE  BudgetPreserved
BY BudgetMoves, SameBudgetPreserves, GrantedPreserves, RepricedPreserves,
   WidenedPreserves, NextTurnPreserves

-----------------------------------------------------------------------------
(* Types *)

WhereType ==
  /\ pc \in Calling \cup Inside \cup {"done"}
  /\ stop \in {"none", "max_iterations", "max_tool_calls", "max_elapsed", "failed",
               "abandoned", "launch", "stalled", "no_tools"}
  /\ status \in Statuses
  /\ result \in [kind : {"none", "final", "notice", "silent", "unwritten"},
                 told : Statuses \cup {"zero"}]
  /\ asked \in BOOLEAN

ContextType ==
  /\ caller \in Errors \cup {NoError} /\ taskErr \in Errors \cup {NoError}
  /\ workErr \in Errors \cup {NoError}
  /\ armed \in Nat /\ active \in Nat

CountType ==
  /\ retired \in BOOLEAN /\ cost \in Costs \cup {Unmeasured}
  /\ iteration \in Nat \ {0} /\ toolCalls \in Nat /\ pending \in Nat
  /\ unreadable \in 0..2 /\ spent \in BOOLEAN

LEMMA TypeParts == TypeOK <=> BudgetType /\ WhereType /\ ContextType /\ CountType
BY DEF TypeOK, BudgetType, WhereType, ContextType, CountType

\* A work context for a total that is a number is well typed.
LEMMA NewContextType ==
  ASSUME ContextType, NEW e \in Nat, NewWorkContext(e), active' = active
  PROVE  ContextType'
BY WorkIsNat DEF ContextType, NewWorkContext, Errors, NoError

LEMMA ContextTypeStep ==
  ASSUME TypeOK, [Next]_vars, BudgetType'
  PROVE  ContextType'
<1>. USE TypeParts
<1>1. ASSUME UNCHANGED contexts, UNCHANGED active PROVE ContextType'
  BY <1>1 DEF ContextType, contexts
<1>2. options.elapsed \in Nat /\ options'.elapsed \in Nat
  BY DEF BudgetType, Options
<1>3. ASSUME NextIteration PROVE ContextType'
  <2>1. \/ UNCHANGED contexts
        \/ options' = [options EXCEPT !.elapsed = RefreshedElapsed(cost')]
           /\ (NewWorkContext(RefreshedElapsed(cost')) \/ UNCHANGED contexts)
    BY <1>3 DEF NextIteration
  <2>2. options' = [options EXCEPT !.elapsed = RefreshedElapsed(cost')]
          => RefreshedElapsed(cost') \in Nat
    BY <1>2 DEF BudgetType, Options
  <2> QED
    BY <2>1, <2>2, <1>1, <1>3, NewContextType DEF NextIteration
<1>4. ASSUME PrepareStep PROVE ContextType'
  BY <1>1, <1>2, <1>4, NewContextType DEF PrepareStep, contexts
<1>5. ASSUME AnswerTimedOut PROVE ContextType'
  BY <1>1, <1>2, <1>5, NewContextType DEF AnswerTimedOut
<1>6. ASSUME NextTurn PROVE ContextType'
  BY <1>2, <1>6, WorkIsNat DEF NextTurn, ContextType
<1>7. ASSUME Tick \/ WorkEnds \/ CallerEnds \/ TaskCancelArrives PROVE ContextType'
  BY <1>7 DEF Tick, WorkEnds, CallerEnds, TaskCancelArrives, ContextType, Errors, NoError, contexts
<1>8. ASSUME \/ Launch \/ CheckHead \/ CountIteration \/ Answer \/ UnreadableAnswer
             \/ AnswerCancelled \/ ModelFails \/ Dispatch \/ FailExplained \/ RejectToolCall
             \/ CallTool \/ ToolReturns \/ DelegateReturns \/ ReplyReturns \/ GateAnswers
             \/ DeliveryParks \/ ReplyRewritten \/ Commit \/ LookIfCancelled \/ KeepUncommittedReply
             \/ TerminalAnswers
      PROVE  ContextType'
  BY <1>1, <1>8 DEF Launch, CheckHead, CountIteration, Answer, UnreadableAnswer,
     AnswerCancelled, ModelFails, Dispatch, FailExplained, RejectToolCall, CallTool,
     ToolReturns, DelegateReturns, ReplyReturns, GateAnswers, DeliveryParks,
     ReplyRewritten, Commit, LookIfCancelled, KeepUncommittedReply, TerminalAnswers
<1>9. ASSUME \/ StallPauses \/ StallBlocks \/ AskIfDone \/ CheckAnswers
             \/ CompletionReplyWritten \/ BlockAtLimit \/ FailUnlessElapsed \/ FailRun
             \/ NoticeWritten \/ YieldToElapsed \/ HostCancels \/ ToolParks \/ Crash
             \/ Rest \/ UNCHANGED vars
      PROVE  ContextType'
  BY <1>1, <1>9 DEF StallPauses, StallBlocks, AskIfDone, CheckAnswers,
     CompletionReplyWritten, BlockAtLimit, FailUnlessElapsed, FailRun, NoticeWritten,
     YieldToElapsed, HostCancels, ToolParks, Crash, Rest, vars
<1> QED
  BY <1>3, <1>4, <1>5, <1>6, <1>7, <1>8, <1>9 DEF Next, RunnerStep

LEMMA CountTypeStep ==
  ASSUME TypeOK, [Next]_vars
  PROVE  CountType'
<1>0. CountType
  BY TypeParts
<1>. USE <1>0 DEF CountType, counts, budget
<1>1. ASSUME UNCHANGED <<retired, cost>>, UNCHANGED counts PROVE CountType'
  BY <1>1
<1>2. ASSUME NextIteration PROVE CountType'
  <2>1. iteration' = iteration + 1 /\ UNCHANGED <<toolCalls, pending, unreadable>>
    BY <1>2 DEF NextIteration
  <2>2. spent' \in BOOLEAN /\ retired' \in BOOLEAN /\ cost' \in Costs \cup {Unmeasured}
    BY <1>2, Zenon DEF NextIteration
  <2> QED
    BY <2>1, <2>2
<1>3. ASSUME \/ CheckHead \/ CountIteration \/ AnswerTimedOut \/ ReplyRewritten \/ YieldToElapsed
      PROVE  CountType'
  BY <1>1, <1>3 DEF CheckHead, CountIteration, AnswerTimedOut, ReplyRewritten,
     YieldToElapsed, UnlessElapsed, ExtendBudgetOneLevel
<1>4. ASSUME PrepareStep PROVE CountType'
  <2>1. pending' \in Nat /\ unreadable' \in 0..2
    BY <1>4 DEF PrepareStep
  <2>2. spent' \in BOOLEAN
    BY <1>4, Zenon DEF PrepareStep
  <2>3. retired' \in BOOLEAN /\ UNCHANGED <<cost, iteration, toolCalls>>
    BY <1>4, Zenon DEF PrepareStep
  <2> QED
    BY <2>1, <2>2, <2>3
<1>5. ASSUME Answer \/ UnreadableAnswer PROVE CountType'
  BY <1>5 DEF Answer, UnreadableAnswer
<1>6. ASSUME RejectToolCall \/ ToolReturns PROVE CountType'
  <2>1. pending' \in Nat
    BY <1>6, RunnerAssumption DEF RejectToolCall, ToolReturns, RememberBatch
  <2> QED
    BY <1>6, <2>1 DEF RejectToolCall, ToolReturns
<1>7. ASSUME CallTool PROVE CountType'
  BY <1>7 DEF CallTool, ExtendBudgetOneLevel
<1>8. ASSUME NextTurn PROVE CountType'
  <2>1. toolCalls' \in Nat /\ iteration' = 1 /\ unreadable' = 0 /\ pending' = 0
    BY <1>8 DEF NextTurn
  <2>2. retired' \in BOOLEAN /\ spent' \in BOOLEAN /\ UNCHANGED cost
    BY <1>8, Zenon DEF NextTurn
  <2> QED
    BY <2>1, <2>2
<1>9. ASSUME \/ Launch \/ AnswerCancelled \/ ModelFails \/ Dispatch \/ FailExplained
             \/ DelegateReturns \/ ReplyReturns \/ GateAnswers \/ DeliveryParks
             \/ Commit \/ LookIfCancelled \/ KeepUncommittedReply
      PROVE  CountType'
  BY <1>1, <1>9 DEF Launch, AnswerCancelled, ModelFails, Dispatch, FailExplained,
     DelegateReturns, ReplyReturns, GateAnswers, DeliveryParks, Commit, LookIfCancelled,
     KeepUncommittedReply
<1>11. ASSUME \/ TerminalAnswers \/ StallPauses
             \/ StallBlocks \/ AskIfDone \/ CheckAnswers \/ CompletionReplyWritten
             \/ BlockAtLimit \/ FailUnlessElapsed \/ FailRun \/ NoticeWritten
      PROVE  CountType'
  BY <1>1, <1>11 DEF TerminalAnswers, StallPauses, StallBlocks, AskIfDone, CheckAnswers,
     CompletionReplyWritten, BlockAtLimit, FailUnlessElapsed, FailRun, NoticeWritten
<1>10. ASSUME \/ Tick \/ WorkEnds \/ CallerEnds \/ HostCancels \/ TaskCancelArrives
              \/ ToolParks \/ Crash \/ Rest \/ UNCHANGED vars
       PROVE  CountType'
  BY <1>1, <1>10 DEF Tick, WorkEnds, CallerEnds, HostCancels, TaskCancelArrives,
     ToolParks, Crash, Rest, vars
<1> QED
  BY <1>2, <1>3, <1>4, <1>5, <1>6, <1>7, <1>8, <1>9, <1>10, <1>11 DEF Next, RunnerStep

Points == Calling \cup Inside \cup {"done"}
Stops  == {"none", "max_iterations", "max_tool_calls", "max_elapsed", "failed",
           "abandoned", "launch", "stalled", "no_tools"}
Kinds  == {"none", "final", "notice", "silent", "unwritten"}
Tellable == Statuses \cup {"zero"}

LEMMA WhereTypeStep ==
  ASSUME TypeOK, [Next]_vars
  PROVE  WhereType'
<1>1. pc' \in Points /\ stop' \in Stops
  <2>0. pc \in Points /\ stop \in Stops
    BY DEF TypeOK, Points, Stops
  <2>. USE <2>0 DEF Points, Stops, Calling, Inside
  <2>1. ASSUME \/ Launch \/ NextIteration \/ CheckHead \/ CountIteration \/ PrepareStep
               \/ Answer \/ UnreadableAnswer \/ AnswerCancelled \/ AnswerTimedOut \/ ModelFails
        PROVE  pc' \in Points /\ stop' \in Stops
    BY <2>1 DEF Goto, StopFor, Return, Launch, NextIteration, CheckHead, CountIteration, PrepareStep, Answer,
       UnreadableAnswer, AnswerCancelled, AnswerTimedOut, ModelFails, Abandon,
       UnlessElapsed, ReturnCancelled
  <2>2. ASSUME \/ Dispatch \/ FailExplained \/ RejectToolCall \/ CallTool \/ ToolReturns
               \/ DelegateReturns \/ ReplyReturns \/ GateAnswers \/ DeliveryParks
        PROVE  pc' \in Points /\ stop' \in Stops
    BY <2>2 DEF Goto, StopFor, Return, Dispatch, FailExplained, RejectToolCall, CallTool, ToolReturns,
       DelegateReturns, ReplyReturns, GateAnswers, DeliveryParks, ReturnCancelled, UnlessStalled
  <2>3. ASSUME \/ ReplyRewritten \/ Commit \/ LookIfCancelled \/ KeepUncommittedReply \/ TerminalAnswers
               \/ StallPauses \/ StallBlocks \/ AskIfDone \/ CheckAnswers
        PROVE  pc' \in Points /\ stop' \in Stops
    BY <2>3 DEF Goto, StopFor, Return, ReplyRewritten, Commit, LookIfCancelled, KeepUncommittedReply, TerminalAnswers, StallPauses,
       StallBlocks, AskIfDone, CheckAnswers, UnlessElapsed, ReturnCancelled
  <2>4. ASSUME \/ CompletionReplyWritten \/ BlockAtLimit \/ FailUnlessElapsed \/ FailRun
               \/ NoticeWritten \/ YieldToElapsed
        PROVE  pc' \in Points /\ stop' \in Stops
    BY <2>4 DEF Goto, StopFor, Return, CompletionReplyWritten, BlockAtLimit, FailUnlessElapsed, FailRun,
       NoticeWritten, YieldToElapsed, Abandon, UnlessElapsed
  <2>5. ASSUME \/ Tick \/ WorkEnds \/ CallerEnds \/ HostCancels \/ TaskCancelArrives
               \/ ToolParks \/ Crash \/ NextTurn \/ Rest \/ UNCHANGED vars
        PROVE  pc' \in Points /\ stop' \in Stops
    BY <2>5 DEF Goto, StopFor, Return, Tick, WorkEnds, CallerEnds, HostCancels, TaskCancelArrives, ToolParks,
       Crash, NextTurn, Rest, vars
  <2> QED
    BY <2>1, <2>2, <2>3, <2>4, <2>5 DEF Next, RunnerStep
<1>2. status' \in Statuses /\ asked' \in BOOLEAN
  <2>0. status \in Statuses /\ asked \in BOOLEAN /\ Waiting \subseteq Statuses
        /\ {"running", "blocked", "completed", "failed", "cancelled", "interrupted",
            "waiting_approval", "waiting_user_input"} \subseteq Statuses
    BY DEF TypeOK, Statuses, Waiting
  <2>. USE <2>0 DEF Moves, Refused
  <2>1. ASSUME \/ Launch \/ NextIteration \/ CheckHead \/ CountIteration \/ PrepareStep
               \/ Answer \/ UnreadableAnswer \/ AnswerCancelled \/ AnswerTimedOut \/ ModelFails
        PROVE  status' \in Statuses /\ asked' \in BOOLEAN
    BY <2>1 DEF Goto, StopFor, Return, Launch, NextIteration, CheckHead, CountIteration, PrepareStep, Answer,
       UnreadableAnswer, AnswerCancelled, AnswerTimedOut, ModelFails
  <2>2. ASSUME \/ Dispatch \/ FailExplained \/ RejectToolCall \/ CallTool \/ ToolReturns
               \/ DelegateReturns \/ ReplyReturns \/ GateAnswers \/ DeliveryParks
        PROVE  status' \in Statuses /\ asked' \in BOOLEAN
    BY <2>2 DEF Goto, StopFor, Return, Dispatch, FailExplained, RejectToolCall, CallTool, ToolReturns,
       DelegateReturns, ReplyReturns, GateAnswers, DeliveryParks
  <2>3. ASSUME \/ ReplyRewritten \/ Commit \/ LookIfCancelled \/ KeepUncommittedReply \/ TerminalAnswers
               \/ StallPauses \/ StallBlocks \/ AskIfDone \/ CheckAnswers
        PROVE  status' \in Statuses /\ asked' \in BOOLEAN
    BY <2>3 DEF Goto, StopFor, Return, ReplyRewritten, Commit, LookIfCancelled, KeepUncommittedReply, TerminalAnswers, StallPauses,
       StallBlocks, AskIfDone, CheckAnswers
  <2>4. ASSUME \/ CompletionReplyWritten \/ BlockAtLimit \/ FailUnlessElapsed \/ FailRun
               \/ NoticeWritten \/ YieldToElapsed
        PROVE  status' \in Statuses /\ asked' \in BOOLEAN
    BY <2>4 DEF Goto, StopFor, Return, CompletionReplyWritten, BlockAtLimit, FailUnlessElapsed, FailRun,
       NoticeWritten, YieldToElapsed
  <2>5. ASSUME \/ Tick \/ WorkEnds \/ CallerEnds \/ HostCancels \/ TaskCancelArrives
               \/ ToolParks \/ Crash \/ NextTurn \/ Rest \/ UNCHANGED vars
        PROVE  status' \in Statuses /\ asked' \in BOOLEAN
    BY <2>5 DEF Goto, StopFor, Return, Tick, WorkEnds, CallerEnds, HostCancels, TaskCancelArrives, ToolParks,
       Crash, NextTurn, Rest, vars
  <2> QED
    BY <2>1, <2>2, <2>3, <2>4, <2>5 DEF Next, RunnerStep
<1>3. result' \in [kind : Kinds, told : Tellable]
  <2>0. /\ result \in [kind : Kinds, told : Tellable]
        /\ status \in Tellable
        /\ "planned" \in Tellable /\ "blocked" \in Tellable /\ "completed" \in Tellable
        /\ "failed" \in Tellable /\ "cancelled" \in Tellable
        /\ "waiting_user_input" \in Tellable /\ "zero" \in Tellable
        /\ "none" \in Kinds /\ "final" \in Kinds /\ "notice" \in Kinds
        /\ "silent" \in Kinds /\ "unwritten" \in Kinds
    BY DEF TypeOK, Kinds, Tellable, Statuses, Waiting
  <2>7. result.told \in Tellable
    BY DEF TypeOK, Tellable
  <2>. USE <2>0
  <2>1. ASSUME \/ Launch \/ NextIteration \/ CheckHead \/ CountIteration \/ PrepareStep
               \/ Answer \/ UnreadableAnswer \/ AnswerCancelled \/ AnswerTimedOut \/ ModelFails
        PROVE  result' \in [kind : Kinds, told : Tellable]
    BY <2>1 DEF Goto, StopFor, Return, Launch, NextIteration, CheckHead, CountIteration, PrepareStep, Answer,
       UnreadableAnswer, AnswerCancelled, AnswerTimedOut, ModelFails, Abandon,
       ReturnCancelled
  <2>2. ASSUME \/ Dispatch \/ FailExplained \/ RejectToolCall \/ CallTool \/ ToolReturns
               \/ DelegateReturns \/ ReplyReturns \/ GateAnswers \/ DeliveryParks
        PROVE  result' \in [kind : Kinds, told : Tellable]
    BY <2>2 DEF Goto, StopFor, Return, Dispatch, FailExplained, RejectToolCall, CallTool, ToolReturns,
       DelegateReturns, ReplyReturns, GateAnswers, DeliveryParks, ReturnCancelled
  <2>3. ASSUME \/ ReplyRewritten \/ Commit \/ LookIfCancelled \/ KeepUncommittedReply \/ TerminalAnswers
        PROVE  result' \in [kind : Kinds, told : Tellable]
    <3>1. ASSUME ReplyRewritten \/ TerminalAnswers PROVE result' \in [kind : Kinds, told : Tellable]
      <4>1. result' = result \/ result' = [kind |-> "silent", told |-> "cancelled"]
        BY <3>1, Zenon DEF Return, ReplyRewritten, TerminalAnswers, ReturnCancelled
      <4> QED
        BY <4>1
    <3>2. ASSUME Commit PROVE result' \in [kind : Kinds, told : Tellable]
      BY <3>2 DEF Goto, StopFor, Return, Commit
    <3>3. ASSUME LookIfCancelled \/ KeepUncommittedReply
          PROVE  result' \in [kind : Kinds, told : Tellable]
      BY <3>3 DEF Goto, StopFor, Return, LookIfCancelled, KeepUncommittedReply, ReturnCancelled
    <3> QED
      BY <2>3, <3>1, <3>2, <3>3
  <2>6. ASSUME StallPauses \/ StallBlocks \/ AskIfDone \/ CheckAnswers
        PROVE  result' \in [kind : Kinds, told : Tellable]
    <3>1. ASSUME StallPauses PROVE result' \in [kind : Kinds, told : Tellable]
      <4>1. result' = result \/ result' = [kind |-> "notice", told |-> "waiting_user_input"]
        BY <3>1, Zenon DEF StallPauses
      <4> QED
        BY <4>1
    <3>2. ASSUME StallBlocks PROVE result' \in [kind : Kinds, told : Tellable]
      <4>1. \/ result' = result
            \/ result' = [kind |-> "notice", told |-> "blocked"]
            \/ result' = [kind |-> "unwritten", told |-> "zero"]
        BY <3>2, Zenon DEF Return, StallBlocks
      <4> QED
        BY <4>1
    <3>3. ASSUME AskIfDone \/ CheckAnswers PROVE result' \in [kind : Kinds, told : Tellable]
      BY <3>3 DEF Goto, StopFor, Return, AskIfDone, CheckAnswers
    <3> QED
      BY <2>6, <3>1, <3>2, <3>3
  <2>4. ASSUME \/ CompletionReplyWritten \/ BlockAtLimit \/ FailUnlessElapsed \/ FailRun
               \/ NoticeWritten \/ YieldToElapsed
        PROVE  result' \in [kind : Kinds, told : Tellable]
    BY <2>4, <2>7 DEF Goto, StopFor, Return, CompletionReplyWritten, BlockAtLimit, FailUnlessElapsed, FailRun,
       NoticeWritten, YieldToElapsed, Abandon, ElapsedNotice
  <2>5. ASSUME \/ Tick \/ WorkEnds \/ CallerEnds \/ HostCancels \/ TaskCancelArrives
               \/ ToolParks \/ Crash \/ NextTurn \/ Rest \/ UNCHANGED vars
        PROVE  result' \in [kind : Kinds, told : Tellable]
    BY <2>5 DEF Goto, StopFor, Return, Tick, WorkEnds, CallerEnds, HostCancels, TaskCancelArrives, ToolParks,
       Crash, NextTurn, Rest, vars, NothingYet
  <2> QED
    BY <2>1, <2>2, <2>3, <2>4, <2>5, <2>6 DEF Next, RunnerStep
<1> QED
  BY <1>1, <1>2, <1>3 DEF WhereType, Points, Stops, Kinds, Tellable

LEMMA TypeStep ==
  ASSUME TypeOK, BudgetInv, [Next]_vars
  PROVE  TypeOK'
<1>1. BudgetType'
  BY BudgetStep DEF BudgetPreserved
<1>2. ContextType' /\ CountType' /\ WhereType'
  BY <1>1, ContextTypeStep, CountTypeStep, WhereTypeStep
<1> QED
  BY <1>1, <1>2 DEF TypeOK, BudgetType, ContextType, CountType, WhereType

-----------------------------------------------------------------------------
(* The step budget *)

\* An iteration past the budget is not counted: the grant pays for it or the turn stops.
LEMMA CountStep ==
  ASSUME TypeOK, BudgetInv, CountInv, [Next]_vars
  PROVE  CountInv'
<1>5. iteration \in Nat /\ options.steps \in Nat /\ options'.steps \in Nat
  BY BudgetStep DEF BudgetPreserved, BudgetType, TypeOK, Options
<1>0. /\ iteration \in Nat \ {0} /\ options.steps \in Nat \ {0} /\ options'.steps \in Nat \ {0}
      /\ turn' = turn => options'.steps >= options.steps
  BY BudgetStep DEF BudgetPreserved, BudgetType, Grows, TypeOK, Options
<1>4. ASSUME turn' = turn, iteration' = iteration, pc' \in Counted => pc \in Counted
      PROVE  CountInv'
  <2>1. options'.steps >= options.steps
    BY <1>0, <1>4
  <2> QED
    BY <1>0, <1>4, <2>1 DEF CountInv, StepsAreBounded
<1>11. ASSUME iteration' \in Nat, iteration' <= options'.steps PROVE CountInv'
  BY <1>5, <1>11 DEF CountInv, StepsAreBounded
<1>1. ASSUME NextIteration PROVE CountInv'
  BY <1>0, <1>1 DEF CountInv, StepsAreBounded, Counted, Goto, NextIteration
<1>2. ASSUME CountIteration PROVE CountInv'
  <2>0. iteration' = iteration /\ turn' = turn
    BY <1>2 DEF CountIteration, counts
  <2>4. options'.steps >= options.steps
    BY <1>0, <2>0
  <2>1. CASE iteration <= options.steps
    <3>1. iteration' <= options'.steps
      BY <1>5, <2>0, <2>1, <2>4
    <3> QED
      BY <1>5, <1>11, <2>0, <3>1
  <2>2. CASE iteration > options.steps /\ ExtendBudgetOneLevel
    <3>1. options'.steps > options.steps
      BY <2>2, GrantGrows DEF TypeOK, Options
    <3> QED
      <4>1. iteration' <= options'.steps
        BY <1>5, <2>0, <2>4, <3>1, CountInv DEF CountInv, StepsAreBounded
      <4> QED
        BY <1>5, <1>11, <2>0, <4>1
  <2>3. CASE pc' = "stopping"
    BY <1>4, <2>0, <2>3 DEF Counted
  <2> QED
    BY <1>2, <2>1, <2>2, <2>3 DEF CountIteration, StopFor
<1>3. ASSUME NextTurn PROVE CountInv'
  BY <1>0, <1>3 DEF CountInv, StepsAreBounded, Counted, NextTurn
<1>10. ASSUME \/ Launch \/ CheckHead \/ PrepareStep \/ Answer \/ UnreadableAnswer \/ AnswerCancelled
             \/ AnswerTimedOut \/ ModelFails
      PROVE  CountInv'
  BY <1>4, <1>10 DEF Counted, Goto, StopFor, Return, Launch, CheckHead, PrepareStep, Answer, UnreadableAnswer, AnswerCancelled,
     AnswerTimedOut, ModelFails, Abandon, UnlessElapsed, ReturnCancelled, counts
<1>6. ASSUME \/ Dispatch \/ FailExplained \/ RejectToolCall \/ CallTool \/ ToolReturns
             \/ DelegateReturns \/ ReplyReturns \/ GateAnswers \/ DeliveryParks
      PROVE  CountInv'
  BY <1>4, <1>6 DEF Counted, Goto, StopFor, Return, Dispatch, FailExplained, RejectToolCall, CallTool, ToolReturns,
     DelegateReturns, ReplyReturns, GateAnswers, DeliveryParks, ReturnCancelled,
     UnlessStalled, counts
<1>7. ASSUME \/ ReplyRewritten \/ Commit \/ LookIfCancelled \/ KeepUncommittedReply \/ TerminalAnswers
             \/ StallPauses \/ StallBlocks \/ AskIfDone \/ CheckAnswers
      PROVE  CountInv'
  BY <1>4, <1>7 DEF Counted, Goto, StopFor, Return, ReplyRewritten, Commit, LookIfCancelled, KeepUncommittedReply, TerminalAnswers,
     StallPauses, StallBlocks, AskIfDone, CheckAnswers, UnlessElapsed, ReturnCancelled, counts
<1>8. ASSUME \/ CompletionReplyWritten \/ BlockAtLimit \/ FailUnlessElapsed \/ FailRun
             \/ NoticeWritten \/ YieldToElapsed
      PROVE  CountInv'
  BY <1>4, <1>8 DEF Counted, Goto, StopFor, Return, CompletionReplyWritten, BlockAtLimit, FailUnlessElapsed, FailRun,
     NoticeWritten, YieldToElapsed, Abandon, UnlessElapsed, counts
<1>9. ASSUME \/ Tick \/ WorkEnds \/ CallerEnds \/ HostCancels \/ TaskCancelArrives
             \/ ToolParks \/ Crash \/ Rest \/ UNCHANGED vars
      PROVE  CountInv'
  BY <1>4, <1>9 DEF Counted, Goto, StopFor, Return, Tick, WorkEnds, CallerEnds, HostCancels, TaskCancelArrives,
     ToolParks, Crash, Rest, vars, counts
<1> QED
  BY <1>1, <1>2, <1>3, <1>10, <1>6, <1>7, <1>8, <1>9 DEF Next, RunnerStep

-----------------------------------------------------------------------------
(* The reply *)

\* What a step of the goroutine may do before the run is completed: go on, end the
\* turn without an answer, complete the run and answer, or complete it and have the
\* answer still to be written.
GoesOn   == pc' \notin {"closing", "done"} /\ status' # "completed" /\ result'.kind # "final"
Silent   == pc' = "done" /\ status' # "completed" /\ result'.kind # "final"
Answers  == pc' = "done" /\ status' = "completed" /\ result'.kind = "final"
Closes   == pc' = "closing" /\ status' = "completed" /\ result'.kind # "final"
TowardsAnEnd   == GoesOn \/ Silent \/ Answers \/ Closes

\* Results that are not the final answer.
LEMMA NoAnswer ==
  ASSUME NEW t
  PROVE  /\ result' = [kind |-> "notice", told |-> t] => result'.kind # "final"
         /\ result' = [kind |-> "silent", told |-> t] => result'.kind # "final"
         /\ result' = [kind |-> "unwritten", told |-> t] => result'.kind # "final"
OBVIOUS

LEMMA CompletionStep ==
  ASSUME TypeOK, CompletionInv, [Next]_vars
  PROVE  CompletionInv'
<1>1. ASSUME TowardsAnEnd PROVE CompletionInv'
  BY <1>1 DEF CompletionInv, ReplyMatchesRun, TowardsAnEnd, GoesOn, Silent, Answers, Closes
<1>2. pc \notin {"closing", "done"} => status # "completed" /\ result.kind # "final"
  BY DEF CompletionInv
<1>3. ASSUME \/ Launch \/ NextIteration \/ CountIteration \/ Answer \/ UnreadableAnswer
             \/ ModelFails \/ DelegateReturns \/ RejectToolCall \/ CallTool
      PROVE  TowardsAnEnd
  BY <1>2, <1>3 DEF Launch, NextIteration, CountIteration, Answer, UnreadableAnswer,
     ModelFails, DelegateReturns, RejectToolCall, CallTool, UnlessStalled, Moves, Refused,
     Goto, StopFor, TowardsAnEnd, GoesOn
<1>4. ASSUME CheckHead \/ PrepareStep PROVE TowardsAnEnd
  BY <1>2, <1>4 DEF CheckHead, PrepareStep, UnlessElapsed, Abandon, ReturnCancelled,
     Goto, StopFor, Return, TowardsAnEnd, GoesOn, Silent
<1>5. ASSUME AnswerCancelled \/ AnswerTimedOut \/ FailUnlessElapsed PROVE TowardsAnEnd
  BY <1>2, <1>5 DEF AnswerCancelled, AnswerTimedOut, FailUnlessElapsed, Abandon,
     Goto, StopFor, Return, TowardsAnEnd, GoesOn, Silent
<1>6. ASSUME Dispatch \/ ReplyReturns \/ GateAnswers \/ DeliveryParks \/ TerminalAnswers PROVE TowardsAnEnd
  <2>1. ASSUME Dispatch PROVE TowardsAnEnd
    <3>1. pc \notin {"closing", "done"} /\ status' = status
          /\ pc' \notin {"closing"}
      BY <2>1 DEF Dispatch, UnlessStalled, ReturnCancelled, Goto, StopFor, Return
    <3>3. \/ result' = result
          \/ result' = [kind |-> "silent", told |-> "cancelled"]
      BY <2>1, Zenon DEF Dispatch, ReturnCancelled, Return
    <3>2. result'.kind = result.kind \/ result'.kind # "final"
      BY <3>3, NoAnswer, Zenon
    <3> QED
      BY <1>2, <3>1, <3>2 DEF TowardsAnEnd, GoesOn, Silent
  <2>2. ASSUME ReplyReturns PROVE TowardsAnEnd
    <3>1. pc \notin {"closing", "done"} /\ status' = status
          /\ pc' \in {"again", "stall block", "stall pause", "done"}
      BY <2>2 DEF ReplyReturns, UnlessStalled, Goto, StopFor, Return
    <3>3. \/ result' = result
          \/ result' = [kind |-> "notice", told |-> status]
      BY <2>2, Zenon DEF ReplyReturns, Return
    <3>2. result'.kind = result.kind \/ result'.kind # "final"
      BY <3>3, NoAnswer, Zenon
    <3> QED
      BY <1>2, <3>1, <3>2 DEF TowardsAnEnd, GoesOn, Silent
  <2>3. ASSUME GateAnswers PROVE TowardsAnEnd
    BY <1>2, <2>3 DEF GateAnswers, UnlessStalled, Goto, StopFor, Return, TowardsAnEnd, GoesOn, Silent
  <2>4. ASSUME DeliveryParks PROVE TowardsAnEnd
    BY <1>2, <2>4 DEF DeliveryParks, UnlessStalled, Goto, StopFor, Return, TowardsAnEnd, GoesOn, Silent
  <2>5. ASSUME TerminalAnswers PROVE TowardsAnEnd
    BY <1>2, <2>5 DEF TerminalAnswers, Goto, StopFor, Return, TowardsAnEnd, GoesOn, Silent
  <2> QED
    BY <1>6, <2>1, <2>2, <2>3, <2>4, <2>5
<1>7. ASSUME ToolReturns \/ FailExplained PROVE TowardsAnEnd
  <2>1. ASSUME ToolReturns PROVE TowardsAnEnd
    <3>1. pc \notin {"closing", "done"} /\ status' = status
          /\ pc' \in {"again", "stall block", "stall pause", "done"}
      BY <2>1 DEF ToolReturns, UnlessStalled, ReturnCancelled, Goto, StopFor, Return
    <3>3. \/ result' = result
          \/ result' = [kind |-> "notice", told |-> status]
          \/ result' = [kind |-> "silent", told |-> "cancelled"]
      BY <2>1, Zenon DEF ToolReturns, ReturnCancelled, Return
    <3>2. result'.kind = result.kind \/ result'.kind # "final"
      BY <3>3, NoAnswer, Zenon
    <3> QED
      BY <1>2, <3>1, <3>2 DEF TowardsAnEnd, GoesOn, Silent
  <2>2. ASSUME FailExplained PROVE TowardsAnEnd
    BY <1>2, <2>2 DEF FailExplained, Moves, Refused, Goto, StopFor, Return, TowardsAnEnd, GoesOn, Silent
  <2> QED
    BY <1>7, <2>1, <2>2
<1>8. ASSUME ReplyRewritten \/ Commit \/ LookIfCancelled \/ KeepUncommittedReply PROVE TowardsAnEnd
  BY <1>2, <1>8 DEF ReplyRewritten, Commit, LookIfCancelled, KeepUncommittedReply, UnlessElapsed, ReturnCancelled,
     Moves, Refused, Goto, StopFor, Return, TowardsAnEnd, GoesOn, Silent, Answers
<1>9. ASSUME StallPauses \/ StallBlocks \/ BlockAtLimit PROVE TowardsAnEnd
  <2>1. ASSUME StallPauses PROVE TowardsAnEnd
    <3>1. pc \notin {"closing", "done"} /\ pc' \in {"recheck", "stall block"}
          /\ (status' = "waiting_user_input" \/ status' = status)
      BY <2>1 DEF StallPauses, Moves, Refused, Goto
    <3>3. \/ result' = result
          \/ result' = [kind |-> "notice", told |-> "waiting_user_input"]
      BY <2>1, Zenon DEF StallPauses
    <3>2. result'.kind = result.kind \/ result'.kind # "final"
      BY <3>3, NoAnswer, Zenon
    <3> QED
      BY <1>2, <3>1, <3>2 DEF TowardsAnEnd, GoesOn
  <2>2. ASSUME StallBlocks PROVE TowardsAnEnd
    <3>1. pc \notin {"closing", "done"} /\ pc' \in {"recheck", "again", "done"}
          /\ (status' = "blocked" \/ status' = status)
      BY <2>2 DEF StallBlocks, Moves, Refused, Goto, StopFor, Return
    <3>3. \/ result' = result
          \/ result' = [kind |-> "notice", told |-> "blocked"]
          \/ result' = [kind |-> "unwritten", told |-> "zero"]
      BY <2>2, Zenon DEF StallBlocks, Return
    <3>2. result'.kind = result.kind \/ result'.kind # "final"
      BY <3>3, NoAnswer, Zenon
    <3> QED
      BY <1>2, <3>1, <3>2 DEF TowardsAnEnd, GoesOn, Silent
  <2>3. ASSUME BlockAtLimit PROVE TowardsAnEnd
    BY <1>2, <2>3 DEF BlockAtLimit, Moves, Refused, Goto, StopFor, Return, TowardsAnEnd, GoesOn, Silent
  <2> QED
    BY <1>9, <2>1, <2>2, <2>3
<1>10. ASSUME AskIfDone \/ CheckAnswers PROVE TowardsAnEnd
  BY <1>2, <1>10 DEF AskIfDone, CheckAnswers, Moves, Refused, Goto, TowardsAnEnd, GoesOn, Closes
<1>11. ASSUME CompletionReplyWritten PROVE TowardsAnEnd
  BY <1>11 DEF CompletionInv, CompletionReplyWritten, Return, TowardsAnEnd, Answers
<1>12. ASSUME FailRun \/ NoticeWritten \/ YieldToElapsed PROVE TowardsAnEnd
  BY <1>2, <1>12 DEF FailRun, NoticeWritten, YieldToElapsed, UnlessElapsed, ElapsedNotice,
     Moves, Refused, Goto, StopFor, Return, TowardsAnEnd, GoesOn, Silent
<1>13. ASSUME \/ Tick \/ WorkEnds \/ CallerEnds \/ TaskCancelArrives \/ Rest \/ UNCHANGED vars
       PROVE  UNCHANGED <<pc, status, result>>
  BY <1>13 DEF Tick, WorkEnds, CallerEnds, TaskCancelArrives, Rest, vars
<1>14. ASSUME UNCHANGED <<pc, status, result>> PROVE CompletionInv'
  BY <1>14 DEF CompletionInv, ReplyMatchesRun
<1>15. ASSUME HostCancels \/ ToolParks \/ NextTurn PROVE TowardsAnEnd
  BY <1>2, <1>15 DEF CompletionInv, HostCancels, ToolParks, NextTurn, NothingYet, Waiting,
     TowardsAnEnd, GoesOn
<1>16. ASSUME Crash PROVE CompletionInv'
  BY <1>16 DEF CompletionInv, ReplyMatchesRun, Crash, NothingYet
<1> QED
  BY <1>1, <1>3, <1>4, <1>5, <1>6, <1>7, <1>8, <1>9, <1>10, <1>11, <1>12, <1>13, <1>14,
     <1>15, <1>16 DEF Next, RunnerStep

-----------------------------------------------------------------------------
(* Silence *)

\* A cancelled run stays cancelled within its turn.
LEMMA CancelledStays ==
  ASSUME [Next]_vars, status = "cancelled"
  PROVE  status' = "cancelled"
<1>1. \A to : ~MayMove("cancelled", to)
  BY DEF MayMove, Open, Waiting
<1>. USE <1>1 DEF Moves, Refused, Waiting
<1>2. ASSUME \/ Launch \/ NextIteration \/ CheckHead \/ CountIteration \/ PrepareStep \/ Answer
             \/ UnreadableAnswer \/ AnswerCancelled \/ AnswerTimedOut \/ ModelFails
      PROVE  status' = "cancelled"
  BY <1>2, Zenon DEF Launch, NextIteration, CheckHead, CountIteration, PrepareStep, Answer,
     UnreadableAnswer, AnswerCancelled, AnswerTimedOut, ModelFails
<1>3. ASSUME \/ Dispatch \/ FailExplained \/ RejectToolCall \/ CallTool \/ ToolReturns
             \/ DelegateReturns \/ ReplyReturns \/ GateAnswers \/ DeliveryParks
      PROVE  status' = "cancelled"
  BY <1>3 DEF Dispatch, FailExplained, RejectToolCall, CallTool, ToolReturns,
     DelegateReturns, ReplyReturns, GateAnswers, DeliveryParks
<1>4. ASSUME \/ ReplyRewritten \/ Commit \/ LookIfCancelled \/ KeepUncommittedReply \/ TerminalAnswers
             \/ StallPauses \/ StallBlocks \/ AskIfDone \/ CheckAnswers
      PROVE  status' = "cancelled"
  BY <1>4, Zenon DEF ReplyRewritten, Commit, LookIfCancelled, KeepUncommittedReply, TerminalAnswers, StallPauses,
     StallBlocks, AskIfDone, CheckAnswers
<1>5. ASSUME \/ CompletionReplyWritten \/ BlockAtLimit \/ FailUnlessElapsed \/ FailRun
             \/ NoticeWritten \/ YieldToElapsed
      PROVE  status' = "cancelled"
  BY <1>5, Zenon DEF CompletionReplyWritten, BlockAtLimit, FailUnlessElapsed, FailRun,
     NoticeWritten, YieldToElapsed
<1>6. ASSUME \/ Tick \/ WorkEnds \/ CallerEnds \/ HostCancels \/ TaskCancelArrives
             \/ ToolParks \/ Crash \/ NextTurn \/ Rest \/ UNCHANGED vars
      PROVE  status' = "cancelled"
  BY <1>6 DEF Tick, WorkEnds, CallerEnds, HostCancels, TaskCancelArrives, ToolParks,
     Crash, NextTurn, Rest, vars
<1> QED
  BY <1>2, <1>3, <1>4, <1>5, <1>6 DEF Next, RunnerStep

LEMMA ContextOwnedStep ==
  ASSUME TypeOK, ContextOwned, [Next]_vars
  PROVE  ContextOwned'
<1>1. ASSUME UNCHANGED <<caller, taskErr>>, workErr' = workErr \/ workErr' # "canceled"
      PROVE  ContextOwned'
  BY <1>1, CancelledStays DEF ContextOwned
<1>2. ASSUME UNCHANGED contexts PROVE ContextOwned'
  BY <1>1, <1>2 DEF contexts
<1>3. ASSUME NEW e, NewWorkContext(e) PROVE ContextOwned'
  BY <1>1, <1>3 DEF NewWorkContext, NoError
<1>4. ASSUME NextIteration \/ PrepareStep \/ AnswerTimedOut PROVE ContextOwned'
  BY <1>2, <1>3, <1>4, Zenon DEF NextIteration, PrepareStep, AnswerTimedOut, contexts
<1>5. ASSUME WorkEnds PROVE ContextOwned'
  BY <1>5, CancelledStays DEF WorkEnds, ContextOwned
<1>6. ASSUME CallerEnds PROVE ContextOwned'
  BY <1>6 DEF CallerEnds, ContextOwned, NoError
<1>7. ASSUME TaskCancelArrives PROVE ContextOwned'
  BY <1>7 DEF TaskCancelArrives, ContextOwned, NoError
<1>8. ASSUME NextTurn PROVE ContextOwned'
  BY <1>8 DEF NextTurn, ContextOwned, NoError
<1>9. ASSUME \/ Launch \/ CheckHead \/ CountIteration \/ Answer \/ UnreadableAnswer
             \/ AnswerCancelled \/ ModelFails \/ Dispatch \/ FailExplained \/ RejectToolCall
             \/ CallTool \/ ToolReturns \/ DelegateReturns \/ ReplyReturns \/ GateAnswers
             \/ DeliveryParks \/ ReplyRewritten \/ Commit \/ LookIfCancelled \/ KeepUncommittedReply
             \/ TerminalAnswers
      PROVE  UNCHANGED contexts
  BY <1>9 DEF Launch, CheckHead, CountIteration, Answer, UnreadableAnswer,
     AnswerCancelled, ModelFails, Dispatch, FailExplained, RejectToolCall, CallTool,
     ToolReturns, DelegateReturns, ReplyReturns, GateAnswers, DeliveryParks,
     ReplyRewritten, Commit, LookIfCancelled, KeepUncommittedReply, TerminalAnswers
<1>10. ASSUME \/ StallPauses \/ StallBlocks \/ AskIfDone \/ CheckAnswers
              \/ CompletionReplyWritten \/ BlockAtLimit \/ FailUnlessElapsed \/ FailRun
              \/ NoticeWritten \/ YieldToElapsed \/ Tick \/ HostCancels \/ ToolParks \/ Crash
              \/ Rest \/ UNCHANGED vars
       PROVE  UNCHANGED contexts
  BY <1>10 DEF StallPauses, StallBlocks, AskIfDone, CheckAnswers,
     CompletionReplyWritten, BlockAtLimit, FailUnlessElapsed, FailRun, NoticeWritten,
     YieldToElapsed, Tick, HostCancels, ToolParks, Crash, Rest, vars
<1> QED
  BY <1>2, <1>4, <1>5, <1>6, <1>7, <1>8, <1>9, <1>10 DEF Next, RunnerStep

SilenceInv == result.kind = "silent" => pc = "done" /\ Owned

\* The ways a step may leave the result: it says something, it says nothing yet, or
\* it is silent for a reason.
Speaks      == result'.kind # "silent"
KeepsResult == result' = result /\ pc # "done"
OwnedEnd    == pc' = "done" /\ Owned'

LEMMA NotSilent ==
  ASSUME NEW t
  PROVE  /\ result' = [kind |-> "notice", told |-> t] => Speaks
         /\ result' = [kind |-> "final", told |-> t] => Speaks
         /\ result' = [kind |-> "none", told |-> t] => Speaks
         /\ result' = [kind |-> "unwritten", told |-> t] => Speaks
BY DEF Speaks

LEMMA SilenceStep ==
  ASSUME TypeOK, BudgetInv, ContextOwned, SilenceInv, [Next]_vars
  PROVE  SilenceInv'
<1>1. ASSUME Speaks \/ KeepsResult \/ OwnedEnd PROVE SilenceInv'
  BY <1>1 DEF SilenceInv, Speaks, KeepsResult, OwnedEnd
<1>2. ASSUME turn' = turn, Owned, caller' = caller PROVE Owned'
  BY <1>2, CancelledStays, BudgetStep DEF BudgetPreserved, Grows, Owned
\* A turn is abandoned in silence only when somebody owns its outcome.
<1>3. ASSUME NEW cause, Abandon(cause), pc # "done", caller' = caller, turn' = turn,
             status' = status, cause = "canceled" => caller # NoError \/ taskErr # NoError
      PROVE  Speaks \/ KeepsResult \/ OwnedEnd
  <2>1. CASE cause = "canceled" \/ status = "cancelled"
    <3>1. Owned
      BY <1>3, <2>1 DEF Owned, ContextOwned, Abandon, Finished
    <3>2. Owned'
      BY <1>2, <1>3, <3>1
    <3>3. pc' = "done" \/ result' = result
      BY <1>3, Zenon DEF Abandon, Return
    <3> QED
      BY <1>3, <3>2, <3>3 DEF OwnedEnd, KeepsResult
  <2>2. CASE cause # "canceled" /\ status # "cancelled"
    <3>1. result' = result \/ result' = [kind |-> "notice", told |-> status]
      BY <1>3, <2>2, Zenon DEF Abandon, Return
    <3> QED
      BY <1>3, <3>1, NotSilent, Zenon DEF KeepsResult
  <2> QED
    BY <2>1, <2>2
<1>4. ASSUME ReturnCancelled, caller' = caller, turn' = turn
      PROVE  OwnedEnd
  BY <1>2, <1>4 DEF ReturnCancelled, Return, Owned, OwnedEnd
<1>5. ASSUME \/ Launch \/ NextIteration \/ CountIteration \/ Answer \/ UnreadableAnswer
             \/ ModelFails \/ DelegateReturns \/ RejectToolCall \/ CallTool \/ GateAnswers
             \/ DeliveryParks \/ TerminalAnswers \/ AskIfDone \/ CheckAnswers \/ YieldToElapsed
      PROVE  KeepsResult
  BY <1>5, Zenon DEF Launch, NextIteration, CountIteration, Answer, UnreadableAnswer, ModelFails,
     DelegateReturns, RejectToolCall, CallTool, GateAnswers, DeliveryParks, TerminalAnswers,
     AskIfDone, CheckAnswers, YieldToElapsed, KeepsResult
<1>6. ASSUME Tick \/ WorkEnds \/ CallerEnds \/ HostCancels \/ TaskCancelArrives \/ ToolParks
      PROVE  KeepsResult
  BY <1>6, Zenon DEF Tick, WorkEnds, CallerEnds, HostCancels, TaskCancelArrives, ToolParks, KeepsResult
<1>7. ASSUME CheckHead PROVE Speaks \/ KeepsResult \/ OwnedEnd
  <2>1. pc # "done" /\ caller' = caller /\ turn' = turn /\ status' = status
    BY <1>7 DEF CheckHead, contexts
  <2>2. \/ ReturnCancelled
        \/ Abandon(caller) /\ caller # NoError
        \/ result' = result
    BY <1>7 DEF CheckHead
  <2> QED
    BY <1>3, <1>4, <2>1, <2>2 DEF KeepsResult
<1>8. ASSUME PrepareStep PROVE Speaks \/ KeepsResult \/ OwnedEnd
  <2>1. pc # "done" /\ turn' = turn /\ status' = status /\ caller' = caller /\ taskErr' = taskErr
    BY <1>8, Zenon DEF PrepareStep, contexts, NewWorkContext
  <2>2. Abandon(workErr') \/ result' = result
    BY <1>8, Zenon DEF PrepareStep
  <2>3. workErr' = "canceled" => taskErr # NoError
    <3>1. (workErr' = IF active >= Work(options.elapsed) THEN "deadline" ELSE NoError) \/ workErr' = workErr
      BY <1>8, Zenon DEF PrepareStep, contexts, NewWorkContext
    <3> QED
      BY <3>1 DEF ContextOwned, NoError
  <2> QED
    BY <1>3, <2>1, <2>2, <2>3 DEF KeepsResult
<1>9. ASSUME AnswerCancelled PROVE Speaks \/ KeepsResult \/ OwnedEnd
  <2>1. /\ pc # "done" /\ turn' = turn /\ status' = status /\ caller' = caller
        /\ Abandon("canceled") /\ workErr = "canceled"
    BY <1>9 DEF AnswerCancelled, contexts
  <2> QED
    BY <1>3, <2>1 DEF ContextOwned
<1>10. ASSUME AnswerTimedOut PROVE Speaks \/ KeepsResult \/ OwnedEnd
  <2>1. /\ pc # "done" /\ turn' = turn /\ status' = status /\ caller' = caller
        /\ (Abandon(caller) /\ caller # NoError) \/ result' = result
    BY <1>10, Zenon DEF AnswerTimedOut, contexts, NewWorkContext
  <2> QED
    BY <1>3, <2>1 DEF KeepsResult
<1>11. ASSUME FailUnlessElapsed PROVE Speaks \/ KeepsResult \/ OwnedEnd
  <2>1. /\ pc # "done" /\ turn' = turn /\ status' = status /\ caller' = caller
        /\ (Abandon(taskErr) /\ taskErr # NoError) \/ result' = result
    BY <1>11, Zenon DEF FailUnlessElapsed, contexts
  <2> QED
    BY <1>3, <2>1 DEF KeepsResult
<1>12. ASSUME Dispatch \/ ReplyRewritten \/ LookIfCancelled \/ KeepUncommittedReply
       PROVE  Speaks \/ KeepsResult \/ OwnedEnd
  <2>1. pc # "done" /\ caller' = caller /\ turn' = turn
    BY <1>12, Zenon DEF Dispatch, ReplyRewritten, LookIfCancelled, KeepUncommittedReply, contexts
  <2>2. ReturnCancelled \/ result' = result \/ result' = [kind |-> "notice", told |-> "blocked"]
    BY <1>12, Zenon DEF Dispatch, ReplyRewritten, LookIfCancelled, KeepUncommittedReply, Return
  <2> QED
    BY <1>4, <2>1, <2>2, NotSilent, Zenon DEF KeepsResult
<1>13. ASSUME ToolReturns \/ ReplyReturns PROVE Speaks \/ KeepsResult \/ OwnedEnd
  <2>1. pc # "done" /\ caller' = caller /\ turn' = turn
    BY <1>13, Zenon DEF ToolReturns, ReplyReturns, contexts
  <2>2. ReturnCancelled \/ result' = result \/ result' = [kind |-> "notice", told |-> status]
    BY <1>13, Zenon DEF ToolReturns, ReplyReturns, Return
  <2> QED
    BY <1>4, <2>1, <2>2, NotSilent, Zenon DEF KeepsResult
<1>14. ASSUME FailExplained \/ Commit \/ CompletionReplyWritten PROVE Speaks \/ KeepsResult
  <2>1. pc # "done"
    BY <1>14 DEF FailExplained, Commit, CompletionReplyWritten
  <2>2. \/ result' = result
        \/ result' = [kind |-> "notice", told |-> "failed"]
        \/ result' = [kind |-> "notice", told |-> "zero"]
        \/ result' = [kind |-> "final", told |-> "completed"]
    BY <1>14, Zenon DEF FailExplained, Commit, CompletionReplyWritten, Return
  <2> QED
    BY <2>1, <2>2, NotSilent, Zenon DEF KeepsResult
<1>15. ASSUME StallPauses \/ StallBlocks \/ BlockAtLimit PROVE Speaks \/ KeepsResult
  <2>1. pc # "done"
    BY <1>15 DEF StallPauses, StallBlocks, BlockAtLimit
  <2>2. \/ result' = result
        \/ result' = [kind |-> "notice", told |-> "waiting_user_input"]
        \/ result' = [kind |-> "notice", told |-> "blocked"]
        \/ result' = [kind |-> "unwritten", told |-> "zero"]
        \/ result' = [kind |-> "notice", told |-> "zero"]
    BY <1>15, Zenon DEF StallPauses, StallBlocks, BlockAtLimit, Return
  <2> QED
    BY <2>1, <2>2, NotSilent, Zenon DEF KeepsResult
<1>16. ASSUME FailRun PROVE Speaks \/ OwnedEnd
  <2>1. turn' = turn /\ caller' = caller
    BY <1>16, Zenon DEF FailRun, contexts
  <2>2. \/ \E t : result' = [kind |-> "notice", told |-> t]
        \/ options.delegated /\ pc' = "done"
    BY <1>16, Zenon DEF FailRun, Return
  <2>3. ASSUME options.delegated PROVE Owned'
    BY <1>2, <2>1, <2>3 DEF Owned
  <2> QED
    BY <2>2, <2>3, NotSilent, Zenon DEF OwnedEnd
<1>17. ASSUME NoticeWritten PROVE Speaks \/ KeepsResult \/ OwnedEnd
  <2>1. pc # "done" /\ turn' = turn /\ caller' = caller
    BY <1>17 DEF NoticeWritten, contexts
  <2>2. \/ result' = result
        \/ pc' = "done" /\ result' = [kind |-> ElapsedNotice, told |-> result.told]
        \/ \E kind \in {"notice", "unwritten"} : result' = [kind |-> kind, told |-> result.told]
    BY <1>17, Zenon DEF NoticeWritten, Return
  <2>3. ASSUME taskErr # NoError PROVE Owned'
    BY <1>2, <2>1, <2>3 DEF Owned, ContextOwned
  <2>4. taskErr = NoError => ElapsedNotice = "notice"
    BY DEF ElapsedNotice
  <2> QED
    BY <2>1, <2>2, <2>3, <2>4, NotSilent, Zenon DEF KeepsResult, OwnedEnd
<1>18. ASSUME Crash \/ NextTurn PROVE Speaks
  BY <1>18, NotSilent, Zenon DEF Crash, NextTurn, NothingYet
<1>19. ASSUME Rest \/ UNCHANGED vars PROVE SilenceInv'
  BY <1>19 DEF Rest, vars, contexts, budget, SilenceInv, Owned
<1> QED
  BY <1>1, <1>5, <1>6, <1>7, <1>8, <1>9, <1>10, <1>11, <1>12, <1>13, <1>14, <1>15, <1>16,
     <1>17, <1>18, <1>19 DEF Next, RunnerStep

-----------------------------------------------------------------------------
(* What a turn leaves in the store *)

Live    == {"running", "cancelled"} \cup Waiting
Limits  == {"max_iterations", "max_tool_calls", "max_elapsed"}
Working == {"again", "head", "count", "prepare", "deciding", "dispatch", "tool", "delegate",
            "reply", "gate", "rewrite", "terminal", "commit", "uncommitted", "keep",
            "stall pause", "stall block", "failing"}
Parked  == Waiting \cup {"cancelled"}

\* What was told of the run is what the store holds, or the run was parked or cancelled.
Told == result.told # status => status \in Parked

\* What the store may hold at each point of a turn.  A stop that yielded to the clock
\* may have blocked the run already; a failure never has.
Unstarted == pc = "launch" => status \in {"planned", "blocked", "interrupted"} \cup Parked
AtWork    == pc \in Working => status \in Live
Stopped   == pc \in {"stopping", "unfinished", "check"} =>
               /\ stop \in Limits \cup {"failed"}
               /\ status \in Live \/ (status = "blocked" /\ stop # "failed")
Noticed   == pc = "notice" =>
               \/ stop = "failed" /\ status \in Live
               \/ stop \in Limits /\ status \in {"blocked"} \cup Parked /\ Told
               \/ stop \in {"abandoned", "launch"} /\ status \in {"failed"} \cup Parked /\ Told
Rechecked == pc = "recheck" => status \in {"blocked"} \cup Parked /\ Told

\* A cancelled context goes back to the store or to the caller.
CancelOwned ==
  /\ taskErr = "canceled" => status = "cancelled" \/ caller = "canceled"
  /\ workErr = "canceled" => taskErr = "canceled"

StageInv ==
  /\ Unstarted /\ AtWork /\ Stopped /\ Noticed /\ Rechecked
  /\ RunIsClosed /\ ToldIsStored

\* A store that may not refuse at will refuses only what it may.
LEMMA LiveRefused ==
  ASSUME "store" \notin Faults, NEW to, Refused(to),
         \/ status \in Live
         \/ status \in {"planned", "interrupted", "blocked"} /\ to = "running"
         \/ status = "blocked" /\ to = "blocked"
  PROVE  /\ status' = status /\ status \in Parked
         /\ to = "running" => status = "cancelled"
BY DEF Refused, MustMove, MayMove, Live, Parked, Open, Waiting

\* What may follow a step, in the words of the invariant.
Works    == pc' \in Working /\ status' \in Live
Stopping == /\ pc' \in {"stopping", "unfinished", "check"} /\ stop' \in Limits \cup {"failed"}
            /\ status' \in Live \/ (status' = "blocked" /\ stop' # "failed")
Settles  == pc' = "recheck" /\ status' \in {"blocked"} \cup Parked /\ Told'
Ends     == /\ pc' = "done" /\ (result'.kind # "none" => Told')
            /\ status' \in {"planned", "running"} => caller' = "canceled" /\ ~options'.delegated
Commits  == pc' = "closing"

LEMMA StageShapes ==
  ASSUME Works \/ Stopping \/ Settles \/ Ends \/ Commits
  PROVE  StageInv'
BY DEF Works, Stopping, Settles, Ends, Commits, StageInv, Unstarted, AtWork, Stopped, Noticed,
   Rechecked, RunIsClosed, ToldIsStored, Told, Parked, Working

LEMMA CancelOwnedStep ==
  ASSUME TypeOK, CancelOwned, [Next]_vars
  PROVE  CancelOwned'
<1>1. ASSUME UNCHANGED <<caller, taskErr>>, workErr' = workErr \/ workErr' # "canceled"
      PROVE  CancelOwned'
  BY <1>1, CancelledStays DEF CancelOwned
<1>2. ASSUME UNCHANGED contexts PROVE CancelOwned'
  BY <1>1, <1>2 DEF contexts
<1>3. ASSUME NEW e, NewWorkContext(e) PROVE CancelOwned'
  BY <1>1, <1>3 DEF NewWorkContext, NoError
<1>4. ASSUME NextIteration \/ PrepareStep \/ AnswerTimedOut PROVE CancelOwned'
  BY <1>2, <1>3, <1>4, Zenon DEF NextIteration, PrepareStep, AnswerTimedOut, contexts
<1>5. ASSUME WorkEnds \/ CallerEnds \/ TaskCancelArrives \/ NextTurn PROVE CancelOwned'
  BY <1>5, CancelledStays DEF WorkEnds, CallerEnds, TaskCancelArrives, NextTurn, CancelOwned, NoError
<1>6. ASSUME \/ Launch \/ CheckHead \/ CountIteration \/ Answer \/ UnreadableAnswer
             \/ AnswerCancelled \/ ModelFails \/ Dispatch \/ FailExplained \/ RejectToolCall
             \/ CallTool \/ ToolReturns \/ DelegateReturns \/ ReplyReturns \/ GateAnswers
             \/ DeliveryParks \/ ReplyRewritten \/ Commit \/ LookIfCancelled \/ KeepUncommittedReply
             \/ TerminalAnswers
      PROVE  UNCHANGED contexts
  BY <1>6 DEF Launch, CheckHead, CountIteration, Answer, UnreadableAnswer,
     AnswerCancelled, ModelFails, Dispatch, FailExplained, RejectToolCall, CallTool,
     ToolReturns, DelegateReturns, ReplyReturns, GateAnswers, DeliveryParks,
     ReplyRewritten, Commit, LookIfCancelled, KeepUncommittedReply, TerminalAnswers
<1>7. ASSUME \/ StallPauses \/ StallBlocks \/ AskIfDone \/ CheckAnswers
             \/ CompletionReplyWritten \/ BlockAtLimit \/ FailUnlessElapsed \/ FailRun
             \/ NoticeWritten \/ YieldToElapsed \/ Tick \/ HostCancels \/ ToolParks \/ Crash
             \/ Rest \/ UNCHANGED vars
      PROVE  UNCHANGED contexts
  BY <1>7 DEF StallPauses, StallBlocks, AskIfDone, CheckAnswers,
     CompletionReplyWritten, BlockAtLimit, FailUnlessElapsed, FailRun, NoticeWritten,
     YieldToElapsed, Tick, HostCancels, ToolParks, Crash, Rest, vars
<1> QED
  BY <1>2, <1>4, <1>5, <1>6, <1>7 DEF Next, RunnerStep

\* Within a turn the run is delegated or not, once and for all.
LEMMA DelegatedStays ==
  ASSUME TypeOK, BudgetInv, [Next]_vars, turn' = turn
  PROVE  options'.delegated = options.delegated
BY BudgetStep DEF BudgetPreserved, Grows

\* A run at work is abandoned to its cancellation, to its caller, or to a failure.
LEMMA AbandonEnds ==
  ASSUME NEW cause, Abandon(cause), status \in Live, status' = status,
         cause = "canceled" => status = "cancelled" \/ caller' = "canceled",
         options'.delegated = options.delegated
  PROVE  Works \/ Ends
<1>1. CASE status \in Finished
  BY <1>1 DEF Abandon, Return, Ends, Told, Finished, Live, Waiting
<1>2. CASE status \notin Finished /\ cause = "canceled" /\ ~options.delegated
  <2>1. result' = [kind |-> "silent", told |-> status] /\ pc' = "done"
    BY <1>2 DEF Abandon, Return
  <2>2. caller' = "canceled"
    BY <1>2 DEF Finished
  <2> QED
    BY <1>2, <2>1, <2>2 DEF Ends, Told
<1>3. CASE status \notin Finished /\ (cause # "canceled" \/ options.delegated)
  BY <1>3 DEF Abandon, StopFor, Works, Working
<1> QED
  BY <1>1, <1>2, <1>3

\* Going on from one point to another, or to a limit when the time is up.
LEMMA UnlessElapsedStage ==
  ASSUME NEW p, UnlessElapsed(p), status' = status, result' = result
  PROVE  \/ pc' = p
         \/ pc' = "stopping" /\ stop' = "max_elapsed"
BY DEF UnlessElapsed, Goto, StopFor

LEMMA WorkStage ==
  ASSUME "store" \notin Faults, StageInv, CancelOwned, TypeOK, BudgetInv, [Next]_vars,
         \/ Launch \/ NextIteration \/ CheckHead \/ CountIteration \/ PrepareStep
         \/ Answer \/ UnreadableAnswer \/ AnswerCancelled \/ AnswerTimedOut \/ ModelFails
  PROVE  Works \/ Stopping \/ Ends
<1>0. turn' = turn
  BY DEF Launch, NextIteration, CheckHead, CountIteration, PrepareStep, Answer, UnreadableAnswer,
         AnswerCancelled, AnswerTimedOut, ModelFails
<1>1. options'.delegated = options.delegated
  BY <1>0, DelegatedStays
<1>2. pc \in Working => status \in Live
  BY DEF StageInv, AtWork
<1>. USE DEF Working
<1>3. CASE Launch
  <2>1. status \in Live \cup {"planned", "interrupted", "blocked"} /\ pc = "launch"
    BY <1>3 DEF StageInv, Unstarted, Launch, Live, Parked
  <2>2. CASE status' = "running" /\ pc' \in {"head", "failing"}
    BY <2>2 DEF Works, Live
  <2>3. CASE Refused("running") /\ pc' = "failing"
    BY <2>1, <2>3, LiveRefused DEF Works, Live
  <2> QED
    BY <1>3, <2>2, <2>3 DEF Launch, Moves, Goto, StopFor
<1>4. CASE NextIteration \/ Answer \/ UnreadableAnswer \/ ModelFails \/ CountIteration
  <2>1. pc \in Working /\ status' = status
    BY <1>4 DEF NextIteration, Answer, UnreadableAnswer, ModelFails, CountIteration
  <2>2. pc' \in Working \/ (pc' = "stopping" /\ stop' \in Limits \cup {"failed"})
    BY <1>4 DEF NextIteration, Answer, UnreadableAnswer, ModelFails, CountIteration, Goto, StopFor, Limits
  <2> QED
    BY <1>2, <2>1, <2>2 DEF Works, Stopping
<1>5. CASE CheckHead
  <2>1. pc \in Working /\ status' = status /\ status \in Live /\ caller' = caller
    BY <1>2, <1>5 DEF CheckHead, contexts
  <2>2. CASE ReturnCancelled
    BY <2>1, <2>2 DEF ReturnCancelled, Return, Ends, Told
  <2>3. CASE Abandon(caller)
    BY <1>1, <2>1, <2>3, AbandonEnds
  <2>4. CASE UnlessElapsed("count") /\ result' = result
    BY <2>1, <2>4, UnlessElapsedStage DEF Works, Stopping, Limits
  <2> QED
    BY <1>5, <2>2, <2>3, <2>4 DEF CheckHead
<1>6. CASE PrepareStep
  <2>1. pc \in Working /\ status' = status /\ status \in Live /\ caller' = caller
    BY <1>2, <1>6, Zenon DEF PrepareStep, contexts, NewWorkContext
  <2>2. workErr' = "canceled" => workErr = "canceled"
    <3>1. \/ workErr' = IF active >= Work(options.elapsed) THEN "deadline" ELSE NoError
          \/ workErr' = workErr
      BY <1>6, Zenon DEF PrepareStep, contexts, NewWorkContext
    <3> QED
      BY <3>1 DEF NoError
  <2>3. CASE Abandon(workErr')
    BY <1>1, <2>1, <2>2, <2>3, AbandonEnds DEF CancelOwned
  <2>4. CASE Goto("dispatch") \/ Goto("deciding")
    BY <2>1, <2>4 DEF Works, Goto
  <2> QED
    BY <1>6, <2>3, <2>4, Zenon DEF PrepareStep
<1>7. CASE AnswerCancelled
  <2>1. pc \in Working /\ status' = status /\ status \in Live /\ caller' = caller
        /\ Abandon("canceled") /\ workErr = "canceled"
    BY <1>2, <1>7 DEF AnswerCancelled, contexts
  <2> QED
    BY <1>1, <2>1, AbandonEnds DEF CancelOwned
<1>8. CASE AnswerTimedOut
  <2>1. pc \in Working /\ status' = status /\ status \in Live /\ caller' = caller
    BY <1>2, <1>8, Zenon DEF AnswerTimedOut, contexts, NewWorkContext
  <2>2. CASE Abandon(caller)
    BY <1>1, <2>1, <2>2, AbandonEnds
  <2>3. CASE Goto("again") \/ StopFor("max_elapsed", "stopping")
    BY <2>1, <2>3 DEF Works, Stopping, Goto, StopFor, Limits
  <2> QED
    BY <1>8, <2>2, <2>3, Zenon DEF AnswerTimedOut
<1> QED
  BY <1>3, <1>4, <1>5, <1>6, <1>7, <1>8

LEMMA ActionStage ==
  ASSUME "store" \notin Faults, StageInv, TypeOK, [Next]_vars,
         \/ Dispatch \/ FailExplained \/ RejectToolCall \/ CallTool \/ ToolReturns
         \/ DelegateReturns \/ ReplyReturns \/ GateAnswers \/ DeliveryParks
         \/ ReplyRewritten \/ Commit \/ LookIfCancelled \/ KeepUncommittedReply \/ TerminalAnswers
  PROVE  Works \/ Stopping \/ Ends
<1>. USE DEF Working
<1>1. pc \in Working /\ status \in Live
  BY DEF StageInv, AtWork, Dispatch, FailExplained, RejectToolCall, CallTool, ToolReturns,
     DelegateReturns, ReplyReturns, GateAnswers, DeliveryParks,
     ReplyRewritten, Commit, LookIfCancelled, KeepUncommittedReply, TerminalAnswers
<1>2. ASSUME status' = status, ReturnCancelled PROVE Ends
  BY <1>2 DEF ReturnCancelled, Return, Ends, Told
<1>3. ASSUME status' = status, UnlessStalled PROVE Works
  BY <1>1, <1>3 DEF UnlessStalled, Goto, StopFor, Works
<1>4. ASSUME status' = status, status \in Waiting, Return("notice", status) PROVE Ends
  BY <1>4 DEF Return, Ends, Told, Waiting
<1>5. CASE Dispatch \/ RejectToolCall \/ CallTool \/ DelegateReturns
  <2>1. /\ status' = status
        /\ \/ ReturnCancelled
           \/ pc' \in Working
           \/ pc' = "stopping" /\ stop' \in Limits \cup {"failed"}
    BY <1>5 DEF Dispatch, RejectToolCall, CallTool, DelegateReturns, UnlessStalled, Goto, StopFor, Limits
  <2> QED
    BY <1>1, <1>2, <2>1 DEF Works, Stopping
<1>6. CASE ToolReturns \/ ReplyReturns
  BY <1>2, <1>3, <1>4, <1>6, Zenon DEF ToolReturns, ReplyReturns
<1>7. CASE GateAnswers \/ DeliveryParks \/ TerminalAnswers
  <2>1. /\ status' = status \/ status' = "waiting_approval"
        /\ pc' \in Working \/ (pc' = "stopping" /\ stop' = "failed")
    BY <1>7 DEF GateAnswers, DeliveryParks, TerminalAnswers, UnlessStalled, Goto, StopFor
  <2> QED
    BY <1>1, <2>1 DEF Works, Stopping, Live, Waiting
<1>8. CASE ReplyRewritten
  <2>1. CASE ReturnCancelled
    BY <1>2, <1>8, <2>1 DEF ReplyRewritten
  <2>2. CASE UnlessElapsed("commit") /\ result' = result
    BY <1>1, <1>8, <2>2, UnlessElapsedStage DEF ReplyRewritten, Works, Stopping, Limits
  <2> QED
    BY <1>8, <2>1, <2>2 DEF ReplyRewritten
<1>9. CASE FailExplained
  <2>1. CASE Moves("failed") /\ Return("notice", "failed")
    BY <2>1 DEF Moves, Return, Ends, Told
  <2>2. CASE Refused("failed") /\ Return("notice", "zero")
    BY <1>1, <2>2, LiveRefused DEF Return, Ends, Told, Parked, Waiting
  <2> QED
    BY <1>9, <2>1, <2>2 DEF FailExplained
<1>10. CASE Commit
  <2>1. CASE Moves("completed") /\ Return("final", "completed")
    BY <2>1 DEF Moves, Return, Ends, Told
  <2>2. CASE Refused("completed") /\ Goto("uncommitted")
    BY <1>1, <2>2, LiveRefused DEF Goto, Works
  <2> QED
    BY <1>10, <2>1, <2>2 DEF Commit
<1>11. CASE LookIfCancelled \/ KeepUncommittedReply
  <2>1. CASE LookIfCancelled
    BY <1>1, <1>2, <2>1 DEF LookIfCancelled, Goto, Works
  <2>2. CASE Moves("blocked") /\ Return("notice", "blocked")
    BY <2>2 DEF Moves, Return, Ends, Told
  <2>3. CASE Refused("blocked") /\ Return("notice", "blocked")
    BY <1>1, <2>3, LiveRefused DEF Return, Ends, Told, Parked, Waiting
  <2> QED
    BY <1>11, <2>1, <2>2, <2>3 DEF KeepUncommittedReply
<1> QED
  BY <1>5, <1>6, <1>7, <1>8, <1>9, <1>10, <1>11

\* A notice is written of a run that is blocked, failed, parked or cancelled.
Notices == /\ pc' = "notice" /\ Noticed'

LEMMA StopStage ==
  ASSUME "store" \notin Faults, StageInv, CancelOwned, TypeOK, BudgetInv, CompletionInv, [Next]_vars,
         \/ StallPauses \/ StallBlocks \/ AskIfDone \/ CheckAnswers
         \/ CompletionReplyWritten \/ BlockAtLimit \/ FailUnlessElapsed \/ FailRun
         \/ NoticeWritten \/ YieldToElapsed
  PROVE  Works \/ Stopping \/ Settles \/ Ends \/ Commits \/ Notices
<1>. USE DEF Working
<1>1. CASE StallPauses
  <2>1. status \in Live
    BY <1>1 DEF StageInv, AtWork, StallPauses
  <2>2. CASE status' = "waiting_user_input" /\ pc' = "recheck"
             /\ result' = [kind |-> "notice", told |-> "waiting_user_input"]
    BY <2>2 DEF Settles, Told, Parked, Waiting
  <2>3. CASE status' = status /\ pc' = "stall block"
    BY <2>1, <2>3 DEF Works
  <2> QED
    BY <1>1, <2>2, <2>3 DEF StallPauses, Moves, Refused, Goto
<1>2. CASE StallBlocks
  <2>1. status \in Live
    BY <1>2 DEF StageInv, AtWork, StallBlocks
  <2>2. CASE status' = "blocked" /\ result' = [kind |-> "notice", told |-> "blocked"]
             /\ pc' \in {"done", "recheck"}
    BY <2>2 DEF Settles, Ends, Told, Parked
  <2>3. CASE Refused("blocked") /\ Return("unwritten", "zero")
    BY <2>1, <2>3, LiveRefused DEF Return, Ends, Told, Parked, Waiting
  <2>4. CASE Refused("blocked") /\ pc' = "again"
    BY <2>1, <2>4, LiveRefused DEF Works
  <2> QED
    BY <1>2, <2>2, <2>3, <2>4 DEF StallBlocks, Moves, Goto, StopFor
<1>3. CASE AskIfDone \/ CheckAnswers
  <2>1. /\ stop \in Limits \cup {"failed"}
        /\ status \in Live \/ (status = "blocked" /\ stop # "failed")
    BY <1>3 DEF StageInv, Stopped, AskIfDone, CheckAnswers
  <2>2. \/ pc' \in {"unfinished", "check"} /\ stop' = stop /\ status' = status
        \/ pc' = "closing"
    BY <1>3 DEF AskIfDone, CheckAnswers, Moves, Refused, Goto
  <2> QED
    BY <2>1, <2>2 DEF Stopping, Commits
<1>4. CASE CompletionReplyWritten
  <2>1. status' = "completed" /\ pc' = "done" /\ result' = [kind |-> "final", told |-> "completed"]
    BY <1>4 DEF CompletionReplyWritten, Return, CompletionInv
  <2> QED
    BY <2>1 DEF Ends, Told
<1>5. CASE BlockAtLimit
  <2>1. /\ stop \in Limits /\ stop' = stop /\ pc' = "notice"
        /\ status \in Live \/ status = "blocked"
    BY <1>5 DEF StageInv, Stopped, BlockAtLimit, Goto, Limits
  <2>2. CASE status' = "blocked" /\ result' = [kind |-> "notice", told |-> "blocked"]
    BY <2>1, <2>2 DEF Notices, Noticed, Told
  <2>3. CASE Refused("blocked")
    BY <2>1, <2>3, LiveRefused DEF Notices, Noticed, Told, Parked
  <2> QED
    BY <1>5, <2>2, <2>3 DEF BlockAtLimit, Moves
<1>6. CASE FailUnlessElapsed
  <2>1. status \in Live /\ status' = status /\ stop = "failed" /\ caller' = caller /\ turn' = turn
    BY <1>6 DEF StageInv, Stopped, FailUnlessElapsed, contexts
  <2>2. CASE Abandon(taskErr)
    BY <2>1, <2>2, AbandonEnds, DelegatedStays DEF CancelOwned
  <2>3. CASE Goto("notice") \/ StopFor("max_elapsed", "stopping")
    BY <2>1, <2>3 DEF Goto, StopFor, Stopping, Notices, Noticed, Limits
  <2> QED
    BY <1>6, <2>2, <2>3, Zenon DEF FailUnlessElapsed
<1>7. CASE FailRun
  <2>1. status \in Live
    BY <1>7 DEF StageInv, AtWork, FailRun
  <2>2. status' \in {"failed"} \cup Parked
    BY <1>7, <2>1, LiveRefused DEF FailRun, Moves
  <2>3. CASE Return("notice", IF status' = "failed" THEN "failed" ELSE "zero")
    BY <2>2, <2>3 DEF Return, Ends, Told, Parked, Waiting
  <2>4. CASE Return("silent", "failed")
    BY <2>2, <2>4 DEF Return, Ends, Told, Parked, Waiting
  <2>5. CASE /\ stop \in {"abandoned", "launch"} /\ Goto("notice")
             /\ result' = [kind |-> "notice", told |-> "failed"]
    BY <2>2, <2>5 DEF Goto, Notices, Noticed, Told, Parked
  <2> QED
    BY <1>7, <2>3, <2>4, <2>5, Zenon DEF FailRun
<1>8. CASE NoticeWritten
  <2>1. pc = "notice" /\ status' = status /\ Noticed
    BY <1>8 DEF NoticeWritten, StageInv
  <2>2. CASE stop \in {"max_iterations", "max_tool_calls"} /\ Goto("recheck") /\ result' = result
    BY <2>1, <2>2 DEF Noticed, Goto, Settles, Told
  <2>3. CASE stop = "failed" /\ Goto("failing")
    BY <2>1, <2>3 DEF Noticed, Limits, Goto, Works
  <2>4. CASE /\ stop \in {"max_elapsed", "abandoned", "launch"}
             /\ \E kind : Return(kind, result.told)
    <3>1. PICK kind : result' = [kind |-> kind, told |-> result.told] /\ pc' = "done"
      BY <2>4 DEF Return
    <3>2. Told /\ status \notin {"planned", "running"}
      BY <2>1, <2>4 DEF Noticed, Limits, Parked, Waiting
    <3> QED
      BY <2>1, <3>1, <3>2 DEF Ends, Told
  <2> QED
    BY <1>8, <2>2, <2>3, <2>4, Zenon DEF NoticeWritten
<1>9. CASE YieldToElapsed
  <2>1. /\ status' = status /\ result' = result /\ status \in {"blocked"} \cup Parked /\ Told
        /\ UnlessElapsed("done")
    BY <1>9 DEF YieldToElapsed, StageInv, Rechecked
  <2> QED
    BY <2>1, UnlessElapsedStage DEF Ends, Stopping, Told, Limits, Live, Parked, Waiting
<1> QED
  BY <1>1, <1>2, <1>3, <1>4, <1>5, <1>6, <1>7, <1>8, <1>9

LEMMA AroundStage ==
  ASSUME StageInv, CompletionInv, TypeOK,
         \/ Tick \/ WorkEnds \/ CallerEnds \/ HostCancels \/ TaskCancelArrives
         \/ ToolParks \/ Crash \/ NextTurn \/ Rest \/ UNCHANGED vars
  PROVE  StageInv'
<1>1. CASE Tick \/ WorkEnds \/ CallerEnds \/ TaskCancelArrives
  <2>1. UNCHANGED <<pc, stop, status, result>> /\ pc # "done"
    BY <1>1 DEF Tick, WorkEnds, CallerEnds, TaskCancelArrives
  <2> QED
    BY <2>1 DEF StageInv, Unstarted, AtWork, Stopped, Noticed, Rechecked, RunIsClosed,
       ToldIsStored, Told
<1>2. CASE HostCancels
  <2>1. /\ UNCHANGED <<pc, stop, result>> /\ pc # "done"
        /\ status \in {"planned", "running", "blocked"} /\ status' = "cancelled"
    BY <1>2 DEF HostCancels
  <2> QED
    BY <2>1 DEF StageInv, Unstarted, AtWork, Stopped, Noticed, Rechecked, RunIsClosed,
       ToldIsStored, Told, Parked, Live
<1>3. CASE ToolParks
  <2>1. UNCHANGED <<pc, stop, result>> /\ pc \in {"tool", "reply"} /\ status' \in Waiting
    BY <1>3 DEF ToolParks
  <2> QED
    BY <2>1 DEF StageInv, Unstarted, AtWork, Stopped, Noticed, Rechecked, RunIsClosed,
       ToldIsStored, Told, Parked, Live
<1>4. CASE Crash
  <2>1. /\ pc' = "done" /\ result' = NothingYet /\ status' \notin {"planned", "running"}
    BY <1>4 DEF Crash
  <2> QED
    BY <2>1 DEF StageInv, Unstarted, AtWork, Stopped, Noticed, Rechecked, RunIsClosed,
       ToldIsStored, Told, Working, NothingYet
<1>5. CASE NextTurn
  <2>1. /\ pc' = "launch" /\ status' = status /\ status \in Waiting \cup {"blocked", "interrupted"}
    BY <1>5 DEF NextTurn
  <2> QED
    BY <2>1 DEF StageInv, Unstarted, AtWork, Stopped, Noticed, Rechecked, RunIsClosed,
       ToldIsStored, Told, Working, Parked
<1>6. CASE Rest \/ UNCHANGED vars
  <2>1. UNCHANGED <<pc, stop, status, result, caller, options>>
    BY <1>6 DEF Rest, vars, contexts, budget
  <2> QED
    BY <2>1 DEF StageInv, Unstarted, AtWork, Stopped, Noticed, Rechecked, RunIsClosed,
       ToldIsStored, Told
<1> QED
  BY <1>1, <1>2, <1>3, <1>4, <1>5, <1>6

LEMMA StageStep ==
  ASSUME "store" \notin Faults, IInv, StageInv, CancelOwned, [Next]_vars
  PROVE  StageInv'
<1>1. TypeOK /\ BudgetInv /\ CompletionInv
  BY DEF IInv
<1>2. ASSUME Notices PROVE StageInv'
  BY <1>2 DEF Notices, StageInv, Unstarted, AtWork, Stopped, Rechecked, RunIsClosed,
     ToldIsStored, Working
<1> QED
  BY <1>1, <1>2, StageShapes, WorkStage, ActionStage, StopStage, AroundStage
     DEF Next, RunnerStep

-----------------------------------------------------------------------------
(* Notices that could not be written *)

Staged == "store" \notin Faults => StageInv /\ CancelOwned

\* Why a turn has nothing to show.
Unsaid ==
  \/ stop \in {"abandoned", "launch"} /\ result.told = "failed"
  \/ stop = "no_tools" /\ (status \in Parked \/ "store" \in Faults)

UnsaidInv ==
  /\ pc = "notice" /\ stop \in {"abandoned", "launch"} => result.told = "failed"
  /\ result.kind = "unwritten" => pc = "done" /\ Unsaid

LEMMA NotUnwritten ==
  ASSUME NEW t
  PROVE  /\ result' = [kind |-> "notice", told |-> t] => result'.kind # "unwritten"
         /\ result' = [kind |-> "silent", told |-> t] => result'.kind # "unwritten"
         /\ result' = [kind |-> "final", told |-> t] => result'.kind # "unwritten"
OBVIOUS

\* A step towards anything but a notice that leaves the result or says something.
Elsewhere == /\ pc # "done" /\ pc' # "notice"
             /\ \/ result' = result
                \/ \E k \in {"notice", "silent", "final"}, t \in Tellable :
                     result' = [kind |-> k, told |-> t]

LEMMA UnsaidStep ==
  ASSUME TypeOK, UnsaidInv, Staged, [Next]_vars
  PROVE  UnsaidInv'
<1>1. ASSUME Elsewhere PROVE UnsaidInv'
  BY <1>1 DEF Elsewhere, UnsaidInv
<1>2. /\ status \in Tellable /\ result.told \in Tellable
      /\ {"planned", "blocked", "completed", "failed", "cancelled", "waiting_user_input",
          "zero"} \subseteq Tellable
  BY DEF TypeOK, Tellable, Statuses, Waiting
<1>. USE DEF Goto, StopFor, Return
<1>3. ASSUME \/ Launch \/ NextIteration \/ CheckHead \/ CountIteration \/ PrepareStep
             \/ Answer \/ UnreadableAnswer \/ AnswerCancelled \/ AnswerTimedOut \/ ModelFails
      PROVE  Elsewhere
  BY <1>2, <1>3 DEF Elsewhere, Launch, NextIteration, CheckHead, CountIteration, PrepareStep,
     Answer, UnreadableAnswer, AnswerCancelled, AnswerTimedOut, ModelFails, Abandon,
     UnlessElapsed, ReturnCancelled
<1>4. ASSUME \/ Dispatch \/ FailExplained \/ RejectToolCall \/ CallTool \/ ToolReturns
             \/ DelegateReturns \/ ReplyReturns \/ GateAnswers \/ DeliveryParks
      PROVE  Elsewhere
  BY <1>2, <1>4 DEF Elsewhere, Dispatch, FailExplained, RejectToolCall, CallTool, ToolReturns,
     DelegateReturns, ReplyReturns, GateAnswers, DeliveryParks, UnlessStalled, ReturnCancelled
<1>5. ASSUME \/ ReplyRewritten \/ Commit \/ LookIfCancelled \/ KeepUncommittedReply
             \/ TerminalAnswers \/ StallPauses
      PROVE  Elsewhere
  BY <1>2, <1>5 DEF Elsewhere, ReplyRewritten, Commit, LookIfCancelled, KeepUncommittedReply,
     TerminalAnswers, StallPauses, UnlessElapsed, ReturnCancelled
<1>6. ASSUME AskIfDone \/ CheckAnswers \/ CompletionReplyWritten \/ YieldToElapsed
      PROVE  Elsewhere
  BY <1>2, <1>6 DEF Elsewhere, AskIfDone, CheckAnswers, CompletionReplyWritten,
     YieldToElapsed, UnlessElapsed
<1>7. CASE StallBlocks
  <2>1. CASE pc' # "done" \/ result' = [kind |-> "notice", told |-> "blocked"]
    BY <1>1, <1>2, <1>7, <2>1 DEF Elsewhere, StallBlocks
  <2>2. CASE Refused("blocked") /\ stop = "no_tools" /\ Return("unwritten", "zero")
    <3>1. "store" \notin Faults => status' \in Parked
      BY <1>7, <2>2, LiveRefused DEF Staged, StageInv, AtWork, Working, StallBlocks
    <3> QED
      BY <2>2, <3>1 DEF UnsaidInv, Unsaid
  <2> QED
    BY <1>7, <2>1, <2>2 DEF StallBlocks
<1>8. CASE BlockAtLimit
  BY <1>8 DEF BlockAtLimit, UnsaidInv
<1>9. CASE FailUnlessElapsed
  <2>1. pc # "done" /\ stop = "failed"
        /\ \/ result' = result
           \/ \E k \in {"notice", "silent"} : result' = [kind |-> k, told |-> status]
    BY <1>9 DEF FailUnlessElapsed, Abandon
  <2>2. pc' = "notice" => stop' = "failed"
    BY <1>9, <2>1 DEF FailUnlessElapsed, Abandon
  <2> QED
    BY <2>1, <2>2 DEF UnsaidInv
<1>10. CASE FailRun
  <2>1. \/ \E k \in {"notice", "silent"} : \E t : result' = [kind |-> k, told |-> t] /\ pc' = "done"
        \/ result' = [kind |-> "notice", told |-> "failed"]
    BY <1>10 DEF FailRun
  <2> QED
    BY <2>1 DEF UnsaidInv
<1>11. CASE NoticeWritten
  <2>1. CASE stop \in {"abandoned", "launch"}
    <3>1. /\ stop' = stop /\ pc' = "done"
          /\ \E kind \in {"notice", "unwritten"} : result' = [kind |-> kind, told |-> "failed"]
      BY <1>11, <2>1 DEF NoticeWritten, UnsaidInv
    <3> QED
      BY <2>1, <3>1 DEF UnsaidInv, Unsaid
  <2>2. CASE stop \notin {"abandoned", "launch"}
    BY <1>1, <1>2, <1>11, <2>2 DEF Elsewhere, NoticeWritten, ElapsedNotice
  <2> QED
    BY <2>1, <2>2
<1>12. ASSUME Tick \/ WorkEnds \/ CallerEnds \/ HostCancels \/ TaskCancelArrives \/ ToolParks
       PROVE  UnsaidInv'
  <2>1. pc # "done" /\ UNCHANGED <<pc, stop, result>>
    BY <1>12 DEF Tick, WorkEnds, CallerEnds, HostCancels, TaskCancelArrives, ToolParks
  <2> QED
    BY <2>1 DEF UnsaidInv
<1>13. CASE Crash \/ NextTurn
  BY <1>13 DEF Crash, NextTurn, NothingYet, UnsaidInv
<1>14. CASE Rest \/ UNCHANGED vars
  <2>1. UNCHANGED <<pc, stop, status, result>>
    BY <1>14 DEF Rest, vars
  <2> QED
    BY <2>1 DEF UnsaidInv, Unsaid
<1> QED
  BY <1>1, <1>3, <1>4, <1>5, <1>6, <1>7, <1>8, <1>9, <1>10, <1>11, <1>12, <1>13, <1>14
     DEF Next, RunnerStep

-----------------------------------------------------------------------------
(* The theorems *)

LEMMA InitInvariant == Init => IInv
<1>. SUFFICES ASSUME Init PROVE IInv
  OBVIOUS
<1>1. /\ options \in Options
      /\ \A l \in Levels : l > options.level => options.steps <= Steps[l] /\ options.calls <= Calls[l]
      /\ options.deadline > 0 => options.elapsed <= options.deadline
  BY RunnerAssumption DEF Init
<1>2. armed \in Nat
  BY <1>1, WorkIsNat DEF Init, Options
<1>3. pc = "launch" /\ stop = "none" /\ status = "planned"
      /\ result = [kind |-> "none", told |-> "planned"]
  BY DEF Init, NothingYet
<1>4. BudgetType
  BY <1>1 DEF Init, BudgetType
<1>5. WhereType
  <2>1. pc \in Inside /\ status \in Statuses /\ "planned" \in Statuses
    BY <1>3 DEF Inside, Statuses
  <2>2. result \in [kind : {"none", "final", "notice", "silent", "unwritten"},
                    told : Statuses \cup {"zero"}]
    BY <1>3, <2>1
  <2>3. asked \in BOOLEAN
    BY Zenon DEF Init
  <2> QED
    BY <1>3, <2>1, <2>2, <2>3 DEF WhereType
<1>6. ContextType
  BY <1>2 DEF Init, ContextType
<1>7. CountType
  <2>1. retired \in BOOLEAN /\ spent \in BOOLEAN /\ cost \in Costs \cup {Unmeasured}
    BY Zenon DEF Init
  <2>2. iteration \in Nat \ {0} /\ toolCalls \in Nat /\ pending \in Nat /\ unreadable \in 0..2
    BY DEF Init
  <2> QED
    BY <2>1, <2>2 DEF CountType
<1>8. BudgetInv
  BY <1>1 DEF Init, BudgetInv
<1>9. CountInv
  BY <1>1, <1>3 DEF Init, CountInv, StepsAreBounded, Counted, Options
<1>10. CompletionInv
  BY <1>3 DEF CompletionInv, ReplyMatchesRun
<1>11. OwnerInv
  BY <1>3 DEF Init, OwnerInv, ContextOwned, NoError
<1> QED
  BY <1>4, <1>5, <1>6, <1>7, <1>8, <1>9, <1>10, <1>11, TypeParts DEF IInv

LEMMA StepInvariant == IInv /\ [Next]_vars => IInv'
<1>. SUFFICES ASSUME IInv, [Next]_vars PROVE IInv'
  OBVIOUS
<1>1. TypeOK /\ BudgetInv /\ CountInv /\ CompletionInv /\ ContextOwned /\ SilenceInv
  BY DEF IInv, OwnerInv, SilenceInv
<1>2. TypeOK' /\ BudgetInv'
  BY <1>1, TypeStep, BudgetStep DEF BudgetPreserved
<1>3. CountInv' /\ CompletionInv'
  BY <1>1, CountStep, CompletionStep
<1>4. ContextOwned' /\ SilenceInv'
  BY <1>1, ContextOwnedStep, SilenceStep
<1> QED
  BY <1>2, <1>3, <1>4 DEF IInv, OwnerInv, SilenceInv

\* The inductive invariant holds in every reachable state: budgets fit the larger
\* levels, counted iterations fit the budget, completion goes with the final answer,
\* and every ended context and every silence has an owner.
THEOREM RunnerInvariant == Spec => []IInv
<1> QED
  BY InitInvariant, StepInvariant, PTL DEF Spec

\* Every variable of the turn keeps its type (agentTurnRunner and agentTaskState).
THEOREM TypeCorrect == Spec => []TypeOK
<1>1. IInv => TypeOK
  BY DEF IInv
<1> QED
  BY <1>1, RunnerInvariant, PTL

\* However often the budget is granted, refreshed and widened, a turn never starts more
\* iterations than the step budget it holds (RunTurn's count against MaxIterationCount).
THEOREM IterationsAreBounded == Spec => []StepsAreBounded
<1>1. IInv => StepsAreBounded
  BY DEF IInv, CountInv
<1> QED
  BY <1>1, RunnerInvariant, PTL

\* The host gets a final answer exactly when the store holds the run as completed
\* (finishedTurnResult, completeAtStop, abandonedTurnResult).
THEOREM FinalMeansCompleted == Spec => []ReplyMatchesRun
<1>1. IInv => ReplyMatchesRun
  BY DEF IInv, CompletionInv
<1> QED
  BY <1>1, RunnerInvariant, PTL

\* Within a turn no grant, measurement, plan or deadline takes steps, calls or time away,
\* except that a plan which names a larger level sets the wall to the price of that level
\* (extendBudgetOneLevelOnce, refreshElapsedBudget, widenPaceForPlannedLevel).
THEOREM BudgetsOnlyGrow == Spec => NoBudgetIsLost
<1> DEFINE A == turn' = turn =>
                  /\ options'.steps >= options.steps /\ options'.calls >= options.calls
                  /\ options'.elapsed < options.elapsed =>
                       /\ options'.level > options.level
                       /\ options'.elapsed = ElapsedForProfile(options'.level, cost)
<1>1. IInv /\ [Next]_vars => [A]_vars
  BY BudgetStep DEF IInv, BudgetPreserved, Grows
<1> QED
  BY <1>1, RunnerInvariant, PTL DEF Spec, NoBudgetIsLost

\* Unless the store refuses writes it should take, the store holds at every point of a
\* turn what that point allows, and no cancelled context is without a hand behind it.
THEOREM StagesAreStored ==
  ASSUME "store" \notin Faults
  PROVE  Spec => [](StageInv /\ CancelOwned)
<1>1. Init => StageInv /\ CancelOwned
  BY DEF Init, NothingYet, NoError, StageInv, CancelOwned, Unstarted, AtWork, Stopped, Noticed,
     Rechecked, RunIsClosed, ToldIsStored, Working
<1>2. IInv /\ (StageInv /\ CancelOwned) /\ [Next]_vars => (StageInv /\ CancelOwned)'
  BY StageStep, CancelOwnedStep DEF IInv
<1> QED
  BY <1>1, <1>2, RunnerInvariant, PTL DEF Spec

\* A turn that is over leaves its run closed, parked on a person, or to the caller that
\* cancelled it (abandonedTurnResult), as long as the store takes what is written.
THEOREM TurnsLeaveRunsClosed ==
  ASSUME "store" \notin Faults
  PROVE  Spec => []RunIsClosed
<1>1. StageInv /\ CancelOwned => RunIsClosed
  BY DEF StageInv
<1> QED
  BY <1>1, StagesAreStored, PTL

\* The status the host is told is the stored one, unless the run was parked on a person
\* or cancelled meanwhile, as long as the store takes what is written.
THEOREM ToldStatusIsStored ==
  ASSUME "store" \notin Faults
  PROVE  Spec => []ToldIsStored
<1>1. StageInv /\ CancelOwned => ToldIsStored
  BY DEF StageInv
<1> QED
  BY <1>1, StagesAreStored, PTL
\* A turn that ends without a word was cancelled, lost its caller or was delegated; or it
\* never got to speak of a limit: it was told as failed with a notice that could not be
\* written, or the block of its step without tools was refused of a parked run
\* (abandonedTurnResult, failTurnWithGeneratedNotice, blockAtElapsedLimit,
\* blockTurnForStall).
THEOREM SilenceHasAnOwner == Spec => []SilenceIsOwned
<1>1. Init => Staged /\ UnsaidInv
  BY DEF Init, NothingYet, NoError, Staged, StageInv, CancelOwned, Unstarted, AtWork, Stopped,
     Noticed, Rechecked, RunIsClosed, ToldIsStored, Working, UnsaidInv
<1>2. IInv /\ (Staged /\ UnsaidInv) /\ [Next]_vars => (Staged /\ UnsaidInv)'
  BY StageStep, CancelOwnedStep, UnsaidStep DEF IInv, Staged
<1>3. IInv /\ (Staged /\ UnsaidInv) => SilenceIsOwned
  BY DEF IInv, OwnerInv, Owned, UnsaidInv, Unsaid, Parked, SilenceIsOwned, WithoutAWord
<1> QED
  BY <1>1, <1>2, <1>3, RunnerInvariant, PTL DEF Spec
=============================================================================
