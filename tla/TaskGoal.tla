------------------------------ MODULE TaskGoal ------------------------------
(***************************************************************************)
(* What a task still owes, from message to message: RunAgentRequest of     *)
(* loop/agent_kernel.go with the goals of outcome_contract.go.  Intake     *)
(* plans a message, the kernel makes the contract of OutcomeContract and   *)
(* the turn works under it; the goal is saved when the turn ends, and      *)
(* read back with the next message.  In between the process may die, and   *)
(* tools may come and go.                                                  *)
(*                                                                         *)
(* The turn itself is TurnRunner's, the level and the budget too.  Left    *)
(* out are the names of skills and pinned tools, the tools required next,  *)
(* the wording of objectives, and the events that only record.             *)
(***************************************************************************)
EXTENDS Intake, OutcomeContract

CONSTANTS
    Messages,       \* the messages that are carried on: bounds the turns
    SavedGoals,     \* the goals an earlier program may have left
    HintSets,       \* the evidence hints the selected skills may give
    Plans,          \* the execution plans a model may write
    ToolSets,       \* the tools a host may have registered
    MaxMessages     \* bounds how often a task is taken up

VARIABLES
    goal,       \* the goal saved last: its run, its status, its contract
    tools,      \* the tools registered now
    work,       \* the turn under way, or the last one
    recorded,   \* the decision each run recorded last, or Blank
    taken       \* how many turns were taken up, and the number of the last run

taskVars == <<goal, tools, work, recorded, taken>>
allVars == <<intakeVars, taskVars>>

\* A goal; "named" is a history of the tools its own messages spoke for.
NoGoal == [run |-> 0, status |-> "", contract |-> NoContract, named |-> {}]
NoWork == [at |-> "planning", run |-> 0, decision |-> Blank, prior |-> NoGoal,
           resolves |-> FALSE, contract |-> NoContract, goal |-> NoGoal]

GoalStatuses == {"", "active", "waiting_user_input", "waiting_approval", "completed", "blocked"}

TaskTypeOK ==
    /\ goal.status \in GoalStatuses /\ goal.run \in 0..taken
    /\ tools \subseteq Tools /\ work.at \in {"planning", "running", "stopped", "ended"}
    /\ goal.contract.required \subseteq Tools /\ UNION goal.contract.anyOf \subseteq Tools
    /\ goal.contract.artifact \in {"none", "preferred", "required"}
    /\ goal.named \subseteq Tools /\ taken \in 0..MaxMessages

\* What a contract wants spoken for: each tool it names, and the delivery
\* of a file it requires.
Wants(contract) ==
    NamedTools(contract) \union (IF FileIsRequired(contract) THEN {FileDeliver} ELSE {})

\* Messages, skills and hosts speak of tools by the names of now; a saved goal
\* may use those of then, and needs what its messages spoke for.
ASSUME TaskAssumption ==
    /\ MaxMessages \in Nat /\ Messages \subseteq Turns
    /\ \A message \in Messages :
          /\ message.entry = "turn" /\ message.request.registered \subseteq Current
          /\ message.given \in Decisions(Current, Tools)
    /\ WordSets \subseteq TurnWords(Tools)
    /\ HintSets \subseteq SUBSET Current /\ ToolSets \subseteq SUBSET Current
    /\ SavedGoals \subseteq [run : 0..MaxMessages, status : GoalStatuses,
                            contract : Contracts(Tools), named : SUBSET Current]
    /\ \A saved \in SavedGoals : Wants(NormalizePersisted(saved.contract)) \subseteq saved.named

\* The names and texts of this program are strings.
ASSUME TextsAssumption ==
    Routes \union Classes \union Shapes \union Levels \union Kinds \union Range(Letters)
        \union {"", "one", "several", "outcome_recovery", "file", "link", "message",
                "attached", "final"} \subseteq STRING

\* A run may have been left by an earlier program, under the names of then.
TaskInit ==
    /\ IntakeInit
    /\ goal \in IF turn \in Messages THEN SavedGoals ELSE {NoGoal}
    /\ tools \in IF turn \in Messages THEN ToolSets ELSE {{}}
    /\ work = NoWork
    /\ recorded = [run \in 1..MaxMessages |-> Blank]
    /\ turn \in Messages => measured = {}
    /\ taken = goal.run

-----------------------------------------------------------------------------
(* A request *)

\* resolvesActiveGoalInput: the message answers what the run it belongs to asks.
Resolves(held, existing, route) ==
    /\ held.status = "waiting_user_input"
    /\ held.run # 0 /\ held.run = existing
    /\ route \in {"continue_task", "revise_task"}

\* Mutant: a message that starts a task keeps the goal it came with.
AnyGoal(saved, route) == saved

\* RunAgentRequest on a start and on a revision: the goal is let go.  What a
\* prior task was about reaches the new goal as words only
\* (applyPriorTaskOutcomeRecovery).
HeldGoal(saved, route) == IF route \in {"start_task", "revise_task"} THEN NoGoal ELSE saved

\* The run the turn works on, 0 for a new one: a start leaves the run of the
\* goal it came with, a revision any run that was not opened for it.
RunOf(saved, existing, opened, route) ==
    IF \/ route = "start_task" /\ existing = saved.run
       \/ route = "revise_task" /\ ~opened
    THEN 0 ELSE existing

\* taskRunForRequest, and RunTurn alike: the run asked for, or the next.
RunFor(existing) == IF existing = 0 THEN taken + 1 ELSE existing

\* activeGoalFromIntakeOnly, with canPreserveIntakeGoal: a turn that ends
\* before it works keeps the goal's contract, or what the message asks for.
IntakeGoal(held, run, said, spoken, status) ==
    LET kept == IF held.run = run THEN held.contract ELSE NoContract
    IN  [run |-> run, status |-> status, named |-> spoken,
         contract |-> IF HasRequirements(kept) THEN kept
                      ELSE [kept EXCEPT !.results = NormalizeExpectedResults(said.results),
                                        !.files = said.formats]]

\* activeGoalForTurn, and requestReducedToCallableTools as the turn begins.
GoalForTurn(held, contract, spoken) ==
    [run |-> held.run, status |-> IF held.status = "" THEN "active" ELSE held.status,
     named |-> spoken,
     contract |-> Reduced(tools, NormalizeOutcomeContract(contract))]

\* The turn ends before it works: its goal is saved, its decision recorded.
EndsEarly(run, said, saved, records) ==
    /\ goal' = saved
    /\ recorded' = IF records THEN [recorded EXCEPT ![run] = said] ELSE recorded
    /\ work' = [NoWork EXCEPT !.at = "ended", !.run = run]

\* completeIntakeIfElapsed: the time is up before the turn works.
IntakeElapsed(held, run, said, spoken) ==
    EndsEarly(run, said, IntakeGoal(held, run, said, spoken, "blocked"), said.level # "")

\* planConfirmationGate: a plan if one is wanted and the model writes it.  A
\* restart goes on without, and so does a turn whose model failed twice.
PlansFor(request, restart) ==
    IF restart \/ ~WantsPlan(request) THEN {<<>>} ELSE {<<>>} \union {<<plan>> : plan \in Plans}

\* What the messages of a task speak for, this one's decision and those before
\* it, since the task was started or revised.
SpokenFor(saved, said) ==
    (IF said.route \in {"start_task", "revise_task"} THEN {} ELSE saved.named) \union
    said.tools \union
        (IF said.formats \/ \E i \in DOMAIN said.results :
               said.results[i].type = "file" /\ said.results[i].required
         THEN {FileDeliver} ELSE {})

\* dischargeResolvedInputContract, and requestReducedToCallableTools.
ContractOfTurn(request, resolves) ==
    Reduced(request.tools, IF resolves THEN Discharged(ContractFor(request)) ELSE ContractFor(request))

\* The turn works, under its contract.
StartsTurn(held, run, said, spoken, resolves, contract) ==
    /\ work' = [at |-> "running", run |-> run, decision |-> said, prior |-> held,
                resolves |-> resolves, contract |-> contract,
                goal |-> GoalForTurn(held, contract, spoken)]
    /\ UNCHANGED <<goal, recorded>>

\* RunAgentRequest, from the decision it is handed, with the goal it holds, the
\* run it works on and what was spoken for.
RunAgentRequest(held, existing, said, spokenFor, restart) ==
    LET run == RunFor(existing)
        resolves == Resolves(held, existing, said.route)
    IN  \E hints \in HintSets, artifact \in {said.formats, FALSE} :
          LET request == [tools |-> tools, goal |-> held.contract, decision |-> said,
                          hints |-> hints, sends |-> FALSE, artifact |-> artifact]
              spoken == spokenFor \union hints
              Ends(status) == EndsEarly(run, said, IntakeGoal(held, run, said, spoken, status), TRUE)
          IN  \/ IntakeElapsed(held, run, said, spoken)
              \/ said.class = "needs_confirmation" /\ Ends("waiting_user_input")
              \/ said.class = "unsupported" /\ Ends("blocked")
              \/ /\ said.class \notin {"needs_confirmation", "unsupported"}
                 /\ \E plan \in PlansFor(request, restart) :
                      IF plan # <<>> /\ Clarifies(plan[1], said)
                      THEN \* pauseForClarification: its goal holds no contract, and none
                           \* is saved when the question cannot be written.
                           \E saved \in {goal, [NoGoal EXCEPT !.run = run, !.named = spoken,
                                                         !.status = "waiting_user_input"]} :
                              EndsEarly(run, said, saved, TRUE)
                      ELSE StartsTurn(held, run, said, spoken, resolves,
                               ContractOfTurn([request EXCEPT !.sends = plan # <<>> /\
                                   (plan[1].external \/ plan[1].thirdParty)], resolves))

-----------------------------------------------------------------------------
(* The messages of a task *)

\* Intake plans the message.
PlanIt == IntakeNext /\ UNCHANGED taskVars

\* The host hands a planned message over, with the goal it saved or without,
\* on the goal's run, on a run opened for it, or on none.
TakeUp ==
    /\ work.at = "planning" /\ at = "done" /\ error = "" /\ live
    /\ turn \in Messages /\ taken < MaxMessages
    /\ \E saved \in {NoGoal, [goal EXCEPT !.contract = NormalizePersisted(@)]} :
         \E existing \in {0, saved.run, taken + 1} :
            LET held == HeldGoal(saved, decision.route)
            IN  \/ \* The time is up before the goal is let go, on the run handed over.
                   IntakeElapsed(held, RunFor(existing), decision, SpokenFor(saved, decision))
                \/ RunAgentRequest(held, RunOf(saved, existing, existing = taken + 1, decision.route),
                                   decision, SpokenFor(saved, decision), FALSE)
    /\ taken' = taken + 1
    /\ UNCHANGED <<intakeVars, tools>>

\* The turn ends with the run in some status: appendGoalLifecycleEvent.
TurnEnds ==
    /\ work.at = "running"
    /\ \E status \in {"waiting_user_input", "waiting_approval", "completed", "blocked"} :
         goal' = [work.goal EXCEPT !.run = IF @ = 0 THEN work.run ELSE @, !.status = status]
    /\ recorded' = [recorded EXCEPT ![work.run] = work.decision]
    /\ work' = [NoWork EXCEPT !.at = "ended", !.run = work.run]
    /\ UNCHANGED <<intakeVars, tools, taken>>

\* The process dies: neither goal nor decision was saved.
Crash ==
    /\ work.at = "running"
    /\ work' = [NoWork EXCEPT !.at = "stopped", !.run = work.run]
    /\ UNCHANGED <<intakeVars, goal, tools, recorded, taken>>

\* resumedTurnDecision, with WithRestoredIntakeState: what the run recorded.
ResumedDecision(run) ==
    LET last == recorded[run]
        resumed == [Blank EXCEPT !.route = "continue_task", !.class = "bounded_task",
                                 !.shape = "maintenance_task", !.language = TRUE]
    IN  IF last.level \notin Levels THEN resumed
        ELSE [last EXCEPT !.route = "continue_task", !.results = NormalizeExpectedResults(@)]

\* The host resumes the run the process died in, with the goal that run saved.
ResumeTask ==
    /\ work.at = "stopped"
    /\ LET saved == IF goal.run = work.run THEN [goal EXCEPT !.contract = NormalizePersisted(@)]
                    ELSE NoGoal
           said == ResumedDecision(work.run)
       IN  RunAgentRequest(saved, work.run, said, SpokenFor(saved, said), TRUE)
    /\ UNCHANGED <<intakeVars, tools, taken>>

\* The next message: it is planned anew, and tools may have come and gone.
MessageArrives ==
    /\ work.at \in {"ended", "stopped"} /\ taken < MaxMessages
    /\ turn' \in Messages /\ tools' \in ToolSets
    /\ at' = "plan" /\ live' = TRUE /\ failed' = FALSE /\ calls' = <<>>
    /\ measured' = {} /\ omitted' = FALSE /\ decision' = Blank
    /\ words' = "none" /\ limited' = FALSE /\ corrected' = FALSE /\ error' = ""
    /\ work' = NoWork
    /\ UNCHANGED <<goal, recorded, taken>>

TaskNext == PlanIt \/ TakeUp \/ TurnEnds \/ Crash \/ ResumeTask \/ MessageArrives

TaskSpec == TaskInit /\ [][TaskNext]_allVars

-----------------------------------------------------------------------------
(* Properties *)

\* All that must be shown is a link, which asks for no artifact.
LinkAlone(contract) == PublicLinkOnly(contract) /\ ~contract.files

\* A turn can meet what it must show: every tool its contract requires can be
\* called, a file is required only where files can be delivered, and the goal
\* saved with it asks no more.
CanBeMet ==
    work.at = "running" =>
        \A contract \in {work.contract, work.goal.contract} :
            /\ RequiredNames(contract) \subseteq tools
            /\ FileIsRequired(contract) => FileDeliver \in contract.required

\* Input that was given is not asked for again, by the contract, by its
\* results or by the goal (dischargeResolvedInputContract).
AskedOnce ==
    work.at = "running" /\ work.resolves =>
        \A contract \in {work.contract, work.goal.contract} :
            /\ AskInput \notin NamedTools(contract)
            /\ \A i \in DOMAIN contract.results : AskInput \notin contract.results[i].hints

\* A task owes nothing that was asked of another one: all it must show was
\* spoken for by a message of its own since it was started or revised.
OwesItsOwn ==
    work.at = "running" => RequiredNames(work.goal.contract) \subseteq work.goal.named

\* A message that continues a task, or a restart of it, lets go of nothing the
\* saved goal required, unless the tool is gone, the question was answered, the
\* tool only prepares the file that is expected, or messages are being edited;
\* a file stays required wherever it can be delivered, unless all is a link.
KeepsWhatItOwes ==
    LET owed == NormalizePersisted(work.prior.contract)
        excused == {tool \in Tools :
                      \/ tool \notin tools
                      \/ tool = AskInput /\ work.resolves
                      \/ Known(tools, tool, "draft") /\ ExpectsFile(owed)
                      \/ tool = MessageSend}
    IN  work.at = "running" /\ HasRequirements(owed) =>
            /\ owed.required \ excused \subseteq work.contract.required
            /\ \A group \in owed.anyOf : group \ excused # {} =>
                  \E left \in work.contract.anyOf : group \ excused \subseteq left /\ left \subseteq group
            /\ FileIsRequired(owed) /\ ~LinkAlone(owed) /\ FileDeliver \in tools
                 => FileIsRequired(work.contract)

\* Reading the saved goal back and putting it in shape adds nothing to what it
\* requires and takes nothing away, as long as the tools stay, but for the
\* artifact of a goal that comes down to a link.
SavedIsWhatIsRead ==
    LET saved == work.goal.contract
        read == Sanitize(tools, NormalizePersisted(saved))
    IN  work.at = "running" =>
            /\ read.required = saved.required /\ read.anyOf = saved.anyOf
            /\ FileIsRequired(read) <=> FileIsRequired(saved) /\ ~LinkAlone(saved)

ContractHolds ==
    TaskTypeOK /\ CanBeMet /\ AskedOnce /\ OwesItsOwn /\ KeepsWhatItOwes /\ SavedIsWhatIsRead
=============================================================================
