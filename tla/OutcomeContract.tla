-------------------------- MODULE OutcomeContract --------------------------
(***************************************************************************)
(* What a task must show before it may end: loop/outcome_contract.go, the  *)
(* contract part of active_goal.go and completion_gate.go, and the policy  *)
(* of confirmation.go.  It has no state: TaskGoal uses it.                 *)
(*                                                                         *)
(* A contract names tools that must have run, groups of which one must     *)
(* have run, tools that may serve as evidence, and expected results.       *)
(* Tools are numbers, lists of them sets, and the attachment suffixes one  *)
(* yes or no.  The effects a contract may list are left out: no code here  *)
(* writes them.  So is the artifact_review hint, and a missing tool set.   *)
(***************************************************************************)
EXTENDS TurnDecision

CONSTANTS
    About,          \* what the definition of each tool says of it
    FileDeliver, AskInput, MessageSend,
    Renamed         \* the name each tool goes by now

Tools == DOMAIN About

\* The tools that go by the name they are given.
Current == {tool \in Tools : Renamed[tool] = tool}

\* The three tools have names of their own, and what delivers a file neither
\* sends nor edits a message nor only prepares a file.
ASSUME ToolsAssumption ==
    /\ {FileDeliver, AskInput, MessageSend} \subseteq Current
    /\ FileDeliver \notin {AskInput, MessageSend}
    /\ \A tool \in Tools :
          About[tool] \subseteq {"send", "message", "schedule", "draft", "change", "usable"}
    /\ About[FileDeliver] \intersect {"send", "message", "draft"} = {}
    /\ Renamed \in [Tools -> Current]

\* The contracts over some of the names.
Contracts(names) ==
    [required : SUBSET names, anyOf : SUBSET SUBSET names, hints : SUBSET names,
     files : BOOLEAN, results : Seq(Results(Tools)),
     artifact : {"none", "preferred", "required"}]

NoContract == [required |-> {}, anyOf |-> {}, hints |-> {}, files |-> FALSE,
               results |-> <<>>, artifact |-> "none"]

-----------------------------------------------------------------------------
(* Reading a contract *)

\* toolDefinitionForName: only a registered tool has a definition to ask.
Known(tools, tool, fact) == tool \in tools /\ fact \in About[tool]

\* isSendEvidenceTool.
Sends(tools, tool) == Known(tools, tool, "send")

\* outcomeContractRequiredToolNames.
RequiredNames(contract) == contract.required \union UNION contract.anyOf

\* outcomeContractToolNames.
NamedTools(contract) == RequiredNames(contract) \union contract.hints

\* expectedResultIncludesType.
HasType(contract, type) == \E i \in DOMAIN contract.results : contract.results[i].type = type

\* agentcontract.OutcomeContractHasRequirements, of the protocol library.
HasRequirements(contract) ==
    RequiredNames(contract) # {} \/ contract.files \/ contract.results # <<>>

\* expectedResultRequiresFileAttachment.
FileIsRequired(contract) ==
    \/ contract.artifact = "required"
    \/ contract.files
    \/ \E result \in Range(NormalizeExpectedResults(contract.results)) :
          result.required /\ result.type = "file"

\* outcomeContractExpectsFileResult.
ExpectsFile(contract) ==
    contract.files \/ FileDeliver \in RequiredNames(contract) \/ HasType(contract, "file")

\* outcomeContractRequiresPublicLinkOnly.
PublicLinkOnly(contract) ==
    LET wanted == {result.type : result \in
                     {r \in Range(NormalizeExpectedResults(contract.results)) : r.required}}
    IN  "link" \in wanted /\ "file" \notin wanted

\* contractRequiresSendTool and sendEvidenceToolsFromValues: the sends among
\* all a contract requires, the groups included.
RequiredSends(tools, contract) == {tool \in RequiredNames(contract) : Sends(tools, tool)}

-----------------------------------------------------------------------------
(* Keeping a contract in shape *)

\* removeToolNameGroups: a group left empty goes.
WithoutInGroups(groups, tools) == {group \ tools : group \in groups} \ {{}}

\* normalizeEvidenceAnyOf and normalizeExpectedResults.
Tidied(contract) ==
    [contract EXCEPT !.anyOf = @ \ {{}}, !.results = NormalizeExpectedResults(@)]

\* withExpectedResultRequirements: a required file brings its delivery.
WithDelivery(contract) ==
    IF FileIsRequired(contract)
    THEN [contract EXCEPT !.required = @ \union {FileDeliver}, !.artifact = "required"]
    ELSE contract

\* normalizeOutcomeContract.
NormalizeOutcomeContract(contract) == WithDelivery(Tidied(contract))

\* normalizePersistedOutcomeContract: a stored contract may use names of old.
NormalizePersisted(contract) ==
    LET Renaming(names) == {Renamed[tool] : tool \in names}
        Reread(result) == [result EXCEPT !.hints = Renaming(@)]
    IN  NormalizeOutcomeContract(
            [contract EXCEPT
                !.required = Renaming(@), !.hints = Renaming(@),
                !.anyOf = {Renaming(group) : group \in @},
                !.results = [i \in DOMAIN @ |-> Reread(@[i])]])

\* removeIntermediateAttachmentEvidence: what only prepares a file is no
\* evidence that it was delivered.
WithoutDrafts(tools, contract) ==
    LET drafts == {tool \in tools : Known(tools, tool, "draft")}
    IN  IF ExpectsFile(contract)
        THEN [contract EXCEPT !.required = @ \ drafts, !.anyOf = WithoutInGroups(@, drafts)]
        ELSE contract

\* removeImplicitFileContract.  It runs only on a contract that expects no
\* file, where it finds nothing to remove.
WithoutFile(contract) ==
    IF HasType(contract, "link") /\ ~ExpectsFile(contract)
    THEN [contract EXCEPT !.files = FALSE, !.required = @ \ {FileDeliver},
                          !.anyOf = WithoutInGroups(@, {FileDeliver}),
                          !.results = Keep(@, {i \in DOMAIN @ : @[i].type # "file"})]
    ELSE contract

\* A link is not an artifact.
WithoutArtifact(contract) ==
    IF PublicLinkOnly(contract) THEN [contract EXCEPT !.artifact = "none"] ELSE contract

\* removePlatformMessageSendContract, where messages are maintained
\* (outcomeContractRequiresPlatformMessageMaintenance).
WithoutMessageSend(tools, contract) ==
    IF \E tool \in NamedTools(contract) : Known(tools, tool, "message") /\ ~Sends(tools, tool)
    THEN [contract EXCEPT !.required = @ \ {MessageSend}, !.hints = @ \ {MessageSend},
                          !.anyOf = WithoutInGroups(@, {MessageSend})]
    ELSE contract

\* sanitizeOutcomeContractForRequest.
Sanitize(tools, contract) ==
    NormalizeOutcomeContract(WithoutMessageSend(tools, WithoutArtifact(WithoutFile(
        WithoutDrafts(tools, NormalizeOutcomeContract(contract))))))

\* dischargeResolvedInputContract, once the input is resolved: a result that
\* asked for nothing but the question is met.
Discharged(contract) ==
    LET left == Keep(contract.results,
                     {i \in DOMAIN contract.results : contract.results[i].hints # {AskInput}})
        Met(result) == [result EXCEPT !.hints = @ \ {AskInput}]
    IN  NormalizeOutcomeContract(
            [contract EXCEPT
                !.required = @ \ {AskInput}, !.hints = @ \ {AskInput},
                !.anyOf = WithoutInGroups(@, {AskInput}),
                !.results = [i \in DOMAIN left |-> Met(left[i])]])

\* contractReducedToCallableTools: no evidence is required of a tool that
\* cannot be called, and no file where none can be delivered.
Reduced(tools, contract) ==
    LET named == [contract EXCEPT !.required = @ \intersect tools,
                                  !.anyOf = {group \intersect tools : group \in @} \ {{}}]
        Relaxed(result) == [result EXCEPT !.required = @ /\ result.type # "file"]
    IN  IF FileDeliver \in tools THEN named
        ELSE [named EXCEPT !.artifact = IF @ = "required" THEN "preferred" ELSE @,
                           !.files = FALSE,
                           !.results = [i \in DOMAIN @ |-> Relaxed(@[i])]]

-----------------------------------------------------------------------------
(* The contract of a request                                               *)
(*                                                                         *)
(* A request is a record: the registered tools, the contract of the active *)
(* goal, the decision about the message, the evidence hints of the skills  *)
(* selected, whether a plan says it sends, whether an artifact format is   *)
(* among those named.                                                      *)

\* workingSetEvidenceGroup.
Satisfiable(tools, names) == {tool \in names : Known(tools, tool, "usable")}

\* evidenceHintMatchesOutcome.
HintMatches(request, tool, files) ==
    LET goal == request.goal
        InMessages(name) == Known(request.tools, name, "message")
    IN  IF Sends(request.tools, tool) THEN tool \in RequiredNames(goal) \/ request.sends
        ELSE IF InMessages(tool)
        THEN \/ request.decision.shape = "maintenance_task"
             \/ tool \in NamedTools(goal)
             \/ \E name \in RequiredNames(goal) : InMessages(name)
        ELSE \/ tool \in RequiredNames(goal)
             \/ IF tool = FileDeliver THEN files
                ELSE /\ Known(request.tools, tool, "schedule")
                     /\ request.decision.shape = "scheduled_task"

\* artifactRequirementForOutcomeContract.
ArtifactRequirement(request, contract) ==
    IF contract.files \/ FileDeliver \in RequiredNames(contract) THEN "required"
    ELSE IF ~PublicLinkOnly(contract) /\ request.artifact THEN "preferred"
    ELSE "none"

\* expectedResultsForRequest.
ExpectedOf(decision) ==
    LET file == [type |-> "file", about |-> {"attached"}, required |-> TRUE, hints |-> {}]
        reply == [type |-> "message", about |-> {"final"}, required |-> TRUE, hints |-> {}]
        named == decision.results \o (IF decision.formats THEN <<file>> ELSE <<>>)
    IN  IF named = <<>> THEN <<>> ELSE NormalizeExpectedResults(Append(named, reply))

\* What a contract requires is sent, and the artifact it comes with is asked
\* for, unless it asked before.
WithSends(tools, contract) == [contract EXCEPT !.required = @ \union RequiredSends(tools, contract)]
WithArtifact(request, contract) ==
    [contract EXCEPT !.artifact = IF @ = "none" THEN ArtifactRequirement(request, contract) ELSE @]

\* outcomeContractForRequest where the goal requires something: the goal's
\* contract goes on, whatever the message names.
Continued(request) ==
    LET goal == request.goal
        wanted == {tool \in request.hints :
                     \/ tool \in RequiredNames(goal)
                     \/ Sends(request.tools, tool) /\ RequiredSends(request.tools, goal) # {}}
    IN  WithArtifact(request, WithSends(request.tools,
            [goal EXCEPT !.hints = @ \union request.hints, !.required = @ \union wanted]))

\* requiredEvidenceToolsForRequest: the hints that match what is asked, and the
\* likely tools that send when a plan says so.
RequiredEvidence(request) ==
    {tool \in NamedTools(request.goal) \union request.hints :
        HintMatches(request, tool, request.decision.formats)}
    \union {tool \in Satisfiable(request.tools, request.decision.tools) :
                request.sends /\ Sends(request.tools, tool)}

\* workEvidenceGroup: where no requirement changes anything, one of the hints
\* is evidence that the work was done.
WorkEvidence(request, required) ==
    IF /\ ~\E tool \in required : tool = FileDeliver \/ Known(request.tools, tool, "change")
       /\ request.decision.shape \in {"maintenance_task", "scheduled_task", "approval_gated_task"}
    THEN {Satisfiable(request.tools, request.hints)} \ {{}}
    ELSE {}

\* The contract a message's decision asks for.
Asked(request, required) ==
    LET decision == request.decision
    IN  [NoContract EXCEPT
            !.required = required \union (IF decision.formats THEN {FileDeliver} ELSE {}),
            !.anyOf = WorkEvidence(request, required),
            !.hints = NamedTools(request.goal) \union request.hints
                         \union Satisfiable(request.tools, decision.tools),
            !.files = decision.formats, !.results = ExpectedOf(decision)]

\* outcomeContractForRequest where it requires nothing.
Started(request) == WithArtifact(request, Asked(request, RequiredEvidence(request)))

\* outcomeContractForRequest.
ContractFor(request) ==
    Sanitize(request.tools,
             IF HasRequirements(request.goal) THEN Continued(request) ELSE Started(request))

-----------------------------------------------------------------------------
(* The plan before risky work *)

\* shouldBuildExecutionPlanForConfirmation, over the hints that
\* confirmationEvidenceHintsForRequest keeps: those that match with no plan.
WantsPlan(request) ==
    /\ request.decision.class = "bounded_task"
    /\ \/ request.decision.shape = "approval_gated_task"
       \/ \E tool \in request.hints :
             /\ HintMatches([request EXCEPT !.sends = FALSE], tool, FALSE)
             /\ Sends(request.tools, tool)

\* EvaluateConfirmationPolicy: what must be asked before the work starts ...
Unbounded(plan) == plan.repeated /\ ~plan.ends /\ (plan.thirdParty \/ plan.frequent)

\* ... and what waits for an approval: sending to others or again and again,
\* what is risky, and what is destructive or frequent and was not named by the
\* requester (requesterNamedTheEffect).
Confirms(plan) ==
    \/ plan.thirdParty \/ (plan.external /\ plan.repeated) \/ plan.risky
    \/ (plan.frequent \/ plan.destructive) /\ ~plan.named

\* confirmationDecisionForIndependentWork: what is missing holds up nothing
\* if part of the work can go on and nothing else speaks against it.
Clarifies(plan, decision) ==
    \/ Unbounded(plan)
    \/ plan.missing /\ (~decision.independent \/ Confirms(plan))
=============================================================================
