---------------------------- MODULE ToolExposure ----------------------------
(***************************************************************************)
(* Which tools a step may call: loop/tool_exposure.go, the working set of  *)
(* loop/step_request.go, the pins of loop/tool_selection.go and the        *)
(* suggestions of loop/observed_suggested_next_tool.go.  The kernel's      *)
(* tools and, beyond them, at most MaxExtension tools of the host, filled  *)
(* group by group.                                                         *)
(*                                                                         *)
(* A request is a record of what the turn was handed: "pinned", "likely",  *)
(* "required" (the contract's next tools, in order) and "evidence" are     *)
(* sequences of tool names, "anyOf" a sequence of such sequences, "pins"   *)
(* the skills the host pinned, "chosen" the skills intake selected, "files"*)
(* and "sends" the tools that deliver the file or message it asks for,     *)
(* "immediate" says that it is answered at once.  A record of the turn has *)
(* the fields kind, tool, failed, found and hints.  What is offered is a   *)
(* set: its order is nobody's concern, and so a list that names a tool     *)
(* twice is left as it is wherever its tools are only counted.  The words  *)
(* of the selection event (source, reason, group names) are left out.      *)
(***************************************************************************)
EXTENDS Naturals, Sequences, SequencesExt, FiniteSets, FiniteSetsExt, Functions

CONSTANTS
    BuiltIn,        \* the host's kernel tools, a sequence of names
    Callable,       \* the tools that are model callable and may be exposed, a sequence
    Skills,         \* AvailableSkills: a sequence of names
    SkillTools,     \* the tools each skill refers to, a sequence for each
    MaxExtension,   \* MaxExtensionCallableToolCount
    EquipTool,      \* EquipToolName
    DeliverTool     \* FileDeliverToolName

ASSUME ExposureAssumption ==
    /\ MaxExtension \in Nat
    /\ Callable \in Seq(Range(Callable))
    /\ DOMAIN SkillTools = Range(Skills)

\* ToolSet.CanExpose.
Exposable == Range(Callable)

-----------------------------------------------------------------------------
(* Lists of names *)

\* appendUniqueStrings: the names, each once, where it is first met.
Unique(names) ==
    LET kept[k \in 0..Len(names)] ==
            IF k = 0 THEN <<>>
            ELSE IF names[k] \in {names[j] : j \in 1..k - 1} THEN kept[k - 1]
            ELSE Append(kept[k - 1], names[k])
    IN  kept[Len(names)]

\* interleaveToolNameLists: the first of each list, then the second of each.
Interleaved(lists) ==
    LET At(depth) == FlattenSeq([k \in DOMAIN lists |->
                         IF depth \in DOMAIN lists[k] THEN <<lists[k][depth]>> ELSE <<>>])
        Depth == Max({0} \union {Len(lists[k]) : k \in DOMAIN lists})
    IN  FlattenSeq([depth \in 1..Depth |-> At(depth)])

\* toolNamesExcept.
Without(names, excluded) == SelectSeq(names, LAMBDA name : name \notin Range(excluded))

\* filterGroupTools.
Group(names) == SelectSeq(names, LAMBDA name : name \in Exposable)

-----------------------------------------------------------------------------
(* What the records ask for *)

\* foundToolNamesFromObservations: what successful equip calls selected.
Found(records) ==
    FlattenSeq([k \in DOMAIN records |->
        IF records[k].kind = "call" /\ ~records[k].failed /\ records[k].tool = EquipTool
        THEN records[k].found ELSE <<>>])

\* firstPendingRequiredToolName: the required tools are met in their order,
\* by successes only; <<>> when all were.
FirstPending(required, records) ==
    LET Wanted == Unique(required)
        Meets(k, n) == n < Len(Wanted) /\ ~records[k].failed /\ records[k].tool = Wanted[n + 1]
        met[k \in 0..Len(records)] ==
            IF k = 0 THEN 0
            ELSE LET before == met[k - 1] IN IF Meets(k, before) THEN before + 1 ELSE before
        Met == met[Len(records)]
    IN  IF Met < Len(Wanted) THEN <<Wanted[Met + 1]>> ELSE <<>>

\* latestObservedSuggestedNextTool: the first tool of the latest recovery
\* packet that no later record used.
Suggested(records) ==
    LET Unused(k) == /\ records[k].hints # <<>>
                     /\ \A later \in k + 1..Len(records) : records[later].tool # Head(records[k].hints)
        Latest == {k \in DOMAIN records : Unused(k) /\ \A j \in k + 1..Len(records) : ~Unused(j)}
    IN  IF Latest = {} THEN <<>> ELSE <<Head(records[CHOOSE k \in Latest : TRUE].hints)>>

\* exhaustedRecoveryToolNames: those a refusal said are spent.
Exhausted(records) ==
    {records[k].tool : k \in {j \in DOMAIN records : records[j].kind = "exhausted"}}

\* activeRecoveryToolNames: what the active failure debt hints, but the spent.
RecoveryNames(debt, records) ==
    SelectSeq(debt, LAMBDA name : name \notin Exhausted(records))

-----------------------------------------------------------------------------
(* The working set *)

\* applyToolRequest: the pins, and the pinned skills that are tools.
Pins(request) ==
    request.pinned \o SelectSeq(request.pins, LAMBDA name :
        name \notin Range(Skills) /\ name \in Exposable)

\* pendingFileDeliveryToolNames: until a file was delivered.
PendingDelivery(request, records) ==
    IF \E k \in DOMAIN records : ~records[k].failed /\ records[k].tool = DeliverTool
    THEN <<>> ELSE request.files

\* requestWithStepWorkingSetTools: the tools of the plan's step take the place
\* of the likely ones; then what is owed, suggested and found.
Pinned(request, stepTools, records) ==
    (IF stepTools = <<>> THEN Pins(request)
     ELSE Without(Pins(request), request.likely) \o stepTools)
        \o PendingDelivery(request, records) \o Suggested(records) \o Found(records)

\* withOwningSkillDecisions: the skills intake chose and those that own a tool
\* equip found, in the order they are listed.
ChosenSkills(request, records) ==
    LET Owns(skill) == Range(SkillTools[skill]) \cap Range(Found(records)) # {}
    IN  SelectSeq(Skills, LAMBDA skill : skill \in request.chosen)
            \o SelectSeq(Skills, LAMBDA skill : skill \notin request.chosen /\ Owns(skill))

\* selectedSkillToolNames.
SkillToolNames(skills) == Interleaved([k \in DOMAIN skills |-> SkillTools[skills[k]]])

\* outcomeContractEvidenceGroups: of each group any one of which will do, the
\* first that may be exposed is required, the others are alternatives.
RequiredEvidence(request) ==
    request.evidence \o FlattenSeq([k \in DOMAIN request.anyOf |->
        LET There == Group(request.anyOf[k]) IN IF There = <<>> THEN <<>> ELSE <<Head(There)>>])
Alternatives(request) ==
    FlattenSeq([k \in DOMAIN request.anyOf |->
        LET There == Group(request.anyOf[k]) IN IF There = <<>> THEN <<>> ELSE Tail(There)])

\* hasAuthoritativeWorkingSet.
IsAuthoritative(request, skills) ==
    request.arbitrated /\ skills # <<>> /\ (request.required # <<>> \/ request.evidence # <<>>)

\* The groups of toolSetForAgentTurnWithExposure, in their order.
Groups(request, pinned, skills, debt, records) ==
    <<RecoveryNames(debt, records), FirstPending(request.required, records),
      RequiredEvidence(request), pinned,
      IF IsAuthoritative(request, skills) THEN request.required ELSE <<>>,
      SkillToolNames(skills), Alternatives(request)>>

\* extensionToolGroups: the host's own of some tools.
Extensions(names) == (names \intersect Exposable) \ Range(BuiltIn)

\* The host's tools a group's k-th name is counted with: those before it.
Upto(groups, g, k) ==
    Extensions((UNION {Range(groups[h]) : h \in 1..g - 1}) \union {groups[g][i] : i \in 1..k})

\* selectToolGroups: the first MaxExtension of the host's tools.
Selected(groups) ==
    Extensions(UNION {{groups[g][k] : k \in {i \in DOMAIN groups[g] :
                           Cardinality(Upto(groups, g, i)) <= MaxExtension}} : g \in DOMAIN groups})

\* requestNeedsToolAccess: an immediate reply has no kernel, unless it has a tool.
NeedsToolAccess(request, groups) ==
    ~request.immediate \/ \E g \in DOMAIN groups : Range(groups[g]) \intersect Exposable # {}

\* toolSetForAgentTurnWithExposure.
Exposed(request, pinned, skills, debt, records) ==
    LET groups == Groups(request, pinned, skills, debt, records)
        Kernel == Range(BuiltIn) \intersect Exposable
    IN  Selected(groups) \union (IF NeedsToolAccess(request, groups) THEN Kernel ELSE {})

\* wrapUpDeliveryToolNames.
WrapUpTools(request) == Range(request.files) \union Range(request.sends)

\* ToolSet.WithAllowedToolNames: the names that may be exposed.  What a list of
\* none allows is the library's: everything, or nothing.
Allowing(names) == IF names = {} THEN {{}, Exposable} ELSE {names \intersect Exposable}
=============================================================================
