---------------------------- MODULE ToolSelection ----------------------------
(***************************************************************************)
(* How intake asks which tools the work needs, and what it makes of the    *)
(* answers: intake/tool_selection_call.go, tool_selection_batches.go and   *)
(* tool_selection.go.  Every tool is one question of a decision request;   *)
(* a request over the byte budget is split into batches that keep a        *)
(* provider's tools together.  Work expected to need one tool is asked one *)
(* choice among all of them instead.                                       *)
(*                                                                         *)
(* A catalog is a sequence of tools in the order of their names, a tool is *)
(* its place in it.  A tool's bytes are those of its description, of its   *)
(* questions and of their punctuation; a provider of 0 is none.            *)
(***************************************************************************)
EXTENDS Integers, Sequences, SequencesExt, FiniteSets, FiniteSetsExt, Functions

CONSTANTS
    ByteBudget,     \* decisionRequestByteBudget
    FixedBytes,     \* the bytes of a request that describes no tool
    LikelyToolLimit \* likelyToolCountLimit

ASSUME BudgetAssumption ==
    ByteBudget \in Nat /\ FixedBytes \in Nat /\ LikelyToolLimit \in Nat \ {0}

\* likelyToolProbabilityThreshold, recordedToolProbabilityFloor and
\* singleToolBeliefMass, in hundredths.
Threshold == 30
Floor == 5
BeliefMass == 90

\* The members of a set one after the other; "before" has the pairs whose first
\* comes before the second.
InOrder(set, before) ==
    LET Place(x) == Cardinality({y \in set : <<y, x>> \in before}) + 1
    IN  [k \in 1..Cardinality(set) |-> CHOOSE x \in set : Place(x) = k]

-----------------------------------------------------------------------------
(* Batches *)

\* decisionRequestByteCount of toolSelectionRequestPart.
BytesOf(catalog, tools) == FoldSet(LAMBDA tool, sum : sum + catalog[tool].bytes, 0, tools)
RequestBytes(catalog, tools) == FixedBytes + BytesOf(catalog, tools)

\* The quotient rounded up, as the code's (a + b - 1) / b.
CeilDiv(a, b) == (a + b - 1) \div b

\* providerRunsNoLargerThan: a provider's tools, by name, cut where the next
\* one would exceed the share; "first" is the first tool of the run that is open
\* after tool n.
ProviderRuns(catalog, tools, share) ==
    LET first[n \in 0..Len(catalog)] ==
            IF n = 0 THEN 0
            ELSE IF \/ n \notin tools
                    \/ /\ first[n - 1] # 0
                       /\ BytesOf(catalog, {t \in tools : first[n - 1] <= t /\ t <= n}) <= share
                 THEN first[n - 1]
                 ELSE n
    IN  {{other \in tools : first[other] = first[tool]} : tool \in tools}

\* toolsGroupedByProvider: a tool of no provider is a group of its own.
Groups(catalog) ==
    LET Group(tool) == {other \in DOMAIN catalog :
                           \/ other = tool
                           \/ /\ catalog[other].provider = catalog[tool].provider
                              /\ catalog[tool].provider # 0}
    IN  {Group(tool) : tool \in DOMAIN catalog}

\* toolSelectionRunsNoLargerThan and runsRankedLargestFirst: the first tool's
\* name breaks a tie.
RankedRuns(catalog, share) ==
    LET runs == UNION {ProviderRuns(catalog, group, share) : group \in Groups(catalog)}
        Before(a, b) == \/ BytesOf(catalog, a) > BytesOf(catalog, b)
                        \/ BytesOf(catalog, a) = BytesOf(catalog, b) /\ Min(a) < Min(b)
    IN  InOrder(runs, {pair \in runs \X runs : Before(pair[1], pair[2])})

\* indexOfLightestBatch: the first of the lightest.
Lightest(catalog, batches) ==
    Min({i \in DOMAIN batches : \A j \in DOMAIN batches :
            BytesOf(catalog, batches[i]) <= BytesOf(catalog, batches[j])})

\* toolSelectionBatches, batchShareByteCount and batchesInNameOrder.
Batches(catalog, count) ==
    LET all == DOMAIN catalog
        share == CeilDiv(BytesOf(catalog, all), count)
        runs == RankedRuns(catalog, share)
        placed[n \in 0..Len(runs)] ==
            IF n = 0 THEN [i \in 1..count |-> {}]
            ELSE [placed[n - 1] EXCEPT ![Lightest(catalog, placed[n - 1])] = @ \union runs[n]]
        filled == Range(placed[Len(runs)]) \ {{}}
    IN  IF count <= 1 THEN <<all>>
        ELSE InOrder(filled, {pair \in filled \X filled : Min(pair[1]) < Min(pair[2])})

\* smallestBatchCountThatFits.
SmallestCount(catalog) ==
    IF ByteBudget <= FixedBytes THEN Len(catalog)
    ELSE CeilDiv(BytesOf(catalog, DOMAIN catalog), ByteBudget - FixedBytes)

\* largestDecisionRequestByteCount within the budget.
AllFit(catalog, batches) ==
    \A i \in DOMAIN batches : RequestBytes(catalog, batches[i]) <= ByteBudget

\* planToolSelection: one request if it fits, else the fewest batches that
\* fit, else one batch for every tool.
PlanToolSelection(catalog) ==
    LET tried == {count \in 2..Len(catalog) :
                     count >= SmallestCount(catalog) /\ AllFit(catalog, Batches(catalog, count))}
    IN  IF AllFit(catalog, <<DOMAIN catalog>>) THEN <<DOMAIN catalog>>
        ELSE Batches(catalog, IF tried = {} THEN Len(catalog) ELSE Min(tried))

-----------------------------------------------------------------------------
(* The answers *)

\* toolNamesRankedByProbability and selectLikelyToolNames: the likeliest over
\* the threshold, the name breaking a tie, at most limit of them.
SelectLikely(probability, limit) ==
    LET Before(a, b) == \/ probability[a] > probability[b]
                        \/ probability[a] = probability[b] /\ a < b
        likely == {tool \in DOMAIN probability : probability[tool] >= Threshold}
        ranked == InOrder(likely, {pair \in likely \X likely : Before(pair[1], pair[2])})
    IN  {ranked[n] : n \in {k \in DOMAIN ranked : k <= limit}}

\* toolNamesCoveringBelief: the likeliest until the belief is covered, the
\* limit reached or the floor passed.  The sort is not stable and starts from
\* the order of a map, so a tie falls either way.
CoveringBelief(belief, limit) ==
    LET Sorted(order) == \A i, j \in DOMAIN order :
                            i < j => belief[order[i]] >= belief[order[j]]
        Take(order) ==
            LET Sum(n) == FoldSet(LAMBDA i, sum : sum + belief[order[i]], 0, 1..n)
                Goes(n) == /\ n < limit /\ (n = 0 \/ Sum(n) < BeliefMass)
                           /\ belief[order[n + 1]] >= Floor
            IN  {order[i] : i \in {n \in DOMAIN order : \A k \in 0..(n - 1) : Goes(k)}}
    IN  {Take(order) : order \in {o \in SetToSeqs(DOMAIN belief) : Sorted(o)}}

\* toolSelectionCountLimit: a need may ask for fewer.
CountLimit(asked) == IF asked > 0 /\ asked < LikelyToolLimit THEN asked ELSE LikelyToolLimit
=============================================================================
