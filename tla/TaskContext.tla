---------------------------- MODULE TaskContext ----------------------------
(***************************************************************************)
(* What a task remembers of its own steps: the records of the turn, the    *)
(* prompt the model reads of them, and the checkpoint a resumed task is    *)
(* rebuilt from.  loop/task_context_summary.go, task_context_selection.go, *)
(* task_context_summary_content.go, tool_result_pruning.go,                *)
(* tool_result_spill.go, turn_observation.go and the restoring half of     *)
(* agent_turn_state.go.                                                    *)
(*                                                                         *)
(* A prompt that outgrows its budget is compacted: a model writes a        *)
(* summary, a decision model names the older tool records that are no      *)
(* longer needed, and only when that is not enough does the summary also   *)
(* replace the older talk.  The records themselves stay in memory; what is *)
(* compacted is the projection, and the checkpoint that says which events  *)
(* of the ledger it accounts for.  A restart sees the ledger alone.        *)
(*                                                                         *)
(* A record is its kind, whether it carries words of the model, the text   *)
(* of its result as a number (equal texts, equal numbers) and its size.    *)
(* Left out: the wording of the summary (only its size), the evidence it   *)
(* cites (a cited record is one the decision model keeps), the approvals,  *)
(* and of the notes of compactions that freed nothing all but the newest.  *)
(* A task is taken up again between two calls of its model, and a reply    *)
(* cites what the prompt shows.  A success that is not a mere look settles *)
(* every failure here; Recovery models the work that does not.             *)
(***************************************************************************)
EXTENDS Integers, FiniteSets, SequencesExt, Kept

CONSTANTS
  Recent,        \* taskContextCompactionRecentObservationCount
  MinimumNew,    \* taskContextCompactionMinimumNewObservations
  MinimumSize,   \* taskContextCompactionMinimumNewCharacters, as a size
  Budget,        \* the size compaction starts above
  Talk,          \* the messages of the conversation, the requester's last
  CallKinds,     \* the kinds of result a call may have
  Resumes,       \* the ways a task may be picked up: paused, restarted, steered
  SavesMayFail,  \* whether the host's store of transcripts may fail
  MaxRecords,    \* bound: tool records of the task
  MaxSaid,       \* bound: records that come from no tool
  MaxCites,      \* bound: records cited as evidence
  MaxResumes     \* bound: resumes of the task

ASSUME ContextAssumption ==
  /\ Recent \in Nat \ {0} /\ MinimumNew \in Nat \ {0} /\ MinimumSize \in Nat \ {0}
  /\ Budget \in Nat /\ Talk \in Seq(ToSet(Talk)) /\ Len(Talk) > 1
  /\ CallKinds \subseteq {"work", "look", "file", "fail"}
  /\ Resumes \subseteq {"paused", "restarted", "steered"}
  /\ SavesMayFail \in BOOLEAN

VARIABLES
  obs,       \* state.Observations: the records of the turn, oldest first
  ledger,    \* the tool.*.result events
  cited,     \* the records an action named as completion evidence
  heard,     \* how many messages of Talk the turn was given
  summary,   \* the newest agent.context_summary event
  barren,    \* the newest boundary a compaction freed nothing at
  shown,     \* the prompt of the action being decided
  decides,   \* whether a decision model is configured
  judged,    \* the events a decision called unrelated
  resumes,   \* resumes so far
  pc,        \* the turn: thinking, then acting
  intact     \* auxiliary, read by the properties alone: see NumbersTaken

vars ==
  <<obs, ledger, cited, heard, summary, barren, shown, decides, judged, resumes, pc, intact>>

-----------------------------------------------------------------------------
\* turnObservation: a tool's record is work, a look, a delivered file or a
\* failure; said is any other; voice is what is left of an omitted record.
ToolKinds == {"work", "look", "file", "fail"}
Kinds == ToolKinds \cup {"said", "voice", "summary"}
Record(id, event, kind, talks, text, repeats) ==
  [id |-> id, event |-> event, kind |-> kind, talks |-> talks, text |-> text,
   repeats |-> repeats, cut |-> FALSE]
IsTool(o) == o.kind \in ToolKinds

IdsOf(records) == {o.id : o \in records}
EventsOf(records) == {o.event : o \in records} \ {0}

\* nextObservationIDForObservations, over what is in memory
NextID(s) == IF s = <<>> THEN 1 ELSE Max(IdsOf(ToSet(s))) + 1

NoSummary ==
  [is |-> FALSE, through |-> 0, compacted |-> {}, omitted |-> {}, spoken |-> {},
   messages |-> <<>>, saved |-> {}, accounted |-> {}, retained |-> <<>>, tools |-> 0]

\* What is shown between two prompts.
Nothing == [records |-> <<>>, messages |-> <<>>]

Init ==
  /\ obs = <<>> /\ ledger = <<>> /\ cited = {} /\ heard = Len(Talk) - 1
  /\ summary = NoSummary /\ barren = Nothing /\ shown = Nothing
  /\ decides \in BOOLEAN /\ judged = {} /\ resumes = 0 /\ pc = "thinking"
  /\ intact = TRUE

\* A resume that drops records from memory lets later ones have their numbers.  The
\* task is intact until a record takes the number of another of the ledger or of the
\* summary, or the task starts over.
NumbersTaken == IdsOf(ToSet(ledger)) \cup summary.compacted

-----------------------------------------------------------------------------
\* activeFailureDebt: where the failure still owed stands, 0 for none.
OwedAt(s) ==
  LET owed == {i \in DOMAIN s : s[i].kind = "fail"
                 /\ \A j \in i + 1 .. Len(s) : s[j].kind \notin {"work", "file", "fail"}}
  IN  IF owed = {} THEN 0 ELSE Max(owed)

\* pinnedPromptObservationIDs: cited evidence, effects and deliveries, and
\* everything since the failure still owed.
Pinned(s, cites) ==
  cites \cup {s[i].id : i \in {j \in DOMAIN s : s[j].kind = "file"}}
        \cup (IF OwedAt(s) = 0 THEN {} ELSE {s[i].id : i \in OwedAt(s) .. Len(s)})

\* summaryObservation and summaryPromptContent: a summary that replaced no
\* talk is only the pointer to its transcript.
Replaces(sum) == sum.compacted # {} \/ sum.spoken # {} \/ sum.messages # <<>>
SummaryRecord(sum) ==
  [Record(0, 0, "summary", FALSE, 0, 0) EXCEPT
     !.text = 1 + (IF Replaces(sum) THEN 1 ELSE 0) + (IF sum.saved = {} THEN 0 ELSE 1)]

\* assistantOnlyObservation
Voice(o) == [o EXCEPT !.kind = "voice", !.repeats = 0, !.cut = FALSE]

\* promptVisibleObservations
Projected(s, sum, pins) ==
  LET hidden == (sum.compacted \cup sum.omitted) \ pins
      keeps(o) == o.id \notin hidden \/ (o.id \in sum.omitted \ sum.spoken /\ o.talks)
      shape(o) == IF o.id \in hidden THEN Voice(o)
                  ELSE IF o.id \in sum.spoken \ pins THEN [o EXCEPT !.talks = FALSE] ELSE o
      kept == Keep(s, {i \in DOMAIN s : keeps(s[i])})
  IN  IF ~sum.is THEN s
      ELSE <<SummaryRecord(sum)>> \o [i \in DOMAIN kept |-> shape(kept[i])]

\* stateWithContextSummary: each compacted message hides one message like it,
\* and never the last.
MessagesLeft(talk, gone) ==
  LET times(s, m, n) == Cardinality({i \in 1 .. n : s[i] = m})
      isGone(i) == i < Len(talk) /\ times(talk, talk[i], i) <= times(gone, talk[i], Len(gone))
  IN  Keep(talk, {i \in DOMAIN talk : ~isGone(i)})
WithSummary(s, talk, sum, pins) ==
  [records |-> Projected(s, sum, pins), messages |-> MessagesLeft(talk, sum.messages)]

\* estimateActionPromptTokenCount: a result is two, cut to one; words are one.
Size(o) ==
  CASE o.kind = "summary" -> o.text
    [] IsTool(o) -> (IF o.cut THEN 1 ELSE 2) + (IF o.talks THEN 1 ELSE 0)
    [] OTHER -> 1
RecordsSize(s) == FoldFunction(LAMBDA o, n : Size(o) + n, 0, s)
PromptSize(p) == RecordsSize(p.records) + Len(p.messages)

\* observationsWithLongToolResultsPruned: all but the newest and the pinned.
Pruned(p, pins) ==
  [p EXCEPT !.records = [i \in DOMAIN @ |->
     IF IsTool(@[i]) /\ i < Len(@) /\ @[i].id \notin pins THEN [@[i] EXCEPT !.cut = TRUE] ELSE @[i]]]
\* promptObservationsWithLongToolResultsPruned: a pass that does not shrink
\* the prompt is discarded.
Shorter(p, pins) == IF PromptSize(Pruned(p, pins)) < PromptSize(p) THEN Pruned(p, pins) ELSE p

-----------------------------------------------------------------------------
\* observationsAfterObservationID: all of them when the boundary is not there.
After(s, id) ==
  LET at == {i \in DOMAIN s : s[i].id = id /\ id # 0}
  IN  IF at = {} THEN s ELSE SubSeq(s, Min(at) + 1, Len(s))
EnoughNew(s, id) ==
  Len(After(s, id)) >= MinimumNew \/ RecordsSize(After(s, id)) >= MinimumSize

\* buildTaskContextCompactionPlan
Compactable(s, sum, pins) ==
  IF EnoughNew(s, sum.through) /\ Len(s) > Recent
  THEN Keep(s, {i \in 1 .. Len(s) - Recent : s[i].id \notin pins /\ s[i].kind # "summary"})
  ELSE <<>>

\* toolSelectionCandidates
Candidates(plan) == IdsOf({o \in ToSet(plan) : IsTool(o)})

\* omissionsKeepingDependencies: a record something retained repeats stays; what is
\* left when no pass finds another is the most that may go.
KeepingDependencies(no, s) ==
  LET needed(gone) == {o.repeats : o \in {r \in ToSet(s) : r.id \notin gone}}
  IN  UNION {gone \in SUBSET no : needed(gone) \cap gone = {}}

\* Mutant: a decision that failed lets every candidate go.
UnjudgedGoes(plan, no, failed, s) == KeepingDependencies(IF failed THEN Candidates(plan) ELSE no, s)

\* irrelevantToolObservationIDs, then omissionsKeepingDependencies: only an
\* explicit no omits a record.
Omitted(plan, no, failed, s) == KeepingDependencies(IF failed THEN {} ELSE no, s)

\* summaryKeepingProjection
Keeping(sum, plan) ==
  [sum EXCEPT !.is = TRUE,
     !.through = IF plan = <<>> THEN @ ELSE plan[Len(plan)].id]

\* summaryReplacingConversation: the records of no tool, the words beside the
\* others, and every message but the last.
Replacing(sum, p, plan) ==
  [sum EXCEPT
     !.compacted = @ \cup IdsOf({o \in ToSet(plan) : ~IsTool(o)}),
     !.spoken = @ \cup IdsOf({o \in ToSet(plan) : IsTool(o) /\ o.talks}),
     !.messages = @ \o SubSeq(p.messages, 1, Len(p.messages) - 1)]

\* newlyRemovedObservations
NewlyRemoved(s, sum) ==
  {o \in ToSet(s) : o.id \in sum.compacted \cup sum.omitted \/ (o.id \in sum.spoken /\ o.talks)}

\* saveCompactedTranscript and compactedPlanTranscript: a transcript holds what
\* was removed and leads to the one before it; one that was not stored leaves
\* the one before in its place.
Saved(before, removed, stored) ==
  IF stored THEN before \cup {<<o.id, o.event>> : o \in removed} ELSE before

-----------------------------------------------------------------------------
\* taskEventIDByObservationID: the newest event of the id, 0 for none.
EventOf(events, id) ==
  LET at == {i \in DOMAIN events : events[i].id = id}
  IN  IF at = {} THEN 0 ELSE Max(at)
EventsBy(events, ids) == {EventOf(events, id) : id \in ids} \ {0}

\* Mutant: what the last checkpoint retained counts as already removed.
CountedOnce(before, events) == before.accounted

\* previouslyCompactedTaskEventIDs
CountedBefore(before, events) == before.accounted \ EventsBy(events, IdsOf(ToSet(before.retained)))

\* observationsExcept: the projection without the summary itself.
Retained(p) == Keep(p.records, {i \in DOMAIN p.records : p.records[i].kind # "summary"})

\* isToolCallObservation and successfulToolCallCount
Succeeded(o) == o.kind \in {"work", "look", "file"}
Successes(s) == Cardinality({i \in DOMAIN s : Succeeded(s[i])})

\* summaryAccountingForCompactedObservations
Accounting(sum, before, p, removed, events) ==
  LET retained == Retained(p)
      fresh(o) == EventOf(events, o.id) = 0 \/ EventOf(events, o.id) \notin CountedBefore(before, events)
      kept == IdsOf({o \in ToSet(retained) : IsTool(o)})
      left == {o \in removed : Succeeded(o) /\ fresh(o) /\ o.id \notin kept}
  IN  [sum EXCEPT
         !.retained = retained,
         !.tools = before.tools + Cardinality(left),
         !.accounted = before.accounted
                         \cup EventsBy(events, IdsOf(ToSet(retained)) \cup IdsOf(removed))]

-----------------------------------------------------------------------------
Heard == SubSeq(Talk, 1, heard)

\* The turn goes on with this prompt.
Show(p) == shown' = p /\ pc' = "acting"

\* appendEvent(TaskEventAgentContextCompactionFreedNothing)
FreedNothing(key, p) ==
  Show(p) /\ barren' = key /\ UNCHANGED <<summary, judged>>

\* commitSelectedContext: a projection that is no smaller, with or without the
\* pointer to its transcript, is discarded.
Commit(visible, sum, no, pins, key, stored) ==
  LET first == WithSummary(obs, Heard, sum, pins)
      removed == NewlyRemoved(visible.records, sum)
      kept == [sum EXCEPT !.saved = Saved(summary.saved, removed, stored)]
      last == WithSummary(obs, Heard, kept, pins)
  IN  IF PromptSize(first) >= PromptSize(visible) \/ PromptSize(last) >= PromptSize(visible)
      THEN FreedNothing(key, visible)
      ELSE /\ summary' = Accounting(kept, summary, last, removed, ledger)
           /\ judged' = judged \cup EventsOf({o \in ToSet(visible.records) : o.id \in no})
           /\ Show(last) /\ UNCHANGED barren

\* generateTaskContextSummary and selectContextForAction
Compact(visible, plan, pins, key) ==
  \/ FreedNothing(key, visible)
  \/ \E no \in SUBSET Candidates(plan), failed \in BOOLEAN,
        stored \in (IF SavesMayFail THEN BOOLEAN ELSE {TRUE}) :
       /\ failed => no = {}
       /\ ~decides => failed
       /\ LET kept == Keeping(summary, plan)
              picked == [kept EXCEPT !.omitted = @ \cup Omitted(plan, no, failed, visible.records)]
              fits == PromptSize(WithSummary(obs, Heard, picked, pins)) <= Budget
          IN  Commit(visible, IF fits THEN picked ELSE Replacing(picked, visible, plan), no, pins, key, stored)

\* promptStateForAction
Prompt ==
  /\ pc = "thinking"
  /\ LET pins == Pinned(obs, cited)
         whole == WithSummary(obs, Heard, summary, pins)
         visible == IF PromptSize(whole) > Budget /\ ~decides THEN Shorter(whole, pins) ELSE whole
         plan == Compactable(visible.records, summary, pins)
         wanted == plan # <<>> \/ Len(visible.messages) > 1
     IN  IF PromptSize(visible) <= Budget \/ ~wanted \/ visible = barren
         THEN Show(visible) /\ UNCHANGED <<summary, barren, judged>>
         ELSE Compact(visible, plan, pins, visible)
  /\ UNCHANGED <<obs, ledger, cited, heard, decides, resumes, intact>>

\* earlierObservationWithIdenticalOutput
RepeatOf(s, text) ==
  LET same == {i \in DOMAIN s : s[i].text = text} IN IF same = {} THEN 0 ELSE s[Min(same)].id

\* saveToolObservation, then recordToolObservation: the event is written before
\* the record learns what it repeats.
Call ==
  /\ pc = "acting" /\ Len(ledger) < MaxRecords
  /\ \E kind \in CallKinds, talks \in BOOLEAN, text \in ({o.text : o \in ToSet(obs)} \ {0}) \cup {Len(ledger) + 1} :
       LET o == Record(NextID(obs), Len(ledger) + 1, kind, talks,
                       IF kind = "work" THEN text ELSE 0, 0)
       IN  /\ kind # "work" => text = Len(ledger) + 1 /\ ~talks
           /\ ledger' = Append(ledger, o)
           /\ obs' = Append(obs, [o EXCEPT !.repeats = IF kind = "work" THEN RepeatOf(obs, o.text) ELSE 0])
  /\ intact' = (intact /\ NextID(obs) \notin NumbersTaken)
  /\ pc' = "thinking" /\ shown' = Nothing
  /\ UNCHANGED <<cited, heard, summary, barren, decides, judged, resumes>>

\* A record no tool wrote: a correction, a refusal, a reminder.  It is in no
\* result event.
Say ==
  /\ pc = "acting"
  /\ Cardinality({i \in DOMAIN obs : obs[i].kind = "said"}) < MaxSaid
  /\ obs' = Append(obs, Record(NextID(obs), 0, "said", FALSE, 0, 0))
  /\ intact' = (intact /\ NextID(obs) \notin NumbersTaken)
  /\ pc' = "thinking" /\ shown' = Nothing
  /\ UNCHANGED <<ledger, cited, heard, summary, barren, decides, judged, resumes>>

\* appendEvent(TaskEventAgentAction): an action cites a record it read; see
\* completionEvidenceObservationIDs.
Cite ==
  /\ pc = "acting" /\ Cardinality(cited) < MaxCites
  /\ \E i \in DOMAIN shown.records :
       /\ IsTool(shown.records[i]) /\ shown.records[i].id \notin cited
       /\ cited' = cited \cup {shown.records[i].id}
  /\ pc' = "thinking" /\ shown' = Nothing
  /\ UNCHANGED <<obs, ledger, heard, summary, barren, decides, judged, resumes, intact>>

-----------------------------------------------------------------------------
\* Mutant: a checkpoint is read as all there is.
CheckpointAlone(sum, events) == IF sum.is THEN sum.retained ELSE events

\* observationsFromCheckpointAndTaskEvents
FromLedger(sum, events) ==
  sum.retained \o Keep(events, {i \in DOMAIN events : events[i].event \notin sum.accounted})

\* restoreAgentTaskState: a runtime restart drops the failures it would owe.
Restored(how) ==
  LET all == FromLedger(summary, ledger)
  IN  IF how = "restarted" /\ OwedAt(all) # 0
      THEN Keep(all, {i \in DOMAIN all : all[i].kind # "fail"})
      ELSE all

\* cleanRestartedAgentTaskState: a stalled task that was steered starts over
\* from its deliveries and a note.
StartedOver ==
  LET durable == Keep(ledger, {i \in DOMAIN ledger : ledger[i].kind = "file"})
  IN  Append(durable, Record(Len(durable) + 1, 0, "said", FALSE, 0, 0))

\* agentTaskStateForTurn: the next turn of the task, with one more message when
\* the requester sent one.
Resume ==
  /\ pc = "acting" /\ resumes < MaxResumes /\ resumes' = resumes + 1
  /\ \E how \in Resumes :
       /\ obs' = IF how = "steered" THEN StartedOver ELSE Restored(how)
       /\ intact' = (intact /\ how # "steered")
  /\ heard' \in {heard, IF heard < Len(Talk) THEN heard + 1 ELSE heard}
  /\ pc' = "thinking" /\ shown' = Nothing
  /\ UNCHANGED <<ledger, cited, summary, barren, decides, judged>>

Next == Prompt \/ Call \/ Say \/ Cite \/ Resume

Spec == Init /\ [][Next]_vars

-----------------------------------------------------------------------------
\* The tool records a prompt carries, and those with nothing cut out of them.
Carried(p) == {o \in ToSet(p.records) : IsTool(o)}
Whole(p) == {o \in Carried(p) : ~o.cut}

\* Types: what is in memory comes of the ledger, the checkpoint accounts only for
\* what the ledger holds, and a task that was never resumed is intact.
TypeOK ==
  /\ \A i \in DOMAIN obs : obs[i].kind \in Kinds /\ obs[i].event \in 0 .. Len(ledger)
  /\ summary.accounted \subseteq DOMAIN ledger
  /\ heard \in 1 .. Len(Talk) /\ pc \in {"thinking", "acting"}
  /\ resumes = 0 => intact

\* The recent records and the last message are in the prompt whatever was compacted,
\* and the newest, the effects, the deliveries, the failure still owed and all since it
\* are in it whole (DOCS.md: stay protected).
RecentIsShown ==
  pc = "acting" =>
    /\ \A i \in DOMAIN obs :
         IsTool(obs[i]) =>
           /\ i > Len(obs) - Recent => obs[i].event \in EventsOf(Carried(shown))
           /\ i = Len(obs) \/ obs[i].id \in Pinned(obs, cited) => obs[i].event \in EventsOf(Whole(shown))
    /\ shown.messages[Len(shown.messages)] = Talk[heard]

\* A call of the ledger the model gave as evidence is read whole from then on, over
\* compactions and resumes; only a failure may be dropped, by a restart.
EvidenceIsShown ==
  pc = "acting" =>
    \A e \in DOMAIN ledger :
      ledger[e].id \in cited /\ ~(ledger[e].kind = "fail" /\ resumes > 0) => e \in EventsOf(Whole(shown))

\* A call of the ledger the model no longer reads is one a decision called unrelated,
\* so without a decision model it reads them all; only a failure may be dropped, by a
\* restart.  A call has something cut out of it only where there is no decision model.
HiddenWasJudged ==
  pc = "acting" =>
    /\ \A e \in DOMAIN ledger :
         e \notin EventsOf(Carried(shown)) => e \in judged \/ (ledger[e].kind = "fail" /\ resumes > 0)
    /\ ~decides => judged = {}
    /\ decides => Carried(shown) = Whole(shown)

\* What the model no longer reads is what it may go without: old, neither evidence nor
\* otherwise pinned, and judged unrelated (selectContextForAction), while the task is
\* intact.
HiddenIsSettled == TypeOK /\ (intact => RecentIsShown /\ EvidenceIsShown /\ HiddenWasJudged)

\* A task picked up from its ledger has spent what it had spent: the calls the
\* checkpoint counts and the calls it restores are the calls that were made
\* (summaryAccountingForCompactedObservations), while the task is intact.
CountsSurvive ==
  intact => summary.tools + Successes(FromLedger(summary, ledger)) = Successes(ledger)

\* What the model would read of these records with the newest summary.
Reads(s) == Carried(WithSummary(s, Heard, summary, Pinned(s, cited)))

\* A task picked up from its ledger reads the same tool records: what the model
\* reads now is what it would read after a pause, but for the failures that a
\* restart took out of its memory.
RestartShowsTheSame ==
  LET again == FromLedger(summary, ledger)
  IN  /\ EventsOf(Reads(obs)) \subseteq EventsOf(Reads(again))
      /\ resumes = 0 => EventsOf(Reads(again)) = EventsOf(Reads(obs))

\* A record the summary replaced can be read back where the summary says it is,
\* unless the host's store failed.
SavedIsWhole ==
  SavesMayFail \/
    \A i \in DOMAIN obs : IsTool(obs[i]) /\ obs[i].event \notin EventsOf(Reads(obs))
                            => <<obs[i].id, obs[i].event>> \in summary.saved

\* An intact task that is picked up again has lost nothing of what it could read
\* before, in its prompt or where its summary sends it to look (restoreAgentTaskState).
RestartLosesNothing == intact => RestartShowsTheSame /\ SavedIsWhole
=============================================================================
