--------------------------- MODULE CompletionGate ---------------------------
(***************************************************************************)
(* What stands between a model that says it is finished and a completed    *)
(* run: the gate of loop/completion_gate.go over the facts of the turn, the*)
(* check of the requested changes (loop/expected_changes.go,               *)
(* expected_changes_check.go, completion_changes.go and                    *)
(* requested_field_check.go), the menu of terminal actions that follows    *)
(* refusals (loop/agent_turn_state.go), the rewrite of the accepted reply  *)
(* (finish_reply_rewrite.go) and the completion or the closing report of a *)
(* turn that is stopped (completion_at_stop.go, limit_stop.go,             *)
(* turn_results.go, failure_reply.go).                                     *)
(*                                                                         *)
(* The model's words are left out but for what they claim; the answers of  *)
(* the decision model are any answers. A call and its outcome stand for    *)
(* its input, result and effects: two calls that are equal here leave      *)
(* equal entries in the judged state. Which version of which file a reply  *)
(* carries is ReplyDelivery's subject. Left out: the facts of a delivered  *)
(* file that its writer recorded (holds); the quality review, which only   *)
(* writes an event; the wording of reports. Any success that does work     *)
(* settles a failed call here; which one does is Recovery's subject.       *)
(***************************************************************************)
EXTENDS Naturals, Sequences, FiniteSets, SequencesExt, Kept

CONSTANTS
  Change,         \* changes a request may ask for
  Lists,          \* the sets of them it may ask for
  Field,          \* fields of records
  FieldOf,        \* the field a change sets, of the calls that record one
  Work,           \* calls that can change something
  Look,           \* calls that only read
  Recording,      \* calls of Work whose result names the records it changed
  Writes,         \* the fields a call of Recording writes
  Flaw,           \* what can be wrong with a finish itself, "none" among it
  Deliver,        \* the delivery of files, a call of Work
  WithdrawAfter,  \* refusalsThatWithdrawFinish
  OfferAfter,     \* refusalsThatOfferTheExit
  UnrecordedKept, \* unrecordedCallLimit
  LookupsKept,    \* changeLookupLimit
  NoVerdict,
  MaxObservation, \* bound: the observations of a turn
  MaxAtStop       \* bound: the observations of a turn that is stopped

ASSUME CallAssumption ==
  /\ Recording \subseteq Work /\ Deliver \in Recording /\ Work \cap Look = {}
  /\ Lists \subseteq SUBSET Change /\ {} \in Lists
  /\ FieldOf \in [Change -> Field] /\ Writes \in [Recording -> SUBSET Field]
ASSUME LimitAssumption ==
  {WithdrawAfter, OfferAfter, UnrecordedKept, LookupsKept, MaxObservation, MaxAtStop} \subseteq Nat

AnyCall == Work \cup Look

\* Why a finish was refused: the evidence kinds, and the two claims that have none.
RefusalKinds == {"reference", "attachment", "url", "invalid", "changes"}
Claims == {"unclaimed", "unfinished"}
ASSUME FlawAssumption == Flaw \subseteq {"none", "reference", "url", "invalid"} \cup Claims

VARIABLES
  seen,      \* agentTaskState.Observations
  list,      \* pendingExpectedChanges: how its goroutine stands, and the changes it found
  memo,      \* pendingExpectedChanges.latestCheck
  declared,  \* agentTaskState.CompletionIntentToolName is set
  ended,     \* the contexts that have ended
  cancelled, \* the run was cancelled in the store
  stage,     \* where the turn is
  asking,    \* what the check in progress is for: a finish, a stop or a report
  stop,      \* why the turn stops
  verdict,   \* the check the gate holds, or NoVerdict
  outcome    \* how the turn ended: the run's status, and what its reply says and tells of the changes

gateVars == <<seen, list, memo, declared, ended, cancelled, stage, asking, stop, verdict, outcome>>

-----------------------------------------------------------------------------
(* Observations.                                                           *)

Made(c, ok) == [kind |-> "call", call |-> c, ok |-> ok]
Note(kind) == [kind |-> kind]
Refusal(kind, v) == [kind |-> kind, verdict |-> v]

IsCall(o) == o.kind = "call"
IsSuccess(o) == IsCall(o) /\ o.ok
IsRefusal(o) == o.kind \in RefusalKinds

Refusals(s) == {i \in DOMAIN s : IsRefusal(s[i])}
LastSuccess(s) == SelectLastInSeq(s, IsSuccess)

\* undeliveredFailedDelivery: the latest delivery failed.
Undelivered(s) ==
  \E i \in DOMAIN s :
    /\ IsCall(s[i]) /\ s[i].call = Deliver /\ ~s[i].ok
    /\ \A j \in DOMAIN s : j > i => ~(IsCall(s[j]) /\ s[j].call = Deliver)

\* activeFailureDebt: a failure no success has settled since; one that only reads does not.
Debt(s) ==
  \E i \in DOMAIN s :
    /\ IsCall(s[i]) /\ ~s[i].ok
    /\ \A j \in DOMAIN s : j > i => ~(IsSuccess(s[j]) /\ s[j].call \in Work)

-----------------------------------------------------------------------------
(* The judged state: judgedStateDigest of changeCheckState.                *)

\* latestDistinctSideEffectCalls: of equal calls the last.
Distinct(s) ==
  Keep(s, {i \in DOMAIN s : /\ IsCall(s[i]) /\ s[i].call \in Work
                            /\ \A j \in DOMAIN s : j > i => s[j] # s[i]})

Recorded(o) == o.ok /\ o.call \in Recording

\* withRecentUnrecordedCalls: every call that recorded a change, and the last of the others.
Windowed(calls) ==
  LET From(i) == {j \in i .. Len(calls) : ~Recorded(calls[j])}
  IN  Keep(calls, {i \in DOMAIN calls :
                     Recorded(calls[i]) \/ Cardinality(From(i)) <= UnrecordedKept})

\* changeLookups: the last of the calls that read.
Lookups(s) ==
  LET found == {i \in DOMAIN s : IsSuccess(s[i]) /\ s[i].call \in Look}
  IN  Keep(s, {i \in found : Cardinality({j \in found : j >= i}) <= LookupsKept})

Judged(s) == [effects |-> Windowed(Distinct(s)), lookups |-> Lookups(s)]

-----------------------------------------------------------------------------
(* The check of the requested changes: checkExpectedChanges.               *)

\* Mutant: a refusal over the same state is not found again.
Unrefused(s, judged) == {}

\* refusalOverState
RefusedOver(s, judged) ==
  {i \in Refusals(s) : s[i].kind = "changes" /\ s[i].verdict.judged = judged}

Verdict(unmet, awaits, repeats, judged) ==
  [unmet |-> unmet, awaits |-> awaits, repeats |-> repeats, judged |-> judged]

\* isFieldWrittenByARecordChange
IsWritten(s, f) == \E i \in DOMAIN s : IsSuccess(s[i]) /\ s[i].call \in Recording /\ f \in Writes[s[i].call]

\* requestedFieldQuestions are asked only of work that changed a record.
AnyRecord(s) == \E i \in DOMAIN s : IsSuccess(s[i]) /\ s[i].call \in Recording

\* What Decide can find carried out: the changes it says are done, but of those that it says
\* name a field only the ones whose field was written or, it says, held the value already.
CarriedOut(s, changes) ==
  LET Unwritten(S) == {c \in S : ~IsWritten(s, FieldOf[c])}
  IN  {carried \in SUBSET changes :
         \E named \in SUBSET changes : \E done \in SUBSET changes, already \in SUBSET Unwritten(named) :
           /\ named \subseteq done
           /\ AnyRecord(s) \/ named = {}
           /\ carried = (done \ Unwritten(named)) \cup already}

\* Of the changes left it asks who is awaited; with no answer to that, nobody is.
Checks(s, changes) ==
  UNION {{Verdict(unmet, awaits, FALSE, Judged(s)) : awaits \in SUBSET unmet} :
           unmet \in {changes \ carried : carried \in CarriedOut(s, changes)}}

\* What the check comes to; a refusal over the same state is repeated without a call.
Decided(s, changes) ==
  LET refused == RefusedOver(s, Judged(s))
  IN  IF refused = {} THEN Checks(s, changes)
      ELSE LET first == s[CHOOSE i \in refused : \A j \in refused : i <= j]
           IN  {[first.verdict EXCEPT !.repeats = TRUE]}

\* evaluateExpectedChanges: whether the check lets the finish through.
Satisfied(v) == v # NoVerdict => v.unmet = {} \/ v.repeats \/ v.awaits = v.unmet

Confirmed(v) == v # NoVerdict /\ v.unmet = {}
LeavesUnmet(v) == v # NoVerdict /\ v.unmet # {}

-----------------------------------------------------------------------------
(* The terminal actions on the menu: shouldExposeFinishAction and          *)
(* shouldExposeFailAction.                                                 *)

RefusedEnough == Cardinality(Refusals(seen)) >= OfferAfter

RefusedWithoutEvidence ==
  /\ seen # <<>> /\ IsRefusal(Last(seen))
  /\ Last(seen).kind \in {"attachment", "invalid"} \/ ~\E i \in DOMAIN seen : IsSuccess(seen[i])

KeepsBeingRefused ==
  Cardinality({i \in Refusals(seen) : i > LastSuccess(seen)}) >= WithdrawAfter

FinishOffered == RefusedEnough \/ ~(RefusedWithoutEvidence \/ KeepsBeingRefused)

\* wrappingUp: the turn has used most of a limit.
FailOffered(wrappingUp) ==
  \/ RefusedEnough
  \/ \E i \in DOMAIN seen : seen[i].kind = "unclaimed"
  \/ Debt(seen)
  \/ wrappingUp

-----------------------------------------------------------------------------
(* The work between finishes.                                              *)

Room(n) == Len(seen) + n <= MaxObservation

At(p) == stage = p

\* A resumed turn begins with the calls of earlier ones, as this one is after its first calls.
GateInit ==
  /\ seen = <<>>
  /\ list = [state |-> "asking", changes |-> {}]
  /\ memo = [count |-> 0, verdict |-> NoVerdict]
  /\ declared = FALSE /\ ended = {} /\ cancelled = FALSE
  /\ stage = "model" /\ asking = "finish" /\ stop = "none"
  /\ verdict = NoVerdict
  /\ outcome = [status |-> "running", tells |-> {}, best |-> FALSE, says |-> "nothing"]

\* handleToolCallAction and updateCompletionIntent: a call may claim the goal is reached. A
\* lookup that failed leaves nothing the gate reads but a debt, as any failed call does.
CallTool(c, ok, claims) ==
  /\ At("model") /\ Room(1)
  /\ seen' = Append(seen, Made(c, ok))
  /\ claims => ok
  /\ c \in Look => ok
  /\ declared' = claims
  /\ UNCHANGED <<list, memo, ended, cancelled, stage, asking, stop, verdict, outcome>>

\* A steering message, a refused call, a reply: an observation that is no call.
Remark ==
  /\ At("model") /\ Room(1)
  /\ seen' = Append(seen, Note("remark"))
  /\ UNCHANGED <<list, memo, declared, ended, cancelled, stage, asking, stop, verdict, outcome>>

\* The goroutine of beginExpectedChanges ends: the request asks for these changes, or the
\* model could not be asked (its context, the task's, is not among those modelled). Only who
\* waits for the list can tell when it came.
DefineChanges(changes, state) ==
  /\ At("list") /\ list.state = "asking"
  /\ state = "unknown" => changes = {}
  /\ list' = [state |-> state, changes |-> changes]
  /\ UNCHANGED <<seen, memo, declared, ended, cancelled, stage, asking, stop, verdict, outcome>>

Contexts == {"work", "closing", "caller"}

\* The effort's time, or the time for closing, runs out; or the caller, on whose context a
\* report is written, goes. Time may be granted again, but the step in hand has lost its own.
TimeUp(c) ==
  /\ stage # "ended" /\ c \notin ended
  /\ c = "closing" => "work" \in ended /\ stop = "elapsed"
  /\ c = "caller" => asking = "report" \/ (stage = "undone" /\ stop = "elapsed")
  /\ ended' = ended \cup {c}
  /\ UNCHANGED <<seen, list, memo, declared, cancelled, stage, asking, stop, verdict, outcome>>

\* The store cancels the run. The turn looks at it where it is about to answer or complete,
\* so a cancellation that came earlier is the same as one that comes there.
Cancel ==
  /\ At("answer") \/ (At("checked") /\ asking = "stop")
  /\ ~cancelled
  /\ cancelled' = TRUE
  /\ UNCHANGED <<seen, list, memo, declared, ended, stage, asking, stop, verdict, outcome>>

-----------------------------------------------------------------------------
(* A finish.                                                               *)

\* validateCompletionFacts, in its order: the claim, the citations, the delivery, the link
\* the reply leaves out and the files it would carry.
FactRefusal(flaw, s) ==
  IF flaw \in Claims \cup {"reference"} THEN flaw
  ELSE IF Undelivered(s) THEN "attachment"
  ELSE flaw

\* The flaws a finish over s can have: a link was observed, or a file delivered, before.
Possible(flaw, s) ==
  /\ flaw = "url" => \E i \in DOMAIN s : IsSuccess(s[i])
  /\ flaw = "invalid" => \E i \in DOMAIN s : IsSuccess(s[i]) /\ s[i].call = Deliver

\* deliverFinishAttachments fails, or delivers, or has nothing to deliver.
Deliveries == {<<>>, <<Made(Deliver, TRUE)>>, <<Made(Deliver, FALSE)>>}

\* A finish: its files are delivered, its facts checked; with the time over, the changes
\* are not.
Finish(delivery, flaw) ==
  /\ At("model") /\ Room(Len(delivery) + 1) /\ FinishOffered
  /\ Possible(flaw, seen \o delivery)
  /\ LET s == seen \o delivery
         refusal == FactRefusal(flaw, s)
     IN  IF delivery # <<>> /\ ~delivery[1].ok
           THEN seen' = s /\ UNCHANGED <<stage, asking, verdict>>
         ELSE IF refusal # "none"
           THEN seen' = Append(s, Refusal(refusal, NoVerdict)) /\ UNCHANGED <<stage, asking, verdict>>
         ELSE /\ seen' = s /\ asking' = "finish" /\ verdict' = NoVerdict
              /\ stage' = IF "work" \in ended THEN "answer" ELSE "list"
  /\ UNCHANGED <<list, memo, declared, ended, cancelled, stop, outcome>>

\* The context the check runs on.
CheckContext ==
  IF stop = "elapsed" THEN "closing" ELSE IF asking = "report" THEN "caller" ELSE "work"
ContextEnded == CheckContext \in ended \/ (CheckContext = "closing" /\ "caller" \in ended)

\* Where the check leaves the turn when it could not be made.
Unchecked ==
  /\ verdict' = NoVerdict
  /\ stage' = "checked"

\* Mutant: the wait for the list does not heed its context.
WaitForever ==
  /\ At("list") /\ list.state # "asking"
  /\ (IF list.state = "unknown" \/ list.changes = {} THEN Unchecked ELSE stage' = "judge" /\ UNCHANGED verdict)
  /\ UNCHANGED <<seen, list, memo, declared, ended, cancelled, asking, stop, outcome>>

\* expectedChangesFor: the select takes the list or the end of the context, and either when
\* both are there.
AwaitList ==
  /\ At("list")
  /\ \/ ContextEnded /\ Unchecked
     \/ /\ list.state # "asking"
        /\ IF list.state = "unknown" \/ list.changes = {} THEN Unchecked
           ELSE stage' = "judge" /\ UNCHANGED verdict
  /\ UNCHANGED <<seen, list, memo, declared, ended, cancelled, asking, stop, outcome>>

\* Mutant: the remembered check is taken whatever was done since.
EverKnown == memo.verdict # NoVerdict

\* latestChangeCheck: only over as many observations.
IsKnown == memo.verdict # NoVerdict /\ memo.count = Len(seen)

\* checkRequestedChanges: the remembered check, a new one, or none when Decide fails.
Judge ==
  /\ At("judge") /\ stage' = "checked"
  /\ IF IsKnown THEN verdict' = memo.verdict /\ UNCHANGED memo
     ELSE \/ /\ verdict' \in Decided(seen, list.changes)
             /\ memo' = [count |-> Len(seen), verdict |-> verdict']
          \/ RefusedOver(seen, Judged(seen)) = {} /\ verdict' = NoVerdict /\ UNCHANGED memo
  /\ UNCHANGED <<seen, list, declared, ended, cancelled, asking, stop, outcome>>

\* An unmet check refuses the finish, unless time is up and there is a reply to send:
\* completeTaskRunBestEffort.
Settle ==
  /\ At("checked") /\ asking = "finish"
  /\ \/ Satisfied(verdict) /\ stage' = "answer" /\ UNCHANGED <<seen, verdict, outcome>>
     \/ /\ ~Satisfied(verdict) /\ "work" \in ended
        /\ stage' = "ended"
        /\ outcome' = [status |-> IF cancelled THEN "cancelled" ELSE "completed", tells |-> {}, best |-> TRUE,
                       says |-> IF cancelled THEN "nothing" ELSE "written"]
        /\ UNCHANGED <<seen, verdict>>
     \/ /\ ~Satisfied(verdict) /\ Room(1)
        /\ seen' = Append(seen, Refusal("changes", verdict))
        /\ stage' = "model" /\ verdict' = NoVerdict /\ UNCHANGED outcome
  /\ UNCHANGED <<list, memo, declared, ended, cancelled, asking, stop>>

\* Mutant: the reply of an accepted finish is sent as it is.
ToldAsWritten == {}

\* replyForFinish rewrites the reply to say what the check left unmet.
Told == IF LeavesUnmet(verdict) THEN verdict.unmet ELSE {}

\* The accepted finish completes the run, unless its reply has no words, or the run was
\* cancelled, or the elapsed limit is reached and no larger level is granted.
Answer ==
  /\ At("answer")
  /\ \/ /\ stage' = "ended"
        /\ outcome' = [status |-> IF cancelled THEN "cancelled" ELSE "completed",
                       tells |-> IF cancelled THEN {} ELSE Told, best |-> FALSE,
                       says |-> IF cancelled THEN "nothing" ELSE "written"]
        /\ UNCHANGED stop
     \/ /\ ~cancelled /\ "work" \in ended
        /\ stage' = "stopping" /\ stop' = "elapsed" /\ UNCHANGED outcome
     \/ stage' = "stopping" /\ stop' = "fail" /\ UNCHANGED outcome
  /\ UNCHANGED <<seen, list, memo, declared, ended, cancelled, asking, verdict>>

-----------------------------------------------------------------------------
(* A turn that stops.                                                      *)

\* A fail the menu offers or a model call that failed, a limit, or the end of the effort.
Stop(reason) ==
  /\ At("model") /\ Len(seen) <= MaxAtStop
  /\ reason = "elapsed" => "work" \in ended
  /\ stage' = "stopping" /\ stop' = reason
  /\ UNCHANGED <<seen, list, memo, declared, ended, cancelled, asking, verdict, outcome>>

\* workIsDoneAtStop, before its check; the files of the turn may have gone bad.
BeginStop ==
  /\ At("stopping")
  /\ asking' = "stop" /\ verdict' = NoVerdict
  /\ LET context == IF stop = "elapsed" THEN "closing" ELSE "work"
         isUndone == context \in ended \/ Debt(seen) \/ Undelivered(seen)
         hasFiles == \E i \in DOMAIN seen : IsSuccess(seen[i]) /\ seen[i].call \in Work
     IN  \/ ~isUndone /\ stage' = "list"
         \/ (isUndone \/ hasFiles) /\ stage' = "undone"
  /\ UNCHANGED <<seen, list, memo, declared, ended, cancelled, stop, outcome>>

\* workIsDoneAtStop, after its check.
DoneAtStop == Satisfied(verdict) /\ ~LeavesUnmet(verdict) /\ (Confirmed(verdict) \/ declared)

\* completeAtStop: a done run is completed, when the store still lets it.
FinishStop ==
  /\ At("checked") /\ asking = "stop"
  /\ IF DoneAtStop /\ ~cancelled
       THEN stage' = "ended" /\ outcome' = [status |-> "completed", tells |-> {}, best |-> FALSE, says |-> "written"]
       ELSE stage' = "undone" /\ UNCHANGED outcome
  /\ UNCHANGED <<seen, list, memo, declared, ended, cancelled, asking, stop, verdict>>

\* finalizeIfSatisfiedOrFail: a fail whose time is over becomes an elapsed stop. Otherwise
\* the closing report asks what was carried out: requestedChangesAtStop.
CloseUndone ==
  /\ At("undone")
  /\ IF stop = "fail" /\ "work" \in ended
       THEN stage' = "stopping" /\ stop' = "elapsed" /\ UNCHANGED asking
       ELSE stage' = "list" /\ asking' = "report" /\ UNCHANGED stop
  /\ UNCHANGED <<seen, list, memo, declared, ended, cancelled, verdict, outcome>>

\* stopForLimit, blockAtElapsedLimit and failTurnWithContext: a report that could be written
\* lists each change and whether it is carried out; the fixed text that replaces one that
\* could not says nothing of the changes.
Close(says) ==
  /\ stage' = "ended"
  /\ outcome' = [status |-> IF cancelled THEN "cancelled" ELSE IF stop = "fail" THEN "failed" ELSE "blocked",
                 tells |-> IF says = "written" THEN Told ELSE {}, best |-> FALSE, says |-> says]
  /\ UNCHANGED <<seen, list, memo, declared, ended, cancelled, asking, stop, verdict>>

\* The elapsed stop of a caller who is gone is silent.
CallerGone == stop = "elapsed" /\ "caller" \in ended

Report ==
  /\ At("checked") /\ asking = "report"
  /\ \E says \in IF CallerGone THEN {"nothing"} ELSE {"written", "raw"} : Close(says)

\* generateElapsedClosingReply: with no model to write with it asks for no check either.
ReportUnasked ==
  /\ At("undone") /\ stop = "elapsed"
  /\ Close(IF CallerGone THEN "nothing" ELSE "raw")

GateNext ==
  \/ \E c \in AnyCall, ok \in BOOLEAN, claims \in BOOLEAN : CallTool(c, ok, claims)
  \/ Remark
  \/ \E changes \in Lists, state \in {"known", "unknown"} : DefineChanges(changes, state)
  \/ \E c \in Contexts : TimeUp(c)
  \/ Cancel
  \/ \E delivery \in Deliveries, flaw \in Flaw : Finish(delivery, flaw)
  \/ AwaitList \/ Judge \/ Settle \/ Answer
  \/ \E reason \in {"fail", "limit", "elapsed"} : Stop(reason)
  \/ BeginStop \/ FinishStop \/ CloseUndone \/ Report \/ ReportUnasked

\* The steps of the check run on by themselves, and the time of the effort and of its
\* closing runs out; nothing bounds the caller.
Fairness ==
  /\ \A c \in {"work", "closing"} : WF_gateVars(TimeUp(c))
  /\ WF_gateVars(AwaitList) /\ WF_gateVars(Judge) /\ WF_gateVars(Settle)

GateSpec == GateInit /\ [][GateNext]_gateVars /\ Fairness

-----------------------------------------------------------------------------
(* Properties.                                                             *)

Outcome == [status : {"running", "completed", "cancelled", "blocked", "failed"},
            tells : SUBSET Change, best : BOOLEAN, says : {"nothing", "written", "raw"}]

\* The state of the gate has its type, and a check it remembers was made of no more than
\* has been observed.
GateTypeOK ==
  /\ list \in [state : {"asking", "known", "unknown"}, changes : SUBSET Change]
  /\ memo.count \in 0 .. Len(seen)
  /\ declared \in BOOLEAN /\ cancelled \in BOOLEAN
  /\ ended \in SUBSET Contexts
  /\ stage \in {"model", "list", "judge", "checked", "answer", "stopping", "undone", "ended"}
  /\ asking \in {"finish", "stop", "report"}
  /\ stop \in {"none", "fail", "limit", "elapsed"}
  /\ outcome \in Outcome

\* refusalOverState: a turn is refused once over what it did. A finish that is refused and
\* comes again with nothing done is let through, so that the gate cannot hold a turn for
\* ever; no two refusals of a turn judged the same state.
RefusedOnce ==
  \A i, j \in Refusals(seen) :
    seen[i].kind = "changes" /\ seen[j].kind = "changes" /\ seen[i].verdict.judged = seen[j].verdict.judged
      => i = j

\* latestChangeCheck, rememberChangeCheck: what a turn that has ended says of the changes
\* was judged of the calls as they stand at its end, though the check may have been made
\* for a finish and be read again at a stop and in a report.
VerdictIsAboutNow ==
  stage \in {"checked", "answer", "undone", "ended"} /\ verdict # NoVerdict => verdict.judged = Judged(seen)

\* replyForFinish and the closing report: a run that is completed tells every change its last
\* check left unmet, but for one whose time ended first, and at a stop it is completed only
\* when nothing is unmet; and a report of a failed or blocked run that was written tells them
\* too. The fixed texts that stand in for a report tell no change, so they are no part of it.
UnmetIsTold ==
  LeavesUnmet(verdict) =>
    /\ outcome.status = "completed" => outcome.best \/ outcome.tells = verdict.unmet
    /\ outcome.status \in {"blocked", "failed"} /\ outcome.says = "written" => outcome.tells = verdict.unmet

\* withRecentUnrecordedCalls: however long the turn, every call that recorded a change is in
\* the state a finish is judged by, so that work done early is not asked for again.
RecordsAreJudged ==
  LET effects == Windowed(Distinct(seen))
  IN  \A i \in DOMAIN seen : IsCall(seen[i]) /\ Recorded(seen[i]) => Contains(effects, seen[i])

\* expectedChangesFor: a finish or a stop on the effort's time does not wait for the list of
\* changes for ever, though the model that writes the list may never answer. A report of a
\* failure waits on the caller's context, which has no limit of its own.
TheWaitEnds == At("list") /\ CheckContext # "caller" ~> ~At("list")

\* The gate is in its type, and what a turn is judged by is whole and current: the records are all in the state a check
\* reads, and the check is the one of that state (latestChangeCheck, changeCheckState).
VerdictHolds == GateTypeOK /\ VerdictIsAboutNow /\ RecordsAreJudged
=============================================================================
