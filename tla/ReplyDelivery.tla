--------------------------- MODULE ReplyDelivery ---------------------------
(***************************************************************************)
(* What of a turn's words and files reaches the requester: mid-task        *)
(* messages (loop/checkpoint_message.go), replies with their attachments   *)
(* and their receipts (reply_action.go), the files a final reply carries   *)
(* after those that could have changed are delivered again                 *)
(* (finish_redelivery.go, completion_gate.go, validity_state.go), the files*)
(* of a turn that is stopped (failure_report_build.go), and what a resumed *)
(* turn still knows of them (agent_turn_state.go).                         *)
(*                                                                         *)
(* A file has a version and a shape on disk; an attachment is the version  *)
(* and shape its delivery checked. Whether the work is done is judged by   *)
(* CompletionGate: here the verdict is any. Left out: a delivery the host  *)
(* holds for an approval; the clean restart of a stalled turn; compaction; *)
(* evidence that cites one file of a delivery; the wording of receipts.    *)
(***************************************************************************)
EXTENDS Naturals, Sequences, FiniteSets, SequencesExt

CONSTANTS
  File,           \* paths of the workspace
  Inline,         \* the files whose attachment carries their content
  Unreachable,    \* the files the runtime cannot look at
  Formatted,      \* the files whose suffix promises a format
  Shapes,         \* what a call can leave in place of a file
  Message,        \* mid-task messages, equal when their words are
  Requests,       \* the requests a turn may be for
  MidTaskLimit,   \* mid-task messages a turn may send
  MaxObservation, \* bound: the observations of a turn
  MaxVersion,     \* bound: the versions of a file
  MaxResume       \* bound: the times the task is taken up again

ASSUME FileAssumption ==
  /\ Inline \subseteq File /\ Unreachable \subseteq File /\ Formatted \subseteq File
  /\ Shapes \subseteq {"good", "empty", "garbled", "folder", "missing"} /\ "good" \in Shapes
ASSUME RequestAssumption == Requests \subseteq [channel : BOOLEAN, single : BOOLEAN]
ASSUME LimitAssumption == {MidTaskLimit, MaxObservation, MaxVersion, MaxResume} \subseteq Nat

\* Beside a call, or for a reply: no words.
Quiet == ""

Copy == [v : 0 .. MaxVersion, shape : Shapes]
Given == UNION {[F -> Copy] : F \in SUBSET File}
NoFiles == [f \in {} |-> {}]

VARIABLES
  disk,        \* the files as they are
  obs,         \* agentTaskState.Observations
  attachments, \* agentTaskState.Attachments, by path
  sentPaths,   \* agentTaskState.DeliveredAttachmentPaths
  request,     \* AgentTurnRequest: whether there is a CheckpointSender, whether only a final reply is wanted
  pc,          \* where the turn is
  doc,         \* the final reply in hand: the files it names and the observations it cites
  result,      \* AgentTurnResult: how the turn ended, what it cites and which files it carries
  resumes,     \* the times the task was taken up again
  said,        \* what the requester read mid-task: message, kind, and the turn it was sent in
  posted,      \* how each file came to the requester before the end of the task: "receipted", with a
               \* reply, or "unnoted", with a question or with a reply whose receipt a crash forestalled
  delivered,   \* files a delivery of the task succeeded for
  unseen       \* files changed since their delivery by a child, and by calls a restart forgot

vars == <<disk, obs, attachments, sentPaths, request, pc, doc, result, resumes, said, posted, delivered, unseen>>
told == <<said, posted>>

-----------------------------------------------------------------------------
(* Observations.                                                           *)

Delivery(given, ok) == [kind |-> "delivery", given |-> given, ok |-> ok]
\* The last field is not read by the code.
Own(ok, refused, changes) == [kind |-> "call", ok |-> ok, refused |-> refused, changes |-> changes]
Said(kind, m) == [kind |-> kind, says |-> m]

IsDelivered(o) == o.kind = "delivery" /\ o.ok
Failed(o) == o.kind \in {"delivery", "call"} /\ ~o.ok

\* nextObservationIDForObservations
NextID(s) == Len(s) + 1

Indexes(s, Test(_)) == {i \in DOMAIN s : Test(s[i])}

\* The entries of s at the indexes that are kept, in order.
Keep(s, kept) ==
  LET Rank(i) == Cardinality({j \in kept : j <= i})
  IN  [k \in 1 .. Cardinality(kept) |-> s[CHOOSE i \in kept : Rank(i) = k]]

\* appendUniqueAttachments: the first of a path stays.
Merge(have, more) ==
  [f \in DOMAIN have \cup DOMAIN more |-> IF f \in DOMAIN have THEN have[f] ELSE more[f]]

\* Mutant: only the last delivery counts.
HandedOverLast(s) ==
  LET last == SelectLastInSeq(s, IsDelivered)
  IN  IF last = 0 THEN NoFiles ELSE s[last].given

\* attachmentsFromObservations, deliveredAttachments and filesHandedToDelivery: each path as first delivered.
HandedOver(s) ==
  LET Of(f) == {i \in Indexes(s, IsDelivered) : f \in DOMAIN s[i].given}
      files == {f \in File : Of(f) # {}}
  IN  [f \in files |-> s[CHOOSE i \in Of(f) : \A j \in Of(f) : i <= j].given[f]]

\* latestDeliveryIndex; latestDeliveryOf
LatestDelivery(s, f) == SelectLastInSeq(s, LAMBDA o : IsDelivered(o) /\ f \in DOMAIN o.given)

\* latestDeliveredVersions
LatestVersions(s, files) ==
  [f \in DOMAIN files |-> IF LatestDelivery(s, f) = 0 THEN files[f] ELSE s[LatestDelivery(s, f)].given[f]]

\* undeliveredFailedDelivery: the latest delivery failed.
Undelivered(s) ==
  LET last == SelectLastInSeq(s, LAMBDA o : o.kind = "delivery")
  IN  last # 0 /\ ~s[last].ok

\* activeFailureDebt: a failure with no success of a call that does anything after it.
Debt(s) ==
  \E i \in Indexes(s, Failed) :
    \A j \in DOMAIN s : j > i => ~(s[j].kind \in {"delivery", "call"} /\ s[j].ok)

\* Mutant: what was sent is carried again.
SentAgain(files, sent) == files

\* attachmentsNotYetDelivered
NotYetSent(files, sent) == [f \in DOMAIN files \ sent |-> files[f]]

-----------------------------------------------------------------------------
(* Delivering again what could have changed: finish_redelivery.go.         *)

\* Mutant: a call that failed is taken to have changed nothing.
CouldChangeIfItWorked(o) == o.kind = "call" /\ ~o.refused /\ o.ok

\* callCouldChangeFiles: a call refused before it ran could not; one that failed could.
CouldChange(o) == o.kind = "call" /\ ~o.refused

\* stagedFilesChangeableSinceDelivery
Changeable(s, sent) ==
  {f \in DOMAIN NotYetSent(HandedOver(s), sent) :
     \E i \in Indexes(s, CouldChange) : i > LatestDelivery(s, f)}

-----------------------------------------------------------------------------
(* Whether a file is sound: validity_state.go and artifact_format.go.      *)

\* validateArtifactPath, validateAttachmentPayload, validateArtifactFormats
IsSound(f, shape) == shape = "good" \/ (shape = "garbled" /\ f \notin Formatted)

\* validateAttachments: a copy that travels inline is looked at itself, any other where it lies
\* now, and one that cannot be looked at is not checked.
AreSound(files) ==
  \A f \in DOMAIN files :
    IF f \in Inline THEN IsSound(f, files[f].shape)
    ELSE f \in Unreachable \/ IsSound(f, disk[f].shape)

-----------------------------------------------------------------------------
(* Mid-task messages.                                                      *)

IsMidTask(o) == o.kind \in {"checkpoint", "reply"}

\* checkpointMessageAllowed
Allowed(m, s) ==
  /\ \A i \in Indexes(s, IsMidTask) : s[i].says # m
  /\ Cardinality(Indexes(s, IsMidTask)) < MidTaskLimit

Room(n) == Len(obs) + n <= MaxObservation

\* The requester reads m.
Tell(m, kind) == said' = Append(said, [says |-> m, kind |-> kind, turn |-> resumes])

\* They get these files.
Post(files, way) == posted' = [f \in File |-> posted[f] \cup IF f \in files THEN {way} ELSE {}]

\* sendCheckpointMessage before a call: the observation stands for the message also when no
\* channel took it or the sending failed.
Speak(m, then) ==
  IF m = Quiet \/ request.single \/ ~Allowed(m, obs)
  THEN Room(1) /\ obs' = Append(obs, then) /\ UNCHANGED said
  ELSE /\ Room(2)
       /\ obs' = obs \o <<Said("checkpoint", m), then>>
       /\ \/ UNCHANGED said
          \/ request.channel /\ Tell(m, "checkpoint")

-----------------------------------------------------------------------------

Init ==
  /\ disk = [f \in File |-> [v |-> 0, shape |-> "good"]]
  /\ obs = <<>>
  /\ attachments = NoFiles
  /\ sentPaths = {}
  /\ request \in Requests
  /\ pc = "acting"
  /\ doc = [named |-> {}, cites |-> {}]
  /\ result = [ending |-> "none", cites |-> {}, carried |-> NoFiles]
  /\ resumes = 0
  /\ said = <<>>
  /\ posted = [f \in File |-> {}]
  /\ delivered = {}
  /\ unseen = [child |-> {}, restart |-> {}]

Change(f, shape) ==
  /\ disk[f].v < MaxVersion
  /\ disk' = [disk EXCEPT ![f] = [v |-> @.v + 1, shape |-> shape]]

\* handleToolCallAction: a call with its message. It may change a file, also when it fails; one
\* the policy blocks changes nothing.
Call(m, ok) ==
  /\ pc = "acting"
  /\ \/ \E f \in File, shape \in Shapes : Change(f, shape) /\ Speak(m, Own(ok, FALSE, {f}))
     \/ UNCHANGED disk /\ ~ok /\ Speak(m, Own(FALSE, TRUE, {}))
  /\ UNCHANGED <<attachments, sentPaths, request, pc, doc, result, resumes, posted, delivered, unseen>>

\* runDelegatedTurn: the child's calls are its own, and its observation names no tool. Its files
\* are the parent's attachments, not its deliveries.
Delegate(f, shape, brings) ==
  /\ pc = "acting"
  /\ Change(f, shape)
  /\ attachments' = Merge(attachments, [g \in brings |-> disk'[g]])
  /\ unseen' = [unseen EXCEPT !.child = @ \cup {f}]
  /\ UNCHANGED <<obs, sentPaths, request, pc, doc, result, resumes, told, delivered>>

\* deliverReplyAttachments: file_deliver of these files, recorded whether it succeeds or not.
Deliver(files, ok) ==
  LET given == [f \in files |-> disk[f]]
  IN  /\ Room(1)
      /\ obs' = Append(obs, Delivery(IF ok THEN given ELSE NoFiles, ok))
      /\ attachments' = IF ok THEN Merge(attachments, given) ELSE attachments
      /\ delivered' = IF ok THEN delivered \cup files ELSE delivered
      /\ unseen' = IF ok THEN [child |-> unseen.child \ files, restart |-> unseen.restart \ files] ELSE unseen

NoDelivery == UNCHANGED <<obs, attachments, delivered, unseen>>

\* sendReply: refused with nothing to say, without a channel, or over the limit; the sender may fail.
SendReply(m, files) ==
  \/ pc' = "acting" /\ UNCHANGED <<obs, sentPaths, told>>
  \/ /\ m # Quiet \/ files # {}
     /\ request.channel /\ Allowed(m, obs) /\ Room(1)
     /\ obs' = Append(obs, Said("reply", m))
     /\ sentPaths' = sentPaths \cup files
     /\ Post(files, "receipted")
     /\ Tell(m, "reply")
     /\ pc' = "acting"

\* handleReplyAction: first the files. Without them the reply is not sent.
Reply(files, asks) ==
  /\ pc = "acting"
  /\ IF files = {} THEN NoDelivery /\ pc' = (IF asks THEN "asking" ELSE "replying")
     ELSE \E ok \in BOOLEAN :
            /\ Deliver(files, ok)
            /\ pc' = IF ~ok THEN "acting" ELSE IF asks THEN "asking" ELSE "replying"
  /\ doc' = [named |-> files, cites |-> {}]
  /\ UNCHANGED <<disk, sentPaths, request, result, resumes, told>>

\* ... then the words, and the receipt.
Send(m) ==
  /\ pc = "replying"
  /\ SendReply(m, doc.named)
  /\ doc' = [named |-> {}, cites |-> {}]
  /\ UNCHANGED <<disk, attachments, request, result, resumes, delivered, unseen>>

\* askForReplyAnswer: the question parks the run, or the turn goes on without an answer. The parked
\* result carries every attachment of the turn, sent before or not, and none is noted as sent
\* (pausedTaskResult).
Ask ==
  /\ pc = "asking"
  /\ \/ /\ pc' = "parked" /\ result' = [ending |-> "asked", cites |-> {}, carried |-> attachments]
        /\ Post(DOMAIN attachments, "unnoted")
     \/ pc' = "acting" /\ UNCHANGED <<result, posted>>
  /\ doc' = [named |-> {}, cites |-> {}]
  /\ UNCHANGED <<disk, obs, attachments, sentPaths, request, resumes, said, delivered, unseen>>

\* A final reply names files and cites observations: its files are delivered first
\* (deliverFinishAttachments), and the delivery is cited.
Finish(files, cites) ==
  /\ pc = "acting"
  /\ IF files = {} THEN NoDelivery /\ pc' = "redelivering" /\ doc' = [named |-> {}, cites |-> cites]
     ELSE \E ok \in BOOLEAN :
            /\ Deliver(files, ok)
            /\ pc' = IF ok THEN "redelivering" ELSE "acting"
            /\ doc' = IF ok THEN [named |-> files, cites |-> cites \cup {NextID(obs)}]
                            ELSE [named |-> {}, cites |-> {}]
  /\ UNCHANGED <<disk, sentPaths, request, result, resumes, told>>

\* redeliverFilesChangeableSinceDelivery
Redeliver ==
  /\ pc = "redelivering"
  /\ LET stale == Changeable(obs, sentPaths)
     IN  IF stale = {} THEN NoDelivery /\ pc' = "judging" /\ UNCHANGED doc
         ELSE \E ok \in BOOLEAN :
                /\ Deliver(stale, ok)
                /\ pc' = IF ok THEN "judging" ELSE "acting"
                /\ doc' = IF ok THEN [doc EXCEPT !.cites = @ \cup {NextID(obs)}]
                                ELSE [named |-> {}, cites |-> {}]
  /\ UNCHANGED <<disk, sentPaths, request, result, resumes, told>>

\* The files of the reply: validateCompletionFacts over collectReferenceDeliveryAttachments.
Cited(s, cites) == HandedOver([i \in DOMAIN s |-> IF i \in cites THEN s[i] ELSE Said("other", Quiet)])
ReplyFiles ==
  LET cited == Cited(obs, doc.cites)
  IN  LatestVersions(obs, IF DOMAIN cited = {} THEN HandedOver(obs) ELSE cited)

End(ending, carried) ==
  /\ pc' = "ended"
  /\ result' = [ending |-> ending, cites |-> Indexes(obs, IsDelivered) \cap doc.cites, carried |-> carried]

\* The gate: a failed delivery and an unsound file refuse the reply, and so may the work that was
\* asked for. An accepted one carries what was not sent yet (replyForFinish); one whose requested
\* changes stay unmet when its time has run out goes out as it is, with the files of that verdict,
\* which are none (completeTaskRunBestEffort).
Judge ==
  /\ pc = "judging"
  /\ LET facts == ~Undelivered(obs) /\ AreSound(ReplyFiles)
     IN  \/ pc' = "acting" /\ UNCHANGED result
         \/ facts /\ End("finished", NotYetSent(ReplyFiles, sentPaths))
         \/ facts /\ End("best_effort", NoFiles)
  /\ doc' = IF pc' = "acting" THEN [named |-> {}, cites |-> {}] ELSE doc
  /\ UNCHANGED <<disk, obs, attachments, sentPaths, request, resumes, told, delivered, unseen>>

\* A limit: completeAtStop where the facts allow it, else the report, with filesAtLimit.
Stop ==
  /\ pc = "acting"
  /\ \/ /\ ~Debt(obs) /\ ~Undelivered(obs) /\ AreSound(attachments)
        /\ End("done_at_stop", NotYetSent(attachments, sentPaths))
     \/ End("stopped", NotYetSent(HandedOver(obs), sentPaths))
  /\ UNCHANGED <<disk, obs, attachments, sentPaths, request, doc, resumes, told, delivered, unseen>>

\* The process dies, maybe in a call: its request is in the ledger and no result. Or between a reply
\* and its receipt: nothing in the ledger says that its words and files went out.
Crash ==
  /\ pc \notin {"ended", "parked", "down"} /\ resumes < MaxResume
  /\ pc' = "down"
  /\ \/ UNCHANGED <<disk, obs, told>>
     \/ /\ pc = "replying" /\ request.channel
        /\ \E m \in Message \cup {Quiet} :
             /\ m # Quiet \/ doc.named # {}
             /\ Allowed(m, obs) /\ Tell(m, "unreceipted")
        /\ Post(doc.named, "unnoted")
        /\ UNCHANGED <<disk, obs>>
     \/ /\ UNCHANGED told
        /\ pc = "acting" /\ Room(1)
        /\ \E f \in File, shape \in Shapes : Change(f, shape) /\ obs' = Append(obs, Own(FALSE, FALSE, {f}))
  /\ doc' = [named |-> {}, cites |-> {}]
  /\ UNCHANGED <<attachments, sentPaths, request, result, resumes, delivered, unseen>>

\* restoreAgentTaskState: results of calls and receipts are read back from the ledger; mid-task
\* messages sent beside a call are not. A resume after a restart of the runtime clears the failures
\* with the debt they leave.
Resume(afterRestart) ==
  /\ pc \in {"parked", "down"} /\ resumes < MaxResume
  /\ LET kept    == Keep(obs, {i \in DOMAIN obs : obs[i].kind # "checkpoint"})
         clears  == afterRestart /\ Debt(kept)
         cleared == IF clears THEN Keep(kept, {i \in DOMAIN kept : ~Failed(kept[i])}) ELSE kept
         Since(f) == {i \in Indexes(kept, Failed) : kept[i].kind = "call" /\ f \in kept[i].changes /\ i > LatestDelivery(kept, f)}
     IN  /\ obs' = cleared
         /\ attachments' = HandedOver(cleared)
         /\ unseen' = IF clears THEN [unseen EXCEPT !.restart = @ \cup {f \in File : Since(f) # {}}] ELSE unseen
  /\ pc' = "acting"
  /\ resumes' = resumes + 1
  /\ result' = [ending |-> "none", cites |-> {}, carried |-> NoFiles]
  /\ UNCHANGED <<disk, sentPaths, request, doc, told, delivered>>

Next ==
  \/ \E m \in Message \cup {Quiet}, ok \in BOOLEAN : Call(m, ok)
  \/ \E f \in File, shape \in Shapes : \E brings \in {{}, {f}} : Delegate(f, shape, brings)
  \/ \E files \in SUBSET File, asks \in BOOLEAN : Reply(files, asks)
  \/ \E m \in Message \cup {Quiet} : Send(m)
  \/ Ask
  \/ \E files \in SUBSET File : \E cites \in SUBSET Indexes(obs, IsDelivered) : Finish(files, cites)
  \/ Redeliver
  \/ Judge
  \/ Stop
  \/ Crash
  \/ \E afterRestart \in BOOLEAN : Resume(afterRestart)

Spec == Init /\ [][Next]_vars

-----------------------------------------------------------------------------
\* The state is well formed (agentTaskState, AgentTurnResult).
TypeOK ==
  /\ disk \in [File -> Copy]
  /\ attachments \in Given /\ result.carried \in Given
  /\ \A i \in DOMAIN obs : obs[i].kind = "delivery" => obs[i].given \in Given
  /\ sentPaths \subseteq delivered /\ delivered \subseteq File
  /\ pc \in {"acting", "replying", "asking", "parked", "redelivering", "judging", "down", "ended"}
  /\ doc.cites \subseteq DOMAIN obs
  /\ Len(obs) <= MaxObservation

\* The files an accepted final reply carries were checked as they are now: no call of the turn
\* could have changed one after the delivery whose copy goes out (finish_redelivery.go), whatever
\* was refused, asked or crashed in between. Only a child, or a call that a restart forgot with the
\* failures it cleared, can have.
CarriedIsCurrent ==
  result.ending = "finished" =>
    \A f \in DOMAIN result.carried :
      f \in unseen.child \cup unseen.restart \/ result.carried[f] = disk[f]

\* Of an accepted reply every file that lies in reach is sound where it lies (validity_state.go),
\* also one that was delivered sound and broken since.
CarriedIsSound ==
  result.ending = "finished" =>
    \A f \in DOMAIN result.carried \ (Inline \cup Unreachable) : IsSound(f, disk[f].shape)

\* The requester reads at most MidTaskLimit mid-task messages of a turn and no reply of the task
\* whose receipt is in the ledger twice, resumed or not; a turn repeats nothing at all
\* (checkpointMessageAllowed).
SaysItOnce ==
  /\ \A i, j \in DOMAIN said :
       i < j /\ said[i].says = said[j].says => said[i].kind # "reply" /\ said[i].turn < said[j].turn
  /\ \A turn \in 0 .. resumes : Cardinality({i \in DOMAIN said : said[i].turn = turn}) <= MidTaskLimit
  /\ Cardinality({i \in DOMAIN said : said[i].kind = "reply"}) <= MidTaskLimit

\* A file the requester was sent with a reply does not come again with the end of the task, also
\* after the task was taken up anew (attachmentsNotYetDelivered, deliveredAttachmentPathsFromTaskEvents).
\* One they have from a question, or from a reply whose receipt was never written, may: neither is
\* noted as sent (turn_results.go:49-67, reply_action.go:145-151).
SentOnce ==
  result.ending \in {"finished", "done_at_stop", "stopped"} =>
    \A f \in DOMAIN result.carried : "receipted" \notin posted[f]

\* A reply delivers its file only once: neither the end of the task nor a question after it carries
\* the file again (TestANonFinalReplyDeliversItsAttachmentOnlyOnce). A question does.
DeliversOnlyOnce == \A f \in DOMAIN result.carried : "receipted" \notin posted[f]

\* A turn stopped at a limit keeps back no file: whatever a delivery of the task succeeded for
\* either goes out with the end or was sent with a reply before (filesAtLimit, completeAtStop).
StopLosesNothing ==
  result.ending \in {"done_at_stop", "stopped"} =>
    delivered \subseteq DOMAIN result.carried \cup {f \in File : "receipted" \in posted[f]}

\* What the requester is given with a finished task is sound and as it was checked
\* (replyForFinish, redeliverFilesChangeableSinceDelivery).
CarriedIsFit == TypeOK /\ CarriedIsCurrent /\ CarriedIsSound

\* What a reply brought the requester, and has its receipt, comes neither in words nor in files a
\* second time with a reply, a message or the end of the task, over pauses and restarts
\* (checkpointMessageAllowed, attachmentsNotYetDelivered). The files of a question are not counted:
\* see DeliversOnlyOnce.
ReadOnce == SaysItOnce /\ SentOnce
=============================================================================
