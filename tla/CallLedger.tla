----------------------------- MODULE CallLedger -----------------------------
(***************************************************************************)
(* A tool call from its request to its result, across the approval it may  *)
(* need (approval/), the ledger records that travel to the host on session *)
(* updates and with the calls themselves (acpagent/), and the resume of a  *)
(* run on the records the host kept (acpagent/, loop/agent_turn_state.go). *)
(*                                                                         *)
(* The host sees a record when a session update arrives or when a call     *)
(* brings it. Updates may be lost (sendLedgerEvent drops the error) and    *)
(* are lost with the process; a call may be lost, may time out and arrive  *)
(* late, and may arrive after the process died. A host that shares its     *)
(* store with the loop sees every record at once.                          *)
(*                                                                         *)
(* Ledgers are sets: what is read from them here (which holds are open,    *)
(* decided and spent, which calls have results) depends on the order of    *)
(* the records only if a hold is decided twice, which OneDecisionAHold     *)
(* excludes. A record has the number of the attempt that wrote it, which   *)
(* stands for its position and for the identity of a hold, and the         *)
(* observation number the code gives a request and its result: two         *)
(* attempts may have the same one.                                         *)
(*                                                                         *)
(* Left out: the checks that refuse a call before it is requested          *)
(* (loop/tool_call_validation.go), so the model repeats calls more freely  *)
(* than the loop; the restart that clears a stalled run's observations;    *)
(* the wording of the question.                                            *)
(***************************************************************************)
EXTENDS Naturals, Sequences, FiniteSetsExt

CONSTANTS Call,       \* tool calls: a name and its canonical input
          Gated,      \* those that need approval and that the host does not check itself
          Inspecting, \* those that only read: their success pays no failure debt
          NoCall,
          MaxAttempt, \* bound: attempts over all sessions
          MaxSession  \* bound: sessions of the run

ASSUME CallAssumption == Gated \subseteq Call /\ Inspecting \subseteq Call /\ NoCall \notin Call
ASSUME BoundAssumption == MaxAttempt \in Nat /\ MaxSession \in Nat

Attempt == 1..MaxAttempt
NoHold == 0
\* Each attempt takes one observation number, and so does each approved hold restored at a resume.
Observation == 0..(1 + MaxAttempt * MaxSession)
Kinds == {"requested", "opened", "approved", "rejected", "spent", "done", "failed"}
Record == [kind : Kinds, id : Attempt, call : Call, obs : Observation]
Flight == [id : Attempt, hold : Attempt \cup {NoHold}, call : Call, brought : SUBSET Record]

VARIABLES shared,   \* whether the host shares the loop's store
          ledger,   \* the task events of the run, in the session that runs it
          tail,     \* records no call has carried yet
          kept,     \* the records the host has
          flight,   \* the calls on their way to the host
          attempt,  \* the number of the latest attempt
          session,  \* the number of the latest session
          turn,     \* where the turn is: pc, the call, its hold and the answer
          observation, \* the number the next observation gets
          resumed,  \* what the turn was told when its session began, and after which attempt
          asked, verdict, ran, unasked, \* what person and host saw: ApprovalPromise
          happened  \* the attempts whose call reached the host

world == <<asked, verdict, ran, unasked, happened>>
vars == <<shared, ledger, tail, kept, flight, attempt, session, turn, observation, resumed, world>>

Rec(kind, id, call, obs) == [kind |-> kind, id |-> id, call |-> call, obs |-> obs]

Has(records, kind, id) == \E r \in records : r.kind = kind /\ r.id = id

-----------------------------------------------------------------------------
(* What is read from a ledger.                                             *)

\* An approved hold nobody has spent, for this very call.
Ready(records, h, c) ==
  /\ \E r \in records : r.kind = "opened" /\ r.id = h /\ r.call = c
  /\ Has(records, "approved", h)
  /\ ~Has(records, "spent", h)

Pending(records, h) ==
  /\ Has(records, "opened", h)
  /\ ~Has(records, "approved", h) /\ ~Has(records, "rejected", h)

Results(records) == {r \in records : r.kind \in {"done", "failed"}}

\* activeFailureDebt: a failed call that no success came after, readings aside.
FailureDebt(records) ==
  \E r \in records : /\ r.kind = "failed"
                     /\ \A s \in records : s.kind = "done" /\ s.id > r.id => s.call \in Inspecting

\* interruptedCallObservations: the latest request of each observation number, unless a
\* result with that number came after it.
Interrupted(records) ==
  {r \in records : /\ r.kind = "requested"
                   /\ \A s \in records : s.kind = "requested" /\ s.obs = r.obs => s.id <= r.id
                   /\ \A s \in Results(records) : s.obs = r.obs => s.id < r.id}

\* observationsFromTaskEvents, less the failures when the resumed run is in debt: the
\* note about an interrupted call is a failure too.
Restored(records) ==
  IF FailureDebt(records)
    THEN {r \in records : r.kind = "done"}
    ELSE Results(records) \cup Interrupted(records)

\* withApprovedCallsNotYetRun
Approved(records) == {h \in Attempt : \E c \in Call : Ready(records, h, c)}

NextObservation(records) ==
  1 + Max({0} \cup {r.obs : r \in Restored(records)}) + Cardinality(Approved(records))

-----------------------------------------------------------------------------
Down == [pc |-> "down", call |-> NoCall, hold |-> NoHold, answer |-> "none"]

Init ==
  /\ shared \in BOOLEAN
  /\ ledger = {} /\ tail = {} /\ kept = {} /\ flight = {}
  /\ attempt = 0 /\ session = 0
  /\ turn = Down /\ observation = 1
  /\ resumed = [interrupted |-> {}, approved |-> {}, after |-> 0]
  /\ asked = [h \in Attempt |-> NoCall]
  /\ verdict = [h \in Attempt |-> "none"]
  /\ ran = [h \in Attempt |-> <<>>]
  /\ unasked = {}
  /\ happened = {}

At(pc) == turn.pc = pc
GoTo(pc) == turn' = [turn EXCEPT !.pc = pc]

\* AppendTaskEvent and its observer: the record joins the uncarried tail, then the
\* update that takes it to the host arrives, or is lost without anybody noticing.
AppendEvent(r) ==
  /\ ledger' = ledger \cup {r}
  /\ tail' = tail \cup {r}
  /\ kept' = kept \cup {r} \/ (~shared /\ kept' = kept)

NoRecord == UNCHANGED <<ledger, tail, kept>>
Steady == UNCHANGED <<shared, session, observation, resumed>>

-----------------------------------------------------------------------------
(* The session.                                                            *)

\* runPrompt and restoreAgentTaskState: the records the host kept are the run's ledger,
\* and the turn is told of the calls that were interrupted and of the approved ones
\* that have not run. Assumed of the host: before it opens the run again, the calls of
\* the dead process have arrived or are gone.
StartSession ==
  /\ At("down") /\ flight = {} /\ session < MaxSession
  /\ session' = session + 1
  /\ ledger' = kept /\ tail' = {}
  /\ resumed' = [interrupted |-> {r.id : r \in Restored(kept) \cap Interrupted(kept)},
                 approved |-> Approved(kept), after |-> attempt]
  /\ turn' = [Down EXCEPT !.pc = "ready"]
  /\ observation' = NextObservation(kept)
  /\ UNCHANGED <<shared, kept, flight, attempt, world>>

\* The process ends, wherever the turn is: what only it held is gone.
Crash ==
  /\ ~At("down")
  /\ turn' = Down
  /\ ledger' = {} /\ tail' = {}
  /\ UNCHANGED <<shared, kept, flight, attempt, session, observation, resumed, world>>

-----------------------------------------------------------------------------
(* The call.                                                               *)

\* invokeTool: the intent is written before the call; then the gate reviews it.
Request(c) ==
  /\ At("ready") /\ attempt < MaxAttempt
  /\ attempt' = attempt + 1
  /\ AppendEvent(Rec("requested", attempt', c, observation))
  /\ turn' = [turn EXCEPT !.pc = IF c \in Gated THEN "review" ELSE "invoke",
                          !.call = c, !.hold = NoHold, !.answer = "none"]
  /\ UNCHANGED <<flight, world>> /\ Steady

\* ReviewToolCall: nobody to ask, in a delegated turn or without an asker.
RefuseUnanswerable ==
  /\ At("review")
  /\ GoTo("failing") /\ NoRecord
  /\ UNCHANGED <<flight, attempt, world>> /\ Steady

\* Mutant: any approved hold lets the call run, whatever call it was for.
UseAnyApproval(h) ==
  /\ At("review") /\ \E c \in Call : Ready(ledger, h, c)
  /\ turn' = [turn EXCEPT !.pc = "spend", !.hold = h] /\ NoRecord
  /\ UNCHANGED <<flight, attempt, world>> /\ Steady

\* awaitApproval, with a hold the person has approved and no call has spent.
UseApproval(h) ==
  /\ At("review") /\ Ready(ledger, h, turn.call)
  /\ turn' = [turn EXCEPT !.pc = "spend", !.hold = h] /\ NoRecord
  /\ UNCHANGED <<flight, attempt, world>> /\ Steady

\* holdAndAsk: the hold is on the ledger before the person sees the question.
HoldCall ==
  /\ At("review") /\ \A h \in Attempt : ~Ready(ledger, h, turn.call)
  /\ AppendEvent(Rec("opened", attempt, turn.call, 0))
  /\ asked' = [asked EXCEPT ![attempt] = turn.call]
  /\ turn' = [turn EXCEPT !.pc = "asking", !.hold = attempt]
  /\ UNCHANGED <<flight, attempt, verdict, ran, unasked, happened>> /\ Steady

\* Mutant: an empty answer is settled like one that was given.
SettleAnyAnswer(a) ==
  /\ At("asking") /\ verdict[turn.hold] = "none"
  /\ turn' = [turn EXCEPT !.pc = "settle", !.answer = a]
  /\ verdict' = [verdict EXCEPT ![turn.hold] = a]
  /\ NoRecord
  /\ UNCHANGED <<flight, attempt, asked, ran, unasked, happened>> /\ Steady

\* The person answers, or the wait ends without an answer.
Answer(a) ==
  /\ At("asking") /\ verdict[turn.hold] = "none"
  /\ turn' = [turn EXCEPT !.pc = IF a = "none" THEN "failing" ELSE "settle", !.answer = a]
  /\ verdict' = [verdict EXCEPT ![turn.hold] = a]
  /\ NoRecord
  /\ UNCHANGED <<flight, attempt, asked, ran, unasked, happened>> /\ Steady

\* settle: the decision goes on the ledger, and only an approval is acted on.
Settle ==
  /\ At("settle")
  /\ AppendEvent(Rec(turn.answer, turn.hold, turn.call, 0))
  /\ GoTo(IF turn.answer = "approved" THEN "spend" ELSE "failing")
  /\ UNCHANGED <<flight, attempt, world>> /\ Steady

\* Mutant: the approval is not used up.
SpendNothing ==
  /\ At("spend") /\ GoTo("invoke") /\ NoRecord
  /\ UNCHANGED <<flight, attempt, world>> /\ Steady

\* spend: the approval is used up before the call is made.
Spend ==
  /\ At("spend")
  /\ AppendEvent(Rec("spent", turn.hold, turn.call, 0))
  /\ GoTo("invoke")
  /\ UNCHANGED <<flight, attempt, world>> /\ Steady

\* Mutant: the call leaves its records to the session updates.
SendAlone ==
  /\ At("invoke")
  /\ flight' = flight \cup {[id |-> attempt, hold |-> turn.hold, call |-> turn.call, brought |-> {}]}
  /\ GoTo("waiting") /\ NoRecord
  /\ UNCHANGED <<attempt, world>> /\ Steady

\* callThroughCatalog: the call takes the records no earlier call took.
Send ==
  /\ At("invoke")
  /\ flight' = flight \cup {[id |-> attempt, hold |-> turn.hold, call |-> turn.call, brought |-> tail]}
  /\ tail' = {}
  /\ GoTo("waiting")
  /\ UNCHANGED <<ledger, kept, attempt, world>> /\ Steady

\* The wait for a result ends: the call was lost, timed out or was cancelled, and may
\* still arrive.
GiveUp ==
  /\ At("waiting")
  /\ GoTo("failing") /\ NoRecord
  /\ UNCHANGED <<flight, attempt, world>> /\ Steady

\* saveToolObservation. A call that was refused or not answered has failed.
RecordResult(kind) ==
  /\ At("result") \/ (At("failing") /\ kind = "failed")
  /\ AppendEvent(Rec(kind, attempt, turn.call, observation))
  /\ turn' = [Down EXCEPT !.pc = "ready"]
  /\ observation' = observation + 1
  /\ UNCHANGED <<shared, flight, attempt, session, resumed, world>>

-----------------------------------------------------------------------------
(* The host.                                                               *)

\* The host takes the records the call brings before it runs the call.
Arrive(f) ==
  /\ flight' = flight \ {f}
  /\ kept' = kept \cup f.brought
  /\ happened' = happened \cup {f.id}
  /\ IF f.hold = NoHold
       THEN unasked' = unasked \cup {f.call} /\ ran' = ran
       ELSE ran' = [ran EXCEPT ![f.hold] = @ \o <<f.call>>] /\ unasked' = unasked
  /\ turn' = IF At("waiting") /\ f.id = attempt THEN [turn EXCEPT !.pc = "result"] ELSE turn
  /\ UNCHANGED <<ledger, tail, attempt, asked, verdict>> /\ Steady

LoseCall(f) ==
  /\ flight' = flight \ {f}
  /\ NoRecord
  /\ UNCHANGED <<attempt, turn, world>> /\ Steady

\* A person decides a hold that nobody answered, in a chat reply or after a reload. While
\* the process lives nobody is asked again what they answered; after it died the host goes
\* by the records it has, once the process's calls have arrived or are gone.
HostDecides(h, v) ==
  /\ Pending(kept, h)
  /\ IF At("down")
       THEN flight = {}
       ELSE turn.hold # h /\ (h > resumed.after => verdict[h] = "none")
  /\ \E r \in kept :
       /\ r.kind = "opened" /\ r.id = h
       /\ LET decided == Rec(v, h, r.call, 0)
          IN  /\ kept' = kept \cup {decided}
              /\ ledger' = IF shared /\ ~At("down") THEN ledger \cup {decided} ELSE ledger
  /\ verdict' = [verdict EXCEPT ![h] = v]
  /\ UNCHANGED <<tail, flight, attempt, turn, asked, ran, unasked, happened>> /\ Steady

-----------------------------------------------------------------------------
Next ==
  \/ StartSession
  \/ Crash
  \/ \E c \in Call : Request(c)
  \/ RefuseUnanswerable
  \/ \E h \in Attempt : UseApproval(h)
  \/ HoldCall
  \/ \E a \in {"none", "approved", "rejected"} : Answer(a)
  \/ Settle
  \/ Spend
  \/ Send
  \/ GiveUp
  \/ \E kind \in {"done", "failed"} : RecordResult(kind)
  \/ \E f \in flight : Arrive(f)
  \/ \E f \in flight : LoseCall(f)
  \/ \E h \in Attempt, v \in {"approved", "rejected"} : HostDecides(h, v)

Spec == Init /\ [][Next]_vars

-----------------------------------------------------------------------------
(* Properties.                                                             *)

TypeOK ==
  /\ shared \in BOOLEAN
  /\ ledger \subseteq Record /\ tail \subseteq Record
  /\ kept \subseteq Record
  /\ flight \subseteq Flight
  /\ attempt \in 0..MaxAttempt /\ session \in 0..MaxSession
  /\ turn \in [pc : {"down", "ready", "review", "asking", "settle", "spend", "invoke",
                     "waiting", "result", "failing"},
               call : Call \cup {NoCall},
               hold : Attempt \cup {NoHold}, answer : {"none", "approved", "rejected"}]
  /\ observation \in Observation
  /\ resumed \in [interrupted : SUBSET Attempt, approved : SUBSET Attempt, after : 0..MaxAttempt]
  /\ asked \in [Attempt -> Call \cup {NoCall}]
  /\ verdict \in [Attempt -> {"none", "approved", "rejected"}]
  /\ ran \in [Attempt -> Seq(Call)]
  /\ unasked \subseteq Call /\ happened \subseteq Attempt

\* A gated call runs only under a question the person last answered with yes, once, and
\* it is the call they were shown: approval, ledger stream and resume keep the promise
\* whatever is lost and whenever the process dies.
Promise == INSTANCE ApprovalPromise WITH Question <- Attempt
KeepsThePromise == Promise!Spec

\* What the resumed turn is told of a hold, "the requester approved this call and it has
\* not run yet" (approvedCallObservation), is true of every hold it could be told of, in
\* the ledger it reads and in the records the host would resume it from.
ApprovedUnspentHasNotRun ==
  \A h \in Attempt, c \in Call : Ready(ledger, h, c) \/ Ready(kept, h, c) => ran[h] = <<>>

\* The host acts on a call the moment it arrives (catalog_test.go): whatever it ran under
\* an approval, it has the hold, the approval and the record that it is used up, although
\* every session update may have been lost.
HostCanJustify ==
  \A h \in Attempt : ran[h] # <<>> => \A kind \in {"opened", "approved", "spent"} : Has(kept, kind, h)

\* The intent is written before the call (interruptedCallObservations): the host knows
\* the request of every call that reached it, so no resume reads it as never made.
InterruptedIsKnown == \A i \in happened : Has(kept, "requested", i)

\* A hold is decided once, in the ledger and in the records the host has, the turn's own
\* question and the host's being two ways to the same answer.
OneDecisionAHold ==
  \A h \in Attempt : /\ ~(Has(ledger, "approved", h) /\ Has(ledger, "rejected", h))
                     /\ ~(Has(kept, "approved", h) /\ Has(kept, "rejected", h))
=============================================================================
