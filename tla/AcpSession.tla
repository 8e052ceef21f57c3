---------------------------- MODULE AcpSession ----------------------------
(***************************************************************************)
(* One session of the agent as its host drives it over the Agent Client    *)
(* Protocol: acpagent/agent.go, ledger.go, ledger_stream.go, plan.go,      *)
(* parking.go, steer.go, catalog.go and turn_result.go; the choice of the  *)
(* run a turn works in, loop/agent_kernel.go; the delegated turns of       *)
(* loop/delegation.go and the steering of loop/turn_runner.go.             *)
(*                                                                         *)
(* A session knows one run at a time, the one whose event it saw last, and *)
(* that is the run a prompt continues, a cancel ends and a steer reaches.  *)
(* A turn may hand a piece of its work to a child turn, whose run is a     *)
(* run of the same session.  Every record a prompt's turn writes goes to   *)
(* the host, as an update and once more with the next tool call of its     *)
(* run, and a host that kept the records of a run hands them to a session  *)
(* that does not hold it.                                                  *)
(*                                                                         *)
(* A record is its kind, the event id a steer is known by, and what it is  *)
(* about; records nobody tells apart are notes.  A turn that completes and *)
(* one that fails end their run alike, and the reason a prompt stopped for *)
(* is not told.  Left out: the steps a turn takes around a call            *)
(* (TurnRunner), the approval of a call (CallLedger), what the router asks *)
(* (Intake), the level's extension, and two prompts of one session at      *)
(* once.  A host sends its next prompt when its cancel was handled, and    *)
(* hands a ledger to a session that does not hold the run.                 *)
(***************************************************************************)
EXTENDS Naturals, FiniteSets, SequencesExt

CONSTANTS
  Levels,          \* the task levels, as numbers
  Pins,            \* AgentTurnRequest.TaskLevel: those a host may pin
  MaxSteps,        \* TurnOptions.MaxIterationCount
  DelegationLimit, \* TurnOptions.DelegationLimit
  Faults,          \* what may go wrong: "cancel", "crash", "panic", "lost_call"
  MaxRuns,         \* bound: runs
  MaxPrompts,      \* bound: prompts
  MaxSteers,       \* bound: steer notifications
  MaxCalls         \* bound: tool calls

ASSUME SessionAssumption ==
  /\ Levels \subseteq Nat \ {0} /\ Levels # {} /\ Pins \subseteq Levels
  /\ MaxSteps \in Nat \ {0} /\ DelegationLimit \in Nat
  /\ Faults \subseteq {"cancel", "crash", "panic", "lost_call"}
  /\ {MaxRuns, MaxPrompts, MaxSteers, MaxCalls} \subseteq Nat

VARIABLES
  open,       \* the agent knows the session
  status,     \* TaskRun.Status of each run, "absent" when the store has none
  book,       \* what the session writes and the host reads of it, see Book
  prompt,     \* the session/prompt being answered
  turns,      \* the turns running for it: the prompt's own first, its child after it
  ctx,        \* the prompt's context: "live" or "cancelled"
  cancelling, \* a session/cancel is on its way to its handler
  made, prompts, steers, calls, \* how many there were
  acts,       \* history: model actions taken for this prompt
  missed      \* history: runs whose end reached another run, and running ones a prompt left

counted == <<made, prompts, steers, calls>>
vars == <<open, status, book, prompt, turns, ctx, cancelling, counted, acts, missed>>

NoRun == 0
Runs == 1..MaxRuns
Waiting == {"waiting_user_input", "waiting_approval"}
Ended == {"completed", "failed", "cancelled"}
Statuses == {"absent", "planned", "running", "blocked"} \cup Waiting \cup Ended

\* An event: its kind, the id a steer is known by, and what it is about.
Event(k, i, n) == [kind |-> k, id |-> i, of |-> n]
Note == Event("note", <<>>, 0)
Kinds == {"note", "call", "steer", "applied", "intake"}

About(events, k) == {events[i].of : i \in {j \in DOMAIN events : events[j].kind = k}}

Idle == [at |-> "none", run |-> NoRun, goal |-> NoRun, resumed |-> FALSE, answers |-> FALSE,
         named |-> FALSE, replayed |-> FALSE, handed |-> {}, told |-> FALSE, pinned |-> 0, level |-> 0]

-----------------------------------------------------------------------------
(* The ledger and its stream *)

\* The store's events, the run remembered last, and the stream: how many events of a
\* run went out, which of them no call carried yet, and what the host has of them.
EmptyBook == [ledger |-> [r \in Runs |-> <<>>], current |-> NoRun, observing |-> FALSE,
              tail |-> [r \in Runs |-> <<>>], sent |-> [r \in Runs |-> 0],
              kept |-> [r \in Runs |-> <<>>], brought |-> [r \in Runs |-> <<>>]]

Positions(b, r, n) == [i \in 1..n |-> b.sent[r] + i]

\* AppendTaskEvent, and ledgerObserver while a prompt is being answered: the run is
\* remembered and the event is sent.
Writes(b, r, events) ==
  LET stored == [b EXCEPT !.ledger[r] = @ \o events] IN
  IF ~b.observing \/ events = <<>> THEN stored
  ELSE [stored EXCEPT !.current = r, !.kept[r] = @ \o events,
                      !.sent[r] = @ + Len(events),
                      !.tail[r] = @ \o Positions(b, r, Len(events))]

\* A record nobody tells from another is only seen to be of its run.
Notes(b, r) == IF b.observing THEN [b EXCEPT !.current = r] ELSE b

\* Mutant: what was carried stays to be carried.
CarriesAll(b, r) == b

\* ledgerStream.carry: the tail is given away before the call is known to arrive.
Carries(b, r) == [b EXCEPT !.tail[r] = <<>>]

\* The host acts on a call with the records it brings.
Brings(b, r, positions) == [b EXCEPT !.brought[r] = @ \o positions]

\* A record that is appended again, for the n-th prompt, is a new event with a new id.
Anew(events, n) ==
  [i \in DOMAIN events |->
     IF events[i].kind = "steer" THEN [events[i] EXCEPT !.id = <<n, i>>] ELSE events[i]]

-----------------------------------------------------------------------------
(* Turns *)

top == Len(turns)
turn == turns[top]

AppliedIDs(events) == About(events, "applied")

\* AgentTurnRunner.RunTurn from taskRunForRequest on: a turn that resumes is rebuilt
\* from the ledger, any other begins with nothing.
NewTurn(r, resumes, level, limit, mayDelegate) ==
  [run |-> r, at |-> "head", heard |-> <<>>, applied |-> AppliedIDs(book.ledger[r]),
   knows |-> IF resumes THEN About(book.ledger[r], "call") ELSE {},
   steps |-> 0, delegated |-> 0, level |-> level, limit |-> limit,
   mayDelegate |-> mayDelegate, carries |-> <<>>]

Sets(t) == turns' = [turns EXCEPT ![top] = t]

\* The prompt is answered and the observer is gone.
Answers(b) ==
  /\ book' = [b EXCEPT !.observing = FALSE]
  /\ prompt' = Idle /\ turns' = <<>>

\* A child's result is an observation of its parent; the prompt's own turn records what
\* it was taken for when it has returned, RunAgentRequest.
Returns(b) ==
  IF top > 1
  THEN /\ turns' = [SubSeq(turns, 1, top - 1) EXCEPT ![top - 1].at = "head"]
       /\ book' = Notes(b, turns[top - 1].run)
       /\ UNCHANGED prompt
  ELSE Answers(Writes(b, turn.run, <<Event("intake", <<>>, turn.level)>>))

Becomes(st) == status' = [status EXCEPT ![turn.run] = st]

\* A child runs in its parent's context.
ContextEnded ==
  ctx = "cancelled" \/ \E i \in 1..top : status[turns[i].run] = "cancelled"

\* Mutant: a child that loses its context is left to whoever took it away.
AbandonsChild ==
  /\ UNCHANGED status
  /\ Returns(Notes(book, turn.run))

\* abandonedTurnResult: a cancelled run was ended by its canceller, and so is the run of
\* the prompt; a child's is failed.
Abandons ==
  IF status[turn.run] \in Ended
  THEN UNCHANGED status /\ Returns(book)
  ELSE /\ IF top > 1 THEN Becomes("failed") ELSE UNCHANGED status
       /\ Returns(Notes(book, turn.run))

Ends(st) ==
  IF status[turn.run] \in Ended
  THEN UNCHANGED status /\ Returns(book)
  ELSE Becomes(st) /\ Returns(Notes(book, turn.run))

\* The entries of s at the indexes that are kept, in order.
Keep(s, kept) ==
  LET Rank(i) == Cardinality({j \in kept : j <= i})
  IN  [k \in 1..Cardinality(kept) |-> s[CHOOSE i \in kept : Rank(i) = k]]

\* applyPendingSteeringEvents: what the run received and did not apply yet.
Pending ==
  LET events == book.ledger[turn.run]
  IN  Keep(events, {i \in DOMAIN events : events[i].kind = "steer" /\ events[i].id \notin turn.applied})
Told(events) == [i \in DOMAIN events |-> events[i].of]
Ids(events) == {events[i].id : i \in DOMAIN events}
Applications(events) == [i \in DOMAIN events |-> Event("applied", <<>>, events[i].id)]

Heard(t, events) == [t EXCEPT !.heard = @ \o Told(events), !.applied = @ \cup Ids(events)]

\* The head of an iteration.
StepHead ==
  /\ turns # <<>> /\ turn.at = "head"
  /\ \/ ContextEnded /\ Abandons /\ UNCHANGED acts
     \/ /\ ~ContextEnded /\ turn.steps = turn.limit
        /\ Ends("blocked")
        /\ UNCHANGED acts
     \/ /\ ~ContextEnded /\ turn.steps < turn.limit
        /\ Sets([Heard(turn, Pending) EXCEPT !.at = "act", !.steps = @ + 1])
        /\ book' = Writes(book, turn.run, Applications(Pending))
        /\ acts' = acts + 1
        /\ UNCHANGED <<status, prompt>>
  /\ UNCHANGED <<open, ctx, cancelling, counted, missed>>

\* The model's answer, when its context did not end under it.
Decides == turns # <<>> /\ turn.at = "act" /\ ~ContextEnded

LosesItsContext ==
  /\ turns # <<>> /\ turn.at = "act" /\ ContextEnded
  /\ Abandons
  /\ UNCHANGED <<open, ctx, cancelling, counted, acts, missed>>

\* The request is in the ledger before the call is, and the call carries it.
BeginCall ==
  /\ Decides /\ calls < MaxCalls
  /\ LET b == Writes(book, turn.run, <<Event("call", <<>>, calls + 1)>>) IN
     /\ book' = Carries(b, turn.run)
     /\ Sets([turn EXCEPT !.at = "call", !.carries = b.tail[turn.run]])
  /\ calls' = calls + 1
  /\ UNCHANGED <<open, status, prompt, ctx, cancelling, made, prompts, steers,
                 acts, missed>>

\* callThroughCatalog: a call that did not get through is a failure the loop reads.
LoseCall ==
  /\ turns # <<>> /\ turn.at = "call"
  /\ "lost_call" \in Faults \/ ~open
  /\ book' = Notes(book, turn.run)
  /\ Sets([turn EXCEPT !.at = "head", !.carries = <<>>])
  /\ UNCHANGED <<open, status, prompt, ctx, cancelling, counted, acts, missed>>

\* parkOnHostPause: a call the host holds, or a question it put, parks the run.
AnswerCall ==
  /\ turns # <<>> /\ turn.at = "call" /\ open
  /\ LET b == Brings(book, turn.run, turn.carries)
         recorded == Notes(b, turn.run) IN
     \/ /\ book' = recorded
        /\ Sets([turn EXCEPT !.at = "head", !.carries = <<>>])
        /\ UNCHANGED <<status, prompt>>
     \/ /\ status[turn.run] = "running"
        /\ \E st \in Waiting : Becomes(st) /\ Returns(recorded)
  /\ UNCHANGED <<open, ctx, cancelling, counted, acts, missed>>

Finish ==
  /\ Decides /\ Ends("completed")
  /\ UNCHANGED <<open, ctx, cancelling, counted, acts, missed>>

-----------------------------------------------------------------------------
(* Delegation *)

\* remainingCount: what is left of a count, and never less than one.
Remaining(ceiling, spent) == IF ceiling > spent + 1 THEN ceiling - spent ELSE 1

\* Mutant: the child may delegate as its parent does.
ChildAsParent(t, r) == NewTurn(r, FALSE, t.level, Remaining(t.limit, t.steps - 1), t.mayDelegate)

\* childTurnRequest and childRunner: a run of its own, the steps its parent has left, and
\* nothing to hand on.
ChildTurn(t, r) == NewTurn(r, FALSE, t.level, Remaining(t.limit, t.steps - 1), 0)

\* runDelegatedTurn: the delegations made are the observations of this turn.
Delegate ==
  /\ Decides /\ DelegationLimit > 0
  /\ IF turn.delegated < turn.mayDelegate
     THEN /\ Sets([turn EXCEPT !.at = "delegating", !.delegated = @ + 1])
          /\ book' = Notes(book, turn.run)
     ELSE Sets([turn EXCEPT !.at = "head", !.delegated = @ + 1]) /\ UNCHANGED book
  /\ UNCHANGED <<open, status, prompt, ctx, cancelling, counted, acts, missed>>

LaunchChild ==
  /\ turns # <<>> /\ turn.at = "delegating" /\ made < MaxRuns
  /\ LET r == made + 1 IN
     /\ status' = [status EXCEPT ![r] = "running"]
     /\ book' = Writes(book, r, <<Note>>)
     /\ turns' = Append(turns, ChildTurn(turn, r))
  /\ made' = made + 1
  /\ UNCHANGED <<open, prompt, ctx, cancelling, prompts, steers, calls, acts, missed>>

\* The bound of MaxRuns: a child that cannot be opened fails its delegation.
NoChild ==
  /\ turns # <<>> /\ turn.at = "delegating" /\ made = MaxRuns
  /\ Sets([turn EXCEPT !.at = "head"])
  /\ UNCHANGED <<open, status, book, prompt, ctx, cancelling, counted, acts, missed>>

-----------------------------------------------------------------------------
(* A prompt, until its turn runs *)

Resumable == {r \in Runs : book.kept[r] # <<>> /\ status[r] = "absent"}

\* openTaskRun for a named run: the one the store holds, or one of that name.
Opened(r) == IF status[r] = "absent" THEN [status EXCEPT ![r] = "planned"] ELSE status

\* What a prompt asks: the run the host names, whether it resumes a run the runtime had
\* stopped or answers a question, the goal it says the run has, and the level it pins, if any.
Asks(r, handed, named, replayed) ==
  \E resumed, answers \in BOOLEAN, goal \in {NoRun, r}, pinned \in Pins \cup {0} :
    /\ resumed => r # NoRun
    /\ answers => r # NoRun /\ status[r] = "waiting_user_input" /\ ~resumed
    /\ prompt' = [at |-> "planning", run |-> r, goal |-> goal, resumed |-> resumed,
                  answers |-> answers, named |-> named, replayed |-> replayed,
                  handed |-> handed, told |-> resumed, pinned |-> pinned, level |-> 0]

CanPrompt == open /\ prompt = Idle /\ ~cancelling /\ prompts < MaxPrompts

\* runPrompt without a ledger: adoptNamedTaskRun, or the run the session is at.
Prompt ==
  /\ CanPrompt
  /\ \/ /\ Asks(book.current, {}, FALSE, FALSE)
        /\ book' = [book EXCEPT !.observing = TRUE]
        /\ UNCHANGED <<status, made>>
     \/ \E r \in 1..made \cup ({made + 1} \cap Runs) :
          /\ Asks(r, {}, TRUE, FALSE)
          /\ status' = Opened(r)
          /\ book' = [book EXCEPT !.current = r, !.observing = TRUE]
          /\ made' = IF r > made THEN r ELSE made
  /\ prompts' = prompts + 1 /\ acts' = 0 /\ ctx' = "live"
  /\ UNCHANGED <<open, turns, cancelling, steers, calls, missed>>

\* replayLedger: the records the host kept are appended to the run it names, or to a
\* run of their own, before anyone observes them.
Replay ==
  /\ CanPrompt
  /\ \E from \in Resumable : \E r \in {from} \cup ({made + 1} \cap Runs) :
       LET events == book.kept[from] IN
       /\ Asks(r, About(events, "call"), r = from, TRUE)
       /\ status' = [status EXCEPT ![r] = "running"]
       /\ book' = [book EXCEPT !.ledger[r] = @ \o Anew(events, prompts + 1),
                               !.current = r, !.observing = TRUE]
       /\ made' = IF r > made THEN r ELSE made
  /\ prompts' = prompts + 1 /\ acts' = 0 /\ ctx' = "live"
  /\ UNCHANGED <<open, turns, cancelling, steers, calls, missed>>

Lowest == CHOOSE l \in Levels : \A m \in Levels : l <= m

\* highestRecordedTaskLevel
HighestLevel(events) ==
  CHOOSE l \in Levels \cap (About(events, "intake") \cup {Lowest}) :
    \A m \in About(events, "intake") : m <= l

\* Mutant: a run is resumed when the host says so.
ResumesIfTold(p) == p.resumed

\* runPrompt after planTurn: a replayed ledger is resumed whatever was planned.
ResumesAnyway(p) == p.resumed \/ p.replayed

\* RunAgentRequest: a task that starts leaves the run of its goal, a revision leaves any
\* run that was not opened for it, unless the run is being resumed.
RunChosen(p, route) ==
  LET resumed == ResumesAnyway(p)
      leaves == \/ route = "start" /\ p.run = p.goal
                \/ route = "revise" /\ ~resumed /\ ~p.named IN
  [p EXCEPT !.run = IF leaves THEN NoRun ELSE @, !.resumed = resumed /\ ~leaves,
            !.goal = NoRun, !.answers = FALSE, !.named = FALSE]

\* The host's ledger was replayed into a run, and the turn it was replayed for is not its.
Left(r) == IF r # NoRun /\ status[r] = "running" THEN missed \cup {r} ELSE missed

\* withHostTaskLevel: a level the host pins replaces the one that was decided.
HostLevel(p, decided) == IF p.pinned # 0 THEN p.pinned ELSE decided

\* promoteArtifactTaskLevelForRequest: what the request is for may raise it.
Promoted(level) == {l \in Levels : level <= l}

\* planTurn: a decision from the facts of the turn, or the router's.
Plan ==
  /\ prompt.at = "planning"
  /\ \/ /\ prompt.resumed
        /\ \E level \in Promoted(HostLevel(prompt, HighestLevel(book.ledger[prompt.run]))) :
             prompt' = [RunChosen(prompt, "continue") EXCEPT !.at = "launching", !.level = level]
        /\ UNCHANGED <<book, turns, missed>>
     \/ /\ prompt.answers
        /\ \E level \in Promoted(HostLevel(prompt, Lowest)) :
             prompt' = [RunChosen(prompt, "continue") EXCEPT !.at = "launching", !.level = level]
        /\ UNCHANGED <<book, turns, missed>>
     \/ /\ ~prompt.resumed /\ ~prompt.answers
        /\ \/ /\ ctx = "live"
              /\ \E route \in {"start", "continue", "revise"}, at \in {"launching", "intake_only"},
                    decided \in Levels : \E level \in Promoted(HostLevel(prompt, decided)) :
                   LET chosen == RunChosen(prompt, route) IN
                   /\ prompt' = [chosen EXCEPT !.at = at, !.level = level]
                   /\ missed' = IF chosen.run = prompt.run THEN missed ELSE Left(prompt.run)
              /\ UNCHANGED <<book, turns>>
           \/ ctx = "cancelled" /\ Answers(book) /\ missed' = Left(prompt.run)
  /\ UNCHANGED <<open, status, ctx, cancelling, counted, acts>>

Holds(r) == r \in Runs /\ status[r] # "absent"

\* taskRunForRequest: the run asked for when the store holds it, else a new one.
TakesRun(r) ==
  IF Holds(prompt.run) THEN r = prompt.run /\ UNCHANGED made
  ELSE r = made + 1 /\ made' = r

\* The cancel of this prompt was handled before it had a run.
MissedAlready(r) == IF ctx = "cancelled" /\ ~cancelling THEN missed \cup {r} ELSE missed

\* AdvanceTaskRun; whether a run that ended may run again is the store's to say, and a
\* cancelled one may not.
Launch ==
  /\ prompt.at = "launching"
  /\ \E r \in Runs :
       /\ TakesRun(r)
       /\ \/ /\ status[r] # "cancelled"
             /\ turns' = <<NewTurn(r, prompt.resumed \/ status[r] \in Waiting, prompt.level,
                                   MaxSteps, DelegationLimit)>>
             /\ status' = [status EXCEPT ![r] = "running"]
             /\ book' = Writes(book, r, <<Note>>)
             /\ prompt' = [prompt EXCEPT !.at = "running", !.run = NoRun, !.level = 0]
             /\ missed' = MissedAlready(r)
          \/ /\ status[r] \in Ended
             /\ Answers(Writes(book, r, <<Event("intake", <<>>, prompt.level)>>))
             /\ UNCHANGED <<status, missed>>
  /\ UNCHANGED <<open, ctx, cancelling, prompts, steers, calls, acts>>

\* completeIntakeOnlyRequest: the routing asks the requester, or takes nothing on.
IntakeOnly ==
  /\ prompt.at = "intake_only"
  /\ \E r \in Runs, st \in {"waiting_user_input", "blocked"} :
       LET b == Writes(book, r, <<Event("intake", <<>>, prompt.level)>>) IN
       /\ TakesRun(r)
       /\ IF status[r] \in Ended
          THEN Answers(b) /\ UNCHANGED status
          ELSE Answers(b) /\ status' = [status EXCEPT ![r] = st]
  /\ UNCHANGED <<open, ctx, cancelling, prompts, steers, calls, acts, missed>>

-----------------------------------------------------------------------------
(* What comes from outside *)

\* The host cancels: the prompt's context first, the handler after it.
CancelContext ==
  /\ "cancel" \in Faults /\ prompt # Idle /\ ctx = "live"
  /\ ctx' = "cancelled" /\ cancelling' = TRUE
  /\ UNCHANGED <<open, status, book, prompt, turns, counted, acts, missed>>

Cancellable == {"planned", "running", "blocked"}

\* Who misses an end addressed to the session's current run: the turn that waits for its
\* child, and every run of a session that is closed.
Misses ==
  IF ~open THEN {r \in Runs : status[r] = "running"}
  ELSE {turns[i].run : i \in DOMAIN turns} \ {book.current}

\* Agent.Cancel: the run the session is at, unless it waits for someone.
CancelRun ==
  /\ cancelling /\ cancelling' = FALSE
  /\ LET r == book.current IN
     IF open /\ r # NoRun /\ status[r] \in Cancellable
     THEN /\ status' = [status EXCEPT ![r] = "cancelled"]
          /\ book' = Notes(book, r)
     ELSE UNCHANGED <<status, book>>
  /\ missed' = missed \cup Misses
  /\ UNCHANGED <<open, prompt, turns, ctx, counted, acts>>

\* Agent.steer: a session without a run drops it.
Steer ==
  /\ open /\ steers < MaxSteers
  /\ steers' = steers + 1
  /\ IF book.current = NoRun THEN UNCHANGED book
     ELSE book' = Writes(book, book.current, <<Event("steer", <<0, steers + 1>>, steers + 1)>>)
  /\ UNCHANGED <<open, status, prompt, turns, ctx, cancelling, made, prompts, calls,
                 acts, missed>>

\* failTurnOnPanic: by then nobody observes the run it fails.
Panic ==
  /\ "panic" \in Faults /\ turns # <<>> /\ turn.at \in {"act", "call"}
  /\ Answers(book)
  /\ status' = [status EXCEPT ![book.current] = IF @ \in Ended THEN @ ELSE "failed"]
  /\ missed' = missed \cup Misses
  /\ UNCHANGED <<open, ctx, cancelling, counted, acts>>

CloseSession ==
  /\ open /\ open' = FALSE
  /\ UNCHANGED <<status, book, prompt, turns, ctx, cancelling, counted, acts, missed>>

\* The store and the stream of a session are its own; the host keeps what it was sent.
Fresh == [EmptyBook EXCEPT !.kept = book.kept]

NewSession ==
  /\ ~open /\ prompt = Idle /\ ~cancelling
  /\ open' = TRUE
  /\ status' = [r \in Runs |-> "absent"] /\ book' = Fresh /\ missed' = {}
  /\ UNCHANGED <<prompt, turns, ctx, cancelling, counted, acts>>

\* The agent's process dies, and its sessions with it.
Crash ==
  /\ "crash" \in Faults /\ (open \/ prompt # Idle)
  /\ open' = FALSE
  /\ status' = [r \in Runs |-> "absent"] /\ book' = Fresh
  /\ prompt' = Idle /\ turns' = <<>> /\ ctx' = "live" /\ cancelling' = FALSE /\ missed' = {}
  /\ UNCHANGED <<counted, acts>>

-----------------------------------------------------------------------------
Init ==
  /\ open = TRUE /\ status = [r \in Runs |-> "absent"] /\ book = EmptyBook
  /\ prompt = Idle /\ turns = <<>> /\ ctx = "live" /\ cancelling = FALSE
  /\ made = 0 /\ prompts = 0 /\ steers = 0 /\ calls = 0 /\ acts = 0 /\ missed = {}

Next ==
  \/ Prompt \/ Replay \/ Plan \/ Launch \/ IntakeOnly
  \/ StepHead \/ LosesItsContext \/ BeginCall \/ LoseCall \/ AnswerCall \/ Finish
  \/ Delegate \/ LaunchChild \/ NoChild
  \/ CancelContext \/ CancelRun \/ Steer \/ Panic \/ CloseSession \/ NewSession \/ Crash

Spec == Init /\ [][Next]_vars

-----------------------------------------------------------------------------
(* Properties *)

\* The values of the variables, and that a turn is one of a prompt.
TypeOK ==
  /\ status \in [Runs -> Statuses]
  /\ book.current \in Runs \cup {NoRun}
  /\ \A r \in Runs : \A i \in DOMAIN book.ledger[r] : book.ledger[r][i].kind \in Kinds
  /\ prompt.at \in {"none", "planning", "launching", "intake_only", "running"}
  /\ prompt.level \in Levels \cup {0}
  /\ (turns # <<>>) <=> (prompt.at = "running")
  /\ book.observing <=> (prompt # Idle)
  /\ ctx \in {"live", "cancelled"}

\* A turn that runs where the host's ledger of what already ran was replayed knows every
\* call of it, however it was routed and whatever the host flagged (runPrompt,
\* agentTaskStateForTurn).
KnowsWhatRan ==
  turns # <<>> /\ prompt.handed \subseteq About(book.ledger[turns[1].run], "call") =>
    prompt.handed \subseteq turns[1].knows

\* The calls of a run bring the host its records in order and none of them twice,
\* whichever calls were lost (ledgerStream).
BroughtInOrder ==
  \A r \in Runs : \A i, j \in DOMAIN book.brought[r] :
    i < j => book.brought[r][i] < book.brought[r][j]

\* A turn hears an instruction once, whoever repeats the steering events of its run:
\* a restart, a replay or the next prompt (applyPendingSteeringEvents).
HeardOnce == \A i \in DOMAIN turns : IsInjective(turns[i].heard)

\* One request never becomes a tree nobody sized: delegation.go:27-29.
SizedTree ==
  /\ \A i \in DOMAIN turns : turns[i].at = "delegating" => i = 1
  /\ acts <= MaxSteps * (1 + DelegationLimit)

\* A run the host says it resumes, in this session or in one that was handed the run's ledger after
\* a crash, runs at no lower level than any turn of it that returned (resumedTurnDecision), and no
\* turn runs below the level the host pins; only such a pin lowers a resumed run
\* (withHostTaskLevel). A ledger handed over without that word is planned anew, its level with it.
KeepsItsLevel ==
  turns # <<>> =>
    /\ prompt.pinned <= turns[1].level
    /\ prompt.told /\ prompt.pinned = 0 =>
         \A l \in About(book.ledger[turns[1].run], "intake") : l <= turns[1].level

\* A run that is still running when nothing runs was taken away while the session was at
\* another run, or left by the prompt its records were replayed for: every other end
\* reached it (abandonedTurnResult, Agent.Cancel, failTurnOnPanic).
LeftRunningWasMissed ==
  prompt = Idle /\ ~cancelling => \A r \in Runs : status[r] = "running" => r \in missed

\* Over lost calls, replays and restarts nothing is told twice: no record to the host, no
\* instruction to the model (ledgerStream, applyPendingSteeringEvents).
NothingTwice == BroughtInOrder /\ HeardOnce

\* A run that is taken up again goes on as what it was: it knows what it did, and keeps the level it
\* had unless the host pins another (runPrompt, resumedTurnDecision, withHostTaskLevel).
ResumedWhole == TypeOK /\ KnowsWhatRan /\ KeepsItsLevel
=============================================================================
