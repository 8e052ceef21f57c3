----------------------------- MODULE TurnClock -----------------------------
(***************************************************************************)
(* turnclock/: the clock of one turn.  Budgets are measured in ACTIVE time *)
(* -- wall time minus the pauses in which the turn waits for a person --   *)
(* and every budget is a context that ends once: when its active time is   *)
(* spent, when its parent ends, or when its owner cancels it.              *)
(*                                                                         *)
(* Go's mutex sections are the atomic steps.  What the code does outside   *)
(* the mutex (the gap between deleting an alarm and finishing its context, *)
(* the four separate steps of WithActiveBudget, a timer goroutine that has *)
(* started but waits for the mutex) is a step of its own here.             *)
(* Time is counted in ticks; tick t is the interval from instant t to t+1. *)
(***************************************************************************)
EXTENDS Naturals, Sequences, FiniteSets, FiniteSetsExt

CONSTANTS Budget,     \* the budgets (contexts) requested from this clock
          Pauser,     \* the calls that may pause the clock
          Root,       \* the caller's own context, parent of the outermost budget
          parent,     \* parent[b]: the context b was derived from
          size,       \* size[b]: the active time b grants
          MaxTime,    \* bound: the last instant the wall clock reaches
          MaxPauses   \* bound: how many separate pauses are opened

ASSUME ClockAssumption ==
  /\ Root \notin Budget
  /\ parent \in [Budget -> Budget \cup {Root}]
  /\ size \in [Budget -> Nat]
  /\ IsFiniteSet(Pauser)
  /\ MaxTime \in Nat /\ MaxPauses \in Nat

VARIABLES now,         \* the wall clock, from 1: instant 0 is Go's zero time
          pauses,      \* Clock.pauses
          openPauses,  \* Clock.openPauses
          handle,      \* handle[p]: the resume function p holds
          alarms,      \* Clock.alarms
          startedAt,   \* alarm.startedAt
          timer,       \* alarm.timer while it has neither fired nor stopped: its due time
          ringing,     \* timer goroutines of b inside ring, before its mutex
          expiring,    \* a ring of b deleted the alarm and has yet to call finish
          err,         \* budgetContext.err, and the caller's context under Root
          watcher,     \* the context.AfterFunc registered on b's parent
          pc           \* where the owner of b is: WithActiveBudget, then the cancel function

clockVars  == <<now, pauses, openPauses, handle>>
timerVars  == <<timer, ringing>>
vars == <<clockVars, alarms, startedAt, timerVars, expiring, err, watcher, pc>>

NoTimer == 0
Unfinished == "nil"
Ends == {"deadline", "canceled"}

Pause == [startedAt : Nat \ {0}, endedAt : Nat]

TypeOK ==
  /\ now \in Nat \ {0}
  /\ pauses \in Seq(Pause)
  /\ openPauses \in Nat
  /\ handle \in [Pauser -> {"none", "open", "spent"}]
  /\ alarms \subseteq Budget
  /\ startedAt \in [Budget -> Nat \ {0}]
  /\ timer \in [Budget -> Nat]
  /\ ringing \in [Budget -> Nat]
  /\ expiring \in [Budget -> BOOLEAN]
  /\ err \in [Budget \cup {Root} -> Ends \cup {Unfinished}]
  /\ watcher \in [Budget -> {"off", "on", "called", "disarmed", "done"}]
  /\ pc \in [Budget -> {"idle", "spent?", "watch", "insert", "live",
                        "disarm", "finish", "over"}]

-----------------------------------------------------------------------------
(* Active time *)

IsOpen(p) == p.endedAt = 0

\* A tick is covered when the clock stood still during it.
Covered(t) ==
  \E i \in DOMAIN pauses :
    /\ pauses[i].startedAt <= t
    /\ IsOpen(pauses[i]) \/ t < pauses[i].endedAt

RunningTicks(start) == {t \in start..(now - 1) : ~Covered(t)}

\* Clock.activeBetween(start, now), as a count of the ticks the clock ran.
Active(start) == Cardinality(RunningTicks(start))

Remaining(b) == IF size[b] > Active(startedAt[b]) THEN size[b] - Active(startedAt[b]) ELSE 0

Spent(b) == Remaining(b) = 0

\* Mutant: a pause is not cut to the start of the budget.
OverlapFromItsStart(p, start) ==
  LET to == IF IsOpen(p) THEN now ELSE p.endedAt
  IN  IF to > p.startedAt THEN to - p.startedAt ELSE 0

\* pause.overlapWith and the subtraction in Clock.activeBetween, as written
\* in the code: every pause is cut to [start, now] and taken off the wall time.
OverlapWith(p, start) ==
  LET from == IF p.startedAt > start THEN p.startedAt ELSE start
      to   == IF IsOpen(p) THEN now ELSE p.endedAt
  IN  IF to > from THEN to - from ELSE 0

ActiveBetween(start) ==
  LET wall == IF now > start THEN now - start ELSE 0
      still == MapThenSumSet(LAMBDA i : OverlapWith(pauses[i], start), DOMAIN pauses)
  IN  IF wall > still THEN wall - still ELSE 0

-----------------------------------------------------------------------------
Init ==
  /\ now = 1
  /\ pauses = <<>>
  /\ openPauses = 0
  /\ handle = [p \in Pauser |-> "none"]
  /\ alarms = {}
  /\ startedAt = [b \in Budget |-> 1]
  /\ timer = [b \in Budget |-> NoTimer]
  /\ ringing = [b \in Budget |-> 0]
  /\ expiring = [b \in Budget |-> FALSE]
  /\ err = [c \in Budget \cup {Root} |-> Unfinished]
  /\ watcher = [b \in Budget |-> "off"]
  /\ pc = [b \in Budget |-> "idle"]

\* Clock.arm for every alarm of S: a fresh timer replaces alarm.timer.  One still
\* pending could never be stopped again: NoTimerIsReplaced says there is none.
Arm(S) ==
  timer' = [b \in Budget |-> IF b \in S THEN now + Remaining(b) ELSE timer[b]]

ArmUnlessPaused(S) == IF openPauses > 0 THEN UNCHANGED timer ELSE Arm(S)

\* timer.Stop on the timer alarm.timer points to; a ring already started goes on.
Silence(S) == timer' = [b \in Budget |-> IF b \in S THEN NoTimer ELSE timer[b]]

\* budgetContext.finish: the first error stays.
Finish(c, error) ==
  err' = IF err[c] = Unfinished THEN [err EXCEPT ![c] = error] ELSE err

-----------------------------------------------------------------------------
(* The wall clock, and the calls that pause it *)

Tick ==
  /\ now < MaxTime
  /\ now' = now + 1
  /\ UNCHANGED <<pauses, openPauses, handle, alarms, startedAt, timerVars,
                 expiring, err, watcher, pc>>

PauseClock(p) ==
  /\ handle[p] # "open"
  /\ openPauses = 0 => Len(pauses) < MaxPauses
  /\ IF openPauses = 0
     THEN /\ pauses' = Append(pauses, [startedAt |-> now, endedAt |-> 0])
          /\ Silence(alarms)
     ELSE UNCHANGED <<pauses, timer>>
  /\ openPauses' = openPauses + 1
  /\ handle' = [handle EXCEPT ![p] = "open"]
  /\ UNCHANGED <<now, alarms, startedAt, ringing, expiring, err, watcher, pc>>

\* Mutant: the end of a pause does not arm the alarms again.
EndPauseUnarmed ==
  /\ openPauses' = openPauses - 1
  /\ IF openPauses > 1
     THEN UNCHANGED pauses
     ELSE pauses' = [pauses EXCEPT ![Len(pauses)] = [@ EXCEPT !.endedAt = now]]
  /\ UNCHANGED timer

EndPause ==
  /\ openPauses' = openPauses - 1
  /\ IF openPauses > 1
     THEN UNCHANGED <<pauses, timer>>
     ELSE /\ pauses' = [pauses EXCEPT ![Len(pauses)] = [@ EXCEPT !.endedAt = now]]
          /\ Arm(alarms)

\* A resume function may be called again: sync.Once makes that a no-op.
Resume(p) ==
  /\ handle[p] # "none"
  /\ IF handle[p] = "open" THEN EndPause ELSE UNCHANGED <<openPauses, pauses, timer>>
  /\ handle' = [handle EXCEPT ![p] = "spent"]
  /\ UNCHANGED <<now, alarms, startedAt, ringing, expiring, err, watcher, pc>>

-----------------------------------------------------------------------------
(* Clock.WithActiveBudget: four steps, the mutex released between them *)

ParentReady(b) ==
  \A c \in Budget : c = parent[b] => pc[c] \notin {"idle", "spent?", "watch", "insert"}

\* The first condition: is anything left?  The start may lie in the past.
RequestBudget(b) ==
  /\ pc[b] = "idle" /\ ParentReady(b)
  /\ \E start \in 1..now :
       /\ startedAt' = [startedAt EXCEPT ![b] = start]
       /\ pc' = [pc EXCEPT ![b] = IF Active(start) >= size[b] THEN "spent?" ELSE "watch"]
  /\ UNCHANGED <<clockVars, alarms, timerVars, expiring, err, watcher>>

\* The second condition, read in a mutex section of its own: a spent budget is
\* ended before it is handed back, unless a pause opened in the meantime.
RefuseSpentBudget(b) ==
  /\ pc[b] = "spent?"
  /\ IF openPauses > 0
     THEN pc' = [pc EXCEPT ![b] = "watch"] /\ UNCHANGED err
     ELSE pc' = [pc EXCEPT ![b] = "over"] /\ Finish(b, "deadline")
  /\ UNCHANGED <<clockVars, alarms, startedAt, timerVars, expiring, watcher>>

WatchParent(b) ==
  /\ pc[b] = "watch"
  /\ pc' = [pc EXCEPT ![b] = "insert"]
  /\ watcher' = [watcher EXCEPT ![b] = "on"]
  /\ UNCHANGED <<clockVars, alarms, startedAt, timerVars, expiring, err>>

\* Mutant: the alarm is registered and left to the next resume to arm.
InsertUnarmed(b) ==
  /\ pc[b] = "insert"
  /\ pc' = [pc EXCEPT ![b] = "live"]
  /\ alarms' = alarms \cup {b}
  /\ UNCHANGED <<clockVars, startedAt, timerVars, expiring, err, watcher>>

InsertAlarm(b) ==
  /\ pc[b] = "insert"
  /\ pc' = [pc EXCEPT ![b] = "live"]
  /\ alarms' = alarms \cup {b}
  /\ ArmUnlessPaused({b})
  /\ UNCHANGED <<clockVars, startedAt, ringing, expiring, err, watcher>>

-----------------------------------------------------------------------------
(* A timer fires: time.AfterFunc runs ring in a goroutine of its own *)

TimerFires(b) ==
  /\ timer[b] # NoTimer /\ timer[b] <= now
  /\ timer' = [timer EXCEPT ![b] = NoTimer]
  /\ ringing' = [ringing EXCEPT ![b] = @ + 1]
  /\ UNCHANGED <<clockVars, alarms, startedAt, expiring, err, watcher, pc>>

\* The mutex section of ring: ignored when the alarm is gone or the clock paused,
\* put off should the budget not be spent after all, decisive otherwise.
Ring(b) ==
  /\ ringing[b] > 0
  /\ ringing' = [ringing EXCEPT ![b] = @ - 1]
  /\ IF b \in alarms /\ openPauses = 0 /\ Spent(b)
     THEN alarms' = alarms \ {b} /\ expiring' = [expiring EXCEPT ![b] = TRUE]
     ELSE UNCHANGED <<alarms, expiring>>
  /\ IF b \in alarms /\ openPauses = 0 /\ ~Spent(b) THEN Arm({b}) ELSE UNCHANGED timer
  /\ UNCHANGED <<clockVars, startedAt, err, watcher, pc>>

\* The last statement of ring, after the mutex is released.
Expire(b) ==
  /\ expiring[b]
  /\ expiring' = [expiring EXCEPT ![b] = FALSE]
  /\ Finish(b, "deadline")
  /\ UNCHANGED <<clockVars, alarms, startedAt, timerVars, watcher, pc>>

-----------------------------------------------------------------------------
(* A context ends from outside *)

\* Clock.disarm
Disarm(b) == alarms' = alarms \ {b} /\ Silence({b})

RootEnds ==
  /\ err[Root] = Unfinished
  /\ \E error \in Ends : Finish(Root, error)
  /\ UNCHANGED <<clockVars, alarms, startedAt, timerVars, expiring, watcher, pc>>

ParentEnds(b) ==
  /\ watcher[b] = "on" /\ err[parent[b]] # Unfinished
  /\ watcher' = [watcher EXCEPT ![b] = "called"]
  /\ UNCHANGED <<clockVars, alarms, startedAt, timerVars, expiring, err, pc>>

WatcherDisarms(b) ==
  /\ watcher[b] = "called"
  /\ watcher' = [watcher EXCEPT ![b] = "disarmed"]
  /\ Disarm(b)
  /\ UNCHANGED <<clockVars, startedAt, ringing, expiring, err, pc>>

\* Mutant: whatever ended the parent, the child reports a deadline.
WatcherExpires(b) ==
  /\ watcher[b] = "disarmed"
  /\ watcher' = [watcher EXCEPT ![b] = "done"]
  /\ Finish(b, "deadline")
  /\ UNCHANGED <<clockVars, alarms, startedAt, timerVars, expiring, pc>>

WatcherFinishes(b) ==
  /\ watcher[b] = "disarmed"
  /\ watcher' = [watcher EXCEPT ![b] = "done"]
  /\ Finish(b, err[parent[b]])
  /\ UNCHANGED <<clockVars, alarms, startedAt, timerVars, expiring, pc>>

\* The cancel function handed back: stop watching, disarm, finish.
Cancel(b) ==
  /\ pc[b] = "live"
  /\ pc' = [pc EXCEPT ![b] = "disarm"]
  /\ watcher' = [watcher EXCEPT ![b] = IF @ = "on" THEN "off" ELSE @]
  /\ UNCHANGED <<clockVars, alarms, startedAt, timerVars, expiring, err>>

CancelDisarms(b) ==
  /\ pc[b] = "disarm"
  /\ pc' = [pc EXCEPT ![b] = "finish"]
  /\ Disarm(b)
  /\ UNCHANGED <<clockVars, startedAt, ringing, expiring, err, watcher>>

CancelFinishes(b) ==
  /\ pc[b] = "finish"
  /\ pc' = [pc EXCEPT ![b] = "over"]
  /\ Finish(b, "canceled")
  /\ UNCHANGED <<clockVars, alarms, startedAt, timerVars, expiring, watcher>>

-----------------------------------------------------------------------------
Request(b) == RequestBudget(b) \/ RefuseSpentBudget(b) \/ WatchParent(b) \/ InsertAlarm(b)
Timers(b)  == TimerFires(b) \/ Ring(b) \/ Expire(b)
Watcher(b) == ParentEnds(b) \/ WatcherDisarms(b) \/ WatcherFinishes(b)
Owner(b)   == Cancel(b) \/ CancelDisarms(b) \/ CancelFinishes(b)

Next ==
  \/ Tick
  \/ \E p \in Pauser : PauseClock(p) \/ Resume(p)
  \/ \E b \in Budget : Request(b) \/ Timers(b) \/ Watcher(b) \/ Owner(b)
  \/ RootEnds

\* The Go runtime runs every started goroutine and every timer that is due, and a
\* call that began runs to its end.  Nobody promises that time passes, that a person
\* answers (Resume), that the caller ends its context or that the owner cancels.
Fairness ==
  \A b \in Budget : /\ WF_vars(TimerFires(b)) /\ WF_vars(Ring(b)) /\ WF_vars(Expire(b))
                    /\ WF_vars(ParentEnds(b)) /\ WF_vars(WatcherDisarms(b))
                    /\ WF_vars(WatcherFinishes(b))
                    /\ WF_vars(RefuseSpentBudget(b) \/ WatchParent(b) \/ InsertAlarm(b))
                    /\ WF_vars(CancelDisarms(b)) /\ WF_vars(CancelFinishes(b))

Spec == Init /\ [][Next]_vars
FairSpec == Spec /\ Fairness

-----------------------------------------------------------------------------
(* Properties *)

\* A pending alarm is never lost while the clock runs: some timer of it is due no
\* later than its budget is spent, or a ring of it is waiting for the mutex.
\* (Clock.arm, Clock.ring and Clock.resume between them keep this.)
AlarmWillRing ==
  openPauses = 0 =>
    \A b \in alarms :
      \/ ringing[b] > 0
      \/ timer[b] # NoTimer /\ timer[b] <= now + Remaining(b)

\* A timer that is pending is stopped or fires, and is never overwritten: no timer
\* is left running that Pause and disarm could not stop (Clock.arm, silenceAlarms).
NoTimerIsReplaced ==
  [][\A b \in Budget : timer[b] # NoTimer => timer'[b] \in {timer[b], NoTimer}]_vars

\* A budget ends with a deadline only when its own active time, or that of a
\* budget it was derived from, is really spent -- or the caller's context ended so:
\* no ring that was in flight across a pause cuts a turn short (Clock.ring re-reads
\* the active time under the mutex).
DeadlineIsEarned ==
  \A b \in Budget :
    err[b] = "deadline" =>
      \/ Spent(b)
      \/ err[parent[b]] = "deadline"

\* As long as one of several nested pauses has not been resumed, no budget loses time.
PausesNest ==
  [][(\E p \in Pauser : handle[p] = "open" /\ handle'[p] = "open")
       => \A b \in Budget : pc[b] # "idle" => Active(startedAt[b])' = Active(startedAt[b])]_vars

\* The overlap arithmetic of the code counts exactly the ticks the clock ran.
OverlapsCountTicks == \A start \in 1..now : ActiveBetween(start) = Active(start)

\* A budget that is spent while the clock runs ends, unless somebody pauses first.
SpentBudgetEnds ==
  \A b \in Budget :
    (b \in alarms /\ Spent(b) /\ openPauses = 0) ~> (err[b] # Unfinished \/ openPauses > 0)

\* The clock keeps its promise: the detailed steps are steps of ActiveBudget.
Promise == INSTANCE ActiveBudget WITH
  used    <- [b \in Budget |-> IF pc[b] = "idle" THEN 0 ELSE Active(startedAt[b])],
  holding <- {p \in Pauser : handle[p] = "open"},
  open    <- {b \in Budget : pc[b] # "idle"},
  end     <- err

KeepsPromise == Promise!Spec
=============================================================================
