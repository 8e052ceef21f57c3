------------------------- MODULE ClockAndGoalProofs -------------------------
(***************************************************************************)
(* Proofs about TurnClock, for any number of budgets, any nesting of them, *)
(* any number of pausing calls and any bound on time; then about planning  *)
(* and what a task owes, for any turns, tools and names of old, any words, *)
(* plans and saved goals, and any number of messages.                      *)
(*                                                                         *)
(* The second part goes up from the loops that keep entries of a sequence  *)
(* through results, contracts and decisions, each in the shape its         *)
(* normalisation leaves it in, to the inductive invariants: PlanInv of     *)
(* planning, SelectInv of the calls that pick its tools (for any catalog   *)
(* and budget), and TaskHolds of the task that takes up what was planned.  *)
(***************************************************************************)
EXTENDS TurnClock, TaskGoal, FiniteSetTheorems, WellFoundedInduction, TLAPS

Held == {p \in Pauser : handle[p] = "open"}

\* openPauses counts the resume functions that are still to be called, the last
\* pause is open exactly while there is one, and every pause lies in the past.
PausesInv ==
  /\ openPauses = Cardinality(Held)
  /\ openPauses > 0 => Len(pauses) > 0 /\ IsOpen(pauses[Len(pauses)])
  /\ \A i \in DOMAIN pauses : (openPauses = 0 \/ i # Len(pauses)) => ~IsOpen(pauses[i])
  /\ \A i \in DOMAIN pauses : pauses[i].startedAt <= now /\ pauses[i].endedAt <= now
  /\ \A b \in Budget : startedAt[b] <= now

\* Nothing was set up for a budget before it was requested.
IdleInv ==
  \A b \in Budget : pc[b] = "idle" =>
    b \notin alarms /\ ~expiring[b] /\ err[b] = Unfinished /\ watcher[b] = "off"

\* Whoever is about to end a budget with a deadline read that it was spent, and
\* what was spent stays spent; a watcher runs only once the parent has ended.
DecisionInv ==
  \A b \in Budget :
    /\ expiring[b] => Spent(b)
    /\ pc[b] = "spent?" => Spent(b)
    /\ watcher[b] \in {"called", "disarmed"} => err[parent[b]] # Unfinished

\* While the clock stands still no alarm has a timer.  A timer is never due before the
\* budget is spent, so whoever rings an alarm finds it spent.  Before the alarm is
\* inserted it has neither a timer nor a ring.
TimerInv ==
  \A b \in Budget :
    /\ b \in alarms /\ openPauses > 0 => timer[b] = NoTimer
    /\ b \in alarms /\ timer[b] # NoTimer => Spent(b) \/ now + Remaining(b) <= timer[b]
    /\ b \in alarms /\ ringing[b] > 0 => Spent(b)
    /\ pc[b] \in {"idle", "spent?", "watch", "insert"} =>
         b \notin alarms /\ timer[b] = NoTimer /\ ringing[b] = 0

IInv == /\ TypeOK /\ PausesInv /\ IdleInv /\ DecisionInv /\ TimerInv
        /\ AlarmWillRing /\ DeadlineIsEarned

-----------------------------------------------------------------------------
(* Lemmas about active time *)

LEMMA RunningTicksFinite ==
  ASSUME TypeOK, NEW start \in Nat \ {0}
  PROVE  /\ IsFiniteSet(RunningTicks(start)) /\ Active(start) \in Nat
<1>1. IsFiniteSet(start..(now - 1))
  BY FS_Interval DEF TypeOK
<1>2. RunningTicks(start) \subseteq start..(now - 1)
  BY DEF RunningTicks
<1> QED
  BY <1>1, <1>2, FS_Subset, FS_CardinalityType DEF Active

\* A step that leaves the covered ticks of the past alone leaves active time alone.
LEMMA ActiveUnchanged ==
  ASSUME now' = now, NEW start,
         \A t \in start..(now - 1) : Covered(t)' <=> Covered(t)
  PROVE  Active(start)' = Active(start)
<1>1. RunningTicks(start)' = RunningTicks(start)
  BY DEF RunningTicks
<1> QED
  BY <1>1 DEF Active

LEMMA ActiveUnderSamePauses ==
  ASSUME now' = now, pauses' = pauses, NEW start
  PROVE  Active(start)' = Active(start)
<1>1. \A t : Covered(t)' <=> Covered(t)
  BY DEF Covered, IsOpen
<1> QED
  BY <1>1, ActiveUnchanged

\* A tick adds one to the active time of a started budget, or none when it is covered.
LEMMA ActiveOnTick ==
  ASSUME TypeOK, now' = now + 1, pauses' = pauses, NEW start \in Nat \ {0}, start <= now
  PROVE  /\ Covered(now) => Active(start)' = Active(start)
         /\ ~Covered(now) => Active(start)' = Active(start) + 1
<1>0. now \in Nat /\ start..(now' - 1) = (start..(now - 1)) \cup {now} /\ now \notin start..(now - 1)
  BY DEF TypeOK
<1>1. \A t : Covered(t)' <=> Covered(t)
  BY DEF Covered, IsOpen
<1>2. RunningTicks(start)' = IF Covered(now) THEN RunningTicks(start)
                                             ELSE RunningTicks(start) \cup {now}
  BY <1>0, <1>1 DEF RunningTicks
<1>3. now \notin RunningTicks(start)
  BY <1>0 DEF RunningTicks
<1>4. IsFiniteSet(RunningTicks(start))
  BY RunningTicksFinite
<1>5. ~Covered(now) => Cardinality(RunningTicks(start) \cup {now}) = Cardinality(RunningTicks(start)) + 1
  BY <1>3, <1>4, FS_AddElement
<1> QED
  BY <1>2, <1>5 DEF Active

\* Opening a pause covers no tick that is over.
LEMMA ActiveOnPause ==
  ASSUME TypeOK, PausesInv, now' = now, NEW start \in Nat \ {0},
         pauses' = Append(pauses, [startedAt |-> now, endedAt |-> 0])
  PROVE  Active(start)' = Active(start)
<1>1. ASSUME NEW t \in start..(now - 1) PROVE Covered(t)' <=> Covered(t)
  <2>1. /\ DOMAIN pauses' = 1..(Len(pauses) + 1)
        /\ \A i \in DOMAIN pauses : pauses'[i] = pauses[i]
        /\ pauses'[Len(pauses) + 1].startedAt = now
        /\ DOMAIN pauses = 1..Len(pauses) /\ Len(pauses) \in Nat
    BY DEF TypeOK
  <2>2. ~(now <= t)
    BY DEF TypeOK
  <2> QED
    BY <2>1, <2>2 DEF Covered, IsOpen
<1> QED
  BY <1>1, ActiveUnchanged

\* Ending the open pause uncovers no tick that is over.
LEMMA ActiveOnResume ==
  ASSUME TypeOK, PausesInv, openPauses > 0, now' = now, NEW start \in Nat \ {0},
         pauses' = [pauses EXCEPT ![Len(pauses)] = [@ EXCEPT !.endedAt = now]]
  PROVE  Active(start)' = Active(start)
<1>1. ASSUME NEW t \in start..(now - 1) PROVE Covered(t)' <=> Covered(t)
  <2> DEFINE n == Len(pauses)
  <2>1. n \in DOMAIN pauses /\ IsOpen(pauses[n]) /\ pauses[n] \in Pause
    BY DEF TypeOK, PausesInv
  <2>2. /\ DOMAIN pauses' = DOMAIN pauses
        /\ \A i \in DOMAIN pauses : i # n => pauses'[i] = pauses[i]
        /\ pauses'[n].startedAt = pauses[n].startedAt /\ pauses'[n].endedAt = now
    BY <2>1 DEF TypeOK, Pause
  <2>3. t < now
    BY DEF TypeOK
  <2> QED
    BY <2>1, <2>2, <2>3 DEF Covered, IsOpen
<1> QED
  BY <1>1, ActiveUnchanged

-----------------------------------------------------------------------------
(* Type correctness *)

LEMMA RemainingType ==
  ASSUME TypeOK, ClockAssumption, NEW b \in Budget
  PROVE  Remaining(b) \in Nat /\ Active(startedAt[b]) \in Nat
<1>1. startedAt[b] \in Nat \ {0} /\ size[b] \in Nat
  BY DEF TypeOK, ClockAssumption
<1>2. Active(startedAt[b]) \in Nat
  BY <1>1, RunningTicksFinite
<1> QED
  BY <1>1, <1>2 DEF Remaining

LEMMA ArmType ==
  ASSUME TypeOK, ClockAssumption, NEW S \in SUBSET Budget, Arm(S)
  PROVE  timer' \in [Budget -> Nat]
<1>1. \A b \in Budget : now + Remaining(b) \in Nat
  BY RemainingType DEF TypeOK
<1> QED
  BY <1>1 DEF Arm, TypeOK, NoTimer

LEMMA TypeInit ==
  ASSUME ClockAssumption, Init
  PROVE  TypeOK
BY DEF ClockAssumption, Init, TypeOK, Ends, Unfinished, NoTimer, Pause

\* The resume functions that are open are as many as openPauses says.
LEMMA OpenHandleCounted ==
  ASSUME ClockAssumption, PausesInv, NEW p \in Pauser, handle[p] = "open"
  PROVE  openPauses \in Nat /\ openPauses > 0
<1>1. IsFiniteSet(Held) /\ p \in Held
  BY FS_Subset DEF Held, ClockAssumption
<1> QED
  BY <1>1, FS_CardinalityType, FS_EmptySet DEF PausesInv

LEMMA TypeStep ==
  ASSUME ClockAssumption, TypeOK, PausesInv, [Next]_vars
  PROVE  TypeOK'
<1> USE DEF TypeOK, clockVars, timerVars
<1>1. CASE Tick
  BY <1>1 DEF Tick
<1>2. ASSUME NEW p \in Pauser, PauseClock(p) PROVE TypeOK'
  <2>1. [startedAt |-> now, endedAt |-> 0] \in Pause
    BY DEF Pause
  <2>2. pauses' \in Seq(Pause)
    <3>1. Append(pauses, [startedAt |-> now, endedAt |-> 0]) \in Seq(Pause)
      BY <2>1
    <3> QED
      BY <1>2, <3>1 DEF PauseClock
  <2>3. timer' \in [Budget -> Nat]
    BY <1>2 DEF PauseClock, Silence, NoTimer
  <2> QED
    BY <1>2, <2>2, <2>3 DEF PauseClock
<1>3. ASSUME NEW p \in Pauser, Resume(p) PROVE TypeOK'
  <2>1. CASE handle[p] = "open"
    <3>1. openPauses' \in Nat
      BY <1>3, <2>1, OpenHandleCounted DEF Resume, EndPause
    <3>2. timer' \in [Budget -> Nat]
      BY <1>3, <2>1, ArmType DEF Resume, EndPause
    <3>3. pauses' \in Seq(Pause)
      <4>1. CASE openPauses > 1
        BY <1>3, <2>1, <4>1 DEF Resume, EndPause
      <4>2. CASE ~(openPauses > 1)
        <5>1. openPauses > 0 /\ Len(pauses) \in DOMAIN pauses /\ pauses[Len(pauses)] \in Pause
          BY <2>1, OpenHandleCounted DEF PausesInv
        <5>2. [pauses[Len(pauses)] EXCEPT !.endedAt = now] \in Pause
          BY <5>1 DEF Pause
        <5>3. pauses' = [pauses EXCEPT ![Len(pauses)] = [@ EXCEPT !.endedAt = now]]
          BY <1>3, <2>1, <4>2 DEF Resume, EndPause
        <5> QED
          BY <5>1, <5>2, <5>3
      <4> QED
        BY <4>1, <4>2
    <3> QED
      BY <1>3, <3>1, <3>2, <3>3 DEF Resume
  <2>2. CASE handle[p] # "open"
    BY <1>3, <2>2 DEF Resume
  <2> QED
    BY <2>1, <2>2
<1>4. ASSUME NEW b \in Budget, Request(b) PROVE TypeOK'
  <2>1. CASE RequestBudget(b)
    <3>1. \A start \in 1..now : start \in Nat \ {0}
      OBVIOUS
    <3> QED
      BY <2>1, <3>1 DEF RequestBudget
  <2>2. CASE RefuseSpentBudget(b)
    BY <2>2 DEF RefuseSpentBudget, Finish, Ends
  <2>3. CASE WatchParent(b)
    BY <2>3 DEF WatchParent
  <2>4. CASE InsertAlarm(b)
    <3>1. timer' \in [Budget -> Nat]
      BY <2>4, ArmType DEF InsertAlarm, ArmUnlessPaused
    <3> QED
      BY <2>4, <3>1 DEF InsertAlarm
  <2> QED
    BY <1>4, <2>1, <2>2, <2>3, <2>4 DEF Request
<1>5. ASSUME NEW b \in Budget, Timers(b) PROVE TypeOK'
  <2>1. CASE TimerFires(b)
    BY <2>1 DEF TimerFires, NoTimer
  <2>3. CASE Ring(b)
    <3>1. timer' \in [Budget -> Nat]
      <4>1. CASE Arm({b})
        BY <4>1, ArmType
      <4>2. CASE UNCHANGED timer
        BY <4>2
      <4> QED
        BY <2>3, <4>1, <4>2 DEF Ring
    <3>2. ringing' \in [Budget -> Nat]
      BY <2>3 DEF Ring
    <3>3. alarms' \subseteq Budget
      BY <2>3 DEF Ring
    <3>4. expiring' \in [Budget -> BOOLEAN]
      BY <2>3 DEF Ring
    <3> QED
      BY <2>3, <3>1, <3>2, <3>3, <3>4 DEF Ring
  <2>4. CASE Expire(b)
    BY <2>4 DEF Expire, Finish, Ends
  <2> QED
    BY <1>5, <2>1, <2>3, <2>4 DEF Timers
<1>6. ASSUME NEW b \in Budget, Watcher(b) PROVE TypeOK'
  <2>1. CASE ParentEnds(b)
    BY <2>1 DEF ParentEnds
  <2>2. CASE WatcherDisarms(b)
    BY <2>2 DEF WatcherDisarms, Disarm, Silence, NoTimer
  <2>3. CASE WatcherFinishes(b)
    <3>1. parent[b] \in Budget \cup {Root}
      BY DEF ClockAssumption
    <3> QED
      BY <2>3, <3>1 DEF WatcherFinishes, Finish
  <2> QED
    BY <1>6, <2>1, <2>2, <2>3 DEF Watcher
<1>7. ASSUME NEW b \in Budget, Owner(b) PROVE TypeOK'
  <2>1. CASE Cancel(b)
    BY <2>1 DEF Cancel
  <2>2. CASE CancelDisarms(b)
    BY <2>2 DEF CancelDisarms, Disarm, Silence, NoTimer
  <2>3. CASE CancelFinishes(b)
    BY <2>3 DEF CancelFinishes, Finish, Ends
  <2> QED
    BY <1>7, <2>1, <2>2, <2>3 DEF Owner
<1>8. CASE RootEnds
  BY <1>8 DEF RootEnds, Finish
<1>9. CASE UNCHANGED vars
  BY <1>9 DEF vars
<1> QED
  BY <1>1, <1>2, <1>3, <1>4, <1>5, <1>6, <1>7, <1>8, <1>9 DEF Next

-----------------------------------------------------------------------------
(* Pauses *)

\* A step that is neither a tick, a pause nor the end of one leaves the clock alone.
LEMMA ClockSteps ==
  ASSUME [Next]_vars
  PROVE  \/ Tick
         \/ \E p \in Pauser : PauseClock(p)
         \/ \E p \in Pauser : Resume(p) /\ handle[p] = "open"
         \/ UNCHANGED <<now, pauses, openPauses>> /\ Held' = Held
<1> USE DEF clockVars, Held
<1>1. ASSUME NEW p \in Pauser, Resume(p), handle[p] # "open"
      PROVE  UNCHANGED <<now, pauses, openPauses>> /\ Held' = Held
  <2>1. \A q \in Pauser : handle[q] = "open" <=> handle'[q] = "open"
    BY <1>1 DEF Resume
  <2> QED
    BY <1>1, <2>1 DEF Resume
<1>2. ASSUME NEW b \in Budget, Request(b) PROVE UNCHANGED clockVars
  BY <1>2 DEF Request, RequestBudget, RefuseSpentBudget, WatchParent, InsertAlarm
<1>3. ASSUME NEW b \in Budget, Timers(b) PROVE UNCHANGED clockVars
  BY <1>3 DEF Timers, TimerFires, Ring, Expire
<1>4. ASSUME NEW b \in Budget, Watcher(b) PROVE UNCHANGED clockVars
  BY <1>4 DEF Watcher, ParentEnds, WatcherDisarms, WatcherFinishes
<1>5. ASSUME NEW b \in Budget, Owner(b) PROVE UNCHANGED clockVars
  BY <1>5 DEF Owner, Cancel, CancelDisarms, CancelFinishes
<1>6. RootEnds => UNCHANGED clockVars
  BY DEF RootEnds
<1>7. UNCHANGED vars => UNCHANGED clockVars
  BY DEF vars
<1> QED
  BY <1>1, <1>2, <1>3, <1>4, <1>5, <1>6, <1>7 DEF Next

\* The start of a budget is fixed once, by a request, at an instant that has come.
LEMMA StartSteps ==
  ASSUME TypeOK, [Next]_vars, NEW b \in Budget
  PROVE  \/ startedAt'[b] = startedAt[b]
         \/ /\ pc[b] = "idle" /\ pc'[b] # "idle" /\ now' = now
            /\ startedAt'[b] \in 1..now
<1> USE DEF clockVars, TypeOK
<1>1. CASE \E c \in Budget : RequestBudget(c)
  BY <1>1 DEF RequestBudget
<1>2. CASE UNCHANGED startedAt
  BY <1>2
<1>3. ASSUME NEW c \in Budget, Request(c), ~RequestBudget(c) PROVE UNCHANGED startedAt
  BY <1>3 DEF Request, RefuseSpentBudget, WatchParent, InsertAlarm
<1>4. ASSUME NEW c \in Budget, Timers(c) PROVE UNCHANGED startedAt
  BY <1>4 DEF Timers, TimerFires, Ring, Expire
<1>5. ASSUME NEW c \in Budget, Watcher(c) PROVE UNCHANGED startedAt
  BY <1>5 DEF Watcher, ParentEnds, WatcherDisarms, WatcherFinishes
<1>6. ASSUME NEW c \in Budget, Owner(c) PROVE UNCHANGED startedAt
  BY <1>6 DEF Owner, Cancel, CancelDisarms, CancelFinishes
<1>7. ASSUME NEW p \in Pauser, PauseClock(p) \/ Resume(p) PROVE UNCHANGED startedAt
  BY <1>7 DEF PauseClock, Resume
<1>8. Tick \/ RootEnds \/ UNCHANGED vars => UNCHANGED startedAt
  BY DEF Tick, RootEnds, vars
<1> QED
  BY <1>1, <1>2, <1>3, <1>4, <1>5, <1>6, <1>7, <1>8 DEF Next

LEMMA HeldFinite ==
  ASSUME ClockAssumption
  PROVE  IsFiniteSet(Held) /\ Cardinality(Held) \in Nat /\ (Cardinality(Held) = 0 <=> Held = {})
<1>1. IsFiniteSet(Held)
  BY FS_Subset DEF Held, ClockAssumption
<1> QED
  BY <1>1, FS_CardinalityType, FS_EmptySet

LEMMA PausesStep ==
  ASSUME ClockAssumption, TypeOK, PausesInv, [Next]_vars
  PROVE  PausesInv'
<1> USE DEF TypeOK
<1>s. \A b \in Budget : startedAt'[b] <= now'
  <2>1. now' >= now
    BY ClockSteps DEF Tick, PauseClock, Resume
  <2>2. ASSUME NEW b \in Budget PROVE startedAt'[b] <= now'
    <3>1. startedAt[b] \in Nat /\ now \in Nat /\ now' \in Nat /\ startedAt[b] <= now
      BY TypeStep DEF PausesInv
    <3>2. CASE startedAt'[b] = startedAt[b]
      BY <2>1, <3>1, <3>2
    <3>3. CASE now' = now /\ startedAt'[b] \in 1..now
      BY <3>1, <3>3
    <3> QED
      BY <3>2, <3>3, StartSteps
  <2> QED
    BY <2>2
<1>1. CASE Tick
  <2>1. Held' = Held /\ pauses' = pauses /\ openPauses' = openPauses /\ now' = now + 1
    BY <1>1 DEF Tick, Held
  <2>2. ASSUME NEW i \in DOMAIN pauses PROVE pauses[i].startedAt <= now' /\ pauses[i].endedAt <= now'
    <3>1. pauses[i] \in Pause /\ now \in Nat
      OBVIOUS
    <3> QED
      BY <2>1, <3>1 DEF PausesInv, Pause
  <2> QED
    BY <2>1, <2>2, <1>s DEF PausesInv, IsOpen
<1>2. ASSUME NEW p \in Pauser, PauseClock(p) PROVE PausesInv'
  <2>1. Held' = Held \cup {p} /\ p \notin Held
    BY <1>2 DEF PauseClock, Held
  <2>2. openPauses' = Cardinality(Held')
    BY <1>2, <2>1, HeldFinite, FS_AddElement DEF PauseClock, PausesInv
  <2>3. CASE openPauses = 0
    <3>1. pauses' = Append(pauses, [startedAt |-> now, endedAt |-> 0]) /\ now' = now /\ openPauses' = 1
      BY <1>2, <2>3 DEF PauseClock
    <3>2. /\ Len(pauses') = Len(pauses) + 1 /\ DOMAIN pauses' = 1..(Len(pauses) + 1)
          /\ \A i \in DOMAIN pauses : pauses'[i] = pauses[i]
          /\ pauses'[Len(pauses) + 1] = [startedAt |-> now, endedAt |-> 0]
      BY <3>1
    <3>3. /\ Len(pauses') > 0 /\ pauses'[Len(pauses')].endedAt = 0
          /\ pauses'[Len(pauses')].startedAt <= now /\ pauses'[Len(pauses')].endedAt <= now
          /\ \A i \in DOMAIN pauses' : i # Len(pauses') => i \in DOMAIN pauses
      BY <3>2
    <3>4. ASSUME NEW i \in DOMAIN pauses', i # Len(pauses')
          PROVE  /\ pauses'[i].startedAt <= now /\ pauses'[i].endedAt <= now
                 /\ pauses'[i].endedAt # 0
      BY <2>3, <3>2, <3>3, <3>4 DEF PausesInv, IsOpen
    <3> QED
      BY <3>1, <3>3, <3>4, <2>2, <1>s DEF PausesInv, IsOpen
  <2>4. CASE openPauses # 0
    <3>1. UNCHANGED <<pauses, now>> /\ openPauses' = openPauses + 1
      BY <1>2, <2>4 DEF PauseClock
    <3> QED
      BY <3>1, <2>2, <2>4, <1>s DEF PausesInv, IsOpen
  <2> QED
    BY <2>3, <2>4
<1>3. ASSUME NEW p \in Pauser, Resume(p), handle[p] = "open" PROVE PausesInv'
  <2>1. Held' = Held \ {p} /\ p \in Held
    BY <1>3 DEF Resume, Held
  <2>2. openPauses' = Cardinality(Held') /\ openPauses > 0 /\ openPauses' = openPauses - 1 /\ now' = now
    BY <1>3, <2>1, HeldFinite, OpenHandleCounted, FS_RemoveElement DEF Resume, EndPause, PausesInv
  <2>3. CASE openPauses > 1
    <3>1. UNCHANGED pauses
      BY <1>3, <2>3 DEF Resume, EndPause
    <3> QED
      BY <3>1, <2>2, <2>3, <1>s DEF PausesInv, IsOpen
  <2>4. CASE openPauses = 1
    <3> DEFINE n == Len(pauses)
    <3>1. pauses' = [pauses EXCEPT ![n] = [@ EXCEPT !.endedAt = now]]
      BY <1>3, <2>4 DEF Resume, EndPause
    <3>2. n \in DOMAIN pauses /\ n = Len(pauses) /\ pauses[n] \in Pause
      BY <2>4 DEF PausesInv
    <3>3. /\ DOMAIN pauses' = DOMAIN pauses
          /\ pauses'[n].endedAt = now /\ pauses'[n].startedAt = pauses[n].startedAt
          /\ \A i \in DOMAIN pauses : i # n => pauses'[i] = pauses[i]
      BY <3>1, <3>2 DEF Pause
    <3>4. openPauses' = 0
      BY <2>2, <2>4
    <3>5. \A i \in DOMAIN pauses' : i # n => pauses'[i].endedAt # 0
      <4> SUFFICES ASSUME NEW i \in DOMAIN pauses, i # n, pauses[i].endedAt = 0 PROVE FALSE
        BY <3>3
      <4> QED
        BY <2>4, <3>2 DEF PausesInv, IsOpen
    <3>6. ASSUME NEW i \in DOMAIN pauses' PROVE pauses'[i].startedAt <= now' /\ pauses'[i].endedAt <= now'
      <4>1. CASE i = n
        BY <2>2, <3>2, <3>3, <4>1 DEF PausesInv
      <4>2. CASE i # n
        BY <2>2, <3>3, <4>2 DEF PausesInv
      <4> QED
        BY <4>1, <4>2
    <3>7. Len(pauses') = n /\ pauses'[n].endedAt # 0
      BY <3>1, <3>2, <3>3
    <3> HIDE DEF n
    <3> QED
      BY <3>4, <3>5, <3>6, <3>7, <2>2, <1>s DEF PausesInv, IsOpen
  <2> QED
    BY <2>2, <2>3, <2>4
<1>4. CASE UNCHANGED <<now, pauses, openPauses>> /\ Held' = Held
  BY <1>4, <1>s DEF PausesInv, IsOpen
<1> QED
  BY <1>1, <1>2, <1>3, <1>4, ClockSteps

-----------------------------------------------------------------------------
(* Active time under a step *)

\* Active time stands still, or grows with the wall clock by the same tick.
LEMMA ActiveStep ==
  ASSUME ClockAssumption, TypeOK, PausesInv, [Next]_vars,
         NEW start \in Nat \ {0}, start <= now
  PROVE  \/ now' = now /\ Active(start)' = Active(start)
         \/ now' = now + 1 /\ openPauses' = openPauses
            /\ Active(start)' \in {Active(start), Active(start) + 1}
<1>1. CASE Tick
  BY <1>1, ActiveOnTick DEF Tick
<1>2. ASSUME NEW p \in Pauser, PauseClock(p)
      PROVE  now' = now /\ Active(start)' = Active(start)
  <2>1. CASE openPauses = 0
    BY <1>2, <2>1, ActiveOnPause DEF PauseClock
  <2>2. CASE openPauses # 0
    BY <1>2, <2>2, ActiveUnderSamePauses DEF PauseClock
  <2> QED
    BY <2>1, <2>2
<1>3. ASSUME NEW p \in Pauser, Resume(p), handle[p] = "open"
      PROVE  now' = now /\ Active(start)' = Active(start)
  <2>1. CASE openPauses > 1
    BY <1>3, <2>1, ActiveUnderSamePauses DEF Resume, EndPause
  <2>2. CASE ~(openPauses > 1)
    BY <1>3, <2>2, ActiveOnResume, OpenHandleCounted DEF Resume, EndPause
  <2> QED
    BY <2>1, <2>2
<1>4. CASE UNCHANGED <<now, pauses, openPauses>>
  BY <1>4, ActiveUnderSamePauses
<1> QED
  BY <1>1, <1>2, <1>3, <1>4, ClockSteps

\* What is spent stays spent, and no step brings the instant nearer at which the
\* budget would be spent if the clock ran on.
LEMMA RemainingStep ==
  ASSUME ClockAssumption, TypeOK, PausesInv, [Next]_vars,
         NEW b \in Budget, startedAt'[b] = startedAt[b]
  PROVE  /\ Remaining(b) \in Nat /\ Remaining(b)' \in Nat
         /\ Spent(b) => Spent(b)'
         /\ now + Remaining(b) <= now' + Remaining(b)'
         /\ now' = now => Remaining(b)' = Remaining(b)
<1> DEFINE start == startedAt[b]
<1>1. start \in Nat \ {0} /\ start <= now /\ now \in Nat /\ size[b] \in Nat
  BY DEF TypeOK, PausesInv, ClockAssumption
<1>2. Active(start) \in Nat
  BY <1>1, RunningTicksFinite
<1>3. \/ now' = now /\ Active(start)' = Active(start)
      \/ now' = now + 1 /\ Active(start)' \in {Active(start), Active(start) + 1}
  BY <1>1, ActiveStep
<1>4. Active(startedAt[b])' = Active(start)'
  BY DEF Active, RunningTicks, Covered
<1> QED
  BY <1>1, <1>2, <1>3, <1>4 DEF Remaining, Spent

-----------------------------------------------------------------------------
(* Budgets that were not requested, and decisions on the way *)

LEMMA IdleStep ==
  ASSUME ClockAssumption, TypeOK, IdleInv, [Next]_vars
  PROVE  IdleInv'
<1> USE DEF clockVars, timerVars, TypeOK, IdleInv
<1>1. ASSUME NEW p \in Pauser, PauseClock(p) PROVE IdleInv'
  BY <1>1 DEF PauseClock
<1>2. ASSUME NEW p \in Pauser, Resume(p) PROVE IdleInv'
  BY <1>2 DEF Resume
<1>3. ASSUME NEW b \in Budget, Request(b) PROVE IdleInv'
  <2>1. CASE RequestBudget(b)
    BY <2>1 DEF RequestBudget
  <2>2. CASE RefuseSpentBudget(b)
    BY <2>2 DEF RefuseSpentBudget, Finish
  <2>3. CASE WatchParent(b)
    BY <2>3 DEF WatchParent
  <2>4. CASE InsertAlarm(b)
    BY <2>4 DEF InsertAlarm
  <2> QED
    BY <1>3, <2>1, <2>2, <2>3, <2>4 DEF Request
<1>4. ASSUME NEW b \in Budget, Timers(b) PROVE IdleInv'
  <2>1. CASE TimerFires(b)
    BY <2>1 DEF TimerFires
  <2>2. CASE Ring(b)
    BY <2>2 DEF Ring
  <2>3. CASE Expire(b)
    BY <2>3 DEF Expire, Finish
  <2> QED
    BY <1>4, <2>1, <2>2, <2>3 DEF Timers
<1>5. ASSUME NEW b \in Budget, Watcher(b) PROVE IdleInv'
  BY <1>5 DEF Watcher, ParentEnds, WatcherDisarms, WatcherFinishes, Disarm, Finish
<1>6. ASSUME NEW b \in Budget, Owner(b) PROVE IdleInv'
  BY <1>6 DEF Owner, Cancel, CancelDisarms, CancelFinishes, Disarm, Finish
<1>7. CASE RootEnds
  BY <1>7 DEF RootEnds, Finish, ClockAssumption
<1>8. CASE Tick \/ UNCHANGED vars
  BY <1>8 DEF Tick, vars
<1> QED
  BY <1>1, <1>2, <1>3, <1>4, <1>5, <1>6, <1>7, <1>8 DEF Next

\* The first error of a context is its last: finish changes err only from nil.
LEMMA FirstEndStep ==
  ASSUME TypeOK, [Next]_vars, NEW c \in Budget \cup {Root}, err[c] # Unfinished
  PROVE  err'[c] = err[c]
<1>1. ASSUME NEW d, NEW how, Finish(d, how) PROVE err'[c] = err[c]
  BY <1>1 DEF Finish, TypeOK
<1>2. ASSUME NEW b \in Budget, Request(b) \/ Timers(b) \/ Watcher(b) \/ Owner(b)
      PROVE  UNCHANGED err \/ \E d, how : Finish(d, how)
  BY <1>2 DEF Request, RequestBudget, RefuseSpentBudget, WatchParent, InsertAlarm, Timers,
              TimerFires, Ring, Expire, Watcher, ParentEnds, WatcherDisarms,
              WatcherFinishes, Owner, Cancel, CancelDisarms, CancelFinishes
<1>3. ASSUME NEW p \in Pauser, PauseClock(p) \/ Resume(p) PROVE UNCHANGED err
  BY <1>3 DEF PauseClock, Resume
<1>4. Tick \/ UNCHANGED vars => UNCHANGED err
  BY DEF Tick, vars
<1>5. RootEnds => \E how : Finish(Root, how)
  BY DEF RootEnds
<1> QED
  BY <1>1, <1>2, <1>3, <1>4, <1>5 DEF Next

\* Only a request moves a start, and only that of a budget it then leaves "idle".
LEMMA SpentStep ==
  ASSUME ClockAssumption, TypeOK, PausesInv, [Next]_vars, NEW b \in Budget,
         pc[b] # "idle", Spent(b)
  PROVE  Spent(b)'
<1>1. startedAt'[b] = startedAt[b]
  BY StartSteps
<1> QED
  BY <1>1, RemainingStep

\* Where b's owner is and what its watcher does changes only in steps of b itself.
LEMMA OwnSteps ==
  ASSUME TypeOK, [Next]_vars, NEW b \in Budget,
         pc'[b] # pc[b] \/ watcher'[b] # watcher[b]
  PROVE  Request(b) \/ Watcher(b) \/ Owner(b)
<1> USE DEF TypeOK
<1> DEFINE Still == pc'[b] = pc[b] /\ watcher'[b] = watcher[b]
<1>1. ASSUME NEW c \in Budget, c # b, Request(c) PROVE Still
  BY <1>1 DEF Request, RequestBudget, RefuseSpentBudget, WatchParent, InsertAlarm
<1>2. ASSUME NEW c \in Budget, Timers(c) PROVE Still
  BY <1>2 DEF Timers, TimerFires, Ring, Expire
<1>3. ASSUME NEW c \in Budget, c # b, Watcher(c) PROVE Still
  BY <1>3 DEF Watcher, ParentEnds, WatcherDisarms, WatcherFinishes
<1>4. ASSUME NEW c \in Budget, c # b, Owner(c) PROVE Still
  BY <1>4 DEF Owner, Cancel, CancelDisarms, CancelFinishes
<1>5. ASSUME NEW p \in Pauser, PauseClock(p) \/ Resume(p) PROVE Still
  BY <1>5 DEF PauseClock, Resume
<1>6. Tick \/ RootEnds \/ UNCHANGED vars => Still
  BY DEF Tick, RootEnds, vars
<1> QED
  BY <1>1, <1>2, <1>3, <1>4, <1>5, <1>6 DEF Next

LEMMA DecisionStep ==
  ASSUME ClockAssumption, TypeOK, PausesInv, IdleInv, DecisionInv, [Next]_vars
  PROVE  DecisionInv'
<1> SUFFICES ASSUME NEW b \in Budget
             PROVE  /\ expiring'[b] => Spent(b)'
                    /\ pc'[b] = "spent?" => Spent(b)'
                    /\ watcher'[b] \in {"called", "disarmed"} => err'[parent[b]] # Unfinished
  BY DEF DecisionInv
<1> USE DEF clockVars, timerVars, TypeOK
<1>1. ASSUME expiring'[b], ~expiring[b] PROVE Spent(b) /\ pc[b] # "idle"
  <2>1. \E c \in Budget : Ring(c)
    BY <1>1 DEF Next, Tick, PauseClock, Resume, Request, RequestBudget, RefuseSpentBudget,
                WatchParent, InsertAlarm, Timers, TimerFires, Expire, Watcher,
                ParentEnds, WatcherDisarms, WatcherFinishes, Owner, Cancel, CancelDisarms,
                CancelFinishes, RootEnds, vars
  <2> QED
    BY <1>1, <2>1 DEF Ring, IdleInv
<1>2. ASSUME expiring'[b] PROVE Spent(b)'
  BY <1>1, <1>2, SpentStep DEF DecisionInv, IdleInv
<1>3. ASSUME pc'[b] = "spent?", pc[b] # "spent?" PROVE Spent(b)'
  <2>1. RequestBudget(b)
    <3>1. Request(b) \/ Watcher(b) \/ Owner(b)
      BY <1>3, OwnSteps
    <3>2. ~Watcher(b)
      BY <1>3 DEF Watcher, ParentEnds, WatcherDisarms, WatcherFinishes
    <3>3. ~Owner(b)
      BY <1>3 DEF Owner, Cancel, CancelDisarms, CancelFinishes
    <3>4. ~RefuseSpentBudget(b) /\ ~WatchParent(b) /\ ~InsertAlarm(b)
      BY <1>3 DEF RefuseSpentBudget, WatchParent, InsertAlarm
    <3> QED
      BY <3>1, <3>2, <3>3, <3>4 DEF Request
  <2>2. PICK start \in 1..now : /\ startedAt' = [startedAt EXCEPT ![b] = start]
                                /\ pc' = [pc EXCEPT ![b] = IF Active(start) >= size[b]
                                                           THEN "spent?" ELSE "watch"]
    BY <2>1 DEF RequestBudget
  <2>3. Active(start) >= size[b] /\ startedAt'[b] = start
    BY <1>3, <2>2
  <2>4. now' = now /\ pauses' = pauses
    BY <2>1 DEF RequestBudget
  <2>5. Active(start)' = Active(start)
    BY <2>4, ActiveUnderSamePauses
  <2>6. Active(startedAt[b])' = Active(start)'
    BY <2>3 DEF Active, RunningTicks, Covered
  <2>7. size[b] \in Nat /\ Active(start) \in Nat
    BY <2>2, RunningTicksFinite DEF ClockAssumption
  <2> QED
    BY <2>3, <2>5, <2>6, <2>7 DEF Spent, Remaining
<1>4. ASSUME pc'[b] = "spent?" PROVE Spent(b)'
  BY <1>3, <1>4, SpentStep DEF DecisionInv
<1>5. parent[b] \in Budget \cup {Root}
  BY DEF ClockAssumption
<1>6. ASSUME watcher'[b] \in {"called", "disarmed"}, watcher[b] \notin {"called", "disarmed"}
      PROVE  err[parent[b]] # Unfinished
  <2>1. ParentEnds(b)
    BY <1>6, OwnSteps DEF Request, RequestBudget, RefuseSpentBudget, WatchParent, InsertAlarm,
                          Watcher, WatcherDisarms, WatcherFinishes, Owner, Cancel,
                          CancelDisarms, CancelFinishes
  <2> QED
    BY <2>1 DEF ParentEnds
<1>7. ASSUME watcher'[b] \in {"called", "disarmed"} PROVE err'[parent[b]] # Unfinished
  BY <1>5, <1>6, <1>7, FirstEndStep DEF DecisionInv
<1> QED
  BY <1>2, <1>4, <1>7

-----------------------------------------------------------------------------
(* No alarm is lost *)

AlarmOf(b) == \/ ringing[b] > 0
              \/ timer[b] # NoTimer /\ timer[b] <= now + Remaining(b)

\* A fresh timer is due exactly when the budget would be spent.
LEMMA ArmedAlarm ==
  ASSUME ClockAssumption, TypeOK, PausesInv, [Next]_vars, NEW S \in SUBSET Budget, Arm(S),
         NEW b \in S, startedAt'[b] = startedAt[b]
  PROVE  AlarmOf(b)'
<1>1. timer'[b] = now + Remaining(b) /\ now \in Nat \ {0} /\ now' \in Nat
  BY TypeStep DEF Arm, TypeOK
<1>2. Remaining(b) \in Nat /\ now + Remaining(b) <= now' + Remaining(b)'
  BY RemainingStep
<1> QED
  BY <1>1, <1>2 DEF AlarmOf, NoTimer

\* An alarm whose timer and rings are left alone keeps them.
LEMMA KeptAlarm ==
  ASSUME ClockAssumption, TypeOK, PausesInv, [Next]_vars, NEW b \in Budget, AlarmOf(b),
         startedAt'[b] = startedAt[b], timer'[b] = timer[b], ringing'[b] >= ringing[b]
  PROVE  AlarmOf(b)'
<1>1. /\ Remaining(b) \in Nat /\ Remaining(b)' \in Nat
      /\ now + Remaining(b) <= now' + Remaining(b)'
  BY RemainingStep
<1>2. timer[b] \in Nat /\ ringing[b] \in Nat /\ ringing'[b] \in Nat /\ now \in Nat /\ now' \in Nat
  BY TypeStep DEF TypeOK
<1> QED
  BY <1>1, <1>2 DEF AlarmOf

LEMMA AlarmStep ==
  ASSUME ClockAssumption, TypeOK, PausesInv, IdleInv, AlarmWillRing, [Next]_vars
  PROVE  AlarmWillRing'
<1> SUFFICES ASSUME openPauses' = 0, NEW b \in Budget, b \in alarms'
             PROVE  AlarmOf(b)'
  BY TypeStep DEF AlarmWillRing, AlarmOf, TypeOK
<1> USE DEF clockVars, timerVars, TypeOK
<1>0. ASSUME b \in alarms, openPauses = 0 PROVE AlarmOf(b) /\ startedAt'[b] = startedAt[b]
  BY <1>0, StartSteps DEF AlarmWillRing, AlarmOf, IdleInv
<1>1. ASSUME UNCHANGED <<timer, ringing, alarms, openPauses>> PROVE AlarmOf(b)'
  BY <1>0, <1>1, KeptAlarm
<1>2. CASE Tick \/ RootEnds \/ UNCHANGED vars
  BY <1>1, <1>2 DEF Tick, RootEnds, vars
<1>3. ASSUME NEW p \in Pauser, PauseClock(p) PROVE FALSE
  BY <1>3 DEF PauseClock
<1>4. ASSUME NEW p \in Pauser, Resume(p) PROVE AlarmOf(b)'
  <2>1. CASE handle[p] # "open"
    BY <1>1, <1>4, <2>1 DEF Resume
  <2>2. CASE handle[p] = "open"
    <3>1. ~(openPauses > 1)
      BY <1>4, <2>2 DEF Resume, EndPause
    <3>2. Arm(alarms) /\ b \in alarms /\ startedAt'[b] = startedAt[b]
      BY <1>4, <2>2, <3>1 DEF Resume, EndPause
    <3> QED
      BY <3>2, ArmedAlarm
  <2> QED
    BY <2>1, <2>2
<1>5. ASSUME NEW c \in Budget, Request(c) PROVE AlarmOf(b)'
  <2>1. CASE InsertAlarm(c)
    <3>1. openPauses = 0 /\ Arm({c}) /\ UNCHANGED <<ringing, startedAt>> /\ alarms' = alarms \cup {c}
      BY <2>1 DEF InsertAlarm, ArmUnlessPaused
    <3>2. CASE b = c
      BY <3>1, <3>2, ArmedAlarm
    <3>3. CASE b # c
      <4>1. timer'[b] = timer[b] /\ b \in alarms /\ ringing'[b] = ringing[b]
        BY <3>1, <3>3 DEF Arm
      <4> QED
        BY <1>0, <3>1, <4>1, KeptAlarm
    <3> QED
      BY <3>2, <3>3
  <2>2. CASE ~InsertAlarm(c)
    BY <1>1, <1>5, <2>2 DEF Request, RequestBudget, RefuseSpentBudget, WatchParent
  <2> QED
    BY <2>1, <2>2
<1>6. ASSUME NEW c \in Budget, Timers(c) PROVE AlarmOf(b)'
  <2>1. CASE TimerFires(c)
    <3>1. openPauses = 0 /\ b \in alarms /\ UNCHANGED startedAt
      BY <2>1 DEF TimerFires
    <3>2. CASE b = c
      BY <2>1, <3>2 DEF TimerFires, AlarmOf
    <3>3. CASE b # c
      BY <1>0, <2>1, <3>1, <3>3, KeptAlarm DEF TimerFires
    <3> QED
      BY <3>2, <3>3
  <2>3. CASE Ring(c)
    <3>1. openPauses = 0 /\ b \in alarms /\ UNCHANGED startedAt
      BY <2>3 DEF Ring
    <3>2. CASE b = c
      <4>1. Arm({c})
        BY <2>3, <3>1, <3>2 DEF Ring
      <4> QED
        BY <3>1, <3>2, <4>1, ArmedAlarm
    <3>3. CASE b # c
      <4>1. timer'[b] = timer[b] /\ ringing'[b] = ringing[b]
        BY <2>3, <3>3 DEF Ring, Arm
      <4> QED
        BY <1>0, <3>1, <4>1, KeptAlarm
    <3> QED
      BY <3>2, <3>3
  <2>4. CASE Expire(c)
    BY <1>1, <2>4 DEF Expire
  <2> QED
    BY <1>6, <2>1, <2>3, <2>4 DEF Timers
<1>7. ASSUME NEW c \in Budget, alarms' = alarms \ {c}, Silence({c}), UNCHANGED <<startedAt, ringing, openPauses>>
      PROVE  AlarmOf(b)'
  <2>1. b # c /\ b \in alarms /\ timer'[b] = timer[b] /\ ringing'[b] = ringing[b]
    BY <1>7 DEF Silence
  <2> QED
    BY <1>0, <1>7, <2>1, KeptAlarm
<1>8. ASSUME NEW c \in Budget, Watcher(c) PROVE AlarmOf(b)'
  BY <1>1, <1>7, <1>8 DEF Watcher, ParentEnds, WatcherDisarms, WatcherFinishes, Disarm
<1>9. ASSUME NEW c \in Budget, Owner(c) PROVE AlarmOf(b)'
  BY <1>1, <1>7, <1>9 DEF Owner, Cancel, CancelDisarms, CancelFinishes, Disarm
<1> QED
  BY <1>2, <1>3, <1>4, <1>5, <1>6, <1>8, <1>9 DEF Next

-----------------------------------------------------------------------------
(* No timer is early, and none is replaced *)

TimerOf(b) == /\ b \in alarms /\ openPauses > 0 => timer[b] = NoTimer
              /\ b \in alarms /\ timer[b] # NoTimer => Spent(b) \/ now + Remaining(b) <= timer[b]
              /\ b \in alarms /\ ringing[b] > 0 => Spent(b)
              /\ pc[b] \in {"idle", "spent?", "watch", "insert"} =>
                   b \notin alarms /\ timer[b] = NoTimer /\ ringing[b] = 0

\* While nobody holds the clock no pause covers the current tick; otherwise one does.
LEMMA CoveredNow ==
  ASSUME ClockAssumption, TypeOK, PausesInv
  PROVE  Covered(now) <=> Held # {}
<1>1. openPauses = 0 <=> Held = {}
  BY HeldFinite DEF PausesInv
<1>2. CASE openPauses = 0
  <2>1. ASSUME NEW i \in DOMAIN pauses PROVE ~IsOpen(pauses[i]) /\ ~(now < pauses[i].endedAt)
    <3>1. pauses[i] \in Pause /\ now \in Nat
      BY DEF TypeOK
    <3> QED
      BY <1>2, <3>1 DEF PausesInv, Pause
  <2> QED
    BY <1>1, <1>2, <2>1 DEF Covered
<1>3. CASE openPauses # 0
  <2>1. Len(pauses) \in DOMAIN pauses /\ IsOpen(pauses[Len(pauses)])
    BY <1>3 DEF PausesInv, TypeOK
  <2> QED
    BY <1>1, <1>3, <2>1 DEF Covered, PausesInv
<1> QED
  BY <1>2, <1>3

\* A tick of the running clock takes one off what remains.
LEMMA RunningTick ==
  ASSUME ClockAssumption, TypeOK, PausesInv, [Next]_vars, openPauses = 0,
         NEW b \in Budget, startedAt'[b] = startedAt[b], ~Spent(b)
  PROVE  \/ now' = now /\ Remaining(b)' = Remaining(b)
         \/ now' = now + 1 /\ Remaining(b)' = Remaining(b) - 1
<1>1. CASE Tick
  <2> DEFINE start == startedAt[b]
  <2>1. start \in Nat \ {0} /\ start <= now /\ size[b] \in Nat
    BY DEF TypeOK, PausesInv, ClockAssumption
  <2>2. Active(start) \in Nat
    BY <2>1, RunningTicksFinite
  <2>3. Held = {}
    BY HeldFinite DEF PausesInv
  <2>4. Active(start)' = Active(start) + 1
    BY <1>1, <2>1, <2>3, CoveredNow, ActiveOnTick DEF Tick
  <2>5. Active(startedAt[b])' = Active(start)'
    BY DEF Active, RunningTicks, Covered
  <2> QED
    BY <1>1, <2>1, <2>2, <2>4, <2>5 DEF Tick, Remaining, Spent
<1>2. CASE ~Tick
  <2>1. now' = now
    BY <1>2, ClockSteps DEF PauseClock, Resume
  <2> QED
    BY <2>1, RemainingStep
<1> QED
  BY <1>1, <1>2

\* A step that leaves the pauses and the start of an inserted alarm alone keeps what
\* is known of its timer, whether it keeps the timer, stops it or lets it fire.
LEMMA KeptTimer ==
  ASSUME ClockAssumption, TypeOK, PausesInv, [Next]_vars, NEW b \in Budget, TimerOf(b),
         openPauses' > 0 => openPauses > 0 \/ b \notin alarms' \/ timer'[b] = NoTimer,
         timer'[b] \in {timer[b], NoTimer}, b \in alarms' => b \in alarms,
         ringing'[b] > 0 => ringing[b] > 0 \/ (timer[b] # NoTimer /\ timer[b] <= now),
         pc'[b] \in {"idle", "spent?", "watch", "insert"} =>
           pc[b] \in {"idle", "spent?", "watch", "insert"}
  PROVE  TimerOf(b)'
<1>1. CASE pc[b] \in {"idle", "spent?", "watch", "insert"}
  <2>1. b \notin alarms /\ timer[b] = NoTimer /\ ringing[b] = 0
    BY <1>1 DEF TimerOf
  <2>2. ringing'[b] \in Nat
    BY TypeStep DEF TypeOK
  <2> QED
    BY <2>1, <2>2 DEF TimerOf
<1>2. CASE pc[b] \notin {"idle", "spent?", "watch", "insert"}
  <2>1. startedAt'[b] = startedAt[b]
    BY <1>2, StartSteps
  <2>2. /\ Remaining(b) \in Nat /\ Remaining(b)' \in Nat
        /\ Spent(b) => Spent(b)'
        /\ now' = now => Remaining(b)' = Remaining(b)
    BY <2>1, RemainingStep
  <2>3. timer[b] \in Nat /\ now \in Nat /\ now' \in Nat /\ openPauses \in Nat
    BY TypeStep DEF TypeOK
  <2>4. b \in alarms /\ timer[b] # NoTimer /\ timer[b] <= now => Spent(b)
    BY <2>2, <2>3 DEF TimerOf, Spent
  <2>5. b \in alarms' /\ ringing'[b] > 0 => Spent(b)'
    BY <2>2, <2>4 DEF TimerOf
  <2>6. b \in alarms' /\ timer'[b] # NoTimer => Spent(b)' \/ now' + Remaining(b)' <= timer'[b]
    <3> SUFFICES ASSUME b \in alarms, timer'[b] = timer[b], timer[b] # NoTimer, ~Spent(b)
                 PROVE  Spent(b)' \/ now' + Remaining(b)' <= timer'[b]
      BY <2>2
    <3>1. openPauses = 0 /\ now + Remaining(b) <= timer[b]
      BY <2>3 DEF TimerOf
    <3>2. now' = now \/ (now' = now + 1 /\ Remaining(b)' = Remaining(b) - 1)
      BY <3>1, <2>1, <2>2, RunningTick DEF Spent
    <3> QED
      BY <2>2, <2>3, <3>1, <3>2
  <2> QED
    BY <1>2, <2>3, <2>5, <2>6 DEF TimerOf
<1> QED
  BY <1>1, <1>2

\* A timer armed now is due when the budget is spent.
LEMMA ArmedTimer ==
  ASSUME ClockAssumption, TypeOK, PausesInv, [Next]_vars, NEW S \in SUBSET Budget, Arm(S),
         NEW b \in S, now' = now, startedAt'[b] = startedAt[b], openPauses' = 0,
         ringing'[b] > 0 => Spent(b), pc'[b] \notin {"idle", "spent?", "watch", "insert"}
  PROVE  TimerOf(b)'
<1>1. timer'[b] = now + Remaining(b)
  BY DEF Arm, TypeOK
<1>2. /\ Remaining(b) \in Nat /\ Remaining(b)' = Remaining(b)
      /\ Spent(b) => Spent(b)'
  BY RemainingStep
<1>3. now \in Nat
  BY DEF TypeOK
<1>4. now' + Remaining(b)' <= timer'[b]
  BY <1>1, <1>2, <1>3, RemainingStep
<1> QED
  BY <1>2, <1>4 DEF TimerOf

LEMMA TimerStep ==
  ASSUME ClockAssumption, TypeOK, PausesInv, TimerInv, [Next]_vars, NEW b \in Budget
  PROVE  TimerOf(b)' /\ (timer[b] # NoTimer => timer'[b] \in {timer[b], NoTimer})
<1> DEFINE Goal == TimerOf(b)' /\ (timer[b] # NoTimer => timer'[b] \in {timer[b], NoTimer})
<1> USE DEF clockVars, timerVars, TypeOK
<1>0. TimerOf(b)
  BY DEF TimerInv, TimerOf
<1>1. ASSUME UNCHANGED <<timer, ringing, alarms, openPauses>>,
             pc'[b] \in {"idle", "spent?", "watch", "insert"} =>
               pc[b] \in {"idle", "spent?", "watch", "insert"}
      PROVE  Goal
  BY <1>0, <1>1, KeptTimer
<1>2. CASE Tick \/ RootEnds \/ UNCHANGED vars
  BY <1>1, <1>2 DEF Tick, RootEnds, vars
<1>3. ASSUME NEW p \in Pauser, PauseClock(p) PROVE Goal
  <2>1. /\ timer'[b] \in {timer[b], NoTimer} /\ alarms' = alarms /\ ringing' = ringing /\ pc' = pc
        /\ openPauses > 0 \/ b \notin alarms' \/ timer'[b] = NoTimer
    BY <1>3 DEF PauseClock, Silence
  <2> QED
    BY <1>0, <2>1, KeptTimer
<1>4. ASSUME NEW p \in Pauser, Resume(p) PROVE Goal
  <2>1. CASE handle[p] # "open"
    BY <1>1, <1>4, <2>1 DEF Resume
  <2>2. CASE handle[p] = "open" /\ openPauses > 1
    <3>1. UNCHANGED <<timer, ringing, alarms, pc>> /\ openPauses > 0
      BY <1>4, <2>2 DEF Resume, EndPause
    <3> QED
      BY <1>0, <3>1, KeptTimer
  <2>3. CASE handle[p] = "open" /\ ~(openPauses > 1)
    <3>1. /\ Arm(alarms) /\ UNCHANGED <<now, startedAt, alarms, ringing, pc>>
          /\ openPauses = 1 /\ openPauses' = 0
      BY <1>4, <2>3, OpenHandleCounted DEF Resume, EndPause
    <3>2. CASE b \in alarms
      <4>1. timer[b] = NoTimer /\ (ringing[b] > 0 => Spent(b))
            /\ pc[b] \notin {"idle", "spent?", "watch", "insert"}
        BY <1>0, <3>1, <3>2 DEF TimerOf
      <4> QED
        BY <3>1, <3>2, <4>1, ArmedTimer
    <3>3. CASE b \notin alarms
      <4>1. timer'[b] = timer[b]
        BY <3>1, <3>3 DEF Arm
      <4> QED
        BY <1>0, <3>1, <3>3, <4>1, KeptTimer
    <3> QED
      BY <3>2, <3>3
  <2> QED
    BY <2>1, <2>2, <2>3
<1>5. ASSUME NEW c \in Budget, Request(c) PROVE Goal
  <2>1. CASE InsertAlarm(c)
    <3>1. /\ UNCHANGED <<now, startedAt, ringing, openPauses>> /\ alarms' = alarms \cup {c}
          /\ pc[c] = "insert" /\ pc' = [pc EXCEPT ![c] = "live"]
          /\ openPauses > 0 => UNCHANGED timer
          /\ ~(openPauses > 0) => Arm({c})
      BY <2>1 DEF InsertAlarm, ArmUnlessPaused
    <3>2. CASE b = c
      <4>1. timer[b] = NoTimer /\ ringing[b] = 0 /\ pc'[b] = "live"
        BY <1>0, <3>1, <3>2 DEF TimerOf
      <4>2. CASE openPauses > 0
        BY <3>1, <4>1, <4>2 DEF TimerOf
      <4>3. CASE ~(openPauses > 0)
        <5>1. Arm({b}) /\ openPauses' = 0 /\ UNCHANGED <<now, startedAt, ringing>>
          BY <3>1, <3>2, <4>3
        <5>2. pc'[b] \notin {"idle", "spent?", "watch", "insert"} /\ ~(ringing'[b] > 0)
          BY <4>1, <5>1
        <5>3. TimerOf(b)'
          BY <5>1, <5>2, ArmedTimer
        <5> QED
          BY <4>1, <5>3
      <4> QED
        BY <4>2, <4>3
    <3>3. CASE b # c
      <4>1. timer'[b] = timer[b] /\ pc'[b] = pc[b]
        BY <3>1, <3>3 DEF Arm
      <4> QED
        BY <1>0, <3>1, <3>3, <4>1, KeptTimer
    <3> QED
      BY <3>2, <3>3
  <2>2. CASE RequestBudget(c) \/ RefuseSpentBudget(c) \/ WatchParent(c)
    BY <1>1, <2>2 DEF RequestBudget, RefuseSpentBudget, WatchParent
  <2> QED
    BY <1>5, <2>1, <2>2 DEF Request
<1>6. ASSUME NEW c \in Budget, Timers(c) PROVE Goal
  <2>1. CASE TimerFires(c)
    <3>1. /\ timer'[b] \in {timer[b], NoTimer} /\ UNCHANGED <<alarms, openPauses, pc>>
          /\ ringing'[b] > 0 => ringing[b] > 0 \/ (timer[b] # NoTimer /\ timer[b] <= now)
      BY <2>1 DEF TimerFires
    <3> QED
      BY <1>0, <3>1, KeptTimer
  <2>2. CASE Ring(c)
    <3>1. /\ alarms' \subseteq alarms /\ UNCHANGED <<openPauses, pc>>
          /\ ringing'[b] > 0 => ringing[b] > 0
      BY <2>2 DEF Ring
    <3>2. timer'[b] = timer[b]
      <4>1. CASE c \in alarms /\ openPauses = 0 /\ ~Spent(c)
        BY <2>2, <4>1 DEF Ring, TimerInv
      <4>2. CASE ~(c \in alarms /\ openPauses = 0 /\ ~Spent(c))
        BY <2>2, <4>2 DEF Ring
      <4> QED
        BY <4>1, <4>2
    <3> QED
      BY <1>0, <3>1, <3>2, KeptTimer
  <2>3. CASE Expire(c)
    BY <1>1, <2>3 DEF Expire
  <2> QED
    BY <1>6, <2>1, <2>2, <2>3 DEF Timers
<1>7. ASSUME NEW c \in Budget, Disarm(c), UNCHANGED <<ringing, openPauses>>,
             pc'[b] \in {"idle", "spent?", "watch", "insert"} =>
               pc[b] \in {"idle", "spent?", "watch", "insert"}
      PROVE  Goal
  <2>1. timer'[b] \in {timer[b], NoTimer} /\ alarms' \subseteq alarms
    BY <1>7 DEF Disarm, Silence
  <2> QED
    BY <1>0, <1>7, <2>1, KeptTimer
<1>8. ASSUME NEW c \in Budget, Watcher(c) PROVE Goal
  BY <1>1, <1>7, <1>8 DEF Watcher, ParentEnds, WatcherDisarms, WatcherFinishes
<1>9. ASSUME NEW c \in Budget, Owner(c) PROVE Goal
  BY <1>1, <1>7, <1>9 DEF Owner, Cancel, CancelDisarms, CancelFinishes
<1> QED
  BY <1>2, <1>3, <1>4, <1>5, <1>6, <1>8, <1>9 DEF Next

-----------------------------------------------------------------------------
(* Deadlines are earned *)

\* What writes an error, and what it may write.
LEMMA EndSteps ==
  ASSUME ClockAssumption, TypeOK, PausesInv, IdleInv, DecisionInv, [Next]_vars,
         NEW b \in Budget, err'[b] # err[b]
  PROVE  /\ pc[b] # "idle" /\ UNCHANGED <<now, pauses, startedAt>>
         /\ \/ err'[b] = "canceled"
            \/ err'[b] = "deadline" /\ Spent(b)
            \/ err'[b] = err[parent[b]] /\ err[parent[b]] # Unfinished
<1> USE DEF clockVars, timerVars, TypeOK
<1> DEFINE Goal == /\ pc[b] # "idle" /\ UNCHANGED <<now, pauses, startedAt>>
                   /\ \/ err'[b] = "canceled"
                      \/ err'[b] = "deadline" /\ Spent(b)
                      \/ err'[b] = err[parent[b]] /\ err[parent[b]] # Unfinished
<1>1. ASSUME NEW d, NEW how, Finish(d, how) PROVE d = b /\ err'[b] = how
  BY <1>1 DEF Finish
<1>2. ASSUME NEW c \in Budget, Request(c) PROVE Goal
  <2>1. RefuseSpentBudget(c)
    BY <1>2 DEF Request, RequestBudget, WatchParent, InsertAlarm
  <2>2. Finish(c, "deadline") /\ pc[c] = "spent?" /\ UNCHANGED <<now, pauses, startedAt>>
    BY <2>1 DEF RefuseSpentBudget
  <2> QED
    BY <1>1, <2>2 DEF DecisionInv
<1>3. ASSUME NEW c \in Budget, Timers(c) PROVE Goal
  <2>1. Expire(c)
    BY <1>3 DEF Timers, TimerFires, Ring
  <2>2. Finish(c, "deadline") /\ expiring[c] /\ UNCHANGED <<now, pauses, startedAt>>
    BY <2>1 DEF Expire
  <2> QED
    BY <1>1, <2>2 DEF DecisionInv, IdleInv
<1>4. ASSUME NEW c \in Budget, Watcher(c) PROVE Goal
  <2>1. WatcherFinishes(c)
    BY <1>4 DEF Watcher, ParentEnds, WatcherDisarms
  <2>2. Finish(c, err[parent[c]]) /\ watcher[c] = "disarmed" /\ UNCHANGED <<now, pauses, startedAt>>
    BY <2>1 DEF WatcherFinishes
  <2> QED
    BY <1>1, <2>2 DEF DecisionInv, IdleInv
<1>5. ASSUME NEW c \in Budget, Owner(c) PROVE Goal
  <2>1. CancelFinishes(c)
    BY <1>5 DEF Owner, Cancel, CancelDisarms
  <2>2. Finish(c, "canceled") /\ pc[c] = "finish" /\ UNCHANGED <<now, pauses, startedAt>>
    BY <2>1 DEF CancelFinishes
  <2> QED
    BY <1>1, <2>2
<1>6. ~RootEnds
  BY <1>1 DEF RootEnds, ClockAssumption
<1>7. ASSUME NEW p \in Pauser PROVE ~PauseClock(p) /\ ~Resume(p)
  BY DEF PauseClock, Resume
<1>8. ~Tick /\ ~UNCHANGED vars
  BY DEF Tick, vars
<1> QED
  BY <1>2, <1>3, <1>4, <1>5, <1>6, <1>7, <1>8 DEF Next

LEMMA DeadlineStep ==
  ASSUME ClockAssumption, TypeOK, PausesInv, IdleInv, DecisionInv, DeadlineIsEarned, [Next]_vars
  PROVE  DeadlineIsEarned'
<1> SUFFICES ASSUME NEW b \in Budget, err'[b] = "deadline"
             PROVE  Spent(b)' \/ err'[parent[b]] = "deadline"
  BY DEF DeadlineIsEarned
<1>1. parent[b] \in Budget \cup {Root}
  BY DEF ClockAssumption
<1>2. CASE err[b] = "deadline"
  <2>1. pc[b] # "idle"
    BY <1>2 DEF IdleInv, Unfinished
  <2> QED
    BY <1>1, <1>2, <2>1, SpentStep, FirstEndStep DEF DeadlineIsEarned, Unfinished
<1>3. CASE err[b] # "deadline"
  <2>1. /\ pc[b] # "idle"
        /\ Spent(b) \/ (err[parent[b]] = "deadline" /\ err[parent[b]] # Unfinished)
    BY <1>3, EndSteps
  <2> QED
    BY <1>1, <2>1, SpentStep, FirstEndStep
<1> QED
  BY <1>2, <1>3

-----------------------------------------------------------------------------
(* The theorems *)

LEMMA InvInit ==
  ASSUME ClockAssumption, Init
  PROVE  IInv
<1>1. TypeOK
  BY TypeInit
<1>2. Held = {} /\ Cardinality(Held) = 0
  BY FS_EmptySet DEF Init, Held
<1>3. PausesInv
  BY <1>2 DEF Init, PausesInv
<1> QED
  BY <1>1, <1>3 DEF Init, IInv, IdleInv, DecisionInv, TimerInv, AlarmWillRing, DeadlineIsEarned,
                    Unfinished, Ends

LEMMA InvStep ==
  ASSUME ClockAssumption, IInv, [Next]_vars
  PROVE  IInv'
<1>1. TimerInv'
  BY TimerStep, TypeStep DEF IInv, TimerInv, TimerOf
<1> QED
  BY <1>1, TypeStep, PausesStep, IdleStep, DecisionStep, AlarmStep, DeadlineStep DEF IInv

\* The inductive invariant of the clock.
THEOREM ClockInvariant == Spec => []IInv
BY ClockAssumption, InvInit, InvStep, PTL DEF Spec

\* Every variable of the clock keeps its type.
THEOREM TypeCorrect == Spec => []TypeOK
BY ClockInvariant, PTL DEF IInv

\* While the clock runs, every pending alarm has a timer due in time or a ring at
\* the mutex: Pause, resume, arm, ring and disarm between them lose no wake-up.
THEOREM NoAlarmIsLost == Spec => []AlarmWillRing
BY ClockInvariant, PTL DEF IInv

\* No timer that is still pending is overwritten, so Pause and disarm reach every one.
THEOREM TimersStayInReach == Spec => NoTimerIsReplaced
<1>1. ASSUME IInv, [Next]_vars
      PROVE  [\A b \in Budget : timer[b] # NoTimer => timer'[b] \in {timer[b], NoTimer}]_vars
  BY <1>1, ClockAssumption, TimerStep DEF IInv
<1> QED
  BY <1>1, ClockInvariant, PTL DEF Spec, NoTimerIsReplaced

\* No budget is ended early: a deadline means the active time is spent, its own or
\* that of a context it was derived from.
THEOREM DeadlinesAreEarned == Spec => []DeadlineIsEarned
BY ClockInvariant, PTL DEF IInv

-----------------------------------------------------------------------------
(* The clock implements ActiveBudget *)

Used == [b \in Budget |-> IF pc[b] = "idle" THEN 0 ELSE Active(startedAt[b])]
Opened == {b \in Budget : pc[b] # "idle"}

\* What a step without a tick leaves of the time used.
LEMMA UsedUnchanged ==
  ASSUME ClockAssumption, TypeOK, PausesInv, [Next]_vars, now' = now, NEW b \in Budget,
         startedAt'[b] = startedAt[b]
  PROVE  Active(startedAt[b])' = Active(startedAt[b])
<1> DEFINE start == startedAt[b]
<1>1. start \in Nat \ {0} /\ start <= now /\ now \in Nat
  BY DEF TypeOK, PausesInv
<1> QED
  BY <1>1, ActiveStep

LEMMA PromiseStutters ==
  ASSUME UNCHANGED <<now, pauses, startedAt, handle, err>>, Opened' = Opened
  PROVE  UNCHANGED Promise!vars
<1>1. \A b \in Budget : Active(startedAt[b])' = Active(startedAt[b])
  BY DEF Active, RunningTicks, Covered, IsOpen
<1>2. \A b \in Budget : pc'[b] = "idle" <=> pc[b] = "idle"
  BY DEF Opened
<1> QED
  BY <1>1, <1>2 DEF Promise!vars, Opened

LEMMA PromiseStep ==
  ASSUME ClockAssumption, IInv, [Next]_vars
  PROVE  [Promise!Next]_(Promise!vars)
<1> USE DEF clockVars, timerVars, IInv
<1> DEFINE Goal == [Promise!Next]_(Promise!vars)
<1>1. CASE Tick
  <2>1. Opened' = Opened /\ Held' = Held /\ now' = now + 1
    BY <1>1 DEF Tick, Opened, Held
  <2>2. \A b \in Opened : startedAt[b] \in Nat \ {0} /\ startedAt[b] <= now
    BY DEF TypeOK, PausesInv, Opened
  <2>3. CASE Held = {}
    <3>1. \A b \in Budget : Active(startedAt[b])' = Active(startedAt[b]) + 1
      <4> SUFFICES ASSUME NEW b \in Budget PROVE Active(startedAt[b])' = Active(startedAt[b]) + 1
        OBVIOUS
      <4> DEFINE start == startedAt[b]
      <4>1. start \in Nat \ {0} /\ start <= now
        BY DEF TypeOK, PausesInv
      <4>2. startedAt'[b] = startedAt[b]
        BY <1>1 DEF Tick
      <4> QED
        BY <1>1, <2>3, <4>1, <4>2, CoveredNow, ActiveOnTick DEF Tick
    <3>2. Used' = [b \in Budget |-> IF b \in Opened THEN Used[b] + 1 ELSE Used[b]]
      BY <1>1, <3>1 DEF Tick, Used, Opened
    <3>3. Promise!Run
      BY <1>1, <2>1, <2>3, <3>2 DEF Promise!Run, Used, Opened, Held, Tick
    <3> QED
      BY <3>3 DEF Promise!Next
  <2>4. CASE Held # {}
    <3>1. \A b \in Budget : Active(startedAt[b])' = Active(startedAt[b])
      <4> SUFFICES ASSUME NEW b \in Budget PROVE Active(startedAt[b])' = Active(startedAt[b])
        OBVIOUS
      <4> DEFINE start == startedAt[b]
      <4>1. start \in Nat \ {0} /\ start <= now
        BY DEF TypeOK, PausesInv
      <4>2. startedAt'[b] = startedAt[b]
        BY <1>1 DEF Tick
      <4> QED
        BY <1>1, <2>4, <4>1, <4>2, CoveredNow, ActiveOnTick DEF Tick
    <3> QED
      BY <1>1, <3>1 DEF Tick, Promise!vars
  <2> QED
    BY <2>3, <2>4
<1>2. ASSUME NEW p \in Pauser, PauseClock(p) PROVE Goal
  <2>1. \A b \in Budget : Active(startedAt[b])' = Active(startedAt[b])
    BY <1>2, UsedUnchanged DEF PauseClock
  <2>2. Held' = Held \cup {p} /\ p \notin Held
    BY <1>2 DEF PauseClock, Held, TypeOK
  <2>3. Promise!Hold(p)
    BY <1>2, <2>1, <2>2 DEF PauseClock, Promise!Hold, Held
  <2> QED
    BY <2>3 DEF Promise!Next
<1>3. ASSUME NEW p \in Pauser, Resume(p), handle[p] = "open" PROVE Goal
  <2>1. \A b \in Budget : Active(startedAt[b])' = Active(startedAt[b])
    BY <1>3, UsedUnchanged DEF Resume
  <2>2. Held' = Held \ {p} /\ p \in Held
    BY <1>3 DEF Resume, Held, TypeOK
  <2>3. Promise!Release(p)
    BY <1>3, <2>1, <2>2 DEF Resume, Promise!Release, Held
  <2> QED
    BY <2>3 DEF Promise!Next
<1>4. ASSUME NEW p \in Pauser, Resume(p), handle[p] # "open" PROVE Goal
  <2>1. Held' = Held /\ Opened' = Opened /\ UNCHANGED <<now, pauses, startedAt, err>>
    BY <1>4 DEF Resume, Held, Opened, TypeOK
  <2>2. \A b \in Budget : Active(startedAt[b])' = Active(startedAt[b])
    BY <2>1, UsedUnchanged
  <2> QED
    BY <1>4, <2>1, <2>2 DEF Promise!vars, Held, Resume
<1>5. ASSUME NEW b \in Budget, RequestBudget(b) PROVE Goal
  <2>1. PICK start \in 1..now :
            /\ startedAt' = [startedAt EXCEPT ![b] = start]
            /\ pc' = [pc EXCEPT ![b] = IF Active(start) >= size[b] THEN "spent?" ELSE "watch"]
    BY <1>5 DEF RequestBudget
  <2>2. pc[b] = "idle" /\ pc'[b] # "idle" /\ UNCHANGED <<now, pauses, handle, err>>
    BY <1>5, <2>1 DEF RequestBudget, TypeOK
  <2>3. Opened' = Opened \cup {b} /\ b \notin Opened
    BY <2>1, <2>2 DEF Opened, TypeOK
  <2>4. \A c \in Budget : c # b => Active(startedAt[c])' = Active(startedAt[c])
    BY <2>1, <2>2, UsedUnchanged DEF TypeOK
  <2>5. Used'[b] \in Nat
    <3>1. start \in Nat \ {0} /\ startedAt'[b] = start
      BY <2>1 DEF TypeOK
    <3>2. Active(start)' = Active(start) /\ Active(start) \in Nat
      BY <2>2, <3>1, ActiveUnderSamePauses, RunningTicksFinite
    <3>3. Active(startedAt[b])' = Active(start)'
      BY <3>1 DEF Active, RunningTicks, Covered
    <3> QED
      BY <2>2, <3>2, <3>3 DEF Used
  <2>6. Used' = [Used EXCEPT ![b] = Used'[b]]
    BY <2>1, <2>2, <2>4 DEF Used, TypeOK
  <2>7. Promise!Open(b)
    BY <2>2, <2>3, <2>5, <2>6 DEF Promise!Open, Used, Opened
  <2> QED
    BY <2>7 DEF Promise!Next
<1>6. ASSUME NEW b \in Budget, err'[b] # err[b], Opened' = Opened,
             UNCHANGED handle, NEW how, Finish(b, how), how \in Ends
      PROVE  Goal
  <2>1. /\ err[b] = "nil" /\ err' = [err EXCEPT ![b] = how]
        /\ pc[b] # "idle" /\ UNCHANGED <<now, pauses, startedAt>>
        /\ how = "canceled" \/ (how = "deadline" /\ Spent(b)) \/ how = err[parent[b]]
    BY <1>6, EndSteps DEF Finish, TypeOK, Unfinished
  <2>2. \A c \in Budget : Active(startedAt[c])' = Active(startedAt[c])
    BY <2>1, UsedUnchanged
  <2>3. Spent(b) => Active(startedAt[b]) >= size[b]
    BY RemainingType DEF Spent, Remaining, ClockAssumption
  <2>4. Promise!MayEnd(b, how)
    BY <1>6, <2>1, <2>3 DEF Promise!MayEnd, Ends
  <2>5. Used' = Used
    BY <1>6, <2>2 DEF Used, Opened
  <2>6. Promise!End(b, how)
    BY <1>6, <2>1, <2>4, <2>5 DEF Promise!End, Used, Opened, Held
  <2> QED
    BY <1>6, <2>6 DEF Promise!Next, Ends
<1>7. ASSUME NEW b \in Budget, Opened' = Opened, UNCHANGED <<now, pauses, handle, startedAt>>,
             NEW how \in Ends, Finish(b, how)
      PROVE  Goal
  <2>1. CASE err'[b] # err[b]
    BY <1>6, <1>7, <2>1
  <2>2. CASE err'[b] = err[b]
    BY <1>7, <2>2, PromiseStutters DEF Finish, Ends, Unfinished, TypeOK
  <2> QED
    BY <2>1, <2>2
<1>8. ASSUME NEW b \in Budget, Request(b), ~RequestBudget(b) PROVE Goal
  <2>1. Opened' = Opened /\ UNCHANGED <<now, pauses, handle, startedAt>>
    BY <1>8 DEF Request, RefuseSpentBudget, WatchParent, InsertAlarm, Opened, TypeOK
  <2>2. UNCHANGED err \/ Finish(b, "deadline")
    BY <1>8 DEF Request, RefuseSpentBudget, WatchParent, InsertAlarm
  <2> QED
    BY <1>7, <2>1, <2>2, PromiseStutters DEF Ends
<1>9. ASSUME NEW b \in Budget, Timers(b) PROVE Goal
  <2>1. Opened' = Opened /\ UNCHANGED <<now, pauses, handle, startedAt>>
    BY <1>9 DEF Timers, TimerFires, Ring, Expire, Opened
  <2>2. UNCHANGED err \/ Finish(b, "deadline")
    BY <1>9 DEF Timers, TimerFires, Ring, Expire
  <2> QED
    BY <1>7, <2>1, <2>2, PromiseStutters DEF Ends
<1>10. ASSUME NEW b \in Budget, Watcher(b) PROVE Goal
  <2>1. Opened' = Opened /\ UNCHANGED <<now, pauses, handle, startedAt>>
    BY <1>10 DEF Watcher, ParentEnds, WatcherDisarms, WatcherFinishes, Opened
  <2>2. \/ UNCHANGED err
        \/ Finish(b, err[parent[b]]) /\ watcher[b] = "disarmed"
    BY <1>10 DEF Watcher, ParentEnds, WatcherDisarms, WatcherFinishes
  <2>3. watcher[b] = "disarmed" => err[parent[b]] \in Ends
    BY DEF DecisionInv, TypeOK, ClockAssumption
  <2> QED
    BY <1>7, <2>1, <2>2, <2>3, PromiseStutters
<1>11. ASSUME NEW b \in Budget, Owner(b) PROVE Goal
  <2>1. Opened' = Opened /\ UNCHANGED <<now, pauses, handle, startedAt>>
    BY <1>11 DEF Owner, Cancel, CancelDisarms, CancelFinishes, Opened, TypeOK
  <2>2. UNCHANGED err \/ Finish(b, "canceled")
    BY <1>11 DEF Owner, Cancel, CancelDisarms, CancelFinishes
  <2> QED
    BY <1>7, <2>1, <2>2, PromiseStutters DEF Ends
<1>12. CASE RootEnds
  <2>1. PICK how \in Ends : Finish(Root, how)
    BY <1>12 DEF RootEnds
  <2>2. err[Root] = "nil" /\ err' = [err EXCEPT ![Root] = how]
    BY <1>12, <2>1 DEF RootEnds, Finish, Unfinished
  <2>3. Opened' = Opened /\ Held' = Held /\ UNCHANGED <<now, pauses, startedAt>>
    BY <1>12 DEF RootEnds, Opened, Held
  <2>4. Used' = Used
    BY <2>3, UsedUnchanged DEF Used, Opened
  <2>5. Promise!CallerEnds(how)
    BY <2>2, <2>3, <2>4 DEF Promise!CallerEnds, Used, Opened, Held
  <2> QED
    BY <2>1, <2>5 DEF Promise!Next, Ends
<1>13. CASE UNCHANGED vars
  BY <1>13, PromiseStutters DEF vars, Opened
<1> QED
  BY <1>1, <1>2, <1>3, <1>4, <1>5, <1>8, <1>9, <1>10, <1>11, <1>12, <1>13 DEF Next

LEMMA PromiseInit ==
  ASSUME ClockAssumption, Init
  PROVE  Promise!Init
BY DEF Init, Promise!Init, Unfinished

\* The clock -- its list of pauses, its timers, rings and watchers -- implements the
\* promise: active time shared by all budgets, one end each, deadlines earned.
THEOREM ClockKeepsPromise == Spec => KeepsPromise
BY ClockAssumption, ClockInvariant, PromiseInit, PromiseStep, PTL
   DEF Spec, KeepsPromise, Promise!Spec

-----------------------------------------------------------------------------
(* The arithmetic of the overlaps                                          *)

\* Pauses follow one another: all but the last are closed, and each ends before the next.
OrderInv ==
  \A i, j \in DOMAIN pauses : i < j => ~IsOpen(pauses[i]) /\ pauses[i].endedAt <= pauses[j].startedAt

\* The ticks from start on during which one of some pauses held the clock.
Stood(start, i) ==
  {t \in start..(now - 1) : pauses[i].startedAt <= t /\ (IsOpen(pauses[i]) \/ t < pauses[i].endedAt)}
StoodIn(start, I) == UNION {Stood(start, i) : i \in I}

LEMMA LeastExists ==
  ASSUME NEW S, S \subseteq Nat, S # {}
  PROVE  \E n \in S : \A m \in S : n <= m
<1> DEFINE R == {ss \in Nat \X Nat : ss[1] < ss[2]}
<1>1. IsWellFoundedOn(R, Nat)
  BY NatLessThanWellFounded DEF OpToRel
<1>2. PICK n \in S : \A m \in S : <<m, n>> \notin R
  <2> HIDE DEF R
  <2> QED
    BY <1>1, WFMin, Zenon
<1>3. \A m \in S : ~(m < n)
  BY <1>2
<1> QED
  BY <1>2, <1>3

\* A pause takes off as many ticks as it overlaps.
LEMMA StoodCounts ==
  ASSUME TypeOK, PausesInv, NEW start \in Nat \ {0}, NEW i \in DOMAIN pauses
  PROVE  IsFiniteSet(Stood(start, i)) /\ Cardinality(Stood(start, i)) = OverlapWith(pauses[i], start)
         /\ OverlapWith(pauses[i], start) \in Nat
<1> DEFINE from == IF pauses[i].startedAt > start THEN pauses[i].startedAt ELSE start
           to == IF IsOpen(pauses[i]) THEN now ELSE pauses[i].endedAt
<1>1. /\ pauses[i].startedAt \in Nat /\ pauses[i].endedAt \in Nat /\ now \in Nat
      /\ pauses[i].startedAt <= now /\ pauses[i].endedAt <= now
  <2>1. pauses[i] \in Pause /\ now \in Nat
    BY DEF TypeOK
  <2> QED
    BY <2>1 DEF PausesInv, Pause
<1>2. from \in Int /\ to - 1 \in Int /\ from \in Nat /\ to \in Nat
  BY <1>1
<1>3. Stood(start, i) = from..(to - 1)
  <2>1. CASE IsOpen(pauses[i])
    BY <1>1, <2>1 DEF Stood
  <2>2. CASE ~IsOpen(pauses[i])
    <3>1. Stood(start, i) = {t \in start..(now - 1) : pauses[i].startedAt <= t /\ t < pauses[i].endedAt}
      BY <2>2 DEF Stood
    <3>2. to = pauses[i].endedAt
      BY <2>2
    <3> QED
      BY <1>1, <3>1, <3>2
  <2> QED
    BY <2>1, <2>2
<1>4. OverlapWith(pauses[i], start) = IF to > from THEN to - from ELSE 0
  BY DEF OverlapWith
<1> HIDE DEF from, to
<1>5. IsFiniteSet(from..(to - 1)) /\ Cardinality(from..(to - 1)) = IF from > to - 1 THEN 0 ELSE (to - 1) - from + 1
  BY <1>2, FS_Interval, Zenon
<1> QED
  BY <1>2, <1>3, <1>4, <1>5

\* No tick is taken off twice.
LEMMA StoodApart ==
  ASSUME TypeOK, OrderInv, NEW start \in Nat \ {0}, NEW i \in DOMAIN pauses, NEW j \in DOMAIN pauses, i # j
  PROVE  Stood(start, i) \cap Stood(start, j) = {}
<1>1. ASSUME NEW k \in DOMAIN pauses, NEW l \in DOMAIN pauses, k < l, NEW t \in Stood(start, k), t \in Stood(start, l)
      PROVE  FALSE
  <2>1. ~IsOpen(pauses[k]) /\ pauses[k].endedAt <= pauses[l].startedAt
    BY <1>1 DEF OrderInv
  <2>2. t \in Nat /\ t < pauses[k].endedAt /\ pauses[l].startedAt <= t
    BY <1>1, <2>1 DEF Stood, TypeOK
  <2>3. pauses[k].endedAt \in Nat /\ pauses[l].startedAt \in Nat
    <3>1. pauses[k] \in Pause /\ pauses[l] \in Pause
      BY DEF TypeOK
    <3> QED
      BY <3>1 DEF Pause
  <2> QED
    BY <2>1, <2>2, <2>3
<1>2. i < j \/ j < i
  <2>1. DOMAIN pauses = 1..Len(pauses)
    BY DEF TypeOK
  <2> QED
    BY <2>1
<1> QED
  BY <1>1, <1>2

\* The ticks of some pauses and of one more.
LEMMA StoodInOneMore ==
  ASSUME TypeOK, PausesInv, OrderInv, NEW start \in Nat \ {0}, NEW I \in SUBSET (DOMAIN pauses), NEW i \in I
  PROVE  Cardinality(StoodIn(start, I)) = OverlapWith(pauses[i], start) + Cardinality(StoodIn(start, I \ {i}))
<1> DEFINE A == Stood(start, i)
           B == StoodIn(start, I \ {i})
<1>1. StoodIn(start, I) = A \cup B
  BY DEF StoodIn
<1>2. A \cap B = {}
  BY StoodApart DEF StoodIn
<1>3. IsFiniteSet(A) /\ Cardinality(A) = OverlapWith(pauses[i], start) /\ Cardinality(A) \in Nat
  BY StoodCounts
<1>4. IsFiniteSet(B) /\ Cardinality(B) \in Nat
  <2>1. B \in SUBSET (start..(now - 1))
    BY DEF StoodIn, Stood
  <2>2. IsFiniteSet(start..(now - 1))
    BY FS_Interval DEF TypeOK
  <2> HIDE DEF B
  <2> QED
    BY <2>1, <2>2, FS_Subset, FS_CardinalityType
<1> HIDE DEF A, B
<1>5. Cardinality(A \cup B) = Cardinality(A) + Cardinality(B) - Cardinality({})
  BY <1>2, <1>3, <1>4, FS_Union
<1>6. Cardinality({}) = 0
  BY FS_EmptySet
<1> QED
  BY <1>1, <1>3, <1>4, <1>5, <1>6 DEF B

\* What the code adds up over the pauses is the number of ticks they took.  The count
\* satisfies the equation that defines the sum, so the sum is a function at all; and were
\* the two to differ, they would over a smallest set of pauses.
LEMMA OverlapsAddUp ==
  ASSUME TypeOK, PausesInv, OrderInv, NEW start \in Nat \ {0}
  PROVE  MapThenSumSet(LAMBDA i : OverlapWith(pauses[i], start), DOMAIN pauses)
           = Cardinality(StoodIn(start, DOMAIN pauses))
<1> DEFINE D == DOMAIN pauses
           some(s) == CHOOSE i \in s : TRUE
           Sum(h) == [s \in SUBSET D |-> IF s = {} THEN 0
                                          ELSE OverlapWith(pauses[some(s)], start) + h[s \ {some(s)}]]
           sum == CHOOSE h : h = Sum(h)
           count == [s \in SUBSET D |-> Cardinality(StoodIn(start, s))]
<1>1. MapThenSumSet(LAMBDA i : OverlapWith(pauses[i], start), DOMAIN pauses) = sum[D]
  BY DEF MapThenSumSet, MapThenFoldSet
<1> HIDE DEF some
<1>2. \A s : s # {} => some(s) \in s
  BY DEF some
<1>3. count = Sum(count)
  <2>1. ASSUME NEW s \in SUBSET D, s # {}
        PROVE  count[s] = OverlapWith(pauses[some(s)], start) + count[s \ {some(s)}]
    <3>1. some(s) \in s /\ s \ {some(s)} \in SUBSET D
      BY <1>2, <2>1
    <3>2. Cardinality(StoodIn(start, s))
            = OverlapWith(pauses[some(s)], start) + Cardinality(StoodIn(start, s \ {some(s)}))
      BY <3>1, StoodInOneMore
    <3> QED
      BY <3>1, <3>2
  <2>2. count[{}] = 0
    <3>1. StoodIn(start, {}) = {}
      BY DEF StoodIn
    <3>2. count[{}] = Cardinality(StoodIn(start, {}))
      OBVIOUS
    <3> QED
      BY <3>1, <3>2, FS_EmptySet
  <2>3. count = [s \in SUBSET D |-> count[s]]
    OBVIOUS
  <2> HIDE DEF count
  <2> QED
    BY <2>1, <2>2, <2>3
<1> HIDE DEF count
<1>4. sum = Sum(sum)
  BY <1>3, Zenon
<1> HIDE DEF sum
<1>5. \A s \in SUBSET D : /\ s = {} => sum[s] = 0
                          /\ s # {} => sum[s] = OverlapWith(pauses[some(s)], start) + sum[s \ {some(s)}]
  BY <1>4
<1>6. \A s \in SUBSET D : /\ s = {} => count[s] = 0
                          /\ s # {} => count[s] = OverlapWith(pauses[some(s)], start) + count[s \ {some(s)}]
  BY <1>3
<1>7. IsFiniteSet(D)
  BY FS_Interval DEF TypeOK
<1>8. \A s \in SUBSET D : IsFiniteSet(s) /\ Cardinality(s) \in Nat
  <2> HIDE DEF D
  <2> QED
    BY <1>7, FS_Subset, FS_CardinalityType
<1> DEFINE Wrong == {s \in SUBSET D : sum[s] # count[s]}
           Counts == {Cardinality(s) : s \in Wrong}
<1>9. Wrong = {}
  <2> SUFFICES ASSUME Wrong # {} PROVE FALSE
    OBVIOUS
  <2>1. Counts \subseteq Nat /\ Counts # {}
    <3> HIDE DEF D
    <3> QED
      BY <1>8
  <2> HIDE DEF Counts
  <2>2. PICK n \in Counts : \A m \in Counts : n <= m
    BY <2>1, LeastExists
  <2> USE DEF Counts
  <2>3. PICK s \in Wrong : Cardinality(s) = n
    BY <2>2
  <2>4. s \in SUBSET D /\ s # {}
    BY <1>5, <1>6, <2>3
  <2> DEFINE x == some(s)
             r == s \ {x}
  <2>5. x \in s /\ r \in SUBSET D
    BY <1>2, <2>4
  <2>6. Cardinality(r) = Cardinality(s) - 1
    BY <1>8, <2>4, <2>5, FS_RemoveElement
  <2>7. r \in Wrong
    <3> HIDE DEF D
    <3> QED
      BY <1>5, <1>6, <2>3, <2>4, <2>5
  <2>8. Cardinality(r) \in Counts /\ Cardinality(r) \in Nat /\ Cardinality(s) \in Nat
    <3> HIDE DEF r, Wrong
    <3> QED
      BY <1>8, <2>4, <2>5, <2>7
  <2>9. n <= Cardinality(r)
    BY <2>2, <2>8
  <2> HIDE DEF r, Wrong, Counts
  <2> QED
    BY <2>3, <2>6, <2>8, <2>9
<1>10. sum[D] = count[D]
  BY <1>9
<1> QED
  BY <1>1, <1>10 DEF count

\* What is left of the wall time is what ran: both halves of it are counted.
LEMMA OverlapsCount ==
  ASSUME TypeOK, PausesInv, OrderInv
  PROVE  OverlapsCountTicks
<1> SUFFICES ASSUME NEW start \in 1..now PROVE ActiveBetween(start) = Active(start)
  BY DEF OverlapsCountTicks
<1> DEFINE those == StoodIn(start, DOMAIN pauses)
           all == start..(now - 1)
<1>1. start \in Nat \ {0} /\ now \in Nat /\ start <= now
  BY DEF TypeOK
<1>2. IsFiniteSet(all) /\ Cardinality(all) = now - start
  <2>1. start \in Int /\ now - 1 \in Int
    BY <1>1
  <2>2. IsFiniteSet(all) /\ Cardinality(all) = IF start > now - 1 THEN 0 ELSE now - 1 - start + 1
    BY <2>1, FS_Interval, Zenon
  <2> HIDE DEF all
  <2> QED
    BY <1>1, <2>2
<1>3. those \in SUBSET all
  BY DEF StoodIn, Stood
<1>4. RunningTicks(start) = all \ those
  BY DEF RunningTicks, Covered, StoodIn, Stood
<1> DEFINE running == all \ those
<1>5. all = those \cup running /\ those \cap running = {}
  BY <1>3
<1>6. running \in SUBSET all
  OBVIOUS
<1> HIDE DEF those, all, running
<1>7. /\ IsFiniteSet(those) /\ Cardinality(those) \in Nat
      /\ IsFiniteSet(running) /\ Cardinality(running) \in Nat
  BY <1>2, <1>3, <1>6, FS_Subset, FS_CardinalityType
<1>8. now - start = Cardinality(those) + Cardinality(running)
  <2>1. Cardinality(all) = Cardinality(those) + Cardinality(running) - Cardinality({})
    BY <1>5, <1>7, FS_Union
  <2> QED
    BY <1>2, <1>7, <2>1, FS_EmptySet
<1>9. ActiveBetween(start)
        = LET wall == IF now > start THEN now - start ELSE 0
          IN  IF wall > Cardinality(those) THEN wall - Cardinality(those) ELSE 0
  BY <1>1, OverlapsAddUp DEF ActiveBetween, those
<1>10. Active(start) = Cardinality(running)
  BY <1>4 DEF Active, running
<1> QED
  BY <1>1, <1>7, <1>8, <1>9, <1>10

\* A pause opens when all others are closed, now, and closes where it stands.
LEMMA OrderStep ==
  ASSUME ClockAssumption, TypeOK, PausesInv, OrderInv, [Next]_vars
  PROVE  OrderInv'
<1> USE DEF TypeOK
<1>1. CASE UNCHANGED pauses
  BY <1>1 DEF OrderInv, IsOpen
<1>2. CASE openPauses = 0 /\ pauses' = Append(pauses, [startedAt |-> now, endedAt |-> 0])
  <2>1. /\ DOMAIN pauses = 1..Len(pauses) /\ DOMAIN pauses' = 1..(Len(pauses) + 1) /\ Len(pauses) \in Nat
        /\ \A k \in DOMAIN pauses : pauses'[k] = pauses[k]
        /\ pauses'[Len(pauses) + 1].startedAt = now
    BY <1>2
  <2>2. ASSUME NEW i \in DOMAIN pauses', NEW j \in DOMAIN pauses', i < j
        PROVE  pauses'[i].endedAt # 0 /\ pauses'[i].endedAt <= pauses'[j].startedAt
    <3>1. i \in DOMAIN pauses
      BY <2>1, <2>2
    <3>2. CASE j \in DOMAIN pauses
      BY <2>1, <2>2, <3>1, <3>2 DEF OrderInv, IsOpen
    <3>3. CASE j = Len(pauses) + 1
      BY <1>2, <2>1, <3>1, <3>3 DEF PausesInv, IsOpen
    <3> QED
      BY <2>1, <3>2, <3>3
  <2> QED
    BY <2>2 DEF OrderInv, IsOpen
<1>3. CASE /\ openPauses > 0
           /\ pauses' = [pauses EXCEPT ![Len(pauses)] = [@ EXCEPT !.endedAt = now]]
  <2> DEFINE n == Len(pauses)
  <2>1. n \in DOMAIN pauses /\ pauses[n] \in Pause /\ DOMAIN pauses = 1..n /\ n \in Nat
    BY <1>3 DEF PausesInv
  <2>2. /\ DOMAIN pauses' = DOMAIN pauses
        /\ \A k \in DOMAIN pauses : k # n => pauses'[k] = pauses[k]
        /\ pauses'[n].startedAt = pauses[n].startedAt
    BY <1>3, <2>1 DEF Pause
  <2> HIDE DEF n
  <2>3. ASSUME NEW i \in DOMAIN pauses, NEW j \in DOMAIN pauses, i < j
        PROVE  pauses'[i].endedAt # 0 /\ pauses'[i].endedAt <= pauses'[j].startedAt
    <3>1. i # n
      BY <2>1, <2>3
    <3>2. pauses'[i] = pauses[i] /\ pauses'[j].startedAt = pauses[j].startedAt
      BY <2>2, <3>1
    <3> QED
      BY <2>3, <3>2 DEF OrderInv, IsOpen
  <2> QED
    BY <2>2, <2>3 DEF OrderInv, IsOpen
<1>4. Tick => UNCHANGED pauses
  BY DEF Tick
<1>5. ASSUME NEW p \in Pauser, PauseClock(p)
      PROVE  \/ UNCHANGED pauses
             \/ openPauses = 0 /\ pauses' = Append(pauses, [startedAt |-> now, endedAt |-> 0])
  BY <1>5 DEF PauseClock
<1>6. ASSUME NEW p \in Pauser, Resume(p), handle[p] = "open"
      PROVE  \/ UNCHANGED pauses
             \/ openPauses > 0 /\ pauses' = [pauses EXCEPT ![Len(pauses)] = [@ EXCEPT !.endedAt = now]]
  BY <1>6, OpenHandleCounted DEF Resume, EndPause
<1> QED
  BY <1>1, <1>2, <1>3, <1>4, <1>5, <1>6, ClockSteps

\* The subtraction in the code is right: however the pauses fall, and whenever a budget
\* started, taking every pause's overlap off the wall time leaves the ticks that the
\* clock ran (Clock.activeBetween, pause.overlapWith).
THEOREM OverlapsAreTicks == Spec => []OverlapsCountTicks
<1>1. Init => OrderInv
  BY DEF Init, OrderInv
<1>2. IInv /\ OrderInv /\ [Next]_vars => OrderInv'
  BY OrderStep, ClockAssumption DEF IInv
<1>3. IInv /\ OrderInv => OverlapsCountTicks
  BY OverlapsCount DEF IInv
<1> QED
  BY <1>1, <1>2, <1>3, ClockInvariant, PTL DEF Spec

-----------------------------------------------------------------------------
(* What a task owes: the entries that are kept of a sequence                 *)

-----------------------------------------------------------------------------
(* Keep leaves every kept entry, and no other, in its result, in order.    *)

LEMMA FirstOnes ==
  ASSUME NEW n \in Nat
  PROVE  IsFiniteSet(1 .. n) /\ Cardinality(1 .. n) = n
BY FS_Interval

Rank(kept, i) == Cardinality({j \in kept : j <= i})

LEMMA RanksAreDistinct ==
  ASSUME NEW n \in Nat, NEW kept \in SUBSET (1 .. n)
  PROVE  /\ IsFiniteSet(kept) /\ Cardinality(kept) \in Nat /\ kept \subseteq Nat
         /\ \A i \in kept : Rank(kept, i) \in 1 .. Cardinality(kept)
         /\ \A i, j \in kept : i < j => Rank(kept, i) < Rank(kept, j)
<1> DEFINE Upto(i) == {j \in kept : j <= i}
<1>1. IsFiniteSet(kept) /\ Cardinality(kept) \in Nat /\ kept \subseteq Nat
  <2>1. IsFiniteSet(1 .. n)
    BY FS_Interval
  <2>2. IsFiniteSet(kept)
    BY <2>1, FS_Subset
  <2> QED
    BY <2>2, FS_CardinalityType
<1>2. ASSUME NEW i \in kept
      PROVE  IsFiniteSet(Upto(i)) /\ Cardinality(Upto(i)) \in Nat /\ Cardinality(Upto(i)) <= Cardinality(kept)
  <2>1. Upto(i) \in SUBSET kept
    OBVIOUS
  <2> HIDE DEF Upto
  <2> QED
    BY <1>1, <2>1, FS_Subset, FS_CardinalityType
<1>3. ASSUME NEW i \in kept PROVE i \in Upto(i) /\ Cardinality(Upto(i)) # 0
  <2>1. i \in Nat
    BY <1>1
  <2>2. i \in Upto(i)
    BY <2>1
  <2> HIDE DEF Upto
  <2> QED
    BY <1>2, <2>2, FS_EmptySet
<1>4. ASSUME NEW i \in kept, NEW j \in kept, i < j PROVE Cardinality(Upto(i)) < Cardinality(Upto(j))
  <2>1. i \in Nat /\ j \in Nat
    BY <1>1
  <2>2. Upto(i) \in SUBSET Upto(j)
    <3>1. ASSUME NEW m \in kept, m <= i PROVE m <= j
      <4>1. m \in Nat
        BY <1>1
      <4> QED
        BY <1>4, <2>1, <3>1, <4>1
    <3> QED
      BY <3>1
  <2>3. j \notin Upto(i)
    BY <1>4, <2>1
  <2>4. IsFiniteSet(Upto(j)) /\ Cardinality(Upto(i)) \in Nat /\ Cardinality(Upto(j)) \in Nat
    BY <1>2
  <2>5. Upto(i) # Upto(j)
    BY <1>3, <2>3
  <2>6. Cardinality(Upto(i)) <= Cardinality(Upto(j)) /\ Cardinality(Upto(i)) # Cardinality(Upto(j))
    <3> HIDE DEF Upto
    <3> QED
      BY <2>2, <2>4, <2>5, FS_Subset, Zenon
  <2> QED
    BY <2>4, <2>6
<1> QED
  BY <1>1, <1>2, <1>3, <1>4 DEF Rank

LEMMA EveryRankIsTaken ==
  ASSUME NEW n \in Nat, NEW kept \in SUBSET (1 .. n), NEW k \in 1 .. Cardinality(kept)
  PROVE  \E i \in kept : Rank(kept, i) = k
<1> DEFINE C == Cardinality(kept)
           f == [i \in kept |-> Rank(kept, i)]
<1>1. IsFiniteSet(kept) /\ C \in Nat /\ kept \subseteq Nat
  BY RanksAreDistinct
<1>2. f \in Injection(kept, 1 .. C)
  <2>1. \A i \in kept : Rank(kept, i) \in 1 .. C
    BY RanksAreDistinct
  <2>2. \A i \in kept, j \in kept : Rank(kept, i) = Rank(kept, j) => i = j
    <3> SUFFICES ASSUME NEW i \in kept, NEW j \in kept, Rank(kept, i) = Rank(kept, j), i # j PROVE FALSE
      OBVIOUS
    <3>1. i \in Nat /\ j \in Nat /\ Rank(kept, i) \in Nat /\ Rank(kept, j) \in Nat
      BY <1>1, <2>1
    <3>2. i < j \/ j < i
      BY <3>1
    <3>3. Rank(kept, i) < Rank(kept, j) \/ Rank(kept, j) < Rank(kept, i)
      BY <3>2, RanksAreDistinct
    <3> QED
      BY <3>1, <3>3
  <2>3. f \in [kept -> 1 .. C]
    BY <2>1
  <2> QED
    BY <2>2, <2>3, Zenon DEF Injection, IsInjective
<1>3. IsFiniteSet(1 .. C) /\ Cardinality(1 .. C) = C
  BY <1>1, FirstOnes, Zenon
<1>4. f \in Surjection(kept, 1 .. C)
  <2> HIDE DEF f
  <2> QED
    BY <1>2, <1>3, FS_Injection, Zenon DEF C
<1> QED
  BY <1>4 DEF Surjection

LEMMA KeepPlaces ==
  ASSUME NEW S, NEW s \in Seq(S), NEW kept \in SUBSET (DOMAIN s)
  PROVE  /\ Keep(s, kept) \in Seq(S) /\ DOMAIN Keep(s, kept) = 1 .. Cardinality(kept)
         /\ Cardinality(kept) \in Nat
         /\ \A i \in kept : Rank(kept, i) \in DOMAIN Keep(s, kept) /\ Keep(s, kept)[Rank(kept, i)] = s[i]
         /\ \A k \in DOMAIN Keep(s, kept) :
              \E i \in kept : Rank(kept, i) = k /\ Keep(s, kept)[k] = s[i]
         /\ \A i, j \in kept : Rank(kept, i) = Rank(kept, j) => i = j
<1> DEFINE Ranked(k) == CHOOSE i \in kept : Rank(kept, i) = k
           C == Cardinality(kept)
           n == Len(s)
<1>0. n \in Nat /\ DOMAIN s = 1 .. n /\ kept \in SUBSET (1 .. n)
  OBVIOUS
<1>1. Keep(s, kept) = [k \in 1 .. C |-> s[Ranked(k)]]
  BY DEF Keep, Rank
<1> HIDE DEF n
<1>2. C \in Nat /\ kept \subseteq Nat /\ IsFiniteSet(kept)
  BY <1>0, RanksAreDistinct, Zenon
<1>3. ASSUME NEW k \in 1 .. C PROVE Ranked(k) \in kept /\ Rank(kept, Ranked(k)) = k
  <2>1. \E i \in kept : Rank(kept, i) = k
    BY <1>0, EveryRankIsTaken, Zenon
  <2> QED
    BY <2>1
<1>9. ASSUME NEW i \in kept, NEW j \in kept, Rank(kept, i) = Rank(kept, j) PROVE i = j
  <2>1. Rank(kept, i) \in 1 .. C
    BY <1>0, RanksAreDistinct, Zenon
  <2>3. i \in Nat /\ j \in Nat /\ Rank(kept, i) \in Nat
    BY <1>2, <2>1
  <2>4. (i < j => Rank(kept, i) < Rank(kept, j)) /\ (j < i => Rank(kept, j) < Rank(kept, i))
    BY <1>0, RanksAreDistinct, Zenon
  <2> QED
    BY <1>9, <2>3, <2>4
<1>4. ASSUME NEW i \in kept PROVE Rank(kept, i) \in 1 .. C /\ Ranked(Rank(kept, i)) = i
  <2>1. Rank(kept, i) \in 1 .. C
    BY <1>0, RanksAreDistinct, Zenon
  <2>2. Ranked(Rank(kept, i)) \in kept /\ Rank(kept, Ranked(Rank(kept, i))) = Rank(kept, i)
    BY <1>3, <2>1
  <2> HIDE DEF Ranked
  <2> QED
    BY <1>9, <2>1, <2>2
<1> HIDE DEF Ranked, C
<1>6. Keep(s, kept) \in Seq(S) /\ DOMAIN Keep(s, kept) = 1 .. C
  <2>1. ASSUME NEW k \in 1 .. C PROVE s[Ranked(k)] \in S
    BY <1>0, <1>3
  <2>2. Keep(s, kept) \in [1 .. C -> S]
    BY <1>1, <2>1
  <2> QED
    BY <1>2, <2>2
<1>7. ASSUME NEW i \in kept PROVE Rank(kept, i) \in DOMAIN Keep(s, kept) /\ Keep(s, kept)[Rank(kept, i)] = s[i]
  BY <1>1, <1>4, <1>6
<1>8. ASSUME NEW k \in DOMAIN Keep(s, kept)
      PROVE  \E i \in kept : Rank(kept, i) = k /\ Keep(s, kept)[k] = s[i]
  <2>1. k \in 1 .. C /\ Ranked(k) \in kept /\ Rank(kept, Ranked(k)) = k
    BY <1>3, <1>6
  <2>3. Keep(s, kept)[k] = s[Ranked(k)]
    BY <1>1, <2>1
  <2> QED
    BY <2>1, <2>3
<1> QED
  BY <1>2, <1>6, <1>7, <1>8, <1>9 DEF C

\* What keeps every entry keeps the sequence.
LEMMA KeepAll ==
  ASSUME NEW S, NEW s \in Seq(S)
  PROVE  Keep(s, DOMAIN s) = s
<1> DEFINE n == Len(s)
<1>1. n \in Nat /\ DOMAIN s = 1 .. n
  OBVIOUS
<1>2. ASSUME NEW i \in 1 .. n PROVE Rank(DOMAIN s, i) = i
  <2>1. {j \in DOMAIN s : j <= i} = 1 .. i
    BY <1>1
  <2>2. Cardinality(1 .. i) = IF 1 > i THEN 0 ELSE i - 1 + 1
    BY <1>1, FS_Interval
  <2>3. Rank(DOMAIN s, i) = Cardinality(1 .. i)
    BY <2>1, Zenon DEF Rank
  <2> QED
    BY <1>1, <2>2, <2>3
<1>3. Cardinality(DOMAIN s) = n
  <2>1. Cardinality(1 .. n) = IF 1 > n THEN 0 ELSE n - 1 + 1
    BY <1>1, FS_Interval
  <2> QED
    BY <1>1, <2>1
<1>4. Keep(s, DOMAIN s) \in Seq(S) /\ DOMAIN Keep(s, DOMAIN s) = 1 .. n
  BY <1>3, KeepPlaces
<1>5. ASSUME NEW i \in 1 .. n PROVE Keep(s, DOMAIN s)[i] = s[i]
  <2>1. Keep(s, DOMAIN s)[Rank(DOMAIN s, i)] = s[i]
    BY <1>1, KeepPlaces
  <2> QED
    BY <1>2, <2>1
<1>6. s \in [1 .. n -> S] /\ Keep(s, DOMAIN s) \in [1 .. n -> S]
  <2>1. Len(Keep(s, DOMAIN s)) \in Nat /\ DOMAIN Keep(s, DOMAIN s) = 1 .. Len(Keep(s, DOMAIN s))
    BY <1>4
  <2> QED
    BY <1>1, <1>4, <2>1
<1> HIDE DEF n
<1> DEFINE kept == Keep(s, DOMAIN s)
<1> HIDE DEF kept
<1>7. kept \in [1 .. n -> S] /\ \A i \in 1 .. n : kept[i] = s[i]
  BY <1>5, <1>6 DEF kept
<1>8. kept = s
  <2>1. kept = [i \in 1 .. n |-> kept[i]] /\ s = [i \in 1 .. n |-> s[i]]
    BY <1>6, <1>7
  <2>2. [i \in 1 .. n |-> kept[i]] = [i \in 1 .. n |-> s[i]]
    BY <1>7, Zenon
  <2> QED
    BY <2>1, <2>2, Zenon
<1> QED
  BY <1>8 DEF kept

-----------------------------------------------------------------------------
(* Expected results: the parts of NormalizeExpectedResults, by name.       *)

TypeAt(rs, i) == IF rs[i].type \in {"file", "link"} THEN rs[i].type ELSE "message"
RepeatsAt(rs, i) == \E j \in DOMAIN rs : j < i /\ TypeAt(rs, j) = TypeAt(rs, i) /\ rs[j].about = rs[i].about
SaidOf(rs) == {i \in DOMAIN rs : rs[i].about # {} /\ ~RepeatsAt(rs, i)}
RepliesOf(rs) == {i \in SaidOf(rs) : TypeAt(rs, i) = "message"}
FoldedOf(rs, i) == IF i \in RepliesOf(rs) THEN RepliesOf(rs) ELSE {i}
WholeOf(rs, i) == [type |-> TypeAt(rs, i), about |-> UNION {rs[j].about : j \in FoldedOf(rs, i)},
                   required |-> \E j \in FoldedOf(rs, i) : rs[j].required,
                   hints |-> UNION {rs[j].hints : j \in FoldedOf(rs, i)}]
ShownOf(rs) == {i \in SaidOf(rs) : \A j \in FoldedOf(rs, i) : i <= j}
WholesOf(rs) == [i \in DOMAIN rs |-> WholeOf(rs, i)]

LEMMA NormalForm ==
  ASSUME NEW rs
  PROVE  NormalizeExpectedResults(rs) = Keep(WholesOf(rs), ShownOf(rs))
BY DEF NormalizeExpectedResults, WholesOf, ShownOf, WholeOf, FoldedOf, RepliesOf, SaidOf, RepeatsAt, TypeAt

\* Results of three types that say something, each its own, one message at most.
Tidy(rs) ==
  /\ \A i \in DOMAIN rs : rs[i].type \in {"file", "link", "message"} /\ rs[i].about # {}
  /\ \A i, j \in DOMAIN rs : rs[i].type = rs[j].type /\ rs[i].about = rs[j].about => i = j
  /\ \A i, j \in DOMAIN rs : rs[i].type = "message" /\ rs[j].type = "message" => i = j

LEMMA ResultFields ==
  ASSUME NEW H, NEW rs \in Seq(Results(H)), NEW i \in DOMAIN rs
  PROVE  /\ rs[i] \in Results(H) /\ rs[i].about \in SUBSET STRING /\ rs[i].hints \in SUBSET H
         /\ rs[i].required \in BOOLEAN /\ rs[i].type \in STRING
<1>1. rs[i] \in Results(H)
  OBVIOUS
<1> QED
  BY <1>1 DEF Results

\* A tidy sequence is in shape already.
LEMMA TidyStays ==
  ASSUME NEW H, NEW rs \in Seq(Results(H)), Tidy(rs)
  PROVE  NormalizeExpectedResults(rs) = rs
<1>0. DOMAIN rs \in SUBSET Nat /\ rs \in [DOMAIN rs -> Results(H)]
  OBVIOUS
<1>1. ASSUME NEW i \in DOMAIN rs PROVE TypeAt(rs, i) = rs[i].type
  BY DEF Tidy, TypeAt
<1>2. ASSUME NEW i \in DOMAIN rs PROVE ~RepeatsAt(rs, i)
  <2> SUFFICES ASSUME NEW j \in DOMAIN rs, j < i, TypeAt(rs, j) = TypeAt(rs, i), rs[j].about = rs[i].about
               PROVE FALSE
    BY DEF RepeatsAt
  <2>1. i = j
    BY <1>1 DEF Tidy
  <2> QED
    BY <1>0, <2>1
<1>3. SaidOf(rs) = DOMAIN rs
  BY <1>2 DEF SaidOf, Tidy
<1>4. RepliesOf(rs) = {i \in DOMAIN rs : rs[i].type = "message"}
  BY <1>1, <1>3 DEF RepliesOf
<1>5. ASSUME NEW i \in DOMAIN rs PROVE FoldedOf(rs, i) = {i}
  <2>1. CASE i \in RepliesOf(rs)
    <3>1. \A j \in RepliesOf(rs) : j = i
      BY <1>4, <2>1 DEF Tidy
    <3> QED
      BY <2>1, <3>1 DEF FoldedOf
  <2>2. CASE i \notin RepliesOf(rs)
    BY <2>2 DEF FoldedOf
  <2> QED
    BY <2>1, <2>2
<1>6. ShownOf(rs) = DOMAIN rs
  <2>1. ASSUME NEW i \in DOMAIN rs PROVE \A j \in FoldedOf(rs, i) : i <= j
    <3>1. i \in Nat
      BY <1>0
    <3> QED
      BY <1>5, <3>1
  <2> QED
    BY <1>3, <2>1 DEF ShownOf
<1>7. ASSUME NEW i \in DOMAIN rs PROVE WholeOf(rs, i) = rs[i]
  <2>1. rs[i] \in Results(H) /\ rs[i].required \in BOOLEAN
    BY ResultFields
  <2>2. rs[i] = [type |-> rs[i].type, about |-> rs[i].about, required |-> rs[i].required, hints |-> rs[i].hints]
    BY <2>1 DEF Results
  <2>3. /\ UNION {rs[j].about : j \in {i}} = rs[i].about
        /\ UNION {rs[j].hints : j \in {i}} = rs[i].hints
    <3>1. {rs[j].about : j \in {i}} = {rs[i].about} /\ {rs[j].hints : j \in {i}} = {rs[i].hints}
      OBVIOUS
    <3>2. UNION {rs[i].about} = rs[i].about /\ UNION {rs[i].hints} = rs[i].hints
      OBVIOUS
    <3> QED
      BY <3>1, <3>2, Zenon
  <2>4. (\E j \in {i} : rs[j].required) = rs[i].required
    BY <2>1
  <2>5. WholeOf(rs, i) = [type |-> TypeAt(rs, i), about |-> UNION {rs[j].about : j \in {i}},
                   required |-> \E j \in {i} : rs[j].required,
                   hints |-> UNION {rs[j].hints : j \in {i}}]
    BY <1>5, Zenon DEF WholeOf
  <2> QED
    BY <1>1, <2>2, <2>3, <2>4, <2>5
<1>8. WholesOf(rs) = rs
  BY <1>0, <1>7 DEF WholesOf
<1> QED
  BY <1>6, <1>8, NormalForm, KeepAll

\* What one entry comes to.
LEMMA WholeIs ==
  ASSUME NEW H, NEW rs \in Seq(Results(H)), NEW i \in SaidOf(rs)
  PROVE  /\ WholeOf(rs, i) \in Results(H) /\ i \in DOMAIN rs
         /\ WholeOf(rs, i).type = TypeAt(rs, i)
         /\ WholeOf(rs, i).type \in {"file", "link", "message"}
         /\ WholeOf(rs, i).about # {}
         /\ TypeAt(rs, i) # "message" =>
               /\ WholeOf(rs, i).type = rs[i].type
               /\ WholeOf(rs, i).about = rs[i].about
               /\ WholeOf(rs, i).required = rs[i].required
         /\ WholeOf(rs, i).hints \subseteq UNION {rs[j].hints : j \in DOMAIN rs}
<1>1. i \in DOMAIN rs /\ i \in FoldedOf(rs, i) /\ FoldedOf(rs, i) \subseteq DOMAIN rs
  <2>1. i \in DOMAIN rs /\ RepliesOf(rs) \subseteq DOMAIN rs
    BY DEF SaidOf, RepliesOf
  <2> QED
    BY <2>1 DEF FoldedOf
<1>2. TypeAt(rs, i) \in {"file", "link", "message"} /\ TypeAt(rs, i) \in STRING
  <2>1. TypeAt(rs, i) \in {"file", "link", "message"}
    BY Zenon DEF TypeAt
  <2>2. {"file", "link", "message"} \subseteq STRING
    BY TextsAssumption
  <2> QED
    BY <2>1, <2>2
<1> DEFINE about == UNION {rs[j].about : j \in FoldedOf(rs, i)}
           hints == UNION {rs[j].hints : j \in FoldedOf(rs, i)}
           required == \E j \in FoldedOf(rs, i) : rs[j].required
<1>3. \A j \in FoldedOf(rs, i) : rs[j].about \in SUBSET STRING /\ rs[j].hints \in SUBSET H
  BY <1>1, ResultFields
<1>4. about \in SUBSET STRING /\ hints \in SUBSET H /\ required \in BOOLEAN
  BY <1>3
<1>5. about # {}
  BY <1>1, <1>3 DEF SaidOf
<1>6. hints \subseteq UNION {rs[j].hints : j \in DOMAIN rs}
  BY <1>1
<1>7. WholeOf(rs, i) = [type |-> TypeAt(rs, i), about |-> about, required |-> required, hints |-> hints]
  BY DEF WholeOf
<1>8. TypeAt(rs, i) # "message" => TypeAt(rs, i) = rs[i].type /\ about = rs[i].about /\ required = rs[i].required
  <2> SUFFICES ASSUME TypeAt(rs, i) # "message"
               PROVE TypeAt(rs, i) = rs[i].type /\ about = rs[i].about /\ required = rs[i].required
    OBVIOUS
  <2>1. FoldedOf(rs, i) = {i}
    BY DEF FoldedOf, RepliesOf
  <2>2. about = rs[i].about
    <3>1. {rs[j].about : j \in {i}} = {rs[i].about}
      OBVIOUS
    <3>2. UNION {rs[i].about} = rs[i].about
      OBVIOUS
    <3>3. about = UNION {rs[j].about : j \in {i}}
      BY <2>1, Zenon
    <3> QED
      BY <3>1, <3>2, <3>3, Zenon
  <2>3. required = rs[i].required
    <3>1. rs[i].required \in BOOLEAN
      BY <1>1, ResultFields
    <3>2. (\E j \in {i} : rs[j].required) = rs[i].required
      BY <3>1
    <3> QED
      BY <2>1, <3>2, Zenon
  <2> QED
    BY <2>2, <2>3 DEF TypeAt
<1> HIDE DEF about, hints, required
<1>9. WholeOf(rs, i) \in Results(H)
  BY <1>2, <1>4, <1>7 DEF Results
<1> QED
  BY <1>1, <1>2, <1>5, <1>6, <1>7, <1>8, <1>9

LEMMA NormPlaces ==
  ASSUME NEW H, NEW rs \in Seq(Results(H))
  PROVE  /\ NormalizeExpectedResults(rs) \in Seq(Results(H))
         /\ \A k \in DOMAIN NormalizeExpectedResults(rs) :
               \E i \in ShownOf(rs) : /\ Rank(ShownOf(rs), i) = k
                                      /\ NormalizeExpectedResults(rs)[k] = WholeOf(rs, i)
<1> DEFINE R == {WholeOf(rs, i) : i \in DOMAIN rs}
           kept == ShownOf(rs)
           ws == WholesOf(rs)
<1>1. DOMAIN ws = DOMAIN rs /\ kept \in SUBSET DOMAIN ws /\ ws \in Seq(R)
  BY DEF WholesOf, ShownOf, SaidOf
<1>2. ASSUME NEW i \in kept PROVE i \in SaidOf(rs) /\ i \in DOMAIN rs /\ ws[i] = WholeOf(rs, i)
  BY DEF ShownOf, SaidOf, WholesOf
<1> DEFINE ks == Keep(ws, kept)
<1> HIDE DEF R, kept, ws, ks
<1>3. /\ ks \in Seq(R) /\ DOMAIN ks = 1 .. Cardinality(kept) /\ Cardinality(kept) \in Nat
      /\ \A k \in DOMAIN ks : \E i \in kept : Rank(kept, i) = k /\ ks[k] = ws[i]
  BY <1>1, KeepPlaces, Zenon DEF ks
<1>4. \A k \in DOMAIN ks : \E i \in kept : Rank(kept, i) = k /\ ks[k] = WholeOf(rs, i) /\ ks[k] \in Results(H)
  BY <1>2, <1>3, WholeIs
<1>5. ks \in Seq(Results(H))
  <2>1. Len(ks) \in Nat /\ DOMAIN ks = 1 .. Len(ks) /\ ks = [k \in 1 .. Len(ks) |-> ks[k]]
    BY <1>3
  <2>2. ks \in [1 .. Len(ks) -> Results(H)]
    BY <1>4, <2>1
  <2> QED
    BY <2>1, <2>2
<1>6. ks = NormalizeExpectedResults(rs)
  BY NormalForm DEF ks, ws, kept
<1> QED
  BY <1>4, <1>5, <1>6 DEF kept

\* What an entry in shape comes from.
LEMMA NormEntries ==
  ASSUME NEW H, NEW rs \in Seq(Results(H)), NEW k \in DOMAIN NormalizeExpectedResults(rs)
  PROVE  LET entry == NormalizeExpectedResults(rs)[k]
         IN  /\ entry \in Results(H)
             /\ entry.type # "message" =>
                  \E i \in DOMAIN rs : /\ rs[i].type = entry.type
                                       /\ rs[i].about = entry.about /\ rs[i].required = entry.required
             /\ entry.hints \subseteq UNION {rs[j].hints : j \in DOMAIN rs}
<1>1. PICK i \in ShownOf(rs) : NormalizeExpectedResults(rs)[k] = WholeOf(rs, i)
  BY NormPlaces
<1>2. i \in SaidOf(rs)
  BY DEF ShownOf
<1> QED
  BY <1>1, <1>2, WholeIs

LEMMA NormIsTidy ==
  ASSUME NEW H, NEW rs \in Seq(Results(H))
  PROVE  Tidy(NormalizeExpectedResults(rs))
<1> DEFINE ns == NormalizeExpectedResults(rs)
<1>1. \A k \in DOMAIN ns : \E i \in ShownOf(rs) : Rank(ShownOf(rs), i) = k /\ ns[k] = WholeOf(rs, i)
  BY NormPlaces
<1> HIDE DEF ns
<1>2. \A i \in ShownOf(rs) : i \in SaidOf(rs) /\ i \in Nat /\ \A j \in FoldedOf(rs, i) : i <= j
  BY DEF ShownOf, SaidOf
<1>3. ASSUME NEW i \in ShownOf(rs), NEW j \in ShownOf(rs),
             TypeAt(rs, i) = TypeAt(rs, j),
             TypeAt(rs, i) = "message" \/ rs[i].about = rs[j].about
      PROVE  i = j
  <2>1. CASE TypeAt(rs, i) = "message"
    <3>1. i \in RepliesOf(rs) /\ j \in RepliesOf(rs)
      BY <1>2, <1>3, <2>1 DEF RepliesOf
    <3>2. FoldedOf(rs, i) = RepliesOf(rs) /\ FoldedOf(rs, j) = RepliesOf(rs)
      BY <3>1 DEF FoldedOf
    <3>3. i <= j /\ j <= i /\ i \in Nat /\ j \in Nat
      BY <1>2, <3>1, <3>2
    <3> QED
      BY <3>3
  <2>2. CASE rs[i].about = rs[j].about
    <3>1. i \in Nat /\ j \in Nat /\ i \in DOMAIN rs /\ j \in DOMAIN rs /\ ~RepeatsAt(rs, i) /\ ~RepeatsAt(rs, j)
      BY <1>2 DEF SaidOf
    <3>2. ~(i < j) /\ ~(j < i)
      BY <1>3, <2>2, <3>1 DEF RepeatsAt
    <3> QED
      BY <3>1, <3>2
  <2> QED
    BY <1>3, <2>1, <2>2
<1>4. ASSUME NEW k \in DOMAIN ns PROVE ns[k].type \in {"file", "link", "message"} /\ ns[k].about # {}
  BY <1>1, <1>2, WholeIs
<1>5. ASSUME NEW k \in DOMAIN ns, NEW l \in DOMAIN ns, ns[k].type = ns[l].type,
             ns[k].type = "message" \/ ns[k].about = ns[l].about
      PROVE  k = l
  <2>1. PICK i \in ShownOf(rs) : Rank(ShownOf(rs), i) = k /\ ns[k] = WholeOf(rs, i)
    BY <1>1
  <2>2. PICK j \in ShownOf(rs) : Rank(ShownOf(rs), j) = l /\ ns[l] = WholeOf(rs, j)
    BY <1>1
  <2>3. /\ ns[k].type = TypeAt(rs, i) /\ ns[l].type = TypeAt(rs, j)
        /\ TypeAt(rs, i) # "message" => ns[k].about = rs[i].about
        /\ TypeAt(rs, j) # "message" => ns[l].about = rs[j].about
    BY <1>2, <2>1, <2>2, WholeIs
  <2>4. i = j
    BY <1>3, <1>5, <2>3
  <2> QED
    BY <2>1, <2>2, <2>4
<1>6. Tidy(ns)
  BY <1>4, <1>5 DEF Tidy
<1> QED
  BY <1>6 DEF ns

-----------------------------------------------------------------------------
(* Contracts                                                               *)

\* A file among the results that is required.
WantsFile(rs) == \E i \in DOMAIN rs : rs[i].required /\ rs[i].type = "file"
WantsLink(rs) == \E i \in DOMAIN rs : rs[i].required /\ rs[i].type = "link"

\* Two sequences of results that differ in their hints alone.
SameResults(rs, qs) ==
  /\ DOMAIN rs = DOMAIN qs
  /\ \A i \in DOMAIN rs : /\ rs[i].type = qs[i].type /\ rs[i].about = qs[i].about
                          /\ rs[i].required = qs[i].required

LEMMA SameResultsTidy ==
  ASSUME NEW rs, NEW qs, SameResults(rs, qs), Tidy(rs)
  PROVE  Tidy(qs) /\ (WantsFile(qs) <=> WantsFile(rs)) /\ (WantsLink(qs) <=> WantsLink(rs))
BY DEF SameResults, Tidy, WantsFile, WantsLink

\* What is left of a tidy sequence is tidy.
LEMMA TidyKept ==
  ASSUME NEW H, NEW rs \in Seq(Results(H)), Tidy(rs), NEW kept \in SUBSET (DOMAIN rs)
  PROVE  /\ Keep(rs, kept) \in Seq(Results(H)) /\ Tidy(Keep(rs, kept))
         /\ \A k \in DOMAIN Keep(rs, kept) : \E i \in kept : Keep(rs, kept)[k] = rs[i]
<1> DEFINE ks == Keep(rs, kept)
<1>1. /\ ks \in Seq(Results(H))
      /\ \A k \in DOMAIN ks : \E i \in kept : Rank(kept, i) = k /\ ks[k] = rs[i]
  BY KeepPlaces
<1> HIDE DEF ks
<1>2. Tidy(ks)
  BY <1>1 DEF Tidy
<1> QED
  BY <1>1, <1>2 DEF ks

LEMMA NormWants ==
  ASSUME NEW H, NEW rs \in Seq(Results(H))
  PROVE  WantsFile(NormalizeExpectedResults(rs)) => WantsFile(rs)
BY NormEntries DEF WantsFile

\* A contract is of its fields.
HasFields(c, T) ==
  /\ c.required \in SUBSET T /\ c.anyOf \in SUBSET SUBSET T /\ c.hints \in SUBSET T
  /\ c.files \in BOOLEAN /\ c.results \in Seq(Results(Tools))
  /\ c.artifact \in {"none", "preferred", "required"}
  /\ c = [required |-> c.required, anyOf |-> c.anyOf, hints |-> c.hints,
          files |-> c.files, results |-> c.results, artifact |-> c.artifact]

LEMMA ContractFields ==
  ASSUME NEW T \in SUBSET Tools, NEW c \in Contracts(T)
  PROVE  HasFields(c, T)
BY DEF Contracts, HasFields

LEMMA SameContract ==
  ASSUME NEW T \in SUBSET Tools, NEW c \in Contracts(T), NEW d \in Contracts(T),
         c.required = d.required, c.anyOf = d.anyOf, c.hints = d.hints,
         c.files = d.files, c.results = d.results, c.artifact = d.artifact
  PROVE  c = d
<1>1. /\ c = [required |-> c.required, anyOf |-> c.anyOf, hints |-> c.hints,
              files |-> c.files, results |-> c.results, artifact |-> c.artifact]
      /\ d = [required |-> d.required, anyOf |-> d.anyOf, hints |-> d.hints,
              files |-> d.files, results |-> d.results, artifact |-> d.artifact]
  BY ContractFields, Zenon DEF HasFields
<1> QED
  BY <1>1, Zenon

LEMMA FileIsRequiredIs ==
  ASSUME NEW T \in SUBSET Tools, NEW c \in Contracts(T)
  PROVE  /\ FileIsRequired(c) \in BOOLEAN
         /\ FileIsRequired(c) <=> \/ c.artifact = "required" \/ c.files
                                  \/ WantsFile(NormalizeExpectedResults(c.results))
         /\ Tidy(c.results) =>
              (FileIsRequired(c) <=> c.artifact = "required" \/ c.files \/ WantsFile(c.results))
<1>0. c.results \in Seq(Results(Tools))
  BY ContractFields DEF HasFields
<1>1. /\ FileIsRequired(c) \in BOOLEAN
      /\ FileIsRequired(c) <=> \/ c.artifact = "required" \/ c.files
                               \/ WantsFile(NormalizeExpectedResults(c.results))
  <2> DEFINE ns == NormalizeExpectedResults(c.results)
  <2>1. (\E result \in Range(ns) : result.required /\ result.type = "file") <=> WantsFile(ns)
    <3> HIDE DEF ns
    <3> QED
      BY DEF Range, WantsFile
  <2> HIDE DEF ns
  <2> QED
    BY <2>1 DEF FileIsRequired, ns
<1>2. Tidy(c.results) => NormalizeExpectedResults(c.results) = c.results
  BY <1>0, TidyStays
<1> QED
  BY <1>1, <1>2

LEMMA PublicLinkOnlyIs ==
  ASSUME NEW T \in SUBSET Tools, NEW c \in Contracts(T), Tidy(c.results)
  PROVE  PublicLinkOnly(c) <=> WantsLink(c.results) /\ ~WantsFile(c.results)
<1> DEFINE rs == c.results
           wanted == {result.type : result \in {r \in Range(rs) : r.required}}
<1>0. NormalizeExpectedResults(c.results) = c.results
  BY ContractFields, TidyStays DEF HasFields
<1>1. PublicLinkOnly(c) <=> "link" \in wanted /\ "file" \notin wanted
  BY <1>0 DEF PublicLinkOnly
<1>2. ("link" \in wanted <=> WantsLink(rs)) /\ ("file" \in wanted <=> WantsFile(rs))
  <2> HIDE DEF rs
  <2> QED
    BY DEF Range, WantsLink, WantsFile
<1> QED
  BY <1>1, <1>2

\* A contract in shape: nothing says nothing, and a file that is required is
\* asked for and delivered.
Shaped(c) ==
  /\ {} \notin c.anyOf /\ Tidy(c.results)
  /\ FileIsRequired(c) <=> c.artifact = "required"
  /\ c.artifact = "required" => FileDeliver \in c.required

LEMMA TidiedIs ==
  ASSUME NEW T \in SUBSET Tools, NEW c \in Contracts(T)
  PROVE  LET t == Tidied(c)
         IN  /\ t \in Contracts(T) /\ Tidy(t.results) /\ (FileIsRequired(t) <=> FileIsRequired(c))
             /\ t.required = c.required /\ t.anyOf = c.anyOf \ {{}} /\ t.hints = c.hints
             /\ t.files = c.files /\ t.results = NormalizeExpectedResults(c.results)
             /\ t.artifact = c.artifact
<1> DEFINE t == Tidied(c)
           ns == NormalizeExpectedResults(c.results)
<1>0. HasFields(c, T)
  BY ContractFields
<1> USE DEF HasFields
<1>1. ns \in Seq(Results(Tools)) /\ Tidy(ns)
  BY <1>0, NormPlaces, NormIsTidy
<1> HIDE DEF ns
<1>2. t = [required |-> c.required, anyOf |-> c.anyOf \ {{}}, hints |-> c.hints,
           files |-> c.files, results |-> ns, artifact |-> c.artifact]
  <2>1. t = [c EXCEPT !.anyOf = c.anyOf \ {{}}, !.results = ns]
    BY Zenon DEF Tidied, ns
  <2> HIDE DEF t
  <2> QED
    BY <1>0, <2>1
<1> HIDE DEF t
<1>3. t \in Contracts(T)
  BY <1>0, <1>1, <1>2 DEF Contracts
<1>4. FileIsRequired(t) <=> FileIsRequired(c)
  <2>1. FileIsRequired(t) <=> t.artifact = "required" \/ t.files \/ WantsFile(t.results)
    BY <1>1, <1>2, <1>3, FileIsRequiredIs
  <2>2. FileIsRequired(c) <=> c.artifact = "required" \/ c.files \/ WantsFile(ns)
    BY FileIsRequiredIs DEF ns
  <2> QED
    BY <1>2, <2>1, <2>2
<1> QED
  BY <1>1, <1>2, <1>3, <1>4 DEF t, ns

LEMMA NormalizedIs ==
  ASSUME NEW T \in SUBSET Tools, NEW c \in Contracts(T), FileDeliver \in T
  PROVE  LET n == NormalizeOutcomeContract(c)
         IN  /\ n \in Contracts(T) /\ Shaped(n) /\ (FileIsRequired(n) <=> FileIsRequired(c))
             /\ n.required = IF FileIsRequired(c) THEN c.required \union {FileDeliver} ELSE c.required
             /\ n.anyOf = c.anyOf \ {{}} /\ n.hints = c.hints /\ n.files = c.files
             /\ n.results = NormalizeExpectedResults(c.results)
             /\ n.artifact = IF FileIsRequired(c) THEN "required" ELSE c.artifact
<1> DEFINE t == Tidied(c)
           n == NormalizeOutcomeContract(c)
<1>0. /\ t \in Contracts(T) /\ Tidy(t.results) /\ (FileIsRequired(t) <=> FileIsRequired(c))
      /\ t.required = c.required /\ t.anyOf = c.anyOf \ {{}} /\ t.hints = c.hints
      /\ t.files = c.files /\ t.results = NormalizeExpectedResults(c.results)
      /\ t.artifact = c.artifact
  BY TidiedIs
<1>1. n = WithDelivery(t)
  BY DEF NormalizeOutcomeContract
<1> HIDE DEF t, n
<1>2. HasFields(t, T)
  BY <1>0, ContractFields
<1> USE DEF HasFields
<1>3. FileIsRequired(t) <=> t.artifact = "required" \/ t.files \/ WantsFile(t.results)
  BY <1>0, FileIsRequiredIs
<1>4. CASE FileIsRequired(t)
  <2>1. n = [required |-> t.required \union {FileDeliver}, anyOf |-> t.anyOf, hints |-> t.hints,
             files |-> t.files, results |-> t.results, artifact |-> "required"]
    BY <1>1, <1>2, <1>4 DEF WithDelivery
  <2>2. n \in Contracts(T)
    BY <1>2, <2>1 DEF Contracts
  <2>3. FileIsRequired(n)
    BY <2>1 DEF FileIsRequired
  <2> QED
    BY <1>0, <1>4, <2>1, <2>2, <2>3 DEF Shaped, n
<1>5. CASE ~FileIsRequired(t)
  <2>1. n = t
    BY <1>1, <1>5 DEF WithDelivery
  <2> QED
    BY <1>0, <1>3, <1>5, <2>1 DEF Shaped, n
<1> QED
  BY <1>4, <1>5

\* A contract in shape stays as it is.
LEMMA ShapedStays ==
  ASSUME NEW T \in SUBSET Tools, NEW c \in Contracts(T), FileDeliver \in T, Shaped(c)
  PROVE  NormalizeOutcomeContract(c) = c
<1> DEFINE n == NormalizeOutcomeContract(c)
<1>1. /\ n \in Contracts(T)
      /\ n.required = IF FileIsRequired(c) THEN c.required \union {FileDeliver} ELSE c.required
      /\ n.anyOf = c.anyOf \ {{}} /\ n.hints = c.hints /\ n.files = c.files
      /\ n.results = NormalizeExpectedResults(c.results)
      /\ n.artifact = IF FileIsRequired(c) THEN "required" ELSE c.artifact
  BY NormalizedIs
<1> HIDE DEF n
<1>2. n.results = c.results
  BY <1>1, ContractFields, TidyStays DEF HasFields, Shaped
<1>3. n.required = c.required /\ n.anyOf = c.anyOf /\ n.artifact = c.artifact
  BY <1>1 DEF Shaped
<1>4. n = c
  BY <1>1, <1>2, <1>3, SameContract
<1> QED
  BY <1>4 DEF n

\* A set of names, and of results, under the names of now.
RenamedAll(names) == {Renamed[tool] : tool \in names}
RenamedResults(rs) == [i \in DOMAIN rs |-> [rs[i] EXCEPT !.hints = RenamedAll(@)]]

LEMMA RenamedAllIs ==
  ASSUME NEW names \in SUBSET Tools
  PROVE  /\ RenamedAll(names) \in SUBSET Current
         /\ names \subseteq Current => RenamedAll(names) = names
<1>1. Renamed \in [Tools -> Current] /\ \A tool \in Current : Renamed[tool] = tool
  BY ToolsAssumption DEF Current
<1> QED
  BY <1>1 DEF RenamedAll

LEMMA RenamedResultsAre ==
  ASSUME NEW rs \in Seq(Results(Tools))
  PROVE  /\ RenamedResults(rs) \in Seq(Results(Current)) /\ SameResults(rs, RenamedResults(rs))
         /\ rs \in Seq(Results(Current)) => RenamedResults(rs) = rs
<1> DEFINE qs == RenamedResults(rs)
           One(i) == [rs[i] EXCEPT !.hints = RenamedAll(@)]
<1>1. ASSUME NEW i \in DOMAIN rs
      PROVE  /\ One(i) \in Results(Current) /\ One(i).type = rs[i].type
             /\ One(i).about = rs[i].about /\ One(i).required = rs[i].required
             /\ rs[i].hints \subseteq Current => One(i) = rs[i]
  <2>1. /\ rs[i] \in Results(Tools) /\ rs[i].hints \in SUBSET Tools
        /\ rs[i] = [type |-> rs[i].type, about |-> rs[i].about, required |-> rs[i].required,
                    hints |-> rs[i].hints]
    BY ResultFields DEF Results
  <2>2. RenamedAll(rs[i].hints) \in SUBSET Current
    BY <2>1, RenamedAllIs
  <2>3. One(i) = [type |-> rs[i].type, about |-> rs[i].about, required |-> rs[i].required,
                  hints |-> RenamedAll(rs[i].hints)]
    BY <2>1
  <2>4. rs[i].hints \subseteq Current => RenamedAll(rs[i].hints) = rs[i].hints
    BY <2>1, RenamedAllIs
  <2>5. rs[i].type \in STRING /\ rs[i].about \in SUBSET STRING /\ rs[i].required \in BOOLEAN
    BY ResultFields
  <2> HIDE DEF One
  <2>6. One(i) \in Results(Current)
    BY <2>2, <2>3, <2>5 DEF Results
  <2>7. rs[i].hints \subseteq Current => One(i) = rs[i]
    BY <2>1, <2>3, <2>4, Zenon
  <2> QED
    BY <2>3, <2>6, <2>7
<1>2. qs = [i \in DOMAIN rs |-> One(i)]
  BY DEF RenamedResults
<1> HIDE DEF One
<1>3. qs \in Seq(Results(Current))
  BY <1>1, <1>2
<1>4. SameResults(rs, qs)
  BY <1>1, <1>2 DEF SameResults
<1>5. ASSUME rs \in Seq(Results(Current)) PROVE qs = rs
  <2>1. \A i \in DOMAIN rs : One(i) = rs[i]
    <3>1. ASSUME NEW i \in DOMAIN rs PROVE One(i) = rs[i]
      <4>1. rs[i].hints \in SUBSET Current
        BY <1>5, ResultFields
      <4> QED
        BY <1>1, <4>1
    <3> QED
      BY <3>1
  <2>2. rs = [i \in DOMAIN rs |-> rs[i]]
    OBVIOUS
  <2> QED
    BY <1>2, <2>1, <2>2
<1> QED
  BY <1>3, <1>4, <1>5

\* What is made of a contract before it is put in shape.
RenamedContract(c) ==
  [c EXCEPT !.required = RenamedAll(@), !.hints = RenamedAll(@),
            !.anyOf = {RenamedAll(group) : group \in @}, !.results = RenamedResults(@)]

LEMMA RenamedContractIs ==
  ASSUME NEW c \in Contracts(Tools)
  PROVE  LET r == RenamedContract(c)
         IN  /\ r \in Contracts(Current) /\ NormalizePersisted(c) = NormalizeOutcomeContract(r)
             /\ r.results = RenamedResults(c.results) /\ r.files = c.files /\ r.artifact = c.artifact
             /\ c \in Contracts(Current) =>
                  r.required = c.required /\ r.anyOf = c.anyOf /\ r.hints = c.hints
<1> DEFINE r == RenamedContract(c)
<1>0. Tools \in SUBSET Tools /\ Current \in SUBSET Tools
  BY DEF Current
<1>1. HasFields(c, Tools)
  BY <1>0, ContractFields
<1> USE DEF HasFields
<1> DEFINE groups == {RenamedAll(group) : group \in c.anyOf}
<1>2. r = [required |-> RenamedAll(c.required), anyOf |-> groups, hints |-> RenamedAll(c.hints),
           files |-> c.files, results |-> RenamedResults(c.results), artifact |-> c.artifact]
  <2>1. r = [c EXCEPT !.required = RenamedAll(c.required), !.hints = RenamedAll(c.hints),
                      !.anyOf = groups, !.results = RenamedResults(c.results)]
    BY Zenon DEF RenamedContract
  <2> HIDE DEF r, groups
  <2> QED
    BY <1>1, <2>1
<1>3. /\ RenamedAll(c.required) \in SUBSET Current /\ RenamedAll(c.hints) \in SUBSET Current
      /\ groups \in SUBSET SUBSET Current
  BY <1>1, RenamedAllIs
<1>4. RenamedResults(c.results) \in Seq(Results(Tools))
  <2>1. RenamedResults(c.results) \in Seq(Results(Current))
    BY <1>1, RenamedResultsAre
  <2>2. Results(Current) \subseteq Results(Tools)
    BY <1>0 DEF Results
  <2> HIDE DEF groups, r
  <2> QED
    BY <2>1, <2>2
<1>5. c \in Contracts(Current) =>
        RenamedAll(c.required) = c.required /\ groups = c.anyOf /\ RenamedAll(c.hints) = c.hints
  <2> SUFFICES ASSUME c \in Contracts(Current)
               PROVE RenamedAll(c.required) = c.required /\ groups = c.anyOf /\ RenamedAll(c.hints) = c.hints
    OBVIOUS
  <2>1. c.required \in SUBSET Current /\ c.anyOf \in SUBSET SUBSET Current /\ c.hints \in SUBSET Current
    BY <1>0, ContractFields DEF HasFields
  <2>2. \A group \in c.anyOf : RenamedAll(group) = group
    BY <1>0, <2>1, RenamedAllIs
  <2>3. groups = {group : group \in c.anyOf}
    BY <2>2
  <2> QED
    BY <1>1, <2>1, <2>3, RenamedAllIs
<1>6. NormalizePersisted(c) = NormalizeOutcomeContract(r)
  BY Zenon DEF NormalizePersisted, RenamedContract, RenamedAll, RenamedResults
<1> HIDE DEF groups, r
<1>7. r \in Contracts(Current)
  BY <1>1, <1>2, <1>3, <1>4 DEF Contracts
<1> QED
  BY <1>2, <1>5, <1>6, <1>7 DEF r

LEMMA PersistedIs ==
  ASSUME NEW c \in Contracts(Tools)
  PROVE  LET p == NormalizePersisted(c)
         IN  /\ p \in Contracts(Current) /\ Shaped(p) /\ p.results \in Seq(Results(Current))
             /\ NormalizePersisted(p) = p
<1> DEFINE r == RenamedContract(c)
           p == NormalizePersisted(c)
<1>0. Tools \in SUBSET Tools /\ Current \in SUBSET Tools /\ FileDeliver \in Current
  BY ToolsAssumption DEF Current
<1>1. r \in Contracts(Current) /\ p = NormalizeOutcomeContract(r) /\ r.results \in Seq(Results(Current))
  <2>1. r \in Contracts(Current) /\ p = NormalizeOutcomeContract(r) /\ r.results = RenamedResults(c.results)
    BY RenamedContractIs
  <2>2. c.results \in Seq(Results(Tools))
    BY <1>0, ContractFields DEF HasFields
  <2> QED
    BY <2>1, <2>2, RenamedResultsAre
<1> HIDE DEF r, p
<1>2. p \in Contracts(Current) /\ Shaped(p) /\ p.results \in Seq(Results(Current))
  <2>1. p \in Contracts(Current) /\ Shaped(p) /\ p.results = NormalizeExpectedResults(r.results)
    BY <1>0, <1>1, NormalizedIs
  <2> QED
    BY <1>1, <2>1, NormPlaces
<1>3. p \in Contracts(Tools)
  BY <1>0, <1>2 DEF Contracts
<1> DEFINE q == RenamedContract(p)
<1>4. /\ q \in Contracts(Current) /\ NormalizePersisted(p) = NormalizeOutcomeContract(q)
      /\ q.results = RenamedResults(p.results) /\ q.files = p.files /\ q.artifact = p.artifact
      /\ q.required = p.required /\ q.anyOf = p.anyOf /\ q.hints = p.hints
  BY <1>2, <1>3, RenamedContractIs
<1> HIDE DEF q
<1>5. p.results \in Seq(Results(Tools))
  BY <1>0, <1>2, ContractFields DEF HasFields
<1>6. q.results = p.results
  BY <1>2, <1>4, <1>5, RenamedResultsAre
<1>7. q = p
  BY <1>0, <1>2, <1>4, <1>6, SameContract
<1>8. NormalizePersisted(p) = p
  BY <1>0, <1>2, <1>4, <1>7, ShapedStays
<1> QED
  BY <1>2, <1>8 DEF p

\* A contract in shape under the names of now is read back as it was saved, but
\* for the hints of its results.
LEMMA ReadBack ==
  ASSUME NEW c \in Contracts(Current), Shaped(c)
  PROVE  LET p == NormalizePersisted(c)
         IN  /\ p \in Contracts(Current) /\ Shaped(p) /\ p.required = c.required /\ p.anyOf = c.anyOf
             /\ p.hints = c.hints /\ p.files = c.files /\ p.artifact = c.artifact
             /\ SameResults(c.results, p.results)
<1> DEFINE r == RenamedContract(c)
           p == NormalizePersisted(c)
<1>0. Tools \in SUBSET Tools /\ Current \in SUBSET Tools /\ FileDeliver \in Current
  BY ToolsAssumption DEF Current
<1>1. c \in Contracts(Tools) /\ c.results \in Seq(Results(Tools))
  BY <1>0, ContractFields DEF HasFields, Contracts
<1>2. /\ r \in Contracts(Current) /\ p = NormalizeOutcomeContract(r)
      /\ r.results = RenamedResults(c.results) /\ r.files = c.files /\ r.artifact = c.artifact
      /\ r.required = c.required /\ r.anyOf = c.anyOf /\ r.hints = c.hints
  BY <1>1, RenamedContractIs
<1>3. SameResults(c.results, r.results)
  BY <1>1, <1>2, RenamedResultsAre
<1> HIDE DEF r, p
<1>4. Tidy(r.results) /\ (WantsFile(r.results) <=> WantsFile(c.results))
  BY <1>3, SameResultsTidy DEF Shaped
<1>5. FileIsRequired(r) <=> FileIsRequired(c)
  BY <1>0, <1>2, <1>4, FileIsRequiredIs DEF Shaped
<1>6. Shaped(r)
  BY <1>2, <1>4, <1>5 DEF Shaped
<1>7. p = r
  BY <1>0, <1>2, <1>6, ShapedStays
<1> QED
  BY <1>2, <1>3, <1>6, <1>7 DEF p

-----------------------------------------------------------------------------
(* A contract that asks for less                                           *)

\* d asks for nothing c does not, and lets go of the names of E alone.
Loses(c, d, E) ==
  /\ d.required \subseteq c.required /\ c.required \ E \subseteq d.required
  /\ \A left \in d.anyOf : \E group \in c.anyOf : left \subseteq group
  /\ \A group \in c.anyOf : group \ E # {} =>
        \E left \in d.anyOf : group \ E \subseteq left /\ left \subseteq group
Narrows(c, d, E) ==
  /\ Loses(c, d, E)
  /\ d.hints \subseteq c.hints /\ (d.files => c.files)
  /\ \A i \in DOMAIN d.results : \E j \in DOMAIN c.results : d.results[i].type = c.results[j].type
  /\ FileIsRequired(d) => FileIsRequired(c)

LEMMA NarrowsOn ==
  ASSUME NEW c, NEW d, NEW e, NEW E, Narrows(c, d, E), Narrows(d, e, E)
  PROVE  Narrows(c, e, E)
<1>1. e.required \subseteq c.required /\ c.required \ E \subseteq e.required
  BY DEF Narrows, Loses
<1>2. \A left \in e.anyOf : \E group \in c.anyOf : left \subseteq group
  <2> SUFFICES ASSUME NEW left \in e.anyOf PROVE \E group \in c.anyOf : left \subseteq group
    OBVIOUS
  <2>1. PICK mid \in d.anyOf : left \subseteq mid
    BY DEF Narrows, Loses
  <2>2. PICK group \in c.anyOf : mid \subseteq group
    BY DEF Narrows, Loses
  <2> QED
    BY <2>1, <2>2
<1>3. ASSUME NEW group \in c.anyOf, group \ E # {}
      PROVE  \E left \in e.anyOf : group \ E \subseteq left /\ left \subseteq group
  <2>1. PICK mid \in d.anyOf : group \ E \subseteq mid /\ mid \subseteq group
    BY <1>3 DEF Narrows, Loses
  <2>2. mid \ E # {}
    BY <1>3, <2>1
  <2>3. PICK left \in e.anyOf : mid \ E \subseteq left /\ left \subseteq mid
    BY <2>2 DEF Narrows, Loses
  <2>4. group \ E \subseteq left /\ left \subseteq group
    BY <2>1, <2>3
  <2> QED
    BY <2>4
<1>4. e.hints \subseteq c.hints /\ (e.files => c.files) /\ (FileIsRequired(e) => FileIsRequired(c))
  BY DEF Narrows, Loses
<1>5. \A i \in DOMAIN e.results : \E j \in DOMAIN c.results : e.results[i].type = c.results[j].type
  <2> SUFFICES ASSUME NEW i \in DOMAIN e.results
               PROVE \E j \in DOMAIN c.results : e.results[i].type = c.results[j].type
    OBVIOUS
  <2>1. PICK m \in DOMAIN d.results : e.results[i].type = d.results[m].type
    BY DEF Narrows, Loses
  <2>2. PICK j \in DOMAIN c.results : d.results[m].type = c.results[j].type
    BY DEF Narrows, Loses
  <2> QED
    BY <2>1, <2>2
<1> QED
  BY <1>1, <1>2, <1>3, <1>4, <1>5 DEF Narrows, Loses

LEMMA NarrowsLess ==
  ASSUME NEW c, NEW d, NEW E, NEW F, E \subseteq F, Narrows(c, d, E)
  PROVE  Narrows(c, d, F)
<1>1. ASSUME NEW group \in c.anyOf, group \ F # {}
      PROVE  \E left \in d.anyOf : group \ F \subseteq left /\ left \subseteq group
  <2>1. group \ E # {} /\ group \ F \subseteq group \ E
    BY <1>1
  <2>2. PICK left \in d.anyOf : group \ E \subseteq left /\ left \subseteq group
    BY <2>1 DEF Narrows, Loses
  <2>3. group \ F \subseteq left
    BY <2>1, <2>2
  <2> QED
    BY <2>2, <2>3
<1>2. c.required \ F \subseteq d.required
  BY DEF Narrows, Loses
<1> QED
  BY <1>1, <1>2 DEF Narrows, Loses

\* What a narrower contract names and wants, the other does.
LEMMA NarrowsNames ==
  ASSUME NEW c, NEW d, NEW E, Narrows(c, d, E)
  PROVE  /\ RequiredNames(d) \subseteq RequiredNames(c) /\ NamedTools(d) \subseteq NamedTools(c)
         /\ Wants(d) \subseteq Wants(c)
         /\ ExpectsFile(d) => ExpectsFile(c)
<1>1. d.required \subseteq c.required /\ d.hints \subseteq c.hints
  BY DEF Narrows, Loses
<1>2. ASSUME NEW tool \in UNION d.anyOf PROVE tool \in UNION c.anyOf
  <2>1. PICK left \in d.anyOf : tool \in left
    OBVIOUS
  <2>2. PICK group \in c.anyOf : left \subseteq group
    BY DEF Narrows, Loses
  <2> QED
    BY <2>1, <2>2
<1>3. RequiredNames(d) \subseteq RequiredNames(c)
  BY <1>1, <1>2 DEF RequiredNames
<1>4. NamedTools(d) \subseteq NamedTools(c)
  BY <1>1, <1>3 DEF NamedTools
<1>5. FileIsRequired(d) => FileIsRequired(c)
  BY DEF Narrows, Loses
<1>6. Wants(d) \subseteq Wants(c)
  <2> HIDE DEF FileIsRequired, NamedTools
  <2> QED
    BY <1>4, <1>5 DEF Wants
<1>7. ExpectsFile(d) => ExpectsFile(c)
  BY <1>3 DEF Narrows, Loses, ExpectsFile, HasType
<1> QED
  BY <1>3, <1>4, <1>6, <1>7

\* Taking names away narrows.
TakesAway(c, d, R) == d.required = c.required \ R /\ d.anyOf = WithoutInGroups(c.anyOf, R)

LEMMA TakenAway ==
  ASSUME NEW c, NEW d, NEW R, TakesAway(c, d, R)
  PROVE  /\ \A E : R \subseteq E => Loses(c, d, E)
         /\ RequiredNames(d) = RequiredNames(c) \ R
<1>0. d.required = c.required \ R /\ d.anyOf = {group \ R : group \in c.anyOf} \ {{}}
  BY DEF TakesAway, WithoutInGroups
<1>2. \A left \in d.anyOf : \E group \in c.anyOf : left = group \ R
  BY <1>0
<1>3. ASSUME NEW group \in c.anyOf, group \ R # {}
      PROVE  group \ R \in d.anyOf
  BY <1>0, <1>3
<1>4. ASSUME NEW E, R \subseteq E PROVE Loses(c, d, E)
  <2>1. d.required \subseteq c.required /\ c.required \ E \subseteq d.required
    BY <1>0, <1>4
  <2>2. \A left \in d.anyOf : \E group \in c.anyOf : left \subseteq group
    BY <1>2
  <2>3. ASSUME NEW group \in c.anyOf, group \ E # {}
        PROVE  \E left \in d.anyOf : group \ E \subseteq left /\ left \subseteq group
    <3>1. group \ R # {} /\ group \ E \subseteq group \ R /\ group \ R \subseteq group
      BY <1>4, <2>3
    <3> QED
      BY <1>3, <3>1
  <2> QED
    BY <2>1, <2>2, <2>3 DEF Loses
<1>5. ASSUME NEW tool \in UNION d.anyOf PROVE tool \in (UNION c.anyOf) \ R
  <2>1. PICK left \in d.anyOf : tool \in left
    OBVIOUS
  <2>2. PICK group \in c.anyOf : left = group \ R
    BY <1>2
  <2> QED
    BY <2>1, <2>2
<1>6. ASSUME NEW tool \in UNION c.anyOf, tool \notin R PROVE tool \in UNION d.anyOf
  <2>1. PICK group \in c.anyOf : tool \in group
    OBVIOUS
  <2>2. tool \in group \ R
    BY <1>6, <2>1
  <2> QED
    BY <1>3, <2>2
<1>7. UNION d.anyOf = (UNION c.anyOf) \ R
  BY <1>5, <1>6
<1>8. RequiredNames(d) = RequiredNames(c) \ R
  BY <1>0, <1>7 DEF RequiredNames
<1> QED
  BY <1>4, <1>8

-----------------------------------------------------------------------------
(* The steps of sanitizeOutcomeContractForRequest                          *)

Drafts(set) == {tool \in set : Known(set, tool, "draft")}
Maintains(set, c) == \E tool \in NamedTools(c) : Known(set, tool, "message") /\ ~Sends(set, tool)

LEMMA NothingTaken ==
  ASSUME NEW groups, {} \notin groups
  PROVE  groups = WithoutInGroups(groups, {})
<1>1. \A group \in groups : group \ {} = group
  OBVIOUS
<1>2. {group \ {} : group \in groups} = groups
  BY <1>1
<1> QED
  BY <1>2 DEF WithoutInGroups

LEMMA WithoutDraftsIs ==
  ASSUME NEW T \in SUBSET Tools, NEW c \in Contracts(T), {} \notin c.anyOf, NEW set
  PROVE  LET d == WithoutDrafts(set, c)
             D == IF ExpectsFile(c) THEN Drafts(set) ELSE {}
         IN  /\ d \in Contracts(T) /\ d.required = c.required \ D
             /\ d.anyOf = WithoutInGroups(c.anyOf, D) /\ {} \notin d.anyOf
             /\ d.hints = c.hints /\ d.files = c.files /\ d.results = c.results
             /\ d.artifact = c.artifact
<1> DEFINE d == WithoutDrafts(set, c)
           D == Drafts(set)
           groups == WithoutInGroups(c.anyOf, D)
<1>0. HasFields(c, T)
  BY ContractFields
<1> USE DEF HasFields
<1>1. CASE ExpectsFile(c)
  <2>1. d = [c EXCEPT !.required = c.required \ D, !.anyOf = groups]
    BY <1>1, Zenon DEF WithoutDrafts, Drafts
  <2>2. groups \in SUBSET SUBSET T /\ {} \notin groups
    BY <1>0 DEF WithoutInGroups
  <2> HIDE DEF d, groups, D
  <2>3. d = [required |-> c.required \ D, anyOf |-> groups, hints |-> c.hints,
             files |-> c.files, results |-> c.results, artifact |-> c.artifact]
    BY <1>0, <2>1
  <2>4. d \in Contracts(T)
    BY <1>0, <2>2, <2>3 DEF Contracts
  <2> QED
    BY <1>1, <2>2, <2>3, <2>4 DEF d, groups, D
<1>2. CASE ~ExpectsFile(c)
  <2>1. d = c
    BY <1>2 DEF WithoutDrafts
  <2>2. c.anyOf = WithoutInGroups(c.anyOf, {})
    BY NothingTaken
  <2> HIDE DEF d
  <2> QED
    BY <1>2, <2>1, <2>2 DEF d
<1> QED
  BY <1>1, <1>2

\* Where no file is expected there is none to remove.
LEMMA WithoutFileIs ==
  ASSUME NEW T \in SUBSET Tools, NEW c \in Contracts(T), {} \notin c.anyOf
  PROVE  WithoutFile(c) = c
<1>0. HasFields(c, T)
  BY ContractFields
<1> USE DEF HasFields
<1>1. CASE HasType(c, "link") /\ ~ExpectsFile(c)
  <2> DEFINE groups == WithoutInGroups(c.anyOf, {FileDeliver})
             kept == {i \in DOMAIN c.results : c.results[i].type # "file"}
             left == Keep(c.results, kept)
             f == WithoutFile(c)
  <2>1. f = [c EXCEPT !.files = FALSE, !.required = c.required \ {FileDeliver},
                      !.anyOf = groups, !.results = left]
    BY <1>1, Zenon DEF WithoutFile
  <2>2. c.files = FALSE /\ FileDeliver \notin c.required /\ FileDeliver \notin UNION c.anyOf
        /\ ~HasType(c, "file")
    BY <1>0, <1>1 DEF ExpectsFile, RequiredNames
  <2>3. groups = c.anyOf
    <3>1. \A group \in c.anyOf : group \ {FileDeliver} = group
      BY <2>2
    <3>2. {group \ {FileDeliver} : group \in c.anyOf} = c.anyOf
      BY <3>1
    <3> QED
      BY <3>2 DEF WithoutInGroups
  <2>4. kept = DOMAIN c.results
    BY <2>2 DEF HasType
  <2>5. left = c.results
    BY <1>0, <2>4, KeepAll
  <2>6. c.required \ {FileDeliver} = c.required
    BY <2>2
  <2> HIDE DEF groups, left, kept, f
  <2>7. f = [c EXCEPT !.files = c.files, !.required = c.required, !.anyOf = c.anyOf, !.results = c.results]
    BY <2>1, <2>2, <2>3, <2>5, <2>6
  <2>8. f = c
    BY <1>0, <2>7
  <2> QED
    BY <2>8 DEF f
<1>2. CASE ~(HasType(c, "link") /\ ~ExpectsFile(c))
  BY <1>2 DEF WithoutFile
<1> QED
  BY <1>1, <1>2

LEMMA WithoutArtifactIs ==
  ASSUME NEW T \in SUBSET Tools, NEW c \in Contracts(T)
  PROVE  LET d == WithoutArtifact(c)
         IN  /\ d \in Contracts(T) /\ d.required = c.required /\ d.anyOf = c.anyOf
             /\ d.hints = c.hints /\ d.files = c.files /\ d.results = c.results
             /\ d.artifact = IF PublicLinkOnly(c) THEN "none" ELSE c.artifact
<1> DEFINE d == WithoutArtifact(c)
<1>0. HasFields(c, T)
  BY ContractFields
<1> USE DEF HasFields
<1>1. CASE PublicLinkOnly(c)
  <2>1. d = [c EXCEPT !.artifact = "none"]
    BY <1>1 DEF WithoutArtifact
  <2> HIDE DEF d
  <2>2. d = [required |-> c.required, anyOf |-> c.anyOf, hints |-> c.hints,
             files |-> c.files, results |-> c.results, artifact |-> "none"]
    BY <1>0, <2>1
  <2>3. d \in Contracts(T)
    BY <1>0, <2>2 DEF Contracts
  <2> QED
    BY <1>1, <2>2, <2>3 DEF d
<1>2. CASE ~PublicLinkOnly(c)
  BY <1>2 DEF WithoutArtifact
<1> QED
  BY <1>1, <1>2

LEMMA WithoutMessageSendIs ==
  ASSUME NEW T \in SUBSET Tools, NEW c \in Contracts(T), {} \notin c.anyOf, NEW set
  PROVE  LET d == WithoutMessageSend(set, c)
             M == IF Maintains(set, c) THEN {MessageSend} ELSE {}
         IN  /\ d \in Contracts(T) /\ d.required = c.required \ M
             /\ d.anyOf = WithoutInGroups(c.anyOf, M) /\ {} \notin d.anyOf
             /\ d.hints = c.hints \ M /\ d.files = c.files /\ d.results = c.results
             /\ d.artifact = c.artifact
<1> DEFINE d == WithoutMessageSend(set, c)
           groups == WithoutInGroups(c.anyOf, {MessageSend})
<1>0. HasFields(c, T)
  BY ContractFields
<1> USE DEF HasFields
<1>1. CASE Maintains(set, c)
  <2>1. d = [c EXCEPT !.required = c.required \ {MessageSend}, !.hints = c.hints \ {MessageSend},
                      !.anyOf = groups]
    BY <1>1, Zenon DEF WithoutMessageSend, Maintains
  <2>2. groups \in SUBSET SUBSET T /\ {} \notin groups
    BY <1>0 DEF WithoutInGroups
  <2> HIDE DEF d, groups
  <2>3. d = [required |-> c.required \ {MessageSend}, anyOf |-> groups, hints |-> c.hints \ {MessageSend},
             files |-> c.files, results |-> c.results, artifact |-> c.artifact]
    BY <1>0, <2>1
  <2>4. d \in Contracts(T)
    BY <1>0, <2>2, <2>3 DEF Contracts
  <2> DEFINE M == IF Maintains(set, c) THEN {MessageSend} ELSE {}
  <2>5. M = {MessageSend}
    BY <1>1
  <2> HIDE DEF M
  <2>6. groups = WithoutInGroups(c.anyOf, M)
    BY <2>5 DEF groups
  <2> QED
    BY <2>2, <2>3, <2>4, <2>5, <2>6 DEF d, M
<1>2. CASE ~Maintains(set, c)
  <2>1. d = c
    BY <1>2, Zenon DEF WithoutMessageSend, Maintains
  <2>2. c.anyOf = WithoutInGroups(c.anyOf, {})
    BY NothingTaken
  <2> HIDE DEF d
  <2> QED
    BY <1>2, <2>1, <2>2 DEF d
<1> QED
  BY <1>1, <1>2

\* Nothing that only prepares a file is required where one is expected, and no
\* message is sent where messages are maintained.
Clean(set, c) ==
  /\ ExpectsFile(c) => RequiredNames(c) \intersect Drafts(set) = {}
  /\ Maintains(set, c) => MessageSend \notin NamedTools(c)

LEMMA NarrowsClean ==
  ASSUME NEW c, NEW d, NEW E, NEW set, Narrows(c, d, E), Clean(set, c)
  PROVE  Clean(set, d)
<1>1. RequiredNames(d) \subseteq RequiredNames(c) /\ NamedTools(d) \subseteq NamedTools(c)
      /\ (ExpectsFile(d) => ExpectsFile(c))
  BY NarrowsNames
<1>2. Maintains(set, d) => Maintains(set, c)
  BY <1>1 DEF Maintains
<1> QED
  BY <1>1, <1>2 DEF Clean

LEMMA TakenTwice ==
  ASSUME NEW groups, NEW D, NEW M
  PROVE  WithoutInGroups(WithoutInGroups(groups, D), M) = WithoutInGroups(groups, D \union M)
<1> DEFINE once == {g \ D : g \in groups} \ {{}}
           twice == {group \ M : group \in once} \ {{}}
           all == {group \ (D \union M) : group \in groups} \ {{}}
<1>1. ASSUME NEW g \in groups PROVE (g \ D) \ M = g \ (D \union M)
  OBVIOUS
<1>2. ASSUME NEW x \in twice PROVE x \in all
  <2>1. PICK h \in once : x = h \ M /\ x # {}
    OBVIOUS
  <2>2. PICK g \in groups : h = g \ D
    OBVIOUS
  <2>3. x = g \ (D \union M)
    BY <1>1, <2>1, <2>2
  <2> QED
    BY <2>1, <2>3
<1>3. ASSUME NEW x \in all PROVE x \in twice
  <2>1. PICK g \in groups : x = g \ (D \union M) /\ x # {}
    OBVIOUS
  <2>2. x = (g \ D) \ M
    BY <1>1, <2>1
  <2>3. g \ D # {}
    BY <2>1, <2>2
  <2>4. g \ D \in once
    BY <2>3
  <2> HIDE DEF once
  <2> QED
    BY <2>1, <2>2, <2>4
<1>4. twice = all
  BY <1>2, <1>3
<1> QED
  BY <1>4 DEF WithoutInGroups

LEMMA SanitizeIs ==
  ASSUME NEW T \in SUBSET Tools, NEW c \in Contracts(T), FileDeliver \in T, NEW set \in SUBSET Tools
  PROVE  LET n == NormalizeOutcomeContract(c)
             d == Sanitize(set, c)
             E == (IF ExpectsFile(n) THEN Drafts(set) ELSE {}) \union {MessageSend}
         IN  /\ d \in Contracts(T) /\ Shaped(d) /\ Clean(set, d) /\ Narrows(n, d, E)
             /\ d.files = n.files /\ d.results = n.results
             /\ FileIsRequired(d) <=> FileIsRequired(n) /\ ~LinkAlone(n)
             /\ Clean(set, n) => d.required = n.required /\ d.anyOf = n.anyOf
<1> DEFINE n == NormalizeOutcomeContract(c)
           d == Sanitize(set, c)
           D == IF ExpectsFile(n) THEN Drafts(set) ELSE {}
           c2 == WithoutDrafts(set, n)
           c4 == WithoutArtifact(c2)
           c5 == WithoutMessageSend(set, c4)
           M == IF Maintains(set, c4) THEN {MessageSend} ELSE {}
           R == D \union M
<1>1. n \in Contracts(T) /\ Shaped(n)
  BY NormalizedIs
<1>2. /\ c2 \in Contracts(T) /\ c2.required = n.required \ D
      /\ c2.anyOf = WithoutInGroups(n.anyOf, D) /\ {} \notin c2.anyOf
      /\ c2.hints = n.hints /\ c2.files = n.files /\ c2.results = n.results
      /\ c2.artifact = n.artifact
  BY <1>1, WithoutDraftsIs DEF Shaped
<1>3. d = NormalizeOutcomeContract(c5)
  <2>1. WithoutFile(c2) = c2
    BY <1>2, WithoutFileIs
  <2> QED
    BY <2>1, Zenon DEF Sanitize
<1> HIDE DEF n, d, D
<1>4. /\ c4 \in Contracts(T) /\ c4.required = c2.required /\ c4.anyOf = c2.anyOf
      /\ c4.hints = c2.hints /\ c4.files = c2.files /\ c4.results = c2.results
      /\ c4.artifact = IF PublicLinkOnly(c2) THEN "none" ELSE c2.artifact
  BY <1>2, WithoutArtifactIs
<1> HIDE DEF c2
<1>5. /\ c5 \in Contracts(T) /\ c5.required = c4.required \ M
      /\ c5.anyOf = WithoutInGroups(c4.anyOf, M) /\ {} \notin c5.anyOf
      /\ c5.hints = c4.hints \ M /\ c5.files = c4.files /\ c5.results = c4.results
      /\ c5.artifact = c4.artifact
  BY <1>2, <1>4, WithoutMessageSendIs
<1> HIDE DEF c4, M
<1>6. /\ d \in Contracts(T) /\ Shaped(d) /\ (FileIsRequired(d) <=> FileIsRequired(c5))
      /\ d.required = IF FileIsRequired(c5) THEN c5.required \union {FileDeliver} ELSE c5.required
      /\ d.anyOf = c5.anyOf \ {{}} /\ d.hints = c5.hints /\ d.files = c5.files
      /\ d.results = NormalizeExpectedResults(c5.results)
  BY <1>3, <1>5, NormalizedIs
<1> HIDE DEF c5
<1>7. Tidy(n.results) /\ n.results \in Seq(Results(Tools))
  BY <1>1, ContractFields DEF HasFields, Shaped
<1>8. d.files = n.files /\ d.results = n.results
  BY <1>2, <1>4, <1>5, <1>6, <1>7, TidyStays
<1>9. FileIsRequired(c5) <=> FileIsRequired(n) /\ ~LinkAlone(n)
  <2>1. FileIsRequired(c5) <=> c5.artifact = "required" \/ n.files \/ WantsFile(n.results)
    BY <1>2, <1>4, <1>5, <1>7, FileIsRequiredIs
  <2>2. /\ FileIsRequired(n) <=> n.artifact = "required" \/ n.files \/ WantsFile(n.results)
        /\ n.files \in BOOLEAN
    BY <1>1, <1>7, FileIsRequiredIs, ContractFields DEF HasFields
  <2>3. /\ PublicLinkOnly(c2) <=> WantsLink(n.results) /\ ~WantsFile(n.results)
        /\ PublicLinkOnly(n) <=> WantsLink(n.results) /\ ~WantsFile(n.results)
    BY <1>1, <1>2, <1>7, PublicLinkOnlyIs
  <2>4. c5.artifact = IF PublicLinkOnly(c2) THEN "none" ELSE n.artifact
    BY <1>2, <1>4, <1>5
  <2>5. CASE PublicLinkOnly(c2)
    <3>1. c5.artifact # "required"
      BY <2>4, <2>5
    <3> QED
      BY <2>1, <2>2, <2>3, <2>5, <3>1 DEF LinkAlone
  <2>6. CASE ~PublicLinkOnly(c2)
    BY <2>1, <2>2, <2>3, <2>4, <2>6 DEF LinkAlone
  <2> QED
    BY <2>5, <2>6
<1>10. FileDeliver \notin D /\ FileDeliver \notin M
  <2>1. FileDeliver \notin Drafts(set)
    BY ToolsAssumption DEF Drafts, Known
  <2>2. FileDeliver # MessageSend
    BY ToolsAssumption
  <2> QED
    BY <2>1, <2>2 DEF D, M
<1>11. c5.required = n.required \ R /\ c5.anyOf = WithoutInGroups(n.anyOf, R)
       /\ c5.hints = n.hints \ M
  <2>1. c5.required = n.required \ R /\ c5.hints = n.hints \ M
    BY <1>2, <1>4, <1>5
  <2>2. c5.anyOf = WithoutInGroups(WithoutInGroups(n.anyOf, D), M)
    BY <1>2, <1>4, <1>5, Zenon
  <2>3. WithoutInGroups(WithoutInGroups(n.anyOf, D), M) = WithoutInGroups(n.anyOf, R)
    BY TakenTwice
  <2> HIDE DEF R
  <2> QED
    BY <2>1, <2>2, <2>3
<1>12. d.required = n.required \ R /\ d.anyOf = WithoutInGroups(n.anyOf, R)
       /\ d.hints = n.hints \ M
  <2>1. d.hints = n.hints \ M /\ d.anyOf = c5.anyOf
    BY <1>5, <1>6, <1>11
  <2>2. FileIsRequired(c5) => FileDeliver \in c5.required
    BY <1>1, <1>9, <1>10, <1>11 DEF Shaped
  <2>3. d.required = c5.required
    BY <1>6, <2>2
  <2> QED
    BY <1>11, <2>1, <2>3
<1> DEFINE E == D \union {MessageSend}
<1>13. R \subseteq E
  BY DEF M
<1> HIDE DEF R
<1>14. Loses(n, d, E) /\ RequiredNames(d) = RequiredNames(n) \ R
  <2>1. TakesAway(n, d, R)
    BY <1>12 DEF TakesAway
  <2> HIDE DEF E
  <2> QED
    BY <1>13, <2>1, TakenAway
<1>15. Narrows(n, d, E)
  BY <1>6, <1>8, <1>9, <1>12, <1>14 DEF Narrows
<1>16. NamedTools(d) \subseteq NamedTools(c4) /\ M \intersect NamedTools(d) = {}
       /\ NamedTools(c4) \subseteq NamedTools(n)
  <2>1. c4.required = n.required \ D /\ c4.anyOf = WithoutInGroups(n.anyOf, D)
    BY <1>2, <1>4
  <2>2. RequiredNames(c4) = RequiredNames(n) \ D
    <3>1. TakesAway(n, c4, D)
      BY <2>1 DEF TakesAway
    <3> QED
      BY <3>1, TakenAway
  <2> QED
    BY <1>2, <1>4, <1>12, <1>14, <2>2 DEF NamedTools, R
<1>17. Clean(set, d)
  <2>1. ASSUME ExpectsFile(d) PROVE RequiredNames(d) \intersect Drafts(set) = {}
    <3>1. ExpectsFile(n)
      BY <1>15, <2>1, NarrowsNames
    <3> QED
      BY <1>14, <3>1 DEF R, D
  <2>2. ASSUME Maintains(set, d) PROVE MessageSend \notin NamedTools(d)
    <3>1. Maintains(set, c4)
      BY <1>16, <2>2 DEF Maintains
    <3> QED
      BY <1>16, <3>1 DEF M
  <2> QED
    BY <2>1, <2>2 DEF Clean
<1>18. ASSUME Clean(set, n) PROVE d.required = n.required /\ d.anyOf = n.anyOf
  <2>1. Maintains(set, c4) => Maintains(set, n)
    BY <1>16 DEF Maintains
  <2>2. R \intersect RequiredNames(n) = {}
    BY <1>18, <2>1 DEF R, D, M, Clean, NamedTools
  <2>3. \A group \in n.anyOf : group \ R = group
    BY <2>2 DEF RequiredNames
  <2>4. WithoutInGroups(n.anyOf, R) = n.anyOf
    <3>1. {group \ R : group \in n.anyOf} = n.anyOf
      BY <2>3
    <3> QED
      BY <1>1, <3>1 DEF Shaped, WithoutInGroups
  <2>5. n.required \ R = n.required
    BY <2>2 DEF RequiredNames
  <2> QED
    BY <1>1, <1>12, <2>4, <2>5 DEF Shaped
<1>19. FileIsRequired(d) <=> FileIsRequired(n) /\ ~LinkAlone(n)
  BY <1>6, <1>9
<1> QED
  BY <1>6, <1>8, <1>15, <1>17, <1>18, <1>19 DEF n, d, D

-----------------------------------------------------------------------------
(* The steps of a turn that begins                                         *)

\* The results that ask for more than the input, without it.
LeftResults(rs) == Keep(rs, {i \in DOMAIN rs : rs[i].hints # {AskInput}})
MetResults(rs) == [i \in DOMAIN LeftResults(rs) |-> [LeftResults(rs)[i] EXCEPT !.hints = @ \ {AskInput}]]

LEMMA OtherHints ==
  ASSUME NEW r, NEW hints,
         r = [type |-> r.type, about |-> r.about, required |-> r.required, hints |-> r.hints]
  PROVE  [r EXCEPT !.hints = hints]
           = [type |-> r.type, about |-> r.about, required |-> r.required, hints |-> hints]
OBVIOUS

LEMMA OtherNames ==
  ASSUME NEW c, NEW required, NEW anyOf, NEW hints, NEW results,
         c = [required |-> c.required, anyOf |-> c.anyOf, hints |-> c.hints,
              files |-> c.files, results |-> c.results, artifact |-> c.artifact]
  PROVE  [c EXCEPT !.required = required, !.hints = hints, !.anyOf = anyOf, !.results = results]
           = [required |-> required, anyOf |-> anyOf, hints |-> hints,
              files |-> c.files, results |-> results, artifact |-> c.artifact]
<1> DEFINE r == c.required
           a == c.anyOf
           h == c.hints
           f == c.files
           s == c.results
           t == c.artifact
<1> HIDE DEF r, a, h, f, s, t
<1>1. c = [required |-> r, anyOf |-> a, hints |-> h, files |-> f, results |-> s, artifact |-> t]
  BY Zenon DEF r, a, h, f, s, t
<1> DEFINE c1 == [c EXCEPT !.required = required]
           c2 == [c1 EXCEPT !.hints = hints]
           c3 == [c2 EXCEPT !.anyOf = anyOf]
           c4 == [c3 EXCEPT !.results = results]
<1> HIDE DEF c1, c2, c3, c4
<1>2. c1 = [required |-> required, anyOf |-> a, hints |-> h, files |-> f, results |-> s, artifact |-> t]
  BY <1>1 DEF c1
<1>3. c2 = [required |-> required, anyOf |-> a, hints |-> hints, files |-> f, results |-> s, artifact |-> t]
  BY <1>2 DEF c2
<1>4. c3 = [required |-> required, anyOf |-> anyOf, hints |-> hints, files |-> f, results |-> s,
            artifact |-> t]
  BY <1>3 DEF c3
<1>5. c4 = [required |-> required, anyOf |-> anyOf, hints |-> hints, files |-> f, results |-> results,
            artifact |-> t]
  BY <1>4 DEF c4
<1> QED
  BY <1>5, Zenon DEF c1, c2, c3, c4, f, t

LEMMA MetResultsAre ==
  ASSUME NEW rs \in Seq(Results(Tools)), Tidy(rs)
  PROVE  /\ MetResults(rs) \in Seq(Results(Tools)) /\ Tidy(MetResults(rs))
         /\ \A k \in DOMAIN MetResults(rs) :
              /\ AskInput \notin MetResults(rs)[k].hints
              /\ \E i \in DOMAIN rs : /\ MetResults(rs)[k].type = rs[i].type
                                      /\ MetResults(rs)[k].required = rs[i].required
<1> DEFINE kept == {i \in DOMAIN rs : rs[i].hints # {AskInput}}
           ls == LeftResults(rs)
           ms == MetResults(rs)
           One(k) == [ls[k] EXCEPT !.hints = @ \ {AskInput}]
<1>1. kept \in SUBSET (DOMAIN rs)
  OBVIOUS
<1>2. /\ ls \in Seq(Results(Tools)) /\ Tidy(ls)
      /\ \A k \in DOMAIN ls : \E i \in kept : ls[k] = rs[i]
  <2>1. ls = Keep(rs, kept)
    BY DEF LeftResults
  <2> HIDE DEF ls, kept
  <2> QED
    BY <1>1, <2>1, TidyKept
<1>3. ms = [k \in DOMAIN ls |-> One(k)]
  BY DEF MetResults
<1> HIDE DEF ls, ms, kept
<1>4. ASSUME NEW k \in DOMAIN ls
      PROVE  /\ One(k) \in Results(Tools) /\ One(k).type = ls[k].type /\ One(k).about = ls[k].about
             /\ One(k).required = ls[k].required /\ AskInput \notin One(k).hints
  <2>1. /\ ls[k] \in Results(Tools) /\ ls[k].hints \in SUBSET Tools
        /\ ls[k].type \in STRING /\ ls[k].about \in SUBSET STRING /\ ls[k].required \in BOOLEAN
        /\ ls[k] = [type |-> ls[k].type, about |-> ls[k].about, required |-> ls[k].required,
                    hints |-> ls[k].hints]
    <3>1. /\ ls[k] \in Results(Tools) /\ ls[k].hints \in SUBSET Tools
          /\ ls[k].type \in STRING /\ ls[k].about \in SUBSET STRING /\ ls[k].required \in BOOLEAN
      BY <1>2, ResultFields
    <3> QED
      BY <3>1 DEF Results
  <2>2. One(k) = [type |-> ls[k].type, about |-> ls[k].about, required |-> ls[k].required,
                  hints |-> ls[k].hints \ {AskInput}]
    BY <2>1, OtherHints
  <2> HIDE DEF One
  <2>3. One(k) \in Results(Tools)
    BY <2>1, <2>2 DEF Results
  <2> QED
    BY <2>2, <2>3
<1> HIDE DEF One
<1>5. ms \in Seq(Results(Tools)) /\ DOMAIN ms = DOMAIN ls
  BY <1>2, <1>3, <1>4
<1>6. SameResults(ls, ms)
  BY <1>3, <1>4, <1>5 DEF SameResults
<1>7. Tidy(ms)
  BY <1>2, <1>6, SameResultsTidy
<1>8. ASSUME NEW k \in DOMAIN ms
      PROVE  /\ AskInput \notin ms[k].hints
             /\ \E i \in DOMAIN rs : ms[k].type = rs[i].type /\ ms[k].required = rs[i].required
  <2>1. ms[k] = One(k) /\ k \in DOMAIN ls
    BY <1>3, <1>5
  <2>2. PICK i \in kept : ls[k] = rs[i]
    BY <1>2, <2>1
  <2> QED
    BY <1>1, <1>4, <2>1, <2>2
<1> QED
  BY <1>5, <1>7, <1>8 DEF ms

LEMMA DischargedIs ==
  ASSUME NEW c \in Contracts(Current), Shaped(c)
  PROVE  LET d == Discharged(c)
         IN  /\ d \in Contracts(Current) /\ Shaped(d) /\ Narrows(c, d, {AskInput})
             /\ FileIsRequired(d) <=> FileIsRequired(c)
             /\ AskInput \notin NamedTools(d)
             /\ \A k \in DOMAIN d.results : AskInput \notin d.results[k].hints
<1> DEFINE d == Discharged(c)
           groups == WithoutInGroups(c.anyOf, {AskInput})
           ms == MetResults(c.results)
           m == [c EXCEPT !.required = c.required \ {AskInput}, !.hints = c.hints \ {AskInput},
                          !.anyOf = groups, !.results = ms]
<1>0. Current \in SUBSET Tools /\ FileDeliver \in Current /\ FileDeliver # AskInput
  BY ToolsAssumption DEF Current
<1>1. HasFields(c, Current)
  BY <1>0, ContractFields
<1> USE DEF HasFields
<1>2. d = NormalizeOutcomeContract(m)
  BY Zenon DEF Discharged, MetResults, LeftResults
<1>3. groups \in SUBSET SUBSET Current /\ {} \notin groups
  BY <1>1 DEF WithoutInGroups
<1>4. /\ ms \in Seq(Results(Tools)) /\ Tidy(ms)
      /\ \A k \in DOMAIN ms : /\ AskInput \notin ms[k].hints
                              /\ \E i \in DOMAIN c.results : /\ ms[k].type = c.results[i].type
                                                             /\ ms[k].required = c.results[i].required
  BY <1>1, MetResultsAre DEF Shaped
<1> HIDE DEF groups, ms
<1>5. m = [required |-> c.required \ {AskInput}, anyOf |-> groups, hints |-> c.hints \ {AskInput},
           files |-> c.files, results |-> ms, artifact |-> c.artifact]
  <2> DEFINE required == c.required \ {AskInput}
             hints == c.hints \ {AskInput}
  <2>1. m = [c EXCEPT !.required = required, !.hints = hints, !.anyOf = groups, !.results = ms]
    BY DEF m
  <2>2. c = [required |-> c.required, anyOf |-> c.anyOf, hints |-> c.hints,
             files |-> c.files, results |-> c.results, artifact |-> c.artifact]
    BY <1>1
  <2> HIDE DEF required, hints, m
  <2>3. m = [required |-> required, anyOf |-> groups, hints |-> hints,
             files |-> c.files, results |-> ms, artifact |-> c.artifact]
    BY <2>1, <2>2, OtherNames
  <2> QED
    BY <2>3 DEF required, hints
<1> HIDE DEF m, d
<1>6. m \in Contracts(Current)
  BY <1>1, <1>3, <1>4, <1>5 DEF Contracts
<1>7. FileIsRequired(m) <=> FileIsRequired(c)
  <2>1. FileIsRequired(m) <=> c.artifact = "required" \/ c.files \/ WantsFile(ms)
    BY <1>0, <1>4, <1>5, <1>6, FileIsRequiredIs
  <2>2. FileIsRequired(c) <=> c.artifact = "required" \/ c.files \/ WantsFile(c.results)
    BY <1>0, FileIsRequiredIs DEF Shaped
  <2>3. WantsFile(ms) => WantsFile(c.results)
    BY <1>4 DEF WantsFile
  <2>4. FileIsRequired(c) <=> c.artifact = "required"
    BY DEF Shaped
  <2> QED
    BY <2>1, <2>2, <2>3, <2>4
<1>8. Shaped(m)
  <2>1. c.artifact = "required" => FileDeliver \in m.required
    BY <1>0, <1>5 DEF Shaped
  <2>2. FileIsRequired(m) <=> m.artifact = "required"
    BY <1>5, <1>7 DEF Shaped
  <2> QED
    BY <1>3, <1>4, <1>5, <2>1, <2>2 DEF Shaped
<1>9. d = m
  BY <1>0, <1>2, <1>6, <1>8, ShapedStays
<1>10. Loses(c, m, {AskInput}) /\ RequiredNames(m) = RequiredNames(c) \ {AskInput}
  <2>1. TakesAway(c, m, {AskInput})
    BY <1>5 DEF TakesAway, groups
  <2> QED
    BY <2>1, TakenAway
<1>11. Narrows(c, m, {AskInput})
  BY <1>4, <1>5, <1>7, <1>10 DEF Narrows
<1>12. AskInput \notin NamedTools(m)
  BY <1>5, <1>10 DEF NamedTools
<1>13. \A k \in DOMAIN m.results : AskInput \notin m.results[k].hints
  BY <1>4, <1>5
<1> QED
  BY <1>6, <1>7, <1>8, <1>9, <1>11, <1>12, <1>13 DEF d

\* Results of which no file is required.
RelaxedResults(rs) == [i \in DOMAIN rs |-> [rs[i] EXCEPT !.required = @ /\ rs[i].type # "file"]]

LEMMA OtherRequired ==
  ASSUME NEW r, NEW required,
         r = [type |-> r.type, about |-> r.about, required |-> r.required, hints |-> r.hints]
  PROVE  [r EXCEPT !.required = required]
           = [type |-> r.type, about |-> r.about, required |-> required, hints |-> r.hints]
OBVIOUS

LEMMA RelaxedResultsAre ==
  ASSUME NEW rs \in Seq(Results(Tools)), Tidy(rs)
  PROVE  LET qs == RelaxedResults(rs)
         IN  /\ qs \in Seq(Results(Tools)) /\ Tidy(qs) /\ ~WantsFile(qs) /\ DOMAIN qs = DOMAIN rs
             /\ \A i \in DOMAIN rs : qs[i].type = rs[i].type /\ qs[i].hints = rs[i].hints
<1> DEFINE qs == RelaxedResults(rs)
           Needed(i) == rs[i].required /\ rs[i].type # "file"
           One(i) == [rs[i] EXCEPT !.required = Needed(i)]
<1>1. qs = [i \in DOMAIN rs |-> One(i)]
  BY DEF RelaxedResults
<1>2. ASSUME NEW i \in DOMAIN rs
      PROVE  /\ One(i) \in Results(Tools) /\ One(i).type = rs[i].type /\ One(i).about = rs[i].about
             /\ One(i).required = Needed(i) /\ One(i).hints = rs[i].hints
  <2>1. /\ rs[i] \in Results(Tools) /\ rs[i].hints \in SUBSET Tools /\ rs[i].type \in STRING
        /\ rs[i].about \in SUBSET STRING
    BY ResultFields
  <2>2. rs[i] = [type |-> rs[i].type, about |-> rs[i].about, required |-> rs[i].required,
                 hints |-> rs[i].hints]
    BY <2>1 DEF Results
  <2>3. Needed(i) \in BOOLEAN
    OBVIOUS
  <2> HIDE DEF Needed
  <2>4. One(i) = [type |-> rs[i].type, about |-> rs[i].about, required |-> Needed(i),
                  hints |-> rs[i].hints]
    BY <2>2, OtherRequired
  <2> HIDE DEF One
  <2>5. One(i) \in Results(Tools)
    BY <2>1, <2>3, <2>4 DEF Results
  <2> QED
    BY <2>4, <2>5
<1> HIDE DEF qs, One
<1>3. qs \in Seq(Results(Tools)) /\ DOMAIN qs = DOMAIN rs
  BY <1>1, <1>2
<1>4. \A i \in DOMAIN rs : /\ qs[i].type = rs[i].type /\ qs[i].about = rs[i].about
                           /\ qs[i].hints = rs[i].hints /\ qs[i].required = Needed(i)
  BY <1>1, <1>2
<1>5. Tidy(qs)
  BY <1>3, <1>4 DEF Tidy
<1>6. ~WantsFile(qs)
  BY <1>3, <1>4 DEF WantsFile
<1> QED
  BY <1>3, <1>4, <1>5, <1>6 DEF qs

LEMMA ReducedIs ==
  ASSUME NEW c \in Contracts(Current), Shaped(c), NEW set \in SUBSET Tools
  PROVE  LET d == Reduced(set, c)
         IN  /\ d \in Contracts(Current) /\ Shaped(d) /\ Narrows(c, d, Tools \ set)
             /\ FileDeliver \in set /\ FileIsRequired(c) => FileIsRequired(d)
             /\ RequiredNames(d) \subseteq set
             /\ DOMAIN d.results = DOMAIN c.results
             /\ \A i \in DOMAIN c.results : d.results[i].hints = c.results[i].hints
<1> DEFINE d == Reduced(set, c)
           R == Tools \ set
           required == c.required \intersect set
           groups == {group \intersect set : group \in c.anyOf} \ {{}}
           qs == RelaxedResults(c.results)
           named == [c EXCEPT !.required = required, !.anyOf = groups]
<1>0. Current \in SUBSET Tools /\ FileDeliver \in Current
  BY ToolsAssumption DEF Current
<1>1. HasFields(c, Current)
  BY <1>0, ContractFields
<1> USE DEF HasFields
<1>2. required = c.required \ R /\ required \in SUBSET Current
  BY <1>0, <1>1
<1>3. groups = WithoutInGroups(c.anyOf, R) /\ groups \in SUBSET SUBSET Current /\ {} \notin groups
  <2>1. \A group \in c.anyOf : group \intersect set = group \ R
    BY <1>0, <1>1
  <2>2. {group \intersect set : group \in c.anyOf} = {group \ R : group \in c.anyOf}
    BY <2>1
  <2>3. groups \in SUBSET SUBSET Current /\ {} \notin groups
    BY <1>1
  <2> QED
    BY <2>2, <2>3 DEF WithoutInGroups
<1>4. /\ qs \in Seq(Results(Tools)) /\ Tidy(qs) /\ ~WantsFile(qs) /\ DOMAIN qs = DOMAIN c.results
      /\ \A i \in DOMAIN c.results : qs[i].type = c.results[i].type /\ qs[i].hints = c.results[i].hints
  BY <1>1, RelaxedResultsAre DEF Shaped
<1>5. d = IF FileDeliver \in set THEN named
          ELSE [named EXCEPT !.artifact = IF @ = "required" THEN "preferred" ELSE @,
                             !.files = FALSE, !.results = RelaxedResults(@)]
  BY Zenon DEF Reduced, RelaxedResults
<1> HIDE DEF required, groups, qs
<1>6. named = [required |-> required, anyOf |-> groups, hints |-> c.hints,
               files |-> c.files, results |-> c.results, artifact |-> c.artifact]
  <2> DEFINE half == [c EXCEPT !.required = required]
  <2>1. named = [half EXCEPT !.anyOf = groups]
    BY DEF named
  <2>2. half = [required |-> required, anyOf |-> c.anyOf, hints |-> c.hints,
                files |-> c.files, results |-> c.results, artifact |-> c.artifact]
    <3> DEFINE h == half
    <3>1. h = [c EXCEPT !.required = required]
      OBVIOUS
    <3> HIDE DEF h
    <3>2. h = [required |-> required, anyOf |-> c.anyOf, hints |-> c.hints,
               files |-> c.files, results |-> c.results, artifact |-> c.artifact]
      BY <1>1, <3>1
    <3> QED
      BY <3>2 DEF h
  <2> HIDE DEF named, half
  <2> QED
    BY <2>1, <2>2
<1> HIDE DEF named, d
<1> DEFINE artifact == IF c.artifact = "required" THEN "preferred" ELSE c.artifact
<1>7. FileDeliver \notin set =>
        d = [required |-> required, anyOf |-> groups, hints |-> c.hints,
             files |-> FALSE, results |-> qs, artifact |-> artifact]
  <2> SUFFICES ASSUME FileDeliver \notin set
               PROVE d = [required |-> required, anyOf |-> groups, hints |-> c.hints,
                          files |-> FALSE, results |-> qs, artifact |-> artifact]
    OBVIOUS
  <2>1. named.artifact = c.artifact /\ named.results = c.results
    BY <1>6
  <2>2. d = [named EXCEPT !.artifact = artifact, !.files = FALSE, !.results = qs]
    BY <1>5, <2>1 DEF qs
  <2> HIDE DEF artifact
  <2> QED
    BY <1>6, <2>2
<1>8. d \in Contracts(Current) /\ Tidy(d.results) /\ d.anyOf = groups /\ d.required = required
      /\ d.hints = c.hints /\ (d.files => c.files) /\ DOMAIN d.results = DOMAIN c.results
      /\ \A i \in DOMAIN c.results : /\ d.results[i].type = c.results[i].type
                                     /\ d.results[i].hints = c.results[i].hints
  <2>1. CASE FileDeliver \in set
    <3>1. d \in Contracts(Current)
      BY <1>1, <1>2, <1>3, <1>5, <1>6, <2>1 DEF Contracts
    <3> QED
      BY <1>5, <1>6, <2>1, <3>1 DEF Shaped
  <2>2. CASE FileDeliver \notin set
    <3>0. artifact \in {"none", "preferred", "required"}
      BY <1>1
    <3> HIDE DEF artifact
    <3>1. d \in Contracts(Current)
      <4>1. d = [required |-> required, anyOf |-> groups, hints |-> c.hints,
                 files |-> FALSE, results |-> qs, artifact |-> artifact]
        BY <1>7, <2>2
      <4> QED
        BY <1>1, <1>2, <1>3, <1>4, <3>0, <4>1 DEF Contracts
    <3> QED
      BY <1>1, <1>4, <1>7, <2>2, <3>1
  <2> QED
    BY <2>1, <2>2
<1>9. /\ FileDeliver \in set => FileIsRequired(d) <=> FileIsRequired(c)
      /\ FileDeliver \notin set => ~FileIsRequired(d)
      /\ FileIsRequired(d) <=> d.artifact = "required"
  <2>1. FileIsRequired(d) <=> d.artifact = "required" \/ d.files \/ WantsFile(d.results)
    BY <1>0, <1>8, FileIsRequiredIs
  <2>2. /\ FileIsRequired(c) <=> c.artifact = "required" \/ c.files \/ WantsFile(c.results)
        /\ FileIsRequired(c) <=> c.artifact = "required"
    BY <1>0, FileIsRequiredIs DEF Shaped
  <2>3. CASE FileDeliver \in set
    <3>1. d.artifact = c.artifact /\ d.files = c.files /\ d.results = c.results
      BY <1>5, <1>6, <2>3
    <3> QED
      BY <2>1, <2>2, <2>3, <3>1
  <2>4. CASE FileDeliver \notin set
    <3>1. d.artifact = artifact /\ d.files = FALSE /\ d.results = qs
      BY <1>7, <2>4
    <3>2. artifact # "required"
      OBVIOUS
    <3> HIDE DEF artifact
    <3> QED
      BY <1>4, <2>1, <2>4, <3>1, <3>2
  <2> QED
    BY <2>3, <2>4
<1> HIDE DEF artifact
<1>10. Shaped(d)
  <2>1. d.artifact = "required" => FileDeliver \in d.required
    BY <1>8, <1>9 DEF Shaped, required
  <2> QED
    BY <1>3, <1>8, <1>9, <2>1 DEF Shaped
<1>11. Loses(c, d, R) /\ RequiredNames(d) = RequiredNames(c) \ R
  <2>1. TakesAway(c, d, R)
    BY <1>2, <1>3, <1>8 DEF TakesAway
  <2> HIDE DEF R
  <2> QED
    BY <2>1, TakenAway
<1>12. Narrows(c, d, R)
  <2> HIDE DEF R
  <2> QED
    BY <1>8, <1>9, <1>11 DEF Narrows
<1>13. RequiredNames(d) \subseteq set
  BY <1>0, <1>1, <1>11 DEF RequiredNames
<1> QED
  BY <1>8, <1>9, <1>10, <1>12, <1>13 DEF d, R

-----------------------------------------------------------------------------
(* The contract of a request                                               *)

\* A request over the names of now, with a goal in shape.
IsRequest(request) ==
  /\ request.tools \in SUBSET Current /\ request.hints \in SUBSET Current
  /\ request.goal \in Contracts(Current) /\ Shaped(request.goal)
  /\ request.decision.tools \in SUBSET Current /\ request.decision.formats \in BOOLEAN
  /\ request.decision.results \in Seq(Results(Tools))

\* What a decision speaks for.
SpokenBy(said) ==
  said.tools \union (IF said.formats \/ WantsFile(said.results) THEN {FileDeliver} ELSE {})

LEMMA WithArtifactIs ==
  ASSUME NEW request, NEW c \in Contracts(Current)
  PROVE  LET d == WithArtifact(request, c)
         IN  /\ d \in Contracts(Current) /\ d.required = c.required /\ d.anyOf = c.anyOf
             /\ d.hints = c.hints /\ d.files = c.files /\ d.results = c.results
             /\ c.artifact = "required" => d.artifact = "required"
             /\ d.artifact = "required" =>
                  c.artifact = "required" \/ c.files \/ FileDeliver \in RequiredNames(c)
<1> DEFINE artifact == IF c.artifact = "none" THEN ArtifactRequirement(request, c) ELSE c.artifact
           d == WithArtifact(request, c)
<1>0. Current \in SUBSET Tools
  BY DEF Current
<1>1. HasFields(c, Current)
  BY <1>0, ContractFields
<1> USE DEF HasFields
<1>2. /\ ArtifactRequirement(request, c) \in {"none", "preferred", "required"}
      /\ ArtifactRequirement(request, c) = "required" => c.files \/ FileDeliver \in RequiredNames(c)
  BY DEF ArtifactRequirement
<1>3. /\ artifact \in {"none", "preferred", "required"}
      /\ c.artifact = "required" => artifact = "required"
      /\ artifact = "required" => c.artifact = "required" \/ c.files \/ FileDeliver \in RequiredNames(c)
  BY <1>1, <1>2
<1>4. d = [c EXCEPT !.artifact = artifact]
  BY Zenon DEF WithArtifact
<1> HIDE DEF artifact, d
<1>5. d = [required |-> c.required, anyOf |-> c.anyOf, hints |-> c.hints,
           files |-> c.files, results |-> c.results, artifact |-> artifact]
  BY <1>1, <1>4
<1>6. d \in Contracts(Current)
  BY <1>1, <1>3, <1>5 DEF Contracts
<1> QED
  BY <1>3, <1>5, <1>6 DEF d

\* A goal that requires something goes on, and only grows by what its skills
\* hint at.
LEMMA ContinuedIs ==
  ASSUME NEW request, IsRequest(request)
  PROVE  LET c == Continued(request)
             g == request.goal
         IN  /\ c \in Contracts(Current) /\ g.required \subseteq c.required
             /\ c.anyOf = g.anyOf /\ c.files = g.files /\ c.results = g.results
             /\ NamedTools(c) \subseteq NamedTools(g) \union request.hints
             /\ FileDeliver \in RequiredNames(c) => FileDeliver \in RequiredNames(g)
             /\ g.artifact = "required" => c.artifact = "required"
             /\ c.artifact = "required" =>
                  g.artifact = "required" \/ g.files \/ FileDeliver \in RequiredNames(g)
<1> DEFINE g == request.goal
           set == request.tools
           wanted == {tool \in request.hints :
                        \/ tool \in RequiredNames(g)
                        \/ Sends(set, tool) /\ RequiredSends(set, g) # {}}
           k == [g EXCEPT !.hints = g.hints \union request.hints, !.required = g.required \union wanted]
           s == WithSends(set, k)
           c == Continued(request)
<1>0. Current \in SUBSET Tools /\ FileDeliver \in Current /\ ~Sends(set, FileDeliver)
  BY ToolsAssumption DEF Current, Sends, Known
<1>1. g \in Contracts(Current) /\ request.hints \in SUBSET Current
  BY DEF IsRequest
<1>2. HasFields(g, Current)
  BY <1>0, <1>1, ContractFields
<1> USE DEF HasFields
<1>3. c = WithArtifact(request, s)
  BY Zenon DEF Continued
<1> DEFINE hints == g.hints \union request.hints
           required == g.required \union wanted
<1>4. wanted \in SUBSET request.hints /\ (FileDeliver \in wanted => FileDeliver \in RequiredNames(g))
  BY <1>0
<1>5. hints \in SUBSET Current /\ required \in SUBSET Current
  BY <1>1, <1>2, <1>4
<1> HIDE DEF wanted, g, set
<1>6. k = [required |-> required, anyOf |-> g.anyOf, hints |-> hints,
           files |-> g.files, results |-> g.results, artifact |-> g.artifact]
  <2> DEFINE h == [g EXCEPT !.hints = hints]
  <2>1. h = [required |-> g.required, anyOf |-> g.anyOf, hints |-> hints,
             files |-> g.files, results |-> g.results, artifact |-> g.artifact]
    <3> HIDE DEF hints
    <3> DEFINE x == h
    <3>1. x = [g EXCEPT !.hints = hints]
      OBVIOUS
    <3> HIDE DEF x
    <3>2. x = [required |-> g.required, anyOf |-> g.anyOf, hints |-> hints,
               files |-> g.files, results |-> g.results, artifact |-> g.artifact]
      BY <1>2, <3>1
    <3> QED
      BY <3>2 DEF x
  <2>2. k = [h EXCEPT !.required = required]
    OBVIOUS
  <2> HIDE DEF h, k, hints, required
  <2> QED
    BY <2>1, <2>2
<1> DEFINE sends == RequiredSends(set, k)
           all == k.required \union sends
<1>7. s = [k EXCEPT !.required = all]
  BY Zenon DEF WithSends
<1> HIDE DEF k, s, c, hints, required
<1>8. RequiredNames(k) = RequiredNames(g) \union wanted /\ NamedTools(k) \subseteq NamedTools(g) \union request.hints
  BY <1>4, <1>6 DEF RequiredNames, NamedTools, required, hints
<1>9. sends \subseteq RequiredNames(k) /\ FileDeliver \notin sends /\ RequiredNames(k) \subseteq Current
  <2>1. sends \subseteq RequiredNames(k) /\ FileDeliver \notin sends
    BY <1>0 DEF RequiredSends
  <2>2. RequiredNames(k) \subseteq Current
    BY <1>2, <1>5, <1>6 DEF RequiredNames
  <2> QED
    BY <2>1, <2>2
<1> HIDE DEF sends
<1>10. all \in SUBSET Current
  BY <1>5, <1>6, <1>9
<1> HIDE DEF all
<1>11. s = [required |-> all, anyOf |-> g.anyOf, hints |-> hints,
            files |-> g.files, results |-> g.results, artifact |-> g.artifact]
  BY <1>6, <1>7
<1>12. s \in Contracts(Current)
  BY <1>2, <1>5, <1>10, <1>11 DEF Contracts
<1>13. /\ c \in Contracts(Current) /\ c.required = all /\ c.anyOf = g.anyOf
       /\ c.hints = hints /\ c.files = g.files /\ c.results = g.results
       /\ g.artifact = "required" => c.artifact = "required"
       /\ c.artifact = "required" => g.artifact = "required" \/ g.files \/ FileDeliver \in RequiredNames(s)
  BY <1>3, <1>11, <1>12, WithArtifactIs
<1>14. /\ RequiredNames(s) = RequiredNames(k) \union sends /\ RequiredNames(c) = RequiredNames(s)
       /\ NamedTools(c) = RequiredNames(c) \union hints
  BY <1>6, <1>11, <1>13 DEF RequiredNames, NamedTools, all
<1>15. FileDeliver \in RequiredNames(s) => FileDeliver \in RequiredNames(g)
  BY <1>4, <1>8, <1>9, <1>14
<1>16. NamedTools(c) \subseteq NamedTools(g) \union request.hints
  BY <1>6, <1>8, <1>9, <1>14 DEF NamedTools
<1>17. g.required \subseteq c.required
  BY <1>6, <1>13 DEF all, required
<1> QED
  BY <1>13, <1>14, <1>15, <1>16, <1>17 DEF c, g

LEMMA ExpectedOfIs ==
  ASSUME NEW said, said.results \in Seq(Results(Tools)), said.formats \in BOOLEAN
  PROVE  /\ ExpectedOf(said) \in Seq(Results(Tools))
         /\ WantsFile(ExpectedOf(said)) => said.formats \/ WantsFile(said.results)
<1> DEFINE file == [type |-> "file", about |-> {"attached"}, required |-> TRUE, hints |-> {}]
           reply == [type |-> "message", about |-> {"final"}, required |-> TRUE, hints |-> {}]
           files == IF said.formats THEN <<file>> ELSE <<>>
           named == said.results \o files
           all == Append(named, reply)
<1>1. file \in Results(Tools) /\ reply \in Results(Tools)
  BY TextsAssumption DEF Results
<1>2. reply.type = "message"
  OBVIOUS
<1> HIDE DEF file, reply
<1>3. files \in Seq(Results(Tools)) /\ (files # <<>> => said.formats)
  BY <1>1
<1> HIDE DEF files
<1>4. named \in Seq(Results(Tools))
  BY <1>3
<1>5. ASSUME WantsFile(named) PROVE said.formats \/ WantsFile(said.results)
  <2>1. PICK i \in DOMAIN named : named[i].required /\ named[i].type = "file"
    BY <1>5 DEF WantsFile
  <2>2. CASE files = <<>>
    <3>1. named = said.results
      BY <2>2
    <3> QED
      BY <1>5, <3>1
  <2> QED
    BY <1>3, <2>2
<1> HIDE DEF named
<1>6. all \in Seq(Results(Tools))
  BY <1>1, <1>4
<1>7. ASSUME WantsFile(all) PROVE WantsFile(named)
  <2>1. PICK i \in DOMAIN all : all[i].required /\ all[i].type = "file"
    BY <1>7 DEF WantsFile
  <2>2. all[i] # reply
    BY <1>2, <2>1
  <2>3. i \in DOMAIN named /\ all[i] = named[i]
    BY <1>1, <1>4, <2>1, <2>2
  <2> QED
    BY <2>1, <2>3 DEF WantsFile
<1> HIDE DEF all
<1>8. ExpectedOf(said) = IF named = <<>> THEN <<>> ELSE NormalizeExpectedResults(all)
  BY Zenon DEF ExpectedOf, all, named, files, file, reply
<1>9. CASE named = <<>>
  <2>1. ExpectedOf(said) = <<>>
    BY <1>8, <1>9
  <2>2. <<>> \in Seq(Results(Tools)) /\ ~WantsFile(<<>>)
    BY DEF WantsFile
  <2> QED
    BY <2>1, <2>2
<1>10. CASE named # <<>>
  <2>1. ExpectedOf(said) = NormalizeExpectedResults(all)
    BY <1>8, <1>10
  <2>2. NormalizeExpectedResults(all) \in Seq(Results(Tools))
    BY <1>6, NormPlaces
  <2>3. WantsFile(NormalizeExpectedResults(all)) => WantsFile(all)
    BY <1>6, NormWants
  <2> QED
    BY <1>5, <1>7, <2>1, <2>2, <2>3
<1> QED
  BY <1>9, <1>10

\* A message asks for what its decision, its skills and its goal speak for.
LEMMA StartedIs ==
  ASSUME NEW request, IsRequest(request)
  PROVE  LET c == Started(request)
             spoken == NamedTools(request.goal) \union request.hints \union SpokenBy(request.decision)
         IN  /\ c \in Contracts(Current) /\ NamedTools(c) \subseteq spoken
             /\ FileIsRequired(c) => FileDeliver \in spoken
<1> DEFINE g == request.goal
           said == request.decision
           set == request.tools
           required == RequiredEvidence(request)
           spoken == NamedTools(g) \union request.hints \union SpokenBy(said)
           a == Asked(request, required)
           c == Started(request)
<1>0. Current \in SUBSET Tools /\ FileDeliver \in Current
  BY ToolsAssumption DEF Current
<1>1. /\ request.hints \in SUBSET Current /\ g \in Contracts(Current)
      /\ said.tools \in SUBSET Current /\ said.formats \in BOOLEAN
      /\ said.results \in Seq(Results(Tools))
  BY DEF IsRequest
<1>2. NamedTools(g) \subseteq Current
  <2>1. g.required \in SUBSET Current /\ g.anyOf \in SUBSET SUBSET Current /\ g.hints \in SUBSET Current
    BY <1>0, <1>1, ContractFields DEF HasFields
  <2> QED
    BY <2>1 DEF NamedTools, RequiredNames
<1>3. spoken \subseteq Current /\ said.tools \subseteq SpokenBy(said)
      /\ (said.formats => FileDeliver \in SpokenBy(said))
  BY <1>0, <1>1, <1>2 DEF SpokenBy
<1>4. required \subseteq spoken
  BY <1>3 DEF RequiredEvidence, Satisfiable
<1>5. WorkEvidence(request, required) \in SUBSET SUBSET request.hints
  BY DEF WorkEvidence, Satisfiable
<1> DEFINE needs == required \union (IF said.formats THEN {FileDeliver} ELSE {})
           groups == WorkEvidence(request, required)
           hints == NamedTools(g) \union request.hints \union Satisfiable(set, said.tools)
           results == ExpectedOf(said)
<1>6. needs \subseteq spoken /\ hints \subseteq spoken
  BY <1>3, <1>4 DEF Satisfiable
<1>7. results \in Seq(Results(Tools)) /\ (WantsFile(results) => said.formats \/ WantsFile(said.results))
  BY <1>1, ExpectedOfIs
<1>8. a = [required |-> needs, anyOf |-> groups, hints |-> hints,
           files |-> said.formats, results |-> results, artifact |-> "none"]
  <2>1. a = [NoContract EXCEPT !.required = needs, !.anyOf = groups, !.hints = hints,
                               !.files = said.formats, !.results = results]
    BY Zenon DEF Asked
  <2> HIDE DEF needs, groups, hints, results, a
  <2> DEFINE formats == said.formats
  <2>2. formats = said.formats
    OBVIOUS
  <2> HIDE DEF formats, said
  <2>3. a = [NoContract EXCEPT !.required = needs, !.anyOf = groups, !.hints = hints,
                               !.files = formats, !.results = results]
    BY <2>1, <2>2, Zenon
  <2>4. a = [required |-> needs, anyOf |-> groups, hints |-> hints,
             files |-> formats, results |-> results, artifact |-> "none"]
    BY <2>3 DEF NoContract
  <2> QED
    BY <2>2, <2>4, Zenon
<1>9. c = WithArtifact(request, a)
  BY Zenon DEF Started
<1> HIDE DEF a, c, needs, hints, results, groups, spoken, required
<1>10. groups \in SUBSET SUBSET Current
  BY <1>1, <1>5 DEF groups
<1>11. a \in Contracts(Current)
  BY <1>1, <1>3, <1>6, <1>7, <1>8, <1>10 DEF Contracts
<1>12. /\ c \in Contracts(Current) /\ c.required = needs /\ c.anyOf = groups
       /\ c.hints = hints /\ c.files = said.formats /\ c.results = results
       /\ c.artifact = "required" => said.formats \/ FileDeliver \in RequiredNames(a)
  <2> HIDE DEF said
  <2> QED
    BY <1>8, <1>9, <1>11, WithArtifactIs
<1>13. NamedTools(c) \subseteq spoken /\ RequiredNames(a) \subseteq spoken
  <2>1. UNION groups \subseteq request.hints /\ request.hints \subseteq spoken
    BY <1>5 DEF groups, spoken
  <2> QED
    BY <1>6, <1>8, <1>12, <2>1 DEF NamedTools, RequiredNames
<1>14. FileIsRequired(c) => FileDeliver \in spoken
  <2>1. FileIsRequired(c) <=> \/ c.artifact = "required" \/ c.files
                              \/ WantsFile(NormalizeExpectedResults(c.results))
    BY <1>0, <1>12, FileIsRequiredIs
  <2>2. WantsFile(NormalizeExpectedResults(c.results)) => WantsFile(results)
    BY <1>7, <1>12, NormWants
  <2>3. said.formats \/ WantsFile(said.results) => FileDeliver \in spoken
    BY DEF spoken, SpokenBy
  <2> QED
    BY <1>7, <1>12, <1>13, <2>1, <2>2, <2>3
<1> QED
  BY <1>12, <1>13, <1>14 DEF c, spoken

\* What a goal may be let go of.
Excused(set, owed, resolves) ==
  {tool \in Tools : \/ tool \notin set
                    \/ tool = AskInput /\ resolves
                    \/ Known(set, tool, "draft") /\ ExpectsFile(owed)
                    \/ tool = MessageSend}

\* The contract of a turn keeps the goal it carries on.
KeepsGoal(set, owed, resolves, contract) ==
  /\ owed.required \ Excused(set, owed, resolves) \subseteq contract.required
  /\ \A group \in owed.anyOf : group \ Excused(set, owed, resolves) # {} =>
        \E left \in contract.anyOf :
           group \ Excused(set, owed, resolves) \subseteq left /\ left \subseteq group
  /\ FileIsRequired(owed) /\ ~LinkAlone(owed) /\ FileDeliver \in set => FileIsRequired(contract)

\* The steps from a contract in shape to that of the turn.
LEMMA BegunIs ==
  ASSUME NEW c \in Contracts(Current), NEW set \in SUBSET Current, NEW resolves \in BOOLEAN
  PROVE  LET n == NormalizeOutcomeContract(c)
             s == Sanitize(set, c)
             w == Reduced(set, IF resolves THEN Discharged(s) ELSE s)
             E == Excused(set, n, resolves)
         IN  /\ w \in Contracts(Current) /\ Shaped(w) /\ Clean(set, w) /\ RequiredNames(w) \subseteq set
             /\ Narrows(n, w, E)
             /\ FileIsRequired(n) /\ ~LinkAlone(n) /\ FileDeliver \in set => FileIsRequired(w)
             /\ resolves => /\ AskInput \notin NamedTools(w)
                            /\ \A i \in DOMAIN w.results : AskInput \notin w.results[i].hints
<1> DEFINE n == NormalizeOutcomeContract(c)
           s == Sanitize(set, c)
           d == IF resolves THEN Discharged(s) ELSE s
           w == Reduced(set, d)
           E == Excused(set, n, resolves)
           D == (IF ExpectsFile(n) THEN Drafts(set) ELSE {}) \union {MessageSend}
<1>0. Current \in SUBSET Tools /\ {FileDeliver, AskInput, MessageSend} \subseteq Current
      /\ set \in SUBSET Tools
  BY ToolsAssumption DEF Current
<1>1. n \in Contracts(Current) /\ Shaped(n)
  BY <1>0, NormalizedIs
<1>2. /\ s \in Contracts(Current) /\ Shaped(s) /\ Clean(set, s) /\ Narrows(n, s, D)
      /\ FileIsRequired(s) <=> FileIsRequired(n) /\ ~LinkAlone(n)
  BY <1>0, SanitizeIs
<1>3. D \subseteq E /\ (resolves => {AskInput} \subseteq E) /\ Tools \ set \subseteq E
  BY <1>0 DEF Excused, Drafts
<1> HIDE DEF n, s, D
<1>4. /\ d \in Contracts(Current) /\ Shaped(d) /\ Narrows(n, d, E) /\ Clean(set, d)
      /\ FileIsRequired(d) <=> FileIsRequired(s)
      /\ resolves => /\ AskInput \notin NamedTools(d)
                     /\ \A i \in DOMAIN d.results : AskInput \notin d.results[i].hints
  <2> HIDE DEF E
  <2>1. Narrows(n, s, E)
    BY <1>2, <1>3, NarrowsLess
  <2>2. CASE resolves
    <3> DEFINE m == Discharged(s)
    <3>1. /\ m \in Contracts(Current) /\ Shaped(m) /\ Narrows(s, m, {AskInput})
          /\ FileIsRequired(m) <=> FileIsRequired(s)
          /\ AskInput \notin NamedTools(m)
          /\ \A k \in DOMAIN m.results : AskInput \notin m.results[k].hints
      BY <1>2, DischargedIs
    <3>2. d = m
      BY <2>2
    <3> HIDE DEF m, d
    <3>3. Narrows(s, m, E)
      BY <1>3, <2>2, <3>1, NarrowsLess
    <3>4. Narrows(n, m, E)
      BY <2>1, <3>3, NarrowsOn
    <3>5. Clean(set, m)
      BY <1>2, <3>1, NarrowsClean
    <3> QED
      BY <3>1, <3>2, <3>4, <3>5
  <2>3. CASE ~resolves
    BY <1>2, <2>1, <2>3
  <2> QED
    BY <2>2, <2>3
<1> HIDE DEF d
<1>5. /\ w \in Contracts(Current) /\ Shaped(w) /\ Narrows(d, w, Tools \ set)
      /\ FileDeliver \in set /\ FileIsRequired(d) => FileIsRequired(w)
      /\ RequiredNames(w) \subseteq set
      /\ DOMAIN w.results = DOMAIN d.results
      /\ \A i \in DOMAIN d.results : w.results[i].hints = d.results[i].hints
  BY <1>0, <1>4, ReducedIs
<1> HIDE DEF w, E
<1>6. Narrows(d, w, E)
  BY <1>3, <1>5, NarrowsLess
<1>7. Narrows(n, w, E)
  BY <1>4, <1>6, NarrowsOn
<1>8. Clean(set, w) /\ NamedTools(w) \subseteq NamedTools(d)
  BY <1>4, <1>5, NarrowsClean, NarrowsNames
<1> QED
  BY <1>2, <1>4, <1>5, <1>7, <1>8 DEF n, s, d, w, E

LEMMA ContractOfTurnIs ==
  ASSUME NEW request, IsRequest(request), NEW resolves \in BOOLEAN
  PROVE  LET w == ContractOfTurn(request, resolves)
             set == request.tools
             owed == request.goal
         IN  /\ w \in Contracts(Current) /\ Shaped(w) /\ Clean(set, w) /\ RequiredNames(w) \subseteq set
             /\ Wants(w) \subseteq Wants(owed) \union request.hints \union SpokenBy(request.decision)
             /\ HasRequirements(owed) => KeepsGoal(set, owed, resolves, w)
             /\ resolves => /\ AskInput \notin NamedTools(w)
                            /\ \A i \in DOMAIN w.results : AskInput \notin w.results[i].hints
<1> DEFINE set == request.tools
           g == request.goal
           c == IF HasRequirements(g) THEN Continued(request) ELSE Started(request)
           n == NormalizeOutcomeContract(c)
           w == ContractOfTurn(request, resolves)
           E == Excused(set, n, resolves)
           spoken == Wants(g) \union request.hints \union SpokenBy(request.decision)
<1>0. Current \in SUBSET Tools /\ FileDeliver \in Current
  BY ToolsAssumption DEF Current
<1>1. g \in Contracts(Current) /\ Shaped(g) /\ set \in SUBSET Current
  BY DEF IsRequest
<1>2. c \in Contracts(Current)
  <2>1. Continued(request) \in Contracts(Current)
    BY ContinuedIs
  <2>2. Started(request) \in Contracts(Current)
    BY StartedIs
  <2> QED
    BY <2>1, <2>2
<1>3. w = Reduced(set, IF resolves THEN Discharged(Sanitize(set, c)) ELSE Sanitize(set, c))
  BY Zenon DEF ContractOfTurn, ContractFor
<1>4. /\ NamedTools(c) \subseteq spoken
      /\ FileIsRequired(c) => FileDeliver \in spoken
  <2>1. NamedTools(g) \subseteq Wants(g) /\ (FileIsRequired(g) => FileDeliver \in Wants(g))
    BY DEF Wants
  <2>2. CASE HasRequirements(g)
    <3> DEFINE k == Continued(request)
    <3>1. /\ k \in Contracts(Current) /\ k.files = g.files /\ k.results = g.results
          /\ NamedTools(k) \subseteq NamedTools(g) \union request.hints
          /\ k.artifact = "required" =>
               g.artifact = "required" \/ g.files \/ FileDeliver \in RequiredNames(g)
      BY ContinuedIs
    <3>2. c = k
      BY <2>2
    <3> HIDE DEF k, c, g
    <3>3. FileIsRequired(k) <=> k.artifact = "required" \/ k.files \/ WantsFile(k.results)
      BY <1>0, <1>1, <3>1, FileIsRequiredIs DEF Shaped
    <3>4. FileIsRequired(g) <=> g.artifact = "required" \/ g.files \/ WantsFile(g.results)
      BY <1>0, <1>1, FileIsRequiredIs DEF Shaped
    <3>5. FileIsRequired(k) => FileDeliver \in Wants(g)
      BY <2>1, <3>1, <3>3, <3>4 DEF NamedTools
    <3> QED
      BY <2>1, <3>1, <3>2, <3>5
  <2>3. CASE ~HasRequirements(g)
    <3> DEFINE k == Started(request)
               some == NamedTools(g) \union request.hints \union SpokenBy(request.decision)
    <3>1. NamedTools(k) \subseteq some /\ (FileIsRequired(k) => FileDeliver \in some)
      BY StartedIs
    <3>2. c = k
      BY <2>3
    <3>3. some \subseteq spoken
      BY <2>1
    <3> HIDE DEF k, c, g, some, spoken
    <3> QED
      BY <3>1, <3>2, <3>3
  <2> QED
    BY <2>2, <2>3
<1> HIDE DEF c
<1>5. /\ w \in Contracts(Current) /\ Shaped(w) /\ Clean(set, w) /\ RequiredNames(w) \subseteq set
      /\ Narrows(n, w, E)
      /\ FileIsRequired(n) /\ ~LinkAlone(n) /\ FileDeliver \in set => FileIsRequired(w)
      /\ resolves => /\ AskInput \notin NamedTools(w)
                     /\ \A i \in DOMAIN w.results : AskInput \notin w.results[i].hints
  <2> HIDE DEF set, w
  <2> QED
    BY <1>1, <1>2, <1>3, BegunIs, Zenon
<1>6. /\ n \in Contracts(Current) /\ Shaped(n) /\ (FileIsRequired(n) <=> FileIsRequired(c))
      /\ n.required = IF FileIsRequired(c) THEN c.required \union {FileDeliver} ELSE c.required
      /\ n.anyOf = c.anyOf \ {{}} /\ n.hints = c.hints /\ n.files = c.files
      /\ n.results = NormalizeExpectedResults(c.results)
      /\ n.artifact = IF FileIsRequired(c) THEN "required" ELSE c.artifact
  BY <1>0, <1>2, NormalizedIs
<1> HIDE DEF n, w, E, spoken
<1>7. Wants(w) \subseteq spoken
  <2>1. Wants(w) \subseteq Wants(n)
    BY <1>5, NarrowsNames
  <2>2. NamedTools(n) \subseteq spoken
    <3>1. NamedTools(n) \subseteq NamedTools(c) \union (IF FileIsRequired(c) THEN {FileDeliver} ELSE {})
      BY <1>6 DEF NamedTools, RequiredNames
    <3> QED
      BY <1>4, <3>1
  <2>3. Wants(n) \subseteq spoken
    BY <1>4, <1>6, <2>2 DEF Wants
  <2> QED
    BY <2>1, <2>3
<1>8. ASSUME HasRequirements(g) PROVE KeepsGoal(set, g, resolves, w)
  <2>1. /\ g.required \subseteq c.required /\ c.anyOf = g.anyOf /\ c.files = g.files
        /\ c.results = g.results
        /\ FileDeliver \in RequiredNames(c) => FileDeliver \in RequiredNames(g)
        /\ g.artifact = "required" => c.artifact = "required"
        /\ c.artifact = "required" =>
             g.artifact = "required" \/ g.files \/ FileDeliver \in RequiredNames(g)
    <3>1. c = Continued(request)
      BY <1>8 DEF c
    <3> HIDE DEF g
    <3> QED
      BY <3>1, ContinuedIs DEF g
  <2> HIDE DEF g, set
  <2>2. /\ FileIsRequired(g) <=> g.artifact = "required" \/ g.files \/ WantsFile(g.results)
        /\ FileIsRequired(g) <=> g.artifact = "required"
    BY <1>0, <1>1, FileIsRequiredIs DEF Shaped
  <2>3. FileIsRequired(c) <=> c.artifact = "required" \/ c.files \/ WantsFile(c.results)
    BY <1>0, <1>1, <1>2, <2>1, FileIsRequiredIs DEF Shaped
  <2>4. n.anyOf = g.anyOf /\ g.required \subseteq n.required /\ n.files = g.files /\ n.results = g.results
    <3>1. g.results \in Seq(Results(Tools)) /\ Tidy(g.results)
      BY <1>0, <1>1, ContractFields DEF HasFields, Shaped
    <3> QED
      BY <1>1, <1>6, <2>1, <3>1, TidyStays DEF Shaped
  <2>5. ExpectsFile(n) => ExpectsFile(g)
    <3>1. FileDeliver \in RequiredNames(n) => FileDeliver \in RequiredNames(c) \/ FileIsRequired(c)
      BY <1>6 DEF RequiredNames
    <3>2. FileIsRequired(c) => ExpectsFile(g)
      BY <1>1, <2>1, <2>2, <2>3 DEF ExpectsFile, Shaped, RequiredNames
    <3>3. HasType(n, "file") => HasType(g, "file")
      BY <2>4 DEF HasType
    <3> QED
      BY <2>1, <2>4, <3>1, <3>2, <3>3 DEF ExpectsFile
  <2>6. E \subseteq Excused(set, g, resolves)
    BY <2>5 DEF E, Excused
  <2> DEFINE F == Excused(set, g, resolves)
  <2> HIDE DEF F
  <2>7. Narrows(n, w, F)
    BY <1>5, <2>6, NarrowsLess DEF F
  <2>8. /\ g.required \ F \subseteq w.required
        /\ \A group \in g.anyOf : group \ F # {} =>
              \E left \in w.anyOf : group \ F \subseteq left /\ left \subseteq group
    BY <2>4, <2>7 DEF Narrows, Loses
  <2>9. LinkAlone(n) => LinkAlone(g)
    <3>1. (PublicLinkOnly(n) <=> WantsLink(n.results) /\ ~WantsFile(n.results))
          /\ (PublicLinkOnly(g) <=> WantsLink(g.results) /\ ~WantsFile(g.results))
      BY <1>0, <1>1, <1>6, PublicLinkOnlyIs DEF Shaped
    <3> QED
      BY <2>4, <3>1 DEF LinkAlone
  <2>10. FileIsRequired(g) => FileIsRequired(n)
    BY <1>6, <2>1, <2>2, <2>3
  <2> QED
    BY <1>5, <2>8, <2>9, <2>10 DEF KeepsGoal, F
<1> QED
  BY <1>5, <1>7, <1>8 DEF w, spoken

-----------------------------------------------------------------------------
(* The decision about a message                                            *)

LEMMA DecisionFields ==
  ASSUME NEW T, NEW H, NEW d \in Decisions(T, H)
  PROVE  /\ d.tools \in SUBSET T /\ d.results \in Seq(Results(H))
         /\ d.options \in Seq([key : STRING, label : STRING])
         /\ d.formats \in BOOLEAN /\ d.language \in BOOLEAN /\ d.independent \in BOOLEAN
         /\ d.fallback \in BOOLEAN
         /\ d.route \in STRING /\ d.class \in STRING /\ d.shape \in STRING /\ d.level \in STRING
         /\ d.count \in STRING /\ d.kind \in STRING /\ d.priorTask \in STRING /\ d.question \in STRING
BY DEF Decisions

LEMMA NamesAreStrings ==
  /\ {"", "start_task", "continue_task", "clarify", "answer_question", "give_up", "quick_reply",
      "bounded_task", "needs_confirmation", "unsupported", "immediate_reply", "maintenance_task",
      "approval_gated_task", "low", "medium", "high", "none", "one", "several", "document",
      "presentation", "outcome_recovery"} \subseteq STRING
  /\ Routes \subseteq STRING /\ Shapes \subseteq STRING /\ Kinds \subseteq STRING
<1>1. /\ Routes \subseteq STRING /\ Classes \subseteq STRING /\ Shapes \subseteq STRING
      /\ Levels \subseteq STRING /\ Kinds \subseteq STRING
      /\ {"", "one", "several", "outcome_recovery"} \subseteq STRING
  BY TextsAssumption
<1>2. {"start_task", "continue_task", "clarify", "answer_question", "give_up"} \subseteq STRING
  BY <1>1 DEF Routes, WorkRoutes
<1>3. {"quick_reply", "bounded_task", "needs_confirmation", "unsupported"} \subseteq STRING
  BY <1>1 DEF Classes
<1>4. {"immediate_reply", "maintenance_task", "approval_gated_task"} \subseteq STRING
  BY <1>1 DEF Shapes
<1>5. {"none", "document", "presentation"} \subseteq STRING
  BY <1>1 DEF Kinds
<1>6. {"low", "medium", "high"} \subseteq STRING
  <2>1. ASSUME NEW i \in DOMAIN LevelOrder PROVE LevelOrder[i] \in STRING
    BY <1>1 DEF Levels, Range
  <2>2. 2 \in DOMAIN LevelOrder /\ 3 \in DOMAIN LevelOrder /\ 4 \in DOMAIN LevelOrder
        /\ LevelOrder[2] = "low" /\ LevelOrder[3] = "medium" /\ LevelOrder[4] = "high"
    BY DEF LevelOrder
  <2>3. LevelOrder[2] \in STRING /\ LevelOrder[3] \in STRING /\ LevelOrder[4] \in STRING
    BY <2>1, <2>2
  <2> HIDE DEF LevelOrder
  <2> QED
    BY <2>2, <2>3
<1> QED
  BY <1>1, <1>2, <1>3, <1>4, <1>5, <1>6

LEMMA BlankIs == ASSUME NEW T, NEW H PROVE Blank \in Decisions(T, H)
<1> DEFINE none == <<>>
<1>1. "" \in STRING /\ "none" \in STRING
  BY NamesAreStrings
<1>2. none \in Seq(Results(H)) /\ none \in Seq([key : STRING, label : STRING])
  OBVIOUS
<1>3. Blank = [route |-> "", class |-> "", shape |-> "", level |-> "", count |-> "",
               kind |-> "none", formats |-> FALSE, results |-> none, tools |-> {},
               priorTask |-> "none", language |-> FALSE, independent |-> FALSE,
               question |-> "", options |-> none, fallback |-> FALSE]
  BY DEF Blank
<1> HIDE DEF none
<1> QED
  BY <1>1, <1>2, <1>3 DEF Decisions

LEMMA LettersAreStrings == ASSUME NEW i PROVE Letter(i) \in STRING
<1>1. Range(Letters) \subseteq STRING
  BY TextsAssumption
<1>2. ASSUME NEW j \in DOMAIN Letters PROVE Letters[j] \in Range(Letters)
  BY DEF Range
<1>3. 15 \in DOMAIN Letters /\ Letters[15] = "O"
  BY DEF Letters
<1> HIDE DEF Letters
<1> QED
  BY <1>1, <1>2, <1>3 DEF Letter

\* What no rule about the work changes in a decision.
SameWords(d, f) ==
  /\ f.results = d.results /\ f.options = d.options /\ f.question = d.question
  /\ f.formats = d.formats /\ f.kind = d.kind /\ f.count = d.count /\ f.level = d.level
  /\ f.priorTask = d.priorTask /\ f.independent = d.independent /\ f.fallback = d.fallback

LEMMA SameDecision ==
  ASSUME NEW T, NEW H, NEW d \in Decisions(T, H), NEW f \in Decisions(T, H), SameWords(d, f),
         f.route = d.route, f.class = d.class, f.shape = d.shape, f.tools = d.tools,
         f.language = d.language
  PROVE  f = d
<1>1. /\ d = [route |-> d.route, class |-> d.class, shape |-> d.shape, level |-> d.level,
              count |-> d.count, kind |-> d.kind, formats |-> d.formats, results |-> d.results,
              tools |-> d.tools, priorTask |-> d.priorTask, language |-> d.language,
              independent |-> d.independent, question |-> d.question, options |-> d.options,
              fallback |-> d.fallback]
      /\ f = [route |-> f.route, class |-> f.class, shape |-> f.shape, level |-> f.level,
              count |-> f.count, kind |-> f.kind, formats |-> f.formats, results |-> f.results,
              tools |-> f.tools, priorTask |-> f.priorTask, language |-> f.language,
              independent |-> f.independent, question |-> f.question, options |-> f.options,
              fallback |-> f.fallback]
  BY DEF Decisions
<1> QED
  BY <1>1, Zenon DEF SameWords

LEMMA WithTools ==
  ASSUME NEW T, NEW H, NEW d \in Decisions(T, H), NEW S, NEW names \in SUBSET S
  PROVE  LET f == [d EXCEPT !.tools = names]
         IN  /\ f \in Decisions(S, H) /\ SameWords(d, f) /\ f.route = d.route /\ f.shape = d.shape
             /\ f.class = d.class /\ f.tools = names /\ f.language = d.language
BY DEF Decisions, SameWords

LEMMA WithClass ==
  ASSUME NEW T, NEW H, NEW d \in Decisions(T, H), NEW class \in STRING
  PROVE  LET f == [d EXCEPT !.class = class]
         IN  /\ f \in Decisions(T, H) /\ SameWords(d, f) /\ f.route = d.route /\ f.shape = d.shape
             /\ f.class = class /\ f.tools = d.tools /\ f.language = d.language
BY DEF Decisions, SameWords

LEMMA WithShape ==
  ASSUME NEW T, NEW H, NEW d \in Decisions(T, H), NEW shape \in STRING
  PROVE  LET f == [d EXCEPT !.shape = shape]
         IN  /\ f \in Decisions(T, H) /\ SameWords(d, f) /\ f.route = d.route /\ f.shape = shape
             /\ f.class = d.class /\ f.tools = d.tools /\ f.language = d.language
BY DEF Decisions, SameWords

LEMMA WithLanguage ==
  ASSUME NEW T, NEW H, NEW d \in Decisions(T, H), NEW language \in BOOLEAN
  PROVE  LET f == [d EXCEPT !.language = language]
         IN  /\ f \in Decisions(T, H) /\ SameWords(d, f) /\ f.route = d.route /\ f.shape = d.shape
             /\ f.class = d.class /\ f.tools = d.tools /\ f.language = language
BY DEF Decisions, SameWords

-----------------------------------------------------------------------------
(* Clarification options *)

Options == Seq([key : STRING, label : STRING])
KeyAt(os, i) == IF os[i].key = "" THEN Letter(i) ELSE os[i].key
LabelledOf(os) == {i \in DOMAIN os : os[i].label # ""}
UsableOf(os) == {i \in LabelledOf(os) : \A j \in LabelledOf(os) : j < i => KeyAt(os, j) # KeyAt(os, i)}
KeptOf(os, most) == {i \in UsableOf(os) : Cardinality({j \in UsableOf(os) : j <= i}) <= most}
KeyedOf(os) == [i \in DOMAIN os |-> [key |-> KeyAt(os, i), label |-> os[i].label]]

LEMMA OptionsAre ==
  ASSUME NEW os, NEW most
  PROVE  NormalizeClarificationOptions(os, most)
           = IF Cardinality(KeptOf(os, most)) < 2 THEN <<>> ELSE Keep(KeyedOf(os), KeptOf(os, most))
BY Zenon DEF NormalizeClarificationOptions, KeptOf, KeyedOf, UsableOf, LabelledOf, KeyAt

LEMMA LettersAreNamed == ASSUME NEW i PROVE Letter(i) # ""
<1>1. /\ \A j \in 1 .. 9 : Letters[j] # ""
      /\ \A j \in 10 .. 18 : Letters[j] # ""
      /\ \A j \in 19 .. 26 : Letters[j] # ""
  BY DEF Letters
<1>2. DOMAIN Letters = 1 .. 26
  BY DEF Letters
<1> HIDE DEF Letters
<1>3. \A j \in 1 .. 26 : j \in 1 .. 9 \/ j \in 10 .. 18 \/ j \in 19 .. 26
  OBVIOUS
<1>4. "O" # ""
  OBVIOUS
<1> QED
  BY <1>1, <1>2, <1>3, <1>4, Zenon DEF Letter

\* Options that are numbered, named apart and no more than "most".
Apart(os, most) ==
  /\ Len(os) <= most
  /\ \A i \in DOMAIN os : os[i].key # "" /\ os[i].label # ""
  /\ \A i, j \in DOMAIN os : i # j => os[i].key # os[j].key

LEMMA OptionFields ==
  ASSUME NEW os \in Options, NEW i \in DOMAIN os
  PROVE  /\ os[i].key \in STRING /\ os[i].label \in STRING
         /\ os[i] = [key |-> os[i].key, label |-> os[i].label]
<1> DEFINE R == [key : STRING, label : STRING]
<1>1. os \in Seq(R)
  BY DEF Options
<1> HIDE DEF R
<1>2. os[i] \in R
  BY <1>1
<1> USE DEF R
<1> QED
  BY <1>2

LEMMA KeyedIs ==
  ASSUME NEW os \in Options
  PROVE  KeyedOf(os) \in Options /\ DOMAIN KeyedOf(os) = DOMAIN os /\ DOMAIN os = 1 .. Len(os)
<1>1. DOMAIN os = 1 .. Len(os) /\ Len(os) \in Nat
  BY DEF Options
<1>2. \A i \in DOMAIN os : [key |-> KeyAt(os, i), label |-> os[i].label] \in [key : STRING, label : STRING]
  BY OptionFields, LettersAreStrings DEF KeyAt
<1> QED
  BY <1>1, <1>2 DEF KeyedOf, Options

LEMMA ApartStays ==
  ASSUME NEW os \in Options, NEW most \in Nat, Apart(os, most), Len(os) >= 2
  PROVE  NormalizeClarificationOptions(os, most) = os
<1>1. DOMAIN os = 1 .. Len(os) /\ Len(os) \in Nat
  BY DEF Options
<1>2. \A i \in DOMAIN os : KeyAt(os, i) = os[i].key
  BY DEF Apart, KeyAt
<1>3. LabelledOf(os) = DOMAIN os
  BY DEF Apart, LabelledOf
<1>4. UsableOf(os) = DOMAIN os
  <2>1. \A i, j \in DOMAIN os : j < i => i # j
    BY <1>1
  <2>2. \A i, j \in DOMAIN os : j < i => os[j].key # os[i].key
    BY <2>1, Zenon DEF Apart
  <2>3. \A i, j \in DOMAIN os : j < i => KeyAt(os, j) # KeyAt(os, i)
    BY <1>2, <2>2, Zenon
  <2> QED
    BY <1>3, <2>3, Zenon DEF UsableOf
<1>5. ASSUME NEW i \in DOMAIN os PROVE Cardinality({j \in UsableOf(os) : j <= i}) <= most
  <2>1. {j \in UsableOf(os) : j <= i} = 1 .. i
    BY <1>1, <1>4
  <2>2. Cardinality(1 .. i) = i
    BY <1>1, FS_Interval
  <2> QED
    <3>1. Len(os) <= most
      BY DEF Apart
    <3>2. i <= Len(os) /\ i \in Nat
      BY <1>1
    <3>3. i <= most
      BY <3>1, <3>2, <1>1
    <3> QED
      BY <2>1, <2>2, <3>3, Zenon
<1>6. KeptOf(os, most) = DOMAIN os
  BY <1>4, <1>5 DEF KeptOf
<1>7. Cardinality(KeptOf(os, most)) = Len(os)
  BY <1>1, <1>6, FS_Interval
<1>8. KeyedOf(os) = os
  <2>1. \A i \in DOMAIN os : [key |-> KeyAt(os, i), label |-> os[i].label] = os[i]
    BY <1>2, OptionFields
  <2>2. os = [i \in DOMAIN os |-> os[i]]
    BY DEF Options
  <2> QED
    BY <2>1, <2>2, Zenon DEF KeyedOf
<1>9. Keep(os, DOMAIN os) = os
  BY KeepAll DEF Options
<1> QED
  BY <1>1, <1>6, <1>7, <1>8, <1>9, OptionsAre

LEMMA OptionsHold ==
  ASSUME NEW os \in Options, NEW most \in Nat
  PROVE  LET r == NormalizeClarificationOptions(os, most)
         IN  r \in Options /\ NormalizeClarificationOptions(r, most) = r
<1> DEFINE r == NormalizeClarificationOptions(os, most)
           kept == KeptOf(os, most)
           keyed == KeyedOf(os)
<1>1. keyed \in Options /\ DOMAIN keyed = DOMAIN os /\ DOMAIN os = 1 .. Len(os) /\ Len(os) \in Nat
  BY KeyedIs DEF Options
<1>2. kept \subseteq DOMAIN keyed
  BY <1>1 DEF KeptOf, UsableOf, LabelledOf
<1>3. \A i \in DOMAIN os : keyed[i].key = KeyAt(os, i) /\ keyed[i].label = os[i].label
  BY DEF KeyedOf
<1>4. CASE Cardinality(kept) < 2
  <2>1. r = <<>>
    BY <1>4, OptionsAre
  <2>2. KeptOf(<<>>, most) = {}
    BY DEF KeptOf, UsableOf, LabelledOf
  <2>3. Cardinality(KeptOf(<<>>, most)) < 2
    BY <2>2, FS_EmptySet
  <2>4. NormalizeClarificationOptions(<<>>, most) = <<>>
    BY <2>3, OptionsAre
  <2>5. <<>> \in Options
    BY DEF Options
  <2> QED
    BY <2>1, <2>4, <2>5
<1>5. CASE ~(Cardinality(kept) < 2)
  <2> HIDE DEF kept, keyed
  <2>1. r = Keep(keyed, kept)
    BY <1>5, OptionsAre DEF kept, keyed
  <2>2. /\ r \in Options /\ DOMAIN r = 1 .. Cardinality(kept) /\ Cardinality(kept) \in Nat
        /\ \A k \in DOMAIN r : \E i \in kept : Rank(kept, i) = k /\ r[k] = keyed[i]
    BY <2>1, <1>1, <1>2, KeepPlaces DEF Options
  <2>3. Len(r) = Cardinality(kept)
    BY <2>2 DEF Options
  <2>4. Cardinality(kept) <= most
    <3>1. Cardinality(kept) \in 1 .. Cardinality(kept)
      BY <2>2, <1>5
    <3>2. PICK i \in kept : Rank(kept, i) = Cardinality(kept)
      BY <3>1, <1>1, <1>2, EveryRankIsTaken
    <3>3. UsableOf(os) \in SUBSET (1 .. Len(os))
      BY <1>1 DEF UsableOf, LabelledOf
    <3>4. IsFiniteSet({j \in UsableOf(os) : j <= i})
      <4>1. IsFiniteSet(1 .. Len(os))
        BY <1>1, FS_Interval
      <4>2. {j \in UsableOf(os) : j <= i} \subseteq 1 .. Len(os)
        BY <3>3
      <4> QED
        BY <4>1, <4>2, FS_Subset
    <3>5. {j \in kept : j <= i} \subseteq {j \in UsableOf(os) : j <= i}
      BY DEF kept, KeptOf
    <3>6. Cardinality({j \in kept : j <= i}) <= Cardinality({j \in UsableOf(os) : j <= i})
      BY <3>4, <3>5, FS_Subset
    <3>7. Cardinality({j \in UsableOf(os) : j <= i}) <= most
      BY DEF kept, KeptOf
    <3>8. /\ Cardinality({j \in kept : j <= i}) \in Nat
          /\ Cardinality({j \in UsableOf(os) : j <= i}) \in Nat
      BY <3>4, <3>5, FS_Subset, FS_CardinalityType
    <3> QED
      BY <3>2, <3>6, <3>7, <3>8, <2>2 DEF Rank
  <2>5. \A i \in kept : keyed[i].key # "" /\ keyed[i].label # ""
    BY <1>2, <1>1, <1>3, LettersAreNamed DEF kept, KeptOf, UsableOf, LabelledOf, KeyAt
  <2>6. \A i, j \in kept : i # j => keyed[i].key # keyed[j].key
    <3> SUFFICES ASSUME NEW i \in kept, NEW j \in kept, i < j PROVE keyed[i].key # keyed[j].key
      BY <1>1, <1>2
    <3>1. i \in LabelledOf(os) /\ j \in UsableOf(os)
      BY DEF kept, KeptOf, UsableOf
    <3>2. KeyAt(os, i) # KeyAt(os, j)
      BY <3>1 DEF UsableOf
    <3> QED
      BY <3>2, <1>2, <1>1, <1>3
  <2>7. Apart(r, most)
    <3>1. \A k \in DOMAIN r : r[k].key # "" /\ r[k].label # ""
      BY <2>2, <2>5
    <3>2. ASSUME NEW k \in DOMAIN r, NEW l \in DOMAIN r, k # l PROVE r[k].key # r[l].key
      <4>1. PICK i \in kept : Rank(kept, i) = k /\ r[k] = keyed[i]
        BY <2>2
      <4>2. PICK j \in kept : Rank(kept, j) = l /\ r[l] = keyed[j]
        BY <2>2
      <4> QED
        BY <4>1, <4>2, <3>2, <2>6
    <3> QED
      BY <3>1, <3>2, <2>3, <2>4 DEF Apart
  <2>8. Len(r) >= 2
    BY <2>3, <2>2, <1>5
  <2> QED
    BY <2>2, <2>7, <2>8, ApartStays
<1> QED
  BY <1>4, <1>5

LEMMA NoResults == Tidy(<<>>) /\ NormalizeExpectedResults(<<>>) = <<>>
<1>1. <<>> \in Seq(Results({}))
  OBVIOUS
<1>2. Tidy(<<>>)
  BY DEF Tidy
<1> QED
  BY <1>1, <1>2, TidyStays

-----------------------------------------------------------------------------
(* The rules about the work *)

LEMMA InvalidIs ==
  ASSUME NEW why
  PROVE  IsInvalid(Invalid(why)) /\ Invalid(why).question = why
BY DEF IsInvalid, Invalid, Blank

LEMMA BareIs ==
  ASSUME NEW d
  PROVE  IsBareContinuation(d) <=> /\ d.route = "continue_task" /\ d.class = ""
                                   /\ d.shape = "" /\ d.level = ""
BY DEF IsBareContinuation

LEMMA SameFiles ==
  ASSUME NEW d, NEW f, SameWords(d, f)
  PROVE  HasFileDeliverable(f) <=> HasFileDeliverable(d)
<1>1. f.results = d.results /\ f.formats = d.formats
  BY DEF SameWords
<1> QED
  BY <1>1, Zenon DEF HasFileDeliverable

LEMMA SameWordsOn ==
  ASSUME NEW d, NEW e, NEW f, SameWords(d, e), SameWords(e, f)
  PROVE  SameWords(d, f)
BY Zenon DEF SameWords

LEMMA OwnWords == ASSUME NEW d PROVE SameWords(d, d)
BY DEF SameWords

\* A decision whose class, shape and tools agree with what it makes.
Worked(f, deliver) ==
  /\ f.class \in Classes /\ f.shape \in Shapes
  /\ HasFileDeliverable(f) \/ deliver \notin f.tools
  /\ f.class = "quick_reply" => ~HasFileDeliverable(f) /\ f.kind \notin {"document", "presentation"}
  /\ ~(f.class = "bounded_task" /\ f.shape = "immediate_reply")

LEMMA WithoutIdleDeliveryIs ==
  ASSUME NEW T, NEW H, NEW d \in Decisions(T, H), NEW deliver
  PROVE  LET f == WithoutIdleDelivery(d, deliver)
         IN  /\ f \in Decisions(T, H) /\ SameWords(d, f) /\ f.route = d.route /\ f.class = d.class
             /\ f.shape = d.shape /\ f.language = d.language /\ f.tools \subseteq d.tools
             /\ HasFileDeliverable(f) \/ deliver \notin f.tools
<1> DEFINE f == WithoutIdleDelivery(d, deliver)
<1>1. CASE HasFileDeliverable(d)
  <2>1. f = d
    BY <1>1 DEF WithoutIdleDelivery
  <2> QED
    BY <1>1, <2>1, OwnWords
<1>2. CASE ~HasFileDeliverable(d)
  <2> DEFINE names == d.tools \ {deliver}
             g == [d EXCEPT !.tools = names]
  <2>1. f = g
    BY <1>2 DEF WithoutIdleDelivery
  <2>2. names \in SUBSET T
    BY DecisionFields
  <2>3. deliver \notin names /\ names \subseteq d.tools
    OBVIOUS
  <2> HIDE DEF names
  <2>4. /\ g \in Decisions(T, H) /\ SameWords(d, g) /\ g.route = d.route /\ g.shape = d.shape
        /\ g.class = d.class /\ g.tools = names /\ g.language = d.language
    BY <2>2, WithTools
  <2> HIDE DEF g
  <2> QED
    BY <2>1, <2>3, <2>4
<1> QED
  BY <1>1, <1>2

\* A reply that makes a file.
Lifts(d) == d.class = "quick_reply" /\ (HasFileDeliverable(d) \/ d.kind \in {"document", "presentation"})

LEMMA LiftFileDeliverableIs ==
  ASSUME NEW T, NEW H, NEW d \in Decisions(T, H)
  PROVE  LET f == LiftFileDeliverable(d)
         IN  /\ f \in Decisions(T, H) /\ SameWords(d, f) /\ f.route = d.route /\ f.shape = d.shape
             /\ f.tools = d.tools /\ f.language = d.language /\ f.class \in {d.class, "bounded_task"}
             /\ f.class = "quick_reply" => ~HasFileDeliverable(f) /\ f.kind \notin {"document", "presentation"}
             /\ ~Lifts(d) => f.class = d.class
<1> USE DEF Lifts
<1> DEFINE f == LiftFileDeliverable(d)
           makes == HasFileDeliverable(d) \/ d.kind \in {"document", "presentation"}
<1>1. CASE d.class = "quick_reply" /\ makes
  <2> DEFINE g == [d EXCEPT !.class = "bounded_task"]
  <2>1. f = g
    BY <1>1 DEF LiftFileDeliverable
  <2>2. "bounded_task" \in STRING
    BY NamesAreStrings
  <2>3. /\ g \in Decisions(T, H) /\ SameWords(d, g) /\ g.route = d.route /\ g.shape = d.shape
        /\ g.class = "bounded_task" /\ g.tools = d.tools /\ g.language = d.language
    BY <2>2, WithClass
  <2> HIDE DEF g
  <2> QED
    BY <1>1, <2>1, <2>3
<1>2. CASE ~(d.class = "quick_reply" /\ makes)
  <2>1. f = d
    BY <1>2 DEF LiftFileDeliverable
  <2> QED
    BY <1>2, <2>1, OwnWords
<1> QED
  BY <1>1, <1>2

LEMMA LiftImmediateReplyIs ==
  ASSUME NEW T, NEW H, NEW d \in Decisions(T, H)
  PROVE  LET f == LiftImmediateReply(d)
         IN  /\ f \in Decisions(T, H) /\ SameWords(d, f) /\ f.route = d.route /\ f.class = d.class
             /\ f.tools = d.tools /\ f.language = d.language
             /\ f.shape \in {d.shape, "maintenance_task"}
             /\ ~(f.class = "bounded_task" /\ f.shape = "immediate_reply")
<1> DEFINE f == LiftImmediateReply(d)
<1>1. CASE d.class = "bounded_task" /\ d.shape = "immediate_reply"
  <2> DEFINE g == [d EXCEPT !.shape = "maintenance_task"]
  <2>1. f = g
    BY <1>1 DEF LiftImmediateReply
  <2>2. "maintenance_task" \in STRING
    BY NamesAreStrings
  <2>3. /\ g \in Decisions(T, H) /\ SameWords(d, g) /\ g.route = d.route /\ g.shape = "maintenance_task"
        /\ g.class = d.class /\ g.tools = d.tools /\ g.language = d.language
    BY <2>2, WithShape
  <2> HIDE DEF g
  <2> QED
    BY <2>1, <2>3
<1>2. CASE ~(d.class = "bounded_task" /\ d.shape = "immediate_reply")
  <2>1. f = d
    BY <1>2 DEF LiftImmediateReply
  <2> QED
    BY <1>2, <2>1, OwnWords
<1> QED
  BY <1>1, <1>2

\* What may be wrong with a decision.
Faults == {"route", "classification", "task shape", "task level"}

LEMMA WorkedIs ==
  ASSUME NEW T, NEW H, NEW d \in Decisions(T, H), NEW deliver
  PROVE  LET f == NormalizeDecidedWork(d, deliver)
         IN  \/ IsInvalid(f) /\ f.question \in Faults
             \/ IsBareContinuation(d) /\ f = d
             \/ /\ ~IsBareContinuation(d)
                /\ f \in Decisions(T, H) /\ SameWords(d, f) /\ f.route = d.route
                /\ f.language = d.language /\ f.tools \subseteq d.tools /\ Worked(f, deliver)
                /\ ~Lifts(d) => f.class = d.class
<1> DEFINE f == NormalizeDecidedWork(d, deliver)
           d1 == WithoutIdleDelivery(d, deliver)
           d2 == LiftFileDeliverable(d1)
           d3 == LiftImmediateReply(d2)
<1>1. CASE IsBareContinuation(d)
  BY <1>1 DEF NormalizeDecidedWork
<1>2. CASE ~IsBareContinuation(d) /\ d.class \notin Classes
  BY <1>2, InvalidIs DEF NormalizeDecidedWork, Faults
<1>3. CASE ~IsBareContinuation(d) /\ d.class \in Classes /\ d.shape \notin Shapes
  BY <1>3, InvalidIs DEF NormalizeDecidedWork, Faults
<1>4. CASE ~IsBareContinuation(d) /\ d.class \in Classes /\ d.shape \in Shapes
  <2>1. f = d3
    BY <1>4 DEF NormalizeDecidedWork
  <2>2. /\ d1 \in Decisions(T, H) /\ SameWords(d, d1) /\ d1.route = d.route /\ d1.class = d.class
        /\ d1.shape = d.shape /\ d1.language = d.language /\ d1.tools \subseteq d.tools
        /\ HasFileDeliverable(d1) \/ deliver \notin d1.tools
    BY WithoutIdleDeliveryIs
  <2> HIDE DEF d1
  <2>3. /\ d2 \in Decisions(T, H) /\ SameWords(d1, d2) /\ d2.route = d1.route /\ d2.shape = d1.shape
        /\ d2.tools = d1.tools /\ d2.language = d1.language /\ d2.class \in {d1.class, "bounded_task"}
        /\ d2.class = "quick_reply" => ~HasFileDeliverable(d2) /\ d2.kind \notin {"document", "presentation"}
        /\ ~Lifts(d1) => d2.class = d1.class
    BY <2>2, LiftFileDeliverableIs
  <2> HIDE DEF d2
  <2>4. /\ d3 \in Decisions(T, H) /\ SameWords(d2, d3) /\ d3.route = d2.route /\ d3.class = d2.class
        /\ d3.tools = d2.tools /\ d3.language = d2.language
        /\ d3.shape \in {d2.shape, "maintenance_task"}
        /\ ~(d3.class = "bounded_task" /\ d3.shape = "immediate_reply")
    BY <2>3, LiftImmediateReplyIs
  <2> HIDE DEF d3
  <2>5. SameWords(d, d3)
    BY <2>2, <2>3, <2>4, SameWordsOn
  <2>6. /\ HasFileDeliverable(d2) <=> HasFileDeliverable(d1)
        /\ HasFileDeliverable(d3) <=> HasFileDeliverable(d2)
        /\ d3.kind = d2.kind
    BY <2>3, <2>4, SameFiles DEF SameWords
  <2>7. d3.class \in Classes /\ d3.shape \in Shapes
    BY <2>2, <2>3, <2>4, <1>4 DEF Classes, Shapes
  <2>8. Worked(d3, deliver)
    BY <2>2, <2>3, <2>4, <2>6, <2>7, Zenon DEF Worked
  <2>9. Lifts(d1) <=> Lifts(d)
    <3>1. (HasFileDeliverable(d1) <=> HasFileDeliverable(d)) /\ d1.kind = d.kind
      BY <2>2, SameFiles DEF SameWords
    <3> QED
      BY <2>2, <3>1 DEF Lifts
  <2>10. ~Lifts(d) => d3.class = d.class
    BY <2>2, <2>3, <2>4, <2>9
  <2> QED
    BY <1>4, <2>1, <2>2, <2>3, <2>4, <2>5, <2>8, <2>10
<1> QED
  BY <1>1, <1>2, <1>3, <1>4

LEMMA WorkedStays ==
  ASSUME NEW T, NEW H, NEW d \in Decisions(T, H), NEW deliver, Worked(d, deliver)
  PROVE  NormalizeDecidedWork(d, deliver) = d
<1>1. d.class \in Classes /\ d.shape \in Shapes
  BY DEF Worked
<1>2. d.class # ""
  BY <1>1 DEF Classes
<1>3. ~IsBareContinuation(d)
  BY <1>2, BareIs
<1> DEFINE d1 == WithoutIdleDelivery(d, deliver)
<1>4. d1 = d
  <2>1. CASE HasFileDeliverable(d)
    BY <2>1 DEF WithoutIdleDelivery
  <2>2. CASE ~HasFileDeliverable(d)
    <3> DEFINE names == d.tools \ {deliver}
               g == [d EXCEPT !.tools = names]
    <3>1. d1 = g
      BY <2>2 DEF WithoutIdleDelivery
    <3>2. names = d.tools
      BY <2>2 DEF Worked
    <3>3. names \in SUBSET T
      BY DecisionFields
    <3> HIDE DEF names
    <3>4. /\ g \in Decisions(T, H) /\ SameWords(d, g) /\ g.route = d.route /\ g.shape = d.shape
          /\ g.class = d.class /\ g.tools = names /\ g.language = d.language
      BY <3>3, WithTools
    <3> HIDE DEF g
    <3>5. g = d
      BY <3>2, <3>4, SameDecision
    <3> QED
      BY <3>1, <3>5
  <2> QED
    BY <2>1, <2>2
<1>5. LiftFileDeliverable(d) = d
  BY DEF LiftFileDeliverable, Worked
<1>6. LiftImmediateReply(d) = d
  BY DEF LiftImmediateReply, Worked
<1> HIDE DEF d1
<1>7. NormalizeDecidedWork(d, deliver) = LiftImmediateReply(LiftFileDeliverable(d1))
  BY <1>1, <1>3 DEF NormalizeDecidedWork, d1
<1> QED
  BY <1>4, <1>5, <1>6, <1>7

\* A decision whose route and shape are those of its class.
Placed(f) ==
  /\ f.class = "quick_reply" => f.route \notin {"clarify", "give_up"} /\ f.shape = "immediate_reply"
  /\ f.class = "bounded_task" => f.route \in WorkRoutes
  /\ f.class = "needs_confirmation" => f.route = "clarify" /\ f.shape = "approval_gated_task"
  /\ f.class = "unsupported" => f.route = "give_up" /\ f.shape = "immediate_reply"

\* The route and the shape the class of a decision gives it.
RouteFor(d) ==
  CASE d.class = "quick_reply" -> Answerable(d.route)
    [] d.class = "bounded_task" -> Executable(d.route)
    [] d.class = "needs_confirmation" -> "clarify"
    [] d.class = "unsupported" -> "give_up"
    [] OTHER -> d.route
ShapeFor(d) ==
  CASE d.class \in {"quick_reply", "unsupported"} -> "immediate_reply"
    [] d.class = "needs_confirmation" -> "approval_gated_task"
    [] OTHER -> d.shape

LEMMA PlaceIs ==
  ASSUME NEW T, NEW H, NEW d \in Decisions(T, H)
  PROVE  /\ RouteFor(d) \in STRING /\ ShapeFor(d) \in STRING
         /\ d.route \in Routes => RouteFor(d) \in Routes
         /\ d.shape \in Shapes => ShapeFor(d) \in Shapes
         /\ d.class \notin Classes => RouteFor(d) = d.route /\ ShapeFor(d) = d.shape
         /\ Placed(d) => RouteFor(d) = d.route /\ ShapeFor(d) = d.shape
         /\ d.class = "quick_reply" =>
              RouteFor(d) \notin {"clarify", "give_up"} /\ ShapeFor(d) = "immediate_reply"
         /\ d.class = "bounded_task" => RouteFor(d) \in WorkRoutes /\ ShapeFor(d) = d.shape
         /\ d.class = "needs_confirmation" => RouteFor(d) = "clarify" /\ ShapeFor(d) = "approval_gated_task"
         /\ d.class = "unsupported" => RouteFor(d) = "give_up" /\ ShapeFor(d) = "immediate_reply"
<1> USE NamesAreStrings, DecisionFields
<1>1. CASE d.class = "quick_reply"
  BY <1>1 DEF RouteFor, ShapeFor, Answerable, Routes, WorkRoutes, Shapes, Classes, Placed
<1>2. CASE d.class = "bounded_task"
  BY <1>2 DEF RouteFor, ShapeFor, Executable, Routes, WorkRoutes, Shapes, Classes, Placed
<1>3. CASE d.class = "needs_confirmation"
  BY <1>3 DEF RouteFor, ShapeFor, Routes, Shapes, Classes, Placed
<1>4. CASE d.class = "unsupported"
  BY <1>4 DEF RouteFor, ShapeFor, Routes, Shapes, Classes, Placed
<1>5. CASE d.class \notin Classes
  BY <1>5 DEF RouteFor, ShapeFor, Classes
<1> QED
  BY <1>1, <1>2, <1>3, <1>4, <1>5 DEF Classes

LEMMA CanonicalMoves ==
  ASSUME NEW T, NEW H, NEW d \in Decisions(T, H)
  PROVE  LET f == Canonical(d)
         IN  /\ f \in Decisions(T, H) /\ SameWords(d, f) /\ f.class = d.class /\ f.tools = d.tools
             /\ f.language = d.language /\ f.route = RouteFor(d) /\ f.shape = ShapeFor(d)
<1> DEFINE f == Canonical(d)
<1> DEFINE moved == [d EXCEPT !.route = RouteFor(d), !.shape = ShapeFor(d)]
<1>0. ASSUME f = moved
      PROVE  /\ f \in Decisions(T, H) /\ SameWords(d, f) /\ f.class = d.class /\ f.tools = d.tools
             /\ f.language = d.language /\ f.route = RouteFor(d) /\ f.shape = ShapeFor(d)
  <2> DEFINE route == RouteFor(d)
             shape == ShapeFor(d)
             g == [d EXCEPT !.route = route, !.shape = shape]
  <2>1. route \in STRING /\ shape \in STRING
    BY PlaceIs
  <2>2. f = g
    BY <1>0
  <2> HIDE DEF route, shape, f
  <2>3. /\ g \in Decisions(T, H) /\ SameWords(d, g) /\ g.route = route /\ g.shape = shape
        /\ g.class = d.class /\ g.tools = d.tools /\ g.language = d.language
    BY <2>1 DEF Decisions, SameWords
  <2> HIDE DEF g
  <2> QED
    BY <2>2, <2>3 DEF route, shape
<1>1. CASE d.class = "quick_reply"
  <2>1. f = [d EXCEPT !.route = Answerable(d.route), !.shape = "immediate_reply"]
    BY <1>1 DEF Canonical
  <2>2. RouteFor(d) = Answerable(d.route) /\ ShapeFor(d) = "immediate_reply"
    BY <1>1 DEF RouteFor, ShapeFor
  <2>3. f = moved
    BY <2>1, <2>2, Zenon
  <2> HIDE DEF f
  <2> QED
    BY <2>3, <1>0 DEF f
<1>2. CASE d.class = "bounded_task"
  <2> DEFINE g == [d EXCEPT !.route = Executable(d.route), !.shape = d.shape]
  <2>1. f = [d EXCEPT !.route = Executable(d.route)]
    BY <1>2 DEF Canonical
  <2>2. f = g
    BY <2>1 DEF Decisions
  <2>3. RouteFor(d) = Executable(d.route) /\ ShapeFor(d) = d.shape
    BY <1>2 DEF RouteFor, ShapeFor
  <2>4. f = moved
    BY <2>2, <2>3, Zenon
  <2> HIDE DEF f
  <2> QED
    BY <2>4, <1>0 DEF f
<1>3. CASE d.class = "needs_confirmation"
  <2>1. f = [d EXCEPT !.route = "clarify", !.shape = "approval_gated_task"]
    BY <1>3 DEF Canonical
  <2>2. RouteFor(d) = "clarify" /\ ShapeFor(d) = "approval_gated_task"
    BY <1>3 DEF RouteFor, ShapeFor
  <2>3. f = moved
    BY <2>1, <2>2, Zenon
  <2> HIDE DEF f
  <2> QED
    BY <2>3, <1>0 DEF f
<1>4. CASE d.class = "unsupported"
  <2>1. f = [d EXCEPT !.route = "give_up", !.shape = "immediate_reply"]
    BY <1>4 DEF Canonical
  <2>2. RouteFor(d) = "give_up" /\ ShapeFor(d) = "immediate_reply"
    BY <1>4 DEF RouteFor, ShapeFor
  <2>3. f = moved
    BY <2>1, <2>2, Zenon
  <2> HIDE DEF f
  <2> QED
    BY <2>3, <1>0 DEF f
<1>5. CASE d.class \notin Classes
  <2>1. f = d
    BY <1>5 DEF Canonical, Classes
  <2>2. RouteFor(d) = d.route /\ ShapeFor(d) = d.shape
    BY <1>5, PlaceIs
  <2> QED
    BY <2>1, <2>2, OwnWords
<1> QED
  BY <1>1, <1>2, <1>3, <1>4, <1>5 DEF Classes

LEMMA CanonicalIs ==
  ASSUME NEW T, NEW H, NEW d \in Decisions(T, H), NEW deliver
  PROVE  LET f == Canonical(d)
         IN  /\ f \in Decisions(T, H) /\ SameWords(d, f) /\ f.class = d.class /\ f.tools = d.tools
             /\ f.language = d.language /\ Placed(f) /\ f.route = RouteFor(d)
             /\ d.route \in Routes => f.route \in Routes
             /\ Worked(d, deliver) => Worked(f, deliver)
             /\ d.class \notin Classes => f = d
<1> DEFINE f == Canonical(d)
<1>1. /\ f \in Decisions(T, H) /\ SameWords(d, f) /\ f.class = d.class /\ f.tools = d.tools
      /\ f.language = d.language /\ f.route = RouteFor(d) /\ f.shape = ShapeFor(d)
  BY CanonicalMoves
<1> HIDE DEF f
<1>2. Placed(f)
  BY <1>1, PlaceIs DEF Placed
<1>3. d.route \in Routes => f.route \in Routes
  BY <1>1, PlaceIs
<1>4. Worked(d, deliver) => Worked(f, deliver)
  <2> SUFFICES ASSUME Worked(d, deliver) PROVE Worked(f, deliver)
    OBVIOUS
  <2>1. HasFileDeliverable(f) <=> HasFileDeliverable(d)
    BY <1>1, SameFiles
  <2>2. f.kind = d.kind
    BY <1>1 DEF SameWords
  <2>3. f.shape \in Shapes /\ (f.class = "bounded_task" => f.shape = d.shape)
    BY <1>1, PlaceIs DEF Worked
  <2> QED
    BY <1>1, <2>1, <2>2, <2>3 DEF Worked
<1>5. d.class \notin Classes => f = d
  <2> SUFFICES ASSUME d.class \notin Classes PROVE f = d
    OBVIOUS
  <2>1. RouteFor(d) = d.route /\ ShapeFor(d) = d.shape
    BY PlaceIs
  <2> QED
    BY <1>1, <2>1, SameDecision
<1> QED
  BY <1>1, <1>2, <1>3, <1>4, <1>5 DEF f

LEMMA CanonicalStays ==
  ASSUME NEW T, NEW H, NEW d \in Decisions(T, H), Placed(d)
  PROVE  Canonical(d) = d
<1> DEFINE f == Canonical(d)
<1>1. /\ f \in Decisions(T, H) /\ SameWords(d, f) /\ f.class = d.class /\ f.tools = d.tools
      /\ f.language = d.language /\ f.route = RouteFor(d) /\ f.shape = ShapeFor(d)
  BY CanonicalMoves
<1> HIDE DEF f
<1>2. RouteFor(d) = d.route /\ ShapeFor(d) = d.shape
  BY PlaceIs
<1>3. f = d
  BY <1>1, <1>2, SameDecision
<1> QED
  BY <1>3 DEF f

\* A decision that normalising for the request leaves as it is.
Stands(f, request) ==
  /\ f.route \in Routes /\ (request.language => f.language)
  /\ \/ IsBareContinuation(f)
     \/ /\ Worked(f, request.deliver) /\ Placed(f) /\ f.level \in Levels
        /\ f.tools \subseteq request.registered

AskedOf(request) == request.language \in BOOLEAN

\* What normalizeDecidedExecution makes of a decision that is canonical.
SpokenIn(c, request) == [c EXCEPT !.language = @ \/ request.language]
OfferedIn(c, request) == [SpokenIn(c, request) EXCEPT !.tools = @ \intersect request.registered]

LEMMA SpokenIs ==
  ASSUME NEW T, NEW H, NEW c \in Decisions(T, H), NEW request, AskedOf(request)
  PROVE  LET s == SpokenIn(c, request)
             f == OfferedIn(c, request)
         IN  /\ s \in Decisions(T, H) /\ SameWords(c, s) /\ s.route = c.route /\ s.shape = c.shape
             /\ s.class = c.class /\ s.tools = c.tools /\ s.language = (c.language \/ request.language)
             /\ f \in Decisions(T, H) /\ SameWords(c, f) /\ f.route = c.route /\ f.shape = c.shape
             /\ f.class = c.class /\ f.tools = c.tools \intersect request.registered
             /\ f.language = (c.language \/ request.language)
<1> DEFINE language == c.language \/ request.language
           s == [c EXCEPT !.language = language]
           names == s.tools \intersect request.registered
           f == [s EXCEPT !.tools = names]
<1>1. language \in BOOLEAN
  BY DecisionFields DEF AskedOf
<1> HIDE DEF language
<1>2. /\ s \in Decisions(T, H) /\ SameWords(c, s) /\ s.route = c.route /\ s.shape = c.shape
      /\ s.class = c.class /\ s.tools = c.tools /\ s.language = language
  BY <1>1, WithLanguage
<1> HIDE DEF s
<1>3. names \in SUBSET T /\ names = c.tools \intersect request.registered
  BY <1>2, DecisionFields
<1> HIDE DEF names
<1>4. /\ f \in Decisions(T, H) /\ SameWords(s, f) /\ f.route = s.route /\ f.shape = s.shape
      /\ f.class = s.class /\ f.tools = names /\ f.language = s.language
  BY <1>2, <1>3 DEF Decisions, SameWords
<1> HIDE DEF f
<1>5. SameWords(c, f)
  BY <1>2, <1>4, SameWordsOn
<1>6. /\ f \in Decisions(T, H) /\ SameWords(c, f) /\ f.route = c.route /\ f.shape = c.shape
      /\ f.class = c.class /\ f.tools = c.tools \intersect request.registered /\ f.language = language
  BY <1>2, <1>3, <1>4, <1>5
<1> QED
  BY <1>2, <1>6, Zenon DEF f, s, names, language, SpokenIn, OfferedIn

LEMMA FieldsAre ==
  ASSUME NEW T, NEW H, NEW d \in Decisions(T, H), NEW request, AskedOf(request)
  PROVE  LET f == NormalizeDecidedTurnFields(d, request)
         IN  \/ IsInvalid(f) /\ f.question \in Faults
             \/ /\ f \in Decisions(T, H) /\ SameWords(d, f) /\ Stands(f, request) /\ ~IsInvalid(f)
                /\ f.tools \subseteq d.tools /\ f.language = (d.language \/ request.language)
                /\ IsBareContinuation(f) <=> IsBareContinuation(d)
                /\ ~Lifts(d) => f.class = d.class /\ f.route = RouteFor(d)
<1> DEFINE f == NormalizeDecidedTurnFields(d, request)
           w == NormalizeDecidedWork(d, request.deliver)
           c == Canonical(w)
           s == SpokenIn(c, request)
           g == OfferedIn(c, request)
<1>1. CASE d.route \notin Routes \/ IsInvalid(w)
  <2>1. CASE d.route \notin Routes
    BY <2>1, InvalidIs DEF NormalizeDecidedTurnFields, Faults
  <2>2. CASE d.route \in Routes /\ IsInvalid(w)
    <3>1. f = w
      BY <2>2 DEF NormalizeDecidedTurnFields
    <3>2. \A r \in Routes : r # "invalid"
      BY DEF Routes, WorkRoutes
    <3>3. w.route # d.route
      BY <2>2, <3>2 DEF IsInvalid
    <3>4. w.question \in Faults
      BY <2>2, <3>3, WorkedIs
    <3> HIDE DEF w
    <3> QED
      BY <2>2, <3>1, <3>4
  <2> QED
    BY <1>1, <2>1, <2>2
<1>2. CASE d.route \in Routes /\ ~IsInvalid(w)
  <2>1. f = NormalizeDecidedExecution(w, request)
    BY <1>2 DEF NormalizeDecidedTurnFields
  <2>2. f = IF IsBareContinuation(c) THEN s
            ELSE IF c.level \notin Levels THEN Invalid("task level") ELSE g
    BY <2>1, Zenon DEF NormalizeDecidedExecution, SpokenIn, OfferedIn
  <2>3. \A r \in Routes : r # "invalid"
    BY DEF Routes, WorkRoutes
  <2> HIDE DEF f
  <2>4. \/ IsBareContinuation(d) /\ w = d
        \/ /\ ~IsBareContinuation(d)
           /\ w \in Decisions(T, H) /\ SameWords(d, w) /\ w.route = d.route
           /\ w.language = d.language /\ w.tools \subseteq d.tools /\ Worked(w, request.deliver)
           /\ ~Lifts(d) => w.class = d.class
    BY <1>2, WorkedIs
  <2>5. CASE IsBareContinuation(d) /\ w = d
    <3>1. d.class = "" /\ d.class \notin Classes
      BY <2>5, BareIs DEF Classes
    <3>2. c = d
      BY <2>5, <3>1, CanonicalIs
    <3> HIDE DEF w, c
    <3>3. /\ s \in Decisions(T, H) /\ SameWords(d, s) /\ s.route = d.route /\ s.shape = d.shape
          /\ s.class = d.class /\ s.tools = d.tools /\ s.language = (d.language \/ request.language)
      BY <3>2, SpokenIs
    <3>4. f = s
      BY <2>2, <2>5, <3>2
    <3> HIDE DEF s, g
    <3>5. s.level = d.level
      BY <3>3 DEF SameWords
    <3>6. IsBareContinuation(s)
      BY <2>5, <3>3, <3>5, BareIs
    <3>7. Stands(s, request)
      BY <3>3, <3>6, <1>2 DEF Stands
    <3>8. ~IsInvalid(s)
      BY <3>3, <1>2, <2>3 DEF IsInvalid
    <3>9. s \in Decisions(T, H) /\ SameWords(d, s) /\ s.tools \subseteq d.tools
      BY <3>3
    <3>10. s.class = d.class /\ s.route = RouteFor(d)
      BY <3>1, <3>3, PlaceIs
    <3> QED
      BY <2>5, <3>3, <3>4, <3>6, <3>7, <3>8, <3>9, <3>10, Zenon DEF f
  <2>6. CASE /\ ~IsBareContinuation(d)
             /\ w \in Decisions(T, H) /\ SameWords(d, w) /\ w.route = d.route
             /\ w.language = d.language /\ w.tools \subseteq d.tools /\ Worked(w, request.deliver)
             /\ ~Lifts(d) => w.class = d.class
    <3> HIDE DEF w
    <3>1. /\ c \in Decisions(T, H) /\ SameWords(w, c) /\ c.class = w.class /\ c.tools = w.tools
          /\ c.language = w.language /\ Placed(c) /\ c.route = RouteFor(w)
          /\ w.route \in Routes => c.route \in Routes
          /\ Worked(w, request.deliver) => Worked(c, request.deliver)
      BY <2>6, CanonicalIs
    <3> HIDE DEF c
    <3>2. c.class # ""
      BY <2>6, <3>1 DEF Worked, Classes
    <3>3. ~IsBareContinuation(c)
      BY <3>2, BareIs
    <3>4. CASE c.level \notin Levels
      <4>1. f = Invalid("task level")
        BY <2>2, <3>3, <3>4
      <4> HIDE DEF s, g
      <4> QED
        BY <4>1, InvalidIs DEF f, Faults
    <3>5. CASE c.level \in Levels
      <4>1. /\ g \in Decisions(T, H) /\ SameWords(c, g) /\ g.route = c.route /\ g.shape = c.shape
            /\ g.class = c.class /\ g.tools = c.tools \intersect request.registered
            /\ g.language = (c.language \/ request.language)
        BY <3>1, SpokenIs
      <4>2. f = g
        BY <2>2, <3>3, <3>5
      <4> HIDE DEF s, g
      <4>3. SameWords(d, g)
        BY <2>6, <3>1, <4>1, SameWordsOn
      <4>4. g.level \in Levels
        BY <3>5, <4>1 DEF SameWords
      <4>5. Placed(g)
        BY <3>1, <4>1 DEF Placed
      <4>6. HasFileDeliverable(g) <=> HasFileDeliverable(c)
        BY <4>1, SameFiles
      <4>7. Worked(g, request.deliver)
        <5>1. Worked(c, request.deliver) /\ g.kind = c.kind
          BY <2>6, <3>1, <4>1 DEF SameWords
        <5> QED
          BY <5>1, <4>1, <4>6 DEF Worked
      <4>8. g.route \in Routes /\ (request.language => g.language)
        BY <1>2, <2>6, <3>1, <4>1
      <4>9. g.tools \subseteq request.registered /\ g.tools \subseteq d.tools
        BY <2>6, <3>1, <4>1
      <4>10. Stands(g, request)
        BY <4>4, <4>5, <4>7, <4>8, <4>9 DEF Stands
      <4>11. ~IsInvalid(g)
        BY <4>8, <2>3 DEF IsInvalid
      <4>12. g.class # "" /\ ~IsBareContinuation(g)
        BY <3>2, <4>1, BareIs
      <4>13. g.language = (d.language \/ request.language)
        BY <2>6, <3>1, <4>1
      <4>14. ~Lifts(d) => g.class = d.class /\ g.route = RouteFor(d)
        <5> SUFFICES ASSUME ~Lifts(d) PROVE g.class = d.class /\ g.route = RouteFor(d)
          OBVIOUS
        <5>1. w.class = d.class /\ w.route = d.route
          BY <2>6
        <5>2. RouteFor(w) = RouteFor(d)
          BY <5>1, Zenon DEF RouteFor
        <5> QED
          BY <5>1, <5>2, <3>1, <4>1
      <4> QED
        BY <2>6, <4>1, <4>2, <4>3, <4>9, <4>10, <4>11, <4>12, <4>13, <4>14, Zenon DEF f
    <3> QED
      BY <3>4, <3>5
  <2> QED
    BY <2>4, <2>5, <2>6
<1> QED
  BY <1>1, <1>2

LEMMA FieldsStay ==
  ASSUME NEW T, NEW H, NEW d \in Decisions(T, H), NEW request, AskedOf(request),
         Stands(d, request)
  PROVE  NormalizeDecidedTurnFields(d, request) = d /\ ~IsInvalid(d)
<1> DEFINE s == SpokenIn(d, request)
           g == OfferedIn(d, request)
<1>1. d.route \in Routes
  BY DEF Stands
<1>2. \A r \in Routes : r # "invalid"
  BY DEF Routes, WorkRoutes
<1>3. ~IsInvalid(d)
  BY <1>1, <1>2 DEF IsInvalid
<1>4. (d.language \/ request.language) = d.language
  <2>1. d.language \in BOOLEAN
    BY DecisionFields
  <2>2. request.language => d.language
    BY DEF Stands
  <2> QED
    BY <2>1, <2>2
<1>5. /\ s \in Decisions(T, H) /\ SameWords(d, s) /\ s.route = d.route /\ s.shape = d.shape
      /\ s.class = d.class /\ s.tools = d.tools /\ s.language = (d.language \/ request.language)
      /\ g \in Decisions(T, H) /\ SameWords(d, g) /\ g.route = d.route /\ g.shape = d.shape
      /\ g.class = d.class /\ g.tools = d.tools \intersect request.registered
      /\ g.language = (d.language \/ request.language)
  BY SpokenIs
<1>6. ASSUME NormalizeDecidedWork(d, request.deliver) = d, Canonical(d) = d
      PROVE  NormalizeDecidedTurnFields(d, request)
               = IF IsBareContinuation(d) THEN s
                 ELSE IF d.level \notin Levels THEN Invalid("task level") ELSE g
  <2>1. NormalizeDecidedTurnFields(d, request) = NormalizeDecidedExecution(d, request)
    BY <1>1, <1>3, <1>6 DEF NormalizeDecidedTurnFields
  <2>2. NormalizeDecidedExecution(d, request)
          = IF IsBareContinuation(Canonical(d)) THEN SpokenIn(Canonical(d), request)
            ELSE IF Canonical(d).level \notin Levels THEN Invalid("task level")
            ELSE OfferedIn(Canonical(d), request)
    BY Zenon DEF NormalizeDecidedExecution, SpokenIn, OfferedIn
  <2> QED
    BY <2>1, <2>2, <1>6, Zenon
<1> HIDE DEF s, g
<1>7. CASE IsBareContinuation(d)
  <2>1. NormalizeDecidedWork(d, request.deliver) = d
    BY <1>7 DEF NormalizeDecidedWork
  <2>2. d.class \notin Classes
    BY <1>7, BareIs DEF Classes
  <2>3. Canonical(d) = d
    BY <2>2, CanonicalIs
  <2>4. s = d
    BY <1>4, <1>5, SameDecision
  <2> QED
    BY <1>3, <1>6, <1>7, <2>1, <2>3, <2>4
<1>8. CASE /\ Worked(d, request.deliver) /\ Placed(d) /\ d.level \in Levels
           /\ d.tools \subseteq request.registered
  <2>1. NormalizeDecidedWork(d, request.deliver) = d
    BY <1>8, WorkedStays
  <2>2. Canonical(d) = d
    BY <1>8, CanonicalStays
  <2>3. d.class # "" /\ ~IsBareContinuation(d)
    BY <1>8, BareIs DEF Worked, Classes
  <2>4. d.tools \intersect request.registered = d.tools
    BY <1>8
  <2>5. g = d
    BY <1>4, <1>5, <2>4, SameDecision
  <2> QED
    BY <1>3, <1>6, <1>8, <2>1, <2>2, <2>3, <2>5
<1> QED
  BY <1>7, <1>8 DEF Stands

-----------------------------------------------------------------------------
(* The words of a decision *)

\* What no rule about the words changes in a decision.
SameWork(d, f) ==
  /\ f.route = d.route /\ f.class = d.class /\ f.shape = d.shape /\ f.level = d.level
  /\ f.count = d.count /\ f.kind = d.kind /\ f.formats = d.formats /\ f.tools = d.tools
  /\ f.priorTask = d.priorTask /\ f.language = d.language /\ f.independent = d.independent

LEMMA SameWorkOn ==
  ASSUME NEW d, NEW e, NEW f, SameWork(d, e), SameWork(e, f)
  PROVE  SameWork(d, f)
BY Zenon DEF SameWork

LEMMA StandsOn ==
  ASSUME NEW d, NEW f, NEW request, SameWork(d, f), HasFileDeliverable(f) <=> HasFileDeliverable(d),
         Stands(d, request)
  PROVE  Stands(f, request)
<1>1. IsBareContinuation(f) <=> IsBareContinuation(d)
  BY BareIs DEF SameWork
<1>2. Worked(d, request.deliver) => Worked(f, request.deliver)
  BY DEF SameWork, Worked
<1>3. Placed(d) => Placed(f)
  BY DEF SameWork, Placed
<1> QED
  BY <1>1, <1>2, <1>3 DEF SameWork, Stands

LEMMA SameResultsSameFiles ==
  ASSUME NEW d, NEW f, SameWork(d, f), NormalizeExpectedResults(f.results) = NormalizeExpectedResults(d.results)
  PROVE  HasFileDeliverable(f) <=> HasFileDeliverable(d)
<1>1. f.formats = d.formats
  BY DEF SameWork
<1> QED
  BY <1>1, Zenon DEF HasFileDeliverable

LEMMA WithResults ==
  ASSUME NEW T, NEW H, NEW d \in Decisions(T, H), NEW results \in Seq(Results(H))
  PROVE  LET f == [d EXCEPT !.results = results]
         IN  /\ f \in Decisions(T, H) /\ SameWork(d, f) /\ f.results = results
             /\ f.options = d.options /\ f.question = d.question /\ f.fallback = d.fallback
BY DEF Decisions, SameWork

LEMMA WithOptions ==
  ASSUME NEW T, NEW H, NEW d \in Decisions(T, H), NEW options \in Options
  PROVE  LET f == [d EXCEPT !.options = options]
         IN  /\ f \in Decisions(T, H) /\ SameWork(d, f) /\ f.results = d.results
             /\ f.options = options /\ f.question = d.question /\ f.fallback = d.fallback
BY DEF Decisions, SameWork, Options

LEMMA SameDecisionAll ==
  ASSUME NEW T, NEW H, NEW d \in Decisions(T, H), NEW f \in Decisions(T, H), SameWork(d, f),
         f.question = d.question, f.options = d.options, f.results = d.results, f.fallback = d.fallback
  PROVE  f = d
<1>1. SameWords(d, f)
  BY DEF SameWork, SameWords
<1>2. /\ f.route = d.route /\ f.class = d.class /\ f.shape = d.shape /\ f.tools = d.tools
      /\ f.language = d.language
  BY DEF SameWork
<1> QED
  BY <1>1, <1>2, SameDecision

\* A decision whose words are in order.
WordsInOrder(d) ==
  /\ NormalizeClarificationOptions(d.options, 5) = d.options
  /\ NormalizeExpectedResults(d.results) = d.results

LEMMA WordsAre ==
  ASSUME NEW T, NEW H, NEW d \in Decisions(T, H)
  PROVE  LET f == NormalizeTurnWords(d)
         IN  /\ f \in Decisions(T, H) /\ SameWork(d, f) /\ WordsInOrder(f)
             /\ f.question = d.question /\ f.fallback = d.fallback
             /\ f.results = NormalizeExpectedResults(d.results)
             /\ HasFileDeliverable(f) <=> HasFileDeliverable(d)
             /\ WordsInOrder(d) => f = d
<1> DEFINE options == NormalizeClarificationOptions(d.options, 5)
           results == NormalizeExpectedResults(d.results)
           g == [d EXCEPT !.options = options]
           f == [g EXCEPT !.results = results]
<1>1. d.options \in Options /\ d.results \in Seq(Results(H))
  BY DecisionFields DEF Options
<1>2. options \in Options /\ NormalizeClarificationOptions(options, 5) = options
  BY <1>1, OptionsHold
<1>3. results \in Seq(Results(H)) /\ NormalizeExpectedResults(results) = results
  BY <1>1, NormPlaces, NormIsTidy, TidyStays
<1>4. NormalizeTurnWords(d) = f
  <2>1. g.results = d.results
    BY DEF Decisions
  <2>2. NormalizeTurnWords(d) = [g EXCEPT !.results = NormalizeExpectedResults(g.results)]
    BY Zenon DEF NormalizeTurnWords
  <2> QED
    BY <2>1, <2>2, Zenon
<1> HIDE DEF options, results
<1>5. /\ g \in Decisions(T, H) /\ SameWork(d, g) /\ g.results = d.results
      /\ g.options = options /\ g.question = d.question /\ g.fallback = d.fallback
  BY <1>2, WithOptions
<1> HIDE DEF g
<1>6. /\ f \in Decisions(T, H) /\ SameWork(g, f) /\ f.results = results
      /\ f.options = g.options /\ f.question = g.question /\ f.fallback = g.fallback
  BY <1>3, <1>5, WithResults
<1> HIDE DEF f
<1>7. SameWork(d, f)
  BY <1>5, <1>6, SameWorkOn
<1>8. WordsInOrder(f)
  BY <1>2, <1>3, <1>5, <1>6 DEF WordsInOrder
<1>9. f.results = NormalizeExpectedResults(d.results)
  BY <1>6 DEF results
<1>10. HasFileDeliverable(f) <=> HasFileDeliverable(d)
  <2>1. NormalizeExpectedResults(f.results) = NormalizeExpectedResults(d.results)
    BY <1>3, <1>9 DEF results
  <2> QED
    BY <2>1, <1>7, SameResultsSameFiles
<1>11. ASSUME WordsInOrder(d) PROVE f = d
  <2>1. f.options = d.options /\ f.results = d.results
    BY <1>11, <1>5, <1>6, <1>9 DEF WordsInOrder, options
  <2>2. f.question = d.question /\ f.fallback = d.fallback
    BY <1>5, <1>6
  <2> QED
    BY <1>6, <1>7, <2>1, <2>2, SameDecisionAll
<1> QED
  BY <1>4, <1>5, <1>6, <1>7, <1>8, <1>9, <1>10, <1>11, Zenon

LEMMA InOrderStays ==
  ASSUME NEW T, NEW H, NEW d \in Decisions(T, H), NEW request, AskedOf(request),
         Stands(d, request), WordsInOrder(d)
  PROVE  NormalizeTurnDecision(d, request) = d
<1>1. NormalizeDecidedTurnFields(d, request) = d /\ ~IsInvalid(d)
  BY FieldsStay
<1>2. NormalizeTurnWords(d) = d
  BY WordsAre
<1> QED
  BY <1>1, <1>2 DEF NormalizeTurnDecision

\* A decision that is handed over and normalised stays so.
LEMMA GivenHolds ==
  ASSUME NEW T, NEW H, NEW d \in Decisions(T, H), NEW request, AskedOf(request)
  PROVE  LET f == NormalizeTurnDecision(d, request)
         IN  \/ IsInvalid(f) /\ f.question \in Faults
             \/ ~IsInvalid(f) /\ f \in Decisions(T, H) /\ NormalizeTurnDecision(f, request) = f
<1> DEFINE e == NormalizeDecidedTurnFields(d, request)
           f == NormalizeTurnDecision(d, request)
<1>1. CASE IsInvalid(e)
  <2>1. f = e
    BY <1>1 DEF NormalizeTurnDecision
  <2>2. e.question \in Faults
    BY <1>1, FieldsAre
  <2> QED
    BY <1>1, <2>1, <2>2
<1>2. CASE ~IsInvalid(e)
  <2>1. e \in Decisions(T, H) /\ Stands(e, request)
    BY <1>2, FieldsAre
  <2>2. f = NormalizeTurnWords(e)
    BY <1>2 DEF NormalizeTurnDecision
  <2> HIDE DEF e, f
  <2>3. /\ f \in Decisions(T, H) /\ SameWork(e, f) /\ WordsInOrder(f)
        /\ HasFileDeliverable(f) <=> HasFileDeliverable(e)
    BY <2>1, <2>2, WordsAre
  <2>4. Stands(f, request)
    BY <2>1, <2>3, StandsOn
  <2>5. NormalizeTurnDecision(f, request) = f
    BY <2>3, <2>4, InOrderStays
  <2>6. ~IsInvalid(f)
    BY <2>3, <2>4, FieldsStay
  <2> QED
    BY <2>3, <2>5, <2>6 DEF f
<1> QED
  BY <1>1, <1>2

-----------------------------------------------------------------------------
(* The reading of the answers *)

LEMMA MoreStrings == /\ WorkRoutes \subseteq STRING /\ Shapes \subseteq STRING /\ Kinds \subseteq STRING
                     /\ {"none", "outcome_recovery", "one", "several", "low", "medium", "high"} \subseteq STRING
BY NamesAreStrings DEF Routes

\* A decision as the answers give it, before tools and words.
ReadAs(d) ==
  /\ \A T, H : d \in Decisions(T, H)
  /\ d.results = <<>> /\ d.fallback = FALSE
  /\ d.class \in Classes /\ Placed(d) /\ ~Lifts(d)
  /\ StartsWork(d) <=> d.class = "bounded_task"

\* Answers are of the kind their questions ask for.
AnswersFit(answers) ==
  /\ "work" \in DOMAIN answers =>
       /\ answers["work"].lean \in {"none", "impossible", "unclear", "work", "unknown"}
       /\ answers["work"].size \in Sizes
  /\ "relation" \in DOMAIN answers => answers["relation"] \in WorkRoutes
  /\ "count" \in DOMAIN answers => answers["count"] \in {"one", "several"}
  /\ "shape" \in DOMAIN answers => answers["shape"] \in Shapes \ {"immediate_reply"}
  /\ "kind" \in DOMAIN answers => answers["kind"] \in Kinds
  /\ "prior_task" \in DOMAIN answers => answers["prior_task"] \in {"none", "outcome_recovery"}

\* What a request says for the reader.
AskedWell(request) ==
  /\ request.decided \in {""} \union Works
  /\ request.goal \in BOOLEAN /\ request.priorTask \in BOOLEAN
  /\ request.firing \in BOOLEAN /\ request.language \in BOOLEAN

LEMMA WordsTurnIs ==
  ASSUME NEW decided
  PROVE  LET d == WordsTurn(decided) IN ReadAs(d) /\ ~IsInvalid(d)
<1> DEFINE Turn(route, class, shape) ==
             [Blank EXCEPT !.route = route, !.class = class, !.shape = shape,
                           !.level = "low", !.count = "none"]
           Fits(route, class, shape) ==
             /\ {route, class, shape} \subseteq STRING
             /\ route \in Routes \ WorkRoutes /\ class \in Classes \ {"bounded_task"}
             /\ class = "quick_reply" => route \notin {"clarify", "give_up"} /\ shape = "immediate_reply"
             /\ class = "needs_confirmation" => route = "clarify" /\ shape = "approval_gated_task"
             /\ class = "unsupported" => route = "give_up" /\ shape = "immediate_reply"
           d == WordsTurn(decided)
<1>1. ASSUME NEW route, NEW class, NEW shape, Fits(route, class, shape), d = Turn(route, class, shape)
      PROVE  ReadAs(d) /\ ~IsInvalid(d)
  <2>1. /\ "low" \in STRING /\ "none" \in STRING /\ route \in STRING /\ class \in STRING /\ shape \in STRING
    BY <1>1, NamesAreStrings
  <2>2. Blank.results = <<>> /\ Blank.formats = FALSE /\ Blank.kind = "none" /\ Blank.fallback = FALSE
    BY DEF Blank
  <2> HIDE DEF d
  <2>3. ASSUME NEW T, NEW H
        PROVE  /\ d \in Decisions(T, H) /\ d.route = route /\ d.class = class /\ d.shape = shape
               /\ d.results = Blank.results /\ d.formats = Blank.formats /\ d.kind = Blank.kind
               /\ d.fallback = Blank.fallback
    <3>1. Blank \in Decisions(T, H)
      BY BlankIs
    <3> DEFINE e == Turn(route, class, shape)
    <3>2. /\ e \in Decisions(T, H) /\ e.route = route /\ e.class = class /\ e.shape = shape
          /\ e.results = Blank.results /\ e.formats = Blank.formats /\ e.kind = Blank.kind
          /\ e.fallback = Blank.fallback
      BY <2>1, <3>1 DEF Decisions
    <3> HIDE DEF e
    <3>3. d = e
      BY <1>1 DEF e
    <3> QED
      BY <3>2, <3>3
  <2>4. /\ \A T, H : d \in Decisions(T, H)
        /\ d.route = route /\ d.class = class /\ d.shape = shape /\ d.results = <<>> /\ d.formats = FALSE
        /\ d.kind = "none" /\ d.fallback = FALSE
    BY <2>2, <2>3
  <2> HIDE DEF Turn
  <2>5. ~HasFileDeliverable(d)
    <3>1. NormalizeExpectedResults(d.results) = <<>>
      BY <2>4, NoResults
    <3>2. Range(<<>>) = {}
      BY DEF Range
    <3> QED
      BY <2>4, <3>1, <3>2 DEF HasFileDeliverable
  <2>6. ~Lifts(d)
    BY <2>4, <2>5 DEF Lifts
  <2>7. Placed(d) /\ d.class \in Classes /\ ~StartsWork(d) /\ d.class # "bounded_task"
    BY <1>1, <2>4 DEF Placed, StartsWork
  <2>8. ~IsInvalid(d)
    BY <1>1, <2>4 DEF IsInvalid, Routes
  <2> QED
    BY <2>4, <2>6, <2>7, <2>8 DEF ReadAs
<1>2. \/ d = Turn("answer_question", "quick_reply", "immediate_reply")
      \/ d = Turn("give_up", "unsupported", "immediate_reply")
      \/ d = Turn("clarify", "needs_confirmation", "approval_gated_task")
  BY DEF WordsTurn
<1>3. /\ Fits("answer_question", "quick_reply", "immediate_reply")
      /\ Fits("give_up", "unsupported", "immediate_reply")
      /\ Fits("clarify", "needs_confirmation", "approval_gated_task")
  BY NamesAreStrings DEF Routes, WorkRoutes, Classes
<1> HIDE DEF d, Turn, Fits
<1>4. ReadAs(d) /\ ~IsInvalid(d)
  BY <1>1, <1>2, <1>3
<1> QED
  BY <1>4 DEF d

\* All that readWorkTurn needs was answered.
Answered(request, answers) ==
  {"count", "shape", "kind", "formats"}
      \union (IF request.goal THEN {"relation"} ELSE {})
      \union (IF request.priorTask THEN {"prior_task"} ELSE {}) \subseteq DOMAIN answers

LEMMA ReadWorkTurnIs ==
  ASSUME NEW request, NEW decided, NEW answers, AnswersFit(answers), Answered(request, answers)
  PROVE  LET d == ReadWorkTurn(request, decided, answers) IN ReadAs(d) /\ ~IsInvalid(d)
<1> DEFINE route == IF request.goal THEN answers["relation"] ELSE "start_task"
           count == answers["count"]
           shape == answers["shape"]
           level == LevelOfWork(decided)
           kind == answers["kind"]
           prior == IF request.priorTask THEN answers["prior_task"] ELSE "none"
           formats == answers["formats"] = "yes"
           d == ReadWorkTurn(request, decided, answers)
           e == [Blank EXCEPT !.route = route, !.class = "bounded_task", !.independent = TRUE,
                              !.count = count, !.shape = shape, !.level = level, !.kind = kind,
                              !.priorTask = prior, !.formats = formats]
<1>1. d = e
  BY Zenon DEF ReadWorkTurn, Answered
<1>2. /\ route \in WorkRoutes /\ count \in {"one", "several"} /\ shape \in Shapes \ {"immediate_reply"}
      /\ kind \in Kinds /\ prior \in {"none", "outcome_recovery"} /\ level \in {"low", "medium", "high"}
      /\ formats \in BOOLEAN
  <2>1. request.goal => answers["relation"] \in WorkRoutes
    BY DEF AnswersFit, Answered
  <2>2. request.priorTask => answers["prior_task"] \in {"none", "outcome_recovery"}
    BY DEF AnswersFit, Answered
  <2>3. count \in {"one", "several"} /\ shape \in Shapes \ {"immediate_reply"} /\ kind \in Kinds
    BY DEF AnswersFit, Answered
  <2>4. level \in {"low", "medium", "high"}
    BY DEF LevelOfWork
  <2>5. route \in WorkRoutes
    BY <2>1 DEF WorkRoutes
  <2> QED
    BY <2>2, <2>3, <2>4, <2>5
<1> HIDE DEF d, route, count, shape, level, kind, prior, formats
<1>3. /\ route \in STRING /\ count \in STRING /\ shape \in STRING /\ kind \in STRING
      /\ prior \in STRING /\ level \in STRING /\ "bounded_task" \in STRING
  BY <1>2, MoreStrings, NamesAreStrings
<1>4. Blank.results = <<>> /\ Blank.fallback = FALSE
  BY DEF Blank
<1>5. ASSUME NEW T, NEW H
      PROVE  /\ e \in Decisions(T, H) /\ e.route = route /\ e.class = "bounded_task"
             /\ e.results = Blank.results /\ e.fallback = Blank.fallback
  <2>1. Blank \in Decisions(T, H)
    BY BlankIs
  <2> QED
    BY <1>2, <1>3, <2>1 DEF Decisions
<1> HIDE DEF e
<1>6. /\ \A T, H : d \in Decisions(T, H)
      /\ d.route = route /\ d.class = "bounded_task" /\ d.results = <<>> /\ d.fallback = FALSE
  BY <1>1, <1>4, <1>5
<1>7. Placed(d) /\ ~Lifts(d) /\ d.class \in Classes /\ StartsWork(d)
  BY <1>2, <1>6 DEF Placed, Lifts, Classes, StartsWork
<1>8. ~IsInvalid(d)
  BY <1>2, <1>6 DEF IsInvalid, WorkRoutes
<1> QED
  BY <1>6, <1>7, <1>8 DEF ReadAs, d

LEMMA ReadIs ==
  ASSUME NEW request, AskedWell(request), NEW answers, AnswersFit(answers)
  PROVE  LET d == ReadTurnFields(request, answers)
         IN  /\ ~IsInvalid(d) => ReadAs(d)
             /\ IsInvalid(d) => d.question \in {"unknown", "unanswered"}
             /\ RouterQuestions(request) \subseteq DOMAIN answers /\ IsInvalid(d) =>
                  d.question # "unanswered"
<1> DEFINE decided == ReadDecidedWork(request, answers)
           read == IF decided \in Sizes THEN ReadWorkTurn(request, decided, answers) ELSE WordsTurn(decided)
           e == [read EXCEPT !.language = ~request.language]
           d == ReadTurnFields(request, answers)
<1>1. d = IF decided \in {"unknown", "unanswered"} THEN Invalid(decided)
          ELSE IF ~request.language /\ "language" \notin DOMAIN answers THEN Invalid("unanswered")
          ELSE IF IsInvalid(read) THEN read
          ELSE e
  BY Zenon DEF ReadTurnFields
<1>2. ASSUME RouterQuestions(request) \subseteq DOMAIN answers, decided \notin {"unknown", "unanswered"}
      PROVE  /\ request.language \/ "language" \in DOMAIN answers
             /\ decided \in Sizes => Answered(request, answers)
  <2>1. request.language \/ "language" \in DOMAIN answers
    BY <1>2 DEF RouterQuestions
  <2>2. ASSUME decided \in Sizes PROVE Answered(request, answers)
    <3>1. request.decided \in {""} \union Sizes
      BY <2>2 DEF ReadDecidedWork, Works, AskedWell
    <3>2. WorkQuestions(request) \subseteq DOMAIN answers
      BY <1>2, <3>1 DEF RouterQuestions
    <3> QED
      BY <3>2 DEF WorkQuestions, Answered
  <2> QED
    BY <2>1, <2>2
<1>3. ASSUME RouterQuestions(request) \subseteq DOMAIN answers
      PROVE  decided # "unanswered"
  <2>1. CASE request.decided # ""
    BY <2>1 DEF ReadDecidedWork, AskedWell, Works, Sizes
  <2>2. CASE request.decided = ""
    <3>1. "work" \in DOMAIN answers
      BY <1>3, <2>2 DEF RouterQuestions
    <3>2. answers["work"].size \in Sizes
          /\ answers["work"].lean \in {"none", "impossible", "unclear", "work", "unknown"}
      BY <3>1 DEF AnswersFit
    <3>3. decided \in {answers["work"].size, answers["work"].lean}
      BY <2>2, <3>1, Zenon DEF ReadDecidedWork
    <3> HIDE DEF decided
    <3> QED
      BY <3>2, <3>3 DEF Sizes
  <2> QED
    BY <2>1, <2>2
<1>4. \/ ReadAs(read) /\ ~IsInvalid(read)
      \/ read = Invalid("unanswered") /\ ~Answered(request, answers) /\ decided \in Sizes
  <2>1. CASE decided \notin Sizes
    <3>1. read = WordsTurn(decided)
      BY <2>1
    <3> HIDE DEF read, decided
    <3> QED
      BY <3>1, WordsTurnIs
  <2>2. CASE decided \in Sizes /\ Answered(request, answers)
    <3>1. read = ReadWorkTurn(request, decided, answers)
      BY <2>2
    <3> HIDE DEF read, decided
    <3> QED
      BY <2>2, <3>1, ReadWorkTurnIs
  <2>3. CASE decided \in Sizes /\ ~Answered(request, answers)
    <3>1. read = ReadWorkTurn(request, decided, answers)
      BY <2>3
    <3>2. read = Invalid("unanswered")
      BY <2>3, <3>1 DEF ReadWorkTurn, Answered
    <3> QED
      BY <2>3, <3>2
  <2> QED
    BY <2>1, <2>2, <2>3
<1>5. \A why : IsInvalid(Invalid(why)) /\ Invalid(why).question = why
  BY InvalidIs
<1> HIDE DEF read
<1>6. ASSUME ReadAs(read), ~IsInvalid(read)
      PROVE  ReadAs(e) /\ ~IsInvalid(e)
  <2> DEFINE language == ~request.language
             g == [read EXCEPT !.language = language]
  <2>1. language \in BOOLEAN
    BY DEF AskedWell
  <2>2. e = g
    OBVIOUS
  <2> HIDE DEF language, e
  <2>3. ASSUME NEW T, NEW H
        PROVE  /\ g \in Decisions(T, H) /\ SameWords(read, g) /\ g.route = read.route
               /\ g.shape = read.shape /\ g.class = read.class
    <3>1. read \in Decisions(T, H)
      BY <1>6 DEF ReadAs
    <3> QED
      BY <2>1, <3>1, WithLanguage
  <2> HIDE DEF g
  <2>4. HasFileDeliverable(g) <=> HasFileDeliverable(read)
    BY <2>3, SameFiles
  <2>5. g.results = read.results /\ g.fallback = read.fallback /\ g.kind = read.kind
    BY <2>3 DEF SameWords
  <2>6. \A T, H : g \in Decisions(T, H)
    BY <2>3
  <2>7. ReadAs(g)
    BY <1>6, <2>3, <2>4, <2>5, <2>6 DEF ReadAs, Placed, Lifts, StartsWork
  <2>8. ~IsInvalid(g)
    BY <1>6, <2>3 DEF IsInvalid
  <2> QED
    BY <2>2, <2>7, <2>8
<1> HIDE DEF decided, e, d
<1>7. ~IsInvalid(d) => ReadAs(d)
  BY <1>1, <1>4, <1>5, <1>6
<1>9. IsInvalid(d) => d.question \in {"unknown", "unanswered"}
  BY <1>1, <1>4, <1>5, <1>6
<1>8. ASSUME RouterQuestions(request) \subseteq DOMAIN answers, IsInvalid(d)
      PROVE  d.question # "unanswered"
  <2>1. decided # "unanswered"
    BY <1>3, <1>8
  <2>2. CASE decided = "unknown"
    <3>1. d = Invalid("unknown")
      BY <1>1, <2>2
    <3> QED
      BY <1>5, <3>1
  <2>3. CASE decided # "unknown"
    <3>1. /\ request.language \/ "language" \in DOMAIN answers
          /\ decided \in Sizes => Answered(request, answers)
      BY <1>2, <1>8, <2>1, <2>3
    <3>2. ReadAs(read) /\ ~IsInvalid(read)
      BY <1>4, <3>1
    <3>3. d = e
      BY <1>1, <2>1, <2>3, <3>1, <3>2
    <3> QED
      BY <1>6, <1>8, <3>2, <3>3
  <2> QED
    BY <2>2, <2>3
<1> QED
  BY <1>7, <1>8, <1>9 DEF d

-----------------------------------------------------------------------------
(* The words call *)

LEMMA Retooled ==
  ASSUME NEW T, NEW H, NEW d \in Decisions(T, H), NEW N, d.tools \subseteq N
  PROVE  d \in Decisions(N, H)
BY DEF Decisions

\* A planned decision before its words.
Proposed(d, request) ==
  /\ Stands(d, request) /\ ~IsBareContinuation(d)
  /\ d.results = <<>> /\ d.fallback = FALSE
  /\ StartsWork(d) <=> d.class = "bounded_task"

\* A planned decision that holds together.
TogetherAs(d, request) ==
  /\ LET said == [d EXCEPT !.results = <<>>] IN NormalizeTurnDecision(said, request) = said
  /\ d.fallback => StartsWork(d)
  /\ StartsWork(d) <=> d.class = "bounded_task"
  /\ IsClarificationReview(d) => d.question # ""

LEMMA ProposedIs ==
  ASSUME NEW d, ReadAs(d), NEW request, AskedOf(request), NEW names,
         NEW f, f = NormalizeDecidedTurnFields([d EXCEPT !.tools = names], request), ~IsInvalid(f)
  PROVE  /\ Proposed(f, request) /\ f.tools \subseteq request.registered
         /\ \A N, H : request.registered \subseteq N => f \in Decisions(N, H)
<1> DEFINE x == [d EXCEPT !.tools = names]
<1>1. ASSUME NEW H
      PROVE  /\ x \in Decisions(names, H) /\ SameWords(d, x) /\ x.route = d.route /\ x.shape = d.shape
             /\ x.class = d.class /\ x.tools = names /\ x.language = d.language
  <2>1. d \in Decisions({}, H)
    BY DEF ReadAs
  <2>2. names \in SUBSET names
    OBVIOUS
  <2> QED
    BY <2>1, <2>2, WithTools
<1> HIDE DEF x
<1>2. SameWords(d, x) /\ x.route = d.route /\ x.class = d.class /\ x.shape = d.shape
  BY <1>1
<1>3. ASSUME NEW H
      PROVE  /\ f \in Decisions(names, H) /\ SameWords(x, f) /\ Stands(f, request)
             /\ IsBareContinuation(f) <=> IsBareContinuation(x)
             /\ ~Lifts(x) => f.class = x.class /\ f.route = RouteFor(x)
  <2>1. x \in Decisions(names, H)
    BY <1>1
  <2>2. f = NormalizeDecidedTurnFields(x, request)
    BY DEF x
  <2> QED
    BY <2>1, <2>2, FieldsAre
<1>4. HasFileDeliverable(x) <=> HasFileDeliverable(d)
  BY <1>2, SameFiles
<1>5. ~Lifts(x)
  BY <1>2, <1>4 DEF Lifts, ReadAs, SameWords
<1>6. Placed(x) /\ x.class \in Classes
  BY <1>2 DEF Placed, ReadAs
<1>7. RouteFor(x) = x.route
  <2>1. x \in Decisions(names, {})
    BY <1>1
  <2> QED
    BY <2>1, <1>6, PlaceIs
<1>8. ~IsBareContinuation(x)
  BY <1>6, BareIs DEF Classes
<1>9. f.class = d.class /\ f.route = d.route
  BY <1>2, <1>3, <1>5, <1>7
<1>10. f.results = <<>> /\ f.fallback = FALSE
  BY <1>2, <1>3 DEF SameWords, ReadAs
<1>11. StartsWork(f) <=> f.class = "bounded_task"
  BY <1>9 DEF StartsWork, ReadAs
<1>12. Proposed(f, request)
  BY <1>3, <1>8, <1>10, <1>11 DEF Proposed
<1>13. f.tools \subseteq request.registered
  BY <1>3, <1>8 DEF Stands
<1>14. ASSUME NEW N, NEW H, request.registered \subseteq N PROVE f \in Decisions(N, H)
  <2>1. f \in Decisions(names, H)
    BY <1>3
  <2>2. f.tools \subseteq N
    BY <1>13, <1>14
  <2> QED
    BY <2>1, <2>2, Retooled
<1> QED
  BY <1>12, <1>13, <1>14

\* A review asks something, and what is routed around words is work.
Asks(x) == (x.fallback => StartsWork(x)) /\ (IsClarificationReview(x) => x.question # "")

LEMMA TogetherIs ==
  ASSUME NEW T, NEW H, NEW d \in Decisions(T, H), NEW request, AskedOf(request), Proposed(d, request),
         NEW x \in Decisions(T, H), SameWork(d, x), Asks(x)
  PROVE  /\ NormalizeTurnWords(x) \in Decisions(T, H)
         /\ TogetherAs(NormalizeTurnWords(x), request)
<1> DEFINE f == NormalizeTurnWords(x)
           said == [f EXCEPT !.results = <<>>]
<1>1. /\ f \in Decisions(T, H) /\ SameWork(x, f) /\ WordsInOrder(f)
      /\ f.question = x.question /\ f.fallback = x.fallback
  BY WordsAre
<1> HIDE DEF f
<1>3. /\ said \in Decisions(T, H) /\ SameWork(f, said) /\ said.results = <<>>
      /\ said.options = f.options
  <2> DEFINE none == <<>>
             g == [f EXCEPT !.results = none]
  <2>1. none \in Seq(Results(H))
    OBVIOUS
  <2> HIDE DEF none
  <2>2. g \in Decisions(T, H) /\ SameWork(f, g) /\ g.results = none /\ g.options = f.options
    BY <1>1, <2>1, WithResults
  <2> HIDE DEF g
  <2>3. said = g
    BY DEF g, none
  <2> HIDE DEF said
  <2> QED
    BY <2>2, <2>3 DEF none
<1> HIDE DEF said
<1>4. SameWork(d, said) /\ SameWork(d, f)
  BY <1>1, <1>3, SameWorkOn
<1>5. d.results = <<>>
  BY DEF Proposed
<1>6. HasFileDeliverable(said) <=> HasFileDeliverable(d)
  BY <1>3, <1>4, <1>5, SameResultsSameFiles
<1>7. Stands(said, request)
  BY <1>4, <1>6, StandsOn DEF Proposed
<1>8. WordsInOrder(said)
  BY <1>1, <1>3, NoResults DEF WordsInOrder
<1>9. NormalizeTurnDecision(said, request) = said
  BY <1>3, <1>7, <1>8, InOrderStays
<1>10. f.fallback => StartsWork(f)
  BY <1>1 DEF SameWork, StartsWork, Asks
<1>11. StartsWork(f) <=> f.class = "bounded_task"
  BY <1>4 DEF SameWork, StartsWork, Proposed
<1>12. IsClarificationReview(f) => f.question # ""
  BY <1>1 DEF SameWork, IsClarificationReview, Asks
<1>13. TogetherAs(f, request)
  BY <1>9, <1>10, <1>11, <1>12 DEF TogetherAs, said
<1> QED
  BY <1>1, <1>13 DEF f

\* What is proposed as work.
AsWork(d) == [d EXCEPT !.route = "start_task", !.class = "bounded_task", !.shape = "maintenance_task"]

LEMMA AsWorkIs ==
  ASSUME NEW T, NEW H, NEW d \in Decisions(T, H), NEW request, Proposed(d, request)
  PROVE  LET e == AsWork(d)
         IN  /\ e \in Decisions(T, H) /\ Proposed(e, request) /\ SameWords(d, e)
             /\ e.route = "start_task" /\ e.class = "bounded_task" /\ e.shape = "maintenance_task"
             /\ e.tools = d.tools /\ e.language = d.language
             /\ StartsWork(e) /\ ~IsClarificationReview(e)
<1> DEFINE e == AsWork(d)
<1>1. /\ "start_task" \in STRING /\ "bounded_task" \in STRING /\ "maintenance_task" \in STRING
  BY NamesAreStrings
<1>2. /\ e \in Decisions(T, H) /\ SameWords(d, e)
      /\ e.route = "start_task" /\ e.class = "bounded_task" /\ e.shape = "maintenance_task"
      /\ e.tools = d.tools /\ e.language = d.language
  BY <1>1 DEF AsWork, Decisions, SameWords
<1> HIDE DEF e
<1>3. HasFileDeliverable(e) <=> HasFileDeliverable(d)
  BY <1>2, SameFiles
<1>4. Worked(e, request.deliver)
  BY <1>2, <1>3 DEF Worked, Classes, Shapes, Proposed, Stands
<1>5. Placed(e) /\ e.route \in Routes /\ StartsWork(e) /\ ~IsClarificationReview(e)
  BY <1>2 DEF Placed, Routes, WorkRoutes, StartsWork, IsClarificationReview
<1>6. e.level = d.level /\ e.results = d.results /\ e.fallback = d.fallback
  BY <1>2 DEF SameWords
<1>7. Stands(e, request)
  BY <1>2, <1>4, <1>5, <1>6 DEF Stands, Proposed
<1>8. ~IsBareContinuation(e)
  BY <1>2, BareIs
<1>9. Proposed(e, request)
  BY <1>2, <1>5, <1>6, <1>7, <1>8 DEF Proposed
<1> QED
  BY <1>2, <1>5, <1>9 DEF e

LEMMA WithTurnWordsIs ==
  ASSUME NEW T, NEW H, NEW d \in Decisions(T, H), NEW written \in TurnWords(H)
  PROVE  LET x == WithTurnWords(d, written)
         IN  /\ x \in Decisions(T, H) /\ SameWork(d, x) /\ x.question = written.question
             /\ x.options = written.options /\ x.results = written.results /\ x.fallback = d.fallback
<1> DEFINE question == written.question
           options == written.options
           results == written.results
           x == [d EXCEPT !.question = question, !.options = options, !.results = results]
<1>1. question \in STRING /\ options \in Options /\ results \in Seq(Results(H))
  BY DEF TurnWords, Options
<1>2. WithTurnWords(d, written) = x
  BY Zenon DEF WithTurnWords
<1> HIDE DEF question, options, results
<1>3. /\ x \in Decisions(T, H) /\ SameWork(d, x) /\ x.question = question
      /\ x.options = options /\ x.results = results /\ x.fallback = d.fallback
  BY <1>1 DEF Decisions, SameWork, Options
<1> HIDE DEF x
<1> QED
  BY <1>2, <1>3 DEF question, options, results

LEMMA ArriveIs ==
  ASSUME NEW T, NEW H, NEW d \in Decisions(T, H), NEW request, AskedOf(request), Proposed(d, request),
         NEW written \in TurnWords(H), WordsAreValid(d, written)
  PROVE  LET worded == WithTurnWords(d, written)
             starts == IsClarificationReview(d) /\ written.disposition = "start_work"
             f == NormalizeTurnWords(IF starts THEN StartClarifiedWork(worded) ELSE worded)
         IN  f \in Decisions(T, H) /\ TogetherAs(f, request)
<1> DEFINE y == WithTurnWords(d, written)
           starts == IsClarificationReview(d) /\ written.disposition = "start_work"
<1>1. /\ y \in Decisions(T, H) /\ SameWork(d, y) /\ y.question = written.question /\ y.fallback = d.fallback
  BY WithTurnWordsIs
<1> HIDE DEF y
<1>2. d.fallback = FALSE
  BY DEF Proposed
<1>3. CASE starts
  <2> DEFINE e == AsWork(d)
             none == <<>>
             z == [y EXCEPT !.route = "start_task", !.class = "bounded_task",
                            !.shape = "maintenance_task", !.question = "", !.options = none]
  <2>1. /\ e \in Decisions(T, H) /\ Proposed(e, request) /\ SameWords(d, e)
        /\ e.route = "start_task" /\ e.class = "bounded_task" /\ e.shape = "maintenance_task"
        /\ e.tools = d.tools /\ e.language = d.language
        /\ StartsWork(e) /\ ~IsClarificationReview(e)
    BY AsWorkIs
  <2>2. "start_task" \in STRING /\ "bounded_task" \in STRING /\ "maintenance_task" \in STRING /\ "" \in STRING
    BY NamesAreStrings
  <2>4. StartClarifiedWork(y) = z
    BY Zenon DEF StartClarifiedWork
  <2>8. none \in Seq([key : STRING, label : STRING])
    OBVIOUS
  <2> HIDE DEF none
  <2>3. /\ z \in Decisions(T, H) /\ z.route = "start_task" /\ z.class = "bounded_task"
        /\ z.shape = "maintenance_task" /\ z.level = y.level /\ z.count = y.count /\ z.kind = y.kind
        /\ z.formats = y.formats /\ z.tools = y.tools /\ z.priorTask = y.priorTask
        /\ z.language = y.language /\ z.independent = y.independent /\ z.fallback = y.fallback
    BY <1>1, <2>2, <2>8 DEF Decisions
  <2> HIDE DEF e, z
  <2>5. SameWork(e, z)
    BY <1>1, <2>1, <2>3 DEF SameWork, SameWords
  <2>6. Asks(z)
    BY <1>1, <1>2, <2>3 DEF Asks, IsClarificationReview
  <2>7. /\ NormalizeTurnWords(z) \in Decisions(T, H) /\ TogetherAs(NormalizeTurnWords(z), request)
    BY <2>1, <2>3, <2>5, <2>6, TogetherIs
  <2> QED
    BY <1>3, <2>4, <2>7 DEF y
<1>4. CASE ~starts
  <2>1. Asks(y)
    <3>1. IsClarificationReview(y) => IsClarificationReview(d)
      BY <1>1 DEF SameWork, IsClarificationReview
    <3>2. IsClarificationReview(d) => written.question # ""
      BY <1>4 DEF WordsAreValid
    <3> QED
      BY <1>1, <1>2, <3>1, <3>2 DEF Asks
  <2>2. /\ NormalizeTurnWords(y) \in Decisions(T, H) /\ TogetherAs(NormalizeTurnWords(y), request)
    BY <1>1, <2>1, TogetherIs
  <2> QED
    BY <1>4, <2>2 DEF y
<1> QED
  BY <1>3, <1>4

LEMMA HandedIs ==
  ASSUME NEW T, NEW H, NEW d \in Decisions(T, H), NEW request, AskedOf(request), Proposed(d, request)
  PROVE  LET f == HandToAgentLoop(d) IN f \in Decisions(T, H) /\ TogetherAs(f, request)
<1>1. CASE StartsWork(d)
  <2> DEFINE x == [d EXCEPT !.fallback = TRUE]
  <2>1. x \in Decisions(T, H) /\ SameWork(d, x) /\ x.question = d.question
    BY DEF Decisions, SameWork
  <2>2. HandToAgentLoop(d) = NormalizeTurnWords(x)
    BY <1>1 DEF HandToAgentLoop
  <2> HIDE DEF x
  <2>3. x.route = d.route /\ x.class = d.class
    BY <2>1 DEF SameWork
  <2>4. StartsWork(x) /\ x.class = "bounded_task"
    BY <1>1, <2>3 DEF StartsWork, Proposed
  <2>5. ~IsClarificationReview(x)
    BY <2>4 DEF StartsWork, WorkRoutes, IsClarificationReview
  <2>6. Asks(x)
    BY <2>4, <2>5 DEF Asks
  <2>7. /\ NormalizeTurnWords(x) \in Decisions(T, H) /\ TogetherAs(NormalizeTurnWords(x), request)
    BY <2>1, <2>6, TogetherIs
  <2> QED
    BY <2>2, <2>7
<1>2. CASE ~StartsWork(d)
  <2> DEFINE e == AsWork(d)
             x == [d EXCEPT !.fallback = TRUE, !.route = "start_task", !.class = "bounded_task",
                            !.shape = "maintenance_task"]
  <2>1. /\ e \in Decisions(T, H) /\ Proposed(e, request) /\ SameWords(d, e)
        /\ e.route = "start_task" /\ e.class = "bounded_task" /\ e.shape = "maintenance_task"
        /\ e.tools = d.tools /\ e.language = d.language
        /\ StartsWork(e) /\ ~IsClarificationReview(e)
    BY AsWorkIs
  <2>2. "start_task" \in STRING /\ "bounded_task" \in STRING /\ "maintenance_task" \in STRING
    BY NamesAreStrings
  <2>3. /\ x \in Decisions(T, H) /\ x.route = "start_task" /\ x.class = "bounded_task"
        /\ x.shape = "maintenance_task" /\ x.level = d.level /\ x.count = d.count /\ x.kind = d.kind
        /\ x.formats = d.formats /\ x.tools = d.tools /\ x.priorTask = d.priorTask
        /\ x.language = d.language /\ x.independent = d.independent
    BY <2>2 DEF Decisions
  <2>4. HandToAgentLoop(d) = NormalizeTurnWords(x)
    BY <1>2, Zenon DEF HandToAgentLoop
  <2> HIDE DEF e, x
  <2>5. SameWork(e, x)
    BY <2>1, <2>3 DEF SameWork, SameWords
  <2>6. Asks(x)
    BY <2>3 DEF Asks, IsClarificationReview, StartsWork, WorkRoutes
  <2>7. /\ NormalizeTurnWords(x) \in Decisions(T, H) /\ TogetherAs(NormalizeTurnWords(x), request)
    BY <2>1, <2>3, <2>5, <2>6, TogetherIs
  <2> QED
    BY <2>4, <2>7
<1> QED
  BY <1>1, <1>2

-----------------------------------------------------------------------------
(* The planning of a turn *)

\* The names a turn may use.
NamesOf(t) == IF t \in Messages THEN Current ELSE Nat
HintsOf(t) == IF t \in Messages THEN Tools ELSE Nat

LEMMA TurnFacts ==
  ASSUME NEW t \in Turns
  PROVE  /\ AskedWell(t.request) /\ AskedOf(t.request) /\ t.request.registered \subseteq NamesOf(t)
         /\ t.given \in Decisions(NamesOf(t), HintsOf(t))
         /\ t.routing \in {"exact", "given", "none"}
         /\ WordSets \subseteq TurnWords(HintsOf(t))
<1>1. t \in TurnsToPlan /\ WordSets \subseteq TurnWords(Nat)
  BY TurnsAssumption
<1>2. /\ t.request \in [decided : {""} \union Works, goal : BOOLEAN, priorTask : BOOLEAN,
                        firing : BOOLEAN, language : BOOLEAN, registered : SUBSET Nat, deliver : Nat]
      /\ t.given \in Decisions(Nat, Nat) /\ t.routing \in {"exact", "given", "none"}
  BY <1>1, Zenon DEF TurnsToPlan
<1>3. AskedWell(t.request) /\ AskedOf(t.request) /\ t.request.registered \subseteq Nat
  <2> DEFINE r == t.request
  <2>1. r \in [decided : {""} \union Works, goal : BOOLEAN, priorTask : BOOLEAN,
               firing : BOOLEAN, language : BOOLEAN, registered : SUBSET Nat, deliver : Nat]
    BY <1>2
  <2> HIDE DEF r
  <2>2. AskedWell(r) /\ AskedOf(r) /\ r.registered \subseteq Nat
    BY <2>1 DEF AskedWell, AskedOf
  <2> QED
    BY <2>2 DEF r
<1>4. CASE t \in Messages
  <2>1. t.request.registered \subseteq Current /\ t.given \in Decisions(Current, Tools)
    BY <1>4, TaskAssumption
  <2>2. WordSets \subseteq TurnWords(Tools)
    BY TaskAssumption
  <2> QED
    BY <1>2, <1>3, <1>4, <2>1, <2>2 DEF NamesOf, HintsOf
<1>5. CASE t \notin Messages
  BY <1>1, <1>2, <1>3, <1>5 DEF NamesOf, HintsOf
<1> QED
  BY <1>4, <1>5

\* What planning may end with.
EndsWith(t, d) ==
  /\ d \in Decisions(NamesOf(t), HintsOf(t))
  /\ t.routing = "given" => NormalizeTurnDecision(d, t.request) = d
  /\ t.routing = "none" => TogetherAs(d, t.request)

\* How the planning of a turn goes on.
PlanHolds(t, a, d, e, o) ==
  /\ t \in Turns
  /\ e # "" => a = "done"
  /\ e = "unanswered" => o
  /\ t.entry # "turn" => a \notin {"deciding", "wording"}
  /\ t.entry = "turn" =>
       /\ a \in {"deciding", "selecting", "wording"} => t.routing = "none"
       /\ a = "selecting" => ReadAs(d)
       /\ a = "wording" => d \in Decisions(NamesOf(t), HintsOf(t)) /\ Proposed(d, t.request)
       /\ a = "done" /\ e = "" => EndsWith(t, d)

PlanInv == PlanHolds(turn, at, decision, error, omitted)

LEMMA FaultsAreNamed == ASSUME NEW why \in Faults PROVE why # "" /\ why # "unanswered"
BY DEF Faults

LEMMA FirstCallErrorIs == FirstCallError \in {"", "failed", "cancelled"}
BY DEF FirstCallError

LEMMA PlanStep ==
  ASSUME PlanInv, Plan
  PROVE  PlanInv'
<1> DEFINE given == NormalizeTurnDecision(turn.given, turn.request)
<1>0. /\ turn \in Turns /\ turn' = turn /\ omitted' = omitted /\ at = "plan" /\ turn.entry = "turn"
      /\ error = ""
  BY DEF Plan, PlanInv, PlanHolds
<1>1. /\ turn.given \in Decisions(NamesOf(turn), HintsOf(turn)) /\ AskedOf(turn.request)
  BY <1>0, TurnFacts
<1>2. CASE turn.routing = "exact" /\ Decided(turn.given)
  <2>1. EndsWith(turn, turn.given)
    BY <1>1, <1>2 DEF EndsWith
  <2> QED
    BY <1>0, <1>2, <2>1 DEF Decided, PlanInv, PlanHolds
<1>3. CASE turn.routing = "given" /\ ~IsInvalid(given) /\ Decided(given)
  <2>1. /\ given \in Decisions(NamesOf(turn), HintsOf(turn))
        /\ NormalizeTurnDecision(given, turn.request) = given
    BY <1>1, <1>3, GivenHolds
  <2> HIDE DEF given
  <2>2. EndsWith(turn, given)
    BY <1>3, <2>1 DEF EndsWith
  <2> QED
    BY <1>0, <1>3, <2>2 DEF Decided, PlanInv, PlanHolds
<1>4. CASE turn.routing = "given" /\ IsInvalid(given) /\ Refuse(given.question)
  <2>1. given.question \in Faults
    BY <1>1, <1>4, GivenHolds
  <2> HIDE DEF given
  <2> QED
    BY <1>0, <1>4, <2>1, FaultsAreNamed DEF Refuse, PlanInv, PlanHolds
<1>5. CASE turn.routing = "none" /\ at' = "deciding" /\ UNCHANGED <<decision, error>>
  BY <1>0, <1>5 DEF PlanInv, PlanHolds
<1>6. CASE turn.routing = "none" /\ Refuse("unavailable")
  BY <1>0, <1>6 DEF Refuse, PlanInv, PlanHolds
<1> QED
  BY <1>2, <1>3, <1>4, <1>5, <1>6, Zenon DEF Plan

LEMMA PlanNeedStep ==
  ASSUME PlanInv, PlanNeed
  PROVE  PlanInv'
<1>1. /\ turn \in Turns /\ turn' = turn /\ omitted' = omitted /\ at = "plan" /\ turn.entry # "turn"
      /\ error = ""
  BY DEF PlanNeed, PlanInv, PlanHolds
<1>2. CASE Refuse("unavailable")
  BY <1>1, <1>2 DEF Refuse, PlanInv, PlanHolds
<1>3. CASE at' = "selecting" /\ UNCHANGED <<decision, error>>
  BY <1>1, <1>3 DEF PlanInv, PlanHolds
<1> QED
  BY <1>2, <1>3 DEF PlanNeed

\* What reading the selection comes to.
Picks(f) ==
  \/ IsInvalid(f) /\ Refuse(f.question) /\ UNCHANGED wordsVars
  \/ Refuse("unavailable") /\ UNCHANGED wordsVars
  \/ ~IsInvalid(f) /\ ~WantsWords(f) /\ Decided(NormalizeTurnWords(f)) /\ UNCHANGED wordsVars
  \/ /\ ~IsInvalid(f) /\ at' = "wording" /\ decision' = f /\ words' = "asked"
     /\ limited' = ("words" \in measured) /\ UNCHANGED <<corrected, error>>

LEMMA PickIs ==
  ASSUME ReadSelection
  PROVE  \E picked \in ToolAnswers(decision.count) :
           Picks(NormalizeDecidedTurnFields(
                   [decision EXCEPT !.tools = SelectedTools(picked)], turn.request))
<1>1. PICK picked \in ToolAnswers(decision.count) :
        LET fields == NormalizeDecidedTurnFields(
                          [decision EXCEPT !.tools = SelectedTools(picked)], turn.request)
        IN  IF IsInvalid(fields) THEN Refuse(fields.question) /\ UNCHANGED wordsVars
            ELSE IF ~WantsWords(fields)
            THEN Decided(NormalizeTurnWords(fields)) /\ UNCHANGED wordsVars
            ELSE IF "chat" \in turn.missing
            THEN Refuse("unavailable") /\ UNCHANGED wordsVars
            ELSE /\ at' = "wording" /\ decision' = fields
                 /\ words' = "asked" /\ limited' = ("words" \in measured)
                 /\ UNCHANGED <<corrected, error>>
  BY Zenon DEF ReadSelection
<1> DEFINE f == NormalizeDecidedTurnFields(
                   [decision EXCEPT !.tools = SelectedTools(picked)], turn.request)
<1> HIDE DEF f
<1>2. Picks(f)
  BY <1>1, Zenon DEF f, Picks
<1> QED
  BY <1>2, Zenon DEF f

LEMMA ReadSelectionStep ==
  ASSUME PlanInv, ReadSelection
  PROVE  PlanInv'
<1>1. /\ turn \in Turns /\ turn' = turn /\ omitted' = omitted /\ at = "selecting" /\ turn.entry = "turn"
      /\ error = "" /\ turn.routing = "none" /\ ReadAs(decision)
  BY DEF ReadSelection, PlanInv, PlanHolds
<1>2. /\ AskedOf(turn.request) /\ turn.request.registered \subseteq NamesOf(turn)
  BY <1>1, TurnFacts
<1>3. PICK picked \in ToolAnswers(decision.count) :
        Picks(NormalizeDecidedTurnFields(
                [decision EXCEPT !.tools = SelectedTools(picked)], turn.request))
  BY PickIs, Zenon
<1> DEFINE names == SelectedTools(picked)
           f == NormalizeDecidedTurnFields([decision EXCEPT !.tools = names], turn.request)
<1>4. \/ IsInvalid(f) /\ Refuse(f.question)
      \/ ~IsInvalid(f) /\ ~WantsWords(f) /\ Decided(NormalizeTurnWords(f))
      \/ Refuse("unavailable")
      \/ ~IsInvalid(f) /\ at' = "wording" /\ decision' = f /\ UNCHANGED error
  BY <1>3 DEF Picks
<1> HIDE DEF names
<1>5. CASE IsInvalid(f) /\ Refuse(f.question)
  <2> DEFINE x == [decision EXCEPT !.tools = names]
  <2>1. decision \in Decisions({}, {})
    BY <1>1 DEF ReadAs
  <2>2. x \in Decisions(names, {})
    BY <2>1 DEF Decisions
  <2> HIDE DEF x
  <2>3. f = NormalizeDecidedTurnFields(x, turn.request)
    BY DEF x
  <2>4. f.question \in Faults
    BY <1>2, <1>5, <2>2, <2>3, FieldsAre
  <2> HIDE DEF f
  <2> QED
    BY <1>1, <1>5, <2>4, FaultsAreNamed DEF Refuse, PlanInv, PlanHolds
<1>6. ASSUME ~IsInvalid(f)
      PROVE  Proposed(f, turn.request) /\ f \in Decisions(NamesOf(turn), HintsOf(turn))
  <2>1. /\ Proposed(f, turn.request)
        /\ \A N, H : turn.request.registered \subseteq N => f \in Decisions(N, H)
    BY <1>1, <1>2, <1>6, ProposedIs
  <2> HIDE DEF f
  <2> QED
    BY <1>2, <2>1
<1> HIDE DEF f
<1>7. CASE ~IsInvalid(f) /\ ~WantsWords(f) /\ Decided(NormalizeTurnWords(f))
  <2>1. ~IsClarificationReview(f)
    BY <1>7 DEF WantsWords
  <2>2. Asks(f)
    BY <2>1, <1>6, <1>7 DEF Asks, Proposed
  <2>3. SameWork(f, f)
    BY DEF SameWork
  <2> DEFINE g == NormalizeTurnWords(f)
  <2>4. g \in Decisions(NamesOf(turn), HintsOf(turn)) /\ TogetherAs(g, turn.request)
    BY <1>2, <1>6, <1>7, <2>2, <2>3, TogetherIs
  <2> HIDE DEF g
  <2>5. EndsWith(turn, g)
    BY <1>1, <2>4 DEF EndsWith
  <2>6. Decided(g)
    BY <1>7 DEF g
  <2> QED
    BY <1>1, <2>5, <2>6 DEF Decided, PlanInv, PlanHolds
<1>8. CASE Refuse("unavailable")
  BY <1>1, <1>8 DEF Refuse, PlanInv, PlanHolds
<1>9. CASE ~IsInvalid(f) /\ at' = "wording" /\ decision' = f /\ UNCHANGED error
  BY <1>1, <1>6, <1>9 DEF PlanInv, PlanHolds
<1> QED
  BY <1>4, <1>5, <1>7, <1>8, <1>9

LEMMA ReadNeedStep ==
  ASSUME PlanInv, ReadNeed
  PROVE  PlanInv'
<1>1. /\ turn \in Turns /\ turn' = turn /\ omitted' = omitted /\ turn.entry # "turn"
      /\ error = "" /\ at' = "done"
  BY DEF ReadNeed, PlanInv, PlanHolds, Refuse, Decided
<1>2. \/ error' = error
      \/ error' = FirstCallError /\ FirstCallError # ""
  BY Zenon DEF ReadNeed, Refuse, Decided
<1>3. FirstCallError # "unanswered"
  BY FirstCallErrorIs
<1> QED
  BY <1>1, <1>2, <1>3 DEF PlanInv, PlanHolds

\* The answers that are read, out of what each question was answered.
AnswersOf(asked, skipped, chosen, relation, count, shape, kind, prior, formats) ==
  [q \in asked \ skipped |->
     CASE q = "work" -> chosen [] q = "relation" -> relation
       [] q = "count" -> count [] q = "shape" -> shape
       [] q = "kind" -> kind [] q = "prior_task" -> prior
       [] q = "formats" -> formats [] OTHER -> "yes"]
AnswersMayBe(asked, skipped, chosen, relation, count, shape, kind, prior, formats) ==
  /\ "work" \in asked => chosen \in AnswersTo("work")
  /\ "relation" \in asked => relation \in AnswersTo("relation")
  /\ "count" \in asked => count \in AnswersTo("count")
  /\ "shape" \in asked => shape \in AnswersTo("shape")
  /\ "kind" \in asked => kind \in AnswersTo("kind")
  /\ "prior_task" \in asked => prior \in AnswersTo("prior_task")
  /\ "formats" \in asked => formats \in AnswersTo("formats")
  /\ skipped \subseteq asked

\* What reading the answers comes to.
Reads(skipped, read, asks) ==
  /\ omitted' = (skipped # {}) /\ asks \in {Selection(read.count), <<>>}
  /\ IF IsInvalid(read) THEN Refuse(read.question) /\ UNCHANGED <<calls, failed>>
     ELSE /\ at' = "selecting" /\ decision' = read
          /\ calls' = Requests(asks) /\ failed' = FALSE
          /\ UNCHANGED error

LEMMA ReadingIs ==
  ASSUME ReadDecisions
  PROVE  \/ /\ FirstCallError # "" /\ Refuse(FirstCallError)
            /\ UNCHANGED <<calls, failed, omitted>>
         \/ \E skipped, answers, asks :
              /\ AnswersFit(answers) /\ DOMAIN answers = RouterQuestions(turn.request) \ skipped
              /\ Reads(skipped, ReadTurnFields(turn.request, answers), asks)
<1> DEFINE asked == RouterQuestions(turn.request)
           Skipped == {{}} \union {{question} : question \in asked}
           Answers(q) == IF q \in asked THEN AnswersTo(q) ELSE {"unasked"}
<1>1. CASE FirstCallError # ""
  BY <1>1 DEF ReadDecisions
<1>2. CASE FirstCallError = ""
  <2>1. PICK skipped \in Skipped,
             chosen \in Answers("work"), relation \in Answers("relation"),
             count \in Answers("count"), shape \in Answers("shape"),
             kind \in Answers("kind"), prior \in Answers("prior_task"),
             formats \in Answers("formats") :
           LET answers == [q \in asked \ skipped |->
                             CASE q = "work" -> chosen [] q = "relation" -> relation
                               [] q = "count" -> count [] q = "shape" -> shape
                               [] q = "kind" -> kind [] q = "prior_task" -> prior
                               [] q = "formats" -> formats [] OTHER -> "yes"]
               read == ReadTurnFields(turn.request, answers)
               asks == IF StartsWork(Canonical(read)) THEN Selection(read.count) ELSE <<>>
           IN  /\ omitted' = (skipped # {})
               /\ IF IsInvalid(read) THEN Refuse(read.question) /\ UNCHANGED <<calls, failed>>
                  ELSE /\ at' = "selecting" /\ decision' = read
                       /\ calls' = Requests(asks) /\ failed' = FALSE
                       /\ UNCHANGED error
    BY <1>2, Zenon DEF ReadDecisions
  <2> DEFINE answers == AnswersOf(asked, skipped, chosen, relation, count, shape, kind, prior, formats)
             read == ReadTurnFields(turn.request, answers)
             asks == IF StartsWork(Canonical(read)) THEN Selection(read.count) ELSE <<>>
  <2>2. Reads(skipped, read, asks)
    <3>1. /\ omitted' = (skipped # {})
          /\ IF IsInvalid(read) THEN Refuse(read.question) /\ UNCHANGED <<calls, failed>>
             ELSE /\ at' = "selecting" /\ decision' = read
                  /\ calls' = Requests(asks) /\ failed' = FALSE
                  /\ UNCHANGED error
      BY <2>1, Zenon DEF AnswersOf
    <3> HIDE DEF read
    <3>2. asks \in {Selection(read.count), <<>>}
      OBVIOUS
    <3> HIDE DEF asks
    <3> QED
      BY <3>1, <3>2, Zenon DEF Reads
  <2> HIDE DEF asks
  <2>3. AnswersMayBe(asked, skipped, chosen, relation, count, shape, kind, prior, formats)
    <3>1. skipped \subseteq asked
      OBVIOUS
    <3> QED
      BY <3>1, Zenon DEF AnswersMayBe
  <2> HIDE DEF asked, Skipped, Answers
  <2>4. AnswersFit(answers) /\ DOMAIN answers = asked \ skipped
    <3>1. DOMAIN answers = asked \ skipped
      BY DEF AnswersOf
    <3>2. /\ "work" \in DOMAIN answers => answers["work"] = chosen
          /\ "relation" \in DOMAIN answers => answers["relation"] = relation
          /\ "count" \in DOMAIN answers => answers["count"] = count
          /\ "shape" \in DOMAIN answers => answers["shape"] = shape
          /\ "kind" \in DOMAIN answers => answers["kind"] = kind
          /\ "prior_task" \in DOMAIN answers => answers["prior_task"] = prior
      BY DEF AnswersOf
    <3>3. /\ "work" \in asked => chosen \in [lean : {"none", "impossible", "unclear", "work", "unknown"}, size : Sizes]
          /\ "relation" \in asked => relation \in WorkRoutes
          /\ "count" \in asked => count \in {"one", "several"}
          /\ "shape" \in asked => shape \in Shapes \ {"immediate_reply"}
          /\ "kind" \in asked => kind \in Kinds
          /\ "prior_task" \in asked => prior \in {"none", "outcome_recovery"}
      BY <2>3 DEF AnswersTo, AnswersMayBe
    <3> HIDE DEF answers
    <3>4. "work" \in DOMAIN answers =>
            /\ answers["work"].lean \in {"none", "impossible", "unclear", "work", "unknown"}
            /\ answers["work"].size \in Sizes
      BY <3>1, <3>2, <3>3
    <3> QED
      BY <3>1, <3>2, <3>3, <3>4 DEF AnswersFit
  <2> HIDE DEF answers
  <2> QED
    BY <2>2, <2>4, Zenon DEF asked
<1> QED
  BY <1>1, <1>2

LEMMA ReadDecisionsStep ==
  ASSUME PlanInv, ReadDecisions
  PROVE  PlanInv'
<1> DEFINE asked == RouterQuestions(turn.request)
<1>1. /\ turn \in Turns /\ turn' = turn /\ at = "deciding" /\ turn.entry = "turn"
      /\ error = "" /\ turn.routing = "none"
  BY DEF ReadDecisions, PlanInv, PlanHolds
<1>2. AskedWell(turn.request)
  BY <1>1, TurnFacts
<1>3. CASE Refuse(FirstCallError) /\ FirstCallError # "" /\ UNCHANGED omitted
  BY <1>1, <1>3, FirstCallErrorIs DEF Refuse, PlanInv, PlanHolds
<1>4. ASSUME NEW skipped, NEW answers, NEW asks, AnswersFit(answers), DOMAIN answers = asked \ skipped,
             Reads(skipped, ReadTurnFields(turn.request, answers), asks)
      PROVE  PlanInv'
  <2> DEFINE read == ReadTurnFields(turn.request, answers)
  <2>2. /\ omitted' = (skipped # {})
        /\ IF IsInvalid(read) THEN Refuse(read.question)
           ELSE at' = "selecting" /\ decision' = read /\ UNCHANGED error
    BY <1>4, Zenon DEF Reads
  <2>5. /\ ~IsInvalid(read) => ReadAs(read)
        /\ IsInvalid(read) => read.question \in {"unknown", "unanswered"}
        /\ asked \subseteq DOMAIN answers /\ IsInvalid(read) => read.question # "unanswered"
    BY <1>2, <1>4, ReadIs
  <2> HIDE DEF read
  <2>6. CASE IsInvalid(read)
    <3>1. at' = "done" /\ error' = read.question
      BY <2>2, <2>6 DEF Refuse
    <3>2. ASSUME read.question = "unanswered" PROVE omitted'
      <4>1. skipped # {}
        BY <1>4, <2>5, <2>6, <3>2
      <4> QED
        BY <2>2, <4>1, Zenon
    <3>3. error' # ""
      BY <2>5, <2>6, <3>1
    <3> QED
      BY <1>1, <3>1, <3>2, <3>3 DEF PlanInv, PlanHolds
  <2>7. CASE ~IsInvalid(read)
    <3>1. at' = "selecting" /\ decision' = read /\ error' = ""
      BY <1>1, <2>2, <2>7
    <3> QED
      BY <1>1, <2>5, <2>7, <3>1 DEF PlanInv, PlanHolds
  <2> QED
    BY <2>6, <2>7
<1> QED
  BY <1>3, <1>4, ReadingIs, Zenon

LEMMA WordsStep ==
  ASSUME PlanInv, WordsArrive \/ WordsMalformed \/ WordsCut \/ WordsFail
  PROVE  PlanInv'
<1>1. /\ turn \in Turns /\ turn' = turn /\ omitted' = omitted /\ at = "wording" /\ turn.entry = "turn"
      /\ error = "" /\ turn.routing = "none"
      /\ decision \in Decisions(NamesOf(turn), HintsOf(turn)) /\ Proposed(decision, turn.request)
  BY DEF WordsArrive, WordsMalformed, WordsCut, WordsFail, PlanInv, PlanHolds
<1>2. AskedOf(turn.request) /\ WordSets \subseteq TurnWords(HintsOf(turn))
  BY <1>1, TurnFacts
<1>3. ASSUME NEW d, d \in Decisions(NamesOf(turn), HintsOf(turn)), TogetherAs(d, turn.request), Decided(d)
      PROVE  PlanInv'
  <2>1. EndsWith(turn, d)
    BY <1>1, <1>3 DEF EndsWith
  <2> QED
    BY <1>1, <1>3, <2>1 DEF Decided, PlanInv, PlanHolds
<1>4. CASE WordsArrive
  <2>1. PICK written \in WordSets :
          /\ WordsAreValid(decision, written)
          /\ LET worded == WithTurnWords(decision, written)
                 starts == /\ IsClarificationReview(decision)
                           /\ written.disposition = "start_work"
             IN  Decided(NormalizeTurnWords(IF starts THEN StartClarifiedWork(worded) ELSE worded))
    BY <1>4, Zenon DEF WordsArrive
  <2> DEFINE worded == WithTurnWords(decision, written)
             starts == IsClarificationReview(decision) /\ written.disposition = "start_work"
             f == NormalizeTurnWords(IF starts THEN StartClarifiedWork(worded) ELSE worded)
  <2>2. f \in Decisions(NamesOf(turn), HintsOf(turn)) /\ TogetherAs(f, turn.request)
    BY <1>1, <1>2, <2>1, ArriveIs
  <2>3. Decided(f)
    BY <2>1
  <2> HIDE DEF f
  <2> QED
    BY <1>3, <2>2, <2>3
<1>5. CASE WordsMalformed
  <2>1. \/ UNCHANGED <<at, decision, error>>
        \/ Decided(HandToAgentLoop(decision))
        \/ Refuse("malformed")
    BY <1>5, Zenon DEF WordsMalformed
  <2>2. CASE UNCHANGED <<at, decision, error>>
    BY <1>1, <2>2 DEF PlanInv, PlanHolds
  <2>3. CASE Decided(HandToAgentLoop(decision))
    BY <1>1, <1>2, <1>3, <2>3, HandedIs
  <2>4. CASE Refuse("malformed")
    BY <1>1, <2>4 DEF Refuse, PlanInv, PlanHolds
  <2> QED
    BY <2>1, <2>2, <2>3, <2>4
<1>6. CASE WordsCut
  BY <1>1, <1>6 DEF WordsCut, PlanInv, PlanHolds
<1>7. CASE WordsFail
  <2>1. Refuse("failed") \/ Refuse("cancelled")
    BY <1>7 DEF WordsFail
  <2> QED
    BY <1>1, <2>1 DEF Refuse, PlanInv, PlanHolds
<1> QED
  BY <1>4, <1>5, <1>6, <1>7

LEMMA PlanningStep ==
  ASSUME PlanInv, IntakeNext
  PROVE  PlanInv'
<1>1. ASSUME UNCHANGED <<turn, at, decision, error, omitted>> PROVE PlanInv'
  BY <1>1, Zenon DEF PlanInv
<1>2. CASE \E i \in DOMAIN calls : Send(i) \/ Answer(i) \/ Fail(i) \/ Abandon(i) \/ Cut(i)
  BY <1>1, <1>2 DEF Send, Answer, Fail, Abandon, Cut
<1>3. CASE CallerLeaves
  BY <1>1, <1>3 DEF CallerLeaves
<1> QED
  BY <1>2, <1>3, PlanStep, PlanNeedStep, ReadDecisionsStep, ReadSelectionStep, ReadNeedStep, WordsStep
     DEF IntakeNext

LEMMA PlanInit == ASSUME IntakeInit PROVE PlanInv
BY DEF IntakeInit, PlanInv, PlanHolds

LEMMA PlanTaskStep ==
  ASSUME PlanInv, [TaskNext]_allVars
  PROVE  PlanInv'
<1>1. CASE PlanIt
  BY <1>1, PlanningStep DEF PlanIt
<1>2. CASE MessageArrives
  <2>1. turn' \in Turns /\ turn'.entry = "turn" /\ at' = "plan" /\ error' = ""
    BY <1>2, TaskAssumption DEF MessageArrives
  <2> QED
    BY <2>1 DEF PlanInv, PlanHolds
<1>3. CASE UNCHANGED intakeVars
  <2>1. UNCHANGED <<turn, at, decision, error, omitted>>
    BY <1>3 DEF intakeVars
  <2> QED
    BY <2>1, Zenon DEF PlanInv
<1> QED
  BY <1>1, <1>2, <1>3 DEF TaskNext, TakeUp, TurnEnds, Crash, ResumeTask, allVars

-----------------------------------------------------------------------------
(* Planning, for every turn *)

\* Planning goes on as it should, whatever is asked and answered (PlanObserved and its
\* steps, under a task's messages).
THEOREM PlanningInvariant == TaskSpec => []PlanInv
<1>1. TaskInit => PlanInv
  BY PlanInit DEF TaskInit
<1>2. PlanInv /\ [TaskNext]_allVars => PlanInv'
  BY PlanTaskStep
<1> QED
  BY <1>1, <1>2, PTL DEF TaskSpec

\* The decision is read from what was asked, and a decision handed on agrees with
\* itself: normalising it again changes nothing, a clarification carries its
\* question, a fallback ends in work, and work is what is bounded
\* (readTurnFields, normalizeTurnDecision, handTurnToAgentLoop).
THEOREM DecisionHoldsAlways == TaskSpec => []DecisionHolds
<1>1. PlanInv => DecisionHolds
  <2> SUFFICES ASSUME PlanInv PROVE DecisionHolds
    OBVIOUS
  <2>1. AsksWhatItReads
    BY DEF PlanInv, PlanHolds, AsksWhatItReads
  <2>2. ASSUME at = "done", error = "", turn.entry = "turn", turn.routing # "exact"
        PROVE  LET said == IF turn.routing = "none" THEN [decision EXCEPT !.results = <<>>] ELSE decision
               IN  /\ NormalizeTurnDecision(said, turn.request) = said
                   /\ turn.routing = "none" =>
                         /\ decision.fallback => StartsWork(decision)
                         /\ StartsWork(decision) <=> decision.class = "bounded_task"
                         /\ IsClarificationReview(decision) => decision.question # ""
    <3>1. turn \in Turns /\ EndsWith(turn, decision)
      BY <2>2 DEF PlanInv, PlanHolds
    <3>2. turn.routing \in {"given", "none"}
      BY <2>2, <3>1, TurnFacts
    <3>3. CASE turn.routing = "given"
      BY <3>1, <3>3 DEF EndsWith
    <3>4. CASE turn.routing = "none"
      BY <3>1, <3>4 DEF EndsWith, TogetherAs, Asks
    <3> QED
      BY <3>2, <3>3, <3>4
  <2> QED
    BY <2>1, <2>2, Zenon DEF DecisionHolds, DecisionHoldsTogether
<1> QED
  BY <1>1, PlanningInvariant, PTL

-----------------------------------------------------------------------------
(* What loops come to *)

\* The states of a loop of n rounds, before the first and after each.
IsLoop(f, X, base, n, step) ==
  f \in [0 .. n -> X] /\ f[0] = base /\ \A k \in 1 .. n : f[k] = step[<<f[k - 1], k>>]

LEMMA RoundsExist ==
  ASSUME NEW X, NEW base \in X, NEW n \in Nat, NEW step \in [X \X (1 .. n) -> X]
  PROVE  \E f : IsLoop(f, X, base, n, step)
<1> DEFINE Rounds(f, m) == f[0] = base /\ \A k \in 1 .. m : f[k] = step[<<f[k - 1], k>>]
           Bad == {m \in 0 .. n : ~\E f \in [0 .. m -> X] : Rounds(f, m)}
<1>1. SUFFICES ASSUME Bad # {} PROVE FALSE
  <2>1. n \in 0 .. n
    OBVIOUS
  <2> QED
    BY <2>1 DEF IsLoop
<1>2. PICK m \in Bad : \A k \in Bad : m <= k
  <2>1. Bad \subseteq Nat
    OBVIOUS
  <2> HIDE DEF Bad
  <2> QED
    BY <1>1, <2>1, LeastExists
<1>3. m # 0
  <2> SUFFICES ASSUME m = 0 PROVE FALSE
    OBVIOUS
  <2> DEFINE f == [k \in 0 .. 0 |-> base]
  <2>1. f \in [0 .. m -> X] /\ f[0] = base /\ 1 .. m = {}
    OBVIOUS
  <2> HIDE DEF f
  <2> QED
    BY <1>2, <2>1
<1>4. m \in 1 .. n /\ m - 1 \in 0 .. n /\ m - 1 \notin Bad
  <2>1. m \in 0 .. n
    OBVIOUS
  <2>2. m \in 1 .. n /\ m - 1 \in 0 .. n /\ ~(m <= m - 1)
    BY <1>3, <2>1
  <2> HIDE DEF Bad
  <2> QED
    BY <1>2, <2>2
<1>5. PICK f \in [0 .. (m - 1) -> X] : Rounds(f, m - 1)
  BY <1>4
<1> DEFINE g == [k \in 0 .. m |-> IF k = m THEN step[<<f[m - 1], m>>] ELSE f[k]]
<1>6. g \in [0 .. m -> X]
  <2>1. m - 1 \in 0 .. (m - 1) /\ f[m - 1] \in X
    BY <1>4
  <2>2. step[<<f[m - 1], m>>] \in X
    BY <1>4, <2>1
  <2>3. \A k \in 0 .. m : k # m => k \in 0 .. (m - 1)
    BY <1>4
  <2> QED
    BY <2>2, <2>3
<1>7. Rounds(g, m)
  <2>1. g[0] = f[0] /\ f[0] = base
    BY <1>4, <1>5
  <2>2. ASSUME NEW k \in 1 .. m PROVE g[k] = step[<<g[k - 1], k>>]
    <3>1. k - 1 \in 0 .. (m - 1) /\ k \in 0 .. m /\ k - 1 # m /\ k - 1 \in 0 .. m
      BY <1>4
    <3>2. g[k - 1] = f[k - 1]
      BY <3>1
    <3>3. CASE k = m
      BY <3>1, <3>2, <3>3
    <3>4. CASE k # m
      <4>1. k \in 1 .. (m - 1)
        BY <1>4, <3>4
      <4> QED
        BY <1>5, <3>1, <3>2, <3>4, <4>1
    <3> QED
      BY <3>3, <3>4
  <2> HIDE DEF g
  <2> QED
    BY <2>1, <2>2
<1> HIDE DEF g, Rounds
<1> QED
  BY <1>6, <1>7

\* A set of numbers that is bounded has a greatest.
LEMMA GreatestExists ==
  ASSUME NEW n \in Nat, NEW S, S \subseteq 0 .. n, S # {}
  PROVE  \E m \in S : \A k \in S : k <= m
<1> DEFINE Rest == {n - k : k \in S}
<1>1. Rest \subseteq Nat /\ Rest # {}
  <2>1. \A k \in S : n - k \in Nat
    OBVIOUS
  <2>2. PICK k \in S : TRUE
    OBVIOUS
  <2> QED
    BY <2>1, <2>2
<1>2. PICK r \in Rest : \A k \in Rest : r <= k
  <2> HIDE DEF Rest
  <2> QED
    BY <1>1, LeastExists
<1>3. PICK m \in S : r = n - m
  OBVIOUS
<1>4. ASSUME NEW k \in S PROVE k <= m
  <2>1. n - m <= n - k /\ m \in 0 .. n /\ k \in 0 .. n
    BY <1>2, <1>3
  <2> QED
    BY <2>1
<1> QED
  BY <1>4

LEMMA MinIs ==
  ASSUME NEW S, S \subseteq Nat, S # {}
  PROVE  Min(S) \in S /\ \A k \in S : Min(S) <= k
BY LeastExists DEF Min

-----------------------------------------------------------------------------
(* Sorting *)

\* Pairs that put the members of a set in one order.
Orders(set, before) ==
  /\ \A x \in set : <<x, x>> \notin before
  /\ \A x, y, z \in set : <<x, y>> \in before /\ <<y, z>> \in before => <<x, z>> \in before
  /\ \A x, y \in set : x # y => <<x, y>> \in before \/ <<y, x>> \in before

\* Where a member stands.
PlaceIn(set, before, x) == Cardinality({y \in set : <<y, x>> \in before}) + 1

LEMMA PlacesApart ==
  ASSUME NEW S, IsFiniteSet(S), NEW B, Orders(S, B)
  PROVE  /\ Cardinality(S) \in Nat
         /\ \A x \in S : PlaceIn(S, B, x) \in 1 .. Cardinality(S)
         /\ \A x, y \in S : PlaceIn(S, B, x) = PlaceIn(S, B, y) => x = y
<1> DEFINE Below(x) == {y \in S : <<y, x>> \in B}
<1>1. Cardinality(S) \in Nat
  BY FS_CardinalityType
<1>2. ASSUME NEW x \in S
      PROVE  IsFiniteSet(Below(x)) /\ Cardinality(Below(x)) \in Nat /\ Cardinality(Below(x)) < Cardinality(S)
  <2>1. Below(x) \in SUBSET (S \ {x})
    BY DEF Orders
  <2>2. IsFiniteSet(S \ {x}) /\ Cardinality(S \ {x}) = Cardinality(S) - 1
    BY FS_RemoveElement
  <2> HIDE DEF Below
  <2>3. IsFiniteSet(Below(x)) /\ Cardinality(Below(x)) <= Cardinality(S \ {x})
    BY <2>1, <2>2, FS_Subset
  <2>4. Cardinality(Below(x)) \in Nat
    BY <2>3, FS_CardinalityType
  <2> QED
    BY <1>1, <2>2, <2>3, <2>4
<1>3. ASSUME NEW x \in S, NEW y \in S, <<x, y>> \in B
      PROVE  Cardinality(Below(x)) < Cardinality(Below(y))
  <2>1. Below(x) \in SUBSET (Below(y) \ {x}) /\ x \in Below(y)
    BY <1>3 DEF Orders
  <2>2. /\ IsFiniteSet(Below(y)) /\ Cardinality(Below(y)) \in Nat
        /\ IsFiniteSet(Below(x)) /\ Cardinality(Below(x)) \in Nat
    BY <1>2
  <2> HIDE DEF Below
  <2>3. IsFiniteSet(Below(y) \ {x}) /\ Cardinality(Below(y) \ {x}) = Cardinality(Below(y)) - 1
    BY <2>1, <2>2, FS_RemoveElement
  <2>4. Cardinality(Below(x)) <= Cardinality(Below(y) \ {x})
    BY <2>1, <2>3, FS_Subset
  <2> QED
    BY <2>2, <2>3, <2>4
<1>4. \A x \in S : PlaceIn(S, B, x) = Cardinality(Below(x)) + 1
  BY DEF PlaceIn
<1> HIDE DEF Below
<1>5. \A x \in S : PlaceIn(S, B, x) \in 1 .. Cardinality(S)
  BY <1>1, <1>2, <1>4
<1>6. ASSUME NEW x \in S, NEW y \in S, PlaceIn(S, B, x) = PlaceIn(S, B, y), x # y
      PROVE  FALSE
  <2>1. <<x, y>> \in B \/ <<y, x>> \in B
    BY <1>6 DEF Orders
  <2>2. Cardinality(Below(x)) \in Nat /\ Cardinality(Below(y)) \in Nat
    BY <1>2
  <2> QED
    BY <1>3, <1>4, <1>6, <2>1, <2>2
<1> QED
  BY <1>1, <1>5, <1>6

\* A sequence with every member of a set at one place.
Lists(s, set) ==
  /\ s \in [1 .. Cardinality(set) -> set]
  /\ \A x \in set : \E k \in 1 .. Cardinality(set) : s[k] = x
  /\ \A j, k \in 1 .. Cardinality(set) : s[j] = s[k] => j = k

\* Sorting leaves each once.
LEMMA InOrderLists ==
  ASSUME NEW S, IsFiniteSet(S), NEW B, Orders(S, B)
  PROVE  Cardinality(S) \in Nat /\ Lists(InOrder(S, B), S)
<1> DEFINE C == Cardinality(S)
           p == [x \in S |-> PlaceIn(S, B, x)]
           o == InOrder(S, B)
<1>1. /\ C \in Nat
      /\ \A x \in S : PlaceIn(S, B, x) \in 1 .. C
      /\ \A x, y \in S : PlaceIn(S, B, x) = PlaceIn(S, B, y) => x = y
  BY PlacesApart
<1>2. p \in Injection(S, 1 .. C)
  BY <1>1 DEF Injection, IsInjective
<1>3. IsFiniteSet(1 .. C) /\ Cardinality(1 .. C) = C
  BY <1>1, FirstOnes, Zenon
<1>4. p \in Surjection(S, 1 .. C)
  <2> HIDE DEF p
  <2> QED
    BY <1>2, <1>3, FS_Injection, Zenon DEF C
<1>5. \A k \in 1 .. C : \E x \in S : PlaceIn(S, B, x) = k
  BY <1>4 DEF Surjection
<1>6. o = [k \in 1 .. C |-> CHOOSE x \in S : PlaceIn(S, B, x) = k]
  BY DEF InOrder, PlaceIn
<1> HIDE DEF o, C, p
<1>7. \A k \in 1 .. C : o[k] \in S /\ PlaceIn(S, B, o[k]) = k
  BY <1>5, <1>6
<1>8. o \in [1 .. C -> S]
  BY <1>6, <1>7
<1>9. \A x \in S : \E k \in 1 .. C : o[k] = x
  BY <1>1, <1>7
<1>10. \A j, k \in 1 .. C : o[j] = o[k] => j = k
  BY <1>7, Zenon
<1> QED
  BY <1>1, <1>8, <1>9, <1>10 DEF C, o, Lists

-----------------------------------------------------------------------------
(* Bytes *)

\* A catalog, as intake has it.
Catalogs == Seq([bytes : Nat, provider : Nat])

\* The bytes of some tools, one by one.
BytesIn(catalog, T) ==
  {b \in T \X Nat : 1 <= b[2] /\ b[2] <= catalog[b[1]].bytes}

LEMMA CatalogIs ==
  ASSUME NEW c \in Catalogs
  PROVE  /\ Len(c) \in Nat /\ DOMAIN c = 1 .. Len(c)
         /\ IsFiniteSet(DOMAIN c) /\ Cardinality(DOMAIN c) = Len(c)
         /\ \A t \in DOMAIN c : c[t].bytes \in Nat /\ c[t].provider \in Nat
         /\ \A T \in SUBSET (DOMAIN c) : IsFiniteSet(T) /\ Cardinality(T) \in Nat
<1> DEFINE Entries == [bytes : Nat, provider : Nat]
<1>1. /\ Len(c) \in Nat /\ DOMAIN c = 1 .. Len(c)
      /\ \A t \in DOMAIN c : c[t] \in Entries
  <2>1. c \in Seq(Entries)
    BY DEF Catalogs
  <2> HIDE DEF Entries
  <2> QED
    BY <2>1
<1>2. IsFiniteSet(1 .. Len(c)) /\ Cardinality(1 .. Len(c)) = Len(c)
  <2>1. IsFiniteSet(1 .. Len(c)) /\ Cardinality(1 .. Len(c)) = IF 1 > Len(c) THEN 0 ELSE Len(c) - 1 + 1
    <3>1. Len(c) \in Int /\ 1 \in Int
      BY <1>1
    <3> QED
      BY <3>1, FS_Interval, Zenon
  <2> QED
    BY <1>1, <2>1
<1>3. \A T \in SUBSET (DOMAIN c) : IsFiniteSet(T) /\ Cardinality(T) \in Nat
  BY <1>1, <1>2, FS_Subset, FS_CardinalityType
<1> QED
  BY <1>1, <1>2, <1>3

\* The bytes of one tool.
LEMMA BytesOfOne ==
  ASSUME NEW c \in Catalogs, NEW t \in DOMAIN c
  PROVE  IsFiniteSet(BytesIn(c, {t})) /\ Cardinality(BytesIn(c, {t})) = c[t].bytes
<1> DEFINE n == c[t].bytes
           f == [k \in 1 .. n |-> <<t, k>>]
<1>1. n \in Nat
  BY CatalogIs
<1> HIDE DEF n
<1>2. IsFiniteSet(1 .. n) /\ Cardinality(1 .. n) = n
  <2>1. IsFiniteSet(1 .. n) /\ Cardinality(1 .. n) = IF 1 > n THEN 0 ELSE n - 1 + 1
    <3>1. n \in Int /\ 1 \in Int
      BY <1>1
    <3> QED
      BY <3>1, FS_Interval, Zenon
  <2> QED
    BY <1>1, <2>1
<1>3. f \in Bijection(1 .. n, BytesIn(c, {t}))
  <2>1. \A k \in 1 .. n : f[k] \in BytesIn(c, {t})
    BY DEF BytesIn, n
  <2>2. \A b \in BytesIn(c, {t}) : b[2] \in 1 .. n /\ f[b[2]] = b
    BY <1>1 DEF BytesIn, n
  <2>3. \A j, k \in 1 .. n : f[j] = f[k] => j = k
    OBVIOUS
  <2>4. f \in [1 .. n -> BytesIn(c, {t})]
    BY <2>1
  <2> HIDE DEF f
  <2> QED
    BY <2>2, <2>3, <2>4 DEF Bijection, Injection, Surjection, IsInjective
<1> HIDE DEF f
<1>4. ExistsBijection(1 .. n, BytesIn(c, {t}))
  BY <1>3 DEF ExistsBijection
<1> QED
  BY <1>2, <1>4, FS_Bijection DEF n

\* The bytes of one tool more.
LEMMA BytesInOneMore ==
  ASSUME NEW c \in Catalogs, NEW T \in SUBSET (DOMAIN c), IsFiniteSet(BytesIn(c, T)),
         NEW t \in DOMAIN c, t \notin T
  PROVE  /\ IsFiniteSet(BytesIn(c, T \union {t}))
         /\ Cardinality(BytesIn(c, T \union {t})) = c[t].bytes + Cardinality(BytesIn(c, T))
<1> DEFINE A == BytesIn(c, {t})
           R == BytesIn(c, T)
<1>1. BytesIn(c, T \union {t}) = A \union R /\ A \intersect R = {}
  BY DEF BytesIn
<1>2. IsFiniteSet(A) /\ Cardinality(A) = c[t].bytes /\ c[t].bytes \in Nat
  BY BytesOfOne, CatalogIs
<1>3. IsFiniteSet(R) /\ Cardinality(R) \in Nat
  BY FS_CardinalityType
<1> HIDE DEF A, R
<1>4. IsFiniteSet(A \union R) /\ Cardinality(A \union R) = Cardinality(A) + Cardinality(R) - Cardinality({})
  BY <1>1, <1>2, <1>3, FS_Union
<1>5. Cardinality({}) = 0
  BY FS_EmptySet
<1>6. Cardinality(A \union R) = c[t].bytes + Cardinality(R)
  <2>1. Cardinality(A \union R) = c[t].bytes + Cardinality(R) - 0
    BY <1>2, <1>4, <1>5, Zenon
  <2> QED
    BY <1>2, <1>3, <2>1
<1> QED
  BY <1>1, <1>4, <1>6, Zenon DEF R

LEMMA BytesAreFinite ==
  ASSUME NEW c \in Catalogs, NEW T \in SUBSET (DOMAIN c)
  PROVE  IsFiniteSet(BytesIn(c, T)) /\ Cardinality(BytesIn(c, T)) \in Nat
<1> DEFINE One == {BytesIn(c, {t}) : t \in T}
<1>1. IsFiniteSet(T)
  BY CatalogIs
<1>2. IsFiniteSet(One)
  <2> DEFINE f == [t \in T |-> BytesIn(c, {t})]
  <2>1. f \in Surjection(T, One)
    BY DEF Surjection
  <2> HIDE DEF f, One
  <2> QED
    BY <1>1, <2>1, FS_Surjection
<1>3. \A S \in One : IsFiniteSet(S)
  BY BytesOfOne
<1>4. IsFiniteSet(UNION One)
  <2> HIDE DEF One
  <2> QED
    BY <1>2, <1>3, FS_UNION
<1>5. BytesIn(c, T) = UNION One
  BY DEF BytesIn
<1> HIDE DEF One
<1> QED
  BY <1>4, <1>5, FS_CardinalityType

\* What the code adds up over the tools is the number of their bytes.
LEMMA BytesAddUp ==
  ASSUME NEW c \in Catalogs, NEW T \in SUBSET (DOMAIN c)
  PROVE  BytesOf(c, T) = Cardinality(BytesIn(c, T))
<1> DEFINE some(s) == CHOOSE x \in s : TRUE
           Sum(h) == [s \in SUBSET T |-> IF s = {} THEN 0
                                          ELSE h[s \ {some(s)}] + c[some(s)].bytes]
           sum == CHOOSE h : h = Sum(h)
           count == [s \in SUBSET T |-> Cardinality(BytesIn(c, s))]
<1>1. BytesOf(c, T) = sum[T]
  BY DEF BytesOf, FoldSet, MapThenFoldSet
<1> HIDE DEF some
<1>2. \A s : s # {} => some(s) \in s
  BY DEF some
<1>3. count = Sum(count)
  <2>1. ASSUME NEW s \in SUBSET T, s # {}
        PROVE  count[s] = count[s \ {some(s)}] + c[some(s)].bytes
    <3> DEFINE x == some(s)
               r == s \ {x}
    <3>1. x \in s /\ r \in SUBSET T /\ x \notin r /\ s = r \union {x}
      BY <1>2, <2>1
    <3> HIDE DEF x, r
    <3>2. IsFiniteSet(BytesIn(c, r)) /\ Cardinality(BytesIn(c, r)) \in Nat
      BY <3>1, BytesAreFinite
    <3>3. Cardinality(BytesIn(c, r \union {x})) = c[x].bytes + Cardinality(BytesIn(c, r))
      BY <3>1, <3>2, BytesInOneMore
    <3>4. c[x].bytes \in Nat
      BY <3>1, CatalogIs
    <3>5. count[s] = Cardinality(BytesIn(c, r \union {x})) /\ count[r] = Cardinality(BytesIn(c, r))
      BY <3>1
    <3> HIDE DEF count
    <3>6. count[s] = count[r] + c[x].bytes
      BY <3>2, <3>3, <3>4, <3>5
    <3> QED
      BY <3>6 DEF r, x
  <2>2. count[{}] = 0
    <3>1. BytesIn(c, {}) = {}
      BY DEF BytesIn
    <3>2. count[{}] = Cardinality(BytesIn(c, {}))
      OBVIOUS
    <3> QED
      BY <3>1, <3>2, FS_EmptySet
  <2>3. count = [s \in SUBSET T |-> count[s]]
    OBVIOUS
  <2> HIDE DEF count
  <2> QED
    BY <2>1, <2>2, <2>3
<1> HIDE DEF count
<1>4. sum = Sum(sum)
  BY <1>3, Zenon
<1> HIDE DEF sum
<1>5. \A s \in SUBSET T : /\ s = {} => sum[s] = 0
                          /\ s # {} => sum[s] = sum[s \ {some(s)}] + c[some(s)].bytes
  BY <1>4
<1>6. \A s \in SUBSET T : /\ s = {} => count[s] = 0
                          /\ s # {} => count[s] = count[s \ {some(s)}] + c[some(s)].bytes
  BY <1>3
<1>7. \A s \in SUBSET T : IsFiniteSet(s) /\ Cardinality(s) \in Nat
  BY CatalogIs
<1> DEFINE Wrong == {s \in SUBSET T : sum[s] # count[s]}
           Counts == {Cardinality(s) : s \in Wrong}
<1>8. Wrong = {}
  <2> SUFFICES ASSUME Wrong # {} PROVE FALSE
    OBVIOUS
  <2>1. Counts \subseteq Nat /\ Counts # {}
    BY <1>7
  <2> HIDE DEF Counts
  <2>2. PICK n \in Counts : \A m \in Counts : n <= m
    BY <2>1, LeastExists
  <2> USE DEF Counts
  <2>3. PICK s \in Wrong : Cardinality(s) = n
    BY <2>2
  <2>4. s \in SUBSET T /\ s # {}
    BY <1>5, <1>6, <2>3
  <2> DEFINE x == some(s)
             r == s \ {x}
  <2>5. x \in s /\ r \in SUBSET T
    BY <1>2, <2>4
  <2>6. Cardinality(r) = Cardinality(s) - 1
    BY <1>7, <2>4, <2>5, FS_RemoveElement
  <2>7. r \in Wrong
    BY <1>5, <1>6, <2>3, <2>4, <2>5
  <2>8. n <= Cardinality(r)
    BY <2>2, <2>7
  <2>9. Cardinality(s) \in Nat
    BY <1>7, <2>4
  <2> HIDE DEF r, Wrong, Counts
  <2> QED
    BY <2>3, <2>6, <2>8, <2>9
<1>9. sum[T] = count[T] /\ count[T] = Cardinality(BytesIn(c, T))
  BY <1>8 DEF count
<1> QED
  BY <1>1, <1>9

\* Bytes add up; and of tools with so many bytes at most there are at most so
\* many times their number.
LEMMA BytesAre ==
  ASSUME NEW c \in Catalogs
  PROVE  /\ \A T \in SUBSET (DOMAIN c) : BytesOf(c, T) \in Nat
         /\ BytesOf(c, {}) = 0
         /\ \A t \in DOMAIN c : BytesOf(c, {t}) = c[t].bytes
         /\ \A T, U \in SUBSET (DOMAIN c) :
               T \intersect U = {} => BytesOf(c, T \union U) = BytesOf(c, T) + BytesOf(c, U)
         /\ \A T \in SUBSET (DOMAIN c), m \in Nat :
               (\A t \in T : c[t].bytes <= m) => BytesOf(c, T) <= Cardinality(T) * m
<1>1. \A T \in SUBSET (DOMAIN c) : /\ BytesOf(c, T) = Cardinality(BytesIn(c, T))
                                   /\ IsFiniteSet(BytesIn(c, T)) /\ Cardinality(BytesIn(c, T)) \in Nat
  BY BytesAddUp, BytesAreFinite
<1>2. BytesOf(c, {}) = 0
  <2>1. BytesIn(c, {}) = {}
    BY DEF BytesIn
  <2> QED
    BY <1>1, <2>1, FS_EmptySet
<1>3. \A t \in DOMAIN c : BytesOf(c, {t}) = c[t].bytes
  BY <1>1, BytesOfOne
<1>4. ASSUME NEW T \in SUBSET (DOMAIN c), NEW U \in SUBSET (DOMAIN c), T \intersect U = {}
      PROVE  BytesOf(c, T \union U) = BytesOf(c, T) + BytesOf(c, U)
  <2> DEFINE A == BytesIn(c, T)
             R == BytesIn(c, U)
  <2>1. BytesIn(c, T \union U) = A \union R /\ A \intersect R = {}
    BY <1>4 DEF BytesIn
  <2>2. /\ IsFiniteSet(A) /\ Cardinality(A) \in Nat /\ BytesOf(c, T) = Cardinality(A)
        /\ IsFiniteSet(R) /\ Cardinality(R) \in Nat /\ BytesOf(c, U) = Cardinality(R)
    BY <1>1
  <2>3. T \union U \in SUBSET (DOMAIN c)
    OBVIOUS
  <2>4. BytesOf(c, T \union U) = Cardinality(A \union R)
    BY <1>1, <2>1, <2>3
  <2> HIDE DEF A, R
  <2>5. Cardinality(A \union R) = Cardinality(A) + Cardinality(R) - Cardinality({})
    BY <2>1, <2>2, FS_Union
  <2>6. Cardinality({}) = 0
    BY FS_EmptySet
  <2> QED
    BY <2>2, <2>4, <2>5, <2>6
<1>5. ASSUME NEW T \in SUBSET (DOMAIN c), NEW m \in Nat, \A t \in T : c[t].bytes <= m
      PROVE  BytesOf(c, T) <= Cardinality(T) * m
  <2>1. IsFiniteSet(T)
    BY CatalogIs
  <2>2. IsFiniteSet(1 .. m) /\ Cardinality(1 .. m) = m
    <3>1. IsFiniteSet(1 .. m) /\ Cardinality(1 .. m) = IF 1 > m THEN 0 ELSE m - 1 + 1
      <4>1. m \in Int /\ 1 \in Int
        OBVIOUS
      <4> QED
        BY <4>1, FS_Interval, Zenon
    <3> QED
      BY <3>1
  <2>3. IsFiniteSet(T \X (1 .. m)) /\ Cardinality(T \X (1 .. m)) = Cardinality(T) * m
    BY <2>1, <2>2, FS_Product
  <2>4. BytesIn(c, T) \subseteq T \X (1 .. m)
    <3>1. \A t \in T : c[t].bytes \in Nat /\ c[t].bytes <= m
      BY <1>5, CatalogIs
    <3> QED
      BY <3>1 DEF BytesIn
  <2>5. Cardinality(BytesIn(c, T)) <= Cardinality(T \X (1 .. m))
    BY <2>3, <2>4, FS_Subset
  <2> QED
    BY <1>1, <2>3, <2>5
<1> QED
  BY <1>1, <1>2, <1>3, <1>4, <1>5

-----------------------------------------------------------------------------
(* Runs *)

\* Every member is in one part, and no part is empty.
Parts(parts, set) ==
  /\ \A p \in parts : p \subseteq set /\ p # {}
  /\ \A x \in set : \E p \in parts : x \in p
  /\ \A p, q \in parts : p # q => p \intersect q = {}

\* The tools of a run from its first to a last.
Stretch(T, from, to) == {t \in T : from <= t /\ t <= to}

\* The run after one more tool.
NextFirst(c, T, share, open, n) ==
  IF n \notin T \/ (open # 0 /\ BytesOf(c, Stretch(T, open, n)) <= share) THEN open ELSE n

LEMMA FirstExists ==
  ASSUME NEW c \in Catalogs, NEW T \in SUBSET (DOMAIN c), NEW share \in Nat
  PROVE  \E f : f = [n \in 0 .. Len(c) |-> IF n = 0 THEN 0 ELSE NextFirst(c, T, share, f[n - 1], n)]
<1> DEFINE N == Len(c)
           step == [place \in (0 .. N) \X (1 .. N) |-> NextFirst(c, T, share, place[1], place[2])]
<1>1. N \in Nat
  BY CatalogIs
<1> HIDE DEF N
<1>2. step \in [(0 .. N) \X (1 .. N) -> 0 .. N]
  BY <1>1 DEF NextFirst
<1>3. PICK f : IsLoop(f, 0 .. N, 0, N, step)
  <2> DEFINE X == 0 .. N
  <2>1. 0 \in X /\ step \in [X \X (1 .. N) -> X]
    BY <1>1, <1>2
  <2> HIDE DEF step, X
  <2>2. \E f : IsLoop(f, X, 0, N, step)
    BY <1>1, <2>1, RoundsExist, Zenon
  <2> QED
    BY <2>2 DEF X
<1> HIDE DEF step
<1>10. f \in [0 .. N -> 0 .. N] /\ f[0] = 0 /\ \A k \in 1 .. N : f[k] = step[<<f[k - 1], k>>]
  BY <1>3 DEF IsLoop
<1>4. ASSUME NEW k \in 1 .. N PROVE f[k] = NextFirst(c, T, share, f[k - 1], k)
  <2>1. k - 1 \in 0 .. N
    BY <1>1
  <2>2. <<f[k - 1], k>> \in (0 .. N) \X (1 .. N)
    BY <1>10, <2>1
  <2>3. step[<<f[k - 1], k>>] = NextFirst(c, T, share, f[k - 1], k)
    BY <2>2 DEF step
  <2> QED
    BY <1>10, <2>3
<1>5. f = [n \in 0 .. N |-> IF n = 0 THEN 0 ELSE NextFirst(c, T, share, f[n - 1], n)]
  <2> DEFINE g == [n \in 0 .. N |-> IF n = 0 THEN 0 ELSE NextFirst(c, T, share, f[n - 1], n)]
  <2>1. ASSUME NEW n \in 0 .. N PROVE f[n] = g[n]
    <3>1. CASE n = 0
      BY <1>10, <3>1
    <3>2. CASE n # 0
      <4>1. n \in 1 .. N
        BY <1>1, <3>2
      <4> QED
        BY <1>4, <3>2, <4>1
    <3> QED
      BY <3>1, <3>2
  <2>2. DOMAIN g = 0 .. N /\ g = [n \in 0 .. N |-> g[n]]
    OBVIOUS
  <2>3. f = [n \in 0 .. N |-> f[n]]
    BY <1>10
  <2> HIDE DEF g
  <2>4. f = g
    BY <2>1, <2>2, <2>3
  <2> QED
    BY <2>4 DEF g
<1> QED
  BY <1>5 DEF N

\* What is known of the open run after each tool.
OpenIs(c, T, share, f, n) ==
  /\ f[n] \in 0 .. n
  /\ f[n] = 0 => \A t \in T : ~(t <= n)
  /\ f[n] # 0 => /\ f[n] \in T
                 /\ \A t \in T : f[n] <= t /\ t <= n => f[t] = f[n]
                 /\ \/ Stretch(T, f[n], n) = {f[n]}
                    \/ BytesOf(c, Stretch(T, f[n], n)) <= share

LEMMA OpenHolds ==
  ASSUME NEW c \in Catalogs, NEW T \in SUBSET (DOMAIN c), NEW share \in Nat, NEW f,
         f = [n \in 0 .. Len(c) |-> IF n = 0 THEN 0 ELSE NextFirst(c, T, share, f[n - 1], n)]
  PROVE  \A n \in 0 .. Len(c) : OpenIs(c, T, share, f, n)
<1> DEFINE N == Len(c)
           Bad == {n \in 0 .. N : ~OpenIs(c, T, share, f, n)}
<1>1. N \in Nat /\ T \subseteq 1 .. N
  BY CatalogIs
<1>2. f[0] = 0 /\ \A n \in 1 .. N : f[n] = NextFirst(c, T, share, f[n - 1], n)
  BY <1>1
<1> HIDE DEF N
<1> SUFFICES ASSUME Bad # {} PROVE FALSE
  BY DEF N
<1>3. PICK m \in Bad : \A k \in Bad : m <= k
  <2>1. Bad \subseteq Nat
    OBVIOUS
  <2> HIDE DEF Bad
  <2> QED
    BY <2>1, LeastExists
<1>4. m \in 0 .. N /\ ~OpenIs(c, T, share, f, m)
  OBVIOUS
<1>5. m # 0
  BY <1>1, <1>2, <1>4 DEF OpenIs
<1>6. m \in 1 .. N /\ m \in Nat /\ m - 1 \in Nat /\ OpenIs(c, T, share, f, m - 1)
  <2>1. m \in 1 .. N /\ m \in Nat /\ m - 1 \in Nat /\ m - 1 \in 0 .. N /\ ~(m <= m - 1)
    BY <1>1, <1>4, <1>5
  <2> QED
    BY <1>3, <2>1
<1> DEFINE o == f[m - 1]
<1>7. f[m] = NextFirst(c, T, share, o, m)
  BY <1>2, <1>6
<1>8. /\ o \in 0 .. (m - 1) /\ o \in Nat
      /\ o = 0 => \A t \in T : ~(t <= m - 1)
      /\ o # 0 => /\ o \in T
                  /\ \A t \in T : o <= t /\ t <= m - 1 => f[t] = o
                  /\ \/ Stretch(T, o, m - 1) = {o}
                     \/ BytesOf(c, Stretch(T, o, m - 1)) <= share
  <2>1. /\ o \in 0 .. (m - 1)
        /\ o = 0 => \A t \in T : ~(t <= m - 1)
        /\ o # 0 => /\ o \in T
                    /\ \A t \in T : o <= t /\ t <= m - 1 => f[t] = o
                    /\ \/ Stretch(T, o, m - 1) = {o}
                       \/ BytesOf(c, Stretch(T, o, m - 1)) <= share
    BY <1>6, Zenon DEF OpenIs
  <2> HIDE DEF o
  <2>2. o \in Nat
    BY <1>6, <2>1
  <2> QED
    BY <2>1, <2>2, Zenon
<1> HIDE DEF o
<1>9. \A t \in T : t \in Nat /\ (t <= m <=> t <= m - 1 \/ t = m)
  BY <1>1, <1>6
<1>10. CASE m \notin T
  <2>1. f[m] = o /\ Stretch(T, o, m) = Stretch(T, o, m - 1)
    BY <1>7, <1>9, <1>10 DEF NextFirst, Stretch
  <2>2. o \in 0 .. m /\ (o = 0 => \A t \in T : ~(t <= m))
    BY <1>6, <1>8, <1>9, <1>10
  <2>3. o # 0 => \A t \in T : o <= t /\ t <= m => f[t] = o
    BY <1>8, <1>9, <1>10
  <2> QED
    BY <1>4, <1>8, <2>1, <2>2, <2>3, Zenon DEF OpenIs
<1>11. CASE m \in T /\ o # 0 /\ BytesOf(c, Stretch(T, o, m)) <= share
  <2>1. f[m] = o
    BY <1>7, <1>11 DEF NextFirst
  <2>2. o \in 0 .. m
    BY <1>6, <1>8
  <2>3. \A t \in T : o <= t /\ t <= m => f[t] = o
    BY <1>8, <1>9, <1>11, <2>1
  <2> QED
    BY <1>4, <1>8, <1>11, <2>1, <2>2, <2>3, Zenon DEF OpenIs
<1>12. CASE m \in T /\ ~(o # 0 /\ BytesOf(c, Stretch(T, o, m)) <= share)
  <2>1. f[m] = m
    BY <1>7, <1>12 DEF NextFirst
  <2>2. m \in 0 .. m /\ m # 0
    BY <1>6
  <2>3. \A t \in T : m <= t /\ t <= m => t = m
    BY <1>6, <1>9
  <2>4. Stretch(T, m, m) = {m}
    BY <1>6, <1>9, <1>12, <2>3 DEF Stretch
  <2> QED
    BY <1>4, <1>12, <2>1, <2>2, <2>3, <2>4, Zenon DEF OpenIs
<1> QED
  BY <1>10, <1>11, <1>12

\* A provider's tools are cut into runs within the share, or of one tool.
LEMMA ProviderRunsAre ==
  ASSUME NEW c \in Catalogs, NEW T \in SUBSET (DOMAIN c), NEW share \in Nat
  PROVE  /\ Parts(ProviderRuns(c, T, share), T)
         /\ \A r \in ProviderRuns(c, T, share) : BytesOf(c, r) <= share \/ \E t \in T : r = {t}
<1> DEFINE N == Len(c)
           Rule(h) == [n \in 0 .. N |-> IF n = 0 THEN 0 ELSE NextFirst(c, T, share, h[n - 1], n)]
           f == CHOOSE h : h = Rule(h)
           Run(t) == {q \in T : f[q] = f[t]}
<1>1. ProviderRuns(c, T, share) = {Run(t) : t \in T}
  BY DEF ProviderRuns, NextFirst, Stretch
<1>2. f = Rule(f)
  <2>1. \E h : h = Rule(h)
    BY FirstExists
  <2> QED
    BY <2>1, Zenon
<1> HIDE DEF f
<1>3. \A n \in 0 .. N : OpenIs(c, T, share, f, n)
  BY <1>2, OpenHolds
<1>4. N \in Nat /\ T \subseteq 1 .. N
  BY CatalogIs
<1> HIDE DEF N
<1>5. ASSUME NEW t \in T
      PROVE  /\ t \in 0 .. N /\ f[t] \in 0 .. t /\ f[t] # 0 /\ f[t] \in T
             /\ \A q \in T : f[t] <= q /\ q <= t => f[q] = f[t]
             /\ Stretch(T, f[t], t) = {f[t]} \/ BytesOf(c, Stretch(T, f[t], t)) <= share
  <2>1. t \in 0 .. N /\ t <= t
    BY <1>4
  <2> QED
    BY <1>3, <2>1 DEF OpenIs
<1>6. Parts({Run(t) : t \in T}, T)
  <2>1. \A t \in T : Run(t) \subseteq T /\ t \in Run(t)
    OBVIOUS
  <2>2. \A t, u \in T : Run(t) # Run(u) => Run(t) \intersect Run(u) = {}
    OBVIOUS
  <2> HIDE DEF Run
  <2> QED
    BY <2>1, <2>2 DEF Parts
<1>7. ASSUME NEW t \in T
      PROVE  BytesOf(c, Run(t)) <= share \/ \E q \in T : Run(t) = {q}
  <2>1. Run(t) \subseteq 0 .. N /\ Run(t) # {}
    BY <1>4
  <2>2. PICK m \in Run(t) : \A k \in Run(t) : k <= m
    <3> HIDE DEF Run
    <3> QED
      BY <1>4, <2>1, GreatestExists
  <2>3. m \in T /\ f[m] = f[t]
    OBVIOUS
  <2>4. Run(t) = Stretch(T, f[m], m)
    <3>1. ASSUME NEW q \in Run(t) PROVE q \in Stretch(T, f[m], m)
      <4>1. q \in T /\ f[q] = f[m] /\ q <= m
        BY <2>2, <2>3
      <4>2. f[q] \in 0 .. q /\ q \in Nat
        BY <1>5, <1>4, <4>1
      <4> QED
        BY <4>1, <4>2 DEF Stretch
    <3>2. ASSUME NEW q \in Stretch(T, f[m], m) PROVE q \in Run(t)
      <4>1. q \in T /\ f[m] <= q /\ q <= m
        BY DEF Stretch
      <4>2. f[q] = f[m]
        BY <1>5, <2>3, <4>1
      <4> QED
        BY <2>3, <4>1, <4>2
    <3> QED
      BY <3>1, <3>2
  <2>5. \/ Stretch(T, f[m], m) = {f[m]} /\ f[m] \in T
        \/ BytesOf(c, Stretch(T, f[m], m)) <= share
    BY <1>5, <2>3
  <2> HIDE DEF Run
  <2> QED
    BY <2>4, <2>5
<1> HIDE DEF Run
<1> QED
  BY <1>1, <1>6, <1>7

LEMMA PartsAreFew ==
  ASSUME NEW n \in Nat, NEW P, Parts(P, 1 .. n)
  PROVE  /\ IsFiniteSet(P) /\ Cardinality(P) \in Nat /\ Cardinality(P) <= n
         /\ \A p \in P : Min(p) \in p /\ Min(p) \in Nat
         /\ \A p, q \in P : Min(p) = Min(q) => p = q
<1>1. \A p \in P : p \subseteq 1 .. n /\ p \subseteq Nat /\ p # {}
  BY DEF Parts
<1>2. \A p \in P : Min(p) \in p /\ Min(p) \in Nat
  BY <1>1, MinIs
<1>3. ASSUME NEW p \in P, NEW q \in P, Min(p) = Min(q) PROVE p = q
  BY <1>2, <1>3 DEF Parts
<1> DEFINE f == [p \in P |-> Min(p)]
<1>4. f \in Injection(P, 1 .. n)
  BY <1>1, <1>2, <1>3 DEF Injection, IsInjective
<1>5. IsFiniteSet(1 .. n) /\ Cardinality(1 .. n) = n
  BY FirstOnes, Zenon
<1> HIDE DEF f
<1>6. IsFiniteSet(P) /\ Cardinality(P) <= n
  BY <1>4, <1>5, FS_Injection
<1>7. Cardinality(P) \in Nat
  BY <1>6, FS_CardinalityType
<1> QED
  BY <1>2, <1>3, <1>6, <1>7

LEMMA GroupsAre ==
  ASSUME NEW c \in Catalogs
  PROVE  Parts(Groups(c), DOMAIN c)
<1> DEFINE Group(t) == {o \in DOMAIN c : \/ o = t
                                         \/ /\ c[o].provider = c[t].provider
                                            /\ c[t].provider # 0}
<1>1. Groups(c) = {Group(t) : t \in DOMAIN c}
  BY DEF Groups
<1>2. \A t \in DOMAIN c : Group(t) \subseteq DOMAIN c /\ t \in Group(t)
  OBVIOUS
<1>3. ASSUME NEW t \in DOMAIN c, NEW u \in DOMAIN c, NEW o \in Group(t), o \in Group(u)
      PROVE  Group(t) = Group(u)
  BY <1>3
<1> HIDE DEF Group
<1> QED
  BY <1>1, <1>2, <1>3 DEF Parts

\* The runs of all providers.
AllRuns(c, share) == UNION {ProviderRuns(c, group, share) : group \in Groups(c)}

LEMMA AllRunsAre ==
  ASSUME NEW c \in Catalogs, NEW share \in Nat
  PROVE  /\ Parts(AllRuns(c, share), DOMAIN c)
         /\ \A r \in AllRuns(c, share) : BytesOf(c, r) <= share \/ \E t \in DOMAIN c : r = {t}
<1>1. Parts(Groups(c), DOMAIN c)
  BY GroupsAre
<1>2. \A g \in Groups(c) : g \in SUBSET (DOMAIN c)
  BY <1>1 DEF Parts
<1>3. ASSUME NEW g \in Groups(c)
      PROVE  /\ Parts(ProviderRuns(c, g, share), g)
             /\ \A r \in ProviderRuns(c, g, share) : BytesOf(c, r) <= share \/ \E t \in g : r = {t}
  BY <1>2, ProviderRunsAre
<1> DEFINE Runs(g) == ProviderRuns(c, g, share)
<1>4. AllRuns(c, share) = UNION {Runs(g) : g \in Groups(c)}
  BY DEF AllRuns
<1>5. \A g \in Groups(c) : /\ \A r \in Runs(g) : r \subseteq g /\ r # {}
                           /\ \A x \in g : \E r \in Runs(g) : x \in r
                           /\ \A r, s \in Runs(g) : r # s => r \intersect s = {}
  BY <1>3 DEF Parts
<1> HIDE DEF Runs
<1>6. \A r \in AllRuns(c, share) : \E g \in Groups(c) : r \in Runs(g)
  BY <1>4
<1>7. \A r \in AllRuns(c, share) : r \subseteq DOMAIN c /\ r # {}
  BY <1>2, <1>5, <1>6
<1>8. \A x \in DOMAIN c : \E r \in AllRuns(c, share) : x \in r
  <2>1. \A x \in DOMAIN c : \E g \in Groups(c) : x \in g
    BY <1>1 DEF Parts
  <2> QED
    BY <1>4, <1>5, <2>1
<1>9. ASSUME NEW r \in AllRuns(c, share), NEW s \in AllRuns(c, share), r # s PROVE r \intersect s = {}
  <2>1. PICK g \in Groups(c) : r \in Runs(g)
    BY <1>6
  <2>2. PICK h \in Groups(c) : s \in Runs(h)
    BY <1>6
  <2>3. CASE g = h
    BY <1>5, <1>9, <2>1, <2>2, <2>3
  <2>4. CASE g # h
    <3>1. g \intersect h = {}
      BY <1>1, <2>4 DEF Parts
    <3> QED
      BY <1>5, <2>1, <2>2, <3>1
  <2> QED
    BY <2>3, <2>4
<1>10. Parts(AllRuns(c, share), DOMAIN c)
  BY <1>7, <1>8, <1>9 DEF Parts
<1>11. \A r \in AllRuns(c, share) : BytesOf(c, r) <= share \/ \E t \in DOMAIN c : r = {t}
  BY <1>2, <1>3, <1>6 DEF Runs
<1> QED
  BY <1>10, <1>11

LEMMA RankedRunsAre ==
  ASSUME NEW c \in Catalogs, NEW share \in Nat
  PROVE  Lists(RankedRuns(c, share), AllRuns(c, share))
<1> DEFINE runs == AllRuns(c, share)
           Before(a, b) == \/ BytesOf(c, a) > BytesOf(c, b)
                           \/ BytesOf(c, a) = BytesOf(c, b) /\ Min(a) < Min(b)
           before == {pair \in runs \X runs : Before(pair[1], pair[2])}
<1>1. RankedRuns(c, share) = InOrder(runs, before)
  BY DEF RankedRuns, AllRuns
<1>2. Parts(runs, DOMAIN c) /\ DOMAIN c = 1 .. Len(c) /\ Len(c) \in Nat
  BY AllRunsAre, CatalogIs
<1>3. \A r \in runs : r \in SUBSET (DOMAIN c)
  BY <1>2 DEF Parts
<1>4. \A r \in runs : BytesOf(c, r) \in Nat
  BY <1>3, BytesAre
<1> HIDE DEF runs
<1>5. /\ IsFiniteSet(runs)
      /\ \A p \in runs : Min(p) \in Nat
      /\ \A p, q \in runs : Min(p) = Min(q) => p = q
  BY <1>2, PartsAreFew
<1>6. \A x, y \in runs : <<x, y>> \in before <=> Before(x, y)
  OBVIOUS
<1> HIDE DEF before
<1>7. Orders(runs, before)
  <2>1. \A x \in runs : <<x, x>> \notin before
    BY <1>4, <1>5, <1>6
  <2>2. \A x, y, z \in runs : <<x, y>> \in before /\ <<y, z>> \in before => <<x, z>> \in before
    <3>1. \A x, y, z \in runs : Before(x, y) /\ Before(y, z) => Before(x, z)
      BY <1>4, <1>5
    <3> HIDE DEF Before
    <3> QED
      BY <1>6, <3>1
  <2>3. \A x, y \in runs : x # y => <<x, y>> \in before \/ <<y, x>> \in before
    <3>1. \A x, y \in runs : x # y => Before(x, y) \/ Before(y, x)
      BY <1>4, <1>5
    <3> HIDE DEF Before
    <3> QED
      BY <1>6, <3>1
  <2> QED
    BY <2>1, <2>2, <2>3 DEF Orders
<1> QED
  BY <1>1, <1>5, <1>7, InOrderLists DEF runs

-----------------------------------------------------------------------------
(* Batches *)

LEMMA LightestIs ==
  ASSUME NEW c \in Catalogs, NEW count \in Nat \ {0}, NEW b \in [1 .. count -> SUBSET (DOMAIN c)]
  PROVE  /\ Lightest(c, b) \in 1 .. count
         /\ \A j \in 1 .. count : BytesOf(c, b[Lightest(c, b)]) <= BytesOf(c, b[j])
<1> DEFINE w == [i \in 1 .. count |-> BytesOf(c, b[i])]
           Weights == {w[i] : i \in 1 .. count}
           Light == {i \in 1 .. count : \A j \in 1 .. count : w[i] <= w[j]}
<1>1. \A i \in 1 .. count : BytesOf(c, b[i]) \in Nat
  BY BytesAre
<1>2. Lightest(c, b) = Min(Light)
  BY DEF Lightest
<1>3. \A i \in 1 .. count : w[i] = BytesOf(c, b[i]) /\ w[i] \in Nat
  BY <1>1
<1> HIDE DEF w
<1>4. Light # {}
  <2>1. Weights \subseteq Nat /\ 1 \in 1 .. count /\ Weights # {}
    BY <1>3
  <2> HIDE DEF Weights
  <2>2. PICK n \in Weights : \A m \in Weights : n <= m
    BY <2>1, LeastExists
  <2> QED
    BY <2>2 DEF Weights
<1>5. Light \subseteq Nat
  OBVIOUS
<1>6. Min(Light) \in Light
  <2> HIDE DEF Light
  <2> QED
    BY <1>4, <1>5, MinIs
<1> QED
  BY <1>2, <1>3, <1>6

\* A run is placed, and run after run.
PlacedIn(c, b, run) == [b EXCEPT ![Lightest(c, b)] = @ \union run]
IsPlacing(f, c, count, rs) ==
  f = [m \in 0 .. Len(rs) |-> IF m = 0 THEN [i \in 1 .. count |-> {}]
                                        ELSE PlacedIn(c, f[m - 1], rs[m])]

LEMMA PlacedExists ==
  ASSUME NEW c \in Catalogs, NEW count \in Nat \ {0}, NEW rs \in Seq(SUBSET (DOMAIN c))
  PROVE  \E f : IsPlacing(f, c, count, rs)
<1> DEFINE n == Len(rs)
           X == [1 .. count -> SUBSET (DOMAIN c)]
           base == [i \in 1 .. count |-> {}]
           step == [place \in X \X (1 .. n) |-> PlacedIn(c, place[1], rs[place[2]])]
<1>1. ASSUME NEW b \in X, NEW r \in SUBSET (DOMAIN c) PROVE PlacedIn(c, b, r) \in X
  <2>1. Lightest(c, b) \in 1 .. count
    BY LightestIs
  <2> QED
    BY <2>1 DEF PlacedIn
<1>2. base \in X
  OBVIOUS
<1>0. n \in Nat /\ \A m \in 1 .. n : rs[m] \in SUBSET (DOMAIN c)
  OBVIOUS
<1> HIDE DEF X, base, n
<1>3. step \in [X \X (1 .. n) -> X]
  BY <1>0, <1>1
<1> HIDE DEF step
<1>4. PICK f : IsLoop(f, X, base, n, step)
  BY <1>0, <1>2, <1>3, RoundsExist, Zenon
<1>5. f \in [0 .. n -> X] /\ f[0] = base /\ \A k \in 1 .. n : f[k] = step[<<f[k - 1], k>>]
  BY <1>4 DEF IsLoop
<1>6. ASSUME NEW k \in 1 .. n PROVE f[k] = PlacedIn(c, f[k - 1], rs[k])
  <2>1. k - 1 \in 0 .. n
    BY <1>0
  <2>2. <<f[k - 1], k>> \in X \X (1 .. n)
    BY <1>5, <2>1
  <2>3. step[<<f[k - 1], k>>] = PlacedIn(c, f[k - 1], rs[k])
    BY <2>2 DEF step
  <2> QED
    BY <1>5, <2>3
<1> DEFINE g == [m \in 0 .. n |-> IF m = 0 THEN base ELSE PlacedIn(c, f[m - 1], rs[m])]
<1>7. ASSUME NEW m \in 0 .. n PROVE f[m] = g[m]
  <2>1. CASE m = 0
    BY <1>5, <2>1
  <2>2. CASE m # 0
    <3>1. m \in 1 .. n
      BY <1>0, <2>2
    <3> QED
      BY <1>6, <2>2, <3>1
  <2> QED
    BY <2>1, <2>2
<1>8. DOMAIN g = 0 .. n /\ g = [m \in 0 .. n |-> g[m]]
  OBVIOUS
<1>9. f = [m \in 0 .. n |-> f[m]]
  BY <1>5
<1> HIDE DEF g
<1>10. f = g
  BY <1>7, <1>8, <1>9
<1> QED
  BY <1>10 DEF g, base, n, IsPlacing

\* What the batches are when m runs are placed: they have the tools of these
\* runs, each in one batch; and if no run is larger than "most" and there are
\* as many batches as runs, none is larger, and only m have any bytes.
FilledIs(c, count, rs, most, b, m) ==
  /\ b \in [1 .. count -> SUBSET (DOMAIN c)]
  /\ \A t \in DOMAIN c : (\E i \in 1 .. count : t \in b[i]) <=> (\E j \in 1 .. m : t \in rs[j])
  /\ \A i, k \in 1 .. count : i # k => b[i] \intersect b[k] = {}
  /\ (\A j \in DOMAIN rs : BytesOf(c, rs[j]) <= most) /\ Len(rs) <= count =>
        /\ \A i \in 1 .. count : BytesOf(c, b[i]) <= most
        /\ Cardinality({i \in 1 .. count : BytesOf(c, b[i]) # 0}) <= m

LEMMA FilledStep ==
  ASSUME NEW c \in Catalogs, NEW count \in Nat \ {0}, NEW rs \in Seq(SUBSET (DOMAIN c)),
         \A i, k \in DOMAIN rs : i # k => rs[i] \intersect rs[k] = {},
         NEW most \in Nat, NEW b, NEW m \in Nat, m + 1 \in DOMAIN rs,
         FilledIs(c, count, rs, most, b, m)
  PROVE  FilledIs(c, count, rs, most, PlacedIn(c, b, rs[m + 1]), m + 1)
<1> DEFINE L == Lightest(c, b)
           run == rs[m + 1]
           d == PlacedIn(c, b, run)
<1>1. /\ b \in [1 .. count -> SUBSET (DOMAIN c)] /\ run \in SUBSET (DOMAIN c)
      /\ Len(rs) \in Nat /\ DOMAIN rs = 1 .. Len(rs) /\ m + 1 <= Len(rs)
  BY DEF FilledIs
<1>2. L \in 1 .. count /\ \A j \in 1 .. count : BytesOf(c, b[L]) <= BytesOf(c, b[j])
  BY <1>1, LightestIs
<1> HIDE DEF L
<1>3. /\ d \in [1 .. count -> SUBSET (DOMAIN c)]
      /\ \A i \in 1 .. count : d[i] = IF i = L THEN b[i] \union run ELSE b[i]
  BY <1>1, <1>2 DEF PlacedIn, L
<1>4. \A i \in 1 .. count : b[i] \intersect run = {}
  <2> SUFFICES ASSUME NEW i \in 1 .. count, NEW t \in b[i], t \in run PROVE FALSE
    OBVIOUS
  <2>1. PICK j \in 1 .. m : t \in rs[j]
    BY <1>1 DEF FilledIs
  <2>2. j \in DOMAIN rs /\ j # m + 1
    BY <1>1
  <2> QED
    BY <2>1, <2>2
<1> HIDE DEF d
<1>5. ASSUME NEW t \in DOMAIN c
      PROVE  (\E i \in 1 .. count : t \in d[i]) <=> (\E j \in 1 .. (m + 1) : t \in rs[j])
  <2>1. (\E i \in 1 .. count : t \in d[i]) <=> (\E i \in 1 .. count : t \in b[i]) \/ t \in run
    BY <1>2, <1>3
  <2>2. (\E j \in 1 .. (m + 1) : t \in rs[j]) <=> (\E j \in 1 .. m : t \in rs[j]) \/ t \in run
    <3>1. \A j : j \in 1 .. (m + 1) <=> j \in 1 .. m \/ j = m + 1
      OBVIOUS
    <3> QED
      BY <3>1
  <2> QED
    BY <2>1, <2>2 DEF FilledIs
<1>6. \A i, k \in 1 .. count : i # k => d[i] \intersect d[k] = {}
  <2>1. \A i, k \in 1 .. count : i # k => b[i] \intersect b[k] = {}
    BY DEF FilledIs
  <2> QED
    BY <1>3, <1>4, <2>1
<1>7. ASSUME \A j \in DOMAIN rs : BytesOf(c, rs[j]) <= most, Len(rs) <= count
      PROVE  /\ \A i \in 1 .. count : BytesOf(c, d[i]) <= most
             /\ Cardinality({i \in 1 .. count : BytesOf(c, d[i]) # 0}) <= m + 1
  <2> DEFINE Heavy == {i \in 1 .. count : BytesOf(c, b[i]) # 0}
             Heavier == {i \in 1 .. count : BytesOf(c, d[i]) # 0}
  <2>1. \A i \in 1 .. count : BytesOf(c, b[i]) \in Nat /\ BytesOf(c, b[i]) <= most
    BY <1>1, <1>7, BytesAre DEF FilledIs
  <2>2. Cardinality(Heavy) <= m
    BY <1>7 DEF FilledIs
  <2>3. IsFiniteSet(1 .. count) /\ Cardinality(1 .. count) = count
    <3>1. IsFiniteSet(1 .. count) /\ Cardinality(1 .. count) = IF 1 > count THEN 0 ELSE count - 1 + 1
      <4>1. count \in Int /\ 1 \in Int
        OBVIOUS
      <4> QED
        BY <4>1, FS_Interval, Zenon
    <3> QED
      BY <3>1
  <2>4. IsFiniteSet(Heavy) /\ Cardinality(Heavy) \in Nat
    <3>1. Heavy \in SUBSET (1 .. count)
      OBVIOUS
    <3> HIDE DEF Heavy
    <3> QED
      BY <2>3, <3>1, FS_Subset, FS_CardinalityType
  <2>5. BytesOf(c, b[L]) = 0
    <3> SUFFICES ASSUME BytesOf(c, b[L]) # 0 PROVE FALSE
      OBVIOUS
    <3>1. Heavy = 1 .. count
      BY <1>2, <2>1
    <3>2. Cardinality(Heavy) = count
      BY <2>3, <3>1
    <3> HIDE DEF Heavy
    <3> QED
      BY <1>1, <1>7, <2>2, <3>2
  <2>6. BytesOf(c, d[L]) = BytesOf(c, b[L]) + BytesOf(c, run) /\ BytesOf(c, run) \in Nat
    <3> DEFINE before == b[L]
    <3>1. d[L] = before \union run /\ before \intersect run = {} /\ before \in SUBSET (DOMAIN c)
      BY <1>1, <1>2, <1>3, <1>4
    <3>2. \A T, U \in SUBSET (DOMAIN c) :
             T \intersect U = {} => BytesOf(c, T \union U) = BytesOf(c, T) + BytesOf(c, U)
      BY BytesAre, Zenon
    <3>3. BytesOf(c, run) \in Nat
      <4>1. \A T \in SUBSET (DOMAIN c) : BytesOf(c, T) \in Nat
        BY BytesAre, Zenon
      <4> QED
        BY <1>1, <4>1, Zenon
    <3> HIDE DEF run, before
    <3>4. BytesOf(c, before \union run) = BytesOf(c, before) + BytesOf(c, run)
      BY <1>1, <3>1, <3>2, Zenon
    <3> QED
      BY <3>1, <3>3, <3>4, Zenon DEF before
  <2>7. BytesOf(c, run) <= most
    BY <1>7
  <2> HIDE DEF run
  <2>8. \A i \in 1 .. count : BytesOf(c, d[i]) <= most
    <3>1. BytesOf(c, d[L]) <= most
      <4>1. BytesOf(c, d[L]) = BytesOf(c, run)
        BY <2>5, <2>6
      <4> QED
        BY <2>7, <4>1, Zenon
    <3>2. ASSUME NEW i \in 1 .. count, i # L PROVE BytesOf(c, d[i]) <= most
      <4>1. d[i] = b[i]
        BY <1>3, <3>2, Zenon
      <4> QED
        BY <2>1, <4>1, Zenon
    <3> QED
      BY <3>1, <3>2, Zenon
  <2>9. Heavier \in SUBSET (Heavy \union {L})
    BY <1>2, <1>3
  <2> HIDE DEF Heavy, Heavier
  <2>10. IsFiniteSet(Heavy \union {L}) /\ Cardinality(Heavy \union {L}) <= Cardinality(Heavy) + 1
    <3>1. /\ IsFiniteSet(Heavy \union {L})
          /\ Cardinality(Heavy \union {L}) = IF L \in Heavy THEN Cardinality(Heavy) ELSE Cardinality(Heavy) + 1
      BY <2>4, FS_AddElement, Zenon
    <3> QED
      BY <2>4, <3>1
  <2>11. /\ IsFiniteSet(Heavier) /\ Cardinality(Heavier) <= Cardinality(Heavy \union {L})
         /\ Cardinality(Heavier) \in Nat /\ Cardinality(Heavy \union {L}) \in Nat
    BY <2>9, <2>10, FS_Subset, FS_CardinalityType
  <2>12. Cardinality(Heavier) <= m + 1
    BY <2>2, <2>4, <2>10, <2>11
  <2> QED
    BY <2>8, <2>12 DEF Heavier
<1> QED
  BY <1>3, <1>5, <1>6, <1>7 DEF FilledIs, d

LEMMA PlacedAll ==
  ASSUME NEW c \in Catalogs, NEW count \in Nat \ {0}, NEW rs \in Seq(SUBSET (DOMAIN c)),
         \A i, k \in DOMAIN rs : i # k => rs[i] \intersect rs[k] = {},
         NEW most \in Nat, NEW f, IsPlacing(f, c, count, rs)
  PROVE  FilledIs(c, count, rs, most, f[Len(rs)], Len(rs))
<1> DEFINE N == Len(rs)
           Bad == {m \in 0 .. N : ~FilledIs(c, count, rs, most, f[m], m)}
<1>1. N \in Nat /\ DOMAIN rs = 1 .. N
  OBVIOUS
<1>2. f[0] = [i \in 1 .. count |-> {}] /\ \A m \in 1 .. N : f[m] = PlacedIn(c, f[m - 1], rs[m])
  <2> DEFINE Round(m) == IF m = 0 THEN [i \in 1 .. count |-> {}] ELSE PlacedIn(c, f[m - 1], rs[m])
  <2>1. f = [m \in 0 .. N |-> Round(m)]
    BY Zenon DEF IsPlacing
  <2> HIDE DEF Round, N
  <2>2. \A m \in 0 .. N : f[m] = Round(m)
    BY <2>1, Zenon
  <2>3. 0 \in 0 .. N /\ \A m \in 1 .. N : m \in 0 .. N /\ m # 0
    BY <1>1
  <2>4. Round(0) = [i \in 1 .. count |-> {}] /\ \A m \in 1 .. N : Round(m) = PlacedIn(c, f[m - 1], rs[m])
    BY <2>3, Zenon DEF Round
  <2> QED
    BY <2>2, <2>3, <2>4, Zenon
<1>3. FilledIs(c, count, rs, most, f[0], 0)
  <2>1. f[0] \in [1 .. count -> SUBSET (DOMAIN c)] /\ \A i \in 1 .. count : f[0][i] = {}
    BY <1>2
  <2>2. \A i \in 1 .. count : BytesOf(c, f[0][i]) = 0
    BY <2>1, BytesAre
  <2>3. Cardinality({i \in 1 .. count : BytesOf(c, f[0][i]) # 0}) <= 0
    <3> DEFINE Heavy == {i \in 1 .. count : BytesOf(c, f[0][i]) # 0}
    <3>1. \A i : i \notin Heavy
      BY <2>2, Zenon
    <3>2. Cardinality({}) = 0 /\ 0 <= 0
      BY FS_EmptySet
    <3> HIDE DEF Heavy
    <3>3. Heavy = {}
      BY <3>1
    <3>4. Cardinality(Heavy) <= 0
      BY <3>2, <3>3
    <3> QED
      BY <3>4 DEF Heavy
  <2>4. \A i \in 1 .. count : BytesOf(c, f[0][i]) <= most
    BY <2>2
  <2>5. 1 .. 0 = {}
    OBVIOUS
  <2> QED
    BY <2>1, <2>3, <2>4, <2>5 DEF FilledIs
<1> HIDE DEF N
<1>4. Bad = {}
  <2> SUFFICES ASSUME Bad # {} PROVE FALSE
    OBVIOUS
  <2>1. Bad \subseteq Nat
    BY <1>1
  <2>2. PICK m \in Bad : \A k \in Bad : m <= k
    <3> HIDE DEF Bad
    <3> QED
      BY <2>1, LeastExists
  <2>3. m \in 0 .. N /\ m # 0
    BY <1>3
  <2>4. m - 1 \in Nat /\ m - 1 \in 0 .. N /\ ~(m <= m - 1) /\ m \in 1 .. N /\ (m - 1) + 1 = m
    BY <1>1, <2>3
  <2>5. FilledIs(c, count, rs, most, f[m - 1], m - 1)
    BY <2>2, <2>4
  <2>6. FilledIs(c, count, rs, most, PlacedIn(c, f[m - 1], rs[(m - 1) + 1]), (m - 1) + 1)
    BY <1>1, <2>4, <2>5, FilledStep
  <2> QED
    BY <1>2, <2>2, <2>4, <2>6
<1>5. N \in 0 .. N
  BY <1>1
<1> QED
  BY <1>4, <1>5 DEF N

LEMMA CeilDivIs ==
  ASSUME NEW a \in Nat, NEW b \in Nat \ {0}
  PROVE  /\ CeilDiv(a, b) \in Nat
         /\ \A m \in Nat : a <= b * m => CeilDiv(a, b) <= m
<1> DEFINE x == a + b - 1
           q == x \div b
<1>1. x \in Nat /\ q \in Nat /\ b * q <= x
  OBVIOUS
<1>2. CeilDiv(a, b) = q
  BY DEF CeilDiv
<1> HIDE DEF q
<1>3. ASSUME NEW m \in Nat, a <= b * m PROVE q <= m
  <2> SUFFICES ASSUME q >= m + 1 PROVE FALSE
    BY <1>1
  <2>1. b * q >= b * (m + 1)
    BY <1>1
  <2>2. b * (m + 1) = b * m + b /\ b * m \in Nat
    OBVIOUS
  <2> QED
    BY <1>1, <1>3, <2>1, <2>2
<1> QED
  BY <1>1, <1>2, <1>3

\* Batches have every tool in one of them; one for each tool, none is larger than
\* its largest.
LEMMA BatchesAre ==
  ASSUME NEW c \in Catalogs, NEW count \in Nat, count > 1, NEW most \in Nat
  PROVE  \E filled : /\ Parts(filled, DOMAIN c) /\ Lists(Batches(c, count), filled)
                     /\ count = Len(c) /\ (\A t \in DOMAIN c : c[t].bytes <= most) =>
                          \A p \in filled : BytesOf(c, p) <= most
<1> DEFINE all == DOMAIN c
           share == CeilDiv(BytesOf(c, all), count)
           rs == RankedRuns(c, share)
           f == CHOOSE h : IsPlacing(h, c, count, rs)
           b == f[Len(rs)]
           filled == Range(b) \ {{}}
           before == {pair \in filled \X filled : Min(pair[1]) < Min(pair[2])}
           runs == AllRuns(c, share)
<1>1. Batches(c, count) = InOrder(filled, before)
  <2>1. ~(count <= 1)
    OBVIOUS
  <2> QED
    BY <2>1, Zenon DEF Batches, IsPlacing, PlacedIn
<1>2. /\ BytesOf(c, all) \in Nat /\ Len(c) \in Nat /\ DOMAIN c = 1 .. Len(c)
      /\ \A t \in DOMAIN c : BytesOf(c, {t}) = c[t].bytes
      /\ IsFiniteSet(all) /\ Cardinality(all) = Len(c)
  BY BytesAre, CatalogIs
<1>3. share \in Nat /\ \A m \in Nat : BytesOf(c, all) <= count * m => share <= m
  <2> HIDE DEF all
  <2> QED
    BY <1>2, CeilDivIs
<1> HIDE DEF share
<1>4. /\ Parts(runs, DOMAIN c)
      /\ \A r \in runs : BytesOf(c, r) <= share \/ \E t \in DOMAIN c : r = {t}
      /\ Lists(rs, runs)
  BY <1>3, AllRunsAre, RankedRunsAre
<1> HIDE DEF runs, rs
<1>5. IsFiniteSet(runs) /\ Cardinality(runs) \in Nat /\ Cardinality(runs) <= Len(c)
  BY <1>2, <1>4, PartsAreFew
<1>6. /\ rs \in Seq(SUBSET (DOMAIN c)) /\ Len(rs) = Cardinality(runs)
      /\ \A i \in DOMAIN rs : rs[i] \in runs
      /\ \A r \in runs : \E i \in DOMAIN rs : rs[i] = r
      /\ \A i, k \in DOMAIN rs : i # k => rs[i] \intersect rs[k] = {}
  <2> DEFINE C == Cardinality(runs)
  <2>1. /\ rs \in [1 .. C -> runs]
        /\ \A r \in runs : \E k \in 1 .. C : rs[k] = r
        /\ \A j, k \in 1 .. C : rs[j] = rs[k] => j = k
    BY <1>4 DEF Lists
  <2>2. /\ \A r \in runs : r \in SUBSET (DOMAIN c)
        /\ \A r, s \in runs : r # s => r \intersect s = {}
    BY <1>4 DEF Parts
  <2>3. C \in Nat
    BY <1>5
  <2> HIDE DEF C
  <2>4. rs \in Seq(SUBSET (DOMAIN c)) /\ Len(rs) = C /\ DOMAIN rs = 1 .. C
    BY <2>1, <2>2, <2>3
  <2> QED
    BY <2>1, <2>2, <2>4 DEF C
<1>7. IsPlacing(f, c, count, rs)
  <2>1. \E h : IsPlacing(h, c, count, rs)
    BY <1>6, PlacedExists
  <2> QED
    BY <2>1, Zenon
<1> HIDE DEF f
<1>8. FilledIs(c, count, rs, most, b, Len(rs))
  BY <1>6, <1>7, PlacedAll
<1> HIDE DEF b
<1>9. /\ b \in [1 .. count -> SUBSET (DOMAIN c)]
      /\ \A t \in DOMAIN c : (\E i \in 1 .. count : t \in b[i]) <=> (\E j \in 1 .. Len(rs) : t \in rs[j])
      /\ \A i, k \in 1 .. count : i # k => b[i] \intersect b[k] = {}
  BY <1>8 DEF FilledIs
<1>10. \A p : p \in filled <=> p # {} /\ \E i \in 1 .. count : p = b[i]
  BY <1>9 DEF Range
<1> HIDE DEF filled
<1>11. Parts(filled, DOMAIN c)
  <2>1. \A p \in filled : p \subseteq DOMAIN c /\ p # {}
    BY <1>9, <1>10
  <2>2. \A p, q \in filled : p # q => p \intersect q = {}
    BY <1>9, <1>10
  <2>3. ASSUME NEW t \in DOMAIN c PROVE \E p \in filled : t \in p
    <3>1. PICK r \in runs : t \in r
      BY <1>4 DEF Parts
    <3>2. PICK j \in DOMAIN rs : rs[j] = r
      BY <1>6
    <3>3. j \in 1 .. Len(rs)
      BY <1>6
    <3>4. PICK i \in 1 .. count : t \in b[i]
      BY <1>9, <3>1, <3>2, <3>3
    <3> QED
      BY <1>10, <3>4
  <2> QED
    BY <2>1, <2>2, <2>3 DEF Parts
<1>12. Lists(Batches(c, count), filled)
  <2>1. /\ IsFiniteSet(filled)
        /\ \A p \in filled : Min(p) \in Nat
        /\ \A p, q \in filled : Min(p) = Min(q) => p = q
    BY <1>2, <1>11, PartsAreFew
  <2>2. \A x, y \in filled : <<x, y>> \in before <=> Min(x) < Min(y)
    OBVIOUS
  <2> HIDE DEF before
  <2>3. Orders(filled, before)
    BY <2>1, <2>2 DEF Orders
  <2> QED
    BY <1>1, <2>1, <2>3, InOrderLists
<1>13. ASSUME count = Len(c), \A t \in DOMAIN c : c[t].bytes <= most
       PROVE  \A p \in filled : BytesOf(c, p) <= most
  <2>1. BytesOf(c, all) <= count * most
    <3>1. all \in SUBSET (DOMAIN c)
      OBVIOUS
    <3> HIDE DEF all
    <3> QED
      BY <1>2, <1>13, <3>1, BytesAre
  <2>2. share <= most
    BY <1>3, <2>1
  <2>3. \A r \in runs : BytesOf(c, r) <= most
    <3> SUFFICES ASSUME NEW r \in runs PROVE BytesOf(c, r) <= most
      OBVIOUS
    <3>1. BytesOf(c, r) \in Nat
      BY <1>4, BytesAre DEF Parts
    <3>2. CASE BytesOf(c, r) <= share
      BY <1>3, <2>2, <3>1, <3>2
    <3>3. CASE \E t \in DOMAIN c : r = {t}
      BY <1>2, <1>13, <3>3
    <3> QED
      BY <1>4, <3>2, <3>3
  <2>4. (\A j \in DOMAIN rs : BytesOf(c, rs[j]) <= most) /\ Len(rs) <= count
    BY <1>5, <1>6, <1>13, <2>3
  <2>5. \A i \in 1 .. count : BytesOf(c, b[i]) <= most
    BY <1>8, <2>4 DEF FilledIs
  <2> QED
    BY <1>10, <2>5
<1> QED
  BY <1>11, <1>12, <1>13

\* What the requests of a selection ask: tools of the catalog, each once.
CoversOnce(p, c) ==
  /\ p \in Seq(SUBSET (DOMAIN c))
  /\ \A t \in DOMAIN c : Cardinality({i \in DOMAIN p : t \in p[i]}) = 1

LEMMA ListedOnce ==
  ASSUME NEW c \in Catalogs, NEW filled, Parts(filled, DOMAIN c), NEW p, Lists(p, filled)
  PROVE  CoversOnce(p, c) /\ \A i \in DOMAIN p : p[i] \in filled
<1> DEFINE C == Cardinality(filled)
<1>1. /\ p \in [1 .. C -> filled]
      /\ \A r \in filled : \E k \in 1 .. C : p[k] = r
      /\ \A j, k \in 1 .. C : p[j] = p[k] => j = k
  BY DEF Lists
<1>2. /\ \A r \in filled : r \in SUBSET (DOMAIN c)
      /\ \A t \in DOMAIN c : \E r \in filled : t \in r
      /\ \A r, s \in filled : r # s => r \intersect s = {}
  BY DEF Parts
<1>3. C \in Nat
  BY CatalogIs, PartsAreFew
<1> HIDE DEF C
<1>4. p \in Seq(SUBSET (DOMAIN c)) /\ DOMAIN p = 1 .. C
  BY <1>1, <1>2, <1>3
<1>5. ASSUME NEW t \in DOMAIN c PROVE Cardinality({i \in DOMAIN p : t \in p[i]}) = 1
  <2>1. PICK r \in filled : t \in r
    BY <1>2
  <2>2. PICK k \in 1 .. C : p[k] = r
    BY <1>1
  <2>3. \A i \in DOMAIN p : t \in p[i] => i = k
    BY <1>1, <1>2, <1>4, <2>1, <2>2
  <2>4. {i \in DOMAIN p : t \in p[i]} = {k}
    BY <1>4, <2>1, <2>2, <2>3
  <2> QED
    BY <2>4, FS_Singleton
<1> QED
  BY <1>1, <1>4, <1>5 DEF CoversOnce

LEMMA AllAtOnce ==
  ASSUME NEW c \in Catalogs
  PROVE  CoversOnce(<<DOMAIN c>>, c)
<1>1. <<DOMAIN c>> \in Seq(SUBSET (DOMAIN c)) /\ DOMAIN <<DOMAIN c>> = {1} /\ <<DOMAIN c>>[1] = DOMAIN c
  OBVIOUS
<1>2. ASSUME NEW t \in DOMAIN c PROVE {i \in DOMAIN <<DOMAIN c>> : t \in <<DOMAIN c>>[i]} = {1}
  BY <1>1
<1>3. \A t \in DOMAIN c : Cardinality({i \in DOMAIN <<DOMAIN c>> : t \in <<DOMAIN c>>[i]}) = 1
  BY <1>2, FS_Singleton
<1> QED
  BY <1>1, <1>3 DEF CoversOnce

\* A selection asks about every tool once, in requests that fit if each tool does.
LEMMA PlanSelectionIs ==
  ASSUME BudgetAssumption, NEW c \in Catalogs, c # <<>>
  PROVE  /\ CoversOnce(PlanToolSelection(c), c)
         /\ (\A t \in DOMAIN c : RequestBytes(c, {t}) <= ByteBudget) => AllFit(c, PlanToolSelection(c))
<1> DEFINE tried == {count \in 2 .. Len(c) :
                       count >= SmallestCount(c) /\ AllFit(c, Batches(c, count))}
<1>0. ByteBudget \in Nat /\ FixedBytes \in Nat
  BY DEF BudgetAssumption
<1>1. /\ Len(c) \in Nat /\ DOMAIN c = 1 .. Len(c) /\ Len(c) # 0
      /\ \A t \in DOMAIN c : c[t].bytes \in Nat /\ BytesOf(c, {t}) = c[t].bytes
      /\ \A T \in SUBSET (DOMAIN c) : BytesOf(c, T) \in Nat
  <2>1. Len(c) # 0
    BY DEF Catalogs
  <2> QED
    BY <2>1, CatalogIs, BytesAre
<1>2. CASE AllFit(c, <<DOMAIN c>>)
  <2>1. PlanToolSelection(c) = <<DOMAIN c>>
    BY <1>2 DEF PlanToolSelection
  <2> QED
    BY <1>2, <2>1, AllAtOnce
<1>3. CASE ~AllFit(c, <<DOMAIN c>>) /\ tried # {}
  <2>1. PlanToolSelection(c) = Batches(c, Min(tried))
    BY <1>3 DEF PlanToolSelection
  <2>2. Min(tried) \in tried
    <3>1. tried \subseteq Nat
      BY <1>1
    <3> HIDE DEF tried
    <3> QED
      BY <1>3, <3>1, MinIs
  <2>3. Min(tried) \in Nat /\ Min(tried) > 1 /\ AllFit(c, Batches(c, Min(tried)))
    <3> DEFINE n == Min(tried)
    <3>1. n \in 2 .. Len(c) /\ AllFit(c, Batches(c, n))
      BY <2>2
    <3> HIDE DEF n
    <3>2. n \in Nat /\ n > 1
      BY <1>1, <3>1
    <3> QED
      BY <3>1, <3>2 DEF n
  <2> HIDE DEF tried
  <2>4. PICK filled : Parts(filled, DOMAIN c) /\ Lists(Batches(c, Min(tried)), filled)
    BY <1>0, <2>3, BatchesAre
  <2>5. CoversOnce(Batches(c, Min(tried)), c)
    BY <2>4, ListedOnce
  <2> QED
    BY <2>1, <2>3, <2>5
<1>4. CASE ~AllFit(c, <<DOMAIN c>>) /\ tried = {}
  <2> DEFINE n == Len(c)
  <2>1. PlanToolSelection(c) = Batches(c, n)
    BY <1>4 DEF PlanToolSelection
  <2>2. CASE n <= 1
    <3>1. n = 1 /\ DOMAIN c = {1}
      BY <1>1, <2>2
    <3>2. PlanToolSelection(c) = <<DOMAIN c>>
      BY <2>1, <2>2 DEF Batches
    <3>3. ~\A t \in DOMAIN c : RequestBytes(c, {t}) <= ByteBudget
      <4>1. \A i \in DOMAIN <<DOMAIN c>> : i = 1 /\ <<DOMAIN c>>[i] = {1}
        BY <3>1
      <4>2. ~(RequestBytes(c, {1}) <= ByteBudget)
        BY <1>4, <4>1 DEF AllFit
      <4> QED
        BY <3>1, <4>2
    <3> QED
      BY <3>2, <3>3, AllAtOnce
  <2>3. CASE ~(n <= 1)
    <3>1. n \in Nat /\ n > 1
      BY <1>1, <2>3
    <3>2. CASE \A t \in DOMAIN c : RequestBytes(c, {t}) <= ByteBudget
      <4> DEFINE most == ByteBudget - FixedBytes
      <4>1. most \in Nat /\ \A t \in DOMAIN c : c[t].bytes <= most
        <5>1. \A t \in DOMAIN c : FixedBytes + c[t].bytes <= ByteBudget /\ c[t].bytes \in Nat
          BY <1>1, <3>2 DEF RequestBytes
        <5>2. 1 \in DOMAIN c
          BY <1>1
        <5> QED
          BY <1>0, <5>1, <5>2
      <4> HIDE DEF most
      <4>2. PICK filled : /\ Parts(filled, DOMAIN c) /\ Lists(Batches(c, n), filled)
                          /\ \A p \in filled : BytesOf(c, p) <= most
        BY <3>1, <4>1, BatchesAre
      <4>3. CoversOnce(Batches(c, n), c) /\ \A i \in DOMAIN Batches(c, n) : Batches(c, n)[i] \in filled
        BY <4>2, ListedOnce
      <4>4. \A p \in filled : RequestBytes(c, p) <= ByteBudget
        <5>1. \A p \in filled : BytesOf(c, p) \in Nat
          BY <1>1, <4>2 DEF Parts
        <5> QED
          BY <1>0, <4>2, <5>1 DEF RequestBytes, most
      <4>5. AllFit(c, Batches(c, n))
        BY <4>3, <4>4 DEF AllFit
      <4> QED
        BY <2>1, <4>3, <4>5
    <3>3. CASE ~\A t \in DOMAIN c : RequestBytes(c, {t}) <= ByteBudget
      <4>1. 0 \in Nat
        OBVIOUS
      <4>2. PICK filled : Parts(filled, DOMAIN c) /\ Lists(Batches(c, n), filled)
        BY <3>1, <4>1, BatchesAre
      <4>3. CoversOnce(Batches(c, n), c)
        BY <4>2, ListedOnce
      <4> QED
        BY <2>1, <3>3, <4>3
    <3> QED
      BY <3>2, <3>3
  <2> QED
    BY <2>2, <2>3
<1> QED
  BY <1>2, <1>3, <1>4

-----------------------------------------------------------------------------
(* The tools that are picked *)

\* Some of the tools, no more than the limit.
FewOf(T, set, limit) ==
  T \subseteq set /\ IsFiniteSet(T) /\ Cardinality(T) \in Nat /\ Cardinality(T) <= limit

LEMMA PlacesAreFew ==
  ASSUME NEW n \in Nat, NEW f, NEW set, NEW T \in SUBSET set, \A x \in T : \E k \in 1 .. n : f[k] = x
  PROVE  FewOf(T, set, n)
<1> DEFINE g == [x \in T |-> CHOOSE k \in 1 .. n : f[k] = x]
<1>1. \A x \in T : g[x] \in 1 .. n /\ f[g[x]] = x
  OBVIOUS
<1>2. g \in Injection(T, 1 .. n)
  <2>1. g \in [T -> 1 .. n] /\ DOMAIN g = T
    BY <1>1
  <2> HIDE DEF g
  <2>2. \A x, y \in T : g[x] = g[y] => x = y
    BY <1>1
  <2> QED
    BY <2>1, <2>2 DEF Injection, IsInjective
<1> HIDE DEF g
<1>3. IsFiniteSet(1 .. n) /\ Cardinality(1 .. n) = n
  BY FirstOnes, Zenon
<1>4. IsFiniteSet(T) /\ Cardinality(T) <= n
  BY <1>2, <1>3, FS_Injection
<1>5. Cardinality(T) \in Nat
  BY <1>4, FS_CardinalityType
<1> QED
  BY <1>4, <1>5 DEF FewOf

LEMMA LikelyAreFew ==
  ASSUME NEW A \in SUBSET Nat, IsFiniteSet(A), NEW p \in [A -> Nat], NEW limit \in Nat
  PROVE  FewOf(SelectLikely(p, limit), A, limit)
<1> DEFINE likely == {tool \in DOMAIN p : p[tool] >= Threshold}
           Before(a, b) == \/ p[a] > p[b]
                           \/ p[a] = p[b] /\ a < b
           B == {pair \in likely \X likely : Before(pair[1], pair[2])}
           ranked == InOrder(likely, B)
           T == {ranked[n] : n \in {k \in DOMAIN ranked : k <= limit}}
<1>1. SelectLikely(p, limit) = T
  BY DEF SelectLikely
<1>2. /\ likely \subseteq A /\ \A a \in likely : p[a] \in Nat /\ a \in Nat
  OBVIOUS
<1>3. IsFiniteSet(likely)
  BY <1>2, FS_Subset
<1>4. \A a, b : <<a, b>> \in B <=> a \in likely /\ b \in likely /\ Before(a, b)
  BY Zenon
<1> HIDE DEF likely, B
<1>5. Orders(likely, B)
  BY <1>2, <1>4 DEF Orders
<1>6. Cardinality(likely) \in Nat /\ Lists(ranked, likely)
  BY <1>3, <1>5, InOrderLists
<1> HIDE DEF ranked
<1>7. DOMAIN ranked = 1 .. Cardinality(likely) /\ \A k \in DOMAIN ranked : ranked[k] \in likely
  BY <1>6 DEF Lists
<1>8. T \in SUBSET A
  BY <1>2, <1>7
<1>9. \A x \in T : \E k \in 1 .. limit : ranked[k] = x
  BY <1>6, <1>7
<1> HIDE DEF T
<1> QED
  BY <1>1, <1>8, <1>9, PlacesAreFew

LEMMA CoveringAreFew ==
  ASSUME NEW A, IsFiniteSet(A), NEW p, DOMAIN p = A, NEW limit \in Nat,
         NEW T \in CoveringBelief(p, limit)
  PROVE  FewOf(T, A, limit)
<1> DEFINE Sum(order, n) == FoldSet(LAMBDA i, sum : sum + p[order[i]], 0, 1 .. n)
           Goes(order, n) == /\ n < limit /\ (n = 0 \/ Sum(order, n) < BeliefMass)
                             /\ p[order[n + 1]] >= Floor
           Reached(order) == {n \in DOMAIN order : \A k \in 0 .. (n - 1) : Goes(order, k)}
<1>1. PICK order \in SetToSeqs(A) : T = {order[i] : i \in Reached(order)}
  BY DEF CoveringBelief
<1>2. order \in [1 .. Cardinality(A) -> A] /\ Cardinality(A) \in Nat
  BY FS_CardinalityType DEF SetToSeqs
<1> HIDE DEF Sum
<1>0. \A o, n : Goes(o, n) => n < limit
  OBVIOUS
<1> HIDE DEF Goes
<1>3. ASSUME NEW i \in Reached(order) PROVE i \in 1 .. limit /\ order[i] \in A
  <2>1. i \in DOMAIN order /\ \A k \in 0 .. (i - 1) : Goes(order, k)
    BY Zenon
  <2>2. i \in 1 .. Cardinality(A)
    BY <1>2, <2>1
  <2>3. i - 1 \in 0 .. (i - 1)
    BY <1>2, <2>2
  <2>4. Goes(order, i - 1)
    BY <2>1, <2>3, Zenon
  <2>5. i - 1 < limit
    BY <1>0, <2>4
  <2> QED
    BY <1>2, <2>2, <2>5
<1> HIDE DEF Reached
<1>4. T \in SUBSET A /\ \A x \in T : \E k \in 1 .. limit : order[k] = x
  BY <1>1, <1>3
<1> QED
  BY <1>4, PlacesAreFew

\* Fewer of them are few.
LEMMA FewerAreFew ==
  ASSUME NEW set, NEW n \in Nat, NEW T, FewOf(T, set, n), NEW U, U \subseteq T
  PROVE  FewOf(U, set, n)
<1>1. IsFiniteSet(T) /\ Cardinality(T) \in Nat /\ Cardinality(T) <= n /\ T \subseteq set
  BY DEF FewOf
<1>2. IsFiniteSet(U) /\ Cardinality(U) <= Cardinality(T)
  BY <1>1, FS_Subset
<1>3. Cardinality(U) \in Nat
  BY <1>2, FS_CardinalityType
<1> QED
  BY <1>1, <1>2, <1>3 DEF FewOf

\* What a turn says of its tools.
LEMMA CatalogFacts ==
  ASSUME NEW t \in Turns
  PROVE  /\ t.catalog \in Catalogs /\ CountLimit(t.limit) \in Nat
         /\ DOMAIN t.catalog \subseteq Nat /\ IsFiniteSet(DOMAIN t.catalog)
<1>1. t \in TurnsToPlan
  BY TurnsAssumption
<1>2. t.catalog \in Catalogs /\ t.limit \in Nat
  BY <1>1, Zenon DEF TurnsToPlan, Catalogs
<1>3. CountLimit(t.limit) \in Nat
  BY <1>2, BudgetAssumption DEF CountLimit
<1>4. Len(t.catalog) \in Nat /\ DOMAIN t.catalog = 1 .. Len(t.catalog)
  BY <1>2 DEF Catalogs
<1>5. IsFiniteSet(DOMAIN t.catalog)
  <2> DEFINE n == Len(t.catalog)
  <2>1. n \in Int /\ 1 \in Int
    BY <1>4
  <2>2. IsFiniteSet(1 .. n)
    <3> HIDE DEF n
    <3> QED
      BY <2>1, FS_Interval, Zenon
  <2> QED
    BY <1>4, <2>2
<1> QED
  BY <1>2, <1>3, <1>4, <1>5

\* The calls as they are kept.
CallFits(call) == call \in [asks : {call.asks}, state : CallStates, limited : BOOLEAN]

\* What the calls ask is the whole catalog, in requests that fit if each tool does.
Whole(cs, c) ==
  \A tool \in DOMAIN c : Cardinality({i \in DOMAIN cs : tool \in cs[i].asks}) = 1
AsksWell(cs, c, count) ==
  /\ \A i \in DOMAIN cs : cs[i].asks \subseteq DOMAIN c
  /\ cs # <<>> => Whole(cs, c)
  /\ count # "one" /\ (\A tool \in DOMAIN c : RequestBytes(c, {tool}) <= ByteBudget)
       => \A i \in DOMAIN cs : RequestBytes(c, cs[i].asks) <= ByteBudget

LEMMA AnswersAreFew ==
  ASSUME turn \in Turns, \A i \in DOMAIN calls : calls[i].asks \subseteq DOMAIN turn.catalog,
         NEW count, NEW T \in ToolAnswers(count)
  PROVE  FewOf(T, DOMAIN turn.catalog, CountLimit(turn.limit))
<1> DEFINE answered == UNION {calls[i].asks : i \in {j \in DOMAIN calls : calls[j].state = "answered"}}
           Possible == [answered -> Probabilities]
           Shared == {p \in Possible : FoldSet(LAMBDA tool, sum : sum + p[tool], 0, answered) <= 100}
           limit == CountLimit(turn.limit)
           set == DOMAIN turn.catalog
<1>1. answered \subseteq set
  OBVIOUS
<1>2. set \subseteq Nat /\ IsFiniteSet(set) /\ limit \in Nat
  BY CatalogFacts
<1>3. \/ \E p \in Shared : T \in CoveringBelief(p, limit)
      \/ \E p \in Possible : T = SelectLikely(p, limit)
  <2>1. CASE count = "one"
    <3>1. ToolAnswers(count) = UNION {CoveringBelief(belief, limit) : belief \in Shared}
      BY <2>1, Zenon DEF ToolAnswers
    <3> HIDE DEF Shared, limit
    <3> QED
      BY <3>1
  <2>2. CASE count # "one"
    <3>1. ToolAnswers(count) = {SelectLikely(p, limit) : p \in Possible}
      BY <2>2, Zenon DEF ToolAnswers
    <3> HIDE DEF Possible, limit
    <3> QED
      BY <3>1
  <2> QED
    BY <2>1, <2>2
<1>4. \A p \in Shared : p \in Possible
  <2> DEFINE Spread(p) == FoldSet(LAMBDA tool, sum : sum + p[tool], 0, answered)
  <2> HIDE DEF Spread
  <2>1. Shared = {p \in Possible : Spread(p) <= 100}
    BY Zenon DEF Spread
  <2> HIDE DEF Shared
  <2> QED
    BY <2>1
<1> HIDE DEF answered, Shared, limit, set
<1>5. IsFiniteSet(answered) /\ answered \in SUBSET Nat
  BY <1>1, <1>2, FS_Subset
<1>6. ASSUME NEW p \in Possible PROVE p \in [answered -> Nat] /\ DOMAIN p = answered
  BY DEF Probabilities, Floor, Threshold
<1>7. FewOf(T, answered, limit)
  <2> HIDE DEF Possible
  <2>1. CASE \E p \in Shared : T \in CoveringBelief(p, limit)
    BY <1>2, <1>4, <1>5, <1>6, <2>1, CoveringAreFew
  <2>2. CASE \E p \in Possible : T = SelectLikely(p, limit)
    BY <1>2, <1>5, <1>6, <2>2, LikelyAreFew
  <2> QED
    BY <1>3, <2>1, <2>2
<1>8. FewOf(T, set, limit)
  BY <1>1, <1>7 DEF FewOf
<1> QED
  BY <1>8 DEF limit, set

\* A selection asks as it should, and every call of it waits.
LEMMA SelectionAsks ==
  ASSUME turn \in Turns, NEW count, NEW cs, cs = Requests(Selection(count))
  PROVE  /\ AsksWell(cs, turn.catalog, count)
         /\ \A i \in DOMAIN cs : CallFits(cs[i]) /\ cs[i].state = "queued"
<1> DEFINE c == turn.catalog
           p == Selection(count)
<1>1. c \in Catalogs
  BY CatalogFacts
<1>2. /\ DOMAIN cs = DOMAIN p
      /\ \A i \in DOMAIN cs : cs[i] = [asks |-> p[i], state |-> "queued", limited |-> FALSE]
  BY DEF Requests, Queued
<1>3. \A i \in DOMAIN cs : CallFits(cs[i]) /\ cs[i].state = "queued" /\ cs[i].asks = p[i]
  <2> HIDE DEF p
  <2>1. ASSUME NEW i \in DOMAIN cs
        PROVE  CallFits(cs[i]) /\ cs[i].state = "queued" /\ cs[i].asks = p[i]
    <3>1. cs[i].asks = p[i] /\ cs[i].state = "queued" /\ cs[i] = [asks |-> p[i], state |-> "queued", limited |-> FALSE]
      BY <1>2
    <3>2. "queued" \in CallStates
      BY DEF CallStates
    <3> QED
      BY <3>1, <3>2 DEF CallFits
  <2> QED
    BY <2>1
<1>4. CASE c = <<>>
  <2>1. p = <<>>
    BY <1>4 DEF Selection
  <2>2. DOMAIN cs = {}
    BY <1>2, <2>1
  <2>3. Whole(cs, c)
    BY <1>4 DEF Whole
  <2> QED
    BY <1>3, <2>2, <2>3 DEF AsksWell
<1>5. CASE c # <<>>
  <2>1. /\ CoversOnce(p, c)
        /\ count # "one" => p = PlanToolSelection(c)
    <3>1. CASE count = "one"
      <4>1. p = <<DOMAIN c>>
        BY <1>5, <3>1 DEF Selection
      <4> QED
        BY <1>1, <3>1, <4>1, AllAtOnce
    <3>2. CASE count # "one"
      <4>1. p = PlanToolSelection(c)
        BY <1>5, <3>2 DEF Selection
      <4> QED
        BY <1>1, <1>5, <4>1, BudgetAssumption, PlanSelectionIs
    <3> QED
      BY <3>1, <3>2
  <2>2. count # "one" /\ (\A t \in DOMAIN c : RequestBytes(c, {t}) <= ByteBudget) => AllFit(c, p)
    BY <1>1, <1>5, <2>1, BudgetAssumption, PlanSelectionIs
  <2> HIDE DEF p, c
  <2>3. Whole(cs, c)
    <3> SUFFICES ASSUME NEW tool \in DOMAIN c
                 PROVE  Cardinality({i \in DOMAIN cs : tool \in cs[i].asks}) = 1
      BY DEF Whole
    <3>1. {i \in DOMAIN cs : tool \in cs[i].asks} = {i \in DOMAIN p : tool \in p[i]}
      BY <1>2, <1>3
    <3> QED
      BY <2>1, <3>1 DEF CoversOnce
  <2>4. \A i \in DOMAIN cs : cs[i].asks \subseteq DOMAIN c
    <3>1. p \in Seq(SUBSET (DOMAIN c))
      BY <2>1 DEF CoversOnce
    <3>2. \A i \in DOMAIN p : p[i] \in SUBSET (DOMAIN c)
      BY <3>1
    <3> QED
      BY <1>2, <1>3, <3>2
  <2>5. AllFit(c, p) => \A i \in DOMAIN cs : RequestBytes(c, cs[i].asks) <= ByteBudget
    BY <1>2, <1>3 DEF AllFit
  <2> QED
    BY <1>3, <2>2, <2>3, <2>4, <2>5 DEF AsksWell, c
<1> QED
  BY <1>4, <1>5

-----------------------------------------------------------------------------
(* The selection as planning goes on *)

Flags ==
  /\ at \in Phases /\ {live, failed, omitted, limited, corrected} \subseteq BOOLEAN
  /\ measured \subseteq {"decision", "words"} /\ words \in InFlight \union {"none"}

\* Tools that are picked come of the whole of it.
PickedWhole(t, cs, T) ==
  T # {} => /\ \A i \in DOMAIN cs : cs[i].state = "answered"
            /\ Whole(cs, t.catalog) /\ FewOf(T, DOMAIN t.catalog, CountLimit(t.limit))

\* Calls are cancelled for a reason of their own.
Reasoned(lv, fl, cs) ==
  fl \/ (\E i \in DOMAIN cs : cs[i].state = "cancelled") =>
    ~lv \/ \E i \in DOMAIN cs : cs[i].state = "failed"

SelectHolds(t, a, lv, fl, cs, d) ==
  /\ \A i \in DOMAIN cs : CallFits(cs[i])
  /\ a = "plan" => d = Blank /\ ~fl
  /\ a \in {"plan", "deciding", "selecting"} => d.tools = {}
  /\ a = "selecting" => AsksWell(cs, t.catalog, d.count)
  /\ a \in {"wording", "done"} /\ t.routing = "none" => PickedWhole(t, cs, d.tools)
  /\ a \in {"deciding", "selecting"} => Reasoned(lv, fl, cs)
  /\ d \in Decisions(Nat, Nat)

SelectInv == Flags /\ SelectHolds(turn, at, live, failed, calls, decision)

\* A call goes on; the others stay as they are.
MovesTo(i, state) ==
  \/ calls' = [calls EXCEPT ![i].state = state]
  \/ \E b \in BOOLEAN : calls' = [calls EXCEPT ![i].state = state, ![i].limited = b]

LEMMA CallMoves ==
  ASSUME \A i \in DOMAIN calls : CallFits(calls[i]), NEW i \in DOMAIN calls, NEW state \in CallStates,
         MovesTo(i, state)
  PROVE  /\ DOMAIN calls' = DOMAIN calls
         /\ \A j \in DOMAIN calls : /\ CallFits(calls'[j]) /\ calls'[j].asks = calls[j].asks
                                    /\ calls'[j].state = IF j = i THEN state ELSE calls[j].state
<1>1. \A j \in DOMAIN calls : calls[j] \in [asks : {calls[j].asks}, state : CallStates, limited : BOOLEAN]
  BY DEF CallFits
<1>2. ASSUME NEW call, \E b \in BOOLEAN : call = [asks |-> calls[i].asks, state |-> state, limited |-> b],
             DOMAIN calls' = DOMAIN calls, calls'[i] = call,
             \A j \in DOMAIN calls : j # i => calls'[j] = calls[j]
      PROVE  /\ DOMAIN calls' = DOMAIN calls
             /\ \A j \in DOMAIN calls : /\ CallFits(calls'[j]) /\ calls'[j].asks = calls[j].asks
                                        /\ calls'[j].state = IF j = i THEN state ELSE calls[j].state
  <2>1. CallFits(call) /\ call.asks = calls[i].asks /\ call.state = state
    BY <1>2 DEF CallFits
  <2> QED
    BY <1>2, <2>1
<1> DEFINE mid == [calls EXCEPT ![i].state = state]
<1>3. /\ DOMAIN mid = DOMAIN calls /\ \A j \in DOMAIN calls : j # i => mid[j] = calls[j]
      /\ mid[i] = [asks |-> calls[i].asks, state |-> state, limited |-> calls[i].limited]
      /\ calls[i].limited \in BOOLEAN
  BY <1>1
<1>4. \/ calls' = mid
      \/ \E b \in BOOLEAN : calls' = [mid EXCEPT ![i].limited = b]
  BY Zenon DEF MovesTo
<1> HIDE DEF mid
<1>5. CASE calls' = mid
  BY <1>2, <1>3, <1>5
<1>6. ASSUME NEW b \in BOOLEAN, calls' = [mid EXCEPT ![i].limited = b]
      PROVE  /\ DOMAIN calls' = DOMAIN calls
             /\ \A j \in DOMAIN calls : /\ CallFits(calls'[j]) /\ calls'[j].asks = calls[j].asks
                                        /\ calls'[j].state = IF j = i THEN state ELSE calls[j].state
  <2> DEFINE call == [mid[i] EXCEPT !.limited = b]
  <2>1. /\ DOMAIN calls' = DOMAIN calls /\ calls'[i] = call
        /\ \A j \in DOMAIN calls : j # i => calls'[j] = calls[j]
    BY <1>3, <1>6
  <2>2. call = [asks |-> calls[i].asks, state |-> state, limited |-> b]
    BY <1>3
  <2> HIDE DEF call
  <2> QED
    BY <1>2, <2>1, <2>2
<1> QED
  BY <1>4, <1>5, <1>6

\* What is asked stays asked.
LEMMA AsksStay ==
  ASSUME NEW cs, NEW ds, DOMAIN ds = DOMAIN cs, \A j \in DOMAIN cs : ds[j].asks = cs[j].asks,
         NEW i \in DOMAIN cs, NEW c, NEW count, AsksWell(cs, c, count)
  PROVE  AsksWell(ds, c, count)
<1>1. cs # <<>>
  OBVIOUS
<1>2. Whole(cs, c)
  BY <1>1 DEF AsksWell
<1>3. Whole(ds, c)
  <2> SUFFICES ASSUME NEW tool \in DOMAIN c
               PROVE  Cardinality({k \in DOMAIN ds : tool \in ds[k].asks}) = 1
    BY DEF Whole
  <2>1. {k \in DOMAIN ds : tool \in ds[k].asks} = {k \in DOMAIN cs : tool \in cs[k].asks}
    OBVIOUS
  <2> QED
    BY <1>2, <2>1 DEF Whole
<1> QED
  BY <1>3 DEF AsksWell

LEMMA CallStep ==
  ASSUME SelectInv, NEW i \in DOMAIN calls, Send(i) \/ Answer(i) \/ Fail(i) \/ Abandon(i) \/ Cut(i)
  PROVE  SelectInv'
<1>1. /\ Flags /\ SelectHolds(turn, at, live, failed, calls, decision)
      /\ \A j \in DOMAIN calls : CallFits(calls[j])
  BY DEF SelectInv, SelectHolds
<1>2. /\ turn' = turn /\ at' = at /\ live' = live /\ decision' = decision /\ omitted' = omitted
      /\ words' = words /\ limited' = limited /\ corrected' = corrected
      /\ at \in {"deciding", "selecting"}
  BY DEF Send, Answer, Fail, Abandon, Cut, wordsVars, Calling
<1>3. PICK state \in CallStates :
        /\ MovesTo(i, state)
        /\ failed' = failed \/ failed' = TRUE
        /\ failed' # failed \/ state = "cancelled" => state = "failed" \/ ~live \/ failed
        /\ calls[i].state \in InFlight \union {"queued"}
        /\ measured' \in {measured, measured \union {"decision"}}
  <2>1. CASE Send(i)
    <3>1. "asked" \in CallStates /\ "cancelled" \in CallStates
      BY DEF CallStates, InFlight
    <3>2. CASE CallsLive
      <4>1. calls' = [calls EXCEPT ![i].state = "asked", ![i].limited = "decision" \in measured]
        BY <2>1, <3>2 DEF Send
      <4>2. ("decision" \in measured) \in BOOLEAN
        OBVIOUS
      <4> DEFINE patient == "decision" \in measured
      <4>3. \E b \in BOOLEAN : calls' = [calls EXCEPT ![i].state = "asked", ![i].limited = b]
        <5>1. patient \in BOOLEAN /\ calls' = [calls EXCEPT ![i].state = "asked", ![i].limited = patient]
          BY <4>1, <4>2, Zenon
        <5> HIDE DEF patient
        <5> QED
          BY <5>1, Zenon
      <4>4. failed' = failed /\ measured' = measured /\ calls[i].state = "queued"
        BY <2>1 DEF Send
      <4> QED
        BY <3>1, <4>3, <4>4 DEF MovesTo
    <3>3. CASE ~CallsLive
      <4>1. calls' = [calls EXCEPT ![i].state = "cancelled"]
        BY <2>1, <3>3 DEF Send
      <4>2. failed' = failed /\ measured' = measured /\ calls[i].state = "queued"
        BY <2>1 DEF Send
      <4> QED
        BY <3>1, <3>3, <4>1, <4>2 DEF CallsLive, MovesTo
    <3> QED
      BY <3>2, <3>3
  <2>2. CASE Answer(i)
    BY <2>2 DEF Answer, Move, MovesTo, CallStates, InFlight
  <2>3. CASE Fail(i)
    BY <2>3 DEF Fail, Move, MovesTo, CallStates, InFlight
  <2>4. CASE Abandon(i)
    BY <2>4 DEF Abandon, Move, MovesTo, CallStates, InFlight, CallsLive
  <2>5. CASE Cut(i)
    BY <2>5 DEF Cut, Move, MovesTo, CallStates, InFlight
  <2> QED
    BY <2>1, <2>2, <2>3, <2>4, <2>5
<1>4. /\ DOMAIN calls' = DOMAIN calls
      /\ \A j \in DOMAIN calls : /\ CallFits(calls'[j]) /\ calls'[j].asks = calls[j].asks
                                 /\ calls'[j].state = IF j = i THEN state ELSE calls[j].state
  BY <1>1, <1>3, CallMoves
<1>5. at = "selecting" => AsksWell(calls', turn.catalog, decision.count)
  BY <1>1, <1>4, AsksStay DEF SelectHolds
<1>6. Reasoned(live, failed, calls)
  BY <1>1, <1>2 DEF SelectHolds
<1>7. \A j \in DOMAIN calls : calls[j].state = "failed" => calls'[j].state = "failed"
  BY <1>3, <1>4 DEF InFlight
<1>8. Reasoned(live, failed', calls')
  <2> SUFFICES ASSUME failed' \/ \E j \in DOMAIN calls' : calls'[j].state = "cancelled", live
               PROVE  \E j \in DOMAIN calls' : calls'[j].state = "failed"
    BY DEF Reasoned
  <2>1. CASE state = "failed"
    BY <1>4, <2>1
  <2>2. CASE state # "failed"
    <3>1. failed \/ \E j \in DOMAIN calls : calls[j].state = "cancelled"
      <4>1. CASE failed'
        BY <1>3, <2>2, <4>1
      <4>2. CASE \E j \in DOMAIN calls' : calls'[j].state = "cancelled"
        BY <1>3, <1>4, <2>2, <4>2
      <4> QED
        BY <4>1, <4>2
    <3>2. \E j \in DOMAIN calls : calls[j].state = "failed"
      BY <1>6, <3>1 DEF Reasoned
    <3> QED
      BY <1>4, <1>7, <3>2
  <2> QED
    BY <2>1, <2>2
<1>9. Flags'
  BY <1>1, <1>2, <1>3 DEF Flags
<1>10. SelectHolds(turn, at, live, failed', calls', decision)
  BY <1>1, <1>2, <1>4, <1>5, <1>8 DEF SelectHolds
<1> QED
  BY <1>2, <1>9, <1>10, Zenon DEF SelectInv

\* What only says of what kind each variable is.
LEMMA FlagsStep ==
  ASSUME Flags, IntakeNext
  PROVE  Flags'
<1>1. CASE \E i \in DOMAIN calls : Send(i) \/ Answer(i) \/ Fail(i) \/ Abandon(i) \/ Cut(i)
  BY <1>1 DEF Send, Answer, Fail, Abandon, Cut, wordsVars, Flags
<1>2. CASE Plan \/ PlanNeed
  BY <1>2 DEF Plan, PlanNeed, Decided, Refuse, wordsVars, Flags, Phases
<1>3. CASE ReadDecisions
  <2>1. UNCHANGED <<live, measured, wordsVars>>
    BY <1>3 DEF ReadDecisions
  <2>2. CASE Refuse(FirstCallError) /\ UNCHANGED <<calls, failed, omitted>>
    BY <2>1, <2>2 DEF Refuse, Flags, Phases, wordsVars
  <2>3. ASSUME NEW skipped, NEW read, NEW asks, Reads(skipped, read, asks)
        PROVE  Flags'
    <3>1. omitted' \in BOOLEAN
      BY <2>3, Zenon DEF Reads
    <3>2. at' \in {"done", "selecting"} /\ failed' \in {failed, FALSE}
      BY <2>3 DEF Reads, Refuse
    <3> QED
      BY <2>1, <3>1, <3>2 DEF Flags, Phases, wordsVars
  <2> QED
    BY <1>3, <2>2, <2>3, ReadingIs, Zenon
<1>4. CASE ReadSelection
  <2>1. /\ UNCHANGED <<live, failed, measured, omitted>>
        /\ \/ \E why : Refuse(why) /\ UNCHANGED wordsVars
           \/ \E d : Decided(d) /\ UNCHANGED wordsVars
           \/ /\ at' = "wording" /\ words' = "asked" /\ limited' = ("words" \in measured)
              /\ corrected' = corrected
    BY <1>4, PickIs DEF ReadSelection, Picks
  <2>2. CASE at' = "wording" /\ words' = "asked" /\ limited' = ("words" \in measured) /\ corrected' = corrected
    <3>0. ("words" \in measured) \in BOOLEAN
      OBVIOUS
    <3>1. limited' \in BOOLEAN
      BY <2>2, <3>0, Zenon
    <3>2. at' = "wording" /\ words' = "asked" /\ corrected' = corrected
      BY <2>2
    <3> QED
      BY <2>1, <3>1, <3>2 DEF Flags, Phases, InFlight
  <2>3. CASE at' = "done" /\ UNCHANGED wordsVars
    BY <2>1, <2>3 DEF Flags, Phases, wordsVars
  <2> QED
    BY <2>1, <2>2, <2>3, Zenon DEF Refuse, Decided
<1>5. CASE ReadNeed
  <2>1. at' = "done" /\ UNCHANGED <<live, failed, measured, omitted, wordsVars>>
    BY <1>5 DEF ReadNeed, Refuse, Decided
  <2> QED
    BY <2>1 DEF Flags, Phases, wordsVars
<1>6. CASE WordsArrive \/ WordsCut \/ WordsFail
  BY <1>6 DEF WordsArrive, WordsCut, WordsFail, Decided, Refuse, Flags, Phases, InFlight
<1>7. CASE WordsMalformed
  <2>1. /\ UNCHANGED <<live, failed, omitted>> /\ measured' \in {measured, measured \union {"words"}}
        /\ \/ at' = at /\ corrected' = TRUE /\ words' = "asked" /\ limited' \in BOOLEAN
           \/ at' = "done" /\ words' = "none" /\ UNCHANGED <<limited, corrected>>
    <3>0. ("words" \in measured') \in BOOLEAN
      OBVIOUS
    <3>1. CASE live /\ ~corrected
      <4>1. /\ UNCHANGED <<live, failed, omitted, at>> /\ corrected' = TRUE /\ words' = "asked"
            /\ measured' \in {measured, measured \union {"words"}} /\ limited' = ("words" \in measured')
        BY <1>7, <3>1, Zenon DEF WordsMalformed
      <4>2. limited' \in BOOLEAN
        BY <3>0, <4>1, Zenon
      <4> QED
        BY <4>1, <4>2, Zenon
    <3>2. CASE ~(live /\ ~corrected)
      <4>1. /\ UNCHANGED <<live, failed, omitted>> /\ measured' \in {measured, measured \union {"words"}}
            /\ words' = "none" /\ UNCHANGED <<limited, corrected>>
            /\ Decided(HandToAgentLoop(decision)) \/ Refuse("malformed")
        BY <1>7, <3>2, Zenon DEF WordsMalformed
      <4> QED
        BY <4>1, Zenon DEF Decided, Refuse
    <3> QED
      BY <3>1, <3>2
  <2> QED
    BY <2>1 DEF Flags, Phases, InFlight
<1>8. CASE CallerLeaves
  BY <1>8 DEF CallerLeaves, Flags, wordsVars
<1> QED
  BY <1>1, <1>2, <1>3, <1>4, <1>5, <1>6, <1>7, <1>8 DEF IntakeNext

\* Planning ends, with no tools or with tools that come of a whole selection.
LEMMA EndStep ==
  ASSUME SelectInv, Flags', turn' = turn, calls' = calls, at' \in {"wording", "done"},
         decision' \in Decisions(Nat, Nat),
         turn.routing = "none" => PickedWhole(turn, calls, decision'.tools)
  PROVE  SelectInv'
<1>1. \A i \in DOMAIN calls : CallFits(calls[i])
  BY DEF SelectInv, SelectHolds
<1>2. SelectHolds(turn, at', live', failed', calls, decision')
  BY <1>1 DEF SelectHolds
<1> QED
  BY <1>2, Zenon DEF SelectInv

LEMMA RefuseStep ==
  ASSUME SelectInv, Flags', turn' = turn, calls' = calls, NEW why, Refuse(why), at # "done"
  PROVE  SelectInv'
<1>1. at \in {"plan", "deciding", "selecting", "wording"}
  BY DEF SelectInv, Flags, Phases
<1>2. decision' = decision /\ decision \in Decisions(Nat, Nat) /\ at' = "done"
  BY DEF Refuse, SelectInv, SelectHolds
<1>3. turn.routing = "none" => PickedWhole(turn, calls, decision.tools)
  <2>1. CASE at = "wording"
    BY <2>1 DEF SelectInv, SelectHolds
  <2>2. CASE at # "wording"
    BY <1>1, <2>2 DEF SelectInv, SelectHolds, PickedWhole
  <2> QED
    BY <2>1, <2>2
<1> QED
  BY <1>2, <1>3, EndStep

LEMMA BlankTools == Blank.tools = {} /\ Blank.count # "one"
BY DEF Blank

LEMMA GivenAnyhow == ASSUME NEW t \in Turns PROVE t.given \in Decisions(Nat, Nat)
<1>1. t \in TurnsToPlan
  BY TurnsAssumption
<1> QED
  BY <1>1, Zenon DEF TurnsToPlan

LEMMA NewCalls ==
  ASSUME NEW cs, \A i \in DOMAIN cs : CallFits(cs[i]) /\ cs[i].state = "queued", NEW lv
  PROVE  Reasoned(lv, FALSE, cs)
BY DEF Reasoned

LEMMA SelectPlan ==
  ASSUME PlanInv, SelectInv, Flags', Plan
  PROVE  SelectInv'
<1> DEFINE given == NormalizeTurnDecision(turn.given, turn.request)
<1>1. /\ turn \in Turns /\ turn' = turn /\ at = "plan" /\ decision = Blank /\ ~failed
      /\ failed' = failed /\ live' = live
  BY DEF Plan, PlanInv, PlanHolds, SelectInv, SelectHolds
<1>2. turn.given \in Decisions(Nat, Nat) /\ AskedOf(turn.request)
  BY <1>1, TurnFacts, GivenAnyhow
<1>3. CASE turn.routing = "exact" /\ Decided(turn.given) /\ UNCHANGED calls
  BY <1>1, <1>2, <1>3, EndStep DEF Decided
<1>4. CASE turn.routing = "given" /\ ~IsInvalid(given) /\ Decided(given) /\ UNCHANGED calls
  <2>1. given \in Decisions(Nat, Nat)
    BY <1>2, <1>4, GivenHolds
  <2> HIDE DEF given
  <2> QED
    BY <1>1, <1>4, <2>1, EndStep DEF Decided
<1>5. ASSUME NEW why, Refuse(why), UNCHANGED calls PROVE SelectInv'
  BY <1>1, <1>5, RefuseStep
<1>6. CASE /\ turn.routing = "none" /\ at' = "deciding" /\ UNCHANGED <<decision, error>>
           /\ calls' = LET asks == RouterQuestions(turn.request)
                       IN  IF asks = {} THEN <<>> ELSE Requests(<<asks>>)
  <2>1. \A i \in DOMAIN calls' : CallFits(calls'[i]) /\ calls'[i].state = "queued"
    <3> DEFINE asks == RouterQuestions(turn.request)
    <3> HIDE DEF asks
    <3>1. calls' = IF asks = {} THEN <<>> ELSE Requests(<<asks>>)
      BY <1>6 DEF asks
    <3>2. CASE calls' = <<>>
      BY <3>2
    <3>3. CASE calls' = Requests(<<asks>>)
      <4> DEFINE askings == <<asks>>
      <4> HIDE DEF askings
      <4>1. \A i \in DOMAIN calls' : calls'[i] = [asks |-> askings[i], state |-> "queued", limited |-> FALSE]
        <5>1. calls' = [i \in DOMAIN askings |-> [asks |-> askings[i], state |-> "queued", limited |-> FALSE]]
          BY <3>3, Zenon DEF Requests, Queued, askings
        <5> QED
          BY <5>1
      <4>2. "queued" \in CallStates
        BY DEF CallStates
      <4>3. ASSUME NEW i \in DOMAIN calls' PROVE CallFits(calls'[i]) /\ calls'[i].state = "queued"
        <5> DEFINE call == calls'[i]
        <5>1. call = [asks |-> askings[i], state |-> "queued", limited |-> FALSE]
          BY <4>1
        <5> HIDE DEF call
        <5>2. CallFits(call) /\ call.state = "queued"
          BY <4>2, <5>1 DEF CallFits
        <5> QED
          BY <5>2 DEF call
      <4> QED
        BY <4>3
    <3> QED
      BY <3>1, <3>2, <3>3
  <2>2. Reasoned(live, failed, calls')
    BY <1>1, <2>1 DEF Reasoned
  <2>3. Blank \in Decisions(Nat, Nat)
    BY BlankIs
  <2>4. SelectHolds(turn, at', live, failed, calls', decision')
    BY <1>1, <1>6, <2>1, <2>2, <2>3, BlankTools DEF SelectHolds
  <2> QED
    BY <1>1, <2>4, Zenon DEF SelectInv
<1> QED
  BY <1>3, <1>4, <1>5, <1>6, Zenon DEF Plan

LEMMA SelectPlanNeed ==
  ASSUME PlanInv, SelectInv, Flags', PlanNeed
  PROVE  SelectInv'
<1>1. /\ turn \in Turns /\ turn' = turn /\ at = "plan" /\ decision = Blank /\ ~failed
      /\ failed' = failed /\ live' = live
  BY DEF PlanNeed, PlanInv, PlanHolds, SelectInv, SelectHolds
<1>2. CASE Refuse("unavailable") /\ UNCHANGED calls
  BY <1>1, <1>2, RefuseStep
<1>3. CASE at' = "selecting" /\ calls' = Requests(Selection("several")) /\ UNCHANGED <<decision, error>>
  <2>1. /\ AsksWell(calls', turn.catalog, "several")
        /\ \A i \in DOMAIN calls' : CallFits(calls'[i]) /\ calls'[i].state = "queued"
    BY <1>1, <1>3, SelectionAsks
  <2>2. AsksWell(calls', turn.catalog, decision'.count)
    BY <1>1, <1>3, <2>1, BlankTools DEF AsksWell
  <2>3. Reasoned(live, failed, calls')
    BY <1>1, <2>1 DEF Reasoned
  <2>4. Blank \in Decisions(Nat, Nat)
    BY BlankIs
  <2>5. SelectHolds(turn, at', live, failed, calls', decision')
    BY <1>1, <1>3, <2>1, <2>2, <2>3, <2>4, BlankTools DEF SelectHolds
  <2> QED
    BY <1>1, <2>5, Zenon DEF SelectInv
<1> QED
  BY <1>2, <1>3 DEF PlanNeed

LEMMA SelectReadDecisions ==
  ASSUME PlanInv, PlanInv', SelectInv, Flags', ReadDecisions
  PROVE  SelectInv'
<1>1. turn \in Turns /\ turn' = turn /\ at = "deciding" /\ live' = live /\ turn.entry = "turn"
  BY DEF ReadDecisions, PlanInv, PlanHolds
<1>2. ASSUME NEW why, Refuse(why), UNCHANGED calls PROVE SelectInv'
  BY <1>1, <1>2, RefuseStep
<1>3. \/ \E why : Refuse(why) /\ UNCHANGED calls
      \/ /\ at' = "selecting" /\ failed' = FALSE
         /\ \E asks : asks \in {Selection(decision'.count), <<>>} /\ calls' = Requests(asks)
  <2>1. CASE Refuse(FirstCallError) /\ UNCHANGED <<calls, failed, omitted>>
    BY <2>1
  <2>2. ASSUME NEW skipped, NEW read, NEW asks, Reads(skipped, read, asks)
        PROVE  \/ \E why : Refuse(why) /\ UNCHANGED calls
               \/ /\ at' = "selecting" /\ failed' = FALSE
                  /\ \E as : as \in {Selection(decision'.count), <<>>} /\ calls' = Requests(as)
    BY <2>2 DEF Reads
  <2> QED
    BY <2>1, <2>2, ReadingIs, Zenon
<1>4. CASE /\ at' = "selecting" /\ failed' = FALSE
           /\ \E asks : asks \in {Selection(decision'.count), <<>>} /\ calls' = Requests(asks)
  <2> DEFINE count == decision'.count
  <2>1. ReadAs(decision')
    BY <1>1, <1>4 DEF PlanInv, PlanHolds
  <2>2. decision' \in Decisions({}, {}) /\ decision' \in Decisions(Nat, Nat)
    BY <2>1 DEF ReadAs
  <2>3. decision'.tools = {}
    BY <2>2 DEF Decisions
  <2>4. /\ AsksWell(calls', turn.catalog, count)
        /\ \A i \in DOMAIN calls' : CallFits(calls'[i]) /\ calls'[i].state = "queued"
    <3> HIDE DEF count
    <3>1. CASE calls' = Requests(Selection(count))
      BY <1>1, <3>1, SelectionAsks
    <3>2. CASE calls' = Requests(<<>>)
      <4>1. DOMAIN calls' = {}
        BY <3>2 DEF Requests
      <4>2. calls' = <<>>
        BY <3>2 DEF Requests
      <4> QED
        BY <4>1, <4>2 DEF AsksWell
    <3> QED
      BY <1>4, <3>1, <3>2 DEF count
  <2>5. Reasoned(live, failed', calls')
    BY <1>4, <2>4, NewCalls
  <2>6. SelectHolds(turn, at', live, failed', calls', decision')
    BY <1>4, <2>2, <2>3, <2>4, <2>5 DEF SelectHolds
  <2> QED
    BY <1>1, <2>6, Zenon DEF SelectInv
<1> QED
  BY <1>2, <1>3, <1>4

\* Tools that a settled selection picks come of the whole of it.
LEMMA SelectedAreWhole ==
  ASSUME SelectInv, turn \in Turns, at = "selecting",
         NEW count, NEW picked \in ToolAnswers(count), NEW T, T \subseteq SelectedTools(picked)
  PROVE  PickedWhole(turn, calls, T) /\ T \subseteq Nat
<1>1. AsksWell(calls, turn.catalog, decision.count)
  BY DEF SelectInv, SelectHolds
<1>2. \A i \in DOMAIN calls : calls[i].asks \subseteq DOMAIN turn.catalog
  BY <1>1 DEF AsksWell
<1>3. /\ DOMAIN turn.catalog \subseteq Nat /\ CountLimit(turn.limit) \in Nat
  BY CatalogFacts
<1>4. CASE calls = <<>> \/ FirstCallError # ""
  <2>1. SelectedTools(picked) = {}
    BY <1>4 DEF SelectedTools
  <2>2. T = {}
    BY <2>1
  <2> QED
    BY <2>2 DEF PickedWhole
<1>5. CASE calls # <<>> /\ FirstCallError = ""
  <2>1. SelectedTools(picked) = picked
    BY <1>5 DEF SelectedTools
  <2>2. FewOf(picked, DOMAIN turn.catalog, CountLimit(turn.limit))
    BY <1>2, AnswersAreFew
  <2>3. FewOf(T, DOMAIN turn.catalog, CountLimit(turn.limit))
    BY <1>3, <2>1, <2>2, FewerAreFew
  <2>4. \A i \in DOMAIN calls : calls[i].state = "answered"
    BY <1>5 DEF FirstCallError
  <2>5. Whole(calls, turn.catalog)
    BY <1>1, <1>5 DEF AsksWell
  <2> QED
    BY <1>3, <2>3, <2>4, <2>5 DEF PickedWhole, FewOf
<1> QED
  BY <1>4, <1>5

LEMMA SelectReadSelection ==
  ASSUME PlanInv, SelectInv, Flags', ReadSelection
  PROVE  SelectInv'
<1>1. /\ turn \in Turns /\ turn' = turn /\ at = "selecting" /\ turn.entry = "turn" /\ calls' = calls
      /\ ReadAs(decision)
  BY DEF ReadSelection, PlanInv, PlanHolds
<1>2. AskedOf(turn.request)
  BY <1>1, TurnFacts
<1>3. ASSUME NEW why, Refuse(why) PROVE SelectInv'
  BY <1>1, <1>3, RefuseStep
<1>4. PICK picked \in ToolAnswers(decision.count) :
        Picks(NormalizeDecidedTurnFields(
                [decision EXCEPT !.tools = SelectedTools(picked)], turn.request))
  BY PickIs, Zenon
<1> DEFINE names == SelectedTools(picked)
           x == [decision EXCEPT !.tools = names]
           f == NormalizeDecidedTurnFields(x, turn.request)
<1>5. \/ \E why : Refuse(why)
      \/ ~IsInvalid(f) /\ Decided(NormalizeTurnWords(f))
      \/ ~IsInvalid(f) /\ at' = "wording" /\ decision' = f
  BY <1>4, Zenon DEF Picks
<1> HIDE DEF names
<1>6. x \in Decisions(names, Nat) /\ x.tools = names
  <2>1. decision \in Decisions({}, Nat)
    BY <1>1 DEF ReadAs
  <2> QED
    BY <2>1 DEF Decisions
<1> HIDE DEF x
<1>7. ~IsInvalid(f) => f \in Decisions(names, Nat) /\ f.tools \subseteq names
  BY <1>2, <1>6, FieldsAre
<1> HIDE DEF f
<1>8. ASSUME NEW d \in Decisions(names, Nat), d.tools \subseteq names
      PROVE  d \in Decisions(Nat, Nat) /\ PickedWhole(turn, calls, d.tools)
  <2>1. PickedWhole(turn, calls, d.tools) /\ d.tools \subseteq Nat
    <3> DEFINE T == d.tools
    <3>1. T \subseteq SelectedTools(picked)
      BY <1>8 DEF names
    <3> HIDE DEF T
    <3>2. PickedWhole(turn, calls, T) /\ T \subseteq Nat
      BY <1>1, <3>1, SelectedAreWhole
    <3> QED
      BY <3>2 DEF T
  <2> QED
    BY <2>1, <1>8, Retooled
<1>9. CASE ~IsInvalid(f) /\ Decided(NormalizeTurnWords(f))
  <2> DEFINE g == NormalizeTurnWords(f)
  <2>1. g \in Decisions(names, Nat) /\ g.tools = f.tools
    BY <1>7, <1>9, WordsAre DEF SameWork
  <2>2. Decided(g)
    BY <1>9
  <2> HIDE DEF g
  <2>3. g \in Decisions(Nat, Nat) /\ PickedWhole(turn, calls, g.tools)
    BY <1>7, <1>8, <1>9, <2>1
  <2> QED
    BY <1>1, <2>2, <2>3, EndStep DEF Decided
<1>10. CASE ~IsInvalid(f) /\ at' = "wording" /\ decision' = f
  <2>1. f \in Decisions(Nat, Nat) /\ PickedWhole(turn, calls, f.tools)
    BY <1>7, <1>8, <1>10
  <2> QED
    BY <1>1, <1>10, <2>1, EndStep
<1> QED
  BY <1>3, <1>5, <1>9, <1>10

LEMMA SelectReadNeed ==
  ASSUME PlanInv, SelectInv, Flags', ReadNeed
  PROVE  SelectInv'
<1>1. /\ turn \in Turns /\ turn' = turn /\ at = "selecting" /\ calls' = calls
      /\ decision \in Decisions(Nat, Nat)
  BY DEF ReadNeed, PlanInv, PlanHolds, SelectInv, SelectHolds
<1>2. PICK picked \in ToolAnswers("several") :
        IF FirstCallError # "" THEN Refuse(FirstCallError)
        ELSE Decided([decision EXCEPT !.tools = SelectedTools(picked)])
  BY DEF ReadNeed
<1>3. CASE Refuse(FirstCallError)
  BY <1>1, <1>3, RefuseStep
<1>4. CASE Decided([decision EXCEPT !.tools = SelectedTools(picked)])
  <2> DEFINE names == SelectedTools(picked)
             d == [decision EXCEPT !.tools = names]
  <2>1. PickedWhole(turn, calls, names) /\ names \subseteq Nat
    <3>1. names \subseteq SelectedTools(picked)
      OBVIOUS
    <3> HIDE DEF names
    <3> QED
      BY <1>1, <3>1, SelectedAreWhole
  <2>2. at' = "done" /\ decision' = d
    BY <1>4 DEF Decided
  <2> HIDE DEF names
  <2>3. d \in Decisions(Nat, Nat) /\ d.tools = names
    BY <1>1, <2>1 DEF Decisions
  <2> HIDE DEF d
  <2> QED
    BY <1>1, <2>1, <2>2, <2>3, EndStep
<1> QED
  BY <1>2, <1>3, <1>4

LEMMA SelectWords ==
  ASSUME PlanInv, SelectInv, Flags', WordsArrive \/ WordsMalformed \/ WordsCut \/ WordsFail
  PROVE  SelectInv'
<1>1. /\ turn \in Turns /\ turn' = turn /\ at = "wording" /\ calls' = calls
      /\ decision \in Decisions(NamesOf(turn), HintsOf(turn)) /\ Proposed(decision, turn.request)
  BY DEF WordsArrive, WordsMalformed, WordsCut, WordsFail, PlanInv, PlanHolds
<1>2. AskedOf(turn.request) /\ WordSets \subseteq TurnWords(Nat)
  BY <1>1, TurnFacts, TurnsAssumption
<1>3. decision \in Decisions(Nat, Nat) /\ (turn.routing = "none" => PickedWhole(turn, calls, decision.tools))
  BY <1>1 DEF SelectInv, SelectHolds
<1>4. decision \in Decisions(decision.tools, Nat)
  BY <1>3, Retooled
<1>5. ASSUME NEW d, d \in Decisions(decision.tools, Nat), Decided(d)
      PROVE  SelectInv'
  <2>1. d.tools \subseteq decision.tools /\ decision.tools \subseteq Nat
    BY <1>3, <1>5, DecisionFields
  <2>2. d \in Decisions(Nat, Nat)
    BY <1>5, <2>1, Retooled
  <2>3. turn.routing = "none" => PickedWhole(turn, calls, d.tools)
    <3> DEFINE T == decision.tools
               U == d.tools
    <3>1. U \subseteq T /\ CountLimit(turn.limit) \in Nat
      BY <1>1, <2>1, CatalogFacts
    <3>2. turn.routing = "none" => PickedWhole(turn, calls, T)
      BY <1>3
    <3> HIDE DEF T, U
    <3>3. turn.routing = "none" => PickedWhole(turn, calls, U)
      BY <3>1, <3>2, FewerAreFew DEF PickedWhole
    <3> QED
      BY <3>3 DEF U
  <2>4. at' = "done" /\ decision' = d
    BY <1>5 DEF Decided
  <2> QED
    BY <1>1, <2>2, <2>3, <2>4, EndStep
<1>6. ASSUME NEW why, Refuse(why) PROVE SelectInv'
  BY <1>1, <1>6, RefuseStep
<1>7. CASE UNCHANGED <<at, decision>>
  BY <1>1, <1>3, <1>7, EndStep
<1>8. CASE WordsArrive
  <2>1. PICK written \in WordSets :
          /\ WordsAreValid(decision, written)
          /\ LET worded == WithTurnWords(decision, written)
                 starts == /\ IsClarificationReview(decision)
                           /\ written.disposition = "start_work"
             IN  Decided(NormalizeTurnWords(IF starts THEN StartClarifiedWork(worded) ELSE worded))
    BY <1>8, Zenon DEF WordsArrive
  <2> DEFINE worded == WithTurnWords(decision, written)
             starts == IsClarificationReview(decision) /\ written.disposition = "start_work"
             f == NormalizeTurnWords(IF starts THEN StartClarifiedWork(worded) ELSE worded)
  <2>2. f \in Decisions(decision.tools, Nat)
    <3>1. written \in TurnWords(Nat)
      BY <1>2
    <3> QED
      BY <1>1, <1>2, <1>4, <2>1, <3>1, ArriveIs
  <2>3. Decided(f)
    BY <2>1
  <2> HIDE DEF f
  <2> QED
    BY <1>5, <2>2, <2>3
<1>9. CASE WordsMalformed
  <2>1. \/ UNCHANGED <<at, decision, error>>
        \/ Decided(HandToAgentLoop(decision))
        \/ Refuse("malformed")
    BY <1>9, Zenon DEF WordsMalformed
  <2>2. HandToAgentLoop(decision) \in Decisions(decision.tools, Nat)
    BY <1>1, <1>2, <1>4, HandedIs
  <2> QED
    BY <1>5, <1>6, <1>7, <2>1, <2>2
<1>10. CASE WordsCut
  BY <1>7, <1>10 DEF WordsCut
<1>11. CASE WordsFail
  BY <1>6, <1>11 DEF WordsFail
<1> QED
  BY <1>8, <1>9, <1>10, <1>11

LEMMA SelectingStep ==
  ASSUME PlanInv, PlanInv', SelectInv, IntakeNext
  PROVE  SelectInv'
<1>1. Flags'
  BY FlagsStep DEF SelectInv
<1>2. CASE CallerLeaves
  <2>1. turn' = turn /\ at' = at /\ live' = FALSE /\ failed' = failed /\ calls' = calls /\ decision' = decision
    BY <1>2 DEF CallerLeaves
  <2>2. SelectHolds(turn, at, live, failed, calls, decision)
    BY DEF SelectInv
  <2>3. SelectHolds(turn, at, FALSE, failed, calls, decision)
    BY <2>2 DEF SelectHolds, Reasoned
  <2> QED
    BY <1>1, <2>1, <2>3, Zenon DEF SelectInv
<1>3. CASE \E i \in DOMAIN calls : Send(i) \/ Answer(i) \/ Fail(i) \/ Abandon(i) \/ Cut(i)
  BY <1>3, CallStep
<1> QED
  BY <1>1, <1>2, <1>3, SelectPlan, SelectPlanNeed, SelectReadDecisions, SelectReadSelection,
     SelectReadNeed, SelectWords DEF IntakeNext

LEMMA SelectInit == ASSUME IntakeInit PROVE SelectInv
<1>1. Blank \in Decisions(Nat, Nat)
  BY BlankIs
<1>2. calls = <<>> /\ at = "plan" /\ decision = Blank /\ failed = FALSE
  BY DEF IntakeInit
<1>3. SelectHolds(turn, at, live, failed, calls, decision)
  BY <1>1, <1>2, BlankTools DEF SelectHolds
<1>4. Flags
  BY DEF IntakeInit, Flags, Phases
<1> QED
  BY <1>3, <1>4 DEF SelectInv

LEMMA SelectTaskStep ==
  ASSUME PlanInv, PlanInv', SelectInv, [TaskNext]_allVars
  PROVE  SelectInv'
<1>1. CASE PlanIt
  BY <1>1, SelectingStep DEF PlanIt
<1>2. CASE MessageArrives
  <2>1. /\ at' = "plan" /\ live' = TRUE /\ failed' = FALSE /\ calls' = <<>> /\ measured' = {}
        /\ omitted' = FALSE /\ decision' = Blank /\ words' = "none" /\ limited' = FALSE
        /\ corrected' = FALSE
    BY <1>2 DEF MessageArrives
  <2>2. Blank \in Decisions(Nat, Nat)
    BY BlankIs
  <2>3. SelectHolds(turn', at', live', failed', calls', decision')
    BY <2>1, <2>2, BlankTools DEF SelectHolds
  <2>4. Flags'
    BY <2>1 DEF Flags, Phases
  <2> QED
    BY <2>3, <2>4 DEF SelectInv
<1>3. CASE UNCHANGED intakeVars
  <2>1. /\ UNCHANGED <<turn, at, live, failed, calls, decision>>
        /\ UNCHANGED <<omitted, limited, corrected, measured, words>>
    BY <1>3 DEF intakeVars
  <2>2. Flags'
    BY <2>1 DEF Flags, SelectInv
  <2> QED
    BY <2>1, <2>2, Zenon DEF SelectInv
<1> QED
  BY <1>1, <1>2, <1>3 DEF TaskNext, TakeUp, TurnEnds, Crash, ResumeTask, allVars

\* A selection stays whole as it is planned, asked, cut, failed and read.
THEOREM SelectionInvariant == TaskSpec => []SelectInv
<1>1. TaskInit => SelectInv
  BY SelectInit DEF TaskInit
<1>2. PlanInv /\ PlanInv' /\ SelectInv /\ [TaskNext]_allVars => SelectInv'
  BY SelectTaskStep
<1> QED
  BY <1>1, <1>2, PlanningInvariant, PTL DEF TaskSpec

\* A selection split over several requests picks like one request that asked of
\* every tool, whatever the catalog, the budget and the models' answers: each tool
\* is asked about exactly once, in requests that fit if every tool alone fits
\* (planToolSelection); tools are picked only when every call answered, and never
\* more than the limit (decideEveryRequest, likelyToolNamesByMessageKey); and no
\* call is cancelled because another outlived its patience (askPatiently).
THEOREM SelectionHoldsAlways == TaskSpec => []SelectionHolds
<1>1. PlanInv /\ SelectInv => SelectionHolds
  <2> SUFFICES ASSUME PlanInv, SelectInv PROVE SelectionHolds
    OBVIOUS
  <2>1. SelectHolds(turn, at, live, failed, calls, decision) /\ Flags
    BY DEF SelectInv
  <2>2. \A i \in DOMAIN calls : calls[i].state \in CallStates /\ calls[i].limited \in BOOLEAN
    <3>1. \A i \in DOMAIN calls : calls[i] \in [asks : {calls[i].asks}, state : CallStates, limited : BOOLEAN]
      BY <2>1 DEF SelectHolds, CallFits
    <3> QED
      BY <3>1
  <2>3. IntakeTypeOK
    BY <2>1, <2>2 DEF IntakeTypeOK, Flags, SelectHolds, PlanInv, PlanHolds
  <2>4. SelectionIsWhole
    BY <2>1 DEF SelectionIsWhole, SelectHolds, PickedWhole, Whole, FewOf
  <2>5. FitsWhenItCan
    BY <2>1 DEF FitsWhenItCan, SelectHolds, AsksWell
  <2>6. CutIsNotAFailure
    BY <2>1 DEF CutIsNotAFailure, SelectHolds, Reasoned, Calling
  <2> QED
    BY <2>3, <2>4, <2>5, <2>6 DEF SelectionHolds
<1> QED
  BY <1>1, PlanningInvariant, SelectionInvariant, PTL

-----------------------------------------------------------------------------
(* The goal of a task                                                      *)

\* A goal over some of the names, of one of the runs so far.
Goals(n, names) ==
  [run : 0..n, status : GoalStatuses, contract : Contracts(names), named : SUBSET Current]

\* A goal that is saved owes what its messages spoke for, and so does one that
\* was read back, which is in shape.
GoalHolds(g, n) == g \in Goals(n, Tools) /\ Wants(NormalizePersisted(g.contract)) \subseteq g.named
HeldHolds(g, n) ==
  /\ g \in Goals(n, Current) /\ Shaped(g.contract)
  /\ NormalizePersisted(g.contract) = g.contract /\ Wants(g.contract) \subseteq g.named

\* A contract that a turn can meet, and one that asks for no input.
Meets(set, c) ==
  c \in Contracts(Current) /\ Shaped(c) /\ Clean(set, c) /\ RequiredNames(c) \subseteq set
AsksNothing(c) ==
  AskInput \notin NamedTools(c) /\ \A i \in DOMAIN c.results : AskInput \notin c.results[i].hints

LEMMA ToolsAre ==
  /\ Current \in SUBSET Tools /\ {FileDeliver, AskInput, MessageSend} \subseteq Current
  /\ MaxMessages \in Nat
BY ToolsAssumption, TaskAssumption DEF Current

LEMMA NoContractIs ==
  /\ NoContract \in Contracts(Current) /\ Shaped(NoContract)
  /\ NormalizePersisted(NoContract) = NoContract
  /\ Wants(NoContract) = {} /\ ~HasRequirements(NoContract)
<1> DEFINE none == <<>>
           c == [required |-> {}, anyOf |-> {}, hints |-> {}, files |-> FALSE,
                 results |-> none, artifact |-> "none"]
<1>0. none \in Seq(Results(Tools)) /\ Tidy(none) /\ ~WantsFile(none) /\ DOMAIN none = {}
  BY NoResults DEF WantsFile
<1>1. NoContract = c /\ (HasRequirements(c) <=> RequiredNames(c) # {} \/ c.files \/ c.results # none)
  BY DEF NoContract, HasRequirements
<1>2. ASSUME NEW s \in Seq(Results(Tools)), DOMAIN s = {} PROVE s = none
  BY <1>2
<1> HIDE DEF none
<1>3. c \in Contracts(Current)
  BY <1>0 DEF Contracts
<1>4. RequiredNames(c) = {} /\ NamedTools(c) = {}
  BY DEF RequiredNames, NamedTools
<1>5. ~FileIsRequired(c)
  BY <1>0, <1>3, ToolsAre, FileIsRequiredIs
<1>6. Shaped(c)
  BY <1>0, <1>5 DEF Shaped
<1>7. NormalizePersisted(c) = c
  <2> DEFINE p == NormalizePersisted(c)
  <2>1. /\ p \in Contracts(Current) /\ p.required = c.required /\ p.anyOf = c.anyOf
        /\ p.hints = c.hints /\ p.files = c.files /\ p.artifact = c.artifact
        /\ SameResults(c.results, p.results)
    BY <1>3, <1>6, ReadBack
  <2> HIDE DEF p
  <2>2. p.results \in Seq(Results(Tools)) /\ DOMAIN p.results = {}
    BY <1>0, <2>1, ToolsAre, ContractFields DEF HasFields, SameResults
  <2>3. p.results = c.results
    BY <1>2, <2>2
  <2> QED
    BY <1>3, <2>1, <2>3, ToolsAre, SameContract DEF p
<1>8. Wants(c) = {}
  BY <1>4, <1>5 DEF Wants
<1>9. ~HasRequirements(c)
  BY <1>1, <1>4
<1> QED
  BY <1>1, <1>3, <1>6, <1>7, <1>8, <1>9

\* Reading a contract in shape back changes nothing of what it wants.
LEMMA WantsReadBack ==
  ASSUME NEW c \in Contracts(Current), Shaped(c)
  PROVE  Wants(NormalizePersisted(c)) = Wants(c)
<1> DEFINE p == NormalizePersisted(c)
<1>1. /\ Shaped(p) /\ p.required = c.required /\ p.anyOf = c.anyOf
      /\ p.hints = c.hints /\ p.artifact = c.artifact
  BY ReadBack
<1> HIDE DEF p
<1>2. NamedTools(p) = NamedTools(c)
  BY <1>1 DEF NamedTools, RequiredNames
<1>3. FileIsRequired(p) <=> FileIsRequired(c)
  BY <1>1 DEF Shaped
<1> QED
  BY <1>2, <1>3 DEF Wants, p

LEMMA GoalFields ==
  ASSUME NEW n \in Nat, NEW T, NEW g \in Goals(n, T)
  PROVE  /\ g.run \in 0..n /\ g.status \in GoalStatuses /\ g.contract \in Contracts(T)
         /\ g.named \in SUBSET Current
         /\ \A S : \A c \in Contracts(S) :
              LET h == [g EXCEPT !.contract = c]
              IN  h \in Goals(n, S) /\ h.run = g.run /\ h.status = g.status /\ h.named = g.named
                  /\ h.contract = c
BY DEF Goals

LEMMA NoGoalIs ==
  ASSUME NEW n \in Nat
  PROVE  HeldHolds(NoGoal, n)
<1>1. NoGoal \in Goals(n, Current) /\ NoGoal.contract = NoContract
  BY NoContractIs DEF NoGoal, Goals, GoalStatuses
<1> QED
  BY <1>1, NoContractIs DEF HeldHolds

\* What is read back of a saved goal holds, in shape.
LEMMA ReadGoalIs ==
  ASSUME NEW n \in Nat, NEW g, GoalHolds(g, n)
  PROVE  LET h == [g EXCEPT !.contract = NormalizePersisted(@)]
         IN  HeldHolds(h, n) /\ h.run = g.run /\ h.named = g.named
<1>1. g \in Goals(n, Tools) /\ Wants(NormalizePersisted(g.contract)) \subseteq g.named
  BY DEF GoalHolds
<1> DEFINE p == NormalizePersisted(g.contract)
           h == [g EXCEPT !.contract = p]
<1>2. g.contract \in Contracts(Tools)
  BY <1>1, GoalFields
<1>3. p \in Contracts(Current) /\ Shaped(p) /\ NormalizePersisted(p) = p
  BY <1>2, PersistedIs
<1>4. Wants(p) \subseteq g.named
  BY <1>1
<1> HIDE DEF p
<1>5. h \in Goals(n, Current) /\ h.run = g.run /\ h.named = g.named /\ h.contract = p
  BY <1>1, <1>3, GoalFields
<1>6. HeldHolds(h, n)
  <2> HIDE DEF h
  <2> QED
    BY <1>3, <1>4, <1>5 DEF HeldHolds
<1> QED
  BY <1>5, <1>6 DEF p

\* What the messages spoke for covers what is held and what is said now.
SpeaksFor(held, said, spoken) ==
  /\ spoken \in SUBSET Current /\ said \in Decisions(Current, Tools)
  /\ Wants(held.contract) \subseteq spoken /\ SpokenBy(said) \subseteq spoken

LEMMA IntakeGoalIs ==
  ASSUME NEW n \in Nat, NEW held, HeldHolds(held, n), NEW run \in 0..n, NEW said, NEW spoken,
         SpeaksFor(held, said, spoken), NEW status \in GoalStatuses
  PROVE  GoalHolds(IntakeGoal(held, run, said, spoken, status), n)
<1> DEFINE k == IF held.run = run THEN held.contract ELSE NoContract
           rs == NormalizeExpectedResults(said.results)
           files == said.formats
           c == [k EXCEPT !.results = rs, !.files = files]
           d == IF HasRequirements(k) THEN k ELSE c
           g == [run |-> run, status |-> status, named |-> spoken, contract |-> d]
<1>0. IntakeGoal(held, run, said, spoken, status) = g
  BY Zenon DEF IntakeGoal
<1>1. /\ k \in Contracts(Current) /\ Shaped(k) /\ NormalizePersisted(k) = k
      /\ Wants(k) \subseteq spoken
  <2>1. /\ held.contract \in Contracts(Current) /\ Shaped(held.contract)
        /\ NormalizePersisted(held.contract) = held.contract /\ Wants(held.contract) \subseteq spoken
    BY GoalFields DEF HeldHolds, SpeaksFor
  <2> QED
    BY <2>1, NoContractIs
<1>2. /\ spoken \in SUBSET Current /\ files \in BOOLEAN
      /\ said.results \in Seq(Results(Tools)) /\ SpokenBy(said) \subseteq spoken
  BY DecisionFields DEF SpeaksFor
<1>3. rs \in Seq(Results(Tools)) /\ Tidy(rs) /\ (WantsFile(rs) => WantsFile(said.results))
  BY <1>2, NormPlaces, NormIsTidy, NormWants
<1>4. files \/ WantsFile(rs) => FileDeliver \in spoken
  BY <1>2, <1>3 DEF SpokenBy
<1> HIDE DEF k, rs, files
<1>5. d \in Contracts(Tools) /\ Wants(NormalizePersisted(d)) \subseteq spoken
  <2>1. CASE HasRequirements(k)
    <3>1. d = k
      BY <2>1
    <3>2. k \in Contracts(Tools)
      BY <1>1, ToolsAre DEF Contracts
    <3> QED
      BY <1>1, <3>1, <3>2
  <2>2. CASE ~HasRequirements(k)
    <3> DEFINE p == NormalizePersisted(c)
               r == RenamedContract(c)
    <3>1. /\ c \in Contracts(Current) /\ c \in Contracts(Tools) /\ c.required = k.required
          /\ c.anyOf = k.anyOf /\ c.hints = k.hints /\ c.artifact = k.artifact
          /\ c.files = files /\ c.results = rs
      BY <1>1, <1>2, <1>3, ToolsAre DEF Contracts
    <3> HIDE DEF c
    <3>2. /\ r \in Contracts(Current) /\ p = NormalizeOutcomeContract(r)
          /\ r.results = RenamedResults(rs) /\ r.files = files /\ r.artifact = k.artifact
          /\ r.required = k.required /\ r.anyOf = k.anyOf /\ r.hints = k.hints
      BY <3>1, RenamedContractIs
    <3>3. Tidy(r.results) /\ (WantsFile(r.results) <=> WantsFile(rs))
      BY <1>3, <3>2, RenamedResultsAre, SameResultsTidy
    <3> HIDE DEF p, r
    <3>4. FileIsRequired(r) <=> k.artifact = "required" \/ files \/ WantsFile(rs)
      BY <3>2, <3>3, ToolsAre, FileIsRequiredIs
    <3>5. k.artifact # "required"
      <4>1. FileDeliver \notin k.required
        BY <2>2 DEF HasRequirements, RequiredNames
      <4> QED
        BY <1>1, <4>1 DEF Shaped
    <3>6. FileIsRequired(r) => FileDeliver \in spoken
      BY <1>4, <3>4, <3>5
    <3>7. /\ FileIsRequired(p) <=> FileIsRequired(r)
          /\ p.required = IF FileIsRequired(r) THEN r.required \union {FileDeliver} ELSE r.required
          /\ p.anyOf = r.anyOf \ {{}} /\ p.hints = r.hints
      BY <3>2, ToolsAre, NormalizedIs
    <3>8. NamedTools(k) \subseteq spoken
      BY <1>1 DEF Wants
    <3>9. NamedTools(p) \subseteq NamedTools(k) \union (IF FileIsRequired(r) THEN {FileDeliver} ELSE {})
      BY <3>2, <3>7 DEF NamedTools, RequiredNames
    <3>10. Wants(p) \subseteq spoken
      BY <3>6, <3>7, <3>8, <3>9 DEF Wants
    <3>11. d = c
      BY <2>2
    <3> QED
      BY <3>1, <3>10, <3>11 DEF p
  <2> QED
    BY <2>1, <2>2
<1> HIDE DEF d
<1>6. g \in Goals(n, Tools) /\ g.contract = d /\ g.named = spoken
  BY <1>2, <1>5 DEF Goals
<1> HIDE DEF g
<1> QED
  BY <1>0, <1>5, <1>6 DEF GoalHolds

\* The goal of a turn asks for what its contract does.
LEMMA GoalForTurnIs ==
  ASSUME NEW n \in Nat, NEW held, HeldHolds(held, n), NEW contract, Meets(tools, contract),
         NEW spoken \in SUBSET Current, Wants(contract) \subseteq spoken, tools \in SUBSET Current
  PROVE  LET g == GoalForTurn(held, contract, spoken)
         IN  /\ g \in Goals(n, Current) /\ Meets(tools, g.contract) /\ Wants(g.contract) \subseteq g.named
             /\ AsksNothing(contract) => AsksNothing(g.contract)
<1> DEFINE g == GoalForTurn(held, contract, spoken)
           d == Reduced(tools, contract)
<1>1. contract \in Contracts(Current) /\ Shaped(contract) /\ Clean(tools, contract)
  BY DEF Meets
<1>2. NormalizeOutcomeContract(contract) = contract
  BY <1>1, ToolsAre, ShapedStays
<1>3. g = [run |-> held.run, status |-> IF held.status = "" THEN "active" ELSE held.status,
           named |-> spoken, contract |-> d]
  BY <1>2, Zenon DEF GoalForTurn
<1>4. /\ d \in Contracts(Current) /\ Shaped(d) /\ Narrows(contract, d, Tools \ tools)
      /\ RequiredNames(d) \subseteq tools
      /\ DOMAIN d.results = DOMAIN contract.results
      /\ \A i \in DOMAIN contract.results : d.results[i].hints = contract.results[i].hints
  BY <1>1, ToolsAre, ReducedIs
<1> HIDE DEF d
<1>5. Clean(tools, d) /\ Wants(d) \subseteq Wants(contract) /\ NamedTools(d) \subseteq NamedTools(contract)
  BY <1>1, <1>4, NarrowsClean, NarrowsNames
<1>6. Meets(tools, d) /\ Wants(d) \subseteq spoken /\ (AsksNothing(contract) => AsksNothing(d))
  BY <1>4, <1>5 DEF Meets, AsksNothing
<1>7. held.run \in 0..n /\ held.status \in GoalStatuses
  BY GoalFields DEF HeldHolds
<1>8. g \in Goals(n, Current) /\ g.contract = d /\ g.named = spoken
  <2> DEFINE status == IF held.status = "" THEN "active" ELSE held.status
  <2>1. status \in GoalStatuses /\ d \in Contracts(Current)
    BY <1>4, <1>7 DEF GoalStatuses
  <2>2. g = [run |-> held.run, status |-> status, named |-> spoken, contract |-> d]
    BY <1>3, Zenon
  <2> HIDE DEF g, status
  <2> QED
    BY <1>7, <2>1, <2>2 DEF Goals
<1> HIDE DEF g
<1>9. Meets(tools, g.contract) /\ Wants(g.contract) \subseteq g.named
  BY <1>6, <1>8
<1>10. AsksNothing(contract) => AsksNothing(g.contract)
  BY <1>6, <1>8, Zenon
<1> QED
  BY <1>8, <1>9, <1>10, Zenon DEF g

\* A goal under way may be saved as it is.
SavedAs(g, run, status) == [g EXCEPT !.run = IF @ = 0 THEN run ELSE @, !.status = status]
LEMMA GoalIsSaved ==
  ASSUME NEW n \in Nat, NEW g \in Goals(n, Current), Shaped(g.contract), Wants(g.contract) \subseteq g.named,
         NEW run \in 0..n, NEW status \in GoalStatuses
  PROVE  GoalHolds(SavedAs(g, run, status), n)
<1> DEFINE h == SavedAs(g, run, status)
<1>1. g.contract \in Contracts(Current) /\ Contracts(Current) \subseteq Contracts(Tools)
  BY ToolsAre, GoalFields DEF Contracts
<1>2. h \in Goals(n, Tools) /\ h.contract = g.contract /\ h.named = g.named
  BY <1>1 DEF Goals, SavedAs
<1> HIDE DEF h
<1>3. Wants(NormalizePersisted(g.contract)) = Wants(g.contract)
  BY <1>1, WantsReadBack
<1> QED
  BY <1>2, <1>3 DEF GoalHolds, h

-----------------------------------------------------------------------------
(* The turns of a task                                                     *)

Records == [1..MaxMessages -> Decisions(Current, Tools)]

\* A turn under way keeps what it carries on, asks once, and can be met.
Keeps(w, set) ==
  HasRequirements(w.prior.contract) => KeepsGoal(set, w.prior.contract, w.resolves, w.contract)
AsksOnce(w) == w.resolves => AsksNothing(w.contract) /\ AsksNothing(w.goal.contract)
TurnHolds(w, set, n) ==
  /\ w.decision \in Decisions(Current, Tools)
  /\ NormalizePersisted(w.prior.contract) = w.prior.contract
  /\ Keeps(w, set) /\ AsksOnce(w) /\ Meets(set, w.contract)
  /\ w.goal \in Goals(n, Current) /\ Meets(set, w.goal.contract)
  /\ Wants(w.goal.contract) \subseteq w.goal.named

WorkHolds(w, set, n) ==
  /\ w.at \in {"planning", "running", "stopped", "ended"}
  /\ w.at \in {"running", "stopped"} => w.run \in 1..n
  /\ w.at = "running" => TurnHolds(w, set, n)

LEMMA NoWorkIs ==
  ASSUME NEW set, NEW n, NEW run, NEW w,
         \/ w = NoWork
         \/ w = [NoWork EXCEPT !.at = "ended", !.run = run]
         \/ run \in 1..n /\ w = [NoWork EXCEPT !.at = "stopped", !.run = run]
  PROVE  WorkHolds(w, set, n)
<1>1. CASE w = NoWork
  BY <1>1 DEF WorkHolds, NoWork
<1>2. CASE w = [NoWork EXCEPT !.at = "ended", !.run = run]
  BY <1>2 DEF WorkHolds, NoWork
<1>3. CASE run \in 1..n /\ w = [NoWork EXCEPT !.at = "stopped", !.run = run]
  BY <1>3 DEF WorkHolds, NoWork
<1> QED
  BY <1>1, <1>2, <1>3

LEMMA EndsEarlyIs ==
  ASSUME NEW n \in 1..MaxMessages, recorded \in Records, NEW run \in 1..n,
         NEW said \in Decisions(Current, Tools), NEW saved, GoalHolds(saved, n), NEW records,
         EndsEarly(run, said, saved, records)
  PROVE  GoalHolds(goal', n) /\ WorkHolds(work', tools, n) /\ recorded' \in Records
<1>1. /\ goal' = saved /\ work' = [NoWork EXCEPT !.at = "ended", !.run = run]
      /\ recorded' = IF records THEN [recorded EXCEPT ![run] = said] ELSE recorded
  BY Zenon DEF EndsEarly
<1>2. WorkHolds(work', tools, n)
  BY <1>1, NoWorkIs
<1>3. recorded' \in Records
  <2>1. recorded' = [recorded EXCEPT ![run] = said] \/ recorded' = recorded
    BY <1>1, Zenon
  <2> QED
    BY <2>1, ToolsAre DEF Records
<1> QED
  BY <1>1, <1>2, <1>3, Zenon

LEMMA StartsTurnIs ==
  ASSUME NEW n \in 1..MaxMessages, GoalHolds(goal, n), tools \in SUBSET Current, recorded \in Records,
         NEW held, HeldHolds(held, n), NEW run \in 1..n, NEW said, NEW spoken,
         SpeaksFor(held, said, spoken), NEW request, IsRequest(request), NEW resolves \in BOOLEAN,
         request.tools = tools, request.goal = held.contract, request.decision = said,
         request.hints \subseteq spoken,
         StartsTurn(held, run, said, spoken, resolves, ContractOfTurn(request, resolves))
  PROVE  GoalHolds(goal', n) /\ WorkHolds(work', tools, n) /\ recorded' \in Records
<1> DEFINE c == ContractOfTurn(request, resolves)
           g == GoalForTurn(held, c, spoken)
           w == [at |-> "running", run |-> run, decision |-> said, prior |-> held,
                 resolves |-> resolves, contract |-> c, goal |-> g]
<1>1. work' = w /\ goal' = goal /\ recorded' = recorded
  BY Zenon DEF StartsTurn
<1>2. /\ c \in Contracts(Current) /\ Shaped(c) /\ Clean(tools, c) /\ RequiredNames(c) \subseteq tools
      /\ Wants(c) \subseteq Wants(held.contract) \union request.hints \union SpokenBy(said)
      /\ HasRequirements(held.contract) => KeepsGoal(tools, held.contract, resolves, c)
      /\ resolves => AskInput \notin NamedTools(c) /\ \A i \in DOMAIN c.results : AskInput \notin c.results[i].hints
  BY ContractOfTurnIs
<1> HIDE DEF c
<1>3. Wants(c) \subseteq spoken /\ spoken \in SUBSET Current /\ said \in Decisions(Current, Tools)
  BY <1>2 DEF SpeaksFor
<1>4. Meets(tools, c)
  BY <1>2 DEF Meets
<1>5. resolves => AsksNothing(c)
  BY <1>2, Zenon DEF AsksNothing
<1>6. n \in Nat
  BY ToolsAre
<1>7. /\ g \in Goals(n, Current) /\ Meets(tools, g.contract) /\ Wants(g.contract) \subseteq g.named
      /\ AsksNothing(c) => AsksNothing(g.contract)
  BY <1>3, <1>4, <1>6, GoalForTurnIs
<1> HIDE DEF g
<1>8. NormalizePersisted(held.contract) = held.contract
  BY DEF HeldHolds
<1>9. /\ w.at = "running" /\ w.run = run /\ w.decision = said /\ w.prior = held
      /\ w.resolves = resolves /\ w.contract = c /\ w.goal = g
  OBVIOUS
<1> HIDE DEF w
<1>10. Keeps(w, tools)
  BY <1>2, <1>9, Zenon DEF Keeps
<1>11. AsksOnce(w)
  BY <1>5, <1>7, <1>9, Zenon DEF AsksOnce
<1>12. TurnHolds(w, tools, n)
  BY <1>3, <1>4, <1>7, <1>8, <1>9, <1>10, <1>11, Zenon DEF TurnHolds
<1>13. WorkHolds(w, tools, n)
  BY <1>9, <1>12 DEF WorkHolds
<1> QED
  BY <1>1, <1>13, Zenon

\* The goal of a question, which holds no contract.
LEMMA QuestionGoal ==
  ASSUME NEW n \in Nat, NEW run \in 0..n, NEW named \in SUBSET Current
  PROVE  GoalHolds([NoGoal EXCEPT !.run = run, !.named = named, !.status = "waiting_user_input"], n)
<1> DEFINE asks == [NoGoal EXCEPT !.run = run, !.named = named, !.status = "waiting_user_input"]
<1>1. NoContract \in Contracts(Tools)
  BY NoContractIs, ToolsAre DEF Contracts
<1>2. NoGoal \in Goals(n, Tools) /\ NoGoal.contract = NoContract
  BY <1>1 DEF NoGoal, Goals, GoalStatuses
<1>3. "waiting_user_input" \in GoalStatuses
  BY DEF GoalStatuses
<1>4. asks \in Goals(n, Tools) /\ asks.contract = NoContract
  BY <1>2, <1>3 DEF Goals
<1> HIDE DEF asks
<1>5. Wants(NormalizePersisted(asks.contract)) \subseteq asks.named
  BY <1>4, NoContractIs
<1> QED
  BY <1>4, <1>5, Zenon DEF GoalHolds, asks

\* A request ends early or starts its turn, and what is saved of it holds.
LEMMA RunIs ==
  ASSUME NEW n \in 1..MaxMessages, GoalHolds(goal, n), tools \in SUBSET Current, recorded \in Records,
         NEW held, HeldHolds(held, n), NEW existing, RunFor(existing) \in 1..n, NEW said,
         NEW spokenFor, SpeaksFor(held, said, spokenFor), NEW restart,
         RunAgentRequest(held, existing, said, spokenFor, restart)
  PROVE  GoalHolds(goal', n) /\ WorkHolds(work', tools, n) /\ recorded' \in Records
<1> DEFINE run == RunFor(existing)
           resolves == Resolves(held, existing, said.route)
           Asking(hints, artifact) ==
             [tools |-> tools, goal |-> held.contract, decision |-> said,
              hints |-> hints, sends |-> FALSE, artifact |-> artifact]
           Spoken(hints) == spokenFor \union hints
           EndsAt(hints, status) ==
             EndsEarly(run, said, IntakeGoal(held, run, said, Spoken(hints), status), TRUE)
           Begins(hints, artifact, plan) ==
             StartsTurn(held, run, said, Spoken(hints), resolves,
                        ContractOfTurn([Asking(hints, artifact) EXCEPT !.sends = plan # <<>> /\
                            (plan[1].external \/ plan[1].thirdParty)], resolves))
<1>1. PICK hints \in HintSets, artifact \in {said.formats, FALSE} :
        \/ IntakeElapsed(held, run, said, Spoken(hints))
        \/ said.class = "needs_confirmation" /\ EndsAt(hints, "waiting_user_input")
        \/ said.class = "unsupported" /\ EndsAt(hints, "blocked")
        \/ /\ said.class \notin {"needs_confirmation", "unsupported"}
           /\ \E plan \in PlansFor(Asking(hints, artifact), restart) :
                IF plan # <<>> /\ Clarifies(plan[1], said)
                THEN \E saved \in {goal, [NoGoal EXCEPT !.run = run, !.named = Spoken(hints),
                                                  !.status = "waiting_user_input"]} :
                        EndsEarly(run, said, saved, TRUE)
                ELSE Begins(hints, artifact, plan)
  BY Zenon DEF RunAgentRequest
<1>2. hints \in SUBSET Current
  BY <1>1, TaskAssumption
<1>3. SpeaksFor(held, said, Spoken(hints)) /\ Spoken(hints) \in SUBSET Current
  BY <1>2 DEF SpeaksFor
<1>4. said \in Decisions(Current, Tools) /\ n \in Nat /\ run \in 0..n
  BY ToolsAre DEF SpeaksFor
<1>5. ASSUME NEW status \in GoalStatuses, NEW records,
             EndsEarly(run, said, IntakeGoal(held, run, said, Spoken(hints), status), records)
      PROVE  GoalHolds(goal', n) /\ WorkHolds(work', tools, n) /\ recorded' \in Records
  <2> DEFINE saved == IntakeGoal(held, run, said, Spoken(hints), status)
  <2> HIDE DEF run, Spoken
  <2>1. GoalHolds(saved, n)
    BY <1>3, <1>4, IntakeGoalIs
  <2> QED
    BY <1>4, <1>5, <2>1, EndsEarlyIs DEF run
<1>6. CASE IntakeElapsed(held, run, said, Spoken(hints))
  <2> HIDE DEF run, Spoken
  <2>1. EndsEarly(run, said, IntakeGoal(held, run, said, Spoken(hints), "blocked"), said.level # "")
    BY <1>6, Zenon DEF IntakeElapsed
  <2>2. "blocked" \in GoalStatuses
    BY DEF GoalStatuses
  <2> QED
    BY <1>5, <2>1, <2>2, Zenon
<1>7. CASE EndsAt(hints, "waiting_user_input") \/ EndsAt(hints, "blocked")
  <2>1. "blocked" \in GoalStatuses /\ "waiting_user_input" \in GoalStatuses
    BY DEF GoalStatuses
  <2> QED
    BY <1>5, <1>7, <2>1, Zenon
<1>8. ASSUME NEW saved \in {goal, [NoGoal EXCEPT !.run = run, !.named = Spoken(hints),
                                           !.status = "waiting_user_input"]},
             EndsEarly(run, said, saved, TRUE)
      PROVE  GoalHolds(goal', n) /\ WorkHolds(work', tools, n) /\ recorded' \in Records
  <2> DEFINE asks == [NoGoal EXCEPT !.run = run, !.named = Spoken(hints), !.status = "waiting_user_input"]
  <2>1. GoalHolds(asks, n)
    <3> HIDE DEF run, Spoken
    <3> QED
      BY <1>3, <1>4, QuestionGoal
  <2> HIDE DEF asks, run
  <2>2. GoalHolds(saved, n)
    BY <1>8, <2>1 DEF asks
  <2> QED
    BY <1>4, <1>8, <2>2, EndsEarlyIs DEF run
<1>9. ASSUME NEW plan, Begins(hints, artifact, plan)
      PROVE  GoalHolds(goal', n) /\ WorkHolds(work', tools, n) /\ recorded' \in Records
  <2> DEFINE sends == plan # <<>> /\ (plan[1].external \/ plan[1].thirdParty)
             request == [Asking(hints, artifact) EXCEPT !.sends = sends]
  <2>1. StartsTurn(held, run, said, Spoken(hints), resolves, ContractOfTurn(request, resolves))
    BY <1>9, Zenon
  <2> HIDE DEF sends
  <2>2. /\ request.tools = tools /\ request.goal = held.contract /\ request.decision = said
        /\ request.hints = hints
    OBVIOUS
  <2> HIDE DEF request
  <2>3. held.contract \in Contracts(Current) /\ Shaped(held.contract)
    BY <1>4, GoalFields DEF HeldHolds
  <2>4. IsRequest(request)
    BY <1>2, <1>4, <2>2, <2>3, DecisionFields DEF IsRequest
  <2>5. resolves \in BOOLEAN
    BY DEF Resolves
  <2>6. request.hints \subseteq Spoken(hints)
    BY <2>2
  <2> HIDE DEF resolves, run, Spoken
  <2> QED
    BY <1>3, <1>4, <2>1, <2>2, <2>4, <2>5, <2>6, StartsTurnIs DEF run
<1> QED
  BY <1>1, <1>6, <1>7, <1>8, <1>9, Zenon

LEMMA HeldLater ==
  ASSUME NEW n \in Nat, NEW m \in Nat, n <= m
  PROVE  (\A g : HeldHolds(g, n) => HeldHolds(g, m)) /\ (\A g : GoalHolds(g, n) => GoalHolds(g, m))
<1>1. \A T : Goals(n, T) \subseteq Goals(m, T)
  BY DEF Goals
<1> QED
  BY <1>1 DEF HeldHolds, GoalHolds

\* The goal a message goes on with, and what was spoken for by then.
LEMMA SpokenForIs ==
  ASSUME NEW n \in Nat, NEW saved, HeldHolds(saved, n), NEW said \in Decisions(Current, Tools)
  PROVE  LET held == HeldGoal(saved, said.route)
         IN  HeldHolds(held, n) /\ SpeaksFor(held, said, SpokenFor(saved, said))
<1> DEFINE held == HeldGoal(saved, said.route)
           starts == said.route \in {"start_task", "revise_task"}
           spoken == SpokenFor(saved, said)
<1>1. /\ spoken = (IF starts THEN {} ELSE saved.named) \union SpokenBy(said)
      /\ held = IF starts THEN NoGoal ELSE saved
  BY DEF SpokenFor, SpokenBy, WantsFile, HeldGoal
<1>2. HeldHolds(held, n)
  BY <1>1, NoGoalIs
<1>3. SpokenBy(said) \in SUBSET Current
  BY DecisionFields, ToolsAre DEF SpokenBy
<1>4. Wants(saved.contract) \subseteq saved.named /\ saved.named \in SUBSET Current
  BY GoalFields DEF HeldHolds
<1>5. Wants(NoGoal.contract) = {}
  BY NoContractIs DEF NoGoal
<1> HIDE DEF held, starts, spoken
<1>6. Wants(held.contract) \subseteq spoken /\ spoken \in SUBSET Current /\ SpokenBy(said) \subseteq spoken
  BY <1>1, <1>3, <1>4, <1>5
<1> QED
  BY <1>2, <1>6, Zenon DEF SpeaksFor, held, spoken

LEMMA ResumedIs ==
  ASSUME recorded \in Records, NEW run \in 1..MaxMessages
  PROVE  /\ ResumedDecision(run) \in Decisions(Current, Tools)
         /\ ResumedDecision(run).route = "continue_task"
<1> DEFINE last == recorded[run]
           rs == NormalizeExpectedResults(last.results)
           fresh == [Blank EXCEPT !.route = "continue_task", !.class = "bounded_task",
                                  !.shape = "maintenance_task", !.language = TRUE]
           again == [last EXCEPT !.route = "continue_task", !.results = rs]
<1>1. ResumedDecision(run) = IF last.level \notin Levels THEN fresh ELSE again
  BY Zenon DEF ResumedDecision
<1>2. last \in Decisions(Current, Tools) /\ Blank \in Decisions(Current, Tools)
  BY BlankIs DEF Records
<1>3. rs \in Seq(Results(Tools))
  BY <1>2, DecisionFields, NormPlaces
<1>4. {"continue_task", "bounded_task", "maintenance_task"} \subseteq STRING
  BY NamesAreStrings
<1> HIDE DEF last, rs
<1>5. fresh \in Decisions(Current, Tools) /\ fresh.route = "continue_task"
  BY <1>2, <1>4 DEF Decisions
<1>6. again \in Decisions(Current, Tools) /\ again.route = "continue_task"
  BY <1>2, <1>3, <1>4 DEF Decisions
<1> HIDE DEF fresh, again
<1> QED
  BY <1>1, <1>5, <1>6

-----------------------------------------------------------------------------
(* The task, from message to message                                       *)

\* What a task owes, the turn under way included: the inductive invariant.
TaskHolds ==
  /\ GoalHolds(goal, taken) /\ WorkHolds(work, tools, taken) /\ tools \in SUBSET Current
  /\ taken \in 0..MaxMessages /\ recorded \in Records

LEMMA TaskHoldsInit == ASSUME TaskInit PROVE TaskHolds
<1>1. NoGoal \in Goals(0, Tools) /\ GoalHolds(NoGoal, 0)
  <2>1. NoContract \in Contracts(Tools) /\ NoGoal.contract = NoContract
    BY NoContractIs, ToolsAre DEF Contracts, NoGoal
  <2>2. NoGoal \in Goals(0, Tools)
    BY <2>1 DEF NoGoal, Goals, GoalStatuses
  <2>3. Wants(NormalizePersisted(NoGoal.contract)) \subseteq NoGoal.named
    BY <2>1, NoContractIs
  <2> QED
    BY <2>2, <2>3, Zenon DEF GoalHolds
<1>2. GoalHolds(goal, taken) /\ taken \in 0..MaxMessages
  <2>1. CASE goal = NoGoal
    <3>1. taken = 0
      BY <2>1 DEF TaskInit, NoGoal
    <3> QED
      BY <1>1, <2>1, <3>1, ToolsAre
  <2>2. CASE goal \in SavedGoals
    <3>1. /\ goal \in [run : 0..MaxMessages, status : GoalStatuses,
                       contract : Contracts(Tools), named : SUBSET Current]
          /\ Wants(NormalizePersisted(goal.contract)) \subseteq goal.named
      BY <2>2, TaskAssumption
    <3>2. taken = goal.run
      BY DEF TaskInit
    <3>3. taken \in 0..MaxMessages /\ goal \in Goals(taken, Tools)
      BY <3>1, <3>2, ToolsAre DEF Goals
    <3> QED
      BY <3>1, <3>3 DEF GoalHolds
  <2> QED
    BY <2>1, <2>2 DEF TaskInit
<1>3. tools \in SUBSET Current
  BY TaskAssumption DEF TaskInit
<1>4. WorkHolds(work, tools, taken)
  BY NoWorkIs DEF TaskInit
<1>5. recorded \in Records
  BY BlankIs DEF TaskInit, Records
<1> QED
  BY <1>2, <1>3, <1>4, <1>5 DEF TaskHolds

LEMMA TakeUpStep ==
  ASSUME TaskHolds, PlanInv, TakeUp
  PROVE  TaskHolds'
<1> DEFINE n == taken + 1
           said == decision
           read == [goal EXCEPT !.contract = NormalizePersisted(@)]
           Run(saved, existing) == RunOf(saved, existing, existing = taken + 1, said.route)
<1>0. at = "done" /\ error = "" /\ turn \in Messages
  BY Zenon DEF TakeUp
<1>1. /\ taken' = n /\ tools' = tools /\ n \in 1..MaxMessages
      /\ n \in Nat /\ taken \in Nat /\ taken <= n
  <2>1. taken < MaxMessages /\ taken' = n /\ tools' = tools
    BY Zenon DEF TakeUp
  <2>2. taken \in 0..MaxMessages
    BY DEF TaskHolds
  <2> QED
    BY <2>1, <2>2, ToolsAre
<1>2. said \in Decisions(Current, Tools)
  <2>1. turn.entry = "turn"
    BY <1>0, TaskAssumption
  <2>2. EndsWith(turn, said)
    BY <1>0, <2>1 DEF PlanInv, PlanHolds
  <2> QED
    BY <1>0, <2>2 DEF EndsWith, NamesOf, HintsOf
<1>3. /\ GoalHolds(goal, taken) /\ GoalHolds(goal, n) /\ tools \in SUBSET Current /\ recorded \in Records
  BY <1>1, HeldLater DEF TaskHolds
<1>4. PICK saved \in {NoGoal, read} :
        \E existing \in {0, saved.run, taken + 1} :
           LET held == HeldGoal(saved, said.route)
           IN  \/ IntakeElapsed(held, RunFor(existing), said, SpokenFor(saved, said))
               \/ RunAgentRequest(held, Run(saved, existing), said, SpokenFor(saved, said), FALSE)
  BY Zenon DEF TakeUp
<1> HIDE DEF read
<1>5. PICK existing \in {0, saved.run, taken + 1} :
        \/ IntakeElapsed(HeldGoal(saved, said.route), RunFor(existing), said, SpokenFor(saved, said))
        \/ RunAgentRequest(HeldGoal(saved, said.route), Run(saved, existing), said,
                           SpokenFor(saved, said), FALSE)
  BY <1>4, Zenon
<1> DEFINE held == HeldGoal(saved, said.route)
           spoken == SpokenFor(saved, said)
<1>6. HeldHolds(saved, n) /\ saved.run \in 0..taken
  <2>1. CASE saved = NoGoal
    <3>1. HeldHolds(NoGoal, n)
      BY <1>1, NoGoalIs
    <3>2. NoGoal.run = 0
      BY DEF NoGoal
    <3> QED
      BY <1>1, <2>1, <3>1, <3>2
  <2>2. CASE saved = read
    <3>1. HeldHolds(saved, n) /\ saved.run = goal.run
      BY <1>1, <1>3, <2>2, ReadGoalIs DEF read
    <3>2. goal.run \in 0..taken
      BY <1>1, <1>3, GoalFields DEF GoalHolds
    <3> QED
      BY <3>1, <3>2
  <2> QED
    BY <1>4, <2>1, <2>2
<1>7. HeldHolds(held, n) /\ SpeaksFor(held, said, spoken)
  BY <1>1, <1>2, <1>6, SpokenForIs
<1>8. RunFor(existing) \in 1..n /\ RunFor(Run(saved, existing)) \in 1..n
  BY <1>1, <1>5, <1>6 DEF RunFor, RunOf
<1> HIDE DEF held, spoken, Run
<1>9. GoalHolds(goal', n) /\ WorkHolds(work', tools, n) /\ recorded' \in Records
  <2>1. CASE IntakeElapsed(held, RunFor(existing), said, spoken)
    <3> DEFINE run == RunFor(existing)
               ended == IntakeGoal(held, run, said, spoken, "blocked")
    <3>1. run \in 1..n /\ run \in 0..n /\ "blocked" \in GoalStatuses
      BY <1>1, <1>8 DEF GoalStatuses
    <3>2. EndsEarly(run, said, ended, said.level # "")
      BY <2>1, Zenon DEF IntakeElapsed
    <3> HIDE DEF run
    <3>3. GoalHolds(ended, n)
      BY <1>1, <1>7, <3>1, IntakeGoalIs
    <3> HIDE DEF ended
    <3> QED
      BY <1>1, <1>2, <1>3, <3>1, <3>2, <3>3, EndsEarlyIs
  <2>2. CASE RunAgentRequest(held, Run(saved, existing), said, spoken, FALSE)
    BY <1>1, <1>3, <1>7, <1>8, <2>2, RunIs
  <2> QED
    BY <1>5, <2>1, <2>2 DEF held, spoken
<1> QED
  BY <1>1, <1>3, <1>9 DEF TaskHolds

LEMMA ResumeStep ==
  ASSUME TaskHolds, ResumeTask
  PROVE  TaskHolds'
<1> DEFINE n == taken
           run == work.run
           saved == IF goal.run = run THEN [goal EXCEPT !.contract = NormalizePersisted(@)] ELSE NoGoal
           said == ResumedDecision(run)
           spoken == SpokenFor(saved, said)
<1>1. /\ work.at = "stopped" /\ taken' = n /\ tools' = tools
      /\ RunAgentRequest(saved, run, said, spoken, TRUE)
  BY DEF ResumeTask
<1>2. /\ run \in 1..n /\ n \in 1..MaxMessages /\ n \in Nat /\ run \in 1..MaxMessages
      /\ GoalHolds(goal, n) /\ tools \in SUBSET Current /\ recorded \in Records
  BY <1>1, ToolsAre DEF TaskHolds, WorkHolds
<1>3. RunFor(run) \in 1..n
  BY <1>2 DEF RunFor
<1>4. HeldHolds(saved, n)
  BY <1>2, ReadGoalIs, NoGoalIs
<1> HIDE DEF saved, run
<1>5. said \in Decisions(Current, Tools) /\ said.route = "continue_task"
  BY <1>2, ResumedIs
<1> HIDE DEF said
<1>6. HeldGoal(saved, said.route) = saved
  BY <1>5 DEF HeldGoal
<1>7. SpeaksFor(saved, said, spoken)
  BY <1>2, <1>4, <1>5, <1>6, SpokenForIs
<1> HIDE DEF spoken
<1>8. GoalHolds(goal', n) /\ WorkHolds(work', tools, n) /\ recorded' \in Records
  BY <1>1, <1>2, <1>3, <1>4, <1>7, RunIs
<1> QED
  BY <1>1, <1>2, <1>8 DEF TaskHolds

LEMMA TaskHoldsStep ==
  ASSUME TaskHolds, PlanInv, [TaskNext]_allVars
  PROVE  TaskHolds'
<1>1. CASE UNCHANGED taskVars
  <2>1. UNCHANGED <<goal, tools, work, recorded, taken>>
    BY <1>1 DEF taskVars
  <2> QED
    BY <2>1, Zenon DEF TaskHolds
<1>2. CASE TurnEnds
  <2>1. /\ work.at = "running" /\ tools' = tools /\ taken' = taken
        /\ work' = [NoWork EXCEPT !.at = "ended", !.run = work.run]
        /\ recorded' = [recorded EXCEPT ![work.run] = work.decision]
    BY <1>2 DEF TurnEnds
  <2>0. PICK status \in {"waiting_user_input", "waiting_approval", "completed", "blocked"} :
          goal' = SavedAs(work.goal, work.run, status)
    BY <1>2, Zenon DEF TurnEnds, SavedAs
  <2>2. /\ work.run \in 1..taken /\ taken \in Nat /\ work.run \in 0..taken
        /\ TurnHolds(work, tools, taken)
    BY <2>1, ToolsAre DEF TaskHolds, WorkHolds
  <2>3. /\ work.goal \in Goals(taken, Current) /\ Shaped(work.goal.contract)
        /\ Wants(work.goal.contract) \subseteq work.goal.named
        /\ work.decision \in Decisions(Current, Tools)
    BY <2>2, Zenon DEF TurnHolds, Meets
  <2>4. GoalHolds(goal', taken)
    <3>1. status \in GoalStatuses
      BY DEF GoalStatuses
    <3> QED
      BY <2>0, <2>2, <2>3, <3>1, GoalIsSaved
  <2>5. WorkHolds(work', tools, taken)
    BY <2>1, NoWorkIs
  <2>6. recorded' \in Records
    BY <2>1, <2>3 DEF TaskHolds, Records
  <2> QED
    BY <2>1, <2>4, <2>5, <2>6 DEF TaskHolds
<1>3. CASE Crash
  <2>1. /\ work.at = "running" /\ tools' = tools /\ taken' = taken /\ goal' = goal
        /\ work' = [NoWork EXCEPT !.at = "stopped", !.run = work.run] /\ recorded' = recorded
    BY <1>3 DEF Crash
  <2>2. work.run \in 1..taken
    BY <2>1 DEF TaskHolds, WorkHolds
  <2>3. WorkHolds(work', tools, taken)
    BY <2>1, <2>2, NoWorkIs
  <2> QED
    BY <2>1, <2>3 DEF TaskHolds
<1>4. CASE MessageArrives
  <2>1. tools' \in SUBSET Current /\ taken' = taken /\ goal' = goal /\ work' = NoWork /\ recorded' = recorded
    BY <1>4, TaskAssumption DEF MessageArrives
  <2>2. WorkHolds(work', tools', taken)
    BY <2>1, NoWorkIs
  <2> QED
    BY <2>1, <2>2 DEF TaskHolds
<1> QED
  BY <1>1, <1>2, <1>3, <1>4, TakeUpStep, ResumeStep DEF TaskNext, PlanIt, allVars

\* What TaskHolds says of a turn under way.
LEMMA RunningIs ==
  ASSUME TaskHolds, work.at = "running"
  PROVE  /\ TurnHolds(work, tools, taken) /\ tools \in SUBSET Current
         /\ Meets(tools, work.contract) /\ Meets(tools, work.goal.contract)
<1>1. TurnHolds(work, tools, taken) /\ tools \in SUBSET Current
  BY DEF TaskHolds, WorkHolds
<1> QED
  BY <1>1, Zenon DEF TurnHolds

LEMMA MeetsIs ==
  ASSUME NEW set, NEW c, Meets(set, c)
  PROVE  RequiredNames(c) \subseteq set /\ (FileIsRequired(c) => FileDeliver \in c.required)
BY DEF Meets, Shaped

\* Reading a contract that can be met back and putting it in shape leaves it as
\* it is, but for the artifact of one that comes down to a link.
LEMMA ReadAgain ==
  ASSUME NEW set \in SUBSET Current, NEW c, Meets(set, c)
  PROVE  LET read == Sanitize(set, NormalizePersisted(c))
         IN  /\ read.required = c.required /\ read.anyOf = c.anyOf
             /\ FileIsRequired(read) <=> FileIsRequired(c) /\ ~LinkAlone(c)
<1> DEFINE p == NormalizePersisted(c)
           read == Sanitize(set, p)
<1>1. c \in Contracts(Current) /\ Shaped(c) /\ Clean(set, c)
  BY DEF Meets
<1>2. /\ p \in Contracts(Current) /\ Shaped(p) /\ p.required = c.required /\ p.anyOf = c.anyOf
      /\ p.hints = c.hints /\ p.files = c.files /\ p.artifact = c.artifact
      /\ SameResults(c.results, p.results)
  BY <1>1, ReadBack
<1> HIDE DEF p
<1>3. NormalizeOutcomeContract(p) = p
  BY <1>2, ToolsAre, ShapedStays
<1>4. Clean(set, p)
  <2>1. RequiredNames(p) = RequiredNames(c) /\ NamedTools(p) = NamedTools(c)
    BY <1>2 DEF NamedTools, RequiredNames
  <2>2. HasType(p, "file") <=> HasType(c, "file")
    BY <1>2 DEF HasType, SameResults
  <2>3. ExpectsFile(p) => ExpectsFile(c)
    BY <1>2, <2>1, <2>2 DEF ExpectsFile
  <2>4. Maintains(set, p) => Maintains(set, c)
    BY <2>1 DEF Maintains
  <2> QED
    BY <1>1, <2>1, <2>3, <2>4 DEF Clean
<1>5. /\ read.required = p.required /\ read.anyOf = p.anyOf
      /\ FileIsRequired(read) <=> FileIsRequired(p) /\ ~LinkAlone(p)
  <2> HIDE DEF read
  <2>1. LET n == NormalizeOutcomeContract(p)
        IN  /\ FileIsRequired(read) <=> FileIsRequired(n) /\ ~LinkAlone(n)
            /\ Clean(set, n) => read.required = n.required /\ read.anyOf = n.anyOf
    BY <1>2, ToolsAre, SanitizeIs DEF read
  <2> QED
    BY <1>3, <1>4, <2>1, Zenon
<1>6. FileIsRequired(p) <=> FileIsRequired(c)
  BY <1>1, <1>2 DEF Shaped
<1>7. LinkAlone(p) <=> LinkAlone(c)
  <2>1. Tidy(c.results) /\ Tidy(p.results)
    BY <1>1, <1>2 DEF Shaped
  <2>2. /\ PublicLinkOnly(p) <=> WantsLink(p.results) /\ ~WantsFile(p.results)
        /\ PublicLinkOnly(c) <=> WantsLink(c.results) /\ ~WantsFile(c.results)
    BY <1>1, <1>2, <2>1, ToolsAre, PublicLinkOnlyIs
  <2>3. (WantsFile(p.results) <=> WantsFile(c.results)) /\ (WantsLink(p.results) <=> WantsLink(c.results))
    BY <1>2, <2>1, SameResultsTidy
  <2> QED
    BY <1>2, <2>2, <2>3 DEF LinkAlone
<1> HIDE DEF read
<1> QED
  BY <1>2, <1>5, <1>6, <1>7, Zenon DEF read, p

\* What a task owes is kept from message to message (RunAgentRequest with the
\* goals of outcome_contract.go), through restarts and with tools that come and go.
THEOREM TaskInvariant == TaskSpec => []TaskHolds
<1>1. TaskInit => TaskHolds
  BY TaskHoldsInit
<1>2. TaskHolds /\ PlanInv /\ [TaskNext]_allVars => TaskHolds'
  BY TaskHoldsStep
<1> QED
  BY <1>1, <1>2, PlanningInvariant, PTL DEF TaskSpec

\* A turn can meet what it must show and asks once for the input it was given; a
\* task owes what its own messages spoke for, lets go of none of it without a
\* reason, and reads back the goal it saved (sanitizeOutcomeContractForRequest,
\* dischargeResolvedInputContract, contractReducedToCallableTools).
THEOREM ContractHoldsAlways == TaskSpec => []ContractHolds
<1>1. TaskHolds => ContractHolds
  <2> SUFFICES ASSUME TaskHolds PROVE ContractHolds
    OBVIOUS
  <2>1. TaskTypeOK
    <3>1. /\ taken \in 0..MaxMessages /\ taken \in Nat /\ goal \in Goals(taken, Tools)
          /\ tools \in SUBSET Current
          /\ work.at \in {"planning", "running", "stopped", "ended"}
      BY ToolsAre DEF TaskHolds, GoalHolds, WorkHolds
    <3>2. /\ goal.run \in 0..taken /\ goal.status \in GoalStatuses
          /\ goal.contract \in Contracts(Tools) /\ goal.named \in SUBSET Current
      BY <3>1, GoalFields
    <3>3. /\ goal.contract.required \in SUBSET Tools /\ goal.contract.anyOf \in SUBSET SUBSET Tools
          /\ goal.contract.artifact \in {"none", "preferred", "required"}
      BY <3>2, ContractFields DEF HasFields
    <3>4. UNION goal.contract.anyOf \subseteq Tools
      BY <3>3
    <3> QED
      BY <3>1, <3>2, <3>3, <3>4, ToolsAre DEF TaskTypeOK
  <2>2. CanBeMet
    <3> SUFFICES ASSUME work.at = "running",
                        NEW contract \in {work.contract, work.goal.contract}
                 PROVE  /\ RequiredNames(contract) \subseteq tools
                        /\ FileIsRequired(contract) => FileDeliver \in contract.required
      BY Zenon DEF CanBeMet
    <3>1. Meets(tools, contract)
      BY RunningIs
    <3> QED
      BY <3>1, MeetsIs
  <2>3. AskedOnce
    <3> SUFFICES ASSUME work.at = "running", work.resolves,
                        NEW contract \in {work.contract, work.goal.contract}
                 PROVE  /\ AskInput \notin NamedTools(contract)
                        /\ \A i \in DOMAIN contract.results : AskInput \notin contract.results[i].hints
      BY Zenon DEF AskedOnce
    <3>1. AsksNothing(work.contract) /\ AsksNothing(work.goal.contract)
      BY RunningIs, Zenon DEF TurnHolds, AsksOnce
    <3>2. AsksNothing(contract)
      BY <3>1, Zenon
    <3> QED
      BY <3>2, Zenon DEF AsksNothing
  <2>4. OwesItsOwn
    <3> SUFFICES ASSUME work.at = "running"
                 PROVE  RequiredNames(work.goal.contract) \subseteq work.goal.named
      BY DEF OwesItsOwn
    <3>1. Wants(work.goal.contract) \subseteq work.goal.named
      BY RunningIs, Zenon DEF TurnHolds
    <3> QED
      BY <3>1 DEF Wants, NamedTools
  <2>5. KeepsWhatItOwes
    <3> DEFINE owed == NormalizePersisted(work.prior.contract)
               excused == Excused(tools, owed, work.resolves)
    <3> SUFFICES ASSUME work.at = "running", HasRequirements(owed)
                 PROVE  /\ owed.required \ excused \subseteq work.contract.required
                        /\ \A group \in owed.anyOf : group \ excused # {} =>
                              \E left \in work.contract.anyOf :
                                 group \ excused \subseteq left /\ left \subseteq group
                        /\ FileIsRequired(owed) /\ ~LinkAlone(owed) /\ FileDeliver \in tools
                             => FileIsRequired(work.contract)
      BY Zenon DEF KeepsWhatItOwes, Excused
    <3>1. owed = work.prior.contract /\ Keeps(work, tools)
      BY RunningIs, Zenon DEF TurnHolds
    <3>2. KeepsGoal(tools, owed, work.resolves, work.contract)
      BY <3>1, Zenon DEF Keeps
    <3> QED
      BY <3>2, Zenon DEF KeepsGoal
  <2>6. SavedIsWhatIsRead
    <3> SUFFICES ASSUME work.at = "running"
                 PROVE  LET saved == work.goal.contract
                            read == Sanitize(tools, NormalizePersisted(saved))
                        IN  /\ read.required = saved.required /\ read.anyOf = saved.anyOf
                            /\ FileIsRequired(read) <=> FileIsRequired(saved) /\ ~LinkAlone(saved)
      BY Zenon DEF SavedIsWhatIsRead
    <3>1. tools \in SUBSET Current /\ Meets(tools, work.goal.contract)
      BY RunningIs
    <3> QED
      BY <3>1, ReadAgain
  <2> QED
    BY <2>1, <2>2, <2>3, <2>4, <2>5, <2>6 DEF ContractHolds
<1> QED
  BY <1>1, TaskInvariant, PTL
=============================================================================
