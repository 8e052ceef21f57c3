---------------------------- MODULE RecoveryProofs ----------------------------
(***************************************************************************)
(* Proofs about Recovery, for any calls and tools, any recovery budget,    *)
(* any limits and any number of results and resumes.                       *)
(***************************************************************************)
EXTENDS Recovery, FiniteSetTheorems, WellFoundedInduction, TLAPS

\* While the turn goes on, what was counted as progress is never less than there is
\* once an action brought nothing, so the tracker counts every further one.
StallInv ==
  /\ idle <= 1 + StallAfter * tracker.directives + tracker.quiet + 1
  /\ pc = "choosing" =>
       /\ idle <= 1 + StallAfter * tracker.directives + tracker.quiet
       /\ idle > 0 => Progress(results) <= tracker.last

\* An action the tracker is not asked about is a call, or an answer that cannot be read,
\* and of those fewer than MaxUnreadable follow each other while the turn goes on.
BarrenInv ==
  /\ barren <= MaxUnreadable * (idle + toolCalls) + MaxUnreadable
  /\ pc = "choosing" =>
       /\ unread < MaxUnreadable
       /\ barren <= MaxUnreadable * (idle + toolCalls) + unread

\* A result of this turn is known, and one with a recovery step followed a failure that
\* nothing had cleared.
StepInv ==
  \A k \in DOMAIN results :
    results[k].here =>
      /\ results[k].known
      /\ results[k].step # "none" =>
           \E i \in DOMAIN results :
             /\ i < k /\ Failed(results[i])
             /\ \A m \in DOMAIN results : i < m /\ m < k => ~Settles(results[m])

-----------------------------------------------------------------------------
(* The three ways a step changes the results.                              *)

\* A call of the turn's own, made or blocked after every guard let it pass.
OwnResult(r) ==
  /\ r \in Result /\ ~r.carried /\ r.here /\ r.known
  /\ ~Refused(r.call) /\ BudgetAllows(r.call)
  /\ r.step \in {"none", RecoveryStep(r.call)}
  /\ results' = Append(results, r)

\* A call the host carried out, after a resume that kept some results.
CarriedResult(r, kept) ==
  /\ r \in Result /\ r.carried /\ r.here /\ r.known /\ r.step = "none"
  /\ results' = Append(Restored(kept), r)

\* What a step does to the results.
Reshaped ==
  \/ UNCHANGED results
  \/ \E r \in Result : OwnResult(r)
  \/ \E kept \in SUBSET (DOMAIN results) : results' = Restored(kept)
  \/ \E kept \in SUBSET (DOMAIN results) : \E r \in Result : CarriedResult(r, kept)

LEMMA AppendFacts ==
  ASSUME NEW rs \in Seq(Result), NEW r \in Result
  PROVE  /\ Append(rs, r) \in Seq(Result)
         /\ Len(rs) \in Nat /\ DOMAIN rs = 1..Len(rs)
         /\ DOMAIN Append(rs, r) = 1..(Len(rs) + 1)
         /\ \A i \in 1..Len(rs) : Append(rs, r)[i] = rs[i]
         /\ Append(rs, r)[Len(rs) + 1] = r
OBVIOUS

LEMMA RestoredFacts ==
  ASSUME results \in Seq(Result), NEW kept
  PROVE  /\ Restored(kept) \in Seq(Result)
         /\ DOMAIN Restored(kept) = DOMAIN results
         /\ Len(Restored(kept)) = Len(results)
         /\ \A i \in DOMAIN results :
              /\ Restored(kept)[i].call = results[i].call
              /\ Restored(kept)[i].outcome = results[i].outcome
              /\ Restored(kept)[i].step = results[i].step
              /\ Restored(kept)[i].carried = results[i].carried
              /\ ~Restored(kept)[i].here
              /\ Restored(kept)[i].known => results[i].known
<1>1. DOMAIN results = 1..Len(results) /\ Len(results) \in Nat
  OBVIOUS
<1>2. \A i \in 1..Len(results) : results[i] \in Result
  OBVIOUS
<1>3. \A i \in 1..Len(results) :
        [results[i] EXCEPT !.here = FALSE, !.fresh = TRUE, !.known = @ /\ i \in kept] \in Result
  BY <1>2 DEF Result
<1>4. Restored(kept) \in [1..Len(results) -> Result]
  BY <1>1, <1>3 DEF Restored
<1>5. Restored(kept) \in Seq(Result) /\ Len(Restored(kept)) = Len(results)
  BY <1>1, <1>4
<1>6. ASSUME NEW i \in DOMAIN results
      PROVE  /\ Restored(kept)[i].call = results[i].call
             /\ Restored(kept)[i].outcome = results[i].outcome
             /\ Restored(kept)[i].step = results[i].step
             /\ Restored(kept)[i].carried = results[i].carried
             /\ ~Restored(kept)[i].here
             /\ Restored(kept)[i].known => results[i].known
  <2>1. Restored(kept)[i] = [results[i] EXCEPT !.here = FALSE, !.fresh = TRUE, !.known = @ /\ i \in kept]
    BY DEF Restored
  <2>2. results[i] \in Result
    BY <1>1, <1>2
  <2> QED
    BY <2>1, <2>2 DEF Result
<1> QED
  BY <1>1, <1>4, <1>5, <1>6

LEMMA StepsFacts == ASSUME NEW c PROVE RecoveryStep(c) \in Steps
BY DEF RecoveryStep, StepAfter, Steps

LEMMA SuccessCount ==
  ASSUME NEW rs \in Seq(Result)
  PROVE  Cardinality(Successes(rs)) \in Nat
<1>1. Successes(rs) \subseteq 1..Len(rs) /\ Len(rs) \in Nat
  BY DEF Successes
<1>2. IsFiniteSet(1..Len(rs))
  BY <1>1, FS_Interval
<1> QED
  BY <1>1, <1>2, FS_Subset, FS_CardinalityType

LEMMA ProgressIsNat ==
  ASSUME NEW rs \in Seq(Result)
  PROVE  Progress(rs) \in Nat
<1> DEFINE news == {i \in DOMAIN rs : IsNews(rs[i])}
           edits == {i \in DOMAIN rs : IsEdit(rs[i])}
           failures == {i \in DOMAIN rs : NewFailure(rs, i) /\ Cardinality(FailuresBefore(rs, i)) < MaxFailureProgress}
<1>1. \A S \in SUBSET (DOMAIN rs) : Cardinality(S) \in Nat
  <2>1. DOMAIN rs = 1..Len(rs) /\ Len(rs) \in Nat
    OBVIOUS
  <2>2. IsFiniteSet(DOMAIN rs)
    BY <2>1, FS_Interval
  <2> QED
    BY <2>2, FS_Subset, FS_CardinalityType
<1>2. Cardinality(news) \in Nat /\ Cardinality(edits) \in Nat /\ Cardinality(failures) \in Nat
  BY <1>1
<1>3. Progress(rs) = Cardinality(news) + Cardinality(edits) + Cardinality(failures)
  BY DEF Progress
<1> QED
  BY <1>2, <1>3

-----------------------------------------------------------------------------
(* The stall tracker.                                                      *)

LEMMA Multiplied ==
  ASSUME NEW s \in Nat, NEW d \in Nat
  PROVE  s * d \in Nat /\ s * (d + 1) = s * d + s
BY SMT

LEMMA Added ==
  ASSUME NEW a \in Nat, NEW b \in Nat
  PROVE  a + b \in Nat /\ a + b <= a + (b + 1)
OBVIOUS

LEMMA Monotone ==
  ASSUME NEW s \in Nat, NEW d \in Nat, NEW e \in Nat, d <= e
  PROVE  s * d <= s * e
<1>1. PICK k \in Nat : e = d + k
  <2> WITNESS e - d \in Nat
  <2> QED
    OBVIOUS
<1>2. s * (d + k) = s * d + s * k /\ s * k \in Nat /\ s * d \in Nat
  BY SMT
<1> QED
  BY <1>1, <1>2

\* Whatever the tracker decides keeps the types.
LEMMA StopTypes ==
  ASSUME TypeOK, NEW rs \in Seq(Result), StopForNoProgress(rs)
  PROVE  /\ tracker' \in [last : Nat, quiet : 0..(StallAfter - 1), directives : 0..MaxDirectives]
         /\ pc' \in {"choosing", "stalled", "ended"}
         /\ stallPaused' \in BOOLEAN
<1> DEFINE count == Progress(rs)
<1>1. count \in Nat
  BY ProgressIsNat
<1> HIDE DEF count
<1>2. /\ StallAfter \in Nat \ {0} /\ MaxDirectives \in Nat
      /\ tracker \in [last : Nat, quiet : 0..(StallAfter - 1), directives : 0..MaxDirectives]
      /\ stallPaused \in BOOLEAN
  BY BudgetAssumption DEF TypeOK
<1>3. MakesProgress(count) \/ StaysQuiet(count) \/ IsDirected(count) \/ IsStopped(count, Debt(rs))
  BY DEF StopForNoProgress, count
<1>4. CASE MakesProgress(count)
  BY <1>1, <1>2, <1>4 DEF MakesProgress
<1>5. CASE StaysQuiet(count)
  BY <1>1, <1>2, <1>5 DEF StaysQuiet
<1>6. CASE IsDirected(count)
  BY <1>1, <1>2, <1>6 DEF IsDirected
<1>7. CASE IsStopped(count, Debt(rs))
  BY <1>2, <1>7 DEF IsStopped
<1> QED
  BY <1>3, <1>4, <1>5, <1>6, <1>7

\* An action that brings nothing new and that the tracker is asked about is counted.
LEMMA QuietCounts ==
  ASSUME TypeOK, StallInv, pc = "choosing", results' \in Seq(Result),
         Progress(results') <= Progress(results),
         StopForNoProgress(results'), idle' = idle + 1
  PROVE  StallInv'
<1> DEFINE count == Progress(results')
<1>1. count \in Nat
  BY ProgressIsNat
<1>11. Progress(results) \in Nat /\ count <= Progress(results)
  BY ProgressIsNat DEF TypeOK
<1>2. /\ StallAfter \in Nat \ {0} /\ MaxDirectives \in Nat /\ idle \in Nat
      /\ tracker \in [last : Nat, quiet : 0..(StallAfter - 1), directives : 0..MaxDirectives]
  BY BudgetAssumption DEF TypeOK
<1>3. /\ idle <= 1 + StallAfter * tracker.directives + tracker.quiet
      /\ idle > 0 => count <= tracker.last
  BY <1>1, <1>11, <1>2 DEF StallInv
<1>4. MakesProgress(count) \/ StaysQuiet(count) \/ IsDirected(count) \/ IsStopped(count, Debt(results'))
  BY DEF StopForNoProgress
<1>5. /\ StallAfter * tracker.directives \in Nat
      /\ StallAfter * (tracker.directives + 1) = StallAfter * tracker.directives + StallAfter
      /\ StallAfter * 0 = 0
  BY <1>2, Multiplied
<1>6. SUFFICES /\ idle' <= 1 + StallAfter * tracker'.directives + tracker'.quiet + 1
               /\ pc' = "choosing" =>
                    /\ idle' <= 1 + StallAfter * tracker'.directives + tracker'.quiet
                    /\ idle' > 0 => count <= tracker'.last
  BY DEF StallInv, count
<1> HIDE DEF count
<1>7. CASE MakesProgress(count)
  <2>1. idle = 0
    BY <1>1, <1>2, <1>3, <1>7 DEF MakesProgress
  <2>2. tracker'.last = count /\ tracker'.quiet = 0 /\ tracker'.directives = 0
    BY <1>7 DEF MakesProgress
  <2> QED
    BY <1>1, <1>5, <2>1, <2>2
<1>8. CASE StaysQuiet(count)
  <2>1. tracker'.last = tracker.last /\ tracker'.quiet = tracker.quiet + 1 /\ tracker'.directives = tracker.directives
    BY <1>2, <1>8 DEF StaysQuiet
  <2>2. count <= tracker.last
    BY <1>1, <1>2, <1>8 DEF StaysQuiet
  <2> DEFINE before == StallAfter * tracker.directives
             after == StallAfter * tracker'.directives
  <2>3. after = before /\ before \in Nat /\ idle <= 1 + before + tracker.quiet
    BY <1>3, <1>5, <2>1
  <2> SUFFICES /\ idle' <= 1 + after + tracker'.quiet + 1
               /\ pc' = "choosing" =>
                    /\ idle' <= 1 + after + tracker'.quiet
                    /\ idle' > 0 => count <= tracker'.last
    OBVIOUS
  <2> HIDE DEF before, after
  <2> QED
    BY <1>2, <2>1, <2>2, <2>3
<1>9. CASE IsDirected(count)
  <2>1. tracker'.last = count /\ tracker'.quiet = 0 /\ tracker'.directives = tracker.directives + 1
    BY <1>9 DEF IsDirected
  <2>2. tracker.quiet + 1 <= StallAfter
    BY <1>2
  <2> DEFINE before == StallAfter * tracker.directives
             after == StallAfter * tracker'.directives
  <2>3. after = before + StallAfter /\ before \in Nat /\ idle <= 1 + before + tracker.quiet
    BY <1>3, <1>5, <2>1
  <2> SUFFICES /\ idle' <= 1 + after + tracker'.quiet + 1
               /\ pc' = "choosing" =>
                    /\ idle' <= 1 + after + tracker'.quiet
                    /\ idle' > 0 => count <= tracker'.last
    OBVIOUS
  <2> HIDE DEF before, after
  <2> QED
    BY <1>1, <1>2, <2>1, <2>2, <2>3
<1>10. CASE IsStopped(count, Debt(results'))
  <2>1. tracker' = tracker /\ pc' # "choosing"
    BY <1>10 DEF IsStopped
  <2> DEFINE before == StallAfter * tracker.directives
             after == StallAfter * tracker'.directives
  <2>2. after = before /\ before \in Nat /\ idle <= 1 + before + tracker.quiet
    BY <1>3, <1>5, <2>1
  <2> SUFFICES idle' <= 1 + after + tracker'.quiet + 1
    BY <2>1
  <2> HIDE DEF before, after
  <2> QED
    BY <1>2, <2>1, <2>2
<1> QED
  BY <1>4, <1>7, <1>8, <1>9, <1>10

\* A result starts the count again.
LEMMA NewsIsNotIdle ==
  ASSUME tracker' \in [last : Nat, quiet : 0..(StallAfter - 1), directives : 0..MaxDirectives],
         idle' = 0
  PROVE  StallInv'
<1>1. StallAfter * tracker'.directives \in Nat
  BY BudgetAssumption, Multiplied
<1> QED
  BY <1>1, BudgetAssumption DEF StallInv

\* An action the tracker is asked about, whatever it brings.
LEMMA AskedCounts ==
  ASSUME TypeOK, StallInv, pc = "choosing", results' \in Seq(Result),
         StopForNoProgress(results'), Counts(results', 1)
  PROVE  StallInv'
<1>1. CASE Progress(results') > Progress(results)
  <2>1. idle' = 0
    BY <1>1 DEF Counts
  <2>2. tracker' \in [last : Nat, quiet : 0..(StallAfter - 1), directives : 0..MaxDirectives]
    BY StopTypes
  <2> QED
    BY <2>1, <2>2, NewsIsNotIdle
<1>2. CASE ~(Progress(results') > Progress(results))
  <2>1. idle' = idle + 1
    BY <1>2 DEF Counts
  <2>2. Progress(results') <= Progress(results)
    BY <1>2, ProgressIsNat DEF TypeOK
  <2> QED
    BY <2>1, <2>2, QuietCounts
<1> QED
  BY <1>1, <1>2

\* One it is not asked about.
LEMMA UnaskedCounts ==
  ASSUME TypeOK, StallInv, pc = "choosing", results' \in Seq(Result),
         UNCHANGED tracker, Counts(results', 0)
  PROVE  StallInv'
<1>1. CASE Progress(results') > Progress(results)
  <2>1. idle' = 0
    BY <1>1 DEF Counts
  <2> QED
    BY <2>1, NewsIsNotIdle DEF TypeOK
<1>2. CASE ~(Progress(results') > Progress(results))
  <2>1. idle' = idle
    BY <1>2 DEF Counts, TypeOK
  <2>2. /\ Progress(results') \in Nat /\ Progress(results) \in Nat
        /\ Progress(results') <= Progress(results)
    BY <1>2, ProgressIsNat DEF TypeOK
  <2>3. tracker.last \in Nat /\ tracker.quiet \in Nat /\ StallAfter * tracker.directives \in Nat
    BY BudgetAssumption, Multiplied DEF TypeOK
  <2>4. /\ idle <= 1 + StallAfter * tracker.directives + tracker.quiet
        /\ idle > 0 => Progress(results) <= tracker.last
    BY DEF StallInv
  <2>5. idle <= 1 + StallAfter * tracker.directives + tracker.quiet + 1
    BY <2>4 DEF StallInv
  <2>6. idle > 0 => Progress(results') <= tracker.last
    BY <2>2, <2>3, <2>4
  <2> QED
    BY <2>1, <2>4, <2>5, <2>6 DEF StallInv
<1> QED
  BY <1>1, <1>2

\* A turn that no longer chooses has counted its last action.
LEMMA OverIsCounted ==
  ASSUME TypeOK, StallInv, UNCHANGED <<tracker, idle>>, pc' # "choosing"
  PROVE  StallInv'
BY DEF StallInv, TypeOK

\* The count of all actions, after an action that was a call or that the tracker was asked
\* about.
LEMMA SpentCounts ==
  ASSUME TypeOK, BarrenInv, pc = "choosing", idle' \in Nat, toolCalls' \in Nat, barren' \in Nat,
         unread' = 0,
         barren' = 0 \/ (barren' = barren + 1 /\ idle' + toolCalls' >= idle + toolCalls + 1)
  PROVE  BarrenInv'
<1> DEFINE m == MaxUnreadable
           x == idle + toolCalls
           y == idle' + toolCalls'
           before == m * x
           after == m * y
<1>0. MaxUnreadable \in Nat \ {0} /\ idle \in Nat /\ toolCalls \in Nat /\ unread \in Nat /\ barren \in Nat
  BY BudgetAssumption DEF TypeOK
<1>11. x \in Nat
  BY <1>0
<1>12. y \in Nat
  BY Added
<1>1. m \in Nat \ {0} /\ x \in Nat /\ y \in Nat /\ unread \in Nat /\ barren \in Nat
  <2> HIDE DEF x, y
  <2> QED
    BY <1>0, <1>11, <1>12
<1>2. unread < m /\ barren <= before + unread
  BY DEF BarrenInv
<1>3. barren' = 0 \/ (barren' = barren + 1 /\ x + 1 <= y)
  BY <1>1
<1>4. before \in Nat /\ after \in Nat /\ (x + 1 <= y => before + m <= after)
  <2> HIDE DEF m, x, y
  <2>1. m * x \in Nat /\ m * y \in Nat /\ m * (x + 1) = m * x + m
    BY <1>1, Multiplied
  <2>2. x + 1 <= y => m * (x + 1) <= m * y
    BY <1>1, Monotone
  <2> QED
    BY <2>1, <2>2
<1>5. BarrenInv' <=> /\ barren' <= after + m
                     /\ pc' = "choosing" => unread' < m /\ barren' <= after + unread'
  BY DEF BarrenInv
<1> HIDE DEF m, x, y, before, after
<1>6. barren' <= after
  BY <1>1, <1>2, <1>3, <1>4
<1> QED
  BY <1>1, <1>4, <1>5, <1>6

\* A turn that no longer chooses keeps its count.
LEMMA OverStays ==
  ASSUME TypeOK, BarrenInv, UNCHANGED <<idle, barren>>, toolCalls' \in {toolCalls, toolCalls + 1},
         pc' # "choosing"
  PROVE  BarrenInv'
<1> DEFINE m == MaxUnreadable
           x == idle + toolCalls
           y == idle' + toolCalls'
           before == m * x
           after == m * y
<1>0. MaxUnreadable \in Nat \ {0} /\ idle \in Nat /\ toolCalls \in Nat /\ unread \in Nat /\ barren \in Nat
  BY BudgetAssumption DEF TypeOK
<1>11. x \in Nat
  BY <1>0
<1>12. y \in Nat /\ x <= y
  <2>1. CASE toolCalls' = toolCalls
    BY <1>0, <1>11, <2>1
  <2>2. CASE toolCalls' = toolCalls + 1
    <3>1. y = idle + (toolCalls + 1) /\ toolCalls + 1 \in Nat
      BY <1>0, <2>2
    <3> QED
      BY <1>0, <3>1, Added
  <2> QED
    BY <2>1, <2>2
<1>1. m \in Nat /\ x \in Nat /\ y \in Nat /\ barren \in Nat /\ x <= y
  <2> HIDE DEF x, y
  <2> QED
    BY <1>0, <1>11, <1>12
<1>2. barren' = barren /\ barren <= before + m
  BY DEF BarrenInv
<1>3. before <= after /\ before \in Nat /\ after \in Nat
  <2> HIDE DEF m, x, y
  <2> QED
    BY <1>1, Monotone, Multiplied
<1>4. BarrenInv' <=> barren' <= after + m
  BY DEF BarrenInv
<1> HIDE DEF m, x, y, before, after
<1> QED
  BY <1>1, <1>2, <1>3, <1>4

LEMMA StallBound ==
  ASSUME TypeOK, StallInv, BarrenInv
  PROVE  ThrashIsBounded
<1>1. /\ StallAfter \in Nat \ {0} /\ MaxDirectives \in Nat /\ idle \in Nat
      /\ tracker.directives \in Nat /\ tracker.directives + 1 <= MaxDirectives + 1
      /\ tracker.quiet \in Nat /\ tracker.quiet + 1 <= StallAfter
  BY BudgetAssumption DEF TypeOK
<1>2. /\ StallAfter * (tracker.directives + 1) = StallAfter * tracker.directives + StallAfter
      /\ StallAfter * tracker.directives \in Nat
  BY <1>1, Multiplied
<1>3. StallAfter * (tracker.directives + 1) <= StallAfter * (MaxDirectives + 1)
  BY <1>1, Monotone
<1>4. StallAfter * (MaxDirectives + 1) \in Nat
  BY <1>1, Multiplied
<1>5. idle <= 1 + StallAfter * (MaxDirectives + 1)
  BY <1>1, <1>2, <1>3, <1>4 DEF StallInv
<1>6. barren <= MaxUnreadable * (idle + toolCalls + 1)
  <2>1. MaxUnreadable \in Nat /\ idle + toolCalls \in Nat
    BY BudgetAssumption DEF TypeOK
  <2>2. MaxUnreadable * (idle + toolCalls + 1) = MaxUnreadable * (idle + toolCalls) + MaxUnreadable
    BY <2>1, Multiplied
  <2> QED
    BY <2>2 DEF BarrenInv
<1> QED
  BY <1>5, <1>6 DEF ThrashIsBounded

-----------------------------------------------------------------------------
(* Each action keeps the types and the count, and reshapes the results in  *)
(* one of the three ways.                                                  *)

Kept == TypeOK' /\ StallInv' /\ BarrenInv' /\ Reshaped

\* What an action the tracker is asked about, without a result, does to the counts.
LEMMA AskedForNothing ==
  ASSUME TypeOK, StallInv, BarrenInv, pc = "choosing", StopForNoProgress(results),
         Counts(results, 1), unread' = 0, UNCHANGED <<results, toolCalls, held, resumes>>
  PROVE  Kept
<1>1. results' \in Seq(Result) /\ Progress(results) \in Nat
  BY ProgressIsNat DEF TypeOK
<1>2. idle' = idle + 1 /\ barren' = barren + 1
  BY <1>1 DEF Counts
<1>3. StallInv'
  BY <1>1, <1>2, QuietCounts
<1>4. TypeOK'
  BY <1>2, StopTypes, BudgetAssumption DEF TypeOK
<1>5. BarrenInv'
  BY <1>2, SpentCounts DEF TypeOK
<1> QED
  BY <1>3, <1>4, <1>5 DEF Kept, Reshaped

LEMMA AnswerUnreadablyKeeps ==
  ASSUME TypeOK, StallInv, BarrenInv, AnswerUnreadably
  PROVE  Kept
<1>1. /\ pc = "choosing" /\ unread' = unread + 1
      /\ UNCHANGED <<results, toolCalls, tracker, held, stallPaused, resumes>>
      /\ pc' = IF unread + 1 < MaxUnreadable THEN "choosing" ELSE "ended"
  BY DEF AnswerUnreadably, At
<1>2. results' \in Seq(Result) /\ Progress(results) \in Nat
  BY <1>1, ProgressIsNat DEF TypeOK
<1>3. Counts(results', 0) /\ idle' = idle /\ barren' = barren + 1
  BY <1>1, <1>2 DEF AnswerUnreadably, Counts, TypeOK
<1>4. StallInv'
  BY <1>1, <1>2, <1>3, UnaskedCounts
<1>5. unread < MaxUnreadable /\ barren <= MaxUnreadable * (idle + toolCalls) + unread
  BY <1>1 DEF BarrenInv
<1>6. TypeOK'
  BY <1>1, <1>3, <1>5, BudgetAssumption DEF TypeOK
<1>7. BarrenInv'
  <2>1. MaxUnreadable * (idle + toolCalls) \in Nat
    BY BudgetAssumption, Multiplied DEF TypeOK
  <2> DEFINE spent == MaxUnreadable * (idle + toolCalls)
  <2>2. spent' = spent
    BY <1>1, <1>3
  <2>3. spent \in Nat /\ barren <= spent + unread
    BY <1>5, <2>1
  <2> SUFFICES /\ barren' <= spent' + MaxUnreadable
               /\ pc' = "choosing" => unread' < MaxUnreadable /\ barren' <= spent' + unread'
    BY DEF BarrenInv
  <2> HIDE DEF spent
  <2> QED
    BY <1>1, <1>3, <1>5, <2>2, <2>3, BudgetAssumption DEF TypeOK
<1> QED
  BY <1>1, <1>4, <1>6, <1>7 DEF Kept, Reshaped

LEMMA CallNothingKeeps ==
  ASSUME TypeOK, StallInv, BarrenInv, CallNothing
  PROVE  Kept
BY AskedForNothing DEF CallNothing, At

LEMMA RefuseKeeps ==
  ASSUME TypeOK, StallInv, BarrenInv, pc = "choosing", unread' = 0, Refuse
  PROVE  Kept
BY AskedForNothing DEF Refuse

LEMMA RationKeeps ==
  ASSUME TypeOK, StallInv, BarrenInv, pc = "choosing", unread' = 0, Ration
  PROVE  Kept
<1>1. UNCHANGED <<results, toolCalls, held, resumes>>
  BY DEF Ration
<1>2. CASE pc' = "terminal" /\ UNCHANGED <<tracker, stallPaused, idle, barren>>
  <2>1. StallInv'
    BY <1>2, OverIsCounted
  <2>2. TypeOK'
    BY <1>1, <1>2, BudgetAssumption DEF TypeOK
  <2>3. BarrenInv'
    BY <1>1, <1>2, OverStays
  <2> QED
    BY <1>1, <2>1, <2>2, <2>3 DEF Kept, Reshaped
<1>3. CASE StopForNoProgress(results) /\ Counts(results, 1)
  BY <1>1, <1>3, AskedForNothing
<1> QED
  BY <1>2, <1>3 DEF Ration

LEMMA BlockKeeps ==
  ASSUME TypeOK, StallInv, BarrenInv, pc = "choosing", unread' = 0,
         NEW c \in Call, ~Refused(c), BudgetAllows(c), Block(c)
  PROVE  Kept
<1> DEFINE r == Record(c, "blocked", "none", TRUE, FALSE)
<1>1. /\ r \in Result /\ r.call = c /\ r.step = "none" /\ r.carried = FALSE
      /\ r.here = TRUE /\ r.known = TRUE
  BY DEF Record, Result, Outcomes, Steps
<1>2. results' = Append(results, r) /\ UNCHANGED <<toolCalls, held, resumes>>
  BY DEF Block
<1>3. StopForNoProgress(results') /\ Counts(results', 1)
  BY DEF Block
<1> HIDE DEF r
<1>4. results' \in Seq(Result)
  BY <1>1, <1>2, AppendFacts DEF TypeOK
<1>5. /\ tracker' \in [last : Nat, quiet : 0..(StallAfter - 1), directives : 0..MaxDirectives]
      /\ pc' \in {"choosing", "stalled", "ended"} /\ stallPaused' \in BOOLEAN
  BY <1>3, <1>4, StopTypes
<1>6. StallInv'
  BY <1>3, <1>4, AskedCounts
<1>7. (idle' = 0 /\ barren' = 0) \/ (idle' = idle + 1 /\ barren' = barren + 1)
  BY <1>3 DEF Counts
<1>8. TypeOK'
  BY <1>2, <1>4, <1>5, <1>7, BudgetAssumption DEF TypeOK
<1>9. BarrenInv'
  BY <1>2, <1>7, SpentCounts DEF TypeOK
<1>10. OwnResult(r)
  BY <1>1, <1>2 DEF OwnResult
<1> QED
  BY <1>1, <1>6, <1>8, <1>9, <1>10 DEF Kept, Reshaped

LEMMA StopAtLimitKeeps ==
  ASSUME TypeOK, StallInv, BarrenInv, pc = "choosing", unread' = 0, StopAtLimit
  PROVE  Kept
<1>1. StallInv'
  BY OverIsCounted DEF StopAtLimit
<1>2. TypeOK'
  BY BudgetAssumption DEF StopAtLimit, TypeOK
<1>3. BarrenInv'
  BY OverStays DEF StopAtLimit
<1> QED
  BY <1>1, <1>2, <1>3 DEF Kept, Reshaped, StopAtLimit

LEMMA RunKeeps ==
  ASSUME TypeOK, StallInv, BarrenInv, pc = "choosing", unread' = 0,
         NEW c \in Call, ~Refused(c), BudgetAllows(c),
         NEW p \in Possible(c), Run(c, p)
  PROVE  Kept
<1> DEFINE r == Record(c, p.outcome, RecoveryStep(c), p.fresh, FALSE)
<1>1. p.outcome \in Outcomes /\ p.fresh \in BOOLEAN
  BY PossibleAssumption
<1>2. /\ r \in Result /\ r.call = c /\ r.step = RecoveryStep(c) /\ r.carried = FALSE
      /\ r.here = TRUE /\ r.known = TRUE
  BY <1>1, StepsFacts DEF Record, Result
<1>3. results' = Append(results, r) /\ toolCalls' = toolCalls + 1 /\ UNCHANGED <<held, resumes>>
  BY DEF Run
<1> HIDE DEF r
<1>4. results' \in Seq(Result)
  BY <1>2, <1>3, AppendFacts DEF TypeOK
<1>5. \/ /\ pc' = (IF p.waits THEN "paused" ELSE "choosing")
         /\ Counts(results', 0) /\ UNCHANGED <<tracker, stallPaused>>
      \/ StopForNoProgress(results') /\ Counts(results', 1)
  BY DEF Run
<1>6. /\ tracker' \in [last : Nat, quiet : 0..(StallAfter - 1), directives : 0..MaxDirectives]
      /\ pc' \in {"choosing", "paused", "stalled", "ended"} /\ stallPaused' \in BOOLEAN
  <2>1. CASE pc' = (IF p.waits THEN "paused" ELSE "choosing") /\ UNCHANGED <<tracker, stallPaused>>
    BY <2>1 DEF TypeOK
  <2>2. CASE StopForNoProgress(results')
    BY <2>2, <1>4, StopTypes
  <2> QED
    BY <1>5, <2>1, <2>2
<1>7. StallInv'
  BY <1>4, <1>5, AskedCounts, UnaskedCounts
<1>8. \/ idle' = 0 /\ barren' = 0
      \/ idle' \in {idle, idle + 1} /\ barren' = barren + 1
  BY <1>5 DEF Counts, TypeOK
<1>9. TypeOK'
  BY <1>3, <1>4, <1>6, <1>8, BudgetAssumption DEF TypeOK
<1>10. BarrenInv'
  BY <1>3, <1>8, SpentCounts DEF TypeOK
<1>11. OwnResult(r)
  BY <1>2, <1>3 DEF OwnResult
<1> QED
  BY <1>2, <1>7, <1>9, <1>10, <1>11 DEF Kept, Reshaped

LEMMA AskPersonKeeps ==
  ASSUME TypeOK, StallInv, BarrenInv, pc = "choosing", unread' = 0, NEW c \in Call, AskPerson(c)
  PROVE  Kept
<1>1. StallInv'
  BY OverIsCounted DEF AskPerson
<1>2. TypeOK'
  BY BudgetAssumption DEF AskPerson, TypeOK
<1>3. BarrenInv'
  BY OverStays DEF AskPerson
<1> QED
  BY <1>1, <1>2, <1>3 DEF Kept, Reshaped, AskPerson

LEMMA HandleToolCallKeeps ==
  ASSUME TypeOK, StallInv, BarrenInv, NEW c \in Call, HandleToolCall(c)
  PROVE  Kept
<1>1. pc = "choosing" /\ unread' = 0
  BY DEF HandleToolCall, At
<1>2. \/ Verdict(c) = "refuse" /\ Refuse
      \/ Verdict(c) = "ration" /\ Ration
      \/ Verdict(c) = "block" /\ Block(c)
      \/ Verdict(c) = "stop" /\ StopAtLimit
      \/ Verdict(c) = "run" /\ \E p \in Possible(c) : Run(c, p)
      \/ Verdict(c) = "run" /\ AskPerson(c)
  BY DEF HandleToolCall
<1>3. Verdict(c) \in {"block", "run"} => ~Refused(c) /\ BudgetAllows(c)
  BY DEF Verdict
<1> QED
  BY <1>1, <1>2, <1>3, RefuseKeeps, RationKeeps, BlockKeeps, StopAtLimitKeeps, RunKeeps, AskPersonKeeps

LEMMA EndKeeps ==
  ASSUME TypeOK, StallInv, BarrenInv, End
  PROVE  Kept
<1>1. StallInv'
  BY OverIsCounted DEF End
<1>2. TypeOK'
  BY DEF End, TypeOK
<1>3. BarrenInv'
  BY OverStays DEF End
<1> QED
  BY <1>1, <1>2, <1>3 DEF Kept, Reshaped, End

\* A task that goes on starts a new count.
LEMMA GoOnKeeps ==
  ASSUME TypeOK, NEW rs \in Seq(Result), NEW calls \in Nat, GoOn(rs, calls)
  PROVE  TypeOK' /\ StallInv' /\ BarrenInv' /\ results' = rs
<1>1. /\ results' = rs /\ toolCalls' = calls /\ pc' = "choosing" /\ held' = NoCall
      /\ unread' = 0 /\ idle' = 0 /\ barren' = 0
      /\ resumes' = resumes + 1 /\ UNCHANGED stallPaused
      /\ Len(results) + resumes < MaxEvents
  BY DEF GoOn, Room
<1>2. tracker' = [last |-> Progress(rs), quiet |-> 0, directives |-> 0]
  BY <1>1 DEF GoOn
<1>3. tracker' \in [last : Nat, quiet : 0..(StallAfter - 1), directives : 0..MaxDirectives]
  BY <1>2, ProgressIsNat, BudgetAssumption
<1>4. resumes' \in 0..MaxEvents
  <2>1. Len(results) \in Nat /\ resumes \in Nat
    BY DEF TypeOK
  <2> QED
    BY <1>1, <2>1, BudgetAssumption
<1>5. TypeOK'
  BY <1>1, <1>3, <1>4, BudgetAssumption DEF TypeOK
<1>6. BarrenInv'
  <2> DEFINE spent == MaxUnreadable * (idle' + toolCalls')
  <2>1. MaxUnreadable \in Nat \ {0} /\ idle' + toolCalls' \in Nat
    BY <1>1, BudgetAssumption
  <2>2. spent \in Nat
    BY <2>1, Multiplied
  <2>3. BarrenInv' <=> /\ barren' <= spent + MaxUnreadable
                       /\ pc' = "choosing" => unread' < MaxUnreadable /\ barren' <= spent + unread'
    BY DEF BarrenInv
  <2> HIDE DEF spent
  <2> QED
    BY <1>1, <2>1, <2>2, <2>3
<1> QED
  BY <1>1, <1>3, <1>5, <1>6, NewsIsNotIdle

LEMMA ResumeKeeps ==
  ASSUME TypeOK, StallInv, BarrenInv, Resume
  PROVE  Kept
<1>1. AfterPause \in Seq(Result) /\ AfterPause = Restored(DOMAIN results)
  BY RestoredFacts DEF AfterPause, TypeOK
<1>2. TypeOK' /\ StallInv' /\ BarrenInv' /\ results' = AfterPause
  BY <1>1, GoOnKeeps, SuccessCount DEF Resume
<1> QED
  BY <1>1, <1>2 DEF Kept, Reshaped

LEMMA RestartCleanKeeps ==
  ASSUME TypeOK, StallInv, BarrenInv, RestartClean
  PROVE  Kept
<1> DEFINE kept == {i \in Successes(results) : results[i].call.tool \in Delivering}
<1>1. AfterCleanRestart \in Seq(Result) /\ AfterCleanRestart = Restored(kept)
  BY RestoredFacts DEF AfterCleanRestart, TypeOK
<1>2. TypeOK' /\ StallInv' /\ BarrenInv' /\ results' = AfterCleanRestart
  BY <1>1, GoOnKeeps DEF RestartClean
<1>3. kept \in SUBSET (DOMAIN results)
  BY DEF Successes
<1> QED
  BY <1>1, <1>2, <1>3 DEF Kept, Reshaped

LEMMA RestartKeeps ==
  ASSUME TypeOK, StallInv, BarrenInv, Restart
  PROVE  Kept
<1>1. \/ AfterRestart = Restored(DOMAIN results)
      \/ AfterRestart = Restored(Successes(results))
  BY DEF AfterRestart, AfterPause
<1>2. AfterRestart \in Seq(Result)
  BY <1>1, RestoredFacts DEF TypeOK
<1>3. TypeOK' /\ StallInv' /\ BarrenInv' /\ results' = AfterRestart
  BY <1>2, GoOnKeeps, SuccessCount DEF Restart
<1>4. Successes(results) \in SUBSET (DOMAIN results)
  BY DEF Successes
<1> QED
  BY <1>1, <1>3, <1>4 DEF Kept, Reshaped

LEMMA ResumeCarriedOutKeeps ==
  ASSUME TypeOK, StallInv, BarrenInv, NEW c \in Call, NEW p \in Possible(c), ResumeCarriedOut(p)
  PROVE  Kept
<1> DEFINE r == Record(held, p.outcome, "none", p.fresh, TRUE)
<1>1. p.outcome \in Outcomes /\ p.fresh \in BOOLEAN /\ held \in Call
  BY PossibleAssumption DEF ResumeCarriedOut, TypeOK
<1>2. r \in Result /\ r.carried = TRUE /\ r.here = TRUE /\ r.known = TRUE /\ r.step = "none"
  BY <1>1 DEF Record, Result, Steps
<1>3. GoOn(Append(AfterPause, r), Cardinality(Successes(AfterPause)))
  BY DEF ResumeCarriedOut
<1> HIDE DEF r
<1>4. AfterPause \in Seq(Result) /\ AfterPause = Restored(DOMAIN results)
  BY RestoredFacts DEF AfterPause, TypeOK
<1>5. TypeOK' /\ StallInv' /\ BarrenInv' /\ results' = Append(AfterPause, r)
  BY <1>2, <1>3, <1>4, AppendFacts, GoOnKeeps, SuccessCount
<1>6. CarriedResult(r, DOMAIN results)
  BY <1>2, <1>4, <1>5 DEF CarriedResult
<1> QED
  BY <1>2, <1>5, <1>6 DEF Kept, Reshaped

LEMMA NextKeeps ==
  ASSUME TypeOK, StallInv, BarrenInv, Next
  PROVE  Kept
BY AnswerUnreadablyKeeps, CallNothingKeeps, HandleToolCallKeeps, EndKeeps, ResumeKeeps, ResumeCarriedOutKeeps,
   RestartCleanKeeps, RestartKeeps
   DEF Next

-----------------------------------------------------------------------------
(* Refusals.                                                               *)

\* In the terms of the results before: a result is the old one, at most forgotten, or the
\* new one at the end.
LEMMA OldResults ==
  ASSUME TypeOK, Reshaped
  PROVE  /\ Len(results) \in Nat /\ DOMAIN results = 1..Len(results)
         /\ DOMAIN results' = 1..Len(results) \/ DOMAIN results' = 1..(Len(results) + 1)
         /\ \A i \in 1..Len(results) :
              /\ results'[i].call = results[i].call
              /\ results'[i].outcome = results[i].outcome
              /\ results'[i].step = results[i].step
              /\ results'[i].carried = results[i].carried
              /\ results'[i].known => results[i].known
              /\ results'[i].here => results'[i] = results[i]
<1>1. results \in Seq(Result) /\ Len(results) \in Nat /\ DOMAIN results = 1..Len(results)
  BY DEF TypeOK
<1>2. CASE UNCHANGED results
  BY <1>1, <1>2
<1>3. CASE \E r \in Result : OwnResult(r)
  <2>1. PICK r \in Result : OwnResult(r)
    BY <1>3
  <2>2. results' = Append(results, r)
    BY <2>1 DEF OwnResult
  <2> QED
    BY <1>1, <2>2, AppendFacts
<1>4. CASE \E kept \in SUBSET (DOMAIN results) : results' = Restored(kept)
  <2>1. PICK kept \in SUBSET (DOMAIN results) : results' = Restored(kept)
    BY <1>4
  <2>2. DOMAIN results' = 1..Len(results)
    BY <1>1, <2>1, RestoredFacts
  <2>3. \A i \in 1..Len(results) :
          /\ Restored(kept)[i].call = results[i].call
          /\ Restored(kept)[i].outcome = results[i].outcome
          /\ Restored(kept)[i].step = results[i].step
          /\ Restored(kept)[i].carried = results[i].carried
          /\ ~Restored(kept)[i].here
          /\ Restored(kept)[i].known => results[i].known
    BY <1>1, RestoredFacts, Zenon
  <2> QED
    BY <1>1, <2>1, <2>2, <2>3, Zenon
<1>5. CASE \E kept \in SUBSET (DOMAIN results) : \E r \in Result : CarriedResult(r, kept)
  <2>1. PICK kept \in SUBSET (DOMAIN results), r \in Result : CarriedResult(r, kept)
    BY <1>5
  <2>2. results' = Append(Restored(kept), r)
    BY <2>1 DEF CarriedResult
  <2>3. Restored(kept) \in Seq(Result) /\ Len(Restored(kept)) = Len(results)
    BY <1>1, RestoredFacts
  <2>4. /\ DOMAIN results' = 1..(Len(results) + 1)
        /\ \A i \in 1..Len(results) : results'[i] = Restored(kept)[i]
    BY <2>2, <2>3, AppendFacts
  <2>5. \A i \in 1..Len(results) :
          /\ Restored(kept)[i].call = results[i].call
          /\ Restored(kept)[i].outcome = results[i].outcome
          /\ Restored(kept)[i].step = results[i].step
          /\ Restored(kept)[i].carried = results[i].carried
          /\ ~Restored(kept)[i].here
          /\ Restored(kept)[i].known => results[i].known
    BY <1>1, RestoredFacts, Zenon
  <2> QED
    BY <1>1, <2>4, <2>5, Zenon
<1> QED
  BY <1>1, <1>2, <1>3, <1>4, <1>5 DEF Reshaped

\* The new result of the turn's own.
LEMMA NewResult ==
  ASSUME TypeOK, Reshaped, Len(results) + 1 \in DOMAIN results',
         ~results'[Len(results) + 1].carried
  PROVE  OwnResult(results'[Len(results) + 1])
<1>1. results \in Seq(Result) /\ Len(results) \in Nat /\ DOMAIN results = 1..Len(results)
  BY DEF TypeOK
<1>2. CASE UNCHANGED results
  BY <1>1, <1>2
<1>3. CASE \E r \in Result : OwnResult(r)
  <2>1. PICK r \in Result : OwnResult(r)
    BY <1>3
  <2>2. results' = Append(results, r)
    BY <2>1 DEF OwnResult
  <2> QED
    BY <1>1, <2>1, <2>2, AppendFacts
<1>4. CASE \E kept \in SUBSET (DOMAIN results) : results' = Restored(kept)
  <2>1. PICK kept \in SUBSET (DOMAIN results) : results' = Restored(kept)
    BY <1>4
  <2>2. DOMAIN results' = DOMAIN results
    BY <1>1, <2>1, RestoredFacts
  <2> QED
    BY <1>1, <2>2
<1>5. CASE \E kept \in SUBSET (DOMAIN results) : \E r \in Result : CarriedResult(r, kept)
  <2>1. PICK kept \in SUBSET (DOMAIN results), r \in Result : CarriedResult(r, kept)
    BY <1>5
  <2>2. results' = Append(Restored(kept), r) /\ r.carried
    BY <2>1 DEF CarriedResult
  <2>3. Restored(kept) \in Seq(Result) /\ Len(Restored(kept)) = Len(results)
    BY <1>1, RestoredFacts
  <2> QED
    BY <2>2, <2>3, AppendFacts
<1> QED
  BY <1>2, <1>3, <1>4, <1>5 DEF Reshaped

LEMMA ClosedKept ==
  ASSUME TypeOK, ClosedStaysClosed, Reshaped
  PROVE  ClosedStaysClosed'
<1> DEFINE n == Len(results)
<1>1. /\ n \in Nat /\ DOMAIN results = 1..n
      /\ DOMAIN results' = 1..n \/ DOMAIN results' = 1..(n + 1)
      /\ \A i \in 1..n :
           /\ results'[i].call = results[i].call
           /\ results'[i].outcome = results[i].outcome
           /\ results'[i].carried = results[i].carried
           /\ results'[i].known => results[i].known
  BY OldResults
<1> SUFFICES ASSUME NEW i \in DOMAIN results', NEW j \in DOMAIN results', i < j,
                    Failed(results'[i]), ~results'[i].carried, ~results'[j].carried
             PROVE  /\ results'[i].outcome = "final" => results'[j].call.tool # results'[i].call.tool
                    /\ results'[j].call = results'[i].call =>
                         \E k \in DOMAIN results' : i < k /\ k < j /\ results'[k].outcome = "ok"
  BY DEF ClosedStaysClosed
<1>2. i \in 1..n /\ Failed(results[i]) /\ ~results[i].carried /\ results[i].known
  BY <1>1 DEF Failed
<1>3. CASE j \in 1..n
  <2>1. /\ results[i].outcome = "final" => results[j].call.tool # results[i].call.tool
        /\ results[j].call = results[i].call =>
             \E k \in DOMAIN results : i < k /\ k < j /\ results[k].outcome = "ok"
    BY <1>1, <1>2, <1>3 DEF ClosedStaysClosed
  <2> QED
    BY <1>1, <1>2, <1>3, <2>1
<1>4. CASE j = n + 1
  <2>1. OwnResult(results'[j])
    BY <1>4, NewResult
  <2>2. ~NeverAgain(results'[j].call) /\ ~FailedAlready(results'[j].call)
    BY <2>1 DEF OwnResult, Refused
  <2>3. results[i].outcome = "final" => results'[j].call.tool # results[i].call.tool
    BY <1>1, <1>2, <2>2 DEF NeverAgain
  <2>4. results'[j].call = results[i].call =>
          \E k \in DOMAIN results : i < k /\ Succeeded(results[k])
    BY <1>1, <1>2, <2>2 DEF FailedAlready
  <2>5. ASSUME NEW k \in DOMAIN results, i < k, Succeeded(results[k])
        PROVE  k \in DOMAIN results' /\ k < j /\ results'[k].outcome = "ok"
    BY <1>1, <1>4, <2>5 DEF Succeeded
  <2> QED
    BY <1>1, <1>2, <2>3, <2>4, <2>5
<1> QED
  BY <1>1, <1>3, <1>4

LEMMA SentKept ==
  ASSUME TypeOK, SentOnce, Reshaped
  PROVE  SentOnce'
<1> DEFINE n == Len(results)
<1>1. /\ n \in Nat /\ DOMAIN results = 1..n
      /\ DOMAIN results' = 1..n \/ DOMAIN results' = 1..(n + 1)
      /\ \A i \in 1..n :
           /\ results'[i].call = results[i].call
           /\ results'[i].outcome = results[i].outcome
           /\ results'[i].carried = results[i].carried
           /\ results'[i].known => results[i].known
  BY OldResults
<1> SUFFICES ASSUME NEW i \in DOMAIN results', NEW j \in DOMAIN results', i < j,
                    results'[i].call.tool \in Sending, results'[i].call.tool = results'[j].call.tool,
                    Succeeded(results'[i]), results'[j].outcome = "ok",
                    ~results'[i].carried, ~results'[j].carried
             PROVE  Recipient(results'[i].call) # Recipient(results'[j].call)
  BY DEF SentOnce
<1>2. i \in 1..n /\ Succeeded(results[i]) /\ ~results[i].carried /\ results'[i].call = results[i].call
  BY <1>1 DEF Succeeded
<1>3. CASE j \in 1..n
  <2>1. results'[j].call = results[j].call /\ results[j].outcome = "ok" /\ ~results[j].carried
    BY <1>1, <1>3
  <2> QED
    BY <1>1, <1>2, <1>3, <2>1 DEF SentOnce
<1>4. CASE j = n + 1
  <2>1. OwnResult(results'[j])
    BY <1>4, NewResult
  <2>2. ~SentAlready(results'[j].call)
    BY <2>1 DEF OwnResult, Refused
  <2> QED
    BY <1>1, <1>2, <2>2 DEF SentAlready
<1> QED
  BY <1>1, <1>3, <1>4

-----------------------------------------------------------------------------
(* The recovery budget.                                                    *)

LEMMA OwnIsAppended ==
  ASSUME TypeOK, NEW r, OwnResult(r)
  PROVE  /\ results \in Seq(Result) /\ Len(results) \in Nat /\ DOMAIN results = 1..Len(results)
         /\ DOMAIN results' = 1..(Len(results) + 1)
         /\ \A i \in 1..Len(results) : results'[i] = results[i]
         /\ results'[Len(results) + 1] = r
<1>1. results' = Append(results, r) /\ r \in Result /\ results \in Seq(Result)
  BY DEF OwnResult, TypeOK
<1> QED
  BY <1>1, AppendFacts

\* After a step that is none of the turn's own results, only a result with no recovery
\* step, the last one, belongs to the turn.
LEMMA NothingHere ==
  ASSUME TypeOK, Reshaped, ~UNCHANGED results, ~\E r \in Result : OwnResult(r),
         NEW k \in DOMAIN results', results'[k].here
  PROVE  k = Len(results) + 1 /\ results'[k].known /\ results'[k].step = "none"
<1>1. results \in Seq(Result) /\ Len(results) \in Nat /\ DOMAIN results = 1..Len(results)
  BY DEF TypeOK
<1>2. CASE \E kept \in SUBSET (DOMAIN results) : results' = Restored(kept)
  <2>1. PICK kept \in SUBSET (DOMAIN results) : results' = Restored(kept)
    BY <1>2
  <2>2. DOMAIN Restored(kept) = DOMAIN results /\ \A i \in DOMAIN results : ~Restored(kept)[i].here
    BY <1>1, RestoredFacts, Zenon
  <2> QED
    BY <2>1, <2>2, Zenon
<1>3. CASE \E kept \in SUBSET (DOMAIN results) : \E r \in Result : CarriedResult(r, kept)
  <2>1. PICK kept \in SUBSET (DOMAIN results), r \in Result : CarriedResult(r, kept)
    BY <1>3
  <2>2. results' = Append(Restored(kept), r) /\ r.known /\ r.step = "none"
    BY <2>1 DEF CarriedResult
  <2>3. /\ Restored(kept) \in Seq(Result) /\ Len(Restored(kept)) = Len(results)
        /\ \A i \in DOMAIN results : ~Restored(kept)[i].here
    BY <1>1, RestoredFacts, Zenon
  <2>4. /\ DOMAIN results' = 1..(Len(results) + 1)
        /\ \A i \in 1..Len(results) : results'[i] = Restored(kept)[i]
        /\ results'[Len(results) + 1] = r
    BY <2>2, <2>3, AppendFacts
  <2>5. \A i \in 1..Len(results) : ~results'[i].here
    BY <1>1, <2>3, <2>4, Zenon
  <2>6. k = Len(results) + 1
    BY <1>1, <2>4, <2>5
  <2> QED
    BY <2>2, <2>4, <2>6
<1> QED
  BY <1>2, <1>3 DEF Reshaped

LEMMA StepsKept ==
  ASSUME TypeOK, StepInv, Reshaped
  PROVE  StepInv'
<1> DEFINE n == Len(results)
<1> SUFFICES ASSUME NEW k \in DOMAIN results', results'[k].here
             PROVE  /\ results'[k].known
                    /\ results'[k].step # "none" =>
                         \E i \in DOMAIN results' :
                           /\ i < k /\ Failed(results'[i])
                           /\ \A m \in DOMAIN results' : i < m /\ m < k => ~Settles(results'[m])
  BY DEF StepInv
<1>1. CASE UNCHANGED results
  BY <1>1 DEF StepInv
<1>2. CASE ~UNCHANGED results /\ ~\E r \in Result : OwnResult(r)
  BY <1>2, NothingHere
<1>3. CASE \E r \in Result : OwnResult(r)
  <2>1. PICK r \in Result : OwnResult(r)
    BY <1>3
  <2>2. /\ n \in Nat /\ DOMAIN results = 1..n
        /\ DOMAIN results' = 1..(n + 1)
        /\ \A i \in 1..n : results'[i] = results[i]
        /\ results'[n + 1] = r
    BY <2>1, OwnIsAppended
  <2>3. CASE k \in 1..n
    <3>1. results[k].here /\ results'[k] = results[k]
      BY <2>2, <2>3
    <3>2. /\ results[k].known
          /\ results[k].step # "none" =>
               \E i \in DOMAIN results :
                 /\ i < k /\ Failed(results[i])
                 /\ \A m \in DOMAIN results : i < m /\ m < k => ~Settles(results[m])
      BY <2>2, <2>3, <3>1 DEF StepInv
    <3> HIDE DEF n
    <3>3. \A m \in DOMAIN results' : m < k => m \in DOMAIN results /\ results'[m] = results[m]
      BY <2>2, <2>3
    <3>4. DOMAIN results \subseteq DOMAIN results'
      BY <2>2
    <3> QED
      BY <3>1, <3>2, <3>3, <3>4
  <2>4. CASE k = n + 1
    <3>1. r.known /\ r.step \in {"none", RecoveryStep(r.call)}
      BY <2>1 DEF OwnResult
    <3>2. ASSUME r.step # "none"
          PROVE  \E i \in DOMAIN results :
                   Failed(results[i]) /\ \A m \in DOMAIN results : m > i => ~Settles(results[m])
      BY <3>1, <3>2 DEF RecoveryStep, Debt, Owed
    <3> HIDE DEF n
    <3>3. ASSUME r.step # "none"
          PROVE  \E i \in DOMAIN results' :
                   /\ i < k /\ Failed(results'[i])
                   /\ \A m \in DOMAIN results' : i < m /\ m < k => ~Settles(results'[m])
      <4>1. PICK i \in DOMAIN results :
              Failed(results[i]) /\ \A m \in DOMAIN results : m > i => ~Settles(results[m])
        BY <3>2, <3>3
      <4>2. i \in DOMAIN results' /\ i < k /\ results'[i] = results[i]
        BY <2>2, <2>4
      <4>3. \A m \in DOMAIN results' : i < m /\ m < k => m \in DOMAIN results /\ m > i /\ results'[m] = results[m]
        BY <2>2, <2>4
      <4> QED
        BY <4>1, <4>2, <4>3
    <3> QED
      BY <2>2, <2>4, <3>1, <3>3
  <2> QED
    BY <2>2, <2>3, <2>4
<1> QED
  BY <1>1, <1>2, <1>3

\* The results of a stretch that took a step, with one of some calls.
Taken(rs, i, j, step, calls) == {k \in i..j : rs[k].step = step /\ rs[k].call \in calls}

\* A stretch of the turn that runs now, in which nothing settles before its last result.
Stretch(rs, i, j) ==
  i <= j /\ \A k \in i..j : rs[k].here /\ (k < j => ~Settles(rs[k]))

\* No stretch that ends here has used more than the budget.
Rationed(rs, i, j) ==
  /\ Cardinality(Taken(rs, i, j, "alternate_route", Call)) <= AlternateRoute
  /\ Cardinality(Taken(rs, i, j, "adjacent_tool", Call)) <= AdjacentTool
  /\ \A c \in Call : Cardinality(Taken(rs, i, j, "corrected_retry", {c})) <= CorrectedRetry

\* A call that was not made took no step: the property speaks of the calls that were.
LEMMA CallsThatWere ==
  ASSUME NEW rs \in Seq(Result), NEW i \in DOMAIN rs, NEW j \in DOMAIN rs
  PROVE  (\A c \in Call : Cardinality(Taken(rs, i, j, "corrected_retry", {c})) <= CorrectedRetry)
           <=> (\A k \in i..j : Cardinality(Taken(rs, i, j, "corrected_retry", {rs[k].call})) <= CorrectedRetry)
<1>1. \A k \in i..j : k \in DOMAIN rs /\ rs[k].call \in Call
  <2>1. DOMAIN rs = 1..Len(rs) /\ Len(rs) \in Nat /\ \A k \in 1..Len(rs) : rs[k] \in Result
    OBVIOUS
  <2> QED
    BY <2>1 DEF Result
<1>2. ASSUME NEW c \in Call, \A k \in i..j : rs[k].call # c
      PROVE  Cardinality(Taken(rs, i, j, "corrected_retry", {c})) <= CorrectedRetry
  <2>1. Taken(rs, i, j, "corrected_retry", {c}) = {}
    BY <1>2 DEF Taken
  <2> DEFINE count == Cardinality(Taken(rs, i, j, "corrected_retry", {c}))
  <2>2. count = 0
    BY <2>1, FS_EmptySet
  <2>3. CorrectedRetry \in Nat
    BY BudgetAssumption
  <2> HIDE DEF count
  <2>4. count <= CorrectedRetry
    BY <2>2, <2>3
  <2> QED
    BY <2>4 DEF count
<1> QED
  BY <1>1, <1>2

LEMMA RationedIs ==
  ASSUME TypeOK
  PROVE  RecoveryRationed <=>
           \A i, j \in DOMAIN results : Stretch(results, i, j) => Rationed(results, i, j)
<1>1. results \in Seq(Result)
  BY DEF TypeOK
<1> QED
  BY <1>1, CallsThatWere DEF RecoveryRationed, Stretch, Rationed, Taken

LEMMA Least ==
  ASSUME NEW S \in SUBSET Nat, NEW i \in S
  PROVE  Min(S) \in S /\ Min(S) <= i
<1> DEFINE R == OpToRel(<, Nat)
<1>1. IsWellFoundedOn(R, Nat)
  BY NatLessThanWellFounded
<1>2. \A x, y \in Nat : <<y, x>> \in R <=> y < x
  BY DEF OpToRel
<1> HIDE DEF R
<1>3. PICK x \in S : \A y \in S : ~(<<y, x>> \in R)
  BY <1>1, WFMin
<1>4. ASSUME NEW y \in S
      PROVE  x <= y
  <2>1. x \in Nat /\ y \in Nat /\ <<y, x>> \notin R
    BY <1>3
  <2>2. ~(y < x)
    BY <1>2, <2>1
  <2> QED
    BY <2>1, <2>2
<1> QED
  BY <1>3, <1>4 DEF Min

\* Every recovery step of a stretch up to now belongs to the episode.
LEMMA InEpisode ==
  ASSUME TypeOK, StepInv, NEW i \in 1..Len(results), NEW k \in i..Len(results),
         \A m \in i..Len(results) : results[m].here /\ ~Settles(results[m]),
         results[k].step # "none"
  PROVE  k >= EpisodeStart /\ results[k].known
<1> DEFINE n == Len(results)
<1>1. n \in Nat /\ DOMAIN results = 1..n
  BY DEF TypeOK
<1> HIDE DEF n
<1>2. k \in 1..n /\ results[k].here
  BY <1>1 DEF n
<1>3. results[k].known
  BY <1>1, <1>2 DEF StepInv
<1>4. PICK f \in 1..n :
        /\ f < k /\ Failed(results[f])
        /\ \A m \in DOMAIN results : f < m /\ m < k => ~Settles(results[m])
  BY <1>1, <1>2 DEF StepInv
<1>5. ASSUME NEW m \in DOMAIN results, m > f
      PROVE  ~Settles(results[m])
  <2>1. CASE m < k
    BY <1>4, <1>5, <2>1
  <2>2. CASE m >= k
    <3>1. m \in i..Len(results)
      BY <1>1, <1>2, <2>2 DEF n
    <3> QED
      BY <3>1
  <2> QED
    BY <1>1, <1>2, <2>1, <2>2
<1>6. f \in Owed(results) /\ Owed(results) \in SUBSET Nat
  BY <1>1, <1>4, <1>5 DEF Owed
<1>7. EpisodeStart \in Nat /\ EpisodeStart <= f
  BY <1>6, Least DEF EpisodeStart
<1> QED
  BY <1>1, <1>2, <1>3, <1>4, <1>7

\* One more result keeps a stretch within a ceiling the step was checked against.
LEMMA OneMore ==
  ASSUME TypeOK, StepInv, NEW r, OwnResult(r),
         NEW step, step # "none", NEW calls, NEW budget \in Nat,
         NEW i \in 1..(Len(results) + 1),
         \A k \in i..Len(results) : results[k].here /\ ~Settles(results[k]),
         i <= Len(results) => Cardinality(Taken(results, i, Len(results), step, calls)) <= budget,
         r.step = step /\ r.call \in calls => Used(step, calls) < budget
  PROVE  Cardinality(Taken(results', i, Len(results) + 1, step, calls)) <= budget
<1> DEFINE n == Len(results)
           old == Taken(results, i, n, step, calls)
           new == Taken(results', i, n + 1, step, calls)
           used == {k \in DOMAIN results :
                      /\ k >= EpisodeStart
                      /\ results[k].known /\ results[k].here
                      /\ results[k].step = step /\ results[k].call \in calls}
<1>1. /\ n \in Nat /\ DOMAIN results = 1..n
      /\ \A k \in 1..n : results'[k] = results[k]
      /\ results'[n + 1] = r
  BY OwnIsAppended
<1>2. IsFiniteSet(1..n) /\ IsFiniteSet(used) /\ Cardinality(used) \in Nat
  <2>1. used \in SUBSET (1..n) /\ IsFiniteSet(1..n)
    BY <1>1, FS_Interval
  <2> QED
    BY <2>1, FS_Subset, FS_CardinalityType
<1>3. Used(step, calls) = Cardinality(used)
  BY DEF Used
<1>4. ASSUME NEW k \in i..n, results[k].step = step, results[k].call \in calls
      PROVE  k \in used
  <2>1. i \in 1..Len(results) /\ k \in i..Len(results) /\ k \in DOMAIN results
    BY <1>1
  <2>2. k >= EpisodeStart /\ results[k].known
    BY <1>4, <2>1, InEpisode
  <2> QED
    BY <1>4, <2>1, <2>2
<1> HIDE DEF used
<1>5. CASE r.step = step /\ r.call \in calls
  <2>1. new \in SUBSET (used \cup {n + 1})
    BY <1>1, <1>4 DEF Taken
  <2>2. IsFiniteSet(used \cup {n + 1}) /\ Cardinality(used \cup {n + 1}) <= Cardinality(used) + 1
    <3>1. /\ IsFiniteSet(used \cup {n + 1})
          /\ Cardinality(used \cup {n + 1}) =
               IF n + 1 \in used THEN Cardinality(used) ELSE Cardinality(used) + 1
      BY <1>2, FS_AddElement
    <3> QED
      BY <1>2, <3>1
  <2>3. /\ Cardinality(new) <= Cardinality(used \cup {n + 1})
        /\ Cardinality(new) \in Nat /\ Cardinality(used \cup {n + 1}) \in Nat
    BY <2>1, <2>2, FS_Subset, FS_CardinalityType
  <2>4. Cardinality(used) < budget
    BY <1>3, <1>5
  <2> HIDE DEF new, n
  <2>5. Cardinality(new) <= budget
    BY <1>2, <2>2, <2>3, <2>4
  <2> QED
    BY <2>5 DEF new, n
<1>6. CASE ~(r.step = step /\ r.call \in calls)
  <2>1. new = old
    BY <1>1, <1>6 DEF Taken
  <2>2. CASE i <= n
    BY <2>1, <2>2
  <2>3. CASE i = n + 1
    <3>1. old = {}
      BY <1>1, <2>3 DEF Taken
    <3> QED
      BY <2>1, <3>1, FS_EmptySet
  <2> QED
    BY <1>1, <2>2, <2>3
<1> QED
  BY <1>5, <1>6

LEMMA RationKept ==
  ASSUME TypeOK, TypeOK', StepInv, RecoveryRationed, Reshaped
  PROVE  RecoveryRationed'
<1> DEFINE n == Len(results)
<1>1. n \in Nat /\ DOMAIN results = 1..n
  BY DEF TypeOK
<1>2. /\ AlternateRoute \in Nat /\ AdjacentTool \in Nat /\ CorrectedRetry \in Nat
  BY BudgetAssumption
<1> SUFFICES ASSUME NEW i \in DOMAIN results', NEW j \in DOMAIN results', Stretch(results', i, j)
             PROVE  Rationed(results', i, j)
  <2>1. results' \in Seq(Result)
    BY DEF TypeOK
  <2> QED
    BY <2>1, CallsThatWere DEF RecoveryRationed, Stretch, Rationed, Taken
<1>3. CASE UNCHANGED results
  BY <1>3, RationedIs
<1>4. CASE ~UNCHANGED results /\ ~\E r \in Result : OwnResult(r)
  <2>1. i \in Nat /\ j \in Nat /\ DOMAIN results' \in {1..n, 1..(n + 1)} /\ i <= j
    BY <1>1, OldResults DEF Stretch
  <2>2. \A k \in i..j : k \in DOMAIN results' /\ results'[k].here
    BY <1>1, <2>1 DEF Stretch
  <2>3. \A k \in i..j : results'[k].step = "none"
    BY <1>4, <2>2, NothingHere
  <2>4. /\ Taken(results', i, j, "alternate_route", Call) = {}
        /\ Taken(results', i, j, "adjacent_tool", Call) = {}
        /\ \A c \in Call : Taken(results', i, j, "corrected_retry", {c}) = {}
    BY <2>3 DEF Taken
  <2> QED
    BY <1>2, <2>4, FS_EmptySet DEF Rationed
<1>5. CASE \E r \in Result : OwnResult(r)
  <2>1. PICK r \in Result : OwnResult(r)
    BY <1>5
  <2>2. /\ DOMAIN results' = 1..(n + 1)
        /\ \A k \in 1..n : results'[k] = results[k]
        /\ results'[n + 1] = r
    BY <2>1, OwnIsAppended
  <2>3. i <= j /\ \A k \in i..j : results'[k].here /\ (k < j => ~Settles(results'[k]))
    BY DEF Stretch
  <2>4. CASE j \in 1..n
    <3>1. \A k \in i..j : results'[k] = results[k]
      BY <1>1, <2>2, <2>4
    <3>2. i \in DOMAIN results /\ j \in DOMAIN results /\ Stretch(results, i, j)
      BY <1>1, <2>2, <2>3, <2>4, <3>1 DEF Stretch
    <3>3. Rationed(results, i, j)
      BY <3>2, RationedIs
    <3>4. \A step, calls : Taken(results', i, j, step, calls) = Taken(results, i, j, step, calls)
      BY <3>1 DEF Taken
    <3> QED
      BY <3>3, <3>4 DEF Rationed
  <2>5. CASE j = n + 1
    <3>1. \A k \in i..n : results[k].here /\ ~Settles(results[k])
      BY <1>1, <2>2, <2>3, <2>5
    <3>2. ASSUME i <= n
          PROVE  Rationed(results, i, n)
      <4>1. i \in DOMAIN results /\ n \in DOMAIN results
        BY <1>1, <2>2, <3>2
      <4>2. Stretch(results, i, n)
        BY <3>1, <3>2 DEF Stretch
      <4> QED
        BY <4>1, <4>2, RationedIs
    <3>3. BudgetAllows(r.call) /\ r.step \in {"none", RecoveryStep(r.call)} /\ r.call \in Call
      BY <2>1 DEF OwnResult, Result
    <3>4. /\ r.step = "alternate_route" => Used("alternate_route", Call) < AlternateRoute
          /\ r.step = "adjacent_tool" => Used("adjacent_tool", Call) < AdjacentTool
          /\ r.step = "corrected_retry" => Used("corrected_retry", {r.call}) < CorrectedRetry
      BY <3>3 DEF BudgetAllows, Free
    <3>5. Cardinality(Taken(results', i, n + 1, "alternate_route", Call)) <= AlternateRoute
      <4>1. i <= n => Cardinality(Taken(results, i, n, "alternate_route", Call)) <= AlternateRoute
        BY <3>2 DEF Rationed
      <4> QED
        BY <1>2, <2>1, <2>2, <3>1, <3>4, <4>1, OneMore
    <3>6. Cardinality(Taken(results', i, n + 1, "adjacent_tool", Call)) <= AdjacentTool
      <4>1. i <= n => Cardinality(Taken(results, i, n, "adjacent_tool", Call)) <= AdjacentTool
        BY <3>2 DEF Rationed
      <4> QED
        BY <1>2, <2>1, <2>2, <3>1, <3>4, <4>1, OneMore
    <3>7. ASSUME NEW c \in Call
          PROVE  Cardinality(Taken(results', i, n + 1, "corrected_retry", {c})) <= CorrectedRetry
      <4>1. i <= n => Cardinality(Taken(results, i, n, "corrected_retry", {c})) <= CorrectedRetry
        BY <3>2, <3>7 DEF Rationed
      <4>2. r.step = "corrected_retry" /\ r.call \in {c} => Used("corrected_retry", {c}) < CorrectedRetry
        BY <3>4
      <4> QED
        BY <1>2, <2>1, <2>2, <3>1, <4>1, <4>2, OneMore
    <3> QED
      BY <2>5, <3>5, <3>6, <3>7 DEF Rationed
  <2> QED
    BY <1>1, <2>2, <2>4, <2>5
<1> QED
  BY <1>3, <1>4, <1>5

-----------------------------------------------------------------------------
(* The invariant and the theorems.                                         *)

\* StallInv and StepInv are what the properties need to be inductive: that quiet actions
\* are all counted, and that no recovery step comes before the episode it is counted in.
IInv == TypeOK /\ StallInv /\ BarrenInv /\ StepInv /\ ClosedStaysClosed /\ SentOnce /\ RecoveryRationed

LEMMA InitHolds == Init => IInv
<1> SUFFICES ASSUME Init PROVE IInv
  OBVIOUS
<1>1. results = <<>> /\ DOMAIN results = {}
  BY DEF Init
<1>2. TypeOK
  <2>1. results \in Seq(Result) /\ toolCalls \in Nat /\ idle \in Nat /\ resumes \in 0..MaxEvents
    BY BudgetAssumption DEF Init
  <2>2. tracker \in [last : Nat, quiet : 0..(StallAfter - 1), directives : 0..MaxDirectives]
    BY BudgetAssumption DEF Init
  <2>3. pc = "choosing" /\ held = NoCall /\ stallPaused \in BOOLEAN
    BY DEF Init
  <2>4. unread \in 0..MaxUnreadable /\ barren \in Nat
    BY BudgetAssumption DEF Init
  <2> QED
    BY <2>1, <2>2, <2>3, <2>4 DEF TypeOK
<1>3. StallInv /\ BarrenInv
  <2>1. idle = 0 /\ tracker.quiet = 0 /\ tracker.directives = 0
    BY DEF Init
  <2>2. StallAfter * 0 = 0
    BY BudgetAssumption
  <2>3. MaxUnreadable \in Nat \ {0} /\ MaxUnreadable * (0 + 0) = 0
    BY BudgetAssumption
  <2>4. toolCalls = 0 /\ unread = 0 /\ barren = 0
    BY DEF Init
  <2> QED
    BY <2>1, <2>2, <2>3, <2>4 DEF StallInv, BarrenInv
<1>4. StepInv /\ ClosedStaysClosed /\ SentOnce /\ RecoveryRationed
  BY <1>1 DEF StepInv, ClosedStaysClosed, SentOnce, RecoveryRationed
<1> QED
  BY <1>2, <1>3, <1>4 DEF IInv

LEMMA StepHolds == IInv /\ [Next]_vars => IInv'
<1> SUFFICES ASSUME IInv, [Next]_vars PROVE IInv'
  OBVIOUS
<1>1. TypeOK /\ StallInv /\ BarrenInv /\ StepInv /\ ClosedStaysClosed /\ SentOnce /\ RecoveryRationed
  BY DEF IInv
<1>2. CASE Next
  <2>1. TypeOK' /\ StallInv' /\ BarrenInv' /\ Reshaped
    BY <1>1, <1>2, NextKeeps DEF Kept
  <2> QED
    BY <1>1, <2>1, StepsKept, ClosedKept, SentKept, RationKept DEF IInv
<1>3. CASE UNCHANGED vars
  <2>1. TypeOK' /\ StallInv' /\ BarrenInv'
    BY <1>1, <1>3 DEF vars, TypeOK, StallInv, BarrenInv
  <2>2. Reshaped
    BY <1>3 DEF vars, Reshaped
  <2> QED
    BY <1>1, <2>1, <2>2, StepsKept, ClosedKept, SentKept, RationKept DEF IInv
<1> QED
  BY <1>2, <1>3

LEMMA Invariance == Spec => []IInv
BY InitHolds, StepHolds, PTL DEF Spec

\* Every variable keeps its type, and the tracker its limits.
THEOREM TypeCorrect == Spec => []TypeOK
<1>1. IInv => TypeOK
  BY DEF IInv
<1> QED
  BY <1>1, Invariance, PTL

\* Whatever the model answers, a turn that gets no new result is refused, or calls nothing,
\* no more often than the two limits of the stall control allow, and its other actions are
\* calls, which have their own limit, or unreadable answers, few in a row.
THEOREM TurnsRunDry == Spec => []ThrashIsBounded
<1>1. IInv => ThrashIsBounded
  BY StallBound DEF IInv
<1> QED
  BY <1>1, Invariance, PTL

\* Over any pauses and restarts, a failed call is not repeated before a success, and a tool
\* that must not be retried is not called again, while the turn knows of the failure.
THEOREM ClosedForGood == Spec => []ClosedStaysClosed
<1>1. IInv => ClosedStaysClosed
  BY DEF IInv
<1> QED
  BY <1>1, Invariance, PTL

\* A task makes one successful send of its own, with a tool, to a recipient it knows of.
THEOREM SentAtMostOnce == Spec => []SentOnce
<1>1. IInv => SentOnce
  BY DEF IInv
<1> QED
  BY <1>1, Invariance, PTL

\* Between two successes that clear the debt, the turn that runs takes no more recovery
\* steps of a kind than the budget allows, however many failures follow each other.
THEOREM RecoveryIsRationed == Spec => []RecoveryRationed
<1>1. IInv => RecoveryRationed
  BY DEF IInv
<1> QED
  BY <1>1, Invariance, PTL
=============================================================================
