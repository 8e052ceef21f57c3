-------------------------- MODULE StepActionProofs --------------------------
(***************************************************************************)
(* Proofs about StepAction, for any tools, requests, answers and limits:   *)
(* a call that waited is made with its own tools, each call of an answer   *)
(* is made or told, and the menu of a step is made for it.                 *)
(***************************************************************************)
EXTENDS StepAction, FiniteSetTheorems, WellFoundedInduction, TLAPS

-----------------------------------------------------------------------------
(* The calls of an answer that repeat none before them are of the answer.  *)

Rank(kept, i) == Cardinality({j \in kept : j <= i})

LEMMA RanksAreDistinct ==
  ASSUME NEW n \in Nat, NEW kept \in SUBSET (1 .. n)
  PROVE  /\ IsFiniteSet(kept) /\ Cardinality(kept) \in Nat /\ kept \subseteq Nat
         /\ \A i \in kept : Rank(kept, i) \in 1 .. Cardinality(kept)
         /\ \A i, j \in kept : i < j => Rank(kept, i) < Rank(kept, j)
<1> DEFINE Below(i) == {j \in kept : j <= i}
<1>1. IsFiniteSet(kept) /\ Cardinality(kept) \in Nat /\ kept \subseteq Nat
  <2>1. IsFiniteSet(1 .. n)
    BY FS_Interval
  <2>2. IsFiniteSet(kept)
    BY <2>1, FS_Subset
  <2> QED
    BY <2>2, FS_CardinalityType
<1>2. ASSUME NEW i \in kept
      PROVE  IsFiniteSet(Below(i)) /\ Cardinality(Below(i)) \in Nat /\ Cardinality(Below(i)) <= Cardinality(kept)
  <2>1. Below(i) \in SUBSET kept
    OBVIOUS
  <2> HIDE DEF Below
  <2> QED
    BY <1>1, <2>1, FS_Subset, FS_CardinalityType
<1>3. ASSUME NEW i \in kept PROVE i \in Below(i) /\ Cardinality(Below(i)) # 0
  <2>1. i \in Nat
    BY <1>1
  <2>2. i \in Below(i)
    BY <2>1
  <2> HIDE DEF Below
  <2> QED
    BY <1>2, <2>2, FS_EmptySet
<1>4. ASSUME NEW i \in kept, NEW j \in kept, i < j PROVE Cardinality(Below(i)) < Cardinality(Below(j))
  <2>1. i \in Nat /\ j \in Nat
    BY <1>1
  <2>2. Below(i) \in SUBSET Below(j)
    <3>1. ASSUME NEW m \in kept, m <= i PROVE m <= j
      <4>1. m \in Nat
        BY <1>1
      <4> QED
        BY <1>4, <2>1, <3>1, <4>1
    <3> QED
      BY <3>1
  <2>3. j \notin Below(i)
    BY <1>4, <2>1
  <2>4. IsFiniteSet(Below(j)) /\ Cardinality(Below(i)) \in Nat /\ Cardinality(Below(j)) \in Nat
    BY <1>2
  <2>5. Below(i) # Below(j)
    BY <1>3, <2>3
  <2>6. Cardinality(Below(i)) <= Cardinality(Below(j)) /\ Cardinality(Below(i)) # Cardinality(Below(j))
    <3> HIDE DEF Below
    <3> QED
      BY <2>2, <2>4, <2>5, FS_Subset, Zenon
  <2> QED
    BY <2>4, <2>6
<1> QED
  BY <1>1, <1>2, <1>3, <1>4 DEF Rank

LEMMA EveryRankIsTaken ==
  ASSUME NEW n \in Nat, NEW kept \in SUBSET (1 .. n), NEW k \in 1 .. Cardinality(kept)
  PROVE  \E i \in kept : Rank(kept, i) = k
<1> DEFINE C == Cardinality(kept)
           f == [i \in kept |-> Rank(kept, i)]
<1>1. IsFiniteSet(kept) /\ C \in Nat /\ kept \subseteq Nat
  BY RanksAreDistinct
<1>2. f \in Injection(kept, 1 .. C)
  <2>1. \A i \in kept : Rank(kept, i) \in 1 .. C
    BY RanksAreDistinct
  <2>2. \A i \in kept, j \in kept : Rank(kept, i) = Rank(kept, j) => i = j
    <3> SUFFICES ASSUME NEW i \in kept, NEW j \in kept, Rank(kept, i) = Rank(kept, j), i # j PROVE FALSE
      OBVIOUS
    <3>1. i \in Nat /\ j \in Nat /\ Rank(kept, i) \in Nat /\ Rank(kept, j) \in Nat
      BY <1>1, <2>1
    <3>2. i < j \/ j < i
      BY <3>1
    <3>3. Rank(kept, i) < Rank(kept, j) \/ Rank(kept, j) < Rank(kept, i)
      BY <3>2, RanksAreDistinct
    <3> QED
      BY <3>1, <3>3
  <2>3. f \in [kept -> 1 .. C]
    BY <2>1
  <2> QED
    BY <2>2, <2>3, Zenon DEF Injection, IsInjective
<1>3. IsFiniteSet(1 .. C) /\ Cardinality(1 .. C) = C
  <2>1. C \in Int /\ 1 \in Int
    BY <1>1
  <2>2. IsFiniteSet(1 .. C) /\ Cardinality(1 .. C) = IF 1 > C THEN 0 ELSE C - 1 + 1
    <3> HIDE DEF C
    <3> QED
      BY <2>1, FS_Interval, Zenon
  <2> HIDE DEF C
  <2> QED
    BY <1>1, <2>2
<1>4. f \in Surjection(kept, 1 .. C)
  <2> HIDE DEF f
  <2> QED
    BY <1>2, <1>3, FS_Injection, Zenon DEF C
<1> QED
  BY <1>4 DEF Surjection

LEMMA LeastExists ==
  ASSUME NEW S, S \subseteq Nat, S # {}
  PROVE  \E n \in S : \A m \in S : n <= m
<1> DEFINE R == {ss \in Nat \X Nat : ss[1] < ss[2]}
<1>1. IsWellFoundedOn(R, Nat)
  BY NatLessThanWellFounded DEF OpToRel
<1>2. PICK n \in S : \A m \in S : <<m, n>> \notin R
  <2> HIDE DEF R
  <2> QED
    BY <1>1, WFMin, Zenon
<1>3. \A m \in S : ~(m < n)
  BY <1>2
<1> QED
  BY <1>2, <1>3


\* A list of whatever is in it.
Listed(s) == s \in Seq(Range(s))

LEMMA ListedIs ==
  ASSUME NEW S, NEW s \in Seq(S)
  PROVE  Listed(s) /\ Range(s) \subseteq S /\ Len(s) \in Nat /\ DOMAIN s = 1 .. Len(s)
<1>1. Len(s) \in Nat /\ s \in [1 .. Len(s) -> S] /\ DOMAIN s = 1 .. Len(s)
  OBVIOUS
<1>2. Range(s) \subseteq S
  BY <1>1 DEF Range
<1>3. s \in [1 .. Len(s) -> Range(s)]
  BY <1>1 DEF Range
<1>4. s \in Seq(Range(s))
  BY <1>1, <1>3
<1> QED
  BY <1>1, <1>2, <1>4 DEF Listed

LEMMA ListedNone == Listed(<<>>) /\ Range(<<>>) = {} /\ DOMAIN <<>> = {}
<1> DEFINE none == <<>>
           nothing == {}
<1>1. none \in Seq(nothing) /\ Len(none) = 0 /\ nothing = {}
  OBVIOUS
<1> HIDE DEF none, nothing
<1>2. Listed(none) /\ Range(none) \subseteq nothing /\ DOMAIN none = 1 .. Len(none)
  BY <1>1, ListedIs
<1>3. DOMAIN none = {}
  BY <1>1, <1>2
<1> QED
  BY <1>1, <1>2, <1>3 DEF none

LEMMA ListedOne == ASSUME NEW x PROVE Listed(<<x>>) /\ Range(<<x>>) = {x}
<1>1. <<x>> \in Seq({x}) /\ 1 \in DOMAIN <<x>> /\ <<x>>[1] = x
  OBVIOUS
<1>2. Listed(<<x>>) /\ Range(<<x>>) \subseteq {x}
  BY <1>1, ListedIs, Zenon
<1>3. x \in Range(<<x>>)
  BY <1>1, Zenon DEF Range
<1> QED
  BY <1>2, <1>3

LEMMA ListedBoth ==
  ASSUME NEW s, NEW t, Listed(s), Listed(t)
  PROVE  Listed(s \o t) /\ Range(s \o t) = Range(s) \cup Range(t)
<1> DEFINE S == Range(s) \cup Range(t)
<1>1. s \in Seq(S) /\ t \in Seq(S)
  BY DEF Listed
<1> HIDE DEF S
<1>2. /\ s \o t \in Seq(S) /\ Len(s) \in Nat /\ Len(t) \in Nat /\ Len(s \o t) = Len(s) + Len(t)
      /\ DOMAIN s = 1 .. Len(s) /\ DOMAIN t = 1 .. Len(t) /\ DOMAIN (s \o t) = 1 .. Len(s) + Len(t)
  BY <1>1
<1>3. /\ \A k \in DOMAIN s : (s \o t)[k] = s[k]
      /\ \A k \in DOMAIN t : (s \o t)[Len(s) + k] = t[k]
  BY <1>1, <1>2
<1>4. Range(s \o t) \subseteq S
  BY <1>2, ListedIs
<1>5. ASSUME NEW x \in Range(s) PROVE x \in Range(s \o t)
  <2>1. PICK k \in DOMAIN s : x = s[k]
    BY DEF Range
  <2>2. k \in DOMAIN (s \o t)
    BY <1>2
  <2> QED
    BY <1>3, <2>1, <2>2 DEF Range
<1>6. ASSUME NEW x \in Range(t) PROVE x \in Range(s \o t)
  <2>1. PICK k \in DOMAIN t : x = t[k]
    BY DEF Range
  <2>2. Len(s) + k \in DOMAIN (s \o t)
    BY <1>2
  <2> QED
    BY <1>3, <2>1, <2>2 DEF Range
<1> QED
  BY <1>2, <1>4, <1>5, <1>6, ListedIs DEF S

LEMMA ListedTail ==
  ASSUME NEW s, Listed(s), s # <<>>
  PROVE  /\ Listed(Tail(s)) /\ Range(s) = {Head(s)} \cup Range(Tail(s))
<1> DEFINE S == Range(s)
<1>1. s \in Seq(S)
  BY DEF Listed
<1> HIDE DEF S
<1>2. /\ Tail(s) \in Seq(S) /\ Len(s) \in Nat /\ Len(s) >= 1 /\ Len(Tail(s)) = Len(s) - 1 /\ Head(s) = s[1]
      /\ DOMAIN s = 1 .. Len(s) /\ DOMAIN Tail(s) = 1 .. Len(s) - 1
      /\ \A k \in 1 .. Len(s) - 1 : Tail(s)[k] = s[k + 1]
  BY <1>1
<1>3. Listed(Tail(s)) /\ Range(Tail(s)) \subseteq S
  BY <1>2, ListedIs
<1>4. Head(s) \in Range(s)
  BY <1>2 DEF Range
<1>5. ASSUME NEW x \in Range(s), x # Head(s) PROVE x \in Range(Tail(s))
  <2>1. PICK k \in DOMAIN s : x = s[k]
    BY DEF Range
  <2>2. k - 1 \in DOMAIN Tail(s) /\ Tail(s)[k - 1] = s[k]
    BY <1>2, <1>5, <2>1
  <2> QED
    BY <2>1, <2>2 DEF Range
<1> QED
  BY <1>3, <1>4, <1>5 DEF S

LEMMA LastIs ==
  ASSUME NEW s, NEW x, Listed(s)
  PROVE  s \o <<x>> # <<>> /\ Last(s \o <<x>>) = x
<1> DEFINE S == Range(s) \cup {x}
<1>1. s \in Seq(S) /\ x \in S
  BY DEF Listed
<1> HIDE DEF S
<1>2. Len(s \o <<x>>) = Len(s) + 1 /\ (s \o <<x>>)[Len(s) + 1] = x /\ Len(s) \in Nat
  BY <1>1
<1> QED
  BY <1>1, <1>2 DEF Last

LEMMA NotRepeatedIs ==
  ASSUME NEW first, NEW calls, Listed(calls)
  PROVE  Listed(NotRepeated(first, calls)) /\ Range(NotRepeated(first, calls)) \subseteq Range(calls)
<1> DEFINE kept == {k \in DOMAIN calls : ~IsRepeat(first, calls, k)}
           C == Cardinality(kept)
           Ranked(k) == CHOOSE i \in kept : Rank(kept, i) = k
           n == Len(calls)
<1>1. n \in Nat /\ DOMAIN calls = 1 .. n
  BY ListedIs DEF Listed
<1>2. kept \in SUBSET (1 .. n)
  BY <1>1
<1>3. NotRepeated(first, calls) = [k \in 1 .. C |-> calls[Ranked(k)]]
  BY DEF NotRepeated, Rank
<1> HIDE DEF kept, n
<1>4. C \in Nat
  BY <1>1, <1>2, RanksAreDistinct, Zenon
<1>5. ASSUME NEW k \in 1 .. C PROVE Ranked(k) \in kept
  <2>1. \E i \in kept : Rank(kept, i) = k
    BY <1>1, <1>2, EveryRankIsTaken, Zenon
  <2> QED
    BY <2>1
<1> HIDE DEF Ranked
<1>6. \A k \in 1 .. C : calls[Ranked(k)] \in Range(calls)
  BY <1>1, <1>2, <1>5 DEF Range
<1> HIDE DEF C
<1>7. NotRepeated(first, calls) \in [1 .. C -> Range(calls)]
  BY <1>3, <1>6
<1>8. NotRepeated(first, calls) \in Seq(Range(calls))
  BY <1>4, <1>7
<1> QED
  BY <1>8, ListedIs

-----------------------------------------------------------------------------
(* What is offered.                                                        *)

LEMMA ExposableIsFinite == IsFiniteSet(Exposable)
<1>1. Len(Callable) \in Nat /\ DOMAIN Callable = 1 .. Len(Callable)
  BY ExposureAssumption, ListedIs
<1>2. IsFiniteSet(1 .. Len(Callable))
  BY <1>1, FS_Interval
<1> DEFINE f == [k \in 1 .. Len(Callable) |-> Callable[k]]
<1>3. f \in Surjection(1 .. Len(Callable), Exposable)
  <2>1. f \in [1 .. Len(Callable) -> Exposable]
    BY <1>1 DEF Exposable, Range
  <2>2. \A x \in Exposable : \E k \in 1 .. Len(Callable) : f[k] = x
    BY <1>1 DEF Exposable, Range
  <2> HIDE DEF f
  <2> QED
    BY <2>1, <2>2 DEF Surjection
<1> HIDE DEF f
<1> QED
  BY <1>2, <1>3, FS_Surjection, Zenon

\* What the contract waits for is one tool, if it waits for any.
LEMMA PendingIsOne ==
  ASSUME NEW required, NEW recs
  PROVE  FirstPending(required, recs) = <<>> \/ \E name : FirstPending(required, recs) = <<name>>
BY Zenon DEF FirstPending

LEMMA ExposedIsExposable ==
  ASSUME NEW q, NEW pinned, NEW skills, NEW hints, NEW recs
  PROVE  Exposed(q, pinned, skills, hints, recs) \subseteq Exposable
<1>1. \A groups : Selected(groups) \subseteq Exposable
  BY Zenon DEF Selected, Extensions
<1> QED
  BY <1>1, Zenon DEF Exposed

\* The tool the contract waits for is the kernel's or comes right after those that recover
\* from the active failure: it is offered where these leave it room.
LEMMA ExposedServes ==
  ASSUME NEW q, NEW pinned, NEW skills, NEW hints, NEW recs,
         FirstPending(q.required, recs) # <<>>, Head(FirstPending(q.required, recs)) \in Exposable,
         Cardinality(Extensions(Range(RecoveryNames(hints, recs)))) < MaxExtension
  PROVE  Head(FirstPending(q.required, recs)) \in Exposed(q, pinned, skills, hints, recs)
<1> DEFINE groups == Groups(q, pinned, skills, hints, recs)
           ahead == Extensions(Range(RecoveryNames(hints, recs)))
<1>1. PICK p : FirstPending(q.required, recs) = <<p>>
  BY PendingIsOne
<1>2. Head(FirstPending(q.required, recs)) = p /\ p \in Exposable
  BY <1>1
<1>3. /\ 1 \in DOMAIN groups /\ 2 \in DOMAIN groups
      /\ groups[1] = RecoveryNames(hints, recs) /\ groups[2] = <<p>>
  BY <1>1 DEF Groups
<1>4. DOMAIN groups[2] = {1} /\ groups[2][1] = p /\ Range(groups[2]) = {p}
  <2>1. DOMAIN <<p>> = {1} /\ <<p>>[1] = p
    OBVIOUS
  <2> QED
    BY <1>3, <2>1 DEF Range
<1> HIDE DEF groups
<1>5. CASE p \in Range(BuiltIn)
  <2>1. NeedsToolAccess(q, groups)
    BY <1>2, <1>3, <1>4 DEF NeedsToolAccess
  <2> QED
    BY <1>2, <1>5, <2>1 DEF Exposed, groups
<1>6. CASE p \notin Range(BuiltIn)
  <2>1. 1 .. 2 - 1 = {1} /\ 1 .. 1 = {1}
    OBVIOUS
  <2>2. Upto(groups, 2, 1) = Extensions(Range(groups[1]) \cup {p})
    <3> DEFINE before == UNION {Range(groups[h]) : h \in 1 .. 2 - 1}
               own == {groups[2][i] : i \in 1 .. 1}
    <3>1. Upto(groups, 2, 1) = Extensions(before \union own)
      BY DEF Upto
    <3>2. before = Range(groups[1])
      BY <2>1
    <3>3. own = {p}
      BY <1>4, <2>1
    <3> HIDE DEF before, own
    <3> QED
      BY <3>1, <3>2, <3>3
  <2>3. Upto(groups, 2, 1) = ahead \cup {p}
    BY <1>2, <1>3, <1>6, <2>2 DEF Extensions
  <2>4. IsFiniteSet(ahead) /\ Cardinality(ahead) \in Nat
    <3>1. ahead \in SUBSET Exposable
      BY DEF Extensions
    <3> HIDE DEF ahead
    <3> QED
      BY <3>1, ExposableIsFinite, FS_Subset, FS_CardinalityType
  <2>5. Cardinality(ahead \cup {p}) <= Cardinality(ahead) + 1
    <3> HIDE DEF ahead
    <3>1. Cardinality(ahead \cup {p}) = IF p \in ahead THEN Cardinality(ahead) ELSE Cardinality(ahead) + 1
      BY <2>4, FS_AddElement, Zenon
    <3> QED
      BY <2>4, <3>1
  <2>6. Cardinality(Upto(groups, 2, 1)) <= MaxExtension
    <3>1. Cardinality(ahead) < MaxExtension /\ MaxExtension \in Nat
      BY ExposureAssumption
    <3>2. IsFiniteSet(ahead \cup {p})
      <4> HIDE DEF ahead
      <4> QED
        BY <2>4, FS_AddElement, Zenon
    <3> DEFINE more == Cardinality(ahead \cup {p})
               few == Cardinality(ahead)
    <3>3. more \in Nat /\ few \in Nat
      BY <2>4, <3>2, FS_CardinalityType, Zenon
    <3>4. Cardinality(Upto(groups, 2, 1)) = more /\ more <= few + 1 /\ few < MaxExtension
      BY <2>3, <2>5, <3>1, Zenon
    <3> HIDE DEF more, few
    <3> QED
      BY <3>1, <3>3, <3>4
  <2>7. p \in Selected(groups)
    <3>1. p \in {groups[2][k] : k \in {i \in DOMAIN groups[2] : Cardinality(Upto(groups, 2, i)) <= MaxExtension}}
      BY <1>4, <2>6
    <3>2. p \in UNION {{groups[g][k] : k \in {i \in DOMAIN groups[g] :
                           Cardinality(Upto(groups, g, i)) <= MaxExtension}} : g \in DOMAIN groups}
      BY <1>3, <3>1, Zenon
    <3> QED
      BY <1>2, <1>6, <3>2 DEF Selected, Extensions
  <2> QED
    BY <1>2, <2>7 DEF Exposed, groups
<1> QED
  BY <1>5, <1>6

-----------------------------------------------------------------------------
(* What a step keeps.                                                      *)

\* The calls some records say were not run, and the answers some records failed in.
ToldBy(recs) == UNION {r.calls : r \in Range(recs)}
FailedOf(recs) == {r.of : r \in {x \in Range(recs) : x.failed}}

\* A call of an answer that was read.
Known(c) == c.id[1] \in Nat /\ c.id[1] <= answers

CountInv ==
  /\ request \in Requests
  /\ pc \in {"head", "asking", "acting", "ended"} /\ stage \in Stages /\ warned \subseteq Stages
  /\ step \in 0..MaxSteps /\ corrections \in 0..MaxCorrections /\ unread \in 0..MaxUnread
  /\ restarts \in Nat
  /\ pc # "ended" => unread < MaxUnread

\* Calls wait behind one answer at a time: those of a batch join the queue when it is empty.
ListsInv ==
  /\ Listed(records) /\ Listed(queue) /\ Listed(batch) /\ answers \in Nat
  /\ pc \in {"head", "asking"} => batch = <<>>
  /\ pc = "asking" => queue = <<>>
  /\ pc = "acting" /\ batch # <<>> => queue = <<>>

\* A call that waits waits with the tools it was chosen from.
ToolsInv ==
  /\ offered \subseteq Exposable /\ menu \subseteq offered /\ (pc # "asking" => menu = {})
  /\ queueTools \subseteq Exposable /\ cache.tools \subseteq Exposable
  /\ \A c \in Range(queue) : c.tool \in queueTools
  /\ pc = "acting" => \A c \in Range(batch) : c.tool \in offered
  /\ QueuedKeepsItsTools

\* Nothing waits or is made of an answer that failed.
FailInv ==
  /\ \A n \in FailedOf(records) : n \in Nat /\ n <= answers
  /\ \A c \in Range(queue) \cup Range(batch) : Known(c) /\ c.id[1] \notin FailedOf(records)
  /\ pc = "acting" => Known(call) /\ call.id[1] \notin FailedOf(records)

\* The calls nothing more is said of.
Unsaid == behind \cup swept

\* Every call that was read and stayed with its turn waits, is being made, or is told.
OpenInv ==
  open \subseteq IDs(queue) \cup IDs(batch) \cup ToldBy(records) \cup {x \in {call.id} : pc = "acting"}
               \cup Unsaid

\* A tool list is of the step it was selected for.
PlanInv ==
  /\ shortOf = stepTitle
  /\ restarts = 0 /\ active # NoTitle /\ stepTools # <<>> => stepTitle = active

\* Tools made for a key have the tool that the key says the contract waits for.
Serves(key, tools) ==
  key = <<>> \/ (key[4] # <<>> /\ Head(key[4]) \in Exposable /\ Cardinality(Extensions(key[3])) < MaxExtension
                   => Head(key[4]) \in tools)

MenuInv ==
  /\ Serves(cache.key, cache.tools)
  /\ pc = "asking" /\ stage # "narrow" => cache.key = StepKey(records) /\ offered = cache.tools

IInv == CountInv /\ ListsInv /\ ToolsInv /\ FailInv /\ OpenInv /\ PlanInv /\ MenuInv

LEMMA Joined ==
  ASSUME NEW s, NEW t, Listed(s), Listed(t)
  PROVE  /\ ToldBy(s \o t) = ToldBy(s) \cup ToldBy(t) /\ FailedOf(s \o t) = FailedOf(s) \cup FailedOf(t)
         /\ IDs(s \o t) = IDs(s) \cup IDs(t)
<1>1. Range(s \o t) = Range(s) \cup Range(t)
  BY ListedBoth
<1>2. \A u : IDs(u) = {c.id : c \in Range(u)}
  BY DEF IDs, Range
<1>3. ToldBy(s \o t) = ToldBy(s) \cup ToldBy(t)
  BY <1>1 DEF ToldBy
<1>4. FailedOf(s \o t) = FailedOf(s) \cup FailedOf(t)
  BY <1>1 DEF FailedOf
<1>5. IDs(s \o t) = IDs(s) \cup IDs(t)
  BY <1>1, <1>2
<1> QED
  BY <1>3, <1>4, <1>5

\* What is in a list is in every longer one.
LEMMA Within ==
  ASSUME NEW s, NEW t, Range(s) \subseteq Range(t)
  PROVE  ToldBy(s) \subseteq ToldBy(t) /\ FailedOf(s) \subseteq FailedOf(t) /\ IDs(s) \subseteq IDs(t)
<1>1. \A u : IDs(u) = {c.id : c \in Range(u)}
  BY DEF IDs, Range
<1>2. ToldBy(s) \subseteq ToldBy(t) /\ FailedOf(s) \subseteq FailedOf(t)
  BY DEF ToldBy, FailedOf
<1> QED
  BY <1>1, <1>2

LEMMA OfNone == ToldBy(<<>>) = {} /\ FailedOf(<<>>) = {} /\ IDs(<<>>) = {}
BY ListedNone DEF ToldBy, FailedOf, IDs

\* What is told of calls that are not run.
LEMMA NotRunTells ==
  ASSUME NEW ids
  PROVE  Listed(NotRun(ids)) /\ ToldBy(NotRun(ids)) = ids /\ FailedOf(NotRun(ids)) = {}
<1> DEFINE r == [Record("not_run", NoTool, FALSE) EXCEPT !.calls = ids]
<1>1. r.calls = ids /\ r.failed = FALSE
  BY DEF Record
<1> HIDE DEF r
<1>2. CASE ids = {}
  BY <1>2, ListedNone, OfNone DEF NotRun
<1>3. CASE ids # {}
  <2>1. NotRun(ids) = <<r>>
    BY <1>3 DEF NotRun, r
  <2>2. Listed(<<r>>) /\ Range(<<r>>) = {r}
    BY ListedOne
  <2>3. ToldBy(<<r>>) = ids /\ FailedOf(<<r>>) = {}
    BY <1>1, <2>2 DEF ToldBy, FailedOf
  <2> QED
    BY <2>1, <2>2, <2>3
<1> QED
  BY <1>2, <1>3

LEMMA InitHolds == Init => IInv
<1> SUFFICES ASSUME Init PROVE IInv
  OBVIOUS
<1>1. CountInv
  BY StepAssumption DEF Init, CountInv, Stages
<1>2. ListsInv
  BY ListedNone DEF Init, ListsInv
<1>3. ToolsInv
  BY ListedNone DEF Init, ToolsInv, NoCache, QueuedKeepsItsTools
<1>4. FailInv
  BY ListedNone, OfNone DEF Init, FailInv
<1>5. OpenInv
  BY DEF Init, OpenInv
<1>6. PlanInv
  BY DEF Init, PlanInv
<1>7. MenuInv
  BY DEF Init, MenuInv, NoCache, Serves
<1> QED
  BY <1>1, <1>2, <1>3, <1>4, <1>5, <1>6, <1>7 DEF IInv

-----------------------------------------------------------------------------
(* The answer of the model.                                                *)

\* The model is asked again, or the turn goes on without a call.
AsksOn ==
  /\ pc = "asking" /\ pc' \in {"asking", "head", "ended"}
  /\ menu' \subseteq offered /\ corrections' \in 0..MaxCorrections /\ unread' \in 0..MaxUnread
  /\ (pc' # "ended" => unread' < MaxUnread) /\ (pc' # "asking" => menu' = {})
  /\ answers' \in {answers, answers + 1} /\ behind \subseteq behind' /\ open' \subseteq open \cup behind'
  /\ UNCHANGED <<asked, offered, records, call, batch, swept>>

LEMMA AskStep ==
  ASSUME IInv, Speaks \/ Delegate \/ Garbled \/ Refused \/ Broken \/ Cut
  PROVE  AsksOn
<1> USE StepAssumption
<1>1. /\ menu \subseteq offered /\ corrections \in 0..MaxCorrections /\ unread \in 0..MaxUnread
      /\ pc = "asking" => unread < MaxUnread
  BY DEF IInv, CountInv, ToolsInv
<1>2. ASSUME Asked PROVE menu' = {} /\ corrections' \in 0..MaxCorrections
  BY <1>2, StepAssumption DEF Asked
<1>3. ASSUME pc = "asking", Unreadable
      PROVE  /\ pc' \in {"asking", "head", "ended"} /\ UNCHANGED records
             /\ unread' \in 0..MaxUnread /\ (pc' # "ended" => unread' < MaxUnread)
             /\ menu' \subseteq offered /\ (pc' # "asking" => menu' = {}) /\ corrections' \in 0..MaxCorrections
  BY <1>1, <1>2, <1>3 DEF Unreadable
<1>4. ASSUME pc = "asking", CallFails
      PROVE  /\ pc' \in {"asking", "head", "ended"} /\ UNCHANGED records
             /\ unread' \in 0..MaxUnread /\ (pc' # "ended" => unread' < MaxUnread)
             /\ menu' \subseteq offered /\ (pc' # "asking" => menu' = {}) /\ corrections' \in 0..MaxCorrections
  BY <1>1, <1>2, <1>4 DEF CallFails
<1>5. ASSUME pc = "asking", NEW tool, CanCorrect(tool), Correct(tool)
      PROVE  /\ pc' \in {"asking", "head", "ended"} /\ UNCHANGED records
             /\ unread' \in 0..MaxUnread /\ (pc' # "ended" => unread' < MaxUnread)
             /\ menu' \subseteq offered /\ (pc' # "asking" => menu' = {}) /\ corrections' \in 0..MaxCorrections
  <2>1. menu' \subseteq menu
    BY <1>5 DEF CanCorrect, Correct
  <2>2. corrections' \in 0..MaxCorrections
    BY <1>1, <1>5 DEF CanCorrect, Correct
  <2> QED
    BY <1>1, <1>5, <2>1, <2>2 DEF Correct
<1>6. CASE Speaks
  <2>1. behind \subseteq behind' /\ open' \subseteq open \cup behind' /\ answers' = answers + 1
    BY <1>6 DEF Speaks
  <2> QED
    BY <1>1, <1>2, <1>6, <2>1 DEF Speaks, AsksOn, asked, queueVars
<1>7. CASE Delegate
  BY <1>1, <1>2, <1>7 DEF Delegate, AsksOn, asked, queueVars, named
<1>8. CASE Garbled
  BY <1>3, <1>5, <1>8 DEF Garbled, AsksOn, named
<1>9. CASE Refused
  BY <1>4, <1>5, <1>9 DEF Refused, AsksOn, named
<1>10. CASE Broken
  BY <1>4, <1>10 DEF Broken, AsksOn, named
<1>11. CASE Cut
  BY <1>1, <1>11 DEF Cut, AsksOn, named
<1> QED
  BY <1>6, <1>7, <1>8, <1>9, <1>10, <1>11

LEMMA AsksOnKeeps == ASSUME IInv, AsksOn PROVE IInv'
<1> USE DEF asked, queueVars, planVars
<1>1. CountInv'
  BY DEF IInv, CountInv, AsksOn
<1>2. ListsInv'
  BY DEF IInv, ListsInv, AsksOn
<1>3. ToolsInv'
  BY DEF IInv, ToolsInv, AsksOn, QueuedKeepsItsTools
<1>4. FailInv'
  <2>1. answers \in Nat /\ answers' \in {answers, answers + 1}
    BY DEF IInv, ListsInv, AsksOn
  <2>2. \A n \in Nat : n <= answers => n <= answers'
    BY <2>1
  <2> QED
    BY <2>2 DEF IInv, FailInv, AsksOn, Known
<1>5. OpenInv'
  <2>1. /\ behind \subseteq behind' /\ open' \subseteq open \cup behind' /\ pc = "asking" /\ pc' # "acting"
        /\ UNCHANGED <<queue, records, batch, swept>>
    BY DEF AsksOn
  <2> QED
    BY <2>1 DEF IInv, OpenInv, Unsaid
<1>6. PlanInv'
  BY DEF IInv, PlanInv, AsksOn
<1>7. MenuInv'
  BY DEF IInv, MenuInv, AsksOn, StepKey, StepPins
<1> QED
  BY <1>1, <1>2, <1>3, <1>4, <1>5, <1>6, <1>7 DEF IInv

\* The calls read of an answer are known and, but for the first, of the menu.
LEMMA ReadIs ==
  ASSUME NEW calls \in Answers, answers \in Nat
  PROVE  /\ Listed(ReadCalls(calls))
         /\ \A k \in DOMAIN ReadCalls(calls) : /\ ReadCalls(calls)[k].id = <<answers + 1, k>>
                                               /\ ReadCalls(calls)[k].tool \in menu \/ k = 1
         /\ Named(calls) \subseteq IDs(ReadCalls(calls)) \cup {n \in LeftOut(calls) : IsNative}
<1> DEFINE Bad == {k \in DOMAIN calls : calls[k][1] \notin menu}
           Prefix(n) == (\A k \in 1..n : k \notin Bad) /\ (n < Len(calls) => n + 1 \in Bad)
           Count == IF ~IsNative THEN 1 ELSE CHOOSE n \in 0..Len(calls) : Prefix(n)
           Read == [k \in 1..Count |-> [tool |-> calls[k][1], input |-> calls[k][2], id |-> <<answers + 1, k>>]]
<1>1. Len(calls) \in Nat /\ DOMAIN calls = 1 .. Len(calls) /\ Bad \subseteq 1 .. Len(calls)
  BY StepAssumption
<1>2. \E n \in 0 .. Len(calls) : Prefix(n)
  <2>1. CASE Bad = {}
    <3> QED
      BY <1>1, <2>1
  <2>2. CASE Bad # {}
    <3>1. Bad \subseteq Nat
      BY <1>1
    <3>2. PICK b \in Bad : \A m \in Bad : b <= m
      <4> HIDE DEF Bad
      <4> QED
        BY <2>2, <3>1, LeastExists, Zenon
    <3>3. b \in 1 .. Len(calls) /\ b - 1 \in 0 .. Len(calls) /\ (b - 1) + 1 = b
      BY <1>1
    <3>4. ASSUME NEW k \in 1 .. b - 1 PROVE k \notin Bad
      <4> HIDE DEF Bad
      <4> QED
        BY <3>2, <3>3
    <3> HIDE DEF Bad
    <3> QED
      BY <3>2, <3>3, <3>4
  <2> QED
    BY <2>1, <2>2
<1>3. Count \in Nat /\ (IsNative => Count \in 0 .. Len(calls) /\ Prefix(Count))
  <2>1. CASE ~IsNative
    BY <2>1
  <2>2. CASE IsNative
    <3>1. Count = CHOOSE n \in 0..Len(calls) : Prefix(n)
      BY <2>2
    <3> HIDE DEF Count, Prefix
    <3>2. Count \in 0 .. Len(calls) /\ Prefix(Count)
      BY <1>2, <3>1, Zenon
    <3> QED
      BY <1>1, <3>2
  <2> QED
    BY <2>1, <2>2
<1>4. ReadCalls(calls) = Read
  BY DEF ReadCalls
<1> HIDE DEF Count
<1>5. Read \in Seq(Range(Read)) /\ DOMAIN Read = 1 .. Count
  BY <1>3 DEF Range
<1>6. ASSUME NEW k \in 1 .. Count PROVE Read[k].id = <<answers + 1, k>> /\ (calls[k][1] \in menu \/ k = 1)
  <2>1. Read[k].id = <<answers + 1, k>>
    OBVIOUS
  <2>2. CASE IsNative
    <3>1. k \in 1 .. Len(calls) /\ k \notin Bad
      BY <1>1, <1>3, <2>2
    <3> QED
      BY <1>1, <2>1, <3>1
  <2>3. CASE ~IsNative
    BY <2>1, <2>3 DEF Count
  <2> QED
    BY <2>2, <2>3
<1>7. \A k \in 1 .. Count : Read[k].tool = calls[k][1]
  OBVIOUS
<1>8. \A k \in 1 .. Count : <<answers + 1, k>> \in IDs(Read)
  <2> HIDE DEF Read
  <2> QED
    BY <1>5, <1>6 DEF IDs
<1>9. Named(calls) \subseteq IDs(Read) \cup {n \in LeftOut(calls) : IsNative}
  <2>1. CASE ~IsNative
    <3>1. Count = 1 /\ Named(calls) = {<<answers + 1, 1>>}
      BY <2>1 DEF Count, Named
    <3> HIDE DEF Read
    <3> QED
      BY <1>8, <3>1
  <2>2. CASE IsNative
    <3>1. ASSUME NEW k \in DOMAIN calls, k \notin 1 .. Count PROVE <<answers + 1, k>> \in LeftOut(calls)
      <4>1. k \in 1 .. Len(calls) /\ Count + 1 \in 1 .. k /\ Count + 1 \in Bad
        BY <1>1, <1>3, <2>2, <3>1
      <4>2. calls[Count + 1][1] \notin menu
        BY <4>1
      <4> QED
        BY <3>1, <4>1, <4>2 DEF LeftOut
    <3>2. Named(calls) = {<<answers + 1, k>> : k \in DOMAIN calls}
      BY <2>2 DEF Named
    <3> HIDE DEF Read, Bad
    <3> QED
      BY <1>8, <2>2, <3>1, <3>2
  <2> QED
    BY <2>1, <2>2
<1> HIDE DEF Read
<1> QED
  BY <1>4, <1>5, <1>6, <1>7, <1>9 DEF Listed

LEMMA CallsKeep == ASSUME IInv, Calls PROVE IInv'
<1> USE DEF asked, queueVars, planVars, Asked
<1>0. pc = "asking" /\ answers \in Nat /\ answers' = answers + 1 /\ queue = <<>>
  BY DEF IInv, ListsInv, Calls
<1>1. PICK calls \in Answers : LET Read == ReadCalls(calls) IN
        /\ Read # <<>> /\ call' = Head(Read) /\ batch' = Tail(Read)
        /\ open' = open \union Named(calls)
        /\ behind' = IF IsNative THEN behind \union LeftOut(calls) ELSE behind
  BY DEF Calls
<1> DEFINE read == ReadCalls(calls)
<1>2. /\ read # <<>> /\ call' = Head(read) /\ batch' = Tail(read)
      /\ open' = open \union Named(calls)
      /\ behind' = IF IsNative THEN behind \union LeftOut(calls) ELSE behind
  BY <1>1
<1>3. /\ Listed(read)
      /\ \A k \in DOMAIN read : read[k].id = <<answers + 1, k>> /\ (read[k].tool \in menu \/ k = 1)
      /\ Named(calls) \subseteq IDs(read) \cup {n \in LeftOut(calls) : IsNative}
  BY <1>0, ReadIs
<1> HIDE DEF read
<1>4. /\ pc' = "acting" /\ unread' = 0 /\ menu' = {} /\ corrections' = 0
      /\ UNCHANGED <<request, debt, planVars, nudged, cache, queueVars, stage, warned, step, restarts,
                     records, offered, swept>>
  BY DEF Calls
<1>5. Listed(batch') /\ Range(read) = {call'} \cup Range(batch')
  BY <1>2, <1>3, ListedTail
<1>6. \A c \in Range(read) : c.id[1] = answers + 1
  BY <1>3 DEF Range
<1>7. call'.id[2] = 1 /\ \A c \in Range(batch') : c.tool \in menu
  <2>1. /\ Len(read) \in Nat /\ Len(read) >= 1 /\ DOMAIN read = 1 .. Len(read) /\ Head(read) = read[1]
        /\ DOMAIN Tail(read) = 1 .. Len(read) - 1 /\ \A k \in 1 .. Len(read) - 1 : Tail(read)[k] = read[k + 1]
    BY <1>2, <1>3 DEF Listed
  <2>2. call' = read[1] /\ 1 \in DOMAIN read
    BY <1>2, <2>1
  <2>3. ASSUME NEW c \in Range(batch') PROVE c.tool \in menu
    <3>1. PICK k \in 1 .. Len(read) - 1 : c = read[k + 1]
      BY <1>2, <2>1 DEF Range
    <3>2. k + 1 \in DOMAIN read /\ k + 1 # 1
      BY <2>1
    <3> QED
      BY <1>3, <3>1, <3>2
  <2> QED
    BY <1>3, <2>2, <2>3
<1>8. IDs(read) = {call'.id} \cup IDs(batch')
  <2>1. \A u : IDs(u) = {c.id : c \in Range(u)}
    BY DEF IDs, Range
  <2> QED
    BY <1>5, <2>1
<1>9. CountInv'
  BY <1>4, StepAssumption DEF IInv, CountInv
<1>10. ListsInv'
  BY <1>0, <1>4, <1>5 DEF IInv, ListsInv
<1>11. ToolsInv'
  <2>1. QueuedKeepsItsTools'
    BY <1>7 DEF QueuedKeepsItsTools
  <2>2. \A c \in Range(batch') : c.tool \in offered'
    BY <1>4, <1>7 DEF IInv, ToolsInv
  <2> QED
    BY <1>4, <2>1, <2>2 DEF IInv, ToolsInv
<1>12. FailInv'
  <2>1. Range(queue') = {} /\ records' = records
    BY <1>0, <1>4, ListedNone
  <2>2. \A c \in Range(read) : Known(c)' /\ c.id[1] \notin FailedOf(records)
    BY <1>0, <1>6 DEF IInv, FailInv, Known
  <2>3. \A n \in FailedOf(records) : n \in Nat /\ n <= answers'
    BY <1>0 DEF IInv, FailInv
  <2>4. call' \in Range(read) /\ \A c \in Range(batch') : c \in Range(read)
    BY <1>5
  <2>5. Known(call)' /\ call'.id[1] \notin FailedOf(records)
    BY <2>2, <2>4 DEF Known
  <2>6. \A c \in Range(queue') \cup Range(batch') : Known(c)' /\ c.id[1] \notin FailedOf(records)
    BY <2>1, <2>2, <2>4
  <2> QED
    BY <2>1, <2>3, <2>5, <2>6 DEF FailInv, Known
<1>13. OpenInv'
  <2>1. open \subseteq IDs(queue) \cup IDs(batch) \cup ToldBy(records) \cup Unsaid
    BY <1>0 DEF IInv, OpenInv
  <2>2. batch = <<>> /\ IDs(batch) = {}
    BY <1>0, OfNone DEF IInv, ListsInv
  <2>3. Unsaid \subseteq Unsaid' /\ {n \in LeftOut(calls) : IsNative} \subseteq Unsaid'
    BY <1>2, <1>4 DEF Unsaid
  <2>4. open' \subseteq open \cup {call'.id} \cup IDs(batch') \cup Unsaid'
    BY <1>2, <1>3, <1>8, <2>3
  <2> QED
    BY <1>4, <2>1, <2>2, <2>3, <2>4 DEF OpenInv
<1>14. PlanInv'
  BY <1>4 DEF IInv, PlanInv
<1>15. MenuInv'
  BY <1>4 DEF IInv, MenuInv
<1> QED
  BY <1>9, <1>10, <1>11, <1>12, <1>13, <1>14, <1>15 DEF IInv

-----------------------------------------------------------------------------
(* The call.                                                               *)

\* The call was made, refused or failed; its records say so, and stop the batch when it failed.
Made(seen) ==
  /\ pc = "acting" /\ Handled(seen)
  /\ Listed(seen) /\ Range(records) \subseteq Range(seen)
  /\ FailedOf(seen) \subseteq FailedOf(records) \cup {call.id[1]}
  /\ FailedOf(seen) \subseteq FailedOf(records) \/ BatchStops(seen)
  /\ UNCHANGED handling

LEMMA MadeKeeps ==
  ASSUME IInv, NEW seen, Made(seen), PlanInv'
  PROVE  IInv'
<1> DEFINE now == Remembered(seen)
<1>1. /\ pc = "acting" /\ Listed(seen) /\ Range(records) \subseteq Range(seen)
      /\ FailedOf(seen) \subseteq FailedOf(records) \cup {call.id[1]}
      /\ FailedOf(seen) \subseteq FailedOf(records) \/ BatchStops(seen)
      /\ UNCHANGED <<request, cache, stage, warned, menu, corrections, patient, unread, step, answers, restarts,
                     behind, swept>>
  BY DEF Made, handling
<1>2. /\ records' = now.records /\ queue' = now.queue /\ queueTools' = now.tools
      /\ open' = open \ {call.id} /\ batch' = <<>> /\ offered' = {} /\ pc' = "head"
  BY DEF Made, Handled
<1>3. Listed(queue) /\ Listed(batch) /\ answers \in Nat
  BY DEF IInv, ListsInv
<1> DEFINE kept == NotRepeated(call, batch)
<1>4. Listed(kept) /\ Range(kept) \subseteq Range(batch)
  BY <1>3, NotRepeatedIs
\* What the handling leaves of the records, the queue and its tools.
<1>5. /\ Listed(records') /\ Listed(queue') /\ ToldBy(seen) \subseteq ToldBy(records')
      /\ FailedOf(records') = FailedOf(seen)
      /\ Range(queue') \subseteq Range(queue) \cup Range(batch)
      /\ IDs(queue) \cup IDs(batch) \subseteq IDs(queue') \cup ToldBy(records')
      /\ BatchStops(seen) => queue' = <<>>
      /\ queueTools' \subseteq Exposable /\ \A c \in Range(queue') : c.tool \in queueTools'
  <2>1. CASE BatchStops(seen)
    <3> DEFINE told == NotRun(IDs(queue) \union IDs(batch))
    <3>1. records' = seen \o told /\ queue' = <<>> /\ queueTools' = {}
      BY <1>2, <2>1 DEF Remembered
    <3>2. Listed(told) /\ ToldBy(told) = IDs(queue) \cup IDs(batch) /\ FailedOf(told) = {}
      BY NotRunTells
    <3> HIDE DEF told
    <3>3. /\ Listed(seen \o told) /\ ToldBy(seen \o told) = ToldBy(seen) \cup ToldBy(told)
          /\ FailedOf(seen \o told) = FailedOf(seen) \cup FailedOf(told)
      BY <1>1, <3>2, ListedBoth, Joined
    <3> QED
      BY <3>1, <3>2, <3>3, ListedNone
  <2>2. CASE ~BatchStops(seen)
    <3> DEFINE told == NotRun(IDs(batch) \ IDs(kept))
    <3>1. /\ records' = seen \o told /\ queue' = queue \o kept
          /\ queueTools' = IF kept # <<>> THEN offered ELSE queueTools
      BY <1>2, <2>2 DEF Remembered
    <3>2. Listed(told) /\ ToldBy(told) = IDs(batch) \ IDs(kept) /\ FailedOf(told) = {}
      BY NotRunTells
    <3> HIDE DEF told, kept
    <3>3. /\ Listed(seen \o told) /\ ToldBy(seen \o told) = ToldBy(seen) \cup ToldBy(told)
          /\ FailedOf(seen \o told) = FailedOf(seen) \cup FailedOf(told)
      BY <1>1, <3>2, ListedBoth, Joined
    <3>4. /\ Listed(queue \o kept) /\ Range(queue \o kept) = Range(queue) \cup Range(kept)
          /\ IDs(queue \o kept) = IDs(queue) \cup IDs(kept)
      BY <1>3, <1>4, ListedBoth, Joined
    <3>5. queueTools' \subseteq Exposable /\ \A c \in Range(queue') : c.tool \in queueTools'
      <4>1. CASE kept = <<>>
        <5>1. Range(queue') = Range(queue) /\ queueTools' = queueTools
          BY <3>1, <3>4, <4>1, ListedNone
        <5> QED
          BY <5>1 DEF IInv, ToolsInv
      <4>2. CASE kept # <<>>
        <5>1. batch # <<>>
          <6> SUFFICES ASSUME batch = <<>> PROVE FALSE
            OBVIOUS
          <6>1. Range(kept) = {} /\ kept \in Seq({})
            BY <1>4, ListedNone DEF Listed
          <6> QED
            BY <4>2, <6>1
        <5>2. queue = <<>> /\ Range(queue) = {}
          BY <1>1, <5>1, ListedNone DEF IInv, ListsInv
        <5>3. Range(queue') \subseteq Range(batch) /\ queueTools' = offered
          BY <1>4, <3>1, <3>4, <4>2, <5>2
        <5> QED
          BY <1>1, <5>3 DEF IInv, ToolsInv
      <4> QED
        BY <4>1, <4>2
    <3> QED
      BY <1>4, <2>2, <3>1, <3>2, <3>3, <3>4, <3>5
  <2> QED
    BY <2>1, <2>2
<1> HIDE DEF now, kept
<1>6. CountInv'
  BY <1>1, <1>2 DEF IInv, CountInv
<1>7. ListsInv'
  BY <1>1, <1>2, <1>3, <1>5, ListedNone DEF ListsInv
<1>8. ToolsInv'
  <2>1. menu' \subseteq offered'
    BY <1>1, <1>2 DEF IInv, ToolsInv
  <2> QED
    BY <1>1, <1>2, <1>5, <2>1 DEF IInv, ToolsInv, QueuedKeepsItsTools
<1>9. FailInv'
  <2>1. Range(batch') = {}
    BY <1>2, ListedNone
  <2>2. \A n \in FailedOf(records') : n \in Nat /\ n <= answers'
    BY <1>1, <1>5 DEF IInv, FailInv, Known
  <2>3. \A c \in Range(queue') : Known(c) /\ c.id[1] \notin FailedOf(records')
    <3>1. CASE BatchStops(seen)
      BY <1>5, <3>1, ListedNone
    <3>2. CASE FailedOf(seen) \subseteq FailedOf(records)
      BY <1>5, <3>2 DEF IInv, FailInv
    <3> QED
      BY <1>1, <3>1, <3>2
  <2> QED
    BY <1>1, <1>2, <2>1, <2>2, <2>3 DEF FailInv, Known
<1>10. OpenInv'
  <2>1. open \subseteq IDs(queue) \cup IDs(batch) \cup ToldBy(records) \cup {call.id} \cup Unsaid
    BY <1>1 DEF IInv, OpenInv
  <2>2. ToldBy(records) \subseteq ToldBy(seen)
    BY <1>1, Within
  <2>3. Unsaid' = Unsaid
    BY <1>1 DEF Unsaid
  <2> QED
    BY <1>2, <1>5, <2>1, <2>2, <2>3 DEF OpenInv
<1>11. MenuInv'
  BY <1>1, <1>2 DEF IInv, MenuInv
<1> QED
  BY <1>6, <1>7, <1>8, <1>9, <1>10, <1>11 DEF IInv

\* One record more, that fails only as the call in hand.
LEMMA OneMore ==
  ASSUME NEW s, NEW r, Listed(s), r.failed => r.of = call.id[1]
  PROVE  /\ Listed(s \o <<r>>) /\ Range(s) \subseteq Range(s \o <<r>>)
         /\ FailedOf(s \o <<r>>) \subseteq FailedOf(s) \cup {call.id[1]}
         /\ r.failed \/ FailedOf(s \o <<r>>) = FailedOf(s)
         /\ r.failed \/ r.kind = "policy" => BatchStops(s \o <<r>>)
<1>1. Listed(<<r>>) /\ Range(<<r>>) = {r}
  BY ListedOne
<1>2. /\ Listed(s \o <<r>>) /\ Range(s \o <<r>>) = Range(s) \cup Range(<<r>>)
      /\ FailedOf(s \o <<r>>) = FailedOf(s) \cup FailedOf(<<r>>)
  BY <1>1, ListedBoth, Joined
<1>3. FailedOf(<<r>>) \subseteq {call.id[1]} /\ (r.failed \/ FailedOf(<<r>>) = {})
  BY <1>1 DEF FailedOf
<1>4. s \o <<r>> # <<>> /\ Last(s \o <<r>>) = r
  BY LastIs
<1>5. r.failed \/ r.kind = "policy" => BatchStops(s \o <<r>>)
  BY <1>4 DEF BatchStops
<1> QED
  BY <1>2, <1>3, <1>5

LEMMA NoneMore == ASSUME NEW s, Listed(s) PROVE s \o <<>> = s
BY DEF Listed

LEMMA AppendIs == ASSUME NEW s, NEW r, Listed(s) PROVE Append(s, r) = s \o <<r>>
<1> DEFINE S == Range(s) \cup {r}
<1>1. s \in Seq(S) /\ r \in S
  BY DEF Listed
<1> HIDE DEF S
<1> QED
  BY <1>1

LEMMA RecordsOfTheCall ==
  /\ \A kind, hints : /\ CallRecord(kind, TRUE, FALSE, <<>>, hints).failed
                      /\ CallRecord(kind, TRUE, FALSE, <<>>, hints).of = call.id[1]
  /\ \A repeats, found : ~CallRecord("call", FALSE, repeats, found, <<>>).failed
  /\ Note = <<Note[1]>> /\ ~Note[1].failed /\ Note[1].kind = "policy"
  /\ ~Record("policy", NoTool, FALSE).failed /\ Record("policy", NoTool, FALSE).kind = "policy"
BY DEF CallRecord, Note, Record

LEMMA BeforeTheCallIs ==
  ASSUME IInv
  PROVE  /\ Listed(BeforeTheCall) /\ Range(records) \subseteq Range(BeforeTheCall)
         /\ FailedOf(BeforeTheCall) = FailedOf(records)
<1>1. Listed(records)
  BY DEF IInv, ListsInv
<1>2. CASE Nudges
  <2>1. BeforeTheCall = records \o <<Note[1]>>
    BY <1>2, RecordsOfTheCall DEF BeforeTheCall
  <2> QED
    BY <1>1, <2>1, OneMore, RecordsOfTheCall
<1>3. CASE ~Nudges
  BY <1>1, <1>3 DEF BeforeTheCall
<1> QED
  BY <1>2, <1>3

LEMMA RejectIsMade == ASSUME IInv, Reject PROVE \E seen : Made(seen)
<1>1. pc = "acting" /\ UNCHANGED handling /\ Listed(records)
  BY DEF Reject, IInv, ListsInv
<1> DEFINE refusals == {CallRecord("call", TRUE, FALSE, <<>>, <<>>), Note[1],
                        CallRecord("policy", TRUE, FALSE, <<>>, debt.hints),
                        CallRecord("exhausted", TRUE, FALSE, <<>>, debt.hints)}
           directives == {<<>>, <<Record("policy", NoTool, FALSE)>>}
<1>2. PICK refusal \in refusals, directive \in directives : Handled(Append(records, refusal) \o directive)
  BY Zenon DEF Reject
<1> DEFINE first == records \o <<refusal>>
           seen == first \o directive
<1>3. (refusal.failed => refusal.of = call.id[1]) /\ (refusal.failed \/ refusal.kind = "policy")
  <2>1. \/ refusal = Note[1]
        \/ \E kind, hints : refusal = CallRecord(kind, TRUE, FALSE, <<>>, hints)
    BY Zenon
  <2> QED
    BY <2>1, RecordsOfTheCall, Zenon
<1> HIDE DEF refusals
<1>4. /\ Listed(first) /\ Range(records) \subseteq Range(first) /\ BatchStops(first)
      /\ FailedOf(first) \subseteq FailedOf(records) \cup {call.id[1]}
  BY <1>1, <1>3, OneMore
<1>5. Handled(seen)
  BY <1>1, <1>2, AppendIs
<1> HIDE DEF first
<1>6. CASE directive = <<>>
  <2>1. seen = first
    BY <1>4, <1>6, NoneMore
  <2> QED
    BY <1>1, <1>4, <1>5, <2>1 DEF Made
<1>7. CASE directive = <<Record("policy", NoTool, FALSE)>>
  <2>1. /\ Listed(seen) /\ Range(first) \subseteq Range(seen) /\ FailedOf(seen) = FailedOf(first)
        /\ BatchStops(seen)
    BY <1>4, <1>7, OneMore, RecordsOfTheCall
  <2> HIDE DEF seen
  <2> QED
    BY <1>1, <1>4, <1>5, <2>1 DEF Made
<1> QED
  BY <1>2, <1>6, <1>7

LEMMA FailedIsMade == ASSUME IInv, CallFailed PROVE \E seen : Made(seen)
<1>1. pc = "acting" /\ UNCHANGED handling
  BY DEF CallFailed
<1>2. PICK hints \in Hints :
        \E guidance \in {<<>>, <<CallRecord("recovery_guidance", TRUE, FALSE, <<>>, hints)>>} :
          Handled(BeforeTheCall \o <<CallRecord("call", TRUE, FALSE, <<>>, <<>>)>> \o guidance)
  BY Zenon DEF CallFailed
<1>3. PICK guidance \in {<<>>, <<CallRecord("recovery_guidance", TRUE, FALSE, <<>>, hints)>>} :
        Handled(BeforeTheCall \o <<CallRecord("call", TRUE, FALSE, <<>>, <<>>)>> \o guidance)
  BY <1>2, Zenon
<1> DEFINE first == BeforeTheCall \o <<CallRecord("call", TRUE, FALSE, <<>>, <<>>)>>
           seen == first \o guidance
<1>4. /\ Listed(BeforeTheCall) /\ Range(records) \subseteq Range(BeforeTheCall)
      /\ FailedOf(BeforeTheCall) = FailedOf(records)
  BY BeforeTheCallIs
<1>5. /\ Listed(first) /\ Range(records) \subseteq Range(first) /\ BatchStops(first)
      /\ FailedOf(first) \subseteq FailedOf(records) \cup {call.id[1]}
  BY <1>4, OneMore, RecordsOfTheCall
<1>6. Handled(seen)
  BY <1>3
<1> HIDE DEF first
<1>7. CASE guidance = <<>>
  <2>1. seen = first
    BY <1>5, <1>7, NoneMore
  <2> QED
    BY <1>1, <1>5, <1>6, <2>1 DEF Made
<1>8. CASE guidance = <<CallRecord("recovery_guidance", TRUE, FALSE, <<>>, hints)>>
  <2>1. /\ Listed(seen) /\ Range(first) \subseteq Range(seen)
        /\ FailedOf(seen) \subseteq FailedOf(first) \cup {call.id[1]} /\ BatchStops(seen)
    BY <1>5, <1>8, OneMore, RecordsOfTheCall
  <2> HIDE DEF seen
  <2> QED
    BY <1>1, <1>5, <1>6, <2>1 DEF Made
<1> QED
  BY <1>2, <1>7, <1>8

LEMMA WorkedIsMade == ASSUME IInv, CallWorked PROVE \E seen : Made(seen)
<1>1. pc = "acting" /\ UNCHANGED handling
  BY DEF CallWorked
<1>2. PICK repeats \in BOOLEAN, reminder \in {<<>>, Note},
           found \in IF call.tool = EquipTool THEN Finds ELSE {<<>>} :
        Handled(BeforeTheCall \o <<CallRecord("call", FALSE, repeats, found, <<>>)>> \o reminder)
  BY Zenon DEF CallWorked
<1> DEFINE first == BeforeTheCall \o <<CallRecord("call", FALSE, repeats, found, <<>>)>>
           seen == first \o reminder
<1>3. /\ Listed(BeforeTheCall) /\ Range(records) \subseteq Range(BeforeTheCall)
      /\ FailedOf(BeforeTheCall) = FailedOf(records)
  BY BeforeTheCallIs
<1>4. Listed(first) /\ Range(records) \subseteq Range(first) /\ FailedOf(first) = FailedOf(records)
  BY <1>3, OneMore, RecordsOfTheCall
<1>5. Handled(seen)
  BY <1>2
<1> HIDE DEF first
<1>6. CASE reminder = <<>>
  <2>1. seen = first
    BY <1>4, <1>6, NoneMore
  <2> QED
    BY <1>1, <1>4, <1>5, <2>1 DEF Made
<1>7. CASE reminder = Note
  <2>1. reminder = <<Note[1]>>
    BY <1>7, RecordsOfTheCall
  <2>2. Listed(seen) /\ Range(first) \subseteq Range(seen) /\ FailedOf(seen) = FailedOf(first)
    BY <1>4, <2>1, OneMore, RecordsOfTheCall
  <2> HIDE DEF seen
  <2> QED
    BY <1>1, <1>4, <1>5, <2>2 DEF Made
<1> QED
  BY <1>2, <1>6, <1>7

\* A plan that goes on to a step selects for it, or has no tools of another.
LEMMA PlanGoesOn ==
  ASSUME PlanInv, restarts' = restarts, ApplyPlan
  PROVE  PlanInv'
<1>1. CASE call.tool # PlanTool
  BY <1>1 DEF ApplyPlan, planVars, PlanInv
<1>2. CASE call.tool = PlanTool
  <2>1. PICK title : active' = title /\ SelectForStep(title)
    BY <1>2 DEF ApplyPlan
  <2> QED
    BY <2>1 DEF SelectForStep, PlanInv
<1> QED
  BY <1>1, <1>2

LEMMA ActKeeps == ASSUME IInv, Reject \/ CallFailed \/ CallWorked PROVE IInv'
<1>1. PICK seen : Made(seen)
  BY RejectIsMade, FailedIsMade, WorkedIsMade
<1>2. restarts' = restarts /\ PlanInv
  BY <1>1 DEF Made, handling, IInv
<1>3. PlanInv'
  <2>1. CASE CallWorked
    BY <1>2, <2>1, PlanGoesOn DEF CallWorked
  <2>2. CASE Reject \/ CallFailed
    <3>1. UNCHANGED planVars
      BY <2>2 DEF Reject, CallFailed
    <3> QED
      BY <1>2, <3>1 DEF planVars, PlanInv
  <2> QED
    BY <2>1, <2>2
<1> QED
  BY <1>1, <1>3, MadeKeeps

\* The turn ends, where it stands or with its call.
LEMMA EndKeeps == ASSUME IInv, CallEnds \/ OutOfSteps PROVE IInv'
<1> USE DEF queueVars, planVars, handling, askVars, named
<1>1. /\ pc' = "ended"
      /\ UNCHANGED <<request, cache, stage, warned, menu, corrections, unread, step, answers, restarts, offered,
                     call, batch, records, debt, planVars, queueVars>>
  BY DEF CallEnds, OutOfSteps
<1>2. CountInv'
  BY <1>1 DEF IInv, CountInv
<1>3. ListsInv'
  BY <1>1 DEF IInv, ListsInv
<1>4. ToolsInv'
  <2>1. menu' = {}
    BY <1>1 DEF IInv, ToolsInv, CallEnds, OutOfSteps
  <2> QED
    BY <1>1, <2>1 DEF IInv, ToolsInv, QueuedKeepsItsTools
<1>5. FailInv'
  BY <1>1 DEF IInv, FailInv, Known
<1>6. OpenInv'
  <2>1. open' \subseteq open \ {x \in {call.id} : pc = "acting"} /\ UNCHANGED <<behind, swept>>
    BY DEF CallEnds, OutOfSteps, named
  <2>2. IDs(queue)' = IDs(queue) /\ IDs(batch)' = IDs(batch) /\ ToldBy(records)' = ToldBy(records)
    BY <1>1
  <2>3. open \subseteq IDs(queue) \cup IDs(batch) \cup ToldBy(records) \cup {x \in {call.id} : pc = "acting"}
                     \cup Unsaid
    BY DEF IInv, OpenInv
  <2>4. Unsaid' = Unsaid
    BY <2>1 DEF Unsaid
  <2>5. open' \subseteq IDs(queue)' \cup IDs(batch)' \cup ToldBy(records)' \cup Unsaid'
    BY <2>1, <2>2, <2>3, <2>4, Zenon
  <2> QED
    BY <2>5 DEF OpenInv
<1>7. PlanInv' /\ MenuInv'
  BY <1>1 DEF IInv, PlanInv, MenuInv
<1> QED
  BY <1>2, <1>3, <1>4, <1>5, <1>6, <1>7 DEF IInv

LEMMA RestartKeeps == ASSUME IInv, Restart PROVE IInv'
<1>1. CountInv'
  BY StepAssumption DEF IInv, CountInv, Restart
<1>2. ListsInv'
  BY ListedNone DEF IInv, ListsInv, Restart
<1>3. ToolsInv'
  BY ListedNone DEF IInv, ToolsInv, QueuedKeepsItsTools, Restart, NoCache
<1>4. FailInv'
  BY ListedNone DEF IInv, FailInv, Known, Restart
<1>5. OpenInv'
  <2>1. swept' = swept \cup IDs(queue) \cup IDs(batch) \cup {call.id} /\ UNCHANGED <<open, behind, records>>
    BY DEF Restart
  <2> QED
    BY <2>1 DEF IInv, OpenInv, Unsaid
<1>6. PlanInv'
  <2>1. restarts' # 0 /\ shortOf' = stepTitle'
    <3>1. restarts \in Nat
      BY DEF IInv, CountInv
    <3> QED
      BY <3>1 DEF Restart
  <2> QED
    BY <2>1 DEF PlanInv
<1>7. MenuInv'
  BY DEF MenuInv, Restart, NoCache, Serves
<1> QED
  BY <1>1, <1>2, <1>3, <1>4, <1>5, <1>6, <1>7 DEF IInv

-----------------------------------------------------------------------------
(* The head of a step.                                                     *)

\* The exposure of a step is of its key, and serves it.
LEMMA StepExposureIs ==
  ASSUME ToolsInv, MenuInv, NEW seen
  PROVE  /\ StepExposure(seen).key = StepKey(seen) /\ StepExposure(seen).tools \subseteq Exposable
         /\ Serves(StepExposure(seen).key, StepExposure(seen).tools)
<1>1. CASE cache.key = StepKey(seen)
  BY <1>1 DEF StepExposure, ToolsInv, MenuInv
<1>2. CASE cache.key # StepKey(seen)
  <2>1. StepExposure(seen).key = StepKey(seen) /\ StepExposure(seen).tools = Exposure(seen)
    BY <1>2 DEF StepExposure
  <2>2. Exposure(seen) \subseteq Exposable
    BY ExposedIsExposable, Zenon DEF Exposure
  <2>3. /\ StepKey(seen)[4] = FirstPending(request.required, seen)
        /\ StepKey(seen)[3] = Range(RecoveryNames(debt.hints, seen))
    BY DEF StepKey
  <2> DEFINE pending == FirstPending(request.required, seen)
             ahead == Extensions(Range(RecoveryNames(debt.hints, seen)))
  <2>4. pending # <<>> /\ Head(pending) \in Exposable /\ Cardinality(ahead) < MaxExtension
          => Head(pending) \in Exposure(seen)
    BY ExposedServes, Zenon DEF Exposure
  <2> QED
    BY <2>1, <2>2, <2>3, <2>4 DEF Serves
<1> QED
  BY <1>1, <1>2

LEMMA HeadKeeps == ASSUME IInv, StepHead PROVE IInv'
<1> USE DEF planVars
<1>1. PICK now \in Stages :
        LET Left == IF Warns(now) THEN <<>> ELSE queue
            Seen == Pressed(now)
        IN  /\ stage' = now
            /\ warned' = IF Warns(now) THEN warned \union {now} ELSE warned
            /\ records' = Seen
            /\ cache' = StepExposure(Seen)
            /\ IF Left # <<>>
               THEN /\ call' = Head(Left) /\ queue' = Tail(Left)
                    /\ queueTools' = IF Tail(Left) = <<>> THEN {} ELSE queueTools
                    /\ offered' = QueuedTools(Seen)
                    /\ pc' = "acting"
                    /\ UNCHANGED <<menu, corrections, patient>>
               ELSE /\ queue' = <<>> /\ queueTools' = {} /\ call' = NoCall
                    /\ offered' \in StepTools(now, Seen)
                    /\ menu' = offered' /\ corrections' = 0 /\ patient' = TRUE
                    /\ pc' = "asking"
  BY DEF StepHead
<1> DEFINE left == IF Warns(now) THEN <<>> ELSE queue
           seen == Pressed(now)
<1>2. /\ pc = "head" /\ step < MaxSteps /\ step' = step + 1
      /\ UNCHANGED <<request, debt, planVars, nudged, unread, batch, answers, restarts, open, behind, swept>>
  BY DEF StepHead, named
<1>3. /\ Listed(records) /\ Listed(queue) /\ batch = <<>> /\ answers \in Nat /\ menu = {}
  BY <1>2 DEF IInv, ListsInv, ToolsInv
<1>4. /\ Listed(left) /\ Listed(seen) /\ Range(left) \subseteq Range(queue)
      /\ FailedOf(seen) = FailedOf(records) /\ ToldBy(records) \subseteq ToldBy(seen)
      /\ IDs(queue) \subseteq IDs(left) \cup ToldBy(seen)
  <2>1. CASE Warns(now)
    <3> DEFINE told == NotRun(IDs(queue))
    <3>1. left = <<>> /\ seen = records \o told
      BY <2>1 DEF Pressed
    <3>2. Listed(told) /\ ToldBy(told) = IDs(queue) /\ FailedOf(told) = {}
      BY NotRunTells
    <3> HIDE DEF told, left, seen
    <3>3. /\ Listed(records \o told) /\ ToldBy(records \o told) = ToldBy(records) \cup ToldBy(told)
          /\ FailedOf(records \o told) = FailedOf(records) \cup FailedOf(told)
      BY <1>3, <3>2, ListedBoth, Joined
    <3> QED
      BY <3>1, <3>2, <3>3, ListedNone
  <2>2. CASE ~Warns(now)
    BY <1>3, <2>2 DEF Pressed
  <2> QED
    BY <2>1, <2>2
<1>5. /\ stage' = now /\ records' = seen /\ cache' = StepExposure(seen)
      /\ warned' \subseteq warned \cup {now}
  BY <1>1
<1>6. /\ cache'.key = StepKey(seen) /\ cache'.tools \subseteq Exposable /\ Serves(cache'.key, cache'.tools)
  BY <1>5, StepExposureIs DEF IInv
<1>7. StepKey(records)' = StepKey(seen)
  <2>1. /\ request' = request /\ debt' = debt /\ stepTitle' = stepTitle /\ stepTools' = stepTools
        /\ records' = seen
    BY <1>2, <1>5
  <2> HIDE DEF seen
  <2> QED
    BY <2>1 DEF StepKey, StepPins
\* The next call of the queue is taken, or the model is asked.
<1>8. \/ /\ left # <<>> /\ call' = Head(left) /\ queue' = Tail(left) /\ pc' = "acting"
         /\ queueTools' = IF Tail(left) = <<>> THEN {} ELSE queueTools
         /\ offered' = queueTools \intersect Exposable
         /\ UNCHANGED <<menu, corrections>>
      \/ /\ left = <<>> /\ queue' = <<>> /\ queueTools' = {} /\ pc' = "asking"
         /\ offered' \in StepTools(now, seen) /\ menu' = offered' /\ corrections' = 0
  BY <1>1 DEF QueuedTools
<1>9. left = <<>> => offered' \subseteq Exposable /\ (now # "narrow" => offered' = cache'.tools)
  <2>1. ASSUME left = <<>>, now = "narrow" PROVE offered' \subseteq Exposable
    <3>1. offered' \in Allowing(WrapUpTools(request))
      BY <1>8, <2>1 DEF StepTools
    <3> QED
      BY <3>1 DEF Allowing
  <2>2. ASSUME left = <<>>, now # "narrow" PROVE offered' = cache'.tools
    BY <1>5, <1>8, <2>2 DEF StepTools
  <2> QED
    BY <1>6, <2>1, <2>2
<1> HIDE DEF left, seen
<1>10. left # <<>> => /\ Listed(Tail(left)) /\ Range(left) = {Head(left)} \cup Range(Tail(left))
  BY <1>4, ListedTail
<1>11. CountInv'
  <2>1. step' \in 0 .. MaxSteps
    BY <1>2, StepAssumption DEF IInv, CountInv
  <2>2. corrections' \in 0 .. MaxCorrections /\ pc' \in {"acting", "asking"}
    BY <1>8, StepAssumption DEF IInv, CountInv
  <2> QED
    BY <1>2, <1>5, <2>1, <2>2 DEF IInv, CountInv
<1>12. ListsInv'
  <2>1. Listed(queue')
    BY <1>8, <1>10, ListedNone
  <2>2. batch' = <<>> /\ answers' \in Nat
    BY <1>2, <1>3
  <2>3. Listed(records') /\ Listed(batch')
    BY <1>4, <1>5, <2>2, ListedNone
  <2>4. pc' = "asking" => queue' = <<>>
    BY <1>8
  <2> QED
    BY <2>1, <2>2, <2>3, <2>4 DEF ListsInv
<1>13. ToolsInv'
  <2>1. CASE left # <<>>
    <3>1. /\ call' \in Range(queue) /\ Range(queue') \subseteq Range(queue) /\ pc' = "acting"
          /\ offered' = queueTools \intersect Exposable /\ menu' = {} /\ Range(batch') = {}
          /\ queueTools' \in {{}, queueTools} /\ (queueTools' = {} => queue' = <<>> \/ queueTools = {})
      BY <1>2, <1>3, <1>4, <1>8, <1>10, <2>1, ListedNone
    <3>2. queueTools \subseteq Exposable /\ \A c \in Range(queue) : c.tool \in queueTools
      BY DEF IInv, ToolsInv
    <3>3. \A c \in Range(queue') : c.tool \in queueTools'
      BY <3>1, <3>2, ListedNone
    <3>4. QueuedKeepsItsTools'
      BY <3>1, <3>2 DEF QueuedKeepsItsTools
    <3> QED
      BY <1>6, <3>1, <3>2, <3>3, <3>4 DEF ToolsInv
  <2>2. CASE left = <<>>
    <3>1. queue' = <<>> /\ Range(queue') = {} /\ queueTools' = {} /\ pc' = "asking" /\ menu' = offered'
      BY <1>8, <2>2, ListedNone
    <3> QED
      BY <1>6, <1>9, <2>2, <3>1 DEF ToolsInv, QueuedKeepsItsTools
  <2> QED
    BY <2>1, <2>2
<1>14. FailInv'
  <2>1. \A c \in Range(queue) : Known(c)' /\ c.id[1] \notin FailedOf(records')
    BY <1>2, <1>4, <1>5 DEF IInv, FailInv, Known
  <2>2. Range(queue') \subseteq Range(queue) /\ (pc' = "acting" => call' \in Range(queue))
    BY <1>4, <1>8, <1>10, ListedNone
  <2>3. Range(batch') = {} /\ \A n \in FailedOf(records') : n \in Nat /\ n <= answers'
    BY <1>2, <1>3, <1>4, <1>5, ListedNone DEF IInv, FailInv
  <2>4. pc' = "acting" => Known(call)' /\ call'.id[1] \notin FailedOf(records')
    BY <2>1, <2>2 DEF Known
  <2> QED
    BY <2>1, <2>2, <2>3, <2>4 DEF FailInv
<1>15. OpenInv'
  <2>1. open \subseteq IDs(queue) \cup ToldBy(records) \cup Unsaid'
    BY <1>2, <1>3, OfNone DEF IInv, OpenInv, Unsaid
  <2>2. open \subseteq IDs(left) \cup ToldBy(records') \cup Unsaid'
    BY <1>4, <1>5, <2>1
  <2>3. left # <<>> => IDs(left) = {Head(left).id} \cup IDs(Tail(left))
    <3>1. \A u : IDs(u) = {c.id : c \in Range(u)}
      BY DEF IDs, Range
    <3> QED
      BY <1>10, <3>1
  <2>4. CASE left # <<>>
    BY <1>2, <1>8, <2>2, <2>3, <2>4 DEF OpenInv
  <2>5. CASE left = <<>>
    BY <1>2, <2>2, <2>5, OfNone DEF OpenInv
  <2> QED
    BY <2>4, <2>5
<1>16. PlanInv'
  BY <1>2 DEF IInv, PlanInv
<1>17. MenuInv'
  <2>1. pc' = "asking" => left = <<>>
    BY <1>8
  <2> QED
    BY <1>5, <1>6, <1>7, <1>9, <2>1 DEF MenuInv
<1> QED
  BY <1>11, <1>12, <1>13, <1>14, <1>15, <1>16, <1>17 DEF IInv

-----------------------------------------------------------------------------
(* The specification.                                                      *)

LEMMA StepKeeps == IInv /\ [Next]_vars => IInv'
<1> SUFFICES ASSUME IInv, [Next]_vars PROVE IInv'
  OBVIOUS
<1>1. CASE Answer
  BY <1>1, CallsKeep, AskStep, AsksOnKeeps DEF Answer
<1>2. CASE Act
  BY <1>2, ActKeeps, EndKeeps DEF Act
<1>3. CASE UNCHANGED vars
  <2> USE <1>3 DEF vars, planVars, askVars, queueVars, Unsaid
  <2>1. CountInv' /\ ListsInv'
    BY DEF IInv, CountInv, ListsInv
  <2>2. ToolsInv' /\ FailInv'
    BY DEF IInv, ToolsInv, FailInv, Known, QueuedKeepsItsTools
  <2>3. OpenInv' /\ PlanInv'
    BY DEF IInv, OpenInv, PlanInv
  <2>4. MenuInv'
    BY DEF IInv, MenuInv, StepKey, StepPins
  <2> QED
    BY <2>1, <2>2, <2>3, <2>4 DEF IInv
<1> QED
  BY <1>1, <1>2, <1>3, HeadKeeps, EndKeeps, RestartKeeps DEF Next

\* What a turn keeps of its calls, its menu and its plan, at every step.
THEOREM StepInvariant == Spec => []IInv
<1>1. Init => IInv
  BY InitHolds
<1>2. IInv /\ [Next]_vars => IInv'
  BY StepKeeps
<1> QED
  BY <1>1, <1>2, PTL DEF Spec

\* A call that waited behind others of its answer is made with the tools it was chosen
\* from, whatever those before it changed of the plan, the debt or the tools found.
THEOREM QueuedCallsKeepTheirTools == Spec => []QueuedKeepsItsTools
<1>1. IInv => QueuedKeepsItsTools
  BY DEF IInv, ToolsInv
<1> QED
  BY <1>1, StepInvariant, PTL

\* Every call of an answer up to the first that cannot be read or ends it is made, waits, or is
\* told as not run while its turn lasts, and none waits behind a failed one of its own answer,
\* however the calls end and whatever falls among them.
THEOREM AnswersAreAccountedFor == Spec => []AnswerIsAccountedFor
<1>1. ASSUME IInv PROVE AnswerIsAccountedFor
  <2>1. NoCallIsForgotten
    <3>1. ToldBy(records) = UNION {records[k].calls : k \in DOMAIN records}
      BY DEF ToldBy, Range
    <3>2. pc \in {"head", "asking"} =>
            IDs(batch) = {} /\ open \subseteq IDs(queue) \cup IDs(batch) \cup ToldBy(records) \cup Unsaid
      BY <1>1, OfNone DEF IInv, ListsInv, OpenInv
    <3> HIDE DEF ToldBy
    <3> QED
      BY <3>1, <3>2 DEF NoCallIsForgotten, Unsaid
  <2>2. FailureStopsTheAnswer
    <3> SUFFICES ASSUME NEW k \in DOMAIN queue, NEW r \in DOMAIN records, records[r].failed
                 PROVE  records[r].of # queue[k].id[1]
      BY Zenon DEF FailureStopsTheAnswer
    <3>1. queue[k] \in Range(queue) /\ records[r] \in Range(records)
      BY DEF Range
    <3>2. records[r].of \in FailedOf(records)
      BY <3>1 DEF FailedOf
    <3> QED
      BY <1>1, <3>1, <3>2 DEF IInv, FailInv
  <2> QED
    BY <2>1, <2>2 DEF AnswerIsAccountedFor
<1> QED
  BY <1>1, StepInvariant, PTL

\* The menu a model chooses from was made for its step: the tool the contract waits for is
\* there when those of a recovery leave it room, though the exposure may have been kept from
\* an earlier step, and the tools of another step of the plan are not.
THEOREM MenuIsOfTheStep == Spec => []OfferedForTheStep
<1>1. ASSUME IInv PROVE OfferedForTheStep
  <2>1. TypeOK
    <3>1. queue # <<>> => queueTools # {}
      <4>1. queue # <<>> => Head(queue) \in Range(queue)
        BY <1>1, ListedTail DEF IInv, ListsInv
      <4> QED
        BY <1>1, <4>1 DEF IInv, ToolsInv
    <3> QED
      BY <1>1, <3>1 DEF IInv, CountInv, ToolsInv, TypeOK
  <2>2. RequiredIsOffered
    <3> DEFINE pending == FirstPending(request.required, records)
               ahead == Extensions(Range(RecoveryNames(debt.hints, records)))
    <3>1. StepKey(records) # <<>> /\ StepKey(records)[4] = pending
          /\ Extensions(StepKey(records)[3]) = ahead
      BY DEF StepKey
    <3>2. ASSUME pc = "asking", stage # "narrow", pending # <<>>, Head(pending) \in Exposable,
                 Cardinality(ahead) < MaxExtension
          PROVE  Head(pending) \in offered
      <4>1. Serves(StepKey(records), offered)
        BY <1>1, <3>2 DEF IInv, MenuInv
      <4> HIDE DEF pending, ahead
      <4> QED
        BY <3>1, <3>2, <4>1 DEF Serves
    <3> QED
      BY <3>2, Zenon DEF RequiredIsOffered
  <2>3. PlanToolsAreOfTheStep
    BY <1>1 DEF IInv, PlanInv, PlanToolsAreOfTheStep, ToolsAreOfTheStep
  <2> QED
    BY <2>1, <2>2, <2>3 DEF OfferedForTheStep
<1> QED
  BY <1>1, StepInvariant, PTL
=============================================================================
