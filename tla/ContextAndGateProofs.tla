------------------------ MODULE ContextAndGateProofs ------------------------
(***************************************************************************)
(* Proofs about the memory of a turn and about its end: TaskContext, for   *)
(* any limits, any messages and any number of records, resumes and         *)
(* compactions; and CompletionGate, for any changes, calls, records and    *)
(* fields and any limits: a turn is refused once over a state, what it     *)
(* ends with was judged of the calls it ends with, every record is among   *)
(* them, and what was left unmet is told. The two stand together since     *)
(* both keep some entries of a sequence (Kept), and rest on the same       *)
(* lemmas about the ranks of what is kept.                                 *)
(***************************************************************************)
EXTENDS TaskContext, CompletionGate, FiniteSetTheorems, WellFoundedInduction, TLAPS

-----------------------------------------------------------------------------
(* Keep leaves every kept entry, and no other, in its result, in order.    *)

Rank(kept, i) == Cardinality({j \in kept : j <= i})

LEMMA RanksAreDistinct ==
  ASSUME NEW n \in Nat, NEW kept \in SUBSET (1 .. n)
  PROVE  /\ IsFiniteSet(kept) /\ Cardinality(kept) \in Nat /\ kept \subseteq Nat
         /\ \A i \in kept : Rank(kept, i) \in 1 .. Cardinality(kept)
         /\ \A i, j \in kept : i < j => Rank(kept, i) < Rank(kept, j)
<1> DEFINE Upto(i) == {j \in kept : j <= i}
<1>1. IsFiniteSet(kept) /\ Cardinality(kept) \in Nat /\ kept \subseteq Nat
  <2>1. IsFiniteSet(1 .. n)
    BY FS_Interval
  <2>2. IsFiniteSet(kept)
    BY <2>1, FS_Subset
  <2> QED
    BY <2>2, FS_CardinalityType
<1>2. ASSUME NEW i \in kept
      PROVE  IsFiniteSet(Upto(i)) /\ Cardinality(Upto(i)) \in Nat /\ Cardinality(Upto(i)) <= Cardinality(kept)
  <2>1. Upto(i) \in SUBSET kept
    OBVIOUS
  <2> HIDE DEF Upto
  <2> QED
    BY <1>1, <2>1, FS_Subset, FS_CardinalityType
<1>3. ASSUME NEW i \in kept PROVE i \in Upto(i) /\ Cardinality(Upto(i)) # 0
  <2>1. i \in Nat
    BY <1>1
  <2>2. i \in Upto(i)
    BY <2>1
  <2> HIDE DEF Upto
  <2> QED
    BY <1>2, <2>2, FS_EmptySet
<1>4. ASSUME NEW i \in kept, NEW j \in kept, i < j PROVE Cardinality(Upto(i)) < Cardinality(Upto(j))
  <2>1. i \in Nat /\ j \in Nat
    BY <1>1
  <2>2. Upto(i) \in SUBSET Upto(j)
    <3>1. ASSUME NEW m \in kept, m <= i PROVE m <= j
      <4>1. m \in Nat
        BY <1>1
      <4> QED
        BY <1>4, <2>1, <3>1, <4>1
    <3> QED
      BY <3>1
  <2>3. j \notin Upto(i)
    BY <1>4, <2>1
  <2>4. IsFiniteSet(Upto(j)) /\ Cardinality(Upto(i)) \in Nat /\ Cardinality(Upto(j)) \in Nat
    BY <1>2
  <2>5. Upto(i) # Upto(j)
    BY <1>3, <2>3
  <2>6. Cardinality(Upto(i)) <= Cardinality(Upto(j)) /\ Cardinality(Upto(i)) # Cardinality(Upto(j))
    <3> HIDE DEF Upto
    <3> QED
      BY <2>2, <2>4, <2>5, FS_Subset, Zenon
  <2> QED
    BY <2>4, <2>6
<1> QED
  BY <1>1, <1>2, <1>3, <1>4 DEF Rank

LEMMA EveryRankIsTaken ==
  ASSUME NEW n \in Nat, NEW kept \in SUBSET (1 .. n), NEW k \in 1 .. Cardinality(kept)
  PROVE  \E i \in kept : Rank(kept, i) = k
<1> DEFINE C == Cardinality(kept)
           f == [i \in kept |-> Rank(kept, i)]
<1>1. IsFiniteSet(kept) /\ C \in Nat /\ kept \subseteq Nat
  BY RanksAreDistinct
<1>2. f \in Injection(kept, 1 .. C)
  <2>1. \A i \in kept : Rank(kept, i) \in 1 .. C
    BY RanksAreDistinct
  <2>2. \A i \in kept, j \in kept : Rank(kept, i) = Rank(kept, j) => i = j
    <3> SUFFICES ASSUME NEW i \in kept, NEW j \in kept, Rank(kept, i) = Rank(kept, j), i # j PROVE FALSE
      OBVIOUS
    <3>1. i \in Nat /\ j \in Nat /\ Rank(kept, i) \in Nat /\ Rank(kept, j) \in Nat
      BY <1>1, <2>1
    <3>2. i < j \/ j < i
      BY <3>1
    <3>3. Rank(kept, i) < Rank(kept, j) \/ Rank(kept, j) < Rank(kept, i)
      BY <3>2, RanksAreDistinct
    <3> QED
      BY <3>1, <3>3
  <2>3. f \in [kept -> 1 .. C]
    BY <2>1
  <2> QED
    BY <2>2, <2>3, Zenon DEF Injection, IsInjective
<1>3. IsFiniteSet(1 .. C) /\ Cardinality(1 .. C) = C
  <2>1. C \in Int /\ 1 \in Int
    BY <1>1
  <2>2. IsFiniteSet(1 .. C) /\ Cardinality(1 .. C) = IF 1 > C THEN 0 ELSE C - 1 + 1
    <3> HIDE DEF C
    <3> QED
      BY <2>1, FS_Interval, Zenon
  <2> HIDE DEF C
  <2> QED
    BY <1>1, <2>2
<1>4. f \in Surjection(kept, 1 .. C)
  <2> HIDE DEF f
  <2> QED
    BY <1>2, <1>3, FS_Injection, Zenon DEF C
<1> QED
  BY <1>4 DEF Surjection

LEMMA KeepPlaces ==
  ASSUME NEW S, NEW s \in Seq(S), NEW kept \in SUBSET (DOMAIN s)
  PROVE  /\ Keep(s, kept) \in Seq(S)
         /\ \A i \in kept : Rank(kept, i) \in DOMAIN Keep(s, kept) /\ Keep(s, kept)[Rank(kept, i)] = s[i]
         /\ \A k \in DOMAIN Keep(s, kept) :
              \E i \in kept : /\ Rank(kept, i) = k /\ Keep(s, kept)[k] = s[i]
                              /\ Len(Keep(s, kept)) - k <= Len(s) - i
<1> DEFINE Ranked(k) == CHOOSE i \in kept : Rank(kept, i) = k
           C == Cardinality(kept)
           n == Len(s)
<1>0. n \in Nat /\ DOMAIN s = 1 .. n /\ kept \in SUBSET (1 .. n)
  OBVIOUS
<1>1. Keep(s, kept) = [k \in 1 .. C |-> s[Ranked(k)]]
  BY DEF Keep, Rank
<1> HIDE DEF n
<1>2. C \in Nat /\ kept \subseteq Nat /\ IsFiniteSet(kept)
  BY <1>0, RanksAreDistinct, Zenon
<1>3. ASSUME NEW k \in 1 .. C PROVE Ranked(k) \in kept /\ Rank(kept, Ranked(k)) = k
  <2>1. \E i \in kept : Rank(kept, i) = k
    BY <1>0, EveryRankIsTaken, Zenon
  <2> QED
    BY <2>1
<1>4. ASSUME NEW i \in kept PROVE Rank(kept, i) \in 1 .. C /\ Ranked(Rank(kept, i)) = i
  <2>1. Rank(kept, i) \in 1 .. C
    BY <1>0, RanksAreDistinct, Zenon
  <2>2. PICK j \in kept : j = Ranked(Rank(kept, i)) /\ Rank(kept, j) = Rank(kept, i)
    BY <1>3, <2>1
  <2>3. i \in Nat /\ j \in Nat /\ Rank(kept, i) \in Nat
    BY <1>2, <2>1
  <2>4. (i < j => Rank(kept, i) < Rank(kept, j)) /\ (j < i => Rank(kept, j) < Rank(kept, i))
    BY <1>0, RanksAreDistinct, Zenon
  <2>5. i = j
    BY <2>2, <2>3, <2>4
  <2> QED
    BY <2>1, <2>2, <2>5
<1>5. ASSUME NEW i \in kept PROVE C - Rank(kept, i) <= n - i
  <2> DEFINE Upto == {j \in kept : j <= i}
             Rest == i + 1 .. n
  <2>1. i \in 1 .. n /\ i \in Nat /\ IsFiniteSet(Rest) /\ Cardinality(Rest) = n - i
    <3>1. i \in 1 .. n /\ i + 1 \in Int /\ n \in Int
      BY <1>0
    <3>2. IsFiniteSet(Rest) /\ Cardinality(Rest) = IF i + 1 > n THEN 0 ELSE n - (i + 1) + 1
      BY <3>1, FS_Interval, Zenon
    <3> HIDE DEF Rest
    <3> QED
      BY <1>0, <3>1, <3>2
  <2>2. kept \ Upto \in SUBSET Rest
    BY <1>0, <1>2, <2>1
  <2>3. Upto \in SUBSET kept
    OBVIOUS
  <2> HIDE DEF Upto, Rest
  <2>4. Cardinality(kept \ Upto) <= Cardinality(Rest)
    BY <2>1, <2>2, FS_Subset, Zenon
  <2>5. Cardinality(kept \ Upto) = C - Cardinality(kept \cap Upto) /\ kept \cap Upto = Upto
    BY <1>2, <2>3, FS_Difference, Zenon
  <2>6. Cardinality(Upto) = Rank(kept, i) /\ Cardinality(Upto) \in Nat
    BY <1>2, <2>3, FS_Subset, FS_CardinalityType, Zenon DEF Rank, Upto
  <2> HIDE DEF C
  <2> QED
    BY <1>0, <1>2, <2>1, <2>4, <2>5, <2>6
<1> HIDE DEF Ranked, C
<1>6. Keep(s, kept) \in Seq(S) /\ DOMAIN Keep(s, kept) = 1 .. C /\ Len(Keep(s, kept)) = C
  <2>1. ASSUME NEW k \in 1 .. C PROVE s[Ranked(k)] \in S
    BY <1>0, <1>3
  <2>2. Keep(s, kept) \in [1 .. C -> S]
    BY <1>1, <2>1
  <2> QED
    BY <1>2, <2>2
<1>7. ASSUME NEW i \in kept PROVE Rank(kept, i) \in DOMAIN Keep(s, kept) /\ Keep(s, kept)[Rank(kept, i)] = s[i]
  BY <1>1, <1>4, <1>6
<1>8. ASSUME NEW k \in DOMAIN Keep(s, kept)
      PROVE  \E i \in kept : /\ Rank(kept, i) = k /\ Keep(s, kept)[k] = s[i]
                             /\ Len(Keep(s, kept)) - k <= Len(s) - i
  <2>1. k \in 1 .. C /\ Ranked(k) \in kept /\ Rank(kept, Ranked(k)) = k
    BY <1>3, <1>6
  <2>2. C - k <= n - Ranked(k)
    BY <1>5, <2>1
  <2>3. Keep(s, kept)[k] = s[Ranked(k)]
    BY <1>1, <2>1
  <2> QED
    BY <1>6, <2>1, <2>2, <2>3 DEF n
<1> QED
  BY <1>6, <1>7, <1>8

LEMMA LeastExists ==
  ASSUME NEW S, S \subseteq Nat, S # {}
  PROVE  \E n \in S : \A m \in S : n <= m
<1> DEFINE R == {ss \in Nat \X Nat : ss[1] < ss[2]}
<1>1. IsWellFoundedOn(R, Nat)
  BY NatLessThanWellFounded DEF OpToRel
<1>2. PICK n \in S : \A m \in S : <<m, n>> \notin R
  <2> HIDE DEF R
  <2> QED
    BY <1>1, WFMin, Zenon
<1>3. \A m \in S : ~(m < n)
  BY <1>2
<1> QED
  BY <1>2, <1>3

\* Of the indexes of a set the last.
LEMMA LastExists ==
  ASSUME NEW n \in Nat, NEW S \in SUBSET (1 .. n), S # {}
  PROVE  \E i \in S : \A j \in S : j <= i
<1> DEFINE T == {k \in Nat : n - k \in S}
<1>1. PICK k \in T : \A m \in T : k <= m
  <2>1. PICK i : i \in S
    OBVIOUS
  <2>2. i \in 1 .. n /\ n - i \in Nat /\ n - (n - i) = i
    BY <2>1
  <2>3. T \subseteq Nat /\ n - i \in T
    BY <2>1, <2>2
  <2> HIDE DEF T
  <2> QED
    BY <2>3, LeastExists, Zenon
<1>2. ASSUME NEW j \in S PROVE j <= n - k
  <2>1. j \in 1 .. n /\ n - j \in Nat /\ n - (n - j) = j
    OBVIOUS
  <2>2. n - j \in T
    BY <2>1
  <2>3. k <= n - j /\ k \in Nat
    BY <1>1, <2>2
  <2> QED
    BY <2>1, <2>3
<1> QED
  BY <1>1, <1>2

LEMMA GreatestExists ==
  ASSUME NEW n \in Nat, NEW f, \A i \in 1 .. n : f[i] \in Nat, n > 0
  PROVE  \E k \in 1 .. n : \A j \in 1 .. n : f[j] <= f[k]
<1> DEFINE Greatest(m) == \E k \in 1 .. m : \A j \in 1 .. m : f[j] <= f[k]
           B == {m \in 1 .. n : ~Greatest(m)}
<1> SUFFICES ASSUME B # {} PROVE FALSE
  <2>1. n \in 1 .. n
    OBVIOUS
  <2> QED
    BY <2>1
<1>1. PICK m \in B : \A l \in B : m <= l
  <2>1. B \subseteq Nat
    OBVIOUS
  <2> HIDE DEF B
  <2> QED
    BY <2>1, LeastExists, Zenon
<1>2. m \in 1 .. n /\ ~Greatest(m)
  BY <1>1
<1>3. m # 1
  <2>1. 1 .. 1 = {1}
    OBVIOUS
  <2>2. f[1] <= f[1]
    BY <1>2
  <2> QED
    BY <1>2, <2>1, <2>2
<1>4. PICK k \in 1 .. m - 1 : \A j \in 1 .. m - 1 : f[j] <= f[k]
  <2>1. m - 1 \in 1 .. n /\ ~(m <= m - 1)
    BY <1>2, <1>3
  <2>2. m - 1 \notin B
    BY <1>1, <2>1
  <2> QED
    BY <2>1, <2>2
<1> HIDE DEF B, Greatest
<1>7. m \in Nat /\ k \in 1 .. m /\ m \in 1 .. m /\ f[m] \in Nat /\ f[k] \in Nat
  BY <1>2, <1>4
<1>8. ASSUME NEW j \in 1 .. m PROVE j = m \/ j \in 1 .. m - 1
  BY <1>7
<1>5. CASE f[m] <= f[k]
  <2>1. k \in 1 .. m /\ \A j \in 1 .. m : f[j] <= f[k]
    BY <1>4, <1>5, <1>7, <1>8
  <2>2. Greatest(m)
    BY <2>1, Zenon DEF Greatest
  <2> QED
    BY <1>2, <2>2
<1>6. CASE ~(f[m] <= f[k])
  <2>1. m \in 1 .. m /\ \A j \in 1 .. m : f[j] <= f[m]
    <3>1. ASSUME NEW j \in 1 .. m - 1 PROVE f[j] <= f[m]
      <4>1. f[j] <= f[k] /\ f[j] \in Nat
        BY <1>2, <1>4
      <4> QED
        BY <1>6, <1>7, <4>1
    <3> QED
      BY <1>7, <1>8, <3>1
  <2>2. Greatest(m)
    BY <2>1, Zenon DEF Greatest
  <2> QED
    BY <1>2, <2>2
<1> QED
  BY <1>5, <1>6

LEMMA MaxIsLast ==
  ASSUME NEW n \in Nat, NEW S \in SUBSET (1 .. n), S # {}
  PROVE  Max(S) \in S /\ \A j \in S : j <= Max(S)
<1>1. PICK i \in S : \A j \in S : j <= i
  BY LastExists, Zenon
<1>2. \E x \in S : \A y \in S : x >= y
  BY <1>1
<1>3. Max(S) \in S /\ \A y \in S : Max(S) >= y
  BY <1>2, Zenon DEF Max
<1> QED
  BY <1>3

-----------------------------------------------------------------------------
(* What the state is made of.                                              *)

ARecord ==
  [id : Nat, event : Nat, kind : Kinds, talks : BOOLEAN, text : Nat, repeats : Nat, cut : BOOLEAN]
ASummary ==
  [is : BOOLEAN, through : Nat, compacted : SUBSET Nat, omitted : SUBSET Nat, spoken : SUBSET Nat,
   messages : Seq(ToSet(Talk)), saved : SUBSET (Nat \X Nat), accounted : SUBSET Nat,
   retained : Seq(ARecord), tools : Nat]

\* A sequence of records that memory may hold.
InMemory(s) == \A i \in DOMAIN s : s[i].kind # "summary" /\ s[i].event \in 0 .. Len(ledger) /\ ~s[i].cut
Uncut(s) == \A i \in DOMAIN s : ~s[i].cut

Hidden(sum) == sum.compacted \cup sum.omitted
Holds(s, e) == \E i \in DOMAIN s : IsTool(s[i]) /\ s[i].event = e

Types ==
  /\ obs \in Seq(ARecord) /\ InMemory(obs)
  /\ ledger \in Seq(ARecord)
  /\ \A e \in DOMAIN ledger : ledger[e].event = e /\ IsTool(ledger[e]) /\ ~ledger[e].cut
  /\ decides \/ judged = {}
  /\ summary \in ASummary /\ InMemory(summary.retained)
  /\ summary.accounted \subseteq DOMAIN ledger
  /\ summary.is \/ Hidden(summary) = {}
  /\ heard \in 1 .. Len(Talk) /\ resumes \in Nat /\ pc \in {"thinking", "acting"}

\* A task that was never resumed holds all it did.
Unresumed ==
  resumes = 0 =>
    /\ intact
    /\ NumbersTaken \subseteq IdsOf(ToSet(obs))
    /\ \A e \in DOMAIN ledger : Holds(obs, e)

LEMMA RecordsAre ==
  ASSUME NEW s \in Seq(ARecord)
  PROVE  /\ Len(s) \in Nat /\ DOMAIN s = 1 .. Len(s)
         /\ \A i \in DOMAIN s :
              /\ s[i] \in ARecord /\ s[i].id \in Nat /\ s[i].event \in Nat /\ s[i].kind \in Kinds
              /\ s[i].talks \in BOOLEAN
<1>1. Len(s) \in Nat /\ DOMAIN s = 1 .. Len(s) /\ \A i \in DOMAIN s : s[i] \in ARecord
  OBVIOUS
<1>2. ASSUME NEW o \in ARecord
      PROVE  o.id \in Nat /\ o.event \in Nat /\ o.kind \in Kinds /\ o.talks \in BOOLEAN
  BY <1>2 DEF ARecord
<1> QED
  BY <1>1, <1>2

LEMMA NextIDIsNew ==
  ASSUME NEW s \in Seq(ARecord)
  PROVE  NextID(s) \in Nat /\ NextID(s) # 0 /\ \A i \in DOMAIN s : s[i].id < NextID(s)
<1>1. CASE s = <<>>
  <2>1. NextID(s) = 1
    BY <1>1 DEF NextID
  <2>4. DOMAIN s = {}
    <3>1. Len(s) = 0 /\ DOMAIN s = 1 .. Len(s)
      BY <1>1
    <3> QED
      BY <3>1
  <2>2. \A i \in DOMAIN s : s[i].id < NextID(s)
    BY <2>4, Zenon
  <2>3. NextID(s) \in Nat /\ NextID(s) # 0
    BY <2>1
  <2> QED
    BY <2>2, <2>3
<1>2. CASE s # <<>>
  <2> DEFINE f == [i \in 1 .. Len(s) |-> s[i].id]
             I == IdsOf(ToSet(s))
  <2>1. Len(s) \in Nat /\ Len(s) > 0 /\ DOMAIN s = 1 .. Len(s) /\ \A i \in 1 .. Len(s) : f[i] \in Nat
    <3>1. Len(s) \in Nat /\ DOMAIN s = 1 .. Len(s) /\ \A i \in 1 .. Len(s) : s[i].id \in Nat
      BY RecordsAre
    <3>2. Len(s) # 0
      BY <1>2
    <3> QED
      BY <3>1, <3>2
  <2>2. PICK k \in 1 .. Len(s) : \A j \in 1 .. Len(s) : f[j] <= f[k]
    <3> HIDE DEF f
    <3> QED
      BY <2>1, GreatestExists, Zenon
  <2>3. I = {f[i] : i \in 1 .. Len(s)}
    BY <2>1 DEF IdsOf, ToSet
  <2>4. \E x \in I : \A y \in I : x >= y
    <3>1. f[k] \in I /\ \A y \in I : f[k] >= y
      <4> HIDE DEF f, I
      <4> QED
        BY <2>1, <2>2, <2>3
    <3> HIDE DEF f, I
    <3> QED
      BY <3>1
  <2>5. Max(I) \in I /\ \A y \in I : Max(I) >= y
    <3> HIDE DEF I
    <3> QED
      BY <2>4, Zenon DEF Max
  <2>6. \A i \in DOMAIN s : s[i].id \in I /\ s[i].id \in Nat
    BY <2>1 DEF IdsOf, ToSet
  <2>7. Max(I) \in Nat /\ NextID(s) = Max(I) + 1
    <3>1. I \subseteq Nat
      BY <2>1, <2>3
    <3> HIDE DEF I
    <3> QED
      BY <1>2, <2>5, <3>1 DEF NextID, I
  <2> HIDE DEF I
  <2> QED
    BY <2>5, <2>6, <2>7
<1> QED
  BY <1>1, <1>2

\* An id leads to the newest event that has it.
LEMMA EventOfIs ==
  ASSUME NEW events \in Seq(ARecord), NEW id
  PROVE  /\ EventOf(events, id) \in 0 .. Len(events)
         /\ EventOf(events, id) # 0 => events[EventOf(events, id)].id = id
         /\ \A e \in DOMAIN events : events[e].id = id => EventOf(events, id) # 0
<1> DEFINE at == {i \in DOMAIN events : events[i].id = id}
<1>1. Len(events) \in Nat /\ DOMAIN events = 1 .. Len(events) /\ at \in SUBSET (1 .. Len(events))
  OBVIOUS
<1>2. EventOf(events, id) = IF at = {} THEN 0 ELSE Max(at)
  BY DEF EventOf
<1>3. at # {} => Max(at) \in at
  <2> HIDE DEF at
  <2> QED
    BY <1>1, MaxIsLast, Zenon
<1>4. CASE at = {}
  BY <1>1, <1>2, <1>4
<1>5. CASE at # {}
  <2>1. EventOf(events, id) \in at
    BY <1>2, <1>3, <1>5
  <2> QED
    BY <1>1, <2>1
<1> QED
  BY <1>4, <1>5

-----------------------------------------------------------------------------
(* What a projection of the records reads as.                              *)

\* o is what is left of r.
LeftOf(o, r, hidden) ==
  /\ o.id = r.id /\ o.event = r.event
  /\ \/ o.kind = r.kind /\ (IsTool(o) => r.id \notin hidden)
     \/ o.kind = "voice" /\ r.talks
  /\ o.talks => r.talks

\* p is s with the records of the hidden ids out of it.
ReadsAs(p, s, hidden) ==
  /\ p \in Seq(ARecord)
  /\ \A k \in DOMAIN p :
       p[k].kind = "summary" \/ \E i \in DOMAIN s : LeftOf(p[k], s[i], hidden) /\ Len(p) - k <= Len(s) - i
  /\ \A i \in DOMAIN s :
       IsTool(s[i]) /\ s[i].id \notin hidden =>
         \E k \in DOMAIN p : p[k].id = s[i].id /\ p[k].kind = s[i].kind /\ p[k].event = s[i].event
  /\ \A k, l \in DOMAIN p :
       k # l /\ p[k].kind # "summary" /\ p[l].kind # "summary" /\ p[k].id = p[l].id =>
         \E i, j \in DOMAIN s : i # j /\ s[i].id = s[j].id

LEMMA ReadsAsIs ==
  ASSUME NEW s \in Seq(ARecord), NEW hidden, \A i \in DOMAIN s : s[i].kind # "summary",
         \A i \in DOMAIN s : s[i].id \notin hidden
  PROVE  ReadsAs(s, s, hidden)
<1>1. \A i \in DOMAIN s : LeftOf(s[i], s[i], hidden) /\ Len(s) - i <= Len(s) - i
  <2>1. \A i \in DOMAIN s : Len(s) - i <= Len(s) - i
    BY RecordsAre
  <2> QED
    BY <2>1 DEF LeftOf
<1> QED
  BY <1>1, Zenon DEF ReadsAs

LEMMA ProjectedReads ==
  ASSUME NEW s \in Seq(ARecord), NEW sum \in ASummary, NEW pins,
         \A i \in DOMAIN s : s[i].kind # "summary", sum.is \/ Hidden(sum) = {}
  PROVE  ReadsAs(Projected(s, sum, pins), s, Hidden(sum) \ pins)
<1> DEFINE hidden == Hidden(sum) \ pins
           keeps(o) == o.id \notin hidden \/ (o.id \in sum.omitted \ sum.spoken /\ o.talks)
           shape(o) == IF o.id \in hidden THEN Voice(o)
                       ELSE IF o.id \in sum.spoken \ pins THEN [o EXCEPT !.talks = FALSE] ELSE o
           places == {i \in DOMAIN s : keeps(s[i])}
           kept == Keep(s, places)
           shaped == [i \in DOMAIN kept |-> shape(kept[i])]
           p == <<SummaryRecord(sum)>> \o shaped
<1>1. Projected(s, sum, pins) = IF ~sum.is THEN s ELSE p
  BY DEF Projected, Hidden
<1>2. CASE ~sum.is
  <2>1. Projected(s, sum, pins) = s /\ \A i \in DOMAIN s : s[i].id \notin Hidden(sum) \ pins
    BY <1>1, <1>2
  <2> QED
    BY <2>1, ReadsAsIs
<1>3. CASE sum.is
  <2>1. /\ kept \in Seq(ARecord)
        /\ \A i \in places : Rank(places, i) \in DOMAIN kept /\ kept[Rank(places, i)] = s[i]
        /\ \A k \in DOMAIN kept :
             \E i \in places : Rank(places, i) = k /\ kept[k] = s[i] /\ Len(kept) - k <= Len(s) - i
    <3>1. places \in SUBSET (DOMAIN s)
      OBVIOUS
    <3> HIDE DEF places
    <3> QED
      BY <3>1, KeepPlaces, Zenon
  <2>2. ASSUME NEW o \in ARecord, keeps(o), o.kind # "summary"
        PROVE  shape(o) \in ARecord /\ LeftOf(shape(o), o, hidden) /\ shape(o).kind # "summary"
    <3>1. CASE o.id \in hidden
      <4>1. shape(o) = Voice(o) /\ o.talks
        BY <2>2, <3>1
      <4>2. Voice(o) \in ARecord /\ Voice(o).kind = "voice" /\ Voice(o).id = o.id /\ Voice(o).event = o.event
        BY DEF Voice, ARecord, Kinds
      <4> HIDE DEF shape, hidden
      <4> QED
        BY <4>1, <4>2 DEF LeftOf
    <3>2. CASE o.id \notin hidden
      <4>1. shape(o) \in {o, [o EXCEPT !.talks = FALSE]}
        BY <3>2
      <4>2. ASSUME NEW q \in {o, [o EXCEPT !.talks = FALSE]}
            PROVE  q \in ARecord /\ q.kind = o.kind /\ q.id = o.id /\ q.event = o.event /\ (q.talks => o.talks)
        BY DEF ARecord
      <4> HIDE DEF shape, hidden
      <4> QED
        BY <2>2, <3>2, <4>1, <4>2 DEF LeftOf
    <3> QED
      BY <3>1, <3>2
  <2> HIDE DEF keeps, shape
  <2>3. /\ shaped \in Seq(ARecord) /\ Len(shaped) = Len(kept) /\ DOMAIN shaped = 1 .. Len(kept)
        /\ Len(kept) \in Nat /\ DOMAIN kept = 1 .. Len(kept)
        /\ \A k \in DOMAIN kept : shaped[k] = shape(kept[k])
    <3>1. Len(kept) \in Nat /\ DOMAIN kept = 1 .. Len(kept)
      BY <2>1, RecordsAre
    <3>2. ASSUME NEW k \in DOMAIN kept PROVE shape(kept[k]) \in ARecord
      <4>1. PICK i \in places : kept[k] = s[i]
        BY <2>1
      <4>2. s[i] \in ARecord /\ keeps(s[i]) /\ s[i].kind # "summary"
        BY <4>1, RecordsAre
      <4> QED
        BY <2>2, <4>1, <4>2
    <3> HIDE DEF kept
    <3>3. shaped \in [1 .. Len(kept) -> ARecord]
      BY <3>1, <3>2
    <3> QED
      BY <3>1, <3>3
  <2>4. /\ p \in Seq(ARecord) /\ Len(p) = Len(kept) + 1 /\ DOMAIN p = 1 .. Len(kept) + 1
        /\ p[1].kind = "summary" /\ \A k \in DOMAIN kept : k + 1 \in DOMAIN p /\ p[k + 1] = shape(kept[k])
    <3>1. SummaryRecord(sum) \in ARecord /\ SummaryRecord(sum).kind = "summary"
      <4> DEFINE size == 1 + (IF Replaces(sum) THEN 1 ELSE 0) + (IF sum.saved = {} THEN 0 ELSE 1)
                 blank == Record(0, 0, "summary", FALSE, 0, 0)
      <4>1. size \in Nat
        OBVIOUS
      <4>2. blank \in ARecord /\ blank.kind = "summary"
        BY DEF Record, ARecord, Kinds
      <4>3. SummaryRecord(sum) = [blank EXCEPT !.text = size]
        BY DEF SummaryRecord
      <4> HIDE DEF size, blank
      <4> QED
        BY <4>1, <4>2, <4>3 DEF ARecord
    <3> DEFINE head == SummaryRecord(sum)
    <3> HIDE DEF shaped, kept, head
    <3>2. /\ <<head>> \o shaped \in Seq(ARecord) /\ Len(<<head>> \o shaped) = Len(kept) + 1
          /\ (<<head>> \o shaped)[1] = head
          /\ \A k \in 1 .. Len(kept) : (<<head>> \o shaped)[k + 1] = shaped[k]
      BY <2>3, <3>1 DEF head
    <3> QED
      BY <2>3, <3>1, <3>2 DEF head
  <2> HIDE DEF shaped, p
  <2>5. ASSUME NEW k \in DOMAIN p, k # 1
        PROVE  \E i \in places : /\ Rank(places, i) = k - 1 /\ p[k] = shape(s[i]) /\ Len(p) - k <= Len(s) - i
                                 /\ LeftOf(p[k], s[i], hidden)
    <3>1. k - 1 \in DOMAIN kept /\ (k - 1) + 1 = k
      BY <2>3, <2>4, <2>5
    <3>2. PICK i \in places : Rank(places, i) = k - 1 /\ kept[k - 1] = s[i] /\ Len(kept) - (k - 1) <= Len(s) - i
      BY <2>1, <3>1
    <3>3. p[k] = shape(s[i])
      BY <2>4, <3>1, <3>2
    <3>4. s[i] \in ARecord /\ keeps(s[i]) /\ s[i].kind # "summary" /\ i \in Nat /\ Len(s) \in Nat
      BY RecordsAre
    <3>5. LeftOf(p[k], s[i], hidden)
      BY <2>2, <3>3, <3>4
    <3>6. Len(p) - k <= Len(s) - i
      BY <2>3, <2>4, <3>1, <3>2, <3>4
    <3> QED
      BY <3>2, <3>3, <3>5, <3>6
  <2>6. ASSUME NEW i \in DOMAIN s, IsTool(s[i]), s[i].id \notin hidden
        PROVE  \E k \in DOMAIN p : p[k].id = s[i].id /\ p[k].kind = s[i].kind /\ p[k].event = s[i].event
    <3>1. i \in places /\ keeps(s[i]) /\ s[i] \in ARecord /\ s[i].kind # "summary"
      BY <2>6, RecordsAre DEF keeps
    <3> DEFINE k == Rank(places, i)
    <3>2. k + 1 \in DOMAIN p /\ p[k + 1] = shape(s[i])
      <4>1. k \in DOMAIN kept /\ kept[k] = s[i]
        BY <2>1, <3>1
      <4> QED
        BY <2>4, <4>1
    <3>3. shape(s[i]) \in {s[i], [s[i] EXCEPT !.talks = FALSE]}
      BY <2>6 DEF shape
    <3>4. shape(s[i]).id = s[i].id /\ shape(s[i]).kind = s[i].kind /\ shape(s[i]).event = s[i].event
      BY <3>1, <3>3 DEF ARecord
    <3> QED
      BY <3>2, <3>4
  <2>7. ASSUME NEW k \in DOMAIN p, NEW l \in DOMAIN p, k # l, p[k].kind # "summary", p[l].kind # "summary",
               p[k].id = p[l].id
        PROVE  \E i, j \in DOMAIN s : i # j /\ s[i].id = s[j].id
    <3>1. k # 1 /\ l # 1 /\ k - 1 # l - 1
      BY <2>3, <2>4, <2>7
    <3>2. PICK i \in places : Rank(places, i) = k - 1 /\ LeftOf(p[k], s[i], hidden)
      BY <2>5, <3>1
    <3>3. PICK j \in places : Rank(places, j) = l - 1 /\ LeftOf(p[l], s[j], hidden)
      BY <2>5, <3>1
    <3>4. i # j /\ s[i].id = s[j].id /\ i \in DOMAIN s /\ j \in DOMAIN s
      BY <2>7, <3>1, <3>2, <3>3 DEF LeftOf
    <3> QED
      BY <3>4
  <2>8. ReadsAs(p, s, hidden)
    <3>1. \A k \in DOMAIN p :
            p[k].kind = "summary" \/ \E i \in DOMAIN s : LeftOf(p[k], s[i], hidden) /\ Len(p) - k <= Len(s) - i
      BY <2>4, <2>5
    <3> HIDE DEF hidden, p
    <3> QED
      BY <2>4, <2>6, <2>7, <3>1, Zenon DEF ReadsAs
  <2> QED
    BY <1>1, <1>3, <2>8 DEF p, hidden
<1> QED
  BY <1>2, <1>3

\* Nothing is cut out of a projection of records nothing was cut out of.
LEMMA ProjectedUncut ==
  ASSUME NEW s \in Seq(ARecord), NEW sum \in ASummary, NEW pins, Uncut(s)
  PROVE  Uncut(Projected(s, sum, pins))
<1> DEFINE hidden == (sum.compacted \cup sum.omitted) \ pins
           keeps(o) == o.id \notin hidden \/ (o.id \in sum.omitted \ sum.spoken /\ o.talks)
           shape(o) == IF o.id \in hidden THEN Voice(o)
                       ELSE IF o.id \in sum.spoken \ pins THEN [o EXCEPT !.talks = FALSE] ELSE o
           places == {i \in DOMAIN s : keeps(s[i])}
           kept == Keep(s, places)
           shaped == [i \in DOMAIN kept |-> shape(kept[i])]
           head == SummaryRecord(sum)
           p == <<head>> \o shaped
<1>1. Projected(s, sum, pins) = IF ~sum.is THEN s ELSE p
  BY DEF Projected
<1>2. kept \in Seq(ARecord) /\ \A k \in DOMAIN kept : \E i \in places : kept[k] = s[i]
  <2>1. places \in SUBSET (DOMAIN s)
    OBVIOUS
  <2> HIDE DEF places
  <2> QED
    BY <2>1, KeepPlaces, Zenon
<1>3. ASSUME NEW k \in DOMAIN kept PROVE ~kept[k].cut /\ kept[k] \in ARecord
  BY <1>2 DEF Uncut
<1> HIDE DEF kept
<1>4. ASSUME NEW o \in ARecord, ~o.cut PROVE ~shape(o).cut /\ shape(o) \in ARecord
  <2>1. shape(o) \in {Voice(o), o, [o EXCEPT !.talks = FALSE]}
    OBVIOUS
  <2>2. Voice(o).cut = FALSE /\ Voice(o) \in ARecord
    BY DEF Voice, ARecord, Kinds
  <2>3. [o EXCEPT !.talks = FALSE].cut = o.cut /\ [o EXCEPT !.talks = FALSE] \in ARecord
    BY DEF ARecord
  <2> HIDE DEF shape
  <2> QED
    BY <1>4, <2>1, <2>2, <2>3
<1> HIDE DEF shape
<1>5. head \in ARecord /\ ~head.cut
  <2> DEFINE size == 1 + (IF Replaces(sum) THEN 1 ELSE 0) + (IF sum.saved = {} THEN 0 ELSE 1)
             blank == Record(0, 0, "summary", FALSE, 0, 0)
  <2>1. size \in Nat
    OBVIOUS
  <2>2. blank \in ARecord /\ ~blank.cut
    BY DEF Record, ARecord, Kinds
  <2>3. SummaryRecord(sum) = [blank EXCEPT !.text = size]
    BY DEF SummaryRecord
  <2> HIDE DEF size, blank
  <2> QED
    BY <2>1, <2>2, <2>3 DEF ARecord
<1>6. Len(kept) \in Nat /\ DOMAIN kept = 1 .. Len(kept)
  BY <1>2
<1>7. shaped \in [1 .. Len(kept) -> ARecord] /\ \A k \in 1 .. Len(kept) : ~shaped[k].cut
  BY <1>3, <1>4, <1>6
<1> HIDE DEF shaped, head
<1>8. shaped \in Seq(ARecord) /\ Len(shaped) = Len(kept) /\ DOMAIN p = 1 .. Len(kept) + 1
  BY <1>5, <1>6, <1>7
<1>9. ASSUME NEW k \in DOMAIN p PROVE ~p[k].cut
  <2>1. k = 1 \/ (k - 1 \in 1 .. Len(kept) /\ p[k] = shaped[k - 1])
    BY <1>5, <1>6, <1>8
  <2>2. p[1] = head
    BY <1>5, <1>8
  <2> QED
    BY <1>5, <1>7, <2>1, <2>2
<1> QED
  BY <1>1, <1>9 DEF Uncut

IsPrompt(p) == p = [records |-> p.records, messages |-> p.messages]

LEMMA ShorterReads ==
  ASSUME NEW p, NEW pins, NEW s \in Seq(ARecord), NEW hidden, IsPrompt(p),
         ReadsAs(p.records, s, hidden)
  PROVE  ReadsAs(Shorter(p, pins).records, s, hidden) /\ Shorter(p, pins).messages = p.messages
<1> DEFINE q == p.records
           r == Pruned(p, pins).records
<1>1. q \in Seq(ARecord)
  BY DEF ReadsAs
<1>2. Pruned(p, pins).messages = p.messages /\ Len(r) = Len(q) /\ DOMAIN r = DOMAIN q /\ r \in Seq(ARecord)
      /\ \A k \in DOMAIN q : r[k].id = q[k].id /\ r[k].event = q[k].event /\ r[k].kind = q[k].kind /\ r[k].talks = q[k].talks
  <2> DEFINE cutAt(k) == IsTool(q[k]) /\ k < Len(q) /\ q[k].id \notin pins
             t == [k \in DOMAIN q |-> IF cutAt(k) THEN [q[k] EXCEPT !.cut = TRUE] ELSE q[k]]
  <2>1. Pruned(p, pins).messages = p.messages /\ r = t
    BY DEF Pruned, IsPrompt
  <2>2. ASSUME NEW o \in ARecord
        PROVE  LET c == [o EXCEPT !.cut = TRUE]
               IN  c \in ARecord /\ c.id = o.id /\ c.event = o.event /\ c.kind = o.kind /\ c.talks = o.talks
    BY DEF ARecord
  <2>3. ASSUME NEW k \in DOMAIN q
        PROVE  t[k] \in ARecord /\ t[k].id = q[k].id /\ t[k].event = q[k].event /\ t[k].kind = q[k].kind /\ t[k].talks = q[k].talks
    <3>1. q[k] \in ARecord
      BY <1>1
    <3>2. t[k] \in {q[k], [q[k] EXCEPT !.cut = TRUE]}
      BY DEF t
    <3> QED
      BY <2>2, <3>1, <3>2
  <2>4. DOMAIN q = 1 .. Len(q) /\ Len(q) \in Nat
    BY <1>1
  <2>5. t \in [1 .. Len(q) -> ARecord] /\ DOMAIN t = DOMAIN q
    BY <2>3, <2>4
  <2>6. t \in Seq(ARecord) /\ Len(t) = Len(q)
    <3> HIDE DEF t
    <3> QED
      BY <2>4, <2>5
  <2> QED
    BY <2>1, <2>3, <2>5, <2>6
<1> HIDE DEF r, q
<1>3. ReadsAs(r, s, hidden)
  <2>1. ReadsAs(q, s, hidden)
    BY DEF q
  <2>2. ASSUME NEW k \in DOMAIN q, NEW o PROVE LeftOf(q[k], o, hidden) => LeftOf(r[k], o, hidden)
    BY <1>2 DEF LeftOf, IsTool
  <2>3. \A k \in DOMAIN r :
          r[k].kind = "summary" \/ \E i \in DOMAIN s : LeftOf(r[k], s[i], hidden) /\ Len(r) - k <= Len(s) - i
    BY <1>2, <2>1, <2>2 DEF ReadsAs
  <2>4. \A i \in DOMAIN s :
          IsTool(s[i]) /\ s[i].id \notin hidden =>
            \E k \in DOMAIN r : r[k].id = s[i].id /\ r[k].kind = s[i].kind /\ r[k].event = s[i].event
    BY <1>2, <2>1, SMT DEF ReadsAs
  <2>5. \A k, l \in DOMAIN r :
          k # l /\ r[k].kind # "summary" /\ r[l].kind # "summary" /\ r[k].id = r[l].id =>
            \E i, j \in DOMAIN s : i # j /\ s[i].id = s[j].id
    BY <1>2, <2>1, Zenon DEF ReadsAs
  <2> QED
    BY <1>2, <2>3, <2>4, <2>5, Zenon DEF ReadsAs
<1> QED
  BY <1>2, <1>3 DEF Shorter, q, r

\* A shorter prompt has something cut out only of records that are neither the newest
\* nor pinned.
LEMMA ShorterCuts ==
  ASSUME NEW p, NEW pins, IsPrompt(p), p.records \in Seq(ARecord), Uncut(p.records),
         NEW k \in DOMAIN Shorter(p, pins).records, Shorter(p, pins).records[k].cut
  PROVE  /\ k < Len(Shorter(p, pins).records)
         /\ Shorter(p, pins).records[k].id \notin pins
<1> DEFINE q == p.records
           t == [i \in DOMAIN q |->
                   IF IsTool(q[i]) /\ i < Len(q) /\ q[i].id \notin pins THEN [q[i] EXCEPT !.cut = TRUE] ELSE q[i]]
<1>1. Pruned(p, pins).records = t
  BY DEF Pruned, IsPrompt
<1>2. Shorter(p, pins).records = t
  <2>1. Shorter(p, pins).records \in {t, q}
    BY <1>1 DEF Shorter
  <2>2. Shorter(p, pins).records # q
    BY DEF Uncut
  <2> QED
    BY <2>1, <2>2
<1>3. k \in DOMAIN q /\ t[k].cut
  BY <1>2
<1>4. k < Len(q) /\ q[k].id \notin pins /\ t[k] = [q[k] EXCEPT !.cut = TRUE]
  BY <1>3 DEF Uncut
<1>5. t[k].id = q[k].id
  <2>1. q[k] \in ARecord
    BY <1>3
  <2> QED
    BY <1>4, <2>1 DEF ARecord
<1>6. Len(t) = Len(q)
  <2>1. DOMAIN t = 1 .. Len(q) /\ Len(q) \in Nat
    OBVIOUS
  <2> HIDE DEF t
  <2> QED
    BY <1>2, <2>1
<1> HIDE DEF t, q
<1> QED
  BY <1>2, <1>4, <1>5, <1>6

-----------------------------------------------------------------------------
(* What a prompt shows, and what a compaction takes out of it.             *)

\* The last message is never gone.
LEMMA LastMessageStays ==
  ASSUME heard \in 1 .. Len(Talk), NEW gone
  PROVE  LET left == MessagesLeft(Heard, gone)
         IN  left \in Seq(ToSet(Talk)) /\ Len(left) > 0 /\ left[Len(left)] = Talk[heard]
<1> DEFINE times(s, m, n) == Cardinality({i \in 1 .. n : s[i] = m})
           isGone(i) == i < Len(Heard) /\ times(Heard, Heard[i], i) <= times(gone, Heard[i], Len(gone))
           places == {i \in DOMAIN Heard : ~isGone(i)}
           left == Keep(Heard, places)
           M == ToSet(Talk)
<1>1. MessagesLeft(Heard, gone) = left
  BY DEF MessagesLeft
<1>2. /\ Heard \in Seq(M) /\ Len(Heard) = heard /\ DOMAIN Heard = 1 .. heard /\ heard \in Nat /\ heard > 0
      /\ Heard[heard] = Talk[heard]
  <2>1. Talk \in Seq(M) /\ Len(Talk) \in Nat
    BY ContextAssumption
  <2>2. heard \in 1 .. Len(Talk) /\ 1 \in 1 .. Len(Talk) /\ heard \in Nat
    BY <2>1
  <2> HIDE DEF M
  <2> QED
    BY <2>1, <2>2 DEF Heard
<1>3. heard \in places /\ places \in SUBSET (DOMAIN Heard)
  BY <1>2
<1> HIDE DEF isGone, places, M
<1>4. /\ left \in Seq(M)
      /\ \A i \in places : Rank(places, i) \in DOMAIN left /\ left[Rank(places, i)] = Heard[i]
      /\ \A k \in DOMAIN left : \E i \in places : Rank(places, i) = k /\ left[k] = Heard[i]
  BY <1>2, <1>3, KeepPlaces, Zenon
<1> HIDE DEF left
<1>5. Len(left) \in Nat /\ DOMAIN left = 1 .. Len(left)
  BY <1>4
<1>6. Rank(places, heard) \in 1 .. Len(left)
  BY <1>3, <1>4, <1>5
<1>7. Len(left) \in DOMAIN left /\ Len(left) > 0
  BY <1>5, <1>6
<1>8. PICK i \in places : Rank(places, i) = Len(left) /\ left[Len(left)] = Heard[i]
  BY <1>4, <1>7
<1>9. i = heard
  <2>1. places \in SUBSET (1 .. heard) /\ i \in 1 .. heard
    BY <1>2, <1>3
  <2>2. i < heard => Rank(places, i) < Rank(places, heard)
    BY <1>2, <1>3, <2>1, RanksAreDistinct, Zenon
  <2>3. ~(Rank(places, i) < Rank(places, heard))
    BY <1>5, <1>6, <1>8
  <2> QED
    BY <1>2, <2>1, <2>2, <2>3
<1> QED
  BY <1>1, <1>2, <1>4, <1>7, <1>8, <1>9 DEF M

\* What is cut in the prompt p is neither the newest nor pinned, and it is cut for want
\* of a decision model.
MayBeCut(p) ==
  \A k \in DOMAIN p.records :
    p.records[k].cut => ~decides /\ k < Len(p.records) /\ p.records[k].id \notin Pinned(obs, cited)

\* The prompt p shows the records of the turn as the summary leaves them.
Shows(p, sum) ==
  /\ MayBeCut(p)
  /\ IsPrompt(p)
  /\ ReadsAs(p.records, obs, Hidden(sum) \ Pinned(obs, cited))
  /\ p.messages \in Seq(ToSet(Talk)) /\ p.messages[Len(p.messages)] = Talk[heard]

LEMMA SummaryShows ==
  ASSUME Types, NEW sum \in ASummary, sum.is \/ Hidden(sum) = {}
  PROVE  /\ Shows(WithSummary(obs, Heard, sum, Pinned(obs, cited)), sum)
         /\ Uncut(WithSummary(obs, Heard, sum, Pinned(obs, cited)).records)
<1> DEFINE p == WithSummary(obs, Heard, sum, Pinned(obs, cited))
<1>1. p = [records |-> Projected(obs, sum, Pinned(obs, cited)), messages |-> MessagesLeft(Heard, sum.messages)]
  BY DEF WithSummary
<1>2. /\ IsPrompt(p)
      /\ p.records = Projected(obs, sum, Pinned(obs, cited)) /\ p.messages = MessagesLeft(Heard, sum.messages)
  BY <1>1 DEF IsPrompt
<1>3. ReadsAs(Projected(obs, sum, Pinned(obs, cited)), obs, Hidden(sum) \ Pinned(obs, cited))
  BY ProjectedReads DEF Types, InMemory
<1>4. heard \in 1 .. Len(Talk)
  BY DEF Types
<1>5. LET left == MessagesLeft(Heard, sum.messages)
      IN  left \in Seq(ToSet(Talk)) /\ Len(left) > 0 /\ left[Len(left)] = Talk[heard]
  BY <1>4, LastMessageStays, Zenon
<1>6. p.messages \in Seq(ToSet(Talk)) /\ p.messages[Len(p.messages)] = Talk[heard]
  BY <1>2, <1>5
<1>7. ReadsAs(p.records, obs, Hidden(sum) \ Pinned(obs, cited))
  BY <1>2, <1>3
<1>8. Uncut(p.records)
  <2>1. Uncut(obs) /\ obs \in Seq(ARecord)
    BY DEF Types, InMemory, Uncut
  <2> QED
    BY <1>2, <2>1, ProjectedUncut
<1> HIDE DEF p
<1>9. MayBeCut(p)
  BY <1>8 DEF MayBeCut, Uncut
<1> QED
  BY <1>2, <1>6, <1>7, <1>8, <1>9, Zenon DEF Shows, p

LEMMA ShorterShows ==
  ASSUME Types, NEW p, Shows(p, summary), Uncut(p.records), ~decides
  PROVE  Shows(Shorter(p, Pinned(obs, cited)), summary)
<1> DEFINE pins == Pinned(obs, cited)
           q == Shorter(p, pins)
<1>1. IsPrompt(q)
  BY DEF Shows, Shorter, Pruned, IsPrompt
<1>2. ReadsAs(q.records, obs, Hidden(summary) \ pins) /\ q.messages = p.messages
  <2> DEFINE hidden == Hidden(summary) \ pins
  <2>1. obs \in Seq(ARecord) /\ IsPrompt(p) /\ ReadsAs(p.records, obs, hidden)
    BY DEF Shows, Types
  <2> HIDE DEF hidden, pins
  <2> QED
    BY <2>1, ShorterReads, Zenon DEF q, hidden
<1>3. MayBeCut(q)
  <2>1. ASSUME NEW k \in DOMAIN q.records, q.records[k].cut
        PROVE  k < Len(q.records) /\ q.records[k].id \notin pins
    <3>1. IsPrompt(p) /\ p.records \in Seq(ARecord) /\ Uncut(p.records)
      BY DEF Shows, ReadsAs
    <3> HIDE DEF pins
    <3> QED
      BY <2>1, <3>1, ShorterCuts
  <2> QED
    BY <2>1 DEF MayBeCut, pins
<1> HIDE DEF q, pins
<1> QED
  BY <1>1, <1>2, <1>3 DEF Shows, q, pins

\* What may be compacted is old and not pinned.
LEMMA PlanIs ==
  ASSUME NEW s \in Seq(ARecord), NEW sum, NEW pins
  PROVE  /\ Compactable(s, sum, pins) \in Seq(ARecord)
         /\ \A o \in ToSet(Compactable(s, sum, pins)) :
              \E k \in DOMAIN s : o = s[k] /\ k <= Len(s) - Recent /\ s[k].id \notin pins /\ s[k].kind # "summary"
<1> DEFINE places == {i \in 1 .. Len(s) - Recent : s[i].id \notin pins /\ s[i].kind # "summary"}
           plan == Compactable(s, sum, pins)
<1>1. plan = Keep(s, places) \/ plan = <<>>
  BY DEF Compactable
<1>2. places \in SUBSET (DOMAIN s)
  BY ContextAssumption, RecordsAre
<1>3. CASE plan = Keep(s, places)
  <2> HIDE DEF places
  <2>3. Keep(s, places) \in Seq(ARecord) /\ \A k \in DOMAIN Keep(s, places) : \E i \in places : Keep(s, places)[k] = s[i]
    BY <1>2, KeepPlaces, Zenon
  <2>1. plan \in Seq(ARecord) /\ \A k \in DOMAIN plan : \E i \in places : plan[k] = s[i]
    BY <1>3, <2>3
  <2>2. ASSUME NEW o \in ToSet(plan)
        PROVE  \E k \in DOMAIN s : o = s[k] /\ k <= Len(s) - Recent /\ s[k].id \notin pins /\ s[k].kind # "summary"
    <3>1. PICK k \in DOMAIN plan : o = plan[k]
      BY DEF ToSet
    <3>2. PICK i \in places : plan[k] = s[i]
      BY <2>1
    <3>3. i \in DOMAIN s /\ i <= Len(s) - Recent /\ s[i].id \notin pins /\ s[i].kind # "summary"
      BY <1>2, ContextAssumption, RecordsAre DEF places
    <3> QED
      BY <3>1, <3>2, <3>3
  <2> QED
    BY <2>1, <2>2
<1>4. CASE plan = <<>>
  <2>1. DOMAIN <<>> = {}
    OBVIOUS
  <2>2. ToSet(plan) = {}
    BY <1>4, <2>1, Zenon DEF ToSet
  <2>3. plan \in Seq(ARecord)
    BY <1>4
  <2> QED
    BY <2>2, <2>3
<1> QED
  BY <1>1, <1>3, <1>4

\* sum takes ids out of the prompt p, the ids of no at most.
TakesOut(p, no, sum) ==
  /\ sum \in ASummary /\ sum.is
  /\ sum.saved = summary.saved /\ sum.accounted = summary.accounted /\ sum.tools = summary.tools
  /\ summary.compacted \subseteq sum.compacted /\ summary.omitted \subseteq sum.omitted
  /\ \A id \in sum.omitted \ summary.omitted :
       /\ id \in no /\ id \notin Pinned(obs, cited)
       /\ \E k \in DOMAIN p : p[k].id = id /\ IsTool(p[k]) /\ k <= Len(p) - Recent
  /\ \A id \in sum.compacted \ summary.compacted :
       \E k \in DOMAIN p : p[k].id = id /\ ~IsTool(p[k]) /\ p[k].kind # "summary"

LEMMA OmittedIsNo ==
  ASSUME NEW plan, NEW no, NEW failed, NEW s, failed => no = {}
  PROVE  Omitted(plan, no, failed, s) \subseteq no
<1>1. ASSUME NEW n, NEW id \in KeepingDependencies(n, s) PROVE id \in n
  BY DEF KeepingDependencies
<1>2. Omitted(plan, no, failed, s) = KeepingDependencies(IF failed THEN {} ELSE no, s)
  BY DEF Omitted
<1> QED
  BY <1>1, <1>2

LEMMA PickedTakesOut ==
  ASSUME Types, NEW p, Shows(p, summary), NEW no, NEW failed, failed => no = {},
         no \subseteq Candidates(Compactable(p.records, summary, Pinned(obs, cited)))
  PROVE  LET plan == Compactable(p.records, summary, Pinned(obs, cited))
             picked == [Keeping(summary, plan) EXCEPT !.omitted = @ \cup Omitted(plan, no, failed, p.records)]
         IN  TakesOut(p.records, no, picked) /\ TakesOut(p.records, no, Replacing(picked, p, plan))
<1> DEFINE pins == Pinned(obs, cited)
           s == p.records
           plan == Compactable(s, summary, pins)
           more == Omitted(plan, no, failed, s)
           kept == Keeping(summary, plan)
           picked == [kept EXCEPT !.omitted = @ \cup more]
           all == Replacing(picked, p, plan)
<1>1. s \in Seq(ARecord) /\ p.messages \in Seq(ToSet(Talk))
  BY DEF Shows, ReadsAs
<1>2. /\ plan \in Seq(ARecord)
      /\ \A o \in ToSet(plan) :
           \E k \in DOMAIN s : o = s[k] /\ k <= Len(s) - Recent /\ s[k].id \notin pins /\ s[k].kind # "summary"
  <2> HIDE DEF pins, s
  <2> QED
    BY <1>1, PlanIs
<1>3. more \subseteq no
  BY OmittedIsNo
<1>4. ASSUME NEW id \in more
      PROVE  id \in Nat /\ id \in no /\ id \notin pins /\ \E k \in DOMAIN s : s[k].id = id /\ IsTool(s[k]) /\ k <= Len(s) - Recent
  <2>1. id \in Candidates(plan) /\ id \in no
    BY <1>3
  <2>2. PICK o \in ToSet(plan) : IsTool(o) /\ id = o.id
    BY <2>1 DEF Candidates, IdsOf
  <2>3. PICK k \in DOMAIN s : o = s[k] /\ k <= Len(s) - Recent /\ s[k].id \notin pins
    BY <1>2
  <2>4. s[k].id \in Nat
    BY <1>1, RecordsAre
  <2> QED
    BY <2>1, <2>2, <2>3, <2>4
<1>5. summary \in ASummary /\ obs \in Seq(ARecord)
  BY DEF Types
<1>6. kept \in ASummary /\ kept.is /\ kept.saved = summary.saved /\ kept.accounted = summary.accounted
      /\ kept.tools = summary.tools /\ kept.compacted = summary.compacted /\ kept.omitted = summary.omitted
  <2>1. CASE plan = <<>>
    BY <1>5, <2>1 DEF Keeping, ASummary
  <2>2. CASE plan # <<>>
    <3>1. plan[Len(plan)] \in ARecord
      <4> HIDE DEF plan
      <4> QED
        BY <1>2, <2>2
    <3>2. plan[Len(plan)].id \in Nat
      BY <3>1 DEF ARecord
    <3> DEFINE last == plan[Len(plan)].id
    <3>3. kept = [summary EXCEPT !.is = TRUE, !.through = last]
      BY <2>2 DEF Keeping
    <3> HIDE DEF last, plan
    <3> QED
      BY <1>5, <3>2, <3>3 DEF ASummary, last
  <2> QED
    BY <2>1, <2>2
<1> HIDE DEF kept, more
<1>7. picked \in ASummary /\ picked.is /\ picked.saved = kept.saved /\ picked.accounted = kept.accounted
      /\ picked.tools = kept.tools /\ picked.compacted = kept.compacted /\ picked.omitted = kept.omitted \cup more
  <2>1. more \subseteq Nat
    BY <1>4
  <2> QED
    BY <1>6, <2>1 DEF ASummary
<1> HIDE DEF picked
<1>8. all \in ASummary /\ all.is /\ all.saved = picked.saved /\ all.accounted = picked.accounted
      /\ all.tools = picked.tools /\ all.omitted = picked.omitted
      /\ all.compacted = picked.compacted \cup IdsOf({o \in ToSet(plan) : ~IsTool(o)})
  <2> DEFINE others == IdsOf({o \in ToSet(plan) : ~IsTool(o)})
             spoken == IdsOf({o \in ToSet(plan) : IsTool(o) /\ o.talks})
             words == picked.messages \o SubSeq(p.messages, 1, Len(p.messages) - 1)
             M == ToSet(Talk)
  <2>1. all = [picked EXCEPT !.compacted = @ \cup others, !.spoken = @ \cup spoken, !.messages = words]
    BY DEF Replacing
  <2>2. ASSUME NEW o \in ToSet(plan) PROVE o.id \in Nat
    BY <1>2, RecordsAre DEF ToSet
  <2>3. others \subseteq Nat /\ spoken \subseteq Nat
    BY <2>2 DEF IdsOf
  <2>4. words \in Seq(M)
    <3>1. picked.messages \in Seq(M) /\ p.messages \in Seq(M)
      BY <1>1, <1>7 DEF ASummary
    <3>2. SubSeq(p.messages, 1, Len(p.messages) - 1) \in Seq(M)
      <4>1. \A m \in 1 .. Len(p.messages) - 1 : m \in 1 .. Len(p.messages)
        BY <3>1
      <4> HIDE DEF M
      <4> QED
        BY <3>1
    <3> DEFINE front == SubSeq(p.messages, 1, Len(p.messages) - 1)
               before == picked.messages
    <3> HIDE DEF M, front, before
    <3>3. before \o front \in Seq(M)
      BY <3>1, <3>2 DEF front, before
    <3> QED
      BY <3>3 DEF front, before
  <2> HIDE DEF others, spoken, words
  <2>5. all \in ASummary /\ all.is /\ all.saved = picked.saved /\ all.accounted = picked.accounted
      /\ all.tools = picked.tools /\ all.omitted = picked.omitted
      /\ all.compacted = picked.compacted \cup others
    BY <1>7, <2>1, <2>3, <2>4 DEF ASummary
  <2> QED
    BY <2>5 DEF others
<1>9. ASSUME NEW id \in IdsOf({o \in ToSet(plan) : ~IsTool(o)})
      PROVE  \E k \in DOMAIN s : s[k].id = id /\ ~IsTool(s[k]) /\ s[k].kind # "summary"
  <2>1. PICK o \in ToSet(plan) : ~IsTool(o) /\ id = o.id
    BY DEF IdsOf
  <2>2. PICK k \in DOMAIN s : o = s[k] /\ s[k].kind # "summary"
    BY <1>2
  <2> QED
    BY <2>1, <2>2
<1> HIDE DEF all, plan, s
<1>10. TakesOut(s, no, picked)
  <2>1. picked.is /\ picked.saved = summary.saved /\ picked.accounted = summary.accounted /\ picked.tools = summary.tools
        /\ picked.compacted = summary.compacted /\ picked.omitted = summary.omitted \cup more
    BY <1>6, <1>7
  <2> QED
    BY <1>4, <1>7, <2>1 DEF TakesOut, pins
<1>11. TakesOut(s, no, all)
  <2>1. all.is /\ all.saved = summary.saved /\ all.accounted = summary.accounted /\ all.tools = summary.tools
        /\ all.compacted = summary.compacted \cup IdsOf({o \in ToSet(plan) : ~IsTool(o)})
        /\ all.omitted = summary.omitted \cup more
    BY <1>6, <1>7, <1>8
  <2> QED
    BY <1>4, <1>8, <1>9, <2>1 DEF TakesOut, pins
<1> QED
  BY <1>10, <1>11 DEF all, picked, kept, more, plan, s, pins

\* The summary that is kept, which says where the removed records are.
WithSaved(visible, sum, stored) ==
  [sum EXCEPT !.saved = Saved(summary.saved, NewlyRemoved(visible.records, sum), stored)]

\* The compaction of the prompt visible is committed.
Commits(visible, no, sum, stored) ==
  /\ Shows(visible, summary) /\ TakesOut(visible.records, no, sum)
  /\ stored \in BOOLEAN /\ (SavesMayFail \/ stored)
  /\ WithSaved(visible, sum, stored) \in ASummary
  /\ Shows(shown', WithSaved(visible, sum, stored)) /\ Uncut(shown'.records)
  /\ decides \/ no = {}
  /\ summary' = Accounting(WithSaved(visible, sum, stored), summary, shown', NewlyRemoved(visible.records, sum), ledger)
  /\ judged' = judged \cup EventsOf({o \in ToSet(visible.records) : o.id \in no})

LEMMA WithSavedIs ==
  ASSUME Types, NEW visible, Shows(visible, summary), NEW no, NEW sum, TakesOut(visible.records, no, sum),
         NEW stored
  PROVE  LET kept == WithSaved(visible, sum, stored)
         IN  /\ kept \in ASummary /\ kept.is /\ kept.compacted = sum.compacted /\ kept.omitted = sum.omitted
             /\ kept.saved = Saved(summary.saved, NewlyRemoved(visible.records, sum), stored)
             /\ kept.accounted = summary.accounted /\ kept.tools = summary.tools
<1> DEFINE s == visible.records
           removed == NewlyRemoved(s, sum)
           saved == Saved(summary.saved, removed, stored)
           kept == WithSaved(visible, sum, stored)
<1>1. s \in Seq(ARecord)
  BY DEF Shows, ReadsAs
<1>2. ASSUME NEW o \in removed PROVE <<o.id, o.event>> \in Nat \X Nat
  <2>1. PICK k \in DOMAIN s : o = s[k]
    BY DEF NewlyRemoved, ToSet
  <2> HIDE DEF s
  <2>2. s[k].id \in Nat /\ s[k].event \in Nat
    BY <1>1, RecordsAre
  <2> QED
    BY <2>1, <2>2
<1>3. saved \in SUBSET (Nat \X Nat)
  <2>1. summary.saved \in SUBSET (Nat \X Nat)
    BY DEF Types, ASummary
  <2>2. {<<o.id, o.event>> : o \in removed} \in SUBSET (Nat \X Nat)
    BY <1>2
  <2> QED
    BY <2>1, <2>2 DEF Saved
<1>4. kept = [sum EXCEPT !.saved = saved]
  BY DEF WithSaved
<1>5. sum \in ASummary /\ sum.is /\ sum.accounted = summary.accounted /\ sum.tools = summary.tools
  BY DEF TakesOut
<1> HIDE DEF saved, kept
<1>6. kept \in ASummary /\ kept.is = sum.is /\ kept.compacted = sum.compacted /\ kept.omitted = sum.omitted
      /\ kept.saved = saved /\ kept.accounted = sum.accounted /\ kept.tools = sum.tools
  BY <1>3, <1>4, <1>5 DEF ASummary
<1> QED
  BY <1>5, <1>6 DEF kept, saved, removed, s

LEMMA PromptCases ==
  ASSUME Types, Prompt
  PROVE  /\ UNCHANGED <<obs, ledger, cited, heard, decides, resumes, intact>> /\ pc = "thinking" /\ pc' = "acting"
         /\ \/ Shows(shown', summary) /\ UNCHANGED <<summary, judged>>
            \/ \E visible, no, sum, stored : Commits(visible, no, sum, stored)
<1> DEFINE pins == Pinned(obs, cited)
           whole == WithSummary(obs, Heard, summary, pins)
           visible == IF PromptSize(whole) > Budget /\ ~decides THEN Shorter(whole, pins) ELSE whole
           plan == Compactable(visible.records, summary, pins)
           Shown == Show(visible) /\ UNCHANGED <<summary, barren, judged>>
<1>1. /\ pc = "thinking" /\ UNCHANGED <<obs, ledger, cited, heard, decides, resumes, intact>>
      /\ Shown \/ Compact(visible, plan, pins, visible)
  BY Zenon DEF Prompt
<1>2. Shows(visible, summary)
  <2>1. Shows(whole, summary) /\ Uncut(whole.records)
    BY SummaryShows DEF Types
  <2>2. ~decides => Shows(Shorter(whole, pins), summary)
    <3> HIDE DEF whole
    <3> QED
      BY <2>1, ShorterShows
  <2> HIDE DEF whole
  <2> QED
    BY <2>1, <2>2
<1> HIDE DEF visible
<1>3. CASE Shown
  BY <1>1, <1>2, <1>3 DEF Show
<1>4. CASE FreedNothing(visible, visible)
  BY <1>1, <1>2, <1>4 DEF FreedNothing, Show
<1>5. ASSUME NEW no \in SUBSET Candidates(plan), NEW failed \in BOOLEAN, NEW stored \in BOOLEAN,
             SavesMayFail \/ stored, failed => no = {}, ~decides => failed, NEW sum,
             LET picked == [Keeping(summary, plan) EXCEPT !.omitted = @ \cup Omitted(plan, no, failed, visible.records)]
             IN  sum \in {picked, Replacing(picked, visible, plan)},
             Commit(visible, sum, no, pins, visible, stored)
      PROVE  \/ FreedNothing(visible, visible)
             \/ pc' = "acting" /\ Commits(visible, no, sum, stored)
  <2>1. TakesOut(visible.records, no, sum)
    <3> DEFINE picked == [Keeping(summary, plan) EXCEPT !.omitted = @ \cup Omitted(plan, no, failed, visible.records)]
               all == Replacing(picked, visible, plan)
    <3>1. TakesOut(visible.records, no, picked) /\ TakesOut(visible.records, no, all)
      BY <1>2, <1>5, PickedTakesOut
    <3>2. sum \in {picked, all}
      BY <1>5
    <3> HIDE DEF picked, all
    <3> QED
      BY <3>1, <3>2
  <2> DEFINE kept == WithSaved(visible, sum, stored)
             last == WithSummary(obs, Heard, kept, pins)
             removed == NewlyRemoved(visible.records, sum)
  <2>2. kept \in ASummary /\ kept.is
    <3> HIDE DEF plan, pins
    <3> QED
      BY <1>2, <2>1, WithSavedIs
  <2>3. Shows(last, kept) /\ Uncut(last.records)
    <3> HIDE DEF kept, plan
    <3> QED
      BY <2>2, SummaryShows
  <2>4. \/ FreedNothing(visible, visible)
        \/ /\ summary' = Accounting(kept, summary, last, removed, ledger)
           /\ judged' = judged \cup EventsOf({o \in ToSet(visible.records) : o.id \in no})
           /\ Show(last)
    <3> HIDE DEF plan, pins
    <3> QED
      BY <1>5, Zenon DEF Commit, WithSaved
  <2> SUFFICES ASSUME ~FreedNothing(visible, visible) PROVE pc' = "acting" /\ Commits(visible, no, sum, stored)
    OBVIOUS
  <2>5. /\ summary' = Accounting(kept, summary, last, removed, ledger)
        /\ judged' = judged \cup EventsOf({o \in ToSet(visible.records) : o.id \in no})
        /\ shown' = last /\ pc' = "acting"
    BY <2>4 DEF Show
  <2>6. Shows(shown', kept) /\ Uncut(shown'.records) /\ summary' = Accounting(kept, summary, shown', removed, ledger)
    <3> HIDE DEF kept, last, removed, plan
    <3> QED
      BY <2>3, <2>5
  <2> HIDE DEF last
  <2>7. (SavesMayFail \/ stored) /\ (decides \/ no = {})
    BY <1>5
  <2> QED
    BY <1>2, <2>1, <2>2, <2>5, <2>6, <2>7, Zenon DEF Commits
<1>6. ASSUME Compact(visible, plan, pins, visible)
      PROVE  \/ FreedNothing(visible, visible)
             \/ pc' = "acting" /\ \E no, sum, stored : Commits(visible, no, sum, stored)
  <2> SUFFICES ASSUME ~FreedNothing(visible, visible)
               PROVE  pc' = "acting" /\ \E no, sum, stored : Commits(visible, no, sum, stored)
    OBVIOUS
  <2> DEFINE Picked(no, failed) ==
               [Keeping(summary, plan) EXCEPT !.omitted = @ \cup Omitted(plan, no, failed, visible.records)]
             Fits(no, failed) == PromptSize(WithSummary(obs, Heard, Picked(no, failed), pins)) <= Budget
             Chosen(no, failed) ==
               IF Fits(no, failed) THEN Picked(no, failed) ELSE Replacing(Picked(no, failed), visible, plan)
  <2>1. PICK no \in SUBSET Candidates(plan), failed \in BOOLEAN,
             stored \in (IF SavesMayFail THEN BOOLEAN ELSE {TRUE}) :
          (failed => no = {}) /\ (~decides => failed) /\ Commit(visible, Chosen(no, failed), no, pins, visible, stored)
    <3>1. \E no \in SUBSET Candidates(plan), failed \in BOOLEAN, stored \in (IF SavesMayFail THEN BOOLEAN ELSE {TRUE}) :
            (failed => no = {}) /\ (~decides => failed) /\ Commit(visible, Chosen(no, failed), no, pins, visible, stored)
      <4> HIDE DEF plan, pins
      <4> QED
        BY <1>6, Zenon DEF Compact
    <3> HIDE DEF Chosen, plan, pins
    <3> QED
      BY <3>1, Zenon
  <2>2. stored \in BOOLEAN /\ (SavesMayFail \/ stored)
    BY ContextAssumption
  <2>3. Chosen(no, failed) \in {Picked(no, failed), Replacing(Picked(no, failed), visible, plan)}
    <3> HIDE DEF Fits, Picked, plan
    <3> QED
      OBVIOUS
  <2>4. pc' = "acting" /\ Commits(visible, no, Chosen(no, failed), stored)
    <3> HIDE DEF Chosen, Fits, plan, pins
    <3> QED
      BY <1>5, <2>1, <2>2, <2>3, Zenon DEF plan, pins
  <2> HIDE DEF Chosen
  <2> QED
    BY <2>4
<1> QED
  BY <1>1, <1>3, <1>4, <1>6

-----------------------------------------------------------------------------
(* The types of the state.                                                 *)

LEMMA RetainedIs ==
  ASSUME NEW p, p.records \in Seq(ARecord)
  PROVE  LET r == Retained(p)
             places == {i \in DOMAIN p.records : p.records[i].kind # "summary"}
         IN  /\ r \in Seq(ARecord)
             /\ \A k \in DOMAIN r : \E m \in places : Rank(places, m) = k /\ r[k] = p.records[m]
             /\ \A m \in places : \E k \in DOMAIN r : r[k] = p.records[m]
<1> DEFINE s == p.records
           places == {i \in DOMAIN s : s[i].kind # "summary"}
<1>1. places \in SUBSET (DOMAIN s) /\ s \in Seq(ARecord)
  OBVIOUS
<1>2. Retained(p) = Keep(s, places)
  BY DEF Retained
<1> HIDE DEF places, s
<1>3. LET r == Keep(s, places)
      IN  /\ r \in Seq(ARecord)
          /\ \A k \in DOMAIN r : \E m \in places : Rank(places, m) = k /\ r[k] = s[m]
          /\ \A m \in places : Rank(places, m) \in DOMAIN r /\ r[Rank(places, m)] = s[m]
  BY <1>1, KeepPlaces, Zenon
<1> QED
  BY <1>2, <1>3, Zenon DEF places, s

LEMMA EntriesAreFinite ==
  ASSUME NEW S, NEW s \in Seq(S)
  PROVE  IsFiniteSet(ToSet(s))
<1>1. Len(s) \in Nat /\ DOMAIN s = 1 .. Len(s)
  OBVIOUS
<1>2. IsFiniteSet(1 .. Len(s))
  BY <1>1, FS_Interval
<1> DEFINE f == [i \in 1 .. Len(s) |-> s[i]]
<1>3. f \in Surjection(1 .. Len(s), ToSet(s))
  <2>1. f \in [1 .. Len(s) -> ToSet(s)] /\ \A x \in ToSet(s) : \E i \in 1 .. Len(s) : f[i] = x
    BY <1>1 DEF ToSet
  <2> QED
    BY <2>1, Zenon DEF Surjection
<1> HIDE DEF f
<1> QED
  BY <1>2, <1>3, FS_Surjection, Zenon

\* The calls a commit counts as made and no longer carried.
LeftOut(visible, sum) ==
  {o \in NewlyRemoved(visible.records, sum) :
     /\ Succeeded(o)
     /\ EventOf(ledger, o.id) = 0 \/ EventOf(ledger, o.id) \notin CountedBefore(summary, ledger)
     /\ o.id \notin IdsOf({q \in ToSet(Retained(shown')) : IsTool(q)})}

LEMMA CommitIs ==
  ASSUME Types, NEW visible, NEW no, NEW sum, NEW stored, Commits(visible, no, sum, stored)
  PROVE  /\ summary' \in ASummary /\ summary'.is
         /\ summary'.compacted = sum.compacted /\ summary'.omitted = sum.omitted
         /\ Hidden(summary') = Hidden(sum)
         /\ summary'.saved = Saved(summary.saved, NewlyRemoved(visible.records, sum), stored)
         /\ summary'.retained = Retained(shown')
         /\ summary'.accounted = summary.accounted
              \cup EventsBy(ledger, IdsOf(ToSet(Retained(shown'))) \cup IdsOf(NewlyRemoved(visible.records, sum)))
         /\ IsFiniteSet(LeftOut(visible, sum))
         /\ summary'.tools = summary.tools + Cardinality(LeftOut(visible, sum))
<1> DEFINE kept == WithSaved(visible, sum, stored)
           removed == NewlyRemoved(visible.records, sum)
           events == EventsBy(ledger, IdsOf(ToSet(Retained(shown'))) \cup IdsOf(removed))
           counted == summary.tools + Cardinality(LeftOut(visible, sum))
           retained == Retained(shown')
<1>1. /\ kept \in ASummary /\ kept.is /\ kept.compacted = sum.compacted /\ kept.omitted = sum.omitted
      /\ kept.saved = Saved(summary.saved, removed, stored)
  <2>1. Shows(visible, summary) /\ TakesOut(visible.records, no, sum)
    BY DEF Commits
  <2>2. kept \in ASummary /\ kept.is
    BY <2>1, WithSavedIs, Zenon
  <2>4. kept.compacted = sum.compacted /\ kept.omitted = sum.omitted
    BY <2>1 DEF WithSaved, TakesOut, ASummary
  <2>3. kept.saved = Saved(summary.saved, removed, stored)
    BY <2>1, WithSavedIs, Zenon
  <2> QED
    BY <2>2, <2>3, <2>4
<1>2. summary' = [kept EXCEPT !.retained = retained, !.tools = counted, !.accounted = summary.accounted \cup events]
  <2>1. summary' = Accounting(kept, summary, shown', removed, ledger)
    BY DEF Commits
  <2> HIDE DEF kept
  <2> QED
    BY <2>1 DEF Accounting, LeftOut
<1>3. retained \in Seq(ARecord)
  <2>1. shown'.records \in Seq(ARecord)
    BY DEF Commits, Shows, ReadsAs
  <2> QED
    BY <2>1, RetainedIs
<1>4. IsFiniteSet(LeftOut(visible, sum)) /\ counted \in Nat
  <2>1. IsFiniteSet(ToSet(visible.records))
    BY EntriesAreFinite DEF Commits, Shows, ReadsAs
  <2>2. LeftOut(visible, sum) \in SUBSET ToSet(visible.records)
    BY DEF LeftOut, NewlyRemoved
  <2>3. IsFiniteSet(LeftOut(visible, sum)) /\ Cardinality(LeftOut(visible, sum)) \in Nat
    BY <2>1, <2>2, FS_Subset, FS_CardinalityType, Zenon
  <2>4. summary.tools \in Nat
    BY DEF Types, ASummary
  <2> QED
    BY <2>3, <2>4
<1>5. summary.accounted \cup events \in SUBSET Nat
  <2>1. ASSUME NEW id PROVE EventOf(ledger, id) \in Nat
    BY EventOfIs, RecordsAre DEF Types
  <2>2. summary.accounted \in SUBSET Nat
    BY DEF Types, ASummary
  <2> QED
    BY <2>1, <2>2 DEF EventsBy
<1> DEFINE accounted == summary.accounted \cup events
<1>6. accounted \in SUBSET Nat /\ summary' = [kept EXCEPT !.retained = retained, !.tools = counted, !.accounted = accounted]
  BY <1>2, <1>5
<1> HIDE DEF kept, events, counted, retained, removed, accounted
<1>7. /\ summary' \in ASummary /\ summary'.is = kept.is /\ summary'.compacted = kept.compacted
      /\ summary'.omitted = kept.omitted /\ summary'.saved = kept.saved /\ summary'.retained = retained
      /\ summary'.accounted = accounted /\ summary'.tools = counted
  BY <1>1, <1>3, <1>4, <1>6 DEF ASummary
<1>8. Hidden(summary') = Hidden(sum)
  BY <1>1, <1>7 DEF Hidden
<1> QED
  BY <1>1, <1>4, <1>7, <1>8 DEF events, counted, retained, removed, accounted

LEMMA EventsAreOfLedger ==
  ASSUME Types, NEW ids
  PROVE  EventsBy(ledger, ids) \subseteq DOMAIN ledger
<1>1. ASSUME NEW id PROVE EventOf(ledger, id) \in 0 .. Len(ledger)
  BY EventOfIs DEF Types
<1>2. DOMAIN ledger = 1 .. Len(ledger) /\ Len(ledger) \in Nat
  BY RecordsAre DEF Types
<1> QED
  BY <1>1, <1>2 DEF EventsBy

LEMMA CommitKeepsTypes ==
  ASSUME Types, Prompt, NEW visible, NEW no, NEW sum, NEW stored, Commits(visible, no, sum, stored)
  PROVE  Types'
<1>1. UNCHANGED <<obs, ledger, cited, heard, decides, resumes, intact>> /\ pc' = "acting"
  BY PromptCases
<1>2. /\ summary' \in ASummary /\ summary'.is /\ summary'.retained = Retained(shown')
      /\ summary'.accounted = summary.accounted
              \cup EventsBy(ledger, IdsOf(ToSet(Retained(shown'))) \cup IdsOf(NewlyRemoved(visible.records, sum)))
  BY CommitIs
<1>3. summary'.accounted \subseteq DOMAIN ledger
  BY <1>2, EventsAreOfLedger DEF Types
<1> DEFINE p == shown'.records
           r == Retained(shown')
<1>4. p \in Seq(ARecord) /\ \A k \in DOMAIN p : p[k].kind = "summary" \/ \E i \in DOMAIN obs : p[k].event = obs[i].event
  BY DEF Commits, Shows, ReadsAs, LeftOf
<1>5. \A k \in DOMAIN r : \E m \in DOMAIN p : r[k] = p[m] /\ p[m].kind # "summary"
  <2> DEFINE places == {i \in DOMAIN p : p[i].kind # "summary"}
  <2>1. \A k \in DOMAIN r : \E m \in places : r[k] = p[m]
    BY <1>4, RetainedIs
  <2> HIDE DEF r, p
  <2> QED
    BY <2>1
<1> HIDE DEF r, p
<1>6. \A k \in DOMAIN r : r[k].kind # "summary" /\ r[k].event \in 0 .. Len(ledger) /\ ~r[k].cut
  <2>1. Uncut(p)
    BY DEF Commits, p
  <2> QED
    BY <1>4, <1>5, <2>1 DEF Types, InMemory, Uncut
<1>7. decides' \/ judged' = {}
  <2>1. (decides \/ no = {}) /\ judged' = judged \cup EventsOf({o \in ToSet(visible.records) : o.id \in no})
    BY DEF Commits
  <2>2. no = {} => judged' = judged
    BY <2>1 DEF EventsOf
  <2> QED
    BY <1>1, <2>1, <2>2 DEF Types
<1> QED
  BY <1>1, <1>2, <1>3, <1>6, <1>7 DEF Types, InMemory, r

LEMMA AppendIs ==
  ASSUME NEW s \in Seq(ARecord), NEW o \in ARecord
  PROVE  LET t == Append(s, o)
         IN  /\ t \in Seq(ARecord) /\ Len(t) = Len(s) + 1 /\ DOMAIN t = 1 .. Len(s) + 1
             /\ Len(s) \in Nat /\ DOMAIN s = 1 .. Len(s) /\ DOMAIN s \subseteq DOMAIN t
             /\ \A i \in DOMAIN s : t[i] = s[i]
             /\ t[Len(s) + 1] = o /\ Len(s) + 1 \in DOMAIN t /\ Len(s) + 1 \notin DOMAIN s
             /\ \A i \in DOMAIN t : i \in DOMAIN s \/ i = Len(s) + 1
<1>1. Len(s) \in Nat /\ DOMAIN s = 1 .. Len(s)
  OBVIOUS
<1>2. Append(s, o) \in Seq(ARecord) /\ Len(Append(s, o)) = Len(s) + 1 /\ DOMAIN Append(s, o) = 1 .. Len(s) + 1
  BY <1>1
<1>3. \A i \in DOMAIN s : Append(s, o)[i] = s[i]
  BY <1>1
<1>4. Append(s, o)[Len(s) + 1] = o
  BY <1>1
<1>5. /\ DOMAIN s \subseteq 1 .. Len(s) + 1 /\ Len(s) + 1 \in 1 .. Len(s) + 1 /\ Len(s) + 1 \notin DOMAIN s
      /\ \A i \in 1 .. Len(s) + 1 : i \in DOMAIN s \/ i = Len(s) + 1
  BY <1>1
<1> QED
  BY <1>1, <1>2, <1>3, <1>4, <1>5

\* What a call writes, and what is remembered of it.
Calls(o, q) ==
  /\ o \in ARecord /\ q \in ARecord
  /\ o.id = NextID(obs) /\ o.event = Len(ledger) + 1 /\ IsTool(o)
  /\ q.id = o.id /\ q.event = o.event /\ q.kind = o.kind /\ ~o.cut /\ ~q.cut
  /\ ledger' = Append(ledger, o) /\ obs' = Append(obs, q)

LEMMA CallIs ==
  ASSUME Types, Call
  PROVE  /\ \E o, q : Calls(o, q)
         /\ pc' = "thinking" /\ UNCHANGED <<cited, heard, summary, judged, resumes, decides>>
         /\ intact' = (intact /\ NextID(obs) \notin NumbersTaken)
<1>1. PICK kind \in CallKinds, talks \in BOOLEAN, text \in ({o.text : o \in ToSet(obs)} \ {0}) \cup {Len(ledger) + 1} :
        LET o == Record(NextID(obs), Len(ledger) + 1, kind, talks, IF kind = "work" THEN text ELSE 0, 0)
        IN  /\ ledger' = Append(ledger, o)
            /\ obs' = Append(obs, [o EXCEPT !.repeats = IF kind = "work" THEN RepeatOf(obs, o.text) ELSE 0])
  BY Zenon DEF Call
<1> DEFINE size == IF kind = "work" THEN text ELSE 0
           o == Record(NextID(obs), Len(ledger) + 1, kind, talks, size, 0)
           again == IF kind = "work" THEN RepeatOf(obs, o.text) ELSE 0
           q == [o EXCEPT !.repeats = again]
<1>2. obs \in Seq(ARecord) /\ ledger \in Seq(ARecord) /\ Len(ledger) \in Nat
  BY DEF Types
<1>3. NextID(obs) \in Nat
  BY <1>2, NextIDIsNew
<1>4. kind \in Kinds /\ kind \in ToolKinds
  BY ContextAssumption DEF Kinds, ToolKinds
<1>5. size \in Nat
  <2>1. ASSUME NEW r \in ToSet(obs) PROVE r.text \in Nat
    <3>1. r \in ARecord
      BY <1>2, RecordsAre DEF ToSet
    <3> QED
      BY <3>1 DEF ARecord
  <2> QED
    BY <1>2, <2>1
<1> HIDE DEF size
<1>6. o \in ARecord /\ o.id = NextID(obs) /\ o.event = Len(ledger) + 1 /\ o.kind = kind /\ ~o.cut
  <2>1. Len(ledger) + 1 \in Nat /\ 0 \in Nat
    BY <1>2
  <2> QED
    BY <1>3, <1>4, <1>5, <2>1 DEF Record, ARecord
<1>7. again \in Nat
  <2> DEFINE same == {i \in DOMAIN obs : obs[i].text = o.text}
  <2>1. \A i \in DOMAIN obs : obs[i].id \in Nat
    BY <1>2, RecordsAre
  <2>2. same # {} => Min(same) \in DOMAIN obs
    <3> SUFFICES ASSUME same # {} PROVE Min(same) \in DOMAIN obs
      OBVIOUS
    <3>1. same \subseteq DOMAIN obs /\ same \subseteq Nat
      BY <1>2, RecordsAre
    <3> HIDE DEF same
    <3>2. PICK n \in same : \A m \in same : n <= m
      BY <3>1, LeastExists, Zenon
    <3>3. Min(same) \in same
      BY <3>2, Zenon DEF Min
    <3> QED
      BY <3>1, <3>3
  <2>3. RepeatOf(obs, o.text) = IF same = {} THEN 0 ELSE obs[Min(same)].id
    BY DEF RepeatOf
  <2> HIDE DEF same, o
  <2> QED
    BY <2>1, <2>2, <2>3
<1>8. ledger' = Append(ledger, o) /\ obs' = Append(obs, q)
  BY <1>1 DEF size
<1> HIDE DEF o, again
<1>9. q \in ARecord /\ q.id = o.id /\ q.event = o.event /\ q.kind = o.kind /\ ~q.cut
  BY <1>6, <1>7 DEF ARecord
<1> HIDE DEF q
<1>10. Calls(o, q)
  BY <1>4, <1>6, <1>8, <1>9 DEF Calls, IsTool
<1> QED
  BY <1>10, Zenon DEF Call

LEMMA CallKeepsTypes ==
  ASSUME Types, Call
  PROVE  Types'
<1>1. PICK o, q : Calls(o, q)
  BY CallIs
<1>2. pc' = "thinking" /\ UNCHANGED <<cited, heard, summary, judged, resumes, decides>>
  BY CallIs
<1>3. obs \in Seq(ARecord) /\ ledger \in Seq(ARecord)
  BY DEF Types
<1>4. o \in ARecord /\ q \in ARecord /\ ledger' = Append(ledger, o) /\ obs' = Append(obs, q)
      /\ o.event = Len(ledger) + 1 /\ q.event = o.event /\ q.kind = o.kind /\ IsTool(o) /\ ~o.cut /\ ~q.cut
  BY <1>1 DEF Calls
<1>5. /\ ledger' \in Seq(ARecord) /\ Len(ledger') = Len(ledger) + 1 /\ DOMAIN ledger' = 1 .. Len(ledger) + 1
      /\ Len(ledger) \in Nat /\ DOMAIN ledger = 1 .. Len(ledger) /\ DOMAIN ledger \subseteq DOMAIN ledger'
      /\ \A i \in DOMAIN ledger : ledger'[i] = ledger[i]
      /\ ledger'[Len(ledger) + 1] = o
      /\ \A i \in DOMAIN ledger' : i \in DOMAIN ledger \/ i = Len(ledger) + 1
  BY <1>3, <1>4, AppendIs
<1>6. /\ obs' \in Seq(ARecord) /\ \A i \in DOMAIN obs : obs'[i] = obs[i]
      /\ obs'[Len(obs) + 1] = q /\ \A i \in DOMAIN obs' : i \in DOMAIN obs \/ i = Len(obs) + 1
  BY <1>3, <1>4, AppendIs
<1>7. q.kind # "summary" /\ q.event \in 0 .. Len(ledger') /\ ~q.cut
  BY <1>4, <1>5 DEF IsTool, ToolKinds
<1>8. InMemory(obs)'
  BY <1>5, <1>6, <1>7 DEF Types, InMemory
<1>9. InMemory(summary.retained)'
  BY <1>2, <1>5 DEF Types, InMemory
<1>10. \A e \in DOMAIN ledger' : ledger'[e].event = e /\ IsTool(ledger'[e]) /\ ~ledger'[e].cut
  BY <1>4, <1>5 DEF Types
<1> QED
  BY <1>2, <1>5, <1>6, <1>8, <1>9, <1>10 DEF Types

\* What is remembered of what no tool wrote.
Says(q) ==
  /\ q \in ARecord /\ q.id = NextID(obs) /\ q.event = 0 /\ q.kind = "said" /\ ~q.talks /\ ~q.cut
  /\ obs' = Append(obs, q)

LEMMA SayIs ==
  ASSUME Types, Say
  PROVE  /\ \E q : Says(q)
         /\ pc' = "thinking" /\ UNCHANGED <<ledger, cited, heard, summary, judged, resumes, decides>>
         /\ intact' = (intact /\ NextID(obs) \notin NumbersTaken)
<1> DEFINE q == Record(NextID(obs), 0, "said", FALSE, 0, 0)
<1>1. NextID(obs) \in Nat
  BY NextIDIsNew DEF Types
<1>2. q \in ARecord /\ q.id = NextID(obs) /\ q.event = 0 /\ q.kind = "said" /\ ~q.talks /\ ~q.cut
  BY <1>1 DEF Record, ARecord, Kinds
<1>3. Says(q)
  <2>1. obs' = Append(obs, q)
    BY DEF Say
  <2> HIDE DEF q
  <2> QED
    BY <1>2, <2>1 DEF Says
<1> HIDE DEF q
<1> QED
  BY <1>3, Zenon DEF Say

LEMMA SayKeepsTypes ==
  ASSUME Types, Say
  PROVE  Types'
<1>1. PICK q : Says(q)
  BY SayIs
<1>2. pc' = "thinking" /\ UNCHANGED <<ledger, cited, heard, summary, judged, resumes, decides>>
  BY SayIs
<1>3. obs \in Seq(ARecord) /\ q \in ARecord /\ obs' = Append(obs, q) /\ q.event = 0 /\ q.kind = "said" /\ ~q.cut
  BY <1>1 DEF Types, Says
<1>4. /\ obs' \in Seq(ARecord) /\ \A i \in DOMAIN obs : obs'[i] = obs[i]
      /\ obs'[Len(obs) + 1] = q /\ \A i \in DOMAIN obs' : i \in DOMAIN obs \/ i = Len(obs) + 1
  BY <1>3, AppendIs
<1>5. Len(ledger) \in Nat
  BY DEF Types
<1>6. InMemory(obs)'
  BY <1>2, <1>3, <1>4, <1>5 DEF Types, InMemory
<1> QED
  BY <1>2, <1>4, <1>6 DEF Types, InMemory

LEMMA BothIs ==
  ASSUME NEW s \in Seq(ARecord), NEW t \in Seq(ARecord)
  PROVE  LET u == s \o t
         IN  /\ u \in Seq(ARecord) /\ Len(u) = Len(s) + Len(t) /\ DOMAIN u = 1 .. Len(s) + Len(t)
             /\ \A i \in DOMAIN s : i \in DOMAIN u /\ u[i] = s[i]
             /\ \A k \in DOMAIN t : Len(s) + k \in DOMAIN u /\ u[Len(s) + k] = t[k]
             /\ \A i \in DOMAIN u : i \in DOMAIN s \/ \E k \in DOMAIN t : i = Len(s) + k
<1> DEFINE u == s \o t
<1>1. Len(s) \in Nat /\ DOMAIN s = 1 .. Len(s) /\ Len(t) \in Nat /\ DOMAIN t = 1 .. Len(t)
  OBVIOUS
<1>2. u \in Seq(ARecord) /\ Len(u) = Len(s) + Len(t) /\ DOMAIN u = 1 .. Len(s) + Len(t)
  BY <1>1
<1>3. \A i \in DOMAIN s : i \in DOMAIN u /\ u[i] = s[i]
  BY <1>1
<1>4. ASSUME NEW k \in DOMAIN t PROVE Len(s) + k \in DOMAIN u /\ u[Len(s) + k] = t[k]
  <2>1. Len(s) + k \in DOMAIN u /\ ~(Len(s) + k <= Len(s)) /\ Len(s) + k - Len(s) = k
    BY <1>1, <1>2
  <2> QED
    BY <1>1, <2>1
<1>5. ASSUME NEW i \in DOMAIN u, i \notin DOMAIN s PROVE \E k \in DOMAIN t : i = Len(s) + k
  <2>1. i - Len(s) \in DOMAIN t /\ i = Len(s) + (i - Len(s))
    BY <1>1, <1>2, <1>5
  <2> QED
    BY <2>1
<1> HIDE DEF u
<1> QED
  BY <1>2, <1>3, <1>4, <1>5 DEF u

LEMMA FromLedgerIs ==
  ASSUME Types
  PROVE  LET all == FromLedger(summary, ledger)
             places == DOMAIN ledger \ summary.accounted
         IN  /\ all \in Seq(ARecord)
             /\ \A i \in DOMAIN all :
                  \/ i \in DOMAIN summary.retained /\ all[i] = summary.retained[i]
                  \/ i \notin DOMAIN summary.retained
                     /\ \E e \in places : i = Len(summary.retained) + Rank(places, e) /\ all[i] = ledger[e]
             /\ \A j \in DOMAIN summary.retained : j \in DOMAIN all /\ all[j] = summary.retained[j]
             /\ \A e \in places : \E i \in DOMAIN all : all[i] = ledger[e]
<1> DEFINE places == DOMAIN ledger \ summary.accounted
           s == summary.retained
           t == Keep(ledger, places)
           all == s \o t
<1>1. s \in Seq(ARecord) /\ ledger \in Seq(ARecord) /\ places \in SUBSET (DOMAIN ledger)
  BY DEF Types, ASummary
<1>2. FromLedger(summary, ledger) = all
  <2>1. {i \in DOMAIN ledger : ledger[i].event \notin summary.accounted} = places
    BY DEF Types
  <2> QED
    BY <2>1, Zenon DEF FromLedger
<1> HIDE DEF s, places
<1>3. /\ t \in Seq(ARecord)
      /\ \A e \in places : Rank(places, e) \in DOMAIN t /\ t[Rank(places, e)] = ledger[e]
      /\ \A k \in DOMAIN t : \E e \in places : Rank(places, e) = k /\ t[k] = ledger[e]
  BY <1>1, KeepPlaces, Zenon
<1> HIDE DEF t
<1>4. /\ all \in Seq(ARecord) /\ Len(all) = Len(s) + Len(t) /\ DOMAIN all = 1 .. Len(s) + Len(t)
      /\ \A i \in DOMAIN s : i \in DOMAIN all /\ all[i] = s[i]
      /\ \A k \in DOMAIN t : Len(s) + k \in DOMAIN all /\ all[Len(s) + k] = t[k]
      /\ \A i \in DOMAIN all : i \in DOMAIN s \/ \E k \in DOMAIN t : i = Len(s) + k
  BY <1>1, <1>3, BothIs
<1> HIDE DEF all
<1>5. ASSUME NEW i \in DOMAIN all
      PROVE  \/ i \in DOMAIN s /\ all[i] = s[i]
             \/ i \notin DOMAIN s /\ \E e \in places : i = Len(s) + Rank(places, e) /\ all[i] = ledger[e]
  <2>1. CASE i \in DOMAIN s
    BY <1>4, <2>1
  <2>2. CASE i \notin DOMAIN s
    <3>1. PICK k \in DOMAIN t : i = Len(s) + k
      BY <1>4, <2>2
    <3>2. PICK e \in places : Rank(places, e) = k /\ t[k] = ledger[e]
      BY <1>3
    <3> QED
      BY <1>4, <2>2, <3>1, <3>2
  <2> QED
    BY <2>1, <2>2
<1>6. ASSUME NEW e \in places PROVE \E i \in DOMAIN all : all[i] = ledger[e]
  BY <1>3, <1>4
<1> QED
  BY <1>2, <1>4, <1>5, <1>6, Zenon DEF s, places

\* What a resume that starts nothing over brings back.
LEMMA RestoredIs ==
  ASSUME Types, NEW how
  PROVE  LET all == FromLedger(summary, ledger)
             s == Restored(how)
         IN  /\ s \in Seq(ARecord)
             /\ \A i, j \in DOMAIN s :
                  \E m, n \in DOMAIN all : s[i] = all[m] /\ s[j] = all[n] /\ (i # j => m # n)
             /\ \A m \in DOMAIN all : all[m].kind # "fail" => \E i \in DOMAIN s : s[i] = all[m]
<1> DEFINE all == FromLedger(summary, ledger)
           places == {i \in DOMAIN all : all[i].kind # "fail"}
<1>1. all \in Seq(ARecord)
  BY FromLedgerIs
<1>2. Restored(how) = all \/ Restored(how) = Keep(all, places)
  BY DEF Restored
<1> HIDE DEF all
<1>3. CASE Restored(how) = all
  BY <1>1, <1>3, Zenon DEF all
<1>4. CASE Restored(how) = Keep(all, places)
  <2> DEFINE s == Keep(all, places)
  <2>1. places \in SUBSET (DOMAIN all)
    OBVIOUS
  <2>2. \A m \in DOMAIN all : all[m].kind # "fail" => m \in places
    OBVIOUS
  <2> HIDE DEF places
  <2>3. /\ s \in Seq(ARecord)
        /\ \A m \in places : Rank(places, m) \in DOMAIN s /\ s[Rank(places, m)] = all[m]
        /\ \A k \in DOMAIN s : \E m \in places : Rank(places, m) = k /\ s[k] = all[m]
    BY <1>1, <2>1, KeepPlaces, Zenon
  <2> HIDE DEF s
  <2>4. ASSUME NEW i \in DOMAIN s, NEW j \in DOMAIN s
        PROVE  \E m, n \in DOMAIN all : s[i] = all[m] /\ s[j] = all[n] /\ (i # j => m # n)
    <3>1. PICK m \in places : Rank(places, m) = i /\ s[i] = all[m]
      BY <2>3
    <3>2. PICK n \in places : Rank(places, n) = j /\ s[j] = all[n]
      BY <2>3
    <3>3. m \in DOMAIN all /\ n \in DOMAIN all /\ (i # j => m # n)
      BY <2>1, <3>1, <3>2
    <3> QED
      BY <3>1, <3>2, <3>3, Zenon
  <2>5. \A m \in DOMAIN all : all[m].kind # "fail" => \E i \in DOMAIN s : s[i] = all[m]
    BY <2>2, <2>3, Zenon
  <2>6. s = Restored(how)
    BY <1>4 DEF s
  <2>7. Restored(how) \in Seq(ARecord)
    BY <2>3, <2>6
  <2>8. \A i, j \in DOMAIN Restored(how) :
          \E m, n \in DOMAIN all : Restored(how)[i] = all[m] /\ Restored(how)[j] = all[n] /\ (i # j => m # n)
    BY <2>4, <2>6
  <2>9. \A m \in DOMAIN all : all[m].kind # "fail" => \E i \in DOMAIN Restored(how) : Restored(how)[i] = all[m]
    BY <2>5, <2>6
  <2> QED
    BY <2>7, <2>8, <2>9, Zenon DEF all
<1> QED
  BY <1>2, <1>3, <1>4

LEMMA ResumeKeepsTypes ==
  ASSUME Types, Resume
  PROVE  Types'
<1>1. /\ pc' = "thinking" /\ UNCHANGED <<ledger, cited, summary, judged, decides>> /\ resumes' = resumes + 1
      /\ heard' \in {heard, IF heard < Len(Talk) THEN heard + 1 ELSE heard}
  BY DEF Resume
<1>2. PICK how \in Resumes : obs' = IF how = "steered" THEN StartedOver ELSE Restored(how)
  BY Zenon DEF Resume
<1>3. heard' \in 1 .. Len(Talk) /\ resumes' \in Nat
  BY <1>1, ContextAssumption DEF Types
<1>4. CASE obs' = Restored(how)
  <2> DEFINE all == FromLedger(summary, ledger)
             places == DOMAIN ledger \ summary.accounted
  <2>1. /\ all \in Seq(ARecord)
        /\ \A i \in DOMAIN all :
             \/ i \in DOMAIN summary.retained /\ all[i] = summary.retained[i]
             \/ \E e \in places : all[i] = ledger[e]
    BY FromLedgerIs
  <2>2. ASSUME NEW i \in DOMAIN all PROVE all[i].kind # "summary" /\ all[i].event \in 0 .. Len(ledger) /\ ~all[i].cut
    <3>1. CASE i \in DOMAIN summary.retained /\ all[i] = summary.retained[i]
      BY <3>1 DEF Types, InMemory
    <3>2. ASSUME NEW e \in places, all[i] = ledger[e]
          PROVE  all[i].kind # "summary" /\ all[i].event \in 0 .. Len(ledger) /\ ~all[i].cut
      <4>1. ledger[e].event = e /\ IsTool(ledger[e]) /\ ~ledger[e].cut /\ e \in 1 .. Len(ledger) /\ Len(ledger) \in Nat
        BY RecordsAre DEF Types
      <4> QED
        BY <3>2, <4>1 DEF IsTool, ToolKinds
    <3> QED
      BY <2>1, <3>1, <3>2
  <2> HIDE DEF all
  <2>3. obs' \in Seq(ARecord) /\ \A i \in DOMAIN obs' : \E m \in DOMAIN all : obs'[i] = all[m]
    BY <1>4, RestoredIs DEF all
  <2>4. InMemory(obs)'
    BY <1>1, <2>2, <2>3 DEF InMemory
  <2> QED
    BY <1>1, <1>3, <2>3, <2>4 DEF Types, InMemory
<1>5. CASE obs' = StartedOver
  <2> DEFINE places == {i \in DOMAIN ledger : ledger[i].kind = "file"}
             durable == Keep(ledger, places)
             q == Record(Len(durable) + 1, 0, "said", FALSE, 0, 0)
  <2>1. durable \in Seq(ARecord) /\ \A k \in DOMAIN durable : \E e \in DOMAIN ledger : durable[k] = ledger[e]
    <3>1. places \in SUBSET (DOMAIN ledger) /\ ledger \in Seq(ARecord)
      BY DEF Types
    <3> HIDE DEF places
    <3> QED
      BY <3>1, KeepPlaces, Zenon
  <2>2. obs' = Append(durable, q)
    BY <1>5 DEF StartedOver
  <2> HIDE DEF durable
  <2>3. q \in ARecord /\ q.kind = "said" /\ q.event = 0 /\ ~q.cut
    BY <2>1 DEF Record, ARecord, Kinds
  <2> HIDE DEF q
  <2>4. /\ obs' \in Seq(ARecord) /\ \A i \in DOMAIN durable : obs'[i] = durable[i]
        /\ obs'[Len(durable) + 1] = q /\ \A i \in DOMAIN obs' : i \in DOMAIN durable \/ i = Len(durable) + 1
    BY <2>1, <2>2, <2>3, AppendIs
  <2>5. ASSUME NEW e \in DOMAIN ledger
        PROVE  ledger[e].kind # "summary" /\ ledger[e].event \in 0 .. Len(ledger) /\ ~ledger[e].cut
    <3>1. ledger[e].event = e /\ IsTool(ledger[e]) /\ ~ledger[e].cut /\ e \in 1 .. Len(ledger) /\ Len(ledger) \in Nat
      BY RecordsAre DEF Types
    <3> QED
      BY <3>1 DEF IsTool, ToolKinds
  <2>6. Len(ledger) \in Nat
    BY DEF Types
  <2>7. InMemory(obs)'
    BY <1>1, <2>1, <2>3, <2>4, <2>5, <2>6 DEF InMemory
  <2> QED
    BY <1>1, <1>3, <2>4, <2>7 DEF Types, InMemory
<1> QED
  BY <1>2, <1>4, <1>5

LEMMA TypesStep == Types /\ [Next]_vars => Types'
<1> SUFFICES ASSUME Types, [Next]_vars PROVE Types'
  OBVIOUS
<1>1. CASE Prompt
  <2>1. UNCHANGED <<obs, ledger, cited, heard, decides, resumes, intact>> /\ pc' = "acting"
    BY <1>1, PromptCases
  <2>2. CASE UNCHANGED <<summary, judged>>
    BY <2>1, <2>2 DEF Types, InMemory
  <2>3. CASE \E visible, no, sum, stored : Commits(visible, no, sum, stored)
    BY <1>1, <2>3, CommitKeepsTypes
  <2> QED
    BY <1>1, <2>2, <2>3, PromptCases
<1>2. CASE Call
  BY <1>2, CallKeepsTypes
<1>3. CASE Say
  BY <1>3, SayKeepsTypes
<1>4. CASE Cite
  BY <1>4 DEF Cite, Types, InMemory
<1>5. CASE Resume
  BY <1>5, ResumeKeepsTypes
<1>6. CASE UNCHANGED vars
  BY <1>6 DEF vars, Types, InMemory
<1> QED
  BY <1>1, <1>2, <1>3, <1>4, <1>5, <1>6 DEF Next

LEMMA TypesInit == Init => Types
<1> SUFFICES ASSUME Init PROVE Types
  OBVIOUS
<1>1. /\ obs = <<>> /\ ledger = <<>> /\ summary = NoSummary /\ heard = Len(Talk) - 1 /\ resumes = 0
      /\ pc = "thinking" /\ judged = {}
  BY DEF Init
<1>2. <<>> \in Seq(ARecord) /\ DOMAIN <<>> = {} /\ <<>> \in Seq(ToSet(Talk))
  OBVIOUS
<1>3. /\ NoSummary \in ASummary /\ NoSummary.retained = <<>> /\ NoSummary.accounted = {}
      /\ NoSummary.compacted = {} /\ NoSummary.omitted = {}
  BY <1>2 DEF NoSummary, ASummary
<1>4. heard \in 1 .. Len(Talk)
  BY <1>1, ContextAssumption
<1>5. Hidden(summary) = {}
  BY <1>1, <1>3 DEF Hidden
<1> QED
  BY <1>1, <1>2, <1>3, <1>4, <1>5 DEF Types, InMemory

-----------------------------------------------------------------------------
(* What holds of an intact task.                                           *)

\* Numbers tell records apart, and what is in memory is what the ledger holds of it.
NumbersApart == \A e, f \in DOMAIN ledger : ledger[e].id = ledger[f].id => e = f
Apart(s) == \A i, j \in DOMAIN s : s[i].id = s[j].id => i = j
IsOfTheTask(o) ==
  /\ IsTool(o) => o.event \in DOMAIN ledger /\ o.id = ledger[o.event].id /\ o.kind = ledger[o.event].kind
  /\ o.kind = "voice" => o.event \in summary.accounted /\ o.id = ledger[o.event].id
  /\ o.kind = "said" => o.event = 0 /\ o.id \notin IdsOf(ToSet(ledger)) /\ ~o.talks
Known(s) == \A i \in DOMAIN s : IsOfTheTask(s[i])

\* What is hidden is of the ledger, and accounted for.
HiddenAccounted ==
  /\ summary.omitted \subseteq IdsOf(ToSet(ledger))
  /\ \A e \in DOMAIN ledger : ledger[e].id \in Hidden(summary) => e \in summary.accounted

\* What is accounted for and not hidden is retained.
AccountedKept ==
  \A i \in DOMAIN obs :
    IsTool(obs[i]) /\ obs[i].event \in summary.accounted /\ obs[i].id \notin Hidden(summary)
      => Holds(summary.retained, obs[i].event)

\* What is retained is accounted for, not hidden, and, failures apart, in memory.
RetainedHeld ==
  \A j \in DOMAIN summary.retained :
    LET o == summary.retained[j]
    IN  /\ IsTool(o) => /\ o.event \in summary.accounted /\ o.id \notin Hidden(summary)
                        /\ o.kind # "fail" => Holds(obs, o.event)
        /\ o.kind = "said" => o.id \in IdsOf(ToSet(obs))

\* What is not accounted for is, failures apart, in memory.
UnaccountedHeld ==
  \A e \in DOMAIN ledger \ summary.accounted : ledger[e].kind # "fail" => Holds(obs, e)

\* A hidden record is old, not pinned, judged unrelated and, if the store works, saved.
HiddenMayGo ==
  \A i \in DOMAIN obs :
    IsTool(obs[i]) /\ obs[i].id \in Hidden(summary) =>
      /\ obs[i].id \notin Pinned(obs, cited) /\ i <= Len(obs) - Recent
      /\ obs[i].event \in judged
      /\ SavesMayFail \/ <<obs[i].id, obs[i].event>> \in summary.saved

\* A record of a prompt is one of memory, cut only where it may be.
Stands(o) ==
  \E i \in DOMAIN obs :
    /\ IsTool(obs[i]) /\ obs[i].id = o.id /\ obs[i].event = o.event
    /\ o.cut => ~decides /\ i < Len(obs) /\ o.id \notin Pinned(obs, cited)

\* The prompt carries the records that are not hidden, and no other.
ShownIs ==
  pc = "acting" =>
    /\ \A i \in DOMAIN obs :
         IsTool(obs[i]) /\ obs[i].id \notin Hidden(summary) =>
           \E o \in Carried(shown) : o.id = obs[i].id /\ o.event = obs[i].event
    /\ \A o \in Carried(shown) : o.id \notin Hidden(summary) /\ Stands(o)
    /\ shown.messages[Len(shown.messages)] = Talk[heard]

\* A call is in memory and not hidden, or it was judged unrelated and is no evidence; a
\* restart may have dropped a failure.
OpenOrJudged ==
  \A e \in DOMAIN ledger :
    \/ ledger[e].kind = "fail" /\ resumes > 0
    \/ Holds(obs, e) /\ ledger[e].id \notin Hidden(summary)
    \/ e \in judged /\ ledger[e].id \notin cited

\* The calls the checkpoint counts are those it accounts for and no longer retains.
Gone == {e \in summary.accounted : Succeeded(ledger[e]) /\ ~Holds(summary.retained, e)}
GoneCounted == summary.tools = Cardinality(Gone)

Sound ==
  /\ NumbersApart
  /\ Known(obs) /\ Apart(obs) /\ Known(summary.retained) /\ Apart(summary.retained)
  /\ HiddenAccounted /\ AccountedKept /\ RetainedHeld /\ UnaccountedHeld /\ HiddenMayGo
  /\ OpenOrJudged /\ ShownIs /\ GoneCounted

IInv == Types /\ Unresumed /\ (intact => Sound)

-----------------------------------------------------------------------------
(* Records that are added.                                                 *)

\* A record adds no more than itself to what is pinned.
LEMMA PinnedAppend ==
  ASSUME NEW s \in Seq(ARecord), NEW o \in ARecord, NEW cites
  PROVE  Pinned(Append(s, o), cites) \subseteq Pinned(s, cites) \cup {o.id}
<1> DEFINE t == Append(s, o)
           settling == {"work", "file", "fail"}
           owed == {i \in DOMAIN s : s[i].kind = "fail" /\ \A j \in i + 1 .. Len(s) : s[j].kind \notin settling}
           more == {i \in DOMAIN t : t[i].kind = "fail" /\ \A j \in i + 1 .. Len(t) : t[j].kind \notin settling}
<1>1. /\ Len(t) = Len(s) + 1 /\ DOMAIN t = 1 .. Len(s) + 1
      /\ Len(s) \in Nat /\ DOMAIN s = 1 .. Len(s)
      /\ \A i \in DOMAIN s : t[i] = s[i]
      /\ t[Len(s) + 1] = o /\ \A i \in DOMAIN t : i \in DOMAIN s \/ i = Len(s) + 1
  BY AppendIs
<1>2. OwedAt(s) = (IF owed = {} THEN 0 ELSE Max(owed)) /\ OwedAt(t) = (IF more = {} THEN 0 ELSE Max(more))
  BY DEF OwedAt
<1> HIDE DEF t
<1>3. owed # {} => Max(owed) \in owed /\ \A j \in owed : j <= Max(owed)
  <2>1. owed \in SUBSET (1 .. Len(s))
    BY <1>1
  <2> HIDE DEF owed
  <2> QED
    BY <1>1, <2>1, MaxIsLast, Zenon
<1>4. more # {} => Max(more) \in more
  <2>1. more \in SUBSET (1 .. Len(t)) /\ Len(t) \in Nat
    BY <1>1
  <2> HIDE DEF more
  <2> QED
    BY <2>1, MaxIsLast, Zenon
<1> DEFINE M == OwedAt(s)
           N == OwedAt(t)
<1>5. N # 0 => N = Len(s) + 1 \/ (N = M /\ M \in DOMAIN s)
  <2> SUFFICES ASSUME N # 0, N # Len(s) + 1 PROVE N = M /\ M \in DOMAIN s
    OBVIOUS
  <2>1. N \in more
    BY <1>2, <1>4
  <2>2. N \in DOMAIN s /\ N \in Nat
    BY <1>1, <2>1
  <2>3. N \in owed
    <3>1. s[N].kind = "fail"
      BY <1>1, <2>1, <2>2
    <3>2. ASSUME NEW j \in N + 1 .. Len(s) PROVE s[j].kind \notin settling
      <4>1. j \in N + 1 .. Len(t) /\ j \in DOMAIN s
        BY <1>1, <2>2
      <4>2. t[j].kind \notin settling /\ t[j] = s[j]
        BY <1>1, <2>1, <4>1
      <4> QED
        BY <4>2
    <3> QED
      BY <2>2, <3>1, <3>2
  <2>4. M \in owed /\ N <= M
    BY <1>2, <1>3, <2>3
  <2>5. M \in DOMAIN s /\ s[M].kind = "fail" /\ M \in Nat
    BY <1>1, <2>4
  <2>6. ~(N < M)
    <3> SUFFICES ASSUME N < M PROVE FALSE
      OBVIOUS
    <3>1. M \in N + 1 .. Len(t)
      BY <1>1, <2>2, <2>5
    <3>2. t[M].kind \notin settling /\ t[M] = s[M]
      BY <1>1, <2>1, <2>5, <3>1
    <3> QED
      BY <2>5, <3>2
  <2> QED
    BY <2>2, <2>4, <2>5, <2>6
<1>6. Pinned(s, cites) = cites \cup {s[i].id : i \in {j \in DOMAIN s : s[j].kind = "file"}}
                           \cup (IF M = 0 THEN {} ELSE {s[i].id : i \in M .. Len(s)})
  BY DEF Pinned
<1>7. Pinned(t, cites) = cites \cup {t[i].id : i \in {j \in DOMAIN t : t[j].kind = "file"}}
                           \cup (IF N = 0 THEN {} ELSE {t[i].id : i \in N .. Len(t)})
  BY DEF Pinned
<1> HIDE DEF M, N
<1>8. ASSUME NEW i \in DOMAIN t, t[i].kind = "file" PROVE t[i].id \in Pinned(s, cites) \cup {o.id}
  <2>1. CASE i \in DOMAIN s
    <3>1. t[i] = s[i]
      BY <1>1, <2>1
    <3> QED
      BY <1>6, <1>8, <2>1, <3>1
  <2>2. CASE i = Len(s) + 1
    BY <1>1, <2>2
  <2> QED
    BY <1>1, <2>1, <2>2
<1>9. ASSUME N # 0, NEW i \in N .. Len(t) PROVE t[i].id \in Pinned(s, cites) \cup {o.id}
  <2>1. CASE i = Len(s) + 1
    BY <1>1, <2>1
  <2>2. CASE i # Len(s) + 1
    <3>1. N = M /\ M \in DOMAIN s
      BY <1>1, <1>5, <1>9, <2>2
    <3>2. i \in DOMAIN s /\ i \in M .. Len(s) /\ M # 0
      BY <1>1, <2>2, <3>1
    <3>3. s[i].id \in Pinned(s, cites)
      BY <1>6, <3>2
    <3>4. t[i] = s[i]
      BY <1>1, <3>2
    <3> QED
      BY <3>3, <3>4
  <2> QED
    BY <2>1, <2>2
<1> QED
  BY <1>6, <1>7, <1>8, <1>9 DEF t

LEMMA AppendApart ==
  ASSUME NEW s \in Seq(ARecord), NEW o \in ARecord, Apart(s), \A i \in DOMAIN s : s[i].id # o.id
  PROVE  Apart(Append(s, o))
<1>1. /\ \A i \in DOMAIN s : Append(s, o)[i] = s[i]
      /\ Append(s, o)[Len(s) + 1] = o /\ \A i \in DOMAIN Append(s, o) : i \in DOMAIN s \/ i = Len(s) + 1
  BY AppendIs
<1> QED
  BY <1>1 DEF Apart

LEMMA CallKeepsSound ==
  ASSUME Types, Sound, Call, NextID(obs) \notin NumbersTaken
  PROVE  Sound'
<1>1. PICK o, q : Calls(o, q)
  BY CallIs
<1>2. pc' = "thinking" /\ UNCHANGED <<cited, heard, summary, judged, resumes, decides>>
  BY CallIs
<1> DEFINE n == NextID(obs)
           l == Len(ledger) + 1
<1>3. /\ obs \in Seq(ARecord) /\ ledger \in Seq(ARecord) /\ summary.accounted \subseteq DOMAIN ledger
      /\ o \in ARecord /\ q \in ARecord /\ ledger' = Append(ledger, o) /\ obs' = Append(obs, q)
      /\ o.id = n /\ o.event = l /\ q.id = n /\ q.event = l /\ q.kind = o.kind /\ IsTool(o)
  BY <1>1 DEF Types, Calls
<1>4. /\ Len(ledger) \in Nat /\ DOMAIN ledger = 1 .. Len(ledger) /\ DOMAIN ledger \subseteq DOMAIN ledger'
      /\ \A i \in DOMAIN ledger : ledger'[i] = ledger[i]
      /\ ledger'[l] = o /\ l \in DOMAIN ledger' /\ l \notin DOMAIN ledger
      /\ \A i \in DOMAIN ledger' : i \in DOMAIN ledger \/ i = l
  BY <1>3, AppendIs
<1>5. /\ Len(obs') = Len(obs) + 1 /\ Len(obs) \in Nat /\ DOMAIN obs = 1 .. Len(obs) /\ DOMAIN obs \subseteq DOMAIN obs'
      /\ \A i \in DOMAIN obs : obs'[i] = obs[i]
      /\ obs'[Len(obs) + 1] = q /\ \A i \in DOMAIN obs' : i \in DOMAIN obs \/ i = Len(obs) + 1
  BY <1>3, AppendIs
<1>6. n \in Nat /\ \A i \in DOMAIN obs : obs[i].id \in Nat /\ obs[i].id < n /\ obs[i].id # n
  BY <1>3, NextIDIsNew, RecordsAre
<1>7. n \notin IdsOf(ToSet(ledger)) /\ n \notin summary.compacted /\ n \notin Hidden(summary)
  BY DEF NumbersTaken, Hidden, Sound, HiddenAccounted
<1> HIDE DEF n, l
<1>8. \A e \in DOMAIN ledger : ledger[e].id # n
  BY <1>7 DEF IdsOf, ToSet
<1>9. IdsOf(ToSet(ledger')) = IdsOf(ToSet(ledger)) \cup {n}
  BY <1>3, <1>4 DEF IdsOf, ToSet
<1>10. NumbersApart'
  BY <1>3, <1>4, <1>8 DEF Sound, NumbersApart
<1>11. ASSUME NEW r, IsOfTheTask(r), r.kind = "said" => r.id # n
       PROVE  IsOfTheTask(r)'
  BY <1>2, <1>3, <1>4, <1>9, <1>11 DEF IsOfTheTask
<1>12. Known(obs)' /\ Apart(obs)'
  <2>1. IsOfTheTask(q)'
    BY <1>3, <1>4 DEF IsOfTheTask, IsTool, ToolKinds
  <2>2. Known(obs)'
    BY <1>5, <1>6, <1>11, <2>1 DEF Known, Sound
  <2>3. Apart(obs')
    BY <1>3, <1>6, AppendApart DEF Sound
  <2> QED
    BY <2>2, <2>3 DEF Apart
<1>13. Known(summary.retained)' /\ Apart(summary.retained)'
  <2>1. ASSUME NEW j \in DOMAIN summary.retained, summary.retained[j].kind = "said"
        PROVE  summary.retained[j].id # n
    <3>1. summary.retained[j].id \in IdsOf(ToSet(obs))
      BY <2>1 DEF Sound, RetainedHeld
    <3> QED
      BY <1>6, <3>1 DEF IdsOf, ToSet
  <2> QED
    BY <1>2, <1>11, <2>1 DEF Known, Apart, Sound
<1>14. HiddenAccounted'
  BY <1>2, <1>3, <1>4, <1>7, <1>9 DEF Sound, HiddenAccounted, Hidden
<1>15. AccountedKept'
  <2>1. q.event \notin summary.accounted
    BY <1>3, <1>4
  <2> QED
    BY <1>2, <1>5, <2>1 DEF Sound, AccountedKept, Hidden
<1>16. \A e : Holds(obs, e) => Holds(obs', e)
  BY <1>5 DEF Holds
<1>17. RetainedHeld'
  <2>1. IdsOf(ToSet(obs)) \subseteq IdsOf(ToSet(obs'))
    BY <1>5 DEF IdsOf, ToSet
  <2> QED
    BY <1>2, <1>16, <2>1 DEF Sound, RetainedHeld, Hidden
<1>18. HiddenMayGo'
  <2>1. ASSUME NEW i \in DOMAIN obs', IsTool(obs'[i]), obs'[i].id \in Hidden(summary)
        PROVE  /\ obs'[i].id \notin Pinned(obs', cited) /\ i <= Len(obs') - Recent
               /\ obs'[i].event \in judged
               /\ SavesMayFail \/ <<obs'[i].id, obs'[i].event>> \in summary.saved
    <3>1. i \in DOMAIN obs /\ obs'[i] = obs[i]
      BY <1>3, <1>5, <1>7, <2>1
    <3>2. /\ obs[i].id \notin Pinned(obs, cited) /\ i <= Len(obs) - Recent
          /\ obs[i].event \in judged
          /\ SavesMayFail \/ <<obs[i].id, obs[i].event>> \in summary.saved
      BY <2>1, <3>1 DEF Sound, HiddenMayGo
    <3>3. Pinned(obs', cited) \subseteq Pinned(obs, cited) \cup {n}
      BY <1>3, PinnedAppend
    <3>4. i <= Len(obs') - Recent
      BY <1>5, <3>1, <3>2, ContextAssumption
    <3> QED
      BY <1>6, <3>1, <3>2, <3>3, <3>4
  <2> QED
    BY <1>2, <2>1 DEF HiddenMayGo, Hidden
<1>19. ShownIs'
  BY <1>2 DEF ShownIs
<1>20. GoneCounted'
  <2>1. Gone' = Gone
    BY <1>2, <1>3, <1>4 DEF Gone
  <2> QED
    BY <1>2, <2>1 DEF Sound, GoneCounted
<1>21. UnaccountedHeld'
  <2>1. Holds(obs', l)
    <3>1. Len(obs) + 1 \in DOMAIN obs'
      BY <1>3, AppendIs
    <3>2. IsTool(obs'[Len(obs) + 1]) /\ obs'[Len(obs) + 1].event = l
      BY <1>3, <1>5 DEF IsTool
    <3> QED
      BY <3>1, <3>2, Zenon DEF Holds
  <2>2. ASSUME NEW e \in DOMAIN ledger' \ summary.accounted, ledger'[e].kind # "fail"
        PROVE  Holds(obs', e)
    <3>1. CASE e \in DOMAIN ledger
      <4>1. ledger[e].kind # "fail"
        BY <1>4, <2>2, <3>1
      <4>2. Holds(obs, e)
        BY <3>1, <4>1 DEF Sound, UnaccountedHeld
      <4> QED
        BY <1>16, <4>2
    <3>2. CASE e = l
      BY <2>1, <3>2
    <3> QED
      BY <1>4, <3>1, <3>2
  <2> QED
    BY <1>2, <2>2 DEF UnaccountedHeld
<1>22. OpenOrJudged'
  <2>1. Holds(obs', l)
    <3>1. Len(obs) + 1 \in DOMAIN obs'
      BY <1>3, AppendIs
    <3>2. IsTool(obs'[Len(obs) + 1]) /\ obs'[Len(obs) + 1].event = l
      BY <1>3, <1>5 DEF IsTool
    <3> QED
      BY <3>1, <3>2, Zenon DEF Holds
  <2>2. ledger'[l].id \notin Hidden(summary)
    BY <1>3, <1>4, <1>7
  <2>3. ASSUME NEW e \in DOMAIN ledger
        PROVE  \/ ledger'[e].kind = "fail" /\ resumes > 0
               \/ Holds(obs', e) /\ ledger'[e].id \notin Hidden(summary)
               \/ e \in judged /\ ledger'[e].id \notin cited
    <3>1. ledger'[e] = ledger[e]
      BY <1>4
    <3> QED
      BY <1>16, <3>1 DEF Sound, OpenOrJudged
  <2> QED
    BY <1>2, <1>4, <2>1, <2>2, <2>3 DEF OpenOrJudged, Hidden
<1> QED
  BY <1>10, <1>12, <1>13, <1>14, <1>15, <1>17, <1>18, <1>19, <1>20, <1>21, <1>22 DEF Sound

LEMMA SayKeepsSound ==
  ASSUME Types, Sound, Say, NextID(obs) \notin NumbersTaken
  PROVE  Sound'
<1>1. PICK q : Says(q)
  BY SayIs
<1>2. pc' = "thinking" /\ UNCHANGED <<ledger, cited, heard, summary, judged, resumes, decides>>
  BY SayIs
<1> DEFINE n == NextID(obs)
<1>3. /\ obs \in Seq(ARecord) /\ q \in ARecord /\ obs' = Append(obs, q)
      /\ q.id = n /\ q.event = 0 /\ q.kind = "said" /\ ~q.talks
  BY <1>1 DEF Types, Says
<1>4. /\ Len(obs') = Len(obs) + 1 /\ Len(obs) \in Nat /\ DOMAIN obs = 1 .. Len(obs) /\ DOMAIN obs \subseteq DOMAIN obs'
      /\ \A i \in DOMAIN obs : obs'[i] = obs[i]
      /\ obs'[Len(obs) + 1] = q /\ \A i \in DOMAIN obs' : i \in DOMAIN obs \/ i = Len(obs) + 1
  BY <1>3, AppendIs
<1>5. n \in Nat /\ \A i \in DOMAIN obs : obs[i].id \in Nat /\ obs[i].id < n /\ obs[i].id # n
  BY <1>3, NextIDIsNew, RecordsAre
<1>6. n \notin IdsOf(ToSet(ledger))
  BY DEF NumbersTaken
<1>7. ~IsTool(q) /\ q.kind # "voice"
  BY <1>3 DEF IsTool, ToolKinds
<1> HIDE DEF n
<1>8. \A r : IsOfTheTask(r)' <=> IsOfTheTask(r)
  BY <1>2 DEF IsOfTheTask
<1>9. Known(obs)' /\ Apart(obs)'
  <2>1. IsOfTheTask(q)
    BY <1>3, <1>6, <1>7 DEF IsOfTheTask
  <2>2. Known(obs)'
    BY <1>4, <1>8, <2>1 DEF Known, Sound
  <2>3. Apart(obs')
    BY <1>3, <1>5, AppendApart DEF Sound
  <2> QED
    BY <2>2, <2>3 DEF Apart
<1>10. Known(summary.retained)' /\ Apart(summary.retained)'
  BY <1>2, <1>8 DEF Known, Apart, Sound
<1>11. HiddenAccounted' /\ NumbersApart'
  BY <1>2 DEF Sound, HiddenAccounted, Hidden, NumbersApart
<1>12. AccountedKept'
  BY <1>2, <1>4, <1>7 DEF Sound, AccountedKept, Hidden
<1>13. RetainedHeld'
  <2>1. IdsOf(ToSet(obs)) \subseteq IdsOf(ToSet(obs'))
    BY <1>4 DEF IdsOf, ToSet
  <2>2. \A e : Holds(obs, e) => Holds(obs', e)
    BY <1>4 DEF Holds
  <2> QED
    BY <1>2, <2>1, <2>2 DEF Sound, RetainedHeld, Hidden
<1>14. HiddenMayGo'
  <2>1. ASSUME NEW i \in DOMAIN obs', IsTool(obs'[i]), obs'[i].id \in Hidden(summary)
        PROVE  /\ obs'[i].id \notin Pinned(obs', cited) /\ i <= Len(obs') - Recent
               /\ obs'[i].event \in judged
               /\ SavesMayFail \/ <<obs'[i].id, obs'[i].event>> \in summary.saved
    <3>1. i \in DOMAIN obs /\ obs'[i] = obs[i]
      BY <1>4, <1>7, <2>1
    <3>2. /\ obs[i].id \notin Pinned(obs, cited) /\ i <= Len(obs) - Recent
          /\ obs[i].event \in judged
          /\ SavesMayFail \/ <<obs[i].id, obs[i].event>> \in summary.saved
      BY <2>1, <3>1 DEF Sound, HiddenMayGo
    <3>3. Pinned(obs', cited) \subseteq Pinned(obs, cited) \cup {n}
      BY <1>3, PinnedAppend
    <3>4. i <= Len(obs') - Recent
      BY <1>4, <3>1, <3>2, ContextAssumption
    <3> QED
      BY <1>5, <3>1, <3>2, <3>3, <3>4
  <2> QED
    BY <1>2, <2>1 DEF HiddenMayGo, Hidden
<1>15. ShownIs' /\ GoneCounted'
  BY <1>2 DEF ShownIs, GoneCounted, Gone, Sound
<1>16. UnaccountedHeld'
  <2>1. \A e : Holds(obs, e) => Holds(obs', e)
    BY <1>4 DEF Holds
  <2> QED
    BY <1>2, <2>1 DEF Sound, UnaccountedHeld
<1>17. OpenOrJudged'
  <2>1. \A e : Holds(obs, e) => Holds(obs', e)
    BY <1>4 DEF Holds
  <2> QED
    BY <1>2, <2>1 DEF Sound, OpenOrJudged, Hidden
<1> QED
  BY <1>9, <1>10, <1>11, <1>12, <1>13, <1>14, <1>15, <1>16, <1>17 DEF Sound

LEMMA CiteKeepsSound ==
  ASSUME Types, Sound, Cite
  PROVE  Sound'
<1>1. pc = "acting" /\ pc' = "thinking" /\ UNCHANGED <<obs, ledger, heard, summary, judged, resumes>>
  BY DEF Cite
<1>2. PICK i \in DOMAIN shown.records : IsTool(shown.records[i]) /\ cited' = cited \cup {shown.records[i].id}
  BY DEF Cite
<1> DEFINE id == shown.records[i].id
<1>0. PICK o \in Carried(shown) : o.id = id /\ o.id \notin Hidden(summary) /\ Stands(o)
  BY <1>1, <1>2 DEF Sound, ShownIs, Carried, ToSet
<1>3. id \notin Hidden(summary)
  BY <1>0
<1>7. ASSUME NEW e \in DOMAIN ledger, ledger[e].id = id
      PROVE  Holds(obs, e) /\ ledger[e].id \notin Hidden(summary)
  <2>1. PICK m \in DOMAIN obs : IsTool(obs[m]) /\ obs[m].id = id /\ obs[m].event = o.event
    BY <1>0 DEF Stands
  <2>2. o.event \in DOMAIN ledger /\ ledger[o.event].id = id
    BY <2>1 DEF Sound, Known, IsOfTheTask
  <2>3. e = o.event
    BY <1>7, <2>2 DEF Sound, NumbersApart
  <2> QED
    BY <1>3, <1>7, <2>1, <2>3 DEF Holds
<1>4. Pinned(obs', cited') = Pinned(obs, cited) \cup {id}
  BY <1>1, <1>2 DEF Pinned
<1> HIDE DEF id
<1>5. HiddenMayGo'
  BY <1>1, <1>3, <1>4 DEF Sound, HiddenMayGo, Hidden
<1>6. ShownIs'
  BY <1>1 DEF ShownIs
<1>8. OpenOrJudged'
  <2>1. \A e \in DOMAIN ledger : ledger[e].id \in cited' => ledger[e].id \in cited \/ ledger[e].id = id
    BY <1>2 DEF id
  <2> QED
    BY <1>1, <1>7, <2>1 DEF Sound, OpenOrJudged, Hidden, Holds
<1> QED
  BY <1>1, <1>5, <1>6, <1>8
  DEF Sound, NumbersApart, Known, IsOfTheTask, Apart, HiddenAccounted, AccountedKept, RetainedHeld, UnaccountedHeld,
      GoneCounted, Gone, Hidden, Holds

-----------------------------------------------------------------------------
(* A task that is picked up again.                                         *)

LEMMA FromLedgerIsApart ==
  ASSUME Types, Sound
  PROVE  LET all == FromLedger(summary, ledger)
         IN  /\ Known(all) /\ Apart(all)
             /\ \A i \in DOMAIN all :
                  \/ \E j \in DOMAIN summary.retained : all[i] = summary.retained[j]
                  \/ \E e \in DOMAIN ledger \ summary.accounted : all[i] = ledger[e]
<1> DEFINE all == FromLedger(summary, ledger)
           places == DOMAIN ledger \ summary.accounted
           s == summary.retained
<1>1. /\ all \in Seq(ARecord)
      /\ \A i \in DOMAIN all :
           \/ i \in DOMAIN s /\ all[i] = s[i]
           \/ i \notin DOMAIN s /\ \E e \in places : i = Len(s) + Rank(places, e) /\ all[i] = ledger[e]
  BY FromLedgerIs
<1> HIDE DEF all
<1>2. ASSUME NEW e \in places PROVE IsOfTheTask(ledger[e]) /\ e \in DOMAIN ledger
  <2>1. ledger[e].event = e /\ IsTool(ledger[e]) /\ e \in DOMAIN ledger
    BY DEF Types
  <2>2. ledger[e].kind # "voice" /\ ledger[e].kind # "said"
    BY <2>1 DEF IsTool, ToolKinds
  <2> QED
    BY <2>1, <2>2 DEF IsOfTheTask
<1>3. Known(all)
  BY <1>1, <1>2 DEF Known, Sound
<1>4. ASSUME NEW j \in DOMAIN s, NEW e \in places PROVE s[j].id # ledger[e].id
  <2>1. e \in DOMAIN ledger /\ e \notin summary.accounted
    OBVIOUS
  <2>2. s \in Seq(ARecord) /\ s[j].kind # "summary" /\ IsOfTheTask(s[j])
    BY DEF Types, ASummary, InMemory, Sound, Known
  <2>3. IsTool(s[j]) \/ s[j].kind = "voice" \/ s[j].kind = "said"
    <3>1. s[j].kind \in Kinds
      BY <2>2, RecordsAre
    <3> QED
      BY <2>2, <3>1 DEF Kinds, IsTool
  <2>4. CASE IsTool(s[j]) \/ s[j].kind = "voice"
    <3>1. s[j].event \in summary.accounted /\ s[j].id = ledger[s[j].event].id
      BY <2>2, <2>4 DEF Sound, RetainedHeld, IsOfTheTask
    <3>2. s[j].event \in DOMAIN ledger
      BY <3>1 DEF Types
    <3> QED
      BY <2>1, <3>1, <3>2 DEF Sound, NumbersApart
  <2>5. CASE s[j].kind = "said"
    <3>1. s[j].id \notin IdsOf(ToSet(ledger))
      BY <2>2, <2>5 DEF IsOfTheTask
    <3> QED
      BY <2>1, <3>1 DEF IdsOf, ToSet
  <2> QED
    BY <2>3, <2>4, <2>5
<1>5. ASSUME NEW m \in DOMAIN all, NEW n \in DOMAIN all, all[m].id = all[n].id PROVE m = n
  <2>1. CASE m \in DOMAIN s /\ n \in DOMAIN s
    BY <1>1, <1>5, <2>1 DEF Sound, Apart
  <2>2. CASE m \in DOMAIN s /\ n \notin DOMAIN s
    BY <1>1, <1>4, <1>5, <2>2
  <2>3. CASE m \notin DOMAIN s /\ n \in DOMAIN s
    BY <1>1, <1>4, <1>5, <2>3
  <2>4. CASE m \notin DOMAIN s /\ n \notin DOMAIN s
    <3>1. PICK e \in places : m = Len(s) + Rank(places, e) /\ all[m] = ledger[e]
      BY <1>1, <2>4
    <3>2. PICK f \in places : n = Len(s) + Rank(places, f) /\ all[n] = ledger[f]
      BY <1>1, <2>4
    <3>3. e = f
      BY <1>2, <1>5, <3>1, <3>2 DEF Sound, NumbersApart
    <3> QED
      BY <3>1, <3>2, <3>3
  <2> QED
    BY <2>1, <2>2, <2>3, <2>4
<1>6. Apart(all)
  BY <1>5 DEF Apart
<1>7. \A i \in DOMAIN all : \/ \E j \in DOMAIN s : all[i] = s[j]
                           \/ \E e \in places : all[i] = ledger[e]
  BY <1>1, Zenon
<1> QED
  BY <1>3, <1>6, <1>7, Zenon DEF all, s, places

LEMMA ResumeKeepsSound ==
  ASSUME Types, Sound, NEW how, Resume, obs' = Restored(how)
  PROVE  Sound'
<1>1. pc' = "thinking" /\ UNCHANGED <<ledger, cited, summary, judged, decides>>
  BY DEF Resume
<1> DEFINE all == FromLedger(summary, ledger)
           s == summary.retained
<1>2. /\ Known(all) /\ Apart(all)
      /\ \A i \in DOMAIN all : \/ \E j \in DOMAIN s : all[i] = s[j]
                               \/ \E e \in DOMAIN ledger \ summary.accounted : all[i] = ledger[e]
  BY FromLedgerIsApart
<1>3. /\ \A i, j \in DOMAIN obs' :
           \E m, n \in DOMAIN all : obs'[i] = all[m] /\ obs'[j] = all[n] /\ (i # j => m # n)
      /\ \A m \in DOMAIN all : all[m].kind # "fail" => \E i \in DOMAIN obs' : obs'[i] = all[m]
  <2> DEFINE again == Restored(how)
  <2>1. /\ \A i, j \in DOMAIN again :
             \E m, n \in DOMAIN all : again[i] = all[m] /\ again[j] = all[n] /\ (i # j => m # n)
        /\ \A m \in DOMAIN all : all[m].kind # "fail" => \E i \in DOMAIN again : again[i] = all[m]
    BY RestoredIs, Zenon
  <2>2. obs' = again
    OBVIOUS
  <2> HIDE DEF again, all
  <2> QED
    BY <2>1, <2>2
<1>4. \A j \in DOMAIN s : j \in DOMAIN all /\ all[j] = s[j]
  BY FromLedgerIs
<1> HIDE DEF all
<1>5. \A i \in DOMAIN obs' : \E m \in DOMAIN all : obs'[i] = all[m]
  BY <1>3
<1>6. \A r : IsOfTheTask(r)' <=> IsOfTheTask(r)
  BY <1>1 DEF IsOfTheTask
<1>7. Known(obs)' /\ Apart(obs)'
  <2>1. Known(obs)'
    BY <1>2, <1>5, <1>6 DEF Known
  <2>2. Apart(obs')
    BY <1>2, <1>3 DEF Apart
  <2> QED
    BY <2>1, <2>2 DEF Apart
<1>8. Known(summary.retained)' /\ Apart(summary.retained)'
  BY <1>1, <1>6 DEF Known, Apart, Sound
<1>9. HiddenAccounted' /\ NumbersApart'
  BY <1>1 DEF Sound, HiddenAccounted, Hidden, NumbersApart
<1>10. ASSUME NEW i \in DOMAIN obs', IsTool(obs'[i])
       PROVE  \/ \E j \in DOMAIN s : obs'[i] = s[j]
              \/ obs'[i].event \notin summary.accounted /\ obs'[i].id \notin Hidden(summary)
  <2>1. CASE \E j \in DOMAIN s : obs'[i] = s[j]
    BY <2>1
  <2>2. CASE \E e \in DOMAIN ledger \ summary.accounted : obs'[i] = ledger[e]
    BY <2>2 DEF Types, Sound, HiddenAccounted
  <2> QED
    BY <1>2, <1>5, <2>1, <2>2
<1>11. AccountedKept'
  <2>1. ASSUME NEW i \in DOMAIN obs', IsTool(obs'[i]), obs'[i].event \in summary.accounted
        PROVE  Holds(s, obs'[i].event)
    BY <1>10, <2>1 DEF Holds
  <2> QED
    BY <1>1, <2>1 DEF AccountedKept
<1>12. RetainedHeld'
  <2>1. ASSUME NEW j \in DOMAIN s, s[j].kind # "fail" PROVE \E i \in DOMAIN obs' : obs'[i] = s[j]
    BY <1>3, <1>4, <2>1
  <2>2. ASSUME NEW j \in DOMAIN s, IsTool(s[j]), s[j].kind # "fail" PROVE Holds(obs', s[j].event)
    BY <2>1, <2>2 DEF Holds
  <2>3. ASSUME NEW j \in DOMAIN s, s[j].kind = "said" PROVE s[j].id \in IdsOf(ToSet(obs'))
    BY <2>1, <2>3 DEF IdsOf, ToSet
  <2> QED
    BY <1>1, <2>2, <2>3 DEF Sound, RetainedHeld, Hidden
<1>13. HiddenMayGo'
  <2>1. ASSUME NEW i \in DOMAIN obs', IsTool(obs'[i]) PROVE obs'[i].id \notin Hidden(summary)
    BY <1>10, <2>1 DEF Sound, RetainedHeld
  <2> QED
    BY <1>1, <2>1 DEF HiddenMayGo, Hidden
<1>14. ShownIs' /\ GoneCounted'
  BY <1>1 DEF ShownIs, GoneCounted, Gone, Sound
<1>15. UnaccountedHeld'
  <2>1. ASSUME NEW e \in DOMAIN ledger \ summary.accounted, ledger[e].kind # "fail" PROVE Holds(obs', e)
    <3>1. PICK m \in DOMAIN all : all[m] = ledger[e]
      BY FromLedgerIs DEF all
    <3>2. PICK i \in DOMAIN obs' : obs'[i] = ledger[e]
      BY <1>3, <2>1, <3>1
    <3> QED
      BY <3>2 DEF Holds, Types
  <2> QED
    BY <1>1, <2>1 DEF UnaccountedHeld
<1>16. OpenOrJudged'
  <2>1. resumes' > 0
    BY DEF Resume, Types
  <2>2. ASSUME NEW e \in DOMAIN ledger, ledger[e].kind # "fail", Holds(obs, e), ledger[e].id \notin Hidden(summary)
        PROVE  Holds(obs', e)
    <3>1. CASE e \in summary.accounted
      <4>1. PICK i \in DOMAIN obs : IsTool(obs[i]) /\ obs[i].event = e
        BY <2>2 DEF Holds
      <4>2. obs[i].id = ledger[e].id
        BY <4>1 DEF Sound, Known, IsOfTheTask
      <4>3. Holds(s, e)
        BY <2>2, <3>1, <4>1, <4>2 DEF Sound, AccountedKept
      <4>4. PICK j \in DOMAIN s : IsTool(s[j]) /\ s[j].event = e
        BY <4>3 DEF Holds
      <4>5. s[j].kind # "fail"
        BY <2>2, <4>4 DEF Sound, Known, IsOfTheTask
      <4>6. PICK m \in DOMAIN obs' : obs'[m] = s[j]
        BY <1>3, <1>4, <4>5
      <4> QED
        BY <4>4, <4>6 DEF Holds
    <3>2. CASE e \notin summary.accounted
      BY <1>1, <1>15, <2>2, <3>2 DEF UnaccountedHeld
    <3> QED
      BY <3>1, <3>2
  <2> QED
    BY <1>1, <2>1, <2>2 DEF Sound, OpenOrJudged, Hidden
<1> QED
  BY <1>7, <1>8, <1>9, <1>11, <1>12, <1>13, <1>14, <1>15, <1>16 DEF Sound

-----------------------------------------------------------------------------
(* A prompt that is shown.                                                 *)

LEMMA ShowsWhole ==
  ASSUME Types, NEW p, NEW sum, Shows(p, sum),
         \A i \in DOMAIN obs : IsTool(obs[i]) /\ obs[i].id \in Hidden(sum) => obs[i].id \notin Pinned(obs, cited)
  PROVE  /\ \A i \in DOMAIN obs :
              IsTool(obs[i]) /\ obs[i].id \notin Hidden(sum) =>
                \E o \in Carried(p) : o.id = obs[i].id /\ o.event = obs[i].event
         /\ \A o \in Carried(p) : o.id \notin Hidden(sum)
         /\ \A o \in Carried(p) : Stands(o)
<1> DEFINE s == p.records
           hidden == Hidden(sum) \ Pinned(obs, cited)
<1>1. /\ ReadsAs(s, obs, hidden)
      /\ \A k \in DOMAIN s : s[k].cut => ~decides /\ k < Len(s) /\ s[k].id \notin Pinned(obs, cited)
  BY DEF Shows, MayBeCut
<1>2. \A o : o \in Carried(p) <=> \E k \in DOMAIN s : o = s[k] /\ IsTool(s[k])
  BY DEF Carried, ToSet
<1> HIDE DEF s
<1>3. ASSUME NEW i \in DOMAIN obs, IsTool(obs[i]), obs[i].id \notin Hidden(sum)
      PROVE  \E o \in Carried(p) : o.id = obs[i].id /\ o.event = obs[i].event
  <2>1. PICK k \in DOMAIN s : s[k].id = obs[i].id /\ s[k].kind = obs[i].kind /\ s[k].event = obs[i].event
    BY <1>1, <1>3 DEF ReadsAs
  <2>2. s[k] \in Carried(p)
    BY <1>2, <1>3, <2>1 DEF IsTool
  <2> QED
    BY <2>1, <2>2
<1>4. ASSUME NEW o \in Carried(p) PROVE o.id \notin Hidden(sum)
  <2>1. PICK k \in DOMAIN s : o = s[k] /\ IsTool(s[k])
    BY <1>2
  <2>2. s[k].kind # "summary" /\ s[k].kind # "voice"
    BY <2>1 DEF IsTool, ToolKinds
  <2>3. PICK i \in DOMAIN obs : LeftOf(s[k], obs[i], hidden)
    BY <1>1, <2>2 DEF ReadsAs
  <2>4. s[k].id = obs[i].id /\ s[k].kind = obs[i].kind /\ obs[i].id \notin hidden
    BY <2>1, <2>2, <2>3 DEF LeftOf
  <2>5. IsTool(obs[i])
    BY <2>1, <2>4 DEF IsTool
  <2> QED
    BY <2>1, <2>4, <2>5
<1>5. ASSUME NEW o \in Carried(p) PROVE Stands(o)
  <2>1. PICK k \in DOMAIN s : o = s[k] /\ IsTool(s[k])
    BY <1>2
  <2>2. s[k].kind # "summary" /\ s[k].kind # "voice"
    BY <2>1 DEF IsTool, ToolKinds
  <2>3. PICK i \in DOMAIN obs : LeftOf(s[k], obs[i], hidden) /\ Len(s) - k <= Len(obs) - i
    BY <1>1, <2>2 DEF ReadsAs
  <2>4. obs[i].id = o.id /\ obs[i].event = o.event /\ IsTool(obs[i])
    BY <2>1, <2>2, <2>3 DEF LeftOf, IsTool
  <2>5. o.cut => ~decides /\ k < Len(s) /\ o.id \notin Pinned(obs, cited)
    BY <1>1, <2>1
  <2>6. k < Len(s) => i < Len(obs)
    <3>1. s \in Seq(ARecord) /\ obs \in Seq(ARecord)
      BY <1>1 DEF ReadsAs, Types
    <3>2. k \in Nat /\ i \in Nat /\ Len(s) \in Nat /\ Len(obs) \in Nat
      BY <3>1, RecordsAre
    <3> QED
      BY <2>3, <3>2
  <2> QED
    BY <2>4, <2>5, <2>6 DEF Stands
<1> QED
  BY <1>3, <1>4, <1>5

LEMMA ShownKeepsSound ==
  ASSUME Types, Sound, Prompt, Shows(shown', summary), UNCHANGED <<summary, judged>>
  PROVE  Sound'
<1>1. UNCHANGED <<obs, ledger, cited, heard, summary, decides, judged, resumes>> /\ pc' = "acting"
  BY PromptCases
<1>2. \A i \in DOMAIN obs : IsTool(obs[i]) /\ obs[i].id \in Hidden(summary) => obs[i].id \notin Pinned(obs, cited)
  BY DEF Sound, HiddenMayGo
<1>3. /\ \A i \in DOMAIN obs :
           IsTool(obs[i]) /\ obs[i].id \notin Hidden(summary) =>
             \E o \in Carried(shown') : o.id = obs[i].id /\ o.event = obs[i].event
      /\ \A o \in Carried(shown') : o.id \notin Hidden(summary) /\ Stands(o)
  BY <1>2, ShowsWhole
<1>4. ShownIs'
  <2>1. Carried(shown)' = Carried(shown')
    BY DEF Carried
  <2>2. shown'.messages[Len(shown'.messages)] = Talk[heard]
    BY DEF Shows
  <2>3. \A o : Stands(o)' <=> Stands(o)
    BY <1>1 DEF Stands
  <2> QED
    BY <1>1, <1>3, <2>1, <2>2, <2>3 DEF ShownIs, Hidden
<1>5. Pinned(obs, cited)' = Pinned(obs, cited)
  BY <1>1
<1>6. HiddenMayGo'
  BY <1>1, <1>5 DEF Sound, HiddenMayGo, Hidden
<1> QED
  BY <1>1, <1>4, <1>6
  DEF Sound, NumbersApart, Known, IsOfTheTask, Apart, HiddenAccounted, AccountedKept, RetainedHeld, UnaccountedHeld,
      OpenOrJudged, GoneCounted, Gone, Hidden, Holds

-----------------------------------------------------------------------------
(* A compaction that is committed.                                         *)

LEMMA EventOfLedger ==
  ASSUME Types, NumbersApart, NEW e \in DOMAIN ledger
  PROVE  EventOf(ledger, ledger[e].id) = e /\ e # 0
<1>1. ledger \in Seq(ARecord) /\ DOMAIN ledger = 1 .. Len(ledger) /\ Len(ledger) \in Nat
  BY RecordsAre DEF Types
<1> DEFINE id == ledger[e].id
           f == EventOf(ledger, id)
<1>2. f \in 0 .. Len(ledger) /\ (f # 0 => ledger[f].id = id) /\ f # 0
  BY <1>1, EventOfIs
<1>3. f \in DOMAIN ledger
  BY <1>1, <1>2
<1> HIDE DEF f
<1> QED
  BY <1>1, <1>2, <1>3 DEF NumbersApart, f

\* What a record of the prompt is left of.
LEMMA PromptRecordIs ==
  ASSUME Types, Known(obs), Apart(obs), NEW p, NEW sum, Shows(p, sum),
         NEW k \in DOMAIN p.records, p.records[k].kind # "summary"
  PROVE  \E i \in DOMAIN obs :
           LET o == p.records[k]
               hidden == Hidden(sum) \ Pinned(obs, cited)
           IN  /\ o.id = obs[i].id /\ o.event = obs[i].event /\ Len(p.records) - k <= Len(obs) - i
               /\ o.talks => obs[i].talks
               /\ \/ o.kind = obs[i].kind /\ (IsTool(o) => o.id \notin hidden)
                  \/ o.kind = "voice" /\ obs[i].talks
               /\ IsTool(obs[i]) /\ ~IsTool(o) => o.id \in hidden
<1> DEFINE s == p.records
           o == s[k]
           hidden == Hidden(sum) \ Pinned(obs, cited)
<1>1. ReadsAs(s, obs, hidden)
  BY DEF Shows
<1> HIDE DEF hidden
<1>2. PICK i \in DOMAIN obs : LeftOf(o, obs[i], hidden) /\ Len(s) - k <= Len(obs) - i
  BY <1>1 DEF ReadsAs
<1>3. ASSUME IsTool(obs[i]), ~IsTool(o) PROVE o.id \in hidden
  <2> SUFFICES ASSUME o.id \notin hidden PROVE FALSE
    OBVIOUS
  <2>1. o.id = obs[i].id
    BY <1>2 DEF LeftOf
  <2>2. PICK l \in DOMAIN s : s[l].id = obs[i].id /\ s[l].kind = obs[i].kind
    BY <1>1, <1>3, <2>1 DEF ReadsAs
  <2>3. IsTool(s[l]) /\ s[l].kind # "summary"
    BY <1>3, <2>2 DEF IsTool, ToolKinds
  <2>4. l # k
    BY <1>3, <2>3
  <2>5. \E m, n \in DOMAIN obs : m # n /\ obs[m].id = obs[n].id
    BY <1>1, <2>1, <2>2, <2>3, <2>4 DEF ReadsAs
  <2> QED
    BY <2>5 DEF Apart
<1>4. /\ o.id = obs[i].id /\ o.event = obs[i].event
      /\ o.talks => obs[i].talks
      /\ \/ o.kind = obs[i].kind /\ (IsTool(o) => o.id \notin hidden)
         \/ o.kind = "voice" /\ obs[i].talks
  BY <1>2 DEF LeftOf
<1> HIDE DEF o
<1>5. \E j \in DOMAIN obs :
        /\ o.id = obs[j].id /\ o.event = obs[j].event /\ Len(s) - k <= Len(obs) - j
        /\ o.talks => obs[j].talks
        /\ \/ o.kind = obs[j].kind /\ (IsTool(o) => o.id \notin hidden)
           \/ o.kind = "voice" /\ obs[j].talks
        /\ IsTool(obs[j]) /\ ~IsTool(o) => o.id \in hidden
  BY <1>2, <1>3, <1>4
<1> QED
  BY <1>5, Zenon DEF o, hidden, s

\* A record that a commit hides is old, not pinned and named, and the prompt had it.
LEMMA NewlyHidden ==
  ASSUME Types, Sound, NEW visible, NEW no, NEW sum, NEW stored, Commits(visible, no, sum, stored),
         NEW i \in DOMAIN obs, IsTool(obs[i]), obs[i].id \in Hidden(sum), obs[i].id \notin Hidden(summary)
  PROVE  /\ obs[i].id \in no /\ obs[i].id \notin Pinned(obs, cited) /\ i <= Len(obs) - Recent
         /\ \E k \in DOMAIN visible.records :
              LET o == visible.records[k]
              IN  /\ o.id = obs[i].id /\ o.event = obs[i].event /\ o.kind = obs[i].kind
                  /\ o \in NewlyRemoved(visible.records, sum)
<1> DEFINE s == visible.records
           id == obs[i].id
<1>1. /\ Shows(visible, summary) /\ s \in Seq(ARecord) /\ Len(s) \in Nat /\ DOMAIN s = 1 .. Len(s)
      /\ TakesOut(s, no, sum) /\ Known(obs) /\ Apart(obs)
      /\ Len(obs) \in Nat /\ DOMAIN obs = 1 .. Len(obs)
  BY RecordsAre DEF Commits, Shows, ReadsAs, Sound, Types
<1>2. ASSUME NEW k \in DOMAIN s, s[k].id = id, s[k].kind # "summary"
      PROVE  /\ IsTool(s[k]) /\ s[k].kind = obs[i].kind /\ s[k].event = obs[i].event
             /\ Len(s) - k <= Len(obs) - i
  <2>1. PICK j \in DOMAIN obs :
          LET o == s[k]
              hidden == Hidden(summary) \ Pinned(obs, cited)
          IN  /\ o.id = obs[j].id /\ o.event = obs[j].event /\ Len(s) - k <= Len(obs) - j
              /\ o.talks => obs[j].talks
              /\ \/ o.kind = obs[j].kind /\ (IsTool(o) => o.id \notin hidden)
                 \/ o.kind = "voice" /\ obs[j].talks
              /\ IsTool(obs[j]) /\ ~IsTool(o) => o.id \in hidden
    BY <1>1, <1>2, PromptRecordIs, Zenon
  <2>2. j = i
    BY <1>1, <1>2, <2>1 DEF Apart
  <2>3. IsTool(s[k])
    BY <1>2, <2>1, <2>2
  <2>4. s[k].kind # "voice"
    BY <2>3 DEF IsTool, ToolKinds
  <2> QED
    BY <2>1, <2>2, <2>3, <2>4
<1>3. id \in sum.omitted \ summary.omitted
  <2>1. CASE id \in sum.compacted \ summary.compacted
    <3>1. PICK k \in DOMAIN s : s[k].id = id /\ ~IsTool(s[k]) /\ s[k].kind # "summary"
      BY <1>1, <2>1 DEF TakesOut
    <3> QED
      BY <1>2, <3>1
  <2> QED
    BY <2>1 DEF Hidden
<1>4. PICK k \in DOMAIN s : s[k].id = id /\ IsTool(s[k]) /\ k <= Len(s) - Recent
  BY <1>1, <1>3 DEF TakesOut
<1>5. id \in no /\ id \notin Pinned(obs, cited)
  BY <1>1, <1>3 DEF TakesOut
<1>6. s[k].kind = obs[i].kind /\ s[k].event = obs[i].event /\ Len(s) - k <= Len(obs) - i
  <2>1. s[k].kind # "summary"
    BY <1>4 DEF IsTool, ToolKinds
  <2> QED
    BY <1>2, <1>4, <2>1
<1>7. i <= Len(obs) - Recent
  BY <1>1, <1>4, <1>6, ContextAssumption
<1>8. s[k] \in NewlyRemoved(s, sum)
  BY <1>3, <1>4 DEF NewlyRemoved, ToSet
<1> QED
  BY <1>4, <1>5, <1>6, <1>7, <1>8

LEMMA CommitHides ==
  ASSUME Types, Sound, NEW visible, NEW no, NEW sum, NEW stored, Commits(visible, no, sum, stored),
         UNCHANGED <<obs, ledger, cited>>
  PROVE  HiddenMayGo' /\ HiddenAccounted'
<1> DEFINE s == visible.records
           removed == NewlyRemoved(s, sum)
<1>1. /\ Hidden(summary') = Hidden(sum) /\ summary'.omitted = sum.omitted
      /\ summary'.saved = Saved(summary.saved, removed, stored)
      /\ summary'.accounted = summary.accounted
              \cup EventsBy(ledger, IdsOf(ToSet(Retained(shown'))) \cup IdsOf(removed))
  BY CommitIs
<1>2. /\ judged' = judged \cup EventsOf({o \in ToSet(s) : o.id \in no})
      /\ SavesMayFail \/ stored
      /\ TakesOut(s, no, sum) /\ Shows(visible, summary) /\ s \in Seq(ARecord)
  BY DEF Commits, Shows, ReadsAs
<1>3. HiddenMayGo'
  <2>1. ASSUME NEW i \in DOMAIN obs, IsTool(obs[i]), obs[i].id \in Hidden(sum)
        PROVE  /\ obs[i].id \notin Pinned(obs, cited) /\ i <= Len(obs) - Recent
               /\ obs[i].event \in judged'
               /\ SavesMayFail \/ <<obs[i].id, obs[i].event>> \in summary'.saved
    <3>1. CASE obs[i].id \in Hidden(summary)
      BY <1>1, <1>2, <2>1, <3>1 DEF Sound, HiddenMayGo, Saved
    <3>2. CASE obs[i].id \notin Hidden(summary)
      <4>1. /\ obs[i].id \in no /\ obs[i].id \notin Pinned(obs, cited) /\ i <= Len(obs) - Recent
            /\ \E k \in DOMAIN s :
                 s[k].id = obs[i].id /\ s[k].event = obs[i].event /\ s[k] \in removed
        BY <2>1, <3>2, NewlyHidden, Zenon
      <4>2. PICK k \in DOMAIN s : s[k].id = obs[i].id /\ s[k].event = obs[i].event /\ s[k] \in removed
        BY <4>1
      <4>3. obs[i].event # 0
        <5>1. obs[i].event \in DOMAIN ledger
          BY <2>1 DEF Sound, Known, IsOfTheTask
        <5> QED
          BY <5>1, RecordsAre DEF Types
      <4>4. obs[i].event \in judged'
        <5>1. s[k] \in {o \in ToSet(s) : o.id \in no}
          BY <4>1, <4>2 DEF ToSet
        <5> QED
          BY <1>2, <4>2, <4>3, <5>1 DEF EventsOf
      <4>5. stored => <<obs[i].id, obs[i].event>> \in summary'.saved
        BY <1>1, <4>2 DEF Saved
      <4> QED
        BY <1>2, <4>1, <4>4, <4>5
    <3> QED
      BY <3>1, <3>2
  <2>2. Pinned(obs, cited)' = Pinned(obs, cited) /\ obs' = obs
    OBVIOUS
  <2>3. Hidden(summary)' = Hidden(sum)
    BY <1>1 DEF Hidden
  <2> QED
    BY <2>1, <2>2, <2>3 DEF HiddenMayGo
<1>4. ASSUME NEW id \in sum.omitted PROVE id \in IdsOf(ToSet(ledger))
  <2>1. CASE id \in summary.omitted
    BY <2>1 DEF Sound, HiddenAccounted
  <2>2. CASE id \notin summary.omitted
    <3>1. PICK k \in DOMAIN s : s[k].id = id /\ IsTool(s[k])
      BY <1>2, <2>2 DEF TakesOut
    <3>2. s[k].kind # "summary" /\ s[k].kind # "voice"
      BY <3>1 DEF IsTool, ToolKinds
    <3>3. PICK j \in DOMAIN obs : LeftOf(s[k], obs[j], Hidden(summary) \ Pinned(obs, cited))
      BY <1>2, <3>2 DEF Shows, ReadsAs
    <3>4. IsTool(obs[j]) /\ obs[j].id = id
      BY <3>1, <3>2, <3>3 DEF LeftOf, IsTool
    <3>5. obs[j].event \in DOMAIN ledger /\ id = ledger[obs[j].event].id
      BY <3>4 DEF Sound, Known, IsOfTheTask
    <3> QED
      BY <3>5 DEF IdsOf, ToSet
  <2> QED
    BY <2>1, <2>2
<1>5. ASSUME NEW e \in DOMAIN ledger, ledger[e].id \in Hidden(sum) PROVE e \in summary'.accounted
  <2>1. CASE ledger[e].id \in Hidden(summary)
    BY <1>1, <2>1 DEF Sound, HiddenAccounted
  <2>2. CASE ledger[e].id \notin Hidden(summary)
    <3>1. PICK k \in DOMAIN s : s[k].id = ledger[e].id
      BY <1>2, <1>5, <2>2 DEF TakesOut, Hidden
    <3>2. s[k] \in removed
      BY <1>5, <3>1 DEF NewlyRemoved, ToSet, Hidden
    <3>3. ledger[e].id \in IdsOf(removed)
      BY <3>1, <3>2 DEF IdsOf
    <3>4. EventOf(ledger, ledger[e].id) = e /\ e # 0
      BY EventOfLedger DEF Sound
    <3> QED
      BY <1>1, <3>3, <3>4 DEF EventsBy
  <2> QED
    BY <2>1, <2>2
<1>6. HiddenAccounted'
  <2>1. Hidden(summary)' = Hidden(sum)
    BY <1>1 DEF Hidden
  <2> QED
    BY <1>1, <1>4, <1>5, <2>1 DEF HiddenAccounted
<1> QED
  BY <1>3, <1>6

\* What a commit retains is what the new prompt has.
LEMMA CommitRetains ==
  ASSUME Types, Sound, NEW visible, NEW no, NEW sum, NEW stored, Commits(visible, no, sum, stored),
         UNCHANGED <<obs, ledger, cited, heard, decides>>
  PROVE  /\ Known(summary.retained)' /\ Apart(summary.retained)' /\ Known(obs)'
         /\ AccountedKept' /\ RetainedHeld' /\ ShownIs'
<1> DEFINE kept == WithSaved(visible, sum, stored)
           p == shown'.records
           r == Retained(shown')
           removed == NewlyRemoved(visible.records, sum)
           hidden == Hidden(kept) \ Pinned(obs, cited)
<1>1. /\ Hidden(summary') = Hidden(sum) /\ summary'.retained = r
      /\ summary'.accounted = summary.accounted \cup EventsBy(ledger, IdsOf(ToSet(r)) \cup IdsOf(removed))
  BY CommitIs
<1>2. /\ Shows(shown', kept) /\ ReadsAs(p, obs, hidden) /\ p \in Seq(ARecord)
      /\ shown'.messages[Len(shown'.messages)] = Talk[heard]
  BY DEF Commits, Shows, ReadsAs
<1>3. Hidden(kept) = Hidden(sum)
  <2>1. Shows(visible, summary) /\ TakesOut(visible.records, no, sum)
    BY DEF Commits
  <2>2. kept.compacted = sum.compacted /\ kept.omitted = sum.omitted
    BY <2>1 DEF WithSaved, TakesOut, ASummary
  <2> QED
    BY <2>2 DEF Hidden
<1>4. HiddenMayGo'
  BY CommitHides
<1>5. \A i \in DOMAIN obs : IsTool(obs[i]) /\ obs[i].id \in Hidden(kept) => obs[i].id \notin Pinned(obs, cited)
  <2>1. Hidden(summary)' = Hidden(kept) /\ Pinned(obs, cited)' = Pinned(obs, cited) /\ obs' = obs
    BY <1>1, <1>3 DEF Hidden
  <2> QED
    BY <1>4, <2>1 DEF HiddenMayGo
<1>6. /\ \A i \in DOMAIN obs :
           IsTool(obs[i]) /\ obs[i].id \notin Hidden(kept) =>
             \E o \in Carried(shown') : o.id = obs[i].id /\ o.event = obs[i].event
      /\ \A o \in Carried(shown') : o.id \notin Hidden(kept) /\ Stands(o)
  <2> HIDE DEF kept
  <2> QED
    BY <1>2, <1>5, ShowsWhole
<1>7. ShownIs'
  <2>1. Carried(shown)' = Carried(shown') /\ Hidden(summary)' = Hidden(kept)
    BY <1>1, <1>3 DEF Carried, Hidden
  <2>2. \A o : Stands(o)' <=> Stands(o)
    BY DEF Stands
  <2> QED
    BY <1>2, <1>6, <2>1, <2>2 DEF ShownIs
<1> DEFINE places == {i \in DOMAIN p : p[i].kind # "summary"}
<1>8. /\ r \in Seq(ARecord)
      /\ \A k \in DOMAIN r : \E m \in places : Rank(places, m) = k /\ r[k] = p[m]
      /\ \A m \in places : \E k \in DOMAIN r : r[k] = p[m]
  BY <1>2, RetainedIs
<1>9. summary.accounted \subseteq summary'.accounted
  BY <1>1
<1>10. ASSUME NEW o, IsOfTheTask(o) PROVE IsOfTheTask(o)'
  BY <1>9, <1>10 DEF IsOfTheTask
<1>11. Known(obs)'
  BY <1>10 DEF Known, Sound
<1> DEFINE IsFit(o) ==
             /\ IsTool(o) => o.event \in DOMAIN ledger /\ o.id = ledger[o.event].id
                             /\ o.kind = ledger[o.event].kind
             /\ o.kind = "voice" => o.event \in summary'.accounted /\ o.id = ledger[o.event].id
             /\ o.kind = "said" => o.event = 0 /\ o.id \notin IdsOf(ToSet(ledger)) /\ ~o.talks
<1>12. ASSUME NEW j \in DOMAIN r
       PROVE  \E m \in places, i \in DOMAIN obs :
                LET o == r[j]
                IN  /\ Rank(places, m) = j /\ o = p[m]
                    /\ o.id = obs[i].id /\ o.event = obs[i].event
                    /\ o.talks => obs[i].talks
                    /\ o.kind = obs[i].kind \/ (o.kind = "voice" /\ obs[i].talks)
  <2>1. PICK m \in places : Rank(places, m) = j /\ r[j] = p[m]
    BY <1>8
  <2>2. m \in DOMAIN p /\ p[m].kind # "summary"
    OBVIOUS
  <2>3. PICK i \in DOMAIN obs : LeftOf(p[m], obs[i], hidden)
    BY <1>2, <2>2 DEF ReadsAs
  <2> HIDE DEF p, r, places, hidden
  <2>4. /\ p[m].id = obs[i].id /\ p[m].event = obs[i].event
        /\ p[m].talks => obs[i].talks
        /\ p[m].kind = obs[i].kind \/ (p[m].kind = "voice" /\ obs[i].talks)
    BY <2>3 DEF LeftOf
  <2> QED
    BY <2>1, <2>4
<1> HIDE DEF p, r, places, hidden, kept, removed
<1>13. ASSUME NEW j \in DOMAIN r
       PROVE  /\ IsFit(r[j])
              /\ IsTool(r[j]) => r[j].event \in summary'.accounted /\ Holds(obs, r[j].event)
              /\ r[j].kind = "said" => r[j].id \in IdsOf(ToSet(obs))
  <2>1. PICK m \in places, i \in DOMAIN obs :
                  LET o == r[j]
                  IN  /\ Rank(places, m) = j /\ o = p[m]
                      /\ o.id = obs[i].id /\ o.event = obs[i].event
                      /\ o.talks => obs[i].talks
                      /\ o.kind = obs[i].kind \/ (o.kind = "voice" /\ obs[i].talks)
    BY <1>12
  <2>2. IsOfTheTask(obs[i])
    BY DEF Sound, Known
  <2>3. ASSUME IsTool(obs[i])
        PROVE  r[j].event \in DOMAIN ledger /\ r[j].id = ledger[r[j].event].id /\ r[j].event \in summary'.accounted
    <3>1. r[j].event \in DOMAIN ledger /\ r[j].id = ledger[r[j].event].id
      BY <2>1, <2>2, <2>3 DEF IsOfTheTask
    <3>2. EventOf(ledger, r[j].id) = r[j].event /\ r[j].event # 0
      BY <3>1, EventOfLedger DEF Sound
    <3>3. r[j].id \in IdsOf(ToSet(r))
      BY DEF IdsOf, ToSet
    <3> QED
      BY <1>1, <3>1, <3>2, <3>3 DEF EventsBy
  <2>4. obs[i].kind # "summary" /\ obs[i].kind \in Kinds
    BY RecordsAre DEF Types, InMemory
  <2>5. CASE IsTool(obs[i])
    <3>1. r[j].kind # "said"
      BY <2>1, <2>5 DEF IsTool, ToolKinds
    <3>2. IsTool(r[j]) => r[j].kind = ledger[r[j].event].kind /\ Holds(obs, r[j].event)
      <4>1. IsTool(r[j]) => r[j].kind = obs[i].kind
        BY <2>1 DEF IsTool, ToolKinds
      <4>2. obs[i].kind = ledger[obs[i].event].kind
        BY <2>2, <2>5 DEF IsOfTheTask
      <4> QED
        BY <2>1, <2>5, <4>1, <4>2 DEF Holds
    <3>3. IsFit(r[j])
      BY <2>3, <2>5, <3>1, <3>2
    <3> QED
      BY <2>3, <2>5, <3>1, <3>2, <3>3
  <2>6. CASE obs[i].kind = "voice"
    <3>1. r[j].kind = "voice"
      BY <2>1, <2>6
    <3>2. ~IsTool(r[j])
      BY <3>1 DEF IsTool, ToolKinds
    <3>3. r[j].event \in summary'.accounted /\ r[j].id = ledger[r[j].event].id
      BY <1>9, <2>1, <2>2, <2>6 DEF IsOfTheTask
    <3>4. IsFit(r[j])
      BY <3>1, <3>2, <3>3
    <3> QED
      BY <3>1, <3>2, <3>4
  <2>7. CASE obs[i].kind = "said"
    <3>1. obs[i].event = 0 /\ obs[i].id \notin IdsOf(ToSet(ledger)) /\ ~obs[i].talks
      BY <2>2, <2>7 DEF IsOfTheTask
    <3>2. r[j].kind = "said" /\ r[j].event = 0 /\ r[j].id \notin IdsOf(ToSet(ledger)) /\ ~r[j].talks
      BY <2>1, <2>7, <3>1
    <3>3. ~IsTool(r[j])
      BY <3>2 DEF IsTool, ToolKinds
    <3>4. IsFit(r[j])
      BY <3>2, <3>3
    <3>5. r[j].id \in IdsOf(ToSet(obs))
      BY <2>1 DEF IdsOf, ToSet
    <3> QED
      BY <3>3, <3>4, <3>5
  <2> QED
    BY <2>4, <2>5, <2>6, <2>7 DEF Kinds, IsTool
<1>14. Known(summary.retained)'
  BY <1>1, <1>13 DEF Known, IsOfTheTask
<1>15. Apart(summary.retained)'
  <2>1. ASSUME NEW j \in DOMAIN r, NEW l \in DOMAIN r, r[j].id = r[l].id PROVE j = l
    <3>1. PICK m \in places : Rank(places, m) = j /\ r[j] = p[m]
      BY <1>8
    <3>2. PICK n \in places : Rank(places, n) = l /\ r[l] = p[n]
      BY <1>8
    <3>3. m = n
      <4>1. m \in DOMAIN p /\ n \in DOMAIN p /\ p[m].kind # "summary" /\ p[n].kind # "summary"
        BY DEF places
      <4>2. ~ \E i, k \in DOMAIN obs : i # k /\ obs[i].id = obs[k].id
        BY DEF Sound, Apart
      <4> QED
        BY <1>2, <2>1, <3>1, <3>2, <4>1, <4>2 DEF ReadsAs
    <3> QED
      BY <3>1, <3>2, <3>3
  <2> QED
    BY <1>1, <2>1 DEF Apart
<1>16. AccountedKept'
  <2>1. ASSUME NEW i \in DOMAIN obs, IsTool(obs[i]), obs[i].id \notin Hidden(sum) PROVE Holds(r, obs[i].event)
    <3>1. PICK m \in DOMAIN p : p[m].kind = obs[i].kind /\ p[m].event = obs[i].event
      BY <1>2, <1>3, <2>1 DEF ReadsAs, hidden
    <3>2. m \in places
      BY <2>1, <3>1 DEF places, IsTool, ToolKinds
    <3>3. PICK k \in DOMAIN r : r[k] = p[m]
      BY <1>8, <3>2
    <3> QED
      BY <2>1, <3>1, <3>3 DEF Holds, IsTool
  <2>2. Hidden(summary)' = Hidden(sum)
    BY <1>1 DEF Hidden
  <2> QED
    BY <1>1, <2>1, <2>2 DEF AccountedKept
<1>17. RetainedHeld'
  <2>1. ASSUME NEW j \in DOMAIN r, IsTool(r[j]) PROVE r[j].id \notin Hidden(sum)
    <3>1. PICK m \in places : r[j] = p[m]
      BY <1>8
    <3>2. p[m] \in Carried(shown')
      BY <2>1, <3>1 DEF Carried, p, places, ToSet
    <3> QED
      BY <1>3, <1>6, <3>1, <3>2
  <2>2. Hidden(summary)' = Hidden(sum)
    BY <1>1 DEF Hidden
  <2> QED
    BY <1>1, <1>13, <2>1, <2>2 DEF RetainedHeld
<1> QED
  BY <1>7, <1>11, <1>14, <1>15, <1>16, <1>17

\* The calls a commit leaves out are those that it no longer retains, and no two are
\* of one event.
LEMMA CommitCounts ==
  ASSUME Types, Sound, NEW visible, NEW no, NEW sum, NEW stored, Commits(visible, no, sum, stored),
         UNCHANGED <<obs, ledger, cited, heard, decides>>
  PROVE  /\ \A o \in LeftOut(visible, sum) : o.event \in Gone' /\ o.event \notin Gone
         /\ \A o, q \in LeftOut(visible, sum) : o.event = q.event => o = q
         /\ Gone \subseteq Gone'
         /\ \A e \in Gone' \ Gone : \E o \in LeftOut(visible, sum) : e = o.event
<1> DEFINE s == visible.records
           r == Retained(shown')
           removed == NewlyRemoved(s, sum)
           after == summary'.accounted
<1>1. /\ Hidden(summary') = Hidden(sum) /\ summary'.retained = r
      /\ after = summary.accounted \cup EventsBy(ledger, IdsOf(ToSet(r)) \cup IdsOf(removed))
  BY CommitIs
<1>2. /\ Shows(visible, summary) /\ s \in Seq(ARecord) /\ ReadsAs(s, obs, Hidden(summary) \ Pinned(obs, cited))
      /\ TakesOut(s, no, sum)
  BY DEF Commits, Shows, ReadsAs
<1>3. Known(summary.retained)' /\ AccountedKept' /\ RetainedHeld'
  BY CommitRetains
<1>4. \A e : e \in Gone' <=> e \in after /\ Succeeded(ledger[e]) /\ ~Holds(r, e)
  <2>1. Gone' = {e \in after : Succeeded(ledger[e]) /\ ~Holds(r, e)}
    BY <1>1 DEF Gone
  <2> QED
    BY <2>1
<1>5. \A e : e \in Gone <=> e \in summary.accounted /\ Succeeded(ledger[e]) /\ ~Holds(summary.retained, e)
  BY DEF Gone
<1>6. ASSUME NEW i \in DOMAIN obs, IsTool(obs[i]), obs[i].id \notin Hidden(sum) , obs[i].event \in after
      PROVE  Holds(r, obs[i].event)
  <2>1. Hidden(summary)' = Hidden(sum)
    BY <1>1 DEF Hidden
  <2> QED
    BY <1>1, <1>3, <1>6, <2>1 DEF AccountedKept
<1>7. ASSUME NEW j \in DOMAIN r, IsTool(r[j])
      PROVE  /\ r[j].event \in DOMAIN ledger /\ r[j].id = ledger[r[j].event].id
             /\ r[j].id \notin Hidden(sum)
  <2>1. Hidden(summary)' = Hidden(sum)
    BY <1>1 DEF Hidden
  <2> QED
    BY <1>1, <1>3, <1>7, <2>1 DEF Known, IsOfTheTask, RetainedHeld
<1>8. Hidden(summary) \subseteq Hidden(sum)
  BY <1>2 DEF TakesOut, Hidden
<1> HIDE DEF r, s, removed, after
\* A call the prompt had is a call in memory.
<1>9. ASSUME NEW k \in DOMAIN s, IsTool(s[k])
      PROVE  \E i \in DOMAIN obs :
               /\ IsTool(obs[i]) /\ obs[i].id = s[k].id /\ obs[i].event = s[k].event /\ obs[i].kind = s[k].kind
               /\ s[k].event \in DOMAIN ledger /\ s[k].id = ledger[s[k].event].id /\ s[k].kind = ledger[s[k].event].kind
               /\ s[k].id \notin Hidden(summary)
  <2>1. s[k].kind # "summary" /\ s[k].kind # "voice"
    BY <1>9 DEF IsTool, ToolKinds
  <2>2. PICK i \in DOMAIN obs : LeftOf(s[k], obs[i], Hidden(summary) \ Pinned(obs, cited))
    BY <1>2, <2>1 DEF ReadsAs
  <2>3. /\ obs[i].id = s[k].id /\ obs[i].event = s[k].event /\ obs[i].kind = s[k].kind
        /\ obs[i].id \notin Hidden(summary) \ Pinned(obs, cited)
    BY <1>9, <2>1, <2>2 DEF LeftOf
  <2>4. IsTool(obs[i])
    BY <1>9, <2>3 DEF IsTool
  <2>5. obs[i].id \notin Hidden(summary)
    BY <2>3, <2>4 DEF Sound, HiddenMayGo
  <2>6. IsOfTheTask(obs[i])
    BY DEF Sound, Known
  <2> QED
    BY <2>3, <2>4, <2>5, <2>6 DEF IsOfTheTask
<1>10. \A o \in LeftOut(visible, sum) :
         /\ \E k \in DOMAIN s : o = s[k] /\ IsTool(s[k])
         /\ o \in removed /\ Succeeded(o) /\ o.id \notin IdsOf({q \in ToSet(r) : IsTool(q)})
  <2> SUFFICES ASSUME NEW o \in LeftOut(visible, sum)
               PROVE  /\ \E k \in DOMAIN s : o = s[k] /\ IsTool(s[k])
                      /\ o \in removed /\ Succeeded(o) /\ o.id \notin IdsOf({q \in ToSet(r) : IsTool(q)})
    OBVIOUS
  <2>1. o \in removed /\ Succeeded(o) /\ o.id \notin IdsOf({q \in ToSet(r) : IsTool(q)})
    BY DEF LeftOut, removed, r, s
  <2>2. o \in ToSet(s)
    BY <2>1 DEF removed, NewlyRemoved
  <2>3. IsTool(o)
    BY <2>1 DEF Succeeded, IsTool, ToolKinds
  <2> QED
    BY <2>1, <2>2, <2>3 DEF ToSet
<1>11. ASSUME NEW o \in LeftOut(visible, sum) PROVE o.event \in Gone' /\ o.event \notin Gone
  <2>1. PICK k \in DOMAIN s : o = s[k] /\ IsTool(s[k])
    BY <1>10
  <2>2. PICK i \in DOMAIN obs :
               /\ IsTool(obs[i]) /\ obs[i].id = o.id /\ obs[i].event = o.event
               /\ o.event \in DOMAIN ledger /\ o.id = ledger[o.event].id /\ o.kind = ledger[o.event].kind
               /\ o.id \notin Hidden(summary)
    BY <1>9, <2>1
  <2>3. o.event \in after
    <3>1. EventOf(ledger, o.id) = o.event /\ o.event # 0
      BY <2>2, EventOfLedger DEF Sound
    <3>2. o.id \in IdsOf(removed)
      BY <1>10 DEF IdsOf
    <3> QED
      BY <1>1, <3>1, <3>2 DEF EventsBy
  <2>4. Succeeded(ledger[o.event])
    BY <1>10, <2>2 DEF Succeeded
  <2>5. ~Holds(r, o.event)
    <3> SUFFICES ASSUME Holds(r, o.event) PROVE FALSE
      OBVIOUS
    <3>1. PICK j \in DOMAIN r : IsTool(r[j]) /\ r[j].event = o.event
      BY DEF Holds
    <3>2. r[j].id = o.id
      BY <1>7, <2>2, <3>1
    <3>3. o.id \in IdsOf({q \in ToSet(r) : IsTool(q)})
      BY <3>1, <3>2 DEF IdsOf, ToSet
    <3> QED
      BY <1>10, <3>3
  <2>6. o.event \notin Gone
    <3>1. o.event \in summary.accounted => Holds(summary.retained, o.event)
      BY <2>2 DEF Sound, AccountedKept
    <3> QED
      BY <1>5, <3>1
  <2> QED
    BY <1>4, <2>3, <2>4, <2>5, <2>6
<1>12. ASSUME NEW o \in LeftOut(visible, sum), NEW q \in LeftOut(visible, sum), o.event = q.event PROVE o = q
  <2>1. PICK k \in DOMAIN s : o = s[k] /\ IsTool(s[k])
    BY <1>10
  <2>2. PICK l \in DOMAIN s : q = s[l] /\ IsTool(s[l])
    BY <1>10
  <2>3. o.id = ledger[o.event].id /\ q.id = ledger[q.event].id
    BY <1>9, <2>1, <2>2
  <2>4. s[k].kind # "summary" /\ s[l].kind # "summary" /\ s[k].id = s[l].id
    BY <1>12, <2>1, <2>2, <2>3 DEF IsTool, ToolKinds
  <2>5. k = l
    <3>1. ~ \E i, j \in DOMAIN obs : i # j /\ obs[i].id = obs[j].id
      BY DEF Sound, Apart
    <3> QED
      BY <1>2, <2>4, <3>1 DEF ReadsAs
  <2> QED
    BY <2>1, <2>2, <2>5
<1>13. ASSUME NEW e \in Gone PROVE e \in Gone'
  <2>1. e \in summary.accounted /\ Succeeded(ledger[e]) /\ ~Holds(summary.retained, e)
    BY <1>5
  <2>2. ~Holds(r, e)
    <3> SUFFICES ASSUME Holds(r, e) PROVE FALSE
      OBVIOUS
    <3>1. PICK j \in DOMAIN r : IsTool(r[j]) /\ r[j].event = e
      BY DEF Holds
    <3>2. Holds(obs, e)
      BY <1>1, <1>3, <3>1, <2>1 DEF RetainedHeld, Succeeded, Known, IsOfTheTask
    <3>3. PICK i \in DOMAIN obs : IsTool(obs[i]) /\ obs[i].event = e
      BY <3>2 DEF Holds
    <3>4. obs[i].id = ledger[e].id /\ r[j].id = ledger[e].id
      BY <1>7, <3>1, <3>3 DEF Sound, Known, IsOfTheTask
    <3>5. obs[i].id \notin Hidden(summary)
      BY <1>7, <1>8, <3>1, <3>4
    <3> QED
      BY <2>1, <3>3, <3>5 DEF Sound, AccountedKept
  <2> QED
    BY <1>1, <1>4, <2>1, <2>2
\* A call in memory that is neither retained any more nor counted before is left out.
<1>14. ASSUME NEW i \in DOMAIN obs, IsTool(obs[i]), obs[i].id \notin Hidden(summary), obs[i].event \in Gone',
              obs[i].event \notin summary.accounted \/ Holds(summary.retained, obs[i].event)
       PROVE  \E o \in LeftOut(visible, sum) : obs[i].event = o.event
  <2> DEFINE e == obs[i].event
  <2>1. e \in DOMAIN ledger /\ obs[i].id = ledger[e].id /\ obs[i].kind = ledger[e].kind
    BY <1>14 DEF Sound, Known, IsOfTheTask
  <2>2. obs[i].id \in Hidden(sum)
    BY <1>4, <1>6, <1>14
  <2>3. PICK k \in DOMAIN s : s[k].id = obs[i].id /\ s[k].event = e /\ s[k].kind = obs[i].kind /\ s[k] \in removed
    BY <1>14, <2>2, NewlyHidden, Zenon DEF s, removed
  <2>4. Succeeded(s[k])
    BY <1>4, <1>14, <2>1, <2>3 DEF Succeeded
  <2>5. EventOf(ledger, s[k].id) = e
    BY <2>1, <2>3, EventOfLedger DEF Sound
  <2>6. e \notin CountedBefore(summary, ledger)
    <3>1. ASSUME Holds(summary.retained, e) PROVE e \in EventsBy(ledger, IdsOf(ToSet(summary.retained)))
      <4>1. PICK j \in DOMAIN summary.retained :
              IsTool(summary.retained[j]) /\ summary.retained[j].event = e
        BY <3>1 DEF Holds
      <4>2. summary.retained[j].id = ledger[e].id
        BY <4>1 DEF Sound, Known, IsOfTheTask
      <4>3. ledger[e].id \in IdsOf(ToSet(summary.retained))
        BY <4>2 DEF IdsOf, ToSet
      <4>4. EventOf(ledger, ledger[e].id) = e /\ e # 0
        BY <2>1, EventOfLedger DEF Sound
      <4> QED
        BY <4>3, <4>4 DEF EventsBy
    <3> QED
      BY <1>14, <3>1 DEF CountedBefore
  <2>7. s[k].id \notin IdsOf({q \in ToSet(r) : IsTool(q)})
    <3> SUFFICES ASSUME s[k].id \in IdsOf({q \in ToSet(r) : IsTool(q)}) PROVE FALSE
      OBVIOUS
    <3>1. PICK j \in DOMAIN r : IsTool(r[j]) /\ r[j].id = s[k].id
      BY DEF IdsOf, ToSet
    <3> QED
      BY <1>7, <2>2, <2>3, <3>1
  <2>8. s[k] \in LeftOut(visible, sum)
    BY <2>3, <2>4, <2>5, <2>6, <2>7 DEF LeftOut, removed, r, s
  <2> QED
    BY <2>3, <2>8
<1>15. ASSUME NEW e \in Gone', e \notin Gone PROVE \E o \in LeftOut(visible, sum) : e = o.event
  <2>1. e \in after /\ Succeeded(ledger[e]) /\ ~Holds(r, e)
    BY <1>4
  <2>2. e \in DOMAIN ledger
    BY <1>1, <2>1, EventsAreOfLedger DEF Types
  <2>3. ledger[e].kind # "fail"
    BY <2>1 DEF Succeeded
  <2>4. CASE e \in summary.accounted
    <3>1. Holds(summary.retained, e)
      BY <1>5, <1>15, <2>1, <2>4
    <3>2. PICK j \in DOMAIN summary.retained : IsTool(summary.retained[j]) /\ summary.retained[j].event = e
      BY <3>1 DEF Holds
    <3>3. summary.retained[j].id = ledger[e].id /\ summary.retained[j].kind = ledger[e].kind
      BY <3>2 DEF Sound, Known, IsOfTheTask
    <3>4. ledger[e].id \notin Hidden(summary) /\ Holds(obs, e)
      BY <2>3, <3>2, <3>3 DEF Sound, RetainedHeld
    <3>5. PICK i \in DOMAIN obs : IsTool(obs[i]) /\ obs[i].event = e
      BY <3>4 DEF Holds
    <3>6. obs[i].id = ledger[e].id
      BY <3>5 DEF Sound, Known, IsOfTheTask
    <3> QED
      BY <1>14, <1>15, <3>1, <3>4, <3>5, <3>6
  <2>5. CASE e \notin summary.accounted
    <3>1. PICK i \in DOMAIN obs : IsTool(obs[i]) /\ obs[i].event = e
      BY <2>2, <2>3, <2>5 DEF Sound, UnaccountedHeld, Holds
    <3>2. obs[i].id = ledger[e].id
      BY <3>1 DEF Sound, Known, IsOfTheTask
    <3>3. ledger[e].id \notin Hidden(summary)
      BY <2>2, <2>5 DEF Sound, HiddenAccounted
    <3> QED
      BY <1>14, <1>15, <2>5, <3>1, <3>2, <3>3
  <2> QED
    BY <2>4, <2>5
<1> QED
  BY <1>11, <1>12, <1>13, <1>15

LEMMA SameSize ==
  ASSUME NEW S, NEW T, NEW f \in [S -> T], IsFiniteSet(S),
         \A x, y \in S : f[x] = f[y] => x = y,
         \A t \in T : \E x \in S : f[x] = t
  PROVE  IsFiniteSet(T) /\ Cardinality(T) = Cardinality(S)
<1>1. f \in Surjection(S, T)
  BY Zenon DEF Surjection
<1>2. f \in Injection(S, T)
  BY Zenon DEF Injection, IsInjective
<1>3. ExistsBijection(S, T)
  BY <1>1, <1>2, Zenon DEF Bijection, ExistsBijection
<1> QED
  BY <1>3, FS_Bijection, Zenon

LEMMA CommitKeepsCount ==
  ASSUME Types, Sound, NEW visible, NEW no, NEW sum, NEW stored, Commits(visible, no, sum, stored),
         UNCHANGED <<obs, ledger, cited, heard, decides>>
  PROVE  GoneCounted'
<1> DEFINE L == LeftOut(visible, sum)
           after == Gone'
           more == after \ Gone
           f == [o \in L |-> o.event]
<1>1. /\ \A o \in L : o.event \in after /\ o.event \notin Gone
      /\ \A o, q \in L : o.event = q.event => o = q
      /\ Gone \subseteq after
      /\ \A e \in after \ Gone : \E o \in L : e = o.event
  BY CommitCounts
<1>2. IsFiniteSet(L) /\ summary'.tools = summary.tools + Cardinality(L)
  BY CommitIs
<1>3. IsFiniteSet(Gone)
  <2>1. IsFiniteSet(1 .. Len(ledger)) /\ DOMAIN ledger = 1 .. Len(ledger)
    BY FS_Interval, RecordsAre DEF Types
  <2>2. Gone \subseteq DOMAIN ledger
    BY DEF Gone, Types
  <2> QED
    BY <2>1, <2>2, FS_Subset
<1> HIDE DEF L, after
<1>4. IsFiniteSet(more) /\ Cardinality(more) = Cardinality(L)
  <2>1. f \in [L -> more]
    BY <1>1
  <2>2. \A x, y \in L : f[x] = f[y] => x = y
    BY <1>1
  <2>3. \A e \in more : \E o \in L : f[o] = e
    BY <1>1
  <2> HIDE DEF f, more
  <2> QED
    BY <1>2, <2>1, <2>2, <2>3, SameSize
<1>5. Cardinality(after) = Cardinality(Gone) + Cardinality(L)
  <2>1. after = Gone \cup more /\ Gone \cap more = {}
    BY <1>1
  <2>2. Cardinality(Gone \cup more) = Cardinality(Gone) + Cardinality(more) - Cardinality(Gone \cap more)
    BY <1>3, <1>4, FS_Union
  <2>3. Cardinality({}) = 0 /\ Cardinality(Gone) \in Nat /\ Cardinality(more) \in Nat
    BY <1>3, <1>4, FS_EmptySet, FS_CardinalityType
  <2> HIDE DEF more
  <2>4. Cardinality(after) = Cardinality(Gone \cup more) /\ Cardinality(Gone \cap more) = 0
    BY <2>1, <2>3, Zenon
  <2> QED
    BY <1>4, <2>2, <2>3, <2>4
<1>6. summary.tools = Cardinality(Gone)
  BY DEF Sound, GoneCounted
<1>7. summary'.tools = Cardinality(after)
  BY <1>2, <1>5, <1>6
<1> QED
  BY <1>7 DEF GoneCounted, after

LEMMA CommitKeepsSound ==
  ASSUME Types, Sound, Prompt, NEW visible, NEW no, NEW sum, NEW stored, Commits(visible, no, sum, stored)
  PROVE  Sound'
<1>1. UNCHANGED <<obs, ledger, cited, heard, decides, resumes>>
  BY PromptCases
<1>2. HiddenMayGo' /\ HiddenAccounted'
  BY <1>1, CommitHides
<1>3. /\ Known(summary.retained)' /\ Apart(summary.retained)' /\ Known(obs)'
      /\ AccountedKept' /\ RetainedHeld' /\ ShownIs'
  BY <1>1, CommitRetains
<1>4. GoneCounted'
  BY <1>1, CommitKeepsCount
<1>5. NumbersApart' /\ Apart(obs)'
  BY <1>1 DEF Sound, NumbersApart, Apart
<1>6. UnaccountedHeld'
  <2>1. summary.accounted \subseteq summary'.accounted
    BY CommitIs
  <2>2. \A e \in DOMAIN ledger \ summary'.accounted : ledger[e].kind # "fail" => Holds(obs, e)
    BY <2>1 DEF Sound, UnaccountedHeld
  <2> QED
    BY <1>1, <2>2 DEF UnaccountedHeld, Holds
<1>7. OpenOrJudged'
  <2>1. judged \subseteq judged'
    BY DEF Commits
  <2>2. ASSUME NEW e \in DOMAIN ledger, Holds(obs, e), ledger[e].id \in Hidden(summary')
        PROVE  e \in judged' /\ ledger[e].id \notin cited
    <3>1. PICK i \in DOMAIN obs : IsTool(obs[i]) /\ obs[i].event = e
      BY <2>2 DEF Holds
    <3>2. obs[i].id = ledger[e].id
      BY <3>1 DEF Sound, Known, IsOfTheTask
    <3>3. Hidden(summary)' = Hidden(summary') /\ Pinned(obs, cited)' = Pinned(obs, cited)
      BY <1>1 DEF Hidden
    <3>4. obs[i].id \notin Pinned(obs, cited) /\ obs[i].event \in judged'
      BY <1>1, <1>2, <2>2, <3>1, <3>2, <3>3 DEF HiddenMayGo
    <3> QED
      BY <3>1, <3>2, <3>4 DEF Pinned
  <2>3. Hidden(summary)' = Hidden(summary')
    BY DEF Hidden
  <2> QED
    BY <1>1, <2>1, <2>2, <2>3 DEF Sound, OpenOrJudged, Holds
<1> QED
  BY <1>2, <1>3, <1>4, <1>5, <1>6, <1>7 DEF Sound

-----------------------------------------------------------------------------
(* The invariant.                                                          *)

LEMMA UnresumedInit == Init => Unresumed
<1> SUFFICES ASSUME Init PROVE Unresumed
  OBVIOUS
<1>1. ledger = <<>> /\ summary = NoSummary /\ intact = TRUE
  BY DEF Init
<1>2. DOMAIN ledger = {} /\ summary.compacted = {}
  BY <1>1 DEF NoSummary
<1>3. NumbersTaken = {}
  BY <1>2 DEF NumbersTaken, IdsOf, ToSet
<1> QED
  BY <1>1, <1>2, <1>3, Zenon DEF Unresumed

LEMMA CallKeepsUnresumed ==
  ASSUME Types, Unresumed, Call
  PROVE  Unresumed'
<1>1. PICK o, q : Calls(o, q)
  BY CallIs
<1>2. UNCHANGED <<summary, resumes>> /\ intact' = (intact /\ NextID(obs) \notin NumbersTaken)
  BY CallIs
<1> SUFFICES ASSUME resumes = 0
             PROVE  /\ intact' /\ NumbersTaken' \subseteq IdsOf(ToSet(obs'))
                    /\ \A e \in DOMAIN ledger' : Holds(obs', e)
  BY <1>2 DEF Unresumed
<1> DEFINE n == NextID(obs)
<1>3. /\ obs \in Seq(ARecord) /\ ledger \in Seq(ARecord) /\ o \in ARecord /\ q \in ARecord
      /\ ledger' = Append(ledger, o) /\ obs' = Append(obs, q)
      /\ o.id = n /\ q.id = n /\ q.event = Len(ledger) + 1 /\ IsTool(q)
  BY <1>1 DEF Types, Calls, IsTool
<1>4. intact /\ NumbersTaken \subseteq IdsOf(ToSet(obs)) /\ \A e \in DOMAIN ledger : Holds(obs, e)
  BY DEF Unresumed
<1>5. n \notin IdsOf(ToSet(obs))
  BY <1>3, NextIDIsNew, RecordsAre DEF IdsOf, ToSet
<1>6. intact'
  <2> HIDE DEF n
  <2>1. n \notin NumbersTaken
    BY <1>4, <1>5
  <2> QED
    BY <1>2, <1>4, <2>1, Zenon DEF n
<1> HIDE DEF n
<1>7. /\ DOMAIN ledger \subseteq DOMAIN ledger' /\ \A i \in DOMAIN ledger : ledger'[i] = ledger[i]
      /\ ledger'[Len(ledger) + 1] = o /\ Len(ledger) + 1 \in DOMAIN ledger'
      /\ \A i \in DOMAIN ledger' : i \in DOMAIN ledger \/ i = Len(ledger) + 1
  BY <1>3, AppendIs
<1>8. /\ DOMAIN obs \subseteq DOMAIN obs' /\ \A i \in DOMAIN obs : obs'[i] = obs[i]
      /\ obs'[Len(obs) + 1] = q /\ Len(obs) + 1 \in DOMAIN obs'
  BY <1>3, AppendIs
<1>9. NumbersTaken' \subseteq NumbersTaken \cup {n}
  BY <1>2, <1>3, <1>7 DEF NumbersTaken, IdsOf, ToSet
<1>10. IdsOf(ToSet(obs)) \cup {n} \subseteq IdsOf(ToSet(obs'))
  BY <1>3, <1>8 DEF IdsOf, ToSet
<1>11. \A e \in DOMAIN ledger' : Holds(obs', e)
  <2>1. \A e : Holds(obs, e) => Holds(obs', e)
    BY <1>8 DEF Holds
  <2>2. Holds(obs', Len(ledger) + 1)
    <3>1. IsTool(obs'[Len(obs) + 1]) /\ obs'[Len(obs) + 1].event = Len(ledger) + 1
      BY <1>3, <1>8
    <3> QED
      BY <1>8, <3>1, Zenon DEF Holds
  <2> QED
    BY <1>4, <1>7, <2>1, <2>2
<1> QED
  BY <1>4, <1>6, <1>9, <1>10, <1>11

LEMMA SayKeepsUnresumed ==
  ASSUME Types, Unresumed, Say
  PROVE  Unresumed'
<1>1. PICK q : Says(q)
  BY SayIs
<1>2. UNCHANGED <<ledger, summary, resumes>> /\ intact' = (intact /\ NextID(obs) \notin NumbersTaken)
  BY SayIs
<1> SUFFICES ASSUME resumes = 0
             PROVE  /\ intact' /\ NumbersTaken' \subseteq IdsOf(ToSet(obs'))
                    /\ \A e \in DOMAIN ledger' : Holds(obs', e)
  BY <1>2 DEF Unresumed
<1>3. obs \in Seq(ARecord) /\ q \in ARecord /\ obs' = Append(obs, q)
  BY <1>1 DEF Types, Says
<1>4. intact /\ NumbersTaken \subseteq IdsOf(ToSet(obs)) /\ \A e \in DOMAIN ledger : Holds(obs, e)
  BY DEF Unresumed
<1>5. NextID(obs) \notin IdsOf(ToSet(obs))
  BY <1>3, NextIDIsNew, RecordsAre DEF IdsOf, ToSet
<1>6. intact'
  <2>1. NextID(obs) \notin NumbersTaken
    BY <1>4, <1>5
  <2> QED
    BY <1>2, <1>4, <2>1, Zenon
<1>7. DOMAIN obs \subseteq DOMAIN obs' /\ \A i \in DOMAIN obs : obs'[i] = obs[i]
  BY <1>3, AppendIs
<1>8. NumbersTaken' = NumbersTaken /\ IdsOf(ToSet(obs)) \subseteq IdsOf(ToSet(obs'))
  BY <1>2, <1>7 DEF NumbersTaken, IdsOf, ToSet
<1>9. \A e : Holds(obs, e) => Holds(obs', e)
  BY <1>7 DEF Holds
<1> QED
  BY <1>2, <1>4, <1>6, <1>8, <1>9

LEMMA CommitKeepsUnresumed ==
  ASSUME Types, Unresumed, Prompt, NEW visible, NEW no, NEW sum, NEW stored, Commits(visible, no, sum, stored)
  PROVE  Unresumed'
<1>1. UNCHANGED <<obs, ledger, resumes, intact>>
  BY PromptCases
<1>2. /\ Shows(visible, summary) /\ TakesOut(visible.records, no, sum)
      /\ ReadsAs(visible.records, obs, Hidden(summary) \ Pinned(obs, cited))
  BY DEF Commits, Shows
<1>3. ASSUME NEW id \in sum.compacted PROVE id \in summary.compacted \/ id \in IdsOf(ToSet(obs))
  <2> SUFFICES ASSUME id \notin summary.compacted PROVE id \in IdsOf(ToSet(obs))
    OBVIOUS
  <2>1. PICK k \in DOMAIN visible.records : visible.records[k].id = id /\ visible.records[k].kind # "summary"
    BY <1>2, <1>3 DEF TakesOut
  <2>2. PICK i \in DOMAIN obs : visible.records[k].id = obs[i].id
    BY <1>2, <2>1 DEF ReadsAs, LeftOf
  <2> QED
    BY <2>1, <2>2 DEF IdsOf, ToSet
<1>4. summary'.compacted = sum.compacted
  BY CommitIs
<1> SUFFICES ASSUME resumes = 0
             PROVE  /\ intact' /\ NumbersTaken' \subseteq IdsOf(ToSet(obs'))
                    /\ \A e \in DOMAIN ledger' : Holds(obs', e)
  BY <1>1 DEF Unresumed
<1>5. intact /\ NumbersTaken \subseteq IdsOf(ToSet(obs)) /\ \A e \in DOMAIN ledger : Holds(obs, e)
  BY DEF Unresumed
<1>6. NumbersTaken' \subseteq IdsOf(ToSet(obs))
  BY <1>1, <1>3, <1>4, <1>5 DEF NumbersTaken
<1> QED
  BY <1>1, <1>5, <1>6, Zenon

LEMMA UnresumedStep ==
  ASSUME Types, Unresumed, [Next]_vars
  PROVE  Unresumed'
<1>1. CASE Prompt
  <2>1. UNCHANGED <<obs, ledger, resumes, intact>>
    BY <1>1, PromptCases
  <2>2. CASE UNCHANGED <<summary, judged>>
    BY <2>1, <2>2 DEF Unresumed, NumbersTaken, Holds
  <2>3. CASE \E visible, no, sum, stored : Commits(visible, no, sum, stored)
    BY <1>1, <2>3, CommitKeepsUnresumed
  <2> QED
    BY <1>1, <2>2, <2>3, PromptCases
<1>2. CASE Call
  BY <1>2, CallKeepsUnresumed
<1>3. CASE Say
  BY <1>3, SayKeepsUnresumed
<1>4. CASE Cite
  <2>1. UNCHANGED <<obs, ledger, summary, resumes, intact>>
    BY <1>4 DEF Cite
  <2> QED
    BY <2>1 DEF Unresumed, NumbersTaken, Holds
<1>5. CASE Resume
  <2>1. resumes' = resumes + 1 /\ resumes \in Nat
    BY <1>5 DEF Resume, Types
  <2>2. resumes' # 0
    BY <2>1
  <2> QED
    BY <2>2 DEF Unresumed
<1>6. CASE UNCHANGED vars
  BY <1>6 DEF vars, Unresumed, NumbersTaken, Holds
<1> QED
  BY <1>1, <1>2, <1>3, <1>4, <1>5, <1>6 DEF Next

LEMMA SoundInit == Init => Sound
<1> SUFFICES ASSUME Init PROVE Sound
  OBVIOUS
<1>1. obs = <<>> /\ ledger = <<>> /\ summary = NoSummary /\ pc = "thinking"
  BY DEF Init
<1>2. /\ DOMAIN obs = {} /\ DOMAIN ledger = {} /\ DOMAIN summary.retained = {}
      /\ summary.accounted = {} /\ summary.omitted = {} /\ summary.tools = 0
  BY <1>1 DEF NoSummary
<1>3. NumbersApart /\ Known(obs) /\ Apart(obs) /\ Known(summary.retained) /\ Apart(summary.retained)
  BY <1>2, Zenon DEF NumbersApart, Known, Apart
<1>4. HiddenAccounted /\ AccountedKept /\ RetainedHeld /\ UnaccountedHeld /\ HiddenMayGo /\ OpenOrJudged
  BY <1>2, Zenon DEF HiddenAccounted, AccountedKept, RetainedHeld, UnaccountedHeld, HiddenMayGo, OpenOrJudged
<1>5. ShownIs
  BY <1>1 DEF ShownIs
<1>6. GoneCounted
  <2>1. Gone = {}
    BY <1>2 DEF Gone
  <2> QED
    BY <1>2, <2>1, FS_EmptySet DEF GoneCounted
<1> QED
  BY <1>3, <1>4, <1>5, <1>6 DEF Sound

LEMMA SoundStep ==
  ASSUME Types, intact => Sound, [Next]_vars, intact'
  PROVE  Sound'
<1>1. CASE Prompt
  <2>1. UNCHANGED intact
    BY <1>1, PromptCases
  <2>2. Sound
    BY <2>1
  <2>3. CASE Shows(shown', summary) /\ UNCHANGED <<summary, judged>>
    BY <1>1, <2>2, <2>3, ShownKeepsSound
  <2>4. CASE \E visible, no, sum, stored : Commits(visible, no, sum, stored)
    BY <1>1, <2>2, <2>4, CommitKeepsSound
  <2> QED
    BY <1>1, <2>3, <2>4, PromptCases
<1>2. CASE Call
  <2>1. intact /\ NextID(obs) \notin NumbersTaken
    BY <1>2, CallIs, Zenon
  <2> QED
    BY <1>2, <2>1, CallKeepsSound
<1>3. CASE Say
  <2>1. intact /\ NextID(obs) \notin NumbersTaken
    BY <1>3, SayIs, Zenon
  <2> QED
    BY <1>3, <2>1, SayKeepsSound
<1>4. CASE Cite
  <2>1. UNCHANGED intact
    BY <1>4 DEF Cite
  <2> QED
    BY <1>4, <2>1, CiteKeepsSound
<1>5. CASE Resume
  <2>1. PICK how \in Resumes :
          /\ obs' = IF how = "steered" THEN StartedOver ELSE Restored(how)
          /\ intact' = (intact /\ how # "steered")
    BY <1>5, Zenon DEF Resume
  <2>2. intact /\ how # "steered"
    BY <2>1, Zenon
  <2>3. obs' = Restored(how)
    BY <2>1, <2>2, Zenon
  <2> QED
    BY <1>5, <2>2, <2>3, ResumeKeepsSound
<1>6. CASE UNCHANGED vars
  <2>1. /\ UNCHANGED <<obs, ledger, cited, heard, summary, shown, decides, judged, resumes, pc, intact>>
        /\ Pinned(obs, cited)' = Pinned(obs, cited)
    BY <1>6 DEF vars
  <2>2. Sound
    BY <2>1
  <2>3. ShownIs' /\ HiddenMayGo'
    BY <2>1, <2>2 DEF Sound, ShownIs, HiddenMayGo, Hidden, Carried, Stands
  <2> QED
    BY <2>1, <2>2, <2>3
    DEF Sound, NumbersApart, Known, IsOfTheTask, Apart, HiddenAccounted, AccountedKept, RetainedHeld, UnaccountedHeld,
        OpenOrJudged, GoneCounted, Gone, Hidden, Holds
<1> QED
  BY <1>1, <1>2, <1>3, <1>4, <1>5, <1>6 DEF Next

\* What is in memory, in the ledger and in the checkpoint agree in every state
\* the task reaches, and while it is intact the prompt, the records that are hidden
\* and the counts of the checkpoint agree with them (agent_turn_state.go,
\* task_context_summary.go, task_context_selection.go).
THEOREM ContextInvariant == Spec => []IInv
<1>1. Init => IInv
  BY TypesInit, UnresumedInit, SoundInit DEF IInv
<1>2. IInv /\ [Next]_vars => IInv'
  <2> SUFFICES ASSUME IInv, [Next]_vars PROVE IInv'
    OBVIOUS
  <2>1. Types' /\ Unresumed'
    BY TypesStep, UnresumedStep DEF IInv
  <2>2. intact' => Sound'
    BY SoundStep DEF IInv
  <2> QED
    BY <2>1, <2>2 DEF IInv
<1> QED
  BY <1>1, <1>2, PTL DEF Spec

-----------------------------------------------------------------------------
(* What the invariant says of the prompt.                                  *)

LEMMA KnownToolIs ==
  ASSUME Types, NEW o, IsTool(o), IsOfTheTask(o)
  PROVE  o.event \in DOMAIN ledger /\ o.event # 0 /\ o.id = ledger[o.event].id /\ o.kind = ledger[o.event].kind
<1>1. o.event \in DOMAIN ledger /\ o.id = ledger[o.event].id /\ o.kind = ledger[o.event].kind
  BY DEF IsOfTheTask
<1> QED
  BY <1>1, RecordsAre DEF Types

\* The prompt carries the recent records, and the newest, the pinned and the evidence
\* whole, compactions and resumes notwithstanding; what of the ledger it does not carry
\* a decision called unrelated, and what it cuts it cuts for want of a decision model,
\* in an intact task (promptStateForAction and selectContextForAction).
THEOREM HiddenIsSettledAlways == Spec => []HiddenIsSettled
<1>1. ASSUME IInv PROVE HiddenIsSettled
  <2>1. Types /\ Unresumed /\ (intact => Sound)
    BY <1>1 DEF IInv
  <2>2. TypeOK
    <3>1. \A i \in DOMAIN obs : obs[i].kind \in Kinds /\ obs[i].event \in 0 .. Len(ledger)
      BY <2>1, RecordsAre DEF Types, InMemory
    <3> QED
      BY <2>1, <3>1 DEF TypeOK, Types, Unresumed
  <2> SUFFICES ASSUME intact, pc = "acting" PROVE RecentIsShown /\ EvidenceIsShown /\ HiddenWasJudged
    BY <2>2, Zenon DEF HiddenIsSettled, RecentIsShown, EvidenceIsShown, HiddenWasJudged
  <2>3. Types /\ Unresumed /\ Sound /\ ShownIs
    BY <2>1 DEF Sound
  \* A record in memory that is not hidden is carried, and it is cut only where it may be.
  <2>4. ASSUME NEW i \in DOMAIN obs, IsTool(obs[i]), obs[i].id \notin Hidden(summary)
        PROVE  /\ obs[i].event \in DOMAIN ledger /\ obs[i].event # 0 /\ obs[i].id = ledger[obs[i].event].id
               /\ \E o \in Carried(shown) :
                    /\ o.id = obs[i].id /\ o.event = obs[i].event
                    /\ o.cut => ~decides /\ i < Len(obs) /\ obs[i].id \notin Pinned(obs, cited)
    <3>1. obs[i].event \in DOMAIN ledger /\ obs[i].event # 0 /\ obs[i].id = ledger[obs[i].event].id
      BY <2>3, <2>4, KnownToolIs DEF Sound, Known
    <3>2. PICK o \in Carried(shown) : o.id = obs[i].id /\ o.event = obs[i].event
      BY <2>3, <2>4 DEF ShownIs
    <3>3. PICK j \in DOMAIN obs :
            /\ obs[j].id = o.id
            /\ o.cut => ~decides /\ j < Len(obs) /\ o.id \notin Pinned(obs, cited)
      BY <2>3 DEF ShownIs, Stands
    <3>4. i = j
      BY <2>3, <3>2, <3>3 DEF Sound, Apart
    <3> QED
      BY <3>1, <3>2, <3>3, <3>4
  <2>5. ASSUME NEW i \in DOMAIN obs, IsTool(obs[i]), obs[i].id \notin Hidden(summary)
        PROVE  /\ obs[i].event \in EventsOf(Carried(shown))
               /\ i = Len(obs) \/ obs[i].id \in Pinned(obs, cited) => obs[i].event \in EventsOf(Whole(shown))
    <3>1. obs[i].event # 0
      BY <2>4, <2>5
    <3>2. PICK o \in Carried(shown) :
            /\ o.event = obs[i].event
            /\ o.cut => i < Len(obs) /\ obs[i].id \notin Pinned(obs, cited)
      BY <2>4, <2>5
    <3>3. i = Len(obs) => ~(i < Len(obs))
      BY <2>3, RecordsAre DEF Types
    <3>4. i = Len(obs) \/ obs[i].id \in Pinned(obs, cited) => o \in Whole(shown)
      BY <3>2, <3>3 DEF Whole
    <3> QED
      BY <3>1, <3>2, <3>4 DEF EventsOf
  <2>6. RecentIsShown
    <3>1. ASSUME NEW i \in DOMAIN obs, IsTool(obs[i])
          PROVE  /\ i > Len(obs) - Recent => obs[i].event \in EventsOf(Carried(shown))
                 /\ i = Len(obs) \/ obs[i].id \in Pinned(obs, cited) => obs[i].event \in EventsOf(Whole(shown))
      <4>1. Len(obs) \in Nat /\ i \in Nat /\ Recent \in Nat /\ Recent > 0
        BY <2>3, RecordsAre, ContextAssumption DEF Types
      <4>2. obs[i].id \in Hidden(summary) => obs[i].id \notin Pinned(obs, cited) /\ i <= Len(obs) - Recent
        BY <2>3, <3>1 DEF Sound, HiddenMayGo
      <4>3. (i <= Len(obs) - Recent => ~(i > Len(obs) - Recent)) /\ (i = Len(obs) => ~(i <= Len(obs) - Recent))
        BY <4>1
      <4>4. i > Len(obs) - Recent \/ i = Len(obs) \/ obs[i].id \in Pinned(obs, cited) => obs[i].id \notin Hidden(summary)
        BY <4>2, <4>3, Zenon
      <4> QED
        BY <2>5, <3>1, <4>4, Zenon
    <3>2. shown.messages[Len(shown.messages)] = Talk[heard]
      BY <2>3 DEF ShownIs
    <3> QED
      BY <3>1, <3>2, Zenon DEF RecentIsShown
  \* A call that is not of the failures a restart may drop, and not open, was judged.
  <2>7. ASSUME NEW e \in DOMAIN ledger, ~(ledger[e].kind = "fail" /\ resumes > 0), e \notin EventsOf(Carried(shown))
        PROVE  e \in judged /\ ledger[e].id \notin cited
    <3> SUFFICES ASSUME Holds(obs, e), ledger[e].id \notin Hidden(summary) PROVE FALSE
      BY <2>3, <2>7 DEF Sound, OpenOrJudged
    <3>1. PICK i \in DOMAIN obs : IsTool(obs[i]) /\ obs[i].event = e
      BY DEF Holds
    <3>2. obs[i].id = ledger[e].id
      BY <2>3, <3>1, KnownToolIs DEF Sound, Known
    <3> QED
      BY <2>5, <2>7, <3>1, <3>2
  <2>8. EvidenceIsShown
    <3>1. ASSUME NEW e \in DOMAIN ledger, ledger[e].id \in cited, ~(ledger[e].kind = "fail" /\ resumes > 0)
          PROVE  e \in EventsOf(Whole(shown))
      <4>1. PICK o \in Carried(shown) : o.event = e
        BY <2>7, <3>1 DEF EventsOf
      <4>2. PICK i \in DOMAIN obs : IsTool(obs[i]) /\ obs[i].event = e
        BY <2>3, <4>1 DEF ShownIs, Stands
      <4>3. obs[i].id = ledger[e].id
        BY <2>3, <4>2, KnownToolIs DEF Sound, Known
      <4>4. obs[i].id \in Pinned(obs, cited)
        BY <3>1, <4>3 DEF Pinned
      <4>5. obs[i].id \notin Hidden(summary)
        BY <2>3, <4>2, <4>4 DEF Sound, HiddenMayGo
      <4> QED
        BY <2>5, <4>2, <4>4, <4>5
    <3> QED
      BY <3>1, Zenon DEF EvidenceIsShown
  <2>9. HiddenWasJudged
    <3>1. decides => Carried(shown) = Whole(shown)
      <4>1. \A o \in Carried(shown) : o.cut => ~decides
        BY <2>3 DEF ShownIs, Stands
      <4> QED
        BY <4>1 DEF Whole
    <3>2. ~decides => judged = {}
      BY <2>3 DEF Types
    <3> QED
      BY <2>7, <3>1, <3>2, Zenon DEF HiddenWasJudged
  <2> QED
    BY <2>6, <2>8, <2>9
<1> QED
  BY <1>1, ContextInvariant, PTL

-----------------------------------------------------------------------------
(* What the invariant says of a task that is picked up again.              *)

\* The calls of the ledger that the checkpoint does not count.
Uncounted == {e \in DOMAIN ledger : Succeeded(ledger[e]) /\ e \notin Gone}

LEMMA RestoredAreUncounted ==
  ASSUME Types, Sound
  PROVE  Successes(FromLedger(summary, ledger)) = Cardinality(Uncounted) /\ IsFiniteSet(Uncounted)
<1> DEFINE all == FromLedger(summary, ledger)
           s == summary.retained
           places == {i \in DOMAIN all : Succeeded(all[i])}
           f == [i \in places |-> all[i].event]
<1>1. /\ all \in Seq(ARecord)
      /\ \A j \in DOMAIN s : j \in DOMAIN all /\ all[j] = s[j]
      /\ \A e \in DOMAIN ledger \ summary.accounted : \E i \in DOMAIN all : all[i] = ledger[e]
  BY FromLedgerIs
<1>2. /\ Known(all) /\ Apart(all)
      /\ \A i \in DOMAIN all : \/ \E j \in DOMAIN s : all[i] = s[j]
                               \/ \E e \in DOMAIN ledger \ summary.accounted : all[i] = ledger[e]
  BY FromLedgerIsApart
<1> HIDE DEF all
<1>3. ASSUME NEW i \in DOMAIN all, Succeeded(all[i])
      PROVE  /\ IsTool(all[i]) /\ all[i].event \in DOMAIN ledger /\ all[i].id = ledger[all[i].event].id
             /\ all[i].kind = ledger[all[i].event].kind
  <2>1. IsTool(all[i])
    BY <1>3 DEF Succeeded, IsTool, ToolKinds
  <2> QED
    BY <1>2, <2>1 DEF Known, IsOfTheTask
<1>4. f \in [places -> Uncounted]
  <2>1. ASSUME NEW i \in places PROVE all[i].event \in Uncounted
    <3>1. Succeeded(all[i]) /\ i \in DOMAIN all
      OBVIOUS
    <3>2. Succeeded(ledger[all[i].event])
      BY <1>3, <3>1 DEF Succeeded
    <3>3. all[i].event \notin Gone
      <4>1. CASE \E j \in DOMAIN s : all[i] = s[j]
        <5>1. Holds(s, all[i].event)
          BY <1>3, <3>1, <4>1 DEF Holds
        <5> QED
          BY <5>1 DEF Gone
      <4>2. CASE \E e \in DOMAIN ledger \ summary.accounted : all[i] = ledger[e]
        BY <4>2 DEF Gone, Types
      <4> QED
        BY <1>2, <3>1, <4>1, <4>2
    <3> QED
      BY <1>3, <3>1, <3>2, <3>3 DEF Uncounted
  <2> HIDE DEF places
  <2> QED
    BY <2>1
<1>5. \A i, j \in places : f[i] = f[j] => i = j
  <2> SUFFICES ASSUME NEW i \in places, NEW j \in places, f[i] = f[j] PROVE i = j
    OBVIOUS
  <2>1. i \in DOMAIN all /\ j \in DOMAIN all /\ all[i].event = all[j].event
    OBVIOUS
  <2>2. all[i].id = all[j].id
    BY <1>3, <2>1
  <2> QED
    BY <1>2, <2>1, <2>2 DEF Apart
<1>6. ASSUME NEW e \in Uncounted PROVE \E i \in places : f[i] = e
  <2>1. e \in DOMAIN ledger /\ Succeeded(ledger[e]) /\ e \notin Gone /\ ledger[e].event = e
    BY DEF Uncounted, Types
  <2>2. CASE e \in summary.accounted
    <3>1. Holds(s, e)
      BY <2>1, <2>2 DEF Gone
    <3>2. PICK j \in DOMAIN s : IsTool(s[j]) /\ s[j].event = e
      BY <3>1 DEF Holds
    <3>3. s[j].kind = ledger[e].kind
      BY <3>2 DEF Sound, Known, IsOfTheTask
    <3>4. j \in places /\ f[j] = e
      BY <1>1, <2>1, <3>2, <3>3 DEF Succeeded
    <3> QED
      BY <3>4
  <2>3. CASE e \notin summary.accounted
    <3>1. PICK i \in DOMAIN all : all[i] = ledger[e]
      BY <1>1, <2>1, <2>3
    <3>2. i \in places /\ f[i] = e
      BY <2>1, <3>1
    <3> QED
      BY <3>2
  <2> QED
    BY <2>2, <2>3
<1>7. IsFiniteSet(places)
  <2>1. IsFiniteSet(1 .. Len(all)) /\ DOMAIN all = 1 .. Len(all)
    BY <1>1, FS_Interval, RecordsAre
  <2> QED
    BY <2>1, FS_Subset
<1>8. Successes(all) = Cardinality(places)
  BY DEF Successes
<1> HIDE DEF f, places
<1>9. IsFiniteSet(Uncounted) /\ Cardinality(Uncounted) = Cardinality(places)
  BY <1>4, <1>5, <1>6, <1>7, SameSize, Zenon
<1> QED
  BY <1>8, <1>9 DEF all

\* The calls the checkpoint counts and the calls it restores are the calls that were
\* made, in an intact task (summaryAccountingForCompactedObservations).
THEOREM CountsSurviveAlways == Spec => []CountsSurvive
<1>1. ASSUME IInv PROVE CountsSurvive
  <2> SUFFICES ASSUME intact
               PROVE  summary.tools + Successes(FromLedger(summary, ledger)) = Successes(ledger)
    BY DEF CountsSurvive
  <2>1. Types /\ Sound
    BY <1>1 DEF IInv
  <2> DEFINE made == {e \in DOMAIN ledger : Succeeded(ledger[e])}
  <2>2. Successes(FromLedger(summary, ledger)) = Cardinality(Uncounted) /\ IsFiniteSet(Uncounted)
    BY <2>1, RestoredAreUncounted
  <2>3. summary.tools = Cardinality(Gone)
    BY <2>1 DEF Sound, GoneCounted
  <2>4. made = Gone \cup Uncounted /\ Gone \cap Uncounted = {}
    <3>1. Gone \subseteq made
      BY <2>1 DEF Gone, Types
    <3> QED
      BY <3>1 DEF Uncounted
  <2>5. IsFiniteSet(Gone)
    <3>1. IsFiniteSet(1 .. Len(ledger)) /\ DOMAIN ledger = 1 .. Len(ledger)
      BY <2>1, FS_Interval, RecordsAre DEF Types
    <3>2. Gone \subseteq DOMAIN ledger
      BY <2>1 DEF Gone, Types
    <3> QED
      BY <3>1, <3>2, FS_Subset
  <2>6. Successes(ledger) = Cardinality(made)
    BY DEF Successes
  <2>7. Cardinality(Gone \cup Uncounted) = Cardinality(Gone) + Cardinality(Uncounted) - Cardinality(Gone \cap Uncounted)
    BY <2>2, <2>5, FS_Union
  <2>8. Cardinality({}) = 0 /\ Cardinality(Gone) \in Nat /\ Cardinality(Uncounted) \in Nat
    BY <2>2, <2>5, FS_EmptySet, FS_CardinalityType
  <2> HIDE DEF made
  <2>9. Cardinality(made) = Cardinality(Gone \cup Uncounted) /\ Cardinality(Gone \cap Uncounted) = 0
    BY <2>4, <2>8, Zenon
  <2> QED
    BY <2>2, <2>3, <2>6, <2>7, <2>8, <2>9
<1> QED
  BY <1>1, ContextInvariant, PTL

\* What the model would read of records that memory may hold.
LEMMA ReadsAre ==
  ASSUME Types, NEW s \in Seq(ARecord), \A i \in DOMAIN s : s[i].kind # "summary"
  PROVE  /\ \A o \in Reads(s) :
              \E i \in DOMAIN s : /\ IsTool(s[i]) /\ s[i].event = o.event
                                  /\ s[i].id \notin Hidden(summary) \ Pinned(s, cited)
         /\ \A i \in DOMAIN s :
              IsTool(s[i]) /\ s[i].id \notin Hidden(summary) => \E o \in Reads(s) : o.event = s[i].event
<1> DEFINE hidden == Hidden(summary) \ Pinned(s, cited)
           p == Projected(s, summary, Pinned(s, cited))
<1>1. ReadsAs(p, s, hidden)
  BY ProjectedReads DEF Types
<1>2. \A o : o \in Reads(s) <=> \E k \in DOMAIN p : o = p[k] /\ IsTool(p[k])
  BY DEF Reads, Carried, WithSummary, ToSet
<1> HIDE DEF p
<1>3. ASSUME NEW o \in Reads(s)
      PROVE  \E i \in DOMAIN s : IsTool(s[i]) /\ s[i].event = o.event /\ s[i].id \notin hidden
  <2>1. PICK k \in DOMAIN p : o = p[k] /\ IsTool(p[k])
    BY <1>2
  <2>2. p[k].kind # "summary" /\ p[k].kind # "voice"
    BY <2>1 DEF IsTool, ToolKinds
  <2>3. PICK i \in DOMAIN s : LeftOf(p[k], s[i], hidden)
    BY <1>1, <2>2 DEF ReadsAs
  <2> QED
    BY <2>1, <2>2, <2>3 DEF LeftOf, IsTool
<1>4. ASSUME NEW i \in DOMAIN s, IsTool(s[i]), s[i].id \notin Hidden(summary)
      PROVE  \E o \in Reads(s) : o.event = s[i].event
  <2>1. PICK k \in DOMAIN p : p[k].kind = s[i].kind /\ p[k].event = s[i].event
    BY <1>1, <1>4 DEF ReadsAs
  <2>2. p[k] \in Reads(s)
    BY <1>2, <1>4, <2>1 DEF IsTool
  <2> QED
    BY <2>1, <2>2
<1> QED
  BY <1>3, <1>4

\* A task that is picked up again reads what it read, failures dropped by a restart
\* apart, and what its summary replaced is stored where the summary says it is, in an
\* intact task (restoreAgentTaskState, saveCompactedTranscript).
THEOREM RestartLosesNothingAlways == Spec => []RestartLosesNothing
<1>1. ASSUME IInv PROVE RestartLosesNothing
  <2> SUFFICES ASSUME intact PROVE RestartShowsTheSame /\ SavedIsWhole
    BY DEF RestartLosesNothing
  <2>1. Types /\ Unresumed /\ Sound
    BY <1>1 DEF IInv
  <2> DEFINE again == FromLedger(summary, ledger)
             s == summary.retained
  <2>2. /\ again \in Seq(ARecord)
        /\ \A j \in DOMAIN s : j \in DOMAIN again /\ again[j] = s[j]
        /\ \A e \in DOMAIN ledger \ summary.accounted : \E i \in DOMAIN again : again[i] = ledger[e]
    BY <2>1, FromLedgerIs
  <2>3. /\ Known(again)
        /\ \A i \in DOMAIN again : \/ \E j \in DOMAIN s : again[i] = s[j]
                                   \/ \E e \in DOMAIN ledger \ summary.accounted : again[i] = ledger[e]
    BY <2>1, FromLedgerIsApart
  <2> HIDE DEF again
  <2>4. \A i \in DOMAIN again : again[i].kind # "summary"
    BY <2>1, <2>3 DEF Types, InMemory, IsTool, ToolKinds
  <2>5. \A i \in DOMAIN obs : obs[i].kind # "summary"
    BY <2>1 DEF Types, InMemory
  <2>6. ASSUME NEW i \in DOMAIN obs, IsTool(obs[i])
        PROVE  obs[i].event \in DOMAIN ledger /\ obs[i].event # 0 /\ obs[i].id = ledger[obs[i].event].id
    BY <2>1, <2>6, KnownToolIs DEF Sound, Known
  <2>7. ASSUME NEW i \in DOMAIN again, IsTool(again[i])
        PROVE  /\ again[i].event \in DOMAIN ledger /\ again[i].event # 0 /\ again[i].id = ledger[again[i].event].id
               /\ again[i].id \notin Hidden(summary)
    <3>1. again[i].event \in DOMAIN ledger /\ again[i].event # 0 /\ again[i].id = ledger[again[i].event].id
      BY <2>1, <2>3, <2>7, KnownToolIs DEF Known
    <3>2. again[i].id \notin Hidden(summary)
      BY <2>1, <2>3, <2>7 DEF Sound, RetainedHeld, HiddenAccounted
    <3> QED
      BY <3>1, <3>2
  \* What memory holds unhidden, a pause would bring back.
  <2>8. ASSUME NEW i \in DOMAIN obs, IsTool(obs[i]), obs[i].id \notin Hidden(summary)
        PROVE  obs[i].event \in EventsOf(Reads(again)) /\ obs[i].event \in EventsOf(Reads(obs))
    <3>1. \E m \in DOMAIN again : IsTool(again[m]) /\ again[m].event = obs[i].event
      <4>1. CASE obs[i].event \in summary.accounted
        <5>1. Holds(s, obs[i].event)
          BY <2>1, <2>8, <4>1 DEF Sound, AccountedKept
        <5>2. PICK j \in DOMAIN s : IsTool(s[j]) /\ s[j].event = obs[i].event
          BY <5>1 DEF Holds
        <5> QED
          BY <2>2, <5>2
      <4>2. CASE obs[i].event \notin summary.accounted
        <5>1. obs[i].event \in DOMAIN ledger \ summary.accounted
          BY <2>6, <2>8, <4>2
        <5>2. PICK m \in DOMAIN again : again[m] = ledger[obs[i].event]
          BY <2>2, <5>1
        <5> QED
          BY <2>1, <5>1, <5>2 DEF Types
      <4> QED
        BY <4>1, <4>2
    <3>2. PICK m \in DOMAIN again : IsTool(again[m]) /\ again[m].event = obs[i].event
      BY <3>1
    <3>3. PICK o \in Reads(again) : o.event = obs[i].event
      BY <2>1, <2>2, <2>4, <2>7, <3>2, ReadsAre
    <3>4. PICK q \in Reads(obs) : q.event = obs[i].event
      BY <2>1, <2>5, <2>8, ReadsAre DEF Types
    <3> QED
      BY <2>6, <2>8, <3>3, <3>4 DEF EventsOf
  <2>9. EventsOf(Reads(obs)) \subseteq EventsOf(Reads(again))
    <3> SUFFICES ASSUME NEW o \in Reads(obs) PROVE o.event \in EventsOf(Reads(again))
      BY DEF EventsOf
    <3>1. PICK i \in DOMAIN obs :
            IsTool(obs[i]) /\ obs[i].event = o.event /\ obs[i].id \notin Hidden(summary) \ Pinned(obs, cited)
      BY <2>1, <2>5, ReadsAre DEF Types
    <3>2. obs[i].id \notin Hidden(summary)
      BY <2>1, <3>1 DEF Sound, HiddenMayGo
    <3> QED
      BY <2>8, <3>1, <3>2
  <2>10. ASSUME resumes = 0 PROVE EventsOf(Reads(again)) \subseteq EventsOf(Reads(obs))
    <3> SUFFICES ASSUME NEW o \in Reads(again) PROVE o.event \in EventsOf(Reads(obs))
      BY DEF EventsOf
    <3>1. PICK m \in DOMAIN again : IsTool(again[m]) /\ again[m].event = o.event
      BY <2>1, <2>2, <2>4, ReadsAre
    <3>2. PICK i \in DOMAIN obs : IsTool(obs[i]) /\ obs[i].event = o.event
      BY <2>1, <2>7, <2>10, <3>1 DEF Unresumed, Holds
    <3>3. obs[i].id \notin Hidden(summary)
      BY <2>6, <2>7, <3>1, <3>2
    <3> QED
      BY <2>8, <3>2, <3>3
  <2>11. RestartShowsTheSame
    BY <2>9, <2>10 DEF RestartShowsTheSame, again
  <2>12. SavedIsWhole
    <3>1. ASSUME ~SavesMayFail, NEW i \in DOMAIN obs, IsTool(obs[i]), obs[i].event \notin EventsOf(Reads(obs))
          PROVE  <<obs[i].id, obs[i].event>> \in summary.saved
      <4>1. obs[i].id \in Hidden(summary)
        BY <2>8, <3>1
      <4> QED
        BY <2>1, <3>1, <4>1 DEF Sound, HiddenMayGo
    <3> QED
      BY <3>1 DEF SavedIsWhole
  <2> QED
    BY <2>11, <2>12
<1> QED
  BY <1>1, ContextInvariant, PTL

-----------------------------------------------------------------------------
(* What the completion gate keeps of a turn.                               *)

LEMMA KeepEntries ==
  ASSUME NEW S, NEW T, NEW s \in Seq(S), NEW kept \in SUBSET (DOMAIN s), \A i \in kept : s[i] \in T
  PROVE  /\ Keep(s, kept) \in Seq(T)
         /\ \A i \in kept : \E k \in DOMAIN Keep(s, kept) : Keep(s, kept)[k] = s[i]
<1>1. Keep(s, kept) \in Seq(S) /\ \A i \in kept : \E k \in DOMAIN Keep(s, kept) : Keep(s, kept)[k] = s[i]
  BY KeepPlaces, Zenon
<1>2. ASSUME NEW k \in DOMAIN Keep(s, kept) PROVE Keep(s, kept)[k] \in T
  <2>1. PICK i \in kept : Keep(s, kept)[k] = s[i]
    BY KeepPlaces, Zenon
  <2> QED
    BY <2>1
<1>3. Keep(s, kept) \in Seq(T)
  BY <1>1, <1>2
<1> QED
  BY <1>1, <1>3

Performed == [kind : {"call"}, call : AnyCall, ok : BOOLEAN]
Judgement == [effects : Seq(Performed), lookups : Seq(Performed)]
Check == [unmet : SUBSET Change, awaits : SUBSET Change, repeats : BOOLEAN, judged : Judgement]
Observed == Performed \cup [kind : {"remark"}]
              \cup [kind : RefusalKinds \cup Claims, verdict : Check \cup {NoVerdict}]

LEMMA CallsArePerformed ==
  ASSUME NEW o \in Observed, IsCall(o)
  PROVE  o \in Performed
BY DEF Observed, IsCall, RefusalKinds, Claims

\* Every call of work is among the distinct ones.
LEMMA DistinctEntries ==
  ASSUME NEW s \in Seq(Observed)
  PROVE  /\ Distinct(s) \in Seq(Performed)
         /\ \A i \in DOMAIN s : IsCall(s[i]) /\ s[i].call \in Work =>
              \E k \in DOMAIN Distinct(s) : Distinct(s)[k] = s[i]
<1> DEFINE kept == {i \in DOMAIN s : /\ IsCall(s[i]) /\ s[i].call \in Work
                                     /\ \A j \in DOMAIN s : j > i => s[j] # s[i]}
<1>1. Len(s) \in Nat /\ DOMAIN s = 1 .. Len(s) /\ \A i \in DOMAIN s : s[i] \in Observed
  OBVIOUS
<1>2. kept \in SUBSET (DOMAIN s) /\ Distinct(s) = Keep(s, kept)
  BY <1>1 DEF Distinct
<1>3. \A i \in kept : s[i] \in Performed
  BY <1>1, CallsArePerformed
<1>4. ASSUME NEW i \in DOMAIN s, IsCall(s[i]), s[i].call \in Work
      PROVE  \E m \in kept : s[m] = s[i]
  <2> DEFINE same == {j \in DOMAIN s : s[j] = s[i]}
  <2>1. same \in SUBSET (1 .. Len(s)) /\ same # {}
    BY <1>1
  <2>2. PICK m \in same : \A j \in same : j <= m
    <3> HIDE DEF same
    <3> QED
      BY <1>1, <2>1, LastExists, Zenon
  <2>3. m \in DOMAIN s /\ s[m] = s[i] /\ m \in Nat
    BY <1>1, <2>2
  <2>4. ASSUME NEW j \in DOMAIN s, j > m PROVE s[j] # s[m]
    <3>1. j \in Nat
      BY <1>1
    <3>2. j \in same => j <= m
      BY <2>2
    <3>3. j \notin same
      BY <2>3, <2>4, <3>1, <3>2
    <3> QED
      BY <2>3, <3>3
  <2> QED
    BY <1>4, <2>3, <2>4
<1> HIDE DEF kept
<1>5. Distinct(s) \in Seq(Performed) /\ \A m \in kept : \E k \in DOMAIN Distinct(s) : Distinct(s)[k] = s[m]
  <2>1. /\ Keep(s, kept) \in Seq(Performed)
        /\ \A m \in kept : \E k \in DOMAIN Keep(s, kept) : Keep(s, kept)[k] = s[m]
    BY <1>2, <1>3, KeepEntries
  <2> QED
    BY <1>2, <2>1
<1> QED
  BY <1>4, <1>5

\* No call that recorded a change falls out of the window.
LEMMA WindowedEntries ==
  ASSUME NEW s \in Seq(Performed)
  PROVE  /\ Windowed(s) \in Seq(Performed)
         /\ \A i \in DOMAIN s : Recorded(s[i]) => \E k \in DOMAIN Windowed(s) : Windowed(s)[k] = s[i]
<1> DEFINE kept == {i \in DOMAIN s :
                     Recorded(s[i]) \/ Cardinality({j \in i .. Len(s) : ~Recorded(s[j])}) <= UnrecordedKept}
<1>1. Len(s) \in Nat /\ DOMAIN s = 1 .. Len(s) /\ \A i \in DOMAIN s : s[i] \in Performed
  OBVIOUS
<1>2. kept \in SUBSET (DOMAIN s) /\ Windowed(s) = Keep(s, kept)
  BY <1>1 DEF Windowed
<1>3. (\A i \in kept : s[i] \in Performed) /\ \A i \in DOMAIN s : Recorded(s[i]) => i \in kept
  BY <1>1
<1> HIDE DEF kept
<1>4. Windowed(s) \in Seq(Performed) /\ \A m \in kept : \E k \in DOMAIN Windowed(s) : Windowed(s)[k] = s[m]
  <2>1. /\ Keep(s, kept) \in Seq(Performed)
        /\ \A m \in kept : \E k \in DOMAIN Keep(s, kept) : Keep(s, kept)[k] = s[m]
    BY <1>2, <1>3, KeepEntries
  <2> QED
    BY <1>2, <2>1
<1> QED
  BY <1>3, <1>4

LEMMA JudgedType ==
  ASSUME NEW s \in Seq(Observed)
  PROVE  Judged(s) \in Judgement
<1> DEFINE found == {i \in DOMAIN s : IsSuccess(s[i]) /\ s[i].call \in Look}
           kept == {i \in found : Cardinality({j \in found : j >= i}) <= LookupsKept}
<1>1. Len(s) \in Nat /\ DOMAIN s = 1 .. Len(s) /\ \A i \in DOMAIN s : s[i] \in Observed
  OBVIOUS
<1>2. kept \in SUBSET (DOMAIN s) /\ Lookups(s) = Keep(s, kept)
  BY <1>1 DEF Lookups
<1>3. \A i \in kept : s[i] \in Performed
  BY <1>1, CallsArePerformed DEF IsSuccess
<1> HIDE DEF kept
<1>4. Lookups(s) \in Seq(Performed)
  BY <1>1, <1>2, <1>3, KeepEntries, Zenon
<1>5. Windowed(Distinct(s)) \in Seq(Performed)
  BY DistinctEntries, WindowedEntries, Zenon
<1> QED
  BY <1>4, <1>5 DEF Judged, Judgement

LEMMA RecordsStay ==
  ASSUME seen \in Seq(Observed)
  PROVE  RecordsAreJudged
<1> DEFINE effects == Windowed(Distinct(seen))
<1>1. SUFFICES ASSUME NEW i \in DOMAIN seen, IsCall(seen[i]), Recorded(seen[i])
               PROVE  Contains(effects, seen[i])
  BY DEF RecordsAreJudged
<1>2. seen[i].call \in Work
  BY <1>1, CallAssumption DEF Recorded
<1>3. PICK k \in DOMAIN Distinct(seen) : Distinct(seen)[k] = seen[i]
  BY <1>1, <1>2, DistinctEntries, Zenon
<1>4. Distinct(seen) \in Seq(Performed) /\ Recorded(Distinct(seen)[k])
  BY <1>1, <1>3, DistinctEntries, Zenon
<1>5. PICK m \in DOMAIN effects : effects[m] = seen[i]
  BY <1>3, <1>4, WindowedEntries, Zenon
<1>6. effects \in Seq(Performed)
  BY <1>4, WindowedEntries, Zenon
<1> HIDE DEF effects
<1> QED
  BY <1>5, <1>6 DEF Contains

-----------------------------------------------------------------------------
(* The invariant.                                                          *)

\* Refused(s) says RefusedOnce of s, and that each of its refusals over changes has a check.
Refused(s) ==
  /\ \A i \in DOMAIN s : s[i].kind = "changes" => s[i].verdict # NoVerdict
  /\ \A i, j \in DOMAIN s :
       s[i].kind = "changes" /\ s[j].kind = "changes" /\ s[i].verdict.judged = s[j].verdict.judged
         => i = j

\* The check v is about s, and is new there unless it says that it repeats.
IsAbout(v, s) ==
  /\ v.judged = Judged(s)
  /\ v.repeats \/ RefusedOver(s, Judged(s)) = {}

TypeInv ==
  /\ GateTypeOK
  /\ seen \in Seq(Observed)
  /\ memo \in [count : Nat, verdict : Check \cup {NoVerdict}]
  /\ verdict \in Check \cup {NoVerdict}

JudgedInv ==
  /\ memo.verdict # NoVerdict /\ memo.count = Len(seen) => IsAbout(memo.verdict, seen)
  /\ stage = "checked" /\ verdict # NoVerdict => IsAbout(verdict, seen)
  /\ VerdictIsAboutNow

ToldInv ==
  /\ stage # "ended" => outcome.status = "running"
  /\ UnmetIsTold

GateInv == TypeInv /\ JudgedInv /\ Refused(seen) /\ ToldInv

-----------------------------------------------------------------------------
(* Its steps.                                                              *)

\* Whatever the check of the changes answers is a check of the state it was asked about.
LEMMA DecidedChecks ==
  ASSUME NEW s \in Seq(Observed), Refused(s), NEW changes \in SUBSET Change, NEW v \in Decided(s, changes)
  PROVE  v \in Check /\ IsAbout(v, s)
<1> DEFINE refused == RefusedOver(s, Judged(s))
           first == s[CHOOSE i \in refused : \A j \in refused : i <= j]
<1>1. Judged(s) \in Judgement
  BY JudgedType
<1>2. CASE refused = {}
  <2>1. v \in Checks(s, changes)
    BY <1>2 DEF Decided
  <2>2. PICK unmet \in SUBSET changes : v \in {Verdict(unmet, awaits, FALSE, Judged(s)) : awaits \in SUBSET unmet}
    BY <2>1, Zenon DEF Checks
  <2>3. PICK awaits \in SUBSET unmet : v = Verdict(unmet, awaits, FALSE, Judged(s))
    BY <2>2, Zenon
  <2>4. v = [unmet |-> unmet, awaits |-> awaits, repeats |-> FALSE, judged |-> Judged(s)]
    BY <2>3 DEF Verdict
  <2>5. v \in Check
    BY <1>1, <2>4 DEF Check
  <2>6. v.judged = Judged(s)
    BY <2>4
  <2> QED
    BY <1>2, <2>5, <2>6 DEF IsAbout
<1>3. CASE refused # {}
  <2>1. v = [first.verdict EXCEPT !.repeats = TRUE]
    BY <1>3, Zenon DEF Decided
  <2>2. refused \subseteq Nat /\ refused \subseteq DOMAIN s
    BY DEF RefusedOver, Refusals
  <2>3. \E i \in refused : \A j \in refused : i <= j
    <3> HIDE DEF refused
    <3> QED
      BY <1>3, <2>2, LeastExists, Zenon
  <2>4. PICK i \in refused : first = s[i]
    <3> HIDE DEF refused
    <3> QED
      BY <2>3, Zenon
  <2>5. s[i].kind = "changes" /\ s[i].verdict.judged = Judged(s) /\ i \in DOMAIN s
    BY <2>2 DEF RefusedOver
  <2>6. s[i].verdict \in Check
    <3>1. s[i] \in Observed /\ s[i].verdict # NoVerdict
      BY <2>5 DEF Refused
    <3>2. s[i] \in [kind : RefusalKinds \cup Claims, verdict : Check \cup {NoVerdict}]
      BY <2>5, <3>1 DEF Observed, Performed
    <3> QED
      BY <3>1, <3>2
  <2> HIDE DEF first, refused
  <2>7. v = [s[i].verdict EXCEPT !.repeats = TRUE]
    BY <2>1, <2>4
  <2>8. v \in Check /\ v.repeats /\ v.judged = Judged(s)
    BY <2>5, <2>6, <2>7 DEF Check
  <2> QED
    BY <2>8 DEF IsAbout
<1> QED
  BY <1>2, <1>3

\* An observation is added to those of the turn, and it refuses no changes that were
\* refused over the same state.
LEMMA RefusedGrows ==
  ASSUME NEW s \in Seq(Observed), Refused(s), NEW o \in Observed,
         o.kind = "changes" => o.verdict # NoVerdict /\ RefusedOver(s, o.verdict.judged) = {}
  PROVE  Append(s, o) \in Seq(Observed) /\ Refused(Append(s, o)) /\ Len(Append(s, o)) = Len(s) + 1
<1> DEFINE t == Append(s, o)
<1>1. /\ t \in Seq(Observed) /\ Len(t) = Len(s) + 1 /\ Len(s) \in Nat
      /\ DOMAIN s = 1 .. Len(s) /\ DOMAIN t = 1 .. (Len(s) + 1)
      /\ t[Len(s) + 1] = o /\ \A i \in DOMAIN s : t[i] = s[i]
  OBVIOUS
<1> HIDE DEF t
<1>2. \A i \in DOMAIN t : i \in DOMAIN s \/ i = Len(s) + 1
  BY <1>1
<1>3. \A i \in DOMAIN t : t[i].kind = "changes" => t[i].verdict # NoVerdict
  BY <1>1, <1>2 DEF Refused
<1>4. ASSUME NEW i \in DOMAIN s, s[i].kind = "changes", o.kind = "changes" PROVE s[i].verdict.judged # o.verdict.judged
  BY <1>4 DEF RefusedOver, Refusals, IsRefusal, RefusalKinds
<1>5. ASSUME NEW i \in DOMAIN t, NEW j \in DOMAIN t, t[i].kind = "changes", t[j].kind = "changes",
             t[i].verdict.judged = t[j].verdict.judged
      PROVE  i = j
  BY <1>1, <1>2, <1>4, <1>5 DEF Refused
<1> QED
  BY <1>1, <1>3, <1>5 DEF Refused, t

LEMMA GateBegins == GateInit => GateInv
<1> SUFFICES ASSUME GateInit PROVE GateInv
  OBVIOUS
<1>1. seen \in Seq(Observed) /\ Len(seen) = 0 /\ DOMAIN seen = {}
  BY DEF GateInit
<1>2. TypeInv
  <2>1. list \in [state : {"asking", "known", "unknown"}, changes : SUBSET Change] /\ ended \in SUBSET Contexts
    BY DEF GateInit
  <2>2. outcome \in Outcome
    BY DEF GateInit, Outcome
  <2>3. memo \in [count : Nat, verdict : Check \cup {NoVerdict}] /\ memo.count = 0
    BY DEF GateInit
  <2>4. memo.count \in 0 .. Len(seen)
    BY <1>1, <2>3
  <2>5. GateTypeOK
    BY <2>1, <2>2, <2>4 DEF GateInit, GateTypeOK
  <2> QED
    BY <1>1, <2>3, <2>5 DEF GateInit, TypeInv
<1>3. JudgedInv
  BY DEF GateInit, JudgedInv, VerdictIsAboutNow
<1>4. Refused(seen)
  BY <1>1 DEF Refused
<1>5. ToldInv
  BY DEF GateInit, ToldInv, UnmetIsTold
<1> QED
  BY <1>2, <1>3, <1>4, <1>5 DEF GateInv

\* The work: an observation that is not a refusal over changes.
LEMMA WorkStep ==
  ASSUME GateInv, (\E c \in AnyCall, ok \in BOOLEAN, claims \in BOOLEAN : CallTool(c, ok, claims)) \/ Remark
  PROVE  GateInv'
<1>1. PICK o \in Observed : seen' = Append(seen, o) /\ o.kind # "changes"
  <2>1. ASSUME NEW c \in AnyCall, NEW ok \in BOOLEAN, NEW claims \in BOOLEAN, CallTool(c, ok, claims)
        PROVE  seen' = Append(seen, Made(c, ok)) /\ Made(c, ok) \in Observed /\ Made(c, ok).kind # "changes"
    BY <2>1 DEF CallTool, Made, Observed, Performed
  <2>2. ASSUME Remark
        PROVE  seen' = Append(seen, Note("remark")) /\ Note("remark") \in Observed /\ Note("remark").kind # "changes"
    BY <2>2 DEF Remark, Note, Observed
  <2> QED
    BY <2>1, <2>2
<1>2. /\ UNCHANGED <<list, memo, ended, cancelled, stage, asking, stop, verdict, outcome>>
      /\ declared' \in BOOLEAN /\ stage = "model"
  BY DEF CallTool, Remark, At, GateInv, TypeInv, GateTypeOK
<1>3. seen' \in Seq(Observed) /\ Refused(seen)' /\ Len(seen') = Len(seen) + 1 /\ Len(seen) \in Nat
  BY <1>1, RefusedGrows DEF GateInv, TypeInv
<1>4. TypeInv'
  BY <1>2, <1>3 DEF GateInv, TypeInv, GateTypeOK
<1>5. memo.count <= Len(seen) /\ memo.count \in Nat
  BY DEF GateInv, TypeInv, GateTypeOK
<1>6. JudgedInv'
  BY <1>2, <1>3, <1>5 DEF JudgedInv, VerdictIsAboutNow
<1>7. ToldInv'
  BY <1>2 DEF GateInv, ToldInv, UnmetIsTold, LeavesUnmet
<1> QED
  BY <1>3, <1>4, <1>6, <1>7 DEF GateInv

\* What happens around the turn leaves what it judged alone.
LEMMA AroundStep ==
  ASSUME GateInv,
         \/ \E changes \in Lists, state \in {"known", "unknown"} : DefineChanges(changes, state)
         \/ \E c \in Contexts : TimeUp(c)
         \/ Cancel
  PROVE  GateInv'
<1>1. /\ UNCHANGED <<seen, memo, declared, stage, asking, stop, verdict, outcome>>
      /\ list' \in [state : {"asking", "known", "unknown"}, changes : SUBSET Change]
      /\ ended' \in SUBSET Contexts /\ cancelled' \in BOOLEAN
  <2>1. CASE \E changes \in Lists, state \in {"known", "unknown"} : DefineChanges(changes, state)
    <3>1. PICK changes \in Lists, state \in {"known", "unknown"} : DefineChanges(changes, state)
      BY <2>1
    <3>2. changes \in SUBSET Change
      BY CallAssumption
    <3>3. list' \in [state : {"asking", "known", "unknown"}, changes : SUBSET Change]
      BY <3>1, <3>2 DEF DefineChanges
    <3> QED
      BY <3>1, <3>3 DEF DefineChanges, GateInv, TypeInv, GateTypeOK
  <2>2. CASE \E c \in Contexts : TimeUp(c)
    BY <2>2 DEF TimeUp, GateInv, TypeInv, GateTypeOK
  <2>3. CASE Cancel
    BY <2>3 DEF Cancel, GateInv, TypeInv, GateTypeOK
  <2> QED
    BY <2>1, <2>2, <2>3
<1>2. TypeInv'
  BY <1>1 DEF GateInv, TypeInv, GateTypeOK
<1>3. JudgedInv' /\ Refused(seen)' /\ ToldInv'
  BY <1>1 DEF GateInv, JudgedInv, VerdictIsAboutNow, ToldInv, UnmetIsTold, LeavesUnmet
<1> QED
  BY <1>2, <1>3 DEF GateInv

\* A step that adds no observation and makes no check: it drops the check it holds, or goes
\* where a check is held with one that is about this state.
LEMMA CheckIsHeld ==
  ASSUME GateInv, UNCHANGED <<seen, list, memo, declared, ended, cancelled>>,
         stage' \in {"model", "list", "judge", "checked", "answer", "stopping", "undone", "ended"},
         asking' \in {"finish", "stop", "report"}, stop' \in {"none", "fail", "limit", "elapsed"},
         outcome' \in Outcome,
         \/ verdict' = NoVerdict
         \/ verdict' = verdict /\ stage' # "checked"
            /\ (stage' \in {"answer", "undone", "ended"} => stage \in {"checked", "answer", "undone"})
  PROVE  TypeInv' /\ JudgedInv' /\ Refused(seen)'
<1>1. TypeInv'
  BY DEF GateInv, TypeInv, GateTypeOK
<1>2. JudgedInv' /\ Refused(seen)'
  BY DEF GateInv, JudgedInv, VerdictIsAboutNow
<1> QED
  BY <1>1, <1>2

\* The turn goes on within itself.
LEMMA QuietStep ==
  ASSUME GateInv, AwaitList \/ (\E reason \in {"fail", "limit", "elapsed"} : Stop(reason)) \/ BeginStop \/ CloseUndone
  PROVE  GateInv'
<1>1. /\ UNCHANGED <<seen, list, memo, declared, ended, cancelled, outcome>>
      /\ stage' \in {"judge", "checked", "stopping", "list", "undone"} /\ stage # "ended"
      /\ stage' \in {"checked", "undone"} => verdict' = NoVerdict
      /\ verdict' \in {verdict, NoVerdict}
      /\ asking' \in {"finish", "stop", "report"} /\ stop' \in {"none", "fail", "limit", "elapsed"}
  <2>1. CASE AwaitList
    BY <2>1 DEF AwaitList, Unchecked, At, GateInv, TypeInv, GateTypeOK
  <2>2. CASE \E reason \in {"fail", "limit", "elapsed"} : Stop(reason)
    BY <2>2 DEF Stop, At, GateInv, TypeInv, GateTypeOK
  <2>3. CASE BeginStop
    BY <2>3 DEF BeginStop, At, GateInv, TypeInv, GateTypeOK
  <2>4. CASE CloseUndone
    BY <2>4 DEF CloseUndone, At, GateInv, TypeInv, GateTypeOK
  <2> QED
    BY <2>1, <2>2, <2>3, <2>4
<1>2. outcome' \in Outcome
  BY <1>1 DEF GateInv, TypeInv, GateTypeOK
<1>3. TypeInv' /\ JudgedInv' /\ Refused(seen)'
  BY <1>1, <1>2, CheckIsHeld
<1>4. ToldInv'
  BY <1>1 DEF GateInv, ToldInv, UnmetIsTold
<1> QED
  BY <1>3, <1>4 DEF GateInv

LEMMA ToldIsOfChange ==
  ASSUME TypeInv
  PROVE  Told \in SUBSET Change
BY DEF TypeInv, Told, LeavesUnmet, Check

\* A run that is over.
LEMMA EndOutcome ==
  ASSUME NEW status \in {"completed", "cancelled", "blocked", "failed"}, NEW tells \in SUBSET Change, NEW best \in BOOLEAN,
         NEW says \in {"nothing", "written", "raw"}
  PROVE  [status |-> status, tells |-> tells, best |-> best, says |-> says] \in Outcome
BY DEF Outcome

\* The turn completes its run, or stops, or reports, with the check that it holds.
LEMMA EndStep ==
  ASSUME GateInv, Answer \/ FinishStop \/ Report \/ ReportUnasked
  PROVE  GateInv'
<1>1. /\ UNCHANGED <<seen, list, memo, declared, ended, cancelled, asking, verdict>>
      /\ stage \in {"checked", "answer", "undone"} /\ stage' \in {"stopping", "undone", "ended"}
      /\ stop' \in {"none", "fail", "limit", "elapsed"}
  BY DEF Answer, FinishStop, Report, ReportUnasked, Close, At, GateInv, TypeInv, GateTypeOK
<1>2. Told \in SUBSET Change /\ (LeavesUnmet(verdict) => Told = verdict.unmet)
  BY ToldIsOfChange DEF GateInv, Told
<1>3. \/ outcome' = outcome /\ stage' # "ended"
      \/ /\ outcome' \in Outcome /\ stage' = "ended"
         /\ \/ outcome'.status = "cancelled" \/ outcome'.tells = Told \/ ~LeavesUnmet(verdict)
            \/ outcome'.status \in {"blocked", "failed"} /\ outcome'.says # "written"
  <2>1. CASE Answer
    <3>1. CASE stage' = "ended"
      <4>1. outcome' = [status |-> IF cancelled THEN "cancelled" ELSE "completed",
                        tells |-> IF cancelled THEN {} ELSE Told, best |-> FALSE,
                        says |-> IF cancelled THEN "nothing" ELSE "written"]
        BY <2>1, <3>1 DEF Answer
      <4>2. (IF cancelled THEN {} ELSE Told) \in SUBSET Change
            /\ (IF cancelled THEN "nothing" ELSE "written") \in {"nothing", "written", "raw"}
        BY <1>2
      <4>3. outcome' \in Outcome
        BY <4>1, <4>2, EndOutcome
      <4> QED
        BY <3>1, <4>1, <4>3
    <3>2. CASE stage' # "ended"
      BY <2>1, <3>2 DEF Answer
    <3> QED
      BY <3>1, <3>2
  <2>2. CASE FinishStop
    <3>1. CASE DoneAtStop /\ ~cancelled
      <4>1. stage' = "ended" /\ outcome' = [status |-> "completed", tells |-> {}, best |-> FALSE, says |-> "written"]
        BY <2>2, <3>1 DEF FinishStop
      <4>2. outcome' \in Outcome
        BY <4>1, EndOutcome
      <4>3. ~LeavesUnmet(verdict)
        BY <3>1 DEF DoneAtStop
      <4> QED
        BY <4>1, <4>2, <4>3
    <3>2. CASE ~(DoneAtStop /\ ~cancelled)
      BY <2>2, <3>2 DEF FinishStop
    <3> QED
      BY <3>1, <3>2
  <2>3. ASSUME NEW says \in {"nothing", "written", "raw"}, Close(says)
        PROVE  /\ outcome' \in Outcome /\ stage' = "ended"
               /\ \/ outcome'.status = "cancelled" \/ outcome'.tells = Told
                  \/ outcome'.status \in {"blocked", "failed"} /\ outcome'.says # "written"
    <3> DEFINE status == IF cancelled THEN "cancelled" ELSE IF stop = "fail" THEN "failed" ELSE "blocked"
               tells == IF says = "written" THEN Told ELSE {}
    <3>1. stage' = "ended" /\ outcome' = [status |-> status, tells |-> tells, best |-> FALSE, says |-> says]
      BY <2>3 DEF Close
    <3>2. status \in {"cancelled", "blocked", "failed"} /\ tells \in SUBSET Change
      BY <1>2
    <3> HIDE DEF status, tells
    <3>3. outcome' \in Outcome
      BY <3>1, <3>2, EndOutcome
    <3>4. says = "written" => tells = Told
      BY DEF tells
    <3> QED
      BY <3>1, <3>2, <3>3, <3>4
  <2>4. CASE Report \/ ReportUnasked
    <3>1. PICK says \in {"nothing", "written", "raw"} : Close(says)
      BY <2>4 DEF Report, ReportUnasked
    <3> QED
      BY <2>3, <3>1
  <2> QED
    BY <2>1, <2>2, <2>4
<1>4. outcome' \in Outcome
  BY <1>3 DEF GateInv, TypeInv, GateTypeOK
<1>5. TypeInv' /\ JudgedInv' /\ Refused(seen)'
  <2>1. asking' \in {"finish", "stop", "report"}
    BY <1>1 DEF GateInv, TypeInv, GateTypeOK
  <2> QED
    BY <1>1, <1>4, <2>1, CheckIsHeld
<1>6. ToldInv'
  <2>1. stage # "ended" /\ outcome.status = "running"
    BY <1>1 DEF GateInv, ToldInv
  <2>2. LeavesUnmet(verdict)' <=> LeavesUnmet(verdict)
    BY <1>1
  <2> QED
    BY <1>1, <1>2, <1>3, <2>1, <2>2 DEF ToldInv, UnmetIsTold
<1> QED
  BY <1>5, <1>6 DEF GateInv

\* The check is read where it is remembered of this state, or it is made.
LEMMA JudgeStep ==
  ASSUME GateInv, Judge
  PROVE  GateInv'
<1>1. /\ UNCHANGED <<seen, list, declared, ended, cancelled, asking, stop, outcome>>
      /\ stage = "judge" /\ stage' = "checked" /\ list.changes \in SUBSET Change
      /\ seen \in Seq(Observed) /\ Len(seen) \in Nat /\ Refused(seen)
  BY DEF Judge, At, GateInv, TypeInv, GateTypeOK
<1>2. /\ memo' \in [count : Nat, verdict : Check \cup {NoVerdict}] /\ memo'.count \in 0 .. Len(seen)
      /\ verdict' \in Check \cup {NoVerdict}
      /\ verdict' # NoVerdict => IsAbout(verdict', seen)
      /\ memo'.verdict # NoVerdict /\ memo'.count = Len(seen) => IsAbout(memo'.verdict, seen)
  <2>1. CASE IsKnown
    BY <2>1 DEF Judge, IsKnown, GateInv, TypeInv, GateTypeOK, JudgedInv
  <2>2. CASE ~IsKnown /\ UNCHANGED memo
    <3>1. verdict' = NoVerdict \/ verdict' \in Decided(seen, list.changes)
      BY <2>2 DEF Judge
    <3>2. verdict' # NoVerdict => verdict' \in Check /\ IsAbout(verdict', seen)
      BY <1>1, <3>1, DecidedChecks
    <3> QED
      BY <2>2, <3>2 DEF GateInv, TypeInv, GateTypeOK, JudgedInv
  <2>3. CASE ~IsKnown /\ ~UNCHANGED memo
    <3>1. verdict' \in Decided(seen, list.changes) /\ memo' = [count |-> Len(seen), verdict |-> verdict']
      BY <2>3 DEF Judge
    <3>2. verdict' \in Check /\ IsAbout(verdict', seen)
      BY <1>1, <3>1, DecidedChecks
    <3>3. memo'.count = Len(seen) /\ memo'.verdict = verdict'
          /\ memo' \in [count : Nat, verdict : Check \cup {NoVerdict}]
      BY <1>1, <3>1, <3>2
    <3> QED
      BY <1>1, <3>2, <3>3
  <2> QED
    BY <2>1, <2>2, <2>3
<1>3. TypeInv'
  BY <1>1, <1>2 DEF GateInv, TypeInv, GateTypeOK
<1>4. JudgedInv'
  BY <1>1, <1>2 DEF JudgedInv, VerdictIsAboutNow, IsAbout
<1>5. Refused(seen)' /\ ToldInv'
  BY <1>1 DEF GateInv, ToldInv, UnmetIsTold
<1> QED
  BY <1>3, <1>4, <1>5 DEF GateInv

\* An unmet check that is refused is new here: one over the same state repeats, and is let
\* through.
LEMMA SettleStep ==
  ASSUME GateInv, Settle
  PROVE  GateInv'
<1>1. /\ UNCHANGED <<list, memo, declared, ended, cancelled, asking, stop>>
      /\ stage = "checked" /\ outcome.status = "running"
      /\ asking \in {"finish", "stop", "report"} /\ stop \in {"none", "fail", "limit", "elapsed"}
      /\ memo.count <= Len(seen) /\ memo.count \in Nat /\ Len(seen) \in Nat
  BY DEF Settle, At, GateInv, TypeInv, GateTypeOK, ToldInv
<1>2. CASE stage' = "answer"
  <2>1. UNCHANGED <<seen, verdict, outcome>>
    BY <1>2 DEF Settle
  <2>2. TypeInv' /\ JudgedInv' /\ Refused(seen)'
    BY <1>1, <1>2, <2>1, CheckIsHeld DEF GateInv, TypeInv, GateTypeOK
  <2>3. ToldInv'
    BY <1>1, <1>2, <2>1 DEF ToldInv, UnmetIsTold
  <2> QED
    BY <2>2, <2>3 DEF GateInv
<1>3. CASE stage' = "ended"
  <2>1. /\ UNCHANGED <<seen, verdict>>
        /\ outcome' = [status |-> IF cancelled THEN "cancelled" ELSE "completed", tells |-> {}, best |-> TRUE,
                       says |-> IF cancelled THEN "nothing" ELSE "written"]
    BY <1>3 DEF Settle
  <2>2. outcome' \in Outcome
    <3>1. (IF cancelled THEN "nothing" ELSE "written") \in {"nothing", "written", "raw"}
      OBVIOUS
    <3> QED
      BY <2>1, <3>1, EndOutcome
  <2>3. TypeInv' /\ JudgedInv' /\ Refused(seen)'
    BY <1>1, <1>3, <2>1, <2>2, CheckIsHeld
  <2>4. ToldInv'
    BY <1>3, <2>1 DEF ToldInv, UnmetIsTold
  <2> QED
    BY <2>3, <2>4 DEF GateInv
<1>4. CASE stage' = "model"
  <2> DEFINE o == Refusal("changes", verdict)
  <2>1. /\ ~Satisfied(verdict) /\ seen' = Append(seen, o) /\ verdict' = NoVerdict /\ UNCHANGED outcome
    BY <1>4 DEF Settle
  <2>2. verdict # NoVerdict /\ ~verdict.repeats /\ verdict \in Check
    BY <2>1 DEF Satisfied, GateInv, TypeInv
  <2>3. RefusedOver(seen, verdict.judged) = {}
    BY <1>1, <2>2 DEF GateInv, JudgedInv, IsAbout
  <2>4. o \in Observed /\ o.kind = "changes" /\ o.verdict = verdict
    BY <2>2 DEF Refusal, Observed, RefusalKinds
  <2> HIDE DEF o
  <2>5. seen' \in Seq(Observed) /\ Refused(seen)' /\ Len(seen') = Len(seen) + 1
    BY <2>1, <2>2, <2>3, <2>4, RefusedGrows DEF GateInv, TypeInv
  <2>6. TypeInv'
    BY <1>1, <1>4, <2>1, <2>5 DEF GateInv, TypeInv, GateTypeOK
  <2>7. JudgedInv'
    BY <1>1, <1>4, <2>1, <2>5 DEF JudgedInv, VerdictIsAboutNow
  <2>8. ToldInv'
    BY <1>1, <1>4, <2>1 DEF ToldInv, UnmetIsTold
  <2> QED
    BY <2>5, <2>6, <2>7, <2>8 DEF GateInv
<1> QED
  BY <1>2, <1>3, <1>4 DEF Settle

\* A finish adds what it delivered, and the refusal of its facts.
LEMMA FinishGrows ==
  ASSUME GateInv, NEW delivery \in Deliveries, NEW flaw \in Flaw, Finish(delivery, flaw)
  PROVE  /\ seen' \in Seq(Observed) /\ Refused(seen)' /\ Len(seen') \in Nat
         /\ seen' = seen \/ Len(seen') > Len(seen)
<1> DEFINE s == seen \o delivery
           refusal == FactRefusal(flaw, s)
           o == Refusal(refusal, NoVerdict)
<1>1. seen \in Seq(Observed) /\ Len(seen) \in Nat /\ Refused(seen)
  BY DEF GateInv, TypeInv
<1>2. s \in Seq(Observed) /\ Refused(s) /\ Len(s) \in Nat /\ (s = seen \/ Len(s) = Len(seen) + 1)
  <2>1. CASE delivery = <<>>
    <3>1. s = seen
      BY <1>1, <2>1
    <3> QED
      BY <1>1, <3>1
  <2>2. CASE \E ok \in BOOLEAN : delivery = <<Made(Deliver, ok)>>
    <3>1. PICK ok \in BOOLEAN : delivery = <<Made(Deliver, ok)>>
      BY <2>2
    <3> DEFINE m == Made(Deliver, ok)
    <3>2. m \in Observed /\ m.kind # "changes"
      BY CallAssumption DEF Made, Observed, Performed, AnyCall
    <3>3. s = Append(seen, m)
      <4> HIDE DEF m
      <4> QED
        BY <1>1, <3>1, <3>2 DEF m
    <3> HIDE DEF m
    <3>4. s \in Seq(Observed) /\ Refused(s) /\ Len(s) = Len(seen) + 1
      BY <1>1, <3>2, <3>3, RefusedGrows
    <3> QED
      BY <1>1, <3>4
  <2> QED
    BY <2>1, <2>2 DEF Deliveries
<1>3. seen' = s \/ (seen' = Append(s, o) /\ refusal # "none")
  BY DEF Finish
<1>4. refusal # "none" => o \in Observed /\ o.kind # "changes"
  BY FlawAssumption DEF FactRefusal, Refusal, Observed, RefusalKinds, Claims
<1> HIDE DEF s, o, refusal
<1>5. CASE seen' = s
  BY <1>1, <1>2, <1>5
<1>6. CASE seen' = Append(s, o) /\ refusal # "none"
  <2>1. seen' \in Seq(Observed) /\ Refused(seen') /\ Len(seen') = Len(s) + 1
    BY <1>2, <1>4, <1>6, RefusedGrows
  <2> QED
    BY <1>1, <1>2, <2>1
<1> QED
  BY <1>3, <1>5, <1>6

LEMMA FinishStep ==
  ASSUME GateInv, NEW delivery \in Deliveries, NEW flaw \in Flaw, Finish(delivery, flaw)
  PROVE  GateInv'
<1>1. /\ UNCHANGED <<list, memo, declared, ended, cancelled, stop, outcome>>
      /\ stage = "model" /\ stage' \in {"model", "answer", "list"}
      /\ asking' \in {asking, "finish"} /\ verdict' \in {verdict, NoVerdict}
      /\ stage' = "answer" => verdict' = NoVerdict
  BY DEF Finish, At
<1>2. /\ seen' \in Seq(Observed) /\ Refused(seen)' /\ Len(seen') \in Nat
      /\ seen' = seen \/ Len(seen') > Len(seen)
  BY FinishGrows
<1>3. memo.count \in Nat /\ Len(seen) \in Nat /\ memo.count <= Len(seen)
  BY DEF GateInv, TypeInv, GateTypeOK
<1>4. TypeInv'
  BY <1>1, <1>2, <1>3 DEF GateInv, TypeInv, GateTypeOK
<1>5. JudgedInv'
  <2>1. memo'.count = Len(seen') => seen' = seen
    BY <1>1, <1>2, <1>3
  <2> QED
    BY <1>1, <2>1 DEF GateInv, JudgedInv, VerdictIsAboutNow
<1>6. ToldInv'
  BY <1>1 DEF GateInv, ToldInv, UnmetIsTold
<1> QED
  BY <1>2, <1>4, <1>5, <1>6 DEF GateInv

LEMMA GateStep == GateInv /\ [GateNext]_gateVars => GateInv'
<1> SUFFICES ASSUME GateInv, [GateNext]_gateVars PROVE GateInv'
  OBVIOUS
<1>1. CASE UNCHANGED gateVars
  BY <1>1 DEF gateVars, GateInv, TypeInv, GateTypeOK, JudgedInv, VerdictIsAboutNow, ToldInv, UnmetIsTold, LeavesUnmet
<1> QED
  BY <1>1, WorkStep, AroundStep, QuietStep, EndStep, JudgeStep, SettleStep, FinishStep DEF GateNext

-----------------------------------------------------------------------------
(* The theorems.                                                           *)

\* What the gate keeps of a turn, whatever the turn does and however its checks are answered.
THEOREM GateInvariant == GateSpec => []GateInv
BY GateBegins, GateStep, PTL DEF GateSpec

\* A turn is refused once over what it did: a finish that comes again with nothing done is
\* let through, so the gate cannot hold a turn for ever.
THEOREM RefusedOnceOverAState == GateSpec => []RefusedOnce
<1>1. GateInv => RefusedOnce
  BY DEF GateInv, Refused, RefusedOnce, Refusals
<1> QED
  BY <1>1, GateInvariant, PTL

\* What a turn ends with was judged of the calls it ends with, a check that is read again
\* included, and every call that recorded a change was among what was judged.
THEOREM WholeAndCurrent == GateSpec => []VerdictHolds
<1>1. GateInv => VerdictHolds
  BY RecordsStay DEF GateInv, TypeInv, JudgedInv, VerdictHolds
<1> QED
  BY <1>1, GateInvariant, PTL

\* A completed run tells what its last check left unmet unless its time ended first, and so
\* does every report of a stopped run that could be written.
THEOREM LeftUnmetIsTold == GateSpec => []UnmetIsTold
<1>1. GateInv => UnmetIsTold
  BY DEF GateInv, ToldInv
<1> QED
  BY <1>1, GateInvariant, PTL
=============================================================================
