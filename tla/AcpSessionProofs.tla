------------------------- MODULE AcpSessionProofs -------------------------
(***************************************************************************)
(* Proofs about AcpSession, for any levels, limits of steps and            *)
(* delegations, and any number of runs, prompts, steers and calls: nothing *)
(* is told twice, the tree of a prompt is sized, a run is resumed whole,   *)
(* and a run that is left running was missed.                              *)
(***************************************************************************)
EXTENDS AcpSession, FiniteSetTheorems, WellFoundedInduction, TLAPS

-----------------------------------------------------------------------------
(* Keep leaves the kept entries, each once.                                *)

Rank(kept, i) == Cardinality({j \in kept : j <= i})

LEMMA RanksAreDistinct ==
  ASSUME NEW n \in Nat, NEW kept \in SUBSET (1 .. n)
  PROVE  /\ IsFiniteSet(kept) /\ Cardinality(kept) \in Nat /\ kept \subseteq Nat
         /\ \A i \in kept : Rank(kept, i) \in 1 .. Cardinality(kept)
         /\ \A i, j \in kept : i < j => Rank(kept, i) < Rank(kept, j)
<1> DEFINE Upto(i) == {j \in kept : j <= i}
<1>1. IsFiniteSet(kept) /\ Cardinality(kept) \in Nat /\ kept \subseteq Nat
  <2>1. IsFiniteSet(1 .. n)
    BY FS_Interval
  <2>2. IsFiniteSet(kept)
    BY <2>1, FS_Subset
  <2> QED
    BY <2>2, FS_CardinalityType
<1>2. ASSUME NEW i \in kept
      PROVE  IsFiniteSet(Upto(i)) /\ Cardinality(Upto(i)) \in Nat /\ Cardinality(Upto(i)) <= Cardinality(kept)
  <2>1. Upto(i) \in SUBSET kept
    OBVIOUS
  <2> HIDE DEF Upto
  <2> QED
    BY <1>1, <2>1, FS_Subset, FS_CardinalityType
<1>3. ASSUME NEW i \in kept PROVE i \in Upto(i) /\ Cardinality(Upto(i)) # 0
  <2>1. i \in Nat
    BY <1>1
  <2>2. i \in Upto(i)
    BY <2>1
  <2> HIDE DEF Upto
  <2> QED
    BY <1>2, <2>2, FS_EmptySet
<1>4. ASSUME NEW i \in kept, NEW j \in kept, i < j PROVE Cardinality(Upto(i)) < Cardinality(Upto(j))
  <2>1. i \in Nat /\ j \in Nat
    BY <1>1
  <2>2. Upto(i) \in SUBSET Upto(j)
    <3>1. ASSUME NEW m \in kept, m <= i PROVE m <= j
      <4>1. m \in Nat
        BY <1>1
      <4> QED
        BY <1>4, <2>1, <3>1, <4>1
    <3> QED
      BY <3>1
  <2>3. j \notin Upto(i)
    BY <1>4, <2>1
  <2>4. IsFiniteSet(Upto(j)) /\ Cardinality(Upto(i)) \in Nat /\ Cardinality(Upto(j)) \in Nat
    BY <1>2
  <2>5. Upto(i) # Upto(j)
    BY <1>3, <2>3
  <2>6. Cardinality(Upto(i)) <= Cardinality(Upto(j)) /\ Cardinality(Upto(i)) # Cardinality(Upto(j))
    <3> HIDE DEF Upto
    <3> QED
      BY <2>2, <2>4, <2>5, FS_Subset, Zenon
  <2> QED
    BY <2>4, <2>6
<1> QED
  BY <1>1, <1>2, <1>3, <1>4 DEF Rank

LEMMA EveryRankIsTaken ==
  ASSUME NEW n \in Nat, NEW kept \in SUBSET (1 .. n), NEW k \in 1 .. Cardinality(kept)
  PROVE  \E i \in kept : Rank(kept, i) = k
<1> DEFINE C == Cardinality(kept)
           f == [i \in kept |-> Rank(kept, i)]
<1>1. IsFiniteSet(kept) /\ C \in Nat /\ kept \subseteq Nat
  BY RanksAreDistinct
<1>2. f \in Injection(kept, 1 .. C)
  <2>1. \A i \in kept : Rank(kept, i) \in 1 .. C
    BY RanksAreDistinct
  <2>2. \A i \in kept, j \in kept : Rank(kept, i) = Rank(kept, j) => i = j
    <3> SUFFICES ASSUME NEW i \in kept, NEW j \in kept, Rank(kept, i) = Rank(kept, j), i # j PROVE FALSE
      OBVIOUS
    <3>1. i \in Nat /\ j \in Nat /\ Rank(kept, i) \in Nat /\ Rank(kept, j) \in Nat
      BY <1>1, <2>1
    <3>2. i < j \/ j < i
      BY <3>1
    <3>3. Rank(kept, i) < Rank(kept, j) \/ Rank(kept, j) < Rank(kept, i)
      BY <3>2, RanksAreDistinct
    <3> QED
      BY <3>1, <3>3
  <2>3. f \in [kept -> 1 .. C]
    BY <2>1
  <2> QED
    BY <2>2, <2>3, Zenon DEF Injection, IsInjective
<1>3. IsFiniteSet(1 .. C) /\ Cardinality(1 .. C) = C
  <2>1. C \in Int /\ 1 \in Int
    BY <1>1
  <2>2. IsFiniteSet(1 .. C) /\ Cardinality(1 .. C) = IF 1 > C THEN 0 ELSE C - 1 + 1
    <3> HIDE DEF C
    <3> QED
      BY <2>1, FS_Interval, Zenon
  <2> HIDE DEF C
  <2> QED
    BY <1>1, <2>2
<1>4. f \in Surjection(kept, 1 .. C)
  <2> HIDE DEF f
  <2> QED
    BY <1>2, <1>3, FS_Injection, Zenon DEF C
<1> QED
  BY <1>4 DEF Surjection

\* q holds C entries of s, each from another of the kept indexes.
OnceEach(q, C, s, kept) ==
  /\ C \in Nat
  /\ \E f \in [1 .. C -> kept] :
       /\ q = [k \in 1 .. C |-> s[f[k]]]
       /\ \A k, m \in 1 .. C : f[k] = f[m] => k = m

LEMMA KeepEntries ==
  ASSUME NEW s, NEW n \in Nat, NEW kept \in SUBSET (1 .. n)
  PROVE  OnceEach(Keep(s, kept), Cardinality(kept), s, kept)
<1> DEFINE C == Cardinality(kept)
           Ranked(k) == CHOOSE i \in kept : Rank(kept, i) = k
           f == [k \in 1 .. C |-> Ranked(k)]
<1>1. Keep(s, kept) = [k \in 1 .. C |-> s[Ranked(k)]]
  BY DEF Keep, Rank
<1>2. ASSUME NEW k \in 1 .. C PROVE Ranked(k) \in kept /\ Rank(kept, Ranked(k)) = k
  BY EveryRankIsTaken
<1> HIDE DEF Ranked
<1>3. f \in [1 .. C -> kept]
  BY <1>2
<1>4. ASSUME NEW k \in 1 .. C, NEW m \in 1 .. C, f[k] = f[m] PROVE k = m
  <2>1. Ranked(k) = Ranked(m)
    BY <1>4
  <2> QED
    BY <1>2, <2>1
<1>5. Keep(s, kept) = [k \in 1 .. C |-> s[f[k]]]
  BY <1>1
<1>6. C \in Nat
  BY RanksAreDistinct, Zenon
<1> HIDE DEF f
<1> QED
  BY <1>3, <1>4, <1>5, <1>6 DEF OnceEach

LEMMA LeastExists ==
  ASSUME NEW S, S \subseteq Nat, S # {}
  PROVE  \E n \in S : \A m \in S : n <= m
<1> DEFINE R == {ss \in Nat \X Nat : ss[1] < ss[2]}
<1>1. IsWellFoundedOn(R, Nat)
  BY NatLessThanWellFounded DEF OpToRel
<1>2. PICK n \in S : \A m \in S : <<m, n>> \notin R
  <2> HIDE DEF R
  <2> QED
    BY <1>1, WFMin, Zenon
<1>3. \A m \in S : ~(m < n)
  BY <1>2
<1> QED
  BY <1>2, <1>3


-----------------------------------------------------------------------------
(* Types.                                                                  *)

Id == {<<>>} \cup (Nat \X Nat)
What == Nat \cup Id
Ev == {e \in [kind : Kinds, id : Id, of : What] : e.kind = "intake" => e.of \in Levels}

Books == [ledger : [Runs -> Seq(Ev)], current : Runs \cup {NoRun}, observing : BOOLEAN,
          tail : [Runs -> Seq(Nat)], sent : [Runs -> Nat],
          kept : [Runs -> Seq(Ev)], brought : [Runs -> Seq(Nat)]]

Turns == [run : Runs, at : {"head", "act", "call", "delegating"}, heard : Seq(What),
          applied : SUBSET What, knows : SUBSET What, steps : Nat, delegated : Nat,
          level : Levels, limit : Nat, mayDelegate : Nat, carries : Seq(Nat)]

Prompts == [at : {"none", "planning", "launching", "intake_only", "running"},
            run : Runs \cup {NoRun}, goal : Runs \cup {NoRun}, resumed : BOOLEAN,
            answers : BOOLEAN, named : BOOLEAN, replayed : BOOLEAN, handed : SUBSET What,
            told : BOOLEAN, pinned : Levels \cup {0}, level : Levels \cup {0}]

-----------------------------------------------------------------------------
(* What the operations do to a book.                                       *)

\* The ledger of r, and what the host keeps of it, grow by events.
Grown(b, c, r, events) ==
  /\ c.ledger = [b.ledger EXCEPT ![r] = @ \o events]
  /\ c.kept \in {b.kept, [b.kept EXCEPT ![r] = @ \o events]}

\* So many more of the records of r wait to be carried.
Queued(b, c, r, n) ==
  /\ c.brought = b.brought
  /\ \/ c.tail = b.tail /\ c.sent = b.sent
     \/ /\ c.tail = [b.tail EXCEPT ![r] = @ \o Positions(b, r, n)]
        /\ c.sent = [b.sent EXCEPT ![r] = @ + n]

LEMMA WritesEffect ==
  ASSUME NEW b \in Books, NEW r \in Runs, NEW events \in Seq(Ev)
  PROVE  /\ Writes(b, r, events) \in Books
         /\ Grown(b, Writes(b, r, events), r, events)
         /\ Queued(b, Writes(b, r, events), r, Len(events))
         /\ Writes(b, r, events).observing = b.observing
         /\ Writes(b, r, events).current = IF b.observing /\ events # <<>> THEN r ELSE b.current
<1> DEFINE c == Writes(b, r, events)
           stored == [b EXCEPT !.ledger[r] = @ \o events]
<1>1. /\ b.ledger \in [Runs -> Seq(Ev)] /\ b.kept \in [Runs -> Seq(Ev)] /\ b.tail \in [Runs -> Seq(Nat)]
      /\ b.sent \in [Runs -> Nat] /\ b.observing \in BOOLEAN /\ Len(events) \in Nat
  BY DEF Books
<1>2. /\ b.ledger[r] \o events \in Seq(Ev) /\ b.kept[r] \o events \in Seq(Ev)
      /\ Positions(b, r, Len(events)) \in Seq(Nat)
  BY <1>1 DEF Positions
<1>3. b.tail[r] \o Positions(b, r, Len(events)) \in Seq(Nat)
  BY <1>1, <1>2
<1>4. /\ stored \in Books /\ stored.ledger = [b.ledger EXCEPT ![r] = @ \o events]
      /\ stored.current = b.current /\ stored.observing = b.observing /\ stored.tail = b.tail
      /\ stored.sent = b.sent /\ stored.kept = b.kept /\ stored.brought = b.brought
  BY <1>1, <1>2 DEF Books
<1>5. CASE ~b.observing \/ events = <<>>
  <2>1. c = stored
    BY <1>5, Zenon DEF Writes
  <2> HIDE DEF c, stored
  <2> QED
    BY <1>4, <1>5, <2>1 DEF Grown, Queued, c
<1>6. CASE ~(~b.observing \/ events = <<>>)
  <2>1. c = [stored EXCEPT !.current = r, !.kept[r] = @ \o events, !.sent[r] = @ + Len(events),
                           !.tail[r] = @ \o Positions(b, r, Len(events))]
    BY <1>6, Zenon DEF Writes
  <2> HIDE DEF c, stored
  <2> DEFINE K == [stored.kept EXCEPT ![r] = @ \o events]
             N == [stored.sent EXCEPT ![r] = @ + Len(events)]
             T == [stored.tail EXCEPT ![r] = @ \o Positions(b, r, Len(events))]
  <2>2. K \in [Runs -> Seq(Ev)] /\ N \in [Runs -> Nat] /\ T \in [Runs -> Seq(Nat)]
    BY <1>1, <1>2, <1>3, <1>4
  <2>3. c = [stored EXCEPT !.current = r, !.kept = K, !.sent = N, !.tail = T]
    BY <1>4, <2>1 DEF Books
  <2> HIDE DEF K, N, T
  <2>4. /\ c \in Books /\ c.ledger = stored.ledger /\ c.current = r /\ c.observing = stored.observing
        /\ c.kept = K /\ c.sent = N /\ c.tail = T /\ c.brought = stored.brought
    BY <1>4, <2>2, <2>3 DEF Books
  <2> QED
    BY <1>4, <1>6, <2>4 DEF Grown, Queued, c, K, N, T
<1> QED
  BY <1>5, <1>6

\* Nothing is added to a ledger.
Silent(b, c) == c.ledger = b.ledger /\ c.kept = b.kept

LEMMA SilentGrows ==
  ASSUME NEW b \in Books, NEW c, Silent(b, c), NEW r \in Runs
  PROVE  Grown(b, c, r, <<>>)
<1>1. b.ledger \in [Runs -> Seq(Ev)] /\ b.ledger[r] \o <<>> = b.ledger[r]
  BY DEF Books
<1>2. [b.ledger EXCEPT ![r] = @ \o <<>>] = b.ledger
  BY <1>1
<1> QED
  BY <1>2 DEF Silent, Grown

\* The stream is as it was.
Still(b, c) == c.tail = b.tail /\ c.sent = b.sent /\ c.brought = b.brought

LEMMA NotesEffect ==
  ASSUME NEW b \in Books, NEW r \in Runs
  PROVE  /\ Notes(b, r) \in Books /\ Silent(b, Notes(b, r)) /\ Still(b, Notes(b, r))
         /\ Notes(b, r).observing = b.observing
         /\ Notes(b, r).current = IF b.observing THEN r ELSE b.current
BY DEF Notes, Books, Silent, Still

LEMMA CarriesEffect ==
  ASSUME NEW b \in Books, NEW r \in Runs
  PROVE  /\ Carries(b, r) \in Books /\ Silent(b, Carries(b, r))
         /\ Carries(b, r).observing = b.observing /\ Carries(b, r).current = b.current
         /\ Carries(b, r).tail = [b.tail EXCEPT ![r] = <<>>]
         /\ Carries(b, r).sent = b.sent /\ Carries(b, r).brought = b.brought
<1> DEFINE T == [b.tail EXCEPT ![r] = <<>>]
<1>1. T \in [Runs -> Seq(Nat)]
  BY DEF Books
<1>2. Carries(b, r) = [b EXCEPT !.tail = T]
  BY DEF Carries, Books
<1> HIDE DEF T
<1>3. /\ Carries(b, r) \in Books /\ Silent(b, Carries(b, r))
      /\ Carries(b, r).observing = b.observing /\ Carries(b, r).current = b.current
      /\ Carries(b, r).tail = T /\ Carries(b, r).sent = b.sent /\ Carries(b, r).brought = b.brought
  BY <1>1, <1>2 DEF Books, Silent
<1> QED
  BY <1>3 DEF T

\* A call brought these positions of r.
BroughtTo(b, c, r, positions) == c.brought = [b.brought EXCEPT ![r] = @ \o positions]

LEMMA BringsEffect ==
  ASSUME NEW b \in Books, NEW r \in Runs, NEW positions \in Seq(Nat)
  PROVE  /\ Brings(b, r, positions) \in Books /\ Silent(b, Brings(b, r, positions))
         /\ Brings(b, r, positions).observing = b.observing /\ Brings(b, r, positions).current = b.current
         /\ Brings(b, r, positions).tail = b.tail /\ Brings(b, r, positions).sent = b.sent
         /\ BroughtTo(b, Brings(b, r, positions), r, positions)
<1> DEFINE B == [b.brought EXCEPT ![r] = @ \o positions]
           c == Brings(b, r, positions)
<1>1. b.brought \in [Runs -> Seq(Nat)] /\ b.brought[r] \o positions \in Seq(Nat)
  BY DEF Books
<1>2. B \in [Runs -> Seq(Nat)]
  BY <1>1
<1>3. c = [b EXCEPT !.brought = B]
  BY DEF Brings, Books
<1> HIDE DEF B, c
<1>4. /\ c \in Books /\ Silent(b, c) /\ c.observing = b.observing /\ c.current = b.current
      /\ c.tail = b.tail /\ c.sent = b.sent /\ c.brought = B
  BY <1>2, <1>3 DEF Books, Silent
<1> QED
  BY <1>4 DEF B, c, BroughtTo

-----------------------------------------------------------------------------
(* The highest level a run was taken for.                                  *)

\* Of a bounded set of numbers the greatest.
LEMMA GreatestExists ==
  ASSUME NEW n \in Nat, NEW S, S \subseteq Nat, S # {}, \A i \in S : i <= n
  PROVE  \E i \in S : \A j \in S : j <= i
<1> DEFINE T == {k \in Nat : n - k \in S}
<1>1. PICK k \in T : \A m \in T : k <= m
  <2>1. PICK i : i \in S
    OBVIOUS
  <2>2. i \in Nat /\ i <= n
    BY <2>1
  <2>3. n - i \in Nat /\ n - (n - i) = i
    BY <2>2
  <2>4. T \subseteq Nat /\ n - i \in T
    BY <2>1, <2>3
  <2> HIDE DEF T
  <2> QED
    BY <2>4, LeastExists, Zenon
<1>2. ASSUME NEW j \in S PROVE j <= n - k
  <2>1. j \in Nat /\ j <= n
    OBVIOUS
  <2>2. n - j \in Nat /\ n - (n - j) = j
    BY <2>1
  <2>3. n - j \in T
    BY <2>2
  <2>4. k <= n - j /\ k \in Nat
    BY <1>1, <2>3
  <2> QED
    BY <2>1, <2>4
<1> QED
  BY <1>1, <1>2

\* The levels among the first n events are at most b.
LevelsUpto(events, n, b) ==
  \A i \in DOMAIN events : i <= n /\ events[i].kind = "intake" => events[i].of <= b

LEMMA IntakeLevels ==
  ASSUME NEW events \in Seq(Ev)
  PROVE  /\ Len(events) \in Nat /\ DOMAIN events = 1 .. Len(events)
         /\ \A i \in DOMAIN events : events[i].kind = "intake" => events[i].of \in Levels /\ events[i].of \in Nat
<1>1. ASSUME NEW e \in Ev, e.kind = "intake" PROVE e.of \in Levels /\ e.of \in Nat
  <2>1. e.of \in Levels
    BY <1>1, Zenon DEF Ev
  <2> QED
    BY <2>1, SessionAssumption
<1>2. \A i \in DOMAIN events : events[i] \in Ev
  OBVIOUS
<1> QED
  BY <1>1, <1>2

LEMMA OneMoreLevel ==
  ASSUME NEW events \in Seq(Ev), NEW n \in Nat, n # 0, NEW b \in Nat, LevelsUpto(events, n - 1, b)
  PROVE  \E c \in Nat : LevelsUpto(events, n, c)
<1> DEFINE there == n \in DOMAIN events /\ events[n].kind = "intake"
           of == events[n].of
           new == IF there /\ of > b THEN of ELSE b
<1>1. there => of \in Nat
  BY IntakeLevels
<1>2. new \in Nat /\ b <= new /\ (there => of <= new)
  <2> HIDE DEF there, of
  <2> QED
    BY <1>1
<1>3. ASSUME NEW i \in DOMAIN events, i <= n, events[i].kind = "intake" PROVE events[i].of <= new
  <2> HIDE DEF new
  <2>1. CASE i = n
    BY <1>2, <1>3, <2>1
  <2>2. CASE i # n
    <3>1. i \in Nat /\ events[i].of \in Nat
      BY <1>3, IntakeLevels
    <3>2. i <= n - 1
      BY <1>3, <2>2, <3>1
    <3>3. events[i].of <= b
      BY <1>3, <3>2 DEF LevelsUpto
    <3> QED
      BY <1>2, <3>1, <3>3
  <2> QED
    BY <2>1, <2>2
<1> HIDE DEF new
<1> QED
  BY <1>2, <1>3 DEF LevelsUpto

LEMMA LevelsAreBounded ==
  ASSUME NEW events \in Seq(Ev)
  PROVE  \E b \in Nat : \A l \in About(events, "intake") : l \in Levels /\ l <= b
<1> DEFINE P(n) == \E b \in Nat : LevelsUpto(events, n, b)
           Bad == {n \in Nat : ~P(n)}
<1>1. P(0)
  <2>1. \A i \in DOMAIN events : ~(i <= 0)
    OBVIOUS
  <2> QED
    BY <2>1 DEF LevelsUpto
<1>2. ASSUME NEW n \in Nat, n # 0, P(n - 1) PROVE P(n)
  BY <1>2, OneMoreLevel
<1> HIDE DEF P
<1>3. Bad = {}
  <2> SUFFICES ASSUME Bad # {} PROVE FALSE
    OBVIOUS
  <2>1. PICK n \in Bad : \A m \in Bad : n <= m
    <3>1. Bad \subseteq Nat
      OBVIOUS
    <3> HIDE DEF Bad
    <3> QED
      BY <3>1, LeastExists, Zenon
  <2>2. n \in Nat /\ ~P(n)
    BY <2>1
  <2>3. n # 0
    BY <1>1, <2>2
  <2>4. n - 1 \in Nat /\ ~P(n - 1)
    BY <1>2, <2>2, <2>3
  <2>5. n - 1 \in Bad
    BY <2>4
  <2> HIDE DEF Bad
  <2>6. n <= n - 1
    BY <2>1, <2>5
  <2> QED
    BY <2>2, <2>6
<1>4. P(Len(events))
  BY <1>3, IntakeLevels
<1>5. PICK b \in Nat : LevelsUpto(events, Len(events), b)
  BY <1>4 DEF P
<1>6. ASSUME NEW i \in DOMAIN events, events[i].kind = "intake" PROVE events[i].of \in Levels /\ events[i].of <= b
  <2>1. i <= Len(events)
    OBVIOUS
  <2> QED
    BY <1>5, <1>6, <2>1, IntakeLevels DEF LevelsUpto
<1>7. \A l \in About(events, "intake") : \E i \in DOMAIN events : events[i].kind = "intake" /\ l = events[i].of
  BY Zenon DEF About
<1> QED
  BY <1>6, <1>7

LEMMA LowestLevel == Lowest \in Levels
<1>1. \E l \in Levels : \A m \in Levels : l <= m
  <2>1. Levels \subseteq Nat /\ Levels # {}
    BY SessionAssumption
  <2> QED
    BY <2>1, LeastExists, Zenon
<1> QED
  BY <1>1 DEF Lowest

\* A run has a highest level, and one to start with.
LEMMA HighestIsALevel ==
  ASSUME NEW events \in Seq(Ev)
  PROVE  /\ HighestLevel(events) \in Levels
         /\ \A l \in About(events, "intake") : l <= HighestLevel(events)
<1> DEFINE A == About(events, "intake")
<1>1. PICK b \in Nat : \A l \in A : l \in Levels /\ l <= b
  BY LevelsAreBounded
<1>2. \E l \in Levels \cap (A \cup {Lowest}) : \A m \in A : m <= l
  <2>1. CASE A = {}
    BY <2>1, LowestLevel
  <2>2. CASE A # {}
    <3>1. A \subseteq Nat
      BY <1>1, SessionAssumption
    <3>2. PICK l \in A : \A m \in A : m <= l
      <4> HIDE DEF A
      <4> QED
        BY <1>1, <2>2, <3>1, GreatestExists
    <3> QED
      BY <1>1, <3>2
  <2> QED
    BY <2>1, <2>2
<1> DEFINE h == HighestLevel(events)
<1>3. h \in Levels \cap (A \cup {Lowest}) /\ \A m \in A : m <= h
  BY <1>2, Zenon DEF HighestLevel
<1> QED
  BY <1>3

-----------------------------------------------------------------------------
(* What the operations do to the turns.                                    *)

LEMMA TopTurn ==
  ASSUME turns \in Seq(Turns), turns # <<>>
  PROVE  top \in Nat /\ top >= 1 /\ top \in DOMAIN turns /\ DOMAIN turns = 1 .. top /\ turn \in Turns
BY DEF top, turn

LEMMA SetsEffect ==
  ASSUME turns \in Seq(Turns), turns # <<>>, NEW t \in Turns, Sets(t)
  PROVE  /\ turns' \in Seq(Turns) /\ turns' # <<>> /\ DOMAIN turns' = DOMAIN turns
         /\ \A i \in DOMAIN turns : turns'[i] = IF i = top THEN t ELSE turns[i]
<1>1. turns' = [turns EXCEPT ![top] = t] /\ Len(turns) \in Nat
  BY DEF Sets
<1>2. top \in DOMAIN turns /\ DOMAIN turns = 1 .. top
  BY TopTurn
<1>3. turns' \in Seq(Turns) /\ Len(turns') = Len(turns)
  BY <1>1, <1>2
<1> QED
  BY <1>1, <1>2, <1>3

\* The child is gone and its parent goes on.
Pops ==
  /\ top > 1
  /\ turns' \in Seq(Turns) /\ turns' # <<>> /\ DOMAIN turns' = 1 .. (top - 1)
  /\ \A i \in DOMAIN turns' : turns'[i] = IF i = top - 1 THEN [turns[i] EXCEPT !.at = "head"] ELSE turns[i]
  /\ UNCHANGED prompt

LEMMA ReturnsEffect ==
  ASSUME turns \in Seq(Turns), turns # <<>>, NEW b \in Books, b.observing, Returns(b)
  PROVE  /\ book' \in Books
         /\ \/ /\ Pops
               /\ book' = Notes(b, turns[top - 1].run) /\ turns[top - 1].run \in Runs
            \/ /\ top = 1 /\ turns' = <<>> /\ prompt' = Idle
               /\ Grown(b, book', turn.run, <<Event("intake", <<>>, turn.level)>>)
               /\ Queued(b, book', turn.run, 1)
               /\ ~book'.observing /\ book'.current = turn.run
<1>1. top \in Nat /\ top >= 1 /\ turn \in Turns /\ DOMAIN turns = 1 .. top /\ Len(turns) = top
  BY TopTurn DEF top
<1>2. CASE top > 1
  <2> DEFINE rest == SubSeq(turns, 1, top - 1)
  <2>1. turns' = [rest EXCEPT ![top - 1].at = "head"] /\ book' = Notes(b, turns[top - 1].run) /\ UNCHANGED prompt
    BY <1>2 DEF Returns
  <2>2. /\ rest \in Seq(Turns) /\ Len(rest) = top - 1 /\ DOMAIN rest = 1 .. (top - 1)
        /\ \A i \in 1 .. (top - 1) : rest[i] = turns[i]
    BY <1>1, <1>2
  <2>3. top - 1 \in 1 .. (top - 1) /\ turns[top - 1] \in Turns
    BY <1>1, <1>2
  <2> HIDE DEF rest
  <2> DEFINE p == [turns[top - 1] EXCEPT !.at = "head"]
  <2>4. p \in Turns
    BY <2>3 DEF Turns
  <2>5. turns' = [rest EXCEPT ![top - 1] = p]
    BY <2>1, <2>2, <2>3
  <2> HIDE DEF p
  <2>6. turns' \in Seq(Turns) /\ Len(turns') = top - 1
    BY <2>2, <2>3, <2>4, <2>5
  <2>7. DOMAIN turns' = 1 .. (top - 1) /\ turns' # <<>>
    BY <1>1, <1>2, <2>6
  <2>8. \A i \in 1 .. (top - 1) : turns'[i] = IF i = top - 1 THEN p ELSE turns[i]
    BY <2>2, <2>5
  <2>9. Pops
    BY <1>2, <2>1, <2>3, <2>6, <2>7, <2>8 DEF Pops, p
  <2>10. turns[top - 1].run \in Runs /\ book' \in Books
    BY <2>1, <2>3, NotesEffect DEF Turns
  <2> QED
    BY <2>1, <2>9, <2>10
<1>3. CASE ~(top > 1)
  <2> DEFINE intake == <<Event("intake", <<>>, turn.level)>>
             w == Writes(b, turn.run, intake)
  <2>1. top = 1 /\ book' = [w EXCEPT !.observing = FALSE] /\ prompt' = Idle /\ turns' = <<>>
    BY <1>1, <1>3 DEF Returns, Answers
  <2>2. Event("intake", <<>>, turn.level) \in Ev
    <3>1. turn.level \in Levels /\ turn.level \in What
      BY <1>1, SessionAssumption DEF Turns, What
    <3> QED
      BY <3>1 DEF Event, Ev, Kinds, Id
  <2>3. intake \in Seq(Ev) /\ Len(intake) = 1 /\ intake # <<>> /\ turn.run \in Runs
    BY <1>1, <2>2 DEF Turns
  <2> HIDE DEF intake
  <2>4. w \in Books /\ Grown(b, w, turn.run, intake) /\ Queued(b, w, turn.run, 1) /\ w.current = turn.run
    BY <2>3, WritesEffect
  <2> HIDE DEF w
  <2>5. /\ book' \in Books /\ ~book'.observing /\ book'.current = w.current
        /\ book'.ledger = w.ledger /\ book'.kept = w.kept /\ book'.tail = w.tail /\ book'.sent = w.sent
        /\ book'.brought = w.brought
    BY <2>1, <2>4 DEF Books
  <2>6. Grown(b, book', turn.run, intake) /\ Queued(b, book', turn.run, 1)
    BY <2>4, <2>5 DEF Grown, Queued
  <2> QED
    BY <2>1, <2>4, <2>5, <2>6 DEF intake
<1> QED
  BY <1>2, <1>3

LEMMA AboutIsWhat ==
  ASSUME NEW events \in Seq(Ev), NEW k
  PROVE  About(events, k) \in SUBSET What
<1>1. \A i \in DOMAIN events : events[i].of \in What
  BY DEF Ev
<1> QED
  BY <1>1, Zenon DEF About

LEMMA NewTurnType ==
  ASSUME book \in Books, NEW r \in Runs, NEW resumes \in BOOLEAN, NEW level \in Levels, NEW limit \in Nat,
         NEW mayDelegate \in Nat
  PROVE  NewTurn(r, resumes, level, limit, mayDelegate) \in Turns
<1>1. book.ledger[r] \in Seq(Ev)
  BY DEF Books
<1>2. AppliedIDs(book.ledger[r]) \in SUBSET What /\ About(book.ledger[r], "call") \in SUBSET What
  BY <1>1, AboutIsWhat DEF AppliedIDs
<1>3. <<>> \in Seq(What) /\ <<>> \in Seq(Nat)
  OBVIOUS
<1> QED
  BY <1>2, <1>3 DEF NewTurn, Turns

LEMMA NewTurnIs ==
  ASSUME NEW r, NEW resumes, NEW level, NEW limit, NEW mayDelegate, NEW t,
         t = NewTurn(r, resumes, level, limit, mayDelegate)
  PROVE  /\ t.run = r /\ t.at = "head" /\ t.heard = <<>> /\ t.applied = AppliedIDs(book.ledger[r])
         /\ t.knows = (IF resumes THEN About(book.ledger[r], "call") ELSE {})
         /\ t.steps = 0 /\ t.delegated = 0 /\ t.level = level /\ t.limit = limit
         /\ t.mayDelegate = mayDelegate /\ t.carries = <<>>
BY DEF NewTurn

LEMMA ChildIs ==
  ASSUME NEW p, NEW r, NEW t, t = ChildTurn(p, r)
  PROVE  /\ t.run = r /\ t.at = "head" /\ t.heard = <<>> /\ t.knows = {} /\ t.steps = 0 /\ t.delegated = 0
         /\ t.level = p.level /\ t.limit = Remaining(p.limit, p.steps - 1) /\ t.mayDelegate = 0
         /\ t.carries = <<>>
BY DEF ChildTurn, NewTurn

\* What is pending of a ledger are steers of it, each once, and not yet applied.
LEMMA PendingSteers ==
  ASSUME book \in Books, turns \in Seq(Turns), turns # <<>>
  PROVE  /\ Pending \in Seq(Ev)
         /\ \E n \in Nat : \E f \in [1 .. n -> DOMAIN book.ledger[turn.run]] :
              /\ Pending = [k \in 1 .. n |-> book.ledger[turn.run][f[k]]]
              /\ \A k, m \in 1 .. n : f[k] = f[m] => k = m
              /\ \A k \in 1 .. n :
                   book.ledger[turn.run][f[k]].kind = "steer" /\ book.ledger[turn.run][f[k]].id \notin turn.applied
<1> DEFINE events == book.ledger[turn.run]
           kept == {i \in DOMAIN events : events[i].kind = "steer" /\ events[i].id \notin turn.applied}
<1>1. events \in Seq(Ev)
  BY TopTurn DEF Books, Turns
<1>2. Len(events) \in Nat /\ DOMAIN events = 1 .. Len(events) /\ kept \in SUBSET (1 .. Len(events))
  BY <1>1
<1>3. Pending = Keep(events, kept)
  BY Zenon DEF Pending
<1> DEFINE C == Cardinality(kept)
<1>4. OnceEach(Keep(events, kept), C, events, kept)
  <2>1. PICK n \in Nat : n = Len(events) /\ kept \in SUBSET (1 .. n)
    BY <1>2
  <2> HIDE DEF events, kept
  <2> QED
    BY <2>1, KeepEntries, Zenon
<1>5. PICK f \in [1 .. C -> kept] : /\ Keep(events, kept) = [k \in 1 .. C |-> events[f[k]]]
                                   /\ \A k, m \in 1 .. C : f[k] = f[m] => k = m
  BY <1>4, Zenon DEF OnceEach
<1>9. C \in Nat
  BY <1>4, Zenon DEF OnceEach
<1>6. \A k \in 1 .. C : /\ f[k] \in DOMAIN events
                       /\ events[f[k]].kind = "steer" /\ events[f[k]].id \notin turn.applied
  <2> HIDE DEF C
  <2> QED
    BY <1>5
<1> HIDE DEF C, kept
<1>7. f \in [1 .. C -> DOMAIN events]
  BY <1>5, <1>6
<1>8. Pending \in Seq(Ev)
  BY <1>1, <1>3, <1>9, <1>5, <1>6
<1> QED
  BY <1>3, <1>9, <1>5, <1>6, <1>7, <1>8

\* The turn on top is over, and b is what its book was by then.
Leaves(b) ==
  /\ book' \in Books
  /\ \/ /\ Pops /\ Silent(b, book') /\ Still(b, book')
        /\ book'.observing /\ book'.current = turns[top - 1].run
     \/ /\ top = 1 /\ turns' = <<>> /\ prompt' = Idle
        /\ Grown(b, book', turn.run, <<Event("intake", <<>>, turn.level)>>)
        /\ Queued(b, book', turn.run, 1)
        /\ ~book'.observing /\ book'.current = turn.run

LEMMA ReturnsLeaves ==
  ASSUME turns \in Seq(Turns), turns # <<>>, NEW b \in Books, b.observing,
         Returns(b) \/ Returns(Notes(b, turn.run))
  PROVE  Leaves(b)
<1>1. turn.run \in Runs /\ top \in Nat
  BY TopTurn DEF Turns
<1> DEFINE c == Notes(b, turn.run)
<1>2. c \in Books /\ Silent(b, c) /\ Still(b, c) /\ c.observing = b.observing
  BY <1>1, NotesEffect
<1> HIDE DEF c
<1>3. PICK d \in {b, c} : Returns(d)
  BY DEF c
<1>4. d \in Books /\ Silent(b, d) /\ Still(b, d) /\ d.observing
  BY <1>2, <1>3 DEF Silent, Still
<1>5. /\ book' \in Books
      /\ \/ Pops /\ book' = Notes(d, turns[top - 1].run) /\ turns[top - 1].run \in Runs
         \/ /\ top = 1 /\ turns' = <<>> /\ prompt' = Idle
            /\ Grown(d, book', turn.run, <<Event("intake", <<>>, turn.level)>>)
            /\ Queued(d, book', turn.run, 1)
            /\ ~book'.observing /\ book'.current = turn.run
  BY <1>3, <1>4, ReturnsEffect
<1>6. CASE Pops /\ book' = Notes(d, turns[top - 1].run) /\ turns[top - 1].run \in Runs
  <2>1. Silent(d, book') /\ Still(d, book') /\ book'.observing /\ book'.current = turns[top - 1].run
    BY <1>4, <1>6, NotesEffect
  <2> QED
    BY <1>4, <1>5, <1>6, <2>1 DEF Leaves, Silent, Still
<1>7. CASE /\ top = 1 /\ turns' = <<>> /\ prompt' = Idle
           /\ Grown(d, book', turn.run, <<Event("intake", <<>>, turn.level)>>)
           /\ Queued(d, book', turn.run, 1)
           /\ ~book'.observing /\ book'.current = turn.run
  <2>1. Grown(b, book', turn.run, <<Event("intake", <<>>, turn.level)>>)
    BY <1>4, <1>7 DEF Grown, Silent
  <2>2. Queued(b, book', turn.run, 1)
    BY <1>4, <1>7 DEF Queued, Still, Positions
  <2> QED
    BY <1>5, <1>7, <2>1, <2>2 DEF Leaves
<1> QED
  BY <1>5, <1>6, <1>7

-----------------------------------------------------------------------------
(* The types of a session, and what goes with a prompt.                    *)

Typed ==
  /\ open \in BOOLEAN /\ cancelling \in BOOLEAN /\ ctx \in {"live", "cancelled"}
  /\ status \in [Runs -> Statuses] /\ missed \in SUBSET Runs
  /\ book \in Books /\ prompt \in Prompts /\ turns \in Seq(Turns)
  /\ made \in 0 .. MaxRuns /\ prompts \in Nat /\ steers \in Nat /\ calls \in Nat /\ acts \in Nat

Paired ==
  /\ (turns # <<>>) <=> (prompt.at = "running")
  /\ book.observing <=> (prompt # Idle)
  /\ prompt.at \in {"launching", "intake_only"} => prompt.level \in Levels
  /\ prompt.at = "planning" /\ (prompt.resumed \/ prompt.answers) => prompt.run \in Runs
  /\ prompt.at = "planning" /\ prompt.answers => ~prompt.resumed

TypeInv == Typed /\ Paired

LEMMA IdleIsTyped == Idle \in Prompts /\ Idle.at = "none" /\ EmptyBook \in Books
<1>1. Idle \in Prompts /\ Idle.at = "none"
  BY DEF Idle, Prompts
<1>2. <<>> \in Seq(Ev) /\ <<>> \in Seq(Nat) /\ 0 \in Nat
  OBVIOUS
<1> QED
  BY <1>1, <1>2 DEF EmptyBook, Books

LEMMA InATurn ==
  ASSUME TypeInv, turns # <<>>
  PROVE  /\ turns \in Seq(Turns) /\ book \in Books /\ book.observing /\ prompt.at = "running"
         /\ top \in Nat /\ top >= 1 /\ top \in DOMAIN turns /\ DOMAIN turns = 1 .. top
         /\ turn \in Turns /\ turn.run \in Runs /\ turn.level \in Levels /\ turn.level \in Nat
         /\ \A i \in DOMAIN turns : turns[i] \in Turns /\ turns[i].run \in Runs
<1>1. prompt.at = "running" /\ prompt # Idle
  BY IdleIsTyped DEF TypeInv, Paired
<1>2. turn \in Turns /\ turn.run \in Runs /\ turn.level \in Levels
  BY TopTurn DEF TypeInv, Typed, Turns
<1>3. \A i \in DOMAIN turns : turns[i] \in Turns /\ turns[i].run \in Runs
  <2>1. turns \in Seq(Turns)
    BY DEF TypeInv, Typed
  <2>2. \A t \in Turns : t.run \in Runs
    BY DEF Turns
  <2> QED
    BY <2>1, <2>2
<1>4. turns \in Seq(Turns) /\ book \in Books /\ book.observing
  BY <1>1 DEF TypeInv, Typed, Paired
<1>5. turn.level \in Nat
  BY <1>2, SessionAssumption
<1> QED
  BY <1>1, <1>2, <1>3, <1>4, <1>5, TopTurn

\* A turn that is over leaves the session paired.
LEMMA LeavesTyped ==
  ASSUME TypeInv, turns # <<>>, NEW b \in Books, Leaves(b)
  PROVE  book' \in Books /\ prompt' \in Prompts /\ turns' \in Seq(Turns) /\ Paired'
<1>1. CASE Pops
  BY <1>1, InATurn, IdleIsTyped DEF Leaves, Pops, TypeInv, Typed, Paired
<1>2. CASE turns' = <<>> /\ prompt' = Idle
  <2>1. ~book'.observing /\ book' \in Books
    BY <1>2 DEF Leaves, Pops
  <2>2. prompt' \in Prompts /\ prompt'.at = "none" /\ turns' \in Seq(Turns)
    BY <1>2, IdleIsTyped
  <2> QED
    BY <1>2, <2>1, <2>2 DEF Paired
<1> QED
  BY <1>1, <1>2 DEF Leaves

\* What Ends and Abandons do.
LEMMA EndsEffect ==
  ASSUME TypeInv, turns # <<>>, NEW st \in Statuses, Abandons \/ Ends(st)
  PROVE  /\ Leaves(book) /\ status' \in [Runs -> Statuses]
         /\ \/ status' = status
            \/ /\ status[turn.run] \notin Ended
               /\ \E s \in {st, "failed"} : status' = [status EXCEPT ![turn.run] = s]
<1>1. Returns(book) \/ Returns(Notes(book, turn.run))
  BY DEF Abandons, Ends
<1>2. Leaves(book)
  BY <1>1, InATurn, ReturnsLeaves
<1>3. \/ status' = status
      \/ /\ status[turn.run] \notin Ended
         /\ \E s \in {st, "failed"} : status' = [status EXCEPT ![turn.run] = s]
  BY DEF Abandons, Ends, Becomes
<1> QED
  BY <1>2, <1>3 DEF TypeInv, Typed, Statuses, Ended

-----------------------------------------------------------------------------
(* What a step adds to the ledgers and makes of the turns.                 *)

\* An instruction, a call and a level are told by the step they are of.
Fits(events) ==
  \A i \in DOMAIN events :
    /\ events[i].kind = "steer" => Len(events) = 1 /\ events[i].of = steers + 1 /\ steers' = steers + 1
    /\ events[i].kind = "call" => events[i].of = calls + 1 /\ calls' = calls + 1
    /\ events[i].kind = "intake" => turns' = <<>>

Known(r) == r = book.current \/ (turns # <<>> /\ r = turn.run) \/ status'[r] # "absent"

LedgerGrows ==
  \/ Silent(book, book')
  \/ \E r \in Runs : \E events \in Seq(Ev) : Grown(book, book', r, events) /\ Fits(events) /\ Known(r)

\* A turn goes on with what it heard and what it knew.
Goes(t, u) ==
  u.run = t.run /\ u.heard = t.heard /\ u.applied = t.applied /\ u.knows = t.knows /\ u.level = t.level

TurnsGo ==
  DOMAIN turns' \subseteq DOMAIN turns /\ \A i \in DOMAIN turns' : Goes(turns[i], turns'[i])

Counted == steers' \in Nat /\ steers <= steers' /\ calls' \in Nat /\ calls <= calls'

LEMMA Instant == ASSUME TypeInv, UNCHANGED <<steers, calls>> PROVE Counted
BY DEF TypeInv, Typed, Counted

LEMMA LeavesGrows ==
  ASSUME TypeInv, turns # <<>>, NEW b \in Books, Silent(book, b), Leaves(b)
  PROVE  LedgerGrows /\ TurnsGo
<1>1. CASE Pops /\ Silent(b, book')
  <2>1. LedgerGrows
    BY <1>1 DEF Silent, LedgerGrows
  <2>2. top \in Nat /\ DOMAIN turns = 1 .. top /\ \A i \in DOMAIN turns : turns[i] \in Turns
    BY InATurn
  <2>3. DOMAIN turns' \subseteq DOMAIN turns
    BY <1>1, <2>2 DEF Pops
  <2>4. ASSUME NEW t \in Turns PROVE Goes(t, [t EXCEPT !.at = "head"])
    BY DEF Goes, Turns
  <2>5. \A i \in DOMAIN turns' : Goes(turns[i], turns'[i])
    BY <1>1, <2>2, <2>3, <2>4 DEF Pops, Goes
  <2> QED
    BY <2>1, <2>3, <2>5 DEF TurnsGo
<1>2. CASE turns' = <<>> /\ Grown(b, book', turn.run, <<Event("intake", <<>>, turn.level)>>)
  <2> DEFINE e == Event("intake", <<>>, turn.level)
  <2>1. e \in Ev /\ e.kind = "intake"
    BY InATurn DEF Event, Ev, Kinds, Id, What
  <2> HIDE DEF e
  <2>2. <<e>> \in Seq(Ev) /\ Fits(<<e>>)
    BY <1>2, <2>1 DEF Fits
  <2>3. Grown(book, book', turn.run, <<e>>)
    BY <1>2 DEF Grown, Silent, e
  <2>4. Known(turn.run) /\ turn.run \in Runs
    BY InATurn DEF Known
  <2>5. TurnsGo
    BY <1>2 DEF TurnsGo
  <2> QED
    BY <2>2, <2>3, <2>4, <2>5 DEF LedgerGrows
<1> QED
  BY <1>1, <1>2 DEF Leaves

\* The turn on top is set and keeps what it heard and what it knew.
LEMMA SetGoes ==
  ASSUME TypeInv, turns # <<>>, NEW t \in Turns, Sets(t), Goes(turn, t)
  PROVE  TurnsGo /\ turns' \in Seq(Turns) /\ turns' # <<>>
<1>1. /\ turns' \in Seq(Turns) /\ turns' # <<>> /\ DOMAIN turns' = DOMAIN turns
      /\ \A i \in DOMAIN turns : turns'[i] = IF i = top THEN t ELSE turns[i]
  BY InATurn, SetsEffect, Zenon
<1>2. \A i \in DOMAIN turns' : Goes(turns[i], turns'[i])
  BY <1>1 DEF Goes, turn
<1> QED
  BY <1>1, <1>2 DEF TurnsGo

\* A step within the turn on top keeps the session paired.
LEMMA StaysPaired ==
  ASSUME TypeInv, turns # <<>>, turns' # <<>>, book'.observing = book.observing, UNCHANGED prompt
  PROVE  Paired'
BY DEF TypeInv, Paired

-----------------------------------------------------------------------------
(* The steps of a turn.                                                    *)

LEMMA OutcomeTyped ==
  ASSUME TypeInv, turns # <<>>, NEW st \in Statuses, Abandons \/ Ends(st),
         UNCHANGED <<open, ctx, cancelling, counted, acts, missed>>
  PROVE  TypeInv' /\ LedgerGrows /\ TurnsGo /\ Counted
<1>1. Leaves(book) /\ status' \in [Runs -> Statuses]
  BY EndsEffect
<1>2. book' \in Books /\ prompt' \in Prompts /\ turns' \in Seq(Turns) /\ Paired'
  BY <1>1, InATurn, LeavesTyped
<1>3. Typed'
  BY <1>1, <1>2 DEF TypeInv, Typed, counted
<1>4. LedgerGrows /\ TurnsGo
  BY <1>1, InATurn, LeavesGrows DEF Silent
<1> QED
  BY <1>2, <1>3, <1>4, Instant DEF TypeInv, counted

\* A turn that hears what is pending.
Hears ==
  /\ ~ContextEnded /\ turn.steps < turn.limit
  /\ Sets([Heard(turn, Pending) EXCEPT !.at = "act", !.steps = @ + 1])
  /\ book' = Writes(book, turn.run, Applications(Pending))
  /\ acts' = acts + 1
  /\ UNCHANGED <<status, prompt>>

LEMMA HeadSplits ==
  ASSUME StepHead
  PROVE  /\ turns # <<>> /\ turn.at = "head"
         /\ UNCHANGED <<open, ctx, cancelling, counted, missed>>
         /\ \/ (Abandons \/ Ends("blocked")) /\ UNCHANGED acts
            \/ Hears
BY DEF StepHead, Hears

LEMMA HeardTyped ==
  ASSUME TypeInv, turns # <<>>
  PROVE  /\ Pending \in Seq(Ev) /\ Applications(Pending) \in Seq(Ev)
         /\ Heard(turn, Pending) \in Turns
         /\ \A i \in DOMAIN Applications(Pending) : Applications(Pending)[i].kind = "applied"
<1>1. Pending \in Seq(Ev)
  BY InATurn, PendingSteers
<1>2. \A e \in Ev : e.id \in What /\ e.of \in What /\ Event("applied", <<>>, e.id) \in Ev
  BY DEF Ev, What, Id, Event, Kinds
<1> DEFINE p == Pending
<1>3. p \in Seq(Ev)
  BY <1>1
<1> HIDE DEF p
<1>4. Applications(p) \in Seq(Ev) /\ \A i \in DOMAIN Applications(p) : Applications(p)[i].kind = "applied"
  <2>1. \A i \in DOMAIN p : p[i] \in Ev
    BY <1>3
  <2>2. DOMAIN p = 1 .. Len(p) /\ Len(p) \in Nat
    BY <1>3
  <2>3. \A i \in 1 .. Len(p) : Event("applied", <<>>, p[i].id) \in Ev
    BY <1>2, <2>1, <2>2
  <2>4. [i \in 1 .. Len(p) |-> Event("applied", <<>>, p[i].id)] \in Seq(Ev)
    BY <2>2, <2>3
  <2> QED
    BY <2>2, <2>4 DEF Applications, Event
<1>5. Told(p) \in Seq(What)
  <2>1. \A i \in DOMAIN p : p[i].of \in What
    BY <1>2, <1>3
  <2> QED
    BY <1>3, <2>1 DEF Told
<1>6. Ids(p) \in SUBSET What
  <2>1. \A i \in DOMAIN p : p[i].id \in What
    BY <1>2, <1>3
  <2> QED
    BY <2>1, Zenon DEF Ids
<1>7. turn \in Turns
  BY InATurn
<1> DEFINE h == turn.heard \o Told(p)
           a == turn.applied \cup Ids(p)
<1>8. h \in Seq(What) /\ a \in SUBSET What
  BY <1>5, <1>6, <1>7 DEF Turns
<1>9. Heard(turn, p) = [turn EXCEPT !.heard = h, !.applied = a]
  BY <1>7 DEF Heard, Turns
<1> HIDE DEF h, a
<1>10. Heard(turn, p) \in Turns
  BY <1>7, <1>8, <1>9 DEF Turns
<1> QED
  BY <1>3, <1>4, <1>10 DEF p

LEMMA TurnNumbers ==
  ASSUME NEW t \in Turns
  PROVE  /\ t.steps \in Nat /\ t.delegated \in Nat /\ t.limit \in Nat /\ t.mayDelegate \in Nat
         /\ t.steps + 1 \in Nat /\ t.delegated + 1 \in Nat
         /\ Remaining(t.limit, t.steps - 1) \in Nat
<1>1. t.steps \in Nat /\ t.delegated \in Nat /\ t.limit \in Nat /\ t.mayDelegate \in Nat
  BY DEF Turns
<1> QED
  BY <1>1 DEF Remaining

LEMMA StatusesHold ==
  {"blocked", "completed", "failed", "cancelled", "planned", "running", "absent"} \cup Waiting \subseteq Statuses
BY DEF Statuses, Waiting, Ended

LEMMA StepHeadEffect ==
  ASSUME TypeInv, StepHead
  PROVE  TypeInv' /\ LedgerGrows /\ (TurnsGo \/ Hears) /\ Counted
<1>1. CASE (Abandons \/ Ends("blocked")) /\ UNCHANGED acts
  <2>1. turns # <<>> /\ UNCHANGED <<open, ctx, cancelling, counted, missed>>
    BY HeadSplits
  <2> QED
    BY <1>1, <2>1, OutcomeTyped, StatusesHold
<1>2. CASE Hears
  <2>1. turns # <<>> /\ UNCHANGED <<open, ctx, cancelling, counted, missed>>
    BY HeadSplits
  <2> DEFINE h == Heard(turn, Pending)
             t == [h EXCEPT !.at = "act", !.steps = @ + 1]
             events == Applications(Pending)
  <2>2. h \in Turns /\ events \in Seq(Ev) /\ \A i \in DOMAIN events : events[i].kind = "applied"
    BY <2>1, HeardTyped
  <2>3. Sets(t) /\ book' = Writes(book, turn.run, events) /\ acts' = acts + 1 /\ UNCHANGED <<status, prompt>>
    BY <1>2 DEF Hears
  <2> HIDE DEF h, events
  <2>4. t \in Turns
    <3>1. h.steps + 1 \in Nat
      BY <2>2, TurnNumbers
    <3> QED
      BY <2>2, <3>1 DEF Turns
  <2> HIDE DEF t
  <2>5. turns' \in Seq(Turns) /\ turns' # <<>>
    BY <2>1, <2>3, <2>4, InATurn, SetsEffect, Zenon
  <2>6. /\ book' \in Books /\ Grown(book, book', turn.run, events) /\ book'.observing = book.observing
    <3>1. book \in Books /\ turn.run \in Runs
      BY <2>1, InATurn
    <3> QED
      BY <2>2, <2>3, <3>1, WritesEffect
  <2>7. Fits(events)
    BY <2>2 DEF Fits
  <2>8. LedgerGrows
    BY <2>1, <2>2, <2>6, <2>7, InATurn DEF LedgerGrows, Known
  <2>9. Paired'
    BY <2>1, <2>3, <2>5, <2>6, StaysPaired
  <2>10. Typed'
    BY <2>1, <2>3, <2>5, <2>6 DEF TypeInv, Typed, counted
  <2> QED
    BY <1>2, <2>1, <2>8, <2>9, <2>10, Instant DEF TypeInv, counted
<1> QED
  BY <1>1, <1>2, HeadSplits

LEMMA LosesItsContextEffect ==
  ASSUME TypeInv, LosesItsContext
  PROVE  TypeInv' /\ LedgerGrows /\ TurnsGo /\ Counted
BY OutcomeTyped, StatusesHold DEF LosesItsContext

LEMMA FinishEffect ==
  ASSUME TypeInv, Finish
  PROVE  TypeInv' /\ LedgerGrows /\ TurnsGo /\ Counted
BY OutcomeTyped, StatusesHold DEF Finish, Decides

LEMMA CallIsAnEvent ==
  ASSUME TypeInv
  PROVE  <<Event("call", <<>>, calls + 1)>> \in Seq(Ev) /\ <<Event("call", <<>>, calls + 1)>> # <<>>
<1>1. Event("call", <<>>, calls + 1) \in Ev
  BY DEF TypeInv, Typed, Event, Ev, Kinds, Id, What
<1> QED
  BY <1>1

LEMMA BeginCallEffect ==
  ASSUME TypeInv, BeginCall
  PROVE  TypeInv' /\ LedgerGrows /\ TurnsGo /\ Counted
<1> DEFINE event == Event("call", <<>>, calls + 1)
           b == Writes(book, turn.run, <<event>>)
           t == [turn EXCEPT !.at = "call", !.carries = b.tail[turn.run]]
<1>1. /\ turns # <<>> /\ book' = Carries(b, turn.run) /\ Sets(t) /\ calls' = calls + 1
      /\ UNCHANGED <<open, status, prompt, ctx, cancelling, made, prompts, steers, acts, missed>>
  BY DEF BeginCall, Decides
<1>2. <<event>> \in Seq(Ev) /\ event.kind = "call" /\ event.of = calls + 1
  BY CallIsAnEvent DEF Event
<1> HIDE DEF event
<1>3. b \in Books /\ Grown(book, b, turn.run, <<event>>) /\ b.observing = book.observing
  BY <1>1, <1>2, InATurn, WritesEffect
<1> HIDE DEF b
<1>4. book' \in Books /\ Silent(b, book') /\ book'.observing = book.observing
  BY <1>1, <1>3, InATurn, CarriesEffect
<1>5. Grown(book, book', turn.run, <<event>>)
  BY <1>3, <1>4 DEF Grown, Silent
<1>6. t \in Turns /\ Goes(turn, t)
  <2>1. b.tail[turn.run] \in Seq(Nat)
    BY <1>1, <1>3, InATurn DEF Books
  <2> QED
    BY <1>1, <2>1, InATurn DEF Turns, Goes
<1> HIDE DEF t
<1>7. TurnsGo /\ turns' \in Seq(Turns) /\ turns' # <<>>
  BY <1>1, <1>6, SetGoes
<1>8. LedgerGrows
  <2>1. Fits(<<event>>)
    BY <1>1, <1>2 DEF Fits
  <2> QED
    BY <1>1, <1>2, <1>5, <2>1, InATurn DEF LedgerGrows, Known
<1>9. Paired'
  BY <1>1, <1>4, <1>7, StaysPaired
<1>10. Typed' /\ Counted
  BY <1>1, <1>4, <1>7 DEF TypeInv, Typed, Counted
<1> QED
  BY <1>7, <1>8, <1>9, <1>10 DEF TypeInv

\* A step that sets the turn on top, adds nothing to a ledger and leaves the rest.
LEMMA SetTyped ==
  ASSUME TypeInv, turns # <<>>, NEW t \in Turns, Sets(t), Goes(turn, t), book' \in Books,
         Silent(book, book'), book'.observing = book.observing,
         UNCHANGED <<open, status, prompt, ctx, cancelling, counted, acts, missed>>
  PROVE  TypeInv' /\ LedgerGrows /\ TurnsGo /\ Counted
<1>1. TurnsGo /\ turns' \in Seq(Turns) /\ turns' # <<>>
  BY SetGoes
<1>2. Paired'
  BY <1>1, StaysPaired
<1>3. Typed'
  BY <1>1 DEF TypeInv, Typed, counted
<1> QED
  BY <1>1, <1>2, <1>3, Instant DEF TypeInv, LedgerGrows, counted

LEMMA BackAtTheHead ==
  ASSUME TypeInv, turns # <<>>
  PROVE  /\ [turn EXCEPT !.at = "head", !.carries = <<>>] \in Turns
         /\ Goes(turn, [turn EXCEPT !.at = "head", !.carries = <<>>])
<1>1. turn \in Turns /\ <<>> \in Seq(Nat)
  BY InATurn
<1> QED
  BY <1>1 DEF Turns, Goes

LEMMA LoseCallEffect ==
  ASSUME TypeInv, LoseCall
  PROVE  TypeInv' /\ LedgerGrows /\ TurnsGo /\ Counted
<1> DEFINE t == [turn EXCEPT !.at = "head", !.carries = <<>>]
<1>1. /\ turns # <<>> /\ book' = Notes(book, turn.run) /\ Sets(t)
      /\ UNCHANGED <<open, status, prompt, ctx, cancelling, counted, acts, missed>>
  BY DEF LoseCall
<1>2. t \in Turns /\ Goes(turn, t)
  BY <1>1, BackAtTheHead
<1>3. book' \in Books /\ Silent(book, book') /\ book'.observing = book.observing
  BY <1>1, InATurn, NotesEffect
<1> HIDE DEF t
<1> QED
  BY <1>1, <1>2, <1>3, SetTyped

\* The book of a call that arrived.
LEMMA ArrivedEffect ==
  ASSUME TypeInv, turns # <<>>
  PROVE  /\ Brings(book, turn.run, turn.carries) \in Books
         /\ Silent(book, Brings(book, turn.run, turn.carries))
         /\ Brings(book, turn.run, turn.carries).observing
<1>1. turn.carries \in Seq(Nat)
  BY InATurn DEF Turns
<1> QED
  BY <1>1, InATurn, BringsEffect

LEMMA AnswerCallEffect ==
  ASSUME TypeInv, AnswerCall
  PROVE  TypeInv' /\ LedgerGrows /\ TurnsGo /\ Counted
<1> DEFINE t == [turn EXCEPT !.at = "head", !.carries = <<>>]
           b == Brings(book, turn.run, turn.carries)
<1>1. /\ turns # <<>> /\ UNCHANGED <<open, ctx, cancelling, counted, acts, missed>>
      /\ \/ book' = Notes(b, turn.run) /\ Sets(t) /\ UNCHANGED <<status, prompt>>
         \/ \E st \in Waiting : Becomes(st) /\ Returns(Notes(b, turn.run))
  BY DEF AnswerCall
<1>2. b \in Books /\ Silent(book, b) /\ b.observing
  BY <1>1, ArrivedEffect
<1>3. t \in Turns /\ Goes(turn, t)
  BY <1>1, BackAtTheHead
<1> HIDE DEF t, b
<1>4. CASE book' = Notes(b, turn.run) /\ Sets(t) /\ UNCHANGED <<status, prompt>>
  <2>1. book' \in Books /\ Silent(b, book') /\ book'.observing = book.observing
    BY <1>1, <1>2, <1>4, InATurn, NotesEffect
  <2>2. Silent(book, book')
    BY <1>2, <2>1 DEF Silent
  <2> QED
    BY <1>1, <1>3, <1>4, <2>1, <2>2, SetTyped
<1>5. ASSUME NEW st \in Waiting, Becomes(st), Returns(Notes(b, turn.run))
      PROVE  TypeInv' /\ LedgerGrows /\ TurnsGo /\ Counted
  <2>1. Leaves(b)
    BY <1>1, <1>2, <1>5, InATurn, ReturnsLeaves
  <2>2. book' \in Books /\ prompt' \in Prompts /\ turns' \in Seq(Turns) /\ Paired'
    BY <1>1, <1>2, <2>1, LeavesTyped
  <2>3. status' \in [Runs -> Statuses]
    BY <1>5, StatusesHold DEF Becomes, TypeInv, Typed
  <2>4. Typed'
    BY <1>1, <2>2, <2>3 DEF TypeInv, Typed, counted
  <2>5. LedgerGrows /\ TurnsGo
    BY <1>1, <1>2, <2>1, LeavesGrows
  <2> QED
    BY <1>1, <2>2, <2>4, <2>5, Instant DEF TypeInv, counted
<1> QED
  BY <1>1, <1>4, <1>5

LEMMA DelegateEffect ==
  ASSUME TypeInv, Delegate
  PROVE  TypeInv' /\ LedgerGrows /\ TurnsGo /\ Counted
<1>1. /\ turns # <<>>
      /\ UNCHANGED <<open, status, prompt, ctx, cancelling, counted, acts, missed>>
      /\ \/ Sets([turn EXCEPT !.at = "delegating", !.delegated = @ + 1]) /\ book' = Notes(book, turn.run)
         \/ Sets([turn EXCEPT !.at = "head", !.delegated = @ + 1]) /\ UNCHANGED book
  BY Zenon DEF Delegate, Decides
<1>2. book' \in Books /\ Silent(book, book') /\ book'.observing = book.observing
  BY <1>1, InATurn, NotesEffect DEF Silent
<1>3. PICK at \in {"delegating", "head"} : Sets([turn EXCEPT !.at = at, !.delegated = @ + 1])
  BY <1>1
<1> DEFINE t == [turn EXCEPT !.at = at, !.delegated = @ + 1]
<1>4. t \in Turns /\ Goes(turn, t)
  <2>1. turn \in Turns /\ turn.delegated + 1 \in Nat
    BY <1>1, InATurn, TurnNumbers
  <2> QED
    BY <2>1 DEF Turns, Goes
<1> HIDE DEF t
<1> QED
  BY <1>1, <1>2, <1>3, <1>4, SetTyped DEF t

LEMMA NoChildEffect ==
  ASSUME TypeInv, NoChild
  PROVE  TypeInv' /\ LedgerGrows /\ TurnsGo /\ Counted
<1> DEFINE t == [turn EXCEPT !.at = "head"]
<1>1. /\ turns # <<>> /\ Sets(t) /\ UNCHANGED book
      /\ UNCHANGED <<open, status, prompt, ctx, cancelling, counted, acts, missed>>
  BY DEF NoChild
<1>2. book' \in Books /\ Silent(book, book') /\ book'.observing = book.observing
  BY <1>1, InATurn DEF Silent
<1>3. t \in Turns /\ Goes(turn, t)
  BY <1>1, InATurn DEF Turns, Goes
<1> HIDE DEF t
<1> QED
  BY <1>1, <1>2, <1>3, SetTyped

LEMMA NoteIsAnEvent == <<Note>> \in Seq(Ev) /\ <<Note>> # <<>> /\ Fits(<<Note>>)
<1>1. Note \in Ev /\ Note.kind = "note"
  BY DEF Note, Event, Ev, Kinds, Id, What
<1>2. <<Note>> \in Seq(Ev) /\ <<Note>> # <<>> /\ \A i \in DOMAIN <<Note>> : <<Note>>[i] = Note
  BY <1>1
<1> QED
  BY <1>1, <1>2 DEF Fits

LEMMA LaunchChildEffect ==
  ASSUME TypeInv, LaunchChild
  PROVE  TypeInv' /\ LedgerGrows /\ Counted
<1> DEFINE r == made + 1
           t == ChildTurn(turn, r)
<1>1. /\ turns # <<>> /\ made < MaxRuns /\ status' = [status EXCEPT ![r] = "running"]
      /\ book' = Writes(book, r, <<Note>>) /\ turns' = Append(turns, t) /\ made' = r
      /\ UNCHANGED <<open, prompt, ctx, cancelling, prompts, steers, calls, acts, missed>>
  BY DEF LaunchChild
<1>2. r \in Runs /\ made' \in 0 .. MaxRuns
  <2>1. made \in 0 .. MaxRuns /\ MaxRuns \in Nat
    BY SessionAssumption DEF TypeInv, Typed
  <2> QED
    BY <1>1, <2>1 DEF Runs
<1>3. Remaining(turn.limit, turn.steps - 1) \in Nat
  BY <1>1, InATurn, TurnNumbers
<1>4. t \in Turns
  <2>1. book \in Books /\ turn.level \in Levels
    BY <1>1, InATurn
  <2> QED
    BY <1>2, <1>3, <2>1, NewTurnType DEF ChildTurn
<1> HIDE DEF t, r
<1>5. turns' \in Seq(Turns) /\ turns' # <<>>
  BY <1>1, <1>4, InATurn
<1>6. book' \in Books /\ Grown(book, book', r, <<Note>>) /\ book'.observing = book.observing
  BY <1>1, <1>2, InATurn, NoteIsAnEvent, WritesEffect
<1>7. status' \in [Runs -> Statuses] /\ status'[r] # "absent"
  BY <1>1, <1>2, StatusesHold DEF TypeInv, Typed
<1>8. LedgerGrows
  BY <1>2, <1>6, <1>7, NoteIsAnEvent DEF LedgerGrows, Known
<1>9. Paired'
  BY <1>1, <1>5, <1>6, StaysPaired
<1>10. Typed'
  BY <1>1, <1>2, <1>5, <1>6, <1>7 DEF TypeInv, Typed
<1> QED
  BY <1>1, <1>8, <1>9, <1>10, Instant DEF TypeInv

-----------------------------------------------------------------------------
(* The steps of a prompt.                                                  *)

LEMMA TurnsStay == UNCHANGED turns => TurnsGo
BY DEF TurnsGo, Goes

LEMMA NoTurnsYet ==
  ASSUME TypeInv, prompt.at # "running"
  PROVE  turns = <<>>
BY DEF TypeInv, Paired

LEMMA AsksEffect ==
  ASSUME NEW r \in Runs \cup {NoRun}, NEW handed \in SUBSET What, NEW named \in BOOLEAN,
         NEW replayed \in BOOLEAN, Asks(r, handed, named, replayed)
  PROVE  /\ prompt' \in Prompts /\ prompt'.at = "planning" /\ prompt'.run = r
         /\ prompt'.handed = handed /\ prompt'.replayed = replayed /\ prompt'.told = prompt'.resumed
         /\ prompt'.resumed \/ prompt'.answers => r \in Runs
         /\ prompt'.answers => ~prompt'.resumed
<1> DEFINE P(resumed, answers, goal, pinned) ==
             /\ resumed => r # NoRun
             /\ answers => r # NoRun /\ ~resumed
             /\ prompt' = [at |-> "planning", run |-> r, goal |-> goal, resumed |-> resumed,
                           answers |-> answers, named |-> named, replayed |-> replayed,
                           handed |-> handed, told |-> resumed, pinned |-> pinned, level |-> 0]
<1>1. \E resumed \in BOOLEAN : \E answers \in BOOLEAN : \E goal \in {NoRun, r} : \E pinned \in Pins \cup {0} :
        P(resumed, answers, goal, pinned)
  BY DEF Asks
<1> HIDE DEF P
<1>2. PICK resumed \in BOOLEAN : \E answers \in BOOLEAN : \E goal \in {NoRun, r} : \E pinned \in Pins \cup {0} :
        P(resumed, answers, goal, pinned)
  BY <1>1
<1>3. PICK answers \in BOOLEAN : \E goal \in {NoRun, r} : \E pinned \in Pins \cup {0} :
        P(resumed, answers, goal, pinned)
  BY <1>2
<1>4. PICK goal \in {NoRun, r} : \E pinned \in Pins \cup {0} : P(resumed, answers, goal, pinned)
  BY <1>3
<1>5. PICK pinned \in Pins \cup {0} : P(resumed, answers, goal, pinned)
  BY <1>4
<1>6. pinned \in Levels \cup {0}
  BY SessionAssumption
<1> QED
  BY <1>5, <1>6 DEF P, Prompts

LEMMA BoundOnRuns ==
  ASSUME TypeInv
  PROVE  /\ MaxRuns \in Nat /\ made \in Nat /\ made <= MaxRuns /\ NoRun \notin Runs
         /\ \A r \in 1 .. made \cup ({made + 1} \cap Runs) :
              r \in Runs /\ (IF r > made THEN r ELSE made) \in 0 .. MaxRuns
         /\ made + 1 \in Runs => made + 1 \in 0 .. MaxRuns
<1>1. MaxRuns \in Nat /\ made \in 0 .. MaxRuns
  BY SessionAssumption DEF TypeInv, Typed
<1> QED
  BY <1>1 DEF Runs, NoRun

\* A prompt that is being planned or launched, its observer on.
LEMMA AskedPaired ==
  ASSUME turns' = <<>>, book'.observing, prompt' # Idle, prompt'.at # "running",
         prompt'.at \in {"launching", "intake_only"} => prompt'.level \in Levels,
         prompt'.at = "planning" /\ (prompt'.resumed \/ prompt'.answers) => prompt'.run \in Runs,
         prompt'.at = "planning" /\ prompt'.answers => ~prompt'.resumed
  PROVE  Paired'
BY DEF Paired

LEMMA PromptEffect ==
  ASSUME TypeInv, Prompt
  PROVE  TypeInv' /\ LedgerGrows /\ TurnsGo /\ Counted /\ Silent(book, book')
<1>1. /\ prompt.at # "running" /\ turns = <<>> /\ book \in Books /\ status \in [Runs -> Statuses]
  BY NoTurnsYet, IdleIsTyped DEF Prompt, CanPrompt, TypeInv, Typed
<1>2. /\ prompts' = prompts + 1 /\ acts' = 0 /\ ctx' = "live"
      /\ UNCHANGED <<open, turns, cancelling, steers, calls, missed>>
  BY DEF Prompt
<1>3. {} \in SUBSET What /\ TRUE \in BOOLEAN /\ FALSE \in BOOLEAN
  OBVIOUS
<1>4. /\ prompt' \in Prompts /\ prompt'.at = "planning"
      /\ (prompt'.resumed \/ prompt'.answers => prompt'.run \in Runs) /\ (prompt'.answers => ~prompt'.resumed)
      /\ book' \in Books /\ Silent(book, book') /\ book'.observing
      /\ status' \in [Runs -> Statuses] /\ made' \in 0 .. MaxRuns
  <2>1. CASE /\ Asks(book.current, {}, FALSE, FALSE)
             /\ book' = [book EXCEPT !.observing = TRUE] /\ UNCHANGED <<status, made>>
    <3>1. book.current \in Runs \cup {NoRun}
      BY <1>1 DEF Books
    <3>2. /\ prompt' \in Prompts /\ prompt'.at = "planning"
          /\ (prompt'.resumed \/ prompt'.answers => prompt'.run \in Runs) /\ (prompt'.answers => ~prompt'.resumed)
      BY <1>3, <2>1, <3>1, AsksEffect
    <3>3. book' \in Books /\ Silent(book, book') /\ book'.observing
      BY <1>1, <2>1 DEF Books, Silent
    <3> QED
      BY <1>1, <2>1, <3>2, <3>3 DEF TypeInv, Typed
  <2>2. ASSUME NEW r \in 1 .. made \cup ({made + 1} \cap Runs), Asks(r, {}, TRUE, FALSE), status' = Opened(r),
               book' = [book EXCEPT !.current = r, !.observing = TRUE],
               made' = IF r > made THEN r ELSE made
        PROVE  /\ prompt' \in Prompts /\ prompt'.at = "planning"
               /\ (prompt'.resumed \/ prompt'.answers => prompt'.run \in Runs) /\ (prompt'.answers => ~prompt'.resumed)
               /\ book' \in Books /\ Silent(book, book') /\ book'.observing
               /\ status' \in [Runs -> Statuses] /\ made' \in 0 .. MaxRuns
    <3>1. r \in Runs /\ made' \in 0 .. MaxRuns
      BY <2>2, BoundOnRuns
    <3>2. /\ prompt' \in Prompts /\ prompt'.at = "planning"
          /\ (prompt'.resumed \/ prompt'.answers => prompt'.run \in Runs) /\ (prompt'.answers => ~prompt'.resumed)
      BY <1>3, <2>2, <3>1, AsksEffect
    <3>3. book' \in Books /\ Silent(book, book') /\ book'.observing
      BY <1>1, <2>2, <3>1 DEF Books, Silent
    <3>4. status' \in [Runs -> Statuses]
      BY <1>1, <2>2, StatusesHold DEF Opened
    <3> QED
      BY <3>1, <3>2, <3>3, <3>4
  <2> QED
    BY <2>1, <2>2, Zenon DEF Prompt
<1>5. Paired'
  BY <1>1, <1>2, <1>4, AskedPaired, IdleIsTyped
<1>6. Typed'
  BY <1>2, <1>4 DEF TypeInv, Typed
<1> QED
  BY <1>2, <1>4, <1>5, <1>6, TurnsStay, Instant DEF TypeInv, LedgerGrows

\* A record that is appended again keeps its kind and what it is about.
LEMMA AnewEvents ==
  ASSUME NEW events \in Seq(Ev), NEW n \in Nat
  PROVE  /\ Anew(events, n) \in Seq(Ev) /\ DOMAIN Anew(events, n) = DOMAIN events
         /\ \A i \in DOMAIN events :
              Anew(events, n)[i].kind = events[i].kind /\ Anew(events, n)[i].of = events[i].of
<1>1. DOMAIN events = 1 .. Len(events) /\ Len(events) \in Nat
  OBVIOUS
<1> DEFINE New(i) == IF events[i].kind = "steer" THEN [events[i] EXCEPT !.id = <<n, i>>] ELSE events[i]
<1>2. ASSUME NEW i \in DOMAIN events
      PROVE  New(i) \in Ev /\ New(i).kind = events[i].kind /\ New(i).of = events[i].of
  <2>1. events[i] \in Ev /\ i \in Nat
    BY <1>1
  <2>2. <<n, i>> \in Id
    BY <2>1 DEF Id
  <2> QED
    BY <2>1, <2>2 DEF Ev
<1>3. Anew(events, n) = [i \in DOMAIN events |-> New(i)]
  BY DEF Anew
<1> HIDE DEF New
<1> QED
  BY <1>1, <1>2, <1>3

LEMMA ReplayEffect ==
  ASSUME TypeInv, Replay
  PROVE  TypeInv' /\ TurnsGo /\ Counted
<1>1. /\ prompt.at # "running" /\ turns = <<>> /\ book \in Books /\ status \in [Runs -> Statuses]
      /\ prompts \in Nat
  BY NoTurnsYet, IdleIsTyped DEF Replay, CanPrompt, TypeInv, Typed
<1>2. /\ prompts' = prompts + 1 /\ acts' = 0 /\ ctx' = "live"
      /\ UNCHANGED <<open, turns, cancelling, steers, calls, missed>>
  BY DEF Replay
<1>3. PICK from \in Resumable : \E r \in {from} \cup ({made + 1} \cap Runs) :
        /\ Asks(r, About(book.kept[from], "call"), r = from, TRUE)
        /\ status' = [status EXCEPT ![r] = "running"]
        /\ book' = [book EXCEPT !.ledger[r] = @ \o Anew(book.kept[from], prompts + 1),
                                !.current = r, !.observing = TRUE]
        /\ made' = IF r > made THEN r ELSE made
  BY Zenon DEF Replay
<1>4. PICK r \in {from} \cup ({made + 1} \cap Runs) :
        /\ Asks(r, About(book.kept[from], "call"), r = from, TRUE)
        /\ status' = [status EXCEPT ![r] = "running"]
        /\ book' = [book EXCEPT !.ledger[r] = @ \o Anew(book.kept[from], prompts + 1),
                                !.current = r, !.observing = TRUE]
        /\ made' = IF r > made THEN r ELSE made
  BY <1>3
<1>5. r \in Runs /\ from \in Runs /\ made' \in 0 .. MaxRuns
  <2>1. MaxRuns \in Nat /\ made \in Nat /\ made <= MaxRuns /\ from \in Runs
    BY BoundOnRuns DEF Resumable
  <2> QED
    BY <1>4, <2>1 DEF Runs
<1>6. book.kept[from] \in Seq(Ev)
  BY <1>1, <1>5 DEF Books
<1>7. About(book.kept[from], "call") \in SUBSET What
  BY <1>6, AboutIsWhat
<1>8. /\ prompt' \in Prompts /\ prompt'.at = "planning"
      /\ (prompt'.resumed \/ prompt'.answers => prompt'.run \in Runs) /\ (prompt'.answers => ~prompt'.resumed)
  <2>1. (r = from) \in BOOLEAN /\ TRUE \in BOOLEAN /\ r \in Runs \cup {NoRun}
    BY <1>5
  <2> QED
    BY <1>4, <1>5, <1>7, <2>1, AsksEffect
<1>9. book' \in Books /\ book'.observing
  <2> DEFINE events == Anew(book.kept[from], prompts + 1)
             L == [book.ledger EXCEPT ![r] = @ \o events]
  <2>1. events \in Seq(Ev)
    <3>1. prompts + 1 \in Nat
      BY <1>1
    <3> QED
      BY <1>6, <3>1, AnewEvents, Zenon
  <2> HIDE DEF events
  <2>2. L \in [Runs -> Seq(Ev)]
    BY <1>1, <1>5, <2>1 DEF Books
  <2>3. book' = [book EXCEPT !.ledger = L, !.current = r, !.observing = TRUE]
    BY <1>1, <1>4 DEF Books, events
  <2> HIDE DEF L
  <2> QED
    BY <1>1, <1>5, <2>2, <2>3 DEF Books
<1>10. status' \in [Runs -> Statuses]
  BY <1>1, <1>4, StatusesHold
<1>11. Paired'
  BY <1>1, <1>2, <1>8, <1>9, AskedPaired, IdleIsTyped
<1>12. Typed'
  BY <1>1, <1>2, <1>5, <1>8, <1>9, <1>10 DEF TypeInv, Typed
<1> QED
  BY <1>2, <1>11, <1>12, TurnsStay, Instant DEF TypeInv

\* q is what is decided of p: it keeps what was handed over, and its run unless the
\* task leaves it.
Decided(p, q, route) ==
  /\ q \in Prompts /\ q.handed = p.handed /\ q.replayed = p.replayed /\ q.told = p.told /\ q.pinned = p.pinned
  /\ q.run = RunChosen(p, route).run /\ q.run \in {p.run, NoRun}
  /\ q.resumed => (p.resumed \/ p.replayed) /\ q.run = p.run
  /\ p.replayed => q.resumed \/ q.run = NoRun
  /\ route = "continue" => q.run = p.run

Planned(p, route, at, level) == [RunChosen(p, route) EXCEPT !.at = at, !.level = level]

LEMMA RunChosenEffect ==
  ASSUME NEW p \in Prompts, NEW route, NEW at \in {"launching", "intake_only"}, NEW level \in Levels
  PROVE  /\ Decided(p, Planned(p, route, at, level), route)
         /\ Planned(p, route, at, level).at = at /\ Planned(p, route, at, level).level = level
<1> DEFINE q == Planned(p, route, at, level)
           resumed == p.resumed \/ p.replayed
           leaves == \/ route = "start" /\ p.run = p.goal
                     \/ route = "revise" /\ ~resumed /\ ~p.named
           c == RunChosen(p, route)
           run == IF leaves THEN NoRun ELSE p.run
           keeps == resumed /\ ~leaves
<1>1. c = [p EXCEPT !.run = run, !.resumed = keeps, !.goal = NoRun, !.answers = FALSE, !.named = FALSE]
  BY DEF RunChosen, ResumesAnyway, Prompts
<1>2. run \in Runs \cup {NoRun} /\ keeps \in BOOLEAN /\ run \in {p.run, NoRun}
  BY DEF Prompts
<1>3. /\ keeps => resumed /\ run = p.run
      /\ resumed => keeps \/ run = NoRun
      /\ route = "continue" => run = p.run
  OBVIOUS
<1>4. (keeps => p.resumed \/ p.replayed) /\ (p.replayed => resumed)
  OBVIOUS
<1> HIDE DEF run, keeps, c, resumed
<1>5. /\ c \in Prompts /\ c.run = run /\ c.resumed = keeps /\ c.handed = p.handed /\ c.replayed = p.replayed
      /\ c.told = p.told /\ c.pinned = p.pinned
  BY <1>1, <1>2 DEF Prompts
<1>6. q = [c EXCEPT !.at = at, !.level = level]
  BY DEF c, Planned
<1> HIDE DEF q
<1>7. /\ q \in Prompts /\ q.at = at /\ q.level = level /\ q.handed = c.handed
      /\ q.replayed = c.replayed /\ q.run = c.run /\ q.resumed = c.resumed
      /\ q.told = c.told /\ q.pinned = c.pinned
  BY <1>5, <1>6 DEF Prompts
<1> QED
  BY <1>2, <1>3, <1>4, <1>5, <1>7 DEF Decided, c, q

\* Plan's decisions: from the facts of the turn, from the router, or none.
PlansFromFacts ==
  /\ \E level \in Levels :
        /\ prompt' = [RunChosen(prompt, "continue") EXCEPT !.at = "launching", !.level = level]
        /\ prompt.pinned <= level
        /\ prompt.resumed /\ prompt.pinned = 0 => HighestLevel(book.ledger[prompt.run]) <= level
  /\ prompt.resumed \/ prompt.answers
  /\ UNCHANGED <<book, turns, missed>>

PlansFromRouter ==
  /\ ~prompt.resumed
  /\ \E route \in {"start", "continue", "revise"}, level \in Levels, at \in {"launching", "intake_only"} :
       LET chosen == RunChosen(prompt, route) IN
       /\ prompt' = [chosen EXCEPT !.at = at, !.level = level]
       /\ prompt.pinned <= level
       /\ missed' = IF chosen.run = prompt.run THEN missed ELSE Left(prompt.run)
  /\ UNCHANGED <<book, turns>>

PlansNothing == ctx = "cancelled" /\ Answers(book) /\ missed' = Left(prompt.run)

\* A level that is decided, pinned or raised is no lower than the pin, and without one no lower than
\* what was decided.
LEMMA PromotedIs ==
  ASSUME NEW p \in Prompts, NEW decided \in Levels, NEW level \in Promoted(HostLevel(p, decided))
  PROVE  level \in Levels /\ p.pinned <= level /\ (p.pinned = 0 => decided <= level)
<1>1. Levels \subseteq Nat /\ p.pinned \in Levels \cup {0}
  BY SessionAssumption DEF Prompts
<1> QED
  BY <1>1 DEF Promoted, HostLevel

LEMMA PlanSplits ==
  ASSUME TypeInv, Plan
  PROVE  /\ prompt.at = "planning" /\ UNCHANGED <<open, status, ctx, cancelling, counted, acts>>
         /\ PlansFromFacts \/ PlansFromRouter \/ PlansNothing
<1>1. /\ prompt.at = "planning" /\ UNCHANGED <<open, status, ctx, cancelling, counted, acts>>
      /\ prompt \in Prompts
  BY DEF Plan, TypeInv, Typed
<1>2. CASE /\ prompt.resumed
           /\ \E level \in Promoted(HostLevel(prompt, HighestLevel(book.ledger[prompt.run]))) :
                prompt' = [RunChosen(prompt, "continue") EXCEPT !.at = "launching", !.level = level]
           /\ UNCHANGED <<book, turns, missed>>
  <2>1. prompt.run \in Runs /\ book \in Books
    BY <1>1, <1>2 DEF TypeInv, Typed, Paired
  <2>2. book.ledger[prompt.run] \in Seq(Ev)
    BY <2>1 DEF Books
  <2>3. HighestLevel(book.ledger[prompt.run]) \in Levels
    BY <2>2, HighestIsALevel
  <2>4. PICK level \in Promoted(HostLevel(prompt, HighestLevel(book.ledger[prompt.run]))) :
          prompt' = [RunChosen(prompt, "continue") EXCEPT !.at = "launching", !.level = level]
    BY <1>2
  <2>5. /\ level \in Levels /\ prompt.pinned <= level
        /\ prompt.pinned = 0 => HighestLevel(book.ledger[prompt.run]) <= level
    BY <1>1, <2>3, PromotedIs
  <2> QED
    BY <1>1, <1>2, <2>4, <2>5 DEF PlansFromFacts
<1>3. CASE /\ prompt.answers
           /\ \E level \in Promoted(HostLevel(prompt, Lowest)) :
                prompt' = [RunChosen(prompt, "continue") EXCEPT !.at = "launching", !.level = level]
           /\ UNCHANGED <<book, turns, missed>> /\ ~prompt.resumed
  <2>1. PICK level \in Promoted(HostLevel(prompt, Lowest)) :
          prompt' = [RunChosen(prompt, "continue") EXCEPT !.at = "launching", !.level = level]
    BY <1>3
  <2>2. level \in Levels /\ prompt.pinned <= level
    BY <1>1, PromotedIs, LowestLevel
  <2> QED
    BY <1>1, <1>3, <2>1, <2>2 DEF PlansFromFacts
<1>4. prompt.answers => ~prompt.resumed
  BY <1>1 DEF TypeInv, Paired
<1>5. ASSUME NEW route \in {"start", "continue", "revise"}, NEW at \in {"launching", "intake_only"}, NEW decided \in Levels,
             NEW level \in Promoted(HostLevel(prompt, decided)), ~prompt.resumed,
             prompt' = [RunChosen(prompt, route) EXCEPT !.at = at, !.level = level],
             missed' = IF RunChosen(prompt, route).run = prompt.run THEN missed ELSE Left(prompt.run),
             UNCHANGED <<book, turns>>
      PROVE  PlansFromRouter
  <2>1. level \in Levels /\ prompt.pinned <= level
    BY <1>1, PromotedIs
  <2> QED
    BY <1>5, <2>1 DEF PlansFromRouter
<1>6. CASE PlansNothing
  BY <1>1, <1>6
<1> QED
  BY <1>1, <1>2, <1>3, <1>4, <1>5, <1>6, Zenon DEF Plan, PlansNothing

\* The prompt is answered by a step that is not a turn's.
LEMMA AnswersEffect ==
  ASSUME NEW b \in Books, Answers(b)
  PROVE  /\ book' \in Books /\ Silent(b, book') /\ Still(b, book') /\ book'.current = b.current
         /\ ~book'.observing /\ prompt' \in Prompts /\ prompt' = Idle
         /\ turns' = <<>> /\ turns' \in Seq(Turns) /\ TurnsGo /\ Paired'
<1>1. prompt' = Idle /\ turns' = <<>> /\ book' = [b EXCEPT !.observing = FALSE]
  BY DEF Answers
<1>2. /\ book' \in Books /\ Silent(b, book') /\ Still(b, book') /\ ~book'.observing
      /\ book'.current = b.current
  BY <1>1 DEF Books, Silent, Still
<1>3. prompt' \in Prompts /\ prompt'.at = "none" /\ turns' \in Seq(Turns)
  BY <1>1, IdleIsTyped
<1>4. TurnsGo
  BY <1>1 DEF TurnsGo
<1> QED
  BY <1>1, <1>2, <1>3, <1>4 DEF Paired

LEMMA LeftIsRuns ==
  ASSUME TypeInv PROVE Left(prompt.run) \in SUBSET Runs
<1>1. prompt.run \in Runs \cup {NoRun}
  BY DEF TypeInv, Typed, Prompts
<1> QED
  BY <1>1 DEF TypeInv, Typed, Left

LEMMA PlanEffect ==
  ASSUME TypeInv, Plan
  PROVE  TypeInv' /\ LedgerGrows /\ TurnsGo /\ Counted /\ Silent(book, book') /\ Still(book, book')
<1>1. /\ prompt.at = "planning" /\ turns = <<>> /\ prompt \in Prompts /\ book \in Books /\ book.observing
      /\ UNCHANGED <<open, status, ctx, cancelling, counted, acts>>
  <2>1. prompt.at = "planning"
    BY PlanSplits
  <2> QED
    BY <2>1, PlanSplits, NoTurnsYet, IdleIsTyped DEF TypeInv, Typed, Paired
<1>2. ASSUME NEW route, NEW level \in Levels, NEW at \in {"launching", "intake_only"},
             prompt' = [RunChosen(prompt, route) EXCEPT !.at = at, !.level = level],
             UNCHANGED <<book, turns>>
      PROVE  prompt' \in Prompts /\ Paired'
  <2>1. prompt \in Prompts
    BY <1>1
  <2>2. Decided(prompt, prompt', route) /\ prompt'.at = at /\ prompt'.level = level
    <3> DEFINE q == Planned(prompt, route, at, level)
    <3>1. Decided(prompt, q, route) /\ q.at = at /\ q.level = level
      BY <2>1, RunChosenEffect
    <3>2. prompt' = q
      BY <1>2 DEF Planned
    <3> HIDE DEF q
    <3> QED
      BY <3>1, <3>2
  <2>3. turns' = <<>> /\ book'.observing /\ prompt' # Idle
    BY <1>1, <1>2, <2>2, IdleIsTyped
  <2> QED
    BY <2>2, <2>3, AskedPaired DEF Decided
<1>3. /\ prompt' \in Prompts /\ Paired' /\ missed' \in SUBSET Runs /\ turns' = <<>> /\ TurnsGo
      /\ book' \in Books /\ Silent(book, book') /\ Still(book, book')
  <2>1. CASE PlansFromFacts
    <3>1. UNCHANGED <<book, turns, missed>> /\ prompt' \in Prompts /\ Paired'
      BY <1>2, <2>1 DEF PlansFromFacts
    <3> QED
      BY <1>1, <3>1, TurnsStay DEF TypeInv, Typed, Silent, Still
  <2>2. CASE PlansFromRouter
    <3>1. PICK route \in {"start", "continue", "revise"}, level \in Levels, at \in {"launching", "intake_only"} :
            /\ prompt' = [RunChosen(prompt, route) EXCEPT !.at = at, !.level = level]
            /\ missed' = IF RunChosen(prompt, route).run = prompt.run THEN missed ELSE Left(prompt.run)
      BY <2>2 DEF PlansFromRouter
    <3>2. UNCHANGED <<book, turns>> /\ prompt' \in Prompts /\ Paired'
      BY <1>2, <2>2, <3>1 DEF PlansFromRouter
    <3>3. missed' \in SUBSET Runs
      BY <3>1, LeftIsRuns DEF TypeInv, Typed
    <3> QED
      BY <1>1, <3>2, <3>3, TurnsStay DEF Silent, Still
  <2>3. CASE PlansNothing
    BY <1>1, <2>3, AnswersEffect, LeftIsRuns DEF PlansNothing
  <2> QED
    BY <2>1, <2>2, <2>3, PlanSplits
<1>4. Typed'
  BY <1>1, <1>3 DEF TypeInv, Typed, counted
<1> QED
  BY <1>1, <1>3, <1>4, Instant DEF TypeInv, LedgerGrows, counted

\* A turn of its own begins in r, or r was over and takes no turn.
Begins(r) ==
  /\ status[r] # "cancelled"
  /\ turns' = <<NewTurn(r, prompt.resumed \/ status[r] \in Waiting, prompt.level, MaxSteps, DelegationLimit)>>
  /\ status' = [status EXCEPT ![r] = "running"]
  /\ book' = Writes(book, r, <<Note>>)
  /\ prompt' = [prompt EXCEPT !.at = "running", !.run = NoRun, !.level = 0]
  /\ missed' = MissedAlready(r)

IsRefused(r) ==
  /\ status[r] \in Ended
  /\ Answers(Writes(book, r, <<Event("intake", <<>>, prompt.level)>>))
  /\ UNCHANGED <<status, missed>>

LEMMA LaunchSplits ==
  ASSUME Launch
  PROVE  /\ prompt.at = "launching"
         /\ UNCHANGED <<open, ctx, cancelling, prompts, steers, calls, acts>>
         /\ \E r \in Runs : TakesRun(r) /\ (Begins(r) \/ IsRefused(r))
BY Zenon DEF Launch, Begins, IsRefused

LEMMA TakesRunEffect ==
  ASSUME TypeInv, NEW r \in Runs, TakesRun(r)
  PROVE  made' \in 0 .. MaxRuns
<1>1. made \in 0 .. MaxRuns /\ (made' = made \/ made' = r)
  BY Zenon DEF TakesRun, TypeInv, Typed
<1>2. MaxRuns \in Nat
  BY SessionAssumption
<1> QED
  BY <1>1, <1>2 DEF Runs

\* The level the prompt was taken for is recorded, and the prompt answered.
LEMMA RecordsIntake ==
  ASSUME TypeInv, NEW r \in Runs, prompt.level \in Levels,
         Answers(Writes(book, r, <<Event("intake", <<>>, prompt.level)>>)), status'[r] # "absent"
  PROVE  /\ book' \in Books /\ prompt' \in Prompts /\ prompt' = Idle /\ turns' \in Seq(Turns)
         /\ turns' = <<>> /\ TurnsGo /\ Paired' /\ LedgerGrows
         /\ Queued(book, book', r, 1) /\ book'.current \in {r, book.current}
<1> DEFINE e == Event("intake", <<>>, prompt.level)
           b == Writes(book, r, <<e>>)
<1>1. e \in Ev /\ e.kind = "intake"
  <2>1. prompt.level \in What
    BY SessionAssumption DEF What
  <2> QED
    BY <2>1 DEF Event, Ev, Kinds, Id
<1> HIDE DEF e
<1>2. <<e>> \in Seq(Ev) /\ book \in Books /\ Len(<<e>>) = 1
  BY <1>1 DEF TypeInv, Typed
<1>3. b \in Books /\ Grown(book, b, r, <<e>>) /\ Queued(book, b, r, 1) /\ b.current \in {r, book.current}
  BY <1>2, WritesEffect
<1>4. Answers(b)
  BY DEF e
<1> HIDE DEF b
<1>5. /\ book' \in Books /\ Silent(b, book') /\ Still(b, book') /\ prompt' \in Prompts /\ prompt' = Idle
      /\ turns' = <<>> /\ turns' \in Seq(Turns) /\ TurnsGo /\ Paired' /\ book'.current = b.current
  BY <1>3, <1>4, AnswersEffect
<1>6. Grown(book, book', r, <<e>>) /\ Queued(book, book', r, 1)
  BY <1>3, <1>5 DEF Silent, Still, Grown, Queued
<1>7. Fits(<<e>>)
  BY <1>1, <1>5 DEF Fits
<1> QED
  BY <1>2, <1>3, <1>5, <1>6, <1>7 DEF LedgerGrows, Known

LEMMA BeginsTurn ==
  ASSUME TypeInv, prompt.at = "launching", NEW r \in Runs, Begins(r)
  PROVE  /\ turns' \in Seq(Turns) /\ turns' # <<>> /\ DOMAIN turns' = {1}
         /\ turns'[1] = NewTurn(r, prompt.resumed \/ status[r] \in Waiting, prompt.level, MaxSteps, DelegationLimit)
<1> DEFINE resumes == prompt.resumed \/ status[r] \in Waiting
           t == NewTurn(r, resumes, prompt.level, MaxSteps, DelegationLimit)
<1>1. /\ turns' = <<t>> /\ book \in Books /\ prompt.level \in Levels
      /\ MaxSteps \in Nat /\ DelegationLimit \in Nat /\ resumes \in BOOLEAN
  BY SessionAssumption DEF TypeInv, Typed, Paired, Begins, Prompts
<1> HIDE DEF resumes
<1>2. t \in Turns
  BY <1>1, NewTurnType
<1> HIDE DEF t
<1>3. turns' \in Seq(Turns) /\ turns' # <<>> /\ DOMAIN turns' = {1} /\ turns'[1] = t
  BY <1>1, <1>2
<1> QED
  BY <1>3 DEF t, resumes

LEMMA LaunchEffect ==
  ASSUME TypeInv, Launch
  PROVE  TypeInv' /\ LedgerGrows /\ Counted
<1>1. /\ prompt.at = "launching" /\ UNCHANGED <<open, ctx, cancelling, prompts, steers, calls, acts>>
      /\ book \in Books /\ prompt \in Prompts /\ prompt.level \in Levels /\ book.observing
  <2>1. prompt.at = "launching"
    BY LaunchSplits
  <2> QED
    BY <2>1, LaunchSplits, IdleIsTyped DEF TypeInv, Typed, Paired
<1>2. PICK r \in Runs : TakesRun(r) /\ (Begins(r) \/ IsRefused(r))
  BY LaunchSplits
<1>3. made' \in 0 .. MaxRuns
  BY <1>2, TakesRunEffect
<1>4. CASE Begins(r)
  <2>1. /\ status' = [status EXCEPT ![r] = "running"] /\ book' = Writes(book, r, <<Note>>)
        /\ prompt' = [prompt EXCEPT !.at = "running", !.run = NoRun, !.level = 0]
        /\ missed' = MissedAlready(r)
    BY <1>4 DEF Begins
  <2>2. turns' \in Seq(Turns) /\ turns' # <<>>
    BY <1>1, <1>4, BeginsTurn
  <2>3. prompt' \in Prompts /\ prompt'.at = "running"
    BY <1>1, <2>1 DEF Prompts
  <2>4. book' \in Books /\ Grown(book, book', r, <<Note>>) /\ book'.observing
    BY <1>1, <2>1, NoteIsAnEvent, WritesEffect
  <2>5. status' \in [Runs -> Statuses] /\ status'[r] # "absent"
    BY <2>1, StatusesHold DEF TypeInv, Typed
  <2>6. missed' \in SUBSET Runs
    BY <2>1 DEF MissedAlready, TypeInv, Typed
  <2>7. Paired'
    BY <2>2, <2>3, <2>4, IdleIsTyped DEF Paired
  <2>8. Typed'
    BY <1>1, <1>3, <2>2, <2>3, <2>4, <2>5, <2>6 DEF TypeInv, Typed
  <2>9. LedgerGrows
    BY <2>4, <2>5, NoteIsAnEvent DEF LedgerGrows, Known
  <2> QED
    BY <1>1, <2>7, <2>8, <2>9, Instant DEF TypeInv
<1>5. CASE IsRefused(r)
  <2>1. status'[r] # "absent"
    BY <1>5 DEF IsRefused, Ended
  <2>2. /\ book' \in Books /\ prompt' \in Prompts /\ turns' \in Seq(Turns) /\ Paired' /\ LedgerGrows
    BY <1>1, <1>5, <2>1, RecordsIntake DEF IsRefused
  <2>3. Typed'
    BY <1>1, <1>3, <1>5, <2>2 DEF TypeInv, Typed, IsRefused
  <2> QED
    BY <1>1, <2>2, <2>3, Instant DEF TypeInv
<1> QED
  BY <1>2, <1>4, <1>5

LEMMA IntakeOnlySplits ==
  ASSUME IntakeOnly
  PROVE  /\ prompt.at = "intake_only"
         /\ UNCHANGED <<open, ctx, cancelling, prompts, steers, calls, acts, missed>>
         /\ \E r \in Runs : \E st \in {"waiting_user_input", "blocked"} :
              /\ TakesRun(r) /\ Answers(Writes(book, r, <<Event("intake", <<>>, prompt.level)>>))
              /\ IF status[r] \in Ended THEN UNCHANGED status ELSE status' = [status EXCEPT ![r] = st]
BY Zenon DEF IntakeOnly

LEMMA IntakeOnlyEffect ==
  ASSUME TypeInv, IntakeOnly
  PROVE  TypeInv' /\ LedgerGrows /\ TurnsGo /\ Counted
<1>1. /\ prompt.at = "intake_only" /\ prompt.level \in Levels
      /\ UNCHANGED <<open, ctx, cancelling, prompts, steers, calls, acts, missed>>
  BY IntakeOnlySplits DEF TypeInv, Paired
<1>2. PICK r \in Runs : \E st \in {"waiting_user_input", "blocked"} :
        /\ TakesRun(r) /\ Answers(Writes(book, r, <<Event("intake", <<>>, prompt.level)>>))
        /\ IF status[r] \in Ended THEN UNCHANGED status ELSE status' = [status EXCEPT ![r] = st]
  BY IntakeOnlySplits
<1>3. status' \in [Runs -> Statuses] /\ status'[r] # "absent"
  <2>1. status \in [Runs -> Statuses]
    BY DEF TypeInv, Typed
  <2> QED
    BY <1>2, <2>1 DEF Statuses, Waiting, Ended
<1>4. made' \in 0 .. MaxRuns
  BY <1>2, TakesRunEffect
<1>5. book' \in Books /\ prompt' \in Prompts /\ turns' \in Seq(Turns) /\ TurnsGo /\ Paired' /\ LedgerGrows
  BY <1>1, <1>2, <1>3, RecordsIntake
<1>6. Typed'
  BY <1>1, <1>3, <1>4, <1>5 DEF TypeInv, Typed
<1> QED
  BY <1>1, <1>5, <1>6, Instant DEF TypeInv

-----------------------------------------------------------------------------
(* What comes from outside.                                                *)

LEMMA CancelContextEffect ==
  ASSUME TypeInv, CancelContext
  PROVE  TypeInv' /\ LedgerGrows /\ TurnsGo /\ Counted
<1>1. /\ ctx' = "cancelled" /\ cancelling' = TRUE
      /\ UNCHANGED <<open, status, book, prompt, turns, counted, acts, missed>>
  BY DEF CancelContext
<1>2. Typed' /\ Paired'
  BY <1>1 DEF TypeInv, Typed, Paired, counted
<1> QED
  BY <1>1, <1>2, TurnsStay, Instant DEF TypeInv, LedgerGrows, Silent, counted

LEMMA MissesAreRuns == ASSUME TypeInv PROVE Misses \in SUBSET Runs
<1>1. \A i \in DOMAIN turns : turns[i].run \in Runs
  <2>1. CASE turns = <<>>
    BY <2>1
  <2>2. CASE turns # <<>>
    BY <2>2, InATurn
  <2> QED
    BY <2>1, <2>2
<1>2. {turns[i].run : i \in DOMAIN turns} \in SUBSET Runs
  BY <1>1
<1> QED
  BY <1>2 DEF Misses

LEMMA CancelRunEffect ==
  ASSUME TypeInv, CancelRun
  PROVE  TypeInv' /\ LedgerGrows /\ TurnsGo /\ Counted /\ Silent(book, book') /\ Still(book, book')
<1>1. /\ cancelling' = FALSE /\ missed' = missed \cup Misses
      /\ UNCHANGED <<open, prompt, turns, ctx, counted, acts>>
      /\ \/ /\ book.current # NoRun /\ status' = [status EXCEPT ![book.current] = "cancelled"]
            /\ book' = Notes(book, book.current)
         \/ UNCHANGED <<status, book>>
  BY Zenon DEF CancelRun
<1>2. book \in Books /\ status \in [Runs -> Statuses]
  BY DEF TypeInv, Typed
<1>3. /\ book' \in Books /\ Silent(book, book') /\ Still(book, book') /\ book'.observing = book.observing
      /\ status' \in [Runs -> Statuses]
  <2>1. CASE /\ book.current # NoRun /\ status' = [status EXCEPT ![book.current] = "cancelled"]
             /\ book' = Notes(book, book.current)
    <3>1. book.current \in Runs
      BY <1>2, <2>1 DEF Books
    <3> QED
      BY <1>2, <2>1, <3>1, NotesEffect, StatusesHold
  <2>2. CASE UNCHANGED <<status, book>>
    BY <1>2, <2>2 DEF Silent, Still
  <2> QED
    BY <1>1, <2>1, <2>2
<1>4. Typed'
  BY <1>1, <1>3, MissesAreRuns DEF TypeInv, Typed, counted
<1>5. Paired'
  BY <1>1, <1>3 DEF TypeInv, Paired
<1> QED
  BY <1>1, <1>3, <1>4, <1>5, TurnsStay, Instant DEF TypeInv, LedgerGrows, counted

LEMMA SteerEffect ==
  ASSUME TypeInv, Steer
  PROVE  TypeInv' /\ LedgerGrows /\ TurnsGo /\ Counted
<1> DEFINE e == Event("steer", <<0, steers + 1>>, steers + 1)
<1>1. /\ steers' = steers + 1
      /\ UNCHANGED <<open, status, prompt, turns, ctx, cancelling, made, prompts, calls, acts, missed>>
      /\ \/ UNCHANGED book
         \/ book.current # NoRun /\ book' = Writes(book, book.current, <<e>>)
  BY Zenon DEF Steer
<1>2. book \in Books /\ steers \in Nat /\ calls \in Nat
  BY DEF TypeInv, Typed
<1>3. e \in Ev /\ e.kind = "steer" /\ e.of = steers + 1
  <2>1. <<0, steers + 1>> \in Id /\ steers + 1 \in What
    BY <1>2 DEF Id, What
  <2> QED
    BY <2>1 DEF Event, Ev, Kinds
<1> HIDE DEF e
<1>4. book' \in Books /\ LedgerGrows /\ book'.observing = book.observing
  <2>1. CASE UNCHANGED book
    BY <1>2, <2>1 DEF LedgerGrows, Silent
  <2>2. CASE book.current # NoRun /\ book' = Writes(book, book.current, <<e>>)
    <3>1. book.current \in Runs /\ <<e>> \in Seq(Ev)
      BY <1>2, <1>3, <2>2 DEF Books
    <3>2. book' \in Books /\ Grown(book, book', book.current, <<e>>) /\ book'.observing = book.observing
      BY <1>2, <2>2, <3>1, WritesEffect
    <3>3. Fits(<<e>>)
      BY <1>1, <1>3 DEF Fits
    <3> QED
      BY <3>1, <3>2, <3>3 DEF LedgerGrows, Known
  <2> QED
    BY <1>1, <2>1, <2>2
<1>5. Typed' /\ Counted
  BY <1>1, <1>2, <1>4 DEF TypeInv, Typed, Counted
<1>6. Paired'
  BY <1>1, <1>4 DEF TypeInv, Paired
<1> QED
  BY <1>1, <1>4, <1>5, <1>6, TurnsStay DEF TypeInv

LEMMA PanicEffect ==
  ASSUME TypeInv, Panic
  PROVE  TypeInv' /\ LedgerGrows /\ TurnsGo /\ Counted
<1>1. /\ Answers(book) /\ missed' = missed \cup Misses
      /\ status' = [status EXCEPT ![book.current] = IF @ \in Ended THEN @ ELSE "failed"]
      /\ UNCHANGED <<open, ctx, cancelling, counted, acts>>
  BY DEF Panic
<1>2. book \in Books /\ status \in [Runs -> Statuses]
  BY DEF TypeInv, Typed
<1>3. /\ book' \in Books /\ Silent(book, book') /\ prompt' \in Prompts /\ turns' \in Seq(Turns)
      /\ TurnsGo /\ Paired'
  BY <1>1, <1>2, AnswersEffect
<1>4. status' \in [Runs -> Statuses]
  BY <1>1, <1>2, StatusesHold
<1>5. Typed'
  BY <1>1, <1>3, <1>4, MissesAreRuns DEF TypeInv, Typed, counted
<1> QED
  BY <1>1, <1>3, <1>5, Instant DEF TypeInv, LedgerGrows, counted

LEMMA CloseSessionEffect ==
  ASSUME TypeInv, CloseSession
  PROVE  TypeInv' /\ LedgerGrows /\ TurnsGo /\ Counted
<1>1. /\ open' = FALSE /\ UNCHANGED <<status, book, prompt, turns, ctx, cancelling, counted, acts, missed>>
  BY DEF CloseSession
<1>2. Typed' /\ Paired'
  BY <1>1 DEF TypeInv, Typed, Paired, counted
<1> QED
  BY <1>1, <1>2, TurnsStay, Instant DEF TypeInv, LedgerGrows, Silent, counted

\* A session that is new has nothing but what the host kept.
LEMMA FreshBook ==
  ASSUME TypeInv
  PROVE  /\ Fresh \in Books /\ ~Fresh.observing /\ Fresh.current = NoRun /\ Fresh.kept = book.kept
         /\ \A r \in Runs : Fresh.ledger[r] = <<>> /\ Fresh.tail[r] = <<>> /\ Fresh.brought[r] = <<>>
         /\ [r \in Runs |-> "absent"] \in [Runs -> Statuses]
<1>1. book.kept \in [Runs -> Seq(Ev)] /\ EmptyBook \in Books
  BY IdleIsTyped DEF TypeInv, Typed, Books
<1>2. [r \in Runs |-> "absent"] \in [Runs -> Statuses]
  BY StatusesHold
<1>3. Fresh \in Books /\ ~Fresh.observing /\ Fresh.current = NoRun /\ Fresh.kept = book.kept
  BY <1>1 DEF Fresh, EmptyBook, Books
<1>4. \A r \in Runs : Fresh.ledger[r] = <<>> /\ Fresh.tail[r] = <<>> /\ Fresh.brought[r] = <<>>
  BY DEF Fresh, EmptyBook
<1> QED
  BY <1>2, <1>3, <1>4

LEMMA NewSessionEffect ==
  ASSUME TypeInv, NewSession
  PROVE  TypeInv' /\ turns' = <<>> /\ turns = <<>> /\ TurnsGo /\ Counted
<1>1. /\ prompt = Idle /\ open' = TRUE /\ status' = [r \in Runs |-> "absent"] /\ book' = Fresh /\ missed' = {}
      /\ UNCHANGED <<prompt, turns, ctx, cancelling, counted, acts>>
  BY DEF NewSession
<1>2. turns = <<>>
  BY <1>1, NoTurnsYet, IdleIsTyped
<1>3. Typed'
  BY <1>1, FreshBook DEF TypeInv, Typed, counted
<1>4. Paired'
  BY <1>1, FreshBook DEF TypeInv, Paired
<1> QED
  BY <1>1, <1>2, <1>3, <1>4, TurnsStay, Instant DEF TypeInv, counted

LEMMA CrashEffect ==
  ASSUME TypeInv, Crash
  PROVE  TypeInv' /\ turns' = <<>> /\ TurnsGo /\ Counted
<1>1. /\ open' = FALSE /\ status' = [r \in Runs |-> "absent"] /\ book' = Fresh
      /\ prompt' = Idle /\ turns' = <<>> /\ ctx' = "live" /\ cancelling' = FALSE /\ missed' = {}
      /\ UNCHANGED <<counted, acts>>
  BY DEF Crash
<1>2. prompt' \in Prompts /\ prompt'.at = "none" /\ turns' \in Seq(Turns)
  BY <1>1, IdleIsTyped
<1>3. Typed'
  BY <1>1, <1>2, FreshBook DEF TypeInv, Typed, counted
<1>4. Paired'
  BY <1>1, <1>2, FreshBook DEF Paired
<1> QED
  BY <1>1, <1>3, <1>4, Instant DEF TypeInv, TurnsGo, counted

-----------------------------------------------------------------------------
(* What every step does.                                                   *)

LEMMA StutterEffect ==
  ASSUME TypeInv, UNCHANGED vars
  PROVE  TypeInv' /\ LedgerGrows /\ TurnsGo /\ Counted
<1>1. UNCHANGED <<open, status, book, prompt, turns, ctx, cancelling, counted, acts, missed>>
  BY DEF vars
<1>2. Typed' /\ Paired'
  BY <1>1 DEF TypeInv, Typed, Paired, counted
<1> QED
  BY <1>1, <1>2, TurnsStay, Instant DEF TypeInv, LedgerGrows, Silent, counted

LEMMA EveryStep ==
  ASSUME TypeInv, [Next]_vars
  PROVE  /\ TypeInv' /\ Counted
         /\ LedgerGrows \/ Replay \/ NewSession \/ Crash
         /\ TurnsGo \/ Launch \/ LaunchChild \/ (StepHead /\ Hears)
BY PromptEffect, ReplayEffect, PlanEffect, LaunchEffect, IntakeOnlyEffect, StepHeadEffect,
   LosesItsContextEffect, BeginCallEffect, LoseCallEffect, AnswerCallEffect, FinishEffect,
   DelegateEffect, LaunchChildEffect, NoChildEffect, CancelContextEffect, CancelRunEffect,
   SteerEffect, PanicEffect, CloseSessionEffect, NewSessionEffect, CrashEffect, StutterEffect,
   Zenon DEF Next

LEMMA InitTyped == ASSUME Init PROVE TypeInv
<1>1. MaxRuns \in Nat
  BY SessionAssumption
<1>2. prompt \in Prompts /\ prompt.at = "none" /\ book \in Books /\ turns \in Seq(Turns) /\ ~book.observing
  BY IdleIsTyped DEF Init, EmptyBook
<1>3. status \in [Runs -> Statuses]
  BY StatusesHold DEF Init
<1>4. Typed
  <2>1. made = 0 /\ prompts = 0 /\ steers = 0 /\ calls = 0 /\ acts = 0 /\ missed = {}
    BY DEF Init
  <2>2. open = TRUE /\ cancelling = FALSE /\ ctx = "live"
    BY DEF Init
  <2>3. made \in 0 .. MaxRuns /\ prompts \in Nat /\ steers \in Nat /\ calls \in Nat /\ acts \in Nat
    BY <1>1, <2>1
  <2> QED
    BY <1>2, <1>3, <2>1, <2>2, <2>3, Zenon DEF Typed
<1>5. Paired
  BY <1>2 DEF Init, Paired
<1> QED
  BY <1>4, <1>5 DEF TypeInv

LEMMA TypesStay == Spec => []TypeInv
<1>1. TypeInv /\ [Next]_vars => TypeInv'
  BY EveryStep
<1> QED
  BY <1>1, InitTyped, PTL DEF Spec

-----------------------------------------------------------------------------
(* The store holds the runs a session works with.                          *)

Stored ==
  /\ \A r \in Runs : status[r] # "absent" => r <= made
  /\ \A r \in Runs : status[r] = "absent" => book.ledger[r] = <<>>
  /\ book.current # NoRun => status[book.current] # "absent"
  /\ \A i \in DOMAIN turns : status[turns[i].run] # "absent"

\* One run at most changes its status, and it is one that was opened.
StatusMoves ==
  /\ made <= made'
  /\ \/ UNCHANGED status
     \/ \E r \in Runs : \E s \in Statuses :
          status' = [status EXCEPT ![r] = s] /\ s # "absent" /\ (r <= made' \/ status[r] # "absent")

\* The session is at a run it had, at one of a turn of it, or at one that was opened.
CurrentMoves ==
  \/ book'.current = book.current
  \/ \E i \in DOMAIN turns : book'.current = turns[i].run
  \/ book'.current \in Runs /\ status'[book'.current] # "absent"

LEMMA Unmoved == ASSUME TypeInv, UNCHANGED <<status, made>> PROVE StatusMoves
BY DEF TypeInv, Typed, StatusMoves

LEMMA MovesTo ==
  ASSUME NEW r \in Runs, NEW s \in Statuses, s # "absent", status' = [status EXCEPT ![r] = s],
         r <= made' \/ status[r] # "absent", made <= made'
  PROVE  StatusMoves
BY Zenon DEF StatusMoves

LEMMA LeavesMoves ==
  ASSUME TypeInv, turns # <<>>, NEW b \in Books, b.current = book.current, Leaves(b)
  PROVE  CurrentMoves
<1>1. CASE Pops /\ book'.current = turns[top - 1].run
  <2>1. top - 1 \in DOMAIN turns
    BY <1>1, InATurn DEF Pops
  <2> QED
    BY <1>1, <2>1 DEF CurrentMoves
<1>2. CASE book'.current = turn.run
  BY <1>2, InATurn DEF CurrentMoves, turn
<1> QED
  BY <1>1, <1>2 DEF Leaves

LEMMA OutcomeMoves ==
  ASSUME TypeInv, Stored, turns # <<>>, NEW st \in Statuses \ {"absent"}, Abandons \/ Ends(st), UNCHANGED counted
  PROVE  StatusMoves /\ CurrentMoves
<1>1. /\ Leaves(book)
      /\ \/ status' = status
         \/ \E s \in {st, "failed"} : status' = [status EXCEPT ![turn.run] = s]
  BY EndsEffect
<1>2. turn.run \in Runs /\ status[turn.run] # "absent" /\ book \in Books
  BY InATurn DEF Stored, turn
<1>3. StatusMoves
  <2>1. {st, "failed"} \subseteq Statuses \ {"absent"}
    BY StatusesHold
  <2>2. made' = made /\ made \in Nat
    BY BoundOnRuns DEF counted
  <2> QED
    BY <1>1, <1>2, <2>1, <2>2 DEF StatusMoves
<1> QED
  BY <1>1, <1>2, <1>3, LeavesMoves

LEMMA WritesMoves ==
  ASSUME NEW b \in Books, NEW r \in Runs, NEW events \in Seq(Ev)
  PROVE  Writes(b, r, events).current \in {r, b.current}
BY WritesEffect

LEMMA NotesMoves ==
  ASSUME NEW b \in Books, NEW r \in Runs
  PROVE  Notes(b, r).current \in {r, b.current}
BY NotesEffect

\* The steps of a turn that set the turn on top.
LEMMA WithinMoves ==
  ASSUME TypeInv, turns # <<>>, UNCHANGED <<status, made>>, book'.current \in {turn.run, book.current}
  PROVE  StatusMoves /\ CurrentMoves
<1>1. CurrentMoves
  BY InATurn DEF CurrentMoves, turn
<1> QED
  BY <1>1, Unmoved

LEMMA TurnMoves ==
  ASSUME TypeInv, Stored,
         StepHead \/ LosesItsContext \/ BeginCall \/ LoseCall \/ AnswerCall \/ Finish \/ Delegate \/ NoChild
  PROVE  StatusMoves /\ CurrentMoves
<1>1. turns # <<>>
  BY DEF StepHead, LosesItsContext, BeginCall, LoseCall, AnswerCall, Finish, Delegate, NoChild, Decides
<1>2. book \in Books /\ turn.run \in Runs /\ turn.carries \in Seq(Nat) /\ turn \in Turns
  BY <1>1, InATurn DEF Turns
<1>3. {"blocked", "completed"} \cup Waiting \subseteq Statuses \ {"absent"}
  BY StatusesHold DEF Waiting
<1>4. CASE StepHead
  <2>1. CASE Hears
    <3>1. Applications(Pending) \in Seq(Ev) /\ book' = Writes(book, turn.run, Applications(Pending))
      BY <1>1, <2>1, HeardTyped DEF Hears
    <3>2. book'.current \in {turn.run, book.current}
      BY <1>2, <3>1, WritesMoves
    <3>3. UNCHANGED <<status, made>>
      BY <1>4, <2>1, HeadSplits DEF Hears, counted
    <3> QED
      BY <1>1, <3>2, <3>3, WithinMoves
  <2>2. CASE Abandons \/ Ends("blocked")
    <3>1. UNCHANGED counted
      BY <1>4, HeadSplits
    <3> QED
      BY <1>1, <1>3, <2>2, <3>1, OutcomeMoves
  <2> QED
    BY <1>4, <2>1, <2>2, HeadSplits
<1>5. CASE LosesItsContext \/ Finish
  <2>1. (Abandons \/ Ends("completed")) /\ UNCHANGED counted
    BY <1>5 DEF LosesItsContext, Finish
  <2> QED
    BY <1>1, <1>3, <2>1, OutcomeMoves
<1>6. CASE BeginCall
  <2> DEFINE b == Writes(book, turn.run, <<Event("call", <<>>, calls + 1)>>)
  <2>1. b \in Books /\ b.current \in {turn.run, book.current}
    BY <1>2, CallIsAnEvent, WritesEffect, WritesMoves
  <2>2. book' = Carries(b, turn.run) /\ UNCHANGED <<status, made>>
    BY <1>6 DEF BeginCall
  <2> HIDE DEF b
  <2>3. book'.current = b.current
    BY <1>2, <2>1, <2>2, CarriesEffect
  <2> QED
    BY <1>1, <2>1, <2>2, <2>3, WithinMoves
<1>7. CASE LoseCall \/ Delegate \/ NoChild
  <2>1. book' \in {book, Notes(book, turn.run)} /\ UNCHANGED <<status, made>>
    BY <1>7, Zenon DEF LoseCall, Delegate, NoChild, counted
  <2>2. book'.current \in {turn.run, book.current}
    BY <1>2, <2>1, NotesMoves
  <2> QED
    BY <1>1, <2>1, <2>2, WithinMoves
<1>8. CASE AnswerCall
  <2> DEFINE b == Brings(book, turn.run, turn.carries)
  <2>1. b \in Books /\ b.current = book.current /\ b.observing
    BY <1>1, <1>2, BringsEffect, ArrivedEffect
  <2>2. UNCHANGED made
    BY <1>8 DEF AnswerCall, counted
  <2> HIDE DEF b
  <2>3. CASE book' = Notes(b, turn.run) /\ UNCHANGED status
    <3>1. book'.current \in {turn.run, book.current}
      BY <1>2, <2>1, <2>3, NotesMoves
    <3> QED
      BY <1>1, <2>2, <2>3, <3>1, WithinMoves
  <2>4. ASSUME NEW st \in Waiting, Becomes(st), Returns(Notes(b, turn.run))
        PROVE  StatusMoves /\ CurrentMoves
    <3>1. CurrentMoves
      BY <1>1, <2>1, <2>4, InATurn, ReturnsLeaves, LeavesMoves
    <3>2. StatusMoves
      <4>1. turn.run \in Runs /\ status[turn.run] # "absent" /\ made' = made /\ made \in Nat
        BY <1>1, <1>2, <2>2, InATurn, BoundOnRuns DEF Stored, turn
      <4>2. st \in Statuses /\ st # "absent" /\ status' = [status EXCEPT ![turn.run] = st] /\ made <= made'
        BY <1>3, <2>4, <4>1 DEF Becomes
      <4> QED
        BY <4>1, <4>2, MovesTo
    <3> QED
      BY <3>1, <3>2
  <2> QED
    BY <1>8, <2>3, <2>4, Zenon DEF AnswerCall, b
<1> QED
  BY <1>4, <1>5, <1>6, <1>7, <1>8

LEMMA LaunchChildMoves ==
  ASSUME TypeInv, LaunchChild
  PROVE  StatusMoves /\ CurrentMoves
<1> DEFINE r == made + 1
<1>1. /\ made < MaxRuns /\ status' = [status EXCEPT ![r] = "running"] /\ made' = r
      /\ book' = Writes(book, r, <<Note>>)
  BY DEF LaunchChild
<1>2. r \in Runs /\ made <= r /\ r <= r
  BY <1>1, BoundOnRuns DEF Runs
<1>3. book \in Books /\ status \in [Runs -> Statuses]
  BY DEF TypeInv, Typed
<1> HIDE DEF r
<1>4. book'.current \in {r, book.current}
  BY <1>1, <1>2, <1>3, NoteIsAnEvent, WritesMoves
<1>5. status'[r] # "absent"
  BY <1>1, <1>2, <1>3
<1> QED
  BY <1>1, <1>2, <1>4, <1>5, StatusesHold DEF StatusMoves, CurrentMoves

LEMMA PromptMoves ==
  ASSUME TypeInv, Prompt
  PROVE  StatusMoves /\ CurrentMoves
<1>1. book \in Books /\ status \in [Runs -> Statuses] /\ made \in Nat
  BY BoundOnRuns DEF TypeInv, Typed
<1>2. CASE book' = [book EXCEPT !.observing = TRUE] /\ UNCHANGED <<status, made>>
  BY <1>1, <1>2, Unmoved DEF CurrentMoves, Books
<1>3. ASSUME NEW r \in 1 .. made \cup ({made + 1} \cap Runs), status' = Opened(r),
             book' = [book EXCEPT !.current = r, !.observing = TRUE], made' = IF r > made THEN r ELSE made
      PROVE  StatusMoves /\ CurrentMoves
  <2>1. r \in Runs /\ r \in Nat
    BY <1>3, BoundOnRuns DEF Runs
  <2>2. made <= made' /\ r <= made'
    BY <1>1, <1>3, <2>1
  <2>3. book'.current = r
    BY <1>1, <1>3 DEF Books
  <2>4. (status' = status /\ status[r] # "absent") \/ status' = [status EXCEPT ![r] = "planned"]
    BY <1>3 DEF Opened
  <2>5. status'[r] # "absent"
    BY <1>1, <2>1, <2>4
  <2> QED
    BY <2>1, <2>2, <2>3, <2>4, <2>5, StatusesHold DEF StatusMoves, CurrentMoves
<1> QED
  BY <1>2, <1>3, Zenon DEF Prompt

\* A ledger the host kept is appended to a run nobody holds.
LEMMA ReplaySplits ==
  ASSUME TypeInv, Replay
  PROVE  /\ prompt = Idle /\ turns = <<>> /\ UNCHANGED <<open, turns, cancelling, steers, calls, missed>>
         /\ prompts + 1 \in Nat
         /\ \E from \in Runs : \E r \in Runs :
              /\ status[from] = "absent" /\ (r = from \/ r = made + 1)
              /\ Asks(r, About(book.kept[from], "call"), r = from, TRUE)
              /\ status' = [status EXCEPT ![r] = "running"]
              /\ book' = [book EXCEPT !.ledger[r] = @ \o Anew(book.kept[from], prompts + 1),
                                      !.current = r, !.observing = TRUE]
              /\ made <= made' /\ r <= made'
<1>1. /\ prompt = Idle /\ turns = <<>> /\ UNCHANGED <<open, turns, cancelling, steers, calls, missed>>
      /\ prompts + 1 \in Nat
  BY NoTurnsYet, IdleIsTyped DEF Replay, CanPrompt, TypeInv, Typed
<1>2. PICK from \in Resumable : \E r \in {from} \cup ({made + 1} \cap Runs) :
        /\ Asks(r, About(book.kept[from], "call"), r = from, TRUE)
        /\ status' = [status EXCEPT ![r] = "running"]
        /\ book' = [book EXCEPT !.ledger[r] = @ \o Anew(book.kept[from], prompts + 1),
                                !.current = r, !.observing = TRUE]
        /\ made' = IF r > made THEN r ELSE made
  BY Zenon DEF Replay
<1>3. PICK r \in {from} \cup ({made + 1} \cap Runs) :
        /\ Asks(r, About(book.kept[from], "call"), r = from, TRUE)
        /\ status' = [status EXCEPT ![r] = "running"]
        /\ book' = [book EXCEPT !.ledger[r] = @ \o Anew(book.kept[from], prompts + 1),
                                !.current = r, !.observing = TRUE]
        /\ made' = IF r > made THEN r ELSE made
  BY <1>2
<1>4. from \in Runs /\ status[from] = "absent"
  BY Zenon DEF Resumable
<1>5. r \in Runs /\ (r = from \/ r = made + 1) /\ made <= made' /\ r <= made'
  <2>1. r \in Runs /\ (r = from \/ r = made + 1)
    BY <1>3, <1>4
  <2>2. r \in Nat /\ made \in Nat
    BY <2>1, BoundOnRuns DEF Runs
  <2> QED
    BY <1>3, <2>1, <2>2
<1> QED
  BY <1>1, <1>3, <1>4, <1>5

LEMMA ReplayMoves ==
  ASSUME TypeInv, Replay
  PROVE  StatusMoves /\ CurrentMoves
<1>1. book \in Books /\ status \in [Runs -> Statuses]
  BY DEF TypeInv, Typed
<1>2. PICK from \in Runs : \E r \in Runs :
        /\ status' = [status EXCEPT ![r] = "running"]
        /\ book' = [book EXCEPT !.ledger[r] = @ \o Anew(book.kept[from], prompts + 1),
                                !.current = r, !.observing = TRUE]
        /\ made <= made' /\ r <= made'
  BY ReplaySplits
<1>3. PICK r \in Runs :
        /\ status' = [status EXCEPT ![r] = "running"]
        /\ book' = [book EXCEPT !.ledger[r] = @ \o Anew(book.kept[from], prompts + 1),
                                !.current = r, !.observing = TRUE]
        /\ made <= made' /\ r <= made'
  BY <1>2
<1>4. book'.current = r /\ status'[r] # "absent"
  BY <1>1, <1>3 DEF Books
<1> QED
  BY <1>3, <1>4, StatusesHold DEF StatusMoves, CurrentMoves

\* The run a prompt takes is the one it asked for or a new one.
LEMMA TakenRun ==
  ASSUME TypeInv, Stored, NEW r \in Runs, TakesRun(r)
  PROVE  /\ made <= made' /\ r <= made'
         /\ \/ r = prompt.run /\ status[r] # "absent"
            \/ ~Holds(prompt.run) /\ r = made + 1 /\ status[r] = "absent" /\ book.ledger[r] = <<>>
<1>1. CASE Holds(prompt.run)
  <2>1. r = prompt.run /\ made' = made
    BY <1>1 DEF TakesRun
  <2> QED
    BY <1>1, <2>1, BoundOnRuns DEF Holds, Stored
<1>2. CASE ~Holds(prompt.run)
  <2>1. r = made + 1 /\ made' = r
    BY <1>2 DEF TakesRun
  <2>2. made \in Nat /\ ~(r <= made)
    BY <2>1, BoundOnRuns
  <2> QED
    BY <1>2, <2>1, <2>2 DEF Stored
<1> QED
  BY <1>1, <1>2

LEMMA LaunchMoves ==
  ASSUME TypeInv, Stored, Launch
  PROVE  StatusMoves /\ CurrentMoves
<1>1. /\ book \in Books /\ status \in [Runs -> Statuses] /\ prompt.at = "launching" /\ prompt.level \in Levels
  BY LaunchSplits DEF TypeInv, Typed, Paired
<1>2. PICK r \in Runs : TakesRun(r) /\ (Begins(r) \/ IsRefused(r))
  BY LaunchSplits
<1>3. made <= made' /\ r <= made'
  BY <1>2, TakenRun
<1>4. CASE Begins(r)
  <2>1. status' = [status EXCEPT ![r] = "running"] /\ book' = Writes(book, r, <<Note>>)
    BY <1>4 DEF Begins
  <2>2. book'.current \in {r, book.current} /\ status'[r] # "absent"
    BY <1>1, <2>1, NoteIsAnEvent, WritesMoves
  <2> QED
    BY <1>3, <2>1, <2>2, StatusesHold DEF StatusMoves, CurrentMoves
<1>5. CASE IsRefused(r)
  <2>1. UNCHANGED status /\ status'[r] # "absent"
    BY <1>5 DEF IsRefused, Ended
  <2>2. book'.current \in {r, book.current}
    BY <1>1, <1>5, <2>1, RecordsIntake DEF IsRefused
  <2> QED
    BY <1>3, <2>1, <2>2 DEF StatusMoves, CurrentMoves
<1> QED
  BY <1>2, <1>4, <1>5

LEMMA IntakeOnlyMoves ==
  ASSUME TypeInv, Stored, IntakeOnly
  PROVE  StatusMoves /\ CurrentMoves
<1>1. status \in [Runs -> Statuses] /\ prompt.level \in Levels
  BY IntakeOnlySplits DEF TypeInv, Typed, Paired
<1>2. PICK r \in Runs : \E st \in {"waiting_user_input", "blocked"} :
        /\ TakesRun(r) /\ Answers(Writes(book, r, <<Event("intake", <<>>, prompt.level)>>))
        /\ IF status[r] \in Ended THEN UNCHANGED status ELSE status' = [status EXCEPT ![r] = st]
  BY IntakeOnlySplits
<1>3. made <= made' /\ r <= made'
  BY <1>2, TakenRun
<1>4. status'[r] # "absent"
  BY <1>1, <1>2 DEF Ended
<1>5. book'.current \in {r, book.current}
  BY <1>1, <1>2, <1>4, RecordsIntake
<1>6. "waiting_user_input" \in Statuses /\ "blocked" \in Statuses
  BY DEF Statuses, Waiting
<1> QED
  BY <1>2, <1>3, <1>4, <1>5, <1>6 DEF StatusMoves, CurrentMoves

LEMMA OutsideMoves ==
  ASSUME TypeInv, Stored,
         Plan \/ CancelContext \/ CancelRun \/ Steer \/ Panic \/ CloseSession \/ UNCHANGED vars
  PROVE  StatusMoves /\ CurrentMoves
<1>1. /\ book \in Books /\ status \in [Runs -> Statuses] /\ made <= made
      /\ (book.current # NoRun => book.current \in Runs)
  BY BoundOnRuns DEF TypeInv, Typed, Books
<1>2. CASE CancelContext \/ CloseSession \/ UNCHANGED vars
  <2>1. UNCHANGED <<status, made, book>>
    BY <1>2 DEF CancelContext, CloseSession, counted, vars
  <2> QED
    BY <2>1, Unmoved DEF CurrentMoves
<1>3. CASE Plan
  <2>1. UNCHANGED <<status, made>>
    BY <1>3, PlanSplits DEF counted
  <2>2. book'.current = book.current
    BY <1>1, <1>3, PlanSplits, AnswersEffect DEF PlansFromFacts, PlansFromRouter, PlansNothing
  <2> QED
    BY <2>1, <2>2, Unmoved DEF CurrentMoves
<1>4. CASE CancelRun
  <2>1. UNCHANGED made
    BY <1>4 DEF CancelRun, counted
  <2>2. CASE UNCHANGED <<status, book>>
    BY <2>1, <2>2, Unmoved DEF CurrentMoves
  <2>3. CASE /\ book.current # NoRun /\ status' = [status EXCEPT ![book.current] = "cancelled"]
             /\ book' = Notes(book, book.current)
    <3>1. book'.current = book.current
      BY <1>1, <2>3, NotesMoves
    <3>2. status[book.current] # "absent" /\ "cancelled" \in Statuses
      BY <2>3, StatusesHold DEF Stored
    <3>3. book.current \in Runs /\ made <= made' /\ "cancelled" # "absent"
      BY <1>1, <2>1, <2>3
    <3>4. StatusMoves
      BY <2>3, <3>2, <3>3, MovesTo, Zenon
    <3> QED
      BY <3>1, <3>4 DEF CurrentMoves
  <2> QED
    BY <1>4, <2>2, <2>3, Zenon DEF CancelRun
<1>5. CASE Steer
  <2>1. UNCHANGED <<status, made>>
    BY <1>5 DEF Steer
  <2>2. book'.current = book.current
    <3> DEFINE e == Event("steer", <<0, steers + 1>>, steers + 1)
    <3>1. e \in Ev
      <4>1. <<0, steers + 1>> \in Id /\ steers + 1 \in What
        BY DEF Id, What, TypeInv, Typed
      <4> QED
        BY <4>1 DEF Event, Ev, Kinds
    <3> HIDE DEF e
    <3>2. <<e>> \in Seq(Ev)
      BY <3>1
    <3>3. UNCHANGED book \/ (book.current \in Runs /\ book' = Writes(book, book.current, <<e>>))
      BY <1>1, <1>5, Zenon DEF Steer, e
    <3>4. book.current \in Runs => Writes(book, book.current, <<e>>).current = book.current
      BY <1>1, <3>2, WritesMoves
    <3> QED
      BY <3>3, <3>4, Zenon
  <2> QED
    BY <2>1, <2>2, Unmoved DEF CurrentMoves
<1>6. CASE Panic
  <2>1. /\ UNCHANGED made /\ Answers(book)
        /\ status' = [status EXCEPT ![book.current] = IF @ \in Ended THEN @ ELSE "failed"]
    BY <1>6 DEF Panic, counted
  <2>2. book'.current = book.current
    BY <1>1, <2>1, AnswersEffect
  <2>3. CASE book.current \in Runs
    <3> DEFINE s == IF status[book.current] \in Ended THEN status[book.current] ELSE "failed"
    <3>1. s \in Statuses /\ s # "absent" /\ status' = [status EXCEPT ![book.current] = s]
      BY <1>1, <2>1, <2>3, StatusesHold DEF Ended
    <3>2. status[book.current] # "absent"
      BY <2>3, BoundOnRuns DEF Stored
    <3> HIDE DEF s
    <3>3. made <= made'
      BY <1>1, <2>1
    <3>4. StatusMoves
      BY <2>3, <3>1, <3>2, <3>3, MovesTo, Zenon
    <3> QED
      BY <2>2, <3>4 DEF CurrentMoves
  <2>4. CASE book.current \notin Runs
    <3>1. UNCHANGED status
      BY <1>1, <2>1, <2>4
    <3> QED
      BY <2>1, <2>2, <3>1, Unmoved DEF CurrentMoves
  <2> QED
    BY <2>3, <2>4
<1> QED
  BY <1>2, <1>3, <1>4, <1>5, <1>6

LEMMA EveryMove ==
  ASSUME TypeInv, Stored, [Next]_vars
  PROVE  (StatusMoves /\ CurrentMoves) \/ NewSession \/ Crash
<1>1. CASE StepHead \/ LosesItsContext \/ BeginCall \/ LoseCall \/ AnswerCall \/ Finish \/ Delegate \/ NoChild
  BY <1>1, TurnMoves
<1>2. CASE Plan \/ CancelContext \/ CancelRun \/ Steer \/ Panic \/ CloseSession \/ UNCHANGED vars
  BY <1>2, OutsideMoves
<1>3. CASE LaunchChild \/ Prompt \/ Replay \/ Launch \/ IntakeOnly
  BY <1>3, LaunchChildMoves, PromptMoves, ReplayMoves, LaunchMoves, IntakeOnlyMoves
<1> QED
  BY <1>1, <1>2, <1>3, Zenon DEF Next

\* A run that was opened stays so while its session lasts.
LEMMA OpenedStays ==
  ASSUME TypeInv, StatusMoves
  PROVE  /\ \A r \in Runs : status[r] # "absent" => status'[r] # "absent"
         /\ \A r \in Runs : status'[r] # "absent" => status[r] # "absent" \/ r <= made'
BY DEF TypeInv, Typed, StatusMoves

\* The turn on top heard something and is otherwise as it was.
LEMMA HearsEffect ==
  ASSUME TypeInv, turns # <<>>, Hears
  PROVE  /\ turns' \in Seq(Turns) /\ turns' # <<>> /\ DOMAIN turns' = DOMAIN turns
         /\ \A i \in DOMAIN turns : i # top => turns'[i] = turns[i]
         /\ turns'[top].heard = turn.heard \o Told(Pending)
         /\ turns'[top].applied = turn.applied \cup Ids(Pending)
         /\ turns'[top].run = turn.run /\ turns'[top].knows = turn.knows /\ turns'[top].level = turn.level
         /\ turns'[top].limit = turn.limit /\ turns'[top].mayDelegate = turn.mayDelegate
         /\ turns'[top].delegated = turn.delegated /\ turns'[top].carries = turn.carries
         /\ turns'[top].at = "act" /\ turns'[top].steps = turn.steps + 1
<1> DEFINE p == Pending
           h == Heard(turn, p)
           t == [h EXCEPT !.at = "act", !.steps = @ + 1]
<1>1. h \in Turns /\ turn \in Turns /\ turns \in Seq(Turns) /\ top \in DOMAIN turns
  BY HeardTyped, InATurn
<1>2. Sets(t)
  BY DEF Hears
<1> HIDE DEF p
<1>3. /\ h.heard = turn.heard \o Told(p) /\ h.applied = turn.applied \cup Ids(p)
      /\ h.run = turn.run /\ h.knows = turn.knows /\ h.level = turn.level /\ h.limit = turn.limit
      /\ h.mayDelegate = turn.mayDelegate /\ h.delegated = turn.delegated /\ h.carries = turn.carries
      /\ h.steps = turn.steps
  BY <1>1 DEF Heard, Turns
<1> HIDE DEF h
<1>4. h.steps + 1 \in Nat
  BY <1>1, TurnNumbers
<1>5. /\ t \in Turns /\ t.heard = h.heard /\ t.applied = h.applied /\ t.run = h.run /\ t.knows = h.knows
      /\ t.level = h.level /\ t.limit = h.limit /\ t.mayDelegate = h.mayDelegate
      /\ t.delegated = h.delegated /\ t.carries = h.carries /\ t.at = "act" /\ t.steps = h.steps + 1
  BY <1>1, <1>4 DEF Turns
<1> HIDE DEF t
<1>6. /\ turns' \in Seq(Turns) /\ turns' # <<>> /\ DOMAIN turns' = DOMAIN turns
      /\ \A i \in DOMAIN turns : turns'[i] = IF i = top THEN t ELSE turns[i]
  BY <1>1, <1>2, <1>5, SetsEffect, Zenon
<1>7. turns'[top] = t /\ \A i \in DOMAIN turns : i # top => turns'[i] = turns[i]
  BY <1>1, <1>6
<1> QED
  BY <1>3, <1>5, <1>6, <1>7 DEF p

\* A child's turn comes after its parent's.
LEMMA LaunchesChild ==
  ASSUME TypeInv, LaunchChild
  PROVE  /\ turns \in Seq(Turns) /\ turns # <<>> /\ turns' \in Seq(Turns)
         /\ DOMAIN turns' = 1 .. (top + 1) /\ DOMAIN turns = 1 .. top /\ top \in Nat /\ Len(turns') = top + 1
         /\ \A i \in DOMAIN turns : turns'[i] = turns[i]
         /\ turns'[top + 1] = ChildTurn(turn, made + 1)
         /\ made + 1 \in Runs /\ status' = [status EXCEPT ![made + 1] = "running"]
<1> DEFINE t == ChildTurn(turn, made + 1)
<1>1. /\ turns # <<>> /\ turns' = Append(turns, t) /\ made < MaxRuns
      /\ status' = [status EXCEPT ![made + 1] = "running"]
  BY DEF LaunchChild
<1>2. turns \in Seq(Turns) /\ DOMAIN turns = 1 .. top /\ top \in Nat /\ top = Len(turns)
  BY <1>1, InATurn DEF top
<1>3. turns' \in Seq(Turns)
  BY LaunchChildEffect DEF TypeInv, Typed
<1>4. made + 1 \in Runs
  BY <1>1, BoundOnRuns DEF Runs
<1> HIDE DEF t
<1>5. DOMAIN turns' = 1 .. (top + 1) /\ turns'[top + 1] = t /\ \A i \in DOMAIN turns : turns'[i] = turns[i]
  BY <1>1, <1>2
<1>6. Len(turns') = top + 1
  BY <1>2, <1>3, <1>5
<1> QED
  BY <1>1, <1>2, <1>3, <1>4, <1>5, <1>6 DEF t

\* Every turn is one that was there or works in a run that was just opened for it.
LEMMA WhoseTurn ==
  ASSUME TypeInv, TypeInv', [Next]_vars
  PROVE  \A i \in DOMAIN turns' :
           \/ i \in DOMAIN turns /\ turns'[i].run = turns[i].run
           \/ turns'[i].run \in Runs /\ status'[turns'[i].run] # "absent"
<1>1. CASE TurnsGo
  BY <1>1 DEF TurnsGo, Goes
<1>2. CASE Launch
  <2>1. PICK r \in Runs : TakesRun(r) /\ (Begins(r) \/ IsRefused(r))
    BY <1>2, LaunchSplits
  <2>2. CASE Begins(r)
    <3>1. DOMAIN turns' = {1} /\ turns'[1].run = r
      <4>1. prompt.at = "launching"
        BY <1>2, LaunchSplits
      <4> QED
        BY <2>2, <4>1, BeginsTurn, NewTurnIs
    <3>2. status'[r] # "absent"
      BY <2>2 DEF Begins, TypeInv, Typed
    <3> QED
      BY <3>1, <3>2
  <2>3. CASE IsRefused(r)
    BY <2>3 DEF IsRefused, Answers
  <2> QED
    BY <2>1, <2>2, <2>3
<1>3. CASE LaunchChild
  <2>1. /\ DOMAIN turns' = 1 .. (top + 1) /\ DOMAIN turns = 1 .. top /\ top \in Nat
        /\ \A i \in DOMAIN turns : turns'[i] = turns[i]
        /\ turns'[top + 1].run = made + 1
    BY <1>3, LaunchesChild DEF ChildTurn, NewTurn
  <2>2. made + 1 \in Runs /\ status'[made + 1] # "absent"
    BY <1>3, LaunchesChild DEF TypeInv, Typed
  <2> QED
    BY <2>1, <2>2
<1>4. CASE StepHead /\ Hears
  <2>1. turns # <<>>
    BY <1>4, HeadSplits
  <2>2. /\ DOMAIN turns' = DOMAIN turns /\ turns'[top].run = turn.run
        /\ \A i \in DOMAIN turns : i # top => turns'[i] = turns[i]
    BY <1>4, <2>1, HearsEffect
  <2> QED
    BY <2>2 DEF turn
<1> QED
  BY <1>1, <1>2, <1>3, <1>4, EveryStep

LEMMA KnownIsHeld ==
  ASSUME TypeInv, Stored, StatusMoves, NEW r \in Runs, Known(r)
  PROVE  status'[r] # "absent"
<1>1. \A q \in Runs : status[q] # "absent" => status'[q] # "absent"
  BY OpenedStays
<1>2. r = book.current => status[r] # "absent"
  BY BoundOnRuns DEF Stored
<1>3. turns # <<>> /\ r = turn.run => status[r] # "absent"
  BY InATurn DEF Stored, turn
<1> QED
  BY <1>1, <1>2, <1>3 DEF Known

LEMMA StoredStep ==
  ASSUME TypeInv, Stored, [Next]_vars
  PROVE  Stored'
<1>1. TypeInv'
  BY EveryStep
<1>2. CASE NewSession \/ Crash
  <2>1. status' = [r \in Runs |-> "absent"] /\ book' = Fresh /\ turns' = <<>>
    BY <1>2, NewSessionEffect DEF NewSession, Crash
  <2> QED
    BY <2>1, FreshBook DEF Stored
<1>3. CASE StatusMoves /\ CurrentMoves /\ ~NewSession /\ ~Crash
  <2>1. /\ \A r \in Runs : status[r] # "absent" => status'[r] # "absent"
        /\ \A r \in Runs : status'[r] # "absent" => status[r] # "absent" \/ r <= made'
    BY <1>3, OpenedStays
  <2>2. ASSUME NEW r \in Runs, status'[r] # "absent" PROVE r <= made'
    <3>1. r \in Nat /\ made \in Nat /\ made' \in Nat /\ made <= made'
      BY <1>1, <1>3, BoundOnRuns DEF Runs, StatusMoves, TypeInv, Typed
    <3>2. status[r] # "absent" => r <= made
      BY DEF Stored
    <3> QED
      BY <2>1, <2>2, <3>1, <3>2
  <2>3. ASSUME NEW q \in Runs, status'[q] = "absent" PROVE book'.ledger[q] = <<>>
    <3>1. status[q] = "absent" /\ book.ledger[q] = <<>> /\ book.ledger \in [Runs -> Seq(Ev)]
      BY <2>1, <2>3 DEF Stored, TypeInv, Typed, Books
    <3>2. CASE LedgerGrows
      <4>1. CASE Silent(book, book')
        BY <3>1, <4>1 DEF Silent
      <4>2. ASSUME NEW r \in Runs, NEW events \in Seq(Ev), Grown(book, book', r, events), Known(r)
            PROVE  book'.ledger[q] = <<>>
        <5>1. r # q
          BY <1>3, <2>3, <4>2, KnownIsHeld
        <5> QED
          BY <3>1, <4>2, <5>1 DEF Grown
      <4> QED
        BY <3>2, <4>1, <4>2 DEF LedgerGrows
    <3>3. CASE Replay
      <4>1. PICK from \in Runs : \E r \in Runs :
              /\ status' = [status EXCEPT ![r] = "running"]
              /\ book' = [book EXCEPT !.ledger[r] = @ \o Anew(book.kept[from], prompts + 1),
                                      !.current = r, !.observing = TRUE]
        BY <3>3, ReplaySplits
      <4>2. PICK r \in Runs :
              /\ status' = [status EXCEPT ![r] = "running"]
              /\ book' = [book EXCEPT !.ledger[r] = @ \o Anew(book.kept[from], prompts + 1),
                                      !.current = r, !.observing = TRUE]
        BY <4>1
      <4>3. status'[r] = "running"
        BY <4>2 DEF TypeInv, Typed
      <4>4. r # q
        BY <2>3, <4>3
      <4> QED
        BY <3>1, <4>2, <4>4 DEF TypeInv, Typed, Books
    <3> QED
      BY <1>3, <3>2, <3>3, EveryStep
  <2>4. book'.current # NoRun => status'[book'.current] # "absent"
    <3>1. book.current # NoRun => book.current \in Runs /\ status[book.current] # "absent"
      BY DEF Stored, TypeInv, Typed, Books
    <3>2. \A i \in DOMAIN turns : turns[i].run \in Runs /\ status[turns[i].run] # "absent"
      <4>1. CASE turns = <<>>
        BY <4>1
      <4>2. CASE turns # <<>>
        BY <4>2, InATurn DEF Stored
      <4> QED
        BY <4>1, <4>2
    <3> QED
      BY <1>3, <2>1, <3>1, <3>2 DEF CurrentMoves
  <2>5. ASSUME NEW i \in DOMAIN turns' PROVE status'[turns'[i].run] # "absent"
    <3>1. CASE turns'[i].run \in Runs /\ status'[turns'[i].run] # "absent"
      BY <3>1
    <3>2. CASE i \in DOMAIN turns /\ turns'[i].run = turns[i].run
      <4>1. turns # <<>>
        BY <3>2
      <4>2. turns[i].run \in Runs /\ status[turns[i].run] # "absent"
        BY <3>2, <4>1, InATurn DEF Stored
      <4> QED
        BY <2>1, <3>2, <4>2
    <3> QED
      BY <1>1, <3>1, <3>2, WhoseTurn
  <2> QED
    BY <2>2, <2>3, <2>4, <2>5 DEF Stored
<1> QED
  BY <1>2, <1>3, EveryMove

-----------------------------------------------------------------------------
(* An instruction is heard once.                                           *)

\* The instructions among events are distinct, and of the first n.
ToldApart(events, n) ==
  /\ \A i, j \in DOMAIN events :
       events[i].kind = "steer" /\ events[j].kind = "steer" /\ events[i].of = events[j].of => i = j
  /\ \A i \in DOMAIN events : events[i].kind = "steer" => events[i].of \in Nat /\ events[i].of <= n

\* What was heard are instructions among events that were applied.
HeardOf(heard, events, applied) ==
  \A k \in DOMAIN heard : \E j \in DOMAIN events :
    events[j].kind = "steer" /\ events[j].of = heard[k] /\ events[j].id \in applied

ToldInv == \A r \in Runs : ToldApart(book.ledger[r], steers) /\ ToldApart(book.kept[r], steers)

HeardInv ==
  \A i \in DOMAIN turns : /\ IsInjective(turns[i].heard)
                          /\ HeardOf(turns[i].heard, book.ledger[turns[i].run], turns[i].applied)

\* The entries of two sequences, one after the other.
LEMMA Joined ==
  ASSUME NEW S, NEW p \in Seq(S), NEW q \in Seq(S)
  PROVE  /\ p \o q \in Seq(S) /\ Len(p) \in Nat /\ Len(q) \in Nat /\ Len(p \o q) = Len(p) + Len(q)
         /\ DOMAIN p = 1 .. Len(p) /\ DOMAIN q = 1 .. Len(q) /\ DOMAIN (p \o q) = 1 .. (Len(p) + Len(q))
         /\ \A k \in DOMAIN (p \o q) :
              \/ k \in DOMAIN p /\ (p \o q)[k] = p[k]
              \/ k \in Nat /\ k > Len(p) /\ k - Len(p) \in DOMAIN q /\ (p \o q)[k] = q[k - Len(p)]
OBVIOUS

LEMMA MoreTold ==
  ASSUME NEW events \in Seq(Ev), NEW more \in Seq(Ev), NEW n \in Nat, NEW m \in Nat, n <= m, ToldApart(events, n),
         \A i \in DOMAIN more : more[i].kind = "steer" => Len(more) = 1 /\ more[i].of = n + 1 /\ m = n + 1
  PROVE  ToldApart(events \o more, m)
<1> DEFINE all == events \o more
<1>1. /\ Len(events) \in Nat /\ Len(more) \in Nat /\ DOMAIN events = 1 .. Len(events)
      /\ DOMAIN more = 1 .. Len(more) /\ DOMAIN all = 1 .. (Len(events) + Len(more))
  OBVIOUS
<1>2. \A i \in DOMAIN all : all[i] = IF i <= Len(events) THEN events[i] ELSE more[i - Len(events)]
  BY <1>1
<1>3. \A i \in DOMAIN all : \/ i \in DOMAIN events /\ all[i] = events[i]
                            \/ i - Len(events) \in DOMAIN more /\ all[i] = more[i - Len(events)] /\ i > Len(events)
  BY <1>1, <1>2
<1> HIDE DEF all
<1>4. ASSUME NEW i \in DOMAIN all, all[i].kind = "steer" PROVE all[i].of \in Nat /\ all[i].of <= m
  <2>1. CASE i \in DOMAIN events /\ all[i] = events[i]
    <3>1. events[i].of \in Nat /\ events[i].of <= n
      BY <1>4, <2>1 DEF ToldApart
    <3> QED
      BY <2>1, <3>1
  <2>2. CASE i - Len(events) \in DOMAIN more /\ all[i] = more[i - Len(events)]
    BY <1>4, <2>2
  <2> QED
    BY <1>3, <2>1, <2>2
<1>5. ASSUME NEW i \in DOMAIN all, NEW j \in DOMAIN all, all[i].kind = "steer", all[j].kind = "steer",
             all[i].of = all[j].of
      PROVE  i = j
  <2>1. ASSUME NEW a \in DOMAIN all, NEW b \in DOMAIN all, all[a].kind = "steer", all[b].kind = "steer",
               a \in DOMAIN events, all[a] = events[a],
               b - Len(events) \in DOMAIN more, all[b] = more[b - Len(events)]
        PROVE  all[a].of # all[b].of
    <3>1. all[a].of \in Nat /\ all[a].of <= n
      BY <2>1 DEF ToldApart
    <3>2. all[b].of = n + 1
      BY <2>1
    <3> QED
      BY <3>1, <3>2
  <2>2. CASE i \in DOMAIN events /\ all[i] = events[i] /\ j \in DOMAIN events /\ all[j] = events[j]
    BY <1>5, <2>2 DEF ToldApart
  <2>3. CASE /\ i - Len(events) \in DOMAIN more /\ all[i] = more[i - Len(events)]
             /\ j - Len(events) \in DOMAIN more /\ all[j] = more[j - Len(events)]
    <3>1. Len(more) = 1
      BY <1>5, <2>3
    <3>2. i - Len(events) = 1 /\ j - Len(events) = 1 /\ i \in Nat /\ j \in Nat
      BY <1>1, <2>3, <3>1
    <3> QED
      BY <1>1, <3>2
  <2> QED
    BY <1>3, <1>5, <2>1, <2>2, <2>3
<1> QED
  BY <1>4, <1>5 DEF ToldApart, all

LEMMA StillHeard ==
  ASSUME NEW events \in Seq(Ev), NEW more \in Seq(Ev), NEW heard, NEW applied, HeardOf(heard, events, applied)
  PROVE  HeardOf(heard, events \o more, applied)
<1>1. \A j \in DOMAIN events : j \in DOMAIN (events \o more) /\ (events \o more)[j] = events[j]
  OBVIOUS
<1> QED
  BY <1>1 DEF HeardOf

\* f picks n instructions of events that were not applied, each once.
Picks(f, n, events, applied) ==
  /\ f \in [1 .. n -> DOMAIN events]
  /\ \A k, m \in 1 .. n : f[k] = f[m] => k = m
  /\ \A k \in 1 .. n : events[f[k]].kind = "steer" /\ events[f[k]].id \notin applied

\* A turn that hears what was pending heard everything once.
LEMMA HearsOnce ==
  ASSUME NEW events \in Seq(Ev), NEW b, ToldApart(events, b), NEW heard \in Seq(What), NEW applied,
         IsInjective(heard), HeardOf(heard, events, applied),
         NEW n \in Nat, NEW f, Picks(f, n, events, applied), NEW p, p = [k \in 1 .. n |-> events[f[k]]]
  PROVE  /\ IsInjective(heard \o Told(p))
         /\ HeardOf(heard \o Told(p), events, applied \cup Ids(p))
<1> DEFINE new == Told(p)
           all == heard \o new
           l == Len(heard)
<1> USE DEF Picks
<1>1. DOMAIN p = 1 .. n /\ \A k \in 1 .. n : p[k] = events[f[k]]
  OBVIOUS
<1>2. new = [k \in 1 .. n |-> events[f[k]].of] /\ \A k \in 1 .. n : events[f[k]].id \in Ids(p)
  <2>1. new = [k \in 1 .. n |-> p[k].of]
    BY <1>1 DEF Told
  <2>2. \A k \in 1 .. n : p[k].id \in Ids(p)
    BY <1>1, Zenon DEF Ids
  <2> QED
    BY <1>1, <2>1, <2>2
<1>3. \A k \in 1 .. n : events[f[k]].of \in What
  <2>1. \A e \in Ev : e.of \in What
    BY DEF Ev
  <2>2. \A k \in 1 .. n : f[k] \in DOMAIN events
    OBVIOUS
  <2>3. \A j \in DOMAIN events : events[j] \in Ev
    OBVIOUS
  <2> QED
    BY <2>1, <2>2, <2>3
<1> HIDE DEF new
<1>4. new \in Seq(What) /\ Len(new) = n /\ \A k \in 1 .. n : new[k] = events[f[k]].of
  BY <1>2, <1>3
<1>5. l \in Nat /\ DOMAIN heard = 1 .. l /\ DOMAIN all = 1 .. (l + n)
  <2>1. l \in Nat /\ DOMAIN heard = 1 .. l
    OBVIOUS
  <2>2. DOMAIN all = 1 .. (l + Len(new))
    BY <1>4, Joined, Zenon
  <2> QED
    BY <1>4, <2>1, <2>2
<1>6. \A k \in DOMAIN all : \/ k \in DOMAIN heard /\ all[k] = heard[k]
                            \/ k - l \in 1 .. n /\ all[k] = new[k - l] /\ k \in Nat
  BY <1>4, <1>5
<1> HIDE DEF all, l
<1>7. ASSUME NEW k \in DOMAIN heard, NEW m \in 1 .. n PROVE heard[k] # new[m]
  <2> SUFFICES ASSUME heard[k] = new[m] PROVE FALSE
    OBVIOUS
  <2>1. PICK j \in DOMAIN events : events[j].kind = "steer" /\ events[j].of = heard[k] /\ events[j].id \in applied
    BY DEF HeardOf
  <2>2. f[m] \in DOMAIN events /\ events[f[m]].kind = "steer" /\ events[f[m]].of = events[j].of
    BY <1>4, <2>1
  <2>3. j = f[m]
    BY <2>1, <2>2 DEF ToldApart
  <2> QED
    BY <2>1, <2>3
<1>8. ASSUME NEW k \in 1 .. n, NEW m \in 1 .. n, new[k] = new[m] PROVE k = m
  <2>1. f[k] \in DOMAIN events /\ f[m] \in DOMAIN events /\ events[f[k]].of = events[f[m]].of
    BY <1>4, <1>8
  <2>2. f[k] = f[m]
    BY <2>1 DEF ToldApart
  <2> QED
    BY <2>2
<1>9. ASSUME NEW k \in DOMAIN all, NEW m \in DOMAIN all, all[k] = all[m] PROVE k = m
  <2>1. CASE k \in DOMAIN heard /\ all[k] = heard[k] /\ m \in DOMAIN heard /\ all[m] = heard[m]
    BY <1>9, <2>1 DEF IsInjective
  <2>2. CASE /\ k - l \in 1 .. n /\ all[k] = new[k - l] /\ k \in Nat
             /\ m - l \in 1 .. n /\ all[m] = new[m - l] /\ m \in Nat
    <3>1. k - l = m - l
      BY <1>8, <1>9, <2>2
    <3> QED
      BY <1>5, <2>2, <3>1
  <2> QED
    BY <1>6, <1>7, <1>9, <2>1, <2>2
<1>10. ASSUME NEW k \in DOMAIN all
       PROVE  \E j \in DOMAIN events : /\ events[j].kind = "steer" /\ events[j].of = all[k]
                                      /\ events[j].id \in applied \cup Ids(p)
  <2>1. CASE k \in DOMAIN heard /\ all[k] = heard[k]
    <3>1. PICK j \in DOMAIN events : events[j].kind = "steer" /\ events[j].of = heard[k] /\ events[j].id \in applied
      BY <2>1 DEF HeardOf
    <3> QED
      BY <2>1, <3>1
  <2>2. CASE k - l \in 1 .. n /\ all[k] = new[k - l]
    <3>1. f[k - l] \in DOMAIN events /\ events[f[k - l]].kind = "steer" /\ events[f[k - l]].id \in Ids(p)
      <4>1. PICK m \in 1 .. n : m = k - l
        BY <2>2
      <4>2. f[m] \in DOMAIN events /\ events[f[m]].kind = "steer" /\ events[f[m]].id \in Ids(p)
        BY <1>2
      <4> QED
        BY <4>1, <4>2
    <3>2. all[k] = events[f[k - l]].of
      BY <1>4, <2>2
    <3> QED
      BY <3>1, <3>2
  <2> QED
    BY <1>6, <2>1, <2>2
<1> QED
  BY <1>9, <1>10, Zenon DEF IsInjective, HeardOf, all, new

\* A ledger, and what the host keeps of it, only grow.
LEMMA EachLedgerGrows ==
  ASSUME TypeInv, LedgerGrows, NEW q \in Runs
  PROVE  /\ book.ledger[q] \in Seq(Ev) /\ book.kept[q] \in Seq(Ev)
         /\ \E more \in Seq(Ev) : book'.ledger[q] = book.ledger[q] \o more /\ Fits(more)
         /\ \E more \in Seq(Ev) : book'.kept[q] = book.kept[q] \o more /\ Fits(more)
<1>1. /\ book.ledger[q] \in Seq(Ev) /\ book.kept[q] \in Seq(Ev)
      /\ book.ledger \in [Runs -> Seq(Ev)] /\ book.kept \in [Runs -> Seq(Ev)]
  BY DEF TypeInv, Typed, Books
<1>2. <<>> \in Seq(Ev) /\ Fits(<<>>) /\ \A s \in Seq(Ev) : s \o <<>> = s
  BY DEF Fits
<1>3. CASE Silent(book, book')
  BY <1>1, <1>2, <1>3 DEF Silent
<1>4. ASSUME NEW r \in Runs, NEW events \in Seq(Ev), Grown(book, book', r, events), Fits(events)
      PROVE  /\ \E more \in Seq(Ev) : book'.ledger[q] = book.ledger[q] \o more /\ Fits(more)
             /\ \E more \in Seq(Ev) : book'.kept[q] = book.kept[q] \o more /\ Fits(more)
  <2>1. /\ book'.ledger[q] = IF q = r THEN book.ledger[q] \o events ELSE book.ledger[q]
        /\ \/ book'.kept[q] = book.kept[q]
           \/ q = r /\ book'.kept[q] = book.kept[q] \o events
    BY <1>1, <1>4 DEF Grown
  <2>2. book.ledger[q] \o <<>> = book.ledger[q] /\ book.kept[q] \o <<>> = book.kept[q]
    BY <1>1, <1>2
  <2> QED
    BY <1>2, <1>4, <2>1, <2>2, Zenon
<1> QED
  BY <1>1, <1>3, <1>4, Zenon DEF LedgerGrows

\* A ledger that was replayed is what the host kept, under new ids.
LEMMA ReplayedLedger ==
  ASSUME TypeInv, Stored, Replay
  PROVE  \E from \in Runs : \E r \in Runs :
           /\ Asks(r, About(book.kept[from], "call"), r = from, TRUE)
           /\ status' = [status EXCEPT ![r] = "running"]
           /\ book.kept[from] \in Seq(Ev)
           /\ book'.ledger[r] = Anew(book.kept[from], prompts + 1)
           /\ \A q \in Runs \ {r} : book'.ledger[q] = book.ledger[q]
           /\ book'.kept = book.kept /\ Still(book, book')
<1>1. PICK from \in Runs : \E r \in Runs :
        /\ status[from] = "absent" /\ (r = from \/ r = made + 1)
        /\ Asks(r, About(book.kept[from], "call"), r = from, TRUE)
        /\ status' = [status EXCEPT ![r] = "running"]
        /\ book' = [book EXCEPT !.ledger[r] = @ \o Anew(book.kept[from], prompts + 1),
                                !.current = r, !.observing = TRUE]
  BY ReplaySplits
<1>2. PICK r \in Runs :
        /\ status[from] = "absent" /\ (r = from \/ r = made + 1)
        /\ Asks(r, About(book.kept[from], "call"), r = from, TRUE)
        /\ status' = [status EXCEPT ![r] = "running"]
        /\ book' = [book EXCEPT !.ledger[r] = @ \o Anew(book.kept[from], prompts + 1),
                                !.current = r, !.observing = TRUE]
  BY <1>1
<1>3. status[r] = "absent" /\ book.ledger[r] = <<>>
  <2>1. made \in Nat /\ ~(made + 1 <= made)
    BY BoundOnRuns
  <2>2. r = made + 1 => status[r] = "absent"
    BY <2>1 DEF Stored
  <2> QED
    BY <1>2, <2>2 DEF Stored
<1> DEFINE events == Anew(book.kept[from], prompts + 1)
           L == [book.ledger EXCEPT ![r] = @ \o events]
<1>4. book \in Books /\ book.kept[from] \in Seq(Ev) /\ prompts + 1 \in Nat /\ book.ledger \in [Runs -> Seq(Ev)]
  <2>1. book \in Books /\ prompts + 1 \in Nat
    BY DEF TypeInv, Typed
  <2>2. book.kept \in [Runs -> Seq(Ev)] /\ book.ledger \in [Runs -> Seq(Ev)]
    BY <2>1 DEF Books
  <2> QED
    BY <2>1, <2>2
<1>5. events \in Seq(Ev)
  <2>1. book.kept[from] \in Seq(Ev) /\ prompts + 1 \in Nat
    BY <1>4
  <2>2. Anew(book.kept[from], prompts + 1) \in Seq(Ev)
    BY <2>1, AnewEvents, Zenon
  <2> QED
    BY <2>2
<1> HIDE DEF events
<1>6. <<>> \o events = events
  BY <1>5
<1>7. book' = [book EXCEPT !.ledger = L, !.current = r, !.observing = TRUE]
  BY <1>2, <1>4 DEF Books, events
<1>8. L[r] = events /\ \A q \in Runs \ {r} : L[q] = book.ledger[q]
  BY <1>3, <1>4, <1>6
<1> HIDE DEF L
<1>9. book'.ledger = L /\ book'.kept = book.kept /\ Still(book, book')
  BY <1>4, <1>7 DEF Books, Still
<1> QED
  BY <1>2, <1>4, <1>8, <1>9 DEF events

LEMMA MoreFits ==
  ASSUME TypeInv, Counted, NEW events \in Seq(Ev), NEW more \in Seq(Ev), Fits(more), ToldApart(events, steers)
  PROVE  ToldApart(events \o more, steers')
<1>1. steers \in Nat /\ steers' \in Nat /\ steers <= steers'
  BY DEF Counted, TypeInv, Typed
<1>2. \A i \in DOMAIN more :
        more[i].kind = "steer" => Len(more) = 1 /\ more[i].of = steers + 1 /\ steers' = steers + 1
  BY DEF Fits
<1> QED
  BY <1>1, <1>2, MoreTold

LEMMA ToldStep ==
  ASSUME TypeInv, Stored, ToldInv, [Next]_vars
  PROVE  ToldInv'
<1>1. TypeInv' /\ Counted /\ steers \in Nat /\ steers' \in Nat /\ steers <= steers'
  BY EveryStep DEF Counted, TypeInv, Typed
<1>2. ASSUME NEW events, ToldApart(events, steers) PROVE ToldApart(events, steers')
  BY <1>1, <1>2 DEF ToldApart
<1>3. CASE LedgerGrows
  <2>1. ASSUME NEW q \in Runs PROVE ToldApart(book'.ledger[q], steers') /\ ToldApart(book'.kept[q], steers')
    <3>1. PICK more \in Seq(Ev) : book'.ledger[q] = book.ledger[q] \o more /\ Fits(more)
      BY <1>3, EachLedgerGrows
    <3>2. PICK others \in Seq(Ev) : book'.kept[q] = book.kept[q] \o others /\ Fits(others)
      BY <1>3, EachLedgerGrows
    <3>3. book.ledger[q] \in Seq(Ev) /\ book.kept[q] \in Seq(Ev)
      BY <1>3, EachLedgerGrows
    <3>4. ToldApart(book.ledger[q], steers) /\ ToldApart(book.kept[q], steers)
      BY DEF ToldInv
    <3>5. ToldApart(book'.ledger[q], steers')
      BY <1>1, <3>1, <3>3, <3>4, MoreFits
    <3>6. ToldApart(book'.kept[q], steers')
      BY <1>1, <3>2, <3>3, <3>4, MoreFits
    <3> QED
      BY <3>5, <3>6
  <2> QED
    BY <2>1 DEF ToldInv
<1>4. CASE Replay
  <2>1. PICK from \in Runs : \E r \in Runs :
          /\ book.kept[from] \in Seq(Ev) /\ book'.ledger[r] = Anew(book.kept[from], prompts + 1)
          /\ \A q \in Runs \ {r} : book'.ledger[q] = book.ledger[q]
          /\ book'.kept = book.kept
    BY <1>4, ReplayedLedger
  <2>2. PICK r \in Runs :
          /\ book.kept[from] \in Seq(Ev) /\ book'.ledger[r] = Anew(book.kept[from], prompts + 1)
          /\ \A q \in Runs \ {r} : book'.ledger[q] = book.ledger[q]
          /\ book'.kept = book.kept
    BY <2>1
  <2>3. ToldApart(Anew(book.kept[from], prompts + 1), steers)
    <3>1. prompts + 1 \in Nat
      BY DEF TypeInv, Typed
    <3>2. /\ DOMAIN Anew(book.kept[from], prompts + 1) = DOMAIN book.kept[from]
          /\ \A i \in DOMAIN book.kept[from] :
               /\ Anew(book.kept[from], prompts + 1)[i].kind = book.kept[from][i].kind
               /\ Anew(book.kept[from], prompts + 1)[i].of = book.kept[from][i].of
      BY <2>2, <3>1, AnewEvents
    <3> QED
      BY <3>2 DEF ToldInv, ToldApart
  <2>4. \A q \in Runs : ToldApart(book'.ledger[q], steers) /\ ToldApart(book'.kept[q], steers)
    BY <2>2, <2>3 DEF ToldInv
  <2> QED
    BY <1>2, <2>4 DEF ToldInv
<1>5. CASE NewSession \/ Crash
  <2>1. book' = Fresh
    BY <1>5 DEF NewSession, Crash
  <2>2. \A q \in Runs : book'.ledger[q] = <<>> /\ book'.kept[q] = book.kept[q]
    BY <2>1, FreshBook
  <2>3. ToldApart(<<>>, steers)
    BY DEF ToldApart
  <2>4. \A q \in Runs : ToldApart(book'.ledger[q], steers) /\ ToldApart(book'.kept[q], steers)
    BY <2>2, <2>3 DEF ToldInv
  <2> QED
    BY <1>2, <2>4 DEF ToldInv
<1> QED
  BY <1>3, <1>4, <1>5, EveryStep

LEMMA HeardStep ==
  ASSUME TypeInv, Stored, ToldInv, HeardInv, [Next]_vars
  PROVE  HeardInv'
<1>1. IsInjective(<<>>) /\ \A events, applied : HeardOf(<<>>, events, applied)
  BY DEF IsInjective, HeardOf
<1>2. CASE turns' = <<>>
  BY <1>2 DEF HeardInv
<1>3. ASSUME NEW i \in DOMAIN turns, LedgerGrows, NEW t, Goes(turns[i], t)
      PROVE  IsInjective(t.heard) /\ HeardOf(t.heard, book'.ledger[t.run], t.applied)
  <2>1. turns # <<>>
    OBVIOUS
  <2>2. turns[i].run \in Runs
    BY <2>1, InATurn
  <2>3. PICK more \in Seq(Ev) : book'.ledger[turns[i].run] = book.ledger[turns[i].run] \o more
    BY <1>3, <2>2, EachLedgerGrows
  <2>4. book.ledger[turns[i].run] \in Seq(Ev)
    BY <1>3, <2>2, EachLedgerGrows
  <2>5. IsInjective(turns[i].heard) /\ HeardOf(turns[i].heard, book.ledger[turns[i].run], turns[i].applied)
    BY DEF HeardInv
  <2>6. HeardOf(turns[i].heard, book'.ledger[turns[i].run], turns[i].applied)
    BY <2>3, <2>4, <2>5, StillHeard
  <2> QED
    BY <1>3, <2>5, <2>6 DEF Goes
<1>4. CASE TurnsGo /\ LedgerGrows
  BY <1>3, <1>4 DEF TurnsGo, HeardInv
<1>5. CASE Launch
  <2>1. PICK r \in Runs : TakesRun(r) /\ (Begins(r) \/ IsRefused(r))
    BY <1>5, LaunchSplits
  <2>2. CASE Begins(r)
    <3>1. prompt.at = "launching"
      BY <1>5, LaunchSplits
    <3>2. DOMAIN turns' = {1} /\ turns'[1].heard = <<>>
      BY <2>2, <3>1, BeginsTurn, NewTurnIs
    <3> QED
      BY <1>1, <3>2 DEF HeardInv
  <2>3. CASE IsRefused(r)
    BY <1>2, <2>3 DEF IsRefused, Answers
  <2> QED
    BY <2>1, <2>2, <2>3
<1>6. CASE LaunchChild
  <2>1. /\ DOMAIN turns' = 1 .. (top + 1) /\ DOMAIN turns = 1 .. top /\ top \in Nat
        /\ \A i \in DOMAIN turns : turns'[i] = turns[i]
        /\ turns'[top + 1] = ChildTurn(turn, made + 1)
    BY <1>6, LaunchesChild
  <2>2. LedgerGrows
    BY <1>6, LaunchChildEffect
  <2>3. ASSUME NEW i \in DOMAIN turns
        PROVE  IsInjective(turns'[i].heard) /\ HeardOf(turns'[i].heard, book'.ledger[turns'[i].run], turns'[i].applied)
    BY <1>3, <2>1, <2>2 DEF Goes
  <2>4. turns'[top + 1].heard = <<>>
    BY <2>1, ChildIs
  <2>5. \A i \in DOMAIN turns' : i \in DOMAIN turns \/ i = top + 1
    BY <2>1
  <2> QED
    BY <1>1, <2>3, <2>4, <2>5 DEF HeardInv
<1>7. CASE StepHead /\ Hears
  <2>1. turns # <<>> /\ LedgerGrows
    BY <1>7, HeadSplits, StepHeadEffect
  <2>2. /\ DOMAIN turns' = DOMAIN turns
        /\ \A i \in DOMAIN turns : i # top => turns'[i] = turns[i]
        /\ turns'[top].heard = turn.heard \o Told(Pending)
        /\ turns'[top].applied = turn.applied \cup Ids(Pending)
        /\ turns'[top].run = turn.run
    BY <1>7, <2>1, HearsEffect
  <2>3. ASSUME NEW i \in DOMAIN turns, i # top
        PROVE  IsInjective(turns'[i].heard) /\ HeardOf(turns'[i].heard, book'.ledger[turns'[i].run], turns'[i].applied)
    BY <1>3, <2>1, <2>2, <2>3 DEF Goes
  <2> DEFINE events == book.ledger[turn.run]
  <2>4. top \in DOMAIN turns /\ turn.run \in Runs /\ turn.heard \in Seq(What) /\ turns \in Seq(Turns) /\ book \in Books
    BY <2>1, InATurn DEF Turns
  <2>5. /\ IsInjective(turn.heard) /\ HeardOf(turn.heard, events, turn.applied)
        /\ ToldApart(events, steers)
    BY <2>4 DEF HeardInv, ToldInv, turn
  <2>6. events \in Seq(Ev)
    BY <2>4 DEF Books
  <2>7. PICK n \in Nat : \E f \in [1 .. n -> DOMAIN events] :
          /\ Pending = [k \in 1 .. n |-> events[f[k]]]
          /\ \A k, m \in 1 .. n : f[k] = f[m] => k = m
          /\ \A k \in 1 .. n : events[f[k]].kind = "steer" /\ events[f[k]].id \notin turn.applied
    BY <2>1, <2>4, PendingSteers, Zenon
  <2>8. PICK f \in [1 .. n -> DOMAIN events] :
          /\ Pending = [k \in 1 .. n |-> events[f[k]]]
          /\ \A k, m \in 1 .. n : f[k] = f[m] => k = m
          /\ \A k \in 1 .. n : events[f[k]].kind = "steer" /\ events[f[k]].id \notin turn.applied
    BY <2>7
  <2> HIDE DEF events
  <2> DEFINE p == Pending
  <2>9. p = [k \in 1 .. n |-> events[f[k]]]
    BY <2>8
  <2> HIDE DEF p
  <2>10. /\ IsInjective(turn.heard \o Told(p))
         /\ HeardOf(turn.heard \o Told(p), events, turn.applied \cup Ids(p))
    <3>1. Picks(f, n, events, turn.applied)
      BY <2>8 DEF Picks
    <3> QED
      BY <2>4, <2>5, <2>6, <2>9, <3>1, HearsOnce, Zenon
  <2>11. PICK more \in Seq(Ev) : book'.ledger[turn.run] = events \o more
    BY <2>1, <2>4, EachLedgerGrows DEF events
  <2>12. HeardOf(turn.heard \o Told(p), events \o more, turn.applied \cup Ids(p))
    BY <2>6, <2>10, StillHeard
  <2>13. /\ IsInjective(turns'[top].heard)
         /\ HeardOf(turns'[top].heard, book'.ledger[turns'[top].run], turns'[top].applied)
    BY <2>2, <2>10, <2>11, <2>12 DEF p
  <2> QED
    BY <2>2, <2>3, <2>13 DEF HeardInv
<1>8. CASE TurnsGo /\ (Replay \/ NewSession \/ Crash)
  <2>1. turns' = <<>>
    BY <1>8, ReplaySplits, NewSessionEffect, CrashEffect
  <2> QED
    BY <1>2, <2>1
<1>9. NewSession \/ Crash \/ Replay => TurnsGo
  BY NewSessionEffect, CrashEffect, ReplayEffect
<1> QED
  BY <1>4, <1>5, <1>6, <1>7, <1>8, <1>9, EveryStep

\* A turn hears an instruction once, whoever repeats the steering events of its run.
LEMMA NothingHeardTwice == ASSUME HeardInv PROVE HeardOnce
BY DEF HeardInv, HeardOnce

-----------------------------------------------------------------------------
(* The tree of a prompt.                                                   *)

\* Only a call carries records, and only a turn that began a step is past its head.
Fit(t) ==
  /\ t.at # "call" => t.carries = <<>>
  /\ t.steps <= t.limit /\ (t.at # "head" => t.steps >= 1)

\* The prompt's own turn, and a child's.
Own(t) ==
  /\ t.limit = MaxSteps /\ t.mayDelegate = DelegationLimit
  /\ t.at = "delegating" => t.delegated >= 1 /\ t.delegated <= DelegationLimit

Childs(t) == t.limit <= MaxSteps /\ t.mayDelegate = 0 /\ t.at # "delegating"

\* The delegations of a turn that are over; one beyond the limit never began.
Done(t) ==
  IF t.at = "delegating" THEN t.delegated - 1
  ELSE IF t.delegated <= DelegationLimit THEN t.delegated ELSE DelegationLimit

\* The steps the turns took, had every child that is over taken all it may.
Used == turns[1].steps + MaxSteps * Done(turns[1]) + (IF top = 2 THEN turns[2].steps ELSE 0)

TreeInv ==
  /\ \A i \in DOMAIN turns : Fit(turns[i])
  /\ turns # <<>> => top \in {1, 2} /\ Own(turns[1]) /\ acts <= Used
  /\ top = 2 => turns[1].at = "delegating" /\ Childs(turns[2])
  /\ turns = <<>> => acts <= MaxSteps * (1 + DelegationLimit) /\ (prompt # Idle => acts = 0)

LEMMA Times ==
  ASSUME NEW s \in Nat, NEW d \in Nat
  PROVE  /\ s * d \in Nat /\ s * (d + 1) = s * d + s /\ s * 0 = 0 /\ s * (1 + d) = s + s * d
         /\ \A e \in Nat : d <= e => s * d <= s * e
<1>1. s * d \in Nat /\ s * (d + 1) = s * d + s /\ s * 0 = 0 /\ s * (1 + d) = s + s * d
  OBVIOUS
<1>2. ASSUME NEW e \in Nat, d <= e PROVE s * d <= s * e
  <2>1. PICK k \in Nat : e = d + k
    BY <1>2
  <2>2. s * e = s * d + s * k /\ s * k \in Nat
    BY <2>1
  <2> QED
    BY <1>1, <2>2
<1> QED
  BY <1>1, <1>2

LEMMA Limits == MaxSteps \in Nat /\ MaxSteps >= 1 /\ DelegationLimit \in Nat
BY SessionAssumption

LEMMA DoneIsANumber ==
  ASSUME NEW t \in Turns, Own(t)
  PROVE  Done(t) \in Nat /\ Done(t) <= DelegationLimit /\ (t.at = "delegating" => Done(t) + 1 <= DelegationLimit)
<1>1. t.delegated \in Nat /\ DelegationLimit \in Nat
  BY Limits, TurnNumbers
<1> QED
  BY <1>1 DEF Done, Own

\* The prompt's own turn and its child.
LEMMA TreeTurns ==
  ASSUME TypeInv, TreeInv, turns # <<>>
  PROVE  /\ turns[1] \in Turns /\ Own(turns[1]) /\ Fit(turns[1]) /\ 1 \in DOMAIN turns /\ acts \in Nat
         /\ top \in {1, 2} /\ DOMAIN turns = 1 .. top
         /\ top = 1 => turn = turns[1]
         /\ top = 2 => turn = turns[2] /\ turns[2] \in Turns /\ Fit(turns[2]) /\ Childs(turns[2])
                      /\ turns[1].at = "delegating"
<1>1. top \in {1, 2} /\ DOMAIN turns = 1 .. top /\ \A i \in DOMAIN turns : turns[i] \in Turns
  BY InATurn DEF TreeInv
<1>2. 1 \in DOMAIN turns /\ (top = 2 => 2 \in DOMAIN turns)
  BY <1>1
<1> QED
  BY <1>1, <1>2 DEF TreeInv, turn, TypeInv, Typed

LEMMA TreeIsSized ==
  ASSUME TypeInv, TreeInv
  PROVE  acts <= MaxSteps * (1 + DelegationLimit)
<1>1. CASE turns # <<>>
  <2> DEFINE t == turns[1]
             c == IF top = 2 THEN turns[2].steps ELSE 0
  <2>1. /\ t \in Turns /\ Own(t) /\ Fit(t) /\ acts \in Nat
        /\ top = 2 => turns[2] \in Turns /\ Fit(turns[2]) /\ Childs(turns[2]) /\ t.at = "delegating"
    BY <1>1, TreeTurns
  <2>2. t.steps \in Nat /\ t.steps <= MaxSteps
    BY <2>1, TurnNumbers, Limits DEF Fit, Own
  <2>3. c \in Nat /\ c <= MaxSteps /\ (c = 0 \/ t.at = "delegating")
    BY <2>1, TurnNumbers, Limits DEF Fit, Childs
  <2>4. Done(t) \in Nat /\ Done(t) <= DelegationLimit /\ (t.at = "delegating" => Done(t) + 1 <= DelegationLimit)
    BY <2>1, DoneIsANumber
  <2>5. acts <= t.steps + MaxSteps * Done(t) + c
    BY <1>1 DEF TreeInv, Used
  <2> DEFINE d == Done(t)
             m == MaxSteps * d
             e == MaxSteps * DelegationLimit
  <2>6. /\ m \in Nat /\ e \in Nat /\ m <= e /\ MaxSteps * (1 + DelegationLimit) = MaxSteps + e
        /\ d + 1 <= DelegationLimit => m + MaxSteps <= e
    <3> HIDE DEF d
    <3>1. MaxSteps \in Nat /\ DelegationLimit \in Nat /\ d \in Nat /\ d + 1 \in Nat /\ d <= DelegationLimit
      BY <2>4, Limits DEF d
    <3>2. /\ MaxSteps * d \in Nat /\ MaxSteps * (d + 1) = MaxSteps * d + MaxSteps
          /\ MaxSteps * d <= MaxSteps * DelegationLimit
      BY <3>1, Times
    <3>3. d + 1 <= DelegationLimit => MaxSteps * (d + 1) <= MaxSteps * DelegationLimit
      BY <3>1, Times
    <3>4. MaxSteps * DelegationLimit \in Nat /\ MaxSteps * (1 + DelegationLimit) = MaxSteps + MaxSteps * DelegationLimit
      BY <3>1, Times
    <3> QED
      BY <3>2, <3>3, <3>4
  <2>7. t.steps + m + c <= MaxSteps + e
    <3>1. t.steps <= MaxSteps /\ m + c <= e
      <4>1. CASE c = 0
        BY <2>2, <2>6, <4>1
      <4>2. CASE t.at = "delegating"
        <5>1. m + MaxSteps <= e
          BY <2>4, <2>6, <4>2
        <5> HIDE DEF m, e, c
        <5> QED
          BY <2>2, <2>3, <2>6, <5>1, Limits
      <4> QED
        BY <2>3, <4>1, <4>2
    <3> HIDE DEF m, e, c
    <3> QED
      BY <2>2, <2>3, <2>6, <3>1, Limits
  <2>8. acts <= t.steps + m + c
    BY <2>5
  <2> HIDE DEF m, e, c
  <2> QED
    BY <2>1, <2>2, <2>3, <2>6, <2>7, <2>8, Limits
<1>2. CASE turns = <<>>
  BY <1>2 DEF TreeInv
<1> QED
  BY <1>1, <1>2

\* The turn on top goes on, by k steps.
LEMMA SetTree ==
  ASSUME TypeInv, TreeInv, turns # <<>>, turns' \in Seq(Turns), DOMAIN turns' = DOMAIN turns,
         \A i \in DOMAIN turns : i # top => turns'[i] = turns[i],
         NEW k \in Nat, acts' = acts + k, NEW t \in Turns, t = turns'[top], t.steps = turn.steps + k,
         t.limit = turn.limit, t.mayDelegate = turn.mayDelegate, Fit(t),
         top = 1 => Own(t) /\ Done(turn) <= Done(t),
         top = 2 => t.at # "delegating"
  PROVE  TreeInv'
<1>1. /\ turns[1] \in Turns /\ Own(turns[1]) /\ 1 \in DOMAIN turns /\ acts \in Nat
      /\ top \in {1, 2} /\ DOMAIN turns = 1 .. top
      /\ top = 1 => turn = turns[1]
      /\ top = 2 => turn = turns[2] /\ turns[2] \in Turns /\ Childs(turns[2]) /\ turns[1].at = "delegating"
  BY TreeTurns
<1>2. top' = top /\ turns' # <<>>
  BY <1>1 DEF top
<1>3. \A i \in DOMAIN turns' : Fit(turns'[i])
  BY DEF TreeInv
<1>4. /\ Own(turns'[1]) /\ (top = 2 => turns'[1].at = "delegating" /\ Childs(turns'[2]))
  BY <1>1 DEF Childs
<1>5. acts' <= turns'[1].steps + MaxSteps * Done(turns'[1]) + (IF top = 2 THEN turns'[2].steps ELSE 0)
  <2> DEFINE d == MaxSteps * Done(turns[1])
             e == MaxSteps * Done(turns'[1])
  <2>1. d \in Nat /\ e \in Nat /\ d <= e
    <3>1. turns'[1] \in Turns
      BY <1>1
    <3>2. Done(turns[1]) \in Nat /\ Done(turns'[1]) \in Nat
      BY <1>1, <1>4, <3>1, DoneIsANumber
    <3>3. Done(turns[1]) <= Done(turns'[1])
      BY <1>1, <3>2
    <3> QED
      BY <3>2, <3>3, Limits, Times
  <2>2. acts <= turns[1].steps + d + (IF top = 2 THEN turns[2].steps ELSE 0)
    BY DEF TreeInv, Used
  <2>3. turns[1].steps \in Nat /\ t.steps \in Nat /\ turn.steps \in Nat
    BY <1>1, InATurn, TurnNumbers
  <2> HIDE DEF d, e
  <2>4. CASE top = 1
    BY <1>1, <2>1, <2>2, <2>3, <2>4 DEF e
  <2>5. CASE top = 2
    <3>1. turns'[1] = turns[1] /\ d = e
      BY <1>1, <2>5 DEF d, e
    <3> QED
      BY <1>1, <2>1, <2>2, <2>3, <2>5, <3>1 DEF e
  <2> QED
    BY <1>1, <2>4, <2>5
<1> QED
  BY <1>1, <1>2, <1>3, <1>4, <1>5 DEF TreeInv, Used, turn

\* The turn on top is over: a child was done within its limit, and the prompt is answered.
LEMMA LeavesTree ==
  ASSUME TypeInv, TreeInv, turns # <<>>, NEW b \in Books, Leaves(b), UNCHANGED acts
  PROVE  TreeInv'
<1>1. /\ turns[1] \in Turns /\ Own(turns[1]) /\ Fit(turns[1]) /\ acts \in Nat
      /\ top \in {1, 2} /\ DOMAIN turns = 1 .. top
      /\ top = 2 => turns[2] \in Turns /\ Fit(turns[2]) /\ Childs(turns[2]) /\ turns[1].at = "delegating"
  BY TreeTurns
<1>2. CASE Pops
  <2> DEFINE t == [turns[1] EXCEPT !.at = "head"]
  <2>1. top = 2
    BY <1>1, <1>2 DEF Pops
  <2>2. turns' \in Seq(Turns) /\ turns' # <<>> /\ DOMAIN turns' = {1} /\ turns'[1] = t
    BY <1>2, <2>1 DEF Pops
  <2>3. top' = 1
    BY <2>2 DEF top
  <2>4. /\ t \in Turns /\ t.steps = turns[1].steps /\ t.limit = turns[1].limit /\ t.at = "head"
        /\ t.mayDelegate = turns[1].mayDelegate /\ t.delegated = turns[1].delegated /\ t.carries = turns[1].carries
    BY <1>1 DEF Turns
  <2> HIDE DEF t
  <2>5. Fit(t) /\ Own(t)
    BY <1>1, <2>1, <2>4 DEF Fit, Own
  <2>6. Done(t) = Done(turns[1]) + 1 /\ Done(turns[1]) \in Nat
    BY <1>1, <2>1, <2>4, TurnNumbers, DoneIsANumber DEF Done, Own
  <2>7. acts <= t.steps + MaxSteps * Done(t)
    <3> DEFINE d == MaxSteps * Done(turns[1])
               e == MaxSteps * Done(t)
    <3>1. d \in Nat /\ e = d + MaxSteps
      BY <2>6, Limits, Times
    <3>2. acts <= turns[1].steps + d + turns[2].steps
      BY <2>1 DEF TreeInv, Used
    <3>3. turns[1].steps \in Nat /\ turns[2].steps \in Nat /\ turns[2].steps <= MaxSteps
      BY <1>1, <2>1, TurnNumbers, Limits DEF Fit, Childs
    <3> HIDE DEF d, e
    <3>4. acts <= t.steps + e
      BY <1>1, <2>4, <3>1, <3>2, <3>3, Limits
    <3> QED
      BY <3>4 DEF e
  <2>8. t.steps \in Nat /\ MaxSteps * Done(t) \in Nat
    <3>1. Done(t) \in Nat
      BY <2>6
    <3> QED
      BY <2>4, <3>1, TurnNumbers, Limits, Times
  <2> DEFINE f == MaxSteps * Done(t)
  <2>9. acts <= t.steps + f + 0
    BY <2>7, <2>8
  <2> HIDE DEF f
  <2> QED
    BY <2>2, <2>3, <2>5, <2>9 DEF TreeInv, Used, f
<1>3. CASE turns' = <<>> /\ prompt' = Idle
  <2>1. acts <= MaxSteps * (1 + DelegationLimit)
    BY TreeIsSized
  <2> QED
    BY <1>3, <2>1 DEF TreeInv, top
<1> QED
  BY <1>2, <1>3 DEF Leaves

LEMMA OutcomeTree ==
  ASSUME TypeInv, TreeInv, turns # <<>>, NEW st \in Statuses, Abandons \/ Ends(st), UNCHANGED acts
  PROVE  TreeInv'
<1>1. Leaves(book) /\ book \in Books
  BY EndsEffect, InATurn
<1> QED
  BY <1>1, LeavesTree

LEMMA WithinTree ==
  ASSUME TypeInv, TreeInv,
         (StepHead /\ Hears) \/ BeginCall \/ LoseCall \/ Delegate \/ NoChild
  PROVE  TreeInv'
<1>1. turns # <<>> /\ 0 \in Nat /\ 1 \in Nat
  BY DEF StepHead, BeginCall, LoseCall, Delegate, NoChild, Decides
<1>2. /\ turn \in Turns /\ Fit(turn) /\ acts \in Nat /\ acts + 0 = acts /\ turns \in Seq(Turns) /\ top \in DOMAIN turns
      /\ turn.steps \in Nat /\ turn.steps + 0 = turn.steps /\ turn.delegated \in Nat
      /\ turn.delegated + 1 \in Nat /\ turn.steps + 1 \in Nat /\ turn.limit \in Nat
      /\ top \in {1, 2} /\ (top = 1 => Own(turn)) /\ (top = 2 => Childs(turn))
  BY <1>1, InATurn, TreeTurns, TurnNumbers
<1>3. ASSUME NEW t \in Turns, Sets(t), UNCHANGED acts, t.steps = turn.steps, t.limit = turn.limit,
             t.mayDelegate = turn.mayDelegate, Fit(t),
             top = 1 => Own(t) /\ Done(turn) <= Done(t), top = 2 => t.at # "delegating"
      PROVE  TreeInv'
  <2>1. /\ turns' \in Seq(Turns) /\ DOMAIN turns' = DOMAIN turns
        /\ \A i \in DOMAIN turns : turns'[i] = IF i = top THEN t ELSE turns[i]
    BY <1>1, <1>2, <1>3, SetsEffect, Zenon
  <2>2. t = turns'[top] /\ (\A i \in DOMAIN turns : i # top => turns'[i] = turns[i]) /\ acts' = acts + 0
    BY <1>2, <1>3, <2>1
  <2> QED
    BY <1>1, <1>2, <1>3, <2>1, <2>2, SetTree
<1>4. CASE StepHead /\ Hears
  <2>1. turn.at = "head" /\ turn.steps < turn.limit /\ acts' = acts + 1
    BY <1>4 DEF StepHead, Hears
  <2> DEFINE t == turns'[top]
  <2>2. /\ turns' \in Seq(Turns) /\ DOMAIN turns' = DOMAIN turns
        /\ \A i \in DOMAIN turns : i # top => turns'[i] = turns[i]
        /\ t.limit = turn.limit /\ t.mayDelegate = turn.mayDelegate /\ t.delegated = turn.delegated
        /\ t.carries = turn.carries /\ t.at = "act" /\ t.steps = turn.steps + 1
    BY <1>1, <1>4, HearsEffect
  <2>3. t \in Turns
    BY <1>2, <2>2
  <2> HIDE DEF t
  <2>4. Fit(t)
    BY <1>2, <2>1, <2>2 DEF Fit
  <2>5. top = 1 => Own(t) /\ Done(turn) <= Done(t)
    BY <1>2, <2>1, <2>2, Limits DEF Own, Done
  <2> QED
    <3>1. t = turns'[top]
      BY DEF t
    <3>2. top = 2 => t.at # "delegating"
      BY <2>2
    <3>3. acts' = acts + 1 /\ t.steps = turn.steps + 1 /\ t.limit = turn.limit /\ t.mayDelegate = turn.mayDelegate
      BY <2>1, <2>2
    <3> QED
      BY <1>1, <2>2, <2>3, <2>4, <2>5, <3>1, <3>2, <3>3, SetTree
<1>5. CASE BeginCall
  <2> DEFINE c == Writes(book, turn.run, <<Event("call", <<>>, calls + 1)>>).tail[turn.run]
             t == [turn EXCEPT !.at = "call", !.carries = c]
  <2>1. turn.at = "act" /\ Sets(t) /\ UNCHANGED acts
    BY <1>5 DEF BeginCall, Decides
  <2>2. c \in Seq(Nat)
    <3>1. <<Event("call", <<>>, calls + 1)>> \in Seq(Ev) /\ book \in Books /\ turn.run \in Runs
      BY <1>1, InATurn, CallIsAnEvent
    <3>2. Writes(book, turn.run, <<Event("call", <<>>, calls + 1)>>) \in Books
      BY <3>1, WritesEffect
    <3>3. \A w \in Books : w.tail[turn.run] \in Seq(Nat)
      BY <3>1 DEF Books
    <3> QED
      BY <3>2, <3>3
  <2> HIDE DEF c
  <2>3. /\ t \in Turns /\ t.steps = turn.steps /\ t.limit = turn.limit /\ t.mayDelegate = turn.mayDelegate
        /\ t.delegated = turn.delegated /\ t.at = "call"
    BY <1>2, <2>2 DEF Turns
  <2> HIDE DEF t
  <2>4. Fit(t) /\ (top = 1 => Own(t) /\ Done(turn) <= Done(t)) /\ t.at # "delegating"
    BY <1>2, <2>1, <2>3, Limits DEF Fit, Own, Done
  <2> QED
    BY <1>3, <2>1, <2>3, <2>4
<1>6. CASE LoseCall
  <2> DEFINE t == [turn EXCEPT !.at = "head", !.carries = <<>>]
  <2>1. turn.at = "call" /\ Sets(t) /\ UNCHANGED acts
    BY <1>6 DEF LoseCall
  <2>2. /\ t \in Turns /\ t.steps = turn.steps /\ t.limit = turn.limit /\ t.mayDelegate = turn.mayDelegate
        /\ t.delegated = turn.delegated /\ t.at = "head" /\ t.carries = <<>>
    BY <1>1, <1>2, BackAtTheHead DEF Turns
  <2> HIDE DEF t
  <2>3. Fit(t) /\ (top = 1 => Own(t) /\ Done(turn) <= Done(t)) /\ t.at # "delegating"
    BY <1>2, <2>1, <2>2, Limits DEF Fit, Own, Done
  <2> QED
    BY <1>3, <2>1, <2>2, <2>3
<1>7. CASE Delegate
  <2>1. /\ turn.at = "act" /\ UNCHANGED acts
        /\ \/ turn.delegated < turn.mayDelegate /\ Sets([turn EXCEPT !.at = "delegating", !.delegated = @ + 1])
           \/ Sets([turn EXCEPT !.at = "head", !.delegated = @ + 1])
    BY <1>7, Zenon DEF Delegate, Decides
  <2>2. PICK at \in {"delegating", "head"} :
          /\ Sets([turn EXCEPT !.at = at, !.delegated = @ + 1])
          /\ at = "delegating" => turn.delegated < turn.mayDelegate
    BY <2>1
  <2> DEFINE t == [turn EXCEPT !.at = at, !.delegated = @ + 1]
  <2>3. /\ t \in Turns /\ t.steps = turn.steps /\ t.limit = turn.limit /\ t.mayDelegate = turn.mayDelegate
        /\ t.delegated = turn.delegated + 1 /\ t.at = at /\ t.carries = turn.carries
    BY <1>2 DEF Turns
  <2> HIDE DEF t
  <2>4. Fit(t)
    BY <1>2, <2>1, <2>3 DEF Fit
  <2>5. top = 1 => Own(t) /\ Done(turn) <= Done(t)
    BY <1>2, <2>1, <2>2, <2>3, Limits DEF Own, Done
  <2>6. top = 2 => t.at # "delegating"
    BY <1>2, <2>2, <2>3 DEF Childs
  <2> QED
    BY <1>3, <2>1, <2>2, <2>3, <2>4, <2>5, <2>6 DEF t
<1>8. CASE NoChild
  <2> DEFINE t == [turn EXCEPT !.at = "head"]
  <2>1. turn.at = "delegating" /\ Sets(t) /\ UNCHANGED acts
    BY <1>8 DEF NoChild
  <2>2. /\ t \in Turns /\ t.steps = turn.steps /\ t.limit = turn.limit /\ t.mayDelegate = turn.mayDelegate
        /\ t.delegated = turn.delegated /\ t.at = "head" /\ t.carries = turn.carries
    BY <1>2 DEF Turns
  <2> HIDE DEF t
  <2>3. Fit(t) /\ (top = 1 => Own(t) /\ Done(turn) <= Done(t)) /\ t.at # "delegating"
    BY <1>2, <2>1, <2>2, Limits DEF Fit, Own, Done
  <2> QED
    BY <1>3, <2>1, <2>2, <2>3
<1> QED
  BY <1>4, <1>5, <1>6, <1>7, <1>8

LEMMA AnswersTree ==
  ASSUME TypeInv, TreeInv, turns' = <<>>, prompt' = Idle \/ acts' = 0, UNCHANGED acts \/ acts' = 0
  PROVE  TreeInv'
<1>1. acts <= MaxSteps * (1 + DelegationLimit) /\ 0 <= MaxSteps * (1 + DelegationLimit)
  BY TreeIsSized, Limits, Times
<1> QED
  BY <1>1 DEF TreeInv, top

LEMMA AnswerCallTree == ASSUME TypeInv, TreeInv, AnswerCall PROVE TreeInv'
<1> DEFINE b == Brings(book, turn.run, turn.carries)
           t == [turn EXCEPT !.at = "head", !.carries = <<>>]
<1>1. /\ turns # <<>> /\ turn.at = "call" /\ UNCHANGED acts
      /\ Sets(t) \/ (\E st \in Waiting : Returns(Notes(b, turn.run)))
  BY DEF AnswerCall
<1>2. b \in Books /\ b.observing
  BY <1>1, ArrivedEffect
<1> HIDE DEF b
<1>3. CASE Returns(Notes(b, turn.run))
  <2>1. Leaves(b)
    BY <1>1, <1>2, <1>3, InATurn, ReturnsLeaves
  <2> QED
    BY <1>1, <1>2, <2>1, LeavesTree
<1>4. CASE Sets(t)
  <2>1. /\ turn \in Turns /\ Fit(turn) /\ acts \in Nat /\ turns \in Seq(Turns) /\ top \in DOMAIN turns
        /\ turn.steps \in Nat /\ turn.delegated \in Nat
        /\ top \in {1, 2} /\ (top = 1 => Own(turn))
    BY <1>1, InATurn, TreeTurns, TurnNumbers
  <2>2. /\ t \in Turns /\ t.steps = turn.steps /\ t.limit = turn.limit /\ t.mayDelegate = turn.mayDelegate
        /\ t.delegated = turn.delegated /\ t.at = "head" /\ t.carries = <<>>
    BY <1>1, <2>1, BackAtTheHead DEF Turns
  <2> HIDE DEF t
  <2>3. Fit(t) /\ (top = 1 => Own(t) /\ Done(turn) <= Done(t)) /\ t.at # "delegating"
    BY <1>1, <2>1, <2>2, Limits DEF Fit, Own, Done
  <2>4. /\ turns' \in Seq(Turns) /\ DOMAIN turns' = DOMAIN turns
        /\ \A i \in DOMAIN turns : turns'[i] = IF i = top THEN t ELSE turns[i]
    BY <1>1, <1>4, <2>1, <2>2, SetsEffect, Zenon
  <2>5. t = turns'[top] /\ (\A i \in DOMAIN turns : i # top => turns'[i] = turns[i])
    BY <2>1, <2>4
  <2>6. 0 \in Nat /\ acts' = acts + 0 /\ t.steps = turn.steps + 0
    BY <1>1, <2>1, <2>2
  <2> QED
    BY <1>1, <2>2, <2>3, <2>4, <2>5, <2>6, SetTree
<1> QED
  BY <1>1, <1>3, <1>4

LEMMA LaunchChildTree == ASSUME TypeInv, TreeInv, LaunchChild PROVE TreeInv'
<1>1. /\ turns # <<>> /\ turn.at = "delegating" /\ UNCHANGED <<prompt, acts>>
  BY DEF LaunchChild
<1>2. /\ turns[1] \in Turns /\ Own(turns[1]) /\ Fit(turns[1]) /\ acts \in Nat /\ top = 1 /\ turn = turns[1]
      /\ turn.steps \in Nat /\ turn.limit \in Nat /\ MaxSteps \in Nat
  BY <1>1, TreeTurns, TurnNumbers, Limits DEF Childs
<1> DEFINE t == ChildTurn(turn, made + 1)
<1>3. /\ Len(turns') = 2 /\ DOMAIN turns' = 1 .. 2 /\ turns'[1] = turns[1] /\ turns'[2] = t /\ turns' # <<>>
  <2>1. /\ DOMAIN turns' = 1 .. (top + 1) /\ DOMAIN turns = 1 .. top /\ Len(turns') = top + 1
        /\ \A i \in DOMAIN turns : turns'[i] = turns[i]
        /\ turns'[top + 1] = t
    BY LaunchesChild
  <2> HIDE DEF t
  <2> QED
    BY <1>2, <2>1
<1>4. /\ t.at = "head" /\ t.steps = 0 /\ t.limit = Remaining(turn.limit, turn.steps - 1) /\ t.mayDelegate = 0
      /\ t.carries = <<>>
  BY ChildIs
<1> HIDE DEF t
<1>5. t.limit <= MaxSteps /\ t.limit \in Nat
  BY <1>1, <1>2, <1>4, Limits DEF Remaining, Fit, Own
<1>6. Fit(t) /\ Childs(t)
  BY <1>4, <1>5 DEF Fit, Childs
<1> DEFINE d == MaxSteps * Done(turns[1])
<1>7. acts <= turns[1].steps + d + 0
  <2>1. acts <= Used
    BY <1>1 DEF TreeInv
  <2> QED
    BY <1>2, <2>1 DEF Used
<1>8. acts <= turns'[1].steps + d + turns'[2].steps
  BY <1>3, <1>4, <1>7
<1>9. top' = 2 /\ turns'[1].at = "delegating"
  BY <1>1, <1>2, <1>3 DEF top
<1>10. acts' <= Used'
  BY <1>1, <1>3, <1>8, <1>9 DEF Used
<1> HIDE DEF d
<1>11. \A i \in DOMAIN turns' : Fit(turns'[i])
  BY <1>2, <1>3, <1>6
<1> QED
  BY <1>2, <1>3, <1>6, <1>9, <1>10, <1>11 DEF TreeInv

LEMMA LaunchTree == ASSUME TypeInv, TreeInv, Launch PROVE TreeInv'
<1>1. PICK r \in Runs : TakesRun(r) /\ (Begins(r) \/ IsRefused(r))
  BY LaunchSplits
<1>2. prompt.at = "launching" /\ UNCHANGED acts
  BY LaunchSplits
<1>3. CASE IsRefused(r)
  <2>1. turns' = <<>> /\ prompt' = Idle
    BY <1>3 DEF IsRefused, Answers
  <2> QED
    BY <1>2, <2>1, AnswersTree
<1>4. CASE Begins(r)
  <2> DEFINE t == turns'[1]
  <2>1. turns' \in Seq(Turns) /\ turns' # <<>> /\ DOMAIN turns' = {1}
    BY <1>2, <1>4, BeginsTurn
  <2>2. /\ t.at = "head" /\ t.steps = 0 /\ t.delegated = 0 /\ t.limit = MaxSteps
        /\ t.mayDelegate = DelegationLimit /\ t.carries = <<>>
    BY <1>2, <1>4, BeginsTurn, NewTurnIs
  <2>3. acts' = 0
    BY <1>2, NoTurnsYet, IdleIsTyped DEF TreeInv
  <2>4. top' = 1
    BY <2>1 DEF top
  <2> HIDE DEF t
  <2>5. Fit(t) /\ Own(t) /\ Done(t) = 0
    BY <2>2, Limits DEF Fit, Own, Done
  <2>6. MaxSteps * Done(t) = 0
    BY <2>5, Limits, Times
  <2>7. t.steps + MaxSteps * Done(t) + 0 = 0
    BY <2>2, <2>6
  <2> QED
    BY <2>1, <2>3, <2>4, <2>5, <2>7 DEF TreeInv, Used, t
<1> QED
  BY <1>1, <1>3, <1>4

LEMMA TreeStep ==
  ASSUME TypeInv, TreeInv, [Next]_vars
  PROVE  TreeInv'
<1>1. CASE StepHead \/ LosesItsContext \/ Finish
  <2>1. CASE StepHead /\ Hears
    BY <2>1, WithinTree
  <2>2. CASE turns # <<>> /\ UNCHANGED acts /\ \E st \in {"blocked", "completed"} : Abandons \/ Ends(st)
    BY <2>2, OutcomeTree, StatusesHold
  <2> QED
    BY <1>1, <2>1, <2>2, HeadSplits DEF LosesItsContext, Finish, Decides
<1>2. CASE BeginCall \/ LoseCall \/ Delegate \/ NoChild \/ AnswerCall
  BY <1>2, WithinTree, AnswerCallTree
<1>3. CASE Launch \/ LaunchChild
  BY <1>3, LaunchTree, LaunchChildTree
<1>4. CASE Prompt \/ Replay \/ IntakeOnly \/ Panic \/ NewSession \/ Crash
  <2>1. CASE Prompt \/ Replay
    <3>1. acts' = 0 /\ UNCHANGED turns /\ prompt = Idle
      BY <2>1 DEF Prompt, Replay, CanPrompt
    <3> QED
      BY <3>1, NoTurnsYet, IdleIsTyped, AnswersTree
  <2>2. CASE IntakeOnly \/ Panic \/ Crash
    <3>1. turns' = <<>> /\ prompt' = Idle /\ UNCHANGED acts
      BY <2>2, IntakeOnlySplits DEF Panic, Crash, Answers
    <3> QED
      BY <3>1, AnswersTree
  <2>3. CASE NewSession
    <3>1. turns' = <<>> /\ prompt' = Idle /\ UNCHANGED acts
      BY <2>3, NewSessionEffect DEF NewSession
    <3> QED
      BY <3>1, AnswersTree
  <2> QED
    BY <1>4, <2>1, <2>2, <2>3
<1>5. CASE Plan
  <2>1. turns = <<>> /\ prompt # Idle /\ UNCHANGED acts
    BY <1>5, PlanSplits, NoTurnsYet, IdleIsTyped
  <2>2. turns' = <<>>
    BY <1>5, <2>1, PlanSplits DEF PlansFromFacts, PlansFromRouter, PlansNothing, Answers
  <2> QED
    BY <2>1, <2>2, AnswersTree DEF TreeInv
<1>6. CASE CancelContext \/ CancelRun \/ Steer \/ CloseSession \/ UNCHANGED vars
  <2>1. UNCHANGED <<prompt, turns, acts>>
    BY <1>6 DEF CancelContext, CancelRun, Steer, CloseSession, vars
  <2> QED
    BY <2>1 DEF TreeInv, Used, top
<1> QED
  BY <1>1, <1>2, <1>3, <1>4, <1>5, <1>6, Zenon DEF Next

LEMMA TreeIsThatOfAPrompt == ASSUME TypeInv, TreeInv PROVE SizedTree
<1>1. acts <= MaxSteps * (1 + DelegationLimit)
  BY TreeIsSized
<1>2. ASSUME NEW i \in DOMAIN turns, turns[i].at = "delegating" PROVE i = 1
  <2>1. turns # <<>>
    OBVIOUS
  <2> QED
    BY <1>2, <2>1, TreeTurns DEF Childs
<1> QED
  BY <1>1, <1>2 DEF SizedTree

LEMMA InitTree == ASSUME Init PROVE TreeInv
<1>1. 0 <= MaxSteps * (1 + DelegationLimit)
  BY Limits, Times
<1> QED
  BY <1>1 DEF Init, TreeInv, top

-----------------------------------------------------------------------------
(* The records of a run go to the host in order.                           *)

Rising(s) == \A i, j \in DOMAIN s : i < j => s[i] < s[j]
Below(s, t) == \A i \in DOMAIN s : \A j \in DOMAIN t : s[i] < t[j]
Upto(s, n) == \A i \in DOMAIN s : s[i] <= n

\* What was brought, what is in flight and what waits, of n records sent.
InOrder(b, f, t, n) ==
  /\ Rising(b) /\ Rising(f) /\ Rising(t) /\ Below(b, f) /\ Below(b, t) /\ Below(f, t)
  /\ Upto(b, n) /\ Upto(f, n) /\ Upto(t, n)

\* What the call under way carries of r: only the turn on top has one.
Flight(r) == IF turns # <<>> /\ turn.run = r THEN turn.carries ELSE <<>>

StreamInv == \A r \in Runs : InOrder(book.brought[r], Flight(r), book.tail[r], book.sent[r])

Streams(b, c) == Still(b, c) \/ \E q \in Runs : \E k \in Nat : Queued(b, c, q, k)

LEMMA Nothing ==
  /\ Rising(<<>>) /\ \A n : Upto(<<>>, n) /\ \A s : Below(s, <<>>) /\ Below(<<>>, s)
BY DEF Rising, Upto, Below

LEMMA Appended ==
  ASSUME NEW s \in Seq(Nat), NEW t \in Seq(Nat), Rising(s), Rising(t), Below(s, t)
  PROVE  /\ Rising(s \o t) /\ s \o t \in Seq(Nat)
         /\ \A u \in Seq(Nat) : /\ Below(s, u) /\ Below(t, u) => Below(s \o t, u)
                                /\ Below(u, s) /\ Below(u, t) => Below(u, s \o t)
         /\ \A n \in Nat : Upto(s, n) /\ Upto(t, n) => Upto(s \o t, n)
<1> DEFINE all == s \o t
           l == Len(s)
           m == Len(t)
<1>1. /\ l \in Nat /\ m \in Nat /\ DOMAIN s = 1 .. l /\ DOMAIN t = 1 .. m
      /\ all \in Seq(Nat) /\ DOMAIN all = 1 .. (l + m)
      /\ \A i \in 1 .. l : all[i] = s[i]
      /\ \A i \in 1 .. (l + m) : i > l => i - l \in 1 .. m /\ all[i] = t[i - l]
  <2>1. l \in Nat /\ m \in Nat /\ DOMAIN s = 1 .. l /\ DOMAIN t = 1 .. m
    OBVIOUS
  <2>2. all \in Seq(Nat) /\ Len(all) = l + m
    OBVIOUS
  <2>3. \A i \in 1 .. (l + m) : all[i] = IF i <= l THEN s[i] ELSE t[i - l]
    OBVIOUS
  <2> HIDE DEF all, l, m
  <2> QED
    BY <2>1, <2>2, <2>3
<1> HIDE DEF all, l, m
<1>2. /\ \A i \in 1 .. l : s[i] \in Nat
      /\ \A i \in 1 .. m : t[i] \in Nat
  <2>1. \A u \in Seq(Nat) : \A i \in DOMAIN u : u[i] \in Nat
    OBVIOUS
  <2> QED
    BY <1>1, <2>1, Zenon
<1>3. Rising(all)
  <2>0. SUFFICES ASSUME NEW i \in DOMAIN all, NEW j \in DOMAIN all, i < j PROVE all[i] < all[j]
    BY DEF Rising
  <2>5. DOMAIN all = 1 .. (l + m)
    BY <1>1
  <2>1. i \in 1 .. (l + m) /\ j \in 1 .. (l + m) /\ i < j
    BY <2>0, <2>5
  <2>2. CASE j <= l
    <3>1. i \in 1 .. l /\ j \in 1 .. l
      BY <1>1, <2>1, <2>2
    <3>2. all[i] = s[i] /\ all[j] = s[j] /\ i \in DOMAIN s /\ j \in DOMAIN s
      BY <1>1, <3>1
    <3>3. \A x, y \in DOMAIN s : x < y => s[x] < s[y]
      BY DEF Rising
    <3>4. s[i] < s[j]
      BY <2>1, <3>2, <3>3
    <3> QED
      BY <3>2, <3>4
  <2>3. CASE i > l
    <3>1. i - l \in 1 .. m /\ j - l \in 1 .. m /\ i - l < j - l
      BY <1>1, <2>1, <2>3
    <3>2. all[i] = t[i - l] /\ all[j] = t[j - l]
      BY <1>1, <2>1, <2>3
    <3> QED
      BY <1>1, <3>1, <3>2 DEF Rising
  <2>4. CASE i <= l /\ j > l
    <3>1. i \in 1 .. l /\ j - l \in 1 .. m /\ all[i] = s[i] /\ all[j] = t[j - l]
      BY <1>1, <2>1, <2>4
    <3> QED
      BY <1>1, <3>1 DEF Below
  <2> QED
    BY <1>1, <2>1, <2>2, <2>3, <2>4
<1>4. \A i \in DOMAIN all : (\E j \in DOMAIN s : all[i] = s[j]) \/ (\E j \in DOMAIN t : all[i] = t[j])
  BY <1>1
<1> QED
  BY <1>1, <1>3, <1>4, Zenon DEF all, Below, Upto

\* The next k records of a run are the last of it.
LEMMA QueuedInOrder ==
  ASSUME NEW b \in Seq(Nat), NEW f \in Seq(Nat), NEW t \in Seq(Nat), NEW n \in Nat, NEW k \in Nat,
         InOrder(b, f, t, n)
  PROVE  InOrder(b, f, t \o [i \in 1 .. k |-> n + i], n + k)
<1> DEFINE s == [i \in 1 .. k |-> n + i]
<1>1. s \in Seq(Nat) /\ DOMAIN s = 1 .. k /\ (\A i \in 1 .. k : s[i] = n + i) /\ n + k \in Nat
  OBVIOUS
<1> HIDE DEF s
<1>2. Rising(s) /\ Upto(s, n + k)
  BY <1>1 DEF Rising, Upto
<1>3. ASSUME NEW u \in Seq(Nat), Upto(u, n) PROVE Below(u, s) /\ Upto(u, n + k)
  <2>1. \A i \in DOMAIN u : u[i] \in Nat /\ u[i] <= n
    BY <1>3 DEF Upto
  <2>2. \A i \in DOMAIN u : u[i] <= n + k
    BY <2>1
  <2>3. \A i \in DOMAIN u : \A j \in 1 .. k : u[i] < n + j
    BY <2>1
  <2> QED
    BY <1>1, <2>2, <2>3 DEF Below, Upto
<1>4. Below(b, s) /\ Below(f, s) /\ Below(t, s) /\ Upto(b, n + k) /\ Upto(f, n + k) /\ Upto(t, n + k)
  BY <1>3 DEF InOrder
<1>5. /\ Rising(t \o s) /\ Below(b, t \o s) /\ Below(f, t \o s) /\ Upto(t \o s, n + k)
  BY <1>1, <1>2, <1>4, Appended DEF InOrder
<1> QED
  BY <1>4, <1>5 DEF InOrder, s

LEMMA Loses ==
  ASSUME NEW b, NEW f, NEW t, NEW n, InOrder(b, f, t, n)
  PROVE  InOrder(b, <<>>, t, n) /\ InOrder(b, t, <<>>, n)
BY Nothing DEF InOrder

LEMMA BringsInOrder ==
  ASSUME NEW b \in Seq(Nat), NEW f \in Seq(Nat), NEW t \in Seq(Nat), NEW n \in Nat, InOrder(b, f, t, n)
  PROVE  InOrder(b \o f, <<>>, t, n)
<1>1. Rising(b \o f) /\ Below(b \o f, t) /\ Upto(b \o f, n)
  BY Appended DEF InOrder
<1> QED
  BY <1>1, Nothing DEF InOrder

\* The stream of a run goes on, and what is in flight may be lost.
LEMMA StreamsInOrder ==
  ASSUME NEW b \in Books, NEW c, Streams(b, c), NEW r \in Runs, NEW f \in Seq(Nat), NEW g \in {f, <<>>},
         InOrder(b.brought[r], f, b.tail[r], b.sent[r])
  PROVE  InOrder(c.brought[r], g, c.tail[r], c.sent[r])
<1>1. /\ b.brought[r] \in Seq(Nat) /\ b.tail[r] \in Seq(Nat) /\ b.sent[r] \in Nat
      /\ b.tail \in [Runs -> Seq(Nat)] /\ b.sent \in [Runs -> Nat]
  BY DEF Books
<1>2. InOrder(c.brought[r], f, c.tail[r], c.sent[r])
  <2>1. CASE c.brought = b.brought /\ c.tail = b.tail /\ c.sent = b.sent
    BY <2>1
  <2>2. ASSUME NEW q \in Runs, NEW k \in Nat, c.brought = b.brought,
               c.tail = [b.tail EXCEPT ![q] = @ \o Positions(b, q, k)], c.sent = [b.sent EXCEPT ![q] = @ + k]
        PROVE  InOrder(c.brought[r], f, c.tail[r], c.sent[r])
    <3>1. CASE q = r
      <4>1. c.tail[r] = b.tail[r] \o Positions(b, r, k) /\ c.sent[r] = b.sent[r] + k
        BY <1>1, <2>2, <3>1
      <4>2. InOrder(b.brought[r], f, b.tail[r] \o [i \in 1 .. k |-> b.sent[r] + i], b.sent[r] + k)
        BY <1>1, QueuedInOrder
      <4> QED
        BY <2>2, <4>1, <4>2 DEF Positions
    <3>2. CASE q # r
      BY <1>1, <2>2, <3>2
    <3> QED
      BY <3>1, <3>2
  <2> QED
    BY <2>1, <2>2, Zenon DEF Streams, Still, Queued
<1> QED
  BY <1>2, Loses

LEMMA WritesStream ==
  ASSUME NEW b \in Books, NEW r \in Runs, NEW events \in Seq(Ev)
  PROVE  Streams(b, Writes(b, r, events))
<1>1. Len(events) \in Nat /\ Queued(b, Writes(b, r, events), r, Len(events))
  BY WritesEffect
<1> QED
  BY <1>1, Zenon DEF Streams

LEMMA LeavesStream ==
  ASSUME TypeInv, turns # <<>>, NEW b \in Books, Leaves(b)
  PROVE  Streams(b, book')
<1>1. turn.run \in Runs /\ 1 \in Nat
  BY InATurn
<1> QED
  BY <1>1, Zenon DEF Leaves, Streams

\* In every step but those of a call the streams go on.
LEMMA StreamsGoOn ==
  ASSUME TypeInv, Stored, [Next]_vars, ~BeginCall, ~AnswerCall, ~NewSession, ~Crash
  PROVE  Streams(book, book')
<1>1. book \in Books /\ prompt \in Prompts
  BY DEF TypeInv, Typed
<1>2. CASE StepHead \/ LosesItsContext \/ Finish
  <2>1. turns # <<>>
    BY <1>2 DEF StepHead, LosesItsContext, Finish, Decides
  <2>2. CASE \E st \in {"blocked", "completed"} : Abandons \/ Ends(st)
    <3>1. Leaves(book)
      BY <2>1, <2>2, StatusesHold, EndsEffect
    <3> QED
      BY <1>1, <2>1, <3>1, LeavesStream
  <2>3. CASE Hears
    <3>1. book' = Writes(book, turn.run, Applications(Pending))
      BY <2>3 DEF Hears
    <3> QED
      BY <1>1, <2>1, <3>1, HeardTyped, InATurn, WritesStream
  <2> QED
    BY <1>2, <2>2, <2>3, HeadSplits DEF LosesItsContext, Finish
<1>3. CASE LoseCall \/ Delegate \/ NoChild
  <2>1. turns # <<>>
    BY <1>3 DEF LoseCall, Delegate, NoChild, Decides
  <2>2. book' = Notes(book, turn.run) \/ UNCHANGED book
    BY <1>3, Zenon DEF LoseCall, Delegate, NoChild
  <2>3. Still(book, book')
    BY <1>1, <2>1, <2>2, InATurn, NotesEffect DEF Still
  <2> QED
    BY <2>3 DEF Streams
<1>4. CASE LaunchChild
  <2>1. book' = Writes(book, made + 1, <<Note>>) /\ made + 1 \in Runs
    BY <1>4, LaunchesChild DEF LaunchChild
  <2> QED
    BY <1>1, <2>1, NoteIsAnEvent, WritesStream
<1>5. CASE Launch \/ IntakeOnly
  <2>1. prompt.level \in Levels
    BY <1>5, LaunchSplits, IntakeOnlySplits DEF TypeInv, Paired
  <2>2. PICK r \in Runs : /\ \/ book' = Writes(book, r, <<Note>>)
                             \/ Answers(Writes(book, r, <<Event("intake", <<>>, prompt.level)>>))
    BY <1>5, LaunchSplits, IntakeOnlySplits, Zenon DEF Begins, IsRefused
  <2>3. CASE book' = Writes(book, r, <<Note>>)
    BY <1>1, <2>3, NoteIsAnEvent, WritesStream
  <2>4. CASE Answers(Writes(book, r, <<Event("intake", <<>>, prompt.level)>>))
    <3> DEFINE e == Event("intake", <<>>, prompt.level)
               b == Writes(book, r, <<e>>)
    <3>1. e \in Ev
      <4>1. prompt.level \in What
        BY <2>1, SessionAssumption DEF What
      <4> QED
        BY <2>1, <4>1 DEF Event, Ev, Kinds, Id
    <3> HIDE DEF e
    <3>2. <<e>> \in Seq(Ev)
      BY <3>1
    <3>3. b \in Books /\ Streams(book, b)
      BY <1>1, <3>2, WritesEffect, WritesStream
    <3>4. Answers(b)
      BY <2>4 DEF e
    <3> HIDE DEF b
    <3>5. Still(b, book')
      BY <3>3, <3>4, AnswersEffect
    <3> QED
      BY <3>3, <3>5 DEF Streams, Still, Queued
  <2> QED
    BY <2>2, <2>3, <2>4
<1>6. CASE Prompt
  <2>1. PICK r : book' = [book EXCEPT !.observing = TRUE] \/ book' = [book EXCEPT !.current = r, !.observing = TRUE]
    BY <1>6, Zenon DEF Prompt
  <2> QED
    BY <1>1, <2>1 DEF Books, Streams, Still
<1>7. CASE Replay
  BY <1>7, ReplayedLedger DEF Streams
<1>8. CASE Plan \/ CancelRun
  BY <1>8, PlanEffect, CancelRunEffect DEF Streams
<1>9. CASE Panic
  <2>1. Answers(book)
    BY <1>9 DEF Panic
  <2> QED
    BY <1>1, <2>1, AnswersEffect DEF Streams
<1>10. CASE Steer
  <2> DEFINE e == Event("steer", <<0, steers + 1>>, steers + 1)
  <2>1. e \in Ev
    <3>1. <<0, steers + 1>> \in Id /\ steers + 1 \in What
      BY DEF Id, What, TypeInv, Typed
    <3> QED
      BY <3>1 DEF Event, Ev, Kinds
  <2>2. UNCHANGED book \/ (book.current # NoRun /\ book' = Writes(book, book.current, <<e>>))
    BY <1>10, Zenon DEF Steer
  <2> HIDE DEF e
  <2>3. <<e>> \in Seq(Ev) /\ (book.current # NoRun => book.current \in Runs)
    BY <1>1, <2>1 DEF Books
  <2>4. UNCHANGED book => Still(book, book')
    BY DEF Still
  <2> QED
    BY <1>1, <2>2, <2>3, <2>4, WritesStream DEF Streams
<1>11. CASE CancelContext \/ CloseSession \/ UNCHANGED vars
  <2>1. UNCHANGED book
    BY <1>11 DEF CancelContext, CloseSession, vars
  <2> QED
    BY <2>1 DEF Streams, Still
<1> QED
  BY <1>2, <1>3, <1>4, <1>5, <1>6, <1>7, <1>8, <1>9, <1>10, <1>11, Zenon DEF Next

LEMMA LeavesFlight ==
  ASSUME TypeInv, TreeInv, turns # <<>>, NEW b \in Books, Leaves(b), NEW r
  PROVE  Flight(r)' = <<>>
<1>1. /\ turns[1] \in Turns /\ Fit(turns[1]) /\ top \in {1, 2}
      /\ top = 2 => turns[1].at = "delegating"
  BY TreeTurns
<1>2. CASE Pops
  <2>1. top = 2
    BY <1>1, <1>2 DEF Pops
  <2>2. turns' \in Seq(Turns) /\ turns' # <<>> /\ DOMAIN turns' = {1} /\ turns'[1] = [turns[1] EXCEPT !.at = "head"]
    BY <1>2, <2>1 DEF Pops
  <2>3. top' = 1
    BY <2>2 DEF top
  <2>4. turns'[1].carries = <<>>
    BY <1>1, <2>1, <2>2 DEF Turns, Fit
  <2> QED
    BY <2>3, <2>4 DEF Flight, turn
<1>3. CASE turns' = <<>>
  BY <1>3 DEF Flight
<1> QED
  BY <1>2, <1>3 DEF Leaves

LEMMA FlightsEnd ==
  ASSUME TypeInv, TreeInv, TreeInv', TypeInv', [Next]_vars, ~BeginCall, NEW r \in Runs
  PROVE  Flight(r)' \in {Flight(r), <<>>}
<1>1. CASE turns' = <<>>
  BY <1>1 DEF Flight
<1>2. CASE UNCHANGED turns
  BY <1>2 DEF Flight, turn, top
<1>3. ASSUME turns' # <<>>, turn'.at # "call"
      PROVE  Flight(r)' = <<>>
  <2>1. turn' = turns'[top'] /\ top' \in DOMAIN turns'
    <3>1. top' = Len(turns') /\ turns' \in Seq(Turns) /\ turns' # <<>>
      BY <1>3 DEF top, TypeInv, Typed
    <3> QED
      BY <3>1 DEF turn
  <2>2. turn'.carries = <<>>
    BY <1>3, <2>1 DEF TreeInv, Fit
  <2> QED
    BY <2>2 DEF Flight
<1>4. ASSUME TypeInv, turns # <<>>, NEW t \in Turns, Sets(t), t.at # "call" PROVE Flight(r)' = <<>>
  <2>1. /\ turns' \in Seq(Turns) /\ DOMAIN turns' = DOMAIN turns /\ turns' # <<>>
        /\ \A i \in DOMAIN turns : turns'[i] = IF i = top THEN t ELSE turns[i]
    BY <1>4, InATurn, SetsEffect, Zenon
  <2>2. top' = top /\ top \in DOMAIN turns
    BY <1>4, <2>1, InATurn DEF top
  <2>3. turn' = t
    BY <2>1, <2>2 DEF turn
  <2> QED
    BY <1>3, <1>4, <2>1, <2>3
<1>5. CASE StepHead \/ LosesItsContext \/ Finish
  <2>1. turns # <<>> /\ book \in Books
    BY <1>5, InATurn DEF StepHead, LosesItsContext, Finish, Decides
  <2>2. CASE \E st \in {"blocked", "completed"} : Abandons \/ Ends(st)
    <3>1. Leaves(book)
      BY <2>1, <2>2, StatusesHold, EndsEffect
    <3> QED
      BY <2>1, <3>1, LeavesFlight
  <2>3. CASE Hears
    <3>1. turns' \in Seq(Turns) /\ turns' # <<>> /\ DOMAIN turns' = DOMAIN turns /\ turns'[top].at = "act"
      BY <2>1, <2>3, HearsEffect
    <3>2. top' = top
      BY <2>1, <3>1, InATurn DEF top
    <3> QED
      BY <1>3, <3>1, <3>2 DEF turn
  <2> QED
    BY <1>5, <2>2, <2>3, HeadSplits DEF LosesItsContext, Finish
<1>6. CASE LoseCall \/ Delegate \/ NoChild
  <2>1. turns # <<>> /\ turn \in Turns /\ turn.delegated + 1 \in Nat /\ <<>> \in Seq(Nat)
    BY <1>6, InATurn, TurnNumbers DEF LoseCall, Delegate, NoChild, Decides
  <2>2. \/ Sets([turn EXCEPT !.at = "head", !.carries = <<>>])
        \/ \E at \in {"delegating", "head"} : Sets([turn EXCEPT !.at = at, !.delegated = @ + 1])
        \/ Sets([turn EXCEPT !.at = "head"])
    BY <1>6, Zenon DEF LoseCall, Delegate, NoChild
  <2>3. \E t \in Turns : Sets(t) /\ t.at # "call"
    <3>1. [turn EXCEPT !.at = "head", !.carries = <<>>] \in Turns /\ [turn EXCEPT !.at = "head", !.carries = <<>>].at = "head"
      BY <2>1 DEF Turns
    <3>2. [turn EXCEPT !.at = "head"] \in Turns /\ [turn EXCEPT !.at = "head"].at = "head"
      BY <2>1 DEF Turns
    <3>3. ASSUME NEW at \in {"delegating", "head"}
          PROVE  /\ [turn EXCEPT !.at = at, !.delegated = @ + 1] \in Turns
                 /\ [turn EXCEPT !.at = at, !.delegated = @ + 1].at # "call"
      BY <2>1 DEF Turns
    <3>4. "head" # "call"
      OBVIOUS
    <3> QED
      BY <2>2, <3>1, <3>2, <3>3, <3>4, Zenon
  <2> QED
    BY <1>4, <2>1, <2>3
<1>7. CASE AnswerCall
  <2> DEFINE b == Brings(book, turn.run, turn.carries)
             t == [turn EXCEPT !.at = "head", !.carries = <<>>]
  <2>1. /\ turns # <<>>
        /\ Sets(t) \/ (\E st \in Waiting : Returns(Notes(b, turn.run)))
    BY <1>7 DEF AnswerCall
  <2>2. b \in Books /\ b.observing
    BY <2>1, ArrivedEffect
  <2>3. t \in Turns /\ t.at = "head"
    BY <2>1, BackAtTheHead, InATurn DEF Turns
  <2> HIDE DEF b, t
  <2>4. CASE Returns(Notes(b, turn.run))
    <3>1. Leaves(b)
      BY <2>1, <2>2, <2>4, InATurn, ReturnsLeaves
    <3> QED
      BY <2>1, <2>2, <3>1, LeavesFlight
  <2> QED
    BY <1>4, <2>1, <2>3, <2>4
<1>8. CASE Launch
  <2>1. PICK q \in Runs : TakesRun(q) /\ (Begins(q) \/ IsRefused(q))
    BY <1>8, LaunchSplits
  <2>2. CASE Begins(q)
    <3>1. prompt.at = "launching"
      BY <1>8, LaunchSplits
    <3>2. turns' \in Seq(Turns) /\ turns' # <<>> /\ DOMAIN turns' = {1} /\ turns'[1].at = "head"
      BY <2>2, <3>1, BeginsTurn, NewTurnIs
    <3>3. top' = 1
      BY <3>2 DEF top
    <3> QED
      BY <1>3, <3>2, <3>3 DEF turn
  <2>3. CASE IsRefused(q)
    BY <1>1, <2>3 DEF IsRefused, Answers
  <2> QED
    BY <2>1, <2>2, <2>3
<1>9. CASE LaunchChild
  <2>1. Len(turns') = top + 1 /\ turns'[top + 1].at = "head" /\ DOMAIN turns' = 1 .. (top + 1) /\ top \in Nat
    BY <1>9, LaunchesChild, ChildIs
  <2>2. turns' # <<>> /\ turn'.at = "head"
    BY <2>1 DEF turn, top
  <2> QED
    BY <1>3, <2>2
<1>10. CASE Plan \/ IntakeOnly \/ Panic \/ Crash
  <2>1. turns' = <<>> \/ UNCHANGED turns
    BY <1>10, PlanSplits, IntakeOnlySplits DEF PlansFromFacts, PlansFromRouter, PlansNothing, Panic, Crash, Answers
  <2> QED
    BY <1>1, <1>2, <2>1
<1>11. CASE Prompt \/ Replay \/ CancelContext \/ CancelRun \/ Steer \/ CloseSession \/ NewSession \/ UNCHANGED vars
  <2>1. UNCHANGED turns
    BY <1>11 DEF Prompt, Replay, CancelContext, CancelRun, Steer, CloseSession, NewSession, vars
  <2> QED
    BY <1>2, <2>1
<1> QED
  BY <1>5, <1>6, <1>7, <1>8, <1>9, <1>10, <1>11, Zenon DEF Next

LEMMA StreamStep ==
  ASSUME TypeInv, Stored, TreeInv, TreeInv', StreamInv, [Next]_vars
  PROVE  StreamInv'
<1>1. TypeInv' /\ book \in Books
  BY EveryStep DEF TypeInv, Typed
<1>2. ASSUME NEW r \in Runs PROVE Flight(r) \in Seq(Nat)
  <2>1. turns # <<>> => turn.carries \in Seq(Nat)
    BY InATurn DEF Turns
  <2> QED
    BY <2>1 DEF Flight
<1>3. CASE NewSession \/ Crash
  <2>1. book' = Fresh /\ turns' = <<>>
    BY <1>3, NewSessionEffect DEF NewSession, Crash
  <2>2. ASSUME NEW r \in Runs PROVE InOrder(book'.brought[r], Flight(r)', book'.tail[r], book'.sent[r])
    <3>1. book'.brought[r] = <<>> /\ book'.tail[r] = <<>>
      BY <2>1, FreshBook
    <3>2. Flight(r)' = <<>>
      BY <2>1 DEF Flight
    <3> QED
      BY <3>1, <3>2, Nothing DEF InOrder
  <2> QED
    BY <2>2 DEF StreamInv
<1>4. CASE BeginCall
  <2> DEFINE event == Event("call", <<>>, calls + 1)
             b == Writes(book, turn.run, <<event>>)
             t == [turn EXCEPT !.at = "call", !.carries = b.tail[turn.run]]
  <2>1. turns # <<>> /\ book' = Carries(b, turn.run) /\ Sets(t)
    BY <1>4 DEF BeginCall, Decides
  <2>2. <<event>> \in Seq(Ev) /\ turn.run \in Runs /\ turn \in Turns
    BY <2>1, CallIsAnEvent, InATurn
  <2> HIDE DEF event
  <2>3. b \in Books /\ Streams(book, b)
    BY <1>1, <2>2, WritesEffect, WritesStream
  <2> HIDE DEF b
  <2>4. /\ book'.tail = [b.tail EXCEPT ![turn.run] = <<>>] /\ book'.sent = b.sent /\ book'.brought = b.brought
        /\ b.tail \in [Runs -> Seq(Nat)]
    BY <2>1, <2>2, <2>3, CarriesEffect DEF Books
  <2>5. t \in Turns /\ t.run = turn.run /\ t.carries = b.tail[turn.run]
    BY <2>2, <2>4 DEF Turns
  <2> HIDE DEF t
  <2>6. turns' # <<>> /\ turn' = t
    <3>1. /\ turns' \in Seq(Turns) /\ DOMAIN turns' = DOMAIN turns /\ turns' # <<>>
          /\ \A i \in DOMAIN turns : turns'[i] = IF i = top THEN t ELSE turns[i]
      BY <2>1, <2>5, InATurn, SetsEffect, Zenon
    <3>2. top' = top /\ top \in DOMAIN turns
      BY <2>1, <3>1, InATurn DEF top
    <3> QED
      BY <3>1, <3>2 DEF turn
  <2>7. ASSUME NEW r \in Runs PROVE InOrder(book'.brought[r], Flight(r)', book'.tail[r], book'.sent[r])
    <3>1. InOrder(b.brought[r], Flight(r), b.tail[r], b.sent[r])
      <4>1. InOrder(book.brought[r], Flight(r), book.tail[r], book.sent[r])
        BY DEF StreamInv
      <4>2. Flight(r) \in Seq(Nat) /\ Flight(r) \in {Flight(r), <<>>}
        BY <1>2
      <4> QED
        BY <1>1, <2>3, <4>1, <4>2, StreamsInOrder
    <3>2. CASE r = turn.run
      <4>1. Flight(r)' = b.tail[r] /\ book'.tail[r] = <<>>
        BY <2>4, <2>5, <2>6, <3>2 DEF Flight
      <4> QED
        BY <2>4, <3>1, <4>1, Loses
    <3>3. CASE r # turn.run
      <4>1. Flight(r)' = <<>> /\ book'.tail[r] = b.tail[r]
        BY <2>4, <2>5, <2>6, <3>3 DEF Flight
      <4> QED
        BY <2>4, <3>1, <4>1, Loses
    <3> QED
      BY <3>2, <3>3
  <2> QED
    BY <2>7 DEF StreamInv
<1>5. CASE AnswerCall
  <2> DEFINE b == Brings(book, turn.run, turn.carries)
             t == [turn EXCEPT !.at = "head", !.carries = <<>>]
  <2>1. /\ turns # <<>>
        /\ \/ book' = Notes(b, turn.run) /\ Sets(t)
           \/ \E st \in Waiting : Returns(Notes(b, turn.run))
    BY <1>5 DEF AnswerCall
  <2>2. /\ b \in Books /\ b.observing /\ b.tail = book.tail /\ b.sent = book.sent
        /\ b.brought = [book.brought EXCEPT ![turn.run] = @ \o turn.carries]
        /\ turn.run \in Runs /\ turn.carries \in Seq(Nat) /\ book.brought \in [Runs -> Seq(Nat)]
        /\ book.tail \in [Runs -> Seq(Nat)] /\ book.sent \in [Runs -> Nat]
    <3>1. turn.run \in Runs /\ turn.carries \in Seq(Nat)
      BY <2>1, InATurn DEF Turns
    <3>2. /\ book.brought \in [Runs -> Seq(Nat)] /\ book.tail \in [Runs -> Seq(Nat)]
          /\ book.sent \in [Runs -> Nat]
      BY <1>1 DEF Books
    <3>3. b \in Books /\ b.observing
      BY <2>1, ArrivedEffect
    <3>4. b.tail = book.tail /\ b.sent = book.sent /\ BroughtTo(book, b, turn.run, turn.carries)
      <4>1. book \in Books
        BY <1>1
      <4> QED
        BY <3>1, <4>1, BringsEffect
    <3> HIDE DEF b
    <3> QED
      BY <3>1, <3>2, <3>3, <3>4 DEF BroughtTo
  <2>3. t \in Turns /\ t.at = "head" /\ t.carries = <<>>
    BY <2>1, BackAtTheHead, InATurn DEF Turns
  <2> HIDE DEF b, t
  <2>4. Streams(b, book') /\ \A r \in Runs : Flight(r)' = <<>>
    <3>1. CASE Returns(Notes(b, turn.run))
      <4>1. Leaves(b)
        BY <2>1, <2>2, <3>1, InATurn, ReturnsLeaves
      <4> QED
        BY <2>1, <2>2, <4>1, LeavesFlight, LeavesStream
    <3>2. CASE book' = Notes(b, turn.run) /\ Sets(t)
      <4>1. Still(b, book')
        BY <2>2, <3>2, NotesEffect
      <4>2. /\ turns' \in Seq(Turns) /\ DOMAIN turns' = DOMAIN turns /\ turns' # <<>>
            /\ \A i \in DOMAIN turns : turns'[i] = IF i = top THEN t ELSE turns[i]
        BY <2>1, <2>3, <3>2, InATurn, SetsEffect, Zenon
      <4>3. top' = top /\ top \in DOMAIN turns
        BY <2>1, <4>2, InATurn DEF top
      <4>4. turn' = t
        BY <4>2, <4>3 DEF turn
      <4> QED
        BY <2>3, <4>1, <4>4 DEF Flight, Streams
    <3> QED
      BY <2>1, <3>1, <3>2
  <2>5. ASSUME NEW r \in Runs PROVE InOrder(book'.brought[r], Flight(r)', book'.tail[r], book'.sent[r])
    <3>1. InOrder(b.brought[r], <<>>, b.tail[r], b.sent[r])
      <4>1. InOrder(book.brought[r], Flight(r), book.tail[r], book.sent[r])
        BY DEF StreamInv
      <4>2. CASE r = turn.run
        <5>1. Flight(r) = turn.carries /\ b.brought[r] = book.brought[r] \o turn.carries
          BY <2>1, <2>2, <4>2 DEF Flight
        <5>2. book.brought[r] \in Seq(Nat) /\ book.tail[r] \in Seq(Nat) /\ book.sent[r] \in Nat
          BY <2>2
        <5>3. InOrder(book.brought[r] \o turn.carries, <<>>, book.tail[r], book.sent[r])
          BY <2>2, <4>1, <5>1, <5>2, BringsInOrder
        <5> QED
          BY <2>2, <5>1, <5>3
      <4>3. CASE r # turn.run
        <5>1. b.brought[r] = book.brought[r]
          BY <2>2, <4>3
        <5> QED
          BY <2>2, <4>1, <5>1, Loses
      <4> QED
        BY <4>2, <4>3
    <3>2. <<>> \in Seq(Nat) /\ <<>> \in {<<>>, <<>>}
      OBVIOUS
    <3>3. InOrder(book'.brought[r], <<>>, book'.tail[r], book'.sent[r])
      BY <2>2, <2>4, <3>1, <3>2, StreamsInOrder
    <3> QED
      BY <2>4, <3>3
  <2> QED
    BY <2>5 DEF StreamInv
<1>6. CASE ~BeginCall /\ ~AnswerCall /\ ~NewSession /\ ~Crash
  <2>1. Streams(book, book')
    BY <1>6, StreamsGoOn
  <2>2. ASSUME NEW r \in Runs PROVE InOrder(book'.brought[r], Flight(r)', book'.tail[r], book'.sent[r])
    <3>1. Flight(r)' \in {Flight(r), <<>>}
      BY <1>1, <1>6, FlightsEnd
    <3>2. Flight(r) \in Seq(Nat) /\ InOrder(book.brought[r], Flight(r), book.tail[r], book.sent[r])
      BY <1>2 DEF StreamInv
    <3> QED
      BY <1>1, <2>1, <3>1, <3>2, StreamsInOrder
  <2> QED
    BY <2>2 DEF StreamInv
<1> QED
  BY <1>3, <1>4, <1>5, <1>6

LEMMA StreamIsInOrder == ASSUME StreamInv PROVE BroughtInOrder
BY DEF StreamInv, InOrder, Rising, BroughtInOrder

LEMMA InitStream == ASSUME Init PROVE StreamInv
<1>1. \A r \in Runs : book.brought[r] = <<>> /\ book.tail[r] = <<>> /\ Flight(r) = <<>>
  BY DEF Init, EmptyBook, Flight
<1> QED
  BY <1>1, Nothing DEF StreamInv, InOrder

-----------------------------------------------------------------------------
(* A run that is taken up again knows what it did and keeps its level.     *)

CallsUpto(events, n) == \A i \in DOMAIN events : events[i].kind = "call" => events[i].of \in 1 .. n

\* Of the calls handed over, those that are in the ledger are known.
KnowsOf(events, handed, knows) ==
  \A i \in DOMAIN events : events[i].kind = "call" /\ events[i].of \in handed => events[i].of \in knows

LevelsAtMost(events, l) == \A i \in DOMAIN events : events[i].kind = "intake" => events[i].of <= l

HandedInv ==
  /\ \A r \in Runs : CallsUpto(book.kept[r], calls)
  /\ prompt.handed \subseteq 1 .. calls
  /\ prompt.at = "planning" /\ ~prompt.replayed => prompt.handed = {}
  /\ prompt.at = "launching" => prompt.handed = {} \/ prompt.resumed \/ prompt.run = NoRun
  /\ prompt.at = "planning" /\ prompt.told => prompt.resumed
  /\ prompt.at = "launching" => prompt.pinned <= prompt.level
  /\ prompt.at = "launching" /\ prompt.told /\ prompt.pinned = 0 =>
       prompt.run \in Runs /\ LevelsAtMost(book.ledger[prompt.run], prompt.level)
  /\ turns # <<>> => KnowsOf(book.ledger[turns[1].run], prompt.handed, turns[1].knows)
  /\ turns # <<>> => prompt.pinned <= turns[1].level
  /\ turns # <<>> /\ prompt.told /\ prompt.pinned = 0 =>
       LevelsAtMost(book.ledger[turns[1].run], turns[1].level)

LEMMA MoreCalls ==
  ASSUME TypeInv, Counted, NEW events \in Seq(Ev), NEW more \in Seq(Ev), Fits(more)
  PROVE  /\ CallsUpto(events, calls) => CallsUpto(events \o more, calls')
         /\ \A handed, knows : handed \subseteq 1 .. calls /\ KnowsOf(events, handed, knows) =>
              KnowsOf(events \o more, handed, knows)
         /\ turns' # <<>> => \A l : LevelsAtMost(events, l) => LevelsAtMost(events \o more, l)
<1>1. calls \in Nat /\ calls' \in Nat /\ calls <= calls'
  BY DEF TypeInv, Typed, Counted
<1>2. \A i \in DOMAIN more :
        /\ more[i].kind = "call" => more[i].of = calls + 1 /\ calls' = calls + 1
        /\ more[i].kind = "intake" => turns' = <<>>
  BY Zenon DEF Fits
<1> DEFINE all == events \o more
<1>3. \A k \in DOMAIN all : \/ \E i \in DOMAIN events : all[k] = events[i]
                            \/ \E i \in DOMAIN more : all[k] = more[i]
  BY Joined
<1> HIDE DEF all
<1>4. \A n \in 1 .. calls : n \in 1 .. calls'
  BY <1>1
<1>5. calls + 1 \notin 1 .. calls /\ (calls' = calls + 1 => calls + 1 \in 1 .. calls')
  BY <1>1
<1>6. CallsUpto(events, calls) => CallsUpto(all, calls')
  BY <1>2, <1>3, <1>4, <1>5 DEF CallsUpto
<1>7. ASSUME NEW handed, NEW knows, handed \subseteq 1 .. calls, KnowsOf(events, handed, knows)
      PROVE  KnowsOf(all, handed, knows)
  <2>1. calls + 1 \notin handed
    BY <1>5, <1>7
  <2> QED
    BY <1>2, <1>3, <1>7, <2>1 DEF KnowsOf
<1>8. ASSUME turns' # <<>>, NEW l, LevelsAtMost(events, l) PROVE LevelsAtMost(all, l)
  BY <1>2, <1>3, <1>8 DEF LevelsAtMost
<1> QED
  BY <1>6, <1>7, <1>8, Zenon DEF all

LEMMA KeptCalls ==
  ASSUME TypeInv, Stored, HandedInv, [Next]_vars
  PROVE  \A r \in Runs : CallsUpto(book'.kept[r], calls')
<1>1. TypeInv' /\ Counted /\ calls \in Nat /\ calls' \in Nat /\ calls <= calls'
  BY EveryStep DEF Counted, TypeInv, Typed
<1>2. \A n \in 1 .. calls : n \in 1 .. calls'
  BY <1>1
<1>3. CASE book'.kept = book.kept
  BY <1>2, <1>3 DEF HandedInv, CallsUpto
<1>4. CASE LedgerGrows
  <2>1. ASSUME NEW r \in Runs PROVE CallsUpto(book'.kept[r], calls')
    <3>1. PICK more \in Seq(Ev) : book'.kept[r] = book.kept[r] \o more /\ Fits(more)
      BY <1>4, EachLedgerGrows
    <3>2. book.kept[r] \in Seq(Ev) /\ CallsUpto(book.kept[r], calls)
      BY <1>4, EachLedgerGrows DEF HandedInv
    <3> QED
      BY <1>1, <3>1, <3>2, MoreCalls
  <2> QED
    BY <2>1
<1>5. CASE Replay
  BY <1>3, <1>5, ReplayedLedger
<1>6. CASE NewSession \/ Crash
  BY <1>3, <1>6, FreshBook DEF NewSession, Crash
<1> QED
  BY <1>4, <1>5, <1>6, EveryStep

\* The steps of those who do not answer the prompt.
Outside == CancelContext \/ CancelRun \/ Steer \/ CloseSession \/ UNCHANGED vars

LEMMA OutsideGrows ==
  ASSUME TypeInv, Outside
  PROVE  /\ UNCHANGED <<prompt, turns, calls>>
         /\ \/ Silent(book, book')
            \/ \E r \in Runs : \E e \in Ev : e.kind = "steer" /\ Grown(book, book', r, <<e>>)
<1>1. CASE CancelContext \/ CloseSession \/ UNCHANGED vars
  <2>1. UNCHANGED <<prompt, turns, calls, book>>
    BY <1>1 DEF CancelContext, CloseSession, vars, counted
  <2> QED
    BY <2>1 DEF Silent
<1>2. CASE CancelRun
  BY <1>2, CancelRunEffect DEF CancelRun, counted
<1>3. CASE Steer
  <2> DEFINE e == Event("steer", <<0, steers + 1>>, steers + 1)
  <2>1. e \in Ev /\ e.kind = "steer"
    <3>1. <<0, steers + 1>> \in Id /\ steers + 1 \in What
      BY DEF Id, What, TypeInv, Typed
    <3> QED
      BY <3>1 DEF Event, Ev, Kinds
  <2>2. /\ UNCHANGED <<prompt, turns, calls>>
        /\ UNCHANGED book \/ (book.current # NoRun /\ book' = Writes(book, book.current, <<e>>))
    BY <1>3, Zenon DEF Steer
  <2> HIDE DEF e
  <2>3. <<e>> \in Seq(Ev) /\ book \in Books /\ (book.current # NoRun => book.current \in Runs)
    BY <2>1 DEF TypeInv, Typed, Books
  <2>4. UNCHANGED book => Silent(book, book')
    BY DEF Silent
  <2> QED
    BY <2>1, <2>2, <2>3, <2>4, WritesEffect
<1> QED
  BY <1>1, <1>2, <1>3 DEF Outside

\* What a step is to the prompt.
LEMMA PromptGoesOn ==
  ASSUME TypeInv, TypeInv', [Next]_vars
  PROVE  \/ turns # <<>> /\ turns' # <<>> /\ UNCHANGED prompt
         \/ turns' = <<>> /\ prompt' = Idle
         \/ Prompt \/ Replay \/ Plan \/ Launch
         \/ turns = <<>> /\ Outside
<1>1. CASE StepHead \/ LosesItsContext \/ Finish
  <2>1. turns # <<>>
    BY <1>1 DEF StepHead, LosesItsContext, Finish, Decides
  <2>2. CASE \E st \in {"blocked", "completed"} : Abandons \/ Ends(st)
    <3>1. Leaves(book)
      BY <2>1, <2>2, StatusesHold, EndsEffect
    <3> QED
      BY <2>1, <3>1 DEF Leaves, Pops
  <2>3. CASE Hears
    BY <2>1, <2>3, HearsEffect DEF Hears
  <2> QED
    BY <1>1, <2>2, <2>3, HeadSplits DEF LosesItsContext, Finish
<1>2. CASE BeginCall \/ LoseCall \/ Delegate \/ NoChild \/ LaunchChild
  <2>1. UNCHANGED prompt /\ turns # <<>>
    BY <1>2 DEF BeginCall, LoseCall, Delegate, NoChild, LaunchChild, Decides
  <2>2. turns' # <<>>
    BY <2>1 DEF TypeInv, Paired
  <2> QED
    BY <2>1, <2>2
<1>3. CASE AnswerCall
  <2> DEFINE b == Brings(book, turn.run, turn.carries)
  <2>1. /\ turns # <<>>
        /\ UNCHANGED prompt \/ (\E st \in Waiting : Returns(Notes(b, turn.run)))
    BY <1>3 DEF AnswerCall
  <2>2. b \in Books /\ b.observing
    BY <2>1, ArrivedEffect
  <2> HIDE DEF b
  <2>3. CASE Returns(Notes(b, turn.run))
    <3>1. Leaves(b)
      BY <2>1, <2>2, <2>3, InATurn, ReturnsLeaves
    <3> QED
      BY <2>1, <3>1 DEF Leaves, Pops
  <2>4. CASE UNCHANGED prompt
    BY <2>1, <2>4 DEF TypeInv, Paired
  <2> QED
    BY <2>1, <2>3, <2>4
<1>4. CASE IntakeOnly \/ Panic \/ Crash
  BY <1>4, IntakeOnlySplits DEF Panic, Crash, Answers
<1>5. CASE NewSession
  BY <1>5, NewSessionEffect DEF NewSession
<1>6. CASE Outside
  BY <1>6, OutsideGrows
<1> QED
  BY <1>1, <1>2, <1>3, <1>4, <1>5, <1>6, Zenon DEF Next, Outside

\* The prompt's own turn goes on as what it was.
LEMMA OwnTurnGoesOn ==
  ASSUME TypeInv, TypeInv', [Next]_vars, turns # <<>>, turns' # <<>>
  PROVE  /\ LedgerGrows /\ turns[1].run \in Runs
         /\ turns'[1].run = turns[1].run /\ turns'[1].knows = turns[1].knows /\ turns'[1].level = turns[1].level
<1>1. 1 \in DOMAIN turns /\ 1 \in DOMAIN turns' /\ turns[1].run \in Runs /\ prompt # Idle /\ prompt.at = "running"
  <2>1. turns' \in Seq(Turns) /\ 1 \in DOMAIN turns
    BY InATurn DEF TypeInv, Typed
  <2> QED
    BY <2>1, InATurn, IdleIsTyped
<1>2. LedgerGrows
  <2>1. ~Replay /\ ~NewSession /\ ~Crash
    BY <1>1, CrashEffect DEF Replay, CanPrompt, NewSession
  <2> QED
    BY <2>1, EveryStep
<1>3. CASE TurnsGo
  BY <1>1, <1>2, <1>3 DEF TurnsGo, Goes
<1>4. CASE LaunchChild
  BY <1>1, <1>2, <1>4, LaunchesChild
<1>5. CASE StepHead /\ Hears
  <2>1. /\ \A i \in DOMAIN turns : i # top => turns'[i] = turns[i]
        /\ turns'[top].run = turn.run /\ turns'[top].knows = turn.knows /\ turns'[top].level = turn.level
    BY <1>5, HearsEffect
  <2> QED
    BY <1>1, <1>2, <2>1 DEF turn
<1>6. ~Launch
  BY <1>1, LaunchSplits
<1> QED
  BY <1>1, <1>2, <1>3, <1>4, <1>5, <1>6, EveryStep

LEMMA IdleHandsNothing == Idle.handed = {} /\ ~Idle.resumed /\ ~Idle.told /\ Idle.at = "none"
BY DEF Idle

LEMMA HandedStep ==
  ASSUME TypeInv, Stored, HandedInv, [Next]_vars
  PROVE  HandedInv'
<1>1. TypeInv' /\ Counted /\ calls \in Nat /\ calls' \in Nat /\ calls <= calls' /\ book \in Books
  BY EveryStep DEF Counted, TypeInv, Typed
<1>2. \A n \in 1 .. calls : n \in 1 .. calls'
  BY <1>1
<1>3. \A r \in Runs : CallsUpto(book'.kept[r], calls')
  BY KeptCalls
<1>4. CASE turns # <<>> /\ turns' # <<>> /\ UNCHANGED prompt
  <2> DEFINE r == turns[1].run
  <2>1. /\ LedgerGrows /\ r \in Runs /\ turns'[1].run = r /\ turns'[1].knows = turns[1].knows
        /\ turns'[1].level = turns[1].level
    BY <1>1, <1>4, OwnTurnGoesOn
  <2>2. prompt.at = "running"
    BY <1>4, InATurn
  <2> HIDE DEF r
  <2>3. PICK more \in Seq(Ev) : book'.ledger[r] = book.ledger[r] \o more /\ Fits(more)
    BY <2>1, EachLedgerGrows
  <2>4. book.ledger[r] \in Seq(Ev) /\ prompt.handed \subseteq 1 .. calls
    BY <2>1, EachLedgerGrows DEF HandedInv
  <2>5. KnowsOf(book.ledger[r], prompt.handed, turns[1].knows)
    BY <1>4 DEF HandedInv, r
  <2>6. KnowsOf(book'.ledger[r], prompt.handed, turns[1].knows)
    BY <1>1, <2>3, <2>4, <2>5, MoreCalls
  <2>7. prompt.told /\ prompt.pinned = 0 => LevelsAtMost(book'.ledger[r], turns[1].level)
    <3>1. prompt.told /\ prompt.pinned = 0 => LevelsAtMost(book.ledger[r], turns[1].level)
      BY <1>4 DEF HandedInv, r
    <3> QED
      BY <1>1, <1>4, <2>3, <2>4, <3>1, MoreCalls
  <2>8. prompt'.handed \subseteq 1 .. calls'
    BY <1>2, <1>4, <2>4
  <2> QED
    BY <1>3, <1>4, <2>1, <2>2, <2>6, <2>7, <2>8 DEF HandedInv
<1>5. CASE turns' = <<>> /\ prompt' = Idle
  BY <1>3, <1>5, IdleHandsNothing DEF HandedInv
<1>6. CASE Prompt
  <2>1. turns' = <<>> /\ UNCHANGED calls
    <3>1. prompt = Idle /\ UNCHANGED <<turns, calls>>
      BY <1>6 DEF Prompt, CanPrompt
    <3> QED
      BY <3>1, NoTurnsYet, IdleIsTyped
  <2>2. \E r \in Runs \cup {NoRun} : \E named \in BOOLEAN : Asks(r, {}, named, FALSE)
    <3>1. book.current \in Runs \cup {NoRun}
      BY <1>1 DEF Books
    <3>2. \A r \in 1 .. made \cup ({made + 1} \cap Runs) : r \in Runs
      BY BoundOnRuns
    <3> QED
      BY <1>6, <3>1, <3>2, Zenon DEF Prompt
  <2>3. prompt'.at = "planning" /\ prompt'.handed = {} /\ prompt'.told = prompt'.resumed
    <3>1. {} \in SUBSET What /\ FALSE \in BOOLEAN
      OBVIOUS
    <3> QED
      BY <2>2, <3>1, AsksEffect
  <2> QED
    BY <1>3, <2>1, <2>3 DEF HandedInv
<1>7. CASE Replay
  <2>1. turns' = <<>> /\ UNCHANGED calls
    BY <1>7, ReplaySplits
  <2>2. PICK from \in Runs : \E r \in Runs : Asks(r, About(book.kept[from], "call"), r = from, TRUE)
    BY <1>7, ReplaySplits
  <2>3. PICK r \in Runs : Asks(r, About(book.kept[from], "call"), r = from, TRUE)
    BY <2>2
  <2> DEFINE handed == About(book.kept[from], "call")
  <2>4. handed \in SUBSET What /\ handed \subseteq 1 .. calls
    <3>1. book.kept[from] \in Seq(Ev)
      BY <1>1 DEF Books
    <3>2. CallsUpto(book.kept[from], calls)
      BY DEF HandedInv
    <3>3. handed \subseteq 1 .. calls
      BY <3>2 DEF CallsUpto, About
    <3> QED
      BY <3>1, <3>3, AboutIsWhat
  <2> HIDE DEF handed
  <2>5. Asks(r, handed, r = from, TRUE)
    BY <2>3 DEF handed
  <2>6. /\ prompt'.at = "planning" /\ prompt'.handed = handed /\ prompt'.replayed = TRUE
        /\ prompt'.told = prompt'.resumed
    <3>1. r \in Runs \cup {NoRun} /\ (r = from) \in BOOLEAN /\ TRUE \in BOOLEAN
      OBVIOUS
    <3> QED
      BY <2>4, <2>5, <3>1, AsksEffect
  <2> QED
    BY <1>3, <2>1, <2>4, <2>6 DEF HandedInv
<1>8. CASE Plan
  <2>1. /\ prompt.at = "planning" /\ turns = <<>> /\ UNCHANGED calls /\ prompt \in Prompts
        /\ PlansFromFacts \/ PlansFromRouter \/ PlansNothing
    BY <1>8, PlanSplits, NoTurnsYet DEF counted, TypeInv, Typed
  <2>2. prompt.handed \subseteq 1 .. calls /\ (~prompt.replayed => prompt.handed = {})
    BY <2>1 DEF HandedInv
  <2>3. ASSUME NEW route, NEW at \in {"launching", "intake_only"}, NEW level \in Levels,
               prompt' = [RunChosen(prompt, route) EXCEPT !.at = at, !.level = level]
        PROVE  Decided(prompt, prompt', route) /\ prompt'.at = at /\ prompt'.level = level
    <3> DEFINE q == Planned(prompt, route, at, level)
    <3>1. Decided(prompt, q, route) /\ q.at = at /\ q.level = level
      BY <2>1, RunChosenEffect
    <3>2. prompt' = q
      BY <2>3 DEF Planned
    <3> HIDE DEF q
    <3> QED
      BY <3>1, <3>2
  <2>4. ASSUME NEW route, Decided(prompt, prompt', route), turns' = <<>>,
               prompt'.at \in {"launching", "intake_only"},
               prompt.pinned <= prompt'.level,
               prompt.resumed /\ prompt.pinned = 0 =>
                 /\ prompt'.run \in Runs
                 /\ LevelsAtMost(book'.ledger[prompt'.run], prompt'.level)
        PROVE  HandedInv'
    <3>1. /\ prompt'.handed = prompt.handed /\ prompt'.replayed = prompt.replayed
          /\ prompt'.told = prompt.told /\ prompt'.pinned = prompt.pinned
      BY <2>4 DEF Decided
    <3>2. prompt'.handed = {} \/ prompt'.resumed \/ prompt'.run = NoRun
      BY <2>2, <2>4, <3>1 DEF Decided
    <3>3. prompt'.told => prompt.resumed
      BY <2>1, <3>1 DEF HandedInv
    <3> QED
      BY <1>3, <2>1, <2>2, <2>4, <3>1, <3>2, <3>3 DEF HandedInv
  <2>5. CASE PlansFromFacts
    <3>1. PICK level \in Levels :
            /\ prompt' = [RunChosen(prompt, "continue") EXCEPT !.at = "launching", !.level = level]
            /\ prompt.pinned <= level
            /\ prompt.resumed /\ prompt.pinned = 0 => HighestLevel(book.ledger[prompt.run]) <= level
      BY <2>5 DEF PlansFromFacts
    <3>2. Decided(prompt, prompt', "continue") /\ prompt'.at = "launching" /\ prompt'.level = level
      BY <2>3, <3>1
    <3>3. turns' = <<>> /\ UNCHANGED book
      BY <2>1, <2>5 DEF PlansFromFacts
    <3>4. prompt.resumed /\ prompt.pinned = 0 =>
            prompt'.run \in Runs /\ LevelsAtMost(book'.ledger[prompt'.run], prompt'.level)
      <4>1. prompt.resumed => prompt.run \in Runs /\ prompt'.run = prompt.run
        BY <2>1, <3>2 DEF Decided, TypeInv, Paired
      <4>2. ASSUME prompt.resumed, prompt.pinned = 0 PROVE LevelsAtMost(book.ledger[prompt.run], level)
        <5>1. book.ledger[prompt.run] \in Seq(Ev)
          BY <1>1, <4>1, <4>2 DEF Books
        <5>2. \A l \in About(book.ledger[prompt.run], "intake") : l <= level
          <6> DEFINE highest == HighestLevel(book.ledger[prompt.run])
          <6>1. highest \in Levels /\ highest <= level
            BY <3>1, <4>2, <5>1, HighestIsALevel
          <6>2. \A l \in About(book.ledger[prompt.run], "intake") : l \in Levels /\ l <= highest
            BY <5>1, LevelsAreBounded, HighestIsALevel
          <6>3. level \in Nat /\ highest \in Nat /\ Levels \subseteq Nat
            BY <6>1, SessionAssumption
          <6> HIDE DEF highest
          <6>4. \A l \in Nat : l <= highest => l <= level
            BY <6>1, <6>3
          <6> QED
            BY <6>2, <6>3, <6>4, Zenon
        <5> QED
          BY <5>2 DEF About, LevelsAtMost
      <4> QED
        BY <3>2, <3>3, <4>1, <4>2
    <3>5. prompt.pinned <= prompt'.level /\ prompt'.at \in {"launching", "intake_only"}
      BY <3>1, <3>2
    <3> QED
      BY <2>4, <3>2, <3>3, <3>4, <3>5
  <2>6. CASE PlansFromRouter
    <3>1. PICK route \in {"start", "continue", "revise"}, level \in Levels, at \in {"launching", "intake_only"} :
            /\ prompt' = [RunChosen(prompt, route) EXCEPT !.at = at, !.level = level]
            /\ prompt.pinned <= level
      BY <2>6, Zenon DEF PlansFromRouter
    <3>2. Decided(prompt, prompt', route) /\ prompt'.at = at /\ prompt'.level = level
      BY <2>3, <3>1
    <3>3. turns' = <<>> /\ ~prompt.resumed
      BY <2>1, <2>6 DEF PlansFromRouter
    <3>4. prompt.pinned <= prompt'.level /\ prompt'.at \in {"launching", "intake_only"}
      BY <3>1, <3>2
    <3> QED
      BY <2>4, <3>2, <3>3, <3>4
  <2>7. CASE PlansNothing
    BY <1>5, <2>7 DEF PlansNothing, Answers
  <2> QED
    BY <2>1, <2>5, <2>6, <2>7
<1>9. CASE Launch
  <2>1. PICK r \in Runs : TakesRun(r) /\ (Begins(r) \/ IsRefused(r))
    BY <1>9, LaunchSplits
  <2>2. prompt.at = "launching" /\ UNCHANGED calls /\ prompt \in Prompts
    BY <1>9, LaunchSplits DEF TypeInv, Typed
  <2>3. CASE IsRefused(r)
    BY <1>5, <2>3 DEF IsRefused, Answers
  <2>4. CASE Begins(r)
    <3> DEFINE resumes == prompt.resumed \/ status[r] \in Waiting
    <3>1. /\ turns' # <<>> /\ turns'[1].run = r /\ turns'[1].level = prompt.level
          /\ turns'[1].knows = (IF resumes THEN About(book.ledger[r], "call") ELSE {})
      <4> DEFINE t == turns'[1]
      <4>1. /\ turns' # <<>>
            /\ t = NewTurn(r, resumes, prompt.level, MaxSteps, DelegationLimit)
        BY <2>2, <2>4, BeginsTurn
      <4> HIDE DEF t, resumes
      <4>2. /\ t.run = r /\ t.level = prompt.level
            /\ t.knows = (IF resumes THEN About(book.ledger[r], "call") ELSE {})
        BY <4>1, NewTurnIs
      <4> QED
        BY <4>1, <4>2 DEF t
    <3>2. /\ book' = Writes(book, r, <<Note>>)
          /\ prompt' = [prompt EXCEPT !.at = "running", !.run = NoRun, !.level = 0]
      BY <2>4 DEF Begins
    <3>3. prompt'.at = "running" /\ prompt'.handed = prompt.handed /\ prompt'.resumed = prompt.resumed
          /\ prompt'.replayed = prompt.replayed
          /\ prompt'.told = prompt.told /\ prompt'.pinned = prompt.pinned
      BY <2>2, <3>2 DEF Prompts
    <3>4. book.ledger[r] \in Seq(Ev) /\ book'.ledger[r] = book.ledger[r] \o <<Note>>
      <4>1. Grown(book, book', r, <<Note>>) /\ book.ledger \in [Runs -> Seq(Ev)]
        BY <1>1, <3>2, NoteIsAnEvent, WritesEffect DEF Books
      <4> QED
        BY <4>1 DEF Grown
    <3>5. \A i \in DOMAIN book'.ledger[r] :
            \/ \E j \in DOMAIN book.ledger[r] : book'.ledger[r][i] = book.ledger[r][j]
            \/ book'.ledger[r][i].kind = "note"
      <4>1. <<Note>> \in Seq(Ev) /\ \A j \in DOMAIN <<Note>> : <<Note>>[j].kind = "note"
        BY NoteIsAnEvent DEF Note, Event
      <4> DEFINE note == <<Note>>
      <4> HIDE DEF note
      <4>2. \A i \in DOMAIN (book.ledger[r] \o note) :
              \/ \E j \in DOMAIN book.ledger[r] : (book.ledger[r] \o note)[i] = book.ledger[r][j]
              \/ \E j \in DOMAIN note : (book.ledger[r] \o note)[i] = note[j]
        <5> DEFINE events == book.ledger[r]
        <5>1. note \in Seq(Ev) /\ events \in Seq(Ev)
          BY <3>4, <4>1 DEF note
        <5> HIDE DEF events
        <5>2. \A i \in DOMAIN (events \o note) :
                \/ \E j \in DOMAIN events : (events \o note)[i] = events[j]
                \/ \E j \in DOMAIN note : (events \o note)[i] = note[j]
          BY <5>1, Joined
        <5> QED
          BY <5>2 DEF events
      <4> QED
        BY <3>4, <4>1, <4>2 DEF note
    <3>6. \/ r = prompt.run /\ status[r] # "absent"
          \/ ~Holds(prompt.run) /\ r = made + 1 /\ status[r] = "absent" /\ book.ledger[r] = <<>>
      BY <2>1, TakenRun
    <3>7. KnowsOf(book'.ledger[r], prompt.handed, turns'[1].knows)
      <4>1. CASE prompt.handed = {} \/ book.ledger[r] = <<>>
        BY <3>5, <4>1 DEF KnowsOf
      <4>2. CASE resumes
        BY <3>1, <3>5, <4>2 DEF KnowsOf, About
      <4>3. r = prompt.run => prompt.handed = {} \/ prompt.resumed
        BY <2>2, BoundOnRuns DEF HandedInv
      <4> QED
        BY <3>6, <4>1, <4>2, <4>3
    <3>8. prompt.told /\ prompt.pinned = 0 => LevelsAtMost(book'.ledger[r], prompt.level)
      <4>1. CASE book.ledger[r] = <<>>
        BY <3>5, <4>1 DEF LevelsAtMost
      <4>2. CASE r = prompt.run
        <5>1. prompt.told /\ prompt.pinned = 0 => LevelsAtMost(book.ledger[r], prompt.level)
          BY <2>2, <4>2 DEF HandedInv
        <5> QED
          BY <3>5, <5>1 DEF LevelsAtMost
      <4> QED
        BY <3>6, <4>1, <4>2
    <3>9. prompt'.handed \subseteq 1 .. calls'
      BY <2>2, <3>3 DEF HandedInv
    <3>10. prompt'.pinned <= turns'[1].level
      BY <2>2, <3>1, <3>3 DEF HandedInv
    <3> QED
      BY <1>3, <3>1, <3>3, <3>7, <3>8, <3>9, <3>10 DEF HandedInv
  <2> QED
    BY <2>1, <2>3, <2>4
<1>10. CASE turns = <<>> /\ Outside
  <2>1. /\ UNCHANGED <<prompt, turns, calls>>
        /\ \/ Silent(book, book')
           \/ \E r \in Runs : \E e \in Ev : e.kind = "steer" /\ Grown(book, book', r, <<e>>)
    BY <1>10, OutsideGrows
  <2>2. ASSUME NEW q \in Runs, NEW l, LevelsAtMost(book.ledger[q], l) PROVE LevelsAtMost(book'.ledger[q], l)
    <3>1. CASE Silent(book, book')
      BY <2>2, <3>1 DEF Silent
    <3>2. ASSUME NEW r \in Runs, NEW e \in Ev, e.kind = "steer", Grown(book, book', r, <<e>>)
          PROVE  LevelsAtMost(book'.ledger[q], l)
      <4>1. book.ledger \in [Runs -> Seq(Ev)]
        BY <1>1 DEF Books
      <4> DEFINE more == <<e>>
      <4>2. more \in Seq(Ev) /\ \A i \in DOMAIN more : more[i].kind = "steer"
        BY <3>2
      <4> HIDE DEF more
      <4>3. book'.ledger[q] = IF q = r THEN book.ledger[q] \o more ELSE book.ledger[q]
        BY <3>2, <4>1 DEF Grown, more
      <4>4. \A i \in DOMAIN (book.ledger[q] \o more) :
              \/ \E j \in DOMAIN book.ledger[q] : (book.ledger[q] \o more)[i] = book.ledger[q][j]
              \/ \E j \in DOMAIN more : (book.ledger[q] \o more)[i] = more[j]
        BY <4>1, <4>2, Joined
      <4> QED
        BY <2>2, <4>2, <4>3, <4>4 DEF LevelsAtMost
    <3> QED
      BY <2>1, <3>1, <3>2
  <2> QED
    BY <1>3, <1>10, <2>1, <2>2 DEF HandedInv
<1> QED
  BY <1>1, <1>4, <1>5, <1>6, <1>7, <1>8, <1>9, <1>10, PromptGoesOn

LEMMA ResumesWhole == ASSUME TypeInv, HandedInv PROVE ResumedWhole
<1>1. TypeOK
  <2>1. \A r \in Runs : \A i \in DOMAIN book.ledger[r] : book.ledger[r][i].kind \in Kinds
    <3>1. \A r \in Runs : book.ledger[r] \in Seq(Ev)
      BY DEF TypeInv, Typed, Books
    <3>2. \A e \in Ev : e.kind \in Kinds
      BY DEF Ev
    <3> QED
      BY <3>1, <3>2
  <2>2. /\ book.current \in Runs \cup {NoRun} /\ prompt.level \in Levels \cup {0}
        /\ prompt.at \in {"none", "planning", "launching", "intake_only", "running"}
    BY DEF TypeInv, Typed, Books, Prompts
  <2> QED
    BY <2>1, <2>2 DEF TypeOK, TypeInv, Typed, Paired
<1>2. KnowsWhatRan
  <2>1. SUFFICES ASSUME turns # <<>>, NEW h \in prompt.handed, h \in About(book.ledger[turns[1].run], "call")
                 PROVE  h \in turns[1].knows
    BY DEF KnowsWhatRan
  <2>2. PICK i \in DOMAIN book.ledger[turns[1].run] :
          book.ledger[turns[1].run][i].kind = "call" /\ book.ledger[turns[1].run][i].of = h
    BY <2>1 DEF About
  <2> QED
    BY <2>1, <2>2 DEF HandedInv, KnowsOf
<1>3. KeepsItsLevel
  BY DEF KeepsItsLevel, HandedInv, LevelsAtMost, About
<1> QED
  BY <1>1, <1>2, <1>3 DEF ResumedWhole

LEMMA InitHanded == ASSUME Init PROVE HandedInv
BY IdleHandsNothing DEF Init, HandedInv, EmptyBook, CallsUpto

-----------------------------------------------------------------------------
(* A run that is left running was missed.                                  *)

\* Who answers for a run that is running: a turn, the prompt it is asked for, or the
\* cancel that is on its way to it.
Held(r) == \E i \in DOMAIN turns : turns[i].run = r
Asked(r) == prompt.at \in {"planning", "launching", "intake_only"} /\ r = prompt.run
CancelComes(r) == prompt = Idle /\ cancelling /\ (r = book.current \/ ~open)

LeftInv ==
  /\ \A r \in Runs : status[r] = "running" => r \in missed \/ Held(r) \/ Asked(r) \/ CancelComes(r)
  /\ ctx = "cancelled" /\ ~cancelling /\ turns # <<>> /\ status[turns[1].run] = "running" =>
       turns[1].run \in missed

\* What a step of the turn on top does to the turns and their runs.
TurnIsLeft ==
  /\ turns # <<>> /\ UNCHANGED <<open, ctx, cancelling, missed>>
  /\ \A r \in Runs : status'[r] = "running" => status[r] = "running"
  /\ turns' # <<>> => turns'[1].run = turns[1].run
  /\ \A i \in DOMAIN turns :
       \/ i \in DOMAIN turns' /\ turns'[i].run = turns[i].run
       \/ status'[turns[i].run] # "running"
       \/ i = 1 /\ ctx = "cancelled" /\ prompt' = Idle /\ book'.current = turns[i].run

LEMMA LeavesRuns ==
  ASSUME TypeInv, turns # <<>>, NEW b \in Books, Leaves(b)
  PROVE  /\ \A i \in DOMAIN turns : i # top => i \in DOMAIN turns' /\ turns'[i].run = turns[i].run
         /\ turns' # <<>> => turns'[1].run = turns[1].run
         /\ top > 1 \/ (top = 1 /\ prompt' = Idle /\ book'.current = turn.run)
<1>1. top \in Nat /\ top >= 1 /\ DOMAIN turns = 1 .. top /\ \A i \in DOMAIN turns : turns[i] \in Turns
  BY InATurn
<1>2. CASE Pops
  <2>1. \A t \in Turns : [t EXCEPT !.at = "head"].run = t.run
    BY DEF Turns
  <2>2. /\ top > 1 /\ DOMAIN turns' = 1 .. (top - 1)
        /\ \A i \in DOMAIN turns' : turns'[i] = IF i = top - 1 THEN [turns[i] EXCEPT !.at = "head"] ELSE turns[i]
    BY <1>2 DEF Pops
  <2>3. \A i \in 1 .. (top - 1) : i \in DOMAIN turns
    BY <1>1
  <2>4. \A i \in 1 .. (top - 1) : turns'[i].run = turns[i].run
    BY <1>1, <2>1, <2>2, <2>3
  <2> QED
    BY <1>1, <2>2, <2>4
<1>3. CASE top = 1 /\ turns' = <<>> /\ prompt' = Idle /\ book'.current = turn.run
  BY <1>1, <1>3
<1> QED
  BY <1>2, <1>3 DEF Leaves

LEMMA OutcomeLeft ==
  ASSUME TypeInv, turns # <<>>, UNCHANGED <<open, ctx, cancelling, missed>>,
         (ContextEnded /\ Abandons) \/ (\E st \in {"blocked", "completed"} : Ends(st))
  PROVE  TurnIsLeft
<1>1. Leaves(book) /\ book \in Books
  BY InATurn, EndsEffect, StatusesHold
<1>2. /\ turn.run \in Runs /\ status \in [Runs -> Statuses] /\ turn = turns[top]
      /\ top \in Nat /\ DOMAIN turns = 1 .. top
  BY InATurn DEF turn, TypeInv, Typed
<1>3. /\ \A i \in DOMAIN turns : i # top => i \in DOMAIN turns' /\ turns'[i].run = turns[i].run
      /\ turns' # <<>> => turns'[1].run = turns[1].run
      /\ top > 1 \/ (top = 1 /\ prompt' = Idle /\ book'.current = turn.run)
  BY <1>1, LeavesRuns
<1>4. /\ \A r \in Runs : status'[r] = "running" => status[r] = "running"
      /\ \/ status'[turn.run] # "running"
         \/ top = 1 /\ ctx = "cancelled"
  <2>1. CASE status[turn.run] \in Ended /\ UNCHANGED status
    BY <2>1 DEF Ended
  <2>2. CASE \E st \in {"blocked", "completed", "failed"} : Becomes(st)
    BY <1>2, <2>2 DEF Becomes
  <2>3. CASE ContextEnded /\ top = 1 /\ status[turn.run] \notin Ended /\ UNCHANGED status
    BY <1>2, <2>3 DEF ContextEnded, Ended
  <2> QED
    BY <1>2, <1>3, <2>1, <2>2, <2>3 DEF Abandons, Ends
<1>5. \A i \in DOMAIN turns :
        \/ i \in DOMAIN turns' /\ turns'[i].run = turns[i].run
        \/ status'[turns[i].run] # "running"
        \/ i = 1 /\ ctx = "cancelled" /\ prompt' = Idle /\ book'.current = turns[i].run
  <2>1. CASE status'[turn.run] # "running"
    BY <1>2, <1>3, <2>1
  <2>2. CASE top = 1 /\ ctx = "cancelled"
    BY <1>2, <1>3, <2>2
  <2> QED
    BY <1>4, <2>1, <2>2
<1> QED
  BY <1>3, <1>4, <1>5 DEF TurnIsLeft

LEMMA SetLeft ==
  ASSUME TypeInv, turns # <<>>, UNCHANGED <<open, ctx, cancelling, missed, status>>, NEW t \in Turns, Sets(t),
         t.run = turn.run
  PROVE  TurnIsLeft
<1>1. /\ turns' \in Seq(Turns) /\ DOMAIN turns' = DOMAIN turns /\ turns' # <<>>
      /\ \A i \in DOMAIN turns : turns'[i] = IF i = top THEN t ELSE turns[i]
  BY InATurn, SetsEffect, Zenon
<1>2. \A i \in DOMAIN turns : turns'[i].run = turns[i].run
  BY <1>1 DEF turn
<1>3. 1 \in DOMAIN turns
  BY InATurn
<1> QED
  BY <1>1, <1>2, <1>3 DEF TurnIsLeft

LEMMA TurnStepLeft ==
  ASSUME TypeInv, StepHead \/ LosesItsContext \/ BeginCall \/ LoseCall \/ AnswerCall \/ Finish \/ Delegate \/ NoChild
  PROVE  TurnIsLeft
<1>1. turns # <<>> /\ UNCHANGED <<open, ctx, cancelling, missed>>
  BY Zenon DEF StepHead, LosesItsContext, BeginCall, LoseCall, AnswerCall, Finish, Delegate, NoChild, Decides
<1>2. /\ turn \in Turns /\ turn.run \in Runs /\ <<>> \in Seq(Nat) /\ turn.delegated + 1 \in Nat
      /\ top \in Nat /\ DOMAIN turns = 1 .. top /\ turn = turns[top]
  BY <1>1, InATurn, TurnNumbers DEF turn
<1>3. CASE StepHead
  <2>1. CASE Hears
    <3>1. /\ DOMAIN turns' = DOMAIN turns /\ turns'[top].run = turn.run
          /\ \A i \in DOMAIN turns : i # top => turns'[i] = turns[i]
      BY <1>1, <2>1, HearsEffect
    <3>2. \A i \in DOMAIN turns : turns'[i].run = turns[i].run
      BY <3>1 DEF turn
    <3>3. UNCHANGED status /\ 1 \in DOMAIN turns
      BY <1>1, <2>1, InATurn DEF Hears
    <3> QED
      BY <1>1, <3>1, <3>2, <3>3 DEF TurnIsLeft
  <2>2. CASE (ContextEnded /\ Abandons) \/ Ends("blocked")
    BY <1>1, <2>2, OutcomeLeft
  <2> QED
    BY <1>3, <2>1, <2>2, Zenon DEF StepHead, Hears
<1>4. CASE LosesItsContext \/ Finish
  BY <1>1, <1>4, OutcomeLeft DEF LosesItsContext, Finish
<1>5. CASE BeginCall
  <2> DEFINE c == Writes(book, turn.run, <<Event("call", <<>>, calls + 1)>>).tail[turn.run]
             t == [turn EXCEPT !.at = "call", !.carries = c]
  <2>1. Sets(t) /\ UNCHANGED status
    BY <1>5 DEF BeginCall
  <2>2. c \in Seq(Nat)
    <3>1. <<Event("call", <<>>, calls + 1)>> \in Seq(Ev) /\ book \in Books
      BY <1>1, InATurn, CallIsAnEvent
    <3>2. Writes(book, turn.run, <<Event("call", <<>>, calls + 1)>>) \in Books
      BY <1>2, <3>1, WritesEffect
    <3>3. \A w \in Books : w.tail[turn.run] \in Seq(Nat)
      BY <1>2 DEF Books
    <3> QED
      BY <3>2, <3>3
  <2> HIDE DEF c
  <2>3. t \in Turns /\ t.run = turn.run
    BY <1>2, <2>2 DEF Turns
  <2> HIDE DEF t
  <2> QED
    BY <1>1, <2>1, <2>3, SetLeft
<1>6. CASE LoseCall \/ Delegate \/ NoChild
  <2>1. /\ UNCHANGED status
        /\ \/ Sets([turn EXCEPT !.at = "head", !.carries = <<>>])
           \/ \E at \in {"delegating", "head"} : Sets([turn EXCEPT !.at = at, !.delegated = @ + 1])
           \/ Sets([turn EXCEPT !.at = "head"])
    BY <1>6, Zenon DEF LoseCall, Delegate, NoChild
  <2>2. \E t \in Turns : Sets(t) /\ t.run = turn.run
    <3>1. [turn EXCEPT !.at = "head", !.carries = <<>>] \in Turns /\ [turn EXCEPT !.at = "head", !.carries = <<>>].run = turn.run
      BY <1>2 DEF Turns
    <3>2. [turn EXCEPT !.at = "head"] \in Turns /\ [turn EXCEPT !.at = "head"].run = turn.run
      BY <1>2 DEF Turns
    <3>3. ASSUME NEW at \in {"delegating", "head"}
          PROVE  /\ [turn EXCEPT !.at = at, !.delegated = @ + 1] \in Turns
                 /\ [turn EXCEPT !.at = at, !.delegated = @ + 1].run = turn.run
      BY <1>2 DEF Turns
    <3> QED
      BY <2>1, <3>1, <3>2, <3>3, Zenon
  <2> QED
    BY <1>1, <2>1, <2>2, SetLeft
<1>7. CASE AnswerCall
  <2> DEFINE b == Brings(book, turn.run, turn.carries)
             t == [turn EXCEPT !.at = "head", !.carries = <<>>]
  <2>1. \/ Sets(t) /\ UNCHANGED status
        \/ \E st \in Waiting : Becomes(st) /\ Returns(Notes(b, turn.run))
    BY <1>7 DEF AnswerCall
  <2>2. b \in Books /\ b.observing
    BY <1>1, ArrivedEffect
  <2>3. t \in Turns /\ t.run = turn.run
    BY <1>2, BackAtTheHead DEF Turns
  <2> HIDE DEF b, t
  <2>4. CASE Sets(t) /\ UNCHANGED status
    BY <1>1, <2>3, <2>4, SetLeft
  <2>5. ASSUME NEW st \in Waiting, Becomes(st), Returns(Notes(b, turn.run)) PROVE TurnIsLeft
    <3>1. Leaves(b)
      BY <1>1, <2>2, <2>5, InATurn, ReturnsLeaves
    <3>2. /\ \A i \in DOMAIN turns : i # top => i \in DOMAIN turns' /\ turns'[i].run = turns[i].run
          /\ turns' # <<>> => turns'[1].run = turns[1].run
      BY <1>1, <2>2, <3>1, LeavesRuns
    <3>3. /\ status'[turn.run] # "running"
          /\ \A r \in Runs : status'[r] = "running" => status[r] = "running"
      BY <1>2, <2>5 DEF Becomes, Waiting, TypeInv, Typed
    <3> QED
      BY <1>1, <1>2, <3>2, <3>3 DEF TurnIsLeft
  <2> QED
    BY <2>1, <2>4, <2>5
<1> QED
  BY <1>3, <1>4, <1>5, <1>6, <1>7

LEMMA TurnLeft ==
  ASSUME TypeInv, LeftInv, TurnIsLeft
  PROVE  LeftInv'
<1>1. /\ turns # <<>> /\ prompt.at = "running" /\ prompt # Idle /\ UNCHANGED <<open, ctx, cancelling, missed>>
      /\ DOMAIN turns = 1 .. top /\ \A i \in DOMAIN turns : turns[i].run \in Runs
  BY InATurn, IdleIsTyped DEF TurnIsLeft, TypeInv, Paired
<1>2. ASSUME NEW r \in Runs, status'[r] = "running"
      PROVE  r \in missed' \/ Held(r)' \/ Asked(r)' \/ CancelComes(r)'
  <2>1. status[r] = "running"
    BY <1>2 DEF TurnIsLeft
  <2>2. r \in missed \/ Held(r)
    BY <1>1, <2>1 DEF LeftInv, Asked, CancelComes
  <2>3. ASSUME NEW i \in DOMAIN turns, turns[i].run = r
        PROVE  r \in missed' \/ Held(r)' \/ CancelComes(r)'
    <3>1. CASE i \in DOMAIN turns' /\ turns'[i].run = turns[i].run
      BY <2>3, <3>1 DEF Held
    <3>2. CASE status'[turns[i].run] # "running"
      BY <1>2, <2>3, <3>2
    <3>3. CASE i = 1 /\ ctx = "cancelled" /\ prompt' = Idle /\ book'.current = turns[i].run
      <4>1. CASE cancelling
        BY <1>1, <2>3, <3>3, <4>1 DEF CancelComes
      <4>2. CASE ~cancelling
        BY <1>1, <2>1, <2>3, <3>3, <4>2 DEF LeftInv
      <4> QED
        BY <4>1, <4>2
    <3> QED
      BY <3>1, <3>2, <3>3 DEF TurnIsLeft
  <2> QED
    BY <1>1, <2>2, <2>3 DEF Held
<1>3. ctx' = "cancelled" /\ ~cancelling' /\ turns' # <<>> /\ status'[turns'[1].run] = "running" =>
        turns'[1].run \in missed'
  <2> SUFFICES ASSUME ctx' = "cancelled", ~cancelling', turns' # <<>>, status'[turns'[1].run] = "running"
               PROVE  turns'[1].run \in missed'
    OBVIOUS
  <2>1. turns'[1].run = turns[1].run /\ turns[1].run \in Runs
    BY <1>1, InATurn DEF TurnIsLeft
  <2>2. status[turns[1].run] = "running"
    BY <2>1 DEF TurnIsLeft
  <2> QED
    BY <1>1, <2>1, <2>2 DEF LeftInv
<1> QED
  BY <1>2, <1>3 DEF LeftInv

\* Steps after which the runs stand as they stood; a cancel may be on its way, or the
\* session be closed.
LEMMA StandsLeft ==
  ASSUME LeftInv, UNCHANGED <<status, prompt, turns, missed>>, book'.current = book.current,
         open' => open, UNCHANGED <<ctx, cancelling>> \/ cancelling' = TRUE
  PROVE  LeftInv'
BY DEF LeftInv, Held, Asked, CancelComes

LEMMA OutsideLeft ==
  ASSUME TypeInv, LeftInv, CancelContext \/ Steer \/ CloseSession \/ UNCHANGED vars
  PROVE  LeftInv'
<1>1. book \in Books /\ (book.current # NoRun => book.current \in Runs) /\ steers \in Nat
  BY DEF TypeInv, Typed, Books
<1>2. CASE CancelContext \/ CloseSession \/ UNCHANGED vars
  <2>1. /\ UNCHANGED <<status, prompt, turns, missed, book>>
        /\ open' => open
        /\ UNCHANGED <<ctx, cancelling>> \/ cancelling' = TRUE
    <3>1. CASE CancelContext
      BY <3>1 DEF CancelContext
    <3>2. CASE CloseSession
      BY <3>2 DEF CloseSession
    <3>3. CASE UNCHANGED vars
      BY <3>3 DEF vars
    <3> QED
      BY <1>2, <3>1, <3>2, <3>3
  <2> QED
    BY <2>1, StandsLeft
<1>3. CASE Steer
  <2> DEFINE e == Event("steer", <<0, steers + 1>>, steers + 1)
  <2>1. e \in Ev
    <3>1. <<0, steers + 1>> \in Id /\ steers + 1 \in What
      BY <1>1 DEF Id, What
    <3> QED
      BY <3>1 DEF Event, Ev, Kinds
  <2> HIDE DEF e
  <2>2. <<e>> \in Seq(Ev)
    BY <2>1
  <2>3. UNCHANGED book \/ (book.current \in Runs /\ book' = Writes(book, book.current, <<e>>))
    BY <1>1, <1>3, Zenon DEF Steer, e
  <2>4. book.current \in Runs => Writes(book, book.current, <<e>>).current = book.current
    BY <1>1, <2>2, WritesMoves
  <2>5. book'.current = book.current
    BY <2>3, <2>4, Zenon
  <2>6. UNCHANGED <<open, status, prompt, turns, ctx, cancelling, missed>>
    BY <1>3 DEF Steer
  <2> QED
    BY <2>5, <2>6, StandsLeft
<1> QED
  BY <1>2, <1>3

LEMMA CancelRunLeft ==
  ASSUME TypeInv, LeftInv, CancelRun
  PROVE  LeftInv'
<1>1. /\ cancelling /\ ~cancelling' /\ missed' = missed \cup Misses /\ UNCHANGED <<open, prompt, turns, ctx>>
  BY DEF CancelRun
<1>2. status \in [Runs -> Statuses] /\ book \in Books
  BY DEF TypeInv, Typed
<1>3. ASSUME NEW r \in Runs, status'[r] = "running"
      PROVE  status[r] = "running" /\ (open => r # book.current)
  <2>1. CASE open /\ book.current # NoRun /\ status[book.current] \in Cancellable
    <3>1. status' = [status EXCEPT ![book.current] = "cancelled"]
      BY <2>1 DEF CancelRun
    <3> QED
      BY <1>2, <1>3, <3>1
  <2>2. CASE ~(open /\ book.current # NoRun /\ status[book.current] \in Cancellable)
    <3>1. status' = status
      BY <2>2 DEF CancelRun
    <3> QED
      BY <1>3, <2>2, <3>1, BoundOnRuns DEF Cancellable
  <2> QED
    BY <2>1, <2>2
<1>4. ASSUME NEW r \in Runs, status'[r] = "running"
      PROVE  r \in missed' \/ Held(r)' \/ Asked(r)'
  <2>1. status[r] = "running" /\ (open => r # book.current)
    BY <1>3, <1>4
  <2>2. CASE ~open
    BY <1>1, <2>1, <2>2 DEF Misses
  <2>3. CASE open
    BY <1>1, <2>1, <2>3 DEF LeftInv, Held, Asked, CancelComes
  <2> QED
    BY <2>2, <2>3
<1>5. turns' # <<>> /\ status'[turns'[1].run] = "running" => turns'[1].run \in missed'
  <2> SUFFICES ASSUME turns' # <<>>, status'[turns'[1].run] = "running" PROVE turns'[1].run \in missed'
    OBVIOUS
  <2>1. turns # <<>> /\ turns'[1].run = turns[1].run /\ 1 \in DOMAIN turns /\ turns[1].run \in Runs
    BY <1>1, InATurn
  <2>2. status[turns[1].run] = "running" /\ (open => turns[1].run # book.current)
    BY <1>3, <2>1
  <2> QED
    BY <1>1, <2>1, <2>2 DEF Misses
<1> QED
  BY <1>4, <1>5 DEF LeftInv

LEMMA PanicLeft ==
  ASSUME TypeInv, LeftInv, Panic
  PROVE  LeftInv'
<1>1. /\ turns # <<>> /\ turns' = <<>> /\ missed' = missed \cup Misses
      /\ status' = [status EXCEPT ![book.current] = IF @ \in Ended THEN @ ELSE "failed"]
  BY DEF Panic, Answers
<1>2. prompt.at = "running" /\ prompt # Idle /\ status \in [Runs -> Statuses]
  BY <1>1, IdleIsTyped DEF TypeInv, Typed, Paired
<1>3. ASSUME NEW r \in Runs, status'[r] = "running" PROVE r \in missed'
  <2>1. status[r] = "running" /\ r # book.current
    BY <1>1, <1>2, <1>3 DEF Ended
  <2>2. r \in missed \/ Held(r)
    BY <1>2, <2>1 DEF LeftInv, Asked, CancelComes
  <2> QED
    BY <1>1, <2>1, <2>2 DEF Held, Misses
<1> QED
  BY <1>1, <1>3 DEF LeftInv

\* A prompt that is taken up, and a ledger that is replayed for one.
LEMMA PromptLeft ==
  ASSUME TypeInv, LeftInv, Prompt
  PROVE  LeftInv'
<1>1. prompt = Idle /\ ~cancelling /\ UNCHANGED <<turns, missed>>
  BY DEF Prompt, CanPrompt
<1>2. turns = <<>> /\ status \in [Runs -> Statuses]
  BY <1>1, NoTurnsYet, IdleIsTyped DEF TypeInv, Typed
<1>3. \A r \in Runs : status'[r] = "running" => status[r] = "running"
  <2>1. \E q : status' = status \/ status' = Opened(q)
    BY Zenon DEF Prompt
  <2> QED
    BY <1>2, <2>1 DEF Opened
<1>4. ASSUME NEW r \in Runs, status'[r] = "running" PROVE r \in missed'
  <2>1. prompt.at = "none"
    BY <1>1, IdleIsTyped
  <2> QED
    BY <1>1, <1>2, <1>3, <1>4, <2>1 DEF LeftInv, Held, Asked, CancelComes
<1> QED
  BY <1>1, <1>2, <1>4 DEF LeftInv

LEMMA ReplayLeft ==
  ASSUME TypeInv, LeftInv, Replay
  PROVE  LeftInv'
<1>1. /\ prompt = Idle /\ ~cancelling /\ turns = <<>> /\ UNCHANGED <<turns, missed>>
      /\ status \in [Runs -> Statuses] /\ prompt.at = "none" /\ book \in Books
  BY ReplaySplits, IdleIsTyped DEF Replay, CanPrompt, TypeInv, Typed
<1>2. PICK from \in Runs : \E r \in Runs :
        /\ Asks(r, About(book.kept[from], "call"), r = from, TRUE)
        /\ status' = [status EXCEPT ![r] = "running"]
  BY ReplaySplits
<1>3. PICK r \in Runs :
        /\ Asks(r, About(book.kept[from], "call"), r = from, TRUE)
        /\ status' = [status EXCEPT ![r] = "running"]
  BY <1>2
<1>4. prompt'.at = "planning" /\ prompt'.run = r
  <2>1. About(book.kept[from], "call") \in SUBSET What
    <3>1. book.kept[from] \in Seq(Ev)
      BY <1>1 DEF Books
    <3> QED
      BY <3>1, AboutIsWhat
  <2>2. (r = from) \in BOOLEAN /\ TRUE \in BOOLEAN /\ r \in Runs \cup {NoRun}
    OBVIOUS
  <2> QED
    BY <1>3, <2>1, <2>2, AsksEffect
<1>5. ASSUME NEW q \in Runs, status'[q] = "running" PROVE q \in missed' \/ Asked(q)'
  <2>1. CASE q = r
    BY <1>4, <2>1 DEF Asked
  <2>2. CASE q # r
    <3>1. status[q] = "running"
      BY <1>1, <1>3, <1>5, <2>2
    <3> QED
      BY <1>1, <3>1 DEF LeftInv, Held, Asked, CancelComes
  <2> QED
    BY <2>1, <2>2
<1> QED
  BY <1>1, <1>5 DEF LeftInv

\* What is running while a prompt is planned or launched.
LEMMA RunningMeanwhile ==
  ASSUME TypeInv, LeftInv, prompt.at \in {"planning", "launching", "intake_only"}, NEW r \in Runs, status[r] = "running"
  PROVE  r \in missed \/ r = prompt.run
<1>1. turns = <<>> /\ prompt # Idle
  BY NoTurnsYet, IdleIsTyped
<1> QED
  BY <1>1 DEF LeftInv, Held, Asked, CancelComes

LEMMA PlanLeft ==
  ASSUME TypeInv, LeftInv, Plan
  PROVE  LeftInv'
<1>1. /\ prompt.at = "planning" /\ turns = <<>> /\ UNCHANGED <<open, status, ctx, cancelling>> /\ prompt \in Prompts
  <2>1. prompt.at = "planning"
    BY PlanSplits
  <2> QED
    BY <2>1, PlanSplits, NoTurnsYet DEF TypeInv, Typed
<1>2. ASSUME NEW route, NEW level \in Levels, NEW at \in {"launching", "intake_only"},
             prompt' = [RunChosen(prompt, route) EXCEPT !.at = at, !.level = level]
      PROVE  /\ prompt'.at = at /\ prompt'.run = RunChosen(prompt, route).run
             /\ route = "continue" => prompt'.run = prompt.run
  <2> DEFINE q == Planned(prompt, route, at, level)
  <2>1. Decided(prompt, q, route) /\ q.at = at
    BY <1>1, RunChosenEffect
  <2>2. prompt' = q
    BY <1>2 DEF Planned
  <2> HIDE DEF q
  <2>3. Decided(prompt, prompt', route) /\ prompt'.at = at
    BY <2>1, <2>2
  <2> QED
    BY <2>3 DEF Decided
<1>3. /\ turns' = <<>>
      /\ \/ missed' = missed /\ prompt'.at \in {"launching", "intake_only"} /\ prompt'.run = prompt.run
         \/ missed' = Left(prompt.run)
  <2>1. CASE PlansFromFacts
    <3>1. UNCHANGED <<turns, missed>>
      BY <2>1 DEF PlansFromFacts
    <3>2. PICK level \in Levels :
            prompt' = [RunChosen(prompt, "continue") EXCEPT !.at = "launching", !.level = level]
      BY <2>1 DEF PlansFromFacts
    <3>3. prompt'.at = "launching" /\ prompt'.run = prompt.run
      BY <1>2, <3>2
    <3> QED
      BY <1>1, <3>1, <3>3
  <2>2. CASE PlansFromRouter
    <3>1. PICK route \in {"start", "continue", "revise"}, level \in Levels, at \in {"launching", "intake_only"} :
            /\ prompt' = [RunChosen(prompt, route) EXCEPT !.at = at, !.level = level]
            /\ missed' = IF RunChosen(prompt, route).run = prompt.run THEN missed ELSE Left(prompt.run)
      BY <2>2 DEF PlansFromRouter
    <3>2. prompt'.at = at /\ prompt'.run = RunChosen(prompt, route).run
      BY <1>2, <3>1
    <3>3. turns' = <<>>
      BY <1>1, <2>2 DEF PlansFromRouter
    <3> QED
      BY <3>1, <3>2, <3>3
  <2>3. CASE PlansNothing
    BY <2>3 DEF PlansNothing, Answers
  <2> QED
    BY <2>1, <2>2, <2>3, PlanSplits
<1>4. ASSUME NEW r \in Runs, status'[r] = "running" PROVE r \in missed' \/ Asked(r)'
  <2>1. status[r] = "running" /\ (r \in missed \/ r = prompt.run)
    BY <1>1, <1>4, RunningMeanwhile
  <2>2. CASE missed' = missed /\ prompt'.at \in {"launching", "intake_only"} /\ prompt'.run = prompt.run
    BY <2>1, <2>2 DEF Asked
  <2>3. CASE missed' = Left(prompt.run)
    BY <2>1, <2>3, BoundOnRuns DEF Left
  <2> QED
    BY <1>3, <2>2, <2>3
<1> QED
  BY <1>3, <1>4 DEF LeftInv

LEMMA LaunchLeft ==
  ASSUME TypeInv, Stored, LeftInv, Launch \/ IntakeOnly
  PROVE  LeftInv'
<1>1. /\ prompt.at \in {"launching", "intake_only"} /\ turns = <<>> /\ UNCHANGED <<open, ctx, cancelling>>
      /\ status \in [Runs -> Statuses]
  <2>1. prompt.at \in {"launching", "intake_only"} /\ UNCHANGED <<open, ctx, cancelling>>
    BY LaunchSplits, IntakeOnlySplits
  <2> QED
    BY <2>1, NoTurnsYet DEF TypeInv, Typed
<1>2. ASSUME NEW r \in Runs, TakesRun(r), NEW q \in Runs, status[q] = "running", q \notin missed
      PROVE  q = r
  <2>1. q = prompt.run
    BY <1>1, <1>2, RunningMeanwhile
  <2> QED
    BY <1>2, <2>1 DEF TakesRun, Holds
<1>3. CASE Launch
  <2>1. PICK r \in Runs : TakesRun(r) /\ (Begins(r) \/ IsRefused(r))
    BY <1>3, LaunchSplits
  <2>2. CASE Begins(r)
    <3>1. DOMAIN turns' = {1} /\ turns'[1].run = r
      <4>1. prompt.at = "launching"
        BY <1>3, LaunchSplits
      <4> QED
        BY <2>2, <4>1, BeginsTurn, NewTurnIs
    <3>2. status' = [status EXCEPT ![r] = "running"] /\ missed' = MissedAlready(r)
      BY <2>2 DEF Begins
    <3>3. missed \subseteq missed' /\ (ctx = "cancelled" /\ ~cancelling => r \in missed')
      BY <3>2 DEF MissedAlready
    <3>4. ASSUME NEW q \in Runs, status'[q] = "running" PROVE q \in missed' \/ Held(q)'
      <4>1. CASE q = r
        BY <3>1, <4>1 DEF Held
      <4>2. CASE q # r
        BY <1>1, <1>2, <2>1, <3>2, <3>3, <3>4, <4>2
      <4> QED
        BY <4>1, <4>2
    <3> QED
      BY <1>1, <3>1, <3>3, <3>4 DEF LeftInv
  <2>3. CASE IsRefused(r)
    <3>1. turns' = <<>> /\ status[r] \in Ended /\ UNCHANGED <<status, missed>>
      BY <2>3 DEF IsRefused, Answers
    <3>2. \A q \in Runs : status'[q] = "running" => q \in missed'
      BY <1>2, <2>1, <3>1 DEF Ended
    <3> QED
      BY <3>1, <3>2 DEF LeftInv
  <2> QED
    BY <2>1, <2>2, <2>3
<1>4. CASE IntakeOnly
  <2>1. PICK r \in Runs : \E st \in {"waiting_user_input", "blocked"} :
          /\ TakesRun(r) /\ Answers(Writes(book, r, <<Event("intake", <<>>, prompt.level)>>))
          /\ IF status[r] \in Ended THEN UNCHANGED status ELSE status' = [status EXCEPT ![r] = st]
    BY <1>4, IntakeOnlySplits
  <2>2. turns' = <<>> /\ UNCHANGED missed
    BY <1>4, <2>1, IntakeOnlySplits DEF Answers
  <2>3. \A q \in Runs : status'[q] = "running" => q # r /\ status[q] = "running"
    BY <1>1, <2>1 DEF Ended
  <2>4. \A q \in Runs : status'[q] = "running" => q \in missed'
    BY <1>2, <2>1, <2>2, <2>3
  <2> QED
    BY <2>2, <2>4 DEF LeftInv
<1> QED
  BY <1>3, <1>4

LEMMA LaunchChildLeft ==
  ASSUME TypeInv, Stored, LeftInv, LaunchChild
  PROVE  LeftInv'
<1>1. /\ turns # <<>> /\ DOMAIN turns' = 1 .. (top + 1) /\ DOMAIN turns = 1 .. top /\ top \in Nat
      /\ \A i \in DOMAIN turns : turns'[i] = turns[i]
      /\ turns'[top + 1].run = made + 1
      /\ made + 1 \in Runs /\ status' = [status EXCEPT ![made + 1] = "running"]
  BY LaunchesChild, ChildIs DEF ChildTurn, NewTurn
<1>2. /\ UNCHANGED <<open, prompt, ctx, cancelling, missed>> /\ 1 \in DOMAIN turns
      /\ prompt.at = "running" /\ prompt # Idle /\ status \in [Runs -> Statuses]
  BY <1>1, InATurn, IdleIsTyped DEF LaunchChild, TypeInv, Typed, Paired
<1>3. ASSUME NEW r \in Runs, status'[r] = "running" PROVE r \in missed' \/ Held(r)'
  <2>1. CASE r = made + 1
    BY <1>1, <2>1 DEF Held
  <2>2. CASE r # made + 1
    <3>1. status[r] = "running"
      BY <1>1, <1>2, <1>3, <2>2
    <3>2. r \in missed \/ Held(r)
      BY <1>2, <3>1 DEF LeftInv, Asked, CancelComes
    <3> QED
      BY <1>1, <1>2, <3>2 DEF Held
  <2> QED
    BY <2>1, <2>2
<1>4. turns'[1].run = turns[1].run /\ status'[turns[1].run] = status[turns[1].run]
  <2>1. status[made + 1] = "absent"
    BY <1>1, BoundOnRuns DEF Stored
  <2>2. turns[1].run \in Runs /\ turns[1].run # made + 1
    BY <1>1, <1>2, <2>1, InATurn DEF Stored
  <2> QED
    BY <1>1, <1>2, <2>2
<1> QED
  BY <1>1, <1>2, <1>3, <1>4 DEF LeftInv

LEMMA LeftStep ==
  ASSUME TypeInv, Stored, LeftInv, [Next]_vars
  PROVE  LeftInv'
<1>1. CASE StepHead \/ LosesItsContext \/ BeginCall \/ LoseCall \/ AnswerCall \/ Finish \/ Delegate \/ NoChild
  BY <1>1, TurnStepLeft, TurnLeft
<1>2. CASE CancelContext \/ Steer \/ CloseSession \/ UNCHANGED vars
  BY <1>2, OutsideLeft
<1>3. CASE NewSession \/ Crash
  <2>1. status' = [r \in Runs |-> "absent"] /\ turns' = <<>>
    BY <1>3, NewSessionEffect DEF NewSession, Crash
  <2> QED
    BY <2>1 DEF LeftInv
<1>4. CASE Prompt \/ Replay \/ Plan \/ Launch \/ IntakeOnly \/ LaunchChild \/ CancelRun \/ Panic
  BY <1>4, PromptLeft, ReplayLeft, PlanLeft, LaunchLeft, LaunchChildLeft, CancelRunLeft, PanicLeft
<1> QED
  BY <1>1, <1>2, <1>3, <1>4, Zenon DEF Next

LEMMA LeftWasMissed == ASSUME TypeInv, LeftInv PROVE LeftRunningWasMissed
<1>1. prompt = Idle => turns = <<>> /\ prompt.at = "none"
  BY NoTurnsYet, IdleIsTyped
<1> QED
  BY <1>1 DEF LeftInv, Held, Asked, CancelComes, LeftRunningWasMissed

LEMMA InitLeft == ASSUME Init PROVE LeftInv
BY DEF Init, LeftInv

-----------------------------------------------------------------------------
(* The theorems.                                                           *)

LEMMA InitStored == ASSUME Init PROVE Stored /\ ToldInv /\ HeardInv
<1>1. /\ turns = <<>> /\ \A r \in Runs : status[r] = "absent" /\ book.ledger[r] = <<>> /\ book.kept[r] = <<>>
      /\ book.current = NoRun
  BY DEF Init, EmptyBook
<1> QED
  BY <1>1 DEF Stored, ToldInv, ToldApart, HeardInv

LEMMA StoreHolds == Spec => [](TypeInv /\ Stored)
<1>1. Init => TypeInv /\ Stored
  BY InitTyped, InitStored
<1>2. TypeInv /\ Stored /\ [Next]_vars => TypeInv' /\ Stored'
  BY EveryStep, StoredStep
<1> QED
  BY <1>1, <1>2, PTL DEF Spec

\* One request, the children it hands its work to included, takes no more model actions than
\* MaxSteps for itself and for each delegation it may make, and a child never delegates: every
\* return, abandoned call and panic leaves the count a prompt is sized by.
THEOREM OneTreePerRequest == Spec => []SizedTree
<1>1. Init => TypeInv /\ TreeInv
  BY InitTyped, InitTree
<1>2. TypeInv /\ TreeInv /\ [Next]_vars => TypeInv' /\ TreeInv'
  BY EveryStep, TreeStep
<1>3. TypeInv /\ TreeInv => SizedTree
  BY TreeIsThatOfAPrompt
<1> QED
  BY <1>1, <1>2, <1>3, PTL DEF Spec

\* Whichever calls are lost, and whatever is replayed, restarted or prompted again: the calls
\* of a run bring the host its records in order and none twice, and no turn hears an
\* instruction it heard before.
THEOREM NothingIsToldTwice == Spec => []NothingTwice
<1> DEFINE I == TypeInv /\ Stored /\ ToldInv /\ HeardInv /\ TreeInv /\ StreamInv
<1>1. Init => I
  BY InitTyped, InitStored, InitTree, InitStream
<1>2. I /\ [Next]_vars => I'
  <2> SUFFICES ASSUME I, [Next]_vars PROVE I'
    OBVIOUS
  <2>1. TypeInv' /\ Stored' /\ ToldInv' /\ HeardInv' /\ TreeInv'
    BY EveryStep, StoredStep, ToldStep, HeardStep, TreeStep
  <2>2. StreamInv'
    BY <2>1, StreamStep
  <2> QED
    BY <2>1, <2>2
<1>3. I => NothingTwice
  BY NothingHeardTwice, StreamIsInOrder DEF NothingTwice
<1> HIDE DEF I
<1> QED
  BY <1>1, <1>2, <1>3, PTL DEF Spec

\* A turn that runs where the host's ledger was replayed knows every call of it; a run the host says
\* it resumes, after a crash too, keeps the level it had unless the host pins another; and no turn
\* runs below the level the host pins.
THEOREM ResumesAsItWas == Spec => []ResumedWhole
<1>1. Init => TypeInv /\ Stored /\ HandedInv
  BY InitTyped, InitStored, InitHanded
<1>2. TypeInv /\ Stored /\ HandedInv /\ [Next]_vars => TypeInv' /\ Stored' /\ HandedInv'
  BY EveryStep, StoredStep, HandedStep
<1>3. TypeInv /\ HandedInv => ResumedWhole
  BY ResumesWhole
<1> QED
  BY <1>1, <1>2, <1>3, PTL DEF Spec

\* A run that still runs when its session is idle lost its end to another run, or was left by
\* the prompt its records were replayed for: every other cancel, panic and return reached it.
THEOREM OnlyMissedRunsRunOn == Spec => []LeftRunningWasMissed
<1>1. Init => TypeInv /\ Stored /\ LeftInv
  BY InitTyped, InitStored, InitLeft
<1>2. TypeInv /\ Stored /\ LeftInv /\ [Next]_vars => TypeInv' /\ Stored' /\ LeftInv'
  BY EveryStep, StoredStep, LeftStep
<1>3. TypeInv /\ LeftInv => LeftRunningWasMissed
  BY LeftWasMissed
<1> QED
  BY <1>1, <1>2, <1>3, PTL DEF Spec
=============================================================================
