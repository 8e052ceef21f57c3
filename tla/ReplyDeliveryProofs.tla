----------------------- MODULE ReplyDeliveryProofs -----------------------
(***************************************************************************)
(* Proofs about ReplyDelivery, for any files, messages and limits: what is *)
(* carried is current and sound, nothing is read twice, and a turn that is *)
(* stopped keeps back no file.                                             *)
(***************************************************************************)
EXTENDS ReplyDelivery, FiniteSetTheorems, WellFoundedInduction, TLAPS

-----------------------------------------------------------------------------
(* Keep leaves the kept entries, in their order.                           *)

Rank(kept, i) == Cardinality({j \in kept : j <= i})

LEMMA RanksAreDistinct ==
  ASSUME NEW n \in Nat, NEW kept \in SUBSET (1 .. n)
  PROVE  /\ IsFiniteSet(kept) /\ Cardinality(kept) \in Nat /\ kept \subseteq Nat
         /\ \A i \in kept : Rank(kept, i) \in 1 .. Cardinality(kept)
         /\ \A i, j \in kept : i < j => Rank(kept, i) < Rank(kept, j)
<1> DEFINE Upto(i) == {j \in kept : j <= i}
<1>1. IsFiniteSet(kept) /\ Cardinality(kept) \in Nat /\ kept \subseteq Nat
  <2>1. IsFiniteSet(1 .. n)
    BY FS_Interval
  <2>2. IsFiniteSet(kept)
    BY <2>1, FS_Subset
  <2> QED
    BY <2>2, FS_CardinalityType
<1>2. ASSUME NEW i \in kept
      PROVE  IsFiniteSet(Upto(i)) /\ Cardinality(Upto(i)) \in Nat /\ Cardinality(Upto(i)) <= Cardinality(kept)
  <2>1. Upto(i) \in SUBSET kept
    OBVIOUS
  <2> HIDE DEF Upto
  <2> QED
    BY <1>1, <2>1, FS_Subset, FS_CardinalityType
<1>3. ASSUME NEW i \in kept PROVE i \in Upto(i) /\ Cardinality(Upto(i)) # 0
  <2>1. i \in Nat
    BY <1>1
  <2>2. i \in Upto(i)
    BY <2>1
  <2> HIDE DEF Upto
  <2> QED
    BY <1>2, <2>2, FS_EmptySet
<1>4. ASSUME NEW i \in kept, NEW j \in kept, i < j PROVE Cardinality(Upto(i)) < Cardinality(Upto(j))
  <2>1. i \in Nat /\ j \in Nat
    BY <1>1
  <2>2. Upto(i) \in SUBSET Upto(j)
    <3>1. ASSUME NEW m \in kept, m <= i PROVE m <= j
      <4>1. m \in Nat
        BY <1>1
      <4> QED
        BY <1>4, <2>1, <3>1, <4>1
    <3> QED
      BY <3>1
  <2>3. j \notin Upto(i)
    BY <1>4, <2>1
  <2>4. IsFiniteSet(Upto(j)) /\ Cardinality(Upto(i)) \in Nat /\ Cardinality(Upto(j)) \in Nat
    BY <1>2
  <2>5. Upto(i) # Upto(j)
    BY <1>3, <2>3
  <2>6. Cardinality(Upto(i)) <= Cardinality(Upto(j)) /\ Cardinality(Upto(i)) # Cardinality(Upto(j))
    <3> HIDE DEF Upto
    <3> QED
      BY <2>2, <2>4, <2>5, FS_Subset, Zenon
  <2> QED
    BY <2>4, <2>6
<1> QED
  BY <1>1, <1>2, <1>3, <1>4 DEF Rank

LEMMA EveryRankIsTaken ==
  ASSUME NEW n \in Nat, NEW kept \in SUBSET (1 .. n), NEW k \in 1 .. Cardinality(kept)
  PROVE  \E i \in kept : Rank(kept, i) = k
<1> DEFINE C == Cardinality(kept)
           f == [i \in kept |-> Rank(kept, i)]
<1>1. IsFiniteSet(kept) /\ C \in Nat /\ kept \subseteq Nat
  BY RanksAreDistinct
<1>2. f \in Injection(kept, 1 .. C)
  <2>1. \A i \in kept : Rank(kept, i) \in 1 .. C
    BY RanksAreDistinct
  <2>2. \A i \in kept, j \in kept : Rank(kept, i) = Rank(kept, j) => i = j
    <3> SUFFICES ASSUME NEW i \in kept, NEW j \in kept, Rank(kept, i) = Rank(kept, j), i # j PROVE FALSE
      OBVIOUS
    <3>1. i \in Nat /\ j \in Nat /\ Rank(kept, i) \in Nat /\ Rank(kept, j) \in Nat
      BY <1>1, <2>1
    <3>2. i < j \/ j < i
      BY <3>1
    <3>3. Rank(kept, i) < Rank(kept, j) \/ Rank(kept, j) < Rank(kept, i)
      BY <3>2, RanksAreDistinct
    <3> QED
      BY <3>1, <3>3
  <2>3. f \in [kept -> 1 .. C]
    BY <2>1
  <2> QED
    BY <2>2, <2>3, Zenon DEF Injection, IsInjective
<1>3. IsFiniteSet(1 .. C) /\ Cardinality(1 .. C) = C
  <2>1. C \in Int /\ 1 \in Int
    BY <1>1
  <2>2. IsFiniteSet(1 .. C) /\ Cardinality(1 .. C) = IF 1 > C THEN 0 ELSE C - 1 + 1
    <3> HIDE DEF C
    <3> QED
      BY <2>1, FS_Interval, Zenon
  <2> HIDE DEF C
  <2> QED
    BY <1>1, <2>2
<1>4. f \in Surjection(kept, 1 .. C)
  <2> HIDE DEF f
  <2> QED
    BY <1>2, <1>3, FS_Injection, Zenon DEF C
<1> QED
  BY <1>4 DEF Surjection

\* t is what is left of s at the kept indexes: g says where each of its entries was.
LeftOf(t, s, kept, g) ==
  /\ g \in [DOMAIN t -> kept]
  /\ \A k \in DOMAIN t : t[k] = s[g[k]]
  /\ \A k, m \in DOMAIN t : k < m => g[k] < g[m]
  /\ \A i \in kept : \E k \in DOMAIN t : g[k] = i

LEMMA KeepLeaves ==
  ASSUME NEW S, NEW s \in Seq(S), NEW kept \in SUBSET DOMAIN s
  PROVE  /\ Keep(s, kept) \in Seq(S) /\ Len(Keep(s, kept)) <= Len(s)
         /\ \E g : LeftOf(Keep(s, kept), s, kept, g)
<1> DEFINE C == Cardinality(kept)
           Ranked(k) == CHOOSE i \in kept : Rank(kept, i) = k
           g == [k \in 1 .. C |-> Ranked(k)]
           n == Len(s)
<1>1. n \in Nat /\ DOMAIN s = 1 .. n /\ kept \in SUBSET (1 .. n)
  OBVIOUS
<1>2. Keep(s, kept) = [k \in 1 .. C |-> s[Ranked(k)]]
  BY DEF Keep, Rank
<1> HIDE DEF n
<1>3. ASSUME NEW k \in 1 .. C PROVE Ranked(k) \in kept /\ Rank(kept, Ranked(k)) = k
  BY <1>1, EveryRankIsTaken
<1>4. /\ IsFiniteSet(kept) /\ C \in Nat /\ kept \subseteq Nat
      /\ \A i \in kept : Rank(kept, i) \in 1 .. C
      /\ \A i, j \in kept : i < j => Rank(kept, i) < Rank(kept, j)
  BY <1>1, RanksAreDistinct
<1>5. C <= n
  <2>1. IsFiniteSet(1 .. n) /\ Cardinality(1 .. n) = n
    <3>1. n \in Int /\ 1 \in Int
      BY <1>1
    <3>2. IsFiniteSet(1 .. n) /\ Cardinality(1 .. n) = IF 1 > n THEN 0 ELSE n - 1 + 1
      BY <3>1, FS_Interval, Zenon
    <3> QED
      BY <1>1, <3>2
  <2>2. Cardinality(kept) <= Cardinality(1 .. n)
    BY <1>1, <2>1, FS_Subset, Zenon
  <2> QED
    BY <2>1, <2>2
<1> HIDE DEF Ranked, C
<1>6. Keep(s, kept) \in Seq(S) /\ DOMAIN Keep(s, kept) = 1 .. C /\ Len(Keep(s, kept)) = C
  BY <1>1, <1>2, <1>3, <1>4
<1>7. g \in [1 .. C -> kept] /\ \A k \in 1 .. C : g[k] = Ranked(k)
  BY <1>3
<1>8. \A k \in 1 .. C : Keep(s, kept)[k] = s[g[k]]
  BY <1>2, <1>7
<1>9. ASSUME NEW k \in 1 .. C, NEW m \in 1 .. C, k < m PROVE g[k] < g[m]
  <2>1. g[k] \in kept /\ g[m] \in kept /\ Rank(kept, g[k]) = k /\ Rank(kept, g[m]) = m
    BY <1>3, <1>7
  <2>2. g[k] \in Nat /\ g[m] \in Nat /\ k \in Nat /\ m \in Nat
    BY <1>4, <2>1
  <2>3. g[m] < g[k] => m < k
    BY <1>4, <2>1
  <2>4. g[m] # g[k]
    BY <1>9, <2>1, <2>2
  <2> QED
    BY <1>9, <2>2, <2>3, <2>4
<1>10. ASSUME NEW i \in kept PROVE \E k \in 1 .. C : g[k] = i
  <2>1. Rank(kept, i) \in 1 .. C
    BY <1>4
  <2>2. g[Rank(kept, i)] \in kept /\ Rank(kept, g[Rank(kept, i)]) = Rank(kept, i)
    BY <1>3, <1>7, <2>1
  <2>3. g[Rank(kept, i)] \in Nat /\ i \in Nat /\ Rank(kept, i) \in Nat
    BY <1>4, <2>1, <2>2
  <2>4. ~(g[Rank(kept, i)] < i) /\ ~(i < g[Rank(kept, i)])
    BY <1>4, <2>2, <2>3
  <2>5. g[Rank(kept, i)] = i
    BY <2>3, <2>4
  <2> QED
    BY <2>1, <2>5
<1> DEFINE t == Keep(s, kept)
<1> HIDE DEF g, t
<1>11. DOMAIN t = 1 .. C /\ \A k \in 1 .. C : t[k] = s[g[k]]
  BY <1>6, <1>8 DEF t
<1>12. LeftOf(t, s, kept, g)
  BY <1>7, <1>9, <1>10, <1>11 DEF LeftOf
<1> QED
  BY <1>5, <1>6, <1>12 DEF n, t

LEMMA LeastExists ==
  ASSUME NEW S, S \subseteq Nat, S # {}
  PROVE  \E n \in S : \A m \in S : n <= m
<1> DEFINE R == {ss \in Nat \X Nat : ss[1] < ss[2]}
<1>1. IsWellFoundedOn(R, Nat)
  BY NatLessThanWellFounded DEF OpToRel
<1>2. PICK n \in S : \A m \in S : <<m, n>> \notin R
  <2> HIDE DEF R
  <2> QED
    BY <1>1, WFMin, Zenon
<1>3. \A m \in S : ~(m < n)
  BY <1>2
<1> QED
  BY <1>2, <1>3

LEMMA GreatestExists ==
  ASSUME NEW n \in Nat, NEW S, S \subseteq Nat, S # {}, \A i \in S : i <= n
  PROVE  \E i \in S : \A j \in S : j <= i
<1> DEFINE T == {k \in Nat : n - k \in S}
<1>1. PICK k \in T : \A m \in T : k <= m
  <2>1. PICK i : i \in S
    OBVIOUS
  <2>2. i \in Nat /\ i <= n
    BY <2>1
  <2>3. n - i \in Nat /\ n - (n - i) = i
    BY <2>2
  <2>4. T \subseteq Nat /\ n - i \in T
    BY <2>1, <2>3
  <2> HIDE DEF T
  <2> QED
    BY <2>4, LeastExists, Zenon
<1>2. ASSUME NEW j \in S PROVE j <= n - k
  <2>1. j \in Nat /\ j <= n
    OBVIOUS
  <2>2. n - j \in Nat /\ n - (n - j) = j
    BY <2>1
  <2>3. n - j \in T
    BY <2>2
  <2>4. k <= n - j /\ k \in Nat
    BY <1>1, <2>3
  <2> QED
    BY <2>1, <2>4
<1> QED
  BY <1>1, <1>2

-----------------------------------------------------------------------------
(* Types.                                                                  *)

Text == Message \cup {Quiet}

Ob ==
  [kind : {"delivery"}, given : Given, ok : BOOLEAN]
    \cup [kind : {"call"}, ok : BOOLEAN, refused : BOOLEAN, changes : SUBSET File]
    \cup [kind : {"checkpoint", "reply"}, says : Text]

Words == [says : Text, kind : {"checkpoint", "reply", "unreceipted"}, turn : Nat]

Endings == {"none", "asked", "finished", "best_effort", "done_at_stop", "stopped"}

Typed ==
  /\ disk \in [File -> Copy]
  /\ obs \in Seq(Ob) /\ Len(obs) <= MaxObservation
  /\ attachments \in Given
  /\ sentPaths \in SUBSET delivered /\ delivered \in SUBSET File
  /\ pc \in {"acting", "replying", "asking", "parked", "redelivering", "judging", "down", "ended"}
  /\ doc \in [named : SUBSET File, cites : SUBSET Nat] /\ doc.cites \subseteq DOMAIN obs
  /\ result \in [ending : Endings, cites : SUBSET Nat, carried : Given]
  /\ resumes \in Nat
  /\ said \in Seq(Words)
  /\ unseen \in [child : SUBSET File, restart : SUBSET File]

\* What a turn has in hand where it is.
InHand ==
  /\ pc \in {"parked", "down"} => doc.cites = {}
  /\ result.ending \notin {"none", "asked"} => pc = "ended"
  /\ pc = "replying" => doc.named \subseteq delivered

TypeInv == Typed /\ InHand

\* o hands f over; o is a call that changed f.
Gives(o, f) == IsDelivered(o) /\ f \in DOMAIN o.given
Alters(o, f) == o.kind = "call" /\ ~o.refused /\ f \in o.changes

LEMMA Obs ==
  ASSUME NEW o \in Ob
  PROVE  /\ o.kind = "delivery" => o.given \in Given /\ o.ok \in BOOLEAN
         /\ o.kind = "call" => o.ok \in BOOLEAN /\ o.refused \in BOOLEAN /\ o.changes \in SUBSET File
         /\ IsMidTask(o) => o.says \in Text
         /\ o.kind \in {"delivery", "call", "checkpoint", "reply"}
BY DEF Ob, IsMidTask

LEMMA ObsMade ==
  /\ \A given \in Given, ok \in BOOLEAN : Delivery(given, ok) \in Ob
  /\ \A ok \in BOOLEAN, refused \in BOOLEAN, changes \in SUBSET File : Own(ok, refused, changes) \in Ob
  /\ \A m \in Text, kind \in {"checkpoint", "reply"} : Said(kind, m) \in Ob
BY DEF Delivery, Own, Said, Ob

LEMMA AGiven ==
  ASSUME NEW F \in SUBSET File, NEW x \in [F -> Copy]
  PROVE  x \in Given /\ DOMAIN x = F
BY DEF Given

LEMMA GivenIs ==
  ASSUME NEW x \in Given
  PROVE  DOMAIN x \in SUBSET File /\ x \in [DOMAIN x -> Copy] /\ \A f \in DOMAIN x : x[f] \in Copy
<1>1. PICK F \in SUBSET File : x \in [F -> Copy]
  BY DEF Given
<1> QED
  BY <1>1

LEMMA NothingGiven == NoFiles \in Given /\ DOMAIN NoFiles = {}
<1>1. NoFiles \in [{} -> Copy]
  BY DEF NoFiles
<1> QED
  BY <1>1, AGiven

LEMMA MergeGiven ==
  ASSUME NEW have \in Given, NEW more \in Given
  PROVE  Merge(have, more) \in Given /\ DOMAIN Merge(have, more) = DOMAIN have \cup DOMAIN more
<1>1. DOMAIN have \cup DOMAIN more \in SUBSET File
  BY GivenIs
<1>2. Merge(have, more) \in [DOMAIN have \cup DOMAIN more -> Copy]
  BY GivenIs DEF Merge
<1> QED
  BY <1>1, <1>2, AGiven

LEMMA NotYetSentGiven ==
  ASSUME NEW files \in Given, NEW sent
  PROVE  /\ NotYetSent(files, sent) \in Given /\ DOMAIN NotYetSent(files, sent) = DOMAIN files \ sent
         /\ \A f \in DOMAIN files \ sent : NotYetSent(files, sent)[f] = files[f]
<1>1. DOMAIN files \ sent \in SUBSET File
  BY GivenIs
<1>2. NotYetSent(files, sent) \in [DOMAIN files \ sent -> Copy]
  BY GivenIs DEF NotYetSent
<1> QED
  BY <1>1, <1>2, AGiven DEF NotYetSent

\* k is the last of s that hands f over.
IsLatest(s, k, f) ==
  k \in DOMAIN s /\ Gives(s[k], f) /\ \A i \in DOMAIN s : i > k => ~Gives(s[i], f)

LEMMA OneLatest ==
  ASSUME NEW S, NEW s \in Seq(S), NEW f, NEW k, NEW m, IsLatest(s, k, f), IsLatest(s, m, f)
  PROVE  k = m
<1>1. k \in Nat /\ m \in Nat
  BY DEF IsLatest
<1> QED
  BY <1>1 DEF IsLatest

LEMMA LatestIs ==
  ASSUME NEW S, NEW s \in Seq(S), NEW f
  PROVE  \/ LatestDelivery(s, f) = 0 /\ \A i \in DOMAIN s : ~Gives(s[i], f)
         \/ IsLatest(s, LatestDelivery(s, f), f) /\ LatestDelivery(s, f) # 0
<1> DEFINE I == {i \in 1 .. Len(s) : Gives(s[i], f)}
<1>1. Len(s) \in Nat /\ DOMAIN s = 1 .. Len(s)
  OBVIOUS
<1>2. LatestDelivery(s, f) = IF I # {} THEN Max(I) ELSE 0
  BY DEF LatestDelivery, SelectLastInSeq, Gives
<1>3. CASE I = {}
  BY <1>1, <1>2, <1>3
<1>4. CASE I # {}
  <2>1. I \subseteq Nat /\ \A i \in I : i <= Len(s)
    OBVIOUS
  <2>2. \E i \in I : \A j \in I : j <= i
    <3> HIDE DEF I
    <3> QED
      BY <1>1, <1>4, <2>1, GreatestExists
  <2>3. Max(I) \in I /\ \A j \in I : Max(I) >= j
    <3>1. \E i \in I : \A j \in I : i >= j
      BY <2>1, <2>2
    <3> HIDE DEF I
    <3> QED
      BY <3>1 DEF Max
  <2>4. LatestDelivery(s, f) \in I /\ \A j \in I : LatestDelivery(s, f) >= j
    <3> HIDE DEF I
    <3> QED
      BY <1>2, <1>4, <2>3
  <2>5. LatestDelivery(s, f) \in 1 .. Len(s) /\ Gives(s[LatestDelivery(s, f)], f)
    BY <2>4
  <2>6. \A j \in DOMAIN s : j > LatestDelivery(s, f) => ~Gives(s[j], f)
    <3>1. ASSUME NEW j \in DOMAIN s, Gives(s[j], f) PROVE ~(j > LatestDelivery(s, f))
      <4>1. j \in I
        BY <1>1, <3>1
      <4> QED
        BY <2>1, <2>4, <4>1
    <3> QED
      BY <3>1
  <2> QED
    BY <1>1, <2>5, <2>6 DEF IsLatest
<1> QED
  BY <1>3, <1>4

LEMMA HandedOverIs ==
  ASSUME NEW S, NEW s \in Seq(S), \A i \in DOMAIN s : IsDelivered(s[i]) => s[i].given \in Given
  PROVE  /\ HandedOver(s) \in Given
         /\ DOMAIN HandedOver(s) = {f \in File : \E i \in DOMAIN s : Gives(s[i], f)}
<1> DEFINE Of(f) == {i \in DOMAIN s : Gives(s[i], f)}
           files == {f \in File : Of(f) # {}}
<1>1. HandedOver(s) = [f \in files |-> s[CHOOSE i \in Of(f) : \A j \in Of(f) : i <= j].given[f]]
  BY DEF HandedOver, Indexes, Gives
<1>2. ASSUME NEW f \in files
      PROVE  s[CHOOSE i \in Of(f) : \A j \in Of(f) : i <= j].given[f] \in Copy
  <2>1. Of(f) \subseteq Nat /\ Of(f) # {}
    OBVIOUS
  <2>2. \E i \in Of(f) : \A j \in Of(f) : i <= j
    <3> HIDE DEF Of
    <3> QED
      BY <2>1, LeastExists
  <2>3. \A i \in Of(f) : s[i].given[f] \in Copy
    <3>1. ASSUME NEW i \in Of(f) PROVE s[i].given[f] \in Copy
      <4>1. i \in DOMAIN s /\ Gives(s[i], f)
        OBVIOUS
      <4>2. s[i].given \in Given
        BY <4>1 DEF Gives
      <4> QED
        BY <4>1, <4>2, GivenIs DEF Gives
    <3> QED
      BY <3>1
  <2> HIDE DEF Of
  <2> QED
    BY <2>2, <2>3
<1>3. files \in SUBSET File /\ HandedOver(s) \in [files -> Copy]
  BY <1>1, <1>2
<1>4. HandedOver(s) \in Given /\ DOMAIN HandedOver(s) = files
  BY <1>3, AGiven
<1> QED
  BY <1>4

LEMMA HandedOverObs ==
  ASSUME NEW s \in Seq(Ob)
  PROVE  /\ HandedOver(s) \in Given
         /\ DOMAIN HandedOver(s) = {f \in File : \E i \in DOMAIN s : Gives(s[i], f)}
<1>1. \A i \in DOMAIN s : IsDelivered(s[i]) => s[i].given \in Given
  BY Obs DEF IsDelivered
<1> QED
  BY <1>1, HandedOverIs

-----------------------------------------------------------------------------
(* What the actions do to the observations, the files and the words.       *)

\* The observations of s are still there in t, and what was added is marked.
Extends(s, t) ==
  /\ Len(s) <= Len(t) /\ DOMAIN s \subseteq DOMAIN t
  /\ \A k \in DOMAIN s : t[k] = s[k]

LEMMA AppendExtends ==
  ASSUME NEW S, NEW s \in Seq(S), NEW o \in S
  PROVE  /\ Append(s, o) \in Seq(S) /\ Extends(s, Append(s, o)) /\ Len(Append(s, o)) = Len(s) + 1
         /\ DOMAIN Append(s, o) = DOMAIN s \cup {Len(s) + 1} /\ Append(s, o)[Len(s) + 1] = o
         /\ \A k \in DOMAIN s : Append(s, o)[k] = s[k] /\ k < Len(s) + 1
BY DEF Extends

\* A message and then a call, or the call alone.
SpeaksUp(o) ==
  \/ obs' = Append(obs, o) /\ UNCHANGED said
  \/ \E m \in Message : /\ Allowed(m, obs) /\ obs' = Append(Append(obs, Said("checkpoint", m)), o)
                        /\ UNCHANGED said \/ Tell(m, "checkpoint")

LEMMA SpeakSplits ==
  ASSUME Typed, NEW m \in Message \cup {Quiet}, NEW o \in Ob, Speak(m, o)
  PROVE  SpeaksUp(o) /\ Len(obs') <= MaxObservation
<1>1. MaxObservation \in Nat /\ Len(obs) \in Nat /\ obs \in Seq(Ob)
  BY LimitAssumption DEF Typed
<1>2. CASE Room(1) /\ obs' = Append(obs, o) /\ UNCHANGED said
  BY <1>1, <1>2 DEF SpeaksUp, Room
<1>3. CASE /\ m # Quiet /\ Allowed(m, obs) /\ Room(2)
           /\ obs' = obs \o <<Said("checkpoint", m), o>>
           /\ UNCHANGED said \/ Tell(m, "checkpoint")
  <2>1. m \in Message
    BY <1>3
  <2> DEFINE w == Said("checkpoint", m)
  <2>2. w \in Ob
    BY <2>1, ObsMade DEF Text
  <2> HIDE DEF w
  <2>3. obs \o <<w, o>> = Append(Append(obs, w), o) /\ Len(obs \o <<w, o>>) = Len(obs) + 2
    BY <1>1, <2>2
  <2>4. obs' = obs \o <<w, o>>
    BY <1>3 DEF w
  <2>5. Len(obs') <= MaxObservation
    BY <1>1, <1>3, <2>3, <2>4 DEF Room
  <2> QED
    BY <1>3, <2>1, <2>3, <2>4, <2>5 DEF SpeaksUp, w
<1> QED
  BY <1>2, <1>3, Zenon DEF Speak

\* A delivery that succeeded, and one that did not.
Delivers(files) ==
  /\ \E d \in Ob : /\ obs' = Append(obs, d) /\ IsDelivered(d) /\ d.given \in Given /\ DOMAIN d.given = files
                   /\ \A f \in files : d.given[f] = disk[f]
                   /\ attachments' = Merge(attachments, d.given)
  /\ delivered' = delivered \cup files
  /\ unseen' = [child |-> unseen.child \ files, restart |-> unseen.restart \ files]

FailsToDeliver ==
  /\ \E d \in Ob : obs' = Append(obs, d) /\ d.kind = "delivery" /\ ~d.ok
  /\ UNCHANGED <<attachments, delivered, unseen>>

LEMMA DeliverSplits ==
  ASSUME Typed, NEW files \in SUBSET File, NEW ok \in BOOLEAN, Deliver(files, ok)
  PROVE  /\ ok => Delivers(files)
         /\ ~ok => FailsToDeliver
         /\ Len(obs') = Len(obs) + 1 /\ Len(obs') <= MaxObservation
<1> DEFINE given == [f \in files |-> disk[f]]
           d == Delivery(IF ok THEN given ELSE NoFiles, ok)
<1>1. given \in [files -> Copy] /\ obs \in Seq(Ob) /\ MaxObservation \in Nat
  BY LimitAssumption DEF Typed
<1>2. given \in Given /\ DOMAIN given = files /\ \A f \in files : given[f] = disk[f]
  BY <1>1, AGiven
<1> HIDE DEF given
<1>3. d \in Ob /\ d.kind = "delivery" /\ d.ok = ok /\ (ok => d.given = given)
  BY <1>2, NothingGiven, ObsMade DEF Delivery
<1>4. /\ Room(1) /\ obs' = Append(obs, d)
      /\ attachments' = (IF ok THEN Merge(attachments, given) ELSE attachments)
      /\ delivered' = (IF ok THEN delivered \cup files ELSE delivered)
      /\ unseen' = (IF ok THEN [child |-> unseen.child \ files, restart |-> unseen.restart \ files] ELSE unseen)
  BY DEF Deliver, given
<1> HIDE DEF d
<1>5. Len(obs') = Len(obs) + 1 /\ Len(obs') <= MaxObservation
  BY <1>1, <1>3, <1>4 DEF Room
<1>6. ok => Delivers(files)
  BY <1>2, <1>3, <1>4 DEF Delivers, IsDelivered
<1>7. ~ok => FailsToDeliver
  BY <1>3, <1>4 DEF FailsToDeliver
<1> QED
  BY <1>5, <1>6, <1>7

LEMMA DeliveryTyped ==
  ASSUME Typed, NEW files \in SUBSET File, Delivers(files) \/ FailsToDeliver
  PROVE  /\ obs' \in Seq(Ob) /\ Extends(obs, obs') /\ Len(obs') = Len(obs) + 1
         /\ attachments' \in Given /\ DOMAIN attachments \subseteq DOMAIN attachments'
         /\ delivered \subseteq delivered' /\ delivered' \in SUBSET File
         /\ unseen' \in [child : SUBSET File, restart : SUBSET File]
<1>1. obs \in Seq(Ob) /\ attachments \in Given /\ delivered \in SUBSET File
      /\ unseen \in [child : SUBSET File, restart : SUBSET File]
  BY DEF Typed
<1>2. CASE Delivers(files)
  <2>1. PICK d \in Ob : obs' = Append(obs, d) /\ d.given \in Given /\ attachments' = Merge(attachments, d.given)
    BY <1>2 DEF Delivers
  <2>2. obs' \in Seq(Ob) /\ Extends(obs, obs') /\ Len(obs') = Len(obs) + 1
    BY <1>1, <2>1, AppendExtends
  <2>3. attachments' \in Given /\ DOMAIN attachments \subseteq DOMAIN attachments'
    BY <1>1, <2>1, MergeGiven
  <2> QED
    BY <1>1, <1>2, <2>2, <2>3 DEF Delivers
<1>3. CASE FailsToDeliver
  BY <1>1, <1>3, AppendExtends DEF FailsToDeliver
<1> QED
  BY <1>2, <1>3

LEMMA ChangeEffect ==
  ASSUME Typed, NEW f \in File, NEW shape \in Shapes, Change(f, shape)
  PROVE  disk' \in [File -> Copy] /\ \A g \in File \ {f} : disk'[g] = disk[g]
<1>1. MaxVersion \in Nat /\ disk \in [File -> Copy] /\ disk[f] \in Copy /\ disk[f].v < MaxVersion
      /\ disk' = [disk EXCEPT ![f] = [v |-> @.v + 1, shape |-> shape]]
  BY LimitAssumption DEF Typed, Change
<1> DEFINE c == [v |-> disk[f].v + 1, shape |-> shape]
<1>2. c \in Copy
  BY <1>1 DEF Copy
<1>3. disk' = [disk EXCEPT ![f] = c]
  BY <1>1
<1> HIDE DEF c
<1> QED
  BY <1>1, <1>2, <1>3

\* The call of a turn: it changed a file, or nothing.
CallSays(o) ==
  /\ o \in Ob /\ o.kind = "call" /\ SpeaksUp(o) /\ Len(obs') <= MaxObservation
  /\ \/ UNCHANGED disk
     \/ \E f \in File, shape \in Shapes : Change(f, shape) /\ Alters(o, f)

LEMMA CallSplits ==
  ASSUME Typed, NEW m \in Message \cup {Quiet}, NEW ok \in BOOLEAN, Call(m, ok)
  PROVE  /\ \E o \in Ob : CallSays(o)
         /\ pc = "acting"
         /\ UNCHANGED <<attachments, sentPaths, request, pc, doc, result, resumes, posted, delivered, unseen>>
<1>1. pc = "acting" /\ UNCHANGED <<attachments, sentPaths, request, pc, doc, result, resumes, posted, delivered, unseen>>
  BY DEF Call
<1>2. ASSUME NEW f \in File, NEW shape \in Shapes, Change(f, shape), Speak(m, Own(ok, FALSE, {f}))
      PROVE  \E o \in Ob : CallSays(o)
  <2> DEFINE o == Own(ok, FALSE, {f})
  <2>1. o \in Ob /\ o.kind = "call" /\ Alters(o, f)
    BY ObsMade DEF Own, Alters
  <2>2. Speak(m, o)
    BY <1>2
  <2> HIDE DEF o
  <2>3. SpeaksUp(o) /\ Len(obs') <= MaxObservation
    BY <2>1, <2>2, SpeakSplits
  <2> QED
    BY <1>2, <2>1, <2>3 DEF CallSays
<1>3. ASSUME UNCHANGED disk, Speak(m, Own(FALSE, TRUE, {}))
      PROVE  \E o \in Ob : CallSays(o)
  <2> DEFINE o == Own(FALSE, TRUE, {})
  <2>1. o \in Ob /\ o.kind = "call"
    BY ObsMade DEF Own
  <2>2. Speak(m, o)
    BY <1>3
  <2> HIDE DEF o
  <2>3. SpeaksUp(o) /\ Len(obs') <= MaxObservation
    BY <2>1, <2>2, SpeakSplits
  <2> QED
    BY <1>3, <2>1, <2>3 DEF CallSays
<1> QED
  BY <1>1, <1>2, <1>3, Zenon DEF Call

LEMMA TellsAWord ==
  ASSUME said \in Seq(Words), resumes \in Nat, NEW m \in Text,
         NEW kind \in {"checkpoint", "reply", "unreceipted"}, Tell(m, kind)
  PROVE  /\ said' \in Seq(Words) /\ Len(said') = Len(said) + 1 /\ DOMAIN said' = DOMAIN said \cup {Len(said) + 1}
         /\ said'[Len(said) + 1] = [says |-> m, kind |-> kind, turn |-> resumes]
         /\ \A i \in DOMAIN said : said'[i] = said[i] /\ i < Len(said) + 1
<1> DEFINE w == [says |-> m, kind |-> kind, turn |-> resumes]
<1>1. w \in Words /\ said' = Append(said, w)
  BY DEF Words, Tell
<1> HIDE DEF w
<1>2. /\ said' \in Seq(Words) /\ Len(said') = Len(said) + 1 /\ DOMAIN said' = DOMAIN said \cup {Len(said) + 1}
      /\ said'[Len(said) + 1] = w /\ \A i \in DOMAIN said : said'[i] = said[i] /\ i < Len(said) + 1
  BY <1>1
<1> QED
  BY <1>2 DEF w

LEMMA SpeaksUpEffect ==
  ASSUME Typed, NEW o \in Ob, SpeaksUp(o)
  PROVE  /\ obs' \in Seq(Ob) /\ Extends(obs, obs') /\ said' \in Seq(Words)
         /\ \A k \in DOMAIN obs' : k \in DOMAIN obs \/ k > Len(obs)
         /\ Len(obs') \in DOMAIN obs' /\ Len(obs') > Len(obs) /\ obs'[Len(obs')] = o
         /\ \A k \in DOMAIN obs' \ DOMAIN obs : obs'[k] = o \/ obs'[k].kind = "checkpoint"
<1>1. obs \in Seq(Ob) /\ said \in Seq(Words) /\ resumes \in Nat /\ Len(obs) \in Nat /\ DOMAIN obs = 1 .. Len(obs)
  BY DEF Typed
<1>2. CASE obs' = Append(obs, o) /\ UNCHANGED said
  BY <1>1, <1>2, AppendExtends
<1>3. ASSUME NEW m \in Message, obs' = Append(Append(obs, Said("checkpoint", m)), o),
             UNCHANGED said \/ Tell(m, "checkpoint")
      PROVE  /\ obs' \in Seq(Ob) /\ Extends(obs, obs') /\ said' \in Seq(Words)
             /\ \A k \in DOMAIN obs' : k \in DOMAIN obs \/ k > Len(obs)
             /\ Len(obs') \in DOMAIN obs' /\ Len(obs') > Len(obs) /\ obs'[Len(obs')] = o
             /\ \A k \in DOMAIN obs' \ DOMAIN obs : obs'[k] = o \/ obs'[k].kind = "checkpoint"
  <2> DEFINE w == Said("checkpoint", m)
             s == Append(obs, w)
  <2>1. w \in Ob /\ w.kind = "checkpoint"
    BY ObsMade DEF Said, Text
  <2> HIDE DEF w
  <2>2. /\ s \in Seq(Ob) /\ Len(s) = Len(obs) + 1 /\ DOMAIN s = DOMAIN obs \cup {Len(obs) + 1}
        /\ s[Len(obs) + 1] = w /\ \A k \in DOMAIN obs : s[k] = obs[k]
    BY <1>1, <2>1, AppendExtends
  <2>3. obs' = Append(s, o)
    BY <1>3 DEF w
  <2> HIDE DEF s
  <2>4. /\ obs' \in Seq(Ob) /\ Len(obs') = Len(s) + 1 /\ DOMAIN obs' = DOMAIN s \cup {Len(s) + 1}
        /\ obs'[Len(s) + 1] = o /\ \A k \in DOMAIN s : obs'[k] = s[k]
    BY <2>2, <2>3, AppendExtends
  <2>5. said' \in Seq(Words)
    BY <1>1, <1>3, TellsAWord DEF Text
  <2>6. Extends(obs, obs')
    BY <1>1, <2>2, <2>4 DEF Extends
  <2>7. \A k \in DOMAIN obs' \ DOMAIN obs : obs'[k] = o \/ obs'[k].kind = "checkpoint"
    BY <1>1, <2>1, <2>2, <2>4
  <2>8. \A k \in DOMAIN obs' : k \in DOMAIN obs \/ k > Len(obs)
    BY <1>1, <2>2, <2>4
  <2>9. Len(obs') \in DOMAIN obs' /\ Len(obs') > Len(obs) /\ obs'[Len(obs')] = o
    BY <1>1, <2>2, <2>4
  <2> QED
    BY <2>4, <2>5, <2>6, <2>7, <2>8, <2>9
<1> QED
  BY <1>2, <1>3 DEF SpeaksUp

LEMMA CallTyped ==
  ASSUME TypeInv, NEW m \in Message \cup {Quiet}, NEW ok \in BOOLEAN, Call(m, ok)
  PROVE  TypeInv'
<1>1. PICK o \in Ob : CallSays(o)
  BY CallSplits DEF TypeInv
<1>2. /\ pc = "acting"
      /\ UNCHANGED <<attachments, sentPaths, request, pc, doc, result, resumes, posted, delivered, unseen>>
  BY CallSplits DEF TypeInv
<1>3. obs' \in Seq(Ob) /\ Extends(obs, obs') /\ said' \in Seq(Words) /\ Len(obs') <= MaxObservation
  BY <1>1, SpeaksUpEffect DEF TypeInv, CallSays
<1>4. disk' \in [File -> Copy]
  BY <1>1, ChangeEffect DEF CallSays, TypeInv, Typed
<1>5. doc'.cites \subseteq DOMAIN obs'
  BY <1>2, <1>3 DEF TypeInv, Typed, Extends
<1> QED
  BY <1>2, <1>3, <1>4, <1>5 DEF TypeInv, Typed, InHand

LEMMA DelegateTyped ==
  ASSUME TypeInv, NEW f \in File, NEW shape \in Shapes, NEW brings \in {{}, {f}}, Delegate(f, shape, brings)
  PROVE  TypeInv' /\ DOMAIN attachments \subseteq DOMAIN attachments'
<1> DEFINE more == [g \in brings |-> disk'[g]]
<1>1. /\ pc = "acting" /\ Change(f, shape) /\ attachments' = Merge(attachments, more)
      /\ unseen' = [unseen EXCEPT !.child = @ \cup {f}]
      /\ UNCHANGED <<obs, sentPaths, request, pc, doc, result, resumes, told, delivered>>
  BY DEF Delegate
<1>2. disk' \in [File -> Copy]
  BY <1>1, ChangeEffect DEF TypeInv
<1>3. more \in Given
  <2>1. brings \in SUBSET File /\ more \in [brings -> Copy]
    BY <1>2
  <2> HIDE DEF more
  <2> QED
    BY <2>1, AGiven
<1> HIDE DEF more
<1>4. attachments' \in Given /\ DOMAIN attachments \subseteq DOMAIN attachments'
  <2>1. attachments \in Given
    BY DEF TypeInv, Typed
  <2> QED
    BY <1>1, <1>3, <2>1, MergeGiven
<1>5. unseen' \in [child : SUBSET File, restart : SUBSET File]
  <2>1. unseen \in [child : SUBSET File, restart : SUBSET File] /\ unseen.child \cup {f} \in SUBSET File
    BY DEF TypeInv, Typed
  <2> QED
    BY <1>1, <2>1
<1> QED
  BY <1>1, <1>2, <1>4, <1>5 DEF TypeInv, Typed, InHand, told

LEMMA Emptied == [named |-> {}, cites |-> {}] \in [named : SUBSET File, cites : SUBSET Nat]
OBVIOUS

LEMMA NotOver ==
  ASSUME TypeInv, pc \notin {"ended"}
  PROVE  result.ending \in {"none", "asked"}
BY DEF TypeInv, InHand

\* A turn that is not over goes on, having delivered something or nothing.
GoesOn ==
  /\ pc # "ended" /\ UNCHANGED <<disk, sentPaths, request, result, resumes, told>>
  /\ pc' \in {"acting", "replying", "asking", "redelivering", "judging"}
  /\ doc' \in [named : SUBSET File, cites : SUBSET Nat]
  /\ \/ NoDelivery /\ doc'.cites \subseteq DOMAIN obs /\ (pc' = "replying" => doc'.named = {})
     \/ \E files \in SUBSET File :
          /\ Delivers(files) /\ doc'.cites \subseteq DOMAIN obs \cup {NextID(obs)}
          /\ pc' = "replying" => doc'.named = files
     \/ FailsToDeliver /\ pc' = "acting" /\ doc'.cites = {}
  /\ Len(obs') <= MaxObservation

LEMMA GoesOnTyped ==
  ASSUME TypeInv, GoesOn
  PROVE  TypeInv'
<1>1. /\ pc # "ended" /\ UNCHANGED <<disk, sentPaths, request, result, resumes, told>>
      /\ pc' \in {"acting", "replying", "asking", "redelivering", "judging"}
      /\ doc' \in [named : SUBSET File, cites : SUBSET Nat] /\ Len(obs') <= MaxObservation
  BY DEF GoesOn
<1>2. result.ending \in {"none", "asked"}
  BY <1>1, NotOver
<1>3. CASE NoDelivery /\ doc'.cites \subseteq DOMAIN obs /\ (pc' = "replying" => doc'.named = {})
  BY <1>1, <1>2, <1>3 DEF NoDelivery, TypeInv, Typed, InHand, told
<1>4. ASSUME NEW files \in SUBSET File, Delivers(files) \/ FailsToDeliver,
             doc'.cites \subseteq DOMAIN obs \cup {NextID(obs)},
             pc' = "replying" => Delivers(files) /\ doc'.named = files
      PROVE  TypeInv'
  <2>1. Typed
    BY DEF TypeInv
  <2>2. /\ obs' \in Seq(Ob) /\ Extends(obs, obs') /\ Len(obs') = Len(obs) + 1
        /\ attachments' \in Given /\ delivered \subseteq delivered' /\ delivered' \in SUBSET File
        /\ unseen' \in [child : SUBSET File, restart : SUBSET File]
    BY <1>4, <2>1, DeliveryTyped
  <2>3. doc'.cites \subseteq DOMAIN obs'
    <3>1. DOMAIN obs \subseteq DOMAIN obs' /\ NextID(obs) \in DOMAIN obs'
      <4>1. obs \in Seq(Ob) /\ Len(obs) \in Nat
        BY <2>1 DEF Typed
      <4> QED
        BY <2>2, <4>1 DEF NextID, Extends
    <3> QED
      BY <1>4, <3>1
  <2>4. pc' = "replying" => doc'.named \subseteq delivered'
    BY <1>4 DEF Delivers
  <2>5. sentPaths' \in SUBSET delivered'
    BY <1>1, <2>1, <2>2 DEF Typed
  <2>6. Typed'
    BY <1>1, <2>1, <2>2, <2>3, <2>5 DEF Typed, told
  <2> QED
    BY <1>1, <1>2, <2>4, <2>6 DEF TypeInv, InHand
<1> QED
  BY <1>1, <1>3, <1>4 DEF GoesOn

LEMMA DeliversOn ==
  ASSUME Typed, NEW files \in SUBSET File, NEW ok \in BOOLEAN, Deliver(files, ok)
  PROVE  /\ IF ok THEN Delivers(files) ELSE FailsToDeliver
         /\ Len(obs') <= MaxObservation
BY DeliverSplits

LEMMA StandsStill ==
  ASSUME Typed, NoDelivery
  PROVE  Len(obs') <= MaxObservation
BY DEF Typed, NoDelivery

LEMMA ReplyGoesOn ==
  ASSUME TypeInv, NEW files \in SUBSET File, NEW asks \in BOOLEAN, Reply(files, asks)
  PROVE  GoesOn /\ pc = "acting" /\ pc' # "judging"
<1>1. /\ pc = "acting" /\ doc' = [named |-> files, cites |-> {}]
      /\ UNCHANGED <<disk, sentPaths, request, result, resumes, told>>
  BY DEF Reply
<1>2. doc' \in [named : SUBSET File, cites : SUBSET Nat] /\ doc'.named = files /\ doc'.cites = {}
  BY <1>1
<1>3. CASE files = {}
  <2>1. NoDelivery /\ pc' \in {"asking", "replying"}
    BY <1>3 DEF Reply
  <2> QED
    BY <1>1, <1>2, <1>3, <2>1, StandsStill DEF GoesOn, TypeInv
<1>4. CASE files # {}
  <2>1. PICK ok \in BOOLEAN : /\ Deliver(files, ok)
                              /\ pc' = IF ~ok THEN "acting" ELSE IF asks THEN "asking" ELSE "replying"
    BY <1>4 DEF Reply
  <2>2. (IF ok THEN Delivers(files) ELSE FailsToDeliver) /\ Len(obs') <= MaxObservation
    BY <2>1, DeliversOn DEF TypeInv
  <2> QED
    BY <1>1, <1>2, <2>1, <2>2 DEF GoesOn
<1> QED
  BY <1>3, <1>4

LEMMA FinishGoesOn ==
  ASSUME TypeInv, NEW files \in SUBSET File, NEW cites \in SUBSET Indexes(obs, IsDelivered), Finish(files, cites)
  PROVE  GoesOn /\ pc = "acting" /\ pc' # "judging"
<1>1. pc = "acting" /\ UNCHANGED <<disk, sentPaths, request, result, resumes, told>>
  BY DEF Finish
<1>2. cites \in SUBSET Nat /\ cites \subseteq DOMAIN obs /\ NextID(obs) \in Nat
  BY DEF Indexes, NextID, TypeInv, Typed
<1>3. CASE files = {}
  <2>1. NoDelivery /\ pc' = "redelivering" /\ doc' = [named |-> {}, cites |-> cites]
    BY <1>3 DEF Finish
  <2> QED
    BY <1>1, <1>2, <2>1, StandsStill DEF GoesOn, TypeInv
<1>4. CASE files # {}
  <2>1. PICK ok \in BOOLEAN :
          /\ Deliver(files, ok)
          /\ pc' = IF ok THEN "redelivering" ELSE "acting"
          /\ doc' = IF ok THEN [named |-> files, cites |-> cites \cup {NextID(obs)}]
                          ELSE [named |-> {}, cites |-> {}]
    BY <1>4 DEF Finish
  <2>2. (IF ok THEN Delivers(files) ELSE FailsToDeliver) /\ Len(obs') <= MaxObservation
    BY <2>1, DeliversOn DEF TypeInv
  <2>3. doc' \in [named : SUBSET File, cites : SUBSET Nat] /\ doc'.cites \subseteq DOMAIN obs \cup {NextID(obs)}
    BY <1>2, <2>1
  <2> QED
    BY <1>1, <2>1, <2>2, <2>3 DEF GoesOn
<1> QED
  BY <1>3, <1>4

\* The files that could have changed are delivered again, or there are none.
RedeliveredAll ==
  \/ Changeable(obs, sentPaths) = {} /\ NoDelivery
  \/ Delivers(Changeable(obs, sentPaths))

LEMMA ChangeableFiles ==
  ASSUME Typed PROVE Changeable(obs, sentPaths) \in SUBSET File
<1>1. HandedOver(obs) \in Given
  BY HandedOverObs DEF Typed
<1>2. DOMAIN NotYetSent(HandedOver(obs), sentPaths) \in SUBSET File
  BY <1>1, NotYetSentGiven, GivenIs
<1> QED
  BY <1>2 DEF Changeable

LEMMA RedeliverGoesOn ==
  ASSUME TypeInv, Redeliver
  PROVE  GoesOn /\ pc = "redelivering" /\ (pc' = "judging" => RedeliveredAll)
<1> DEFINE stale == Changeable(obs, sentPaths)
<1>1. pc = "redelivering" /\ UNCHANGED <<disk, sentPaths, request, result, resumes, told>> /\ stale \in SUBSET File
  BY ChangeableFiles DEF Redeliver, TypeInv
<1>2. /\ doc \in [named : SUBSET File, cites : SUBSET Nat] /\ doc.cites \subseteq DOMAIN obs /\ NextID(obs) \in Nat
      /\ [doc EXCEPT !.cites = @ \cup {NextID(obs)}] \in [named : SUBSET File, cites : SUBSET Nat]
      /\ [doc EXCEPT !.cites = @ \cup {NextID(obs)}].cites = doc.cites \cup {NextID(obs)}
  BY DEF NextID, TypeInv, Typed
<1>3. CASE stale = {}
  <2>1. NoDelivery /\ pc' = "judging" /\ UNCHANGED doc
    BY <1>3 DEF Redeliver
  <2> QED
    BY <1>1, <1>2, <1>3, <2>1, StandsStill DEF GoesOn, RedeliveredAll, TypeInv
<1>4. CASE stale # {}
  <2>1. PICK ok \in BOOLEAN :
          /\ Deliver(stale, ok)
          /\ pc' = IF ok THEN "judging" ELSE "acting"
          /\ doc' = IF ok THEN [doc EXCEPT !.cites = @ \cup {NextID(obs)}]
                          ELSE [named |-> {}, cites |-> {}]
    BY <1>4 DEF Redeliver
  <2>2. (IF ok THEN Delivers(stale) ELSE FailsToDeliver) /\ Len(obs') <= MaxObservation
    BY <1>1, <2>1, DeliversOn DEF TypeInv
  <2>3. /\ doc' \in [named : SUBSET File, cites : SUBSET Nat]
        /\ doc'.cites \subseteq doc.cites \cup {NextID(obs)} /\ (~ok => doc'.cites = {})
    BY <1>2, <2>1, Emptied
  <2> HIDE DEF stale
  <2>4. GoesOn
    BY <1>1, <1>2, <2>1, <2>2, <2>3 DEF GoesOn
  <2> QED
    BY <1>1, <2>1, <2>2, <2>4 DEF RedeliveredAll, stale
<1> QED
  BY <1>3, <1>4

-----------------------------------------------------------------------------
(* The files of a reply.                                                   *)

LEMMA LatestVersionsAre ==
  ASSUME NEW s \in Seq(Ob), NEW files \in Given
  PROVE  /\ LatestVersions(s, files) \in Given /\ DOMAIN LatestVersions(s, files) = DOMAIN files
         /\ \A f \in DOMAIN files, k \in DOMAIN s : IsLatest(s, k, f) => LatestVersions(s, files)[f] = s[k].given[f]
<1>1. LatestVersions(s, files) =
        [f \in DOMAIN files |-> IF LatestDelivery(s, f) = 0 THEN files[f] ELSE s[LatestDelivery(s, f)].given[f]]
  BY DEF LatestVersions
<1>2. ASSUME NEW f \in DOMAIN files PROVE LatestVersions(s, files)[f] \in Copy
  <2>1. CASE LatestDelivery(s, f) = 0
    BY <1>1, <2>1, GivenIs
  <2>2. CASE LatestDelivery(s, f) # 0
    <3> DEFINE k == LatestDelivery(s, f)
    <3>1. IsLatest(s, k, f)
      BY <2>2, LatestIs
    <3> HIDE DEF k
    <3>2. s[k] \in Ob /\ IsDelivered(s[k]) /\ f \in DOMAIN s[k].given
      BY <3>1 DEF IsLatest, Gives
    <3>3. s[k].given[f] \in Copy
      BY <3>2, Obs, GivenIs DEF IsDelivered
    <3> QED
      BY <1>1, <2>2, <3>3 DEF k
  <2> QED
    BY <2>1, <2>2
<1>3. DOMAIN files \in SUBSET File /\ LatestVersions(s, files) \in [DOMAIN files -> Copy]
  BY <1>1, <1>2, GivenIs
<1>4. ASSUME NEW f \in DOMAIN files, NEW k \in DOMAIN s, IsLatest(s, k, f)
      PROVE  LatestVersions(s, files)[f] = s[k].given[f]
  <2>1. Gives(s[k], f)
    BY <1>4 DEF IsLatest
  <2>2. IsLatest(s, LatestDelivery(s, f), f) /\ LatestDelivery(s, f) # 0
    BY <2>1, LatestIs
  <2>3. LatestDelivery(s, f) = k
    BY <1>4, <2>2, OneLatest
  <2> QED
    BY <1>1, <2>2, <2>3
<1> QED
  BY <1>3, <1>4, AGiven

LEMMA CitedIs ==
  ASSUME NEW s \in Seq(Ob), NEW cites
  PROVE  Cited(s, cites) \in Given /\ DOMAIN Cited(s, cites) \subseteq DOMAIN HandedOver(s)
<1> DEFINE none == Said("other", Quiet)
           t == [i \in DOMAIN s |-> IF i \in cites THEN s[i] ELSE none]
           S == Ob \cup {none}
<1>1. Cited(s, cites) = HandedOver(t)
  BY DEF Cited
<1>2. none.kind = "other"
  BY DEF Said
<1> HIDE DEF none
<1>3. t \in Seq(S) /\ DOMAIN t = DOMAIN s /\ \A i \in DOMAIN t : t[i] = s[i] \/ t[i] = none
  OBVIOUS
<1> HIDE DEF t, S
<1>4. \A i \in DOMAIN t : IsDelivered(t[i]) => t[i] = s[i] /\ t[i].given \in Given
  BY <1>2, <1>3, Obs DEF IsDelivered
<1>5. /\ HandedOver(t) \in Given
      /\ DOMAIN HandedOver(t) = {f \in File : \E i \in DOMAIN t : Gives(t[i], f)}
  BY <1>3, <1>4, HandedOverIs
<1>6. DOMAIN HandedOver(s) = {f \in File : \E i \in DOMAIN s : Gives(s[i], f)}
  BY HandedOverObs
<1>7. \A f, i : i \in DOMAIN t /\ Gives(t[i], f) => i \in DOMAIN s /\ Gives(s[i], f)
  BY <1>3, <1>4 DEF Gives
<1> QED
  BY <1>1, <1>5, <1>6, <1>7, Zenon

\* Each file of a reply is the copy its latest delivery handed over.
LEMMA ReplyFilesAre ==
  ASSUME Typed
  PROVE  /\ ReplyFiles \in Given
         /\ \A f \in DOMAIN ReplyFiles : \E k \in DOMAIN obs : IsLatest(obs, k, f) /\ ReplyFiles[f] = obs[k].given[f]
<1>1. obs \in Seq(Ob)
  BY DEF Typed
<1> DEFINE cited == Cited(obs, doc.cites)
           named == IF DOMAIN cited = {} THEN HandedOver(obs) ELSE cited
<1>2. ReplyFiles = LatestVersions(obs, named)
  BY DEF ReplyFiles
<1>3. named \in Given /\ DOMAIN named \subseteq DOMAIN HandedOver(obs)
  BY <1>1, CitedIs, HandedOverObs
<1> HIDE DEF named
<1>4. ReplyFiles \in Given /\ DOMAIN ReplyFiles = DOMAIN named
  BY <1>1, <1>2, <1>3, LatestVersionsAre
<1>5. ASSUME NEW f \in DOMAIN ReplyFiles
      PROVE  \E k \in DOMAIN obs : IsLatest(obs, k, f) /\ ReplyFiles[f] = obs[k].given[f]
  <2>1. f \in DOMAIN HandedOver(obs)
    BY <1>3, <1>4
  <2>2. \E i \in DOMAIN obs : Gives(obs[i], f)
    BY <1>1, <2>1, HandedOverObs, Zenon
  <2>3. IsLatest(obs, LatestDelivery(obs, f), f)
    BY <1>1, <2>2, LatestIs
  <2>4. LatestDelivery(obs, f) \in DOMAIN obs
    BY <2>3 DEF IsLatest
  <2> QED
    BY <1>1, <1>2, <1>3, <1>4, <2>3, <2>4, LatestVersionsAre
<1> QED
  BY <1>4, <1>5

-----------------------------------------------------------------------------
(* The other actions.                                                      *)

\* The same files are known to have come with a reply.
SameReceipts == \A f \in File : "receipted" \in posted'[f] <=> "receipted" \in posted[f]

LEMMA PostsUnnoted ==
  ASSUME NEW files, Post(files, "unnoted") PROVE SameReceipts
BY DEF Post, SameReceipts

LEMMA TellsNothing ==
  ASSUME UNCHANGED told PROVE UNCHANGED said /\ SameReceipts
BY DEF told, SameReceipts

\* A reply that went out, with its receipt.
SendsIt(m) ==
  /\ m \in Text /\ Allowed(m, obs) /\ obs' = Append(obs, Said("reply", m)) /\ Len(obs') <= MaxObservation
  /\ Tell(m, "reply")
  /\ sentPaths' = sentPaths \cup doc.named
  /\ \A f \in File : "receipted" \in posted'[f] <=> "receipted" \in posted[f] \/ f \in doc.named

LEMMA SendSplits ==
  ASSUME Typed, NEW m \in Text, Send(m)
  PROVE  /\ pc = "replying" /\ pc' = "acting" /\ doc' = [named |-> {}, cites |-> {}]
         /\ UNCHANGED <<disk, attachments, request, result, resumes, delivered, unseen>>
         /\ UNCHANGED <<obs, sentPaths, told>> \/ SendsIt(m)
<1>1. /\ pc = "replying" /\ SendReply(m, doc.named) /\ doc' = [named |-> {}, cites |-> {}]
      /\ UNCHANGED <<disk, attachments, request, result, resumes, delivered, unseen>>
  BY DEF Send
<1>2. CASE pc' = "acting" /\ UNCHANGED <<obs, sentPaths, told>>
  BY <1>1, <1>2
<1>3. CASE /\ Allowed(m, obs) /\ Room(1)
           /\ obs' = Append(obs, Said("reply", m))
           /\ sentPaths' = sentPaths \cup doc.named
           /\ Post(doc.named, "receipted")
           /\ Tell(m, "reply") /\ pc' = "acting"
  <2> DEFINE w == Said("reply", m)
  <2>1. w \in Ob /\ obs \in Seq(Ob) /\ MaxObservation \in Nat
    BY ObsMade, LimitAssumption DEF Typed
  <2> HIDE DEF w
  <2>2. Len(obs') <= MaxObservation
    BY <1>3, <2>1 DEF Room, w
  <2>3. \A f \in File : "receipted" \in posted'[f] <=> "receipted" \in posted[f] \/ f \in doc.named
    BY <1>3 DEF Post
  <2>4. SendsIt(m)
    BY <1>3, <2>2, <2>3 DEF SendsIt
  <2> QED
    BY <1>1, <1>3, <2>4
<1> QED
  BY <1>1, <1>2, <1>3 DEF SendReply

LEMMA SendTyped ==
  ASSUME TypeInv, NEW m \in Text, Send(m)
  PROVE  TypeInv'
<1>1. /\ pc = "replying" /\ pc' = "acting" /\ doc' = [named |-> {}, cites |-> {}]
      /\ UNCHANGED <<disk, attachments, request, result, resumes, delivered, unseen>>
      /\ UNCHANGED <<obs, sentPaths, told>> \/ SendsIt(m)
  BY SendSplits DEF TypeInv
<1>2. doc' \in [named : SUBSET File, cites : SUBSET Nat] /\ doc'.cites = {} /\ doc.named \subseteq delivered
  BY <1>1 DEF TypeInv, InHand
<1>3. obs' \in Seq(Ob) /\ Len(obs') <= MaxObservation /\ said' \in Seq(Words) /\ sentPaths' \in SUBSET delivered
  <2>1. obs \in Seq(Ob) /\ Len(obs) <= MaxObservation /\ said \in Seq(Words) /\ sentPaths \in SUBSET delivered /\ resumes \in Nat
    BY DEF TypeInv, Typed
  <2>2. CASE SendsIt(m)
    <3>1. Said("reply", m) \in Ob
      BY ObsMade
    <3>2. obs' \in Seq(Ob) /\ Len(obs') <= MaxObservation /\ sentPaths' \in SUBSET delivered
      BY <1>2, <2>1, <2>2, <3>1, AppendExtends DEF SendsIt
    <3>3. said' \in Seq(Words)
      BY <2>1, <2>2, TellsAWord DEF SendsIt
    <3> QED
      BY <3>2, <3>3
  <2> QED
    BY <1>1, <2>1, <2>2 DEF told
<1> QED
  BY <1>1, <1>2, <1>3 DEF TypeInv, Typed, InHand

\* A turn is over, or waits for an answer, or goes on after it; its files are as they were.
Closes(ending, carried) ==
  /\ pc # "ended" /\ carried \in Given
  /\ pc' = (IF ending = "asked" THEN "parked" ELSE "ended")
  /\ result' = [ending |-> ending, cites |-> result'.cites, carried |-> carried] /\ result'.cites \in SUBSET Nat
  /\ doc' \in {doc, [named |-> {}, cites |-> {}]} /\ (ending = "asked" => doc'.cites = {})

LEMMA ClosesTyped ==
  ASSUME TypeInv, NEW ending \in Endings \ {"none"}, NEW carried, Closes(ending, carried),
         UNCHANGED <<disk, obs, attachments, sentPaths, request, resumes, said, delivered, unseen>>
  PROVE  TypeInv'
<1>1. doc' \in [named : SUBSET File, cites : SUBSET Nat] /\ doc'.cites \subseteq DOMAIN obs
  BY DEF Closes, TypeInv, Typed
<1>2. result' \in [ending : Endings, cites : SUBSET Nat, carried : Given] /\ result'.ending = ending
  BY DEF Closes
<1>3. Typed'
  BY <1>1, <1>2 DEF Closes, TypeInv, Typed
<1> QED
  BY <1>2, <1>3 DEF Closes, TypeInv, InHand

LEMMA BackToActing ==
  ASSUME TypeInv, pc # "ended", pc' = "acting", doc' = [named |-> {}, cites |-> {}], UNCHANGED result,
         UNCHANGED <<disk, obs, attachments, sentPaths, request, resumes, said, delivered, unseen>>
  PROVE  TypeInv'
<1>1. doc' \in [named : SUBSET File, cites : SUBSET Nat] /\ doc'.cites = {}
  OBVIOUS
<1> QED
  BY <1>1 DEF TypeInv, Typed, InHand

LEMMA EndCloses ==
  ASSUME TypeInv, pc # "ended", NEW ending \in Endings \ {"none", "asked"}, NEW carried \in Given, End(ending, carried),
         UNCHANGED doc
  PROVE  Closes(ending, carried)
<1>1. Indexes(obs, IsDelivered) \cap doc.cites \in SUBSET Nat
  BY DEF TypeInv, Typed
<1>2. pc' = "ended" /\ result' = [ending |-> ending, cites |-> Indexes(obs, IsDelivered) \cap doc.cites, carried |-> carried]
  BY DEF End
<1> HIDE DEF Indexes
<1> QED
  BY <1>1, <1>2 DEF Closes

LEMMA AskSplits ==
  ASSUME TypeInv, Ask
  PROVE  /\ pc = "asking" /\ UNCHANGED <<disk, obs, attachments, sentPaths, request, resumes, said, delivered, unseen>> /\ SameReceipts
         /\ \/ Closes("asked", attachments)
            \/ pc' = "acting" /\ doc' = [named |-> {}, cites |-> {}] /\ UNCHANGED result
<1>1. /\ pc = "asking" /\ doc' = [named |-> {}, cites |-> {}]
      /\ UNCHANGED <<disk, obs, attachments, sentPaths, request, resumes, said, delivered, unseen>>
      /\ \/ /\ pc' = "parked" /\ result' = [ending |-> "asked", cites |-> {}, carried |-> attachments]
            /\ Post(DOMAIN attachments, "unnoted")
         \/ pc' = "acting" /\ UNCHANGED <<result, posted>>
  BY DEF Ask
<1>2. attachments \in Given
  BY DEF TypeInv, Typed
<1>3. SameReceipts
  BY <1>1, PostsUnnoted DEF SameReceipts
<1> QED
  BY <1>1, <1>2, <1>3 DEF Closes

\* What an accepted reply carries.
ToCarry == NotYetSent(ReplyFiles, sentPaths)

LEMMA JudgeSplits ==
  ASSUME TypeInv, Judge
  PROVE  /\ pc = "judging" /\ UNCHANGED <<disk, obs, attachments, sentPaths, request, resumes, said, delivered, unseen>> /\ SameReceipts
         /\ \/ Closes("finished", ToCarry) /\ AreSound(ReplyFiles)
            \/ Closes("best_effort", NoFiles)
            \/ pc' = "acting" /\ doc' = [named |-> {}, cites |-> {}] /\ UNCHANGED result
<1>1. /\ pc = "judging" /\ UNCHANGED <<disk, obs, attachments, sentPaths, request, resumes, told, delivered, unseen>>
      /\ doc' = IF pc' = "acting" THEN [named |-> {}, cites |-> {}] ELSE doc
      /\ \/ pc' = "acting" /\ UNCHANGED result
         \/ AreSound(ReplyFiles) /\ End("finished", ToCarry)
         \/ End("best_effort", NoFiles)
  BY DEF Judge, ToCarry
<1>2. UNCHANGED said /\ SameReceipts
  BY <1>1, TellsNothing
<1>3. ToCarry \in Given /\ NoFiles \in Given
  BY ReplyFilesAre, NotYetSentGiven, NothingGiven DEF ToCarry, TypeInv
<1>4. CASE AreSound(ReplyFiles) /\ End("finished", ToCarry)
  <2>1. UNCHANGED doc
    BY <1>1, <1>4 DEF End
  <2>2. "finished" \in Endings \ {"none", "asked"}
    BY DEF Endings
  <2>3. Closes("finished", ToCarry)
    BY <1>1, <1>3, <1>4, <2>1, <2>2, EndCloses
  <2> QED
    BY <1>1, <1>4, <1>2, <2>3
<1>5. CASE End("best_effort", NoFiles)
  <2>1. UNCHANGED doc
    BY <1>1, <1>5 DEF End
  <2>2. "best_effort" \in Endings \ {"none", "asked"}
    BY DEF Endings
  <2>3. Closes("best_effort", NoFiles)
    BY <1>1, <1>3, <1>5, <2>1, <2>2, EndCloses
  <2> QED
    BY <1>1, <1>2, <2>3
<1> QED
  BY <1>1, <1>4, <1>5, <1>2

LEMMA StopSplits ==
  ASSUME TypeInv, Stop
  PROVE  /\ pc = "acting" /\ UNCHANGED <<disk, obs, attachments, sentPaths, request, resumes, said, delivered, unseen>> /\ SameReceipts
         /\ \/ Closes("done_at_stop", NotYetSent(attachments, sentPaths))
            \/ Closes("stopped", NotYetSent(HandedOver(obs), sentPaths))
<1>1. /\ pc = "acting" /\ UNCHANGED <<disk, obs, attachments, sentPaths, request, doc, resumes, told, delivered, unseen>>
      /\ \/ End("done_at_stop", NotYetSent(attachments, sentPaths))
         \/ End("stopped", NotYetSent(HandedOver(obs), sentPaths))
  BY DEF Stop
<1>2. NotYetSent(attachments, sentPaths) \in Given /\ NotYetSent(HandedOver(obs), sentPaths) \in Given
  BY HandedOverObs, NotYetSentGiven DEF TypeInv, Typed
<1>3. "done_at_stop" \in Endings \ {"none", "asked"} /\ "stopped" \in Endings \ {"none", "asked"}
  BY DEF Endings
<1>4. UNCHANGED said /\ SameReceipts
  BY <1>1, TellsNothing
<1> QED
  BY <1>1, <1>2, <1>3, <1>4, EndCloses

\* A process that dies: nothing more, or a reply that got out unrecorded, or a call that changed a file.
DiesSpeaking == \E m \in Text : Allowed(m, obs) /\ Tell(m, "unreceipted") /\ pc = "replying" /\ UNCHANGED <<disk, obs>>
DiesCalling ==
  /\ pc = "acting" /\ UNCHANGED said
  /\ \E f \in File, shape \in Shapes, o \in Ob :
       Change(f, shape) /\ Alters(o, f) /\ ~IsMidTask(o) /\ obs' = Append(obs, o) /\ Len(obs') <= MaxObservation

LEMMA CrashSplits ==
  ASSUME Typed, Crash
  PROVE  /\ pc \notin {"ended", "parked", "down"} /\ pc' = "down" /\ doc' = [named |-> {}, cites |-> {}]
         /\ UNCHANGED <<attachments, sentPaths, request, result, resumes, delivered, unseen>> /\ SameReceipts
         /\ UNCHANGED <<disk, obs, said>> \/ DiesSpeaking \/ DiesCalling
<1>1. /\ pc \notin {"ended", "parked", "down"} /\ pc' = "down" /\ doc' = [named |-> {}, cites |-> {}]
      /\ UNCHANGED <<attachments, sentPaths, request, result, resumes, delivered, unseen>>
      /\ \/ UNCHANGED <<disk, obs, told>>
         \/ DiesSpeaking /\ Post(doc.named, "unnoted")
         \/ /\ UNCHANGED told
            /\ pc = "acting" /\ Room(1)
            /\ \E f \in File, shape \in Shapes : Change(f, shape) /\ obs' = Append(obs, Own(FALSE, FALSE, {f}))
  BY DEF Crash, DiesSpeaking, Text
<1>2. ASSUME UNCHANGED said, pc = "acting", Room(1), NEW f \in File, NEW shape \in Shapes, Change(f, shape),
             obs' = Append(obs, Own(FALSE, FALSE, {f}))
      PROVE  DiesCalling
  <2> DEFINE o == Own(FALSE, FALSE, {f})
  <2>1. o \in Ob /\ Alters(o, f) /\ ~IsMidTask(o) /\ obs \in Seq(Ob) /\ MaxObservation \in Nat
    BY ObsMade, LimitAssumption DEF Own, Alters, IsMidTask, Typed
  <2>2. obs' = Append(obs, o)
    BY <1>2
  <2> HIDE DEF o
  <2>3. Len(obs') <= MaxObservation
    BY <1>2, <2>1, <2>2 DEF Room
  <2> QED
    BY <1>2, <2>1, <2>2, <2>3 DEF DiesCalling
<1>3. SameReceipts /\ (UNCHANGED told => UNCHANGED said)
  BY <1>1, TellsNothing, PostsUnnoted
<1> QED
  BY <1>1, <1>2, <1>3, Zenon

LEMMA CrashTyped ==
  ASSUME TypeInv, Crash
  PROVE  TypeInv'
<1>1. /\ pc # "ended" /\ pc' = "down" /\ doc' = [named |-> {}, cites |-> {}]
      /\ UNCHANGED <<attachments, sentPaths, request, result, resumes, delivered, unseen>> /\ SameReceipts
      /\ UNCHANGED <<disk, obs, said>> \/ DiesSpeaking \/ DiesCalling
  BY CrashSplits DEF TypeInv
<1>2. /\ disk \in [File -> Copy] /\ obs \in Seq(Ob) /\ Len(obs) <= MaxObservation /\ said \in Seq(Words) /\ resumes \in Nat
  BY DEF TypeInv, Typed
<1>3. disk' \in [File -> Copy] /\ obs' \in Seq(Ob) /\ Len(obs') <= MaxObservation /\ said' \in Seq(Words)
  <2>1. CASE DiesSpeaking
    <3>1. PICK m \in Text : Tell(m, "unreceipted") /\ UNCHANGED <<disk, obs>>
      BY <2>1 DEF DiesSpeaking
    <3>2. said' \in Seq(Words)
      BY <1>2, <3>1, TellsAWord DEF Text
    <3> QED
      BY <1>2, <3>1, <3>2
  <2>2. CASE DiesCalling
    <3>1. PICK f \in File, shape \in Shapes, o \in Ob :
            Change(f, shape) /\ obs' = Append(obs, o) /\ Len(obs') <= MaxObservation
      BY <2>2, Zenon DEF DiesCalling
    <3>2. disk' \in [File -> Copy] /\ obs' \in Seq(Ob)
      BY <1>2, <3>1, ChangeEffect, AppendExtends DEF TypeInv
    <3> QED
      BY <1>2, <2>2, <3>1, <3>2 DEF DiesCalling
  <2> QED
    BY <1>1, <1>2, <2>1, <2>2
<1>4. doc' \in [named : SUBSET File, cites : SUBSET Nat] /\ doc'.cites = {}
  BY <1>1
<1> QED
  BY <1>1, <1>3, <1>4 DEF TypeInv, Typed, InHand

\* What a resume knows again: the observations in their order, all deliveries and replies among
\* them; what it forgets of a file that changed is marked.
Recalls(t, g) ==
  /\ g \in [DOMAIN t -> DOMAIN obs]
  /\ \A k \in DOMAIN t : t[k] = obs[g[k]]
  /\ \A k, m \in DOMAIN t : k < m => g[k] < g[m]
  /\ \A i \in DOMAIN obs : obs[i].kind \in {"delivery", "reply"} /\ ~Failed(obs[i]) => \E k \in DOMAIN t : g[k] = i

Forgets(t, g) ==
  \A i \in DOMAIN obs, f \in File :
    Alters(obs[i], f) /\ (\A j \in DOMAIN obs : j > i => ~Gives(obs[j], f)) /\ (\A k \in DOMAIN t : g[k] # i)
      => f \in unseen'.restart

Recovers ==
  \E g : Recalls(obs', g) /\ Forgets(obs', g)

LEMMA ResumeSplits ==
  ASSUME Typed, NEW afterRestart \in BOOLEAN, Resume(afterRestart)
  PROVE  /\ pc \in {"parked", "down"} /\ pc' = "acting" /\ resumes' = resumes + 1
         /\ result' = [ending |-> "none", cites |-> {}, carried |-> NoFiles]
         /\ UNCHANGED <<disk, sentPaths, request, doc, told, delivered>>
         /\ obs' \in Seq(Ob) /\ Len(obs') <= Len(obs) /\ attachments' = HandedOver(obs')
         /\ unseen.child = unseen'.child /\ unseen.restart \subseteq unseen'.restart
         /\ unseen' \in [child : SUBSET File, restart : SUBSET File]
         /\ Recovers
<1>1. obs \in Seq(Ob) /\ Len(obs) \in Nat /\ unseen \in [child : SUBSET File, restart : SUBSET File]
  BY DEF Typed
<1> DEFINE K == {i \in DOMAIN obs : obs[i].kind # "checkpoint"}
           kept == Keep(obs, K)
           clears == afterRestart /\ Debt(kept)
           L == {i \in DOMAIN kept : ~Failed(kept[i])}
           cleared == IF clears THEN Keep(kept, L) ELSE kept
           Since(f) == {i \in Indexes(kept, Failed) :
                          kept[i].kind = "call" /\ f \in kept[i].changes /\ i > LatestDelivery(kept, f)}
           X == {f \in File : Since(f) # {}}
<1>2. /\ pc \in {"parked", "down"} /\ pc' = "acting" /\ resumes' = resumes + 1
      /\ result' = [ending |-> "none", cites |-> {}, carried |-> NoFiles]
      /\ UNCHANGED <<disk, sentPaths, request, doc, told, delivered>>
      /\ obs' = cleared /\ attachments' = HandedOver(cleared)
      /\ unseen' = IF clears THEN [unseen EXCEPT !.restart = @ \cup X] ELSE unseen
  BY DEF Resume
<1>3. /\ kept \in Seq(Ob) /\ Len(kept) <= Len(obs) /\ \E g : LeftOf(kept, obs, K, g)
  BY <1>1, KeepLeaves
<1>4. PICK g : LeftOf(kept, obs, K, g)
  BY <1>3
<1>5. /\ g \in [DOMAIN kept -> DOMAIN obs] /\ \A k \in DOMAIN kept : kept[k] = obs[g[k]]
      /\ \A k, m \in DOMAIN kept : k < m => g[k] < g[m]
      /\ \A i \in DOMAIN obs : obs[i].kind # "checkpoint" => \E k \in DOMAIN kept : g[k] = i
  <2>1. K \subseteq DOMAIN obs
    OBVIOUS
  <2>2. \A i \in DOMAIN obs : obs[i].kind # "checkpoint" => i \in K
    OBVIOUS
  <2> HIDE DEF K, kept
  <2> QED
    BY <1>4, <2>1, <2>2 DEF LeftOf
<1> HIDE DEF kept, K
<1>6. \A i \in DOMAIN obs : \A f : Alters(obs[i], f) => obs[i].kind # "checkpoint"
  BY DEF Alters
<1>7. CASE ~clears
  <2>1. obs' = kept /\ unseen' = unseen
    BY <1>2, <1>7
  <2>2. Recalls(kept, g)
    BY <1>5 DEF Recalls
  <2>3. Forgets(kept, g)
    BY <1>5, <1>6, Zenon DEF Forgets
  <2>4. Recovers
    BY <2>1, <2>2, <2>3 DEF Recovers
  <2> HIDE DEF cleared
  <2> QED
    BY <1>1, <1>2, <1>3, <2>1, <2>4
<1>8. CASE clears
  <2>1. L \in SUBSET DOMAIN kept
    OBVIOUS
  <2> DEFINE t == Keep(kept, L)
  <2>2. obs' = t /\ unseen' = [unseen EXCEPT !.restart = @ \cup X]
    BY <1>2, <1>8
  <2>3. /\ t \in Seq(Ob) /\ Len(t) <= Len(kept) /\ \E h : LeftOf(t, kept, L, h)
    BY <1>3, <2>1, KeepLeaves
  <2>4. PICK h : LeftOf(t, kept, L, h)
    BY <2>3
  <2>5. /\ h \in [DOMAIN t -> DOMAIN kept] /\ \A k \in DOMAIN t : t[k] = kept[h[k]]
        /\ \A k, m \in DOMAIN t : k < m => h[k] < h[m]
        /\ \A i \in DOMAIN kept : ~Failed(kept[i]) => \E k \in DOMAIN t : h[k] = i
    <3>1. \A i \in DOMAIN kept : ~Failed(kept[i]) => i \in L
      OBVIOUS
    <3> HIDE DEF L, t
    <3> QED
      BY <2>1, <2>4, <3>1 DEF LeftOf
  <2> DEFINE gh == [k \in DOMAIN t |-> g[h[k]]]
  <2> HIDE DEF t, L
  <2>6. gh \in [DOMAIN t -> DOMAIN obs] /\ \A k \in DOMAIN t : gh[k] = g[h[k]] /\ h[k] \in DOMAIN kept
    BY <1>5, <2>5
  <2> HIDE DEF gh
  <2>7. Recalls(t, gh)
    <3>1. \A k \in DOMAIN t : t[k] = obs[gh[k]]
      BY <1>5, <2>5, <2>6
    <3>2. \A k, m \in DOMAIN t : k < m => gh[k] < gh[m]
      BY <1>5, <2>5, <2>6
    <3>3. ASSUME NEW i \in DOMAIN obs, obs[i].kind \in {"delivery", "reply"}, ~Failed(obs[i])
          PROVE  \E k \in DOMAIN t : gh[k] = i
      <4>1. PICK k \in DOMAIN kept : g[k] = i
        BY <1>5, <3>3
      <4>2. ~Failed(kept[k])
        BY <1>5, <3>3, <4>1
      <4>3. PICK m \in DOMAIN t : h[m] = k
        BY <2>5, <4>2
      <4> QED
        BY <2>6, <4>1, <4>3
    <3> QED
      BY <2>6, <3>1, <3>2, <3>3 DEF Recalls
  <2>8. Forgets(t, gh)
    <3> SUFFICES ASSUME NEW i \in DOMAIN obs, NEW f \in File, Alters(obs[i], f),
                        \A j \in DOMAIN obs : j > i => ~Gives(obs[j], f), \A k \in DOMAIN t : gh[k] # i
                 PROVE  f \in unseen'.restart
      BY DEF Forgets
    <3>1. PICK k \in DOMAIN kept : g[k] = i
      BY <1>5, <1>6
    <3>2. kept[k] = obs[i]
      BY <1>5, <3>1
    <3>3. Failed(kept[k])
      <4>1. ASSUME NEW m \in DOMAIN t, h[m] = k PROVE FALSE
        BY <2>6, <3>1, <4>1
      <4> QED
        BY <2>5, <4>1
    <3>4. kept[k].kind = "call" /\ f \in kept[k].changes
      BY <3>2 DEF Alters
    <3>5. k > LatestDelivery(kept, f)
      <4> DEFINE l == LatestDelivery(kept, f)
      <4>1. k \in Nat /\ k > 0
        BY <1>3
      <4>2. ASSUME IsLatest(kept, l, f) PROVE k > l
        <5>1. l \in DOMAIN kept /\ Gives(kept[l], f)
          BY <4>2 DEF IsLatest
        <5>2. l \in Nat
          BY <1>3, <5>1
        <5>3. kept[l] = obs[g[l]] /\ g[l] \in DOMAIN obs
          BY <1>5, <5>1
        <5>4. ~(g[l] > i)
          BY <5>1, <5>3
        <5>5. ~(k < l)
          <6>1. k < l => g[k] < g[l]
            BY <1>5, <5>1
          <6>2. g[l] \in Nat /\ i \in Nat
            BY <1>1, <5>3
          <6> QED
            BY <3>1, <5>4, <6>1, <6>2
        <5>6. k # l
          BY <3>2, <3>4, <5>1 DEF Gives, IsDelivered
        <5> QED
          BY <4>1, <5>2, <5>5, <5>6
      <4>3. l = 0 \/ IsLatest(kept, l, f)
        BY <1>3, LatestIs
      <4> HIDE DEF l
      <4>4. k > l
        BY <4>1, <4>2, <4>3
      <4> QED
        BY <4>4 DEF l
    <3>6. k \in Since(f)
      BY <3>3, <3>4, <3>5 DEF Indexes
    <3>7. f \in X
      BY <3>6
    <3> HIDE DEF X
    <3> QED
      BY <1>1, <2>2, <3>7
  <2>9. Recovers
    BY <2>2, <2>7, <2>8 DEF Recovers
  <2>10. X \in SUBSET File
    OBVIOUS
  <2> HIDE DEF X, Since
  <2>11. /\ unseen.child = unseen'.child /\ unseen.restart \subseteq unseen'.restart
         /\ unseen' \in [child : SUBSET File, restart : SUBSET File]
    BY <1>1, <2>2, <2>10
  <2>12. Len(obs') <= Len(obs) /\ obs' \in Seq(Ob)
    <3>1. Len(t) \in Nat /\ Len(kept) \in Nat
      BY <1>3, <2>3
    <3> QED
      BY <1>1, <1>3, <2>2, <2>3, <3>1
  <2>13. attachments' = HandedOver(obs')
    BY <1>2
  <2> QED
    BY <1>2, <2>9, <2>11, <2>12, <2>13
<1> QED
  BY <1>7, <1>8

LEMMA ResumeTyped ==
  ASSUME TypeInv, NEW afterRestart \in BOOLEAN, Resume(afterRestart)
  PROVE  TypeInv'
<1>1. /\ pc \in {"parked", "down"} /\ pc' = "acting" /\ resumes' = resumes + 1
      /\ result' = [ending |-> "none", cites |-> {}, carried |-> NoFiles]
      /\ UNCHANGED <<disk, sentPaths, request, doc, told, delivered>>
      /\ obs' \in Seq(Ob) /\ Len(obs') <= Len(obs) /\ attachments' = HandedOver(obs')
      /\ unseen' \in [child : SUBSET File, restart : SUBSET File]
  BY ResumeSplits DEF TypeInv
<1>2. attachments' \in Given
  BY <1>1, HandedOverObs
<1>3. result' \in [ending : Endings, cites : SUBSET Nat, carried : Given] /\ result'.ending = "none"
  BY <1>1, NothingGiven DEF Endings
<1>4. Len(obs') <= MaxObservation
  <2>1. Len(obs) <= MaxObservation /\ Len(obs) \in Nat /\ Len(obs') \in Nat /\ MaxObservation \in Nat
    BY <1>1, LimitAssumption DEF TypeInv, Typed
  <2> QED
    BY <1>1, <2>1
<1>5. doc.cites = {}
  BY <1>1 DEF TypeInv, InHand
<1> QED
  BY <1>1, <1>2, <1>3, <1>4, <1>5 DEF TypeInv, Typed, InHand, told

-----------------------------------------------------------------------------
(* The types, kept.                                                        *)

LEMMA InitTyped ==
  ASSUME Init PROVE TypeInv
<1>1. 0 \in 0 .. MaxVersion /\ "good" \in Shapes /\ MaxObservation \in Nat
  BY FileAssumption, LimitAssumption
<1>2. [v |-> 0, shape |-> "good"] \in Copy
  BY <1>1 DEF Copy
<1> DEFINE c == [v |-> 0, shape |-> "good"]
<1>3. disk = [f \in File |-> c] /\ c \in Copy
  BY <1>2 DEF Init
<1> HIDE DEF c
<1>4. disk \in [File -> Copy]
  BY <1>3
<1>5. obs \in Seq(Ob) /\ Len(obs) = 0 /\ said \in Seq(Words) /\ DOMAIN obs = {}
  BY DEF Init
<1>6. doc \in [named : SUBSET File, cites : SUBSET Nat] /\ doc.cites = {}
  BY DEF Init
<1>7. result \in [ending : Endings, cites : SUBSET Nat, carried : Given] /\ result.ending = "none"
  BY NothingGiven DEF Init, Endings
<1>8. unseen \in [child : SUBSET File, restart : SUBSET File]
  BY DEF Init
<1> QED
  BY <1>1, <1>4, <1>5, <1>6, <1>7, <1>8, NothingGiven DEF Init, TypeInv, Typed, InHand

LEMMA StutterTyped ==
  ASSUME TypeInv, UNCHANGED vars PROVE TypeInv'
BY DEF TypeInv, Typed, InHand, vars, told

LEMMA StepTyped ==
  ASSUME TypeInv, [Next]_vars PROVE TypeInv'
<1>1. ASSUME NEW m \in Message \cup {Quiet}, NEW ok \in BOOLEAN, Call(m, ok) PROVE TypeInv'
  BY <1>1, CallTyped
<1>2. ASSUME NEW f \in File, NEW shape \in Shapes, NEW brings \in {{}, {f}}, Delegate(f, shape, brings) PROVE TypeInv'
  BY <1>2, DelegateTyped
<1>3. ASSUME NEW files \in SUBSET File, NEW asks \in BOOLEAN, Reply(files, asks) PROVE TypeInv'
  BY <1>3, ReplyGoesOn, GoesOnTyped
<1>4. ASSUME NEW m \in Message \cup {Quiet}, Send(m) PROVE TypeInv'
  BY <1>4, SendTyped DEF Text
<1>5. CASE Ask
  <2>1. "asked" \in Endings \ {"none"}
    BY DEF Endings
  <2> QED
    BY <1>5, <2>1, AskSplits, ClosesTyped, BackToActing
<1>6. ASSUME NEW files \in SUBSET File, NEW cites \in SUBSET Indexes(obs, IsDelivered), Finish(files, cites) PROVE TypeInv'
  BY <1>6, FinishGoesOn, GoesOnTyped
<1>7. CASE Redeliver
  BY <1>7, RedeliverGoesOn, GoesOnTyped
<1>8. CASE Judge
  <2>1. "finished" \in Endings \ {"none"} /\ "best_effort" \in Endings \ {"none"}
    BY DEF Endings
  <2> QED
    BY <1>8, <2>1, JudgeSplits, ClosesTyped, BackToActing
<1>9. CASE Stop
  <2>1. "done_at_stop" \in Endings \ {"none"} /\ "stopped" \in Endings \ {"none"}
    BY DEF Endings
  <2> QED
    BY <1>9, <2>1, StopSplits, ClosesTyped
<1>10. CASE Crash
  BY <1>10, CrashTyped
<1>11. ASSUME NEW afterRestart \in BOOLEAN, Resume(afterRestart) PROVE TypeInv'
  BY <1>11, ResumeTyped
<1>12. CASE UNCHANGED vars
  BY <1>12, StutterTyped
<1> QED
  BY <1>1, <1>2, <1>3, <1>4, <1>5, <1>6, <1>7, <1>8, <1>9, <1>10, <1>11, <1>12, Zenon DEF Next

-----------------------------------------------------------------------------
(* Files.                                                                  *)

\* What was delivered is attached and on record; what was sent, and nothing else, is known as sent.
OnRecord ==
  /\ delivered \subseteq DOMAIN attachments
  /\ \A f \in delivered : \E i \in DOMAIN obs : Gives(obs[i], f)
KnownAsSent == \A f \in File : f \in sentPaths <=> "receipted" \in posted[f]
FilesInv == OnRecord /\ KnownAsSent /\ SentOnce /\ StopLosesNothing

LEMMA NotOverYet ==
  ASSUME TypeInv', pc' # "ended" PROVE SentOnce' /\ StopLosesNothing'
BY DEF TypeInv, InHand, SentOnce, StopLosesNothing

LEMMA StaysOnRecord ==
  ASSUME OnRecord, UNCHANGED delivered, DOMAIN attachments \subseteq DOMAIN attachments', Extends(obs, obs')
  PROVE  OnRecord'
BY DEF OnRecord, Extends, Gives

LEMMA SameExtends ==
  ASSUME Typed, UNCHANGED obs PROVE Extends(obs, obs')
BY DEF Typed, Extends

LEMMA DeliveredOnRecord ==
  ASSUME Typed, OnRecord, NEW files \in SUBSET File, Delivers(files)
  PROVE  OnRecord'
<1>1. obs \in Seq(Ob) /\ attachments \in Given
  BY DEF Typed
<1>2. PICK d \in Ob : /\ obs' = Append(obs, d) /\ IsDelivered(d) /\ d.given \in Given /\ DOMAIN d.given = files
                      /\ attachments' = Merge(attachments, d.given)
  BY DEF Delivers
<1>3. delivered' = delivered \cup files
  BY DEF Delivers
<1>4. DOMAIN attachments' = DOMAIN attachments \cup files
  BY <1>1, <1>2, MergeGiven
<1>5. /\ DOMAIN obs' = DOMAIN obs \cup {Len(obs) + 1} /\ obs'[Len(obs) + 1] = d
      /\ \A k \in DOMAIN obs : obs'[k] = obs[k]
  BY <1>1, <1>2, AppendExtends
<1>6. ASSUME NEW f \in delivered' PROVE \E i \in DOMAIN obs' : Gives(obs'[i], f)
  <2>1. CASE f \in delivered
    BY <1>5, <2>1 DEF OnRecord
  <2>2. CASE f \in files
    <3>1. Gives(obs'[Len(obs) + 1], f)
      BY <1>2, <1>5, <2>2 DEF Gives
    <3> QED
      BY <1>5, <3>1
  <2> QED
    BY <1>3, <2>1, <2>2
<1> QED
  BY <1>3, <1>4, <1>6 DEF OnRecord

LEMMA GoesOnFiles ==
  ASSUME TypeInv, FilesInv, GoesOn, TypeInv'
  PROVE  FilesInv'
<1>1. Typed /\ OnRecord
  BY DEF TypeInv, FilesInv
<1>2. OnRecord'
  <2>1. CASE NoDelivery
    BY <1>1, <2>1, SameExtends, StaysOnRecord DEF NoDelivery
  <2>2. CASE FailsToDeliver
    <3>1. Extends(obs, obs')
      BY <1>1, <2>2, DeliveryTyped
    <3> QED
      BY <1>1, <2>2, <3>1, StaysOnRecord DEF FailsToDeliver
  <2>3. CASE \E files \in SUBSET File : Delivers(files)
    BY <1>1, <2>3, DeliveredOnRecord
  <2> QED
    BY <2>1, <2>2, <2>3, Zenon DEF GoesOn
<1>3. KnownAsSent'
  BY DEF GoesOn, told, FilesInv, KnownAsSent
<1>4. pc' # "ended"
  BY DEF GoesOn
<1> QED
  BY <1>2, <1>3, <1>4, NotOverYet DEF FilesInv

LEMMA CallFiles ==
  ASSUME TypeInv, FilesInv, TypeInv', NEW m \in Message \cup {Quiet}, NEW ok \in BOOLEAN, Call(m, ok)
  PROVE  FilesInv'
<1>1. PICK o \in Ob : CallSays(o)
  BY CallSplits DEF TypeInv
<1>2. pc = "acting" /\ UNCHANGED <<attachments, sentPaths, pc, posted, delivered>>
  BY CallSplits DEF TypeInv
<1>3. Extends(obs, obs')
  BY <1>1, SpeaksUpEffect DEF CallSays, TypeInv
<1>4. OnRecord'
  BY <1>2, <1>3, StaysOnRecord DEF FilesInv
<1> QED
  BY <1>2, <1>4, NotOverYet DEF FilesInv, KnownAsSent

LEMMA DelegateFiles ==
  ASSUME TypeInv, FilesInv, TypeInv', NEW f \in File, NEW shape \in Shapes, NEW brings \in {{}, {f}}, Delegate(f, shape, brings)
  PROVE  FilesInv'
<1>1. pc = "acting" /\ UNCHANGED <<obs, sentPaths, pc, posted, delivered>>
  BY DEF Delegate, told
<1>2. DOMAIN attachments \subseteq DOMAIN attachments'
  BY DelegateTyped
<1>3. Extends(obs, obs')
  BY <1>1, SameExtends DEF TypeInv
<1>4. OnRecord'
  BY <1>1, <1>2, <1>3, StaysOnRecord DEF FilesInv
<1> QED
  BY <1>1, <1>4, NotOverYet DEF FilesInv, KnownAsSent

LEMMA SendFiles ==
  ASSUME TypeInv, FilesInv, TypeInv', NEW m \in Text, Send(m)
  PROVE  FilesInv'
<1>1. /\ pc' = "acting" /\ UNCHANGED <<attachments, delivered>>
      /\ UNCHANGED <<obs, sentPaths, told>> \/ SendsIt(m)
  BY SendSplits DEF TypeInv
<1>2. CASE UNCHANGED <<obs, sentPaths, told>>
  <2>1. OnRecord'
    BY <1>1, <1>2, SameExtends, StaysOnRecord DEF FilesInv, TypeInv
  <2> QED
    BY <1>1, <1>2, <2>1, NotOverYet DEF FilesInv, KnownAsSent, told
<1>3. CASE SendsIt(m)
  <2>1. Said("reply", m) \in Ob /\ obs \in Seq(Ob)
    BY ObsMade DEF TypeInv, Typed
  <2>2. Extends(obs, obs')
    BY <1>3, <2>1, AppendExtends DEF SendsIt
  <2>3. OnRecord'
    BY <1>1, <2>2, StaysOnRecord DEF FilesInv
  <2>4. KnownAsSent'
    BY <1>3 DEF SendsIt, KnownAsSent, FilesInv
  <2> QED
    BY <1>1, <2>3, <2>4, NotOverYet DEF FilesInv
<1> QED
  BY <1>1, <1>2, <1>3

\* A turn that ends, with what it was not sent yet of some files.
LEMMA ClosesFiles ==
  ASSUME TypeInv, FilesInv, NEW ending \in Endings, NEW carried, Closes(ending, carried), TypeInv',
         UNCHANGED <<disk, obs, attachments, sentPaths, request, resumes, said, delivered, unseen>>, SameReceipts,
         ending \in {"finished", "done_at_stop", "stopped"} =>
           \E files \in Given : /\ carried = NotYetSent(files, sentPaths)
                                /\ ending # "finished" => delivered \subseteq DOMAIN files
  PROVE  FilesInv'
<1>1. OnRecord'
  BY SameExtends, StaysOnRecord DEF FilesInv, TypeInv
<1>2. KnownAsSent'
  BY DEF FilesInv, KnownAsSent, SameReceipts
<1>3. result'.ending = ending /\ result'.carried = carried /\ UNCHANGED delivered
  BY DEF Closes
<1>4. CASE ending \in {"finished", "done_at_stop", "stopped"}
  <2>1. PICK files \in Given : /\ carried = NotYetSent(files, sentPaths)
                               /\ ending # "finished" => delivered \subseteq DOMAIN files
    BY <1>4
  <2>2. DOMAIN files \in SUBSET File /\ DOMAIN carried = DOMAIN files \ sentPaths /\ delivered \in SUBSET File
    BY <2>1, GivenIs, NotYetSentGiven DEF TypeInv, Typed
  <2>3. SentOnce'
    BY <1>2, <1>3, <2>2 DEF SentOnce, FilesInv, KnownAsSent
  <2>4. StopLosesNothing'
    <3>1. \A f \in File : f \in sentPaths <=> "receipted" \in posted'[f]
      BY <1>2 DEF KnownAsSent
    <3>2. ASSUME ending # "finished", NEW f \in delivered
          PROVE  f \in DOMAIN carried \/ "receipted" \in posted'[f]
      BY <2>1, <2>2, <3>1, <3>2
    <3> HIDE DEF Closes
    <3> QED
      BY <1>3, <2>2, <3>2 DEF StopLosesNothing
  <2> QED
    BY <1>1, <1>2, <2>3, <2>4 DEF FilesInv
<1>5. CASE ending \notin {"finished", "done_at_stop", "stopped"}
  BY <1>1, <1>2, <1>3, <1>5 DEF FilesInv, SentOnce, StopLosesNothing
<1> QED
  BY <1>4, <1>5

LEMMA BackFiles ==
  ASSUME TypeInv, FilesInv, TypeInv', pc' = "acting",
         UNCHANGED <<disk, obs, attachments, sentPaths, request, resumes, said, delivered, unseen>>, SameReceipts
  PROVE  FilesInv'
<1>1. OnRecord'
  BY SameExtends, StaysOnRecord DEF FilesInv, TypeInv
<1> QED
  BY <1>1, NotOverYet DEF FilesInv, KnownAsSent, SameReceipts

LEMMA JudgeFiles ==
  ASSUME TypeInv, FilesInv, TypeInv', Judge
  PROVE  FilesInv'
<1>1. /\ UNCHANGED <<disk, obs, attachments, sentPaths, request, resumes, said, delivered, unseen>> /\ SameReceipts
      /\ Closes("finished", ToCarry) \/ Closes("best_effort", NoFiles) \/ pc' = "acting"
  BY JudgeSplits
<1>2. ReplyFiles \in Given /\ "finished" \in Endings /\ "best_effort" \in Endings
  BY ReplyFilesAre DEF TypeInv, Endings
<1>3. CASE Closes("finished", ToCarry)
  BY <1>1, <1>2, <1>3, ClosesFiles DEF ToCarry
<1>4. CASE Closes("best_effort", NoFiles)
  BY <1>1, <1>2, <1>4, ClosesFiles
<1> QED
  BY <1>1, <1>3, <1>4, BackFiles

LEMMA StopFiles ==
  ASSUME TypeInv, FilesInv, TypeInv', Stop
  PROVE  FilesInv'
<1>1. /\ UNCHANGED <<disk, obs, attachments, sentPaths, request, resumes, said, delivered, unseen>> /\ SameReceipts
      /\ \/ Closes("done_at_stop", NotYetSent(attachments, sentPaths))
         \/ Closes("stopped", NotYetSent(HandedOver(obs), sentPaths))
  BY StopSplits
<1>2. attachments \in Given /\ delivered \subseteq DOMAIN attachments
  BY DEF TypeInv, Typed, FilesInv, OnRecord
<1>3. HandedOver(obs) \in Given /\ delivered \subseteq DOMAIN HandedOver(obs)
  <2>1. HandedOver(obs) \in Given /\ DOMAIN HandedOver(obs) = {f \in File : \E i \in DOMAIN obs : Gives(obs[i], f)}
    BY HandedOverObs DEF TypeInv, Typed
  <2> QED
    BY <2>1 DEF TypeInv, Typed, FilesInv, OnRecord
<1>4. "done_at_stop" \in Endings /\ "stopped" \in Endings
  BY DEF Endings
<1>5. CASE Closes("done_at_stop", NotYetSent(attachments, sentPaths))
  BY <1>1, <1>2, <1>4, <1>5, ClosesFiles
<1>6. CASE Closes("stopped", NotYetSent(HandedOver(obs), sentPaths))
  BY <1>1, <1>3, <1>4, <1>6, ClosesFiles
<1> QED
  BY <1>1, <1>5, <1>6

LEMMA AskFiles ==
  ASSUME TypeInv, FilesInv, TypeInv', Ask
  PROVE  FilesInv'
<1>1. /\ UNCHANGED <<disk, obs, attachments, sentPaths, request, resumes, said, delivered, unseen>> /\ SameReceipts
      /\ Closes("asked", attachments) \/ pc' = "acting"
  BY AskSplits
<1>2. "asked" \in Endings
  BY DEF Endings
<1>3. CASE Closes("asked", attachments)
  BY <1>1, <1>2, <1>3, ClosesFiles
<1> QED
  BY <1>1, <1>3, BackFiles

LEMMA CrashFiles ==
  ASSUME TypeInv, FilesInv, TypeInv', Crash
  PROVE  FilesInv'
<1>1. /\ pc' = "down" /\ UNCHANGED <<attachments, sentPaths, delivered>> /\ SameReceipts
      /\ UNCHANGED obs \/ DiesCalling
  BY CrashSplits DEF TypeInv, DiesSpeaking
<1>2. Extends(obs, obs')
  <2>1. CASE DiesCalling
    <3>1. PICK o \in Ob : obs' = Append(obs, o)
      BY <2>1, Zenon DEF DiesCalling
    <3> QED
      BY <3>1, AppendExtends DEF TypeInv, Typed
  <2> QED
    BY <1>1, <2>1, SameExtends DEF TypeInv
<1>3. OnRecord'
  BY <1>1, <1>2, StaysOnRecord DEF FilesInv
<1> QED
  BY <1>1, <1>3, NotOverYet DEF FilesInv, KnownAsSent, SameReceipts

LEMMA ResumeFiles ==
  ASSUME TypeInv, FilesInv, TypeInv', NEW afterRestart \in BOOLEAN, Resume(afterRestart)
  PROVE  FilesInv'
<1>1. /\ pc' = "acting" /\ UNCHANGED <<sentPaths, posted, delivered>> /\ attachments' = HandedOver(obs')
      /\ obs' \in Seq(Ob) /\ Recovers
  BY ResumeSplits DEF TypeInv, told
<1>2. PICK g : Recalls(obs', g)
  BY <1>1 DEF Recovers
<1>3. ASSUME NEW f \in delivered PROVE \E k \in DOMAIN obs' : Gives(obs'[k], f)
  <2>1. PICK i \in DOMAIN obs : Gives(obs[i], f)
    BY DEF FilesInv, OnRecord
  <2>2. obs[i].kind = "delivery" /\ ~Failed(obs[i])
    BY <2>1 DEF Gives, IsDelivered, Failed
  <2>3. PICK k \in DOMAIN obs' : g[k] = i
    BY <1>2, <2>2 DEF Recalls
  <2>4. obs'[k] = obs[i]
    BY <1>2, <2>3 DEF Recalls
  <2> QED
    BY <2>1, <2>3, <2>4
<1>4. delivered \in SUBSET File
  BY DEF TypeInv, Typed
<1>5. DOMAIN HandedOver(obs') = {f \in File : \E i \in DOMAIN obs' : Gives(obs'[i], f)}
  BY <1>1, HandedOverObs
<1>6. OnRecord'
  BY <1>1, <1>3, <1>4, <1>5 DEF OnRecord
<1> QED
  BY <1>1, <1>6, NotOverYet DEF FilesInv, KnownAsSent

LEMMA InitFiles ==
  ASSUME Init PROVE FilesInv
BY DEF Init, FilesInv, OnRecord, KnownAsSent, SentOnce, StopLosesNothing

LEMMA StepFiles ==
  ASSUME TypeInv, FilesInv, TypeInv', [Next]_vars PROVE FilesInv'
<1>1. ASSUME NEW m \in Message \cup {Quiet}, NEW ok \in BOOLEAN, Call(m, ok) PROVE FilesInv'
  BY <1>1, CallFiles
<1>2. ASSUME NEW f \in File, NEW shape \in Shapes, NEW brings \in {{}, {f}}, Delegate(f, shape, brings) PROVE FilesInv'
  BY <1>2, DelegateFiles
<1>3. ASSUME NEW files \in SUBSET File, NEW asks \in BOOLEAN, Reply(files, asks) PROVE FilesInv'
  BY <1>3, ReplyGoesOn, GoesOnFiles
<1>4. ASSUME NEW m \in Message \cup {Quiet}, Send(m) PROVE FilesInv'
  BY <1>4, SendFiles DEF Text
<1>5. CASE Ask
  BY <1>5, AskFiles
<1>6. ASSUME NEW files \in SUBSET File, NEW cites \in SUBSET Indexes(obs, IsDelivered), Finish(files, cites) PROVE FilesInv'
  BY <1>6, FinishGoesOn, GoesOnFiles
<1>7. CASE Redeliver
  BY <1>7, RedeliverGoesOn, GoesOnFiles
<1>8. CASE Judge
  BY <1>8, JudgeFiles
<1>9. CASE Stop
  BY <1>9, StopFiles
<1>10. CASE Crash
  BY <1>10, CrashFiles
<1>11. ASSUME NEW afterRestart \in BOOLEAN, Resume(afterRestart) PROVE FilesInv'
  BY <1>11, ResumeFiles
<1>12. CASE UNCHANGED vars
  BY <1>12 DEF vars, told, FilesInv, OnRecord, KnownAsSent, SentOnce, StopLosesNothing
<1> QED
  BY <1>1, <1>2, <1>3, <1>4, <1>5, <1>6, <1>7, <1>8, <1>9, <1>10, <1>11, <1>12, Zenon DEF Next

-----------------------------------------------------------------------------
(* Words.                                                                  *)

Spoken(s) == Indexes(s, IsMidTask)

\* No reply is read twice, and nothing twice in a turn.
NoneTwice ==
  \A i, j \in DOMAIN said :
    i < j /\ said[i].says = said[j].says => said[i].kind # "reply" /\ said[i].turn < said[j].turn
OfTurns == \A i \in DOMAIN said : said[i].turn <= resumes
\* Every reply has its receipt, and what was read in this turn is on record until the process dies.
Receipted ==
  \A i \in DOMAIN said : said[i].kind = "reply" =>
    \E k \in DOMAIN obs : obs[k].kind = "reply" /\ obs[k].says = said[i].says
Recorded ==
  pc # "down" => \A i \in DOMAIN said : said[i].turn = resumes =>
    \E k \in DOMAIN obs : IsMidTask(obs[k]) /\ obs[k].says = said[i].says
InLimit == Cardinality(Spoken(obs)) <= MidTaskLimit
SaidIn(turn) == {i \in DOMAIN said : said[i].turn = turn}
TurnsInLimit == \A turn \in 0 .. resumes : Cardinality(SaidIn(turn)) <= MidTaskLimit

WordsInv == NoneTwice /\ OfTurns /\ Receipted /\ Recorded /\ InLimit /\ TurnsInLimit

LEMMA Finite ==
  ASSUME NEW S, NEW s \in Seq(S), NEW T \in SUBSET DOMAIN s
  PROVE  IsFiniteSet(T) /\ Cardinality(T) \in Nat
<1>1. Len(s) \in Nat /\ T \in SUBSET (1 .. Len(s))
  OBVIOUS
<1> QED
  BY <1>1, RanksAreDistinct

\* Different words stand in different observations.
LEMMA AsManySpoken ==
  ASSUME NEW t \in Seq(Words), NEW s \in Seq(Ob), NEW T \in SUBSET DOMAIN t,
         \A i, j \in T : i # j => t[i].says # t[j].says,
         \A i \in T : \E k \in DOMAIN s : IsMidTask(s[k]) /\ s[k].says = t[i].says
  PROVE  Cardinality(T) <= Cardinality(Spoken(s))
<1> DEFINE Of(i) == CHOOSE k \in DOMAIN s : IsMidTask(s[k]) /\ s[k].says = t[i].says
           f == [i \in T |-> Of(i)]
<1>1. ASSUME NEW i \in T PROVE Of(i) \in DOMAIN s /\ IsMidTask(s[Of(i)]) /\ s[Of(i)].says = t[i].says
  OBVIOUS
<1> HIDE DEF Of
<1>2. f \in [T -> Spoken(s)]
  BY <1>1 DEF Spoken, Indexes
<1>3. \A i, j \in T : f[i] = f[j] => i = j
  BY <1>1
<1> HIDE DEF f
<1>4. f \in Injection(T, Spoken(s))
  BY <1>2, <1>3, Zenon DEF Injection, IsInjective
<1>5. Spoken(s) \in SUBSET DOMAIN s
  BY DEF Spoken, Indexes
<1>6. IsFiniteSet(T) /\ IsFiniteSet(Spoken(s))
  BY <1>5, Finite
<1> HIDE DEF Spoken
<1> QED
  BY <1>4, <1>6, FS_Injection, Zenon

LEMMA WordsAre ==
  ASSUME NEW t \in Seq(Words) PROVE \A i \in DOMAIN t : t[i].turn \in Nat /\ i \in Nat
<1>1. \A w \in Words : w.turn \in Nat
  BY DEF Words
<1>2. \A i \in DOMAIN t : t[i] \in Words /\ i \in Nat
  OBVIOUS
<1> QED
  BY <1>1, <1>2

LEMMA TurnInLimit ==
  ASSUME NEW t \in Seq(Words), NEW s \in Seq(Ob), NEW turn,
         \A i, j \in DOMAIN t : i < j /\ t[i].says = t[j].says => t[i].turn < t[j].turn,
         \A i \in DOMAIN t : t[i].turn = turn => \E k \in DOMAIN s : IsMidTask(s[k]) /\ s[k].says = t[i].says
  PROVE  Cardinality({i \in DOMAIN t : t[i].turn = turn}) <= Cardinality(Spoken(s))
<1>1. \A i \in DOMAIN t : t[i].turn \in Nat /\ i \in Nat
  BY WordsAre
<1> DEFINE T == {i \in DOMAIN t : t[i].turn = turn}
<1>2. T \in SUBSET DOMAIN t /\ \A i \in T : i \in DOMAIN t /\ t[i].turn = turn
  OBVIOUS
<1> HIDE DEF T
<1>3. \A i, j \in T : i # j => t[i].says # t[j].says
  <2> SUFFICES ASSUME NEW i \in T, NEW j \in T, i # j, t[i].says = t[j].says PROVE FALSE
    OBVIOUS
  <2>1. i < j \/ j < i
    BY <1>1, <1>2
  <2>2. t[i].turn = t[j].turn /\ t[i].turn \in Nat
    BY <1>1, <1>2
  <2>3. ~(t[i].turn < t[j].turn) /\ ~(t[j].turn < t[i].turn)
    BY <2>2
  <2> QED
    BY <1>2, <2>1, <2>3
<1>4. \A i \in T : \E k \in DOMAIN s : IsMidTask(s[k]) /\ s[k].says = t[i].says
  BY <1>2
<1>5. Cardinality(T) <= Cardinality(Spoken(s))
  BY <1>2, <1>3, <1>4, AsManySpoken
<1> QED
  BY <1>5 DEF T

LEMMA RepliesInLimit ==
  ASSUME Typed, NoneTwice, Receipted
  PROVE  Cardinality({i \in DOMAIN said : said[i].kind = "reply"}) <= Cardinality(Spoken(obs))
<1>1. said \in Seq(Words) /\ \A i \in DOMAIN said : i \in Nat
  BY DEF Typed
<1> DEFINE T == {i \in DOMAIN said : said[i].kind = "reply"}
<1>2. T \in SUBSET DOMAIN said /\ \A i \in T : i \in DOMAIN said /\ said[i].kind = "reply"
  OBVIOUS
<1> HIDE DEF T
<1>3. \A i, j \in T : i # j => said[i].says # said[j].says
  <2> SUFFICES ASSUME NEW i \in T, NEW j \in T, i # j, said[i].says = said[j].says PROVE FALSE
    OBVIOUS
  <2>1. i < j \/ j < i
    BY <1>1, <1>2
  <2> QED
    BY <1>2, <2>1 DEF NoneTwice
<1>4. \A i \in T : \E k \in DOMAIN obs : IsMidTask(obs[k]) /\ obs[k].says = said[i].says
  <2>1. ASSUME NEW i \in T PROVE \E k \in DOMAIN obs : IsMidTask(obs[k]) /\ obs[k].says = said[i].says
    <3>1. PICK k \in DOMAIN obs : obs[k].kind = "reply" /\ obs[k].says = said[i].says
      BY <1>2 DEF Receipted
    <3> QED
      BY <3>1 DEF IsMidTask
  <2> QED
    BY <2>1
<1>5. obs \in Seq(Ob)
  BY DEF Typed
<1>6. Cardinality(T) <= Cardinality(Spoken(obs))
  BY <1>1, <1>2, <1>3, <1>4, <1>5, AsManySpoken
<1> QED
  BY <1>6 DEF T

LEMMA SaysItOnceHolds ==
  ASSUME Typed, WordsInv PROVE SaysItOnce
<1>1. Cardinality({i \in DOMAIN said : said[i].kind = "reply"}) <= MidTaskLimit
  <2> DEFINE T == {i \in DOMAIN said : said[i].kind = "reply"}
  <2>1. Cardinality(T) <= Cardinality(Spoken(obs))
    BY RepliesInLimit DEF WordsInv
  <2>2. Spoken(obs) \in SUBSET DOMAIN obs /\ T \in SUBSET DOMAIN said
    BY DEF Spoken, Indexes
  <2>3. Cardinality(T) \in Nat /\ Cardinality(Spoken(obs)) \in Nat
    BY <2>2, Finite DEF Typed
  <2>4. Cardinality(Spoken(obs)) <= MidTaskLimit /\ MidTaskLimit \in Nat
    BY LimitAssumption DEF WordsInv, InLimit
  <2> HIDE DEF T
  <2>5. Cardinality(T) <= MidTaskLimit
    BY <2>1, <2>3, <2>4
  <2> QED
    BY <2>5 DEF T
<1> QED
  BY <1>1 DEF WordsInv, SaysItOnce, NoneTwice, TurnsInLimit, SaidIn

\* Nothing is said, and no message is recorded.
SaysNothing ==
  /\ UNCHANGED <<said, resumes>> /\ (pc = "down" => pc' = "down")
  /\ Extends(obs, obs') /\ \A k \in DOMAIN obs' \ DOMAIN obs : ~IsMidTask(obs'[k])

LEMMA NothingSaid ==
  ASSUME Typed, WordsInv, SaysNothing PROVE WordsInv'
<1>1. /\ UNCHANGED <<said, resumes>> /\ (pc = "down" => pc' = "down")
      /\ DOMAIN obs \subseteq DOMAIN obs' /\ \A k \in DOMAIN obs : obs'[k] = obs[k]
      /\ \A k \in DOMAIN obs' \ DOMAIN obs : ~IsMidTask(obs'[k])
  BY DEF SaysNothing, Extends
<1>2. Spoken(obs') = Spoken(obs)
  BY <1>1 DEF Spoken, Indexes
<1>3. NoneTwice' /\ OfTurns' /\ TurnsInLimit'
  BY <1>1 DEF WordsInv, NoneTwice, OfTurns, TurnsInLimit, SaidIn
<1>4. InLimit'
  BY <1>2 DEF WordsInv, InLimit
<1>5. Receipted' /\ Recorded'
  BY <1>1 DEF WordsInv, Receipted, Recorded, IsMidTask
<1> QED
  BY <1>3, <1>4, <1>5 DEF WordsInv

\* What is allowed was not said in this turn, and is no reply that was.
LEMMA AllowedIsNew ==
  ASSUME Typed, WordsInv, pc # "down", NEW m, Allowed(m, obs), NEW i \in DOMAIN said, said[i].says = m
  PROVE  said[i].kind # "reply" /\ said[i].turn < resumes
<1>1. \A k \in DOMAIN obs : IsMidTask(obs[k]) => obs[k].says # m
  BY DEF Allowed, Indexes
<1>2. said[i].turn \in Nat /\ resumes \in Nat /\ said[i].turn <= resumes
  BY WordsAre DEF Typed, WordsInv, OfTurns
<1>3. said[i].turn # resumes
  BY <1>1 DEF WordsInv, Recorded
<1>4. said[i].kind # "reply"
  BY <1>1 DEF WordsInv, Receipted, IsMidTask
<1> QED
  BY <1>2, <1>3, <1>4

LEMMA TellsNew ==
  ASSUME Typed, WordsInv, pc # "down", NEW m \in Text, Allowed(m, obs), UNCHANGED resumes,
         NEW kind \in {"checkpoint", "reply", "unreceipted"}, Tell(m, kind)
  PROVE  /\ NoneTwice' /\ OfTurns'
         /\ \A i \in DOMAIN said' : (i \in DOMAIN said /\ said'[i] = said[i]) \/ said'[i] = [says |-> m, kind |-> kind, turn |-> resumes]
         /\ \A turn \in Nat : SaidIn(turn)' = IF turn = resumes THEN SaidIn(turn) \cup {Len(said) + 1} ELSE SaidIn(turn)
         /\ Len(said) + 1 \notin DOMAIN said
<1>1. said \in Seq(Words) /\ resumes \in Nat /\ Len(said) \in Nat /\ DOMAIN said \subseteq Nat
  BY DEF Typed
<1> DEFINE w == [says |-> m, kind |-> kind, turn |-> resumes]
           n == Len(said) + 1
<1>2. /\ said' \in Seq(Words) /\ DOMAIN said' = DOMAIN said \cup {n} /\ said'[n] = w
      /\ \A i \in DOMAIN said : said'[i] = said[i] /\ i < n
  BY <1>1, TellsAWord
<1>3. w.says = m /\ w.turn = resumes /\ n \in Nat /\ n \notin DOMAIN said
  BY <1>1, <1>2
<1> HIDE DEF w, n
<1>4. NoneTwice'
  <2> SUFFICES ASSUME NEW i \in DOMAIN said', NEW j \in DOMAIN said', i < j, said'[i].says = said'[j].says
               PROVE  said'[i].kind # "reply" /\ said'[i].turn < said'[j].turn
    BY DEF NoneTwice
  <2>1. i \in DOMAIN said
    <3>1. i = n => FALSE
      <4>1. CASE j = n
        BY <1>3, <4>1
      <4>2. CASE j \in DOMAIN said
        <5>1. j \in Nat /\ j < n
          BY <1>1, <1>2, <4>2
        <5> QED
          BY <1>3, <5>1
      <4> QED
        BY <1>2, <4>1, <4>2
    <3> QED
      BY <1>2, <3>1
  <2>2. CASE j = n
    <3>1. said[i].says = m
      BY <1>2, <1>3, <2>1, <2>2
    <3>2. said[i].kind # "reply" /\ said[i].turn < resumes
      BY <2>1, <3>1, AllowedIsNew
    <3> QED
      BY <1>2, <1>3, <2>1, <2>2, <3>2
  <2>3. CASE j \in DOMAIN said
    BY <1>2, <2>1, <2>3 DEF WordsInv, NoneTwice
  <2> QED
    BY <1>2, <2>2, <2>3
<1>5. OfTurns'
  BY <1>1, <1>2, <1>3 DEF WordsInv, OfTurns
<1>6. \A i \in DOMAIN said' : (i \in DOMAIN said /\ said'[i] = said[i]) \/ said'[i] = w
  BY <1>2
<1>7. ASSUME NEW turn \in Nat
      PROVE  SaidIn(turn)' = IF turn = resumes THEN SaidIn(turn) \cup {n} ELSE SaidIn(turn)
  <2>1. SaidIn(turn)' = {i \in DOMAIN said \cup {n} : said'[i].turn = turn}
    BY <1>2 DEF SaidIn
  <2>2. \A i \in DOMAIN said : said'[i].turn = turn <=> said[i].turn = turn
    BY <1>2
  <2>3. said'[n].turn = resumes
    BY <1>2, <1>3
  <2> QED
    BY <1>3, <2>1, <2>2, <2>3 DEF SaidIn
<1> QED
  BY <1>3, <1>4, <1>5, <1>6, <1>7 DEF w, n

\* A message is sent, or could not be, and is recorded; a reply only when it was sent.
SpeaksOnce(m, kind) ==
  /\ m \in Text /\ kind \in {"checkpoint", "reply"} /\ Allowed(m, obs)
  /\ UNCHANGED said \/ Tell(m, kind)
  /\ UNCHANGED resumes /\ pc # "down"
  /\ Extends(obs, obs')
  /\ \E n \in DOMAIN obs' \ DOMAIN obs :
       /\ obs'[n].kind = kind /\ obs'[n].says = m
       /\ \A k \in DOMAIN obs' \ DOMAIN obs : k # n => ~IsMidTask(obs'[k])

LEMMA OneSaid ==
  ASSUME Typed, WordsInv, Typed', NEW m, NEW kind, SpeaksOnce(m, kind), pc' # "down"
  PROVE  WordsInv'
<1>1. /\ m \in Text /\ kind \in {"checkpoint", "reply"} /\ Allowed(m, obs) /\ UNCHANGED resumes /\ pc # "down"
      /\ DOMAIN obs \subseteq DOMAIN obs' /\ \A k \in DOMAIN obs : obs'[k] = obs[k]
  BY DEF SpeaksOnce, Extends
<1>2. PICK n \in DOMAIN obs' \ DOMAIN obs :
        /\ obs'[n].kind = kind /\ obs'[n].says = m
        /\ \A k \in DOMAIN obs' \ DOMAIN obs : k # n => ~IsMidTask(obs'[k])
  BY DEF SpeaksOnce
<1>3. IsMidTask(obs'[n])
  BY <1>1, <1>2 DEF IsMidTask
<1>4. UNCHANGED said \/ Tell(m, kind)
  BY DEF SpeaksOnce
<1> DEFINE w == [says |-> m, kind |-> kind, turn |-> resumes]
<1>5. /\ NoneTwice' /\ OfTurns'
      /\ \A i \in DOMAIN said' : (i \in DOMAIN said /\ said'[i] = said[i]) \/ said'[i] = w
      /\ \A turn \in Nat : turn # resumes => SaidIn(turn)' = SaidIn(turn)
  <2>1. CASE UNCHANGED said
    BY <1>1, <2>1 DEF WordsInv, NoneTwice, OfTurns, SaidIn
  <2>2. CASE Tell(m, kind)
    BY <1>1, <2>2, TellsNew
  <2> QED
    BY <1>4, <2>1, <2>2
<1>6. InLimit'
  <2>1. Spoken(obs') = Spoken(obs) \cup {n} /\ n \notin Spoken(obs) /\ Spoken(obs) \in SUBSET DOMAIN obs
    BY <1>1, <1>2, <1>3 DEF Spoken, Indexes
  <2>2. IsFiniteSet(Spoken(obs)) /\ Cardinality(Spoken(obs)) \in Nat /\ MidTaskLimit \in Nat
    BY <2>1, Finite, LimitAssumption DEF Typed
  <2>3. Cardinality(Spoken(obs)) < MidTaskLimit
    BY <1>1 DEF Allowed, Spoken
  <2>4. Cardinality(Spoken(obs) \cup {n}) = Cardinality(Spoken(obs)) + 1
    BY <2>1, <2>2, FS_AddElement
  <2>5. Cardinality(Spoken(obs')) <= MidTaskLimit
    BY <2>1, <2>2, <2>3, <2>4
  <2> QED
    BY <2>5 DEF InLimit
<1>7. Receipted'
  <2> SUFFICES ASSUME NEW i \in DOMAIN said', said'[i].kind = "reply"
               PROVE  \E k \in DOMAIN obs' : obs'[k].kind = "reply" /\ obs'[k].says = said'[i].says
    BY DEF Receipted
  <2>1. CASE i \in DOMAIN said /\ said'[i] = said[i]
    BY <1>1, <2>1 DEF WordsInv, Receipted
  <2>2. CASE said'[i] = w
    BY <1>2, <2>2
  <2> QED
    BY <1>5, <2>1, <2>2
<1>8. Recorded'
  <2> SUFFICES ASSUME NEW i \in DOMAIN said', said'[i].turn = resumes
               PROVE  \E k \in DOMAIN obs' : IsMidTask(obs'[k]) /\ obs'[k].says = said'[i].says
    BY <1>1 DEF Recorded
  <2>1. CASE i \in DOMAIN said /\ said'[i] = said[i]
    <3>1. PICK k \in DOMAIN obs : IsMidTask(obs[k]) /\ obs[k].says = said[i].says
      BY <1>1, <2>1 DEF WordsInv, Recorded
    <3>2. k \in DOMAIN obs' /\ obs'[k] = obs[k]
      BY <1>1
    <3> QED
      BY <2>1, <3>1, <3>2
  <2>2. CASE said'[i] = w
    BY <1>2, <1>3, <2>2
  <2> QED
    BY <1>5, <2>1, <2>2
<1>9. TurnsInLimit'
  <2>1. resumes \in Nat /\ resumes' = resumes /\ MidTaskLimit \in Nat
    BY <1>1, LimitAssumption DEF Typed
  <2>2. Cardinality(SaidIn(resumes))' <= Cardinality(Spoken(obs'))
    <3>1. said' \in Seq(Words) /\ obs' \in Seq(Ob)
      BY DEF Typed
    <3>2. /\ \A i, j \in DOMAIN said' : i < j /\ said'[i].says = said'[j].says => said'[i].turn < said'[j].turn
          /\ \A i \in DOMAIN said' : said'[i].turn = resumes' =>
               \E k \in DOMAIN obs' : IsMidTask(obs'[k]) /\ obs'[k].says = said'[i].says
      BY <1>5, <1>8 DEF NoneTwice, Recorded
    <3> QED
      BY <3>1, <3>2, TurnInLimit DEF SaidIn
  <2>3. Cardinality(Spoken(obs')) <= MidTaskLimit
    BY <1>6 DEF InLimit
  <2>4. Cardinality(SaidIn(resumes))' \in Nat /\ Cardinality(Spoken(obs')) \in Nat
    <3>1. SaidIn(resumes)' \in SUBSET DOMAIN said' /\ Spoken(obs') \in SUBSET DOMAIN obs'
      BY DEF SaidIn, Spoken, Indexes
    <3> QED
      BY <3>1, Finite DEF Typed
  <2>5. Cardinality(SaidIn(resumes)') <= MidTaskLimit
    BY <2>1, <2>2, <2>3, <2>4
  <2>6. ASSUME NEW turn \in 0 .. resumes PROVE Cardinality(SaidIn(turn)') <= MidTaskLimit
    <3>1. turn \in Nat
      BY <2>1
    <3>2. CASE turn = resumes
      BY <2>1, <2>5, <3>2 DEF SaidIn
    <3>3. CASE turn # resumes
      <4>1. SaidIn(turn)' = SaidIn(turn)
        BY <1>5, <3>1, <3>3
      <4> QED
        BY <4>1 DEF WordsInv, TurnsInLimit
    <3> QED
      BY <3>2, <3>3
  <2> QED
    BY <2>1, <2>6 DEF TurnsInLimit
<1> QED
  BY <1>5, <1>6, <1>7, <1>8, <1>9 DEF WordsInv

LEMMA SpeaksUpSays ==
  ASSUME Typed, WordsInv, Typed', NEW o \in Ob, SpeaksUp(o), ~IsMidTask(o), pc # "down", pc' # "down", UNCHANGED resumes
  PROVE  WordsInv'
<1>1. obs \in Seq(Ob) /\ Len(obs) \in Nat /\ DOMAIN obs = 1 .. Len(obs)
  BY DEF Typed
<1>2. CASE obs' = Append(obs, o) /\ UNCHANGED said
  <2>1. /\ Extends(obs, obs') /\ DOMAIN obs' = DOMAIN obs \cup {Len(obs) + 1} /\ obs'[Len(obs) + 1] = o
    BY <1>1, <1>2, AppendExtends
  <2>2. SaysNothing
    BY <1>2, <2>1 DEF SaysNothing
  <2> QED
    BY <2>2, NothingSaid
<1>3. ASSUME NEW m \in Message, Allowed(m, obs), obs' = Append(Append(obs, Said("checkpoint", m)), o),
             UNCHANGED said \/ Tell(m, "checkpoint")
      PROVE  WordsInv'
  <2> DEFINE w == Said("checkpoint", m)
             s == Append(obs, w)
  <2>1. w \in Ob /\ w.kind = "checkpoint" /\ w.says = m /\ m \in Text
    BY ObsMade DEF Said, Text
  <2> HIDE DEF w
  <2>2. /\ s \in Seq(Ob) /\ Len(s) = Len(obs) + 1 /\ DOMAIN s = DOMAIN obs \cup {Len(obs) + 1}
        /\ s[Len(obs) + 1] = w /\ \A k \in DOMAIN obs : s[k] = obs[k]
    BY <1>1, <2>1, AppendExtends
  <2>3. obs' = Append(s, o)
    BY <1>3 DEF w
  <2> HIDE DEF s
  <2>4. /\ obs' \in Seq(Ob) /\ Len(obs') = Len(s) + 1 /\ DOMAIN obs' = DOMAIN s \cup {Len(s) + 1}
        /\ obs'[Len(s) + 1] = o /\ \A k \in DOMAIN s : obs'[k] = s[k]
    BY <2>2, <2>3, AppendExtends
  <2>5. Extends(obs, obs')
    BY <1>1, <2>2, <2>4 DEF Extends
  <2>6. Len(obs) + 1 \in DOMAIN obs' \ DOMAIN obs /\ obs'[Len(obs) + 1] = w
    BY <1>1, <2>2, <2>4
  <2>7. \A k \in DOMAIN obs' \ DOMAIN obs : k # Len(obs) + 1 => obs'[k] = o
    BY <1>1, <2>2, <2>4
  <2>8. SpeaksOnce(m, "checkpoint")
    BY <1>3, <2>1, <2>5, <2>6, <2>7 DEF SpeaksOnce
  <2> QED
    BY <2>8, OneSaid
<1> QED
  BY <1>2, <1>3 DEF SpeaksUp

LEMMA CallWords ==
  ASSUME TypeInv, WordsInv, TypeInv', NEW m \in Message \cup {Quiet}, NEW ok \in BOOLEAN, Call(m, ok)
  PROVE  WordsInv'
<1>1. PICK o \in Ob : CallSays(o)
  BY CallSplits DEF TypeInv
<1>2. pc = "acting" /\ UNCHANGED <<resumes, pc>>
  BY CallSplits DEF TypeInv
<1>3. SpeaksUp(o) /\ ~IsMidTask(o)
  BY <1>1 DEF CallSays, IsMidTask
<1> QED
  BY <1>2, <1>3, SpeaksUpSays DEF TypeInv

LEMMA StillObs ==
  ASSUME Typed, WordsInv, UNCHANGED <<obs, said, resumes>>, pc = "down" => pc' = "down"
  PROVE  WordsInv'
<1>1. Extends(obs, obs')
  BY SameExtends
<1>2. SaysNothing
  BY <1>1 DEF SaysNothing
<1> QED
  BY <1>2, NothingSaid

LEMMA GoesOnWords ==
  ASSUME TypeInv, WordsInv, GoesOn, pc # "down"
  PROVE  WordsInv'
<1>1. Typed /\ UNCHANGED <<said, resumes>> /\ obs \in Seq(Ob)
  BY DEF TypeInv, GoesOn, told, Typed
<1>2. CASE NoDelivery
  BY <1>1, <1>2, StillObs DEF NoDelivery
<1>3. CASE FailsToDeliver \/ \E files \in SUBSET File : Delivers(files)
  <2>1. PICK d \in Ob : obs' = Append(obs, d) /\ d.kind = "delivery"
    BY <1>3 DEF FailsToDeliver, Delivers, IsDelivered
  <2>2. Extends(obs, obs') /\ DOMAIN obs' = DOMAIN obs \cup {Len(obs) + 1} /\ obs'[Len(obs) + 1] = d
    BY <1>1, <2>1, AppendExtends
  <2>3. SaysNothing
    BY <1>1, <2>1, <2>2 DEF SaysNothing, IsMidTask
  <2> QED
    BY <1>1, <2>3, NothingSaid
<1> QED
  BY <1>2, <1>3, Zenon DEF GoesOn

LEMMA SendWords ==
  ASSUME TypeInv, WordsInv, TypeInv', NEW m \in Text, Send(m)
  PROVE  WordsInv'
<1>1. /\ pc = "replying" /\ pc' = "acting" /\ UNCHANGED resumes
      /\ UNCHANGED <<obs, sentPaths, told>> \/ SendsIt(m)
  BY SendSplits DEF TypeInv
<1>2. CASE UNCHANGED <<obs, sentPaths, told>>
  BY <1>1, <1>2, StillObs DEF TypeInv, told
<1>3. CASE SendsIt(m)
  <2> DEFINE w == Said("reply", m)
  <2>1. w \in Ob /\ obs \in Seq(Ob) /\ w.kind = "reply" /\ w.says = m
    BY ObsMade DEF TypeInv, Typed, Said
  <2>2. obs' = Append(obs, w) /\ Allowed(m, obs) /\ Tell(m, "reply")
    BY <1>3 DEF SendsIt
  <2> HIDE DEF w
  <2>3. /\ Extends(obs, obs') /\ DOMAIN obs' = DOMAIN obs \cup {Len(obs) + 1} /\ obs'[Len(obs) + 1] = w
        /\ Len(obs) + 1 \notin DOMAIN obs
    BY <2>1, <2>2, AppendExtends
  <2>4. SpeaksOnce(m, "reply")
    BY <1>1, <2>1, <2>2, <2>3 DEF SpeaksOnce
  <2> QED
    BY <1>1, <2>4, OneSaid DEF TypeInv
<1> QED
  BY <1>1, <1>2, <1>3

\* A process that dies between a reply and its receipt: the turn is over, the reply was new to it.
LEMMA CrashWords ==
  ASSUME TypeInv, WordsInv, TypeInv', Crash
  PROVE  WordsInv'
<1>1. /\ pc # "down" /\ pc' = "down" /\ UNCHANGED resumes
      /\ UNCHANGED <<disk, obs, said>> \/ DiesSpeaking \/ DiesCalling
  BY CrashSplits DEF TypeInv
<1>2. CASE UNCHANGED <<disk, obs, said>>
  BY <1>1, <1>2, StillObs DEF TypeInv
<1>3. CASE DiesCalling
  <2>1. UNCHANGED said /\ obs \in Seq(Ob)
    BY <1>3 DEF DiesCalling, TypeInv, Typed
  <2>2. PICK o \in Ob : ~IsMidTask(o) /\ obs' = Append(obs, o)
    BY <1>3, Zenon DEF DiesCalling
  <2>3. Extends(obs, obs') /\ DOMAIN obs' = DOMAIN obs \cup {Len(obs) + 1} /\ obs'[Len(obs) + 1] = o
    BY <2>1, <2>2, AppendExtends
  <2>4. SaysNothing
    BY <1>1, <2>1, <2>2, <2>3 DEF SaysNothing
  <2> QED
    BY <2>4, NothingSaid DEF TypeInv
<1>4. CASE DiesSpeaking
  <2>1. PICK m \in Text : Allowed(m, obs) /\ Tell(m, "unreceipted") /\ UNCHANGED obs
    BY <1>4 DEF DiesSpeaking
  <2> DEFINE w == [says |-> m, kind |-> "unreceipted", turn |-> resumes]
  <2>2. /\ NoneTwice' /\ OfTurns'
        /\ \A i \in DOMAIN said' : (i \in DOMAIN said /\ said'[i] = said[i]) \/ said'[i] = w
        /\ \A turn \in Nat : SaidIn(turn)' = IF turn = resumes THEN SaidIn(turn) \cup {Len(said) + 1} ELSE SaidIn(turn)
        /\ Len(said) + 1 \notin DOMAIN said
    <3>1. m \in Text /\ Typed
      BY DEF Text, TypeInv
    <3> QED
      BY <1>1, <2>1, <3>1, TellsNew
  <2>3. InLimit' /\ Recorded'
    BY <1>1, <2>1 DEF WordsInv, InLimit, Recorded
  <2>4. Receipted'
    <3> SUFFICES ASSUME NEW i \in DOMAIN said', said'[i].kind = "reply"
                 PROVE  \E k \in DOMAIN obs' : obs'[k].kind = "reply" /\ obs'[k].says = said'[i].says
      BY DEF Receipted
    <3>1. i \in DOMAIN said /\ said'[i] = said[i]
      BY <2>2
    <3> QED
      BY <2>1, <3>1 DEF WordsInv, Receipted
  <2>5. TurnsInLimit'
    <3> DEFINE T == SaidIn(resumes)
    <3>1. said \in Seq(Words) /\ obs \in Seq(Ob) /\ resumes \in Nat /\ MidTaskLimit \in Nat
      BY LimitAssumption DEF TypeInv, Typed
    <3>2. Cardinality(T) <= Cardinality(Spoken(obs))
      <4>1. /\ \A i, j \in DOMAIN said : i < j /\ said[i].says = said[j].says => said[i].turn < said[j].turn
            /\ \A i \in DOMAIN said : said[i].turn = resumes =>
                 \E k \in DOMAIN obs : IsMidTask(obs[k]) /\ obs[k].says = said[i].says
        BY <1>1 DEF WordsInv, NoneTwice, Recorded
      <4> QED
        BY <3>1, <4>1, TurnInLimit DEF SaidIn
    <3>3. T \in SUBSET DOMAIN said /\ Spoken(obs) \in SUBSET DOMAIN obs
      BY DEF SaidIn, Spoken, Indexes
    <3> HIDE DEF T
    <3>4. IsFiniteSet(T) /\ Cardinality(T) \in Nat /\ Cardinality(Spoken(obs)) \in Nat
      BY <3>1, <3>3, Finite
    <3>5. Cardinality(Spoken(obs)) < MidTaskLimit
      BY <2>1 DEF Allowed, Spoken
    <3>6. Cardinality(T \cup {Len(said) + 1}) = Cardinality(T) + 1
      BY <2>2, <3>3, <3>4, FS_AddElement
    <3>7. Cardinality(T \cup {Len(said) + 1}) <= MidTaskLimit
      BY <3>1, <3>2, <3>4, <3>5, <3>6
    <3>8. ASSUME NEW turn \in 0 .. resumes PROVE Cardinality(SaidIn(turn)') <= MidTaskLimit
      <4>1. turn \in Nat
        BY <3>1
      <4>2. CASE turn = resumes
        <5>1. SaidIn(turn)' = T \cup {Len(said) + 1}
          BY <2>2, <4>1, <4>2 DEF T
        <5> QED
          BY <3>7, <5>1
      <4>3. CASE turn # resumes
        <5>1. SaidIn(turn)' = SaidIn(turn)
          BY <2>2, <4>1, <4>3
        <5> QED
          BY <5>1 DEF WordsInv, TurnsInLimit
      <4> QED
        BY <4>2, <4>3
    <3> QED
      BY <1>1, <3>8 DEF TurnsInLimit
  <2> QED
    BY <2>2, <2>3, <2>4, <2>5 DEF WordsInv
<1> QED
  BY <1>1, <1>2, <1>3, <1>4

LEMMA ResumeWords ==
  ASSUME TypeInv, WordsInv, TypeInv', NEW afterRestart \in BOOLEAN, Resume(afterRestart)
  PROVE  WordsInv'
<1>1. resumes' = resumes + 1 /\ UNCHANGED said /\ obs' \in Seq(Ob) /\ Recovers
  BY ResumeSplits DEF TypeInv, told
<1>2. PICK g : Recalls(obs', g)
  BY <1>1 DEF Recovers
<1>3. said \in Seq(Words) /\ resumes \in Nat /\ obs \in Seq(Ob) /\ MidTaskLimit \in Nat
  BY LimitAssumption DEF TypeInv, Typed
<1>4. \A i \in DOMAIN said : said[i].turn \in Nat /\ said[i].turn < resumes'
  <2>1. ASSUME NEW i \in DOMAIN said PROVE said[i].turn \in Nat /\ said[i].turn < resumes'
    <3>1. said[i].turn \in Nat /\ said[i].turn <= resumes
      BY <1>3, WordsAre DEF WordsInv, OfTurns
    <3> QED
      BY <1>1, <1>3, <3>1
  <2> QED
    BY <2>1
<1>5. NoneTwice'
  BY <1>1 DEF WordsInv, NoneTwice
<1>6. OfTurns' /\ Recorded'
  <2>1. \A i \in DOMAIN said : said[i].turn <= resumes' /\ said[i].turn # resumes'
    BY <1>1, <1>3, <1>4
  <2> QED
    BY <1>1, <2>1 DEF OfTurns, Recorded
<1>7. Receipted'
  <2> SUFFICES ASSUME NEW i \in DOMAIN said, said[i].kind = "reply"
               PROVE  \E k \in DOMAIN obs' : obs'[k].kind = "reply" /\ obs'[k].says = said[i].says
    BY <1>1 DEF Receipted
  <2>1. PICK k \in DOMAIN obs : obs[k].kind = "reply" /\ obs[k].says = said[i].says
    BY DEF WordsInv, Receipted
  <2>2. ~Failed(obs[k])
    BY <2>1 DEF Failed
  <2>3. PICK n \in DOMAIN obs' : g[n] = k
    BY <1>2, <2>1, <2>2 DEF Recalls
  <2>4. obs'[n] = obs[k]
    BY <1>2, <2>3 DEF Recalls
  <2> QED
    BY <2>1, <2>4
<1>8. InLimit'
  <2> DEFINE h == [k \in Spoken(obs') |-> g[k]]
  <2>1. Spoken(obs') \in SUBSET DOMAIN obs' /\ Spoken(obs) \in SUBSET DOMAIN obs
    BY DEF Spoken, Indexes
  <2>2. h \in [Spoken(obs') -> Spoken(obs)]
    <3>1. ASSUME NEW k \in Spoken(obs') PROVE g[k] \in Spoken(obs)
      <4>1. k \in DOMAIN obs' /\ IsMidTask(obs'[k])
        BY DEF Spoken, Indexes
      <4>2. g[k] \in DOMAIN obs /\ obs'[k] = obs[g[k]]
        BY <1>2, <4>1 DEF Recalls
      <4> QED
        BY <4>1, <4>2 DEF Spoken, Indexes
    <3> QED
      BY <3>1
  <2>3. \A k, m \in Spoken(obs') : h[k] = h[m] => k = m
    <3> SUFFICES ASSUME NEW k \in Spoken(obs'), NEW m \in Spoken(obs'), g[k] = g[m], k # m PROVE FALSE
      OBVIOUS
    <3>1. k \in DOMAIN obs' /\ m \in DOMAIN obs' /\ k \in Nat /\ m \in Nat
      BY <1>1, <2>1
    <3>2. g[k] < g[m] \/ g[m] < g[k]
      <4>1. k < m \/ m < k
        BY <3>1
      <4> QED
        BY <1>2, <3>1, <4>1 DEF Recalls
    <3>3. g[k] \in Nat
      BY <1>2, <1>3, <3>1 DEF Recalls
    <3> QED
      BY <3>2, <3>3
  <2> HIDE DEF h
  <2>4. h \in Injection(Spoken(obs'), Spoken(obs))
    BY <2>2, <2>3, Zenon DEF Injection, IsInjective
  <2>5. /\ IsFiniteSet(Spoken(obs')) /\ IsFiniteSet(Spoken(obs))
        /\ Cardinality(Spoken(obs')) \in Nat /\ Cardinality(Spoken(obs)) \in Nat
    BY <1>1, <1>3, <2>1, Finite
  <2>6. Cardinality(Spoken(obs')) <= Cardinality(Spoken(obs))
    BY <2>4, <2>5, FS_Injection, Zenon
  <2>7. Cardinality(Spoken(obs')) <= MidTaskLimit
    BY <1>3, <2>5, <2>6 DEF WordsInv, InLimit
  <2> QED
    BY <2>7 DEF InLimit
<1>9. TurnsInLimit'
  <2>1. ASSUME NEW turn \in 0 .. resumes' PROVE Cardinality(SaidIn(turn)') <= MidTaskLimit
    <3>1. SaidIn(turn)' = SaidIn(turn)
      BY <1>1 DEF SaidIn
    <3>2. CASE turn \in 0 .. resumes
      BY <3>1, <3>2 DEF WordsInv, TurnsInLimit
    <3>3. CASE turn = resumes'
      <4>1. SaidIn(turn) = {}
        <5>1. \A i \in DOMAIN said : said[i].turn # resumes'
          BY <1>1, <1>3, <1>4
        <5> QED
          BY <3>3, <5>1 DEF SaidIn
      <4>2. Cardinality({}) = 0
        BY FS_EmptySet
      <4> QED
        BY <1>3, <3>1, <4>1, <4>2
    <3> QED
      BY <1>1, <1>3, <3>2, <3>3
  <2> QED
    BY <2>1 DEF TurnsInLimit
<1> QED
  BY <1>5, <1>6, <1>7, <1>8, <1>9 DEF WordsInv

LEMMA InitWords ==
  ASSUME Init PROVE WordsInv
<1>1. obs = <<>> /\ said = <<>> /\ resumes = 0 /\ MidTaskLimit \in Nat
  BY LimitAssumption DEF Init
<1>2. Spoken(obs) = {} /\ \A turn : SaidIn(turn) = {}
  BY <1>1 DEF Spoken, Indexes, SaidIn
<1>3. Cardinality({}) = 0
  BY FS_EmptySet
<1>4. DOMAIN said = {}
  BY <1>1
<1>5. NoneTwice /\ OfTurns /\ Receipted /\ Recorded
  BY <1>4 DEF NoneTwice, OfTurns, Receipted, Recorded
<1>6. 0 <= MidTaskLimit
  BY <1>1
<1>7. Cardinality(Spoken(obs)) <= MidTaskLimit
  BY <1>2, <1>3, <1>6
<1>8. ASSUME NEW turn \in 0 .. resumes PROVE Cardinality(SaidIn(turn)) <= MidTaskLimit
  <2>1. SaidIn(turn) = {}
    BY <1>2
  <2> QED
    BY <1>3, <1>6, <2>1
<1> QED
  BY <1>5, <1>7, <1>8 DEF WordsInv, InLimit, TurnsInLimit

LEMMA StepWords ==
  ASSUME TypeInv, WordsInv, TypeInv', [Next]_vars PROVE WordsInv'
<1> USE DEF TypeInv
<1>1. ASSUME NEW m \in Message \cup {Quiet}, NEW ok \in BOOLEAN, Call(m, ok) PROVE WordsInv'
  BY <1>1, CallWords
<1>2. ASSUME NEW f \in File, NEW shape \in Shapes, NEW brings \in {{}, {f}}, Delegate(f, shape, brings) PROVE WordsInv'
  <2>1. UNCHANGED <<obs, said, resumes>> /\ (pc = "down" => pc' = "down")
    BY <1>2 DEF Delegate, told
  <2> QED
    BY <2>1, StillObs
<1>3. ASSUME NEW files \in SUBSET File, NEW asks \in BOOLEAN, Reply(files, asks) PROVE WordsInv'
  BY <1>3, ReplyGoesOn, GoesOnWords
<1>4. ASSUME NEW m \in Message \cup {Quiet}, Send(m) PROVE WordsInv'
  BY <1>4, SendWords DEF Text
<1>5. CASE Ask
  <2>1. UNCHANGED <<obs, said, resumes>> /\ pc = "asking"
    BY <1>5, AskSplits DEF told
  <2> QED
    BY <2>1, StillObs
<1>6. ASSUME NEW files \in SUBSET File, NEW cites \in SUBSET Indexes(obs, IsDelivered), Finish(files, cites) PROVE WordsInv'
  BY <1>6, FinishGoesOn, GoesOnWords
<1>7. CASE Redeliver
  BY <1>7, RedeliverGoesOn, GoesOnWords
<1>8. CASE Judge
  <2>1. UNCHANGED <<obs, said, resumes>> /\ pc = "judging"
    BY <1>8, JudgeSplits DEF told
  <2> QED
    BY <2>1, StillObs
<1>9. CASE Stop
  <2>1. UNCHANGED <<obs, said, resumes>> /\ pc = "acting"
    BY <1>9, StopSplits DEF told
  <2> QED
    BY <2>1, StillObs
<1>10. CASE Crash
  BY <1>10, CrashWords
<1>11. ASSUME NEW afterRestart \in BOOLEAN, Resume(afterRestart) PROVE WordsInv'
  BY <1>11, ResumeWords
<1>12. CASE UNCHANGED vars
  <2>1. UNCHANGED <<obs, said, resumes, pc>>
    BY <1>12 DEF vars, told
  <2> QED
    BY <2>1, StillObs
<1> QED
  BY <1>1, <1>2, <1>3, <1>4, <1>5, <1>6, <1>7, <1>8, <1>9, <1>10, <1>11, <1>12, Zenon DEF Next

-----------------------------------------------------------------------------
(* What is carried is as it was checked.                                   *)

Unseen(f) == f \in unseen.child \cup unseen.restart

\* The latest delivery of a file shows it as it is, or a later call changed it, or nobody saw it change.
Current(f, k) ==
  Unseen(f) \/ obs[k].given[f] = disk[f] \/ \E i \in DOMAIN obs : i > k /\ Alters(obs[i], f)
AllCurrent == \A f \in File, k \in DOMAIN obs : IsLatest(obs, k, f) => Current(f, k)

\* When a reply is judged, no call came after the delivery of a file it may carry.
AsJudged ==
  pc = "judging" => \A f \in File \ sentPaths, k \in DOMAIN obs :
    IsLatest(obs, k, f) => Unseen(f) \/ obs[k].given[f] = disk[f]

CurrentInv == AllCurrent /\ AsJudged /\ CarriedIsCurrent /\ CarriedIsSound

LEMMA StillOpen ==
  ASSUME TypeInv', pc' # "ended" PROVE CarriedIsCurrent' /\ CarriedIsSound'
BY DEF TypeInv, InHand, CarriedIsCurrent, CarriedIsSound

\* Nothing is handed over, and every change of a file is on record or unseen.
Moves ==
  /\ Extends(obs, obs') /\ \A k \in DOMAIN obs' \ DOMAIN obs : k > Len(obs) /\ ~IsDelivered(obs'[k])
  /\ unseen.child \subseteq unseen'.child /\ unseen.restart \subseteq unseen'.restart
  /\ \A f \in File : \/ disk'[f] = disk[f] \/ Unseen(f)'
                     \/ \E i \in DOMAIN obs' \ DOMAIN obs : Alters(obs'[i], f)

LEMMA MovesCurrent ==
  ASSUME Typed, AllCurrent, Moves, Typed' PROVE AllCurrent'
<1>1. obs \in Seq(Ob) /\ Len(obs) \in Nat /\ DOMAIN obs = 1 .. Len(obs)
  BY DEF Typed
<1>2. DOMAIN obs \subseteq DOMAIN obs' /\ \A k \in DOMAIN obs : obs'[k] = obs[k]
  BY DEF Moves, Extends
<1> SUFFICES ASSUME NEW f \in File, NEW k \in DOMAIN obs', IsLatest(obs', k, f)
             PROVE  Current(f, k)'
  BY DEF AllCurrent
<1>3. k \in DOMAIN obs
  <2>1. IsDelivered(obs'[k])
    BY DEF IsLatest, Gives
  <2> QED
    BY <2>1 DEF Moves
<1>4. IsLatest(obs, k, f)
  BY <1>2, <1>3 DEF IsLatest
<1>5. Unseen(f) => Unseen(f)'
  BY DEF Moves, Unseen
<1>6. CASE disk'[f] = disk[f]
  <2>1. Current(f, k)
    BY <1>3, <1>4 DEF AllCurrent
  <2> QED
    BY <1>2, <1>3, <1>5, <1>6, <2>1 DEF Current
<1>7. CASE Unseen(f)'
  BY <1>7 DEF Current
<1>8. ASSUME NEW i \in DOMAIN obs' \ DOMAIN obs, Alters(obs'[i], f) PROVE Current(f, k)'
  <2>1. i > Len(obs) /\ k <= Len(obs) /\ k \in Nat
    BY <1>1, <1>3 DEF Moves
  <2>2. i > k
    <3>1. i \in Nat
      BY DEF Typed
    <3> QED
      BY <1>1, <2>1, <3>1
  <2> QED
    BY <1>8, <2>2 DEF Current
<1> QED
  BY <1>6, <1>7, <1>8 DEF Moves

LEMMA DeliversCurrent ==
  ASSUME Typed, AllCurrent, NEW files \in SUBSET File, Delivers(files), UNCHANGED disk
  PROVE  /\ AllCurrent'
         /\ \A f \in File, k \in DOMAIN obs' : IsLatest(obs', k, f) =>
              IF f \in files THEN obs'[k].given[f] = disk[f] ELSE k \in DOMAIN obs /\ obs'[k] = obs[k] /\ IsLatest(obs, k, f)
         /\ \A f \in File \ files : Unseen(f) => Unseen(f)'
<1>1. obs \in Seq(Ob) /\ Len(obs) \in Nat /\ DOMAIN obs = 1 .. Len(obs)
  BY DEF Typed
<1>2. PICK d \in Ob : /\ obs' = Append(obs, d) /\ IsDelivered(d) /\ DOMAIN d.given = files
                      /\ \A f \in files : d.given[f] = disk[f]
  BY DEF Delivers
<1> DEFINE n == Len(obs) + 1
<1>3. /\ DOMAIN obs' = DOMAIN obs \cup {n} /\ obs'[n] = d /\ n \notin DOMAIN obs
      /\ \A k \in DOMAIN obs : obs'[k] = obs[k] /\ n > k
  BY <1>1, <1>2, AppendExtends
<1> HIDE DEF n
<1>4. \A f \in File \ files : Unseen(f) => Unseen(f)'
  BY DEF Delivers, Unseen
<1>5. ASSUME NEW f \in files, NEW k \in DOMAIN obs', IsLatest(obs', k, f) PROVE obs'[k].given[f] = disk[f]
  <2>1. Gives(obs'[n], f)
    BY <1>2, <1>3 DEF Gives
  <2>2. k = n
    BY <1>3, <1>5, <2>1 DEF IsLatest
  <2> QED
    BY <1>2, <1>3, <2>2
<1>6. ASSUME NEW f \in File \ files, NEW k \in DOMAIN obs', IsLatest(obs', k, f)
      PROVE  k \in DOMAIN obs /\ obs'[k] = obs[k] /\ IsLatest(obs, k, f)
  <2>1. k # n
    BY <1>2, <1>3, <1>6 DEF IsLatest, Gives
  <2> QED
    BY <1>3, <1>6, <2>1 DEF IsLatest
<1>7. AllCurrent'
  <2> SUFFICES ASSUME NEW f \in File, NEW k \in DOMAIN obs', IsLatest(obs', k, f) PROVE Current(f, k)'
    BY DEF AllCurrent
  <2>1. CASE f \in files
    BY <1>5, <2>1 DEF Current
  <2>2. CASE f \notin files
    <3>1. k \in DOMAIN obs /\ obs'[k] = obs[k] /\ Current(f, k)
      BY <1>6, <2>2 DEF AllCurrent
    <3>2. DOMAIN obs \subseteq DOMAIN obs' /\ \A i \in DOMAIN obs : obs'[i] = obs[i]
      BY <1>3
    <3> QED
      BY <1>4, <2>2, <3>1, <3>2 DEF Current
  <2> QED
    BY <2>1, <2>2
<1> QED
  BY <1>4, <1>5, <1>6, <1>7

LEMMA GoesOnCurrent ==
  ASSUME TypeInv, CurrentInv, GoesOn, TypeInv'
  PROVE  AllCurrent'
<1>1. Typed /\ AllCurrent /\ UNCHANGED disk /\ obs \in Seq(Ob)
  BY DEF TypeInv, CurrentInv, GoesOn, Typed
<1>2. CASE NoDelivery
  BY <1>1, <1>2 DEF NoDelivery, AllCurrent, Current, Unseen
<1>3. CASE FailsToDeliver
  <2>1. PICK d \in Ob : obs' = Append(obs, d) /\ ~IsDelivered(d)
    BY <1>3 DEF FailsToDeliver, IsDelivered
  <2>2. /\ Extends(obs, obs') /\ DOMAIN obs' = DOMAIN obs \cup {Len(obs) + 1} /\ obs'[Len(obs) + 1] = d
        /\ Len(obs) + 1 > Len(obs)
    BY <1>1, <2>1, AppendExtends
  <2>3. Moves
    BY <1>1, <1>3, <2>1, <2>2 DEF Moves, FailsToDeliver
  <2> QED
    BY <1>1, <2>3, MovesCurrent DEF TypeInv
<1>4. CASE \E files \in SUBSET File : Delivers(files)
  BY <1>1, <1>4, DeliversCurrent
<1> QED
  BY <1>2, <1>3, <1>4, Zenon DEF GoesOn

LEMMA CallCurrent ==
  ASSUME TypeInv, CurrentInv, TypeInv', NEW m \in Message \cup {Quiet}, NEW ok \in BOOLEAN, Call(m, ok)
  PROVE  CurrentInv'
<1>1. PICK o \in Ob : CallSays(o)
  BY CallSplits DEF TypeInv
<1>2. pc = "acting" /\ UNCHANGED <<pc, unseen>> /\ Typed /\ AllCurrent
  BY CallSplits DEF TypeInv, CurrentInv
<1>3. SpeaksUp(o) /\ o.kind = "call"
  BY <1>1 DEF CallSays
<1>4. /\ Extends(obs, obs') /\ \A k \in DOMAIN obs' : k \in DOMAIN obs \/ k > Len(obs)
      /\ Len(obs') \in DOMAIN obs' /\ Len(obs') > Len(obs) /\ obs'[Len(obs')] = o
      /\ \A k \in DOMAIN obs' \ DOMAIN obs : obs'[k] = o \/ obs'[k].kind = "checkpoint"
  BY <1>2, <1>3, SpeaksUpEffect
<1>5. \A k \in DOMAIN obs' \ DOMAIN obs : k > Len(obs) /\ ~IsDelivered(obs'[k])
  BY <1>3, <1>4 DEF IsDelivered
<1>6. Len(obs') \in DOMAIN obs' \ DOMAIN obs
  <2>1. Len(obs) \in Nat /\ Len(obs') \in Nat /\ DOMAIN obs = 1 .. Len(obs)
    BY <1>2 DEF TypeInv, Typed
  <2> QED
    BY <1>4, <2>1
<1>7. \A f \in File : disk'[f] = disk[f] \/ \E i \in DOMAIN obs' \ DOMAIN obs : Alters(obs'[i], f)
  <2>1. CASE UNCHANGED disk
    BY <2>1
  <2>2. ASSUME NEW f \in File, NEW shape \in Shapes, Change(f, shape), Alters(o, f)
        PROVE  \A g \in File : disk'[g] = disk[g] \/ \E i \in DOMAIN obs' \ DOMAIN obs : Alters(obs'[i], g)
    <3>1. \A g \in File \ {f} : disk'[g] = disk[g]
      BY <1>2, <2>2, ChangeEffect
    <3> QED
      BY <1>4, <1>6, <2>2, <3>1
  <2> QED
    BY <1>1, <2>1, <2>2 DEF CallSays
<1>8. Moves
  BY <1>2, <1>4, <1>5, <1>7 DEF Moves
<1>9. AllCurrent'
  BY <1>2, <1>8, MovesCurrent DEF TypeInv
<1> QED
  BY <1>2, <1>9, StillOpen DEF CurrentInv, AsJudged

LEMMA DelegateCurrent ==
  ASSUME TypeInv, CurrentInv, TypeInv', NEW f \in File, NEW shape \in Shapes, NEW brings \in {{}, {f}}, Delegate(f, shape, brings)
  PROVE  CurrentInv'
<1>1. /\ pc = "acting" /\ Change(f, shape) /\ unseen' = [unseen EXCEPT !.child = @ \cup {f}]
      /\ UNCHANGED <<obs, pc>> /\ Typed /\ AllCurrent
  BY DEF Delegate, TypeInv, CurrentInv
<1>2. unseen'.child = unseen.child \cup {f} /\ unseen'.restart = unseen.restart
  <2>1. unseen \in [child : SUBSET File, restart : SUBSET File]
    BY <1>1 DEF Typed
  <2> QED
    BY <1>1, <2>1
<1>3. \A g \in File \ {f} : disk'[g] = disk[g]
  BY <1>1, ChangeEffect
<1>4. Extends(obs, obs')
  BY <1>1, SameExtends
<1>5. Moves
  BY <1>1, <1>2, <1>3, <1>4 DEF Moves, Unseen
<1>6. AllCurrent'
  BY <1>1, <1>5, MovesCurrent DEF TypeInv
<1> QED
  BY <1>1, <1>6, StillOpen DEF CurrentInv, AsJudged

LEMMA SendCurrent ==
  ASSUME TypeInv, CurrentInv, TypeInv', NEW m \in Text, Send(m)
  PROVE  CurrentInv'
<1>1. /\ pc' = "acting" /\ UNCHANGED <<disk, unseen>> /\ Typed /\ AllCurrent /\ obs \in Seq(Ob)
      /\ UNCHANGED obs \/ SendsIt(m)
  BY SendSplits DEF TypeInv, CurrentInv, Typed
<1>2. CASE UNCHANGED obs
  <2>1. AllCurrent'
    BY <1>1, <1>2 DEF AllCurrent, Current, Unseen
  <2> QED
    BY <1>1, <2>1, StillOpen DEF CurrentInv, AsJudged
<1>3. CASE SendsIt(m)
  <2> DEFINE w == Said("reply", m)
  <2>1. w \in Ob /\ ~IsDelivered(w)
    BY ObsMade DEF Said, IsDelivered
  <2>2. obs' = Append(obs, w)
    BY <1>3 DEF SendsIt
  <2> HIDE DEF w
  <2>3. /\ Extends(obs, obs') /\ DOMAIN obs' = DOMAIN obs \cup {Len(obs) + 1} /\ obs'[Len(obs) + 1] = w
        /\ Len(obs) + 1 > Len(obs)
    BY <1>1, <2>1, <2>2, AppendExtends
  <2>4. Moves
    BY <1>1, <2>1, <2>3 DEF Moves
  <2>5. AllCurrent'
    BY <1>1, <2>4, MovesCurrent DEF TypeInv
  <2> QED
    BY <1>1, <2>5, StillOpen DEF CurrentInv, AsJudged
<1> QED
  BY <1>1, <1>2, <1>3

LEMMA CrashCurrent ==
  ASSUME TypeInv, CurrentInv, TypeInv', Crash
  PROVE  CurrentInv'
<1>1. /\ pc' = "down" /\ UNCHANGED unseen /\ Typed /\ AllCurrent /\ obs \in Seq(Ob)
      /\ UNCHANGED <<disk, obs>> \/ DiesCalling
  BY CrashSplits DEF TypeInv, CurrentInv, Typed, DiesSpeaking
<1>2. CASE UNCHANGED <<disk, obs>>
  <2>1. AllCurrent'
    BY <1>1, <1>2 DEF AllCurrent, Current, Unseen
  <2> QED
    BY <1>1, <2>1, StillOpen DEF CurrentInv, AsJudged
<1>3. CASE DiesCalling
  <2>1. PICK f \in File, shape \in Shapes, o \in Ob : Change(f, shape) /\ Alters(o, f) /\ obs' = Append(obs, o)
    BY <1>3, Zenon DEF DiesCalling
  <2>2. /\ Extends(obs, obs') /\ DOMAIN obs' = DOMAIN obs \cup {Len(obs) + 1} /\ obs'[Len(obs) + 1] = o
        /\ Len(obs) + 1 > Len(obs) /\ Len(obs) + 1 \notin DOMAIN obs
    BY <1>1, <2>1, AppendExtends
  <2>3. \A g \in File \ {f} : disk'[g] = disk[g]
    BY <1>1, <2>1, ChangeEffect
  <2>4. ~IsDelivered(o)
    BY <2>1 DEF Alters, IsDelivered
  <2>5. \A g \in File : disk'[g] = disk[g] \/ \E i \in DOMAIN obs' \ DOMAIN obs : Alters(obs'[i], g)
    BY <2>1, <2>2, <2>3
  <2>6. Moves
    BY <1>1, <2>2, <2>4, <2>5 DEF Moves
  <2>7. AllCurrent'
    BY <1>1, <2>6, MovesCurrent DEF TypeInv
  <2> QED
    BY <1>1, <2>7, StillOpen DEF CurrentInv, AsJudged
<1> QED
  BY <1>1, <1>2, <1>3

\* After a resume every change is on record still, or its file is marked.
LEMMA ResumeCurrent ==
  ASSUME TypeInv, CurrentInv, TypeInv', NEW afterRestart \in BOOLEAN, Resume(afterRestart)
  PROVE  CurrentInv'
<1>1. /\ pc' = "acting" /\ UNCHANGED disk /\ obs' \in Seq(Ob) /\ Recovers /\ AllCurrent
      /\ unseen.child = unseen'.child /\ unseen.restart \subseteq unseen'.restart /\ obs \in Seq(Ob)
  BY ResumeSplits DEF TypeInv, CurrentInv, Typed
<1>2. PICK g : Recalls(obs', g) /\ Forgets(obs', g)
  BY <1>1 DEF Recovers
<1>3. AllCurrent'
  <2> SUFFICES ASSUME NEW f \in File, NEW k \in DOMAIN obs', IsLatest(obs', k, f) PROVE Current(f, k)'
    BY DEF AllCurrent
  <2>1. /\ g[k] \in DOMAIN obs /\ obs'[k] = obs[g[k]] /\ k \in Nat /\ g[k] \in Nat
        /\ \A n \in DOMAIN obs' : n \in Nat /\ g[n] \in Nat /\ obs'[n] = obs[g[n]]
    BY <1>1, <1>2 DEF Recalls
  <2>2. ASSUME NEW n \in DOMAIN obs', g[n] > g[k] PROVE n > k
    <3>1. ~(n < k)
      <4>1. n < k => g[n] < g[k]
        BY <1>2 DEF Recalls
      <4> QED
        BY <2>1, <2>2, <4>1
    <3>2. n # k
      BY <2>1, <2>2
    <3> QED
      BY <2>1, <3>1, <3>2
  <2>3. \A i \in DOMAIN obs : i > g[k] => ~Gives(obs[i], f)
    <3> SUFFICES ASSUME NEW i \in DOMAIN obs, i > g[k], Gives(obs[i], f) PROVE FALSE
      OBVIOUS
    <3>1. obs[i].kind = "delivery" /\ ~Failed(obs[i])
      BY DEF Gives, IsDelivered, Failed
    <3>2. PICK n \in DOMAIN obs' : g[n] = i
      BY <1>2, <3>1 DEF Recalls
    <3>3. n > k /\ Gives(obs'[n], f)
      BY <2>1, <2>2, <3>2
    <3> QED
      BY <3>3 DEF IsLatest
  <2>4. IsLatest(obs, g[k], f)
    BY <2>1, <2>3 DEF IsLatest
  <2>5. Current(f, g[k])
    BY <1>1, <2>1, <2>4 DEF AllCurrent
  <2>6. CASE Unseen(f)
    <3>1. Unseen(f)'
      BY <1>1, <2>6 DEF Unseen
    <3> QED
      BY <3>1 DEF Current
  <2>7. CASE obs[g[k]].given[f] = disk[f]
    BY <1>1, <2>1, <2>7 DEF Current
  <2>8. ASSUME NEW i \in DOMAIN obs, i > g[k], Alters(obs[i], f) PROVE Current(f, k)'
    <3>1. CASE \E n \in DOMAIN obs' : g[n] = i
      <4>1. PICK n \in DOMAIN obs' : g[n] = i
        BY <3>1
      <4>2. n > k /\ Alters(obs'[n], f)
        BY <2>1, <2>2, <2>8, <4>1
      <4> QED
        BY <4>2 DEF Current
    <3>2. CASE \A n \in DOMAIN obs' : g[n] # i
      <4>1. \A j \in DOMAIN obs : j > i => ~Gives(obs[j], f)
        <5>1. \A j \in DOMAIN obs : j > i => j > g[k]
          <6>1. \A j \in DOMAIN obs : j \in Nat
            BY <1>1
          <6> QED
            BY <2>1, <2>8, <6>1
        <5> QED
          BY <2>3, <5>1
      <4>2. f \in unseen'.restart
        BY <1>2, <2>8, <3>2, <4>1 DEF Forgets
      <4> QED
        BY <4>2 DEF Current, Unseen
    <3> QED
      BY <3>1, <3>2
  <2> QED
    BY <2>5, <2>6, <2>7, <2>8 DEF Current
<1> QED
  BY <1>1, <1>3, StillOpen DEF CurrentInv, AsJudged

\* Redelivery leaves no file that may be carried with a call after its delivery.
LEMMA RedeliverCurrent ==
  ASSUME TypeInv, CurrentInv, TypeInv', Redeliver
  PROVE  CurrentInv'
<1>1. GoesOn /\ (pc' = "judging" => RedeliveredAll) /\ Typed /\ AllCurrent /\ obs \in Seq(Ob)
  BY RedeliverGoesOn DEF TypeInv, CurrentInv, Typed
<1>2. AllCurrent' /\ pc' # "ended" /\ UNCHANGED <<disk, sentPaths>>
  BY <1>1, GoesOnCurrent DEF GoesOn
<1> DEFINE stale == Changeable(obs, sentPaths)
<1>3. ASSUME NEW f \in File \ sentPaths, f \notin stale, NEW k \in DOMAIN obs, IsLatest(obs, k, f)
      PROVE  Unseen(f) \/ obs[k].given[f] = disk[f]
  <2>1. f \in DOMAIN HandedOver(obs)
    <3>1. \E i \in DOMAIN obs : Gives(obs[i], f)
      BY <1>3 DEF IsLatest
    <3> QED
      BY <1>1, <3>1, HandedOverObs, Zenon
  <2>2. f \in DOMAIN NotYetSent(HandedOver(obs), sentPaths)
    BY <1>1, <2>1, HandedOverObs, NotYetSentGiven
  <2>3. k = LatestDelivery(obs, f)
    <3>1. IsLatest(obs, LatestDelivery(obs, f), f)
      BY <1>1, <1>3, LatestIs DEF IsLatest
    <3> QED
      BY <1>1, <1>3, <3>1, OneLatest
  <2>4. ASSUME NEW i \in DOMAIN obs, i > k, Alters(obs[i], f) PROVE FALSE
    <3>1. i \in Indexes(obs, CouldChange)
      BY <2>4 DEF Indexes, CouldChange, Alters
    <3> QED
      BY <1>3, <2>2, <2>3, <2>4, <3>1 DEF Changeable
  <2>5. Current(f, k)
    BY <1>1, <1>3 DEF AllCurrent
  <2> QED
    BY <2>4, <2>5 DEF Current
<1>4. AsJudged'
  <2> SUFFICES ASSUME pc' = "judging", NEW f \in File \ sentPaths, NEW k \in DOMAIN obs', IsLatest(obs', k, f)
               PROVE  Unseen(f)' \/ obs'[k].given[f] = disk[f]
    BY <1>2 DEF AsJudged
  <2>1. CASE stale = {} /\ NoDelivery
    <3>1. Unseen(f) \/ obs[k].given[f] = disk[f]
      BY <1>3, <2>1 DEF NoDelivery
    <3> QED
      BY <2>1, <3>1 DEF NoDelivery, Unseen
  <2>2. CASE Delivers(stale)
    <3>1. stale \in SUBSET File
      BY <1>1, ChangeableFiles
    <3> HIDE DEF stale
    <3>2. /\ f \in stale => obs'[k].given[f] = disk[f]
          /\ f \notin stale => k \in DOMAIN obs /\ obs'[k] = obs[k] /\ IsLatest(obs, k, f) /\ (Unseen(f) => Unseen(f)')
      BY <1>1, <1>2, <2>2, <3>1, DeliversCurrent
    <3> QED
      BY <1>3, <3>2
  <2> QED
    BY <1>1, <2>1, <2>2 DEF RedeliveredAll
<1> QED
  BY <1>2, <1>4, StillOpen DEF CurrentInv

\* What an accepted reply carries is current and sound.
LEMMA JudgeCurrent ==
  ASSUME TypeInv, CurrentInv, TypeInv', Judge
  PROVE  CurrentInv'
<1>1. /\ pc = "judging" /\ UNCHANGED <<disk, obs, sentPaths, unseen>> /\ Typed /\ AllCurrent /\ AsJudged /\ pc' # "judging"
      /\ \/ Closes("finished", ToCarry) /\ AreSound(ReplyFiles)
         \/ Closes("best_effort", NoFiles)
         \/ pc' = "acting"
  BY JudgeSplits DEF TypeInv, CurrentInv, Closes
<1>2. AllCurrent' /\ AsJudged'
  BY <1>1 DEF AllCurrent, AsJudged, Current, Unseen
<1>3. CASE Closes("finished", ToCarry) /\ AreSound(ReplyFiles)
  <2>1. result'.carried = ToCarry
    BY <1>3 DEF Closes
  <2>2. /\ ReplyFiles \in Given
        /\ \A f \in DOMAIN ReplyFiles : \E k \in DOMAIN obs : IsLatest(obs, k, f) /\ ReplyFiles[f] = obs[k].given[f]
    BY <1>1, ReplyFilesAre
  <2>3. DOMAIN ReplyFiles \in SUBSET File
    BY <2>2, GivenIs
  <2>4. /\ DOMAIN ToCarry = DOMAIN ReplyFiles \ sentPaths
        /\ \A f \in DOMAIN ReplyFiles \ sentPaths : ToCarry[f] = ReplyFiles[f]
    BY <2>2, NotYetSentGiven DEF ToCarry
  <2>5. ASSUME NEW f \in DOMAIN ToCarry PROVE Unseen(f) \/ ToCarry[f] = disk[f]
    <3>1. f \in DOMAIN ReplyFiles /\ f \in File \ sentPaths /\ ToCarry[f] = ReplyFiles[f]
      BY <2>3, <2>4
    <3>2. PICK k \in DOMAIN obs : IsLatest(obs, k, f) /\ ReplyFiles[f] = obs[k].given[f]
      BY <2>2, <3>1
    <3> QED
      BY <1>1, <3>1, <3>2 DEF AsJudged
  <2>6. CarriedIsCurrent'
    <3>1. \A f \in DOMAIN result'.carried : Unseen(f) \/ result'.carried[f] = disk[f]
      BY <2>1, <2>5
    <3> QED
      BY <1>1, <3>1 DEF CarriedIsCurrent, Unseen
  <2>7. ASSUME NEW f \in DOMAIN ToCarry \ (Inline \cup Unreachable) PROVE IsSound(f, disk[f].shape)
    <3>1. f \in DOMAIN ReplyFiles
      BY <2>4
    <3> QED
      BY <1>3, <3>1 DEF AreSound
  <2>8. CarriedIsSound'
    BY <1>1, <2>1, <2>7 DEF CarriedIsSound
  <2> QED
    BY <1>2, <2>6, <2>8 DEF CurrentInv
<1>4. CASE Closes("best_effort", NoFiles)
  <2>1. result'.ending = "best_effort"
    BY <1>4 DEF Closes
  <2> QED
    BY <1>2, <2>1 DEF CurrentInv, CarriedIsCurrent, CarriedIsSound
<1>5. CASE pc' = "acting"
  BY <1>2, <1>5, StillOpen DEF CurrentInv
<1> QED
  BY <1>1, <1>3, <1>4, <1>5

LEMMA StillCurrent ==
  ASSUME CurrentInv, UNCHANGED <<disk, obs, sentPaths, unseen>>, pc' # "judging" PROVE AllCurrent' /\ AsJudged'
BY DEF CurrentInv, AllCurrent, AsJudged, Current, Unseen

LEMMA StopCurrent ==
  ASSUME TypeInv, CurrentInv, TypeInv', Stop
  PROVE  CurrentInv'
<1>1. /\ UNCHANGED <<disk, obs, sentPaths, unseen>> /\ pc' # "judging"
      /\ result'.ending \in {"done_at_stop", "stopped"}
  BY StopSplits DEF Closes
<1> QED
  BY <1>1, StillCurrent DEF CurrentInv, CarriedIsCurrent, CarriedIsSound

LEMMA AskCurrent ==
  ASSUME TypeInv, CurrentInv, TypeInv', Ask
  PROVE  CurrentInv'
<1>1. UNCHANGED <<disk, obs, sentPaths, unseen>> /\ pc' \in {"parked", "acting"}
  BY AskSplits DEF Closes
<1> QED
  BY <1>1, StillCurrent, StillOpen DEF CurrentInv

LEMMA InitCurrent ==
  ASSUME Init PROVE CurrentInv
<1>1. DOMAIN obs = {} /\ pc = "acting" /\ result.ending = "none"
  BY DEF Init
<1> QED
  BY <1>1 DEF CurrentInv, AllCurrent, AsJudged, CarriedIsCurrent, CarriedIsSound

LEMMA StepCurrent ==
  ASSUME TypeInv, CurrentInv, TypeInv', [Next]_vars PROVE CurrentInv'
<1>1. ASSUME NEW m \in Message \cup {Quiet}, NEW ok \in BOOLEAN, Call(m, ok) PROVE CurrentInv'
  BY <1>1, CallCurrent
<1>2. ASSUME NEW f \in File, NEW shape \in Shapes, NEW brings \in {{}, {f}}, Delegate(f, shape, brings) PROVE CurrentInv'
  BY <1>2, DelegateCurrent
<1>3. ASSUME GoesOn, pc' # "judging" PROVE CurrentInv'
  <2>1. AllCurrent' /\ pc' # "ended"
    BY <1>3, GoesOnCurrent DEF GoesOn
  <2> QED
    BY <1>3, <2>1, StillOpen DEF CurrentInv, AsJudged
<1>4. ASSUME NEW files \in SUBSET File, NEW asks \in BOOLEAN, Reply(files, asks) PROVE CurrentInv'
  BY <1>3, <1>4, ReplyGoesOn
<1>5. ASSUME NEW m \in Message \cup {Quiet}, Send(m) PROVE CurrentInv'
  BY <1>5, SendCurrent DEF Text
<1>6. ASSUME NEW files \in SUBSET File, NEW cites \in SUBSET Indexes(obs, IsDelivered), Finish(files, cites) PROVE CurrentInv'
  BY <1>3, <1>6, FinishGoesOn
<1>7. ASSUME NEW afterRestart \in BOOLEAN, Resume(afterRestart) PROVE CurrentInv'
  BY <1>7, ResumeCurrent
<1>8. CASE UNCHANGED vars
  BY <1>8 DEF vars, CurrentInv, AllCurrent, AsJudged, Current, Unseen, CarriedIsCurrent, CarriedIsSound
<1>9. CASE Ask \/ Redeliver \/ Judge \/ Stop \/ Crash
  BY <1>9, AskCurrent, RedeliverCurrent, JudgeCurrent, StopCurrent, CrashCurrent
<1> QED
  BY <1>1, <1>2, <1>4, <1>5, <1>6, <1>7, <1>8, <1>9, Zenon DEF Next

-----------------------------------------------------------------------------
(* The theorems.                                                           *)

Inv == TypeInv /\ FilesInv /\ WordsInv /\ CurrentInv

LEMMA InvHolds == Spec => []Inv
<1>1. Init => Inv
  BY InitTyped, InitFiles, InitWords, InitCurrent DEF Inv
<1>2. Inv /\ [Next]_vars => Inv'
  BY StepTyped, StepFiles, StepWords, StepCurrent, Zenon DEF Inv
<1> QED
  BY <1>1, <1>2, PTL DEF Spec

LEMMA WellFormed ==
  ASSUME TypeInv PROVE TypeOK
<1>1. \A i \in DOMAIN obs : obs[i].kind = "delivery" => obs[i].given \in Given
  BY Obs DEF TypeInv, Typed
<1>2. /\ disk \in [File -> Copy] /\ attachments \in Given /\ result.carried \in Given
      /\ sentPaths \subseteq delivered /\ delivered \subseteq File
      /\ pc \in {"acting", "replying", "asking", "parked", "redelivering", "judging", "down", "ended"}
      /\ doc.cites \subseteq DOMAIN obs /\ Len(obs) <= MaxObservation
  BY DEF TypeInv, Typed
<1> QED
  BY <1>1, <1>2 DEF TypeOK

\* What the requester is given with a finished task is, of every file, the version its last check
\* saw, and sound where it lies in reach: whatever was refused, asked, stopped or crashed before,
\* and with any files and limits, no call of the turn comes between the check of a file and the
\* reply that carries it. Only a child, or a call a restart forgot, may have changed it
\* (replyForFinish, redeliverFilesChangeableSinceDelivery, callCouldChangeFiles).
THEOREM WhatIsCarriedIsFit == Spec => []CarriedIsFit
<1>1. Inv => CarriedIsFit
  BY WellFormed DEF Inv, CurrentInv, CarriedIsFit
<1> QED
  BY <1>1, InvHolds, PTL

\* What a reply brought and has its receipt is not read twice: a turn repeats no message, and a reply
\* whose receipt is in the ledger is not repeated by any later turn of the task, at most MidTaskLimit
\* messages go out a turn and as many replies a task, and a file that went with a reply does not come
\* again with the end of the task, whatever was asked, stopped or crashed in between. Files that a
\* question brought, or a reply whose receipt was never written, are no part of it
\* (checkpointMessageAllowed, attachmentsNotYetDelivered, pausedTaskResult).
THEOREM NothingIsReadTwice == Spec => []ReadOnce
<1>1. Inv => ReadOnce
  BY SaysItOnceHolds DEF Inv, TypeInv, FilesInv, ReadOnce
<1> QED
  BY <1>1, InvHolds, PTL

\* A turn that a limit stops keeps back no file: each one a delivery of the task succeeded for goes
\* out with the end or was sent with a reply before, also when the task was restored from its ledger in between
\* (filesAtLimit, completeAtStop).
THEOREM StoppedKeepsNothingBack == Spec => []StopLosesNothing
<1>1. Inv => StopLosesNothing
  BY DEF Inv, FilesInv
<1> QED
  BY <1>1, InvHolds, PTL
=============================================================================
