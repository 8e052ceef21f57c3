-------------------------- MODULE CallLedgerProofs --------------------------
(***************************************************************************)
(* Proofs about CallLedger, for any calls, any number of attempts and      *)
(* sessions, and hosts that share the store or not.                        *)
(***************************************************************************)
EXTENDS CallLedger, FiniteSetTheorems, WellFoundedInduction, TLAPS

Points == {"down", "ready", "review", "asking", "settle", "spend", "invoke",
           "waiting", "result", "failing"}
Answers == {"none", "approved", "rejected"}
HoldKinds == {"opened", "approved", "rejected", "spent"}

\* The types the proofs need.
Typed ==
  /\ attempt \in 0..MaxAttempt
  /\ turn \in [pc : Points, call : Call \cup {NoCall}, hold : Attempt \cup {NoHold}, answer : Answers]
  /\ resumed.after \in Nat /\ resumed.after <= attempt
  /\ asked \in [Attempt -> Call \cup {NoCall}]
  /\ verdict \in [Attempt -> Answers]
  /\ ran \in [Attempt -> Seq(Call)]
  /\ \A f \in flight : f.id \in Attempt /\ f.hold \in Attempt \cup {NoHold} /\ f.call \in Call

\* What is known of the turn by where it is.
TurnInv ==
  /\ At("down") => ledger = {} /\ tail = {}
  /\ turn.pc \in {"down", "ready", "review"} => turn.hold = NoHold
  /\ turn.pc \notin {"down", "ready"} => attempt \in Attempt /\ resumed.after < attempt /\ turn.call \in Call
  /\ At("review") => turn.call \in Gated /\ asked[attempt] = NoCall
  /\ turn.pc \in {"asking", "settle"} => turn.hold = attempt
  /\ turn.pc \in {"asking", "settle", "spend"} => turn.hold # NoHold
  /\ At("settle") => turn.answer # "none" /\ verdict[turn.hold] = turn.answer
  /\ turn.pc \in {"spend", "invoke"} /\ turn.hold # NoHold => verdict[turn.hold] = "approved"
  /\ At("invoke") /\ turn.hold = NoHold => turn.call \notin Gated

\* The records there are, wherever they are.
Records == ledger \cup tail \cup kept \cup UNION {f.brought : f \in flight}

\* While the process lives its ledger has every record it sent anywhere.
LedgerLeads == ~At("down") => tail \subseteq ledger /\ \A f \in flight : f.brought \subseteq ledger

\* A record of a hold is about the call the person was shown, and a decision on record is
\* the person's last word.
TrueRecord(r) ==
  /\ r.kind \in Kinds /\ r.id \in Attempt /\ r.call \in Call
  /\ r.kind = "opened" => asked[r.id] = r.call
  /\ r.kind \in HoldKinds => asked[r.id] # NoCall
  /\ r.kind \in {"approved", "rejected"} => verdict[r.id] = r.kind

RecordsInv == \A r \in Records : TrueRecord(r)

\* Nobody was asked about an attempt that is still to come.
AskedInv == \A h \in Attempt : h > attempt => asked[h] = NoCall

\* The host has what the ledger says was decided in earlier sessions.
EarlierInv ==
  \A h \in Attempt, kind \in {"approved", "rejected"} :
    ~At("down") /\ h <= resumed.after /\ Has(ledger, kind, h) => Has(kept, kind, h)

\* The host knows of every hold that a later call could use.
ReadyInv ==
  \A h \in Attempt, c \in Call :
    Ready(ledger, h, c) /\ ~(At("spend") /\ turn.hold = h) => Has(kept, "opened", h) /\ Has(kept, "approved", h)

\* The hold in use: shown as this call, not run, not on its way, and its records are
\* with the host or will come with the call.
UseInv ==
  turn.pc \in {"asking", "settle", "spend", "invoke"} /\ turn.hold # NoHold =>
    /\ asked[turn.hold] = turn.call
    /\ ran[turn.hold] = <<>>
    /\ \A f \in flight : f.hold # turn.hold
    /\ Has(kept \cup tail, "opened", turn.hold)
    /\ turn.pc \in {"spend", "invoke"} => Has(kept \cup tail, "approved", turn.hold)
    /\ At("invoke") => Has(tail, "spent", turn.hold)

Brings(f, kind, i) == Has(kept \cup f.brought, kind, i)

\* A call on its way under a hold.
HeldFlight(f) ==
  /\ asked[f.hold] = f.call /\ verdict[f.hold] = "approved" /\ ran[f.hold] = <<>>
  /\ Brings(f, "opened", f.hold) /\ Brings(f, "approved", f.hold) /\ Brings(f, "spent", f.hold)
  /\ ~At("down") => Has(ledger, "spent", f.hold)
  /\ f.hold <= resumed.after => Has(kept, "approved", f.hold)

FlightInv ==
  /\ \A f \in flight : f.hold = NoHold => f.call \notin Gated
  /\ \A f \in flight : f.hold # NoHold => HeldFlight(f)
  /\ \A f, g \in flight : f.hold # NoHold /\ f.hold = g.hold => f = g

\* What ran is accounted for, with the host and in the living ledger.
RanInv ==
  \A h \in Attempt : ran[h] # <<>> =>
    /\ Has(kept, "opened", h) /\ Has(kept, "approved", h) /\ Has(kept, "spent", h)
    /\ ~At("down") => Has(ledger, "spent", h)

\* The request travels with its call.
BroughtInv == \A f \in flight : Brings(f, "requested", f.id)

RequestInv ==
  /\ turn.pc \in {"review", "asking", "settle", "spend", "invoke"} => Has(kept \cup tail, "requested", attempt)
  /\ BroughtInv
  /\ InterruptedIsKnown

IInv ==
  /\ Typed /\ TurnInv /\ LedgerLeads /\ RecordsInv /\ AskedInv /\ EarlierInv
  /\ ReadyInv /\ UseInv /\ FlightInv /\ RanInv /\ RequestInv

-----------------------------------------------------------------------------
(* What a ledger answers about a hold when it grows.                       *)

\* What a ledger has, a larger one has.
LEMMA HasMore ==
  ASSUME NEW S, NEW T, S \subseteq T, NEW kind, NEW i, Has(S, kind, i)
  PROVE  Has(T, kind, i)
BY DEF Has

\* What one more record adds.
LEMMA HasOne ==
  ASSUME NEW S, NEW r, NEW kind, NEW i
  PROVE  Has(S \cup {r}, kind, i) <=> Has(S, kind, i) \/ (r.kind = kind /\ r.id = i)
BY DEF Has

\* What two ledgers together have.
LEMMA HasIn ==
  ASSUME NEW S, NEW T, NEW kind, NEW i
  PROVE  Has(S \cup T, kind, i) <=> Has(S, kind, i) \/ Has(T, kind, i)
BY DEF Has

\* A record that is about no hold changes no answer about holds.
LEMMA ReadySame ==
  ASSUME NEW S, NEW r, r.kind \notin HoldKinds, NEW h, NEW c, Ready(S \cup {r}, h, c)
  PROVE  Ready(S, h, c)
BY DEF Ready, Has, HoldKinds

-----------------------------------------------------------------------------
\* Nothing is on record at first.
LEMMA InitIInv == Init => IInv
<1> SUFFICES ASSUME Init PROVE IInv
  OBVIOUS
<1>1. turn.pc = "down" /\ turn.call = NoCall /\ turn.hold = NoHold /\ turn.answer = "none"
  BY DEF Init, Down
<1>2. Records = {} /\ flight = {} /\ kept = {} /\ ledger = {} /\ tail = {}
  BY DEF Init, Records
<1>3. Typed
  <2>1. turn \in [pc : Points, call : Call \cup {NoCall}, hold : Attempt \cup {NoHold}, answer : Answers]
    BY DEF Init, Down, Points, Answers
  <2>2. resumed.after = 0 /\ attempt = 0
    BY DEF Init
  <2>3. /\ asked \in [Attempt -> Call \cup {NoCall}]
        /\ verdict \in [Attempt -> Answers]
        /\ ran \in [Attempt -> Seq(Call)]
    BY DEF Init, Answers
  <2> QED
    BY <1>2, <2>1, <2>2, <2>3, BoundAssumption DEF Typed
<1>4. TurnInv /\ LedgerLeads /\ RecordsInv
  BY <1>1, <1>2 DEF TurnInv, LedgerLeads, RecordsInv, At
<1>5. AskedInv /\ EarlierInv /\ ReadyInv
  BY <1>1, <1>2 DEF Init, AskedInv, EarlierInv, ReadyInv, At, Ready, Has
<1>6. UseInv /\ FlightInv /\ RanInv /\ RequestInv
  BY <1>1, <1>2 DEF Init, UseInv, FlightInv, RanInv, RequestInv, BroughtInv, InterruptedIsKnown
<1> QED
  BY <1>3, <1>4, <1>5, <1>6 DEF IInv

-----------------------------------------------------------------------------
(* Actions that write a record: it is in the ledger and in the tail, and   *)
(* perhaps already with the host.                                          *)

\* Where AppendEvent puts a record.
LEMMA Appended ==
  ASSUME NEW r, AppendEvent(r), flight' = flight
  PROVE  /\ ledger' = ledger \cup {r} /\ tail' = tail \cup {r}
         /\ kept \subseteq kept' /\ kept' \cup tail' = kept \cup tail \cup {r}
         /\ Records' \subseteq Records \cup {r}
BY DEF AppendEvent, Records

\* What a call brings counts with what the host already has.
LEMMA BringsMore ==
  ASSUME kept \subseteq kept', NEW f, NEW kind, NEW i, Brings(f, kind, i)
  PROVE  Brings(f, kind, i)'
BY DEF Brings, Has

\* What a written record leaves as it was, if it says no hold was decided in an earlier session.
LEMMA AppendKeeps ==
  ASSUME IInv, NEW r, AppendEvent(r), flight' = flight, ~At("down"), ~At("down")',
         resumed' = resumed, ran' = ran, happened' = happened,
         r.kind \in {"approved", "rejected"} => ~(r.id <= resumed.after)
  PROVE  LedgerLeads' /\ EarlierInv' /\ RanInv' /\ BroughtInv' /\ InterruptedIsKnown'
<1>1. LedgerLeads'
  BY Appended DEF IInv, LedgerLeads
<1>2. EarlierInv'
  BY Appended, HasOne, HasMore DEF IInv, EarlierInv
<1>3. RanInv'
  BY Appended, HasMore DEF IInv, RanInv
<1>4. BroughtInv'
  BY Appended, BringsMore DEF IInv, RequestInv, BroughtInv
<1>5. InterruptedIsKnown'
  BY Appended, HasMore DEF IInv, RequestInv, InterruptedIsKnown
<1> QED
  BY <1>1, <1>2, <1>3, <1>4, <1>5

\* A call on its way is as safe with more records and the same words from the person.
LEMMA HeldKeeps ==
  ASSUME NEW f, HeldFlight(f), kept \subseteq kept', ledger \subseteq ledger' \/ At("down")',
         At("down") => At("down")', resumed' = resumed,
         asked'[f.hold] = asked[f.hold], verdict'[f.hold] = verdict[f.hold], ran'[f.hold] = ran[f.hold]
  PROVE  HeldFlight(f)'
<1>1. \A kind, i : Brings(f, kind, i) => Brings(f, kind, i)'
  BY BringsMore
<1>2. (f.hold <= resumed.after => Has(kept, "approved", f.hold))'
  BY HasMore DEF HeldFlight
<1>3. (~At("down") => Has(ledger, "spent", f.hold))'
  BY HasMore DEF HeldFlight
<1> QED
  BY <1>1, <1>2, <1>3 DEF HeldFlight

\* The same for all calls on their way.
LEMMA FlightKeeps ==
  ASSUME FlightInv, flight' \subseteq flight, kept \subseteq kept', ledger \subseteq ledger' \/ At("down")',
         At("down") => At("down")', UNCHANGED <<resumed, asked, verdict, ran>>
  PROVE  FlightInv'
<1>1. ASSUME NEW f \in flight', f.hold # NoHold PROVE HeldFlight(f)'
  BY <1>1, HeldKeeps DEF FlightInv
<1> QED
  BY <1>1 DEF FlightInv

\* invokeTool writes the intent.
LEMMA RequestKeeps ==
  ASSUME IInv, NEW c \in Call, Request(c)
  PROVE  IInv'
<1> DEFINE r == Rec("requested", attempt', c, observation)
<1>1. /\ turn'.pc = IF c \in Gated THEN "review" ELSE "invoke"
      /\ turn'.call = c /\ turn'.hold = NoHold /\ turn'.answer = "none"
      /\ turn' \in [pc : Points, call : Call \cup {NoCall}, hold : Attempt \cup {NoHold}, answer : Answers]
  BY DEF IInv, Typed, Request, Points, Answers
<1>2. turn.pc = "ready" /\ ~At("down") /\ ~At("down")'
  BY <1>1 DEF Request, At
<1>3. AppendEvent(r) /\ UNCHANGED <<flight, resumed, asked, verdict, ran, unasked, happened>>
  BY DEF Request, Steady, world
<1>4. r.kind = "requested" /\ r.id = attempt' /\ r.call = c
  BY DEF Rec
<1>5. attempt' = attempt + 1 /\ attempt' \in Attempt /\ attempt' \in 0..MaxAttempt /\ attempt \in Nat
  BY BoundAssumption DEF Request, IInv, Typed, Attempt
<1> HIDE DEF r
<1>6. Typed'
  BY <1>1, <1>3, <1>5 DEF IInv, Typed
<1>7. TurnInv'
  BY <1>1, <1>2, <1>3, <1>5 DEF IInv, Typed, TurnInv, AskedInv, At
<1>8. LedgerLeads' /\ EarlierInv' /\ RanInv' /\ BroughtInv' /\ InterruptedIsKnown'
  BY <1>2, <1>3, <1>4, AppendKeeps
<1>9. RecordsInv'
  BY <1>3, <1>4, <1>5, Appended DEF IInv, RecordsInv, TrueRecord, Kinds, HoldKinds
<1>10. AskedInv'
  BY <1>3, <1>5 DEF IInv, AskedInv, Attempt
<1>11. ReadyInv'
  BY <1>1, <1>2, <1>3, <1>4, Appended, ReadySame, HasMore DEF IInv, ReadyInv, HoldKinds, At
<1>12. UseInv'
  BY <1>1 DEF UseInv
<1>13. FlightInv'
  BY <1>2, <1>3, Appended, FlightKeeps DEF IInv
<1>14. RequestInv'
  <2>1. Has(kept \cup tail, "requested", attempt)'
    BY <1>3, <1>4, Appended DEF Has
  <2> QED
    BY <1>3, <1>8, <2>1 DEF RequestInv
<1> QED
  BY <1>6, <1>7, <1>8, <1>9, <1>10, <1>11, <1>12, <1>13, <1>14 DEF IInv

\* holdAndAsk opens a hold under a number nobody was asked about.
LEMMA HoldCallKeeps ==
  ASSUME IInv, HoldCall
  PROVE  IInv'
<1> DEFINE r == Rec("opened", attempt, turn.call, 0)
<1>1. /\ turn'.pc = "asking" /\ turn'.call = turn.call /\ turn'.hold = attempt
      /\ turn.pc = "review" /\ ~At("down") /\ ~At("down")'
  BY DEF IInv, Typed, HoldCall, At
<1>2. AppendEvent(r) /\ UNCHANGED <<flight, attempt, resumed, verdict, ran, unasked, happened>>
  BY DEF HoldCall, Steady
<1>3. r.kind = "opened" /\ r.id = attempt /\ r.call = turn.call
  BY DEF Rec
<1>4. /\ attempt \in Attempt /\ attempt # NoHold /\ resumed.after < attempt
      /\ turn.call \in Call /\ turn.call \in Gated /\ asked[attempt] = NoCall /\ turn.call # NoCall
  BY <1>1, CallAssumption DEF IInv, TurnInv, At, Attempt, NoHold
<1>5. /\ asked' \in [Attempt -> Call \cup {NoCall}] /\ asked'[attempt] = turn.call
      /\ \A h \in Attempt : h # attempt => asked'[h] = asked[h]
  BY <1>4 DEF HoldCall, IInv, Typed
<1>6. \A s \in Records : s.kind \in HoldKinds => s.id # attempt
  BY <1>4 DEF IInv, RecordsInv, TrueRecord
<1> HIDE DEF r
<1>7. ran[attempt] = <<>> /\ \A f \in flight : f.hold # attempt
  <2>1. ran[attempt] = <<>>
    BY <1>4, <1>6 DEF IInv, RanInv, Has, Records, HoldKinds
  <2>2. \A f \in flight : f.hold # attempt
    BY <1>4, CallAssumption DEF IInv, Typed, FlightInv, HeldFlight
  <2> QED
    BY <2>1, <2>2
<1>8. Typed'
  <2>1. turn' \in [pc : Points, call : Call \cup {NoCall}, hold : Attempt \cup {NoHold}, answer : Answers]
    BY <1>4 DEF HoldCall, IInv, Typed, Points
  <2> QED
    BY <1>2, <1>5, <2>1 DEF IInv, Typed
<1>9. TurnInv'
  BY <1>1, <1>2, <1>4 DEF TurnInv, At
<1>10. LedgerLeads' /\ EarlierInv' /\ RanInv' /\ BroughtInv' /\ InterruptedIsKnown'
  BY <1>1, <1>2, <1>3, AppendKeeps
<1>11. RecordsInv'
  <2>1. ASSUME NEW s \in Records PROVE TrueRecord(s)'
    BY <1>2, <1>5, <1>6, <2>1 DEF IInv, RecordsInv, TrueRecord, HoldKinds
  <2>2. \A s : s = r => TrueRecord(s)'
    BY <1>3, <1>4, <1>5 DEF TrueRecord, Kinds
  <2> QED
    BY <1>2, <2>1, <2>2, Appended DEF RecordsInv
<1>12. AskedInv'
  BY <1>2, <1>4, <1>5 DEF IInv, AskedInv, Attempt
<1>13. ReadyInv'
  <2> SUFFICES ASSUME NEW h \in Attempt, NEW c \in Call, Ready(ledger', h, c)
               PROVE  Has(kept', "opened", h) /\ Has(kept', "approved", h)
    BY DEF ReadyInv
  <2>1. Has(ledger, "approved", h) /\ h # attempt
    BY <1>2, <1>3, <1>6, Appended, HasOne DEF Ready, Has, Records, HoldKinds
  <2>2. Ready(ledger, h, c)
    BY <1>2, <1>3, <2>1, Appended DEF Ready, Has
  <2> QED
    BY <1>1, <1>2, <2>2, Appended, HasMore DEF IInv, ReadyInv, At
<1>14. UseInv'
  <2>1. Has(kept' \cup tail', "opened", attempt)
    BY <1>2, <1>3, Appended DEF Has
  <2> QED
    BY <1>1, <1>2, <1>5, <1>7, <2>1 DEF UseInv, At
<1>15. FlightInv'
  <2>1. ASSUME NEW f \in flight, f.hold # NoHold PROVE HeldFlight(f)'
    <3>1. HeldFlight(f) /\ f.hold \in Attempt /\ f.hold # attempt
      BY <1>7, <2>1 DEF IInv, Typed, FlightInv
    <3> QED
      BY <1>1, <1>2, <1>5, <3>1, HeldKeeps, Appended
  <2> QED
    BY <1>2, <2>1 DEF IInv, FlightInv
<1>16. RequestInv'
  <2>1. Has(kept' \cup tail', "requested", attempt)
    BY <1>1, <1>2, Appended, HasMore DEF IInv, RequestInv
  <2> QED
    BY <1>2, <1>10, <2>1 DEF RequestInv
<1> QED
  BY <1>8, <1>9, <1>10, <1>11, <1>12, <1>13, <1>14, <1>15, <1>16 DEF IInv

\* The decision written is the person's word.
LEMMA SettleKeeps ==
  ASSUME IInv, Settle
  PROVE  IInv'
<1> DEFINE r == Rec(turn.answer, turn.hold, turn.call, 0)
<1>1. /\ turn.pc = "settle" /\ ~At("down") /\ ~At("down")'
      /\ turn'.pc = IF turn.answer = "approved" THEN "spend" ELSE "failing"
      /\ turn'.call = turn.call /\ turn'.hold = turn.hold /\ turn'.answer = turn.answer
  BY DEF IInv, Typed, Settle, GoTo, At
<1>2. AppendEvent(r) /\ UNCHANGED <<flight, attempt, resumed, asked, verdict, ran, unasked, happened>>
  BY DEF Settle, Steady, world
<1>3. r.kind = turn.answer /\ r.id = turn.hold /\ r.call = turn.call
  BY DEF Rec
<1>4. /\ attempt \in Attempt /\ turn.hold = attempt /\ resumed.after < attempt /\ turn.hold # NoHold
      /\ turn.call \in Call /\ turn.call # NoCall /\ verdict[turn.hold] = turn.answer
      /\ turn.answer \in {"approved", "rejected"}
  BY <1>1, CallAssumption DEF IInv, Typed, TurnInv, At, Answers
<1>5. /\ asked[turn.hold] = turn.call /\ ran[turn.hold] = <<>> /\ \A f \in flight : f.hold # turn.hold
      /\ Has(kept \cup tail, "opened", turn.hold)
  BY <1>1, <1>4 DEF IInv, UseInv
<1> HIDE DEF r
<1>6. Typed'
  <2>1. turn' \in [pc : Points, call : Call \cup {NoCall}, hold : Attempt \cup {NoHold}, answer : Answers]
    BY DEF Settle, GoTo, IInv, Typed, Points
  <2> QED
    BY <1>2, <2>1 DEF IInv, Typed
<1>7. TurnInv'
  BY <1>1, <1>2, <1>4 DEF TurnInv, At
<1>8. LedgerLeads' /\ EarlierInv' /\ RanInv' /\ BroughtInv' /\ InterruptedIsKnown'
  BY <1>1, <1>2, <1>3, <1>4, AppendKeeps DEF IInv, Typed, Attempt
<1>9. RecordsInv'
  <2>1. ASSUME NEW s \in Records PROVE TrueRecord(s)'
    BY <1>2 DEF IInv, RecordsInv, TrueRecord
  <2>2. \A s : s = r => TrueRecord(s)'
    BY <1>2, <1>3, <1>4, <1>5 DEF TrueRecord, Kinds
  <2> QED
    BY <1>2, <2>1, <2>2, Appended DEF RecordsInv
<1>10. AskedInv'
  BY <1>2 DEF IInv, AskedInv
<1>11. ReadyInv'
  <2> SUFFICES ASSUME NEW h \in Attempt, NEW c \in Call, Ready(ledger', h, c),
                      ~(turn'.pc = "spend" /\ turn'.hold = h)
               PROVE  Has(kept', "opened", h) /\ Has(kept', "approved", h)
    BY DEF ReadyInv, At
  <2>1. Ready(ledger, h, c)
    BY <1>1, <1>2, <1>3, <1>4, Appended DEF Ready, Has
  <2> QED
    BY <1>1, <1>2, <2>1, Appended, HasMore DEF IInv, ReadyInv, At
<1>12. UseInv'
  <2>1. Has(kept' \cup tail', "opened", turn.hold)
    BY <1>2, <1>5, Appended, HasMore
  <2>2. turn.answer = "approved" => Has(kept' \cup tail', "approved", turn.hold)
    BY <1>2, <1>3, Appended DEF Has
  <2> QED
    BY <1>1, <1>2, <1>5, <2>1, <2>2 DEF UseInv, At
<1>13. FlightInv'
  BY <1>1, <1>2, Appended, FlightKeeps DEF IInv
<1>14. RequestInv'
  <2>1. Has(kept' \cup tail', "requested", attempt)
    BY <1>1, <1>2, Appended, HasMore DEF IInv, RequestInv
  <2> QED
    BY <1>2, <1>8, <2>1 DEF RequestInv
<1> QED
  BY <1>6, <1>7, <1>8, <1>9, <1>10, <1>11, <1>12, <1>13, <1>14 DEF IInv

\* The spending joins the tail the call will take.
LEMMA SpendKeeps ==
  ASSUME IInv, Spend
  PROVE  IInv'
<1> DEFINE r == Rec("spent", turn.hold, turn.call, 0)
<1>1. /\ turn.pc = "spend" /\ ~At("down") /\ ~At("down")'
      /\ turn'.pc = "invoke"
      /\ turn'.call = turn.call /\ turn'.hold = turn.hold /\ turn'.answer = turn.answer
  BY DEF IInv, Typed, Spend, GoTo, At
<1>2. AppendEvent(r) /\ UNCHANGED <<flight, attempt, resumed, asked, verdict, ran, unasked, happened>>
  BY DEF Spend, Steady, world
<1>3. r.kind = "spent" /\ r.id = turn.hold /\ r.call = turn.call
  BY DEF Rec
<1>4. /\ attempt \in Attempt /\ turn.hold # NoHold /\ turn.hold \in Attempt /\ resumed.after < attempt
      /\ turn.call \in Call /\ turn.call # NoCall /\ verdict[turn.hold] = "approved"
  BY <1>1, CallAssumption DEF IInv, Typed, TurnInv, At
<1>5. /\ asked[turn.hold] = turn.call /\ ran[turn.hold] = <<>> /\ \A f \in flight : f.hold # turn.hold
      /\ Has(kept \cup tail, "opened", turn.hold) /\ Has(kept \cup tail, "approved", turn.hold)
  BY <1>1, <1>4 DEF IInv, UseInv
<1> HIDE DEF r
<1>6. Typed'
  <2>1. turn' \in [pc : Points, call : Call \cup {NoCall}, hold : Attempt \cup {NoHold}, answer : Answers]
    BY DEF Spend, GoTo, IInv, Typed, Points
  <2> QED
    BY <1>2, <2>1 DEF IInv, Typed
<1>7. TurnInv'
  BY <1>1, <1>2, <1>4 DEF TurnInv, At
<1>8. LedgerLeads' /\ EarlierInv' /\ RanInv' /\ BroughtInv' /\ InterruptedIsKnown'
  BY <1>1, <1>2, <1>3, AppendKeeps
<1>9. RecordsInv'
  <2>1. ASSUME NEW s \in Records PROVE TrueRecord(s)'
    BY <1>2 DEF IInv, RecordsInv, TrueRecord
  <2>2. \A s : s = r => TrueRecord(s)'
    BY <1>2, <1>3, <1>4, <1>5 DEF TrueRecord, Kinds
  <2> QED
    BY <1>2, <2>1, <2>2, Appended DEF RecordsInv
<1>10. AskedInv'
  BY <1>2 DEF IInv, AskedInv
<1>11. ReadyInv'
  <2> SUFFICES ASSUME NEW h \in Attempt, NEW c \in Call, Ready(ledger', h, c)
               PROVE  Has(kept', "opened", h) /\ Has(kept', "approved", h)
    BY DEF ReadyInv
  <2>1. Ready(ledger, h, c) /\ h # turn.hold
    BY <1>2, <1>3, Appended DEF Ready, Has
  <2> QED
    BY <1>2, <2>1, Appended, HasMore DEF IInv, ReadyInv
<1>12. UseInv'
  <2>1. Has(kept' \cup tail', "opened", turn.hold) /\ Has(kept' \cup tail', "approved", turn.hold)
    BY <1>2, <1>5, Appended, HasMore
  <2>2. Has(tail', "spent", turn.hold)
    BY <1>2, <1>3, Appended DEF Has
  <2> QED
    BY <1>1, <1>2, <1>5, <2>1, <2>2 DEF UseInv, At
<1>13. FlightInv'
  BY <1>1, <1>2, Appended, FlightKeeps DEF IInv
<1>14. RequestInv'
  <2>1. Has(kept' \cup tail', "requested", attempt)
    BY <1>1, <1>2, Appended, HasMore DEF IInv, RequestInv
  <2> QED
    BY <1>2, <1>8, <2>1 DEF RequestInv
<1> QED
  BY <1>6, <1>7, <1>8, <1>9, <1>10, <1>11, <1>12, <1>13, <1>14 DEF IInv

\* A result says nothing about holds.
LEMMA RecordResultKeeps ==
  ASSUME IInv, NEW kind \in {"done", "failed"}, RecordResult(kind)
  PROVE  IInv'
<1> DEFINE r == Rec(kind, attempt, turn.call, observation)
<1>1. /\ turn.pc \in {"result", "failing"} /\ ~At("down") /\ ~At("down")'
      /\ turn'.pc = "ready" /\ turn'.hold = NoHold
      /\ turn' \in [pc : Points, call : Call \cup {NoCall}, hold : Attempt \cup {NoHold}, answer : Answers]
  BY DEF RecordResult, At, Down, Points, Answers
<1>2. AppendEvent(r) /\ UNCHANGED <<flight, attempt, resumed, asked, verdict, ran, unasked, happened>>
  BY DEF RecordResult, world
<1>3. r.kind = kind /\ r.id = attempt /\ r.call = turn.call /\ attempt \in Attempt /\ turn.call \in Call
  BY <1>1 DEF Rec, IInv, TurnInv
<1> HIDE DEF r
<1>4. Typed'
  BY <1>1, <1>2 DEF IInv, Typed
<1>5. TurnInv'
  BY <1>1 DEF TurnInv, At
<1>6. LedgerLeads' /\ EarlierInv' /\ RanInv' /\ BroughtInv' /\ InterruptedIsKnown'
  BY <1>1, <1>2, <1>3, AppendKeeps
<1>7. RecordsInv'
  BY <1>2, <1>3, Appended DEF IInv, RecordsInv, TrueRecord, Kinds, HoldKinds
<1>8. AskedInv'
  BY <1>2 DEF IInv, AskedInv
<1>9. ReadyInv'
  BY <1>1, <1>2, <1>3, Appended, ReadySame, HasMore DEF IInv, ReadyInv, HoldKinds, At
<1>10. UseInv'
  BY <1>1 DEF UseInv
<1>11. FlightInv'
  BY <1>1, <1>2, Appended, FlightKeeps DEF IInv
<1>12. RequestInv'
  BY <1>1, <1>6 DEF RequestInv
<1> QED
  BY <1>4, <1>5, <1>6, <1>7, <1>8, <1>9, <1>10, <1>11, <1>12 DEF IInv

-----------------------------------------------------------------------------
(* Actions of the turn that write no record.                               *)

\* What a step that only moves the turn leaves as it was.
LEMMA TurnOnlyKeeps ==
  ASSUME IInv, UNCHANGED <<ledger, tail, kept, flight, attempt, resumed, asked, ran, happened>>,
         ~At("down"), ~At("down")'
  PROVE  LedgerLeads' /\ AskedInv' /\ EarlierInv' /\ RanInv' /\ BroughtInv' /\ InterruptedIsKnown'
<1>1. LedgerLeads' /\ AskedInv' /\ EarlierInv'
  BY DEF IInv, LedgerLeads, AskedInv, EarlierInv
<1>2. RanInv' /\ InterruptedIsKnown'
  BY DEF IInv, RanInv, RequestInv, InterruptedIsKnown
<1>3. BroughtInv'
  BY BringsMore DEF IInv, RequestInv, BroughtInv
<1> QED
  BY <1>1, <1>2, <1>3

\* A refusal, or the end of the wait for a result.
LEMMA FailingKeeps ==
  ASSUME IInv, RefuseUnanswerable \/ GiveUp
  PROVE  IInv'
<1>1. /\ turn.pc \in {"review", "waiting"} /\ ~At("down") /\ ~At("down")'
      /\ turn'.pc = "failing" /\ turn'.call = turn.call
      /\ turn' \in [pc : Points, call : Call \cup {NoCall}, hold : Attempt \cup {NoHold}, answer : Answers]
  BY DEF IInv, Typed, RefuseUnanswerable, GiveUp, GoTo, At, Points
<1>2. UNCHANGED <<ledger, tail, kept, flight, attempt, resumed, asked, verdict, ran, happened>>
  BY DEF RefuseUnanswerable, GiveUp, NoRecord, Steady, world
<1>3. Typed'
  BY <1>1, <1>2 DEF IInv, Typed
<1>4. TurnInv'
  BY <1>1, <1>2 DEF IInv, TurnInv, At
<1>5. LedgerLeads' /\ AskedInv' /\ EarlierInv' /\ RanInv' /\ BroughtInv' /\ InterruptedIsKnown'
  BY <1>1, <1>2, TurnOnlyKeeps
<1>6. RecordsInv'
  BY <1>2 DEF IInv, RecordsInv, Records, TrueRecord
<1>7. ReadyInv'
  BY <1>1, <1>2 DEF IInv, ReadyInv, At
<1>8. UseInv' /\ RequestInv'
  BY <1>1, <1>5 DEF UseInv, RequestInv
<1>9. FlightInv'
  BY <1>1, <1>2, FlightKeeps DEF IInv
<1> QED
  BY <1>3, <1>4, <1>5, <1>6, <1>7, <1>8, <1>9 DEF IInv

\* A ready hold has not run, is not on its way, and the host knows of it.
LEMMA UseApprovalKeeps ==
  ASSUME IInv, NEW h \in Attempt, UseApproval(h)
  PROVE  IInv'
<1>1. /\ turn.pc = "review" /\ ~At("down") /\ ~At("down")'
      /\ turn'.pc = "spend" /\ turn'.hold = h /\ turn'.call = turn.call
      /\ turn' \in [pc : Points, call : Call \cup {NoCall}, hold : Attempt \cup {NoHold}, answer : Answers]
  BY DEF IInv, Typed, UseApproval, At, Points
<1>2. UNCHANGED <<ledger, tail, kept, flight, attempt, resumed, asked, verdict, ran, happened>>
  BY DEF UseApproval, NoRecord, Steady, world
<1>3. h # NoHold /\ Ready(ledger, h, turn.call) /\ turn.call \in Call
  BY <1>1 DEF UseApproval, IInv, TurnInv, Attempt, NoHold
<1>4. asked[h] = turn.call /\ verdict[h] = "approved"
  BY <1>3 DEF IInv, RecordsInv, Records, TrueRecord, Ready, Has
<1>5. ran[h] = <<>> /\ \A f \in flight : f.hold # h
  <2>1. ran[h] = <<>>
    BY <1>1, <1>3 DEF IInv, RanInv, Ready
  <2>2. \A f \in flight : f.hold # h
    BY <1>1, <1>3 DEF IInv, FlightInv, HeldFlight, Ready
  <2> QED
    BY <2>1, <2>2
<1>6. Has(kept, "opened", h) /\ Has(kept, "approved", h)
  BY <1>1, <1>3 DEF IInv, ReadyInv, At
<1>7. Typed'
  BY <1>1, <1>2 DEF IInv, Typed
<1>8. TurnInv'
  BY <1>1, <1>2, <1>3, <1>4 DEF IInv, TurnInv, At
<1>9. LedgerLeads' /\ AskedInv' /\ EarlierInv' /\ RanInv' /\ BroughtInv' /\ InterruptedIsKnown'
  BY <1>1, <1>2, TurnOnlyKeeps
<1>10. RecordsInv'
  BY <1>2 DEF IInv, RecordsInv, Records, TrueRecord
<1>11. ReadyInv'
  BY <1>1, <1>2 DEF IInv, ReadyInv, At
<1>12. UseInv'
  BY <1>1, <1>2, <1>4, <1>5, <1>6, HasIn DEF UseInv, At
<1>13. FlightInv'
  BY <1>1, <1>2, FlightKeeps DEF IInv
<1>14. RequestInv'
  BY <1>1, <1>2, <1>9 DEF IInv, RequestInv
<1> QED
  BY <1>7, <1>8, <1>9, <1>10, <1>11, <1>12, <1>13, <1>14 DEF IInv

\* The person's first word on a hold: nothing on record or on its way depends on it.
LEMMA AnswerKeeps ==
  ASSUME IInv, NEW a \in Answers, Answer(a)
  PROVE  IInv'
<1>1. /\ turn.pc = "asking" /\ ~At("down") /\ ~At("down")'
      /\ turn'.pc = IF a = "none" THEN "failing" ELSE "settle"
      /\ turn'.hold = turn.hold /\ turn'.call = turn.call /\ turn'.answer = a
      /\ turn' \in [pc : Points, call : Call \cup {NoCall}, hold : Attempt \cup {NoHold}, answer : Answers]
  BY DEF IInv, Typed, Answer, At, Points
<1>2. UNCHANGED <<ledger, tail, kept, flight, attempt, resumed, asked, ran, happened>>
  BY DEF Answer, NoRecord, Steady
<1>3. attempt \in Attempt /\ turn.hold = attempt /\ turn.hold # NoHold /\ verdict[turn.hold] = "none"
  BY <1>1 DEF Answer, IInv, TurnInv
<1>4. /\ verdict' \in [Attempt -> Answers] /\ verdict'[turn.hold] = a
      /\ \A h \in Attempt : h # turn.hold => verdict'[h] = verdict[h]
  BY <1>3 DEF Answer, IInv, Typed
<1>5. Typed'
  BY <1>1, <1>2, <1>4 DEF IInv, Typed
<1>6. TurnInv'
  BY <1>1, <1>2, <1>3, <1>4 DEF IInv, TurnInv, At
<1>7. LedgerLeads' /\ AskedInv' /\ EarlierInv' /\ RanInv' /\ BroughtInv' /\ InterruptedIsKnown'
  BY <1>1, <1>2, TurnOnlyKeeps
<1>8. RecordsInv'
  <2>1. Records' = Records
    BY <1>2 DEF Records
  <2>2. ASSUME NEW s \in Records PROVE TrueRecord(s)'
    <3>1. TrueRecord(s)
      BY <2>2 DEF IInv, RecordsInv
    <3>2. s.kind \in {"approved", "rejected"} => s.id # turn.hold
      BY <1>3, <3>1 DEF TrueRecord
    <3> QED
      BY <1>2, <1>4, <3>1, <3>2 DEF TrueRecord
  <2> QED
    BY <2>1, <2>2 DEF RecordsInv
<1>9. ReadyInv'
  BY <1>1, <1>2 DEF IInv, ReadyInv, At
<1>10. UseInv'
  BY <1>1, <1>2, <1>3 DEF IInv, UseInv, At
<1>11. FlightInv'
  <2>1. ASSUME NEW f \in flight, f.hold # NoHold PROVE HeldFlight(f)'
    <3>1. HeldFlight(f) /\ f.hold \in Attempt
      BY <2>1 DEF IInv, Typed, FlightInv
    <3>2. f.hold # turn.hold
      BY <1>3, <3>1 DEF HeldFlight
    <3> QED
      BY <1>1, <1>2, <1>4, <3>1, <3>2, HeldKeeps
  <2> QED
    BY <1>2, <2>1 DEF IInv, FlightInv
<1>12. RequestInv'
  BY <1>1, <1>2, <1>7 DEF IInv, RequestInv
<1> QED
  BY <1>5, <1>6, <1>7, <1>8, <1>9, <1>10, <1>11, <1>12 DEF IInv

\* The call takes with it whatever the host may lack.
LEMMA SendKeeps ==
  ASSUME IInv, Send
  PROVE  IInv'
<1> DEFINE g == [id |-> attempt, hold |-> turn.hold, call |-> turn.call, brought |-> tail]
<1>1. /\ turn.pc = "invoke" /\ ~At("down") /\ ~At("down")'
      /\ turn'.pc = "waiting" /\ turn'.call = turn.call
      /\ turn' \in [pc : Points, call : Call \cup {NoCall}, hold : Attempt \cup {NoHold}, answer : Answers]
  BY DEF IInv, Typed, Send, GoTo, At, Points
<1>2. /\ flight' = flight \cup {g} /\ tail' = {}
      /\ UNCHANGED <<ledger, kept, attempt, resumed, asked, verdict, ran, happened>>
  BY DEF Send, Steady, world
<1>3. g.id = attempt /\ g.hold = turn.hold /\ g.call = turn.call /\ g.brought = tail
  OBVIOUS
<1> HIDE DEF g
<1>4. /\ attempt \in Attempt /\ turn.call \in Call /\ turn.hold \in Attempt \cup {NoHold} /\ tail \subseteq ledger
      /\ turn.hold = NoHold => turn.call \notin Gated
  BY <1>1 DEF IInv, Typed, TurnInv, LedgerLeads, At
<1>5. Typed'
  BY <1>1, <1>2, <1>3, <1>4 DEF IInv, Typed
<1>6. TurnInv'
  BY <1>1, <1>2 DEF IInv, TurnInv, At
<1>7. LedgerLeads'
  BY <1>1, <1>2, <1>3, <1>4 DEF IInv, LedgerLeads
<1>8. RecordsInv'
  <2>1. Records' \subseteq Records
    BY <1>2, <1>3 DEF Records
  <2> QED
    BY <1>2, <2>1 DEF IInv, RecordsInv, TrueRecord
<1>9. AskedInv' /\ EarlierInv' /\ RanInv'
  BY <1>1, <1>2 DEF IInv, AskedInv, EarlierInv, RanInv
<1>10. ReadyInv'
  BY <1>1, <1>2 DEF IInv, ReadyInv, At
<1>11. UseInv'
  BY <1>1 DEF UseInv
<1>12. FlightInv'
  <2>1. ASSUME NEW f \in flight, f.hold # NoHold PROVE HeldFlight(f)'
    BY <1>1, <1>2, <2>1, HeldKeeps DEF IInv, FlightInv
  <2>2. ASSUME turn.hold # NoHold PROVE /\ \A f : f = g => HeldFlight(f)'
                                       /\ \A f \in flight : f.hold # turn.hold
    <3>1. /\ asked[turn.hold] = turn.call /\ ran[turn.hold] = <<>> /\ verdict[turn.hold] = "approved"
          /\ \A f \in flight : f.hold # turn.hold
          /\ Has(kept \cup tail, "opened", turn.hold) /\ Has(kept \cup tail, "approved", turn.hold)
          /\ Has(tail, "spent", turn.hold)
      BY <1>1, <2>2 DEF IInv, UseInv, TurnInv, At
    <3>2. Has(ledger, "spent", turn.hold) /\ Has(kept \cup tail, "spent", turn.hold)
      BY <1>4, <3>1, HasMore, HasIn
    <3>3. turn.hold <= resumed.after => Has(kept, "approved", turn.hold)
      BY <1>1, <1>4, <2>2, <3>1, HasMore, HasIn DEF IInv, EarlierInv
    <3>4. \A f : f = g => HeldFlight(f)'
      BY <1>2, <1>3, <3>1, <3>2, <3>3 DEF HeldFlight, Brings
    <3> QED
      BY <3>1, <3>4
  <2> QED
    BY <1>2, <1>3, <1>4, <2>1, <2>2 DEF IInv, FlightInv
<1>13. RequestInv'
  <2>1. BroughtInv'
    BY <1>1, <1>2, <1>3, BringsMore DEF IInv, RequestInv, BroughtInv, Brings
  <2>2. InterruptedIsKnown'
    BY <1>2 DEF IInv, RequestInv, InterruptedIsKnown
  <2> QED
    BY <1>1, <2>1, <2>2 DEF RequestInv
<1> QED
  BY <1>5, <1>6, <1>7, <1>8, <1>9, <1>10, <1>11, <1>12, <1>13 DEF IInv

-----------------------------------------------------------------------------
(* The host and the session.                                               *)

\* The call and its records reach the host together.
LEMMA ArriveKeeps ==
  ASSUME IInv, NEW f \in flight, Arrive(f)
  PROVE  IInv'
<1>1. /\ flight' = flight \ {f} /\ kept' = kept \cup f.brought /\ happened' = happened \cup {f.id}
      /\ UNCHANGED <<ledger, tail, attempt, resumed, asked, verdict>>
  BY DEF Arrive, Steady
<1>2. /\ f.id \in Attempt /\ f.hold \in Attempt \cup {NoHold} /\ f.call \in Call /\ NoHold \notin Attempt
  BY DEF IInv, Typed, Attempt, NoHold
<1>3. /\ turn'.call = turn.call /\ turn'.hold = turn.hold /\ turn'.answer = turn.answer
      /\ turn'.pc = turn.pc \/ (turn.pc = "waiting" /\ turn'.pc = "result")
      /\ turn' \in [pc : Points, call : Call \cup {NoCall}, hold : Attempt \cup {NoHold}, answer : Answers]
  BY DEF IInv, Typed, Arrive, At, Points
<1>4. /\ ran' \in [Attempt -> Seq(Call)]
      /\ f.hold # NoHold => ran'[f.hold] = ran[f.hold] \o <<f.call>>
      /\ \A h \in Attempt : h # f.hold => ran'[h] = ran[h]
  <2>1. CASE f.hold = NoHold
    BY <1>2, <2>1 DEF Arrive, IInv, Typed
  <2>2. CASE f.hold # NoHold
    <3>1. ran' = [ran EXCEPT ![f.hold] = ran[f.hold] \o <<f.call>>]
      BY <2>2 DEF Arrive
    <3>2. ran[f.hold] \o <<f.call>> \in Seq(Call)
      BY <1>2, <2>2 DEF IInv, Typed
    <3> QED
      BY <1>2, <2>2, <3>1, <3>2 DEF IInv, Typed
  <2> QED
    BY <2>1, <2>2
<1>5. Typed'
  BY <1>1, <1>3, <1>4 DEF IInv, Typed
<1>6. TurnInv'
  BY <1>1, <1>3 DEF IInv, TurnInv, At
<1>7. LedgerLeads'
  BY <1>1, <1>3 DEF IInv, LedgerLeads, At
<1>8. RecordsInv'
  <2>1. Records' \subseteq Records
    BY <1>1 DEF Records
  <2> QED
    BY <1>1, <2>1 DEF IInv, RecordsInv, TrueRecord
<1>9. AskedInv'
  BY <1>1 DEF IInv, AskedInv
<1>10. EarlierInv'
  BY <1>1, <1>3, HasIn DEF IInv, EarlierInv, At
<1>11. ReadyInv'
  BY <1>1, <1>3, HasIn DEF IInv, ReadyInv, At
<1>12. UseInv'
  <2> SUFFICES ASSUME turn'.pc \in {"asking", "settle", "spend", "invoke"}, turn'.hold # NoHold
               PROVE  UseInv'
    BY DEF UseInv
  <2>1. turn'.pc = turn.pc /\ f.hold # turn.hold /\ turn.hold \in Attempt
    BY <1>3 DEF IInv, Typed, UseInv
  <2>2. \A kind : Has(kept \cup tail, kind, turn.hold) => Has(kept' \cup tail', kind, turn.hold)
    BY <1>1 DEF Has
  <2> QED
    BY <1>1, <1>3, <1>4, <2>1, <2>2 DEF IInv, UseInv, At
<1>13. FlightInv'
  <2>1. ASSUME NEW g \in flight', g.hold # NoHold PROVE HeldFlight(g)'
    <3>1. HeldFlight(g) /\ g.hold # f.hold /\ g.hold \in Attempt
      BY <1>1, <2>1 DEF IInv, Typed, FlightInv
    <3> QED
      BY <1>1, <1>3, <1>4, <3>1, HeldKeeps DEF At
  <2> QED
    BY <1>1, <2>1 DEF IInv, FlightInv
<1>14. RanInv'
  <2> SUFFICES ASSUME NEW h \in Attempt, ran'[h] # <<>>
               PROVE  /\ Has(kept', "opened", h) /\ Has(kept', "approved", h) /\ Has(kept', "spent", h)
                      /\ ~At("down") => Has(ledger, "spent", h)
    BY <1>1, <1>3 DEF RanInv, At
  <2>1. CASE h # f.hold
    BY <1>1, <1>4, <2>1, HasIn DEF IInv, RanInv
  <2>2. CASE h = f.hold
    BY <1>1, <1>2, <2>2 DEF IInv, FlightInv, HeldFlight, Brings
  <2> QED
    BY <2>1, <2>2
<1>15. RequestInv'
  <2>1. BroughtInv'
    BY <1>1, BringsMore DEF IInv, RequestInv, BroughtInv
  <2>2. InterruptedIsKnown'
    BY <1>1, HasIn DEF IInv, RequestInv, BroughtInv, Brings, InterruptedIsKnown
  <2>3. Has(kept \cup tail, "requested", attempt) => Has(kept' \cup tail', "requested", attempt)
    BY <1>1 DEF Has
  <2> QED
    BY <1>1, <1>3, <2>1, <2>2, <2>3 DEF IInv, RequestInv
<1> QED
  BY <1>5, <1>6, <1>7, <1>8, <1>9, <1>10, <1>11, <1>12, <1>13, <1>14, <1>15 DEF IInv

\* A lost call takes only copies of records.
LEMMA LoseCallKeeps ==
  ASSUME IInv, NEW f \in flight, LoseCall(f)
  PROVE  IInv'
<1>1. /\ flight' = flight \ {f}
      /\ UNCHANGED <<ledger, tail, kept, attempt, turn, resumed, asked, verdict, ran, happened>>
  BY DEF LoseCall, NoRecord, Steady, world
<1>2. Typed' /\ TurnInv' /\ LedgerLeads' /\ AskedInv'
  BY <1>1 DEF IInv, Typed, TurnInv, LedgerLeads, AskedInv, At
<1>3. RecordsInv'
  <2>1. Records' \subseteq Records
    BY <1>1 DEF Records
  <2> QED
    BY <1>1, <2>1 DEF IInv, RecordsInv, TrueRecord
<1>4. EarlierInv' /\ ReadyInv' /\ RanInv'
  BY <1>1 DEF IInv, EarlierInv, ReadyInv, RanInv, At
<1>5. UseInv'
  BY <1>1 DEF IInv, UseInv, At
<1>6. FlightInv'
  BY <1>1, FlightKeeps DEF IInv, At
<1>7. RequestInv'
  BY <1>1, BringsMore DEF IInv, RequestInv, BroughtInv, InterruptedIsKnown
<1> QED
  BY <1>2, <1>3, <1>4, <1>5, <1>6, <1>7 DEF IInv

\* The host decides only what no record anywhere says was decided.
LEMMA UndecidedAnywhere ==
  ASSUME IInv, NEW h \in Attempt, NEW v, HostDecides(h, v)
  PROVE  \A r \in Records : r.kind \in {"approved", "rejected"} => r.id # h
<1> SUFFICES ASSUME NEW r \in Records, r.kind \in {"approved", "rejected"}, r.id = h
             PROVE  FALSE
  OBVIOUS
<1>1. r \notin kept
  BY DEF HostDecides, Pending, Has
<1>2. CASE At("down")
  <2>1. ledger = {} /\ tail = {} /\ flight = {}
    BY <1>2 DEF HostDecides, IInv, TurnInv
  <2> QED
    BY <1>1, <2>1 DEF Records
<1>3. CASE ~At("down")
  <2>1. verdict[h] = r.kind
    BY DEF IInv, RecordsInv, TrueRecord
  <2>2. h <= resumed.after
    BY <1>3, <2>1 DEF HostDecides, IInv, Typed, Attempt
  <2>3. r \in ledger
    BY <1>1, <1>3 DEF Records, IInv, LedgerLeads
  <2>4. Has(kept, r.kind, h)
    BY <1>3, <2>2, <2>3 DEF IInv, EarlierInv, Has
  <2> QED
    BY <2>4 DEF HostDecides, Pending
<1> QED
  BY <1>2, <1>3

\* A decision of the host's own does not touch a hold in use or on its way.
LEMMA HostDecidesKeeps ==
  ASSUME IInv, NEW h \in Attempt, NEW v \in {"approved", "rejected"}, HostDecides(h, v)
  PROVE  IInv'
<1>1. PICK s \in kept : /\ s.kind = "opened" /\ s.id = h
                        /\ kept' = kept \cup {Rec(v, h, s.call, 0)}
                        /\ ledger' = IF shared /\ ~At("down") THEN ledger \cup {Rec(v, h, s.call, 0)} ELSE ledger
  BY DEF HostDecides
<1> DEFINE r == Rec(v, h, s.call, 0)
<1>2. /\ kept' = kept \cup {r} /\ (ledger' = ledger \/ (ledger' = ledger \cup {r} /\ ~At("down")))
      /\ r.kind = v /\ r.id = h /\ r.call = s.call
  BY <1>1 DEF Rec
<1>3. UNCHANGED <<tail, flight, attempt, turn, resumed, asked, ran, happened>>
  BY DEF HostDecides, Steady
<1>4. /\ verdict' \in [Attempt -> Answers] /\ verdict'[h] = v
      /\ \A i \in Attempt : i # h => verdict'[i] = verdict[i]
  BY DEF HostDecides, IInv, Typed, Answers
<1>5. TrueRecord(s) /\ asked[h] = s.call /\ asked[h] # NoCall
  BY <1>1 DEF IInv, RecordsInv, Records, TrueRecord, HoldKinds
<1>6. \A f \in flight : f.hold # h
  <2> SUFFICES ASSUME NEW f \in flight, f.hold = h PROVE FALSE
    OBVIOUS
  <2>1. HeldFlight(f) /\ ~At("down") /\ h # NoHold /\ h \in Nat
    BY DEF IInv, FlightInv, HostDecides, Attempt, NoHold
  <2>2. h <= resumed.after
    BY <2>1 DEF HeldFlight, HostDecides, IInv, Typed
  <2>3. Has(kept, "approved", h)
    BY <2>1, <2>2 DEF HeldFlight
  <2> QED
    BY <2>3 DEF HostDecides, Pending
<1>7. ~At("down") => turn.hold # h
  BY DEF HostDecides
<1> HIDE DEF r
<1>8. Typed'
  BY <1>3, <1>4 DEF IInv, Typed
<1>9. TurnInv'
  <2>1. verdict'[turn.hold] = verdict[turn.hold] \/ turn.hold = NoHold \/ At("down")
    BY <1>4, <1>7 DEF IInv, Typed
  <2>2. At("down") => ledger' = {} /\ tail' = {}
    BY <1>2, <1>3 DEF IInv, TurnInv
  <2> QED
    BY <1>3, <2>1, <2>2 DEF IInv, TurnInv, At
<1>10. LedgerLeads'
  BY <1>2, <1>3 DEF IInv, LedgerLeads, At
<1>11. RecordsInv'
  <2>1. Records' \subseteq Records \cup {r}
    BY <1>2, <1>3 DEF Records
  <2>2. ASSUME NEW t \in Records PROVE TrueRecord(t)'
    <3>1. TrueRecord(t) /\ (t.kind \in {"approved", "rejected"} => t.id # h)
      BY UndecidedAnywhere DEF IInv, RecordsInv
    <3> QED
      BY <1>3, <1>4, <3>1 DEF TrueRecord
  <2>3. \A t : t = r => TrueRecord(t)'
    BY <1>2, <1>3, <1>4, <1>5 DEF TrueRecord, Kinds
  <2> QED
    BY <2>1, <2>2, <2>3 DEF RecordsInv
<1>12. AskedInv'
  BY <1>3 DEF IInv, AskedInv
<1>13. EarlierInv'
  <2>1. \A i, kind : Has(kept', kind, i) <=> Has(kept, kind, i) \/ (kind = v /\ i = h)
    BY <1>2 DEF Has
  <2>2. \A i, kind : Has(ledger', kind, i) => Has(ledger, kind, i) \/ (kind = v /\ i = h)
    BY <1>2 DEF Has
  <2> QED
    BY <1>3, <2>1, <2>2 DEF IInv, EarlierInv, At
<1>14. ReadyInv'
  <2> SUFFICES ASSUME NEW i \in Attempt, NEW c \in Call, Ready(ledger', i, c), ~(At("spend") /\ turn.hold = i)
               PROVE  Has(kept', "opened", i) /\ Has(kept', "approved", i)
    BY <1>3 DEF ReadyInv, At
  <2>1. CASE i = h
    <3>1. Has(kept, "opened", h) /\ ~Has(ledger, "approved", h)
      BY UndecidedAnywhere DEF HostDecides, Pending, Has, Records
    <3>2. Has(ledger', "approved", h)
      BY <2>1 DEF Ready
    <3>3. v = "approved"
      BY <1>2, <3>1, <3>2, HasOne
    <3> QED
      BY <1>2, <2>1, <3>1, <3>3, HasOne
  <2>2. CASE i # h
    <3>1. Ready(ledger, i, c)
      BY <1>2, <2>2 DEF Ready, Has
    <3> QED
      BY <1>2, <3>1, HasOne DEF IInv, ReadyInv
  <2> QED
    BY <2>1, <2>2
<1>15. UseInv'
  <2>1. \A kind, i : Has(kept \cup tail, kind, i) => Has(kept' \cup tail', kind, i)
    BY <1>2, <1>3 DEF Has
  <2> QED
    BY <1>3, <2>1 DEF IInv, UseInv, At
<1>16. FlightInv'
  <2>1. ASSUME NEW f \in flight, f.hold # NoHold PROVE HeldFlight(f)'
    <3>1. HeldFlight(f) /\ f.hold \in Attempt /\ f.hold # h
      BY <1>6, <2>1 DEF IInv, Typed, FlightInv
    <3> QED
      BY <1>2, <1>3, <1>4, <3>1, HeldKeeps DEF At
  <2> QED
    BY <1>3, <2>1 DEF IInv, FlightInv
<1>17. RanInv'
  BY <1>2, <1>3, HasOne DEF IInv, RanInv, At
<1>18. RequestInv'
  <2>1. \A i : Has(kept \cup tail, "requested", i) => Has(kept' \cup tail', "requested", i)
    BY <1>2, <1>3 DEF Has
  <2>2. BroughtInv' /\ InterruptedIsKnown'
    BY <1>2, <1>3, HasOne, BringsMore DEF IInv, RequestInv, BroughtInv, InterruptedIsKnown
  <2> QED
    BY <1>3, <2>1, <2>2 DEF IInv, RequestInv
<1> QED
  BY <1>8, <1>9, <1>10, <1>11, <1>12, <1>13, <1>14, <1>15, <1>16, <1>17, <1>18 DEF IInv

\* A session starts on what the host kept.
LEMMA StartSessionKeeps ==
  ASSUME IInv, StartSession
  PROVE  IInv'
<1>1. /\ turn'.pc = "ready" /\ turn'.hold = NoHold /\ ~At("down")'
      /\ turn' \in [pc : Points, call : Call \cup {NoCall}, hold : Attempt \cup {NoHold}, answer : Answers]
  BY DEF StartSession, Down, At, Points, Answers
<1>2. /\ flight' = {} /\ ledger' = kept /\ tail' = {} /\ resumed'.after = attempt
      /\ UNCHANGED <<kept, attempt, asked, verdict, ran, happened>>
  BY DEF StartSession, world
<1>3. Typed'
  BY <1>1, <1>2 DEF IInv, Typed
<1>4. TurnInv' /\ LedgerLeads' /\ AskedInv' /\ EarlierInv' /\ FlightInv' /\ UseInv'
  BY <1>1, <1>2 DEF IInv, TurnInv, LedgerLeads, AskedInv, EarlierInv, FlightInv, UseInv, At
<1>5. RecordsInv'
  BY <1>2 DEF IInv, RecordsInv, Records, TrueRecord
<1>6. ReadyInv'
  BY <1>2 DEF ReadyInv, Ready, Has
<1>7. RanInv' /\ RequestInv'
  BY <1>1, <1>2 DEF IInv, RanInv, RequestInv, BroughtInv, InterruptedIsKnown
<1> QED
  BY <1>3, <1>4, <1>5, <1>6, <1>7 DEF IInv

\* A crash loses the ledger and the tail, not what the host and its calls have.
LEMMA CrashKeeps ==
  ASSUME IInv, Crash
  PROVE  IInv'
<1>1. /\ turn'.pc = "down" /\ turn'.hold = NoHold /\ At("down")'
      /\ turn' \in [pc : Points, call : Call \cup {NoCall}, hold : Attempt \cup {NoHold}, answer : Answers]
  BY DEF Crash, Down, At, Points, Answers
<1>2. ledger' = {} /\ tail' = {} /\ UNCHANGED <<kept, flight, attempt, resumed, asked, verdict, ran, happened>>
  BY DEF Crash, world
<1>3. Typed'
  BY <1>1, <1>2 DEF IInv, Typed
<1>4. TurnInv' /\ LedgerLeads' /\ AskedInv' /\ EarlierInv' /\ UseInv' /\ RanInv'
  BY <1>1, <1>2 DEF IInv, TurnInv, LedgerLeads, AskedInv, EarlierInv, UseInv, RanInv, At
<1>5. RecordsInv'
  <2>1. Records' \subseteq Records
    BY <1>2 DEF Records
  <2> QED
    BY <1>2, <2>1 DEF IInv, RecordsInv, TrueRecord
<1>6. ReadyInv'
  BY <1>2 DEF ReadyInv, Ready, Has
<1>7. FlightInv'
  BY <1>1, <1>2, FlightKeeps DEF IInv
<1>8. RequestInv'
  BY <1>1, <1>2, BringsMore DEF IInv, RequestInv, BroughtInv, InterruptedIsKnown
<1> QED
  BY <1>3, <1>4, <1>5, <1>6, <1>7, <1>8 DEF IInv

\* Nothing happens.
LEMMA StutterKeeps ==
  ASSUME IInv, UNCHANGED vars
  PROVE  IInv'
<1>1. UNCHANGED <<ledger, tail, kept, flight, attempt, turn, resumed, asked, verdict, ran, happened>>
  BY DEF vars, world
<1>2. Typed' /\ TurnInv' /\ LedgerLeads' /\ AskedInv'
  BY <1>1 DEF IInv, Typed, TurnInv, LedgerLeads, AskedInv, At
<1>3. RecordsInv'
  BY <1>1 DEF IInv, RecordsInv, Records, TrueRecord
<1>4. EarlierInv' /\ ReadyInv' /\ RanInv' /\ UseInv'
  BY <1>1 DEF IInv, EarlierInv, ReadyInv, RanInv, UseInv, At
<1>5. FlightInv'
  BY <1>1, FlightKeeps DEF IInv, At
<1>6. RequestInv'
  BY <1>1, BringsMore DEF IInv, RequestInv, BroughtInv, InterruptedIsKnown
<1> QED
  BY <1>2, <1>3, <1>4, <1>5, <1>6 DEF IInv

\* Every step keeps the invariant.
LEMMA NextKeeps == IInv /\ [Next]_vars => IInv'
<1> SUFFICES ASSUME IInv, [Next]_vars PROVE IInv'
  OBVIOUS
<1>1. CASE StartSession
  BY <1>1, StartSessionKeeps
<1>2. CASE Crash
  BY <1>2, CrashKeeps
<1>3. CASE \E c \in Call : Request(c)
  BY <1>3, RequestKeeps
<1>4. CASE RefuseUnanswerable \/ GiveUp
  BY <1>4, FailingKeeps
<1>5. CASE \E h \in Attempt : UseApproval(h)
  BY <1>5, UseApprovalKeeps
<1>6. CASE HoldCall
  BY <1>6, HoldCallKeeps
<1>7. CASE \E a \in {"none", "approved", "rejected"} : Answer(a)
  BY <1>7, AnswerKeeps DEF Answers
<1>8. CASE Settle
  BY <1>8, SettleKeeps
<1>9. CASE Spend
  BY <1>9, SpendKeeps
<1>10. CASE Send
  BY <1>10, SendKeeps
<1>11. CASE \E kind \in {"done", "failed"} : RecordResult(kind)
  BY <1>11, RecordResultKeeps
<1>12. CASE \E f \in flight : Arrive(f)
  BY <1>12, ArriveKeeps
<1>13. CASE \E f \in flight : LoseCall(f)
  BY <1>13, LoseCallKeeps
<1>14. CASE \E h \in Attempt, v \in {"approved", "rejected"} : HostDecides(h, v)
  BY <1>14, HostDecidesKeeps
<1>15. CASE UNCHANGED vars
  BY <1>15, StutterKeeps
<1> QED
  BY <1>1, <1>2, <1>3, <1>4, <1>5, <1>6, <1>7, <1>8, <1>9, <1>10, <1>11, <1>12, <1>13, <1>14, <1>15 DEF Next

\* The records of a hold in use are where the next step needs them, after any crash and any loss.
THEOREM LedgerInvariant == Spec => []IInv
BY InitIInv, NextKeeps, PTL DEF Spec

-----------------------------------------------------------------------------
(* Types, and how far observation numbers go.                              *)

\* Every set of naturals has a least element, and a bounded one a greatest.
LEMMA LeastExists ==
  ASSUME NEW S, S \subseteq Nat, S # {}
  PROVE  \E n \in S : \A m \in S : n <= m
<1> DEFINE R == {ss \in Nat \X Nat : ss[1] < ss[2]}
<1>1. IsWellFoundedOn(R, Nat)
  BY NatLessThanWellFounded DEF OpToRel
<1>2. PICK n \in S : \A m \in S : <<m, n>> \notin R
  <2> HIDE DEF R
  <2> QED
    BY <1>1, WFMin, Zenon
<1>3. \A m \in S : ~(m < n)
  BY <1>2
<1> QED
  BY <1>2, <1>3

LEMMA GreatestExists ==
  ASSUME NEW S, S \subseteq Nat, S # {}, NEW b \in Nat, \A n \in S : n <= b
  PROVE  Max(S) \in S /\ \A n \in S : n <= Max(S)
<1> DEFINE T == {k \in Nat : b - k \in S}
<1>1. T \subseteq Nat /\ T # {}
  <2>1. PICK n : n \in S
    OBVIOUS
  <2>2. b - n \in Nat /\ b - (b - n) = n
    BY <2>1
  <2> QED
    BY <2>1, <2>2
<1>2. PICK k \in T : \A m \in T : k <= m
  <2> HIDE DEF T
  <2> QED
    BY <1>1, LeastExists, Zenon
<1>3. ASSUME NEW n \in S PROVE n <= b - k
  <2>1. b - n \in Nat /\ b - (b - n) = n /\ b - n \in T
    OBVIOUS
  <2> QED
    BY <1>2, <2>1
<1>4. b - k \in S /\ \A n \in S : b - k >= n
  BY <1>2, <1>3
<1>5. Max(S) \in S /\ \A n \in S : Max(S) >= n
  BY <1>4, Zenon DEF Max
<1> QED
  BY <1>5

Written == [kind : Kinds, id : Attempt, call : Call, obs : Nat]

\* Numbers given before the session began.
Reach == session * MaxAttempt

\* A session starts above every number it has read of, by no more than the holds there
\* can be; an attempt takes one number, and takes it with its result.
ObservedInv ==
  /\ Records \subseteq Written
  /\ \A r \in Records : r.obs + MaxAttempt <= attempt + Reach
  /\ ~At("down") => observation + MaxAttempt <= attempt + Reach + (IF At("ready") THEN 1 ELSE 0)
  /\ observation \in Nat /\ observation <= Reach + 1

\* The types that Typed leaves out.
WiderType ==
  /\ shared \in BOOLEAN
  /\ session \in 0..MaxSession
  /\ \A f \in flight : f \in [id : Attempt, hold : Attempt \cup {NoHold}, call : Call, brought : SUBSET Written]
  /\ resumed \in [interrupted : SUBSET Attempt, approved : SUBSET Attempt, after : 0..MaxAttempt]
  /\ unasked \subseteq Call /\ happened \subseteq Attempt

LEMMA ReachIsNat ==
  ASSUME session \in Nat
  PROVE  Reach \in Nat /\ (session + 1) * MaxAttempt = Reach + MaxAttempt
BY BoundAssumption, SMT DEF Reach

\* What a ledger of known reach numbers its next observation.
LEMMA NextObservationBounds ==
  ASSUME NEW S, S \subseteq Written, NEW b \in Nat, \A r \in S : r.obs + MaxAttempt <= b
  PROVE  NextObservation(S) \in Nat /\ NextObservation(S) <= b + 1
<1> DEFINE O == {0} \cup {r.obs : r \in Restored(S)}
           A == Approved(S)
<1>1. Restored(S) \subseteq S
  BY DEF Restored, Results, Interrupted
<1>2. O \subseteq Nat /\ O # {} /\ \A n \in O : n <= b
  BY <1>1, BoundAssumption DEF Written
<1>3. Max(O) \in O
  <2> HIDE DEF O
  <2> QED
    BY <1>2, GreatestExists, Zenon
<1>4. A \subseteq Attempt /\ IsFiniteSet(Attempt) /\ Cardinality(Attempt) = MaxAttempt
  BY BoundAssumption, FS_Interval DEF Approved, Attempt
<1>5. IsFiniteSet(A) /\ Cardinality(A) \in Nat /\ Cardinality(A) <= MaxAttempt
  BY <1>4, FS_Subset, FS_CardinalityType
<1>6. A # {} => S # {}
  BY DEF Approved, Ready
<1>7. A = {} => Cardinality(A) = 0
  BY FS_EmptySet
<1>8. S # {} => MaxAttempt <= b
  BY BoundAssumption DEF Written
<1>9. Max(O) = 0 \/ \E r \in S : Max(O) = r.obs
  BY <1>1, <1>3
<1>10. NextObservation(S) = 1 + Max(O) + Cardinality(A)
  BY DEF NextObservation
<1> HIDE DEF O, A
<1>11. Max(O) \in Nat
  BY <1>2, <1>3
<1>12. CASE Max(O) = 0
  BY <1>5, <1>6, <1>7, <1>8, <1>10, <1>12, BoundAssumption
<1>13. CASE \E r \in S : Max(O) = r.obs
  BY <1>5, <1>10, <1>11, <1>13, BoundAssumption DEF Written
<1> QED
  BY <1>9, <1>12, <1>13

\* A record written with a number in reach keeps them all in reach.
LEMMA AppendKeepsObserved ==
  ASSUME ObservedInv, NEW r, AppendEvent(r), flight' = flight, r \in Written,
         session' = session, session \in Nat, attempt \in Nat, attempt' \in Nat, attempt' >= attempt,
         r.obs + MaxAttempt <= attempt' + Reach
  PROVE  Records' \subseteq Written /\ \A s \in Records' : s.obs + MaxAttempt <= attempt' + Reach'
<1>1. Records' \subseteq Records \cup {r}
  BY Appended
<1>2. Reach' = Reach /\ Reach \in Nat
  BY ReachIsNat DEF Reach
<1>3. ASSUME NEW s \in Records PROVE s \in Written /\ s.obs + MaxAttempt <= attempt' + Reach
  <2>1. s \in Written /\ s.obs \in Nat /\ s.obs + MaxAttempt <= attempt + Reach
    BY DEF ObservedInv, Written
  <2> QED
    BY <1>2, <2>1, BoundAssumption
<1> QED
  BY <1>1, <1>2, <1>3

LEMMA ObservedStep ==
  ASSUME IInv, ObservedInv, WiderType, [Next]_vars
  PROVE  ObservedInv'
<1>0. /\ session \in Nat /\ attempt \in 0..MaxAttempt /\ attempt \in Nat /\ MaxAttempt \in Nat
      /\ Reach \in Nat /\ observation \in Nat
  BY ReachIsNat, BoundAssumption DEF IInv, Typed, WiderType, ObservedInv
<1>1. ASSUME NEW c \in Call, Request(c) PROVE ObservedInv'
  <2> DEFINE r == Rec("requested", attempt', c, observation)
  <2>1. /\ At("ready") /\ attempt' = attempt + 1 /\ attempt' \in Attempt /\ AppendEvent(r)
        /\ UNCHANGED <<flight, session, observation>>
        /\ ~At("ready")'
    BY <1>0, <1>1 DEF Request, Steady, At, Attempt, IInv, Typed
  <2>2. Reach' = Reach
    BY <2>1 DEF Reach
  <2>3. observation + MaxAttempt <= attempt' + Reach
    BY <1>0, <2>1 DEF ObservedInv, At
  <2>4. r \in Written /\ r.obs = observation
    BY <1>0, <2>1 DEF Rec, Written, Kinds
  <2> HIDE DEF r
  <2>5. Records' \subseteq Written /\ \A s \in Records' : s.obs + MaxAttempt <= attempt' + Reach'
    BY <1>0, <2>1, <2>3, <2>4, AppendKeepsObserved
  <2> QED
    BY <1>0, <2>1, <2>2, <2>3, <2>5 DEF ObservedInv
<1>2. ASSUME HoldCall \/ Settle \/ Spend PROVE ObservedInv'
  <2>1. PICK kind \in Kinds, i \in Attempt, c \in Call : AppendEvent(Rec(kind, i, c, 0))
    <3>1. turn.call \in Call /\ attempt \in Attempt
      BY <1>2 DEF HoldCall, Settle, Spend, IInv, TurnInv, At
    <3>2. CASE HoldCall
      BY <3>1, <3>2 DEF HoldCall, Kinds
    <3>3. CASE Settle
      <4>1. turn.answer \in Kinds /\ turn.hold \in Attempt
        BY <3>3 DEF Settle, IInv, TurnInv, Typed, At, Answers, Kinds
      <4> QED
        BY <3>1, <3>3, <4>1 DEF Settle
    <3>4. CASE Spend
      <4>1. turn.hold \in Attempt /\ "spent" \in Kinds
        BY <3>4 DEF Spend, IInv, TurnInv, Typed, At, Kinds
      <4> QED
        BY <3>1, <3>4, <4>1 DEF Spend
    <3> QED
      BY <1>2, <3>2, <3>3, <3>4
  <2> DEFINE r == Rec(kind, i, c, 0)
  <2>2. /\ UNCHANGED <<flight, attempt, session, observation>>
        /\ ~At("down") /\ ~At("ready") /\ ~At("ready")'
    <3>1. UNCHANGED <<flight, attempt, session, observation>> /\ turn.pc \in {"review", "settle", "spend"}
      BY <1>2 DEF HoldCall, Settle, Spend, Steady, At
    <3>2. turn'.pc \in {"asking", "spend", "failing", "invoke"}
      BY <1>2 DEF HoldCall, Settle, Spend, GoTo, IInv, Typed
    <3> QED
      BY <3>1, <3>2 DEF At
  <2>3. observation + MaxAttempt <= attempt + Reach
    BY <1>0, <2>2 DEF ObservedInv
  <2>4. r \in Written /\ r.obs = 0
    BY DEF Rec, Written
  <2> HIDE DEF r
  <2>5. Reach' = Reach
    BY <2>2 DEF Reach
  <2>6. Records' \subseteq Written /\ \A s \in Records' : s.obs + MaxAttempt <= attempt' + Reach'
    BY <1>0, <2>1, <2>2, <2>3, <2>4, AppendKeepsObserved DEF r
  <2> QED
    BY <1>0, <2>2, <2>3, <2>5, <2>6 DEF ObservedInv
<1>3. ASSUME NEW kind \in {"done", "failed"}, RecordResult(kind) PROVE ObservedInv'
  <2> DEFINE r == Rec(kind, attempt, turn.call, observation)
  <2>1. /\ AppendEvent(r) /\ UNCHANGED <<flight, attempt, session>> /\ observation' = observation + 1
        /\ ~At("down") /\ ~At("ready") /\ At("ready")'
    BY <1>3 DEF RecordResult, Down, At
  <2>2. turn.call \in Call /\ attempt \in Attempt
    BY <1>3 DEF RecordResult, IInv, TurnInv, At
  <2>3. observation + MaxAttempt <= attempt + Reach
    BY <1>0, <2>1 DEF ObservedInv
  <2>4. r \in Written /\ r.obs = observation
    BY <1>0, <2>2 DEF Rec, Written, Kinds
  <2> HIDE DEF r
  <2>5. Reach' = Reach
    BY <2>1 DEF Reach
  <2>6. Records' \subseteq Written /\ \A s \in Records' : s.obs + MaxAttempt <= attempt' + Reach'
    BY <1>0, <2>1, <2>3, <2>4, AppendKeepsObserved
  <2> QED
    BY <1>0, <2>1, <2>3, <2>5, <2>6 DEF ObservedInv
<1>4. ASSUME StartSession PROVE ObservedInv'
  <2>1. /\ session' = session + 1 /\ observation' = NextObservation(kept) /\ attempt' = attempt
        /\ At("ready")' /\ Records' \subseteq Records /\ kept \subseteq Records
    BY <1>4 DEF StartSession, Records, Down, At
  <2>2. Reach' = Reach + MaxAttempt
    BY <1>0, <2>1, ReachIsNat DEF Reach
  <2>3. NextObservation(kept) \in Nat /\ NextObservation(kept) <= attempt + Reach + 1
    <3>1. kept \subseteq Written /\ \A r \in kept : r.obs + MaxAttempt <= attempt + Reach
      BY <2>1 DEF ObservedInv
    <3> QED
      BY <1>0, <3>1, NextObservationBounds
  <2>4. \A r \in Records : r.obs \in Nat /\ r.obs + MaxAttempt <= attempt + Reach
    BY DEF ObservedInv, Written
  <2>5. \A r \in Records' : r.obs + MaxAttempt <= attempt + Reach'
    BY <1>0, <2>1, <2>2, <2>4
  <2> QED
    BY <1>0, <2>1, <2>2, <2>3, <2>5 DEF ObservedInv
<1>5. ASSUME Records' \subseteq Records, UNCHANGED <<attempt, session, observation>>,
             At("down") => At("down")', At("ready")' => At("ready") \/ At("down")',
             At("ready") => At("ready")' \/ At("down")'
      PROVE  ObservedInv'
  BY <1>0, <1>5 DEF ObservedInv, Reach
<1>6. ASSUME Crash PROVE ObservedInv'
  <2>1. Records' \subseteq Records /\ At("down")'
    BY <1>6 DEF Crash, Records, Down, At
  <2> QED
    BY <1>5, <1>6, <2>1 DEF Crash
<1>7. ASSUME NEW f \in flight, Arrive(f) PROVE ObservedInv'
  <2>1. Records' \subseteq Records /\ UNCHANGED <<attempt, session, observation>>
    BY <1>7 DEF Arrive, Records, Steady
  <2>2. turn' = turn \/ (At("waiting") /\ turn' = [turn EXCEPT !.pc = "result"])
    BY <1>7 DEF Arrive
  <2>3. turn' = turn \/ (turn.pc = "waiting" /\ turn'.pc = "result")
    BY <2>2 DEF At, IInv, Typed
  <2> QED
    BY <1>5, <2>1, <2>3 DEF At
<1>8. ASSUME \/ RefuseUnanswerable \/ GiveUp
             \/ (\E h \in Attempt : UseApproval(h))
             \/ (\E a \in {"none", "approved", "rejected"} : Answer(a)) \/ Send
      PROVE  ObservedInv'
  <2>1. UNCHANGED <<attempt, session, observation>>
    BY <1>8 DEF RefuseUnanswerable, GiveUp, UseApproval, Answer, Send, Steady
  <2>2. turn.pc \notin {"down", "ready"} /\ turn'.pc \notin {"down", "ready"}
    BY <1>8 DEF RefuseUnanswerable, GiveUp, UseApproval, Answer, Send, GoTo, At, IInv, Typed
  <2>3. Records' \subseteq Records
    <3>1. CASE Send
      BY <3>1 DEF Send, Records
    <3>2. CASE ~Send
      BY <1>8, <3>2 DEF RefuseUnanswerable, GiveUp, UseApproval, Answer, NoRecord, Records
    <3> QED
      BY <3>1, <3>2
  <2> QED
    BY <1>5, <2>1, <2>2, <2>3 DEF At
<1>9. ASSUME NEW f \in flight, LoseCall(f) PROVE ObservedInv'
  <2>1. Records' \subseteq Records /\ UNCHANGED <<attempt, session, observation, turn>>
    BY <1>9 DEF LoseCall, NoRecord, Records, Steady
  <2> QED
    BY <1>5, <2>1 DEF At
<1>10. ASSUME NEW h \in Attempt, NEW v \in {"approved", "rejected"}, HostDecides(h, v) PROVE ObservedInv'
  <2>1. PICK r \in kept : /\ kept' = kept \cup {Rec(v, h, r.call, 0)}
                          /\ ledger' \subseteq ledger \cup {Rec(v, h, r.call, 0)}
    BY <1>10 DEF HostDecides
  <2> DEFINE d == Rec(v, h, r.call, 0)
  <2>2. UNCHANGED <<tail, flight, attempt, session, observation, turn>>
    BY <1>10 DEF HostDecides, Steady
  <2>3. r \in Written /\ r.obs + MaxAttempt <= attempt + Reach
    BY <2>1 DEF ObservedInv, Records
  <2>4. d \in Written /\ d.obs = 0
    BY <2>3 DEF Rec, Written, Kinds
  <2>5. MaxAttempt <= attempt + Reach
    BY <1>0, <2>3 DEF Written
  <2> HIDE DEF d
  <2>6. Records' \subseteq Records \cup {d}
    BY <2>1, <2>2 DEF Records, d
  <2>7. Reach' = Reach /\ (At("down")' <=> At("down")) /\ (At("ready")' <=> At("ready"))
    BY <2>2 DEF Reach, At
  <2>8. ASSUME NEW s \in Records' PROVE s \in Written /\ s.obs + MaxAttempt <= attempt + Reach
    BY <1>0, <2>4, <2>5, <2>6 DEF ObservedInv
  <2> QED
    BY <2>2, <2>7, <2>8 DEF ObservedInv
<1>11. ASSUME UNCHANGED vars PROVE ObservedInv'
  <2>1. Records' = Records /\ UNCHANGED <<attempt, session, observation, turn>>
    BY <1>11 DEF vars, Records
  <2> QED
    BY <1>5, <2>1 DEF At
<1> QED
  BY <1>1, <1>2, <1>3, <1>4, <1>6, <1>7, <1>8, <1>9, <1>10, <1>11 DEF Next

LEMMA WiderTypeStep ==
  ASSUME IInv, ObservedInv, WiderType, [Next]_vars
  PROVE  WiderType'
<1> DEFINE Carried == [id : Attempt, hold : Attempt \cup {NoHold}, call : Call, brought : SUBSET Written]
           Resumption == [interrupted : SUBSET Attempt, approved : SUBSET Attempt, after : 0..MaxAttempt]
<1>1. ASSUME UNCHANGED <<shared, session, resumed>>, \A f \in flight' : f \in Carried,
             unasked' \subseteq Call, happened' \subseteq Attempt
      PROVE  WiderType'
  BY <1>1 DEF WiderType
<1>2. /\ \A f \in flight : f \in Carried
      /\ unasked \subseteq Call /\ happened \subseteq Attempt
  BY DEF WiderType
<1>3. CASE StartSession
  <2>1. kept \subseteq Written
    BY DEF ObservedInv, Records
  <2>2. Restored(kept) \subseteq kept /\ Approved(kept) \subseteq Attempt
    BY DEF Restored, Results, Interrupted, Approved
  <2>3. {r.id : r \in Restored(kept) \cap Interrupted(kept)} \subseteq Attempt
    BY <2>1, <2>2 DEF Written
  <2>4. resumed' \in Resumption
    BY <1>3, <2>2, <2>3 DEF StartSession, IInv, Typed
  <2>5. session' \in 0..MaxSession
    BY <1>3, BoundAssumption DEF StartSession, WiderType
  <2> QED
    BY <1>2, <1>3, <2>4, <2>5 DEF StartSession, WiderType, world
<1>4. CASE Send
  <2>1. tail \subseteq Written
    BY DEF ObservedInv, Records
  <2>2. attempt \in Attempt /\ turn.call \in Call /\ turn.hold \in Attempt \cup {NoHold}
    BY <1>4 DEF Send, IInv, TurnInv, Typed, At
  <2>3. [id |-> attempt, hold |-> turn.hold, call |-> turn.call, brought |-> tail] \in Carried
    BY <2>1, <2>2
  <2> QED
    BY <1>1, <1>2, <1>4, <2>3 DEF Send, Steady, world
<1>5. CASE \E f \in flight : Arrive(f)
  <2>1. PICK f \in flight : Arrive(f)
    BY <1>5
  <2>2. flight' \subseteq flight /\ unasked' \subseteq unasked \cup {f.call} /\ happened' = happened \cup {f.id}
        /\ UNCHANGED <<shared, session, resumed>>
    BY <2>1 DEF Arrive, Steady
  <2> QED
    BY <1>1, <1>2, <2>2
<1>6. CASE \E f \in flight : LoseCall(f)
  BY <1>1, <1>2, <1>6 DEF LoseCall, Steady, world
<1>7. CASE \/ Crash \/ (\E c \in Call : Request(c)) \/ RefuseUnanswerable \/ GiveUp
           \/ (\E h \in Attempt : UseApproval(h)) \/ HoldCall
           \/ (\E a \in {"none", "approved", "rejected"} : Answer(a)) \/ Settle \/ Spend
           \/ (\E kind \in {"done", "failed"} : RecordResult(kind))
           \/ (\E h \in Attempt, v \in {"approved", "rejected"} : HostDecides(h, v))
           \/ UNCHANGED vars
  <2>1. UNCHANGED <<shared, session, resumed, flight, unasked, happened>>
    BY <1>7 DEF Crash, Request, RefuseUnanswerable, GiveUp, UseApproval, HoldCall, Answer, Settle, Spend,
                RecordResult, HostDecides, Steady, world, vars
  <2> QED
    BY <1>1, <1>2, <2>1
<1> QED
  BY <1>3, <1>4, <1>5, <1>6, <1>7 DEF Next

\* Every variable keeps its type, and however often a run is resumed its observation numbers
\* grow by no more than the attempts and the holds there can be.
THEOREM TypeCorrect == Spec => []TypeOK
<1>1. Init => ObservedInv /\ WiderType
  <2> SUFFICES ASSUME Init PROVE ObservedInv /\ WiderType
    OBVIOUS
  <2>1. Records = {} /\ flight = {} /\ At("down") /\ observation = 1 /\ session = 0
    BY DEF Init, Records, Down, At
  <2>2. Reach \in Nat
    BY <2>1, ReachIsNat
  <2>3. ObservedInv
    BY <2>1, <2>2 DEF ObservedInv
  <2>4. WiderType
    BY <2>1, BoundAssumption DEF Init, WiderType
  <2> QED
    BY <2>3, <2>4
<1>2. IInv /\ (ObservedInv /\ WiderType) /\ [Next]_vars => (ObservedInv /\ WiderType)'
  BY ObservedStep, WiderTypeStep
<1>3. IInv /\ ObservedInv /\ WiderType => TypeOK
  <2> SUFFICES ASSUME IInv, ObservedInv, WiderType PROVE TypeOK
    OBVIOUS
  <2>1. /\ session \in Nat /\ session <= MaxSession /\ MaxAttempt \in Nat /\ MaxSession \in Nat
        /\ attempt \in Nat /\ attempt <= MaxAttempt /\ Reach \in Nat
    BY ReachIsNat, BoundAssumption DEF WiderType, IInv, Typed
  <2>2. Reach <= MaxAttempt * MaxSession /\ MaxAttempt * MaxSession \in Nat
    BY <2>1, SMT DEF Reach
  <2>3. observation \in Observation
    BY <2>1, <2>2 DEF ObservedInv, Observation
  <2>4. ASSUME NEW r \in Records PROVE r \in Record
    <3>1. r \in Written /\ r.obs \in Nat /\ r.obs + MaxAttempt <= attempt + Reach
      BY DEF ObservedInv, Written
    <3>2. r.obs \in Observation
      BY <2>1, <2>2, <3>1 DEF Observation
    <3> QED
      BY <3>1, <3>2 DEF Written, Record
  <2>5. ledger \subseteq Record /\ tail \subseteq Record /\ kept \subseteq Record
        /\ \A f \in flight : f.brought \subseteq Record
    BY <2>4 DEF Records
  <2>6. flight \subseteq Flight
    BY <2>5 DEF WiderType, Flight
  <2> QED
    BY <2>3, <2>5, <2>6 DEF TypeOK, IInv, Typed, WiderType, Points, Answers
<1> QED
  BY <1>1, <1>2, <1>3, LedgerInvariant, PTL DEF Spec

-----------------------------------------------------------------------------
(* The theorems.                                                           *)

\* What a resumed turn is told of an approved call, "it has not run yet", is true.
THEOREM ApprovedUnspent == Spec => []ApprovedUnspentHasNotRun
<1>1. IInv => ApprovedUnspentHasNotRun
  <2> SUFFICES ASSUME IInv, NEW h \in Attempt, ran[h] # <<>>, NEW c \in Call
               PROVE  ~Ready(ledger, h, c) /\ ~Ready(kept, h, c)
    BY DEF ApprovedUnspentHasNotRun
  <2>1. ~Ready(kept, h, c)
    BY DEF IInv, RanInv, Ready
  <2>2. CASE At("down")
    <3>1. ledger = {}
      BY <2>2 DEF IInv, TurnInv
    <3>2. ~Ready(ledger, h, c)
      BY <3>1 DEF Ready, Has
    <3> QED
      BY <2>1, <3>2
  <2>3. CASE ~At("down")
    BY <2>3 DEF IInv, RanInv, Ready
  <2> QED
    BY <2>1, <2>2, <2>3
<1> QED
  BY <1>1, LedgerInvariant, PTL

\* The host has the hold, the approval and its spending for whatever it ran under one.
THEOREM Justified == Spec => []HostCanJustify
<1>1. IInv => HostCanJustify
  BY DEF IInv, RanInv, HostCanJustify
<1> QED
  BY <1>1, LedgerInvariant, PTL

\* The host knows the request of every call that reached it.
THEOREM Known == Spec => []InterruptedIsKnown
<1>1. IInv => InterruptedIsKnown
  BY DEF IInv, RequestInv
<1> QED
  BY <1>1, LedgerInvariant, PTL

\* No hold is both approved and rejected on record.
THEOREM DecidedOnce == Spec => []OneDecisionAHold
<1>1. IInv => OneDecisionAHold
  <2> SUFFICES ASSUME IInv, NEW h \in Attempt
               PROVE  \A S \in {ledger, kept} : ~(Has(S, "approved", h) /\ Has(S, "rejected", h))
    BY DEF OneDecisionAHold
  <2>1. \A r \in ledger \cup kept : r.kind \in {"approved", "rejected"} => verdict[r.id] = r.kind
    BY DEF IInv, RecordsInv, Records, TrueRecord
  <2> QED
    BY <2>1 DEF Has
<1> QED
  BY <1>1, LedgerInvariant, PTL

\* Nobody was asked at first.
LEMMA PromiseInit == Init => Promise!Init
BY DEF Init, Promise!Init

\* The arrival of a call is where it runs.
LEMMA ArriveKeepsPromise ==
  ASSUME IInv, NEW f \in flight, Arrive(f)
  PROVE  Promise!Next
<1>1. UNCHANGED <<asked, verdict>> /\ f.call \in Call /\ f.hold \in Attempt \cup {NoHold}
  BY DEF Arrive, IInv, Typed
<1>2. CASE f.hold = NoHold
  <2>1. unasked' = unasked \cup {f.call} /\ ran' = ran /\ f.call \notin Gated
    BY <1>2 DEF Arrive, IInv, FlightInv
  <2>2. Promise!RunUnasked(f.call)
    BY <1>1, <2>1 DEF Promise!RunUnasked
  <2> QED
    BY <1>1, <2>2 DEF Promise!Next
<1>3. CASE f.hold # NoHold
  <2>1. /\ unasked' = unasked /\ ran' = [ran EXCEPT ![f.hold] = ran[f.hold] \o <<f.call>>]
        /\ f.hold \in Attempt /\ HeldFlight(f)
    BY <1>1, <1>3 DEF Arrive, IInv, FlightInv
  <2>2. ran[f.hold] \o <<f.call>> = <<asked[f.hold]>>
    BY <1>1, <2>1 DEF HeldFlight
  <2>3. Promise!Run(f.hold)
    BY <1>1, <2>1, <2>2 DEF Promise!Run, HeldFlight
  <2> QED
    BY <2>1, <2>3 DEF Promise!Next
<1> QED
  BY <1>2, <1>3

\* Every step is one of the promise's, or changes nothing a person or the host sees.
LEMMA PromiseStep == IInv /\ [Next]_vars => [Promise!Next]_(Promise!vars)
<1> SUFFICES ASSUME IInv, [Next]_vars, ~UNCHANGED <<asked, verdict, ran, unasked>> PROVE Promise!Next
  BY DEF Promise!vars
<1>1. CASE HoldCall
  <2>1. turn.call \in Gated /\ turn.call \in Call /\ attempt \in Attempt /\ asked[attempt] = NoCall
    BY <1>1 DEF HoldCall, IInv, TurnInv, At
  <2>2. Promise!Ask(attempt, turn.call)
    BY <1>1, <2>1 DEF HoldCall, Promise!Ask
  <2> QED
    BY <2>1, <2>2 DEF Promise!Next
<1>2. CASE \E a \in {"none", "approved", "rejected"} : Answer(a)
  <2>1. PICK a \in {"none", "approved", "rejected"} : Answer(a)
    BY <1>2
  <2>2. /\ turn.hold \in Attempt /\ asked[turn.hold] = turn.call /\ turn.call # NoCall
        /\ ran[turn.hold] = <<>> /\ verdict[turn.hold] = "none"
    BY <2>1, CallAssumption DEF Answer, IInv, TurnInv, UseInv, At
  <2>3. a # "none"
    BY <2>1, <2>2 DEF Answer, IInv, Typed
  <2>4. Promise!Say(turn.hold, a)
    BY <2>1, <2>2 DEF Answer, Promise!Say
  <2> QED
    BY <2>2, <2>3, <2>4 DEF Promise!Next
<1>3. CASE \E h \in Attempt, v \in {"approved", "rejected"} : HostDecides(h, v)
  <2>1. PICK h \in Attempt, v \in {"approved", "rejected"} : HostDecides(h, v)
    BY <1>3
  <2>2. asked[h] # NoCall
    BY <2>1 DEF HostDecides, Pending, Has, IInv, RecordsInv, Records, TrueRecord, HoldKinds
  <2>3. ran[h] = <<>>
    BY <2>1 DEF HostDecides, Pending, IInv, RanInv
  <2>4. Promise!Say(h, v)
    BY <2>1, <2>2, <2>3 DEF HostDecides, Promise!Say
  <2> QED
    BY <2>4 DEF Promise!Next
<1>4. CASE \E f \in flight : Arrive(f)
  BY <1>4, ArriveKeepsPromise
<1>5. ASSUME StartSession \/ Crash \/ (\E c \in Call : Request(c)) \/ RefuseUnanswerable \/ GiveUp
             \/ (\E h \in Attempt : UseApproval(h)) \/ Settle \/ Spend \/ Send
             \/ (\E kind \in {"done", "failed"} : RecordResult(kind)) \/ (\E f \in flight : LoseCall(f))
             \/ UNCHANGED vars
      PROVE  UNCHANGED <<asked, verdict, ran, unasked>>
  BY <1>5 DEF StartSession, Crash, Request, RefuseUnanswerable, GiveUp, UseApproval, Settle, Spend, Send,
              RecordResult, LoseCall, vars, world
<1> QED
  BY <1>1, <1>2, <1>3, <1>4, <1>5 DEF Next

\* The turn, its ledger, the host and the person together keep what ApprovalPromise
\* says: a gated call runs only on a yes that was not taken back, once, and it is the
\* call that was shown.
THEOREM Refinement == Spec => KeepsThePromise
BY LedgerInvariant, PromiseInit, PromiseStep, PTL DEF Spec, KeepsThePromise, Promise!Spec
=============================================================================
