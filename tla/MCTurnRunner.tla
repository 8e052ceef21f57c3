---------------------------- MODULE MCTurnRunner ----------------------------
(* Small instances of TurnRunner: levels of a few steps and a few ticks.      *)
EXTENDS TurnRunner

MCSteps == [l \in Levels |-> l + 1]
MCCalls == [l \in Levels |-> l]

\* Unmeasured, level 1 has 3 ticks (2 to work in) and level 2 has 6 (5 to work in).
\* A cheap measured step makes both levels shorter, a dear one makes both longer.
MCDuration ==
  LET unmeasured == <<3, 6>>  cheap == <<1, 2>>  dear == <<4, 7>>
  IN  [l \in Levels |-> [c \in Costs \cup {Unmeasured} |->
        CASE c = Unmeasured -> unmeasured[l] [] c = 1 -> cheap[l] [] OTHER -> dear[l]]]

\* Levels of 2, 3 and 4 ticks (2, 2 and 3 to work in): time for every limit in few ticks.
ShortDuration == [l \in Levels |-> [c \in Costs \cup {Unmeasured} |-> l + 1]]

FromLevel(l, e) ==
  [level |-> l, steps |-> MCSteps[l], calls |-> MCCalls[l], elapsed |-> e,
   source |-> "level", deadline |-> 0, delegated |-> FALSE]

LevelOptions == {FromLevel(1, 3)}
ShortOptions == {FromLevel(1, 2)}

\* A wall the host set itself, one under the caller's deadline, and the child of a
\* turn that has spent a step and a tick (childRunner, delegation.go:52-59).
CallerWall == {[FromLevel(1, 3) EXCEPT !.source = "caller"]}
UnderDeadline == {[FromLevel(1, 3) EXCEPT !.deadline = 4]}
DelegatedTurn == {[FromLevel(1, 2) EXCEPT !.steps = 1, !.delegated = TRUE]}
AllOptions == LevelOptions \cup CallerWall \cup UnderDeadline \cup DelegatedTurn
=============================================================================
