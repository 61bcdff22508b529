---------------------------- MODULE TowerLevels ----------------------------
(***************************************************************************)
(* What a user of the Route-B tower is promised: levels 0 .. 4 of one       *)
(* generation at a time.  A generation begins with level zero, and levels    *)
(* are published one after the other; a level that cannot be made is not     *)
(* published, for any mode, and then no level above it is.  A published      *)
(* level stays as it is until another generation begins.                     *)
(***************************************************************************)
EXTENDS Integers

CONSTANT Generations   \* the generations a stage can have

TopLevel == 4
Levels   == 0 .. TopLevel
None     == -1

VARIABLES
  generation,  \* the generation the levels are of, None before the first
  reached,     \* the level the construction has come to
  published    \* the levels of it that are published

levelVars == <<generation, reached, published>>

LevelsInit == generation = None /\ reached = 0 /\ published = {}

\* initialize: level zero of a generation, if its inputs are good.
BeginGeneration(g) ==
  /\ generation' = g /\ reached' = 0
  /\ published' \in {{}, {0}}

\* advance_one_level: the next level, if the one it is made of is published.
MakeLevel ==
  /\ generation # None /\ reached < TopLevel
  /\ reached' = reached + 1
  /\ \/ reached \in published /\ published' = published \cup {reached + 1}
     \/ published' = published
  /\ UNCHANGED generation

LevelsNext == (\E g \in Generations : BeginGeneration(g)) \/ MakeLevel

LevelsSpec == LevelsInit /\ [][LevelsNext]_levelVars

\* The published levels are the first ones.
PrefixPublished == \E n \in Levels \cup {None} : published = 0 .. n
=============================================================================
