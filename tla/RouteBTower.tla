---------------------------- MODULE RouteBTower ----------------------------
(***************************************************************************)
(* RouteBAngularJetCoordinator (include/teuk/                               *)
(* routeb_angular_jet_coordinator.hpp): initialize takes the primary and    *)
(* the metric reconstruction of a stage as level zero, advance_one_level    *)
(* makes the next time derivative of both.  Nothing waits for the device in  *)
(* between: whether the inputs are good, and whether a kernel's numbers are  *)
(* finite, is found on the device and carried on by stamps.                  *)
(***************************************************************************)
EXTENDS TowerGraph

CONSTANTS
  Supported,   \* generations whose tokens are distinct
  MaxStages    \* bound: stages the tower is initialized for

ASSUME TowerAssumption == Supported \subseteq Nat \ {0} /\ MaxStages \in Nat

VARIABLES
  device,    \* memory and stamps of the towers and of the coordinator
  head,      \* the host's generation_, initialized_ and current_level
  stages,    \* history: stages the tower has been initialized for
  spoiled    \* history: something went wrong in this stage

vars == <<device, head, stages, spoiled>>

Fields  == MasterFields \cup MetricFields
NoFault == [at |-> <<>>, mode |-> 0]

Init ==
  /\ device = Blank(TowerSlots)
  /\ head = [initialized |-> FALSE, generation |-> 0, level |-> 0]
  /\ stages = 0 /\ spoiled = FALSE

\* What goes wrong with the inputs of a stage: nothing, or one mode of one field
\* has another stamp or is not finite.
Flaws == [kind: {"stamp", "value"}, field: {"Q", "C"}, mode: Modes]
InputsOfStage(id, flaws) ==
  [f \in Fields |-> [m \in Modes |->
     IF [kind |-> "value", field |-> f, mode |-> m] \in flaws THEN {NonFinite}
     ELSE {InputOf(f, id, m, 0)}]]
StampsOfStage(g, flaws) ==
  [f \in Fields |-> [m \in Modes |->
     IF [kind |-> "stamp", field |-> f, mode |-> m] \in flaws THEN 0 ELSE g]]

\* A generation whose tokens are not distinct is refused before anything is
\* changed; any other is taken, the one of the stage before included.
Initialize ==
  \E g \in Supported, flaws \in {{}} \cup {{f} : f \in Flaws} :
    /\ stages < MaxStages
    /\ device' = LevelZero(device, InputsOfStage(stages + 1, flaws),
                           StampsOfStage(g, flaws), g)
    /\ head' = [initialized |-> TRUE, generation |-> g, level |-> 0]
    /\ stages' = stages + 1
    /\ spoiled' = (flaws # {})

\* Where the numbers of a level can overflow.
Overflows(l) ==
  [at: {MasterJet("psi", l + 1), <<"angular", "eth">>, MetricJet("G", l + 1),
        MetricJet("C", l + 1), MetricJet("U", l + 1)}, mode: Modes]

AdvanceOneLevel ==
  /\ head.initialized /\ head.level < TopLevel
  /\ \E fault \in {NoFault} \cup Overflows(head.level) :
       /\ fault # NoFault => ~spoiled
       /\ device' = OneLevel(device, head.level, head.generation, fault)
       /\ spoiled' = (spoiled \/ fault # NoFault)
  /\ head' = [head EXCEPT !.level = @ + 1]
  /\ UNCHANGED stages

Next == Initialize \/ AdvanceOneLevel

Spec == Init /\ [][Next]_vars

-----------------------------------------------------------------------------
(* Properties *)

\* The types of the variables.
TypeOK ==
  /\ DOMAIN device.mem = TowerSlots /\ DOMAIN device.stamp = TowerSlots
  /\ \A s \in TowerSlots, m \in Modes :
       /\ device.stamp[s][m].orders \in 0 .. 5
       /\ device.mem[s][m] \subseteq
            Marks \cup [field: Fields, stage: 1 .. MaxStages, mode: Modes, rate: 0 .. TopLevel]
  /\ head \in [initialized: BOOLEAN, generation: Supported \cup {0}, level: Levels]
  /\ stages \in 0 .. MaxStages /\ spoiled \in BOOLEAN

MasterLevel(l) == {MasterJet(f, l) : f \in MasterFields}
MetricLevel(l) == {MetricJet(f, l) : f \in MetricFields}
Whole(slots) ==
  /\ AllBear(device, slots, GenerationToken(head.generation), 1)
  /\ Finite(device, slots)
  /\ \A s \in slots, m \in Modes :
       /\ device.mem[s][m] # {}
       /\ device.mem[s][-m] = {[i EXCEPT !.mode = -@] : i \in device.mem[s][m]}
Empty(slots) ==
  /\ AllBear(device, slots, NoToken, 0)
  /\ \A s \in slots, m \in Modes : device.mem[s][m] = {}

\* A level of a tower is there for all modes and fields, finite and stamped with
\* the generation, and then each mode is made of the same as its mirror image, or
\* it is zero and unstamped for all of them, whatever single mode of a single
\* input or pass was bad.
LevelsWholeOrEmpty ==
  head.initialized =>
    \A l \in Levels : \A level \in {MasterLevel(l), MetricLevel(l)} :
      Whole(level) \/ Empty(level)

\* Level l holds l-th time derivatives, of this stage's inputs and of no other
\* stage's, although the coordinator's buffers are used by all of them; a mode
\* reaches into the mirrored one and no further.
LevelIsItsTimeDerivative ==
  \A l \in Levels : \A s \in MasterLevel(l) \cup MetricLevel(l), m \in Modes :
    \A i \in device.mem[s][m] :
      i.rate = l /\ i.stage = stages /\ i.mode \in {m, -m}

\* No angular operator reads content outside the band: each level, and each
\* field within a level, is projected before the next derivative is taken of it.
AngularReadsInBand ==
  \A s \in TowerSlots, m \in Modes : Aliased \notin device.mem[s][m]

\* The orders and tokens the passes ask of each other fit together: as long as
\* nothing is wrong with the inputs or the numbers, every level up to the fourth
\* is published, none refused for a jet that is too short or a wrong token.
GoodStagesGetThrough ==
  head.initialized /\ ~spoiled =>
    \A l \in 0 .. head.level : Whole(MasterLevel(l)) /\ Whole(MetricLevel(l))

\* The reconstruction implements what its users are promised.
Promise ==
  INSTANCE TowerLevels WITH
    Generations <- Supported,
    generation  <- IF head.initialized THEN head.generation ELSE -1,
    reached     <- head.level,
    published   <- IF head.initialized THEN {l \in Levels : Whole(MetricLevel(l))} ELSE {}
PromiseKept == Promise!LevelsSpec
=============================================================================
