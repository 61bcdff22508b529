---------------------------- MODULE LiveSource ----------------------------
(***************************************************************************)
(* Plus2LiveSourceComposition (include/teuk/plus2_live_source_composition   *)
(* .hpp) with the three producers it drives: of one stage of the primary,    *)
(* handed over as levels of the Route-B tower or as reconstruction and       *)
(* transported curvature, it makes the forcing of the second-order field.    *)
(*                                                                         *)
(* The host looks at generations and at the activation; whether the inputs   *)
(* and the numbers are good is found on the device, by stamps that each       *)
(* producer checks and sets, and ends in one readiness bit, which decides     *)
(* over the forcing.                                                        *)
(***************************************************************************)
EXTENDS SourceGraph, LinearGraph

CONSTANTS
  Generations,   \* generations that callers use
  Heights,       \* levels to which the tower may have been made, -1 for none
  FlawedModes,   \* modes whose inputs can be bad
  Overflows,     \* slots and modes whose numbers can overflow
  MaxStages      \* bound: stages whose inputs are written

\* The slots that kernels compute numbers in, which may overflow, and not only move
\* them; the pairs go into the sums.
Computed ==
  {s \in CurvatureSlots \cup PrimitiveSlots \cup SourceSlots :
     s[1] \notin {"tower", "routeb", "families", "forcing"}}

ASSUME LiveAssumption ==
  /\ Generations \subseteq Nat \ {0} /\ Heights \subseteq -1 .. 4
  /\ FlawedModes \subseteq Modes
  /\ Overflows \subseteq [slot: Computed, mode: Modes]
  /\ MaxStages \in Nat

VARIABLES
  device,   \* memory, stamps and the readiness bit
  last,     \* last_generation_ of the composition and of the two producers that have one
  inputs,   \* history: the stage last handed over: its number, its entry, its
            \* generation, and whether all of it is there
  outcome   \* history: the stage last evaluated

vars == <<device, last, inputs, outcome>>

Views == [routeb     |-> <<"routeb", "curvature", "derivatives">>,
          scientific |-> <<"givenMetric", "givenCurvature", "givenDerivatives">>]

GivenSlots ==
  ({"givenMetric"} \X All("value", ReconstructionFields, 0 .. 2)) \cup
  ({"givenCurvature"} \X CurvatureQuantities) \cup
  ({"givenDerivatives"} \X DerivativeQuantities)
LiveSlots == CurvatureSlots \cup PrimitiveSlots \cup SourceSlots \cup LinearSlots \cup GivenSlots
StampKeys ==
  ({"tower"} \X (0 .. 4)) \cup ({"routeb", "givenMetric"} \X (0 .. 2)) \cup
  ({"curvature", "derivatives", "givenCurvature", "givenDerivatives",
    "primitive", "jk", "q", "projected", "outer"} \X {0})

NoFault == [slot |-> <<>>, mode |-> 0]
Nothing == [id |-> 0, entry |-> "none", generation |-> 0, good |-> FALSE]

Init ==
  /\ device = [mem |-> [s \in LiveSlots |-> Zero],
               stamp |-> [k \in StampKeys |-> [m \in Modes |-> 0]], ready |-> FALSE]
  /\ last = [composition |-> 0, curvature |-> 0, primitive |-> 0]
  /\ inputs = Nothing
  /\ outcome = [id |-> 0, entry |-> "none", active |-> FALSE, whole |-> FALSE, fault |-> NoFault]

-----------------------------------------------------------------------------
(* The callers *)

\* The tower after its construction has come to a height, levels above it being
\* zero and unstamped.
WriteTower(g, height) ==
  /\ inputs.id < MaxStages
  /\ LET id == inputs.id + 1
     IN  /\ device' = [device EXCEPT
              !.mem = [s \in LiveSlots |->
                 IF s[1] # "tower" THEN device.mem[s]
                 ELSE [m \in Modes |-> IF s[2].order > height THEN {}
                                       ELSE {InputOf(s[2].of, id, m, s[2].order)}]],
              !.stamp = [k \in StampKeys |->
                 IF k[1] # "tower" THEN device.stamp[k]
                 ELSE [m \in Modes |-> IF k[2] > height THEN 0 ELSE g]]]
         /\ inputs' = [id |-> id, entry |-> "routeb", generation |-> g, good |-> height = 4]
  /\ UNCHANGED <<last, outcome>>

\* Reconstruction, curvature and derivatives of a stage, of which one mode of one
\* may have an old stamp or a number that is not finite.
Flaws == [kind: {"stamp", "value"}, mode: FlawedModes,
          key: {<<"givenMetric", 2>>, <<"givenCurvature", 0>>, <<"givenDerivatives", 0>>}]
Given(k) == k[1] \in {"givenMetric", "givenCurvature", "givenDerivatives"}
Spoils(flaw, s) ==
  /\ flaw.kind = "value" /\ s[1] = flaw.key[1]
  /\ s[2] \in {Value("C", 2), Value("Z1", 0), Quantity("eth", "Z0", 0)}
WriteGiven(g, flaws) ==
  /\ inputs.id < MaxStages
  /\ LET id == inputs.id + 1
         spoilt(s, m) == \E f \in flaws : f.mode = m /\ Spoils(f, s)
         old(k, m)    == \E f \in flaws : f.kind = "stamp" /\ f.mode = m /\ f.key = k
         field(s)     == IF s[2].op = "value" THEN s[2].of ELSE s[2].op
     IN  /\ device' = [device EXCEPT
              !.mem = [s \in LiveSlots |->
                 IF ~Given(s) THEN device.mem[s]
                 ELSE [m \in Modes |-> IF spoilt(s, m) THEN {NonFinite}
                                       ELSE {InputOf(field(s), id, m, s[2].order)}]],
              !.stamp = [k \in StampKeys |->
                 IF ~Given(k) THEN device.stamp[k]
                 ELSE [m \in Modes |-> IF old(k, m) THEN device.stamp[k][m] ELSE g]]]
         /\ inputs' = [id |-> id, entry |-> "scientific", generation |-> g, good |-> flaws = {}]
  /\ UNCHANGED <<last, outcome>>

-----------------------------------------------------------------------------
(* The composition *)

\* Fault: the stamps of the second time derivative are not packed.
FaultPackLevels(d) ==
  [d EXCEPT
     !.mem = After(@, {To("routeb", q, {Own("tower", q)}) :
                         q \in All("value", ReconstructionFields, 0 .. 2)}),
     !.stamp = [k \in StampKeys |->
        IF k \in {<<"routeb", 0>>, <<"routeb", 1>>} THEN d.stamp[<<"tower", k[2]>>]
        ELSE d.stamp[k]]]

\* PackRouteBTowerLevelsFunctor, with the stamps.
PackLevels(d) ==
  [d EXCEPT
     !.mem = After(@, {To("routeb", q, {Own("tower", q)}) :
                         q \in All("value", ReconstructionFields, 0 .. 2)}),
     !.stamp = [k \in StampKeys |->
        IF k[1] = "routeb" THEN d.stamp[<<"tower", k[2]>>] ELSE d.stamp[k]]]

NoForcing(d) == [d EXCEPT !.mem[<<"forcing", Value("Forcing", 0)>>] = Zero]

\* evaluate_stage behind its contract: an inactive stage has its forcing zeroed and
\* nothing else done.
ForcedStage(d, entry, active, late, g, fault) ==
  LET v == Views[entry]
  IN  IF ~active THEN NoForcing(d)
      ELSE SourceStage(
             PrimitiveStage([d EXCEPT !.mem = LinearStage(@, v[1])], v[1], v[2], v[3], g, fault),
             v[2], v[3], late, g, fault)

\* accepts_generation of the producers an entry drives, and validate_stage, all
\* before anything is launched.
Accepted(entry, g) ==
  /\ g # 0 /\ g > last.primitive /\ g > last.composition
  /\ entry = "routeb" => g > last.curvature

\* evaluate_routeb_stage and the scientific evaluate_stage; the curvature is made
\* of an inactive stage too.  A stage that is not accepted throws and changes
\* nothing.
Evaluate(entry, g, active, late, fault) ==
  /\ Accepted(entry, g)
  /\ LET d == IF entry = "routeb" THEN PackLevels(CurvatureStage(device, g, fault)) ELSE device
     IN  device' = ForcedStage(d, entry, active, late, g, fault)
  /\ last' = [composition |-> g,
              curvature |-> IF entry = "routeb" THEN g ELSE last.curvature,
              primitive |-> IF active THEN g ELSE last.primitive]
  /\ outcome' = [id |-> inputs.id, entry |-> entry, active |-> active,
                 whole |-> inputs.good /\ inputs.generation = g,
                 fault |-> fault]
  /\ UNCHANGED inputs

\* The stage written last is evaluated, of the generation it has or, by mistake,
\* of another; the numbers of a good one may overflow.
EvaluateRouteB ==
  \E g \in Generations, active \in BOOLEAN, late \in {{}, Modes},
     fault \in {NoFault} \cup Overflows :
    /\ inputs.entry = "routeb"
    /\ fault # NoFault => active /\ inputs.good /\ inputs.generation = g
    /\ late # {} => fault.slot \in ({"projected"} \X Sums) \cup ({"outer"} \X OuterQuantities)
    /\ Evaluate("routeb", g, active, late, fault)
EvaluateScientific ==
  \E g \in Generations, active \in BOOLEAN :
    /\ inputs.entry = "scientific"
    /\ Evaluate("scientific", g, active, {}, NoFault)
\* Callers number their stages upwards, as the transport's next_generation does.
Write ==
  \E g \in Generations : 
    /\ g > inputs.generation
    /\ \/ \E height \in Heights : WriteTower(g, height)
       \/ \E flaws \in {{}} \cup {{f} : f \in Flaws} : WriteGiven(g, flaws)

Next == Write \/ EvaluateRouteB \/ EvaluateScientific

Spec == Init /\ [][Next]_vars

-----------------------------------------------------------------------------
(* Properties *)

InputFields == ReconstructionFields \cup {"Z0", "Z1", "delta", "eth", "ethprime"}

\* The types of the variables.
TypeOK ==
  /\ DOMAIN device.mem = LiveSlots /\ DOMAIN device.stamp = StampKeys
  /\ device.ready \in BOOLEAN
  /\ \A s \in LiveSlots, m \in Modes :
       device.mem[s][m] \subseteq
         {NonFinite} \cup [field: InputFields, stage: 1 .. MaxStages, mode: Modes, rate: 0 .. 4]
  /\ \A k \in StampKeys, m \in Modes : device.stamp[k][m] \in Generations \cup {0}
  /\ \A p \in DOMAIN last : last[p] \in Generations \cup {0}

Forcing(m) == device.mem[<<"forcing", Value("Forcing", 0)>>][m]
Closed == /\ \A s \in Exposed : device.mem[s] = Zero
          /\ \A m \in Modes : Forcing(m) = {}

\* The targets that have a forcing are those that parents add up to.
Forced == \A t \in Targets : Forcing(t) # {} <=> Pairs(t) # {}

\* The numbers of the last kernel that the forcing is or is made of.
LastNumbers == {"source"} \X {Value("OverR7", 0), Value("Forcing", 0)}

\* A forcing is there for all such targets or for none.  It is there only for a stage
\* that is active and whose inputs were whole, of one stage and one generation,
\* and no number that overflowed before the last kernel has gone into it; otherwise
\* it is zero, and so is everything the diagnostics show of it.  The last kernel's
\* own numbers nobody checks: one of them that overflows goes out as the forcing of
\* its mode, and it is the only way that one that is not finite does.
ForcingWholeOrZero ==
  /\ outcome.active /\ (~outcome.whole \/ ~device.ready) => Closed
  /\ ~outcome.active => \A m \in Modes : Forcing(m) = {}
  /\ \A m \in Modes : NonFinite \in Forcing(m) =>
       outcome.fault.slot \in LastNumbers /\ outcome.fault.mode = m
  /\ (\E m \in Modes : Forcing(m) # {}) => device.ready /\ Forced

\* The stamps and orders that the producers ask of each other fit together: a
\* stage that is whole and active is forced, whatever was evaluated before.
SoundStageIsForced ==
  outcome.active /\ outcome.whole /\ outcome.fault = NoFault => device.ready /\ Forced

\* What is valid is of the stage that was evaluated last, although all stages, and
\* the three time derivatives within a stage, share their scratch; and a slot for
\* the k-th time derivative holds it.
Outputs ==
  {"primitive", "jk", "q", "projected", "outer", "source", "forcing"} \cup
  IF outcome.entry = "routeb" THEN {"profiles", "curvature", "derivatives"} ELSE {}
OrdersKept ==
  outcome.active =>
    \A s \in LiveSlots, m \in Modes : s[1] \in Outputs =>
      \A i \in device.mem[s][m] \ {NonFinite} : i.stage = outcome.id /\ i.rate = s[2].order

\* The forcing of a target is made of all modes that add up to it with another
\* parent, and of their mirror images, and of no other stored mode.
ModesSelected ==
  \A t \in Targets : Forcing(t) # {} =>
    LET parents == {p \in Parents : t - p \in Parents}
        modes   == {i.mode : i \in Forcing(t) \ {NonFinite}}
    IN  /\ parents \subseteq modes
        /\ modes \subseteq parents \cup {-p : p \in parents}

\* The linear Psi_0 that goes with a forced stage is made of the metric of that
\* stage and of both its time derivatives: of C and B of the mirrored mode, and of
\* U of the mode itself.
LinearPsiIsOfItsStage ==
  outcome.active /\ outcome.whole =>
    \A m \in Modes :
      device.mem[<<"linear", Value("zPlus", 0)>>][m] =
        {InputOf("U", outcome.id, m, k) : k \in 0 .. 2} \cup
        {InputOf(f, outcome.id, -m, k) : f \in {"B", "C"}, k \in 0 .. 2}

\* A generation is used once, and no producer gets ahead of the composition, also
\* where stages are inactive or the two entries alternate: so a producer never
\* refuses a stage that the composition is still to take.
GenerationsInStep ==
  [][last' # last =>
       /\ last'.composition > last.composition
       /\ \A p \in DOMAIN last : last[p] <= last'[p] /\ last'[p] <= last'.composition]_vars
=============================================================================
