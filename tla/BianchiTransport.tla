-------------------------- MODULE BianchiTransport --------------------------
(***************************************************************************)
(* Plus2BianchiTransport (include/teuk/plus2_bianchi_transport.hpp) in the  *)
(* three-state Runge-Kutta step that drives it                             *)
(* (device_one_way_bianchi_companion_rk4_step, and                         *)
(* device_one_way_three_state_rk4_step of include/teuk/device_rk4.hpp):    *)
(* the primary, the curvature state Z0, Z1 and the passive companion go     *)
(* through the four stages together.  Every stage has a generation; the     *)
(* producer of the metric inputs stamps what it writes with it, and a stage *)
(* with a wrong stamp or a number that is not finite is turned into zeros.  *)
(*                                                                         *)
(* The primary's right-hand side, the producer and the companion's          *)
(* right-hand side belong to the caller.  Any of them may throw, which      *)
(* leaves the step; the producer may do so with some inputs written, may     *)
(* leave one out, or may write one that is not finite.  The host never      *)
(* reads the device in a step, so that a kernel takes effect at its launch. *)
(***************************************************************************)
EXTENDS BianchiGraph

CONSTANTS
  Boundaries,     \* boundary evidence identifiers
  FaultyFields,   \* the inputs the producer can go wrong at
  MaxGeneration,  \* the largest std::uint64_t
  MaxLives,       \* bound: initialisations and restores of one transport
  MaxFaults,      \* bound: times a caller's function goes wrong
  MaxSerial       \* bound: contents given to state and stage buffers

ASSUME TransportAssumption ==
  /\ FaultyFields \subseteq PrimaryFields
  /\ MaxGeneration \in Nat \ {0}
  /\ MaxLives \in Nat /\ MaxFaults \in Nat /\ MaxSerial \in Nat

VARIABLES
  host,       \* initialized_, stage_available_, the generations, the evidence
  step,       \* the stage a step has come to, 0 outside one, and its capability
  device,     \* the device: memory, the stamps of its views, and ready_
  holds,      \* history: which contents a state or stage buffer has
  serial,     \* history: how many contents there have been
  lives,      \* history: initialisations and restores
  faults,     \* history: times a caller's function went wrong
  leftovers   \* history: inputs of another life or of a failed call may remain

vars == <<host, step, device, holds, serial, lives, faults, leftovers>>

Generations == 0 .. MaxGeneration

\* The three systems of the step, each with its fields.
Systems  == {"primary", "bianchi", "companion"}
FieldsOf == [primary |-> {"Primary"}, bianchi |-> StateFields,
             companion |-> {"Companion"}]
StepFields == UNION {FieldsOf[s] : s \in Systems}

Slopes     == <<"k1", "k2", "k3", "k4">>
StageViews == {"state", "stage"}
Slots == TransportSlots \cup ((StageViews \cup Range(Slopes)) \X StepFields)

\* A view's stamps: one number for each of its slots and modes.
Stamped(fields, generation) == [f \in fields |-> [m \in Modes |-> generation]]

Idle == [stage |-> 0, boundary |-> "none", qualified |-> FALSE]

\* The constructor stamps everything with the generation no stage has; the
\* caller's two states have contents.
Init ==
  /\ host = [initialized |-> FALSE, available |-> FALSE, last |-> 0, next |-> 1,
             boundary |-> "none"]
  /\ step = Idle
  /\ device =
       [memory |-> [s \in Slots |->
          IF s \in {<<"state", "Primary">>, <<"state", "Companion">>}
          THEN [m \in Modes |-> {InputOf(s[2], 0, m, 0)}] ELSE Zero],
        primary     |-> Stamped(PrimaryFields, 0),
        curvature   |-> Stamped(CurvatureFields, 0),
        derivatives |-> Stamped(DerivativeFields, 0),
        ready       |-> FALSE]
  /\ holds = [s \in Systems |-> [v \in StageViews |-> 0]]
  /\ serial = 0 /\ lives = 0 /\ faults = 0 /\ leftovers = FALSE

-----------------------------------------------------------------------------
(* initialize and restore_checkpoint_state *)

NewState(memory, id, bad) ==
  [memory EXCEPT
     ![<<"state", "Z0">>] = [m \in Modes |->
        IF m \in bad THEN {NonFinite} ELSE {InputOf("Z0", id, m, 0)}],
     ![<<"state", "Z1">>] = [m \in Modes |-> {InputOf("Z1", id, m, 0)}]]

\* Fault: the last stage of the life before is still handed out.
FaultReborn(boundary, last) ==
  [initialized |-> TRUE, available |-> host.available, last |-> last,
   next |-> last + 1, boundary |-> boundary]

\* The host's record at the beginning of a life.
Reborn(boundary, last) ==
  [initialized |-> TRUE, available |-> FALSE, last |-> last,
   next |-> last + 1, boundary |-> boundary]

\* A complete contract gives the curvature state its contents; nobody checks
\* here that they are finite.  The stamps of all views stay as they are.
BeginLife(boundary, last, bad) ==
  /\ step = Idle /\ lives < MaxLives /\ serial < MaxSerial
  /\ faults + (IF bad = {} THEN 0 ELSE 1) <= MaxFaults
  /\ host' = Reborn(boundary, last)
  /\ device' = [device EXCEPT !.memory = NewState(@, serial + 1, bad)]
  /\ holds' = [holds EXCEPT !["bianchi"]["state"] = serial + 1]
  /\ serial' = serial + 1 /\ lives' = lives + 1
  /\ faults' = faults + (IF bad = {} THEN 0 ELSE 1)
  /\ leftovers' = (lives > 0)
  /\ UNCHANGED step

Initialize ==
  \E b \in Boundaries : BeginLife(b, 0, {}) \/ \E m \in Modes : BeginLife(b, 0, {m})

\* A checkpoint whose generation is the last there is was refused; its state is
\* finite, the reader has checked that.
Restore ==
  \E b \in Boundaries, last \in Generations \ {MaxGeneration} :
    BeginLife(b, last, {})

-----------------------------------------------------------------------------
(* One stage of the step *)

\* Fault: the second stage is evaluated from the state as well.
FaultInView == IF step.stage < 3 THEN "state" ELSE "stage"

\* The buffer a stage is evaluated from, the first from the state itself, and
\* the one its slope goes to.
InView  == IF step.stage = 1 THEN "state" ELSE "stage"
OutView == Slopes[step.stage]

\* The primary's right-hand side, which sees nothing but the primary.
PrimarySlope(memory) ==
  After(memory, {RateTo(OutView, "Primary", {Own(InView, "Primary")})})

\* validate_stage_contract, of a capability that names its boundary evidence and
\* is complete in everything else; next_generation() throws when there is none.
Accepted(generation) ==
  /\ host.initialized
  /\ step.boundary = host.boundary /\ step.qualified
  /\ generation # 0 /\ generation = host.next

\* The components that are conjugates of the mirrored mode's.
SharpFields == {"CSharp", "CSharpT", "BSharp", "BSharpT"}
Product(f) ==
  [To("primary", f, IF f \in BackgroundFields THEN {}
                    ELSE IF f \in SharpFields THEN {Sharp(InView, "Primary")}
                    ELSE {Own(InView, "Primary")}) EXCEPT !.raise = RateOf[f]]

\* What the producer leaves: its inputs for every mode except those it skips,
\* and those in bad not finite.
Produced(generation, skipped, bad) ==
  LET full == After(PrimarySlope(device.memory), {Product(f) : f \in PrimaryFields})
      memory == [s \in Slots |->
        IF s[1] # "primary" THEN full[s]
        ELSE [m \in Modes |->
                IF <<s[2], m>> \in skipped THEN device.memory[s][m]
                ELSE IF <<s[2], m>> \in bad THEN {NonFinite} ELSE full[s][m]]]
  IN  [device EXCEPT
         !.memory = memory,
         !.primary = [f \in PrimaryFields |-> [m \in Modes |->
            IF <<f, m>> \in skipped THEN @[f][m] ELSE generation]]]

\* Fault: the inputs are checked mode by mode, and one good mode is enough.
FaultEvaluated(given, generation) ==
  LET valid == \E n \in Modes :
        /\ generation # 0
        /\ \A f \in StateFields : NonFinite \notin given.memory[<<InView, f>>][n]
        /\ \A f \in PrimaryFields :
             /\ given.primary[f][n] = generation
             /\ NonFinite \notin given.memory[<<"primary", f>>][n]
      stamp == IF valid THEN generation ELSE 0
  IN  [given EXCEPT
         !.memory      = Run(@, Closure(InView, OutView, valid)),
         !.curvature   = Stamped(CurvatureFields, stamp),
         !.derivatives = Stamped(DerivativeFields, stamp),
         !.ready       = valid]

\* enqueue_stage: the kernels, from what the producer left.
Evaluated(given, generation) ==
  LET valid == StageReady(given.memory, given.primary, InView, generation)
      stamp == IF valid THEN generation ELSE 0
  IN  [given EXCEPT
         !.memory      = Run(@, Closure(InView, OutView, valid)),
         !.curvature   = Stamped(CurvatureFields, stamp),
         !.derivatives = Stamped(DerivativeFields, stamp),
         !.ready       = valid]

\* std::uint64_t addition: the successor of the last generation is 0.
Successor(generation) == (generation + 1) % (MaxGeneration + 1)

\* Fault: the next stage is given the generation of this one.
FaultPassed(generation) ==
  [host EXCEPT !.available = TRUE, !.last = generation, !.next = generation]

\* evaluate_stage takes the stage for one whatever the device found.
Passed(generation) ==
  [host EXCEPT !.available = TRUE, !.last = generation,
               !.next = Successor(generation)]

\* The companion's right-hand side reads its own stage and the primary's and,
\* where the stamps are those of the generation it is given, the curvature and
\* the derivatives of that stage.
RateIn ==
  [f \in CurvatureFields \cup DerivativeFields |->
     CASE f \in {"Z0TT", "Z1TT"} -> 2
       [] f \in {"Z0", "Z1", "Delta4Z1", "EthPrime4Z1", "Delta5Z0", "Eth5Z0"} -> 0
       [] OTHER -> 1]
PassiveReads(given, generation) ==
  {Own(InView, "Companion"), Own(InView, "Primary")} \cup
  IF \A m \in Modes :
       /\ \A f \in CurvatureFields : given.curvature[f][m] = generation
       /\ \A f \in DerivativeFields : given.derivatives[f][m] = generation
  THEN {[Own("curvature", f) EXCEPT !.rate = RateIn[f]] : f \in CurvatureFields} \cup
       {[Own("derivatives", f) EXCEPT !.rate = RateIn[f]] : f \in DerivativeFields}
  ELSE {}
PassiveSlope(given, generation) ==
  [given EXCEPT !.memory =
     After(@, {RateTo(OutView, "Companion", PassiveReads(given, generation))})]

\* New contents for the buffers of all systems: zero where every term is zero,
\* not finite where one is not.
Filled(memory, view, terms, id) ==
  LET Terms(f, m) == UNION {memory[<<v, f>>][m] : v \in terms}
  IN  [s \in Slots |->
         IF s \notin {view} \X StepFields THEN memory[s]
         ELSE [m \in Modes |->
                 {IF i = NonFinite THEN i ELSE InputOf(s[2], id, m, 0) :
                    i \in Terms(s[2], m)}]]

\* StageFunctor and AccumulateFunctor: what the next stage, or after the fourth
\* the state, is a sum of.
Terms(stage) == IF stage < 4 THEN {"state", Slopes[stage]}
                ELSE {"state"} \cup Range(Slopes)

\* After the three right-hand sides of a stage: the next stage of all systems
\* or, after the fourth, all states.
Advance(dev) ==
  LET view == IF step.stage < 4 THEN "stage" ELSE "state"
  IN  /\ device' = [dev EXCEPT
           !.memory = Filled(@, view, Terms(step.stage), serial + 1)]
      /\ holds' = [s \in Systems |-> [holds[s] EXCEPT ![view] = serial + 1]]
      /\ serial' = serial + 1
      /\ step' = IF step.stage < 4 THEN [step EXCEPT !.stage = @ + 1] ELSE Idle

-----------------------------------------------------------------------------
(* The step *)

BeginStep ==
  /\ step = Idle /\ host.initialized
  /\ serial + 4 <= MaxSerial
  /\ \E b \in Boundaries, q \in BOOLEAN :
       step' = [stage |-> 1, boundary |-> b, qualified |-> q]
  /\ UNCHANGED <<host, device, holds, serial, lives, faults, leftovers>>

InStep == step.stage > 0

\* The stage is refused: the exception leaves the step.
Refuse ==
  /\ InStep /\ ~Accepted(host.next)
  /\ device' = [device EXCEPT !.memory = PrimarySlope(@)]
  /\ step' = Idle
  /\ UNCHANGED <<host, holds, serial, lives, faults, leftovers>>

Inputs == PrimaryFields \X Modes
FaultyInputs == FaultyFields \X Modes

\* The producer throws, having written nothing, or all but one input.  The
\* generation is not used up: the next attempt has it again.
ProducerThrows ==
  /\ InStep /\ Accepted(host.next) /\ faults < MaxFaults
  /\ \E skipped \in {Inputs} \cup {{i} : i \in FaultyInputs} :
       device' = Produced(host.next, skipped, {})
  /\ step' = Idle
  /\ faults' = faults + 1 /\ leftovers' = TRUE
  /\ UNCHANGED <<host, holds, serial, lives>>

\* The companion's right-hand side throws; the stage was evaluated.
PassiveThrows ==
  /\ InStep /\ Accepted(host.next) /\ faults < MaxFaults
  /\ device' = Evaluated(Produced(host.next, {}, {}), host.next)
  /\ host' = Passed(host.next)
  /\ step' = Idle
  /\ faults' = faults + 1
  /\ UNCHANGED <<holds, serial, lives, leftovers>>

\* A stage passes, with one input skipped or not finite at most.
Pass(skipped, bad) ==
  /\ InStep /\ Accepted(host.next)
  /\ faults' = faults + (IF skipped \cup bad = {} THEN 0 ELSE 1)
  /\ faults' <= MaxFaults
  /\ Advance(PassiveSlope(Evaluated(Produced(host.next, skipped, bad), host.next),
                          host.next))
  /\ host' = Passed(host.next)
  /\ UNCHANGED <<lives, leftovers>>

Stage ==
  \/ Pass({}, {})
  \/ \E i \in FaultyInputs : Pass({i}, {}) \/ Pass({}, {i})

Next ==
  \/ Initialize \/ Restore
  \/ BeginStep \/ Refuse \/ ProducerThrows \/ PassiveThrows \/ Stage

Spec == Init /\ [][Next]_vars

-----------------------------------------------------------------------------
(* Properties *)

StampsOf(fields) == [fields -> [Modes -> Generations]]

\* The types of the variables.
TypeOK ==
  /\ host \in [initialized: BOOLEAN, available: BOOLEAN, last: Generations,
               next: Generations, boundary: Boundaries \cup {"none"}]
  /\ step \in [stage: 0 .. 4, boundary: Boundaries \cup {"none"}, qualified: BOOLEAN]
  /\ device.memory \in
       [Slots -> [Modes -> SUBSET [field: StepFields \cup {"NonFinite"},
                                   stage: 0 .. MaxSerial, mode: Int, rate: Int]]]
  /\ device.primary \in StampsOf(PrimaryFields)
  /\ device.curvature \in StampsOf(CurvatureFields)
  /\ device.derivatives \in StampsOf(DerivativeFields)
  /\ device.ready \in BOOLEAN
  /\ holds \in [Systems -> [StageViews -> 0 .. MaxSerial]]
  /\ serial \in 0 .. MaxSerial
  /\ lives \in 0 .. MaxLives /\ faults \in 0 .. MaxFaults
  /\ leftovers \in BOOLEAN

\* A stage is evaluated: all its kernels are launched, and then the next stage or
\* state is filled, unless the companion's right-hand side throws.
Evaluates == InStep /\ (serial' # serial \/ PassiveThrows)

\* The derivatives of what a view holds, from the contents of the three systems.
Of(mem, view, field, rate, z, h) ==
  \A m \in Modes : \A i \in mem[<<view, field>>][m] :
    /\ i.rate = rate
    /\ IF i.field = "Primary" THEN i.stage \in h /\ i.mode \in {m, -m}
       ELSE i.field \in StateFields /\ i.stage = z /\ i.mode = m

RateOfConstraint ==
  [f \in ConstraintFields |-> IF f \in {"Delta4Z1", "Delta5Z0"} THEN 0 ELSE 1]

\* "This order is triangular": in the stage that was evaluated the curvature,
\* its two time derivatives, the derivatives for the source, the residuals and
\* the slopes are functions of that stage of the curvature state and of its
\* metric inputs, each with as many time derivatives as its name says, and no
\* scratch of an earlier stage goes in.  The metric inputs are those of the
\* same stage of the primary unless the stamps could not tell.
ClosureIsOfItsStage ==
  [][Evaluates =>
       LET z == holds["bianchi"][InView]
           h == IF leftovers THEN 0 .. serial ELSE {holds["primary"][InView]}
           mem == device'.memory
       IN  /\ \A f \in CurvatureFields : Of(mem, "curvature", f, RateIn[f], z, h)
           /\ \A f \in DerivativeFields : Of(mem, "derivatives", f, RateIn[f], z, h)
           /\ \A f \in ConstraintFields :
                Of(mem, "constraints", f, RateOfConstraint[f], z, h)
           /\ \A f \in StateFields : Of(mem, OutView, f, 1, z, h)]_vars

\* "One missing stamp or nonfinite value invalidates the whole stage": what the
\* last stage left, over all modes, either has its generation everywhere and is
\* finite, or has no generation anywhere and is zero; nothing of an earlier
\* stage is handed out, and a life hands out none of the life before.
WholeStageOrNone ==
  host.available =>
    LET outputs == (CurvatureFields \X {"curvature"}) \cup
                   (DerivativeFields \X {"derivatives"})
        Stamps(o) == IF o[2] = "curvature" THEN device.curvature[o[1]]
                     ELSE device.derivatives[o[1]]
        Held(o, m) == device.memory[<<o[2], o[1]>>][m]
    IN  \/ \A o \in outputs, m \in Modes :
             Stamps(o)[m] = host.last /\ NonFinite \notin Held(o, m)
        \/ /\ \A o \in outputs, m \in Modes : Stamps(o)[m] = 0 /\ Held(o, m) = {}
           /\ InputsOf(device.memory, "constraints", ConstraintFields) = {}

\* The stages of what the fields of a system in a view came from.
From(mem, view, system) ==
  {i.stage : i \in {j \in InputsOf(mem, view, StepFields) : j.field \in FieldsOf[system]}}

\* The fourth stage passes, and the states of all systems are accumulated.
Accumulates == InStep /\ step.stage = 4 /\ serial' # serial

\* "All three RHS calls at a stage see the identical ... stage views", and no
\* state is accumulated before all three have their fourth slope: outside an
\* accumulation and the beginning of a life the states keep their contents, a
\* step that an exception leaves included; and of the four slopes every one is
\* made of its own stage, of the common contents of all systems upstream of it.
\* (Metric inputs of the primary's may be older where the stamps cannot tell.)
CommonStages ==
  [][/\ lives' = lives /\ ~Accumulates =>
          \A f \in StepFields : device'.memory[<<"state", f>>] = device.memory[<<"state", f>>]
     /\ Accumulates =>
          \A i \in 1 .. 4, s \in Systems :
            LET now  == IF i = 1 THEN holds[s]["state"] ELSE serial - (4 - i)
                from == From(device'.memory, Slopes[i], s)
            IN  /\ s # "bianchi" => now \in from
                /\ from \subseteq {now} \/ (s = "primary" /\ leftovers)]_vars

\* "Strictly increasing generation": each stage that is evaluated, in a step that
\* is completed or left by an exception, has a generation above that of the stage
\* before it; in a life the generation never goes back, so that no two stages of
\* one share it, and after the last generation there is no further stage.
GenerationsIncrease ==
  [][/\ lives' = lives => host'.last >= host.last
     /\ Evaluates => host'.last > host.last]_vars

\* "... rather than reusing an earlier stage": all metric inputs of a ready
\* stage were written for this very stage.
InputsAreOfThisStage ==
  [][Evaluates /\ device'.ready =>
       \A f \in PrimaryFields, m \in Modes :
         \A i \in device'.memory[<<"primary", f>>][m] :
           i.stage = holds["primary"][InView]]_vars
=============================================================================
