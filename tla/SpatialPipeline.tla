--------------------------- MODULE SpatialPipeline ---------------------------
(***************************************************************************)
(* SpatialPipeline::step (include/teuk/spatial_pipeline.hpp): how one      *)
(* requested step becomes one or two classical Runge-Kutta substeps of     *)
(* four stages each, and at which states between them the source gate is   *)
(* considered.                                                             *)
(*                                                                         *)
(* The 13 evolved fields are abstracted to what the properties tell apart: *)
(* the time the state has been carried to and the substeps it was carried  *)
(* by, each with whether its right-hand sides were forced.  The verdict of *)
(* the constraint norms is free: the numerical solution decides it.        *)
(*                                                                         *)
(* A caller owns the time, as run_solver does: it begins each step where   *)
(* the last one ended, may probe the gate, put new initial data into the   *)
(* pipeline, capture a checkpoint of it, and restore that checkpoint.      *)
(***************************************************************************)
EXTENDS SourceActivation, FiniteSets, Sequences

CONSTANTS
  Policies,    \* the source policies a pipeline may be constructed with
  TimeSteps,   \* the time steps a caller may ask for
  MaxTime      \* bound on the time reached (model checking)

ASSUME PipelineAssumption ==
  /\ Policies \subseteq Policy
  /\ TimeSteps \subseteq Nat \ {0}
  /\ MaxTime \in Nat

\* The length of last_step_stage_source_states_.
StageCapacity == 8

VARIABLES
  policy,        \* source_policy_, fixed by the constructor
  activation,    \* source_activation_
  sourceActive,  \* source_active_, the device copy of activation.active
  normsAt,       \* the accepted time source_constraint_norms_ was sampled at
  time,          \* the time of storage_.state()
  pc,            \* where step() is
  target,        \* the end of the substep being taken
  stepEnd,       \* end_time
  stageStates,   \* last_step_stage_source_states_, up to its count
  stage,         \* right-hand sides evaluated in this substep
  substeps,      \* history: the substeps behind storage_.state()
  evals,         \* history: the verdicts behind source_activation_
  saved          \* the last checkpoint captured, if any

gate    == <<activation, sourceActive, normsAt, evals>>
control == <<pc, target, stepEnd, stageStates, stage>>
vars    == <<policy, gate, time, control, substeps, saved>>

\* A checkpoint, with the histories that explain it.
Capture == [time |-> time, activation |-> activation,
            substeps |-> substeps, evals |-> evals]

Init ==
  /\ policy \in Policies
  /\ activation = ResetActivation(policy)
  /\ sourceActive = activation.active
  /\ normsAt = Never
  /\ time = 0
  /\ pc = "idle" /\ target = 0 /\ stepEnd = 0
  /\ stageStates = <<>> /\ stage = 0
  /\ substeps = {} /\ evals = {} /\ saved = {}

\* consider_source_activation(execution, t).  source_active_ is refreshed on
\* the branches that latch; the others leave the latch as it was.
Consider(t) ==
  \E passed \in BOOLEAN :
    LET after == Considered(policy, activation, t, passed)
    IN  /\ activation' = after
        /\ sourceActive' = IF after.active /\ ~activation.active
                           THEN TRUE ELSE sourceActive
        /\ IF Measures(policy, activation, t)
           THEN normsAt' = t /\ evals' = evals \cup {[at |-> t, passed |-> passed]}
           ELSE UNCHANGED <<normsAt, evals>>

-----------------------------------------------------------------------------
(* step(time, time_step) *)

\* The argument checks pass and the stage record is cleared.
BeginStep(dt) ==
  /\ pc = "idle"
  /\ time + dt <= MaxTime
  /\ stageStates' = <<>>
  /\ stepEnd' = time + dt
  /\ pc' = "entry"
  /\ UNCHANGED <<policy, gate, time, target, stage, substeps, saved>>

\* The state the step starts from is considered, unless that was done when the
\* last step ended; then the step is split at the causal start or taken whole.
EnterStep ==
  /\ pc = "entry"
  /\ IF ~activation.active /\ time >= policy.start
     THEN Consider(time) ELSE UNCHANGED gate
  /\ target' = IF SplitsAt(policy, activation', time, stepEnd)
               THEN policy.start ELSE stepEnd
  /\ stage' = 0
  /\ pc' = "stages"
  /\ UNCHANGED <<policy, time, stepEnd, stageStates, substeps, saved>>

\* Fault: the last stage asks the clock, not the latch.
FaultRightHandSide ==
  /\ stage' = stage + 1
  /\ stageStates' = Append(stageStates,
       activation.active \/ (stage = 3 /\ target >= policy.start
                                        /\ policy.mode = "Unrestricted"))

\* One evaluation of the right-hand side by device_classical_rk4_step: the
\* latch is recorded, and apply_source_activation forces by it.
RightHandSide ==
  /\ stage' = stage + 1
  /\ stageStates' = Append(stageStates, activation.active)

\* The first three stages leave the state alone.
EarlyStage ==
  /\ pc = "stages" /\ stage < 3
  /\ RightHandSide
  /\ UNCHANGED <<policy, gate, time, pc, target, stepEnd, substeps, saved>>

\* The fourth stage and the accumulation.  The substep counts as forced when
\* every one of its right-hand sides was.
LastStage ==
  /\ pc = "stages" /\ stage = 3
  /\ RightHandSide
  /\ time' = target
  /\ substeps' = substeps \cup
       {[from   |-> time, to |-> target,
         forced |-> \A i \in 0 .. 3 : stageStates'[Len(stageStates') - i]]}
  /\ pc' = IF target = stepEnd THEN "endpoint" ELSE "start"
  /\ UNCHANGED <<policy, gate, target, stepEnd, saved>>

\* The first half of a split step has reached the causal start.
ReachStart ==
  /\ pc = "start"
  /\ Consider(time)
  /\ target' = stepEnd
  /\ stage' = 0
  /\ pc' = "stages"
  /\ UNCHANGED <<policy, time, stepEnd, stageStates, substeps, saved>>

\* The endpoint is considered after the state has been accumulated, so that it
\* bears on the next step only.
EndStep ==
  /\ pc = "endpoint"
  /\ IF ~activation.active /\ stepEnd >= policy.start
     THEN Consider(stepEnd) ELSE UNCHANGED gate
  /\ pc' = "idle"
  /\ UNCHANGED <<policy, time, target, stepEnd, stageStates, stage,
                 substeps, saved>>

-----------------------------------------------------------------------------
(* What else the owner of a pipeline may call between two steps. *)

\* evaluate_source_activation_on_accepted_state at the state it holds.
Probe ==
  /\ pc = "idle"
  /\ Consider(time)
  /\ UNCHANGED <<policy, time, control, substeps, saved>>

\* New initial data, which end in reset_source_activation.
Initialize ==
  /\ pc = "idle"
  /\ activation' = ResetActivation(policy)
  /\ sourceActive' = activation'.active
  /\ normsAt' = Never
  /\ time' = 0 /\ substeps' = {} /\ evals' = {}
  /\ UNCHANGED <<policy, control, saved>>

\* What write_pipeline_checkpoint captures.
Checkpoint ==
  /\ pc = "idle"
  /\ saved' = {Capture}
  /\ UNCHANGED <<policy, gate, time, control, substeps>>

\* load_pipeline_checkpoint after its checks: the state is copied in and
\* restore_source_activation installs the record.  The norms are not restored.
Restore ==
  /\ pc = "idle"
  /\ \E c \in saved :
       /\ ValidHistory(c.activation, c.time)
       /\ activation' = c.activation
       /\ sourceActive' = c.activation.active
       /\ time' = c.time
       /\ substeps' = c.substeps
       /\ evals' = c.evals
  /\ UNCHANGED <<policy, normsAt, control, saved>>

StepAction ==
  \/ \E dt \in TimeSteps : BeginStep(dt)
  \/ EnterStep
  \/ EarlyStage
  \/ LastStage
  \/ ReachStart
  \/ EndStep

Next == StepAction \/ Probe \/ Initialize \/ Checkpoint \/ Restore

Spec == Init /\ [][Next]_vars

-----------------------------------------------------------------------------
(* Properties *)

Substeps == [from: Nat, to: Nat, forced: BOOLEAN]
Evals    == [at: Nat, passed: BOOLEAN]

\* The types of the variables.  The stage record never outgrows the array of
\* eight the code keeps (the throw in advance_fixed_source_step is unreachable),
\* even in a step that is split in two.
TypeOK ==
  /\ policy \in Policies
  /\ activation \in Activation
  /\ sourceActive \in BOOLEAN
  /\ normsAt \in Nat \cup {Never}
  /\ time \in Nat /\ target \in Nat /\ stepEnd \in Nat
  /\ pc \in {"idle", "entry", "stages", "start", "endpoint"}
  /\ stageStates \in Seq(BOOLEAN) /\ Len(stageStates) <= StageCapacity
  /\ stage \in 0 .. 4
  /\ substeps \subseteq Substeps
  /\ evals \subseteq Evals
  /\ saved \subseteq [time: Nat, activation: Activation,
                      substeps: SUBSET Substeps, evals: SUBSET Evals]

\* "All four stages of a given RK4 substep see one fixed latched flag": the
\* flags recorded by a step agree within each group of four, and a later group
\* is never less forced than an earlier one.
StagesSeeOneLatch ==
  \A i, j \in 1 .. Len(stageStates) :
    /\ (i - 1) \div 4 = (j - 1) \div 4 => stageStates[i] = stageStates[j]
    /\ i < j /\ stageStates[i] => stageStates[j]

\* The state was forced over exactly the substeps that began at or after the
\* activation time, through splits, probes, new data and restores: an event at
\* an endpoint contributes nothing to the substep it ends, nothing is forced
\* before the causal start, and nothing after the event is left unforced.
ForcedFromActivationOn ==
  /\ \A s \in substeps :
       /\ s.forced <=> /\ activation.active
                       /\ activation.activation_time <= s.from
       /\ s.forced => policy.start <= s.from
  /\ sourceActive = activation.active

\* The verdicts after the last failed one.
TrailingPasses ==
  {e \in evals : \A f \in evals : f.at >= e.at => f.passed}

\* The states the solution has been accepted at.
AcceptedTimes == {0} \cup {s.to : s \in substeps}

\* The constraint-aware gate has counted accepted states: one verdict for each
\* state accepted from the causal start on until the latch, none twice, none
\* skipped (the initial state waits for the first step or probe); the counter
\* is the length of the unbroken run of passes, and the gate is closed exactly
\* when that run has the required length.
GateCountsAcceptedStates ==
  policy.mode = "ConstraintAware" /\ pc \in {"idle", "stages"} =>
    /\ activation.consecutive_passes = Cardinality(TrailingPasses)
    /\ activation.active <=> Cardinality(TrailingPasses) = policy.required
    /\ substeps # {} =>
         {e.at : e \in evals} =
           {t \in AcceptedTimes :
              /\ policy.start <= t
              /\ activation.active => t <= activation.activation_time}

\* Within a step or a probe the latch only closes: the gate never reopens, and
\* the time at which it closed never changes.
LatchOnlyCloses ==
  [][(StepAction \/ Probe) /\ activation.active =>
       /\ activation'.active
       /\ activation'.activation_time = activation.activation_time]_vars

\* The pipeline implements the latch.
LatchOf(a) == IF a.active THEN a.activation_time ELSE Never

Latch == INSTANCE ActivationLatch WITH
  Open      <- Never,
  start     <- policy.start,
  frontier  <- time,
  latch     <- LatchOf(activation),
  history   <- substeps,
  published <- {[frontier |-> c.time, latch |-> LatchOf(c.activation),
                 history |-> c.substeps] : c \in saved}

\* Every step of the pipeline is a substep, a closing of the latch, a
\* publication, a return, a fresh start, or nothing, as the latch module has it.
ImplementsLatch == Latch!LatchSpec
=============================================================================
