----------------------------- MODULE KernelQueue -----------------------------
(***************************************************************************)
(* SpatialPipeline::step and the diagnostic samples of run_solver as two   *)
(* actors: a host thread that launches kernels on one execution space and  *)
(* does not wait for them, and the device that executes them in launch     *)
(* order (include/teuk/spatial_pipeline.hpp, device_rk4.hpp,               *)
(* solver_driver.hpp).  A kernel carries the host values it was launched   *)
(* with; the host sees device memory only where the code fences.           *)
(*                                                                         *)
(* SpatialPipeline.tla has the same step without the device: there a stage *)
(* is evaluated when it is launched.  Here the host may be a whole step    *)
(* ahead, the right-hand side is the kernel graph of StageGraph.tla, and   *)
(* the four Runge-Kutta stages share its buffers.                          *)
(*                                                                         *)
(* A task of the queue is one evaluation of the right-hand side or one     *)
(* combination of vectors; the host looks at memory only when the queue is *)
(* empty, so that a finer grain would show it nothing more.                *)
(***************************************************************************)
EXTENDS StageGraph, SourceActivation

CONSTANTS
  Policies,    \* the source policies a pipeline may be constructed with
  TimeSteps,   \* the time steps the driver may ask for
  MaxTime      \* bound on the time reached (model checking)

ASSUME QueueAssumption ==
  /\ Policies \subseteq Policy
  /\ TimeSteps \subseteq Nat \ {0}
  /\ MaxTime \in Nat

VARIABLES
  policy,        \* source_policy_
  activation,    \* source_activation_, on the host
  time,          \* the time the host has advanced to
  pc,            \* where the host is
  target,        \* the end of the substep to launch
  stepEnd,       \* end_time
  queue,         \* what has been launched and not executed
  memory,        \* device memory, slot by slot
  sourceActive,  \* source_active_, on the device
  holds,         \* history: the generation each stage view holds
  reached,       \* history: the time of the state in device memory
  stages,        \* history: the stages formed in this substep
  substeps       \* history: the substeps behind the state in device memory

host   == <<policy, activation, time, pc, target, stepEnd>>
device == <<memory, sourceActive, holds, reached, stages, substeps>>
vars   == <<host, queue, device>>

-----------------------------------------------------------------------------
(* What is launched *)

\* evaluate_rhs_at_time, with the mode of the policy and the latch it captures.
Rhs(in, out, active) ==
  [task |-> "rhs", in |-> in, out |-> out, active |-> active]

\* StageFunctor: stage = state + scale * k.
Form(k) == [task |-> "form", k |-> k]

\* AccumulateFunctor: the state takes the four slopes.
Accumulate(to) == [task |-> "accumulate", to |-> to]

\* sync_source_activation
Sync(active) == [task |-> "sync", active |-> active]

\* Fault: the last stage is formed from the second slope.
FaultRungeKutta(active, to) ==
  << Rhs("state", "k1", active), Form("k1"),
     Rhs("stage", "k2", active), Form("k2"),
     Rhs("stage", "k3", active), Form("k2"),
     Rhs("stage", "k4", active), Accumulate(to) >>

\* device_classical_rk4_step
RungeKutta(active, to) ==
  << Rhs("state", "k1", active), Form("k1"),
     Rhs("stage", "k2", active), Form("k2"),
     Rhs("stage", "k3", active), Form("k3"),
     Rhs("stage", "k4", active), Accumulate(to) >>

Launch(tasks) == queue' = queue \o tasks

-----------------------------------------------------------------------------
(* The host *)

\* The initial data: some fields, at the parents or, of second order, at the
\* targets.
Loaded(fields) ==
  [s \in Slots |->
     [m \in Modes |->
        IF /\ s[1] = "state" /\ s[2] \in fields
           /\ m \in IF s[2] \in SecondFields THEN Targets ELSE Parents
        THEN {[generation |-> 0, field |-> s[2], mode |-> m, rate |-> 0]}
        ELSE {}]]

\* The constructor's four evaluations of a zero state leave every slot zero and
\* a fence leaves nothing in the queue; then a pulse of first-order fields, or
\* data for all thirteen, is loaded behind another fence.
Init ==
  /\ policy \in Policies
  /\ activation = ResetActivation(policy)
  /\ time = 0 /\ pc = "idle" /\ target = 0 /\ stepEnd = 0
  /\ queue = <<>>
  /\ \E fields \in {FirstFields, Fields} : memory = Loaded(fields)
  /\ sourceActive = activation.active
  /\ holds = [v \in StageViews |-> 0]
  /\ reached = 0 /\ stages = <<>> /\ substeps = {}

BeginStep(dt) ==
  /\ pc = "idle"
  /\ time + dt <= MaxTime
  /\ stepEnd' = time + dt
  /\ pc' = "entry"
  /\ UNCHANGED <<policy, activation, time, target, queue, device>>

\* Where step() considers the gate, and where it goes from there.
Considers == {"entry", "start", "endpoint"}
Measuring == {"measureEntry", "measureStart", "measureEndpoint"}
MeasureAt ==
  [p \in Considers |-> CASE p = "entry"    -> "measureEntry"
                         [] p = "start"    -> "measureStart"
                         [] p = "endpoint" -> "measureEndpoint"]

\* The constraint-aware branch evaluates the accepted state, and then waits.
Measure ==
  /\ pc \in Considers
  /\ Measures(policy, activation, time)
  /\ Launch(<<Rhs("state", "rhs", activation.active)>>)
  /\ pc' = MeasureAt[pc]
  /\ UNCHANGED <<policy, activation, time, target, stepEnd, device>>

\* consider_source_activation at point "at" of step().  Only the branch that
\* measures waits for the device; its verdict is the solution's.
Consider(at) ==
  /\ \/ pc = at /\ ~Measures(policy, activation, time)
     \/ pc = MeasureAt[at] /\ queue = <<>>
  /\ \E passed \in BOOLEAN :
       activation' = Considered(policy, activation, time, passed)
  /\ Launch(IF activation'.active /\ ~activation.active
            THEN <<Sync(TRUE)>> ELSE <<>>)

EnterStep ==
  /\ Consider("entry")
  /\ target' = IF SplitsAt(policy, activation', time, stepEnd)
               THEN policy.start ELSE stepEnd
  /\ pc' = "advance"
  /\ UNCHANGED <<policy, time, stepEnd, device>>

\* Fault: the substep is launched with the flag the device has by now.
FaultAdvance ==
  /\ pc = "advance"
  /\ Launch(RungeKutta(sourceActive, target))
  /\ time' = target
  /\ pc' = IF target = stepEnd THEN "endpoint" ELSE "start"
  /\ UNCHANGED <<policy, activation, target, stepEnd, device>>

\* advance_fixed_source_step: a whole substep is launched with one latch.
Advance ==
  /\ pc = "advance"
  /\ Launch(RungeKutta(activation.active, target))
  /\ time' = target
  /\ pc' = IF target = stepEnd THEN "endpoint" ELSE "start"
  /\ UNCHANGED <<policy, activation, target, stepEnd, device>>

ReachStart ==
  /\ Consider("start")
  /\ target' = stepEnd
  /\ pc' = "advance"
  /\ UNCHANGED <<policy, time, stepEnd, device>>

EndStep ==
  /\ Consider("endpoint")
  /\ pc' = "idle"
  /\ UNCHANGED <<policy, time, target, stepEnd, device>>

\* Fault: the right-hand side is left as the last step left it.
FaultSample ==
  /\ pc = "idle"
  /\ pc' = "sampling"
  /\ UNCHANGED <<policy, activation, time, target, stepEnd, queue, device>>

\* sample in run_solver: the state is evaluated once more, since a step leaves
\* the buffers of its last stage behind.
Sample ==
  /\ pc = "idle"
  /\ Launch(<<Rhs("state", "rhs", activation.active)>>)
  /\ pc' = "sampling"
  /\ UNCHANGED <<policy, activation, time, target, stepEnd, device>>

\* The fence of the reports has returned.
Report ==
  /\ pc = "sampling" /\ queue = <<>>
  /\ pc' = "idle"
  /\ UNCHANGED <<policy, activation, time, target, stepEnd, queue, device>>

-----------------------------------------------------------------------------
(* The device *)

\* The inputs the fields of a view were computed from.
Inputs(view) == UNION {memory[<<view, f>>][m] : f \in Fields, m \in Modes}
Generations(view) == {i.generation : i \in Inputs(view)}

\* A stage view is filled with sums of what other views hold.  It is a new
\* generation, exactly zero where every term is.
Fill(view, terms) ==
  LET new == holds["state"] + holds["stage"] + 1
  IN  /\ holds' = [holds EXCEPT ![view] = new]
      /\ memory' = [s \in Slots |->
           IF s \notin {view} \X Fields THEN memory[s]
           ELSE [m \in Modes |->
                   IF \A v \in terms : memory[<<v, s[2]>>][m] = {} THEN {}
                   ELSE {[generation |-> new, field |-> s[2],
                          mode |-> m, rate |-> 0]}]]

\* Has a source made of first-order fields entered a slope?
Forced(k) ==
  \E f \in SecondFields, m \in Modes :
    \E i \in memory[<<k, f>>][m] : i.field \notin SecondFields

Slopes == <<"k1", "k2", "k3", "k4">>

ExecuteRhs(t) ==
  /\ t.task = "rhs"
  /\ memory' = Run(memory,
       Evaluation(t.in, t.out, policy.mode = "Disabled", t.active))
  /\ UNCHANGED <<sourceActive, holds, reached, stages, substeps>>

ExecuteForm(t) ==
  /\ t.task = "form"
  /\ Fill("stage", {"state", t.k})
  /\ stages' = Append(stages, [from |-> Generations(t.k),
                               generation |-> holds'["stage"]])
  /\ UNCHANGED <<sourceActive, reached, substeps>>

ExecuteAccumulate(t) ==
  /\ t.task = "accumulate"
  /\ Fill("state", {"state"} \cup Range(Slopes))
  /\ stages' = <<>>
  /\ reached' = t.to
  /\ substeps' = substeps \cup
       {[from |-> reached, to |-> t.to,
         forced |-> {Forced(k) : k \in Range(Slopes)}]}
  /\ UNCHANGED sourceActive

ExecuteSync(t) ==
  /\ t.task = "sync"
  /\ sourceActive' = t.active
  /\ UNCHANGED <<memory, holds, reached, stages, substeps>>

\* The device takes the oldest task.
Execute ==
  /\ queue # <<>>
  /\ queue' = Tail(queue)
  /\ LET t == Head(queue)
     IN  ExecuteRhs(t) \/ ExecuteForm(t) \/ ExecuteAccumulate(t) \/ ExecuteSync(t)
  /\ UNCHANGED host

Host ==
  \/ \E dt \in TimeSteps : BeginStep(dt)
  \/ Measure \/ EnterStep \/ Advance \/ ReachStart \/ EndStep
  \/ Sample \/ Report

Next == Host \/ Execute

Spec == Init /\ [][Next]_vars

-----------------------------------------------------------------------------
(* Properties *)

Tasks ==
  [task: {"rhs"}, in: StageViews, out: OutputViews, active: BOOLEAN] \cup
  [task: {"form"}, k: OutputViews] \cup
  [task: {"accumulate"}, to: Nat] \cup
  [task: {"sync"}, active: BOOLEAN]

\* The types of the variables.
TypeOK ==
  /\ policy \in Policies
  /\ activation \in Activation
  /\ time \in Nat /\ target \in Nat /\ stepEnd \in Nat
  /\ pc \in {"idle", "advance", "sampling"} \cup Considers \cup Measuring
  /\ queue \in Seq(Tasks)
  /\ memory \in [Slots -> [Modes -> SUBSET Input]]
  /\ sourceActive \in BOOLEAN
  /\ holds \in [StageViews -> Nat]
  /\ reached \in Nat
  /\ stages \in Seq([from: SUBSET Nat, generation: Nat])
  /\ substeps \subseteq [from: Nat, to: Nat, forced: SUBSET BOOLEAN]

\* Everything in a slot has this generation and this many derivatives.
IsOf(mem, view, fields, generation, rate) ==
  \A f \in fields, m \in Modes : \A i \in mem[<<view, f>>][m] :
    i.generation = generation /\ i.rate = rate

ExecutesRhs == queue # <<>> /\ queue' = Tail(queue) /\ Head(queue).task = "rhs"

\* "Stage-local construction": when an evaluation has been executed, its time
\* derivatives, the second derivatives the source needed, the constraint
\* residuals and the forcing are all functions of the one stage it was given.
\* Nothing comes from a buffer the previous evaluation left, and no quantity is
\* combined with one that is a time derivative away from it.
EvaluationIsOfItsStage ==
  [][ExecutesRhs =>
       /\ IsOf(memory', Head(queue).out, Fields, holds[Head(queue).in], 1)
       /\ policy.mode # "Disabled" =>
            /\ IsOf(memory', "tangentRhs", FirstFields \cup Daughters,
                    holds[Head(queue).in], 2)
            /\ IsOf(memory', "independentConstraints",
                    {"Psi3Bianchi", "Psi2Bianchi", "HllReality"},
                    holds[Head(queue).in], 0)
            /\ IsOf(memory', "outer", {"SourceOverR3", "Forcing"},
                    holds[Head(queue).in], 0)]_vars

\* The order in which the reconstructed fields are transported.
TransportOrder == <<"G", "Lambda", "H", "B", "Pi", "C", "U">>
UpTo(field) ==
  {TransportOrder[i] : i \in 1 .. CHOOSE n \in 1 .. 7 : TransportOrder[n] = field}

\* The coupling is one-way and keeps the azimuthal modes apart: a first-order
\* slope depends on its own mode of the first-order fields, a reconstructed one
\* on the first-order fields and on those transported before it, of the mode
\* and its mirror image, and a second-order one, besides its own mode, only on
\* first-order fields of two parents that sum to it, or their mirror images.
OneWayCoupling ==
  \A v \in OutputViews, m \in Modes :
    /\ \A f \in FirstFields : \A i \in memory[<<v, f>>][m] :
         i.field \in FirstFields /\ i.mode = m
    /\ \A f \in Daughters : \A i \in memory[<<v, f>>][m] :
         i.field \in FirstFields \cup UpTo(f) /\ i.mode \in {m, -m}
    /\ \A f \in SecondFields : \A i \in memory[<<v, f>>][m] :
         IF i.field \in SecondFields THEN i.mode = m
         ELSE \E m1, m2 \in Parents :
                m1 + m2 = m /\ i.mode \in {m1, -m1, m2, -m2}

\* No evaluation feeds a mode that is not retained: first-order and
\* reconstructed fields stay exactly zero outside the parents, although the
\* transport of U and the sharp fields read mirror images, and second-order
\* fields stay zero outside the targets.
BandsStayClosed ==
  \A v \in StageViews \cup OutputViews, f \in Fields :
    \A m \in Modes \ (IF f \in SecondFields THEN Targets ELSE Parents) :
      memory[<<v, f>>][m] = {}

\* When the state is about to be accumulated, the first slope is that of the
\* state, every other one that of the stage formed from the slope before it,
\* although all stages were written to one buffer and evaluated through the
\* same ones.
ClassicalStages ==
  queue # <<>> /\ Head(queue).task = "accumulate" =>
    /\ Generations("k1") = {holds["state"]}
    /\ Len(stages) = 3
    /\ \A i \in 1 .. 3 :
         /\ stages[i].from = Generations(Slopes[i])
         /\ Generations(Slopes[i + 1]) = {stages[i].generation}

\* What the device has executed is what the host decided, however far ahead
\* the host was: the four slopes behind a substep are forced exactly when the
\* activation time, also one decided since, is not after its beginning.
ForcedAsLatched ==
  \A s \in substeps :
    s.forced = {activation.active /\ activation.activation_time <= s.from}

\* What the reports are made from was computed from the state the device holds.
BuffersAreOfTheState ==
  /\ IsOf(memory, "rhs", Fields, holds["state"], 1)
  /\ IsOf(memory, "independentConstraints",
          {"Psi3Bianchi", "Psi2Bianchi", "HllReality"}, holds["state"], 0)
  /\ IsOf(memory, "radial", Daughters, holds["state"], 0)
  /\ IsOf(memory, "angular", AngularSlots, holds["state"], 0)
  /\ \A m \in Modes :
       memory[<<"outer", "Forcing">>][m] =
         IF activation.active THEN memory[<<"outer", "SourceOverR3">>][m] ELSE {}

\* "evaluate_rhs must have been called for the same state immediately before
\* sampling": whenever the host reads the device, for a verdict or a report,
\* the device has reached the host's time, what is read was computed from the
\* state it holds, and the flag and the forcing agree with the host's latch.
ReadsAreOfTheState ==
  [][pc' # pc /\ pc \in Measuring \cup {"sampling"} =>
       /\ reached = time
       /\ sourceActive = activation.active
       /\ BuffersAreOfTheState]_vars
=============================================================================
