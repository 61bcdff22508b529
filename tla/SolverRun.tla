------------------------------ MODULE SolverRun ------------------------------
(***************************************************************************)
(* run_solver (include/teuk/solver_driver.hpp): a run as a sequence of     *)
(* legs.  A leg is one execution of the program: it starts from Gaussian   *)
(* data or from a checkpoint of an earlier leg, evolves a fixed number of  *)
(* steps with a sample of the diagnostics and a checkpoint every so many,  *)
(* and ends with a status; or it is killed.                                *)
(*                                                                         *)
(* The pipeline is taken at the grain of one accepted step, with the rules *)
(* of SourceActivation.  The numerical solution is deterministic: which    *)
(* accepted states meet the constraints, and from which step on the state  *)
(* is no longer finite, is chosen once and is the same for every leg.      *)
(***************************************************************************)
EXTENDS SourceActivation, FiniteSets

CONSTANTS
  Policies,      \* the source policies runs are configured with
  StepLength,    \* time_step, on the time scale of the policies
  Horizon,       \* bound on the steps of a chain of legs (model checking)
  LegSteps,      \* time.steps of a leg
  Schedules,     \* output.diagnostic_interval and output.checkpoint_interval of a
                 \* leg, the latter 0 for none
  Directories,   \* output.directory of a leg
  MaxLegs        \* bound on the legs (model checking)

ASSUME RunAssumption ==
  /\ Policies \subseteq Policy /\ Policies # {}
  /\ StepLength \in Nat \ {0}
  /\ Horizon \in Nat /\ MaxLegs \in Nat
  /\ LegSteps \subseteq Nat \ {0}
  /\ Schedules \subseteq [diagnostic: Nat \ {0}, checkpoint: Nat]
  /\ LegSteps # {} /\ Schedules # {} /\ Directories # {}

VARIABLES
  passing,      \* the accepted times at which the constraints are met
  blowUp,       \* the first step whose state is not finite
  leg,          \* the configuration of the current or last leg
  pc,           \* where run_solver is; "idle" between legs
  status,       \* what the last leg returned: 0, 2, or -1 for nothing
  localStep,    \* the loop counter
  step, time,   \* completed_steps + localStep, and the time
  pipeline,     \* the state, as the substeps it was carried by, and the record
  waveforms,    \* the steps recorded in the waveforms.csv of each directory
  checkpoints,  \* the checkpoints on disk
  legs          \* the legs begun

solution == <<passing, blowUp>>
vars == <<solution, leg, pc, status, localStep, step, time, pipeline,
          waveforms, checkpoints, legs>>

\* The times at which a state can be accepted.
AcceptedTimes ==
  {k * StepLength : k \in 0 .. Horizon} \cup {p.start : p \in Policies}

Leg == [policy: Policies, steps: LegSteps, every: Schedules, directory: Directories]

Gaussian(p) == [activation |-> ResetActivation(p), substeps |-> {}]

Substep(a, from, to) == [from |-> from, to |-> to, forced |-> a.active]

\* SpatialPipeline::step, of a solution that meets the constraints at some times.
Advanced(met, p, standing, t) ==
  LET Consider(a, s) == IF s >= p.start THEN Considered(p, a, s, s \in met) ELSE a
      end    == t + StepLength
      before == Consider(standing.activation, t)
      split  == SplitsAt(p, before, t, end)
      half   == IF split THEN Consider(before, p.start) ELSE before
  IN  [activation |-> Consider(half, end),
       substeps   |-> standing.substeps \cup
         IF split THEN {Substep(before, t, p.start), Substep(half, p.start, end)}
         ELSE {Substep(before, t, end)}]

\* A diagnostic and a checkpoint are due every so many steps of the leg, not of
\* the chain, and after the last one.
SampleDue(k) == k % leg.every.diagnostic = 0 \/ k = leg.steps

DiagnosticStep == SampleDue(localStep)

CheckpointStep ==
  /\ leg.every.checkpoint > 0
  /\ localStep % leg.every.checkpoint = 0 \/ localStep = leg.steps

Init ==
  /\ passing \in SUBSET AcceptedTimes
  /\ blowUp \in 1 .. Horizon + 1
  /\ leg = CHOOSE l \in Leg : TRUE
  /\ pc = "idle" /\ status = -1
  /\ localStep = 0 /\ step = 0 /\ time = 0
  /\ pipeline = Gaussian(leg.policy)
  /\ waveforms = [d \in Directories |-> {}]
  /\ checkpoints = {}
  /\ legs = 0

-----------------------------------------------------------------------------
\* A leg begins: the CSV files are opened and truncated.
Begin(l, standing, from, now) ==
  /\ pc = "idle" /\ legs < MaxLegs
  /\ from + l.steps <= Horizon
  /\ leg' = l
  /\ pipeline' = standing /\ step' = from /\ time' = now
  /\ localStep' = 0
  /\ waveforms' = [waveforms EXCEPT ![l.directory] = {}]
  /\ legs' = legs + 1
  /\ pc' = "sample" /\ status' = -1
  /\ UNCHANGED <<solution, checkpoints>>

StartGaussian(l) == Begin(l, Gaussian(l.policy), 0, 0)

\* Fault: the record is restored without the time it was last considered at.
FaultRestored(c) ==
  [c.pipeline EXCEPT !.activation.last_eligibility_time = Never]

\* What load_pipeline_checkpoint puts into the pipeline.
Restored(c) == c.pipeline

\* Fault: the policy of the checkpoint is not compared.
FaultAccepts(l, c) == ValidHistory(c.pipeline.activation, c.time)

\* The loader's checks on the policy and on the record.  A state that is not
\* finite passes the off-band gate.
Accepts(l, c) ==
  /\ c.policy = l.policy
  /\ ValidHistory(c.pipeline.activation, c.time)

StartFromCheckpoint(l) ==
  \E c \in checkpoints :
    /\ Accepts(l, c)
    /\ Begin(l, Restored(c), c.step, c.time)

\* An exception, or the end.  The disk stays as it is.
End(value) ==
  /\ pc' = "idle"
  /\ status' = value

\* The end of the loop body.
Onward == pc' = IF localStep = leg.steps THEN "finish" ELSE "step"

Step ==
  /\ pc = "step"
  /\ localStep' = localStep + 1
  /\ step' = step + 1
  /\ pipeline' = Advanced(passing, leg.policy, pipeline, time)
  /\ time' = time + StepLength
  /\ pc' = "output"
  /\ UNCHANGED <<solution, leg, status, waveforms, checkpoints, legs>>

\* Fault: samples are taken where a checkpoint is due only.
FaultOutput ==
  /\ pc = "output"
  /\ IF DiagnosticStep /\ CheckpointStep THEN pc' = "sample"
     ELSE IF CheckpointStep THEN pc' = "checkpoint"
     ELSE Onward
  /\ UNCHANGED <<solution, leg, status, localStep, step, time, pipeline,
                 waveforms, checkpoints, legs>>

\* What is due after the step, in the order of the loop body.
Output ==
  /\ pc = "output"
  /\ IF DiagnosticStep THEN pc' = "sample"
     ELSE IF CheckpointStep THEN pc' = "checkpoint"
     ELSE Onward
  /\ UNCHANGED <<solution, leg, status, localStep, step, time, pipeline,
                 waveforms, checkpoints, legs>>

\* sample(): it throws on a state that is not finite, before the waveforms are
\* written, and when the waveforms cannot be flushed.
Sample ==
  /\ pc = "sample"
  /\ \/ /\ step < blowUp
        /\ waveforms' = [waveforms EXCEPT ![leg.directory] = @ \cup {step}]
        /\ IF localStep > 0 /\ CheckpointStep THEN pc' = "checkpoint"
           ELSE IF localStep = 0 THEN pc' = "step"
           ELSE Onward
        /\ UNCHANGED status
     \/ End(2) /\ UNCHANGED waveforms
  /\ UNCHANGED <<solution, leg, localStep, step, time, pipeline,
                 checkpoints, legs>>

Taken(d, s) == \E c \in checkpoints : c.directory = d /\ c.step = s

\* Fault: an existing destination is waited for.
FaultRefusal == UNCHANGED <<pc, status>>

\* write_pipeline_checkpoint throws.
Refusal == End(2)

\* write_pipeline_checkpoint: refused where an earlier leg has left one of the
\* same step.  The state is not examined: it need not be finite.
WriteCheckpoint ==
  /\ pc = "checkpoint"
  /\ IF Taken(leg.directory, step)
     THEN Refusal /\ UNCHANGED checkpoints
     ELSE /\ checkpoints' = checkpoints \cup
               {[directory |-> leg.directory, step |-> step, time |-> time,
                 policy |-> leg.policy, pipeline |-> pipeline, leg |-> legs]}
          /\ Onward
          /\ UNCHANGED status
  /\ UNCHANGED <<solution, leg, localStep, step, time, pipeline, waveforms, legs>>

Finish ==
  /\ pc = "finish"
  /\ End(0)
  /\ UNCHANGED <<solution, leg, localStep, step, time, pipeline,
                 waveforms, checkpoints, legs>>

\* The process is killed.
Kill ==
  /\ pc # "idle"
  /\ End(-1)
  /\ UNCHANGED <<solution, leg, localStep, step, time, pipeline,
                 waveforms, checkpoints, legs>>

Progress == Step \/ Output \/ Sample \/ WriteCheckpoint \/ Finish

Next ==
  \/ \E l \in Leg : StartGaussian(l) \/ StartFromCheckpoint(l)
  \/ Progress
  \/ Kill

Spec == Init /\ [][Next]_vars

\* A program that has been started runs.
FairSpec == Spec /\ WF_vars(Progress)

-----------------------------------------------------------------------------
(* Properties *)

\* The types of the variables; no leg takes more steps than it was given.
TypeOK ==
  /\ leg \in Leg
  /\ pc \in {"idle", "step", "output", "sample", "checkpoint", "finish"}
  /\ status \in {-1, 0, 2}
  /\ localStep \in 0 .. leg.steps
  /\ step \in 0 .. Horizon /\ time \in Nat
  /\ pipeline.activation \in Activation
  /\ \A d \in Directories : waveforms[d] \subseteq 0 .. Horizon
  /\ legs \in 0 .. MaxLegs

\* The run of a policy and a solution that is never interrupted.
Uninterrupted(met, p) ==
  LET run[k \in 0 .. Horizon] ==
        IF k = 0 THEN Gaussian(p)
        ELSE Advanced(met, p, run[k - 1], (k - 1) * StepLength)
  IN  run

\* A run that was stopped, killed and resumed any number of times holds at each
\* step the state and the activation record of the run that never was, and so
\* does each of its checkpoints: no accepted state is counted twice at a
\* restart, none is missed, and the gate closes at the same time.
RestartEquivalence ==
  /\ pipeline = Uninterrupted(passing, leg.policy)[step]
  /\ time = step * StepLength
  /\ \A c \in checkpoints : c.pipeline = Uninterrupted(passing, c.policy)[c.step]

\* A checkpoint of the last leg has beside it, on disk, every sample of that leg
\* that was due by its step: the initial one, those in between at each multiple
\* of the interval, and its own; also if the leg was killed right after.  A leg
\* truncates the waveforms of its directory (the samples of an earlier leg there
\* are gone), so that nothing is said of checkpoints that leg left.
WaveformCoversCheckpoints ==
  LET first == step - localStep
  IN  \A c \in checkpoints : c.leg = legs =>
        \A k \in 0 .. leg.steps :
          SampleDue(k) /\ first + k <= c.step => first + k \in waveforms[c.directory]

\* A leg that returns success ends in a finite state, which was sampled, and in
\* a checkpoint of that state if it was to write any: a run that diverges, at
\* whatever step between two samples, never reports success.
SuccessIsFiniteAndComplete ==
  status = 0 =>
    /\ step < blowUp
    /\ step \in waveforms[leg.directory]
    /\ leg.every.checkpoint > 0 => Taken(leg.directory, step)

\* A leg that has begun ends, also when its directory was used before.
RunEnds == (pc # "idle") ~> (pc = "idle")
=============================================================================
