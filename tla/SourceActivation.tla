-------------------------- MODULE SourceActivation --------------------------
(***************************************************************************)
(* The record that decides whether the quadratic second-order source may   *)
(* force the second-order field, and the rules that change it:             *)
(* SourceActivationState (include/teuk/source_activation.hpp) and the      *)
(* methods of SpatialPipeline that own it (include/teuk/spatial_pipeline.  *)
(* hpp).  The module has operators only; SpatialPipeline.tla drives them   *)
(* at the grain of one Runge-Kutta stage, SolverRun.tla at the grain of    *)
(* one accepted step.                                                      *)
(*                                                                         *)
(* Times are natural numbers: every comparison the code makes is between   *)
(* times produced by the same sequence of additions.  The constraint norms *)
(* are abstracted to the one bit the rules read: did the sampled state     *)
(* pass (all_finite and controlling_normalized <= tolerance)?              *)
(*                                                                         *)
(* Operators named Fault... here and in the other modules are not part of  *)
(* the model: each states a plausible mistake in the definition that       *)
(* follows it, and shows which property notices that mistake.              *)
(***************************************************************************)
EXTENDS Integers

SourceModes == {"Disabled", "ConstraintAware", "Unrestricted"}

\* SecondOrderSourcePolicy, restricted to what the SpatialPipeline constructor
\* accepts: a nonnegative start time and at least one required pass.  The
\* tolerance is part of the verdict.
Policy == [mode: SourceModes, start: Nat, required: Nat \ {0}]

\* The value the code stores for "no such time yet".
Never == -1

Activation == [active: BOOLEAN, activation_time: Int,
               consecutive_passes: Nat, last_eligibility_time: Int]

\* A value-initialised SourceActivationState.
Fresh == [active |-> FALSE, activation_time |-> Never,
          consecutive_passes |-> 0, last_eligibility_time |-> Never]

Latched(a, t) == [a EXCEPT !.active = TRUE, !.activation_time = t]

\* reset_source_activation, and the same assignments in the constructor: an
\* unrestricted source that starts at time zero is forced from the first stage.
ResetActivation(p) ==
  IF p.mode = "Unrestricted" /\ p.start = 0
  THEN [Latched(Fresh, 0) EXCEPT !.consecutive_passes = p.required]
  ELSE Fresh

\* Fault: an accepted time is considered again.
FaultEligibleAgain(p, a, t) ==
  /\ ~a.active
  /\ t >= p.start
  /\ t >= a.last_eligibility_time
  /\ p.mode # "Disabled"

\* consider_source_activation goes past its early returns: the gate is still
\* open, the causal start has been reached, and this accepted time has not been
\* considered before.
Eligible(p, a, t) ==
  /\ ~a.active
  /\ t >= p.start
  /\ t > a.last_eligibility_time
  /\ p.mode # "Disabled"

\* The constraint-aware pass counter after a verdict: capped, or back to zero.
PassesAfter(p, a, passed) ==
  IF ~passed THEN 0
  ELSE IF a.consecutive_passes < p.required
       THEN a.consecutive_passes + 1
       ELSE p.required

\* Fault: the gate closes as of the causal start, not as of the state that passed.
FaultDecidedAtStart(p, a, t, passed) ==
  LET passes  == IF p.mode = "Unrestricted"
                 THEN p.required ELSE PassesAfter(p, a, passed)
      counted == [a EXCEPT !.last_eligibility_time = t,
                           !.consecutive_passes = passes]
  IN  IF passes >= p.required THEN Latched(counted, p.start) ELSE counted

\* The record after one eligible consideration at accepted time t.
Decided(p, a, t, passed) ==
  LET passes  == IF p.mode = "Unrestricted"
                 THEN p.required ELSE PassesAfter(p, a, passed)
      counted == [a EXCEPT !.last_eligibility_time = t,
                           !.consecutive_passes = passes]
  IN  IF passes >= p.required THEN Latched(counted, t) ELSE counted

\* consider_source_activation as a whole.
Considered(p, a, t, passed) ==
  IF Eligible(p, a, t) THEN Decided(p, a, t, passed) ELSE a

\* Only the constraint-aware branch measures the constraints.
Measures(p, a, t) == Eligible(p, a, t) /\ p.mode = "ConstraintAware"

\* Fault: a step across the causal start is taken whole.
FaultNeverSplits(p, a, from, to) == FALSE

\* step() stops at the causal start when it lies strictly inside the step and
\* the gate has not latched, whatever the mode.
SplitsAt(p, a, from, to) == ~a.active /\ from < p.start /\ p.start < to

\* SpatialPipeline::validate_source_activation_state, the check a restored
\* record must pass.
ValidActivation(a) ==
  /\ a.consecutive_passes >= 0
  /\ a.last_eligibility_time >= Never
  /\ IF a.active THEN a.activation_time >= 0 ELSE a.activation_time = Never

\* pipeline_checkpoint_detail::validate_source_activation_state: the same, and
\* nothing in the record lies after the checkpoint's own time.
ValidHistory(a, now) ==
  /\ ValidActivation(a)
  /\ a.active => a.activation_time <= now
  /\ a.last_eligibility_time <= now
=============================================================================
