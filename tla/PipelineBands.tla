---------------------------- MODULE PipelineBands ----------------------------
(***************************************************************************)
(* The off-band gate of include/teuk/pipeline_bands.hpp: the measurement   *)
(* of a candidate state, line by line, and the decision on the report that *)
(* import_pipeline_state and the checkpoint loader share.                  *)
(*                                                                         *)
(* A line is one (mode, field, radius) of the state.  It is abstracted to  *)
(* the two sums the code forms over its nodes: the squared norm of the     *)
(* line and of its component outside the retained band.  What matters      *)
(* about a binary64 sum is whether it vanishes, is finite, has overflowed, *)
(* or is not a number.                                                     *)
(***************************************************************************)
EXTENDS Integers, Sequences

CONSTANT Lines      \* the states a gate may be given, as sequences of lines

\* The sums, and the quotients formed of them, as far as the gate tells them
\* apart.  One stands for anything finite that exceeds the tolerance.
Zero == 0
One  == 1
Inf  == 2
NaN  == 3
Sums == {Zero, One, Inf, NaN}

\* A line and its residual: nothing at all, in band, off band, in band with a
\* norm whose square overflows, off band with a residual whose square overflows
\* (or infinite), and not a number.
LineKinds ==
  {[norm |-> Zero, residual |-> Zero], [norm |-> One, residual |-> Zero],
   [norm |-> One,  residual |-> One],  [norm |-> Inf, residual |-> Zero],
   [norm |-> Inf,  residual |-> Inf],  [norm |-> NaN, residual |-> NaN]}

ASSUME BandsAssumption == Lines \subseteq Seq(LineKinds)

\* A line that is not a number lies neither in its band nor off it.
OffBand(line)  == line.residual \notin {Zero, NaN}
Moderate(line) == line.norm \in {Zero, One}

\* sqrt(residual_squared) / max(sqrt(line_squared), smallest normal)
Relative(line) ==
  IF NaN \in {line.norm, line.residual} \/ (line.norm = Inf /\ line.residual = Inf)
  THEN NaN ELSE line.residual

\* a < b, which is false when either is not a number.
Less(a, b) == a # NaN /\ b # NaN /\ a < b

\* Fault: the arguments of std::max change places.
FaultStdMax(a, b) == IF Less(b, a) THEN a ELSE b

\* std::max(a, b)
StdMax(a, b) == IF Less(a, b) THEN b ELSE a

\* pipeline_state_is_bandlimited
IsBandlimited(relative) == relative \notin {Inf, NaN} /\ relative = Zero

-----------------------------------------------------------------------------
VARIABLES
  candidate,  \* the state
  measured,   \* how many of its lines have been measured
  relative,   \* report.combined.relative
  verdict     \* "open", "accepted" or "rejected"

gateVars == <<candidate, measured, relative, verdict>>

GateInit ==
  /\ candidate \in Lines
  /\ measured = 0
  /\ relative = Zero
  /\ verdict = "open"

\* One turn of the measurement loop.  The field's maximum and the maximum over
\* the fields are one: both keep their first argument unless it is less.
MeasureLine ==
  /\ verdict = "open" /\ measured < Len(candidate)
  /\ measured' = measured + 1
  /\ relative' = StdMax(relative, Relative(candidate[measured + 1]))
  /\ UNCHANGED <<candidate, verdict>>

\* The gate: the state is taken over, or the caller is left as it was.
Decide ==
  /\ verdict = "open" /\ measured = Len(candidate)
  /\ verdict' = IF IsBandlimited(relative) THEN "accepted" ELSE "rejected"
  /\ UNCHANGED <<candidate, measured, relative>>

GateNext == MeasureLine \/ Decide

GateSpec == GateInit /\ [][GateNext]_gateVars

-----------------------------------------------------------------------------
\* One off-band line of moderate size is enough to have the state rejected,
\* wherever it stands and whatever the other lines are: neither a large norm
\* elsewhere nor a line that is not a number hides it.
OffBandLineRejected ==
  verdict = "accepted" =>
    \A i \in 1 .. Len(candidate) : Moderate(candidate[i]) => ~OffBand(candidate[i])

\* A state inside its bands is accepted, however large.  (So is one with lines
\* that are not numbers: the gate is no test for them.)
InBandAccepted ==
  verdict = "rejected" => \E i \in 1 .. Len(candidate) : OffBand(candidate[i])

\* "meaningful off-band content ... is rejected" (docs/RUNTIME_CONFIGURATION.md)
\* without the restriction to moderate lines.  The quotient of two overflowed
\* sums is not a number, and std::max passes over it.
AcceptedMeansInBand ==
  verdict = "accepted" => \A i \in 1 .. Len(candidate) : ~OffBand(candidate[i])
=============================================================================
