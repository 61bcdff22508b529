----------------------------- MODULE StageGraph -----------------------------
(***************************************************************************)
(* The right-hand side of SpatialPipeline (evaluate_rhs_at_time and the    *)
(* helpers it calls, include/teuk/spatial_pipeline.hpp, full_spatial.hpp,  *)
(* angular_coordinator.hpp, source_tangent_spatial.hpp) as the sequence of *)
(* kernels it launches, each with what it reads and writes.                *)
(*                                                                         *)
(* Device memory is a set of slots: one field of one view.  A slot holds,  *)
(* for every stored mode, the set of inputs its numbers depend on; a mode  *)
(* that is exactly zero depends on nothing.  An input is a field of a mode *)
(* of one generation of the stage, with the number of time derivatives     *)
(* taken of it.  The numbers themselves, the radial line and the angular   *)
(* nodes are left out: each kernel is pointwise or stays within one line   *)
(* or one plane of a mode, except where the table of reads says otherwise. *)
(* Launches that do not read each other's results are one kernel here.     *)
(***************************************************************************)
EXTENDS Integers, Sequences, SequencesExt

CONSTANTS
  Modes,    \* ModeRegistry::modes, the stored signed azimuthal modes
  Parents,  \* ModeRegistry::parents, which carry first-order fields
  Targets   \* ModeRegistry::targets, which carry second-order fields

\* What ModeRegistry and SpatialPipelineStorage accept: nonempty lists of
\* stored modes, closed under the change of sign.
ASSUME RegistryAssumption ==
  /\ Modes \subseteq Int
  /\ Parents # {} /\ Parents \subseteq Modes
  /\ Targets # {} /\ Targets \subseteq Modes
  /\ \A m \in Modes : -m \in Modes

FirstFields  == {"FirstP", "FirstQ", "FirstPsi"}
Daughters    == {"G", "Lambda", "H", "B", "Pi", "C", "U"}
SecondFields == {"SecondP", "SecondQ", "SecondPsi"}
Fields       == FirstFields \cup Daughters \cup SecondFields

\* FirstPsi and the reconstructed fields, which the quadratic source is made of.
SourceFields == Daughters \cup {"FirstPsi"}

StageViews   == {"state", "stage"}
OutputViews  == {"rhs", "k1", "k2", "k3", "k4"}
RadialViews  == {"radial", "tangentRadial"}
AngularViews == {"angular", "tangentAngular"}
Scratches    == {"firstScratch", "tangentScratch", "secondScratch"}

ScratchSlots == {"DrPsi", "EffectiveQ", "DrQ", "PsiVelocity", "DrPsiVelocity"}
AngularSlots == {"Eth1F", "Eth2G", "Eth2C", "Eth2Pi",
                 "EthPrime1BSharp", "EthPrime2CSharp"}
ExtraSlots   == {"Eth1B", "EthPrime1F"}
SourceSlots  == (AngularSlots \ {"Eth1F", "Eth2Pi"}) \cup ExtraSlots \cup
                {"Delta1F", "Delta3U", "Delta2C", "Delta2G", "Delta2CSharp"}

\* The views of the pipeline, each with the slots it has.
Slots ==
  ((StageViews \cup OutputViews \cup {"tangentRhs"}) \X Fields) \cup
  (RadialViews \X Daughters) \cup
  (AngularViews \X AngularSlots) \cup
  (Scratches \X ScratchSlots) \cup
  ({"linearAngular"} \X {"First", "FirstTangent", "Second"}) \cup
  ({"sharpWork"} \X {"B", "C", "BDt", "CDt"}) \cup
  ({"independentAngular"} \X {"EthPrime2G", "EthPrime3H"}) \cup
  ({"independentConstraints"} \X {"Psi3Bianchi", "Psi2Bianchi", "HllReality"}) \cup
  ({"extra", "extraTangent"} \X ExtraSlots) \cup
  ({"sourceFields", "sourceFieldTangents"} \X SourceFields) \cup
  ({"sourceDerivatives", "sourceDerivativeTangents"} \X SourceSlots) \cup
  ({"inner", "innerTangent", "projected", "projectedTangent"} \X {"D", "T"}) \cup
  ({"outer"} \X {"EthPrimeT", "SourceOverR3", "Forcing", "ZeroForcing"})

Input == [generation: Nat, field: Fields, mode: Modes, rate: Nat]

-----------------------------------------------------------------------------
(* Reads and kernels *)

\* A read takes a slot of the modes "at" yields, "rate" derivatives ahead of
\* the quantity the kernel works on.
Read(view, field, at, rate) ==
  [slot |-> <<view, field>>, at |-> at, rate |-> rate]

Own(view, field)  == Read(view, field, [m \in Modes |-> {m}], 0)
Rate(view, field) == Read(view, field, [m \in Modes |-> {m}], 1)

\* X_m^sharp, the conjugate of X_{-m}.
Sharp(view, field) == Read(view, field, [m \in Modes |-> {-m}], 0)

\* Fault: the modes of a pair differ by the target.
FaultPairs(t) == {p \in Parents \X Parents : p[1] - p[2] = t}

\* build_ordered_pairs: the parents that sum to a target.
Pairs(t) == {p \in Parents \X Parents : p[1] + p[2] = t}

\* The four modes of a pair that the inner source reads.
Left(field, rate) ==
  Read(IF rate = 0 THEN "sourceFields" ELSE "sourceFieldTangents", field,
       [m \in Modes |-> {p[1] : p \in Pairs(m)}], rate)
Right(field, rate) ==
  Read(IF rate = 0 THEN "sourceFields" ELSE "sourceFieldTangents", field,
       [m \in Modes |-> {p[2] : p \in Pairs(m)}], rate)
LeftSharp(field, rate) ==
  [Left(field, rate) EXCEPT !.at = [m \in Modes |-> {-p[1] : p \in Pairs(m)}]]
RightSharp(field, rate) ==
  [Right(field, rate) EXCEPT !.at = [m \in Modes |-> {-p[2] : p \in Pairs(m)}]]
RightDerivative(slot, rate) ==
  Read(IF rate = 0 THEN "sourceDerivatives" ELSE "sourceDerivativeTangents",
       slot, [m \in Modes |-> {p[2] : p \in Pairs(m)}], rate)

\* One result of a kernel: the slot it writes, what that is computed from, and
\* how many derivatives the kernel itself takes.
To(view, field, from)     == [slot |-> <<view, field>>, from |-> from, raise |-> 0]
RateTo(view, field, from) == [slot |-> <<view, field>>, from |-> from, raise |-> 1]

\* A kernel runs over every stored mode; modes outside "on" it sets to zero.
Kernel(on, results) == [on |-> on, results |-> results]
Everywhere(results) == Kernel(Modes, results)

\* What a result puts into its slot for mode m.
Result(memory, on, result, m) ==
  IF m \notin on THEN {}
  ELSE UNION {{[i EXCEPT !.rate = @ - r.rate + result.raise] :
                 i \in UNION {memory[r.slot][n] : n \in r.at[m]}} :
              r \in result.from}

\* Memory after a kernel.
After(memory, kernel) ==
  LET written == {r.slot : r \in kernel.results}
  IN  [s \in Slots |->
         IF s \notin written THEN memory[s]
         ELSE [m \in Modes |->
                 UNION {Result(memory, kernel.on, r, m) :
                          r \in {q \in kernel.results : q.slot = s}}]]

\* Memory after kernels launched one behind the other.
Run(memory, kernels) ==
  LET done[n \in 0 .. Len(kernels)] ==
        IF n = 0 THEN memory ELSE After(done[n - 1], kernels[n])
  IN  done[Len(kernels)]

-----------------------------------------------------------------------------
(* SignedModeAngularCoordinator: a mode without resources is zeroed. *)

Project(on, view, fields) ==
  Kernel(on, {To(view, f, {Own(view, f)}) : f \in fields})

Laplacian(on, view, field, slot) ==
  Kernel(on, {To("linearAngular", slot, {Own(view, field)})})

\* eth and ethprime take a field and its time derivative.
Eth(view, field, dt, dtField, out, slot) ==
  To(out, slot, {Own(view, field), Rate(dt, dtField)})

-----------------------------------------------------------------------------
(* evaluate_sbp_teukolsky_full_stage_rhs, then project_teukolsky_rhs. *)

\* The reduction policies take the effective Q from Psi or from Q.
Teukolsky(on, in, out, P, Q, Psi, laplacian, forcing, scratch) ==
  << Everywhere({
       To(scratch, "DrPsi", {Own(in, Psi)}),
       To(scratch, "EffectiveQ", {Own(in, Psi), Own(in, Q)})}),
     Everywhere({
       To(scratch, "DrQ", {Own(scratch, "EffectiveQ")}),
       RateTo(scratch, "PsiVelocity",
              {Own(in, P), Own(scratch, "EffectiveQ"), Own(in, Psi)})}),
     Everywhere({
       To(scratch, "DrPsiVelocity", {Own(scratch, "PsiVelocity")}),
       RateTo(out, P, {Own(in, P), Own(scratch, "EffectiveQ"), Own(in, Psi),
                       Own(scratch, "DrQ"), Own("linearAngular", laplacian),
                       Own("outer", forcing)}),
       RateTo(out, Q, {Rate(scratch, "PsiVelocity"), Own(in, Q),
                       Own(scratch, "DrPsi")}),
       RateTo(out, Psi, {Rate(scratch, "PsiVelocity"), Own(in, Psi)})}),
     Project(on, out, {P, Q, Psi}) >>

FirstOrder(in, out, slot, scratch) ==
  <<Laplacian(Parents, in, "FirstPsi", slot)>> \o
  Teukolsky(Parents, in, out, "FirstP", "FirstQ", "FirstPsi",
            slot, "ZeroForcing", scratch)

SecondOrder(in, out) ==
  <<Laplacian(Targets, in, "SecondPsi", "Second")>> \o
  Teukolsky(Targets, in, out, "SecondP", "SecondQ", "SecondPsi",
            "Second", "Forcing", "secondScratch")

\* zero_disabled_rhs_fields
Freeze(out) == <<Kernel({}, {To(out, f, {}) : f \in Fields \ FirstFields})>>

-----------------------------------------------------------------------------
(* evaluate_reconstruction_chain *)

\* The value, its radial derivative, and the rest of its transport equation.
Transport(in, out, radial, field, rest) ==
  RateTo(out, field, {Own(in, field), Own(radial, field)} \cup rest)

Pass1(in, out, radial, angular) ==
  << Kernel(Parents,
       {Eth(in, "FirstPsi", out, "FirstPsi", angular, "Eth1F")}),
     Everywhere({
       Transport(in, out, radial, "G",
                 {Own(angular, "Eth1F"), Own(in, "FirstPsi")}),
       Transport(in, out, radial, "Lambda", {Own(in, "FirstPsi")})}),
     Project(Parents, out, {"G", "Lambda"}) >>

Pass2(in, out, radial, angular) ==
  << Kernel(Parents, {Eth(in, "G", out, "G", angular, "Eth2G")}),
     Everywhere({
       Transport(in, out, radial, "H", {Own(angular, "Eth2G"), Own(in, "G")}),
       Transport(in, out, radial, "B", {Own(in, "Lambda")}),
       Transport(in, out, radial, "Pi",
                 {Own(in, "G"), Own(in, "Lambda"), Own(in, "B")}),
       Transport(in, out, radial, "C", {Own(in, "Pi"), Own(in, "B")})}),
     Project(Parents, out, {"H", "B", "Pi", "C"}) >>

\* pack_sharp_fields
PackSharp(in, out) ==
  Everywhere({To("sharpWork", "B", {Sharp(in, "B")}),
             To("sharpWork", "C", {Sharp(in, "C")}),
             To("sharpWork", "BDt", {Sharp(out, "B")}),
             To("sharpWork", "CDt", {Sharp(out, "C")})})

\* U reads its own fields and the mirrored ones.
UpdateU(in, out, radial, angular) ==
  Everywhere({Transport(in, out, radial, "U",
    {Own(in, f) : f \in {"H", "C", "Pi"}} \cup
    {Sharp(in, f) : f \in {"Pi", "B", "C"}} \cup
    {Own(angular, s) : s \in AngularSlots \ {"Eth1F", "Eth2G"}})})

\* Fault: the last field is not projected.
FaultPass3(in, out, radial, angular) ==
  << Kernel(Parents, {Eth(in, "C", out, "C", angular, "Eth2C"),
                      Eth(in, "Pi", out, "Pi", angular, "Eth2Pi")}),
     PackSharp(in, out),
     Kernel(Parents,
       {Eth("sharpWork", "B", "sharpWork", "BDt", angular, "EthPrime1BSharp"),
        Eth("sharpWork", "C", "sharpWork", "CDt", angular, "EthPrime2CSharp")}),
     UpdateU(in, out, radial, angular) >>

Pass3(in, out, radial, angular) ==
  << Kernel(Parents, {Eth(in, "C", out, "C", angular, "Eth2C"),
                      Eth(in, "Pi", out, "Pi", angular, "Eth2Pi")}),
     PackSharp(in, out),
     Kernel(Parents,
       {Eth("sharpWork", "B", "sharpWork", "BDt", angular, "EthPrime1BSharp"),
        Eth("sharpWork", "C", "sharpWork", "CDt", angular, "EthPrime2CSharp")}),
     UpdateU(in, out, radial, angular),
     Project(Parents, out, {"U"}) >>

RadialDerivatives(in, radial) ==
  <<Everywhere({To(radial, f, {Own(in, f)}) : f \in Daughters})>>

\* Fault: eth of G is taken before G has its time derivative.
FaultReconstruction(in, out, radial, angular) ==
  RadialDerivatives(in, radial) \o
  Pass2(in, out, radial, angular) \o
  Pass1(in, out, radial, angular) \o
  Pass3(in, out, radial, angular)

Reconstruction(in, out, radial, angular) ==
  RadialDerivatives(in, radial) \o
  Pass1(in, out, radial, angular) \o
  Pass2(in, out, radial, angular) \o
  Pass3(in, out, radial, angular)

\* evaluate_independent_reconstruction_constraints, the terms with the
\* residuals made of them.
Constraints(in, out) ==
  << Kernel(Parents,
       {Eth(in, "G", out, "G", "independentAngular", "EthPrime2G"),
        Eth(in, "H", out, "H", "independentAngular", "EthPrime3H")}),
     Everywhere({
       To("independentConstraints", "Psi3Bianchi",
          {Own(in, "FirstPsi"), Rate(out, "FirstPsi"),
           Own("firstScratch", "DrPsi"), Own(in, "G"), Own(in, "Lambda"),
           Own("independentAngular", "EthPrime2G")}),
       To("independentConstraints", "Psi2Bianchi",
          {Own(in, f) : f \in {"G", "H", "Pi", "B", "C"}} \cup
          {Rate(out, "G"), Own("radial", "G"),
           Own("independentAngular", "EthPrime3H")}),
       To("independentConstraints", "HllReality",
          {Own(in, "U"), Sharp(in, "U")})}) >>

-----------------------------------------------------------------------------
(* The quadratic source *)

\* evaluate_source_angular_derivatives, of the stage and of its rate.
SourceAngular(in, dt, ddt) ==
  << Kernel(Parents,
       {Eth(in, "B", dt, "B", "extra", "Eth1B"),
        Eth(in, "FirstPsi", dt, "FirstPsi", "extra", "EthPrime1F"),
        Eth(dt, "B", ddt, "B", "extraTangent", "Eth1B"),
        Eth(dt, "FirstPsi", ddt, "FirstPsi", "extraTangent", "EthPrime1F")}) >>

\* The fields and derivatives of one order, of a value and its rate.
Delta(in, dt, field, dr) == {Own(in, field), Rate(dt, field), dr}
Prepared(in, dt, scratch, radial, angular, extra, fields, derivatives) ==
  {To(fields, f, {Own(in, f)}) : f \in SourceFields} \cup
  {To(derivatives, s, {Own(angular, s)}) :
     s \in AngularSlots \ {"Eth1F", "Eth2Pi"}} \cup
  {To(derivatives, s, {Own(extra, s)}) : s \in ExtraSlots} \cup
  {To(derivatives, "Delta1F",
      Delta(in, dt, "FirstPsi", Own(scratch, "DrPsi"))),
   To(derivatives, "Delta3U", Delta(in, dt, "U", Own(radial, "U"))),
   To(derivatives, "Delta2C", Delta(in, dt, "C", Own(radial, "C"))),
   To(derivatives, "Delta2G", Delta(in, dt, "G", Own(radial, "G"))),
   To(derivatives, "Delta2CSharp",
      {Sharp(in, "C"), [Sharp(dt, "C") EXCEPT !.rate = 1], Sharp(radial, "C")})}

\* prepare_source_inputs
PrepareInputs(in, dt, ddt) ==
  << Everywhere(Prepared(in, dt, "firstScratch", "radial", "angular", "extra",
                        "sourceFields", "sourceDerivatives") \cup
               Prepared(dt, ddt, "tangentScratch", "tangentRadial",
                        "tangentAngular", "extraTangent",
                        "sourceFieldTangents", "sourceDerivativeTangents")) >>

\* The factors of corrected_ordered_pair_source, at one order.
FactorsOfD(rate) ==
  {Left(f, rate) : f \in {"FirstPsi", "G", "Lambda", "Pi", "B", "C", "U"}} \cup
  {Right(f, rate) : f \in {"FirstPsi", "G", "H", "B", "C"}} \cup
  {RightSharp(f, rate) : f \in {"U", "C"}} \cup
  {RightDerivative(s, rate) :
     s \in SourceSlots \ {"EthPrime1F", "Delta2CSharp", "EthPrime1BSharp"}}
FactorsOfT(rate) ==
  {Left("FirstPsi", rate), Right("FirstPsi", rate)} \cup
  {LeftSharp(f, rate) : f \in {"C", "B"}} \cup
  {RightSharp(f, rate) : f \in {"Pi", "B"}} \cup
  {RightDerivative(s, rate) :
     s \in {"Delta1F", "EthPrime1F", "Delta2CSharp", "EthPrime1BSharp"}}

\* evaluate_spatial_inner_source_tangent: the sums over the pairs of each
\* target, zero elsewhere, and their tangents by the product rule.
InnerSource ==
  << Kernel(Targets,
       {To("inner", "D", FactorsOfD(0)), To("inner", "T", FactorsOfT(0)),
        RateTo("innerTangent", "D", FactorsOfD(0) \cup FactorsOfD(1)),
        RateTo("innerTangent", "T", FactorsOfT(0) \cup FactorsOfT(1))}) >>

\* project_inner_source and evaluate_spatial_outer_source_from_ethprime
OuterSource ==
  LET factors == {Own("projected", "D"), Rate("projectedTangent", "D"),
                  Own("projected", "T"), Own("outer", "EthPrimeT")}
  IN  << Kernel(Targets,
           {To("projected", c, {Own("inner", c)}) : c \in {"D", "T"}} \cup
           {To("projectedTangent", c, {Own("innerTangent", c)}) :
              c \in {"D", "T"}}),
         Kernel(Targets, {Eth("projected", "T", "projectedTangent", "T",
                              "outer", "EthPrimeT")}),
         Everywhere({To("outer", "SourceOverR3", factors),
                    To("outer", "Forcing", factors)}) >>

\* apply_source_activation, with the latch as it was when it was launched.
ApplyActivation(active) ==
  << Kernel(IF active THEN Modes ELSE {},
            {To("outer", "Forcing", {Own("outer", "Forcing")})}) >>

-----------------------------------------------------------------------------
\* evaluate_rhs_at_time: the kernels of one evaluation, in launch order.
Evaluation(in, out, disabled, active) ==
  FirstOrder(in, out, "First", "firstScratch") \o
  IF disabled THEN Freeze(out)
  ELSE Reconstruction(in, out, "radial", "angular") \o
       Constraints(in, out) \o
       FirstOrder(out, "tangentRhs", "FirstTangent", "tangentScratch") \o
       Reconstruction(out, "tangentRhs", "tangentRadial", "tangentAngular") \o
       SourceAngular(in, out, "tangentRhs") \o
       PrepareInputs(in, out, "tangentRhs") \o
       InnerSource \o OuterSource \o ApplyActivation(active) \o
       SecondOrder(in, out)
=============================================================================
