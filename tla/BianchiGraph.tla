---------------------------- MODULE BianchiGraph ----------------------------
(***************************************************************************)
(* The kernels of Plus2BianchiTransport::enqueue_stage                     *)
(* (include/teuk/plus2_bianchi_transport.hpp): the triangular closure that  *)
(* takes the curvature state Z0, Z1 and the first-order metric inputs       *)
(* h[0..2] of one stage to the right-hand side, the two time derivatives of *)
(* the curvature, and the derivatives the source needs.                     *)
(***************************************************************************)
EXTENDS KernelGraph

StateFields     == {"Z0", "Z1"}
PrimaryFields   == {"H", "HT", "HTT", "CSharp", "CSharpT", "BSharp", "BSharpT",
                    "Ta", "TaT", "Sig", "SigT", "Delta3Psi20", "EthPrime3Psi20"}
CurvatureFields == {"Z0", "Z1", "Z0T", "Z1T", "Z0TT", "Z1TT"}
DerivativeFields == {"Delta4Z1", "Delta4Z1T", "EthPrime4Z1", "EthPrime4Z1T",
                     "Delta5Z0", "Delta5Z0T", "Eth5Z0", "Eth5Z0T"}
ConstraintFields == {"Delta4Z1", "Delta5Z0", "Delta4Z1T", "Delta5Z0T"}
BianchiScratch   == {"DrZ0", "DrZ1", "DrZ0T", "DrZ1T", "Eth3H", "Eth3HT",
                     "Eth4Z1", "Eth4Z1T", "EthPrime4Z1", "EthPrime4Z1T",
                     "Eth5Z0", "Eth5Z0T", "F0", "F1", "F0T", "F1T"}

\* The time derivatives a component is ahead of the stage it belongs to; the
\* two components made of the stationary background have none.
RateOf ==
  [f \in PrimaryFields |->
     CASE f \in {"HT", "CSharpT", "BSharpT", "TaT", "SigT"} -> 1
       [] f = "HTT" -> 2
       [] OTHER -> 0]
BackgroundFields == {"Delta3Psi20", "EthPrime3Psi20"}

\* The views of the transport, without those of the Runge-Kutta step.
TransportSlots ==
  ({"primary"} \X PrimaryFields) \cup ({"curvature"} \X CurvatureFields) \cup
  ({"derivatives"} \X DerivativeFields) \cup
  ({"constraints"} \X ConstraintFields) \cup ({"scratch"} \X BianchiScratch)

\* ValidateInputsFunctor: one bad point of one mode makes the stage invalid.
StageReady(memory, stamps, in, generation) ==
  /\ generation # 0
  /\ \A m \in Modes :
       /\ \A f \in StateFields : NonFinite \notin memory[<<in, f>>][m]
       /\ \A f \in PrimaryFields :
            /\ stamps[f][m] = generation
            /\ NonFinite \notin memory[<<"primary", f>>][m]

StateRadialDerivatives(in) ==
  {To("scratch", "DrZ0", {Own(in, "Z0")}), To("scratch", "DrZ1", {Own(in, "Z1")})}

TangentRadialDerivatives ==
  {To("scratch", "DrZ0T", {Own("curvature", "Z0T")}),
   To("scratch", "DrZ1T", {Own("curvature", "Z1T")})}

\* What (B1) makes Delta_4 Z1 of: the curvature, the metric, eth_3 H and the
\* background.
FactorsOfF1(Z1Reads) ==
  Z1Reads \cup {Own("primary", f) : f \in {"H", "CSharp", "BSharp", "Ta"}} \cup
  {Own("primary", f) : f \in BackgroundFields} \cup {Own("scratch", "Eth3H")}

\* ComputeZ1TFunctor: F1 from (B1), then Delta_n solved for Z1_T.
ComputeZ1T(in, out) ==
  LET F1  == FactorsOfF1({Own(in, "Z1")})
      Z1T == F1 \cup {Own(in, "Z1"), Own("scratch", "DrZ1")}
  IN  {To("curvature", "Z0", {Own(in, "Z0")}), To("curvature", "Z1", {Own(in, "Z1")}),
       To("scratch", "F1", F1),
       RateTo("curvature", "Z1T", Z1T), RateTo(out, "Z1", Z1T)}

\* ComputeZ0TFunctor: F0 from (B0), then Delta_n solved for Z0_T.
ComputeZ0T(out) ==
  LET F0  == {Own("curvature", "Z0"), Own("curvature", "Z1"),
              Own("primary", "Sig"), Own("scratch", "Eth4Z1")}
      Z0T == F0 \cup {Own("scratch", "DrZ0")}
  IN  {To("scratch", "F0", F0),
       RateTo("curvature", "Z0T", Z0T), RateTo(out, "Z0", Z0T)}

\* ComputeSecondTangentsFunctor: the tangent of (B1).
ComputeSecondTangents ==
  LET F1T == Jet("curvature", "Z1", "Z1T") \cup Jet("primary", "H", "HT") \cup
             Jet("primary", "CSharp", "CSharpT") \cup
             Jet("primary", "BSharp", "BSharpT") \cup Jet("primary", "Ta", "TaT") \cup
             Jet("scratch", "Eth3H", "Eth3HT") \cup
             {Own("primary", f) : f \in BackgroundFields}
      \* one derivative behind the second tangent that is solved for
      Z1T == {Dt("curvature", "Z1T"), Dt("scratch", "DrZ1T")}
  IN  {RateTo("scratch", "F1T", F1T),
       [RateTo("curvature", "Z1TT", F1T \cup Z1T) EXCEPT !.raise = 2]}

\* ComputeZ0TTAndConstraintsFunctor: the tangent of (B0), and what is left of
\* Delta_n of the solved derivatives minus the F they were solved from.
ComputeZ0TTAndConstraints ==
  LET F0T == Jet("curvature", "Z0", "Z0T") \cup Jet("curvature", "Z1", "Z1T") \cup
             Jet("primary", "Sig", "SigT") \cup Jet("scratch", "Eth4Z1", "Eth4Z1T")
      Z0T == {Dt("curvature", "Z0T"), Dt("scratch", "DrZ0T")}
  IN  {RateTo("scratch", "F0T", F0T),
       [RateTo("curvature", "Z0TT", F0T \cup Z0T) EXCEPT !.raise = 2],
       To("constraints", "Delta4Z1",
          Jet("curvature", "Z1", "Z1T") \cup {Own("scratch", "DrZ1"), Own("scratch", "F1")}),
       To("constraints", "Delta5Z0",
          Jet("curvature", "Z0", "Z0T") \cup {Own("scratch", "DrZ0"), Own("scratch", "F0")}),
       To("constraints", "Delta4Z1T",
          Jet("curvature", "Z1T", "Z1TT") \cup {Own("scratch", "DrZ1T"), Own("scratch", "F1T")}),
       RateTo("constraints", "Delta5Z0T", F0T \cup Z0T)}

\* The derivatives the source is handed, each with the scratch it is kept in.
HandedOver ==
  [f \in DerivativeFields |->
     CASE f = "Delta4Z1" -> "F1" [] f = "Delta4Z1T" -> "F1T"
       [] f = "Delta5Z0" -> "F0" [] f = "Delta5Z0T" -> "F0T"
       [] OTHER -> f]

FinalizeStage ==
  {To("derivatives", f, {Own("scratch", HandedOver[f])}) : f \in DerivativeFields}

\* Fault: eth_4 Z1_T is taken before Z1_TT is there.
FaultClosure(in, out, ready) ==
  << StateRadialDerivatives(in),
     Eth("primary", "H", "HT", "scratch", "Eth3H") \cup
       Eth("primary", "HT", "HTT", "scratch", "Eth3HT"),
     Gated(ready, ComputeZ1T(in, out)),
     Eth("curvature", "Z1", "Z1T", "scratch", "Eth4Z1") \cup
       Eth("curvature", "Z1", "Z1T", "scratch", "EthPrime4Z1"),
     Gated(ready, ComputeZ0T(out)),
     TangentRadialDerivatives,
     Eth("curvature", "Z1T", "Z1TT", "scratch", "Eth4Z1T") \cup
       Eth("curvature", "Z1T", "Z1TT", "scratch", "EthPrime4Z1T"),
     Gated(ready, ComputeSecondTangents),
     Gated(ready, ComputeZ0TTAndConstraints),
     Eth("curvature", "Z0", "Z0T", "scratch", "Eth5Z0") \cup
       Eth("curvature", "Z0T", "Z0TT", "scratch", "Eth5Z0T"),
     Gated(ready, FinalizeStage) >>

\* enqueue_stage, behind the validation of the inputs.
Closure(in, out, ready) ==
  << StateRadialDerivatives(in),
     Eth("primary", "H", "HT", "scratch", "Eth3H") \cup
       Eth("primary", "HT", "HTT", "scratch", "Eth3HT"),
     Gated(ready, ComputeZ1T(in, out)),
     Eth("curvature", "Z1", "Z1T", "scratch", "Eth4Z1") \cup
       Eth("curvature", "Z1", "Z1T", "scratch", "EthPrime4Z1"),
     Gated(ready, ComputeZ0T(out)),
     TangentRadialDerivatives,
     Gated(ready, ComputeSecondTangents),
     Eth("curvature", "Z1T", "Z1TT", "scratch", "Eth4Z1T") \cup
       Eth("curvature", "Z1T", "Z1TT", "scratch", "EthPrime4Z1T"),
     Gated(ready, ComputeZ0TTAndConstraints),
     Eth("curvature", "Z0", "Z0T", "scratch", "Eth5Z0") \cup
       Eth("curvature", "Z0T", "Z0TT", "scratch", "Eth5Z0T"),
     Gated(ready, FinalizeStage) >>
=============================================================================
