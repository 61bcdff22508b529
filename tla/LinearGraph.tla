---------------------------- MODULE LinearGraph ----------------------------
(***************************************************************************)
(* The kernels of Plus2LinearPsi0SpatialWorkspace                           *)
(* (include/teuk/plus2_linear_spatial.hpp), which evaluate the linear Psi_0  *)
(* of a stage straight from the metric and its two time derivatives, by the  *)
(* second-order point formula of include/teuk/plus2_linear_psi0.hpp.         *)
(***************************************************************************)
EXTENDS MetricGraph

\* Plus2MetricComponent, and the reconstruction fields they are made of: U of the
\* mode itself, C and B conjugated from the mirrored one.
MetricComponents == {"LL", "LM", "MM"}
ComponentFrom == [LL |-> [field |-> "U", sign |-> 1], LM |-> [field |-> "C", sign |-> -1],
                  MM |-> [field |-> "B", sign |-> -1]]

LinearSlots ==
  {"linear"} \X ( All("value", MetricComponents, 0 .. 2) \cup
                  All("dr", MetricComponents, 0 .. 1) \cup
                  All("dtheta", MetricComponents, 0 .. 1) \cup
                  All("drr", MetricComponents, {0}) \cup
                  All("drdtheta", MetricComponents, {0}) \cup
                  All("dthetadtheta", MetricComponents, {0}) \cup
                  {Value("psi0", 0), Value("zPlus", 0)} )

\* PackMetricFunctor.
PackMetric(in) ==
  {Put("linear", "value", p[1], p[2],
       {[slot |-> <<in, Value(ComponentFrom[p[1]].field, p[2])>>,
         sign |-> ComponentFrom[p[1]].sign, rate |-> p[2]]}) :
   p \in MetricComponents \X (0 .. 2)}

\* A coordinate derivative of what another one left.
Coordinate(op, from, orders) ==
  {Put("linear", op, p[1], p[2], {At("linear", from, p[1], p[2])}) :
     p \in MetricComponents \X orders}

\* evaluate_radial: FirstRadialFunctor, SecondRadialFunctor.
LinearRadial == << Coordinate("dr", "value", 0 .. 1), Coordinate("drr", "dr", {0}) >>

\* evaluate_angular, of one mode and component after the other.
LinearAngular ==
  << Coordinate("dtheta", "value", 0 .. 1) \cup Coordinate("dthetadtheta", "value", {0}) \cup
     Coordinate("drdtheta", "dr", {0}) >>

\* What Psi_0 takes of the second jets of the components: of MM the derivatives
\* along l twice, of LM one along l and one along m, of LL two along m, where l
\* has no theta component, m has no radial one, and d/dphi is a factor.
PsiReads ==
  [ LL |-> {<<"value", 0>>, <<"value", 1>>, <<"value", 2>>, <<"dtheta", 0>>, <<"dtheta", 1>>,
            <<"dthetadtheta", 0>>},
    LM |-> {<<"value", 0>>, <<"value", 1>>, <<"value", 2>>, <<"dr", 0>>, <<"dr", 1>>,
            <<"dtheta", 0>>, <<"dtheta", 1>>, <<"drdtheta", 0>>},
    MM |-> {<<"value", 0>>, <<"value", 1>>, <<"value", 2>>, <<"dr", 0>>, <<"dr", 1>>,
            <<"drr", 0>>} ]

\* Fault: the second time derivative of the metric is left out of Psi_0.
FaultLinearPoint ==
  << {[slot |-> <<"linear", Value("psi0", 0)>>, raise |-> 0,
       reads |-> UNION {{Own("linear", Quantity(r[1], c, r[2])) : r \in PsiReads[c] \ {<<"value", 2>>}} :
                        c \in MetricComponents}]},
     {To("linear", Value("zPlus", 0), {Own("linear", Value("psi0", 0))})} >>

\* EvaluatePointFunctor; Z^+ is its quotient by a factor of the background.
LinearPoint ==
  << {[slot |-> <<"linear", Value("psi0", 0)>>, raise |-> 0,
       reads |-> UNION {{Own("linear", Quantity(r[1], c, r[2])) : r \in PsiReads[c]} :
                        c \in MetricComponents}]},
     {To("linear", Value("zPlus", 0), {Own("linear", Value("psi0", 0))})} >>

\* pack_reconstruction_metric and evaluate_packed_metric, which look at no stamp.
LinearStage(memory, metric) ==
  Run(memory, <<PackMetric(metric)>> \o LinearRadial \o LinearAngular \o LinearPoint)
=============================================================================
