--------------------------- MODULE PrimitiveGraph ---------------------------
(***************************************************************************)
(* The kernels of Plus2SourcePrimitiveSpatialProducer::evaluate            *)
(* (include/teuk/plus2_source_primitive_spatial.hpp): from the metric of a  *)
(* stage and its first two time derivatives the connection, the derivatives *)
(* of the metric and those of the connection that the source is made of.     *)
(***************************************************************************)
EXTENDS MetricGraph

\* Plus2SpatialPrimitive without Z0 and Z1, which are not this producer's, the
\* seven derivatives of Plus2ProductionJkDerivative that are, and
\* Plus2ProductionQDerivative.
PrimitiveNames    == {"H", "Sig", "Kap", "Rh", "Ta", "Al", "Be", "Ep", "Pi", "V", "C", "B"}
PrimitivesOwned   == All("value", PrimitiveNames, 0 .. 1)
MetricDerivativesOwned ==
  All("delta", {"CSharp", "C", "V"}, 0 .. 1) \cup All("ethprime", {"BSharp", "CSharp"}, 0 .. 1) \cup
  All("eth", {"B", "C"}, 0 .. 1)
QQuantities ==
  {Quantity("delta", "Sig", 0), Quantity("delta", "Kap", 0), Quantity("ethprime", "Kap", 0)}

PrimitiveSlots ==
  ({"routeb"} \X All("value", ReconstructionFields, 0 .. 2)) \cup
  ({"primitiveScratch"} \X ScratchQuantities) \cup
  ({"primitive"} \X PrimitivesOwned) \cup ({"jk"} \X MetricDerivativesOwned) \cup
  ({"q"} \X QQuantities)

\* ValidateFunctor: the metric, the curvature and its derivatives, of all modes.
PrimitiveReady(d, metric, curvature, derivatives, generation) ==
  /\ generation # 0
  /\ \A k \in 0 .. 2 : Bears(d, <<metric, k>>, generation)
  /\ FiniteIn(d.mem, metric, All("value", ReconstructionFields, 0 .. 2))
  /\ Bears(d, <<curvature, 0>>, generation) /\ Bears(d, <<derivatives, 0>>, generation)
  /\ FiniteIn(d.mem, curvature, CurvatureQuantities)
  /\ FiniteIn(d.mem, derivatives, DerivativeQuantities)

\* The outputs of MetricPointFunctor: the connection, and the derivatives of the
\* metric that are handed over as they are.
HandOver(scratch) ==
  Connections(scratch, "primitive", PrimitiveNames) \cup
  {Put("jk", q.op, q.of, q.order, {At(scratch, q.op, q.of, q.order)}) :
     q \in MetricDerivativesOwned}

\* The derivatives of the connection that only Q needs, without their rates.
QDerivatives(scratch) ==
  {Put("q", "delta", f, 0, WithRate(scratch, f, 0) \cup {At(scratch, "dr", f, 0)}) :
     f \in {"Sig", "Kap"}} \cup
  {Put("q", "ethprime", "Kap", 0, {At(scratch, "ethprime", "Kap", 0)})}

\* evaluate, behind its contract; the outputs are not looked at again.
PrimitiveStage(d, metric, curvature, derivatives, generation, fault) ==
  LET s     == "primitiveScratch"
      ready == PrimitiveReady(d, metric, curvature, derivatives, generation)
      kernels == <<Gated(ready, Pack(s, metric, 0))>> \o MetricToConnection(s) \o
                 << HandOver(s), Angular(s, "ethprime", {"Kap"}, {0}), QDerivatives(s) >>
      done  == [d EXCEPT !.mem = RunFault(@, kernels, fault)]
      first == Settled(done, "primitive", PrimitivesOwned, ready, generation)
      jk    == Settled(first, "jk", MetricDerivativesOwned, ready, generation)
  IN  Settled(jk, "q", QQuantities, ready, generation)
=============================================================================
