--------------------------- MODULE CurvatureGraph ---------------------------
(***************************************************************************)
(* The kernels of Plus2RouteBCurvatureSpatialProvider::evaluate            *)
(* (include/teuk/plus2_routeb_curvature_spatial.hpp): the metric kernels    *)
(* three times over in one scratch, for the metric and its first and second *)
(* time derivatives; of each the profiles that the curvature is extracted    *)
(* from; then the curvature, its two time derivatives and the derivatives    *)
(* the source needs of it.                                                  *)
(***************************************************************************)
EXTENDS MetricGraph

ProfileNames        == {"F0", "F1", "Z0Regular", "Z1Regular"}
CurvatureSlots ==
  ({"tower"} \X All("value", ReconstructionFields, 0 .. 4)) \cup
  ({"curvatureScratch"} \X ScratchQuantities) \cup
  ({"profiles"} \X All("value", ProfileNames, 0 .. 2)) \cup
  ({"curvature"} \X (CurvatureQuantities \cup All("dr", {"Z0", "Z1"}, 0 .. 1))) \cup
  ({"derivatives"} \X DerivativeQuantities)

\* ValidateTowerFunctor: all five levels, of all modes.
TowerValid(d, generation) ==
  /\ generation # 0
  /\ \A l \in 0 .. 4 : Bears(d, <<"tower", l>>, generation)
  /\ FiniteIn(d.mem, "tower", All("value", ReconstructionFields, 0 .. 4))

\* The two mixed derivatives.
ConnectionAngular(scratch) == Angular(scratch, "eth", {"Kap", "Ep"}, {0})

\* CurvatureProfileFunctor: the peeling numerators and the regular rests of
\* Psi_0 and Psi_1, by plus2_source_primitives.
ThornOf(f) == {<<"value", f, 0>>, <<"value", f, 1>>, <<"dr", f, 0>>}
Now(quantities) == {<<q[1], q[2], 0>> : q \in quantities}
ProfileReads ==
  [ F0 |-> ThornOf("Sig") \cup Now({<<"value", "Sig">>, <<"eth", "Kap">>}),
    F1 |-> ThornOf("Be") \cup
           Now({<<"eth", "Ep">>, <<"value", "Ep">>, <<"value", "Sig">>, <<"value", "V">>,
                <<"delta", "VSharp">>, <<"eth", "C">>, <<"ethprime", "CSharp">>,
                <<"value", "VSharp">>, <<"value", "CSharp">>, <<"value", "C">>}),
    Z0Regular |-> Now({<<"value", "Kap">>}),
    Z1Regular |->
      Now({<<"value", "Be">>, <<"value", "Ep">>, <<"value", "Sig">>, <<"value", "Kap">>,
           <<"value", "CSharp">>, <<"value", "BSharp">>, <<"value", "USharp">>,
           <<"value", "C">>, <<"eth", "C">>, <<"ethprime", "CSharp">>,
           <<"delta", "CSharp">>, <<"ethprime", "BSharp">>}) ]

\* Fault: every level's profiles go to the first level's slots plus one.
FaultProfiles(scratch, level) ==
  {[slot |-> <<"profiles", Value(p, IF level = 2 THEN 1 ELSE level)>>, raise |-> 0,
    reads |-> {At(scratch, q[1], q[2], q[3]) : q \in ProfileReads[p]}] : p \in ProfileNames}

Profiles(scratch, level) ==
  {[slot |-> <<"profiles", Value(p, level)>>, raise |-> 0,
    reads |-> {At(scratch, q[1], q[2], q[3]) : q \in ProfileReads[p]}] : p \in ProfileNames}

\* The kernels of one time derivative.
LevelKernels(level, ready) ==
  LET s == "curvatureScratch"
  IN  <<Gated(ready, Pack(s, "tower", level))>> \o MetricToConnection(s) \o
      <<ConnectionAngular(s), Profiles(s, level)>>

\* A level's profiles are looked at before the next level is packed.
LevelPass(r, level, fault) ==
  LET mem == RunFault(r.mem, LevelKernels(level, r.ready), fault)
  IN  [mem |-> mem,
       ready |-> r.ready /\ FiniteIn(mem, "profiles", All("value", ProfileNames, {level}))]

\* ComputeCurvatureFunctor: the quotient by powers of R, or the limit at scri,
\* plus the regular rest.
Extract ==
  {[slot |-> <<"curvature", Value(p[1], p[2])>>, raise |-> 0,
    reads |-> {Own("profiles", Value(f, p[2])) :
                 f \in IF p[1] = "Z0" THEN {"F0", "Z0Regular"} ELSE {"F1", "Z1Regular"}}] :
   p \in {"Z0", "Z1"} \X (0 .. 2)}

\* CurvatureRadialFunctor, the four angular derivatives, and
\* ComputeDeltaDerivativesFunctor.
CurvatureRadial == Radial("curvature", {"Z0", "Z1"}, 0 .. 1)
Derived(op, f, k, reads) == Put("derivatives", op, f, k, reads)
CurvatureAngular ==
  {Derived("ethprime", "Z1", k, WithRate("curvature", "Z1", k)) : k \in 0 .. 1} \cup
  {Derived("eth", "Z0", k, WithRate("curvature", "Z0", k)) : k \in 0 .. 1}
CurvatureDelta ==
  {Derived("delta", p[1], p[2], WithRate("curvature", p[1], p[2]) \cup
                                {At("curvature", "dr", p[1], p[2])}) :
   p \in {"Z0", "Z1"} \X (0 .. 1)}

\* evaluate, behind its contract.
CurvatureStage(d, generation, fault) ==
  LET first  == LevelPass([mem |-> d.mem, ready |-> TowerValid(d, generation)], 0, fault)
      levels == LevelPass(LevelPass(first, 1, fault), 2, fault)
      mem    == RunFault(levels.mem,
                         <<Extract, CurvatureRadial, CurvatureAngular, CurvatureDelta>>, fault)
      ready  == /\ levels.ready
                /\ FiniteIn(mem, "curvature", CurvatureQuantities)
                /\ FiniteIn(mem, "derivatives", DerivativeQuantities)
  IN  Settled(Settled([d EXCEPT !.mem = mem], "curvature", CurvatureQuantities, ready, generation),
              "derivatives", DerivativeQuantities, ready, generation)
=============================================================================
