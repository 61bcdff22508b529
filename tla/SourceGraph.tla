---------------------------- MODULE SourceGraph ----------------------------
(***************************************************************************)
(* The kernels that make the second-order source of the primitives, the     *)
(* curvature and their derivatives: prepare_outer_stage and                  *)
(* finish_outer_stage of include/teuk/plus2_live_source_composition.hpp,     *)
(* the ordered pairs of modes of include/teuk/plus2_source_value_spatial.hpp *)
(* and the outer derivatives of include/teuk/plus2_source_outer_spatial.hpp. *)
(*                                                                         *)
(* A plane of a mode is one cell here, so that the readiness of the          *)
(* composition, a bit for each point, is one bit.                           *)
(***************************************************************************)
EXTENDS CurvatureGraph, PrimitiveGraph

CONSTANTS
  Parents,   \* ModeRegistry::parents, the modes products are made of
  Targets    \* ModeRegistry::targets, the modes that are forced

ASSUME RegistryAssumption ==
  /\ Parents \subseteq Modes /\ Parents # {}
  /\ Targets \subseteq Modes /\ Targets # {}

\* Fault: any two stored modes make a pair.
FaultPairs(t) == {p \in Modes \X Modes : p[1] + p[2] = t}

\* ordered_pairs of a target.
Pairs(t) == {p \in Parents \X Parents : p[1] + p[2] = t}

Sums       == All("value", {"J", "K"}, 0 .. 1) \cup {Value("Q", 0)}
Aggregates == All("value", {"J", "K", "Q"}, {0})
OuterQuantities ==
  {Quantity("thorn", "J", 0), Quantity("thornRegular", "J", 0), Quantity("eth", "K", 0)}
SourceQuantities == All("value", {"OverR6", "OverR7", "Forcing"}, {0})
Families == {Value("Families", 0)}

\* The curvature and its derivatives in the storage that the pairs read.
CurvaturePrimitives  == All("value", {"Z0", "Z1"}, 0 .. 1)
TransportOwned       == DerivativeQuantities
SourceSlots ==
  ({"primitive"} \X CurvaturePrimitives) \cup ({"jk"} \X TransportOwned) \cup
  ({"sums"} \X Sums) \cup ({"families"} \X Families) \cup
  ({"projected"} \X Sums) \cup ({"outer"} \X OuterQuantities) \cup
  ({"source"} \X SourceQuantities) \cup ({"forcing"} \X {Value("Forcing", 0)})

AllPrimitives == PrimitivesOwned \cup CurvaturePrimitives
AllJk         == MetricDerivativesOwned \cup TransportOwned

\* What the diagnostics show: the pairs, the sums and the source.
Exposed == ({"families"} \X Families) \cup ({"sums"} \X Sums) \cup ({"source"} \X SourceQuantities)
Clear(memory, slots) == [s \in DOMAIN memory |-> IF s \in slots THEN Zero ELSE memory[s]]

\* NormalizeSourceInputsFunctor: the curvature and its derivatives overwrite
\* whatever the producer has put there, a mode whose stamps are not all of the
\* generation is zeroed, and one such mode is enough to reject the stage.
Normalized(d, curvature, derivatives, generation) ==
  LET keys == {<<curvature, 0>>, <<derivatives, 0>>, <<"primitive", 0>>, <<"jk", 0>>, <<"q", 0>>}
      valid(m) == generation # 0 /\ \A k \in keys : d.stamp[k][m] = generation
      copied == After(d.mem,
        {To("primitive", q, {Own(curvature, q)}) : q \in CurvaturePrimitives} \cup
        {To("jk", q, {Own(derivatives, q)}) : q \in TransportOwned})
      inputs == ({"primitive"} \X AllPrimitives) \cup ({"jk"} \X AllJk) \cup ({"q"} \X QQuantities)
  IN  [mem |-> [s \in DOMAIN copied |->
                  IF s \notin inputs THEN copied[s]
                  ELSE [m \in Modes |-> IF valid(m) THEN copied[s][m] ELSE {}]],
       ready |-> \A m \in Modes : valid(m)]

\* What J12, K12 and Q12 of a pair are made of: fields of the first mode and, as
\* conjugates, of its mirror image, and fields of the second; each a view and the
\* quantity without its order.
P(f)     == <<"primitive", "value", f>>
D(op, f) == <<"jk", op, f>>
PairReads ==
  [ J |-> [first  |-> {P("Sig"), D("delta", "CSharp"), D("ethprime", "BSharp")},
           mirror |-> {P("C"), P("B")},
           second |-> {P("Z1"), P("H"), D("delta", "Z1"), D("ethprime", "Z1")}],
    K |-> [first  |-> {P("C"), P("B"), P("V"), P("Kap"), D("delta", "C"), D("eth", "B"),
                       D("delta", "V"), D("eth", "C"), D("ethprime", "CSharp")},
           mirror |-> {P("C")},
           second |-> {P("Z0"), P("Z1"), P("H"), D("delta", "Z0"), D("eth", "Z0"),
                       D("delta", "Z1")}],
    Q |-> [first  |-> {P("V"), P("Ep"), P("Rh"), D("ethprime", "BSharp")},
           mirror |-> {P("C"), P("B"), P("Rh"), P("Ep")},
           second |-> {P("Sig"), P("Kap"), <<"q", "delta", "Sig">>, <<"q", "delta", "Kap">>,
                       <<"q", "ethprime", "Kap">>}] ]

\* A product's value is made of values, its time derivative of both.
Products(memory, aggregate, pair, k) ==
  LET reads == PairReads[aggregate]
      Content(quantities, m) ==
        UNION {{Moved(i, k - j) : i \in memory[<<q[1], Quantity(q[2], q[3], j)>>][m]} :
               q \in quantities, j \in 0 .. k}
  IN  Content(reads.first, pair[1]) \cup Content(reads.mirror, -pair[1]) \cup
      Content(reads.second, pair[2])

\* Plus2ProductionPairFunctor: only targets are written.
PairSums(memory) ==
  LET Sum(f, t, k) == UNION {Products(memory, f, p, k) : p \in Pairs(t)}
      Written(s, m) == IF s[1] = "sums" THEN Sum(s[2].of, m, s[2].order)
                       ELSE UNION {Sum(f, m, 0) : f \in DOMAIN PairReads}
  IN  [s \in DOMAIN memory |->
         IF s[1] \notin {"sums", "families"} THEN memory[s]
         ELSE [m \in Modes |-> IF m \in Targets THEN Written(s, m) ELSE memory[s][m]]]

\* The projection of the sums and of the time derivatives of J and K; modes that
\* are no targets are zeroed.
Project(memory) ==
  [s \in DOMAIN memory |->
     IF s[1] # "projected" THEN memory[s]
     ELSE [m \in Modes |-> IF m \in Targets THEN memory[<<"sums", s[2]>>][m] ELSE {}]]

\* Thorn5Functor, on all modes, and eth_6 K, on the targets.
OuterDerivatives ==
  {Put("outer", op, "J", 0, WithRate("projected", "J", 0)) : op \in {"thorn", "thornRegular"}} \cup
  {Put("outer", "eth", "K", 0, WithRate("projected", "K", 0))}

\* Plus2SourceOuterSpatialProducer::evaluate: a sum that is not finite rejects
\* every mode, a projection or a derivative that is not rejects its own.
OuterStage(d, generation, fault) ==
  LET finite == FiniteIn(d.mem, "sums", Sums)
      projected == Overflowed(Project(d.mem), {"projected"} \X Sums, fault)
      mem == AfterFault(projected, OuterDerivatives, fault)
      outputs == ({"projected"} \X Aggregates) \cup ({"outer"} \X OuterQuantities)
      valid == [m \in Modes |->
                  finite /\ \A s \in outputs : NonFinite \notin mem[s][m]]
      stamps == [m \in Modes |-> IF valid[m] THEN generation ELSE 0]
  IN  [d EXCEPT
         !.mem = [s \in DOMAIN mem |->
            IF s \notin outputs THEN mem[s]
            ELSE [m \in Modes |-> IF valid[m] THEN mem[s][m] ELSE {}]],
         !.stamp = [@ EXCEPT ![<<"projected", 0>>] = stamps, ![<<"outer", 0>>] = stamps]]

\* NormalizeOuterInputsFunctor: a mode without its stamps rejects the stage, and
\* is zeroed; of the others those are zeroed too that happen to look at the bit
\* after it is cleared.  The time derivatives of J and K stay.
NormalizedOuter(d, ready, late, generation) ==
  LET bad == {m \in Modes : \E v \in {"projected", "outer"} : d.stamp[<<v, 0>>][m] # generation}
      cleared == IF ~ready THEN Modes ELSE IF bad = {} THEN {} ELSE bad \cup late
      outputs == ({"projected"} \X Aggregates) \cup ({"outer"} \X OuterQuantities)
  IN  [mem |-> [s \in DOMAIN d.mem |->
                  IF s \notin outputs THEN d.mem[s]
                  ELSE [m \in Modes |-> IF m \in cleared THEN {} ELSE d.mem[s][m]]],
       ready |-> ready /\ bad = {}]

\* Plus2ProductionOuterFunctor: S0 / R^6, S0 / R^7 and, of the latter, the forcing,
\* of targets.  Nothing looks at these numbers again.
SingularReads ==
  {Own("projected", q) : q \in Aggregates} \cup
  {Own("outer", Quantity("thorn", "J", 0)), Own("outer", Quantity("eth", "K", 0))}
RegularReads ==
  {Own("projected", Value("K", 0)), Own("projected", Value("Q", 0)),
   Own("outer", Quantity("thornRegular", "J", 0)), Own("outer", Quantity("eth", "K", 0))}
Compacted == {To("source", Value("OverR6", 0), SingularReads),
              To("source", Value("OverR7", 0), RegularReads)}
Coordinates == {To("source", Value("Forcing", 0), {Own("source", Value("OverR7", 0))})}
OuterSource(memory, fault) ==
  LET there == AfterFault(AfterFault(memory, Compacted, fault), Coordinates, fault)
  IN  [s \in DOMAIN memory |->
         IF s[1] # "source" THEN memory[s]
         ELSE [m \in Modes |-> IF m \in Targets THEN there[s][m] ELSE memory[s][m]]]

\* Fault: a rejected stage keeps its source.
FaultClosedOuter(memory, ready) ==
  [memory EXCEPT ![<<"forcing", Value("Forcing", 0)>>] =
     [m \in Modes |-> IF m \in Targets
                      THEN memory[<<"source", Value("Forcing", 0)>>][m] ELSE {}]]

\* ClearInvalidSourceDiagnosticsFunctor and GatherForcingFunctor.
ClosedOuter(memory, ready) ==
  LET clear == IF ready THEN memory ELSE Clear(memory, Exposed)
  IN  [clear EXCEPT ![<<"forcing", Value("Forcing", 0)>>] =
         [m \in Modes |-> IF ready /\ m \in Targets
                          THEN clear[<<"source", Value("Forcing", 0)>>][m] ELSE {}]]

\* prepare_outer_stage, the outer producer and finish_outer_stage; with the
\* composition's readiness.
SourceStage(d, curvature, derivatives, late, generation, fault) ==
  LET inputs == Normalized(d, curvature, derivatives, generation)
      pairs  == PairSums(inputs.mem)
      summed == Overflowed(pairs, {"sums"} \X Sums, fault)
      outer  == OuterStage([d EXCEPT !.mem = summed], generation, fault)
      normal == NormalizedOuter(outer, inputs.ready, late, generation)
  IN  [outer EXCEPT !.mem = ClosedOuter(OuterSource(normal.mem, fault), normal.ready),
                    !.ready = normal.ready]
=============================================================================
