---------------------------- MODULE MetricGraph ----------------------------
(***************************************************************************)
(* The kernels that take the first-order metric to its connection           *)
(* coefficients: plus2_primitive_spatial_detail of                          *)
(* include/teuk/plus2_source_primitive_spatial.hpp, which the source's       *)
(* primitive producer runs on one stage and the Route-B curvature provider   *)
(* (include/teuk/plus2_routeb_curvature_spatial.hpp) on three time           *)
(* derivatives of it, in the same scratch.                                   *)
(*                                                                         *)
(* A slot is named by what it holds: an operator, the field it was applied   *)
(* to, and the number of time derivatives taken.                            *)
(***************************************************************************)
EXTENDS KernelGraph

Quantity(op, of, order) == [op |-> op, of |-> of, order |-> order]
Value(f, k) == Quantity("value", f, k)

\* A read of a jet's component, and a result that belongs to that component.
At(view, op, of, k) == [slot |-> <<view, Quantity(op, of, k)>>, sign |-> 1, rate |-> k]
Put(view, op, of, k, reads) ==
  [slot |-> <<view, Quantity(op, of, k)>>, reads |-> reads, raise |-> k]

\* The fields of the reconstruction that the source is made of.
ReconstructionFields == {"H", "B", "Pi", "C", "U"}

\* What PackFunctor makes of them: copies, the rescaled V = U / mu0, and the
\* conjugates of the mirrored mode.
PackedFrom == [H |-> "H", Pi |-> "Pi", U |-> "U", C |-> "C", B |-> "B", V |-> "U"]
SharpFrom  == [USharp |-> "U", CSharp |-> "C", BSharp |-> "B", VSharp |-> "U"]
OrdersOf(f) == IF f \in {"H", "Pi"} THEN 0 .. 1 ELSE 0 .. 2

\* PackFunctor, from the derivatives first, first + 1 and first + 2.
Pack(scratch, in, first) ==
  LET Read(f, k, sign) ==
        {[slot |-> <<in, Value(f, first + k)>>, sign |-> sign, rate |-> k]}
      own   == UNION {{f} \X OrdersOf(f) : f \in DOMAIN PackedFrom}
      sharp == (DOMAIN SharpFrom) \X (0 .. 2)
  IN  {Put(scratch, "value", p[1], p[2], Read(PackedFrom[p[1]], p[2], 1)) : p \in own} \cup
      {Put(scratch, "value", p[1], p[2], Read(SharpFrom[p[1]], p[2], -1)) : p \in sharp}

\* The value and the time derivative of a radial or angular derivative; eth and
\* ethprime need one more time derivative of what they are applied to, and so do
\* thorn and Delta, which need the radial derivative as well.
Radial(view, fields, orders) ==
  {Put(view, "dr", p[1], p[2], {At(view, "value", p[1], p[2])}) : p \in fields \X orders}
WithRate(view, f, k) == {At(view, "value", f, k), At(view, "value", f, k + 1)}
Angular(view, op, fields, orders) ==
  {Put(view, op, p[1], p[2], WithRate(view, p[1], p[2])) : p \in fields \X orders}
Advected(view, op, fields, orders) ==
  {Put(view, op, p[1], p[2], WithRate(view, p[1], p[2]) \cup {At(view, "dr", p[1], p[2])}) :
     p \in fields \X orders}

\* RadialMetricFunctor and MetricRadialFunctor.
MetricRadial(scratch) == Radial(scratch, {"BSharp", "CSharp", "C", "V", "VSharp"}, 0 .. 1)

\* apply_metric_angular.
MetricAngular(scratch) ==
  Angular(scratch, "eth", {"V", "C", "B"}, 0 .. 1) \cup
  Angular(scratch, "ethprime", {"CSharp", "BSharp"}, 0 .. 1)

\* MetricPointFunctor, first what it derives of the metric ...
MetricDerivatives(scratch) ==
  Advected(scratch, "thorn", {"BSharp", "CSharp"}, 0 .. 1) \cup
  Advected(scratch, "delta", {"CSharp", "C", "V", "VSharp"}, 0 .. 1)

\* ... then the connection, from the formulas of plus2_source_primitives.
ConnectionReads ==
  [ Sig |-> {<<"thorn", "BSharp">>, <<"value", "BSharp">>, <<"value", "CSharp">>},
    Kap |-> {<<"thorn", "CSharp">>, <<"value", "CSharp">>, <<"eth", "V">>, <<"value", "V">>},
    Rh  |-> {<<"value", "U">>, <<"ethprime", "CSharp">>, <<"eth", "C">>,
             <<"value", "CSharp">>, <<"value", "C">>},
    Ta  |-> {<<"delta", "CSharp">>, <<"value", "CSharp">>, <<"value", "BSharp">>},
    Al  |-> {<<"delta", "C">>, <<"value", "C">>, <<"eth", "B">>, <<"value", "B">>},
    Be  |-> {<<"delta", "CSharp">>, <<"value", "CSharp">>, <<"ethprime", "BSharp">>,
             <<"value", "BSharp">>},
    Ep  |-> {<<"delta", "V">>, <<"eth", "C">>, <<"ethprime", "CSharp">>, <<"value", "V">>,
             <<"value", "C">>, <<"value", "CSharp">>},
    H   |-> {<<"value", "H">>}, Pi |-> {<<"value", "Pi">>}, V |-> {<<"value", "V">>},
    C   |-> {<<"value", "C">>}, B  |-> {<<"value", "B">>} ]
Reads(scratch, quantities, k) == {At(scratch, q[1], q[2], k) : q \in quantities}
Connections(scratch, out, names) ==
  {Put(out, "value", p[1], p[2], Reads(scratch, ConnectionReads[p[1]], p[2])) :
     p \in names \X (0 .. 1)}
KeptConnections == {"Sig", "Kap", "Be", "Ep"}

\* RadialConnectionFunctor and ConnectionRadialFunctor.
ConnectionRadial(scratch) == Radial(scratch, {"Sig", "Kap", "Be"}, {0})

\* What both runs do up to the connection and its radial derivatives.
MetricToConnection(scratch) ==
  << MetricRadial(scratch), MetricAngular(scratch), MetricDerivatives(scratch),
     Connections(scratch, scratch, KeptConnections), ConnectionRadial(scratch) >>

\* Quantities and the orders they are kept in.
All(op, fields, orders) == {Quantity(op, p[1], p[2]) : p \in fields \X orders}
ScratchQuantities ==
  (UNION {All("value", {f}, OrdersOf(f)) : f \in DOMAIN PackedFrom}) \cup
  All("value", DOMAIN SharpFrom, 0 .. 2) \cup
  All("dr", {"BSharp", "CSharp", "C", "V", "VSharp"}, 0 .. 1) \cup
  All("eth", {"V", "C", "B"}, 0 .. 1) \cup All("ethprime", {"CSharp", "BSharp"}, 0 .. 1) \cup
  All("thorn", {"BSharp", "CSharp"}, 0 .. 1) \cup
  All("delta", {"CSharp", "C", "V", "VSharp"}, 0 .. 1) \cup
  All("value", KeptConnections, 0 .. 1) \cup All("dr", {"Sig", "Kap", "Be"}, {0}) \cup
  All("eth", {"Kap", "Ep"}, {0}) \cup All("ethprime", {"Kap"}, {0})

\* The curvature with its two time derivatives, and what the source needs
\* derived of it, each with its time derivative.
CurvatureQuantities == All("value", {"Z0", "Z1"}, 0 .. 2)
DerivativeQuantities ==
  All("delta", {"Z0", "Z1"}, 0 .. 1) \cup All("ethprime", {"Z1"}, 0 .. 1) \cup
  All("eth", {"Z0"}, 0 .. 1)

\* A number that overflows where it is computed, at one of some slots and a mode.
Overflowed(memory, slots, fault) ==
  IF fault.slot \in slots /\ memory[fault.slot][fault.mode] # {}
  THEN [memory EXCEPT ![fault.slot][fault.mode] = @ \cup {NonFinite}] ELSE memory
AfterFault(memory, kernel, fault) ==
  Overflowed(After(memory, kernel), {r.slot : r \in kernel}, fault)
RunFault(memory, kernels, fault) ==
  LET done[n \in 0 .. Len(kernels)] ==
        IF n = 0 THEN memory ELSE AfterFault(done[n - 1], kernels[n], fault)
  IN  done[Len(kernels)]

\* Nothing not finite in slots of a view.
FiniteIn(memory, view, quantities) ==
  \A q \in quantities, m \in Modes : NonFinite \notin memory[<<view, q>>][m]

\* A device: memory, and the stamp of each view, or of each order of a view,
\* for each mode; a kernel that stamps gives all fields of a view one stamp.
Stamped(d, key, generation) ==
  [d EXCEPT !.stamp[key] = [m \in Modes |-> generation]]
Bears(d, key, generation) == \A m \in Modes : d.stamp[key][m] = generation

\* FinalizeFunctor: outputs that are not valid are zeroed and unstamped.
Settled(d, view, quantities, ready, generation) ==
  LET slots == {<<view, q>> : q \in quantities}
      mem   == IF ready THEN d.mem
               ELSE [s \in DOMAIN d.mem |-> IF s \in slots THEN Zero ELSE d.mem[s]]
  IN  Stamped([d EXCEPT !.mem = mem], <<view, 0>>, IF ready THEN generation ELSE 0)
=============================================================================
