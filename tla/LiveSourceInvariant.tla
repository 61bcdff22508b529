-------------------------- MODULE LiveSourceInvariant --------------------------
(***************************************************************************)
(* The inductive invariant of LiveSource, LiveInv, and the predicates that    *)
(* LiveSourceProofs states its lemmas in: what is known of a stage as it goes  *)
(* through the kernels of its producers, what each producer leaves, and what   *)
(* the callers' inputs and the stage evaluated last look like between calls.   *)
(***************************************************************************)
EXTENDS LiveSource, KernelGraphProofs

\* The record of the generations.
LastType == last \in [composition: Nat, curvature: Nat, primitive: Nat]

\* No producer is ahead of the composition.
Behind == last.curvature <= last.composition /\ last.primitive <= last.composition

LastInv == LastType /\ Behind

-----------------------------------------------------------------------------
(* What the composition's last kernels make of any device *)

ForcingSlot == <<"forcing", Value("Forcing", 0)>>

\* No mode of a set is forced, and nothing is shown of a stage.
Unforced(memory, modes) == \A m \in modes : memory[ForcingSlot][m] = {}
Hidden(memory)          == \A s \in Exposed : memory[s] = Zero

\* What a stage that is rejected shows, and what one is accepted with.
StageCloses(d, out, curvature, derivatives, generation) ==
  /\ ~out.ready => Hidden(out.mem) /\ Unforced(out.mem, Modes)
  /\ Unforced(out.mem, Modes \ Targets)
  /\ out.ready =>
       /\ generation # 0
       /\ \A m \in Modes,
             k \in {<<curvature, 0>>, <<derivatives, 0>>,
                    <<"primitive", 0>>, <<"jk", 0>>, <<"q", 0>>} :
            d.stamp[k][m] = generation

-----------------------------------------------------------------------------
(* Running kernels of which one may overflow *)

\* done is the memory after each of the first n kernels.
FaultRunOf(memory, kernels, fault, done, n) ==
  done = [k \in 0 .. n |->
            IF k = 0 THEN memory ELSE AfterFault(done[k - 1], kernels[k], fault)]

\* RunFault is the memory after the last kernel.
FaultPasses(memory, kernels, fault, done) ==
  /\ done[0] = memory
  /\ \A n \in 1 .. Len(kernels) : done[n] = AfterFault(done[n - 1], kernels[n], fault)
  /\ RunFault(memory, kernels, fault) = done[Len(kernels)]

\* A slot that no kernel of a list writes keeps its contents.
Spares(kernels, slots) ==
  \A n \in 1 .. Len(kernels) : Written(kernels[n]) \cap slots = {}

-----------------------------------------------------------------------------
(* What slots may hold of a stage.  A slot of the scratch that the three time *)
(* derivatives of the curvature share is ahead of its order by the level, a   *)
(* sum and all that is made of it comes from the modes that add up to the      *)
(* target or from their mirror images, and everything else from the mode or    *)
(* its own.                                                                 *)

Adding(t)  == {p \in Parents : t - p \in Parents}
Reach(t)   == Adding(t) \cup {-p : p \in Adding(t)}
SummedViews == {"sums", "families", "projected", "outer", "source", "forcing"}
ModesAt(view, m) == IF view \in SummedViews THEN Reach(m) ELSE {m, -m}
RateOf(s, level) == s[2].order + (IF s[1] = "curvatureScratch" THEN level ELSE 0)

FreshAt(s, m, id, level) ==
  {InputOf(f, id, n, RateOf(s, level)) : f \in InputFields, n \in ModesAt(s[1], m)}
Fresh(id, level, more) ==
  [s \in LiveSlots |-> [m \in Modes |-> more \cup FreshAt(s, m, id, level)]]

\* What an overflow leaves, or nothing.
Extra == {{}, {NonFinite}}

\* A kernel that makes such contents of such contents: it reads known slots, in the
\* right order.
Fits(kernel, known, level) ==
  /\ Written(kernel) \subseteq LiveSlots
  /\ \A r \in kernel : \A q \in r.reads :
       /\ q.slot \in known
       /\ q.sign \in {1, -1} /\ q.rate \in Int /\ r.raise \in Int
       /\ RateOf(q.slot, level) + r.raise - q.rate = RateOf(r.slot, level)
       /\ q.slot[1] \in SummedViews <=> r.slot[1] \in SummedViews
       /\ q.slot[1] \in SummedViews => q.sign = 1

\* An overflow happens only where its mark is expected.
Spared(fault, more) == fault.slot \notin LiveSlots \/ more = {NonFinite}

\* How many time derivatives a view is ahead of the orders of its slots.
Ahead(view, level) == IF view = "curvatureScratch" THEN level ELSE 0

\* A kernel of results of a view that are made of jets in another one.
PutsOf(kernel, from, out, known) ==
  \A r \in kernel : \E op, f : \E k \in 0 .. 4 : \E reads :
    /\ r = Put(out, op, f, k, reads)
    /\ \A q \in reads : \E o, g : \E j \in 0 .. 4 :
         q = At(from, o, g, j) /\ <<from, Quantity(o, g, j)>> \in known

\* What a view is known to hold.
Has(known, view, op, fields, orders) ==
  \A f \in fields, k \in orders : <<view, Quantity(op, f, k)>> \in known

\* A read of a known slot of a view.
KnownRead(q, from, known) ==
  \E o, g : \E j \in 0 .. 4 : q = At(from, o, g, j) /\ <<from, Quantity(o, g, j)>> \in known

\* A kernel that makes an operator's results, each of such reads.
PutsAll(kernel, from, out, op, fields, orders, known) ==
  /\ \A r \in kernel : \E p \in fields \X orders : \E reads :
       /\ r = Put(out, op, p[1], p[2], reads)
       /\ \A q \in reads : KnownRead(q, from, known)
  /\ \A p \in fields \X orders : \E r \in kernel : r.slot = <<out, Quantity(op, p[1], p[2])>>

\* The slots of an operator's results.
Places(view, op, fields, orders) == {view} \X All(op, fields, orders)

\* The orders of the time derivatives of some orders.
Later(orders) == {k + 1 : k \in orders}

-----------------------------------------------------------------------------
(* The kernels up to the connection *)

Scratches == {"curvatureScratch", "primitiveScratch"}

\* What PackFunctor makes of the metric of a view.
Packable(known, in, first) ==
  \A f \in ReconstructionFields, k \in 0 .. 2 : <<in, Quantity("value", f, first + k)>> \in known
Packed(known, s) ==
  /\ Has(known, s, "value", {"H", "Pi"}, 0 .. 1)
  /\ Has(known, s, "value", {"U", "C", "B", "V", "USharp", "CSharp", "BSharp", "VSharp"}, 0 .. 2)

PackRead(in, f, k, rate, sign) ==
  {[slot |-> <<in, Value(f, k)>>, sign |-> sign, rate |-> rate]}

\* What is known of the metric once it is derived, and of the connection.
MetricDerived(known, s) ==
  /\ Packed(known, s)
  /\ Has(known, s, "dr", {"BSharp", "CSharp", "C", "V", "VSharp"}, 0 .. 1)
  /\ Has(known, s, "eth", {"V", "C", "B"}, 0 .. 1)
  /\ Has(known, s, "ethprime", {"CSharp", "BSharp"}, 0 .. 1)
  /\ Has(known, s, "thorn", {"BSharp", "CSharp"}, 0 .. 1)
  /\ Has(known, s, "delta", {"CSharp", "C", "V", "VSharp"}, 0 .. 1)
Connected(known, s) ==
  /\ MetricDerived(known, s)
  /\ Has(known, s, "value", KeptConnections, 0 .. 1)
  /\ Has(known, s, "dr", {"Sig", "Kap", "Be"}, {0})

SharpAndOwn == {"U", "C", "B", "V", "USharp", "CSharp", "BSharp", "VSharp"}

\* The slots of a memory that are known to hold nothing but a stage.
Knows(memory, known, id, level, more) ==
  /\ DOMAIN memory = LiveSlots /\ known \subseteq LiveSlots
  /\ Within(memory, known, Fresh(id, level, more))

\* What is known after a kernel more.
Grown(known, kernel) == known \cup Written(kernel)

\* A run whose first six kernels are those up to the connection.
ConnectionPass(s, in, first, ready, fault, kernels, done) ==
  /\ kernels[1] = Gated(ready, Pack(s, in, first))
  /\ \A i \in 1 .. 5 : kernels[i + 1] = MetricToConnection(s)[i]
  /\ \A n \in 1 .. 6 : done[n] = AfterFault(done[n - 1], kernels[n], fault)

\* What is known grows to the connection in a scratch.
Derives(memory, base, s, id, level, more) ==
  \E known : base \subseteq known /\ Connected(known, s) /\ Knows(memory, known, id, level, more)

\* The views that a kernel writes into.
Only(kernel, views) == \A r \in kernel : r.slot[1] \in views

-----------------------------------------------------------------------------
(* The profiles of a level *)

\* Slots that do not depend on the level.
Level(known) == \A s \in known : s[1] # "curvatureScratch"

\* The list of kernels of one level.
LevelPasses(k, s, level, ready) ==
  /\ Len(k) = 8
  /\ k[1] = Gated(ready, Pack(s, "tower", level))
  /\ \A i \in 1 .. 5 : k[i + 1] = MetricToConnection(s)[i]
  /\ k[7] = ConnectionAngular(s) /\ k[8] = Profiles(s, level)

\* What is known grows by the profiles of a level; views other than those of a set
\* keep their contents.
Profiled(out, base, level, id, more) ==
  \E next : /\ base \subseteq next /\ Level(next)
            /\ Has(next, "profiles", "value", ProfileNames, {level})
            /\ Knows(out, next, id, 0, more)
Leaves(out, memory, views) == \A x \in LiveSlots : x[1] \notin views => out[x] = memory[x]

-----------------------------------------------------------------------------
(* The curvature and its derivatives *)

\* What the last four kernels of the curvature add to what is known.
CurvatureKnown(known) ==
  /\ Has(known, "curvature", "value", {"Z0", "Z1"}, 0 .. 2)
  /\ Has(known, "curvature", "dr", {"Z0", "Z1"}, 0 .. 1)
  /\ Has(known, "derivatives", "ethprime", {"Z1"}, 0 .. 1)
  /\ Has(known, "derivatives", "eth", {"Z0"}, 0 .. 1)
  /\ Has(known, "derivatives", "delta", {"Z0", "Z1"}, 0 .. 1)
CurvatureMade(out, base, id, more) ==
  \E next : /\ base \subseteq next /\ Level(next) /\ CurvatureKnown(next)
            /\ Knows(out, next, id, 0, more)

-----------------------------------------------------------------------------
(* Devices *)

\* A device has its memory, its stamps and its readiness.
Shape(d) ==
  /\ DOMAIN d = {"mem", "stamp", "ready"}
  /\ DOMAIN d.mem = LiveSlots /\ DOMAIN d.stamp = StampKeys

\* Outputs that were not valid are empty, and the view is stamped as a whole.
SettledAs(d, out, view, Q, ready, g) ==
  /\ Shape(out) /\ out.ready = d.ready
  /\ \A s \in LiveSlots :
       out.mem[s] = IF ~ready /\ s[1] = view /\ s[2] \in Q THEN Zero ELSE d.mem[s]
  /\ \A k \in StampKeys : k # <<view, 0>> => out.stamp[k] = d.stamp[k]
  /\ Bears(out, <<view, 0>>, IF ready THEN g ELSE 0)

\* What is known grows by the profiles of all three levels.
Levelled(out, base, id, more) ==
  \E next : /\ base \subseteq next /\ Level(next)
            /\ Has(next, "profiles", "value", ProfileNames, 0 .. 2)
            /\ Knows(out, next, id, 0, more)
LevelViews == {"curvatureScratch", "profiles"}

\* The curvature producer: its stamps, its views, what is known after it, and the
\* device it leaves; ready is the verdict it stamps its outputs with.
CurvatureKeys  == {<<"curvature", 0>>, <<"derivatives", 0>>}
CurvatureViews == {"curvatureScratch", "profiles", "curvature", "derivatives"}
AllCurvature(base, mem, id, more) ==
  \E next : /\ base \subseteq next /\ Level(next) /\ CurvatureKnown(next)
            /\ Has(next, "profiles", "value", ProfileNames, 0 .. 2)
            /\ Knows(mem, next, id, 0, more)
CurvatureDone(d, out, g, base, id, more) ==
  /\ Shape(out)
  /\ AllCurvature(base, out.mem, id, more)
  /\ Leaves(out.mem, d.mem, CurvatureViews)
  /\ \A k \in StampKeys : k \notin CurvatureKeys => out.stamp[k] = d.stamp[k]
  /\ \E ready \in BOOLEAN :
       /\ \A k \in CurvatureKeys : Bears(out, k, IF ready THEN g ELSE 0)
       /\ ready => TowerValid(d, g)
       /\ TowerValid(d, g) /\ more = {} => ready

-----------------------------------------------------------------------------
(* Copies of views *)

\* A kernel that copies quantities from one view to another.
CopyOf(kernel, from, out, Q) ==
  \A r : r \in kernel <=> \E q \in Q : r = To(out, q, {Own(from, q)})

\* A kernel that writes a view's quantities, and where these lie.
Fills(kernel, view, Q) == Written(kernel) = {view} \X Q
Lies(view, Q, slots) == {view} \X Q \subseteq slots

\* What stays at one level and on one side of the sums.
Plain(view) == view # "curvatureScratch" /\ view \notin SummedViews

-----------------------------------------------------------------------------
(* The levels of the tower that are packed *)

MetricQuantities == All("value", ReconstructionFields, 0 .. 2)

\* The metric of a stage, as it was handed over.
Exact(memory, view, id) ==
  \A f \in ReconstructionFields, k \in 0 .. 2, m \in Modes :
    memory[<<view, Value(f, k)>>][m] = {InputOf(f, id, m, k)}

\* The metric of the levels is copied with its stamps.
PackedLevels(d, out, known, id, more) ==
  /\ Shape(out) /\ out.ready = d.ready
  /\ Knows(out.mem, known \cup ({"routeb"} \X MetricQuantities), id, 0, more)
  /\ Leaves(out.mem, d.mem, {"routeb"})
  /\ \A k \in StampKeys :
       out.stamp[k] = IF k[1] = "routeb" THEN d.stamp[<<"tower", k[2]>>] ELSE d.stamp[k]
  /\ Exact(d.mem, "tower", id) => Exact(out.mem, "routeb", id)

-----------------------------------------------------------------------------
(* The linear Psi_0 *)

\* A list of six kernels.
KernelsSix(k, p, a, b, c, x, y) ==
  /\ Len(k) = 6 /\ k[1] = p /\ k[2] = a /\ k[3] = b /\ k[4] = c /\ k[5] = x /\ k[6] = y

\* What a component of the metric holds of a mode.
Part(c, id, m, k) == InputOf(ComponentFrom[c].field, id, ComponentFrom[c].sign * m, k)

\* The slots for derivatives of the components, a set of quantities of which hold
\* their component of their order.
HoldsParts(memory, Q, id) ==
  \A q \in Q, m \in Modes : memory[<<"linear", q>>][m] = {Part(q.of, id, m, q.order)}

\* PackMetric fills the values.
PacksParts(in) ==
  /\ \A r \in PackMetric(in) : \E c \in MetricComponents, k \in 0 .. 2 :
       /\ r.slot = <<"linear", Quantity("value", c, k)>> /\ r.raise = k
       /\ r.reads = {[slot |-> <<in, Value(ComponentFrom[c].field, k)>>,
                      sign |-> ComponentFrom[c].sign, rate |-> k]}
  /\ \A c \in MetricComponents, k \in 0 .. 2 : \E r \in PackMetric(in) :
       r.slot = <<"linear", Quantity("value", c, k)>>
  /\ Only(PackMetric(in), {"linear"})

\* Each read of a slot makes the same thing of it.
AllMake(memory, kernel, s, m, X) ==
  /\ s \in Written(kernel)
  /\ \A r \in kernel : r.slot = s =>
       /\ \E q \in r.reads : TRUE
       /\ \A q \in r.reads : \E x : /\ memory[q.slot][q.sign * m] = {x}
                                    /\ Moved(x, r.raise - q.rate) = X

\* Coordinate derivatives hold the component that they are of.
CoordinateResult(r, Q, new) ==
  \E op, from : \E c \in MetricComponents, k \in 0 .. 2 :
    /\ Quantity(op, c, k) \in new /\ Quantity(from, c, k) \in Q
    /\ r = Put("linear", op, c, k, {At("linear", from, c, k)})
CoordinateOf(kernel, Q, new) ==
  /\ \A r \in kernel : CoordinateResult(r, Q, new)
  /\ \A q \in new : \E r \in kernel : r.slot = <<"linear", q>>
  /\ {"linear"} \X new \subseteq LiveSlots

\* All that Psi_0 is made of.
PsiQuantities(Q) ==
  \A c \in MetricComponents : \A r \in PsiReads[c] : r[2] \in 0 .. 2 /\ Quantity(r[1], c, r[2]) \in Q
Parts(id, m) == {Part(c, id, m, k) : c \in MetricComponents, k \in 0 .. 2}

PsiInputs(id, m) ==
  {InputOf("U", id, m, k) : k \in 0 .. 2} \cup {InputOf(f, id, -m, k) : f \in {"B", "C"}, k \in 0 .. 2}

\* The kernel of Psi_0, its reads and its result.
PsiKernel == LinearPoint[1]
PsiRead(q) == \E c \in MetricComponents : \E r \in PsiReads[c] :
                q = Own("linear", Quantity(r[1], c, r[2]))
PsiResult(r) == /\ r.slot = <<"linear", Value("psi0", 0)>> /\ r.raise = 0
                /\ \A q : q \in r.reads <=> PsiRead(q)

\* The property of the linear Psi_0, for a stage.
LinearOf(out, id) ==
  \A m \in Modes :
    out[<<"linear", Value("zPlus", 0)>>][m] =
      {InputOf("U", id, m, k) : k \in 0 .. 2} \cup
      {InputOf(f, id, -m, k) : f \in {"B", "C"}, k \in 0 .. 2}

\* The kernel that copies Psi_0.
ZKernel == LinearPoint[2]

\* The six kernels, one after the other.
LinearSteps(metric, memory, out, done) ==
  /\ done[0] = memory /\ out = done[6]
  /\ done[1] = After(done[0], PackMetric(metric))
  /\ done[2] = After(done[1], Coordinate("dr", "value", 0 .. 1))
  /\ done[3] = After(done[2], Coordinate("drr", "dr", {0}))
  /\ done[4] = After(done[3], Coordinate("dtheta", "value", 0 .. 1) \cup
                                Coordinate("dthetadtheta", "value", {0}) \cup
                                Coordinate("drdtheta", "dr", {0}))
  /\ done[5] = After(done[4], PsiKernel) /\ done[6] = After(done[5], ZKernel)

\* The stage touches nothing else, and of a metric that is as it was handed over it
\* makes what the property says.
LinearDone(out, memory, metric, id) ==
  /\ DOMAIN out = LiveSlots /\ Leaves(out, memory, {"linear"})
  /\ Exact(memory, metric, id) => LinearOf(out, id)

\* The derivatives of the components, and all that Psi_0 takes of them.
RadialParts  == All("value", MetricComponents, 0 .. 2) \cup All("dr", MetricComponents, 0 .. 1)
SecondParts  == RadialParts \cup All("drr", MetricComponents, {0})
AngularParts == SecondParts \cup (All("dtheta", MetricComponents, 0 .. 1) \cup
                  All("dthetadtheta", MetricComponents, {0}) \cup
                  All("drdtheta", MetricComponents, {0}))

-----------------------------------------------------------------------------
(* The primitives *)

PrimitiveScratch == "primitiveScratch"

\* A result made of reads of a view that are known.
KnownPut(r, from, out, known) ==
  \E op, f : \E k \in 0 .. 4 : \E reads :
    r = Put(out, op, f, k, reads) /\ \A q \in reads : KnownRead(q, from, known)

\* The derivatives that are handed over as they are.
HandedOver(s) == {Put("jk", q.op, q.of, q.order, {At(s, q.op, q.of, q.order)}) :
                    q \in MetricDerivativesOwned}

\* The three results of QPointFunctor, with what they are made of.
QRead(s, q) ==
  IF q.op = "delta" THEN WithRate(s, q.of, 0) \cup {At(s, "dr", q.of, 0)}
  ELSE {At(s, "ethprime", "Kap", 0)}

\* The list of kernels of the primitives.
PrimitiveKernels(s, metric, ready) ==
  <<Gated(ready, Pack(s, metric, 0))>> \o MetricToConnection(s) \o
  << HandOver(s), Angular(s, "ethprime", {"Kap"}, {0}), QDerivatives(s) >>
PrimitivePasses(k, s, metric, ready) ==
  /\ Len(k) = 9
  /\ k[1] = Gated(ready, Pack(s, metric, 0))
  /\ \A i \in 1 .. 5 : k[i + 1] = MetricToConnection(s)[i]
  /\ k[7] = HandOver(s) /\ k[8] = Angular(s, "ethprime", {"Kap"}, {0}) /\ k[9] = QDerivatives(s)

\* What the outputs add to what is known, and the views they are made in.
PrimitiveMade(base) ==
  base \cup ({"primitive"} \X PrimitivesOwned) \cup ({"jk"} \X MetricDerivativesOwned) \cup
  ({"q"} \X QQuantities)
PrimitiveViews == {"primitiveScratch", "primitive", "jk", "q"}

\* H of a stage, as one of the things that can be followed to the forcing.
HOf(id, m) == InputOf("H", id, m, 0)
HSlot(view) == <<view, Value("H", 0)>>
Carries(memory, view, id) == \A m \in Modes : HOf(id, m) \in memory[HSlot(view)][m]

\* A kernel that copies H to a view, and one that does not write it.
CarriesTo(kernel, from, out) ==
  \E r \in kernel : \E q \in r.reads :
    /\ r.slot = HSlot(out) /\ r.raise = 0
    /\ q.slot = HSlot(from) /\ q.sign = 1 /\ q.rate = 0

\* The primitive producer: its stamps, and the device it leaves.
PrimitiveKeys == {<<"primitive", 0>>, <<"jk", 0>>, <<"q", 0>>}
PrimitiveDone(d, out, metric, ready, g, base, id, more) ==
  /\ Shape(out)
  /\ Knows(out.mem, PrimitiveMade(base), id, 0, more)
  /\ Leaves(out.mem, d.mem, PrimitiveViews)
  /\ \A k \in StampKeys : k \notin PrimitiveKeys => out.stamp[k] = d.stamp[k]
  /\ \A k \in PrimitiveKeys : Bears(out, k, IF ready THEN g ELSE 0)
  /\ ready /\ Carries(d.mem, metric, id) => Carries(out.mem, "primitive", id)

-----------------------------------------------------------------------------
(* The inputs of the source *)

\* What the source takes, and the stamps it checks.
SourceInputs ==
  ({"primitive"} \X AllPrimitives) \cup ({"jk"} \X AllJk) \cup ({"q"} \X QQuantities)
SourceKeys(curvature, derivatives) ==
  {<<curvature, 0>>, <<derivatives, 0>>, <<"primitive", 0>>, <<"jk", 0>>, <<"q", 0>>}

\* The curvature and its derivatives that are to be copied, and what the primitive
\* producer has made.
Composable(known, curvature, derivatives) ==
  /\ {curvature} \X CurvaturePrimitives \subseteq known
  /\ {derivatives} \X TransportOwned \subseteq known
  /\ PrimitiveMade({}) \subseteq known

\* A mode that is not valid has its slots of a set emptied.
Masked(memory, slots, valid) ==
  [s \in DOMAIN memory |->
     IF s \notin slots THEN memory[s]
     ELSE [m \in Modes |-> IF valid[m] THEN memory[s][m] ELSE {}]]

\* What is left of a stage's inputs, and the first verdict on it.
NormalizedDone(d, out, curvature, derivatives, g, known, id, more) ==
  /\ Knows(out.mem, known \cup SourceInputs, id, 0, more)
  /\ Leaves(out.mem, d.mem, {"primitive", "jk", "q"})
  /\ out.ready \in BOOLEAN
  /\ out.ready <=> g # 0 /\ \A k \in SourceKeys(curvature, derivatives) : Bears(d, k, g)
  /\ out.ready /\ Carries(d.mem, "primitive", id) => Carries(out.mem, "primitive", id)

-----------------------------------------------------------------------------
(* The sums over pairs *)

\* What a factor of a product holds.
Factor(q, j) == <<q[1], Quantity(q[2], q[3], j)>>
PairContent(memory, quantities, m, k) ==
  UNION {{Moved(i, k - j) : i \in memory[<<q[1], Quantity(q[2], q[3], j)>>][m]} :
           q \in quantities, j \in 0 .. k}

\* The orders a product is made in, and its factors: of Q there is no time derivative.
ProductOrders(f) == IF f = "Q" THEN {0} ELSE 0 .. 1
FactorsOf(f) == PairReads[f].first \cup PairReads[f].mirror \cup PairReads[f].second

\* What comes of a stage's modes that reach a target, at an order.
Reached(i, t, id, k, more) ==
  i \in more \/ \E f \in InputFields, n \in Reach(t) : i = InputOf(f, id, n, k)

\* The slots of the sums.
SumPlaces == ({"sums"} \X Sums) \cup ({"families"} \X Families)

\* Only targets have sums and a source.
TargetViews == {"sums", "families", "source"}
Clean(memory) ==
  \A s \in LiveSlots, m \in Modes : s[1] \in TargetViews /\ m \notin Targets => memory[s][m] = {}

\* H of each mode that adds up to a target has come to a slot of that target.
CarriesSum(memory, s, id) == \A t \in Targets : \A p \in Adding(t) : HOf(id, p) \in memory[s][t]

-----------------------------------------------------------------------------
(* The outer stage *)

\* The projection hands on what targets have.
Projected == {"projected"} \X Sums

\* The outer producer keeps, of a mode, all outputs with its stamp or none of them.
OuterOutputs == ({"projected"} \X Aggregates) \cup ({"outer"} \X OuterQuantities)
OuterKeys    == {<<"projected", 0>>, <<"outer", 0>>}
OuterMade(known) == known \cup Projected \cup ({"outer"} \X OuterQuantities)
FiniteOutputs(memory) == \A s \in OuterOutputs, m \in Modes : NonFinite \notin memory[s][m]

\* The modes that were found valid.
OuterValid(d, out, g, id, more, valid) ==
  /\ \A m \in Modes : valid[m] \in BOOLEAN
  /\ \A k \in OuterKeys, m \in Modes : out.stamp[k][m] = IF valid[m] THEN g ELSE 0
  /\ more = {} => \A m \in Modes : valid[m]
  /\ (\A m \in Modes : valid[m]) /\ CarriesSum(d.mem, <<"sums", Value("K", 0)>>, id) =>
       CarriesSum(out.mem, <<"projected", Value("K", 0)>>, id)
OuterDone(d, out, g, known, id, more) ==
  /\ Shape(out)
  /\ Knows(out.mem, OuterMade(known), id, 0, more)
  /\ Leaves(out.mem, d.mem, {"projected", "outer"})
  /\ \A k \in StampKeys : k \notin OuterKeys => out.stamp[k] = d.stamp[k]
  /\ FiniteOutputs(out.mem)
  /\ \E valid : OuterValid(d, out, g, id, more, valid)

-----------------------------------------------------------------------------
(* The source and the forcing *)

\* The check of the outer inputs lets a stage through that has all of its stamps,
\* and then changes nothing.
CheckedDone(d, out, ready, g, known, id, more) ==
  /\ Knows(out.mem, known, id, 0, more)
  /\ Leaves(out.mem, d.mem, {"projected", "outer"})
  /\ FiniteOutputs(out.mem)
  /\ out.ready \in BOOLEAN
  /\ out.ready <=> ready /\ \A k \in OuterKeys : Bears(d, k, g)
  /\ out.ready => \A s \in LiveSlots, m \in Modes : out.mem[s][m] = d.mem[s][m]

\* Where the source lies, and its part that the forcing is made of.
SourcePlaces   == {"source"} \X SourceQuantities
CompactedSlot  == <<"source", Value("OverR7", 0)>>
SourceSlot     == <<"source", Value("Forcing", 0)>>

\* A read of what an outer output holds, for a slot of no other order.
OutputRead(x) ==
  /\ x.slot \in OuterOutputs /\ x.sign = 1 /\ x.rate = 0 /\ x.slot[2].order = 0
SourceResult(r) ==
  /\ r.raise = 0 /\ r.slot \in SourcePlaces
  /\ \A x \in r.reads : OutputRead(x)

\* A number that is not finite is there only if the last kernel overflows, and then of
\* a mode that is reached.
OnlyLast(memory, s, m, fault) ==
  NonFinite \in memory[s][m] =>
    fault.slot \in LastNumbers /\ fault.mode = m /\ Adding(m) # {}
FiniteSource(memory, fault) == \A t \in Targets : OnlyLast(memory, SourceSlot, t, fault)
SourceDone(out, memory, known, id, more, fault) ==
  /\ Knows(out, known \cup SourcePlaces, id, 0, more)
  /\ Leaves(out, memory, {"source"})
  /\ FiniteSource(out, fault)
  /\ Clean(memory) => Clean(out)
  /\ CarriesSum(memory, <<"projected", Value("K", 0)>>, id) =>
       CarriesSum(out, SourceSlot, id)

\* The last kernel hands the source of the targets on, or hides it.
FiniteForcing(memory, fault) == \A m \in Modes : OnlyLast(memory, ForcingSlot, m, fault)
ClosedViews == {"families", "sums", "source", "forcing"}
ClosedDone(out, memory, ready, known, id, more, fault) ==
  /\ Knows(out, known \cup {ForcingSlot}, id, 0, more)
  /\ Leaves(out, memory, ClosedViews)
  /\ Clean(out)
  /\ FiniteForcing(out, fault)
  /\ ready /\ CarriesSum(memory, SourceSlot, id) => CarriesSum(out, ForcingSlot, id)

-----------------------------------------------------------------------------
(* The whole stage of the source *)

\* The whole stage of the source: its views, and the device it leaves.
SourceViews == {"primitive", "jk", "q", "sums", "families", "projected", "outer", "source", "forcing"}
SourceMade(known) ==
  (OuterMade((known \cup SourceInputs) \cup SumPlaces) \cup SourcePlaces) \cup {ForcingSlot}
SourceFinished(d, out, curvature, derivatives, g, known, id, more, fault) ==
  /\ Shape(out)
  /\ Knows(out.mem, SourceMade(known), id, 0, more)
  /\ Clean(out.mem)
  /\ Leaves(out.mem, d.mem, SourceViews)
  /\ \A k \in StampKeys : k \notin OuterKeys => out.stamp[k] = d.stamp[k]
  /\ FiniteForcing(out.mem, fault)
  /\ out.ready \in BOOLEAN
  /\ out.ready => g # 0 /\ \A k \in SourceKeys(curvature, derivatives) : Bears(d, k, g)
  /\ out.ready /\ Carries(d.mem, "primitive", id) => CarriesSum(out.mem, ForcingSlot, id)
  /\ more = {} /\ g # 0 /\ (\A k \in SourceKeys(curvature, derivatives) : Bears(d, k, g)) => out.ready

\* The parts of the stage, one after the other.
SourceSteps(d, out, curvature, derivatives, late, g, fault, taken, pairs, summed, outer, checked) ==
  /\ taken = Normalized(d, curvature, derivatives, g)
  /\ pairs = PairSums(taken.mem)
  /\ summed = Overflowed(pairs, {"sums"} \X Sums, fault)
  /\ outer = OuterStage([d EXCEPT !.mem = summed], g, fault)
  /\ checked = NormalizedOuter(outer, taken.ready, late, g)
  /\ out = [outer EXCEPT !.mem = ClosedOuter(OuterSource(checked.mem, fault), checked.ready),
                         !.ready = checked.ready]

-----------------------------------------------------------------------------
(* An active stage *)

\* The slots of a view are there.
FinitePlaces(view, Q) == {view} \X Q \subseteq LiveSlots

\* The views the two entries take their inputs from.
EntryViews(metric, curvature, derivatives) ==
  \/ metric = "routeb" /\ curvature = "curvature" /\ derivatives = "derivatives"
  \/ metric = "givenMetric" /\ curvature = "givenCurvature" /\ derivatives = "givenDerivatives"

\* What an evaluation with activation does after the curvature: the linear Psi_0,
\* the primitives and the source.
ActiveViews == {"linear"} \cup PrimitiveViews \cup SourceViews
ActiveStage(d, metric, curvature, derivatives, late, g, fault) ==
  SourceStage(
    PrimitiveStage([d EXCEPT !.mem = LinearStage(@, metric)], metric, curvature, derivatives, g, fault),
    curvature, derivatives, late, g, fault)

\* What there has to be of the inputs of an active stage.
Ready(known, metric, curvature, derivatives) ==
  /\ Packable(known, metric, 0)
  /\ Lies(curvature, CurvatureQuantities, known) /\ Lies(derivatives, DerivativeQuantities, known)
  /\ \A s \in known : s[1] # "linear"

\* A stage is let through if the check of the primitives passes, and without an
\* overflow only then.
ActiveDone(d, out, metric, curvature, derivatives, g, known, id, more, fault) ==
  /\ Shape(out) /\ Clean(out.mem) /\ out.ready \in BOOLEAN
  /\ Knows(out.mem, SourceMade(PrimitiveMade(known)), id, 0, more)
  /\ FiniteForcing(out.mem, fault)
  /\ ~out.ready => Hidden(out.mem) /\ Unforced(out.mem, Modes)
  /\ Unforced(out.mem, Modes \ Targets)
  /\ Leaves(out.mem, d.mem, ActiveViews)
  /\ \A k \in StampKeys : k \notin PrimitiveKeys \cup OuterKeys => out.stamp[k] = d.stamp[k]
  /\ out.ready => PrimitiveReady(d, metric, curvature, derivatives, g)
  /\ more = {} /\ PrimitiveReady(d, metric, curvature, derivatives, g) => out.ready
  /\ out.ready /\ Carries(d.mem, metric, id) => CarriesSum(out.mem, ForcingSlot, id)
  /\ Exact(d.mem, metric, id) => LinearOf(out.mem, id)

-----------------------------------------------------------------------------
(* The inputs of a stage *)

\* A tower as it was written: it has the levels up to its height of its stage and
\* its generation, and it is good if these are all.
TowerPlaces == {"tower"} \X All("value", ReconstructionFields, 0 .. 4)
TowerOf(d, in) ==
  /\ Knows(d.mem, TowerPlaces, in.id, 0, {})
  /\ in.good \in BOOLEAN /\ in.generation # 0
  /\ in.good => /\ Exact(d.mem, "tower", in.id)
                /\ \A l \in 0 .. 4 : Bears(d, <<"tower", l>>, in.generation)
  /\ ~in.good => Bears(d, <<"tower", 4>>, 0)

\* What is known of the first entry's views before the primitives.
RouteBPlaces ==
  TowerPlaces \cup ({"profiles"} \X All("value", ProfileNames, 0 .. 2)) \cup
  ({"curvature"} \X (CurvatureQuantities \cup All("dr", {"Z0", "Z1"}, 0 .. 1))) \cup
  ({"derivatives"} \X DerivativeQuantities) \cup ({"routeb"} \X MetricQuantities)
RouteBReady(d, g) == PrimitiveReady(d, "routeb", "curvature", "derivatives", g)
RouteBViews == CurvatureViews \cup {"routeb"}

\* What the curvature and the packing of the levels make of a tower.
RouteBDone(d, out, in, g, more) ==
  /\ Shape(out) /\ Clean(out.mem)
  /\ Leaves(out.mem, d.mem, RouteBViews)
  /\ \A k \in StampKeys : k[1] # "routeb" /\ k \notin CurvatureKeys => out.stamp[k] = d.stamp[k]
  /\ Knows(out.mem, RouteBPlaces, in.id, 0, more)
  /\ RouteBReady(out, g) => in.good /\ in.generation = g
  /\ more = {} /\ in.good /\ in.generation = g => RouteBReady(out, g)
  /\ in.good => Exact(out.mem, "routeb", in.id)

\* Inputs of the other entry as they were written: the producers take them as ready
\* if all of them are good, and then of their own generation only.
GivenReady(d, g) == PrimitiveReady(d, "givenMetric", "givenCurvature", "givenDerivatives", g)
GivenViews == {"givenMetric", "givenCurvature", "givenDerivatives"}
GivenOf(d, in) ==
  /\ in.good \in BOOLEAN
  /\ \A g : GivenReady(d, g) <=> in.good /\ in.generation = g
  /\ Knows(d.mem, GivenSlots, in.id, 0, IF in.good THEN {} ELSE {NonFinite})
  /\ in.good => Exact(d.mem, "givenMetric", in.id)

-----------------------------------------------------------------------------
(* The callers' steps *)

\* A tower is written, and nothing else.
TowerMade(d, out, in, g, height) ==
  /\ Shape(out) /\ out.ready = d.ready
  /\ TowerOf(out, in) /\ in.generation = g /\ in.entry = "routeb"
  /\ Leaves(out.mem, d.mem, {"tower"})
  /\ \A k \in StampKeys : k[1] # "tower" => out.stamp[k] = d.stamp[k]

\* Given inputs are written, and nothing else.
GivenMade(d, out, in, g) ==
  /\ Shape(out) /\ out.ready = d.ready
  /\ GivenOf(out, in) /\ in.generation = g /\ in.entry = "scientific"
  /\ Leaves(out.mem, d.mem, GivenViews)
  /\ \A k \in StampKeys : ~Given(k) => out.stamp[k] = d.stamp[k]
  /\ \A k \in StampKeys, m \in Modes : Given(k) => out.stamp[k][m] \in {d.stamp[k][m], g}

\* No stamp of given inputs is ahead of the callers' generations.
GivenStamps(d, n) == \A k \in StampKeys, m \in Modes : Given(k) => d.stamp[k][m] \in 0 .. n

-----------------------------------------------------------------------------
(* What an active stage leaves *)

\* The outputs that valid data are looked for in, in their order; the modes that
\* the forcing is made of.
OutputViews(entry) ==
  {"primitive", "jk", "q", "projected", "outer", "source", "forcing"} \cup
  IF entry = "routeb" THEN {"profiles", "curvature", "derivatives"} ELSE {}
InOrder(memory, entry, id) ==
  \A s \in LiveSlots, m \in Modes : s[1] \in OutputViews(entry) =>
    \A i \in memory[s][m] \ {NonFinite} : i.stage = id /\ i.rate = s[2].order
Selected(memory) ==
  \A t \in Targets : \A i \in memory[ForcingSlot][t] \ {NonFinite} : i.mode \in Reach(t)

\* The properties of the run, of the device that an evaluation leaves.
ActiveResult(d, entry, id, whole, fault) ==
  /\ d.ready \in BOOLEAN
  /\ FiniteForcing(d.mem, fault)
  /\ ~d.ready => Hidden(d.mem) /\ Unforced(d.mem, Modes)
  /\ d.ready => whole /\ CarriesSum(d.mem, ForcingSlot, id)
  /\ whole /\ fault = NoFault => d.ready
  /\ Unforced(d.mem, Modes \ Targets)
  /\ Selected(d.mem)
  /\ InOrder(d.mem, entry, id)
  /\ whole => LinearOf(d.mem, id)

\* The views that callers write.
WrittenViews == {"tower"} \cup GivenViews

-----------------------------------------------------------------------------
(* The evaluations *)

\* What an evaluation leaves: the inputs, and what they make of the stage.
EvaluatedViews == RouteBViews \cup ActiveViews
Evaluated(d, out, entry, in, active, whole, fault) ==
  /\ Shape(out) /\ Clean(out.mem)
  /\ Leaves(out.mem, d.mem, EvaluatedViews)
  /\ \A k \in StampKeys : k[1] \in WrittenViews => out.stamp[k] = d.stamp[k]
  /\ active => ActiveResult(out, entry, in.id, whole, fault)
  /\ ~active => Unforced(out.mem, Modes)

-----------------------------------------------------------------------------
(* The invariant *)

\* Which device there is, what was written to it last, and what the last evaluation
\* has left of its stage.
InputsInv ==
  /\ inputs.generation \in Nat /\ GivenStamps(device, inputs.generation)
  /\ inputs.entry = "routeb" => TowerOf(device, inputs)
  /\ inputs.entry = "scientific" => GivenOf(device, inputs)
OutcomeInv ==
  /\ outcome.active =>
       ActiveResult(device, outcome.entry, outcome.id, outcome.whole, outcome.fault)
  /\ ~outcome.active => Unforced(device.mem, Modes)
LiveInv == Shape(device) /\ Clean(device.mem) /\ InputsInv /\ OutcomeInv

=============================================================================
