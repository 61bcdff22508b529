------------------------ MODULE BianchiTransportProofs ------------------------
(***************************************************************************)
(* Proofs about BianchiTransport, for every set of modes and boundaries,   *)
(* every width of the generation counter and any number of lives, faults    *)
(* and steps.  CounterInv is about the host: generations count up within a   *)
(* life and end with the last one.  TransportInv adds what the device holds: *)
(* state and stage buffers, metric inputs with their stamps, and the slopes  *)
(* of the stages of the running step.                                       *)
(***************************************************************************)
EXTENDS BianchiTransport, BianchiCheckpoint, KernelGraphProofs, SequenceTheorems, TLAPS

\* The record of the host: the next generation follows the last one, or is 0
\* after the last there is.
HostInv ==
  /\ host \in [initialized: BOOLEAN, available: BOOLEAN, last: Generations,
               next: Generations, boundary: Boundaries \cup {"none"}]
  /\ host.next = IF host.last = MaxGeneration THEN 0 ELSE host.last + 1

\* A step is at one of its four stages, and a stage is handed out by a transport
\* that has begun a life.
StepInv ==
  /\ step \in [stage: 0 .. 4, boundary: Boundaries \cup {"none"}, qualified: BOOLEAN]
  /\ step.stage > 0 => host.initialized
  /\ host.available => host.initialized /\ host.last > 0

\* The inductive invariant.
CounterInv == HostInv /\ StepInv /\ lives \in Nat

\* Constants: there is a first generation.
LEMMA FirstGeneration == MaxGeneration \in Nat /\ MaxGeneration >= 1
  BY TransportAssumption

\* The wrapped successor of a generation.
LEMMA SuccessorOf ==
  ASSUME NEW g \in Generations
  PROVE  Successor(g) = (IF g = MaxGeneration THEN 0 ELSE g + 1)
<1>1. CASE g = MaxGeneration
  <2>1. (MaxGeneration + 1) % (MaxGeneration + 1) = 0
    BY FirstGeneration
  <2> QED
    BY <1>1, <2>1 DEF Successor
<1>2. CASE g # MaxGeneration
  <2>1. g + 1 \in Nat /\ g + 1 < MaxGeneration + 1
    BY <1>2, FirstGeneration DEF Generations
  <2>2. (g + 1) % (MaxGeneration + 1) = g + 1
    BY <2>1, FirstGeneration
  <2> QED
    BY <1>2, <2>2 DEF Successor
<1> QED
  BY <1>1, <1>2

LEMMA InitCounter == Init => CounterInv
  BY FirstGeneration, TransportAssumption DEF Init, Idle, CounterInv, HostInv, StepInv, Generations

\* A life begins after a generation that is not the last.
LEMMA LifeCounter ==
  ASSUME NEW b \in Boundaries, NEW last \in Generations \ {MaxGeneration},
         NEW bad, CounterInv, BeginLife(b, last, bad)
  PROVE  CounterInv'
<1>1. last \in Nat /\ last + 1 <= MaxGeneration
  BY FirstGeneration DEF Generations
<1>2. HostInv'
  BY <1>1 DEF CounterInv, HostInv, BeginLife, Reborn, Generations
<1>3. StepInv'
  BY DEF CounterInv, StepInv, BeginLife, Reborn, Idle
<1> QED
  BY <1>2, <1>3 DEF CounterInv, BeginLife

\* A stage that passes uses up the next generation.
LEMMA PassedCounter ==
  ASSUME CounterInv, InStep, Accepted(host.next), host' = Passed(host.next)
  PROVE  /\ HostInv'
         /\ host'.initialized /\ host'.available
         /\ host'.last = host.next /\ host'.last > host.last
<1>1. host.next \in Generations /\ host.next # 0
  BY DEF Accepted, CounterInv, HostInv
<1>2. host.last # MaxGeneration /\ host.next = host.last + 1
  BY <1>1 DEF CounterInv, HostInv
<1>3. host'.last = host.next /\ host'.next = Successor(host.next) /\ host'.available
      /\ host'.initialized = host.initialized /\ host'.boundary = host.boundary
  BY DEF Passed, CounterInv, HostInv
<1>4. host'.next = (IF host.next = MaxGeneration THEN 0 ELSE host.next + 1)
  BY <1>1, <1>3, SuccessorOf
<1>5. host'.next \in Generations
  BY <1>1, <1>4, FirstGeneration DEF Generations
<1>6. host' \in [initialized: BOOLEAN, available: BOOLEAN, last: Generations,
                 next: Generations, boundary: Boundaries \cup {"none"}]
  BY <1>1, <1>5 DEF Passed, CounterInv, HostInv
<1>7. HostInv'
  BY <1>3, <1>4, <1>6 DEF HostInv
<1>8. host'.last = host.last + 1 /\ host.last \in Nat
  BY <1>2, <1>3, FirstGeneration DEF CounterInv, HostInv, Generations
<1>9. host'.initialized
  BY <1>3 DEF Accepted
<1> QED
  BY <1>3, <1>7, <1>8, <1>9

LEMMA NextCounter ==
  ASSUME CounterInv, [Next]_vars
  PROVE  CounterInv'
<1>1. CASE Initialize
  <2>1. 0 \in Generations \ {MaxGeneration}
    BY FirstGeneration DEF Generations
  <2>2. PICK b \in Boundaries : BeginLife(b, 0, {}) \/ \E m \in Modes : BeginLife(b, 0, {m})
    BY <1>1 DEF Initialize
  <2>3. PICK bad : BeginLife(b, 0, bad)
    BY <2>2
  <2> QED
    BY <2>1, <2>3, LifeCounter
<1>2. CASE Restore
  BY <1>2, LifeCounter DEF Restore
<1>3. CASE BeginStep
  BY <1>3 DEF BeginStep, CounterInv, HostInv, StepInv
<1>4. CASE Refuse
  BY <1>4 DEF Refuse, Idle, CounterInv, HostInv, StepInv
<1>5. CASE ProducerThrows
  BY <1>5 DEF ProducerThrows, Idle, CounterInv, HostInv, StepInv
<1>6. CASE PassiveThrows
  <2>1. HostInv' /\ host'.initialized /\ host'.available /\ host'.last > host.last
    BY <1>6, PassedCounter DEF PassiveThrows
  <2>2. step' = Idle /\ lives' = lives
    BY <1>6 DEF PassiveThrows
  <2> QED
    BY <2>1, <2>2, FirstGeneration DEF Idle, CounterInv, HostInv, StepInv, Generations
<1>7. CASE Stage
  <2>1. PICK s, b : Pass(s, b)
    BY <1>7 DEF Stage
  <2>2. HostInv' /\ host'.initialized /\ host'.available /\ host'.last > host.last
    BY <2>1, PassedCounter DEF Pass
  <2>3. /\ step' = (IF step.stage < 4 THEN [step EXCEPT !.stage = @ + 1] ELSE Idle)
        /\ lives' = lives
    BY <2>1 DEF Pass, Advance
  <2>4. step' \in [stage: 0 .. 4, boundary: Boundaries \cup {"none"}, qualified: BOOLEAN]
    BY <2>3 DEF Idle, CounterInv, StepInv
  <2> QED
    BY <2>2, <2>3, <2>4, FirstGeneration DEF CounterInv, HostInv, StepInv, Generations
<1>8. CASE UNCHANGED vars
  BY <1>8 DEF vars, CounterInv, HostInv, StepInv
<1> QED
  BY <1>1, <1>2, <1>3, <1>4, <1>5, <1>6, <1>7, <1>8 DEF Next

\* The host's record and the stage of a step keep their types, the counter is
\* where the last stage has left it, and wraps to the generation that no stage
\* is accepted with.
THEOREM Counting == Spec => []CounterInv
<1>1. Init => CounterInv
  BY InitCounter
<1>2. CounterInv /\ [Next]_vars => CounterInv'
  BY NextCounter
<1> QED
  BY <1>1, <1>2, PTL DEF Spec

\* A stage is evaluated by nothing else.
LEMMA EvaluatesIn ==
  ASSUME [Next]_vars, Evaluates
  PROVE  PassiveThrows \/ Stage
<1>1. CASE Initialize \/ Restore
  <2>1. PICK b, last, bad : BeginLife(b, last, bad)
    BY <1>1 DEF Initialize, Restore
  <2> QED
    BY <2>1 DEF BeginLife, Idle, InStep, Evaluates
<1>2. CASE BeginStep \/ Refuse \/ ProducerThrows \/ UNCHANGED vars
  BY <1>2 DEF BeginStep, Refuse, ProducerThrows, vars, Evaluates
<1> QED
  BY <1>1, <1>2 DEF Next

\* Each stage that is evaluated has a generation above that of the stage before
\* it, and in a life none goes back, for a counter of any width: after the last
\* generation no stage is accepted any more (evaluate_stage).
THEOREM StagesNeverRepeat == Spec => GenerationsIncrease
<1>1. ASSUME CounterInv, PassiveThrows \/ Stage
      PROVE  host'.last > host.last
  <2>1. InStep /\ Accepted(host.next) /\ host' = Passed(host.next)
    BY <1>1 DEF PassiveThrows, Stage, Pass
  <2> QED
    BY <1>1, <2>1, PassedCounter
<1>2. ASSUME CounterInv, [Next]_vars, lives' = lives
      PROVE  host'.last >= host.last
  <2>1. host.last \in Nat
    BY <1>2, FirstGeneration DEF CounterInv, HostInv, Generations
  <2>2. CASE Initialize \/ Restore
    <3>1. PICK b, last, bad : BeginLife(b, last, bad)
      BY <2>2 DEF Initialize, Restore
    <3> QED
      BY <3>1, <1>2 DEF BeginLife, CounterInv
  <2>3. CASE BeginStep \/ Refuse \/ ProducerThrows \/ UNCHANGED vars
    <3>1. host' = host
      BY <2>3 DEF BeginStep, Refuse, ProducerThrows, vars
    <3> QED
      BY <2>1, <3>1
  <2>4. CASE PassiveThrows \/ Stage
    <3>1. host'.last > host.last
      BY <1>1, <1>2, <2>4
    <3>2. CounterInv'
      BY <1>2, NextCounter
    <3>3. host'.last \in Nat
      BY <3>2, FirstGeneration DEF CounterInv, HostInv, Generations
    <3> QED
      BY <2>1, <3>1, <3>3
  <2> QED
    BY <2>2, <2>3, <2>4, <1>2 DEF Next
<1>3. CounterInv /\ [Next]_vars
        => [/\ lives' = lives => host'.last >= host.last
            /\ Evaluates => host'.last > host.last]_vars
  BY <1>1, <1>2, EvaluatesIn
<1> QED
  BY <1>3, Counting, PTL DEF Spec, GenerationsIncrease

-----------------------------------------------------------------------------
(* The closure of one stage *)

LEMMA SlopeViews ==
  /\ Range(Slopes) = {"k1", "k2", "k3", "k4"}
  /\ \A i \in 1 .. 4 : Slopes[i] \in {"k1", "k2", "k3", "k4"}
  /\ \A i, j \in 1 .. 4 : Slopes[i] = Slopes[j] => i = j
<1>1. \A i \in 1 .. 4 : Slopes[i] = IF i = 1 THEN "k1" ELSE IF i = 2 THEN "k2"
                                    ELSE IF i = 3 THEN "k3" ELSE "k4"
  BY DEF Slopes
<1>2. Range(Slopes) = {Slopes[i] : i \in 1 .. 4}
  BY DEF Slopes, Range
<1> QED
  BY <1>1, <1>2

LEMMA StepFieldsAre == StepFields = {"Primary", "Z0", "Z1", "Companion"}
  BY DEF StepFields, Systems, FieldsOf, StateFields

\* The time derivatives that a slot of the transport is to hold.
RateAt(s) ==
  IF s[1] \in {"k1", "k2", "k3", "k4"} THEN 1
  ELSE IF s[2] \in {"HTT", "Z0TT", "Z1TT"} THEN 2
  ELSE IF s[2] \in {"HT", "CSharpT", "BSharpT", "TaT", "SigT", "Z0T", "Z1T",
                    "Delta4Z1T", "EthPrime4Z1T", "Delta5Z0T", "Eth5Z0T", "DrZ0T",
                    "DrZ1T", "Eth3HT", "Eth4Z1T", "F0T", "F1T"} THEN 1
  ELSE 0

\* What may be there: stage z of the curvature state, and of the metric inputs
\* the stages h of the primary, of this mode or its mirror image.
Clean(z, h) ==
  [s \in Slots |-> [m \in Modes |->
     {i \in [field: {"Primary", "Z0", "Z1"}, stage: Int, mode: Int, rate: Int] :
        /\ i.rate = RateAt(s)
        /\ IF i.field = "Primary" THEN i.stage \in h /\ i.mode \in {m, -m}
           ELSE i.stage = z /\ i.mode = m}]]

\* Reads of the own mode, of given slots, that all have the same number of time
\* derivatives once those are taken off that the slots are ahead by.
Agree(reads, slots, rate) ==
  \A q \in reads :
    /\ q.slot \in slots /\ q.sign = 1 /\ q.rate \in Int
    /\ RateAt(q.slot) = rate + q.rate

\* A result holds as many derivatives as its slot says.
Sound(r, slots) ==
  /\ r.slot \in Slots /\ r.raise \in Int
  /\ Agree(r.reads, slots, RateAt(r.slot) - r.raise)

Consistent(kernel, slots) == \A r \in kernel : Sound(r, slots)

LEMMA MovedInput ==
  ASSUME NEW field, field \notin {"NonFinite", "OffBand", "Aliased"},
         NEW i, i = [field |-> field, stage |-> i.stage, mode |-> i.mode, rate |-> i.rate],
         NEW by
  PROVE  Moved(i, by) = [field |-> field, stage |-> i.stage, mode |-> i.mode,
                         rate |-> i.rate + by]
<1>1. i \notin Marks
  BY DEF Marks, NonFinite, OffBand, Aliased, InputOf
<1> QED
  BY <1>1 DEF Moved

LEMMA ConsistentKeeps ==
  ASSUME NEW kernel, NEW slots \in SUBSET Slots, NEW z, NEW h,
         Consistent(kernel, slots)
  PROVE  Keeps(kernel, slots, Clean(z, h))
<1> SUFFICES ASSUME NEW r \in kernel, NEW q \in r.reads
             PROVE  /\ q.slot \in slots
                    /\ \A m \in Modes :
                         /\ q.sign * m \in Modes
                         /\ \A i \in Clean(z, h)[q.slot][q.sign * m] :
                              Moved(i, r.raise - q.rate) \in Clean(z, h)[r.slot][m]
  BY DEF Keeps
<1> DEFINE by == r.raise - q.rate
<1>1. /\ r.slot \in Slots /\ q.slot \in slots /\ q.sign = 1 /\ by \in Int
      /\ RateAt(r.slot) = RateAt(q.slot) + by
  <2>1. Sound(r, slots)
    BY DEF Consistent
  <2>2. RateAt(r.slot) \in Int
    BY DEF RateAt
  <2> QED
    BY <2>1, <2>2 DEF Sound, Agree
<1>2. \A m \in Modes : 1 * m = m
  BY ModesAssumption
<1> SUFFICES ASSUME NEW m \in Modes, NEW i \in Clean(z, h)[q.slot][m]
             PROVE  Moved(i, by) \in Clean(z, h)[r.slot][m]
  BY <1>1, <1>2
<1> HIDE DEF by
<1>4. /\ i \in [field: {"Primary", "Z0", "Z1"}, stage: Int, mode: Int, rate: Int]
      /\ i.rate = RateAt(q.slot)
      /\ IF i.field = "Primary" THEN i.stage \in h /\ i.mode \in {m, -m}
         ELSE i.stage = z /\ i.mode = m
  BY <1>1 DEF Clean
<1>5. Moved(i, by) = [field |-> i.field, stage |-> i.stage, mode |-> i.mode,
                      rate |-> i.rate + by]
  BY <1>4, MovedInput
<1>6. i.rate + by \in Int
  BY <1>1, <1>4
<1>7. Moved(i, by) \in Clean(z, h)[r.slot][m]
  BY <1>1, <1>4, <1>5, <1>6 DEF Clean
<1> QED
  BY <1>7

\* The slots that the closure has good numbers in as it goes along.
Known(in, scratch, curvature) ==
  ({in} \X StateFields) \cup ({"primary"} \X PrimaryFields) \cup
  ({"scratch"} \X scratch) \cup ({"curvature"} \X curvature)

Outputs(out) ==
  ({"curvature"} \X CurvatureFields) \cup ({"derivatives"} \X DerivativeFields) \cup
  ({"constraints"} \X ConstraintFields) \cup ({out} \X StateFields)

\* The eleven kernels one by one: which slots they write, and that each is
\* consistent with what has become known before it.
Scratch1  == {"DrZ0", "DrZ1"}
Scratch2  == Scratch1 \cup {"Eth3H", "Eth3HT"}
Scratch3  == Scratch2 \cup {"F1"}
Scratch4  == Scratch3 \cup {"Eth4Z1", "EthPrime4Z1"}
Scratch5  == Scratch4 \cup {"F0"}
Scratch6  == Scratch5 \cup {"DrZ0T", "DrZ1T"}
Scratch7  == Scratch6 \cup {"F1T"}
Scratch8  == Scratch7 \cup {"Eth4Z1T", "EthPrime4Z1T"}
Scratch9  == Scratch8 \cup {"F0T"}
Scratch10 == Scratch9 \cup {"Eth5Z0", "Eth5Z0T"}
Curvature3 == {"Z0", "Z1", "Z1T"}
Curvature5 == Curvature3 \cup {"Z0T"}
Curvature7 == Curvature5 \cup {"Z1TT"}

\* Results are records of their three components.
Results(kernel) ==
  \A r \in kernel : r = [slot |-> r.slot, reads |-> r.reads, raise |-> r.raise]

LEMMA Kernel1 ==
  ASSUME NEW in \in StageViews
  PROVE  LET k == StateRadialDerivatives(in)
         IN  /\ Consistent(k, Known(in, {}, {}))
             /\ Written(k) = {"scratch"} \X Scratch1
<1> DEFINE k == StateRadialDerivatives(in)
<1>1. Consistent(k, Known(in, {}, {}))
  BY DEF StateRadialDerivatives, Consistent, Sound, Agree, Known, To, Own, RateAt, Slots,
     TransportSlots, BianchiScratch, StateFields, StageViews
<1>2. Written(k) = {"scratch"} \X Scratch1
  BY DEF StateRadialDerivatives, Written, To, Scratch1
<1> QED
  BY <1>1, <1>2

\* The two jets of eth_3 H.
EthsOfH == Eth("primary", "H", "HT", "scratch", "Eth3H") \cup
           Eth("primary", "HT", "HTT", "scratch", "Eth3HT")

LEMMA Kernel2 ==
  ASSUME NEW in \in StageViews
  PROVE  /\ Consistent(EthsOfH, Known(in, Scratch1, {}))
         /\ Written(EthsOfH) = {"scratch"} \X {"Eth3H", "Eth3HT"}
<1>1. Consistent(EthsOfH, Known(in, Scratch1, {}))
  BY DEF EthsOfH, Eth, Jet, Dt, Consistent, Sound, Agree, Known, To, Own, RateAt, Slots,
     TransportSlots, BianchiScratch, PrimaryFields
<1>2. Written(EthsOfH) = {"scratch"} \X {"Eth3H", "Eth3HT"}
  BY DEF EthsOfH, Eth, To, Written
<1> QED
  BY <1>1, <1>2

LEMMA Kernel3 ==
  ASSUME NEW in \in StageViews, NEW out \in Range(Slopes)
  PROVE  LET k == ComputeZ1T(in, out)
         IN  /\ Consistent(k, Known(in, Scratch2, {}))
             /\ Written(k) = ({"scratch"} \X {"F1"}) \cup
                             ({"curvature"} \X Curvature3) \cup {<<out, "Z1">>}
             /\ Results(k)
<1> DEFINE slots == Known(in, Scratch2, {})
           F1  == FactorsOfF1({Own(in, "Z1")})
           Z1T == F1 \cup {Own(in, "Z1"), Own("scratch", "DrZ1")}
           k == ComputeZ1T(in, out)
<1>1. Agree({Own(in, "Z0")}, slots, 0) /\ Agree({Own(in, "Z1")}, slots, 0)
  BY DEF Agree, Own, Known, RateAt, StateFields, StageViews
<1>2. Agree({Own("scratch", "Eth3H")}, slots, 0) /\ Agree({Own("scratch", "DrZ1")}, slots, 0)
  BY DEF Agree, Own, Known, RateAt, Scratch2, Scratch1
<1>3. Agree({Own("primary", f) : f \in {"H", "CSharp", "BSharp", "Ta"}}, slots, 0)
  BY DEF Agree, Own, Known, RateAt, PrimaryFields
<1>4. Agree({Own("primary", f) : f \in BackgroundFields}, slots, 0)
  BY DEF Agree, Own, Known, RateAt, PrimaryFields, BackgroundFields
<1> HIDE DEF slots
<1>5. Agree(F1, slots, 0)
  BY <1>1, <1>2, <1>3, <1>4 DEF FactorsOfF1, Agree
<1>6. Agree(Z1T, slots, 0)
  BY <1>1, <1>2, <1>5 DEF Agree
<1>7. k = {To("curvature", "Z0", {Own(in, "Z0")}), To("curvature", "Z1", {Own(in, "Z1")}),
           To("scratch", "F1", F1), RateTo("curvature", "Z1T", Z1T), RateTo(out, "Z1", Z1T)}
  BY DEF ComputeZ1T
<1> HIDE DEF F1, Z1T
<1>8. /\ Sound(To("curvature", "Z0", {Own(in, "Z0")}), slots)
      /\ Sound(To("curvature", "Z1", {Own(in, "Z1")}), slots)
      /\ Sound(To("scratch", "F1", F1), slots)
      /\ Sound(RateTo("curvature", "Z1T", Z1T), slots)
  BY <1>1, <1>5, <1>6 DEF Sound, To, RateTo, RateAt, Slots, TransportSlots,
     CurvatureFields, BianchiScratch
<1>9. Sound(RateTo(out, "Z1", Z1T), slots)
  BY <1>6, SlopeViews, StepFieldsAre DEF Sound, RateTo, RateAt, Slots
<1>10. Consistent(k, slots)
  BY <1>7, <1>8, <1>9 DEF Consistent
<1>11. Written(k) = ({"scratch"} \X {"F1"}) \cup
                    ({"curvature"} \X Curvature3) \cup {<<out, "Z1">>}
  BY <1>7 DEF Written, To, RateTo, Curvature3
<1>12. Results(k)
  BY <1>7 DEF Results, To, RateTo
<1> QED
  BY <1>10, <1>11, <1>12 DEF slots

\* The jets of an angular operator in the scratch, from the curvature.
EthsOf(f, ft, eth, ethprime) ==
  Eth("curvature", f, ft, "scratch", eth) \cup Eth("curvature", f, ft, "scratch", ethprime)

LEMMA WrittenPair ==
  ASSUME NEW v, NEW f, NEW g, NEW A, NEW B
  PROVE  Written({To(v, f, A), To(v, g, B)}) = {v} \X {f, g}
<1>1. To(v, f, A).slot = <<v, f>> /\ To(v, g, B).slot = <<v, g>>
  BY DEF To
<1>2. Written({To(v, f, A), To(v, g, B)}) = {To(v, f, A).slot, To(v, g, B).slot}
  BY DEF Written
<1> QED
  BY <1>1, <1>2

LEMMA Kernel4 ==
  ASSUME NEW in \in StageViews
  PROVE  LET k == EthsOf("Z1", "Z1T", "Eth4Z1", "EthPrime4Z1")
         IN  /\ Consistent(k, Known(in, Scratch3, Curvature3))
             /\ Written(k) = {"scratch"} \X {"Eth4Z1", "EthPrime4Z1"}
<1> DEFINE k == EthsOf("Z1", "Z1T", "Eth4Z1", "EthPrime4Z1")
           slots == Known(in, Scratch3, Curvature3)
<1>1. Agree(Jet("curvature", "Z1", "Z1T"), slots, 0)
  BY DEF Agree, Jet, Own, Dt, Known, RateAt, Curvature3
<1> HIDE DEF slots
<1>2. k = {To("scratch", "Eth4Z1", Jet("curvature", "Z1", "Z1T")),
           To("scratch", "EthPrime4Z1", Jet("curvature", "Z1", "Z1T"))}
  BY DEF EthsOf, Eth
<1>3. Consistent(k, slots)
  BY <1>1, <1>2 DEF Consistent, Sound, To, RateAt, Slots, TransportSlots, BianchiScratch
<1>4. Written(k) = {"scratch"} \X {"Eth4Z1", "EthPrime4Z1"}
  BY <1>2, WrittenPair
<1> QED
  BY <1>3, <1>4 DEF slots

LEMMA Kernel5 ==
  ASSUME NEW in \in StageViews, NEW out \in Range(Slopes)
  PROVE  LET k == ComputeZ0T(out)
         IN  /\ Consistent(k, Known(in, Scratch4, Curvature3))
             /\ Written(k) = ({"scratch"} \X {"F0"}) \cup
                             ({"curvature"} \X {"Z0T"}) \cup {<<out, "Z0">>}
             /\ Results(k)
<1> DEFINE slots == Known(in, Scratch4, Curvature3)
           F0  == {Own("curvature", "Z0"), Own("curvature", "Z1"),
                   Own("primary", "Sig"), Own("scratch", "Eth4Z1")}
           Z0T == F0 \cup {Own("scratch", "DrZ0")}
           k == ComputeZ0T(out)
<1>1. Agree(F0, slots, 0) /\ Agree({Own("scratch", "DrZ0")}, slots, 0)
  BY DEF Agree, Own, Known, RateAt, PrimaryFields, Curvature3, Scratch4, Scratch3,
     Scratch2, Scratch1
<1> HIDE DEF slots
<1>2. k = {To("scratch", "F0", F0), RateTo("curvature", "Z0T", Z0T), RateTo(out, "Z0", Z0T)}
  BY DEF ComputeZ0T
<1> HIDE DEF F0
<1>3. Agree(Z0T, slots, 0)
  BY <1>1 DEF Agree
<1> HIDE DEF Z0T
<1>4. /\ Sound(To("scratch", "F0", F0), slots)
      /\ Sound(RateTo("curvature", "Z0T", Z0T), slots)
  BY <1>1, <1>3 DEF Sound, To, RateTo, RateAt, Slots, TransportSlots,
     CurvatureFields, BianchiScratch
<1>5. Sound(RateTo(out, "Z0", Z0T), slots)
  BY <1>3, SlopeViews, StepFieldsAre DEF Sound, RateTo, RateAt, Slots
<1>6. Consistent(k, slots)
  BY <1>2, <1>4, <1>5 DEF Consistent
<1>7. Written(k) = ({"scratch"} \X {"F0"}) \cup ({"curvature"} \X {"Z0T"}) \cup {<<out, "Z0">>}
  BY <1>2 DEF Written, To, RateTo
<1>8. Results(k)
  BY <1>2 DEF Results, To, RateTo
<1> QED
  BY <1>6, <1>7, <1>8 DEF slots

LEMMA Kernel6 ==
  ASSUME NEW in \in StageViews
  PROVE  LET k == TangentRadialDerivatives
         IN  /\ Consistent(k, Known(in, Scratch5, Curvature5))
             /\ Written(k) = {"scratch"} \X {"DrZ0T", "DrZ1T"}
<1>1. Consistent(TangentRadialDerivatives, Known(in, Scratch5, Curvature5))
  BY DEF TangentRadialDerivatives, Consistent, Sound, Agree, Known, To, Own, RateAt, Slots,
     TransportSlots, BianchiScratch, Curvature5, Curvature3
<1>2. Written(TangentRadialDerivatives) = {"scratch"} \X {"DrZ0T", "DrZ1T"}
  BY DEF TangentRadialDerivatives, Written, To
<1> QED
  BY <1>1, <1>2

LEMMA Kernel7 ==
  ASSUME NEW in \in StageViews
  PROVE  LET k == ComputeSecondTangents
         IN  /\ Consistent(k, Known(in, Scratch6, Curvature5))
             /\ Written(k) = ({"scratch"} \X {"F1T"}) \cup ({"curvature"} \X {"Z1TT"})
             /\ Results(k)
<1> DEFINE slots == Known(in, Scratch6, Curvature5)
           Metric == Jet("primary", "H", "HT") \cup Jet("primary", "CSharp", "CSharpT") \cup
                     Jet("primary", "BSharp", "BSharpT") \cup Jet("primary", "Ta", "TaT")
           F1T == Jet("curvature", "Z1", "Z1T") \cup Jet("primary", "H", "HT") \cup
                  Jet("primary", "CSharp", "CSharpT") \cup
                  Jet("primary", "BSharp", "BSharpT") \cup Jet("primary", "Ta", "TaT") \cup
                  Jet("scratch", "Eth3H", "Eth3HT") \cup
                  {Own("primary", f) : f \in BackgroundFields}
           Z1T == {Dt("curvature", "Z1T"), Dt("scratch", "DrZ1T")}
           k == ComputeSecondTangents
<1>1. Agree(Jet("curvature", "Z1", "Z1T"), slots, 0) /\ Agree(Z1T, slots, 0)
  BY DEF Agree, Jet, Own, Dt, Known, RateAt, Curvature5, Curvature3, Scratch6
<1>2. Agree(Jet("scratch", "Eth3H", "Eth3HT"), slots, 0)
  BY DEF Agree, Jet, Own, Dt, Known, RateAt, Scratch6, Scratch5, Scratch4, Scratch3, Scratch2
<1>3. /\ Agree(Jet("primary", "H", "HT"), slots, 0)
      /\ Agree(Jet("primary", "CSharp", "CSharpT"), slots, 0)
      /\ Agree(Jet("primary", "BSharp", "BSharpT"), slots, 0)
      /\ Agree(Jet("primary", "Ta", "TaT"), slots, 0)
  BY DEF Agree, Jet, Own, Dt, Known, RateAt, PrimaryFields
<1>4. Agree({Own("primary", f) : f \in BackgroundFields}, slots, 0)
  BY DEF Agree, Own, Known, RateAt, PrimaryFields, BackgroundFields
<1> HIDE DEF slots
<1>5. k = {RateTo("scratch", "F1T", F1T),
           [RateTo("curvature", "Z1TT", F1T \cup Z1T) EXCEPT !.raise = 2]}
  BY DEF ComputeSecondTangents
<1> HIDE DEF Z1T
<1>6. Agree(F1T, slots, 0)
  BY <1>1, <1>2, <1>3, <1>4 DEF Agree
<1> HIDE DEF F1T
<1>7. Agree(F1T \cup Z1T, slots, 0)
  BY <1>1, <1>6 DEF Agree
<1>8. /\ Sound(RateTo("scratch", "F1T", F1T), slots)
      /\ Sound([RateTo("curvature", "Z1TT", F1T \cup Z1T) EXCEPT !.raise = 2], slots)
  BY <1>6, <1>7 DEF Sound, RateTo, RateAt, Slots, TransportSlots,
     CurvatureFields, BianchiScratch
<1>9. Consistent(k, slots)
  BY <1>5, <1>8 DEF Consistent
<1>10. Written(k) = ({"scratch"} \X {"F1T"}) \cup ({"curvature"} \X {"Z1TT"})
  BY <1>5 DEF Written, RateTo
<1>11. Results(k)
  BY <1>5 DEF Results, RateTo
<1> QED
  BY <1>9, <1>10, <1>11 DEF slots

LEMMA Kernel8 ==
  ASSUME NEW in \in StageViews
  PROVE  LET k == EthsOf("Z1T", "Z1TT", "Eth4Z1T", "EthPrime4Z1T")
         IN  /\ Consistent(k, Known(in, Scratch7, Curvature7))
             /\ Written(k) = {"scratch"} \X {"Eth4Z1T", "EthPrime4Z1T"}
<1> DEFINE k == EthsOf("Z1T", "Z1TT", "Eth4Z1T", "EthPrime4Z1T")
           slots == Known(in, Scratch7, Curvature7)
<1>1. Agree(Jet("curvature", "Z1T", "Z1TT"), slots, 1)
  BY DEF Agree, Jet, Own, Dt, Known, RateAt, Curvature7, Curvature5, Curvature3
<1> HIDE DEF slots
<1>2. k = {To("scratch", "Eth4Z1T", Jet("curvature", "Z1T", "Z1TT")),
           To("scratch", "EthPrime4Z1T", Jet("curvature", "Z1T", "Z1TT"))}
  BY DEF EthsOf, Eth
<1>3. Consistent(k, slots)
  BY <1>1, <1>2 DEF Consistent, Sound, To, RateAt, Slots, TransportSlots, BianchiScratch
<1>4. Written(k) = {"scratch"} \X {"Eth4Z1T", "EthPrime4Z1T"}
  BY <1>2, WrittenPair
<1> QED
  BY <1>3, <1>4 DEF slots

LEMMA Kernel9 ==
  ASSUME NEW in \in StageViews
  PROVE  LET k == ComputeZ0TTAndConstraints
         IN  /\ Consistent(k, Known(in, Scratch8, Curvature7))
             /\ Written(k) = ({"scratch"} \X {"F0T"}) \cup ({"curvature"} \X {"Z0TT"}) \cup
                             ({"constraints"} \X ConstraintFields)
             /\ Results(k)
<1> DEFINE slots == Known(in, Scratch8, Curvature7)
           F0T == Jet("curvature", "Z0", "Z0T") \cup Jet("curvature", "Z1", "Z1T") \cup
                  Jet("primary", "Sig", "SigT") \cup Jet("scratch", "Eth4Z1", "Eth4Z1T")
           Z0T == {Dt("curvature", "Z0T"), Dt("scratch", "DrZ0T")}
           C41 == Jet("curvature", "Z1", "Z1T") \cup
                  {Own("scratch", "DrZ1"), Own("scratch", "F1")}
           C50 == Jet("curvature", "Z0", "Z0T") \cup
                  {Own("scratch", "DrZ0"), Own("scratch", "F0")}
           C41T == Jet("curvature", "Z1T", "Z1TT") \cup
                   {Own("scratch", "DrZ1T"), Own("scratch", "F1T")}
           k == ComputeZ0TTAndConstraints
<1>1. /\ Agree(Jet("curvature", "Z0", "Z0T"), slots, 0)
      /\ Agree(Jet("curvature", "Z1", "Z1T"), slots, 0)
      /\ Agree(Jet("curvature", "Z1T", "Z1TT"), slots, 1)
  BY DEF Agree, Jet, Own, Dt, Known, RateAt, Curvature7, Curvature5, Curvature3
<1>2. /\ Agree(Jet("primary", "Sig", "SigT"), slots, 0)
      /\ Agree(Jet("scratch", "Eth4Z1", "Eth4Z1T"), slots, 0)
  BY DEF Agree, Jet, Own, Dt, Known, RateAt, PrimaryFields, Scratch8, Scratch7, Scratch6,
     Scratch5, Scratch4
<1>3. Agree(Z0T, slots, 0)
  BY DEF Agree, Dt, Known, RateAt, Curvature7, Curvature5, Scratch8, Scratch7, Scratch6
<1>4. /\ Agree({Own("scratch", "DrZ1"), Own("scratch", "F1")}, slots, 0)
      /\ Agree({Own("scratch", "DrZ0"), Own("scratch", "F0")}, slots, 0)
      /\ Agree({Own("scratch", "DrZ1T"), Own("scratch", "F1T")}, slots, 1)
  BY DEF Agree, Own, Known, RateAt, Scratch8, Scratch7, Scratch6, Scratch5, Scratch4,
     Scratch3, Scratch2, Scratch1
<1> HIDE DEF slots
<1>5. k = {RateTo("scratch", "F0T", F0T),
           [RateTo("curvature", "Z0TT", F0T \cup Z0T) EXCEPT !.raise = 2],
           To("constraints", "Delta4Z1", C41), To("constraints", "Delta5Z0", C50),
           To("constraints", "Delta4Z1T", C41T),
           RateTo("constraints", "Delta5Z0T", F0T \cup Z0T)}
  BY DEF ComputeZ0TTAndConstraints
<1> HIDE DEF Z0T
<1>6. Agree(F0T, slots, 0)
  BY <1>1, <1>2 DEF Agree
<1>7. Agree(C41, slots, 0) /\ Agree(C50, slots, 0) /\ Agree(C41T, slots, 1)
  BY <1>1, <1>4 DEF Agree
<1> HIDE DEF F0T, C41, C50, C41T
<1>8. Agree(F0T \cup Z0T, slots, 0)
  BY <1>3, <1>6 DEF Agree
<1>9. /\ Sound(RateTo("scratch", "F0T", F0T), slots)
      /\ Sound([RateTo("curvature", "Z0TT", F0T \cup Z0T) EXCEPT !.raise = 2], slots)
  BY <1>6, <1>8 DEF Sound, RateTo, RateAt, Slots, TransportSlots,
     CurvatureFields, BianchiScratch
<1>10. /\ Sound(To("constraints", "Delta4Z1", C41), slots)
       /\ Sound(To("constraints", "Delta5Z0", C50), slots)
       /\ Sound(To("constraints", "Delta4Z1T", C41T), slots)
       /\ Sound(RateTo("constraints", "Delta5Z0T", F0T \cup Z0T), slots)
  BY <1>7, <1>8 DEF Sound, To, RateTo, RateAt, Slots, TransportSlots, ConstraintFields
<1>11. Consistent(k, slots)
  BY <1>5, <1>9, <1>10 DEF Consistent
<1>12. Written(k) = ({"scratch"} \X {"F0T"}) \cup ({"curvature"} \X {"Z0TT"}) \cup
                    ({"constraints"} \X ConstraintFields)
  BY <1>5 DEF Written, To, RateTo, ConstraintFields
<1>13. Results(k)
  BY <1>5 DEF Results, To, RateTo
<1> QED
  BY <1>11, <1>12, <1>13 DEF slots

\* The jets of eth_5 Z0.
EthsOfZ0 == Eth("curvature", "Z0", "Z0T", "scratch", "Eth5Z0") \cup
            Eth("curvature", "Z0T", "Z0TT", "scratch", "Eth5Z0T")

LEMMA Kernel10 ==
  ASSUME NEW in \in StageViews
  PROVE  /\ Consistent(EthsOfZ0, Known(in, Scratch9, CurvatureFields))
         /\ Written(EthsOfZ0) = {"scratch"} \X {"Eth5Z0", "Eth5Z0T"}
<1>1. Consistent(EthsOfZ0, Known(in, Scratch9, CurvatureFields))
  BY DEF EthsOfZ0, Eth, Jet, Dt, Consistent, Sound, Agree, Known, To, Own, RateAt, Slots,
     TransportSlots, BianchiScratch, CurvatureFields
<1>2. Written(EthsOfZ0) = {"scratch"} \X {"Eth5Z0", "Eth5Z0T"}
  BY DEF EthsOfZ0, Eth, To, Written
<1> QED
  BY <1>1, <1>2

LEMMA Kernel11 ==
  ASSUME NEW in \in StageViews
  PROVE  LET k == FinalizeStage
         IN  /\ Consistent(k, Known(in, Scratch10, CurvatureFields))
             /\ Written(k) = {"derivatives"} \X DerivativeFields
             /\ Results(k)
<1> DEFINE slots == Known(in, Scratch10, CurvatureFields)
<1>1. \A f \in DerivativeFields :
        /\ HandedOver[f] \in Scratch10
        /\ RateAt(<<"derivatives", f>>) = RateAt(<<"scratch", HandedOver[f]>>)
  BY DEF HandedOver, DerivativeFields, RateAt, Scratch10, Scratch9, Scratch8, Scratch7,
     Scratch6, Scratch5, Scratch4, Scratch3
<1>2. ASSUME NEW f \in DerivativeFields
      PROVE  Sound(To("derivatives", f, {Own("scratch", HandedOver[f])}), slots)
  <2>1. RateAt(<<"derivatives", f>>) \in Int
    BY DEF RateAt
  <2>2. <<"derivatives", f>> \in Slots
    BY DEF Slots, TransportSlots
  <2>3. <<"scratch", HandedOver[f]>> \in slots
    BY <1>1 DEF Known
  <2> HIDE DEF slots
  <2> QED
    BY <1>1, <2>1, <2>2, <2>3 DEF Sound, Agree, To, Own
<1>3. Consistent(FinalizeStage, slots)
  BY <1>2 DEF Consistent, FinalizeStage
<1>4. Written(FinalizeStage) = {"derivatives"} \X DerivativeFields
  <2>1. Written(FinalizeStage) =
          {To("derivatives", f, {Own("scratch", HandedOver[f])}).slot : f \in DerivativeFields}
    BY DEF FinalizeStage, Written
  <2>2. \A f, reads : To("derivatives", f, reads).slot = <<"derivatives", f>>
    BY DEF To
  <2>3. Written(FinalizeStage) = {<<"derivatives", f>> : f \in DerivativeFields}
    BY <2>1, <2>2
  <2> QED
    BY <2>3
<1>5. Results(FinalizeStage)
  BY DEF Results, FinalizeStage, To
<1> QED
  BY <1>3, <1>4, <1>5

\* The eleven kernels of a stage.
LEMMA ClosureKernels ==
  ASSUME NEW in, NEW out, NEW ready
  PROVE  LET k == Closure(in, out, ready)
         IN  /\ Len(k) = 11
             /\ k[1] = StateRadialDerivatives(in)
             /\ k[2] = EthsOfH
             /\ k[3] = Gated(ready, ComputeZ1T(in, out))
             /\ k[4] = EthsOf("Z1", "Z1T", "Eth4Z1", "EthPrime4Z1")
             /\ k[5] = Gated(ready, ComputeZ0T(out))
             /\ k[6] = TangentRadialDerivatives
             /\ k[7] = Gated(ready, ComputeSecondTangents)
             /\ k[8] = EthsOf("Z1T", "Z1TT", "Eth4Z1T", "EthPrime4Z1T")
             /\ k[9] = Gated(ready, ComputeZ0TTAndConstraints)
             /\ k[10] = EthsOfZ0
             /\ k[11] = Gated(ready, FinalizeStage)
  BY DEF Closure, EthsOf, EthsOfH, EthsOfZ0

\* d is the memory before and after each of the eleven kernels.
Stages(d, memory, in, out, ready) ==
  /\ d[0] = memory
  /\ d[1] = After(d[0], StateRadialDerivatives(in))
  /\ d[2] = After(d[1], EthsOfH)
  /\ d[3] = After(d[2], Gated(ready, ComputeZ1T(in, out)))
  /\ d[4] = After(d[3], EthsOf("Z1", "Z1T", "Eth4Z1", "EthPrime4Z1"))
  /\ d[5] = After(d[4], Gated(ready, ComputeZ0T(out)))
  /\ d[6] = After(d[5], TangentRadialDerivatives)
  /\ d[7] = After(d[6], Gated(ready, ComputeSecondTangents))
  /\ d[8] = After(d[7], EthsOf("Z1T", "Z1TT", "Eth4Z1T", "EthPrime4Z1T"))
  /\ d[9] = After(d[8], Gated(ready, ComputeZ0TTAndConstraints))
  /\ d[10] = After(d[9], EthsOfZ0)
  /\ d[11] = After(d[10], Gated(ready, FinalizeStage))
  /\ Run(memory, Closure(in, out, ready)) = d[11]

LEMMA ClosureSteps ==
  ASSUME NEW memory, NEW in, NEW out, NEW ready
  PROVE  \E d : Stages(d, memory, in, out, ready)
<1> DEFINE k == Closure(in, out, ready)
<1>1. Len(k) = 11
  BY ClosureKernels
<1> HIDE DEF k
<1>2. PICK d : /\ d[0] = memory
               /\ \A n \in 1 .. Len(k) : d[n] = After(d[n - 1], k[n])
               /\ Run(memory, k) = d[Len(k)]
  <2>1. Len(k) \in Nat
    BY <1>1
  <2> QED
    BY <2>1, RunSteps
<1>3. \A n \in 1 .. 11 : d[n] = After(d[n - 1], k[n])
  BY <1>1, <1>2
<1>4. /\ d[1] = After(d[0], k[1]) /\ d[2] = After(d[1], k[2])
      /\ d[3] = After(d[2], k[3]) /\ d[4] = After(d[3], k[4])
      /\ d[5] = After(d[4], k[5]) /\ d[6] = After(d[5], k[6])
      /\ d[7] = After(d[6], k[7]) /\ d[8] = After(d[7], k[8])
      /\ d[9] = After(d[8], k[9]) /\ d[10] = After(d[9], k[10])
      /\ d[11] = After(d[10], k[11])
  BY <1>3
<1>5. Run(memory, Closure(in, out, ready)) = d[11]
  BY <1>1, <1>2 DEF k
<1> QED
  BY <1>2, <1>4, <1>5, ClosureKernels DEF Stages, k

\* Memory of a stage in which the slots known so far are clean.
Holds(memory, known, z, h) == DOMAIN memory = Slots /\ Within(memory, known, Clean(z, h))

\* One kernel of a stage that is ready.
LEMMA ClosureStep ==
  ASSUME NEW memory, NEW z, NEW h, NEW known \in SUBSET Slots,
         Holds(memory, known, z, h),
         NEW reads \in SUBSET known, NEW kernel, Consistent(kernel, reads),
         NEW after, after \subseteq known \cup Written(kernel)
  PROVE  Holds(After(memory, kernel), after, z, h)
<1>1. Consistent(kernel, known)
  BY DEF Consistent, Sound, Agree
<1>2. Keeps(kernel, known, Clean(z, h))
  BY <1>1, ConsistentKeeps
<1>3. Written(kernel) \subseteq Slots
  BY DEF Written, Consistent, Sound
<1>4. DOMAIN memory = Slots /\ Within(memory, known, Clean(z, h))
  BY DEF Holds
<1>5. Within(After(memory, kernel), known \cup Written(kernel), Clean(z, h))
  BY <1>2, <1>3, <1>4, AfterWithin
<1>6. DOMAIN After(memory, kernel) = Slots
  BY <1>4, AfterDomain
<1> QED
  BY <1>5, <1>6 DEF Holds, Within

LEMMA KnownSlots ==
  ASSUME NEW in \in StageViews, NEW scratch \in SUBSET BianchiScratch,
         NEW curvature \in SUBSET CurvatureFields
  PROVE  Known(in, scratch, curvature) \subseteq Slots
  BY StepFieldsAre DEF Known, Slots, TransportSlots, StateFields

\* The closure is triangular: of clean inputs it makes clean outputs, whatever
\* its scratch was before.
LEMMA ClosureClean ==
  ASSUME NEW memory, DOMAIN memory = Slots, NEW in \in StageViews,
         NEW out \in Range(Slopes), NEW z, NEW h, NEW ready, ready,
         Within(memory, Known(in, {}, {}), Clean(z, h))
  PROVE  Within(Run(memory, Closure(in, out, ready)), Outputs(out), Clean(z, h))
<1> DEFINE Z1 == {<<out, "Z1">>}
           ZZ == {out} \X StateFields
           C  == {"constraints"} \X ConstraintFields
<1>1. PICK d : Stages(d, memory, in, out, ready)
  BY ClosureSteps, Zenon
<1>2. \A kernel : Gated(ready, kernel) = kernel
  BY GatedReady
<1>3. Z1 \subseteq Slots /\ ZZ \subseteq Slots /\ C \subseteq Slots
  BY SlopeViews, StepFieldsAre DEF Slots, TransportSlots, StateFields
<1>4. /\ Scratch1 \subseteq BianchiScratch /\ Scratch2 \subseteq BianchiScratch
      /\ Scratch3 \subseteq BianchiScratch /\ Scratch4 \subseteq BianchiScratch
      /\ Scratch5 \subseteq BianchiScratch /\ Scratch6 \subseteq BianchiScratch
      /\ Scratch7 \subseteq BianchiScratch /\ Scratch8 \subseteq BianchiScratch
      /\ Scratch9 \subseteq BianchiScratch /\ Scratch10 \subseteq BianchiScratch
  BY DEF BianchiScratch, Scratch1, Scratch2, Scratch3, Scratch4, Scratch5, Scratch6,
     Scratch7, Scratch8, Scratch9, Scratch10
<1>5. /\ Curvature3 \subseteq CurvatureFields /\ Curvature5 \subseteq CurvatureFields
      /\ Curvature7 \subseteq CurvatureFields
  BY DEF CurvatureFields, Curvature3, Curvature5, Curvature7
<1>6. Holds(d[0], Known(in, {}, {}), z, h)
  BY <1>1 DEF Holds, Stages
<1>7. Holds(d[1], Known(in, Scratch1, {}), z, h)
  <2>1. Consistent(StateRadialDerivatives(in), Known(in, {}, {}))
    BY Kernel1
  <2>2. Written(StateRadialDerivatives(in)) =
          {"scratch"} \X Scratch1
    BY Kernel1
  <2>3. Known(in, {}, {}) \in SUBSET Slots
    BY <1>3, <1>4, <1>5, KnownSlots
  <2>4. Known(in, Scratch1, {}) \subseteq
          Known(in, {}, {}) \cup Written(StateRadialDerivatives(in))
    BY <2>2 DEF Known
  <2>5. d[1] = After(d[0], StateRadialDerivatives(in))
    BY <1>1, <1>2 DEF Stages
  <2> QED
    BY <1>6, <2>1, <2>3, <2>4, <2>5, ClosureStep
<1>8. Holds(d[2], Known(in, Scratch2, {}), z, h)
  <2>1. Consistent(EthsOfH, Known(in, Scratch1, {}))
    BY Kernel2
  <2>2. Written(EthsOfH) =
          {"scratch"} \X {"Eth3H", "Eth3HT"}
    BY Kernel2
  <2>3. Known(in, Scratch1, {}) \in SUBSET Slots
    BY <1>3, <1>4, <1>5, KnownSlots
  <2>4. Known(in, Scratch2, {}) \subseteq
          Known(in, Scratch1, {}) \cup Written(EthsOfH)
    BY <2>2 DEF Known, Scratch2
  <2>5. d[2] = After(d[1], EthsOfH)
    BY <1>1, <1>2 DEF Stages
  <2> QED
    BY <1>7, <2>1, <2>3, <2>4, <2>5, ClosureStep
<1>9. Holds(d[3], Known(in, Scratch3, Curvature3) \cup Z1, z, h)
  <2>1. Consistent(ComputeZ1T(in, out), Known(in, Scratch2, {}))
    BY Kernel3
  <2>2. Written(ComputeZ1T(in, out)) =
          ({"scratch"} \X {"F1"}) \cup ({"curvature"} \X Curvature3) \cup Z1
    BY Kernel3
  <2>3. Known(in, Scratch2, {}) \in SUBSET Slots
    BY <1>3, <1>4, <1>5, KnownSlots
  <2>4. Known(in, Scratch3, Curvature3) \cup Z1 \subseteq
          Known(in, Scratch2, {}) \cup Written(ComputeZ1T(in, out))
    BY <2>2 DEF Known, Scratch3
  <2>5. d[3] = After(d[2], ComputeZ1T(in, out))
    BY <1>1, <1>2 DEF Stages
  <2> QED
    BY <1>8, <2>1, <2>3, <2>4, <2>5, ClosureStep
<1>10. Holds(d[4], Known(in, Scratch4, Curvature3) \cup Z1, z, h)
  <2>1. Consistent(EthsOf("Z1", "Z1T", "Eth4Z1", "EthPrime4Z1"), Known(in, Scratch3, Curvature3))
    BY Kernel4
  <2>2. Written(EthsOf("Z1", "Z1T", "Eth4Z1", "EthPrime4Z1")) =
          {"scratch"} \X {"Eth4Z1", "EthPrime4Z1"}
    BY Kernel4
  <2>3. Known(in, Scratch3, Curvature3) \cup Z1 \in SUBSET Slots
    BY <1>3, <1>4, <1>5, KnownSlots
  <2>4. Known(in, Scratch4, Curvature3) \cup Z1 \subseteq
          Known(in, Scratch3, Curvature3) \cup Z1 \cup Written(EthsOf("Z1", "Z1T", "Eth4Z1", "EthPrime4Z1"))
    BY <2>2 DEF Known, Scratch4
  <2>5. d[4] = After(d[3], EthsOf("Z1", "Z1T", "Eth4Z1", "EthPrime4Z1"))
    BY <1>1, <1>2 DEF Stages
  <2>6. Known(in, Scratch3, Curvature3) \in SUBSET (Known(in, Scratch3, Curvature3) \cup Z1)
    OBVIOUS
  <2> QED
    BY <1>9, <2>1, <2>3, <2>4, <2>5, <2>6, ClosureStep
<1>11. Holds(d[5], Known(in, Scratch5, Curvature5) \cup ZZ, z, h)
  <2>1. Consistent(ComputeZ0T(out), Known(in, Scratch4, Curvature3))
    BY Kernel5
  <2>2. Written(ComputeZ0T(out)) =
          ({"scratch"} \X {"F0"}) \cup ({"curvature"} \X {"Z0T"}) \cup {<<out, "Z0">>}
    BY Kernel5
  <2>3. Known(in, Scratch4, Curvature3) \cup Z1 \in SUBSET Slots
    BY <1>3, <1>4, <1>5, KnownSlots
  <2>4. Known(in, Scratch5, Curvature5) \cup ZZ \subseteq
          Known(in, Scratch4, Curvature3) \cup Z1 \cup Written(ComputeZ0T(out))
    BY <2>2 DEF Known, Scratch5, Curvature5, StateFields
  <2>5. d[5] = After(d[4], ComputeZ0T(out))
    BY <1>1, <1>2 DEF Stages
  <2>6. Known(in, Scratch4, Curvature3) \in SUBSET (Known(in, Scratch4, Curvature3) \cup Z1)
    OBVIOUS
  <2> QED
    BY <1>10, <2>1, <2>3, <2>4, <2>5, <2>6, ClosureStep
<1>12. Holds(d[6], Known(in, Scratch6, Curvature5) \cup ZZ, z, h)
  <2>1. Consistent(TangentRadialDerivatives, Known(in, Scratch5, Curvature5))
    BY Kernel6
  <2>2. Written(TangentRadialDerivatives) =
          {"scratch"} \X {"DrZ0T", "DrZ1T"}
    BY Kernel6
  <2>3. Known(in, Scratch5, Curvature5) \cup ZZ \in SUBSET Slots
    BY <1>3, <1>4, <1>5, KnownSlots
  <2>4. Known(in, Scratch6, Curvature5) \cup ZZ \subseteq
          Known(in, Scratch5, Curvature5) \cup ZZ \cup Written(TangentRadialDerivatives)
    BY <2>2 DEF Known, Scratch6
  <2>5. d[6] = After(d[5], TangentRadialDerivatives)
    BY <1>1, <1>2 DEF Stages
  <2>6. Known(in, Scratch5, Curvature5) \in SUBSET (Known(in, Scratch5, Curvature5) \cup ZZ)
    OBVIOUS
  <2> QED
    BY <1>11, <2>1, <2>3, <2>4, <2>5, <2>6, ClosureStep
<1>13. Holds(d[7], Known(in, Scratch7, Curvature7) \cup ZZ, z, h)
  <2>1. Consistent(ComputeSecondTangents, Known(in, Scratch6, Curvature5))
    BY Kernel7
  <2>2. Written(ComputeSecondTangents) =
          ({"scratch"} \X {"F1T"}) \cup ({"curvature"} \X {"Z1TT"})
    BY Kernel7
  <2>3. Known(in, Scratch6, Curvature5) \cup ZZ \in SUBSET Slots
    BY <1>3, <1>4, <1>5, KnownSlots
  <2>4. Known(in, Scratch7, Curvature7) \cup ZZ \subseteq
          Known(in, Scratch6, Curvature5) \cup ZZ \cup Written(ComputeSecondTangents)
    BY <2>2 DEF Known, Scratch7, Curvature7
  <2>5. d[7] = After(d[6], ComputeSecondTangents)
    BY <1>1, <1>2 DEF Stages
  <2>6. Known(in, Scratch6, Curvature5) \in SUBSET (Known(in, Scratch6, Curvature5) \cup ZZ)
    OBVIOUS
  <2> QED
    BY <1>12, <2>1, <2>3, <2>4, <2>5, <2>6, ClosureStep
<1>14. Holds(d[8], Known(in, Scratch8, Curvature7) \cup ZZ, z, h)
  <2>1. Consistent(EthsOf("Z1T", "Z1TT", "Eth4Z1T", "EthPrime4Z1T"), Known(in, Scratch7, Curvature7))
    BY Kernel8
  <2>2. Written(EthsOf("Z1T", "Z1TT", "Eth4Z1T", "EthPrime4Z1T")) =
          {"scratch"} \X {"Eth4Z1T", "EthPrime4Z1T"}
    BY Kernel8
  <2>3. Known(in, Scratch7, Curvature7) \cup ZZ \in SUBSET Slots
    BY <1>3, <1>4, <1>5, KnownSlots
  <2>4. Known(in, Scratch8, Curvature7) \cup ZZ \subseteq
          Known(in, Scratch7, Curvature7) \cup ZZ \cup Written(EthsOf("Z1T", "Z1TT", "Eth4Z1T", "EthPrime4Z1T"))
    BY <2>2 DEF Known, Scratch8
  <2>5. d[8] = After(d[7], EthsOf("Z1T", "Z1TT", "Eth4Z1T", "EthPrime4Z1T"))
    BY <1>1, <1>2 DEF Stages
  <2>6. Known(in, Scratch7, Curvature7) \in SUBSET (Known(in, Scratch7, Curvature7) \cup ZZ)
    OBVIOUS
  <2> QED
    BY <1>13, <2>1, <2>3, <2>4, <2>5, <2>6, ClosureStep
<1>15. Holds(d[9], Known(in, Scratch9, CurvatureFields) \cup (ZZ \cup C), z, h)
  <2>1. Consistent(ComputeZ0TTAndConstraints, Known(in, Scratch8, Curvature7))
    BY Kernel9
  <2>2. Written(ComputeZ0TTAndConstraints) =
          ({"scratch"} \X {"F0T"}) \cup ({"curvature"} \X {"Z0TT"}) \cup C
    BY Kernel9
  <2>3. Known(in, Scratch8, Curvature7) \cup ZZ \in SUBSET Slots
    BY <1>3, <1>4, <1>5, KnownSlots
  <2>4. Known(in, Scratch9, CurvatureFields) \cup (ZZ \cup C) \subseteq
          Known(in, Scratch8, Curvature7) \cup ZZ \cup Written(ComputeZ0TTAndConstraints)
    BY <2>2 DEF Known, Scratch9, Curvature7, Curvature5, Curvature3, CurvatureFields
  <2>5. d[9] = After(d[8], ComputeZ0TTAndConstraints)
    BY <1>1, <1>2 DEF Stages
  <2>6. Known(in, Scratch8, Curvature7) \in SUBSET (Known(in, Scratch8, Curvature7) \cup ZZ)
    OBVIOUS
  <2> QED
    BY <1>14, <2>1, <2>3, <2>4, <2>5, <2>6, ClosureStep
<1>16. Holds(d[10], Known(in, Scratch10, CurvatureFields) \cup (ZZ \cup C), z, h)
  <2>1. Consistent(EthsOfZ0, Known(in, Scratch9, CurvatureFields))
    BY Kernel10
  <2>2. Written(EthsOfZ0) =
          {"scratch"} \X {"Eth5Z0", "Eth5Z0T"}
    BY Kernel10
  <2>3. Known(in, Scratch9, CurvatureFields) \cup (ZZ \cup C) \in SUBSET Slots
    BY <1>3, <1>4, <1>5, KnownSlots
  <2>4. Known(in, Scratch10, CurvatureFields) \cup (ZZ \cup C) \subseteq
          Known(in, Scratch9, CurvatureFields) \cup (ZZ \cup C) \cup Written(EthsOfZ0)
    BY <2>2 DEF Known, Scratch10
  <2>5. d[10] = After(d[9], EthsOfZ0)
    BY <1>1, <1>2 DEF Stages
  <2>6. Known(in, Scratch9, CurvatureFields) \in SUBSET (Known(in, Scratch9, CurvatureFields) \cup (ZZ \cup C))
    OBVIOUS
  <2> QED
    BY <1>15, <2>1, <2>3, <2>4, <2>5, <2>6, ClosureStep
<1>17. Holds(d[11], Known(in, Scratch10, CurvatureFields) \cup (ZZ \cup C) \cup
                  ({"derivatives"} \X DerivativeFields), z, h)
  <2>1. Consistent(FinalizeStage, Known(in, Scratch10, CurvatureFields))
    BY Kernel11
  <2>2. Written(FinalizeStage) =
          {"derivatives"} \X DerivativeFields
    BY Kernel11
  <2>3. Known(in, Scratch10, CurvatureFields) \cup (ZZ \cup C) \in SUBSET Slots
    BY <1>3, <1>4, <1>5, KnownSlots
  <2>4. Known(in, Scratch10, CurvatureFields) \cup (ZZ \cup C) \cup
                  ({"derivatives"} \X DerivativeFields) \subseteq
          Known(in, Scratch10, CurvatureFields) \cup (ZZ \cup C) \cup Written(FinalizeStage)
    BY <2>2
  <2>5. d[11] = After(d[10], FinalizeStage)
    BY <1>1, <1>2 DEF Stages
  <2>6. Known(in, Scratch10, CurvatureFields) \in SUBSET (Known(in, Scratch10, CurvatureFields) \cup (ZZ \cup C))
    OBVIOUS
  <2> QED
    BY <1>16, <2>1, <2>3, <2>4, <2>5, <2>6, ClosureStep
<1>18. Outputs(out) \subseteq Known(in, Scratch10, CurvatureFields) \cup (ZZ \cup C) \cup
                              ({"derivatives"} \X DerivativeFields)
  BY DEF Outputs, Known
<1> QED
  BY <1>1, <1>17, <1>18 DEF Within, Holds, Stages

\* What the kernels write: the first ten scratch, the gated ones the outputs, and
\* those from nothing where the inputs are not good.
LEMMA ClosureWrites ==
  ASSUME NEW in \in StageViews, NEW out \in Range(Slopes), NEW ready \in BOOLEAN
  PROVE  LET k == Closure(in, out, ready)
         IN  /\ \A n \in {1, 2, 4, 6, 8, 10} :
                  Written(k[n]) \subseteq {"scratch"} \X BianchiScratch
             /\ Written(k[3]) = ({"scratch"} \X {"F1"}) \cup
                                ({"curvature"} \X Curvature3) \cup {<<out, "Z1">>}
             /\ Written(k[5]) = ({"scratch"} \X {"F0"}) \cup
                                ({"curvature"} \X {"Z0T"}) \cup {<<out, "Z0">>}
             /\ Written(k[7]) = ({"scratch"} \X {"F1T"}) \cup ({"curvature"} \X {"Z1TT"})
             /\ Written(k[9]) = ({"scratch"} \X {"F0T"}) \cup ({"curvature"} \X {"Z0TT"}) \cup
                                ({"constraints"} \X ConstraintFields)
             /\ Written(k[11]) = {"derivatives"} \X DerivativeFields
             /\ ~ready => \A n \in {3, 5, 7, 9, 11} : \A r \in k[n] : r.reads = {}
<1> DEFINE k == Closure(in, out, ready)
<1>1. /\ k[1] = StateRadialDerivatives(in)
      /\ k[2] = EthsOfH
      /\ k[3] = Gated(ready, ComputeZ1T(in, out))
      /\ k[4] = EthsOf("Z1", "Z1T", "Eth4Z1", "EthPrime4Z1")
      /\ k[5] = Gated(ready, ComputeZ0T(out))
      /\ k[6] = TangentRadialDerivatives
      /\ k[7] = Gated(ready, ComputeSecondTangents)
      /\ k[8] = EthsOf("Z1T", "Z1TT", "Eth4Z1T", "EthPrime4Z1T")
      /\ k[9] = Gated(ready, ComputeZ0TTAndConstraints)
      /\ k[10] = EthsOfZ0
      /\ k[11] = Gated(ready, FinalizeStage)
  BY ClosureKernels
<1> HIDE DEF k
<1>2. \A n \in {1, 2, 4, 6, 8, 10} : Written(k[n]) \subseteq {"scratch"} \X BianchiScratch
  <2>1. /\ Written(k[1]) = {"scratch"} \X Scratch1
        /\ Written(k[2]) = {"scratch"} \X {"Eth3H", "Eth3HT"}
        /\ Written(k[4]) = {"scratch"} \X {"Eth4Z1", "EthPrime4Z1"}
    BY <1>1, Kernel1, Kernel2, Kernel4
  <2>2. /\ Written(k[6]) = {"scratch"} \X {"DrZ0T", "DrZ1T"}
        /\ Written(k[8]) = {"scratch"} \X {"Eth4Z1T", "EthPrime4Z1T"}
        /\ Written(k[10]) = {"scratch"} \X {"Eth5Z0", "Eth5Z0T"}
    BY <1>1, Kernel6, Kernel8, Kernel10
  <2>3. \A f \in SUBSET BianchiScratch : {"scratch"} \X f \subseteq {"scratch"} \X BianchiScratch
    OBVIOUS
  <2>4. /\ Scratch1 \in SUBSET BianchiScratch /\ {"Eth3H", "Eth3HT"} \in SUBSET BianchiScratch
        /\ {"Eth4Z1", "EthPrime4Z1"} \in SUBSET BianchiScratch
        /\ {"DrZ0T", "DrZ1T"} \in SUBSET BianchiScratch
        /\ {"Eth4Z1T", "EthPrime4Z1T"} \in SUBSET BianchiScratch
        /\ {"Eth5Z0", "Eth5Z0T"} \in SUBSET BianchiScratch
    BY DEF BianchiScratch, Scratch1
  <2> QED
    BY <2>1, <2>2, <2>3, <2>4
<1>3. \A kernel : Results(kernel) =>
        /\ Written(Gated(ready, kernel)) = Written(kernel)
        /\ ~ready => \A r \in Gated(ready, kernel) : r.reads = {}
  BY GatedKernel DEF Results
<1>4. /\ Written(k[3]) = ({"scratch"} \X {"F1"}) \cup
                         ({"curvature"} \X Curvature3) \cup {<<out, "Z1">>}
      /\ ~ready => \A r \in k[3] : r.reads = {}
  BY <1>1, <1>3, Kernel3
<1>5. /\ Written(k[5]) = ({"scratch"} \X {"F0"}) \cup
                         ({"curvature"} \X {"Z0T"}) \cup {<<out, "Z0">>}
      /\ ~ready => \A r \in k[5] : r.reads = {}
  BY <1>1, <1>3, Kernel5
<1>6. /\ Written(k[7]) = ({"scratch"} \X {"F1T"}) \cup ({"curvature"} \X {"Z1TT"})
      /\ ~ready => \A r \in k[7] : r.reads = {}
  BY <1>1, <1>3, Kernel7
<1>7. /\ Written(k[9]) = ({"scratch"} \X {"F0T"}) \cup ({"curvature"} \X {"Z0TT"}) \cup
                         ({"constraints"} \X ConstraintFields)
      /\ ~ready => \A r \in k[9] : r.reads = {}
  BY <1>1, <1>3, Kernel9
<1>8. /\ Written(k[11]) = {"derivatives"} \X DerivativeFields
      /\ ~ready => \A r \in k[11] : r.reads = {}
  BY <1>1, <1>3, Kernel11
<1> QED
  BY <1>2, <1>4, <1>5, <1>6, <1>7, <1>8 DEF k

\* A stage that is not ready leaves zeros in all its outputs.
LEMMA ClosureEmpty ==
  ASSUME NEW memory, DOMAIN memory = Slots, NEW in \in StageViews,
         NEW out \in Range(Slopes), NEW ready \in BOOLEAN, ~ready,
         NEW s \in Outputs(out), NEW m \in Modes
  PROVE  Run(memory, Closure(in, out, ready))[s][m] = {}
<1> DEFINE k == Closure(in, out, ready)
<1>1. Len(k) = 11 /\ Len(k) \in Nat
  BY ClosureKernels
<1>2. /\ \A n \in {1, 2, 4, 6, 8, 10} : s \notin Written(k[n])
      /\ \A n \in {3, 5, 7, 9, 11} : \A r \in k[n] : r.reads = {}
  <2>1. s \notin {"scratch"} \X BianchiScratch
    BY SlopeViews DEF Outputs
  <2> QED
    BY <2>1, ClosureWrites
<1>3. s \in Slots
  BY SlopeViews, StepFieldsAre DEF Outputs, Slots, TransportSlots, StateFields
<1>4. \E n \in {3, 5, 7, 9, 11} : s \in Written(k[n])
  <2>1. Outputs(out) \subseteq
          ({"curvature"} \X Curvature3) \cup {<<out, "Z1">>} \cup
          ({"curvature"} \X {"Z0T"}) \cup {<<out, "Z0">>} \cup
          ({"curvature"} \X {"Z1TT"}) \cup ({"curvature"} \X {"Z0TT"}) \cup
          ({"constraints"} \X ConstraintFields) \cup ({"derivatives"} \X DerivativeFields)
    BY DEF Outputs, CurvatureFields, Curvature3, StateFields
  <2> HIDE DEF k
  <2>2. /\ ({"curvature"} \X Curvature3) \cup {<<out, "Z1">>} \subseteq Written(k[3])
        /\ ({"curvature"} \X {"Z0T"}) \cup {<<out, "Z0">>} \subseteq Written(k[5])
        /\ {"curvature"} \X {"Z1TT"} \subseteq Written(k[7])
        /\ ({"curvature"} \X {"Z0TT"}) \cup ({"constraints"} \X ConstraintFields)
             \subseteq Written(k[9])
        /\ {"derivatives"} \X DerivativeFields \subseteq Written(k[11])
    BY ClosureWrites DEF k
  <2> QED
    BY <2>1, <2>2
<1>5. PICK n \in 1 .. 11 : s \in Written(k[n])
  BY <1>4
<1>6. \A i \in n .. 11 : s \in Written(k[i]) => \A r \in k[i] : r.reads = {}
  <2>1. \A i \in n .. 11 : i \in {1, 2, 4, 6, 8, 10} \cup {3, 5, 7, 9, 11}
    OBVIOUS
  <2> HIDE DEF k
  <2> QED
    BY <1>2, <2>1
<1> HIDE DEF k
<1>7. \A mode \in Modes : Run(memory, k)[s][mode] = {}
  <2>1. /\ Len(k) \in Nat /\ n \in 1 .. Len(k) /\ s \in DOMAIN memory
        /\ \A i \in n .. Len(k) : s \in Written(k[i]) => \A r \in k[i] : r.reads = {}
    BY <1>1, <1>3, <1>6
  <2> QED
    BY <1>5, <2>1, RunEmpty
<1> QED
  BY <1>7 DEF k

\* The closure writes its outputs and its scratch, nothing else.
LEMMA ClosureElsewhere ==
  ASSUME NEW memory, DOMAIN memory = Slots, NEW in \in StageViews,
         NEW out \in Range(Slopes), NEW ready \in BOOLEAN,
         NEW s \in Slots, s \notin Outputs(out), s[1] # "scratch"
  PROVE  /\ DOMAIN Run(memory, Closure(in, out, ready)) = Slots
         /\ Run(memory, Closure(in, out, ready))[s] = memory[s]
<1> DEFINE k == Closure(in, out, ready)
<1>1. Len(k) = 11 /\ Len(k) \in Nat
  BY ClosureKernels
<1>2. s \notin ({"scratch"} \X BianchiScratch) \cup Outputs(out)
  OBVIOUS
<1>3. \A n \in {1, 2, 4, 6, 8, 10} :
        Written(k[n]) \subseteq ({"scratch"} \X BianchiScratch) \cup Outputs(out)
  BY ClosureWrites
<1>4. /\ ({"scratch"} \X {"F1"}) \cup ({"curvature"} \X Curvature3) \cup {<<out, "Z1">>}
           \subseteq ({"scratch"} \X BianchiScratch) \cup Outputs(out)
      /\ ({"scratch"} \X {"F0"}) \cup ({"curvature"} \X {"Z0T"}) \cup {<<out, "Z0">>}
           \subseteq ({"scratch"} \X BianchiScratch) \cup Outputs(out)
      /\ ({"scratch"} \X {"F1T"}) \cup ({"curvature"} \X {"Z1TT"})
           \subseteq ({"scratch"} \X BianchiScratch) \cup Outputs(out)
      /\ ({"scratch"} \X {"F0T"}) \cup ({"curvature"} \X {"Z0TT"}) \cup
           ({"constraints"} \X ConstraintFields)
           \subseteq ({"scratch"} \X BianchiScratch) \cup Outputs(out)
      /\ {"derivatives"} \X DerivativeFields \subseteq Outputs(out)
  BY DEF BianchiScratch, Outputs, Curvature3, CurvatureFields, StateFields
<1>5. /\ s \notin Written(k[3]) /\ s \notin Written(k[5]) /\ s \notin Written(k[7])
      /\ s \notin Written(k[9]) /\ s \notin Written(k[11])
  BY <1>2, <1>4, ClosureWrites
<1>6. \A n \in 1 .. 11 : s \notin Written(k[n])
  <2> HIDE DEF k
  <2> QED
    BY <1>2, <1>3, <1>5
<1> HIDE DEF k
<1>7. DOMAIN Run(memory, k) = Slots /\ Run(memory, k)[s] = memory[s]
  BY <1>1, <1>6, RunElsewhere
<1> QED
  BY <1>7 DEF k

-----------------------------------------------------------------------------
(* What the buffers hold, the inductive invariant *)

\* The device is a record; its memory has every slot and its metric inputs a
\* stamp each.
DeviceInv ==
  /\ device = [memory |-> device.memory, primary |-> device.primary,
               curvature |-> device.curvature, derivatives |-> device.derivatives,
               ready |-> device.ready]
  /\ DOMAIN device.memory = Slots
  /\ device.primary \in [PrimaryFields -> [Modes -> Nat]]

\* Contents are numbered; from the second stage on all three systems are
\* evaluated from the latest.
HoldsInv ==
  /\ serial \in Nat
  /\ holds \in [Systems -> [StageViews -> Nat]]
  /\ \A s \in Systems, v \in StageViews : holds[s][v] <= serial
  /\ step.stage >= 2 => \A s \in Systems : holds[s]["stage"] = serial

\* State and stage buffers hold the contents they are known by, or numbers that
\* are not finite; those of the primary and of the companion are not zero.
BuffersInv ==
  \A s \in Systems, v \in StageViews : \A f \in FieldsOf[s], m \in Modes :
    /\ device.memory[<<v, f>>][m] \subseteq {InputOf(f, holds[s][v], m, 0), NonFinite}
    /\ f \in {"Primary", "Companion"} /\ (v = "state" \/ step.stage >= 2)
         => InputOf(f, holds[s][v], m, 0) \in device.memory[<<v, f>>][m]

\* A metric input holds what the primary had at some stage.
MetricInput(f, m, h) ==
  {i \in [field: {"Primary"}, stage: h, mode: {m, -m}, rate: Int] :
     i.rate = RateAt(<<"primary", f>>)}
MetricInv ==
  \A f \in PrimaryFields, m \in Modes :
    device.memory[<<"primary", f>>][m] \subseteq MetricInput(f, m, 0 .. serial) \cup {NonFinite}

\* Without another life's or a failed call's inputs, every stamp is one of this
\* life's past generations.
AgeInv ==
  /\ lives = 0 => ~host.initialized /\ \A f \in PrimaryFields, m \in Modes :
                                         device.primary[f][m] = 0
  /\ leftovers \in BOOLEAN
  /\ ~leftovers => \A f \in PrimaryFields, m \in Modes : device.primary[f][m] <= host.last

\* An input belongs to the contents that each system had at one stage, those of
\* the primary to older ones if there can be any.
FromStage(i, at, older) ==
  /\ i.field = "Primary" => i.stage = at["primary"] \/ older
  /\ i.field \in StateFields => i.stage = at["bianchi"]
  /\ i.field = "Companion" => i.stage = at["companion"]

\* A slope of all systems, made of the contents at one stage.
Slope(memory, view, at, older) ==
  /\ \A f \in StepFields, m \in Modes : \A i \in memory[<<view, f>>][m] : FromStage(i, at, older)
  /\ \A m \in Modes :
       /\ InputOf("Primary", at["primary"], m, 1) \in memory[<<view, "Primary">>][m]
       /\ InputOf("Companion", at["companion"], m, 1) \in memory[<<view, "Companion">>][m]

\* The contents at an earlier stage of this step.
ContentsAt(i) ==
  [s \in Systems |-> IF i = 1 THEN holds[s]["state"] ELSE serial - (step.stage - i)]
SlopesInv ==
  \A i \in 1 .. 4 : i < step.stage => Slope(device.memory, Slopes[i], ContentsAt(i), leftovers)

TransportInv ==
  /\ CounterInv /\ DeviceInv /\ HoldsInv /\ BuffersInv /\ MetricInv /\ AgeInv /\ SlopesInv
  /\ WholeStageOrNone

-----------------------------------------------------------------------------
(* What a stage leaves *)

\* A kernel with one rate for its result.
RateMadeOf(i, memory, reads, m) ==
  \E q \in reads : \E j \in memory[q.slot][q.sign * m] : i = Moved(j, 1 - q.rate)

LEMMA AfterRate ==
  ASSUME NEW memory, NEW view, NEW f, NEW reads, <<view, f>> \in DOMAIN memory
  PROVE  LET M == After(memory, {RateTo(view, f, reads)})
         IN  /\ DOMAIN M = DOMAIN memory
             /\ \A s \in DOMAIN memory : s # <<view, f>> => M[s] = memory[s]
             /\ \A m \in Modes : \A i :
                  i \in M[<<view, f>>][m] <=> RateMadeOf(i, memory, reads, m)
<1> DEFINE r == RateTo(view, f, reads)
           k == {r}
<1>1. r.slot = <<view, f>> /\ r.reads = reads /\ r.raise = 1
  BY DEF RateTo
<1> HIDE DEF r
<1>2. Written(k) = {<<view, f>>}
  BY <1>1 DEF Written
<1>3. DOMAIN After(memory, k) = DOMAIN memory
  BY AfterDomain
<1>4. \A s \in DOMAIN memory : s # <<view, f>> => After(memory, k)[s] = memory[s]
  BY <1>2, AfterElsewhere
<1>5. ASSUME NEW m \in Modes, NEW i
      PROVE  i \in After(memory, k)[<<view, f>>][m] <=>
               RateMadeOf(i, memory, reads, m)
  <2> DEFINE Made(x) == /\ x.slot = <<view, f>>
                        /\ \E q \in x.reads : \E j \in memory[q.slot][q.sign * m] :
                             i = Moved(j, x.raise - q.rate)
  <2>1. i \in After(memory, k)[<<view, f>>][m] <=> \E x \in k : Made(x)
    <3>1. <<view, f>> \in Written(k)
      BY <1>2
    <3> HIDE DEF k
    <3> QED
      BY <3>1, AfterWritten
  <2>2. Made(r) <=> RateMadeOf(i, memory, reads, m)
    BY <1>1 DEF RateMadeOf
  <2> HIDE DEF Made
  <2>3. (\E x \in k : Made(x)) <=> Made(r)
    OBVIOUS
  <2> QED
    BY <2>1, <2>2, <2>3
<1> QED
  BY <1>3, <1>4, <1>5 DEF r

\* Taking time derivatives leaves the field and the contents an input came from.
LEMMA MovedFrom ==
  ASSUME NEW field, NEW stage, NEW mode, NEW rate \in Int, NEW by \in Int,
         field \notin {"NonFinite", "OffBand", "Aliased"}
  PROVE  Moved(InputOf(field, stage, mode, rate), by) = InputOf(field, stage, mode, rate + by)
<1> DEFINE i == InputOf(field, stage, mode, rate)
<1>1. /\ i = [field |-> field, stage |-> stage, mode |-> mode, rate |-> rate]
      /\ i.stage = stage /\ i.mode = mode /\ i.rate = rate
  BY DEF InputOf
<1> HIDE DEF i
<1>2. Moved(i, by) = [field |-> field, stage |-> stage, mode |-> mode, rate |-> rate + by]
  BY <1>1, MovedInput
<1> QED
  BY <1>2 DEF i, InputOf

LEMMA MovedMark ==
  ASSUME NEW by PROVE Moved(NonFinite, by) = NonFinite
  BY DEF Moved, Marks

\* The views of a stage.
LEMMA ViewsOf ==
  ASSUME StepInv, InStep
  PROVE  /\ InView \in StageViews /\ OutView \in Range(Slopes) /\ InView # OutView
         /\ OutView = Slopes[step.stage] /\ step.stage \in 1 .. 4
         /\ OutView \notin {"primary", "curvature", "derivatives", "constraints", "scratch",
                            "state", "stage"}
<1>1. step.stage \in 1 .. 4
  BY DEF StepInv, InStep
<1> QED
  BY <1>1, SlopeViews DEF InView, OutView, StageViews

\* The slots of the stage and slope views.
LEMMA StepSlots ==
  /\ \A v \in StageViews \cup Range(Slopes), f \in StepFields : <<v, f>> \in Slots
  /\ \A f \in PrimaryFields : <<"primary", f>> \in Slots
  /\ TransportSlots \subseteq Slots
  BY DEF Slots, TransportSlots

\* What the primary holds in the view of a stage.
LEMMA PrimaryHeld ==
  ASSUME TransportInv, InStep, NEW m \in Modes
  PROVE  /\ device.memory[<<InView, "Primary">>][m]
              \subseteq {InputOf("Primary", holds["primary"][InView], m, 0), NonFinite}
         /\ InputOf("Primary", holds["primary"][InView], m, 0)
              \in device.memory[<<InView, "Primary">>][m]
         /\ holds["primary"][InView] \in 0 .. serial
         /\ device.memory[<<InView, "Companion">>][m]
              \subseteq {InputOf("Companion", holds["companion"][InView], m, 0), NonFinite}
         /\ InputOf("Companion", holds["companion"][InView], m, 0)
              \in device.memory[<<InView, "Companion">>][m]
<1>1. InView \in StageViews /\ (InView = "state" \/ step.stage >= 2)
  <2>1. step.stage \in 1 .. 4
    BY ViewsOf DEF TransportInv, CounterInv
  <2> QED
    BY <2>1 DEF InView, StageViews
<1>2. /\ "primary" \in Systems /\ "companion" \in Systems
      /\ "Primary" \in FieldsOf["primary"] /\ "Companion" \in FieldsOf["companion"]
  BY DEF Systems, FieldsOf
<1>3. BuffersInv /\ HoldsInv
  BY DEF TransportInv
<1>4. holds["primary"][InView] \in 0 .. serial
  BY <1>1, <1>2, <1>3 DEF HoldsInv
<1> QED
  BY <1>1, <1>2, <1>3, <1>4 DEF BuffersInv

\* The stage of the primary that the metric inputs of a stage are made of.
OwnStage == {holds["primary"][InView]}

\* The producer's inputs, one for each component.
LEMMA ProductOf ==
  ASSUME NEW f \in PrimaryFields
  PROVE  /\ Product(f).slot = <<"primary", f>>
         /\ Product(f).raise = RateAt(<<"primary", f>>) /\ RateAt(<<"primary", f>>) \in Int
         /\ \A q \in Product(f).reads : /\ q.slot = <<InView, "Primary">> /\ q.rate = 0
                                        /\ q.sign = 1 \/ q.sign = -1
<1> DEFINE reads == IF f \in BackgroundFields THEN {}
                    ELSE IF f \in SharpFields THEN {Sharp(InView, "Primary")}
                    ELSE {Own(InView, "Primary")}
<1>1. Product(f) = [To("primary", f, reads) EXCEPT !.raise = RateOf[f]]
  BY DEF Product
<1>2. \A q \in reads : /\ q.slot = <<InView, "Primary">> /\ q.rate = 0
                       /\ q.sign = 1 \/ q.sign = -1
  BY DEF Own, Sharp
<1> HIDE DEF reads
<1>3. /\ Product(f).slot = <<"primary", f>> /\ Product(f).reads = reads
      /\ Product(f).raise = RateOf[f]
  BY <1>1 DEF To
<1>4. RateOf[f] = RateAt(<<"primary", f>>) /\ RateAt(<<"primary", f>>) \in Int
  BY DEF RateOf, RateAt, PrimaryFields
<1> QED
  BY <1>2, <1>3, <1>4

\* The primary's slope.
LEMMA PrimarySlopeIs ==
  ASSUME TransportInv, InStep
  PROVE  LET M == PrimarySlope(device.memory)
         IN  /\ DOMAIN M = Slots
             /\ \A s \in Slots : s # <<OutView, "Primary">> => M[s] = device.memory[s]
             /\ \A m \in Modes :
                  M[<<OutView, "Primary">>][m]
                    \subseteq {InputOf("Primary", holds["primary"][InView], m, 1), NonFinite}
             /\ \A m \in Modes :
                  InputOf("Primary", holds["primary"][InView], m, 1)
                    \in M[<<OutView, "Primary">>][m]
<1> DEFINE M == PrimarySlope(device.memory)
           q == Own(InView, "Primary")
           h == holds["primary"][InView]
<1>1. <<OutView, "Primary">> \in DOMAIN device.memory /\ DOMAIN device.memory = Slots
  BY ViewsOf, StepSlots, StepFieldsAre DEF TransportInv, DeviceInv, CounterInv
<1>2. M = After(device.memory, {RateTo(OutView, "Primary", {q})})
  BY DEF PrimarySlope
<1>3. q.slot = <<InView, "Primary">> /\ q.sign = 1 /\ q.rate = 0
  BY DEF Own
<1>4. \A m \in Modes : 1 * m = m
  BY ModesAssumption
<1> HIDE DEF M, q
<1>5. /\ DOMAIN M = Slots
      /\ \A s \in Slots : s # <<OutView, "Primary">> => M[s] = device.memory[s]
  BY <1>1, <1>2, AfterRate
<1>6. \A m \in Modes : \A i : i \in M[<<OutView, "Primary">>][m] <=>
        RateMadeOf(i, device.memory, {q}, m)
  BY <1>1, <1>2, AfterRate
<1>7. ASSUME NEW m \in Modes, NEW i
      PROVE  i \in M[<<OutView, "Primary">>][m] <=>
               \E j \in device.memory[<<InView, "Primary">>][m] : i = Moved(j, 1)
  <2>1. i \in M[<<OutView, "Primary">>][m] <=>
          \E j \in device.memory[q.slot][q.sign * m] : i = Moved(j, 1 - q.rate)
    BY <1>6 DEF RateMadeOf
  <2> QED
    BY <2>1, <1>3, <1>4
<1>8. ASSUME NEW m \in Modes
      PROVE  /\ M[<<OutView, "Primary">>][m] \subseteq {InputOf("Primary", h, m, 1), NonFinite}
             /\ InputOf("Primary", h, m, 1) \in M[<<OutView, "Primary">>][m]
  <2>1. /\ device.memory[<<InView, "Primary">>][m]
              \subseteq {InputOf("Primary", h, m, 0), NonFinite}
        /\ InputOf("Primary", h, m, 0) \in device.memory[<<InView, "Primary">>][m]
    BY PrimaryHeld
  <2>2. /\ Moved(InputOf("Primary", h, m, 0), 1) = InputOf("Primary", h, m, 1)
        /\ Moved(NonFinite, 1) = NonFinite
    BY MovedFrom, MovedMark
  <2> HIDE DEF h
  <2> QED
    BY <1>7, <2>1, <2>2
<1> QED
  BY <1>5, <1>8 DEF M

\* What all inputs the producer writes at a stage are made of.
LEMMA FullInputs ==
  ASSUME TransportInv, InStep
  PROVE  LET full == After(PrimarySlope(device.memory), {Product(f) : f \in PrimaryFields})
         IN  /\ DOMAIN full = Slots
             /\ \A s \in Slots : s[1] # "primary" => full[s] = PrimarySlope(device.memory)[s]
             /\ \A f \in PrimaryFields, m \in Modes :
                  full[<<"primary", f>>][m] \subseteq MetricInput(f, m, OwnStage) \cup {NonFinite}
<1> DEFINE M == PrimarySlope(device.memory)
           k == {Product(f) : f \in PrimaryFields}
           h == holds["primary"][InView]
<1>1. /\ DOMAIN M = Slots
      /\ \A s \in Slots : s # <<OutView, "Primary">> => M[s] = device.memory[s]
  BY PrimarySlopeIs
<1>2. Written(k) = {"primary"} \X PrimaryFields
  <2>1. \A f \in PrimaryFields : Product(f).slot = <<"primary", f>>
    BY ProductOf
  <2> QED
    BY <2>1 DEF Written
<1>3. /\ \A f \in PrimaryFields : <<"primary", f>> \in Slots
      /\ <<InView, "Primary">> \in Slots /\ <<InView, "Primary">> # <<OutView, "Primary">>
  BY StepSlots, StepFieldsAre, ViewsOf DEF TransportInv, CounterInv
<1> HIDE DEF M
<1>4. ASSUME NEW f \in PrimaryFields, NEW m \in Modes, NEW i \in After(M, k)[<<"primary", f>>][m]
      PROVE  i \in MetricInput(f, m, OwnStage) \cup {NonFinite}
  <2>1. PICK r \in k : /\ r.slot = <<"primary", f>>
                       /\ \E q \in r.reads : \E j \in M[q.slot][q.sign * m] :
                            i = Moved(j, r.raise - q.rate)
    <3> HIDE DEF k
    <3> QED
      BY <1>1, <1>2, <1>3, AfterWritten, SMTT(40)
  <2>2. r = Product(f)
    <3>1. PICK g \in PrimaryFields : r = Product(g)
      OBVIOUS
    <3>2. <<"primary", g>> = <<"primary", f>>
      BY <2>1, <3>1, ProductOf
    <3> QED
      BY <3>1, <3>2
  <2>3. PICK q \in r.reads : \E j \in M[q.slot][q.sign * m] : i = Moved(j, r.raise - q.rate)
    BY <2>1
  <2>4. q.slot = <<InView, "Primary">> /\ q.rate = 0 /\ (q.sign = 1 \/ q.sign = -1)
    BY <2>2, <2>3, ProductOf
  <2>5. q.sign * m \in Modes /\ q.sign * m \in {m, -m} /\ m \in Int
    BY <2>4, ModesAssumption
  <2> DEFINE n == q.sign * m
             by == RateAt(<<"primary", f>>)
  <2>6. r.raise - q.rate = by /\ by \in Int
    BY <2>2, <2>4, ProductOf
  <2>7. PICK j \in device.memory[<<InView, "Primary">>][n] : i = Moved(j, by)
    BY <1>1, <1>3, <2>3, <2>4, <2>6
  <2>8. n \in Modes /\ n \in {m, -m}
    BY <2>5
  <2> HIDE DEF n, by
  <2>9. j = InputOf("Primary", h, n, 0) \/ j = NonFinite
    BY <2>7, <2>8, PrimaryHeld
  <2>10. CASE j = NonFinite
    BY <2>7, <2>10, MovedMark
  <2>11. CASE j = InputOf("Primary", h, n, 0)
    <3>1. i = InputOf("Primary", h, n, 0 + by)
      BY <2>6, <2>7, <2>11, MovedFrom
    <3>2. 0 + by = by
      BY <2>6
    <3>3. i = [field |-> "Primary", stage |-> h, mode |-> n, rate |-> by]
      BY <3>1, <3>2 DEF InputOf
    <3> QED
      BY <2>6, <2>8, <3>3 DEF MetricInput, OwnStage, by
  <2> QED
    BY <2>9, <2>10, <2>11
<1>5. DOMAIN After(M, k) = Slots /\ \A s \in Slots : s[1] # "primary" => After(M, k)[s] = M[s]
  <2>1. \A s \in Slots : s[1] # "primary" => s \notin Written(k)
    BY <1>2
  <2> HIDE DEF k
  <2> QED
    BY <1>1, <2>1, AfterDomain, AfterElsewhere
<1> QED
  BY <1>4, <1>5 DEF M

\* What the producer leaves: the inputs it wrote are of this stage and bear its
\* generation, the others are as they were.
ProducedAs(P, generation, skipped) ==
  /\ P = [memory |-> P.memory, primary |-> P.primary,
          curvature |-> device.curvature, derivatives |-> device.derivatives,
          ready |-> device.ready]
  /\ DOMAIN P.memory = Slots
  /\ \A s \in Slots : s[1] # "primary" => P.memory[s] = PrimarySlope(device.memory)[s]
  /\ \A f \in PrimaryFields, m \in Modes :
       P.memory[<<"primary", f>>][m] \subseteq
         (IF <<f, m>> \in skipped THEN MetricInput(f, m, 0 .. serial)
          ELSE MetricInput(f, m, OwnStage)) \cup {NonFinite}
  /\ P.primary = [f \in PrimaryFields |-> [m \in Modes |->
       IF <<f, m>> \in skipped THEN device.primary[f][m] ELSE generation]]
  /\ P.primary \in [PrimaryFields -> [Modes -> Nat]]

LEMMA ProducedOf ==
  ASSUME TransportInv, InStep, NEW generation \in Nat, NEW skipped, NEW bad
  PROVE  ProducedAs(Produced(generation, skipped, bad), generation, skipped)
<1> DEFINE P == Produced(generation, skipped, bad)
           full == After(PrimarySlope(device.memory), {Product(f) : f \in PrimaryFields})
           mem == [s \in Slots |->
              IF s[1] # "primary" THEN full[s]
              ELSE [m \in Modes |->
                      IF <<s[2], m>> \in skipped THEN device.memory[s][m]
                      ELSE IF <<s[2], m>> \in bad THEN {NonFinite} ELSE full[s][m]]]
           stamps == [f \in PrimaryFields |-> [m \in Modes |->
              IF <<f, m>> \in skipped THEN device.primary[f][m] ELSE generation]]
<1>1. P = [device EXCEPT !.memory = mem, !.primary = stamps]
  BY DEF Produced
<1>2. device = [memory |-> device.memory, primary |-> device.primary,
                curvature |-> device.curvature, derivatives |-> device.derivatives,
                ready |-> device.ready]
  BY DEF TransportInv, DeviceInv
<1>3. stamps \in [PrimaryFields -> [Modes -> Nat]]
  BY DEF TransportInv, DeviceInv
<1>4. /\ \A s \in Slots : s[1] # "primary" => mem[s] = PrimarySlope(device.memory)[s]
      /\ DOMAIN mem = Slots
  BY FullInputs
<1>5. ASSUME NEW f \in PrimaryFields, NEW m \in Modes
      PROVE  mem[<<"primary", f>>][m] \subseteq
               (IF <<f, m>> \in skipped THEN MetricInput(f, m, 0 .. serial)
                ELSE MetricInput(f, m, OwnStage)) \cup {NonFinite}
  <2>1. <<"primary", f>> \in Slots
    BY StepSlots
  <2>2. mem[<<"primary", f>>][m] =
          IF <<f, m>> \in skipped THEN device.memory[<<"primary", f>>][m]
          ELSE IF <<f, m>> \in bad THEN {NonFinite} ELSE full[<<"primary", f>>][m]
    BY <2>1
  <2>3. device.memory[<<"primary", f>>][m] \subseteq MetricInput(f, m, 0 .. serial) \cup {NonFinite}
    BY DEF TransportInv, MetricInv
  <2>4. full[<<"primary", f>>][m] \subseteq MetricInput(f, m, OwnStage) \cup {NonFinite}
    BY FullInputs
  <2> HIDE DEF mem, full
  <2> QED
    BY <2>2, <2>3, <2>4
<1> HIDE DEF mem, stamps
<1>6. P = [memory |-> mem, primary |-> stamps, curvature |-> device.curvature,
           derivatives |-> device.derivatives, ready |-> device.ready]
  BY <1>1, <1>2
<1>7. P.memory = mem /\ P.primary = stamps
  BY <1>6
<1> HIDE DEF P
<1> QED
  BY <1>3, <1>4, <1>5, <1>6, <1>7 DEF P, stamps, ProducedAs

\* The stages that the metric inputs of a stage can be from, when their stamps
\* say that they are of this stage.
StagesRead == IF leftovers THEN 0 .. serial ELSE OwnStage

Stamps(field, fields, generation) ==
  \A f \in fields, m \in Modes : field[f][m] = generation

\* What a stage leaves that was evaluated, whatever the producer did: its outputs
\* are all made of this stage and stamped with its generation, or all zero and
\* stamped with none.
LeftBy(dev) ==
  /\ dev = [memory |-> dev.memory, primary |-> dev.primary, curvature |-> dev.curvature,
            derivatives |-> dev.derivatives, ready |-> dev.ready]
  /\ DOMAIN dev.memory = Slots
  /\ dev.primary \in [PrimaryFields -> [Modes -> Nat]]
  /\ \A f \in PrimaryFields, m \in Modes :
       /\ dev.primary[f][m] \in {device.primary[f][m], host.next}
       /\ dev.memory[<<"primary", f>>][m] \subseteq MetricInput(f, m, 0 .. serial) \cup {NonFinite}
  /\ \A s \in Slots : s[1] \notin {"primary", "scratch"} /\ s \notin Outputs(OutView) =>
       dev.memory[s] = PrimarySlope(device.memory)[s]
  /\ \/ /\ Stamps(dev.curvature, CurvatureFields, host.next)
        /\ Stamps(dev.derivatives, DerivativeFields, host.next)
        /\ Within(dev.memory, Outputs(OutView), Clean(holds["bianchi"][InView], StagesRead))
     \/ /\ Stamps(dev.curvature, CurvatureFields, 0)
        /\ Stamps(dev.derivatives, DerivativeFields, 0)
        /\ \A s \in Outputs(OutView), m \in Modes : dev.memory[s][m] = {}

\* The next generation is behind the last.
LEMMA NextIsNew ==
  ASSUME TransportInv, Accepted(host.next)
  PROVE  host.next \in Nat /\ host.next # 0 /\ host.last \in Nat /\ host.last < host.next
<1>1. host.next # 0 /\ host.next \in Generations /\ host.last \in Generations
  BY DEF Accepted, TransportInv, CounterInv, HostInv
<1>2. host.next = host.last + 1
  BY <1>1 DEF TransportInv, CounterInv, HostInv
<1> QED
  BY <1>1, <1>2, FirstGeneration DEF Generations

\* The inputs of a stage that is ready.
LEMMA ReadyInputs ==
  ASSUME TransportInv, InStep, Accepted(host.next), NEW skipped, NEW bad,
         LET P == Produced(host.next, skipped, bad)
         IN  StageReady(P.memory, P.primary, InView, host.next)
  PROVE  Within(Produced(host.next, skipped, bad).memory, Known(InView, {}, {}),
                Clean(holds["bianchi"][InView], StagesRead))
<1> DEFINE P == Produced(host.next, skipped, bad)
           z == holds["bianchi"][InView]
<1>1. /\ \A m \in Modes, f \in StateFields : NonFinite \notin P.memory[<<InView, f>>][m]
      /\ \A m \in Modes, f \in PrimaryFields :
           /\ P.primary[f][m] = host.next
           /\ NonFinite \notin P.memory[<<"primary", f>>][m]
  BY DEF StageReady
<1>2. host.next \in Nat /\ host.next # 0 /\ host.last \in Nat /\ host.last < host.next
  BY NextIsNew
<1> HIDE DEF P
<1>0. ProducedAs(P, host.next, skipped)
  BY <1>2, ProducedOf DEF P
<1>3. InView \in StageViews /\ InView # OutView /\ InView # "primary"
  BY ViewsOf DEF TransportInv, CounterInv, StageViews
<1>4. ASSUME NEW f \in PrimaryFields, NEW m \in Modes, NEW i \in P.memory[<<"primary", f>>][m]
      PROVE  i \in Clean(z, StagesRead)[<<"primary", f>>][m]
  <2>1. i # NonFinite
    BY <1>1, <1>4
  <2>2. <<f, m>> \in skipped => device.primary[f][m] = host.next
    <3>1. P.primary = [g \in PrimaryFields |-> [n \in Modes |->
            IF <<g, n>> \in skipped THEN device.primary[g][n] ELSE host.next]]
      BY <1>0 DEF ProducedAs
    <3>2. P.primary[f][m] = host.next
      BY <1>1
    <3> QED
      BY <3>1, <3>2
  <2>3. <<f, m>> \in skipped => leftovers
    BY <1>2, <2>2 DEF TransportInv, AgeInv, DeviceInv
  <2>4. i \in (IF <<f, m>> \in skipped THEN MetricInput(f, m, 0 .. serial)
               ELSE MetricInput(f, m, OwnStage)) \cup {NonFinite}
    BY <1>0 DEF ProducedAs
  <2>5. OwnStage \subseteq StagesRead
    BY PrimaryHeld DEF OwnStage, StagesRead
  <2>6. i \in MetricInput(f, m, StagesRead)
    BY <2>1, <2>3, <2>4, <2>5 DEF MetricInput, StagesRead
  <2>7. StagesRead \subseteq Int /\ m \in Int /\ -m \in Int
    <3>1. serial \in Nat /\ OwnStage \subseteq Int
      BY PrimaryHeld DEF OwnStage, TransportInv, HoldsInv
    <3>2. m \in Int /\ -m \in Int
      BY ModesAssumption
    <3> QED
      BY <3>1, <3>2 DEF StagesRead
  <2>8. <<"primary", f>> \in Slots
    BY StepSlots
  <2> QED
    BY <2>6, <2>7, <2>8 DEF MetricInput, Clean
<1>5. ASSUME NEW f \in StateFields, NEW m \in Modes, NEW i \in P.memory[<<InView, f>>][m]
      PROVE  i \in Clean(z, StagesRead)[<<InView, f>>][m]
  <2>1. i # NonFinite
    BY <1>1, <1>5
  <2>2. <<InView, f>> \in Slots /\ <<InView, f>> # <<OutView, "Primary">>
        /\ <<InView, f>>[1] # "primary"
    BY <1>3, StepSlots, StepFieldsAre DEF StateFields
  <2>3. P.memory[<<InView, f>>] = device.memory[<<InView, f>>]
    <3>1. P.memory[<<InView, f>>] = PrimarySlope(device.memory)[<<InView, f>>]
      BY <1>0, <2>2 DEF ProducedAs
    <3>2. PrimarySlope(device.memory)[<<InView, f>>] = device.memory[<<InView, f>>]
      BY <2>2, PrimarySlopeIs
    <3> QED
      BY <3>1, <3>2
  <2>4. f \in FieldsOf["bianchi"] /\ "bianchi" \in Systems
    BY DEF FieldsOf, Systems
  <2>5. device.memory[<<InView, f>>][m] \subseteq {InputOf(f, z, m, 0), NonFinite}
    BY <1>3, <2>4 DEF TransportInv, BuffersInv
  <2>6. i = InputOf(f, z, m, 0)
    BY <2>1, <2>3, <2>5
  <2>7. i = [field |-> f, stage |-> z, mode |-> m, rate |-> 0]
    BY <2>6 DEF InputOf
  <2>8. z \in Int /\ m \in Int
    BY <1>3, <2>4, ModesAssumption DEF TransportInv, HoldsInv
  <2>9. RateAt(<<InView, f>>) = 0
    BY <1>3 DEF RateAt, StateFields, StageViews
  <2> QED
    BY <2>2, <2>7, <2>8, <2>9 DEF Clean, StateFields
<1> QED
  BY <1>4, <1>5 DEF Within, Known, P

LEMMA EvaluatedOf ==
  ASSUME TransportInv, InStep, Accepted(host.next), NEW skipped, NEW bad
  PROVE  LeftBy(Evaluated(Produced(host.next, skipped, bad), host.next))
<1> DEFINE P == Produced(host.next, skipped, bad)
           ready == StageReady(P.memory, P.primary, InView, host.next)
           stamp == IF ready THEN host.next ELSE 0
           mem == Run(P.memory, Closure(InView, OutView, ready))
           E == Evaluated(P, host.next)
           z == holds["bianchi"][InView]
<1>1. host.next \in Nat /\ host.next # 0
  BY NextIsNew
<1>2. ProducedAs(P, host.next, skipped)
  BY <1>1, ProducedOf
<1>3. /\ ready \in BOOLEAN
      /\ ready => Within(P.memory, Known(InView, {}, {}), Clean(z, StagesRead))
  BY ReadyInputs DEF StageReady
<1>4. E = [P EXCEPT !.memory = mem, !.curvature = Stamped(CurvatureFields, stamp),
                    !.derivatives = Stamped(DerivativeFields, stamp), !.ready = ready]
  BY DEF Evaluated
<1>5. InView \in StageViews /\ OutView \in Range(Slopes) /\ OutView # "primary"
  BY ViewsOf DEF TransportInv, CounterInv
<1> HIDE DEF P, ready, E
<1>6. DOMAIN P.memory = Slots
  BY <1>2 DEF ProducedAs
<1>7. /\ DOMAIN mem = Slots
      /\ \A s \in Slots : s \notin Outputs(OutView) /\ s[1] # "scratch" => mem[s] = P.memory[s]
  <2>1. \A s \in Slots : s \notin Outputs(OutView) /\ s[1] # "scratch" =>
          DOMAIN mem = Slots /\ mem[s] = P.memory[s]
    BY <1>3, <1>5, <1>6, ClosureElsewhere
  <2>2. \E s \in Slots : s \notin Outputs(OutView) /\ s[1] # "scratch"
    <3>1. <<"primary", "H">> \in Slots
      BY StepSlots DEF PrimaryFields
    <3>2. <<"primary", "H">> \notin Outputs(OutView)
      BY <1>5 DEF Outputs
    <3> QED
      BY <3>1, <3>2
  <2> QED
    BY <2>1, <2>2
<1>8. ready => Within(mem, Outputs(OutView), Clean(z, StagesRead))
  BY <1>3, <1>5, <1>6, ClosureClean
<1>9. ~ready => \A s \in Outputs(OutView), m \in Modes : mem[s][m] = {}
  BY <1>3, <1>5, <1>6, ClosureEmpty
<1> HIDE DEF mem
<1>10. E = [memory |-> mem, primary |-> P.primary,
            curvature |-> Stamped(CurvatureFields, stamp),
            derivatives |-> Stamped(DerivativeFields, stamp), ready |-> ready]
  <2>1. P = [memory |-> P.memory, primary |-> P.primary,
             curvature |-> device.curvature, derivatives |-> device.derivatives,
             ready |-> device.ready]
    BY <1>2 DEF ProducedAs
  <2> HIDE DEF stamp
  <2> QED
    BY <1>4, <2>1
<1>11. /\ Stamps(Stamped(CurvatureFields, stamp), CurvatureFields, stamp)
       /\ Stamps(Stamped(DerivativeFields, stamp), DerivativeFields, stamp)
  BY DEF Stamps, Stamped
<1>12. ASSUME NEW f \in PrimaryFields, NEW m \in Modes
       PROVE  /\ P.primary[f][m] \in {device.primary[f][m], host.next}
              /\ mem[<<"primary", f>>][m] \subseteq MetricInput(f, m, 0 .. serial) \cup {NonFinite}
  <2>1. P.primary[f][m] = IF <<f, m>> \in skipped THEN device.primary[f][m] ELSE host.next
    BY <1>2 DEF ProducedAs
  <2>2. mem[<<"primary", f>>] = P.memory[<<"primary", f>>]
    <3>1. <<"primary", f>> \in Slots
      BY StepSlots
    <3>2. <<"primary", f>> \notin Outputs(OutView)
      BY <1>5 DEF Outputs
    <3> QED
      BY <1>7, <3>1, <3>2
  <2>3. OwnStage \subseteq 0 .. serial
    BY PrimaryHeld DEF OwnStage
  <2>4. MetricInput(f, m, OwnStage) \subseteq MetricInput(f, m, 0 .. serial)
    BY <2>3 DEF MetricInput
  <2>5. P.memory[<<"primary", f>>][m] \subseteq
          (IF <<f, m>> \in skipped THEN MetricInput(f, m, 0 .. serial)
           ELSE MetricInput(f, m, OwnStage)) \cup {NonFinite}
    BY <1>2 DEF ProducedAs
  <2> QED
    BY <2>1, <2>2, <2>4, <2>5
<1>13. ASSUME NEW s \in Slots, s[1] \notin {"primary", "scratch"}, s \notin Outputs(OutView)
       PROVE  mem[s] = PrimarySlope(device.memory)[s]
  BY <1>2, <1>7, <1>13 DEF ProducedAs
<1>14. P.primary \in [PrimaryFields -> [Modes -> Nat]]
  BY <1>2 DEF ProducedAs
<1>15. /\ E.memory = mem /\ E.primary = P.primary
       /\ E.curvature = Stamped(CurvatureFields, stamp)
       /\ E.derivatives = Stamped(DerivativeFields, stamp) /\ E.ready = ready
  BY <1>10
<1>16. \/ /\ Stamps(E.curvature, CurvatureFields, host.next)
          /\ Stamps(E.derivatives, DerivativeFields, host.next)
          /\ Within(mem, Outputs(OutView), Clean(z, StagesRead))
       \/ /\ Stamps(E.curvature, CurvatureFields, 0)
          /\ Stamps(E.derivatives, DerivativeFields, 0)
          /\ \A s \in Outputs(OutView), m \in Modes : mem[s][m] = {}
  BY <1>3, <1>8, <1>9, <1>11, <1>15
<1>17. LeftBy(E)
  BY <1>7, <1>10, <1>12, <1>13, <1>14, <1>15, <1>16 DEF LeftBy
<1> QED
  BY <1>17 DEF E, P

\* A companion's slope is made of its own stage, the primary's and what the
\* closure has left.
LEMMA PassiveSlopeOf ==
  ASSUME TransportInv, InStep, Accepted(host.next), NEW dev, LeftBy(dev)
  PROVE  LET D == PassiveSlope(dev, host.next)
         IN  /\ D = [memory |-> D.memory, primary |-> dev.primary,
                     curvature |-> dev.curvature, derivatives |-> dev.derivatives,
                     ready |-> dev.ready]
             /\ DOMAIN D.memory = Slots
             /\ \A s \in Slots : s # <<OutView, "Companion">> => D.memory[s] = dev.memory[s]
             /\ \A m \in Modes :
                  /\ \A i \in D.memory[<<OutView, "Companion">>][m] :
                       FromStage(i, [s \in Systems |-> holds[s][InView]], leftovers)
                  /\ InputOf("Companion", holds["companion"][InView], m, 1)
                       \in D.memory[<<OutView, "Companion">>][m]
<1> DEFINE reads == PassiveReads(dev, host.next)
           mem == After(dev.memory, {RateTo(OutView, "Companion", reads)})
           D == PassiveSlope(dev, host.next)
           at == [s \in Systems |-> holds[s][InView]]
<1>1. dev = [memory |-> dev.memory, primary |-> dev.primary, curvature |-> dev.curvature,
             derivatives |-> dev.derivatives, ready |-> dev.ready]
  BY DEF LeftBy
<1>2. D = [dev EXCEPT !.memory = mem]
  BY DEF PassiveSlope
<1>3. <<OutView, "Companion">> \in Slots /\ DOMAIN dev.memory = Slots
  BY ViewsOf, StepSlots, StepFieldsAre DEF TransportInv, CounterInv, LeftBy
<1>4. mem = After(dev.memory, {RateTo(OutView, "Companion", reads)})
  OBVIOUS
<1> HIDE DEF reads, mem
<1>12. /\ DOMAIN mem = Slots
       /\ \A s \in Slots : s # <<OutView, "Companion">> => mem[s] = dev.memory[s]
  BY <1>3, <1>4, AfterRate
<1>5. \A m \in Modes : \A i : i \in mem[<<OutView, "Companion">>][m] <=>
        RateMadeOf(i, dev.memory, reads, m)
  BY <1>3, <1>4, AfterRate
<1>6. D = [memory |-> mem, primary |-> dev.primary, curvature |-> dev.curvature,
           derivatives |-> dev.derivatives, ready |-> dev.ready]
  BY <1>1, <1>2
<1>7. D.memory = mem
  BY <1>6
<1>8. \A m \in Modes : 1 * m = m
  BY ModesAssumption
<1>9. \A f \in {"Primary", "Companion"} :
        /\ <<InView, f>> \in Slots
        /\ dev.memory[<<InView, f>>] = device.memory[<<InView, f>>]
  <2> SUFFICES ASSUME NEW f \in {"Primary", "Companion"}
               PROVE  /\ <<InView, f>> \in Slots
                      /\ dev.memory[<<InView, f>>] = device.memory[<<InView, f>>]
    OBVIOUS
  <2>1. InView \in StageViews /\ InView # OutView /\ InView \notin {"primary", "scratch"}
    BY ViewsOf DEF TransportInv, CounterInv, StageViews
  <2>2. <<InView, f>> \in Slots /\ <<InView, f>> # <<OutView, "Primary">>
    BY <2>1, StepSlots, StepFieldsAre
  <2>3. <<InView, f>> \notin Outputs(OutView) /\ <<InView, f>>[1] \notin {"primary", "scratch"}
    BY <2>1 DEF Outputs, StageViews
  <2>4. dev.memory[<<InView, f>>] = PrimarySlope(device.memory)[<<InView, f>>]
    BY <2>2, <2>3 DEF LeftBy
  <2>5. PrimarySlope(device.memory)[<<InView, f>>] = device.memory[<<InView, f>>]
    BY <2>2, PrimarySlopeIs
  <2> QED
    BY <2>2, <2>4, <2>5
<1>10. ASSUME NEW m \in Modes, NEW i \in mem[<<OutView, "Companion">>][m]
       PROVE  FromStage(i, at, leftovers)
  <2>1. PICK q \in reads : \E j \in dev.memory[q.slot][q.sign * m] : i = Moved(j, 1 - q.rate)
    BY <1>5, <1>10 DEF RateMadeOf
  <2>2. PICK j \in dev.memory[q.slot][q.sign * m] : i = Moved(j, 1 - q.rate)
    BY <2>1
  <2>3. ASSUME NEW f \in {"Primary", "Companion"}, q = Own(InView, f)
        PROVE  FromStage(i, at, leftovers)
    <3> DEFINE s == IF f = "Primary" THEN "primary" ELSE "companion"
    <3>1. q.slot = <<InView, f>> /\ q.sign = 1 /\ q.rate = 0
      BY <2>3 DEF Own
    <3>2. j \in device.memory[<<InView, f>>][m] /\ i = Moved(j, 1)
      BY <1>8, <1>9, <2>2, <3>1
    <3>3. j = InputOf(f, holds[s][InView], m, 0) \/ j = NonFinite
      BY <3>2, PrimaryHeld
    <3>4. i = InputOf(f, holds[s][InView], m, 1) \/ i = NonFinite
      <4>1. Moved(InputOf(f, holds[s][InView], m, 0), 1) = InputOf(f, holds[s][InView], m, 1)
        BY MovedFrom
      <4> QED
        BY <3>2, <3>3, <4>1, MovedMark
    <3>5. at["primary"] = holds["primary"][InView] /\ at["companion"] = holds["companion"][InView]
      BY DEF Systems
    <3> QED
      BY <3>4, <3>5 DEF FromStage, InputOf, NonFinite, StateFields
  <2>4. ASSUME q.slot \in Outputs(OutView), q.sign = 1, q.rate \in Int,
               Within(dev.memory, Outputs(OutView), Clean(holds["bianchi"][InView], StagesRead))
        PROVE  FromStage(i, at, leftovers)
    <3>1. j \in Clean(holds["bianchi"][InView], StagesRead)[q.slot][m]
      BY <1>8, <2>2, <2>4 DEF Within
    <3>2. q.slot \in Slots
      <4>1. Outputs(OutView) \subseteq Slots
        BY ViewsOf, SlopeViews, StepFieldsAre
           DEF Outputs, Slots, TransportSlots, StateFields, TransportInv, CounterInv
      <4> QED
        BY <2>4, <4>1
    <3>3. /\ j = [field |-> j.field, stage |-> j.stage, mode |-> j.mode, rate |-> j.rate]
          /\ j.field \in {"Primary", "Z0", "Z1"}
          /\ IF j.field = "Primary" THEN j.stage \in StagesRead
             ELSE j.stage = holds["bianchi"][InView]
      BY <3>1, <3>2 DEF Clean
    <3>4. i.field = j.field /\ i.stage = j.stage
      BY <2>2, <3>3, MovedInput
    <3>5. at["primary"] = holds["primary"][InView] /\ at["bianchi"] = holds["bianchi"][InView]
      BY DEF Systems
    <3> QED
      BY <3>3, <3>4, <3>5 DEF FromStage, StagesRead, OwnStage, StateFields
  <2>5. CASE q \in {Own(InView, "Companion"), Own(InView, "Primary")}
    BY <2>3, <2>5
  <2>6. CASE q \notin {Own(InView, "Companion"), Own(InView, "Primary")}
    <3>1. /\ \A n \in Modes :
               /\ \A f \in CurvatureFields : dev.curvature[f][n] = host.next
               /\ \A f \in DerivativeFields : dev.derivatives[f][n] = host.next
          /\ q \in {[Own("curvature", f) EXCEPT !.rate = RateIn[f]] : f \in CurvatureFields} \cup
                   {[Own("derivatives", f) EXCEPT !.rate = RateIn[f]] : f \in DerivativeFields}
      BY <2>1, <2>6, Zenon DEF reads, PassiveReads
    <3>2. Within(dev.memory, Outputs(OutView), Clean(holds["bianchi"][InView], StagesRead))
      <4>1. dev.curvature["Z0"][m] = host.next /\ host.next # 0 /\ "Z0" \in CurvatureFields
        BY <3>1, NextIsNew DEF CurvatureFields
      <4> QED
        BY <4>1 DEF LeftBy, Stamps
    <3>3. \E v, f : /\ <<v, f>> \in Outputs(OutView) /\ RateIn[f] \in Int
                    /\ q = [Own(v, f) EXCEPT !.rate = RateIn[f]]
      <4>1. \A f \in CurvatureFields : /\ <<"curvature", f>> \in Outputs(OutView)
                                      /\ RateIn[f] \in Int
        BY DEF Outputs, RateIn
      <4>2. \A f \in DerivativeFields : /\ <<"derivatives", f>> \in Outputs(OutView)
                                       /\ RateIn[f] \in Int
        BY DEF Outputs, RateIn
      <4> QED
        BY <3>1, <4>1, <4>2
    <3>4. q.slot \in Outputs(OutView) /\ q.sign = 1 /\ q.rate \in Int
      BY <3>3 DEF Own
    <3> QED
      BY <2>4, <3>2, <3>4
  <2> QED
    BY <2>5, <2>6
<1>11. ASSUME NEW m \in Modes
       PROVE  InputOf("Companion", holds["companion"][InView], m, 1)
                \in mem[<<OutView, "Companion">>][m]
  <2> DEFINE q == Own(InView, "Companion")
             j == InputOf("Companion", holds["companion"][InView], m, 0)
  <2>1. q \in reads
    BY DEF reads, PassiveReads
  <2>2. q.slot = <<InView, "Companion">> /\ q.sign = 1 /\ q.rate = 0
    BY DEF Own
  <2>3. j \in dev.memory[<<InView, "Companion">>][m]
    BY <1>9, PrimaryHeld
  <2>4. Moved(j, 1) = InputOf("Companion", holds["companion"][InView], m, 1)
    BY MovedFrom
  <2> HIDE DEF q, j
  <2>5. 1 - q.rate = 1 /\ q.sign * m = m
    BY <1>8, <2>2
  <2>6. RateMadeOf(Moved(j, 1), dev.memory, reads, m)
    BY <2>1, <2>2, <2>3, <2>5 DEF RateMadeOf
  <2>7. Moved(j, 1) \in mem[<<OutView, "Companion">>][m]
    BY <1>5, <2>6
  <2> QED
    BY <2>4, <2>7
<1> QED
  BY <1>6, <1>7, <1>10, <1>11, <1>12 DEF D

\* The contents that a stage is evaluated from.
ContentsNow == [s \in Systems |-> holds[s][InView]]

\* The companion's view of what a stage has left: the slopes of all systems are
\* made of this stage.
LEMMA FreshSlope ==
  ASSUME TransportInv, InStep, Accepted(host.next), NEW dev, LeftBy(dev)
  PROVE  Slope(PassiveSlope(dev, host.next).memory, OutView, ContentsNow, leftovers)
<1> DEFINE M == PassiveSlope(dev, host.next).memory
           at == ContentsNow
<1>1. OutView \in Range(Slopes) /\ OutView \notin {"primary", "scratch", "curvature",
                                                   "derivatives", "constraints"}
  BY ViewsOf DEF TransportInv, CounterInv
<1>2. /\ \A s \in Slots : s # <<OutView, "Companion">> => M[s] = dev.memory[s]
      /\ \A m \in Modes :
           /\ \A i \in M[<<OutView, "Companion">>][m] : FromStage(i, at, leftovers)
           /\ InputOf("Companion", holds["companion"][InView], m, 1)
                \in M[<<OutView, "Companion">>][m]
  BY PassiveSlopeOf DEF ContentsNow
<1> HIDE DEF M
<1>3. \A f \in StepFields : <<OutView, f>> \in Slots
  BY <1>1, StepSlots
<1>4. /\ at["primary"] = holds["primary"][InView] /\ at["bianchi"] = holds["bianchi"][InView]
      /\ at["companion"] = holds["companion"][InView]
  BY DEF ContentsNow, Systems
<1>5. ASSUME NEW m \in Modes
      PROVE  /\ \A i \in M[<<OutView, "Primary">>][m] : FromStage(i, at, leftovers)
             /\ InputOf("Primary", at["primary"], m, 1) \in M[<<OutView, "Primary">>][m]
  <2>1. M[<<OutView, "Primary">>] = dev.memory[<<OutView, "Primary">>]
    BY <1>2, <1>3, StepFieldsAre
  <2>2. dev.memory[<<OutView, "Primary">>] = PrimarySlope(device.memory)[<<OutView, "Primary">>]
    <3>1. <<OutView, "Primary">> \notin Outputs(OutView)
      BY <1>1 DEF Outputs, StateFields
    <3> QED
      BY <1>1, <1>3, <3>1, StepFieldsAre DEF LeftBy
  <2>3. /\ PrimarySlope(device.memory)[<<OutView, "Primary">>][m]
             \subseteq {InputOf("Primary", holds["primary"][InView], m, 1), NonFinite}
        /\ InputOf("Primary", holds["primary"][InView], m, 1)
             \in PrimarySlope(device.memory)[<<OutView, "Primary">>][m]
    BY PrimarySlopeIs
  <2>4. /\ FromStage(InputOf("Primary", holds["primary"][InView], m, 1), at, leftovers)
        /\ FromStage(NonFinite, at, leftovers)
    BY <1>4 DEF FromStage, InputOf, NonFinite, StateFields
  <2> QED
    BY <1>4, <2>1, <2>2, <2>3, <2>4
<1>6. ASSUME NEW f \in StateFields, NEW m \in Modes, NEW i \in M[<<OutView, f>>][m]
      PROVE  FromStage(i, at, leftovers)
  <2>1. /\ <<OutView, f>> \in Slots /\ <<OutView, f>> # <<OutView, "Companion">>
        /\ <<OutView, f>> \in Outputs(OutView)
    BY <1>3, StepFieldsAre DEF StateFields, Outputs
  <2>2. i \in dev.memory[<<OutView, f>>][m]
    BY <1>2, <1>6, <2>1
  <2>3. i \in Clean(holds["bianchi"][InView], StagesRead)[<<OutView, f>>][m]
    BY <2>1, <2>2 DEF LeftBy, Within
  <2>4. /\ i.field \in {"Primary", "Z0", "Z1"}
        /\ IF i.field = "Primary" THEN i.stage \in StagesRead
           ELSE i.stage = holds["bianchi"][InView]
    BY <2>1, <2>3 DEF Clean
  <2> QED
    BY <1>4, <2>4 DEF FromStage, StagesRead, OwnStage, StateFields
<1>7. \A f \in StepFields, m \in Modes : \A i \in M[<<OutView, f>>][m] : FromStage(i, at, leftovers)
  BY <1>2, <1>5, <1>6, StepFieldsAre DEF StateFields
<1> QED
  BY <1>2, <1>4, <1>5, <1>7 DEF Slope, M

\* What is in the buffers once they are filled with new contents.
View == IF step.stage < 4 THEN "stage" ELSE "state"

LEMMA FilledWith ==
  ASSUME NEW memory, NEW id, NEW terms
  PROVE  LET F == Filled(memory, View, terms, id)
         IN  /\ DOMAIN F = Slots
             /\ \A s \in Slots : s \notin {View} \X StepFields => F[s] = memory[s]
             /\ \A f \in StepFields, m \in Modes :
                  /\ F[<<View, f>>][m] \subseteq {InputOf(f, id, m, 0), NonFinite}
                  /\ "state" \in terms => \A i \in memory[<<"state", f>>][m] :
                       i # NonFinite => InputOf(f, id, m, 0) \in F[<<View, f>>][m]
<1> DEFINE F == Filled(memory, View, terms, id)
           Gathered(f, m) == UNION {memory[<<v, f>>][m] : v \in terms}
<1>1. F = [s \in Slots |->
             IF s \notin {View} \X StepFields THEN memory[s]
             ELSE [m \in Modes |->
                     {IF i = NonFinite THEN i ELSE InputOf(s[2], id, m, 0) :
                        i \in Gathered(s[2], m)}]]
  BY DEF Filled
<1>2. DOMAIN F = Slots /\ \A s \in Slots : s \notin {View} \X StepFields => F[s] = memory[s]
  BY <1>1
<1>3. ASSUME NEW f \in StepFields, NEW m \in Modes
      PROVE  F[<<View, f>>][m] = {IF i = NonFinite THEN i ELSE InputOf(f, id, m, 0) :
                                    i \in Gathered(f, m)}
  <2>1. <<View, f>> \in Slots /\ <<View, f>> \in {View} \X StepFields /\ <<View, f>>[2] = f
    BY StepSlots DEF View, StageViews
  <2> HIDE DEF Gathered, F
  <2> QED
    BY <1>1, <2>1
<1>4. ASSUME NEW f \in StepFields, NEW m \in Modes, "state" \in terms,
             NEW i \in memory[<<"state", f>>][m], i # NonFinite
      PROVE  InputOf(f, id, m, 0) \in F[<<View, f>>][m]
  <2>1. i \in Gathered(f, m)
    BY <1>4
  <2> HIDE DEF Gathered, F
  <2> QED
    BY <1>3, <1>4, <2>1
<1>5. \A f \in StepFields, m \in Modes :
        F[<<View, f>>][m] \subseteq {InputOf(f, id, m, 0), NonFinite}
  <2> HIDE DEF Gathered, F
  <2> QED
    BY <1>3
<1> QED
  BY <1>2, <1>4, <1>5

\* What a stage that passes leaves: the next stage, or the state, of all systems.
AdvancedTo(dev, next) ==
  /\ next = [memory |-> next.memory, primary |-> dev.primary, curvature |-> dev.curvature,
             derivatives |-> dev.derivatives, ready |-> dev.ready]
  /\ DOMAIN next.memory = Slots
  /\ \A s \in Slots : s \notin {View} \X StepFields =>
       next.memory[s] = PassiveSlope(dev, host.next).memory[s]
  /\ \A f \in StepFields, m \in Modes :
       /\ next.memory[<<View, f>>][m] \subseteq {InputOf(f, serial + 1, m, 0), NonFinite}
       /\ f \in {"Primary", "Companion"} =>
            InputOf(f, serial + 1, m, 0) \in next.memory[<<View, f>>][m]

LEMMA AdvanceOf ==
  ASSUME TransportInv, InStep, Accepted(host.next), NEW dev, LeftBy(dev),
         Advance(PassiveSlope(dev, host.next))
  PROVE  /\ AdvancedTo(dev, device')
         /\ holds' = [s \in Systems |-> [holds[s] EXCEPT ![View] = serial + 1]]
         /\ serial' = serial + 1
         /\ step' = IF step.stage < 4 THEN [step EXCEPT !.stage = @ + 1] ELSE Idle
<1> DEFINE D == PassiveSlope(dev, host.next)
           F == Filled(D.memory, View, Terms(step.stage), serial + 1)
<1>1. /\ device' = [D EXCEPT !.memory = F]
      /\ holds' = [s \in Systems |-> [holds[s] EXCEPT ![View] = serial + 1]]
      /\ serial' = serial + 1
      /\ step' = IF step.stage < 4 THEN [step EXCEPT !.stage = @ + 1] ELSE Idle
  BY DEF Advance, View
<1>2. /\ D = [memory |-> D.memory, primary |-> dev.primary, curvature |-> dev.curvature,
              derivatives |-> dev.derivatives, ready |-> dev.ready]
      /\ \A s \in Slots : s # <<OutView, "Companion">> => D.memory[s] = dev.memory[s]
  BY PassiveSlopeOf
<1>3. "state" \in Terms(step.stage)
  BY DEF Terms
<1> HIDE DEF D
<1>4. /\ DOMAIN F = Slots
      /\ \A s \in Slots : s \notin {View} \X StepFields => F[s] = D.memory[s]
      /\ \A f \in StepFields, m \in Modes :
           /\ F[<<View, f>>][m] \subseteq {InputOf(f, serial + 1, m, 0), NonFinite}
           /\ \A i \in D.memory[<<"state", f>>][m] :
                i # NonFinite => InputOf(f, serial + 1, m, 0) \in F[<<View, f>>][m]
  BY <1>3, FilledWith
<1> HIDE DEF F
<1>5. device' = [memory |-> F, primary |-> dev.primary, curvature |-> dev.curvature,
                 derivatives |-> dev.derivatives, ready |-> dev.ready]
  BY <1>1, <1>2
<1>6. ASSUME NEW f \in {"Primary", "Companion"}, NEW m \in Modes
      PROVE  InputOf(f, serial + 1, m, 0) \in F[<<View, f>>][m]
  <2> DEFINE s == IF f = "Primary" THEN "primary" ELSE "companion"
  <2>1. OutView \notin {"state", "primary", "scratch", "curvature", "derivatives", "constraints"}
    BY ViewsOf DEF TransportInv, CounterInv
  <2>2. f \in FieldsOf[s] /\ s \in Systems /\ f \in StepFields /\ "state" \in StageViews
    BY StepFieldsAre DEF FieldsOf, Systems, StageViews
  <2>3. InputOf(f, holds[s]["state"], m, 0) \in device.memory[<<"state", f>>][m]
    BY <2>2 DEF TransportInv, BuffersInv
  <2>4. <<"state", f>> \in Slots /\ <<"state", f>> \notin Outputs(OutView)
        /\ <<"state", f>> # <<OutView, "Primary">> /\ <<"state", f>> # <<OutView, "Companion">>
        /\ <<"state", f>>[1] \notin {"primary", "scratch"}
    BY <2>1, <2>2, StepSlots DEF Outputs
  <2>5. D.memory[<<"state", f>>] = device.memory[<<"state", f>>]
    <3>1. D.memory[<<"state", f>>] = dev.memory[<<"state", f>>]
      BY <1>2, <2>4
    <3>2. dev.memory[<<"state", f>>] = PrimarySlope(device.memory)[<<"state", f>>]
      BY <2>4 DEF LeftBy
    <3>3. PrimarySlope(device.memory)[<<"state", f>>] = device.memory[<<"state", f>>]
      BY <2>4, PrimarySlopeIs
    <3> QED
      BY <3>1, <3>2, <3>3
  <2>6. InputOf(f, holds[s]["state"], m, 0) # NonFinite
    BY DEF InputOf, NonFinite
  <2> QED
    BY <1>4, <2>2, <2>3, <2>5, <2>6
<1>7. device'.memory = F
  BY <1>5
<1>8. AdvancedTo(dev, device')
  BY <1>4, <1>5, <1>6, <1>7, StepFieldsAre DEF AdvancedTo, D
<1> QED
  BY <1>1, <1>8

-----------------------------------------------------------------------------
(* The invariant is inductive *)

\* What a stage hands out, and that it does so as a whole.
Handed == ({"curvature"} \X CurvatureFields) \cup ({"derivatives"} \X DerivativeFields)
Whole(mem, curvature, derivatives, last) ==
  \/ /\ Stamps(curvature, CurvatureFields, last) /\ Stamps(derivatives, DerivativeFields, last)
     /\ \A s \in Handed, m \in Modes : NonFinite \notin mem[s][m]
  \/ /\ Stamps(curvature, CurvatureFields, 0) /\ Stamps(derivatives, DerivativeFields, 0)
     /\ \A s \in Handed, m \in Modes : mem[s][m] = {}
     /\ \A f \in ConstraintFields, m \in Modes : mem[<<"constraints", f>>][m] = {}

LEMMA WholeNow ==
  ASSUME WholeStageOrNone, host.available
  PROVE  Whole(device.memory, device.curvature, device.derivatives, host.last)
<1> DEFINE outputs == (CurvatureFields \X {"curvature"}) \cup
                      (DerivativeFields \X {"derivatives"})
           Stamp(o) == IF o[2] = "curvature" THEN device.curvature[o[1]]
                       ELSE device.derivatives[o[1]]
           Held(o, m) == device.memory[<<o[2], o[1]>>][m]
<1>1. \/ \A o \in outputs, m \in Modes : Stamp(o)[m] = host.last /\ NonFinite \notin Held(o, m)
      \/ /\ \A o \in outputs, m \in Modes : Stamp(o)[m] = 0 /\ Held(o, m) = {}
         /\ InputsOf(device.memory, "constraints", ConstraintFields) = {}
  BY DEF WholeStageOrNone
<1>3. CASE \A o \in outputs, m \in Modes : Stamp(o)[m] = host.last /\ NonFinite \notin Held(o, m)
  <2>1. /\ Stamps(device.curvature, CurvatureFields, host.last)
        /\ Stamps(device.derivatives, DerivativeFields, host.last)
        /\ \A f \in CurvatureFields, m \in Modes :
             NonFinite \notin device.memory[<<"curvature", f>>][m]
        /\ \A f \in DerivativeFields, m \in Modes :
             NonFinite \notin device.memory[<<"derivatives", f>>][m]
    <3>1. ASSUME NEW f \in CurvatureFields, NEW m \in Modes
          PROVE  /\ device.curvature[f][m] = host.last
                 /\ NonFinite \notin device.memory[<<"curvature", f>>][m]
      <4> DEFINE o == <<f, "curvature">>
      <4>1. o \in outputs /\ o[1] = f /\ o[2] = "curvature"
        OBVIOUS
      <4> HIDE DEF o, outputs
      <4> QED
        BY <4>1, <1>3
    <3>2. ASSUME NEW f \in DerivativeFields, NEW m \in Modes
          PROVE  /\ device.derivatives[f][m] = host.last
                 /\ NonFinite \notin device.memory[<<"derivatives", f>>][m]
      <4> DEFINE o == <<f, "derivatives">>
      <4>1. o \in outputs /\ o[1] = f /\ o[2] = "derivatives"
        OBVIOUS
      <4> HIDE DEF o, outputs
      <4> QED
        BY <4>1, <1>3
    <3> QED
      BY <3>1, <3>2 DEF Stamps
  <2> QED
    BY <2>1 DEF Whole, Handed
<1>4. CASE /\ \A o \in outputs, m \in Modes : Stamp(o)[m] = 0 /\ Held(o, m) = {}
           /\ InputsOf(device.memory, "constraints", ConstraintFields) = {}
  <2>1. /\ Stamps(device.curvature, CurvatureFields, 0)
        /\ Stamps(device.derivatives, DerivativeFields, 0)
        /\ \A f \in CurvatureFields, m \in Modes : device.memory[<<"curvature", f>>][m] = {}
        /\ \A f \in DerivativeFields, m \in Modes : device.memory[<<"derivatives", f>>][m] = {}
    <3>1. ASSUME NEW f \in CurvatureFields, NEW m \in Modes
          PROVE  device.curvature[f][m] = 0 /\ device.memory[<<"curvature", f>>][m] = {}
      <4> DEFINE o == <<f, "curvature">>
      <4>1. o \in outputs /\ o[1] = f /\ o[2] = "curvature"
        OBVIOUS
      <4> HIDE DEF o, outputs
      <4> QED
        BY <4>1, <1>4
    <3>2. ASSUME NEW f \in DerivativeFields, NEW m \in Modes
          PROVE  device.derivatives[f][m] = 0 /\ device.memory[<<"derivatives", f>>][m] = {}
      <4> DEFINE o == <<f, "derivatives">>
      <4>1. o \in outputs /\ o[1] = f /\ o[2] = "derivatives"
        OBVIOUS
      <4> HIDE DEF o, outputs
      <4> QED
        BY <4>1, <1>4
    <3> QED
      BY <3>1, <3>2 DEF Stamps
  <2>2. ASSUME NEW f \in ConstraintFields, NEW m \in Modes
        PROVE  device.memory[<<"constraints", f>>][m] = {}
    BY <1>4 DEF InputsOf
  <2> QED
    BY <2>1, <2>2 DEF Whole, Handed
<1> QED
  BY <1>1, <1>3, <1>4

LEMMA WholeNext ==
  ASSUME host'.available =>
           Whole(device'.memory, device'.curvature, device'.derivatives, host'.last)
  PROVE  WholeStageOrNone'
<1> SUFFICES ASSUME host'.available PROVE WholeStageOrNone'
  BY DEF WholeStageOrNone
<1> DEFINE outputs == (CurvatureFields \X {"curvature"}) \cup
                      (DerivativeFields \X {"derivatives"})
           Stamp(o) == IF o[2] = "curvature" THEN device'.curvature[o[1]]
                       ELSE device'.derivatives[o[1]]
           Held(o, m) == device'.memory[<<o[2], o[1]>>][m]
<1>1. \A o \in outputs :
        \/ \E f \in CurvatureFields : /\ o = <<f, "curvature">>
                                      /\ Stamp(o) = device'.curvature[f]
                                      /\ <<o[2], o[1]>> = <<"curvature", f>>
        \/ \E f \in DerivativeFields : /\ o = <<f, "derivatives">>
                                       /\ Stamp(o) = device'.derivatives[f]
                                       /\ <<o[2], o[1]>> = <<"derivatives", f>>
  OBVIOUS
<1>2. /\ \A f \in CurvatureFields : <<"curvature", f>> \in Handed
      /\ \A f \in DerivativeFields : <<"derivatives", f>> \in Handed
  BY DEF Handed
<1>3. \/ \A o \in outputs, m \in Modes :
           Stamp(o)[m] = host'.last /\ NonFinite \notin Held(o, m)
      \/ /\ \A o \in outputs, m \in Modes : Stamp(o)[m] = 0 /\ Held(o, m) = {}
         /\ InputsOf(device'.memory, "constraints", ConstraintFields) = {}
  <2>1. CASE /\ Stamps(device'.curvature, CurvatureFields, host'.last)
             /\ Stamps(device'.derivatives, DerivativeFields, host'.last)
             /\ \A s \in Handed, m \in Modes : NonFinite \notin device'.memory[s][m]
    <3>1. ASSUME NEW o \in outputs, NEW m \in Modes
          PROVE  Stamp(o)[m] = host'.last /\ NonFinite \notin Held(o, m)
      <4> HIDE DEF outputs, Stamp
      <4> QED
        BY <1>1, <1>2, <2>1, <3>1 DEF Stamps
    <3> QED
      BY <3>1
  <2>2. CASE /\ Stamps(device'.curvature, CurvatureFields, 0)
             /\ Stamps(device'.derivatives, DerivativeFields, 0)
             /\ \A s \in Handed, m \in Modes : device'.memory[s][m] = {}
             /\ \A f \in ConstraintFields, m \in Modes :
                  device'.memory[<<"constraints", f>>][m] = {}
    <3>1. ASSUME NEW o \in outputs, NEW m \in Modes
          PROVE  Stamp(o)[m] = 0 /\ Held(o, m) = {}
      <4> HIDE DEF outputs, Stamp
      <4> QED
        BY <1>1, <1>2, <2>2, <3>1 DEF Stamps
    <3>2. InputsOf(device'.memory, "constraints", ConstraintFields) = {}
      <4> SUFFICES ASSUME NEW i \in InputsOf(device'.memory, "constraints", ConstraintFields)
                   PROVE  FALSE
        OBVIOUS
      <4>1. \E f \in ConstraintFields, m \in Modes : i \in device'.memory[<<"constraints", f>>][m]
        BY InputsFrom
      <4> QED
        BY <2>2, <4>1
    <3> QED
      BY <3>1, <3>2
  <2> QED
    BY <2>1, <2>2 DEF Whole
<1> QED
  BY <1>3 DEF WholeStageOrNone

\* What was evaluated is handed out as a whole.
LEMMA WholeAfter ==
  ASSUME TransportInv, InStep, Accepted(host.next), NEW dev, LeftBy(dev),
         host'.last = host.next, device'.curvature = dev.curvature,
         device'.derivatives = dev.derivatives,
         \A s \in Slots : s[1] \in {"curvature", "derivatives", "constraints"} =>
           device'.memory[s] = dev.memory[s]
  PROVE  WholeStageOrNone'
<1>1. /\ Handed \subseteq Outputs(OutView) /\ Handed \subseteq Slots
      /\ \A s \in Handed : s[1] \in {"curvature", "derivatives", "constraints"}
      /\ \A f \in ConstraintFields : /\ <<"constraints", f>> \in Outputs(OutView)
                                     /\ <<"constraints", f>> \in Slots
  BY DEF Handed, Outputs, Slots, TransportSlots
<1>2. /\ \A s \in Handed : device'.memory[s] = dev.memory[s]
      /\ \A f \in ConstraintFields :
           device'.memory[<<"constraints", f>>] = dev.memory[<<"constraints", f>>]
  BY <1>1
<1>3. CASE Within(dev.memory, Outputs(OutView), Clean(holds["bianchi"][InView], StagesRead))
           /\ Stamps(dev.curvature, CurvatureFields, host.next)
           /\ Stamps(dev.derivatives, DerivativeFields, host.next)
  <2>1. \A s \in Slots, m \in Modes :
          NonFinite \notin Clean(holds["bianchi"][InView], StagesRead)[s][m]
    BY DEF Clean, NonFinite, InputOf
  <2>2. ASSUME NEW s \in Handed, NEW m \in Modes PROVE NonFinite \notin device'.memory[s][m]
    BY <1>1, <1>2, <1>3, <2>1 DEF Within
  <2> QED
    BY <1>3, <2>2, WholeNext DEF Whole
<1>4. CASE /\ Stamps(dev.curvature, CurvatureFields, 0)
           /\ Stamps(dev.derivatives, DerivativeFields, 0)
           /\ \A s \in Outputs(OutView), m \in Modes : dev.memory[s][m] = {}
  <2>1. /\ \A s \in Handed, m \in Modes : device'.memory[s][m] = {}
        /\ \A f \in ConstraintFields, m \in Modes :
             device'.memory[<<"constraints", f>>][m] = {}
    BY <1>1, <1>2, <1>4
  <2> QED
    BY <1>4, <2>1, WholeNext DEF Whole
<1> QED
  BY <1>3, <1>4 DEF LeftBy

\* Where the host and the outputs stay as they are, they stay whole.
LEMMA WholeStill ==
  ASSUME WholeStageOrNone, host' = host, device'.curvature = device.curvature,
         device'.derivatives = device.derivatives,
         \A s \in Slots : s[1] \in {"curvature", "derivatives", "constraints"} =>
           device'.memory[s] = device.memory[s]
  PROVE  WholeStageOrNone'
<1>1. /\ \A s \in Handed : device'.memory[s] = device.memory[s]
      /\ \A f \in ConstraintFields :
           device'.memory[<<"constraints", f>>] = device.memory[<<"constraints", f>>]
  <2>1. /\ Handed \subseteq Slots
        /\ \A s \in Handed : s[1] \in {"curvature", "derivatives", "constraints"}
        /\ \A f \in ConstraintFields : <<"constraints", f>> \in Slots
    BY DEF Handed, Slots, TransportSlots
  <2> QED
    BY <2>1
<1>2. ASSUME host'.available
      PROVE  Whole(device'.memory, device'.curvature, device'.derivatives, host'.last)
  <2>1. Whole(device.memory, device.curvature, device.derivatives, host.last)
    BY <1>2, WholeNow
  <2> QED
    BY <1>1, <2>1 DEF Whole
<1> QED
  BY <1>2, WholeNext

\* A stage writes to no state, stage or slope buffer but its own slope.
LEMMA KeptBuffers ==
  ASSUME TransportInv, InStep, NEW mem,
         \A s \in Slots : s[1] \notin {"primary", "scratch"} /\ s \notin Outputs(OutView) =>
           mem[s] = PrimarySlope(device.memory)[s],
         NEW v \in StageViews \cup Range(Slopes), v # OutView, NEW f \in StepFields
  PROVE  mem[<<v, f>>] = device.memory[<<v, f>>]
<1>1. v \notin {"primary", "scratch", "curvature", "derivatives", "constraints"}
  BY SlopeViews DEF StageViews
<1>2. <<v, f>> \in Slots /\ <<v, f>> # <<OutView, "Primary">>
  BY StepSlots
<1>3. <<v, f>> \notin Outputs(OutView) /\ <<v, f>>[1] \notin {"primary", "scratch"}
  BY <1>1 DEF Outputs
<1>4. PrimarySlope(device.memory)[<<v, f>>] = device.memory[<<v, f>>]
  BY <1>2, PrimarySlopeIs
<1> QED
  BY <1>2, <1>3, <1>4

\* An exception leaves the step: contents and buffers are as they were, whatever
\* became of the inputs and outputs.
LEMMA LeavesStep ==
  ASSUME TransportInv, CounterInv', InStep, step' = Idle, holds' = holds, serial' = serial,
         DeviceInv', AgeInv', WholeStageOrNone', MetricInv',
         \A s \in Slots : s[1] \notin {"primary", "scratch"} /\ s \notin Outputs(OutView) =>
           device'.memory[s] = PrimarySlope(device.memory)[s]
  PROVE  TransportInv'
<1>1. \A v \in StageViews, f \in StepFields :
        device'.memory[<<v, f>>] = device.memory[<<v, f>>]
  <2>1. \A v \in StageViews : v \in StageViews \cup Range(Slopes) /\ v # OutView
    BY ViewsOf DEF StageViews, TransportInv, CounterInv
  <2> QED
    BY <2>1, KeptBuffers
<1>2. \A s \in Systems : FieldsOf[s] \subseteq StepFields
  BY DEF StepFields
<1>3. step'.stage = 0
  BY DEF Idle
<1>4. HoldsInv'
  BY <1>3 DEF TransportInv, HoldsInv
<1>5. BuffersInv'
  <2>1. ASSUME NEW s \in Systems, NEW v \in StageViews, NEW f \in FieldsOf[s], NEW m \in Modes
        PROVE  /\ device'.memory[<<v, f>>][m] \subseteq {InputOf(f, holds'[s][v], m, 0), NonFinite}
               /\ f \in {"Primary", "Companion"} /\ (v = "state" \/ step'.stage >= 2) =>
                    InputOf(f, holds'[s][v], m, 0) \in device'.memory[<<v, f>>][m]
    <3>1. device'.memory[<<v, f>>] = device.memory[<<v, f>>]
      BY <1>1, <1>2
    <3>2. ~(step'.stage >= 2)
      BY <1>3
    <3> QED
      BY <3>1, <3>2 DEF TransportInv, BuffersInv
  <2> QED
    BY <2>1 DEF BuffersInv
<1>6. SlopesInv'
  BY <1>3 DEF SlopesInv
<1> QED
  BY <1>4, <1>5, <1>6 DEF TransportInv

LEMMA StepRefuse ==
  ASSUME TransportInv, CounterInv', Refuse
  PROVE  TransportInv'
<1> DEFINE M == PrimarySlope(device.memory)
<1>1. /\ InStep /\ step' = Idle /\ host' = host /\ holds' = holds /\ serial' = serial
      /\ lives' = lives /\ leftovers' = leftovers
      /\ device' = [device EXCEPT !.memory = M]
  BY DEF Refuse
<1>2. device = [memory |-> device.memory, primary |-> device.primary,
                curvature |-> device.curvature, derivatives |-> device.derivatives,
                ready |-> device.ready]
  BY DEF TransportInv, DeviceInv
<1>3. /\ DOMAIN M = Slots
      /\ \A s \in Slots : s # <<OutView, "Primary">> => M[s] = device.memory[s]
  BY <1>1, PrimarySlopeIs
<1> HIDE DEF M
<1>4. device' = [memory |-> M, primary |-> device.primary,
                 curvature |-> device.curvature, derivatives |-> device.derivatives,
                 ready |-> device.ready]
  BY <1>1, <1>2
<1>5. /\ device'.memory = M /\ device'.primary = device.primary
      /\ device'.curvature = device.curvature /\ device'.derivatives = device.derivatives
      /\ device'.ready = device.ready
  BY <1>4
<1>6. DeviceInv'
  BY <1>3, <1>4, <1>5 DEF TransportInv, DeviceInv
<1>7. AgeInv'
  BY <1>1, <1>5 DEF TransportInv, AgeInv
<1>8. OutView \notin {"primary", "curvature", "derivatives", "constraints", "scratch"}
  BY <1>1, ViewsOf DEF TransportInv, CounterInv
<1>9. WholeStageOrNone'
  <2>1. \A s \in Slots : s[1] \in {"curvature", "derivatives", "constraints"} =>
          s # <<OutView, "Primary">>
    BY <1>8
  <2> QED
    BY <1>1, <1>3, <1>5, <2>1, WholeStill DEF TransportInv
<1>10. MetricInv'
  <2>1. \A f \in PrimaryFields : device'.memory[<<"primary", f>>] = device.memory[<<"primary", f>>]
    BY <1>3, <1>5, <1>8, StepSlots
  <2> QED
    BY <1>1, <2>1 DEF TransportInv, MetricInv
<1> QED
  BY <1>1, <1>5, <1>6, <1>7, <1>9, <1>10, LeavesStep DEF M

LEMMA StepProducerThrows ==
  ASSUME TransportInv, CounterInv', ProducerThrows
  PROVE  TransportInv'
<1>1. /\ InStep /\ Accepted(host.next) /\ step' = Idle /\ host' = host /\ holds' = holds
      /\ serial' = serial /\ lives' = lives /\ leftovers' = TRUE
  BY DEF ProducerThrows
<1>2. PICK skipped : device' = Produced(host.next, skipped, {})
  BY DEF ProducerThrows
<1>3. ProducedAs(device', host.next, skipped)
  BY <1>1, <1>2, NextIsNew, ProducedOf
<1>4. /\ device' = [memory |-> device'.memory, primary |-> device'.primary,
                    curvature |-> device.curvature, derivatives |-> device.derivatives,
                    ready |-> device.ready]
      /\ DOMAIN device'.memory = Slots
      /\ device'.primary \in [PrimaryFields -> [Modes -> Nat]]
      /\ \A s \in Slots : s[1] # "primary" =>
           device'.memory[s] = PrimarySlope(device.memory)[s]
  BY <1>3 DEF ProducedAs
<1>5. device'.curvature = device.curvature /\ device'.derivatives = device.derivatives
      /\ device'.ready = device.ready
  BY <1>4
<1>6. DeviceInv'
  BY <1>4, <1>5 DEF DeviceInv
<1>7. AgeInv'
  BY <1>1 DEF TransportInv, AgeInv, Accepted
<1>8. WholeStageOrNone'
  <2>1. OutView \notin {"curvature", "derivatives", "constraints"}
    BY <1>1, ViewsOf DEF TransportInv, CounterInv
  <2>2. \A s \in Slots : s[1] \in {"curvature", "derivatives", "constraints"} =>
          PrimarySlope(device.memory)[s] = device.memory[s]
    BY <1>1, <2>1, PrimarySlopeIs
  <2> QED
    BY <1>1, <1>4, <1>5, <2>2, WholeStill DEF TransportInv
<1>9. MetricInv'
  <2> SUFFICES ASSUME NEW f \in PrimaryFields, NEW m \in Modes
               PROVE  device'.memory[<<"primary", f>>][m] \subseteq
                        MetricInput(f, m, 0 .. serial) \cup {NonFinite}
    BY <1>1 DEF MetricInv
  <2>1. OwnStage \subseteq 0 .. serial
    BY <1>1, PrimaryHeld DEF OwnStage
  <2>2. MetricInput(f, m, OwnStage) \subseteq MetricInput(f, m, 0 .. serial)
    BY <2>1 DEF MetricInput
  <2> QED
    BY <1>3, <2>2 DEF ProducedAs
<1> QED
  BY <1>1, <1>4, <1>6, <1>7, <1>8, <1>9, LeavesStep

LEMMA StepPassiveThrows ==
  ASSUME TransportInv, CounterInv', PassiveThrows
  PROVE  TransportInv'
<1>1. /\ InStep /\ Accepted(host.next) /\ step' = Idle /\ holds' = holds
      /\ serial' = serial /\ lives' = lives /\ leftovers' = leftovers
      /\ host' = Passed(host.next)
      /\ device' = Evaluated(Produced(host.next, {}, {}), host.next)
  BY DEF PassiveThrows
<1>2. LeftBy(device')
  BY <1>1, EvaluatedOf
<1>3. host'.last = host.next
  BY <1>1, PassedCounter DEF TransportInv
<1>4. DeviceInv'
  BY <1>2 DEF LeftBy, DeviceInv
<1>5. AgeInv'
  <2>1. host.initialized
    BY <1>1 DEF Accepted
  <2>2. ~leftovers => \A f \in PrimaryFields, m \in Modes : device'.primary[f][m] <= host.next
    <3> SUFFICES ASSUME ~leftovers, NEW f \in PrimaryFields, NEW m \in Modes
                 PROVE  device'.primary[f][m] <= host.next
      OBVIOUS
    <3>1. device'.primary[f][m] \in {device.primary[f][m], host.next}
      BY <1>2 DEF LeftBy
    <3>2. device.primary[f][m] \in Nat /\ device.primary[f][m] <= host.last
      BY DEF TransportInv, AgeInv, DeviceInv
    <3>3. host.next \in Nat /\ host.last \in Nat /\ host.last < host.next
      BY <1>1, NextIsNew
    <3> QED
      BY <3>1, <3>2, <3>3
  <2> QED
    BY <1>1, <1>3, <2>1, <2>2 DEF TransportInv, AgeInv
<1>6. WholeStageOrNone'
  BY <1>1, <1>2, <1>3, WholeAfter
<1>7. MetricInv'
  BY <1>1, <1>2 DEF LeftBy, MetricInv
<1> QED
  BY <1>1, <1>2, <1>4, <1>5, <1>6, <1>7, LeavesStep DEF LeftBy

LEMMA StepLife ==
  ASSUME TransportInv, CounterInv', NEW b, NEW last \in Generations, NEW bad,
         BeginLife(b, last, bad)
  PROVE  TransportInv'
<1> DEFINE M == NewState(device.memory, serial + 1, bad)
           Z0 == [m \in Modes |-> IF m \in bad THEN {NonFinite}
                                  ELSE {InputOf("Z0", serial + 1, m, 0)}]
           Z1 == [m \in Modes |-> {InputOf("Z1", serial + 1, m, 0)}]
<1>1. /\ step = Idle /\ step' = step /\ host' = Reborn(b, last)
      /\ device' = [device EXCEPT !.memory = M]
      /\ holds' = [holds EXCEPT !["bianchi"]["state"] = serial + 1]
      /\ serial' = serial + 1 /\ lives' = lives + 1 /\ leftovers' = (lives > 0)
  BY DEF BeginLife
<1>2. /\ DOMAIN device.memory = Slots /\ serial \in Nat /\ lives \in Nat /\ last \in Nat
      /\ holds \in [Systems -> [StageViews -> Nat]]
      /\ device = [memory |-> device.memory, primary |-> device.primary,
                   curvature |-> device.curvature, derivatives |-> device.derivatives,
                   ready |-> device.ready]
  BY FirstGeneration DEF TransportInv, CounterInv, DeviceInv, HoldsInv, Generations
<1>3. <<"state", "Z0">> \in Slots /\ <<"state", "Z1">> \in Slots
  BY StepSlots, StepFieldsAre DEF StageViews
<1>4. M = [device.memory EXCEPT ![<<"state", "Z0">>] = Z0, ![<<"state", "Z1">>] = Z1]
  BY DEF NewState
<1> HIDE DEF M, Z0, Z1
<1>5. /\ DOMAIN M = Slots /\ M[<<"state", "Z0">>] = Z0 /\ M[<<"state", "Z1">>] = Z1
      /\ \A s \in Slots : s \notin {<<"state", "Z0">>, <<"state", "Z1">>} =>
           M[s] = device.memory[s]
  BY <1>2, <1>3, <1>4
<1>6. device' = [memory |-> M, primary |-> device.primary, curvature |-> device.curvature,
                 derivatives |-> device.derivatives, ready |-> device.ready]
  BY <1>1, <1>2
<1>7. /\ device'.memory = M /\ device'.primary = device.primary
      /\ device'.curvature = device.curvature /\ device'.derivatives = device.derivatives
      /\ device'.ready = device.ready
  BY <1>6
<1>8. DeviceInv'
  BY <1>5, <1>6, <1>7 DEF TransportInv, DeviceInv
<1>9. /\ step'.stage = 0 /\ "bianchi" \in Systems /\ "state" \in StageViews
      /\ holds'["bianchi"]["state"] = serial + 1
      /\ holds' \in [Systems -> [StageViews -> Nat]]
      /\ \A s \in Systems, v \in StageViews :
           <<s, v>> # <<"bianchi", "state">> => holds'[s][v] = holds[s][v]
  BY <1>1, <1>2 DEF Idle, Systems, StageViews
<1>10. HoldsInv'
  <2>1. \A s \in Systems, v \in StageViews : holds'[s][v] <= serial + 1
    <3> SUFFICES ASSUME NEW s \in Systems, NEW v \in StageViews
                 PROVE  holds'[s][v] <= serial + 1
      OBVIOUS
    <3>1. holds[s][v] \in Nat /\ holds[s][v] <= serial
      BY DEF TransportInv, HoldsInv
    <3> QED
      BY <1>2, <1>9, <3>1
  <2> QED
    BY <1>1, <1>2, <1>9, <2>1 DEF HoldsInv
<1>11. BuffersInv'
  <2>1. ASSUME NEW s \in Systems, NEW v \in StageViews, NEW f \in FieldsOf[s], NEW m \in Modes
        PROVE  /\ device'.memory[<<v, f>>][m] \subseteq {InputOf(f, holds'[s][v], m, 0), NonFinite}
               /\ f \in {"Primary", "Companion"} /\ (v = "state" \/ step'.stage >= 2) =>
                    InputOf(f, holds'[s][v], m, 0) \in device'.memory[<<v, f>>][m]
    <3>1. CASE s = "bianchi" /\ v = "state"
      <4>1. f \in {"Z0", "Z1"}
        BY <3>1 DEF FieldsOf, StateFields
      <4>2. M[<<v, f>>][m] \subseteq {InputOf(f, serial + 1, m, 0), NonFinite}
        BY <1>5, <3>1, <4>1 DEF Z0, Z1
      <4> QED
        BY <1>7, <1>9, <3>1, <4>1, <4>2
    <3>2. CASE ~(s = "bianchi" /\ v = "state")
      <4>1. <<v, f>> \notin {<<"state", "Z0">>, <<"state", "Z1">>}
        BY <3>2 DEF FieldsOf, StateFields, Systems
      <4>2. <<v, f>> \in Slots
        BY StepSlots DEF StepFields
      <4>3. device'.memory[<<v, f>>] = device.memory[<<v, f>>]
        BY <1>5, <1>7, <4>1, <4>2
      <4>4. holds'[s][v] = holds[s][v]
        BY <1>9, <3>2
      <4>5. ~(step'.stage >= 2)
        BY <1>9
      <4> QED
        BY <4>3, <4>4, <4>5 DEF TransportInv, BuffersInv
    <3> QED
      BY <3>1, <3>2
  <2> QED
    BY <2>1 DEF BuffersInv
<1>12. MetricInv'
  <2>1. \A f \in PrimaryFields : device'.memory[<<"primary", f>>] = device.memory[<<"primary", f>>]
    BY <1>5, <1>7, StepSlots
  <2>2. \A f, m : MetricInput(f, m, 0 .. serial) \subseteq MetricInput(f, m, 0 .. serial + 1)
    BY <1>2 DEF MetricInput
  <2> QED
    BY <1>1, <2>1, <2>2 DEF TransportInv, MetricInv
<1>13. AgeInv'
  <2>1. host'.last = last
    BY <1>1 DEF Reborn
  <2>2. lives' # 0
    BY <1>1, <1>2
  <2>3. ~leftovers' => \A f \in PrimaryFields, m \in Modes : device'.primary[f][m] <= last
    <3> SUFFICES ASSUME ~leftovers', NEW f \in PrimaryFields, NEW m \in Modes
                 PROVE  device'.primary[f][m] <= last
      OBVIOUS
    <3>1. lives = 0
      <4>1. leftovers' = (lives > 0)
        BY DEF BeginLife
      <4>2. ~(lives > 0)
        BY <4>1, Zenon
      <4> QED
        BY <1>2, <4>2
    <3>2. device.primary[f][m] = 0
      BY <3>1 DEF TransportInv, AgeInv
    <3> QED
      BY <1>2, <1>7, <3>2
  <2> QED
    BY <1>1, <2>1, <2>2, <2>3 DEF AgeInv
<1>14. SlopesInv'
  BY <1>9 DEF SlopesInv
<1>15. WholeStageOrNone'
  <2>1. ~host'.available
    BY <1>1 DEF Reborn
  <2> QED
    BY <2>1, WholeNext
<1> QED
  BY <1>8, <1>10, <1>11, <1>12, <1>13, <1>14, <1>15 DEF TransportInv

LEMMA StepBegin ==
  ASSUME TransportInv, CounterInv', BeginStep
  PROVE  TransportInv'
<1>1. /\ step = Idle /\ step'.stage = 1 /\ host' = host /\ device' = device
      /\ holds' = holds /\ serial' = serial /\ lives' = lives /\ leftovers' = leftovers
  BY DEF BeginStep
<1>2. ~(step'.stage >= 2) /\ \A i \in 1 .. 4 : ~(i < step'.stage)
  BY <1>1
<1>3. DeviceInv' /\ HoldsInv' /\ MetricInv' /\ AgeInv'
  BY <1>1, <1>2 DEF TransportInv, DeviceInv, HoldsInv, MetricInv, AgeInv
<1>4. BuffersInv'
  <2>1. ASSUME NEW s \in Systems, NEW v \in StageViews, NEW f \in FieldsOf[s], NEW m \in Modes
        PROVE  /\ device'.memory[<<v, f>>][m] \subseteq {InputOf(f, holds'[s][v], m, 0), NonFinite}
               /\ f \in {"Primary", "Companion"} /\ (v = "state" \/ step'.stage >= 2) =>
                    InputOf(f, holds'[s][v], m, 0) \in device'.memory[<<v, f>>][m]
    BY <1>1, <1>2 DEF TransportInv, BuffersInv
  <2> QED
    BY <2>1 DEF BuffersInv
<1>5. SlopesInv'
  BY <1>2 DEF SlopesInv
<1>6. WholeStageOrNone'
  BY <1>1, WholeStill DEF TransportInv
<1> QED
  BY <1>3, <1>4, <1>5, <1>6 DEF TransportInv

\* What a stage that passes leaves: the outputs of the closure, the slopes of its
\* own contents, new contents in the buffer of the view, and all others as they
\* were.
PassedOn(dev) ==
  /\ LeftBy(dev) /\ AdvancedTo(dev, device')
  /\ holds' = [s \in Systems |-> [holds[s] EXCEPT ![View] = serial + 1]]
  /\ serial' = serial + 1
  /\ step' = IF step.stage < 4 THEN [step EXCEPT !.stage = @ + 1] ELSE Idle
  /\ \A s \in Slots : s \notin {View} \X StepFields /\ s # <<OutView, "Companion">> =>
       device'.memory[s] = dev.memory[s]
  /\ Slope(device'.memory, OutView, ContentsNow, leftovers)
  /\ \A v \in StageViews \cup Range(Slopes), f \in StepFields : v # OutView /\ v # View =>
       device'.memory[<<v, f>>] = device.memory[<<v, f>>]

LEMMA PassOf ==
  ASSUME TransportInv, NEW skipped, NEW bad, Pass(skipped, bad)
  PROVE  \E dev : PassedOn(dev)
<1> DEFINE dev == Evaluated(Produced(host.next, skipped, bad), host.next)
           M == PassiveSlope(dev, host.next).memory
<1>1. InStep /\ Accepted(host.next) /\ Advance(PassiveSlope(dev, host.next))
  BY DEF Pass
<1>2. LeftBy(dev)
  BY <1>1, EvaluatedOf
<1> HIDE DEF dev
<1>3. /\ AdvancedTo(dev, device')
      /\ holds' = [s \in Systems |-> [holds[s] EXCEPT ![View] = serial + 1]]
      /\ serial' = serial + 1
      /\ step' = IF step.stage < 4 THEN [step EXCEPT !.stage = @ + 1] ELSE Idle
  BY <1>1, <1>2, AdvanceOf
<1>4. \A s \in Slots : s # <<OutView, "Companion">> => M[s] = dev.memory[s]
  BY <1>1, <1>2, PassiveSlopeOf
<1>5. Slope(M, OutView, ContentsNow, leftovers)
  BY <1>1, <1>2, FreshSlope
<1> HIDE DEF M
<1>6. OutView # View /\ OutView \in Range(Slopes)
  BY <1>1, ViewsOf DEF TransportInv, CounterInv, View
<1>7. \A s \in Slots : s \notin {View} \X StepFields => device'.memory[s] = M[s]
  BY <1>3 DEF AdvancedTo, M
<1>8. \A s \in Slots : s \notin {View} \X StepFields /\ s # <<OutView, "Companion">> =>
        device'.memory[s] = dev.memory[s]
  BY <1>4, <1>7
<1>9. Slope(device'.memory, OutView, ContentsNow, leftovers)
  <2>1. \A f \in StepFields : device'.memory[<<OutView, f>>] = M[<<OutView, f>>]
    BY <1>6, <1>7, StepSlots
  <2> QED
    BY <1>5, <2>1, StepFieldsAre DEF Slope
<1>10. \A v \in StageViews \cup Range(Slopes), f \in StepFields : v # OutView /\ v # View =>
         device'.memory[<<v, f>>] = device.memory[<<v, f>>]
  <2> SUFFICES ASSUME NEW v \in StageViews \cup Range(Slopes), NEW f \in StepFields,
                      v # OutView, v # View
               PROVE  device'.memory[<<v, f>>] = device.memory[<<v, f>>]
    OBVIOUS
  <2>1. <<v, f>> \in Slots /\ <<v, f>> \notin {View} \X StepFields
        /\ <<v, f>> # <<OutView, "Companion">>
    BY StepSlots
  <2>2. dev.memory[<<v, f>>] = device.memory[<<v, f>>]
    BY <1>1, <1>2, KeptBuffers DEF LeftBy
  <2> QED
    BY <1>8, <2>1, <2>2
<1>11. PassedOn(dev)
  BY <1>2, <1>3, <1>8, <1>9, <1>10 DEF PassedOn
<1> QED
  BY <1>11

\* A stage that passes.
LEMMA StepPass ==
  ASSUME TransportInv, CounterInv', NEW skipped, NEW bad, Pass(skipped, bad)
  PROVE  TransportInv'
<1>1. /\ InStep /\ Accepted(host.next) /\ host' = Passed(host.next)
      /\ lives' = lives /\ leftovers' = leftovers
  BY DEF Pass
<1>2. PICK dev : PassedOn(dev)
  BY PassOf
<1>3. /\ LeftBy(dev) /\ AdvancedTo(dev, device')
      /\ holds' = [s \in Systems |-> [holds[s] EXCEPT ![View] = serial + 1]]
      /\ serial' = serial + 1
      /\ step' = IF step.stage < 4 THEN [step EXCEPT !.stage = @ + 1] ELSE Idle
  BY <1>2 DEF PassedOn
<1>4. \A s \in Slots : s \notin {View} \X StepFields /\ s # <<OutView, "Companion">> =>
        device'.memory[s] = dev.memory[s]
  BY <1>2 DEF PassedOn
<1>5. Slope(device'.memory, OutView, ContentsNow, leftovers)
  BY <1>2 DEF PassedOn
<1>6. host'.last = host.next
  BY <1>1, PassedCounter DEF TransportInv
<1>7. /\ step.stage \in 1 .. 4 /\ OutView = Slopes[step.stage]
      /\ OutView \in Range(Slopes) /\ InView \in StageViews
      /\ OutView \notin {"primary", "curvature", "derivatives", "constraints", "scratch",
                         "state", "stage"}
  BY <1>1, ViewsOf DEF TransportInv, CounterInv
<1>8. /\ step \in [stage: 0 .. 4, boundary: Boundaries \cup {"none"}, qualified: BOOLEAN]
      /\ serial \in Nat /\ holds \in [Systems -> [StageViews -> Nat]]
      /\ \A s \in Systems, v \in StageViews : holds[s][v] <= serial
  BY DEF TransportInv, CounterInv, StepInv, HoldsInv
<1>9. /\ step.stage < 4 => step'.stage = step.stage + 1 /\ View = "stage"
      /\ step.stage = 4 => step'.stage = 0 /\ View = "state"
  BY <1>3, <1>7, <1>8 DEF View, Idle
<1>10. /\ device'.primary = dev.primary /\ device'.curvature = dev.curvature
       /\ device'.derivatives = dev.derivatives
       /\ DOMAIN device'.memory = Slots
  BY <1>3 DEF AdvancedTo
<1>11. \A v \in StageViews \cup Range(Slopes), f \in StepFields : v # OutView /\ v # View =>
         device'.memory[<<v, f>>] = device.memory[<<v, f>>]
  BY <1>2 DEF PassedOn
<1>12. \A s \in Slots : s[1] \in {"primary", "curvature", "derivatives", "constraints"} =>
         device'.memory[s] = dev.memory[s]
  BY <1>4, <1>7, <1>9
<1>13. DeviceInv'
  BY <1>3, <1>10 DEF DeviceInv, LeftBy, AdvancedTo
<1>14. \A s \in Systems, v \in StageViews :
         holds'[s][v] = IF v = View THEN serial + 1 ELSE holds[s][v]
  BY <1>3, <1>8
<1>15. HoldsInv'
  <2>1. holds' \in [Systems -> [StageViews -> Nat]]
    <3>1. ASSUME NEW s \in Systems
          PROVE  [holds[s] EXCEPT ![View] = serial + 1] \in [StageViews -> Nat]
      <4>1. holds[s] \in [StageViews -> Nat] /\ serial + 1 \in Nat
        BY <1>8
      <4> QED
        BY <4>1
    <3> QED
      BY <1>3, <3>1
  <2>2. \A s \in Systems, v \in StageViews : holds'[s][v] <= serial + 1
    <3> SUFFICES ASSUME NEW s \in Systems, NEW v \in StageViews
                 PROVE  holds'[s][v] <= serial + 1
      OBVIOUS
    <3>1. holds[s][v] \in Nat /\ holds[s][v] <= serial
      BY <1>8
    <3> QED
      BY <1>8, <1>14, <3>1
  <2>3. step'.stage >= 2 => View = "stage"
    BY <1>7, <1>9
  <2>4. step'.stage >= 2 => \A s \in Systems : holds'[s]["stage"] = serial + 1
    BY <1>14, <2>3 DEF StageViews
  <2> QED
    BY <1>3, <1>8, <2>1, <2>2, <2>4 DEF HoldsInv
<1>16. BuffersInv'
  <2>1. ASSUME NEW s \in Systems, NEW v \in StageViews, NEW f \in FieldsOf[s], NEW m \in Modes
        PROVE  /\ device'.memory[<<v, f>>][m] \subseteq {InputOf(f, holds'[s][v], m, 0), NonFinite}
               /\ f \in {"Primary", "Companion"} /\ (v = "state" \/ step'.stage >= 2) =>
                    InputOf(f, holds'[s][v], m, 0) \in device'.memory[<<v, f>>][m]
    <3>1. f \in StepFields
      BY DEF StepFields
    <3>2. CASE v = View
      <4>1. /\ device'.memory[<<View, f>>][m] \subseteq {InputOf(f, serial + 1, m, 0), NonFinite}
            /\ f \in {"Primary", "Companion"} =>
                 InputOf(f, serial + 1, m, 0) \in device'.memory[<<View, f>>][m]
        BY <1>3, <3>1 DEF AdvancedTo
      <4> QED
        BY <1>14, <3>2, <4>1
    <3>3. CASE v # View
      <4>1. device'.memory[<<v, f>>] = device.memory[<<v, f>>]
        BY <1>7, <1>11, <3>1, <3>3 DEF StageViews
      <4>2. holds'[s][v] = holds[s][v]
        BY <1>14, <3>3
      <4>3. step'.stage >= 2 => v = "state"
        BY <1>7, <1>9, <3>3 DEF StageViews
      <4> QED
        BY <4>1, <4>2, <4>3 DEF TransportInv, BuffersInv
    <3> QED
      BY <3>2, <3>3
  <2> QED
    BY <2>1 DEF BuffersInv
<1>17. MetricInv'
  <2> SUFFICES ASSUME NEW f \in PrimaryFields, NEW m \in Modes
               PROVE  device'.memory[<<"primary", f>>][m]
                        \subseteq MetricInput(f, m, 0 .. serial + 1) \cup {NonFinite}
    BY <1>3 DEF MetricInv
  <2>1. device'.memory[<<"primary", f>>] = dev.memory[<<"primary", f>>]
    BY <1>12, StepSlots
  <2>2. MetricInput(f, m, 0 .. serial) \subseteq MetricInput(f, m, 0 .. serial + 1)
    BY <1>8 DEF MetricInput
  <2>3. dev.memory[<<"primary", f>>][m] \subseteq MetricInput(f, m, 0 .. serial) \cup {NonFinite}
    BY <1>3 DEF LeftBy
  <2> QED
    BY <2>1, <2>2, <2>3
<1>18. AgeInv'
  <2>1. host.initialized
    BY <1>1 DEF Accepted
  <2>2. ~leftovers => \A f \in PrimaryFields, m \in Modes : device'.primary[f][m] <= host.next
    <3> SUFFICES ASSUME ~leftovers, NEW f \in PrimaryFields, NEW m \in Modes
                 PROVE  device'.primary[f][m] <= host.next
      OBVIOUS
    <3>1. device'.primary[f][m] \in {device.primary[f][m], host.next}
      BY <1>3, <1>10 DEF LeftBy
    <3>2. device.primary[f][m] \in Nat /\ device.primary[f][m] <= host.last
      BY DEF TransportInv, AgeInv, DeviceInv
    <3>3. host.next \in Nat /\ host.last \in Nat /\ host.last < host.next
      BY <1>1, NextIsNew
    <3> QED
      BY <3>1, <3>2, <3>3
  <2> QED
    BY <1>1, <1>6, <2>1, <2>2 DEF TransportInv, AgeInv
<1>19. SlopesInv'
  <2> SUFFICES ASSUME NEW i \in 1 .. 4, i < step'.stage
               PROVE  Slope(device'.memory, Slopes[i], ContentsAt(i)', leftovers)
    BY <1>1 DEF SlopesInv
  <2>1. step.stage < 4 /\ step'.stage = step.stage + 1 /\ View = "stage" /\ i <= step.stage
    BY <1>7, <1>9
  <2>2. /\ Slopes[i] \in Range(Slopes) /\ Slopes[i] # View
        /\ "Primary" \in StepFields /\ "Companion" \in StepFields
    BY <2>1, SlopeViews, StepFieldsAre
  <2>3. \A s \in Systems : holds'[s]["state"] = holds[s]["state"]
    BY <1>14, <2>1 DEF StageViews
  <2>4. CASE i < step.stage
    <3>1. Slopes[i] # OutView
      BY <1>7, <2>4, SlopeViews
    <3>2. \A f \in StepFields : device'.memory[<<Slopes[i], f>>] = device.memory[<<Slopes[i], f>>]
      BY <1>11, <2>2, <3>1
    <3>3. Slope(device.memory, Slopes[i], ContentsAt(i), leftovers)
      BY <2>4 DEF TransportInv, SlopesInv
    <3>4. serial' - (step'.stage - i) = serial - (step.stage - i)
      <4>1. serial' = serial + 1 /\ step'.stage = step.stage + 1
        BY <1>3, <2>1
      <4>2. serial \in Int /\ step.stage \in Int /\ i \in Int
        BY <1>7, <1>8
      <4>3. \A a, b, c \in Int : (a + 1) - ((b + 1) - c) = a - (b - c)
        OBVIOUS
      <4> QED
        BY <4>1, <4>2, <4>3
    <3>5. ContentsAt(i)' = ContentsAt(i)
      BY <2>3, <3>4 DEF ContentsAt
    <3>6. Slope(device'.memory, Slopes[i], ContentsAt(i), leftovers)
      BY <2>2, <3>2, <3>3 DEF Slope
    <3> QED
      BY <3>5, <3>6
  <2>5. CASE i = step.stage
    <3>1. Slopes[i] = OutView /\ OutView # View
      BY <1>7, <2>1, <2>5
    <3>2. ASSUME NEW s \in Systems
          PROVE  (IF i = 1 THEN holds'[s]["state"] ELSE serial' - (step'.stage - i))
                   = holds[s][InView]
      <4>1. CASE i = 1
        BY <2>3, <2>5, <4>1 DEF InView
      <4>2. CASE i # 1
        <5>1. step.stage >= 2 /\ InView = "stage"
          BY <1>7, <2>5, <4>2 DEF InView
        <5>2. holds[s]["stage"] = serial
          BY <5>1 DEF TransportInv, HoldsInv
        <5>3. serial' - (step'.stage - i) = serial
          <6>1. serial' = serial + 1 /\ step'.stage = i + 1
            BY <1>3, <2>1, <2>5
          <6>2. serial \in Int /\ i \in Int
            BY <1>8
          <6>3. \A a, b \in Int : (a + 1) - ((b + 1) - b) = a
            OBVIOUS
          <6> QED
            BY <6>1, <6>2, <6>3
        <5> QED
          BY <4>2, <5>1, <5>2, <5>3
      <4> QED
        BY <4>1, <4>2
    <3>3. ContentsAt(i)' = ContentsNow
      BY <3>2 DEF ContentsAt, ContentsNow
    <3> QED
      BY <1>5, <3>1, <3>3
  <2> QED
    BY <1>7, <2>1, <2>4, <2>5
<1>20. WholeStageOrNone'
  BY <1>1, <1>3, <1>6, <1>10, <1>12, WholeAfter
<1> QED
  BY <1>13, <1>15, <1>16, <1>17, <1>18, <1>19, <1>20 DEF TransportInv


LEMMA InitTransport == Init => TransportInv
<1> SUFFICES ASSUME Init PROVE TransportInv
  OBVIOUS
<1>1. /\ step.stage = 0 /\ serial = 0 /\ lives = 0 /\ leftovers = FALSE
      /\ ~host.initialized /\ ~host.available
      /\ holds = [s \in Systems |-> [v \in StageViews |-> 0]]
      /\ device.primary = Stamped(PrimaryFields, 0)
  BY DEF Init, Idle
<1>2. CounterInv
  BY InitCounter
<1>3. DeviceInv
  BY DEF Init, DeviceInv, Stamped
<1>4. HoldsInv
  BY <1>1 DEF HoldsInv
<1>5. \A s \in Slots, m \in Modes :
        device.memory[s][m] = IF s \in {<<"state", "Primary">>, <<"state", "Companion">>}
                              THEN {InputOf(s[2], 0, m, 0)} ELSE {}
  BY DEF Init, Zero
<1>6. BuffersInv
  <2> SUFFICES ASSUME NEW s \in Systems, NEW v \in StageViews, NEW f \in FieldsOf[s],
                      NEW m \in Modes
               PROVE  /\ device.memory[<<v, f>>][m] \subseteq {InputOf(f, 0, m, 0), NonFinite}
                      /\ f \in {"Primary", "Companion"} /\ v = "state" =>
                           InputOf(f, 0, m, 0) \in device.memory[<<v, f>>][m]
    <3>1. /\ \A s \in Systems, v \in StageViews : holds[s][v] = 0
          /\ ~(step.stage >= 2)
      BY <1>1
    <3> QED
      BY <3>1 DEF BuffersInv
  <2> DEFINE slot == <<v, f>>
             filled == {<<"state", "Primary">>, <<"state", "Companion">>}
  <2>1. slot \in Slots /\ slot[2] = f
    BY StepSlots DEF StepFields
  <2>2. v = "state" /\ f \in {"Primary", "Companion"} => slot \in filled
    OBVIOUS
  <2> HIDE DEF slot, filled
  <2>3. device.memory[slot][m] = IF slot \in filled THEN {InputOf(f, 0, m, 0)} ELSE {}
    BY <1>5, <2>1 DEF filled
  <2>4. device.memory[slot][m] \subseteq {InputOf(f, 0, m, 0), NonFinite}
    BY <2>3
  <2>5. v = "state" /\ f \in {"Primary", "Companion"} =>
          InputOf(f, 0, m, 0) \in device.memory[slot][m]
    BY <2>2, <2>3
  <2> QED
    BY <2>4, <2>5 DEF slot
<1>7. MetricInv
  <2>1. \A f \in PrimaryFields : /\ <<"primary", f>> \in Slots
                                 /\ <<"primary", f>> \notin {<<"state", "Primary">>,
                                                            <<"state", "Companion">>}
    BY StepSlots
  <2> QED
    BY <1>5, <2>1 DEF MetricInv
<1>8. AgeInv
  <2>1. \A f \in PrimaryFields, m \in Modes : device.primary[f][m] = 0
    BY <1>1 DEF Stamped
  <2>2. host.last = 0
    BY DEF Init
  <2>3. \A f \in PrimaryFields, m \in Modes : device.primary[f][m] <= host.last
    BY <2>1, <2>2
  <2>4. leftovers \in BOOLEAN
    BY <1>1
  <2> QED
    BY <1>1, <2>1, <2>3, <2>4 DEF AgeInv
<1>9. SlopesInv
  BY <1>1 DEF SlopesInv
<1>10. WholeStageOrNone
  BY <1>1 DEF WholeStageOrNone
<1> QED
  BY <1>2, <1>3, <1>4, <1>6, <1>7, <1>8, <1>9, <1>10 DEF TransportInv

LEMMA NextTransport ==
  ASSUME TransportInv, [Next]_vars
  PROVE  TransportInv'
<1>0. CounterInv'
  BY NextCounter DEF TransportInv
<1>1. CASE Initialize \/ Restore
  <2>1. 0 \in Generations
    BY FirstGeneration DEF Generations
  <2>2. PICK last \in Generations : \E b, bad : BeginLife(b, last, bad)
    <3>1. CASE Initialize
      <4>1. PICK b \in Boundaries : BeginLife(b, 0, {}) \/ \E m \in Modes : BeginLife(b, 0, {m})
        BY <3>1 DEF Initialize
      <4>2. PICK bad : BeginLife(b, 0, bad)
        BY <4>1
      <4> QED
        BY <2>1, <4>2
    <3>2. CASE Restore
      BY <3>2 DEF Restore
    <3> QED
      BY <1>1, <3>1, <3>2
  <2> QED
    BY <1>0, <2>2, StepLife
<1>2. CASE BeginStep
  BY <1>0, <1>2, StepBegin
<1>3. CASE Refuse
  BY <1>0, <1>3, StepRefuse
<1>4. CASE ProducerThrows
  BY <1>0, <1>4, StepProducerThrows
<1>5. CASE PassiveThrows
  BY <1>0, <1>5, StepPassiveThrows
<1>6. CASE Stage
  <2>1. PICK skipped, bad : Pass(skipped, bad)
    BY <1>6 DEF Stage
  <2> QED
    BY <1>0, <2>1, StepPass
<1>7. CASE UNCHANGED vars
  <2>1. /\ host' = host /\ step' = step /\ device' = device /\ holds' = holds
        /\ serial' = serial /\ lives' = lives /\ leftovers' = leftovers
    BY <1>7 DEF vars
  <2>2. DeviceInv' /\ HoldsInv' /\ MetricInv' /\ AgeInv'
    BY <2>1 DEF TransportInv, DeviceInv, HoldsInv, MetricInv, AgeInv
  <2>3. BuffersInv'
    BY <2>1 DEF TransportInv, BuffersInv
  <2>4. SlopesInv'
    <3>1. \A i : ContentsAt(i)' = ContentsAt(i)
      BY <2>1 DEF ContentsAt
    <3> QED
      BY <2>1, <3>1 DEF TransportInv, SlopesInv
  <2>5. WholeStageOrNone'
    BY <2>1, WholeStill DEF TransportInv
  <2> QED
    BY <1>0, <2>2, <2>3, <2>4, <2>5 DEF TransportInv
<1> QED
  BY <1>1, <1>2, <1>3, <1>4, <1>5, <1>6, <1>7 DEF Next

\* What the buffers and the inputs hold is what the step has put there, whatever
\* was refused, thrown or restored before, for any number of modes and stages.
THEOREM BuffersHold == Spec => []TransportInv
<1>1. Init => TransportInv
  BY InitTransport
<1>2. TransportInv /\ [Next]_vars => TransportInv'
  BY NextTransport
<1> QED
  BY <1>1, <1>2, PTL DEF Spec

\* What the last stage handed out is whole or nothing.
THEOREM WholeStages == Spec => []WholeStageOrNone
<1>1. TransportInv => WholeStageOrNone
  BY DEF TransportInv
<1> QED
  BY <1>1, BuffersHold, PTL

LEMMA OutputSlots == \A v \in Range(Slopes) : Outputs(v) \subseteq Slots
<1>1. StateFields \subseteq StepFields
  BY StepFieldsAre DEF StateFields
<1> QED
  BY <1>1 DEF Outputs, Slots, TransportSlots

\* What an evaluated stage writes: the outputs of the closure are those that the
\* kernels have left, be it that the companion's right-hand side throws.
LEMMA EvaluatedLeaves ==
  ASSUME TransportInv, PassiveThrows \/ Stage
  PROVE  /\ InStep
         /\ \/ Within(device'.memory, Outputs(OutView),
                      Clean(holds["bianchi"][InView], StagesRead))
            \/ \A s \in Outputs(OutView), m \in Modes : device'.memory[s][m] = {}
<1> DEFINE Left(mem) ==
             \/ Within(mem, Outputs(OutView), Clean(holds["bianchi"][InView], StagesRead))
             \/ \A s \in Outputs(OutView), m \in Modes : mem[s][m] = {}
<1>1. CASE PassiveThrows
  <2>1. InStep /\ Accepted(host.next)
        /\ device' = Evaluated(Produced(host.next, {}, {}), host.next)
    BY <1>1 DEF PassiveThrows
  <2>2. LeftBy(device')
    BY <2>1, EvaluatedOf
  <2> QED
    BY <2>1, <2>2 DEF LeftBy
<1>2. CASE Stage
  <2>1. PICK skipped, bad : Pass(skipped, bad)
    BY <1>2 DEF Stage
  <2>2. InStep
    BY <2>1 DEF Pass
  <2>3. PICK dev : PassedOn(dev)
    BY <2>1, PassOf
  <2>4. Left(dev.memory)
    BY <2>3 DEF PassedOn, LeftBy
  <2>5. /\ OutView \in Range(Slopes) /\ OutView # View
        /\ View \notin {"curvature", "derivatives", "constraints"}
    BY <2>2, ViewsOf DEF TransportInv, CounterInv, View
  <2>6. \A s \in Outputs(OutView) : device'.memory[s] = dev.memory[s]
    <3>1. ASSUME NEW s \in Outputs(OutView)
          PROVE  s \in Slots /\ s \notin {View} \X StepFields /\ s # <<OutView, "Companion">>
      <4>1. s \in Slots
        BY <2>5, OutputSlots
      <4>2. s[1] # View
        BY <2>5 DEF Outputs
      <4>3. s # <<OutView, "Companion">>
        BY <2>5, SlopeViews DEF Outputs, StateFields
      <4> QED
        BY <4>1, <4>2, <4>3
    <3> QED
      BY <2>3, <3>1 DEF PassedOn
  <2>7. Left(device'.memory)
    BY <2>4, <2>6 DEF Within
  <2> QED
    BY <2>2, <2>7
<1> QED
  BY <1>1, <1>2

\* The rates the properties name are those of the slots.
LEMMA RatesOfOutputs ==
  /\ \A f \in CurvatureFields : RateAt(<<"curvature", f>>) = RateIn[f]
  /\ \A f \in DerivativeFields : RateAt(<<"derivatives", f>>) = RateIn[f]
  /\ \A f \in ConstraintFields : RateAt(<<"constraints", f>>) = RateOfConstraint[f]
  /\ \A f : \A i \in 1 .. 4 : RateAt(<<Slopes[i], f>>) = 1
<1>1. \A f \in CurvatureFields : RateAt(<<"curvature", f>>) = RateIn[f]
  BY DEF RateAt, RateIn, CurvatureFields
<1>2. \A f \in DerivativeFields : RateAt(<<"derivatives", f>>) = RateIn[f]
  BY DEF RateAt, RateIn, DerivativeFields
<1>3. \A f \in ConstraintFields : RateAt(<<"constraints", f>>) = RateOfConstraint[f]
  BY DEF RateAt, RateOfConstraint, ConstraintFields
<1>4. \A f : \A i \in 1 .. 4 : RateAt(<<Slopes[i], f>>) = 1
  BY SlopeViews DEF RateAt
<1> QED
  BY <1>1, <1>2, <1>3, <1>4

\* The closure of a stage is of that stage, triangular and without a rest of any
\* earlier one, for any number of modes and however the stage came out.
THEOREM ClosureOfItsStage == Spec => ClosureIsOfItsStage
<1> DEFINE z == holds["bianchi"][InView]
           h == IF leftovers THEN 0 .. serial ELSE {holds["primary"][InView]}
           mem == device'.memory
           Closed ==
             /\ \A f \in CurvatureFields : Of(mem, "curvature", f, RateIn[f], z, h)
             /\ \A f \in DerivativeFields : Of(mem, "derivatives", f, RateIn[f], z, h)
             /\ \A f \in ConstraintFields : Of(mem, "constraints", f, RateOfConstraint[f], z, h)
             /\ \A f \in StateFields : Of(mem, OutView, f, 1, z, h)
<1>1. ASSUME TransportInv, [Next]_vars, Evaluates
      PROVE  Closed
  <2>1. PassiveThrows \/ Stage
    BY <1>1, EvaluatesIn
  <2>2. /\ InStep
        /\ \/ Within(mem, Outputs(OutView), Clean(z, StagesRead))
           \/ \A s \in Outputs(OutView), m \in Modes : mem[s][m] = {}
    BY <1>1, <2>1, EvaluatedLeaves
  <2>3. StagesRead = h
    BY DEF StagesRead, OwnStage
  <2>4. /\ OutView = Slopes[step.stage] /\ step.stage \in 1 .. 4 /\ OutView \in Range(Slopes)
    BY <1>1, <2>2, ViewsOf DEF TransportInv, CounterInv
  <2> HIDE DEF mem, z, h
  <2>5. ASSUME NEW v, NEW f, <<v, f>> \in Outputs(OutView) PROVE Of(mem, v, f, RateAt(<<v, f>>), z, h)
    <3> SUFFICES ASSUME NEW m \in Modes, NEW i \in mem[<<v, f>>][m]
                 PROVE  /\ i.rate = RateAt(<<v, f>>)
                        /\ IF i.field = "Primary" THEN i.stage \in h /\ i.mode \in {m, -m}
                           ELSE i.field \in StateFields /\ i.stage = z /\ i.mode = m
      BY DEF Of
    <3>1. i \in Clean(z, h)[<<v, f>>][m]
      BY <2>2, <2>3, <2>5 DEF Within
    <3>2. <<v, f>> \in Slots
      BY <2>4, <2>5, OutputSlots
    <3>3. /\ i \in [field: {"Primary", "Z0", "Z1"}, stage: Int, mode: Int, rate: Int]
          /\ i.rate = RateAt(<<v, f>>)
          /\ IF i.field = "Primary" THEN i.stage \in h /\ i.mode \in {m, -m}
             ELSE i.stage = z /\ i.mode = m
      BY <3>1, <3>2 DEF Clean
    <3> QED
      BY <3>3 DEF StateFields
  <2>6. \A f \in CurvatureFields : Of(mem, "curvature", f, RateIn[f], z, h)
    <3> TAKE f \in CurvatureFields
    <3>1. <<"curvature", f>> \in Outputs(OutView)
      BY DEF Outputs
    <3> QED
      BY <2>5, <3>1, RatesOfOutputs
  <2>7. \A f \in DerivativeFields : Of(mem, "derivatives", f, RateIn[f], z, h)
    <3> TAKE f \in DerivativeFields
    <3>1. <<"derivatives", f>> \in Outputs(OutView)
      BY DEF Outputs
    <3> QED
      BY <2>5, <3>1, RatesOfOutputs
  <2>8. \A f \in ConstraintFields : Of(mem, "constraints", f, RateOfConstraint[f], z, h)
    <3> TAKE f \in ConstraintFields
    <3>1. <<"constraints", f>> \in Outputs(OutView)
      BY DEF Outputs
    <3> QED
      BY <2>5, <3>1, RatesOfOutputs
  <2>9. \A f \in StateFields : Of(mem, OutView, f, 1, z, h)
    <3> TAKE f \in StateFields
    <3>1. <<OutView, f>> \in Outputs(OutView)
      BY DEF Outputs
    <3>2. RateAt(<<OutView, f>>) = 1
      BY <2>4, RatesOfOutputs
    <3> QED
      BY <2>5, <3>1, <3>2
  <2> QED
    BY <2>6, <2>7, <2>8, <2>9
<1>2. TransportInv /\ [Next]_vars => [Evaluates => Closed]_vars
  BY <1>1
<1> QED
  BY <1>2, BuffersHold, PTL DEF Spec, ClosureIsOfItsStage

\* A stage that is not the last leaves all states alone.
LEMMA StatesKept ==
  ASSUME TransportInv, [Next]_vars, lives' = lives, ~Accumulates, NEW f \in StepFields
  PROVE  device'.memory[<<"state", f>>] = device.memory[<<"state", f>>]
<1>1. <<"state", f>> \in Slots /\ "state" \in StageViews
  BY StepSlots DEF StageViews
<1>2. CASE Initialize \/ Restore
  <2>1. PICK b, last, bad : BeginLife(b, last, bad)
    BY <1>2 DEF Initialize, Restore
  <2>2. lives' = lives + 1 /\ lives \in Nat
    BY <2>1 DEF BeginLife, TransportInv, CounterInv
  <2> QED
    BY <2>2
<1>3. CASE BeginStep \/ UNCHANGED vars
  BY <1>3 DEF BeginStep, vars
<1>4. CASE Refuse
  <2>1. InStep /\ device' = [device EXCEPT !.memory = PrimarySlope(@)]
    BY <1>4 DEF Refuse
  <2>2. device'.memory = PrimarySlope(device.memory)
    BY <2>1 DEF TransportInv, DeviceInv
  <2> QED
    BY <1>1, <2>1, <2>2, ViewsOf, KeptBuffers DEF TransportInv, CounterInv
<1>5. CASE ProducerThrows
  <2>1. InStep /\ Accepted(host.next)
    BY <1>5 DEF ProducerThrows
  <2>2. PICK skipped : device' = Produced(host.next, skipped, {})
    BY <1>5 DEF ProducerThrows
  <2>3. ProducedAs(device', host.next, skipped)
    BY <2>1, <2>2, NextIsNew, ProducedOf
  <2>4. \A s \in Slots : s[1] # "primary" =>
          device'.memory[s] = PrimarySlope(device.memory)[s]
    BY <2>3 DEF ProducedAs
  <2> QED
    BY <1>1, <2>1, <2>4, ViewsOf, KeptBuffers DEF TransportInv, CounterInv
<1>6. CASE PassiveThrows
  <2>1. /\ InStep /\ Accepted(host.next)
        /\ device' = Evaluated(Produced(host.next, {}, {}), host.next)
    BY <1>6 DEF PassiveThrows
  <2>2. LeftBy(device')
    BY <2>1, EvaluatedOf
  <2>3. \A s \in Slots : s[1] \notin {"primary", "scratch"} /\ s \notin Outputs(OutView) =>
          device'.memory[s] = PrimarySlope(device.memory)[s]
    BY <2>2 DEF LeftBy
  <2> QED
    BY <1>1, <2>1, <2>3, ViewsOf, KeptBuffers DEF TransportInv, CounterInv
<1>7. CASE Stage
  <2>1. PICK skipped, bad : Pass(skipped, bad)
    BY <1>7 DEF Stage
  <2>2. InStep
    BY <2>1 DEF Pass
  <2>3. PICK dev : PassedOn(dev)
    BY <2>1, PassOf
  <2>4. serial' # serial /\ serial \in Nat
    BY <2>3 DEF PassedOn, TransportInv, HoldsInv
  <2>5. step.stage \in 1 .. 4 /\ step.stage # 4
    BY <2>2, <2>4, ViewsOf DEF Accumulates, TransportInv, CounterInv
  <2>6. View = "stage" /\ OutView # "state"
    BY <2>2, <2>5, ViewsOf DEF View, TransportInv, CounterInv
  <2> QED
    BY <1>1, <2>3, <2>6 DEF PassedOn
<1> QED
  BY <1>2, <1>3, <1>4, <1>5, <1>6, <1>7 DEF Next

\* What the four slopes are made of when the states are accumulated.
StageContents(i) ==
  [s \in Systems |-> IF i = 1 THEN holds[s]["state"] ELSE serial - (4 - i)]
LEMMA SlopesAccumulated ==
  ASSUME TransportInv, [Next]_vars, Accumulates, NEW i \in 1 .. 4
  PROVE  Slope(device'.memory, Slopes[i], StageContents(i), leftovers)
<1>1. InStep /\ step.stage = 4 /\ serial' # serial
  BY DEF Accumulates
<1>2. Stage
  <2>1. ~Initialize /\ ~Restore
    <3>1. step # Idle
      BY <1>1 DEF Idle
    <3>2. \A b, last, bad : ~BeginLife(b, last, bad)
      BY <3>1 DEF BeginLife
    <3> QED
      BY <3>2 DEF Initialize, Restore
  <2>2. ~BeginStep /\ ~Refuse /\ ~ProducerThrows /\ ~PassiveThrows /\ ~UNCHANGED vars
    BY <1>1 DEF BeginStep, Refuse, ProducerThrows, PassiveThrows, vars
  <2> QED
    BY <2>1, <2>2 DEF Next
<1>3. PICK skipped, bad : Pass(skipped, bad)
  BY <1>2 DEF Stage
<1>4. PICK dev : PassedOn(dev)
  BY <1>3, PassOf
<1>5. OutView = Slopes[4] /\ View = "state" /\ Slopes[i] \in Range(Slopes) /\ Slopes[i] # View
  BY <1>1, SlopeViews DEF OutView, View
<1>6. CASE i = 4
  <2>1. Slope(device'.memory, OutView, ContentsNow, leftovers)
    BY <1>4 DEF PassedOn
  <2>2. \A s \in Systems : holds[s][InView] = serial
    BY <1>1 DEF TransportInv, HoldsInv, InView
  <2>3. serial \in Nat
    BY DEF TransportInv, HoldsInv
  <2>4. ContentsNow = StageContents(i)
    BY <1>6, <2>2, <2>3 DEF ContentsNow, StageContents
  <2> QED
    BY <1>5, <1>6, <2>1, <2>4
<1>7. CASE i # 4
  <2>1. i < step.stage
    BY <1>1, <1>7
  <2>2. Slope(device.memory, Slopes[i], ContentsAt(i), leftovers)
    BY <2>1 DEF TransportInv, SlopesInv
  <2>3. ContentsAt(i) = StageContents(i)
    BY <1>1 DEF ContentsAt, StageContents
  <2>4. Slopes[i] # OutView
    BY <1>5, <1>7, SlopeViews
  <2>5. \A f \in StepFields : device'.memory[<<Slopes[i], f>>] = device.memory[<<Slopes[i], f>>]
    BY <1>4, <1>5, <2>4 DEF PassedOn
  <2> QED
    BY <2>2, <2>3, <2>5, StepFieldsAre DEF Slope
<1> QED
  BY <1>6, <1>7

\* The stages that a slope of one system came from.
LEMMA SlopeFrom ==
  ASSUME NEW mem, NEW view, NEW at, NEW s \in Systems, Slope(mem, view, at, leftovers)
  PROVE  LET from == From(mem, view, s)
         IN  /\ s # "bianchi" => at[s] \in from
             /\ from \subseteq {at[s]} \/ (s = "primary" /\ leftovers)
<1>1. \A x : x \in From(mem, view, s) <=>
        \E i : i \in InputsOf(mem, view, StepFields) /\ i.field \in FieldsOf[s] /\ x = i.stage
  BY DEF From
<1>2. \A i : i \in InputsOf(mem, view, StepFields) <=>
        \E f \in StepFields, m \in Modes : i \in mem[<<view, f>>][m]
  BY InputsFrom
<1>3. ~(s = "primary" /\ leftovers) => From(mem, view, s) \subseteq {at[s]}
  <2> SUFFICES ASSUME ~(s = "primary" /\ leftovers), NEW x \in From(mem, view, s)
               PROVE  x = at[s]
    OBVIOUS
  <2>1. PICK i : i \in InputsOf(mem, view, StepFields) /\ i.field \in FieldsOf[s] /\ x = i.stage
    BY <1>1
  <2>2. FromStage(i, at, leftovers)
    BY <1>2, <2>1 DEF Slope
  <2>3. CASE s = "primary"
    <3>1. i.field = "Primary" /\ ~leftovers
      BY <2>1, <2>3 DEF FieldsOf
    <3> QED
      BY <2>1, <2>2, <2>3, <3>1, Zenon DEF FromStage
  <2>4. CASE s = "bianchi"
    BY <2>1, <2>2, <2>4 DEF FieldsOf, FromStage
  <2>5. CASE s = "companion"
    BY <2>1, <2>2, <2>5 DEF FieldsOf, FromStage
  <2> QED
    BY <2>3, <2>4, <2>5 DEF Systems
<1>4. s # "bianchi" => at[s] \in From(mem, view, s)
  <2>1. PICK m \in Modes : TRUE
    BY ModesAssumption
  <2>2. CASE s = "primary"
    <3> DEFINE i == InputOf("Primary", at["primary"], m, 1)
    <3>1. i \in mem[<<view, "Primary">>][m]
      BY DEF Slope
    <3>2. i.field \in FieldsOf[s] /\ i.stage = at[s]
      BY <2>2 DEF InputOf, FieldsOf
    <3> HIDE DEF i
    <3> QED
      BY <1>1, <1>2, <3>1, <3>2, StepFieldsAre
  <2>3. CASE s = "companion"
    <3> DEFINE i == InputOf("Companion", at["companion"], m, 1)
    <3>1. i \in mem[<<view, "Companion">>][m]
      BY DEF Slope
    <3>2. i.field \in FieldsOf[s] /\ i.stage = at[s]
      BY <2>3 DEF InputOf, FieldsOf
    <3> HIDE DEF i
    <3> QED
      BY <1>1, <1>2, <3>1, <3>2, StepFieldsAre
  <2> QED
    BY <2>2, <2>3 DEF Systems
<1> HIDE DEF From
<1> QED
  BY <1>3, <1>4, Zenon

\* All systems go through the stages together: no state changes before all have
\* their fourth slope, and every slope is made of the contents at its own stage.
THEOREM StagesInCommon == Spec => CommonStages
<1> DEFINE Together ==
             /\ lives' = lives /\ ~Accumulates =>
                  \A f \in StepFields : device'.memory[<<"state", f>>] = device.memory[<<"state", f>>]
             /\ Accumulates =>
                  \A i \in 1 .. 4, s \in Systems :
                    LET now  == IF i = 1 THEN holds[s]["state"] ELSE serial - (4 - i)
                        from == From(device'.memory, Slopes[i], s)
                    IN  /\ s # "bianchi" => now \in from
                        /\ from \subseteq {now} \/ (s = "primary" /\ leftovers)
<1>1. ASSUME TransportInv, [Next]_vars
      PROVE  Together
  <2>1. ASSUME Accumulates, NEW i \in 1 .. 4, NEW s \in Systems
        PROVE  LET now  == IF i = 1 THEN holds[s]["state"] ELSE serial - (4 - i)
                   from == From(device'.memory, Slopes[i], s)
               IN  /\ s # "bianchi" => now \in from
                   /\ from \subseteq {now} \/ (s = "primary" /\ leftovers)
    <3>1. Slope(device'.memory, Slopes[i], StageContents(i), leftovers)
      BY <1>1, <2>1, SlopesAccumulated
    <3>2. StageContents(i)[s] = IF i = 1 THEN holds[s]["state"] ELSE serial - (4 - i)
      BY DEF StageContents
    <3> QED
      BY <3>1, <3>2, SlopeFrom
  <2> QED
    BY <1>1, <2>1, StatesKept
<1>2. TransportInv /\ [Next]_vars => [Together]_vars
  BY <1>1
<1> QED
  BY <1>2, BuffersHold, PTL DEF Spec, CommonStages

-----------------------------------------------------------------------------
(* The checkpoint of the transport, for every set of programs, builds and     *)
(* contents and any number of steps, files and crashes: though all savers use *)
(* one temporary name and may write into each other's file, what is loaded is *)
(* one capture, and a load that is refused leaves the transport alone.        *)

Node == [head: Heads, body: Bodies]

\* What is in the heads of files and in calls is what saves have taken.
CapturedInv ==
  /\ \A n \in 1 .. Len(nodes) : nodes[n].head \in captured \cup {None}
  /\ \A p \in Processes : call[p].capture \in captured \cup {None}

Saving == {"check", "create", "head", "body"}

\* An initialized transport has a state, a program that saves has taken one, and a
\* program that reads or writes does so on a file there is.
CallsInv ==
  /\ \A p \in Processes : transport[p].initialized => transport[p].state # None
  /\ \A p \in Processes : call[p].phase \in Saving => call[p].capture # None
  /\ \A p \in Processes : call[p].phase \in {"head", "body", "load"} =>
       call[p].node \in 1 .. Len(nodes)

FilesInv == FilesTypeOK /\ CapturedInv /\ CallsInv /\ LoadedIsOneCapture

LEMMA FilesInitInv == FilesInit => FilesInv
<1> SUFFICES ASSUME FilesInit PROVE FilesInv
  OBVIOUS
<1>1. nodes \in Seq(Node) /\ Len(nodes) = 0
  BY DEF FilesInit
<1>2. FilesTypeOK
  BY <1>1, CheckpointAssumption DEF FilesInit, FilesTypeOK, Fresh, NoCall, Heads, Node
<1>3. CapturedInv /\ CallsInv
  BY <1>1 DEF FilesInit, CapturedInv, CallsInv, Fresh, NoCall, Saving
<1>4. LoadedIsOneCapture
  BY DEF FilesInit, LoadedIsOneCapture
<1> QED
  BY <1>2, <1>3, <1>4 DEF FilesInv

\* Facts of the types.
LEMMA Typed ==
  ASSUME FilesTypeOK
  PROVE  /\ nodes \in Seq(Node) /\ Len(nodes) \in Nat
         /\ \A n \in 1 .. Len(nodes) :
              nodes[n] \in Node /\ nodes[n].head \in Heads /\ nodes[n].body \in Bodies
         /\ \A p \in Processes : transport[p].last \in Nat
         /\ LastGeneration \in Nat
<1>1. nodes \in Seq(Node)
  BY DEF FilesTypeOK, Node
<1>2. \A n \in 1 .. Len(nodes) : nodes[n] \in Node
  BY <1>1, ElementOfSeq
<1>3. Len(nodes) \in Nat
  BY <1>1
<1>4. \A p \in Processes : transport[p].last \in Nat
  BY CheckpointAssumption DEF FilesTypeOK
<1> QED
  BY <1>1, <1>2, <1>3, <1>4, CheckpointAssumption DEF Node

-----------------------------------------------------------------------------
(* The transport *)

\* A transport changes, and was not loaded or goes on to a later generation.
LEMMA ChangeStep ==
  ASSUME FilesInv, NEW p \in Processes, NEW last \in 0 .. LastGeneration,
         NEW state \in Contents \cup {NotFinite}, Change(p, state, last),
         \/ loaded' = [loaded EXCEPT ![p] = None]
         \/ loaded' = loaded /\ last > transport[p].last
  PROVE  FilesInv'
<1> DEFINE made == [initialized |-> TRUE, state |-> state, last |-> last]
<1>1. transport' = [transport EXCEPT ![p] = made]
  BY DEF Change
<1>2. /\ changes < MaxChanges /\ changes' = changes + 1
      /\ UNCHANGED <<built, call, target, temporary, nodes, captured>>
  BY DEF Change, files
<1>3. /\ made \in [initialized: BOOLEAN, state: Contents \cup {NotFinite, None},
                    last: 0 .. LastGeneration]
      /\ made.state # None /\ made.last = last
  BY NoneAssumption
<1> HIDE DEF made
<1>4. FilesTypeOK'
  <2>1. loaded' \in [Processes -> Heads]
    BY DEF FilesInv, FilesTypeOK, Heads
  <2>2. transport' \in [Processes -> [initialized: BOOLEAN,
                                      state: Contents \cup {NotFinite, None},
                                      last: 0 .. LastGeneration]]
    BY <1>1, <1>3 DEF FilesInv, FilesTypeOK
  <2>3. changes' \in 0 .. MaxChanges
    BY <1>2, CheckpointAssumption DEF FilesInv, FilesTypeOK
  <2> QED
    BY <1>2, <2>1, <2>2, <2>3 DEF FilesInv, FilesTypeOK
<1>5. CapturedInv'
  BY <1>2 DEF FilesInv, CapturedInv
<1>6. CallsInv'
  BY <1>1, <1>2, <1>3 DEF FilesInv, CallsInv, FilesTypeOK
<1>7. LoadedIsOneCapture'
  <2> SUFFICES ASSUME NEW q \in Processes, loaded'[q] # None
               PROVE  /\ loaded'[q] \in captured
                      /\ loaded'[q].build = built[q]
                      /\ transport'[q].last >= loaded'[q].last
                      /\ transport'[q].last = loaded'[q].last =>
                           transport'[q].state = loaded'[q].state
    BY <1>2 DEF LoadedIsOneCapture
  <2>1. loaded'[q] = loaded[q] /\ (q = p => last > transport[p].last)
    BY DEF FilesInv, FilesTypeOK
  <2>2. /\ loaded[q] \in captured /\ loaded[q].build = built[q]
        /\ transport[q].last >= loaded[q].last
        /\ transport[q].last = loaded[q].last => transport[q].state = loaded[q].state
    BY <2>1 DEF FilesInv, LoadedIsOneCapture
  <2>3. loaded[q].last \in Nat /\ transport[q].last \in Nat
    BY <2>2, Typed, CheckpointAssumption DEF FilesInv, FilesTypeOK, Capture
  <2>4. transport'[q] = IF q = p THEN made ELSE transport[q]
    BY <1>1 DEF FilesInv, FilesTypeOK
  <2> QED
    BY <1>3, <2>1, <2>2, <2>3, <2>4
<1> QED
  BY <1>4, <1>5, <1>6, <1>7 DEF FilesInv

-----------------------------------------------------------------------------
(* Saving, and the beginning of a load *)

Phases == {"idle", "check", "create", "head", "body", "rename", "load"}

\* Nothing but calls and names changes, and no file: what is to be shown then is
\* about the one call.
LEMMA CallStep ==
  ASSUME FilesInv, NEW p \in Processes,
         NEW new \in [phase: Phases, capture: Heads, node: 0 .. MaxNodes],
         call' = [call EXCEPT ![p] = new],
         captured \subseteq captured', captured' \subseteq Capture,
         new.capture \in captured' \cup {None},
         new.phase \in Saving => new.capture # None,
         new.phase \in {"head", "body", "load"} => new.node \in 1 .. Len(nodes),
         UNCHANGED <<built, transport, nodes, changes, loaded>>,
         target' \in 0 .. Len(nodes), temporary' \in 0 .. Len(nodes)
  PROVE  FilesInv'
<1>1. FilesTypeOK'
  BY DEF FilesInv, FilesTypeOK, Phases
<1>2. CapturedInv'
  BY DEF FilesInv, CapturedInv, FilesTypeOK
<1>3. CallsInv'
  BY DEF FilesInv, CallsInv, FilesTypeOK
<1>4. LoadedIsOneCapture'
  BY DEF FilesInv, LoadedIsOneCapture
<1> QED
  BY <1>1, <1>2, <1>3, <1>4 DEF FilesInv

\* A file is created, cleared or written to.
LEMMA FileStep ==
  ASSUME FilesInv, NEW p \in Processes,
         NEW new \in [phase: Phases, capture: Heads, node: 0 .. MaxNodes],
         call' = [call EXCEPT ![p] = new],
         new.capture \in captured \cup {None},
         new.phase \in Saving => new.capture # None,
         new.phase \in {"head", "body", "load"} => new.node \in 1 .. Len(nodes'),
         UNCHANGED <<built, transport, changes, captured, loaded>>,
         nodes' \in Seq(Node), Len(nodes') \in Len(nodes) .. MaxNodes,
         \A n \in 1 .. Len(nodes') : nodes'[n].head \in captured \cup {None},
         target' \in 0 .. Len(nodes'), temporary' \in 0 .. Len(nodes')
  PROVE  FilesInv'
<1>1. Len(nodes) \in Nat /\ Len(nodes') \in Nat /\ Len(nodes') >= Len(nodes)
  BY Typed DEF FilesInv
<1>2. FilesTypeOK'
  BY <1>1 DEF FilesInv, FilesTypeOK, Phases, Node
<1>3. CapturedInv'
  BY DEF FilesInv, CapturedInv, FilesTypeOK
<1>4. CallsInv'
  BY <1>1, SMTT(40) DEF FilesInv, CallsInv, FilesTypeOK
<1>5. LoadedIsOneCapture'
  BY DEF FilesInv, LoadedIsOneCapture
<1> QED
  BY <1>2, <1>3, <1>4, <1>5 DEF FilesInv

LEMMA BeginSaveStep ==
  ASSUME FilesInv, NEW p \in Processes, BeginSave(p)
  PROVE  FilesInv'
<1> DEFINE c   == [build |-> built[p], state |-> transport[p].state, last |-> transport[p].last]
           new == [phase |-> "check", capture |-> c, node |-> 0]
<1>1. /\ call' = [call EXCEPT ![p] = new] /\ captured' = captured \cup {c}
      /\ UNCHANGED <<built, transport, nodes, changes, loaded, target, temporary>>
  BY DEF BeginSave, files
<1>2. transport[p].state \in Contents
  BY DEF FilesInv, FilesTypeOK, CallsInv, BeginSave, SaveAccepted
<1>3. c \in Capture
  BY <1>2 DEF FilesInv, FilesTypeOK, Capture
<1>4. c # None /\ c \in Heads
  BY <1>3, NoneAssumption DEF Heads
<1> HIDE DEF c
<1>5. /\ new \in [phase: Phases, capture: Heads, node: 0 .. MaxNodes]
      /\ new.capture = c /\ new.phase = "check"
  BY <1>4, CheckpointAssumption DEF Phases
<1>6. target' \in 0 .. Len(nodes) /\ temporary' \in 0 .. Len(nodes)
  BY <1>1 DEF FilesInv, FilesTypeOK
<1>7. captured' \subseteq Capture
  BY <1>1, <1>3 DEF FilesInv, FilesTypeOK
<1> HIDE DEF new
<1> QED
  BY <1>1, <1>4, <1>5, <1>6, <1>7, CallStep

\* The idle call, and the same call in another phase.
LEMMA IdleCall ==
  /\ NoCall \in [phase: Phases, capture: Heads, node: 0 .. MaxNodes]
  /\ NoCall.phase = "idle" /\ NoCall.capture = None
  BY CheckpointAssumption DEF NoCall, Phases, Heads

LEMMA SamePhaseCall ==
  ASSUME FilesInv, NEW p \in Processes, NEW phase \in Phases
  PROVE  LET new == [call[p] EXCEPT !.phase = phase]
         IN  /\ new \in [phase: Phases, capture: Heads, node: 0 .. MaxNodes]
             /\ new.capture \in captured \cup {None}
             /\ new.phase = phase /\ new.node = call[p].node /\ new.capture = call[p].capture
  BY DEF FilesInv, FilesTypeOK, CapturedInv, Phases

LEMMA NamesStep ==
  ASSUME FilesInv, NEW p \in Processes, CheckTemporary(p) \/ Rename(p) \/ SaveFails(p)
  PROVE  FilesInv'
<1>1. PICK new \in {NoCall, [call[p] EXCEPT !.phase = "create"]} :
        /\ call' = [call EXCEPT ![p] = new]
        /\ new = NoCall \/ call[p].phase = "check"
  BY DEF CheckTemporary, Enter, Rename, SaveFails
<1>2. UNCHANGED <<built, transport, nodes, changes, captured, loaded>>
  BY DEF CheckTemporary, Rename, SaveFails, files, history
<1>3. target' \in 0 .. Len(nodes) /\ temporary' \in 0 .. Len(nodes)
  BY Typed DEF FilesInv, FilesTypeOK, CheckTemporary, Rename, SaveFails, files
<1>4. /\ new \in [phase: Phases, capture: Heads, node: 0 .. MaxNodes]
      /\ new.capture \in captured \cup {None} /\ new.phase \in {"idle", "create"}
      /\ new.phase = "create" => new.capture # None
  <2>1. CASE new = NoCall
    BY <2>1, IdleCall
  <2>2. CASE new # NoCall
    <3>1. new = [call[p] EXCEPT !.phase = "create"] /\ call[p].phase = "check"
      BY <1>1, <2>2
    <3>2. call[p].capture # None /\ "create" \in Phases
      BY <3>1 DEF FilesInv, CallsInv, Saving, Phases
    <3> QED
      BY <3>1, <3>2, SamePhaseCall
  <2> QED
    BY <2>1, <2>2
<1>5. captured \subseteq captured' /\ captured' \subseteq Capture
  BY <1>2 DEF FilesInv, FilesTypeOK
<1>6. new.phase \in Saving => new.capture # None
  BY <1>4 DEF Saving
<1> HIDE DEF FilesInv
<1> QED
  BY <1>1, <1>2, <1>3, <1>4, <1>5, <1>6, CallStep

LEMMA CreateStep ==
  ASSUME FilesInv, NEW p \in Processes, CreateTemporary(p)
  PROVE  FilesInv'
<1>1. Empty \in Node /\ Empty.head = None
  BY DEF Empty, Node, Heads, Bodies
<1>2. /\ nodes \in Seq(Node) /\ Len(nodes) \in Nat /\ temporary \in 0 .. Len(nodes)
      /\ target \in 0 .. Len(nodes) /\ Len(nodes) <= MaxNodes /\ MaxNodes \in Nat
  BY Typed, CheckpointAssumption DEF FilesInv, FilesTypeOK
<1>3. /\ nodes' \in Seq(Node) /\ Len(nodes') \in Len(nodes) .. MaxNodes
      /\ \A n \in 1 .. Len(nodes') : nodes'[n] = Empty \/ (n \in 1 .. Len(nodes) /\ nodes'[n] = nodes[n])
      /\ temporary' \in 1 .. Len(nodes') /\ target' \in 0 .. Len(nodes')
  <2>1. CASE temporary = 0
    <3>1. /\ nodes' = Append(nodes, Empty) /\ temporary' = Len(nodes) + 1
          /\ Len(nodes) < MaxNodes /\ target' = target
      BY <2>1 DEF CreateTemporary
    <3>2. /\ nodes' \in Seq(Node) /\ Len(nodes') = Len(nodes) + 1
          /\ \A n \in 1 .. Len(nodes) : nodes'[n] = nodes[n]
          /\ nodes'[Len(nodes) + 1] = Empty
      BY <1>1, <1>2, <3>1, AppendProperties
    <3> QED
      BY <1>2, <3>1, <3>2
  <2>2. CASE temporary # 0
    <3>1. /\ nodes' = [nodes EXCEPT ![temporary] = Empty]
          /\ temporary' = temporary /\ target' = target /\ temporary \in 1 .. Len(nodes)
      BY <1>2, <2>2 DEF CreateTemporary
    <3>2. /\ nodes' \in Seq(Node) /\ Len(nodes') = Len(nodes)
          /\ \A n \in 1 .. Len(nodes) : nodes'[n] = IF n = temporary THEN Empty ELSE nodes[n]
      BY <1>1, <1>2, <3>1, ExceptSeq
    <3> QED
      BY <1>2, <3>1, <3>2
  <2> QED
    BY <2>1, <2>2
<1>4. \A n \in 1 .. Len(nodes') : nodes'[n].head \in captured \cup {None}
  BY <1>1, <1>3 DEF FilesInv, CapturedInv
<1> DEFINE new == [call[p] EXCEPT !.phase = "head", !.node = temporary']
<1>5. /\ call' = [call EXCEPT ![p] = new]
      /\ call[p].phase = "create"
      /\ UNCHANGED <<built, transport, changes, captured, loaded>>
  BY DEF CreateTemporary, history
<1>6. /\ new \in [phase: Phases, capture: Heads, node: 0 .. MaxNodes]
      /\ new.capture \in captured \cup {None} /\ new.capture # None
      /\ new.node \in 1 .. Len(nodes')
  <2>1. /\ call[p] \in [phase: Phases, capture: Heads, node: 0 .. MaxNodes]
        /\ call[p].capture \in captured \cup {None} /\ call[p].capture # None
    BY <1>5 DEF FilesInv, FilesTypeOK, CapturedInv, CallsInv, Saving, Phases
  <2>2. temporary' \in 0 .. MaxNodes /\ temporary' \in 1 .. Len(nodes') /\ "head" \in Phases
    BY <1>2, <1>3 DEF Phases
  <2> QED
    BY <2>1, <2>2
<1>7. temporary' \in 0 .. Len(nodes')
  BY <1>3
<1> HIDE DEF new
<1> QED
  BY <1>3, <1>4, <1>5, <1>6, <1>7, FileStep

LEMMA WriteStep ==
  ASSUME FilesInv, NEW p \in Processes, WriteHead(p) \/ WriteBody(p)
  PROVE  FilesInv'
<1> DEFINE n == call[p].node
           c == call[p].capture
           x == IF call[p].phase = "head" THEN [nodes[n] EXCEPT !.head = c]
                ELSE [nodes[n] EXCEPT !.body = c.state]
<1>1. PICK to \in {"body", "rename"} :
        /\ call[p].phase \in {"head", "body"}
        /\ nodes' = [nodes EXCEPT ![n] = x]
        /\ Enter(p, to)
        /\ UNCHANGED <<built, transport, target, temporary, changes, captured, loaded>>
  BY DEF WriteHead, WriteBody, Write, history
<1>2. n \in 1 .. Len(nodes) /\ nodes[n] \in Node
  BY <1>1, Typed DEF FilesInv, CallsInv
<1>3. c \in captured /\ c \in Capture
  BY <1>1 DEF FilesInv, CapturedInv, CallsInv, Saving, FilesTypeOK
<1>4. c \in Heads /\ c.state \in Bodies
  BY <1>3 DEF Heads, Bodies, Capture
<1>5. x \in Node /\ x.head \in captured \cup {None}
  <2>1. nodes[n].head \in captured \cup {None}
    BY <1>2 DEF FilesInv, CapturedInv
  <2> QED
    BY <1>2, <1>3, <1>4, <2>1 DEF Node
<1> HIDE DEF x
<1>6. /\ nodes' \in Seq(Node) /\ Len(nodes') = Len(nodes)
      /\ \A k \in 1 .. Len(nodes) : nodes'[k] = IF k = n THEN x ELSE nodes[k]
  BY <1>1, <1>2, <1>5, Typed, ExceptSeq DEF FilesInv
<1>7. \A k \in 1 .. Len(nodes') : nodes'[k].head \in captured \cup {None}
  BY <1>5, <1>6 DEF FilesInv, CapturedInv
<1>8. Len(nodes') \in Len(nodes) .. MaxNodes
  BY <1>6, Typed, CheckpointAssumption DEF FilesInv, FilesTypeOK
<1>9. target' \in 0 .. Len(nodes') /\ temporary' \in 0 .. Len(nodes')
  BY <1>1, <1>6 DEF FilesInv, FilesTypeOK
<1> DEFINE new == [call[p] EXCEPT !.phase = to]
<1>10. /\ new \in [phase: Phases, capture: Heads, node: 0 .. MaxNodes]
       /\ new.capture \in captured \cup {None} /\ new.capture # None
       /\ new.node \in 1 .. Len(nodes')
  <2>1. to \in Phases /\ c # None
    BY <1>1, <1>3, NoneAssumption DEF Phases
  <2> QED
    BY <1>2, <1>6, <2>1, SamePhaseCall
<1>11. call' = [call EXCEPT ![p] = new]
  BY <1>1 DEF Enter
<1> HIDE DEF new
<1> QED
  BY <1>1, <1>6, <1>7, <1>8, <1>9, <1>10, <1>11, FileStep

LEMMA BeginLoadStep ==
  ASSUME FilesInv, NEW p \in Processes, BeginLoad(p)
  PROVE  FilesInv'
<1> DEFINE new == [phase |-> "load", capture |-> nodes[target].head, node |-> target]
<1>1. /\ call' = [call EXCEPT ![p] = new] /\ target # 0
      /\ UNCHANGED <<built, transport, nodes, changes, captured, loaded, target, temporary>>
  BY DEF BeginLoad, files, history
<1>2. target \in 1 .. Len(nodes) /\ Len(nodes) <= MaxNodes /\ MaxNodes \in Nat
  BY <1>1, Typed, CheckpointAssumption DEF FilesInv, FilesTypeOK
<1>3. /\ new \in [phase: Phases, capture: Heads, node: 0 .. MaxNodes]
      /\ new.capture \in captured \cup {None} /\ new.phase = "load"
      /\ new.node \in 1 .. Len(nodes)
  BY <1>2, Typed DEF FilesInv, CapturedInv, Phases
<1>4. target' \in 0 .. Len(nodes) /\ temporary' \in 0 .. Len(nodes)
  BY <1>1 DEF FilesInv, FilesTypeOK
<1>5. captured \subseteq captured' /\ captured' \subseteq Capture /\ "load" \notin Saving
  BY <1>1 DEF FilesInv, FilesTypeOK, Saving
<1> HIDE DEF new
<1> QED
  BY <1>1, <1>3, <1>4, <1>5, CallStep

-----------------------------------------------------------------------------
(* The end of a load, and what happens to programs and files *)

LEMMA FinishLoadStep ==
  ASSUME FilesInv, NEW p \in Processes, FinishLoad(p)
  PROVE  FilesInv'
<1> DEFINE head == call[p].capture
           body == nodes[call[p].node].body
<1>1. /\ call' = [call EXCEPT ![p] = NoCall]
      /\ UNCHANGED <<built, target, temporary, nodes, changes, captured>>
  BY DEF FinishLoad, files
<1>2. /\ NoCall \in [phase: Phases, capture: Heads, node: 0 .. MaxNodes]
      /\ NoCall.capture = None /\ NoCall.phase = "idle"
  BY IdleCall
<1>3. CASE ~ LoadAccepted(p, head, body)
  <2>1. UNCHANGED <<transport, loaded>>
    BY <1>3 DEF FinishLoad
  <2>2. target' \in 0 .. Len(nodes) /\ temporary' \in 0 .. Len(nodes)
    BY <1>1 DEF FilesInv, FilesTypeOK
  <2>3. captured \subseteq captured' /\ captured' \subseteq Capture /\ "idle" \notin Saving
    BY <1>1 DEF FilesInv, FilesTypeOK, Saving
  <2> QED
    BY <1>1, <1>2, <2>1, <2>2, <2>3, CallStep
<1>4. CASE LoadAccepted(p, head, body)
  <2>1. /\ head \in captured /\ head \in Capture /\ head.build = built[p]
        /\ head.state = body
    BY <1>4 DEF LoadAccepted, FilesInv, FilesTypeOK, CapturedInv
  <2>2. [build |-> head.build, state |-> body, last |-> head.last] = head
    BY <2>1 DEF Capture
  <2> DEFINE made == [initialized |-> TRUE, state |-> head.state, last |-> head.last]
  <2>3. /\ transport' = [transport EXCEPT ![p] = made]
        /\ loaded' = [loaded EXCEPT ![p] = head]
    BY <1>4, <2>1, <2>2 DEF FinishLoad, Restored
  <2>4. /\ made \in [initialized: BOOLEAN, state: Contents \cup {NotFinite, None},
                      last: 0 .. LastGeneration]
        /\ made.state = head.state /\ made.state # None /\ made.last = head.last
        /\ head.last \in Nat /\ head \in Heads
    BY <2>1, CheckpointAssumption, NoneAssumption DEF Capture, Heads
  <2> HIDE DEF made, head, body
  <2>5. FilesTypeOK'
    BY <1>1, <1>2, <2>3, <2>4 DEF FilesInv, FilesTypeOK, Phases
  <2>6. CapturedInv'
    BY <1>1, <1>2 DEF FilesInv, FilesTypeOK, CapturedInv
  <2>7. CallsInv'
    BY <1>1, <1>2, <2>3, <2>4 DEF FilesInv, FilesTypeOK, CallsInv, Saving
  <2>8. LoadedIsOneCapture'
    BY <1>1, <2>1, <2>3, <2>4 DEF FilesInv, FilesTypeOK, LoadedIsOneCapture
  <2> QED
    BY <2>5, <2>6, <2>7, <2>8 DEF FilesInv
<1> QED
  BY <1>3, <1>4

LEMMA CrashStep ==
  ASSUME FilesInv, NEW p \in Processes, Crash(p)
  PROVE  FilesInv'
<1>1. /\ transport' = [transport EXCEPT ![p] = Fresh]
      /\ call' = [call EXCEPT ![p] = NoCall]
      /\ loaded' = [loaded EXCEPT ![p] = None]
      /\ UNCHANGED <<built, target, temporary, nodes, changes, captured>>
  BY DEF Crash, files
<1>2. /\ NoCall \in [phase: Phases, capture: Heads, node: 0 .. MaxNodes]
      /\ NoCall.capture = None /\ NoCall.phase = "idle"
  BY IdleCall
<1>3. /\ Fresh \in [initialized: BOOLEAN, state: Contents \cup {NotFinite, None},
                    last: 0 .. LastGeneration]
      /\ ~ Fresh.initialized
  BY CheckpointAssumption DEF Fresh
<1>4. FilesTypeOK'
  BY <1>1, <1>2, <1>3 DEF FilesInv, FilesTypeOK, Phases, Heads
<1>5. CapturedInv'
  BY <1>1, <1>2 DEF FilesInv, FilesTypeOK, CapturedInv
<1>6. CallsInv'
  BY <1>1, <1>2, <1>3 DEF FilesInv, FilesTypeOK, CallsInv, Saving
<1>7. LoadedIsOneCapture'
  BY <1>1 DEF FilesInv, FilesTypeOK, LoadedIsOneCapture
<1> QED
  BY <1>4, <1>5, <1>6, <1>7 DEF FilesInv

LEMMA RemoveStep ==
  ASSUME FilesInv, RemoveFile
  PROVE  FilesInv'
<1>1. /\ UNCHANGED <<built, transport, call, nodes, changes, captured, loaded>>
      /\ target' \in {0, target} /\ temporary' \in {0, temporary}
  BY DEF RemoveFile, history
<1>2. Len(nodes) \in Nat
  BY Typed DEF FilesInv
<1>3. FilesTypeOK'
  BY <1>1, <1>2 DEF FilesInv, FilesTypeOK
<1>4. CapturedInv'
  BY <1>1 DEF FilesInv, CapturedInv
<1>5. CallsInv'
  BY <1>1 DEF FilesInv, CallsInv
<1>6. LoadedIsOneCapture'
  BY <1>1 DEF FilesInv, LoadedIsOneCapture
<1> QED
  BY <1>3, <1>4, <1>5, <1>6 DEF FilesInv

LEMMA TransportStep ==
  ASSUME FilesInv, NEW p \in Processes, Begin(p) \/ Evolve(p)
  PROVE  FilesInv'
<1>1. CASE Begin(p)
  <2>1. PICK state \in Contents \cup {NotFinite} : Change(p, state, 0)
    BY <1>1 DEF Begin
  <2>2. 0 \in 0 .. LastGeneration /\ loaded' = [loaded EXCEPT ![p] = None]
    BY <1>1, CheckpointAssumption DEF Begin
  <2> QED
    BY <2>1, <2>2, ChangeStep
<1>2. CASE Evolve(p)
  <2>1. transport[p].state \in Contents \cup {NotFinite} /\ transport[p].last \in Nat
    BY <1>2, Typed DEF Evolve, FilesInv, FilesTypeOK, CallsInv
  <2>2. PICK state \in Contents \cup {NotFinite}, stages \in 1 .. 4 :
          /\ transport[p].last + stages <= LastGeneration
          /\ Change(p, state, transport[p].last + stages)
    BY <1>2, <2>1 DEF Evolve, CompleteStep, AbandonedStep
  <2>3. /\ transport[p].last + stages \in 0 .. LastGeneration
        /\ transport[p].last + stages > transport[p].last
    BY <2>1, <2>2, CheckpointAssumption
  <2>4. loaded' = loaded
    BY <1>2 DEF Evolve
  <2> QED
    BY <2>2, <2>3, <2>4, ChangeStep
<1> QED
  BY <1>1, <1>2

LEMMA FilesNextInv == FilesInv /\ [FilesNext]_filesVars => FilesInv'
<1> SUFFICES ASSUME FilesInv, [FilesNext]_filesVars PROVE FilesInv'
  OBVIOUS
<1>1. CASE UNCHANGED filesVars
  BY <1>1 DEF filesVars, files, FilesInv, FilesTypeOK, CapturedInv, CallsInv, LoadedIsOneCapture
<1>2. CASE RemoveFile
  BY <1>2, RemoveStep
<1>3. ASSUME NEW p \in Processes,
             \/ Begin(p) \/ Evolve(p)
             \/ BeginSave(p) \/ CheckTemporary(p) \/ CreateTemporary(p)
             \/ WriteHead(p) \/ WriteBody(p) \/ Rename(p) \/ SaveFails(p)
             \/ BeginLoad(p) \/ FinishLoad(p) \/ Crash(p)
      PROVE  FilesInv'
  BY <1>3, TransportStep, BeginSaveStep, NamesStep, CreateStep, WriteStep, BeginLoadStep,
     FinishLoadStep, CrashStep
<1> QED
  BY <1>1, <1>2, <1>3 DEF FilesNext

-----------------------------------------------------------------------------

\* The types, that heads of files and calls hold what saves have taken, and that
\* what was loaded is one capture, hold together in every reachable state: a save
\* writes the checksum with the generation, so that a head stands for a capture
\* whoever has written the body after it (write_payload).
THEOREM StoreContents == FilesSpec => []FilesInv
<1> QED
  BY FilesInitInv, FilesNextInv, PTL DEF FilesSpec

\* Every variable has its type (FilesTypeOK).
THEOREM CheckpointTypes == FilesSpec => []FilesTypeOK
<1>1. FilesInv => FilesTypeOK
  BY DEF FilesInv
<1> QED
  BY <1>1, StoreContents, PTL

\* Whatever savers that share the temporary name do to each other's files, a load
\* gave build, state and generation as one save has taken them, though a state can
\* be had with several generations, and the transport goes on from them
\* (LoadedIsOneCapture).
THEOREM OneTransportLoaded == FilesSpec => []LoadedIsOneCapture
<1>1. FilesInv => LoadedIsOneCapture
  BY DEF FilesInv
<1> QED
  BY <1>1, StoreContents, PTL

\* The step of LoadIsAllOrNothing.
RefusedLeaves ==
  \A p \in Processes :
    call[p].phase = "load" /\ transport'[p] # transport[p] =>
      \/ /\ loaded'[p] # None
         /\ transport'[p] = Restored(loaded'[p], loaded'[p].state)
      \/ transport'[p] = Fresh

LEMMA RefusedStep == FilesInv /\ [FilesNext]_filesVars => RefusedLeaves
<1> SUFFICES ASSUME FilesInv, [FilesNext]_filesVars, NEW p \in Processes,
                    call[p].phase = "load", transport'[p] # transport[p]
             PROVE  \/ /\ loaded'[p] # None
                       /\ transport'[p] = Restored(loaded'[p], loaded'[p].state)
                    \/ transport'[p] = Fresh
  BY DEF RefusedLeaves
<1>1. /\ DOMAIN transport = Processes /\ DOMAIN loaded = Processes
      /\ transport = [q \in Processes |-> transport[q]]
  BY DEF FilesInv, FilesTypeOK
<1>2. PICK q \in Processes : Begin(q) \/ Evolve(q) \/ FinishLoad(q) \/ Crash(q)
  BY DEF FilesNext, filesVars, BeginSave, CheckTemporary, CreateTemporary, WriteHead, WriteBody, Write,
         Rename, SaveFails, BeginLoad, RemoveFile
<1>3. CASE Begin(q) \/ Evolve(q)
  <2>1. call[q] = NoCall /\ \E x : transport' = [transport EXCEPT ![q] = x]
    BY <1>3 DEF Begin, Evolve, CompleteStep, AbandonedStep, Change
  <2>2. q = p
    BY <1>1, <2>1
  <2> QED
    BY <2>1, <2>2 DEF NoCall
<1>4. CASE Crash(q)
  BY <1>1, <1>4 DEF Crash
<1>5. CASE FinishLoad(q)
  <2> DEFINE head == call[q].capture
             body == nodes[call[q].node].body
             given == [build |-> head.build, state |-> body, last |-> head.last]
  <2>1. LoadAccepted(q, head, body)
    BY <1>5 DEF FinishLoad
  <2>2. /\ transport' = [transport EXCEPT ![q] = Restored(head, body)]
        /\ loaded' = [loaded EXCEPT ![q] = given]
    BY <1>5, <2>1 DEF FinishLoad
  <2>3. q = p
    BY <1>1, <2>2
  <2>4. head \in Capture /\ head.state = body
    BY <2>1 DEF LoadAccepted, FilesInv, FilesTypeOK, Heads
  <2>5. given \in Capture /\ given # None /\ given.state = body /\ given.last = head.last
    BY <2>4, NoneAssumption DEF Capture
  <2>6. loaded'[p] = given /\ transport'[p] = Restored(head, body)
    BY <1>1, <2>2, <2>3
  <2>7. Restored(given, body) = Restored(head, body)
    BY <2>5 DEF Restored
  <2> QED
    BY <2>5, <2>6, <2>7
<1> QED
  BY <1>2, <1>3, <1>4, <1>5

\* A load that does not accept what it has read leaves the transport as it was
\* (LoadIsAllOrNothing).
THEOREM RefusedLoadLeaves == FilesSpec => LoadIsAllOrNothing
<1>1. FilesInv /\ [FilesNext]_filesVars => [RefusedLeaves]_filesVars
  BY RefusedStep
<1> QED
  BY <1>1, StoreContents, PTL DEF FilesSpec, LoadIsAllOrNothing, RefusedLeaves
=============================================================================
