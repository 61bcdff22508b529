--------------------------- MODULE LiveSourceProofs ---------------------------
(***************************************************************************)
(* Proofs about LiveSource, for every set of modes, parents, targets and    *)
(* generations and any number of stages: the three last_generation_ of the   *)
(* composition and its producers move on together; a forcing is whole or     *)
(* zero, of the stage evaluated last, and of the modes that add up to it.    *)
(*                                                                         *)
(* The argument follows a stage through its kernels.  Knows(memory, slots,   *)
(* id, level, more) says that some slots hold nothing but what a stage's     *)
(* inputs are, in the order and of the modes that each slot is for, besides   *)
(* what an overflow leaves.  A kernel that reads known slots in the right     *)
(* order makes further slots known (Fits and FitsKeeps); each producer is a   *)
(* list of such kernels, for which one lemma says what it makes known, what   *)
(* it leaves alone and which stamps it sets (CurvatureStageDone,              *)
(* PackLevelsDone, LinearStageDone, PrimitiveStageDone, SourceStageDone).     *)
(* That H of every mode gets through to the sums (Carries, CarriesSum) shows  *)
(* that a forcing is there.  The invariant is LiveInv: what is known of the   *)
(* inputs, and what the stage evaluated last has left.                        *)
(***************************************************************************)
EXTENDS LiveSourceInvariant, SequenceTheorems, TLAPS

LEMMA InitLast == Init => LastInv
  BY DEF Init, LastInv, LastType, Behind

\* An evaluation moves the composition on to its generation, and some of the
\* producers with it.
LEMMA EvaluatedLast ==
  ASSUME LastInv, NEW entry, NEW g \in Generations, NEW active, NEW late, NEW fault,
         Evaluate(entry, g, active, late, fault)
  PROVE  /\ LastInv'
         /\ last'.composition = g /\ g > last.composition
         /\ last'.curvature \in {last.curvature, g}
         /\ last'.primitive \in {last.primitive, g}
<1>1. g \in Nat /\ g > last.composition
  BY LiveAssumption DEF Evaluate, Accepted
<1>2. last' = [composition |-> g,
               curvature |-> IF entry = "routeb" THEN g ELSE last.curvature,
               primitive |-> IF active THEN g ELSE last.primitive]
  BY DEF Evaluate
<1>3. LastType'
  BY <1>1, <1>2 DEF LastInv, LastType
<1>4. Behind'
  BY <1>1, <1>2 DEF LastInv, LastType, Behind
<1> QED
  BY <1>1, <1>2, <1>3, <1>4 DEF LastInv

\* The three kinds of steps.
LEMMA NextLast ==
  ASSUME LastInv, [Next]_vars
  PROVE  \/ UNCHANGED last
         \/ \E entry, g, active, late, fault :
              g \in Generations /\ Evaluate(entry, g, active, late, fault)
<1>1. CASE Write
  BY <1>1 DEF Write, WriteTower, WriteGiven
<1>2. CASE EvaluateRouteB
  BY <1>2 DEF EvaluateRouteB
<1>3. CASE EvaluateScientific
  BY <1>3 DEF EvaluateScientific
<1>4. CASE UNCHANGED vars
  BY <1>4 DEF vars
<1> QED
  BY <1>1, <1>2, <1>3, <1>4 DEF Next

LEMMA LastKept == LastInv /\ [Next]_vars => LastInv'
<1> SUFFICES ASSUME LastInv, [Next]_vars PROVE LastInv'
  OBVIOUS
<1>1. CASE UNCHANGED last
  BY <1>1 DEF LastInv, LastType, Behind
<1>2. CASE \E entry, g, active, late, fault :
             g \in Generations /\ Evaluate(entry, g, active, late, fault)
  BY <1>2, EvaluatedLast
<1> QED
  BY <1>1, <1>2, NextLast

LEMMA LastAlways == Spec => []LastInv
  BY InitLast, LastKept, PTL DEF Spec

\* A generation is used once, and no producer gets ahead of the composition,
\* whichever entries are called with active or inactive stages.
THEOREM GenerationsMoveTogether == Spec => GenerationsInStep
<1>1. ASSUME LastInv, [Next]_vars, last' # last
      PROVE  /\ last'.composition > last.composition
             /\ \A p \in DOMAIN last : last[p] <= last'[p] /\ last'[p] <= last'.composition
  <2>1. PICK entry, g, active, late, fault :
          g \in Generations /\ Evaluate(entry, g, active, late, fault)
    BY <1>1, NextLast
  <2>2. /\ LastInv'
        /\ last'.composition = g /\ g > last.composition
        /\ last'.curvature \in {last.curvature, g}
        /\ last'.primitive \in {last.primitive, g}
    BY <1>1, <2>1, EvaluatedLast
  <2>3. DOMAIN last = {"composition", "curvature", "primitive"}
    BY <1>1 DEF LastInv, LastType
  <2> QED
    BY <1>1, <2>2, <2>3 DEF LastInv, LastType, Behind
<1>2. LastInv /\ [Next]_vars
        => [last' # last =>
              /\ last'.composition > last.composition
              /\ \A p \in DOMAIN last :
                   last[p] <= last'[p] /\ last'[p] <= last'.composition]_vars
  BY <1>1
<1> QED
  BY <1>2, LastAlways, PTL DEF Spec, GenerationsInStep

\* So the composition's own record decides alone: no producer ever refuses a
\* generation that the composition is still to take, and a stage is not left
\* with one producer done and the next one throwing.
THEOREM CompositionDecides ==
  Spec => [](\A entry \in DOMAIN Views, g \in Generations :
               Accepted(entry, g) <=> g # 0 /\ g > last.composition)
<1>1. ASSUME LastInv, NEW entry \in DOMAIN Views, NEW g \in Generations
      PROVE  Accepted(entry, g) <=> g # 0 /\ g > last.composition
  BY <1>1, LiveAssumption DEF Accepted, LastInv, LastType, Behind
<1>2. LastInv => \A entry \in DOMAIN Views, g \in Generations :
                   Accepted(entry, g) <=> g # 0 /\ g > last.composition
  BY <1>1
<1> QED
  BY <1>2, LastAlways, PTL

-----------------------------------------------------------------------------
(* What the composition's last kernels make of any device *)

\* The last kernel alone: without readiness all that it can show is cleared.
LEMMA ClosedOuterCloses ==
  ASSUME NEW memory, NEW ready \in BOOLEAN,
         Exposed \subseteq DOMAIN memory, ForcingSlot \in DOMAIN memory
  PROVE  LET closed == ClosedOuter(memory, ready)
         IN  /\ ~ready => Hidden(closed) /\ Unforced(closed, Modes)
             /\ Unforced(closed, Modes \ Targets)
<1> DEFINE clear == IF ready THEN memory ELSE Clear(memory, Exposed)
           column == [m \in Modes |->
             IF ready /\ m \in Targets
             THEN clear[<<"source", Value("Forcing", 0)>>][m] ELSE {}]
           closed == ClosedOuter(memory, ready)
<1>1. closed = [clear EXCEPT ![ForcingSlot] = column]
  BY DEF ClosedOuter, ForcingSlot
<1>2. DOMAIN clear = DOMAIN memory
  BY DEF Clear
<1>3. ForcingSlot \notin Exposed
  BY DEF ForcingSlot, Exposed
<1>4. closed[ForcingSlot] = column
  BY <1>1, <1>2
<1>5. ~ready => \A m \in Modes : column[m] = {}
  OBVIOUS
<1>6. \A m \in Modes \ Targets : column[m] = {}
  OBVIOUS
<1>7. ASSUME ~ready, NEW s \in Exposed PROVE closed[s] = Zero
  <2>1. closed[s] = clear[s]
    BY <1>1, <1>2, <1>3, <1>7
  <2>2. clear[s] = Zero
    BY <1>7 DEF Clear
  <2> QED
    BY <2>1, <2>2
<1> QED
  BY <1>4, <1>5, <1>6, <1>7 DEF Hidden, Unforced

\* A fault in a kernel changes contents and no slots.
LEMMA AfterFaultDomain ==
  ASSUME NEW memory, NEW kernel, NEW fault
  PROVE  DOMAIN AfterFault(memory, kernel, fault) = DOMAIN memory
  BY DEF AfterFault, After, Overflowed

LEMMA SourceStageCloses ==
  ASSUME NEW d, DOMAIN d = {"mem", "stamp", "ready"},
         NEW curvature, NEW derivatives, NEW late, NEW generation, NEW fault,
         Exposed \subseteq DOMAIN d.mem, ForcingSlot \in DOMAIN d.mem,
         NEW out, out = SourceStage(d, curvature, derivatives, late, generation, fault)
  PROVE  StageCloses(d, out, curvature, derivatives, generation)
<1> DEFINE taken  == Normalized(d, curvature, derivatives, generation)
           pairs  == PairSums(taken.mem)
           summed == Overflowed(pairs, {"sums"} \X Sums, fault)
           given  == [d EXCEPT !.mem = summed]
           outer  == OuterStage(given, generation, fault)
           normal == NormalizedOuter(outer, taken.ready, late, generation)
           source == OuterSource(normal.mem, fault)
<1>1. out = [outer EXCEPT !.mem = ClosedOuter(source, normal.ready), !.ready = normal.ready]
  BY DEF SourceStage
<1>2. DOMAIN taken.mem = DOMAIN d.mem
  BY DEF Normalized, After
<1>3. DOMAIN summed = DOMAIN d.mem
  <2>1. DOMAIN pairs = DOMAIN taken.mem
    BY DEF PairSums
  <2>2. DOMAIN summed = DOMAIN pairs
    BY DEF Overflowed
  <2> HIDE DEF pairs, summed, taken
  <2> QED
    BY <2>1, <2>2, <1>2
<1>4. DOMAIN given = {"mem", "stamp", "ready"} /\ given.mem = summed
  OBVIOUS
<1> HIDE DEF given, summed, pairs
<1>5. /\ DOMAIN outer = {"mem", "stamp", "ready"}
      /\ DOMAIN outer.mem = DOMAIN given.mem
  <2> DEFINE projected == Overflowed(Project(given.mem), {"projected"} \X Sums, fault)
             mem == AfterFault(projected, OuterDerivatives, fault)
  <2>1. DOMAIN mem = DOMAIN given.mem
    <3> DEFINE image == Project(given.mem)
    <3>1. DOMAIN image = DOMAIN given.mem
      BY DEF Project
    <3> HIDE DEF image
    <3>2. DOMAIN Overflowed(image, {"projected"} \X Sums, fault) = DOMAIN image
      BY DEF Overflowed
    <3>3. DOMAIN projected = DOMAIN given.mem
      BY <3>1, <3>2 DEF image
    <3> HIDE DEF projected
    <3> QED
      BY <3>3, AfterFaultDomain
  <2>2. DOMAIN outer.mem = DOMAIN mem
    BY <1>4 DEF OuterStage
  <2> QED
    BY <1>4, <2>1, <2>2 DEF OuterStage
<1> HIDE DEF outer
<1>6. /\ DOMAIN normal.mem = DOMAIN outer.mem
      /\ normal.ready \in BOOLEAN /\ (normal.ready => taken.ready)
  BY DEF NormalizedOuter
<1> HIDE DEF normal
<1>7. DOMAIN source = DOMAIN d.mem
  <2>1. DOMAIN source = DOMAIN normal.mem
    BY DEF OuterSource
  <2> QED
    BY <2>1, <1>3, <1>4, <1>5, <1>6
<1>8. out.mem = ClosedOuter(source, normal.ready) /\ out.ready = normal.ready
  BY <1>1, <1>5
<1>9. taken.ready =>
        /\ generation # 0
        /\ \A m \in Modes,
              k \in {<<curvature, 0>>, <<derivatives, 0>>,
                     <<"primitive", 0>>, <<"jk", 0>>, <<"q", 0>>} :
             d.stamp[k][m] = generation
  BY ModesAssumption DEF Normalized
<1> HIDE DEF source, taken
<1>10. /\ ~out.ready => Hidden(out.mem) /\ Unforced(out.mem, Modes)
       /\ Unforced(out.mem, Modes \ Targets)
  <2>1. Exposed \subseteq DOMAIN source /\ ForcingSlot \in DOMAIN source
    BY <1>7
  <2> QED
    BY <1>6, <1>8, <2>1, ClosedOuterCloses
<1> QED
  BY <1>6, <1>8, <1>9, <1>10 DEF StageCloses

\* A stage the outer kernels reject has neither a forcing nor anything for the
\* diagnostics to show, and no mode that is not a target is ever forced.  The
\* stage is accepted only with the stamps of its generation on every mode of the
\* curvature, the derivatives and all that the primitive producer makes.  This
\* holds of any device they find, for any modes and registry.
THEOREM RejectedStageIsClosed ==
  ASSUME NEW d, DOMAIN d = {"mem", "stamp", "ready"},
         NEW curvature, NEW derivatives, NEW late, NEW generation, NEW fault,
         Exposed \subseteq DOMAIN d.mem, ForcingSlot \in DOMAIN d.mem
  PROVE  LET out == SourceStage(d, curvature, derivatives, late, generation, fault)
         IN  /\ ~out.ready => Hidden(out.mem) /\ Unforced(out.mem, Modes)
             /\ Unforced(out.mem, Modes \ Targets)
             /\ out.ready =>
                  /\ generation # 0
                  /\ \A m \in Modes,
                        k \in {<<curvature, 0>>, <<derivatives, 0>>,
                               <<"primitive", 0>>, <<"jk", 0>>, <<"q", 0>>} :
                       d.stamp[k][m] = generation
<1> DEFINE out == SourceStage(d, curvature, derivatives, late, generation, fault)
<1>1. StageCloses(d, out, curvature, derivatives, generation)
  <2>1. \E x : x = out
    OBVIOUS
  <2>2. PICK x : x = out
    BY <2>1
  <2>3. StageCloses(d, x, curvature, derivatives, generation)
    BY <2>2, SourceStageCloses
  <2> QED
    BY <2>2, <2>3
<1> HIDE DEF out
<1> QED
  BY <1>1 DEF StageCloses, out

-----------------------------------------------------------------------------
(* Running kernels of which one may overflow *)

LEMMA FaultRunExists ==
  ASSUME NEW memory, NEW kernels, NEW fault, NEW n \in Nat
  PROVE  \E done : FaultRunOf(memory, kernels, fault, done, n)
<1> DEFINE S == {k \in Nat : \E f : FaultRunOf(memory, kernels, fault, f, k)}
<1>1. 0 \in S
  <2>1. FaultRunOf(memory, kernels, fault, [k \in 0 .. 0 |-> memory], 0)
    BY DEF FaultRunOf
  <2> QED
    BY <2>1
<1>2. ASSUME NEW k \in Nat, k \in S PROVE k + 1 \in S
  <2>1. PICK f : FaultRunOf(memory, kernels, fault, f, k)
    BY <1>2
  <2> DEFINE g == [i \in 0 .. k + 1 |->
                     IF i = k + 1 THEN AfterFault(f[k], kernels[k + 1], fault) ELSE f[i]]
  <2>2. \A i \in 0 .. k : g[i] = f[i]
    OBVIOUS
  <2>3. \A i \in 0 .. k :
          f[i] = IF i = 0 THEN memory ELSE AfterFault(f[i - 1], kernels[i], fault)
    BY <2>1 DEF FaultRunOf
  <2>4. ASSUME NEW i \in 0 .. k + 1
        PROVE  g[i] = IF i = 0 THEN memory ELSE AfterFault(g[i - 1], kernels[i], fault)
    <3>1. CASE i = 0
      BY <2>2, <2>3, <3>1
    <3>2. CASE i \in 1 .. k
      <4>1. i - 1 \in 0 .. k /\ i \in 0 .. k
        BY <3>2
      <4> QED
        BY <2>2, <2>3, <3>2, <4>1
    <3>3. CASE i = k + 1
      <4>1. i - 1 = k /\ i # 0 /\ k \in 0 .. k
        BY <3>3
      <4>2. g[i - 1] = f[k] /\ g[i] = AfterFault(f[k], kernels[k + 1], fault)
        BY <2>2, <3>3, <4>1
      <4> QED
        BY <3>3, <4>1, <4>2
    <3> QED
      BY <3>1, <3>2, <3>3
  <2>5. FaultRunOf(memory, kernels, fault, g, k + 1)
    <3> HIDE DEF g
    <3>1. g = [i \in 0 .. k + 1 |-> g[i]]
      BY DEF g
    <3> QED
      BY <2>4, <3>1 DEF FaultRunOf
  <2> QED
    BY <2>5
<1>3. Nat \subseteq S
  <2> HIDE DEF S
  <2> QED
    BY <1>1, <1>2, Steps
<1> QED
  BY <1>3

LEMMA RunFaultSteps ==
  ASSUME NEW memory, NEW kernels, NEW fault, Len(kernels) \in Nat
  PROVE  \E done : FaultPasses(memory, kernels, fault, done)
<1>1. \E f : FaultRunOf(memory, kernels, fault, f, Len(kernels))
  BY FaultRunExists
<1> DEFINE done == CHOOSE f : FaultRunOf(memory, kernels, fault, f, Len(kernels))
<1>2. FaultRunOf(memory, kernels, fault, done, Len(kernels))
  BY <1>1
<1>3. RunFault(memory, kernels, fault) = done[Len(kernels)]
  BY DEF RunFault, FaultRunOf
<1> HIDE DEF done
<1>4. \A n \in 0 .. Len(kernels) :
        done[n] = IF n = 0 THEN memory ELSE AfterFault(done[n - 1], kernels[n], fault)
  BY <1>2 DEF FaultRunOf
<1> QED
  BY <1>3, <1>4 DEF FaultPasses

\* A kernel list that begins with a kernel and the five up to the connection.
LEMMA KernelList ==
  ASSUME NEW p, NEW C, NEW c \in Seq(C), Len(c) = 5,
         NEW T, NEW t \in Seq(T)
  PROVE  LET k == <<p>> \o c \o t
         IN  /\ Len(k) = 6 + Len(t)
             /\ k[1] = p
             /\ \A i \in 1 .. 5 : k[i + 1] = c[i]
             /\ \A i \in 1 .. Len(t) : k[i + 6] = t[i]
<1> DEFINE S == {p} \cup C \cup T
<1>1. c \in Seq(S) /\ t \in Seq(S) /\ <<p>> \in Seq(S) /\ Len(<<p>>) = 1 /\ <<p>>[1] = p
  <2>1. C \subseteq S /\ T \subseteq S /\ p \in S
    OBVIOUS
  <2> HIDE DEF S
  <2> QED
    BY <2>1
<1> HIDE DEF S
<1>2. ASSUME NEW u \in Seq(S), NEW v \in Seq(S)
      PROVE  /\ u \o v \in Seq(S) /\ Len(u \o v) = Len(u) + Len(v)
             /\ \A i \in 1 .. Len(u) : (u \o v)[i] = u[i]
             /\ \A i \in 1 .. Len(v) : (u \o v)[i + Len(u)] = v[i]
  OBVIOUS
<1> DEFINE pc == <<p>> \o c
<1>3. pc \in Seq(S) /\ Len(pc) = 6 /\ pc[1] = p /\ \A i \in 1 .. 5 : pc[i + 1] = c[i]
  <2>1. /\ pc \in Seq(S) /\ Len(pc) = Len(<<p>>) + Len(c)
        /\ \A i \in 1 .. Len(<<p>>) : pc[i] = <<p>>[i]
        /\ \A i \in 1 .. Len(c) : pc[i + Len(<<p>>)] = c[i]
    BY <1>1, <1>2
  <2> HIDE DEF pc
  <2> QED
    BY <1>1, <2>1
<1>4. /\ Len(pc \o t) = 6 + Len(t)
      /\ \A i \in 1 .. 6 : (pc \o t)[i] = pc[i]
      /\ \A i \in 1 .. Len(t) : (pc \o t)[i + 6] = t[i]
  BY <1>1, <1>2, <1>3
<1> HIDE DEF pc
<1>5. \A i \in 1 .. 5 : (pc \o t)[i + 1] = c[i]
  <2> SUFFICES ASSUME NEW i \in 1 .. 5 PROVE (pc \o t)[i + 1] = c[i]
    OBVIOUS
  <2>1. i + 1 \in 1 .. 6
    OBVIOUS
  <2> QED
    BY <1>3, <1>4, <2>1
<1>6. (pc \o t)[1] = p
  BY <1>3, <1>4
<1> QED
  BY <1>4, <1>5, <1>6 DEF pc

LEMMA KernelsTwo ==
  ASSUME NEW p, NEW a, NEW b, NEW c, NEW d, NEW e, NEW x, NEW y
  PROVE  <<p>> \o <<a, b, c, d, e>> \o <<x, y>> = <<p, a, b, c, d, e, x, y>>
<1> DEFINE C == {a, b, c, d, e}
           f == <<a, b, c, d, e>>
           T == {x, y}
           t == <<x, y>>
           k == <<p>> \o f \o t
           u == <<p, a, b, c, d, e, x, y>>
<1>1. f \in Seq(C) /\ Len(f) = 5 /\ f[1] = a /\ f[2] = b /\ f[3] = c /\ f[4] = d /\ f[5] = e
  OBVIOUS
<1>2. t \in Seq(T) /\ Len(t) = 2 /\ t[1] = x /\ t[2] = y
  OBVIOUS
<1>3. /\ Len(u) = 8 /\ u[1] = p /\ u[2] = a /\ u[3] = b /\ u[4] = c /\ u[5] = d
      /\ u[6] = e /\ u[7] = x /\ u[8] = y /\ u \in Seq({p} \cup C \cup T)
  OBVIOUS
<1> HIDE DEF f, t, C, T, u
<1>4. /\ Len(k) = 6 + Len(t)
      /\ k[1] = p
      /\ \A i \in 1 .. 5 : k[i + 1] = f[i]
      /\ \A i \in 1 .. Len(t) : k[i + 6] = t[i]
  <2>1. f \in Seq(C) /\ t \in Seq(T) /\ Len(f) = 5
    BY <1>1, <1>2
  <2> QED
    BY <2>1, KernelList, SMTT(60)
<1> HIDE DEF k
<1>5. /\ Len(k) = 6 + 2
      /\ k[1] = p
      /\ \A i \in 1 .. 5 : k[i + 1] = f[i]
      /\ \A i \in 1 .. 2 : k[i + 6] = t[i]
  BY <1>2, <1>4
<1> USE DEF k
<1>6. k \in Seq({p} \cup C \cup T)
  <2>1. \A S, v, w : v \in Seq(S) /\ w \in Seq(S) => v \o w \in Seq(S)
    OBVIOUS
  <2>2. f \in Seq({p} \cup C \cup T) /\ t \in Seq({p} \cup C \cup T) /\ <<p>> \in Seq({p} \cup C \cup T)
    BY <1>1, <1>2
  <2> QED
    BY <2>1, <2>2
<1> HIDE DEF k
<1>7. Len(k) = 8
  BY <1>5
<1>8. k[2] = a /\ k[3] = b /\ k[4] = c /\ k[5] = d /\ k[6] = e
  <2>1. k[1 + 1] = f[1] /\ k[2 + 1] = f[2] /\ k[3 + 1] = f[3] /\ k[4 + 1] = f[4] /\ k[5 + 1] = f[5]
    BY <1>5
  <2>2. 1 + 1 = 2 /\ 2 + 1 = 3 /\ 3 + 1 = 4 /\ 4 + 1 = 5 /\ 5 + 1 = 6
    OBVIOUS
  <2> QED
    BY <1>1, <2>1, <2>2
<1>9. k[7] = x /\ k[8] = y
  <2>1. k[1 + 6] = t[1] /\ k[2 + 6] = t[2]
    BY <1>5
  <2>2. 1 + 6 = 7 /\ 2 + 6 = 8
    OBVIOUS
  <2> QED
    BY <1>2, <2>1, <2>2
<1>10. k = u
  <2>1. \A i \in 1 .. 8 : k[i] = u[i]
    <3>1. \A i \in 1 .. 8 : i = 1 \/ i = 2 \/ i = 3 \/ i = 4 \/ i = 5 \/ i = 6 \/ i = 7 \/ i = 8
      OBVIOUS
    <3> QED
      BY <1>3, <1>5, <1>8, <1>9, <3>1
  <2>2. \A S, v, w : v \in Seq(S) /\ w \in Seq(S) /\ Len(v) = 8 /\ Len(w) = 8
                     /\ (\A i \in 1 .. 8 : v[i] = w[i]) => v = w
    OBVIOUS
  <2> QED
    BY <1>3, <1>6, <1>7, <2>1, <2>2
<1> QED
  BY <1>10 DEF k, u, f, t

LEMMA KernelsThree ==
  ASSUME NEW p, NEW a, NEW b, NEW c, NEW d, NEW e, NEW x, NEW y, NEW z
  PROVE  <<p>> \o <<a, b, c, d, e>> \o <<x, y, z>> = <<p, a, b, c, d, e, x, y, z>>
<1> DEFINE C == {a, b, c, d, e}
           f == <<a, b, c, d, e>>
           T == {x, y, z}
           t == <<x, y, z>>
           k == <<p>> \o f \o t
           u == <<p, a, b, c, d, e, x, y, z>>
<1>1. f \in Seq(C) /\ Len(f) = 5 /\ f[1] = a /\ f[2] = b /\ f[3] = c /\ f[4] = d /\ f[5] = e
  OBVIOUS
<1>2. t \in Seq(T) /\ Len(t) = 3 /\ t[1] = x /\ t[2] = y /\ t[3] = z
  OBVIOUS
<1>3. /\ Len(u) = 9 /\ u[1] = p /\ u[2] = a /\ u[3] = b /\ u[4] = c /\ u[5] = d
      /\ u[6] = e /\ u[7] = x /\ u[8] = y /\ u[9] = z /\ u \in Seq({p} \cup C \cup T)
  OBVIOUS
<1> HIDE DEF f, t, C, T, u
<1>4. /\ Len(k) = 6 + Len(t)
      /\ k[1] = p
      /\ \A i \in 1 .. 5 : k[i + 1] = f[i]
      /\ \A i \in 1 .. Len(t) : k[i + 6] = t[i]
  <2>1. f \in Seq(C) /\ t \in Seq(T) /\ Len(f) = 5
    BY <1>1, <1>2
  <2> QED
    BY <2>1, KernelList, SMTT(60)
<1> HIDE DEF k
<1>5. /\ Len(k) = 6 + 3
      /\ k[1] = p
      /\ \A i \in 1 .. 5 : k[i + 1] = f[i]
      /\ \A i \in 1 .. 3 : k[i + 6] = t[i]
  BY <1>2, <1>4
<1> USE DEF k
<1>6. k \in Seq({p} \cup C \cup T)
  <2>1. \A S, v, w : v \in Seq(S) /\ w \in Seq(S) => v \o w \in Seq(S)
    OBVIOUS
  <2>2. f \in Seq({p} \cup C \cup T) /\ t \in Seq({p} \cup C \cup T) /\ <<p>> \in Seq({p} \cup C \cup T)
    BY <1>1, <1>2
  <2> QED
    BY <2>1, <2>2
<1> HIDE DEF k
<1>7. Len(k) = 9
  BY <1>5
<1>8. k[2] = a /\ k[3] = b /\ k[4] = c /\ k[5] = d /\ k[6] = e
  <2>1. k[1 + 1] = f[1] /\ k[2 + 1] = f[2] /\ k[3 + 1] = f[3] /\ k[4 + 1] = f[4] /\ k[5 + 1] = f[5]
    BY <1>5
  <2>2. 1 + 1 = 2 /\ 2 + 1 = 3 /\ 3 + 1 = 4 /\ 4 + 1 = 5 /\ 5 + 1 = 6
    OBVIOUS
  <2> QED
    BY <1>1, <2>1, <2>2
<1>9. k[7] = x /\ k[8] = y /\ k[9] = z
  <2>1. k[1 + 6] = t[1] /\ k[2 + 6] = t[2] /\ k[3 + 6] = t[3]
    BY <1>5
  <2>2. 1 + 6 = 7 /\ 2 + 6 = 8 /\ 3 + 6 = 9
    OBVIOUS
  <2> QED
    BY <1>2, <2>1, <2>2
<1>10. k = u
  <2>1. \A i \in 1 .. 9 : k[i] = u[i]
    <3>1. \A i \in 1 .. 9 : i = 1 \/ i = 2 \/ i = 3 \/ i = 4 \/ i = 5 \/ i = 6 \/ i = 7 \/ i = 8 \/ i = 9
      OBVIOUS
    <3> QED
      BY <1>3, <1>5, <1>8, <1>9, <3>1
  <2>2. \A S, v, w : v \in Seq(S) /\ w \in Seq(S) /\ Len(v) = 9 /\ Len(w) = 9
                     /\ (\A i \in 1 .. 9 : v[i] = w[i]) => v = w
    OBVIOUS
  <2> QED
    BY <1>3, <1>6, <1>7, <2>1, <2>2
<1> QED
  BY <1>10 DEF k, u, f, t

\* A slot that a kernel does not write keeps its contents; one that it writes
\* has what the kernel makes there, and perhaps a number that has overflowed.
LEMMA AfterFaultElsewhere ==
  ASSUME NEW memory, NEW kernel, NEW fault, NEW s \in DOMAIN memory, s \notin Written(kernel)
  PROVE  AfterFault(memory, kernel, fault)[s] = memory[s]
<1> DEFINE there == After(memory, kernel)
<1>1. there[s] = memory[s]
  BY AfterElsewhere
<1>2. fault.slot \in {r.slot : r \in kernel} => fault.slot # s
  BY DEF Written
<1>3. AfterFault(memory, kernel, fault) =
        IF fault.slot \in {r.slot : r \in kernel} /\ there[fault.slot][fault.mode] # {}
        THEN [there EXCEPT ![fault.slot][fault.mode] = @ \cup {NonFinite}] ELSE there
  BY DEF AfterFault, Overflowed
<1> HIDE DEF there
<1> QED
  BY <1>1, <1>2, <1>3

LEMMA AfterFaultAt ==
  ASSUME NEW memory, NEW kernel, NEW fault, NEW s \in DOMAIN memory, s \in Written(kernel),
         NEW m \in Modes
  PROVE  /\ After(memory, kernel)[s][m] \subseteq AfterFault(memory, kernel, fault)[s][m]
         /\ AfterFault(memory, kernel, fault)[s][m]
              \subseteq After(memory, kernel)[s][m] \cup {NonFinite}
         /\ fault.slot # s =>
              AfterFault(memory, kernel, fault)[s] = After(memory, kernel)[s]
<1> DEFINE there == After(memory, kernel)
           out == AfterFault(memory, kernel, fault)
           hit == fault.slot \in {r.slot : r \in kernel} /\ there[fault.slot][fault.mode] # {}
<1>1. s \in DOMAIN there /\ DOMAIN there[s] = Modes
  BY DEF After, Written
<1>2. out = IF hit THEN [there EXCEPT ![fault.slot][fault.mode] = @ \cup {NonFinite}]
            ELSE there
  BY DEF AfterFault, Overflowed
<1> HIDE DEF there, out, hit
<1>3. CASE ~hit
  BY <1>2, <1>3 DEF there, out
<1>4. CASE hit /\ fault.slot # s
  <2>1. out[s] = there[s]
    BY <1>1, <1>2, <1>4
  <2> QED
    BY <2>1, <1>4 DEF there, out
<1>5. CASE hit /\ fault.slot = s
  <2>1. out[s] = [there[s] EXCEPT ![fault.mode] = @ \cup {NonFinite}]
    BY <1>1, <1>2, <1>5
  <2>2. out[s][m] = there[s][m] \/ out[s][m] = there[s][m] \cup {NonFinite}
    BY <1>1, <2>1
  <2> QED
    BY <2>2, <1>5 DEF there, out
<1> QED
  BY <1>3, <1>4, <1>5

\* A kernel that keeps what is allowed adds its slots to those that hold nothing
\* else, where a number that overflows is allowed too.
LEMMA AfterFaultWithin ==
  ASSUME NEW memory, NEW kernel, NEW fault, NEW slots, NEW allowed,
         slots \subseteq DOMAIN memory, Written(kernel) \subseteq DOMAIN memory,
         Within(memory, slots, allowed), Keeps(kernel, slots, allowed),
         fault.slot \in Written(kernel) => \A m \in Modes : NonFinite \in allowed[fault.slot][m]
  PROVE  Within(AfterFault(memory, kernel, fault), slots \cup Written(kernel), allowed)
<1> DEFINE there == After(memory, kernel)
           out == AfterFault(memory, kernel, fault)
<1>1. Within(there, slots \cup Written(kernel), allowed)
  BY AfterWithin
<1> SUFFICES ASSUME NEW s \in slots \cup Written(kernel), NEW m \in Modes
             PROVE  out[s][m] \subseteq allowed[s][m]
  BY DEF Within
<1>2. there[s][m] \subseteq allowed[s][m]
  BY <1>1 DEF Within
<1>3. CASE s \notin Written(kernel)
  BY <1>2, <1>3, AfterFaultElsewhere, AfterElsewhere
<1>4. CASE s \in Written(kernel)
  <2>1. /\ out[s][m] \subseteq there[s][m] \cup {NonFinite}
        /\ fault.slot # s => out[s] = there[s]
    BY <1>4, AfterFaultAt
  <2> HIDE DEF out, there
  <2> QED
    BY <1>2, <1>4, <2>1
<1> QED
  BY <1>3, <1>4

\* What a kernel reads it hands on.
LEMMA AfterFaultHas ==
  ASSUME NEW memory, NEW kernel, NEW fault, NEW r \in kernel, r.slot \in DOMAIN memory,
         NEW q \in r.reads, NEW m \in Modes, NEW j \in memory[q.slot][q.sign * m]
  PROVE  Moved(j, r.raise - q.rate) \in AfterFault(memory, kernel, fault)[r.slot][m]
<1>1. r.slot \in Written(kernel)
  BY DEF Written
<1>2. Moved(j, r.raise - q.rate) \in After(memory, kernel)[r.slot][m]
  BY <1>1, AfterWritten
<1> QED
  BY <1>1, <1>2, AfterFaultAt

LEMMA RunFaultElsewhere ==
  ASSUME NEW memory, NEW kernels, NEW fault, Len(kernels) \in Nat, NEW slots,
         slots \subseteq DOMAIN memory,
         Spares(kernels, slots)
  PROVE  /\ DOMAIN RunFault(memory, kernels, fault) = DOMAIN memory
         /\ \A s \in slots : RunFault(memory, kernels, fault)[s] = memory[s]
<1>1. PICK d : /\ d[0] = memory
               /\ \A n \in 1 .. Len(kernels) : d[n] = AfterFault(d[n - 1], kernels[n], fault)
               /\ RunFault(memory, kernels, fault) = d[Len(kernels)]
  BY RunFaultSteps DEF FaultPasses
<1> DEFINE Same(n) == DOMAIN d[n] = DOMAIN memory /\ \A s \in slots : d[n][s] = memory[s]
           S == {n \in Nat : n <= Len(kernels) => Same(n)}
<1>2. 0 \in S
  BY <1>1
<1>3. ASSUME NEW n \in Nat, n \in S PROVE n + 1 \in S
  <2> SUFFICES ASSUME n + 1 <= Len(kernels) PROVE Same(n + 1)
    OBVIOUS
  <2>1. Same(n) /\ n + 1 \in 1 .. Len(kernels) /\ (n + 1) - 1 = n
    BY <1>3
  <2>2. d[n + 1] = AfterFault(d[n], kernels[n + 1], fault)
    BY <1>1, <2>1
  <2>3. \A s \in slots : s \notin Written(kernels[n + 1])
    BY <2>1 DEF Spares
  <2> QED
    BY <2>1, <2>2, <2>3, AfterFaultDomain, AfterFaultElsewhere
<1>4. Len(kernels) \in S
  <2> HIDE DEF S
  <2> QED
    BY <1>2, <1>3, Steps
<1> QED
  BY <1>1, <1>4

-----------------------------------------------------------------------------
(* What slots may hold of a stage.  A slot of the scratch that the three time *)
(* derivatives of the curvature share is ahead of its order by the level, a   *)
(* sum and all that is made of it comes from the modes that add up to the      *)
(* target or from their mirror images, and everything else from the mode or    *)
(* its own.                                                                 *)

LEMMA MovedInput ==
  ASSUME NEW f \in InputFields, NEW id, NEW n, NEW rate, NEW by
  PROVE  /\ Moved(InputOf(f, id, n, rate), by) = InputOf(f, id, n, rate + by)
         /\ InputOf(f, id, n, rate) # NonFinite
         /\ Moved(NonFinite, by) = NonFinite
<1>1. f \notin {"NonFinite", "OffBand", "Aliased"}
  BY DEF InputFields, ReconstructionFields
<1>2. InputOf(f, id, n, rate).field = f
  BY DEF InputOf
<1>3. InputOf(f, id, n, rate) \notin Marks
  BY <1>1, <1>2 DEF Marks, NonFinite, OffBand, Aliased, InputOf
<1>4. NonFinite \in Marks
  BY DEF Marks
<1>5. [InputOf(f, id, n, rate) EXCEPT !.rate = @ + by] = InputOf(f, id, n, rate + by)
  BY DEF InputOf
<1> QED
  BY <1>3, <1>4, <1>5 DEF Moved

LEMMA InAll ==
  ASSUME NEW op, NEW fields, NEW orders
  PROVE  /\ \A o, f, k : Quantity(o, f, k) \in All(op, fields, orders) <=>
                           o = op /\ f \in fields /\ k \in orders
         /\ \A q \in All(op, fields, orders) :
              \E f \in fields, k \in orders : q = Quantity(op, f, k)
<1>1. \A o, f, k : /\ Quantity(o, f, k).op = o
                   /\ Quantity(o, f, k).of = f
                   /\ Quantity(o, f, k).order = k
  BY DEF Quantity
<1>2. \A q : q \in All(op, fields, orders) <=>
               \E f \in fields, k \in orders : q = Quantity(op, f, k)
  <2> SUFFICES ASSUME NEW q
               PROVE  q \in All(op, fields, orders) <=>
                        \E f \in fields, k \in orders : q = Quantity(op, f, k)
    OBVIOUS
  <2>1. q \in All(op, fields, orders) <=>
          \E p \in fields \X orders : q = Quantity(op, p[1], p[2])
    BY DEF All
  <2>3. ASSUME NEW p \in fields \X orders, q = Quantity(op, p[1], p[2])
        PROVE  \E f \in fields, k \in orders : q = Quantity(op, f, k)
    <3>1. p[1] \in fields /\ p[2] \in orders
      OBVIOUS
    <3> QED
      BY <2>3, <3>1
  <2>4. ASSUME NEW f \in fields, NEW k \in orders, q = Quantity(op, f, k)
        PROVE  \E p \in fields \X orders : q = Quantity(op, p[1], p[2])
    <3>1. <<f, k>> \in fields \X orders /\ <<f, k>>[1] = f /\ <<f, k>>[2] = k
      OBVIOUS
    <3> DEFINE w == <<f, k>>
    <3>2. w \in fields \X orders /\ q = Quantity(op, w[1], w[2])
      BY <2>4, <3>1
    <3> HIDE DEF w
    <3> QED
      BY <3>2
  <2> QED
    BY <2>1, <2>3, <2>4
<1> QED
  BY <1>1, <1>2

LEMMA QuantityParts ==
  \A o, f, k : Quantity(o, f, k) = [op |-> o, of |-> f, order |-> k]
  BY DEF Quantity

LEMMA AllOrders ==
  ASSUME NEW op, NEW fields, NEW orders
  PROVE  \A q \in All(op, fields, orders) : q.order \in orders
  BY InAll, QuantityParts

LEMMA QuantityOrders ==
  /\ \A q \in ScratchQuantities : q.order \in 0 .. 2
  /\ \A q \in CurvatureQuantities : q.order \in 0 .. 2
  /\ \A q \in DerivativeQuantities : q.order \in 0 .. 2
  /\ \A q \in PrimitivesOwned \cup MetricDerivativesOwned \cup QQuantities : q.order \in 0 .. 2
  /\ \A q \in CurvaturePrimitives \cup Sums \cup Families \cup OuterQuantities
              \cup SourceQuantities : q.order \in 0 .. 2
<1>1. \A f \in DOMAIN PackedFrom : OrdersOf(f) \subseteq 0 .. 2
  BY DEF OrdersOf
<1>2. \A q \in UNION {All("value", {f}, OrdersOf(f)) : f \in DOMAIN PackedFrom} : q.order \in 0 .. 2
  <2> SUFFICES ASSUME NEW f \in DOMAIN PackedFrom, NEW q \in All("value", {f}, OrdersOf(f))
               PROVE  q.order \in 0 .. 2
    OBVIOUS
  <2>1. q.order \in OrdersOf(f)
    BY AllOrders
  <2> QED
    BY <1>1, <2>1
<1>3. 0 .. 1 \subseteq 0 .. 2 /\ 0 \in 0 .. 2
  OBVIOUS
<1>4. \A k \in 0 .. 1 : k \in 0 .. 2
  OBVIOUS
<1>5. \A q \in ScratchQuantities : q.order \in 0 .. 2
  BY <1>2, <1>3, AllOrders DEF ScratchQuantities
<1>6. \A q \in DerivativeQuantities : q.order \in 0 .. 2
  BY <1>3, AllOrders DEF DerivativeQuantities
<1>7. \A q \in PrimitivesOwned \cup MetricDerivativesOwned \cup QQuantities : q.order \in 0 .. 2
  BY <1>3, AllOrders, QuantityParts DEF PrimitivesOwned, MetricDerivativesOwned, QQuantities
<1>8. \A q \in CurvaturePrimitives \cup Sums \cup Families \cup OuterQuantities
              \cup SourceQuantities : q.order \in 0 .. 2
  BY <1>3, AllOrders, QuantityParts
  DEF CurvaturePrimitives, Sums, Families, OuterQuantities, SourceQuantities, Value
<1> QED
  BY <1>5, <1>6, <1>7, <1>8, AllOrders DEF CurvatureQuantities

LEMMA LiveOrders ==
  /\ \A s \in LiveSlots : s = <<s[1], s[2]>> /\ s[2].order \in 0 .. 4
  /\ <<>> \notin LiveSlots
<1>1. /\ 0 .. 2 \subseteq 0 .. 4 /\ 0 .. 1 \subseteq 0 .. 4 /\ {0} \subseteq 0 .. 4
      /\ 0 .. 4 \subseteq 0 .. 4
  OBVIOUS
<1>2. \A op, fields : \A q \in All(op, fields, 0 .. 4) \cup All(op, fields, 0 .. 2)
                                \cup All(op, fields, 0 .. 1) \cup All(op, fields, {0}) :
        q.order \in 0 .. 4
  BY <1>1, AllOrders
<1>3. ASSUME NEW v, NEW Q, \A q \in Q : q.order \in 0 .. 4, NEW s \in {v} \X Q
      PROVE  s = <<s[1], s[2]>> /\ s[2].order \in 0 .. 4 /\ s # <<>>
  BY <1>3
<1> DEFINE Good(S) == \A s \in S : s = <<s[1], s[2]>> /\ s[2].order \in 0 .. 4 /\ s # <<>>
<1>4. \A v, Q : (\A q \in Q : q.order \in 0 .. 4) => Good({v} \X Q)
  BY <1>3
<1> HIDE DEF Good
<1>5. \A S, T : Good(S) /\ Good(T) => Good(S \cup T)
  BY DEF Good
<1>6. \A v, w, Q : Good({v} \X Q) /\ Good({w} \X Q) => Good({v, w} \X Q)
  BY DEF Good
<1>7. Good(CurvatureSlots)
  <2>1. Good({"tower"} \X All("value", ReconstructionFields, 0 .. 4))
    BY <1>2, <1>4
  <2>2. Good({"curvatureScratch"} \X ScratchQuantities)
    BY <1>1, <1>4, QuantityOrders
  <2>3. Good({"profiles"} \X All("value", ProfileNames, 0 .. 2))
    BY <1>2, <1>4
  <2>4. Good({"curvature"} \X (CurvatureQuantities \cup All("dr", {"Z0", "Z1"}, 0 .. 1)))
    <3>1. \A q \in CurvatureQuantities \cup All("dr", {"Z0", "Z1"}, 0 .. 1) : q.order \in 0 .. 4
      BY <1>1, <1>2, QuantityOrders
    <3> QED
      BY <1>4, <3>1
  <2>5. Good({"derivatives"} \X DerivativeQuantities)
    BY <1>1, <1>4, QuantityOrders
  <2> QED
    BY <1>5, <2>1, <2>2, <2>3, <2>4, <2>5 DEF CurvatureSlots
<1>8. Good(PrimitiveSlots)
  <2>1. Good({"routeb"} \X All("value", ReconstructionFields, 0 .. 2))
    BY <1>2, <1>4
  <2>2. Good({"primitiveScratch"} \X ScratchQuantities)
    BY <1>1, <1>4, QuantityOrders
  <2>3. Good({"primitive"} \X PrimitivesOwned) /\ Good({"jk"} \X MetricDerivativesOwned)
        /\ Good({"q"} \X QQuantities)
    BY <1>1, <1>4, QuantityOrders
  <2> QED
    BY <1>5, <2>1, <2>2, <2>3 DEF PrimitiveSlots
<1>9. Good(SourceSlots)
  <2>1. Good({"primitive"} \X CurvaturePrimitives) /\ Good({"sums"} \X Sums)
        /\ Good({"families"} \X Families) /\ Good({"projected"} \X Sums)
        /\ Good({"outer"} \X OuterQuantities) /\ Good({"source"} \X SourceQuantities)
    BY <1>1, <1>4, QuantityOrders
  <2>2. Good({"jk"} \X TransportOwned)
    BY <1>1, <1>4, QuantityOrders DEF TransportOwned
  <2>3. Good({"forcing"} \X {Value("Forcing", 0)})
    <3>1. \A q \in {Value("Forcing", 0)} : q.order \in 0 .. 4
      BY <1>1, QuantityParts DEF Value
    <3> QED
      BY <1>4, <3>1
  <2> QED
    BY <1>5, <2>1, <2>2, <2>3 DEF SourceSlots
<1>10. Good(LinearSlots)
  <2>1. \A q \in All("value", MetricComponents, 0 .. 2) \cup All("dr", MetricComponents, 0 .. 1) \cup
                 All("dtheta", MetricComponents, 0 .. 1) \cup All("drr", MetricComponents, {0}) \cup
                 All("drdtheta", MetricComponents, {0}) \cup
                 All("dthetadtheta", MetricComponents, {0}) : q.order \in 0 .. 4
    BY <1>2
  <2>2. \A q \in {Value("psi0", 0), Value("zPlus", 0)} : q.order \in 0 .. 4
    BY <1>1, QuantityParts DEF Value
  <2> QED
    BY <1>4, <2>1, <2>2 DEF LinearSlots
<1>11. Good(GivenSlots)
  <2>1. Good({"givenMetric"} \X All("value", ReconstructionFields, 0 .. 2))
    BY <1>2, <1>4
  <2>2. Good({"givenCurvature"} \X CurvatureQuantities)
        /\ Good({"givenDerivatives"} \X DerivativeQuantities)
    BY <1>1, <1>4, QuantityOrders
  <2> QED
    BY <1>5, <2>1, <2>2 DEF GivenSlots
<1>12. Good(LiveSlots)
  BY <1>5, <1>7, <1>8, <1>9, <1>10, <1>11 DEF LiveSlots
<1> QED
  BY <1>12 DEF Good

LEMMA Mirrored ==
  ASSUME NEW m \in Modes
  PROVE  m \in Int /\ -m \in Modes /\ -(-m) = m /\ 1 * m = m /\ -1 * m = -m
  BY ModesAssumption

LEMMA FreshParts ==
  ASSUME NEW id, NEW level, NEW more, NEW s \in LiveSlots, NEW m \in Modes
  PROVE  \A i : i \in Fresh(id, level, more)[s][m] <=>
                  \/ i \in more
                  \/ \E f \in InputFields, n \in ModesAt(s[1], m) :
                       i = InputOf(f, id, n, RateOf(s, level))
  BY DEF Fresh, FreshAt

LEMMA FitsKeeps ==
  ASSUME NEW kernel, NEW known, NEW level \in 0 .. 2, Fits(kernel, known, level),
         known \subseteq LiveSlots, NEW id, NEW more \in Extra
  PROVE  Keeps(kernel, known, Fresh(id, level, more)) /\ Written(kernel) \subseteq LiveSlots
<1> DEFINE A == Fresh(id, level, more)
<1>1. Written(kernel) \subseteq LiveSlots
  BY DEF Fits
<1>0. \A s \in LiveSlots, m \in Modes : \A i : i \in A[s][m] <=>
                  \/ i \in more
                  \/ \E f \in InputFields, n \in ModesAt(s[1], m) :
                       i = InputOf(f, id, n, RateOf(s, level))
  BY FreshParts
<1> HIDE DEF A
<1> SUFFICES ASSUME NEW r \in kernel, NEW q \in r.reads, NEW m \in Modes
             PROVE  /\ q.slot \in known
                    /\ q.sign * m \in Modes
                    /\ \A i \in A[q.slot][q.sign * m] : Moved(i, r.raise - q.rate) \in A[r.slot][m]
  BY <1>1, ModesAssumption DEF Keeps, A
<1>2. /\ q.slot \in known /\ q.slot \in LiveSlots
      /\ q.sign \in {1, -1} /\ q.rate \in Int /\ r.raise \in Int
      /\ RateOf(q.slot, level) + r.raise - q.rate = RateOf(r.slot, level)
      /\ q.slot[1] \in SummedViews <=> r.slot[1] \in SummedViews
      /\ q.slot[1] \in SummedViews => q.sign = 1
  BY DEF Fits
<1>3. r.slot \in LiveSlots
  BY <1>1 DEF Written
<1>4. q.sign * m \in Modes /\ (q.sign = 1 => q.sign * m = m) /\ (q.sign = -1 => q.sign * m = -m)
      /\ -(-m) = m
  BY <1>2, Mirrored
<1>5. ModesAt(q.slot[1], q.sign * m) = ModesAt(r.slot[1], m)
  <2>1. CASE r.slot[1] \in SummedViews
    BY <1>2, <1>4, <2>1 DEF ModesAt
  <2>2. CASE r.slot[1] \notin SummedViews
    <3>1. {m, -m} = {q.sign * m, -(q.sign * m)}
      BY <1>2, <1>4
    <3> QED
      BY <1>2, <2>2, <3>1 DEF ModesAt
  <2> QED
    BY <2>1, <2>2
<1>6. RateOf(q.slot, level) \in Int
  <2>1. q.slot[2].order \in 0 .. 4
    BY <1>2, LiveOrders
  <2> QED
    BY <2>1 DEF RateOf
<1>7. RateOf(q.slot, level) + (r.raise - q.rate) = RateOf(r.slot, level)
  BY <1>2, <1>6
<1>8. ASSUME NEW i \in A[q.slot][q.sign * m] PROVE Moved(i, r.raise - q.rate) \in A[r.slot][m]
  <2>1. CASE i \in more
    <3>1. i = NonFinite
      BY <2>1 DEF Extra
    <3>2. Moved(i, r.raise - q.rate) = i
      BY <3>1, MovedInput DEF InputFields
    <3> QED
      BY <1>0, <1>3, <2>1, <3>2
  <2>2. CASE i \notin more
    <3>1. PICK f \in InputFields, n \in ModesAt(q.slot[1], q.sign * m) :
            i = InputOf(f, id, n, RateOf(q.slot, level))
      BY <1>0, <1>2, <1>4, <2>2
    <3>2. Moved(i, r.raise - q.rate) = InputOf(f, id, n, RateOf(r.slot, level))
      BY <1>7, <3>1, MovedInput
    <3> QED
      BY <1>0, <1>3, <1>5, <3>1, <3>2
  <2> QED
    BY <2>1, <2>2
<1> QED
  BY <1>2, <1>4, <1>8

LEMMA FitsWithin ==
  ASSUME NEW memory, DOMAIN memory = LiveSlots, NEW fault, NEW id, NEW more \in Extra,
         Spared(fault, more), NEW level \in 0 .. 2, NEW kernel, NEW known,
         known \subseteq LiveSlots, Fits(kernel, known, level),
         Within(memory, known, Fresh(id, level, more))
  PROVE  /\ DOMAIN AfterFault(memory, kernel, fault) = LiveSlots
         /\ known \cup Written(kernel) \subseteq LiveSlots
         /\ Within(AfterFault(memory, kernel, fault), known \cup Written(kernel),
                   Fresh(id, level, more))
<1>1. Keeps(kernel, known, Fresh(id, level, more)) /\ Written(kernel) \subseteq LiveSlots
  BY FitsKeeps
<1>2. fault.slot \in Written(kernel) =>
        \A m \in Modes : NonFinite \in Fresh(id, level, more)[fault.slot][m]
  <2> SUFFICES ASSUME fault.slot \in Written(kernel), NEW m \in Modes
               PROVE  NonFinite \in Fresh(id, level, more)[fault.slot][m]
    OBVIOUS
  <2>1. fault.slot \in LiveSlots /\ NonFinite \in more
    BY <1>1 DEF Spared
  <2> QED
    BY <2>1, FreshParts
<1> QED
  BY <1>1, <1>2, AfterFaultWithin, AfterFaultDomain

LEMMA WithinFewer ==
  ASSUME NEW memory, NEW slots, NEW fewer \in SUBSET slots, NEW allowed,
         Within(memory, slots, allowed)
  PROVE  Within(memory, fewer, allowed)
  BY DEF Within

\* Only the scratch has rates that depend on the level.
LEMMA FreshLevels ==
  ASSUME NEW memory, NEW slots \in SUBSET LiveSlots, NEW id, NEW more, NEW a, NEW b,
         \A s \in slots : s[1] # "curvatureScratch",
         Within(memory, slots, Fresh(id, a, more))
  PROVE  Within(memory, slots, Fresh(id, b, more))
<1>1. \A s \in slots : RateOf(s, a) = RateOf(s, b)
  BY DEF RateOf
<1>2. ASSUME NEW s \in slots, NEW m \in Modes
      PROVE  Fresh(id, a, more)[s][m] \subseteq Fresh(id, b, more)[s][m]
  <2>1. s \in LiveSlots /\ RateOf(s, a) = RateOf(s, b)
    BY <1>1
  <2> QED
    BY <2>1, FreshParts
<1> QED
  BY <1>2 DEF Within

LEMMA PutParts ==
  /\ \A v, op, f, k, reads :
       /\ Put(v, op, f, k, reads).slot = <<v, Quantity(op, f, k)>>
       /\ Put(v, op, f, k, reads).reads = reads
       /\ Put(v, op, f, k, reads).raise = k
  /\ \A v, op, f, k :
       /\ At(v, op, f, k).slot = <<v, Quantity(op, f, k)>>
       /\ At(v, op, f, k).sign = 1
       /\ At(v, op, f, k).rate = k
  BY DEF Put, At

LEMMA RateParts ==
  ASSUME NEW v, NEW op, NEW f, NEW k, NEW level
  PROVE  RateOf(<<v, Quantity(op, f, k)>>, level) = k + Ahead(v, level)
  BY QuantityParts DEF RateOf, Ahead

LEMMA PutsFit ==
  ASSUME NEW kernel, NEW from, NEW out, NEW known, NEW level \in 0 .. 2,
         PutsOf(kernel, from, out, known), Written(kernel) \subseteq LiveSlots,
         Ahead(from, level) = Ahead(out, level),
         from \in SummedViews <=> out \in SummedViews
  PROVE  Fits(kernel, known, level)
<1> SUFFICES ASSUME NEW r \in kernel, NEW q \in r.reads
             PROVE  /\ q.slot \in known
                    /\ q.sign \in {1, -1} /\ q.rate \in Int /\ r.raise \in Int
                    /\ RateOf(q.slot, level) + r.raise - q.rate = RateOf(r.slot, level)
                    /\ q.slot[1] \in SummedViews <=> r.slot[1] \in SummedViews
                    /\ q.slot[1] \in SummedViews => q.sign = 1
  BY DEF Fits
<1>1. PICK op, f : \E k \in 0 .. 4 : \E reads :
        /\ r = Put(out, op, f, k, reads)
        /\ \A p \in reads : \E o, g : \E j \in 0 .. 4 :
             p = At(from, o, g, j) /\ <<from, Quantity(o, g, j)>> \in known
  BY DEF PutsOf
<1>2. PICK k \in 0 .. 4 : \E reads :
        /\ r = Put(out, op, f, k, reads)
        /\ \A p \in reads : \E o, g : \E j \in 0 .. 4 :
             p = At(from, o, g, j) /\ <<from, Quantity(o, g, j)>> \in known
  BY <1>1
<1>3. PICK reads :
        /\ r = Put(out, op, f, k, reads)
        /\ \A p \in reads : \E o, g : \E j \in 0 .. 4 :
             p = At(from, o, g, j) /\ <<from, Quantity(o, g, j)>> \in known
  BY <1>2
<1>4. r.slot = <<out, Quantity(op, f, k)>> /\ r.raise = k /\ r.reads = reads
  BY <1>3, PutParts
<1>5. PICK o, g : \E j \in 0 .. 4 : q = At(from, o, g, j) /\ <<from, Quantity(o, g, j)>> \in known
  BY <1>3, <1>4
<1>6. PICK j \in 0 .. 4 : q = At(from, o, g, j) /\ <<from, Quantity(o, g, j)>> \in known
  BY <1>5
<1>7. q.slot = <<from, Quantity(o, g, j)>> /\ q.sign = 1 /\ q.rate = j
  BY <1>6, PutParts
<1>8. RateOf(q.slot, level) = j + Ahead(out, level) /\ RateOf(r.slot, level) = k + Ahead(out, level)
  BY <1>4, <1>7, RateParts
<1>9. Ahead(out, level) \in Int
  BY DEF Ahead
<1>10. RateOf(q.slot, level) + r.raise - q.rate = RateOf(r.slot, level)
  BY <1>4, <1>7, <1>8, <1>9
<1> QED
  BY <1>4, <1>6, <1>7, <1>10

LEMMA PutAllFit ==
  ASSUME NEW kernel, NEW from, NEW out, NEW op, NEW fields, NEW orders \in SUBSET (0 .. 2),
         NEW known, PutsAll(kernel, from, out, op, fields, orders, known),
         NEW level \in 0 .. 2,
         Places(out, op, fields, orders) \subseteq LiveSlots,
         Ahead(from, level) = Ahead(out, level),
         from \in SummedViews <=> out \in SummedViews
  PROVE  /\ Fits(kernel, known, level)
         /\ Written(kernel) = Places(out, op, fields, orders)
<1>1. orders \subseteq 0 .. 2 /\ 0 .. 2 \subseteq 0 .. 4
  OBVIOUS
<1>2. \A p \in fields \X orders : p[1] \in fields /\ p[2] \in orders
  OBVIOUS
<1>3. PutsOf(kernel, from, out, known)
  <2> SUFFICES ASSUME NEW r \in kernel
               PROVE  \E o, f : \E k \in 0 .. 4 : \E reads :
                        /\ r = Put(out, o, f, k, reads)
                        /\ \A q \in reads : KnownRead(q, from, known)
    BY DEF PutsOf, KnownRead
  <2>1. PICK p \in fields \X orders : \E reads :
          /\ r = Put(out, op, p[1], p[2], reads)
          /\ \A q \in reads : KnownRead(q, from, known)
    BY DEF PutsAll
  <2>2. p[2] \in 0 .. 4
    BY <1>1, <1>2
  <2> QED
    BY <2>1, <2>2
<1>4. Written(kernel) = Places(out, op, fields, orders)
  <2>1. \A s : s \in Written(kernel) <=> \E r \in kernel : s = r.slot
    BY DEF Written
  <2>2. \A q : q \in All(op, fields, orders) <=> \E p \in fields \X orders : q = Quantity(op, p[1], p[2])
    BY DEF All
  <2>3. ASSUME NEW s \in Written(kernel) PROVE s \in Places(out, op, fields, orders)
    <3>1. PICK r \in kernel : s = r.slot
      BY <2>1
    <3>2. PICK p \in fields \X orders : \E reads :
            /\ r = Put(out, op, p[1], p[2], reads)
            /\ \A q \in reads : KnownRead(q, from, known)
      BY DEF PutsAll
    <3>3. s = <<out, Quantity(op, p[1], p[2])>>
      BY <3>1, <3>2, PutParts
    <3> QED
      BY <2>2, <3>3 DEF Places
  <2>4. ASSUME NEW s \in Places(out, op, fields, orders) PROVE s \in Written(kernel)
    <3>1. s = <<out, s[2]>> /\ s[2] \in All(op, fields, orders)
      BY DEF Places
    <3>2. PICK p \in fields \X orders : s[2] = Quantity(op, p[1], p[2])
      BY <2>2, <3>1
    <3>3. \E r \in kernel : r.slot = s
      BY <3>1, <3>2 DEF PutsAll
    <3> QED
      BY <2>1, <3>3
  <2> QED
    BY <2>3, <2>4
<1>5. Written(kernel) \subseteq LiveSlots
  BY <1>4
<1> QED
  BY <1>3, <1>5, <1>4, PutsFit

\* A kernel given by the reads R[p] of its results has them.
LEMMA PutsAllOf ==
  ASSUME NEW kernel, NEW from, NEW out, NEW op, NEW fields, NEW orders, NEW known, NEW R,
         \A r : r \in kernel <=> \E p \in fields \X orders : r = Put(out, op, p[1], p[2], R[p]),
         \A p \in fields \X orders : \A q \in R[p] : KnownRead(q, from, known)
  PROVE  PutsAll(kernel, from, out, op, fields, orders, known)
  BY PutParts DEF PutsAll

LEMMA RadialFits ==
  ASSUME NEW view, NEW fields, NEW orders \in SUBSET (0 .. 2), NEW known, NEW level \in 0 .. 2,
         Has(known, view, "value", fields, orders),
         Places(view, "dr", fields, orders) \subseteq LiveSlots
  PROVE  /\ Fits(Radial(view, fields, orders), known, level)
         /\ Written(Radial(view, fields, orders)) = Places(view, "dr", fields, orders)
<1> DEFINE R == [p \in fields \X orders |-> {At(view, "value", p[1], p[2])}]
<1>1. \A r : r \in Radial(view, fields, orders) <=>
               \E p \in fields \X orders : r = Put(view, "dr", p[1], p[2], R[p])
  BY DEF Radial
<1>2. ASSUME NEW f \in fields, NEW k \in orders, NEW q \in R[<<f, k>>]
      PROVE  KnownRead(q, view, known)
  <2>1. q = At(view, "value", f, k) /\ k \in 0 .. 4
    OBVIOUS
  <2>2. <<view, Quantity("value", f, k)>> \in known
    BY DEF Has
  <2> QED
    BY <2>1, <2>2 DEF KnownRead
<1> HIDE DEF R
<1>3. \A p \in fields \X orders : \A q \in R[p] : KnownRead(q, view, known)
  <2>1. \A p \in fields \X orders : p[1] \in fields /\ p[2] \in orders /\ p = <<p[1], p[2]>>
    OBVIOUS
  <2> QED
    BY <1>2, <2>1
<1>4. PutsAll(Radial(view, fields, orders), view, view, "dr", fields, orders, known)
  BY <1>1, <1>3, PutsAllOf
<1> QED
  BY <1>4, PutAllFit

LEMMA AngularFits ==
  ASSUME NEW view, NEW op, NEW fields, NEW orders \in SUBSET (0 .. 2), NEW known,
         NEW level \in 0 .. 2,
         Has(known, view, "value", fields, orders),
         Has(known, view, "value", fields, Later(orders)),
         Places(view, op, fields, orders) \subseteq LiveSlots
  PROVE  /\ Fits(Angular(view, op, fields, orders), known, level)
         /\ Written(Angular(view, op, fields, orders)) = Places(view, op, fields, orders)
<1>0. \A k \in orders : k \in 0 .. 4 /\ k + 1 \in 0 .. 4
  <2>1. \A k \in 0 .. 2 : k \in 0 .. 4 /\ k + 1 \in 0 .. 4
    OBVIOUS
  <2>2. orders \subseteq 0 .. 2
    OBVIOUS
  <2> QED
    BY <2>1, <2>2
<1> DEFINE R == [p \in fields \X orders |-> WithRate(view, p[1], p[2])]
<1>1. \A r : r \in Angular(view, op, fields, orders) <=>
               \E p \in fields \X orders : r = Put(view, op, p[1], p[2], R[p])
  BY DEF Angular
<1>2. ASSUME NEW f \in fields, NEW k \in orders, NEW q \in R[<<f, k>>]
      PROVE  KnownRead(q, view, known)
  <2>0. k \in 0 .. 4 /\ k + 1 \in 0 .. 4
    BY <1>0
  <2>1. q \in WithRate(view, f, k)
    OBVIOUS
  <2>2. <<view, Quantity("value", f, k)>> \in known /\ <<view, Quantity("value", f, k + 1)>> \in known
    BY DEF Has, Later
  <2> QED
    BY <2>0, <2>1, <2>2 DEF KnownRead, WithRate
<1> HIDE DEF R
<1>3. \A p \in fields \X orders : \A q \in R[p] : KnownRead(q, view, known)
  <2>1. \A p \in fields \X orders : p[1] \in fields /\ p[2] \in orders /\ p = <<p[1], p[2]>>
    OBVIOUS
  <2> QED
    BY <1>2, <2>1
<1>4. PutsAll(Angular(view, op, fields, orders), view, view, op, fields, orders, known)
  BY <1>1, <1>3, PutsAllOf
<1> QED
  BY <1>4, PutAllFit

LEMMA AdvectedFits ==
  ASSUME NEW view, NEW op, NEW fields, NEW orders \in SUBSET (0 .. 2), NEW known,
         NEW level \in 0 .. 2,
         Has(known, view, "value", fields, orders),
         Has(known, view, "value", fields, Later(orders)),
         Has(known, view, "dr", fields, orders),
         Places(view, op, fields, orders) \subseteq LiveSlots
  PROVE  /\ Fits(Advected(view, op, fields, orders), known, level)
         /\ Written(Advected(view, op, fields, orders)) = Places(view, op, fields, orders)
<1>0. \A k \in orders : k \in 0 .. 4 /\ k + 1 \in 0 .. 4
  <2>1. \A k \in 0 .. 2 : k \in 0 .. 4 /\ k + 1 \in 0 .. 4
    OBVIOUS
  <2>2. orders \subseteq 0 .. 2
    OBVIOUS
  <2> QED
    BY <2>1, <2>2
<1> DEFINE R == [p \in fields \X orders |->
                   WithRate(view, p[1], p[2]) \cup {At(view, "dr", p[1], p[2])}]
<1>1. \A r : r \in Advected(view, op, fields, orders) <=>
               \E p \in fields \X orders : r = Put(view, op, p[1], p[2], R[p])
  BY DEF Advected
<1>2. ASSUME NEW f \in fields, NEW k \in orders, NEW q \in R[<<f, k>>]
      PROVE  KnownRead(q, view, known)
  <2>1. /\ q \in WithRate(view, f, k) \cup {At(view, "dr", f, k)}
        /\ k \in 0 .. 4 /\ k + 1 \in 0 .. 4
    <3>1. k \in 0 .. 4 /\ k + 1 \in 0 .. 4
      BY <1>0
    <3>2. q \in WithRate(view, f, k) \cup {At(view, "dr", f, k)}
      OBVIOUS
    <3> QED
      BY <3>1, <3>2
  <2>2. /\ <<view, Quantity("value", f, k)>> \in known
        /\ <<view, Quantity("value", f, k + 1)>> \in known
        /\ <<view, Quantity("dr", f, k)>> \in known
    BY DEF Has, Later
  <2> QED
    BY <2>1, <2>2 DEF KnownRead, WithRate
<1> HIDE DEF R
<1>3. \A p \in fields \X orders : \A q \in R[p] : KnownRead(q, view, known)
  <2>1. \A p \in fields \X orders : p[1] \in fields /\ p[2] \in orders /\ p = <<p[1], p[2]>>
    OBVIOUS
  <2> QED
    BY <1>2, <2>1
<1>4. PutsAll(Advected(view, op, fields, orders), view, view, op, fields, orders, known)
  BY <1>1, <1>3, PutsAllOf
<1> QED
  BY <1>4, PutAllFit

\* Several kernels launched as one, and what is known stays known.
LEMMA FitsBoth ==
  ASSUME NEW a, NEW b, NEW known, NEW level, Fits(a, known, level), Fits(b, known, level)
  PROVE  /\ Fits(a \cup b, known, level)
         /\ Written(a \cup b) = Written(a) \cup Written(b)
<1>1. Written(a \cup b) = Written(a) \cup Written(b)
  BY DEF Written
<1> QED
  BY <1>1 DEF Fits

-----------------------------------------------------------------------------
(* The kernels up to the connection *)

LEMMA ScratchPlaces ==
  ASSUME NEW s \in Scratches
  PROVE  {s} \X ScratchQuantities \subseteq LiveSlots
  BY DEF Scratches, LiveSlots, CurvatureSlots, PrimitiveSlots

LEMMA HasMore ==
  ASSUME NEW known, NEW more, known \subseteq more, NEW view, NEW op, NEW fields, NEW orders,
         Has(known, view, op, fields, orders)
  PROVE  Has(more, view, op, fields, orders)
  BY DEF Has

LEMMA HasPlaces ==
  ASSUME NEW known, NEW view, NEW op, NEW fields, NEW orders,
         Places(view, op, fields, orders) \subseteq known
  PROVE  Has(known, view, op, fields, orders)
  BY InAll DEF Has, Places

LEMMA FitsGated ==
  ASSUME NEW ready \in BOOLEAN, NEW kernel, NEW known, NEW level, Fits(kernel, known, level),
         \A r \in kernel : r = [slot |-> r.slot, reads |-> r.reads, raise |-> r.raise]
  PROVE  /\ Fits(Gated(ready, kernel), known, level)
         /\ Written(Gated(ready, kernel)) = Written(kernel)
<1>1. /\ ready => Gated(ready, kernel) = kernel
      /\ ~ready => \A r \in Gated(ready, kernel) : r.reads = {}
      /\ Written(Gated(ready, kernel)) = Written(kernel)
  BY GatedKernel
<1>2. CASE ready
  BY <1>1, <1>2
<1>3. CASE ~ready
  BY <1>1, <1>3 DEF Fits
<1> QED
  BY <1>1, <1>2, <1>3

LEMMA PackParts ==
  ASSUME NEW s, NEW in, NEW first
  PROVE  /\ \A r \in Pack(s, in, first) :
              \E f \in DOMAIN PackedFrom \cup DOMAIN SharpFrom, g \in ReconstructionFields,
                 k \in 0 .. 2, sign \in {1, -1} :
                /\ r = Put(s, "value", f, k, PackRead(in, g, first + k, k, sign))
                /\ f \in {"H", "Pi"} => k \in 0 .. 1
         /\ \A f \in DOMAIN PackedFrom, k \in 0 .. 2 : k \in OrdersOf(f) =>
              Put(s, "value", f, k, PackRead(in, PackedFrom[f], first + k, k, 1))
                \in Pack(s, in, first)
         /\ \A f \in DOMAIN SharpFrom, k \in 0 .. 2 :
              Put(s, "value", f, k, PackRead(in, SharpFrom[f], first + k, k, -1))
                \in Pack(s, in, first)
<1> DEFINE Read(f, k, sign) == PackRead(in, f, first + k, k, sign)
           own   == UNION {{f} \X OrdersOf(f) : f \in DOMAIN PackedFrom}
           sharp == (DOMAIN SharpFrom) \X (0 .. 2)
           A == {Put(s, "value", p[1], p[2], Read(PackedFrom[p[1]], p[2], 1)) : p \in own}
           B == {Put(s, "value", p[1], p[2], Read(SharpFrom[p[1]], p[2], -1)) : p \in sharp}
<1>1. Pack(s, in, first) = A \cup B
  BY DEF Pack, PackRead
<1>2. \A p : p \in own <=> \E f \in DOMAIN PackedFrom : p \in {f} \X OrdersOf(f)
  OBVIOUS
<1> HIDE DEF own
<1>3. \A p \in own : /\ p[1] \in DOMAIN PackedFrom /\ p[2] \in OrdersOf(p[1])
  BY <1>2
<1>4. \A f \in DOMAIN PackedFrom : \A k \in OrdersOf(f) : <<f, k>> \in own
  BY <1>2
<1>5. \A f \in DOMAIN PackedFrom : PackedFrom[f] \in ReconstructionFields
  BY DEF PackedFrom, ReconstructionFields
<1>6. \A f \in DOMAIN SharpFrom : SharpFrom[f] \in ReconstructionFields /\ f \notin {"H", "Pi"}
  BY DEF SharpFrom, ReconstructionFields
<1>7. \A f : OrdersOf(f) \subseteq 0 .. 2 /\ (f \in {"H", "Pi"} => OrdersOf(f) = 0 .. 1)
  BY DEF OrdersOf
<1> HIDE DEF Read
<1>8. ASSUME NEW r \in A
      PROVE  \E f \in DOMAIN PackedFrom \cup DOMAIN SharpFrom, g \in ReconstructionFields,
                k \in 0 .. 2, sign \in {1, -1} :
               /\ r = Put(s, "value", f, k, Read(g, k, sign))
               /\ f \in {"H", "Pi"} => k \in 0 .. 1
  <2>1. PICK p \in own : r = Put(s, "value", p[1], p[2], Read(PackedFrom[p[1]], p[2], 1))
    OBVIOUS
  <2>2. p[1] \in DOMAIN PackedFrom /\ p[2] \in 0 .. 2 /\ (p[1] \in {"H", "Pi"} => p[2] \in 0 .. 1)
    BY <1>3, <1>7
  <2> QED
    BY <1>5, <2>1, <2>2
<1>9. ASSUME NEW r \in B
      PROVE  \E f \in DOMAIN PackedFrom \cup DOMAIN SharpFrom, g \in ReconstructionFields,
                k \in 0 .. 2, sign \in {1, -1} :
               /\ r = Put(s, "value", f, k, Read(g, k, sign))
               /\ f \in {"H", "Pi"} => k \in 0 .. 1
  <2>1. PICK p \in sharp : r = Put(s, "value", p[1], p[2], Read(SharpFrom[p[1]], p[2], -1))
    OBVIOUS
  <2>2. p[1] \in DOMAIN SharpFrom /\ p[2] \in 0 .. 2
    OBVIOUS
  <2> QED
    BY <1>6, <2>1, <2>2
<1>10. ASSUME NEW f \in DOMAIN PackedFrom, NEW k \in OrdersOf(f)
       PROVE  Put(s, "value", f, k, Read(PackedFrom[f], k, 1)) \in A
  <2> DEFINE p == <<f, k>>
  <2>1. p \in own /\ p[1] = f /\ p[2] = k
    BY <1>4
  <2> HIDE DEF p
  <2> QED
    BY <2>1
<1>11. ASSUME NEW f \in DOMAIN SharpFrom, NEW k \in 0 .. 2
       PROVE  Put(s, "value", f, k, Read(SharpFrom[f], k, -1)) \in B
  <2> DEFINE p == <<f, k>>
  <2>1. p \in sharp /\ p[1] = f /\ p[2] = k
    OBVIOUS
  <2> HIDE DEF p, sharp
  <2> QED
    BY <2>1
<1> HIDE DEF A, B
<1> QED
  BY <1>1, <1>8, <1>9, <1>10, <1>11 DEF Read

LEMMA PackFits ==
  ASSUME NEW s \in Scratches, NEW in \in {"tower", "routeb", "givenMetric"}, NEW level \in 0 .. 2,
         NEW first, first = Ahead(s, level), NEW known, Packable(known, in, first),
         NEW ready \in BOOLEAN
  PROVE  /\ Fits(Gated(ready, Pack(s, in, first)), known, level)
         /\ Packed(Written(Gated(ready, Pack(s, in, first))), s)
<1> DEFINE kernel == Pack(s, in, first)
<1>0. first \in Int
  BY DEF Ahead
<1>1. ASSUME NEW r \in kernel
      PROVE  \E f \in DOMAIN PackedFrom \cup DOMAIN SharpFrom, k \in 0 .. 2 :
               /\ r.slot = <<s, Quantity("value", f, k)>> /\ r.raise = k
               /\ f \in {"H", "Pi"} => k \in 0 .. 1
               /\ \A q \in r.reads : \E g \in ReconstructionFields :
                    /\ q.slot = <<in, Quantity("value", g, first + k)>>
                    /\ q.sign \in {1, -1} /\ q.rate = k
               /\ r = [slot |-> r.slot, reads |-> r.reads, raise |-> r.raise]
  <2>1. PICK f \in DOMAIN PackedFrom \cup DOMAIN SharpFrom, g \in ReconstructionFields,
             k \in 0 .. 2, sign \in {1, -1} :
               /\ r = Put(s, "value", f, k, PackRead(in, g, first + k, k, sign))
               /\ f \in {"H", "Pi"} => k \in 0 .. 1
    BY PackParts
  <2>2. /\ r.slot = <<s, Quantity("value", f, k)>> /\ r.raise = k
        /\ r.reads = PackRead(in, g, first + k, k, sign)
        /\ r = [slot |-> r.slot, reads |-> r.reads, raise |-> r.raise]
    BY <2>1 DEF Put
  <2>3. \A q \in r.reads : /\ q.slot = <<in, Quantity("value", g, first + k)>>
                           /\ q.sign = sign /\ q.rate = k
    BY <2>2 DEF Value, PackRead
  <2> QED
    BY <2>1, <2>2, <2>3
<1>2. Written(kernel) \subseteq LiveSlots
  <2> SUFFICES ASSUME NEW r \in kernel PROVE r.slot \in LiveSlots
    BY DEF Written
  <2>1. PICK f \in DOMAIN PackedFrom \cup DOMAIN SharpFrom, k \in 0 .. 2 :
          r.slot = <<s, Quantity("value", f, k)>> /\ (f \in {"H", "Pi"} => k \in 0 .. 1)
    BY <1>1
  <2>2. Quantity("value", f, k) \in ScratchQuantities
    <3>1. CASE f \in DOMAIN SharpFrom
      BY <3>1, InAll DEF ScratchQuantities
    <3>2. CASE f \in DOMAIN PackedFrom
      <4>1. k \in OrdersOf(f)
        BY <2>1 DEF OrdersOf
      <4>2. Quantity("value", f, k) \in All("value", {f}, OrdersOf(f))
        BY <4>1, InAll
      <4> QED
        BY <3>2, <4>2 DEF ScratchQuantities
    <3> QED
      BY <3>1, <3>2
  <2> QED
    BY <2>1, <2>2, ScratchPlaces
<1>3. s \notin SummedViews /\ in \notin SummedViews /\ in # "curvatureScratch"
  BY DEF Scratches, SummedViews
<1>4. Fits(kernel, known, level)
  <2> SUFFICES ASSUME NEW r \in kernel, NEW q \in r.reads
               PROVE  /\ q.slot \in known
                      /\ q.sign \in {1, -1} /\ q.rate \in Int /\ r.raise \in Int
                      /\ RateOf(q.slot, level) + r.raise - q.rate = RateOf(r.slot, level)
                      /\ q.slot[1] \in SummedViews <=> r.slot[1] \in SummedViews
                      /\ q.slot[1] \in SummedViews => q.sign = 1
    BY <1>2 DEF Fits
  <2>1. PICK f \in DOMAIN PackedFrom \cup DOMAIN SharpFrom, k \in 0 .. 2 :
               /\ r.slot = <<s, Quantity("value", f, k)>> /\ r.raise = k
               /\ \A p \in r.reads : \E g \in ReconstructionFields :
                    /\ p.slot = <<in, Quantity("value", g, first + k)>>
                    /\ p.sign \in {1, -1} /\ p.rate = k
    BY <1>1
  <2>2. PICK g \in ReconstructionFields :
                    /\ q.slot = <<in, Quantity("value", g, first + k)>>
                    /\ q.sign \in {1, -1} /\ q.rate = k
    BY <2>1
  <2>3. /\ RateOf(q.slot, level) = first + k + Ahead(in, level)
        /\ RateOf(r.slot, level) = k + first
    BY <2>1, <2>2, RateParts
  <2>4. Ahead(in, level) = 0
    BY <1>3 DEF Ahead
  <2>5. RateOf(q.slot, level) + r.raise - q.rate = RateOf(r.slot, level)
    BY <1>0, <2>1, <2>2, <2>3, <2>4
  <2>6. q.slot \in known
    BY <2>2 DEF Packable
  <2>7. q.slot[1] = in /\ r.slot[1] = s
    BY <2>1, <2>2
  <2> QED
    BY <1>3, <2>1, <2>2, <2>5, <2>6, <2>7
<1>5. Packed(Written(kernel), s)
  <2>1. ASSUME NEW f \in DOMAIN PackedFrom, NEW k \in OrdersOf(f)
        PROVE  <<s, Quantity("value", f, k)>> \in Written(kernel)
    <3>1. k \in 0 .. 2
      BY DEF OrdersOf
    <3>2. Put(s, "value", f, k, PackRead(in, PackedFrom[f], first + k, k, 1)) \in kernel
      BY <3>1, PackParts
    <3> QED
      BY <3>2, PutParts DEF Written
  <2>2. ASSUME NEW f \in DOMAIN SharpFrom, NEW k \in 0 .. 2
        PROVE  <<s, Quantity("value", f, k)>> \in Written(kernel)
    <3>1. Put(s, "value", f, k, PackRead(in, SharpFrom[f], first + k, k, -1)) \in kernel
      BY PackParts
    <3> QED
      BY <3>1, PutParts DEF Written
  <2>3. /\ \A f \in {"H", "Pi"} : f \in DOMAIN PackedFrom /\ OrdersOf(f) = 0 .. 1
        /\ \A f \in {"U", "C", "B", "V"} : f \in DOMAIN PackedFrom /\ OrdersOf(f) = 0 .. 2
        /\ \A f \in {"USharp", "CSharp", "BSharp", "VSharp"} : f \in DOMAIN SharpFrom
    BY DEF PackedFrom, SharpFrom, OrdersOf
  <2> HIDE DEF kernel
  <2> QED
    BY <2>1, <2>2, <2>3 DEF Packed, Has
<1>6. \A r \in kernel : r = [slot |-> r.slot, reads |-> r.reads, raise |-> r.raise]
  BY <1>1
<1> HIDE DEF kernel
<1>7. /\ Fits(Gated(ready, kernel), known, level)
      /\ Written(Gated(ready, kernel)) = Written(kernel)
  BY <1>4, <1>6, FitsGated
<1> QED
  BY <1>5, <1>7 DEF kernel

LEMMA PackedMore ==
  ASSUME NEW known, NEW more, known \subseteq more, NEW s
  PROVE  /\ Packed(known, s) => Packed(more, s)
         /\ MetricDerived(known, s) => MetricDerived(more, s)
         /\ Connected(known, s) => Connected(more, s)
<1>1. \A op, fields, orders : Has(known, s, op, fields, orders) => Has(more, s, op, fields, orders)
  BY HasMore
<1> QED
  BY <1>1 DEF Packed, MetricDerived, Connected

LEMMA ConnectionReadsKnown ==
  ASSUME NEW known, NEW s, MetricDerived(known, s)
  PROVE  \A f \in DOMAIN ConnectionReads, k \in 0 .. 1 : \A q \in ConnectionReads[f] :
           <<s, Quantity(q[1], q[2], k)>> \in known
<1> SUFFICES ASSUME NEW f \in DOMAIN ConnectionReads, NEW k \in 0 .. 1
             PROVE  \A q \in ConnectionReads[f] : <<s, Quantity(q[1], q[2], k)>> \in known
  OBVIOUS
<1> DEFINE K(op, g) == <<s, Quantity(op, g, k)>> \in known
<1>0. k \in 0 .. 2
  OBVIOUS
<1>1. /\ K("value", "H") /\ K("value", "Pi")
      /\ \A g \in {"U", "C", "B", "V", "USharp", "CSharp", "BSharp", "VSharp"} : K("value", g)
      /\ \A g \in {"V", "C", "B"} : K("eth", g)
      /\ \A g \in {"CSharp", "BSharp"} : K("ethprime", g)
      /\ \A g \in {"BSharp", "CSharp"} : K("thorn", g)
      /\ \A g \in {"CSharp", "C", "V", "VSharp"} : K("delta", g)
  BY <1>0 DEF MetricDerived, Packed, Has
<1>2. \A q : <<q[1], q[2]>> = q /\ K(q[1], q[2]) => <<s, Quantity(q[1], q[2], k)>> \in known
  OBVIOUS
<1> DEFINE Fine(Q) == \A q \in Q : K(q[1], q[2])
<1>3. \A op, g : <<op, g>>[1] = op /\ <<op, g>>[2] = g
  OBVIOUS
<1> HIDE DEF K
<1>4. CASE f = "Sig"
  <2>1. ConnectionReads[f] = {<<"thorn", "BSharp">>, <<"value", "BSharp">>, <<"value", "CSharp">>}
    BY <1>4 DEF ConnectionReads
  <2> QED
    BY <1>1, <1>3, <2>1 DEF K
<1>5. CASE f = "Kap"
  <2>1. ConnectionReads[f] =
          {<<"thorn", "CSharp">>, <<"value", "CSharp">>, <<"eth", "V">>, <<"value", "V">>}
    BY <1>5 DEF ConnectionReads
  <2> QED
    BY <1>1, <1>3, <2>1 DEF K
<1>6. CASE f = "Rh"
  <2>1. ConnectionReads[f] =
          {<<"value", "U">>, <<"ethprime", "CSharp">>, <<"eth", "C">>,
             <<"value", "CSharp">>, <<"value", "C">>}
    BY <1>6 DEF ConnectionReads
  <2> QED
    BY <1>1, <1>3, <2>1 DEF K
<1>7. CASE f = "Ta"
  <2>1. ConnectionReads[f] =
          {<<"delta", "CSharp">>, <<"value", "CSharp">>, <<"value", "BSharp">>}
    BY <1>7 DEF ConnectionReads
  <2> QED
    BY <1>1, <1>3, <2>1 DEF K
<1>8. CASE f = "Al"
  <2>1. ConnectionReads[f] =
          {<<"delta", "C">>, <<"value", "C">>, <<"eth", "B">>, <<"value", "B">>}
    BY <1>8 DEF ConnectionReads
  <2> QED
    BY <1>1, <1>3, <2>1 DEF K
<1>9. CASE f = "Be"
  <2>1. ConnectionReads[f] =
          {<<"delta", "CSharp">>, <<"value", "CSharp">>, <<"ethprime", "BSharp">>,
             <<"value", "BSharp">>}
    BY <1>9 DEF ConnectionReads
  <2> QED
    BY <1>1, <1>3, <2>1 DEF K
<1>10. CASE f = "Ep"
  <2>1. ConnectionReads[f] =
          {<<"delta", "V">>, <<"eth", "C">>, <<"ethprime", "CSharp">>, <<"value", "V">>,
             <<"value", "C">>, <<"value", "CSharp">>}
    BY <1>10 DEF ConnectionReads
  <2> QED
    BY <1>1, <1>3, <2>1 DEF K
<1>11. CASE f \in {"H", "Pi", "V", "C", "B"}
  <2>1. ConnectionReads[f] = {<<"value", f>>}
    BY <1>11 DEF ConnectionReads
  <2> QED
    BY <1>1, <1>3, <1>11, <2>1 DEF K
<1> QED
  BY <1>4, <1>5, <1>6, <1>7, <1>8, <1>9, <1>10, <1>11 DEF ConnectionReads

LEMMA ConnectionsFit ==
  ASSUME NEW s \in Scratches, NEW out, NEW names \in SUBSET (DOMAIN ConnectionReads),
         NEW known, MetricDerived(known, s), NEW level \in 0 .. 2,
         Ahead(s, level) = Ahead(out, level), out \notin SummedViews,
         Places(out, "value", names, 0 .. 1) \subseteq LiveSlots
  PROVE  /\ Fits(Connections(s, out, names), known, level)
         /\ Written(Connections(s, out, names)) = Places(out, "value", names, 0 .. 1)
<1> DEFINE R == [p \in names \X (0 .. 1) |-> Reads(s, ConnectionReads[p[1]], p[2])]
<1>0. s \notin SummedViews /\ 0 .. 1 \in SUBSET (0 .. 2)
  BY DEF Scratches, SummedViews
<1>1. \A r : r \in Connections(s, out, names) <=>
               \E p \in names \X (0 .. 1) : r = Put(out, "value", p[1], p[2], R[p])
  BY DEF Connections
<1>2. ASSUME NEW f \in names, NEW k \in 0 .. 1, NEW q \in R[<<f, k>>]
      PROVE  KnownRead(q, s, known)
  <2>1. q \in Reads(s, ConnectionReads[f], k)
    OBVIOUS
  <2>2. PICK x \in ConnectionReads[f] : q = At(s, x[1], x[2], k)
    BY <2>1 DEF Reads
  <2>3. <<s, Quantity(x[1], x[2], k)>> \in known
    BY ConnectionReadsKnown
  <2>4. k \in 0 .. 4
    OBVIOUS
  <2> QED
    BY <2>2, <2>3, <2>4 DEF KnownRead
<1> HIDE DEF R
<1>3. \A p \in names \X (0 .. 1) : \A q \in R[p] : KnownRead(q, s, known)
  <2>1. \A p \in names \X (0 .. 1) : p[1] \in names /\ p[2] \in 0 .. 1 /\ p = <<p[1], p[2]>>
    OBVIOUS
  <2> QED
    BY <1>2, <2>1
<1>4. PutsAll(Connections(s, out, names), s, out, "value", names, 0 .. 1, known)
  BY <1>1, <1>3, PutsAllOf
<1> QED
  BY <1>0, <1>4, PutAllFit

LEMMA InScratch ==
  ASSUME NEW s \in Scratches
  PROVE  /\ Places(s, "dr", {"BSharp", "CSharp", "C", "V", "VSharp"}, 0 .. 1) \subseteq LiveSlots
         /\ Places(s, "eth", {"V", "C", "B"}, 0 .. 1) \subseteq LiveSlots
         /\ Places(s, "ethprime", {"CSharp", "BSharp"}, 0 .. 1) \subseteq LiveSlots
         /\ Places(s, "thorn", {"BSharp", "CSharp"}, 0 .. 1) \subseteq LiveSlots
         /\ Places(s, "delta", {"CSharp", "C", "V", "VSharp"}, 0 .. 1) \subseteq LiveSlots
         /\ Places(s, "value", KeptConnections, 0 .. 1) \subseteq LiveSlots
         /\ Places(s, "dr", {"Sig", "Kap", "Be"}, {0}) \subseteq LiveSlots
         /\ Places(s, "eth", {"Kap", "Ep"}, {0}) \subseteq LiveSlots
         /\ Places(s, "ethprime", {"Kap"}, {0}) \subseteq LiveSlots
<1> DEFINE In(op, fields, orders) == All(op, fields, orders) \subseteq ScratchQuantities
<1>1. \A op, fields, orders : In(op, fields, orders) => Places(s, op, fields, orders) \subseteq LiveSlots
  BY ScratchPlaces DEF Places
<1>2. /\ In("dr", {"BSharp", "CSharp", "C", "V", "VSharp"}, 0 .. 1)
      /\ In("eth", {"V", "C", "B"}, 0 .. 1) /\ In("ethprime", {"CSharp", "BSharp"}, 0 .. 1)
      /\ In("thorn", {"BSharp", "CSharp"}, 0 .. 1)
      /\ In("delta", {"CSharp", "C", "V", "VSharp"}, 0 .. 1)
      /\ In("value", KeptConnections, 0 .. 1) /\ In("dr", {"Sig", "Kap", "Be"}, {0})
      /\ In("eth", {"Kap", "Ep"}, {0}) /\ In("ethprime", {"Kap"}, {0})
  BY DEF ScratchQuantities
<1> HIDE DEF In
<1> QED
  BY <1>1, <1>2

LEMMA HasFewer ==
  ASSUME NEW known, NEW view, NEW op, NEW fields, NEW orders, Has(known, view, op, fields, orders),
         NEW f \in SUBSET fields, NEW o \in SUBSET orders
  PROVE  Has(known, view, op, f, o)
  BY DEF Has

LEMMA Shifted == Later(0 .. 1) \subseteq 0 .. 2 /\ 0 .. 1 \subseteq 0 .. 2
  BY DEF Later

LEMMA PackedHas ==
  ASSUME NEW known, NEW s, Packed(known, s), NEW fields \in SUBSET SharpAndOwn
  PROVE  /\ Has(known, s, "value", fields, 0 .. 1)
         /\ Has(known, s, "value", fields, Later(0 .. 1))
<1>1. Has(known, s, "value", SharpAndOwn, 0 .. 2)
  BY DEF Packed, SharpAndOwn
<1> QED
  BY <1>1, HasFewer, Shifted

LEMMA MetricRadialFits ==
  ASSUME NEW s \in Scratches, NEW known, Packed(known, s), NEW level \in 0 .. 2
  PROVE  /\ Fits(MetricRadial(s), known, level)
         /\ Has(Written(MetricRadial(s)), s, "dr", {"BSharp", "CSharp", "C", "V", "VSharp"}, 0 .. 1)
<1> DEFINE F == {"BSharp", "CSharp", "C", "V", "VSharp"}
<1>1. Has(known, s, "value", F, 0 .. 1)
  <2>1. F \in SUBSET SharpAndOwn
    BY DEF SharpAndOwn
  <2> QED
    BY <2>1, PackedHas
<1>2. Places(s, "dr", F, 0 .. 1) \subseteq LiveSlots
  BY InScratch
<1>3. MetricRadial(s) = Radial(s, F, 0 .. 1)
  BY DEF MetricRadial
<1>4. 0 .. 1 \in SUBSET (0 .. 2)
  BY Shifted
<1> HIDE DEF F
<1>5. /\ Fits(Radial(s, F, 0 .. 1), known, level)
      /\ Written(Radial(s, F, 0 .. 1)) = Places(s, "dr", F, 0 .. 1)
  BY <1>1, <1>2, <1>4, RadialFits
<1>6. Has(Written(Radial(s, F, 0 .. 1)), s, "dr", F, 0 .. 1)
  BY <1>5, HasPlaces
<1> QED
  BY <1>3, <1>5, <1>6 DEF F

LEMMA MetricAngularFits ==
  ASSUME NEW s \in Scratches, NEW known, Packed(known, s), NEW level \in 0 .. 2
  PROVE  /\ Fits(MetricAngular(s), known, level)
         /\ Has(Written(MetricAngular(s)), s, "eth", {"V", "C", "B"}, 0 .. 1)
         /\ Has(Written(MetricAngular(s)), s, "ethprime", {"CSharp", "BSharp"}, 0 .. 1)
<1> DEFINE F == {"V", "C", "B"}
           G == {"CSharp", "BSharp"}
           A == Angular(s, "eth", F, 0 .. 1)
           B == Angular(s, "ethprime", G, 0 .. 1)
<1>1. F \in SUBSET SharpAndOwn /\ G \in SUBSET SharpAndOwn
  BY DEF SharpAndOwn
<1>2. /\ Places(s, "eth", F, 0 .. 1) \subseteq LiveSlots
      /\ Places(s, "ethprime", G, 0 .. 1) \subseteq LiveSlots
  BY InScratch
<1>3. MetricAngular(s) = A \cup B
  BY DEF MetricAngular
<1> HIDE DEF F, G
<1>4. /\ Has(known, s, "value", F, 0 .. 1) /\ Has(known, s, "value", F, Later(0 .. 1))
      /\ Has(known, s, "value", G, 0 .. 1) /\ Has(known, s, "value", G, Later(0 .. 1))
  BY <1>1, PackedHas
<1>6. 0 .. 1 \in SUBSET (0 .. 2)
  BY Shifted
<1>7. Fits(A, known, level) /\ Written(A) = Places(s, "eth", F, 0 .. 1)
  BY <1>2, <1>4, <1>6, AngularFits
<1>8. Fits(B, known, level) /\ Written(B) = Places(s, "ethprime", G, 0 .. 1)
  BY <1>2, <1>4, <1>6, AngularFits
<1> HIDE DEF A, B
<1>9. Fits(A \cup B, known, level) /\ Written(A \cup B) = Written(A) \cup Written(B)
  BY <1>7, <1>8, FitsBoth
<1>10. /\ Places(s, "eth", F, 0 .. 1) \subseteq Written(A \cup B)
       /\ Places(s, "ethprime", G, 0 .. 1) \subseteq Written(A \cup B)
  BY <1>7, <1>8, <1>9
<1> QED
  BY <1>3, <1>9, <1>10, HasPlaces DEF F, G

LEMMA MetricDerivativesFits ==
  ASSUME NEW s \in Scratches, NEW known, Packed(known, s), NEW level \in 0 .. 2,
         Has(known, s, "dr", {"BSharp", "CSharp", "C", "V", "VSharp"}, 0 .. 1)
  PROVE  /\ Fits(MetricDerivatives(s), known, level)
         /\ Has(Written(MetricDerivatives(s)), s, "thorn", {"BSharp", "CSharp"}, 0 .. 1)
         /\ Has(Written(MetricDerivatives(s)), s, "delta", {"CSharp", "C", "V", "VSharp"}, 0 .. 1)
<1> DEFINE F == {"BSharp", "CSharp"}
           G == {"CSharp", "C", "V", "VSharp"}
           A == Advected(s, "thorn", F, 0 .. 1)
           B == Advected(s, "delta", G, 0 .. 1)
<1>1. F \in SUBSET SharpAndOwn /\ G \in SUBSET SharpAndOwn
  BY DEF SharpAndOwn
<1>2. /\ Places(s, "thorn", F, 0 .. 1) \subseteq LiveSlots
      /\ Places(s, "delta", G, 0 .. 1) \subseteq LiveSlots
  BY InScratch
<1>3. MetricDerivatives(s) = A \cup B
  BY DEF MetricDerivatives
<1>4. Has(known, s, "dr", F, 0 .. 1) /\ Has(known, s, "dr", G, 0 .. 1)
  BY DEF Has
<1> HIDE DEF F, G
<1>5. /\ Has(known, s, "value", F, 0 .. 1) /\ Has(known, s, "value", F, Later(0 .. 1))
      /\ Has(known, s, "value", G, 0 .. 1) /\ Has(known, s, "value", G, Later(0 .. 1))
  BY <1>1, PackedHas
<1>6. 0 .. 1 \in SUBSET (0 .. 2)
  BY Shifted
<1>7. Fits(A, known, level) /\ Written(A) = Places(s, "thorn", F, 0 .. 1)
  BY <1>2, <1>4, <1>5, <1>6, AdvectedFits
<1>8. Fits(B, known, level) /\ Written(B) = Places(s, "delta", G, 0 .. 1)
  BY <1>2, <1>4, <1>5, <1>6, AdvectedFits
<1> HIDE DEF A, B
<1>9. Fits(A \cup B, known, level) /\ Written(A \cup B) = Written(A) \cup Written(B)
  BY <1>7, <1>8, FitsBoth
<1>10. /\ Places(s, "thorn", F, 0 .. 1) \subseteq Written(A \cup B)
       /\ Places(s, "delta", G, 0 .. 1) \subseteq Written(A \cup B)
  BY <1>7, <1>8, <1>9
<1> QED
  BY <1>3, <1>9, <1>10, HasPlaces DEF F, G

LEMMA KeptConnectionsFit ==
  ASSUME NEW s \in Scratches, NEW known, MetricDerived(known, s), NEW level \in 0 .. 2
  PROVE  /\ Fits(Connections(s, s, KeptConnections), known, level)
         /\ Has(Written(Connections(s, s, KeptConnections)), s, "value", KeptConnections, 0 .. 1)
<1>1. KeptConnections \in SUBSET (DOMAIN ConnectionReads) /\ s \notin SummedViews
  BY DEF KeptConnections, ConnectionReads, Scratches, SummedViews
<1>2. Places(s, "value", KeptConnections, 0 .. 1) \subseteq LiveSlots
  BY InScratch
<1>3. /\ Fits(Connections(s, s, KeptConnections), known, level)
      /\ Written(Connections(s, s, KeptConnections)) = Places(s, "value", KeptConnections, 0 .. 1)
  BY <1>1, <1>2, ConnectionsFit
<1> QED
  BY <1>3, HasPlaces

LEMMA ConnectionRadialFits ==
  ASSUME NEW s \in Scratches, NEW known, Has(known, s, "value", KeptConnections, 0 .. 1),
         NEW level \in 0 .. 2
  PROVE  /\ Fits(ConnectionRadial(s), known, level)
         /\ Has(Written(ConnectionRadial(s)), s, "dr", {"Sig", "Kap", "Be"}, {0})
<1> DEFINE F == {"Sig", "Kap", "Be"}
<1>1. Has(known, s, "value", F, {0})
  BY DEF Has, KeptConnections
<1>2. Places(s, "dr", F, {0}) \subseteq LiveSlots
  BY InScratch
<1>3. ConnectionRadial(s) = Radial(s, F, {0})
  BY DEF ConnectionRadial
<1>4. {0} \in SUBSET (0 .. 2)
  OBVIOUS
<1> HIDE DEF F
<1>5. /\ Fits(Radial(s, F, {0}), known, level)
      /\ Written(Radial(s, F, {0})) = Places(s, "dr", F, {0})
  BY <1>1, <1>2, <1>4, RadialFits
<1>6. Has(Written(Radial(s, F, {0})), s, "dr", F, {0})
  BY <1>5, HasPlaces
<1> QED
  BY <1>3, <1>5, <1>6 DEF F

LEMMA GrownParts ==
  ASSUME NEW known, NEW kernel
  PROVE  known \subseteq Grown(known, kernel) /\ Written(kernel) \subseteq Grown(known, kernel)
  BY DEF Grown

LEMMA KnowsMore ==
  ASSUME NEW memory, NEW fault, NEW id, NEW more \in Extra, Spared(fault, more),
         NEW level \in 0 .. 2, NEW kernel, NEW known,
         Fits(kernel, known, level), Knows(memory, known, id, level, more)
  PROVE  Knows(AfterFault(memory, kernel, fault), Grown(known, kernel), id, level, more)
<1>1. DOMAIN memory = LiveSlots /\ known \subseteq LiveSlots
      /\ Within(memory, known, Fresh(id, level, more))
  BY DEF Knows
<1>2. /\ DOMAIN AfterFault(memory, kernel, fault) = LiveSlots
      /\ known \cup Written(kernel) \subseteq LiveSlots
      /\ Within(AfterFault(memory, kernel, fault), known \cup Written(kernel),
                Fresh(id, level, more))
  BY <1>1, FitsWithin
<1> QED
  BY <1>2 DEF Knows, Grown

LEMMA ToConnection ==
  ASSUME NEW s \in Scratches, NEW in \in {"tower", "routeb", "givenMetric"}, NEW level \in 0 .. 2,
         NEW first, first = Ahead(s, level), NEW base, Packable(base, in, first),
         NEW ready \in BOOLEAN, NEW fault, NEW id, NEW more \in Extra, Spared(fault, more),
         NEW kernels, NEW done, ConnectionPass(s, in, first, ready, fault, kernels, done),
         Knows(done[0], base, id, level, more)
  PROVE  Derives(done[6], base, s, id, level, more)
<1> DEFINE K1 == Grown(base, kernels[1])
           K2 == Grown(K1, kernels[2])
           K3 == Grown(K2, kernels[3])
           K4 == Grown(K3, kernels[4])
           K5 == Grown(K4, kernels[5])
           K6 == Grown(K5, kernels[6])
<1>1. /\ kernels[2] = MetricRadial(s) /\ kernels[3] = MetricAngular(s)
      /\ kernels[4] = MetricDerivatives(s) /\ kernels[5] = Connections(s, s, KeptConnections)
      /\ kernels[6] = ConnectionRadial(s)
  <2>1. /\ kernels[1 + 1] = MetricToConnection(s)[1] /\ kernels[2 + 1] = MetricToConnection(s)[2]
        /\ kernels[3 + 1] = MetricToConnection(s)[3] /\ kernels[4 + 1] = MetricToConnection(s)[4]
        /\ kernels[5 + 1] = MetricToConnection(s)[5]
    BY DEF ConnectionPass
  <2>2. /\ MetricToConnection(s)[1] = MetricRadial(s) /\ MetricToConnection(s)[2] = MetricAngular(s)
        /\ MetricToConnection(s)[3] = MetricDerivatives(s)
        /\ MetricToConnection(s)[4] = Connections(s, s, KeptConnections)
        /\ MetricToConnection(s)[5] = ConnectionRadial(s)
    BY DEF MetricToConnection
  <2>3. 1 + 1 = 2 /\ 2 + 1 = 3 /\ 3 + 1 = 4 /\ 4 + 1 = 5 /\ 5 + 1 = 6
    OBVIOUS
  <2> QED
    BY <2>1, <2>2, <2>3
<1>2. /\ done[1] = AfterFault(done[0], kernels[1], fault)
      /\ done[2] = AfterFault(done[1], kernels[2], fault)
      /\ done[3] = AfterFault(done[2], kernels[3], fault)
      /\ done[4] = AfterFault(done[3], kernels[4], fault)
      /\ done[5] = AfterFault(done[4], kernels[5], fault)
      /\ done[6] = AfterFault(done[5], kernels[6], fault)
  BY DEF ConnectionPass
<1>0. kernels[1] = Gated(ready, Pack(s, in, first))
  BY DEF ConnectionPass
<1>3. Knows(done[1], K1, id, level, more) /\ Packed(K1, s) /\ base \subseteq K1
  <2>1. Fits(kernels[1], base, level) /\ Packed(Written(kernels[1]), s)
    BY <1>0, PackFits
  <2>2. base \subseteq K1 /\ Written(kernels[1]) \subseteq K1
    BY GrownParts
  <2>3. Knows(done[1], K1, id, level, more)
    BY <1>2, <2>1, KnowsMore
  <2>4. Packed(K1, s)
    BY <2>1, <2>2, PackedMore
  <2> QED
    BY <2>2, <2>3, <2>4
<1> HIDE DEF K1
<1>4. /\ Knows(done[2], K2, id, level, more) /\ Packed(K2, s) /\ base \subseteq K2
      /\ Has(K2, s, "dr", {"BSharp", "CSharp", "C", "V", "VSharp"}, 0 .. 1)
  <2>1. /\ Fits(kernels[2], K1, level)
        /\ Has(Written(kernels[2]), s, "dr", {"BSharp", "CSharp", "C", "V", "VSharp"}, 0 .. 1)
    BY <1>1, <1>3, MetricRadialFits
  <2>2. K1 \subseteq K2 /\ Written(kernels[2]) \subseteq K2
    BY GrownParts
  <2>3. Knows(done[2], K2, id, level, more)
    BY <1>2, <1>3, <2>1, KnowsMore
  <2>4. Packed(K2, s)
    BY <1>3, <2>2, PackedMore
  <2>5. Has(K2, s, "dr", {"BSharp", "CSharp", "C", "V", "VSharp"}, 0 .. 1)
    BY <2>1, <2>2, HasMore
  <2> QED
    BY <1>3, <2>2, <2>3, <2>4, <2>5
<1> HIDE DEF K2
<1>5. /\ Knows(done[3], K3, id, level, more) /\ Packed(K3, s) /\ base \subseteq K3
      /\ Has(K3, s, "dr", {"BSharp", "CSharp", "C", "V", "VSharp"}, 0 .. 1)
      /\ Has(K3, s, "eth", {"V", "C", "B"}, 0 .. 1)
      /\ Has(K3, s, "ethprime", {"CSharp", "BSharp"}, 0 .. 1)
  <2>1. /\ Fits(kernels[3], K2, level)
        /\ Has(Written(kernels[3]), s, "eth", {"V", "C", "B"}, 0 .. 1)
        /\ Has(Written(kernels[3]), s, "ethprime", {"CSharp", "BSharp"}, 0 .. 1)
    BY <1>1, <1>4, MetricAngularFits
  <2>2. K2 \subseteq K3 /\ Written(kernels[3]) \subseteq K3
    BY GrownParts
  <2>3. Knows(done[3], K3, id, level, more)
    BY <1>2, <1>4, <2>1, KnowsMore
  <2>4. Packed(K3, s)
    BY <1>4, <2>2, PackedMore
  <2>5. Has(K3, s, "dr", {"BSharp", "CSharp", "C", "V", "VSharp"}, 0 .. 1)
    BY <1>4, <2>2, HasMore
  <2>6. Has(K3, s, "eth", {"V", "C", "B"}, 0 .. 1)
    BY <2>1, <2>2, HasMore
  <2>7. Has(K3, s, "ethprime", {"CSharp", "BSharp"}, 0 .. 1)
    BY <2>1, <2>2, HasMore
  <2> QED
    BY <1>4, <2>2, <2>3, <2>4, <2>5, <2>6, <2>7
<1> HIDE DEF K3
<1>6. /\ Knows(done[4], K4, id, level, more) /\ MetricDerived(K4, s) /\ base \subseteq K4
  <2>1. /\ Fits(kernels[4], K3, level)
        /\ Has(Written(kernels[4]), s, "thorn", {"BSharp", "CSharp"}, 0 .. 1)
        /\ Has(Written(kernels[4]), s, "delta", {"CSharp", "C", "V", "VSharp"}, 0 .. 1)
    BY <1>1, <1>5, MetricDerivativesFits
  <2>2. K3 \subseteq K4 /\ Written(kernels[4]) \subseteq K4
    BY GrownParts
  <2>3. Packed(K4, s)
    BY <1>5, <2>2, PackedMore
  <2>4. Knows(done[4], K4, id, level, more)
    BY <1>2, <1>5, <2>1, KnowsMore
  <2>5. Has(K4, s, "dr", {"BSharp", "CSharp", "C", "V", "VSharp"}, 0 .. 1)
    BY <1>5, <2>2, HasMore
  <2>6. Has(K4, s, "eth", {"V", "C", "B"}, 0 .. 1)
    BY <1>5, <2>2, HasMore
  <2>7. Has(K4, s, "ethprime", {"CSharp", "BSharp"}, 0 .. 1)
    BY <1>5, <2>2, HasMore
  <2>8. Has(K4, s, "thorn", {"BSharp", "CSharp"}, 0 .. 1)
    BY <2>1, <2>2, HasMore
  <2>9. Has(K4, s, "delta", {"CSharp", "C", "V", "VSharp"}, 0 .. 1)
    BY <2>1, <2>2, HasMore
  <2>10. MetricDerived(K4, s)
    BY <2>3, <2>5, <2>6, <2>7, <2>8, <2>9 DEF MetricDerived
  <2> QED
    BY <1>5, <2>2, <2>4, <2>10
<1> HIDE DEF K4
<1>7. /\ Knows(done[5], K5, id, level, more) /\ MetricDerived(K5, s) /\ base \subseteq K5
      /\ Has(K5, s, "value", KeptConnections, 0 .. 1)
  <2>1. /\ Fits(kernels[5], K4, level)
        /\ Has(Written(kernels[5]), s, "value", KeptConnections, 0 .. 1)
    BY <1>1, <1>6, KeptConnectionsFit
  <2>2. K4 \subseteq K5 /\ Written(kernels[5]) \subseteq K5
    BY GrownParts
  <2>3. Knows(done[5], K5, id, level, more)
    BY <1>2, <1>6, <2>1, KnowsMore
  <2>4. MetricDerived(K5, s)
    BY <1>6, <2>2, PackedMore
  <2>5. Has(K5, s, "value", KeptConnections, 0 .. 1)
    BY <2>1, <2>2, HasMore
  <2> QED
    BY <1>6, <2>2, <2>3, <2>4, <2>5
<1> HIDE DEF K5
<1>8. /\ Knows(done[6], K6, id, level, more) /\ Connected(K6, s) /\ base \subseteq K6
  <2>1. /\ Fits(kernels[6], K5, level)
        /\ Has(Written(kernels[6]), s, "dr", {"Sig", "Kap", "Be"}, {0})
    BY <1>1, <1>7, ConnectionRadialFits
  <2>2. K5 \subseteq K6 /\ Written(kernels[6]) \subseteq K6
    BY GrownParts
  <2>3. MetricDerived(K6, s)
    BY <1>7, <2>2, PackedMore
  <2>4. Has(K6, s, "value", KeptConnections, 0 .. 1)
    BY <1>7, <2>2, HasMore
  <2>5. Has(K6, s, "dr", {"Sig", "Kap", "Be"}, {0})
    BY <2>1, <2>2, HasMore
  <2>6. Knows(done[6], K6, id, level, more)
    BY <1>2, <1>7, <2>1, KnowsMore
  <2> QED
    BY <1>7, <2>2, <2>3, <2>4, <2>5, <2>6 DEF Connected
<1> QED
  BY <1>8 DEF Derives

LEMMA OnlyElsewhere ==
  ASSUME NEW kernel, NEW views, Only(kernel, views), NEW s, s[1] \notin views
  PROVE  s \notin Written(kernel)
  BY DEF Only, Written

LEMMA OnlyGated ==
  ASSUME NEW kernel, NEW views, Only(kernel, views), NEW ready \in BOOLEAN,
         \A r \in kernel : r = [slot |-> r.slot, reads |-> r.reads, raise |-> r.raise]
  PROVE  Only(Gated(ready, kernel), views)
<1>1. Written(Gated(ready, kernel)) = Written(kernel)
  BY GatedKernel
<1> QED
  BY <1>1 DEF Only, Written

LEMMA OnlyOf ==
  ASSUME NEW s, NEW op, NEW fields, NEW orders
  PROVE  /\ Only(Radial(s, fields, orders), {s})
         /\ Only(Angular(s, op, fields, orders), {s})
         /\ Only(Advected(s, op, fields, orders), {s})
         /\ \A from : Only(Connections(from, s, fields), {s})
<1>1. \A f, k, reads, o : Put(s, o, f, k, reads).slot[1] = s
  BY DEF Put
<1>2. Only(Radial(s, fields, orders), {s})
  <2> SUFFICES ASSUME NEW r \in Radial(s, fields, orders) PROVE r.slot[1] = s
    BY DEF Only
  <2>1. PICK p \in fields \X orders : r = Put(s, "dr", p[1], p[2], {At(s, "value", p[1], p[2])})
    BY DEF Radial
  <2> QED
    BY <1>1, <2>1
<1>3. Only(Angular(s, op, fields, orders), {s})
  <2> SUFFICES ASSUME NEW r \in Angular(s, op, fields, orders) PROVE r.slot[1] = s
    BY DEF Only
  <2>1. PICK p \in fields \X orders : r = Put(s, op, p[1], p[2], WithRate(s, p[1], p[2]))
    BY DEF Angular
  <2> QED
    BY <1>1, <2>1
<1>4. Only(Advected(s, op, fields, orders), {s})
  <2> SUFFICES ASSUME NEW r \in Advected(s, op, fields, orders) PROVE r.slot[1] = s
    BY DEF Only
  <2>1. PICK p \in fields \X orders :
          r = Put(s, op, p[1], p[2], WithRate(s, p[1], p[2]) \cup {At(s, "dr", p[1], p[2])})
    BY DEF Advected
  <2> QED
    BY <1>1, <2>1
<1>5. ASSUME NEW from PROVE Only(Connections(from, s, fields), {s})
  <2> SUFFICES ASSUME NEW r \in Connections(from, s, fields) PROVE r.slot[1] = s
    BY DEF Only
  <2>1. PICK p \in fields \X (0 .. 1) :
          r = Put(s, "value", p[1], p[2], Reads(from, ConnectionReads[p[1]], p[2]))
    BY DEF Connections
  <2> QED
    BY <1>1, <2>1
<1> QED
  BY <1>2, <1>3, <1>4, <1>5

LEMMA PackRecords ==
  ASSUME NEW s, NEW in, NEW first
  PROVE  \A r \in Pack(s, in, first) :
           /\ r = [slot |-> r.slot, reads |-> r.reads, raise |-> r.raise]
           /\ r.slot[1] = s
<1> SUFFICES ASSUME NEW r \in Pack(s, in, first)
             PROVE  r = [slot |-> r.slot, reads |-> r.reads, raise |-> r.raise] /\ r.slot[1] = s
  OBVIOUS
<1>1. PICK f \in DOMAIN PackedFrom \cup DOMAIN SharpFrom, g \in ReconstructionFields,
           k \in 0 .. 2, sign \in {1, -1} :
             r = Put(s, "value", f, k, PackRead(in, g, first + k, k, sign))
  BY PackParts
<1> QED
  BY <1>1 DEF Put

\* The kernels up to the connection write into their scratch alone.
LEMMA ConnectionOnly ==
  ASSUME NEW s, NEW in, NEW first, NEW ready \in BOOLEAN
  PROVE  /\ Only(Gated(ready, Pack(s, in, first)), {s})
         /\ \A i \in 1 .. 5 : Only(MetricToConnection(s)[i], {s})
<1>1. Only(Pack(s, in, first), {s})
  BY PackRecords DEF Only
<1>2. Only(Gated(ready, Pack(s, in, first)), {s})
  BY <1>1, OnlyGated, PackRecords
<1>3. Only(MetricRadial(s), {s}) /\ Only(ConnectionRadial(s), {s})
      /\ Only(Connections(s, s, KeptConnections), {s})
  BY OnlyOf DEF MetricRadial, ConnectionRadial
<1>4. \A a, b : Only(a, {s}) /\ Only(b, {s}) => Only(a \cup b, {s})
  BY DEF Only
<1>5. Only(MetricAngular(s), {s})
  <2>1. /\ Only(Angular(s, "eth", {"V", "C", "B"}, 0 .. 1), {s})
        /\ Only(Angular(s, "ethprime", {"CSharp", "BSharp"}, 0 .. 1), {s})
    BY OnlyOf
  <2> QED
    BY <1>4, <2>1 DEF MetricAngular
<1>6. Only(MetricDerivatives(s), {s})
  <2>1. /\ Only(Advected(s, "thorn", {"BSharp", "CSharp"}, 0 .. 1), {s})
        /\ Only(Advected(s, "delta", {"CSharp", "C", "V", "VSharp"}, 0 .. 1), {s})
    BY OnlyOf
  <2> QED
    BY <1>4, <2>1 DEF MetricDerivatives
<1>7. /\ MetricToConnection(s)[1] = MetricRadial(s) /\ MetricToConnection(s)[2] = MetricAngular(s)
      /\ MetricToConnection(s)[3] = MetricDerivatives(s)
      /\ MetricToConnection(s)[4] = Connections(s, s, KeptConnections)
      /\ MetricToConnection(s)[5] = ConnectionRadial(s)
  BY DEF MetricToConnection
<1>8. \A i \in 1 .. 5 : i = 1 \/ i = 2 \/ i = 3 \/ i = 4 \/ i = 5
  OBVIOUS
<1> QED
  BY <1>2, <1>3, <1>5, <1>6, <1>7, <1>8

-----------------------------------------------------------------------------
(* The profiles of a level *)

LEMMA ConnectionAngularFits ==
  ASSUME NEW s \in Scratches, NEW known, Has(known, s, "value", KeptConnections, 0 .. 1),
         NEW level \in 0 .. 2
  PROVE  /\ Fits(ConnectionAngular(s), known, level)
         /\ Has(Written(ConnectionAngular(s)), s, "eth", {"Kap", "Ep"}, {0})
<1> DEFINE F == {"Kap", "Ep"}
<1>1. Has(known, s, "value", F, {0}) /\ Has(known, s, "value", F, Later({0}))
  BY DEF Has, KeptConnections, Later
<1>2. Places(s, "eth", F, {0}) \subseteq LiveSlots
  BY InScratch
<1>3. ConnectionAngular(s) = Angular(s, "eth", F, {0})
  BY DEF ConnectionAngular
<1>4. {0} \in SUBSET (0 .. 2)
  OBVIOUS
<1> HIDE DEF F
<1>5. /\ Fits(Angular(s, "eth", F, {0}), known, level)
      /\ Written(Angular(s, "eth", F, {0})) = Places(s, "eth", F, {0})
  BY <1>1, <1>2, <1>4, AngularFits
<1>6. Has(Written(Angular(s, "eth", F, {0})), s, "eth", F, {0})
  BY <1>5, HasPlaces
<1> QED
  BY <1>3, <1>5, <1>6 DEF F

\* All that a profile is made of is there.
LEMMA ProfileReadsKnown ==
  ASSUME NEW known, NEW s, Connected(known, s), Has(known, s, "eth", {"Kap", "Ep"}, {0})
  PROVE  \A p \in ProfileNames : \A q \in ProfileReads[p] :
           q[3] \in 0 .. 1 /\ <<s, Quantity(q[1], q[2], q[3])>> \in known
<1> DEFINE K(op, g, k) == <<s, Quantity(op, g, k)>> \in known
           Fine(Q) == \A q \in Q : q[3] \in 0 .. 1 /\ K(q[1], q[2], q[3])
<1>1. 0 \in 0 .. 1 /\ 1 \in 0 .. 1 /\ 0 \in 0 .. 2
  OBVIOUS
<1>2. /\ \A g \in {"U", "C", "B", "V", "USharp", "CSharp", "BSharp", "VSharp"} : K("value", g, 0)
      /\ \A g \in {"V", "C", "B"} : K("eth", g, 0)
      /\ \A g \in {"CSharp", "BSharp"} : K("ethprime", g, 0)
      /\ \A g \in {"CSharp", "C", "V", "VSharp"} : K("delta", g, 0)
      /\ \A g \in {"Sig", "Kap", "Be", "Ep"} : K("value", g, 0) /\ K("value", g, 1)
      /\ \A g \in {"Sig", "Kap", "Be"} : K("dr", g, 0)
      /\ \A g \in {"Kap", "Ep"} : K("eth", g, 0)
  BY <1>1 DEF Connected, MetricDerived, Packed, Has, KeptConnections
<1>3. \A op, g, k : <<op, g, k>>[1] = op /\ <<op, g, k>>[2] = g /\ <<op, g, k>>[3] = k
  OBVIOUS
<1>4. \A S, T : Fine(S) /\ Fine(T) => Fine(S \cup T)
  OBVIOUS
<1> HIDE DEF K
<1>5. \A f \in {"Sig", "Be"} : Fine(ThornOf(f))
  BY <1>1, <1>2, <1>3 DEF ThornOf
<1>6. \A Q : (\A q \in Q : K(q[1], q[2], 0)) => Fine(Now(Q))
  <2> SUFFICES ASSUME NEW Q, \A q \in Q : K(q[1], q[2], 0), NEW x \in Now(Q)
               PROVE  x[3] \in 0 .. 1 /\ K(x[1], x[2], x[3])
    OBVIOUS
  <2>1. PICK q \in Q : x = <<q[1], q[2], 0>>
    BY DEF Now
  <2> QED
    BY <1>1, <1>3, <2>1
<1>7. \A op, g : <<op, g>>[1] = op /\ <<op, g>>[2] = g
  OBVIOUS
<1> HIDE DEF Fine
<1>8. Fine(ProfileReads["F0"])
  <2>1. Fine(Now({<<"value", "Sig">>, <<"eth", "Kap">>}))
    BY <1>2, <1>6, <1>7
  <2>2. ProfileReads["F0"] = ThornOf("Sig") \cup Now({<<"value", "Sig">>, <<"eth", "Kap">>})
    BY DEF ProfileReads
  <2> QED
    BY <1>4, <1>5, <2>1, <2>2
<1>9. Fine(ProfileReads["F1"])
  <2> DEFINE Q == {<<"eth", "Ep">>, <<"value", "Ep">>, <<"value", "Sig">>, <<"value", "V">>,
                <<"delta", "VSharp">>, <<"eth", "C">>, <<"ethprime", "CSharp">>,
                <<"value", "VSharp">>, <<"value", "CSharp">>, <<"value", "C">>}
  <2>1. \A q \in Q : K(q[1], q[2], 0)
    BY <1>2, <1>7
  <2>2. ProfileReads["F1"] = ThornOf("Be") \cup Now(Q)
    BY DEF ProfileReads
  <2> HIDE DEF Q
  <2> QED
    BY <1>4, <1>5, <1>6, <2>1, <2>2
<1>10. Fine(ProfileReads["Z0Regular"])
  <2>1. Fine(Now({<<"value", "Kap">>}))
    BY <1>2, <1>6, <1>7
  <2> QED
    BY <2>1 DEF ProfileReads
<1>11. Fine(ProfileReads["Z1Regular"])
  <2> DEFINE Q == {<<"value", "Be">>, <<"value", "Ep">>, <<"value", "Sig">>, <<"value", "Kap">>,
           <<"value", "CSharp">>, <<"value", "BSharp">>, <<"value", "USharp">>,
           <<"value", "C">>, <<"eth", "C">>, <<"ethprime", "CSharp">>,
           <<"delta", "CSharp">>, <<"ethprime", "BSharp">>}
  <2>1. \A q \in Q : K(q[1], q[2], 0)
    BY <1>2, <1>7
  <2>2. ProfileReads["Z1Regular"] = Now(Q)
    BY DEF ProfileReads
  <2> HIDE DEF Q
  <2> QED
    BY <1>6, <2>1, <2>2
<1> QED
  BY <1>8, <1>9, <1>10, <1>11 DEF ProfileNames, Fine, K

LEMMA ProfilesFit ==
  ASSUME NEW known, Connected(known, "curvatureScratch"),
         Has(known, "curvatureScratch", "eth", {"Kap", "Ep"}, {0}), NEW level \in 0 .. 2
  PROVE  /\ Fits(Profiles("curvatureScratch", level), known, level)
         /\ Written(Profiles("curvatureScratch", level))
              = Places("profiles", "value", ProfileNames, {level})
         /\ Only(Profiles("curvatureScratch", level), {"profiles"})
<1> DEFINE s == "curvatureScratch"
           kernel == Profiles(s, level)
<1>1. ASSUME NEW r \in kernel
      PROVE  \E p \in ProfileNames :
               /\ r.slot = <<"profiles", Quantity("value", p, level)>> /\ r.raise = 0
               /\ \A q \in r.reads : \E x \in ProfileReads[p] : q = At(s, x[1], x[2], x[3])
  BY DEF Profiles, Value
<1>2. ASSUME NEW p \in ProfileNames
      PROVE  \E r \in kernel : r.slot = <<"profiles", Quantity("value", p, level)>>
  <2> DEFINE w == [slot |-> <<"profiles", Value(p, level)>>, raise |-> 0,
                   reads |-> {At(s, q[1], q[2], q[3]) : q \in ProfileReads[p]}]
  <2>1. w \in kernel
    BY DEF Profiles
  <2>2. w.slot = <<"profiles", Quantity("value", p, level)>>
    BY DEF Value
  <2> HIDE DEF w, kernel
  <2> QED
    BY <2>1, <2>2
<1> HIDE DEF kernel
<1>3. Written(kernel) = Places("profiles", "value", ProfileNames, {level})
  <2>1. \A x : x \in Written(kernel) <=> \E r \in kernel : x = r.slot
    BY DEF Written
  <2>2. \A x : x \in Places("profiles", "value", ProfileNames, {level}) <=>
                 \E p \in ProfileNames : x = <<"profiles", Quantity("value", p, level)>>
    <3>1. \A q : q \in All("value", ProfileNames, {level}) <=>
                   \E p \in ProfileNames : q = Quantity("value", p, level)
      BY InAll
    <3> QED
      BY <3>1 DEF Places
  <2>3. ASSUME NEW x \in Written(kernel)
        PROVE  x \in Places("profiles", "value", ProfileNames, {level})
    <3>1. PICK r \in kernel : x = r.slot
      BY <2>1
    <3>2. \E p \in ProfileNames : r.slot = <<"profiles", Quantity("value", p, level)>>
      BY <1>1
    <3> QED
      BY <2>2, <3>1, <3>2
  <2>4. \A x : x \in Places("profiles", "value", ProfileNames, {level}) => x \in Written(kernel)
    BY <1>2, <2>1, <2>2
  <2> QED
    BY <2>3, <2>4
<1>4. Places("profiles", "value", ProfileNames, {level}) \subseteq LiveSlots
  <2>1. All("value", ProfileNames, {level}) \subseteq All("value", ProfileNames, 0 .. 2)
    BY InAll
  <2> QED
    BY <2>1 DEF Places, LiveSlots, CurvatureSlots
<1>5. Fits(kernel, known, level)
  <2> SUFFICES ASSUME NEW r \in kernel, NEW q \in r.reads
               PROVE  /\ q.slot \in known
                      /\ q.sign \in {1, -1} /\ q.rate \in Int /\ r.raise \in Int
                      /\ RateOf(q.slot, level) + r.raise - q.rate = RateOf(r.slot, level)
                      /\ q.slot[1] \in SummedViews <=> r.slot[1] \in SummedViews
                      /\ q.slot[1] \in SummedViews => q.sign = 1
    BY <1>3, <1>4 DEF Fits
  <2>1. PICK p \in ProfileNames :
               /\ r.slot = <<"profiles", Quantity("value", p, level)>> /\ r.raise = 0
               /\ \A y \in r.reads : \E x \in ProfileReads[p] : y = At(s, x[1], x[2], x[3])
    BY <1>1
  <2>2. PICK x \in ProfileReads[p] : q = At(s, x[1], x[2], x[3])
    BY <2>1
  <2>3. x[3] \in 0 .. 1 /\ <<s, Quantity(x[1], x[2], x[3])>> \in known
    BY ProfileReadsKnown
  <2>4. q.slot = <<s, Quantity(x[1], x[2], x[3])>> /\ q.sign = 1 /\ q.rate = x[3]
    BY <2>2, PutParts
  <2>5. /\ RateOf(q.slot, level) = x[3] + level
        /\ RateOf(r.slot, level) = level + 0
    BY <2>1, <2>4, RateParts DEF Ahead
  <2>6. "profiles" \notin SummedViews /\ s \notin SummedViews
    BY DEF SummedViews
  <2>7. RateOf(q.slot, level) + r.raise - q.rate = RateOf(r.slot, level)
    BY <2>1, <2>3, <2>4, <2>5
  <2> QED
    BY <2>1, <2>3, <2>4, <2>6, <2>7
<1>6. Only(kernel, {"profiles"})
  BY <1>1 DEF Only
<1> QED
  BY <1>3, <1>5, <1>6 DEF kernel

LEMMA KnowsLevels ==
  ASSUME NEW memory, NEW known, NEW id, NEW more, NEW a, NEW b, Level(known),
         Knows(memory, known, id, a, more)
  PROVE  Knows(memory, known, id, b, more)
  BY FreshLevels DEF Level, Knows

LEMMA LevelList ==
  ASSUME NEW level, NEW ready
  PROVE  LevelPasses(LevelKernels(level, ready), "curvatureScratch", level, ready)
<1> DEFINE s == "curvatureScratch"
           k == LevelKernels(level, ready)
<1>1. k = << Gated(ready, Pack(s, "tower", level)), MetricRadial(s), MetricAngular(s),
             MetricDerivatives(s), Connections(s, s, KeptConnections), ConnectionRadial(s),
             ConnectionAngular(s), Profiles(s, level) >>
  BY KernelsTwo DEF LevelKernels, MetricToConnection
<1>2. Len(k) = 8 /\ k[1] = Gated(ready, Pack(s, "tower", level))
      /\ k[7] = ConnectionAngular(s) /\ k[8] = Profiles(s, level)
  BY <1>1
<1>3. \A i \in 1 .. 5 : k[i + 1] = MetricToConnection(s)[i]
  <2>1. /\ k[1 + 1] = MetricToConnection(s)[1] /\ k[2 + 1] = MetricToConnection(s)[2]
        /\ k[3 + 1] = MetricToConnection(s)[3] /\ k[4 + 1] = MetricToConnection(s)[4]
        /\ k[5 + 1] = MetricToConnection(s)[5]
    BY <1>1 DEF MetricToConnection
  <2>2. \A i \in 1 .. 5 : i = 1 \/ i = 2 \/ i = 3 \/ i = 4 \/ i = 5
    OBVIOUS
  <2> HIDE DEF k
  <2> QED
    BY <2>1, <2>2
<1> QED
  BY <1>2, <1>3 DEF LevelPasses

\* A level makes its profiles of the tower, and touches nothing but them and the
\* scratch.
LEMMA LevelRunOf ==
  ASSUME NEW s, s = "curvatureScratch", NEW kernels, NEW out, NEW level \in 0 .. 2, NEW memory, NEW base, Packable(base, "tower", level), Level(base),
         NEW fault, NEW id, NEW more \in Extra, Spared(fault, more), NEW ready \in BOOLEAN,
         Knows(memory, base, id, 0, more),
         out = RunFault(memory, kernels, fault),
         LevelPasses(kernels, s, level, ready)
  PROVE  Profiled(out, base, level, id, more) /\ Leaves(out, memory, {"curvatureScratch", "profiles"})
<1>a. /\ Len(kernels) = 8
      /\ kernels[1] = Gated(ready, Pack(s, "tower", level))
      /\ \A i \in 1 .. 5 : kernels[i + 1] = MetricToConnection(s)[i]
      /\ kernels[7] = ConnectionAngular(s) /\ kernels[8] = Profiles(s, level)
  BY DEF LevelPasses
<1>0. Len(kernels) \in Nat
  BY <1>a
<1>1. PICK done : FaultPasses(memory, kernels, fault, done)
  BY <1>0, RunFaultSteps
<1>2. /\ done[0] = memory
      /\ \A n \in 1 .. Len(kernels) : done[n] = AfterFault(done[n - 1], kernels[n], fault)
      /\ RunFault(memory, kernels, fault) = done[Len(kernels)]
  BY <1>1 DEF FaultPasses
<1>3. s \in Scratches /\ level = Ahead(s, level)
  BY DEF Scratches, Ahead
<1>4. Knows(done[0], base, id, level, more)
  BY <1>2, KnowsLevels
<1>5. ConnectionPass(s, "tower", level, ready, fault, kernels, done)
  BY <1>2, <1>a DEF ConnectionPass
<1>6. PICK K6 : base \subseteq K6 /\ Connected(K6, s) /\ Knows(done[6], K6, id, level, more)
  <2>1. Packable(base, "tower", level) /\ "tower" \in {"tower", "routeb", "givenMetric"}
    OBVIOUS
  <2>2. Derives(done[6], base, s, id, level, more)
    BY <1>3, <1>4, <1>5, <2>1, ToConnection
  <2> QED
    BY <2>2 DEF Derives
<1>7. done[7] = AfterFault(done[6], kernels[7], fault) /\ done[8] = AfterFault(done[7], kernels[8], fault)
      /\ out = done[8]
  BY <1>2, <1>a
<1> DEFINE K7 == Grown(K6, kernels[7])
           K8 == Grown(K7, kernels[8])
           next == {x \in K8 : x[1] # s}
<1>8. /\ Knows(done[7], K7, id, level, more) /\ Connected(K7, s) /\ K6 \subseteq K7
      /\ Has(K7, s, "eth", {"Kap", "Ep"}, {0})
  <2>1. Has(K6, s, "value", KeptConnections, 0 .. 1)
    BY <1>6 DEF Connected
  <2>2. Fits(kernels[7], K6, level) /\ Has(Written(kernels[7]), s, "eth", {"Kap", "Ep"}, {0})
    BY <1>a, <1>3, <2>1, ConnectionAngularFits
  <2>3. K6 \subseteq K7 /\ Written(kernels[7]) \subseteq K7
    BY GrownParts
  <2>4. Knows(done[7], K7, id, level, more)
    BY <1>6, <1>7, <2>2, KnowsMore
  <2>5. Connected(K7, s)
    BY <1>6, <2>3, PackedMore
  <2>6. Has(K7, s, "eth", {"Kap", "Ep"}, {0})
    BY <2>2, <2>3, HasMore
  <2> QED
    BY <2>3, <2>4, <2>5, <2>6
<1> HIDE DEF K7
<1>9. /\ Knows(done[8], K8, id, level, more) /\ K7 \subseteq K8
      /\ Has(K8, "profiles", "value", ProfileNames, {level})
  <2>1. Fits(kernels[8], K7, level) /\ Only(kernels[8], {"profiles"})
        /\ Written(kernels[8]) = Places("profiles", "value", ProfileNames, {level})
    BY <1>a, <1>8, ProfilesFit
  <2>2. K7 \subseteq K8 /\ Written(kernels[8]) \subseteq K8
    BY GrownParts
  <2>3. Knows(done[8], K8, id, level, more)
    BY <1>7, <1>8, <2>1, KnowsMore
  <2>4. Has(K8, "profiles", "value", ProfileNames, {level})
    BY <2>1, <2>2, HasPlaces
  <2> QED
    BY <2>2, <2>3, <2>4
<1> HIDE DEF K8
<1>10. base \subseteq next /\ Level(next)
  <2>1. base \subseteq K8
    BY <1>6, <1>8, <1>9
  <2> QED
    BY <2>1 DEF Level
<1>11. Has(next, "profiles", "value", ProfileNames, {level})
  BY <1>9 DEF Has
<1>12. Knows(out, next, id, 0, more)
  <2>1. Knows(out, next, id, level, more)
    BY <1>7, <1>9, WithinFewer DEF Knows
  <2> QED
    BY <1>10, <2>1, KnowsLevels
<1>13. ASSUME NEW x \in LiveSlots, x[1] \notin {"curvatureScratch", "profiles"}
       PROVE  out[x] = memory[x]
  <2>1. /\ Only(kernels[1], {s})
        /\ \A i \in 1 .. 5 : Only(kernels[i + 1], {s})
        /\ Only(kernels[7], {s}) /\ Only(kernels[8], {"profiles"})
    <3>1. Only(kernels[1], {s}) /\ \A i \in 1 .. 5 : Only(kernels[i + 1], {s})
      BY <1>a, ConnectionOnly
    <3>2. Only(kernels[7], {s})
      BY <1>a, OnlyOf DEF ConnectionAngular
    <3>3. Only(kernels[8], {"profiles"})
      BY <1>a, <1>8, ProfilesFit
    <3> QED
      BY <3>1, <3>2, <3>3
  <2>2. \A n \in 1 .. 8 : n = 1 \/ n = 7 \/ n = 8 \/ \E i \in 1 .. 5 : n = i + 1
    <3>1. \A n \in 1 .. 8 : n = 1 \/ n = 7 \/ n = 8 \/ n - 1 \in 1 .. 5
      OBVIOUS
    <3>2. \A n \in 1 .. 8 : n = (n - 1) + 1
      OBVIOUS
    <3> QED
      BY <3>1, <3>2
  <2>3. \A n \in 1 .. 8 : x \notin Written(kernels[n])
    BY <1>13, <2>1, <2>2, OnlyElsewhere
  <2>4. {x} \subseteq DOMAIN memory
    BY DEF Knows
  <2>5. Spares(kernels, {x})
    BY <1>a, <2>3 DEF Spares
  <2>6. \A y \in {x} : RunFault(memory, kernels, fault)[y] = memory[y]
    BY <1>0, <2>4, <2>5, RunFaultElsewhere
  <2> QED
    BY <2>6
<1> QED
  BY <1>10, <1>11, <1>12, <1>13 DEF Profiled, Leaves

LEMMA LevelRun ==
  ASSUME NEW level \in 0 .. 2, NEW memory, NEW base, Packable(base, "tower", level), Level(base),
         NEW fault, NEW id, NEW more \in Extra, Spared(fault, more), NEW ready \in BOOLEAN,
         Knows(memory, base, id, 0, more)
  PROVE  LET out == RunFault(memory, LevelKernels(level, ready), fault)
         IN  Profiled(out, base, level, id, more) /\ Leaves(out, memory, {"curvatureScratch", "profiles"})
  BY LevelRunOf, LevelList

-----------------------------------------------------------------------------
(* The curvature and its derivatives *)

\* The slots of each view.
LEMMA ViewSlots ==
  ASSUME NEW s \in LiveSlots
  PROVE  /\ s[1] = "tower" => s[2] \in All("value", ReconstructionFields, 0 .. 4)
         /\ s[1] \in {"routeb", "givenMetric"} => s[2] \in All("value", ReconstructionFields, 0 .. 2)
         /\ s[1] \in {"curvatureScratch", "primitiveScratch"} => s[2] \in ScratchQuantities
         /\ s[1] = "profiles" => s[2] \in All("value", ProfileNames, 0 .. 2)
         /\ s[1] = "curvature" => s[2] \in CurvatureQuantities \cup All("dr", {"Z0", "Z1"}, 0 .. 1)
         /\ s[1] = "derivatives" => s[2] \in DerivativeQuantities
         /\ s[1] = "primitive" => s[2] \in PrimitivesOwned \cup CurvaturePrimitives
         /\ s[1] = "jk" => s[2] \in MetricDerivativesOwned \cup TransportOwned
         /\ s[1] = "q" => s[2] \in QQuantities
         /\ s[1] \in {"sums", "projected"} => s[2] \in Sums
         /\ s[1] = "families" => s[2] \in Families
         /\ s[1] = "outer" => s[2] \in OuterQuantities
         /\ s[1] = "source" => s[2] \in SourceQuantities
         /\ s[1] = "forcing" => s[2] = Value("Forcing", 0)
         /\ s[1] = "givenCurvature" => s[2] \in CurvatureQuantities
         /\ s[1] = "givenDerivatives" => s[2] \in DerivativeQuantities
<1>1. \/ s \in CurvatureSlots \/ s \in PrimitiveSlots \/ s \in SourceSlots
      \/ s \in LinearSlots \/ s \in GivenSlots
  BY DEF LiveSlots
<1>2. CASE s \in CurvatureSlots
  BY <1>2 DEF CurvatureSlots
<1>3. CASE s \in PrimitiveSlots
  BY <1>3 DEF PrimitiveSlots
<1>4. CASE s \in SourceSlots
  BY <1>4 DEF SourceSlots
<1>5. CASE s \in LinearSlots
  BY <1>5 DEF LinearSlots
<1>6. CASE s \in GivenSlots
  BY <1>6 DEF GivenSlots
<1> QED
  BY <1>1, <1>2, <1>3, <1>4, <1>5, <1>6

LEMMA CurvaturePlaces ==
  /\ Places("curvature", "value", {"Z0", "Z1"}, 0 .. 2) \subseteq LiveSlots
  /\ Places("curvature", "dr", {"Z0", "Z1"}, 0 .. 1) \subseteq LiveSlots
  /\ Places("derivatives", "ethprime", {"Z1"}, 0 .. 1) \subseteq LiveSlots
  /\ Places("derivatives", "eth", {"Z0"}, 0 .. 1) \subseteq LiveSlots
  /\ Places("derivatives", "delta", {"Z0", "Z1"}, 0 .. 1) \subseteq LiveSlots
<1>1. CurvatureSlots \subseteq LiveSlots
  BY DEF LiveSlots
<1>2. /\ {"curvature"} \X (CurvatureQuantities \cup All("dr", {"Z0", "Z1"}, 0 .. 1)) \subseteq CurvatureSlots
      /\ {"derivatives"} \X DerivativeQuantities \subseteq CurvatureSlots
  BY DEF CurvatureSlots
<1>3. /\ Places("curvature", "value", {"Z0", "Z1"}, 0 .. 2) \subseteq CurvatureSlots
      /\ Places("curvature", "dr", {"Z0", "Z1"}, 0 .. 1) \subseteq CurvatureSlots
  BY <1>2 DEF Places, CurvatureQuantities
<1>4. /\ Places("derivatives", "ethprime", {"Z1"}, 0 .. 1) \subseteq CurvatureSlots
      /\ Places("derivatives", "eth", {"Z0"}, 0 .. 1) \subseteq CurvatureSlots
      /\ Places("derivatives", "delta", {"Z0", "Z1"}, 0 .. 1) \subseteq CurvatureSlots
  BY <1>2 DEF Places, DerivativeQuantities
<1> QED
  BY <1>1, <1>3, <1>4

LEMMA ExtractFits ==
  ASSUME NEW known, Has(known, "profiles", "value", ProfileNames, 0 .. 2)
  PROVE  /\ Fits(Extract, known, 0)
         /\ Written(Extract) = Places("curvature", "value", {"Z0", "Z1"}, 0 .. 2)
         /\ Only(Extract, {"curvature"})
<1> DEFINE Z == {"Z0", "Z1"}
           F(z) == IF z = "Z0" THEN {"F0", "Z0Regular"} ELSE {"F1", "Z1Regular"}
           R(z, k) == [slot |-> <<"curvature", Value(z, k)>>, raise |-> 0,
                       reads |-> {Own("profiles", Value(f, k)) : f \in F(z)}]
<1>1. ASSUME NEW r \in Extract PROVE \E z \in Z, k \in 0 .. 2 : r = R(z, k)
  <2>1. PICK p \in Z \X (0 .. 2) : r = R(p[1], p[2])
    BY DEF Extract
  <2>2. p[1] \in Z /\ p[2] \in 0 .. 2
    OBVIOUS
  <2> HIDE DEF R, Z
  <2> QED
    BY <2>1, <2>2
<1>2. ASSUME NEW z \in Z, NEW k \in 0 .. 2 PROVE R(z, k) \in Extract
  <2> DEFINE p == <<z, k>>
  <2>1. p \in Z \X (0 .. 2) /\ p[1] = z /\ p[2] = k
    OBVIOUS
  <2>2. R(p[1], p[2]) \in Extract
    BY <2>1 DEF Extract
  <2> HIDE DEF R, p
  <2> QED
    BY <2>1, <2>2
<1>3. ASSUME NEW z \in Z, NEW k \in 0 .. 2
      PROVE  /\ R(z, k).slot = <<"curvature", Quantity("value", z, k)>> /\ R(z, k).raise = 0
             /\ \A q \in R(z, k).reads : \E f \in ProfileNames :
                  /\ q.slot = <<"profiles", Quantity("value", f, k)>>
                  /\ q.sign = 1 /\ q.rate = 0
  <2>1. F(z) \subseteq ProfileNames
    BY DEF ProfileNames
  <2>2. \A f : /\ Own("profiles", Value(f, k)).slot = <<"profiles", Quantity("value", f, k)>>
               /\ Own("profiles", Value(f, k)).sign = 1 /\ Own("profiles", Value(f, k)).rate = 0
    BY DEF Own, Value
  <2>3. \A q \in R(z, k).reads : \E f \in F(z) : q = Own("profiles", Value(f, k))
    OBVIOUS
  <2>4. R(z, k).slot = <<"curvature", Quantity("value", z, k)>> /\ R(z, k).raise = 0
    BY DEF Value
  <2> HIDE DEF R, F
  <2> QED
    BY <2>1, <2>2, <2>3, <2>4
<1> HIDE DEF R, Z, F
<1>4. Written(Extract) = Places("curvature", "value", Z, 0 .. 2)
  <2>1. \A x : x \in Written(Extract) <=> \E r \in Extract : x = r.slot
    BY DEF Written
  <2>2. \A q : q \in All("value", Z, 0 .. 2) <=> \E z \in Z, k \in 0 .. 2 : q = Quantity("value", z, k)
    BY InAll
  <2>3. ASSUME NEW x \in Written(Extract) PROVE x \in Places("curvature", "value", Z, 0 .. 2)
    <3>1. PICK r \in Extract : x = r.slot
      BY <2>1
    <3>2. PICK z \in Z, k \in 0 .. 2 : r = R(z, k)
      BY <1>1
    <3>3. x = <<"curvature", Quantity("value", z, k)>>
      BY <1>3, <3>1, <3>2
    <3> QED
      BY <2>2, <3>3 DEF Places
  <2>4. ASSUME NEW x \in Places("curvature", "value", Z, 0 .. 2) PROVE x \in Written(Extract)
    <3>1. x = <<"curvature", x[2]>> /\ x[2] \in All("value", Z, 0 .. 2)
      BY DEF Places
    <3>2. PICK z \in Z, k \in 0 .. 2 : x[2] = Quantity("value", z, k)
      BY <2>2, <3>1
    <3>3. R(z, k) \in Extract /\ x = R(z, k).slot
      BY <1>2, <1>3, <3>1, <3>2
    <3> QED
      BY <2>1, <3>3
  <2> QED
    BY <2>3, <2>4
<1>5. Fits(Extract, known, 0)
  <2>0. Written(Extract) \subseteq LiveSlots
    BY <1>4, CurvaturePlaces DEF Z
  <2> SUFFICES ASSUME NEW r \in Extract, NEW q \in r.reads
               PROVE  /\ q.slot \in known
                      /\ q.sign \in {1, -1} /\ q.rate \in Int /\ r.raise \in Int
                      /\ RateOf(q.slot, 0) + r.raise - q.rate = RateOf(r.slot, 0)
                      /\ q.slot[1] \in SummedViews <=> r.slot[1] \in SummedViews
                      /\ q.slot[1] \in SummedViews => q.sign = 1
    BY <2>0 DEF Fits
  <2>1. PICK z \in Z, k \in 0 .. 2 : r = R(z, k)
    BY <1>1
  <2>2. /\ r.slot = <<"curvature", Quantity("value", z, k)>> /\ r.raise = 0
        /\ \A y \in r.reads : \E f \in ProfileNames :
                  /\ y.slot = <<"profiles", Quantity("value", f, k)>>
                  /\ y.sign = 1 /\ y.rate = 0
    BY <1>3, <2>1
  <2>3. PICK f \in ProfileNames : /\ q.slot = <<"profiles", Quantity("value", f, k)>>
                                  /\ q.sign = 1 /\ q.rate = 0
    BY <2>2
  <2>4. q.slot \in known
    BY <2>3 DEF Has
  <2>5. RateOf(q.slot, 0) = k + 0 /\ RateOf(r.slot, 0) = k + 0
    BY <2>2, <2>3, RateParts DEF Ahead
  <2>6. "profiles" \notin SummedViews /\ "curvature" \notin SummedViews
    BY DEF SummedViews
  <2>7. RateOf(q.slot, 0) + r.raise - q.rate = RateOf(r.slot, 0)
    BY <2>2, <2>3, <2>5
  <2> QED
    BY <2>2, <2>3, <2>4, <2>6, <2>7
<1>6. Only(Extract, {"curvature"})
  <2> SUFFICES ASSUME NEW r \in Extract PROVE r.slot[1] = "curvature"
    BY DEF Only
  <2>1. PICK z \in Z, k \in 0 .. 2 : r = R(z, k)
    BY <1>1
  <2> QED
    BY <1>3, <2>1
<1> QED
  BY <1>4, <1>5, <1>6 DEF Z

LEMMA CurvatureRadialFits ==
  ASSUME NEW known, Has(known, "curvature", "value", {"Z0", "Z1"}, 0 .. 2)
  PROVE  /\ Fits(CurvatureRadial, known, 0)
         /\ Written(CurvatureRadial) = Places("curvature", "dr", {"Z0", "Z1"}, 0 .. 1)
         /\ Only(CurvatureRadial, {"curvature"})
<1> DEFINE Z == {"Z0", "Z1"}
<1>1. Places("curvature", "dr", Z, 0 .. 1) \subseteq LiveSlots
  BY CurvaturePlaces
<1>2. CurvatureRadial = Radial("curvature", Z, 0 .. 1)
  BY DEF CurvatureRadial
<1> HIDE DEF Z
<1>3. 0 .. 1 \in SUBSET (0 .. 2) /\ Z \in SUBSET Z /\ 0 \in 0 .. 2
  BY Shifted
<1>4. Has(known, "curvature", "value", Z, 0 .. 1)
  BY <1>3, HasFewer DEF Z
<1>5. /\ Fits(Radial("curvature", Z, 0 .. 1), known, 0)
      /\ Written(Radial("curvature", Z, 0 .. 1)) = Places("curvature", "dr", Z, 0 .. 1)
  BY <1>1, <1>3, <1>4, RadialFits
<1>6. Only(CurvatureRadial, {"curvature"})
  BY <1>2, OnlyOf
<1> QED
  BY <1>2, <1>5, <1>6 DEF Z

\* One operator on one field, from the curvature to its derivatives.
LEMMA DerivedFits ==
  ASSUME NEW kernel, NEW op, NEW fields, NEW W,
         \A r : r \in kernel <=>
                  \E p \in fields \X (0 .. 1) : r = Derived(op, p[1], p[2], W[p]),
         NEW known,
         \A p \in fields \X (0 .. 1) :
           \A q \in W[p] : KnownRead(q, "curvature", known),
         Places("derivatives", op, fields, 0 .. 1) \subseteq LiveSlots
  PROVE  /\ Fits(kernel, known, 0)
         /\ Written(kernel) = Places("derivatives", op, fields, 0 .. 1)
         /\ Only(kernel, {"derivatives"})
<1>1. \A r : r \in kernel <=>
               \E p \in fields \X (0 .. 1) : r = Put("derivatives", op, p[1], p[2], W[p])
  BY DEF Derived
<1>2. PutsAll(kernel, "curvature", "derivatives", op, fields, 0 .. 1, known)
  BY <1>1, PutsAllOf
<1>3. /\ 0 .. 1 \in SUBSET (0 .. 2) /\ 0 \in 0 .. 2
      /\ Ahead("curvature", 0) = Ahead("derivatives", 0)
      /\ ("curvature" \in SummedViews <=> "derivatives" \in SummedViews)
  BY Shifted DEF Ahead, SummedViews
<1>4. Fits(kernel, known, 0) /\ Written(kernel) = Places("derivatives", op, fields, 0 .. 1)
  BY <1>2, <1>3, PutAllFit
<1>5. Only(kernel, {"derivatives"})
  <2> SUFFICES ASSUME NEW r \in kernel PROVE r.slot[1] = "derivatives"
    BY DEF Only
  <2>1. PICK p \in fields \X (0 .. 1) : r = Put("derivatives", op, p[1], p[2], W[p])
    BY <1>1
  <2> QED
    BY <2>1 DEF Put
<1> QED
  BY <1>4, <1>5

LEMMA CurvatureReads ==
  ASSUME NEW known, Has(known, "curvature", "value", {"Z0", "Z1"}, 0 .. 2),
         NEW f \in {"Z0", "Z1"}, NEW k \in 0 .. 1
  PROVE  /\ \A q \in WithRate("curvature", f, k) : KnownRead(q, "curvature", known)
         /\ Has(known, "curvature", "dr", {"Z0", "Z1"}, 0 .. 1) =>
              KnownRead(At("curvature", "dr", f, k), "curvature", known)
<1>1. k \in 0 .. 2 /\ k + 1 \in 0 .. 2 /\ k \in 0 .. 4 /\ k + 1 \in 0 .. 4
  OBVIOUS
<1>2. /\ <<"curvature", Quantity("value", f, k)>> \in known
      /\ <<"curvature", Quantity("value", f, k + 1)>> \in known
  BY <1>1 DEF Has
<1>3. Has(known, "curvature", "dr", {"Z0", "Z1"}, 0 .. 1) =>
        <<"curvature", Quantity("dr", f, k)>> \in known
  BY DEF Has
<1>4. \A q \in WithRate("curvature", f, k) :
        q = At("curvature", "value", f, k) \/ q = At("curvature", "value", f, k + 1)
  BY DEF WithRate
<1> QED
  BY <1>1, <1>2, <1>3, <1>4 DEF KnownRead

LEMMA CurvatureAngularFits ==
  ASSUME NEW known, Has(known, "curvature", "value", {"Z0", "Z1"}, 0 .. 2)
  PROVE  /\ Fits(CurvatureAngular, known, 0)
         /\ Written(CurvatureAngular) = Places("derivatives", "ethprime", {"Z1"}, 0 .. 1) \cup
                                        Places("derivatives", "eth", {"Z0"}, 0 .. 1)
         /\ Only(CurvatureAngular, {"derivatives"})
<1> DEFINE A == {Derived("ethprime", "Z1", k, WithRate("curvature", "Z1", k)) : k \in 0 .. 1}
           B == {Derived("eth", "Z0", k, WithRate("curvature", "Z0", k)) : k \in 0 .. 1}
           V == [p \in {"Z1"} \X (0 .. 1) |-> WithRate("curvature", p[1], p[2])]
           W == [p \in {"Z0"} \X (0 .. 1) |-> WithRate("curvature", p[1], p[2])]
<1>1. CurvatureAngular = A \cup B
  BY DEF CurvatureAngular
<1>2. \A f : \A p \in {f} \X (0 .. 1) : p[1] = f /\ p[2] \in 0 .. 1
  OBVIOUS
<1>3. \A f : \A k \in 0 .. 1 : /\ <<f, k>> \in {f} \X (0 .. 1)
                               /\ <<f, k>>[1] = f /\ <<f, k>>[2] = k
  OBVIOUS
<1>4. /\ \A p \in {"Z1"} \X (0 .. 1) : V[p] = WithRate("curvature", "Z1", p[2])
      /\ \A p \in {"Z0"} \X (0 .. 1) : W[p] = WithRate("curvature", "Z0", p[2])
  BY <1>2
<1>5. \A r : r \in A <=> \E k \in 0 .. 1 : r = Derived("ethprime", "Z1", k, WithRate("curvature", "Z1", k))
  OBVIOUS
<1>6. \A r : r \in B <=> \E k \in 0 .. 1 : r = Derived("eth", "Z0", k, WithRate("curvature", "Z0", k))
  OBVIOUS
<1> HIDE DEF A, B, V, W
<1>7. \A r : r \in A <=> \E p \in {"Z1"} \X (0 .. 1) : r = Derived("ethprime", p[1], p[2], V[p])
  <2>1. ASSUME NEW r \in A
        PROVE  \E p \in {"Z1"} \X (0 .. 1) : r = Derived("ethprime", p[1], p[2], V[p])
    <3>1. PICK k \in 0 .. 1 : r = Derived("ethprime", "Z1", k, WithRate("curvature", "Z1", k))
      BY <1>5
    <3> DEFINE w == <<"Z1", k>>
    <3>2. w \in {"Z1"} \X (0 .. 1) /\ w[1] = "Z1" /\ w[2] = k
      BY <1>3
    <3> HIDE DEF w
    <3>3. V[w] = WithRate("curvature", "Z1", k)
      BY <1>4, <3>2
    <3> QED
      BY <3>1, <3>2, <3>3
  <2>2. ASSUME NEW p \in {"Z1"} \X (0 .. 1), NEW r, r = Derived("ethprime", p[1], p[2], V[p])
        PROVE  r \in A
    BY <1>2, <1>4, <1>5, <2>2
  <2> QED
    BY <2>1, <2>2
<1>8. \A r : r \in B <=> \E p \in {"Z0"} \X (0 .. 1) : r = Derived("eth", p[1], p[2], W[p])
  <2>1. ASSUME NEW r \in B
        PROVE  \E p \in {"Z0"} \X (0 .. 1) : r = Derived("eth", p[1], p[2], W[p])
    <3>1. PICK k \in 0 .. 1 : r = Derived("eth", "Z0", k, WithRate("curvature", "Z0", k))
      BY <1>6
    <3> DEFINE w == <<"Z0", k>>
    <3>2. w \in {"Z0"} \X (0 .. 1) /\ w[1] = "Z0" /\ w[2] = k
      BY <1>3
    <3> HIDE DEF w
    <3>3. W[w] = WithRate("curvature", "Z0", k)
      BY <1>4, <3>2
    <3> QED
      BY <3>1, <3>2, <3>3
  <2>2. ASSUME NEW p \in {"Z0"} \X (0 .. 1), NEW r, r = Derived("eth", p[1], p[2], W[p])
        PROVE  r \in B
    BY <1>2, <1>4, <1>6, <2>2
  <2> QED
    BY <2>1, <2>2
<1>9. /\ \A p \in {"Z1"} \X (0 .. 1) : \A q \in V[p] : KnownRead(q, "curvature", known)
      /\ \A p \in {"Z0"} \X (0 .. 1) : \A q \in W[p] : KnownRead(q, "curvature", known)
  BY <1>2, <1>4, CurvatureReads
<1>10. /\ Fits(A, known, 0) /\ Written(A) = Places("derivatives", "ethprime", {"Z1"}, 0 .. 1)
       /\ Only(A, {"derivatives"})
  BY <1>7, <1>9, CurvaturePlaces, DerivedFits, SMTT(40)
<1>11. /\ Fits(B, known, 0) /\ Written(B) = Places("derivatives", "eth", {"Z0"}, 0 .. 1)
       /\ Only(B, {"derivatives"})
  BY <1>8, <1>9, CurvaturePlaces, DerivedFits
<1>12. Fits(A \cup B, known, 0) /\ Written(A \cup B) = Written(A) \cup Written(B)
  BY <1>10, <1>11, FitsBoth
<1>13. Only(A \cup B, {"derivatives"})
  BY <1>10, <1>11 DEF Only
<1> QED
  BY <1>1, <1>10, <1>11, <1>12, <1>13

LEMMA CurvatureDeltaFits ==
  ASSUME NEW known, Has(known, "curvature", "value", {"Z0", "Z1"}, 0 .. 2),
         Has(known, "curvature", "dr", {"Z0", "Z1"}, 0 .. 1)
  PROVE  /\ Fits(CurvatureDelta, known, 0)
         /\ Written(CurvatureDelta) = Places("derivatives", "delta", {"Z0", "Z1"}, 0 .. 1)
         /\ Only(CurvatureDelta, {"derivatives"})
<1> DEFINE Z == {"Z0", "Z1"}
           W == [p \in Z \X (0 .. 1) |->
                   WithRate("curvature", p[1], p[2]) \cup {At("curvature", "dr", p[1], p[2])}]
<1>1. \A r : r \in CurvatureDelta <=>
               \E p \in Z \X (0 .. 1) : r = Derived("delta", p[1], p[2], W[p])
  BY DEF CurvatureDelta
<1>2. \A p \in Z \X (0 .. 1) : p[1] \in Z /\ p[2] \in 0 .. 1
  OBVIOUS
<1>3. \A p \in Z \X (0 .. 1) : \A q \in W[p] :
        q \in WithRate("curvature", p[1], p[2]) \/ q = At("curvature", "dr", p[1], p[2])
  OBVIOUS
<1>4. Places("derivatives", "delta", Z, 0 .. 1) \subseteq LiveSlots
  BY CurvaturePlaces
<1> HIDE DEF W
<1>5. \A p \in Z \X (0 .. 1) : \A q \in W[p] : KnownRead(q, "curvature", known)
  BY <1>2, <1>3, CurvatureReads
<1> HIDE DEF Z
<1>6. /\ Fits(CurvatureDelta, known, 0)
      /\ Written(CurvatureDelta) = Places("derivatives", "delta", Z, 0 .. 1)
      /\ Only(CurvatureDelta, {"derivatives"})
  BY <1>1, <1>4, <1>5, DerivedFits
<1> QED
  BY <1>6 DEF Z

LEMMA CurvatureRunOf ==
  ASSUME NEW kernels, kernels = <<Extract, CurvatureRadial, CurvatureAngular, CurvatureDelta>>,
         NEW memory, NEW base, Has(base, "profiles", "value", ProfileNames, 0 .. 2), Level(base),
         NEW fault, NEW id, NEW more \in Extra, Spared(fault, more),
         Knows(memory, base, id, 0, more),
         NEW out, out = RunFault(memory, kernels, fault)
  PROVE  CurvatureMade(out, base, id, more) /\ Leaves(out, memory, {"curvature", "derivatives"})
<1>1. /\ Len(kernels) = 4 /\ Len(kernels) \in Nat
      /\ kernels[1] = Extract /\ kernels[2] = CurvatureRadial
      /\ kernels[3] = CurvatureAngular /\ kernels[4] = CurvatureDelta
  OBVIOUS
<1>2. PICK done : FaultPasses(memory, kernels, fault, done)
  BY <1>1, RunFaultSteps
<1>3. /\ done[0] = memory /\ out = done[4]
      /\ done[1] = AfterFault(done[0], kernels[1], fault)
      /\ done[2] = AfterFault(done[1], kernels[2], fault)
      /\ done[3] = AfterFault(done[2], kernels[3], fault)
      /\ done[4] = AfterFault(done[3], kernels[4], fault)
  BY <1>1, <1>2 DEF FaultPasses
<1>0. 0 \in 0 .. 2
  OBVIOUS
<1> DEFINE K1 == Grown(base, kernels[1])
           K2 == Grown(K1, kernels[2])
           K3 == Grown(K2, kernels[3])
           K4 == Grown(K3, kernels[4])
           Z == {"Z0", "Z1"}
<1>4. /\ Knows(done[1], K1, id, 0, more) /\ base \subseteq K1
      /\ Has(K1, "curvature", "value", Z, 0 .. 2)
  <2>1. /\ Fits(kernels[1], base, 0)
        /\ Written(kernels[1]) = Places("curvature", "value", Z, 0 .. 2)
    BY <1>1, ExtractFits
  <2>2. base \subseteq K1 /\ Written(kernels[1]) \subseteq K1
    BY GrownParts
  <2>3. Knows(done[1], K1, id, 0, more)
    BY <1>0, <1>3, <2>1, KnowsMore
  <2>4. Has(K1, "curvature", "value", Z, 0 .. 2)
    BY <2>1, <2>2, HasPlaces
  <2> QED
    BY <2>2, <2>3, <2>4
<1> HIDE DEF K1
<1>5. /\ Knows(done[2], K2, id, 0, more) /\ base \subseteq K2
      /\ Has(K2, "curvature", "value", Z, 0 .. 2)
      /\ Has(K2, "curvature", "dr", Z, 0 .. 1)
  <2>1. /\ Fits(kernels[2], K1, 0)
        /\ Written(kernels[2]) = Places("curvature", "dr", Z, 0 .. 1)
    BY <1>1, <1>4, CurvatureRadialFits
  <2>2. K1 \subseteq K2 /\ Written(kernels[2]) \subseteq K2
    BY GrownParts
  <2>3. Knows(done[2], K2, id, 0, more)
    BY <1>0, <1>3, <1>4, <2>1, KnowsMore
  <2>4. Has(K2, "curvature", "dr", Z, 0 .. 1)
    BY <2>1, <2>2, HasPlaces
  <2>5. Has(K2, "curvature", "value", Z, 0 .. 2)
    BY <1>4, <2>2, HasMore
  <2> QED
    BY <1>4, <2>2, <2>3, <2>4, <2>5
<1> HIDE DEF K2
<1>6. /\ Knows(done[3], K3, id, 0, more) /\ base \subseteq K3
      /\ Has(K3, "curvature", "value", Z, 0 .. 2)
      /\ Has(K3, "curvature", "dr", Z, 0 .. 1)
      /\ Has(K3, "derivatives", "ethprime", {"Z1"}, 0 .. 1)
      /\ Has(K3, "derivatives", "eth", {"Z0"}, 0 .. 1)
  <2>1. /\ Fits(kernels[3], K2, 0)
        /\ Written(kernels[3]) = Places("derivatives", "ethprime", {"Z1"}, 0 .. 1) \cup
                                 Places("derivatives", "eth", {"Z0"}, 0 .. 1)
    BY <1>1, <1>5, CurvatureAngularFits
  <2>2. K2 \subseteq K3 /\ Written(kernels[3]) \subseteq K3
    BY GrownParts
  <2>3. Knows(done[3], K3, id, 0, more)
    BY <1>0, <1>3, <1>5, <2>1, KnowsMore
  <2>4. /\ Places("derivatives", "ethprime", {"Z1"}, 0 .. 1) \subseteq K3
        /\ Places("derivatives", "eth", {"Z0"}, 0 .. 1) \subseteq K3
    BY <2>1, <2>2
  <2>5. /\ Has(K3, "curvature", "value", Z, 0 .. 2)
        /\ Has(K3, "curvature", "dr", Z, 0 .. 1)
    BY <1>5, <2>2, HasMore
  <2>6. /\ Has(K3, "derivatives", "ethprime", {"Z1"}, 0 .. 1)
        /\ Has(K3, "derivatives", "eth", {"Z0"}, 0 .. 1)
    BY <2>4, HasPlaces
  <2> QED
    BY <1>5, <2>2, <2>3, <2>5, <2>6
<1> HIDE DEF K3
<1>7. /\ Knows(done[4], K4, id, 0, more) /\ base \subseteq K4 /\ CurvatureKnown(K4)
  <2>1. /\ Fits(kernels[4], K3, 0)
        /\ Written(kernels[4]) = Places("derivatives", "delta", Z, 0 .. 1)
    BY <1>1, <1>6, CurvatureDeltaFits
  <2>2. K3 \subseteq K4 /\ Written(kernels[4]) \subseteq K4
    BY GrownParts
  <2>3. Knows(done[4], K4, id, 0, more)
    BY <1>0, <1>3, <1>6, <2>1, KnowsMore
  <2>4. Has(K4, "derivatives", "delta", Z, 0 .. 1)
    BY <2>1, <2>2, HasPlaces
  <2>5. /\ Has(K4, "curvature", "value", Z, 0 .. 2)
        /\ Has(K4, "curvature", "dr", Z, 0 .. 1)
    BY <1>6, <2>2, HasMore
  <2>6. /\ Has(K4, "derivatives", "ethprime", {"Z1"}, 0 .. 1)
        /\ Has(K4, "derivatives", "eth", {"Z0"}, 0 .. 1)
    BY <1>6, <2>2, HasMore
  <2> QED
    BY <1>6, <2>2, <2>3, <2>4, <2>5, <2>6 DEF CurvatureKnown
<1> HIDE DEF K4
<1> DEFINE next == {x \in K4 : x[1] # "curvatureScratch"}
<1>8. /\ base \subseteq next /\ Level(next) /\ CurvatureKnown(next)
  <2>1. base \subseteq next
    BY <1>7 DEF Level
  <2>2. CurvatureKnown(next)
    BY <1>7 DEF CurvatureKnown, Has
  <2> QED
    BY <2>1, <2>2 DEF Level
<1>9. Knows(out, next, id, 0, more)
  BY <1>3, <1>7, WithinFewer DEF Knows
<1>10. Leaves(out, memory, {"curvature", "derivatives"})
  <2> SUFFICES ASSUME NEW x \in LiveSlots, x[1] \notin {"curvature", "derivatives"}
               PROVE  out[x] = memory[x]
    BY DEF Leaves
  <2>1. /\ Only(kernels[1], {"curvature"}) /\ Only(kernels[2], {"curvature"})
        /\ Only(kernels[3], {"derivatives"}) /\ Only(kernels[4], {"derivatives"})
    BY <1>1, <1>4, <1>5, <1>6, ExtractFits, CurvatureRadialFits, CurvatureAngularFits,
       CurvatureDeltaFits
  <2>2. \A n \in 1 .. 4 : n = 1 \/ n = 2 \/ n = 3 \/ n = 4
    OBVIOUS
  <2>3. \A n \in 1 .. 4 : x \notin Written(kernels[n])
    BY <2>1, <2>2, OnlyElsewhere
  <2>4. {x} \subseteq DOMAIN memory
    BY DEF Knows
  <2>5. Spares(kernels, {x})
    BY <1>1, <2>3 DEF Spares
  <2>6. \A y \in {x} : RunFault(memory, kernels, fault)[y] = memory[y]
    BY <1>1, <2>4, <2>5, RunFaultElsewhere
  <2> QED
    BY <2>6
<1> HIDE DEF next
<1> QED
  BY <1>8, <1>9, <1>10 DEF CurvatureMade

-----------------------------------------------------------------------------
(* Devices *)

LEMMA ShapeWithMem ==
  ASSUME NEW d, Shape(d), NEW mem, DOMAIN mem = LiveSlots
  PROVE  /\ Shape([d EXCEPT !.mem = mem])
         /\ [d EXCEPT !.mem = mem].mem = mem
         /\ [d EXCEPT !.mem = mem].stamp = d.stamp
         /\ [d EXCEPT !.mem = mem].ready = d.ready
<1>1. DOMAIN d = {"mem", "stamp", "ready"} /\ DOMAIN d.stamp = StampKeys
  BY DEF Shape
<1> DEFINE e == [d EXCEPT !.mem = mem]
<1>2. DOMAIN e = DOMAIN d /\ e.mem = mem /\ e.stamp = d.stamp /\ e.ready = d.ready
  BY <1>1
<1> HIDE DEF e
<1>3. Shape(e)
  BY <1>1, <1>2 DEF Shape
<1> QED
  BY <1>2, <1>3 DEF e

LEMMA SettledParts ==
  ASSUME NEW d, Shape(d), NEW view, <<view, 0>> \in StampKeys, NEW Q, NEW ready \in BOOLEAN, NEW g
  PROVE  SettledAs(d, Settled(d, view, Q, ready, g), view, Q, ready, g)
<1> DEFINE slots == {<<view, q>> : q \in Q}
           mem == IF ready THEN d.mem
                  ELSE [s \in DOMAIN d.mem |-> IF s \in slots THEN Zero ELSE d.mem[s]]
           e == [d EXCEPT !.mem = mem]
           n == IF ready THEN g ELSE 0
           out == [e EXCEPT !.stamp[<<view, 0>>] = [m \in Modes |-> n]]
<1>1. Settled(d, view, Q, ready, g) = out
  BY DEF Settled, Stamped
<1>2. \A s \in LiveSlots : s \in slots <=> s[1] = view /\ s[2] \in Q
  <2> SUFFICES ASSUME NEW s \in LiveSlots PROVE s \in slots <=> s[1] = view /\ s[2] \in Q
    OBVIOUS
  <2>1. s = <<s[1], s[2]>>
    BY LiveOrders
  <2>2. ASSUME s \in slots PROVE s[1] = view /\ s[2] \in Q
    BY <2>2
  <2>3. ASSUME s[1] = view, s[2] \in Q PROVE s \in slots
    <3>1. s = <<view, s[2]>>
      BY <2>1, <2>3
    <3> QED
      BY <2>3, <3>1
  <2> QED
    BY <2>2, <2>3
<1>3. DOMAIN mem = LiveSlots /\ \A s \in LiveSlots :
        mem[s] = IF ~ready /\ s[1] = view /\ s[2] \in Q THEN Zero ELSE d.mem[s]
  BY <1>2 DEF Shape
<1> HIDE DEF mem, slots
<1>4. Shape(e) /\ e.mem = mem /\ e.stamp = d.stamp /\ e.ready = d.ready
  BY <1>3, ShapeWithMem
<1> HIDE DEF e
<1>5. DOMAIN e = {"mem", "stamp", "ready"} /\ DOMAIN e.mem = LiveSlots /\ DOMAIN e.stamp = StampKeys
  BY <1>4 DEF Shape
<1>6. /\ DOMAIN out = DOMAIN e /\ out.mem = e.mem /\ out.ready = e.ready
      /\ DOMAIN out.stamp = DOMAIN e.stamp
      /\ \A k \in StampKeys : k # <<view, 0>> => out.stamp[k] = e.stamp[k]
      /\ out.stamp[<<view, 0>>] = [m \in Modes |-> n]
  BY <1>5
<1> HIDE DEF out
<1>7. Shape(out)
  BY <1>5, <1>6 DEF Shape
<1>8. Bears(out, <<view, 0>>, n)
  BY <1>6 DEF Bears
<1> QED
  BY <1>1, <1>3, <1>4, <1>6, <1>7, <1>8 DEF SettledAs

\* What is known stays known where outputs are emptied.
LEMMA SettledKnows ==
  ASSUME NEW d, NEW out, NEW view, NEW Q, NEW ready, NEW g, SettledAs(d, out, view, Q, ready, g),
         NEW known, NEW id, NEW level, NEW more, Knows(d.mem, known, id, level, more)
  PROVE  Knows(out.mem, known, id, level, more)
<1>1. /\ DOMAIN d.mem = LiveSlots /\ known \subseteq LiveSlots
      /\ Within(d.mem, known, Fresh(id, level, more))
  BY DEF Knows
<1>2. DOMAIN out.mem = LiveSlots
  BY DEF SettledAs, Shape
<1>3. ASSUME NEW s \in known, NEW m \in Modes
      PROVE  out.mem[s][m] \subseteq Fresh(id, level, more)[s][m]
  <2>1. s \in LiveSlots
    BY <1>1
  <2>2. out.mem[s] = Zero \/ out.mem[s] = d.mem[s]
    BY <2>1 DEF SettledAs
  <2>3. Zero[m] = {}
    BY DEF Zero
  <2>4. d.mem[s][m] \subseteq Fresh(id, level, more)[s][m]
    BY <1>1 DEF Within
  <2> QED
    BY <2>2, <2>3, <2>4
<1> QED
  BY <1>1, <1>2, <1>3 DEF Knows, Within

\* Nothing that is known is not finite, unless something has overflowed.
LEMMA FiniteKnown ==
  ASSUME NEW memory, NEW known, NEW id, NEW level, Knows(memory, known, id, level, {}),
         NEW view, NEW Q, \A q \in Q : <<view, q>> \in known
  PROVE  FiniteIn(memory, view, Q)
<1> SUFFICES ASSUME NEW q \in Q, NEW m \in Modes, NonFinite \in memory[<<view, q>>][m]
             PROVE  FALSE
  BY DEF FiniteIn
<1> DEFINE s == <<view, q>>
<1>1. s \in known /\ s \in LiveSlots
  BY DEF Knows
<1> HIDE DEF s
<1>2. NonFinite \in Fresh(id, level, {})[s][m]
  BY <1>1 DEF Knows, Within, s
<1>3. PICK f \in InputFields, n \in ModesAt(s[1], m) : NonFinite = InputOf(f, id, n, RateOf(s, level))
  BY <1>1, <1>2, FreshParts
<1> QED
  BY <1>3, MovedInput

\* One level, with the check of its profiles.
LEMMA LevelPassed ==
  ASSUME NEW level \in 0 .. 2, NEW r, r.ready \in BOOLEAN, NEW base,
         Packable(base, "tower", level), Level(base),
         NEW fault, NEW id, NEW more \in Extra, Spared(fault, more),
         Knows(r.mem, base, id, 0, more),
         NEW out, out = LevelPass(r, level, fault)
  PROVE  /\ Profiled(out.mem, base, level, id, more)
         /\ Leaves(out.mem, r.mem, {"curvatureScratch", "profiles"})
         /\ out.ready \in BOOLEAN /\ (out.ready => r.ready)
         /\ r.ready /\ more = {} => out.ready
<1> DEFINE mem == RunFault(r.mem, LevelKernels(level, r.ready), fault)
           Q == All("value", ProfileNames, {level})
<1>1. Profiled(mem, base, level, id, more) /\ Leaves(mem, r.mem, {"curvatureScratch", "profiles"})
  BY LevelRun
<1>2. out = [mem |-> mem, ready |-> r.ready /\ FiniteIn(mem, "profiles", Q)]
  BY DEF LevelPass
<1> HIDE DEF mem
<1>3. ASSUME more = {} PROVE FiniteIn(mem, "profiles", Q)
  <2>1. PICK next : Has(next, "profiles", "value", ProfileNames, {level}) /\ Knows(mem, next, id, 0, {})
    BY <1>1, <1>3 DEF Profiled
  <2>2. \A q \in Q : <<"profiles", q>> \in next
    BY <2>1, InAll DEF Has
  <2> QED
    BY <2>1, <2>2, FiniteKnown
<1> HIDE DEF Q
<1>4. out.mem = mem /\ out.ready = (r.ready /\ FiniteIn(mem, "profiles", Q))
  BY <1>2
<1>5. FiniteIn(mem, "profiles", Q) \in BOOLEAN
  BY DEF FiniteIn
<1>6. out.ready \in BOOLEAN /\ (out.ready => r.ready)
  BY <1>4, <1>5
<1>7. r.ready /\ more = {} => out.ready
  BY <1>3, <1>4
<1> QED
  BY <1>1, <1>4, <1>6, <1>7

\* The three passes and what follows them.
LEMMA LeavesAgain ==
  ASSUME NEW a, NEW b, NEW c, NEW v, NEW w, Leaves(b, a, v), Leaves(c, b, w)
  PROVE  Leaves(c, a, v \cup w)
  BY DEF Leaves

LEMMA PackableMore ==
  ASSUME NEW known, NEW more, known \subseteq more, NEW in, NEW first, Packable(known, in, first)
  PROVE  Packable(more, in, first)
  BY DEF Packable

LEMMA ThreeLevels ==
  ASSUME NEW mem, NEW ready \in BOOLEAN, NEW base, Level(base),
         \A l \in 0 .. 2 : Packable(base, "tower", l),
         NEW fault, NEW id, NEW more \in Extra, Spared(fault, more),
         Knows(mem, base, id, 0, more),
         NEW r0, r0 = LevelPass([mem |-> mem, ready |-> ready], 0, fault),
         NEW r1, r1 = LevelPass(r0, 1, fault), NEW r2, r2 = LevelPass(r1, 2, fault)
  PROVE  /\ Levelled(r2.mem, base, id, more)
         /\ Leaves(r2.mem, mem, LevelViews)
         /\ r2.ready \in BOOLEAN /\ (r2.ready => ready)
         /\ ready /\ more = {} => r2.ready
<1>0. 0 \in 0 .. 2 /\ 1 \in 0 .. 2 /\ 2 \in 0 .. 2 /\ \A l \in 0 .. 2 : l = 0 \/ l = 1 \/ l = 2
  OBVIOUS
<1> DEFINE r == [mem |-> mem, ready |-> ready]
<1>1. r.mem = mem /\ r.ready = ready /\ r0 = LevelPass(r, 0, fault)
  OBVIOUS
<1> HIDE DEF r
<1>2. /\ Profiled(r0.mem, base, 0, id, more) /\ Leaves(r0.mem, mem, LevelViews)
      /\ r0.ready \in BOOLEAN /\ (r0.ready => ready) /\ (ready /\ more = {} => r0.ready)
  <2>1. Packable(base, "tower", 0)
    BY <1>0
  <2> QED
    BY <1>0, <1>1, <2>1, LevelPassed DEF LevelViews
<1>3. PICK k0 : /\ base \subseteq k0 /\ Level(k0) /\ Has(k0, "profiles", "value", ProfileNames, {0})
                /\ Knows(r0.mem, k0, id, 0, more)
  BY <1>2 DEF Profiled
<1>4. /\ Profiled(r1.mem, k0, 1, id, more) /\ Leaves(r1.mem, r0.mem, LevelViews)
      /\ r1.ready \in BOOLEAN /\ (r1.ready => r0.ready) /\ (r0.ready /\ more = {} => r1.ready)
  <2>1. Packable(k0, "tower", 1)
    BY <1>0, <1>3, PackableMore
  <2> QED
    BY <1>0, <1>2, <1>3, <2>1, LevelPassed DEF LevelViews
<1>5. PICK k1 : /\ k0 \subseteq k1 /\ Level(k1) /\ Has(k1, "profiles", "value", ProfileNames, {1})
                /\ Knows(r1.mem, k1, id, 0, more)
  BY <1>4 DEF Profiled
<1>6. /\ Profiled(r2.mem, k1, 2, id, more) /\ Leaves(r2.mem, r1.mem, LevelViews)
      /\ r2.ready \in BOOLEAN /\ (r2.ready => r1.ready) /\ (r1.ready /\ more = {} => r2.ready)
  <2>1. Packable(k1, "tower", 2)
    BY <1>0, <1>3, <1>5, PackableMore
  <2> QED
    BY <1>0, <1>4, <1>5, <2>1, LevelPassed DEF LevelViews
<1>7. PICK k2 : /\ k1 \subseteq k2 /\ Level(k2) /\ Has(k2, "profiles", "value", ProfileNames, {2})
                /\ Knows(r2.mem, k2, id, 0, more)
  BY <1>6 DEF Profiled
<1>8. Has(k2, "profiles", "value", ProfileNames, 0 .. 2)
  <2>1. /\ Has(k2, "profiles", "value", ProfileNames, {0})
        /\ Has(k2, "profiles", "value", ProfileNames, {1})
    BY <1>3, <1>5, <1>7, HasMore
  <2> QED
    BY <1>0, <1>7, <2>1 DEF Has
<1>9. base \subseteq k2
  BY <1>3, <1>5, <1>7
<1>10. Levelled(r2.mem, base, id, more)
  BY <1>7, <1>8, <1>9 DEF Levelled
<1>11. Leaves(r2.mem, mem, LevelViews)
  <2>1. \A x \in LiveSlots : x[1] \notin LevelViews =>
          r2.mem[x] = r1.mem[x] /\ r1.mem[x] = r0.mem[x] /\ r0.mem[x] = mem[x]
    BY <1>2, <1>4, <1>6 DEF Leaves
  <2> QED
    BY <2>1 DEF Leaves
<1> QED
  BY <1>2, <1>4, <1>6, <1>10, <1>11

LEMMA CurvatureQuantitiesKnown ==
  ASSUME NEW known, CurvatureKnown(known)
  PROVE  /\ \A q \in CurvatureQuantities : <<"curvature", q>> \in known
         /\ \A q \in DerivativeQuantities : <<"derivatives", q>> \in known
<1>1. ASSUME NEW q \in CurvatureQuantities PROVE <<"curvature", q>> \in known
  <2>1. PICK f \in {"Z0", "Z1"}, k \in 0 .. 2 : q = Quantity("value", f, k)
    BY InAll DEF CurvatureQuantities
  <2> QED
    BY <2>1 DEF CurvatureKnown, Has
<1>2. ASSUME NEW q \in DerivativeQuantities PROVE <<"derivatives", q>> \in known
  <2>1. CASE q \in All("delta", {"Z0", "Z1"}, 0 .. 1)
    <3>1. PICK f \in {"Z0", "Z1"}, k \in 0 .. 1 : q = Quantity("delta", f, k)
      BY <2>1, InAll
    <3> QED
      BY <3>1 DEF CurvatureKnown, Has
  <2>2. CASE q \in All("ethprime", {"Z1"}, 0 .. 1)
    <3>1. PICK f \in {"Z1"}, k \in 0 .. 1 : q = Quantity("ethprime", f, k)
      BY <2>2, InAll
    <3> QED
      BY <3>1 DEF CurvatureKnown, Has
  <2>3. CASE q \in All("eth", {"Z0"}, 0 .. 1)
    <3>1. PICK f \in {"Z0"}, k \in 0 .. 1 : q = Quantity("eth", f, k)
      BY <2>3, InAll
    <3> QED
      BY <3>1 DEF CurvatureKnown, Has
  <2> QED
    BY <2>1, <2>2, <2>3 DEF DerivativeQuantities
<1> QED
  BY <1>1, <1>2

LEMMA CurvatureKeysThere == CurvatureKeys \subseteq StampKeys
  BY DEF CurvatureKeys, StampKeys

LEMMA CurvatureStageDone ==
  ASSUME NEW d, Shape(d), NEW base, Level(base), \A l \in 0 .. 2 : Packable(base, "tower", l),
         NEW g, NEW fault, NEW id, NEW more \in Extra, Spared(fault, more),
         Knows(d.mem, base, id, 0, more)
  PROVE  CurvatureDone(d, CurvatureStage(d, g, fault), g, base, id, more)
<1> DEFINE valid  == TowerValid(d, g)
           first  == LevelPass([mem |-> d.mem, ready |-> valid], 0, fault)
           second == LevelPass(first, 1, fault)
           levels == LevelPass(second, 2, fault)
           mem    == RunFault(levels.mem,
                              <<Extract, CurvatureRadial, CurvatureAngular, CurvatureDelta>>, fault)
           finite == /\ FiniteIn(mem, "curvature", CurvatureQuantities)
                     /\ FiniteIn(mem, "derivatives", DerivativeQuantities)
           ready  == levels.ready /\ finite
           e      == [d EXCEPT !.mem = mem]
           one    == Settled(e, "curvature", CurvatureQuantities, ready, g)
           out    == Settled(one, "derivatives", DerivativeQuantities, ready, g)
<1>1. CurvatureStage(d, g, fault) = out
  BY Zenon DEF CurvatureStage
<1>2. valid \in BOOLEAN
  BY DEF TowerValid
<1> HIDE DEF valid
<1>3. /\ Levelled(levels.mem, base, id, more)
      /\ Leaves(levels.mem, d.mem, LevelViews)
      /\ levels.ready \in BOOLEAN /\ (levels.ready => valid)
      /\ valid /\ more = {} => levels.ready
  BY <1>2, ThreeLevels
<1> HIDE DEF levels
<1>4. PICK k : /\ base \subseteq k /\ Level(k) /\ Has(k, "profiles", "value", ProfileNames, 0 .. 2)
               /\ Knows(levels.mem, k, id, 0, more)
  BY <1>3 DEF Levelled
<1>5. CurvatureMade(mem, k, id, more) /\ Leaves(mem, levels.mem, {"curvature", "derivatives"})
  BY <1>4, CurvatureRunOf
<1> HIDE DEF mem
<1>6. PICK next : /\ k \subseteq next /\ Level(next) /\ CurvatureKnown(next)
                  /\ Knows(mem, next, id, 0, more)
  BY <1>5 DEF CurvatureMade
<1>7. finite \in BOOLEAN /\ (more = {} => finite)
  <2>1. finite \in BOOLEAN
    BY DEF FiniteIn
  <2>2. ASSUME more = {} PROVE finite
    BY <1>6, <2>2, CurvatureQuantitiesKnown, FiniteKnown
  <2> QED
    BY <2>1, <2>2
<1> HIDE DEF finite
<1>8. ready \in BOOLEAN /\ (ready => valid) /\ (valid /\ more = {} => ready)
  BY <1>3, <1>7
<1> HIDE DEF ready
<1>9. Shape(e) /\ e.mem = mem /\ e.stamp = d.stamp
  BY <1>6, ShapeWithMem DEF Knows
<1> HIDE DEF e
<1>10. SettledAs(e, one, "curvature", CurvatureQuantities, ready, g)
  <2>1. <<"curvature", 0>> \in StampKeys
    BY CurvatureKeysThere DEF CurvatureKeys
  <2> QED
    BY <1>8, <1>9, <2>1, SettledParts
<1> HIDE DEF one
<1>11. SettledAs(one, out, "derivatives", DerivativeQuantities, ready, g)
  <2>1. <<"derivatives", 0>> \in StampKeys
    BY CurvatureKeysThere DEF CurvatureKeys
  <2>2. Shape(one)
    BY <1>10 DEF SettledAs
  <2> QED
    BY <1>8, <2>1, <2>2, SettledParts
<1> HIDE DEF out
<1>12. Knows(out.mem, next, id, 0, more)
  <2>1. Knows(e.mem, next, id, 0, more)
    BY <1>6, <1>9
  <2>2. Knows(one.mem, next, id, 0, more)
    BY <1>10, <2>1, SettledKnows
  <2> QED
    BY <1>11, <2>2, SettledKnows
<1>13. AllCurvature(base, out.mem, id, more)
  <2>1. base \subseteq next /\ Has(next, "profiles", "value", ProfileNames, 0 .. 2)
    BY <1>4, <1>6, HasMore
  <2> QED
    BY <1>6, <1>12, <2>1 DEF AllCurvature
<1>14. Leaves(out.mem, d.mem, CurvatureViews)
  <2> SUFFICES ASSUME NEW x \in LiveSlots, x[1] \notin CurvatureViews
               PROVE  out.mem[x] = d.mem[x]
    BY DEF Leaves
  <2>1. out.mem[x] = one.mem[x] /\ one.mem[x] = e.mem[x]
    BY <1>10, <1>11 DEF SettledAs, CurvatureViews
  <2>2. mem[x] = levels.mem[x] /\ levels.mem[x] = d.mem[x]
    BY <1>3, <1>5 DEF Leaves, CurvatureViews, LevelViews
  <2> QED
    BY <1>9, <2>1, <2>2
<1>15. \A x \in StampKeys : x \notin CurvatureKeys => out.stamp[x] = d.stamp[x]
  BY <1>9, <1>10, <1>11 DEF SettledAs, CurvatureKeys
<1>16. \A x \in CurvatureKeys : Bears(out, x, IF ready THEN g ELSE 0)
  <2>1. Bears(out, <<"derivatives", 0>>, IF ready THEN g ELSE 0)
    BY <1>11 DEF SettledAs
  <2>2. Bears(one, <<"curvature", 0>>, IF ready THEN g ELSE 0)
    BY <1>10 DEF SettledAs
  <2>3. out.stamp[<<"curvature", 0>>] = one.stamp[<<"curvature", 0>>]
    <3>1. <<"curvature", 0>> \in StampKeys /\ <<"curvature", 0>> # <<"derivatives", 0>>
      BY CurvatureKeysThere DEF CurvatureKeys
    <3> QED
      BY <1>11, <3>1 DEF SettledAs
  <2>4. Bears(out, <<"curvature", 0>>, IF ready THEN g ELSE 0)
    BY <2>2, <2>3 DEF Bears
  <2> QED
    BY <2>1, <2>4 DEF CurvatureKeys
<1>17. Shape(out)
  BY <1>11 DEF SettledAs
<1> QED
  BY <1>1, <1>8, <1>13, <1>14, <1>15, <1>16, <1>17 DEF CurvatureDone, valid

-----------------------------------------------------------------------------
(* Copies of views *)

LEMMA CopyRecords ==
  /\ \A out, q, reads : /\ To(out, q, reads).slot = <<out, q>>
                        /\ To(out, q, reads).reads = reads /\ To(out, q, reads).raise = 0
  /\ \A from, q : /\ Own(from, q).slot = <<from, q>> /\ Own(from, q).sign = 1
                  /\ Own(from, q).rate = 0
  BY DEF To, Own

LEMMA CopyFits ==
  ASSUME NEW kernel, NEW from, NEW out, NEW Q, CopyOf(kernel, from, out, Q),
         Plain(from), Plain(out), NEW known,
         Lies(from, Q, known), Lies(out, Q, LiveSlots), Lies(from, Q, LiveSlots)
  PROVE  /\ Fits(kernel, known, 0)
         /\ Fills(kernel, out, Q)
         /\ Only(kernel, {out})
<1>0. /\ {from} \X Q \subseteq known /\ {out} \X Q \subseteq LiveSlots
      /\ {from} \X Q \subseteq LiveSlots
  BY DEF Lies
<1>1. ASSUME NEW r \in kernel
      PROVE  \E q \in Q : r.slot = <<out, q>> /\ r.reads = {Own(from, q)} /\ r.raise = 0
  <2>1. PICK q \in Q : r = To(out, q, {Own(from, q)})
    BY DEF CopyOf
  <2> QED
    BY <2>1, CopyRecords
<1>2. ASSUME NEW q \in Q PROVE \E r \in kernel : r.slot = <<out, q>>
  <2>1. To(out, q, {Own(from, q)}) \in kernel
    BY DEF CopyOf
  <2> QED
    BY <2>1, CopyRecords
<1>3. Written(kernel) = {out} \X Q
  <2>1. ASSUME NEW s \in Written(kernel) PROVE s \in {out} \X Q
    BY <1>1 DEF Written
  <2>2. ASSUME NEW s \in {out} \X Q PROVE s \in Written(kernel)
    BY <1>2 DEF Written
  <2> QED
    BY <2>1, <2>2
<1>4. Only(kernel, {out})
  BY <1>1 DEF Only
<1>5. ASSUME NEW r \in kernel, NEW q \in r.reads
      PROVE  /\ q.slot \in known
             /\ q.sign \in {1, -1} /\ q.rate \in Int /\ r.raise \in Int
             /\ RateOf(q.slot, 0) + r.raise - q.rate = RateOf(r.slot, 0)
             /\ q.slot[1] \in SummedViews <=> r.slot[1] \in SummedViews
             /\ q.slot[1] \in SummedViews => q.sign = 1
  <2>1. PICK p \in Q : r.slot = <<out, p>> /\ r.reads = {Own(from, p)} /\ r.raise = 0
    BY <1>1
  <2>2. q.slot = <<from, p>> /\ q.sign = 1 /\ q.rate = 0
    BY <2>1, CopyRecords
  <2>3. <<from, p>> \in LiveSlots
    BY <1>0
  <2>4. p.order \in 0 .. 4
    BY <2>3, LiveOrders
  <2>5. RateOf(q.slot, 0) = p.order /\ RateOf(r.slot, 0) = p.order
    BY <2>1, <2>2, <2>4 DEF RateOf, Plain
  <2>6. RateOf(q.slot, 0) + r.raise - q.rate = RateOf(r.slot, 0)
    BY <2>1, <2>2, <2>4, <2>5
  <2>7. q.slot \in known
    BY <1>0, <2>2
  <2> QED
    BY <2>1, <2>2, <2>6, <2>7 DEF Plain
<1>6. Written(kernel) \subseteq LiveSlots
  BY <1>0, <1>3
<1> QED
  BY <1>3, <1>4, <1>5, <1>6 DEF Fits, Fills

LEMMA MovedNowhere ==
  /\ \A f, id, n : \A k \in Int : f \in InputFields => Moved(InputOf(f, id, n, k), 0 - 0) = InputOf(f, id, n, k)
  /\ Moved(NonFinite, 0 - 0) = NonFinite
<1>1. ASSUME NEW f \in InputFields, NEW id, NEW n, NEW k \in Int
      PROVE  Moved(InputOf(f, id, n, k), 0 - 0) = InputOf(f, id, n, k)
  <2>1. 0 - 0 = 0 /\ k + 0 = k
    OBVIOUS
  <2> QED
    BY <2>1, MovedInput
<1>2. Moved(NonFinite, 0 - 0) = NonFinite
  BY MovedInput, Zenon DEF Moved, Marks
<1> QED
  BY <1>1, <1>2

\* A copy holds what it was copied from.
LEMMA CopyHolds ==
  ASSUME NEW kernel, NEW from, NEW out, NEW Q, CopyOf(kernel, from, out, Q),
         NEW memory, NEW q \in Q, <<out, q>> \in DOMAIN memory, NEW m \in Modes
  PROVE  \A i : i \in After(memory, kernel)[<<out, q>>][m] <=>
                  \E j \in memory[<<from, q>>][m] : i = Moved(j, 0 - 0)
<1> DEFINE s == <<out, q>>
           r == To(out, q, {Own(from, q)})
<1>1. r \in kernel /\ r.slot = s /\ r.reads = {Own(from, q)} /\ r.raise = 0
  <2>1. r \in kernel
    BY DEF CopyOf
  <2> QED
    BY <2>1, CopyRecords
<1>2. s \in Written(kernel)
  BY <1>1 DEF Written
<1>3. \A i : i \in After(memory, kernel)[s][m] <=>
           \E t \in kernel : /\ t.slot = s
                             /\ \E p \in t.reads : \E j \in memory[p.slot][p.sign * m] :
                                  i = Moved(j, t.raise - p.rate)
  <2>1. s \in DOMAIN memory
    OBVIOUS
  <2> HIDE DEF s
  <2> QED
    BY <1>2, <2>1, AfterWritten
<1>4. m \in Int /\ 1 * m = m
  BY ModesAssumption
<1>5. ASSUME NEW t \in kernel, t.slot = s PROVE t.reads = {Own(from, q)} /\ t.raise = 0
  <2>1. PICK p \in Q : t = To(out, p, {Own(from, p)})
    BY DEF CopyOf
  <2>2. t.slot = <<out, p>> /\ t.reads = {Own(from, p)} /\ t.raise = 0
    BY <2>1, CopyRecords
  <2>3. p = q
    BY <2>2, <1>5
  <2> QED
    BY <2>2, <2>3
<1>6. Own(from, q).slot = <<from, q>> /\ Own(from, q).sign = 1 /\ Own(from, q).rate = 0
  BY CopyRecords
<1> HIDE DEF s, r
<1>7. \A i : (\E t \in kernel : /\ t.slot = s
                                /\ \E p \in t.reads : \E j \in memory[p.slot][p.sign * m] :
                                     i = Moved(j, t.raise - p.rate))
             <=> \E j \in memory[<<from, q>>][m] : i = Moved(j, 0 - 0)
  <2> SUFFICES ASSUME NEW i
               PROVE (\E t \in kernel : /\ t.slot = s
                                /\ \E p \in t.reads : \E j \in memory[p.slot][p.sign * m] :
                                     i = Moved(j, t.raise - p.rate))
                     <=> \E j \in memory[<<from, q>>][m] : i = Moved(j, 0 - 0)
    OBVIOUS
  <2>1. ASSUME NEW t \in kernel, t.slot = s, NEW p \in t.reads,
               NEW j \in memory[p.slot][p.sign * m], i = Moved(j, t.raise - p.rate)
        PROVE  j \in memory[<<from, q>>][m] /\ i = Moved(j, 0 - 0)
    <3>1. t.raise = 0 /\ p = Own(from, q)
      BY <1>5, <2>1
    <3> QED
      BY <1>4, <1>6, <2>1, <3>1
  <2>2. ASSUME NEW j \in memory[<<from, q>>][m], i = Moved(j, 0 - 0)
        PROVE  \E t \in kernel : /\ t.slot = s
                                 /\ \E p \in t.reads : \E jj \in memory[p.slot][p.sign * m] :
                                      i = Moved(jj, t.raise - p.rate)
    <3> DEFINE p == Own(from, q)
    <3>1. r \in kernel /\ r.slot = s /\ p \in r.reads /\ r.raise = 0
      BY <1>1
    <3>2. j \in memory[p.slot][p.sign * m] /\ i = Moved(j, r.raise - p.rate)
      BY <1>1, <1>4, <1>6, <2>2
    <3> QED
      BY <3>1, <3>2
  <2> QED
    BY <2>1, <2>2
<1> QED
  BY <1>3, <1>7 DEF s

-----------------------------------------------------------------------------
(* The levels of the tower that are packed *)

LEMMA MetricPlaces ==
  /\ {"tower"} \X MetricQuantities \subseteq LiveSlots
  /\ {"routeb"} \X MetricQuantities \subseteq LiveSlots
  /\ {"givenMetric"} \X MetricQuantities \subseteq LiveSlots
  /\ Plain("tower") /\ Plain("routeb") /\ Plain("givenMetric")
<1>1. MetricQuantities \subseteq All("value", ReconstructionFields, 0 .. 4)
  BY DEF MetricQuantities, All
<1>2. {"tower"} \X MetricQuantities \subseteq LiveSlots
  BY <1>1 DEF LiveSlots, CurvatureSlots
<1>3. {"routeb"} \X MetricQuantities \subseteq LiveSlots
  BY DEF LiveSlots, PrimitiveSlots, MetricQuantities
<1>4. {"givenMetric"} \X MetricQuantities \subseteq LiveSlots
  BY DEF LiveSlots, GivenSlots, MetricQuantities
<1> QED
  BY <1>2, <1>3, <1>4 DEF Plain, SummedViews

\* Without an overflow in the way.
LEMMA NoFaultThere == Spared(NoFault, {}) /\ Spared(NoFault, {NonFinite})
  BY LiveOrders DEF Spared, NoFault

LEMMA KnowsAfter ==
  ASSUME NEW memory, NEW id, NEW more \in Extra, NEW kernel, NEW known,
         Fits(kernel, known, 0), Knows(memory, known, id, 0, more)
  PROVE  Knows(After(memory, kernel), Grown(known, kernel), id, 0, more)
<1>1. Spared(NoFault, more) /\ 0 \in 0 .. 2
  BY NoFaultThere DEF Extra
<1>2. Knows(AfterFault(memory, kernel, NoFault), Grown(known, kernel), id, 0, more)
  BY <1>1, KnowsMore
<1>3. NoFault.slot \notin {r.slot : r \in kernel}
  <2>1. Written(kernel) \subseteq LiveSlots
    BY DEF Fits
  <2> QED
    BY <2>1, LiveOrders DEF Written, NoFault
<1>4. AfterFault(memory, kernel, NoFault) = After(memory, kernel)
  BY <1>3 DEF AfterFault, Overflowed
<1> QED
  BY <1>2, <1>4

LEMMA PackLevelsDone ==
  ASSUME NEW d, Shape(d), NEW known, {"tower"} \X MetricQuantities \subseteq known,
         NEW id, NEW more \in Extra, Knows(d.mem, known, id, 0, more)
  PROVE  PackedLevels(d, PackLevels(d), known, id, more)
<1> DEFINE kernel == {To("routeb", q, {Own("tower", q)}) :
                        q \in All("value", ReconstructionFields, 0 .. 2)}
           mem == After(d.mem, kernel)
           stamp == [k \in StampKeys |->
                       IF k[1] = "routeb" THEN d.stamp[<<"tower", k[2]>>] ELSE d.stamp[k]]
           out == PackLevels(d)
<1>0. DOMAIN d = {"mem", "stamp", "ready"} /\ DOMAIN d.mem = LiveSlots
  BY DEF Shape
<1>1. CopyOf(kernel, "tower", "routeb", MetricQuantities)
  BY DEF CopyOf, MetricQuantities
<1>2. out = [d EXCEPT !.mem = mem, !.stamp = stamp]
  BY DEF PackLevels
<1> HIDE DEF kernel
<1>3. /\ Fits(kernel, known, 0) /\ Written(kernel) = {"routeb"} \X MetricQuantities
      /\ Only(kernel, {"routeb"})
  <2>1. /\ Lies("tower", MetricQuantities, known)
        /\ Lies("routeb", MetricQuantities, LiveSlots) /\ Lies("tower", MetricQuantities, LiveSlots)
        /\ Plain("tower") /\ Plain("routeb")
    BY MetricPlaces DEF Lies
  <2>2. Fits(kernel, known, 0) /\ Fills(kernel, "routeb", MetricQuantities) /\ Only(kernel, {"routeb"})
    BY <1>1, <2>1, CopyFits
  <2> QED
    BY <2>2 DEF Fills
<1>4. Knows(mem, known \cup ({"routeb"} \X MetricQuantities), id, 0, more)
  <2>1. Knows(mem, Grown(known, kernel), id, 0, more)
    BY <1>3, KnowsAfter
  <2> QED
    BY <1>3, <2>1 DEF Grown
<1>5. Leaves(mem, d.mem, {"routeb"})
  <2> SUFFICES ASSUME NEW x \in LiveSlots, x[1] \notin {"routeb"} PROVE mem[x] = d.mem[x]
    BY DEF Leaves
  <2>1. x \notin Written(kernel)
    BY <1>3, OnlyElsewhere
  <2> QED
    BY <1>0, <2>1, AfterElsewhere
<1>6. ASSUME Exact(d.mem, "tower", id) PROVE Exact(mem, "routeb", id)
  <2> SUFFICES ASSUME NEW f \in ReconstructionFields, NEW k \in 0 .. 2, NEW m \in Modes
               PROVE  mem[<<"routeb", Value(f, k)>>][m] = {InputOf(f, id, m, k)}
    BY DEF Exact
  <2> DEFINE q == Value(f, k)
  <2>1. q \in MetricQuantities
    BY InAll DEF MetricQuantities, Value
  <2>2. <<"routeb", q>> \in DOMAIN d.mem
    BY <1>0, <2>1, MetricPlaces
  <2>3. d.mem[<<"tower", q>>][m] = {InputOf(f, id, m, k)}
    BY <1>6 DEF Exact
  <2> HIDE DEF q
  <2>4. \A i : i \in mem[<<"routeb", q>>][m] <=>
                  \E j \in d.mem[<<"tower", q>>][m] : i = Moved(j, 0 - 0)
    BY <1>1, <2>1, <2>2, CopyHolds
  <2>5. Moved(InputOf(f, id, m, k), 0 - 0) = InputOf(f, id, m, k)
    BY MovedNowhere DEF InputFields
  <2>6. mem[<<"routeb", q>>][m] = {InputOf(f, id, m, k)}
    <3>1. \A i : i \in mem[<<"routeb", q>>][m] <=> i = InputOf(f, id, m, k)
      BY <2>3, <2>4, <2>5
    <3> HIDE DEF mem
    <3> QED
      BY <3>1
  <2> QED
    BY <2>6 DEF q
<1>7. /\ DOMAIN out = {"mem", "stamp", "ready"} /\ out.mem = mem /\ out.stamp = stamp
      /\ out.ready = d.ready
  BY <1>0, <1>2
<1>8. DOMAIN mem = LiveSlots
  BY <1>4 DEF Knows
<1> HIDE DEF mem, out
<1>9. Shape(out)
  BY <1>7, <1>8 DEF Shape
<1> QED
  BY <1>4, <1>5, <1>6, <1>7, <1>9 DEF PackedLevels, out

-----------------------------------------------------------------------------
(* The linear Psi_0 *)

LEMMA KernelsLinear ==
  ASSUME NEW p, NEW a, NEW b, NEW c, NEW x, NEW y,
         NEW k, k = <<p>> \o <<a, b>> \o <<c>> \o <<x, y>>
  PROVE  KernelsSix(k, p, a, b, c, x, y)
<1> DEFINE S == {p, a, b, c, x, y}
           s1 == <<p>>
           s2 == <<a, b>>
           s3 == <<c>>
           s4 == <<x, y>>
           u == s1 \o s2
           v == u \o s3
           w == v \o s4
<1>1. s1 \in Seq(S) /\ Len(s1) = 1 /\ s1[1] = p
  OBVIOUS
<1>2. s2 \in Seq(S) /\ Len(s2) = 2 /\ s2[1] = a /\ s2[2] = b
  OBVIOUS
<1>3. s3 \in Seq(S) /\ Len(s3) = 1 /\ s3[1] = c
  OBVIOUS
<1>4. s4 \in Seq(S) /\ Len(s4) = 2 /\ s4[1] = x /\ s4[2] = y
  OBVIOUS
<1>5. k = w
  OBVIOUS
<1> HIDE DEF S, s1, s2, s3, s4, u, v, w
<1>6. /\ u \in Seq(S) /\ Len(u) = 3
      /\ \A i \in 1 .. 3 : u[i] = IF i <= 1 THEN s1[i] ELSE s2[i - 1]
  <2>1. s1 \in Seq(S) /\ s2 \in Seq(S)
    BY <1>1, <1>2
  <2>2. /\ u \in Seq(S) /\ Len(u) = Len(s1) + Len(s2)
        /\ \A i \in 1 .. Len(s1) + Len(s2) :
             u[i] = IF i <= Len(s1) THEN s1[i] ELSE s2[i - Len(s1)]
    BY <2>1, ConcatProperties, Zenon DEF u
  <2> QED
    BY <1>1, <1>2, <2>2
<1>7. u[1] = p /\ u[2] = a /\ u[3] = b
  BY <1>1, <1>2, <1>6
<1>8. /\ v \in Seq(S) /\ Len(v) = 4
      /\ \A i \in 1 .. 4 : v[i] = IF i <= 3 THEN u[i] ELSE s3[i - 3]
  <2>1. u \in Seq(S) /\ s3 \in Seq(S)
    BY <1>3, <1>6
  <2>2. /\ v \in Seq(S) /\ Len(v) = Len(u) + Len(s3)
        /\ \A i \in 1 .. Len(u) + Len(s3) :
             v[i] = IF i <= Len(u) THEN u[i] ELSE s3[i - Len(u)]
    BY <2>1, ConcatProperties, Zenon DEF v
  <2> QED
    BY <1>3, <1>6, <2>2
<1>9. v[1] = p /\ v[2] = a /\ v[3] = b /\ v[4] = c
  BY <1>3, <1>7, <1>8
<1>10. /\ Len(w) = 6
       /\ \A i \in 1 .. 6 : w[i] = IF i <= 4 THEN v[i] ELSE s4[i - 4]
  <2>1. v \in Seq(S) /\ s4 \in Seq(S)
    BY <1>4, <1>8
  <2>2. /\ Len(w) = Len(v) + Len(s4)
        /\ \A i \in 1 .. Len(v) + Len(s4) :
             w[i] = IF i <= Len(v) THEN v[i] ELSE s4[i - Len(v)]
    BY <2>1, ConcatProperties, Zenon DEF w
  <2> QED
    BY <1>4, <1>8, <2>2
<1> QED
  BY <1>4, <1>5, <1>9, <1>10 DEF KernelsSix

LEMMA PartMoved ==
  ASSUME NEW c \in MetricComponents, NEW id, NEW m \in Modes, NEW k \in 0 .. 2
  PROVE  /\ \A n \in 0 .. 2 : Moved(Part(c, id, m, k), n - n) = Part(c, id, m, k)
         /\ ComponentFrom[c].field \in ReconstructionFields
         /\ ComponentFrom[c].sign \in {1, -1} /\ ComponentFrom[c].sign * m \in Modes
<1>1. /\ ComponentFrom[c].field \in {"U", "C", "B"} /\ ComponentFrom[c].sign \in {1, -1}
  BY DEF MetricComponents, ComponentFrom
<1>2. ComponentFrom[c].sign * m \in Modes
  BY <1>1, Mirrored
<1>3. ComponentFrom[c].field \in InputFields /\ ComponentFrom[c].field \in ReconstructionFields
  BY <1>1 DEF InputFields, ReconstructionFields
<1>4. k \in Int /\ \A n \in 0 .. 2 : n - n = 0 - 0
  OBVIOUS
<1>5. Moved(Part(c, id, m, k), 0 - 0) = Part(c, id, m, k)
  BY <1>3, <1>4, MovedNowhere DEF Part
<1> QED
  BY <1>1, <1>2, <1>3, <1>4, <1>5

LEMMA Holding ==
  ASSUME NEW memory, NEW Q, NEW id, HoldsParts(memory, Q, id), NEW op, NEW c, NEW k,
         Quantity(op, c, k) \in Q, NEW m \in Modes
  PROVE  memory[<<"linear", Quantity(op, c, k)>>][m] = {Part(c, id, m, k)}
  BY QuantityParts DEF HoldsParts

LEMMA PackMetricParts ==
  ASSUME NEW in
  PROVE  PacksParts(in)
<1> DEFINE read(c, k) == {[slot |-> <<in, Value(ComponentFrom[c].field, k)>>,
                           sign |-> ComponentFrom[c].sign, rate |-> k]}
<1>1. \A r : r \in PackMetric(in) <=>
        \E p \in MetricComponents \X (0 .. 2) : r = Put("linear", "value", p[1], p[2], read(p[1], p[2]))
  BY DEF PackMetric
<1>2. \A c, k : /\ Put("linear", "value", c, k, read(c, k)).slot = <<"linear", Quantity("value", c, k)>>
                /\ Put("linear", "value", c, k, read(c, k)).reads = read(c, k)
                /\ Put("linear", "value", c, k, read(c, k)).raise = k
  BY PutParts
<1>3. ASSUME NEW r \in PackMetric(in)
      PROVE  \E c \in MetricComponents, k \in 0 .. 2 :
               /\ r.slot = <<"linear", Quantity("value", c, k)>> /\ r.raise = k
               /\ r.reads = read(c, k)
  <2>1. PICK p \in MetricComponents \X (0 .. 2) : r = Put("linear", "value", p[1], p[2], read(p[1], p[2]))
    BY <1>1
  <2> HIDE DEF read
  <2>2. p[1] \in MetricComponents /\ p[2] \in 0 .. 2
    OBVIOUS
  <2>3. /\ r.slot = <<"linear", Quantity("value", p[1], p[2])>> /\ r.raise = p[2]
        /\ r.reads = read(p[1], p[2])
    BY <1>2, <2>1
  <2> QED
    BY <2>2, <2>3
<1>4. ASSUME NEW c \in MetricComponents, NEW k \in 0 .. 2
      PROVE  \E r \in PackMetric(in) : r.slot = <<"linear", Quantity("value", c, k)>>
  <2> DEFINE w == <<c, k>>
  <2>1. w \in MetricComponents \X (0 .. 2) /\ w[1] = c /\ w[2] = k
    OBVIOUS
  <2> HIDE DEF w, read
  <2>2. Put("linear", "value", w[1], w[2], read(w[1], w[2])) \in PackMetric(in)
    BY <1>1, <2>1
  <2> QED
    BY <1>2, <2>1, <2>2
<1>5. Only(PackMetric(in), {"linear"})
  <2> HIDE DEF read
  <2> QED
    BY <1>3 DEF Only
<1> QED
  BY <1>3, <1>4, <1>5 DEF PacksParts

LEMMA OneContent ==
  ASSUME NEW memory, NEW kernel, NEW s \in DOMAIN memory, NEW m \in Modes, NEW X,
         AllMake(memory, kernel, s, m, X)
  PROVE  After(memory, kernel)[s][m] = {X}
<1> DEFINE A == After(memory, kernel)[s][m]
<1>1. \A i : i \in A <=>
           \E r \in kernel : /\ r.slot = s
                             /\ \E q \in r.reads : \E j \in memory[q.slot][q.sign * m] :
                                  i = Moved(j, r.raise - q.rate)
  <2>1. s \in Written(kernel)
    BY DEF AllMake
  <2> QED
    BY <2>1, AfterWritten
<1> HIDE DEF A
<1>2. ASSUME NEW i \in A PROVE i = X
  <2>1. PICK r \in kernel : /\ r.slot = s
                            /\ \E q \in r.reads : \E j \in memory[q.slot][q.sign * m] :
                                 i = Moved(j, r.raise - q.rate)
    BY <1>1, <1>2
  <2>2. PICK q \in r.reads : \E j \in memory[q.slot][q.sign * m] : i = Moved(j, r.raise - q.rate)
    BY <2>1
  <2>3. PICK x : memory[q.slot][q.sign * m] = {x} /\ Moved(x, r.raise - q.rate) = X
    BY <2>1 DEF AllMake
  <2> QED
    BY <2>2, <2>3
<1>3. X \in A
  <2>1. PICK r \in kernel : r.slot = s
    BY DEF Written, AllMake
  <2>2. PICK q \in r.reads : TRUE
    BY <2>1 DEF AllMake
  <2>3. PICK x : memory[q.slot][q.sign * m] = {x} /\ Moved(x, r.raise - q.rate) = X
    BY <2>1 DEF AllMake
  <2>4. \E j \in memory[q.slot][q.sign * m] : X = Moved(j, r.raise - q.rate)
    BY <2>3
  <2> QED
    BY <1>1, <2>1, <2>2, <2>4
<1> QED
  BY <1>2, <1>3 DEF A

\* What stays of what is held.
LEMMA SlotParts ==
  \A v, op, c, k, o, d, l : <<v, Quantity(op, c, k)>> = <<v, Quantity(o, d, l)>> =>
    op = o /\ c = d /\ k = l
<1> SUFFICES ASSUME NEW v, NEW op, NEW c, NEW k, NEW o, NEW d, NEW l,
                    <<v, Quantity(op, c, k)>> = <<v, Quantity(o, d, l)>>
             PROVE  op = o /\ c = d /\ k = l
  OBVIOUS
<1>1. Quantity(op, c, k) = Quantity(o, d, l)
  OBVIOUS
<1> QED
  BY <1>1 DEF Quantity

LEMMA PackMetricHolds ==
  ASSUME NEW memory, DOMAIN memory = LiveSlots, NEW in, NEW id, Exact(memory, in, id)
  PROVE  HoldsParts(After(memory, PackMetric(in)), All("value", MetricComponents, 0 .. 2), id)
<1> SUFFICES ASSUME NEW q \in All("value", MetricComponents, 0 .. 2), NEW m \in Modes
             PROVE  After(memory, PackMetric(in))[<<"linear", q>>][m] = {Part(q.of, id, m, q.order)}
  BY DEF HoldsParts
<1>0. PacksParts(in)
  BY PackMetricParts
<1>1. PICK c \in MetricComponents, k \in 0 .. 2 : q = Quantity("value", c, k)
  BY InAll
<1>2. q.of = c /\ q.order = k
  BY <1>1, QuantityParts
<1> DEFINE s == <<"linear", q>>
           X == Part(c, id, m, k)
<1>3. s \in LiveSlots
  BY DEF LiveSlots, LinearSlots
<1>4. s \in Written(PackMetric(in))
  <2>1. PICK r \in PackMetric(in) : r.slot = <<"linear", Quantity("value", c, k)>>
    BY <1>0 DEF PacksParts
  <2> QED
    BY <1>1, <2>1 DEF Written
<1>5. ASSUME NEW r \in PackMetric(in), r.slot = s
      PROVE  /\ \E p \in r.reads : TRUE
             /\ \A p \in r.reads : \E x : /\ memory[p.slot][p.sign * m] = {x}
                                          /\ Moved(x, r.raise - p.rate) = X
  <2>1. PICK d \in MetricComponents, l \in 0 .. 2 :
          /\ r.slot = <<"linear", Quantity("value", d, l)>> /\ r.raise = l
          /\ r.reads = {[slot |-> <<in, Value(ComponentFrom[d].field, l)>>,
                         sign |-> ComponentFrom[d].sign, rate |-> l]}
    BY <1>0 DEF PacksParts
  <2>2. d = c /\ l = k
    BY <1>1, <1>5, <2>1, SlotParts
  <2> DEFINE p == [slot |-> <<in, Value(ComponentFrom[c].field, k)>>,
                   sign |-> ComponentFrom[c].sign, rate |-> k]
  <2>3. p.slot = <<in, Value(ComponentFrom[c].field, k)>> /\ p.sign = ComponentFrom[c].sign /\ p.rate = k
    OBVIOUS
  <2>4. r.reads = {p} /\ r.raise = k
    BY <2>1, <2>2
  <2> HIDE DEF p
  <2>5. /\ ComponentFrom[c].field \in ReconstructionFields
        /\ ComponentFrom[c].sign * m \in Modes
        /\ Moved(X, k - k) = X
    BY PartMoved
  <2>6. memory[p.slot][p.sign * m] = {X}
    <3> DEFINE f == ComponentFrom[c].field
               n == ComponentFrom[c].sign * m
    <3>1. f \in ReconstructionFields /\ n \in Modes /\ X = InputOf(f, id, n, k)
      BY <2>5 DEF Part
    <3>2. p.slot = <<in, Value(f, k)>> /\ p.sign * m = n
      BY <2>3
    <3> HIDE DEF f, n, X
    <3>3. memory[<<in, Value(f, k)>>][n] = {InputOf(f, id, n, k)}
      BY <3>1 DEF Exact
    <3> QED
      BY <3>1, <3>2, <3>3
  <2>7. Moved(X, r.raise - p.rate) = X
    BY <2>3, <2>4, <2>5
  <2> QED
    BY <2>4, <2>6, <2>7
<1> HIDE DEF s, X
<1>6. AllMake(memory, PackMetric(in), s, m, X)
  BY <1>4, <1>5 DEF AllMake
<1>7. After(memory, PackMetric(in))[s][m] = {X}
  BY <1>3, <1>6, OneContent
<1> QED
  BY <1>2, <1>7 DEF s, X

LEMMA CoordinateHolds ==
  ASSUME NEW memory, DOMAIN memory = LiveSlots, NEW kernel, NEW Q, NEW new,
         CoordinateOf(kernel, Q, new), NEW id, HoldsParts(memory, Q, id),
         {"linear"} \X Q \subseteq LiveSlots
  PROVE  HoldsParts(After(memory, kernel), Q \cup new, id) /\ Only(kernel, {"linear"})
<1>1. ASSUME NEW r \in kernel
      PROVE  \E q \in new : /\ r.slot = <<"linear", q>> /\ r.raise = q.order
                            /\ \E p : /\ r.reads = {p} /\ p.sign = 1 /\ p.rate = q.order
                                      /\ \E x \in Q : p.slot = <<"linear", x>> /\ x.of = q.of /\ x.order = q.order
                            /\ q.of \in MetricComponents /\ q.order \in 0 .. 2
  <2>1. PICK op, from : \E c \in MetricComponents, k \in 0 .. 2 :
          /\ Quantity(op, c, k) \in new /\ Quantity(from, c, k) \in Q
          /\ r = Put("linear", op, c, k, {At("linear", from, c, k)})
    BY DEF CoordinateOf, CoordinateResult
  <2>2. PICK c \in MetricComponents, k \in 0 .. 2 :
          /\ Quantity(op, c, k) \in new /\ Quantity(from, c, k) \in Q
          /\ r = Put("linear", op, c, k, {At("linear", from, c, k)})
    BY <2>1
  <2> DEFINE q == Quantity(op, c, k)
             x == Quantity(from, c, k)
             p == At("linear", from, c, k)
  <2>3. q.of = c /\ q.order = k /\ x.of = c /\ x.order = k
    BY QuantityParts
  <2>4. r.slot = <<"linear", q>> /\ r.raise = k /\ r.reads = {p}
    BY <2>2, PutParts
  <2>5. p.slot = <<"linear", x>> /\ p.sign = 1 /\ p.rate = k
    BY PutParts
  <2>6. q \in new /\ x \in Q
    BY <2>2
  <2> HIDE DEF q, x, p
  <2> QED
    BY <2>3, <2>4, <2>5, <2>6
<1>2. Only(kernel, {"linear"})
  BY <1>1 DEF Only
<1>3. ASSUME NEW q \in Q \cup new, q \notin new, NEW m \in Modes
      PROVE  After(memory, kernel)[<<"linear", q>>][m] = {Part(q.of, id, m, q.order)}
  <2>1. <<"linear", q>> \notin Written(kernel)
    BY <1>1, <1>3 DEF Written
  <2>2. <<"linear", q>> \in DOMAIN memory
    BY <1>3
  <2>3. After(memory, kernel)[<<"linear", q>>] = memory[<<"linear", q>>]
    BY <2>1, <2>2, AfterElsewhere
  <2> QED
    BY <1>3, <2>3 DEF HoldsParts
<1>4. ASSUME NEW q \in new, NEW m \in Modes
      PROVE  After(memory, kernel)[<<"linear", q>>][m] = {Part(q.of, id, m, q.order)}
  <2> DEFINE s == <<"linear", q>>
             X == Part(q.of, id, m, q.order)
  <2>1. PICK t \in kernel : t.slot = s
    BY DEF CoordinateOf
  <2>2. ASSUME NEW r \in kernel, r.slot = s
        PROVE  /\ \E p \in r.reads : TRUE
               /\ \A p \in r.reads : \E x : /\ memory[p.slot][p.sign * m] = {x}
                                            /\ Moved(x, r.raise - p.rate) = X
    <3>1. PICK y \in new :
            /\ r.slot = <<"linear", y>> /\ r.raise = y.order
            /\ \E p : /\ r.reads = {p} /\ p.sign = 1 /\ p.rate = y.order
                      /\ \E x \in Q : p.slot = <<"linear", x>> /\ x.of = y.of /\ x.order = y.order
            /\ y.of \in MetricComponents /\ y.order \in 0 .. 2
      BY <1>1
    <3>2. y = q
      BY <2>2, <3>1
    <3>3. PICK p : /\ r.reads = {p} /\ p.sign = 1 /\ p.rate = q.order
                   /\ \E x \in Q : p.slot = <<"linear", x>> /\ x.of = q.of /\ x.order = q.order
      BY <3>1, <3>2
    <3>4. PICK x \in Q : p.slot = <<"linear", x>> /\ x.of = q.of /\ x.order = q.order
      BY <3>3
    <3>5. p.sign * m = m
      BY <3>3, Mirrored
    <3>6. memory[<<"linear", x>>][m] = {X}
      BY <3>4 DEF HoldsParts
    <3>7. Moved(X, q.order - q.order) = X
      BY <3>1, <3>2, PartMoved
    <3> HIDE DEF X, s
    <3>8. memory[p.slot][p.sign * m] = {X}
      BY <3>4, <3>5, <3>6
    <3>9. Moved(X, r.raise - p.rate) = X
      BY <3>1, <3>2, <3>3, <3>7
    <3> QED
      BY <3>3, <3>8, <3>9
  <2>3. s \in DOMAIN memory
    BY DEF CoordinateOf
  <2> HIDE DEF X, s
  <2>4. AllMake(memory, kernel, s, m, X)
    BY <2>1, <2>2 DEF AllMake, Written
  <2>5. After(memory, kernel)[s][m] = {X}
    BY <2>3, <2>4, OneContent
  <2> QED
    BY <2>5 DEF X, s
<1> QED
  BY <1>2, <1>3, <1>4 DEF HoldsParts

LEMMA CoordinateParts ==
  ASSUME NEW op, NEW from, NEW orders \in SUBSET (0 .. 2), NEW Q,
         All(from, MetricComponents, orders) \subseteq Q,
         {"linear"} \X All(op, MetricComponents, orders) \subseteq LiveSlots
  PROVE  CoordinateOf(Coordinate(op, from, orders), Q, All(op, MetricComponents, orders))
<1> DEFINE new == All(op, MetricComponents, orders)
           kernel == Coordinate(op, from, orders)
           put(c, k) == Put("linear", op, c, k, {At("linear", from, c, k)})
<1>1. \A r : r \in kernel <=> \E p \in MetricComponents \X orders : r = put(p[1], p[2])
  BY DEF Coordinate
<1> HIDE DEF kernel, new
<1>2. ASSUME NEW r \in kernel
      PROVE  CoordinateResult(r, Q, new)
  <2>1. PICK p \in MetricComponents \X orders : r = put(p[1], p[2])
    BY <1>1
  <2>2. p[1] \in MetricComponents /\ p[2] \in orders /\ p[2] \in 0 .. 2
    OBVIOUS
  <2>3. Quantity(op, p[1], p[2]) \in new
    BY <2>2, InAll DEF new
  <2>4. Quantity(from, p[1], p[2]) \in Q
    BY <2>2, InAll
  <2> QED
    BY <2>1, <2>2, <2>3, <2>4 DEF CoordinateResult
<1>3. ASSUME NEW q \in new PROVE \E r \in kernel : r.slot = <<"linear", q>>
  <2>1. PICK c \in MetricComponents, k \in orders : q = Quantity(op, c, k)
    <3>1. q \in All(op, MetricComponents, orders)
      BY DEF new
    <3>2. PICK w \in MetricComponents \X orders : q = Quantity(op, w[1], w[2])
      BY <3>1 DEF All
    <3>3. w[1] \in MetricComponents /\ w[2] \in orders
      OBVIOUS
    <3> QED
      BY <3>2, <3>3
  <2> DEFINE w == <<c, k>>
  <2>2. w \in MetricComponents \X orders /\ w[1] = c /\ w[2] = k
    OBVIOUS
  <2> HIDE DEF w
  <2>3. put(w[1], w[2]) \in kernel
    BY <1>1, <2>2
  <2>4. put(w[1], w[2]).slot = <<"linear", Quantity(op, w[1], w[2])>>
    BY PutParts
  <2> QED
    BY <2>1, <2>2, <2>3, <2>4
<1>4. {"linear"} \X new \subseteq LiveSlots
  BY DEF new
<1> QED
  BY <1>2, <1>3, <1>4 DEF CoordinateOf, kernel, new

LEMMA CoordinateBoth ==
  ASSUME NEW a, NEW b, NEW Q, NEW new, NEW more, CoordinateOf(a, Q, new), CoordinateOf(b, Q, more)
  PROVE  CoordinateOf(a \cup b, Q, new \cup more)
<1>1. ASSUME NEW r \in a \cup b PROVE CoordinateResult(r, Q, new \cup more)
  <2>1. CoordinateResult(r, Q, new) \/ CoordinateResult(r, Q, more)
    BY DEF CoordinateOf
  <2> QED
    BY <2>1 DEF CoordinateResult
<1>2. ASSUME NEW q \in new \cup more PROVE \E r \in a \cup b : r.slot = <<"linear", q>>
  <2>1. CASE q \in new
    BY <2>1 DEF CoordinateOf
  <2>2. CASE q \in more
    BY <2>2 DEF CoordinateOf
  <2> QED
    BY <2>1, <2>2
<1>3. {"linear"} \X (new \cup more) \subseteq LiveSlots
  BY DEF CoordinateOf
<1> QED
  BY <1>1, <1>2, <1>3 DEF CoordinateOf

LEMMA PartsAre ==
  ASSUME NEW id, NEW m \in Modes
  PROVE  Parts(id, m) = PsiInputs(id, m)
<1>1. \A k : /\ Part("LL", id, m, k) = InputOf("U", id, m, k)
             /\ Part("LM", id, m, k) = InputOf("C", id, -m, k)
             /\ Part("MM", id, m, k) = InputOf("B", id, -m, k)
  <2>1. /\ ComponentFrom["LL"].field = "U" /\ ComponentFrom["LL"].sign = 1
        /\ ComponentFrom["LM"].field = "C" /\ ComponentFrom["LM"].sign = -1
        /\ ComponentFrom["MM"].field = "B" /\ ComponentFrom["MM"].sign = -1
    BY DEF ComponentFrom
  <2>2. 1 * m = m /\ (-1) * m = -m
    BY Mirrored
  <2>3. /\ ComponentFrom["LL"].sign * m = m /\ ComponentFrom["LM"].sign * m = -m
        /\ ComponentFrom["MM"].sign * m = -m
    BY <2>1, <2>2, Zenon
  <2> QED
    BY <2>1, <2>3, Zenon DEF Part
<1>2. \A i : i \in Parts(id, m) <=>
        \E c \in MetricComponents, k \in 0 .. 2 : i = Part(c, id, m, k)
  BY DEF Parts
<1>3. \A i : i \in Parts(id, m) <=>
        \E k \in 0 .. 2 : \/ i = InputOf("U", id, m, k)
                          \/ i = InputOf("B", id, -m, k) \/ i = InputOf("C", id, -m, k)
  BY <1>1, <1>2 DEF MetricComponents
<1> QED
  BY <1>3 DEF PsiInputs

LEMMA PsiKernelParts ==
  /\ \A r \in PsiKernel : PsiResult(r)
  /\ \E r : r \in PsiKernel
<1> DEFINE reads == UNION {{Own("linear", Quantity(r[1], c, r[2])) : r \in PsiReads[c]} :
                           c \in MetricComponents}
           r0 == [slot |-> <<"linear", Value("psi0", 0)>>, raise |-> 0, reads |-> reads]
<1>1. PsiKernel = {r0}
  BY DEF PsiKernel, LinearPoint
<1>2. \A q : q \in reads <=> PsiRead(q)
  BY DEF PsiRead
<1>3. r0.slot = <<"linear", Value("psi0", 0)>> /\ r0.raise = 0 /\ r0.reads = reads
  OBVIOUS
<1> HIDE DEF reads, r0
<1>4. PsiResult(r0)
  BY <1>2, <1>3 DEF PsiResult
<1> QED
  BY <1>1, <1>4

LEMMA PsiHolds ==
  ASSUME NEW memory, DOMAIN memory = LiveSlots, NEW Q, NEW id, HoldsParts(memory, Q, id),
         PsiQuantities(Q), NEW m \in Modes
  PROVE  After(memory, PsiKernel)[<<"linear", Value("psi0", 0)>>][m] = Parts(id, m)
<1> DEFINE s == <<"linear", Value("psi0", 0)>>
<1>1. s \in DOMAIN memory
  BY DEF LiveSlots, LinearSlots
<1>2. s \in Written(PsiKernel)
  BY PsiKernelParts DEF Written, PsiResult
<1>3. \A i : i \in After(memory, PsiKernel)[s][m] <=>
           \E r \in PsiKernel : /\ r.slot = s
                                /\ \E q \in r.reads : \E j \in memory[q.slot][q.sign * m] :
                                     i = Moved(j, r.raise - q.rate)
  <2> HIDE DEF s
  <2> QED
    BY <1>1, <1>2, AfterWritten
<1>4. ASSUME NEW c \in MetricComponents, NEW r \in PsiReads[c]
      PROVE  /\ r[2] \in 0 .. 2
             /\ \A j : j \in memory[<<"linear", Quantity(r[1], c, r[2])>>][m] <=> j = Part(c, id, m, r[2])
             /\ Moved(Part(c, id, m, r[2]), 0 - 0) = Part(c, id, m, r[2])
  <2>1. r[2] \in 0 .. 2 /\ Quantity(r[1], c, r[2]) \in Q
    BY DEF PsiQuantities
  <2>2. memory[<<"linear", Quantity(r[1], c, r[2])>>][m] = {Part(c, id, m, r[2])}
    BY <2>1, Holding
  <2>3. Moved(Part(c, id, m, r[2]), 0 - 0) = Part(c, id, m, r[2])
    <3>1. 0 \in 0 .. 2
      OBVIOUS
    <3> QED
      BY <2>1, <3>1, PartMoved
  <2> QED
    BY <2>1, <2>2, <2>3
<1>5. m \in Int /\ 1 * m = m
  BY Mirrored
<1>6. ASSUME NEW i \in After(memory, PsiKernel)[s][m] PROVE i \in Parts(id, m)
  <2>1. PICK r \in PsiKernel : /\ r.slot = s
                               /\ \E q \in r.reads : \E j \in memory[q.slot][q.sign * m] :
                                    i = Moved(j, r.raise - q.rate)
    BY <1>3, <1>6
  <2>2. PICK q \in r.reads : \E j \in memory[q.slot][q.sign * m] : i = Moved(j, r.raise - q.rate)
    BY <2>1
  <2>3. PICK j \in memory[q.slot][q.sign * m] : i = Moved(j, r.raise - q.rate)
    BY <2>2
  <2>4. PsiRead(q) /\ r.raise = 0
    BY PsiKernelParts DEF PsiResult
  <2>5. PICK c \in MetricComponents : \E p \in PsiReads[c] :
          q = Own("linear", Quantity(p[1], c, p[2]))
    BY <2>4 DEF PsiRead
  <2>6. PICK p \in PsiReads[c] : q = Own("linear", Quantity(p[1], c, p[2]))
    BY <2>5
  <2>7. q.slot = <<"linear", Quantity(p[1], c, p[2])>> /\ q.sign = 1 /\ q.rate = 0
    BY <2>6, CopyRecords
  <2>8. j = Part(c, id, m, p[2])
    BY <1>4, <1>5, <2>3, <2>7
  <2>9. i = Part(c, id, m, p[2]) /\ p[2] \in 0 .. 2
    BY <1>4, <2>3, <2>4, <2>7, <2>8
  <2> QED
    BY <2>9 DEF Parts
<1>7. ASSUME NEW c \in MetricComponents, NEW k \in 0 .. 2
      PROVE  Part(c, id, m, k) \in After(memory, PsiKernel)[s][m]
  <2> DEFINE p == <<"value", k>>
             q == Own("linear", Quantity("value", c, k))
  <2>1. p \in PsiReads[c] /\ p[1] = "value" /\ p[2] = k
    BY DEF PsiReads, MetricComponents
  <2>2. PsiRead(q)
    BY <2>1 DEF PsiRead
  <2>3. PICK r : r \in PsiKernel
    BY PsiKernelParts
  <2>4. r.slot = s /\ r.raise = 0 /\ q \in r.reads
    BY <2>2, <2>3, PsiKernelParts DEF PsiResult
  <2>5. q.slot = <<"linear", Quantity(p[1], c, p[2])>> /\ q.sign = 1 /\ q.rate = 0
    BY <2>1, CopyRecords
  <2> HIDE DEF p, q, s
  <2>6. /\ Part(c, id, m, k) \in memory[q.slot][q.sign * m]
        /\ Part(c, id, m, k) = Moved(Part(c, id, m, k), r.raise - q.rate)
    BY <1>4, <1>5, <2>1, <2>4, <2>5
  <2> QED
    BY <1>3, <2>3, <2>4, <2>6
<1> HIDE DEF s
<1>8. ASSUME NEW i \in Parts(id, m) PROVE i \in After(memory, PsiKernel)[s][m]
  BY <1>7 DEF Parts
<1>9. After(memory, PsiKernel)[s][m] = Parts(id, m)
  BY <1>6, <1>8
<1> QED
  BY <1>9 DEF s

LEMMA LinearPlaces ==
  /\ {"linear"} \X All("value", MetricComponents, 0 .. 2) \subseteq LiveSlots
  /\ {"linear"} \X All("dr", MetricComponents, 0 .. 1) \subseteq LiveSlots
  /\ {"linear"} \X All("dtheta", MetricComponents, 0 .. 1) \subseteq LiveSlots
  /\ {"linear"} \X All("drr", MetricComponents, {0}) \subseteq LiveSlots
  /\ {"linear"} \X All("drdtheta", MetricComponents, {0}) \subseteq LiveSlots
  /\ {"linear"} \X All("dthetadtheta", MetricComponents, {0}) \subseteq LiveSlots
  /\ <<"linear", Value("psi0", 0)>> \in LiveSlots /\ <<"linear", Value("zPlus", 0)>> \in LiveSlots
<1> DEFINE L == LinearSlots
<1>1. L \subseteq LiveSlots
  BY DEF LiveSlots
<1>2. /\ {"linear"} \X All("value", MetricComponents, 0 .. 2) \subseteq L
      /\ {"linear"} \X All("dr", MetricComponents, 0 .. 1) \subseteq L
      /\ {"linear"} \X All("dtheta", MetricComponents, 0 .. 1) \subseteq L
      /\ {"linear"} \X All("drr", MetricComponents, {0}) \subseteq L
      /\ {"linear"} \X All("drdtheta", MetricComponents, {0}) \subseteq L
      /\ {"linear"} \X All("dthetadtheta", MetricComponents, {0}) \subseteq L
      /\ <<"linear", Value("psi0", 0)>> \in L /\ <<"linear", Value("zPlus", 0)>> \in L
  BY DEF LinearSlots
<1> HIDE DEF L
<1> QED
  BY <1>1, <1>2

LEMMA ZKernelParts ==
  /\ \A r \in ZKernel : r = To("linear", Value("zPlus", 0), {Own("linear", Value("psi0", 0))})
  /\ To("linear", Value("zPlus", 0), {Own("linear", Value("psi0", 0))}) \in ZKernel
  BY DEF ZKernel, LinearPoint

LEMMA ZHolds ==
  ASSUME NEW memory, DOMAIN memory = LiveSlots, NEW m \in Modes, NEW id,
         memory[<<"linear", Value("psi0", 0)>>][m] = Parts(id, m)
  PROVE  After(memory, ZKernel)[<<"linear", Value("zPlus", 0)>>][m] = Parts(id, m)
<1> DEFINE s == <<"linear", Value("zPlus", 0)>>
           p == <<"linear", Value("psi0", 0)>>
           r0 == To("linear", Value("zPlus", 0), {Own("linear", Value("psi0", 0))})
           q0 == Own("linear", Value("psi0", 0))
<1>1. r0.slot = s /\ r0.reads = {q0} /\ r0.raise = 0 /\ q0.slot = p /\ q0.sign = 1 /\ q0.rate = 0
  BY CopyRecords
<1>2. \A r \in ZKernel : r = r0
  BY ZKernelParts
<1>3. r0 \in ZKernel
  BY ZKernelParts
<1>4. s \in LiveSlots
  BY LinearPlaces
<1> HIDE DEF s, r0, q0
<1>5. s \in Written(ZKernel)
  BY <1>1, <1>3 DEF Written
<1>6. \A i : i \in After(memory, ZKernel)[s][m] <=>
           \E r \in ZKernel : /\ r.slot = s
                              /\ \E q \in r.reads : \E j \in memory[q.slot][q.sign * m] :
                                   i = Moved(j, r.raise - q.rate)
  BY <1>4, <1>5, AfterWritten
<1>7. m \in Int /\ 1 * m = m
  BY Mirrored
<1>8. \A j \in Parts(id, m) : Moved(j, 0 - 0) = j
  <2> SUFFICES ASSUME NEW j \in Parts(id, m) PROVE Moved(j, 0 - 0) = j
    OBVIOUS
  <2>1. PICK c \in MetricComponents, k \in 0 .. 2 : j = Part(c, id, m, k)
    BY DEF Parts
  <2>2. 0 \in 0 .. 2
    OBVIOUS
  <2> QED
    BY <2>1, <2>2, PartMoved
<1>9. ASSUME NEW i PROVE i \in After(memory, ZKernel)[s][m] <=> i \in Parts(id, m)
  <2>1. ASSUME i \in After(memory, ZKernel)[s][m] PROVE i \in Parts(id, m)
    <3>1. PICK r \in ZKernel : /\ r.slot = s
                               /\ \E q \in r.reads : \E j \in memory[q.slot][q.sign * m] :
                                    i = Moved(j, r.raise - q.rate)
      BY <1>6, <2>1
    <3>2. r = r0
      BY <1>2
    <3>3. PICK j \in memory[q0.slot][q0.sign * m] : i = Moved(j, r0.raise - q0.rate)
      BY <1>1, <3>1, <3>2
    <3>4. j \in Parts(id, m) /\ i = Moved(j, 0 - 0)
      BY <1>1, <1>7, <3>3
    <3> QED
      BY <1>8, <3>4
  <2>2. ASSUME i \in Parts(id, m) PROVE i \in After(memory, ZKernel)[s][m]
    <3>1. i \in memory[q0.slot][q0.sign * m] /\ i = Moved(i, r0.raise - q0.rate)
      BY <1>1, <1>7, <1>8, <2>2
    <3>2. q0 \in r0.reads
      BY <1>1
    <3> QED
      BY <1>1, <1>3, <1>6, <3>1, <3>2
  <2> QED
    BY <2>1, <2>2
<1>10. After(memory, ZKernel)[s][m] = Parts(id, m)
  BY <1>9
<1> QED
  BY <1>10 DEF s

LEMMA LinearList ==
  ASSUME NEW metric, NEW k,
         k = <<PackMetric(metric)>> \o LinearRadial \o LinearAngular \o LinearPoint
  PROVE  KernelsSix(k, PackMetric(metric), Coordinate("dr", "value", 0 .. 1),
                    Coordinate("drr", "dr", {0}),
                    Coordinate("dtheta", "value", 0 .. 1) \cup
                      Coordinate("dthetadtheta", "value", {0}) \cup Coordinate("drdtheta", "dr", {0}),
                    PsiKernel, ZKernel)
<1> DEFINE a == Coordinate("dr", "value", 0 .. 1)
           b == Coordinate("drr", "dr", {0})
           c == Coordinate("dtheta", "value", 0 .. 1) \cup
                  Coordinate("dthetadtheta", "value", {0}) \cup Coordinate("drdtheta", "dr", {0})
           p == PackMetric(metric)
<1>1. LinearRadial = <<a, b>>
  BY DEF LinearRadial
<1>2. LinearAngular = <<c>>
  BY DEF LinearAngular
<1>3. LinearPoint = <<PsiKernel, ZKernel>>
  <2> DEFINE x == LinearPoint[1]
             y == LinearPoint[2]
  <2>1. LinearPoint = <<x, y>>
    BY DEF LinearPoint
  <2> QED
    BY <2>1 DEF PsiKernel, ZKernel
<1> HIDE DEF a, b, c, p
<1>4. k = <<p>> \o <<a, b>> \o <<c>> \o <<PsiKernel, ZKernel>>
  BY <1>1, <1>2, <1>3 DEF p
<1>5. KernelsSix(k, p, a, b, c, PsiKernel, ZKernel)
  BY <1>4, KernelsLinear
<1> QED
  BY <1>5 DEF a, b, c, p

LEMMA LinearOnly ==
  /\ \A in : Only(PackMetric(in), {"linear"})
  /\ \A op, from, orders : Only(Coordinate(op, from, orders), {"linear"})
  /\ Only(PsiKernel, {"linear"}) /\ Only(ZKernel, {"linear"})
<1>1. \A in : Only(PackMetric(in), {"linear"})
  BY PackMetricParts DEF PacksParts
<1>2. ASSUME NEW op, NEW from, NEW orders PROVE Only(Coordinate(op, from, orders), {"linear"})
  <2> SUFFICES ASSUME NEW r \in Coordinate(op, from, orders) PROVE r.slot[1] \in {"linear"}
    BY DEF Only
  <2>1. PICK p \in MetricComponents \X orders :
          r = Put("linear", op, p[1], p[2], {At("linear", from, p[1], p[2])})
    BY DEF Coordinate
  <2>2. r.slot = <<"linear", Quantity(op, p[1], p[2])>>
    BY <2>1, PutParts
  <2> QED
    BY <2>2
<1>3. Only(PsiKernel, {"linear"})
  BY PsiKernelParts DEF PsiResult, Only
<1>4. Only(ZKernel, {"linear"})
  BY ZKernelParts, CopyRecords DEF Only
<1> QED
  BY <1>1, <1>2, <1>3, <1>4

LEMMA LinearRun ==
  ASSUME NEW memory, NEW metric
  PROVE  \E done : LinearSteps(metric, memory, LinearStage(memory, metric), done)
<1> DEFINE k == <<PackMetric(metric)>> \o LinearRadial \o LinearAngular \o LinearPoint
           c == Coordinate("dtheta", "value", 0 .. 1) \cup
                  Coordinate("dthetadtheta", "value", {0}) \cup Coordinate("drdtheta", "dr", {0})
<1>1. KernelsSix(k, PackMetric(metric), Coordinate("dr", "value", 0 .. 1),
                 Coordinate("drr", "dr", {0}), c, PsiKernel, ZKernel)
  BY LinearList
<1>2. LinearStage(memory, metric) = Run(memory, k)
  BY DEF LinearStage
<1> HIDE DEF k, c
<1>3. /\ Len(k) = 6 /\ k[1] = PackMetric(metric) /\ k[2] = Coordinate("dr", "value", 0 .. 1)
      /\ k[3] = Coordinate("drr", "dr", {0}) /\ k[4] = c /\ k[5] = PsiKernel /\ k[6] = ZKernel
  BY <1>1 DEF KernelsSix
<1>4. Len(k) \in Nat
  BY <1>3
<1>5. PICK done : /\ done[0] = memory
                  /\ \A n \in 1 .. Len(k) : done[n] = After(done[n - 1], k[n])
                  /\ Run(memory, k) = done[Len(k)]
  BY <1>4, RunSteps
<1>6. /\ done[1] = After(done[0], k[1]) /\ done[2] = After(done[1], k[2])
      /\ done[3] = After(done[2], k[3]) /\ done[4] = After(done[3], k[4])
      /\ done[5] = After(done[4], k[5]) /\ done[6] = After(done[5], k[6])
  BY <1>3, <1>5
<1>7. LinearSteps(metric, memory, Run(memory, k), done)
  BY <1>3, <1>5, <1>6 DEF LinearSteps, c
<1> QED
  BY <1>2, <1>7

LEMMA AfterLeaves ==
  ASSUME NEW memory, DOMAIN memory = LiveSlots, NEW kernel, NEW views, Only(kernel, views)
  PROVE  /\ DOMAIN After(memory, kernel) = LiveSlots
         /\ Leaves(After(memory, kernel), memory, views)
<1>1. DOMAIN After(memory, kernel) = LiveSlots
  BY AfterDomain
<1>2. ASSUME NEW x \in LiveSlots, x[1] \notin views PROVE After(memory, kernel)[x] = memory[x]
  <2>1. x \notin Written(kernel)
    BY <1>2, OnlyElsewhere
  <2> QED
    BY <2>1, AfterElsewhere
<1> QED
  BY <1>1, <1>2 DEF Leaves

LEMMA LinearTouches ==
  ASSUME NEW memory, DOMAIN memory = LiveSlots, NEW metric, NEW out, NEW done,
         LinearSteps(metric, memory, out, done)
  PROVE  /\ \A n \in 0 .. 6 : DOMAIN done[n] = LiveSlots
         /\ Leaves(out, memory, {"linear"})
<1> DEFINE c == Coordinate("dtheta", "value", 0 .. 1) \cup
                  Coordinate("dthetadtheta", "value", {0}) \cup Coordinate("drdtheta", "dr", {0})
<1>1. Only(c, {"linear"})
  BY LinearOnly DEF Only
<1>2. /\ done[0] = memory /\ out = done[6]
      /\ done[1] = After(done[0], PackMetric(metric))
      /\ done[2] = After(done[1], Coordinate("dr", "value", 0 .. 1))
      /\ done[3] = After(done[2], Coordinate("drr", "dr", {0}))
      /\ done[4] = After(done[3], c)
      /\ done[5] = After(done[4], PsiKernel) /\ done[6] = After(done[5], ZKernel)
  BY DEF LinearSteps
<1> HIDE DEF c
<1>3. DOMAIN done[1] = LiveSlots /\ Leaves(done[1], done[0], {"linear"})
  BY <1>2, LinearOnly, AfterLeaves
<1>4. DOMAIN done[2] = LiveSlots /\ Leaves(done[2], done[1], {"linear"})
  BY <1>2, <1>3, LinearOnly, AfterLeaves
<1>5. DOMAIN done[3] = LiveSlots /\ Leaves(done[3], done[2], {"linear"})
  BY <1>2, <1>4, LinearOnly, AfterLeaves
<1>6. DOMAIN done[4] = LiveSlots /\ Leaves(done[4], done[3], {"linear"})
  BY <1>1, <1>2, <1>5, AfterLeaves
<1>7. DOMAIN done[5] = LiveSlots /\ Leaves(done[5], done[4], {"linear"})
  BY <1>2, <1>6, LinearOnly, AfterLeaves
<1>8. DOMAIN done[6] = LiveSlots /\ Leaves(done[6], done[5], {"linear"})
  BY <1>2, <1>7, LinearOnly, AfterLeaves
<1>9. Leaves(out, memory, {"linear"})
  BY <1>2, <1>3, <1>4, <1>5, <1>6, <1>7, <1>8 DEF Leaves
<1>10. \A n \in 0 .. 6 : n = 0 \/ n = 1 \/ n = 2 \/ n = 3 \/ n = 4 \/ n = 5 \/ n = 6
  OBVIOUS
<1> QED
  BY <1>2, <1>3, <1>4, <1>5, <1>6, <1>7, <1>8, <1>9, <1>10

LEMMA PsiPartsThere == PsiQuantities(AngularParts)
<1> SUFFICES ASSUME NEW c \in MetricComponents, NEW r \in PsiReads[c]
             PROVE  r[2] \in 0 .. 2 /\ Quantity(r[1], c, r[2]) \in AngularParts
  BY DEF PsiQuantities
<1>1. r \in {<<"value", 0>>, <<"value", 1>>, <<"value", 2>>, <<"dr", 0>>, <<"dr", 1>>,
             <<"dtheta", 0>>, <<"dtheta", 1>>, <<"drr", 0>>, <<"drdtheta", 0>>, <<"dthetadtheta", 0>>}
  BY DEF PsiReads, MetricComponents
<1>2. CASE r \in {<<"value", 0>>, <<"value", 1>>, <<"value", 2>>}
  <2>1. r[1] = "value" /\ r[2] \in 0 .. 2
    BY <1>2
  <2>2. Quantity("value", c, r[2]) \in All("value", MetricComponents, 0 .. 2)
    BY <2>1, InAll
  <2> QED
    BY <2>1, <2>2 DEF AngularParts, SecondParts, RadialParts
<1>3. CASE r \in {<<"dr", 0>>, <<"dr", 1>>}
  <2>1. r[1] = "dr" /\ r[2] \in 0 .. 1 /\ r[2] \in 0 .. 2
    BY <1>3
  <2>2. Quantity("dr", c, r[2]) \in All("dr", MetricComponents, 0 .. 1)
    BY <2>1, InAll
  <2> QED
    BY <2>1, <2>2 DEF AngularParts, SecondParts, RadialParts
<1>4. CASE r \in {<<"dtheta", 0>>, <<"dtheta", 1>>}
  <2>1. r[1] = "dtheta" /\ r[2] \in 0 .. 1 /\ r[2] \in 0 .. 2
    BY <1>4
  <2>2. Quantity("dtheta", c, r[2]) \in All("dtheta", MetricComponents, 0 .. 1)
    BY <2>1, InAll
  <2> QED
    BY <2>1, <2>2 DEF AngularParts
<1>5. CASE r \in {<<"drr", 0>>, <<"drdtheta", 0>>, <<"dthetadtheta", 0>>}
  <2>1. r[1] \in {"drr", "drdtheta", "dthetadtheta"} /\ r[2] = 0 /\ 0 \in {0} /\ r[2] \in 0 .. 2
    BY <1>5
  <2>2. /\ Quantity("drr", c, 0) \in All("drr", MetricComponents, {0})
        /\ Quantity("drdtheta", c, 0) \in All("drdtheta", MetricComponents, {0})
        /\ Quantity("dthetadtheta", c, 0) \in All("dthetadtheta", MetricComponents, {0})
    BY <2>1, InAll
  <2> QED
    BY <2>1, <2>2 DEF AngularParts, SecondParts
<1> QED
  BY <1>1, <1>2, <1>3, <1>4, <1>5

LEMMA LinearParts ==
  ASSUME NEW memory, DOMAIN memory = LiveSlots, NEW metric, NEW out, NEW done,
         LinearSteps(metric, memory, out, done), NEW id, Exact(memory, metric, id)
  PROVE  LinearOf(out, id)
<1> DEFINE V == All("value", MetricComponents, 0 .. 2)
           A == All("dr", MetricComponents, 0 .. 1)
           B == All("drr", MetricComponents, {0})
           C1 == All("dtheta", MetricComponents, 0 .. 1)
           C2 == All("dthetadtheta", MetricComponents, {0})
           C3 == All("drdtheta", MetricComponents, {0})
           c1 == Coordinate("dtheta", "value", 0 .. 1)
           c2 == Coordinate("dthetadtheta", "value", {0})
           c3 == Coordinate("drdtheta", "dr", {0})
<1>0. /\ DOMAIN done[0] = LiveSlots /\ DOMAIN done[1] = LiveSlots /\ DOMAIN done[2] = LiveSlots
      /\ DOMAIN done[3] = LiveSlots /\ DOMAIN done[4] = LiveSlots /\ DOMAIN done[5] = LiveSlots
  BY LinearTouches
<1>1. /\ done[0] = memory /\ out = done[6]
      /\ done[1] = After(done[0], PackMetric(metric))
      /\ done[2] = After(done[1], Coordinate("dr", "value", 0 .. 1))
      /\ done[3] = After(done[2], Coordinate("drr", "dr", {0}))
      /\ done[4] = After(done[3], c1 \cup c2 \cup c3)
      /\ done[5] = After(done[4], PsiKernel) /\ done[6] = After(done[5], ZKernel)
  BY DEF LinearSteps
<1>2. /\ {"linear"} \X V \subseteq LiveSlots /\ {"linear"} \X A \subseteq LiveSlots
      /\ {"linear"} \X B \subseteq LiveSlots /\ {"linear"} \X C1 \subseteq LiveSlots
      /\ {"linear"} \X C2 \subseteq LiveSlots /\ {"linear"} \X C3 \subseteq LiveSlots
  BY LinearPlaces
<1>3. All("value", MetricComponents, 0 .. 1) \subseteq V /\ All("value", MetricComponents, {0}) \subseteq V
  BY DEF All
<1>4. All("dr", MetricComponents, {0}) \subseteq A
  BY DEF All
<1>5. 0 .. 1 \in SUBSET (0 .. 2) /\ {0} \in SUBSET (0 .. 2)
  OBVIOUS
<1> HIDE DEF V, A, B, C1, C2, C3, c1, c2, c3
<1>6. HoldsParts(done[1], V, id)
  BY <1>0, <1>1, PackMetricHolds DEF V
<1>7. HoldsParts(done[2], V \cup A, id)
  <2>1. CoordinateOf(Coordinate("dr", "value", 0 .. 1), V, A)
    BY <1>2, <1>3, <1>5, CoordinateParts DEF A
  <2> QED
    BY <1>0, <1>1, <1>2, <1>6, <2>1, CoordinateHolds
<1>8. HoldsParts(done[3], (V \cup A) \cup B, id)
  <2>1. CoordinateOf(Coordinate("drr", "dr", {0}), V \cup A, B)
    <3>1. All("dr", MetricComponents, {0}) \subseteq V \cup A
      BY <1>4
    <3> QED
      BY <1>2, <1>5, <3>1, CoordinateParts DEF B
  <2>2. {"linear"} \X (V \cup A) \subseteq LiveSlots
    BY <1>2
  <2> QED
    BY <1>0, <1>1, <1>7, <2>1, <2>2, CoordinateHolds
<1> DEFINE S == (V \cup A) \cup B
<1>9. HoldsParts(done[4], S \cup ((C1 \cup C2) \cup C3), id)
  <2>1. /\ All("value", MetricComponents, 0 .. 1) \subseteq S
        /\ All("value", MetricComponents, {0}) \subseteq S
        /\ All("dr", MetricComponents, {0}) \subseteq S
        /\ {"linear"} \X S \subseteq LiveSlots
    BY <1>2, <1>3, <1>4
  <2>2. HoldsParts(done[3], S, id)
    BY <1>8
  <2> HIDE DEF S
  <2>3. CoordinateOf(c1, S, C1)
    BY <1>2, <1>5, <2>1, CoordinateParts DEF c1, C1
  <2>4. CoordinateOf(c2, S, C2)
    BY <1>2, <1>5, <2>1, CoordinateParts DEF c2, C2
  <2>5. CoordinateOf(c3, S, C3)
    BY <1>2, <1>5, <2>1, CoordinateParts DEF c3, C3
  <2>6. CoordinateOf(c1 \cup c2, S, C1 \cup C2)
    BY <2>3, <2>4, CoordinateBoth
  <2>7. CoordinateOf((c1 \cup c2) \cup c3, S, (C1 \cup C2) \cup C3)
    BY <2>5, <2>6, CoordinateBoth
  <2> QED
    BY <1>0, <1>1, <2>1, <2>2, <2>7, CoordinateHolds
<1>10. S \cup ((C1 \cup C2) \cup C3) = AngularParts
  BY DEF AngularParts, SecondParts, RadialParts, V, A, B, C1, C2, C3
<1> HIDE DEF S
<1>11. ASSUME NEW m \in Modes
       PROVE  done[5][<<"linear", Value("psi0", 0)>>][m] = Parts(id, m)
  <2>1. HoldsParts(done[4], AngularParts, id)
    BY <1>9, <1>10
  <2> QED
    BY <1>0, <1>1, <2>1, PsiPartsThere, PsiHolds
<1>12. ASSUME NEW m \in Modes
       PROVE  done[6][<<"linear", Value("zPlus", 0)>>][m] = Parts(id, m)
  <2>1. done[5][<<"linear", Value("psi0", 0)>>][m] = Parts(id, m) /\ DOMAIN done[5] = LiveSlots
    BY <1>0, <1>11
  <2>2. After(done[5], ZKernel)[<<"linear", Value("zPlus", 0)>>][m] = Parts(id, m)
    BY <2>1, ZHolds
  <2> QED
    BY <1>1, <2>2
<1> SUFFICES ASSUME NEW m \in Modes
             PROVE  out[<<"linear", Value("zPlus", 0)>>][m] =
                      {InputOf("U", id, m, k) : k \in 0 .. 2} \cup
                      {InputOf(f, id, -m, k) : f \in {"B", "C"}, k \in 0 .. 2}
  BY DEF LinearOf
<1>13. out[<<"linear", Value("zPlus", 0)>>][m] = Parts(id, m)
  BY <1>1, <1>12
<1>14. Parts(id, m) = PsiInputs(id, m)
  BY PartsAre
<1> QED
  BY <1>13, <1>14 DEF PsiInputs

LEMMA LinearStageDone ==
  ASSUME NEW memory, DOMAIN memory = LiveSlots, NEW metric, NEW id
  PROVE  LinearDone(LinearStage(memory, metric), memory, metric, id)
<1>1. PICK done : LinearSteps(metric, memory, LinearStage(memory, metric), done)
  BY LinearRun
<1> DEFINE out == LinearStage(memory, metric)
<1>2. LinearSteps(metric, memory, out, done)
  BY <1>1
<1> HIDE DEF out
<1>3. out = done[6]
  BY <1>2 DEF LinearSteps
<1>4. DOMAIN out = LiveSlots /\ Leaves(out, memory, {"linear"})
  BY <1>2, <1>3, LinearTouches
<1>5. Exact(memory, metric, id) => LinearOf(out, id)
  BY <1>2, LinearParts
<1> QED
  BY <1>4, <1>5 DEF LinearDone, out

-----------------------------------------------------------------------------
(* The primitives *)

LEMMA PrimitiveScratchIs ==
  /\ PrimitiveScratch \in Scratches /\ PrimitiveScratch \notin SummedViews
  /\ Ahead(PrimitiveScratch, 0) = 0
  BY DEF PrimitiveScratch, Scratches, SummedViews, Ahead

\* The derivatives that are handed over are there.
LEMMA HandedOverKnown ==
  ASSUME NEW known, NEW s, MetricDerived(known, s), NEW q \in MetricDerivativesOwned
  PROVE  /\ \E op, f : \E k \in 0 .. 4 : q = Quantity(op, f, k)
         /\ <<s, q>> \in known
<1>1. CASE q \in All("delta", {"CSharp", "C", "V"}, 0 .. 1)
  <2>1. PICK f \in {"CSharp", "C", "V"}, k \in 0 .. 1 : q = Quantity("delta", f, k)
    BY <1>1, InAll
  <2>2. k \in 0 .. 4
    OBVIOUS
  <2>3. Has(known, s, "delta", {"CSharp", "C", "V", "VSharp"}, 0 .. 1)
    BY DEF MetricDerived
  <2> QED
    BY <2>1, <2>2, <2>3 DEF Has
<1>2. CASE q \in All("ethprime", {"BSharp", "CSharp"}, 0 .. 1)
  <2>1. PICK f \in {"BSharp", "CSharp"}, k \in 0 .. 1 : q = Quantity("ethprime", f, k)
    BY <1>2, InAll
  <2>2. k \in 0 .. 4
    OBVIOUS
  <2>3. Has(known, s, "ethprime", {"CSharp", "BSharp"}, 0 .. 1)
    BY DEF MetricDerived
  <2> QED
    BY <2>1, <2>2, <2>3 DEF Has
<1>3. CASE q \in All("eth", {"B", "C"}, 0 .. 1)
  <2>1. PICK f \in {"B", "C"}, k \in 0 .. 1 : q = Quantity("eth", f, k)
    BY <1>3, InAll
  <2>2. k \in 0 .. 4
    OBVIOUS
  <2>3. Has(known, s, "eth", {"V", "C", "B"}, 0 .. 1)
    BY DEF MetricDerived
  <2> QED
    BY <2>1, <2>2, <2>3 DEF Has
<1> QED
  BY <1>1, <1>2, <1>3 DEF MetricDerivativesOwned

LEMMA PrimitivePlaces ==
  /\ Places("primitive", "value", PrimitiveNames, 0 .. 1) = {"primitive"} \X PrimitivesOwned
  /\ {"primitive"} \X PrimitivesOwned \subseteq LiveSlots
  /\ {"jk"} \X MetricDerivativesOwned \subseteq LiveSlots
  /\ {"q"} \X QQuantities \subseteq LiveSlots
  BY DEF Places, PrimitivesOwned, LiveSlots, PrimitiveSlots

LEMMA KnownPutsFit ==
  ASSUME NEW kernel, NEW from, NEW out, NEW known,
         \A r \in kernel : KnownPut(r, from, out, known)
  PROVE  PutsOf(kernel, from, out, known)
  BY DEF PutsOf, KnownPut, KnownRead

LEMMA HandedOverFits ==
  ASSUME NEW s, s = PrimitiveScratch, NEW known, MetricDerived(known, s)
  PROVE  /\ Fits(HandedOver(s), known, 0)
         /\ Written(HandedOver(s)) = {"jk"} \X MetricDerivativesOwned
         /\ Only(HandedOver(s), {"jk"})
<1>1. \A q \in MetricDerivativesOwned :
        /\ \E op, f : \E k \in 0 .. 4 : q = Quantity(op, f, k)
        /\ <<s, q>> \in known
  BY HandedOverKnown
<1>2. ASSUME NEW q \in MetricDerivativesOwned
      PROVE  /\ q = Quantity(q.op, q.of, q.order) /\ q.order \in 0 .. 4
             /\ <<s, q>> \in known
  <2>1. PICK op, f : \E k \in 0 .. 4 : q = Quantity(op, f, k)
    BY <1>1
  <2>2. PICK k \in 0 .. 4 : q = Quantity(op, f, k)
    BY <2>1
  <2>3. q.op = op /\ q.of = f /\ q.order = k
    BY <2>2, QuantityParts
  <2> QED
    BY <1>1, <2>2, <2>3
<1> DEFINE put(q) == Put("jk", q.op, q.of, q.order, {At(s, q.op, q.of, q.order)})
<1>3. \A r : r \in HandedOver(s) <=> \E q \in MetricDerivativesOwned : r = put(q)
  BY DEF HandedOver
<1>4. ASSUME NEW r \in HandedOver(s) PROVE KnownPut(r, s, "jk", known)
  <2>1. PICK q \in MetricDerivativesOwned : r = put(q)
    BY <1>3
  <2>2. q.order \in 0 .. 4 /\ <<s, Quantity(q.op, q.of, q.order)>> \in known
    BY <1>2
  <2>3. KnownRead(At(s, q.op, q.of, q.order), s, known)
    BY <2>2 DEF KnownRead
  <2> DEFINE reads == {At(s, q.op, q.of, q.order)}
  <2>4. \A x \in reads : KnownRead(x, s, known)
    BY <2>3
  <2>5. r = Put("jk", q.op, q.of, q.order, reads)
    BY <2>1
  <2> HIDE DEF reads
  <2> QED
    BY <2>2, <2>4, <2>5 DEF KnownPut
<1>5. PutsOf(HandedOver(s), s, "jk", known)
  BY <1>4, KnownPutsFit
<1>6. ASSUME NEW q \in MetricDerivativesOwned
      PROVE  put(q).slot = <<"jk", q>>
  <2>1. put(q).slot = <<"jk", Quantity(q.op, q.of, q.order)>>
    BY PutParts
  <2> QED
    BY <1>2, <2>1
<1> HIDE DEF put
<1>7. Written(HandedOver(s)) = {"jk"} \X MetricDerivativesOwned
  <2>1. ASSUME NEW x \in Written(HandedOver(s)) PROVE x \in {"jk"} \X MetricDerivativesOwned
    <3>1. PICK r \in HandedOver(s) : x = r.slot
      BY DEF Written
    <3>2. PICK q \in MetricDerivativesOwned : r = put(q)
      BY <1>3
    <3> QED
      BY <1>6, <3>1, <3>2
  <2>2. ASSUME NEW x \in {"jk"} \X MetricDerivativesOwned PROVE x \in Written(HandedOver(s))
    <3>1. PICK q \in MetricDerivativesOwned : x = <<"jk", q>>
      OBVIOUS
    <3>2. put(q) \in HandedOver(s) /\ put(q).slot = x
      BY <1>3, <1>6, <3>1
    <3> QED
      BY <3>2 DEF Written
  <2> QED
    BY <2>1, <2>2
<1>8. Only(HandedOver(s), {"jk"})
  BY <1>7 DEF Only, Written
<1>9. Ahead(s, 0) = Ahead("jk", 0) /\ s \notin SummedViews /\ "jk" \notin SummedViews /\ 0 \in 0 .. 2
  BY PrimitiveScratchIs DEF Ahead, SummedViews
<1>10. Fits(HandedOver(s), known, 0)
  BY <1>5, <1>7, <1>9, PrimitivePlaces, PutsFit
<1> QED
  BY <1>7, <1>8, <1>10

LEMMA HandOverFits ==
  ASSUME NEW s, s = PrimitiveScratch, NEW known, MetricDerived(known, s)
  PROVE  /\ Fits(HandOver(s), known, 0)
         /\ Written(HandOver(s)) = ({"primitive"} \X PrimitivesOwned) \cup
                                   ({"jk"} \X MetricDerivativesOwned)
         /\ Only(HandOver(s), {"primitive", "jk"})
<1>1. HandOver(s) = Connections(s, "primitive", PrimitiveNames) \cup HandedOver(s)
  BY DEF HandOver, HandedOver
<1>2. PrimitiveNames \in SUBSET (DOMAIN ConnectionReads)
  BY DEF PrimitiveNames, ConnectionReads
<1>3. /\ s \in Scratches /\ Ahead(s, 0) = Ahead("primitive", 0) /\ "primitive" \notin SummedViews
      /\ 0 \in 0 .. 2
  BY PrimitiveScratchIs DEF Ahead, SummedViews
<1>4. Places("primitive", "value", PrimitiveNames, 0 .. 1) \subseteq LiveSlots
  BY PrimitivePlaces
<1> DEFINE k == Connections(s, "primitive", PrimitiveNames)
<1>5. /\ Fits(k, known, 0)
      /\ Written(k) = Places("primitive", "value", PrimitiveNames, 0 .. 1)
  BY <1>2, <1>3, <1>4, ConnectionsFit
<1>6. Only(k, {"primitive"})
  BY OnlyOf
<1> HIDE DEF k
<1>7. /\ Fits(k \cup HandedOver(s), known, 0)
      /\ Written(k \cup HandedOver(s)) = Written(k) \cup Written(HandedOver(s))
  BY <1>5, HandedOverFits, FitsBoth
<1>8. Only(k \cup HandedOver(s), {"primitive", "jk"})
  BY <1>6, HandedOverFits DEF Only
<1> QED
  BY <1>1, <1>5, <1>7, <1>8, HandedOverFits, PrimitivePlaces DEF k

LEMMA KapAngularFits ==
  ASSUME NEW s, s = PrimitiveScratch, NEW known, Connected(known, s)
  PROVE  LET k == Angular(s, "ethprime", {"Kap"}, {0})
         IN  Fits(k, known, 0) /\ Has(Written(k), s, "ethprime", {"Kap"}, {0}) /\ Only(k, {s})
<1>1. s \in Scratches
  BY PrimitiveScratchIs
<1>2. Has(known, s, "value", KeptConnections, 0 .. 1)
  BY DEF Connected
<1>3. Has(known, s, "value", {"Kap"}, {0}) /\ Has(known, s, "value", {"Kap"}, Later({0}))
  BY <1>2 DEF Has, KeptConnections, Later
<1>4. Places(s, "ethprime", {"Kap"}, {0}) \subseteq LiveSlots
  BY <1>1, InScratch
<1>5. {0} \in SUBSET (0 .. 2) /\ 0 \in 0 .. 2
  OBVIOUS
<1> DEFINE k == Angular(s, "ethprime", {"Kap"}, {0})
<1>6. Fits(k, known, 0) /\ Written(k) = Places(s, "ethprime", {"Kap"}, {0})
  BY <1>3, <1>4, <1>5, AngularFits
<1>7. Only(k, {s})
  BY OnlyOf
<1> HIDE DEF k
<1>8. Has(Written(k), s, "ethprime", {"Kap"}, {0})
  BY <1>6, HasPlaces
<1> QED
  BY <1>6, <1>7, <1>8 DEF k

LEMMA QParts ==
  ASSUME NEW s
  PROVE  \A r : r \in QDerivatives(s) <=>
           \E q \in QQuantities : r = Put("q", q.op, q.of, 0, QRead(s, q))
<1> DEFINE a == Quantity("delta", "Sig", 0)
           b == Quantity("delta", "Kap", 0)
           c == Quantity("ethprime", "Kap", 0)
           put(q) == Put("q", q.op, q.of, 0, QRead(s, q))
<1>1. /\ a.op = "delta" /\ a.of = "Sig" /\ b.op = "delta" /\ b.of = "Kap"
      /\ c.op = "ethprime" /\ c.of = "Kap"
  BY DEF Quantity
<1>2. put(a) = Put("q", "delta", "Sig", 0, WithRate(s, "Sig", 0) \cup {At(s, "dr", "Sig", 0)})
  BY <1>1 DEF QRead
<1>3. put(b) = Put("q", "delta", "Kap", 0, WithRate(s, "Kap", 0) \cup {At(s, "dr", "Kap", 0)})
  BY <1>1 DEF QRead
<1>4. put(c) = Put("q", "ethprime", "Kap", 0, {At(s, "ethprime", "Kap", 0)})
  BY <1>1 DEF QRead
<1>5. QDerivatives(s) = {put(a), put(b), put(c)}
  BY <1>2, <1>3, <1>4 DEF QDerivatives
<1>6. QQuantities = {a, b, c}
  BY DEF QQuantities
<1> HIDE DEF a, b, c
<1> QED
  BY <1>5, <1>6

LEMMA QFits ==
  ASSUME NEW s, s = PrimitiveScratch, NEW known, Connected(known, s),
         Has(known, s, "ethprime", {"Kap"}, {0})
  PROVE  /\ Fits(QDerivatives(s), known, 0)
         /\ Written(QDerivatives(s)) = {"q"} \X QQuantities
         /\ Only(QDerivatives(s), {"q"})
<1>1. Has(known, s, "value", KeptConnections, 0 .. 1) /\ Has(known, s, "dr", {"Sig", "Kap", "Be"}, {0})
  BY DEF Connected
<1>2. \A q \in QQuantities : /\ q = Quantity(q.op, q.of, 0)
                             /\ q.op = "delta" => q.of \in {"Sig", "Kap"}
  BY QuantityParts DEF QQuantities
<1>3. \A r : r \in QDerivatives(s) <=>
         \E q \in QQuantities : r = Put("q", q.op, q.of, 0, QRead(s, q))
  BY QParts
<1>4. \A op, f : \A k \in {0, 1} :
        <<s, Quantity(op, f, k)>> \in known => KnownRead(At(s, op, f, k), s, known)
  <2>1. 0 \in 0 .. 4 /\ 1 \in 0 .. 4
    OBVIOUS
  <2> QED
    BY <2>1 DEF KnownRead
<1>5. ASSUME NEW q \in QQuantities PROVE \A x \in QRead(s, q) : KnownRead(x, s, known)
  <2>1. CASE q.op = "delta"
    <3>1. q.of \in {"Sig", "Kap"} /\ q.of \in KeptConnections
      BY <1>2, <2>1 DEF KeptConnections
    <3>2. /\ <<s, Quantity("value", q.of, 0)>> \in known
          /\ <<s, Quantity("value", q.of, 1)>> \in known
      BY <1>1, <3>1 DEF Has
    <3>3. <<s, Quantity("dr", q.of, 0)>> \in known
      BY <1>1, <3>1 DEF Has
    <3>4. /\ KnownRead(At(s, "value", q.of, 0), s, known)
          /\ KnownRead(At(s, "value", q.of, 1), s, known)
          /\ KnownRead(At(s, "dr", q.of, 0), s, known)
      BY <1>4, <3>2, <3>3
    <3>5. QRead(s, q) = {At(s, "value", q.of, 0), At(s, "value", q.of, 0 + 1)} \cup
                        {At(s, "dr", q.of, 0)}
      BY <2>1 DEF QRead, WithRate
    <3>6. 0 + 1 = 1
      OBVIOUS
    <3> QED
      BY <3>4, <3>5, <3>6
  <2>2. CASE q.op # "delta"
    <3>1. <<s, Quantity("ethprime", "Kap", 0)>> \in known
      BY DEF Has
    <3>2. KnownRead(At(s, "ethprime", "Kap", 0), s, known)
      BY <1>4, <3>1
    <3>3. QRead(s, q) = {At(s, "ethprime", "Kap", 0)}
      BY <2>2 DEF QRead
    <3> QED
      BY <3>2, <3>3
  <2> QED
    BY <2>1, <2>2
<1>6. ASSUME NEW r \in QDerivatives(s) PROVE KnownPut(r, s, "q", known)
  <2>1. PICK q \in QQuantities : r = Put("q", q.op, q.of, 0, QRead(s, q))
    BY <1>3
  <2>2. \A x \in QRead(s, q) : KnownRead(x, s, known)
    BY <1>5
  <2> DEFINE reads == QRead(s, q)
  <2>3. r = Put("q", q.op, q.of, 0, reads) /\ \A x \in reads : KnownRead(x, s, known)
    BY <2>1, <2>2
  <2> HIDE DEF reads
  <2>4. 0 \in 0 .. 4
    OBVIOUS
  <2> QED
    BY <2>3, <2>4 DEF KnownPut
<1>7. PutsOf(QDerivatives(s), s, "q", known)
  BY <1>6, KnownPutsFit
<1>8. Written(QDerivatives(s)) = {"q"} \X QQuantities
  <2>1. \A q \in QQuantities : Put("q", q.op, q.of, 0, QRead(s, q)).slot = <<"q", q>>
    <3> SUFFICES ASSUME NEW q \in QQuantities
                 PROVE  Put("q", q.op, q.of, 0, QRead(s, q)).slot = <<"q", q>>
      OBVIOUS
    <3>1. Put("q", q.op, q.of, 0, QRead(s, q)).slot = <<"q", Quantity(q.op, q.of, 0)>>
      BY PutParts
    <3> QED
      BY <1>2, <3>1
  <2>2. ASSUME NEW x \in Written(QDerivatives(s)) PROVE x \in {"q"} \X QQuantities
    <3>1. PICK r \in QDerivatives(s) : x = r.slot
      BY DEF Written
    <3>2. PICK q \in QQuantities : r = Put("q", q.op, q.of, 0, QRead(s, q))
      BY <1>3
    <3> QED
      BY <2>1, <3>1, <3>2
  <2>3. ASSUME NEW x \in {"q"} \X QQuantities PROVE x \in Written(QDerivatives(s))
    <3>1. PICK q \in QQuantities : x = <<"q", q>>
      OBVIOUS
    <3>2. /\ Put("q", q.op, q.of, 0, QRead(s, q)) \in QDerivatives(s)
          /\ Put("q", q.op, q.of, 0, QRead(s, q)).slot = x
      BY <1>3, <2>1, <3>1
    <3> QED
      BY <3>2 DEF Written
  <2> QED
    BY <2>2, <2>3
<1>9. Only(QDerivatives(s), {"q"})
  BY <1>8 DEF Only, Written
<1>10. Ahead(s, 0) = Ahead("q", 0) /\ s \notin SummedViews /\ "q" \notin SummedViews /\ 0 \in 0 .. 2
  BY PrimitiveScratchIs DEF Ahead, SummedViews
<1>11. Fits(QDerivatives(s), known, 0)
  BY <1>7, <1>8, <1>10, PrimitivePlaces, PutsFit
<1> QED
  BY <1>8, <1>9, <1>11

LEMMA PrimitiveList ==
  ASSUME NEW s, NEW metric, NEW ready
  PROVE  PrimitivePasses(PrimitiveKernels(s, metric, ready), s, metric, ready)
<1> DEFINE k == PrimitiveKernels(s, metric, ready)
<1>1. k = << Gated(ready, Pack(s, metric, 0)), MetricRadial(s), MetricAngular(s),
             MetricDerivatives(s), Connections(s, s, KeptConnections), ConnectionRadial(s),
             HandOver(s), Angular(s, "ethprime", {"Kap"}, {0}), QDerivatives(s) >>
  BY KernelsThree DEF PrimitiveKernels, MetricToConnection
<1>2. Len(k) = 9 /\ k[1] = Gated(ready, Pack(s, metric, 0))
      /\ k[7] = HandOver(s) /\ k[8] = Angular(s, "ethprime", {"Kap"}, {0}) /\ k[9] = QDerivatives(s)
  BY <1>1
<1>3. \A i \in 1 .. 5 : k[i + 1] = MetricToConnection(s)[i]
  <2>1. /\ k[1 + 1] = MetricToConnection(s)[1] /\ k[2 + 1] = MetricToConnection(s)[2]
        /\ k[3 + 1] = MetricToConnection(s)[3] /\ k[4 + 1] = MetricToConnection(s)[4]
        /\ k[5 + 1] = MetricToConnection(s)[5]
    BY <1>1 DEF MetricToConnection
  <2>2. \A i \in 1 .. 5 : i = 1 \/ i = 2 \/ i = 3 \/ i = 4 \/ i = 5
    OBVIOUS
  <2> HIDE DEF k
  <2> QED
    BY <2>1, <2>2
<1> QED
  BY <1>2, <1>3 DEF PrimitivePasses

LEMMA PrimitiveRunOf ==
  ASSUME NEW s, s = PrimitiveScratch, NEW metric \in {"routeb", "givenMetric"},
         NEW kernels, NEW ready \in BOOLEAN, PrimitivePasses(kernels, s, metric, ready),
         NEW memory, NEW base, Packable(base, metric, 0),
         NEW fault, NEW id, NEW more \in Extra, Spared(fault, more),
         Knows(memory, base, id, 0, more),
         NEW out, out = RunFault(memory, kernels, fault)
  PROVE  /\ Knows(out, PrimitiveMade(base), id, 0, more)
         /\ Leaves(out, memory, PrimitiveViews)
<1>a. /\ Len(kernels) = 9
      /\ kernels[1] = Gated(ready, Pack(s, metric, 0))
      /\ \A i \in 1 .. 5 : kernels[i + 1] = MetricToConnection(s)[i]
      /\ kernels[7] = HandOver(s) /\ kernels[8] = Angular(s, "ethprime", {"Kap"}, {0})
      /\ kernels[9] = QDerivatives(s)
  BY DEF PrimitivePasses
<1>0. Len(kernels) \in Nat
  BY <1>a
<1>1. PICK done : FaultPasses(memory, kernels, fault, done)
  BY <1>0, RunFaultSteps
<1>2. /\ done[0] = memory
      /\ \A n \in 1 .. Len(kernels) : done[n] = AfterFault(done[n - 1], kernels[n], fault)
      /\ RunFault(memory, kernels, fault) = done[Len(kernels)]
  BY <1>1 DEF FaultPasses
<1>3. s \in Scratches /\ 0 = Ahead(s, 0) /\ 0 \in 0 .. 2
  BY PrimitiveScratchIs
<1>4. Knows(done[0], base, id, 0, more)
  BY <1>2
<1>5. ConnectionPass(s, metric, 0, ready, fault, kernels, done)
  BY <1>2, <1>a DEF ConnectionPass
<1>6. PICK K6 : base \subseteq K6 /\ Connected(K6, s) /\ Knows(done[6], K6, id, 0, more)
  <2>1. metric \in {"tower", "routeb", "givenMetric"}
    OBVIOUS
  <2>2. Derives(done[6], base, s, id, 0, more)
    BY <1>3, <1>4, <1>5, <2>1, ToConnection
  <2> QED
    BY <2>2 DEF Derives
<1>7. /\ done[7] = AfterFault(done[6], kernels[7], fault)
      /\ done[8] = AfterFault(done[7], kernels[8], fault)
      /\ done[9] = AfterFault(done[8], kernels[9], fault)
      /\ out = done[9]
  BY <1>2, <1>a
<1> DEFINE K7 == Grown(K6, kernels[7])
           K8 == Grown(K7, kernels[8])
           K9 == Grown(K8, kernels[9])
<1>8. /\ Knows(done[7], K7, id, 0, more) /\ Connected(K7, s) /\ K6 \subseteq K7
      /\ ({"primitive"} \X PrimitivesOwned) \cup ({"jk"} \X MetricDerivativesOwned) \subseteq K7
      /\ Only(kernels[7], {"primitive", "jk"})
  <2>1. MetricDerived(K6, s)
    BY <1>6 DEF Connected
  <2>2. /\ Fits(kernels[7], K6, 0) /\ Only(kernels[7], {"primitive", "jk"})
        /\ Written(kernels[7]) = ({"primitive"} \X PrimitivesOwned) \cup
                                 ({"jk"} \X MetricDerivativesOwned)
    BY <1>a, <2>1, HandOverFits
  <2>3. K6 \subseteq K7 /\ Written(kernels[7]) \subseteq K7
    BY GrownParts
  <2>4. Knows(done[7], K7, id, 0, more)
    BY <1>3, <1>6, <1>7, <2>2, KnowsMore
  <2>5. Connected(K7, s)
    BY <1>6, <2>3, PackedMore
  <2> QED
    BY <2>2, <2>3, <2>4, <2>5
<1> HIDE DEF K7
<1>9. /\ Knows(done[8], K8, id, 0, more) /\ Connected(K8, s) /\ K7 \subseteq K8
      /\ Has(K8, s, "ethprime", {"Kap"}, {0}) /\ Only(kernels[8], {s})
  <2>1. /\ Fits(kernels[8], K7, 0) /\ Only(kernels[8], {s})
        /\ Has(Written(kernels[8]), s, "ethprime", {"Kap"}, {0})
    BY <1>a, <1>8, KapAngularFits
  <2>2. K7 \subseteq K8 /\ Written(kernels[8]) \subseteq K8
    BY GrownParts
  <2>3. Knows(done[8], K8, id, 0, more)
    BY <1>3, <1>7, <1>8, <2>1, KnowsMore
  <2>4. Connected(K8, s)
    BY <1>8, <2>2, PackedMore
  <2>5. Has(K8, s, "ethprime", {"Kap"}, {0})
    BY <2>1, <2>2, HasMore
  <2> QED
    BY <2>1, <2>2, <2>3, <2>4, <2>5
<1> HIDE DEF K8
<1>10. /\ Knows(done[9], K9, id, 0, more) /\ K8 \subseteq K9
       /\ {"q"} \X QQuantities \subseteq K9 /\ Only(kernels[9], {"q"})
  <2>1. Fits(kernels[9], K8, 0) /\ Only(kernels[9], {"q"}) /\ Written(kernels[9]) = {"q"} \X QQuantities
    BY <1>a, <1>9, QFits
  <2>2. K8 \subseteq K9 /\ Written(kernels[9]) \subseteq K9
    BY GrownParts
  <2>3. Knows(done[9], K9, id, 0, more)
    BY <1>3, <1>7, <1>9, <2>1, KnowsMore
  <2> QED
    BY <2>1, <2>2, <2>3
<1> HIDE DEF K9
<1>11. Knows(out, PrimitiveMade(base), id, 0, more)
  <2>1. PrimitiveMade(base) \subseteq K9
    BY <1>6, <1>8, <1>9, <1>10 DEF PrimitiveMade
  <2>2. PrimitiveMade(base) \in SUBSET K9 /\ PrimitiveMade(base) \subseteq LiveSlots
    BY <1>10, <2>1 DEF Knows
  <2> QED
    BY <1>7, <1>10, <2>2, WithinFewer DEF Knows
<1>12. ASSUME NEW x \in LiveSlots, x[1] \notin PrimitiveViews
       PROVE  out[x] = memory[x]
  <2>0. x[1] \notin {s} /\ x[1] \notin {"primitive", "jk"} /\ x[1] \notin {"q"}
    BY <1>12 DEF PrimitiveViews, PrimitiveScratch
  <2>1. Only(kernels[1], {s}) /\ \A i \in 1 .. 5 : Only(kernels[i + 1], {s})
    BY <1>a, ConnectionOnly
  <2>2. \A n \in 1 .. 9 : n = 1 \/ n = 7 \/ n = 8 \/ n = 9 \/ \E i \in 1 .. 5 : n = i + 1
    <3>1. \A n \in 1 .. 9 : n = 1 \/ n = 7 \/ n = 8 \/ n = 9 \/ n - 1 \in 1 .. 5
      OBVIOUS
    <3>2. \A n \in 1 .. 9 : n = (n - 1) + 1
      OBVIOUS
    <3> QED
      BY <3>1, <3>2
  <2>3. \A n \in 1 .. 9 : x \notin Written(kernels[n])
    BY <2>0, <1>8, <1>9, <1>10, <2>1, <2>2, OnlyElsewhere
  <2>4. {x} \subseteq DOMAIN memory
    BY DEF Knows
  <2>5. Spares(kernels, {x})
    BY <1>a, <2>3 DEF Spares
  <2>6. \A y \in {x} : RunFault(memory, kernels, fault)[y] = memory[y]
    BY <1>0, <2>4, <2>5, RunFaultElsewhere
  <2> QED
    BY <2>6
<1> QED
  BY <1>11, <1>12 DEF Leaves

LEMMA CarriesOn ==
  ASSUME NEW memory, NEW kernel, NEW fault, NEW from, NEW out, NEW id,
         HSlot(out) \in DOMAIN memory, CarriesTo(kernel, from, out), Carries(memory, from, id)
  PROVE  Carries(AfterFault(memory, kernel, fault), out, id)
<1> SUFFICES ASSUME NEW m \in Modes
             PROVE  HOf(id, m) \in AfterFault(memory, kernel, fault)[HSlot(out)][m]
  BY DEF Carries
<1>1. PICK r \in kernel : \E q \in r.reads :
        /\ r.slot = HSlot(out) /\ r.raise = 0
        /\ q.slot = HSlot(from) /\ q.sign = 1 /\ q.rate = 0
  BY DEF CarriesTo
<1>2. PICK q \in r.reads :
        /\ r.slot = HSlot(out) /\ r.raise = 0
        /\ q.slot = HSlot(from) /\ q.sign = 1 /\ q.rate = 0
  BY <1>1
<1>3. 1 * m = m
  BY Mirrored
<1> DEFINE j == HOf(id, m)
<1>4. j \in memory[q.slot][q.sign * m]
  BY <1>2, <1>3 DEF Carries
<1>5. Moved(j, r.raise - q.rate) = j
  <2>1. "H" \in InputFields /\ 0 \in Int
    BY DEF InputFields, ReconstructionFields
  <2> QED
    BY <1>2, <2>1, MovedNowhere DEF HOf
<1> HIDE DEF j
<1>6. Moved(j, r.raise - q.rate) \in AfterFault(memory, kernel, fault)[r.slot][m]
  BY <1>2, <1>4, AfterFaultHas
<1> QED
  BY <1>2, <1>5, <1>6 DEF j

LEMMA CarriesPast ==
  ASSUME NEW memory, NEW kernel, NEW fault, NEW view, NEW id,
         HSlot(view) \in DOMAIN memory, HSlot(view) \notin Written(kernel),
         Carries(memory, view, id)
  PROVE  Carries(AfterFault(memory, kernel, fault), view, id)
<1>1. AfterFault(memory, kernel, fault)[HSlot(view)] = memory[HSlot(view)]
  BY AfterFaultElsewhere
<1> QED
  BY <1>1 DEF Carries

LEMMA HSlotIs ==
  \A v : /\ HSlot(v) = <<v, Quantity("value", "H", 0)>>
         /\ HSlot(v)[1] = v /\ HSlot(v)[2].op = "value" /\ HSlot(v)[2].of = "H"
  BY DEF HSlot, Value, Quantity

\* Pack and HandOver copy H, and the kernels in between leave it.
LEMMA PackCarries ==
  ASSUME NEW s, NEW metric
  PROVE  CarriesTo(Gated(TRUE, Pack(s, metric, 0)), metric, s)
<1>1. "H" \in DOMAIN PackedFrom /\ PackedFrom["H"] = "H" /\ 0 \in OrdersOf("H") /\ 0 \in 0 .. 2
  BY DEF PackedFrom, OrdersOf
<1>2. 0 + 0 = 0
  OBVIOUS
<1> DEFINE r == Put(s, "value", "H", 0, PackRead(metric, "H", 0, 0, 1))
<1>3. r \in Pack(s, metric, 0)
  <2>1. Put(s, "value", "H", 0, PackRead(metric, PackedFrom["H"], 0 + 0, 0, 1)) \in Pack(s, metric, 0)
    BY <1>1, PackParts
  <2> QED
    BY <1>1, <1>2, <2>1
<1>4. r.slot = HSlot(s) /\ r.reads = PackRead(metric, "H", 0, 0, 1) /\ r.raise = 0
  BY PutParts, HSlotIs
<1> DEFINE q == [slot |-> <<metric, Value("H", 0)>>, sign |-> 1, rate |-> 0]
<1>5. q \in PackRead(metric, "H", 0, 0, 1)
  BY DEF PackRead
<1>6. q.slot = HSlot(metric) /\ q.sign = 1 /\ q.rate = 0
  BY DEF HSlot
<1> HIDE DEF r, q
<1>7. Gated(TRUE, Pack(s, metric, 0)) = Pack(s, metric, 0)
  BY DEF Gated
<1> QED
  BY <1>3, <1>4, <1>5, <1>6, <1>7 DEF CarriesTo

LEMMA HandOverCarries ==
  ASSUME NEW s
  PROVE  CarriesTo(HandOver(s), s, "primitive")
<1> DEFINE reads == Reads(s, ConnectionReads["H"], 0)
           r == Put("primitive", "value", "H", 0, reads)
           q == At(s, "value", "H", 0)
           p == <<"H", 0>>
<1>1. p \in PrimitiveNames \X (0 .. 1) /\ p[1] = "H" /\ p[2] = 0
  BY DEF PrimitiveNames
<1>2. r = Put("primitive", "value", p[1], p[2], Reads(s, ConnectionReads[p[1]], p[2]))
  BY <1>1
<1>3. r \in Connections(s, "primitive", PrimitiveNames)
  BY <1>1, <1>2, Zenon DEF Connections
<1>4. r \in HandOver(s)
  BY <1>3, Zenon DEF HandOver
<1>5. q \in reads
  <2>1. ConnectionReads["H"] = {<<"value", "H">>}
    BY DEF ConnectionReads
  <2> DEFINE w == <<"value", "H">>
  <2>2. w[1] = "value" /\ w[2] = "H"
    OBVIOUS
  <2>3. w \in ConnectionReads["H"]
    BY <2>1
  <2> HIDE DEF w
  <2>4. At(s, w[1], w[2], 0) \in reads
    BY <2>3 DEF Reads
  <2> QED
    BY <2>2, <2>4
<1>6. r.slot = HSlot("primitive") /\ r.reads = reads /\ r.raise = 0
  BY PutParts, HSlotIs
<1>7. q.slot = HSlot(s) /\ q.sign = 1 /\ q.rate = 0
  BY PutParts, HSlotIs
<1> HIDE DEF r, q, reads
<1> QED
  BY <1>4, <1>5, <1>6, <1>7 DEF CarriesTo

\* A kernel that makes no values makes no H, nor does one of some connections.
LEMMA NotValues ==
  ASSUME NEW s, NEW op, op # "value", NEW fields, NEW orders
  PROVE  /\ HSlot(s) \notin Written(Radial(s, fields, orders))
         /\ HSlot(s) \notin Written(Angular(s, op, fields, orders))
         /\ HSlot(s) \notin Written(Advected(s, op, fields, orders))
<1>1. \A o, f, k, reads : o # "value" => Put(s, o, f, k, reads).slot # HSlot(s)
  <2> SUFFICES ASSUME NEW o, o # "value", NEW f, NEW k, NEW reads
               PROVE  Put(s, o, f, k, reads).slot # HSlot(s)
    OBVIOUS
  <2>1. Put(s, o, f, k, reads).slot = <<s, Quantity(o, f, k)>>
    BY PutParts
  <2>2. Quantity(o, f, k).op = o
    BY DEF Quantity
  <2> QED
    BY <2>1, <2>2, HSlotIs
<1>2. \A r \in Radial(s, fields, orders) : \E f, k, reads : r = Put(s, "dr", f, k, reads)
  BY DEF Radial
<1>3. \A r \in Angular(s, op, fields, orders) : \E f, k, reads : r = Put(s, op, f, k, reads)
  BY DEF Angular
<1>4. \A r \in Advected(s, op, fields, orders) : \E f, k, reads : r = Put(s, op, f, k, reads)
  BY DEF Advected
<1> QED
  BY <1>1, <1>2, <1>3, <1>4 DEF Written

LEMMA NotH ==
  ASSUME NEW s, NEW out, NEW names, "H" \notin names
  PROVE  HSlot(out) \notin Written(Connections(s, out, names))
<1>1. \A r \in Connections(s, out, names) :
        \E f \in names : \E k, reads : r = Put(out, "value", f, k, reads)
  BY DEF Connections
<1>2. \A f \in names : \A k, reads : Put(out, "value", f, k, reads).slot # HSlot(out)
  <2> SUFFICES ASSUME NEW f \in names, NEW k, NEW reads
               PROVE  Put(out, "value", f, k, reads).slot # HSlot(out)
    OBVIOUS
  <2>1. Put(out, "value", f, k, reads).slot = <<out, Quantity("value", f, k)>>
    BY PutParts
  <2>2. Quantity("value", f, k).of = f
    BY DEF Quantity
  <2> QED
    BY <2>1, <2>2, HSlotIs
<1> QED
  BY <1>1, <1>2 DEF Written

LEMMA ConnectionLeavesH ==
  ASSUME NEW s, NEW i \in 1 .. 5
  PROVE  HSlot(s) \notin Written(MetricToConnection(s)[i])
<1>1. HSlot(s) \notin Written(MetricRadial(s)) /\ HSlot(s) \notin Written(ConnectionRadial(s))
  BY NotValues DEF MetricRadial, ConnectionRadial
<1>2. HSlot(s) \notin Written(MetricAngular(s))
  <2>1. /\ HSlot(s) \notin Written(Angular(s, "eth", {"V", "C", "B"}, 0 .. 1))
        /\ HSlot(s) \notin Written(Angular(s, "ethprime", {"CSharp", "BSharp"}, 0 .. 1))
    BY NotValues
  <2> QED
    BY <2>1, Zenon DEF MetricAngular, Written
<1>3. HSlot(s) \notin Written(MetricDerivatives(s))
  <2>1. /\ HSlot(s) \notin Written(Advected(s, "thorn", {"BSharp", "CSharp"}, 0 .. 1))
        /\ HSlot(s) \notin Written(Advected(s, "delta", {"CSharp", "C", "V", "VSharp"}, 0 .. 1))
    BY NotValues
  <2> QED
    BY <2>1, Zenon DEF MetricDerivatives, Written
<1>4. HSlot(s) \notin Written(Connections(s, s, KeptConnections))
  <2>1. "H" \notin KeptConnections
    BY DEF KeptConnections
  <2> QED
    BY <2>1, NotH
<1>5. /\ MetricToConnection(s)[1] = MetricRadial(s) /\ MetricToConnection(s)[2] = MetricAngular(s)
      /\ MetricToConnection(s)[3] = MetricDerivatives(s)
      /\ MetricToConnection(s)[4] = Connections(s, s, KeptConnections)
      /\ MetricToConnection(s)[5] = ConnectionRadial(s)
  BY DEF MetricToConnection
<1>6. i = 1 \/ i = 2 \/ i = 3 \/ i = 4 \/ i = 5
  OBVIOUS
<1> QED
  BY <1>1, <1>2, <1>3, <1>4, <1>5, <1>6

LEMMA PrimitiveRunCarries ==
  ASSUME NEW s, s = PrimitiveScratch, NEW metric, NEW kernels,
         PrimitivePasses(kernels, s, metric, TRUE),
         NEW memory, DOMAIN memory = LiveSlots, NEW fault, NEW id, Carries(memory, metric, id),
         NEW out, out = RunFault(memory, kernels, fault)
  PROVE  Carries(out, "primitive", id)
<1>a. /\ Len(kernels) = 9
      /\ kernels[1] = Gated(TRUE, Pack(s, metric, 0))
      /\ \A i \in 1 .. 5 : kernels[i + 1] = MetricToConnection(s)[i]
      /\ kernels[7] = HandOver(s) /\ kernels[8] = Angular(s, "ethprime", {"Kap"}, {0})
      /\ kernels[9] = QDerivatives(s)
  BY DEF PrimitivePasses
<1>0. Len(kernels) \in Nat
  BY <1>a
<1>1. PICK done : FaultPasses(memory, kernels, fault, done)
  BY <1>0, RunFaultSteps
<1>2. /\ done[0] = memory
      /\ \A n \in 1 .. 9 : done[n] = AfterFault(done[n - 1], kernels[n], fault)
      /\ out = done[9]
  BY <1>1, <1>a DEF FaultPasses
<1>3. \A n \in 1 .. 9 : DOMAIN done[n] = DOMAIN done[n - 1]
  BY <1>2, AfterFaultDomain
<1>4. /\ DOMAIN done[0] = LiveSlots /\ DOMAIN done[1] = LiveSlots /\ DOMAIN done[2] = LiveSlots
      /\ DOMAIN done[3] = LiveSlots /\ DOMAIN done[4] = LiveSlots /\ DOMAIN done[5] = LiveSlots
      /\ DOMAIN done[6] = LiveSlots /\ DOMAIN done[7] = LiveSlots /\ DOMAIN done[8] = LiveSlots
  <2>1. DOMAIN done[0] = LiveSlots
    BY <1>2
  <2>2. DOMAIN done[1] = DOMAIN done[0] /\ DOMAIN done[2] = DOMAIN done[1]
        /\ DOMAIN done[3] = DOMAIN done[2] /\ DOMAIN done[4] = DOMAIN done[3]
        /\ DOMAIN done[5] = DOMAIN done[4] /\ DOMAIN done[6] = DOMAIN done[5]
        /\ DOMAIN done[7] = DOMAIN done[6] /\ DOMAIN done[8] = DOMAIN done[7]
    BY <1>3
  <2> QED
    BY <2>1, <2>2
<1>5. HSlot(s) \in LiveSlots /\ HSlot("primitive") \in LiveSlots
  <2>1. Value("H", 0) \in ScratchQuantities
    <3>1. 0 \in OrdersOf("H") /\ "H" \in DOMAIN PackedFrom
      BY DEF OrdersOf, PackedFrom
    <3>2. Quantity("value", "H", 0) \in All("value", {"H"}, OrdersOf("H"))
      BY <3>1, InAll
    <3> QED
      BY <3>1, <3>2 DEF ScratchQuantities, Value
  <2>2. {s} \X ScratchQuantities \subseteq LiveSlots
    BY PrimitiveScratchIs, ScratchPlaces
  <2>3. Value("H", 0) \in PrimitivesOwned
    <3>1. "H" \in PrimitiveNames /\ 0 \in 0 .. 1
      BY DEF PrimitiveNames
    <3> QED
      BY <3>1, InAll DEF PrimitivesOwned, Value
  <2> QED
    BY <2>1, <2>2, <2>3, PrimitivePlaces DEF HSlot
<1>6. Carries(done[1], s, id)
  <2>1. done[1] = AfterFault(done[0], kernels[1], fault)
    BY <1>2
  <2>2. CarriesTo(kernels[1], metric, s)
    BY <1>a, PackCarries
  <2>3. Carries(done[0], metric, id)
    BY <1>2
  <2> QED
    BY <1>4, <1>5, <2>1, <2>2, <2>3, CarriesOn
<1>7. \A n \in 1 .. 5 : Carries(done[n], s, id) => Carries(done[n + 1], s, id)
  <2> SUFFICES ASSUME NEW n \in 1 .. 5, Carries(done[n], s, id) PROVE Carries(done[n + 1], s, id)
    OBVIOUS
  <2>1. n + 1 \in 1 .. 9 /\ (n + 1) - 1 = n
    OBVIOUS
  <2>2. done[n + 1] = AfterFault(done[n], kernels[n + 1], fault)
    BY <1>2, <2>1
  <2>3. HSlot(s) \notin Written(kernels[n + 1])
    BY <1>a, ConnectionLeavesH
  <2>4. n = 1 \/ n = 2 \/ n = 3 \/ n = 4 \/ n = 5
    OBVIOUS
  <2>5. HSlot(s) \in DOMAIN done[n]
    BY <1>4, <1>5, <2>4
  <2> QED
    BY <2>2, <2>3, <2>5, CarriesPast
<1>8. Carries(done[6], s, id)
  <2>1. Carries(done[1], s, id) => Carries(done[2], s, id)
    BY <1>7, 1 \in 1 .. 5, 1 + 1 = 2
  <2>2. Carries(done[2], s, id) => Carries(done[3], s, id)
    BY <1>7, 2 \in 1 .. 5, 2 + 1 = 3
  <2>3. Carries(done[3], s, id) => Carries(done[4], s, id)
    BY <1>7, 3 \in 1 .. 5, 3 + 1 = 4
  <2>4. Carries(done[4], s, id) => Carries(done[5], s, id)
    BY <1>7, 4 \in 1 .. 5, 4 + 1 = 5
  <2>5. Carries(done[5], s, id) => Carries(done[6], s, id)
    BY <1>7, 5 \in 1 .. 5, 5 + 1 = 6
  <2> QED
    BY <1>6, <2>1, <2>2, <2>3, <2>4, <2>5
<1>9. Carries(done[7], "primitive", id)
  <2>1. done[7] = AfterFault(done[6], kernels[7], fault)
    BY <1>2
  <2> QED
    BY <1>4, <1>5, <1>8, <1>a, <2>1, HandOverCarries, CarriesOn
<1>10. HSlot("primitive") \notin Written(kernels[8]) /\ HSlot("primitive") \notin Written(kernels[9])
  <2>1. Only(kernels[8], {s}) /\ "primitive" # s
    BY <1>a, OnlyOf DEF PrimitiveScratch
  <2>2. \A r \in QDerivatives(s) : r.slot[1] = "q"
    <3>1. \A r \in QDerivatives(s) : \E op, f, reads : r = Put("q", op, f, 0, reads)
      BY QParts
    <3> QED
      BY <3>1, PutParts
  <2>3. Only(kernels[9], {"q"})
    BY <1>a, <2>2 DEF Only
  <2>4. HSlot("primitive")[1] \notin {s} /\ HSlot("primitive")[1] \notin {"q"}
    BY <2>1, HSlotIs
  <2> QED
    BY <2>1, <2>3, <2>4, OnlyElsewhere
<1>11. Carries(done[8], "primitive", id)
  <2>1. done[8] = AfterFault(done[7], kernels[8], fault)
    BY <1>2
  <2> QED
    BY <1>4, <1>5, <1>9, <1>10, <2>1, CarriesPast
<1>12. Carries(done[9], "primitive", id)
  <2>1. done[9] = AfterFault(done[8], kernels[9], fault)
    BY <1>2
  <2> QED
    BY <1>4, <1>5, <1>11, <1>10, <2>1, CarriesPast
<1> QED
  BY <1>2, <1>12

LEMMA PrimitiveKeysThere == PrimitiveKeys \subseteq StampKeys
  BY DEF PrimitiveKeys, StampKeys

LEMMA PrimitiveStageDone ==
  ASSUME NEW d, Shape(d), NEW metric \in {"routeb", "givenMetric"}, NEW curvature, NEW derivatives,
         NEW base, Packable(base, metric, 0),
         NEW g, NEW fault, NEW id, NEW more \in Extra, Spared(fault, more),
         Knows(d.mem, base, id, 0, more),
         NEW ready, ready = PrimitiveReady(d, metric, curvature, derivatives, g)
  PROVE  PrimitiveDone(d, PrimitiveStage(d, metric, curvature, derivatives, g, fault),
                       metric, ready, g, base, id, more)
<1> DEFINE s == "primitiveScratch"
           kernels == PrimitiveKernels(s, metric, ready)
           mem   == RunFault(d.mem, kernels, fault)
           done  == [d EXCEPT !.mem = mem]
           first == Settled(done, "primitive", PrimitivesOwned, ready, g)
           jk    == Settled(first, "jk", MetricDerivativesOwned, ready, g)
           out   == Settled(jk, "q", QQuantities, ready, g)
<1>1. PrimitiveStage(d, metric, curvature, derivatives, g, fault) = out
  <2>1. [d EXCEPT !.mem = RunFault(@, kernels, fault)] = done
    OBVIOUS
  <2> QED
    BY <2>1, Zenon DEF PrimitiveStage, PrimitiveKernels
<1>2. ready \in BOOLEAN
  BY DEF PrimitiveReady
<1>3. PrimitivePasses(kernels, s, metric, ready) /\ s = PrimitiveScratch
  BY PrimitiveList DEF PrimitiveScratch
<1> HIDE DEF kernels, s
<1>4. Knows(mem, PrimitiveMade(base), id, 0, more) /\ Leaves(mem, d.mem, PrimitiveViews)
  BY <1>2, <1>3, PrimitiveRunOf
<1>5. ASSUME ready, Carries(d.mem, metric, id) PROVE Carries(mem, "primitive", id)
  <2>1. DOMAIN d.mem = LiveSlots
    BY DEF Shape
  <2>2. ready = TRUE
    BY <1>2, <1>5
  <2>3. PrimitivePasses(kernels, s, metric, TRUE)
    BY <1>3, <2>2
  <2> QED
    BY <1>3, <1>5, <2>1, <2>3, PrimitiveRunCarries
<1> HIDE DEF mem
<1>6. Shape(done) /\ done.mem = mem /\ done.stamp = d.stamp
  BY <1>4, ShapeWithMem DEF Knows
<1> HIDE DEF done
<1>k. /\ <<"primitive", 0>> \in StampKeys /\ <<"jk", 0>> \in StampKeys /\ <<"q", 0>> \in StampKeys
  BY PrimitiveKeysThere DEF PrimitiveKeys
<1>7. SettledAs(done, first, "primitive", PrimitivesOwned, ready, g)
  BY <1>2, <1>6, <1>k, SettledParts
<1> HIDE DEF first
<1>8. SettledAs(first, jk, "jk", MetricDerivativesOwned, ready, g)
  <2>1. Shape(first)
    BY <1>7 DEF SettledAs
  <2> QED
    BY <1>2, <1>k, <2>1, SettledParts
<1> HIDE DEF jk
<1>9. SettledAs(jk, out, "q", QQuantities, ready, g)
  <2>1. Shape(jk)
    BY <1>8 DEF SettledAs
  <2> QED
    BY <1>2, <1>k, <2>1, SettledParts
<1> HIDE DEF out
<1>10. Knows(out.mem, PrimitiveMade(base), id, 0, more)
  <2>1. Knows(done.mem, PrimitiveMade(base), id, 0, more)
    BY <1>4, <1>6
  <2>2. Knows(first.mem, PrimitiveMade(base), id, 0, more)
    BY <1>7, <2>1, SettledKnows
  <2>3. Knows(jk.mem, PrimitiveMade(base), id, 0, more)
    BY <1>8, <2>2, SettledKnows
  <2> QED
    BY <1>9, <2>3, SettledKnows
<1>11. Leaves(out.mem, d.mem, PrimitiveViews)
  <2> SUFFICES ASSUME NEW x \in LiveSlots, x[1] \notin PrimitiveViews
               PROVE  out.mem[x] = d.mem[x]
    BY DEF Leaves
  <2>1. x[1] # "primitive" /\ x[1] # "jk" /\ x[1] # "q"
    BY DEF PrimitiveViews
  <2>2. out.mem[x] = jk.mem[x] /\ jk.mem[x] = first.mem[x] /\ first.mem[x] = done.mem[x]
    BY <1>7, <1>8, <1>9, <2>1 DEF SettledAs
  <2>3. mem[x] = d.mem[x]
    BY <1>4 DEF Leaves
  <2> QED
    BY <1>6, <2>2, <2>3
<1>12. \A x \in StampKeys : x \notin PrimitiveKeys => out.stamp[x] = d.stamp[x]
  BY <1>6, <1>7, <1>8, <1>9 DEF SettledAs, PrimitiveKeys
<1>13. \A x \in PrimitiveKeys : Bears(out, x, IF ready THEN g ELSE 0)
  <2>1. Bears(out, <<"q", 0>>, IF ready THEN g ELSE 0)
    BY <1>9 DEF SettledAs
  <2>2. Bears(jk, <<"jk", 0>>, IF ready THEN g ELSE 0)
    BY <1>8 DEF SettledAs
  <2>3. Bears(first, <<"primitive", 0>>, IF ready THEN g ELSE 0)
    BY <1>7 DEF SettledAs
  <2>4. /\ out.stamp[<<"jk", 0>>] = jk.stamp[<<"jk", 0>>]
        /\ out.stamp[<<"primitive", 0>>] = jk.stamp[<<"primitive", 0>>]
        /\ jk.stamp[<<"primitive", 0>>] = first.stamp[<<"primitive", 0>>]
    <3>1. <<"jk", 0>> # <<"q", 0>> /\ <<"primitive", 0>> # <<"q", 0>> /\ <<"primitive", 0>> # <<"jk", 0>>
      OBVIOUS
    <3> QED
      BY <1>8, <1>9, <1>k, <3>1 DEF SettledAs
  <2>5. Bears(out, <<"jk", 0>>, IF ready THEN g ELSE 0)
    BY <2>2, <2>4 DEF Bears
  <2>6. Bears(out, <<"primitive", 0>>, IF ready THEN g ELSE 0)
    BY <2>3, <2>4 DEF Bears
  <2> QED
    BY <2>1, <2>5, <2>6 DEF PrimitiveKeys
<1>14. ASSUME ready, Carries(d.mem, metric, id) PROVE Carries(out.mem, "primitive", id)
  <2>1. HSlot("primitive") \in LiveSlots
    <3>1. "H" \in PrimitiveNames /\ 0 \in 0 .. 1
      BY DEF PrimitiveNames
    <3>2. Value("H", 0) \in PrimitivesOwned
      BY <3>1, InAll DEF PrimitivesOwned, Value
    <3> QED
      BY <3>2, PrimitivePlaces DEF HSlot
  <2>2. out.mem[HSlot("primitive")] = mem[HSlot("primitive")]
    BY <1>6, <1>7, <1>8, <1>9, <1>14, <2>1 DEF SettledAs
  <2>3. Carries(mem, "primitive", id)
    BY <1>5, <1>14
  <2> QED
    BY <2>2, <2>3 DEF Carries
<1>15. Shape(out)
  BY <1>9 DEF SettledAs
<1> QED
  BY <1>1, <1>10, <1>11, <1>12, <1>13, <1>14, <1>15 DEF PrimitiveDone

-----------------------------------------------------------------------------
(* The inputs of the source *)

LEMMA MaskedKnows ==
  ASSUME NEW memory, NEW slots, NEW valid, NEW known, NEW id, NEW level, NEW more,
         Knows(memory, known, id, level, more)
  PROVE  Knows(Masked(memory, slots, valid), known, id, level, more)
<1> DEFINE out == Masked(memory, slots, valid)
<1>1. /\ DOMAIN memory = LiveSlots /\ known \subseteq LiveSlots
      /\ Within(memory, known, Fresh(id, level, more))
  BY DEF Knows
<1>2. DOMAIN out = LiveSlots
  BY <1>1 DEF Masked
<1>3. ASSUME NEW s \in known, NEW m \in Modes
      PROVE  out[s][m] \subseteq Fresh(id, level, more)[s][m]
  <2>1. s \in DOMAIN memory
    BY <1>1
  <2>2. out[s][m] \subseteq memory[s][m]
    BY <2>1 DEF Masked
  <2> HIDE DEF out
  <2>3. memory[s][m] \subseteq Fresh(id, level, more)[s][m]
    BY <1>1 DEF Within
  <2> QED
    BY <2>2, <2>3
<1> HIDE DEF out
<1> QED
  BY <1>1, <1>2, <1>3 DEF Knows, Within, out

LEMMA MaskedParts ==
  ASSUME NEW memory, NEW slots, NEW valid
  PROVE  LET out == Masked(memory, slots, valid)
         IN  /\ DOMAIN out = DOMAIN memory
             /\ \A s \in DOMAIN memory : s \notin slots => out[s] = memory[s]
             /\ \A s \in DOMAIN memory, m \in Modes : s \in slots =>
                  out[s][m] = IF valid[m] THEN memory[s][m] ELSE {}
             /\ \A s \in DOMAIN memory, m \in Modes : valid[m] => out[s][m] = memory[s][m]
  BY DEF Masked

LEMMA ComposedPlaces ==
  /\ {"primitive"} \X CurvaturePrimitives \subseteq LiveSlots
  /\ {"jk"} \X TransportOwned \subseteq LiveSlots
  /\ \A v \in {"curvature", "givenCurvature"} :
       {v} \X CurvaturePrimitives \subseteq LiveSlots /\ Plain(v)
  /\ \A v \in {"derivatives", "givenDerivatives"} :
       {v} \X TransportOwned \subseteq LiveSlots /\ Plain(v)
  /\ Plain("primitive") /\ Plain("jk") /\ Plain("q")
<1>1. CurvaturePrimitives \subseteq CurvatureQuantities
  BY DEF CurvaturePrimitives, CurvatureQuantities, All
<1>2. {"primitive"} \X CurvaturePrimitives \subseteq LiveSlots /\ {"jk"} \X TransportOwned \subseteq LiveSlots
  BY DEF LiveSlots, SourceSlots
<1>3. {"curvature"} \X CurvatureQuantities \subseteq LiveSlots
  BY DEF LiveSlots, CurvatureSlots
<1>4. {"givenCurvature"} \X CurvatureQuantities \subseteq LiveSlots
  BY DEF LiveSlots, GivenSlots
<1>5. {"derivatives"} \X TransportOwned \subseteq LiveSlots
  BY DEF LiveSlots, CurvatureSlots, TransportOwned
<1>6. {"givenDerivatives"} \X TransportOwned \subseteq LiveSlots
  BY DEF LiveSlots, GivenSlots, TransportOwned
<1>7. /\ Plain("curvature") /\ Plain("givenCurvature") /\ Plain("derivatives")
      /\ Plain("givenDerivatives") /\ Plain("primitive") /\ Plain("jk") /\ Plain("q")
  BY DEF Plain, SummedViews
<1> QED
  BY <1>1, <1>2, <1>3, <1>4, <1>5, <1>6, <1>7

LEMMA ComposedCopies ==
  ASSUME NEW curvature \in {"curvature", "givenCurvature"},
         NEW derivatives \in {"derivatives", "givenDerivatives"},
         NEW known, Composable(known, curvature, derivatives),
         NEW a, CopyOf(a, curvature, "primitive", CurvaturePrimitives),
         NEW b, CopyOf(b, derivatives, "jk", TransportOwned)
  PROVE  /\ Fits(a, known, 0) /\ Written(a) = {"primitive"} \X CurvaturePrimitives
         /\ Fits(b, known, 0) /\ Written(b) = {"jk"} \X TransportOwned
<1>1. Fits(a, known, 0) /\ Written(a) = {"primitive"} \X CurvaturePrimitives
  <2>1. Lies(curvature, CurvaturePrimitives, known)
    BY DEF Composable, Lies
  <2>2. /\ Lies("primitive", CurvaturePrimitives, LiveSlots) /\ Lies(curvature, CurvaturePrimitives, LiveSlots)
        /\ Plain(curvature) /\ Plain("primitive")
    BY ComposedPlaces DEF Lies
  <2>3. Fits(a, known, 0) /\ Fills(a, "primitive", CurvaturePrimitives)
    BY <2>1, <2>2, CopyFits
  <2> QED
    BY <2>3 DEF Fills
<1>2. Fits(b, known, 0) /\ Written(b) = {"jk"} \X TransportOwned
  <2>1. Lies(derivatives, TransportOwned, known)
    BY DEF Composable, Lies
  <2>2. /\ Lies("jk", TransportOwned, LiveSlots) /\ Lies(derivatives, TransportOwned, LiveSlots)
        /\ Plain(derivatives) /\ Plain("jk")
    BY ComposedPlaces DEF Lies
  <2>3. Fits(b, known, 0) /\ Fills(b, "jk", TransportOwned)
    BY <2>1, <2>2, CopyFits
  <2> QED
    BY <2>3 DEF Fills
<1> QED
  BY <1>1, <1>2

LEMMA InputsMade ==
  SourceInputs = PrimitiveMade({}) \cup ({"primitive"} \X CurvaturePrimitives) \cup
                 ({"jk"} \X TransportOwned)
  BY DEF SourceInputs, PrimitiveMade, AllPrimitives, AllJk

LEMMA NormalizedParts ==
  ASSUME NEW d, Shape(d), NEW curvature \in {"curvature", "givenCurvature"},
         NEW derivatives \in {"derivatives", "givenDerivatives"},
         NEW g, NEW known, Composable(known, curvature, derivatives),
         NEW id, NEW more \in Extra, Knows(d.mem, known, id, 0, more)
  PROVE  NormalizedDone(d, Normalized(d, curvature, derivatives, g), curvature, derivatives, g,
                        known, id, more)
<1> DEFINE a == {To("primitive", q, {Own(curvature, q)}) : q \in CurvaturePrimitives}
           b == {To("jk", q, {Own(derivatives, q)}) : q \in TransportOwned}
           keys == SourceKeys(curvature, derivatives)
           copied == After(d.mem, a \cup b)
           valid == [m \in Modes |-> g # 0 /\ \A k \in keys : d.stamp[k][m] = g]
           out == Normalized(d, curvature, derivatives, g)
<1>0. DOMAIN d.mem = LiveSlots /\ known \subseteq LiveSlots
  BY DEF Shape, Knows
<1>1. out.mem = Masked(copied, SourceInputs, valid) /\ out.ready = (\A m \in Modes : valid[m])
  <2>1. \A m \in Modes : valid[m] = (g # 0 /\ \A k \in keys : d.stamp[k][m] = g)
    OBVIOUS
  <2>2. out.ready = (\A m \in Modes : valid[m])
    BY DEF Normalized, SourceKeys
  <2>3. out.mem = [s \in DOMAIN copied |->
                     IF s \notin SourceInputs THEN copied[s]
                     ELSE [m \in Modes |-> IF g # 0 /\ \A k \in keys : d.stamp[k][m] = g
                                           THEN copied[s][m] ELSE {}]]
    BY DEF Normalized, SourceKeys, SourceInputs
  <2> HIDE DEF copied, valid
  <2>4. out.mem = [s \in DOMAIN copied |->
                     IF s \notin SourceInputs THEN copied[s]
                     ELSE [m \in Modes |-> IF valid[m] THEN copied[s][m] ELSE {}]]
    BY <2>1, <2>3
  <2> QED
    BY <2>2, <2>4 DEF Masked
<1>2. CopyOf(a, curvature, "primitive", CurvaturePrimitives) /\ CopyOf(b, derivatives, "jk", TransportOwned)
  BY DEF CopyOf
<1> HIDE DEF a, b
<1>3. /\ Fits(a, known, 0) /\ Written(a) = {"primitive"} \X CurvaturePrimitives
      /\ Fits(b, known, 0) /\ Written(b) = {"jk"} \X TransportOwned
  BY <1>2, ComposedCopies
<1>5. Fits(a \cup b, known, 0) /\ Written(a \cup b) = Written(a) \cup Written(b)
  BY <1>3, FitsBoth
<1>6. Knows(copied, Grown(known, a \cup b), id, 0, more)
  BY <1>5, KnowsAfter
<1>7. ASSUME NEW x \in LiveSlots, x \notin Written(a \cup b) PROVE copied[x] = d.mem[x]
  BY <1>0, <1>7, AfterElsewhere
<1> HIDE DEF copied
<1>8. Grown(known, a \cup b) = known \cup SourceInputs
  <2>1. Written(a \cup b) = ({"primitive"} \X CurvaturePrimitives) \cup ({"jk"} \X TransportOwned)
    BY <1>3, <1>5
  <2>2. known \cup Written(a \cup b) = known \cup SourceInputs
    BY <2>1, InputsMade DEF Composable
  <2> QED
    BY <2>2 DEF Grown
<1>9. DOMAIN copied = LiveSlots
  BY <1>6 DEF Knows
<1>10. Knows(out.mem, known \cup SourceInputs, id, 0, more)
  <2>1. Knows(copied, known \cup SourceInputs, id, 0, more)
    BY <1>6, <1>8
  <2> QED
    BY <1>1, <2>1, MaskedKnows
<1>11. Leaves(out.mem, d.mem, {"primitive", "jk", "q"})
  <2> SUFFICES ASSUME NEW x \in LiveSlots, x[1] \notin {"primitive", "jk", "q"}
               PROVE  out.mem[x] = d.mem[x]
    BY DEF Leaves
  <2>1. x \notin SourceInputs
    BY DEF SourceInputs
  <2>2. x \notin Written(a \cup b)
    BY <1>3, <1>5
  <2>3. copied[x] = d.mem[x]
    BY <1>7, <2>2
  <2>4. out.mem[x] = copied[x]
    BY <1>1, <1>9, <2>1, MaskedParts
  <2> QED
    BY <2>3, <2>4
<1>12. out.ready \in BOOLEAN
       /\ (out.ready <=> g # 0 /\ \A k \in SourceKeys(curvature, derivatives) : Bears(d, k, g))
  <2>1. out.ready = (\A m \in Modes : g # 0 /\ \A k \in keys : d.stamp[k][m] = g)
    BY <1>1
  <2>2. Modes # {}
    BY ModesAssumption
  <2> QED
    BY <2>1, <2>2 DEF Bears
<1>13. ASSUME out.ready, Carries(d.mem, "primitive", id) PROVE Carries(out.mem, "primitive", id)
  <2> SUFFICES ASSUME NEW m \in Modes PROVE HOf(id, m) \in out.mem[HSlot("primitive")][m]
    BY DEF Carries
  <2>1. valid[m]
    BY <1>1, <1>13
  <2> DEFINE x == HSlot("primitive")
  <2>2. x \in LiveSlots
    <3>1. "H" \in PrimitiveNames /\ 0 \in 0 .. 1
      BY DEF PrimitiveNames
    <3>2. Value("H", 0) \in PrimitivesOwned
      BY <3>1, InAll DEF PrimitivesOwned, Value
    <3> QED
      BY <3>2, PrimitivePlaces DEF HSlot
  <2>3. x \notin Written(a \cup b)
    <3>1. x = <<"primitive", Value("H", 0)>>
      BY DEF HSlot
    <3>2. Value("H", 0) \notin CurvaturePrimitives
      BY InAll DEF CurvaturePrimitives, Value
    <3> DEFINE h == Value("H", 0)
               C == CurvaturePrimitives
               T == TransportOwned
    <3>3. x = <<"primitive", h>> /\ h \notin C
      BY <3>1, <3>2
    <3>4. Written(a \cup b) = ({"primitive"} \X C) \cup ({"jk"} \X T)
      BY <1>3, <1>5
    <3> HIDE DEF h, x, C, T
    <3> QED
      BY <3>3, <3>4
  <2> HIDE DEF x, valid
  <2>4. copied[x] = d.mem[x]
    BY <1>7, <2>2, <2>3
  <2>5. out.mem[x][m] = copied[x][m]
    BY <1>1, <1>9, <2>1, <2>2, MaskedParts
  <2>6. HOf(id, m) \in d.mem[x][m]
    BY <1>13 DEF Carries, x
  <2> QED
    BY <2>4, <2>5, <2>6 DEF x
<1> QED
  BY <1>10, <1>11, <1>12, <1>13 DEF NormalizedDone

-----------------------------------------------------------------------------
(* The sums over pairs *)

LEMMA PairContentParts ==
  ASSUME NEW memory, NEW quantities, NEW m, NEW k
  PROVE  \A i : i \in PairContent(memory, quantities, m, k) <=>
           \E q \in quantities, j \in 0 .. k : \E x \in memory[Factor(q, j)][m] :
             i = Moved(x, k - j)
<1> DEFINE part(q, j) == {Moved(x, k - j) : x \in memory[Factor(q, j)][m]}
           parts == {part(q, j) : q \in quantities, j \in 0 .. k}
<1>1. PairContent(memory, quantities, m, k) = UNION parts
  BY DEF PairContent, Factor
<1>2. \A i, q, j : i \in part(q, j) <=> \E x \in memory[Factor(q, j)][m] : i = Moved(x, k - j)
  OBVIOUS
<1> HIDE DEF part
<1>3. \A i : i \in UNION parts <=> \E q \in quantities, j \in 0 .. k : i \in part(q, j)
  OBVIOUS
<1> HIDE DEF parts
<1> SUFFICES ASSUME NEW i
             PROVE  i \in PairContent(memory, quantities, m, k) <=>
                      \E q \in quantities, j \in 0 .. k : \E x \in memory[Factor(q, j)][m] :
                        i = Moved(x, k - j)
  OBVIOUS
<1>4. i \in PairContent(memory, quantities, m, k) <=>
        \E q \in quantities, j \in 0 .. k : i \in part(q, j)
  BY <1>1, <1>3
<1>5. \A q, j : i \in part(q, j) <=> \E x \in memory[Factor(q, j)][m] : i = Moved(x, k - j)
  BY <1>2
<1> QED
  BY <1>4, <1>5, Zenon

LEMMA ProductsParts ==
  ASSUME NEW memory, NEW f, NEW pair, NEW k
  PROVE  Products(memory, f, pair, k) =
           PairContent(memory, PairReads[f].first, pair[1], k) \cup
           PairContent(memory, PairReads[f].mirror, -pair[1], k) \cup
           PairContent(memory, PairReads[f].second, pair[2], k)
  BY DEF Products, PairContent

LEMMA FactorPlaces ==
  /\ \A f, j : f \in PrimitiveNames /\ j \in 0 .. 1 => Factor(P(f), j) \in SourceInputs
  /\ \A f, j : f \in {"Z0", "Z1"} /\ j \in 0 .. 1 => Factor(P(f), j) \in SourceInputs
  /\ \A f, j : f \in {"CSharp", "C", "V"} /\ j \in 0 .. 1 => Factor(D("delta", f), j) \in SourceInputs
  /\ \A f, j : f \in {"BSharp", "CSharp"} /\ j \in 0 .. 1 =>
       Factor(D("ethprime", f), j) \in SourceInputs
  /\ \A f, j : f \in {"B", "C"} /\ j \in 0 .. 1 => Factor(D("eth", f), j) \in SourceInputs
  /\ \A f, j : f \in {"Z0", "Z1"} /\ j \in 0 .. 1 => Factor(D("delta", f), j) \in SourceInputs
  /\ \A j \in 0 .. 1 : Factor(D("ethprime", "Z1"), j) \in SourceInputs
  /\ \A j \in 0 .. 1 : Factor(D("eth", "Z0"), j) \in SourceInputs
  /\ \A op, f : Quantity(op, f, 0) \in QQuantities => Factor(<<"q", op, f>>, 0) \in SourceInputs
<1>1. /\ \A f, j : Factor(P(f), j) = <<"primitive", Quantity("value", f, j)>>
      /\ \A op, f, j : Factor(D(op, f), j) = <<"jk", Quantity(op, f, j)>>
      /\ \A op, f, j : Factor(<<"q", op, f>>, j) = <<"q", Quantity(op, f, j)>>
  BY DEF Factor, P, D
<1>2. /\ \A q \in PrimitivesOwned : <<"primitive", q>> \in SourceInputs
      /\ \A q \in CurvaturePrimitives : <<"primitive", q>> \in SourceInputs
      /\ \A q \in MetricDerivativesOwned : <<"jk", q>> \in SourceInputs
      /\ \A q \in TransportOwned : <<"jk", q>> \in SourceInputs
      /\ \A q \in QQuantities : <<"q", q>> \in SourceInputs
  BY DEF SourceInputs, AllPrimitives, AllJk
<1>3. \A f, j : f \in PrimitiveNames /\ j \in 0 .. 1 => Quantity("value", f, j) \in PrimitivesOwned
  BY InAll DEF PrimitivesOwned
<1>4. \A f, j : f \in {"Z0", "Z1"} /\ j \in 0 .. 1 => Quantity("value", f, j) \in CurvaturePrimitives
  BY InAll DEF CurvaturePrimitives
<1>5. \A f, j : f \in {"CSharp", "C", "V"} /\ j \in 0 .. 1 =>
        Quantity("delta", f, j) \in MetricDerivativesOwned
  <2>1. \A f, j : f \in {"CSharp", "C", "V"} /\ j \in 0 .. 1 =>
          Quantity("delta", f, j) \in All("delta", {"CSharp", "C", "V"}, 0 .. 1)
    BY InAll
  <2> QED
    BY <2>1 DEF MetricDerivativesOwned
<1>6. \A f, j : f \in {"BSharp", "CSharp"} /\ j \in 0 .. 1 =>
        Quantity("ethprime", f, j) \in MetricDerivativesOwned
  <2>1. \A f, j : f \in {"BSharp", "CSharp"} /\ j \in 0 .. 1 =>
          Quantity("ethprime", f, j) \in All("ethprime", {"BSharp", "CSharp"}, 0 .. 1)
    BY InAll
  <2> QED
    BY <2>1 DEF MetricDerivativesOwned
<1>7. \A f, j : f \in {"B", "C"} /\ j \in 0 .. 1 => Quantity("eth", f, j) \in MetricDerivativesOwned
  <2>1. \A f, j : f \in {"B", "C"} /\ j \in 0 .. 1 =>
          Quantity("eth", f, j) \in All("eth", {"B", "C"}, 0 .. 1)
    BY InAll
  <2> QED
    BY <2>1 DEF MetricDerivativesOwned
<1>8. \A f, j : f \in {"Z0", "Z1"} /\ j \in 0 .. 1 => Quantity("delta", f, j) \in TransportOwned
  <2>1. \A f, j : f \in {"Z0", "Z1"} /\ j \in 0 .. 1 =>
          Quantity("delta", f, j) \in All("delta", {"Z0", "Z1"}, 0 .. 1)
    BY InAll
  <2> QED
    BY <2>1 DEF TransportOwned, DerivativeQuantities
<1>9. \A j \in 0 .. 1 : Quantity("ethprime", "Z1", j) \in TransportOwned
  <2>1. \A j \in 0 .. 1 : Quantity("ethprime", "Z1", j) \in All("ethprime", {"Z1"}, 0 .. 1)
    BY InAll
  <2> QED
    BY <2>1 DEF TransportOwned, DerivativeQuantities
<1>10. \A j \in 0 .. 1 : Quantity("eth", "Z0", j) \in TransportOwned
  <2>1. \A j \in 0 .. 1 : Quantity("eth", "Z0", j) \in All("eth", {"Z0"}, 0 .. 1)
    BY InAll
  <2> QED
    BY <2>1 DEF TransportOwned, DerivativeQuantities
<1>11. \A f, j : f \in PrimitiveNames /\ j \in 0 .. 1 => Factor(P(f), j) \in SourceInputs
  BY <1>1, <1>2, <1>3
<1>12. \A f, j : f \in {"Z0", "Z1"} /\ j \in 0 .. 1 => Factor(P(f), j) \in SourceInputs
  BY <1>1, <1>2, <1>4
<1>13. \A f, j : f \in {"CSharp", "C", "V"} /\ j \in 0 .. 1 => Factor(D("delta", f), j) \in SourceInputs
  BY <1>1, <1>2, <1>5
<1>14. \A f, j : f \in {"BSharp", "CSharp"} /\ j \in 0 .. 1 => Factor(D("ethprime", f), j) \in SourceInputs
  BY <1>1, <1>2, <1>6
<1>15. \A f, j : f \in {"B", "C"} /\ j \in 0 .. 1 => Factor(D("eth", f), j) \in SourceInputs
  BY <1>1, <1>2, <1>7
<1>16. \A f, j : f \in {"Z0", "Z1"} /\ j \in 0 .. 1 => Factor(D("delta", f), j) \in SourceInputs
  BY <1>1, <1>2, <1>8
<1>17. \A j \in 0 .. 1 : Factor(D("ethprime", "Z1"), j) \in SourceInputs
  BY <1>1, <1>2, <1>9
<1>18. \A j \in 0 .. 1 : Factor(D("eth", "Z0"), j) \in SourceInputs
  BY <1>1, <1>2, <1>10
<1>19. \A op, f : Quantity(op, f, 0) \in QQuantities => Factor(<<"q", op, f>>, 0) \in SourceInputs
  <2> SUFFICES ASSUME NEW op, NEW f, Quantity(op, f, 0) \in QQuantities
               PROVE  Factor(<<"q", op, f>>, 0) \in SourceInputs
    OBVIOUS
  <2>1. Factor(<<"q", op, f>>, 0) = <<"q", Quantity(op, f, 0)>>
    BY <1>1
  <2> DEFINE x == Quantity(op, f, 0)
  <2>2. x \in QQuantities
    OBVIOUS
  <2> HIDE DEF x
  <2>3. <<"q", x>> \in SourceInputs
    BY <1>2, <2>2
  <2> QED
    BY <2>1, <2>3 DEF x
<1> QED
  BY <1>11, <1>12, <1>13, <1>14, <1>15, <1>16, <1>17, <1>18, <1>19

LEMMA FactorsThere ==
  ASSUME NEW f \in DOMAIN PairReads, NEW j \in ProductOrders(f), NEW q \in FactorsOf(f)
  PROVE  Factor(q, j) \in SourceInputs
<1>0. DOMAIN PairReads = {"J", "K", "Q"} /\ j \in 0 .. 1
  BY DEF PairReads, ProductOrders
<1>p. \A g : g \in PrimitiveNames => Factor(P(g), j) \in SourceInputs
  BY <1>0, FactorPlaces
<1>z. \A g : g \in {"Z0", "Z1"} => Factor(P(g), j) \in SourceInputs
  BY <1>0, FactorPlaces
<1>d. \A g : g \in {"CSharp", "C", "V"} => Factor(D("delta", g), j) \in SourceInputs
  BY <1>0, FactorPlaces
<1>e. \A g : g \in {"BSharp", "CSharp"} => Factor(D("ethprime", g), j) \in SourceInputs
  BY <1>0, FactorPlaces
<1>f. \A g : g \in {"B", "C"} => Factor(D("eth", g), j) \in SourceInputs
  BY <1>0, FactorPlaces
<1>g. \A g : g \in {"Z0", "Z1"} => Factor(D("delta", g), j) \in SourceInputs
  BY <1>0, FactorPlaces
<1>h. Factor(D("ethprime", "Z1"), j) \in SourceInputs /\ Factor(D("eth", "Z0"), j) \in SourceInputs
  BY <1>0, FactorPlaces
<1>n. {"H", "Sig", "Kap", "Rh", "Ta", "Al", "Be", "Ep", "Pi", "V", "C", "B"} = PrimitiveNames
  BY DEF PrimitiveNames
<1>1. CASE f = "J"
  <2>1. FactorsOf("J") = {P("Sig"), D("delta", "CSharp"), D("ethprime", "BSharp"), P("C"), P("B"),
                          P("Z1"), P("H"), D("delta", "Z1"), D("ethprime", "Z1")}
    BY DEF FactorsOf, PairReads
  <2>2. {"Sig", "C", "B", "H"} \subseteq PrimitiveNames
    BY DEF PrimitiveNames
  <2> QED
    BY <1>1, <2>1, <2>2, <1>p, <1>z, <1>d, <1>e, <1>g, <1>h
<1>2. CASE f = "K"
  <2>1. FactorsOf("K") = {P("C"), P("B"), P("V"), P("Kap"), D("delta", "C"), D("eth", "B"),
                          D("delta", "V"), D("eth", "C"), D("ethprime", "CSharp"),
                          P("Z0"), P("Z1"), P("H"), D("delta", "Z0"), D("eth", "Z0"),
                          D("delta", "Z1")}
    BY DEF FactorsOf, PairReads
  <2>2. {"C", "B", "V", "Kap", "H"} \subseteq PrimitiveNames
    BY DEF PrimitiveNames
  <2> QED
    BY <1>2, <2>1, <2>2, <1>p, <1>z, <1>d, <1>e, <1>f, <1>g, <1>h
<1>3. CASE f = "Q"
  <2>1. FactorsOf("Q") = {P("V"), P("Ep"), P("Rh"), D("ethprime", "BSharp"), P("C"), P("B"),
                          P("Sig"), P("Kap"), <<"q", "delta", "Sig">>, <<"q", "delta", "Kap">>,
                          <<"q", "ethprime", "Kap">>}
    BY DEF FactorsOf, PairReads
  <2>2. {"V", "Ep", "Rh", "C", "B", "Sig", "Kap"} \subseteq PrimitiveNames
    BY DEF PrimitiveNames
  <2>3. j = 0
    BY <1>3 DEF ProductOrders
  <2>4. /\ Quantity("delta", "Sig", 0) \in QQuantities /\ Quantity("delta", "Kap", 0) \in QQuantities
        /\ Quantity("ethprime", "Kap", 0) \in QQuantities
    BY DEF QQuantities
  <2>5. /\ Factor(<<"q", "delta", "Sig">>, 0) \in SourceInputs
        /\ Factor(<<"q", "delta", "Kap">>, 0) \in SourceInputs
        /\ Factor(<<"q", "ethprime", "Kap">>, 0) \in SourceInputs
    BY <2>4, FactorPlaces
  <2> QED
    BY <1>3, <2>1, <2>2, <2>3, <2>5, <1>p, <1>e
<1> QED
  BY <1>0, <1>1, <1>2, <1>3

LEMMA PairReach ==
  ASSUME NEW t, NEW p \in Pairs(t)
  PROVE  /\ p[1] \in Modes /\ p[2] \in Modes /\ -p[1] \in Modes /\ -(-p[1]) = p[1]
         /\ p[1] \in Adding(t) /\ p[2] \in Adding(t)
         /\ {p[1], -p[1]} \subseteq Reach(t) /\ {p[2], -p[2]} \subseteq Reach(t)
<1>1. p \in Parents \X Parents /\ p[1] + p[2] = t
  BY DEF Pairs
<1>2. p[1] \in Parents /\ p[2] \in Parents /\ p[1] \in Modes /\ p[2] \in Modes
  BY <1>1, RegistryAssumption
<1>3. p[1] \in Int /\ p[2] \in Int /\ -p[1] \in Modes
  BY <1>2, ModesAssumption
<1>4. t - p[1] = p[2] /\ t - p[2] = p[1] /\ -(-p[1]) = p[1]
  BY <1>1, <1>3
<1>5. p[1] \in Adding(t) /\ p[2] \in Adding(t)
  BY <1>2, <1>4 DEF Adding
<1> QED
  BY <1>2, <1>3, <1>4, <1>5 DEF Reach

LEMMA ContentReached ==
  ASSUME NEW memory, NEW known, NEW id, NEW more \in Extra, Knows(memory, known, id, 0, more),
         SourceInputs \subseteq known, NEW t, NEW n \in Modes, {n, -n} \subseteq Reach(t),
         NEW f \in DOMAIN PairReads, NEW k \in ProductOrders(f),
         NEW quantities, quantities \subseteq FactorsOf(f),
         NEW i \in PairContent(memory, quantities, n, k)
  PROVE  Reached(i, t, id, k, more)
<1>1. PICK q \in quantities, j \in 0 .. k : \E x \in memory[Factor(q, j)][n] :
        i = Moved(x, k - j)
  BY PairContentParts
<1>2. PICK x \in memory[Factor(q, j)][n] : i = Moved(x, k - j)
  BY <1>1
<1>3. j \in ProductOrders(f) /\ k \in Int /\ j \in Int
  BY DEF ProductOrders
<1>4. q \in FactorsOf(f)
  OBVIOUS
<1>5. Factor(q, j) \in SourceInputs
  BY <1>3, <1>4, FactorsThere
<1> DEFINE s == Factor(q, j)
<1>6. s \in known /\ s \in LiveSlots
  BY <1>5 DEF Knows
<1>7. x \in Fresh(id, 0, more)[s][n]
  BY <1>2, <1>6 DEF Knows, Within
<1>8. RateOf(s, 0) = j /\ s[1] \notin SummedViews
  <2>1. s[1] \in {"primitive", "jk", "q"}
    BY <1>5 DEF SourceInputs
  <2>2. s[2].order = j
    BY QuantityParts DEF Factor
  <2> HIDE DEF s
  <2>3. s[1] \notin SummedViews /\ s[1] # "curvatureScratch"
    BY <2>1 DEF SummedViews
  <2>4. j + 0 = j
    BY <1>3
  <2> QED
    BY <2>2, <2>3, <2>4 DEF RateOf
<1> HIDE DEF s
<1>9. x \in more \/ \E g \in InputFields, h \in ModesAt(s[1], n) : x = InputOf(g, id, h, RateOf(s, 0))
  BY <1>6, <1>7, FreshParts
<1>10. CASE x \in more
  <2>1. x = NonFinite
    BY <1>10 DEF Extra
  <2>2. Moved(NonFinite, k - j) = NonFinite
    BY Zenon DEF Moved, Marks
  <2>3. i = x
    BY <1>2, <2>1, <2>2
  <2> QED
    BY <1>10, <2>3 DEF Reached
<1>11. ASSUME NEW g \in InputFields, NEW h \in ModesAt(s[1], n), x = InputOf(g, id, h, RateOf(s, 0))
       PROVE  Reached(i, t, id, k, more)
  <2>1. h \in Reach(t)
    BY <1>8, <1>11 DEF ModesAt
  <2>2. i = InputOf(g, id, h, j + (k - j))
    BY <1>2, <1>8, <1>11, MovedInput
  <2>3. j + (k - j) = k
    BY <1>3
  <2> QED
    BY <2>1, <2>2, <2>3 DEF Reached
<1> QED
  BY <1>9, <1>10, <1>11

LEMMA ProductsReached ==
  ASSUME NEW memory, NEW known, NEW id, NEW more \in Extra, Knows(memory, known, id, 0, more),
         SourceInputs \subseteq known, NEW t, NEW p \in Pairs(t),
         NEW f \in DOMAIN PairReads, NEW k \in ProductOrders(f),
         NEW i \in Products(memory, f, p, k)
  PROVE  Reached(i, t, id, k, more)
<1>1. /\ p[1] \in Modes /\ p[2] \in Modes /\ -p[1] \in Modes /\ -(-p[1]) = p[1]
      /\ {p[1], -p[1]} \subseteq Reach(t) /\ {p[2], -p[2]} \subseteq Reach(t)
  BY PairReach
<1>2. /\ PairReads[f].first \subseteq FactorsOf(f) /\ PairReads[f].mirror \subseteq FactorsOf(f)
      /\ PairReads[f].second \subseteq FactorsOf(f)
  BY DEF FactorsOf
<1> DEFINE a == p[1]
           b == p[2]
           c == -p[1]
           A == PairReads[f].first
           B == PairReads[f].second
           C == PairReads[f].mirror
<1>3. i \in PairContent(memory, A, a, k) \/ i \in PairContent(memory, C, c, k)
        \/ i \in PairContent(memory, B, b, k)
  BY ProductsParts
<1>4. /\ a \in Modes /\ b \in Modes /\ c \in Modes
      /\ {a, -a} \subseteq Reach(t) /\ {b, -b} \subseteq Reach(t) /\ {c, -c} \subseteq Reach(t)
      /\ A \subseteq FactorsOf(f) /\ B \subseteq FactorsOf(f) /\ C \subseteq FactorsOf(f)
  BY <1>1, <1>2
<1> HIDE DEF a, b, c, A, B, C
<1> QED
  BY <1>3, <1>4, ContentReached

\* H of the second mode is a factor of K.
LEMMA ProductsCarry ==
  ASSUME NEW memory, NEW id, Carries(memory, "primitive", id), NEW t, NEW p \in Pairs(t)
  PROVE  HOf(id, p[2]) \in Products(memory, "K", p, 0)
<1> DEFINE B == PairReads["K"].second
           q == P("H")
           x == HOf(id, p[2])
<1>1. q \in B
  BY DEF PairReads
<1>2. Factor(q, 0) = HSlot("primitive")
  BY DEF Factor, P, HSlot, Value
<1>3. p[2] \in Modes
  BY PairReach
<1>4. x \in memory[Factor(q, 0)][p[2]]
  BY <1>2, <1>3 DEF Carries
<1>5. x = Moved(x, 0 - 0)
  <2>1. "H" \in InputFields /\ 0 \in Int
    BY DEF InputFields, ReconstructionFields
  <2> QED
    BY <2>1, MovedNowhere DEF HOf
<1>6. 0 \in 0 .. 0
  OBVIOUS
<1> HIDE DEF x, q, B
<1>7. x \in PairContent(memory, B, p[2], 0)
  BY <1>1, <1>4, <1>5, <1>6, PairContentParts
<1> QED
  BY <1>7, ProductsParts DEF B, x

LEMMA SumQuantities ==
  /\ \A q \in Sums : q.of \in DOMAIN PairReads /\ q.order \in ProductOrders(q.of)
  /\ \A q \in Families : q.order = 0
  /\ SumPlaces \subseteq LiveSlots
  /\ Value("K", 0) \in Sums
<1>1. \A q \in Sums : q \in All("value", {"J", "K"}, 0 .. 1) \/ q = Value("Q", 0)
  BY DEF Sums
<1>2. DOMAIN PairReads = {"J", "K", "Q"}
  BY DEF PairReads
<1>3. ASSUME NEW q \in All("value", {"J", "K"}, 0 .. 1)
      PROVE  q.of \in DOMAIN PairReads /\ q.order \in ProductOrders(q.of)
  <2>1. PICK f \in {"J", "K"}, k \in 0 .. 1 : q = Quantity("value", f, k)
    BY InAll
  <2>2. q.of = f /\ q.order = k /\ f # "Q"
    BY <2>1, QuantityParts
  <2> QED
    BY <1>2, <2>2 DEF ProductOrders
<1>4. Value("Q", 0).of = "Q" /\ Value("Q", 0).order = 0
  BY QuantityParts DEF Value
<1>5. \A q \in Sums : q.of \in DOMAIN PairReads /\ q.order \in ProductOrders(q.of)
  BY <1>1, <1>2, <1>3, <1>4 DEF ProductOrders
<1>6. \A q \in Families : q.order = 0
  BY QuantityParts DEF Families, Value
<1>7. SumPlaces \subseteq LiveSlots
  BY DEF SumPlaces, LiveSlots, SourceSlots
<1>8. Value("K", 0) \in Sums
  <2>1. Value("K", 0) \in All("value", {"J", "K"}, 0 .. 1)
    BY InAll DEF Value
  <2> QED
    BY <2>1 DEF Sums
<1> QED
  BY <1>5, <1>6, <1>7, <1>8

LEMMA PairSumsParts ==
  ASSUME NEW memory, DOMAIN memory = LiveSlots, NEW out, out = PairSums(memory)
  PROVE  /\ DOMAIN out = LiveSlots
         /\ \A s \in LiveSlots : s[1] \notin {"sums", "families"} => out[s] = memory[s]
         /\ \A s \in LiveSlots, m \in Modes : m \notin Targets => out[s][m] = memory[s][m]
         /\ \A s \in LiveSlots, t \in Targets : s[1] = "sums" =>
              \A i : i \in out[s][t] <=>
                \E p \in Pairs(t) : i \in Products(memory, s[2].of, p, s[2].order)
         /\ \A s \in LiveSlots, t \in Targets : s[1] = "families" =>
              \A i : i \in out[s][t] <=>
                \E f \in DOMAIN PairReads : \E p \in Pairs(t) : i \in Products(memory, f, p, 0)
<1> DEFINE Sum(f, t, k) == UNION {Products(memory, f, p, k) : p \in Pairs(t)}
           family(t) == UNION {Sum(f, t, 0) : f \in DOMAIN PairReads}
           made(s, m) == IF s[1] = "sums" THEN Sum(s[2].of, m, s[2].order) ELSE family(m)
<1>1. \A f, t, k, i : i \in Sum(f, t, k) <=> \E p \in Pairs(t) : i \in Products(memory, f, p, k)
  OBVIOUS
<1>2. out = [s \in DOMAIN memory |->
               IF s[1] \notin {"sums", "families"} THEN memory[s]
               ELSE [m \in Modes |-> IF m \in Targets THEN made(s, m) ELSE memory[s][m]]]
  BY DEF PairSums
<1> HIDE DEF Sum
<1>3. \A t, i : i \in family(t) <=> \E f \in DOMAIN PairReads : i \in Sum(f, t, 0)
  OBVIOUS
<1> HIDE DEF family
<1>4. Targets \subseteq Modes
  BY RegistryAssumption
<1>5. \A s \in LiveSlots : s[1] \notin {"sums", "families"} => out[s] = memory[s]
  BY <1>2
<1>6. \A s \in LiveSlots, m \in Modes : m \notin Targets => out[s][m] = memory[s][m]
  BY <1>2
<1>7. ASSUME NEW s \in LiveSlots, NEW t \in Targets, s[1] = "sums"
      PROVE  out[s][t] = Sum(s[2].of, t, s[2].order)
  BY <1>2, <1>4, <1>7
<1>8. ASSUME NEW s \in LiveSlots, NEW t \in Targets, s[1] = "families"
      PROVE  out[s][t] = family(t)
  BY <1>2, <1>4, <1>8
<1>9. DOMAIN out = LiveSlots
  BY <1>2
<1> HIDE DEF made
<1>10. ASSUME NEW s \in LiveSlots, NEW t \in Targets, s[1] = "families", NEW i
       PROVE  i \in out[s][t] <=>
                \E f \in DOMAIN PairReads : \E p \in Pairs(t) : i \in Products(memory, f, p, 0)
  <2>1. i \in out[s][t] <=> \E f \in DOMAIN PairReads : i \in Sum(f, t, 0)
    BY <1>3, <1>8, <1>10
  <2>2. \A f : i \in Sum(f, t, 0) <=> \E p \in Pairs(t) : i \in Products(memory, f, p, 0)
    BY <1>1
  <2> QED
    BY <2>1, <2>2
<1>11. ASSUME NEW s \in LiveSlots, NEW t \in Targets, s[1] = "sums", NEW i
       PROVE  i \in out[s][t] <=>
                \E p \in Pairs(t) : i \in Products(memory, s[2].of, p, s[2].order)
  <2>1. i \in out[s][t] <=> i \in Sum(s[2].of, t, s[2].order)
    BY <1>7, <1>11
  <2> QED
    BY <1>1, <2>1
<1> QED
  BY <1>5, <1>6, <1>9, <1>10, <1>11

\* What is reached belongs to a slot of the sums and what is made of them.
LEMMA ReachedFresh ==
  ASSUME NEW s \in LiveSlots, s[1] \in SummedViews, NEW t \in Modes, NEW id, NEW more,
         NEW i, Reached(i, t, id, s[2].order, more)
  PROVE  i \in Fresh(id, 0, more)[s][t]
<1>1. RateOf(s, 0) = s[2].order /\ ModesAt(s[1], t) = Reach(t)
  <2>1. s[1] # "curvatureScratch" /\ s[2].order \in Int
    BY LiveOrders DEF SummedViews
  <2> QED
    BY <2>1 DEF RateOf, ModesAt
<1>2. i \in more \/ \E f \in InputFields, n \in Reach(t) : i = InputOf(f, id, n, s[2].order)
  BY DEF Reached
<1> QED
  BY <1>1, <1>2, FreshParts

LEMMA SumsDone ==
  ASSUME NEW memory, NEW known, NEW id, NEW more \in Extra, Knows(memory, known, id, 0, more),
         SourceInputs \subseteq known, Clean(memory), NEW out, out = PairSums(memory)
  PROVE  /\ Knows(out, known \cup SumPlaces, id, 0, more)
         /\ Clean(out)
         /\ Leaves(out, memory, {"sums", "families"})
         /\ Carries(memory, "primitive", id) => CarriesSum(out, <<"sums", Value("K", 0)>>, id)
<1>1. /\ DOMAIN memory = LiveSlots /\ known \subseteq LiveSlots
      /\ Within(memory, known, Fresh(id, 0, more))
  BY DEF Knows
<1>2. /\ DOMAIN out = LiveSlots
      /\ \A s \in LiveSlots : s[1] \notin {"sums", "families"} => out[s] = memory[s]
      /\ \A s \in LiveSlots, m \in Modes : m \notin Targets => out[s][m] = memory[s][m]
      /\ \A s \in LiveSlots, t \in Targets : s[1] = "sums" =>
           \A i : i \in out[s][t] <=>
             \E p \in Pairs(t) : i \in Products(memory, s[2].of, p, s[2].order)
      /\ \A s \in LiveSlots, t \in Targets : s[1] = "families" =>
           \A i : i \in out[s][t] <=>
             \E f \in DOMAIN PairReads : \E p \in Pairs(t) : i \in Products(memory, f, p, 0)
  BY <1>1, PairSumsParts
<1>3. Targets \subseteq Modes
  BY RegistryAssumption
<1>4. ASSUME NEW s \in LiveSlots, s[1] = "sums", NEW t \in Targets, NEW i \in out[s][t]
      PROVE  i \in Fresh(id, 0, more)[s][t]
  <2>1. PICK p \in Pairs(t) : i \in Products(memory, s[2].of, p, s[2].order)
    BY <1>2, <1>4
  <2>2. s[2] \in Sums
    BY <1>4, ViewSlots
  <2>3. s[2].of \in DOMAIN PairReads /\ s[2].order \in ProductOrders(s[2].of)
    BY <2>2, SumQuantities
  <2> DEFINE f == s[2].of
             k == s[2].order
  <2>4. f \in DOMAIN PairReads /\ k \in ProductOrders(f) /\ i \in Products(memory, f, p, k)
    BY <2>1, <2>3
  <2> HIDE DEF f, k
  <2>5. Reached(i, t, id, k, more)
    BY <2>4, ProductsReached
  <2>6. s[1] \in SummedViews
    BY <1>4 DEF SummedViews
  <2>7. Reached(i, t, id, s[2].order, more)
    BY <2>5 DEF k
  <2> QED
    BY <1>3, <2>6, <2>7, ReachedFresh
<1>5. ASSUME NEW s \in LiveSlots, s[1] = "families", NEW t \in Targets, NEW i \in out[s][t]
      PROVE  i \in Fresh(id, 0, more)[s][t]
  <2>1. PICK f \in DOMAIN PairReads : \E p \in Pairs(t) : i \in Products(memory, f, p, 0)
    BY <1>2, <1>5
  <2>2. PICK p \in Pairs(t) : i \in Products(memory, f, p, 0)
    BY <2>1
  <2>3. 0 \in ProductOrders(f)
    BY DEF ProductOrders
  <2>4. Reached(i, t, id, 0, more)
    BY <2>2, <2>3, ProductsReached
  <2>5. s[2].order = 0
    BY <1>5, ViewSlots, SumQuantities
  <2>6. s[1] \in SummedViews
    BY <1>5 DEF SummedViews
  <2>7. Reached(i, t, id, s[2].order, more)
    BY <2>4, <2>5
  <2> QED
    BY <1>3, <2>6, <2>7, ReachedFresh
<1>6. Clean(out)
  BY <1>2 DEF Clean
<1>7. ASSUME NEW s \in known \cup SumPlaces, NEW m \in Modes
      PROVE  out[s][m] \subseteq Fresh(id, 0, more)[s][m]
  <2>1. s \in LiveSlots
    BY <1>1, SumQuantities
  <2>2. CASE s[1] \notin {"sums", "families"}
    <3>1. s \in known
      BY <2>2 DEF SumPlaces
    <3>2. out[s] = memory[s]
      BY <1>2, <2>1, <2>2
    <3> QED
      BY <1>1, <3>1, <3>2 DEF Within
  <2>3. CASE s[1] \in {"sums", "families"} /\ m \notin Targets
    <3>1. out[s][m] = {}
      BY <1>6, <2>1, <2>3 DEF Clean, TargetViews
    <3> QED
      BY <3>1
  <2>4. CASE s[1] \in {"sums", "families"} /\ m \in Targets
    BY <1>4, <1>5, <2>1, <2>4
  <2> QED
    BY <2>2, <2>3, <2>4
<1>8. Knows(out, known \cup SumPlaces, id, 0, more)
  <2>1. known \cup SumPlaces \subseteq LiveSlots
    BY <1>1, SumQuantities
  <2> QED
    BY <1>2, <1>7, <2>1 DEF Knows, Within
<1>9. Leaves(out, memory, {"sums", "families"})
  BY <1>2 DEF Leaves
<1>10. ASSUME Carries(memory, "primitive", id), NEW t \in Targets, NEW p \in Adding(t)
       PROVE  HOf(id, p) \in out[<<"sums", Value("K", 0)>>][t]
  <2> DEFINE s == <<"sums", Value("K", 0)>>
             pair == <<t - p, p>>
  <2>1. s \in LiveSlots
    BY SumQuantities DEF SumPlaces
  <2>2. s[1] = "sums" /\ s[2].of = "K" /\ s[2].order = 0
    BY QuantityParts DEF Value
  <2>3. pair \in Pairs(t) /\ pair[2] = p
    <3>1. p \in Parents /\ t - p \in Parents
      BY DEF Adding
    <3>2. t \in Int /\ p \in Int
      BY <1>3, <3>1, RegistryAssumption, ModesAssumption
    <3>3. (t - p) + p = t
      BY <3>2
    <3> QED
      BY <3>1, <3>3 DEF Pairs
  <2> HIDE DEF s, pair
  <2>4. HOf(id, pair[2]) \in Products(memory, "K", pair, 0)
    BY <1>10, <2>3, ProductsCarry
  <2>5. HOf(id, p) \in Products(memory, s[2].of, pair, s[2].order)
    BY <2>2, <2>3, <2>4
  <2>6. HOf(id, p) \in out[s][t]
    BY <1>2, <2>1, <2>2, <2>3, <2>5
  <2> QED
    BY <2>6 DEF s
<1> QED
  BY <1>6, <1>8, <1>9, <1>10 DEF CarriesSum

-----------------------------------------------------------------------------
(* The outer stage *)

(* What an overflow in a slot of one view keeps, and what Project makes. *)
OverflowKeeps(out, memory, view, known, id, more) ==
  /\ Knows(out, known, id, 0, more)
  /\ Clean(memory) => Clean(out)
  /\ Leaves(out, memory, {view})
  /\ \A s \in LiveSlots : CarriesSum(memory, s, id) => CarriesSum(out, s, id)

ProjectMakes(out, memory, known, id, more) ==
  /\ Knows(out, known \cup Projected, id, 0, more)
  /\ Leaves(out, memory, {"projected"})
  /\ \A q \in Sums, t \in Targets : out[<<"projected", q>>][t] = memory[<<"sums", q>>][t]

HasColumns(memory, view) == \A s \in LiveSlots : s[1] = view => DOMAIN memory[s] = Modes

LEMMA OverflowedDone ==
  ASSUME NEW memory, NEW known, NEW id, NEW more \in Extra, Knows(memory, known, id, 0, more),
         NEW view, NEW slots, slots \subseteq LiveSlots, \A s \in slots : s[1] = view,
         NEW fault, Spared(fault, more), NEW out, out = Overflowed(memory, slots, fault),
         HasColumns(memory, view)
  PROVE  OverflowKeeps(out, memory, view, known, id, more)
<1>1. CASE out = memory
  BY <1>1 DEF Leaves, OverflowKeeps
<1>2. CASE out # memory
  <2>1. /\ fault.slot \in slots /\ memory[fault.slot][fault.mode] # {}
        /\ out = [memory EXCEPT ![fault.slot][fault.mode] = @ \cup {NonFinite}]
    BY <1>2 DEF Overflowed
  <2> DEFINE f == fault.slot
             n == fault.mode
  <2>2. /\ DOMAIN memory = LiveSlots /\ known \subseteq LiveSlots
        /\ Within(memory, known, Fresh(id, 0, more))
    BY DEF Knows
  <2>3. f \in LiveSlots /\ f[1] = view
    BY <2>1
  <2>4. memory[f][n] # {} /\ out = [memory EXCEPT ![f] = [memory[f] EXCEPT ![n] = @ \cup {NonFinite}]]
    BY <2>1
  <2> HIDE DEF f, n
  <2>5. DOMAIN out = LiveSlots /\ \A s \in LiveSlots : s # f => out[s] = memory[s]
    BY <2>2, <2>4
  <2>6. DOMAIN memory[f] = Modes
    BY <2>3 DEF HasColumns
  <2>7. \A m \in Modes : out[f][m] = IF m = n THEN memory[f][m] \cup {NonFinite} ELSE memory[f][m]
    <3> DEFINE col == memory[f]
               new == [col EXCEPT ![n] = @ \cup {NonFinite}]
    <3>1. out[f] = new /\ DOMAIN col = Modes
      BY <2>2, <2>3, <2>4, <2>6
    <3> HIDE DEF col
    <3>2. \A m \in Modes : new[m] = IF m = n THEN col[m] \cup {NonFinite} ELSE col[m]
      BY <3>1
    <3> HIDE DEF new
    <3>3. \A m \in Modes : out[f][m] = IF m = n THEN col[m] \cup {NonFinite} ELSE col[m]
      BY <3>1, <3>2
    <3> QED
      BY <3>3 DEF col
  <2>8. more = {NonFinite}
    BY <2>3 DEF Spared, f
  <2>9. \A s \in LiveSlots, m \in Modes : memory[s][m] \subseteq out[s][m]
    BY <2>5, <2>7
  <2>10. Knows(out, known, id, 0, more)
    <3> SUFFICES ASSUME NEW s \in known, NEW m \in Modes
                 PROVE  out[s][m] \subseteq Fresh(id, 0, more)[s][m]
      BY <2>2, <2>5 DEF Knows, Within
    <3>1. s \in LiveSlots /\ memory[s][m] \subseteq Fresh(id, 0, more)[s][m]
      BY <2>2 DEF Within
    <3>2. NonFinite \in Fresh(id, 0, more)[s][m]
      BY <2>8, <3>1, FreshParts
    <3>3. out[s][m] \subseteq memory[s][m] \cup {NonFinite}
      BY <2>5, <2>7, <3>1
    <3> QED
      BY <3>1, <3>2, <3>3
  <2>11. ASSUME Clean(memory) PROVE Clean(out)
    <3> SUFFICES ASSUME NEW s \in LiveSlots, NEW m \in Modes, s[1] \in TargetViews, m \notin Targets
                 PROVE  out[s][m] = {}
      BY DEF Clean
    <3>1. memory[s][m] = {}
      BY <2>11 DEF Clean
    <3>2. ~(s = f /\ m = n)
      BY <2>4, <3>1
    <3> QED
      BY <2>5, <2>7, <3>1, <3>2
  <2>12. Leaves(out, memory, {view})
    BY <2>3, <2>5 DEF Leaves
  <2>13. ASSUME NEW s \in LiveSlots, CarriesSum(memory, s, id) PROVE CarriesSum(out, s, id)
    <3> SUFFICES ASSUME NEW t \in Targets, NEW p \in Adding(t) PROVE HOf(id, p) \in out[s][t]
      BY DEF CarriesSum
    <3>1. HOf(id, p) \in memory[s][t] /\ t \in Modes
      BY <2>13, RegistryAssumption DEF CarriesSum
    <3> QED
      BY <2>9, <3>1
  <2> QED
    BY <2>10, <2>11, <2>12, <2>13 DEF OverflowKeeps
<1> QED
  BY <1>1, <1>2

LEMMA ProjectDone ==
  ASSUME NEW memory, NEW known, NEW id, NEW more, Knows(memory, known, id, 0, more),
         Lies("sums", Sums, known), NEW out, out = Project(memory)
  PROVE  ProjectMakes(out, memory, known, id, more)
<1>1. /\ DOMAIN memory = LiveSlots /\ known \subseteq LiveSlots
      /\ Within(memory, known, Fresh(id, 0, more))
  BY DEF Knows
<1>2. Projected \subseteq LiveSlots /\ Targets \subseteq Modes
  BY RegistryAssumption DEF Projected, LiveSlots, SourceSlots
<1>3. /\ DOMAIN out = LiveSlots
      /\ \A s \in LiveSlots : s[1] # "projected" => out[s] = memory[s]
      /\ \A s \in LiveSlots, m \in Modes : s[1] = "projected" =>
           out[s][m] = IF m \in Targets THEN memory[<<"sums", s[2]>>][m] ELSE {}
  BY <1>1 DEF Project
<1>4. ASSUME NEW q \in Sums PROVE <<"projected", q>> \in Projected /\ <<"sums", q>> \in known
  <2>1. <<"projected", q>> \in Projected
    BY DEF Projected
  <2>2. <<"sums", q>> \in known
    BY DEF Lies
  <2> QED
    BY <2>1, <2>2
<1>5. ASSUME NEW q \in Sums, NEW m \in Modes
      PROVE  Fresh(id, 0, more)[<<"projected", q>>][m] = Fresh(id, 0, more)[<<"sums", q>>][m]
  <2> DEFINE a == <<"projected", q>>
             b == <<"sums", q>>
  <2>1. a \in LiveSlots /\ b \in LiveSlots
    BY <1>1, <1>2, <1>4
  <2>2. a[1] \in SummedViews /\ b[1] \in SummedViews /\ a[2] = b[2]
        /\ a[1] # "curvatureScratch" /\ b[1] # "curvatureScratch"
    BY DEF SummedViews
  <2> HIDE DEF a, b
  <2>3. RateOf(a, 0) = RateOf(b, 0) /\ ModesAt(a[1], m) = ModesAt(b[1], m)
    BY <2>2 DEF RateOf, ModesAt
  <2>4. Fresh(id, 0, more)[a][m] = Fresh(id, 0, more)[b][m]
    BY <2>1, <2>3 DEF Fresh, FreshAt
  <2> QED
    BY <2>4 DEF a, b
<1>6. ASSUME NEW s \in known \cup Projected, NEW m \in Modes
      PROVE  out[s][m] \subseteq Fresh(id, 0, more)[s][m]
  <2>1. s \in LiveSlots
    BY <1>1, <1>2
  <2>2. CASE s[1] # "projected"
    <3>1. s \in known
      BY <2>2 DEF Projected
    <3> QED
      BY <1>1, <1>3, <2>1, <2>2, <3>1 DEF Within
  <2>3. CASE s[1] = "projected"
    <3>1. s[2] \in Sums /\ s = <<"projected", s[2]>>
      BY <2>1, <2>3, ViewSlots, LiveOrders
    <3> DEFINE q == s[2]
    <3>2. q \in Sums /\ s = <<"projected", q>>
      BY <3>1
    <3>3. out[s][m] = IF m \in Targets THEN memory[<<"sums", q>>][m] ELSE {}
      BY <1>3, <2>1, <2>3
    <3> HIDE DEF q
    <3>4. memory[<<"sums", q>>][m] \subseteq Fresh(id, 0, more)[<<"sums", q>>][m]
      BY <1>1, <1>4, <3>2 DEF Within
    <3> QED
      BY <1>5, <3>2, <3>3, <3>4
  <2> QED
    BY <2>2, <2>3
<1>7. \A q \in Sums, t \in Targets : out[<<"projected", q>>][t] = memory[<<"sums", q>>][t]
  BY <1>2, <1>3, <1>4
<1>8. Leaves(out, memory, {"projected"})
  BY <1>3 DEF Leaves
<1> QED
  BY <1>1, <1>2, <1>3, <1>6, <1>7, <1>8 DEF Knows, Within, ProjectMakes

\* The outer derivatives read the projection of J and K and of their rates.
LEMMA OuterFits ==
  ASSUME NEW known, Projected \subseteq known
  PROVE  /\ Fits(OuterDerivatives, known, 0)
         /\ Written(OuterDerivatives) = {"outer"} \X OuterQuantities
         /\ Only(OuterDerivatives, {"outer"})
<1> DEFINE W(f) == WithRate("projected", f, 0)
<1>1. \A f \in {"J", "K"}, k \in 0 .. 1 : <<"projected", Quantity("value", f, k)>> \in known
  <2> SUFFICES ASSUME NEW f \in {"J", "K"}, NEW k \in 0 .. 1
               PROVE  <<"projected", Quantity("value", f, k)>> \in known
    OBVIOUS
  <2> DEFINE q == Quantity("value", f, k)
  <2>1. q \in All("value", {"J", "K"}, 0 .. 1)
    BY InAll
  <2>2. q \in Sums
    BY <2>1 DEF Sums
  <2> HIDE DEF q
  <2>3. <<"projected", q>> \in known
    BY <2>2 DEF Projected
  <2> QED
    BY <2>3 DEF q
<1>2. ASSUME NEW f \in {"J", "K"}, NEW x \in W(f) PROVE KnownRead(x, "projected", known)
  <2>1. x = At("projected", "value", f, 0) \/ x = At("projected", "value", f, 0 + 1)
    BY <1>2 DEF WithRate
  <2>2. PICK j \in 0 .. 1 : x = At("projected", "value", f, j)
    BY <2>1
  <2>3. j \in 0 .. 4
    OBVIOUS
  <2> QED
    BY <1>1, <2>2, <2>3 DEF KnownRead
<1> HIDE DEF W
<1>3. \A r : r \in OuterDerivatives <=>
        \/ \E op \in {"thorn", "thornRegular"} : r = Put("outer", op, "J", 0, W("J"))
        \/ r = Put("outer", "eth", "K", 0, W("K"))
  BY DEF OuterDerivatives, W
<1>4. \A r \in OuterDerivatives : KnownPut(r, "projected", "outer", known)
  <2> SUFFICES ASSUME NEW r \in OuterDerivatives PROVE KnownPut(r, "projected", "outer", known)
    OBVIOUS
  <2>1. PICK op \in {"thorn", "thornRegular", "eth"}, f \in {"J", "K"} :
            r = Put("outer", op, f, 0, W(f))
    BY <1>3
  <2>2. \A x \in W(f) : KnownRead(x, "projected", known)
    BY <1>2
  <2>3. 0 \in 0 .. 4
    OBVIOUS
  <2> QED
    BY <2>1, <2>2, <2>3 DEF KnownPut
<1>5. PutsOf(OuterDerivatives, "projected", "outer", known)
  BY <1>4, KnownPutsFit
<1>6. Written(OuterDerivatives) = {"outer"} \X OuterQuantities
  <2> DEFINE a == Put("outer", "thorn", "J", 0, W("J"))
             b == Put("outer", "thornRegular", "J", 0, W("J"))
             c == Put("outer", "eth", "K", 0, W("K"))
             x == <<"outer", Quantity("thorn", "J", 0)>>
             y == <<"outer", Quantity("thornRegular", "J", 0)>>
             z == <<"outer", Quantity("eth", "K", 0)>>
  <2>1. a.slot = x /\ b.slot = y /\ c.slot = z
    BY PutParts
  <2>2. OuterDerivatives = {a, b, c}
    BY <1>3
  <2>3. {"outer"} \X OuterQuantities = {x, y, z}
    BY DEF OuterQuantities
  <2> HIDE DEF a, b, c, x, y, z
  <2> QED
    BY <2>1, <2>2, <2>3 DEF Written
<1>7. Fits(OuterDerivatives, known, 0)
  <2>1. {"outer"} \X OuterQuantities \subseteq LiveSlots
    BY DEF LiveSlots, SourceSlots
  <2>2. Ahead("projected", 0) = Ahead("outer", 0) /\ 0 \in 0 .. 2
    BY DEF Ahead
  <2>3. "projected" \in SummedViews /\ "outer" \in SummedViews
    BY DEF SummedViews
  <2>4. Written(OuterDerivatives) \subseteq LiveSlots
    BY <1>6, <2>1
  <2> QED
    BY <1>5, <2>2, <2>3, <2>4, PutsFit
<1>8. Only(OuterDerivatives, {"outer"})
  <2> SUFFICES ASSUME NEW r \in OuterDerivatives PROVE r.slot[1] = "outer"
    BY DEF Only
  <2>1. PICK op, f : r = Put("outer", op, f, 0, W(f))
    BY <1>3
  <2> QED
    BY <2>1, PutParts
<1> QED
  BY <1>6, <1>7, <1>8

LEMMA OuterPlaces ==
  /\ OuterOutputs \subseteq Projected \cup ({"outer"} \X OuterQuantities)
  /\ OuterOutputs \subseteq LiveSlots /\ OuterKeys \subseteq StampKeys
  /\ <<"projected", Value("K", 0)>> \in OuterOutputs
  /\ \A s \in OuterOutputs : s[1] \in {"projected", "outer"}
<1>1. Aggregates \subseteq Sums
  <2> SUFFICES ASSUME NEW q \in Aggregates PROVE q \in Sums
    OBVIOUS
  <2>1. PICK f \in {"J", "K", "Q"}, k \in {0} : q = Quantity("value", f, k)
    BY InAll DEF Aggregates
  <2>2. CASE f = "Q"
    BY <2>1, <2>2 DEF Sums, Value
  <2>3. CASE f # "Q"
    <3>1. f \in {"J", "K"} /\ k \in 0 .. 1
      BY <2>3
    <3>2. q \in All("value", {"J", "K"}, 0 .. 1)
      BY <2>1, <3>1, InAll
    <3> QED
      BY <3>2 DEF Sums
  <2> QED
    BY <2>2, <2>3
<1>2. Value("K", 0) \in Aggregates
  BY InAll DEF Aggregates, Value
<1>3. OuterOutputs \subseteq LiveSlots
  <2>1. ({"projected"} \X Sums) \cup ({"outer"} \X OuterQuantities) \subseteq LiveSlots
    BY DEF LiveSlots, SourceSlots
  <2> QED
    BY <1>1, <2>1 DEF OuterOutputs
<1>4. OuterOutputs \subseteq Projected \cup ({"outer"} \X OuterQuantities)
  BY <1>1 DEF OuterOutputs, Projected
<1>5. OuterKeys \subseteq StampKeys
  BY DEF OuterKeys, StampKeys
<1>6. <<"projected", Value("K", 0)>> \in OuterOutputs
  BY <1>2 DEF OuterOutputs
<1>7. \A s \in OuterOutputs : s[1] \in {"projected", "outer"}
  BY DEF OuterOutputs
<1> QED
  BY <1>3, <1>4, <1>5, <1>6, <1>7

LEMMA OuterStageDone ==
  ASSUME NEW d, Shape(d), NEW known, NEW id, NEW more \in Extra,
         Knows(d.mem, known, id, 0, more), Lies("sums", Sums, known),
         NEW fault, Spared(fault, more), NEW g, NEW out, out = OuterStage(d, g, fault)
  PROVE  OuterDone(d, out, g, known, id, more)
<1> DEFINE finite == FiniteIn(d.mem, "sums", Sums)
           project == Project(d.mem)
           taken == Overflowed(project, Projected, fault)
           mem == AfterFault(taken, OuterDerivatives, fault)
           valid == [m \in Modes |-> finite /\ \A s \in OuterOutputs : NonFinite \notin mem[s][m]]
           stamps == [m \in Modes |-> IF valid[m] THEN g ELSE 0]
           sumK == <<"sums", Value("K", 0)>>
           projK == <<"projected", Value("K", 0)>>
<1>1. out = [d EXCEPT !.mem = Masked(mem, OuterOutputs, valid),
                      !.stamp = [d.stamp EXCEPT ![<<"projected", 0>>] = stamps,
                                                ![<<"outer", 0>>] = stamps]]
  BY DEF OuterStage, OuterOutputs, Masked, Projected
<1>2. \A m \in Modes : valid[m] = (finite /\ \A s \in OuterOutputs : NonFinite \notin mem[s][m])
  OBVIOUS
<1>3. \A m \in Modes : stamps[m] = IF valid[m] THEN g ELSE 0
  OBVIOUS
<1> HIDE DEF stamps, valid
<1>4. finite \in BOOLEAN
  BY DEF FiniteIn
<1>5. /\ Knows(taken, known \cup Projected, id, 0, more)
      /\ Leaves(taken, d.mem, {"projected"})
      /\ CarriesSum(d.mem, sumK, id) => CarriesSum(taken, projK, id)
  <2>0. project = Project(d.mem)
    OBVIOUS
  <2>2. HasColumns(project, "projected")
    BY DEF Project, Shape, HasColumns
  <2> HIDE DEF project, taken
  <2>1. ProjectMakes(project, d.mem, known, id, more)
    BY <2>0, ProjectDone
  <2>3. CarriesSum(d.mem, sumK, id) => CarriesSum(project, projK, id)
    BY <2>1, SumQuantities DEF CarriesSum, ProjectMakes
  <2>4. Projected \subseteq LiveSlots /\ \A s \in Projected : s[1] = "projected"
    BY DEF LiveSlots, SourceSlots, Projected
  <2>5. taken = Overflowed(project, Projected, fault) /\ projK \in LiveSlots
    BY OuterPlaces DEF taken
  <2>8. Knows(project, known \cup Projected, id, 0, more) /\ Leaves(project, d.mem, {"projected"})
    BY <2>1 DEF ProjectMakes
  <2> HIDE DEF projK, sumK
  <2>6. /\ Knows(taken, known \cup Projected, id, 0, more)
        /\ Leaves(taken, project, {"projected"})
        /\ \A s \in LiveSlots : CarriesSum(project, s, id) => CarriesSum(taken, s, id)
    <3>1. OverflowKeeps(taken, project, "projected", known \cup Projected, id, more)
      BY <2>2, <2>4, <2>5, <2>8, OverflowedDone
    <3> QED
      BY <3>1 DEF OverflowKeeps
  <2>7. Leaves(taken, d.mem, {"projected"})
    BY <2>6, <2>8 DEF Leaves
  <2> QED
    BY <2>3, <2>5, <2>6, <2>7
<1> HIDE DEF taken, finite, project
<1>6. /\ Fits(OuterDerivatives, known \cup Projected, 0)
      /\ Written(OuterDerivatives) = {"outer"} \X OuterQuantities
      /\ Only(OuterDerivatives, {"outer"})
  BY OuterFits
<1>7. Knows(mem, Grown(known \cup Projected, OuterDerivatives), id, 0, more)
  BY <1>5, <1>6, KnowsMore
<1>8. Grown(known \cup Projected, OuterDerivatives) = OuterMade(known)
  BY <1>6 DEF Grown, OuterMade
<1>9. DOMAIN taken = LiveSlots /\ DOMAIN mem = LiveSlots
  BY <1>5, <1>7 DEF Knows
<1>10. \A s \in LiveSlots : s[1] # "outer" => mem[s] = taken[s]
  <2> SUFFICES ASSUME NEW s \in LiveSlots, s[1] # "outer" PROVE mem[s] = taken[s]
    OBVIOUS
  <2>1. s \notin Written(OuterDerivatives)
    BY <1>6, OnlyElsewhere
  <2> QED
    BY <1>9, <2>1, AfterFaultElsewhere
<1> HIDE DEF mem
<1> DEFINE masked == Masked(mem, OuterOutputs, valid)
<1>11. /\ DOMAIN masked = LiveSlots
       /\ \A s \in LiveSlots : s \notin OuterOutputs => masked[s] = mem[s]
       /\ \A s \in LiveSlots, m \in Modes : s \in OuterOutputs =>
            masked[s][m] = IF valid[m] THEN mem[s][m] ELSE {}
       /\ \A s \in LiveSlots, m \in Modes : valid[m] => masked[s][m] = mem[s][m]
  BY <1>9, MaskedParts
<1>12. Knows(masked, OuterMade(known), id, 0, more)
  BY <1>7, <1>8, MaskedKnows
<1> HIDE DEF masked
<1> DEFINE marks == [d.stamp EXCEPT ![<<"projected", 0>>] = stamps, ![<<"outer", 0>>] = stamps]
<1>13. out = [d EXCEPT !.mem = masked, !.stamp = marks]
  BY <1>1 DEF masked
<1>14. /\ DOMAIN marks = StampKeys
       /\ \A k \in StampKeys : marks[k] = IF k \in OuterKeys THEN stamps ELSE d.stamp[k]
  BY DEF Shape, OuterKeys, StampKeys
<1> HIDE DEF marks
<1>15. Shape(out) /\ out.mem = masked /\ out.stamp = marks
  BY <1>11, <1>13, <1>14 DEF Shape
<1>16. Leaves(out.mem, d.mem, {"projected", "outer"})
  <2> SUFFICES ASSUME NEW x \in LiveSlots, x[1] \notin {"projected", "outer"}
               PROVE  out.mem[x] = d.mem[x]
    BY DEF Leaves
  <2>1. x \notin OuterOutputs
    BY OuterPlaces
  <2>2. masked[x] = mem[x] /\ mem[x] = taken[x]
    BY <1>10, <1>11, <2>1
  <2>3. taken[x] = d.mem[x]
    BY <1>5 DEF Leaves
  <2> QED
    BY <1>15, <2>2, <2>3
<1>17. FiniteOutputs(out.mem)
  <2> SUFFICES ASSUME NEW s \in OuterOutputs, NEW m \in Modes PROVE NonFinite \notin out.mem[s][m]
    BY DEF FiniteOutputs
  <2>1. s \in LiveSlots
    BY OuterPlaces
  <2>2. out.mem[s][m] = IF valid[m] THEN mem[s][m] ELSE {}
    BY <1>11, <1>15, <2>1
  <2> QED
    BY <1>2, <2>2
<1>18. ASSUME more = {}, NEW m \in Modes PROVE valid[m]
  <2>1. Knows(d.mem, known, id, 0, {}) /\ Knows(mem, OuterMade(known), id, 0, {})
    BY <1>7, <1>8, <1>18
  <2>2. finite
    <3>1. \A q \in Sums : <<"sums", q>> \in known
      BY DEF Lies
    <3>2. FiniteIn(d.mem, "sums", Sums)
      BY <2>1, <3>1, FiniteKnown
    <3> QED
      BY <3>2 DEF finite
  <2>3. ASSUME NEW s \in OuterOutputs PROVE NonFinite \notin mem[s][m]
    <3>1. s \in OuterMade(known) /\ s \in LiveSlots
      BY OuterPlaces DEF OuterMade
    <3>2. mem[s][m] \subseteq Fresh(id, 0, {})[s][m]
      BY <2>1, <3>1 DEF Knows, Within
    <3>3. NonFinite \notin Fresh(id, 0, {})[s][m]
      <4>1. ASSUME NEW f \in InputFields, NEW n, NEW r PROVE InputOf(f, id, n, r) # NonFinite
        BY MovedInput
      <4> QED
        BY <3>1, <4>1, FreshParts
    <3> QED
      BY <3>2, <3>3
  <2> QED
    BY <1>2, <2>2, <2>3
<1>19. ASSUME \A m \in Modes : valid[m], CarriesSum(d.mem, sumK, id)
       PROVE  CarriesSum(out.mem, projK, id)
  <2> SUFFICES ASSUME NEW t \in Targets, NEW p \in Adding(t) PROVE HOf(id, p) \in out.mem[projK][t]
    BY DEF CarriesSum
  <2>1. t \in Modes
    BY RegistryAssumption
  <2>2. projK \in LiveSlots /\ projK[1] # "outer"
    BY OuterPlaces
  <2>3. HOf(id, p) \in taken[projK][t]
    BY <1>5, <1>19 DEF CarriesSum
  <2> HIDE DEF projK, sumK
  <2>4. masked[projK][t] = mem[projK][t] /\ mem[projK] = taken[projK]
    BY <1>10, <1>11, <1>19, <2>1, <2>2
  <2> QED
    BY <1>15, <2>3, <2>4
<1>20. \A m \in Modes : valid[m] \in BOOLEAN
  BY <1>2, <1>4, Zenon
<1>21. \A k \in OuterKeys, m \in Modes : out.stamp[k][m] = IF valid[m] THEN g ELSE 0
  BY <1>3, <1>14, <1>15, OuterPlaces
<1>22. OuterValid(d, out, g, id, more, valid)
  BY <1>18, <1>19, <1>20, <1>21 DEF OuterValid
<1>23. \A k \in StampKeys : k \notin OuterKeys => out.stamp[k] = d.stamp[k]
  BY <1>14, <1>15
<1> QED
  BY <1>12, <1>15, <1>16, <1>17, <1>22, <1>23 DEF OuterDone

-----------------------------------------------------------------------------
(* The source and the forcing *)

LEMMA NormalizedOuterDone ==
  ASSUME NEW d, NEW known, NEW id, NEW more, Knows(d.mem, known, id, 0, more),
         FiniteOutputs(d.mem), NEW ready \in BOOLEAN, NEW late, NEW g,
         NEW out, out = NormalizedOuter(d, ready, late, g)
  PROVE  CheckedDone(d, out, ready, g, known, id, more)
<1> DEFINE bad == {m \in Modes : \E v \in {"projected", "outer"} : d.stamp[<<v, 0>>][m] # g}
           cleared == IF ~ready THEN Modes ELSE IF bad = {} THEN {} ELSE bad \cup late
           kept == [m \in Modes |-> m \notin cleared]
<1>1. bad = {} <=> \A k \in OuterKeys : Bears(d, k, g)
  BY DEF OuterKeys, Bears
<1>2. out.ready = (ready /\ bad = {})
  BY DEF NormalizedOuter
<1>3. out.mem = Masked(d.mem, OuterOutputs, kept)
  <2>1. out.mem = [s \in DOMAIN d.mem |->
                     IF s \notin OuterOutputs THEN d.mem[s]
                     ELSE [m \in Modes |-> IF m \in cleared THEN {} ELSE d.mem[s][m]]]
    BY DEF NormalizedOuter, OuterOutputs
  <2> HIDE DEF cleared
  <2>2. \A s : [m \in Modes |-> IF m \in cleared THEN {} ELSE d.mem[s][m]]
             = [m \in Modes |-> IF kept[m] THEN d.mem[s][m] ELSE {}]
    OBVIOUS
  <2> QED
    BY <2>1, <2>2 DEF Masked
<1>4. out.ready => \A m \in Modes : kept[m]
  BY <1>2
<1> HIDE DEF kept, bad, cleared
<1>5. DOMAIN d.mem = LiveSlots
  BY DEF Knows
<1>6. /\ DOMAIN out.mem = LiveSlots
      /\ \A s \in LiveSlots : s \notin OuterOutputs => out.mem[s] = d.mem[s]
      /\ \A s \in LiveSlots, m \in Modes : s \in OuterOutputs =>
           out.mem[s][m] = IF kept[m] THEN d.mem[s][m] ELSE {}
      /\ \A s \in LiveSlots, m \in Modes : kept[m] => out.mem[s][m] = d.mem[s][m]
  BY <1>3, <1>5, MaskedParts
<1>7. Knows(out.mem, known, id, 0, more)
  BY <1>3, MaskedKnows
<1>8. Leaves(out.mem, d.mem, {"projected", "outer"})
  BY <1>6, OuterPlaces DEF Leaves
<1>9. FiniteOutputs(out.mem)
  <2> SUFFICES ASSUME NEW s \in OuterOutputs, NEW m \in Modes PROVE NonFinite \notin out.mem[s][m]
    BY DEF FiniteOutputs
  <2>1. s \in LiveSlots /\ NonFinite \notin d.mem[s][m]
    BY OuterPlaces DEF FiniteOutputs
  <2> QED
    BY <1>6, <2>1
<1>10. out.ready \in BOOLEAN /\ (out.ready <=> ready /\ \A k \in OuterKeys : Bears(d, k, g))
  BY <1>1, <1>2
<1>11. out.ready => \A s \in LiveSlots, m \in Modes : out.mem[s][m] = d.mem[s][m]
  BY <1>4, <1>6
<1> QED
  BY <1>7, <1>8, <1>9, <1>10, <1>11 DEF CheckedDone

LEMMA SourceReadsOutputs ==
  \A x \in RegularReads \cup SingularReads : OutputRead(x)
<1>1. ASSUME NEW v, NEW q
      PROVE  /\ Own(v, q).slot = <<v, q>> /\ Own(v, q).sign = 1 /\ Own(v, q).rate = 0
             /\ Own(v, q).slot[2] = q
  BY DEF Own
<1>2. \A op, f, k : Quantity(op, f, k).order = k
  BY QuantityParts
<1>3. \A q \in Aggregates : q.order = 0
  BY AllOrders DEF Aggregates
<1>4. \A q \in OuterQuantities : q.order = 0
  BY <1>2 DEF OuterQuantities
<1>5. ASSUME NEW q \in Aggregates PROVE OutputRead(Own("projected", q))
  <2>1. <<"projected", q>> \in OuterOutputs
    BY DEF OuterOutputs
  <2> QED
    BY <1>1, <1>3, <2>1 DEF OutputRead
<1>6. ASSUME NEW q \in OuterQuantities PROVE OutputRead(Own("outer", q))
  <2>1. <<"outer", q>> \in OuterOutputs
    BY DEF OuterOutputs
  <2> QED
    BY <1>1, <1>4, <2>1 DEF OutputRead
<1>7. Value("K", 0) \in Aggregates /\ Value("Q", 0) \in Aggregates
  BY InAll DEF Aggregates, Value
<1>8. /\ Quantity("thornRegular", "J", 0) \in OuterQuantities
      /\ Quantity("eth", "K", 0) \in OuterQuantities
      /\ Quantity("thorn", "J", 0) \in OuterQuantities
  BY DEF OuterQuantities
<1>9. \A x \in RegularReads : OutputRead(x)
  BY <1>5, <1>6, <1>7, <1>8 DEF RegularReads
<1>10. \A x \in SingularReads : OutputRead(x)
  BY <1>5, <1>6, <1>8 DEF SingularReads
<1> QED
  BY <1>9, <1>10

\* The two passes of the last kernel.
LEMMA SourceQuantitiesAre ==
  /\ SourceQuantities = {Value("OverR6", 0), Value("OverR7", 0), Value("Forcing", 0)}
  /\ \A q \in SourceQuantities : q.order = 0
<1>1. ASSUME NEW q
      PROVE  q \in SourceQuantities <=> \E f \in {"OverR6", "OverR7", "Forcing"} : q = Value(f, 0)
  <2>1. q \in SourceQuantities <=>
          \E f \in {"OverR6", "OverR7", "Forcing"}, k \in {0} : q = Quantity("value", f, k)
    BY InAll DEF SourceQuantities
  <2> QED
    BY <2>1 DEF Value
<1>2. \A q \in SourceQuantities : q.order = 0
  BY AllOrders DEF SourceQuantities
<1> QED
  BY <1>1, <1>2

LEMMA SourcePlacesAre ==
  /\ SourcePlaces \subseteq LiveSlots
  /\ SourcePlaces = {<<"source", Value("OverR6", 0)>>, CompactedSlot, SourceSlot}
  /\ \A s \in SourcePlaces : s[1] = "source" /\ s[2].order = 0 /\ RateOf(s, 0) = 0
  /\ CompactedSlot # SourceSlot
<1>1. SourcePlaces \subseteq LiveSlots
  BY DEF SourcePlaces, LiveSlots, SourceSlots
<1>2. SourcePlaces = {<<"source", Value("OverR6", 0)>>, CompactedSlot, SourceSlot}
  BY SourceQuantitiesAre DEF SourcePlaces, CompactedSlot, SourceSlot
<1>3. ASSUME NEW s \in SourcePlaces
      PROVE  s[1] = "source" /\ s[2].order = 0 /\ RateOf(s, 0) = 0
  <2>1. s[1] = "source" /\ s[2] \in SourceQuantities
    BY DEF SourcePlaces
  <2>2. s[2].order = 0 /\ 0 + 0 = 0
    BY <2>1, SourceQuantitiesAre
  <2> QED
    BY <2>1, <2>2 DEF RateOf
<1>4. CompactedSlot # SourceSlot
  <2>1. Value("OverR7", 0).of = "OverR7" /\ Value("Forcing", 0).of = "Forcing"
    BY QuantityParts DEF Value
  <2> QED
    BY <2>1 DEF CompactedSlot, SourceSlot
<1> QED
  BY <1>1, <1>2, <1>3, <1>4

LEMMA SourceKernelParts ==
  /\ \A r \in Compacted : SourceResult(r)
  /\ Written(Compacted) = {<<"source", Value("OverR6", 0)>>, CompactedSlot}
  /\ To("source", Value("OverR7", 0), RegularReads) \in Compacted
  /\ Written(Coordinates) = {SourceSlot}
  /\ \A r \in Coordinates : /\ r = To("source", Value("Forcing", 0), {Own("source", Value("OverR7", 0))})
                             /\ r.slot = SourceSlot /\ r.raise = 0
                             /\ \A x \in r.reads : x.slot = CompactedSlot /\ x.sign = 1 /\ x.rate = 0
<1>1. \A f, reads : /\ To("source", f, reads).slot = <<"source", f>>
                    /\ To("source", f, reads).raise = 0 /\ To("source", f, reads).reads = reads
  BY DEF To
<1>2. Written(Compacted) = {<<"source", Value("OverR6", 0)>>, CompactedSlot}
  BY <1>1 DEF Written, Compacted, CompactedSlot
<1>3. Written(Coordinates) = {SourceSlot}
  BY <1>1 DEF Written, Coordinates, SourceSlot
<1>4. ASSUME NEW r \in Compacted PROVE SourceResult(r)
  <2>1. r.slot \in SourcePlaces
    BY <1>2, SourcePlacesAre DEF Written
  <2>2. r.raise = 0 /\ r.reads \subseteq RegularReads \cup SingularReads
    BY <1>1 DEF Compacted
  <2> QED
    BY <2>1, <2>2, SourceReadsOutputs DEF SourceResult
<1>5. ASSUME NEW r \in Coordinates
      PROVE  /\ r = To("source", Value("Forcing", 0), {Own("source", Value("OverR7", 0))})
             /\ r.slot = SourceSlot /\ r.raise = 0
             /\ \A x \in r.reads : x.slot = CompactedSlot /\ x.sign = 1 /\ x.rate = 0
  <2>1. r = To("source", Value("Forcing", 0), {Own("source", Value("OverR7", 0))})
    BY DEF Coordinates
  <2>2. r.slot = SourceSlot /\ r.raise = 0 /\ r.reads = {Own("source", Value("OverR7", 0))}
    BY <1>1, <2>1 DEF SourceSlot
  <2> QED
    BY <2>1, <2>2 DEF Own, CompactedSlot
<1> QED
  BY <1>2, <1>3, <1>4, <1>5 DEF Compacted

\* Both are made in the right order.
LEMMA SourceFits ==
  ASSUME NEW known, OuterOutputs \subseteq known
  PROVE  Fits(Compacted, known, 0) /\ Fits(Coordinates, Grown(known, Compacted), 0)
<1>0. "source" \in SummedViews /\ "projected" \in SummedViews /\ "outer" \in SummedViews
      /\ 0 \in Int /\ 0 + 0 - 0 = 0
  BY DEF SummedViews
<1>1. ASSUME NEW r \in Compacted, NEW x \in r.reads
      PROVE  /\ x.slot \in known /\ x.sign = 1 /\ x.rate = 0 /\ r.raise = 0
             /\ RateOf(x.slot, 0) = 0 /\ RateOf(r.slot, 0) = 0
             /\ x.slot[1] \in SummedViews /\ r.slot[1] \in SummedViews
  <2>1. SourceResult(r) /\ OutputRead(x)
    BY SourceKernelParts DEF SourceResult
  <2>2. r.raise = 0 /\ r.slot \in SourcePlaces
    BY <2>1 DEF SourceResult
  <2>3. x.slot \in OuterOutputs /\ x.sign = 1 /\ x.rate = 0 /\ x.slot[2].order = 0
    BY <2>1 DEF OutputRead
  <2>4. x.slot[1] \in {"projected", "outer"}
    BY <2>3, OuterPlaces
  <2>5. RateOf(x.slot, 0) = 0
    <3>1. 0 + 0 = 0 /\ x.slot[1] # "curvatureScratch"
      BY <2>4
    <3> QED
      BY <2>3, <3>1 DEF RateOf
  <2> QED
    BY <1>0, <2>2, <2>3, <2>4, <2>5, SourcePlacesAre
<1>2. Fits(Compacted, known, 0)
  <2>1. Written(Compacted) \subseteq LiveSlots
    BY SourceKernelParts, SourcePlacesAre
  <2> QED
    BY <1>0, <1>1, <2>1 DEF Fits
<1>3. ASSUME NEW r \in Coordinates, NEW x \in r.reads
      PROVE  /\ x.slot \in Grown(known, Compacted) /\ x.sign = 1 /\ x.rate = 0 /\ r.raise = 0
             /\ RateOf(x.slot, 0) = 0 /\ RateOf(r.slot, 0) = 0
             /\ x.slot[1] \in SummedViews /\ r.slot[1] \in SummedViews
  <2>1. r.slot = SourceSlot /\ r.raise = 0 /\ x.slot = CompactedSlot /\ x.sign = 1 /\ x.rate = 0
    BY SourceKernelParts
  <2>2. SourceSlot \in SourcePlaces /\ CompactedSlot \in SourcePlaces
    BY SourcePlacesAre
  <2>3. CompactedSlot \in Grown(known, Compacted)
    BY SourceKernelParts DEF Grown
  <2> QED
    BY <1>0, <2>1, <2>2, <2>3, SourcePlacesAre
<1>4. Fits(Coordinates, Grown(known, Compacted), 0)
  <2>1. Written(Coordinates) \subseteq LiveSlots
    BY SourceKernelParts, SourcePlacesAre
  <2> QED
    BY <1>0, <1>3, <2>1 DEF Fits
<1> QED
  BY <1>2, <1>4

\* What a read of an output brings to the source.
LEMMA OutputContent ==
  ASSUME NEW memory, NEW known, NEW id, NEW more \in Extra, Knows(memory, known, id, 0, more),
         OuterOutputs \subseteq known, FiniteOutputs(memory),
         NEW x, OutputRead(x), NEW t \in Modes, NEW j \in memory[x.slot][x.sign * t],
         NEW i, i = Moved(j, 0 - x.rate)
  PROVE  i # NonFinite /\ Reached(i, t, id, 0, more)
<1>1. t \in Int /\ x.sign * t = t /\ x.rate = 0 /\ 0 - 0 = 0
  BY Mirrored DEF OutputRead
<1>2. j \in memory[x.slot][t] /\ i = Moved(j, 0)
  BY <1>1
<1> DEFINE s == x.slot
<1>3. s \in OuterOutputs /\ s \in LiveSlots /\ s \in known /\ s[2].order = 0
  BY OuterPlaces DEF OutputRead
<1>4. j # NonFinite
  BY <1>2, <1>3 DEF FiniteOutputs
<1>5. j \in Fresh(id, 0, more)[s][t]
  BY <1>2, <1>3 DEF Knows, Within
<1>6. s[1] \in SummedViews /\ s[1] # "curvatureScratch"
  <2>1. s[1] \in {"projected", "outer"}
    BY <1>3, OuterPlaces
  <2> HIDE DEF s
  <2> QED
    BY <2>1 DEF SummedViews
<1> HIDE DEF s
<1>7. RateOf(s, 0) = 0 /\ ModesAt(s[1], t) = Reach(t)
  <2>1. 0 + 0 = 0
    OBVIOUS
  <2> QED
    BY <1>3, <1>6, <2>1 DEF RateOf, ModesAt
<1>8. j \notin more
  BY <1>4 DEF Extra
<1>9. PICK f \in InputFields, n \in Reach(t) : j = InputOf(f, id, n, 0)
  BY <1>3, <1>5, <1>7, <1>8, FreshParts
<1>10. i = InputOf(f, id, n, 0 + 0) /\ i # NonFinite
  BY <1>2, <1>9, MovedInput
<1>11. 0 + 0 = 0
  OBVIOUS
<1> QED
  BY <1>9, <1>10, <1>11 DEF Reached

\* A number that was not there before a fault is there of the fault.
LEMMA AfterFaultMarks ==
  ASSUME NEW memory, NEW kernel, NEW fault, NEW s \in DOMAIN memory, s \in Written(kernel),
         NEW m \in Modes, NonFinite \in AfterFault(memory, kernel, fault)[s][m],
         NonFinite \notin After(memory, kernel)[s][m]
  PROVE  fault.slot = s /\ fault.mode = m /\ After(memory, kernel)[s][m] # {}
<1> DEFINE there == After(memory, kernel)
           out == AfterFault(memory, kernel, fault)
           hit == fault.slot \in {r.slot : r \in kernel} /\ there[fault.slot][fault.mode] # {}
<1>1. s \in DOMAIN there /\ DOMAIN there[s] = Modes
  BY DEF After, Written
<1>2. out = IF hit THEN [there EXCEPT ![fault.slot][fault.mode] = @ \cup {NonFinite}] ELSE there
  BY DEF AfterFault, Overflowed
<1>3. NonFinite \in out[s][m] /\ NonFinite \notin there[s][m]
  OBVIOUS
<1>4. hit => there[fault.slot][fault.mode] # {}
  OBVIOUS
<1> HIDE DEF there, out, hit
<1>5. hit /\ fault.slot = s
  BY <1>1, <1>2, <1>3
<1> DEFINE col == there[s]
           n == fault.mode
           new == [col EXCEPT ![n] = @ \cup {NonFinite}]
<1>6. out[s] = new
  BY <1>1, <1>2, <1>5
<1> HIDE DEF col
<1>7. \A k \in Modes : k # n => new[k] = col[k]
  BY <1>1 DEF col
<1>8. m = n
  <2> HIDE DEF new, n
  <2> QED
    BY <1>3, <1>6, <1>7 DEF col
<1> QED
  BY <1>4, <1>5, <1>8 DEF there

\* What the two passes leave of a target that nothing reaches, and what is not finite
\* there.
LEMMA SourceMarks ==
  ASSUME NEW memory, NEW known, NEW id, NEW more \in Extra, Knows(memory, known, id, 0, more),
         OuterOutputs \subseteq known, FiniteOutputs(memory), NEW fault,
         NEW raw, raw = AfterFault(memory, Compacted, fault), DOMAIN raw = LiveSlots,
         NEW there, there = AfterFault(raw, Coordinates, fault), NEW t \in Modes
  PROVE  OnlyLast(there, SourceSlot, t, fault)
<1> DEFINE first == After(memory, Compacted)
           next == After(raw, Coordinates)
<1>0. /\ DOMAIN memory = LiveSlots
      /\ CompactedSlot \in LiveSlots /\ SourceSlot \in LiveSlots
      /\ CompactedSlot \in Written(Compacted) /\ SourceSlot \in Written(Coordinates)
      /\ CompactedSlot \in LastNumbers /\ SourceSlot \in LastNumbers
  BY SourceKernelParts, SourcePlacesAre DEF Knows, LastNumbers, CompactedSlot, SourceSlot
<1>1. ASSUME NEW i \in first[CompactedSlot][t]
      PROVE  i # NonFinite /\ \E f \in InputFields, n \in Reach(t) : i = InputOf(f, id, n, 0)
  <2>1. PICK r \in Compacted : /\ r.slot = CompactedSlot
                               /\ \E x \in r.reads : \E j \in memory[x.slot][x.sign * t] :
                                    i = Moved(j, r.raise - x.rate)
    BY <1>0, <1>1, AfterWritten
  <2>2. PICK x \in r.reads : \E j \in memory[x.slot][x.sign * t] : i = Moved(j, r.raise - x.rate)
    BY <2>1
  <2>3. PICK j \in memory[x.slot][x.sign * t] : i = Moved(j, r.raise - x.rate)
    BY <2>2
  <2>4. OutputRead(x) /\ r.raise = 0
    BY SourceKernelParts DEF SourceResult
  <2>5. i # NonFinite /\ Reached(i, t, id, 0, more)
    BY <2>3, <2>4, OutputContent
  <2> QED
    BY <2>5 DEF Reached, Extra
<1>2. Reach(t) # {} => Adding(t) # {}
  BY DEF Reach
<1>3. NonFinite \in raw[CompactedSlot][t] => fault.slot = CompactedSlot /\ fault.mode = t
  BY <1>0, <1>1, AfterFaultMarks
<1>4. ASSUME NEW j \in raw[CompactedSlot][t]
      PROVE  /\ Adding(t) # {}
             /\ j # NonFinite => \E f \in InputFields, n \in Reach(t) : j = InputOf(f, id, n, 0)
  <2>1. first[CompactedSlot][t] # {}
    <3>1. CASE j \in first[CompactedSlot][t]
      BY <3>1
    <3>2. CASE j \notin first[CompactedSlot][t]
      <4>1. j = NonFinite
        BY <1>0, <3>2, AfterFaultAt
      <4> QED
        BY <1>0, <3>2, <4>1, AfterFaultMarks
    <3> QED
      BY <3>1, <3>2
  <2>2. Adding(t) # {}
    BY <1>1, <1>2, <2>1
  <2>3. j # NonFinite => j \in first[CompactedSlot][t]
    BY <1>0, AfterFaultAt
  <2> QED
    BY <1>1, <2>2, <2>3
<1> HIDE DEF first
<1>5. ASSUME NEW i \in next[SourceSlot][t]
      PROVE  Adding(t) # {} /\ (i = NonFinite => NonFinite \in raw[CompactedSlot][t])
  <2>1. PICK r \in Coordinates : /\ r.slot = SourceSlot
                                 /\ \E x \in r.reads : \E j \in raw[x.slot][x.sign * t] :
                                      i = Moved(j, r.raise - x.rate)
    BY <1>0, <1>5, AfterWritten
  <2>2. PICK x \in r.reads : \E j \in raw[x.slot][x.sign * t] : i = Moved(j, r.raise - x.rate)
    BY <2>1
  <2>3. PICK j \in raw[x.slot][x.sign * t] : i = Moved(j, r.raise - x.rate)
    BY <2>2
  <2>4. x.slot = CompactedSlot /\ x.sign * t = t /\ i = Moved(j, 0 - 0)
    <3>1. x.slot = CompactedSlot /\ x.sign = 1 /\ x.rate = 0 /\ r.raise = 0
      BY SourceKernelParts
    <3> QED
      BY <2>3, <3>1, Mirrored
  <2>5. j \in raw[CompactedSlot][t]
    BY <2>3, <2>4
  <2>6. i = NonFinite => j = NonFinite
    <3> SUFFICES ASSUME j # NonFinite PROVE i # NonFinite
      OBVIOUS
    <3>1. PICK f \in InputFields, n \in Reach(t) : j = InputOf(f, id, n, 0)
      BY <1>4, <2>5
    <3>2. i = InputOf(f, id, n, 0) /\ 0 \in Int
      BY <2>4, <3>1, MovedNowhere
    <3> QED
      BY <3>2, MovedInput
  <2> QED
    BY <1>4, <2>5, <2>6
<1> SUFFICES ASSUME NonFinite \in there[SourceSlot][t]
             PROVE  fault.slot \in LastNumbers /\ fault.mode = t /\ Adding(t) # {}
  BY DEF OnlyLast
<1>6. CASE NonFinite \in next[SourceSlot][t]
  BY <1>0, <1>3, <1>5, <1>6
<1>7. CASE NonFinite \notin next[SourceSlot][t]
  <2>1. fault.slot = SourceSlot /\ fault.mode = t /\ next[SourceSlot][t] # {}
    BY <1>0, <1>7, AfterFaultMarks
  <2> QED
    BY <1>0, <1>5, <2>1
<1> QED
  BY <1>6, <1>7

\* What K has brought to a target goes into its source.
LEMMA SourceCarries ==
  ASSUME NEW memory, DOMAIN memory = LiveSlots, NEW fault, NEW id,
         NEW raw, raw = AfterFault(memory, Compacted, fault), DOMAIN raw = LiveSlots,
         NEW there, there = AfterFault(raw, Coordinates, fault),
         CarriesSum(memory, <<"projected", Value("K", 0)>>, id)
  PROVE  CarriesSum(there, SourceSlot, id)
<1> SUFFICES ASSUME NEW t \in Targets, NEW p \in Adding(t) PROVE HOf(id, p) \in there[SourceSlot][t]
  BY DEF CarriesSum
<1> DEFINE h == HOf(id, p)
           x == Own("projected", Value("K", 0))
           r == To("source", Value("OverR7", 0), RegularReads)
           y == Own("source", Value("OverR7", 0))
           o == To("source", Value("Forcing", 0), {Own("source", Value("OverR7", 0))})
<1>1. t \in Modes /\ 1 * t = t
  BY RegistryAssumption, Mirrored
<1>2. Moved(h, 0 - 0) = h
  <2>1. "H" \in InputFields /\ 0 \in Int
    BY DEF InputFields, ReconstructionFields
  <2> QED
    BY <2>1, MovedNowhere DEF HOf
<1>3. /\ r \in Compacted /\ r.slot = CompactedSlot /\ r.raise = 0 /\ x \in r.reads
      /\ x.slot = <<"projected", Value("K", 0)>> /\ x.sign = 1 /\ x.rate = 0
  BY SourceKernelParts DEF To, Own, RegularReads, CompactedSlot
<1>4. /\ o \in Coordinates /\ o.slot = SourceSlot /\ o.raise = 0 /\ y \in o.reads
      /\ y.slot = CompactedSlot /\ y.sign = 1 /\ y.rate = 0
  BY DEF Coordinates, To, Own, SourceSlot, CompactedSlot
<1>5. CompactedSlot \in LiveSlots /\ SourceSlot \in LiveSlots
  BY SourcePlacesAre
<1>6. h \in memory[x.slot][t]
  BY <1>3 DEF CarriesSum
<1> HIDE DEF h, x, r, y, o
<1>7. h \in raw[CompactedSlot][t]
  <2>1. h \in memory[x.slot][x.sign * t]
    BY <1>1, <1>3, <1>6
  <2>2. Moved(h, r.raise - x.rate) \in raw[r.slot][t]
    BY <1>1, <1>3, <1>5, <2>1, AfterFaultHas
  <2> QED
    BY <1>2, <1>3, <2>2
<1>8. h \in there[SourceSlot][t]
  <2>1. h \in raw[y.slot][y.sign * t]
    BY <1>1, <1>4, <1>7
  <2>2. Moved(h, o.raise - y.rate) \in there[o.slot][t]
    BY <1>1, <1>4, <1>5, <2>1, AfterFaultHas
  <2> QED
    BY <1>2, <1>4, <2>2
<1> QED
  BY <1>8 DEF h

LEMMA OuterSourceDone ==
  ASSUME NEW memory, NEW known, NEW id, NEW more \in Extra, Knows(memory, known, id, 0, more),
         OuterOutputs \subseteq known, FiniteOutputs(memory), Clean(memory),
         NEW fault, Spared(fault, more), NEW out, out = OuterSource(memory, fault)
  PROVE  SourceDone(out, memory, known, id, more, fault)
<1> DEFINE raw == AfterFault(memory, Compacted, fault)
           there == AfterFault(raw, Coordinates, fault)
           K1 == Grown(known, Compacted)
           K2 == Grown(K1, Coordinates)
<1>0. Targets \subseteq Modes /\ DOMAIN memory = LiveSlots /\ known \subseteq LiveSlots
      /\ Within(memory, known, Fresh(id, 0, more))
  BY RegistryAssumption DEF Knows
<1>1. SourcePlaces \subseteq LiveSlots /\ \A s \in LiveSlots : s[1] = "source" <=> s \in SourcePlaces
  <2>1. \A s \in LiveSlots : s[1] = "source" => s \in SourcePlaces
    BY ViewSlots, LiveOrders DEF SourcePlaces
  <2> QED
    BY <2>1, SourcePlacesAre
<1>2. out = [s \in DOMAIN memory |->
               IF s[1] # "source" THEN memory[s]
               ELSE [m \in Modes |-> IF m \in Targets THEN there[s][m] ELSE memory[s][m]]]
  BY DEF OuterSource
<1>3. Fits(Compacted, known, 0) /\ Fits(Coordinates, K1, 0)
  BY SourceFits
<1>4. K2 = known \cup SourcePlaces
  <2>1. K2 = known \cup (Written(Compacted) \cup Written(Coordinates))
    BY DEF Grown
  <2> QED
    BY <2>1, SourceKernelParts, SourcePlacesAre
<1> HIDE DEF K1, K2, raw, there
<1>5. Knows(raw, K1, id, 0, more)
  BY <1>3, KnowsMore DEF raw, K1
<1>6. Knows(there, K2, id, 0, more)
  BY <1>3, <1>5, KnowsMore DEF there, K2
<1>7. DOMAIN raw = LiveSlots /\ DOMAIN there = LiveSlots
  BY <1>5, <1>6 DEF Knows
<1>8. /\ DOMAIN out = LiveSlots
      /\ \A s \in LiveSlots : s \notin SourcePlaces => out[s] = memory[s]
      /\ \A s \in SourcePlaces, t \in Targets : out[s][t] = there[s][t]
      /\ \A s \in SourcePlaces, m \in Modes : m \notin Targets => out[s][m] = memory[s][m]
  BY <1>0, <1>1, <1>2
<1>9. Clean(out)
  BY <1>1, <1>8 DEF Clean, TargetViews
<1>10. Leaves(out, memory, {"source"})
  BY <1>1, <1>8 DEF Leaves
<1>11. SourceSlot \in SourcePlaces
  BY SourcePlacesAre
<1>12. FiniteSource(out, fault)
  <2> SUFFICES ASSUME NEW t \in Targets PROVE OnlyLast(out, SourceSlot, t, fault)
    BY DEF FiniteSource
  <2>1. OnlyLast(there, SourceSlot, t, fault)
    BY <1>0, <1>7, SourceMarks DEF raw, there
  <2>2. out[SourceSlot][t] = there[SourceSlot][t]
    BY <1>8, <1>11
  <2> QED
    BY <2>1, <2>2 DEF OnlyLast
<1>13. ASSUME NEW s \in known \cup SourcePlaces, NEW m \in Modes
       PROVE  out[s][m] \subseteq Fresh(id, 0, more)[s][m]
  <2>1. s \in LiveSlots
    BY <1>0, <1>1
  <2>2. CASE s \notin SourcePlaces
    BY <1>0, <1>8, <2>1, <2>2 DEF Within
  <2>3. CASE s \in SourcePlaces /\ m \notin Targets
    <3>1. out[s][m] = {}
      BY <1>1, <1>9, <2>1, <2>3 DEF Clean, TargetViews
    <3> QED
      BY <3>1
  <2>4. CASE s \in SourcePlaces /\ m \in Targets
    <3>1. there[s][m] \subseteq Fresh(id, 0, more)[s][m]
      BY <1>4, <1>6 DEF Knows, Within
    <3> QED
      BY <1>8, <2>4, <3>1
  <2> QED
    BY <2>2, <2>3, <2>4
<1>14. Knows(out, known \cup SourcePlaces, id, 0, more)
  BY <1>0, <1>1, <1>8, <1>13 DEF Knows, Within
<1>15. ASSUME CarriesSum(memory, <<"projected", Value("K", 0)>>, id)
       PROVE  CarriesSum(out, SourceSlot, id)
  <2>1. CarriesSum(there, SourceSlot, id)
    BY <1>0, <1>7, <1>15, SourceCarries DEF raw, there
  <2> QED
    BY <1>8, <1>11, <2>1 DEF CarriesSum
<1> QED
  BY <1>9, <1>10, <1>12, <1>14, <1>15 DEF SourceDone

LEMMA ExposedPlaces ==
  /\ Exposed \subseteq LiveSlots /\ ForcingSlot \in LiveSlots /\ ForcingSlot \notin Exposed
  /\ SourceSlot \in SourcePlaces /\ SourcePlaces \subseteq LiveSlots
  /\ \A s \in Exposed : s[1] \in TargetViews
<1>1. Exposed \subseteq LiveSlots
  BY DEF Exposed, LiveSlots, SourceSlots
<1>2. ForcingSlot \in LiveSlots
  BY DEF ForcingSlot, LiveSlots, SourceSlots
<1>3. ForcingSlot \notin Exposed
  BY DEF Exposed, ForcingSlot
<1>4. Value("Forcing", 0) \in SourceQuantities
  BY InAll DEF SourceQuantities, Value
<1>5. SourceSlot \in SourcePlaces
  BY <1>4 DEF SourceSlot, SourcePlaces
<1>6. SourcePlaces \subseteq LiveSlots
  BY DEF SourcePlaces, LiveSlots, SourceSlots
<1>7. \A s \in Exposed : s[1] \in TargetViews
  BY DEF Exposed, TargetViews
<1> QED
  BY <1>1, <1>2, <1>3, <1>5, <1>6, <1>7

LEMMA ForcingFresh ==
  ASSUME NEW id, NEW more, NEW m \in Modes
  PROVE  Fresh(id, 0, more)[ForcingSlot][m] = Fresh(id, 0, more)[SourceSlot][m]
<1> DEFINE a == ForcingSlot
           b == SourceSlot
<1>1. a \in LiveSlots /\ b \in LiveSlots
  BY ExposedPlaces
<1>2. a[1] \in SummedViews /\ b[1] \in SummedViews /\ a[2] = b[2]
      /\ a[1] # "curvatureScratch" /\ b[1] # "curvatureScratch"
  BY DEF SummedViews, ForcingSlot, SourceSlot
<1> HIDE DEF a, b
<1>3. RateOf(a, 0) = RateOf(b, 0) /\ ModesAt(a[1], m) = ModesAt(b[1], m)
  BY <1>2 DEF RateOf, ModesAt
<1>4. Fresh(id, 0, more)[a][m] = Fresh(id, 0, more)[b][m]
  BY <1>1, <1>3 DEF Fresh, FreshAt
<1> QED
  BY <1>4 DEF a, b

LEMMA ClosedOuterDone ==
  ASSUME NEW memory, NEW known, NEW id, NEW more, Knows(memory, known, id, 0, more),
         SourcePlaces \subseteq known, Clean(memory), NEW fault, FiniteSource(memory, fault),
         NEW ready \in BOOLEAN, NEW out, out = ClosedOuter(memory, ready)
  PROVE  ClosedDone(out, memory, ready, known, id, more, fault)
<1> DEFINE clear == IF ready THEN memory ELSE Clear(memory, Exposed)
           column == [m \in Modes |->
             IF ready /\ m \in Targets THEN clear[SourceSlot][m] ELSE {}]
<1>0. /\ DOMAIN memory = LiveSlots /\ known \subseteq LiveSlots /\ Targets \subseteq Modes
      /\ Within(memory, known, Fresh(id, 0, more))
  BY RegistryAssumption DEF Knows
<1>1. out = [clear EXCEPT ![ForcingSlot] = column]
  BY DEF ClosedOuter, ForcingSlot, SourceSlot
<1>2. \A m \in Modes : column[m] = IF ready /\ m \in Targets THEN clear[SourceSlot][m] ELSE {}
  OBVIOUS
<1>3. /\ DOMAIN clear = LiveSlots
      /\ \A s \in LiveSlots : clear[s] = IF ~ready /\ s \in Exposed THEN Zero ELSE memory[s]
  BY <1>0 DEF Clear
<1> HIDE DEF clear, column
<1>4. /\ DOMAIN out = LiveSlots /\ out[ForcingSlot] = column
      /\ \A s \in LiveSlots : s # ForcingSlot => out[s] = clear[s]
  BY <1>1, <1>3, ExposedPlaces
<1>5. \A m \in Modes : column[m] = IF ready /\ m \in Targets THEN memory[SourceSlot][m] ELSE {}
  <2>1. SourceSlot \in LiveSlots
    BY ExposedPlaces
  <2> QED
    BY <1>2, <1>3, <2>1
<1>6. \A m \in Modes : Zero[m] = {}
  BY DEF Zero
<1>7. ASSUME NEW s \in known \cup {ForcingSlot}, NEW m \in Modes
      PROVE  out[s][m] \subseteq Fresh(id, 0, more)[s][m]
  <2>1. CASE s = ForcingSlot
    <3>1. column[m] \subseteq memory[SourceSlot][m]
      BY <1>5
    <3>2. SourceSlot \in known
      BY ExposedPlaces
    <3>3. memory[SourceSlot][m] \subseteq Fresh(id, 0, more)[SourceSlot][m]
      BY <1>0, <3>2 DEF Within
    <3> QED
      BY <1>4, <2>1, <3>1, <3>3, ForcingFresh
  <2>2. CASE s # ForcingSlot
    <3>1. s \in known /\ s \in LiveSlots
      BY <1>0, <2>2
    <3>2. memory[s][m] \subseteq Fresh(id, 0, more)[s][m]
      BY <1>0, <3>1 DEF Within
    <3>3. out[s] = IF ~ready /\ s \in Exposed THEN Zero ELSE memory[s]
      BY <1>3, <1>4, <2>2, <3>1
    <3> QED
      BY <1>6, <3>2, <3>3
  <2> QED
    BY <2>1, <2>2
<1>8. Knows(out, known \cup {ForcingSlot}, id, 0, more)
  BY <1>0, <1>4, <1>7, ExposedPlaces DEF Knows, Within
<1>9. Leaves(out, memory, ClosedViews)
  <2> SUFFICES ASSUME NEW x \in LiveSlots, x[1] \notin ClosedViews PROVE out[x] = memory[x]
    BY DEF Leaves
  <2>1. x # ForcingSlot
    BY DEF ClosedViews, ForcingSlot
  <2>2. x \notin Exposed
    BY ExposedPlaces DEF ClosedViews, TargetViews
  <2> QED
    BY <1>3, <1>4, <2>1, <2>2
<1>10. Clean(out)
  <2> SUFFICES ASSUME NEW s \in LiveSlots, NEW m \in Modes, s[1] \in TargetViews, m \notin Targets
               PROVE  out[s][m] = {}
    BY DEF Clean
  <2>1. s # ForcingSlot
    BY DEF TargetViews, ForcingSlot
  <2>2. memory[s][m] = {}
    BY DEF Clean
  <2> QED
    BY <1>3, <1>4, <1>6, <2>1, <2>2
<1>11. FiniteForcing(out, fault)
  <2> SUFFICES ASSUME NEW m \in Modes, NonFinite \in column[m]
               PROVE  fault.slot \in LastNumbers /\ fault.mode = m /\ Adding(m) # {}
    BY <1>4 DEF FiniteForcing, OnlyLast
  <2> QED
    BY <1>5 DEF FiniteSource, OnlyLast
<1>12. ASSUME ready, CarriesSum(memory, SourceSlot, id) PROVE CarriesSum(out, ForcingSlot, id)
  BY <1>0, <1>4, <1>5, <1>12 DEF CarriesSum
<1> QED
  BY <1>8, <1>9, <1>10, <1>11, <1>12 DEF ClosedDone

-----------------------------------------------------------------------------
(* The whole stage of the source *)

LEMMA SumColumns ==
  ASSUME NEW memory, DOMAIN memory = LiveSlots
  PROVE  HasColumns(PairSums(memory), "sums")
  BY DEF PairSums, HasColumns

LEMMA SourceStageSteps ==
  ASSUME NEW d, NEW curvature, NEW derivatives, NEW late, NEW g, NEW fault
  PROVE  \E taken, pairs, summed, outer, checked :
           SourceSteps(d, SourceStage(d, curvature, derivatives, late, g, fault),
                       curvature, derivatives, late, g, fault, taken, pairs, summed, outer, checked)
<1> DEFINE taken == Normalized(d, curvature, derivatives, g)
           pairs == PairSums(taken.mem)
           summed == Overflowed(pairs, {"sums"} \X Sums, fault)
           outer == OuterStage([d EXCEPT !.mem = summed], g, fault)
           checked == NormalizedOuter(outer, taken.ready, late, g)
<1>1. SourceSteps(d, SourceStage(d, curvature, derivatives, late, g, fault),
                  curvature, derivatives, late, g, fault, taken, pairs, summed, outer, checked)
  BY DEF SourceSteps, SourceStage
<1> HIDE DEF taken, pairs, summed, outer, checked
<1> QED
  BY <1>1

LEMMA SourceStageDone ==
  ASSUME NEW d, Shape(d), NEW curvature \in {"curvature", "givenCurvature"},
         NEW derivatives \in {"derivatives", "givenDerivatives"},
         NEW known, Composable(known, curvature, derivatives),
         NEW id, NEW more \in Extra, Knows(d.mem, known, id, 0, more), Clean(d.mem),
         NEW late, NEW g, NEW fault, Spared(fault, more),
         NEW out, out = SourceStage(d, curvature, derivatives, late, g, fault)
  PROVE  SourceFinished(d, out, curvature, derivatives, g, known, id, more, fault)
<1>1. PICK taken, pairs, summed, outer, checked :
        SourceSteps(d, out, curvature, derivatives, late, g, fault, taken, pairs, summed, outer, checked)
  BY SourceStageSteps
<1> DEFINE K0 == known \cup SourceInputs
           K1 == K0 \cup SumPlaces
           K2 == OuterMade(K1)
           K3 == K2 \cup SourcePlaces
           given == [d EXCEPT !.mem = summed]
           source == OuterSource(checked.mem, fault)
           closed == ClosedOuter(source, checked.ready)
           sumK == <<"sums", Value("K", 0)>>
           projK == <<"projected", Value("K", 0)>>
<1>2. /\ taken = Normalized(d, curvature, derivatives, g) /\ pairs = PairSums(taken.mem)
      /\ summed = Overflowed(pairs, {"sums"} \X Sums, fault) /\ outer = OuterStage(given, g, fault)
      /\ checked = NormalizedOuter(outer, taken.ready, late, g)
      /\ out = [outer EXCEPT !.mem = closed, !.ready = checked.ready]
  BY <1>1 DEF SourceSteps
<1>3. NormalizedDone(d, taken, curvature, derivatives, g, known, id, more)
  BY <1>2, NormalizedParts
<1>4. /\ Knows(taken.mem, K0, id, 0, more)
      /\ Leaves(taken.mem, d.mem, {"primitive", "jk", "q"})
      /\ taken.ready \in BOOLEAN
      /\ taken.ready <=> g # 0 /\ \A k \in SourceKeys(curvature, derivatives) : Bears(d, k, g)
      /\ taken.ready /\ Carries(d.mem, "primitive", id) => Carries(taken.mem, "primitive", id)
  BY <1>3 DEF NormalizedDone
<1>5. Clean(taken.mem) /\ DOMAIN taken.mem = LiveSlots
  <2>1. \A s \in LiveSlots : s[1] \in TargetViews => taken.mem[s] = d.mem[s]
    BY <1>4 DEF Leaves, TargetViews
  <2> QED
    BY <1>4, <2>1 DEF Clean, Knows
<1>6. SourceInputs \subseteq K0
  OBVIOUS
<1> HIDE DEF K0
<1>7. /\ Knows(pairs, K1, id, 0, more) /\ Clean(pairs)
      /\ Leaves(pairs, taken.mem, {"sums", "families"})
      /\ Carries(taken.mem, "primitive", id) => CarriesSum(pairs, sumK, id)
  BY <1>2, <1>4, <1>5, <1>6, SumsDone
<1>8. HasColumns(pairs, "sums")
  BY <1>2, <1>5, SumColumns
<1>9. Lies("sums", Sums, K1)
  BY DEF Lies, SumPlaces
<1> HIDE DEF K1
<1>10. /\ Knows(summed, K1, id, 0, more) /\ Clean(summed) /\ Leaves(summed, pairs, {"sums"})
       /\ \A s \in LiveSlots : CarriesSum(pairs, s, id) => CarriesSum(summed, s, id)
  <2> DEFINE slots == {"sums"} \X Sums
  <2>1. slots \subseteq LiveSlots /\ \A s \in slots : s[1] = "sums"
    BY DEF LiveSlots, SourceSlots
  <2>2. summed = Overflowed(pairs, slots, fault)
    BY <1>2
  <2> HIDE DEF slots, sumK
  <2>3. OverflowKeeps(summed, pairs, "sums", K1, id, more)
    BY <1>7, <1>8, <2>1, <2>2, OverflowedDone
  <2> QED
    BY <1>7, <2>3 DEF OverflowKeeps
<1>11. /\ Shape(given) /\ given.mem = summed /\ given.stamp = d.stamp
  BY <1>10, ShapeWithMem DEF Knows
<1> HIDE DEF given
<1>12. OuterDone(given, outer, g, K1, id, more)
  BY <1>2, <1>9, <1>10, <1>11, OuterStageDone
<1>13. /\ Shape(outer) /\ Knows(outer.mem, K2, id, 0, more)
       /\ Leaves(outer.mem, summed, {"projected", "outer"})
       /\ \A k \in StampKeys : k \notin OuterKeys => outer.stamp[k] = d.stamp[k]
       /\ FiniteOutputs(outer.mem)
  BY <1>11, <1>12 DEF OuterDone
<1>14. PICK valid : OuterValid(given, outer, g, id, more, valid)
  BY <1>12 DEF OuterDone
<1>15. OuterOutputs \subseteq K2
  BY OuterPlaces DEF OuterMade
<1> HIDE DEF K2
<1>16. CheckedDone(outer, checked, taken.ready, g, K2, id, more)
  BY <1>2, <1>4, <1>13, NormalizedOuterDone
<1>17. /\ Knows(checked.mem, K2, id, 0, more)
       /\ Leaves(checked.mem, outer.mem, {"projected", "outer"})
       /\ FiniteOutputs(checked.mem) /\ checked.ready \in BOOLEAN
       /\ checked.ready <=> taken.ready /\ \A k \in OuterKeys : Bears(outer, k, g)
       /\ checked.ready => \A s \in LiveSlots, m \in Modes : checked.mem[s][m] = outer.mem[s][m]
  BY <1>16 DEF CheckedDone
<1>18. Clean(checked.mem)
  <2>1. \A s \in LiveSlots : s[1] \in TargetViews => checked.mem[s] = outer.mem[s]
    BY <1>17 DEF Leaves, TargetViews
  <2>2. \A s \in LiveSlots : s[1] \in TargetViews => outer.mem[s] = summed[s]
    BY <1>13 DEF Leaves, TargetViews
  <2> QED
    BY <1>10, <2>1, <2>2 DEF Clean
<1>19. SourceDone(source, checked.mem, K2, id, more, fault)
  BY <1>15, <1>17, <1>18, OuterSourceDone
<1>20. /\ Knows(source, K3, id, 0, more) /\ Leaves(source, checked.mem, {"source"})
       /\ FiniteSource(source, fault) /\ Clean(source)
       /\ CarriesSum(checked.mem, projK, id) => CarriesSum(source, SourceSlot, id)
  BY <1>18, <1>19 DEF SourceDone
<1>21. SourcePlaces \subseteq K3
  OBVIOUS
<1> HIDE DEF K3, source
<1>22. ClosedDone(closed, source, checked.ready, K3, id, more, fault)
  BY <1>17, <1>20, <1>21, ClosedOuterDone
<1>23. /\ Knows(closed, K3 \cup {ForcingSlot}, id, 0, more) /\ Leaves(closed, source, ClosedViews)
       /\ Clean(closed) /\ FiniteForcing(closed, fault)
       /\ checked.ready /\ CarriesSum(source, SourceSlot, id) => CarriesSum(closed, ForcingSlot, id)
  BY <1>22 DEF ClosedDone
<1> HIDE DEF closed
<1>24. Shape(out) /\ out.mem = closed /\ out.stamp = outer.stamp /\ out.ready = checked.ready
  BY <1>2, <1>13, <1>23 DEF Shape, Knows
<1>25. Knows(out.mem, SourceMade(known), id, 0, more)
  <2>1. K3 \cup {ForcingSlot} = SourceMade(known)
    BY DEF K3, K2, K1, K0, SourceMade
  <2> QED
    BY <1>23, <1>24, <2>1
<1>26. Leaves(out.mem, d.mem, SourceViews)
  <2> SUFFICES ASSUME NEW x \in LiveSlots, x[1] \notin SourceViews PROVE out.mem[x] = d.mem[x]
    BY DEF Leaves
  <2>1. x[1] \notin {"primitive", "jk", "q"} /\ x[1] \notin {"sums", "families"}
        /\ x[1] \notin {"sums"} /\ x[1] \notin {"projected", "outer"} /\ x[1] \notin {"source"}
        /\ x[1] \notin ClosedViews
    BY DEF SourceViews, ClosedViews
  <2>2. closed[x] = source[x] /\ source[x] = checked.mem[x] /\ checked.mem[x] = outer.mem[x]
    BY <1>17, <1>20, <1>23, <2>1 DEF Leaves
  <2>3. outer.mem[x] = summed[x] /\ summed[x] = pairs[x] /\ pairs[x] = taken.mem[x]
        /\ taken.mem[x] = d.mem[x]
    BY <1>4, <1>7, <1>10, <1>13, <2>1 DEF Leaves
  <2> QED
    BY <1>24, <2>2, <2>3
<1>27. ASSUME out.ready, Carries(d.mem, "primitive", id) PROVE CarriesSum(out.mem, ForcingSlot, id)
  <2>1. taken.ready /\ checked.ready /\ g # 0 /\ \A k \in OuterKeys : Bears(outer, k, g)
    BY <1>4, <1>17, <1>24, <1>27
  <2>2. \A m \in Modes : valid[m]
    <3> SUFFICES ASSUME NEW m \in Modes PROVE valid[m]
      OBVIOUS
    <3>1. <<"outer", 0>> \in OuterKeys
      BY DEF OuterKeys
    <3>2. outer.stamp[<<"outer", 0>>][m] = g
      BY <2>1, <3>1 DEF Bears
    <3>3. outer.stamp[<<"outer", 0>>][m] = IF valid[m] THEN g ELSE 0
      BY <1>14, <3>1 DEF OuterValid
    <3> QED
      BY <2>1, <3>2, <3>3
  <2>3. CarriesSum(summed, sumK, id)
    <3>1. sumK \in LiveSlots
      BY SumQuantities DEF SumPlaces
    <3> HIDE DEF sumK
    <3> QED
      BY <1>4, <1>7, <1>10, <1>27, <2>1, <3>1
  <2>4. CarriesSum(outer.mem, projK, id)
    BY <1>11, <1>14, <2>2, <2>3 DEF OuterValid
  <2>5. CarriesSum(checked.mem, projK, id)
    <3>1. projK \in LiveSlots /\ Targets \subseteq Modes
      BY OuterPlaces, RegistryAssumption
    <3> HIDE DEF projK
    <3> QED
      BY <1>17, <2>1, <2>4, <3>1 DEF CarriesSum
  <2> QED
    BY <1>20, <1>23, <1>24, <2>1, <2>5
<1>28. ASSUME more = {}, g # 0, \A k \in SourceKeys(curvature, derivatives) : Bears(d, k, g)
       PROVE  out.ready
  <2>1. \A m \in Modes : valid[m]
    BY <1>14, <1>28 DEF OuterValid
  <2>2. \A k \in OuterKeys : Bears(outer, k, g)
    BY <1>14, <2>1 DEF OuterValid, Bears
  <2> QED
    BY <1>4, <1>17, <1>24, <1>28, <2>2
<1>29. out.ready => g # 0 /\ \A k \in SourceKeys(curvature, derivatives) : Bears(d, k, g)
  BY <1>4, <1>17, <1>24
<1> QED
  BY <1>13, <1>17, <1>23, <1>24, <1>25, <1>26, <1>27, <1>28, <1>29 DEF SourceFinished

-----------------------------------------------------------------------------
(* An active stage *)

LEMMA KnowsFewer ==
  ASSUME NEW memory, NEW known, NEW id, NEW level, NEW more, Knows(memory, known, id, level, more),
         NEW fewer, fewer \subseteq known
  PROVE  Knows(memory, fewer, id, level, more)
  BY DEF Knows, Within

LEMMA KnowsLeft ==
  ASSUME NEW memory, NEW known, NEW id, NEW level, NEW more, Knows(memory, known, id, level, more),
         NEW out, DOMAIN out = LiveSlots, NEW views, Leaves(out, memory, views),
         \A s \in known : s[1] \notin views
  PROVE  Knows(out, known, id, level, more)
<1>1. known \subseteq LiveSlots
  BY DEF Knows
<1>2. \A s \in known : out[s] = memory[s]
  BY <1>1 DEF Leaves
<1> QED
  BY <1>1, <1>2 DEF Knows, Within

LEMMA CleanLeft ==
  ASSUME NEW memory, Clean(memory), NEW out, NEW views, Leaves(out, memory, views),
         views \cap TargetViews = {}
  PROVE  Clean(out)
<1>1. \A s \in LiveSlots : s[1] \in TargetViews => out[s] = memory[s]
  BY DEF Leaves
<1> QED
  BY <1>1 DEF Clean

LEMMA FiniteLeft ==
  ASSUME NEW memory, NEW out, NEW views, Leaves(out, memory, views), NEW view, view \notin views,
         NEW Q, FinitePlaces(view, Q)
  PROVE  FiniteIn(out, view, Q) <=> FiniteIn(memory, view, Q)
<1>1. \A q \in Q : out[<<view, q>>] = memory[<<view, q>>]
  <2> SUFFICES ASSUME NEW q \in Q PROVE out[<<view, q>>] = memory[<<view, q>>]
    OBVIOUS
  <2> DEFINE s == <<view, q>>
  <2>1. s \in LiveSlots /\ s[1] = view
    BY DEF FinitePlaces
  <2> HIDE DEF s
  <2>2. out[s] = memory[s]
    BY <2>1 DEF Leaves
  <2> QED
    BY <2>2 DEF s
<1> QED
  BY <1>1 DEF FiniteIn

LEMMA EntryPlaces ==
  ASSUME NEW metric, NEW curvature, NEW derivatives, EntryViews(metric, curvature, derivatives)
  PROVE  /\ FinitePlaces(metric, All("value", ReconstructionFields, 0 .. 2))
         /\ FinitePlaces(curvature, CurvatureQuantities)
         /\ FinitePlaces(derivatives, DerivativeQuantities)
<1>1. FinitePlaces("routeb", All("value", ReconstructionFields, 0 .. 2))
  BY DEF FinitePlaces, LiveSlots, PrimitiveSlots
<1>2. FinitePlaces("curvature", CurvatureQuantities)
  BY DEF FinitePlaces, LiveSlots, CurvatureSlots
<1>3. FinitePlaces("derivatives", DerivativeQuantities)
  BY DEF FinitePlaces, LiveSlots, CurvatureSlots
<1>4. /\ FinitePlaces("givenMetric", All("value", ReconstructionFields, 0 .. 2))
      /\ FinitePlaces("givenCurvature", CurvatureQuantities)
      /\ FinitePlaces("givenDerivatives", DerivativeQuantities)
  BY DEF FinitePlaces, LiveSlots, GivenSlots
<1> QED
  BY <1>1, <1>2, <1>3, <1>4 DEF EntryViews

LEMMA PrimitiveReadyLeft ==
  ASSUME NEW metric, NEW curvature, NEW derivatives, EntryViews(metric, curvature, derivatives),
         NEW d, NEW out, out.stamp = d.stamp, Leaves(out.mem, d.mem, {"linear"}), NEW g
  PROVE  PrimitiveReady(out, metric, curvature, derivatives, g)
           <=> PrimitiveReady(d, metric, curvature, derivatives, g)
<1>1. metric \notin {"linear"} /\ curvature \notin {"linear"} /\ derivatives \notin {"linear"}
  BY DEF EntryViews
<1>2. FiniteIn(out.mem, metric, All("value", ReconstructionFields, 0 .. 2))
        <=> FiniteIn(d.mem, metric, All("value", ReconstructionFields, 0 .. 2))
  BY <1>1, EntryPlaces, FiniteLeft
<1>3. FiniteIn(out.mem, curvature, CurvatureQuantities) <=> FiniteIn(d.mem, curvature, CurvatureQuantities)
  BY <1>1, EntryPlaces, FiniteLeft
<1>4. FiniteIn(out.mem, derivatives, DerivativeQuantities)
        <=> FiniteIn(d.mem, derivatives, DerivativeQuantities)
  BY <1>1, EntryPlaces, FiniteLeft
<1>5. \A k, n : Bears(out, k, n) <=> Bears(d, k, n)
  BY DEF Bears
<1> QED
  BY <1>2, <1>3, <1>4, <1>5 DEF PrimitiveReady

LEMMA MadeComposable ==
  ASSUME NEW known, NEW metric, NEW curvature, NEW derivatives, Ready(known, metric, curvature, derivatives)
  PROVE  Composable(PrimitiveMade(known), curvature, derivatives)
<1>1. CurvaturePrimitives \subseteq CurvatureQuantities
  BY DEF CurvaturePrimitives, CurvatureQuantities, All
<1>2. {curvature} \X CurvatureQuantities \subseteq known /\ {derivatives} \X DerivativeQuantities \subseteq known
  BY DEF Ready, Lies
<1>3. known \subseteq PrimitiveMade(known) /\ PrimitiveMade({}) \subseteq PrimitiveMade(known)
  BY DEF PrimitiveMade
<1>4. {curvature} \X CurvaturePrimitives \subseteq PrimitiveMade(known)
  BY <1>1, <1>2, <1>3
<1>5. {derivatives} \X TransportOwned \subseteq PrimitiveMade(known)
  BY <1>2, <1>3 DEF TransportOwned
<1> QED
  BY <1>3, <1>4, <1>5 DEF Composable

LEMMA LinearLeft ==
  ASSUME NEW memory, NEW out, NEW views, Leaves(out, memory, views), "linear" \notin views, NEW id,
         LinearOf(memory, id)
  PROVE  LinearOf(out, id)
<1> DEFINE s == <<"linear", Value("zPlus", 0)>>
<1>1. s \in LiveSlots /\ s[1] \notin views
  BY LinearPlaces
<1>2. out[s] = memory[s]
  BY <1>1 DEF Leaves
<1> QED
  BY <1>2 DEF LinearOf

LEMMA HPlaces ==
  /\ HSlot("routeb") \in LiveSlots /\ HSlot("givenMetric") \in LiveSlots
  /\ HSlot("tower") \in LiveSlots
<1>1. Value("H", 0) \in MetricQuantities
  BY InAll DEF MetricQuantities, Value, ReconstructionFields
<1> QED
  BY <1>1, MetricPlaces DEF HSlot

LEMMA CarriesLeft ==
  ASSUME NEW memory, NEW out, NEW views, Leaves(out, memory, views), NEW view, view \notin views,
         HSlot(view) \in LiveSlots, NEW id, Carries(memory, view, id)
  PROVE  Carries(out, view, id)
<1>1. out[HSlot(view)] = memory[HSlot(view)]
  BY DEF Leaves, HSlot
<1> QED
  BY <1>1 DEF Carries

LEMMA ActiveStageDone ==
  ASSUME NEW d, Shape(d), Clean(d.mem), NEW metric, NEW curvature, NEW derivatives,
         EntryViews(metric, curvature, derivatives),
         NEW known, Ready(known, metric, curvature, derivatives),
         NEW id, NEW more \in Extra, Knows(d.mem, known, id, 0, more),
         NEW late, NEW g, NEW fault, Spared(fault, more),
         NEW out, out = ActiveStage(d, metric, curvature, derivatives, late, g, fault)
  PROVE  ActiveDone(d, out, metric, curvature, derivatives, g, known, id, more, fault)
<1> DEFINE linear == LinearStage(d.mem, metric)
           a == [d EXCEPT !.mem = linear]
           ready == PrimitiveReady(a, metric, curvature, derivatives, g)
           b == PrimitiveStage(a, metric, curvature, derivatives, g, fault)
           made == PrimitiveMade(known)
           keys == SourceKeys(curvature, derivatives)
<1>0. /\ metric \in {"routeb", "givenMetric"} /\ metric \notin PrimitiveViews /\ metric # "linear"
      /\ curvature \in {"curvature", "givenCurvature"}
      /\ derivatives \in {"derivatives", "givenDerivatives"}
  BY DEF EntryViews, PrimitiveViews
<1>1. out = SourceStage(b, curvature, derivatives, late, g, fault)
  BY DEF ActiveStage
<1>2. LinearDone(linear, d.mem, metric, id)
  BY LinearStageDone DEF Shape
<1> HIDE DEF linear
<1>3. /\ DOMAIN linear = LiveSlots /\ Leaves(linear, d.mem, {"linear"})
      /\ Exact(d.mem, metric, id) => LinearOf(linear, id)
  BY <1>2 DEF LinearDone
<1>4. Shape(a) /\ a.mem = linear /\ a.stamp = d.stamp
  BY <1>3, ShapeWithMem
<1> HIDE DEF a
<1>5. ready <=> PrimitiveReady(d, metric, curvature, derivatives, g)
  <2>1. Leaves(a.mem, d.mem, {"linear"})
    BY <1>3, <1>4
  <2> QED
    BY <1>4, <2>1, PrimitiveReadyLeft
<1>6. Knows(a.mem, known, id, 0, more)
  <2>1. \A s \in known : s[1] \notin {"linear"}
    BY DEF Ready
  <2> QED
    BY <1>3, <1>4, <2>1, KnowsLeft
<1>7. Packable(known, metric, 0)
  BY DEF Ready
<1>8. PrimitiveDone(a, b, metric, ready, g, known, id, more)
  BY <1>0, <1>4, <1>6, <1>7, PrimitiveStageDone
<1> HIDE DEF b
<1>9. /\ Shape(b) /\ Knows(b.mem, made, id, 0, more) /\ Leaves(b.mem, a.mem, PrimitiveViews)
      /\ \A k \in StampKeys : k \notin PrimitiveKeys => b.stamp[k] = a.stamp[k]
      /\ \A k \in PrimitiveKeys : Bears(b, k, IF ready THEN g ELSE 0)
      /\ ready /\ Carries(a.mem, metric, id) => Carries(b.mem, "primitive", id)
  BY <1>8 DEF PrimitiveDone
<1>10. ready \in BOOLEAN
  BY DEF PrimitiveReady
<1>11. ready => g # 0 /\ Bears(a, <<curvature, 0>>, g) /\ Bears(a, <<derivatives, 0>>, g)
  BY DEF PrimitiveReady
<1> HIDE DEF ready
<1>12. Composable(made, curvature, derivatives)
  BY MadeComposable
<1> HIDE DEF made
<1>13. Clean(a.mem)
  <2>1. {"linear"} \cap TargetViews = {}
    BY DEF TargetViews
  <2> QED
    BY <1>3, <1>4, <2>1, CleanLeft
<1>14. Clean(b.mem)
  <2>1. PrimitiveViews \cap TargetViews = {}
    BY DEF TargetViews, PrimitiveViews
  <2> QED
    BY <1>9, <1>13, <2>1, CleanLeft
<1>15. SourceFinished(b, out, curvature, derivatives, g, made, id, more, fault)
  BY <1>0, <1>1, <1>9, <1>12, <1>14, SourceStageDone
<1>16. /\ Shape(out) /\ Knows(out.mem, SourceMade(made), id, 0, more) /\ Clean(out.mem)
       /\ Leaves(out.mem, b.mem, SourceViews)
       /\ \A k \in StampKeys : k \notin OuterKeys => out.stamp[k] = b.stamp[k]
       /\ FiniteForcing(out.mem, fault) /\ out.ready \in BOOLEAN
       /\ out.ready => g # 0 /\ \A k \in keys : Bears(b, k, g)
       /\ out.ready /\ Carries(b.mem, "primitive", id) => CarriesSum(out.mem, ForcingSlot, id)
       /\ more = {} /\ g # 0 /\ (\A k \in keys : Bears(b, k, g)) => out.ready
  BY <1>15 DEF SourceFinished
<1>17. /\ ~out.ready => Hidden(out.mem) /\ Unforced(out.mem, Modes)
       /\ Unforced(out.mem, Modes \ Targets)
  <2>1. DOMAIN b = {"mem", "stamp", "ready"} /\ DOMAIN b.mem = LiveSlots
    BY <1>9 DEF Shape
  <2>2. Exposed \subseteq DOMAIN b.mem /\ ForcingSlot \in DOMAIN b.mem
    BY <2>1, ExposedPlaces
  <2>3. StageCloses(b, out, curvature, derivatives, g)
    BY <1>1, <2>1, <2>2, SourceStageCloses
  <2> QED
    BY <2>3 DEF StageCloses
<1>18. out.ready => ready
  <2> SUFFICES ASSUME out.ready, ~ready PROVE FALSE
    BY <1>10
  <2>1. <<"primitive", 0>> \in keys /\ <<"primitive", 0>> \in PrimitiveKeys
    BY DEF SourceKeys, PrimitiveKeys
  <2>2. Bears(b, <<"primitive", 0>>, g) /\ Bears(b, <<"primitive", 0>>, 0) /\ g # 0
    BY <1>9, <1>16, <2>1
  <2>3. PICK m \in Modes : TRUE
    BY ModesAssumption
  <2>4. b.stamp[<<"primitive", 0>>][m] = g /\ b.stamp[<<"primitive", 0>>][m] = 0
    BY <2>2 DEF Bears
  <2> QED
    BY <2>2, <2>4
<1>19. more = {} /\ ready => out.ready
  <2> SUFFICES ASSUME more = {}, ready PROVE out.ready
    OBVIOUS
  <2>1. \A k \in PrimitiveKeys : Bears(b, k, g)
    BY <1>9
  <2>2. \A k \in {<<curvature, 0>>, <<derivatives, 0>>} : Bears(b, k, g)
    <3> SUFFICES ASSUME NEW k \in {<<curvature, 0>>, <<derivatives, 0>>} PROVE Bears(b, k, g)
      OBVIOUS
    <3>1. k \in StampKeys /\ k \notin PrimitiveKeys
      BY <1>0 DEF StampKeys, PrimitiveKeys
    <3>2. b.stamp[k] = a.stamp[k]
      BY <1>9, <3>1
    <3> QED
      BY <1>11, <3>2 DEF Bears
  <2>3. \A k \in keys : Bears(b, k, g)
    BY <2>1, <2>2 DEF SourceKeys, PrimitiveKeys
  <2> QED
    BY <1>11, <1>16, <2>3
<1>20. out.ready /\ Carries(d.mem, metric, id) => CarriesSum(out.mem, ForcingSlot, id)
  <2> SUFFICES ASSUME out.ready, Carries(d.mem, metric, id) PROVE CarriesSum(out.mem, ForcingSlot, id)
    OBVIOUS
  <2>1. HSlot(metric) \in LiveSlots /\ metric \notin {"linear"}
    BY <1>0, HPlaces
  <2>2. Carries(a.mem, metric, id)
    BY <1>3, <1>4, <2>1, CarriesLeft
  <2> QED
    BY <1>9, <1>16, <1>18, <2>2
<1>21. Exact(d.mem, metric, id) => LinearOf(out.mem, id)
  <2> SUFFICES ASSUME Exact(d.mem, metric, id) PROVE LinearOf(out.mem, id)
    OBVIOUS
  <2>1. LinearOf(a.mem, id)
    BY <1>3, <1>4
  <2>2. LinearOf(b.mem, id)
    <3>1. "linear" \notin PrimitiveViews
      BY DEF PrimitiveViews
    <3> QED
      BY <1>9, <2>1, <3>1, LinearLeft
  <2>3. "linear" \notin SourceViews
    BY DEF SourceViews
  <2> QED
    BY <1>16, <2>2, <2>3, LinearLeft
<1>22. Leaves(out.mem, d.mem, ActiveViews)
  <2> SUFFICES ASSUME NEW x \in LiveSlots, x[1] \notin ActiveViews PROVE out.mem[x] = d.mem[x]
    BY DEF Leaves
  <2>1. x[1] \notin {"linear"} /\ x[1] \notin PrimitiveViews /\ x[1] \notin SourceViews
    BY DEF ActiveViews
  <2>2. out.mem[x] = b.mem[x] /\ b.mem[x] = a.mem[x] /\ a.mem[x] = d.mem[x]
    BY <1>3, <1>4, <1>9, <1>16, <2>1 DEF Leaves
  <2> QED
    BY <2>2
<1>23. \A k \in StampKeys : k \notin PrimitiveKeys \cup OuterKeys => out.stamp[k] = d.stamp[k]
  BY <1>4, <1>9, <1>16
<1> QED
  BY <1>5, <1>16, <1>17, <1>18, <1>19, <1>20, <1>21, <1>22, <1>23 DEF ActiveDone, made

-----------------------------------------------------------------------------
(* The inputs of a stage *)

LEMMA TowerPacks ==
  /\ Level(TowerPlaces) /\ TowerPlaces \subseteq LiveSlots
  /\ \A l \in 0 .. 2 : Packable(TowerPlaces, "tower", l)
  /\ Lies("tower", MetricQuantities, TowerPlaces)
  /\ \A q \in All("value", ReconstructionFields, 0 .. 4) : <<"tower", q>> \in TowerPlaces
<1>1. \A q \in All("value", ReconstructionFields, 0 .. 4) : <<"tower", q>> \in TowerPlaces
  BY DEF TowerPlaces
<1>2. Level(TowerPlaces)
  BY DEF TowerPlaces, Level
<1>3. TowerPlaces \subseteq LiveSlots
  BY DEF TowerPlaces, LiveSlots, CurvatureSlots
<1>4. ASSUME NEW l \in 0 .. 2 PROVE Packable(TowerPlaces, "tower", l)
  <2> SUFFICES ASSUME NEW f \in ReconstructionFields, NEW k \in 0 .. 2
               PROVE  <<"tower", Quantity("value", f, l + k)>> \in TowerPlaces
    BY DEF Packable
  <2>1. l + k \in 0 .. 4
    OBVIOUS
  <2>2. Quantity("value", f, l + k) \in All("value", ReconstructionFields, 0 .. 4)
    BY <2>1, InAll
  <2> QED
    BY <1>1, <2>2
<1>5. MetricQuantities \subseteq All("value", ReconstructionFields, 0 .. 4)
  BY DEF MetricQuantities, All
<1>6. Lies("tower", MetricQuantities, TowerPlaces)
  BY <1>5 DEF Lies, TowerPlaces
<1> QED
  BY <1>1, <1>2, <1>3, <1>4, <1>6

LEMMA RouteBIsReady == Ready(RouteBPlaces, "routeb", "curvature", "derivatives")
<1>1. Packable(RouteBPlaces, "routeb", 0)
  <2> SUFFICES ASSUME NEW f \in ReconstructionFields, NEW k \in 0 .. 2
               PROVE  <<"routeb", Quantity("value", f, 0 + k)>> \in RouteBPlaces
    BY DEF Packable
  <2>1. 0 + k = k
    OBVIOUS
  <2>2. Quantity("value", f, 0 + k) \in MetricQuantities
    BY <2>1, InAll DEF MetricQuantities
  <2> QED
    BY <2>2 DEF RouteBPlaces
<1>2. Lies("curvature", CurvatureQuantities, RouteBPlaces)
  BY DEF Lies, RouteBPlaces
<1>3. Lies("derivatives", DerivativeQuantities, RouteBPlaces)
  BY DEF Lies, RouteBPlaces
<1>4. \A s \in RouteBPlaces : s[1] # "linear"
  BY DEF RouteBPlaces, TowerPlaces
<1> QED
  BY <1>1, <1>2, <1>3, <1>4 DEF Ready

\* What the curvature leaves is known slot by slot.
LEMMA CurvatureSlotsKnown ==
  ASSUME NEW known, CurvatureKnown(known), Has(known, "profiles", "value", ProfileNames, 0 .. 2),
         TowerPlaces \subseteq known
  PROVE  RouteBPlaces \subseteq known \cup ({"routeb"} \X MetricQuantities)
<1>1. \A q \in All("value", ProfileNames, 0 .. 2) : <<"profiles", q>> \in known
  <2> SUFFICES ASSUME NEW q \in All("value", ProfileNames, 0 .. 2) PROVE <<"profiles", q>> \in known
    OBVIOUS
  <2>1. PICK f \in ProfileNames, k \in 0 .. 2 : q = Quantity("value", f, k)
    BY InAll
  <2> QED
    BY <2>1 DEF Has
<1>2. \A q \in CurvatureQuantities : <<"curvature", q>> \in known
  BY CurvatureQuantitiesKnown
<1>3. \A q \in All("dr", {"Z0", "Z1"}, 0 .. 1) : <<"curvature", q>> \in known
  <2> SUFFICES ASSUME NEW q \in All("dr", {"Z0", "Z1"}, 0 .. 1) PROVE <<"curvature", q>> \in known
    OBVIOUS
  <2>1. PICK f \in {"Z0", "Z1"}, k \in 0 .. 1 : q = Quantity("dr", f, k)
    BY InAll
  <2>2. Has(known, "curvature", "dr", {"Z0", "Z1"}, 0 .. 1)
    BY DEF CurvatureKnown
  <2> QED
    BY <2>1, <2>2 DEF Has
<1>4. \A q \in DerivativeQuantities : <<"derivatives", q>> \in known
  BY CurvatureQuantitiesKnown
<1> DEFINE A == All("value", ProfileNames, 0 .. 2)
           B == CurvatureQuantities
           C == All("dr", {"Z0", "Z1"}, 0 .. 1)
           D4 == DerivativeQuantities
           T == TowerPlaces
           R == {"routeb"} \X MetricQuantities
<1>5. RouteBPlaces = T \cup ({"profiles"} \X A) \cup ({"curvature"} \X (B \cup C)) \cup
                     ({"derivatives"} \X D4) \cup R
  BY DEF RouteBPlaces
<1>6. /\ \A q \in A : <<"profiles", q>> \in known
      /\ \A q \in B : <<"curvature", q>> \in known
      /\ \A q \in C : <<"curvature", q>> \in known
      /\ \A q \in D4 : <<"derivatives", q>> \in known
      /\ T \subseteq known
  BY <1>1, <1>2, <1>3, <1>4
<1> HIDE DEF A, B, C, D4, T, R
<1>7. {"profiles"} \X A \subseteq known
  BY <1>6
<1>8. {"curvature"} \X (B \cup C) \subseteq known
  BY <1>6
<1>9. {"derivatives"} \X D4 \subseteq known
  BY <1>6
<1>10. RouteBPlaces \subseteq known \cup R
  BY <1>5, <1>6, <1>7, <1>8, <1>9
<1> QED
  BY <1>10 DEF R

LEMMA KnowsMarked ==
  ASSUME NEW memory, NEW known, NEW id, NEW level, Knows(memory, known, id, level, {}), NEW more
  PROVE  Knows(memory, known, id, level, more)
<1>1. /\ DOMAIN memory = LiveSlots /\ known \subseteq LiveSlots
      /\ Within(memory, known, Fresh(id, level, {}))
  BY DEF Knows
<1>2. ASSUME NEW s \in known, NEW m \in Modes
      PROVE  memory[s][m] \subseteq Fresh(id, level, more)[s][m]
  <2>1. s \in LiveSlots /\ memory[s][m] \subseteq Fresh(id, level, {})[s][m]
    BY <1>1 DEF Within
  <2>2. Fresh(id, level, {})[s][m] \subseteq Fresh(id, level, more)[s][m]
    BY <2>1 DEF Fresh
  <2> QED
    BY <2>1, <2>2
<1> QED
  BY <1>1, <1>2 DEF Knows, Within

LEMMA ExactLeft ==
  ASSUME NEW memory, NEW out, NEW views, Leaves(out, memory, views), NEW view, view \notin views,
         FinitePlaces(view, MetricQuantities), NEW id, Exact(memory, view, id)
  PROVE  Exact(out, view, id)
<1> SUFFICES ASSUME NEW f \in ReconstructionFields, NEW k \in 0 .. 2, NEW m \in Modes
             PROVE  out[<<view, Value(f, k)>>][m] = {InputOf(f, id, m, k)}
  BY DEF Exact
<1> DEFINE q == Value(f, k)
<1>1. q \in MetricQuantities
  BY InAll DEF MetricQuantities, Value
<1>2. memory[<<view, q>>][m] = {InputOf(f, id, m, k)}
  BY DEF Exact
<1> HIDE DEF q
<1>3. out[<<view, q>>] = memory[<<view, q>>]
  BY <1>1 DEF Leaves, FinitePlaces
<1> QED
  BY <1>2, <1>3 DEF q

LEMMA RouteBStage ==
  ASSUME NEW d, Shape(d), Clean(d.mem), NEW in, TowerOf(d, in),
         NEW g, NEW fault, NEW more \in Extra, Spared(fault, more),
         NEW out, out = PackLevels(CurvatureStage(d, g, fault))
  PROVE  RouteBDone(d, out, in, g, more)
<1> DEFINE a == CurvatureStage(d, g, fault)
           id == in.id
<1>0. out = PackLevels(a)
  OBVIOUS
<1>1. /\ Knows(d.mem, TowerPlaces, id, 0, {}) /\ in.good \in BOOLEAN /\ in.generation # 0
      /\ in.good => /\ Exact(d.mem, "tower", id)
                    /\ \A l \in 0 .. 4 : Bears(d, <<"tower", l>>, in.generation)
      /\ ~in.good => Bears(d, <<"tower", 4>>, 0)
  BY DEF TowerOf
<1> HIDE DEF id
<1>2. Knows(d.mem, TowerPlaces, id, 0, more)
  BY <1>1, KnowsMarked
<1>3. CurvatureDone(d, a, g, TowerPlaces, id, more)
  <2>1. Level(TowerPlaces) /\ \A l \in 0 .. 2 : Packable(TowerPlaces, "tower", l)
    BY TowerPacks
  <2> QED
    BY <1>2, <2>1, CurvatureStageDone
<1> HIDE DEF a
<1>4. /\ Shape(a) /\ AllCurvature(TowerPlaces, a.mem, id, more)
      /\ Leaves(a.mem, d.mem, CurvatureViews)
      /\ \A k \in StampKeys : k \notin CurvatureKeys => a.stamp[k] = d.stamp[k]
  BY <1>3 DEF CurvatureDone
<1>5. PICK ready \in BOOLEAN :
        /\ \A k \in CurvatureKeys : Bears(a, k, IF ready THEN g ELSE 0)
        /\ ready => TowerValid(d, g)
        /\ TowerValid(d, g) /\ more = {} => ready
  BY <1>3 DEF CurvatureDone
<1>6. PICK next : /\ TowerPlaces \subseteq next /\ Level(next) /\ CurvatureKnown(next)
                  /\ Has(next, "profiles", "value", ProfileNames, 0 .. 2)
                  /\ Knows(a.mem, next, id, 0, more)
  BY <1>4 DEF AllCurvature
<1> DEFINE R == {"routeb"} \X MetricQuantities
<1>7. PackedLevels(a, out, next, id, more)
  <2>1. Lies("tower", MetricQuantities, next)
    BY <1>6, TowerPacks DEF Lies
  <2>2. {"tower"} \X MetricQuantities \subseteq next
    BY <2>1 DEF Lies
  <2> QED
    BY <1>0, <1>4, <1>6, <2>2, PackLevelsDone
<1>8. /\ Shape(out) /\ Knows(out.mem, next \cup R, id, 0, more) /\ Leaves(out.mem, a.mem, {"routeb"})
      /\ \A k \in StampKeys :
           out.stamp[k] = IF k[1] = "routeb" THEN a.stamp[<<"tower", k[2]>>] ELSE a.stamp[k]
      /\ Exact(a.mem, "tower", id) => Exact(out.mem, "routeb", id)
  BY <1>7 DEF PackedLevels
<1>9. RouteBPlaces \subseteq next \cup R
  BY <1>6, CurvatureSlotsKnown
<1> HIDE DEF R
<1>10. Knows(out.mem, RouteBPlaces, id, 0, more)
  BY <1>8, <1>9, KnowsFewer
<1>11. Leaves(out.mem, d.mem, RouteBViews)
  BY <1>4, <1>8, LeavesAgain DEF RouteBViews
<1>12. Clean(out.mem)
  <2>1. RouteBViews \cap TargetViews = {}
    BY DEF RouteBViews, CurvatureViews, TargetViews
  <2> QED
    BY <1>11, <2>1, CleanLeft
<1>13. in.good => Exact(out.mem, "routeb", id)
  <2> SUFFICES ASSUME in.good PROVE Exact(out.mem, "routeb", id)
    OBVIOUS
  <2>1. "tower" \notin CurvatureViews /\ FinitePlaces("tower", MetricQuantities)
    BY MetricPlaces DEF CurvatureViews, FinitePlaces
  <2>2. Exact(d.mem, "tower", id)
    BY <1>1
  <2>3. Exact(a.mem, "tower", id)
    BY <1>4, <2>1, <2>2, ExactLeft
  <2> QED
    BY <1>8, <2>3
<1>14. /\ \A k \in CurvatureKeys : k \in StampKeys /\ k[1] # "routeb"
       /\ <<"curvature", 0>> \in CurvatureKeys /\ <<"derivatives", 0>> \in CurvatureKeys
       /\ \A l \in 0 .. 4 : <<"tower", l>> \in StampKeys /\ <<"tower", l>> \notin CurvatureKeys
       /\ \A l \in 0 .. 2 : <<"routeb", l>> \in StampKeys
  BY CurvatureKeysThere DEF CurvatureKeys, StampKeys
<1>15. \A k \in CurvatureKeys : Bears(out, k, IF ready THEN g ELSE 0)
  <2> SUFFICES ASSUME NEW k \in CurvatureKeys PROVE Bears(out, k, IF ready THEN g ELSE 0)
    OBVIOUS
  <2>1. k \in StampKeys /\ k[1] # "routeb"
    BY <1>14
  <2>2. out.stamp[k] = a.stamp[k]
    BY <1>8, <2>1
  <2>3. Bears(a, k, IF ready THEN g ELSE 0)
    BY <1>5
  <2> QED
    BY <2>2, <2>3 DEF Bears
<1>16. \A n : \A l \in 0 .. 2 : Bears(out, <<"routeb", l>>, n) <=> Bears(d, <<"tower", l>>, n)
  <2> SUFFICES ASSUME NEW l \in 0 .. 2 PROVE out.stamp[<<"routeb", l>>] = d.stamp[<<"tower", l>>]
    BY DEF Bears
  <2> DEFINE k == <<"routeb", l>>
             t == <<"tower", l>>
  <2>1. k \in StampKeys /\ k[1] = "routeb" /\ k[2] = l /\ t \in StampKeys /\ t \notin CurvatureKeys
    BY <1>14
  <2>2. t = <<"tower", k[2]>>
    BY <2>1
  <2> HIDE DEF k, t
  <2>3. out.stamp[k] = a.stamp[t] /\ a.stamp[t] = d.stamp[t]
    BY <1>4, <1>8, <2>1, <2>2
  <2> QED
    BY <2>3 DEF k, t
<1>17. ASSUME RouteBReady(out, g) PROVE in.good /\ in.generation = g
  <2>0. PICK m \in Modes : TRUE
    BY ModesAssumption
  <2>1. g # 0 /\ Bears(out, <<"curvature", 0>>, g)
    BY <1>17 DEF RouteBReady, PrimitiveReady
  <2>2. ready
    <3>1. Bears(out, <<"curvature", 0>>, IF ready THEN g ELSE 0)
      BY <1>14, <1>15
    <3>2. out.stamp[<<"curvature", 0>>][m] = IF ready THEN g ELSE 0
      BY <3>1 DEF Bears
    <3>3. out.stamp[<<"curvature", 0>>][m] = g
      BY <2>1 DEF Bears
    <3> QED
      BY <2>1, <3>2, <3>3
  <2>3. Bears(d, <<"tower", 4>>, g)
    <3>1. TowerValid(d, g)
      BY <1>5, <2>2
    <3>2. 4 \in 0 .. 4
      OBVIOUS
    <3> QED
      BY <3>1, <3>2 DEF TowerValid
  <2>4. d.stamp[<<"tower", 4>>][m] = g
    BY <2>3 DEF Bears
  <2>5. in.good
    <3> SUFFICES ASSUME ~in.good PROVE FALSE
      BY <1>1
    <3>1. Bears(d, <<"tower", 4>>, 0)
      BY <1>1
    <3>2. d.stamp[<<"tower", 4>>][m] = 0
      BY <3>1 DEF Bears
    <3> QED
      BY <2>1, <2>4, <3>2
  <2>6. Bears(d, <<"tower", 4>>, in.generation)
    BY <1>1, <2>5
  <2>7. d.stamp[<<"tower", 4>>][m] = in.generation
    BY <2>6 DEF Bears
  <2> QED
    BY <2>4, <2>5, <2>7
<1>18. ASSUME more = {}, in.good, in.generation = g PROVE RouteBReady(out, g)
  <2>1. TowerValid(d, g)
    <3>1. FiniteIn(d.mem, "tower", All("value", ReconstructionFields, 0 .. 4))
      <4>1. \A q \in All("value", ReconstructionFields, 0 .. 4) : <<"tower", q>> \in TowerPlaces
        BY TowerPacks
      <4> QED
        BY <1>1, <4>1, FiniteKnown
    <3> QED
      BY <1>1, <1>18, <3>1 DEF TowerValid
  <2>2. ready
    BY <1>5, <1>18, <2>1
  <2>3. Bears(out, <<"curvature", 0>>, g) /\ Bears(out, <<"derivatives", 0>>, g)
    BY <1>14, <1>15, <2>2
  <2>4. \A l \in 0 .. 2 : Bears(out, <<"routeb", l>>, g)
    <3>1. \A l \in 0 .. 2 : Bears(d, <<"tower", l>>, g)
      BY <1>1, <1>18
    <3> QED
      BY <1>16, <3>1
  <2>5. Knows(out.mem, RouteBPlaces, id, 0, {})
    BY <1>10, <1>18
  <2>6. FiniteIn(out.mem, "routeb", All("value", ReconstructionFields, 0 .. 2))
    <3>1. \A q \in All("value", ReconstructionFields, 0 .. 2) : <<"routeb", q>> \in RouteBPlaces
      BY DEF RouteBPlaces, MetricQuantities
    <3> QED
      BY <2>5, <3>1, FiniteKnown
  <2>7. FiniteIn(out.mem, "curvature", CurvatureQuantities)
    <3>1. \A q \in CurvatureQuantities : <<"curvature", q>> \in RouteBPlaces
      BY DEF RouteBPlaces
    <3> QED
      BY <2>5, <3>1, FiniteKnown
  <2>8. FiniteIn(out.mem, "derivatives", DerivativeQuantities)
    <3>1. \A q \in DerivativeQuantities : <<"derivatives", q>> \in RouteBPlaces
      BY DEF RouteBPlaces
    <3> QED
      BY <2>5, <3>1, FiniteKnown
  <2>9. g # 0
    BY <1>1, <1>18
  <2> QED
    BY <2>3, <2>4, <2>6, <2>7, <2>8, <2>9 DEF RouteBReady, PrimitiveReady
<1>19. \A k \in StampKeys : k[1] # "routeb" /\ k \notin CurvatureKeys => out.stamp[k] = d.stamp[k]
  BY <1>4, <1>8
<1> QED
  BY <1>8, <1>10, <1>11, <1>12, <1>13, <1>17, <1>18, <1>19 DEF RouteBDone, id

LEMMA GivenPlaces ==
  /\ GivenSlots \subseteq LiveSlots
  /\ Ready(GivenSlots, "givenMetric", "givenCurvature", "givenDerivatives")
  /\ \A s \in LiveSlots : Given(s) => s \in GivenSlots
  /\ \A s \in GivenSlots : Given(s)
<1>1. GivenSlots \subseteq LiveSlots
  BY DEF LiveSlots
<1>2. Packable(GivenSlots, "givenMetric", 0)
  <2> SUFFICES ASSUME NEW f \in ReconstructionFields, NEW k \in 0 .. 2
               PROVE  <<"givenMetric", Quantity("value", f, 0 + k)>> \in GivenSlots
    BY DEF Packable
  <2>1. 0 + k = k
    OBVIOUS
  <2>2. Quantity("value", f, 0 + k) \in All("value", ReconstructionFields, 0 .. 2)
    BY <2>1, InAll
  <2> QED
    BY <2>2 DEF GivenSlots
<1>3. Lies("givenCurvature", CurvatureQuantities, GivenSlots)
  BY DEF Lies, GivenSlots
<1>4. Lies("givenDerivatives", DerivativeQuantities, GivenSlots)
  BY DEF Lies, GivenSlots
<1>5. \A s \in GivenSlots : s[1] # "linear" /\ Given(s)
  BY DEF GivenSlots, Given
<1>6. ASSUME NEW s \in LiveSlots, Given(s) PROVE s \in GivenSlots
  <2>1. s[1] \in GivenViews
    BY <1>6 DEF Given, GivenViews
  <2>2. \A x \in CurvatureSlots \cup PrimitiveSlots \cup SourceSlots \cup LinearSlots : x[1] \notin GivenViews
    BY DEF CurvatureSlots, PrimitiveSlots, SourceSlots, LinearSlots, GivenViews
  <2> QED
    BY <2>1, <2>2 DEF LiveSlots
<1> QED
  BY <1>1, <1>2, <1>3, <1>4, <1>5, <1>6 DEF Ready

\* What is known of a tower and of given inputs stays while others are written.
LEMMA TowerKept ==
  ASSUME NEW d, NEW in, TowerOf(d, in), NEW out, DOMAIN out.mem = LiveSlots,
         NEW views, Leaves(out.mem, d.mem, views), "tower" \notin views,
         \A l \in 0 .. 4 : out.stamp[<<"tower", l>>] = d.stamp[<<"tower", l>>]
  PROVE  TowerOf(out, in)
<1>1. \A s \in TowerPlaces : s[1] \notin views
  BY DEF TowerPlaces
<1>2. Knows(out.mem, TowerPlaces, in.id, 0, {})
  <2>1. Knows(d.mem, TowerPlaces, in.id, 0, {})
    BY DEF TowerOf
  <2> QED
    BY <1>1, <2>1, KnowsLeft
<1>3. Exact(d.mem, "tower", in.id) => Exact(out.mem, "tower", in.id)
  <2>1. FinitePlaces("tower", MetricQuantities)
    BY MetricPlaces DEF FinitePlaces
  <2> QED
    BY <2>1, ExactLeft
<1>4. \A n : \A l \in 0 .. 4 : Bears(out, <<"tower", l>>, n) <=> Bears(d, <<"tower", l>>, n)
  BY DEF Bears
<1>5. 4 \in 0 .. 4
  OBVIOUS
<1> QED
  BY <1>2, <1>3, <1>4, <1>5 DEF TowerOf

LEMMA GivenKept ==
  ASSUME NEW d, NEW in, GivenOf(d, in), NEW out, DOMAIN out.mem = LiveSlots,
         NEW views, Leaves(out.mem, d.mem, views), views \cap GivenViews = {},
         \A k \in StampKeys : Given(k) => out.stamp[k] = d.stamp[k]
  PROVE  GivenOf(out, in)
<1>1. /\ "givenMetric" \notin views /\ "givenCurvature" \notin views
      /\ "givenDerivatives" \notin views
  BY DEF GivenViews
<1>2. Knows(out.mem, GivenSlots, in.id, 0, IF in.good THEN {} ELSE {NonFinite})
  <2> DEFINE more == IF in.good THEN {} ELSE {NonFinite}
  <2>1. Knows(d.mem, GivenSlots, in.id, 0, more)
    BY DEF GivenOf
  <2>2. \A s \in GivenSlots : s[1] \notin views
    BY <1>1, GivenPlaces DEF Given
  <2> HIDE DEF more
  <2>3. Knows(out.mem, GivenSlots, in.id, 0, more)
    BY <2>1, <2>2, KnowsLeft
  <2> QED
    BY <2>3 DEF more
<1>3. Exact(d.mem, "givenMetric", in.id) => Exact(out.mem, "givenMetric", in.id)
  <2>1. FinitePlaces("givenMetric", MetricQuantities)
    BY MetricPlaces DEF FinitePlaces
  <2> QED
    BY <1>1, <2>1, ExactLeft
<1>4. ASSUME NEW g PROVE GivenReady(out, g) <=> GivenReady(d, g)
  <2>1. EntryViews("givenMetric", "givenCurvature", "givenDerivatives")
    BY DEF EntryViews
  <2>2. FiniteIn(out.mem, "givenMetric", All("value", ReconstructionFields, 0 .. 2))
          <=> FiniteIn(d.mem, "givenMetric", All("value", ReconstructionFields, 0 .. 2))
    BY <1>1, <2>1, EntryPlaces, FiniteLeft
  <2>3. FiniteIn(out.mem, "givenCurvature", CurvatureQuantities)
          <=> FiniteIn(d.mem, "givenCurvature", CurvatureQuantities)
    BY <1>1, <2>1, EntryPlaces, FiniteLeft
  <2>4. FiniteIn(out.mem, "givenDerivatives", DerivativeQuantities)
          <=> FiniteIn(d.mem, "givenDerivatives", DerivativeQuantities)
    BY <1>1, <2>1, EntryPlaces, FiniteLeft
  <2>5. /\ \A l \in 0 .. 2 : <<"givenMetric", l>> \in StampKeys /\ Given(<<"givenMetric", l>>)
        /\ <<"givenCurvature", 0>> \in StampKeys /\ Given(<<"givenCurvature", 0>>)
        /\ <<"givenDerivatives", 0>> \in StampKeys /\ Given(<<"givenDerivatives", 0>>)
    BY DEF StampKeys, Given
  <2>6. /\ \A l \in 0 .. 2 : Bears(out, <<"givenMetric", l>>, g) <=> Bears(d, <<"givenMetric", l>>, g)
        /\ Bears(out, <<"givenCurvature", 0>>, g) <=> Bears(d, <<"givenCurvature", 0>>, g)
        /\ Bears(out, <<"givenDerivatives", 0>>, g) <=> Bears(d, <<"givenDerivatives", 0>>, g)
    BY <2>5 DEF Bears
  <2> QED
    BY <2>2, <2>3, <2>4, <2>6 DEF GivenReady, PrimitiveReady
<1> QED
  BY <1>2, <1>3, <1>4 DEF GivenOf

-----------------------------------------------------------------------------
(* The callers' steps *)

\* What is written of a field is fresh.
LEMMA WrittenFresh ==
  ASSUME NEW s \in LiveSlots, s[1] \notin SummedViews, s[1] # "curvatureScratch",
         s[2].order \in Int, NEW m \in Modes, NEW f \in InputFields, NEW id, NEW more
  PROVE  InputOf(f, id, m, s[2].order) \in Fresh(id, 0, more)[s][m]
<1>1. RateOf(s, 0) = s[2].order
  BY DEF RateOf
<1>2. m \in ModesAt(s[1], m)
  BY DEF ModesAt
<1>3. InputOf(f, id, m, s[2].order) \in FreshAt(s, m, id, 0)
  BY <1>1, <1>2 DEF FreshAt
<1> QED
  BY <1>3 DEF Fresh

LEMMA WriteTowerMakes ==
  ASSUME Shape(device), NEW g \in Generations, NEW height \in Heights, WriteTower(g, height)
  PROVE  TowerMade(device, device', inputs', g, height)
<1> DEFINE id == inputs.id + 1
           out == device'
<1>1. /\ inputs' = [id |-> id, entry |-> "routeb", generation |-> g, good |-> height = 4]
      /\ out = [device EXCEPT
              !.mem = [s \in LiveSlots |->
                 IF s[1] # "tower" THEN device.mem[s]
                 ELSE [m \in Modes |-> IF s[2].order > height THEN {}
                                       ELSE {InputOf(s[2].of, id, m, s[2].order)}]],
              !.stamp = [k \in StampKeys |->
                 IF k[1] # "tower" THEN device.stamp[k]
                 ELSE [m \in Modes |-> IF k[2] > height THEN 0 ELSE g]]]
  BY DEF WriteTower
<1> HIDE DEF id, out
<1>2. DOMAIN device = {"mem", "stamp", "ready"}
  BY DEF Shape
<1>3. /\ DOMAIN out = {"mem", "stamp", "ready"} /\ out.ready = device.ready
      /\ out.mem = [s \in LiveSlots |->
                 IF s[1] # "tower" THEN device.mem[s]
                 ELSE [m \in Modes |-> IF s[2].order > height THEN {}
                                       ELSE {InputOf(s[2].of, id, m, s[2].order)}]]
      /\ out.stamp = [k \in StampKeys |->
                 IF k[1] # "tower" THEN device.stamp[k]
                 ELSE [m \in Modes |-> IF k[2] > height THEN 0 ELSE g]]
  BY <1>1, <1>2
<1>4. Shape(out)
  BY <1>3 DEF Shape
<1>5. Leaves(out.mem, device.mem, {"tower"})
  BY <1>3 DEF Leaves
<1>6. \A k \in StampKeys : k[1] # "tower" => out.stamp[k] = device.stamp[k]
  BY <1>3
<1>7. height \in -1 .. 4 /\ g # 0
  BY LiveAssumption
<1>8. ASSUME NEW f \in ReconstructionFields, NEW k \in 0 .. 4, NEW m \in Modes
      PROVE  /\ <<"tower", Value(f, k)>> \in TowerPlaces
             /\ out.mem[<<"tower", Value(f, k)>>][m] = IF k > height THEN {} ELSE {InputOf(f, id, m, k)}
  <2> DEFINE s == <<"tower", Value(f, k)>>
  <2>1. Value(f, k) \in All("value", ReconstructionFields, 0 .. 4)
    BY InAll DEF Value
  <2>2. s \in TowerPlaces /\ s \in LiveSlots
    BY <2>1, TowerPacks
  <2>3. s[1] = "tower" /\ s[2].order = k /\ s[2].of = f
    BY DEF Value, Quantity
  <2> HIDE DEF s
  <2>4. out.mem[s] = [n \in Modes |-> IF s[2].order > height THEN {}
                                    ELSE {InputOf(s[2].of, id, n, s[2].order)}]
    BY <1>3, <2>2, <2>3
  <2>5. out.mem[s][m] = IF s[2].order > height THEN {} ELSE {InputOf(s[2].of, id, m, s[2].order)}
    BY <2>4
  <2>6. out.mem[s][m] = IF k > height THEN {} ELSE {InputOf(f, id, m, k)}
    BY <2>3, <2>5
  <2> QED
    BY <2>2, <2>6 DEF s
<1>9. Knows(out.mem, TowerPlaces, id, 0, {})
  <2> SUFFICES ASSUME NEW s \in TowerPlaces, NEW m \in Modes
               PROVE  out.mem[s][m] \subseteq Fresh(id, 0, {})[s][m]
    BY <1>4, TowerPacks DEF Shape, Knows, Within
  <2>1. PICK q \in All("value", ReconstructionFields, 0 .. 4) : s = <<"tower", q>>
    BY DEF TowerPlaces
  <2>2. PICK f \in ReconstructionFields, k \in 0 .. 4 : q = Quantity("value", f, k)
    BY InAll
  <2>3. s = <<"tower", Value(f, k)>> /\ s[2].order = k
    BY <2>1, <2>2 DEF Value, Quantity
  <2>4. out.mem[s][m] \subseteq {InputOf(f, id, m, s[2].order)}
    BY <1>8, <2>3
  <2>5. s \in LiveSlots /\ s[1] = "tower" /\ f \in InputFields /\ k \in Int
    BY <2>3, TowerPacks DEF InputFields
  <2>6. s[1] \notin SummedViews /\ s[1] # "curvatureScratch" /\ s[2].order \in Int
    BY <2>3, <2>5 DEF SummedViews
  <2>7. InputOf(f, id, m, s[2].order) \in Fresh(id, 0, {})[s][m]
    BY <2>5, <2>6, WrittenFresh
  <2> QED
    BY <2>4, <2>7
<1>10. ASSUME height = 4 PROVE Exact(out.mem, "tower", id)
  <2> SUFFICES ASSUME NEW f \in ReconstructionFields, NEW k \in 0 .. 2, NEW m \in Modes
               PROVE  out.mem[<<"tower", Value(f, k)>>][m] = {InputOf(f, id, m, k)}
    BY DEF Exact
  <2>1. k \in 0 .. 4 /\ ~(k > height)
    BY <1>10
  <2> QED
    BY <1>8, <2>1
<1>11. ASSUME NEW l \in 0 .. 4, NEW m \in Modes
       PROVE  out.stamp[<<"tower", l>>][m] = IF l > height THEN 0 ELSE g
  <2> DEFINE k == <<"tower", l>>
  <2>1. k \in StampKeys /\ k[1] = "tower" /\ k[2] = l
    BY DEF StampKeys
  <2> HIDE DEF k
  <2>2. out.stamp[k][m] = IF l > height THEN 0 ELSE g
    BY <1>3, <2>1
  <2> QED
    BY <2>2 DEF k
<1>12. height = 4 => \A l \in 0 .. 4 : Bears(out, <<"tower", l>>, g)
  BY <1>11 DEF Bears
<1>13. height # 4 => Bears(out, <<"tower", 4>>, 0)
  <2>1. height # 4 => 4 > height /\ 4 \in 0 .. 4
    BY <1>7
  <2> QED
    BY <1>11, <2>1 DEF Bears
<1>14. TowerOf(out, inputs')
  <2>1. inputs'.id = id /\ inputs'.generation = g /\ inputs'.good = (height = 4)
    BY <1>1
  <2>2. inputs'.good \in BOOLEAN
    BY <1>1
  <2> QED
    BY <1>7, <1>9, <1>10, <1>12, <1>13, <2>1, <2>2 DEF TowerOf
<1> QED
  BY <1>1, <1>3, <1>4, <1>5, <1>6, <1>14 DEF TowerMade, out

LEMMA GivenContent ==
  \A s \in GivenSlots :
    /\ s \in LiveSlots /\ s[1] \notin SummedViews /\ s[1] # "curvatureScratch" /\ s[2].order \in Int
    /\ (IF s[2].op = "value" THEN s[2].of ELSE s[2].op) \in InputFields
<1> SUFFICES ASSUME NEW s \in GivenSlots
             PROVE  /\ s[1] \notin SummedViews /\ s[1] # "curvatureScratch" /\ s[2].order \in Int
                    /\ (IF s[2].op = "value" THEN s[2].of ELSE s[2].op) \in InputFields
  BY GivenPlaces
<1>1. s[1] \notin SummedViews /\ s[1] # "curvatureScratch"
  BY GivenPlaces DEF Given, SummedViews
<1>2. \A op, f, k : /\ Quantity(op, f, k).op = op /\ Quantity(op, f, k).of = f
                    /\ Quantity(op, f, k).order = k
  BY DEF Quantity
<1>3. CASE s[2] \in All("value", ReconstructionFields, 0 .. 2)
  <2>1. PICK f \in ReconstructionFields, k \in 0 .. 2 : s[2] = Quantity("value", f, k)
    BY <1>3, InAll
  <2> QED
    BY <1>1, <1>2, <2>1 DEF InputFields
<1>4. CASE s[2] \in CurvatureQuantities
  <2>1. PICK f \in {"Z0", "Z1"}, k \in 0 .. 2 : s[2] = Quantity("value", f, k)
    BY <1>4, InAll DEF CurvatureQuantities
  <2> QED
    BY <1>1, <1>2, <2>1 DEF InputFields
<1>5. CASE s[2] \in DerivativeQuantities
  <2>1. \E op \in {"delta", "eth", "ethprime"}, f \in {"Z0", "Z1"}, k \in 0 .. 1 : s[2] = Quantity(op, f, k)
    <3>1. CASE s[2] \in All("delta", {"Z0", "Z1"}, 0 .. 1)
      BY <3>1, InAll
    <3>2. CASE s[2] \in All("ethprime", {"Z1"}, 0 .. 1)
      BY <3>2, InAll
    <3>3. CASE s[2] \in All("eth", {"Z0"}, 0 .. 1)
      BY <3>3, InAll
    <3> QED
      BY <1>5, <3>1, <3>2, <3>3 DEF DerivativeQuantities
  <2>2. PICK op \in {"delta", "eth", "ethprime"}, f \in {"Z0", "Z1"}, k \in 0 .. 1 : s[2] = Quantity(op, f, k)
    BY <2>1
  <2> QED
    BY <1>1, <1>2, <2>2 DEF InputFields
<1> QED
  BY <1>3, <1>4, <1>5 DEF GivenSlots

\* The inputs that a flaw lies in are looked at.
LEMMA FlawPlaces ==
  ASSUME NEW f \in Flaws
  PROVE  /\ f.mode \in Modes /\ f.kind \in {"stamp", "value"} /\ f.key \in StampKeys
         /\ f.key \in {<<"givenMetric", 2>>, <<"givenCurvature", 0>>, <<"givenDerivatives", 0>>}
         /\ Given(f.key)
         /\ f.kind = "value" =>
              \/ f.key[1] = "givenMetric" /\ Spoils(f, <<"givenMetric", Value("C", 2)>>)
              \/ f.key[1] = "givenCurvature" /\ Spoils(f, <<"givenCurvature", Value("Z1", 0)>>)
              \/ f.key[1] = "givenDerivatives"
                   /\ Spoils(f, <<"givenDerivatives", Quantity("eth", "Z0", 0)>>)
<1>1. /\ f.mode \in Modes /\ f.kind \in {"stamp", "value"}
      /\ f.key \in {<<"givenMetric", 2>>, <<"givenCurvature", 0>>, <<"givenDerivatives", 0>>}
  BY LiveAssumption DEF Flaws
<1>2. f.key \in StampKeys /\ Given(f.key)
  BY <1>1 DEF StampKeys, Given
<1>3. ASSUME NEW v, NEW q \in {Value("C", 2), Value("Z1", 0), Quantity("eth", "Z0", 0)},
             f.kind = "value", f.key[1] = v
      PROVE  Spoils(f, <<v, q>>)
  BY <1>3 DEF Spoils
<1>4. f.key[1] \in {"givenMetric", "givenCurvature", "givenDerivatives"}
  BY <1>1
<1> QED
  BY <1>1, <1>2, <1>3, <1>4

LEMMA WriteGivenMakes ==
  ASSUME Shape(device), inputs.generation \in Nat, GivenStamps(device, inputs.generation),
         NEW g \in Generations, g > inputs.generation,
         NEW flaws \in {{}} \cup {{f} : f \in Flaws}, WriteGiven(g, flaws)
  PROVE  GivenMade(device, device', inputs', g)
<1> DEFINE id == inputs.id + 1
           spoilt(s, m) == \E f \in flaws : f.mode = m /\ Spoils(f, s)
           old(k, m)    == \E f \in flaws : f.kind = "stamp" /\ f.mode = m /\ f.key = k
           field(s)     == IF s[2].op = "value" THEN s[2].of ELSE s[2].op
           Mem == [s \in LiveSlots |->
                 IF ~Given(s) THEN device.mem[s]
                 ELSE [m \in Modes |-> IF spoilt(s, m) THEN {NonFinite}
                                       ELSE {InputOf(field(s), id, m, s[2].order)}]]
           Stamp == [k \in StampKeys |->
                 IF ~Given(k) THEN device.stamp[k]
                 ELSE [m \in Modes |-> IF old(k, m) THEN device.stamp[k][m] ELSE g]]
           out == device'
           good == flaws = {}
<1>1. /\ inputs' = [id |-> id, entry |-> "scientific", generation |-> g, good |-> good]
      /\ out = [device EXCEPT !.mem = Mem, !.stamp = Stamp]
  BY DEF WriteGiven
<1> HIDE DEF id, out
<1>2. DOMAIN device = {"mem", "stamp", "ready"}
  BY DEF Shape
<1>3. /\ DOMAIN out = {"mem", "stamp", "ready"} /\ out.ready = device.ready
      /\ out.mem = Mem /\ out.stamp = Stamp
  <2> HIDE DEF Mem, Stamp
  <2> QED
    BY <1>1, <1>2
<1>4. Shape(out)
  BY <1>3 DEF Shape
<1>5. Leaves(out.mem, device.mem, GivenViews)
  BY <1>3 DEF Leaves, Given, GivenViews
<1>6. \A k \in StampKeys : ~Given(k) => out.stamp[k] = device.stamp[k]
  BY <1>3
<1>7. ASSUME NEW s \in GivenSlots, NEW m \in Modes
      PROVE  out.mem[s][m] = IF spoilt(s, m) THEN {NonFinite}
                             ELSE {InputOf(field(s), id, m, s[2].order)}
  <2>1. s \in LiveSlots /\ Given(s)
    BY GivenPlaces
  <2> HIDE DEF spoilt, field
  <2>2. out.mem[s] = [n \in Modes |-> IF spoilt(s, n) THEN {NonFinite}
                                      ELSE {InputOf(field(s), id, n, s[2].order)}]
    BY <1>3, <2>1
  <2> QED
    BY <2>2
<1>8. ASSUME NEW k \in StampKeys, Given(k), NEW m \in Modes
      PROVE  out.stamp[k][m] = IF old(k, m) THEN device.stamp[k][m] ELSE g
  <2> HIDE DEF old
  <2>1. out.stamp[k] = [n \in Modes |-> IF old(k, n) THEN device.stamp[k][n] ELSE g]
    BY <1>3, <1>8
  <2> QED
    BY <2>1
<1> HIDE DEF Mem, Stamp
<1>9. ASSUME NEW s \in GivenSlots, NEW m \in Modes
      PROVE  InputOf(field(s), id, m, s[2].order) \in Fresh(id, 0, IF good THEN {} ELSE {NonFinite})[s][m]
  <2> DEFINE more == IF good THEN {} ELSE {NonFinite}
             x == field(s)
  <2>1. /\ s \in LiveSlots /\ s[1] \notin SummedViews /\ s[1] # "curvatureScratch"
        /\ s[2].order \in Int /\ x \in InputFields
    BY GivenContent
  <2> HIDE DEF more, x
  <2>2. InputOf(x, id, m, s[2].order) \in Fresh(id, 0, more)[s][m]
    BY <2>1, WrittenFresh
  <2> QED
    BY <2>2 DEF more, x
<1>10. Knows(out.mem, GivenSlots, id, 0, IF good THEN {} ELSE {NonFinite})
  <2> DEFINE more == IF good THEN {} ELSE {NonFinite}
  <2> SUFFICES ASSUME NEW s \in GivenSlots, NEW m \in Modes
               PROVE  out.mem[s][m] \subseteq Fresh(id, 0, more)[s][m]
    BY <1>4, GivenPlaces DEF Shape, Knows, Within
  <2>1. CASE ~spoilt(s, m)
    <3> DEFINE x == InputOf(field(s), id, m, s[2].order)
               fresh == Fresh(id, 0, more)[s][m]
    <3>1. x \in fresh
      BY <1>9
    <3> HIDE DEF fresh
    <3>2. out.mem[s][m] = {x}
      <4> HIDE DEF spoilt, field
      <4> QED
        BY <1>7, <2>1
    <3> HIDE DEF x
    <3>3. out.mem[s][m] \subseteq fresh
      BY <3>1, <3>2
    <3> QED
      BY <3>3 DEF fresh
  <2>2. CASE spoilt(s, m)
    <3>1. NonFinite \in more
      BY <2>2
    <3>2. s \in LiveSlots
      BY GivenPlaces
    <3> HIDE DEF more, spoilt
    <3>3. NonFinite \in Fresh(id, 0, more)[s][m]
      BY <3>1, <3>2 DEF Fresh
    <3> QED
      BY <1>7, <2>2, <3>3
  <2> QED
    BY <2>1, <2>2
<1>11. ASSUME good PROVE Exact(out.mem, "givenMetric", id)
  <2> SUFFICES ASSUME NEW f \in ReconstructionFields, NEW k \in 0 .. 2, NEW m \in Modes
               PROVE  out.mem[<<"givenMetric", Value(f, k)>>][m] = {InputOf(f, id, m, k)}
    BY DEF Exact
  <2> DEFINE s == <<"givenMetric", Value(f, k)>>
  <2>1. Value(f, k) \in All("value", ReconstructionFields, 0 .. 2)
    BY InAll DEF Value
  <2>2. s \in GivenSlots
    BY <2>1 DEF GivenSlots
  <2>3. s[2].op = "value" /\ s[2].of = f /\ s[2].order = k
    BY DEF Value, Quantity
  <2>4. ~spoilt(s, m)
    BY <1>11
  <2> HIDE DEF s, spoilt
  <2>5. out.mem[s][m] = {InputOf(field(s), id, m, s[2].order)}
    BY <1>7, <2>2, <2>4
  <2>6. out.mem[s][m] = {InputOf(f, id, m, k)}
    BY <2>3, <2>5
  <2> QED
    BY <2>6 DEF s
<1>12. g # 0 /\ g \in Nat
  BY LiveAssumption
<1>13. PICK one \in Modes : TRUE
  BY ModesAssumption
<1>14. ASSUME NEW n, GivenReady(out, n) PROVE n = g
  <2> DEFINE k == <<"givenMetric", 0>>
  <2>1. k \in StampKeys /\ Given(k)
    BY DEF StampKeys, Given
  <2>2. ~old(k, one)
    <3>1. \A f \in flaws : f.key # k
      BY FlawPlaces
    <3> QED
      BY <3>1
  <2>3. Bears(out, k, n)
    <3>1. 0 \in 0 .. 2
      OBVIOUS
    <3> QED
      BY <1>14, <3>1 DEF GivenReady, PrimitiveReady
  <2> HIDE DEF k, old
  <2>4. out.stamp[k][one] = g
    BY <1>8, <1>13, <2>1, <2>2
  <2> QED
    BY <1>13, <2>3, <2>4 DEF Bears
<1>15. ASSUME NEW n, GivenReady(out, n) PROVE good
  <2> SUFFICES ASSUME ~good PROVE FALSE
    OBVIOUS
  <2>1. PICK f \in Flaws : flaws = {f}
    OBVIOUS
  <2>2. /\ f.mode \in Modes /\ f.kind \in {"stamp", "value"} /\ f.key \in StampKeys /\ Given(f.key)
        /\ f.key \in {<<"givenMetric", 2>>, <<"givenCurvature", 0>>, <<"givenDerivatives", 0>>}
    BY FlawPlaces
  <2>3. CASE f.kind = "stamp"
    <3>1. old(f.key, f.mode)
      BY <2>1, <2>3
    <3> HIDE DEF old
    <3>2. out.stamp[f.key][f.mode] = device.stamp[f.key][f.mode]
      BY <1>8, <2>2, <3>1
    <3>3. device.stamp[f.key][f.mode] \in 0 .. inputs.generation
      BY <2>2 DEF GivenStamps
    <3>4. 2 \in 0 .. 2
      OBVIOUS
    <3>5. Bears(out, f.key, n)
      BY <1>15, <2>2, <3>4 DEF GivenReady, PrimitiveReady
    <3>6. out.stamp[f.key][f.mode] = g
      BY <1>14, <1>15, <2>2, <3>5 DEF Bears
    <3> QED
      BY <1>12, <3>2, <3>3, <3>6
  <2>4. CASE f.kind = "value"
    <3> HIDE DEF good
    <3>1. \A v, Q, q : FiniteIn(out.mem, v, Q) /\ q \in Q => NonFinite \notin out.mem[<<v, q>>][f.mode]
      BY <2>2 DEF FiniteIn
    <3>2. /\ FiniteIn(out.mem, "givenMetric", All("value", ReconstructionFields, 0 .. 2))
          /\ FiniteIn(out.mem, "givenCurvature", CurvatureQuantities)
          /\ FiniteIn(out.mem, "givenDerivatives", DerivativeQuantities)
      BY <1>15 DEF GivenReady, PrimitiveReady
    <3>3. /\ Value("C", 2) \in All("value", ReconstructionFields, 0 .. 2)
          /\ Value("Z1", 0) \in CurvatureQuantities
          /\ Quantity("eth", "Z0", 0) \in DerivativeQuantities
      BY InAll DEF Value, ReconstructionFields, CurvatureQuantities, DerivativeQuantities
    <3>4. ASSUME NEW s \in GivenSlots, Spoils(f, s) PROVE NonFinite \in out.mem[s][f.mode]
      <4>1. spoilt(s, f.mode)
        BY <2>1, <3>4
      <4> HIDE DEF spoilt
      <4> QED
        BY <1>7, <2>2, <4>1
    <3>5. /\ <<"givenMetric", Value("C", 2)>> \in GivenSlots
          /\ <<"givenCurvature", Value("Z1", 0)>> \in GivenSlots
          /\ <<"givenDerivatives", Quantity("eth", "Z0", 0)>> \in GivenSlots
      BY <3>3 DEF GivenSlots
    <3>6. CASE Spoils(f, <<"givenMetric", Value("C", 2)>>)
      BY <3>1, <3>2, <3>3, <3>4, <3>5, <3>6
    <3>7. CASE Spoils(f, <<"givenCurvature", Value("Z1", 0)>>)
      BY <3>1, <3>2, <3>3, <3>4, <3>5, <3>7
    <3>8. CASE Spoils(f, <<"givenDerivatives", Quantity("eth", "Z0", 0)>>)
      BY <3>1, <3>2, <3>3, <3>4, <3>5, <3>8
    <3> QED
      BY <2>4, <3>6, <3>7, <3>8, FlawPlaces
  <2> QED
    BY <2>2, <2>3, <2>4
<1>16. ASSUME good PROVE GivenReady(out, g)
  <2>1. \A k \in StampKeys : Given(k) => Bears(out, k, g)
    <3>1. \A k, m : ~old(k, m)
      BY <1>16
    <3> HIDE DEF old
    <3> QED
      BY <1>8, <3>1 DEF Bears
  <2>2. Knows(out.mem, GivenSlots, id, 0, {})
    BY <1>10, <1>16
  <2>3. /\ \A q \in All("value", ReconstructionFields, 0 .. 2) : <<"givenMetric", q>> \in GivenSlots
        /\ \A q \in CurvatureQuantities : <<"givenCurvature", q>> \in GivenSlots
        /\ \A q \in DerivativeQuantities : <<"givenDerivatives", q>> \in GivenSlots
    BY DEF GivenSlots
  <2>4. FiniteIn(out.mem, "givenMetric", All("value", ReconstructionFields, 0 .. 2))
    BY <2>2, <2>3, FiniteKnown
  <2>5. FiniteIn(out.mem, "givenCurvature", CurvatureQuantities)
    BY <2>2, <2>3, FiniteKnown
  <2>6. FiniteIn(out.mem, "givenDerivatives", DerivativeQuantities)
    BY <2>2, <2>3, FiniteKnown
  <2>7. /\ \A l \in 0 .. 2 : <<"givenMetric", l>> \in StampKeys /\ Given(<<"givenMetric", l>>)
        /\ <<"givenCurvature", 0>> \in StampKeys /\ Given(<<"givenCurvature", 0>>)
        /\ <<"givenDerivatives", 0>> \in StampKeys /\ Given(<<"givenDerivatives", 0>>)
    BY DEF StampKeys, Given
  <2>8. /\ \A l \in 0 .. 2 : Bears(out, <<"givenMetric", l>>, g)
        /\ Bears(out, <<"givenCurvature", 0>>, g) /\ Bears(out, <<"givenDerivatives", 0>>, g)
    BY <2>1, <2>7
  <2> QED
    BY <1>12, <2>4, <2>5, <2>6, <2>8 DEF GivenReady, PrimitiveReady
<1>17. GivenOf(out, inputs')
  <2>1. inputs'.id = id /\ inputs'.generation = g /\ inputs'.good = good /\ inputs'.good \in BOOLEAN
    BY <1>1
  <2> HIDE DEF good
  <2>2. \A n : GivenReady(out, n) <=> good /\ g = n
    BY <1>14, <1>15, <1>16
  <2> QED
    BY <1>10, <1>11, <2>1, <2>2 DEF GivenOf
<1>18. \A k \in StampKeys, m \in Modes : Given(k) => out.stamp[k][m] \in {device.stamp[k][m], g}
  <2> HIDE DEF old
  <2> QED
    BY <1>8
<1> QED
  BY <1>1, <1>3, <1>4, <1>5, <1>6, <1>17, <1>18 DEF GivenMade, out

-----------------------------------------------------------------------------
(* What an active stage leaves *)

LEMMA ActiveResultKept ==
  ASSUME NEW d, NEW entry, NEW id, NEW whole, NEW fault, ActiveResult(d, entry, id, whole, fault),
         NEW out, out.ready = d.ready, Leaves(out.mem, d.mem, WrittenViews)
  PROVE  ActiveResult(out, entry, id, whole, fault)
<1>1. /\ \A s \in Exposed : out.mem[s] = d.mem[s]
      /\ out.mem[ForcingSlot] = d.mem[ForcingSlot]
  <2>1. \A s \in Exposed \cup {ForcingSlot} : s \in LiveSlots /\ s[1] \notin WrittenViews
    BY ExposedPlaces DEF TargetViews, ForcingSlot, WrittenViews, GivenViews
  <2> QED
    BY <2>1 DEF Leaves
<1>2. "linear" \notin WrittenViews /\ OutputViews(entry) \cap WrittenViews = {}
  BY DEF WrittenViews, GivenViews, OutputViews
<1>3. LinearOf(d.mem, id) => LinearOf(out.mem, id)
  BY <1>2, LinearLeft
<1>4. InOrder(out.mem, entry, id)
  <2>1. \A s \in LiveSlots : s[1] \in OutputViews(entry) => out.mem[s] = d.mem[s]
    BY <1>2 DEF Leaves
  <2>2. InOrder(d.mem, entry, id)
    BY DEF ActiveResult
  <2> QED
    BY <2>1, <2>2 DEF InOrder
<1>5. /\ FiniteForcing(d.mem, fault) <=> FiniteForcing(out.mem, fault)
      /\ Hidden(d.mem) <=> Hidden(out.mem)
      /\ \A S : Unforced(d.mem, S) <=> Unforced(out.mem, S)
      /\ CarriesSum(d.mem, ForcingSlot, id) <=> CarriesSum(out.mem, ForcingSlot, id)
      /\ Selected(d.mem) <=> Selected(out.mem)
  BY <1>1 DEF FiniteForcing, OnlyLast, Hidden, Unforced, CarriesSum, Selected
<1> QED
  BY <1>3, <1>4, <1>5 DEF ActiveResult

\* What is known of the outputs of an entry gives their order, and the modes of the
\* forcing.
LEMMA KnownInOrder ==
  ASSUME NEW memory, NEW known, NEW id, NEW more \in Extra, Knows(memory, known, id, 0, more),
         NEW entry, \A s \in LiveSlots : s[1] \in OutputViews(entry) => s \in known
  PROVE  InOrder(memory, entry, id) /\ Selected(memory)
<1>1. ASSUME NEW s \in known, NEW m \in Modes, NEW i \in memory[s][m], i # NonFinite
      PROVE  \E f \in InputFields, n \in ModesAt(s[1], m) : i = InputOf(f, id, n, RateOf(s, 0))
  <2>1. s \in LiveSlots /\ i \in Fresh(id, 0, more)[s][m]
    BY DEF Knows, Within
  <2>2. Fresh(id, 0, more)[s][m] = more \cup FreshAt(s, m, id, 0)
    BY <2>1 DEF Fresh
  <2>3. i \notin more
    BY <1>1 DEF Extra
  <2>4. i \in FreshAt(s, m, id, 0)
    BY <2>1, <2>2, <2>3
  <2> QED
    BY <2>4 DEF FreshAt
<1>2. \A f, n, k : InputOf(f, id, n, k).stage = id /\ InputOf(f, id, n, k).rate = k /\ InputOf(f, id, n, k).mode = n
  BY DEF InputOf
<1>3. InOrder(memory, entry, id)
  <2> SUFFICES ASSUME NEW s \in LiveSlots, NEW m \in Modes, s[1] \in OutputViews(entry),
                      NEW i \in memory[s][m] \ {NonFinite}
               PROVE  i.stage = id /\ i.rate = s[2].order
    BY DEF InOrder
  <2>1. s \in known
    OBVIOUS
  <2>2. PICK f \in InputFields, n \in ModesAt(s[1], m) : i = InputOf(f, id, n, RateOf(s, 0))
    BY <1>1, <2>1
  <2>3. i.stage = id /\ i.rate = RateOf(s, 0)
    BY <1>2, <2>2
  <2>4. RateOf(s, 0) = s[2].order + 0
    BY DEF RateOf, OutputViews
  <2>5. s[2].order \in Int
    BY LiveOrders
  <2> QED
    BY <2>3, <2>4, <2>5
<1>4. Selected(memory)
  <2> SUFFICES ASSUME NEW t \in Targets, NEW i \in memory[ForcingSlot][t] \ {NonFinite}
               PROVE  i.mode \in Reach(t)
    BY DEF Selected
  <2>1. ForcingSlot \in known /\ ForcingSlot[1] = "forcing" /\ t \in Modes
    BY ExposedPlaces, RegistryAssumption DEF ForcingSlot, OutputViews
  <2>2. i # NonFinite
    OBVIOUS
  <2>3. PICK f \in InputFields, n \in ModesAt(ForcingSlot[1], t) : i = InputOf(f, id, n, RateOf(ForcingSlot, 0))
    BY <1>1, <2>1, <2>2
  <2>4. ModesAt(ForcingSlot[1], t) = Reach(t)
    BY <2>1 DEF ModesAt, SummedViews
  <2> QED
    BY <1>2, <2>3, <2>4
<1> QED
  BY <1>3, <1>4

\* The slots of an output's view are those that the kernels have made.
LEMMA OutputSlots ==
  ASSUME NEW s \in LiveSlots
  PROVE  /\ s[1] = "primitive" => s \in {"primitive"} \X AllPrimitives
         /\ s[1] = "jk" => s \in {"jk"} \X AllJk
         /\ s[1] = "q" => s \in {"q"} \X QQuantities
         /\ s[1] = "projected" => s \in Projected
         /\ s[1] = "outer" => s \in {"outer"} \X OuterQuantities
         /\ s[1] = "source" => s \in SourcePlaces
         /\ s[1] = "forcing" => s = ForcingSlot
         /\ s[1] \in {"profiles", "curvature", "derivatives"} => s \in RouteBPlaces
<1>1. CASE s \in CurvatureSlots
  BY <1>1 DEF CurvatureSlots, RouteBPlaces
<1>2. CASE s \in PrimitiveSlots
  BY <1>2 DEF PrimitiveSlots, AllPrimitives, AllJk
<1>3. CASE s \in SourceSlots
  BY <1>3 DEF SourceSlots, AllPrimitives, AllJk, Projected, SourcePlaces, ForcingSlot
<1>4. CASE s \in LinearSlots \cup GivenSlots
  BY <1>4 DEF LinearSlots, GivenSlots
<1> QED
  BY <1>1, <1>2, <1>3, <1>4 DEF LiveSlots

LEMMA OutputsMade ==
  ASSUME NEW known, NEW entry, entry = "routeb" => RouteBPlaces \subseteq known
  PROVE  \A s \in LiveSlots : s[1] \in OutputViews(entry) => s \in SourceMade(PrimitiveMade(known))
<1> DEFINE made == SourceMade(PrimitiveMade(known))
<1>1. /\ known \subseteq made
      /\ {"primitive"} \X AllPrimitives \subseteq made /\ {"jk"} \X AllJk \subseteq made
      /\ {"q"} \X QQuantities \subseteq made /\ Projected \subseteq made
      /\ {"outer"} \X OuterQuantities \subseteq made
      /\ SourcePlaces \subseteq made /\ ForcingSlot \in made
  <2>1. known \subseteq PrimitiveMade(known)
    BY DEF PrimitiveMade
  <2> QED
    BY <2>1 DEF SourceMade, OuterMade, SourceInputs
<1> HIDE DEF made
<1>2. ASSUME NEW s \in LiveSlots, s[1] \in OutputViews(entry) PROVE s \in made
  <2>1. \/ s[1] \in {"primitive", "jk", "q", "projected", "outer", "source", "forcing"}
        \/ entry = "routeb" /\ s[1] \in {"profiles", "curvature", "derivatives"}
    BY <1>2 DEF OutputViews
  <2> QED
    BY <1>1, <2>1, OutputSlots
<1> QED
  BY <1>2 DEF made

LEMMA ExactCarries ==
  ASSUME NEW memory, NEW view, NEW id, Exact(memory, view, id)
  PROVE  Carries(memory, view, id)
<1>1. "H" \in ReconstructionFields /\ 0 \in 0 .. 2
  BY DEF ReconstructionFields
<1>2. \A m \in Modes : memory[<<view, Value("H", 0)>>][m] = {InputOf("H", id, m, 0)}
  BY <1>1 DEF Exact
<1> QED
  BY <1>2 DEF Carries, HSlot, HOf

\* An active stage of inputs that are ready exactly if they are whole.
LEMMA ActiveGives ==
  ASSUME NEW d, NEW out, NEW metric, NEW curvature, NEW derivatives, NEW g, NEW known, NEW id,
         NEW more \in Extra, NEW fault, ActiveDone(d, out, metric, curvature, derivatives, g, known, id, more, fault),
         NEW entry, entry = "routeb" => RouteBPlaces \subseteq known,
         NEW whole \in BOOLEAN,
         PrimitiveReady(d, metric, curvature, derivatives, g) => whole,
         whole /\ fault = NoFault => more = {} /\ PrimitiveReady(d, metric, curvature, derivatives, g),
         whole => Exact(d.mem, metric, id)
  PROVE  ActiveResult(out, entry, id, whole, fault)
<1> DEFINE ready == PrimitiveReady(d, metric, curvature, derivatives, g)
           made == SourceMade(PrimitiveMade(known))
<1>1. /\ out.ready \in BOOLEAN
      /\ Knows(out.mem, made, id, 0, more)
      /\ FiniteForcing(out.mem, fault)
      /\ ~out.ready => Hidden(out.mem) /\ Unforced(out.mem, Modes)
      /\ Unforced(out.mem, Modes \ Targets)
      /\ out.ready => ready
      /\ more = {} /\ ready => out.ready
      /\ out.ready /\ Carries(d.mem, metric, id) => CarriesSum(out.mem, ForcingSlot, id)
      /\ Exact(d.mem, metric, id) => LinearOf(out.mem, id)
  BY DEF ActiveDone
<1>2. \A s \in LiveSlots : s[1] \in OutputViews(entry) => s \in made
  BY OutputsMade
<1> HIDE DEF made
<1>3. InOrder(out.mem, entry, id) /\ Selected(out.mem)
  BY <1>1, <1>2, KnownInOrder
<1>4. whole => Carries(d.mem, metric, id)
  BY ExactCarries
<1> HIDE DEF ready
<1>5. (ready => whole) /\ (whole /\ fault = NoFault => more = {} /\ ready)
  BY DEF ready
<1> QED
  BY <1>1, <1>3, <1>4, <1>5 DEF ActiveResult

-----------------------------------------------------------------------------
(* The evaluations *)

LEMMA InactiveGives ==
  ASSUME NEW d, Shape(d), NEW out, out = NoForcing(d)
  PROVE  /\ Shape(out) /\ out.stamp = d.stamp
         /\ Leaves(out.mem, d.mem, {"forcing"}) /\ Unforced(out.mem, Modes)
<1>1. DOMAIN d = {"mem", "stamp", "ready"} /\ DOMAIN d.mem = LiveSlots /\ DOMAIN d.stamp = StampKeys
  BY DEF Shape
<1>2. out = [d EXCEPT !.mem = [d.mem EXCEPT ![ForcingSlot] = Zero]]
  BY DEF NoForcing, ForcingSlot
<1>3. out.mem = [d.mem EXCEPT ![ForcingSlot] = Zero] /\ out.stamp = d.stamp /\ DOMAIN out = DOMAIN d
  BY <1>1, <1>2
<1>4. ForcingSlot \in LiveSlots /\ ForcingSlot[1] = "forcing"
  BY ExposedPlaces DEF ForcingSlot
<1>5. Leaves(out.mem, d.mem, {"forcing"})
  BY <1>1, <1>3, <1>4 DEF Leaves
<1>6. out.mem[ForcingSlot] = Zero
  BY <1>1, <1>3, <1>4
<1> QED
  BY <1>1, <1>3, <1>5, <1>6 DEF Shape, Unforced, Zero

LEMMA StagesKeys ==
  \A k \in StampKeys : k[1] \in WrittenViews =>
    /\ k \notin PrimitiveKeys \cup OuterKeys /\ k \notin CurvatureKeys /\ k[1] # "routeb"
  BY DEF WrittenViews, GivenViews, PrimitiveKeys, OuterKeys, CurvatureKeys

LEMMA ForcedStageViews ==
  ASSUME NEW d, NEW entry, NEW active \in BOOLEAN, NEW late, NEW g, NEW fault,
         NEW metric, NEW curvature, NEW derivatives, Views[entry] = <<metric, curvature, derivatives>>
  PROVE  ForcedStage(d, entry, active, late, g, fault) =
           IF active THEN ActiveStage(d, metric, curvature, derivatives, late, g, fault) ELSE NoForcing(d)
  BY DEF ForcedStage, ActiveStage

LEMMA RouteBGives ==
  ASSUME Shape(device), Clean(device.mem), TowerOf(device, inputs),
         NEW g, NEW active \in BOOLEAN, NEW late, NEW fault,
         NEW out, out = ForcedStage(PackLevels(CurvatureStage(device, g, fault)), "routeb", active, late, g, fault)
  PROVE  Evaluated(device, out, "routeb", inputs, active,
                   inputs.good /\ inputs.generation = g, fault)
<1> DEFINE more == IF fault = NoFault THEN {} ELSE {NonFinite}
           a == PackLevels(CurvatureStage(device, g, fault))
           whole == inputs.good /\ inputs.generation = g
<1>1. more \in Extra /\ Spared(fault, more) /\ (fault = NoFault => more = {})
  BY NoFaultThere DEF Extra, Spared
<1> HIDE DEF more
<1>2. RouteBDone(device, a, inputs, g, more)
  BY <1>1, RouteBStage
<1>3. out = IF active THEN ActiveStage(a, "routeb", "curvature", "derivatives", late, g, fault) ELSE NoForcing(a)
  <2>1. Views["routeb"] = <<"routeb", "curvature", "derivatives">>
    BY DEF Views
  <2> HIDE DEF a
  <2>2. out = ForcedStage(a, "routeb", active, late, g, fault)
    BY DEF a
  <2> QED
    BY <2>1, <2>2, ForcedStageViews
<1> HIDE DEF a
<1>4. /\ Shape(a) /\ Clean(a.mem) /\ Leaves(a.mem, device.mem, RouteBViews)
      /\ \A k \in StampKeys : k[1] # "routeb" /\ k \notin CurvatureKeys => a.stamp[k] = device.stamp[k]
      /\ Knows(a.mem, RouteBPlaces, inputs.id, 0, more)
      /\ RouteBReady(a, g) => whole
      /\ more = {} /\ whole => RouteBReady(a, g)
      /\ inputs.good => Exact(a.mem, "routeb", inputs.id)
  BY <1>2 DEF RouteBDone
<1>5. CASE ~active
  <2>1. /\ Shape(out) /\ out.stamp = a.stamp
        /\ Leaves(out.mem, a.mem, {"forcing"}) /\ Unforced(out.mem, Modes)
    BY <1>3, <1>4, <1>5, InactiveGives
  <2>2. Clean(out.mem)
    <3>1. {"forcing"} \cap TargetViews = {}
      BY DEF TargetViews
    <3> QED
      BY <1>4, <2>1, <3>1, CleanLeft
  <2>3. Leaves(out.mem, device.mem, EvaluatedViews)
    <3>1. {"forcing"} \subseteq EvaluatedViews /\ RouteBViews \subseteq EvaluatedViews
      BY DEF EvaluatedViews, ActiveViews, SourceViews
    <3> QED
      BY <1>4, <2>1, <3>1 DEF Leaves
  <2>4. \A k \in StampKeys : k[1] \in WrittenViews => out.stamp[k] = device.stamp[k]
    BY <1>4, <2>1, StagesKeys
  <2> QED
    BY <1>5, <2>1, <2>2, <2>3, <2>4 DEF Evaluated
<1>6. CASE active
  <2>1. out = ActiveStage(a, "routeb", "curvature", "derivatives", late, g, fault)
    BY <1>3, <1>6
  <2>2. EntryViews("routeb", "curvature", "derivatives")
    BY DEF EntryViews
  <2>3. ActiveDone(a, out, "routeb", "curvature", "derivatives", g, RouteBPlaces, inputs.id, more, fault)
    BY <1>1, <1>4, <2>1, <2>2, RouteBIsReady, ActiveStageDone
  <2>4. whole \in BOOLEAN /\ inputs.good \in BOOLEAN
    BY DEF TowerOf
  <2>5. ActiveResult(out, "routeb", inputs.id, whole, fault)
    <3>1. whole => Exact(a.mem, "routeb", inputs.id)
      BY <1>4
    <3> HIDE DEF whole
    <3>2. PrimitiveReady(a, "routeb", "curvature", "derivatives", g) => whole
      BY <1>4 DEF RouteBReady
    <3>3. whole /\ fault = NoFault => more = {} /\ PrimitiveReady(a, "routeb", "curvature", "derivatives", g)
      BY <1>1, <1>4 DEF RouteBReady
    <3> QED
      BY <1>1, <2>3, <2>4, <3>1, <3>2, <3>3, ActiveGives
  <2>6. /\ Shape(out) /\ Clean(out.mem) /\ Leaves(out.mem, a.mem, ActiveViews)
        /\ \A k \in StampKeys : k \notin PrimitiveKeys \cup OuterKeys => out.stamp[k] = a.stamp[k]
    BY <2>3 DEF ActiveDone
  <2>7. Leaves(out.mem, device.mem, EvaluatedViews)
    BY <1>4, <2>6, LeavesAgain DEF EvaluatedViews
  <2>8. \A k \in StampKeys : k[1] \in WrittenViews => out.stamp[k] = device.stamp[k]
    BY <1>4, <2>6, StagesKeys
  <2> QED
    BY <1>6, <2>5, <2>6, <2>7, <2>8 DEF Evaluated
<1> QED
  BY <1>5, <1>6

LEMMA ScientificGives ==
  ASSUME Shape(device), Clean(device.mem), GivenOf(device, inputs),
         NEW g, NEW active \in BOOLEAN, NEW late,
         NEW out, out = ForcedStage(device, "scientific", active, late, g, NoFault)
  PROVE  Evaluated(device, out, "scientific", inputs, active,
                   inputs.good /\ inputs.generation = g, NoFault)
<1> DEFINE more == IF inputs.good THEN {} ELSE {NonFinite}
           whole == inputs.good /\ inputs.generation = g
<1>1. more \in Extra /\ Spared(NoFault, more) /\ (whole => more = {})
  BY NoFaultThere DEF Extra
<1>2. out = IF active THEN ActiveStage(device, "givenMetric", "givenCurvature", "givenDerivatives", late, g, NoFault)
            ELSE NoForcing(device)
  <2>1. Views["scientific"] = <<"givenMetric", "givenCurvature", "givenDerivatives">>
    BY DEF Views
  <2> QED
    BY <2>1, ForcedStageViews
<1>3. /\ inputs.good \in BOOLEAN
      /\ GivenReady(device, g) <=> whole
      /\ Knows(device.mem, GivenSlots, inputs.id, 0, more)
      /\ whole => Exact(device.mem, "givenMetric", inputs.id)
  BY DEF GivenOf
<1> HIDE DEF more
<1>4. CASE ~active
  <2>1. /\ Shape(out) /\ out.stamp = device.stamp
        /\ Leaves(out.mem, device.mem, {"forcing"}) /\ Unforced(out.mem, Modes)
    BY <1>2, <1>4, InactiveGives
  <2>2. Clean(out.mem)
    <3>1. {"forcing"} \cap TargetViews = {}
      BY DEF TargetViews
    <3> QED
      BY <2>1, <3>1, CleanLeft
  <2>3. Leaves(out.mem, device.mem, EvaluatedViews)
    <3>1. {"forcing"} \subseteq EvaluatedViews
      BY DEF EvaluatedViews, ActiveViews, SourceViews
    <3> QED
      BY <2>1, <3>1 DEF Leaves
  <2> QED
    BY <1>4, <2>1, <2>2, <2>3 DEF Evaluated
<1>5. CASE active
  <2>1. out = ActiveStage(device, "givenMetric", "givenCurvature", "givenDerivatives", late, g, NoFault)
    BY <1>2, <1>5
  <2>2. EntryViews("givenMetric", "givenCurvature", "givenDerivatives")
    BY DEF EntryViews
  <2>3. Ready(GivenSlots, "givenMetric", "givenCurvature", "givenDerivatives")
    BY GivenPlaces
  <2>4. ActiveDone(device, out, "givenMetric", "givenCurvature", "givenDerivatives", g, GivenSlots, inputs.id, more, NoFault)
    BY <1>1, <1>3, <2>1, <2>2, <2>3, ActiveStageDone
  <2>5. whole \in BOOLEAN
    BY <1>3
  <2>6. ActiveResult(out, "scientific", inputs.id, whole, NoFault)
    <3> HIDE DEF whole
    <3>1. PrimitiveReady(device, "givenMetric", "givenCurvature", "givenDerivatives", g) <=> whole
      BY <1>3 DEF GivenReady
    <3>2. whole => more = {} /\ PrimitiveReady(device, "givenMetric", "givenCurvature", "givenDerivatives", g)
      BY <1>1, <3>1
    <3>3. "scientific" = "routeb" => RouteBPlaces \subseteq GivenSlots
      OBVIOUS
    <3> QED
      BY <1>1, <1>3, <2>4, <2>5, <3>1, <3>2, <3>3, ActiveGives
  <2>7. /\ Shape(out) /\ Clean(out.mem) /\ Leaves(out.mem, device.mem, ActiveViews)
        /\ \A k \in StampKeys : k \notin PrimitiveKeys \cup OuterKeys => out.stamp[k] = device.stamp[k]
    BY <2>4 DEF ActiveDone
  <2>8. Leaves(out.mem, device.mem, EvaluatedViews)
    BY <2>7 DEF EvaluatedViews, Leaves
  <2>9. \A k \in StampKeys : k[1] \in WrittenViews => out.stamp[k] = device.stamp[k]
    BY <2>7, StagesKeys
  <2> QED
    BY <1>5, <2>6, <2>7, <2>8, <2>9 DEF Evaluated
<1> QED
  BY <1>4, <1>5

-----------------------------------------------------------------------------
(* The invariant *)

LEMMA InitLive == Init => LiveInv
<1> SUFFICES ASSUME Init PROVE LiveInv
  OBVIOUS
<1>1. /\ device = [mem |-> [s \in LiveSlots |-> Zero],
                   stamp |-> [k \in StampKeys |-> [m \in Modes |-> 0]], ready |-> FALSE]
      /\ inputs = Nothing /\ ~outcome.active
  BY DEF Init
<1>2. Shape(device)
  BY <1>1 DEF Shape
<1>3. \A s \in LiveSlots, m \in Modes : device.mem[s][m] = {}
  BY <1>1 DEF Zero
<1>4. Clean(device.mem) /\ Unforced(device.mem, Modes)
  BY <1>3, ExposedPlaces DEF Clean, Unforced
<1>5. \A k \in StampKeys, m \in Modes : device.stamp[k][m] = 0
  BY <1>1
<1>6. inputs.generation = 0 /\ inputs.entry = "none"
  BY <1>1 DEF Nothing
<1>7. GivenStamps(device, inputs.generation)
  BY <1>5, <1>6 DEF GivenStamps
<1> QED
  BY <1>1, <1>2, <1>4, <1>6, <1>7 DEF LiveInv, InputsInv, OutcomeInv

\* What the callers write comes between no evaluation and its outcome.
LEMMA WrittenOutcome ==
  ASSUME LiveInv, UNCHANGED outcome, Shape(device'), device'.ready = device.ready,
         Leaves(device'.mem, device.mem, WrittenViews)
  PROVE  Clean(device'.mem) /\ OutcomeInv'
<1>1. WrittenViews \cap TargetViews = {}
  BY DEF WrittenViews, GivenViews, TargetViews
<1>2. Clean(device'.mem)
  BY <1>1, CleanLeft DEF LiveInv
<1>3. outcome'.active => ActiveResult(device', outcome'.entry, outcome'.id, outcome'.whole, outcome'.fault)
  <2> SUFFICES ASSUME outcome.active
               PROVE  ActiveResult(device', outcome.entry, outcome.id, outcome.whole, outcome.fault)
    OBVIOUS
  <2>1. ActiveResult(device, outcome.entry, outcome.id, outcome.whole, outcome.fault)
    BY DEF LiveInv, OutcomeInv
  <2> QED
    BY <2>1, ActiveResultKept
<1>4. ~outcome'.active => Unforced(device'.mem, Modes)
  <2>1. device'.mem[ForcingSlot] = device.mem[ForcingSlot]
    <3>1. ForcingSlot \in LiveSlots /\ ForcingSlot[1] \notin WrittenViews
      BY ExposedPlaces DEF ForcingSlot, WrittenViews, GivenViews
    <3> QED
      BY <3>1 DEF Leaves
  <2> QED
    BY <2>1 DEF LiveInv, OutcomeInv, Unforced
<1> QED
  BY <1>2, <1>3, <1>4 DEF OutcomeInv

LEMMA TowerKeepsLive ==
  ASSUME LiveInv, NEW g \in Generations, g > inputs.generation, NEW height \in Heights,
         WriteTower(g, height)
  PROVE  LiveInv'
<1>1. TowerMade(device, device', inputs', g, height)
  BY WriteTowerMakes DEF LiveInv
<1>2. /\ Shape(device') /\ device'.ready = device.ready
      /\ TowerOf(device', inputs') /\ inputs'.generation = g /\ inputs'.entry = "routeb"
      /\ Leaves(device'.mem, device.mem, {"tower"})
      /\ \A k \in StampKeys : k[1] # "tower" => device'.stamp[k] = device.stamp[k]
  BY <1>1 DEF TowerMade
<1>3. Leaves(device'.mem, device.mem, WrittenViews)
  BY <1>2 DEF Leaves, WrittenViews
<1>4. Clean(device'.mem) /\ OutcomeInv'
  <2>1. UNCHANGED outcome
    BY DEF WriteTower
  <2> QED
    BY <1>2, <1>3, <2>1, WrittenOutcome
<1>5. g \in Nat
  BY LiveAssumption
<1>6. GivenStamps(device', g)
  <2> SUFFICES ASSUME NEW k \in StampKeys, NEW m \in Modes, Given(k) PROVE device'.stamp[k][m] \in 0 .. g
    BY DEF GivenStamps
  <2>1. device'.stamp[k] = device.stamp[k]
    BY <1>2 DEF Given
  <2>2. device.stamp[k][m] \in 0 .. inputs.generation /\ inputs.generation \in Nat
    BY DEF LiveInv, InputsInv, GivenStamps
  <2> QED
    BY <1>5, <2>1, <2>2
<1> QED
  BY <1>2, <1>4, <1>5, <1>6 DEF LiveInv, InputsInv

LEMMA GivenKeepsLive ==
  ASSUME LiveInv, NEW g \in Generations, g > inputs.generation,
         NEW flaws \in {{}} \cup {{f} : f \in Flaws}, WriteGiven(g, flaws)
  PROVE  LiveInv'
<1>1. GivenMade(device, device', inputs', g)
  BY WriteGivenMakes DEF LiveInv, InputsInv
<1>2. /\ Shape(device') /\ device'.ready = device.ready
      /\ GivenOf(device', inputs') /\ inputs'.generation = g /\ inputs'.entry = "scientific"
      /\ Leaves(device'.mem, device.mem, GivenViews)
      /\ \A k \in StampKeys, m \in Modes : Given(k) => device'.stamp[k][m] \in {device.stamp[k][m], g}
  BY <1>1 DEF GivenMade
<1>3. Leaves(device'.mem, device.mem, WrittenViews)
  BY <1>2 DEF Leaves, WrittenViews
<1>4. Clean(device'.mem) /\ OutcomeInv'
  <2>1. UNCHANGED outcome
    BY DEF WriteGiven
  <2> QED
    BY <1>2, <1>3, <2>1, WrittenOutcome
<1>5. g \in Nat
  BY LiveAssumption
<1>6. GivenStamps(device', g)
  <2> SUFFICES ASSUME NEW k \in StampKeys, NEW m \in Modes, Given(k) PROVE device'.stamp[k][m] \in 0 .. g
    BY DEF GivenStamps
  <2>1. device'.stamp[k][m] \in {device.stamp[k][m], g}
    BY <1>2
  <2>2. device.stamp[k][m] \in 0 .. inputs.generation /\ inputs.generation \in Nat
    BY DEF LiveInv, InputsInv, GivenStamps
  <2> QED
    BY <1>5, <2>1, <2>2
<1> QED
  BY <1>2, <1>4, <1>5, <1>6 DEF LiveInv, InputsInv

LEMMA EvaluatedKeepsLive ==
  ASSUME LiveInv, UNCHANGED inputs, NEW entry, NEW active \in BOOLEAN, NEW whole, NEW fault,
         Evaluated(device, device', entry, inputs, active, whole, fault),
         outcome' = [id |-> inputs.id, entry |-> entry, active |-> active,
                     whole |-> whole, fault |-> fault]
  PROVE  LiveInv'
<1>1. /\ Shape(device') /\ Clean(device'.mem) /\ Leaves(device'.mem, device.mem, EvaluatedViews)
      /\ \A k \in StampKeys : k[1] \in WrittenViews => device'.stamp[k] = device.stamp[k]
      /\ active => ActiveResult(device', entry, inputs.id, whole, fault)
      /\ ~active => Unforced(device'.mem, Modes)
  BY DEF Evaluated
<1>2. OutcomeInv'
  BY <1>1 DEF OutcomeInv
<1>3. DOMAIN device'.mem = LiveSlots
  BY <1>1 DEF Shape
<1>4. "tower" \notin EvaluatedViews /\ EvaluatedViews \cap GivenViews = {}
  BY DEF EvaluatedViews, ActiveViews, RouteBViews, CurvatureViews, PrimitiveViews, SourceViews, GivenViews
<1>5. \A k \in StampKeys : Given(k) => device'.stamp[k] = device.stamp[k]
  BY <1>1 DEF Given, WrittenViews, GivenViews
<1>6. \A l \in 0 .. 4 : device'.stamp[<<"tower", l>>] = device.stamp[<<"tower", l>>]
  <2> SUFFICES ASSUME NEW l \in 0 .. 4 PROVE device'.stamp[<<"tower", l>>] = device.stamp[<<"tower", l>>]
    OBVIOUS
  <2>1. <<"tower", l>> \in StampKeys /\ <<"tower", l>>[1] \in WrittenViews
    BY DEF StampKeys, WrittenViews
  <2> QED
    BY <1>1, <2>1
<1>7. inputs.entry = "routeb" => TowerOf(device', inputs)
  <2>1. inputs.entry = "routeb" => TowerOf(device, inputs)
    BY DEF LiveInv, InputsInv
  <2> QED
    BY <1>1, <1>3, <1>4, <1>6, <2>1, TowerKept
<1>8. inputs.entry = "scientific" => GivenOf(device', inputs)
  <2>1. inputs.entry = "scientific" => GivenOf(device, inputs)
    BY DEF LiveInv, InputsInv
  <2> QED
    BY <1>1, <1>3, <1>4, <1>5, <2>1, GivenKept
<1>9. GivenStamps(device', inputs.generation)
  BY <1>5 DEF LiveInv, InputsInv, GivenStamps
<1> QED
  BY <1>1, <1>2, <1>7, <1>8, <1>9 DEF LiveInv, InputsInv

LEMMA RouteBKeepsLive ==
  ASSUME LiveInv, EvaluateRouteB
  PROVE  LiveInv'
<1>1. PICK g \in Generations, active \in BOOLEAN, late \in {{}, Modes},
          fault \in {NoFault} \cup Overflows :
        inputs.entry = "routeb" /\ Evaluate("routeb", g, active, late, fault)
  BY DEF EvaluateRouteB
<1> DEFINE whole == inputs.good /\ inputs.generation = g
<1>2. /\ device' = ForcedStage(PackLevels(CurvatureStage(device, g, fault)), "routeb", active, late, g, fault)
      /\ outcome' = [id |-> inputs.id, entry |-> "routeb", active |-> active,
                     whole |-> whole, fault |-> fault]
      /\ UNCHANGED inputs
  BY <1>1 DEF Evaluate
<1>3. Evaluated(device, device', "routeb", inputs, active, whole, fault)
  BY <1>1, <1>2, RouteBGives DEF LiveInv, InputsInv
<1> HIDE DEF whole
<1> QED
  BY <1>2, <1>3, EvaluatedKeepsLive

LEMMA ScientificKeepsLive ==
  ASSUME LiveInv, EvaluateScientific
  PROVE  LiveInv'
<1>1. PICK g \in Generations, active \in BOOLEAN :
        inputs.entry = "scientific" /\ Evaluate("scientific", g, active, {}, NoFault)
  BY DEF EvaluateScientific
<1> DEFINE whole == inputs.good /\ inputs.generation = g
<1>2. /\ device' = ForcedStage(device, "scientific", active, {}, g, NoFault)
      /\ outcome' = [id |-> inputs.id, entry |-> "scientific", active |-> active,
                     whole |-> whole, fault |-> NoFault]
      /\ UNCHANGED inputs
  BY <1>1 DEF Evaluate
<1>3. Evaluated(device, device', "scientific", inputs, active, whole, NoFault)
  BY <1>1, <1>2, ScientificGives DEF LiveInv, InputsInv
<1> HIDE DEF whole
<1> QED
  BY <1>2, <1>3, EvaluatedKeepsLive

LEMMA NextLive == LiveInv /\ [Next]_vars => LiveInv'
<1> SUFFICES ASSUME LiveInv, [Next]_vars PROVE LiveInv'
  OBVIOUS
<1>1. CASE Write
  <2>1. PICK g \in Generations :
          /\ g > inputs.generation
          /\ \/ \E height \in Heights : WriteTower(g, height)
             \/ \E flaws \in {{}} \cup {{f} : f \in Flaws} : WriteGiven(g, flaws)
    BY <1>1 DEF Write
  <2> QED
    BY <2>1, TowerKeepsLive, GivenKeepsLive
<1>2. CASE EvaluateRouteB
  BY <1>2, RouteBKeepsLive
<1>3. CASE EvaluateScientific
  BY <1>3, ScientificKeepsLive
<1>4. CASE UNCHANGED vars
  <2>1. UNCHANGED <<device, inputs, outcome>>
    BY <1>4 DEF vars
  <2> QED
    BY <2>1 DEF LiveInv, InputsInv, OutcomeInv, GivenStamps
<1> QED
  BY <1>1, <1>2, <1>3, <1>4 DEF Next

LEMMA LiveAlways == Spec => []LiveInv
  BY InitLive, NextLive, PTL DEF Spec

-----------------------------------------------------------------------------
(* The theorems *)

LEMMA AddingIsPaired ==
  ASSUME NEW t \in Targets
  PROVE  Adding(t) # {} <=> Pairs(t) # {}
<1>1. t \in Int /\ \A p \in Parents : p \in Int
  BY RegistryAssumption, ModesAssumption
<1>2. ASSUME NEW p \in Adding(t) PROVE <<p, t - p>> \in Pairs(t)
  <2>1. p \in Parents /\ t - p \in Parents
    BY DEF Adding
  <2>2. p + (t - p) = t
    BY <1>1, <2>1
  <2> QED
    BY <2>1, <2>2 DEF Pairs
<1>3. ASSUME NEW p \in Pairs(t) PROVE p[1] \in Adding(t)
  BY PairReach
<1> QED
  BY <1>2, <1>3

\* A stage that is ready forces the targets with pairs, and no others.
LEMMA ReadyIsForced ==
  ASSUME LiveInv, outcome.active, device.ready
  PROVE  Forced
<1>1. /\ CarriesSum(device.mem, ForcingSlot, outcome.id) /\ Selected(device.mem)
      /\ FiniteForcing(device.mem, outcome.fault)
  BY DEF LiveInv, OutcomeInv, ActiveResult
<1> SUFFICES ASSUME NEW t \in Targets PROVE Forcing(t) # {} <=> Pairs(t) # {}
  BY DEF Forced
<1>2. Forcing(t) = device.mem[ForcingSlot][t]
  BY DEF Forcing, ForcingSlot
<1>3. ASSUME Adding(t) # {} PROVE Forcing(t) # {}
  BY <1>1, <1>2, <1>3 DEF CarriesSum
<1>4. ASSUME Forcing(t) # {} PROVE Adding(t) # {}
  <2>1. PICK i \in Forcing(t) : TRUE
    BY <1>4
  <2>2. CASE i = NonFinite
    <3>1. t \in Modes
      BY RegistryAssumption
    <3> QED
      BY <1>1, <1>2, <2>1, <2>2, <3>1 DEF FiniteForcing, OnlyLast
  <2>3. CASE i # NonFinite
    <3>1. i.mode \in Reach(t)
      BY <1>1, <1>2, <2>1, <2>3 DEF Selected
    <3> QED
      BY <3>1 DEF Reach
  <2> QED
    BY <2>2, <2>3
<1> QED
  BY <1>3, <1>4, AddingIsPaired

LEMMA ForcedOnlyIfReady ==
  ASSUME LiveInv, NEW m \in Modes, Forcing(m) # {}
  PROVE  outcome.active /\ device.ready
<1>1. Forcing(m) = device.mem[ForcingSlot][m]
  BY DEF Forcing, ForcingSlot
<1>2. outcome.active
  <2> SUFFICES ASSUME ~outcome.active PROVE FALSE
    OBVIOUS
  <2>1. Unforced(device.mem, Modes)
    BY DEF LiveInv, OutcomeInv
  <2> QED
    BY <1>1, <2>1 DEF Unforced
<1>3. device.ready
  <2> SUFFICES ASSUME ~device.ready PROVE FALSE
    OBVIOUS
  <2>1. Unforced(device.mem, Modes)
    BY <1>2 DEF LiveInv, OutcomeInv, ActiveResult
  <2> QED
    BY <1>1, <2>1 DEF Unforced
<1> QED
  BY <1>2, <1>3

\* The forcing of the field psi^(2) is there for every target with pairs or for none;
\* it is there only for an active stage of inputs that were whole, of one stage and
\* one generation; otherwise it is zero, and so is what the diagnostics show.  Nothing
\* in it overflowed before the last kernel; what overflows there, S0 / R^7 or the
\* forcing of a mode, goes out with the forcing of that mode.
THEOREM ForcingIsWholeOrZero == Spec => []ForcingWholeOrZero
<1>1. ASSUME LiveInv PROVE ForcingWholeOrZero
  <2>1. \A m : Forcing(m) = device.mem[ForcingSlot][m]
    BY DEF Forcing, ForcingSlot
  <2>2. ASSUME outcome.active, ~outcome.whole \/ ~device.ready PROVE Closed
    <3>1. ActiveResult(device, outcome.entry, outcome.id, outcome.whole, outcome.fault)
      BY <1>1, <2>2 DEF LiveInv, OutcomeInv
    <3>2. Hidden(device.mem) /\ Unforced(device.mem, Modes)
      BY <2>2, <3>1 DEF ActiveResult
    <3> QED
      BY <2>1, <3>2 DEF Closed, Hidden, Unforced
  <2>3. ASSUME ~outcome.active, NEW m \in Modes PROVE Forcing(m) = {}
    BY <1>1, <2>3, ForcedOnlyIfReady
  <2>4. ASSUME NEW m \in Modes, NonFinite \in Forcing(m)
        PROVE  outcome.fault.slot \in LastNumbers /\ outcome.fault.mode = m
    <3>1. outcome.active
      BY <1>1, <2>4, ForcedOnlyIfReady
    <3>2. FiniteForcing(device.mem, outcome.fault)
      BY <1>1, <3>1 DEF LiveInv, OutcomeInv, ActiveResult
    <3> QED
      BY <2>1, <2>4, <3>2 DEF FiniteForcing, OnlyLast
  <2>5. ASSUME NEW m \in Modes, Forcing(m) # {} PROVE device.ready /\ Forced
    BY <1>1, <2>5, ForcedOnlyIfReady, ReadyIsForced
  <2> QED
    BY <2>2, <2>3, <2>4, <2>5 DEF ForcingWholeOrZero
<1> QED
  BY <1>1, LiveAlways, PTL

\* A stage that is whole and active and does not overflow is forced, whatever was
\* evaluated or rejected before it.
THEOREM SoundStagesAreForced == Spec => []SoundStageIsForced
<1>1. ASSUME LiveInv PROVE SoundStageIsForced
  <2> SUFFICES ASSUME outcome.active, outcome.whole, outcome.fault = NoFault PROVE device.ready /\ Forced
    BY DEF SoundStageIsForced
  <2>1. device.ready
    BY <1>1 DEF LiveInv, OutcomeInv, ActiveResult
  <2> QED
    BY <1>1, <2>1, ReadyIsForced
<1> QED
  BY <1>1, LiveAlways, PTL

\* What an output holds is of the stage evaluated last, and a slot for the k-th time
\* derivative holds that one, although stages and levels share their scratch.
THEOREM OrdersAreKept == Spec => []OrdersKept
<1>1. ASSUME LiveInv PROVE OrdersKept
  <2>1. Outputs = OutputViews(outcome.entry)
    BY DEF Outputs, OutputViews
  <2>2. outcome.active => InOrder(device.mem, outcome.entry, outcome.id)
    BY <1>1 DEF LiveInv, OutcomeInv, ActiveResult
  <2> HIDE DEF Outputs
  <2> QED
    BY <2>1, <2>2 DEF OrdersKept, InOrder
<1> QED
  BY <1>1, LiveAlways, PTL

\* A forced target is made of all modes that add up to it with another parent, and
\* of their mirror images, and of no others.
THEOREM ModesAreSelected == Spec => []ModesSelected
<1>1. ASSUME LiveInv PROVE ModesSelected
  <2> SUFFICES ASSUME NEW t \in Targets, Forcing(t) # {}
               PROVE  /\ Adding(t) \subseteq {i.mode : i \in Forcing(t) \ {NonFinite}}
                      /\ {i.mode : i \in Forcing(t) \ {NonFinite}}
                           \subseteq Adding(t) \cup {-p : p \in Adding(t)}
    BY DEF ModesSelected, Adding
  <2>1. Forcing(t) = device.mem[ForcingSlot][t]
    BY DEF Forcing, ForcingSlot
  <2>2. outcome.active /\ device.ready
    BY <1>1, ForcedOnlyIfReady, RegistryAssumption
  <2>3. CarriesSum(device.mem, ForcingSlot, outcome.id) /\ Selected(device.mem)
    BY <1>1, <2>2 DEF LiveInv, OutcomeInv, ActiveResult
  <2>4. ASSUME NEW p \in Adding(t) PROVE p \in {i.mode : i \in Forcing(t) \ {NonFinite}}
    <3>1. HOf(outcome.id, p) \in Forcing(t) /\ HOf(outcome.id, p) # NonFinite
      <4>1. "H" \in InputFields
        BY DEF InputFields, ReconstructionFields
      <4> QED
        BY <2>1, <2>3, <4>1, MovedInput DEF CarriesSum, HOf
    <3>2. HOf(outcome.id, p).mode = p
      BY DEF HOf, InputOf
    <3> QED
      BY <3>1, <3>2
  <2>5. \A i \in Forcing(t) \ {NonFinite} : i.mode \in Adding(t) \cup {-p : p \in Adding(t)}
    BY <2>1, <2>3 DEF Selected, Reach
  <2> QED
    BY <2>4, <2>5
<1> QED
  BY <1>1, LiveAlways, PTL

\* The linear Psi_0 that goes with a whole active stage is made of that stage's metric
\* and of both its time derivatives, of the modes that it is to be made of.
THEOREM LinearPsiIsItsStages == Spec => []LinearPsiIsOfItsStage
<1>1. ASSUME LiveInv PROVE LinearPsiIsOfItsStage
  <2> SUFFICES ASSUME outcome.active, outcome.whole PROVE LinearOf(device.mem, outcome.id)
    BY DEF LinearPsiIsOfItsStage, LinearOf
  <2> QED
    BY <1>1 DEF LiveInv, OutcomeInv, ActiveResult
<1> QED
  BY <1>1, LiveAlways, PTL

=============================================================================
