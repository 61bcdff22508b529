------------------------- MODULE KernelQueueProofs -------------------------
(***************************************************************************)
(* Theorems about KernelQueue, for all modes, parents, targets, policies   *)
(* and time steps.                                                         *)
(*                                                                         *)
(* Every slot has a rank, a band and a level: the fields it may be         *)
(* computed from, the modes it may be nonzero at, and the time derivatives *)
(* it has.  A kernel whose reads fit the slots it writes keeps memory      *)
(* sound (AfterKeeps), a list of such kernels makes its slots known        *)
(* (Makes), and an evaluation is such a list (EvaluationLeaves), whatever  *)
(* the buffers held before.  The invariants of the queue add where the     *)
(* device is in the four stages (StageInv), what executing the rest of the *)
(* queue will come to (ReadInv), and with which latch it was launched      *)
(* (LatchInv).                                                             *)
(***************************************************************************)
EXTENDS KernelQueue, SequenceTheorems, WellFoundedInduction, TLAPS

-----------------------------------------------------------------------------
(* Induction over the kernels of a list.  A nonempty set of natural numbers  *)
(* has a least element, so one that is closed under successor has no gap.    *)

Smaller == {ss \in Nat \X Nat : ss[1] < ss[2]}

LEMMA SmallerWellFounded == IsWellFoundedOn(Smaller, Nat)
  BY NatLessThanWellFounded DEF OpToRel, Smaller

\* A set of naturals with 0, closed under successor, has them all.
LEMMA Steps ==
  ASSUME NEW S, 0 \in S, \A n \in Nat : n \in S => n + 1 \in S
  PROVE  Nat \subseteq S
<1> SUFFICES ASSUME ~ (Nat \subseteq S) PROVE FALSE
  OBVIOUS
<1> DEFINE T == Nat \ S
<1>1. T \subseteq Nat /\ T # {}
  OBVIOUS
<1>2. PICK x \in T : \A y \in T : ~ (<<y, x>> \in Smaller)
  BY <1>1, SmallerWellFounded, WFMin
<1>3. x \in Nat /\ x # 0
  BY <1>2
<1>4. x - 1 \in Nat /\ x - 1 < x /\ (x - 1) + 1 = x
  BY <1>3
<1>5. x - 1 \in S
  <2>1. <<x - 1, x>> \in Smaller
    BY <1>3, <1>4 DEF Smaller
  <2> QED
    BY <1>2, <1>4, <2>1
<1> QED
  BY <1>2, <1>4, <1>5

-----------------------------------------------------------------------------
(* Running kernels *)

\* done is the memory after each of the first n kernels.
RunOf(mem, kernels, done, n) ==
  done = [k \in 0 .. n |-> IF k = 0 THEN mem ELSE After(done[k - 1], kernels[k])]

\* Run is a CHOOSE: there is a sequence of memories for it to choose.
LEMMA RunExists ==
  ASSUME NEW mem, NEW kernels, NEW n \in Nat
  PROVE  \E done : RunOf(mem, kernels, done, n)
<1> DEFINE S == {k \in Nat : \E f : RunOf(mem, kernels, f, k)}
<1>1. 0 \in S
  <2>1. RunOf(mem, kernels, [k \in 0 .. 0 |-> mem], 0)
    BY DEF RunOf
  <2> QED
    BY <2>1
<1>2. ASSUME NEW k \in Nat, k \in S PROVE k + 1 \in S
  <2>1. PICK f : RunOf(mem, kernels, f, k)
    BY <1>2
  <2> DEFINE g == [i \in 0 .. k + 1 |->
                     IF i = k + 1 THEN After(f[k], kernels[k + 1]) ELSE f[i]]
  <2>2. \A i \in 0 .. k : g[i] = f[i]
    OBVIOUS
  <2>3. \A i \in 0 .. k :
          f[i] = IF i = 0 THEN mem ELSE After(f[i - 1], kernels[i])
    BY <2>1 DEF RunOf
  <2>4. ASSUME NEW i \in 0 .. k + 1
        PROVE  g[i] = IF i = 0 THEN mem ELSE After(g[i - 1], kernels[i])
    <3>1. CASE i = 0
      BY <2>2, <2>3, <3>1
    <3>2. CASE i \in 1 .. k
      <4>1. i - 1 \in 0 .. k /\ i \in 0 .. k
        BY <3>2
      <4> QED
        BY <2>2, <2>3, <3>2, <4>1
    <3>3. CASE i = k + 1
      <4>1. i - 1 = k /\ i # 0 /\ k \in 0 .. k
        BY <3>3
      <4>2. g[i - 1] = f[k] /\ g[i] = After(f[k], kernels[k + 1])
        BY <2>2, <3>3, <4>1
      <4> QED
        BY <3>3, <4>1, <4>2
    <3> QED
      BY <3>1, <3>2, <3>3
  <2>5. RunOf(mem, kernels, g, k + 1)
    <3> HIDE DEF g
    <3>1. g = [i \in 0 .. k + 1 |-> g[i]]
      BY DEF g
    <3> QED
      BY <2>4, <3>1 DEF RunOf
  <2> QED
    BY <2>5
<1>3. Nat \subseteq S
  <2> HIDE DEF S
  <2> QED
    BY <1>1, <1>2, Steps
<1> QED
  BY <1>3

\* The memories between the kernels of a list, each kernel launched on what the
\* one before has left.
Launching(mem, kernels, done) ==
  /\ done[0] = mem
  /\ \A n \in 1 .. Len(kernels) : done[n] = After(done[n - 1], kernels[n])

\* Run is the last of them.
LEMMA RunSteps ==
  ASSUME NEW mem, NEW kernels, Len(kernels) \in Nat
  PROVE  \E done : Launching(mem, kernels, done) /\ Run(mem, kernels) = done[Len(kernels)]
<1>1. \E f : RunOf(mem, kernels, f, Len(kernels))
  BY RunExists
<1> DEFINE done == CHOOSE f : RunOf(mem, kernels, f, Len(kernels))
<1>2. RunOf(mem, kernels, done, Len(kernels))
  BY <1>1
<1>3. Run(mem, kernels) = done[Len(kernels)]
  BY DEF Run, RunOf
<1> HIDE DEF done
<1>4. \A n \in 0 .. Len(kernels) :
        done[n] = IF n = 0 THEN mem ELSE After(done[n - 1], kernels[n])
  BY <1>2 DEF RunOf
<1>5. Launching(mem, kernels, done)
  BY <1>4 DEF Launching
<1> QED
  BY <1>3, <1>5

\* Any such memories end in the same one.
LEMMA RunIsLast ==
  ASSUME NEW mem, NEW kernels, Len(kernels) \in Nat, NEW done,
         Launching(mem, kernels, done)
  PROVE  Run(mem, kernels) = done[Len(kernels)]
<1>0. PICK d : Launching(mem, kernels, d) /\ Run(mem, kernels) = d[Len(kernels)]
  BY RunSteps
<1>1. /\ d[0] = mem /\ done[0] = mem
      /\ \A n \in 1 .. Len(kernels) : d[n] = After(d[n - 1], kernels[n])
      /\ \A n \in 1 .. Len(kernels) : done[n] = After(done[n - 1], kernels[n])
      /\ Run(mem, kernels) = d[Len(kernels)]
  BY <1>0 DEF Launching
<1> DEFINE S == {n \in Nat : n <= Len(kernels) => d[n] = done[n]}
<1>2. 0 \in S
  BY <1>1
<1>3. ASSUME NEW n \in Nat, n \in S PROVE n + 1 \in S
  <2> SUFFICES ASSUME n + 1 <= Len(kernels) PROVE d[n + 1] = done[n + 1]
    OBVIOUS
  <2>1. d[n] = done[n] /\ n + 1 \in 1 .. Len(kernels) /\ (n + 1) - 1 = n
    BY <1>3
  <2>2. d[n + 1] = After(d[n], kernels[n + 1])
    BY <1>1, <2>1
  <2>3. done[n + 1] = After(done[n], kernels[n + 1])
    BY <1>1, <2>1
  <2> QED
    BY <2>1, <2>2, <2>3
<1>4. Len(kernels) \in S
  <2> HIDE DEF S
  <2> QED
    BY <1>2, <1>3, Steps
<1> QED
  BY <1>1, <1>4

IsList(kernels) == \E S : kernels \in Seq(S)

\* The lists of the kernel graph are finite sequences of anything.
LEMMA ListLength ==
  ASSUME NEW a, IsList(a) PROVE Len(a) \in Nat
  BY DEF IsList

LEMMA ConcatList ==
  ASSUME NEW a, NEW b, IsList(a), IsList(b)
  PROVE  /\ IsList(a \o b)
         /\ Len(a \o b) = Len(a) + Len(b)
         /\ \A n \in 1 .. Len(a) : (a \o b)[n] = a[n]
         /\ \A n \in 1 .. Len(b) : (a \o b)[Len(a) + n] = b[n]
<1>1. PICK S : a \in Seq(S)
  BY DEF IsList
<1>2. PICK T : b \in Seq(T)
  BY DEF IsList
<1>3. a \in Seq(S \cup T) /\ b \in Seq(S \cup T)
  BY <1>1, <1>2
<1> DEFINE U == S \cup T
<1> HIDE DEF U
<1>4. a \in Seq(U) /\ b \in Seq(U)
  BY <1>3 DEF U
<1>5. a \o b \in Seq(U)
  BY <1>4
<1>6. Len(a \o b) = Len(a) + Len(b)
  BY <1>4
<1>7. \A n \in 1 .. Len(a) : (a \o b)[n] = a[n]
  BY <1>4
<1>8. \A n \in 1 .. Len(b) : (a \o b)[Len(a) + n] = b[n]
  BY <1>4
<1> QED
  BY <1>5, <1>6, <1>7, <1>8 DEF IsList

\* Two lists launched one behind the other.
LEMMA RunConcat ==
  ASSUME NEW mem, NEW a, NEW b, IsList(a), IsList(b)
  PROVE  Run(mem, a \o b) = Run(Run(mem, a), b)
<1> DEFINE c == a \o b
<1>1. /\ Len(a) \in Nat /\ Len(b) \in Nat /\ Len(c) = Len(a) + Len(b)
      /\ \A n \in 1 .. Len(a) : c[n] = a[n]
      /\ \A n \in 1 .. Len(b) : c[Len(a) + n] = b[n]
  BY ConcatList, ListLength
<1> HIDE DEF c
<1>0. PICK d : Launching(mem, c, d) /\ Run(mem, c) = d[Len(c)]
  <2>1. Len(c) \in Nat
    BY <1>1
  <2> QED
    BY <2>1, RunSteps
<1>2. /\ d[0] = mem
      /\ \A n \in 1 .. Len(c) : d[n] = After(d[n - 1], c[n])
      /\ Run(mem, c) = d[Len(c)]
  BY <1>0 DEF Launching
<1>3. Run(mem, a) = d[Len(a)]
  <2>1. \A n \in 1 .. Len(a) : d[n] = After(d[n - 1], a[n])
    BY <1>1, <1>2
  <2>2. Launching(mem, a, d)
    BY <1>2, <2>1 DEF Launching
  <2> QED
    BY <1>1, <2>2, RunIsLast
<1> DEFINE e == [n \in 0 .. Len(b) |-> d[Len(a) + n]]
<1>4. e[0] = Run(mem, a) /\ e[Len(b)] = Run(mem, c)
  BY <1>1, <1>2, <1>3
<1>5. ASSUME NEW n \in 1 .. Len(b) PROVE e[n] = After(e[n - 1], b[n])
  <2>1. e[n] = d[Len(a) + n] /\ e[n - 1] = d[Len(a) + (n - 1)]
    BY <1>1
  <2>2. Len(a) + n \in 1 .. Len(c) /\ (Len(a) + n) - 1 = Len(a) + (n - 1)
    BY <1>1
  <2>3. d[Len(a) + n] = After(d[(Len(a) + n) - 1], c[Len(a) + n])
    BY <1>2, <2>2
  <2> QED
    BY <1>1, <2>1, <2>2, <2>3
<1> HIDE DEF e
<1>6. Run(Run(mem, a), b) = e[Len(b)]
  <2>1. Launching(Run(mem, a), b, e)
    BY <1>4, <1>5 DEF Launching
  <2> QED
    BY <1>1, <2>1, RunIsLast
<1> QED
  BY <1>4, <1>6 DEF c

LEMMA RunOne ==
  ASSUME NEW mem, NEW kernel
  PROVE  IsList(<<kernel>>) /\ Run(mem, <<kernel>>) = After(mem, kernel)
<1> DEFINE d == [n \in 0 .. 1 |-> IF n = 0 THEN mem ELSE After(mem, kernel)]
           k == <<kernel>>
<1>1. k \in Seq({kernel}) /\ Len(k) = 1 /\ k[1] = kernel
  OBVIOUS
<1>2. d[0] = mem /\ d[1] = After(mem, kernel)
  OBVIOUS
<1> HIDE DEF d, k
<1>3. \A n \in 1 .. Len(k) : d[n] = After(d[n - 1], k[n])
  BY <1>1, <1>2
<1>4. Run(mem, k) = d[Len(k)]
  <2>1. Len(k) \in Nat /\ Launching(mem, k, d)
    BY <1>1, <1>2, <1>3 DEF Launching
  <2> QED
    BY <2>1, RunIsLast
<1>5. IsList(k)
  BY <1>1 DEF IsList
<1>6. Run(mem, k) = After(mem, kernel)
  BY <1>1, <1>2, <1>4
<1> QED
  BY <1>5, <1>6, Zenon DEF k

\* A list that is written down is the list without its last, and the last.
LEMMA Joined ==
  ASSUME NEW S, NEW p \in Seq(S), NEW q \in Seq(S), NEW w \in Seq(S),
         Len(w) = Len(p) + Len(q),
         \A i \in 1 .. Len(w) : w[i] = IF i <= Len(p) THEN p[i] ELSE q[i - Len(p)]
  PROVE  w = p \o q
<1>1. /\ p \o q \in Seq(S) /\ Len(p \o q) = Len(p) + Len(q)
      /\ \A i \in 1 .. Len(p) + Len(q) :
           (p \o q)[i] = IF i <= Len(p) THEN p[i] ELSE q[i - Len(p)]
  BY ConcatProperties, Zenon
<1> DEFINE v == p \o q
<1> HIDE DEF v
<1>2. v \in Seq(S) /\ Len(w) = Len(v) /\ \A i \in 1 .. Len(w) : w[i] = v[i]
  BY <1>1 DEF v
<1>3. w = v
  BY <1>2, SeqEqual
<1> QED
  BY <1>3 DEF v

LEMMA ListOfTwo ==
  ASSUME NEW a, NEW b PROVE <<a, b>> = <<a>> \o <<b>>
<1> DEFINE S == {a, b}
           p == <<a>>
           q == <<b>>
           w == <<a, b>>
<1>1. p \in Seq(S) /\ Len(p) = 1 /\ p[1] = a
  OBVIOUS
<1>2. q \in Seq(S) /\ Len(q) = 1 /\ q[1] = b
  OBVIOUS
<1>3. w \in Seq(S) /\ Len(w) = 2 /\ w[1] = a /\ w[2] = b
  OBVIOUS
<1> HIDE DEF S, p, q, w
<1>4. w = p \o q
  <2>1. Len(w) = Len(p) + Len(q)
    BY <1>1, <1>2, <1>3
  <2>2. ASSUME NEW i \in 1 .. Len(w)
        PROVE  w[i] = IF i <= Len(p) THEN p[i] ELSE q[i - Len(p)]
    BY <1>1, <1>2, <1>3
  <2> QED
    BY <1>1, <1>2, <1>3, <2>1, <2>2, Joined, Zenon
<1> QED
  BY <1>4, Zenon DEF p, q, w

LEMMA ListOfThree ==
  ASSUME NEW a, NEW b, NEW c PROVE <<a, b, c>> = <<a, b>> \o <<c>>
<1> DEFINE S == {a, b, c}
           p == <<a, b>>
           q == <<c>>
           w == <<a, b, c>>
<1>1. p \in Seq(S) /\ Len(p) = 2 /\ p[1] = a /\ p[2] = b
  OBVIOUS
<1>2. q \in Seq(S) /\ Len(q) = 1 /\ q[1] = c
  OBVIOUS
<1>3. w \in Seq(S) /\ Len(w) = 3 /\ w[1] = a /\ w[2] = b /\ w[3] = c
  OBVIOUS
<1> HIDE DEF S, p, q, w
<1>4. w = p \o q
  <2>1. Len(w) = Len(p) + Len(q)
    BY <1>1, <1>2, <1>3
  <2>2. ASSUME NEW i \in 1 .. Len(w)
        PROVE  w[i] = IF i <= Len(p) THEN p[i] ELSE q[i - Len(p)]
    BY <1>1, <1>2, <1>3
  <2> QED
    BY <1>1, <1>2, <1>3, <2>1, <2>2, Joined, Zenon
<1> QED
  BY <1>4, Zenon DEF p, q, w

LEMMA ListOfFour ==
  ASSUME NEW a, NEW b, NEW c, NEW d PROVE <<a, b, c, d>> = <<a, b, c>> \o <<d>>
<1> DEFINE S == {a, b, c, d}
           p == <<a, b, c>>
           q == <<d>>
           w == <<a, b, c, d>>
<1>1. p \in Seq(S) /\ Len(p) = 3 /\ p[1] = a /\ p[2] = b /\ p[3] = c
  OBVIOUS
<1>2. q \in Seq(S) /\ Len(q) = 1 /\ q[1] = d
  OBVIOUS
<1>3. w \in Seq(S) /\ Len(w) = 4 /\ w[1] = a /\ w[2] = b /\ w[3] = c /\ w[4] = d
  OBVIOUS
<1> HIDE DEF S, p, q, w
<1>4. w = p \o q
  <2>1. Len(w) = Len(p) + Len(q)
    BY <1>1, <1>2, <1>3
  <2>2. ASSUME NEW i \in 1 .. Len(w)
        PROVE  w[i] = IF i <= Len(p) THEN p[i] ELSE q[i - Len(p)]
    BY <1>1, <1>2, <1>3
  <2> QED
    BY <1>1, <1>2, <1>3, <2>1, <2>2, Joined, Zenon
<1> QED
  BY <1>4, Zenon DEF p, q, w

-----------------------------------------------------------------------------
(* What a slot may hold.  Each slot has a rank, the modes it may be nonzero  *)
(* at, and the number of time derivatives of what it holds.                  *)

ZeroForcing == <<"outer", "ZeroForcing">>

\* The views that have all fields.
Vectors == StageViews \cup OutputViews \cup {"tangentRhs"}

\* Where a field stands in the order of transport; second-order fields are last.
Place(f) ==
  IF f \in FirstFields THEN 0 ELSE IF f = "G" THEN 1 ELSE IF f = "Lambda" THEN 2
  ELSE IF f = "H" THEN 3 ELSE IF f = "B" THEN 4 ELSE IF f = "Pi" THEN 5
  ELSE IF f = "C" THEN 6 ELSE IF f = "U" THEN 7 ELSE 9

\* 0: first-order fields of the mode; 1 to 7: also fields transported up to that
\* place, and of the mirror image; 8: what the pairs of a target have; 9: also
\* second-order fields of the mode.
Rank(s) ==
  IF s[1] \in Vectors \cup RadialViews THEN Place(s[2])
  ELSE IF s[1] \in {"firstScratch", "tangentScratch"} THEN 0
  ELSE IF s[1] = "secondScratch" THEN 9
  ELSE IF s[1] = "linearAngular" THEN IF s[2] = "Second" THEN 9 ELSE 0
  ELSE IF s[1] \in AngularViews THEN IF s[2] \in {"Eth1F", "Eth2G"} THEN 1 ELSE 6
  ELSE IF s[1] = "sharpWork" THEN 6
  ELSE IF s[1] \in {"inner", "innerTangent", "projected", "projectedTangent", "outer"}
       THEN 8
  ELSE 7

\* A mode of one of the pairs of a target, or its mirror image.
PairMode(m, n) == \E p \in Pairs(m) : n \in {p[1], -p[1], p[2], -p[2]}

\* Where an input of a slot of this rank, at this mode, may come from.
Origin(rank, m, i) ==
  /\ rank = 0 => i.field \in FirstFields /\ i.mode = m
  /\ rank \in 1 .. 7 => Place(i.field) <= rank /\ i.mode \in {m, -m}
  /\ rank = 8 => Place(i.field) <= 7 /\ PairMode(m, i.mode)
  /\ rank = 9 => \/ Place(i.field) = 9 /\ i.mode = m
                 \/ Place(i.field) <= 7 /\ PairMode(m, i.mode)

\* The modes a slot may be nonzero at.
Band(s) ==
  IF Rank(s) >= 8 THEN Targets
  ELSE IF s[1] = "sharpWork" \/ s[2] \in {"Delta2CSharp", "HllReality"} THEN Modes
  ELSE Parents

\* While it is being computed, a slot may be nonzero at every mode.
Wide(s, loose) == IF s \in loose THEN Modes ELSE Band(s)

\* The time derivatives of what a slot holds.  The packed fields are shared, and
\* have shift more of them in the second pass.
Level(s, shift) ==
  IF s[1] = "sharpWork" THEN IF s[2] \in {"BDt", "CDt"} THEN shift + 1 ELSE shift
  ELSE IF s[1] = "tangentRhs" THEN 2
  ELSE IF s[1] \in OutputViews \cup
          {"tangentRadial", "tangentAngular", "extraTangent", "sourceFieldTangents",
           "sourceDerivativeTangents", "innerTangent", "projectedTangent"} THEN 1
  ELSE IF s[1] \in {"firstScratch", "secondScratch"}
       THEN IF s[2] \in {"PsiVelocity", "DrPsiVelocity"} THEN 1 ELSE 0
  ELSE IF s[1] = "tangentScratch"
       THEN IF s[2] \in {"PsiVelocity", "DrPsiVelocity"} THEN 2 ELSE 1
  ELSE IF s[2] = "FirstTangent" THEN 1
  ELSE 0

\* Device memory at any time.
Sound(mem, loose) ==
  /\ mem \in [Slots -> [Modes -> SUBSET Input]]
  /\ \A s \in Slots, m \in Modes : \A i \in mem[s][m] :
       Origin(Rank(s), m, i) /\ m \in Wide(s, loose)
  /\ \A m \in Modes : mem[ZeroForcing][m] = {}

\* These slots hold what was computed from one stage.
Known(mem, known, g, shift) ==
  \A s \in known, m \in Modes : \A i \in mem[s][m] :
    i.generation = g /\ i.rate = Level(s, shift)

\* The slots that were not written are as they were.
Same(mem, new, written) == \A s \in Slots \ written : new[s] = mem[s]

-----------------------------------------------------------------------------
(* Kernels that keep this *)

Self   == [m \in Modes |-> {m}]
Mirror == [m \in Modes |-> {-m}]

\* A read that a slot may have: of zeros, at the mode itself, of its mirror image,
\* or, for the source, at the modes of a pair; from a slot that is known, with the
\* derivatives that make up those of the slot.
ReadFits(q, s, raise, on, known, shift, loose) ==
  \/ q.slot = ZeroForcing /\ q.at = Self
  \/ /\ q.slot \in known
     /\ q.rate \in Int
     /\ Level(s, shift) = Level(q.slot, shift) - q.rate + raise
     /\ \/ /\ q.at = Self
           /\ Rank(q.slot) <= Rank(s) /\ (Rank(s) <= 7 \/ Rank(q.slot) >= 8)
           /\ on \cap Wide(q.slot, loose) \subseteq Wide(s, loose)
        \/ /\ q.at = Mirror
           /\ Rank(q.slot) <= Rank(s) /\ Rank(s) \in 1 .. 7
           /\ Wide(s, loose) = Modes
        \/ /\ \A m \in Modes : \A n \in q.at[m] : PairMode(m, n)
           /\ Rank(q.slot) <= 7 /\ Rank(s) = 8
           /\ on \subseteq Wide(s, loose)

ResultFits(r, on, known, shift, loose) ==
  /\ r.slot \in Slots /\ r.slot # ZeroForcing
  /\ r.raise \in Int
  /\ \A q \in r.from : ReadFits(q, r.slot, r.raise, on, known, shift, loose)

Written(kernel) == {r.slot : r \in kernel.results}

\* A kernel all of whose reads fit.
KernelFits(kernel, known, shift, loose) ==
  \A r \in kernel.results : ResultFits(r, kernel.on, known, shift, loose)

LEMMA Mirrored ==
  ASSUME NEW m \in Modes PROVE -m \in Modes /\ -(-m) = m /\ m \in Int
  BY RegistryAssumption

LEMMA RankType ==
  ASSUME NEW s PROVE Rank(s) \in 0 .. 9
  BY DEF Rank, Place

LEMMA PlaceType ==
  ASSUME NEW f PROVE Place(f) \in 0 .. 9
  BY DEF Place

LEMMA LevelType ==
  ASSUME NEW s, NEW shift \in Nat PROVE Level(s, shift) \in Nat
  BY DEF Level

LEMMA PairModes ==
  ASSUME NEW m \in Modes, NEW n, PairMode(m, n)
  PROVE  n \in Modes /\ PairMode(m, -n) /\ PairMode(m, n)
<1>1. PICK p \in Pairs(m) : n \in {p[1], -p[1], p[2], -p[2]}
  BY DEF PairMode
<1>2. p[1] \in Modes /\ p[2] \in Modes
  BY RegistryAssumption DEF Pairs
<1>3. n \in Modes /\ -n \in {p[1], -p[1], p[2], -p[2]}
  BY <1>1, <1>2, Mirrored
<1> QED
  BY <1>3 DEF PairMode

\* Where what a read of rank a at mode n brings may go, for each kind of read.
LEMMA OwnOrigin ==
  ASSUME NEW m \in Modes, NEW i \in Input, NEW a \in 0 .. 9, NEW b \in 0 .. 9,
         a <= b, b <= 7 \/ a >= 8, Origin(a, m, i)
  PROVE  Origin(b, m, i)
<1>1. CASE a = b
  BY <1>1
<1>2. CASE a = 0 /\ b \in 1 .. 7
  BY <1>2 DEF Origin, Place
<1>3. CASE a \in 1 .. 7 /\ b \in 1 .. 7
  BY <1>3, PlaceType DEF Origin
<1>4. CASE a = 8 /\ b = 9
  BY <1>4 DEF Origin
<1> QED
  BY <1>1, <1>2, <1>3, <1>4

LEMMA MirrorOrigin ==
  ASSUME NEW m \in Modes, NEW i \in Input, NEW a \in 0 .. 9, NEW b \in 1 .. 7,
         a <= b, Origin(a, -m, i)
  PROVE  Origin(b, m, i)
<1>1. -(-m) = m
  BY Mirrored
<1>2. CASE a = 0
  BY <1>1, <1>2 DEF Origin, Place
<1>3. CASE a \in 1 .. 7
  BY <1>1, <1>3, PlaceType DEF Origin
<1> QED
  BY <1>2, <1>3

LEMMA PairOrigin ==
  ASSUME NEW m \in Modes, NEW n, PairMode(m, n), NEW i \in Input, NEW a \in 0 .. 7,
         Origin(a, n, i)
  PROVE  Origin(8, m, i)
<1>1. i.mode \in {n, -n} /\ Place(i.field) <= 7
  BY PlaceType DEF Origin, Place
<1>2. PairMode(m, i.mode)
  BY <1>1, PairModes
<1> QED
  BY <1>1, <1>2 DEF Origin

-----------------------------------------------------------------------------
(* What one kernel leaves *)

\* What a read makes of an input.
Brought(j, q, r) == [j EXCEPT !.rate = @ - q.rate + r.raise]

\* What is in a slot that a kernel writes came from one of its reads.
LEMMA AfterWritten ==
  ASSUME NEW mem, NEW kernel, NEW s \in Slots, s \in Written(kernel),
         NEW m \in Modes
  PROVE  \A i : i \in After(mem, kernel)[s][m] <=>
           /\ m \in kernel.on
           /\ \E r \in kernel.results :
                /\ r.slot = s
                /\ \E q \in r.from : \E n \in q.at[m] : \E j \in mem[q.slot][n] :
                     i = Brought(j, q, r)
<1>1. After(mem, kernel)[s][m] =
        UNION {Result(mem, kernel.on, r, m) :
                 r \in {q \in kernel.results : q.slot = s}}
  BY DEF After, Written
<1>2. ASSUME NEW r, NEW i
      PROVE  i \in Result(mem, kernel.on, r, m) <=>
               /\ m \in kernel.on
               /\ \E q \in r.from : \E n \in q.at[m] : \E j \in mem[q.slot][n] :
                    i = Brought(j, q, r)
  <2> DEFINE Read0(q) == UNION {mem[q.slot][n] : n \in q.at[m]}
             From(q) == {Brought(j, q, r) : j \in Read0(q)}
  <2>1. Result(mem, kernel.on, r, m) =
          IF m \notin kernel.on THEN {} ELSE UNION {From(q) : q \in r.from}
    BY DEF Result, Brought
  <2>2. \A q, j : j \in Read0(q) <=> \E n \in q.at[m] : j \in mem[q.slot][n]
    OBVIOUS
  <2>3. \A q : i \in From(q) <=>
           \E j \in Read0(q) : i = Brought(j, q, r)
    OBVIOUS
  <2>4. \A q : i \in From(q) <=>
           \E n \in q.at[m] : \E j \in mem[q.slot][n] :
             i = Brought(j, q, r)
    <3> HIDE DEF From, Read0
    <3> QED
      BY <2>2, <2>3
  <2> HIDE DEF From
  <2>5. i \in Result(mem, kernel.on, r, m) <=>
          m \in kernel.on /\ \E q \in r.from : i \in From(q)
    BY <2>1
  <2> QED
    BY <2>4, <2>5
<1>3. ASSUME NEW i
      PROVE  i \in After(mem, kernel)[s][m] <=>
               \E r \in kernel.results :
                 r.slot = s /\ i \in Result(mem, kernel.on, r, m)
  BY <1>1, Zenon
<1> QED
  BY <1>2, <1>3

\* A kernel leaves alone what it does not write.
LEMMA AfterElsewhere ==
  ASSUME NEW mem, NEW kernel, NEW s \in Slots, s \notin Written(kernel)
  PROVE  After(mem, kernel)[s] = mem[s]
  BY DEF After, Written

\* A read that fits brings an input to a mode.
Brings(mem, known, loose, g, shift, r, on, q, m, n, j) ==
  /\ known \subseteq Slots /\ Sound(mem, loose)
  /\ shift \in Nat /\ Known(mem, known, g, shift)
  /\ r.raise \in Int /\ ReadFits(q, r.slot, r.raise, on, known, shift, loose)
  /\ m \in Modes /\ m \in on /\ n \in q.at[m] /\ j \in mem[q.slot][n]

Fitting(s, loose, g, shift, m, i) ==
  /\ i \in Input
  /\ Origin(Rank(s), m, i) /\ m \in Wide(s, loose)
  /\ i.generation = g /\ i.rate = Level(s, shift)

\* It is one that the slot may hold.
LEMMA ReadKeeps ==
  ASSUME NEW mem, NEW known, NEW loose, NEW g, NEW shift, NEW r, NEW on, NEW q,
         NEW m, NEW n, NEW j,
         Brings(mem, known, loose, g, shift, r, on, q, m, n, j)
  PROVE  Fitting(r.slot, loose, g, shift, m, Brought(j, q, r))
<1> USE DEF Brings
<1> SUFFICES ASSUME NEW i, i = Brought(j, q, r)
             PROVE  /\ i \in Input
                    /\ Origin(Rank(r.slot), m, i) /\ m \in Wide(r.slot, loose)
                    /\ i.generation = g /\ i.rate = Level(r.slot, shift)
  BY DEF Fitting
<1>1. CASE q.slot = ZeroForcing /\ q.at = Self
  BY <1>1 DEF Sound, Self
<1>2. CASE q.slot # ZeroForcing \/ q.at # Self
  <2>1. /\ q.slot \in known /\ q.slot \in Slots
        /\ q.rate \in Int
        /\ Level(r.slot, shift) = Level(q.slot, shift) - q.rate + r.raise
    BY <1>2 DEF ReadFits
  <2>2. /\ \/ q.at = Self /\ Rank(q.slot) <= Rank(r.slot)
              /\ (Rank(r.slot) <= 7 \/ Rank(q.slot) >= 8)
              /\ on \cap Wide(q.slot, loose) \subseteq Wide(r.slot, loose)
           \/ q.at = Mirror /\ Rank(q.slot) <= Rank(r.slot) /\ Rank(r.slot) \in 1 .. 7
              /\ Wide(r.slot, loose) = Modes
           \/ /\ \A k \in Modes : \A l \in q.at[k] : PairMode(k, l)
              /\ Rank(q.slot) <= 7 /\ Rank(r.slot) = 8
              /\ on \subseteq Wide(r.slot, loose)
    BY <1>2 DEF ReadFits
  <2>3. n \in Modes
    <3>1. CASE q.at = Self
      BY <3>1 DEF Self
    <3>2. CASE q.at = Mirror
      BY <3>2, Mirrored DEF Mirror
    <3>3. CASE \A k \in Modes : \A l \in q.at[k] : PairMode(k, l)
      BY <3>3, PairModes
    <3> QED
      BY <2>2, <3>1, <3>2, <3>3
  <2>4. j \in Input /\ Origin(Rank(q.slot), n, j) /\ n \in Wide(q.slot, loose)
    BY <2>1, <2>3 DEF Sound
  <2>5. j.generation = g /\ j.rate = Level(q.slot, shift)
    BY <2>1, <2>3 DEF Known
  <2>6. /\ i.generation = j.generation /\ i.field = j.field /\ i.mode = j.mode
        /\ i.rate = j.rate - q.rate + r.raise
    BY <2>4 DEF Input, Brought
  <2>7. i.rate = Level(r.slot, shift)
    BY <2>1, <2>5, <2>6
  <2>8. i \in Input
    <3>1. i.rate \in Nat
      BY <2>7, LevelType
    <3> QED
      BY <2>4, <3>1 DEF Input, Brought
  <2>9. Origin(Rank(q.slot), n, i)
    BY <2>4, <2>6 DEF Origin
  <2>10. Rank(q.slot) \in 0 .. 9 /\ Rank(r.slot) \in 0 .. 9
    BY RankType
  <2>11. CASE q.at = Self /\ Rank(q.slot) <= Rank(r.slot)
              /\ (Rank(r.slot) <= 7 \/ Rank(q.slot) >= 8)
              /\ on \cap Wide(q.slot, loose) \subseteq Wide(r.slot, loose)
    <3>1. n = m
      BY <2>11 DEF Self
    <3>2. Origin(Rank(r.slot), m, i)
      BY <2>8, <2>9, <2>10, <2>11, <3>1, OwnOrigin
    <3>3. m \in Wide(r.slot, loose)
      BY <2>4, <2>11, <3>1
    <3> QED
      BY <2>5, <2>6, <2>7, <2>8, <3>2, <3>3
  <2>12. CASE q.at = Mirror /\ Rank(q.slot) <= Rank(r.slot) /\ Rank(r.slot) \in 1 .. 7
              /\ Wide(r.slot, loose) = Modes
    <3>1. n = -m
      BY <2>12 DEF Mirror
    <3>2. Origin(Rank(r.slot), m, i)
      BY <2>8, <2>9, <2>10, <2>12, <3>1, MirrorOrigin
    <3> QED
      BY <2>5, <2>6, <2>7, <2>8, <2>12, <3>2
  <2>13. CASE /\ \A k \in Modes : \A l \in q.at[k] : PairMode(k, l)
              /\ Rank(q.slot) <= 7 /\ Rank(r.slot) = 8
              /\ on \subseteq Wide(r.slot, loose)
    <3>1. PairMode(m, n)
      BY <2>13
    <3>2. Rank(q.slot) \in 0 .. 7
      BY <2>10, <2>13
    <3>3. Origin(Rank(r.slot), m, i)
      BY <2>8, <2>9, <2>13, <3>1, <3>2, PairOrigin
    <3>4. m \in Wide(r.slot, loose)
      BY <2>13
    <3> QED
      BY <2>5, <2>6, <2>7, <2>8, <3>3, <3>4
  <2> QED
    BY <2>2, <2>11, <2>12, <2>13
<1> QED
  BY <1>1, <1>2

\* A fitting kernel leaves sound memory, and knows what it has written.
LEMMA AfterKeeps ==
  ASSUME NEW mem, NEW known, NEW loose, known \subseteq Slots, Sound(mem, loose),
         NEW g, NEW shift \in Nat, Known(mem, known, g, shift),
         NEW kernel, KernelFits(kernel, known, shift, loose)
  PROVE  /\ Sound(After(mem, kernel), loose)
         /\ Known(After(mem, kernel), known \cup Written(kernel), g, shift)
         /\ Same(mem, After(mem, kernel), Written(kernel))
         /\ Written(kernel) \subseteq Slots
<1> DEFINE new == After(mem, kernel)
<1>0. Written(kernel) \subseteq Slots /\ ZeroForcing \notin Written(kernel)
  BY DEF Written, KernelFits, ResultFits
<1>1. Same(mem, new, Written(kernel))
  BY AfterElsewhere DEF Same
<1>2. ASSUME NEW s \in Written(kernel), NEW m \in Modes, NEW i \in new[s][m]
      PROVE  Fitting(s, loose, g, shift, m, i)
  <2>1. m \in kernel.on
    BY <1>0, <1>2, AfterWritten
  <2>2. PICK r \in kernel.results :
          /\ r.slot = s
          /\ \E q \in r.from : \E n \in q.at[m] : \E j \in mem[q.slot][n] :
               i = Brought(j, q, r)
    BY <1>0, <1>2, AfterWritten
  <2>3. PICK q \in r.from : \E n \in q.at[m] : \E j \in mem[q.slot][n] :
               i = Brought(j, q, r)
    BY <2>2
  <2>4. PICK n \in q.at[m] : \E j \in mem[q.slot][n] :
               i = Brought(j, q, r)
    BY <2>3
  <2>5. PICK j \in mem[q.slot][n] : i = Brought(j, q, r)
    BY <2>4
  <2>6. r.raise \in Int /\ ReadFits(q, r.slot, r.raise, kernel.on, known, shift, loose)
    BY DEF KernelFits, ResultFits
  <2>7. Brings(mem, known, loose, g, shift, r, kernel.on, q, m, n, j)
    BY <2>1, <2>6 DEF Brings
  <2>9. Fitting(r.slot, loose, g, shift, m, Brought(j, q, r))
    BY <2>7, ReadKeeps, Zenon
  <2>8. r.slot = s
    BY <2>2
  <2> QED
    BY <2>5, <2>8, <2>9, Zenon
<1>3. new \in [Slots -> [Modes -> SUBSET Input]]
  <2>1. ASSUME NEW s \in Slots PROVE new[s] \in [Modes -> SUBSET Input]
    <3>1. CASE s \notin Written(kernel)
      BY <3>1, AfterElsewhere DEF Sound
    <3>2. CASE s \in Written(kernel)
      <4>1. new[s] = [m \in Modes |-> new[s][m]]
        BY <3>2 DEF After, Written
      <4>2. \A m \in Modes : new[s][m] \subseteq Input
        BY <1>2, <3>2 DEF Fitting
      <4> HIDE DEF new
      <4> QED
        BY <4>1, <4>2
    <3> QED
      BY <3>1, <3>2
  <2>2. new = [s \in Slots |-> new[s]]
    BY DEF After
  <2> HIDE DEF new
  <2> QED
    BY <2>1, <2>2
<1>4. new[ZeroForcing] = mem[ZeroForcing]
  <2>1. ZeroForcing \in Slots
    BY DEF ZeroForcing, Slots
  <2> QED
    BY <1>0, <2>1, AfterElsewhere
<1>5. ASSUME NEW s \in Slots, NEW m \in Modes, NEW i \in new[s][m]
      PROVE  Origin(Rank(s), m, i) /\ m \in Wide(s, loose)
  <2>1. CASE s \in Written(kernel)
    BY <1>2, <2>1 DEF Fitting
  <2>2. CASE s \notin Written(kernel)
    BY <1>1, <2>2 DEF Sound, Same
  <2> QED
    BY <2>1, <2>2
<1>6. ASSUME NEW s \in known \cup Written(kernel), NEW m \in Modes, NEW i \in new[s][m]
      PROVE  i.generation = g /\ i.rate = Level(s, shift)
  <2>1. CASE s \in Written(kernel)
    BY <1>2, <2>1 DEF Fitting
  <2>2. CASE s \notin Written(kernel)
    BY <1>1, <2>2 DEF Known, Same
  <2> QED
    BY <2>1, <2>2
<1> HIDE DEF new
<1>7. Sound(new, loose)
  BY <1>3, <1>4, <1>5 DEF Sound
<1>8. Known(new, known \cup Written(kernel), g, shift)
  BY <1>6 DEF Known
<1> QED
  BY <1>0, <1>1, <1>7, <1>8 DEF new

-----------------------------------------------------------------------------
(* What a list of kernels leaves *)

\* From sound memory with these slots known, a list makes these slots known too,
\* leaves memory sound and writes nothing else.
Makes(list, known, written, shift, loose) ==
  /\ IsList(list) /\ written \subseteq Slots
  /\ \A mem, g : Sound(mem, loose) /\ Known(mem, known, g, shift) =>
       /\ Sound(Run(mem, list), loose)
       /\ Known(Run(mem, list), known \cup written, g, shift)
       /\ Same(mem, Run(mem, list), written)

\* A kernel whose reads fit makes what it writes.
LEMMA MakesOne ==
  ASSUME NEW kernel, NEW known, known \subseteq Slots, NEW shift \in Nat, NEW loose,
         KernelFits(kernel, known, shift, loose)
  PROVE  Makes(<<kernel>>, known, Written(kernel), shift, loose)
<1>1. IsList(<<kernel>>)
  BY RunOne
<1>2. Written(kernel) \subseteq Slots
  BY DEF Written, KernelFits, ResultFits
<1>3. ASSUME NEW mem, NEW g, Sound(mem, loose), Known(mem, known, g, shift)
      PROVE  /\ Sound(Run(mem, <<kernel>>), loose)
             /\ Known(Run(mem, <<kernel>>), known \cup Written(kernel), g, shift)
             /\ Same(mem, Run(mem, <<kernel>>), Written(kernel))
  <2>1. Run(mem, <<kernel>>) = After(mem, kernel)
    BY RunOne
  <2>2. /\ Sound(After(mem, kernel), loose)
        /\ Known(After(mem, kernel), known \cup Written(kernel), g, shift)
        /\ Same(mem, After(mem, kernel), Written(kernel))
    BY <1>3, AfterKeeps
  <2> QED
    BY <2>1, <2>2
<1> QED
  BY <1>1, <1>2, <1>3 DEF Makes

\* One list after another.
LEMMA MakesJoined ==
  ASSUME NEW a, NEW b, NEW known, NEW first, NEW second, NEW shift, NEW loose,
         Makes(a, known, first, shift, loose),
         Makes(b, known \cup first, second, shift, loose)
  PROVE  Makes(a \o b, known, first \cup second, shift, loose)
<1>1. IsList(a) /\ IsList(b) /\ first \cup second \subseteq Slots
  BY DEF Makes
<1>2. IsList(a \o b)
  BY <1>1, ConcatList
<1>3. ASSUME NEW mem, NEW g, Sound(mem, loose), Known(mem, known, g, shift)
      PROVE  /\ Sound(Run(mem, a \o b), loose)
             /\ Known(Run(mem, a \o b), known \cup (first \cup second), g, shift)
             /\ Same(mem, Run(mem, a \o b), first \cup second)
  <2> DEFINE half == Run(mem, a)
  <2>1. Run(mem, a \o b) = Run(half, b)
    BY <1>1, RunConcat
  <2>2. /\ Sound(half, loose) /\ Known(half, known \cup first, g, shift)
        /\ Same(mem, half, first)
    BY <1>3 DEF Makes
  <2> HIDE DEF half
  <2>3. /\ Sound(Run(half, b), loose)
        /\ Known(Run(half, b), (known \cup first) \cup second, g, shift)
        /\ Same(half, Run(half, b), second)
    BY <2>2 DEF Makes
  <2>4. Same(mem, Run(half, b), first \cup second)
    BY <2>2, <2>3 DEF Same
  <2>5. (known \cup first) \cup second = known \cup (first \cup second)
    OBVIOUS
  <2> QED
    BY <2>1, <2>3, <2>4, <2>5
<1> QED
  BY <1>1, <1>2, <1>3 DEF Makes

\* A slot that may be nonzero anywhere on the way, and is not in the end.
LEMMA MakesTight ==
  ASSUME NEW list, NEW known, NEW written, NEW shift, NEW s \in Slots,
         Makes(list, known, written, shift, {s}),
         \A mem : \A m \in Modes \ Band(s) : Run(mem, list)[s][m] = {}
  PROVE  Makes(list, known, written, shift, {})
<1>1. ASSUME NEW mem, NEW g, Sound(mem, {}), Known(mem, known, g, shift)
      PROVE  /\ Sound(Run(mem, list), {})
             /\ Known(Run(mem, list), known \cup written, g, shift)
             /\ Same(mem, Run(mem, list), written)
  <2>1. Sound(mem, {s})
    BY <1>1 DEF Sound, Wide
  <2> DEFINE new == Run(mem, list)
  <2>2. /\ Sound(new, {s})
        /\ Known(new, known \cup written, g, shift)
        /\ Same(mem, new, written)
    BY <1>1, <2>1 DEF Makes
  <2>3. \A m \in Modes \ Band(s) : new[s][m] = {}
    OBVIOUS
  <2> HIDE DEF new
  <2>4. Sound(new, {})
    BY <2>2, <2>3 DEF Sound, Wide
  <2> QED
    BY <2>2, <2>4 DEF new
<1> QED
  BY <1>1 DEF Makes

\* What a kernel writes is zero where it does not run.
LEMMA AfterOff ==
  ASSUME NEW mem, NEW kernel, NEW s \in Slots, s \in Written(kernel),
         NEW m \in Modes, m \notin kernel.on
  PROVE  After(mem, kernel)[s][m] = {}
  BY AfterWritten

-----------------------------------------------------------------------------
(* The slots of the views *)

\* The shape of a slot: it may hold this and no more.
Holds(s, rank, band, level, shift) ==
  /\ s \in Slots /\ s # ZeroForcing
  /\ Rank(s) = rank /\ Band(s) = band /\ Level(s, shift) = level

\* The modes of a field, and the derivatives of a view.
BandOf(f) == IF f \in SecondFields THEN Targets ELSE Parents
LevelOf(v) == IF v \in StageViews THEN 0 ELSE IF v \in OutputViews THEN 1 ELSE 2

LEMMA VectorSlots ==
  ASSUME NEW v \in Vectors, NEW f \in Fields, NEW shift
  PROVE  Holds(<<v, f>>, Place(f), BandOf(f), LevelOf(v), shift)
<1>1. <<v, f>> \in Slots
  BY DEF Slots, Vectors
<1>2. v # "outer" /\ v # "sharpWork" /\ <<v, f>> # ZeroForcing
  BY DEF Vectors, StageViews, OutputViews, ZeroForcing
<1>3. Rank(<<v, f>>) = Place(f)
  BY DEF Rank
<1>4. f # "Delta2CSharp" /\ f # "HllReality" /\ f # "FirstTangent"
      /\ f # "PsiVelocity" /\ f # "DrPsiVelocity"
  BY DEF Fields, FirstFields, Daughters, SecondFields
<1>5. Place(f) >= 8 <=> f \in SecondFields
  BY DEF Place, Fields, FirstFields, Daughters, SecondFields
<1>6. Band(<<v, f>>) = BandOf(f)
  BY <1>2, <1>3, <1>4, <1>5 DEF Band, BandOf
<1>7. Level(<<v, f>>, shift) = LevelOf(v)
  BY <1>2, <1>4 DEF Level, LevelOf, Vectors, StageViews, OutputViews
<1> QED
  BY <1>1, <1>2, <1>3, <1>6, <1>7 DEF Holds

\* The views the two orders of the Teukolsky system work in.
LEMMA ScratchHolds ==
  ASSUME NEW shift, NEW scratch \in Scratches
  PROVE  LET R == IF scratch = "secondScratch" THEN 9 ELSE 0
             B == IF scratch = "secondScratch" THEN Targets ELSE Parents
             L == IF scratch = "tangentScratch" THEN 1 ELSE 0
         IN  /\ \A s \in {"DrPsi", "EffectiveQ", "DrQ"} :
                  Holds(<<scratch, s>>, R, B, L, shift)
             /\ \A s \in {"PsiVelocity", "DrPsiVelocity"} :
                  Holds(<<scratch, s>>, R, B, L + 1, shift)
<1>1. \A s \in {"DrPsi", "EffectiveQ", "DrQ", "PsiVelocity", "DrPsiVelocity"} :
        <<scratch, s>> \in Slots /\ <<scratch, s>> # ZeroForcing
  BY DEF Slots, ScratchSlots, Scratches, ZeroForcing
<1> QED
  BY <1>1 DEF Holds, Scratches, Rank, Band, Level, Vectors, StageViews, OutputViews,
              RadialViews

LEMMA LaplacianHolds ==
  ASSUME NEW shift
  PROVE  /\ Holds(<<"linearAngular", "First">>, 0, Parents, 0, shift)
         /\ Holds(<<"linearAngular", "FirstTangent">>, 0, Parents, 1, shift)
         /\ Holds(<<"linearAngular", "Second">>, 9, Targets, 0, shift)
  BY DEF Holds, Slots, Rank, Band, Level, Vectors, StageViews, OutputViews,
         RadialViews, AngularViews, ZeroForcing

-----------------------------------------------------------------------------
(* A kernel, result by result *)

\* What a kernel reads as it is, and a rate, fit a slot that is as many rates
\* further as the result takes.
LEMMA OwnReads ==
  ASSUME NEW view, NEW field, NEW s, NEW raise \in Int, NEW on, NEW known, NEW shift,
         NEW a, NEW band, NEW level \in Nat, NEW b, NEW to,
         <<view, field>> \in known, Holds(<<view, field>>, a, band, level, shift),
         Holds(s, b, to, level + raise, shift), band = to \/ on \subseteq to,
         a <= b, b <= 7 \/ a >= 8
  PROVE  ReadFits(Own(view, field), s, raise, on, known, shift, {})
  BY DEF Holds, ReadFits, Own, Read, Self, Wide

LEMMA RateReads ==
  ASSUME NEW view, NEW field, NEW s, NEW raise \in Int, NEW on, NEW known, NEW shift,
         NEW a, NEW band, NEW level \in Nat, NEW b, NEW to,
         <<view, field>> \in known, Holds(<<view, field>>, a, band, level, shift),
         Holds(s, b, to, level - 1 + raise, shift), band = to \/ on \subseteq to,
         a <= b, b <= 7 \/ a >= 8
  PROVE  ReadFits(Rate(view, field), s, raise, on, known, shift, {})
  BY DEF Holds, ReadFits, Rate, Read, Self, Wide

\* Some results of a kernel fit, and write these slots.
Gives(on, results, known, written, shift, loose) ==
  /\ KernelFits(Kernel(on, results), known, shift, loose)
  /\ Written(Kernel(on, results)) = written

LEMMA GivesTo ==
  ASSUME NEW view, NEW field, NEW from, NEW on, NEW known, NEW shift, NEW loose,
         NEW a, NEW band, NEW level, Holds(<<view, field>>, a, band, level, shift),
         \A q \in from : ReadFits(q, <<view, field>>, 0, on, known, shift, loose)
  PROVE  Gives(on, {To(view, field, from)}, known, {<<view, field>>}, shift, loose)
  BY DEF Holds, Gives, KernelFits, Kernel, Written, ResultFits, To

LEMMA GivesRate ==
  ASSUME NEW view, NEW field, NEW from, NEW on, NEW known, NEW shift, NEW loose,
         NEW a, NEW band, NEW level, Holds(<<view, field>>, a, band, level, shift),
         \A q \in from : ReadFits(q, <<view, field>>, 1, on, known, shift, loose)
  PROVE  Gives(on, {RateTo(view, field, from)}, known, {<<view, field>>}, shift, loose)
  BY DEF Holds, Gives, KernelFits, Kernel, Written, ResultFits, RateTo

LEMMA GivesBoth ==
  ASSUME NEW on, NEW A, NEW B, NEW known, NEW a, NEW b, NEW shift, NEW loose,
         Gives(on, A, known, a, shift, loose), Gives(on, B, known, b, shift, loose)
  PROVE  Gives(on, A \cup B, known, a \cup b, shift, loose)
<1>1. KernelFits(Kernel(on, A \cup B), known, shift, loose)
  BY DEF Gives, KernelFits, Kernel
<1>2. Written(Kernel(on, A \cup B)) = a \cup b
  BY DEF Gives, Written, Kernel
<1> QED
  BY <1>1, <1>2 DEF Gives

\* A view copies fields of another, or of itself.
Copies(view, from, fields) == {To(view, f, {Own(from, f)}) : f \in fields}

LEMMA GivesCopies ==
  ASSUME NEW on, NEW view, NEW from, NEW fields, NEW known, NEW shift,
         \A f \in fields :
           /\ <<from, f>> \in known
           /\ \E a, b, band, to : \E level \in Nat :
                /\ Holds(<<from, f>>, a, band, level, shift)
                /\ Holds(<<view, f>>, b, to, level, shift)
                /\ band = to \/ on \subseteq to
                /\ a <= b /\ (b <= 7 \/ a >= 8)
  PROVE  Gives(on, Copies(view, from, fields), known, {view} \X fields, shift, {})
<1>1. ASSUME NEW f \in fields
      PROVE  /\ ResultFits(To(view, f, {Own(from, f)}), on, known, shift, {})
             /\ To(view, f, {Own(from, f)}).slot = <<view, f>>
  <2>1. PICK a, b, band, to :
          \E level \in Nat :
            /\ Holds(<<from, f>>, a, band, level, shift)
            /\ Holds(<<view, f>>, b, to, level, shift)
            /\ band = to \/ on \subseteq to
            /\ a <= b /\ (b <= 7 \/ a >= 8)
    OBVIOUS
  <2>2. PICK level \in Nat :
            /\ Holds(<<from, f>>, a, band, level, shift)
            /\ Holds(<<view, f>>, b, to, level, shift)
            /\ band = to \/ on \subseteq to
            /\ a <= b /\ (b <= 7 \/ a >= 8)
    BY <2>1
  <2>3. level + 0 = level
    OBVIOUS
  <2>4. ReadFits(Own(from, f), <<view, f>>, 0, on, known, shift, {})
    BY <2>2, <2>3, OwnReads
  <2>5. \A q \in {Own(from, f)} : ReadFits(q, <<view, f>>, 0, on, known, shift, {})
    BY <2>4
  <2>6. Gives(on, {To(view, f, {Own(from, f)})}, known, {<<view, f>>}, shift, {})
    BY <2>2, <2>5, GivesTo
  <2>7. ResultFits(To(view, f, {Own(from, f)}), on, known, shift, {})
    BY <2>6 DEF Gives, KernelFits, Kernel
  <2>8. To(view, f, {Own(from, f)}).slot = <<view, f>>
    BY DEF To
  <2> QED
    BY <2>7, <2>8
<1> DEFINE k == Kernel(on, Copies(view, from, fields))
<1>2. \A r : r \in k.results <=> \E f \in fields : r = To(view, f, {Own(from, f)})
  BY DEF Kernel, Copies
<1>3. k.on = on
  BY DEF Kernel
<1> HIDE DEF k
<1>4. KernelFits(k, known, shift, {})
  BY <1>1, <1>2, <1>3 DEF KernelFits
<1>5. \A s : s \in Written(k) <=> \E f \in fields : s = <<view, f>>
  <2>1. \A s : s \in Written(k) <=> \E r \in k.results : s = r.slot
    BY DEF Written
  <2>2. ASSUME NEW s, NEW f \in fields, s = <<view, f>> PROVE s \in Written(k)
    BY <1>1, <1>2, <2>1, <2>2
  <2>3. ASSUME NEW s \in Written(k) PROVE \E f \in fields : s = <<view, f>>
    <3>1. PICK r \in k.results : s = r.slot
      BY <2>1
    <3>2. PICK f \in fields : r = To(view, f, {Own(from, f)})
      BY <1>2
    <3>3. r.slot = <<view, f>>
      BY <1>1, <3>2
    <3> QED
      BY <3>1, <3>3
  <2> QED
    BY <2>2, <2>3
<1>6. Written(k) = {view} \X fields
  BY <1>5
<1> QED
  BY <1>4, <1>6 DEF Gives, k

LEMMA MakesGiven ==
  ASSUME NEW on, NEW results, NEW known, known \subseteq Slots, NEW written,
         NEW shift \in Nat, NEW loose, Gives(on, results, known, written, shift, loose)
  PROVE  Makes(<<Kernel(on, results)>>, known, written, shift, loose)
<1> DEFINE k == Kernel(on, results)
<1>1. KernelFits(k, known, shift, loose) /\ Written(k) = written
  BY DEF Gives
<1> HIDE DEF k
<1>2. Makes(<<k>>, known, Written(k), shift, loose)
  BY <1>1, MakesOne
<1> QED
  BY <1>1, <1>2 DEF k

\* Kernels one behind the other.
LEMMA MakesTwo ==
  ASSUME NEW a, NEW b, NEW known, NEW next, NEW first, NEW second, NEW shift, NEW loose,
         Makes(<<a>>, known, first, shift, loose), next = known \cup first,
         Makes(<<b>>, next, second, shift, loose)
  PROVE  Makes(<<a, b>>, known, first \cup second, shift, loose)
<1> DEFINE list == <<a>> \o <<b>>
<1>1. Makes(list, known, first \cup second, shift, loose)
  BY MakesJoined
<1>2. list = <<a, b>>
  BY ListOfTwo
<1> QED
  BY <1>1, <1>2, Zenon

LEMMA MakesThree ==
  ASSUME NEW a, NEW b, NEW c, NEW known, NEW next, NEW first, NEW second, NEW shift,
         NEW loose,
         Makes(<<a, b>>, known, first, shift, loose), next = known \cup first,
         Makes(<<c>>, next, second, shift, loose)
  PROVE  Makes(<<a, b, c>>, known, first \cup second, shift, loose)
<1> DEFINE list == <<a, b>> \o <<c>>
<1>1. Makes(list, known, first \cup second, shift, loose)
  BY MakesJoined
<1>2. list = <<a, b, c>>
  BY ListOfThree
<1> QED
  BY <1>1, <1>2, Zenon

LEMMA MakesFour ==
  ASSUME NEW a, NEW b, NEW c, NEW d, NEW known, NEW next, NEW first, NEW second,
         NEW shift, NEW loose,
         Makes(<<a, b, c>>, known, first, shift, loose), next = known \cup first,
         Makes(<<d>>, next, second, shift, loose)
  PROVE  Makes(<<a, b, c, d>>, known, first \cup second, shift, loose)
<1> DEFINE list == <<a, b, c>> \o <<d>>
<1>1. Makes(list, known, first \cup second, shift, loose)
  BY MakesJoined
<1>2. list = <<a, b, c, d>>
  BY ListOfFour
<1> QED
  BY <1>1, <1>2, Zenon

-----------------------------------------------------------------------------
(* The Teukolsky system of one order *)

\* The Teukolsky kernel, of first or second order.
TeukolskySlots(out, P, Q, Psi, scratch) ==
  ({scratch} \X ScratchSlots) \cup {<<out, P>>, <<out, Q>>, <<out, Psi>>}

LEMMA TeukolskyMakes ==
  ASSUME NEW on, NEW in, NEW out, NEW P, NEW Q, NEW Psi, NEW lap, NEW forcing,
         NEW scratch, NEW R \in {0, 9}, NEW B, NEW L \in Nat,
         NEW known, known \subseteq Slots, NEW shift \in Nat,
         Holds(<<in, P>>, R, B, L, shift), <<in, P>> \in known,
         Holds(<<in, Q>>, R, B, L, shift), <<in, Q>> \in known,
         Holds(<<in, Psi>>, R, B, L, shift), <<in, Psi>> \in known,
         Holds(<<out, P>>, R, B, L + 1, shift),
         Holds(<<out, Q>>, R, B, L + 1, shift),
         Holds(<<out, Psi>>, R, B, L + 1, shift),
         Holds(<<scratch, "DrPsi">>, R, B, L, shift),
         Holds(<<scratch, "EffectiveQ">>, R, B, L, shift),
         Holds(<<scratch, "DrQ">>, R, B, L, shift),
         Holds(<<scratch, "PsiVelocity">>, R, B, L + 1, shift),
         Holds(<<scratch, "DrPsiVelocity">>, R, B, L + 1, shift),
         Holds(<<"linearAngular", lap>>, R, B, L, shift),
         <<"linearAngular", lap>> \in known,
         \/ <<"outer", forcing>> = ZeroForcing
         \/ /\ <<"outer", forcing>> \in known
            /\ Holds(<<"outer", forcing>>, 8, B, L, shift) /\ R = 9
  PROVE  Makes(Teukolsky(on, in, out, P, Q, Psi, lap, forcing, scratch), known,
               TeukolskySlots(out, P, Q, Psi, scratch), shift, {})
<1> DEFINE a1 == To(scratch, "DrPsi", {Own(in, Psi)})
           a2 == To(scratch, "EffectiveQ", {Own(in, Psi), Own(in, Q)})
           b1 == To(scratch, "DrQ", {Own(scratch, "EffectiveQ")})
           b2 == RateTo(scratch, "PsiVelocity",
                        {Own(in, P), Own(scratch, "EffectiveQ"), Own(in, Psi)})
           c1 == To(scratch, "DrPsiVelocity", {Own(scratch, "PsiVelocity")})
           c2 == RateTo(out, P, {Own(in, P), Own(scratch, "EffectiveQ"), Own(in, Psi),
                                 Own(scratch, "DrQ"), Own("linearAngular", lap),
                                 Own("outer", forcing)})
           c3 == RateTo(out, Q, {Rate(scratch, "PsiVelocity"), Own(in, Q),
                                 Own(scratch, "DrPsi")})
           c4 == RateTo(out, Psi, {Rate(scratch, "PsiVelocity"), Own(in, Psi)})
           k1 == Kernel(Modes, {a1, a2})
           k2 == Kernel(Modes, {b1, b2})
           k3 == Kernel(Modes, {c1, c2, c3, c4})
           k4 == Project(on, out, {P, Q, Psi})
           w1 == {<<scratch, "DrPsi">>, <<scratch, "EffectiveQ">>}
           w2 == {<<scratch, "DrQ">>, <<scratch, "PsiVelocity">>}
           w3 == {<<scratch, "DrPsiVelocity">>, <<out, P>>, <<out, Q>>, <<out, Psi>>}
           w4 == {<<out, P>>, <<out, Q>>, <<out, Psi>>}
           known1 == known \cup w1
           known2 == known1 \cup w2
           known3 == known2 \cup w3
<1>0. L + 0 = L /\ (L + 1) + 0 = L + 1 /\ (L + 1) - 1 + 1 = L + 1 /\ L + 1 \in Nat
      /\ R \in Int /\ R <= R /\ (R <= 7 \/ R >= 8) /\ 0 \in Int /\ 1 \in Int
  OBVIOUS
<1>1. w1 \subseteq Slots /\ w2 \subseteq Slots /\ w3 \subseteq Slots
  BY DEF Holds
<1>2. known1 \subseteq Slots /\ known2 \subseteq Slots /\ known3 \subseteq Slots
  BY <1>1
<1>3. Makes(<<k1>>, known, w1, shift, {})
  <2>1. Gives(Modes, {a1}, known, {<<scratch, "DrPsi">>}, shift, {})
    <3>1. \A q \in {Own(in, Psi)} :
            ReadFits(q, <<scratch, "DrPsi">>, 0, Modes, known, shift, {})
      BY <1>0, OwnReads
    <3> QED
      BY <3>1, GivesTo
  <2>2. Gives(Modes, {a2}, known, {<<scratch, "EffectiveQ">>}, shift, {})
    <3>1. \A q \in {Own(in, Psi), Own(in, Q)} :
            ReadFits(q, <<scratch, "EffectiveQ">>, 0, Modes, known, shift, {})
      BY <1>0, OwnReads
    <3> QED
      BY <3>1, GivesTo
  <2> HIDE DEF a1, a2
  <2>3. {a1, a2} = {a1} \cup {a2}
        /\ w1 = {<<scratch, "DrPsi">>} \cup {<<scratch, "EffectiveQ">>}
    OBVIOUS
  <2> QED
    BY <2>1, <2>2, <2>3, GivesBoth, MakesGiven
<1>4. Makes(<<k2>>, known1, w2, shift, {})
  <2>0. <<scratch, "EffectiveQ">> \in known1 /\ <<in, P>> \in known1
        /\ <<in, Psi>> \in known1
    OBVIOUS
  <2> HIDE DEF known1
  <2>1. Gives(Modes, {b1}, known1, {<<scratch, "DrQ">>}, shift, {})
    <3>1. \A q \in {Own(scratch, "EffectiveQ")} :
            ReadFits(q, <<scratch, "DrQ">>, 0, Modes, known1, shift, {})
      BY <1>0, <2>0, OwnReads
    <3> QED
      BY <3>1, GivesTo
  <2>2. Gives(Modes, {b2}, known1, {<<scratch, "PsiVelocity">>}, shift, {})
    <3>1. \A q \in {Own(in, P), Own(scratch, "EffectiveQ"), Own(in, Psi)} :
            ReadFits(q, <<scratch, "PsiVelocity">>, 1, Modes, known1, shift, {})
      BY <1>0, <2>0, OwnReads
    <3> QED
      BY <3>1, GivesRate
  <2> HIDE DEF b1, b2
  <2>3. {b1, b2} = {b1} \cup {b2}
        /\ w2 = {<<scratch, "DrQ">>} \cup {<<scratch, "PsiVelocity">>}
    OBVIOUS
  <2> QED
    BY <1>2, <2>1, <2>2, <2>3, GivesBoth, MakesGiven
<1>5. Makes(<<k3>>, known2, w3, shift, {})
  <2>0. /\ <<scratch, "EffectiveQ">> \in known2 /\ <<scratch, "DrPsi">> \in known2
        /\ <<scratch, "PsiVelocity">> \in known2 /\ <<scratch, "DrQ">> \in known2
        /\ <<in, P>> \in known2 /\ <<in, Q>> \in known2 /\ <<in, Psi>> \in known2
        /\ <<"linearAngular", lap>> \in known2
        /\ <<"outer", forcing>> \in known => <<"outer", forcing>> \in known2
    OBVIOUS
  <2> HIDE DEF known2
  <2>1. Gives(Modes, {c1}, known2, {<<scratch, "DrPsiVelocity">>}, shift, {})
    <3>1. \A q \in {Own(scratch, "PsiVelocity")} :
            ReadFits(q, <<scratch, "DrPsiVelocity">>, 0, Modes, known2, shift, {})
      BY <1>0, <2>0, OwnReads
    <3> QED
      BY <3>1, GivesTo
  <2>2. Gives(Modes, {c2}, known2, {<<out, P>>}, shift, {})
    <3>1. \A q \in {Own(in, P), Own(scratch, "EffectiveQ"), Own(in, Psi),
                    Own(scratch, "DrQ"), Own("linearAngular", lap)} :
            ReadFits(q, <<out, P>>, 1, Modes, known2, shift, {})
      BY <1>0, <2>0, OwnReads
    <3>2. ReadFits(Own("outer", forcing), <<out, P>>, 1, Modes, known2, shift, {})
      <4>1. CASE <<"outer", forcing>> = ZeroForcing
        BY <4>1 DEF ReadFits, Own, Read, Self
      <4>2. CASE /\ <<"outer", forcing>> \in known
                 /\ Holds(<<"outer", forcing>>, 8, B, L, shift) /\ R = 9
        <5>1. Holds(<<out, P>>, 9, B, L + 1, shift) /\ 8 <= 9 /\ 8 >= 8
          BY <4>2
        <5> QED
          BY <1>0, <2>0, <4>2, <5>1, OwnReads
      <4> QED
        BY <4>1, <4>2
    <3>3. \A q \in {Own(in, P), Own(scratch, "EffectiveQ"), Own(in, Psi),
                    Own(scratch, "DrQ"), Own("linearAngular", lap),
                    Own("outer", forcing)} :
            ReadFits(q, <<out, P>>, 1, Modes, known2, shift, {})
      BY <3>1, <3>2
    <3> QED
      BY <3>3, GivesRate
  <2>3. Gives(Modes, {c3}, known2, {<<out, Q>>}, shift, {})
    <3>1. \A q \in {Rate(scratch, "PsiVelocity"), Own(in, Q), Own(scratch, "DrPsi")} :
            ReadFits(q, <<out, Q>>, 1, Modes, known2, shift, {})
      BY <1>0, <2>0, OwnReads, RateReads
    <3> QED
      BY <3>1, GivesRate
  <2>4. Gives(Modes, {c4}, known2, {<<out, Psi>>}, shift, {})
    <3>1. \A q \in {Rate(scratch, "PsiVelocity"), Own(in, Psi)} :
            ReadFits(q, <<out, Psi>>, 1, Modes, known2, shift, {})
      BY <1>0, <2>0, OwnReads, RateReads
    <3> QED
      BY <3>1, GivesRate
  <2> HIDE DEF c1, c2, c3, c4
  <2>5. /\ {c1, c2, c3, c4} = (({c1} \cup {c2}) \cup {c3}) \cup {c4}
        /\ w3 = (({<<scratch, "DrPsiVelocity">>} \cup {<<out, P>>}) \cup {<<out, Q>>})
                  \cup {<<out, Psi>>}
    OBVIOUS
  <2>6. Gives(Modes, ({c1} \cup {c2}) \cup {c3}, known2,
              ({<<scratch, "DrPsiVelocity">>} \cup {<<out, P>>}) \cup {<<out, Q>>},
              shift, {})
    BY <2>1, <2>2, <2>3, GivesBoth
  <2>7. Gives(Modes, {c1, c2, c3, c4}, known2, w3, shift, {})
    BY <2>4, <2>5, <2>6, GivesBoth
  <2> QED
    BY <1>2, <2>7, MakesGiven
<1>6. Makes(<<k4>>, known3, w4, shift, {})
  <2>1. /\ <<out, P>> \in known3 /\ <<out, Q>> \in known3 /\ <<out, Psi>> \in known3
    OBVIOUS
  <2> HIDE DEF known3
  <2>2. ASSUME NEW f \in {P, Q, Psi}
        PROVE  <<out, f>> \in known3 /\ Holds(<<out, f>>, R, B, L + 1, shift)
    BY <2>1
  <2>3. Gives(on, Copies(out, out, {P, Q, Psi}), known3, {out} \X {P, Q, Psi}, shift, {})
    BY <1>0, <2>2, GivesCopies
  <2>4. k4 = Kernel(on, Copies(out, out, {P, Q, Psi})) /\ w4 = {out} \X {P, Q, Psi}
    BY DEF Project, Copies
  <2> QED
    BY <1>2, <2>3, <2>4, MakesGiven
<1>7. Teukolsky(on, in, out, P, Q, Psi, lap, forcing, scratch) = <<k1, k2, k3, k4>>
  BY DEF Teukolsky, Everywhere
<1>8. TeukolskySlots(out, P, Q, Psi, scratch) = ((w1 \cup w2) \cup w3) \cup w4
  BY DEF TeukolskySlots, ScratchSlots
<1>9. known2 = known \cup (w1 \cup w2) /\ known3 = known \cup ((w1 \cup w2) \cup w3)
  OBVIOUS
<1> HIDE DEF k1, k2, k3, k4, w1, w2, w3, w4, known2, known3
<1>10. Makes(<<k1, k2>>, known, w1 \cup w2, shift, {})
  BY <1>3, <1>4, MakesTwo
<1>11. Makes(<<k1, k2, k3>>, known, (w1 \cup w2) \cup w3, shift, {})
  BY <1>5, <1>9, <1>10, MakesThree
<1>12. Makes(<<k1, k2, k3, k4>>, known, ((w1 \cup w2) \cup w3) \cup w4, shift, {})
  BY <1>6, <1>9, <1>11, MakesFour
<1> QED
  BY <1>7, <1>8, <1>12

LEMMA GivesEth ==
  ASSUME NEW in, NEW field, NEW dt, NEW dtField, NEW view, NEW slot, NEW on, NEW known,
         NEW shift, NEW a, NEW b, NEW band, NEW level \in Nat,
         <<in, field>> \in known, Holds(<<in, field>>, a, band, level, shift),
         <<dt, dtField>> \in known, Holds(<<dt, dtField>>, a, band, level + 1, shift),
         NEW to, Holds(<<view, slot>>, b, to, level, shift), band = to \/ on \subseteq to,
         a <= b, b <= 7 \/ a >= 8
  PROVE  Gives(on, {Eth(in, field, dt, dtField, view, slot)}, known, {<<view, slot>>},
               shift, {})
<1>1. level + 0 = level /\ (level + 1) - 1 + 0 = level /\ 0 \in Int /\ level + 1 \in Nat
  OBVIOUS
<1>2. ReadFits(Own(in, field), <<view, slot>>, 0, on, known, shift, {})
  BY <1>1, OwnReads
<1>3. ReadFits(Rate(dt, dtField), <<view, slot>>, 0, on, known, shift, {})
  BY <1>1, RateReads
<1>4. \A q \in {Own(in, field), Rate(dt, dtField)} :
        ReadFits(q, <<view, slot>>, 0, on, known, shift, {})
  BY <1>2, <1>3
<1> QED
  BY <1>4, GivesTo DEF Eth

-----------------------------------------------------------------------------
(* First order, second order, and none *)

\* The first-order evaluation, of the stage or of its slope.
FirstSlots(out, slot, scratch) ==
  {<<"linearAngular", slot>>} \cup
  TeukolskySlots(out, "FirstP", "FirstQ", "FirstPsi", scratch)

LEMMA FirstOrderMakes ==
  ASSUME NEW in \in Vectors, NEW out \in Vectors, NEW slot, NEW scratch, NEW L \in Nat,
         LevelOf(in) = L, LevelOf(out) = L + 1,
         \/ L = 0 /\ slot = "First" /\ scratch = "firstScratch"
         \/ L = 1 /\ slot = "FirstTangent" /\ scratch = "tangentScratch",
         NEW known, known \subseteq Slots, {in} \X FirstFields \subseteq known,
         NEW shift \in Nat
  PROVE  Makes(FirstOrder(in, out, slot, scratch), known, FirstSlots(out, slot, scratch),
               shift, {})
<1> DEFINE lap == <<"linearAngular", slot>>
           next == known \cup {lap}
<1>1. /\ \A f \in FirstFields : f \in Fields /\ Place(f) = 0 /\ BandOf(f) = Parents
      /\ FirstFields = {"FirstP", "FirstQ", "FirstPsi"}
  BY DEF Fields, FirstFields, SecondFields, Place, BandOf
<1>2. \A f \in FirstFields : /\ Holds(<<in, f>>, 0, Parents, L, shift)
                             /\ Holds(<<out, f>>, 0, Parents, L + 1, shift)
  BY <1>1, VectorSlots
<1>3. /\ Holds(<<in, "FirstP">>, 0, Parents, L, shift)
      /\ Holds(<<in, "FirstQ">>, 0, Parents, L, shift)
      /\ Holds(<<in, "FirstPsi">>, 0, Parents, L, shift)
      /\ Holds(<<out, "FirstP">>, 0, Parents, L + 1, shift)
      /\ Holds(<<out, "FirstQ">>, 0, Parents, L + 1, shift)
      /\ Holds(<<out, "FirstPsi">>, 0, Parents, L + 1, shift)
      /\ <<in, "FirstP">> \in known /\ <<in, "FirstQ">> \in known
      /\ <<in, "FirstPsi">> \in known
  BY <1>1, <1>2
<1>4. Holds(lap, 0, Parents, L, shift)
  BY LaplacianHolds
<1>5. /\ \A s \in {"DrPsi", "EffectiveQ", "DrQ"} :
            Holds(<<scratch, s>>, 0, Parents, L, shift)
      /\ \A s \in {"PsiVelocity", "DrPsiVelocity"} :
            Holds(<<scratch, s>>, 0, Parents, L + 1, shift)
  <2>1. scratch \in Scratches /\ scratch # "secondScratch"
        /\ L = IF scratch = "tangentScratch" THEN 1 ELSE 0
    BY DEF Scratches
  <2> QED
    BY <2>1, ScratchHolds
<1>6. Makes(<<Laplacian(Parents, in, "FirstPsi", slot)>>, known, {lap}, shift, {})
  <2>1. L + 0 = L /\ 0 <= 0 /\ 0 <= 7 /\ 0 \in Int
    OBVIOUS
  <2>2. \A q \in {Own(in, "FirstPsi")} :
          ReadFits(q, <<"linearAngular", slot>>, 0, Parents, known, shift, {})
    BY <1>3, <1>4, <2>1, OwnReads
  <2>3. Gives(Parents, {To("linearAngular", slot, {Own(in, "FirstPsi")})}, known, {lap},
              shift, {})
    BY <1>4, <2>2, GivesTo
  <2> QED
    BY <2>3, MakesGiven DEF Laplacian
<1>7. next \subseteq Slots /\ lap \in next
  BY <1>4 DEF Holds
<1>8. <<in, "FirstP">> \in next /\ <<in, "FirstQ">> \in next /\ <<in, "FirstPsi">> \in next
  BY <1>3
<1> DEFINE list == Teukolsky(Parents, in, out, "FirstP", "FirstQ", "FirstPsi", slot,
                             "ZeroForcing", scratch)
           w == TeukolskySlots(out, "FirstP", "FirstQ", "FirstPsi", scratch)
<1>9. Makes(list, next, w, shift, {})
  <2>1. /\ Holds(<<scratch, "DrPsi">>, 0, Parents, L, shift)
        /\ Holds(<<scratch, "EffectiveQ">>, 0, Parents, L, shift)
        /\ Holds(<<scratch, "DrQ">>, 0, Parents, L, shift)
        /\ Holds(<<scratch, "PsiVelocity">>, 0, Parents, L + 1, shift)
        /\ Holds(<<scratch, "DrPsiVelocity">>, 0, Parents, L + 1, shift)
    BY <1>5
  <2>2. <<"outer", "ZeroForcing">> = ZeroForcing /\ 0 \in {0, 9}
    BY DEF ZeroForcing
  <2> HIDE DEF next
  <2> QED
    BY <1>3, <1>4, <1>7, <1>8, <2>1, <2>2, TeukolskyMakes
<1>10. FirstOrder(in, out, slot, scratch) = <<Laplacian(Parents, in, "FirstPsi", slot)>> \o list
  BY DEF FirstOrder
<1> HIDE DEF list, w
<1>11. FirstSlots(out, slot, scratch) = {lap} \cup w
  BY DEF FirstSlots, w
<1> QED
  BY <1>6, <1>9, <1>10, <1>11, MakesJoined

\* The second-order evaluation.
SecondSlots(out) ==
  {<<"linearAngular", "Second">>} \cup
  TeukolskySlots(out, "SecondP", "SecondQ", "SecondPsi", "secondScratch")

LEMMA SecondOrderMakes ==
  ASSUME NEW in \in StageViews, NEW out \in OutputViews,
         NEW known, known \subseteq Slots, {in} \X SecondFields \subseteq known,
         <<"outer", "Forcing">> \in known, NEW shift \in Nat
  PROVE  Makes(SecondOrder(in, out), known, SecondSlots(out), shift, {})
<1> DEFINE lap == <<"linearAngular", "Second">>
           next == known \cup {lap}
<1>1. /\ \A f \in SecondFields : f \in Fields /\ Place(f) = 9 /\ BandOf(f) = Targets
      /\ SecondFields = {"SecondP", "SecondQ", "SecondPsi"}
      /\ in \in Vectors /\ out \in Vectors /\ LevelOf(in) = 0 /\ LevelOf(out) = 0 + 1
  BY DEF Fields, FirstFields, SecondFields, Place, BandOf, Vectors, LevelOf, StageViews,
         OutputViews
<1>2. \A f \in SecondFields : /\ Holds(<<in, f>>, 9, Targets, 0, shift)
                              /\ Holds(<<out, f>>, 9, Targets, 0 + 1, shift)
  BY <1>1, VectorSlots
<1>3. /\ Holds(<<in, "SecondP">>, 9, Targets, 0, shift)
      /\ Holds(<<in, "SecondQ">>, 9, Targets, 0, shift)
      /\ Holds(<<in, "SecondPsi">>, 9, Targets, 0, shift)
      /\ Holds(<<out, "SecondP">>, 9, Targets, 0 + 1, shift)
      /\ Holds(<<out, "SecondQ">>, 9, Targets, 0 + 1, shift)
      /\ Holds(<<out, "SecondPsi">>, 9, Targets, 0 + 1, shift)
      /\ <<in, "SecondP">> \in known /\ <<in, "SecondQ">> \in known
      /\ <<in, "SecondPsi">> \in known
  BY <1>1, <1>2
<1>4. Holds(lap, 9, Targets, 0, shift)
  BY LaplacianHolds
<1>5. /\ Holds(<<"secondScratch", "DrPsi">>, 9, Targets, 0, shift)
      /\ Holds(<<"secondScratch", "EffectiveQ">>, 9, Targets, 0, shift)
      /\ Holds(<<"secondScratch", "DrQ">>, 9, Targets, 0, shift)
      /\ Holds(<<"secondScratch", "PsiVelocity">>, 9, Targets, 0 + 1, shift)
      /\ Holds(<<"secondScratch", "DrPsiVelocity">>, 9, Targets, 0 + 1, shift)
  <2>1. "secondScratch" \in Scratches
    BY DEF Scratches
  <2> QED
    BY <2>1, ScratchHolds
<1>6. Makes(<<Laplacian(Targets, in, "SecondPsi", "Second")>>, known, {lap}, shift, {})
  <2>1. 0 + 0 = 0 /\ 9 <= 9 /\ 9 >= 8 /\ 0 \in Int /\ 0 \in Nat
    OBVIOUS
  <2>2. \A q \in {Own(in, "SecondPsi")} :
          ReadFits(q, <<"linearAngular", "Second">>, 0, Targets, known, shift, {})
    BY <1>3, <1>4, <2>1, OwnReads
  <2>3. Gives(Targets, {To("linearAngular", "Second", {Own(in, "SecondPsi")})}, known,
              {lap}, shift, {})
    BY <1>4, <2>2, GivesTo
  <2> QED
    BY <2>3, MakesGiven DEF Laplacian
<1>7. next \subseteq Slots /\ lap \in next
  BY <1>4 DEF Holds
<1>8. /\ <<in, "SecondP">> \in next /\ <<in, "SecondQ">> \in next
      /\ <<in, "SecondPsi">> \in next /\ <<"outer", "Forcing">> \in next
  BY <1>3
<1> DEFINE list == Teukolsky(Targets, in, out, "SecondP", "SecondQ", "SecondPsi",
                             "Second", "Forcing", "secondScratch")
           w == TeukolskySlots(out, "SecondP", "SecondQ", "SecondPsi", "secondScratch")
<1>9. Makes(list, next, w, shift, {})
  <2>1. Holds(<<"outer", "Forcing">>, 8, Targets, 0, shift)
    BY DEF Holds, Rank, Band, Level, Slots, ZeroForcing, Vectors, StageViews, OutputViews,
           RadialViews, AngularViews
  <2>2. 9 \in {0, 9} /\ 0 \in Nat /\ 9 = 9
    OBVIOUS
  <2> HIDE DEF next
  <2> QED
    BY <1>3, <1>4, <1>5, <1>7, <1>8, <2>1, <2>2, TeukolskyMakes
<1>10. SecondOrder(in, out) = <<Laplacian(Targets, in, "SecondPsi", "Second")>> \o list
  BY DEF SecondOrder
<1> HIDE DEF list, w
<1>11. SecondSlots(out) = {lap} \cup w
  BY DEF SecondSlots, w
<1> QED
  BY <1>6, <1>9, <1>10, <1>11, MakesJoined

\* Without a source nothing but the first-order slope is evaluated.
LEMMA FreezeMakes ==
  ASSUME NEW out \in OutputViews, NEW known, known \subseteq Slots, NEW shift \in Nat
  PROVE  Makes(Freeze(out), known, {out} \X (Fields \ FirstFields), shift, {})
<1> DEFINE results == {To(out, f, {}) : f \in Fields \ FirstFields}
           k == Kernel({}, results)
           w == {out} \X (Fields \ FirstFields)
<1>1. ASSUME NEW f \in Fields \ FirstFields
      PROVE  /\ To(out, f, {}).slot = <<out, f>>
             /\ ResultFits(To(out, f, {}), {}, known, shift, {})
  <2>1. out \in Vectors /\ f \in Fields
    BY DEF Vectors
  <2>2. <<out, f>> \in Slots /\ <<out, f>> # ZeroForcing
    BY <2>1, VectorSlots DEF Holds
  <2> QED
    BY <2>2 DEF To, ResultFits
<1>2. /\ k.on = {}
      /\ \A r : r \in k.results <=> \E f \in Fields \ FirstFields : r = To(out, f, {})
  BY DEF Kernel
<1>3. Freeze(out) = <<k>>
  BY DEF Freeze
<1> HIDE DEF k
<1>4. KernelFits(k, known, shift, {})
  BY <1>1, <1>2 DEF KernelFits
<1>5. Written(k) = w
  <2>1. \A s : s \in Written(k) <=> \E r \in k.results : s = r.slot
    BY DEF Written
  <2>2. ASSUME NEW s \in w PROVE s \in Written(k)
    <3>1. PICK f \in Fields \ FirstFields : s = <<out, f>>
      OBVIOUS
    <3> QED
      BY <1>1, <1>2, <2>1, <3>1
  <2>3. ASSUME NEW s \in Written(k) PROVE s \in w
    <3>1. PICK r \in k.results : s = r.slot
      BY <2>1
    <3>2. PICK f \in Fields \ FirstFields : r = To(out, f, {})
      BY <1>2
    <3>3. r.slot = <<out, f>>
      BY <1>1, <3>2
    <3> QED
      BY <3>1, <3>3
  <2> QED
    BY <2>2, <2>3
<1> HIDE DEF w
<1>6. Makes(<<k>>, known, Written(k), shift, {})
  BY <1>4, MakesOne
<1> QED
  BY <1>3, <1>5, <1>6 DEF w

-----------------------------------------------------------------------------
(* The reconstruction of a stage, and of its rate *)

\* The reconstruction: three passes over the transported fields.
ReconstructionOf(in, out, radial, angular, L) ==
  /\ in \in Vectors /\ out \in Vectors /\ in # out
  /\ LevelOf(in) = L /\ LevelOf(out) = L + 1
  /\ \/ L = 0 /\ radial = "radial" /\ angular = "angular"
     \/ L = 1 /\ radial = "tangentRadial" /\ angular = "tangentAngular"

LEMMA FieldPlaces ==
  /\ Place("FirstPsi") = 0 /\ Place("G") = 1 /\ Place("Lambda") = 2 /\ Place("H") = 3
  /\ Place("B") = 4 /\ Place("Pi") = 5 /\ Place("C") = 6 /\ Place("U") = 7
  /\ \A f \in Daughters : Place(f) \in 1 .. 7
  /\ \A f \in Daughters \cup {"FirstPsi"} : f \in Fields /\ BandOf(f) = Parents
  /\ Daughters = {"G", "Lambda", "H", "B", "Pi", "C", "U"}
  BY DEF Fields, FirstFields, SecondFields, Daughters, Place, BandOf

LEMMA FieldHolds ==
  ASSUME NEW v \in Vectors, NEW L, LevelOf(v) = L, NEW shift
  PROVE  /\ Holds(<<v, "FirstPsi">>, 0, Parents, L, shift)
         /\ Holds(<<v, "G">>, 1, Parents, L, shift)
         /\ Holds(<<v, "Lambda">>, 2, Parents, L, shift)
         /\ Holds(<<v, "H">>, 3, Parents, L, shift)
         /\ Holds(<<v, "B">>, 4, Parents, L, shift)
         /\ Holds(<<v, "Pi">>, 5, Parents, L, shift)
         /\ Holds(<<v, "C">>, 6, Parents, L, shift)
         /\ Holds(<<v, "U">>, 7, Parents, L, shift)
  BY VectorSlots, FieldPlaces

LEMMA WorkHolds ==
  ASSUME NEW in, NEW out, NEW radial, NEW angular, NEW L,
         ReconstructionOf(in, out, radial, angular, L)
  PROVE  /\ L \in Nat
         /\ \A f \in Daughters : Holds(<<radial, f>>, Place(f), Parents, L, L)
         /\ Holds(<<radial, "G">>, 1, Parents, L, L)
         /\ Holds(<<radial, "Lambda">>, 2, Parents, L, L)
         /\ Holds(<<radial, "H">>, 3, Parents, L, L)
         /\ Holds(<<radial, "B">>, 4, Parents, L, L)
         /\ Holds(<<radial, "Pi">>, 5, Parents, L, L)
         /\ Holds(<<radial, "C">>, 6, Parents, L, L)
         /\ Holds(<<radial, "U">>, 7, Parents, L, L)
         /\ Holds(<<angular, "Eth1F">>, 1, Parents, L, L)
         /\ Holds(<<angular, "Eth2G">>, 1, Parents, L, L)
         /\ Holds(<<angular, "Eth2C">>, 6, Parents, L, L)
         /\ Holds(<<angular, "Eth2Pi">>, 6, Parents, L, L)
         /\ Holds(<<angular, "EthPrime1BSharp">>, 6, Parents, L, L)
         /\ Holds(<<angular, "EthPrime2CSharp">>, 6, Parents, L, L)
         /\ Holds(<<"sharpWork", "B">>, 6, Modes, L, L)
         /\ Holds(<<"sharpWork", "C">>, 6, Modes, L, L)
         /\ Holds(<<"sharpWork", "BDt">>, 6, Modes, L + 1, L)
         /\ Holds(<<"sharpWork", "CDt">>, 6, Modes, L + 1, L)
<1>1. L \in Nat
  BY DEF ReconstructionOf
<1>2. \A f \in Daughters : Holds(<<radial, f>>, Place(f), Parents, L, L)
  <2> SUFFICES ASSUME NEW f \in Daughters
               PROVE  Holds(<<radial, f>>, Place(f), Parents, L, L)
    OBVIOUS
  <2>1. /\ radial \in RadialViews
        /\ \/ radial = "radial" /\ L = 0
           \/ radial = "tangentRadial" /\ L = 1
    BY DEF ReconstructionOf, RadialViews
  <2>2. <<radial, f>> \in Slots /\ <<radial, f>> # ZeroForcing
    BY <2>1 DEF Slots, ZeroForcing, RadialViews
  <2>3. Rank(<<radial, f>>) = Place(f) /\ Place(f) \in 1 .. 7
    BY <2>1, FieldPlaces DEF Rank
  <2>4. f \notin {"Delta2CSharp", "HllReality", "FirstTangent"}
    BY DEF Daughters
  <2>5. Band(<<radial, f>>) = Parents
    BY <2>1, <2>3, <2>4 DEF Band
  <2>6. Level(<<radial, f>>, L) = L
    BY <2>1, <2>4 DEF Level, OutputViews
  <2> QED
    BY <2>2, <2>3, <2>5, <2>6 DEF Holds
<1>3. /\ Holds(<<angular, "Eth1F">>, 1, Parents, L, L)
      /\ Holds(<<angular, "Eth2G">>, 1, Parents, L, L)
      /\ Holds(<<angular, "Eth2C">>, 6, Parents, L, L)
      /\ Holds(<<angular, "Eth2Pi">>, 6, Parents, L, L)
      /\ Holds(<<angular, "EthPrime1BSharp">>, 6, Parents, L, L)
      /\ Holds(<<angular, "EthPrime2CSharp">>, 6, Parents, L, L)
  <2>1. \/ angular = "angular" /\ L = 0
        \/ angular = "tangentAngular" /\ L = 1
    BY DEF ReconstructionOf
  <2> QED
    BY <2>1 DEF Holds, Slots, AngularSlots, AngularViews, RadialViews, Rank, Band, Level,
                Vectors, StageViews, OutputViews, ZeroForcing
<1>4. /\ Holds(<<"sharpWork", "B">>, 6, Modes, L, L)
      /\ Holds(<<"sharpWork", "C">>, 6, Modes, L, L)
      /\ Holds(<<"sharpWork", "BDt">>, 6, Modes, L + 1, L)
      /\ Holds(<<"sharpWork", "CDt">>, 6, Modes, L + 1, L)
  BY DEF Holds, Slots, AngularViews, RadialViews, Rank, Band, Level, Vectors, StageViews,
         OutputViews, ZeroForcing
<1> QED
  BY <1>1, <1>2, <1>3, <1>4, FieldPlaces

LEMMA GivesTransport ==
  ASSUME NEW in, NEW out, NEW radial, NEW field, NEW rest, NEW known, NEW shift,
         NEW a \in 1 .. 7, NEW level \in Nat,
         <<in, field>> \in known, Holds(<<in, field>>, a, Parents, level, shift),
         <<radial, field>> \in known, Holds(<<radial, field>>, a, Parents, level, shift),
         Holds(<<out, field>>, a, Parents, level + 1, shift),
         \A q \in rest : ReadFits(q, <<out, field>>, 1, Modes, known, shift, {})
  PROVE  Gives(Modes, {Transport(in, out, radial, field, rest)}, known,
               {<<out, field>>}, shift, {})
<1>1. 1 \in Int /\ a <= a /\ a <= 7 /\ a \in Int
  OBVIOUS
<1>2. ReadFits(Own(in, field), <<out, field>>, 1, Modes, known, shift, {})
  BY <1>1, OwnReads
<1>3. ReadFits(Own(radial, field), <<out, field>>, 1, Modes, known, shift, {})
  BY <1>1, OwnReads
<1>4. \A q \in {Own(in, field), Own(radial, field)} \cup rest :
        ReadFits(q, <<out, field>>, 1, Modes, known, shift, {})
  BY <1>2, <1>3
<1> QED
  BY <1>4, GivesRate DEF Transport

LEMMA RadialMakes ==
  ASSUME NEW in, NEW out, NEW radial, NEW angular, NEW L,
         ReconstructionOf(in, out, radial, angular, L),
         NEW known, known \subseteq Slots, {in} \X Daughters \subseteq known
  PROVE  Makes(RadialDerivatives(in, radial), known, {radial} \X Daughters, L, {})
<1>1. ASSUME NEW f \in Daughters
      PROVE  /\ <<in, f>> \in known
             /\ Holds(<<in, f>>, Place(f), Parents, L, L)
             /\ Holds(<<radial, f>>, Place(f), Parents, L, L)
             /\ Place(f) <= Place(f) /\ Place(f) <= 7
  <2>1. f \in Fields /\ BandOf(f) = Parents /\ Place(f) \in 1 .. 7
    BY FieldPlaces
  <2>2. Holds(<<in, f>>, Place(f), Parents, L, L)
    BY <2>1, VectorSlots DEF ReconstructionOf
  <2>3. Holds(<<radial, f>>, Place(f), Parents, L, L)
    BY WorkHolds
  <2>4. Place(f) <= Place(f) /\ Place(f) <= 7
    BY <2>1
  <2> QED
    BY <2>2, <2>3, <2>4
<1>2. L \in Nat
  BY WorkHolds
<1>3. Gives(Modes, Copies(radial, in, Daughters), known, {radial} \X Daughters, L, {})
  BY <1>1, <1>2, GivesCopies
<1>4. Makes(<<Kernel(Modes, Copies(radial, in, Daughters))>>, known,
            {radial} \X Daughters, L, {})
  BY <1>2, <1>3, MakesGiven
<1>5. RadialDerivatives(in, radial) = <<Kernel(Modes, Copies(radial, in, Daughters))>>
  BY DEF RadialDerivatives, Everywhere, Copies
<1> QED
  BY <1>4, <1>5

\* A projection of what is known.
LEMMA ProjectMakes ==
  ASSUME NEW out \in Vectors, NEW L \in Nat, LevelOf(out) = L + 1, NEW shift \in Nat,
         NEW fields, fields \subseteq Daughters,
         NEW known, known \subseteq Slots, {out} \X fields \subseteq known
  PROVE  Makes(<<Project(Parents, out, fields)>>, known, {out} \X fields, shift, {})
<1>1. ASSUME NEW f \in fields
      PROVE  /\ <<out, f>> \in known
             /\ Holds(<<out, f>>, Place(f), Parents, L + 1, shift)
             /\ Place(f) <= Place(f) /\ Place(f) <= 7
  <2>1. f \in Fields /\ BandOf(f) = Parents /\ Place(f) \in 1 .. 7
    BY FieldPlaces
  <2> QED
    BY <2>1, VectorSlots
<1>2. L + 1 \in Nat
  OBVIOUS
<1>3. Gives(Parents, Copies(out, out, fields), known, {out} \X fields, shift, {})
  BY <1>1, <1>2, GivesCopies
<1> QED
  BY <1>3, MakesGiven DEF Project, Copies

LEMMA Pass1Makes ==
  ASSUME NEW in, NEW out, NEW radial, NEW angular, NEW L,
         ReconstructionOf(in, out, radial, angular, L),
         NEW known, known \subseteq Slots,
         {in} \X Daughters \subseteq known, <<in, "FirstPsi">> \in known,
         <<out, "FirstPsi">> \in known, {radial} \X Daughters \subseteq known
  PROVE  Makes(Pass1(in, out, radial, angular), known,
               {<<angular, "Eth1F">>} \cup ({out} \X {"G", "Lambda"}), L, {})
<1> DEFINE a1 == Eth(in, "FirstPsi", out, "FirstPsi", angular, "Eth1F")
           b1 == Transport(in, out, radial, "G", {Own(angular, "Eth1F"), Own(in, "FirstPsi")})
           b2 == Transport(in, out, radial, "Lambda", {Own(in, "FirstPsi")})
           k1 == Kernel(Parents, {a1})
           k2 == Kernel(Modes, {b1, b2})
           k3 == Project(Parents, out, {"G", "Lambda"})
           w1 == {<<angular, "Eth1F">>}
           w2 == {<<out, "G">>, <<out, "Lambda">>}
           known1 == known \cup w1
           known2 == known1 \cup w2
<1>0. /\ L \in Nat /\ in \in Vectors /\ out \in Vectors
      /\ LevelOf(in) = L /\ LevelOf(out) = L + 1
  BY WorkHolds DEF ReconstructionOf
<1>1. /\ Holds(<<in, "FirstPsi">>, 0, Parents, L, L)
      /\ Holds(<<out, "FirstPsi">>, 0, Parents, L + 1, L)
      /\ Holds(<<in, "G">>, 1, Parents, L, L)
      /\ Holds(<<in, "Lambda">>, 2, Parents, L, L)
      /\ Holds(<<out, "G">>, 1, Parents, L + 1, L)
      /\ Holds(<<out, "Lambda">>, 2, Parents, L + 1, L)
  BY <1>0, FieldHolds
<1>2. /\ Holds(<<radial, "G">>, 1, Parents, L, L)
      /\ Holds(<<radial, "Lambda">>, 2, Parents, L, L)
      /\ Holds(<<angular, "Eth1F">>, 1, Parents, L, L)
  BY WorkHolds
<1>3. 0 <= 1 /\ 1 <= 1 /\ 0 <= 2 /\ 1 <= 7 /\ 2 <= 7 /\ 1 \in Int /\ 1 \in 1 .. 7 /\ 2 \in 1 .. 7
  OBVIOUS
<1>4. w1 \subseteq Slots /\ w2 \subseteq Slots /\ known1 \subseteq Slots /\ known2 \subseteq Slots
  BY <1>1, <1>2 DEF Holds
<1>5. Makes(<<k1>>, known, w1, L, {})
  <2>1. Gives(Parents, {a1}, known, w1, L, {})
    BY <1>0, <1>1, <1>2, <1>3, GivesEth
  <2> QED
    BY <1>0, <2>1, MakesGiven
<1>6. Makes(<<k2>>, known1, w2, L, {})
  <2>0. /\ <<angular, "Eth1F">> \in known1 /\ <<in, "FirstPsi">> \in known1
        /\ <<in, "G">> \in known1 /\ <<in, "Lambda">> \in known1
        /\ <<radial, "G">> \in known1 /\ <<radial, "Lambda">> \in known1
    BY FieldPlaces
  <2> HIDE DEF known1
  <2>1. Gives(Modes, {b1}, known1, {<<out, "G">>}, L, {})
    <3>1. \A q \in {Own(angular, "Eth1F"), Own(in, "FirstPsi")} :
            ReadFits(q, <<out, "G">>, 1, Modes, known1, L, {})
      BY <1>0, <1>1, <1>2, <1>3, <2>0, OwnReads
    <3> QED
      BY <1>0, <1>1, <1>2, <1>3, <2>0, <3>1, GivesTransport
  <2>2. Gives(Modes, {b2}, known1, {<<out, "Lambda">>}, L, {})
    <3>1. \A q \in {Own(in, "FirstPsi")} :
            ReadFits(q, <<out, "Lambda">>, 1, Modes, known1, L, {})
      BY <1>0, <1>1, <1>2, <1>3, <2>0, OwnReads
    <3> QED
      BY <1>0, <1>1, <1>2, <1>3, <2>0, <3>1, GivesTransport
  <2> HIDE DEF b1, b2
  <2>3. {b1, b2} = {b1} \cup {b2} /\ w2 = {<<out, "G">>} \cup {<<out, "Lambda">>}
    OBVIOUS
  <2> QED
    BY <1>0, <1>4, <2>1, <2>2, <2>3, GivesBoth, MakesGiven
<1>7. Makes(<<k3>>, known2, w2, L, {})
  <2>1. {out} \X {"G", "Lambda"} = w2 /\ {"G", "Lambda"} \subseteq Daughters
        /\ w2 \subseteq known2
    BY DEF Daughters
  <2> HIDE DEF known2, w2
  <2> QED
    BY <1>0, <1>4, <2>1, ProjectMakes
<1>8. Pass1(in, out, radial, angular) = <<k1, k2, k3>>
  BY DEF Pass1, Everywhere
<1>9. {<<angular, "Eth1F">>} \cup ({out} \X {"G", "Lambda"}) = (w1 \cup w2) \cup w2
  OBVIOUS
<1>10. known2 = known \cup (w1 \cup w2)
  OBVIOUS
<1> HIDE DEF k1, k2, k3, w1, w2, known2
<1>11. Makes(<<k1, k2>>, known, w1 \cup w2, L, {})
  BY <1>5, <1>6, MakesTwo
<1>12. Makes(<<k1, k2, k3>>, known, (w1 \cup w2) \cup w2, L, {})
  BY <1>7, <1>10, <1>11, MakesThree
<1> QED
  BY <1>8, <1>9, <1>12

LEMMA Pass2Makes ==
  ASSUME NEW in, NEW out, NEW radial, NEW angular, NEW L,
         ReconstructionOf(in, out, radial, angular, L),
         NEW known, known \subseteq Slots,
         {in} \X Daughters \subseteq known, {radial} \X Daughters \subseteq known,
         {out} \X {"G", "Lambda"} \subseteq known
  PROVE  Makes(Pass2(in, out, radial, angular), known,
               {<<angular, "Eth2G">>} \cup ({out} \X {"H", "B", "Pi", "C"}), L, {})
<1> DEFINE a1 == Eth(in, "G", out, "G", angular, "Eth2G")
           b1 == Transport(in, out, radial, "H", {Own(angular, "Eth2G"), Own(in, "G")})
           b2 == Transport(in, out, radial, "B", {Own(in, "Lambda")})
           b3 == Transport(in, out, radial, "Pi",
                           {Own(in, "G"), Own(in, "Lambda"), Own(in, "B")})
           b4 == Transport(in, out, radial, "C", {Own(in, "Pi"), Own(in, "B")})
           k1 == Kernel(Parents, {a1})
           k2 == Kernel(Modes, {b1, b2, b3, b4})
           k3 == Project(Parents, out, {"H", "B", "Pi", "C"})
           w1 == {<<angular, "Eth2G">>}
           w2 == {<<out, "H">>, <<out, "B">>, <<out, "Pi">>, <<out, "C">>}
           known1 == known \cup w1
           known2 == known1 \cup w2
<1>0. /\ L \in Nat /\ in \in Vectors /\ out \in Vectors
      /\ LevelOf(in) = L /\ LevelOf(out) = L + 1
  BY WorkHolds DEF ReconstructionOf
<1>1. /\ Holds(<<in, "G">>, 1, Parents, L, L) /\ Holds(<<out, "G">>, 1, Parents, L + 1, L)
      /\ Holds(<<in, "Lambda">>, 2, Parents, L, L)
      /\ Holds(<<in, "H">>, 3, Parents, L, L) /\ Holds(<<out, "H">>, 3, Parents, L + 1, L)
      /\ Holds(<<in, "B">>, 4, Parents, L, L) /\ Holds(<<out, "B">>, 4, Parents, L + 1, L)
      /\ Holds(<<in, "Pi">>, 5, Parents, L, L) /\ Holds(<<out, "Pi">>, 5, Parents, L + 1, L)
      /\ Holds(<<in, "C">>, 6, Parents, L, L) /\ Holds(<<out, "C">>, 6, Parents, L + 1, L)
  BY <1>0, FieldHolds
<1>2. /\ Holds(<<radial, "H">>, 3, Parents, L, L)
      /\ Holds(<<radial, "B">>, 4, Parents, L, L)
      /\ Holds(<<radial, "Pi">>, 5, Parents, L, L)
      /\ Holds(<<radial, "C">>, 6, Parents, L, L)
      /\ Holds(<<angular, "Eth2G">>, 1, Parents, L, L)
  BY WorkHolds
<1>3. /\ 1 <= 1 /\ 1 <= 3 /\ 2 <= 4 /\ 1 <= 5 /\ 2 <= 5 /\ 4 <= 5 /\ 5 <= 6 /\ 4 <= 6
      /\ 1 <= 7 /\ 3 <= 7 /\ 4 <= 7 /\ 5 <= 7 /\ 6 <= 7 /\ 1 \in Int
      /\ 3 \in 1 .. 7 /\ 4 \in 1 .. 7 /\ 5 \in 1 .. 7 /\ 6 \in 1 .. 7
  OBVIOUS
<1>4. w1 \subseteq Slots /\ w2 \subseteq Slots /\ known1 \subseteq Slots /\ known2 \subseteq Slots
  BY <1>1, <1>2 DEF Holds
<1>5. Makes(<<k1>>, known, w1, L, {})
  <2>0. <<in, "G">> \in known /\ <<out, "G">> \in known
    BY FieldPlaces
  <2>1. Gives(Parents, {a1}, known, w1, L, {})
    BY <1>0, <1>1, <1>2, <1>3, <2>0, GivesEth
  <2> QED
    BY <1>0, <2>1, MakesGiven
<1>6. Makes(<<k2>>, known1, w2, L, {})
  <2>0. /\ <<angular, "Eth2G">> \in known1
        /\ <<in, "G">> \in known1 /\ <<in, "Lambda">> \in known1 /\ <<in, "H">> \in known1
        /\ <<in, "B">> \in known1 /\ <<in, "Pi">> \in known1 /\ <<in, "C">> \in known1
        /\ <<radial, "H">> \in known1 /\ <<radial, "B">> \in known1
        /\ <<radial, "Pi">> \in known1 /\ <<radial, "C">> \in known1
    BY FieldPlaces
  <2> HIDE DEF known1
  <2>1. Gives(Modes, {b1}, known1, {<<out, "H">>}, L, {})
    <3>1. \A q \in {Own(angular, "Eth2G"), Own(in, "G")} :
            ReadFits(q, <<out, "H">>, 1, Modes, known1, L, {})
      BY <1>0, <1>1, <1>2, <1>3, <2>0, OwnReads
    <3> QED
      BY <1>0, <1>1, <1>2, <1>3, <2>0, <3>1, GivesTransport
  <2>2. Gives(Modes, {b2}, known1, {<<out, "B">>}, L, {})
    <3>1. \A q \in {Own(in, "Lambda")} :
            ReadFits(q, <<out, "B">>, 1, Modes, known1, L, {})
      BY <1>0, <1>1, <1>2, <1>3, <2>0, OwnReads
    <3> QED
      BY <1>0, <1>1, <1>2, <1>3, <2>0, <3>1, GivesTransport
  <2>3. Gives(Modes, {b3}, known1, {<<out, "Pi">>}, L, {})
    <3>1. \A q \in {Own(in, "G"), Own(in, "Lambda"), Own(in, "B")} :
            ReadFits(q, <<out, "Pi">>, 1, Modes, known1, L, {})
      BY <1>0, <1>1, <1>2, <1>3, <2>0, OwnReads
    <3> QED
      BY <1>0, <1>1, <1>2, <1>3, <2>0, <3>1, GivesTransport
  <2>4. Gives(Modes, {b4}, known1, {<<out, "C">>}, L, {})
    <3>1. \A q \in {Own(in, "Pi"), Own(in, "B")} :
            ReadFits(q, <<out, "C">>, 1, Modes, known1, L, {})
      BY <1>0, <1>1, <1>2, <1>3, <2>0, OwnReads
    <3> QED
      BY <1>0, <1>1, <1>2, <1>3, <2>0, <3>1, GivesTransport
  <2> HIDE DEF b1, b2, b3, b4
  <2>5. /\ {b1, b2, b3, b4} = (({b1} \cup {b2}) \cup {b3}) \cup {b4}
        /\ w2 = (({<<out, "H">>} \cup {<<out, "B">>}) \cup {<<out, "Pi">>}) \cup {<<out, "C">>}
    OBVIOUS
  <2>6. Gives(Modes, ({b1} \cup {b2}) \cup {b3}, known1,
              ({<<out, "H">>} \cup {<<out, "B">>}) \cup {<<out, "Pi">>}, L, {})
    BY <2>1, <2>2, <2>3, GivesBoth
  <2>7. Gives(Modes, {b1, b2, b3, b4}, known1, w2, L, {})
    BY <2>4, <2>5, <2>6, GivesBoth
  <2> QED
    BY <1>0, <1>4, <2>7, MakesGiven
<1>7. Makes(<<k3>>, known2, w2, L, {})
  <2>1. {out} \X {"H", "B", "Pi", "C"} = w2 /\ {"H", "B", "Pi", "C"} \subseteq Daughters
        /\ w2 \subseteq known2
    BY DEF Daughters
  <2> HIDE DEF known2, w2
  <2> QED
    BY <1>0, <1>4, <2>1, ProjectMakes
<1>8. Pass2(in, out, radial, angular) = <<k1, k2, k3>>
  BY DEF Pass2, Everywhere
<1>9. {<<angular, "Eth2G">>} \cup ({out} \X {"H", "B", "Pi", "C"}) = (w1 \cup w2) \cup w2
  OBVIOUS
<1>10. known2 = known \cup (w1 \cup w2)
  OBVIOUS
<1> HIDE DEF k1, k2, k3, w1, w2, known2
<1>11. Makes(<<k1, k2>>, known, w1 \cup w2, L, {})
  BY <1>5, <1>6, MakesTwo
<1>12. Makes(<<k1, k2, k3>>, known, (w1 \cup w2) \cup w2, L, {})
  BY <1>7, <1>10, <1>11, MakesThree
<1> QED
  BY <1>8, <1>9, <1>12

-----------------------------------------------------------------------------
(* Mirror images *)

LEMMA SharpReads ==
  ASSUME NEW view, NEW field, NEW s, NEW raise \in Int, NEW on, NEW known, NEW shift,
         NEW a, NEW band, NEW level \in Nat, NEW b, NEW to, NEW loose,
         <<view, field>> \in known, Holds(<<view, field>>, a, band, level, shift),
         Holds(s, b, to, level + raise, shift), to = Modes \/ s \in loose,
         a <= b, b \in 1 .. 7
  PROVE  ReadFits(Sharp(view, field), s, raise, on, known, shift, loose)
  BY DEF Holds, ReadFits, Sharp, Read, Mirror, Wide

LEMMA LooseReads ==
  ASSUME NEW view, NEW field, NEW s, NEW raise \in Int, NEW known, NEW shift,
         NEW a, NEW band, NEW level \in Nat, NEW b, NEW to, NEW loose,
         <<view, field>> \in known, Holds(<<view, field>>, a, band, level, shift),
         Holds(s, b, to, level + raise, shift), s \in loose, a <= b, b <= 7
  PROVE  ReadFits(Own(view, field), s, raise, Modes, known, shift, loose)
  BY DEF Holds, ReadFits, Own, Read, Self, Wide

LEMMA GivesSharp ==
  ASSUME NEW in, NEW field, NEW view, NEW slot, NEW known, NEW shift, NEW a, NEW b,
         NEW band, NEW level \in Nat,
         <<in, field>> \in known, Holds(<<in, field>>, a, band, level, shift),
         Holds(<<view, slot>>, b, Modes, level, shift), a <= b, b \in 1 .. 7
  PROVE  Gives(Modes, {To(view, slot, {Sharp(in, field)})}, known, {<<view, slot>>},
               shift, {})
<1>1. level + 0 = level /\ 0 \in Int
  OBVIOUS
<1>2. ReadFits(Sharp(in, field), <<view, slot>>, 0, Modes, known, shift, {})
  BY <1>1, SharpReads
<1>3. \A q \in {Sharp(in, field)} :
        ReadFits(q, <<view, slot>>, 0, Modes, known, shift, {})
  BY <1>2
<1> QED
  BY <1>3, GivesTo

\* U is computed at every mode and then projected.
LEMMA UpdateMakes ==
  ASSUME NEW in, NEW out, NEW radial, NEW angular, NEW L,
         ReconstructionOf(in, out, radial, angular, L),
         NEW known, known \subseteq Slots,
         {in} \X Daughters \subseteq known, {radial} \X Daughters \subseteq known,
         {angular} \X {"Eth2C", "Eth2Pi", "EthPrime1BSharp", "EthPrime2CSharp"}
           \subseteq known
  PROVE  Makes(<<UpdateU(in, out, radial, angular), Project(Parents, out, {"U"})>>,
               known, {<<out, "U">>}, L, {})
<1> DEFINE u == <<out, "U">>
           w == {u}
           reads == {Own(in, "U"), Own(radial, "U")} \cup
                    ({Own(in, f) : f \in {"H", "C", "Pi"}} \cup
                     {Sharp(in, f) : f \in {"Pi", "B", "C"}} \cup
                     {Own(angular, s) : s \in AngularSlots \ {"Eth1F", "Eth2G"}})
           b1 == RateTo(out, "U", reads)
           k1 == Kernel(Modes, {b1})
           k2 == Project(Parents, out, {"U"})
           known1 == known \cup w
<1>0. /\ L \in Nat /\ in \in Vectors /\ out \in Vectors /\ in # out
      /\ LevelOf(in) = L /\ LevelOf(out) = L + 1
  BY WorkHolds DEF ReconstructionOf
<1>1. /\ Holds(<<in, "U">>, 7, Parents, L, L) /\ Holds(u, 7, Parents, L + 1, L)
      /\ Holds(<<in, "H">>, 3, Parents, L, L) /\ Holds(<<in, "B">>, 4, Parents, L, L)
      /\ Holds(<<in, "Pi">>, 5, Parents, L, L) /\ Holds(<<in, "C">>, 6, Parents, L, L)
  BY <1>0, FieldHolds
<1>2. /\ Holds(<<radial, "U">>, 7, Parents, L, L)
      /\ Holds(<<angular, "Eth2C">>, 6, Parents, L, L)
      /\ Holds(<<angular, "Eth2Pi">>, 6, Parents, L, L)
      /\ Holds(<<angular, "EthPrime1BSharp">>, 6, Parents, L, L)
      /\ Holds(<<angular, "EthPrime2CSharp">>, 6, Parents, L, L)
  BY WorkHolds
<1>3. /\ <<in, "U">> \in known /\ <<in, "H">> \in known /\ <<in, "B">> \in known
      /\ <<in, "Pi">> \in known /\ <<in, "C">> \in known /\ <<radial, "U">> \in known
      /\ <<angular, "Eth2C">> \in known /\ <<angular, "Eth2Pi">> \in known
      /\ <<angular, "EthPrime1BSharp">> \in known
      /\ <<angular, "EthPrime2CSharp">> \in known
  BY FieldPlaces
<1>4. /\ 3 <= 7 /\ 4 <= 7 /\ 5 <= 7 /\ 6 <= 7 /\ 7 <= 7 /\ 1 \in Int /\ 7 \in 1 .. 7
      /\ u \in w
  OBVIOUS
<1>5. u \in Slots /\ known1 \subseteq Slots /\ w \subseteq Slots
  BY <1>1 DEF Holds
<1> HIDE DEF u, w, known1
<1>6. \A q \in reads : ReadFits(q, u, 1, Modes, known, L, w)
  <2>1. \A q \in {Own(in, "U"), Own(radial, "U")} : ReadFits(q, u, 1, Modes, known, L, w)
    BY <1>0, <1>1, <1>2, <1>3, <1>4, LooseReads
  <2>2. \A q \in {Own(in, "H"), Own(in, "C"), Own(in, "Pi")} :
          ReadFits(q, u, 1, Modes, known, L, w)
    BY <1>0, <1>1, <1>3, <1>4, LooseReads
  <2>3. \A q \in {Sharp(in, "Pi"), Sharp(in, "B"), Sharp(in, "C")} :
          ReadFits(q, u, 1, Modes, known, L, w)
    BY <1>0, <1>1, <1>3, <1>4, SharpReads
  <2>4. \A q \in {Own(angular, "Eth2C"), Own(angular, "Eth2Pi"),
                  Own(angular, "EthPrime1BSharp"), Own(angular, "EthPrime2CSharp")} :
          ReadFits(q, u, 1, Modes, known, L, w)
    BY <1>0, <1>1, <1>2, <1>3, <1>4, LooseReads
  <2>5. AngularSlots \ {"Eth1F", "Eth2G"} =
          {"Eth2C", "Eth2Pi", "EthPrime1BSharp", "EthPrime2CSharp"}
    BY DEF AngularSlots
  <2>6. \A q \in {Own(angular, s) : s \in AngularSlots \ {"Eth1F", "Eth2G"}} :
          ReadFits(q, u, 1, Modes, known, L, w)
    BY <2>4, <2>5
  <2>7. \A q \in {Own(in, f) : f \in {"H", "C", "Pi"}} : ReadFits(q, u, 1, Modes, known, L, w)
    BY <2>2
  <2>8. \A q \in {Sharp(in, f) : f \in {"Pi", "B", "C"}} :
          ReadFits(q, u, 1, Modes, known, L, w)
    BY <2>3
  <2> QED
    BY <2>1, <2>6, <2>7, <2>8
<1> HIDE DEF reads
<1>7. Makes(<<k1>>, known, w, L, w)
  <2>1. Holds(<<out, "U">>, 7, Parents, L + 1, L) /\ u = <<out, "U">> /\ w = {<<out, "U">>}
    BY <1>1 DEF u, w
  <2>2. Gives(Modes, {b1}, known, w, L, w)
    BY <1>6, <2>1, GivesRate
  <2> HIDE DEF b1
  <2> QED
    BY <1>0, <2>2, MakesGiven
<1>8. Gives(Parents, {To(out, "U", {Own(out, "U")})}, known1, w, L, w)
  <2>1. u \in known1 /\ 0 \in Int /\ L + 1 = (L + 1) - 0 + 0 /\ 7 <= 7
    BY <1>0, <1>4 DEF known1
  <2>2. Parents \cap Wide(u, w) \subseteq Wide(u, w)
    OBVIOUS
  <2>3. Own(out, "U").slot = u /\ Own(out, "U").at = Self /\ Own(out, "U").rate = 0
    BY DEF Own, Read, Self, u
  <2>4. Level(u, L) = L + 1 /\ Rank(u) = 7
    BY <1>1 DEF Holds
  <2>5. ReadFits(Own(out, "U"), u, 0, Parents, known1, L, w)
    BY <2>1, <2>2, <2>3, <2>4 DEF ReadFits
  <2>6. \A q \in {Own(out, "U")} : ReadFits(q, <<out, "U">>, 0, Parents, known1, L, w)
    BY <2>5 DEF u
  <2>7. Gives(Parents, {To(out, "U", {Own(out, "U")})}, known1, {<<out, "U">>}, L, w)
    BY <1>1, <2>6, GivesTo DEF u
  <2> QED
    BY <2>7 DEF w, u
<1>9. k2 = Kernel(Parents, {To(out, "U", {Own(out, "U")})}) /\ k2.on = Parents
  <2>1. Project(Parents, out, {"U"}) = Kernel(Parents, {To(out, "U", {Own(out, "U")})})
    BY DEF Project
  <2>2. Kernel(Parents, {To(out, "U", {Own(out, "U")})}).on = Parents
    BY DEF Kernel
  <2> QED
    BY <2>1, <2>2
<1> HIDE DEF k1, k2
<1>10. Makes(<<k2>>, known1, w, L, w) /\ Written(k2) = w
  <2>1. Makes(<<k2>>, known1, w, L, w)
    BY <1>0, <1>5, <1>8, <1>9, MakesGiven
  <2> QED
    BY <1>8, <1>9, <2>1 DEF Gives
<1>11. known1 = known \cup w /\ w \cup w = w
  BY DEF known1
<1>12. Makes(<<k1, k2>>, known, w, L, w)
  BY <1>7, <1>10, <1>11, MakesTwo
<1>13. ASSUME NEW mem, NEW m \in Modes \ Band(u)
       PROVE  Run(mem, <<k1, k2>>)[u][m] = {}
  <2>1. /\ IsList(<<k1>>) /\ IsList(<<k2>>) /\ <<k1, k2>> = <<k1>> \o <<k2>>
    BY RunOne, ListOfTwo
  <2> DEFINE half == Run(mem, <<k1>>)
  <2>2. Run(mem, <<k1>> \o <<k2>>) = Run(half, <<k2>>)
    BY <2>1, RunConcat
  <2>3. Run(half, <<k2>>) = After(half, k2)
    BY RunOne
  <2> HIDE DEF half
  <2>4. m \notin k2.on /\ m \in Modes /\ u \in Written(k2)
    BY <1>1, <1>4, <1>9, <1>10 DEF Holds
  <2>5. After(half, k2)[u][m] = {}
    BY <1>5, <2>4, AfterOff
  <2> QED
    BY <2>1, <2>2, <2>3, <2>5
<1>14. Makes(<<k1, k2>>, known, w, L, {})
  <2>1. w = {u}
    BY DEF w
  <2> QED
    BY <1>5, <1>12, <1>13, <2>1, MakesTight
<1>15. k1 = UpdateU(in, out, radial, angular)
  BY DEF k1, b1, reads, UpdateU, Everywhere, Transport
<1> QED
  BY <1>14, <1>15 DEF k2, w, u

LEMMA ListOfFive ==
  ASSUME NEW a, NEW b, NEW c, NEW d, NEW e
  PROVE  <<a, b, c, d, e>> = <<a, b, c>> \o <<d, e>>
<1> DEFINE S == {a, b, c, d, e}
           p == <<a, b, c>>
           q == <<d, e>>
           w == <<a, b, c, d, e>>
<1>1. p \in Seq(S) /\ Len(p) = 3 /\ p[1] = a /\ p[2] = b /\ p[3] = c
  OBVIOUS
<1>2. q \in Seq(S) /\ Len(q) = 2 /\ q[1] = d /\ q[2] = e
  OBVIOUS
<1>3. w \in Seq(S) /\ Len(w) = 5 /\ w[1] = a /\ w[2] = b /\ w[3] = c /\ w[4] = d
      /\ w[5] = e
  OBVIOUS
<1> HIDE DEF S, p, q, w
<1>4. w = p \o q
  <2>1. Len(w) = Len(p) + Len(q)
    BY <1>1, <1>2, <1>3
  <2>2. ASSUME NEW i \in 1 .. Len(w)
        PROVE  w[i] = IF i <= Len(p) THEN p[i] ELSE q[i - Len(p)]
    BY <1>1, <1>2, <1>3
  <2> QED
    BY <1>1, <1>2, <1>3, <2>1, <2>2, Joined, Zenon
<1> QED
  BY <1>4, Zenon DEF p, q, w

\* The packed fields, shared by both passes over them.
Packed == {"sharpWork"} \X {"B", "C", "BDt", "CDt"}

LEMMA PackMakes ==
  ASSUME NEW in, NEW out, NEW radial, NEW angular, NEW L,
         ReconstructionOf(in, out, radial, angular, L),
         NEW known, known \subseteq Slots,
         {in} \X Daughters \subseteq known, {out} \X {"B", "C"} \subseteq known
  PROVE  Makes(<<PackSharp(in, out)>>, known, Packed, L, {})
<1> DEFINE b1 == To("sharpWork", "B", {Sharp(in, "B")})
           b2 == To("sharpWork", "C", {Sharp(in, "C")})
           b3 == To("sharpWork", "BDt", {Sharp(out, "B")})
           b4 == To("sharpWork", "CDt", {Sharp(out, "C")})
<1>0. /\ L \in Nat /\ in \in Vectors /\ out \in Vectors /\ L + 1 \in Nat
      /\ LevelOf(in) = L /\ LevelOf(out) = L + 1
  BY WorkHolds DEF ReconstructionOf
<1>1. /\ Holds(<<in, "B">>, 4, Parents, L, L) /\ Holds(<<out, "B">>, 4, Parents, L + 1, L)
      /\ Holds(<<in, "C">>, 6, Parents, L, L) /\ Holds(<<out, "C">>, 6, Parents, L + 1, L)
  BY <1>0, FieldHolds
<1>2. /\ Holds(<<"sharpWork", "B">>, 6, Modes, L, L)
      /\ Holds(<<"sharpWork", "C">>, 6, Modes, L, L)
      /\ Holds(<<"sharpWork", "BDt">>, 6, Modes, L + 1, L)
      /\ Holds(<<"sharpWork", "CDt">>, 6, Modes, L + 1, L)
  BY WorkHolds
<1>3. /\ <<in, "B">> \in known /\ <<in, "C">> \in known
      /\ <<out, "B">> \in known /\ <<out, "C">> \in known
  BY FieldPlaces
<1>4. 4 <= 6 /\ 6 <= 6 /\ 6 \in 1 .. 7
  OBVIOUS
<1>5. Gives(Modes, {b1}, known, {<<"sharpWork", "B">>}, L, {})
  BY <1>0, <1>1, <1>2, <1>3, <1>4, GivesSharp
<1>6. Gives(Modes, {b2}, known, {<<"sharpWork", "C">>}, L, {})
  BY <1>0, <1>1, <1>2, <1>3, <1>4, GivesSharp
<1>7. Gives(Modes, {b3}, known, {<<"sharpWork", "BDt">>}, L, {})
  BY <1>0, <1>1, <1>2, <1>3, <1>4, GivesSharp
<1>8. Gives(Modes, {b4}, known, {<<"sharpWork", "CDt">>}, L, {})
  BY <1>0, <1>1, <1>2, <1>3, <1>4, GivesSharp
<1>9. PackSharp(in, out) = Kernel(Modes, {b1, b2, b3, b4})
  BY DEF PackSharp, Everywhere
<1> HIDE DEF b1, b2, b3, b4
<1>10. /\ {b1, b2, b3, b4} = (({b1} \cup {b2}) \cup {b3}) \cup {b4}
       /\ Packed = (({<<"sharpWork", "B">>} \cup {<<"sharpWork", "C">>})
                      \cup {<<"sharpWork", "BDt">>}) \cup {<<"sharpWork", "CDt">>}
  BY DEF Packed
<1>11. Gives(Modes, ({b1} \cup {b2}) \cup {b3}, known,
             ({<<"sharpWork", "B">>} \cup {<<"sharpWork", "C">>})
               \cup {<<"sharpWork", "BDt">>}, L, {})
  BY <1>5, <1>6, <1>7, GivesBoth
<1>12. Gives(Modes, {b1, b2, b3, b4}, known, Packed, L, {})
  BY <1>8, <1>10, <1>11, GivesBoth
<1> QED
  BY <1>0, <1>9, <1>12, MakesGiven

\* The third pass.
Pass3Slots(out, angular) ==
  ({angular} \X {"Eth2C", "Eth2Pi", "EthPrime1BSharp", "EthPrime2CSharp"}) \cup
  Packed \cup {<<out, "U">>}

LEMMA Pass3Makes ==
  ASSUME NEW in, NEW out, NEW radial, NEW angular, NEW L,
         ReconstructionOf(in, out, radial, angular, L),
         NEW known, known \subseteq Slots,
         {in} \X Daughters \subseteq known, {radial} \X Daughters \subseteq known,
         {out} \X {"B", "Pi", "C"} \subseteq known
  PROVE  Makes(Pass3(in, out, radial, angular), known, Pass3Slots(out, angular), L, {})
<1> DEFINE a1 == Eth(in, "C", out, "C", angular, "Eth2C")
           a2 == Eth(in, "Pi", out, "Pi", angular, "Eth2Pi")
           c1 == Eth("sharpWork", "B", "sharpWork", "BDt", angular, "EthPrime1BSharp")
           c2 == Eth("sharpWork", "C", "sharpWork", "CDt", angular, "EthPrime2CSharp")
           k1 == Kernel(Parents, {a1, a2})
           k2 == PackSharp(in, out)
           k3 == Kernel(Parents, {c1, c2})
           k4 == UpdateU(in, out, radial, angular)
           k5 == Project(Parents, out, {"U"})
           w1 == {<<angular, "Eth2C">>, <<angular, "Eth2Pi">>}
           w3 == {<<angular, "EthPrime1BSharp">>, <<angular, "EthPrime2CSharp">>}
           w4 == {<<out, "U">>}
           known1 == known \cup w1
           known2 == known1 \cup Packed
           known3 == known2 \cup w3
<1>0. /\ L \in Nat /\ in \in Vectors /\ out \in Vectors
      /\ LevelOf(in) = L /\ LevelOf(out) = L + 1
  BY WorkHolds DEF ReconstructionOf
<1>1. /\ Holds(<<in, "Pi">>, 5, Parents, L, L) /\ Holds(<<out, "Pi">>, 5, Parents, L + 1, L)
      /\ Holds(<<in, "C">>, 6, Parents, L, L) /\ Holds(<<out, "C">>, 6, Parents, L + 1, L)
  BY <1>0, FieldHolds
<1>2. /\ Holds(<<angular, "Eth2C">>, 6, Parents, L, L)
      /\ Holds(<<angular, "Eth2Pi">>, 6, Parents, L, L)
      /\ Holds(<<angular, "EthPrime1BSharp">>, 6, Parents, L, L)
      /\ Holds(<<angular, "EthPrime2CSharp">>, 6, Parents, L, L)
      /\ Holds(<<"sharpWork", "B">>, 6, Modes, L, L)
      /\ Holds(<<"sharpWork", "C">>, 6, Modes, L, L)
      /\ Holds(<<"sharpWork", "BDt">>, 6, Modes, L + 1, L)
      /\ Holds(<<"sharpWork", "CDt">>, 6, Modes, L + 1, L)
  BY WorkHolds
<1>3. 5 <= 6 /\ 6 <= 6 /\ 6 <= 7 /\ Parents \subseteq Parents
  OBVIOUS
<1>4. /\ w1 \subseteq Slots /\ w3 \subseteq Slots /\ Packed \subseteq Slots
      /\ known1 \subseteq Slots /\ known2 \subseteq Slots /\ known3 \subseteq Slots
  BY <1>1, <1>2 DEF Holds, Packed
<1>5. Makes(<<k1>>, known, w1, L, {})
  <2>0. /\ <<in, "C">> \in known /\ <<in, "Pi">> \in known
        /\ <<out, "C">> \in known /\ <<out, "Pi">> \in known
    BY FieldPlaces
  <2>1. Gives(Parents, {a1}, known, {<<angular, "Eth2C">>}, L, {})
    BY <1>0, <1>1, <1>2, <1>3, <2>0, GivesEth
  <2>2. Gives(Parents, {a2}, known, {<<angular, "Eth2Pi">>}, L, {})
    BY <1>0, <1>1, <1>2, <1>3, <2>0, GivesEth
  <2> HIDE DEF a1, a2
  <2>3. {a1, a2} = {a1} \cup {a2} /\ w1 = {<<angular, "Eth2C">>} \cup {<<angular, "Eth2Pi">>}
    OBVIOUS
  <2> QED
    BY <1>0, <2>1, <2>2, <2>3, GivesBoth, MakesGiven
<1>6. Makes(<<k2>>, known1, Packed, L, {})
  <2>1. {in} \X Daughters \subseteq known1 /\ {out} \X {"B", "C"} \subseteq known1
    OBVIOUS
  <2> HIDE DEF known1
  <2> QED
    BY <1>4, <2>1, PackMakes
<1>7. Makes(<<k3>>, known2, w3, L, {})
  <2>0. /\ <<"sharpWork", "B">> \in known2 /\ <<"sharpWork", "BDt">> \in known2
        /\ <<"sharpWork", "C">> \in known2 /\ <<"sharpWork", "CDt">> \in known2
    BY DEF Packed
  <2> HIDE DEF known2
  <2>1. Gives(Parents, {c1}, known2, {<<angular, "EthPrime1BSharp">>}, L, {})
    BY <1>0, <1>2, <1>3, <2>0, GivesEth
  <2>2. Gives(Parents, {c2}, known2, {<<angular, "EthPrime2CSharp">>}, L, {})
    BY <1>0, <1>2, <1>3, <2>0, GivesEth
  <2> HIDE DEF c1, c2
  <2>3. /\ {c1, c2} = {c1} \cup {c2}
        /\ w3 = {<<angular, "EthPrime1BSharp">>} \cup {<<angular, "EthPrime2CSharp">>}
    OBVIOUS
  <2> QED
    BY <1>0, <1>4, <2>1, <2>2, <2>3, GivesBoth, MakesGiven
<1>8. Makes(<<k4, k5>>, known3, w4, L, {})
  <2>1. /\ {in} \X Daughters \subseteq known3 /\ {radial} \X Daughters \subseteq known3
        /\ {angular} \X {"Eth2C", "Eth2Pi", "EthPrime1BSharp", "EthPrime2CSharp"}
             \subseteq known3
    OBVIOUS
  <2> HIDE DEF known3
  <2> QED
    BY <1>4, <2>1, UpdateMakes
<1>9. Pass3(in, out, radial, angular) = <<k1, k2, k3, k4, k5>>
  BY DEF Pass3
<1>10. Pass3Slots(out, angular) = ((w1 \cup Packed) \cup w3) \cup w4
  BY DEF Pass3Slots
<1>11. known2 = known \cup (w1 \cup Packed) /\ known3 = known \cup ((w1 \cup Packed) \cup w3)
  OBVIOUS
<1> HIDE DEF k1, k2, k3, k4, k5, w1, w3, w4, known2, known3
<1>12. Makes(<<k1, k2>>, known, w1 \cup Packed, L, {})
  BY <1>5, <1>6, MakesTwo
<1>13. Makes(<<k1, k2, k3>>, known, (w1 \cup Packed) \cup w3, L, {})
  BY <1>7, <1>11, <1>12, MakesThree
<1>14. Makes(<<k1, k2, k3>> \o <<k4, k5>>, known, ((w1 \cup Packed) \cup w3) \cup w4, L, {})
  <2> DEFINE p == <<k1, k2, k3>>
             q == <<k4, k5>>
             v == (w1 \cup Packed) \cup w3
  <2>1. Makes(p, known, v, L, {}) /\ Makes(q, known \cup v, w4, L, {})
    BY <1>8, <1>11, <1>13
  <2> HIDE DEF p, q, v
  <2>2. Makes(p \o q, known, v \cup w4, L, {})
    BY <2>1, MakesJoined
  <2> QED
    BY <2>2, Zenon DEF p, q, v
<1>15. <<k1, k2, k3, k4, k5>> = <<k1, k2, k3>> \o <<k4, k5>>
  BY ListOfFive
<1> QED
  BY <1>9, <1>10, <1>14, <1>15, Zenon

\* All three passes.
ReconstructionSlots(out, radial, angular) ==
  ({radial} \X Daughters) \cup ({out} \X Daughters) \cup ({angular} \X AngularSlots) \cup Packed

LEMMA ReconstructionMakes ==
  ASSUME NEW in, NEW out, NEW radial, NEW angular, NEW L,
         ReconstructionOf(in, out, radial, angular, L),
         NEW known, known \subseteq Slots,
         {in} \X (Daughters \cup FirstFields) \subseteq known,
         <<out, "FirstPsi">> \in known
  PROVE  Makes(Reconstruction(in, out, radial, angular), known,
               ReconstructionSlots(out, radial, angular), L, {})
<1> DEFINE p0 == RadialDerivatives(in, radial)
           p1 == Pass1(in, out, radial, angular)
           p2 == Pass2(in, out, radial, angular)
           p3 == Pass3(in, out, radial, angular)
           w0 == {radial} \X Daughters
           w1 == {<<angular, "Eth1F">>} \cup ({out} \X {"G", "Lambda"})
           w2 == {<<angular, "Eth2G">>} \cup ({out} \X {"H", "B", "Pi", "C"})
           w3 == Pass3Slots(out, angular)
           known1 == known \cup w0
           known2 == known \cup (w0 \cup w1)
           known3 == known \cup ((w0 \cup w1) \cup w2)
<1>1. {in} \X Daughters \subseteq known /\ <<in, "FirstPsi">> \in known
  BY DEF FirstFields
<1>2. Makes(p0, known, w0, L, {})
  BY <1>1, RadialMakes
<1>3. known1 \subseteq Slots
  <2> HIDE DEF p0, w0
  <2> QED
    BY <1>2 DEF Makes
<1>4. Makes(p1, known1, w1, L, {})
  <2>1. /\ {in} \X Daughters \subseteq known1 /\ <<in, "FirstPsi">> \in known1
        /\ <<out, "FirstPsi">> \in known1 /\ {radial} \X Daughters \subseteq known1
    BY <1>1
  <2> HIDE DEF known1
  <2> QED
    BY <1>3, <2>1, Pass1Makes
<1>5. Makes(p0 \o p1, known, w0 \cup w1, L, {}) /\ known2 \subseteq Slots
  <2> HIDE DEF p0, p1, w0, w1
  <2>1. Makes(p0 \o p1, known, w0 \cup w1, L, {})
    BY <1>2, <1>4, MakesJoined
  <2>2. w0 \cup w1 \subseteq Slots
    BY <2>1 DEF Makes
  <2> QED
    BY <2>1, <2>2
<1>6. Makes(p2, known2, w2, L, {})
  <2>1. /\ {in} \X Daughters \subseteq known2 /\ {radial} \X Daughters \subseteq known2
        /\ {out} \X {"G", "Lambda"} \subseteq known2
    BY <1>1
  <2> HIDE DEF known2
  <2> QED
    BY <1>5, <2>1, Pass2Makes
<1>7. Makes((p0 \o p1) \o p2, known, (w0 \cup w1) \cup w2, L, {}) /\ known3 \subseteq Slots
  <2> DEFINE p == p0 \o p1
             w == w0 \cup w1
  <2>0. Makes(p, known, w, L, {}) /\ Makes(p2, known \cup w, w2, L, {})
    BY <1>5, <1>6
  <2> HIDE DEF p, w, p2, w2
  <2>1. Makes(p \o p2, known, w \cup w2, L, {})
    BY <2>0, MakesJoined
  <2>2. w \cup w2 \subseteq Slots
    BY <2>1 DEF Makes
  <2> QED
    BY <2>1, <2>2 DEF p, w
<1>8. Makes(p3, known3, w3, L, {})
  <2>1. /\ {in} \X Daughters \subseteq known3 /\ {radial} \X Daughters \subseteq known3
        /\ {out} \X {"B", "Pi", "C"} \subseteq known3
    BY <1>1
  <2> HIDE DEF known3
  <2> QED
    BY <1>7, <2>1, Pass3Makes
<1>9. Makes(((p0 \o p1) \o p2) \o p3, known, ((w0 \cup w1) \cup w2) \cup w3, L, {})
  <2> DEFINE p == (p0 \o p1) \o p2
             w == (w0 \cup w1) \cup w2
  <2>0. Makes(p, known, w, L, {}) /\ Makes(p3, known \cup w, w3, L, {})
    BY <1>7, <1>8
  <2> HIDE DEF p, w, p3, w3
  <2>1. Makes(p \o p3, known, w \cup w3, L, {})
    BY <2>0, MakesJoined
  <2> QED
    BY <2>1 DEF p, w
<1>10. Reconstruction(in, out, radial, angular) = ((p0 \o p1) \o p2) \o p3
  BY DEF Reconstruction
<1>11. ReconstructionSlots(out, radial, angular) = ((w0 \cup w1) \cup w2) \cup w3
  BY DEF ReconstructionSlots, Pass3Slots, Daughters, AngularSlots
<1> HIDE DEF p0, p1, p2, p3, w0, w1, w2, w3
<1> QED
  BY <1>9, <1>10, <1>11

-----------------------------------------------------------------------------
(* The residuals of the constraints *)

LEMMA ConstraintHolds ==
  ASSUME NEW shift
  PROVE  /\ Holds(<<"independentAngular", "EthPrime2G">>, 7, Parents, 0, shift)
         /\ Holds(<<"independentAngular", "EthPrime3H">>, 7, Parents, 0, shift)
         /\ Holds(<<"independentConstraints", "Psi3Bianchi">>, 7, Parents, 0, shift)
         /\ Holds(<<"independentConstraints", "Psi2Bianchi">>, 7, Parents, 0, shift)
         /\ Holds(<<"independentConstraints", "HllReality">>, 7, Modes, 0, shift)
         /\ Holds(<<"radial", "G">>, 1, Parents, 0, shift)
  BY DEF Holds, Slots, AngularViews, RadialViews, Rank, Place, FirstFields, Daughters, Band,
         Level, Vectors, StageViews, OutputViews, ZeroForcing

\* The residuals of the independent constraints.
ConstraintSlots ==
  {<<"independentAngular", "EthPrime2G">>, <<"independentAngular", "EthPrime3H">>} \cup
  {<<"independentConstraints", "Psi3Bianchi">>, <<"independentConstraints", "Psi2Bianchi">>,
   <<"independentConstraints", "HllReality">>}

LEMMA ConstraintsMakes ==
  ASSUME NEW in \in StageViews, NEW out \in OutputViews, NEW shift \in Nat,
         NEW known, known \subseteq Slots,
         {in} \X (Daughters \cup FirstFields) \subseteq known,
         <<out, "FirstPsi">> \in known, {out} \X Daughters \subseteq known,
         <<"firstScratch", "DrPsi">> \in known, {"radial"} \X Daughters \subseteq known
  PROVE  Makes(Constraints(in, out), known, ConstraintSlots, shift, {})
<1> DEFINE e1 == <<"independentAngular", "EthPrime2G">>
           e2 == <<"independentAngular", "EthPrime3H">>
           s1 == <<"independentConstraints", "Psi3Bianchi">>
           s2 == <<"independentConstraints", "Psi2Bianchi">>
           s3 == <<"independentConstraints", "HllReality">>
           a1 == Eth(in, "G", out, "G", "independentAngular", "EthPrime2G")
           a2 == Eth(in, "H", out, "H", "independentAngular", "EthPrime3H")
           r1 == {Own(in, "FirstPsi"), Rate(out, "FirstPsi"),
                  Own("firstScratch", "DrPsi"), Own(in, "G"), Own(in, "Lambda"),
                  Own("independentAngular", "EthPrime2G")}
           r2 == {Own(in, f) : f \in {"G", "H", "Pi", "B", "C"}} \cup
                 {Rate(out, "G"), Own("radial", "G"),
                  Own("independentAngular", "EthPrime3H")}
           r3 == {Own(in, "U"), Sharp(in, "U")}
           b1 == To("independentConstraints", "Psi3Bianchi", r1)
           b2 == To("independentConstraints", "Psi2Bianchi", r2)
           b3 == To("independentConstraints", "HllReality", r3)
           k1 == Kernel(Parents, {a1, a2})
           k2 == Kernel(Modes, {b1, b2, b3})
           w1 == {e1, e2}
           w2 == {s1, s2, s3}
           known1 == known \cup w1
<1>0. /\ in \in Vectors /\ out \in Vectors
      /\ LevelOf(in) = 0 /\ LevelOf(out) = 0 + 1
  BY DEF Vectors, LevelOf, StageViews, OutputViews
<1>1. /\ Holds(<<in, "FirstPsi">>, 0, Parents, 0, shift)
      /\ Holds(<<out, "FirstPsi">>, 0, Parents, 0 + 1, shift)
      /\ Holds(<<in, "G">>, 1, Parents, 0, shift)
      /\ Holds(<<out, "G">>, 1, Parents, 0 + 1, shift)
      /\ Holds(<<in, "Lambda">>, 2, Parents, 0, shift)
      /\ Holds(<<in, "H">>, 3, Parents, 0, shift)
      /\ Holds(<<out, "H">>, 3, Parents, 0 + 1, shift)
      /\ Holds(<<in, "B">>, 4, Parents, 0, shift)
      /\ Holds(<<in, "Pi">>, 5, Parents, 0, shift)
      /\ Holds(<<in, "C">>, 6, Parents, 0, shift)
      /\ Holds(<<in, "U">>, 7, Parents, 0, shift)
  BY <1>0, FieldHolds
<1>2. /\ Holds(e1, 7, Parents, 0, shift) /\ Holds(e2, 7, Parents, 0, shift)
      /\ Holds(s1, 7, Parents, 0, shift) /\ Holds(s2, 7, Parents, 0, shift)
      /\ Holds(s3, 7, Modes, 0, shift)
      /\ Holds(<<"radial", "G">>, 1, Parents, 0, shift)
  BY ConstraintHolds
<1>3. Holds(<<"firstScratch", "DrPsi">>, 0, Parents, 0, shift)
  BY ScratchHolds DEF Scratches
<1>4. /\ <<in, "FirstPsi">> \in known /\ <<out, "FirstPsi">> \in known
      /\ <<in, "G">> \in known /\ <<out, "G">> \in known /\ <<in, "Lambda">> \in known
      /\ <<in, "H">> \in known /\ <<out, "H">> \in known /\ <<in, "B">> \in known
      /\ <<in, "Pi">> \in known /\ <<in, "C">> \in known /\ <<in, "U">> \in known
      /\ <<"radial", "G">> \in known /\ <<"firstScratch", "DrPsi">> \in known
  BY FieldPlaces DEF FirstFields
<1>5. /\ 0 <= 7 /\ 1 <= 7 /\ 2 <= 7 /\ 3 <= 7 /\ 4 <= 7 /\ 5 <= 7 /\ 6 <= 7 /\ 7 <= 7
      /\ 7 \in 1 .. 7 /\ 0 \in Int /\ 0 \in Nat /\ 0 + 1 \in Nat
      /\ 0 + 0 = 0 /\ (0 + 1) - 1 + 0 = 0
  OBVIOUS
<1>6. w1 \subseteq Slots /\ w2 \subseteq Slots /\ known1 \subseteq Slots
  BY <1>2 DEF Holds
<1>7. Makes(<<k1>>, known, w1, shift, {})
  <2>1. Gives(Parents, {a1}, known, {e1}, shift, {})
    BY <1>1, <1>2, <1>4, <1>5, GivesEth
  <2>2. Gives(Parents, {a2}, known, {e2}, shift, {})
    BY <1>1, <1>2, <1>4, <1>5, GivesEth
  <2> HIDE DEF a1, a2, e1, e2
  <2>3. {a1, a2} = {a1} \cup {a2} /\ w1 = {e1} \cup {e2}
    OBVIOUS
  <2> QED
    BY <2>1, <2>2, <2>3, GivesBoth, MakesGiven
<1>8. Makes(<<k2>>, known1, w2, shift, {})
  <2>0. /\ <<in, "FirstPsi">> \in known1 /\ <<out, "FirstPsi">> \in known1
        /\ <<in, "G">> \in known1 /\ <<out, "G">> \in known1 /\ <<in, "Lambda">> \in known1
        /\ <<in, "H">> \in known1 /\ <<in, "B">> \in known1
        /\ <<in, "Pi">> \in known1 /\ <<in, "C">> \in known1 /\ <<in, "U">> \in known1
        /\ <<"radial", "G">> \in known1 /\ <<"firstScratch", "DrPsi">> \in known1
        /\ e1 \in known1 /\ e2 \in known1
    BY <1>4
  <2> HIDE DEF known1
  <2>1. Gives(Modes, {b1}, known1, {s1}, shift, {})
    <3>1. \A q \in {Own(in, "FirstPsi"), Own("firstScratch", "DrPsi"), Own(in, "G"),
                    Own(in, "Lambda"), Own("independentAngular", "EthPrime2G")} :
            ReadFits(q, s1, 0, Modes, known1, shift, {})
      BY <1>1, <1>2, <1>3, <1>5, <2>0, OwnReads
    <3>2. ReadFits(Rate(out, "FirstPsi"), s1, 0, Modes, known1, shift, {})
      BY <1>1, <1>2, <1>5, <2>0, RateReads
    <3>3. \A q \in r1 : ReadFits(q, s1, 0, Modes, known1, shift, {})
      BY <3>1, <3>2
    <3> HIDE DEF r1
    <3> QED
      BY <1>2, <3>3, GivesTo
  <2>2. Gives(Modes, {b2}, known1, {s2}, shift, {})
    <3>1. \A q \in {Own(in, "G"), Own(in, "H"), Own(in, "Pi"), Own(in, "B"), Own(in, "C"),
                    Own("radial", "G"), Own("independentAngular", "EthPrime3H")} :
            ReadFits(q, s2, 0, Modes, known1, shift, {})
      BY <1>1, <1>2, <1>5, <2>0, OwnReads
    <3>2. ReadFits(Rate(out, "G"), s2, 0, Modes, known1, shift, {})
      BY <1>1, <1>2, <1>5, <2>0, RateReads
    <3>3. \A q \in r2 : ReadFits(q, s2, 0, Modes, known1, shift, {})
      BY <3>1, <3>2
    <3> HIDE DEF r2
    <3> QED
      BY <1>2, <3>3, GivesTo
  <2>3. Gives(Modes, {b3}, known1, {s3}, shift, {})
    <3>1. ReadFits(Sharp(in, "U"), s3, 0, Modes, known1, shift, {})
      BY <1>1, <1>2, <1>5, <2>0, SharpReads
    <3>2. ReadFits(Own(in, "U"), s3, 0, Modes, known1, shift, {})
      <4>1. Parents \cap Modes = Parents /\ Modes \cap Parents \subseteq Modes
        BY RegistryAssumption
      <4> QED
        BY <1>1, <1>2, <1>5, <2>0, <4>1 DEF Holds, ReadFits, Own, Read, Self, Wide
    <3>3. \A q \in r3 : ReadFits(q, s3, 0, Modes, known1, shift, {})
      BY <3>1, <3>2
    <3> HIDE DEF r3
    <3> QED
      BY <1>2, <3>3, GivesTo
  <2> HIDE DEF b1, b2, b3, s1, s2, s3
  <2>4. {b1, b2, b3} = ({b1} \cup {b2}) \cup {b3} /\ w2 = ({s1} \cup {s2}) \cup {s3}
    OBVIOUS
  <2>5. Gives(Modes, {b1} \cup {b2}, known1, {s1} \cup {s2}, shift, {})
    BY <2>1, <2>2, GivesBoth
  <2>6. Gives(Modes, {b1, b2, b3}, known1, w2, shift, {})
    BY <2>3, <2>4, <2>5, GivesBoth
  <2> QED
    BY <1>6, <2>6, MakesGiven
<1>9. Constraints(in, out) = <<k1, k2>>
  BY DEF Constraints, Everywhere
<1>10. ConstraintSlots = w1 \cup w2
  BY DEF ConstraintSlots
<1> HIDE DEF k1, k2, w1, w2
<1> QED
  BY <1>7, <1>8, <1>9, <1>10, MakesTwo

-----------------------------------------------------------------------------
(* What the quadratic source is made of *)

LEMMA ExtraHolds ==
  ASSUME NEW shift
  PROVE  /\ Holds(<<"extra", "Eth1B">>, 7, Parents, 0, shift)
         /\ Holds(<<"extra", "EthPrime1F">>, 7, Parents, 0, shift)
         /\ Holds(<<"extraTangent", "Eth1B">>, 7, Parents, 1, shift)
         /\ Holds(<<"extraTangent", "EthPrime1F">>, 7, Parents, 1, shift)
  BY DEF Holds, Slots, ExtraSlots, AngularViews, RadialViews, Rank, Band,
         Level, Vectors, StageViews, OutputViews, ZeroForcing

\* The angular derivatives the source needs besides those of the reconstruction.
ExtraOf == {"extra", "extraTangent"} \X ExtraSlots

LEMMA SourceAngularMakes ==
  ASSUME NEW in \in StageViews, NEW out \in OutputViews, NEW shift \in Nat,
         NEW known, known \subseteq Slots,
         {in, out, "tangentRhs"} \X {"B", "FirstPsi"} \subseteq known
  PROVE  Makes(SourceAngular(in, out, "tangentRhs"), known, ExtraOf, shift, {})
<1> DEFINE e1 == <<"extra", "Eth1B">>
           e2 == <<"extra", "EthPrime1F">>
           e3 == <<"extraTangent", "Eth1B">>
           e4 == <<"extraTangent", "EthPrime1F">>
           a1 == Eth(in, "B", out, "B", "extra", "Eth1B")
           a2 == Eth(in, "FirstPsi", out, "FirstPsi", "extra", "EthPrime1F")
           a3 == Eth(out, "B", "tangentRhs", "B", "extraTangent", "Eth1B")
           a4 == Eth(out, "FirstPsi", "tangentRhs", "FirstPsi", "extraTangent", "EthPrime1F")
<1>0. /\ in \in Vectors /\ out \in Vectors /\ "tangentRhs" \in Vectors
      /\ LevelOf(in) = 0 /\ LevelOf(out) = 0 + 1 /\ LevelOf(out) = 1
      /\ LevelOf("tangentRhs") = 1 + 1
  BY DEF Vectors, LevelOf, StageViews, OutputViews
<1>1. /\ Holds(<<in, "FirstPsi">>, 0, Parents, 0, shift)
      /\ Holds(<<out, "FirstPsi">>, 0, Parents, 0 + 1, shift)
      /\ Holds(<<out, "FirstPsi">>, 0, Parents, 1, shift)
      /\ Holds(<<"tangentRhs", "FirstPsi">>, 0, Parents, 1 + 1, shift)
      /\ Holds(<<in, "B">>, 4, Parents, 0, shift)
      /\ Holds(<<out, "B">>, 4, Parents, 0 + 1, shift)
      /\ Holds(<<out, "B">>, 4, Parents, 1, shift)
      /\ Holds(<<"tangentRhs", "B">>, 4, Parents, 1 + 1, shift)
  BY <1>0, FieldHolds
<1>2. /\ Holds(e1, 7, Parents, 0, shift) /\ Holds(e2, 7, Parents, 0, shift)
      /\ Holds(e3, 7, Parents, 1, shift) /\ Holds(e4, 7, Parents, 1, shift)
  BY ExtraHolds
<1>3. /\ <<in, "FirstPsi">> \in known /\ <<in, "B">> \in known
      /\ <<out, "FirstPsi">> \in known /\ <<out, "B">> \in known
      /\ <<"tangentRhs", "FirstPsi">> \in known /\ <<"tangentRhs", "B">> \in known
  OBVIOUS
<1>4. 0 <= 7 /\ 4 <= 7 /\ 7 <= 7 /\ 0 \in Nat /\ 1 \in Nat
  OBVIOUS
<1>5. Gives(Parents, {a1}, known, {e1}, shift, {})
  BY <1>1, <1>2, <1>3, <1>4, GivesEth
<1>6. Gives(Parents, {a2}, known, {e2}, shift, {})
  BY <1>1, <1>2, <1>3, <1>4, GivesEth
<1>7. Gives(Parents, {a3}, known, {e3}, shift, {})
  BY <1>1, <1>2, <1>3, <1>4, GivesEth
<1>8. Gives(Parents, {a4}, known, {e4}, shift, {})
  BY <1>1, <1>2, <1>3, <1>4, GivesEth
<1>9. SourceAngular(in, out, "tangentRhs") = <<Kernel(Parents, {a1, a2, a3, a4})>>
  BY DEF SourceAngular
<1>10. ExtraOf = (({e1} \cup {e2}) \cup {e3}) \cup {e4}
  BY DEF ExtraOf, ExtraSlots
<1> HIDE DEF a1, a2, a3, a4, e1, e2, e3, e4
<1>11. {a1, a2, a3, a4} = (({a1} \cup {a2}) \cup {a3}) \cup {a4}
  OBVIOUS
<1>12. Gives(Parents, ({a1} \cup {a2}) \cup {a3}, known, ({e1} \cup {e2}) \cup {e3}, shift, {})
  BY <1>5, <1>6, <1>7, GivesBoth
<1>13. Gives(Parents, {a1, a2, a3, a4}, known, ExtraOf, shift, {})
  BY <1>8, <1>10, <1>11, <1>12, GivesBoth
<1> QED
  BY <1>9, <1>13, MakesGiven

\* The views one order of the source is prepared from, and into.
\* Source fields and their derivatives, of the stage or of its slope.
PreparedOf(in, dt, scratch, radial, angular, extra, fields, derivatives, L) ==
  /\ in \in Vectors /\ dt \in Vectors /\ LevelOf(in) = L /\ LevelOf(dt) = L + 1
  /\ \/ /\ L = 0 /\ scratch = "firstScratch" /\ radial = "radial"
        /\ angular = "angular" /\ extra = "extra"
        /\ fields = "sourceFields" /\ derivatives = "sourceDerivatives"
     \/ /\ L = 1 /\ scratch = "tangentScratch" /\ radial = "tangentRadial"
        /\ angular = "tangentAngular" /\ extra = "extraTangent"
        /\ fields = "sourceFieldTangents" /\ derivatives = "sourceDerivativeTangents"

LEMMA PreparedHolds ==
  ASSUME NEW in, NEW dt, NEW scratch, NEW radial, NEW angular, NEW extra, NEW fields,
         NEW derivatives, NEW L, NEW shift,
         PreparedOf(in, dt, scratch, radial, angular, extra, fields, derivatives, L)
  PROVE  /\ L \in Nat
         /\ \A f \in SourceFields : Holds(<<fields, f>>, 7, Parents, L, shift)
         /\ \A s \in SourceSlots \ {"Delta2CSharp"} :
              Holds(<<derivatives, s>>, 7, Parents, L, shift)
         /\ Holds(<<derivatives, "Delta2CSharp">>, 7, Modes, L, shift)
         /\ \A s \in AngularSlots :
              \E a \in {1, 6} : Holds(<<angular, s>>, a, Parents, L, shift)
         /\ \A s \in ExtraSlots : Holds(<<extra, s>>, 7, Parents, L, shift)
         /\ Holds(<<scratch, "DrPsi">>, 0, Parents, L, shift)
         /\ Holds(<<radial, "C">>, 6, Parents, L, shift)
         /\ Holds(<<radial, "G">>, 1, Parents, L, shift)
         /\ Holds(<<radial, "U">>, 7, Parents, L, shift)
<1> DEFINE case1 == /\ L = 0 /\ scratch = "firstScratch" /\ radial = "radial"
                    /\ angular = "angular" /\ extra = "extra"
                    /\ fields = "sourceFields" /\ derivatives = "sourceDerivatives"
           case2 == /\ L = 1 /\ scratch = "tangentScratch" /\ radial = "tangentRadial"
                    /\ angular = "tangentAngular" /\ extra = "extraTangent"
                    /\ fields = "sourceFieldTangents"
                    /\ derivatives = "sourceDerivativeTangents"
<1>1. case1 \/ case2
  BY DEF PreparedOf
<1>2. \A f \in SourceFields : Holds(<<fields, f>>, 7, Parents, L, shift)
  <2>1. ASSUME NEW f \in SourceFields PROVE Holds(<<fields, f>>, 7, Parents, L, shift)
    <3>1. /\ f \notin {"Delta2CSharp", "HllReality", "FirstTangent"}
          /\ fields \in {"sourceFields", "sourceFieldTangents"}
      BY <1>1 DEF SourceFields, Daughters
    <3>2. <<fields, f>> \in Slots /\ <<fields, f>> # ZeroForcing
      BY <3>1 DEF Slots, ZeroForcing
    <3>3. Rank(<<fields, f>>) = 7
      BY <3>1 DEF Rank, Vectors, StageViews, OutputViews, RadialViews, AngularViews
    <3>4. Band(<<fields, f>>) = Parents
      BY <3>1, <3>3 DEF Band
    <3>5. Level(<<fields, f>>, shift) = L
      BY <1>1, <3>1 DEF Level, OutputViews
    <3> QED
      BY <3>2, <3>3, <3>4, <3>5 DEF Holds
  <2> QED
    BY <2>1
<1>3. ASSUME NEW s \in SourceSlots
      PROVE  Holds(<<derivatives, s>>, 7, IF s = "Delta2CSharp" THEN Modes ELSE Parents, L, shift)
  <2>1. /\ s \notin {"HllReality", "FirstTangent"}
        /\ derivatives \in {"sourceDerivatives", "sourceDerivativeTangents"}
    BY <1>1 DEF SourceSlots, AngularSlots, ExtraSlots
  <2>2. <<derivatives, s>> \in Slots /\ <<derivatives, s>> # ZeroForcing
    BY <2>1 DEF Slots, ZeroForcing
  <2>3. Rank(<<derivatives, s>>) = 7
    BY <2>1 DEF Rank, Vectors, StageViews, OutputViews, RadialViews, AngularViews
  <2>4. Band(<<derivatives, s>>) = IF s = "Delta2CSharp" THEN Modes ELSE Parents
    BY <2>1, <2>3 DEF Band
  <2>5. Level(<<derivatives, s>>, shift) = L
    BY <1>1, <2>1 DEF Level, OutputViews
  <2> QED
    BY <2>2, <2>3, <2>4, <2>5 DEF Holds
<1>4. \A s \in AngularSlots : \E a \in {1, 6} : Holds(<<angular, s>>, a, Parents, L, shift)
  <2>1. ASSUME NEW s \in AngularSlots
        PROVE  Holds(<<angular, s>>, IF s \in {"Eth1F", "Eth2G"} THEN 1 ELSE 6, Parents, L, shift)
    <3>1. /\ s \notin {"Delta2CSharp", "HllReality", "FirstTangent"}
          /\ angular \in AngularViews
      BY <1>1 DEF AngularSlots, AngularViews
    <3>2. <<angular, s>> \in Slots /\ <<angular, s>> # ZeroForcing
      BY <3>1 DEF Slots, ZeroForcing, AngularViews
    <3>3. Rank(<<angular, s>>) = IF s \in {"Eth1F", "Eth2G"} THEN 1 ELSE 6
      BY <3>1 DEF Rank, Vectors, StageViews, OutputViews, RadialViews, AngularViews
    <3>4. Band(<<angular, s>>) = Parents
      BY <3>1, <3>3 DEF Band, AngularViews
    <3>5. Level(<<angular, s>>, shift) = L
      BY <1>1, <3>1 DEF Level, OutputViews
    <3> QED
      BY <3>2, <3>3, <3>4, <3>5 DEF Holds
  <2>2. ASSUME NEW s \in AngularSlots PROVE (IF s \in {"Eth1F", "Eth2G"} THEN 1 ELSE 6) \in {1, 6}
    OBVIOUS
  <2> QED
    BY <2>1, <2>2
<1>5. \A s \in ExtraSlots : Holds(<<extra, s>>, 7, Parents, L, shift)
  BY <1>1, ExtraHolds DEF ExtraSlots
<1>6. Holds(<<scratch, "DrPsi">>, 0, Parents, L, shift)
  BY <1>1, ScratchHolds DEF Scratches
<1>7. /\ Holds(<<radial, "C">>, 6, Parents, L, shift)
      /\ Holds(<<radial, "G">>, 1, Parents, L, shift)
      /\ Holds(<<radial, "U">>, 7, Parents, L, shift)
  BY <1>1 DEF Holds, Slots, RadialViews, Rank, Place, FirstFields, Daughters, Band, Level,
              Vectors, StageViews, OutputViews, ZeroForcing
<1>8. L \in Nat
  BY <1>1
<1>9. "Delta2CSharp" \in SourceSlots
  BY DEF SourceSlots
<1>10. \A s \in SourceSlots \ {"Delta2CSharp"} : Holds(<<derivatives, s>>, 7, Parents, L, shift)
  BY <1>3
<1>11. Holds(<<derivatives, "Delta2CSharp">>, 7, Modes, L, shift)
  BY <1>3, <1>9
<1> QED
  BY <1>2, <1>4, <1>5, <1>6, <1>7, <1>8, <1>10, <1>11

\* A directional derivative: the field, its rate and its radial derivative.
LEMMA GivesDelta ==
  ASSUME NEW in, NEW dt, NEW field, NEW drView, NEW drField, NEW view, NEW slot,
         NEW known, NEW shift, NEW a, NEW L \in Nat,
         <<in, field>> \in known, Holds(<<in, field>>, a, Parents, L, shift),
         <<dt, field>> \in known, Holds(<<dt, field>>, a, Parents, L + 1, shift),
         <<drView, drField>> \in known, Holds(<<drView, drField>>, a, Parents, L, shift),
         Holds(<<view, slot>>, 7, Parents, L, shift), a <= 7
  PROVE  Gives(Modes, {To(view, slot, Delta(in, dt, field, Own(drView, drField)))}, known,
               {<<view, slot>>}, shift, {})
<1>1. L + 0 = L /\ (L + 1) - 1 + 0 = L /\ 0 \in Int /\ L + 1 \in Nat /\ 7 <= 7
  OBVIOUS
<1>2. ReadFits(Own(in, field), <<view, slot>>, 0, Modes, known, shift, {})
  BY <1>1, OwnReads
<1>3. ReadFits(Rate(dt, field), <<view, slot>>, 0, Modes, known, shift, {})
  BY <1>1, RateReads
<1>4. ReadFits(Own(drView, drField), <<view, slot>>, 0, Modes, known, shift, {})
  BY <1>1, OwnReads
<1>5. \A q \in {Own(in, field), Rate(dt, field), Own(drView, drField)} :
        ReadFits(q, <<view, slot>>, 0, Modes, known, shift, {})
  BY <1>2, <1>3, <1>4
<1> QED
  BY <1>5, GivesTo DEF Delta

PreparedSlots(fields, derivatives) ==
  ({fields} \X SourceFields) \cup ({derivatives} \X SourceSlots)

LEMMA PreparedGives ==
  ASSUME NEW in, NEW dt, NEW scratch, NEW radial, NEW angular, NEW extra, NEW fields,
         NEW derivatives, NEW L, NEW shift,
         PreparedOf(in, dt, scratch, radial, angular, extra, fields, derivatives, L),
         NEW known, {in, dt} \X SourceFields \subseteq known,
         <<scratch, "DrPsi">> \in known, {radial} \X Daughters \subseteq known,
         {angular} \X AngularSlots \subseteq known, {extra} \X ExtraSlots \subseteq known
  PROVE  Gives(Modes,
               Prepared(in, dt, scratch, radial, angular, extra, fields, derivatives),
               known, PreparedSlots(fields, derivatives), shift, {})
<1> DEFINE some == AngularSlots \ {"Eth1F", "Eth2Pi"}
           A == Copies(fields, in, SourceFields)
           B == Copies(derivatives, angular, some)
           C == Copies(derivatives, extra, ExtraSlots)
           d1 == To(derivatives, "Delta1F", Delta(in, dt, "FirstPsi", Own(scratch, "DrPsi")))
           d2 == To(derivatives, "Delta3U", Delta(in, dt, "U", Own(radial, "U")))
           d3 == To(derivatives, "Delta2C", Delta(in, dt, "C", Own(radial, "C")))
           d4 == To(derivatives, "Delta2G", Delta(in, dt, "G", Own(radial, "G")))
           mirror == [Sharp(dt, "C") EXCEPT !.rate = 1]
           d5 == To(derivatives, "Delta2CSharp",
                    {Sharp(in, "C"), mirror, Sharp(radial, "C")})
           s1 == <<derivatives, "Delta1F">>
           s2 == <<derivatives, "Delta3U">>
           s3 == <<derivatives, "Delta2C">>
           s4 == <<derivatives, "Delta2G">>
           s5 == <<derivatives, "Delta2CSharp">>
<1>0. /\ in \in Vectors /\ dt \in Vectors /\ LevelOf(in) = L /\ LevelOf(dt) = L + 1
  BY DEF PreparedOf
<1>1. /\ L \in Nat
      /\ \A f \in SourceFields : Holds(<<fields, f>>, 7, Parents, L, shift)
      /\ \A s \in SourceSlots \ {"Delta2CSharp"} :
           Holds(<<derivatives, s>>, 7, Parents, L, shift)
      /\ Holds(s5, 7, Modes, L, shift)
      /\ \A s \in AngularSlots :
           \E a \in {1, 6} : Holds(<<angular, s>>, a, Parents, L, shift)
      /\ \A s \in ExtraSlots : Holds(<<extra, s>>, 7, Parents, L, shift)
      /\ Holds(<<scratch, "DrPsi">>, 0, Parents, L, shift)
      /\ Holds(<<radial, "C">>, 6, Parents, L, shift)
      /\ Holds(<<radial, "G">>, 1, Parents, L, shift)
      /\ Holds(<<radial, "U">>, 7, Parents, L, shift)
  BY PreparedHolds
<1>2. /\ Holds(<<in, "FirstPsi">>, 0, Parents, L, shift)
      /\ Holds(<<dt, "FirstPsi">>, 0, Parents, L + 1, shift)
      /\ Holds(<<in, "G">>, 1, Parents, L, shift)
      /\ Holds(<<dt, "G">>, 1, Parents, L + 1, shift)
      /\ Holds(<<in, "C">>, 6, Parents, L, shift)
      /\ Holds(<<dt, "C">>, 6, Parents, L + 1, shift)
      /\ Holds(<<in, "U">>, 7, Parents, L, shift)
      /\ Holds(<<dt, "U">>, 7, Parents, L + 1, shift)
  BY <1>0, FieldHolds
<1>3. /\ <<in, "FirstPsi">> \in known /\ <<dt, "FirstPsi">> \in known
      /\ <<in, "G">> \in known /\ <<dt, "G">> \in known
      /\ <<in, "C">> \in known /\ <<dt, "C">> \in known
      /\ <<in, "U">> \in known /\ <<dt, "U">> \in known
      /\ <<radial, "C">> \in known /\ <<radial, "G">> \in known /\ <<radial, "U">> \in known
  BY FieldPlaces DEF SourceFields
<1>4. /\ Holds(s1, 7, Parents, L, shift) /\ Holds(s2, 7, Parents, L, shift)
      /\ Holds(s3, 7, Parents, L, shift) /\ Holds(s4, 7, Parents, L, shift)
  BY <1>1 DEF SourceSlots
<1>5. Gives(Modes, A, known, {fields} \X SourceFields, shift, {})
  <2>1. ASSUME NEW f \in SourceFields
        PROVE  /\ <<in, f>> \in known
               /\ Holds(<<in, f>>, Place(f), Parents, L, shift)
               /\ Holds(<<fields, f>>, 7, Parents, L, shift)
               /\ Place(f) <= 7 /\ 7 <= 7
    <3>1. f \in Fields /\ BandOf(f) = Parents /\ Place(f) <= 7
      BY FieldPlaces DEF SourceFields
    <3>2. Holds(<<in, f>>, Place(f), Parents, L, shift)
      BY <1>0, <3>1, VectorSlots
    <3> QED
      BY <1>1, <3>1, <3>2
  <2> QED
    BY <1>1, <2>1, GivesCopies
<1>6. Gives(Modes, B, known, {derivatives} \X some, shift, {})
  <2>1. ASSUME NEW s \in some
        PROVE  /\ <<angular, s>> \in known
               /\ \E a \in {1, 6} : Holds(<<angular, s>>, a, Parents, L, shift)
               /\ Holds(<<derivatives, s>>, 7, Parents, L, shift)
    <3>1. s \in AngularSlots /\ s \in SourceSlots /\ s # "Delta2CSharp"
      BY DEF SourceSlots, AngularSlots
    <3> QED
      BY <1>1, <3>1
  <2>2. 1 <= 7 /\ 6 <= 7 /\ 7 <= 7
    OBVIOUS
  <2>3. \A s \in some :
          /\ <<angular, s>> \in known
          /\ \E a, b, band, to : \E level \in Nat :
               /\ Holds(<<angular, s>>, a, band, level, shift)
               /\ Holds(<<derivatives, s>>, b, to, level, shift)
               /\ band = to \/ Modes \subseteq to
               /\ a <= b /\ (b <= 7 \/ a >= 8)
    <3>1. ASSUME NEW s \in some
          PROVE  \E a, b, band, to : \E level \in Nat :
                   /\ Holds(<<angular, s>>, a, band, level, shift)
                   /\ Holds(<<derivatives, s>>, b, to, level, shift)
                   /\ band = to \/ Modes \subseteq to
                   /\ a <= b /\ (b <= 7 \/ a >= 8)
      <4>1. PICK a \in {1, 6} : Holds(<<angular, s>>, a, Parents, L, shift)
        BY <2>1
      <4>2. Holds(<<derivatives, s>>, 7, Parents, L, shift) /\ a <= 7
        BY <2>1, <2>2
      <4> QED
        BY <1>1, <2>2, <4>1, <4>2
    <3> QED
      BY <2>1, <3>1
  <2> HIDE DEF some
  <2> QED
    BY <2>3, GivesCopies
<1>7. Gives(Modes, C, known, {derivatives} \X ExtraSlots, shift, {})
  <2>1. ASSUME NEW s \in ExtraSlots
        PROVE  /\ <<extra, s>> \in known
               /\ Holds(<<extra, s>>, 7, Parents, L, shift)
               /\ Holds(<<derivatives, s>>, 7, Parents, L, shift)
               /\ 7 <= 7
    <3>1. s \in SourceSlots /\ s # "Delta2CSharp"
      BY DEF SourceSlots, ExtraSlots
    <3> QED
      BY <1>1, <3>1
  <2> QED
    BY <1>1, <2>1, GivesCopies
<1>8. 0 <= 7 /\ 1 <= 7 /\ 6 <= 7 /\ 7 <= 7 /\ 7 \in 1 .. 7 /\ 0 \in Int
      /\ L + 0 = L /\ (L + 1) - 1 + 0 = L /\ L + 1 \in Nat
  BY <1>1
<1>9. Gives(Modes, {d1}, known, {s1}, shift, {})
  BY <1>1, <1>2, <1>3, <1>4, <1>8, GivesDelta
<1>10. Gives(Modes, {d2}, known, {s2}, shift, {})
  BY <1>1, <1>2, <1>3, <1>4, <1>8, GivesDelta
<1>11. Gives(Modes, {d3}, known, {s3}, shift, {})
  BY <1>1, <1>2, <1>3, <1>4, <1>8, GivesDelta
<1>12. Gives(Modes, {d4}, known, {s4}, shift, {})
  BY <1>1, <1>2, <1>3, <1>4, <1>8, GivesDelta
<1>13. Gives(Modes, {d5}, known, {s5}, shift, {})
  <2>1. ReadFits(Sharp(in, "C"), s5, 0, Modes, known, shift, {})
    BY <1>1, <1>2, <1>3, <1>8, SharpReads
  <2>2. ReadFits(Sharp(radial, "C"), s5, 0, Modes, known, shift, {})
    BY <1>1, <1>3, <1>8, SharpReads
  <2>3. ReadFits(mirror, s5, 0, Modes, known, shift, {})
    <3>1. mirror.slot = <<dt, "C">> /\ mirror.at = Mirror /\ mirror.rate = 1
      BY DEF Sharp, Read, Mirror
    <3>2. Wide(s5, {}) = Modes
      BY <1>1 DEF Holds, Wide
    <3> HIDE DEF mirror, s5
    <3> QED
      BY <1>1, <1>2, <1>3, <1>8, <3>1, <3>2 DEF ReadFits, Holds
  <2>4. \A q \in {Sharp(in, "C"), mirror, Sharp(radial, "C")} :
          ReadFits(q, s5, 0, Modes, known, shift, {})
    BY <2>1, <2>2, <2>3
  <2> HIDE DEF mirror
  <2> QED
    BY <1>1, <2>4, GivesTo
<1>14. Prepared(in, dt, scratch, radial, angular, extra, fields, derivatives) =
         A \cup B \cup C \cup {d1, d2, d3, d4, d5}
  BY DEF Prepared, Copies
<1>15. PreparedSlots(fields, derivatives) =
         ({fields} \X SourceFields) \cup ({derivatives} \X some)
           \cup ({derivatives} \X ExtraSlots) \cup {s1, s2, s3, s4, s5}
  <2>1. SourceSlots = some \cup ExtraSlots \cup
          {"Delta1F", "Delta3U", "Delta2C", "Delta2G", "Delta2CSharp"}
    BY DEF SourceSlots
  <2> HIDE DEF some
  <2> QED
    BY <2>1 DEF PreparedSlots
<1> DEFINE wA == {fields} \X SourceFields
           wB == {derivatives} \X some
           wC == {derivatives} \X ExtraSlots
<1> HIDE DEF A, B, C, d1, d2, d3, d4, d5, s1, s2, s3, s4, s5, wA, wB, wC
<1>16. /\ A \cup B \cup C \cup {d1, d2, d3, d4, d5} =
            ((((((A \cup B) \cup C) \cup {d1}) \cup {d2}) \cup {d3}) \cup {d4}) \cup {d5}
       /\ wA \cup wB \cup wC \cup {s1, s2, s3, s4, s5} =
            ((((((wA \cup wB) \cup wC) \cup {s1}) \cup {s2}) \cup {s3}) \cup {s4}) \cup {s5}
  OBVIOUS
<1>17. Gives(Modes, (A \cup B) \cup C, known, (wA \cup wB) \cup wC, shift, {})
  BY <1>5, <1>6, <1>7, GivesBoth DEF wA, wB, wC
<1>18. Gives(Modes, (((A \cup B) \cup C) \cup {d1}) \cup {d2}, known,
             (((wA \cup wB) \cup wC) \cup {s1}) \cup {s2}, shift, {})
  BY <1>9, <1>10, <1>17, GivesBoth
<1>19. Gives(Modes, (((((A \cup B) \cup C) \cup {d1}) \cup {d2}) \cup {d3}) \cup {d4}, known,
             (((((wA \cup wB) \cup wC) \cup {s1}) \cup {s2}) \cup {s3}) \cup {s4}, shift, {})
  BY <1>11, <1>12, <1>18, GivesBoth
<1>20. Gives(Modes,
         ((((((A \cup B) \cup C) \cup {d1}) \cup {d2}) \cup {d3}) \cup {d4}) \cup {d5}, known,
         ((((((wA \cup wB) \cup wC) \cup {s1}) \cup {s2}) \cup {s3}) \cup {s4}) \cup {s5},
         shift, {})
  BY <1>13, <1>19, GivesBoth
<1> QED
  BY <1>14, <1>15, <1>16, <1>20, Zenon DEF wA, wB, wC

\* Both preparations.
PrepareSlots ==
  PreparedSlots("sourceFields", "sourceDerivatives") \cup
  PreparedSlots("sourceFieldTangents", "sourceDerivativeTangents")

LEMMA PrepareMakes ==
  ASSUME NEW in \in StageViews, NEW out \in OutputViews, NEW shift \in Nat,
         NEW known, known \subseteq Slots,
         {in, out, "tangentRhs"} \X SourceFields \subseteq known,
         <<"firstScratch", "DrPsi">> \in known, <<"tangentScratch", "DrPsi">> \in known,
         RadialViews \X Daughters \subseteq known,
         AngularViews \X AngularSlots \subseteq known, ExtraOf \subseteq known
  PROVE  Makes(PrepareInputs(in, out, "tangentRhs"), known, PrepareSlots, shift, {})
<1> DEFINE A == Prepared(in, out, "firstScratch", "radial", "angular", "extra",
                         "sourceFields", "sourceDerivatives")
           B == Prepared(out, "tangentRhs", "tangentScratch", "tangentRadial",
                         "tangentAngular", "extraTangent",
                         "sourceFieldTangents", "sourceDerivativeTangents")
           wA == PreparedSlots("sourceFields", "sourceDerivatives")
           wB == PreparedSlots("sourceFieldTangents", "sourceDerivativeTangents")
<1>1. /\ PreparedOf(in, out, "firstScratch", "radial", "angular", "extra",
                    "sourceFields", "sourceDerivatives", 0)
      /\ PreparedOf(out, "tangentRhs", "tangentScratch", "tangentRadial",
                    "tangentAngular", "extraTangent",
                    "sourceFieldTangents", "sourceDerivativeTangents", 1)
  BY DEF PreparedOf, Vectors, LevelOf, StageViews, OutputViews
<1>2. /\ {in, out} \X SourceFields \subseteq known
      /\ {out, "tangentRhs"} \X SourceFields \subseteq known
      /\ {"radial"} \X Daughters \subseteq known
      /\ {"tangentRadial"} \X Daughters \subseteq known
      /\ {"angular"} \X AngularSlots \subseteq known
      /\ {"tangentAngular"} \X AngularSlots \subseteq known
      /\ {"extra"} \X ExtraSlots \subseteq known
      /\ {"extraTangent"} \X ExtraSlots \subseteq known
  BY DEF RadialViews, AngularViews, ExtraOf
<1>3. Gives(Modes, A, known, wA, shift, {})
  BY <1>1, <1>2, PreparedGives
<1>4. Gives(Modes, B, known, wB, shift, {})
  BY <1>1, <1>2, PreparedGives
<1>5. PrepareInputs(in, out, "tangentRhs") = <<Kernel(Modes, A \cup B)>>
  BY DEF PrepareInputs, Everywhere
<1>6. PrepareSlots = wA \cup wB
  BY DEF PrepareSlots
<1> HIDE DEF A, B, wA, wB
<1> QED
  BY <1>3, <1>4, <1>5, <1>6, GivesBoth, MakesGiven

-----------------------------------------------------------------------------
(* The quadratic source *)

LEMMA OuterHolds ==
  ASSUME NEW shift
  PROVE  /\ \A v \in {"inner", "projected"}, c \in {"D", "T"} :
              Holds(<<v, c>>, 8, Targets, 0, shift)
         /\ \A v \in {"innerTangent", "projectedTangent"}, c \in {"D", "T"} :
              Holds(<<v, c>>, 8, Targets, 1, shift)
         /\ Holds(<<"outer", "EthPrimeT">>, 8, Targets, 0, shift)
         /\ Holds(<<"outer", "SourceOverR3">>, 8, Targets, 0, shift)
         /\ Holds(<<"outer", "Forcing">>, 8, Targets, 0, shift)
  BY DEF Holds, Slots, AngularViews, RadialViews, Rank, Band,
         Level, Vectors, StageViews, OutputViews, ZeroForcing

\* A read of the modes of a pair.
PairRead(q, rate) ==
  /\ q.rate = rate
  /\ \A m \in Modes : \A n \in q.at[m] : PairMode(m, n)
  /\ q.slot \in IF rate = 0
                THEN PreparedSlots("sourceFields", "sourceDerivatives")
                ELSE PreparedSlots("sourceFieldTangents", "sourceDerivativeTangents")

LEMMA FieldReads ==
  ASSUME NEW f \in SourceFields, NEW rate \in {0, 1}
  PROVE  /\ PairRead(Left(f, rate), rate) /\ PairRead(Right(f, rate), rate)
         /\ PairRead(LeftSharp(f, rate), rate) /\ PairRead(RightSharp(f, rate), rate)
<1> DEFINE v == IF rate = 0 THEN "sourceFields" ELSE "sourceFieldTangents"
<1>1. <<v, f>> \in IF rate = 0
                   THEN PreparedSlots("sourceFields", "sourceDerivatives")
                   ELSE PreparedSlots("sourceFieldTangents", "sourceDerivativeTangents")
  BY DEF PreparedSlots
<1>2. /\ Left(f, rate).slot = <<v, f>> /\ Left(f, rate).rate = rate
      /\ Right(f, rate).slot = <<v, f>> /\ Right(f, rate).rate = rate
      /\ LeftSharp(f, rate).slot = <<v, f>> /\ LeftSharp(f, rate).rate = rate
      /\ RightSharp(f, rate).slot = <<v, f>> /\ RightSharp(f, rate).rate = rate
  BY DEF Left, Right, LeftSharp, RightSharp, Read
<1>3. ASSUME NEW m \in Modes, NEW n \in Left(f, rate).at[m] PROVE PairMode(m, n)
  <2>1. n \in {p[1] : p \in Pairs(m)}
    BY <1>3 DEF Left, Read
  <2> QED
    BY <2>1 DEF PairMode
<1>4. ASSUME NEW m \in Modes, NEW n \in Right(f, rate).at[m] PROVE PairMode(m, n)
  <2>1. n \in {p[2] : p \in Pairs(m)}
    BY <1>4 DEF Right, Read
  <2> QED
    BY <2>1 DEF PairMode
<1>5. ASSUME NEW m \in Modes, NEW n \in LeftSharp(f, rate).at[m] PROVE PairMode(m, n)
  <2>1. n \in {-p[1] : p \in Pairs(m)}
    BY <1>5 DEF LeftSharp, Left, Read
  <2> QED
    BY <2>1 DEF PairMode
<1>6. ASSUME NEW m \in Modes, NEW n \in RightSharp(f, rate).at[m] PROVE PairMode(m, n)
  <2>1. n \in {-p[2] : p \in Pairs(m)}
    BY <1>6 DEF RightSharp, Right, Read
  <2> QED
    BY <2>1 DEF PairMode
<1> HIDE DEF v
<1> QED
  BY <1>1, <1>2, <1>3, <1>4, <1>5, <1>6 DEF PairRead

LEMMA DerivativeReads ==
  ASSUME NEW s \in SourceSlots, NEW rate \in {0, 1}
  PROVE  PairRead(RightDerivative(s, rate), rate)
<1> DEFINE q == RightDerivative(s, rate)
           v == IF rate = 0 THEN "sourceDerivatives" ELSE "sourceDerivativeTangents"
<1>1. <<v, s>> \in IF rate = 0
                   THEN PreparedSlots("sourceFields", "sourceDerivatives")
                   ELSE PreparedSlots("sourceFieldTangents", "sourceDerivativeTangents")
  BY DEF PreparedSlots
<1>2. q.slot = <<v, s>> /\ q.rate = rate
  BY DEF RightDerivative, Read
<1>3. ASSUME NEW m \in Modes, NEW n \in q.at[m] PROVE PairMode(m, n)
  <2>1. n \in {p[2] : p \in Pairs(m)}
    BY <1>3 DEF RightDerivative, Read
  <2> QED
    BY <2>1 DEF PairMode
<1> HIDE DEF q, v
<1>4. PairRead(q, rate)
  BY <1>1, <1>2, <1>3 DEF PairRead
<1> QED
  BY <1>4 DEF q

LEMMA FactorReads ==
  ASSUME NEW rate \in {0, 1}
  PROVE  \A q \in FactorsOfD(rate) \cup FactorsOfT(rate) : PairRead(q, rate)
<1>1. \A f \in {"FirstPsi", "G", "Lambda", "Pi", "B", "C", "U", "H"} : f \in SourceFields
  BY DEF SourceFields, Daughters
<1>2. \A q \in {Left(f, rate) : f \in {"FirstPsi", "G", "Lambda", "Pi", "B", "C", "U"}} :
        PairRead(q, rate)
  BY <1>1, FieldReads
<1>3. \A q \in {Right(f, rate) : f \in {"FirstPsi", "G", "H", "B", "C"}} : PairRead(q, rate)
  BY <1>1, FieldReads
<1>4. \A q \in {RightSharp(f, rate) : f \in {"U", "C"}} : PairRead(q, rate)
  BY <1>1, FieldReads
<1>5. \A q \in {RightDerivative(s, rate) :
                  s \in SourceSlots \ {"EthPrime1F", "Delta2CSharp", "EthPrime1BSharp"}} :
        PairRead(q, rate)
  BY DerivativeReads
<1>6. \A q \in {Left("FirstPsi", rate), Right("FirstPsi", rate)} : PairRead(q, rate)
  BY <1>1, FieldReads
<1>7. \A q \in {LeftSharp(f, rate) : f \in {"C", "B"}} : PairRead(q, rate)
  BY <1>1, FieldReads
<1>8. \A q \in {RightSharp(f, rate) : f \in {"Pi", "B"}} : PairRead(q, rate)
  BY <1>1, FieldReads
<1>9. \A q \in {RightDerivative(s, rate) :
                  s \in {"Delta1F", "EthPrime1F", "Delta2CSharp", "EthPrime1BSharp"}} :
        PairRead(q, rate)
  <2>1. \A s \in {"Delta1F", "EthPrime1F", "Delta2CSharp", "EthPrime1BSharp"} : s \in SourceSlots
    BY DEF SourceSlots, AngularSlots, ExtraSlots
  <2> QED
    BY <2>1, DerivativeReads
<1> QED
  BY <1>2, <1>3, <1>4, <1>5, <1>6, <1>7, <1>8, <1>9 DEF FactorsOfD, FactorsOfT

LEMMA PairFits ==
  ASSUME NEW q, NEW rate \in {0, 1}, PairRead(q, rate),
         NEW known, PrepareSlots \subseteq known, NEW shift,
         NEW s, NEW raise \in {0, 1}, Holds(s, 8, Targets, raise, shift)
  PROVE  ReadFits(q, s, raise, Targets, known, shift, {})
<1> DEFINE in == "state"
           dt == "k1"
<1>1. /\ PreparedOf(in, dt, "firstScratch", "radial", "angular", "extra",
                    "sourceFields", "sourceDerivatives", 0)
      /\ PreparedOf(dt, "tangentRhs", "tangentScratch", "tangentRadial",
                    "tangentAngular", "extraTangent",
                    "sourceFieldTangents", "sourceDerivativeTangents", 1)
  BY DEF PreparedOf, Vectors, LevelOf, StageViews, OutputViews
<1>2. \E band : Holds(q.slot, 7, band, rate, shift)
  <2>1. ASSUME NEW fields, NEW derivatives,
               q.slot \in PreparedSlots(fields, derivatives),
               \A f \in SourceFields : Holds(<<fields, f>>, 7, Parents, rate, shift),
               \A t \in SourceSlots \ {"Delta2CSharp"} :
                 Holds(<<derivatives, t>>, 7, Parents, rate, shift),
               Holds(<<derivatives, "Delta2CSharp">>, 7, Modes, rate, shift)
        PROVE  \E band : Holds(q.slot, 7, band, rate, shift)
    <3>1. CASE q.slot \in {fields} \X SourceFields
      BY <2>1, <3>1
    <3>2. CASE q.slot \in {derivatives} \X SourceSlots
      <4>1. PICK t \in SourceSlots : q.slot = <<derivatives, t>>
        BY <3>2
      <4>2. CASE t = "Delta2CSharp"
        BY <2>1, <4>1, <4>2
      <4>3. CASE t # "Delta2CSharp"
        <5>1. Holds(<<derivatives, t>>, 7, Parents, rate, shift)
          BY <2>1, <4>3
        <5> QED
          BY <4>1, <5>1
      <4> QED
        BY <4>2, <4>3
    <3> QED
      BY <2>1, <3>1, <3>2 DEF PreparedSlots
  <2>2. CASE rate = 0
    <3>1. q.slot \in PreparedSlots("sourceFields", "sourceDerivatives")
      BY <2>2 DEF PairRead
    <3>2. /\ \A f \in SourceFields : Holds(<<"sourceFields", f>>, 7, Parents, 0, shift)
          /\ \A t \in SourceSlots \ {"Delta2CSharp"} :
               Holds(<<"sourceDerivatives", t>>, 7, Parents, 0, shift)
          /\ Holds(<<"sourceDerivatives", "Delta2CSharp">>, 7, Modes, 0, shift)
      BY <1>1, PreparedHolds
    <3> QED
      BY <2>1, <2>2, <3>1, <3>2
  <2>3. CASE rate = 1
    <3>1. q.slot \in PreparedSlots("sourceFieldTangents", "sourceDerivativeTangents")
      BY <2>3 DEF PairRead
    <3>2. /\ \A f \in SourceFields :
               Holds(<<"sourceFieldTangents", f>>, 7, Parents, 1, shift)
          /\ \A t \in SourceSlots \ {"Delta2CSharp"} :
               Holds(<<"sourceDerivativeTangents", t>>, 7, Parents, 1, shift)
          /\ Holds(<<"sourceDerivativeTangents", "Delta2CSharp">>, 7, Modes, 1, shift)
      BY <1>1, PreparedHolds
    <3> QED
      BY <2>1, <2>3, <3>1, <3>2
  <2> QED
    BY <2>2, <2>3
<1>3. q.slot \in known
  BY DEF PairRead, PrepareSlots
<1>4. Rank(q.slot) = 7 /\ Level(q.slot, shift) = rate
  BY <1>2 DEF Holds
<1>5. Rank(s) = 8 /\ Level(s, shift) = raise /\ Wide(s, {}) = Targets
  BY DEF Holds, Wide
<1>6. rate \in Int /\ raise = rate - rate + raise /\ 7 <= 7
  OBVIOUS
<1> QED
  BY <1>3, <1>4, <1>5, <1>6 DEF ReadFits, PairRead

\* The inner source: sums over the pairs of a target.
InnerSlots == {"inner", "innerTangent"} \X {"D", "T"}

LEMMA InnerMakes ==
  ASSUME NEW shift \in Nat, NEW known, known \subseteq Slots, PrepareSlots \subseteq known
  PROVE  Makes(InnerSource, known, InnerSlots, shift, {})
<1> DEFINE s1 == <<"inner", "D">>
           s2 == <<"inner", "T">>
           s3 == <<"innerTangent", "D">>
           s4 == <<"innerTangent", "T">>
           a1 == To("inner", "D", FactorsOfD(0))
           a2 == To("inner", "T", FactorsOfT(0))
           a3 == RateTo("innerTangent", "D", FactorsOfD(0) \cup FactorsOfD(1))
           a4 == RateTo("innerTangent", "T", FactorsOfT(0) \cup FactorsOfT(1))
<1>1. /\ Holds(s1, 8, Targets, 0, shift) /\ Holds(s2, 8, Targets, 0, shift)
      /\ Holds(s3, 8, Targets, 1, shift) /\ Holds(s4, 8, Targets, 1, shift)
  BY OuterHolds
<1>2. 0 \in {0, 1} /\ 1 \in {0, 1}
  OBVIOUS
<1>3. /\ \A q \in FactorsOfD(0) : PairRead(q, 0)
      /\ \A q \in FactorsOfD(1) : PairRead(q, 1)
      /\ \A q \in FactorsOfT(0) : PairRead(q, 0)
      /\ \A q \in FactorsOfT(1) : PairRead(q, 1)
  <2>1. \A q \in FactorsOfD(0) \cup FactorsOfT(0) : PairRead(q, 0)
    BY <1>2, FactorReads
  <2>2. \A q \in FactorsOfD(1) \cup FactorsOfT(1) : PairRead(q, 1)
    BY <1>2, FactorReads
  <2> QED
    BY <2>1, <2>2
<1>4. Gives(Targets, {a1}, known, {s1}, shift, {})
  <2>1. \A q \in FactorsOfD(0) : ReadFits(q, s1, 0, Targets, known, shift, {})
    BY <1>1, <1>2, <1>3, PairFits
  <2> QED
    BY <1>1, <2>1, GivesTo
<1>5. Gives(Targets, {a2}, known, {s2}, shift, {})
  <2>1. \A q \in FactorsOfT(0) : ReadFits(q, s2, 0, Targets, known, shift, {})
    BY <1>1, <1>2, <1>3, PairFits
  <2> QED
    BY <1>1, <2>1, GivesTo
<1>6. Gives(Targets, {a3}, known, {s3}, shift, {})
  <2>1. \A q \in FactorsOfD(0) : ReadFits(q, s3, 1, Targets, known, shift, {})
    BY <1>1, <1>2, <1>3, PairFits
  <2>2. \A q \in FactorsOfD(1) : ReadFits(q, s3, 1, Targets, known, shift, {})
    BY <1>1, <1>2, <1>3, PairFits
  <2>3. \A q \in FactorsOfD(0) \cup FactorsOfD(1) :
          ReadFits(q, s3, 1, Targets, known, shift, {})
    BY <2>1, <2>2
  <2> QED
    BY <1>1, <2>3, GivesRate
<1>7. Gives(Targets, {a4}, known, {s4}, shift, {})
  <2>1. \A q \in FactorsOfT(0) : ReadFits(q, s4, 1, Targets, known, shift, {})
    BY <1>1, <1>2, <1>3, PairFits
  <2>2. \A q \in FactorsOfT(1) : ReadFits(q, s4, 1, Targets, known, shift, {})
    BY <1>1, <1>2, <1>3, PairFits
  <2>3. \A q \in FactorsOfT(0) \cup FactorsOfT(1) :
          ReadFits(q, s4, 1, Targets, known, shift, {})
    BY <2>1, <2>2
  <2> QED
    BY <1>1, <2>3, GivesRate
<1>8. InnerSource = <<Kernel(Targets, {a1, a2, a3, a4})>>
  BY DEF InnerSource
<1>9. InnerSlots = (({s1} \cup {s2}) \cup {s3}) \cup {s4}
  BY DEF InnerSlots
<1> HIDE DEF a1, a2, a3, a4, s1, s2, s3, s4
<1>10. {a1, a2, a3, a4} = (({a1} \cup {a2}) \cup {a3}) \cup {a4}
  OBVIOUS
<1>11. Gives(Targets, ({a1} \cup {a2}) \cup {a3}, known, ({s1} \cup {s2}) \cup {s3}, shift, {})
  BY <1>4, <1>5, <1>6, GivesBoth
<1>12. Gives(Targets, {a1, a2, a3, a4}, known, InnerSlots, shift, {})
  BY <1>7, <1>9, <1>10, <1>11, GivesBoth
<1> QED
  BY <1>8, <1>12, MakesGiven

\* The outer source and the forcing.
OuterSlots ==
  ({"projected", "projectedTangent"} \X {"D", "T"}) \cup {<<"outer", "EthPrimeT">>} \cup
  {<<"outer", "SourceOverR3">>, <<"outer", "Forcing">>}

LEMMA OuterMakes ==
  ASSUME NEW shift \in Nat, NEW known, known \subseteq Slots, InnerSlots \subseteq known
  PROVE  Makes(OuterSource, known, OuterSlots, shift, {})
<1> DEFINE A == Copies("projected", "inner", {"D", "T"})
           B == Copies("projectedTangent", "innerTangent", {"D", "T"})
           wA == {"projected"} \X {"D", "T"}
           wB == {"projectedTangent"} \X {"D", "T"}
           e == Eth("projected", "T", "projectedTangent", "T", "outer", "EthPrimeT")
           factors == {Own("projected", "D"), Rate("projectedTangent", "D"),
                       Own("projected", "T"), Own("outer", "EthPrimeT")}
           c1 == To("outer", "SourceOverR3", factors)
           c2 == To("outer", "Forcing", factors)
           s1 == <<"outer", "SourceOverR3">>
           s2 == <<"outer", "Forcing">>
           k1 == Kernel(Targets, A \cup B)
           k2 == Kernel(Targets, {e})
           k3 == Kernel(Modes, {c1, c2})
           w1 == wA \cup wB
           w2 == {<<"outer", "EthPrimeT">>}
           w3 == {s1, s2}
           known1 == known \cup w1
           known2 == known1 \cup w2
<1>0. 8 <= 8 /\ 8 >= 8 /\ 0 \in Nat /\ 1 \in Nat /\ 0 \in Int /\ 0 + 0 = 0 /\ 1 - 1 + 0 = 0
      /\ 0 + 1 = 1
  OBVIOUS
<1>1. /\ \A v \in {"inner", "projected"}, c \in {"D", "T"} :
           Holds(<<v, c>>, 8, Targets, 0, shift)
      /\ \A v \in {"innerTangent", "projectedTangent"}, c \in {"D", "T"} :
           Holds(<<v, c>>, 8, Targets, 1, shift)
      /\ Holds(<<"outer", "EthPrimeT">>, 8, Targets, 0, shift)
      /\ Holds(s1, 8, Targets, 0, shift) /\ Holds(s2, 8, Targets, 0, shift)
  BY OuterHolds
<1>2. /\ Holds(<<"projected", "D">>, 8, Targets, 0, shift)
      /\ Holds(<<"projected", "T">>, 8, Targets, 0, shift)
      /\ Holds(<<"projectedTangent", "D">>, 8, Targets, 1, shift)
      /\ Holds(<<"projectedTangent", "T">>, 8, Targets, 0 + 1, shift)
  BY <1>0, <1>1
<1>3. w1 \subseteq Slots /\ w2 \subseteq Slots /\ w3 \subseteq Slots
      /\ known1 \subseteq Slots /\ known2 \subseteq Slots
  BY <1>1 DEF Holds
<1>4. Makes(<<k1>>, known, w1, shift, {})
  <2>1. \A c \in {"D", "T"} : <<"inner", c>> \in known /\ <<"innerTangent", c>> \in known
    BY DEF InnerSlots
  <2>2. \A c \in {"D", "T"} : /\ Holds(<<"inner", c>>, 8, Targets, 0, shift)
                              /\ Holds(<<"projected", c>>, 8, Targets, 0, shift)
                              /\ Holds(<<"innerTangent", c>>, 8, Targets, 1, shift)
                              /\ Holds(<<"projectedTangent", c>>, 8, Targets, 1, shift)
    BY <1>1
  <2>3. Gives(Targets, A, known, wA, shift, {})
    BY <1>0, <2>1, <2>2, GivesCopies
  <2>4. Gives(Targets, B, known, wB, shift, {})
    BY <1>0, <2>1, <2>2, GivesCopies
  <2> HIDE DEF A, B, wA, wB
  <2> QED
    BY <2>3, <2>4, GivesBoth, MakesGiven
<1>5. Makes(<<k2>>, known1, w2, shift, {})
  <2>1. <<"projected", "T">> \in known1 /\ <<"projectedTangent", "T">> \in known1
    OBVIOUS
  <2> HIDE DEF known1
  <2>2. Gives(Targets, {e}, known1, w2, shift, {})
    BY <1>0, <1>1, <1>2, <2>1, GivesEth
  <2> HIDE DEF e
  <2> QED
    BY <1>3, <2>2, MakesGiven
<1>6. Makes(<<k3>>, known2, w3, shift, {})
  <2>1. /\ <<"projected", "T">> \in known2 /\ <<"projected", "D">> \in known2
        /\ <<"projectedTangent", "D">> \in known2 /\ <<"outer", "EthPrimeT">> \in known2
    OBVIOUS
  <2> HIDE DEF known2
  <2>2. ASSUME NEW s, Holds(s, 8, Targets, 0, shift)
        PROVE  \A q \in factors : ReadFits(q, s, 0, Modes, known2, shift, {})
    <3>1. \A q \in {Own("projected", "D"), Own("projected", "T"), Own("outer", "EthPrimeT")} :
            ReadFits(q, s, 0, Modes, known2, shift, {})
      BY <1>0, <1>1, <1>2, <2>1, <2>2, OwnReads
    <3>2. ReadFits(Rate("projectedTangent", "D"), s, 0, Modes, known2, shift, {})
      BY <1>0, <1>2, <2>1, <2>2, RateReads
    <3> QED
      BY <3>1, <3>2
  <2> HIDE DEF factors
  <2>3. Gives(Modes, {c1}, known2, {s1}, shift, {})
    BY <1>1, <2>2, GivesTo
  <2>4. Gives(Modes, {c2}, known2, {s2}, shift, {})
    BY <1>1, <2>2, GivesTo
  <2> HIDE DEF c1, c2, s1, s2
  <2>5. {c1, c2} = {c1} \cup {c2} /\ w3 = {s1} \cup {s2}
    OBVIOUS
  <2> QED
    BY <1>3, <2>3, <2>4, <2>5, GivesBoth, MakesGiven
<1>7. OuterSource = <<k1, k2, k3>>
  BY DEF OuterSource, Everywhere, Copies
<1>8. OuterSlots = (w1 \cup w2) \cup w3
  BY DEF OuterSlots
<1>9. known2 = known \cup (w1 \cup w2)
  OBVIOUS
<1> HIDE DEF k1, k2, k3, w1, w2, w3, known2
<1>10. Makes(<<k1, k2>>, known, w1 \cup w2, shift, {})
  BY <1>4, <1>5, MakesTwo
<1>11. Makes(<<k1, k2, k3>>, known, (w1 \cup w2) \cup w3, shift, {})
  BY <1>6, <1>9, <1>10, MakesThree
<1> QED
  BY <1>7, <1>8, <1>11

LEMMA ActivationMakes ==
  ASSUME NEW active, NEW shift \in Nat, NEW known, known \subseteq Slots,
         <<"outer", "Forcing">> \in known
  PROVE  Makes(ApplyActivation(active), known, {<<"outer", "Forcing">>}, shift, {})
<1> DEFINE on == IF active THEN Modes ELSE {}
           results == {To("outer", "Forcing", {Own("outer", "Forcing")})}
<1>0. 8 <= 8 /\ 8 >= 8 /\ 0 \in Nat /\ 0 \in Int /\ 0 + 0 = 0
  OBVIOUS
<1>1. Holds(<<"outer", "Forcing">>, 8, Targets, 0, shift)
  BY OuterHolds
<1> HIDE DEF on
<1>2. \A q \in {Own("outer", "Forcing")} :
        ReadFits(q, <<"outer", "Forcing">>, 0, on, known, shift, {})
  BY <1>0, <1>1, OwnReads
<1>3. Gives(on, results, known, {<<"outer", "Forcing">>}, shift, {})
  BY <1>1, <1>2, GivesTo
<1>4. ApplyActivation(active) = <<Kernel(on, results)>>
  BY DEF ApplyActivation, on
<1> HIDE DEF results
<1> QED
  BY <1>3, <1>4, MakesGiven

-----------------------------------------------------------------------------
(* One evaluation.  Only the packed fields mean something else in the pass   *)
(* over the rates.                                                           *)

\* What is known of a stage becomes what is known of it after the second pass.
Turns(list, known, next, written) ==
  /\ IsList(list)
  /\ \A mem, g : Sound(mem, {}) /\ Known(mem, known, g, 0) =>
       /\ Sound(Run(mem, list), {})
       /\ Known(Run(mem, list), next, g, 1)
       /\ Same(mem, Run(mem, list), written)

LEMMA TurnsFirst ==
  ASSUME NEW list, NEW known, NEW written, known \subseteq Slots,
         Makes(list, known, written, 0, {})
  PROVE  Turns(list, known, (known \cup written) \ Packed, written)
<1>1. written \subseteq Slots
  BY DEF Makes
<1>2. ASSUME NEW s \in Slots, s \notin Packed PROVE Level(s, 0) = Level(s, 1)
  <2>1. s[1] # "sharpWork"
    BY <1>2 DEF Slots, Packed, StageViews, OutputViews, RadialViews, AngularViews, Scratches
  <2> QED
    BY <2>1 DEF Level
<1>3. ASSUME NEW mem, NEW g, Sound(mem, {}), Known(mem, known, g, 0)
      PROVE  /\ Sound(Run(mem, list), {})
             /\ Known(Run(mem, list), (known \cup written) \ Packed, g, 1)
             /\ Same(mem, Run(mem, list), written)
  <2>1. /\ Sound(Run(mem, list), {})
        /\ Known(Run(mem, list), known \cup written, g, 0)
        /\ Same(mem, Run(mem, list), written)
    BY <1>3 DEF Makes
  <2>2. \A s \in (known \cup written) \ Packed : s \in Slots /\ Level(s, 0) = Level(s, 1)
    BY <1>1, <1>2
  <2>3. Known(Run(mem, list), (known \cup written) \ Packed, g, 1)
    BY <2>1, <2>2 DEF Known
  <2> QED
    BY <2>1, <2>3
<1> QED
  BY <1>3 DEF Turns, Makes

LEMMA TurnsThen ==
  ASSUME NEW a, NEW b, NEW known, NEW next, NEW first, NEW second,
         Turns(a, known, next, first), Makes(b, next, second, 1, {})
  PROVE  Turns(a \o b, known, next \cup second, first \cup second)
<1>1. IsList(a) /\ IsList(b)
  BY DEF Makes, Turns
<1>2. IsList(a \o b)
  BY <1>1, ConcatList
<1>3. ASSUME NEW mem, NEW g, Sound(mem, {}), Known(mem, known, g, 0)
      PROVE  /\ Sound(Run(mem, a \o b), {})
             /\ Known(Run(mem, a \o b), next \cup second, g, 1)
             /\ Same(mem, Run(mem, a \o b), first \cup second)
  <2> DEFINE half == Run(mem, a)
  <2>1. Run(mem, a \o b) = Run(half, b)
    BY <1>1, RunConcat
  <2>2. Sound(half, {}) /\ Known(half, next, g, 1) /\ Same(mem, half, first)
    BY <1>3 DEF Turns
  <2> HIDE DEF half
  <2>3. /\ Sound(Run(half, b), {})
        /\ Known(Run(half, b), next \cup second, g, 1)
        /\ Same(half, Run(half, b), second)
    BY <2>2 DEF Makes
  <2>4. Same(mem, Run(half, b), first \cup second)
    BY <2>2, <2>3 DEF Same
  <2> QED
    BY <2>1, <2>3, <2>4
<1> QED
  BY <1>2, <1>3 DEF Turns

LEMMA TurnsAfter ==
  ASSUME NEW a, NEW b, NEW known, NEW next, NEW first, NEW second,
         Makes(a, known, first, 0, {}), Turns(b, known \cup first, next, second)
  PROVE  Turns(a \o b, known, next, first \cup second)
<1>1. IsList(a) /\ IsList(b)
  BY DEF Makes, Turns
<1>2. IsList(a \o b)
  BY <1>1, ConcatList
<1>3. ASSUME NEW mem, NEW g, Sound(mem, {}), Known(mem, known, g, 0)
      PROVE  /\ Sound(Run(mem, a \o b), {})
             /\ Known(Run(mem, a \o b), next, g, 1)
             /\ Same(mem, Run(mem, a \o b), first \cup second)
  <2> DEFINE half == Run(mem, a)
  <2>1. Run(mem, a \o b) = Run(half, b)
    BY <1>1, RunConcat
  <2>2. Sound(half, {}) /\ Known(half, known \cup first, g, 0) /\ Same(mem, half, first)
    BY <1>3 DEF Makes
  <2> HIDE DEF half
  <2>3. /\ Sound(Run(half, b), {})
        /\ Known(Run(half, b), next, g, 1)
        /\ Same(half, Run(half, b), second)
    BY <2>2 DEF Turns
  <2>4. Same(mem, Run(half, b), first \cup second)
    BY <2>2, <2>3 DEF Same
  <2> QED
    BY <2>1, <2>3, <2>4
<1> QED
  BY <1>2, <1>3 DEF Turns

LEMMA TurnsLess ==
  ASSUME NEW list, NEW known, NEW next, NEW less, NEW written,
         Turns(list, known, next, written), less \subseteq next
  PROVE  Turns(list, known, less, written)
<1>1. \A mem, g : Known(mem, next, g, 1) => Known(mem, less, g, 1)
  BY DEF Known
<1> QED
  BY <1>1 DEF Turns

LEMMA TangentHolds ==
  /\ ReconstructionOf("stage", "k1", "radial", "angular", 0)
  /\ \A in \in StageViews, out \in OutputViews :
       /\ ReconstructionOf(in, out, "radial", "angular", 0)
       /\ ReconstructionOf(out, "tangentRhs", "tangentRadial", "tangentAngular", 1)
       /\ in \in Vectors /\ out \in Vectors /\ "tangentRhs" \in Vectors
       /\ LevelOf(in) = 0 /\ LevelOf(out) = 0 + 1 /\ LevelOf(out) = 1
       /\ LevelOf("tangentRhs") = 1 + 1
  BY DEF ReconstructionOf, Vectors, LevelOf, StageViews, OutputViews

\* What an evaluation with a source writes, but for the first-order slopes.
SourcedSlots(out) ==
  ReconstructionSlots(out, "radial", "angular") \cup ConstraintSlots \cup
  FirstSlots("tangentRhs", "FirstTangent", "tangentScratch") \cup
  ReconstructionSlots("tangentRhs", "tangentRadial", "tangentAngular") \cup
  ExtraOf \cup PrepareSlots \cup InnerSlots \cup OuterSlots \cup
  {<<"outer", "Forcing">>} \cup SecondSlots(out)

EvaluatedSlots(out) == FirstSlots(out, "First", "firstScratch") \cup SourcedSlots(out)

\* Slots of a view are none of the packed fields.
LEMMA NotPacked ==
  ASSUME NEW v, v # "sharpWork", NEW F
  PROVE  \A s \in {v} \X F : s \notin Packed
  BY DEF Packed

LEMMA FirstMakes ==
  ASSUME NEW in \in StageViews, NEW out \in OutputViews
  PROVE  Makes(FirstOrder(in, out, "First", "firstScratch"), {in} \X Fields,
               FirstSlots(out, "First", "firstScratch"), 0, {})
<1> DEFINE K0 == {in} \X Fields
<1>1. /\ in \in Vectors /\ out \in Vectors /\ LevelOf(in) = 0 /\ LevelOf(out) = 0 + 1
      /\ 0 \in Nat
  BY TangentHolds
<1>2. \A f \in Fields : <<in, f>> \in Slots
  BY <1>1, VectorSlots DEF Holds
<1>3. K0 \subseteq Slots /\ {in} \X FirstFields \subseteq K0
  BY <1>2 DEF Fields
<1> HIDE DEF K0
<1>4. Makes(FirstOrder(in, out, "First", "firstScratch"), K0,
            FirstSlots(out, "First", "firstScratch"), 0, {})
  BY <1>1, <1>3, FirstOrderMakes
<1> QED
  BY <1>4 DEF K0

\* The kernels up to the forcing end with those that prepare the source and sum it
\* over the pairs, and those before do not write the stage.
FrontAs(in, out, front) ==
  \E early, next, written :
    /\ front = (early \o PrepareInputs(in, out, "tangentRhs")) \o InnerSource
    /\ Turns(early, ({in} \X Fields) \cup FirstSlots(out, "First", "firstScratch"),
             next, written)
    /\ written \subseteq SourcedSlots(out)

\* The kernels behind the first-order ones, up to the forcing, with the latch
\* applied to it, and with the second-order system that reads it.
SourcedAs(in, out, active, front, known, written, last) ==
  LET given  == ({in} \X Fields) \cup FirstSlots(out, "First", "firstScratch")
      forced == front \o OuterSource
      rest   == (forced \o ApplyActivation(active)) \o SecondOrder(in, out)
  IN  /\ Evaluation(in, out, FALSE, active) =
           FirstOrder(in, out, "First", "firstScratch") \o rest
      /\ IsList(front)
      /\ Turns(forced, given, known, written)
      /\ Makes(ApplyActivation(active), known, {<<"outer", "Forcing">>}, 1, {})
      /\ Makes(SecondOrder(in, out), known \cup {<<"outer", "Forcing">>},
               SecondSlots(out), 1, {})
      /\ Turns(rest, given, last, SourcedSlots(out))
      /\ ((({in} \X Fields) \cup EvaluatedSlots(out)) \ Packed)
           \cup ReconstructionSlots("tangentRhs", "tangentRadial", "tangentAngular")
           \subseteq last
      /\ FrontAs(in, out, front) /\ written \subseteq SourcedSlots(out)

LEMMA SourcedParts ==
  ASSUME NEW in \in StageViews, NEW out \in OutputViews, NEW active
  PROVE  \E front, known, written, last :
           SourcedAs(in, out, active, front, known, written, last)
<1> DEFINE K0 == {in} \X Fields
           L1 == FirstOrder(in, out, "First", "firstScratch")
           L2 == Reconstruction(in, out, "radial", "angular")
           L3 == Constraints(in, out)
           L4 == FirstOrder(out, "tangentRhs", "FirstTangent", "tangentScratch")
           L5 == Reconstruction(out, "tangentRhs", "tangentRadial", "tangentAngular")
           L6 == SourceAngular(in, out, "tangentRhs")
           L7 == PrepareInputs(in, out, "tangentRhs")
           L8 == InnerSource
           L9 == OuterSource
           L10 == ApplyActivation(active)
           L11 == SecondOrder(in, out)
           W1 == FirstSlots(out, "First", "firstScratch")
           W2 == ReconstructionSlots(out, "radial", "angular")
           W3 == ConstraintSlots
           W4 == FirstSlots("tangentRhs", "FirstTangent", "tangentScratch")
           W5 == ReconstructionSlots("tangentRhs", "tangentRadial", "tangentAngular")
           W6 == ExtraOf
           W7 == PrepareSlots
           W8 == InnerSlots
           W9 == OuterSlots
           W10 == {<<"outer", "Forcing">>}
           W11 == SecondSlots(out)
           K1 == K0 \cup W1
           K2 == K1 \cup W2
           K3 == (K1 \cup (W2 \cup W3)) \ Packed
           K4 == K3 \cup W4
           K5 == K4 \cup W5
           K6 == K5 \cup W6
           K7 == K6 \cup W7
           K8 == K7 \cup W8
           K9 == K8 \cup W9
           K10 == K9 \cup W10
           K11 == K10 \cup W11
<1>0. /\ ReconstructionOf(in, out, "radial", "angular", 0)
      /\ ReconstructionOf(out, "tangentRhs", "tangentRadial", "tangentAngular", 1)
      /\ in \in Vectors /\ out \in Vectors /\ "tangentRhs" \in Vectors
      /\ LevelOf(in) = 0 /\ LevelOf(out) = 0 + 1 /\ LevelOf(out) = 1
      /\ LevelOf("tangentRhs") = 1 + 1 /\ 0 \in Nat /\ 1 \in Nat
  BY TangentHolds
<1>1. /\ FirstFields \subseteq Fields /\ Daughters \subseteq Fields
      /\ SecondFields \subseteq Fields /\ SourceFields \subseteq Fields
      /\ FirstFields = {"FirstP", "FirstQ", "FirstPsi"}
      /\ SourceFields \subseteq Daughters \cup FirstFields
      /\ {"B", "FirstPsi"} \subseteq SourceFields
  BY DEF Fields, FirstFields, Daughters, SecondFields, SourceFields
<1>2. /\ {in} \X Fields \subseteq K0
      /\ <<"firstScratch", "DrPsi">> \in W1
      /\ {out} \X FirstFields \subseteq W1
      /\ {"radial"} \X Daughters \subseteq W2 /\ {out} \X Daughters \subseteq W2
      /\ {"angular"} \X AngularSlots \subseteq W2
      /\ <<"tangentScratch", "DrPsi">> \in W4
      /\ {"tangentRhs"} \X FirstFields \subseteq W4
      /\ {"tangentRadial"} \X Daughters \subseteq W5
      /\ {"tangentRhs"} \X Daughters \subseteq W5
      /\ {"tangentAngular"} \X AngularSlots \subseteq W5
      /\ <<"outer", "Forcing">> \in W9
  BY <1>1 DEF FirstSlots, TeukolskySlots, ScratchSlots, ReconstructionSlots, OuterSlots
<1>3. /\ in # "sharpWork" /\ out # "sharpWork"
      /\ "firstScratch" # "sharpWork" /\ "radial" # "sharpWork" /\ "angular" # "sharpWork"
  BY DEF StageViews, OutputViews
<1>4. K0 \subseteq Slots
  <2>1. \A f \in Fields : <<in, f>> \in Slots
    BY <1>0, VectorSlots DEF Holds
  <2> QED
    BY <2>1
<1>5. Evaluation(in, out, FALSE, active) =
        L1 \o (((((((((L2 \o L3) \o L4) \o L5) \o L6) \o L7) \o L8) \o L9) \o L10) \o L11)
  BY DEF Evaluation
<1>6. EvaluatedSlots(out) =
        W1 \cup (((((((((W2 \cup W3) \cup W4) \cup W5) \cup W6) \cup W7) \cup W8) \cup W9)
                   \cup W10) \cup W11)
  BY DEF EvaluatedSlots, SourcedSlots
<1>7. ((K0 \cup EvaluatedSlots(out)) \ Packed) \cup W5 \subseteq K11
  BY <1>6
<1> HIDE DEF L1, L2, L3, L4, L5, L6, L7, L8, L9, L10, L11,
             W1, W2, W3, W4, W5, W6, W7, W8, W9, W10, W11, K0
<1>8. Makes(L1, K0, W1, 0, {}) /\ K1 \subseteq Slots
  <2>1. {in} \X FirstFields \subseteq K0
    BY <1>1, <1>2
  <2>2. Makes(L1, K0, W1, 0, {})
    BY <1>0, <1>4, <2>1, FirstOrderMakes DEF L1, W1
  <2> QED
    BY <1>4, <2>2 DEF Makes
<1>9. Makes(L2, K1, W2, 0, {}) /\ K2 \subseteq Slots
  <2>1. {in} \X (Daughters \cup FirstFields) \subseteq K1 /\ <<out, "FirstPsi">> \in K1
    BY <1>1, <1>2
  <2> HIDE DEF K1
  <2>2. Makes(L2, K1, W2, 0, {})
    BY <1>0, <1>8, <2>1, ReconstructionMakes DEF L2, W2
  <2> QED
    BY <1>8, <2>2 DEF Makes
<1>10. Makes(L3, K2, W3, 0, {})
  <2>1. /\ {in} \X (Daughters \cup FirstFields) \subseteq K2 /\ <<out, "FirstPsi">> \in K2
        /\ {out} \X Daughters \subseteq K2 /\ <<"firstScratch", "DrPsi">> \in K2
        /\ {"radial"} \X Daughters \subseteq K2
    BY <1>1, <1>2
  <2> HIDE DEF K2
  <2> QED
    BY <1>0, <1>9, <2>1, ConstraintsMakes DEF L3, W3
<1>11. Turns(L2 \o L3, K1, K3, W2 \cup W3) /\ K3 \subseteq Slots
  <2> HIDE DEF K1
  <2>1. Makes(L2 \o L3, K1, W2 \cup W3, 0, {})
    BY <1>9, <1>10, MakesJoined
  <2>2. Turns(L2 \o L3, K1, (K1 \cup (W2 \cup W3)) \ Packed, W2 \cup W3)
    BY <1>8, <2>1, TurnsFirst
  <2> QED
    BY <1>8, <2>1, <2>2 DEF Makes
<1>12. /\ {in} \X Fields \subseteq K3 /\ <<"firstScratch", "DrPsi">> \in K3
       /\ {out} \X FirstFields \subseteq K3 /\ {out} \X Daughters \subseteq K3
       /\ {"radial"} \X Daughters \subseteq K3 /\ {"angular"} \X AngularSlots \subseteq K3
  <2>1. <<"firstScratch", "DrPsi">> \notin Packed
    BY DEF Packed
  <2> QED
    BY <1>2, <1>3, <2>1, NotPacked
<1>13. Makes(L4, K3, W4, 1, {}) /\ K4 \subseteq Slots
  <2> HIDE DEF K3
  <2>1. Makes(L4, K3, W4, 1, {})
    BY <1>0, <1>11, <1>12, FirstOrderMakes DEF L4, W4
  <2> QED
    BY <1>11, <2>1 DEF Makes
<1>14. Makes(L5, K4, W5, 1, {}) /\ K5 \subseteq Slots
  <2>1. {out} \X (Daughters \cup FirstFields) \subseteq K4 /\ <<"tangentRhs", "FirstPsi">> \in K4
    BY <1>1, <1>2, <1>12
  <2> HIDE DEF K4
  <2>2. Makes(L5, K4, W5, 1, {})
    BY <1>0, <1>13, <2>1, ReconstructionMakes DEF L5, W5
  <2> QED
    BY <1>13, <2>2 DEF Makes
<1>15. /\ {in, out, "tangentRhs"} \X SourceFields \subseteq K5
       /\ RadialViews \X Daughters \subseteq K5 /\ AngularViews \X AngularSlots \subseteq K5
       /\ <<"firstScratch", "DrPsi">> \in K5 /\ <<"tangentScratch", "DrPsi">> \in K5
  <2>1. /\ \A f \in SourceFields : f \in Daughters \/ f \in FirstFields
        /\ \A f \in SourceFields : f \in Fields
    BY <1>1
  <2>2. \A f \in SourceFields : /\ <<in, f>> \in K5 /\ <<out, f>> \in K5
                                /\ <<"tangentRhs", f>> \in K5
    BY <1>2, <1>12, <2>1
  <2>3. RadialViews \X Daughters \subseteq K5 /\ AngularViews \X AngularSlots \subseteq K5
    BY <1>2, <1>12 DEF RadialViews, AngularViews
  <2>4. <<"firstScratch", "DrPsi">> \in K5 /\ <<"tangentScratch", "DrPsi">> \in K5
    BY <1>2, <1>12
  <2> HIDE DEF K5
  <2>5. ASSUME NEW s \in {in, out, "tangentRhs"} \X SourceFields PROVE s \in K5
    <3>1. PICK v \in {in, out, "tangentRhs"}, f \in SourceFields : s = <<v, f>>
      OBVIOUS
    <3> QED
      BY <2>2, <3>1
  <2> QED
    BY <2>3, <2>4, <2>5
<1>16. Makes(L6, K5, W6, 1, {}) /\ K6 \subseteq Slots
  <2>1. {in, out, "tangentRhs"} \X {"B", "FirstPsi"} \subseteq K5
    BY <1>1, <1>15
  <2> HIDE DEF K5
  <2>2. Makes(L6, K5, W6, 1, {})
    BY <1>0, <1>14, <2>1, SourceAngularMakes DEF L6, W6
  <2> QED
    BY <1>14, <2>2 DEF Makes
<1>17. Makes(L7, K6, W7, 1, {}) /\ K7 \subseteq Slots
  <2>1. /\ {in, out, "tangentRhs"} \X SourceFields \subseteq K6
        /\ RadialViews \X Daughters \subseteq K6 /\ AngularViews \X AngularSlots \subseteq K6
        /\ <<"firstScratch", "DrPsi">> \in K6 /\ <<"tangentScratch", "DrPsi">> \in K6
        /\ ExtraOf \subseteq K6
    <3> HIDE DEF K5
    <3> QED
      BY <1>15 DEF W6
  <2> HIDE DEF K6
  <2>2. Makes(L7, K6, W7, 1, {})
    BY <1>0, <1>16, <2>1, PrepareMakes DEF L7, W7
  <2> QED
    BY <1>16, <2>2 DEF Makes
<1>18. Makes(L8, K7, W8, 1, {}) /\ K8 \subseteq Slots
  <2>1. PrepareSlots \subseteq K7
    BY DEF W7
  <2> HIDE DEF K7
  <2>2. Makes(L8, K7, W8, 1, {})
    BY <1>0, <1>17, <2>1, InnerMakes DEF L8, W8
  <2> QED
    BY <1>17, <2>2 DEF Makes
<1>19. Makes(L9, K8, W9, 1, {}) /\ K9 \subseteq Slots
  <2>1. InnerSlots \subseteq K8
    BY DEF W8
  <2> HIDE DEF K8
  <2>2. Makes(L9, K8, W9, 1, {})
    BY <1>0, <1>18, <2>1, OuterMakes DEF L9, W9
  <2> QED
    BY <1>18, <2>2 DEF Makes
<1>20. Makes(L10, K9, W10, 1, {}) /\ K10 \subseteq Slots
  <2>1. <<"outer", "Forcing">> \in K9
    BY <1>2
  <2> HIDE DEF K9
  <2>2. Makes(L10, K9, W10, 1, {})
    BY <1>0, <1>19, <2>1, ActivationMakes DEF L10, W10
  <2> QED
    BY <1>19, <2>2 DEF Makes
<1>21. Makes(L11, K10, W11, 1, {})
  <2>1. {in} \X SecondFields \subseteq K10 /\ <<"outer", "Forcing">> \in K10
    BY <1>1, <1>2, <1>12
  <2> HIDE DEF K10
  <2> QED
    BY <1>0, <1>20, <2>1, SecondOrderMakes DEF L11, W11
<1> DEFINE Q3 == L2 \o L3
           Q4 == Q3 \o L4
           Q5 == Q4 \o L5
           Q6 == Q5 \o L6
           Q7 == Q6 \o L7
           Q8 == Q7 \o L8
           Q9 == Q8 \o L9
           Q10 == Q9 \o L10
           Q11 == Q10 \o L11
           V3 == W2 \cup W3
           V4 == V3 \cup W4
           V5 == V4 \cup W5
           V6 == V5 \cup W6
           V7 == V6 \cup W7
           V8 == V7 \cup W8
           V9 == V8 \cup W9
           V10 == V9 \cup W10
           V11 == V10 \cup W11
<1>22. Turns(Q3, K1, K3, V3)
  BY <1>11
<1> HIDE DEF K1, K2, K3, Q3, V3
<1>23. Turns(Q4, K1, K4, V4)
  BY <1>13, <1>22, TurnsThen
<1> HIDE DEF K4, Q4, V4
<1>24. Turns(Q5, K1, K5, V5)
  BY <1>14, <1>23, TurnsThen
<1> HIDE DEF K5, Q5, V5
<1>25. Turns(Q6, K1, K6, V6)
  BY <1>16, <1>24, TurnsThen
<1> HIDE DEF K6, Q6, V6
<1>26. Turns(Q7, K1, K7, V7)
  BY <1>17, <1>25, TurnsThen
<1> HIDE DEF K7, Q7, V7
<1>27. Turns(Q8, K1, K8, V8)
  BY <1>18, <1>26, TurnsThen
<1> HIDE DEF K8, Q8, V8
<1>28. Turns(Q9, K1, K9, V9)
  BY <1>19, <1>27, TurnsThen
<1> HIDE DEF K9, Q9, V9
<1>29. Turns(Q10, K1, K10, V10)
  BY <1>20, <1>28, TurnsThen
<1> HIDE DEF K10, Q10, V10
<1>30. Turns(Q11, K1, K11, V11)
  BY <1>21, <1>29, TurnsThen
<1> HIDE DEF K11, Q11, V11
<1>31. Evaluation(in, out, FALSE, active) = L1 \o Q11 /\ IsList(Q8)
  <2>1. Evaluation(in, out, FALSE, active) = L1 \o Q11
    BY <1>5, Zenon DEF Q3, Q4, Q5, Q6, Q7, Q8, Q9, Q10, Q11
  <2> QED
    BY <1>27, <2>1 DEF Turns
<1>32. SourcedSlots(out) = V11
  <2>1. SourcedSlots(out) =
          ((((((((W2 \cup W3) \cup W4) \cup W5) \cup W6) \cup W7) \cup W8) \cup W9)
             \cup W10) \cup W11
    BY DEF SourcedSlots, W2, W3, W4, W5, W6, W7, W8, W9, W10, W11
  <2> QED
    BY <2>1, Zenon DEF V3, V4, V5, V6, V7, V8, V9, V10, V11
<1>33. /\ L10 = ApplyActivation(active) /\ L11 = SecondOrder(in, out)
       /\ L1 = FirstOrder(in, out, "First", "firstScratch")
       /\ Q9 = Q8 \o OuterSource /\ Q11 = (Q9 \o L10) \o L11
       /\ W10 = {<<"outer", "Forcing">>} /\ W11 = SecondSlots(out)
       /\ K1 = ({in} \X Fields) \cup FirstSlots(out, "First", "firstScratch")
       /\ K0 = {in} \X Fields
       /\ W5 = ReconstructionSlots("tangentRhs", "tangentRadial", "tangentAngular")
  BY Zenon DEF L1, L9, L10, L11, Q9, Q10, Q11, W1, W5, W10, W11, K0, K1
<1>34. Makes(L11, K9 \cup W10, W11, 1, {})
  BY <1>21 DEF K10
<1>35. FrontAs(in, out, Q8)
  <2>1. Q8 = (Q6 \o PrepareInputs(in, out, "tangentRhs")) \o InnerSource
    BY Zenon DEF Q7, Q8, L7, L8
  <2>2. V6 \subseteq SourcedSlots(out)
    BY DEF V3, V4, V5, V6, W2, W3, W4, W5, W6, SourcedSlots
  <2> QED
    BY <1>25, <1>33, <2>1, <2>2, Zenon DEF FrontAs
<1>36. V9 \subseteq SourcedSlots(out)
  BY <1>32 DEF V10, V11
<1>37. SourcedAs(in, out, active, Q8, K9, V9, K11)
  BY <1>7, <1>20, <1>28, <1>30, <1>31, <1>32, <1>33, <1>34, <1>35, <1>36, Zenon DEF SourcedAs
<1> QED
  BY <1>37

LEMMA SourcedTurns ==
  ASSUME NEW in \in StageViews, NEW out \in OutputViews, NEW active
  PROVE  Turns(Evaluation(in, out, FALSE, active), {in} \X Fields,
               ((({in} \X Fields) \cup EvaluatedSlots(out)) \ Packed)
                 \cup ReconstructionSlots("tangentRhs", "tangentRadial", "tangentAngular"),
               EvaluatedSlots(out))
<1> DEFINE L1 == FirstOrder(in, out, "First", "firstScratch")
           W1 == FirstSlots(out, "First", "firstScratch")
           K0 == {in} \X Fields
           rest(front) == ((front \o OuterSource) \o ApplyActivation(active))
                            \o SecondOrder(in, out)
<1>1. PICK front, known, written, last :
        SourcedAs(in, out, active, front, known, written, last)
  BY SourcedParts
<1> DEFINE R == rest(front)
<1>2. /\ Evaluation(in, out, FALSE, active) = L1 \o R
      /\ Turns(R, K0 \cup W1, last, SourcedSlots(out))
      /\ ((K0 \cup EvaluatedSlots(out)) \ Packed)
           \cup ReconstructionSlots("tangentRhs", "tangentRadial", "tangentAngular")
           \subseteq last
  BY <1>1, Zenon DEF SourcedAs
<1>3. Makes(L1, K0, W1, 0, {})
  BY FirstMakes
<1>4. EvaluatedSlots(out) = W1 \cup SourcedSlots(out)
  BY DEF EvaluatedSlots
<1> HIDE DEF L1, W1, K0, R, rest
<1>5. Turns(L1 \o R, K0, last, W1 \cup SourcedSlots(out))
  BY <1>2, <1>3, TurnsAfter
<1>6. Turns(L1 \o R, K0,
            ((K0 \cup EvaluatedSlots(out)) \ Packed)
              \cup ReconstructionSlots("tangentRhs", "tangentRadial", "tangentAngular"),
            W1 \cup SourcedSlots(out))
  BY <1>2, <1>5, TurnsLess
<1> QED
  BY <1>2, <1>4, <1>6 DEF K0

-----------------------------------------------------------------------------
(* What an evaluation leaves behind *)

\* The other views of the stages and of the slopes are not touched.
LEMMA EvaluatedViews ==
  ASSUME NEW out \in OutputViews, NEW v \in StageViews \cup OutputViews, v # out, NEW f
  PROVE  <<v, f>> \notin EvaluatedSlots(out)
<1>1. /\ v # out /\ v # "tangentRhs"
      /\ v \notin Scratches \cup RadialViews \cup AngularViews
      /\ v \notin {"linearAngular", "sharpWork", "independentAngular",
                   "independentConstraints", "extra", "extraTangent", "sourceFields",
                   "sourceFieldTangents", "sourceDerivatives", "sourceDerivativeTangents",
                   "inner", "innerTangent", "projected", "projectedTangent", "outer"}
  BY DEF StageViews, OutputViews, Scratches, RadialViews, AngularViews
<1>2. /\ <<v, f>> \notin FirstSlots(out, "First", "firstScratch")
      /\ <<v, f>> \notin FirstSlots("tangentRhs", "FirstTangent", "tangentScratch")
      /\ <<v, f>> \notin SecondSlots(out)
  BY <1>1 DEF FirstSlots, SecondSlots, TeukolskySlots, Scratches
<1>3. /\ <<v, f>> \notin ReconstructionSlots(out, "radial", "angular")
      /\ <<v, f>> \notin ReconstructionSlots("tangentRhs", "tangentRadial", "tangentAngular")
  BY <1>1 DEF ReconstructionSlots, Packed, RadialViews, AngularViews
<1>4. /\ <<v, f>> \notin ConstraintSlots /\ <<v, f>> \notin ExtraOf
      /\ <<v, f>> \notin InnerSlots /\ <<v, f>> \notin OuterSlots
      /\ <<v, f>> # <<"outer", "Forcing">>
  BY <1>1 DEF ConstraintSlots, ExtraOf, InnerSlots, OuterSlots
<1>5. <<v, f>> \notin PrepareSlots
  BY <1>1 DEF PrepareSlots, PreparedSlots
<1> QED
  BY <1>2, <1>3, <1>4, <1>5 DEF EvaluatedSlots, SourcedSlots

\* An evaluation without a source.
DisabledSlots(out) ==
  FirstSlots(out, "First", "firstScratch") \cup ({out} \X (Fields \ FirstFields))

LEMMA DisabledMakes ==
  ASSUME NEW in \in StageViews, NEW out \in OutputViews, NEW active
  PROVE  Makes(Evaluation(in, out, TRUE, active), {in} \X Fields, DisabledSlots(out), 0, {})
<1> DEFINE L1 == FirstOrder(in, out, "First", "firstScratch")
           L2 == Freeze(out)
           K0 == {in} \X Fields
           W1 == FirstSlots(out, "First", "firstScratch")
           W2 == {out} \X (Fields \ FirstFields)
<1>1. /\ in \in Vectors /\ out \in Vectors /\ LevelOf(in) = 0 /\ LevelOf(out) = 0 + 1
      /\ 0 \in Nat
  BY TangentHolds
<1>2. \A f \in Fields : <<in, f>> \in Slots
  BY <1>1, VectorSlots DEF Holds
<1>3. K0 \subseteq Slots /\ {in} \X FirstFields \subseteq K0
  BY <1>2 DEF Fields
<1> HIDE DEF K0
<1>4. Makes(L1, K0, W1, 0, {})
  BY <1>1, <1>3, FirstOrderMakes
<1>5. K0 \cup W1 \subseteq Slots
  <2> HIDE DEF L1, W1
  <2> QED
    BY <1>3, <1>4 DEF Makes
<1>6. Makes(L2, K0 \cup W1, W2, 0, {})
  <2> DEFINE K == K0 \cup W1
  <2>1. K \subseteq Slots
    BY <1>5
  <2> HIDE DEF K
  <2>2. Makes(L2, K, W2, 0, {})
    BY <1>1, <2>1, FreezeMakes
  <2> QED
    BY <2>2 DEF K
<1>7. Evaluation(in, out, TRUE, active) = L1 \o L2
  BY DEF Evaluation
<1>8. DisabledSlots(out) = W1 \cup W2
  BY DEF DisabledSlots
<1> HIDE DEF L1, L2, W1, W2
<1>9. Makes(L1 \o L2, K0, W1 \cup W2, 0, {})
  BY <1>4, <1>6, MakesJoined
<1> QED
  BY <1>7, <1>8, <1>9 DEF K0

\* Slots that are read after an evaluation.
ReadSlots ==
  ({"tangentRhs"} \X (FirstFields \cup Daughters)) \cup
  ({"independentConstraints"} \X {"Psi3Bianchi", "Psi2Bianchi", "HllReality"}) \cup
  ({"outer"} \X {"SourceOverR3", "Forcing"}) \cup
  ({"radial"} \X Daughters) \cup ({"angular"} \X AngularSlots)

\* What an evaluation leaves behind.
Leaves(mem, new, in, out, disabled, g) ==
  /\ Sound(new, {})
  /\ Known(new, {out} \X Fields, g, 0)
  /\ ~disabled => Known(new, ReadSlots, g, 0)
  /\ \A v \in (StageViews \cup OutputViews) \ {out}, f \in Fields :
       new[<<v, f>>] = mem[<<v, f>>]
  /\ disabled => \A s \in ReadSlots : new[s] = mem[s]

LEMMA ReadAreSlots == ReadSlots \subseteq Slots
  BY DEF ReadSlots, Slots, Fields, RadialViews, AngularViews

LEMMA ReadLevels ==
  ASSUME NEW s, s \in ReadSlots \/ s[1] \in OutputViews PROVE Level(s, 0) = Level(s, 1)
<1>1. s[1] # "sharpWork"
  BY DEF ReadSlots, OutputViews
<1> QED
  BY <1>1 DEF Level

LEMMA DisabledReads ==
  ASSUME NEW out \in OutputViews, NEW s \in ReadSlots
  PROVE  s \notin DisabledSlots(out)
<1>1. s[1] \notin OutputViews /\ s[1] \notin Scratches /\ s[1] # "linearAngular"
  BY DEF ReadSlots, OutputViews, Scratches
<1> QED
  BY <1>1 DEF DisabledSlots, FirstSlots, TeukolskySlots, Scratches

\* An evaluation leaves what is known of its stage in all that is read of it.
LEMMA EvaluationLeaves ==
  ASSUME NEW in \in StageViews, NEW out \in OutputViews, NEW active, NEW disabled \in BOOLEAN,
         NEW mem, NEW g, Sound(mem, {}), Known(mem, {in} \X Fields, g, 0)
  PROVE  Leaves(mem, Run(mem, Evaluation(in, out, disabled, active)), in, out, disabled, g)
<1>0. \A v \in Vectors, f \in Fields : <<v, f>> \in Slots
  BY VectorSlots DEF Holds
<1>1. CASE disabled
  <2> DEFINE new == Run(mem, Evaluation(in, out, TRUE, active))
  <2>1. /\ Sound(new, {})
        /\ Known(new, ({in} \X Fields) \cup DisabledSlots(out), g, 0)
        /\ Same(mem, new, DisabledSlots(out))
    BY DisabledMakes DEF Makes
  <2> HIDE DEF new
  <2>2. Known(new, {out} \X Fields, g, 0)
    <3>1. {out} \X Fields \subseteq DisabledSlots(out)
      BY DEF DisabledSlots, FirstSlots, TeukolskySlots, Fields, FirstFields
    <3> QED
      BY <2>1, <3>1 DEF Known
  <2>3. ASSUME NEW v \in (StageViews \cup OutputViews) \ {out}, NEW f \in Fields
        PROVE  new[<<v, f>>] = mem[<<v, f>>]
    <3>1. <<v, f>> \in Slots
      BY <1>0 DEF Vectors
    <3>2. <<v, f>> \notin DisabledSlots(out)
      <4>1. <<v, f>> \notin EvaluatedSlots(out) /\ v # out
        BY EvaluatedViews
      <4> QED
        BY <4>1 DEF DisabledSlots, EvaluatedSlots
    <3> QED
      BY <2>1, <3>1, <3>2 DEF Same
  <2>4. \A s \in ReadSlots : new[s] = mem[s]
    BY <2>1, DisabledReads, ReadAreSlots DEF Same
  <2>5. disabled = TRUE
    BY <1>1
  <2>6. Leaves(mem, new, in, out, TRUE, g)
    BY <2>1, <2>2, <2>3, <2>4 DEF Leaves
  <2> QED
    BY <2>5, <2>6 DEF new
<1>2. CASE ~disabled
  <2> DEFINE new == Run(mem, Evaluation(in, out, FALSE, active))
             known == ((({in} \X Fields) \cup EvaluatedSlots(out)) \ Packed) \cup
                      ReconstructionSlots("tangentRhs", "tangentRadial", "tangentAngular")
  <2>1. /\ Sound(new, {})
        /\ Known(new, known, g, 1)
        /\ Same(mem, new, EvaluatedSlots(out))
    <3>1. Turns(Evaluation(in, out, FALSE, active), {in} \X Fields, known, EvaluatedSlots(out))
      BY SourcedTurns
    <3> HIDE DEF known
    <3> QED
      BY <3>1 DEF Turns
  <2>2. {out} \X Fields \subseteq known
    <3>1. ASSUME NEW f \in Fields PROVE <<out, f>> \in EvaluatedSlots(out)
      BY DEF EvaluatedSlots, SourcedSlots, FirstSlots, SecondSlots, ReconstructionSlots,
             TeukolskySlots, Fields, FirstFields, SecondFields
    <3>2. ASSUME NEW f \in Fields PROVE <<out, f>> \notin Packed
      BY DEF Packed, OutputViews
    <3> QED
      BY <3>1, <3>2
  <2>3. ReadSlots \subseteq known
    <3>1. /\ {"tangentRhs"} \X FirstFields \subseteq EvaluatedSlots(out)
          /\ {"tangentRhs"} \X Daughters \subseteq EvaluatedSlots(out)
          /\ {"radial"} \X Daughters \subseteq EvaluatedSlots(out)
          /\ {"angular"} \X AngularSlots \subseteq EvaluatedSlots(out)
      BY DEF EvaluatedSlots, SourcedSlots, FirstSlots, TeukolskySlots, FirstFields,
             ReconstructionSlots
    <3>2. /\ {"outer"} \X {"SourceOverR3", "Forcing"} \subseteq EvaluatedSlots(out)
          /\ {"independentConstraints"} \X {"Psi3Bianchi", "Psi2Bianchi", "HllReality"}
               \subseteq EvaluatedSlots(out)
      BY DEF EvaluatedSlots, SourcedSlots, OuterSlots, ConstraintSlots
    <3>3. \A s \in ReadSlots : s \notin Packed
      BY DEF ReadSlots, Packed
    <3> QED
      BY <3>1, <3>2, <3>3 DEF ReadSlots
  <2> HIDE DEF new, known
  <2>4. Known(new, {out} \X Fields, g, 0)
    <3>1. Known(new, {out} \X Fields, g, 1)
      BY <2>1, <2>2 DEF Known
    <3>2. \A s \in {out} \X Fields : Level(s, 0) = Level(s, 1)
      BY ReadLevels
    <3> QED
      BY <3>1, <3>2 DEF Known
  <2>5. Known(new, ReadSlots, g, 0)
    <3>1. Known(new, ReadSlots, g, 1)
      BY <2>1, <2>3 DEF Known
    <3>2. \A s \in ReadSlots : Level(s, 0) = Level(s, 1)
      BY ReadLevels
    <3> QED
      BY <3>1, <3>2 DEF Known
  <2>6. ASSUME NEW v \in (StageViews \cup OutputViews) \ {out}, NEW f \in Fields
        PROVE  new[<<v, f>>] = mem[<<v, f>>]
    <3>1. <<v, f>> \in Slots
      BY <1>0 DEF Vectors
    <3>2. <<v, f>> \notin EvaluatedSlots(out)
      BY EvaluatedViews
    <3> QED
      BY <2>1, <3>1, <3>2 DEF Same
  <2>7. disabled = FALSE
    BY <1>2
  <2>8. Leaves(mem, new, in, out, FALSE, g)
    BY <2>1, <2>4, <2>5, <2>6 DEF Leaves
  <2> QED
    BY <2>7, <2>8 DEF new
<1> QED
  BY <1>1, <1>2

-----------------------------------------------------------------------------
(* The host: what it may decide and launch *)

LEMMA PolicyType ==
  ASSUME policy \in Policies
  PROVE  policy \in Policy /\ policy.start \in Nat /\ policy.mode \in SourceModes
  BY QueueAssumption DEF Policy

\* Closing the latch changes those two fields only.
LEMMA LatchedRecord ==
  ASSUME NEW a \in Activation, NEW t \in Nat
  PROVE  Latched(a, t) \in Activation
<1> DEFINE b == [a EXCEPT !.active = TRUE]
<1>1. b \in Activation
  BY DEF Activation
<1>2. Latched(a, t) = [b EXCEPT !.activation_time = t]
  BY DEF Latched
<1> HIDE DEF b
<1> QED
  BY <1>1, <1>2 DEF Activation

LEMMA ResetRecord ==
  ASSUME NEW p \in Policy
  PROVE  ResetActivation(p) \in Activation
<1>1. Fresh \in Activation
  BY DEF Fresh, Activation, Never
<1>2. Latched(Fresh, 0) \in Activation
  BY <1>1, LatchedRecord
<1> DEFINE a == Latched(Fresh, 0)
<1> HIDE DEF a
<1>3. [a EXCEPT !.consecutive_passes = p.required] \in Activation
  <2>1. p.required \in Nat
    BY DEF Policy
  <2> QED
    BY <1>2, <2>1 DEF Activation, a
<1> QED
  BY <1>1, <1>3 DEF ResetActivation, a

\* A consideration leaves a record, and a closed gate alone.
LEMMA ConsideredRecord ==
  ASSUME NEW p \in Policy, NEW a \in Activation, NEW t \in Nat, NEW passed \in BOOLEAN
  PROVE  /\ Considered(p, a, t, passed) \in Activation
         /\ a.active => Considered(p, a, t, passed) = a
<1>1. CASE ~Eligible(p, a, t)
  BY <1>1 DEF Considered
<1>2. CASE Eligible(p, a, t)
  <2>1. ~a.active
    BY <1>2 DEF Eligible
  <2> DEFINE passes == IF p.mode = "Unrestricted"
                       THEN p.required ELSE PassesAfter(p, a, passed)
             counted == [a EXCEPT !.last_eligibility_time = t,
                                  !.consecutive_passes = passes]
  <2>2. Considered(p, a, t, passed) =
          IF passes >= p.required THEN Latched(counted, t) ELSE counted
    BY <1>2 DEF Considered, Decided
  <2>3. passes \in Nat
    BY DEF PassesAfter, Policy, Activation
  <2> HIDE DEF passes
  <2>4. counted \in Activation
    <3>1. [a EXCEPT !.last_eligibility_time = t] \in Activation
      BY DEF Activation
    <3> QED
      BY <2>3, <3>1 DEF Activation
  <2>5. Latched(counted, t) \in Activation
    BY <2>4, LatchedRecord
  <2> HIDE DEF counted
  <2> QED
    BY <2>1, <2>2, <2>4, <2>5
<1> QED
  BY <1>1, <1>2

\* The four stages and the combination, task by task.
LEMMA RungeKuttaTasks ==
  ASSUME NEW active, NEW to
  PROVE  /\ Len(RungeKutta(active, to)) = 8
         /\ RungeKutta(active, to)[1] = Rhs("state", "k1", active)
         /\ RungeKutta(active, to)[2] = Form("k1")
         /\ RungeKutta(active, to)[3] = Rhs("stage", "k2", active)
         /\ RungeKutta(active, to)[4] = Form("k2")
         /\ RungeKutta(active, to)[5] = Rhs("stage", "k3", active)
         /\ RungeKutta(active, to)[6] = Form("k3")
         /\ RungeKutta(active, to)[7] = Rhs("stage", "k4", active)
         /\ RungeKutta(active, to)[8] = Accumulate(to)
  BY DEF RungeKutta

LEMMA TaskTypes ==
  ASSUME NEW active \in BOOLEAN, NEW to \in Nat
  PROVE  /\ Rhs("state", "rhs", active) \in Tasks
         /\ Sync(active) \in Tasks
         /\ RungeKutta(active, to) \in Seq(Tasks)
<1>1. \A in \in StageViews, out \in OutputViews : Rhs(in, out, active) \in Tasks
  BY DEF Rhs, Tasks
<1>2. \A k \in OutputViews : Form(k) \in Tasks
  BY DEF Form, Tasks
<1>3. Accumulate(to) \in Tasks
  BY DEF Accumulate, Tasks
<1>4. Sync(active) \in Tasks
  BY DEF Sync, Tasks
<1>5. /\ Rhs("state", "rhs", active) \in Tasks /\ Rhs("state", "k1", active) \in Tasks
      /\ Rhs("stage", "k2", active) \in Tasks /\ Rhs("stage", "k3", active) \in Tasks
      /\ Rhs("stage", "k4", active) \in Tasks
      /\ Form("k1") \in Tasks /\ Form("k2") \in Tasks /\ Form("k3") \in Tasks
  BY <1>1, <1>2 DEF StageViews, OutputViews
<1> HIDE DEF Tasks
<1>6. RungeKutta(active, to) \in Seq(Tasks)
  BY <1>3, <1>5 DEF RungeKutta
<1> QED
  BY <1>4, <1>5, <1>6

\* The types of the host.
HostTypes ==
  /\ policy \in Policies
  /\ activation \in Activation
  /\ time \in Nat /\ target \in Nat /\ stepEnd \in Nat
  /\ pc \in {"idle", "advance", "sampling"} \cup Considers \cup Measuring
  /\ queue \in Seq(Tasks)

\* What may be behind the rest of the queue after a step of the host: a gate that
\* closes is told to the device, a substep is launched whole with one latch, and an
\* evaluation for the host to look at comes last.
Reading == Measuring \cup {"sampling"}
HostLaunches(tasks) ==
  \/ /\ tasks = <<>> /\ activation'.active = activation.active /\ time' = time
     /\ pc' \notin Reading
  \/ /\ tasks = <<Sync(TRUE)>> /\ activation'.active = TRUE /\ time' = time
     /\ pc' \notin Reading
  \/ /\ tasks = <<Rhs("state", "rhs", activation.active)>>
     /\ activation' = activation /\ time' = time
     /\ pc' \in Reading
  \/ /\ tasks = RungeKutta(activation.active, target)
     /\ activation' = activation /\ time' = target
     /\ pc = "advance" /\ pc' \notin Reading

LEMMA MeasureAtType ==
  ASSUME NEW at \in Considers PROVE MeasureAt[at] \in Measuring
  BY DEF MeasureAt, Considers, Measuring

LEMMA OneTask ==
  ASSUME NEW S, NEW e \in S PROVE <<e>> \in Seq(S)
  OBVIOUS

LEMMA IsTrue ==
  ASSUME NEW b \in BOOLEAN, b PROVE b = TRUE
  OBVIOUS

LEMMA ConsiderStep ==
  ASSUME HostTypes, NEW at \in Considers, Consider(at), UNCHANGED time,
         pc' \notin Reading
  PROVE  /\ activation' \in Activation
         /\ \E tasks \in Seq(Tasks) : Launch(tasks) /\ HostLaunches(tasks)
         /\ \/ pc = at
            \/ pc \in Measuring /\ queue = <<>>
<1>1. PICK passed \in BOOLEAN : activation' = Considered(policy, activation, time, passed)
  BY DEF Consider
<1>2. activation' \in Activation /\ (activation.active => activation' = activation)
  BY <1>1, ConsideredRecord, PolicyType DEF HostTypes
<1>3. activation.active \in BOOLEAN /\ activation'.active \in BOOLEAN
  BY <1>2 DEF HostTypes, Activation
<1>4. pc = at \/ (pc \in Measuring /\ queue = <<>>)
  <2>1. pc = at \/ (pc = MeasureAt[at] /\ queue = <<>>)
    BY DEF Consider
  <2> QED
    BY <2>1, MeasureAtType
<1>5. Launch(IF activation'.active /\ ~activation.active THEN <<Sync(TRUE)>> ELSE <<>>)
  BY DEF Consider
<1>6. \E tasks \in Seq(Tasks) : Launch(tasks) /\ HostLaunches(tasks)
  <2>1. CASE activation'.active /\ ~activation.active
    <3>1. Launch(<<Sync(TRUE)>>)
      BY <1>5, <2>1
    <3>2. <<Sync(TRUE)>> \in Seq(Tasks)
      <4>1. Sync(TRUE) \in Tasks
        BY DEF Sync, Tasks
      <4> QED
        BY <4>1, OneTask, Zenon
    <3>3. activation'.active = TRUE
      <4> DEFINE b == activation'.active
      <4>1. b \in BOOLEAN /\ b
        BY <1>3, <2>1
      <4> HIDE DEF b
      <4>2. b = TRUE
        BY <4>1, IsTrue
      <4> QED
        BY <4>2 DEF b
    <3>4. HostLaunches(<<Sync(TRUE)>>)
      BY <3>3 DEF HostLaunches
    <3> QED
      BY <3>1, <3>2, <3>4
  <2>2. CASE ~(activation'.active /\ ~activation.active)
    <3>1. Launch(<<>>)
      BY <1>5, <2>2
    <3>2. activation'.active = activation.active
      BY <1>2, <1>3, <2>2
    <3>3. <<>> \in Seq(Tasks)
      OBVIOUS
    <3>4. HostLaunches(<<>>)
      BY <3>2 DEF HostLaunches
    <3> QED
      BY <3>1, <3>3, <3>4
  <2> QED
    BY <2>1, <2>2
<1> QED
  BY <1>2, <1>4, <1>6

\* Every step of the host launches one of these.
LEMMA HostStep ==
  ASSUME HostTypes, Host
  PROVE  /\ HostTypes' /\ UNCHANGED <<policy, device>>
         /\ \E tasks \in Seq(Tasks) : Launch(tasks) /\ HostLaunches(tasks)
<1> USE DEF HostTypes
<1>0. \A p \in {"idle", "entry", "start", "endpoint", "advance"} : p \notin Reading
  BY DEF Reading, Measuring
<1>1. /\ activation.active \in BOOLEAN
      /\ <<>> \in Seq(Tasks) /\ (queue' = queue => Launch(<<>>))
  BY DEF Launch, Activation
<1>2. \A tasks \in Seq(Tasks) : Launch(tasks) => queue' \in Seq(Tasks)
  BY DEF Launch
<1>3. /\ "entry" \in Considers /\ "start" \in Considers /\ "endpoint" \in Considers
  BY DEF Considers
<1>4. ASSUME NEW dt \in TimeSteps, BeginStep(dt)
      PROVE  /\ HostTypes' /\ UNCHANGED <<policy, device>>
             /\ \E tasks \in Seq(Tasks) : Launch(tasks) /\ HostLaunches(tasks)
  <2>1. HostLaunches(<<>>)
    BY <1>0, <1>4 DEF BeginStep, HostLaunches
  <2>2. stepEnd' \in Nat /\ pc' \in Considers
    BY <1>3, <1>4, QueueAssumption DEF BeginStep
  <2> QED
    BY <1>1, <1>4, <2>1, <2>2 DEF BeginStep
<1>5. CASE Measure
  <2>1. <<Rhs("state", "rhs", activation.active)>> \in Seq(Tasks)
    <3>1. Rhs("state", "rhs", activation.active) \in Tasks
      BY <1>1, TaskTypes
    <3> QED
      BY <3>1
  <2>2. pc' \in Measuring
    BY <1>5, MeasureAtType DEF Measure
  <2>3. HostLaunches(<<Rhs("state", "rhs", activation.active)>>)
    BY <1>5, <2>2 DEF Measure, HostLaunches, Reading
  <2> QED
    BY <1>2, <1>5, <2>1, <2>2, <2>3 DEF Measure
<1>6. CASE EnterStep
  <2>1. /\ activation' \in Activation
        /\ \E tasks \in Seq(Tasks) : Launch(tasks) /\ HostLaunches(tasks)
    BY <1>0, <1>3, <1>6, ConsiderStep DEF EnterStep
  <2>2. target' \in Nat
    BY <1>6, PolicyType DEF EnterStep
  <2> QED
    BY <1>2, <1>6, <2>1, <2>2 DEF EnterStep
<1>7. CASE Advance
  <2>1. RungeKutta(activation.active, target) \in Seq(Tasks)
    BY <1>1, TaskTypes
  <2>2. HostLaunches(RungeKutta(activation.active, target))
    BY <1>0, <1>7 DEF Advance, HostLaunches
  <2>3. pc' \in Considers
    BY <1>3, <1>7 DEF Advance
  <2> QED
    BY <1>2, <1>7, <2>1, <2>2, <2>3 DEF Advance
<1>8. CASE ReachStart
  <2>1. /\ activation' \in Activation
        /\ \E tasks \in Seq(Tasks) : Launch(tasks) /\ HostLaunches(tasks)
    BY <1>0, <1>3, <1>8, ConsiderStep DEF ReachStart
  <2> QED
    BY <1>2, <1>8, <2>1 DEF ReachStart
<1>9. CASE EndStep
  <2>1. /\ activation' \in Activation
        /\ \E tasks \in Seq(Tasks) : Launch(tasks) /\ HostLaunches(tasks)
    BY <1>0, <1>3, <1>9, ConsiderStep DEF EndStep
  <2> QED
    BY <1>2, <1>9, <2>1 DEF EndStep
<1>10. CASE Sample
  <2>1. <<Rhs("state", "rhs", activation.active)>> \in Seq(Tasks)
    <3>1. Rhs("state", "rhs", activation.active) \in Tasks
      BY <1>1, TaskTypes
    <3> QED
      BY <3>1
  <2>2. HostLaunches(<<Rhs("state", "rhs", activation.active)>>)
    BY <1>10 DEF Sample, HostLaunches, Reading
  <2> QED
    BY <1>2, <1>10, <2>1, <2>2 DEF Sample
<1>11. CASE Report
  <2>1. HostLaunches(<<>>)
    BY <1>0, <1>11 DEF Report, HostLaunches
  <2> QED
    BY <1>1, <1>11, <2>1 DEF Report
<1> QED
  BY <1>4, <1>5, <1>6, <1>7, <1>8, <1>9, <1>10, <1>11 DEF Host

\* From where it looks at the device the host goes on only when nothing is in the
\* queue.
LEMMA HostWaits ==
  ASSUME Host, pc \in Reading
  PROVE  queue = <<>>
<1>0. \A p \in {"idle", "entry", "start", "endpoint", "advance"} : p \notin Reading
  BY DEF Reading, Measuring
<1>1. ~ (\E dt \in TimeSteps : BeginStep(dt)) /\ ~Measure /\ ~Advance /\ ~Sample
  BY <1>0 DEF BeginStep, Measure, Considers, Advance, Sample
<1>2. \A at \in Considers : Consider(at) => queue = <<>>
  BY <1>0 DEF Consider, Considers
<1>3. /\ "entry" \in Considers /\ "start" \in Considers /\ "endpoint" \in Considers
  BY DEF Considers
<1>4. EnterStep => queue = <<>>
  BY <1>2, <1>3 DEF EnterStep
<1>5. ReachStart => queue = <<>>
  BY <1>2, <1>3 DEF ReachStart
<1>6. EndStep => queue = <<>>
  BY <1>2, <1>3 DEF EndStep
<1>7. Report => queue = <<>>
  BY DEF Report
<1> QED
  BY <1>1, <1>4, <1>5, <1>6, <1>7 DEF Host

-----------------------------------------------------------------------------
(* The device: memory is sound, and a stage view holds one generation *)

\* Memory is sound, and a stage view holds one generation.
Fitted ==
  /\ Sound(memory, {})
  /\ \A v \in StageViews : Known(memory, {v} \X Fields, holds[v], 0)

DeviceTypes ==
  /\ sourceActive \in BOOLEAN
  /\ holds \in [StageViews -> Nat]
  /\ reached \in Nat
  /\ stages \in Seq([from: SUBSET Nat, generation: Nat])
  /\ substeps \subseteq [from: Nat, to: Nat, forced: SUBSET BOOLEAN]

\* The invariant of types and memory.
QueueInv == HostTypes /\ DeviceTypes /\ Fitted

LEMMA QueueInvTypes == QueueInv => TypeOK
  BY DEF QueueInv, HostTypes, DeviceTypes, Fitted, Sound, TypeOK

LEMMA FieldKinds ==
  ASSUME NEW f \in Fields
  PROVE  /\ f \in FirstFields <=> Place(f) = 0
         /\ f \in Daughters <=> Place(f) \in 1 .. 7
         /\ f \in SecondFields <=> Place(f) = 9
  BY DEF Fields, FirstFields, Daughters, SecondFields, Place

\* A field of the mode may be where the field may.
LEMMA OwnField ==
  ASSUME NEW f \in Fields, NEW m \in Modes, NEW i, i.field = f, i.mode = m
  PROVE  Origin(Place(f), m, i)
  BY FieldKinds, PlaceType DEF Origin, Fields

\* The initial data.
LEMMA LoadedFits ==
  ASSUME NEW fields \in {FirstFields, Fields}
  PROVE  /\ Sound(Loaded(fields), {})
         /\ \A v \in StageViews : Known(Loaded(fields), {v} \X Fields, 0, 0)
         /\ \A s \in Slots : s[1] # "state" =>
              \A m \in Modes : Loaded(fields)[s][m] = {}
         /\ \A m \in Parents : Loaded(fields)[<<"state", "FirstP">>][m] # {}
<1> DEFINE mem == Loaded(fields)
           input(s, m) == [generation |-> 0, field |-> s[2], mode |-> m, rate |-> 0]
<1>1. \A s \in Slots, m \in Modes :
        mem[s][m] = IF /\ s[1] = "state" /\ s[2] \in fields
                       /\ m \in IF s[2] \in SecondFields THEN Targets ELSE Parents
                    THEN {input(s, m)} ELSE {}
  BY DEF Loaded
<1>2. mem = [s \in Slots |-> [m \in Modes |-> mem[s][m]]]
  BY DEF Loaded
<1> HIDE DEF mem
<1>3. fields \subseteq Fields /\ FirstFields \subseteq fields
  BY DEF Fields
<1>4. ASSUME NEW s \in Slots, NEW m \in Modes, NEW i \in mem[s][m]
      PROVE  /\ i \in Input /\ Origin(Rank(s), m, i) /\ m \in Band(s)
             /\ s[1] = "state" /\ i.generation = 0 /\ i.rate = 0
  <2>1. s[1] = "state" /\ s[2] \in Fields /\ m \in BandOf(s[2]) /\ i = input(s, m)
    <3> DEFINE here == /\ s[1] = "state" /\ s[2] \in fields
                       /\ m \in IF s[2] \in SecondFields THEN Targets ELSE Parents
    <3>1. mem[s][m] = IF here THEN {input(s, m)} ELSE {}
      BY <1>1
    <3>2. here /\ i = input(s, m)
      <4> HIDE DEF here, input
      <4> QED
        BY <1>4, <3>1
    <3> HIDE DEF input
    <3> QED
      BY <1>3, <3>2 DEF BandOf
  <2>2. i \in Input
    BY <2>1 DEF Input
  <2>3. s = <<"state", s[2]>>
    BY <2>1 DEF Slots, StageViews, OutputViews, RadialViews, AngularViews, Scratches
  <2>4. "state" \in Vectors
    BY DEF Vectors, StageViews
  <2>5. Rank(s) = Place(s[2]) /\ Band(s) = BandOf(s[2])
    BY <2>1, <2>3, <2>4, VectorSlots DEF Holds
  <2>6. Origin(Place(s[2]), m, i)
    BY <2>1, OwnField
  <2> QED
    BY <2>1, <2>2, <2>5, <2>6
<1>5. mem \in [Slots -> [Modes -> SUBSET Input]]
  BY <1>2, <1>4
<1>6. ZeroForcing \in Slots /\ ZeroForcing[1] # "state"
  BY DEF ZeroForcing, Slots
<1>7. Sound(mem, {})
  <2>1. \A m \in Modes : mem[ZeroForcing][m] = {}
    BY <1>4, <1>6
  <2> QED
    BY <1>4, <1>5, <2>1 DEF Sound, Wide
<1>8. ASSUME NEW v \in StageViews PROVE Known(mem, {v} \X Fields, 0, 0)
  <2>1. ASSUME NEW f \in Fields PROVE <<v, f>> \in Slots /\ Level(<<v, f>>, 0) = 0
    BY VectorSlots DEF Vectors, Holds, LevelOf
  <2> QED
    BY <1>4, <2>1 DEF Known
<1>9. \A s \in Slots : s[1] # "state" => \A m \in Modes : mem[s][m] = {}
  BY <1>4
<1>10. ASSUME NEW m \in Parents PROVE mem[<<"state", "FirstP">>][m] # {}
  <2>1. <<"state", "FirstP">> \in Slots /\ m \in Modes
    BY RegistryAssumption DEF Slots, StageViews, Fields, FirstFields
  <2>2. "FirstP" \in fields /\ "FirstP" \notin SecondFields
    BY <1>3 DEF FirstFields, SecondFields
  <2> QED
    BY <1>1, <2>1, <2>2
<1> QED
  BY <1>7, <1>8, <1>9, <1>10 DEF mem

\* Memory after a stage view is filled with a new generation.
Combined(mem, view, terms, new) ==
  [s \in Slots |->
     IF s \notin {view} \X Fields THEN mem[s]
     ELSE [m \in Modes |->
             IF \A v \in terms : mem[<<v, s[2]>>][m] = {} THEN {}
             ELSE {[generation |-> new, field |-> s[2], mode |-> m, rate |-> 0]}]]

\* Sums of what other views hold fit where the terms do.
LEMMA CombinedFits ==
  ASSUME NEW mem, Sound(mem, {}), NEW view \in StageViews,
         NEW terms, terms \subseteq StageViews \cup OutputViews, NEW new \in Nat
  PROVE  /\ Sound(Combined(mem, view, terms, new), {})
         /\ Known(Combined(mem, view, terms, new), {view} \X Fields, new, 0)
         /\ Same(mem, Combined(mem, view, terms, new), {view} \X Fields)
         /\ ("state" \in terms /\ \A m \in Parents : mem[<<"state", "FirstP">>][m] # {})
              => \A m \in Parents : Combined(mem, view, terms, new)[<<view, "FirstP">>][m] # {}
<1> DEFINE filled == Combined(mem, view, terms, new)
           input(s, m) == [generation |-> new, field |-> s[2], mode |-> m, rate |-> 0]
<1>1. \A s \in Slots : s \notin {view} \X Fields => filled[s] = mem[s]
  BY DEF Combined
<1>2. \A s \in Slots, m \in Modes : s \in {view} \X Fields =>
        filled[s][m] = IF \A v \in terms : mem[<<v, s[2]>>][m] = {} THEN {}
                       ELSE {input(s, m)}
  BY DEF Combined
<1>3. /\ filled = [s \in Slots |-> filled[s]]
      /\ \A s \in Slots : s \in {view} \X Fields =>
           filled[s] = [m \in Modes |-> filled[s][m]]
  BY DEF Combined
<1> HIDE DEF filled
<1>4. \A v \in StageViews \cup OutputViews, f \in Fields :
        /\ <<v, f>> \in Slots /\ Rank(<<v, f>>) = Place(f) /\ Band(<<v, f>>) = BandOf(f)
        /\ v \in StageViews => Level(<<v, f>>, 0) = 0
  BY VectorSlots DEF Vectors, Holds, LevelOf
<1>5. ASSUME NEW f \in Fields, NEW m \in Modes, NEW i \in filled[<<view, f>>][m]
      PROVE  /\ i \in Input /\ i.generation = new /\ i.rate = 0
             /\ Origin(Place(f), m, i) /\ m \in BandOf(f)
  <2> DEFINE s == <<view, f>>
  <2>1. s \in Slots /\ s \in {view} \X Fields /\ s[2] = f
    BY <1>4
  <2> DEFINE zero == \A v \in terms : mem[<<v, f>>][m] = {}
  <2>2. filled[s][m] = IF zero THEN {} ELSE {input(s, m)}
    <3>1. filled[s][m] = IF \A v \in terms : mem[<<v, s[2]>>][m] = {} THEN {}
                         ELSE {input(s, m)}
      BY <1>2, <2>1, Zenon
    <3> QED
      BY <2>1, <3>1
  <2>3. ~zero /\ i = input(s, m)
    <3> HIDE DEF zero, input
    <3> QED
      BY <1>5, <2>2
  <2>4. PICK v \in terms : mem[<<v, f>>][m] # {}
    BY <2>3
  <2>5. m \in BandOf(f)
    <3>1. v \in StageViews \cup OutputViews
      OBVIOUS
    <3>2. <<v, f>> \in Slots /\ Band(<<v, f>>) = BandOf(f)
      BY <1>4, <3>1
    <3>3. PICK j : j \in mem[<<v, f>>][m]
      BY <2>4
    <3> QED
      BY <3>2, <3>3 DEF Sound, Wide
  <2>6. i = input(s, m)
    BY <2>3
  <2>7. i \in Input /\ i.generation = new /\ i.rate = 0 /\ i.field = f /\ i.mode = m
    BY <2>1, <2>6 DEF Input
  <2>8. Origin(Place(f), m, i)
    BY <2>7, OwnField
  <2> QED
    BY <2>5, <2>7, <2>8
<1>6. ASSUME NEW s \in Slots PROVE filled[s] \in [Modes -> SUBSET Input]
  <2>1. CASE s \in {view} \X Fields
    <3>1. PICK f \in Fields : s = <<view, f>>
      BY <2>1
    <3>2. \A m \in Modes : filled[s][m] \subseteq Input
      BY <1>5, <3>1
    <3> QED
      BY <1>3, <2>1, <3>2
  <2>2. CASE s \notin {view} \X Fields
    BY <1>1, <2>2 DEF Sound
  <2> QED
    BY <2>1, <2>2
<1>7. ASSUME NEW s \in Slots, NEW m \in Modes, NEW i \in filled[s][m]
      PROVE  Origin(Rank(s), m, i) /\ m \in Band(s)
  <2>1. CASE s \in {view} \X Fields
    <3>1. PICK f \in Fields : s = <<view, f>>
      BY <2>1
    <3>2. Rank(s) = Place(f) /\ Band(s) = BandOf(f)
      BY <1>4, <3>1
    <3> QED
      BY <1>5, <1>7, <3>1, <3>2
  <2>2. CASE s \notin {view} \X Fields
    BY <1>1, <1>7, <2>2 DEF Sound, Wide
  <2> QED
    BY <2>1, <2>2
<1>8. Sound(filled, {})
  <2>1. filled \in [Slots -> [Modes -> SUBSET Input]]
    BY <1>3, <1>6
  <2>2. ZeroForcing \in Slots /\ ZeroForcing \notin {view} \X Fields
    BY DEF ZeroForcing, Slots, StageViews
  <2>3. \A m \in Modes : filled[ZeroForcing][m] = {}
    BY <1>1, <2>2 DEF Sound
  <2> QED
    BY <1>7, <2>1, <2>3 DEF Sound, Wide
<1>9. Known(filled, {view} \X Fields, new, 0)
  <2>1. ASSUME NEW s \in {view} \X Fields, NEW m \in Modes, NEW i \in filled[s][m]
        PROVE  i.generation = new /\ i.rate = Level(s, 0)
    <3>1. PICK f \in Fields : s = <<view, f>>
      BY <2>1
    <3> QED
      BY <1>4, <1>5, <2>1, <3>1
  <2> QED
    BY <2>1 DEF Known
<1>10. ASSUME "state" \in terms, \A m \in Parents : mem[<<"state", "FirstP">>][m] # {},
              NEW m \in Parents
       PROVE  filled[<<view, "FirstP">>][m] # {}
  <2>1. m \in Modes /\ "FirstP" \in Fields
    BY RegistryAssumption DEF Fields, FirstFields
  <2>2. <<view, "FirstP">> \in Slots /\ <<view, "FirstP">> \in {view} \X Fields
    BY <1>4, <2>1
  <2>3. mem[<<"state", "FirstP">>][m] # {}
    BY <1>10
  <2> DEFINE s == <<view, "FirstP">>
  <2>4. s[2] = "FirstP"
    OBVIOUS
  <2>5. ~ (\A v \in terms : mem[<<v, s[2]>>][m] = {})
    BY <1>10, <2>3, <2>4
  <2> QED
    BY <1>2, <2>1, <2>2, <2>5
<1>11. Same(mem, filled, {view} \X Fields)
  BY <1>1 DEF Same
<1> QED
  BY <1>8, <1>9, <1>10, <1>11 DEF filled

-----------------------------------------------------------------------------
(* Every step keeps the invariant *)

LEMMA InitQueue == Init => QueueInv
<1> SUFFICES ASSUME Init PROVE QueueInv
  OBVIOUS
<1>1. activation \in Activation /\ activation.active \in BOOLEAN
  <2>1. activation \in Activation
    BY PolicyType, ResetRecord DEF Init
  <2> QED
    BY <2>1 DEF Activation
<1>2. HostTypes
  BY <1>1 DEF Init, HostTypes
<1>3. DeviceTypes
  BY <1>1 DEF Init, DeviceTypes
<1>4. PICK fields \in {FirstFields, Fields} : memory = Loaded(fields)
  BY DEF Init
<1>5. Fitted
  <2>1. \A v \in StageViews : holds[v] = 0
    BY DEF Init
  <2> QED
    BY <1>4, <2>1, LoadedFits DEF Fitted
<1> QED
  BY <1>2, <1>3, <1>5 DEF QueueInv

LEMMA TaskKinds ==
  ASSUME NEW t \in Tasks
  PROVE  /\ t.task = "rhs" => t.in \in StageViews /\ t.out \in OutputViews /\ t.active \in BOOLEAN
         /\ t.task = "form" => t.k \in OutputViews
         /\ t.task = "accumulate" => t.to \in Nat
         /\ t.task = "sync" => t.active \in BOOLEAN
         /\ t.task \in {"rhs", "form", "accumulate", "sync"}
  BY DEF Tasks

LEMMA HeadTask ==
  ASSUME HostTypes, queue # <<>>
  PROVE  Head(queue) \in Tasks /\ Tail(queue) \in Seq(Tasks)
<1>1. queue \in Seq(Tasks)
  BY DEF HostTypes
<1> HIDE DEF Tasks
<1> QED
  BY <1>1

\* What an evaluation leaves, of the stage it was given.
LEMMA RhsStep ==
  ASSUME QueueInv, NEW t \in Tasks, ExecuteRhs(t)
  PROVE  /\ Leaves(memory, memory', t.in, t.out, policy.mode = "Disabled", holds[t.in])
         /\ t.in \in StageViews /\ t.out \in OutputViews
         /\ QueueInv => Fitted' /\ DeviceTypes'
<1>1. t.in \in StageViews /\ t.out \in OutputViews /\ t.active \in BOOLEAN
  BY TaskKinds DEF ExecuteRhs
<1> DEFINE disabled == policy.mode = "Disabled"
           g == holds[t.in]
<1>2. disabled \in BOOLEAN
  OBVIOUS
<1>3. memory' = Run(memory, Evaluation(t.in, t.out, disabled, t.active))
  BY DEF ExecuteRhs
<1>4. Sound(memory, {}) /\ Known(memory, {t.in} \X Fields, g, 0)
  BY <1>1 DEF QueueInv, Fitted
<1> HIDE DEF disabled, g
<1>5. Leaves(memory, memory', t.in, t.out, disabled, g)
  BY <1>1, <1>2, <1>3, <1>4, EvaluationLeaves
<1>6. Sound(memory', {})
  BY <1>5 DEF Leaves
<1>7. ASSUME NEW v \in StageViews PROVE Known(memory', {v} \X Fields, holds'[v], 0)
  <2>1. v # t.out /\ v \in (StageViews \cup OutputViews) \ {t.out}
    BY <1>1 DEF StageViews, OutputViews
  <2>2. \A f \in Fields : memory'[<<v, f>>] = memory[<<v, f>>]
    BY <1>5, <2>1 DEF Leaves
  <2>3. holds' = holds /\ Known(memory, {v} \X Fields, holds[v], 0)
    BY DEF QueueInv, Fitted, ExecuteRhs
  <2> QED
    BY <2>2, <2>3 DEF Known
<1>8. DeviceTypes'
  BY DEF QueueInv, DeviceTypes, ExecuteRhs
<1> QED
  BY <1>1, <1>5, <1>6, <1>7, <1>8 DEF Fitted, disabled, g

\* A stage view is filled with a new generation, and the other one is not touched.
LEMMA FillStep ==
  ASSUME QueueInv, NEW view \in StageViews,
         NEW terms, terms \subseteq StageViews \cup OutputViews, Fill(view, terms)
  PROVE  /\ Fitted' /\ holds' \in [StageViews -> Nat]
         /\ Same(memory, memory', {view} \X Fields)
         /\ holds'[view] = holds["state"] + holds["stage"] + 1
         /\ \A v \in StageViews \ {view} : holds'[v] = holds[v]
         /\ ("state" \in terms /\ \A m \in Parents : memory[<<"state", "FirstP">>][m] # {})
              => \A m \in Parents : memory'[<<view, "FirstP">>][m] # {}
<1> DEFINE new == holds["state"] + holds["stage"] + 1
<1>1. /\ holds \in [StageViews -> Nat] /\ "state" \in StageViews /\ "stage" \in StageViews
      /\ Sound(memory, {})
  BY DEF QueueInv, DeviceTypes, Fitted, StageViews
<1>2. new \in Nat
  BY <1>1
<1>3. holds' = [holds EXCEPT ![view] = new] /\ memory' = Combined(memory, view, terms, new)
  BY DEF Fill, Combined
<1> HIDE DEF new
<1>4. /\ Sound(memory', {})
      /\ Known(memory', {view} \X Fields, new, 0)
      /\ Same(memory, memory', {view} \X Fields)
      /\ ("state" \in terms /\ \A m \in Parents : memory[<<"state", "FirstP">>][m] # {})
           => \A m \in Parents : memory'[<<view, "FirstP">>][m] # {}
  BY <1>1, <1>2, <1>3, CombinedFits
<1>5. /\ holds' \in [StageViews -> Nat] /\ holds'[view] = new
      /\ \A v \in StageViews \ {view} : holds'[v] = holds[v]
  BY <1>1, <1>2, <1>3
<1>6. ASSUME NEW v \in StageViews PROVE Known(memory', {v} \X Fields, holds'[v], 0)
  <2>1. CASE v = view
    BY <1>4, <1>5, <2>1
  <2>2. CASE v # view
    <3>1. Known(memory, {v} \X Fields, holds[v], 0)
      BY DEF QueueInv, Fitted
    <3>2. \A f \in Fields : <<v, f>> \in Slots
      BY VectorSlots DEF Vectors, Holds
    <3>3. \A s \in {v} \X Fields : s \in Slots \ ({view} \X Fields)
      BY <2>2, <3>2
    <3>4. \A s \in {v} \X Fields : memory'[s] = memory[s]
      BY <1>4, <3>3 DEF Same
    <3>5. holds'[v] = holds[v]
      BY <1>5, <2>2
    <3> QED
      BY <3>1, <3>4, <3>5 DEF Known
  <2> QED
    BY <2>1, <2>2
<1> QED
  BY <1>4, <1>5, <1>6 DEF Fitted, new

\* What each field and mode of a view holds in a memory, and the inputs in it.
Holdings(mem, view) == {mem[<<view, f>>][m] : f \in Fields, m \in Modes}
Given(mem, view) == UNION Holdings(mem, view)
Made(mem, view) == {i.generation : i \in Given(mem, view)}

LEMMA MadeHere ==
  /\ \A k : Generations(k) = Made(memory, k)
  /\ \A k : Generations(k)' = Made(memory', k)
  BY DEF Generations, Inputs, Made, Given, Holdings

LEMMA GivenHere == \A k : Inputs(k) = Given(memory, k)
  BY DEF Inputs, Given, Holdings

LEMMA GivenIs ==
  ASSUME NEW mem, NEW k, NEW i
  PROVE  i \in Given(mem, k) <=> \E f \in Fields, m \in Modes : i \in mem[<<k, f>>][m]
<1>1. ASSUME i \in Given(mem, k)
      PROVE  \E f \in Fields, m \in Modes : i \in mem[<<k, f>>][m]
  <2>1. PICK held \in Holdings(mem, k) : i \in held
    BY <1>1 DEF Given
  <2>2. PICK f \in Fields, m \in Modes : held = mem[<<k, f>>][m]
    BY <2>1 DEF Holdings
  <2> QED
    BY <2>1, <2>2
<1>2. ASSUME NEW f \in Fields, NEW m \in Modes, i \in mem[<<k, f>>][m]
      PROVE  i \in Given(mem, k)
  <2>1. mem[<<k, f>>][m] \in Holdings(mem, k)
    BY DEF Holdings
  <2> QED
    BY <1>2, <2>1 DEF Given
<1> QED
  BY <1>1, <1>2

LEMMA GenerationsType ==
  ASSUME Sound(memory, {}), NEW k \in OutputViews
  PROVE  Generations(k) \subseteq Nat
<1>1. \A f \in Fields : <<k, f>> \in Slots
  BY VectorSlots DEF Vectors, Holds
<1>2. \A f \in Fields, m \in Modes : memory[<<k, f>>][m] \subseteq Input
  BY <1>1 DEF Sound
<1>3. \A i \in Inputs(k) : i.generation \in Nat
  <2>1. ASSUME NEW i \in Inputs(k)
        PROVE  \E f \in Fields, m \in Modes : i \in memory[<<k, f>>][m]
    <3>1. i \in Given(memory, k)
      BY GivenHere
    <3> QED
      BY <3>1, GivenIs
  <2> QED
    BY <1>2, <2>1 DEF Input
<1> QED
  BY <1>3 DEF Generations

LEMMA SlopeViews == Range(Slopes) \subseteq OutputViews
  BY DEF Range, Slopes, OutputViews

LEMMA ExecuteKeeps ==
  ASSUME QueueInv, Execute
  PROVE  QueueInv'
<1> DEFINE t == Head(queue)
<1>1. t \in Tasks /\ queue' \in Seq(Tasks)
  BY HeadTask DEF QueueInv, Execute
<1>2. HostTypes'
  BY <1>1 DEF QueueInv, HostTypes, Execute, host
<1> HIDE DEF t, Tasks
<1>3. CASE ExecuteRhs(t)
  BY <1>1, <1>2, <1>3, RhsStep DEF QueueInv
<1>4. CASE ExecuteForm(t)
  <2>1. "stage" \in StageViews /\ {"state", t.k} \subseteq StageViews \cup OutputViews
        /\ t.k \in OutputViews
    BY <1>1, <1>4, TaskKinds DEF ExecuteForm, StageViews
  <2>2. Fitted' /\ holds' \in [StageViews -> Nat]
    BY <1>4, <2>1, FillStep DEF ExecuteForm
  <2>3. Generations(t.k) \subseteq Nat /\ holds'["stage"] \in Nat
    BY <2>1, <2>2, GenerationsType DEF QueueInv, Fitted
  <2>4. stages' \in Seq([from: SUBSET Nat, generation: Nat])
    <3> DEFINE e == [from |-> Generations(t.k), generation |-> holds'["stage"]]
               S == [from: SUBSET Nat, generation: Nat]
    <3>1. e \in S
      BY <2>3
    <3>2. stages \in Seq(S) /\ stages' = Append(stages, e)
      BY <1>4 DEF QueueInv, DeviceTypes, ExecuteForm
    <3> HIDE DEF e, S
    <3>3. stages' \in Seq(S)
      BY <3>1, <3>2
    <3> QED
      BY <3>3 DEF S
  <2>5. DeviceTypes'
    BY <1>4, <2>2, <2>4 DEF QueueInv, DeviceTypes, ExecuteForm
  <2> QED
    BY <1>2, <2>2, <2>5 DEF QueueInv
<1>5. CASE ExecuteAccumulate(t)
  <2>1. /\ "state" \in StageViews /\ t.to \in Nat
        /\ {"state"} \cup Range(Slopes) \subseteq StageViews \cup OutputViews
    BY <1>1, <1>5, TaskKinds, SlopeViews DEF ExecuteAccumulate, StageViews
  <2>2. Fitted' /\ holds' \in [StageViews -> Nat]
    BY <1>5, <2>1, FillStep DEF ExecuteAccumulate
  <2>3. substeps' \subseteq [from: Nat, to: Nat, forced: SUBSET BOOLEAN]
    <3> DEFINE forced == {Forced(k) : k \in Range(Slopes)}
    <3>1. forced \subseteq BOOLEAN
      BY DEF Forced
    <3>2. reached \in Nat /\ substeps \subseteq [from: Nat, to: Nat, forced: SUBSET BOOLEAN]
      BY DEF QueueInv, DeviceTypes
    <3>3. substeps' = substeps \cup {[from |-> reached, to |-> t.to, forced |-> forced]}
      BY <1>5 DEF ExecuteAccumulate
    <3> HIDE DEF forced
    <3> QED
      BY <2>1, <3>1, <3>2, <3>3
  <2>4. DeviceTypes'
    BY <1>5, <2>1, <2>2, <2>3 DEF QueueInv, DeviceTypes, ExecuteAccumulate
  <2> QED
    BY <1>2, <2>2, <2>4 DEF QueueInv
<1>6. CASE ExecuteSync(t)
  <2>1. t.active \in BOOLEAN
    BY <1>1, <1>6, TaskKinds DEF ExecuteSync
  <2> QED
    BY <1>2, <1>6, <2>1 DEF QueueInv, DeviceTypes, Fitted, ExecuteSync
<1> QED
  BY <1>3, <1>4, <1>5, <1>6 DEF Execute, t

LEMMA NextQueue == QueueInv /\ [Next]_vars => QueueInv'
<1> SUFFICES ASSUME QueueInv, [Next]_vars PROVE QueueInv'
  OBVIOUS
<1>1. CASE Host
  <2>1. HostTypes' /\ UNCHANGED <<policy, device>>
    BY <1>1, HostStep DEF QueueInv
  <2> QED
    BY <2>1 DEF QueueInv, DeviceTypes, Fitted, device
<1>2. CASE Execute
  BY <1>2, ExecuteKeeps
<1>3. CASE UNCHANGED vars
  BY <1>3 DEF QueueInv, HostTypes, DeviceTypes, Fitted, vars, host, device
<1> QED
  BY <1>1, <1>2, <1>3 DEF Next

LEMMA QueueAlways == Spec => []QueueInv
  BY InitQueue, NextQueue, PTL DEF Spec

\* The types: whatever the host launches is a task of the queue, and whatever the
\* device executes leaves every slot a set of inputs of stored modes.
THEOREM QueueTypesHold == Spec => []TypeOK
  BY QueueAlways, QueueInvTypes, PTL

-----------------------------------------------------------------------------
(* What soundness says of the slopes and of the stages *)

LEMMA VectorInputs ==
  ASSUME QueueInv, NEW v \in StageViews \cup OutputViews, NEW f \in Fields, NEW m \in Modes,
         NEW i \in memory[<<v, f>>][m]
  PROVE  i \in Input /\ Origin(Place(f), m, i) /\ m \in BandOf(f)
<1>1. v \in Vectors
  BY DEF Vectors
<1>2. <<v, f>> \in Slots /\ Rank(<<v, f>>) = Place(f) /\ Band(<<v, f>>) = BandOf(f)
  BY <1>1, VectorSlots DEF Holds
<1> QED
  BY <1>2 DEF QueueInv, Fitted, Sound, Wide

LEMMA TransportPlaces ==
  /\ \A n \in 1 .. 7 : TransportOrder[n] \in Daughters /\ Place(TransportOrder[n]) = n
  /\ \A f \in Daughters : Place(f) \in 1 .. 7 /\ TransportOrder[Place(f)] = f
<1>1. ASSUME NEW n \in 1 .. 7
      PROVE  TransportOrder[n] \in Daughters /\ Place(TransportOrder[n]) = n
  <2>1. n = 1 \/ n = 2 \/ n = 3 \/ n = 4 \/ n = 5 \/ n = 6 \/ n = 7
    OBVIOUS
  <2> QED
    BY <2>1 DEF TransportOrder, Place, Daughters, FirstFields
<1>2. \A f \in Daughters : Place(f) \in 1 .. 7 /\ TransportOrder[Place(f)] = f
  BY DEF TransportOrder, Place, Daughters, FirstFields
<1> QED
  BY <1>1, <1>2

LEMMA UpToPlace ==
  ASSUME NEW f \in Daughters
  PROVE  UpTo(f) = {g \in Daughters : Place(g) <= Place(f)}
<1> DEFINE n == CHOOSE k \in 1 .. 7 : TransportOrder[k] = f
<1>1. n \in 1 .. 7 /\ TransportOrder[n] = f
  BY TransportPlaces
<1>2. n = Place(f)
  BY <1>1, TransportPlaces
<1>3. UpTo(f) = {TransportOrder[i] : i \in 1 .. n}
  BY DEF UpTo
<1> HIDE DEF n
<1>4. ASSUME NEW g \in UpTo(f) PROVE g \in Daughters /\ Place(g) <= Place(f)
  <2>1. PICK i \in 1 .. n : g = TransportOrder[i]
    BY <1>3
  <2>2. i \in 1 .. 7 /\ i <= n
    BY <1>1
  <2> QED
    BY <1>2, <2>1, <2>2, TransportPlaces
<1>5. ASSUME NEW g \in Daughters, Place(g) <= Place(f) PROVE g \in UpTo(f)
  <2>1. Place(g) \in 1 .. n /\ TransportOrder[Place(g)] = g
    BY <1>1, <1>2, <1>5, TransportPlaces
  <2> QED
    BY <1>3, <2>1
<1> QED
  BY <1>4, <1>5

\* What the ranks of the views say is the coupling.
LEMMA QueueCouples == QueueInv => OneWayCoupling
<1> SUFFICES ASSUME QueueInv, NEW v \in OutputViews, NEW m \in Modes
             PROVE  /\ \A f \in FirstFields : \A i \in memory[<<v, f>>][m] :
                         i.field \in FirstFields /\ i.mode = m
                    /\ \A f \in Daughters : \A i \in memory[<<v, f>>][m] :
                         i.field \in FirstFields \cup UpTo(f) /\ i.mode \in {m, -m}
                    /\ \A f \in SecondFields : \A i \in memory[<<v, f>>][m] :
                         IF i.field \in SecondFields THEN i.mode = m
                         ELSE \E m1, m2 \in Parents :
                                m1 + m2 = m /\ i.mode \in {m1, -m1, m2, -m2}
  BY DEF OneWayCoupling
<1>0. v \in StageViews \cup OutputViews
  OBVIOUS
<1>1. ASSUME NEW f \in FirstFields, NEW i \in memory[<<v, f>>][m]
      PROVE  i.field \in FirstFields /\ i.mode = m
  <2>1. f \in Fields /\ Place(f) = 0
    BY FieldKinds DEF Fields
  <2>2. Origin(Place(f), m, i)
    BY <1>0, <1>1, <2>1, VectorInputs
  <2> QED
    BY <2>1, <2>2 DEF Origin
<1>2. ASSUME NEW f \in Daughters, NEW i \in memory[<<v, f>>][m]
      PROVE  i.field \in FirstFields \cup UpTo(f) /\ i.mode \in {m, -m}
  <2>1. f \in Fields /\ Place(f) \in 1 .. 7
    BY FieldKinds DEF Fields
  <2>2. i \in Input /\ Origin(Place(f), m, i)
    BY <1>0, <1>2, <2>1, VectorInputs
  <2>3. i.field \in Fields /\ Place(i.field) <= Place(f) /\ i.mode \in {m, -m}
    BY <2>1, <2>2 DEF Origin, Input
  <2>4. Place(i.field) \in 0 .. 9
    BY PlaceType
  <2>5. i.field \in FirstFields \/ i.field \in Daughters
    BY <2>1, <2>3, <2>4, FieldKinds
  <2> QED
    BY <2>3, <2>5, UpToPlace
<1>3. ASSUME NEW f \in SecondFields, NEW i \in memory[<<v, f>>][m]
      PROVE  IF i.field \in SecondFields THEN i.mode = m
             ELSE \E m1, m2 \in Parents : m1 + m2 = m /\ i.mode \in {m1, -m1, m2, -m2}
  <2>1. f \in Fields /\ Place(f) = 9
    BY FieldKinds DEF Fields
  <2>2. i \in Input /\ Origin(9, m, i)
    BY <1>0, <1>3, <2>1, VectorInputs
  <2>3. i.field \in Fields /\ Place(i.field) \in 0 .. 9
    BY <2>2, PlaceType DEF Input
  <2>4. CASE Place(i.field) = 9 /\ i.mode = m
    BY <2>3, <2>4, FieldKinds
  <2>5. CASE Place(i.field) <= 7 /\ PairMode(m, i.mode)
    <3>1. i.field \notin SecondFields
      BY <2>3, <2>5, FieldKinds
    <3>2. PICK p \in Pairs(m) : i.mode \in {p[1], -p[1], p[2], -p[2]}
      BY <2>5 DEF PairMode
    <3>3. p[1] \in Parents /\ p[2] \in Parents /\ p[1] + p[2] = m
      BY DEF Pairs
    <3> QED
      BY <3>1, <3>2, <3>3
  <2> QED
    BY <2>2, <2>4, <2>5 DEF Origin
<1> QED
  BY <1>1, <1>2, <1>3

\* The coupling is one-way and keeps the azimuthal modes apart, in every slope
\* that a right-hand side has been evaluated into (evaluate_rhs_at_time): the
\* reconstruction adds its fields in the order of transport, the quadratic source
\* only what the pairs of a target have, and nothing flows back from the second
\* order to the first.
THEOREM CouplingIsOneWay == Spec => []OneWayCoupling
  BY QueueAlways, QueueCouples, PTL

\* Outside its band a slot is empty.
LEMMA QueueBands == QueueInv => BandsStayClosed
<1> SUFFICES ASSUME QueueInv, NEW v \in StageViews \cup OutputViews, NEW f \in Fields,
                    NEW m \in Modes \ (IF f \in SecondFields THEN Targets ELSE Parents)
             PROVE  memory[<<v, f>>][m] = {}
  BY DEF BandsStayClosed
<1>1. m \notin BandOf(f)
  BY DEF BandOf
<1> QED
  BY <1>1, VectorInputs

\* No evaluation feeds a mode that is not retained, whatever the lists of parents
\* and targets: the projections of evaluate_rhs_at_time remove what the transport
\* of U and the packed mirror images bring to other modes, and the combinations of
\* the Runge-Kutta step stay within the bands of their terms.
THEOREM BandsAreClosed == Spec => []BandsStayClosed
  BY QueueAlways, QueueBands, PTL

-----------------------------------------------------------------------------
(* One evaluation, one stage *)

\* Nobody but the device shortens the queue.
LEMMA OnlyExecuteTakes ==
  ASSUME QueueInv, [Next]_vars, queue # <<>>, queue' = Tail(queue)
  PROVE  Execute
<1>1. queue \in Seq(Tasks) /\ Len(queue) \in Nat /\ Len(queue) > 0
  BY DEF QueueInv, HostTypes
<1> HIDE DEF Tasks
<1>2. Len(queue') = Len(queue) - 1
  BY <1>1
<1>3. CASE Host
  <2>1. PICK tasks \in Seq(Tasks) : Launch(tasks)
    BY <1>3, HostStep DEF QueueInv
  <2>2. Len(queue') = Len(queue) + Len(tasks) /\ Len(tasks) \in Nat
    BY <1>1, <2>1 DEF Launch
  <2> QED
    BY <1>1, <1>2, <2>2
<1>4. CASE UNCHANGED vars
  <2>1. queue' = queue
    BY <1>4 DEF vars
  <2>2. Len(queue') = Len(queue)
    BY <2>1
  <2> QED
    BY <1>1, <1>2, <2>2
<1> QED
  BY <1>3, <1>4 DEF Next

LEMMA KnownIsOf ==
  ASSUME NEW mem, NEW view, NEW fields, NEW g, NEW rate,
         Known(mem, {view} \X fields, g, 0),
         \A f \in fields : Level(<<view, f>>, 0) = rate
  PROVE  IsOf(mem, view, fields, g, rate)
  BY DEF Known, IsOf

LEMMA KnownLess ==
  ASSUME NEW mem, NEW known, NEW less, NEW g, NEW shift,
         Known(mem, known, g, shift), less \subseteq known
  PROVE  Known(mem, less, g, shift)
  BY DEF Known

LEMMA ReadRates ==
  /\ \A v \in OutputViews, f \in Fields : Level(<<v, f>>, 0) = 1
  /\ \A f \in FirstFields \cup Daughters : Level(<<"tangentRhs", f>>, 0) = 2
  /\ \A f \in {"Psi3Bianchi", "Psi2Bianchi", "HllReality"} :
       Level(<<"independentConstraints", f>>, 0) = 0
  /\ \A f \in {"SourceOverR3", "Forcing"} : Level(<<"outer", f>>, 0) = 0
  /\ \A f \in Daughters : Level(<<"radial", f>>, 0) = 0
  /\ \A f \in AngularSlots : Level(<<"angular", f>>, 0) = 0
<1>1. \A v \in OutputViews, f \in Fields : Level(<<v, f>>, 0) = 1
  BY DEF Level, OutputViews
<1>2. \A f \in FirstFields \cup Daughters : Level(<<"tangentRhs", f>>, 0) = 2
  BY DEF Level, OutputViews
<1>3. \A f \in {"Psi3Bianchi", "Psi2Bianchi", "HllReality"} :
        Level(<<"independentConstraints", f>>, 0) = 0
  BY DEF Level, OutputViews
<1>4. \A f \in {"SourceOverR3", "Forcing"} : Level(<<"outer", f>>, 0) = 0
  BY DEF Level, OutputViews
<1>5. \A f \in Daughters : Level(<<"radial", f>>, 0) = 0
  BY DEF Level, OutputViews, Daughters
<1>6. \A f \in AngularSlots : Level(<<"angular", f>>, 0) = 0
  BY DEF Level, OutputViews, AngularSlots
<1> QED
  BY <1>1, <1>2, <1>3, <1>4, <1>5, <1>6

\* What the host reads after an evaluation.
LEMMA LeavesReads ==
  ASSUME NEW mem, NEW new, NEW in, NEW out \in OutputViews, NEW disabled, NEW g,
         Leaves(mem, new, in, out, disabled, g)
  PROVE  /\ IsOf(new, out, Fields, g, 1)
         /\ ~disabled =>
              /\ IsOf(new, "tangentRhs", FirstFields \cup Daughters, g, 2)
              /\ IsOf(new, "independentConstraints",
                      {"Psi3Bianchi", "Psi2Bianchi", "HllReality"}, g, 0)
              /\ IsOf(new, "outer", {"SourceOverR3", "Forcing"}, g, 0)
              /\ IsOf(new, "radial", Daughters, g, 0)
              /\ IsOf(new, "angular", AngularSlots, g, 0)
<1>1. IsOf(new, out, Fields, g, 1)
  BY KnownIsOf, ReadRates DEF Leaves
<1>2. ASSUME ~disabled
      PROVE  /\ Known(new, {"tangentRhs"} \X (FirstFields \cup Daughters), g, 0)
             /\ Known(new, {"independentConstraints"} \X
                        {"Psi3Bianchi", "Psi2Bianchi", "HllReality"}, g, 0)
             /\ Known(new, {"outer"} \X {"SourceOverR3", "Forcing"}, g, 0)
             /\ Known(new, {"radial"} \X Daughters, g, 0)
             /\ Known(new, {"angular"} \X AngularSlots, g, 0)
  <2>1. Known(new, ReadSlots, g, 0)
    BY <1>2 DEF Leaves
  <2>2. /\ {"tangentRhs"} \X (FirstFields \cup Daughters) \subseteq ReadSlots
        /\ {"independentConstraints"} \X {"Psi3Bianchi", "Psi2Bianchi", "HllReality"}
             \subseteq ReadSlots
        /\ {"outer"} \X {"SourceOverR3", "Forcing"} \subseteq ReadSlots
        /\ {"radial"} \X Daughters \subseteq ReadSlots
        /\ {"angular"} \X AngularSlots \subseteq ReadSlots
    BY DEF ReadSlots
  <2> QED
    BY <2>1, <2>2, KnownLess
<1>3. ASSUME ~disabled
      PROVE  /\ IsOf(new, "tangentRhs", FirstFields \cup Daughters, g, 2)
             /\ IsOf(new, "independentConstraints",
                     {"Psi3Bianchi", "Psi2Bianchi", "HllReality"}, g, 0)
             /\ IsOf(new, "outer", {"SourceOverR3", "Forcing"}, g, 0)
             /\ IsOf(new, "radial", Daughters, g, 0)
             /\ IsOf(new, "angular", AngularSlots, g, 0)
  BY <1>2, <1>3, KnownIsOf, ReadRates
<1> QED
  BY <1>1, <1>3

\* "Stage-local construction", for every step of the device: an evaluation leaves
\* in the slope, in the second time derivatives, in the constraint residuals and
\* in the forcing nothing but what was computed from the one stage view it was
\* given, each quantity with its own number of time derivatives, although all
\* evaluations share the buffers (evaluate_rhs_at_time).
THEOREM EvaluationsAreStageLocal == Spec => EvaluationIsOfItsStage
<1> DEFINE stageLocal ==
      ExecutesRhs =>
        /\ IsOf(memory', Head(queue).out, Fields, holds[Head(queue).in], 1)
        /\ policy.mode # "Disabled" =>
             /\ IsOf(memory', "tangentRhs", FirstFields \cup Daughters,
                     holds[Head(queue).in], 2)
             /\ IsOf(memory', "independentConstraints",
                     {"Psi3Bianchi", "Psi2Bianchi", "HllReality"},
                     holds[Head(queue).in], 0)
             /\ IsOf(memory', "outer", {"SourceOverR3", "Forcing"},
                     holds[Head(queue).in], 0)
<1>1. QueueInv /\ [Next]_vars => stageLocal
  <2> SUFFICES ASSUME QueueInv, [Next]_vars, ExecutesRhs PROVE stageLocal
    OBVIOUS
  <2> DEFINE t == Head(queue)
  <2>1. Execute /\ t.task = "rhs" /\ t \in Tasks
    BY OnlyExecuteTakes, HeadTask DEF ExecutesRhs, QueueInv
  <2> HIDE DEF t, Tasks
  <2>2. ExecuteRhs(t)
    BY <2>1 DEF Execute, ExecuteForm, ExecuteAccumulate, ExecuteSync, t
  <2>3. /\ Leaves(memory, memory', t.in, t.out, policy.mode = "Disabled", holds[t.in])
        /\ t.in \in StageViews /\ t.out \in OutputViews
    BY <2>1, <2>2, RhsStep
  <2>4. /\ IsOf(memory', t.out, Fields, holds[t.in], 1)
        /\ policy.mode # "Disabled" =>
             /\ IsOf(memory', "tangentRhs", FirstFields \cup Daughters, holds[t.in], 2)
             /\ IsOf(memory', "independentConstraints",
                     {"Psi3Bianchi", "Psi2Bianchi", "HllReality"}, holds[t.in], 0)
             /\ IsOf(memory', "outer", {"SourceOverR3", "Forcing"}, holds[t.in], 0)
    BY <2>3, LeavesReads
  <2> QED
    BY <2>4 DEF t
<1>2. QueueInv /\ [Next]_vars => [stageLocal]_vars
  BY <1>1
<1> QED
  BY <1>2, QueueAlways, PTL DEF Spec, EvaluationIsOfItsStage

-----------------------------------------------------------------------------
(* What an evaluation does not lose, and what the latch makes of the forcing *)

LEMMA RunThen ==
  ASSUME NEW mem, NEW list, IsList(list), NEW kernel
  PROVE  IsList(list \o <<kernel>>) /\ Run(mem, list \o <<kernel>>) = After(Run(mem, list), kernel)
<1> DEFINE last == <<kernel>>
           half == Run(mem, list)
<1>1. IsList(last) /\ Run(half, last) = After(half, kernel)
  BY RunOne
<1> HIDE DEF last
<1>2. IsList(list \o last) /\ Run(mem, list \o last) = Run(half, last)
  BY <1>1, RunConcat, ConcatList
<1> QED
  BY <1>1, <1>2 DEF last

LEMMA RunTwo ==
  ASSUME NEW mem, NEW a, NEW b
  PROVE  IsList(<<a, b>>) /\ Run(mem, <<a, b>>) = After(After(mem, a), b)
<1> DEFINE p == <<a>>
<1>1. IsList(p) /\ Run(mem, p) = After(mem, a)
  BY RunOne
<1> HIDE DEF p
<1>2. IsList(p \o <<b>>) /\ Run(mem, p \o <<b>>) = After(Run(mem, p), b)
  BY <1>1, RunThen
<1>3. <<a, b>> = p \o <<b>>
  BY ListOfTwo, Zenon DEF p
<1> QED
  BY <1>1, <1>2, <1>3, Zenon

LEMMA RunThree ==
  ASSUME NEW mem, NEW a, NEW b, NEW c
  PROVE  IsList(<<a, b, c>>) /\ Run(mem, <<a, b, c>>) = After(Run(mem, <<a, b>>), c)
<1> DEFINE p == <<a, b>>
<1>1. IsList(p)
  BY RunTwo
<1> HIDE DEF p
<1>2. IsList(p \o <<c>>) /\ Run(mem, p \o <<c>>) = After(Run(mem, p), c)
  BY <1>1, RunThen
<1>3. <<a, b, c>> = p \o <<c>>
  BY ListOfThree, Zenon DEF p
<1> QED
  BY <1>2, <1>3, Zenon DEF p

LEMMA RunFour ==
  ASSUME NEW mem, NEW a, NEW b, NEW c, NEW d
  PROVE  IsList(<<a, b, c, d>>) /\ Run(mem, <<a, b, c, d>>) = After(Run(mem, <<a, b, c>>), d)
<1> DEFINE p == <<a, b, c>>
<1>1. IsList(p)
  BY RunThree
<1> HIDE DEF p
<1>2. IsList(p \o <<d>>) /\ Run(mem, p \o <<d>>) = After(Run(mem, p), d)
  BY <1>1, RunThen
<1>3. <<a, b, c, d>> = p \o <<d>>
  BY ListOfFour, Zenon DEF p
<1> QED
  BY <1>2, <1>3, Zenon DEF p

\* Where a kernel runs, what it reads at the mode gets into the slot.
LEMMA OwnArrives ==
  ASSUME NEW mem, NEW kernel, NEW r \in kernel.results, r.slot \in Slots,
         NEW v, NEW f, Own(v, f) \in r.from,
         NEW m \in Modes, m \in kernel.on, mem[<<v, f>>][m] # {}
  PROVE  After(mem, kernel)[r.slot][m] # {}
<1>1. PICK j : j \in mem[<<v, f>>][m]
  OBVIOUS
<1> DEFINE q == Own(v, f)
<1>2. q.slot = <<v, f>> /\ m \in q.at[m]
  BY DEF Own, Read
<1> HIDE DEF q
<1>3. q \in r.from
  BY DEF q
<1>4. r.slot \in Written(kernel)
  BY DEF Written
<1>5. \E p \in r.from : \E n \in p.at[m] : \E i \in mem[p.slot][n] :
        Brought(j, q, r) = Brought(i, p, r)
  BY <1>1, <1>2, <1>3
<1>6. Brought(j, q, r) \in After(mem, kernel)[r.slot][m]
  BY <1>4, <1>5, AfterWritten
<1> QED
  BY <1>6

\* The first-order slope has the state in it.
LEMMA FirstOrderAlive ==
  ASSUME NEW in \in StageViews, NEW out \in OutputViews, NEW mem, NEW m \in Parents,
         mem[<<in, "FirstP">>][m] # {}
  PROVE  Run(mem, FirstOrder(in, out, "First", "firstScratch"))[<<out, "FirstP">>][m] # {}
<1> DEFINE scratch == "firstScratch"
           lap == Kernel(Parents, {To("linearAngular", "First", {Own(in, "FirstPsi")})})
           k1 == Everywhere({
                   To(scratch, "DrPsi", {Own(in, "FirstPsi")}),
                   To(scratch, "EffectiveQ", {Own(in, "FirstPsi"), Own(in, "FirstQ")})})
           k2 == Everywhere({
                   To(scratch, "DrQ", {Own(scratch, "EffectiveQ")}),
                   RateTo(scratch, "PsiVelocity",
                          {Own(in, "FirstP"), Own(scratch, "EffectiveQ"), Own(in, "FirstPsi")})})
           slope == RateTo(out, "FirstP",
                      {Own(in, "FirstP"), Own(scratch, "EffectiveQ"), Own(in, "FirstPsi"),
                       Own(scratch, "DrQ"), Own("linearAngular", "First"),
                       Own("outer", "ZeroForcing")})
           k3 == Everywhere({
                   To(scratch, "DrPsiVelocity", {Own(scratch, "PsiVelocity")}),
                   slope,
                   RateTo(out, "FirstQ", {Rate(scratch, "PsiVelocity"), Own(in, "FirstQ"),
                                          Own(scratch, "DrPsi")}),
                   RateTo(out, "FirstPsi", {Rate(scratch, "PsiVelocity"), Own(in, "FirstPsi")})})
           k4 == Kernel(Parents, {To(out, f, {Own(out, f)}) :
                                    f \in {"FirstP", "FirstQ", "FirstPsi"}})
<1>1. FirstOrder(in, out, "First", scratch) = <<lap>> \o <<k1, k2, k3, k4>>
  BY DEF FirstOrder, Laplacian, Teukolsky, Project
<1> DEFINE m0 == After(mem, lap)
           m1 == After(m0, k1)
           m2 == After(m1, k2)
           m3 == After(m2, k3)
           m4 == After(m3, k4)
           s == <<in, "FirstP">>
           d == <<out, "FirstP">>
<1>2. s \in Slots /\ d \in Slots /\ m \in Modes /\ in # out
  <2>1. "FirstP" \in Fields /\ in \in Vectors /\ out \in Vectors
    BY DEF Fields, FirstFields, Vectors
  <2> QED
    BY <2>1, VectorSlots, RegistryAssumption DEF Holds, StageViews, OutputViews
<1>3. s \notin Written(lap) /\ s \notin Written(k1) /\ s \notin Written(k2)
  BY DEF Written, Kernel, Everywhere, To, RateTo, StageViews
<1>4. slope \in k3.results /\ k3.on = Modes /\ slope.slot = d
      /\ Own(in, "FirstP") \in slope.from
  BY DEF Everywhere, Kernel, RateTo
<1>5. k4.on = Parents
  BY DEF Kernel
<1> DEFINE last == To(out, "FirstP", {Own(out, "FirstP")})
<1>6. last \in k4.results /\ last.slot = d /\ Own(out, "FirstP") \in last.from
  BY DEF Kernel, To
<1>7. Run(mem, <<lap>> \o <<k1, k2, k3, k4>>) = m4
  <2> HIDE DEF lap, k1, k2, k3, k4
  <2>1. Run(mem, <<lap>>) = m0 /\ IsList(<<lap>>) /\ IsList(<<k1, k2, k3, k4>>)
    BY RunOne, RunFour
  <2>2. Run(mem, <<lap>> \o <<k1, k2, k3, k4>>) = Run(m0, <<k1, k2, k3, k4>>)
    <3> DEFINE p == <<lap>>
               q == <<k1, k2, k3, k4>>
    <3>1. Run(mem, p) = m0 /\ IsList(p) /\ IsList(q)
      BY <2>1
    <3> HIDE DEF p, q
    <3>2. Run(mem, p \o q) = Run(m0, q)
      BY <3>1, RunConcat
    <3> QED
      BY <3>2 DEF p, q
  <2>3. Run(m0, <<k1, k2, k3, k4>>) = m4
    <3> HIDE DEF m0
    <3>1. Run(m0, <<k1, k2>>) = m2
      BY RunTwo
    <3>2. Run(m0, <<k1, k2, k3>>) = After(Run(m0, <<k1, k2>>), k3)
      BY RunThree
    <3>3. Run(m0, <<k1, k2, k3, k4>>) = After(Run(m0, <<k1, k2, k3>>), k4)
      BY RunFour
    <3> QED
      BY <3>1, <3>2, <3>3, Zenon
  <2> QED
    BY <2>2, <2>3
<1> HIDE DEF lap, k1, k2, k3, k4, slope, last
<1>8. m0[s] = mem[s] /\ m1[s] = m0[s] /\ m2[s] = m1[s]
  BY <1>2, <1>3, AfterElsewhere
<1>9. m2[<<in, "FirstP">>][m] # {}
  BY <1>8
<1> HIDE DEF m0, m1, m2
<1>10. m3[d][m] # {}
  <2>1. After(m2, k3)[slope.slot][m] # {}
    BY <1>2, <1>4, <1>9, OwnArrives
  <2> QED
    BY <1>4, <2>1
<1> HIDE DEF m3
<1>11. m4[d][m] # {}
  <2>1. m3[<<out, "FirstP">>][m] # {}
    BY <1>10
  <2>2. After(m3, k4)[last.slot][m] # {}
    BY <1>2, <1>5, <1>6, <2>1, OwnArrives
  <2> QED
    BY <1>6, <2>2
<1> QED
  BY <1>1, <1>7, <1>11

\* Only the first-order kernels write the first field of a slope.
LEMMA FirstIsWrittenOnce ==
  ASSUME NEW out \in OutputViews
  PROVE  /\ <<out, "FirstP">> \in Slots
         /\ <<out, "FirstP">> \notin SourcedSlots(out)
         /\ <<out, "FirstP">> \notin {out} \X (Fields \ FirstFields)
<1> DEFINE s == <<out, "FirstP">>
<1>0. s \in Slots
  BY VectorSlots DEF Holds, Vectors, Fields, FirstFields
<1>1. /\ out # "tangentRhs"
      /\ out \notin Scratches \cup RadialViews \cup AngularViews
      /\ out \notin {"linearAngular", "sharpWork", "independentAngular",
                     "independentConstraints", "extra", "extraTangent", "sourceFields",
                     "sourceFieldTangents", "sourceDerivatives", "sourceDerivativeTangents",
                     "inner", "innerTangent", "projected", "projectedTangent", "outer"}
      /\ "FirstP" \notin SecondFields /\ "FirstP" \notin Daughters /\ "FirstP" \in FirstFields
  BY DEF OutputViews, Scratches, RadialViews, AngularViews, SecondFields, Daughters, FirstFields
<1>2. /\ s \notin FirstSlots("tangentRhs", "FirstTangent", "tangentScratch")
      /\ s \notin SecondSlots(out)
  BY <1>1 DEF FirstSlots, SecondSlots, TeukolskySlots, Scratches
<1>3. /\ s \notin ReconstructionSlots(out, "radial", "angular")
      /\ s \notin ReconstructionSlots("tangentRhs", "tangentRadial", "tangentAngular")
  BY <1>1 DEF ReconstructionSlots, Packed, RadialViews, AngularViews
<1>4. /\ s \notin ConstraintSlots /\ s \notin ExtraOf
      /\ s \notin InnerSlots /\ s \notin OuterSlots
      /\ s # <<"outer", "Forcing">>
  BY <1>1 DEF ConstraintSlots, ExtraOf, InnerSlots, OuterSlots
<1>5. s \notin PrepareSlots
  BY <1>1 DEF PrepareSlots, PreparedSlots
<1> QED
  BY <1>0, <1>1, <1>2, <1>3, <1>4, <1>5 DEF SourcedSlots

\* A first field that is not zero has a slope that is not zero.
LEMMA EvaluationAlive ==
  ASSUME NEW in \in StageViews, NEW out \in OutputViews, NEW active, NEW disabled \in BOOLEAN,
         NEW mem, NEW g, Sound(mem, {}), Known(mem, {in} \X Fields, g, 0),
         NEW m \in Parents, mem[<<in, "FirstP">>][m] # {}
  PROVE  Run(mem, Evaluation(in, out, disabled, active))[<<out, "FirstP">>][m] # {}
<1> DEFINE L1 == FirstOrder(in, out, "First", "firstScratch")
           half == Run(mem, L1)
           s == <<out, "FirstP">>
           W1 == FirstSlots(out, "First", "firstScratch")
           K0 == {in} \X Fields
<1>1. half[s][m] # {}
  BY FirstOrderAlive
<1>2. /\ IsList(L1) /\ Sound(half, {})
      /\ Known(half, K0 \cup W1, g, 0)
  <2>1. Makes(L1, K0, W1, 0, {})
    BY FirstMakes
  <2> HIDE DEF L1, K0, W1
  <2> QED
    BY <2>1 DEF Makes, K0
<1> HIDE DEF L1, half, K0, W1
<1>3. CASE disabled
  <2> DEFINE k == Kernel({}, {To(out, f, {}) : f \in Fields \ FirstFields})
  <2>1. Evaluation(in, out, TRUE, active) = L1 \o <<k>>
    BY DEF Evaluation, Freeze, L1
  <2>2. s \notin Written(k) /\ s \in Slots
    BY FirstIsWrittenOnce DEF Written, Kernel, To
  <2> HIDE DEF k
  <2>3. Run(mem, L1 \o <<k>>) = After(half, k)
    BY <1>2, RunThen DEF half
  <2>4. After(half, k)[s] = half[s]
    BY <2>2, AfterElsewhere
  <2>5. disabled = TRUE
    BY <1>3
  <2> QED
    BY <1>1, <2>1, <2>3, <2>4, <2>5
<1>4. CASE ~disabled
  <2>1. PICK front, known, written, last :
          SourcedAs(in, out, active, front, known, written, last)
    BY SourcedParts
  <2> DEFINE R == ((front \o OuterSource) \o ApplyActivation(active)) \o SecondOrder(in, out)
  <2>2. /\ Evaluation(in, out, FALSE, active) = L1 \o R
        /\ Turns(R, K0 \cup W1, last, SourcedSlots(out))
    BY <2>1, Zenon DEF SourcedAs, L1, K0, W1
  <2> HIDE DEF R
  <2>3. IsList(R) /\ Same(half, Run(half, R), SourcedSlots(out))
    BY <1>2, <2>2 DEF Turns
  <2>4. Run(mem, L1 \o R) = Run(half, R)
    BY <1>2, <2>3, RunConcat DEF half
  <2>5. Run(half, R)[s] = half[s]
    BY <2>3, FirstIsWrittenOnce DEF Same
  <2>6. disabled = FALSE
    BY <1>4
  <2> QED
    BY <1>1, <2>2, <2>4, <2>5, <2>6
<1> QED
  BY <1>3, <1>4

\* The forcing is computed as the source that is reported.
LEMMA OuterTwins ==
  ASSUME NEW mem, NEW m \in Modes
  PROVE  Run(mem, OuterSource)[<<"outer", "Forcing">>][m] =
           Run(mem, OuterSource)[<<"outer", "SourceOverR3">>][m]
<1> DEFINE factors == {Own("projected", "D"), Rate("projectedTangent", "D"),
                       Own("projected", "T"), Own("outer", "EthPrimeT")}
           k1 == Kernel(Targets,
                   {To("projected", c, {Own("inner", c)}) : c \in {"D", "T"}} \cup
                   {To("projectedTangent", c, {Own("innerTangent", c)}) : c \in {"D", "T"}})
           k2 == Kernel(Targets, {Eth("projected", "T", "projectedTangent", "T",
                                      "outer", "EthPrimeT")})
           c1 == To("outer", "SourceOverR3", factors)
           c2 == To("outer", "Forcing", factors)
           k3 == Everywhere({c1, c2})
           s1 == <<"outer", "SourceOverR3">>
           s2 == <<"outer", "Forcing">>
<1>1. OuterSource = <<k1, k2, k3>>
  BY DEF OuterSource
<1>2. /\ k3.results = {c1, c2} /\ c1.slot = s1 /\ c2.slot = s2 /\ s1 # s2
      /\ c1.from = factors /\ c2.from = factors /\ c1.raise = 0 /\ c2.raise = 0
  BY DEF Everywhere, Kernel, To
<1>3. s1 \in Slots /\ s2 \in Slots
  BY DEF Slots
<1> HIDE DEF k1, k2, k3, c1, c2, s1, s2, factors
<1>4. PICK half : Run(mem, OuterSource) = After(half, k3)
  <2> DEFINE p == <<k1, k2>>
  <2>1. IsList(p)
    BY RunTwo
  <2>2. OuterSource = p \o <<k3>>
    BY <1>1, ListOfThree, Zenon DEF p
  <2> HIDE DEF p, OuterSource
  <2>3. Run(mem, p \o <<k3>>) = After(Run(mem, p), k3)
    BY <2>1, RunThen
  <2> QED
    BY <2>2, <2>3
<1>5. s1 \in Written(k3) /\ s2 \in Written(k3)
  BY <1>2 DEF Written
<1>6. \A j, q : Brought(j, q, c1) = Brought(j, q, c2)
  BY <1>2 DEF Brought
<1>7. ASSUME NEW i
      PROVE  i \in After(half, k3)[s1][m] <=> i \in After(half, k3)[s2][m]
  <2>1. i \in After(half, k3)[s1][m] <=>
          /\ m \in k3.on
          /\ \E q \in factors : \E n \in q.at[m] : \E j \in half[q.slot][n] :
               i = Brought(j, q, c1)
    BY <1>2, <1>3, <1>5, AfterWritten
  <2>2. i \in After(half, k3)[s2][m] <=>
          /\ m \in k3.on
          /\ \E q \in factors : \E n \in q.at[m] : \E j \in half[q.slot][n] :
               i = Brought(j, q, c2)
    BY <1>2, <1>3, <1>5, AfterWritten
  <2> QED
    BY <1>6, <2>1, <2>2
<1>8. After(half, k3)[s1][m] = After(half, k3)[s2][m]
  BY <1>7
<1> QED
  BY <1>4, <1>8 DEF s1, s2

\* The latch keeps the forcing, or makes it zero, and touches nothing else.
LEMMA ActivationForces ==
  ASSUME NEW active \in BOOLEAN, NEW mem, Sound(mem, {}), NEW m \in Modes
  PROVE  /\ Run(mem, ApplyActivation(active))[<<"outer", "Forcing">>][m] =
              IF active THEN mem[<<"outer", "Forcing">>][m] ELSE {}
         /\ Run(mem, ApplyActivation(active))[<<"outer", "SourceOverR3">>] =
              mem[<<"outer", "SourceOverR3">>]
<1> DEFINE on == IF active THEN Modes ELSE {}
           s == <<"outer", "Forcing">>
           q == Own("outer", "Forcing")
           r == To("outer", "Forcing", {q})
           k == Kernel(on, {r})
           new == After(mem, k)
<1>1. Run(mem, ApplyActivation(active)) = new
  <2>1. ApplyActivation(active) = <<k>>
    BY DEF ApplyActivation
  <2> HIDE DEF k
  <2> QED
    BY <2>1, RunOne
<1>2. /\ k.on = on /\ k.results = {r} /\ r.slot = s /\ r.from = {q} /\ r.raise = 0
      /\ q.slot = s /\ q.at[m] = {m} /\ q.rate = 0
  BY DEF Kernel, To, Own, Read
<1>3. s \in Slots /\ <<"outer", "SourceOverR3">> \in Slots /\ s # <<"outer", "SourceOverR3">>
  BY DEF Slots
<1>4. m \in on <=> active
  OBVIOUS
<1> HIDE DEF on, s, q, r, k, new
<1>5. Written(k) = {s}
  BY <1>2 DEF Written
<1>6. new[<<"outer", "SourceOverR3">>] = mem[<<"outer", "SourceOverR3">>]
  BY <1>3, <1>5, AfterElsewhere DEF new
<1>7. ASSUME NEW j \in mem[s][m] PROVE Brought(j, q, r) = j
  <2>1. j \in Input
    BY <1>3 DEF Sound
  <2> QED
    BY <1>2, <2>1 DEF Brought, Input
<1>8. \A i : i \in new[s][m] <=> active /\ i \in mem[s][m]
  <2>1. \A i : i \in new[s][m] <=>
          m \in on /\ \E j \in mem[s][m] : i = Brought(j, q, r)
    BY <1>2, <1>3, <1>5, AfterWritten DEF new
  <2> QED
    BY <1>4, <1>7, <2>1
<1>9. new[s][m] = IF active THEN mem[s][m] ELSE {}
  <2>1. CASE active
    BY <1>8, <2>1
  <2>2. CASE ~active
    BY <1>8, <2>2
  <2> QED
    BY <2>1, <2>2
<1> QED
  BY <1>1, <1>6, <1>9 DEF s

\* The forcing is the source, or zero where the latch is open.
ForcedBy(mem, active) ==
  \A m \in Modes :
    mem[<<"outer", "Forcing">>][m] =
      IF active THEN mem[<<"outer", "SourceOverR3">>][m] ELSE {}

\* After an evaluation the forcing is as the latch was when the evaluation was
\* launched.
LEMMA EvaluationForces ==
  ASSUME NEW in \in StageViews, NEW out \in OutputViews, NEW active \in BOOLEAN,
         NEW mem, NEW g, Sound(mem, {}), Known(mem, {in} \X Fields, g, 0),
         NEW disabled \in BOOLEAN, ~disabled
  PROVE  ForcedBy(Run(mem, Evaluation(in, out, disabled, active)), active)
<1> SUFFICES ASSUME NEW m \in Modes, NEW new, new = Run(mem, Evaluation(in, out, disabled, active))
             PROVE  new[<<"outer", "Forcing">>][m] =
                      IF active THEN new[<<"outer", "SourceOverR3">>][m] ELSE {}
  BY Zenon DEF ForcedBy
<1> DEFINE L1 == FirstOrder(in, out, "First", "firstScratch")
           half == Run(mem, L1)
           W1 == FirstSlots(out, "First", "firstScratch")
           K0 == {in} \X Fields
           s1 == <<"outer", "SourceOverR3">>
           s2 == <<"outer", "Forcing">>
<1>1. /\ IsList(L1) /\ Sound(half, {})
      /\ Known(half, K0 \cup W1, g, 0)
  <2>1. Makes(L1, K0, W1, 0, {})
    BY FirstMakes
  <2> HIDE DEF L1, K0, W1
  <2> QED
    BY <2>1 DEF Makes, K0
<1> HIDE DEF L1, half, K0, W1
<1>2. PICK front, known, written, last :
        SourcedAs(in, out, active, front, known, written, last)
  BY SourcedParts
<1> DEFINE A == front \o OuterSource
           B == ApplyActivation(active)
           C == SecondOrder(in, out)
           K1 == known \cup {s2}
<1>3. /\ Evaluation(in, out, FALSE, active) = L1 \o ((A \o B) \o C)
      /\ IsList(front)
      /\ Turns(A, K0 \cup W1, known, written)
      /\ Makes(B, known, {s2}, 1, {})
      /\ Makes(C, K1, SecondSlots(out), 1, {})
  BY <1>2, Zenon DEF SourcedAs, L1, K0, W1
<1>4. IsList(OuterSource)
  BY RunThree DEF OuterSource
<1>5. Run(half, A) = Run(Run(half, front), OuterSource)
  BY <1>3, <1>4, RunConcat
<1> HIDE DEF A, B, C, K1
<1>6. IsList(A) /\ IsList(B) /\ IsList(C)
  BY <1>3 DEF Turns, Makes
<1>7. IsList(A \o B) /\ IsList((A \o B) \o C)
  BY <1>6, ConcatList
<1> DEFINE m1 == Run(half, A)
           m2 == Run(m1, B)
           m3 == Run(m2, C)
<1>8. Run(mem, L1 \o ((A \o B) \o C)) = m3
  <2>1. Run(mem, L1 \o ((A \o B) \o C)) = Run(half, (A \o B) \o C)
    BY <1>1, <1>7, RunConcat DEF half
  <2>2. Run(half, (A \o B) \o C) = Run(Run(half, A \o B), C)
    BY <1>6, <1>7, RunConcat
  <2>3. Run(half, A \o B) = m2
    BY <1>6, RunConcat
  <2> QED
    BY <2>1, <2>2, <2>3
<1>9. Sound(m1, {}) /\ Known(m1, known, g, 1)
  BY <1>1, <1>3 DEF Turns
<1>10. m1[s2][m] = m1[s1][m]
  BY <1>5, OuterTwins
<1> HIDE DEF m1
<1>11. /\ m2[s2][m] = IF active THEN m1[s2][m] ELSE {}
       /\ m2[s1] = m1[s1]
  BY <1>9, ActivationForces DEF B
<1>12. Sound(m2, {}) /\ Known(m2, K1, g, 1)
  BY <1>3, <1>9 DEF Makes, K1
<1> HIDE DEF m2
<1>13. Same(m2, m3, SecondSlots(out))
  BY <1>3, <1>12 DEF Makes
<1> HIDE DEF m3
<1>14. s1 \in Slots \ SecondSlots(out) /\ s2 \in Slots \ SecondSlots(out)
  BY DEF Slots, SecondSlots, TeukolskySlots, OutputViews
<1>15. m3[s1] = m2[s1] /\ m3[s2] = m2[s2]
  BY <1>13, <1>14 DEF Same
<1>16. m3[s2][m] = IF active THEN m3[s1][m] ELSE {}
  BY <1>10, <1>11, <1>15
<1>17. new = m3
  <2>0. disabled = FALSE
    OBVIOUS
  <2>1. new = Run(mem, Evaluation(in, out, FALSE, active))
    BY <2>0, Zenon
  <2> QED
    BY <1>3, <1>8, <2>1
<1> QED
  BY <1>16, <1>17

-----------------------------------------------------------------------------
(* The four stages.  Each task has a place in the sequence that a substep     *)
(* launches; what is in the queue follows on, and the device is where its     *)
(* head is.                                                                  *)

\* The place a task is executed at, and the one it leaves the device at.
Enters(t) ==
  IF t.task = "rhs"
  THEN IF t.out = "k2" THEN 2 ELSE IF t.out = "k3" THEN 4 ELSE IF t.out = "k4" THEN 6 ELSE 0
  ELSE IF t.task = "form"
  THEN IF t.k = "k1" THEN 1 ELSE IF t.k = "k2" THEN 3 ELSE 5
  ELSE IF t.task = "accumulate" THEN 7 ELSE 0
Goes(t) ==
  IF t.task \in {"accumulate", "sync"} \/ (t.task = "rhs" /\ t.out = "rhs") THEN 0
  ELSE Enters(t) + 1

\* The evaluations and combinations a pipeline launches.
Scripted(t) ==
  /\ t.task = "form" => t.k \in {"k1", "k2", "k3"}
  /\ t.task = "rhs" => t.in = IF t.out \in {"rhs", "k1"} THEN "state" ELSE "stage"

\* Where the device is.
First(q) == IF q = <<>> THEN 0 ELSE Enters(q[1])
\* What is in the queue follows on, to the end of a substep.
Chained(q) ==
  /\ \A i \in 1 .. Len(q) : Scripted(q[i])
  /\ \A i \in 1 .. Len(q) - 1 : Goes(q[i]) = Enters(q[i + 1])
  /\ Len(q) > 0 => Goes(q[Len(q)]) = 0

\* What follows on may be put behind, and what is left follows on.
LEMMA ChainedJoin ==
  ASSUME NEW S, NEW q \in Seq(S), NEW r \in Seq(S), Chained(q), Chained(r), First(r) = 0
  PROVE  Chained(q \o r) /\ First(q \o r) = First(q)
<1> DEFINE w == q \o r
<1>1. /\ Len(q) \in Nat /\ Len(r) \in Nat /\ w \in Seq(S)
      /\ Len(w) = Len(q) + Len(r)
      /\ \A i \in 1 .. Len(q) : w[i] = q[i]
      /\ \A i \in 1 .. Len(r) : w[Len(q) + i] = r[i]
      /\ (w = <<>> <=> Len(w) = 0) /\ (q = <<>> <=> Len(q) = 0) /\ (r = <<>> <=> Len(r) = 0)
  OBVIOUS
<1> HIDE DEF w
<1>2. ASSUME NEW i \in 1 .. Len(w), i > Len(q)
      PROVE  i - Len(q) \in 1 .. Len(r) /\ w[i] = r[i - Len(q)]
  <2>1. i - Len(q) \in 1 .. Len(r) /\ Len(q) + (i - Len(q)) = i
    BY <1>1, <1>2
  <2>2. w[Len(q) + (i - Len(q))] = r[i - Len(q)]
    BY <1>1, <2>1
  <2> QED
    BY <2>1, <2>2
<1>3. ASSUME NEW i \in 1 .. Len(w) PROVE Scripted(w[i])
  <2>1. CASE i <= Len(q)
    BY <1>1, <2>1 DEF Chained
  <2>2. CASE i > Len(q)
    BY <1>2, <2>2 DEF Chained
  <2> QED
    BY <1>1, <2>1, <2>2
<1>4. ASSUME NEW i \in 1 .. Len(w) - 1 PROVE Goes(w[i]) = Enters(w[i + 1])
  <2>1. CASE i < Len(q)
    <3>1. i \in 1 .. Len(q) - 1 /\ w[i] = q[i] /\ w[i + 1] = q[i + 1]
      BY <1>1, <2>1
    <3> QED
      BY <3>1 DEF Chained
  <2>2. CASE i = Len(q)
    <3>1. w[i] = q[Len(q)] /\ Len(q) > 0
      BY <1>1, <2>2
    <3>2. i + 1 \in 1 .. Len(w) /\ i + 1 > Len(q) /\ (i + 1) - Len(q) = 1 /\ r # <<>>
      BY <1>1, <2>2
    <3>3. w[i + 1] = r[1]
      BY <1>2, <3>2
    <3>4. Enters(r[1]) = 0
      BY <3>2 DEF First
    <3> QED
      BY <3>1, <3>3, <3>4 DEF Chained
  <2>3. CASE i > Len(q)
    <3> DEFINE k == i - Len(q)
    <3>1. w[i] = r[k] /\ k \in 1 .. Len(r)
      BY <1>1, <1>2, <2>3
    <3>2. i + 1 \in 1 .. Len(w) /\ i + 1 > Len(q) /\ (i + 1) - Len(q) = k + 1
      BY <1>1, <2>3
    <3>3. w[i + 1] = r[k + 1] /\ k + 1 \in 1 .. Len(r)
      BY <1>2, <3>2
    <3>4. k \in 1 .. Len(r) - 1
      BY <1>1, <3>1, <3>3
    <3> HIDE DEF k
    <3> QED
      BY <3>1, <3>3, <3>4 DEF Chained
  <2> QED
    BY <1>1, <2>1, <2>2, <2>3
<1>5. ASSUME Len(w) > 0 PROVE Goes(w[Len(w)]) = 0
  <2>1. CASE Len(r) = 0
    <3>1. Len(w) = Len(q) /\ w[Len(w)] = q[Len(q)] /\ Len(q) > 0
      BY <1>1, <1>5, <2>1
    <3> QED
      BY <3>1 DEF Chained
  <2>2. CASE Len(r) > 0
    <3>1. Len(w) \in 1 .. Len(w) /\ Len(w) > Len(q) /\ Len(w) - Len(q) = Len(r)
      BY <1>1, <2>2
    <3>2. w[Len(w)] = r[Len(r)]
      BY <1>2, <3>1
    <3> QED
      BY <2>2, <3>2 DEF Chained
  <2> QED
    BY <1>1, <2>1, <2>2
<1>6. First(w) = First(q)
  <2>1. CASE Len(q) > 0
    <3>1. w[1] = q[1] /\ Len(w) > 0
      BY <1>1, <2>1
    <3> QED
      BY <1>1, <2>1, <3>1 DEF First
  <2>2. CASE Len(q) = 0 /\ Len(r) > 0
    <3>1. 1 \in 1 .. Len(w) /\ 1 > Len(q) /\ 1 - Len(q) = 1
      BY <1>1, <2>2
    <3>2. w[1] = r[1] /\ w # <<>>
      BY <1>1, <1>2, <2>2, <3>1
    <3> QED
      BY <1>1, <2>2, <3>2 DEF First
  <2>3. CASE Len(q) = 0 /\ Len(r) = 0
    BY <1>1, <2>3 DEF First
  <2> QED
    BY <1>1, <2>1, <2>2, <2>3
<1>7. Chained(w)
  BY <1>3, <1>4, <1>5 DEF Chained
<1> QED
  BY <1>6, <1>7 DEF w

LEMMA ChainedTail ==
  ASSUME NEW S, NEW q \in Seq(S), Chained(q), q # <<>>
  PROVE  Chained(Tail(q)) /\ First(Tail(q)) = Goes(Head(q)) /\ Scripted(Head(q))
         /\ First(q) = Enters(Head(q))
<1> DEFINE w == Tail(q)
<1>1. /\ Len(q) \in Nat /\ Len(q) > 0 /\ w \in Seq(S) /\ Len(w) = Len(q) - 1
      /\ \A i \in 1 .. Len(w) : w[i] = q[i + 1]
      /\ Head(q) = q[1] /\ (w = <<>> <=> Len(w) = 0)
  <2>1. Len(q) \in Nat /\ Head(q) = q[1]
    OBVIOUS
  <2>2. Len(q) > 0
    BY <2>1, EmptySeq
  <2>3. /\ w \in Seq(S) /\ Len(w) = Len(q) - 1
        /\ \A i \in 1 .. Len(w) : w[i] = q[i + 1]
    BY HeadTailProperties
  <2> HIDE DEF w
  <2>4. w = <<>> <=> Len(w) = 0
    BY <2>3, EmptySeq
  <2> QED
    BY <2>1, <2>2, <2>3, <2>4
<1> HIDE DEF w
<1>2. \A i \in 1 .. Len(w) : Scripted(w[i])
  BY <1>1 DEF Chained
<1>3. ASSUME NEW i \in 1 .. Len(w) - 1 PROVE Goes(w[i]) = Enters(w[i + 1])
  <2>1. /\ w[i] = q[i + 1] /\ w[i + 1] = q[(i + 1) + 1] /\ i + 1 \in 1 .. Len(q) - 1
    BY <1>1
  <2> QED
    BY <2>1 DEF Chained
<1>4. Len(w) > 0 => Goes(w[Len(w)]) = 0
  <2>1. Len(w) > 0 => w[Len(w)] = q[Len(q)]
    BY <1>1
  <2> QED
    BY <1>1, <2>1 DEF Chained
<1>5. First(w) = Goes(Head(q))
  <2>1. CASE Len(w) = 0
    <3>1. Len(q) = 1
      BY <1>1, <2>1
    <3> QED
      BY <1>1, <2>1, <3>1 DEF First, Chained
  <2>2. CASE Len(w) > 0
    <3>1. w[1] = q[2] /\ 1 \in 1 .. Len(q) - 1 /\ 1 + 1 = 2
      BY <1>1, <2>2
    <3>2. Goes(q[1]) = Enters(q[2])
      BY <3>1 DEF Chained
    <3> QED
      BY <1>1, <2>2, <3>1, <3>2 DEF First
  <2> QED
    BY <1>1, <2>1, <2>2
<1>6. Chained(w)
  BY <1>2, <1>3, <1>4 DEF Chained
<1>7. Scripted(Head(q)) /\ First(q) = Enters(Head(q))
  BY <1>1 DEF Chained, First
<1> QED
  BY <1>5, <1>6, <1>7 DEF w

\* What the host launches follows on.
LEMMA LaunchedChained ==
  ASSUME NEW tasks \in Seq(Tasks), HostLaunches(tasks)
  PROVE  Chained(tasks) /\ First(tasks) = 0
<1>1. CASE tasks = <<>>
  BY <1>1 DEF Chained, First
<1>2. CASE tasks = <<Sync(TRUE)>>
  <2> DEFINE e == Sync(TRUE)
  <2>1. e.task = "sync"
    BY DEF Sync
  <2> HIDE DEF e
  <2>2. tasks = <<e>>
    BY <1>2 DEF e
  <2>3. Len(tasks) = 1 /\ tasks[1] = e /\ tasks # <<>>
    BY <2>2
  <2> QED
    BY <2>1, <2>3 DEF Chained, First, Scripted, Goes, Enters
<1>3. CASE tasks = <<Rhs("state", "rhs", activation.active)>>
  <2> DEFINE e == Rhs("state", "rhs", activation.active)
  <2>1. e.task = "rhs" /\ e.in = "state" /\ e.out = "rhs"
    BY DEF Rhs
  <2> HIDE DEF e
  <2>2. tasks = <<e>>
    BY <1>3 DEF e
  <2>3. Len(tasks) = 1 /\ tasks[1] = e /\ tasks # <<>>
    BY <2>2
  <2> QED
    BY <2>1, <2>3 DEF Chained, First, Scripted, Goes, Enters
<1>4. CASE tasks = RungeKutta(activation.active, target)
  <2> DEFINE q == RungeKutta(activation.active, target)
  <2>1. /\ Len(q) = 8 /\ q[1] = Rhs("state", "k1", activation.active)
        /\ q[2] = Form("k1") /\ q[3] = Rhs("stage", "k2", activation.active)
        /\ q[4] = Form("k2") /\ q[5] = Rhs("stage", "k3", activation.active)
        /\ q[6] = Form("k3") /\ q[7] = Rhs("stage", "k4", activation.active)
        /\ q[8] = Accumulate(target)
    BY RungeKuttaTasks
  <2> HIDE DEF q
  <2>2. /\ q[1].task = "rhs" /\ q[1].in = "state" /\ q[1].out = "k1"
        /\ q[3].task = "rhs" /\ q[3].in = "stage" /\ q[3].out = "k2"
        /\ q[5].task = "rhs" /\ q[5].in = "stage" /\ q[5].out = "k3"
        /\ q[7].task = "rhs" /\ q[7].in = "stage" /\ q[7].out = "k4"
        /\ q[2].task = "form" /\ q[2].k = "k1"
        /\ q[4].task = "form" /\ q[4].k = "k2"
        /\ q[6].task = "form" /\ q[6].k = "k3"
        /\ q[8].task = "accumulate"
    BY <2>1 DEF Rhs, Form, Accumulate
  <2>3. /\ Enters(q[1]) = 0 /\ Goes(q[1]) = 1 /\ Enters(q[2]) = 1 /\ Goes(q[2]) = 2
        /\ Enters(q[3]) = 2 /\ Goes(q[3]) = 3 /\ Enters(q[4]) = 3 /\ Goes(q[4]) = 4
        /\ Enters(q[5]) = 4 /\ Goes(q[5]) = 5 /\ Enters(q[6]) = 5 /\ Goes(q[6]) = 6
        /\ Enters(q[7]) = 6 /\ Goes(q[7]) = 7 /\ Enters(q[8]) = 7 /\ Goes(q[8]) = 0
    BY <2>2 DEF Enters, Goes
  <2>4. /\ Scripted(q[1]) /\ Scripted(q[2]) /\ Scripted(q[3]) /\ Scripted(q[4])
        /\ Scripted(q[5]) /\ Scripted(q[6]) /\ Scripted(q[7]) /\ Scripted(q[8])
    BY <2>2 DEF Scripted
  <2>5. ASSUME NEW i \in 1 .. 8 PROVE Scripted(q[i])
    <3>1. i \in {1, 2, 3, 4, 5, 6, 7, 8}
      OBVIOUS
    <3> QED
      BY <2>4, <3>1
  <2>6. ASSUME NEW i \in 1 .. 7 PROVE Goes(q[i]) = Enters(q[i + 1])
    <3>1. \/ (i = 1 /\ i + 1 = 2)
          \/ (i = 2 /\ i + 1 = 3)
          \/ (i = 3 /\ i + 1 = 4)
          \/ (i = 4 /\ i + 1 = 5)
          \/ (i = 5 /\ i + 1 = 6)
          \/ (i = 6 /\ i + 1 = 7)
          \/ (i = 7 /\ i + 1 = 8)
      OBVIOUS
    <3> QED
      BY <2>3, <3>1
  <2>7. Chained(q)
    <3>1. 8 - 1 = 7
      OBVIOUS
    <3> QED
      BY <2>1, <2>3, <2>5, <2>6, <3>1 DEF Chained
  <2>8. q # <<>>
    <3>1. Len(<<>>) = 0 /\ 8 # 0
      OBVIOUS
    <3>2. Len(q) = 8
      BY <2>1
    <3> QED
      BY <3>1, <3>2, Zenon
  <2>9. First(q) = 0
    BY <2>3, <2>8 DEF First
  <2> QED
    BY <1>4, <2>7, <2>9 DEF q
<1> QED
  BY <1>1, <1>2, <1>3, <1>4 DEF HostLaunches

-----------------------------------------------------------------------------
(* The four slopes.  A stage or the state has always something at the parents *)
(* - the pulse never becomes exactly zero as a set of inputs - so that what a *)
(* slope was computed from is one generation and not none.                    *)

\* The view has something at every parent.
Lively(mem, view) == \A m \in Parents : mem[<<view, "FirstP">>][m] # {}

LEMMA FillLives ==
  ASSUME QueueInv, Lively(memory, "state"), NEW view \in StageViews,
         NEW terms, terms \subseteq StageViews \cup OutputViews, "state" \in terms,
         Fill(view, terms)
  PROVE  Lively(memory', view)
<1>1. \A m \in Parents : memory[<<"state", "FirstP">>][m] # {}
  BY DEF Lively
<1>2. \A m \in Parents : memory'[<<view, "FirstP">>][m] # {}
  BY <1>1, FillStep
<1> QED
  BY <1>2 DEF Lively

LEMMA MadeAlike ==
  ASSUME NEW mem, NEW new, NEW k, \A f \in Fields : new[<<k, f>>] = mem[<<k, f>>]
  PROVE  Made(new, k) = Made(mem, k)
<1>1. \A i : i \in Given(new, k) <=> i \in Given(mem, k)
  BY GivenIs
<1>2. Given(new, k) = Given(mem, k)
  BY <1>1
<1> QED
  BY <1>2 DEF Made

LEMMA MadeOf ==
  ASSUME NEW mem, NEW k, NEW g, Known(mem, {k} \X Fields, g, 0), Lively(mem, k)
  PROVE  Made(mem, k) = {g}
<1> DEFINE all == Given(mem, k)
<1>1. ASSUME NEW i \in all PROVE i.generation = g
  <2>1. PICK f \in Fields, m \in Modes : i \in mem[<<k, f>>][m]
    BY GivenIs
  <2> QED
    BY <2>1 DEF Known
<1>2. \E i : i \in all
  <2>0. PICK m : m \in Parents
    BY RegistryAssumption
  <2>1. mem[<<k, "FirstP">>][m] # {}
    BY <2>0 DEF Lively
  <2>2. PICK i : i \in mem[<<k, "FirstP">>][m]
    BY <2>1
  <2>3. m \in Modes /\ "FirstP" \in Fields
    BY <2>0, RegistryAssumption DEF Fields, FirstFields
  <2> QED
    BY <2>2, <2>3, GivenIs
<1>3. Made(mem, k) = {i.generation : i \in all}
  BY DEF Made
<1> HIDE DEF all
<1>4. \A x : x \in {i.generation : i \in all} <=> x \in {g}
  BY <1>1, <1>2
<1> QED
  BY <1>3, <1>4

LEMMA SlopesDiffer ==
  /\ Slopes[1] = "k1" /\ Slopes[2] = "k2" /\ Slopes[3] = "k3" /\ Slopes[4] = "k4"
  /\ \A i \in 1 .. 4 : Slopes[i] \in OutputViews
  /\ \A i, j \in 1 .. 4 : i # j => Slopes[i] # Slopes[j]
<1>1. Slopes[1] = "k1" /\ Slopes[2] = "k2" /\ Slopes[3] = "k3" /\ Slopes[4] = "k4"
  BY DEF Slopes
<1>2. \A i \in 1 .. 4 : i = 1 \/ i = 2 \/ i = 3 \/ i = 4
  OBVIOUS
<1>3. \A i \in 1 .. 4 : Slopes[i] \in OutputViews
  BY <1>1, <1>2 DEF OutputViews
<1>4. \A i, j \in 1 .. 4 : i # j => Slopes[i] # Slopes[j]
  BY <1>1, <1>2
<1> QED
  BY <1>1, <1>3, <1>4

\* The stages formed so far, where the device is at place n.
Staged(mem, hs, formed, n) ==
  /\ n = 2 * Len(formed) \/ n = 2 * Len(formed) + 1
  /\ n >= 1 => Made(mem, "k1") = {hs["state"]}
  /\ n >= 2 => Lively(mem, "stage")
  /\ \A i \in 1 .. Len(formed) :
       /\ formed[i].from = Made(mem, Slopes[i])
       /\ 2 * i + 1 <= n => Made(mem, Slopes[i + 1]) = {formed[i].generation}
  /\ n >= 2 /\ n = 2 * Len(formed) => formed[Len(formed)].generation = hs["stage"]

Formed == [from: SUBSET Nat, generation: Nat]

\* The four kinds of progress: the first slope, a later one, a stage, and none.
LEMMA StagedFirst ==
  ASSUME NEW mem, NEW new, NEW hs, NEW formed \in Seq(Formed), Staged(mem, hs, formed, 0),
         Made(new, "k1") = {hs["state"]}
  PROVE  Staged(new, hs, formed, 1)
<1>1. Len(formed) \in Nat
  OBVIOUS
<1> DEFINE l == Len(formed)
<1>2. l = 0
  BY <1>1 DEF Staged
<1> HIDE DEF l
<1> QED
  BY <1>2 DEF Staged, l

LEMMA StagedSlope ==
  ASSUME NEW mem, NEW new, NEW hs, NEW formed \in Seq(Formed), NEW j \in 1 .. 3,
         Staged(mem, hs, formed, 2 * j),
         Made(new, Slopes[j + 1]) = {hs["stage"]},
         \A i \in (1 .. 4) \ {j + 1} : Made(new, Slopes[i]) = Made(mem, Slopes[i]),
         Lively(new, "stage")
  PROVE  Staged(new, hs, formed, 2 * j + 1)
<1>1. Len(formed) \in Nat
  OBVIOUS
<1>2. Len(formed) = j
  BY <1>1 DEF Staged
<1>3. formed[j].generation = hs["stage"]
  BY <1>2 DEF Staged
<1>4. Made(new, "k1") = {hs["state"]}
  <2>1. 1 \in (1 .. 4) \ {j + 1} /\ 2 * j >= 1
    OBVIOUS
  <2> QED
    BY <2>1, SlopesDiffer DEF Staged
<1>5. ASSUME NEW i \in 1 .. j
      PROVE  formed[i].from = Made(new, Slopes[i])
             /\ Made(new, Slopes[i + 1]) = {formed[i].generation}
  <2>1. i \in (1 .. 4) \ {j + 1}
    OBVIOUS
  <2>2. formed[i].from = Made(new, Slopes[i])
    BY <1>2, <2>1 DEF Staged
  <2>3. CASE i = j
    BY <1>3, <2>2, <2>3
  <2>4. CASE i # j
    <3>1. i + 1 \in (1 .. 4) \ {j + 1} /\ 2 * i + 1 <= 2 * j
      BY <2>4
    <3> QED
      BY <1>2, <2>2, <3>1 DEF Staged
  <2> QED
    BY <2>3, <2>4
<1> QED
  BY <1>2, <1>4, <1>5 DEF Staged

LEMMA StagedForm ==
  ASSUME NEW mem, NEW new, NEW hs, NEW now, NEW formed \in Seq(Formed), NEW j \in 1 .. 3,
         Staged(mem, hs, formed, 2 * j - 1), now["state"] = hs["state"],
         \A i \in 1 .. 4 : Made(new, Slopes[i]) = Made(mem, Slopes[i]),
         Lively(new, "stage"),
         NEW s \in Formed, s.from = Made(mem, Slopes[j]), s.generation = now["stage"]
  PROVE  Staged(new, now, Append(formed, s), 2 * j)
<1> DEFINE w == Append(formed, s)
<1>1. /\ Len(formed) \in Nat /\ Len(w) = Len(formed) + 1 /\ w[Len(formed) + 1] = s
      /\ \A i \in 1 .. Len(formed) : w[i] = formed[i]
  OBVIOUS
<1> HIDE DEF w, Formed
<1>2. Len(formed) = j - 1
  BY <1>1 DEF Staged
<1>3. Len(w) = j /\ w[j] = s
  BY <1>1, <1>2
<1>4. Made(new, "k1") = {now["state"]}
  <2>1. 1 \in 1 .. 4 /\ 2 * j - 1 >= 1
    OBVIOUS
  <2> QED
    BY <2>1, SlopesDiffer DEF Staged
<1>5. ASSUME NEW i \in 1 .. j
      PROVE  /\ w[i].from = Made(new, Slopes[i])
             /\ 2 * i + 1 <= 2 * j => Made(new, Slopes[i + 1]) = {w[i].generation}
  <2>1. CASE i = j
    <3>1. ~ (2 * i + 1 <= 2 * j) /\ i \in 1 .. 4
      BY <2>1
    <3> QED
      BY <1>3, <2>1, <3>1
  <2>2. CASE i # j
    <3>1. /\ i \in 1 .. 4 /\ i + 1 \in 1 .. 4 /\ i \in 1 .. Len(formed)
          /\ 2 * i + 1 <= 2 * j - 1
      BY <1>2, <2>2
    <3>2. w[i] = formed[i]
      BY <1>1, <3>1
    <3> QED
      BY <3>1, <3>2 DEF Staged
  <2> QED
    BY <2>1, <2>2
<1>6. Staged(new, now, w, 2 * j)
  BY <1>3, <1>4, <1>5 DEF Staged
<1> QED
  BY <1>6 DEF w

LEMMA StagedNone ==
  ASSUME NEW mem, NEW hs
  PROVE  Staged(mem, hs, <<>>, 0)
<1>1. Len(<<>>) = 0
  OBVIOUS
<1> QED
  BY <1>1 DEF Staged

LEMMA NoneStaged ==
  ASSUME NEW mem, NEW hs, NEW formed \in Seq(Formed), Staged(mem, hs, formed, 0)
  PROVE  formed = <<>>
<1>1. Len(formed) \in Nat /\ (Len(formed) = 0 => formed = <<>>)
  BY EmptySeq
<1>2. Len(formed) = 0
  BY <1>1 DEF Staged
<1> QED
  BY <1>1, <1>2

\* The invariant of the stages.
StageInv ==
  /\ Chained(queue)
  /\ Lively(memory, "state")
  /\ Staged(memory, holds, stages, First(queue))

LEMMA InitStages == Init => StageInv
<1> SUFFICES ASSUME Init PROVE StageInv
  OBVIOUS
<1>1. PICK fields \in {FirstFields, Fields} : memory = Loaded(fields)
  BY DEF Init
<1>2. Lively(memory, "state")
  BY <1>1, LoadedFits DEF Lively
<1>3. Len(<<>>) = 0
  OBVIOUS
<1>4. Chained(<<>>) /\ First(<<>>) = 0
  BY <1>3 DEF Chained, First
<1>5. Staged(memory, holds, <<>>, 0)
  BY StagedNone
<1> QED
  BY <1>2, <1>4, <1>5 DEF Init, StageInv

LEMMA HostStages ==
  ASSUME QueueInv, StageInv, Host
  PROVE  StageInv'
<1>1. UNCHANGED <<policy, device>> /\ \E tasks \in Seq(Tasks) : Launch(tasks) /\ HostLaunches(tasks)
  BY HostStep DEF QueueInv
<1>2. PICK tasks \in Seq(Tasks) : Launch(tasks) /\ HostLaunches(tasks)
  BY <1>1
<1>3. Chained(tasks) /\ First(tasks) = 0
  BY <1>2, LaunchedChained
<1>4. queue \in Seq(Tasks) /\ Chained(queue)
  BY DEF QueueInv, HostTypes, StageInv
<1> HIDE DEF Tasks
<1>5. Chained(queue \o tasks) /\ First(queue \o tasks) = First(queue)
  BY <1>3, <1>4, ChainedJoin
<1>6. queue' = queue \o tasks /\ UNCHANGED <<memory, holds, stages>>
  BY <1>1, <1>2 DEF Launch, device
<1> QED
  BY <1>5, <1>6 DEF StageInv

\* What an evaluation into a view leaves of the others.
LEMMA RhsMakes ==
  ASSUME QueueInv, StageInv, NEW t \in Tasks, ExecuteRhs(t), Scripted(t)
  PROVE  /\ \A k \in OutputViews \ {t.out} : Made(memory', k) = Made(memory, k)
         /\ \A v \in StageViews : Lively(memory, v) => Lively(memory', v)
         /\ Lively(memory, t.in) => Made(memory', t.out) = {holds[t.in]}
<1> DEFINE disabled == policy.mode = "Disabled"
<1>1. t.in \in StageViews /\ t.out \in OutputViews /\ t.active \in BOOLEAN
  BY TaskKinds DEF ExecuteRhs
<1>2. /\ disabled \in BOOLEAN
      /\ memory' = Run(memory, Evaluation(t.in, t.out, disabled, t.active))
  BY DEF ExecuteRhs
<1>3. Leaves(memory, memory', t.in, t.out, disabled, holds[t.in])
  BY RhsStep
<1>4. Sound(memory, {}) /\ Known(memory, {t.in} \X Fields, holds[t.in], 0)
  BY <1>1 DEF QueueInv, Fitted
<1> HIDE DEF disabled
<1>5. \A v \in (StageViews \cup OutputViews) \ {t.out}, f \in Fields :
        memory'[<<v, f>>] = memory[<<v, f>>]
  BY <1>3 DEF Leaves
<1>6. ASSUME NEW k \in OutputViews \ {t.out} PROVE Made(memory', k) = Made(memory, k)
  BY <1>5, MadeAlike
<1>7. ASSUME NEW v \in StageViews, Lively(memory, v) PROVE Lively(memory', v)
  <2>1. v # t.out /\ "FirstP" \in Fields
    BY <1>1 DEF StageViews, OutputViews, Fields, FirstFields
  <2> QED
    BY <1>5, <1>7, <2>1 DEF Lively
<1>8. ASSUME Lively(memory, t.in) PROVE Made(memory', t.out) = {holds[t.in]}
  <2>1. ASSUME NEW m \in Parents PROVE memory'[<<t.out, "FirstP">>][m] # {}
    <3>1. memory[<<t.in, "FirstP">>][m] # {}
      BY <1>8 DEF Lively
    <3> QED
      BY <1>1, <1>2, <1>4, <3>1, EvaluationAlive
  <2>2. Lively(memory', t.out)
    BY <2>1 DEF Lively
  <2>3. Known(memory', {t.out} \X Fields, holds[t.in], 0)
    BY <1>3 DEF Leaves
  <2> QED
    BY <2>2, <2>3, MadeOf
<1> QED
  BY <1>6, <1>7, <1>8

\* Each kind of task takes the device to its next place.
LEMMA RhsStages ==
  ASSUME QueueInv, StageInv, NEW t \in Tasks, ExecuteRhs(t), Scripted(t),
         Staged(memory, holds, stages, Enters(t))
  PROVE  Lively(memory', "state") /\ Staged(memory', holds', stages', Goes(t))
<1>1. stages' = stages /\ holds' = holds /\ stages \in Seq(Formed) /\ t.task = "rhs"
  BY DEF ExecuteRhs, QueueInv, DeviceTypes, Formed
<1>2. t.out \in OutputViews /\ "state" \in StageViews /\ "stage" \in StageViews
  BY RhsStep DEF StageViews
<1>3. Lively(memory, "state") /\ Lively(memory', "state")
  BY <1>2, RhsMakes DEF StageInv
<1> HIDE DEF Formed, Tasks
<1>4. CASE t.out = "rhs"
  <2>1. Enters(t) = 0 /\ Goes(t) = 0
    BY <1>1, <1>4 DEF Enters, Goes
  <2>2. stages = <<>>
    BY <1>1, <2>1, NoneStaged
  <2>3. Staged(memory', holds, <<>>, 0)
    BY StagedNone
  <2> QED
    BY <1>1, <1>3, <2>1, <2>2, <2>3
<1>5. CASE t.out = "k1"
  <2>1. Enters(t) = 0 /\ Goes(t) = 1 /\ t.in = "state"
    BY <1>1, <1>5 DEF Enters, Goes, Scripted
  <2>2. Made(memory', "k1") = {holds["state"]}
    BY <1>3, <1>5, <2>1, RhsMakes
  <2>3. Staged(memory', holds, stages, 1)
    BY <1>1, <2>1, <2>2, StagedFirst
  <2> QED
    BY <1>1, <1>3, <2>1, <2>3
<1>6. ASSUME NEW j \in 1 .. 3, t.out = Slopes[j + 1], Enters(t) = 2 * j,
             Goes(t) = 2 * j + 1, t.in = "stage"
      PROVE  Staged(memory', holds, stages, 2 * j + 1)
  <2>1. Staged(memory, holds, stages, 2 * j)
    BY <1>6
  <2>2. Lively(memory, "stage")
    <3>1. 2 * j >= 2
      OBVIOUS
    <3> QED
      BY <2>1, <3>1 DEF Staged
  <2>3. Lively(memory', "stage")
    BY <1>2, <2>2, RhsMakes
  <2>4. Made(memory', Slopes[j + 1]) = {holds["stage"]}
    BY <1>6, <2>2, RhsMakes
  <2>5. ASSUME NEW i \in (1 .. 4) \ {j + 1} PROVE Made(memory', Slopes[i]) = Made(memory, Slopes[i])
    <3>1. i \in 1 .. 4 /\ j + 1 \in 1 .. 4 /\ i # j + 1
      OBVIOUS
    <3>2. Slopes[i] \in OutputViews \ {t.out}
      BY <1>6, <3>1, SlopesDiffer
    <3> QED
      BY <3>2, RhsMakes
  <2> QED
    BY <1>1, <2>1, <2>3, <2>4, <2>5, StagedSlope
<1>7. ASSUME t.out \in {"k2", "k3", "k4"}
      PROVE  \E j \in 1 .. 3 : /\ t.out = Slopes[j + 1] /\ Enters(t) = 2 * j
                               /\ Goes(t) = 2 * j + 1 /\ t.in = "stage"
  <2>0. /\ Slopes[1 + 1] = "k2" /\ Slopes[2 + 1] = "k3" /\ Slopes[3 + 1] = "k4"
        /\ 2 * 1 = 2 /\ 2 * 2 = 4 /\ 2 * 3 = 6
    BY SlopesDiffer
  <2>1. t.in = "stage"
    BY <1>1, <1>7 DEF Scripted
  <2>2. CASE t.out = "k2"
    <3>1. Enters(t) = 2 /\ Goes(t) = 2 + 1
      BY <1>1, <2>2 DEF Enters, Goes
    <3>2. 1 \in 1 .. 3
      OBVIOUS
    <3> QED
      BY <2>0, <2>1, <2>2, <3>1, <3>2
  <2>3. CASE t.out = "k3"
    <3>1. Enters(t) = 4 /\ Goes(t) = 4 + 1
      BY <1>1, <2>3 DEF Enters, Goes
    <3>2. 2 \in 1 .. 3
      OBVIOUS
    <3> QED
      BY <2>0, <2>1, <2>3, <3>1, <3>2
  <2>4. CASE t.out = "k4"
    <3>1. Enters(t) = 6 /\ Goes(t) = 6 + 1
      BY <1>1, <2>4 DEF Enters, Goes
    <3>2. 3 \in 1 .. 3
      OBVIOUS
    <3> QED
      BY <2>0, <2>1, <2>4, <3>1, <3>2
  <2> QED
    BY <1>7, <2>2, <2>3, <2>4
<1>8. CASE t.out \in {"k2", "k3", "k4"}
  <2>1. PICK j \in 1 .. 3 : /\ t.out = Slopes[j + 1] /\ Enters(t) = 2 * j
                            /\ Goes(t) = 2 * j + 1 /\ t.in = "stage"
    BY <1>7, <1>8
  <2>2. Staged(memory', holds, stages, 2 * j + 1)
    BY <1>6, <2>1
  <2> QED
    BY <1>1, <1>3, <2>1, <2>2
<1> QED
  BY <1>2, <1>4, <1>5, <1>8 DEF OutputViews

LEMMA FormStages ==
  ASSUME QueueInv, StageInv, NEW t \in Tasks, ExecuteForm(t), Scripted(t),
         Staged(memory, holds, stages, Enters(t))
  PROVE  Lively(memory', "state") /\ Staged(memory', holds', stages', Goes(t))
<1> DEFINE s == [from |-> Generations(t.k), generation |-> holds'["stage"]]
<1>1. /\ t.task = "form" /\ t.k \in {"k1", "k2", "k3"} /\ t.k \in OutputViews
      /\ Fill("stage", {"state", t.k}) /\ stages' = Append(stages, s)
      /\ "state" \in StageViews /\ "stage" \in StageViews
      /\ {"state", t.k} \subseteq StageViews \cup OutputViews
      /\ stages \in Seq(Formed)
  BY TaskKinds DEF ExecuteForm, Scripted, StageViews, QueueInv, DeviceTypes, Formed
<1>2. PICK j \in 1 .. 3 : t.k = Slopes[j] /\ Enters(t) = 2 * j - 1 /\ Goes(t) = 2 * j
  <2>1. /\ 2 * 1 = 2 /\ 2 * 2 = 4 /\ 2 * 3 = 6 /\ 1 + 1 = 2 /\ 3 + 1 = 4 /\ 5 + 1 = 6
        /\ 2 - 1 = 1 /\ 4 - 1 = 3 /\ 6 - 1 = 5
    OBVIOUS
  <2>2. CASE t.k = "k1"
    <3>1. Enters(t) = 1 /\ Goes(t) = 1 + 1
      BY <1>1, <2>2 DEF Enters, Goes
    <3>2. 1 \in 1 .. 3
      OBVIOUS
    <3> QED
      BY <2>1, <2>2, <3>1, <3>2, SlopesDiffer
  <2>3. CASE t.k = "k2"
    <3>1. Enters(t) = 3 /\ Goes(t) = 3 + 1
      BY <1>1, <2>3 DEF Enters, Goes
    <3>2. 2 \in 1 .. 3
      OBVIOUS
    <3> QED
      BY <2>1, <2>3, <3>1, <3>2, SlopesDiffer
  <2>4. CASE t.k = "k3"
    <3>1. Enters(t) = 5 /\ Goes(t) = 5 + 1
      BY <1>1, <2>4 DEF Enters, Goes
    <3>2. 3 \in 1 .. 3
      OBVIOUS
    <3> QED
      BY <2>1, <2>4, <3>1, <3>2, SlopesDiffer
  <2> QED
    BY <1>1, <2>2, <2>3, <2>4
<1>3. /\ Same(memory, memory', {"stage"} \X Fields)
      /\ holds' \in [StageViews -> Nat]
      /\ \A v \in StageViews \ {"stage"} : holds'[v] = holds[v]
      /\ Lively(memory', "stage")
  <2>1. Lively(memory, "state")
    BY DEF StageInv
  <2>2. Lively(memory', "stage")
    BY <1>1, <2>1, FillLives
  <2> QED
    BY <1>1, <2>2, FillStep
<1>4. holds'["state"] = holds["state"] /\ "state" # "stage"
  BY <1>1, <1>3
<1>5. \A v \in OutputViews \cup {"state"}, f \in Fields : memory'[<<v, f>>] = memory[<<v, f>>]
  <2>1. \A v \in OutputViews \cup {"state"}, f \in Fields :
          <<v, f>> \in Slots /\ <<v, f>> \notin {"stage"} \X Fields
    BY VectorSlots DEF Holds, Vectors, OutputViews, StageViews
  <2> QED
    BY <1>3, <2>1 DEF Same
<1>6. Lively(memory', "state")
  <2>1. "FirstP" \in Fields
    BY DEF Fields, FirstFields
  <2> QED
    BY <1>5, <2>1 DEF StageInv, Lively
<1>7. \A i \in 1 .. 4 : Made(memory', Slopes[i]) = Made(memory, Slopes[i])
  BY <1>5, SlopesDiffer, MadeAlike
<1>8. Generations(t.k) = Made(memory, Slopes[j]) /\ Generations(t.k) \subseteq Nat
  <2>1. Sound(memory, {})
    BY DEF QueueInv, Fitted
  <2> QED
    BY <1>1, <1>2, <2>1, MadeHere, GenerationsType
<1>9. s \in Formed /\ s.from = Made(memory, Slopes[j]) /\ s.generation = holds'["stage"]
  BY <1>1, <1>3, <1>8 DEF Formed
<1> HIDE DEF s, Formed, Tasks
<1>10. Staged(memory', holds', Append(stages, s), 2 * j)
  BY <1>1, <1>2, <1>3, <1>4, <1>7, <1>9, StagedForm
<1> QED
  BY <1>1, <1>2, <1>6, <1>10

LEMMA AccumulateStages ==
  ASSUME QueueInv, StageInv, NEW t, ExecuteAccumulate(t)
  PROVE  Lively(memory', "state") /\ Staged(memory', holds', stages', 0)
<1>1. /\ {"state"} \cup Range(Slopes) \subseteq StageViews \cup OutputViews
      /\ "state" \in StageViews
  BY SlopeViews DEF StageViews
<1>2. Fill("state", {"state"} \cup Range(Slopes)) /\ stages' = <<>>
  BY DEF ExecuteAccumulate
<1>3. Lively(memory', "state")
  <2>1. Lively(memory, "state")
    BY DEF StageInv
  <2>2. "state" \in {"state"} \cup Range(Slopes)
    OBVIOUS
  <2> QED
    BY <1>1, <1>2, <2>1, <2>2, FillLives
<1>4. Staged(memory', holds', <<>>, 0)
  BY StagedNone
<1> QED
  BY <1>2, <1>3, <1>4

LEMMA ExecuteStages ==
  ASSUME QueueInv, StageInv, Execute
  PROVE  StageInv'
<1> DEFINE t == Head(queue)
<1>1. queue \in Seq(Tasks) /\ queue # <<>> /\ t \in Tasks /\ queue' = Tail(queue)
  BY HeadTask DEF QueueInv, HostTypes, Execute
<1>2. ExecuteRhs(t) \/ ExecuteForm(t) \/ ExecuteAccumulate(t) \/ ExecuteSync(t)
  BY DEF Execute
<1> HIDE DEF t, Tasks
<1>3. /\ Chained(queue') /\ First(queue') = Goes(t) /\ Scripted(t)
      /\ First(queue) = Enters(t)
  BY <1>1, ChainedTail DEF StageInv, t
<1>4. Lively(memory, "state") /\ Staged(memory, holds, stages, Enters(t))
  BY <1>3 DEF StageInv
<1>5. Lively(memory', "state") /\ Staged(memory', holds', stages', Goes(t))
  <2>1. CASE ExecuteRhs(t)
    BY <1>1, <1>3, <1>4, <2>1, RhsStages
  <2>2. CASE ExecuteForm(t)
    BY <1>1, <1>3, <1>4, <2>2, FormStages
  <2>3. CASE ExecuteAccumulate(t)
    <3>1. Goes(t) = 0
      BY <2>3 DEF ExecuteAccumulate, Goes
    <3> QED
      BY <2>3, <3>1, AccumulateStages
  <2>4. CASE ExecuteSync(t)
    <3>1. Goes(t) = 0 /\ Enters(t) = 0
      BY <2>4 DEF ExecuteSync, Goes, Enters
    <3> QED
      BY <1>4, <2>4, <3>1 DEF ExecuteSync
  <2> QED
    BY <1>2, <2>1, <2>2, <2>3, <2>4
<1> QED
  BY <1>3, <1>5 DEF StageInv

LEMMA NextStages == QueueInv /\ StageInv /\ [Next]_vars => StageInv'
<1> SUFFICES ASSUME QueueInv, StageInv, [Next]_vars PROVE StageInv'
  OBVIOUS
<1>1. CASE Host
  BY <1>1, HostStages
<1>2. CASE Execute
  BY <1>2, ExecuteStages
<1>3. CASE UNCHANGED vars
  BY <1>3 DEF StageInv, vars, device
<1> QED
  BY <1>1, <1>2, <1>3 DEF Next

LEMMA StagesAreClassical == QueueInv /\ StageInv => ClassicalStages
<1> SUFFICES ASSUME QueueInv, StageInv, queue # <<>>, Head(queue).task = "accumulate"
             PROVE  /\ Generations("k1") = {holds["state"]}
                    /\ Len(stages) = 3
                    /\ \A i \in 1 .. 3 :
                         /\ stages[i].from = Generations(Slopes[i])
                         /\ Generations(Slopes[i + 1]) = {stages[i].generation}
  BY DEF ClassicalStages
<1> DEFINE t == Head(queue)
<1>1. First(queue) = 7
  <2>1. queue \in Seq(Tasks) /\ Chained(queue)
    BY DEF QueueInv, HostTypes, StageInv
  <2> HIDE DEF Tasks
  <2>2. First(queue) = Enters(t)
    BY <2>1, ChainedTail
  <2> QED
    BY <2>2 DEF Enters
<1>2. Staged(memory, holds, stages, 7)
  BY <1>1 DEF StageInv
<1>3. Len(stages) \in Nat
  BY DEF QueueInv, DeviceTypes
<1>4. Len(stages) = 3
  <2> DEFINE l == Len(stages)
  <2>1. l \in Nat /\ (7 = 2 * l \/ 7 = 2 * l + 1)
    BY <1>2, <1>3 DEF Staged
  <2> HIDE DEF l
  <2>2. l = 3
    BY <2>1
  <2> QED
    BY <2>2 DEF l
<1>5. ASSUME NEW i \in 1 .. 3
      PROVE  /\ stages[i].from = Made(memory, Slopes[i])
             /\ Made(memory, Slopes[i + 1]) = {stages[i].generation}
  <2>1. 2 * i + 1 <= 7
    OBVIOUS
  <2> QED
    BY <1>2, <1>4, <2>1 DEF Staged
<1>6. Made(memory, "k1") = {holds["state"]}
  BY <1>2 DEF Staged
<1> QED
  BY <1>4, <1>5, <1>6, MadeHere

LEMMA StagesAlways == Spec => [](QueueInv /\ StageInv)
<1>1. Init => QueueInv /\ StageInv
  BY InitQueue, InitStages
<1>2. QueueInv /\ StageInv /\ [Next]_vars => (QueueInv /\ StageInv)'
  BY NextQueue, NextStages
<1> QED
  BY <1>1, <1>2, PTL DEF Spec

\* device_classical_rk4_step is the classical scheme on one buffer: when the
\* state is accumulated its first slope is its own, and every other slope that of
\* the stage formed from the slope before it.
THEOREM StagesFollowEachOther == Spec => []ClassicalStages
  BY StagesAlways, StagesAreClassical, PTL

-----------------------------------------------------------------------------
(* The host ahead of the device.  Executing what is in the queue takes the    *)
(* device to the host's time and to the host's latch.                         *)

\* The time a state is accumulated for, or the flag that is told.
Value(t) == IF t.task = "accumulate" THEN t.to ELSE t.active

\* The last task of this kind has the final value; without one, the start has.
Ends(q, kind, start, final) ==
  /\ (\A i \in 1 .. Len(q) : q[i].task # kind) => start = final
  /\ \A i \in 1 .. Len(q) :
       /\ q[i].task = kind
       /\ \A j \in 1 .. Len(q) : j > i => q[j].task # kind
       => Value(q[i]) = final

\* What is launched behind goes on from where the queue ends; executing the head
\* goes there from where the device is.
LEMMA EndsJoin ==
  ASSUME NEW S, NEW q \in Seq(S), NEW r \in Seq(S), NEW kind, NEW start, NEW middle, NEW final,
         Ends(q, kind, start, middle), Ends(r, kind, middle, final)
  PROVE  Ends(q \o r, kind, start, final)
<1> DEFINE w == q \o r
<1>1. /\ Len(q) \in Nat /\ Len(r) \in Nat
      /\ Len(w) = Len(q) + Len(r)
      /\ \A i \in 1 .. Len(q) : w[i] = q[i]
      /\ \A i \in 1 .. Len(r) : w[Len(q) + i] = r[i]
  OBVIOUS
<1> HIDE DEF w
<1>2. \A i \in 1 .. Len(q) : i \in 1 .. Len(w)
  BY <1>1
<1>3. \A i \in 1 .. Len(r) : Len(q) + i \in 1 .. Len(w)
  BY <1>1
<1>4. ASSUME \A i \in 1 .. Len(w) : w[i].task # kind PROVE start = final
  <2>1. \A i \in 1 .. Len(q) : q[i].task # kind
    BY <1>1, <1>2, <1>4
  <2>2. \A i \in 1 .. Len(r) : r[i].task # kind
    BY <1>1, <1>3, <1>4
  <2> QED
    BY <2>1, <2>2 DEF Ends
<1>5. ASSUME NEW i \in 1 .. Len(w), w[i].task = kind,
             \A j \in 1 .. Len(w) : j > i => w[j].task # kind
      PROVE  Value(w[i]) = final
  <2>1. CASE i <= Len(q)
    <3>1. i \in 1 .. Len(q) /\ w[i] = q[i]
      BY <1>1, <2>1
    <3>2. ASSUME NEW j \in 1 .. Len(q), j > i PROVE q[j].task # kind
      BY <1>1, <1>2, <1>5, <3>2
    <3>3. Value(q[i]) = middle
      BY <1>5, <3>1, <3>2 DEF Ends
    <3>4. ASSUME NEW j \in 1 .. Len(r) PROVE r[j].task # kind
      <4>1. Len(q) + j \in 1 .. Len(w) /\ Len(q) + j > i /\ w[Len(q) + j] = r[j]
        BY <1>1, <1>3, <3>1
      <4> QED
        BY <1>5, <4>1
    <3>5. middle = final
      BY <3>4 DEF Ends
    <3> QED
      BY <3>1, <3>3, <3>5
  <2>2. CASE i > Len(q)
    <3>0. PICK k \in 1 .. Len(r) : i = Len(q) + k
      <4>1. i - Len(q) \in 1 .. Len(r) /\ i = Len(q) + (i - Len(q))
        BY <1>1, <2>2
      <4> QED
        BY <4>1
    <3>1. w[i] = r[k]
      BY <1>1, <3>0
    <3>2. ASSUME NEW j \in 1 .. Len(r), j > k PROVE r[j].task # kind
      <4>1. Len(q) + j \in 1 .. Len(w) /\ Len(q) + j > i /\ w[Len(q) + j] = r[j]
        BY <1>1, <1>3, <3>0, <3>2
      <4> QED
        BY <1>5, <4>1
    <3>3. Value(r[k]) = final
      BY <1>5, <3>1, <3>2 DEF Ends
    <3> QED
      BY <3>1, <3>3
  <2> QED
    BY <1>1, <2>1, <2>2
<1>6. Ends(w, kind, start, final)
  BY <1>4, <1>5 DEF Ends
<1> QED
  BY <1>6 DEF w

LEMMA EndsTail ==
  ASSUME NEW S, NEW q \in Seq(S), q # <<>>, NEW kind, NEW start, NEW final,
         Ends(q, kind, start, final)
  PROVE  Ends(Tail(q), kind,
              IF Head(q).task = kind THEN Value(Head(q)) ELSE start, final)
<1> DEFINE w == Tail(q)
           t == Head(q)
           next == IF t.task = kind THEN Value(t) ELSE start
<1>1. /\ Len(q) \in Nat /\ Len(q) > 0 /\ Len(w) = Len(q) - 1
      /\ \A i \in 1 .. Len(w) : w[i] = q[i + 1]
      /\ t = q[1]
  <2>1. Len(q) \in Nat /\ t = q[1]
    OBVIOUS
  <2>2. Len(q) > 0
    BY <2>1, EmptySeq
  <2>3. /\ Len(w) = Len(q) - 1
        /\ \A i \in 1 .. Len(w) : w[i] = q[i + 1]
    BY HeadTailProperties
  <2> QED
    BY <2>1, <2>2, <2>3
<1> HIDE DEF w, t
<1>2. 1 \in 1 .. Len(q)
  BY <1>1
<1>3. ASSUME NEW j \in 1 .. Len(q), j > 1
      PROVE  j - 1 \in 1 .. Len(w) /\ w[j - 1] = q[j]
  <2>1. j - 1 \in 1 .. Len(w) /\ (j - 1) + 1 = j
    BY <1>1, <1>3
  <2> QED
    BY <1>1, <2>1
<1>4. ASSUME \A i \in 1 .. Len(w) : w[i].task # kind PROVE next = final
  <2>1. \A j \in 1 .. Len(q) : j > 1 => q[j].task # kind
    BY <1>3, <1>4
  <2>2. CASE t.task = kind
    <3>1. Value(q[1]) = final
      BY <1>1, <1>2, <2>1, <2>2 DEF Ends
    <3> QED
      BY <1>1, <2>2, <3>1
  <2>3. CASE t.task # kind
    <3>1. \A j \in 1 .. Len(q) : j = 1 \/ j > 1
      BY <1>1
    <3>2. start = final
      BY <1>1, <2>1, <2>3, <3>1 DEF Ends
    <3> QED
      BY <2>3, <3>2
  <2> QED
    BY <2>2, <2>3
<1> HIDE DEF next
<1>5. ASSUME NEW i \in 1 .. Len(w), w[i].task = kind,
             \A j \in 1 .. Len(w) : j > i => w[j].task # kind
      PROVE  Value(w[i]) = final
  <2>1. i + 1 \in 1 .. Len(q) /\ w[i] = q[i + 1]
    BY <1>1
  <2>2. ASSUME NEW j \in 1 .. Len(q), j > i + 1 PROVE q[j].task # kind
    <3>1. j > 1 /\ j - 1 > i
      BY <2>2
    <3>2. j - 1 \in 1 .. Len(w) /\ w[j - 1] = q[j]
      BY <1>3, <3>1
    <3> QED
      BY <1>5, <3>1, <3>2
  <2>3. Value(q[i + 1]) = final
    BY <1>5, <2>1, <2>2 DEF Ends
  <2> QED
    BY <2>1, <2>3
<1>6. Ends(w, kind, next, final)
  BY <1>4, <1>5 DEF Ends
<1> QED
  BY <1>6 DEF w, t, next

LEMMA EndsNone ==
  ASSUME NEW kind, NEW start, NEW final
  PROVE  Ends(<<>>, kind, start, final) <=> start = final
<1>1. \A i : i \notin 1 .. Len(<<>>)
  <2>1. Len(<<>>) = 0
    OBVIOUS
  <2>2. 1 .. 0 = {}
    OBVIOUS
  <2> QED
    BY <2>1, <2>2
<1> QED
  BY <1>1, Zenon DEF Ends

LEMMA EndsOne ==
  ASSUME NEW e, NEW kind, NEW start, NEW final,
         IF e.task = kind THEN Value(e) = final ELSE start = final
  PROVE  Ends(<<e>>, kind, start, final)
<1> DEFINE w == <<e>>
<1>1. Len(w) = 1 /\ w[1] = e
  OBVIOUS
<1> HIDE DEF w
<1>2. \A i \in 1 .. Len(w) : i = 1
  BY <1>1
<1>3. 1 \in 1 .. Len(w)
  BY <1>1
<1>4. Ends(w, kind, start, final)
  BY <1>1, <1>2, <1>3 DEF Ends
<1> QED
  BY <1>4 DEF w

\* A whole substep ends at its target and tells no flag.
LEMMA EndsSubstep ==
  ASSUME NEW active, NEW to, NEW start
  PROVE  /\ Ends(RungeKutta(active, to), "accumulate", start, to)
         /\ Ends(RungeKutta(active, to), "sync", start, start)
<1> DEFINE q == RungeKutta(active, to)
<1>1. /\ Len(q) = 8 /\ q[1] = Rhs("state", "k1", active)
      /\ q[2] = Form("k1") /\ q[3] = Rhs("stage", "k2", active)
      /\ q[4] = Form("k2") /\ q[5] = Rhs("stage", "k3", active)
      /\ q[6] = Form("k3") /\ q[7] = Rhs("stage", "k4", active)
      /\ q[8] = Accumulate(to)
  BY RungeKuttaTasks
<1> HIDE DEF q
<1>2. /\ q[1].task = "rhs" /\ q[3].task = "rhs" /\ q[5].task = "rhs" /\ q[7].task = "rhs"
      /\ q[2].task = "form" /\ q[4].task = "form" /\ q[6].task = "form"
      /\ q[8].task = "accumulate" /\ Value(q[8]) = to
  BY <1>1 DEF Rhs, Form, Accumulate, Value
<1>3. \A i \in 1 .. 8 : i = 1 \/ i = 2 \/ i = 3 \/ i = 4 \/ i = 5 \/ i = 6 \/ i = 7 \/ i = 8
  OBVIOUS
<1>4. /\ \A i \in 1 .. 8 : q[i].task # "sync"
      /\ \A i \in 1 .. 8 : q[i].task = "accumulate" => i = 8
      /\ 8 \in 1 .. 8
  BY <1>2, <1>3
<1>5. Ends(q, "accumulate", start, to)
  BY <1>1, <1>2, <1>4 DEF Ends
<1>6. Ends(q, "sync", start, start)
  BY <1>1, <1>4 DEF Ends
<1> QED
  BY <1>5, <1>6 DEF q

\* While the host waits, what it waits for is last in the queue, and then done.
Awaited == Rhs("state", "rhs", activation.active)
AwaitInv ==
  pc \in Reading =>
    \/ queue = <<>> /\ BuffersAreOfTheState
    \/ queue # <<>> /\ queue[Len(queue)] = Awaited

\* Without a source nothing is ever in its buffers.
NothingRead == \A s \in ReadSlots : \A m \in Modes : memory[s][m] = {}
QuietInv == policy.mode = "Disabled" => NothingRead

\* The invariant of the reads.
ReadInv ==
  /\ Ends(queue, "accumulate", reached, time)
  /\ Ends(queue, "sync", sourceActive, activation.active)
  /\ AwaitInv
  /\ QuietInv

LEMMA InitReads == Init => ReadInv
<1> SUFFICES ASSUME Init PROVE ReadInv
  OBVIOUS
<1>1. PICK fields \in {FirstFields, Fields} : memory = Loaded(fields)
  BY DEF Init
<1>2. \A s \in ReadSlots : s \in Slots /\ s[1] # "state"
  BY ReadAreSlots DEF ReadSlots
<1>3. QuietInv
  BY <1>1, <1>2, LoadedFits DEF QuietInv, NothingRead
<1>4. AwaitInv
  BY DEF Init, AwaitInv, Reading, Measuring
<1>5. queue = <<>> /\ reached = time /\ sourceActive = activation.active
  BY DEF Init
<1>6. Ends(<<>>, "accumulate", reached, time)
  BY <1>5, EndsNone
<1>7. Ends(<<>>, "sync", sourceActive, activation.active)
  BY <1>5, EndsNone
<1> QED
  BY <1>3, <1>4, <1>5, <1>6, <1>7 DEF ReadInv

\* What the host launches takes the device from the old time and latch to the new.
LEMMA LaunchEnds ==
  ASSUME NEW tasks, HostLaunches(tasks)
  PROVE  /\ Ends(tasks, "accumulate", time, time')
         /\ Ends(tasks, "sync", activation.active, activation'.active)
<1>1. CASE tasks = <<>> /\ activation'.active = activation.active /\ time' = time
  BY <1>1, EndsNone
<1>2. CASE tasks = <<Sync(TRUE)>> /\ activation'.active = TRUE /\ time' = time
  <2> DEFINE e == Sync(TRUE)
  <2>1. e.task = "sync" /\ Value(e) = TRUE /\ e.task # "accumulate"
    BY DEF Sync, Value
  <2> HIDE DEF e
  <2>2. Ends(<<e>>, "accumulate", time, time')
    BY <1>2, <2>1, EndsOne
  <2>3. Ends(<<e>>, "sync", activation.active, activation'.active)
    <3>1. IF e.task = "sync" THEN Value(e) = activation'.active
          ELSE activation.active = activation'.active
      BY <1>2, <2>1, Zenon
    <3> QED
      BY <3>1, EndsOne
  <2> QED
    BY <1>2, <2>2, <2>3 DEF e
<1>3. CASE tasks = <<Awaited>> /\ activation' = activation /\ time' = time
  <2> DEFINE e == Awaited
  <2>1. e.task # "sync" /\ e.task # "accumulate"
    BY DEF Awaited, Rhs
  <2> HIDE DEF e
  <2>2. Ends(<<e>>, "accumulate", time, time')
    BY <1>3, <2>1, EndsOne
  <2>3. Ends(<<e>>, "sync", activation.active, activation'.active)
    BY <1>3, <2>1, EndsOne
  <2> QED
    BY <1>3, <2>2, <2>3 DEF e
<1>4. CASE /\ tasks = RungeKutta(activation.active, target)
           /\ activation' = activation /\ time' = target
  BY <1>4, EndsSubstep
<1> QED
  BY <1>1, <1>2, <1>3, <1>4 DEF HostLaunches, Awaited

LEMMA HostReads ==
  ASSUME QueueInv, ReadInv, Host
  PROVE  ReadInv'
<1>1. UNCHANGED <<policy, device>> /\ \E tasks \in Seq(Tasks) : Launch(tasks) /\ HostLaunches(tasks)
  BY HostStep DEF QueueInv
<1>2. PICK tasks \in Seq(Tasks) : Launch(tasks) /\ HostLaunches(tasks)
  BY <1>1
<1>3. queue \in Seq(Tasks) /\ queue' = queue \o tasks
      /\ UNCHANGED <<memory, holds, reached, sourceActive, policy>>
  BY <1>1, <1>2 DEF QueueInv, HostTypes, Launch, device
<1>4. /\ Ends(tasks, "accumulate", time, time')
      /\ Ends(tasks, "sync", activation.active, activation'.active)
  BY <1>2, LaunchEnds
<1> HIDE DEF Tasks
<1>5. Ends(queue \o tasks, "accumulate", reached, time')
  BY <1>3, <1>4, EndsJoin DEF ReadInv
<1>6. Ends(queue \o tasks, "sync", sourceActive, activation'.active)
  BY <1>3, <1>4, EndsJoin DEF ReadInv
<1>7. AwaitInv'
  <2> SUFFICES ASSUME pc' \in Reading
               PROVE  queue' # <<>> /\ queue'[Len(queue')] = Awaited'
    BY DEF AwaitInv
  <2>1. tasks = <<Awaited>> /\ activation' = activation
    BY <1>2 DEF HostLaunches, Awaited
  <2>2. Awaited' = Awaited
    BY <2>1 DEF Awaited
  <2> DEFINE e == Awaited
  <2>3. queue' = queue \o <<e>>
    BY <1>3, <2>1
  <2> HIDE DEF e
  <2>4. /\ Len(queue \o <<e>>) = Len(queue) + 1
        /\ (queue \o <<e>>)[Len(queue) + 1] = e
        /\ Len(queue) \in Nat
    BY <1>3
  <2>5. queue' # <<>>
    <3>1. Len(<<>>) = 0
      OBVIOUS
    <3>2. Len(queue') # 0
      BY <2>3, <2>4
    <3> QED
      BY <3>1, <3>2, Zenon
  <2> QED
    BY <2>2, <2>3, <2>4, <2>5 DEF e
<1>8. QuietInv'
  BY <1>3 DEF ReadInv, QuietInv, NothingRead
<1> QED
  BY <1>3, <1>5, <1>6, <1>7, <1>8 DEF ReadInv

\* The evaluation the host waits for leaves the buffers of the state.
LEMMA AwaitedLeaves ==
  ASSUME QueueInv, QuietInv, NEW t \in Tasks, ExecuteRhs(t), t = Awaited,
         activation' = activation
  PROVE  BuffersAreOfTheState'
<1> DEFINE disabled == policy.mode = "Disabled"
           g == holds["state"]
           active == activation.active
<1>1. /\ t.in = "state" /\ t.out = "rhs" /\ t.active = active
      /\ "state" \in StageViews /\ "rhs" \in OutputViews
  BY DEF Awaited, Rhs, StageViews, OutputViews
<1>2. /\ disabled \in BOOLEAN /\ holds' = holds
      /\ memory' = Run(memory, Evaluation("state", "rhs", disabled, active))
  BY <1>1 DEF ExecuteRhs
<1>3. Leaves(memory, memory', "state", "rhs", disabled, g)
  BY <1>1, RhsStep
<1>4. Sound(memory, {}) /\ Known(memory, {"state"} \X Fields, g, 0)
  BY <1>1 DEF QueueInv, Fitted
<1>5. active \in BOOLEAN
  BY DEF QueueInv, HostTypes, Activation
<1>6. disabled => \A s \in ReadSlots : \A m \in Modes : memory'[s][m] = {}
  BY <1>3 DEF Leaves, QuietInv, NothingRead
<1> HIDE DEF disabled, g, active
<1>7. IsOf(memory', "rhs", Fields, g, 1)
  BY <1>1, <1>3, LeavesReads
<1>8. /\ IsOf(memory', "independentConstraints",
              {"Psi3Bianchi", "Psi2Bianchi", "HllReality"}, g, 0)
      /\ IsOf(memory', "radial", Daughters, g, 0)
      /\ IsOf(memory', "angular", AngularSlots, g, 0)
  <2>1. CASE disabled
    <3>1. /\ \A f \in {"Psi3Bianchi", "Psi2Bianchi", "HllReality"} :
               <<"independentConstraints", f>> \in ReadSlots
          /\ \A f \in Daughters : <<"radial", f>> \in ReadSlots
          /\ \A f \in AngularSlots : <<"angular", f>> \in ReadSlots
      BY DEF ReadSlots
    <3>2. /\ \A f \in {"Psi3Bianchi", "Psi2Bianchi", "HllReality"}, m \in Modes :
               memory'[<<"independentConstraints", f>>][m] = {}
          /\ \A f \in Daughters, m \in Modes : memory'[<<"radial", f>>][m] = {}
          /\ \A f \in AngularSlots, m \in Modes : memory'[<<"angular", f>>][m] = {}
      BY <1>6, <2>1, <3>1
    <3> QED
      BY <3>2 DEF IsOf
  <2>2. CASE ~disabled
    BY <1>1, <1>3, <2>2, LeavesReads
  <2> QED
    BY <2>1, <2>2
<1>9. ForcedBy(memory', active)
  <2>1. CASE disabled
    <3>1. <<"outer", "Forcing">> \in ReadSlots /\ <<"outer", "SourceOverR3">> \in ReadSlots
      BY DEF ReadSlots
    <3> QED
      BY <1>6, <2>1, <3>1 DEF ForcedBy
  <2>2. CASE ~disabled
    <3>1. ForcedBy(Run(memory, Evaluation("state", "rhs", disabled, active)), active)
      BY <1>1, <1>2, <1>4, <1>5, <2>2, EvaluationForces
    <3> QED
      BY <1>2, <3>1
  <2> QED
    BY <2>1, <2>2
<1>10. activation'.active = active
  BY DEF active
<1>11. ForcedBy(memory', activation'.active)
  BY <1>9, <1>10
<1> QED
  BY <1>2, <1>7, <1>8, <1>11, Zenon DEF BuffersAreOfTheState, ForcedBy, g

LEMMA QuietStep ==
  ASSUME QueueInv, QuietInv, Execute
  PROVE  QuietInv'
<1> DEFINE t == Head(queue)
<1>1. t \in Tasks /\ policy' = policy
  BY HeadTask DEF QueueInv, Execute, host
<1>2. ExecuteRhs(t) \/ ExecuteForm(t) \/ ExecuteAccumulate(t) \/ ExecuteSync(t)
  BY DEF Execute
<1> HIDE DEF t, Tasks
<1> SUFFICES ASSUME policy.mode = "Disabled" PROVE NothingRead'
  BY <1>1 DEF QuietInv
<1>3. NothingRead
  BY DEF QuietInv
<1>4. CASE ExecuteRhs(t)
  <2>1. \A s \in ReadSlots : memory'[s] = memory[s]
    BY <1>1, <1>4, RhsStep DEF Leaves
  <2> QED
    BY <1>3, <2>1 DEF NothingRead
<1>5. ASSUME NEW view \in StageViews, NEW terms, Fill(view, terms)
      PROVE  NothingRead'
  <2>1. ASSUME NEW s \in ReadSlots PROVE s \in Slots /\ s \notin {view} \X Fields
    BY ReadAreSlots DEF ReadSlots, StageViews
  <2>2. ASSUME NEW s \in ReadSlots PROVE memory'[s] = memory[s]
    BY <1>5, <2>1 DEF Fill
  <2> QED
    BY <1>3, <2>2 DEF NothingRead
<1>6. "stage" \in StageViews /\ "state" \in StageViews
  BY DEF StageViews
<1>7. CASE ExecuteForm(t)
  BY <1>5, <1>6, <1>7 DEF ExecuteForm
<1>8. CASE ExecuteAccumulate(t)
  BY <1>5, <1>6, <1>8 DEF ExecuteAccumulate
<1>9. CASE ExecuteSync(t)
  BY <1>3, <1>9 DEF ExecuteSync, NothingRead
<1> QED
  BY <1>2, <1>4, <1>7, <1>8, <1>9

\* A task changes the device's time and flag as its kind and value say.
LEMMA TaskTells ==
  ASSUME NEW t \in Tasks,
         ExecuteRhs(t) \/ ExecuteForm(t) \/ ExecuteAccumulate(t) \/ ExecuteSync(t)
  PROVE  /\ reached' = IF t.task = "accumulate" THEN Value(t) ELSE reached
         /\ sourceActive' = IF t.task = "sync" THEN Value(t) ELSE sourceActive
<1>1. CASE ExecuteRhs(t)
  BY <1>1, Zenon DEF ExecuteRhs
<1>2. CASE ExecuteForm(t)
  BY <1>2, Zenon DEF ExecuteForm
<1>3. CASE ExecuteAccumulate(t)
  BY <1>3, Zenon DEF ExecuteAccumulate, Value
<1>4. CASE ExecuteSync(t)
  BY <1>4, Zenon DEF ExecuteSync, Value
<1> QED
  BY <1>1, <1>2, <1>3, <1>4

LEMMA ExecuteReads ==
  ASSUME QueueInv, ReadInv, Execute
  PROVE  ReadInv'
<1> DEFINE t == Head(queue)
           w == Tail(queue)
<1>1. queue \in Seq(Tasks) /\ queue # <<>> /\ t \in Tasks /\ queue' = w
      /\ UNCHANGED <<pc, activation, time>>
  BY HeadTask DEF QueueInv, HostTypes, Execute, host
<1>2. ExecuteRhs(t) \/ ExecuteForm(t) \/ ExecuteAccumulate(t) \/ ExecuteSync(t)
  BY DEF Execute
<1>3. QuietInv'
  BY QuietStep DEF ReadInv
<1> HIDE DEF Tasks
<1>4. Ends(w, "accumulate", IF t.task = "accumulate" THEN Value(t) ELSE reached, time)
  BY <1>1, EndsTail DEF ReadInv
<1>5. Ends(w, "sync", IF t.task = "sync" THEN Value(t) ELSE sourceActive, activation.active)
  BY <1>1, EndsTail DEF ReadInv
<1>6. /\ Len(queue) \in Nat /\ Len(queue) > 0 /\ Len(w) = Len(queue) - 1
      /\ \A i \in 1 .. Len(w) : w[i] = queue[i + 1]
      /\ t = queue[1] /\ (w = <<>> <=> Len(w) = 0)
  <2>1. Len(queue) \in Nat /\ t = queue[1]
    BY <1>1
  <2>2. Len(queue) > 0
    BY <1>1, <2>1, EmptySeq
  <2>3. /\ w \in Seq(Tasks) /\ Len(w) = Len(queue) - 1
        /\ \A i \in 1 .. Len(w) : w[i] = queue[i + 1]
    BY <1>1, HeadTailProperties
  <2> HIDE DEF w
  <2>4. w = <<>> <=> Len(w) = 0
    BY <2>3, EmptySeq
  <2> QED
    BY <2>1, <2>2, <2>3, <2>4
<1> HIDE DEF t, w
<1>7. /\ reached' = IF t.task = "accumulate" THEN Value(t) ELSE reached
      /\ sourceActive' = IF t.task = "sync" THEN Value(t) ELSE sourceActive
  BY <1>1, <1>2, TaskTells
<1>8. Ends(w, "accumulate", reached', time)
  BY <1>4, <1>7, Zenon
<1>9. Ends(w, "sync", sourceActive', activation.active)
  BY <1>5, <1>7, Zenon
<1>10. AwaitInv'
  <2> SUFFICES ASSUME pc' \in Reading
               PROVE  \/ queue' = <<>> /\ BuffersAreOfTheState'
                      \/ queue' # <<>> /\ queue'[Len(queue')] = Awaited'
    BY DEF AwaitInv
  <2>1. queue[Len(queue)] = Awaited /\ Awaited' = Awaited
    BY <1>1 DEF ReadInv, AwaitInv, Awaited
  <2>2. CASE w = <<>>
    <3>1. t = Awaited
      <4>1. Len(queue) = 1
        BY <1>6, <2>2
      <4> QED
        BY <1>6, <2>1, <4>1
    <3>2. ExecuteRhs(t)
      <4>1. t.task = "rhs"
        BY <3>1 DEF Awaited, Rhs
      <4> QED
        BY <1>2, <4>1 DEF ExecuteForm, ExecuteAccumulate, ExecuteSync
    <3>3. BuffersAreOfTheState'
      BY <1>1, <3>1, <3>2, AwaitedLeaves DEF ReadInv
    <3> QED
      BY <1>1, <2>2, <3>3
  <2>3. CASE w # <<>>
    <3>1. Len(w) \in 1 .. Len(w) /\ Len(w) + 1 = Len(queue)
      BY <1>6, <2>3
    <3>2. w[Len(w)] = queue[Len(queue)]
      BY <1>6, <3>1
    <3> QED
      BY <1>1, <2>1, <2>3, <3>2
  <2> QED
    BY <2>2, <2>3
<1> QED
  BY <1>1, <1>3, <1>8, <1>9, <1>10 DEF ReadInv

LEMMA NextReads == QueueInv /\ ReadInv /\ [Next]_vars => ReadInv'
<1> SUFFICES ASSUME QueueInv, ReadInv, [Next]_vars PROVE ReadInv'
  OBVIOUS
<1>1. CASE Host
  BY <1>1, HostReads
<1>2. CASE Execute
  BY <1>2, ExecuteReads
<1>3. CASE UNCHANGED vars
  <2>1. UNCHANGED <<policy, activation, time, pc, queue, memory, sourceActive, holds, reached>>
    BY <1>3 DEF vars, host, device
  <2>2. AwaitInv'
    <3>1. BuffersAreOfTheState' <=> BuffersAreOfTheState
      BY <2>1 DEF BuffersAreOfTheState
    <3>2. Awaited' = Awaited
      BY <2>1 DEF Awaited
    <3> QED
      BY <2>1, <3>1, <3>2 DEF AwaitInv, ReadInv
  <2>3. QuietInv'
    BY <2>1 DEF QuietInv, NothingRead, ReadInv
  <2> QED
    BY <2>1, <2>2, <2>3 DEF ReadInv
<1> QED
  BY <1>1, <1>2, <1>3 DEF Next

LEMMA ReadsAlways == Spec => [](QueueInv /\ ReadInv)
<1>1. Init => QueueInv /\ ReadInv
  BY InitQueue, InitReads
<1>2. QueueInv /\ ReadInv /\ [Next]_vars => (QueueInv /\ ReadInv)'
  BY NextQueue, NextReads
<1> QED
  BY <1>1, <1>2, PTL DEF Spec

\* The comment of write_sample, "evaluate_rhs must have been called for the same
\* state immediately before sampling": whenever the host goes on from a verdict or
\* a report, the device has caught up with its time and its latch, and what it read
\* was computed from the state the device holds.
THEOREM ReadsAreCurrent == Spec => ReadsAreOfTheState
<1> DEFINE current ==
      pc' # pc /\ pc \in Measuring \cup {"sampling"} =>
        /\ reached = time
        /\ sourceActive = activation.active
        /\ BuffersAreOfTheState
<1>1. QueueInv /\ ReadInv /\ [Next]_vars => current
  <2> SUFFICES ASSUME QueueInv, ReadInv, [Next]_vars, pc' # pc, pc \in Reading
               PROVE  reached = time /\ sourceActive = activation.active /\ BuffersAreOfTheState
    BY DEF Reading
  <2>1. Host
    BY DEF Next, Execute, vars, host
  <2>2. queue = <<>>
    BY <2>1, HostWaits
  <2>3. BuffersAreOfTheState
    BY <2>2 DEF ReadInv, AwaitInv
  <2>4. /\ Ends(<<>>, "accumulate", reached, time)
        /\ Ends(<<>>, "sync", sourceActive, activation.active)
    BY <2>2 DEF ReadInv
  <2> QED
    BY <2>3, <2>4, EndsNone
<1>2. QueueInv /\ ReadInv /\ [Next]_vars => [current]_vars
  BY <1>1
<1> QED
  BY <1>2, ReadsAlways, PTL DEF Spec, ReadsAreOfTheState

-----------------------------------------------------------------------------
(* Forced as latched.  Something that is not of second order, once in a slot, *)
(* gets through the kernels that read the slot; and kernels that read only    *)
(* what is of second order write nothing else.                               *)

Foreigner(i) == "field" \in DOMAIN i /\ i.field \notin SecondFields
Foreign(mem, s, m) == \E i \in mem[s][m] : Foreigner(i)

\* What the slots hold is of second order.
PureIn(mem, slots) ==
  \A s \in slots, m \in Modes : \A i \in mem[s][m] :
    "field" \in DOMAIN i /\ i.field \in SecondFields

LEMMA BroughtField ==
  ASSUME NEW j, "field" \in DOMAIN j, NEW q, NEW r
  PROVE  "field" \in DOMAIN Brought(j, q, r) /\ Brought(j, q, r).field = j.field
  BY DEF Brought

LEMMA ForeignArrives ==
  ASSUME NEW mem, NEW kernel, NEW r \in kernel.results, r.slot \in Slots,
         NEW q \in r.from, NEW m \in Modes, m \in kernel.on, NEW n \in q.at[m],
         Foreign(mem, q.slot, n)
  PROVE  Foreign(After(mem, kernel), r.slot, m)
<1>1. PICK j \in mem[q.slot][n] : Foreigner(j)
  BY DEF Foreign
<1>2. r.slot \in Written(kernel)
  BY DEF Written
<1>3. \E p \in r.from : \E k \in p.at[m] : \E i \in mem[p.slot][k] :
        Brought(j, q, r) = Brought(i, p, r)
  BY <1>1
<1>4. Brought(j, q, r) \in After(mem, kernel)[r.slot][m]
  BY <1>2, <1>3, AfterWritten
<1>5. Foreigner(Brought(j, q, r))
  BY <1>1, BroughtField DEF Foreigner
<1> QED
  BY <1>4, <1>5 DEF Foreign

LEMMA OwnForeign ==
  ASSUME NEW mem, NEW kernel, NEW r \in kernel.results, r.slot \in Slots,
         NEW v, NEW f, Own(v, f) \in r.from,
         NEW m \in Modes, m \in kernel.on, Foreign(mem, <<v, f>>, m)
  PROVE  Foreign(After(mem, kernel), r.slot, m)
<1> DEFINE q == Own(v, f)
<1>1. q.slot = <<v, f>> /\ m \in q.at[m]
  BY DEF Own, Read
<1> HIDE DEF q
<1>2. q \in r.from
  BY DEF q
<1> QED
  BY <1>1, <1>2, ForeignArrives

LEMMA PureAfter ==
  ASSUME NEW mem, NEW pure, PureIn(mem, pure), NEW kernel, Written(kernel) \subseteq Slots,
         pure \subseteq Slots,
         \A r \in kernel.results : \A q \in r.from :
           q.slot \in pure /\ \A m \in Modes : q.at[m] \subseteq Modes
  PROVE  PureIn(After(mem, kernel), pure \cup Written(kernel))
<1>1. ASSUME NEW s \in pure \cup Written(kernel), NEW m \in Modes,
             NEW i \in After(mem, kernel)[s][m]
      PROVE  "field" \in DOMAIN i /\ i.field \in SecondFields
  <2>1. CASE s \notin Written(kernel)
    <3>1. i \in mem[s][m] /\ s \in pure
      BY <1>1, <2>1, AfterElsewhere
    <3> QED
      BY <3>1 DEF PureIn
  <2>2. CASE s \in Written(kernel)
    <3>1. PICK r \in kernel.results : \E q \in r.from : \E n \in q.at[m] :
                 \E j \in mem[q.slot][n] : i = Brought(j, q, r)
      BY <1>1, <2>2, AfterWritten
    <3>2. PICK q \in r.from : \E n \in q.at[m] :
                 \E j \in mem[q.slot][n] : i = Brought(j, q, r)
      BY <3>1
    <3>3. PICK n \in q.at[m] : \E j \in mem[q.slot][n] : i = Brought(j, q, r)
      BY <3>2
    <3>4. PICK j \in mem[q.slot][n] : i = Brought(j, q, r)
      BY <3>3
    <3>5. q.slot \in pure /\ n \in Modes
      OBVIOUS
    <3>6. "field" \in DOMAIN j /\ j.field \in SecondFields
      BY <3>5 DEF PureIn
    <3> QED
      BY <3>4, <3>6, BroughtField
  <2> QED
    BY <2>1, <2>2
<1> QED
  BY <1>1 DEF PureIn

LEMMA RunFive ==
  ASSUME NEW mem, NEW a, NEW b, NEW c, NEW d, NEW e
  PROVE  /\ IsList(<<a>> \o <<b, c, d, e>>)
         /\ Run(mem, <<a>> \o <<b, c, d, e>>) =
              After(After(After(After(After(mem, a), b), c), d), e)
<1> DEFINE p == <<a>>
           q == <<b, c, d, e>>
           half == After(mem, a)
<1>1. Run(mem, p) = half /\ IsList(p) /\ IsList(q)
  BY RunOne, RunFour
<1>2. Run(half, q) = After(After(After(After(half, b), c), d), e)
  <2> HIDE DEF half
  <2>1. Run(half, <<b, c>>) = After(After(half, b), c)
    BY RunTwo
  <2>2. Run(half, <<b, c, d>>) = After(Run(half, <<b, c>>), d)
    BY RunThree
  <2>3. Run(half, <<b, c, d, e>>) = After(Run(half, <<b, c, d>>), e)
    BY RunFour
  <2> QED
    BY <2>1, <2>2, <2>3, Zenon
<1> HIDE DEF p, q
<1>3. IsList(p \o q) /\ Run(mem, p \o q) = Run(half, q)
  BY <1>1, ConcatList, RunConcat
<1> QED
  BY <1>2, <1>3 DEF p, q, half

\* The kernels of the second-order system.
SecondKernels(in, out, lap, k1, k2, k3, k4) ==
  LET scratch == "secondScratch"
  IN  /\ lap = Kernel(Targets, {To("linearAngular", "Second", {Own(in, "SecondPsi")})})
      /\ k1 = Everywhere({
                To(scratch, "DrPsi", {Own(in, "SecondPsi")}),
                To(scratch, "EffectiveQ", {Own(in, "SecondPsi"), Own(in, "SecondQ")})})
      /\ k2 = Everywhere({
                To(scratch, "DrQ", {Own(scratch, "EffectiveQ")}),
                RateTo(scratch, "PsiVelocity",
                  {Own(in, "SecondP"), Own(scratch, "EffectiveQ"), Own(in, "SecondPsi")})})
      /\ k3 = Everywhere({
                To(scratch, "DrPsiVelocity", {Own(scratch, "PsiVelocity")}),
                RateTo(out, "SecondP",
                  {Own(in, "SecondP"), Own(scratch, "EffectiveQ"), Own(in, "SecondPsi"),
                   Own(scratch, "DrQ"), Own("linearAngular", "Second"),
                   Own("outer", "Forcing")}),
                RateTo(out, "SecondQ", {Rate(scratch, "PsiVelocity"), Own(in, "SecondQ"),
                                        Own(scratch, "DrPsi")}),
                RateTo(out, "SecondPsi", {Rate(scratch, "PsiVelocity"), Own(in, "SecondPsi")})})
      /\ k4 = Kernel(Targets, {To(out, f, {Own(out, f)}) :
                                 f \in {"SecondP", "SecondQ", "SecondPsi"}})

LEMMA SecondRuns ==
  ASSUME NEW in, NEW out
  PROVE  \E lap, k1, k2, k3, k4 :
           /\ SecondKernels(in, out, lap, k1, k2, k3, k4)
           /\ \A mem : Run(mem, SecondOrder(in, out)) =
                         After(After(After(After(After(mem, lap), k1), k2), k3), k4)
<1> DEFINE scratch == "secondScratch"
           lap == Kernel(Targets, {To("linearAngular", "Second", {Own(in, "SecondPsi")})})
           k1 == Everywhere({
                   To(scratch, "DrPsi", {Own(in, "SecondPsi")}),
                   To(scratch, "EffectiveQ", {Own(in, "SecondPsi"), Own(in, "SecondQ")})})
           k2 == Everywhere({
                   To(scratch, "DrQ", {Own(scratch, "EffectiveQ")}),
                   RateTo(scratch, "PsiVelocity",
                     {Own(in, "SecondP"), Own(scratch, "EffectiveQ"), Own(in, "SecondPsi")})})
           k3 == Everywhere({
                   To(scratch, "DrPsiVelocity", {Own(scratch, "PsiVelocity")}),
                   RateTo(out, "SecondP",
                     {Own(in, "SecondP"), Own(scratch, "EffectiveQ"), Own(in, "SecondPsi"),
                      Own(scratch, "DrQ"), Own("linearAngular", "Second"),
                      Own("outer", "Forcing")}),
                   RateTo(out, "SecondQ", {Rate(scratch, "PsiVelocity"), Own(in, "SecondQ"),
                                           Own(scratch, "DrPsi")}),
                   RateTo(out, "SecondPsi", {Rate(scratch, "PsiVelocity"), Own(in, "SecondPsi")})})
           k4 == Kernel(Targets, {To(out, f, {Own(out, f)}) :
                                    f \in {"SecondP", "SecondQ", "SecondPsi"}})
<1>1. SecondOrder(in, out) = <<lap>> \o <<k1, k2, k3, k4>>
  BY DEF SecondOrder, Laplacian, Teukolsky, Project
<1>2. SecondKernels(in, out, lap, k1, k2, k3, k4)
  BY DEF SecondKernels
<1> HIDE DEF lap, k1, k2, k3, k4
<1>3. \A mem : Run(mem, SecondOrder(in, out)) =
                 After(After(After(After(After(mem, lap), k1), k2), k3), k4)
  <2> TAKE mem
  <2>1. Run(mem, <<lap>> \o <<k1, k2, k3, k4>>) =
          After(After(After(After(After(mem, lap), k1), k2), k3), k4)
    BY RunFive
  <2> QED
    BY <1>1, <2>1, Zenon
<1> QED
  BY <1>2, <1>3

LEMMA SecondPlaces ==
  ASSUME NEW in \in StageViews, NEW out \in OutputViews
  PROVE  /\ {in, out} \X SecondFields \subseteq Slots
         /\ {"secondScratch"} \X ScratchSlots \subseteq Slots
         /\ <<"linearAngular", "Second">> \in Slots /\ <<"outer", "Forcing">> \in Slots
         /\ SecondFields = {"SecondP", "SecondQ", "SecondPsi"}
  BY DEF Slots, SecondFields, Fields, Scratches

\* Where the first four kernels of the second order write.
LEMMA SecondWritten ==
  ASSUME NEW in, NEW out, NEW lap, NEW k1, NEW k2, NEW k3, NEW k4,
         SecondKernels(in, out, lap, k1, k2, k3, k4)
  PROVE  /\ Written(lap) = {<<"linearAngular", "Second">>}
         /\ Written(k1) = {<<"secondScratch", "DrPsi">>, <<"secondScratch", "EffectiveQ">>}
         /\ Written(k2) = {<<"secondScratch", "DrQ">>, <<"secondScratch", "PsiVelocity">>}
         /\ Written(k3) = {<<"secondScratch", "DrPsiVelocity">>, <<out, "SecondP">>,
                           <<out, "SecondQ">>, <<out, "SecondPsi">>}
<1>1. Written(lap) = {<<"linearAngular", "Second">>}
  BY DEF SecondKernels, Written, Kernel, To
<1>2. Written(k1) = {<<"secondScratch", "DrPsi">>, <<"secondScratch", "EffectiveQ">>}
  BY DEF SecondKernels, Written, Kernel, Everywhere, To
<1>3. Written(k2) = {<<"secondScratch", "DrQ">>, <<"secondScratch", "PsiVelocity">>}
  BY DEF SecondKernels, Written, Kernel, Everywhere, To, RateTo
<1>4. Written(k3) = {<<"secondScratch", "DrPsiVelocity">>, <<out, "SecondP">>,
                     <<out, "SecondQ">>, <<out, "SecondPsi">>}
  BY DEF SecondKernels, Written, Kernel, Everywhere, To, RateTo
<1> QED
  BY <1>1, <1>2, <1>3, <1>4

\* The forcing gets into the second-order slope at every target.
LEMMA SecondForced ==
  ASSUME NEW in \in StageViews, NEW out \in OutputViews, NEW mem, NEW t \in Targets,
         Foreign(mem, <<"outer", "Forcing">>, t)
  PROVE  Foreign(Run(mem, SecondOrder(in, out)), <<out, "SecondP">>, t)
<1>1. PICK lap, k1, k2, k3, k4 :
        /\ SecondKernels(in, out, lap, k1, k2, k3, k4)
        /\ \A m : Run(m, SecondOrder(in, out)) =
                    After(After(After(After(After(m, lap), k1), k2), k3), k4)
  BY SecondRuns
<1> DEFINE s == <<"outer", "Forcing">>
           d == <<out, "SecondP">>
           m0 == After(mem, lap)
           m1 == After(m0, k1)
           m2 == After(m1, k2)
           m3 == After(m2, k3)
           m4 == After(m3, k4)
           slope == RateTo(out, "SecondP",
                      {Own(in, "SecondP"), Own("secondScratch", "EffectiveQ"),
                       Own(in, "SecondPsi"), Own("secondScratch", "DrQ"),
                       Own("linearAngular", "Second"), Own("outer", "Forcing")})
           last == To(out, "SecondP", {Own(out, "SecondP")})
<1>2. s \in Slots /\ d \in Slots /\ t \in Modes
  BY SecondPlaces, RegistryAssumption
<1>3. s \notin Written(lap) /\ s \notin Written(k1) /\ s \notin Written(k2)
  BY <1>1, SecondWritten
<1>4. slope \in k3.results /\ k3.on = Modes /\ slope.slot = d /\ Own("outer", "Forcing") \in slope.from
  BY <1>1 DEF SecondKernels, Everywhere, Kernel, RateTo
<1>5. k4.on = Targets /\ last \in k4.results /\ last.slot = d /\ Own(out, "SecondP") \in last.from
  BY <1>1 DEF SecondKernels, Kernel, To
<1>6. Run(mem, SecondOrder(in, out)) = m4
  BY <1>1
<1> HIDE DEF slope, last
<1>7. m0[s] = mem[s] /\ m1[s] = m0[s] /\ m2[s] = m1[s]
  BY <1>2, <1>3, AfterElsewhere
<1>8. Foreign(m2, s, t)
  BY <1>7 DEF Foreign
<1> HIDE DEF m0, m1, m2
<1>9. Foreign(m3, d, t)
  <2>1. Foreign(After(m2, k3), slope.slot, t)
    BY <1>2, <1>4, <1>8, OwnForeign
  <2> QED
    BY <1>4, <2>1
<1> HIDE DEF m3
<1>10. Foreign(m4, d, t)
  <2>1. Foreign(After(m3, k4), last.slot, t)
    BY <1>2, <1>5, <1>9, OwnForeign
  <2> QED
    BY <1>5, <2>1
<1> QED
  BY <1>6, <1>10

\* Without a forcing the second-order slopes are of second order alone.
LEMMA SecondPure ==
  ASSUME NEW in \in StageViews, NEW out \in OutputViews, NEW mem,
         PureIn(mem, {in} \X SecondFields),
         \A m \in Modes : mem[<<"outer", "Forcing">>][m] = {}
  PROVE  PureIn(Run(mem, SecondOrder(in, out)), {out} \X SecondFields)
<1>1. PICK lap, k1, k2, k3, k4 :
        /\ SecondKernels(in, out, lap, k1, k2, k3, k4)
        /\ \A m : Run(m, SecondOrder(in, out)) =
                    After(After(After(After(After(m, lap), k1), k2), k3), k4)
  BY SecondRuns
<1> DEFINE scratch == "secondScratch"
           p0 == ({in} \X SecondFields) \cup {<<"outer", "Forcing">>}
           p1 == p0 \cup Written(lap)
           p2 == p1 \cup Written(k1)
           p3 == p2 \cup Written(k2)
           p4 == p3 \cup Written(k3)
           p5 == p4 \cup Written(k4)
           m0 == After(mem, lap)
           m1 == After(m0, k1)
           m2 == After(m1, k2)
           m3 == After(m2, k3)
           m4 == After(m3, k4)
<1>2. /\ Written(lap) = {<<"linearAngular", "Second">>}
      /\ Written(k1) = {<<scratch, "DrPsi">>, <<scratch, "EffectiveQ">>}
      /\ Written(k2) = {<<scratch, "DrQ">>, <<scratch, "PsiVelocity">>}
      /\ Written(k3) = {<<scratch, "DrPsiVelocity">>, <<out, "SecondP">>, <<out, "SecondQ">>,
                        <<out, "SecondPsi">>}
  BY <1>1, SecondWritten
<1>3. Written(k4) = {out} \X SecondFields
  <2>1. k4.results = {To(out, f, {Own(out, f)}) : f \in SecondFields}
    BY <1>1, SecondPlaces DEF SecondKernels, Kernel
  <2>2. \A f : To(out, f, {Own(out, f)}).slot = <<out, f>>
    BY DEF To
  <2>3. \A s : s \in Written(k4) <=> \E f \in SecondFields : s = <<out, f>>
    BY <2>1, <2>2 DEF Written
  <2> QED
    BY <2>3
<1>4. /\ <<in, "SecondP">> \in p0 /\ <<in, "SecondQ">> \in p0 /\ <<in, "SecondPsi">> \in p0
      /\ <<"outer", "Forcing">> \in p0 /\ p0 \subseteq Slots
  BY SecondPlaces
<1>5. /\ <<scratch, "DrPsi">> \in Slots /\ <<scratch, "EffectiveQ">> \in Slots
      /\ <<scratch, "DrQ">> \in Slots /\ <<scratch, "PsiVelocity">> \in Slots
      /\ <<scratch, "DrPsiVelocity">> \in Slots /\ <<"linearAngular", "Second">> \in Slots
      /\ <<out, "SecondP">> \in Slots /\ <<out, "SecondQ">> \in Slots
      /\ <<out, "SecondPsi">> \in Slots /\ {out} \X SecondFields \subseteq Slots
  BY SecondPlaces DEF ScratchSlots
<1>6. PureIn(mem, p0)
  BY DEF PureIn
<1>7. \A v, f : /\ Own(v, f).slot = <<v, f>> /\ Rate(v, f).slot = <<v, f>>
                /\ \A m \in Modes : Own(v, f).at[m] \subseteq Modes /\ Rate(v, f).at[m] \subseteq Modes
  BY DEF Own, Rate, Read
<1> HIDE DEF p0
<1>8. PureIn(m0, p1) /\ p1 \subseteq Slots
  <2>1. \A r \in lap.results : \A q \in r.from : q = Own(in, "SecondPsi")
    BY <1>1 DEF SecondKernels, Kernel, To
  <2>2. Written(lap) \subseteq Slots
    BY <1>2, <1>5
  <2> QED
    BY <1>4, <1>6, <1>7, <2>1, <2>2, PureAfter
<1>9. PureIn(m1, p2) /\ p2 \subseteq Slots
  <2>1. \A r \in k1.results : \A q \in r.from : q = Own(in, "SecondPsi") \/ q = Own(in, "SecondQ")
    BY <1>1 DEF SecondKernels, Everywhere, Kernel, To
  <2>2. Written(k1) \subseteq Slots
    BY <1>2, <1>5
  <2>3. <<in, "SecondPsi">> \in p1 /\ <<in, "SecondQ">> \in p1
    BY <1>4
  <2> HIDE DEF p1, m0
  <2> QED
    BY <1>7, <1>8, <2>1, <2>2, <2>3, PureAfter
<1>10. PureIn(m2, p3) /\ p3 \subseteq Slots
  <2>1. \A r \in k2.results : \A q \in r.from :
          \/ q = Own(scratch, "EffectiveQ") \/ q = Own(in, "SecondP") \/ q = Own(in, "SecondPsi")
    BY <1>1 DEF SecondKernels, Everywhere, Kernel, To, RateTo
  <2>2. Written(k2) \subseteq Slots
    BY <1>2, <1>5
  <2>3. <<in, "SecondPsi">> \in p2 /\ <<in, "SecondP">> \in p2 /\ <<scratch, "EffectiveQ">> \in p2
    BY <1>2, <1>4
  <2> HIDE DEF p2, m1
  <2> QED
    BY <1>7, <1>9, <2>1, <2>2, <2>3, PureAfter
<1>11. PureIn(m3, p4) /\ p4 \subseteq Slots
  <2>1. \A r \in k3.results : \A q \in r.from :
          \/ q = Own(scratch, "PsiVelocity") \/ q = Rate(scratch, "PsiVelocity")
          \/ q = Own(scratch, "EffectiveQ") \/ q = Own(scratch, "DrQ") \/ q = Own(scratch, "DrPsi")
          \/ q = Own(in, "SecondP") \/ q = Own(in, "SecondPsi") \/ q = Own(in, "SecondQ")
          \/ q = Own("linearAngular", "Second") \/ q = Own("outer", "Forcing")
    BY <1>1 DEF SecondKernels, Everywhere, Kernel, To, RateTo
  <2>2. Written(k3) \subseteq Slots
    BY <1>2, <1>5
  <2>3. /\ <<in, "SecondPsi">> \in p3 /\ <<in, "SecondP">> \in p3 /\ <<in, "SecondQ">> \in p3
        /\ <<scratch, "EffectiveQ">> \in p3 /\ <<scratch, "DrQ">> \in p3
        /\ <<scratch, "PsiVelocity">> \in p3 /\ <<scratch, "DrPsi">> \in p3
        /\ <<"linearAngular", "Second">> \in p3 /\ <<"outer", "Forcing">> \in p3
    BY <1>2, <1>4
  <2>4. \A r \in k3.results : \A q \in r.from :
          q.slot \in p3 /\ \A m \in Modes : q.at[m] \subseteq Modes
    <3> HIDE DEF p3, scratch
    <3> QED
      BY <1>7, <2>1, <2>3
  <2> HIDE DEF p3, m2
  <2> QED
    BY <1>10, <2>2, <2>4, PureAfter
<1>12. PureIn(m4, p5)
  <2>1. \A r \in k4.results : \A q \in r.from :
          q = Own(out, "SecondP") \/ q = Own(out, "SecondQ") \/ q = Own(out, "SecondPsi")
    BY <1>1 DEF SecondKernels, Kernel, To
  <2>2. Written(k4) \subseteq Slots
    BY <1>3, <1>5
  <2>3. <<out, "SecondP">> \in p4 /\ <<out, "SecondQ">> \in p4 /\ <<out, "SecondPsi">> \in p4
    BY <1>2
  <2> HIDE DEF p4, m3
  <2> QED
    BY <1>7, <1>11, <2>1, <2>2, <2>3, PureAfter
<1>13. {out} \X SecondFields \subseteq p5
  BY <1>3
<1>14. Run(mem, SecondOrder(in, out)) = m4
  BY <1>1
<1> HIDE DEF p5, m4
<1> QED
  BY <1>12, <1>13, <1>14 DEF PureIn

\* What the stage has of first order at a parent gets, through the inner source of
\* a pair that it begins and through the outer one, into the forcing.
LEMMA PreparedForeign ==
  ASSUME NEW in \in StageViews, NEW out \in OutputViews, NEW mem, NEW m \in Modes,
         Foreign(mem, <<in, "FirstPsi">>, m)
  PROVE  Foreign(Run(mem, PrepareInputs(in, out, "tangentRhs")), <<"sourceFields", "FirstPsi">>, m)
<1> DEFINE all == Prepared(in, out, "firstScratch", "radial", "angular", "extra",
                           "sourceFields", "sourceDerivatives") \cup
                  Prepared(out, "tangentRhs", "tangentScratch", "tangentRadial",
                           "tangentAngular", "extraTangent",
                           "sourceFieldTangents", "sourceDerivativeTangents")
           k == Everywhere(all)
           r == To("sourceFields", "FirstPsi", {Own(in, "FirstPsi")})
<1>1. PrepareInputs(in, out, "tangentRhs") = <<k>>
  BY DEF PrepareInputs
<1>2. r \in all
  <2>1. "FirstPsi" \in SourceFields
    BY DEF SourceFields
  <2> QED
    BY <2>1 DEF Prepared
<1> HIDE DEF all
<1>3. r \in k.results /\ k.on = Modes
  BY <1>2 DEF Everywhere, Kernel
<1>4. r.slot = <<"sourceFields", "FirstPsi">> /\ Own(in, "FirstPsi") \in r.from
  BY DEF To
<1>5. <<"sourceFields", "FirstPsi">> \in Slots
  BY DEF Slots, SourceFields
<1> HIDE DEF k, r
<1>6. Foreign(After(mem, k), r.slot, m)
  BY <1>3, <1>4, <1>5, OwnForeign
<1>7. Run(mem, <<k>>) = After(mem, k)
  BY RunOne
<1> QED
  BY <1>1, <1>4, <1>6, <1>7

LEMMA InnerForeign ==
  ASSUME NEW mem, NEW t \in Targets, NEW p \in Pairs(t),
         Foreign(mem, <<"sourceFields", "FirstPsi">>, p[1])
  PROVE  Foreign(Run(mem, InnerSource), <<"inner", "T">>, t)
<1> DEFINE all == {To("inner", "D", FactorsOfD(0)), To("inner", "T", FactorsOfT(0)),
                   RateTo("innerTangent", "D", FactorsOfD(0) \cup FactorsOfD(1)),
                   RateTo("innerTangent", "T", FactorsOfT(0) \cup FactorsOfT(1))}
           k == Kernel(Targets, all)
           r == To("inner", "T", FactorsOfT(0))
           q == Left("FirstPsi", 0)
<1>1. InnerSource = <<k>>
  BY DEF InnerSource
<1>2. r \in all
  OBVIOUS
<1> HIDE DEF all
<1>3. r \in k.results /\ k.on = Targets
  BY <1>2 DEF Kernel
<1>4. r.slot = <<"inner", "T">> /\ q \in r.from
  BY DEF To, FactorsOfT
<1>5. <<"inner", "T">> \in Slots /\ t \in Modes
  BY RegistryAssumption DEF Slots
<1>6. q.slot = <<"sourceFields", "FirstPsi">> /\ p[1] \in q.at[t]
  BY <1>5 DEF Left, Read
<1> HIDE DEF k, r, q
<1>7. Foreign(After(mem, k), r.slot, t)
  BY <1>3, <1>4, <1>5, <1>6, ForeignArrives
<1>8. Run(mem, <<k>>) = After(mem, k)
  BY RunOne
<1> QED
  BY <1>1, <1>4, <1>7, <1>8

LEMMA OuterForeign ==
  ASSUME NEW mem, NEW t \in Targets, Foreign(mem, <<"inner", "T">>, t)
  PROVE  Foreign(Run(mem, OuterSource), <<"outer", "Forcing">>, t)
<1> DEFINE factors == {Own("projected", "D"), Rate("projectedTangent", "D"),
                       Own("projected", "T"), Own("outer", "EthPrimeT")}
           k1 == Kernel(Targets,
                   {To("projected", c, {Own("inner", c)}) : c \in {"D", "T"}} \cup
                   {To("projectedTangent", c, {Own("innerTangent", c)}) : c \in {"D", "T"}})
           k2 == Kernel(Targets, {Eth("projected", "T", "projectedTangent", "T",
                                      "outer", "EthPrimeT")})
           k3 == Everywhere({To("outer", "SourceOverR3", factors),
                             To("outer", "Forcing", factors)})
           r1 == To("projected", "T", {Own("inner", "T")})
           r3 == To("outer", "Forcing", factors)
           s == <<"projected", "T">>
           d == <<"outer", "Forcing">>
<1>1. OuterSource = <<k1, k2, k3>>
  BY DEF OuterSource
<1>2. r1 \in k1.results /\ k1.on = Targets /\ r1.slot = s /\ Own("inner", "T") \in r1.from
  BY DEF Kernel, To
<1>3. s \notin Written(k2)
  BY DEF Written, Kernel, Eth, To
<1>4. r3 \in k3.results /\ k3.on = Modes /\ r3.slot = d /\ Own("projected", "T") \in r3.from
  BY DEF Everywhere, Kernel, To
<1>5. s \in Slots /\ d \in Slots /\ t \in Modes
  BY RegistryAssumption DEF Slots
<1> HIDE DEF k1, k2, k3, r1, r3
<1>6. Run(mem, <<k1, k2, k3>>) = After(After(After(mem, k1), k2), k3)
  <2>1. Run(mem, <<k1, k2>>) = After(After(mem, k1), k2)
    BY RunTwo
  <2>2. Run(mem, <<k1, k2, k3>>) = After(Run(mem, <<k1, k2>>), k3)
    BY RunThree
  <2> QED
    BY <2>1, <2>2, Zenon
<1> DEFINE m1 == After(mem, k1)
           m2 == After(m1, k2)
<1>7. Foreign(m1, s, t)
  <2>1. Foreign(After(mem, k1), r1.slot, t)
    BY <1>2, <1>5, OwnForeign
  <2> QED
    BY <1>2, <2>1
<1>8. Foreign(m2, s, t)
  <2>1. m2[s] = m1[s]
    BY <1>3, <1>5, AfterElsewhere
  <2> QED
    BY <1>7, <2>1 DEF Foreign
<1> HIDE DEF m1, m2
<1>9. Foreign(After(m2, k3), d, t)
  <2>1. Foreign(After(m2, k3), r3.slot, t)
    <3> HIDE DEF d, s
    <3>1. Own("projected", "T") = Own("projected", "T") /\ s = <<"projected", "T">>
      BY DEF s
    <3> QED
      BY <1>4, <1>5, <1>8, <3>1, OwnForeign
  <2> QED
    BY <1>4, <2>1
<1> QED
  BY <1>1, <1>6, <1>9 DEF m1, m2

LEMMA ActiveForeign ==
  ASSUME NEW mem, NEW t \in Targets, Foreign(mem, <<"outer", "Forcing">>, t)
  PROVE  Foreign(Run(mem, ApplyActivation(TRUE)), <<"outer", "Forcing">>, t)
<1> DEFINE r == To("outer", "Forcing", {Own("outer", "Forcing")})
           k == Kernel(Modes, {r})
<1>1. ApplyActivation(TRUE) = <<k>>
  BY DEF ApplyActivation
<1>2. r \in k.results /\ k.on = Modes
  BY DEF Kernel
<1>3. r.slot = <<"outer", "Forcing">> /\ Own("outer", "Forcing") \in r.from
  BY DEF To
<1>4. <<"outer", "Forcing">> \in Slots /\ t \in Modes
  BY RegistryAssumption DEF Slots
<1> HIDE DEF k, r
<1>5. Foreign(After(mem, k), r.slot, t)
  BY <1>2, <1>3, <1>4, OwnForeign
<1>6. Run(mem, <<k>>) = After(mem, k)
  BY RunOne
<1> QED
  BY <1>1, <1>3, <1>5, <1>6

\* The first-order kernels and those of the source leave the stage as it is.
LEMMA StageIsKept ==
  ASSUME NEW in \in StageViews, NEW out \in OutputViews, NEW f \in Fields
  PROVE  /\ <<in, f>> \in Slots
         /\ <<in, f>> \notin FirstSlots(out, "First", "firstScratch")
         /\ <<in, f>> \notin SourcedSlots(out)
<1> DEFINE s == <<in, f>>
<1>0. s \in Slots
  BY VectorSlots DEF Holds, Vectors
<1>1. /\ in # "tangentRhs" /\ in # out
      /\ in \notin Scratches \cup RadialViews \cup AngularViews
      /\ in \notin {"linearAngular", "sharpWork", "independentAngular",
                    "independentConstraints", "extra", "extraTangent", "sourceFields",
                    "sourceFieldTangents", "sourceDerivatives", "sourceDerivativeTangents",
                    "inner", "innerTangent", "projected", "projectedTangent", "outer"}
  BY DEF StageViews, OutputViews, Scratches, RadialViews, AngularViews
<1>2. /\ s \notin FirstSlots("tangentRhs", "FirstTangent", "tangentScratch")
      /\ s \notin FirstSlots(out, "First", "firstScratch")
      /\ s \notin SecondSlots(out)
  BY <1>1 DEF FirstSlots, SecondSlots, TeukolskySlots, Scratches
<1>3. /\ s \notin ReconstructionSlots(out, "radial", "angular")
      /\ s \notin ReconstructionSlots("tangentRhs", "tangentRadial", "tangentAngular")
  BY <1>1 DEF ReconstructionSlots, Packed, RadialViews, AngularViews
<1>4. /\ s \notin ConstraintSlots /\ s \notin ExtraOf
      /\ s \notin InnerSlots /\ s \notin OuterSlots
      /\ s # <<"outer", "Forcing">>
  BY <1>1 DEF ConstraintSlots, ExtraOf, InnerSlots, OuterSlots
<1>5. s \notin PrepareSlots
  BY <1>1 DEF PrepareSlots, PreparedSlots
<1> QED
  BY <1>0, <1>2, <1>3, <1>4, <1>5 DEF SourcedSlots

\* An evaluation with the latch closed brings what the stage has at the first parent
\* of a pair into the second-order slope of the pair's target.
LEMMA EvaluationCarries ==
  ASSUME NEW in \in StageViews, NEW out \in OutputViews,
         NEW mem, NEW g, Sound(mem, {}), Known(mem, {in} \X Fields, g, 0),
         NEW t \in Targets, NEW p \in Pairs(t), Foreign(mem, <<in, "FirstPsi">>, p[1])
  PROVE  Foreign(Run(mem, Evaluation(in, out, FALSE, TRUE)), <<out, "SecondP">>, t)
<1> DEFINE L1 == FirstOrder(in, out, "First", "firstScratch")
           half == Run(mem, L1)
           W1 == FirstSlots(out, "First", "firstScratch")
           K0 == {in} \X Fields
           s == <<in, "FirstPsi">>
<1>0. "FirstPsi" \in Fields /\ p[1] \in Modes
  BY RegistryAssumption DEF Fields, FirstFields, Pairs
<1>1. /\ IsList(L1) /\ Sound(half, {})
      /\ Known(half, K0 \cup W1, g, 0)
      /\ Same(mem, half, W1)
  <2>1. Makes(L1, K0, W1, 0, {})
    BY FirstMakes
  <2> HIDE DEF L1, K0, W1
  <2>2. Known(mem, K0, g, 0)
    BY DEF K0
  <2> QED
    BY <2>1, <2>2 DEF Makes
<1>2. s \in Slots /\ s \notin W1 /\ s \notin SourcedSlots(out)
  BY <1>0, StageIsKept
<1>3. half[s] = mem[s]
  BY <1>1, <1>2 DEF Same
<1> HIDE DEF L1, half, K0, W1
<1>4. PICK front, known, written, last :
        SourcedAs(in, out, TRUE, front, known, written, last)
  BY SourcedParts
<1> DEFINE A == front \o OuterSource
           B == ApplyActivation(TRUE)
           C == SecondOrder(in, out)
           P == PrepareInputs(in, out, "tangentRhs")
<1>5. /\ Evaluation(in, out, FALSE, TRUE) = L1 \o ((A \o B) \o C)
      /\ IsList(front) /\ IsList(A) /\ IsList(B) /\ IsList(C)
      /\ FrontAs(in, out, front)
  <2>1. /\ Evaluation(in, out, FALSE, TRUE) = L1 \o ((A \o B) \o C)
        /\ IsList(front) /\ FrontAs(in, out, front)
        /\ Turns(A, K0 \cup W1, known, written)
        /\ Makes(B, known, {<<"outer", "Forcing">>}, 1, {})
        /\ Makes(C, known \cup {<<"outer", "Forcing">>}, SecondSlots(out), 1, {})
    BY <1>4, Zenon DEF SourcedAs, L1, K0, W1
  <2> HIDE DEF A, B, C
  <2> QED
    BY <2>1 DEF Turns, Makes
<1>6. PICK early, next, touched :
        /\ front = (early \o P) \o InnerSource
        /\ Turns(early, K0 \cup W1, next, touched)
        /\ touched \subseteq SourcedSlots(out)
  BY <1>5, Zenon DEF FrontAs, K0, W1
<1>7. IsList(OuterSource) /\ IsList(P) /\ IsList(InnerSource) /\ IsList(early)
  <2>1. IsList(OuterSource)
    BY RunThree DEF OuterSource
  <2>2. IsList(P)
    BY RunOne DEF PrepareInputs
  <2>3. IsList(InnerSource)
    BY RunOne DEF InnerSource
  <2>4. IsList(early)
    BY <1>6 DEF Turns
  <2> QED
    BY <2>1, <2>2, <2>3, <2>4
<1> HIDE DEF P
<1> DEFINE me == Run(half, early)
           mp == Run(me, P)
           mi == Run(mp, InnerSource)
           mo == Run(mi, OuterSource)
           ma == Run(mo, B)
           ms == Run(ma, C)
<1>8. Run(half, A) = mo
  <2>1. IsList(early \o P)
    BY <1>7, ConcatList
  <2>2. Run(half, A) = Run(Run(half, front), OuterSource)
    BY <1>5, <1>7, RunConcat
  <2>3. Run(half, front) = Run(Run(half, early \o P), InnerSource)
    BY <1>6, <1>7, <2>1, RunConcat
  <2>4. Run(half, early \o P) = mp
    BY <1>7, RunConcat
  <2> QED
    BY <2>2, <2>3, <2>4
<1>9. Run(mem, Evaluation(in, out, FALSE, TRUE)) = ms
  <2> HIDE DEF A, B, C
  <2>0. IsList(A \o B) /\ IsList((A \o B) \o C)
    BY <1>5, ConcatList
  <2>1. Run(mem, L1 \o ((A \o B) \o C)) = Run(half, (A \o B) \o C)
    BY <1>1, <2>0, RunConcat DEF half
  <2>2. Run(half, (A \o B) \o C) = Run(Run(half, A \o B), C)
    BY <1>5, <2>0, RunConcat
  <2>3. Run(half, A \o B) = Run(Run(half, A), B)
    BY <1>5, RunConcat
  <2> QED
    BY <1>5, <1>8, <2>1, <2>2, <2>3
<1>10. me[s] = half[s]
  <2>1. Same(half, me, touched)
    BY <1>1, <1>6 DEF Turns
  <2> HIDE DEF me
  <2> QED
    BY <1>2, <1>6, <2>1 DEF Same
<1>11. Foreign(me, s, p[1])
  BY <1>3, <1>10 DEF Foreign
<1> HIDE DEF me
<1>12. Foreign(mp, <<"sourceFields", "FirstPsi">>, p[1])
  BY <1>0, <1>11, PreparedForeign DEF P
<1> HIDE DEF mp
<1>13. Foreign(mi, <<"inner", "T">>, t)
  BY <1>12, InnerForeign
<1> HIDE DEF mi
<1>14. Foreign(mo, <<"outer", "Forcing">>, t)
  BY <1>13, OuterForeign
<1> HIDE DEF mo
<1>15. Foreign(ma, <<"outer", "Forcing">>, t)
  BY <1>14, ActiveForeign
<1> HIDE DEF ma
<1>16. Foreign(ms, <<out, "SecondP">>, t)
  BY <1>15, SecondForced
<1> QED
  BY <1>9, <1>16

\* With the latch open it brings nothing.
LEMMA EvaluationPure ==
  ASSUME NEW in \in StageViews, NEW out \in OutputViews, NEW disabled \in BOOLEAN,
         NEW mem, NEW g, Sound(mem, {}), Known(mem, {in} \X Fields, g, 0),
         PureIn(mem, {in} \X SecondFields)
  PROVE  PureIn(Run(mem, Evaluation(in, out, disabled, FALSE)), {out} \X SecondFields)
<1> DEFINE L1 == FirstOrder(in, out, "First", "firstScratch")
           half == Run(mem, L1)
           W1 == FirstSlots(out, "First", "firstScratch")
           K0 == {in} \X Fields
           given == {in} \X SecondFields
<1>0. SecondFields \subseteq Fields /\ SecondFields \cap FirstFields = {}
  BY DEF Fields, FirstFields, SecondFields
<1>1. /\ IsList(L1) /\ Sound(half, {})
      /\ Known(half, K0 \cup W1, g, 0)
      /\ Same(mem, half, W1)
  <2>1. Makes(L1, K0, W1, 0, {})
    BY FirstMakes
  <2> HIDE DEF L1, K0, W1
  <2>2. Known(mem, K0, g, 0)
    BY DEF K0
  <2> QED
    BY <2>1, <2>2 DEF Makes
<1>2. ASSUME NEW s \in given PROVE s \in Slots /\ s \notin W1 /\ s \notin SourcedSlots(out)
  <2>1. PICK f \in SecondFields : s = <<in, f>>
    OBVIOUS
  <2> QED
    BY <1>0, <2>1, StageIsKept
<1> HIDE DEF L1, half, K0, W1, given
<1>3. CASE disabled
  <2> DEFINE k == Kernel({}, {To(out, f, {}) : f \in Fields \ FirstFields})
             d == {out} \X SecondFields
  <2>1. Evaluation(in, out, TRUE, FALSE) = L1 \o <<k>>
    BY DEF Evaluation, Freeze, L1
  <2>2. \A s \in d : s \in Written(k) /\ s \in Slots
    <3>1. \A f \in SecondFields : <<out, f>> \in Slots
      BY SecondPlaces
    <3>2. k.results = {To(out, f, {}) : f \in Fields \ FirstFields}
      BY DEF Kernel
    <3>3. \A f : To(out, f, {}).slot = <<out, f>>
      BY DEF To
    <3>4. \A f \in SecondFields : <<out, f>> \in Written(k)
      BY <1>0, <3>2, <3>3 DEF Written
    <3> QED
      BY <3>1, <3>4
  <2>3. k.on = {}
    BY DEF Kernel
  <2> HIDE DEF k
  <2>4. Run(mem, L1 \o <<k>>) = After(half, k)
    BY <1>1, RunThen DEF half
  <2>5. \A s \in d, m \in Modes : After(half, k)[s][m] = {}
    BY <2>2, <2>3, AfterOff
  <2>6. disabled = TRUE
    BY <1>3
  <2>7. PureIn(After(half, k), d)
    BY <2>5 DEF PureIn
  <2> QED
    BY <2>1, <2>4, <2>6, <2>7
<1>4. CASE ~disabled
  <2>1. PICK front, known, written, last :
          SourcedAs(in, out, FALSE, front, known, written, last)
    BY SourcedParts
  <2> DEFINE A == front \o OuterSource
             B == ApplyActivation(FALSE)
             C == SecondOrder(in, out)
             R == A \o B
  <2>2. /\ Evaluation(in, out, FALSE, FALSE) = L1 \o (R \o C)
        /\ Turns(A, K0 \cup W1, known, written)
        /\ Makes(B, known, {<<"outer", "Forcing">>}, 1, {})
        /\ Makes(C, known \cup {<<"outer", "Forcing">>}, SecondSlots(out), 1, {})
        /\ written \subseteq SourcedSlots(out)
    BY <2>1, Zenon DEF SourcedAs, L1, K0, W1
  <2> HIDE DEF A, B, C
  <2> DEFINE mo == Run(half, A)
             ma == Run(mo, B)
             ms == Run(ma, C)
  <2>3. IsList(A) /\ IsList(B) /\ IsList(C)
    BY <2>2 DEF Turns, Makes
  <2>4. Run(mem, L1 \o (R \o C)) = ms
    <3>0. IsList(R) /\ IsList(R \o C)
      BY <2>3, ConcatList
    <3>1. Run(mem, L1 \o (R \o C)) = Run(half, R \o C)
      BY <1>1, <3>0, RunConcat DEF half
    <3>2. Run(half, R \o C) = Run(Run(half, R), C)
      BY <2>3, <3>0, RunConcat
    <3>3. Run(half, R) = ma
      BY <2>3, RunConcat
    <3> QED
      BY <3>1, <3>2, <3>3
  <2> HIDE DEF R
  <2>5. Sound(mo, {}) /\ Known(mo, known, g, 1) /\ Same(half, mo, written)
    BY <1>1, <2>2 DEF Turns
  <2> HIDE DEF mo
  <2>6. Same(mo, ma, {<<"outer", "Forcing">>})
    BY <2>2, <2>5 DEF Makes
  <2>7. \A m \in Modes : ma[<<"outer", "Forcing">>][m] = {}
    <3>1. ASSUME NEW m \in Modes PROVE ma[<<"outer", "Forcing">>][m] = {}
      <4>1. ma[<<"outer", "Forcing">>][m] = IF FALSE THEN mo[<<"outer", "Forcing">>][m] ELSE {}
        BY <2>5, ActivationForces DEF B
      <4> QED
        BY <4>1
    <3> QED
      BY <3>1
  <2> HIDE DEF ma
  <2>8. ASSUME NEW s \in given PROVE ma[s] = mem[s]
    <3>1. half[s] = mem[s]
      BY <1>1, <1>2 DEF Same
    <3>2. mo[s] = half[s]
      BY <1>2, <2>2, <2>5 DEF Same
    <3>3. s # <<"outer", "Forcing">>
      BY DEF given, StageViews
    <3>4. ma[s] = mo[s]
      BY <1>2, <2>6, <3>3 DEF Same
    <3> QED
      BY <3>1, <3>2, <3>4
  <2>9. PureIn(ma, given)
    BY <2>8 DEF PureIn, given
  <2>10. PureIn(ms, {out} \X SecondFields)
    BY <2>7, <2>9, SecondPure DEF C, given
  <2>11. disabled = FALSE
    BY <1>4
  <2> QED
    BY <2>2, <2>4, <2>10, <2>11 DEF R
<1> QED
  BY <1>3, <1>4

-----------------------------------------------------------------------------
(* The latch that a slope was launched with                                   *)

\* The latch closed by this time.
ClosedBy(latch, from) == latch.active /\ latch.activation_time <= from

\* The evaluation is a stage of a substep.
IsSlope(t) == t.task = "rhs" /\ t.out # "rhs"

\* The substep of the task at this place begins where the last one before it ends.
BeginsAt(q, i, start, from) ==
  \/ from = start /\ \A j \in 1 .. i - 1 : q[j].task # "accumulate"
  \/ \E j \in 1 .. i - 1 :
       /\ q[j].task = "accumulate" /\ Value(q[j]) = from
       /\ \A n \in 1 .. i - 1 : n > j => q[n].task # "accumulate"

\* Every stage that is waiting was launched with the latch as it was when its substep
\* began, which is before the host's time.
Told(q, start, latch, now) ==
  \A i \in 1 .. Len(q) : IsSlope(q[i]) =>
    \A from \in Nat : BeginsAt(q, i, start, from) =>
      (q[i].active <=> ClosedBy(latch, from)) /\ from < now

LEMMA ToldHead ==
  ASSUME NEW S, NEW q \in Seq(S), q # <<>>, NEW start \in Nat, NEW latch, NEW now,
         Told(q, start, latch, now), IsSlope(Head(q))
  PROVE  (Head(q).active <=> ClosedBy(latch, start)) /\ start < now
<1>1. Len(q) \in Nat /\ Len(q) > 0 /\ Head(q) = q[1]
  <2>1. Len(q) \in Nat /\ Head(q) = q[1]
    OBVIOUS
  <2>2. Len(q) > 0
    BY <2>1, EmptySeq
  <2> QED
    BY <2>1, <2>2
<1>2. 1 \in 1 .. Len(q) /\ \A j : j \notin 1 .. 1 - 1
  BY <1>1
<1>3. BeginsAt(q, 1, start, start)
  BY <1>2 DEF BeginsAt
<1> QED
  BY <1>1, <1>2, <1>3 DEF Told

LEMMA ToldTail ==
  ASSUME NEW S, NEW q \in Seq(S), q # <<>>, NEW start, NEW latch, NEW now,
         Told(q, start, latch, now)
  PROVE  Told(Tail(q), IF Head(q).task = "accumulate" THEN Value(Head(q)) ELSE start, latch, now)
<1> DEFINE w == Tail(q)
           t == Head(q)
           next == IF t.task = "accumulate" THEN Value(t) ELSE start
<1>1. /\ Len(q) \in Nat /\ Len(q) > 0 /\ Len(w) = Len(q) - 1
      /\ \A i \in 1 .. Len(w) : w[i] = q[i + 1]
      /\ t = q[1]
  <2>1. Len(q) \in Nat /\ t = q[1]
    OBVIOUS
  <2>2. Len(q) > 0
    BY <2>1, EmptySeq
  <2>3. /\ Len(w) = Len(q) - 1
        /\ \A i \in 1 .. Len(w) : w[i] = q[i + 1]
    BY HeadTailProperties
  <2> QED
    BY <2>1, <2>2, <2>3
<1> HIDE DEF w, t
<1>2. ASSUME NEW i \in 1 .. Len(w), NEW from, BeginsAt(w, i, next, from)
      PROVE  BeginsAt(q, i + 1, start, from)
  <2>0. /\ \A n \in 1 .. i - 1 : w[n] = q[n + 1] /\ n + 1 \in 1 .. (i + 1) - 1
        /\ 1 \in 1 .. (i + 1) - 1
    BY <1>1
  <2>1. ASSUME NEW n \in 1 .. (i + 1) - 1, n > 1
        PROVE  n - 1 \in 1 .. i - 1 /\ q[n] = w[n - 1]
    <3>1. n - 1 \in 1 .. i - 1 /\ (n - 1) + 1 = n
      BY <1>1, <2>1
    <3> QED
      BY <2>0, <3>1
  <2>2. CASE from = next /\ \A j \in 1 .. i - 1 : w[j].task # "accumulate"
    <3>1. \A n \in 1 .. (i + 1) - 1 : n > 1 => q[n].task # "accumulate"
      BY <2>1, <2>2
    <3>2. CASE t.task = "accumulate"
      BY <1>1, <2>0, <2>2, <3>1, <3>2 DEF BeginsAt
    <3>3. CASE t.task # "accumulate"
      <4>1. \A n \in 1 .. (i + 1) - 1 : n = 1 \/ n > 1
        BY <1>1
      <4>2. \A n \in 1 .. (i + 1) - 1 : q[n].task # "accumulate"
        BY <1>1, <3>1, <3>3, <4>1
      <4> QED
        BY <2>2, <3>3, <4>2 DEF BeginsAt
    <3> QED
      BY <3>2, <3>3
  <2>3. ASSUME NEW j \in 1 .. i - 1, w[j].task = "accumulate", Value(w[j]) = from,
               \A n \in 1 .. i - 1 : n > j => w[n].task # "accumulate"
        PROVE  BeginsAt(q, i + 1, start, from)
    <3>1. j + 1 \in 1 .. (i + 1) - 1 /\ w[j] = q[j + 1]
      BY <2>0
    <3>2. ASSUME NEW n \in 1 .. (i + 1) - 1, n > j + 1 PROVE q[n].task # "accumulate"
      <4>1. n > 1 /\ n - 1 > j
        BY <3>2
      <4> QED
        BY <2>1, <2>3, <4>1
    <3> QED
      BY <2>3, <3>1, <3>2 DEF BeginsAt
  <2> QED
    BY <1>2, <2>2, <2>3 DEF BeginsAt
<1> HIDE DEF next
<1>3. \A i \in 1 .. Len(w) : i + 1 \in 1 .. Len(q) /\ w[i] = q[i + 1]
  BY <1>1
<1>4. Told(w, next, latch, now)
  BY <1>2, <1>3 DEF Told
<1> QED
  BY <1>4 DEF w, t, next

\* The latch is as it was, or has closed now.
Closes(latch, later, now) ==
  \/ later.active = latch.active /\ later.activation_time = latch.activation_time
  \/ ~latch.active /\ later.active /\ later.activation_time = now

LEMMA ClosedBefore ==
  ASSUME NEW latch, NEW later, NEW now \in Nat, Closes(latch, later, now),
         NEW from \in Nat, from < now
  PROVE  ClosedBy(later, from) <=> ClosedBy(latch, from)
<1>1. ~ (now <= from)
  OBVIOUS
<1> QED
  BY <1>1 DEF Closes, ClosedBy

LEMMA ToldLater ==
  ASSUME NEW q, NEW start, NEW latch, NEW later, NEW now \in Nat, NEW then \in Nat, now <= then,
         Closes(latch, later, now), Told(q, start, latch, now)
  PROVE  Told(q, start, later, then)
<1>1. ASSUME NEW i \in 1 .. Len(q), IsSlope(q[i]), NEW from \in Nat, BeginsAt(q, i, start, from)
      PROVE  (q[i].active <=> ClosedBy(later, from)) /\ from < then
  <2>1. (q[i].active <=> ClosedBy(latch, from)) /\ from < now
    BY <1>1 DEF Told
  <2>2. ClosedBy(later, from) <=> ClosedBy(latch, from)
    BY <2>1, ClosedBefore
  <2>3. from < then
    BY <2>1
  <2> QED
    BY <2>1, <2>2, <2>3
<1> QED
  BY <1>1 DEF Told

LEMMA ToldJoin ==
  ASSUME NEW S, NEW q \in Seq(S), NEW r \in Seq(S), NEW start, NEW middle, NEW latch, NEW now,
         Told(q, start, latch, now), Ends(q, "accumulate", start, middle),
         Told(r, middle, latch, now)
  PROVE  Told(q \o r, start, latch, now)
<1> DEFINE w == q \o r
           stop == "accumulate"
<1>1. /\ Len(q) \in Nat /\ Len(r) \in Nat
      /\ Len(w) = Len(q) + Len(r)
      /\ \A i \in 1 .. Len(q) : w[i] = q[i]
      /\ \A i \in 1 .. Len(r) : w[Len(q) + i] = r[i]
  OBVIOUS
<1> HIDE DEF w
<1>2. ASSUME NEW i \in 1 .. Len(q), NEW from, BeginsAt(w, i, start, from)
      PROVE  BeginsAt(q, i, start, from)
  <2>1. \A j \in 1 .. i - 1 : w[j] = q[j]
    BY <1>1
  <2> QED
    BY <1>2, <2>1 DEF BeginsAt
<1>3. ASSUME NEW k \in 1 .. Len(r), NEW from, BeginsAt(w, Len(q) + k, start, from)
      PROVE  BeginsAt(r, k, middle, from)
  <2> DEFINE i == Len(q) + k
  <2>0. /\ \A n \in 1 .. Len(q) : n \in 1 .. i - 1 /\ w[n] = q[n]
        /\ \A n \in 1 .. k - 1 : Len(q) + n \in 1 .. i - 1 /\ w[Len(q) + n] = r[n]
        /\ i \in Nat
    <3>1. \A n \in 1 .. Len(q) : n \in 1 .. i - 1
      BY <1>1
    <3>2. \A n \in 1 .. k - 1 : Len(q) + n \in 1 .. i - 1 /\ n \in 1 .. Len(r)
      BY <1>1
    <3>3. i \in Nat
      BY <1>1
    <3> QED
      BY <1>1, <3>1, <3>2, <3>3
  <2>1. CASE from = start /\ \A j \in 1 .. i - 1 : w[j].task # stop
    <3>1. \A n \in 1 .. Len(q) : q[n].task # stop
      BY <2>0, <2>1
    <3>2. start = middle
      BY <3>1 DEF Ends
    <3>3. \A n \in 1 .. k - 1 : r[n].task # stop
      BY <2>0, <2>1
    <3> QED
      BY <2>1, <3>2, <3>3 DEF BeginsAt
  <2>2. ASSUME NEW j \in 1 .. i - 1, w[j].task = stop, Value(w[j]) = from,
               \A n \in 1 .. i - 1 : n > j => w[n].task # stop
        PROVE  BeginsAt(r, k, middle, from)
    <3>1. CASE j <= Len(q)
      <4>1. j \in 1 .. Len(q) /\ w[j] = q[j]
        BY <1>1, <2>0, <3>1
      <4>2. \A n \in 1 .. Len(q) : n > j => q[n].task # stop
        BY <2>0, <2>2
      <4>3. Value(q[j]) = middle
        BY <2>2, <4>1, <4>2 DEF Ends
      <4>4. ASSUME NEW n \in 1 .. k - 1 PROVE r[n].task # stop
        <5>1. Len(q) + n > j
          BY <1>1, <4>1
        <5> QED
          BY <2>0, <2>2, <5>1
      <4> QED
        BY <2>2, <4>1, <4>3, <4>4 DEF BeginsAt
    <3>2. CASE j > Len(q)
      <4>1. PICK l \in 1 .. k - 1 : j = Len(q) + l
        <5>1. j - Len(q) \in 1 .. k - 1 /\ j = Len(q) + (j - Len(q))
          BY <1>1, <2>0, <3>2
        <5> QED
          BY <5>1
      <4>2. r[l].task = stop /\ Value(r[l]) = from
        BY <2>0, <2>2, <4>1
      <4>3. ASSUME NEW n \in 1 .. k - 1, n > l PROVE r[n].task # stop
        <5>1. Len(q) + n > j
          BY <1>1, <4>1, <4>3
        <5> QED
          BY <2>0, <2>2, <5>1
      <4> QED
        BY <4>2, <4>3 DEF BeginsAt
    <3> QED
      BY <1>1, <2>0, <3>1, <3>2
  <2> QED
    BY <1>3, <2>1, <2>2 DEF BeginsAt
<1>4. ASSUME NEW i \in 1 .. Len(w), IsSlope(w[i]), NEW from \in Nat, BeginsAt(w, i, start, from)
      PROVE  (w[i].active <=> ClosedBy(latch, from)) /\ from < now
  <2>1. CASE i <= Len(q)
    <3>1. i \in 1 .. Len(q) /\ w[i] = q[i]
      BY <1>1, <2>1
    <3> QED
      BY <1>2, <1>4, <3>1 DEF Told
  <2>2. CASE i > Len(q)
    <3>1. PICK k \in 1 .. Len(r) : i = Len(q) + k
      <4>1. i - Len(q) \in 1 .. Len(r) /\ i = Len(q) + (i - Len(q))
        BY <1>1, <2>2
      <4> QED
        BY <4>1
    <3>2. w[i] = r[k]
      BY <1>1, <3>1
    <3> QED
      BY <1>3, <1>4, <3>1, <3>2 DEF Told
  <2> QED
    BY <1>1, <2>1, <2>2
<1>5. Told(w, start, latch, now)
  BY <1>4 DEF Told
<1> QED
  BY <1>5 DEF w

LEMMA ToldNone ==
  ASSUME NEW tasks, \A i \in 1 .. Len(tasks) : ~ IsSlope(tasks[i]), NEW start, NEW latch, NEW now
  PROVE  Told(tasks, start, latch, now)
  BY DEF Told

LEMMA ToldOne ==
  ASSUME NEW e, ~ IsSlope(e), NEW start, NEW latch, NEW now
  PROVE  Told(<<e>>, start, latch, now) /\ Told(<<>>, start, latch, now)
<1> DEFINE w == <<e>>
           none == <<>>
<1>1. Len(w) = 1 /\ w[1] = e /\ Len(none) = 0
  OBVIOUS
<1> HIDE DEF w, none
<1>2. (\A i \in 1 .. Len(w) : i = 1) /\ \A i : i \notin 1 .. Len(none)
  BY <1>1
<1>3. Told(w, start, latch, now) /\ Told(none, start, latch, now)
  BY <1>1, <1>2, ToldNone
<1> QED
  BY <1>3 DEF w, none

LEMMA ToldSubstep ==
  ASSUME NEW active, NEW to, NEW start \in Nat, NEW latch, NEW now,
         active <=> ClosedBy(latch, start), start < now
  PROVE  Told(RungeKutta(active, to), start, latch, now)
<1> DEFINE q == RungeKutta(active, to)
<1>1. /\ Len(q) = 8 /\ q[1] = Rhs("state", "k1", active)
      /\ q[2] = Form("k1") /\ q[3] = Rhs("stage", "k2", active)
      /\ q[4] = Form("k2") /\ q[5] = Rhs("stage", "k3", active)
      /\ q[6] = Form("k3") /\ q[7] = Rhs("stage", "k4", active)
      /\ q[8] = Accumulate(to)
  BY RungeKuttaTasks
<1> HIDE DEF q
<1>2. /\ q[1].task = "rhs" /\ q[3].task = "rhs" /\ q[5].task = "rhs" /\ q[7].task = "rhs"
      /\ q[1].active = active /\ q[3].active = active /\ q[5].active = active
      /\ q[7].active = active
      /\ q[2].task = "form" /\ q[4].task = "form" /\ q[6].task = "form"
      /\ q[8].task = "accumulate"
  BY <1>1 DEF Rhs, Form, Accumulate
<1>3. \A i \in 1 .. 8 : i = 1 \/ i = 2 \/ i = 3 \/ i = 4 \/ i = 5 \/ i = 6 \/ i = 7 \/ i = 8
  OBVIOUS
<1>4. ASSUME NEW i \in 1 .. Len(q), IsSlope(q[i]), NEW from \in Nat, BeginsAt(q, i, start, from)
      PROVE  (q[i].active <=> ClosedBy(latch, from)) /\ from < now
  <2>1. i \in 1 .. 8 /\ q[i].active = active
    BY <1>1, <1>2, <1>3, <1>4 DEF IsSlope
  <2>2. \A j \in 1 .. i - 1 : q[j].task # "accumulate"
    <3>1. \A j \in 1 .. i - 1 : j \in 1 .. 8 /\ j # 8
      BY <2>1
    <3> QED
      BY <1>2, <1>3, <3>1
  <2>3. from = start
    BY <1>4, <2>2 DEF BeginsAt
  <2> QED
    BY <2>1, <2>3
<1>5. Told(q, start, latch, now)
  BY <1>4 DEF Told
<1> QED
  BY <1>5 DEF q

\* A consideration closes the latch now, or leaves it.
LEMMA ConsideredCloses ==
  ASSUME NEW p \in Policy, NEW a \in Activation, NEW t \in Nat, NEW passed \in BOOLEAN
  PROVE  LET b == Considered(p, a, t, passed)
         IN  /\ Closes(a, b, t)
             /\ b.active => \/ a.active /\ b.activation_time = a.activation_time
                            \/ b.activation_time = t /\ p.mode # "Disabled"
<1> DEFINE b == Considered(p, a, t, passed)
<1>1. CASE ~Eligible(p, a, t)
  <2>1. b = a
    BY <1>1 DEF Considered
  <2> HIDE DEF b
  <2> QED
    BY <2>1 DEF Closes, b
<1>2. CASE Eligible(p, a, t)
  <2>1. ~a.active /\ p.mode # "Disabled"
    BY <1>2 DEF Eligible
  <2> DEFINE passes == IF p.mode = "Unrestricted"
                       THEN p.required ELSE PassesAfter(p, a, passed)
             counted == [a EXCEPT !.last_eligibility_time = t,
                                  !.consecutive_passes = passes]
  <2>2. b = IF passes >= p.required THEN Latched(counted, t) ELSE counted
    BY <1>2 DEF Considered, Decided
  <2> HIDE DEF passes
  <2>3. /\ counted.active = a.active /\ counted.activation_time = a.activation_time
        /\ Latched(counted, t).active = TRUE /\ Latched(counted, t).activation_time = t
    BY DEF Activation, Latched
  <2> HIDE DEF b, counted
  <2>4. CASE passes >= p.required
    BY <2>1, <2>2, <2>3, <2>4 DEF Closes, b
  <2>5. CASE ~ (passes >= p.required)
    BY <2>1, <2>2, <2>3, <2>5 DEF Closes, b
  <2> QED
    BY <2>4, <2>5
<1> QED
  BY <1>1, <1>2

\* The latch closed at a time the host has reached, and a substep it is about to
\* launch ends later, within the step.
TimeInv ==
  /\ activation.active => activation.activation_time <= time /\ policy.mode # "Disabled"
  /\ pc = "advance" => time < target /\ target <= stepEnd
  /\ pc \in {"entry", "start", "measureEntry", "measureStart"} => time < stepEnd

LEMMA InitTime == Init => TimeInv
<1> SUFFICES ASSUME Init PROVE TimeInv
  OBVIOUS
<1>1. ASSUME activation.active
      PROVE  activation.activation_time <= time /\ policy.mode # "Disabled"
  <2>1. policy \in Policy /\ activation = ResetActivation(policy) /\ time = 0
    BY PolicyType DEF Init
  <2>2. ~Fresh.active /\ Fresh \in Activation
    BY DEF Fresh, Activation, Never
  <2>3. policy.mode = "Unrestricted" /\ policy.start = 0
    BY <1>1, <2>1, <2>2 DEF ResetActivation
  <2>4. activation.activation_time = 0
    BY <2>1, <2>2, <2>3 DEF ResetActivation, Latched, Activation
  <2> QED
    BY <2>1, <2>3, <2>4
<1>2. pc = "idle"
  BY DEF Init
<1> QED
  BY <1>1, <1>2 DEF TimeInv

LEMMA ConsiderTime ==
  ASSUME HostTypes, TimeInv, NEW at \in Considers, Consider(at), UNCHANGED <<policy, time>>
  PROVE  /\ Closes(activation, activation', time)
         /\ activation'.active => activation'.activation_time <= time' /\ policy'.mode # "Disabled"
         /\ pc = at \/ pc = MeasureAt[at]
<1>1. PICK passed \in BOOLEAN : activation' = Considered(policy, activation, time, passed)
  BY DEF Consider
<1>2. /\ policy \in Policy /\ activation \in Activation /\ time \in Nat
  BY PolicyType DEF HostTypes
<1>3. /\ Closes(activation, activation', time)
      /\ activation'.active =>
           \/ activation.active /\ activation'.activation_time = activation.activation_time
           \/ activation'.activation_time = time /\ policy.mode # "Disabled"
  BY <1>1, <1>2, ConsideredCloses
<1>4. activation'.active => activation'.activation_time <= time /\ policy.mode # "Disabled"
  BY <1>2, <1>3 DEF TimeInv
<1>5. pc = at \/ pc = MeasureAt[at]
  BY DEF Consider
<1> QED
  BY <1>3, <1>4, <1>5

LEMMA HostTime ==
  ASSUME HostTypes, TimeInv, Host
  PROVE  TimeInv' /\ time <= time' /\ Closes(activation, activation', time)
<1>0. /\ time \in Nat /\ target \in Nat /\ stepEnd \in Nat /\ policy.start \in Nat
      /\ TimeSteps \subseteq Nat \ {0}
      /\ \A p \in {"idle", "sampling", "endpoint", "measureEndpoint", "advance"} :
           p \notin {"entry", "start", "measureEntry", "measureStart"}
      /\ \A p \in {"idle", "sampling", "entry", "start", "endpoint", "measureEntry",
                   "measureStart", "measureEndpoint"} : p # "advance"
  BY PolicyType, QueueAssumption DEF HostTypes
<1>1. /\ MeasureAt["entry"] = "measureEntry" /\ MeasureAt["start"] = "measureStart"
      /\ MeasureAt["endpoint"] = "measureEndpoint"
      /\ "entry" \in Considers /\ "start" \in Considers /\ "endpoint" \in Considers
  BY DEF MeasureAt, Considers
<1>2. ASSUME UNCHANGED activation PROVE Closes(activation, activation', time)
  BY <1>2 DEF Closes
<1>3. ASSUME NEW dt \in TimeSteps, BeginStep(dt)
      PROVE  TimeInv' /\ time <= time' /\ Closes(activation, activation', time)
  <2>1. dt \in Nat /\ dt > 0
    BY <1>0
  <2>2. stepEnd' = time + dt /\ pc' = "entry" /\ UNCHANGED <<policy, activation, time>>
    BY <1>3 DEF BeginStep
  <2> QED
    BY <1>0, <1>2, <2>1, <2>2 DEF TimeInv
<1>4. CASE Measure
  <2>1. pc \in Considers /\ pc' = MeasureAt[pc]
        /\ UNCHANGED <<policy, activation, time, target, stepEnd>>
    BY <1>4 DEF Measure
  <2>2. \/ pc = "entry" /\ pc' = "measureEntry"
        \/ pc = "start" /\ pc' = "measureStart"
        \/ pc = "endpoint" /\ pc' = "measureEndpoint"
    BY <1>1, <2>1 DEF Considers
  <2> QED
    BY <1>0, <1>2, <2>1, <2>2 DEF TimeInv
<1>5. CASE EnterStep
  <2>1. Consider("entry") /\ UNCHANGED <<policy, time, stepEnd>> /\ pc' = "advance"
        /\ target' = IF SplitsAt(policy, activation', time, stepEnd)
                     THEN policy.start ELSE stepEnd
    BY <1>5 DEF EnterStep
  <2>2. /\ Closes(activation, activation', time)
        /\ activation'.active => activation'.activation_time <= time' /\ policy'.mode # "Disabled"
        /\ pc = "entry" \/ pc = "measureEntry"
    BY <1>1, <2>1, ConsiderTime
  <2>3. time < stepEnd
    BY <2>2 DEF TimeInv
  <2>4. time < target' /\ target' <= stepEnd
    BY <1>0, <2>1, <2>3 DEF SplitsAt
  <2> QED
    BY <1>0, <2>1, <2>2, <2>4 DEF TimeInv
<1>6. CASE Advance
  <2>1. /\ pc = "advance" /\ time' = target /\ UNCHANGED <<policy, activation, target, stepEnd>>
        /\ pc' = IF target = stepEnd THEN "endpoint" ELSE "start"
    BY <1>6 DEF Advance
  <2>2. time < target /\ target <= stepEnd
    BY <2>1 DEF TimeInv
  <2>3. ASSUME activation'.active
        PROVE  activation'.activation_time <= time' /\ policy'.mode # "Disabled"
    <3>1. activation.active /\ activation.activation_time \in Int
      BY <2>1, <2>3 DEF HostTypes, Activation
    <3> QED
      BY <1>0, <2>1, <2>2, <3>1 DEF TimeInv
  <2>4. pc' = "endpoint" \/ (pc' = "start" /\ target < stepEnd)
    BY <1>0, <2>1, <2>2
  <2>5. TimeInv'
    BY <1>0, <2>1, <2>3, <2>4 DEF TimeInv
  <2> QED
    BY <1>0, <1>2, <2>1, <2>2, <2>5
<1>7. CASE ReachStart
  <2>1. Consider("start") /\ UNCHANGED <<policy, time, stepEnd>> /\ pc' = "advance"
        /\ target' = stepEnd
    BY <1>7 DEF ReachStart
  <2>2. /\ Closes(activation, activation', time)
        /\ activation'.active => activation'.activation_time <= time' /\ policy'.mode # "Disabled"
        /\ pc = "start" \/ pc = "measureStart"
    BY <1>1, <2>1, ConsiderTime
  <2>3. time < stepEnd
    BY <2>2 DEF TimeInv
  <2> QED
    BY <1>0, <2>1, <2>2, <2>3 DEF TimeInv
<1>8. CASE EndStep
  <2>1. Consider("endpoint") /\ UNCHANGED <<policy, time, stepEnd>> /\ pc' = "idle"
    BY <1>8 DEF EndStep
  <2>2. /\ Closes(activation, activation', time)
        /\ activation'.active => activation'.activation_time <= time' /\ policy'.mode # "Disabled"
    BY <1>1, <2>1, ConsiderTime
  <2> QED
    BY <1>0, <2>1, <2>2 DEF TimeInv
<1>9. CASE Sample
  <2>1. pc' = "sampling" /\ UNCHANGED <<policy, activation, time>>
    BY <1>9 DEF Sample
  <2> QED
    BY <1>0, <1>2, <2>1 DEF TimeInv
<1>10. CASE Report
  <2>1. pc' = "idle" /\ UNCHANGED <<policy, activation, time>>
    BY <1>10 DEF Report
  <2> QED
    BY <1>0, <1>2, <2>1 DEF TimeInv
<1> QED
  BY <1>3, <1>4, <1>5, <1>6, <1>7, <1>8, <1>9, <1>10 DEF Host

\* What the host launches is told the latch.
LEMMA LaunchTold ==
  ASSUME HostTypes, TimeInv, NEW tasks, HostLaunches(tasks)
  PROVE  Told(tasks, time, activation', time')
<1>1. CASE tasks = <<>>
  <2> DEFINE e == Sync(TRUE)
  <2>1. ~ IsSlope(e)
    BY DEF Sync, IsSlope
  <2> HIDE DEF e
  <2>2. Told(<<>>, time, activation', time')
    BY <2>1, ToldOne
  <2> QED
    BY <1>1, <2>2
<1>2. CASE tasks = <<Sync(TRUE)>>
  <2> DEFINE e == Sync(TRUE)
  <2>1. ~ IsSlope(e)
    BY DEF Sync, IsSlope
  <2> HIDE DEF e
  <2>2. Told(<<e>>, time, activation', time')
    BY <2>1, ToldOne
  <2> QED
    BY <1>2, <2>2 DEF e
<1>3. CASE tasks = <<Rhs("state", "rhs", activation.active)>>
  <2> DEFINE e == Rhs("state", "rhs", activation.active)
  <2>1. ~ IsSlope(e)
    BY DEF Rhs, IsSlope
  <2> HIDE DEF e
  <2>2. Told(<<e>>, time, activation', time')
    BY <2>1, ToldOne
  <2> QED
    BY <1>3, <2>2 DEF e
<1>4. CASE /\ tasks = RungeKutta(activation.active, target)
           /\ activation' = activation /\ time' = target /\ pc = "advance"
  <2>1. time \in Nat /\ time < target
    BY <1>4 DEF HostTypes, TimeInv
  <2>2. activation.active <=> ClosedBy(activation, time)
    BY DEF TimeInv, ClosedBy
  <2>3. Told(RungeKutta(activation.active, target), time, activation, target)
    BY <2>1, <2>2, ToldSubstep
  <2> QED
    BY <1>4, <2>3
<1> QED
  BY <1>1, <1>2, <1>3, <1>4 DEF HostLaunches

\* Every stage in the queue was launched with the latch at the beginning of its substep.
ToldInv == TimeInv /\ Told(queue, reached, activation, time)

LEMMA InitTold == Init => ToldInv
<1> SUFFICES ASSUME Init PROVE ToldInv
  OBVIOUS
<1>1. Len(<<>>) = 0 /\ \A i : i \notin 1 .. 0
  OBVIOUS
<1>2. Told(<<>>, reached, activation, time)
  BY <1>1, ToldNone
<1>3. queue = <<>>
  BY DEF Init
<1> QED
  BY <1>2, <1>3, InitTime DEF ToldInv

LEMMA HostTold ==
  ASSUME QueueInv, ReadInv, ToldInv, Host
  PROVE  ToldInv'
<1>1. UNCHANGED <<policy, device>> /\ HostTypes' /\ \E tasks \in Seq(Tasks) : Launch(tasks) /\ HostLaunches(tasks)
  BY HostStep DEF QueueInv
<1>2. PICK tasks \in Seq(Tasks) : Launch(tasks) /\ HostLaunches(tasks)
  BY <1>1
<1>3. TimeInv' /\ time <= time' /\ Closes(activation, activation', time)
  BY HostTime DEF QueueInv, ToldInv
<1>4. /\ queue \in Seq(Tasks) /\ queue' = queue \o tasks /\ reached' = reached
      /\ time \in Nat /\ time' \in Nat
  BY <1>1, <1>2 DEF QueueInv, HostTypes, Launch, device
<1> HIDE DEF Tasks
<1>5. Told(queue, reached, activation', time')
  BY <1>3, <1>4, ToldLater DEF ToldInv
<1>6. Told(tasks, time, activation', time')
  BY <1>2, LaunchTold DEF QueueInv, ToldInv
<1>7. Ends(queue, "accumulate", reached, time)
  BY DEF ReadInv
<1>8. Told(queue \o tasks, reached, activation', time')
  BY <1>4, <1>5, <1>6, <1>7, ToldJoin
<1> QED
  BY <1>3, <1>4, <1>8 DEF ToldInv

LEMMA ExecuteTold ==
  ASSUME QueueInv, ToldInv, Execute
  PROVE  ToldInv'
<1> DEFINE t == Head(queue)
           w == Tail(queue)
<1>1. queue \in Seq(Tasks) /\ queue # <<>> /\ t \in Tasks /\ queue' = w
      /\ UNCHANGED <<policy, pc, activation, time, target, stepEnd>>
  BY HeadTask DEF QueueInv, HostTypes, Execute, host
<1>2. ExecuteRhs(t) \/ ExecuteForm(t) \/ ExecuteAccumulate(t) \/ ExecuteSync(t)
  BY DEF Execute
<1> HIDE DEF Tasks
<1>3. Told(w, IF t.task = "accumulate" THEN Value(t) ELSE reached, activation, time)
  BY <1>1, ToldTail DEF ToldInv
<1> HIDE DEF t, w
<1>4. reached' = IF t.task = "accumulate" THEN Value(t) ELSE reached
  BY <1>1, <1>2, TaskTells
<1>5. Told(w, reached', activation, time)
  BY <1>3, <1>4, Zenon
<1>6. TimeInv'
  BY <1>1 DEF ToldInv, TimeInv
<1> QED
  BY <1>1, <1>5, <1>6 DEF ToldInv

LEMMA NextTold == QueueInv /\ ReadInv /\ ToldInv /\ [Next]_vars => ToldInv'
<1> SUFFICES ASSUME QueueInv, ReadInv, ToldInv, [Next]_vars PROVE ToldInv'
  OBVIOUS
<1>1. CASE Host
  BY <1>1, HostTold
<1>2. CASE Execute
  BY <1>2, ExecuteTold
<1>3. CASE UNCHANGED vars
  BY <1>3 DEF ToldInv, TimeInv, vars, host, device
<1> QED
  BY <1>1, <1>2, <1>3 DEF Next

\* A view has something of first order at every parent; a slope has a source.
Carried(mem, view) == \A m \in Parents : Foreign(mem, <<view, "FirstPsi">>, m)
ForcedIn(mem, k) ==
  \E f \in SecondFields, m \in Modes : \E i \in mem[<<k, f>>][m] : i.field \notin SecondFields

LEMMA ForcedHere ==
  /\ \A k : Forced(k) <=> ForcedIn(memory, k)
  /\ \A k : Forced(k)' <=> ForcedIn(memory', k)
  BY DEF Forced, ForcedIn

\* The quadratic source is no more in a stage than in the state: what they hold is
\* sums, of the fields they are sums of.
CarryInv ==
  /\ PureIn(memory, StageViews \X SecondFields)
  /\ Carried(memory, "state")
  /\ First(queue) >= 2 => Carried(memory, "stage")

LEMMA InitCarry == Init => CarryInv
<1> SUFFICES ASSUME Init PROVE CarryInv
  OBVIOUS
<1>1. PICK fields \in {FirstFields, Fields} : memory = Loaded(fields)
  BY DEF Init
<1>2. queue = <<>>
  BY DEF Init
<1> DEFINE input(s, m) == [generation |-> 0, field |-> s[2], mode |-> m, rate |-> 0]
           here(s, m) == /\ s[1] = "state" /\ s[2] \in fields
                         /\ m \in IF s[2] \in SecondFields THEN Targets ELSE Parents
<1>3. \A s \in Slots, m \in Modes : memory[s][m] = IF here(s, m) THEN {input(s, m)} ELSE {}
  BY <1>1 DEF Loaded
<1>4. \A s, m : "field" \in DOMAIN input(s, m) /\ input(s, m).field = s[2]
  OBVIOUS
<1>5. \A v \in StageViews, f \in Fields : <<v, f>> \in Slots
  BY VectorSlots DEF Vectors, Holds
<1>6. SecondFields \subseteq Fields /\ "FirstPsi" \in Fields /\ "FirstPsi" \in FirstFields
      /\ "FirstPsi" \notin SecondFields /\ FirstFields \subseteq fields
      /\ "state" \in StageViews /\ Parents \subseteq Modes
  BY RegistryAssumption DEF Fields, FirstFields, SecondFields, StageViews
<1>7. ASSUME NEW v \in StageViews, NEW f \in SecondFields, NEW m \in Modes,
             NEW i \in memory[<<v, f>>][m]
      PROVE  "field" \in DOMAIN i /\ i.field \in SecondFields
  <2> DEFINE s == <<v, f>>
  <2>1. s \in Slots /\ s[2] = f
    BY <1>5, <1>6
  <2>2. i \in IF here(s, m) THEN {input(s, m)} ELSE {}
    BY <1>3, <1>7, <2>1
  <2> HIDE DEF here, input
  <2>3. i = input(s, m)
    BY <2>2
  <2> QED
    BY <1>4, <2>1, <2>3
<1>8. PureIn(memory, StageViews \X SecondFields)
  BY <1>7 DEF PureIn
<1>9. ASSUME NEW m \in Parents PROVE Foreign(memory, <<"state", "FirstPsi">>, m)
  <2> DEFINE s == <<"state", "FirstPsi">>
  <2>1. s \in Slots /\ s[1] = "state" /\ s[2] = "FirstPsi" /\ m \in Modes
    BY <1>5, <1>6
  <2>2. here(s, m)
    BY <1>6, <2>1
  <2> HIDE DEF here, input
  <2>3. input(s, m) \in memory[s][m]
    BY <1>3, <2>1, <2>2
  <2>4. Foreigner(input(s, m))
    BY <1>4, <1>6, <2>1 DEF Foreigner
  <2> QED
    BY <2>3, <2>4 DEF Foreign
<1>10. ~ (First(queue) >= 2)
  BY <1>2 DEF First
<1> QED
  BY <1>8, <1>9, <1>10 DEF CarryInv, Carried

\* Filling a view makes it a sum of what the state has, and leaves the others.
LEMMA FillCarries ==
  ASSUME NEW view \in StageViews, NEW terms, "state" \in terms, Fill(view, terms),
         Carried(memory, "state")
  PROVE  /\ PureIn(memory', {view} \X SecondFields)
         /\ Carried(memory', view)
         /\ \A v \in (StageViews \cup OutputViews) \ {view}, f \in Fields :
              memory'[<<v, f>>] = memory[<<v, f>>]
<1> DEFINE new == holds["state"] + holds["stage"] + 1
           input(s, m) == [generation |-> new, field |-> s[2], mode |-> m, rate |-> 0]
           zero(s, m) == \A v \in terms : memory[<<v, s[2]>>][m] = {}
<1>1. memory' = Combined(memory, view, terms, new)
  BY DEF Fill, Combined
<1>2. /\ \A s \in Slots : s \notin {view} \X Fields => memory'[s] = memory[s]
      /\ \A s \in Slots, m \in Modes : s \in {view} \X Fields =>
           memory'[s][m] = IF zero(s, m) THEN {} ELSE {input(s, m)}
  BY <1>1 DEF Combined
<1>3. \A s, m : "field" \in DOMAIN input(s, m) /\ input(s, m).field = s[2]
  OBVIOUS
<1>4. \A v \in StageViews \cup OutputViews, f \in Fields : <<v, f>> \in Slots
  BY VectorSlots DEF Vectors, Holds
<1>5. SecondFields \subseteq Fields /\ "FirstPsi" \in Fields
      /\ "FirstPsi" \notin SecondFields /\ Parents \subseteq Modes
  BY RegistryAssumption DEF Fields, FirstFields, SecondFields
<1> HIDE DEF new
<1>6. ASSUME NEW f \in SecondFields, NEW m \in Modes, NEW i \in memory'[<<view, f>>][m]
      PROVE  "field" \in DOMAIN i /\ i.field \in SecondFields
  <2> DEFINE s == <<view, f>>
  <2>1. s \in Slots /\ s[2] = f /\ s \in {view} \X Fields
    BY <1>4, <1>5
  <2> HIDE DEF zero, input
  <2>2. i \in IF zero(s, m) THEN {} ELSE {input(s, m)}
    BY <1>2, <1>6, <2>1
  <2>3. i = input(s, m)
    BY <2>2
  <2> QED
    BY <1>3, <2>1, <2>3
<1>7. ASSUME NEW m \in Parents PROVE Foreign(memory', <<view, "FirstPsi">>, m)
  <2> DEFINE s == <<view, "FirstPsi">>
  <2>1. s \in Slots /\ s[2] = "FirstPsi" /\ s \in {view} \X Fields /\ m \in Modes
    BY <1>4, <1>5
  <2>2. memory[<<"state", "FirstPsi">>][m] # {}
    BY DEF Carried, Foreign
  <2>3. ~ zero(s, m)
    BY <2>1, <2>2
  <2> HIDE DEF zero, input
  <2>4. input(s, m) \in memory'[s][m]
    <3> HIDE DEF s
    <3>1. memory'[s][m] = IF zero(s, m) THEN {} ELSE {input(s, m)}
      BY <1>2, <2>1
    <3> QED
      BY <2>3, <3>1
  <2>5. Foreigner(input(s, m))
    BY <1>3, <1>5, <2>1 DEF Foreigner
  <2> QED
    BY <2>4, <2>5 DEF Foreign
<1>8. \A v \in (StageViews \cup OutputViews) \ {view}, f \in Fields :
        memory'[<<v, f>>] = memory[<<v, f>>]
  BY <1>2, <1>4
<1> QED
  BY <1>6, <1>7, <1>8 DEF PureIn, Carried

\* What a view keeps as it was.
LEMMA KeptCarries ==
  ASSUME NEW mem, NEW new, NEW v, \A f \in Fields : new[<<v, f>>] = mem[<<v, f>>]
  PROVE  /\ Carried(mem, v) => Carried(new, v)
         /\ PureIn(mem, {v} \X SecondFields) => PureIn(new, {v} \X SecondFields)
         /\ ForcedIn(new, v) <=> ForcedIn(mem, v)
<1>1. SecondFields \subseteq Fields /\ "FirstPsi" \in Fields
  BY DEF Fields, FirstFields, SecondFields
<1>2. Carried(mem, v) => Carried(new, v)
  BY <1>1 DEF Carried, Foreign
<1>3. PureIn(mem, {v} \X SecondFields) => PureIn(new, {v} \X SecondFields)
  BY <1>1 DEF PureIn
<1>4. ForcedIn(new, v) <=> ForcedIn(mem, v)
  BY <1>1 DEF ForcedIn
<1> QED
  BY <1>2, <1>3, <1>4

LEMMA PureParts ==
  ASSUME NEW mem
  PROVE  PureIn(mem, StageViews \X SecondFields) <=>
           PureIn(mem, {"state"} \X SecondFields) /\ PureIn(mem, {"stage"} \X SecondFields)
  BY DEF PureIn, StageViews

\* The registry has a pair for some target (ModeRegistry::ordered_pairs is not
\* empty); without one there is no source, whatever the latch says.
Supplied == \E t \in Targets : Pairs(t) # {}

\* A slope is forced as its evaluation was told.
LEMMA SlopeForced ==
  ASSUME QueueInv, Supplied, NEW t \in Tasks, ExecuteRhs(t),
         PureIn(memory, {t.in} \X SecondFields), Carried(memory, t.in),
         t.active => policy.mode # "Disabled"
  PROVE  ForcedIn(memory', t.out) <=> t.active
<1> DEFINE disabled == policy.mode = "Disabled"
<1>1. t.in \in StageViews /\ t.out \in OutputViews /\ t.active \in BOOLEAN
  BY TaskKinds DEF ExecuteRhs
<1>2. disabled \in BOOLEAN /\ memory' = Run(memory, Evaluation(t.in, t.out, disabled, t.active))
  BY DEF ExecuteRhs
<1>3. Sound(memory, {}) /\ Known(memory, {t.in} \X Fields, holds[t.in], 0)
  BY <1>1 DEF QueueInv, Fitted
<1>4. t.active => ~disabled
  OBVIOUS
<1> HIDE DEF disabled
<1>5. ASSUME t.active = TRUE PROVE ForcedIn(memory', t.out)
  <2>1. memory' = Run(memory, Evaluation(t.in, t.out, FALSE, TRUE))
    <3>1. disabled = FALSE
      BY <1>2, <1>4, <1>5
    <3> QED
      BY <1>2, <1>5, <3>1
  <2>2. PICK to \in Targets : Pairs(to) # {}
    BY DEF Supplied
  <2>3. PICK p : p \in Pairs(to)
    BY <2>2
  <2>4. p[1] \in Parents
    BY <2>3 DEF Pairs
  <2>5. Foreign(memory, <<t.in, "FirstPsi">>, p[1])
    BY <2>4 DEF Carried
  <2>6. Foreign(memory', <<t.out, "SecondP">>, to)
    BY <1>1, <1>3, <2>1, <2>3, <2>5, EvaluationCarries
  <2>7. "SecondP" \in SecondFields /\ to \in Modes
    BY RegistryAssumption DEF SecondFields
  <2> QED
    BY <2>6, <2>7 DEF ForcedIn, Foreign, Foreigner
<1>6. ASSUME t.active = FALSE PROVE ~ForcedIn(memory', t.out)
  <2>1. memory' = Run(memory, Evaluation(t.in, t.out, disabled, FALSE))
    BY <1>2, <1>6
  <2>2. PureIn(memory', {t.out} \X SecondFields)
    <3> DEFINE in == t.in
               out == t.out
               g == holds[t.in]
    <3>1. /\ in \in StageViews /\ out \in OutputViews /\ disabled \in BOOLEAN
          /\ Sound(memory, {}) /\ Known(memory, {in} \X Fields, g, 0)
          /\ PureIn(memory, {in} \X SecondFields)
      BY <1>1, <1>2, <1>3
    <3> HIDE DEF in, out, g
    <3>2. PureIn(Run(memory, Evaluation(in, out, disabled, FALSE)), {out} \X SecondFields)
      BY <3>1, EvaluationPure
    <3> QED
      BY <2>1, <3>2 DEF in, out
  <2> QED
    BY <2>2 DEF ForcedIn, PureIn
<1> QED
  BY <1>1, <1>5, <1>6

\* The slopes made so far, and those behind each substep, are forced as the latch
\* says of the beginning of their substep.
ForceInv ==
  /\ \A i \in 1 .. 4 : 2 * i - 1 <= First(queue) =>
       (ForcedIn(memory, Slopes[i]) <=> ClosedBy(activation, reached))
  /\ First(queue) >= 1 => reached < time
  /\ \A s \in substeps :
       /\ TRUE \in s.forced <=> ClosedBy(activation, s.from)
       /\ FALSE \in s.forced <=> ~ClosedBy(activation, s.from)
       /\ s.from < time

LatchInv == ToldInv /\ CarryInv /\ ForceInv

LEMMA InitLatch == Init => LatchInv
<1> SUFFICES ASSUME Init PROVE LatchInv
  OBVIOUS
<1>1. queue = <<>> /\ substeps = {}
  BY DEF Init
<1>2. First(queue) = 0
  BY <1>1 DEF First
<1>3. \A i \in 1 .. 4 : ~ (2 * i - 1 <= 0)
  OBVIOUS
<1>4. ForceInv
  BY <1>1, <1>2, <1>3 DEF ForceInv
<1> QED
  BY <1>4, InitTold, InitCarry DEF LatchInv

LEMMA HostLatch ==
  ASSUME QueueInv, StageInv, ReadInv, LatchInv, Host
  PROVE  LatchInv'
<1>1. ToldInv'
  BY HostTold DEF LatchInv
<1>2. UNCHANGED <<policy, device>> /\ \E tasks \in Seq(Tasks) : Launch(tasks) /\ HostLaunches(tasks)
  BY HostStep DEF QueueInv
<1>3. PICK tasks \in Seq(Tasks) : Launch(tasks) /\ HostLaunches(tasks)
  BY <1>2
<1>4. First(tasks) = 0 /\ Chained(tasks)
  BY <1>3, LaunchedChained
<1>5. queue \in Seq(Tasks) /\ Chained(queue) /\ queue' = queue \o tasks
  BY <1>3 DEF QueueInv, HostTypes, StageInv, Launch
<1>6. UNCHANGED <<memory, reached, substeps>>
  BY <1>2 DEF device
<1> HIDE DEF Tasks
<1>7. First(queue') = First(queue)
  BY <1>4, <1>5, ChainedJoin
<1>8. CarryInv'
  BY <1>6, <1>7 DEF LatchInv, CarryInv
<1>9. time <= time' /\ Closes(activation, activation', time) /\ time \in Nat /\ time' \in Nat
  <2>1. HostTypes'
    BY HostStep DEF QueueInv
  <2> QED
    BY <2>1, HostTime DEF QueueInv, LatchInv, ToldInv, HostTypes
<1>10. ASSUME NEW from \in Nat, from < time
       PROVE  (ClosedBy(activation', from) <=> ClosedBy(activation, from)) /\ from < time'
  <2>1. ClosedBy(activation', from) <=> ClosedBy(activation, from)
    BY <1>9, <1>10, ClosedBefore
  <2>2. from < time'
    BY <1>9, <1>10
  <2> QED
    BY <2>1, <2>2
<1>11. reached \in Nat /\ \A s \in substeps : s.from \in Nat
  BY DEF QueueInv, DeviceTypes
<1>12. ASSUME NEW i \in 1 .. 4, 2 * i - 1 <= First(queue)
       PROVE  ForcedIn(memory, Slopes[i]) <=> ClosedBy(activation', reached)
  <2>1. First(queue) >= 1
    <3>1. First(queue) \in Nat
      BY DEF First, Enters
    <3> QED
      BY <1>12, <3>1
  <2>2. reached < time
    BY <2>1 DEF LatchInv, ForceInv
  <2> QED
    BY <1>10, <1>11, <1>12, <2>2 DEF LatchInv, ForceInv
<1>13. First(queue) >= 1 => reached < time'
  BY <1>10, <1>11 DEF LatchInv, ForceInv
<1>14. ASSUME NEW s \in substeps
       PROVE  /\ TRUE \in s.forced <=> ClosedBy(activation', s.from)
              /\ FALSE \in s.forced <=> ~ClosedBy(activation', s.from)
              /\ s.from < time'
  <2>1. s.from \in Nat /\ s.from < time
    BY <1>11 DEF LatchInv, ForceInv
  <2> QED
    BY <1>10, <2>1 DEF LatchInv, ForceInv
<1>15. ForceInv'
  BY <1>6, <1>7, <1>12, <1>13, <1>14 DEF ForceInv
<1> QED
  BY <1>1, <1>8, <1>15 DEF LatchInv

\* The place of a slope, and of the stage it is computed from.
LEMMA SlopePlace ==
  ASSUME NEW t, t.task = "rhs", t.out \in OutputViews, Scripted(t)
  PROVE  \/ /\ t.out = "rhs" /\ Enters(t) = 0 /\ Goes(t) = 0 /\ ~IsSlope(t)
         \/ /\ IsSlope(t)
            /\ \E j \in 1 .. 4 :
                 /\ t.out = Slopes[j] /\ Enters(t) = 2 * j - 2 /\ Goes(t) = 2 * j - 1
                 /\ t.in = IF j = 1 THEN "state" ELSE "stage"
<1>0. /\ 2 * 1 - 2 = 0 /\ 2 * 2 - 2 = 2 /\ 2 * 3 - 2 = 4 /\ 2 * 4 - 2 = 6
      /\ 2 * 1 - 1 = 1 /\ 2 * 2 - 1 = 3 /\ 2 * 3 - 1 = 5 /\ 2 * 4 - 1 = 7
      /\ 0 + 1 = 1 /\ 2 + 1 = 3 /\ 4 + 1 = 5 /\ 6 + 1 = 7
      /\ 1 \in 1 .. 4 /\ 2 \in 1 .. 4 /\ 3 \in 1 .. 4 /\ 4 \in 1 .. 4
      /\ 2 # 1 /\ 3 # 1 /\ 4 # 1
  OBVIOUS
<1>1. CASE t.out = "rhs"
  BY <1>1 DEF Enters, Goes, IsSlope
<1>2. CASE t.out = "k1"
  <2>1. IsSlope(t) /\ Enters(t) = 0 /\ Goes(t) = 0 + 1 /\ t.in = "state"
    BY <1>2 DEF Enters, Goes, IsSlope, Scripted
  <2> QED
    BY <1>0, <1>2, <2>1, SlopesDiffer
<1>3. CASE t.out = "k2"
  <2>1. IsSlope(t) /\ Enters(t) = 2 /\ Goes(t) = 2 + 1 /\ t.in = "stage"
    BY <1>3 DEF Enters, Goes, IsSlope, Scripted
  <2> QED
    BY <1>0, <1>3, <2>1, SlopesDiffer
<1>4. CASE t.out = "k3"
  <2>1. IsSlope(t) /\ Enters(t) = 4 /\ Goes(t) = 4 + 1 /\ t.in = "stage"
    BY <1>4 DEF Enters, Goes, IsSlope, Scripted
  <2> QED
    BY <1>0, <1>4, <2>1, SlopesDiffer
<1>5. CASE t.out = "k4"
  <2>1. IsSlope(t) /\ Enters(t) = 6 /\ Goes(t) = 6 + 1 /\ t.in = "stage"
    BY <1>5 DEF Enters, Goes, IsSlope, Scripted
  <2> QED
    BY <1>0, <1>5, <2>1, SlopesDiffer
<1> QED
  BY <1>1, <1>2, <1>3, <1>4, <1>5 DEF OutputViews

\* What the device has executed of an evaluation, ...
LEMMA RhsForces ==
  ASSUME QueueInv, LatchInv, Supplied, queue # <<>>, NEW t \in Tasks, t = Head(queue),
         ExecuteRhs(t), Scripted(t), First(queue) = Enters(t), First(queue)' = Goes(t),
         UNCHANGED <<activation, time>>
  PROVE  CarryInv' /\ ForceInv'
<1>1. /\ t.in \in StageViews /\ t.out \in OutputViews /\ t.active \in BOOLEAN /\ t.task = "rhs"
      /\ UNCHANGED <<reached, substeps>>
  BY TaskKinds DEF ExecuteRhs
<1>2. \A v \in (StageViews \cup OutputViews) \ {t.out}, f \in Fields :
        memory'[<<v, f>>] = memory[<<v, f>>]
  BY RhsStep DEF Leaves
<1>3. "state" \in (StageViews \cup OutputViews) \ {t.out}
      /\ "stage" \in (StageViews \cup OutputViews) \ {t.out}
  BY <1>1 DEF StageViews, OutputViews
<1>4. /\ PureIn(memory, {"state"} \X SecondFields) /\ PureIn(memory, {"stage"} \X SecondFields)
      /\ PureIn(memory', {"state"} \X SecondFields) /\ PureIn(memory', {"stage"} \X SecondFields)
      /\ Carried(memory', "state") /\ Carried(memory, "state")
      /\ Carried(memory, "stage") => Carried(memory', "stage")
  BY <1>2, <1>3, PureParts, KeptCarries DEF LatchInv, CarryInv
<1>5. CASE t.out = "rhs" /\ Enters(t) = 0 /\ Goes(t) = 0
  <2>0. ~ (First(queue)' >= 2)
    BY <1>5
  <2>1. CarryInv'
    BY <1>4, <2>0, PureParts DEF CarryInv
  <2>2. \A i \in 1 .. 4 : ~ (2 * i - 1 <= 0)
    OBVIOUS
  <2>3. ForceInv'
    BY <1>1, <1>5, <2>2 DEF LatchInv, ForceInv
  <2> QED
    BY <2>1, <2>3
<1>6. ASSUME IsSlope(t), NEW j \in 1 .. 4, t.out = Slopes[j], Enters(t) = 2 * j - 2,
             Goes(t) = 2 * j - 1, t.in = IF j = 1 THEN "state" ELSE "stage"
      PROVE  CarryInv' /\ ForceInv'
  <2>1. j = 1 \/ First(queue) >= 2
    BY <1>6
  <2>2. Carried(memory, t.in) /\ PureIn(memory, {t.in} \X SecondFields)
    BY <1>4, <1>6, <2>1 DEF LatchInv, CarryInv
  <2>3. (t.active <=> ClosedBy(activation, reached)) /\ reached < time
    <3>1. queue \in Seq(Tasks) /\ reached \in Nat /\ Told(queue, reached, activation, time)
      BY DEF QueueInv, HostTypes, DeviceTypes, LatchInv, ToldInv
    <3> HIDE DEF Tasks
    <3> QED
      BY <1>6, <3>1, ToldHead
  <2>4. t.active => policy.mode # "Disabled"
    BY <2>3 DEF ClosedBy, LatchInv, ToldInv, TimeInv
  <2>5. ForcedIn(memory', t.out) <=> t.active
    BY <2>2, <2>4, SlopeForced
  <2>6. CarryInv'
    <3>1. First(queue)' >= 2 => First(queue) >= 2
      BY <1>6
    <3> QED
      BY <1>4, <3>1, PureParts DEF LatchInv, CarryInv
  <2>7. ASSUME NEW i \in 1 .. 4, 2 * i - 1 <= First(queue)'
        PROVE  ForcedIn(memory', Slopes[i]) <=> ClosedBy(activation, reached)
    <3>1. CASE i = j
      BY <1>6, <2>3, <2>5, <3>1
    <3>2. CASE i # j
      <4>1. 2 * i - 1 <= First(queue)
        BY <1>6, <2>7, <3>2
      <4>2. Slopes[i] \in (StageViews \cup OutputViews) \ {t.out}
        BY <1>6, <3>2, SlopesDiffer
      <4>3. ForcedIn(memory', Slopes[i]) <=> ForcedIn(memory, Slopes[i])
        BY <1>2, <4>2, KeptCarries
      <4> QED
        BY <4>1, <4>3 DEF LatchInv, ForceInv
    <3> QED
      BY <3>1, <3>2
  <2>8. ForceInv'
    BY <1>1, <2>3, <2>7 DEF LatchInv, ForceInv
  <2> QED
    BY <2>6, <2>8
<1> QED
  BY <1>1, <1>5, <1>6, SlopePlace

\* ... of a stage that is formed, ...
LEMMA FormForces ==
  ASSUME QueueInv, LatchInv, NEW t \in Tasks, ExecuteForm(t), Scripted(t),
         First(queue) = Enters(t), First(queue)' = Goes(t), UNCHANGED <<activation, time>>
  PROVE  CarryInv' /\ ForceInv'
<1>1. /\ Fill("stage", {"state", t.k}) /\ UNCHANGED <<reached, substeps>>
      /\ t.task = "form" /\ "stage" \in StageViews /\ "state" \in StageViews
  BY DEF ExecuteForm, StageViews
<1>2. /\ PureIn(memory', {"stage"} \X SecondFields) /\ Carried(memory', "stage")
      /\ \A v \in (StageViews \cup OutputViews) \ {"stage"}, f \in Fields :
           memory'[<<v, f>>] = memory[<<v, f>>]
  BY <1>1, FillCarries DEF LatchInv, CarryInv
<1>3. \A v \in OutputViews \cup {"state"} : v \in (StageViews \cup OutputViews) \ {"stage"}
  BY DEF StageViews, OutputViews
<1>4. CarryInv'
  <2>1. PureIn(memory', {"state"} \X SecondFields) /\ Carried(memory', "state")
    BY <1>2, <1>3, PureParts, KeptCarries DEF LatchInv, CarryInv
  <2> QED
    BY <1>2, <2>1, PureParts DEF CarryInv
<1>5. /\ Enters(t) \in {1, 3, 5} /\ Goes(t) = Enters(t) + 1
  BY <1>1 DEF Enters, Goes
<1>6. ASSUME NEW i \in 1 .. 4, 2 * i - 1 <= First(queue)'
      PROVE  ForcedIn(memory', Slopes[i]) <=> ClosedBy(activation, reached)
  <2>1. 2 * i - 1 <= First(queue)
    BY <1>5, <1>6
  <2>2. ForcedIn(memory', Slopes[i]) <=> ForcedIn(memory, Slopes[i])
    BY <1>2, <1>3, SlopesDiffer, KeptCarries
  <2> QED
    BY <2>1, <2>2 DEF LatchInv, ForceInv
<1>7. reached < time
  <2>1. First(queue) >= 1
    BY <1>5
  <2> QED
    BY <2>1 DEF LatchInv, ForceInv
<1>8. ForceInv'
  BY <1>1, <1>6, <1>7 DEF LatchInv, ForceInv
<1> QED
  BY <1>4, <1>8

\* ... and of a state that is accumulated.
LEMMA AccumulateForces ==
  ASSUME QueueInv, LatchInv, NEW t \in Tasks, ExecuteAccumulate(t),
         First(queue) = Enters(t), First(queue)' = Goes(t), UNCHANGED <<activation, time>>
  PROVE  CarryInv' /\ ForceInv'
<1> DEFINE forced == {Forced(k) : k \in Range(Slopes)}
           s == [from |-> reached, to |-> t.to, forced |-> forced]
<1>1. /\ Fill("state", {"state"} \cup Range(Slopes)) /\ substeps' = substeps \cup {s}
      /\ t.task = "accumulate" /\ "stage" \in StageViews /\ "state" \in StageViews
      /\ "state" \in {"state"} \cup Range(Slopes)
  BY DEF ExecuteAccumulate, StageViews
<1>2. Enters(t) = 7 /\ Goes(t) = 0
  BY <1>1 DEF Enters, Goes
<1>3. /\ PureIn(memory', {"state"} \X SecondFields) /\ Carried(memory', "state")
      /\ \A v \in (StageViews \cup OutputViews) \ {"state"}, f \in Fields :
           memory'[<<v, f>>] = memory[<<v, f>>]
  BY <1>1, FillCarries DEF LatchInv, CarryInv
<1>4. CarryInv'
  <2>1. "stage" \in (StageViews \cup OutputViews) \ {"state"}
    BY DEF StageViews
  <2>2. PureIn(memory', {"stage"} \X SecondFields)
    BY <1>3, <2>1, PureParts, KeptCarries DEF LatchInv, CarryInv
  <2>3. ~ (First(queue)' >= 2)
    BY <1>2
  <2> QED
    BY <1>3, <2>2, <2>3, PureParts DEF CarryInv
<1>5. \A k \in Range(Slopes) : Forced(k) <=> ClosedBy(activation, reached)
  <2>1. \A i \in 1 .. 4 : 2 * i - 1 <= First(queue)
    BY <1>2
  <2>2. \A i \in 1 .. 4 : Forced(Slopes[i]) <=> ClosedBy(activation, reached)
    BY <2>1, ForcedHere DEF LatchInv, ForceInv
  <2>3. \A k \in Range(Slopes) : \E i \in 1 .. 4 : k = Slopes[i]
    BY DEF Range, Slopes
  <2> QED
    BY <2>2, <2>3
<1>6. "k1" \in Range(Slopes)
  BY DEF Range, Slopes
<1>7. /\ TRUE \in forced <=> ClosedBy(activation, reached)
      /\ FALSE \in forced <=> ~ClosedBy(activation, reached)
  <2>1. ASSUME ClosedBy(activation, reached) PROVE TRUE \in forced /\ FALSE \notin forced
    <3>1. \A k \in Range(Slopes) : Forced(k) = TRUE
      BY <1>5, <2>1, Zenon DEF Forced
    <3> QED
      BY <1>6, <3>1
  <2>2. ASSUME ~ClosedBy(activation, reached) PROVE TRUE \notin forced /\ FALSE \in forced
    <3>1. \A k \in Range(Slopes) : Forced(k) = FALSE
      BY <1>5, <2>2, Zenon DEF Forced
    <3> QED
      BY <1>6, <3>1
  <2> QED
    BY <2>1, <2>2
<1>8. reached < time
  <2>1. First(queue) >= 1
    BY <1>2
  <2> QED
    BY <2>1 DEF LatchInv, ForceInv
<1> HIDE DEF forced
<1>9. s.from = reached /\ s.forced = forced
  OBVIOUS
<1> HIDE DEF s
<1>10. \A i \in 1 .. 4 : ~ (2 * i - 1 <= First(queue)')
  BY <1>2
<1>11. ~ (First(queue)' >= 1)
  BY <1>2
<1>12. ASSUME NEW e \in substeps'
       PROVE  /\ TRUE \in e.forced <=> ClosedBy(activation, e.from)
              /\ FALSE \in e.forced <=> ~ClosedBy(activation, e.from)
              /\ e.from < time
  <2>1. CASE e \in substeps
    BY <2>1 DEF LatchInv, ForceInv
  <2>2. CASE e = s
    BY <1>7, <1>8, <1>9, <2>2
  <2> QED
    BY <1>1, <2>1, <2>2
<1>13. ForceInv'
  BY <1>10, <1>11, <1>12 DEF ForceInv
<1> QED
  BY <1>4, <1>13

LEMMA ExecuteLatch ==
  ASSUME QueueInv, StageInv, LatchInv, Supplied, Execute
  PROVE  LatchInv'
<1> DEFINE t == Head(queue)
<1>1. /\ queue \in Seq(Tasks) /\ queue # <<>> /\ t \in Tasks /\ queue' = Tail(queue)
      /\ UNCHANGED <<activation, time>>
  BY HeadTask DEF QueueInv, HostTypes, Execute, host
<1>2. ExecuteRhs(t) \/ ExecuteForm(t) \/ ExecuteAccumulate(t) \/ ExecuteSync(t)
  BY DEF Execute
<1>3. ToldInv'
  BY ExecuteTold DEF LatchInv
<1>4. t = Head(queue)
  OBVIOUS
<1> HIDE DEF t, Tasks
<1>5. First(queue)' = Goes(t) /\ Scripted(t) /\ First(queue) = Enters(t)
  <2>1. First(Tail(queue)) = Goes(t) /\ Scripted(t) /\ First(queue) = Enters(t)
    BY <1>1, ChainedTail DEF StageInv, t
  <2>2. First(queue)' = First(Tail(queue))
    BY <1>1 DEF First
  <2> QED
    BY <2>1, <2>2
<1>6. CASE ExecuteRhs(t)
  <2>1. CarryInv' /\ ForceInv'
    BY <1>1, <1>4, <1>5, <1>6, RhsForces
  <2> QED
    BY <1>3, <2>1 DEF LatchInv
<1>7. CASE ExecuteForm(t)
  <2>1. CarryInv' /\ ForceInv'
    BY <1>1, <1>5, <1>7, FormForces
  <2> QED
    BY <1>3, <2>1 DEF LatchInv
<1>8. CASE ExecuteAccumulate(t)
  <2>1. CarryInv' /\ ForceInv'
    BY <1>1, <1>5, <1>8, AccumulateForces
  <2> QED
    BY <1>3, <2>1 DEF LatchInv
<1>9. CASE ExecuteSync(t)
  <2>1. Enters(t) = 0 /\ Goes(t) = 0 /\ UNCHANGED <<memory, reached, substeps>>
    BY <1>9 DEF ExecuteSync, Enters, Goes
  <2>2. First(queue)' = First(queue)
    BY <1>5, <2>1
  <2>3. CarryInv'
    BY <2>1, <2>2 DEF LatchInv, CarryInv
  <2>4. ForceInv'
    BY <1>1, <2>1, <2>2 DEF LatchInv, ForceInv
  <2> QED
    BY <1>3, <2>3, <2>4 DEF LatchInv
<1> QED
  BY <1>2, <1>6, <1>7, <1>8, <1>9

LEMMA NextLatch ==
  QueueInv /\ StageInv /\ ReadInv /\ Supplied /\ LatchInv /\ [Next]_vars => LatchInv'
<1> SUFFICES ASSUME QueueInv, StageInv, ReadInv, Supplied, LatchInv, [Next]_vars
             PROVE  LatchInv'
  OBVIOUS
<1>1. CASE Host
  BY <1>1, HostLatch
<1>2. CASE Execute
  BY <1>2, ExecuteLatch
<1>3. CASE UNCHANGED vars
  BY <1>3 DEF LatchInv, ToldInv, TimeInv, CarryInv, ForceInv, vars, host, device
<1> QED
  BY <1>1, <1>2, <1>3 DEF Next

LEMMA LatchForces == QueueInv /\ LatchInv => ForcedAsLatched
<1> SUFFICES ASSUME QueueInv, LatchInv, NEW s \in substeps
             PROVE  s.forced = {activation.active /\ activation.activation_time <= s.from}
  BY DEF ForcedAsLatched
<1> DEFINE closed == activation.active /\ activation.activation_time <= s.from
<1>1. s.forced \subseteq BOOLEAN
  BY DEF QueueInv, DeviceTypes
<1>2. /\ TRUE \in s.forced <=> closed
      /\ FALSE \in s.forced <=> ~closed
  BY DEF LatchInv, ForceInv, ClosedBy
<1>3. closed \in BOOLEAN
  OBVIOUS
<1> HIDE DEF closed
<1>4. ASSUME closed = TRUE PROVE s.forced = {closed}
  <2>1. TRUE \in s.forced /\ FALSE \notin s.forced
    BY <1>2, <1>4
  <2>2. s.forced = {TRUE}
    BY <1>1, <2>1
  <2> QED
    BY <1>4, <2>2
<1>5. ASSUME closed = FALSE PROVE s.forced = {closed}
  <2>1. TRUE \notin s.forced /\ FALSE \in s.forced
    BY <1>2, <1>5
  <2>2. s.forced = {FALSE}
    BY <1>1, <2>1
  <2> QED
    BY <1>5, <2>2
<1>6. s.forced = {closed}
  BY <1>3, <1>4, <1>5
<1> QED
  BY <1>6 DEF closed

LEMMA LatchAlways == Supplied /\ Spec => [](QueueInv /\ StageInv /\ ReadInv /\ LatchInv)
<1> SUFFICES ASSUME Supplied PROVE Spec => [](QueueInv /\ StageInv /\ ReadInv /\ LatchInv)
  OBVIOUS
<1>1. Init => LatchInv
  BY InitLatch
<1>2. QueueInv /\ StageInv /\ ReadInv /\ LatchInv /\ [Next]_vars
        => (QueueInv /\ StageInv /\ ReadInv /\ LatchInv)'
  BY NextQueue, NextStages, NextReads, NextLatch
<1>3. Init => QueueInv /\ StageInv /\ ReadInv
  BY InitQueue, InitStages, InitReads
<1> QED
  BY <1>1, <1>2, <1>3, PTL DEF Spec

\* What the device executes is what the host decided, however far ahead the host
\* is: where some target has a pair, the four slopes behind a substep are forced
\* exactly when the latch, also one that closes after the substep was launched,
\* closed no later than the substep began (consider_source_activation,
\* advance_fixed_source_step and the flag evaluate_rhs_at_time captures).
THEOREM SubstepsAreForcedAsLatched == Supplied /\ Spec => []ForcedAsLatched
<1> SUFFICES ASSUME Supplied PROVE Spec => []ForcedAsLatched
  OBVIOUS
<1> QED
  BY LatchAlways, LatchForces, PTL
=============================================================================
