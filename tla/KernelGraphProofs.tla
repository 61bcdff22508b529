-------------------------- MODULE KernelGraphProofs --------------------------
(***************************************************************************)
(* Lemmas about KernelGraph, for every memory, kernel and set of modes:     *)
(* what one kernel leaves in a slot, and what a list of kernels launched    *)
(* one behind the other leaves.  The proofs about the modules that are made *)
(* of kernels cite them.                                                    *)
(***************************************************************************)
EXTENDS KernelGraph, WellFoundedInduction, TLAPS

-----------------------------------------------------------------------------
(* Induction over the kernels of a list.  A nonempty set of natural numbers  *)
(* has a least element, so one that is closed under successor has no gap.    *)

Smaller == {ss \in Nat \X Nat : ss[1] < ss[2]}

LEMMA SmallerWellFounded == IsWellFoundedOn(Smaller, Nat)
  BY NatLessThanWellFounded DEF OpToRel, Smaller

LEMMA Steps ==
  ASSUME NEW S, 0 \in S, \A n \in Nat : n \in S => n + 1 \in S
  PROVE  Nat \subseteq S
<1> SUFFICES ASSUME ~ (Nat \subseteq S) PROVE FALSE
  OBVIOUS
<1> DEFINE T == Nat \ S
<1>1. T \subseteq Nat /\ T # {}
  OBVIOUS
<1>2. PICK x \in T : \A y \in T : ~ (<<y, x>> \in Smaller)
  BY <1>1, SmallerWellFounded, WFMin
<1>3. x \in Nat /\ x # 0
  BY <1>2
<1>4. x - 1 \in Nat /\ x - 1 < x /\ (x - 1) + 1 = x
  BY <1>3
<1>5. x - 1 \in S
  <2>1. <<x - 1, x>> \in Smaller
    BY <1>3, <1>4 DEF Smaller
  <2> QED
    BY <1>2, <1>4, <2>1
<1> QED
  BY <1>2, <1>4, <1>5

-----------------------------------------------------------------------------
(* Running kernels *)

\* done is the memory after each of the first n kernels.
RunOf(memory, kernels, done, n) ==
  done = [k \in 0 .. n |-> IF k = 0 THEN memory ELSE After(done[k - 1], kernels[k])]

LEMMA RunExists ==
  ASSUME NEW memory, NEW kernels, NEW n \in Nat
  PROVE  \E done : RunOf(memory, kernels, done, n)
<1> DEFINE S == {k \in Nat : \E f : RunOf(memory, kernels, f, k)}
<1>1. 0 \in S
  <2>1. RunOf(memory, kernels, [k \in 0 .. 0 |-> memory], 0)
    BY DEF RunOf
  <2> QED
    BY <2>1
<1>2. ASSUME NEW k \in Nat, k \in S PROVE k + 1 \in S
  <2>1. PICK f : RunOf(memory, kernels, f, k)
    BY <1>2
  <2> DEFINE g == [i \in 0 .. k + 1 |->
                     IF i = k + 1 THEN After(f[k], kernels[k + 1]) ELSE f[i]]
  <2>2. \A i \in 0 .. k : g[i] = f[i]
    OBVIOUS
  <2>3. \A i \in 0 .. k :
          f[i] = IF i = 0 THEN memory ELSE After(f[i - 1], kernels[i])
    BY <2>1 DEF RunOf
  <2>4. ASSUME NEW i \in 0 .. k + 1
        PROVE  g[i] = IF i = 0 THEN memory ELSE After(g[i - 1], kernels[i])
    <3>1. CASE i = 0
      BY <2>2, <2>3, <3>1
    <3>2. CASE i \in 1 .. k
      <4>1. i - 1 \in 0 .. k /\ i \in 0 .. k
        BY <3>2
      <4> QED
        BY <2>2, <2>3, <3>2, <4>1
    <3>3. CASE i = k + 1
      <4>1. i - 1 = k /\ i # 0 /\ k \in 0 .. k
        BY <3>3
      <4>2. g[i - 1] = f[k] /\ g[i] = After(f[k], kernels[k + 1])
        BY <2>2, <3>3, <4>1
      <4> QED
        BY <3>3, <4>1, <4>2
    <3> QED
      BY <3>1, <3>2, <3>3
  <2>5. RunOf(memory, kernels, g, k + 1)
    <3> HIDE DEF g
    <3>1. g = [i \in 0 .. k + 1 |-> g[i]]
      BY DEF g
    <3> QED
      BY <2>4, <3>1 DEF RunOf
  <2> QED
    BY <2>5
<1>3. Nat \subseteq S
  <2> HIDE DEF S
  <2> QED
    BY <1>1, <1>2, Steps
<1> QED
  BY <1>3

\* Run is the memory after the last kernel, from the memory it was given, each
\* kernel launched on what the one before has left.
LEMMA RunSteps ==
  ASSUME NEW memory, NEW kernels, Len(kernels) \in Nat
  PROVE  \E done :
           /\ done[0] = memory
           /\ \A n \in 1 .. Len(kernels) : done[n] = After(done[n - 1], kernels[n])
           /\ Run(memory, kernels) = done[Len(kernels)]
<1>1. \E f : RunOf(memory, kernels, f, Len(kernels))
  BY RunExists
<1> DEFINE done == CHOOSE f : RunOf(memory, kernels, f, Len(kernels))
<1>2. RunOf(memory, kernels, done, Len(kernels))
  BY <1>1
<1>3. Run(memory, kernels) = done[Len(kernels)]
  BY DEF Run, RunOf
<1> HIDE DEF done
<1>4. \A n \in 0 .. Len(kernels) :
        done[n] = IF n = 0 THEN memory ELSE After(done[n - 1], kernels[n])
  BY <1>2 DEF RunOf
<1> QED
  BY <1>3, <1>4

-----------------------------------------------------------------------------
(* What a kernel leaves *)

Written(kernel) == {r.slot : r \in kernel}

\* Of some slots, each mode holds nothing but what is allowed there.
Within(memory, slots, allowed) ==
  \A s \in slots, m \in Modes : memory[s][m] \subseteq allowed[s][m]

\* A kernel makes allowed contents of allowed contents: what it reads lies in
\* the given slots, and arrives with the right number of time derivatives.
Keeps(kernel, slots, allowed) ==
  \A r \in kernel : \A q \in r.reads :
    /\ q.slot \in slots
    /\ \A m \in Modes :
         /\ q.sign * m \in Modes
         /\ \A i \in allowed[q.slot][q.sign * m] :
              Moved(i, r.raise - q.rate) \in allowed[r.slot][m]

LEMMA AfterDomain ==
  ASSUME NEW memory, NEW kernel
  PROVE  DOMAIN After(memory, kernel) = DOMAIN memory
  BY DEF After

\* A slot that a kernel does not write keeps its contents.
LEMMA AfterElsewhere ==
  ASSUME NEW memory, NEW kernel, NEW s \in DOMAIN memory, s \notin Written(kernel)
  PROVE  After(memory, kernel)[s] = memory[s]
  BY DEF After, Written

\* What is in a slot that a kernel writes came from one of its reads.
LEMMA AfterWritten ==
  ASSUME NEW memory, NEW kernel, NEW s \in DOMAIN memory, s \in Written(kernel),
         NEW m \in Modes
  PROVE  \A i : i \in After(memory, kernel)[s][m] <=>
           \E r \in kernel : /\ r.slot = s
                             /\ \E q \in r.reads : \E j \in memory[q.slot][q.sign * m] :
                                  i = Moved(j, r.raise - q.rate)
<1>1. After(memory, kernel)[s][m] =
        UNION {Result(memory, r, m) : r \in {q \in kernel : q.slot = s}}
  BY DEF After, Written
<1>2. ASSUME NEW r, NEW i
      PROVE  i \in Result(memory, r, m) <=>
               \E q \in r.reads : \E j \in memory[q.slot][q.sign * m] :
                 i = Moved(j, r.raise - q.rate)
  <2> DEFINE From(q) == {Moved(j, r.raise - q.rate) : j \in memory[q.slot][q.sign * m]}
  <2>1. Result(memory, r, m) = UNION {From(q) : q \in r.reads}
    BY DEF Result
  <2>2. \A q : i \in From(q) <=> \E j \in memory[q.slot][q.sign * m] :
                                   i = Moved(j, r.raise - q.rate)
    OBVIOUS
  <2> HIDE DEF From
  <2>3. i \in Result(memory, r, m) <=> \E q \in r.reads : i \in From(q)
    BY <2>1
  <2> QED
    BY <2>2, <2>3
<1>3. ASSUME NEW i
      PROVE  i \in After(memory, kernel)[s][m] <=>
               \E r \in kernel : r.slot = s /\ i \in Result(memory, r, m)
  BY <1>1, Zenon
<1> QED
  BY <1>2, <1>3

\* A kernel that keeps what is allowed adds the slots that it writes to those
\* that hold nothing else.
LEMMA AfterWithin ==
  ASSUME NEW memory, NEW kernel, NEW slots, NEW allowed,
         slots \subseteq DOMAIN memory, Written(kernel) \subseteq DOMAIN memory,
         Within(memory, slots, allowed), Keeps(kernel, slots, allowed)
  PROVE  Within(After(memory, kernel), slots \cup Written(kernel), allowed)
<1> SUFFICES ASSUME NEW s \in slots \cup Written(kernel), NEW m \in Modes,
                    NEW i \in After(memory, kernel)[s][m]
             PROVE  i \in allowed[s][m]
  BY DEF Within
<1>1. CASE s \notin Written(kernel)
  BY <1>1, AfterElsewhere DEF Within
<1>2. CASE s \in Written(kernel)
  <2>1. PICK r \in kernel :
          /\ r.slot = s
          /\ \E q \in r.reads : \E j \in memory[q.slot][q.sign * m] :
               i = Moved(j, r.raise - q.rate)
    BY <1>2, AfterWritten
  <2>2. PICK q \in r.reads : \E j \in memory[q.slot][q.sign * m] :
               i = Moved(j, r.raise - q.rate)
    BY <2>1
  <2>3. PICK j \in memory[q.slot][q.sign * m] : i = Moved(j, r.raise - q.rate)
    BY <2>2
  <2>4. q.slot \in slots /\ q.sign * m \in Modes
    BY DEF Keeps
  <2>5. j \in allowed[q.slot][q.sign * m]
    BY <2>3, <2>4 DEF Within
  <2> QED
    BY <2>1, <2>3, <2>5 DEF Keeps
<1> QED
  BY <1>1, <1>2

\* A kernel whose results all have no reads leaves nothing in them.
LEMMA AfterEmpty ==
  ASSUME NEW memory, NEW kernel, NEW s \in DOMAIN memory, s \in Written(kernel),
         \A r \in kernel : r.reads = {}
  PROVE  \A m \in Modes : After(memory, kernel)[s][m] = {}
<1> SUFFICES ASSUME NEW m \in Modes, NEW i \in After(memory, kernel)[s][m]
             PROVE  FALSE
  OBVIOUS
<1> QED
  BY AfterWritten

LEMMA GatedReady ==
  ASSUME NEW ready, ready, NEW kernel
  PROVE  Gated(ready, kernel) = kernel
  BY Zenon DEF Gated

\* A gated kernel is itself when its inputs are good, and writes the same slots
\* from nothing when they are not.
LEMMA GatedKernel ==
  ASSUME NEW ready \in BOOLEAN, NEW kernel,
         \A r \in kernel : r = [slot |-> r.slot, reads |-> r.reads, raise |-> r.raise]
  PROVE  /\ ready => Gated(ready, kernel) = kernel
         /\ ~ready => \A r \in Gated(ready, kernel) : r.reads = {}
         /\ Written(Gated(ready, kernel)) = Written(kernel)
<1>1. \A r \in kernel : [r EXCEPT !.reads = {}].slot = r.slot
                        /\ [r EXCEPT !.reads = {}].reads = {}
  <2> SUFFICES ASSUME NEW r \in kernel
               PROVE  [r EXCEPT !.reads = {}].slot = r.slot
                      /\ [r EXCEPT !.reads = {}].reads = {}
    OBVIOUS
  <2>1. DOMAIN r = {"slot", "reads", "raise"}
    OBVIOUS
  <2> QED
    BY <2>1
<1> QED
  BY <1>1, ZenonT(60) DEF Gated, Written

-----------------------------------------------------------------------------
(* What a list of kernels leaves *)

\* A slot that none of them writes keeps its contents.
LEMMA RunElsewhere ==
  ASSUME NEW memory, NEW kernels, Len(kernels) \in Nat, NEW s \in DOMAIN memory,
         \A n \in 1 .. Len(kernels) : s \notin Written(kernels[n])
  PROVE  /\ DOMAIN Run(memory, kernels) = DOMAIN memory
         /\ Run(memory, kernels)[s] = memory[s]
<1>1. PICK d : /\ d[0] = memory
               /\ \A n \in 1 .. Len(kernels) : d[n] = After(d[n - 1], kernels[n])
               /\ Run(memory, kernels) = d[Len(kernels)]
  BY RunSteps
<1> DEFINE Same(n) == DOMAIN d[n] = DOMAIN memory /\ d[n][s] = memory[s]
           S == {n \in Nat : n <= Len(kernels) => Same(n)}
<1>2. 0 \in S
  BY <1>1
<1>3. ASSUME NEW n \in Nat, n \in S PROVE n + 1 \in S
  <2> SUFFICES ASSUME n + 1 <= Len(kernels) PROVE Same(n + 1)
    OBVIOUS
  <2>1. Same(n) /\ n + 1 \in 1 .. Len(kernels) /\ (n + 1) - 1 = n
    BY <1>3
  <2>2. d[n + 1] = After(d[n], kernels[n + 1])
    BY <1>1, <2>1
  <2> QED
    BY <2>1, <2>2, AfterDomain, AfterElsewhere
<1>4. Len(kernels) \in S
  <2> HIDE DEF S
  <2> QED
    BY <1>2, <1>3, Steps
<1> QED
  BY <1>1, <1>4

\* A slot that one of them writes from nothing, and no later one from something,
\* is empty.
LEMMA RunEmpty ==
  ASSUME NEW memory, NEW kernels, Len(kernels) \in Nat, NEW s \in DOMAIN memory,
         NEW first \in 1 .. Len(kernels), s \in Written(kernels[first]),
         \A n \in first .. Len(kernels) :
           s \in Written(kernels[n]) => \A r \in kernels[n] : r.reads = {}
  PROVE  \A m \in Modes : Run(memory, kernels)[s][m] = {}
<1>1. PICK d : /\ d[0] = memory
               /\ \A n \in 1 .. Len(kernels) : d[n] = After(d[n - 1], kernels[n])
               /\ Run(memory, kernels) = d[Len(kernels)]
  BY RunSteps
<1> DEFINE Empty(n) == \A m \in Modes : d[n][s][m] = {}
           S == {n \in Nat : n <= Len(kernels) =>
                   /\ DOMAIN d[n] = DOMAIN memory
                   /\ n >= first => Empty(n)}
<1>2. 0 \in S
  BY <1>1
<1>3. ASSUME NEW n \in Nat, n \in S PROVE n + 1 \in S
  <2> SUFFICES ASSUME n + 1 <= Len(kernels)
               PROVE  /\ DOMAIN d[n + 1] = DOMAIN memory
                      /\ n + 1 >= first => Empty(n + 1)
    OBVIOUS
  <2> DEFINE k == kernels[n + 1]
  <2>1. DOMAIN d[n] = DOMAIN memory /\ (n >= first => Empty(n))
    BY <1>3
  <2>2. d[n + 1] = After(d[n], k)
    <3>1. n + 1 \in 1 .. Len(kernels) /\ (n + 1) - 1 = n
      OBVIOUS
    <3> QED
      BY <1>1, <3>1
  <2>3. n + 1 >= first /\ s \in Written(k) => \A r \in k : r.reads = {}
    OBVIOUS
  <2>4. n + 1 >= first /\ s \notin Written(k) => n >= first
    OBVIOUS
  <2> HIDE DEF k
  <2>5. DOMAIN d[n + 1] = DOMAIN memory
    BY <2>1, <2>2, AfterDomain
  <2>6. ASSUME n + 1 >= first, s \in Written(k), NEW m \in Modes
        PROVE  After(d[n], k)[s][m] = {}
    BY <2>1, <2>3, <2>6, AfterEmpty
  <2>7. ASSUME n + 1 >= first, s \notin Written(k), NEW m \in Modes
        PROVE  After(d[n], k)[s][m] = {}
    BY <2>1, <2>4, <2>7, AfterElsewhere
  <2> QED
    BY <2>2, <2>5, <2>6, <2>7
<1>4. Len(kernels) \in S
  <2> HIDE DEF S
  <2> QED
    BY <1>2, <1>3, Steps
<1> QED
  BY <1>1, <1>4

\* What the fields of a view were computed from.
LEMMA InputsFrom ==
  ASSUME NEW memory, NEW view, NEW fields, NEW i
  PROVE  i \in InputsOf(memory, view, fields) <=>
           \E f \in fields, m \in Modes : i \in memory[<<view, f>>][m]
<1> DEFINE Held(f, m) == memory[<<view, f>>][m]
           all == {Held(f, m) : f \in fields, m \in Modes}
<1>1. InputsOf(memory, view, fields) = UNION all
  BY DEF InputsOf
<1> HIDE DEF Held
<1>2. i \in UNION all <=> \E x \in all : i \in x
  OBVIOUS
<1>3. \A x : x \in all <=> \E f \in fields, m \in Modes : x = Held(f, m)
  OBVIOUS
<1>4. i \in UNION all <=> \E f \in fields, m \in Modes : i \in Held(f, m)
  BY <1>2, <1>3
<1> QED
  BY <1>1, <1>4 DEF Held
=============================================================================
