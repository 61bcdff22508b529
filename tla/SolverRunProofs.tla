--------------------------- MODULE SolverRunProofs ---------------------------
(***************************************************************************)
(* Proofs about the life of a run and what it is started with.             *)
(*                                                                         *)
(* SolverRun, for every set of policies, length of a step, lengths,        *)
(* intervals and number of legs: a chain of legs that are stopped, killed  *)
(* and resumed is the run that never was; a checkpoint has its waveforms   *)
(* beside it; success means a finite and complete run.                     *)
(*                                                                         *)
(* Plus2Companion, for every set of sources, time steps, runs and files,   *)
(* and any number of processes.  CompanionInv adds to the properties what  *)
(* the pipeline's history says of the sources that drove the companion,    *)
(* what a save under way has captured, and where a companion restored as   *)
(* zero stands before its first step.                                      *)
(*                                                                         *)
(* RunConfiguration, for every set of settings: an override counts, the    *)
(* resolved file is read back as the run it was written by, and no product *)
(* of two modes is lost.  The properties are about what one reading of the *)
(* settings gives, so their invariants are small (ConfigurationInv,        *)
(* ListsInv) and their lemmas are about the functions of the reading.      *)
(***************************************************************************)
EXTENDS SolverRun, Plus2Companion, RunConfiguration,
        FiniteSetTheorems, WellFoundedInduction, TLAPS

-----------------------------------------------------------------------------
(* Induction over steps.  A nonempty set of natural numbers has a least      *)
(* element, hence one that is closed under successor has no gap.             *)

Less == {ss \in Nat \X Nat : ss[1] < ss[2]}

LEMMA LessWellFounded == IsWellFoundedOn(Less, Nat)
  BY NatLessThanWellFounded DEF OpToRel, Less

LEMMA LeastNatural ==
  ASSUME NEW T, T \subseteq Nat, T # {}
  PROVE  \E x \in T : \A y \in T : ~ (y < x)
<1>1. \E x \in T : \A y \in T : ~ (<<y, x>> \in Less)
  BY LessWellFounded, WFMin
<1> QED
  BY <1>1 DEF Less

LEMMA StepsInduction ==
  ASSUME NEW S, 0 \in S, \A n \in Nat : n \in S => n + 1 \in S
  PROVE  Nat \subseteq S
<1> SUFFICES ASSUME ~ (Nat \subseteq S) PROVE FALSE
  OBVIOUS
<1> DEFINE T == Nat \ S
<1>1. T \subseteq Nat /\ T # {}
  OBVIOUS
<1>2. PICK x \in T : \A y \in T : ~ (y < x)
  BY <1>1, LeastNatural
<1>3. x \in Nat /\ x # 0
  BY <1>2
<1>4. x - 1 \in Nat /\ x - 1 < x /\ (x - 1) + 1 = x
  BY <1>3
<1>5. x - 1 \in S
  BY <1>2, <1>4
<1> QED
  BY <1>2, <1>4, <1>5

-----------------------------------------------------------------------------
(* The run that is never interrupted *)

\* f is that run for the first n steps.
RunOf(met, p, f, n) ==
  f = [k \in 0 .. n |-> IF k = 0 THEN Gaussian(p)
                        ELSE Advanced(met, p, f[k - 1], (k - 1) * StepLength)]

LEMMA RunExists ==
  ASSUME NEW met, NEW p, NEW n \in Nat
  PROVE  \E f : RunOf(met, p, f, n)
<1> DEFINE S == {k \in Nat : \E f : RunOf(met, p, f, k)}
<1>1. 0 \in S
  <2>1. RunOf(met, p, [k \in 0 .. 0 |-> Gaussian(p)], 0)
    BY DEF RunOf
  <2> QED
    BY <2>1
<1>2. ASSUME NEW k \in Nat, k \in S PROVE k + 1 \in S
  <2>1. PICK f : RunOf(met, p, f, k)
    BY <1>2
  <2> DEFINE g == [i \in 0 .. k + 1 |->
                     IF i = k + 1 THEN Advanced(met, p, f[k], k * StepLength) ELSE f[i]]
  <2>2. \A i \in 0 .. k : g[i] = f[i]
    OBVIOUS
  <2>3. \A i \in 0 .. k : f[i] = IF i = 0 THEN Gaussian(p)
                                 ELSE Advanced(met, p, f[i - 1], (i - 1) * StepLength)
    BY <2>1 DEF RunOf
  <2>4. ASSUME NEW i \in 0 .. k + 1
        PROVE  g[i] = IF i = 0 THEN Gaussian(p)
                      ELSE Advanced(met, p, g[i - 1], (i - 1) * StepLength)
    <3>1. CASE i = 0
      BY <2>2, <2>3, <3>1
    <3>2. CASE i \in 1 .. k
      <4>1. i - 1 \in 0 .. k /\ i \in 0 .. k
        BY <3>2
      <4> QED
        BY <2>2, <2>3, <3>2, <4>1
    <3>3. CASE i = k + 1
      <4>1. i - 1 = k /\ i # 0 /\ k \in 0 .. k
        BY <3>3
      <4>2. g[i - 1] = f[k] /\ g[i] = Advanced(met, p, f[k], k * StepLength)
        BY <2>2, <3>3, <4>1
      <4> QED
        BY <4>1, <4>2
    <3> QED
      BY <3>1, <3>2, <3>3
  <2>5. RunOf(met, p, g, k + 1)
    <3> HIDE DEF g
    <3>1. g = [i \in 0 .. k + 1 |-> g[i]]
      BY DEF g
    <3> QED
      BY <2>4, <3>1 DEF RunOf
  <2> QED
    BY <2>5
<1>3. Nat \subseteq S
  <2> HIDE DEF S
  <2> QED
    BY <1>1, <1>2, StepsInduction
<1> QED
  BY <1>3

LEMMA UninterruptedRun ==
  ASSUME NEW met, NEW p
  PROVE  RunOf(met, p, Uninterrupted(met, p), Horizon)
<1>1. Horizon \in Nat
  BY RunAssumption
<1>2. \E f : RunOf(met, p, f, Horizon)
  BY <1>1, RunExists
<1> QED
  BY <1>2 DEF Uninterrupted, RunOf

\* It begins with Gaussian data and goes on as step() does.
LEMMA RunBegins ==
  ASSUME NEW met, NEW p
  PROVE  Uninterrupted(met, p)[0] = Gaussian(p)
<1> DEFINE f == Uninterrupted(met, p)
<1>1. RunOf(met, p, f, Horizon)
  BY UninterruptedRun
<1> HIDE DEF f
<1>2. f[0] = Gaussian(p)
  BY <1>1, RunAssumption DEF RunOf
<1> QED
  BY <1>2 DEF f

LEMMA RunGoesOn ==
  ASSUME NEW met, NEW p, NEW k \in 0 .. Horizon, k + 1 \in 0 .. Horizon
  PROVE  Uninterrupted(met, p)[k + 1] =
           Advanced(met, p, Uninterrupted(met, p)[k], k * StepLength)
<1> DEFINE f == Uninterrupted(met, p)
<1>1. RunOf(met, p, f, Horizon)
  BY UninterruptedRun
<1> HIDE DEF f
<1>2. k + 1 # 0 /\ (k + 1) - 1 = k
  OBVIOUS
<1>3. f[k + 1] = Advanced(met, p, f[k], k * StepLength)
  BY <1>1, <1>2 DEF RunOf
<1> QED
  BY <1>3 DEF f

-----------------------------------------------------------------------------
(* The record stays a record *)

LEMMA LatchedRecord ==
  ASSUME NEW a \in Activation, NEW t \in Nat
  PROVE  Latched(a, t) \in Activation
<1> DEFINE b == [a EXCEPT !.active = TRUE]
<1>1. b \in Activation
  BY DEF Activation
<1>2. Latched(a, t) = [b EXCEPT !.activation_time = t]
  BY DEF Latched
<1> HIDE DEF b
<1> QED
  BY <1>1, <1>2 DEF Activation

LEMMA ConsideredRecord ==
  ASSUME NEW p \in Policy, NEW a \in Activation, NEW t \in Nat, NEW passed \in BOOLEAN
  PROVE  Considered(p, a, t, passed) \in Activation
<1>1. CASE ~Eligible(p, a, t)
  BY <1>1 DEF Considered
<1>2. CASE Eligible(p, a, t)
  <2> DEFINE passes == IF p.mode = "Unrestricted"
                       THEN p.required ELSE PassesAfter(p, a, passed)
             seen == [a EXCEPT !.last_eligibility_time = t]
             counted == [a EXCEPT !.last_eligibility_time = t,
                                  !.consecutive_passes = passes]
  <2>1. passes \in Nat
    BY DEF PassesAfter, Policy, Activation
  <2> HIDE DEF passes
  <2>2. seen \in Activation
    BY DEF Activation
  <2>3. counted \in Activation
    BY <2>1, <2>2 DEF Activation
  <2>4. Considered(p, a, t, passed) =
          IF passes >= p.required THEN Latched(counted, t) ELSE counted
    BY <1>2 DEF Considered, Decided, passes
  <2> HIDE DEF counted
  <2> QED
    BY <2>3, <2>4, LatchedRecord
<1> QED
  BY <1>1, <1>2

LEMMA GaussianRecord ==
  ASSUME NEW p \in Policy
  PROVE  Gaussian(p).activation \in Activation
<1>1. Fresh \in Activation
  BY DEF Fresh, Activation, Never
<1> DEFINE l == Latched(Fresh, 0)
           r == [l EXCEPT !.consecutive_passes = p.required]
<1>2. l \in Activation
  BY <1>1, LatchedRecord
<1>3. p.required \in Nat
  BY DEF Policy
<1> HIDE DEF l
<1>4. r \in Activation
  BY <1>2, <1>3 DEF Activation
<1>5. ResetActivation(p) \in {r, Fresh}
  BY DEF ResetActivation, l
<1> HIDE DEF r
<1> QED
  BY <1>1, <1>4, <1>5 DEF Gaussian

LEMMA AdvancedRecord ==
  ASSUME NEW met, NEW p \in Policy, NEW standing, standing.activation \in Activation, NEW t \in Nat
  PROVE  Advanced(met, p, standing, t).activation \in Activation
<1> DEFINE Consider(a, s) == IF s >= p.start THEN Considered(p, a, s, s \in met) ELSE a
           end    == t + StepLength
           before == Consider(standing.activation, t)
           half   == IF SplitsAt(p, before, t, end) THEN Consider(before, p.start) ELSE before
<1>1. ASSUME NEW a \in Activation, NEW s \in Nat
      PROVE  Consider(a, s) \in Activation
  <2>1. (s \in met) \in BOOLEAN
    OBVIOUS
  <2> QED
    BY <2>1, ConsideredRecord
<1>2. end \in Nat /\ p.start \in Nat
  BY RunAssumption DEF Policy
<1>3. Advanced(met, p, standing, t).activation = Consider(half, end)
  BY DEF Advanced
<1> HIDE DEF Consider, end
<1>4. before \in Activation
  BY <1>1
<1> HIDE DEF before
<1>5. half \in Activation
  BY <1>1, <1>2, <1>4
<1> HIDE DEF half
<1> QED
  BY <1>1, <1>2, <1>3, <1>5

-----------------------------------------------------------------------------
(* The invariant *)

\* What is true of every checkpoint on disk.
Kept(c) ==
  /\ c.policy \in Policies /\ c.directory \in Directories
  /\ c.step \in 0 .. Horizon /\ c.time = c.step * StepLength
  /\ c.pipeline = Uninterrupted(passing, c.policy)[c.step]
  /\ c.pipeline.activation \in Activation
  /\ c.leg \in Nat /\ c.leg <= legs
  /\ c.leg = legs => c.directory = leg.directory

TypeInv == TypeOK /\ waveforms \in [Directories -> SUBSET (0 .. Horizon)]

RestartInv ==
  /\ pipeline = Uninterrupted(passing, leg.policy)[step]
  /\ time = step * StepLength
  /\ \A c \in checkpoints : Kept(c)

Sampled == step < blowUp /\ step \in waveforms[leg.directory]

Complete ==
  /\ localStep = leg.steps
  /\ Sampled
  /\ leg.every.checkpoint > 0 => Taken(leg.directory, step)

\* How far the leg is, and what it has done of what is due, at each point of
\* run_solver.
ControlInv ==
  /\ pc # "idle" => step + (leg.steps - localStep) <= Horizon /\ status = -1
  /\ pc = "step" => localStep < leg.steps
  /\ pc \in {"output", "checkpoint"} => localStep > 0
  /\ pc = "sample" => localStep = 0 \/ DiagnosticStep
  /\ pc = "checkpoint" => CheckpointStep /\ (DiagnosticStep => Sampled)
  /\ pc = "finish" \/ status = 0 => Complete

\* The samples of the leg that are due by step k of it are on disk.
CoveredTo(k) ==
  \A i \in 0 .. k : SampleDue(i) =>
    (step - localStep) + i \in waveforms[leg.directory]

\* In a leg under way nothing is missing before the current step, nor at it once
\* its sample has been passed.
CoverageInv ==
  pc # "idle" =>
    /\ localStep <= step
    /\ CoveredTo(localStep - 1)
    /\ pc \notin {"output", "sample"} => CoveredTo(localStep)

IndInv ==
  TypeInv /\ RestartInv /\ ControlInv /\ CoverageInv /\ WaveformCoversCheckpoints

\* A leg's configuration.
LEMMA LegTypes ==
  ASSUME NEW l \in Leg
  PROVE  /\ l.policy \in Policies /\ l.policy \in Policy
         /\ l.steps \in Nat \ {0} /\ l.every.checkpoint \in Nat /\ l.directory \in Directories
  BY RunAssumption DEF Leg

LEMMA LegExists == Leg # {}
<1>1. Policies # {} /\ LegSteps # {} /\ Schedules # {} /\ Directories # {}
  BY RunAssumption
<1>2. PICK p \in Policies, n \in LegSteps, s \in Schedules, o \in Directories : TRUE
  BY <1>1
<1>3. [policy |-> p, steps |-> n, every |-> s, directory |-> o] \in Leg
  BY <1>2 DEF Leg
<1> QED
  BY <1>3

\* After the last step of a leg everything is due.
LEMMA DueAtEnd ==
  localStep = leg.steps => DiagnosticStep /\ (leg.every.checkpoint > 0 => CheckpointStep)
  BY DEF DiagnosticStep, SampleDue, CheckpointStep

LEMMA DueKept ==
  ASSUME UNCHANGED <<localStep, leg>>
  PROVE  DiagnosticStep' = DiagnosticStep /\ CheckpointStep' = CheckpointStep
  BY DEF DiagnosticStep, SampleDue, CheckpointStep

LEMMA InitInv == Init => IndInv
<1> SUFFICES ASSUME Init PROVE IndInv
  OBVIOUS
<1>1. leg \in Leg
  BY LegExists DEF Init
<1>2. /\ pc = "idle" /\ status = -1 /\ localStep = 0 /\ step = 0 /\ time = 0
      /\ pipeline = Gaussian(leg.policy) /\ waveforms = [d \in Directories |-> {}]
      /\ checkpoints = {} /\ legs = 0
  BY DEF Init
<1>3. leg.steps \in Nat /\ leg.policy \in Policy
  BY <1>1, LegTypes
<1>4. Horizon \in Nat /\ MaxLegs \in Nat /\ StepLength \in Nat
  BY RunAssumption
<1>5. pipeline.activation \in Activation
  BY <1>2, <1>3, GaussianRecord
<1>6. TypeInv
  BY <1>1, <1>2, <1>3, <1>4, <1>5 DEF TypeInv, TypeOK
<1>7. RestartInv
  BY <1>2, <1>4, RunBegins DEF RestartInv
<1>8. ControlInv /\ CoverageInv /\ WaveformCoversCheckpoints
  BY <1>2 DEF ControlInv, CoverageInv, WaveformCoversCheckpoints
<1> QED
  BY <1>6, <1>7, <1>8 DEF IndInv

-----------------------------------------------------------------------------
(* The steps *)

LEMMA Typed ==
  ASSUME IndInv
  PROVE  /\ leg \in Leg /\ leg.steps \in Nat \ {0} /\ leg.policy \in Policies
         /\ leg.policy \in Policy /\ leg.every.checkpoint \in Nat /\ leg.directory \in Directories
         /\ localStep \in 0 .. leg.steps /\ step \in 0 .. Horizon /\ legs \in Nat
         /\ Horizon \in Nat /\ MaxLegs \in Nat /\ StepLength \in Nat
         /\ waveforms \in [Directories -> SUBSET (0 .. Horizon)]
<1>1. leg \in Leg
  BY DEF IndInv, TypeInv, TypeOK
<1> QED
  BY <1>1, LegTypes, RunAssumption DEF IndInv, TypeInv, TypeOK

LEMMA BeginInv ==
  ASSUME IndInv, NEW l \in Leg, NEW standing, NEW from \in 0 .. Horizon, NEW now,
         standing = Uninterrupted(passing, l.policy)[from], standing.activation \in Activation,
         now = from * StepLength, Begin(l, standing, from, now)
  PROVE  IndInv'
<1>1. /\ leg' = l /\ pipeline' = standing /\ step' = from /\ time' = now /\ localStep' = 0
      /\ waveforms' = [waveforms EXCEPT ![l.directory] = {}]
      /\ legs < MaxLegs /\ legs' = legs + 1 /\ pc' = "sample" /\ status' = -1
      /\ from + l.steps <= Horizon
      /\ UNCHANGED <<passing, blowUp, checkpoints>>
  BY DEF Begin, solution
<1>2. /\ l.steps \in Nat /\ l.directory \in Directories /\ now \in Nat
  BY LegTypes, RunAssumption
<1>3. waveforms' \in [Directories -> SUBSET (0 .. Horizon)]
  BY <1>1, Typed
<1>4. legs' \in 0 .. MaxLegs
  BY <1>1, Typed
<1>5. TypeInv'
  BY <1>1, <1>2, <1>3, <1>4 DEF TypeInv, TypeOK
<1>6. ASSUME NEW c \in checkpoints PROVE Kept(c)' /\ c.leg # legs'
  BY <1>1, Typed DEF IndInv, RestartInv, Kept
<1>7. RestartInv'
  BY <1>1, <1>6 DEF RestartInv
<1>8. ControlInv'
  BY <1>1, <1>2 DEF ControlInv
<1>9. WaveformCoversCheckpoints'
  BY <1>1, <1>6 DEF WaveformCoversCheckpoints
<1>10. CoverageInv'
  BY <1>1 DEF CoverageInv, CoveredTo
<1> QED
  BY <1>5, <1>7, <1>8, <1>9, <1>10 DEF IndInv

LEMMA StartInv ==
  ASSUME IndInv, NEW l \in Leg, StartGaussian(l) \/ StartFromCheckpoint(l)
  PROVE  IndInv'
<1>1. CASE StartGaussian(l)
  <2>1. /\ Gaussian(l.policy) = Uninterrupted(passing, l.policy)[0]
        /\ Gaussian(l.policy).activation \in Activation
    BY RunBegins, GaussianRecord, LegTypes
  <2>2. 0 \in 0 .. Horizon /\ 0 = 0 * StepLength
    BY RunAssumption
  <2> QED
    BY <1>1, <2>1, <2>2, BeginInv DEF StartGaussian
<1>2. CASE StartFromCheckpoint(l)
  <2>1. PICK c \in checkpoints : c.policy = l.policy /\ Begin(l, c.pipeline, c.step, c.time)
    BY <1>2 DEF StartFromCheckpoint, Accepts, Restored
  <2>2. Kept(c)
    BY DEF IndInv, RestartInv
  <2> QED
    BY <2>1, <2>2, BeginInv DEF Kept
<1> QED
  BY <1>1, <1>2

LEMMA StepInv ==
  ASSUME IndInv, Step
  PROVE  IndInv'
<1>1. /\ pc = "step" /\ localStep' = localStep + 1 /\ step' = step + 1
      /\ pipeline' = Advanced(passing, leg.policy, pipeline, time)
      /\ time' = time + StepLength /\ pc' = "output"
      /\ UNCHANGED <<passing, blowUp, leg, status, waveforms, checkpoints, legs>>
  BY DEF Step, solution
<1>2. localStep < leg.steps /\ step + (leg.steps - localStep) <= Horizon /\ status = -1
  BY <1>1 DEF IndInv, ControlInv
<1>3. step' \in 0 .. Horizon /\ localStep' \in 0 .. leg.steps
  BY <1>1, <1>2, Typed
<1>4. time = step * StepLength /\ pipeline = Uninterrupted(passing, leg.policy)[step]
  BY DEF IndInv, RestartInv
<1>5. time' = step' * StepLength /\ time' \in Nat
  <2>1. \A k \in Nat, d \in Nat : (k + 1) * d = k * d + d /\ k * d \in Nat
    OBVIOUS
  <2> QED
    BY <1>1, <1>4, <2>1, Typed
<1>6. pipeline' = Uninterrupted(passing, leg.policy)[step']
  BY <1>1, <1>3, <1>4, RunGoesOn, Typed
<1>7. pipeline'.activation \in Activation
  BY <1>1, AdvancedRecord, Typed DEF IndInv, TypeInv, TypeOK
<1>8. TypeInv'
  BY <1>1, <1>3, <1>5, <1>7 DEF IndInv, TypeInv, TypeOK
<1>9. RestartInv'
  BY <1>1, <1>5, <1>6 DEF IndInv, RestartInv, Kept
<1>10. ControlInv'
  BY <1>1, <1>2, Typed DEF ControlInv
<1>11. step' - localStep' = step - localStep /\ localStep' - 1 = localStep
  BY <1>1, Typed
<1>12. \A k : SampleDue(k)' <=> SampleDue(k)
  BY <1>1 DEF SampleDue
<1>13. WaveformCoversCheckpoints'
  BY <1>1, <1>11, <1>12 DEF IndInv, WaveformCoversCheckpoints
<1>14. CoverageInv'
  <2>1. localStep <= step /\ CoveredTo(localStep)
    BY <1>1 DEF IndInv, CoverageInv
  <2>2. localStep' <= step'
    BY <1>1, <2>1, Typed
  <2>3. ASSUME NEW i \in 0 .. localStep' - 1, SampleDue(i)'
        PROVE  (step' - localStep') + i \in waveforms'[leg'.directory]
    <3>1. i \in 0 .. localStep /\ SampleDue(i)
      BY <1>11, <1>12, <2>3
    <3>2. (step - localStep) + i \in waveforms[leg.directory]
      BY <2>1, <3>1 DEF CoveredTo
    <3> QED
      BY <1>1, <1>11, <3>2
  <2>4. CoveredTo(localStep - 1)'
    BY <2>3 DEF CoveredTo
  <2> QED
    BY <1>1, <2>2, <2>4 DEF CoverageInv
<1> QED
  BY <1>8, <1>9, <1>10, <1>13, <1>14 DEF IndInv

\* After a step the leg is at the same place, on disk there is only more.
Stays ==
  /\ UNCHANGED <<passing, blowUp, leg, localStep, step, time, pipeline, legs>>
  /\ waveforms' \in [Directories -> SUBSET (0 .. Horizon)]
  /\ \A d \in Directories : waveforms[d] \subseteq waveforms'[d]
  /\ pc' \in {"idle", "step", "output", "sample", "checkpoint", "finish"}
  /\ status' \in {-1, 0, 2}

LEMMA StaysInv ==
  ASSUME IndInv, Stays, UNCHANGED checkpoints, ControlInv',
         \/ pc' \in {"idle", pc}
         \/ pc # "idle" /\ pc' = "sample"
         \/ pc # "idle" /\ CoveredTo(localStep)'
  PROVE  IndInv'
<1>1. TypeInv'
  BY DEF IndInv, TypeInv, TypeOK, Stays
<1>2. RestartInv'
  BY DEF IndInv, RestartInv, Stays, Kept
<1>3. \A k : SampleDue(k)' <=> SampleDue(k)
  BY DEF SampleDue, Stays
<1>4. \A c \in checkpoints : c.directory \in Directories
  BY DEF IndInv, RestartInv, Kept
<1>5. WaveformCoversCheckpoints'
  BY <1>3, <1>4 DEF IndInv, WaveformCoversCheckpoints, Stays
<1>6. ASSUME NEW k, CoveredTo(k) PROVE CoveredTo(k)'
  BY <1>3, <1>6, Typed DEF CoveredTo, Stays
<1>7. UNCHANGED <<localStep, step>>
  BY DEF Stays
<1>8. CoverageInv'
  BY <1>6, <1>7 DEF IndInv, CoverageInv
<1> QED
  BY <1>1, <1>2, <1>5, <1>8 DEF IndInv

\* Once the sample of a step is on disk, or none was due, the step is covered.
LEMMA CoveredOnward ==
  ASSUME IndInv, Stays, pc \in {"output", "sample"},
         SampleDue(localStep) => step \in waveforms'[leg.directory]
  PROVE  CoveredTo(localStep)'
<1>1. CoveredTo(localStep - 1)
  BY DEF IndInv, CoverageInv
<1>2. \A k : SampleDue(k)' <=> SampleDue(k)
  BY DEF SampleDue, Stays
<1>3. (step - localStep) + localStep = step
  BY Typed
<1>4. ASSUME NEW i \in 0 .. localStep, SampleDue(i)
      PROVE  (step - localStep) + i \in waveforms'[leg.directory]
  <2>1. CASE i = localStep
    BY <1>3, <1>4, <2>1
  <2>2. CASE i # localStep
    <3>1. i \in 0 .. localStep - 1
      BY <2>2, Typed
    <3>2. (step - localStep) + i \in waveforms[leg.directory]
      BY <1>1, <1>4, <3>1 DEF CoveredTo
    <3> QED
      BY <3>2, Typed DEF Stays
  <2> QED
    BY <2>1, <2>2
<1>5. UNCHANGED <<leg, localStep, step>>
  BY DEF Stays
<1> QED
  BY <1>2, <1>4, <1>5 DEF CoveredTo

LEMMA OutputInv ==
  ASSUME IndInv, Output
  PROVE  IndInv'
<1>1. /\ pc = "output"
      /\ UNCHANGED <<passing, blowUp, leg, status, localStep, step, time, pipeline,
                     waveforms, checkpoints, legs>>
      /\ DiagnosticStep' = DiagnosticStep /\ CheckpointStep' = CheckpointStep
  BY DueKept DEF Output, solution
<1>2. \/ DiagnosticStep /\ pc' = "sample"
      \/ ~DiagnosticStep /\ CheckpointStep /\ pc' = "checkpoint"
      \/ ~DiagnosticStep /\ localStep < leg.steps /\ pc' = "step"
  <2>1. CASE DiagnosticStep
    BY <2>1 DEF Output
  <2>2. CASE ~DiagnosticStep /\ CheckpointStep
    BY <2>2 DEF Output
  <2>3. CASE ~DiagnosticStep /\ ~CheckpointStep
    <3>1. localStep < leg.steps /\ Onward
      BY <2>3, DueAtEnd, Typed DEF Output
    <3> QED
      BY <2>3, <3>1, Typed DEF Onward
  <2> QED
    BY <2>1, <2>2, <2>3
<1>3. status = -1 /\ localStep > 0 /\ step + (leg.steps - localStep) <= Horizon
  BY <1>1 DEF IndInv, ControlInv
<1>4. ControlInv'
  BY <1>1, <1>2, <1>3 DEF ControlInv
<1>5. Stays
  BY <1>1, <1>2, <1>3, Typed DEF Stays
<1>6. ~DiagnosticStep => CoveredTo(localStep)'
  BY <1>1, <1>5, CoveredOnward DEF DiagnosticStep
<1> QED
  BY <1>1, <1>2, <1>4, <1>5, <1>6, StaysInv

\* An exception, a kill and the end leave what there is.
LEMMA EndInv ==
  ASSUME IndInv, NEW value \in {-1, 0, 2}, End(value), value = 0 => Complete,
         UNCHANGED <<passing, blowUp, leg, localStep, step, time, pipeline,
                     waveforms, checkpoints, legs>>
  PROVE  IndInv'
<1>1. pc' = "idle" /\ status' = value
  BY DEF End
<1>2. Complete' <=> Complete
  BY DEF Complete, Sampled, Taken
<1>3. ControlInv'
  BY <1>1, <1>2 DEF ControlInv
<1>4. Stays
  BY <1>1, Typed DEF Stays
<1> QED
  BY <1>1, <1>3, <1>4, StaysInv

LEMMA SampleInv ==
  ASSUME IndInv, Sample
  PROVE  IndInv'
<1>1. CASE End(2) /\ UNCHANGED waveforms
  BY <1>1, EndInv DEF Sample, solution
<1>2. CASE ~ (End(2) /\ UNCHANGED waveforms)
  <2>1. /\ pc = "sample" /\ step < blowUp
        /\ waveforms' = [waveforms EXCEPT ![leg.directory] = @ \cup {step}]
        /\ UNCHANGED <<passing, blowUp, leg, status, localStep, step, time, pipeline,
                       checkpoints, legs>>
    BY <1>2 DEF Sample, solution
  <2>2. /\ waveforms' \in [Directories -> SUBSET (0 .. Horizon)]
        /\ \A d \in Directories : waveforms[d] \subseteq waveforms'[d]
        /\ step \in waveforms'[leg.directory]
    BY <2>1, Typed
  <2>3. Sampled'
    BY <2>1, <2>2 DEF Sampled
  <2>4. \/ localStep > 0 /\ CheckpointStep /\ pc' = "checkpoint"
        \/ localStep < leg.steps /\ pc' = "step"
        \/ localStep = leg.steps /\ ~CheckpointStep /\ pc' = "finish"
    BY <1>2, <2>1, Typed DEF Sample, Onward
  <2>5. status = -1 /\ step + (leg.steps - localStep) <= Horizon
    BY <2>1 DEF IndInv, ControlInv
  <2>6. localStep = leg.steps /\ ~CheckpointStep => ~ (leg.every.checkpoint > 0)
    BY DueAtEnd
  <2>7. DiagnosticStep' = DiagnosticStep /\ CheckpointStep' = CheckpointStep
    BY <2>1, DueKept
  <2>8. ControlInv'
    BY <2>1, <2>3, <2>4, <2>5, <2>6, <2>7 DEF ControlInv, Complete
  <2>9. Stays
    BY <2>1, <2>2, <2>4, <2>5 DEF Stays
  <2>10. CoveredTo(localStep)'
    BY <2>1, <2>2, <2>9, CoveredOnward
  <2> QED
    BY <2>1, <2>8, <2>9, <2>10, StaysInv
<1> QED
  BY <1>1, <1>2

LEMMA WriteInv ==
  ASSUME IndInv, WriteCheckpoint
  PROVE  IndInv'
<1>1. /\ pc = "checkpoint"
      /\ UNCHANGED <<passing, blowUp, leg, localStep, step, time, pipeline, waveforms, legs>>
  BY DEF WriteCheckpoint, solution
<1>2. CASE Taken(leg.directory, step)
  BY <1>1, <1>2, EndInv DEF WriteCheckpoint, Refusal
<1>3. CASE ~ Taken(leg.directory, step)
  <2> DEFINE made == [directory |-> leg.directory, step |-> step, time |-> time,
                      policy |-> leg.policy, pipeline |-> pipeline, leg |-> legs]
  <2>0. PICK new : new = made
    OBVIOUS
  <2>1. checkpoints' = checkpoints \cup {new} /\ Onward /\ UNCHANGED status
    BY <1>3, <2>0 DEF WriteCheckpoint
  <2>2. /\ status = -1 /\ step + (leg.steps - localStep) <= Horizon /\ localStep > 0
        /\ CheckpointStep /\ (DiagnosticStep => Sampled)
    BY <1>1 DEF IndInv, ControlInv
  <2>3. \/ localStep < leg.steps /\ pc' = "step"
        \/ localStep = leg.steps /\ pc' = "finish"
    BY <2>1, Typed DEF Onward
  <2>4. /\ new.directory = leg.directory /\ new.step = step /\ new.time = time
        /\ new.policy = leg.policy /\ new.pipeline = pipeline /\ new.leg = legs
    BY <2>0
  <2> HIDE DEF made
  <2>5. new \in checkpoints'
    BY <2>1
  <2>6. Kept(new)'
    BY <1>1, <2>4, Typed DEF IndInv, TypeInv, TypeOK, RestartInv, Kept
  <2>7. RestartInv'
    BY <1>1, <2>1, <2>6 DEF IndInv, RestartInv, Kept
  <2>8. /\ CoveredTo(localStep)
        /\ localStep <= step
    BY <1>1 DEF IndInv, CoverageInv
  <2>9. \A k : SampleDue(k)' <=> SampleDue(k)
    BY <1>1 DEF SampleDue
  <2>10. ASSUME NEW k \in 0 .. leg.steps, SampleDue(k), (step - localStep) + k <= new.step
         PROVE  (step - localStep) + k \in waveforms[new.directory]
    <3>1. k \in 0 .. localStep
      BY <2>4, <2>10, Typed
    <3> QED
      BY <2>4, <2>8, <2>10, <3>1 DEF CoveredTo
  <2>11. WaveformCoversCheckpoints'
    BY <1>1, <2>1, <2>9, <2>10 DEF IndInv, WaveformCoversCheckpoints
  <2>12. CoverageInv'
    BY <1>1, <2>1, <2>3, <2>8, <2>9 DEF IndInv, CoverageInv, CoveredTo
  <2>13. Taken(leg.directory, step)'
    BY <1>1, <2>4, <2>5 DEF Taken
  <2>14. localStep = leg.steps => Sampled
    BY <2>2, DueAtEnd
  <2>15. ControlInv'
    BY <1>1, <2>1, <2>2, <2>3, <2>13, <2>14 DEF ControlInv, Complete, Sampled
  <2>16. TypeInv'
    BY <1>1, <2>1, <2>3 DEF IndInv, TypeInv, TypeOK
  <2> QED
    BY <2>7, <2>15, <2>16, <2>11, <2>12 DEF IndInv
<1> QED
  BY <1>2, <1>3

LEMMA FinishInv ==
  ASSUME IndInv, Finish \/ Kill
  PROVE  IndInv'
<1>1. CASE Finish
  BY <1>1, EndInv DEF Finish, IndInv, ControlInv, solution
<1>2. CASE Kill
  BY <1>2, EndInv DEF Kill, solution
<1> QED
  BY <1>1, <1>2

LEMMA StutterInv ==
  ASSUME IndInv, UNCHANGED vars
  PROVE  IndInv'
<1>1. /\ UNCHANGED <<passing, blowUp, leg, pc, status, localStep, step, time, pipeline,
                     waveforms, checkpoints, legs>>
      /\ DiagnosticStep' = DiagnosticStep /\ CheckpointStep' = CheckpointStep
  BY DueKept DEF vars, solution
<1>2. ControlInv'
  BY <1>1 DEF IndInv, ControlInv, Complete, Sampled, Taken
<1>3. Stays
  BY <1>1, Typed DEF Stays, IndInv, TypeInv, TypeOK
<1> QED
  BY <1>1, <1>2, <1>3, StaysInv

LEMMA NextInv == IndInv /\ [Next]_vars => IndInv'
  BY StartInv, StepInv, OutputInv, SampleInv, WriteInv, FinishInv, StutterInv
  DEF Next, Progress

-----------------------------------------------------------------------------

\* Types, place in the leg, equality with the uninterrupted run and what is on
\* disk hold together in every reachable state.
THEOREM RunInductive == Spec => []IndInv
<1> QED
  BY InitInv, NextInv, PTL DEF Spec

\* Every variable has its type, and no leg takes more steps than it was given
\* (TypeOK).
THEOREM RunTypes == Spec => []TypeOK
<1>1. IndInv => TypeOK
  BY DEF IndInv, TypeInv
<1> QED
  BY <1>1, RunInductive, PTL

\* A chain of any number of legs, stopped, killed and resumed anywhere, holds at
\* each step the state and the record of the run that was never interrupted
\* (RestartEquivalence).
THEOREM RestartsAreInvisible == Spec => []RestartEquivalence
<1>1. IndInv => RestartEquivalence
  BY DEF IndInv, RestartInv, Kept, RestartEquivalence
<1> QED
  BY <1>1, RunInductive, PTL

\* A checkpoint of the last leg has all samples of that leg beside it that were
\* due by its step (WaveformCoversCheckpoints).
THEOREM NoHoleInWaveforms == Spec => []WaveformCoversCheckpoints
<1>1. IndInv => WaveformCoversCheckpoints
  BY DEF IndInv
<1> QED
  BY <1>1, RunInductive, PTL

\* A leg that returns success ended in a finite, sampled and checkpointed state
\* (SuccessIsFiniteAndComplete).
THEOREM SuccessMeansComplete == Spec => []SuccessIsFiniteAndComplete
<1>1. IndInv => SuccessIsFiniteAndComplete
  BY DEF IndInv, ControlInv, Complete, Sampled, SuccessIsFiniteAndComplete
<1> QED
  BY <1>1, RunInductive, PTL

-----------------------------------------------------------------------------
(* The companion *)

\* The history names the source of every step since the companion was created
\* or restored, unless a raw callback has spoilt it.
HistoryInv ==
  /\ history = "Qualified" => drivers \subseteq {identity}
  /\ history = "Unbound" => drivers = {}

\* What is being saved is vouched for by its one source, and so is what was.
SavesInv ==
  /\ saving # None => saving.file.drivers \subseteq {saving.file.authority}
  /\ SavedByOneAuthority

\* A latch belongs to a restored companion.  While that one is still zero, the
\* primary state is the one it was restored beside.
LatchInv ==
  latch # None =>
    /\ policy = "Checkpoint" /\ initialized
    /\ receipt # None
    /\ at = None => primary # None /\ primary.time = latch /\ receipt.time = latch
    /\ at # None /\ Paired(stored) => latch = at.time

CompanionInv ==
  /\ CompanionTypeOK /\ HistoryInv /\ SavesInv
  /\ LatchInv /\ ConcurrentStaysPaired /\ OneStepLength

\* Constants: steps are positive, and None is no primary state.
LEMMA ConstantFacts ==
  /\ MaxTime \in Nat
  /\ \A dt \in Steps : dt \in Nat /\ dt > 0
  /\ Primary \subseteq Beside
  /\ None \notin Beside /\ None \notin Primary
  BY CompanionAssumption, NoneAssumption DEF Primary, Beside

LEMMA InitInductive == CompanionInit => CompanionInv
<1> SUFFICES ASSUME CompanionInit PROVE CompanionInv
  OBVIOUS
<1>1. CompanionTypeOK
  BY CompanionAssumption DEF CompanionInit, CompanionTypeOK
<1>2. HistoryInv /\ SavesInv
  BY DEF CompanionInit, HistoryInv, SavesInv, SavedByOneAuthority
<1>3. LatchInv /\ ConcurrentStaysPaired /\ OneStepLength
  BY DEF CompanionInit, LatchInv, ConcurrentStaysPaired, OneStepLength
<1> QED
  BY <1>1, <1>2, <1>3 DEF CompanionInv

-----------------------------------------------------------------------------
(* Steps *)

\* Primary states and companions move on in time within its bound.
LEMMA MovedOn ==
  ASSUME NEW dt \in Steps,
         NEW p \in Primary, p.time + dt <= MaxTime
  PROVE  /\ [p EXCEPT !.time = @ + dt] \in Primary
         /\ [p EXCEPT !.time = @ + dt].time = p.time + dt
  BY ConstantFacts DEF Primary, Times

\* Four stages, completed or thrown out of: the types, the latch, the pairing
\* and the step length are kept, and no other source than this one is added.
LEMMA StagesKeep ==
  ASSUME CompanionInv,
         NEW t \in Times, NEW dt \in Steps, NEW by \in Sources \cup {Raw},
         InRange(t, dt), StepAccepted(t, dt),
         NEW thrown \in BOOLEAN, Stages(t, dt, by, thrown),
         UNCHANGED <<mode, policy, stored, initialized, receipt>>
  PROVE  /\ timeStep' \in Steps \cup {0}
         /\ at' \in Beside \cup {None}
         /\ taken' \subseteq Steps
         /\ primary' \in Primary \cup {None}
         /\ latch' \in Times \cup {None}
         /\ drivers' \subseteq drivers \cup {by}
         /\ LatchInv' /\ ConcurrentStaysPaired' /\ OneStepLength'
<1>1. /\ timeStep \in Steps \cup {0} /\ timeStep' = dt
      /\ taken \subseteq Steps /\ taken \subseteq {timeStep}
      /\ timeStep = 0 \/ timeStep = dt
  BY DEF CompanionInv, CompanionTypeOK, OneStepLength, Stages, StepAccepted, Bound
<1>2. taken \subseteq {dt}
  BY <1>1, ConstantFacts
<1>3. /\ initialized /\ primary \in Primary
      /\ primary.time + dt <= MaxTime /\ t + dt <= MaxTime
      /\ at \in Beside \cup {None} /\ latch \in Times \cup {None}
      /\ latch \in {None, t}
  BY DEF CompanionInv, CompanionTypeOK, InRange, StepAccepted, TimeAccepted
<1>4. CASE thrown
  <2>1. UNCHANGED <<at, drivers, taken, primary, latch>>
    BY <1>4 DEF Stages
  <2>2. LatchInv' /\ ConcurrentStaysPaired'
    BY <2>1 DEF CompanionInv, LatchInv, ConcurrentStaysPaired, Paired
  <2>3. OneStepLength'
    BY <2>1, <1>1, <1>2 DEF OneStepLength
  <2> QED
    BY <2>1, <2>2, <2>3, <1>1, <1>3
<1>5. CASE ~thrown
  <2>1. Accumulate(dt, by) /\ latch' = Continued(t, dt)
    BY <1>5 DEF Stages
  <2>2. primary' \in Primary /\ primary'.time = primary.time + dt
    BY <2>1, <1>3, MovedOn DEF Accumulate
  <2>3. /\ at \in {None, primary} => at' = primary'
        /\ at \notin {None, primary} =>
             at' = [origin |-> Mixed, time |-> at.time + dt]
    BY <2>1 DEF Accumulate
  <2>4. /\ at' \in Beside
        /\ at # None => at'.time = at.time + dt
    <3>1. CASE at \in {None, primary}
      BY <3>1, <2>2, <2>3, ConstantFacts
    <3>2. CASE at \notin {None, primary}
      <4>1. at \in Beside /\ at.time + dt <= MaxTime
        BY <3>2, <1>3 DEF InRange
      <4> QED
        BY <4>1, <3>2, <2>3, ConstantFacts DEF Beside, Times
    <3> QED
      BY <3>1, <3>2
  <2>5. at' # None
    BY <2>4, ConstantFacts
  <2>6. /\ latch = None => latch' = None
        /\ latch # None => latch = t /\ latch' = t + dt
        /\ latch' \in Times \cup {None}
    BY <2>1, <1>3, ConstantFacts DEF Continued, Times
  <2>7. LatchInv'
    <3> SUFFICES ASSUME latch' # None
                 PROVE  /\ policy' = "Checkpoint" /\ initialized'
                        /\ receipt' # None
                        /\ Paired(stored') => latch' = at'.time
      BY <2>5 DEF LatchInv, Paired
    <3>1. /\ latch # None /\ latch = t /\ latch' = t + dt
          /\ policy = "Checkpoint" /\ receipt # None
          /\ at = None => primary.time = latch
          /\ at # None /\ Paired(stored) => latch = at.time
      BY <2>6 DEF CompanionInv, LatchInv
    <3>2. ASSUME Paired(stored) PROVE latch' = at'.time
      <4>1. CASE at = None
        BY <4>1, <3>1, <2>2, <2>3
      <4>2. CASE at # None
        BY <4>2, <3>2, <3>1, <2>4
      <4> QED
        BY <4>1, <4>2
    <3> QED
      BY <3>1, <3>2, <1>3 DEF Paired
  <2>8. ConcurrentStaysPaired'
    <3> SUFFICES ASSUME mode = "Concurrent",
                        policy = "Checkpoint" => Paired(stored)
                 PROVE  at' = primary'
      BY DEF ConcurrentStaysPaired, Paired
    <3>1. at # None => at = primary
      BY <1>3 DEF CompanionInv, ConcurrentStaysPaired
    <3> QED
      BY <3>1, <2>3
  <2>9. taken' \subseteq Steps /\ OneStepLength' /\ drivers' = drivers \cup {by}
    BY <2>1, <1>1, <1>2 DEF Accumulate, OneStepLength
  <2> QED
    BY <2>2, <2>4, <2>6, <2>7, <2>8, <2>9, <1>1
<1> QED
  BY <1>4, <1>5

\* A source the pipeline accepts is the only one that drove the companion.
LEMMA AcceptedSource ==
  ASSUME CompanionInv, NEW s \in Sources, SourceCompatible(s)
  PROVE  drivers \subseteq {s}
  BY DEF CompanionInv, CompanionTypeOK, HistoryInv, SourceCompatible

LEMMA AdvanceInductive ==
  ASSUME CompanionInv, NEW t \in Times, NEW dt \in Steps, NEW s \in Sources,
         Advance(t, dt, s)
  PROVE  CompanionInv'
<1>1. /\ InRange(t, dt) /\ SourceCompatible(s) /\ StepAccepted(t, dt)
      /\ UNCHANGED <<mode, policy, stored, initialized, receipt>>
      /\ UNCHANGED <<files, saving, foreign, restarts>>
  BY DEF Advance, disk
<1>2. PICK thrown \in BOOLEAN :
        /\ Stages(t, dt, s, thrown)
        /\ \/ RecordQualified(s)
           \/ thrown /\ UNCHANGED <<history, identity>>
  BY DEF Advance
<1>3. /\ timeStep' \in Steps \cup {0}
      /\ at' \in Beside \cup {None}
      /\ taken' \subseteq Steps
      /\ primary' \in Primary \cup {None}
      /\ latch' \in Times \cup {None}
      /\ drivers' \subseteq drivers \cup {s}
      /\ LatchInv' /\ ConcurrentStaysPaired' /\ OneStepLength'
  BY <1>1, <1>2, StagesKeep
<1>4. thrown => drivers' = drivers
  BY <1>2 DEF Stages
<1>5. drivers \subseteq {s}
  BY <1>1, AcceptedSource
<1>6. CompanionTypeOK'
  BY <1>1, <1>2, <1>3 DEF CompanionInv, CompanionTypeOK, RecordQualified
<1>7. HistoryInv'
  BY <1>2, <1>3, <1>4, <1>5 DEF CompanionInv, HistoryInv, RecordQualified
<1>8. SavesInv'
  BY <1>1 DEF CompanionInv, SavesInv, SavedByOneAuthority
<1> QED
  BY <1>3, <1>6, <1>7, <1>8 DEF CompanionInv

LEMMA AdvanceValidationOnlyInductive ==
  ASSUME CompanionInv, NEW t \in Times, NEW dt \in Steps,
         AdvanceValidationOnly(t, dt)
  PROVE  CompanionInv'
<1>1. /\ InRange(t, dt)
      /\ history' = "ValidationOnly" /\ identity' = None
      /\ UNCHANGED <<mode, policy, stored, initialized, receipt>>
      /\ UNCHANGED <<files, saving, foreign, restarts>>
  BY DEF AdvanceValidationOnly, RecordValidationOnly, disk
<1>2. /\ timeStep' \in Steps \cup {0}
      /\ at' \in Beside \cup {None}
      /\ taken' \subseteq Steps
      /\ primary' \in Primary \cup {None}
      /\ latch' \in Times \cup {None}
      /\ drivers' \subseteq drivers \cup {Raw}
      /\ LatchInv' /\ ConcurrentStaysPaired' /\ OneStepLength'
  <2>1. CASE StepAccepted(t, dt)
    <3>1. PICK thrown \in BOOLEAN : Stages(t, dt, Raw, thrown)
      BY <2>1 DEF AdvanceValidationOnly
    <3> QED
      BY <1>1, <2>1, <3>1, StagesKeep
  <2>2. CASE ~StepAccepted(t, dt)
    <3>1. UNCHANGED <<timeStep, at, drivers, taken, primary, latch>>
      BY <2>2 DEF AdvanceValidationOnly
    <3> QED
      BY <3>1, <1>1 DEF CompanionInv, CompanionTypeOK, LatchInv, ConcurrentStaysPaired,
                        OneStepLength, Paired
  <2> QED
    BY <2>1, <2>2
<1>3. CompanionTypeOK'
  BY <1>1, <1>2 DEF CompanionInv, CompanionTypeOK
<1>4. HistoryInv'
  BY <1>1 DEF HistoryInv
<1>5. SavesInv'
  BY <1>1 DEF CompanionInv, SavesInv, SavedByOneAuthority
<1> QED
  BY <1>2, <1>3, <1>4, <1>5 DEF CompanionInv

LEMMA EvaluateStageInductive ==
  ASSUME CompanionInv,
         \/ \E s \in Sources : EvaluateStage(s)
         \/ EvaluateStageValidationOnly
  PROVE  CompanionInv'
<1>1. /\ UNCHANGED <<mode, policy, stored, timeStep>>
      /\ UNCHANGED <<initialized, at, drivers, taken, latch>>
      /\ UNCHANGED <<primary, receipt, files, saving, foreign, restarts>>
  BY DEF EvaluateStage, EvaluateStageValidationOnly, configuration, companion, disk
<1>2. /\ history' \in {"Qualified", "ValidationOnly"}
      /\ identity' \in Sources \cup {None}
      /\ history' = "Qualified" => drivers \subseteq {identity'}
  BY AcceptedSource
  DEF EvaluateStage, EvaluateStageValidationOnly, RecordQualified, RecordValidationOnly
<1>3. CompanionTypeOK'
  BY <1>1, <1>2 DEF CompanionInv, CompanionTypeOK
<1>4. HistoryInv' /\ SavesInv'
  BY <1>1, <1>2 DEF CompanionInv, HistoryInv, SavesInv, SavedByOneAuthority
<1>5. LatchInv' /\ ConcurrentStaysPaired' /\ OneStepLength'
  BY <1>1 DEF CompanionInv, LatchInv, ConcurrentStaysPaired, OneStepLength, Paired
<1> QED
  BY <1>3, <1>4, <1>5 DEF CompanionInv

-----------------------------------------------------------------------------
(* Initialization *)

LEMMA InitializeZeroInductive ==
  ASSUME CompanionInv, InitializeZero
  PROVE  CompanionInv'
<1>1. /\ policy = "Zero"
      /\ initialized' = TRUE /\ at' = None /\ drivers' = {} /\ taken' = {}
      /\ UNCHANGED <<mode, policy, stored, timeStep, latch, primary>>
      /\ UNCHANGED <<receipt, history, identity, files, saving, foreign, restarts>>
  BY DEF InitializeZero, configuration, provenance, disk
<1>2. CompanionTypeOK'
  BY <1>1 DEF CompanionInv, CompanionTypeOK
<1>3. HistoryInv' /\ SavesInv'
  BY <1>1 DEF CompanionInv, HistoryInv, SavesInv, SavedByOneAuthority
<1>4. LatchInv' /\ ConcurrentStaysPaired' /\ OneStepLength'
  BY <1>1 DEF CompanionInv, LatchInv, ConcurrentStaysPaired, OneStepLength
<1> QED
  BY <1>2, <1>3, <1>4 DEF CompanionInv

LEMMA InitializeCheckpointInductive ==
  ASSUME CompanionInv, NEW r \in Primary, NEW s \in Sources,
         InitializeCheckpoint(r, s)
  PROVE  CompanionInv'
<1>1. /\ policy = "Checkpoint"
      /\ mode = "Concurrent" => primary = r
      /\ stored.receipt = r
      /\ initialized' = TRUE /\ at' = stored.at /\ drivers' = {} /\ taken' = {}
      /\ latch' = r.time /\ receipt' = r
      /\ primary' = IF mode = "Replay" THEN r ELSE primary
      /\ history' = "Qualified" /\ identity' = s
      /\ UNCHANGED <<mode, policy, stored, timeStep>>
      /\ UNCHANGED <<files, saving, foreign, restarts>>
  BY DEF InitializeCheckpoint, StateMatches, LoadAccepted, Loaded, RecordQualified,
         configuration, disk
<1>2. /\ mode \in {"Concurrent", "Replay"} /\ primary' = r
      /\ r # None /\ r.time \in Times
      /\ stored \in File /\ stored.at \in Beside \cup {None}
  BY <1>1, CompanionAssumption, ConstantFacts DEF CompanionInv, CompanionTypeOK, File, Primary
<1>3. CompanionTypeOK'
  BY <1>1, <1>2 DEF CompanionInv, CompanionTypeOK
<1>4. HistoryInv' /\ SavesInv'
  BY <1>1 DEF CompanionInv, HistoryInv, SavesInv, SavedByOneAuthority
<1>5. at' # None /\ Paired(stored') => at' = r
  BY <1>1 DEF Paired
<1>6. LatchInv' /\ ConcurrentStaysPaired' /\ OneStepLength'
  BY <1>1, <1>2, <1>5 DEF LatchInv, ConcurrentStaysPaired, OneStepLength
<1> QED
  BY <1>3, <1>4, <1>6 DEF CompanionInv

\* A replay's primary state is loaded: a restored companion pins its receipt.
LEMMA InitializeReplayPrimaryInductive ==
  ASSUME CompanionInv, NEW r \in Primary,
         InitializeReplayPrimary(r) \/ InitializeReplayPrimaryValidationOnly(r)
  PROVE  CompanionInv'
<1>1. /\ mode = "Replay" /\ primary' = r
      /\ \/ receipt' = r /\ receipt \in {None, r}
         \/ receipt' = receipt /\ policy # "Checkpoint"
      /\ UNCHANGED <<mode, policy, stored, timeStep, history, identity>>
      /\ UNCHANGED <<initialized, at, drivers, taken, latch>>
      /\ UNCHANGED <<files, saving, foreign, restarts>>
  BY DEF InitializeReplayPrimary, InitializeReplayPrimaryValidationOnly,
         ReceiptCompatible, configuration, companion, provenance, disk
<1>2. CompanionTypeOK'
  BY <1>1 DEF CompanionInv, CompanionTypeOK
<1>3. HistoryInv' /\ SavesInv'
  BY <1>1 DEF CompanionInv, HistoryInv, SavesInv, SavedByOneAuthority
<1>4. LatchInv'
  BY <1>1, ConstantFacts DEF CompanionInv, LatchInv, Paired
<1>5. ConcurrentStaysPaired' /\ OneStepLength'
  BY <1>1 DEF CompanionInv, ConcurrentStaysPaired, OneStepLength
<1> QED
  BY <1>2, <1>3, <1>4, <1>5 DEF CompanionInv

LEMMA ReplacePrimaryInductive ==
  ASSUME CompanionInv, NEW p \in Primary, ReplacePrimary(p)
  PROVE  CompanionInv'
<1>1. /\ ~initialized /\ primary' = p
      /\ UNCHANGED <<mode, policy, stored, timeStep, receipt, history, identity>>
      /\ UNCHANGED <<initialized, at, drivers, taken, latch>>
      /\ UNCHANGED <<files, saving, foreign, restarts>>
  BY DEF ReplacePrimary, configuration, companion, provenance, disk
<1>2. CompanionTypeOK'
  BY <1>1 DEF CompanionInv, CompanionTypeOK
<1>3. HistoryInv' /\ SavesInv'
  BY <1>1 DEF CompanionInv, HistoryInv, SavesInv, SavedByOneAuthority
<1>4. LatchInv' /\ ConcurrentStaysPaired' /\ OneStepLength'
  BY <1>1 DEF CompanionInv, LatchInv, ConcurrentStaysPaired, OneStepLength
<1> QED
  BY <1>2, <1>3, <1>4 DEF CompanionInv

-----------------------------------------------------------------------------
(* Saves and processes *)

LEMMA BeginSaveInductive ==
  ASSUME CompanionInv, NEW f \in Paths, NEW r \in Primary, NEW s \in Sources,
         BeginSave(f, r, s)
  PROVE  CompanionInv'
<1> DEFINE written == [receipt |-> r, step |-> timeStep, at |-> at,
                    drivers |-> drivers, authority |-> s]
<1>1. /\ SourceCompatible(s) /\ timeStep > 0
      /\ saving' = [path |-> f, file |-> written]
      /\ UNCHANGED <<mode, policy, stored, timeStep, receipt, history, identity>>
      /\ UNCHANGED <<initialized, at, drivers, taken, latch, primary>>
      /\ UNCHANGED <<files, foreign, restarts>>
  BY DEF BeginSave, SaveAccepted, configuration, companion, provenance
<1>2. written \in File
  BY <1>1, ConstantFacts DEF CompanionInv, CompanionTypeOK, File
<1>3. drivers \subseteq {s}
  BY <1>1, AcceptedSource
<1>4. CompanionTypeOK'
  BY <1>1, <1>2 DEF CompanionInv, CompanionTypeOK
<1>5. HistoryInv' /\ SavesInv'
  BY <1>1, <1>3 DEF CompanionInv, HistoryInv, SavesInv, SavedByOneAuthority
<1>6. LatchInv' /\ ConcurrentStaysPaired' /\ OneStepLength'
  BY <1>1 DEF CompanionInv, LatchInv, ConcurrentStaysPaired, OneStepLength, Paired
<1> QED
  BY <1>4, <1>5, <1>6 DEF CompanionInv

\* A file appears, the pipeline's own or another program's.
LEMMA SaveInductive ==
  ASSUME CompanionInv, FinishSave \/ \E f \in Paths : ForeignSave(f)
  PROVE  CompanionInv'
<1>1. /\ UNCHANGED <<mode, policy, stored, timeStep, receipt, history, identity>>
      /\ UNCHANGED <<initialized, at, drivers, taken, latch, primary, restarts>>
  BY DEF FinishSave, ForeignSave, configuration, companion, provenance
<1>2. PICK path, written :
        /\ files' \in {files, [files EXCEPT ![path] = written]}
        /\ written \in File /\ written.drivers \subseteq {written.authority}
        /\ saving' = None \/ saving' = saving
  <2>1. CASE FinishSave
    <3>1. /\ saving \in [path: Paths, file: File]
          /\ saving.file \in File
          /\ saving.file.drivers \subseteq {saving.file.authority}
      BY <2>1 DEF CompanionInv, CompanionTypeOK, SavesInv, FinishSave
    <3>2. /\ files' \in {files, [files EXCEPT ![saving.path] = saving.file]}
          /\ saving' = None
      BY <2>1 DEF FinishSave
    <3> QED
      BY <3>1, <3>2
  <2>2. CASE \E f \in Paths : ForeignSave(f)
    <3>1. PICK f \in Paths, r \in Primary, d \in Steps, s \in Sources :
            /\ files' = [files EXCEPT ![f] =
                 [receipt |-> r, step |-> d, at |-> r, drivers |-> {s}, authority |-> s]]
            /\ saving' = saving
      BY <2>2 DEF ForeignSave
    <3> DEFINE other == [receipt |-> r, step |-> d, at |-> r,
                         drivers |-> {s}, authority |-> s]
    <3>2. r \in Beside \cup {None} /\ {s} \in SUBSET (Sources \cup {Raw})
      BY ConstantFacts
    <3>3. other \in File /\ other.drivers \subseteq {other.authority}
      BY <3>2 DEF File
    <3>4. files' = [files EXCEPT ![f] = other] /\ saving' = saving
      BY <3>1
    <3> HIDE DEF other
    <3> WITNESS f, other
    <3> QED
      BY <3>3, <3>4
  <2> QED
    BY <2>1, <2>2
<1>3. files \in [Paths -> File \cup {None}]
  BY DEF CompanionInv, CompanionTypeOK
<1>4. /\ files' \in [Paths -> File \cup {None}]
      /\ \A f \in Paths : files'[f] \in {files[f], written}
  BY <1>2, <1>3
<1>5. CompanionTypeOK'
  BY <1>1, <1>2, <1>4 DEF CompanionInv, CompanionTypeOK
<1>6. HistoryInv' /\ SavesInv'
  BY <1>1, <1>2, <1>4 DEF CompanionInv, HistoryInv, SavesInv, SavedByOneAuthority
<1>7. LatchInv' /\ ConcurrentStaysPaired' /\ OneStepLength'
  BY <1>1 DEF CompanionInv, LatchInv, ConcurrentStaysPaired, OneStepLength, Paired
<1> QED
  BY <1>5, <1>6, <1>7 DEF CompanionInv

LEMMA RestartInductive ==
  ASSUME CompanionInv, Restart
  PROVE  CompanionInv'
<1>1. /\ initialized' = FALSE /\ at' = None /\ drivers' = {} /\ taken' = {}
      /\ latch' = None /\ receipt' = None
      /\ history' = "Unbound" /\ identity' = None
      /\ mode' \in Modes /\ timeStep' \in Steps \cup {0}
      /\ primary' \in Primary \cup {None}
      /\ saving' = None /\ files' = files
  BY CompanionAssumption DEF Restart, Construct
<1>2. /\ policy' \in {"Zero", "Checkpoint"}
      /\ stored' \in File \cup {None}
      /\ policy' = "Checkpoint" => stored' # None
  BY DEF Restart, CompanionInv, CompanionTypeOK
<1>3. CompanionTypeOK'
  BY <1>1, <1>2 DEF CompanionInv, CompanionTypeOK
<1>4. HistoryInv' /\ SavesInv'
  BY <1>1 DEF CompanionInv, HistoryInv, SavesInv, SavedByOneAuthority
<1>5. LatchInv' /\ ConcurrentStaysPaired' /\ OneStepLength'
  BY <1>1 DEF LatchInv, ConcurrentStaysPaired, OneStepLength
<1> QED
  BY <1>3, <1>4, <1>5 DEF CompanionInv

LEMMA StutterInductive ==
  ASSUME CompanionInv, UNCHANGED companionVars
  PROVE  CompanionInv'
<1>1. /\ UNCHANGED <<mode, policy, stored, timeStep, receipt, history, identity>>
      /\ UNCHANGED <<initialized, at, drivers, taken, latch, primary>>
      /\ UNCHANGED <<files, saving, foreign, restarts>>
  BY DEF companionVars, configuration, companion, provenance, disk
<1>2. CompanionTypeOK'
  BY <1>1 DEF CompanionInv, CompanionTypeOK
<1>3. HistoryInv' /\ SavesInv'
  BY <1>1 DEF CompanionInv, HistoryInv, SavesInv, SavedByOneAuthority
<1>4. LatchInv' /\ ConcurrentStaysPaired' /\ OneStepLength'
  BY <1>1 DEF CompanionInv, LatchInv, ConcurrentStaysPaired, OneStepLength, Paired
<1> QED
  BY <1>2, <1>3, <1>4 DEF CompanionInv

\* The invariant holds of every behaviour of the companion.
THEOREM CompanionInductive == CompanionSpec => []CompanionInv
<1>1. CompanionInv /\ [CompanionNext]_companionVars => CompanionInv'
  BY AdvanceInductive, AdvanceValidationOnlyInductive, EvaluateStageInductive,
     InitializeZeroInductive, InitializeCheckpointInductive,
     InitializeReplayPrimaryInductive, ReplacePrimaryInductive,
     BeginSaveInductive, SaveInductive, RestartInductive, StutterInductive
  DEF CompanionNext
<1> QED
  BY <1>1, InitInductive, PTL DEF CompanionSpec

-----------------------------------------------------------------------------
(* What the invariant gives *)

\* The variables of the companion keep their types, and its files their shape
\* (Plus2CheckpointMetadata).
THEOREM CompanionTypes == CompanionSpec => []CompanionTypeOK
<1>1. CompanionInv => CompanionTypeOK
  BY DEF CompanionInv
<1> QED
  BY <1>1, CompanionInductive, PTL

\* No checkpoint is vouched for by a source that did not drive its companion
\* alone (require_source_history_compatible, record_validation_only_source).
THEOREM OneAuthority == CompanionSpec => []SavedByOneAuthority
<1>1. CompanionInv => SavedByOneAuthority
  BY DEF CompanionInv, SavesInv
<1> QED
  BY <1>1, CompanionInductive, PTL

\* The restored accepted time is the companion's own, whatever steps fail
\* (restored_accepted_time_).
THEOREM RestoredTimeIsOwn == CompanionSpec => []LatchIsCompanionTime
<1>1. CompanionInv => LatchIsCompanionTime
  BY DEF CompanionInv, LatchInv, LatchIsCompanionTime
<1> QED
  BY <1>1, CompanionInductive, PTL

\* A concurrent companion never parts from its primary state (advance_concurrent,
\* require_primary_state_matches_receipt).
THEOREM ConcurrentPairing == CompanionSpec => []ConcurrentStaysPaired
<1>1. CompanionInv => ConcurrentStaysPaired
  BY DEF CompanionInv
<1> QED
  BY <1>1, CompanionInductive, PTL

\* All steps of a companion have the length its checkpoints name
\* (configuration_.time_step).
THEOREM StepLengthIsFixed == CompanionSpec => []OneStepLength
<1>1. CompanionInv => OneStepLength
  BY DEF CompanionInv
<1> QED
  BY <1>1, CompanionInductive, PTL

-----------------------------------------------------------------------------
(* Reading the settings *)

\* Settings with the name they go by: none, or that of a mode with its index.
Indexed(settings) ==
  IsFiniteSet(settings) /\ \A s \in settings : s[2] = Absent \/ s[2] \in Nat \X Nat

LEMMA KeysOfSettings ==
  ASSUME NEW settings
  PROVE  DOMAIN Entries(settings) = {KeyOf(s) : s \in settings}
  BY DEF Entries

LEMMA EntryOf ==
  ASSUME NEW settings, ~ Repeated(settings), NEW s \in settings
  PROVE  Entries(settings)[KeyOf(s)] = s[3]
<1>1. KeyOf(s) \in {KeyOf(t) : t \in settings}
  OBVIOUS
<1>2. \A t \in settings : KeyOf(t) = KeyOf(s) => t = s
  BY DEF Repeated
<1>3. (CHOOSE t \in settings : KeyOf(t) = KeyOf(s)) = s
  BY <1>2
<1> QED
  BY <1>1, <1>3 DEF Entries

LEMMA KeyIs ==
  ASSUME NEW s
  PROVE  KeyOf(s)[1] = s[1] /\ KeyOf(s)[2] = s[2]
  BY DEF KeyOf

LEMMA ReadKey ==
  ASSUME NEW s
  PROVE  KeyOf(ReadLine(s)) = KeyOf(s)
  BY DEF KeyOf, ReadLine

\* The keys there are, and an override in the place of an entry of the file.
LEMMA MergedKeys ==
  ASSUME NEW f, NEW o
  PROVE  DOMAIN Merged(f, o) = {KeyOf(s) : s \in f \cup o}
<1>1. {KeyOf(s) : s \in {ReadLine(t) : t \in f}} = {KeyOf(t) : t \in f}
  BY ReadKey
<1>2. DOMAIN Entries({ReadLine(s) : s \in f}) = {KeyOf(t) : t \in f}
  BY <1>1, KeysOfSettings
<1>3. DOMAIN Merged(f, o) = DOMAIN Entries({ReadLine(s) : s \in f}) \cup DOMAIN Entries(o)
  BY DEF Merged
<1>4. DOMAIN Entries(o) = {KeyOf(s) : s \in o}
  BY KeysOfSettings
<1>5. {KeyOf(s) : s \in f \cup o} = {KeyOf(s) : s \in f} \cup {KeyOf(s) : s \in o}
  OBVIOUS
<1> QED
  BY <1>2, <1>3, <1>4, <1>5

LEMMA OverrideMerged ==
  ASSUME NEW f, NEW o, ~ Repeated(o), NEW s \in o
  PROVE  Merged(f, o)[KeyOf(s)] = s[3]
<1>1. KeyOf(s) \in DOMAIN Entries(o)
  BY KeysOfSettings
<1>2. Entries(o)[KeyOf(s)] = s[3]
  BY EntryOf
<1> QED
  BY <1>1, <1>2 DEF Merged

LEMMA IndexedMerged ==
  ASSUME NEW f, NEW o, Indexed(f), Indexed(o)
  PROVE  LET e == Merged(f, o)
         IN  /\ IsFiniteSet(DOMAIN e)
             /\ \A k \in DOMAIN e : k[2] = Absent \/ k[2] \in Nat \X Nat
<1> DEFINE e == Merged(f, o)
           g == [s \in f \cup o |-> KeyOf(s)]
<1>1. IsFiniteSet(f \cup o)
  BY FS_Union DEF Indexed
<1>2. DOMAIN e = {KeyOf(s) : s \in f \cup o}
  BY MergedKeys
<1>3. g \in Surjection(f \cup o, DOMAIN e)
  BY <1>2 DEF Surjection
<1>4. IsFiniteSet(DOMAIN e)
  BY <1>1, <1>3, FS_Surjection
<1>5. \A k \in DOMAIN e : k[2] = Absent \/ k[2] \in Nat \X Nat
  BY <1>2, KeyIs DEF Indexed
<1> QED
  BY <1>4, <1>5

-----------------------------------------------------------------------------
(* The order of the seeds *)

LEMMA SeedIndicesFinite ==
  ASSUME NEW e, IsFiniteSet(DOMAIN e),
         \A k \in DOMAIN e : k[2] = Absent \/ k[2] \in Nat \X Nat
  PROVE  /\ IsFiniteSet(SeedIndices(e)) /\ SeedIndices(e) \subseteq Nat
         /\ 0 \in SeedIndices(e)
<1> DEFINE named == {k \in DOMAIN e : k[2] # Absent}
           indices == {k[2][1] : k \in named}
           g == [k \in named |-> k[2][1]]
<1>1. IsFiniteSet(named)
  BY FS_Subset
<1>2. g \in Surjection(named, indices)
  BY DEF Surjection
<1>3. IsFiniteSet(indices)
  BY <1>1, <1>2, FS_Surjection
<1>4. IsFiniteSet({0})
  BY FS_Singleton
<1>5. SeedIndices(e) = {0} \cup indices
  BY DEF SeedIndices
<1>6. \A k \in named : k[2][1] \in Nat
  OBVIOUS
<1> HIDE DEF indices
<1>7. IsFiniteSet({0} \cup indices)
  BY <1>3, <1>4, FS_Union
<1>8. indices \subseteq Nat
  BY <1>6 DEF indices
<1> QED
  BY <1>5, <1>7, <1>8

\* The base mode comes first.
LEMMA ZeroFirst ==
  ASSUME NEW S, IsFiniteSet(S), S \subseteq Nat, 0 \in S
  PROVE  /\ Cardinality(S) \in Nat /\ Cardinality(S) >= 1
         /\ Len(Ascending(S)) = Cardinality(S)
         /\ Ascending(S)[1] = 0
<1>1. Cardinality(S) \in Nat /\ Cardinality(S) # 0
  BY FS_CardinalityType, FS_EmptySet
<1>2. {k \in S : k < 0} = {}
  <2>1. \A k \in S : k \in Nat
    OBVIOUS
  <2>2. \A k \in S : ~ (k < 0)
    BY <2>1
  <2> QED
    BY <2>2
<1>3. Cardinality({k \in S : k < 0}) = 1 - 1
  BY <1>2, FS_EmptySet
<1>4. ASSUME NEW n \in S, Cardinality({k \in S : k < n}) = 1 - 1
      PROVE  n = 0
  <2>1. IsFiniteSet({k \in S : k < n})
    BY FS_Subset
  <2>2. {k \in S : k < n} = {}
    BY <2>1, <1>4, FS_EmptySet
  <2> QED
    BY <2>2
<1> DEFINE least == CHOOSE n \in S : Cardinality({k \in S : k < n}) = 1 - 1
<1>5. least = 0
  BY <1>3, <1>4
<1>6. 1 \in 1 .. Cardinality(S)
  BY <1>1
<1>7. Ascending(S)[1] = least
  BY <1>6 DEF Ascending
<1>8. Len(Ascending(S)) = Cardinality(S)
  BY <1>1 DEF Ascending
<1> HIDE DEF least
<1> QED
  BY <1>1, <1>5, <1>7, <1>8

LEMMA BaseSeedFirst ==
  ASSUME NEW e, IsFiniteSet(DOMAIN e),
         \A k \in DOMAIN e : k[2] = Absent \/ k[2] \in Nat \X Nat
  PROVE  /\ Len(Seeds(e)) \in Nat
         /\ Seeds(e)[1] = [f \in DOMAIN BaseSeed |-> SeedField(e, 0, f)]
<1>1. LET S == SeedIndices(e)
      IN  /\ Cardinality(S) \in Nat /\ Cardinality(S) >= 1
          /\ Len(Ascending(S)) = Cardinality(S)
          /\ Ascending(S)[1] = 0
  BY SeedIndicesFinite, ZeroFirst
<1>2. Seeds(e) = [i \in 1 .. Cardinality(SeedIndices(e)) |->
                    [f \in DOMAIN BaseSeed |-> SeedField(e, Ascending(SeedIndices(e))[i], f)]]
  BY <1>1 DEF Seeds
<1>3. 1 \in 1 .. Cardinality(SeedIndices(e))
  BY <1>1
<1> QED
  BY <1>1, <1>2, <1>3

-----------------------------------------------------------------------------
(* The invariant of a configuration *)

\* What is accepted was read from the settings there are.
ConfigurationInv ==
  /\ Indexed(file) /\ Indexed(overrides)
  /\ run # Absent => run = Parsed(file, overrides)

\* What an accepted run is made of.
LEMMA ParsedIs ==
  ASSUME NEW f, NEW o, Parsed(f, o) # Refused
  PROVE  LET e == Merged(f, o)
         IN  /\ Parsed(f, o) = [values |-> Values(e), seeds |-> Seeds(e)]
             /\ Valid([values |-> Values(e), seeds |-> Seeds(e)])
             /\ ~ Repeated(f) /\ ~ Repeated(o)
             /\ \A k \in DOMAIN e : Known(k) /\ e[k] # Malformed
             /\ \A i \in SeedIndices(e) : SeedComplete(e, i)
<1> DEFINE e == Merged(f, o)
           p == Resolve(e)
<1>1. /\ Parsed(f, o) = p /\ p # Refused /\ Valid(p)
      /\ ~ Repeated(f) /\ ~ Repeated(o)
  BY Zenon DEF Parsed
<1>2. /\ p = [values |-> Values(e), seeds |-> Seeds(e)]
      /\ \A k \in DOMAIN e : Known(k) /\ e[k] # Malformed
      /\ \A i \in SeedIndices(e) : SeedComplete(e, i)
  BY <1>1 DEF Resolve
<1> QED
  BY <1>1, <1>2

LEMMA SixFinite == \A a, b, c, d, e, f : IsFiniteSet({a, b, c, d, e, f})
<1> TAKE a, b, c, d, e, f
<1>1. IsFiniteSet({a} \cup {b}) /\ IsFiniteSet({c} \cup {d}) /\ IsFiniteSet({e} \cup {f})
  BY FS_Singleton, FS_Union
<1>2. IsFiniteSet(({a} \cup {b}) \cup (({c} \cup {d}) \cup ({e} \cup {f})))
  BY <1>1, FS_Union
<1>3. {a, b, c, d, e, f} = ({a} \cup {b}) \cup (({c} \cup {d}) \cup ({e} \cup {f}))
  OBVIOUS
<1> QED
  BY <1>2, <1>3

LEMMA ResolvedIndexed ==
  ASSUME NEW p, Len(p.seeds) \in Nat
  PROVE  Indexed(ResolvedText(p))
<1> DEFINE Plainly(k) == <<k, Absent, IF k \in {"checkpoint_directory", "second_checkpoint"}
                                   THEN EmptyIsNone(p.values[k]) ELSE p.values[k]>>
           Seeded(q) == <<q[2], <<q[1] - 1, 0>>, p.seeds[q[1]][q[2]]>>
           places == (1 .. Len(p.seeds)) \X DOMAIN BaseSeed
           A == {Plainly(k) : k \in DOMAIN Defaults}
           B == {Seeded(q) : q \in places}
<1>1. ResolvedText(p) = A \cup B
  <2> DEFINE seeds == {<<f, <<i - 1, 0>>, p.seeds[i][f]>> : i \in 1 .. Len(p.seeds), f \in DOMAIN BaseSeed}
  <2>1. ResolvedText(p) = A \cup seeds
    BY DEF ResolvedText
  <2>2. ASSUME NEW x \in seeds PROVE x \in B
    <3>1. PICK i \in 1 .. Len(p.seeds), f \in DOMAIN BaseSeed : x = <<f, <<i - 1, 0>>, p.seeds[i][f]>>
      OBVIOUS
    <3>2. x = Seeded(<<i, f>>) /\ <<i, f>> \in places
      BY <3>1
    <3> QED
      BY <3>2
  <2>3. ASSUME NEW x \in B PROVE x \in seeds
    <3>1. PICK q \in places : x = Seeded(q)
      OBVIOUS
    <3>2. q[1] \in 1 .. Len(p.seeds) /\ q[2] \in DOMAIN BaseSeed
      OBVIOUS
    <3> QED
      BY <3>1, <3>2
  <2> HIDE DEF A, B, seeds
  <2> QED
    BY <2>1, <2>2, <2>3
<1>2. IsFiniteSet(DOMAIN Defaults) /\ IsFiniteSet(DOMAIN BaseSeed)
  <2>1. DOMAIN Defaults =
          {"numbers", "ntheta", "ellmax_first", "ellmax_second", "first_order_modes",
           "second_order_modes", "initial_type", "add_sharp_partner",
           "checkpoint_directory", "second_order", "allow_truncated", "plus2",
           "plus2_mode", "initial_policy", "second_checkpoint", "plus2_first",
           "plus2_second", "regularized", "physical", "families", "pairs",
           "output_directory"}
    BY DEF Defaults
  <2>2. DOMAIN BaseSeed = {"ell", "m", "amplitude"}
    BY DEF BaseSeed
  <2> QED
    <3> DEFINE P == {"numbers", "ntheta", "ellmax_first", "ellmax_second",
                     "first_order_modes", "second_order_modes"}
               Q == {"initial_type", "add_sharp_partner", "checkpoint_directory",
                     "second_order", "allow_truncated", "plus2"}
               R == {"plus2_mode", "initial_policy", "second_checkpoint", "plus2_first",
                     "plus2_second", "regularized"}
               T == {"physical", "families", "pairs", "output_directory", "pairs", "pairs"}
    <3>1. DOMAIN Defaults = P \cup (Q \cup (R \cup T))
      BY <2>1
    <3>2. DOMAIN BaseSeed = {"ell"} \cup ({"m"} \cup {"amplitude"})
      BY <2>2
    <3>3. IsFiniteSet(DOMAIN BaseSeed)
      <4>1. IsFiniteSet({"m"} \cup {"amplitude"}) /\ IsFiniteSet({"ell"})
        BY FS_Singleton, FS_Union
      <4>2. IsFiniteSet({"ell"} \cup ({"m"} \cup {"amplitude"}))
        BY <4>1, FS_Union
      <4> QED
        BY <3>2, <4>2
    <3>4. IsFiniteSet(P) /\ IsFiniteSet(Q) /\ IsFiniteSet(R) /\ IsFiniteSet(T)
      BY SixFinite
    <3> HIDE DEF P, Q, R, T
    <3>5. IsFiniteSet(R \cup T)
      BY <3>4, FS_Union
    <3>6. IsFiniteSet(Q \cup (R \cup T))
      BY <3>4, <3>5, FS_Union
    <3>7. IsFiniteSet(P \cup (Q \cup (R \cup T)))
      BY <3>4, <3>6, FS_Union
    <3> QED
      BY <3>1, <3>3, <3>7
<1>3. IsFiniteSet(A)
  <2>1. [k \in DOMAIN Defaults |-> Plainly(k)] \in Surjection(DOMAIN Defaults, A)
    BY DEF Surjection
  <2> QED
    BY <1>2, <2>1, FS_Surjection
<1>4. IsFiniteSet(B)
  <2>1. [q \in places |-> Seeded(q)] \in Surjection(places, B)
    BY DEF Surjection
  <2>2. IsFiniteSet(1 .. Len(p.seeds))
    BY FS_Interval
  <2>3. IsFiniteSet(places)
    BY <1>2, <2>2, FS_Product
  <2> QED
    BY <2>1, <2>3, FS_Surjection
<1>5. \A s \in A : s[2] = Absent
  OBVIOUS
<1>6. \A s \in B : s[2] \in Nat \X Nat
  <2>1. ASSUME NEW q \in places PROVE Seeded(q)[2] \in Nat \X Nat
    <3>1. q[1] \in 1 .. Len(p.seeds)
      OBVIOUS
    <3>2. q[1] - 1 \in Nat
      BY <3>1
    <3> QED
      BY <3>2
  <2> QED
    BY <2>1
<1> HIDE DEF A, B
<1>7. IsFiniteSet(A \cup B)
  BY <1>3, <1>4, FS_Union
<1> QED
  BY <1>1, <1>5, <1>6, <1>7 DEF Indexed

LEMMA ConfigurationStep ==
  ASSUME ConfigurationInv, [ConfigurationNext]_configurationVars
  PROVE  ConfigurationInv'
<1> USE SettingsAssumption
<1>1. ASSUME NEW s \in Settings, NEW old, Indexed(old)
      PROVE  Indexed(old \cup {s})
  <2>1. IsFiniteSet(old \cup {s})
    BY <1>1, FS_AddElement DEF Indexed
  <2>2. s[2] \in {Absent} \cup (Nat \X Nat)
    OBVIOUS
  <2> QED
    BY <1>1, <2>1, <2>2 DEF Indexed
<1>2. CASE WriteSetting
  BY <1>1, <1>2 DEF WriteSetting, ConfigurationInv
<1>3. CASE AddOverride
  BY <1>1, <1>3 DEF AddOverride, ConfigurationInv
<1>4. CASE Start
  BY <1>4 DEF Start, ConfigurationInv
<1>5. CASE Reuse
  <2>1. /\ run # Absent /\ run # Refused /\ run' = Absent
        /\ file' = ResolvedText(run) /\ overrides' = {}
    BY <1>5 DEF Reuse
  <2>2. run = Parsed(file, overrides) /\ Parsed(file, overrides) # Refused
    BY <2>1 DEF ConfigurationInv
  <2>3. run.seeds = Seeds(Merged(file, overrides))
    <3>1. Parsed(file, overrides) = [values |-> Values(Merged(file, overrides)),
                                     seeds  |-> Seeds(Merged(file, overrides))]
      BY <2>2, ParsedIs
    <3> QED
      BY <2>2, <3>1
  <2>4. Len(run.seeds) \in Nat
    BY <2>3, BaseSeedFirst, IndexedMerged DEF ConfigurationInv
  <2>5. Indexed(file')
    BY <2>1, <2>4, ResolvedIndexed
  <2>6. Indexed({})
    BY FS_EmptySet DEF Indexed
  <2> QED
    BY <2>1, <2>5, <2>6 DEF ConfigurationInv
<1>6. CASE UNCHANGED configurationVars
  BY <1>6 DEF configurationVars, ConfigurationInv
<1> QED
  BY <1>2, <1>3, <1>4, <1>5, <1>6 DEF ConfigurationNext

\* A run that was accepted is what its settings say, which are finitely many.
THEOREM ConfigurationInvariant == ConfigurationSpec => []ConfigurationInv
<1>1. ConfigurationInit => ConfigurationInv
  BY FS_EmptySet DEF ConfigurationInit, ConfigurationInv, Indexed
<1> QED
  BY <1>1, ConfigurationStep, PTL DEF ConfigurationSpec

-----------------------------------------------------------------------------
(* The resolved file *)

Printed(p, k) ==
  IF k \in {"checkpoint_directory", "second_checkpoint"}
  THEN EmptyIsNone(p.values[k]) ELSE p.values[k]

\* What an accepted run has for the key of a line, and nothing that a line cannot say.
Readable(p) ==
  /\ \E e : p.values = Values(e)
  /\ Len(p.seeds) \in Nat /\ Len(p.seeds) >= 1
  /\ p.seeds = [i \in 1 .. Len(p.seeds) |-> [f \in DOMAIN BaseSeed |-> p.seeds[i][f]]]
  /\ \A k \in DOMAIN Defaults : p.values[k] # Malformed
  /\ \A i \in 1 .. Len(p.seeds), f \in DOMAIN BaseSeed : p.seeds[i][f] # Malformed
  /\ p.values.output_directory # ""

SeedLine(p, i, f) == <<f, <<i - 1, 0>>, p.seeds[i][f]>>
PlainLine(p, k) == <<k, Absent, Printed(p, k)>>

LEMMA LinesAre ==
  ASSUME NEW p
  PROVE  \A s : s \in ResolvedText(p) <=>
           \/ \E k \in DOMAIN Defaults : s = PlainLine(p, k)
           \/ \E i \in 1 .. Len(p.seeds), f \in DOMAIN BaseSeed : s = SeedLine(p, i, f)
  BY DEF ResolvedText, PlainLine, SeedLine, Printed

LEMMA AbsentIsNoPair == \A i \in Nat, j \in Nat : <<i, j>> # Absent
  BY SettingsAssumption

LEMMA DistinctKeys ==
  ASSUME NEW p, Len(p.seeds) \in Nat
  PROVE  ~ Repeated(ResolvedText(p))
<1> SUFFICES ASSUME NEW s \in ResolvedText(p), NEW t \in ResolvedText(p), KeyOf(s) = KeyOf(t)
             PROVE  s = t
  BY DEF Repeated
<1>1. s[1] = t[1] /\ s[2] = t[2]
  BY KeyIs
<1>2. ASSUME NEW k \in DOMAIN Defaults, s = PlainLine(p, k) PROVE s = t
  <2>1. s[1] = k /\ s[2] = Absent
    BY <1>2 DEF PlainLine
  <2>2. ASSUME NEW i \in 1 .. Len(p.seeds), NEW f \in DOMAIN BaseSeed, t = SeedLine(p, i, f)
        PROVE  FALSE
    <3>1. t[2] = <<i - 1, 0>> /\ i - 1 \in Nat
      BY <2>2 DEF SeedLine
    <3> QED
      BY <3>1, <2>1, <1>1, AbsentIsNoPair
  <2>3. PICK j \in DOMAIN Defaults : t = PlainLine(p, j)
    BY <2>2, LinesAre
  <2>4. t[1] = j
    BY <2>3 DEF PlainLine
  <2> QED
    BY <1>1, <1>2, <2>1, <2>3, <2>4
<1>3. ASSUME NEW i \in 1 .. Len(p.seeds), NEW f \in DOMAIN BaseSeed, s = SeedLine(p, i, f)
      PROVE  s = t
  <2>1. s[1] = f /\ s[2] = <<i - 1, 0>> /\ i - 1 \in Nat
    BY <1>3 DEF SeedLine
  <2>2. ASSUME NEW k \in DOMAIN Defaults, t = PlainLine(p, k) PROVE FALSE
    <3>1. t[2] = Absent
      BY <2>2 DEF PlainLine
    <3> QED
      BY <3>1, <2>1, <1>1, AbsentIsNoPair
  <2>3. PICK j \in 1 .. Len(p.seeds), g \in DOMAIN BaseSeed : t = SeedLine(p, j, g)
    BY <2>2, LinesAre
  <2>4. t[1] = g /\ t[2] = <<j - 1, 0>>
    BY <2>3 DEF SeedLine
  <2>5. f = g /\ <<i - 1, 0>> = <<j - 1, 0>>
    BY <1>1, <2>1, <2>4
  <2>6. i = j
    BY <2>5
  <2> QED
    BY <1>3, <2>3, <2>5, <2>6
<1> QED
  BY <1>2, <1>3, LinesAre

\* Reading a line leaves it as it was printed.
LEMMA LineKept ==
  ASSUME NEW p, Readable(p), ~ HasComment(p), NEW s \in ResolvedText(p)
  PROVE  /\ ReadLine(s) = s
         /\ s[1] \in PathKeys => BeforeComment(s[3]) # ""
<1>1. ASSUME NEW k \in DOMAIN Defaults, s = PlainLine(p, k), k \in PathKeys
      PROVE  BeforeComment(s[3]) = s[3] /\ s[3] # ""
  <2>1. p.values[k] \notin DOMAIN Commented
    BY <1>1 DEF HasComment
  <2>2. s[3] = Printed(p, k)
    BY <1>1 DEF PlainLine
  <2>3. CASE k \in {"checkpoint_directory", "second_checkpoint"}
    BY <2>1, <2>2, <2>3, ValuesAssumption DEF Printed, EmptyIsNone, BeforeComment
  <2>4. CASE k = "output_directory"
    BY <2>1, <2>2, <2>4 DEF Printed, BeforeComment, Readable
  <2> QED
    BY <1>1, <2>3, <2>4 DEF PathKeys
<1>2. ASSUME NEW k \in DOMAIN Defaults, s = PlainLine(p, k)
      PROVE  s[1] = k /\ s = <<s[1], s[2], s[3]>>
  BY <1>2 DEF PlainLine
<1>3. ASSUME NEW i \in 1 .. Len(p.seeds), NEW f \in DOMAIN BaseSeed, s = SeedLine(p, i, f)
      PROVE  s[1] \notin PathKeys
  <2>1. s[1] = f
    BY <1>3 DEF SeedLine
  <2>2. f \in {"ell", "m", "amplitude"}
    BY DEF BaseSeed
  <2> QED
    BY <2>1, <2>2 DEF PathKeys
<1>4. CASE s[1] \notin PathKeys
  BY <1>4 DEF ReadLine
<1>5. CASE s[1] \in PathKeys
  <2>1. PICK k \in DOMAIN Defaults : s = PlainLine(p, k)
    BY <1>5, <1>3, LinesAre
  <2>2. /\ BeforeComment(s[3]) = s[3] /\ s[3] # ""
        /\ s = <<s[1], s[2], s[3]>>
    BY <1>1, <1>2, <1>5, <2>1
  <2>3. ReadLine(s) = <<s[1], s[2], BeforeComment(s[3])>>
    BY <1>5 DEF ReadLine
  <2> QED
    BY <2>2, <2>3
<1> QED
  BY <1>4, <1>5

LEMMA ReadBack ==
  ASSUME NEW p, Readable(p), ~ HasComment(p)
  PROVE  LET e == Merged(ResolvedText(p), {})
         IN  /\ DOMAIN e = {KeyOf(s) : s \in ResolvedText(p)}
             /\ \A s \in ResolvedText(p) : e[KeyOf(s)] = s[3]
<1> DEFINE T == ResolvedText(p)
           e == Merged(T, {})
<1>1. {ReadLine(s) : s \in T} = T
  <2>1. \A s \in T : ReadLine(s) = s
    BY LineKept
  <2> HIDE DEF T
  <2> QED
    BY <2>1
<1>2. Entries({}) = [k \in {} |-> k]
  BY DEF Entries
<1>3. DOMAIN Entries(T) = {KeyOf(s) : s \in T}
  BY KeysOfSettings
<1>4. DOMAIN Entries({}) = {}
  BY <1>2
<1>5. e = Entries(T)
  <2>1. e = [k \in DOMAIN Entries(T) \cup DOMAIN Entries({}) |->
               IF k \in DOMAIN Entries({}) THEN Entries({})[k] ELSE Entries(T)[k]]
    BY <1>1 DEF Merged
  <2>2. e = [k \in DOMAIN Entries(T) |-> Entries(T)[k]]
    BY <2>1, <1>4
  <2>3. Entries(T) = [k \in DOMAIN Entries(T) |-> Entries(T)[k]]
    BY DEF Entries
  <2> QED
    BY <2>2, <2>3
<1>6. ~ Repeated(T)
  BY DistinctKeys DEF Readable
<1> HIDE DEF e, T
<1>7. \A s \in T : e[KeyOf(s)] = s[3]
  BY <1>5, <1>6, EntryOf
<1> QED
  BY <1>3, <1>5, <1>7 DEF e, T

LEMMA UpTo ==
  ASSUME NEW n \in Nat
  PROVE  /\ Cardinality(0 .. n - 1) = n /\ IsFiniteSet(0 .. n - 1)
         /\ \A i \in 1 .. n : Ascending(0 .. n - 1)[i] = i - 1
         /\ Len(Ascending(0 .. n - 1)) = n
<1>1. \A m \in Nat : Cardinality(0 .. m - 1) = m /\ IsFiniteSet(0 .. m - 1)
  BY FS_Interval
<1>2. ASSUME NEW i \in 1 .. n
      PROVE  Ascending(0 .. n - 1)[i] = i - 1
  <2>1. \A m \in 0 .. n - 1 : {k \in 0 .. n - 1 : k < m} = 0 .. m - 1
    OBVIOUS
  <2>2. \A m \in 0 .. n - 1 : Cardinality({k \in 0 .. n - 1 : k < m}) = m
    <3> TAKE m \in 0 .. n - 1
    <3>1. {k \in 0 .. n - 1 : k < m} = 0 .. m - 1
      BY <2>1
    <3>2. m \in Nat
      OBVIOUS
    <3>3. Cardinality(0 .. m - 1) = m
      BY <3>2, <1>1
    <3> QED
      BY <3>1, <3>3
  <2>3. i - 1 \in 0 .. n - 1
    OBVIOUS
  <2>4. (CHOOSE m \in 0 .. n - 1 : Cardinality({k \in 0 .. n - 1 : k < m}) = i - 1) = i - 1
    BY <2>2, <2>3
  <2>5. i \in 1 .. Cardinality(0 .. n - 1)
    BY <1>1
  <2> QED
    BY <2>4, <2>5 DEF Ascending
<1>3. Len(Ascending(0 .. n - 1)) = n
  BY <1>1 DEF Ascending
<1> QED
  BY <1>1, <1>2, <1>3

\* Of a resolved file the entries are those of the parameters.
ReadsAs(e, p) ==
  /\ \A k \in DOMAIN e : \/ \E j \in DOMAIN Defaults : k = <<j, Absent>>
                         \/ \E i \in 1 .. Len(p.seeds), f \in DOMAIN BaseSeed :
                              k = <<f, <<i - 1, 0>>>>
  /\ \A k \in DOMAIN Defaults : <<k, Absent>> \in DOMAIN e /\ e[<<k, Absent>>] = Printed(p, k)
  /\ \A i \in 1 .. Len(p.seeds), f \in DOMAIN BaseSeed :
       <<f, <<i - 1, 0>>>> \in DOMAIN e /\ e[<<f, <<i - 1, 0>>>>] = p.seeds[i][f]

LEMMA ReadsAsPrinted ==
  ASSUME NEW p, Readable(p), ~ HasComment(p)
  PROVE  ReadsAs(Merged(ResolvedText(p), {}), p)
<1> DEFINE e == Merged(ResolvedText(p), {})
<1>1. /\ DOMAIN e = {KeyOf(s) : s \in ResolvedText(p)}
      /\ \A s \in ResolvedText(p) : e[KeyOf(s)] = s[3]
  BY ReadBack
<1> HIDE DEF e
<1>2. \A k : KeyOf(PlainLine(p, k)) = <<k, Absent>> /\ PlainLine(p, k)[3] = Printed(p, k)
  BY DEF KeyOf, PlainLine
<1>3. \A i, f : /\ KeyOf(SeedLine(p, i, f)) = <<f, <<i - 1, 0>>>>
                /\ SeedLine(p, i, f)[3] = p.seeds[i][f]
  BY DEF KeyOf, SeedLine
<1>4. ASSUME NEW k \in DOMAIN Defaults
      PROVE  <<k, Absent>> \in DOMAIN e /\ e[<<k, Absent>>] = Printed(p, k)
  <2>1. PlainLine(p, k) \in ResolvedText(p)
    BY LinesAre
  <2> QED
    BY <1>1, <1>2, <2>1
<1>5. ASSUME NEW i \in 1 .. Len(p.seeds), NEW f \in DOMAIN BaseSeed
      PROVE  <<f, <<i - 1, 0>>>> \in DOMAIN e /\ e[<<f, <<i - 1, 0>>>>] = p.seeds[i][f]
  <2>1. SeedLine(p, i, f) \in ResolvedText(p)
    BY LinesAre
  <2> QED
    BY <1>1, <1>3, <2>1
<1>6. ASSUME NEW k \in DOMAIN e
      PROVE  \/ \E j \in DOMAIN Defaults : k = <<j, Absent>>
             \/ \E i \in 1 .. Len(p.seeds), f \in DOMAIN BaseSeed : k = <<f, <<i - 1, 0>>>>
  <2>1. PICK s \in ResolvedText(p) : k = KeyOf(s)
    BY <1>1
  <2>2. CASE \E j \in DOMAIN Defaults : s = PlainLine(p, j)
    BY <2>1, <2>2, <1>2
  <2>3. CASE \E i \in 1 .. Len(p.seeds), f \in DOMAIN BaseSeed : s = SeedLine(p, i, f)
    BY <2>1, <2>3, <1>3
  <2> QED
    BY <2>2, <2>3, LinesAre
<1>7. ReadsAs(e, p)
  BY <1>4, <1>5, <1>6 DEF ReadsAs
<1> QED
  BY <1>7 DEF e

LEMMA SeedsOfText ==
  ASSUME NEW p, Readable(p), NEW e, ReadsAs(e, p)
  PROVE  /\ SeedIndices(e) = 0 .. Len(p.seeds) - 1
         /\ \A i \in 1 .. Len(p.seeds), f \in DOMAIN BaseSeed :
              /\ Spelled(e, i - 1, f) = {<<f, <<i - 1, 0>>>>}
              /\ SeedField(e, i - 1, f) = p.seeds[i][f]
<1>0. Len(p.seeds) \in Nat /\ Len(p.seeds) >= 1
  BY DEF Readable
<1>1. ASSUME NEW k \in DOMAIN e, k[2] # Absent
      PROVE  \E i \in 1 .. Len(p.seeds), f \in DOMAIN BaseSeed : k = <<f, <<i - 1, 0>>>>
  <2>1. ASSUME NEW j \in DOMAIN Defaults, k = <<j, Absent>> PROVE FALSE
    BY <1>1, <2>1
  <2> QED
    BY <2>1 DEF ReadsAs
<1>2. ASSUME NEW i \in 1 .. Len(p.seeds), NEW f \in DOMAIN BaseSeed
      PROVE  /\ <<f, <<i - 1, 0>>>> \in DOMAIN e
             /\ <<f, <<i - 1, 0>>>>[2] # Absent /\ <<f, <<i - 1, 0>>>>[2][1] = i - 1
             /\ e[<<f, <<i - 1, 0>>>>] = p.seeds[i][f]
  <2>1. i - 1 \in Nat
    OBVIOUS
  <2> QED
    BY <2>1, AbsentIsNoPair DEF ReadsAs
<1>3. SeedIndices(e) = 0 .. Len(p.seeds) - 1
  <2>1. ASSUME NEW n \in SeedIndices(e) PROVE n \in 0 .. Len(p.seeds) - 1
    <3>1. CASE n = 0
      BY <1>0, <3>1
    <3>2. CASE n # 0
      <4>1. PICK k \in DOMAIN e : k[2] # Absent /\ n = k[2][1]
        BY <3>2 DEF SeedIndices
      <4>2. PICK i \in 1 .. Len(p.seeds), f \in DOMAIN BaseSeed : k = <<f, <<i - 1, 0>>>>
        BY <1>1, <4>1
      <4>3. n = i - 1
        BY <4>1, <4>2
      <4> QED
        BY <4>3, <1>0
    <3> QED
      BY <3>1, <3>2
  <2>2. ASSUME NEW n \in 0 .. Len(p.seeds) - 1 PROVE n \in SeedIndices(e)
    <3>1. n + 1 \in 1 .. Len(p.seeds) /\ (n + 1) - 1 = n /\ "ell" \in DOMAIN BaseSeed
      BY <1>0 DEF BaseSeed
    <3> DEFINE k == <<"ell", <<n, 0>>>>
    <3>2. k \in DOMAIN e /\ k[2] # Absent /\ k[2][1] = n
      BY <3>1, <1>2
    <3> HIDE DEF k
    <3> QED
      BY <3>2 DEF SeedIndices
  <2> QED
    BY <2>1, <2>2
<1>4. ASSUME NEW i \in 1 .. Len(p.seeds), NEW f \in DOMAIN BaseSeed
      PROVE  Spelled(e, i - 1, f) = {<<f, <<i - 1, 0>>>>}
  <2>1. ASSUME NEW k \in Spelled(e, i - 1, f) PROVE k = <<f, <<i - 1, 0>>>>
    <3>1. k \in DOMAIN e /\ k[2] # Absent /\ k[1] = f /\ k[2][1] = i - 1
      BY DEF Spelled
    <3>2. PICK j \in 1 .. Len(p.seeds), g \in DOMAIN BaseSeed : k = <<g, <<j - 1, 0>>>>
      BY <1>1, <3>1
    <3>3. g = f /\ j - 1 = i - 1
      BY <3>1, <3>2
    <3> QED
      BY <3>2, <3>3
  <2>2. <<f, <<i - 1, 0>>>> \in Spelled(e, i - 1, f)
    BY <1>2 DEF Spelled
  <2> QED
    BY <2>1, <2>2
<1>5. ASSUME NEW i \in 1 .. Len(p.seeds), NEW f \in DOMAIN BaseSeed
      PROVE  SeedField(e, i - 1, f) = p.seeds[i][f]
  <2> DEFINE k == <<f, <<i - 1, 0>>>>
  <2>1. Spelled(e, i - 1, f) = {k}
    BY <1>4
  <2>2. k[2][2] <= k[2][2] /\ k[2][2] >= k[2][2]
    OBVIOUS
  <2>3. e[k] = p.seeds[i][f]
    BY <1>2
  <2> HIDE DEF k
  <2>4. LastSpelling(i - 1, {k}) = k
    BY <2>2 DEF LastSpelling
  <2> QED
    BY <2>1, <2>3, <2>4 DEF SeedField
<1> QED
  BY <1>3, <1>4, <1>5

\* The parameters that a resolved file is read as.
LEMMA ValuesBack ==
  ASSUME NEW p, Readable(p), NEW e, ReadsAs(e, p)
  PROVE  Values(e) = p.values
<1>1. PICK e0 : p.values = Values(e0)
  BY DEF Readable
<1>2. \A k \in DOMAIN Defaults : Given(e, k) /\ Plain(e, k) = Printed(p, k)
  BY DEF Given, Plain, ReadsAs
<1>3. \A path : NoneIsEmpty(EmptyIsNone(NoneIsEmpty(path))) = NoneIsEmpty(path)
  BY DEF NoneIsEmpty, EmptyIsNone
<1>4. ASSUME NEW k \in DOMAIN Defaults PROVE Values(e)[k] = p.values[k]
  <2>1. CASE k \in {"checkpoint_directory", "second_checkpoint"}
    <3>1. Values(e)[k] = NoneIsEmpty(Plain(e, k))
      BY <2>1 DEF Values
    <3>2. p.values[k] = NoneIsEmpty(Plain(e0, k))
      BY <2>1, <1>1 DEF Values
    <3>3. Plain(e, k) = EmptyIsNone(p.values[k])
      BY <1>2, <2>1 DEF Printed
    <3> QED
      BY <3>1, <3>2, <3>3, <1>3
  <2>2. CASE k \notin {"checkpoint_directory", "second_checkpoint"}
    <3>1. Values(e)[k] = Plain(e, k)
      BY <2>2, <1>2 DEF Values
    <3>2. Plain(e, k) = p.values[k]
      BY <1>2, <2>2 DEF Printed
    <3> QED
      BY <3>1, <3>2
  <2> QED
    BY <2>1, <2>2
<1>5. Values(e) = [k \in DOMAIN Defaults |-> Values(e)[k]]
  BY DEF Values
<1>6. p.values = [k \in DOMAIN Defaults |-> p.values[k]]
  BY <1>1 DEF Values
<1> QED
  BY <1>4, <1>5, <1>6

LEMMA SeedsBack ==
  ASSUME NEW p, Readable(p), NEW e, ReadsAs(e, p)
  PROVE  Seeds(e) = p.seeds
<1> DEFINE n == Len(p.seeds)
           order == Ascending(SeedIndices(e))
<1>1. /\ n \in Nat
      /\ p.seeds = [i \in 1 .. n |-> [f \in DOMAIN BaseSeed |-> p.seeds[i][f]]]
  BY DEF Readable
<1>2. Len(order) = n /\ \A i \in 1 .. n : order[i] = i - 1
  BY <1>1, SeedsOfText, UpTo
<1>3. Seeds(e) = [i \in 1 .. Len(order) |-> [f \in DOMAIN BaseSeed |-> SeedField(e, order[i], f)]]
  BY DEF Seeds
<1>4. \A i \in 1 .. n, f \in DOMAIN BaseSeed : SeedField(e, i - 1, f) = p.seeds[i][f]
  BY SeedsOfText
<1> HIDE DEF order, n
<1>5. Seeds(e) = [i \in 1 .. n |-> [f \in DOMAIN BaseSeed |-> SeedField(e, i - 1, f)]]
  BY <1>2, <1>3
<1>6. \A i \in 1 .. n : [f \in DOMAIN BaseSeed |-> SeedField(e, i - 1, f)] =
                      [f \in DOMAIN BaseSeed |-> p.seeds[i][f]]
  BY <1>4
<1> QED
  BY <1>1, <1>5, <1>6

LEMMA LenReadable ==
  ASSUME NEW p, Readable(p)
  PROVE  Len(p.seeds) \in Nat /\ Len(p.seeds) >= 1
  BY DEF Readable

LEMMA PrintedParses ==
  ASSUME NEW p, Readable(p), NEW k \in DOMAIN Defaults
  PROVE  Printed(p, k) # Malformed
  BY ValuesAssumption DEF Readable, Printed, EmptyIsNone

LEMMA ResolveBack ==
  ASSUME NEW p, Readable(p), NEW e, ReadsAs(e, p)
  PROVE  Resolve(e) = [values |-> p.values, seeds |-> p.seeds]
<1>1. ASSUME NEW k \in DOMAIN e PROVE Known(k) /\ e[k] # Malformed
  <2>1. ASSUME NEW j \in DOMAIN Defaults, k = <<j, Absent>> PROVE Known(k) /\ e[k] # Malformed
    <3>1. e[k] = Printed(p, j)
      BY <2>1 DEF ReadsAs
    <3>2. k[1] = j /\ k[2] = Absent
      BY <2>1
    <3> QED
      BY <3>1, <3>2, PrintedParses DEF Known
  <2>2. ASSUME NEW i \in 1 .. Len(p.seeds), NEW f \in DOMAIN BaseSeed, k = <<f, <<i - 1, 0>>>>
        PROVE  Known(k) /\ e[k] # Malformed
    <3>1. e[k] = p.seeds[i][f]
      BY <2>2 DEF ReadsAs
    <3>2. i - 1 \in Nat
      BY LenReadable
    <3>3. k[1] = f /\ k[2] # Absent
      BY <2>2, <3>2, AbsentIsNoPair
    <3> QED
      BY <3>1, <3>3, ZenonT(60) DEF Known, Readable
  <2> QED
    BY <2>1, <2>2 DEF ReadsAs
<1>2. ASSUME NEW n \in SeedIndices(e) PROVE SeedComplete(e, n)
  <2>1. n + 1 \in 1 .. Len(p.seeds) /\ (n + 1) - 1 = n
    BY SeedsOfText, LenReadable
  <2>2. \A f \in DOMAIN BaseSeed : Spelled(e, n, f) = {<<f, <<n, 0>>>>}
    <3> TAKE f \in DOMAIN BaseSeed
    <3>1. Spelled(e, (n + 1) - 1, f) = {<<f, <<(n + 1) - 1, 0>>>>}
      BY <2>1, SeedsOfText
    <3> QED
      BY <2>1, <3>1
  <2> QED
    BY <2>2 DEF SeedComplete
<1>3. Resolve(e) = [values |-> Values(e), seeds |-> Seeds(e)]
  BY <1>1, <1>2 DEF Resolve
<1> QED
  BY <1>3, ValuesBack, SeedsBack

\* The value of a key is never one that could not be parsed.
LEMMA ValuesParse ==
  ASSUME NEW e, \A k \in DOMAIN e : e[k] # Malformed, NEW k \in DOMAIN Defaults
  PROVE  Values(e)[k] # Malformed
<1>1. \A j \in DOMAIN Defaults : Plain(e, j) # Malformed
  BY ValuesAssumption DEF Plain, Given
<1>2. \A path : path # Malformed => NoneIsEmpty(path) # Malformed
  BY ValuesAssumption DEF NoneIsEmpty
<1>3. {"ellmax_first", "ellmax_second"} \subseteq DOMAIN Defaults
  BY DEF Defaults
<1> QED
  BY <1>1, <1>2, <1>3 DEF Values

LEMMA Largest ==
  ASSUME NEW S, IsFiniteSet(S), S \subseteq Nat, S # {}
  PROVE  \E x \in S : \A y \in S : y <= x
<1> DEFINE Has(T) == \E x \in T : \A y \in T : y <= x
           A == {n \in Nat : \A T \in SUBSET Nat :
                   IsFiniteSet(T) /\ Cardinality(T) = n + 1 => Has(T)}
<1>1. 0 \in A
  <2>1. ASSUME NEW T \in SUBSET Nat, IsFiniteSet(T), Cardinality(T) = 0 + 1 PROVE Has(T)
    <3>0. Cardinality(T) = 1
      BY <2>1
    <3>1. PICK x : T = {x}
      BY <2>1, <3>0, FS_Singleton
    <3>2. x \in Nat /\ x <= x
      BY <3>1
    <3> QED
      BY <3>1, <3>2
  <2> QED
    BY <2>1
<1>2. ASSUME NEW n \in Nat, n \in A PROVE n + 1 \in A
  <2>1. ASSUME NEW T \in SUBSET Nat, IsFiniteSet(T), Cardinality(T) = (n + 1) + 1
        PROVE  Has(T)
    <3>1. T # {}
      BY <2>1, FS_EmptySet
    <3>2. PICK z : z \in T
      BY <3>1
    <3>3. /\ T \ {z} \in SUBSET Nat /\ IsFiniteSet(T \ {z})
          /\ Cardinality(T \ {z}) = n + 1
      BY <2>1, <3>2, FS_RemoveElement
    <3>4. Has(T \ {z})
      BY <1>2, <3>3
    <3>5. PICK x \in T \ {z} : \A y \in T \ {z} : y <= x
      BY <3>4
    <3>6. x \in Nat /\ z \in Nat
      BY <3>2
    <3>7. CASE z <= x
      BY <3>5, <3>7
    <3>8. CASE ~ (z <= x)
      <4>1. \A y \in T : y \in Nat
        OBVIOUS
      <4>2. \A y \in T : y <= z
        BY <3>5, <3>6, <3>8, <4>1
      <4> QED
        BY <3>2, <4>2
    <3> QED
      BY <3>7, <3>8
  <2> HIDE DEF Has
  <2>2. n + 1 \in Nat
    OBVIOUS
  <2> QED
    BY <2>1, <2>2
<1> HIDE DEF A
<1>3. Nat \subseteq A
  BY <1>1, <1>2, StepsInduction
<1>4. Cardinality(S) \in Nat /\ Cardinality(S) # 0
  BY FS_CardinalityType, FS_EmptySet
<1>5. Cardinality(S) - 1 \in Nat /\ Cardinality(S) = (Cardinality(S) - 1) + 1
  BY <1>4
<1>6. Cardinality(S) - 1 \in A
  BY <1>3, <1>5
<1> QED
  BY <1>5, <1>6 DEF A

LEMMA SpellingThere ==
  ASSUME NEW i, NEW keys, keys # {}, IsFiniteSet(keys), \A k \in keys : k[2] \in Nat \X Nat
  PROVE  LastSpelling(i, keys) \in keys
<1> DEFINE zeros == {k[2][2] : k \in keys}
<1>1. IsFiniteSet(zeros)
  <2>1. [k \in keys |-> k[2][2]] \in Surjection(keys, zeros)
    BY DEF Surjection
  <2> QED
    BY <2>1, FS_Surjection
<1>2. \A k \in keys : k[2][2] \in Nat
  OBVIOUS
<1>3. zeros \subseteq Nat /\ zeros # {}
  BY <1>2
<1>4. \E k \in keys : \A other \in keys : other[2][2] <= k[2][2]
  <2>1. PICK x \in zeros : \A y \in zeros : y <= x
    BY <1>1, <1>3, Largest
  <2> QED
    BY <2>1
<1>5. \E k \in keys : \A other \in keys : other[2][2] >= k[2][2]
  <2>1. PICK x \in zeros : \A y \in zeros : ~ (y < x)
    BY <1>3, LeastNatural
  <2>2. PICK k \in keys : x = k[2][2]
    OBVIOUS
  <2>3. \A other \in keys : ~ (other[2][2] < k[2][2])
    BY <2>1, <2>2
  <2> QED
    BY <1>2, <2>3
<1>6. \E k \in keys : \A other \in keys :
        IF i = 0 THEN other[2][2] <= k[2][2] ELSE other[2][2] >= k[2][2]
  BY <1>4, <1>5
<1> QED
  BY <1>6 DEF LastSpelling

LEMMA SeedsParse ==
  ASSUME NEW e, \A k \in DOMAIN e : e[k] # Malformed, NEW i, NEW f \in DOMAIN BaseSeed,
         IsFiniteSet(DOMAIN e), \A k \in DOMAIN e : k[2] = Absent \/ k[2] \in Nat \X Nat
  PROVE  SeedField(e, i, f) # Malformed
<1>1. CASE Spelled(e, i, f) # {}
  <2>1. LastSpelling(i, Spelled(e, i, f)) \in Spelled(e, i, f)
    <3>1. IsFiniteSet(Spelled(e, i, f))
      BY FS_Subset DEF Spelled
    <3>2. \A k \in Spelled(e, i, f) : k[2] \in Nat \X Nat
      BY DEF Spelled
    <3> QED
      BY <1>1, <3>1, <3>2, SpellingThere
  <2> QED
    BY <1>1, <2>1 DEF SeedField, Spelled
<1>2. CASE Spelled(e, i, f) = {} /\ Given(e, SeedKey[f])
  BY <1>2 DEF SeedField, Given
<1>3. CASE Spelled(e, i, f) = {} /\ ~ Given(e, SeedKey[f])
  BY <1>3, ValuesAssumption DEF SeedField
<1> QED
  BY <1>1, <1>2, <1>3

LEMMA AcceptedReadable ==
  ASSUME NEW f, NEW o, Indexed(f), Indexed(o), Parsed(f, o) # Refused
  PROVE  Readable(Parsed(f, o)) /\ Valid(Parsed(f, o))
<1> DEFINE e == Merged(f, o)
           p == [values |-> Values(e), seeds |-> Seeds(e)]
           S == SeedIndices(e)
<1>1. /\ Parsed(f, o) = p /\ Valid(p)
      /\ \A k \in DOMAIN e : e[k] # Malformed
  BY ParsedIs
<1>2. IsFiniteSet(DOMAIN e) /\ \A k \in DOMAIN e : k[2] = Absent \/ k[2] \in Nat \X Nat
  BY IndexedMerged
<1>3. /\ Cardinality(S) \in Nat /\ Cardinality(S) >= 1
      /\ Len(Ascending(S)) = Cardinality(S)
  BY <1>2, SeedIndicesFinite, ZeroFirst
<1>4. Seeds(e) = [i \in 1 .. Cardinality(S) |->
                    [g \in DOMAIN BaseSeed |-> SeedField(e, Ascending(S)[i], g)]]
  BY <1>3 DEF Seeds
<1>5. /\ Len(Seeds(e)) = Cardinality(S)
      /\ \A i \in 1 .. Cardinality(S) :
           Seeds(e)[i] = [g \in DOMAIN BaseSeed |-> SeedField(e, Ascending(S)[i], g)]
  BY <1>3, <1>4
<1>6. \A k \in DOMAIN Defaults : Values(e)[k] # Malformed
  BY <1>1, ValuesParse
<1>7. \A i \in 1 .. Cardinality(S), g \in DOMAIN BaseSeed : Seeds(e)[i][g] # Malformed
  <2> TAKE i \in 1 .. Cardinality(S), g \in DOMAIN BaseSeed
  <2>1. SeedField(e, Ascending(S)[i], g) # Malformed
    BY <1>1, <1>2, SeedsParse
  <2> QED
    BY <1>5, <2>1
<1>8. Seeds(e) = [i \in 1 .. Cardinality(S) |-> [g \in DOMAIN BaseSeed |-> Seeds(e)[i][g]]]
  <2>1. \A i \in 1 .. Cardinality(S) :
          [g \in DOMAIN BaseSeed |-> SeedField(e, Ascending(S)[i], g)] =
          [g \in DOMAIN BaseSeed |-> Seeds(e)[i][g]]
    BY <1>5
  <2> QED
    BY <1>4, <2>1
<1>9. Values(e).output_directory # ""
  BY <1>1 DEF Valid
<1> HIDE DEF e, S
<1>10. p.values = Values(e) /\ p.seeds = Seeds(e)
  OBVIOUS
<1> HIDE DEF p
<1>11. Readable(p)
  BY <1>3, <1>5, <1>6, <1>7, <1>8, <1>9, <1>10 DEF Readable
<1> QED
  BY <1>1, <1>11

\* A resolved file is accepted and read back as the run it was written by: nothing is
\* lost by inheritance, new numbers of seeds or empty paths.  Paths with a comment
\* sign in them are the exception.
THEOREM ResolvedReadsBack == ConfigurationSpec => []ReadsBack
<1>1. ConfigurationInv => ReadsBack
  <2> SUFFICES ASSUME ConfigurationInv, Accepted, ~ HasComment(run)
               PROVE  Parsed(ResolvedText(run), {}) = run
    BY DEF ReadsBack
  <2> DEFINE T == ResolvedText(run)
             e == Merged(T, {})
  <2>1. run = Parsed(file, overrides) /\ Parsed(file, overrides) # Refused
    BY DEF ConfigurationInv, Accepted
  <2>2. Readable(run) /\ Valid(run)
    BY <2>1, AcceptedReadable DEF ConfigurationInv
  <2>3. run = [values |-> run.values, seeds |-> run.seeds]
    <3>1. run = [values |-> Values(Merged(file, overrides)),
                 seeds  |-> Seeds(Merged(file, overrides))]
      BY <2>1, ParsedIs
    <3> QED
      BY <3>1
  <2>4. Resolve(e) = run
    BY <2>2, <2>3, ReadsAsPrinted, ResolveBack
  <2>5. ~ Repeated(T)
    BY <2>2, DistinctKeys, LenReadable
  <2>6. ~ Repeated({})
    BY DEF Repeated
  <2>7. ~ (\E s \in T : s[1] \in PathKeys /\ BeforeComment(s[3]) = "")
    BY <2>2, LineKept
  <2>8. run # Refused
    BY DEF Accepted
  <2> HIDE DEF T, e
  <2>9. Parsed(T, {}) = Resolve(e)
    <3>1. Parsed(T, {}) = IF \/ Repeated(T) \/ Repeated({})
                             \/ \E s \in T : s[1] \in PathKeys /\ BeforeComment(s[3]) = ""
                             \/ Resolve(e) = Refused
                          THEN Refused
                          ELSE IF Valid(Resolve(e)) THEN Resolve(e) ELSE Refused
      BY DEF Parsed, e
    <3> QED
      BY <3>1, <2>2, <2>4, <2>5, <2>6, <2>7, <2>8
  <2> QED
    BY <2>4, <2>9 DEF T
<1> QED
  BY <1>1, ConfigurationInvariant, PTL

-----------------------------------------------------------------------------
(* Lists of modes in order *)

Below(m, S) == {k \in S : k < m}

\* What an ordered list holds is the set, each member at a place of its own.
LEMMA AscendingIs ==
  ASSUME NEW S, IsFiniteSet(S), S \subseteq Int
  PROVE  /\ Ascending(S) \in [1 .. Cardinality(S) -> S]
         /\ \A m \in S : \E i \in 1 .. Cardinality(S) : Ascending(S)[i] = m
<1> DEFINE n == Cardinality(S)
           rank == [m \in S |-> Cardinality(Below(m, S)) + 1]
<1>1. n \in Nat
  BY FS_CardinalityType
<1>2. ASSUME NEW m \in S
      PROVE  /\ IsFiniteSet(Below(m, S)) /\ Cardinality(Below(m, S)) \in Nat
             /\ Cardinality(Below(m, S)) + 1 \in 1 .. n
  <2>1. Below(m, S) \in SUBSET S /\ m \notin Below(m, S)
    BY DEF Below
  <2>2. /\ IsFiniteSet(Below(m, S)) /\ Cardinality(Below(m, S)) <= n
        /\ Cardinality(Below(m, S)) # n
    BY <2>1, FS_Subset
  <2>3. Cardinality(Below(m, S)) \in Nat
    BY <2>2, FS_CardinalityType
  <2> QED
    BY <1>1, <2>2, <2>3
<1>3. ASSUME NEW m \in S, NEW l \in S, m < l
      PROVE  Cardinality(Below(m, S)) # Cardinality(Below(l, S))
  <2>1. /\ Below(m, S) \in SUBSET Below(l, S)
        /\ m \in Below(l, S) /\ m \notin Below(m, S)
    <3>1. m \in Int /\ l \in Int /\ \A k \in S : k \in Int
      OBVIOUS
    <3>2. \A k \in S : k < m => k < l
      BY <1>3, <3>1
    <3> QED
      <4>1. Below(m, S) \subseteq Below(l, S)
        BY <3>2, Zenon DEF Below
      <4>2. m \in Below(l, S)
        BY <1>3, Zenon DEF Below
      <4>3. m \notin Below(m, S)
        BY <3>1 DEF Below
      <4> QED
        BY <4>1, <4>2, <4>3
  <2> QED
    BY <1>2, <2>1, FS_Subset
<1>4. ASSUME NEW m \in S, NEW l \in S, Cardinality(Below(m, S)) = Cardinality(Below(l, S))
      PROVE  m = l
  <2>1. m \in Int /\ l \in Int
    OBVIOUS
  <2>2. m < l \/ l < m \/ m = l
    BY <2>1
  <2> QED
    BY <1>3, <1>4, <2>2
<1>5. rank \in Injection(S, 1 .. n)
  <2>1. rank \in [S -> 1 .. n]
    BY <1>2
  <2>2. \A m, l \in S : rank[m] = rank[l] => m = l
    <3> TAKE m, l \in S
    <3>1. rank[m] = rank[l] => Cardinality(Below(m, S)) = Cardinality(Below(l, S))
      BY <1>2
    <3> QED
      BY <1>4, <3>1
  <2> HIDE DEF rank
  <2> QED
    BY <2>1, <2>2 DEF Injection, IsInjective
<1>6. rank \in Surjection(S, 1 .. n)
  <2>1. IsFiniteSet(1 .. n) /\ Cardinality(1 .. n) = n
    BY <1>1, FS_Interval
  <2> HIDE DEF rank
  <2> QED
    BY <1>5, <2>1, FS_Injection
<1>7. \A i \in 1 .. n : \E m \in S : Cardinality(Below(m, S)) = i - 1
  <2> TAKE i \in 1 .. n
  <2>1. PICK m \in S : rank[m] = i
    BY <1>6 DEF Surjection
  <2>2. Cardinality(Below(m, S)) + 1 = i
    BY <2>1
  <2> QED
    BY <1>2, <2>2
<1>8. Ascending(S) = [i \in 1 .. n |-> CHOOSE m \in S : Cardinality(Below(m, S)) = i - 1]
  BY DEF Ascending, Below
<1>9. \A i \in 1 .. n : Ascending(S)[i] \in S
  BY <1>7, <1>8
<1>10. ASSUME NEW m \in S PROVE \E i \in 1 .. n : Ascending(S)[i] = m
  <2> DEFINE i == Cardinality(Below(m, S)) + 1
  <2>1. i \in 1 .. n /\ Cardinality(Below(m, S)) = i - 1
    BY <1>2
  <2> HIDE DEF i
  <2>2. (CHOOSE l \in S : Cardinality(Below(l, S)) = i - 1) = m
    BY <1>4, <2>1
  <2> QED
    BY <1>8, <2>1, <2>2
<1> HIDE DEF n
<1>11. Ascending(S) \in [1 .. n -> S]
  BY <1>8, <1>9
<1> QED
  BY <1>10, <1>11 DEF n

LEMMA AscendingList ==
  ASSUME NEW S, IsFiniteSet(S), S \subseteq Int
  PROVE  /\ Ascending(S) \in Seq(S)
         /\ Len(Ascending(S)) = Cardinality(S)
         /\ DOMAIN Ascending(S) = 1 .. Cardinality(S)
         /\ ToSet(Ascending(S)) = S
         /\ ~ Repeats(Ascending(S))
<1>1. Cardinality(S) \in Nat
  BY FS_CardinalityType
<1>2. /\ Ascending(S) \in [1 .. Cardinality(S) -> S]
      /\ \A m \in S : \E i \in 1 .. Cardinality(S) : Ascending(S)[i] = m
  BY AscendingIs
<1>3. Ascending(S) \in Seq(S) /\ Len(Ascending(S)) = Cardinality(S)
  BY <1>1, <1>2
<1>4. DOMAIN Ascending(S) = 1 .. Cardinality(S)
  BY <1>2
<1>5. ToSet(Ascending(S)) = S
  BY <1>2, <1>4 DEF ToSet
<1> QED
  BY <1>3, <1>4, <1>5 DEF Repeats

LEMMA ListFinite ==
  ASSUME NEW T, NEW list \in Seq(T)
  PROVE  IsFiniteSet(ToSet(list)) /\ ToSet(list) \subseteq T
<1>1. DOMAIN list = 1 .. Len(list) /\ Len(list) \in Nat
  OBVIOUS
<1>2. IsFiniteSet(1 .. Len(list))
  BY <1>1, FS_Interval
<1>3. list \in Surjection(1 .. Len(list), ToSet(list))
  BY <1>1 DEF Surjection, ToSet
<1>4. IsFiniteSet(ToSet(list))
  BY <1>2, <1>3, FS_Surjection
<1>5. \A i \in 1 .. Len(list) : list[i] \in T
  OBVIOUS
<1> QED
  BY <1>1, <1>4, <1>5 DEF ToSet

-----------------------------------------------------------------------------
(* Overrides *)

LEMMA KeyParts ==
  ASSUME NEW s, NEW a, NEW b
  PROVE  KeyOf(s) = <<a, b>> <=> s[1] = a /\ s[2] = b
  BY DEF KeyOf

LEMMA OverrideKey ==
  ASSUME NEW f, NEW o, NEW s \in o
  PROVE  KeyOf(s) \in DOMAIN Merged(f, o)
<1>1. KeyOf(s) \in {KeyOf(t) : t \in f \cup o}
  OBVIOUS
<1> QED
  BY <1>1, MergedKeys

LEMMA PlainOverride ==
  ASSUME NEW f, NEW o, ~ Repeated(o), NEW s \in o, s[2] = Absent, s[1] \in DOMAIN Defaults
  PROVE  Values(Merged(f, o))[s[1]] \in
           {s[3], IF s[1] \in PathKeys THEN NoneIsEmpty(s[3]) ELSE s[3]}
<1> DEFINE e == Merged(f, o)
<1>1. KeyOf(s) = <<s[1], Absent>>
  BY KeyParts
<1>2. Given(e, s[1]) /\ Plain(e, s[1]) = s[3]
  BY <1>1, OverrideKey, OverrideMerged DEF Given, Plain
<1> HIDE DEF e
<1>3. CASE s[1] \in {"checkpoint_directory", "second_checkpoint"}
  <2>1. Values(e)[s[1]] = NoneIsEmpty(s[3])
    BY <1>2, <1>3 DEF Values
  <2>2. s[1] \in PathKeys
    BY <1>3 DEF PathKeys
  <2> QED
    BY <2>1, <2>2 DEF e
<1>4. CASE s[1] \notin {"checkpoint_directory", "second_checkpoint"}
  <2>1. Values(e)[s[1]] = s[3]
    BY <1>2, <1>4 DEF Values
  <2> QED
    BY <2>1 DEF e
<1> QED
  BY <1>3, <1>4

\* What is known of a setting that names a field.
LEMMA NamedBy ==
  ASSUME NEW settings, Indexed(settings), NEW t \in settings, NEW index, NEW field
  PROVE  <<index, field>> \in NamedFields(t) <=>
           /\ field \in DOMAIN BaseSeed
           /\ \/ t[2] = Absent /\ index = 0 /\ t[1] = SeedKey[field]
              \/ /\ t[2] \in Nat \X Nat /\ t[2] # Absent
                 /\ index = t[2][1] /\ t[1] = field
<1>1. CASE t[2] = Absent
  <2>1. t[2] \notin Nat \X Nat
    BY <1>1, SettingsAssumption
  <2> QED
    BY <1>1, <2>1 DEF NamedFields
<1>2. CASE t[2] # Absent
  <2>1. t[2] \in Nat \X Nat
    BY <1>2 DEF Indexed
  <2> QED
    BY <1>2, <2>1 DEF NamedFields
<1> QED
  BY <1>1, <1>2

\* The entries that spell a field come from settings that name it.
LEMMA SpelledAre ==
  ASSUME NEW f, NEW o, Indexed(f), Indexed(o), NEW index, NEW field \in DOMAIN BaseSeed,
         NEW k \in Spelled(Merged(f, o), index, field)
  PROVE  \E t \in f \cup o :
           /\ KeyOf(t) = k /\ k = <<t[1], t[2]>> /\ t[2] \in Nat \X Nat /\ t[2] # Absent
           /\ t[2][1] = index /\ t[1] = field
           /\ <<index, field>> \in NamedFields(t)
<1>1. k \in DOMAIN Merged(f, o) /\ k[2] # Absent /\ k[1] = field /\ k[2][1] = index
  BY DEF Spelled
<1>2. PICK t \in f \cup o : KeyOf(t) = k
  <2>1. k \in {KeyOf(t) : t \in f \cup o}
    BY <1>1, MergedKeys
  <2> QED
    BY <2>1
<1>3. t[1] = field /\ t[2] # Absent /\ t[2][1] = index
  BY <1>1, <1>2, KeyIs
<1>4. t[2] \in Nat \X Nat
  BY <1>3 DEF Indexed
<1>5. <<index, field>> \in NamedFields(t)
  BY <1>3, <1>4, NamedBy
<1> QED
  BY <1>2, <1>3, <1>4, <1>5 DEF KeyOf

\* Nothing that names what s names is read after it.
ReadLast(s, settings) == \A t \in settings : ~ ReadLater(t, s)

LEMMA OverrideOfField ==
  ASSUME NEW f, NEW o, Indexed(f), Indexed(o), ~ Repeated(o), NEW s \in o,
         ReadLast(s, f \cup o), NEW index, NEW field, <<index, field>> \in NamedFields(s)
  PROVE  SeedField(Merged(f, o), index, field) = s[3]
<1> DEFINE e == Merged(f, o)
           keys == Spelled(e, index, field)
<1>1. /\ field \in DOMAIN BaseSeed
      /\ \/ s[2] = Absent /\ index = 0 /\ s[1] = SeedKey[field]
         \/ s[2] \in Nat \X Nat /\ s[2] # Absent /\ index = s[2][1] /\ s[1] = field
  BY NamedBy
<1>2. KeyOf(s) \in DOMAIN e /\ e[KeyOf(s)] = s[3] /\ KeyOf(s) = <<s[1], s[2]>>
  BY OverrideKey, OverrideMerged DEF KeyOf
<1>3. ASSUME NEW k \in keys
      PROVE  /\ s[2] # Absent
             /\ k[2] \in Nat \X Nat /\ k = <<field, <<index, k[2][2]>>>>
             /\ IF index = 0 THEN k[2][2] <= s[2][2] ELSE k[2][2] >= s[2][2]
  <2>1. PICK t \in f \cup o :
           /\ KeyOf(t) = k /\ k = <<t[1], t[2]>> /\ t[2] \in Nat \X Nat /\ t[2] # Absent
           /\ t[2][1] = index /\ t[1] = field
           /\ <<index, field>> \in NamedFields(t)
    BY <1>1, SpelledAre
  <2>2. ~ (s[2] = Absent \/ IF t[2][1] = 0 THEN t[2][2] > s[2][2] ELSE t[2][2] < s[2][2])
    BY <2>1 DEF ReadLast, ReadLater
  <2>3. s[2] # Absent /\ s[2] \in Nat \X Nat
    BY <1>1, <2>2
  <2>4. k[2] = t[2] /\ k[2][2] \in Nat /\ s[2][2] \in Nat
    BY <2>1, <2>3
  <2>5. IF index = 0 THEN k[2][2] <= s[2][2] ELSE k[2][2] >= s[2][2]
    BY <2>1, <2>2, <2>4
  <2>6. k = <<field, <<index, k[2][2]>>>>
    BY <2>1
  <2> QED
    BY <2>1, <2>3, <2>4, <2>5, <2>6
<1>4. CASE s[2] = Absent
  <2>1. keys = {}
    BY <1>3, <1>4
  <2>2. Given(e, SeedKey[field]) /\ e[<<SeedKey[field], Absent>>] = s[3]
    BY <1>1, <1>2, <1>4, SettingsAssumption DEF Given
  <2> HIDE DEF e
  <2> QED
    BY <2>1, <2>2 DEF SeedField, e
<1>5. CASE s[2] # Absent
  <2>1. s[2] \in Nat \X Nat /\ s[2][1] = index /\ s[1] = field
    BY <1>1, <1>5
  <2>2. KeyOf(s)[2] = s[2] /\ KeyOf(s)[1] = field /\ KeyOf(s) = <<field, <<index, s[2][2]>>>>
    BY <1>2, <2>1
  <2>3. KeyOf(s) \in keys
    BY <1>2, <1>5, <2>1, <2>2 DEF Spelled
  <2> HIDE DEF keys
  <2> DEFINE last(k) == \A other \in keys :
               IF index = 0 THEN other[2][2] <= k[2][2] ELSE other[2][2] >= k[2][2]
  <2>4. last(KeyOf(s))
    BY <1>3, <2>2
  <2>5. ASSUME NEW k \in keys, last(k) PROVE k = KeyOf(s)
    <3>1. IF index = 0 THEN s[2][2] <= k[2][2] ELSE s[2][2] >= k[2][2]
      BY <2>2, <2>3, <2>5
    <3>2. k[2] \in Nat \X Nat /\ k = <<field, <<index, k[2][2]>>>>
      BY <1>3
    <3>3. k[2][2] = s[2][2]
      BY <1>3, <2>1, <3>1, <3>2
    <3> QED
      BY <2>2, <3>2, <3>3
  <2>6. LastSpelling(index, keys) = CHOOSE k \in keys : last(k)
    BY DEF LastSpelling
  <2> HIDE DEF last
  <2>7. LastSpelling(index, keys) = KeyOf(s)
    BY <2>3, <2>4, <2>5, <2>6
  <2> QED
    BY <1>2, <2>3, <2>7 DEF SeedField, keys
<1> QED
  BY <1>4, <1>5

\* The index of an entry has its place among the seeds, where its fields are.
LEMMA SeedInPlace ==
  ASSUME NEW e, IsFiniteSet(DOMAIN e),
         \A k \in DOMAIN e : k[2] = Absent \/ k[2] \in Nat \X Nat,
         NEW index \in SeedIndices(e)
  PROVE  LET order == Ascending(SeedIndices(e))
         IN  Seeds(e)[CHOOSE i \in 1 .. Len(order) : order[i] = index] =
               [f \in DOMAIN BaseSeed |-> SeedField(e, index, f)]
<1> DEFINE S == SeedIndices(e)
           order == Ascending(S)
           place == CHOOSE i \in 1 .. Len(order) : order[i] = index
<1>1. IsFiniteSet(S) /\ S \subseteq Int
  BY SeedIndicesFinite
<1>2. DOMAIN order = 1 .. Len(order) /\ ToSet(order) = S
  BY <1>1, AscendingList
<1>3. \E i \in 1 .. Len(order) : order[i] = index
  BY <1>2 DEF ToSet
<1>4. place \in 1 .. Len(order) /\ order[place] = index
  BY <1>3
<1>5. Seeds(e) = [i \in 1 .. Len(order) |->
                    [f \in DOMAIN BaseSeed |-> SeedField(e, order[i], f)]]
  BY DEF Seeds
<1> HIDE DEF order, place
<1>6. Seeds(e)[place] = [f \in DOMAIN BaseSeed |-> SeedField(e, index, f)]
  BY <1>4, <1>5
<1> QED
  BY <1>6 DEF order, place

\* The index of a setting is among those of the run.
LEMMA NamedIndex ==
  ASSUME NEW f, NEW o, Indexed(o), NEW s \in o, NEW index, NEW field,
         <<index, field>> \in NamedFields(s)
  PROVE  index \in SeedIndices(Merged(f, o)) /\ field \in DOMAIN BaseSeed
<1>1. /\ field \in DOMAIN BaseSeed
      /\ \/ s[2] = Absent /\ index = 0 /\ s[1] = SeedKey[field]
         \/ s[2] \in Nat \X Nat /\ s[2] # Absent /\ index = s[2][1] /\ s[1] = field
  BY NamedBy
<1>2. KeyOf(s) \in DOMAIN Merged(f, o) /\ KeyOf(s)[2] = s[2]
  BY OverrideKey, KeyIs
<1> QED
  BY <1>1, <1>2 DEF SeedIndices

\* What the command line says is what the run has: an entry of the same key gives way
\* wherever it comes from, neither defaults nor inheritance overrule a key that is
\* given, and a field of any mode, whatever its index, is what the key that is read
\* last says.  An override that is not heeded was named over by such a key.
THEOREM CommandLineCounts == ConfigurationSpec => []OverridesCount
<1>1. ConfigurationInv => OverridesCount
  <2> SUFFICES ASSUME ConfigurationInv, Accepted, NEW s \in overrides,
                      ~ (\E t \in file \cup overrides : ReadLater(t, s))
               PROVE  Honoured(s)
    BY DEF OverridesCount
  <2> DEFINE e == Merged(file, overrides)
  <2>1. ReadLast(s, file \cup overrides)
    BY DEF ReadLast
  <2>2. run = Parsed(file, overrides) /\ Parsed(file, overrides) # Refused
    BY DEF ConfigurationInv, Accepted
  <2>3. Parsed(file, overrides) = [values |-> Values(e), seeds |-> Seeds(e)]
        /\ ~ Repeated(overrides)
    BY <2>2, ParsedIs
  <2>4. run.values = Values(e) /\ run.seeds = Seeds(e)
    BY <2>2, <2>3
  <2>5. s[2] = Absent /\ s[1] \in DOMAIN Defaults =>
          run.values[s[1]] \in {s[3], IF s[1] \in PathKeys THEN NoneIsEmpty(s[3]) ELSE s[3]}
    BY <2>3, <2>4, PlainOverride
  <2>6. ASSUME NEW q \in NamedFields(s) PROVE SeedOf(q[1])[q[2]] = s[3]
    <3>1. PICK index, field : q = <<index, field>>
      BY DEF NamedFields
    <3>2. <<index, field>> \in NamedFields(s)
      BY <3>1
    <3>3. index \in SeedIndices(e) /\ field \in DOMAIN BaseSeed
      BY <3>2, NamedIndex DEF ConfigurationInv
    <3>4. SeedField(e, index, field) = s[3]
      BY <2>1, <2>3, <3>2, OverrideOfField DEF ConfigurationInv
    <3>5. /\ IsFiniteSet(DOMAIN e)
          /\ \A k \in DOMAIN e : k[2] = Absent \/ k[2] \in Nat \X Nat
      BY IndexedMerged DEF ConfigurationInv
    <3> HIDE DEF e
    <3>6. SeedOf(index) = [f \in DOMAIN BaseSeed |-> SeedField(e, index, f)]
      <4>1. LET order == Ascending(SeedIndices(e))
            IN  Seeds(e)[CHOOSE i \in 1 .. Len(order) : order[i] = index] =
                  [f \in DOMAIN BaseSeed |-> SeedField(e, index, f)]
        BY <3>3, <3>5, SeedInPlace
      <4> QED
        BY <2>4, <4>1 DEF SeedOf, e
    <3> QED
      BY <3>1, <3>3, <3>4, <3>6
  <2> QED
    BY <2>5, <2>6 DEF Honoured
<1> QED
  BY <1>1, ConfigurationInvariant, PTL

-----------------------------------------------------------------------------
(* The pairs of all targets, one after the other *)

\* g holds the concatenations of the first lists of P.
Chain(P, n, g) ==
  g = [i \in 1 .. n |-> IF i = 1 THEN P[i] ELSE g[i - 1] \o P[i]]

LEMMA ChainAt ==
  ASSUME NEW P, NEW n \in Nat, NEW g, Chain(P, n, g), NEW i \in 1 .. n
  PROVE  g[i] = IF i = 1 THEN P[i] ELSE g[i - 1] \o P[i]
  BY DEF Chain

LEMMA ChainExists ==
  ASSUME NEW P, NEW n \in Nat
  PROVE  \E g : Chain(P, n, g)
<1> DEFINE A == {m \in Nat : \E g : Chain(P, m, g)}
<1>1. 0 \in A
  <2>1. Chain(P, 0, [i \in 1 .. 0 |-> 0])
    BY DEF Chain
  <2> QED
    BY <2>1
<1>2. ASSUME NEW m \in Nat, m \in A PROVE m + 1 \in A
  <2>1. PICK g : Chain(P, m, g)
    BY <1>2
  <2> DEFINE h == [i \in 1 .. m + 1 |-> IF i = 1 THEN P[i] ELSE g[i - 1] \o P[i]]
  <2>2. ASSUME NEW i \in 1 .. m + 1, i # 1 PROVE h[i - 1] = g[i - 1]
    <3>1. i - 1 \in 1 .. m /\ i - 1 \in 1 .. m + 1
      BY <2>2
    <3> DEFINE j == i - 1
    <3> HIDE DEF h, A
    <3>3. j \in 1 .. m
      BY <3>1
    <3> HIDE DEF j
    <3>4. g[j] = IF j = 1 THEN P[j] ELSE g[j - 1] \o P[j]
      BY <2>1, <3>3, ChainAt
    <3>2. g[i - 1] = IF i - 1 = 1 THEN P[i - 1] ELSE g[(i - 1) - 1] \o P[i - 1]
      BY <3>4 DEF j
    <3> USE DEF h
    <3> QED
      BY <3>1, <3>2
  <2>3. h = [i \in 1 .. m + 1 |-> IF i = 1 THEN P[i] ELSE h[i - 1] \o P[i]]
    BY <2>2
  <2>4. Chain(P, m + 1, h)
    BY <2>3 DEF Chain
  <2> QED
    BY <2>4
<1> HIDE DEF A
<1>3. Nat \subseteq A
  BY <1>1, <1>2, StepsInduction
<1> QED
  BY <1>3 DEF A

LEMMA ChainsAgree ==
  ASSUME NEW P, NEW Q, NEW n \in Nat, NEW m \in Nat, n <= m, NEW g, NEW h,
         Chain(P, n, g), Chain(Q, m, h), \A i \in 1 .. n : P[i] = Q[i]
  PROVE  \A i \in 1 .. n : g[i] = h[i]
<1> DEFINE A == {k \in Nat : k \in 1 .. n => g[k] = h[k]}
<1>1. 0 \in A
  OBVIOUS
<1>2. ASSUME NEW k \in Nat, k \in A PROVE k + 1 \in A
  <2> SUFFICES ASSUME k + 1 \in 1 .. n PROVE g[k + 1] = h[k + 1]
    OBVIOUS
  <2>1. k + 1 \in 1 .. m
    OBVIOUS
  <2>2. g[k + 1] = IF k + 1 = 1 THEN P[k + 1] ELSE g[(k + 1) - 1] \o P[k + 1]
    BY ChainAt
  <2>3. h[k + 1] = IF k + 1 = 1 THEN Q[k + 1] ELSE h[(k + 1) - 1] \o Q[k + 1]
    BY <2>1, ChainAt
  <2>4. (k + 1) - 1 = k /\ P[k + 1] = Q[k + 1] /\ (k + 1 # 1 => k \in 1 .. n)
    OBVIOUS
  <2>5. k + 1 # 1 => g[k] = h[k]
    BY <1>2, <2>4
  <2> QED
    BY <2>2, <2>3, <2>4, <2>5
<1> HIDE DEF A
<1>3. Nat \subseteq A
  BY <1>1, <1>2, StepsInduction
<1> QED
  BY <1>3 DEF A

LEMMA FlattenIs ==
  ASSUME NEW P, NEW n \in Nat, NEW g, Chain(P, n, g), NEW k \in 1 .. n,
         NEW Q, Len(Q) = k, \A i \in 1 .. k : Q[i] = P[i]
  PROVE  FlattenSeq(Q) = g[k]
<1> DEFINE chosen == CHOOSE c : Chain(Q, k, c)
<1>1. FlattenSeq(Q) = (CHOOSE c : c = [i \in 1 .. Len(Q) |-> IF i = 1 THEN Q[i] ELSE c[i - 1] \o Q[i]])[Len(Q)]
  <2>1. Len(Q) # 0
    OBVIOUS
  <2> QED
    BY <2>1, Zenon DEF FlattenSeq
<1>2. FlattenSeq(Q) = chosen[k]
  BY <1>1, Zenon DEF Chain
<1>3. k \in Nat /\ k <= n /\ k \in 1 .. k
  OBVIOUS
<1>4. Chain(Q, k, chosen)
  BY <1>3, ChainExists
<1> HIDE DEF chosen
<1>5. \A i \in 1 .. k : chosen[i] = g[i]
  BY <1>3, <1>4, ChainsAgree
<1> QED
  BY <1>2, <1>3, <1>5

\* What has been concatenated stays where it is.
Begins(s, t) ==
  /\ Len(s) <= Len(t)
  /\ \A p \in 1 .. Len(s) : t[p] = s[p]

LEMMA ChainLists ==
  ASSUME NEW T, NEW n \in Nat, NEW P, \A i \in 1 .. n : P[i] \in Seq(T),
         NEW g, Chain(P, n, g)
  PROVE  \A i \in 1 .. n : g[i] \in Seq(T)
<1> DEFINE A == {k \in Nat : k \in 1 .. n => g[k] \in Seq(T)}
<1>1. 0 \in A
  OBVIOUS
<1>2. ASSUME NEW k \in Nat, k \in A PROVE k + 1 \in A
  <2> SUFFICES ASSUME k + 1 \in 1 .. n PROVE g[k + 1] \in Seq(T)
    OBVIOUS
  <2>1. g[k + 1] = IF k + 1 = 1 THEN P[k + 1] ELSE g[(k + 1) - 1] \o P[k + 1]
    BY ChainAt
  <2>2. P[k + 1] \in Seq(T) /\ (k + 1) - 1 = k /\ (k + 1 # 1 => k \in 1 .. n)
    OBVIOUS
  <2>3. k + 1 # 1 => g[k] \in Seq(T)
    BY <1>2, <2>2
  <2> QED
    BY <2>1, <2>2, <2>3
<1> HIDE DEF A
<1>3. Nat \subseteq A
  BY <1>1, <1>2, StepsInduction
<1> QED
  BY <1>3 DEF A

LEMMA ChainGrows ==
  ASSUME NEW T, NEW n \in Nat, NEW P, \A i \in 1 .. n : P[i] \in Seq(T),
         NEW g, Chain(P, n, g)
  PROVE  \A k \in 1 .. n : \A i \in 1 .. k : Begins(g[i], g[k])
<1> DEFINE A == {k \in Nat : k \in 1 .. n => \A i \in 1 .. k : Begins(g[i], g[k])}
<1>0. \A i \in 1 .. n : g[i] \in Seq(T)
  BY ChainLists
<1>1. 0 \in A
  OBVIOUS
<1>2. ASSUME NEW k \in Nat, k \in A PROVE k + 1 \in A
  <2> SUFFICES ASSUME k + 1 \in 1 .. n
               PROVE  \A i \in 1 .. k + 1 : Begins(g[i], g[k + 1])
    OBVIOUS
  <2>1. g[k + 1] = IF k + 1 = 1 THEN P[k + 1] ELSE g[(k + 1) - 1] \o P[k + 1]
    BY ChainAt
  <2>2. ASSUME NEW s \in Seq(T) PROVE Begins(s, s)
    BY DEF Begins
  <2>3. CASE k = 0
    <3>1. g[k + 1] \in Seq(T)
      BY <1>0
    <3>2. \A i \in 1 .. k + 1 : i = k + 1
      BY <2>3
    <3> QED
      BY <2>2, <3>1, <3>2
  <2>4. CASE k # 0
    <3>1. /\ k \in 1 .. n /\ (k + 1) - 1 = k /\ k + 1 # 1
      BY <2>4
    <3>2. /\ g[k] \in Seq(T) /\ P[k + 1] \in Seq(T)
          /\ \A i \in 1 .. k : Begins(g[i], g[k])
      BY <1>0, <1>2, <3>1
    <3>3. g[k + 1] = g[k] \o P[k + 1]
      BY <2>1, <3>1
    <3>4. g[k + 1] \in Seq(T)
      BY <3>2, <3>3
    <3>5. Begins(g[k], g[k + 1])
      <4> DEFINE a == g[k]
                 b == P[k + 1]
      <4>1. a \in Seq(T) /\ b \in Seq(T)
        BY <3>2
      <4> HIDE DEF a, b
      <4>2. Begins(a, a \o b)
        BY <4>1 DEF Begins
      <4> QED
        BY <3>3, <4>2 DEF a, b
    <3>6. ASSUME NEW i \in 1 .. k PROVE Begins(g[i], g[k + 1]) 
      <4>1. Begins(g[i], g[k])
        BY <3>2
      <4>2. i \in 1 .. n /\ Len(g[k]) \in Nat /\ Len(g[k + 1]) \in Nat
        BY <3>1, <3>2, <3>4
      <4>3. Len(g[i]) \in Nat
        BY <1>0, <4>2
      <4> QED
        BY <4>1, <4>2, <4>3, <3>5 DEF Begins
    <3>7. \A i \in 1 .. k + 1 : i \in 1 .. k \/ i = k + 1
      OBVIOUS
    <3> QED
      BY <2>2, <3>4, <3>6, <3>7
  <2> QED
    BY <2>3, <2>4
<1> HIDE DEF A
<1>3. Nat \subseteq A
  BY <1>1, <1>2, StepsInduction
<1> QED
  BY <1>3 DEF A

\* The first k lists of P.
FirstOf(q, P, k) == Len(q) = k /\ \A i \in 1 .. k : q[i] = P[i]

\* Where the elements of the i-th list are once all are concatenated.
Placed(P, i, before, upto) ==
  /\ Len(FlattenSeq(before)) \in Nat
  /\ Len(FlattenSeq(upto)) = Len(FlattenSeq(before)) + Len(P[i])
  /\ \A j \in 1 .. Len(P[i]) :
       FlattenSeq(P)[Len(FlattenSeq(before)) + j] = P[i][j]

LEMMA FlattenPlaces ==
  ASSUME NEW T, NEW n \in Nat, NEW P, Len(P) = n, \A i \in 1 .. n : P[i] \in Seq(T),
         NEW i \in 1 .. n, NEW before, NEW upto,
         FirstOf(before, P, i - 1), FirstOf(upto, P, i)
  PROVE  Placed(P, i, before, upto)
<1>1. PICK g : Chain(P, n, g)
  BY ChainExists
<1>2. \A k \in 1 .. n : g[k] \in Seq(T)
  BY <1>1, ChainLists
<1>3. n \in 1 .. n /\ i \in 1 .. n /\ i \in Nat
  OBVIOUS
<1>4. FlattenSeq(P) = g[n] /\ FlattenSeq(upto) = g[i]
  BY <1>1, <1>3, FlattenIs DEF FirstOf
<1>5. Begins(g[i], g[n])
  BY <1>1, <1>3, ChainGrows
<1>6. g[i] = IF i = 1 THEN P[i] ELSE g[i - 1] \o P[i]
  BY <1>1 DEF Chain
<1> USE DEF FirstOf, Placed
<1>7. CASE i = 1
  <2>1. Len(before) = 0
    BY <1>7
  <2>2. FlattenSeq(before) = before
    BY <2>1 DEF FlattenSeq
  <2>3. g[i] = P[i] /\ P[i] \in Seq(T) /\ Len(P[i]) \in Nat
    BY <1>3, <1>6, <1>7
  <2>4. \A j \in 1 .. Len(P[i]) : 0 + j = j
    OBVIOUS
  <2> QED
    BY <1>4, <1>5, <2>1, <2>2, <2>3, <2>4 DEF Begins
<1>8. CASE i # 1
  <2>1. i - 1 \in 1 .. n
    BY <1>8
  <2>2. FlattenSeq(before) = g[i - 1]
    <3>1. Len(before) = i - 1 /\ \A k \in 1 .. i - 1 : before[k] = P[k]
      OBVIOUS
    <3> HIDE DEF Chain
    <3> QED
      BY <1>1, <2>1, <3>1, FlattenIs
  <2> DEFINE a == g[i - 1]
             b == P[i]
  <2>3. a \in Seq(T) /\ b \in Seq(T)
    BY <1>2, <2>1
  <2>4. g[i] = a \o b
    BY <1>6, <1>8
  <2> HIDE DEF a, b
  <2>5. /\ Len(a) \in Nat /\ Len(b) \in Nat /\ Len(a \o b) = Len(a) + Len(b)
        /\ \A j \in 1 .. Len(b) : /\ (a \o b)[Len(a) + j] = b[j]
                                  /\ Len(a) + j \in 1 .. Len(a) + Len(b)
    BY <2>3
  <2>6. \A j \in 1 .. Len(b) : g[n][Len(a) + j] = b[j]
    BY <1>5, <2>4, <2>5 DEF Begins
  <2> QED
    BY <1>4, <2>2, <2>4, <2>5, <2>6 DEF a, b
<1> QED
  BY <1>7, <1>8

LEMMA SortedList ==
  ASSUME NEW list \in Seq(Ints)
  PROVE  Sorted(list) \in Seq(Ints) /\ ToSet(Sorted(list)) = ToSet(list)
<1>1. IsFiniteSet(ToSet(list)) /\ ToSet(list) \subseteq Ints
  BY ListFinite
<1>2. Ints \subseteq Int
  BY IntAssumption DEF Ints
<1>3. Ascending(ToSet(list)) \in Seq(ToSet(list)) /\ ToSet(Ascending(ToSet(list))) = ToSet(list)
  BY <1>1, <1>2, AscendingList
<1>4. Ascending(ToSet(list)) \in Seq(Ints)
  BY <1>1, <1>3
<1> QED
  BY <1>3, <1>4 DEF Sorted

Pair == [m1 : Ints, m2 : Ints, target : Int]

\* The pairs of one target are lists of pairs, and none of its parents' is missing.
LEMMA PairsOfAll ==
  ASSUME NEW parents \in Seq(Ints), NEW target \in Int
  PROVE  /\ PairsOf(parents, target) \in Seq(Pair)
         /\ \A l, r \in ToSet(parents) : target = l + r =>
              \E j \in 1 .. Len(PairsOf(parents, target)) :
                 PairsOf(parents, target)[j] = [m1 |-> l, m2 |-> r, target |-> target]
<1> DEFINE S == {m \in ToSet(parents) : target - m \in Ints /\ target - m \in ToSet(parents)}
           first == Ascending(S)
           pairs == [i \in 1 .. Len(first) |->
                       [m1 |-> first[i], m2 |-> target - first[i], target |-> target]]
<1>1. PairsOf(parents, target) = pairs
  BY DEF PairsOf
<1>2. IsFiniteSet(ToSet(parents)) /\ ToSet(parents) \subseteq Ints
  BY ListFinite
<1>3. \A m \in Ints : m \in Int
  BY IntAssumption DEF Ints
<1>4. S \in SUBSET ToSet(parents) /\ S \subseteq Int
  BY <1>2, <1>3
<1>5. IsFiniteSet(S)
  BY <1>2, <1>4, FS_Subset
<1>6. /\ \A m \in S : m \in Ints /\ target - m \in Ints
      /\ \A l, r \in ToSet(parents) : target = l + r => l \in S /\ target - l = r
  <2>1. \A m \in S : m \in Ints /\ target - m \in Ints
    BY <1>2
  <2>2. ASSUME NEW l \in ToSet(parents), NEW r \in ToSet(parents), target = l + r
        PROVE  l \in S /\ target - l = r
    <3>1. l \in Ints /\ r \in Ints /\ l \in Int /\ r \in Int
      BY <1>2, <1>3
    <3>2. target - l = r
      BY <2>2, <3>1
    <3> QED
      BY <3>1, <3>2
  <2> QED
    BY <2>1, <2>2
<1> HIDE DEF S
<1>7. first \in Seq(S) /\ ToSet(first) = S /\ DOMAIN first = 1 .. Len(first) /\ Len(first) \in Nat
  BY <1>4, <1>5, AscendingList, FS_CardinalityType
<1> HIDE DEF first
<1>8. \A i \in 1 .. Len(first) : first[i] \in S
  BY <1>7
<1>9. pairs \in Seq(Pair) /\ Len(pairs) = Len(first)
  <2>1. \A i \in 1 .. Len(first) :
          [m1 |-> first[i], m2 |-> target - first[i], target |-> target] \in Pair
    BY <1>6, <1>8 DEF Pair
  <2>2. pairs \in [1 .. Len(first) -> Pair]
    BY <2>1
  <2> HIDE DEF pairs
  <2> QED
    BY <1>7, <2>2
<1>10. ASSUME NEW l \in ToSet(parents), NEW r \in ToSet(parents), target = l + r
       PROVE  \E j \in 1 .. Len(pairs) : pairs[j] = [m1 |-> l, m2 |-> r, target |-> target]
  <2>1. l \in ToSet(first) /\ target - l = r
    BY <1>6, <1>7, <1>10
  <2>2. PICK j \in 1 .. Len(first) : first[j] = l
    BY <1>7, <2>1 DEF ToSet
  <2>3. pairs[j] = [m1 |-> l, m2 |-> r, target |-> target]
    BY <2>1, <2>2
  <2> HIDE DEF pairs
  <2> QED
    BY <1>9, <2>2, <2>3
<1> HIDE DEF pairs
<1> QED
  BY <1>1, <1>9, <1>10

ListKeys == {"first_order_modes", "second_order_modes"}

\* A list of modes that was read at all is one of ints.
Listed(settings) ==
  \A s \in settings : s[1] \in ListKeys => s[3] \in Seq(Ints) \cup {Malformed}

ListsInv == Listed(file) /\ Listed(overrides)

LEMMA EntryListed ==
  ASSUME NEW settings, Listed(settings), NEW k \in DOMAIN Entries(settings), k[1] \in ListKeys
  PROVE  Entries(settings)[k] \in Seq(Ints) \cup {Malformed}
<1>1. PICK s \in settings : KeyOf(s) = k
  <2>1. k \in {KeyOf(s) : s \in settings}
    BY KeysOfSettings
  <2> QED
    BY <2>1
<1> DEFINE t == CHOOSE t \in settings : KeyOf(t) = k
<1>2. t \in settings /\ KeyOf(t) = k
  BY <1>1
<1> HIDE DEF t
<1>3. t[1] = k[1]
  BY <1>2, KeyIs
<1>4. t[3] \in Seq(Ints) \cup {Malformed}
  BY <1>2, <1>3 DEF Listed
<1>5. Entries(settings)[k] = t[3]
  BY DEF Entries, t
<1> QED
  BY <1>4, <1>5

LEMMA MergedListed ==
  ASSUME NEW f, NEW o, Listed(f), Listed(o), NEW k \in DOMAIN Merged(f, o), k[1] \in ListKeys
  PROVE  Merged(f, o)[k] \in Seq(Ints) \cup {Malformed}
<1> DEFINE lines == {ReadLine(s) : s \in f}
<1>1. Listed(lines)
  <2>1. ASSUME NEW s \in f, ReadLine(s)[1] \in ListKeys
        PROVE  ReadLine(s)[3] \in Seq(Ints) \cup {Malformed}
    <3>1. ReadLine(s)[1] = s[1]
      BY DEF ReadLine
    <3>2. s[1] \notin PathKeys
      BY <2>1, <3>1 DEF PathKeys, ListKeys
    <3>3. ReadLine(s) = s
      BY <3>2 DEF ReadLine
    <3> QED
      BY <2>1, <3>3 DEF Listed
  <2> QED
    BY <2>1 DEF Listed
<1> HIDE DEF lines
<1>2. DOMAIN Merged(f, o) = DOMAIN Entries(lines) \cup DOMAIN Entries(o)
  BY DEF Merged, lines
<1>3. Merged(f, o)[k] = IF k \in DOMAIN Entries(o) THEN Entries(o)[k] ELSE Entries(lines)[k]
  BY DEF Merged, lines
<1> QED
  BY <1>1, <1>2, <1>3, EntryListed

LEMMA TwoListed ==
  ASSUME NEW S, NEW a \in S, NEW b \in S
  PROVE  <<a, b>> \in Seq(S)
  OBVIOUS

\* The mode lists of parameters that could be resolved.
LEMMA ListsOfValues ==
  ASSUME NEW f, NEW o, Listed(f), Listed(o),
         \A k \in DOMAIN Merged(f, o) : Merged(f, o)[k] # Malformed,
         NEW key \in ListKeys
  PROVE  Values(Merged(f, o))[key] \in Seq(Ints)
<1> DEFINE e == Merged(f, o)
<1>1. /\ key \in DOMAIN Defaults
      /\ key \notin {"checkpoint_directory", "second_checkpoint"}
      /\ key \notin {"ellmax_second", "plus2_first", "plus2_second"}
      /\ Defaults[key] = <<-2, 2>>
  <2>1. CASE key = "first_order_modes"
    BY <2>1 DEF Defaults
  <2>2. CASE key = "second_order_modes"
    BY <2>2 DEF Defaults
  <2> QED
    BY <2>1, <2>2 DEF ListKeys
<1>2. Values(e)[key] = Plain(e, key)
  BY <1>1 DEF Values
<1>3. <<-2, 2>> \in Seq(Ints)
  BY ValuesAssumption, TwoListed
<1>4. Given(e, key) => e[<<key, Absent>>] \in Seq(Ints)
  <2> SUFFICES ASSUME Given(e, key) PROVE e[<<key, Absent>>] \in Seq(Ints)
    OBVIOUS
  <2>1. <<key, Absent>> \in DOMAIN e /\ <<key, Absent>>[1] = key
    BY DEF Given
  <2>2. e[<<key, Absent>>] \in Seq(Ints) \cup {Malformed}
    BY <2>1, MergedListed
  <2> QED
    BY <2>1, <2>2
<1> HIDE DEF e
<1>5. Plain(e, key) \in Seq(Ints)
  BY <1>1, <1>3, <1>4 DEF Plain
<1> QED
  BY <1>2, <1>5 DEF e

LEMMA ResolvedListed ==
  ASSUME NEW p, \A key \in ListKeys : p.values[key] \in Seq(Ints)
  PROVE  Listed(ResolvedText(p))
<1> SUFFICES ASSUME NEW s \in ResolvedText(p), s[1] \in ListKeys PROVE s[3] \in Seq(Ints)
  BY DEF Listed
<1>1. CASE \E k \in DOMAIN Defaults :
             s = <<k, Absent, IF k \in {"checkpoint_directory", "second_checkpoint"}
                            THEN EmptyIsNone(p.values[k]) ELSE p.values[k]>>
  <2>1. PICK k \in DOMAIN Defaults :
             s = <<k, Absent, IF k \in {"checkpoint_directory", "second_checkpoint"}
                            THEN EmptyIsNone(p.values[k]) ELSE p.values[k]>>
    BY <1>1
  <2>2. s[1] = k /\ k \notin {"checkpoint_directory", "second_checkpoint"}
    BY <2>1 DEF ListKeys
  <2>3. s[3] = p.values[k] /\ k \in ListKeys
    BY <2>1, <2>2
  <2> QED
    BY <2>3
<1>2. CASE \E i \in 1 .. Len(p.seeds), f \in DOMAIN BaseSeed :
             s = <<f, <<i - 1, 0>>, p.seeds[i][f]>>
  <2>1. s[1] \in DOMAIN BaseSeed
    BY <1>2
  <2>2. DOMAIN BaseSeed = {"ell", "m", "amplitude"}
    BY DEF BaseSeed
  <2> QED
    BY <2>1, <2>2 DEF ListKeys
<1> QED
  BY <1>1, <1>2 DEF ResolvedText

LEMMA ListsStep ==
  ASSUME ConfigurationInv, ListsInv, [ConfigurationNext]_configurationVars
  PROVE  ListsInv'
<1>1. \A s \in Settings : s[1] \in ListKeys => s[3] \in Seq(Ints) \cup {Malformed}
  BY SettingsAssumption DEF ListKeys
<1>2. ASSUME NEW s \in Settings, NEW old, Listed(old) PROVE Listed(old \cup {s})
  BY <1>1, <1>2 DEF Listed
<1>3. CASE WriteSetting
  BY <1>2, <1>3 DEF WriteSetting, ListsInv
<1>4. CASE AddOverride
  BY <1>2, <1>4 DEF AddOverride, ListsInv
<1>5. CASE Start
  BY <1>5 DEF Start, ListsInv
<1>6. CASE Reuse
  <2>1. /\ run # Absent /\ run # Refused
        /\ file' = ResolvedText(run) /\ overrides' = {}
    BY <1>6 DEF Reuse
  <2>2. run = Parsed(file, overrides) /\ Parsed(file, overrides) # Refused
    BY <2>1 DEF ConfigurationInv
  <2>3. /\ run.values = Values(Merged(file, overrides))
        /\ \A k \in DOMAIN Merged(file, overrides) : Merged(file, overrides)[k] # Malformed
    <3>1. /\ Parsed(file, overrides) = [values |-> Values(Merged(file, overrides)),
                                        seeds  |-> Seeds(Merged(file, overrides))]
          /\ \A k \in DOMAIN Merged(file, overrides) : Merged(file, overrides)[k] # Malformed
      BY <2>2, ParsedIs
    <3> QED
      BY <2>2, <3>1
  <2>4. \A key \in ListKeys : run.values[key] \in Seq(Ints)
    BY <2>3, ListsOfValues DEF ListsInv
  <2>5. Listed(file') /\ Listed({})
    BY <2>1, <2>4, ResolvedListed DEF Listed
  <2> QED
    BY <2>1, <2>5 DEF ListsInv
<1>7. CASE UNCHANGED configurationVars
  BY <1>7 DEF configurationVars, ListsInv
<1> QED
  BY <1>3, <1>4, <1>5, <1>6, <1>7 DEF ConfigurationNext

\* The registry of two lists that validation lets through.
LEMMA RegistryIs ==
  ASSUME NEW v, v.first_order_modes \in Seq(Ints), v.second_order_modes \in Seq(Ints),
         v.first_order_modes # << >>, v.second_order_modes # << >>,
         ~ Repeats(v.first_order_modes), ~ Repeats(v.second_order_modes)
  PROVE  LET registry == RunRegistry(v)
             ps == Sorted(v.first_order_modes)
             ts == Sorted(v.second_order_modes)
         IN  /\ registry.targets = ts
             /\ registry.pairs = FlattenSeq([i \in 1 .. Len(ts) |-> PairsOf(ps, ts[i])])
             /\ registry.offsets = PairOffsets(ps, ts)
<1> DEFINE first == v.first_order_modes
           second == v.second_order_modes
           held == ToSet(first) \cup ToSet(second)
           modes == Ascending(held)
<1>1. /\ IsFiniteSet(ToSet(first)) /\ ToSet(first) \subseteq Ints
      /\ IsFiniteSet(ToSet(second)) /\ ToSet(second) \subseteq Ints
  BY ListFinite
<1>2. IsFiniteSet(held) /\ held \subseteq Int
  <2>1. IsFiniteSet(held)
    BY <1>1, FS_Union
  <2>2. Ints \subseteq Int
    BY IntAssumption DEF Ints
  <2> QED
    BY <1>1, <2>1, <2>2
<1>3. ToSet(modes) = held /\ ~ Repeats(modes) /\ DOMAIN modes = 1 .. Len(modes)
  BY <1>2, AscendingList
<1>4. modes # << >>
  <2>1. Len(first) \in Nat /\ Len(first) # 0 /\ DOMAIN first = 1 .. Len(first)
    OBVIOUS
  <2>2. first[1] \in held
    BY <2>1 DEF ToSet
  <2>3. ToSet(<< >>) = {}
    BY DEF ToSet
  <2> QED
    BY <1>3, <2>2, <2>3
<1>5. \A list \in {modes, first, second} : ~ Repeats(list) /\ list # << >>
  BY <1>3, <1>4
<1>6. RunRegistry(v) = Registry(modes, first, second)
  BY DEF RunRegistry
<1>7. ToSet(first) \cup ToSet(second) \subseteq ToSet(modes)
  BY <1>3
<1> HIDE DEF modes, first, second
<1> DEFINE ps == Sorted(first)
           ts == Sorted(second)
<1>8. Registry(modes, first, second) =
        [modes |-> Sorted(modes), parents |-> ps, targets |-> ts,
         representatives |-> Ascending({m \in ToSet(modes) : m >= 0}),
         pairs |-> FlattenSeq([i \in 1 .. Len(ts) |-> PairsOf(ps, ts[i])]),
         offsets |-> PairOffsets(ps, ts)]
  BY <1>5, <1>7 DEF Registry
<1> HIDE DEF ps, ts
<1>9. /\ RunRegistry(v).targets = ts
      /\ RunRegistry(v).pairs = FlattenSeq([i \in 1 .. Len(ts) |-> PairsOf(ps, ts[i])])
      /\ RunRegistry(v).offsets = PairOffsets(ps, ts)
  BY <1>6, <1>8
<1> QED
  BY <1>9 DEF ps, ts, first, second

LEMMA DaughterKept ==
  ASSUME NEW v, v.first_order_modes \in Seq(Ints), v.second_order_modes \in Seq(Ints),
         v.first_order_modes # << >>, v.second_order_modes # << >>,
         ~ Repeats(v.first_order_modes), ~ Repeats(v.second_order_modes),
         Daughters(v.first_order_modes) \subseteq ToSet(v.second_order_modes),
         NEW l \in ToSet(v.first_order_modes), NEW r \in ToSet(v.first_order_modes)
  PROVE  LET registry == RunRegistry(v)
             range == PairRange(registry, l + r)
         IN  /\ l + r \in ToSet(registry.targets)
             /\ \E i \in range[1] .. range[2] - 1 :
                  registry.pairs[i + 1] = [m1 |-> l, m2 |-> r, target |-> l + r]
<1> DEFINE registry == RunRegistry(v)
           ps == Sorted(v.first_order_modes)
           ts == Sorted(v.second_order_modes)
           P == [i \in 1 .. Len(ts) |-> PairsOf(ps, ts[i])]
           range == PairRange(registry, l + r)
           found == CHOOSE i \in 1 .. Len(registry.targets) : registry.targets[i] = l + r
<1>1. /\ registry.targets = ts /\ registry.pairs = FlattenSeq(P)
      /\ registry.offsets = PairOffsets(ps, ts)
  BY RegistryIs
<1>2. /\ ps \in Seq(Ints) /\ ToSet(ps) = ToSet(v.first_order_modes)
      /\ ts \in Seq(Ints) /\ ToSet(ts) = ToSet(v.second_order_modes)
  BY SortedList
<1>3. l + r \in ToSet(v.second_order_modes)
  <2>1. l + r \in Daughters(v.first_order_modes)
    BY DEF Daughters
  <2> QED
    BY <2>1
<1> HIDE DEF ps, ts
<1>4. DOMAIN ts = 1 .. Len(ts) /\ Len(ts) \in Nat
  BY <1>2
<1>5. \E i \in 1 .. Len(ts) : ts[i] = l + r
  <2>1. l + r \in ToSet(ts)
    BY <1>2, <1>3
  <2>2. ToSet(ts) = {ts[i] : i \in 1 .. Len(ts)}
    BY <1>4 DEF ToSet
  <2> QED
    BY <2>1, <2>2
<1>6. found \in 1 .. Len(ts) /\ ts[found] = l + r
  BY <1>1, <1>5
<1>7. range = <<PairOffsets(ps, ts)[found], PairOffsets(ps, ts)[found + 1]>>
  <2>1. l + r \in ToSet(registry.targets)
    BY <1>1, <1>2, <1>3
  <2>2. range = <<registry.offsets[found], registry.offsets[found + 1]>>
    BY <2>1, Zenon DEF PairRange
  <2> HIDE DEF registry, range, found
  <2> QED
    BY <1>1, <2>2
<1> HIDE DEF found, range
<1> DEFINE before == [j \in 1 .. found - 1 |-> PairsOf(ps, ts[j])]
           upto == [j \in 1 .. found |-> PairsOf(ps, ts[j])]
           start == Len(FlattenSeq(before))
<1>8. found \in Nat /\ found + 1 \in 1 .. Len(ts) + 1 /\ found \in 1 .. Len(ts) + 1
      /\ (found + 1) - 1 = found
  BY <1>4, <1>6
<1>9. range[1] = start /\ range[2] = Len(FlattenSeq(upto))
  BY <1>7, <1>8 DEF PairOffsets
<1>10. \A i \in 1 .. Len(ts) : ts[i] \in Int
  <2>1. \A i \in 1 .. Len(ts) : ts[i] \in Ints
    BY <1>2
  <2> QED
    BY <2>1, IntAssumption DEF Ints
<1>11. P \in [1 .. Len(ts) -> Seq(Pair)]
  BY <1>2, <1>10, PairsOfAll
<1>12. Len(P) = Len(ts) /\ \A i \in 1 .. Len(ts) : P[i] \in Seq(Pair)
  BY <1>4, <1>11
<1>13. FirstOf(before, P, found - 1) /\ FirstOf(upto, P, found)
  <2>1. \A k \in 1 .. found : k \in 1 .. Len(ts)
    BY <1>4, <1>6
  <2>2. \A k \in 1 .. found - 1 : k \in 1 .. found
    BY <1>8
  <2>3. found - 1 \in Nat
    BY <1>6
  <2>4. Len(before) = found - 1
    BY <2>3
  <2>5. Len(upto) = found
    BY <1>8
  <2> QED
    BY <2>1, <2>2, <2>4, <2>5 DEF FirstOf
<1>14. P[found] = PairsOf(ps, l + r)
  BY <1>6
<1>15. PICK j \in 1 .. Len(P[found]) :
         P[found][j] = [m1 |-> l, m2 |-> r, target |-> l + r]
  <2>1. l + r \in Int
    BY <1>6, <1>10
  <2>2. l \in ToSet(ps) /\ r \in ToSet(ps)
    BY <1>2
  <2>3. \E j \in 1 .. Len(PairsOf(ps, l + r)) :
          PairsOf(ps, l + r)[j] = [m1 |-> l, m2 |-> r, target |-> l + r]
    BY <1>2, <2>1, <2>2, PairsOfAll
  <2> HIDE DEF P
  <2> QED
    BY <1>14, <2>3
<1> HIDE DEF P, before, upto
<1>16. /\ start \in Nat /\ Len(FlattenSeq(upto)) = start + Len(P[found])
       /\ FlattenSeq(P)[start + j] = P[found][j]
  <2>1. /\ Len(FlattenSeq(before)) \in Nat
        /\ Len(FlattenSeq(upto)) = Len(FlattenSeq(before)) + Len(P[found])
        /\ \A i \in 1 .. Len(P[found]) :
             FlattenSeq(P)[Len(FlattenSeq(before)) + i] = P[found][i]
    <3>1. Placed(P, found, before, upto)
      BY <1>4, <1>6, <1>12, <1>13, FlattenPlaces
    <3> QED
      BY <3>1 DEF Placed
  <2> QED
    BY <1>15, <2>1
<1> HIDE DEF start
<1>17. Len(P[found]) \in Nat
  BY <1>6, <1>12
<1>18. start + j - 1 \in range[1] .. range[2] - 1 /\ (start + j - 1) + 1 = start + j
  BY <1>9, <1>15, <1>16, <1>17
<1>19. l + r \in ToSet(registry.targets)
  BY <1>1, <1>2, <1>3
<1>20. \E i \in range[1] .. range[2] - 1 :
         registry.pairs[i + 1] = [m1 |-> l, m2 |-> r, target |-> l + r]
  BY <1>1, <1>15, <1>16, <1>18
<1> HIDE DEF registry
<1> QED
  BY <1>19, <1>20 DEF registry, range

\* No product of two first-order modes is dropped silently: in an accepted run with
\* a source that does not opt out, each ordered pair of parents is among the pairs of
\* the target its modes sum to (validate_run_parameters, missing_quadratic_daughters,
\* and the pairs and their offsets of ModeRegistry).
THEOREM DaughtersAreKept == ConfigurationSpec => []NoDaughterIsLost
<1>1. ConfigurationInit => ConfigurationInv /\ ListsInv
  BY FS_EmptySet DEF ConfigurationInit, ConfigurationInv, Indexed, ListsInv, Listed
<1>2. ASSUME ConfigurationInv, ListsInv PROVE NoDaughterIsLost
  <2> SUFFICES ASSUME Accepted, run.values.second_order, ~ run.values.allow_truncated,
                      NEW l \in ToSet(run.values.first_order_modes),
                      NEW r \in ToSet(run.values.first_order_modes)
               PROVE  LET registry == RunRegistry(run.values)
                          range == PairRange(registry, l + r)
                      IN  /\ l + r \in ToSet(registry.targets)
                          /\ \E i \in range[1] .. range[2] - 1 :
                               registry.pairs[i + 1] = [m1 |-> l, m2 |-> r, target |-> l + r]
    BY Zenon DEF NoDaughterIsLost
  <2> DEFINE e == Merged(file, overrides)
             v == run.values
  <2>1. run = Parsed(file, overrides) /\ Parsed(file, overrides) # Refused
    BY <1>2 DEF Accepted, ConfigurationInv
  <2>2. /\ run = [values |-> Values(e), seeds |-> Seeds(e)]
        /\ Valid(run)
        /\ \A k \in DOMAIN e : e[k] # Malformed
    BY <2>1, ParsedIs
  <2>3. v = Values(e)
    BY <2>2
  <2>4. v["first_order_modes"] \in Seq(Ints) /\ v["second_order_modes"] \in Seq(Ints)
    BY <1>2, <2>2, <2>3, ListsOfValues DEF ListsInv, ListKeys
  <2>5. /\ ModesValid(v.first_order_modes, v.ellmax_first)
        /\ ModesValid(v.second_order_modes, v.ellmax_second)
        /\ DaughtersValid(v)
    BY <2>2, Zenon DEF Valid
  <2> HIDE DEF v
  <2>6. /\ v.first_order_modes # << >> /\ ~ Repeats(v.first_order_modes)
        /\ v.second_order_modes # << >> /\ ~ Repeats(v.second_order_modes)
    BY <2>5 DEF ModesValid
  <2>7. Daughters(v.first_order_modes) \subseteq ToSet(v.second_order_modes)
    <3>1. v.second_order /\ ~ v.allow_truncated
      BY DEF v
    <3>2. /\ MissingDaughters(v.first_order_modes, v.second_order_modes) # Refused
          /\ MissingDaughters(v.first_order_modes, v.second_order_modes) = {}
      BY <2>5, <3>1 DEF DaughtersValid
    <3>3. MissingDaughters(v.first_order_modes, v.second_order_modes) =
            Daughters(v.first_order_modes) \ ToSet(v.second_order_modes)
      BY <3>2 DEF MissingDaughters
    <3> QED
      BY <3>2, <3>3
  <2>8. l \in ToSet(v.first_order_modes) /\ r \in ToSet(v.first_order_modes)
    BY DEF v
  <2> QED
    BY <2>4, <2>6, <2>7, <2>8, DaughterKept DEF v
<1> QED
  BY <1>1, <1>2, ConfigurationStep, ListsStep, PTL DEF ConfigurationSpec
===============================================================================
