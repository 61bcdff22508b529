------------------------ MODULE SpatialPipelineProofs ------------------------
(***************************************************************************)
(* Proofs about SpatialPipeline, for every set of policies and time steps  *)
(* and without its bound on time.  IndInv strengthens the properties with  *)
(* what step() knows at each of its program points: how many flags it has  *)
(* recorded, that the flags of the running substep are the latch, and that *)
(* the first half of a split step was not forced.                          *)
(***************************************************************************)
EXTENDS SpatialPipeline, FiniteSetTheorems, TLAPS

\* A state carried to time t with gate record a: the latch closed between the
\* causal start and t, and each substep was forced exactly if it began later.
Explained(p, t, a, taken) ==
  /\ a.active => a.activation_time \in Nat /\ p.start <= a.activation_time
                                          /\ a.activation_time <= t
  /\ ~a.active => a.activation_time = Never
  /\ a.last_eligibility_time \in Int /\ a.last_eligibility_time <= t
  /\ \A s \in taken :
       /\ s.from < s.to /\ s.to <= t
       /\ s.forced <=> a.active /\ a.activation_time <= s.from

GateInv ==
  /\ sourceActive = activation.active
  /\ Explained(policy, time, activation, substeps)
  /\ \A c \in saved : Explained(policy, c.time, c.activation, c.substeps)

\* Flags recorded before the running substep.
Earlier == Len(stageStates) - stage

\* The first k flags are off, the others are the latch.
FlagsFollowLatch(flags, k) ==
  \A i \in 1 .. Len(flags) :
    /\ i <= k => flags[i] = FALSE
    /\ i > k => flags[i] = activation.active

StagesInv ==
  pc = "stages" =>
    /\ stage \in 0 .. 3
    /\ Earlier \in {0, 4}
    /\ time < target /\ target <= stepEnd
    /\ ~(time < policy.start /\ policy.start < target)
    /\ target # stepEnd => Earlier = 0 /\ ~activation.active
                                       /\ target = policy.start
    /\ FlagsFollowLatch(stageStates, Earlier)

ControlInv ==
  /\ pc = "entry" => stageStates = <<>> /\ time < stepEnd
  /\ StagesInv
  /\ pc = "start" => /\ time = policy.start /\ time < stepEnd
                     /\ Len(stageStates) = 4
                     /\ \A i \in 1 .. 4 : stageStates[i] = FALSE
  /\ pc = "endpoint" => time = stepEnd

\* The two groups of a split step, or the one group of a whole step.
GroupsInv ==
  \A i, j \in 1 .. Len(stageStates) :
    /\ (i <= 4) = (j <= 4) => stageStates[i] = stageStates[j]
    /\ i <= 4 /\ Len(stageStates) > 4 => ~stageStates[i]

IndInv == TypeOK /\ GateInv /\ ControlInv /\ GroupsInv

-----------------------------------------------------------------------------
(* The gate *)

\* A policy is one, whatever set of them the constant names.
LEMMA PolicyType ==
  ASSUME TypeOK
  PROVE  /\ policy \in Policy
         /\ policy.mode \in SourceModes
         /\ policy.start \in Nat
         /\ policy.required \in Nat \ {0}
  BY PipelineAssumption DEF TypeOK, Policy

\* Closing the latch changes those two fields only.
LEMMA LatchedRecord ==
  ASSUME NEW a \in Activation, NEW t \in Nat
  PROVE  /\ Latched(a, t) \in Activation
         /\ Latched(a, t).active
         /\ Latched(a, t).activation_time = t
         /\ Latched(a, t).last_eligibility_time = a.last_eligibility_time
  <1> DEFINE b == [a EXCEPT !.active = TRUE]
  <1>1. b \in Activation
    BY DEF Activation
  <1>2. Latched(a, t) \in Activation
    <2>1. Latched(a, t) = [b EXCEPT !.activation_time = t]
      BY DEF Latched
    <2> HIDE DEF b
    <2> QED
      BY <1>1, <2>1 DEF Activation
  <1>3. Latched(a, t).active
    BY DEF Latched, Activation
  <1>4. /\ Latched(a, t).activation_time = t
        /\ Latched(a, t).last_eligibility_time = a.last_eligibility_time
    BY DEF Latched, Activation
  <1> QED
    BY <1>2, <1>3, <1>4

\* What one consideration does to a record: a closed gate is left alone; an
\* open one stays as it was or closes at the time considered, which is then at
\* or after the causal start.
LEMMA ConsideredRecord ==
  ASSUME NEW p \in Policy, NEW a \in Activation, NEW t \in Nat,
         NEW passed \in BOOLEAN
  PROVE  LET b == Considered(p, a, t, passed)
         IN  /\ b \in Activation
             /\ a.active => b = a
             /\ ~a.active /\ b.active => b.activation_time = t /\ p.start <= t
             /\ ~b.active => b.activation_time = a.activation_time
             /\ \/ b.last_eligibility_time = a.last_eligibility_time
                \/ b.last_eligibility_time = t
  <1>1. CASE ~Eligible(p, a, t)
    BY <1>1 DEF Considered, Activation
  <1>2. CASE Eligible(p, a, t)
    <2>1. ~a.active /\ t >= p.start
      BY <1>2 DEF Eligible
    <2> DEFINE passes == IF p.mode = "Unrestricted"
                         THEN p.required ELSE PassesAfter(p, a, passed)
               counted == [a EXCEPT !.last_eligibility_time = t,
                                    !.consecutive_passes = passes]
    <2>2. Considered(p, a, t, passed) =
            IF passes >= p.required THEN Latched(counted, t) ELSE counted
      BY <1>2 DEF Considered, Decided
    <2>3. passes \in Nat
      BY DEF PassesAfter, Policy, Activation
    <2> HIDE DEF passes
    <2>4. /\ counted \in Activation
          /\ counted.active = a.active
          /\ counted.activation_time = a.activation_time
          /\ counted.last_eligibility_time = t
      <3>1. counted \in Activation
        <4>1. [a EXCEPT !.last_eligibility_time = t] \in Activation
          BY DEF Activation
        <4> QED
          BY <2>3, <4>1 DEF Activation
      <3>2. counted.active = a.active
        BY DEF Activation
      <3>3. counted.activation_time = a.activation_time
        BY DEF Activation
      <3>4. counted.last_eligibility_time = t
        BY DEF Activation
      <3> QED
        BY <3>1, <3>2, <3>3, <3>4
    <2>5. /\ Latched(counted, t) \in Activation
          /\ Latched(counted, t).active
          /\ Latched(counted, t).activation_time = t
          /\ Latched(counted, t).last_eligibility_time = t
      BY <2>4, LatchedRecord
    <2> HIDE DEF counted
    <2>6. CASE passes >= p.required
      BY <2>1, <2>5, <2>2, <2>6
    <2>7. CASE ~(passes >= p.required)
      BY <2>1, <2>4, <2>2, <2>7
    <2> QED
      BY <2>6, <2>7
  <1> QED
    BY <1>1, <1>2

\* A consideration at the time the state stands at keeps the gate's part of the
\* invariant, and tells what became of the latch.
LEMMA ConsiderKeepsGate ==
  ASSUME TypeOK, GateInv, Consider(time),
         UNCHANGED <<policy, time, substeps, saved>>
  PROVE  /\ activation' \in Activation
         /\ sourceActive' \in BOOLEAN
         /\ normsAt' \in Nat \cup {Never}
         /\ evals' \subseteq Evals
         /\ GateInv'
         /\ activation.active => activation' = activation
         /\ activation'.active => policy.start <= time
  <1>1. PICK passed \in BOOLEAN :
          /\ activation' = Considered(policy, activation, time, passed)
          /\ sourceActive' = IF activation'.active /\ ~activation.active
                             THEN TRUE ELSE sourceActive
          /\ IF Measures(policy, activation, time)
             THEN /\ normsAt' = time
                  /\ evals' = evals \cup {[at |-> time, passed |-> passed]}
             ELSE UNCHANGED <<normsAt, evals>>
    BY DEF Consider
  <1>2. /\ policy \in Policy /\ policy.start \in Nat
        /\ activation \in Activation /\ time \in Nat
        /\ sourceActive \in BOOLEAN /\ evals \subseteq Evals
        /\ normsAt \in Nat \cup {Never}
    BY PolicyType DEF TypeOK
  <1>3. /\ activation' \in Activation
        /\ activation.active => activation' = activation
        /\ ~activation.active /\ activation'.active =>
             activation'.activation_time = time /\ policy.start <= time
        /\ ~activation'.active =>
             activation'.activation_time = activation.activation_time
        /\ \/ activation'.last_eligibility_time = activation.last_eligibility_time
           \/ activation'.last_eligibility_time = time
    BY <1>1, <1>2, ConsideredRecord
  <1>4. /\ sourceActive' \in BOOLEAN
        /\ normsAt' \in Nat \cup {Never}
        /\ evals' \subseteq Evals
    <2>1. CASE Measures(policy, activation, time)
      <3>1. [at |-> time, passed |-> passed] \in Evals
        BY <1>2 DEF Evals
      <3> QED
        BY <1>1, <1>2, <2>1, <3>1
    <2>2. CASE ~Measures(policy, activation, time)
      BY <1>1, <1>2, <2>2
    <2> QED
      BY <2>1, <2>2
  <1>5. /\ activation.active \in BOOLEAN /\ activation'.active \in BOOLEAN
        /\ activation.activation_time \in Int
        /\ activation.last_eligibility_time \in Int
        /\ activation'.last_eligibility_time \in Int
    BY <1>2, <1>3 DEF Activation
  <1>6. /\ sourceActive = activation.active
        /\ Explained(policy, time, activation, substeps)
        /\ \A c \in saved : Explained(policy, c.time, c.activation, c.substeps)
    BY DEF GateInv
  <1>7. sourceActive' = activation'.active
    BY <1>1, <1>3, <1>5, <1>6
  <1>8. \A s \in substeps : s.from \in Nat /\ s.to \in Nat
    BY DEF TypeOK, Substeps
  <1>9. Explained(policy, time, activation', substeps)
    <2>1. CASE activation.active
      BY <2>1, <1>3, <1>6
    <2>2. CASE ~activation.active /\ activation'.active
      BY <2>2, <1>2, <1>3, <1>5, <1>6, <1>8 DEF Explained
    <2>3. CASE ~activation.active /\ ~activation'.active
      BY <2>3, <1>2, <1>3, <1>5, <1>6, <1>8 DEF Explained
    <2> QED
      BY <2>1, <2>2, <2>3
  <1>10. GateInv'
    BY <1>6, <1>7, <1>9 DEF GateInv
  <1>11. activation'.active => policy.start <= time
    BY <1>2, <1>3, <1>5, <1>6 DEF Explained
  <1> QED
    BY <1>3, <1>4, <1>10, <1>11

\* The record a constructor or new initial data leave behind.
LEMMA ResetRecord ==
  ASSUME NEW p \in Policy
  PROVE  /\ ResetActivation(p) \in Activation
         /\ Explained(p, 0, ResetActivation(p), {})
  <1>1. /\ Fresh \in Activation /\ ~Fresh.active
        /\ Fresh.activation_time = Never /\ Fresh.last_eligibility_time = -1
    BY DEF Fresh, Activation, Never
  <1>2. p.required \in Nat /\ p.start \in Nat
    BY DEF Policy
  <1>3. CASE p.mode = "Unrestricted" /\ p.start = 0
    <2> DEFINE l == Latched(Fresh, 0)
               r == [l EXCEPT !.consecutive_passes = p.required]
    <2>1. ResetActivation(p) = r
      BY <1>3 DEF ResetActivation
    <2>2. /\ l \in Activation /\ l.active
          /\ l.activation_time = 0 /\ l.last_eligibility_time = -1
      BY <1>1, LatchedRecord
    <2> HIDE DEF l
    <2>3. r \in Activation
      BY <1>2, <2>2 DEF Activation
    <2>4. /\ r.active = l.active
          /\ r.activation_time = l.activation_time
          /\ r.last_eligibility_time = l.last_eligibility_time
      BY <2>2 DEF Activation
    <2> HIDE DEF r
    <2> QED
      BY <1>2, <1>3, <2>1, <2>2, <2>3, <2>4 DEF Explained
  <1>4. CASE ~(p.mode = "Unrestricted" /\ p.start = 0)
    BY <1>1, <1>4 DEF ResetActivation, Explained
  <1> QED
    BY <1>3, <1>4

-----------------------------------------------------------------------------
(* The invariant *)

LEMMA InitInv == Init => IndInv
  <1> SUFFICES ASSUME Init PROVE IndInv
    OBVIOUS
  <1>1. policy \in Policy
    BY PipelineAssumption DEF Init
  <1>2. /\ activation \in Activation
        /\ Explained(policy, 0, activation, {})
    BY <1>1, ResetRecord DEF Init
  <1>3. activation.active \in BOOLEAN
    BY <1>2 DEF Activation
  <1>4. TypeOK
    BY <1>2, <1>3 DEF Init, TypeOK, StageCapacity, Never
  <1>5. GateInv /\ ControlInv /\ GroupsInv
    BY <1>2 DEF Init, GateInv, ControlInv, StagesInv, GroupsInv
  <1> QED
    BY <1>4, <1>5 DEF IndInv

LEMMA BeginStepInv ==
  ASSUME IndInv, NEW dt \in TimeSteps, BeginStep(dt)
  PROVE  IndInv'
  <1>1. dt \in Nat /\ dt > 0
    BY PipelineAssumption
  <1>2. time' = time /\ stepEnd' = time + dt /\ stageStates' = <<>>
        /\ pc' = "entry"
    BY DEF BeginStep
  <1>3. TypeOK'
    BY <1>1, <1>2 DEF IndInv, TypeOK, BeginStep, gate, StageCapacity
  <1>4. GateInv'
    BY DEF IndInv, GateInv, BeginStep, gate
  <1>5. ControlInv' /\ GroupsInv'
    BY <1>1, <1>2 DEF IndInv, TypeOK, ControlInv, StagesInv, GroupsInv
  <1> QED
    BY <1>3, <1>4, <1>5 DEF IndInv

LEMMA EnterStepInv ==
  ASSUME IndInv, EnterStep
  PROVE  IndInv'
  <1>1. /\ activation' \in Activation /\ sourceActive' \in BOOLEAN
        /\ normsAt' \in Nat \cup {Never} /\ evals' \subseteq Evals
        /\ GateInv'
    <2>1. UNCHANGED <<policy, time, substeps, saved>>
      BY DEF EnterStep
    <2>2. CASE Consider(time)
      BY <2>1, <2>2, ConsiderKeepsGate DEF IndInv
    <2>3. CASE UNCHANGED gate
      BY <2>1, <2>3 DEF IndInv, TypeOK, GateInv, gate
    <2> QED
      BY <2>2, <2>3 DEF EnterStep
  <1>2. policy.start \in Nat
    BY PolicyType DEF IndInv
  <1>3. /\ pc = "entry" /\ stageStates = <<>> /\ time < stepEnd
        /\ time \in Nat /\ stepEnd \in Nat
    BY DEF IndInv, EnterStep, ControlInv, TypeOK
  <1>4. /\ time' = time /\ stepEnd' = stepEnd /\ stageStates' = <<>>
        /\ stage' = 0 /\ pc' = "stages" /\ policy' = policy
    BY <1>3 DEF EnterStep
  <1>5. /\ target' \in Nat /\ time < target' /\ target' <= stepEnd
        /\ target' # stepEnd => ~activation'.active /\ target' = policy.start
        /\ ~(time < policy.start /\ policy.start < target')
    <2>1. CASE SplitsAt(policy, activation', time, stepEnd)
      <3>1. target' = policy.start
        BY <2>1 DEF EnterStep
      <3> QED
        BY <1>2, <1>3, <2>1, <3>1 DEF SplitsAt
    <2>2. CASE ~SplitsAt(policy, activation', time, stepEnd)
      <3>1. target' = stepEnd
        BY <2>2 DEF EnterStep
      <3>2. activation'.active => policy.start <= time
        BY <1>1, <1>2, <1>3, <1>4 DEF GateInv, Explained
      <3> QED
        BY <1>2, <1>3, <2>2, <3>1, <3>2 DEF SplitsAt
    <2> QED
      BY <2>1, <2>2
  <1>6. TypeOK'
    BY <1>1, <1>4, <1>5 DEF IndInv, TypeOK, EnterStep, StageCapacity
  <1>7. ControlInv' /\ GroupsInv'
    <2>1. Len(stageStates') = 0 /\ Earlier' = 0
      BY <1>4 DEF Earlier
    <2>2. FlagsFollowLatch(stageStates, Earlier)'
      BY <2>1 DEF FlagsFollowLatch
    <2> QED
      BY <1>4, <1>5, <2>1, <2>2 DEF ControlInv, StagesInv, GroupsInv
  <1> QED
    BY <1>1, <1>6, <1>7 DEF IndInv

\* Recording one more flag of the running substep.
LEMMA RecordFlag ==
  ASSUME IndInv, pc = "stages", RightHandSide, UNCHANGED activation
  PROVE  /\ stage \in 0 .. 3
         /\ stage' = stage + 1
         /\ stageStates' \in Seq(BOOLEAN)
         /\ Len(stageStates') = Len(stageStates) + 1
         /\ Earlier \in {0, 4}
         /\ Len(stageStates') - stage' = Earlier
         /\ FlagsFollowLatch(stageStates', Earlier)
  <1>1. /\ stage \in 0 .. 3 /\ Earlier \in {0, 4}
        /\ FlagsFollowLatch(stageStates, Earlier)
        /\ stageStates \in Seq(BOOLEAN)
        /\ activation.active \in BOOLEAN
    BY DEF IndInv, ControlInv, StagesInv, TypeOK, Activation
  <1>2. /\ stageStates' = Append(stageStates, activation.active)
        /\ stage' = stage + 1
    BY DEF RightHandSide
  <1>3. /\ stageStates' \in Seq(BOOLEAN)
        /\ Len(stageStates') = Len(stageStates) + 1
        /\ Len(stageStates) \in Nat
        /\ \A i \in 1 .. Len(stageStates) : stageStates'[i] = stageStates[i]
        /\ stageStates'[Len(stageStates) + 1] = activation.active
    BY <1>1, <1>2
  <1>4. Earlier < Len(stageStates) + 1
    BY <1>1, <1>3 DEF Earlier
  <1>5. FlagsFollowLatch(stageStates', Earlier)
    <2>1. SUFFICES ASSUME NEW i \in 1 .. Len(stageStates')
                   PROVE  /\ i <= Earlier => stageStates'[i] = FALSE
                          /\ i > Earlier => stageStates'[i] = activation.active
      BY DEF FlagsFollowLatch
    <2>2. CASE i \in 1 .. Len(stageStates)
      <3>1. stageStates'[i] = stageStates[i]
        BY <1>3, <2>2
      <3> QED
        BY <1>1, <2>2, <3>1 DEF FlagsFollowLatch
    <2>3. CASE i = Len(stageStates) + 1
      <3>1. stageStates'[i] = activation.active
        BY <1>3, <2>3
      <3>2. ~(i <= Earlier)
        BY <1>1, <1>3, <1>4, <2>3
      <3> QED
        BY <3>1, <3>2
    <2>4. i \in 1 .. Len(stageStates) \/ i = Len(stageStates) + 1
      BY <1>3
    <2> QED
      BY <2>2, <2>3, <2>4
  <1>6. Len(stageStates') - stage' = Earlier
    BY <1>1, <1>2, <1>3 DEF Earlier
  <1> QED
    BY <1>1, <1>2, <1>3, <1>5, <1>6

\* Such flags are those of one substep, or of two with the first unforced.
LEMMA FlagsFormGroups ==
  ASSUME stageStates' \in Seq(BOOLEAN), stage' \in 0 .. 4,
         Earlier \in {0, 4}, Len(stageStates') - stage' = Earlier,
         FlagsFollowLatch(stageStates', Earlier)
  PROVE  GroupsInv'
  <1>1. Len(stageStates') \in Nat
    OBVIOUS
  <1>2. SUFFICES ASSUME NEW i \in 1 .. Len(stageStates'),
                        NEW j \in 1 .. Len(stageStates')
                 PROVE  /\ (i <= 4) = (j <= 4) => stageStates'[i] = stageStates'[j]
                        /\ i <= 4 /\ Len(stageStates') > 4 => ~stageStates'[i]
    BY DEF GroupsInv
  <1>3. CASE Earlier = 0
    <2>1. ~(i <= Earlier) /\ ~(j <= Earlier) /\ ~(Len(stageStates') > 4)
      BY <1>1, <1>3
    <2>2. stageStates'[i] = activation.active /\ stageStates'[j] = activation.active
      BY <1>3, <2>1 DEF FlagsFollowLatch
    <2> QED
      BY <2>1, <2>2
  <1>4. CASE Earlier = 4
    <2>1. i <= 4 => stageStates'[i] = FALSE
      BY <1>4 DEF FlagsFollowLatch
    <2>2. j <= 4 => stageStates'[j] = FALSE
      BY <1>4 DEF FlagsFollowLatch
    <2>3. ~(i <= 4) => stageStates'[i] = activation.active
      BY <1>4 DEF FlagsFollowLatch
    <2>4. ~(j <= 4) => stageStates'[j] = activation.active
      BY <1>4 DEF FlagsFollowLatch
    <2> QED
      BY <2>1, <2>2, <2>3, <2>4
  <1> QED
    BY <1>3, <1>4

LEMMA EarlyStageInv ==
  ASSUME IndInv, EarlyStage
  PROVE  IndInv'
  <1>1. /\ UNCHANGED <<policy, activation, sourceActive, normsAt, evals, time,
                       pc, target, stepEnd, substeps, saved>>
        /\ pc = "stages" /\ stage < 3
    BY DEF EarlyStage, gate
  <1>2. /\ stage \in 0 .. 3 /\ stage' = stage + 1
        /\ stageStates' \in Seq(BOOLEAN)
        /\ Len(stageStates') = Len(stageStates) + 1
        /\ Earlier \in {0, 4} /\ Len(stageStates') - stage' = Earlier
        /\ FlagsFollowLatch(stageStates', Earlier)
    BY <1>1, RecordFlag DEF EarlyStage
  <1>3. Len(stageStates') <= 8 /\ Len(stageStates') \in Nat
    BY <1>2, <1>1
  <1>4. TypeOK'
    BY <1>1, <1>2, <1>3 DEF IndInv, TypeOK, StageCapacity
  <1>5. GateInv'
    BY <1>1 DEF IndInv, GateInv
  <1>6. ControlInv'
    <2>1. Earlier' = Earlier
      BY <1>2 DEF Earlier
    <2>2. FlagsFollowLatch(stageStates, Earlier)'
      BY <1>1, <1>2, <2>1 DEF FlagsFollowLatch
    <2> QED
      BY <1>1, <1>2, <2>1, <2>2 DEF IndInv, ControlInv, StagesInv
  <1>7. GroupsInv'
    BY <1>1, <1>2, FlagsFormGroups
  <1> QED
    BY <1>4, <1>5, <1>6, <1>7 DEF IndInv

\* The four flags of a substep are the latch, so the substep is recorded as
\* forced exactly when the latch was closed throughout it.
LEMMA LastStageRecords ==
  ASSUME IndInv, LastStage
  PROVE  substeps' = substeps \cup {[from |-> time, to |-> target,
                                     forced |-> activation.active]}
  <1> DEFINE flags == stageStates'
             forced == \A i \in 0 .. 3 : flags[Len(flags) - i]
  <1>1. /\ pc = "stages" /\ stage = 3 /\ RightHandSide /\ UNCHANGED activation
        /\ substeps' = substeps \cup {[from |-> time, to |-> target,
                                       forced |-> forced]}
    BY DEF LastStage, gate
  <1>2. /\ Len(flags) \in Nat /\ Earlier \in {0, 4}
        /\ Len(flags) = Earlier + 4
        /\ FlagsFollowLatch(flags, Earlier)
    BY <1>1, RecordFlag
  <1>3. activation.active \in BOOLEAN
    BY DEF IndInv, TypeOK, Activation
  <1>4. forced = activation.active
    <2>1. ASSUME NEW i \in 0 .. 3
          PROVE  flags[Len(flags) - i] = activation.active
      <3>1. /\ Len(flags) - i \in 1 .. Len(flags)
            /\ Len(flags) - i > Earlier
        BY <1>2
      <3> QED
        BY <1>2, <3>1 DEF FlagsFollowLatch
    <2>2. activation.active => forced
      BY <2>1
    <2>3. ASSUME ~activation.active
          PROVE  ~forced
      <3>1. ~flags[Len(flags) - 0]
        BY <2>1, <2>3
      <3>2. 0 \in 0 .. 3
        OBVIOUS
      <3> QED
        BY <3>1, <3>2
    <2>4. forced \in BOOLEAN
      OBVIOUS
    <2> HIDE DEF forced
    <2> QED
      BY <1>3, <2>2, <2>3, <2>4
  <1> HIDE DEF forced
  <1> QED
    BY <1>1, <1>4

LEMMA LastStageInv ==
  ASSUME IndInv, LastStage
  PROVE  IndInv'
  <1> DEFINE flags == stageStates'
             taken == [from |-> time, to |-> target,
                       forced |-> activation.active]
  <1>1. /\ UNCHANGED <<policy, activation, sourceActive, normsAt, evals,
                       target, stepEnd, saved>>
        /\ pc = "stages" /\ stage = 3
        /\ time' = target
        /\ pc' = IF target = stepEnd THEN "endpoint" ELSE "start"
    BY DEF LastStage, gate
  <1>2. /\ stage' = 4
        /\ flags \in Seq(BOOLEAN)
        /\ Len(flags) = Len(stageStates) + 1
        /\ Earlier \in {0, 4} /\ Len(flags) - stage' = Earlier
        /\ FlagsFollowLatch(flags, Earlier)
    BY <1>1, RecordFlag DEF LastStage
  <1>3. Len(flags) = Earlier + 4 /\ Len(flags) <= 8 /\ Len(flags) \in Nat
    BY <1>2
  <1>4. /\ time \in Nat /\ target \in Nat /\ stepEnd \in Nat
        /\ policy.start \in Nat
        /\ time < target /\ target <= stepEnd
        /\ ~(time < policy.start /\ policy.start < target)
        /\ target # stepEnd => /\ Earlier = 0 /\ ~activation.active
                               /\ target = policy.start
    BY <1>1, PolicyType DEF IndInv, TypeOK, ControlInv, StagesInv
  <1>5. /\ activation \in Activation /\ activation.active \in BOOLEAN
        /\ activation.activation_time \in Int
        /\ activation.last_eligibility_time \in Int
    BY DEF IndInv, TypeOK, Activation
  <1>6. substeps' = substeps \cup {taken}
    BY LastStageRecords
  <1>7. /\ taken \in Substeps
        /\ taken.from = time /\ taken.to = target
        /\ taken.forced = activation.active
    BY <1>4, <1>5 DEF Substeps
  <1> HIDE DEF taken
  <1>8. TypeOK'
    BY <1>1, <1>2, <1>3, <1>6, <1>7 DEF IndInv, TypeOK, StageCapacity
  <1>9. Explained(policy, target, activation, substeps \cup {taken})
    <2>1. /\ Explained(policy, time, activation, substeps)
          /\ \A s \in substeps : s.from \in Nat /\ s.to \in Nat
      BY DEF IndInv, GateInv, TypeOK, Substeps
    <2>2. ASSUME NEW s \in substeps
          PROVE  /\ s.from < s.to /\ s.to <= target
                 /\ s.forced <=> /\ activation.active
                                 /\ activation.activation_time <= s.from
      BY <1>4, <2>1 DEF Explained
    <2>3. /\ taken.from < taken.to /\ taken.to <= target
          /\ taken.forced <=> /\ activation.active
                              /\ activation.activation_time <= taken.from
      BY <1>4, <1>5, <1>7, <2>1 DEF Explained
    <2>4. /\ activation.active => /\ activation.activation_time \in Nat
                                  /\ policy.start <= activation.activation_time
                                  /\ activation.activation_time <= target
          /\ ~activation.active => activation.activation_time = Never
          /\ activation.last_eligibility_time <= target
      BY <1>4, <1>5, <2>1 DEF Explained
    <2> QED
      BY <1>5, <2>2, <2>3, <2>4 DEF Explained
  <1>10. GateInv'
    BY <1>1, <1>6, <1>9 DEF IndInv, GateInv
  <1>11. GroupsInv'
    BY <1>2, FlagsFormGroups
  <1>12. ControlInv'
    <2>1. CASE target = stepEnd
      BY <1>1, <2>1 DEF ControlInv, StagesInv
    <2>2. CASE target # stepEnd
      <3>1. Earlier = 0 /\ ~activation.active /\ target = policy.start
        BY <1>4, <2>2
      <3>2. Len(flags) = 4
        BY <1>3, <3>1
      <3>3. ASSUME NEW i \in 1 .. 4
            PROVE  flags[i] = FALSE
        <4>1. i \in 1 .. Len(flags) /\ i > Earlier
          BY <3>1, <3>2
        <4>2. flags[i] = activation.active
          BY <1>2, <4>1 DEF FlagsFollowLatch
        <4> QED
          BY <1>5, <3>1, <4>2
      <3>4. pc' = "start" /\ time' = policy'.start /\ time' < stepEnd'
        BY <1>1, <1>4, <2>2, <3>1
      <3> QED
        BY <3>2, <3>3, <3>4 DEF ControlInv, StagesInv
    <2> QED
      BY <2>1, <2>2
  <1> QED
    BY <1>8, <1>10, <1>11, <1>12 DEF IndInv

LEMMA ReachStartInv ==
  ASSUME IndInv, ReachStart
  PROVE  IndInv'
  <1>1. /\ pc = "start" /\ time = policy.start /\ time < stepEnd
        /\ Len(stageStates) = 4 /\ \A i \in 1 .. 4 : stageStates[i] = FALSE
        /\ time \in Nat /\ stepEnd \in Nat /\ policy.start \in Nat
        /\ stageStates \in Seq(BOOLEAN)
    BY PolicyType DEF IndInv, ReachStart, ControlInv, TypeOK
  <1>2. /\ UNCHANGED <<policy, time, stepEnd, stageStates, substeps, saved>>
        /\ target' = stepEnd /\ stage' = 0 /\ pc' = "stages"
    BY DEF ReachStart
  <1>3. /\ activation' \in Activation /\ sourceActive' \in BOOLEAN
        /\ normsAt' \in Nat \cup {Never} /\ evals' \subseteq Evals
        /\ GateInv'
    BY <1>2, ConsiderKeepsGate DEF IndInv, ReachStart
  <1>4. TypeOK'
    BY <1>2, <1>3 DEF IndInv, TypeOK
  <1>5. ControlInv'
    <2>1. Earlier' = 4 /\ Len(stageStates') = 4
      BY <1>1, <1>2 DEF Earlier
    <2>2. FlagsFollowLatch(stageStates, Earlier)'
      <3>1. ASSUME NEW i \in 1 .. Len(stageStates')
            PROVE  /\ stageStates'[i] = FALSE
                   /\ ~(i > 4)
        <4>1. stageStates' = stageStates /\ Len(stageStates) = 4
          BY <1>1, <1>2
        <4>2. i \in 1 .. 4
          BY <4>1
        <4>3. stageStates[i] = FALSE
          BY <1>1, <4>2
        <4>4. ~(i > 4)
          BY <4>2
        <4> QED
          BY <4>1, <4>3, <4>4
      <3> QED
        BY <2>1, <3>1 DEF FlagsFollowLatch
    <2> QED
      BY <1>1, <1>2, <2>1, <2>2 DEF ControlInv, StagesInv
  <1>6. GroupsInv'
    BY <1>2 DEF IndInv, GroupsInv
  <1> QED
    BY <1>3, <1>4, <1>5, <1>6 DEF IndInv

LEMMA EndStepInv ==
  ASSUME IndInv, EndStep
  PROVE  IndInv'
  <1>1. /\ time = stepEnd
        /\ UNCHANGED <<policy, time, target, stepEnd, stageStates, stage,
                       substeps, saved>>
        /\ pc' = "idle"
    BY DEF IndInv, EndStep, ControlInv
  <1>2. /\ activation' \in Activation /\ sourceActive' \in BOOLEAN
        /\ normsAt' \in Nat \cup {Never} /\ evals' \subseteq Evals
        /\ GateInv'
    <2>1. CASE Consider(stepEnd)
      BY <1>1, <2>1, ConsiderKeepsGate DEF IndInv
    <2>2. CASE UNCHANGED gate
      BY <1>1, <2>2 DEF IndInv, TypeOK, GateInv, gate
    <2> QED
      BY <2>1, <2>2 DEF EndStep
  <1>3. TypeOK' /\ ControlInv' /\ GroupsInv'
    BY <1>1, <1>2 DEF IndInv, TypeOK, ControlInv, StagesInv, GroupsInv
  <1> QED
    BY <1>2, <1>3 DEF IndInv

\* Between steps only the gate and the solution change hands.
LEMMA CallerInv ==
  ASSUME IndInv, Probe \/ Initialize \/ Checkpoint \/ Restore
  PROVE  IndInv'
  <1>1. /\ UNCHANGED <<policy, pc, target, stepEnd, stageStates, stage>>
        /\ pc = "idle"
    BY DEF Probe, Initialize, Checkpoint, Restore, control
  <1>2. ControlInv' /\ GroupsInv'
    BY <1>1 DEF IndInv, ControlInv, StagesInv, GroupsInv
  <1>3. policy \in Policy
    BY PolicyType DEF IndInv
  <1>4. TypeOK' /\ GateInv'
    <2>1. CASE Probe
      <3>1. UNCHANGED <<policy, time, substeps, saved>> /\ Consider(time)
        BY <2>1 DEF Probe
      <3>2. /\ activation' \in Activation /\ sourceActive' \in BOOLEAN
            /\ normsAt' \in Nat \cup {Never} /\ evals' \subseteq Evals
            /\ GateInv'
        BY <3>1, ConsiderKeepsGate DEF IndInv
      <3> QED
        BY <1>1, <3>1, <3>2 DEF IndInv, TypeOK
    <2>2. CASE Initialize
      <3>1. /\ activation' = ResetActivation(policy)
            /\ sourceActive' = activation'.active /\ normsAt' = Never
            /\ time' = 0 /\ substeps' = {} /\ evals' = {}
            /\ saved' = saved
        BY <2>2 DEF Initialize
      <3>2. /\ activation' \in Activation /\ activation'.active \in BOOLEAN
            /\ Explained(policy, 0, activation', {})
        BY <1>3, <3>1, ResetRecord DEF Activation
      <3>3. TypeOK'
        BY <1>1, <3>1, <3>2 DEF IndInv, TypeOK
      <3>4. GateInv'
        BY <1>1, <3>1, <3>2 DEF IndInv, GateInv
      <3> QED
        BY <3>3, <3>4
    <2>3. CASE Checkpoint
      <3>1. /\ saved' = {Capture}
            /\ UNCHANGED <<activation, sourceActive, normsAt, evals, time,
                           substeps>>
        BY <2>3 DEF Checkpoint, gate
      <3>2. TypeOK'
        BY <1>1, <3>1 DEF IndInv, TypeOK, Capture
      <3>3. GateInv'
        BY <1>1, <3>1 DEF IndInv, GateInv, Capture
      <3> QED
        BY <3>2, <3>3
    <2>4. CASE Restore
      <3>1. PICK c \in saved :
              /\ activation' = c.activation
              /\ sourceActive' = c.activation.active
              /\ time' = c.time /\ substeps' = c.substeps /\ evals' = c.evals
        BY <2>4 DEF Restore
      <3>2. /\ normsAt' = normsAt /\ saved' = saved
            /\ c.activation \in Activation /\ c.activation.active \in BOOLEAN
            /\ c.time \in Nat /\ c.substeps \subseteq Substeps
            /\ c.evals \subseteq Evals
        BY <2>4, <3>1 DEF Restore, IndInv, TypeOK, Activation
      <3>3. TypeOK'
        BY <1>1, <3>1, <3>2 DEF IndInv, TypeOK
      <3>4. GateInv'
        BY <1>1, <3>1, <3>2 DEF IndInv, GateInv
      <3> QED
        BY <3>3, <3>4
    <2> QED
      BY <2>1, <2>2, <2>3, <2>4
  <1> QED
    BY <1>2, <1>4 DEF IndInv

LEMMA StutterInv ==
  ASSUME IndInv, UNCHANGED vars
  PROVE  IndInv'
  <1>1. UNCHANGED <<policy, activation, sourceActive, normsAt, time, pc, target,
                    stepEnd, stageStates, stage, substeps, evals, saved>>
    BY DEF vars, gate, control
  <1>2. TypeOK' /\ GateInv'
    BY <1>1 DEF IndInv, TypeOK, GateInv
  <1>3. Earlier' = Earlier
    BY <1>1 DEF Earlier
  <1>4. ControlInv' /\ GroupsInv'
    BY <1>1, <1>3
    DEF IndInv, ControlInv, StagesInv, FlagsFollowLatch, GroupsInv
  <1> QED
    BY <1>2, <1>4 DEF IndInv

LEMMA NextInv == IndInv /\ [Next]_vars => IndInv'
  BY BeginStepInv, EnterStepInv, EarlyStageInv, LastStageInv, ReachStartInv,
     EndStepInv, CallerInv, StutterInv
  DEF Next, StepAction

\* The invariant the theorems below draw on.
THEOREM Inductive == Spec => []IndInv
  BY InitInv, NextInv, PTL DEF Spec

-----------------------------------------------------------------------------
(* What the invariant gives *)

\* The variables keep their types, and the record of at most eight stage flags
\* never overflows: the throw in advance_fixed_source_step is unreachable.
THEOREM TypeCorrect == Spec => []TypeOK
  <1>1. IndInv => TypeOK
    BY DEF IndInv
  <1> QED
    BY <1>1, Inductive, PTL

\* The four stages of every substep see one latch, and a later substep of the
\* same step is never less forced than an earlier one.
THEOREM OneLatchPerSubstep == Spec => []StagesSeeOneLatch
  <1>1. IndInv => StagesSeeOneLatch
    <2> SUFFICES ASSUME IndInv, NEW i \in 1 .. Len(stageStates),
                        NEW j \in 1 .. Len(stageStates)
                 PROVE  /\ (i - 1) \div 4 = (j - 1) \div 4 =>
                             stageStates[i] = stageStates[j]
                        /\ i < j /\ stageStates[i] => stageStates[j]
      BY DEF StagesSeeOneLatch
    <2>1. /\ (i <= 4) = (j <= 4) => stageStates[i] = stageStates[j]
          /\ i <= 4 /\ Len(stageStates) > 4 => ~stageStates[i]
          /\ Len(stageStates) \in Nat /\ Len(stageStates) <= 8
      BY DEF IndInv, GroupsInv, TypeOK, StageCapacity
    <2>2. i \in 1 .. 8 /\ j \in 1 .. 8
      BY <2>1
    <2>3. (i - 1) \div 4 = (j - 1) \div 4 => (i <= 4) = (j <= 4)
      BY <2>2
    <2>4. i < j /\ (i <= 4) # (j <= 4) => i <= 4 /\ Len(stageStates) > 4
      BY <2>1, <2>2
    <2> QED
      BY <2>1, <2>3, <2>4
  <1> QED
    BY <1>1, Inductive, PTL

\* For every policy and every sequence of steps, probes, new data, checkpoints
\* and restores: the state was forced over exactly the substeps that began at
\* or after the activation time, and over none that began before the start.
THEOREM ForcedExactlyFromActivation == Spec => []ForcedFromActivationOn
  <1>1. IndInv => ForcedFromActivationOn
    <2> SUFFICES ASSUME IndInv PROVE ForcedFromActivationOn
      OBVIOUS
    <2>1. sourceActive = activation.active
      BY DEF IndInv, GateInv
    <2>2. ASSUME NEW s \in substeps
          PROVE  /\ s.forced <=> /\ activation.active
                                 /\ activation.activation_time <= s.from
                 /\ s.forced => policy.start <= s.from
      <3>1. s.from \in Nat /\ policy.start \in Nat
        BY PolicyType DEF IndInv, TypeOK, Substeps
      <3> QED
        BY <3>1 DEF IndInv, GateInv, Explained
    <2> QED
      BY <2>1, <2>2 DEF ForcedFromActivationOn
  <1> QED
    BY <1>1, Inductive, PTL

\* Neither a part of a step nor a probe touches a closed gate.
LEMMA StepLeavesClosedGate ==
  ASSUME StepAction \/ Probe, activation.active
  PROVE  activation' = activation
  <1>1. ASSUME NEW t, Consider(t)
        PROVE  activation' = activation
    BY <1>1 DEF Consider, Considered, Eligible
  <1>2. CASE \E dt \in TimeSteps : BeginStep(dt)
    BY <1>2 DEF BeginStep, gate
  <1>3. CASE EnterStep
    BY <1>1, <1>3 DEF EnterStep, gate
  <1>4. CASE EarlyStage \/ LastStage
    BY <1>4 DEF EarlyStage, LastStage, gate
  <1>5. CASE ReachStart
    BY <1>1, <1>5 DEF ReachStart
  <1>6. CASE EndStep
    BY <1>1, <1>6 DEF EndStep, gate
  <1>7. CASE Probe
    BY <1>1, <1>7 DEF Probe
  <1> QED
    BY <1>2, <1>3, <1>4, <1>5, <1>6, <1>7 DEF StepAction

\* Within steps and probes the latch is monotone and its time is fixed once it closes.
THEOREM LatchMonotone == Spec => LatchOnlyCloses
  <1>1. [Next]_vars =>
          [(StepAction \/ Probe) /\ activation.active =>
             /\ activation'.active
             /\ activation'.activation_time = activation.activation_time]_vars
    BY StepLeavesClosedGate
  <1> QED
    BY <1>1, PTL DEF Spec, LatchOnlyCloses

-----------------------------------------------------------------------------
(* Counting *)

\* The accepted times of a state carried by the substeps taken, and those from
\* the causal start to the latch that have no verdict in seen.
Accepted(taken) == {0} \cup {s.to : s \in taken}

Unseen(p, a, taken, seen) ==
  {t \in Accepted(taken) :
     /\ p.start <= t
     /\ a.active => t <= a.activation_time
     /\ \A e \in seen : e.at # t}

\* The verdicts after the last failed one, for any set of verdicts.
Trailing(seen) == {e \in seen : \A f \in seen : f.at >= e.at => f.passed}

\* A constraint-aware record a explained by the verdicts seen: one for each
\* accepted state that was due, except perhaps the one the state stands at.
Counted(p, t, a, taken, seen) ==
  /\ t \in Accepted(taken)
  /\ IsFiniteSet(seen)
  /\ \A e \in seen :
       /\ e.at <= a.last_eligibility_time
       /\ p.start <= e.at
       /\ e.at \in Accepted(taken)
       /\ a.active => e.at <= a.activation_time
  /\ a.last_eligibility_time = Never
       \/ \E e \in seen : e.at = a.last_eligibility_time
  /\ a.consecutive_passes = Cardinality(Trailing(seen))
  /\ a.consecutive_passes <= p.required
  /\ a.active <=> a.consecutive_passes = p.required
  /\ Unseen(p, a, taken, seen) \subseteq {t}
  /\ a.active => Unseen(p, a, taken, seen) = {}

\* The state at hand may still be without its verdict: a substep has just ended,
\* or no step has begun.
Waiting ==
  pc \in {"start", "endpoint"} \/ (pc \in {"idle", "entry"} /\ substeps = {})

CountInv ==
  policy.mode = "ConstraintAware" =>
    /\ Counted(policy, time, activation, substeps, evals)
    /\ ~Waiting => Unseen(policy, activation, substeps, evals) = {}
    /\ \A c \in saved :
         /\ Counted(policy, c.time, c.activation, c.substeps, c.evals)
         /\ c.substeps # {} =>
              Unseen(policy, c.activation, c.substeps, c.evals) = {}

\* A verdict later than all others lengthens the run of passes by one, or ends it.
LEMMA TrailingAfter ==
  ASSUME NEW seen \in SUBSET Evals, IsFiniteSet(seen), NEW e \in Evals,
         \A f \in seen : f.at < e.at
  PROVE  /\ IsFiniteSet(seen \cup {e})
         /\ Cardinality(Trailing(seen \cup {e})) =
              IF e.passed THEN Cardinality(Trailing(seen)) + 1 ELSE 0
  <1>1. \A f \in seen \cup {e} : f.at \in Nat /\ f.passed \in BOOLEAN
    BY DEF Evals
  <1>2. IsFiniteSet(seen \cup {e})
    BY FS_AddElement
  <1>3. CASE e.passed
    <2>1. Trailing(seen \cup {e}) = Trailing(seen) \cup {e}
      BY <1>1, <1>3 DEF Trailing
    <2>2. e \notin Trailing(seen)
      BY <1>1 DEF Trailing
    <2>3. IsFiniteSet(Trailing(seen))
      BY FS_Subset DEF Trailing
    <2>4. Cardinality(Trailing(seen) \cup {e}) = Cardinality(Trailing(seen)) + 1
      BY <2>2, <2>3, FS_AddElement
    <2> QED
      BY <1>2, <1>3, <2>1, <2>4
  <1>4. CASE ~e.passed
    <2>1. Trailing(seen \cup {e}) = {}
      BY <1>1, <1>4 DEF Trailing
    <2> QED
      BY <1>2, <1>4, <2>1, FS_EmptySet
  <1> QED
    BY <1>1, <1>3, <1>4

\* What an eligible consideration of a constraint-aware gate writes.
LEMMA EligibleRecord ==
  ASSUME NEW p \in Policy, p.mode = "ConstraintAware", NEW a \in Activation,
         NEW t \in Nat, NEW passed \in BOOLEAN, Eligible(p, a, t)
  PROVE  LET b == Considered(p, a, t, passed)
         IN  /\ b.last_eligibility_time = t
             /\ b.consecutive_passes = PassesAfter(p, a, passed)
             /\ b.active <=> PassesAfter(p, a, passed) >= p.required
             /\ b.active => b.activation_time = t
  <1> DEFINE passes == PassesAfter(p, a, passed)
             counted == [a EXCEPT !.last_eligibility_time = t,
                                  !.consecutive_passes = passes]
  <1>1. Considered(p, a, t, passed) =
          IF passes >= p.required THEN Latched(counted, t) ELSE counted
    BY DEF Considered, Decided, Policy
  <1>2. ~a.active
    BY DEF Eligible
  <1> HIDE DEF passes
  <1>3. DOMAIN counted = DOMAIN a
    OBVIOUS
  <1>4. /\ counted.active = a.active
        /\ counted.activation_time = a.activation_time
    BY DEF Activation
  <1>5. /\ counted.last_eligibility_time = t
        /\ counted.consecutive_passes = passes
    BY DEF Activation
  <1>6. DOMAIN counted = {"active", "activation_time", "consecutive_passes",
                          "last_eligibility_time"}
    BY <1>3 DEF Activation
  <1> HIDE DEF counted
  <1>7. /\ Latched(counted, t).active
        /\ Latched(counted, t).activation_time = t
        /\ Latched(counted, t).last_eligibility_time = t
        /\ Latched(counted, t).consecutive_passes = passes
    BY <1>5, <1>6 DEF Latched
  <1> QED
    BY <1>1, <1>2, <1>4, <1>5, <1>7 DEF passes

\* A consideration at the time the state stands at leaves nothing unseen.
LEMMA ConsiderCounts ==
  ASSUME NEW p \in Policy, p.mode = "ConstraintAware", NEW a \in Activation,
         NEW t \in Nat, NEW passed \in BOOLEAN,
         NEW taken \in SUBSET Substeps, NEW seen \in SUBSET Evals,
         a.last_eligibility_time <= t,
         Counted(p, t, a, taken, seen),
         NEW b, b = Considered(p, a, t, passed),
         NEW now, now = IF Measures(p, a, t)
                        THEN seen \cup {[at |-> t, passed |-> passed]} ELSE seen
  PROVE  /\ Counted(p, t, b, taken, now)
         /\ Unseen(p, b, taken, now) = {}
  <1>1. /\ p.start \in Nat /\ p.required \in Nat \ {0}
        /\ a.last_eligibility_time \in Int /\ a.activation_time \in Int
        /\ a.consecutive_passes \in Nat /\ a.active \in BOOLEAN
    BY DEF Policy, Activation
  <1>2. \A e \in seen : e.at \in Nat
    BY DEF Evals
  <1>3. Accepted(taken) \subseteq Nat
    BY DEF Accepted, Substeps
  <1>4. CASE ~Eligible(p, a, t)
    <2>1. b = a /\ now = seen
      BY <1>4 DEF Considered, Measures
    <2>2. a.active \/ t < p.start \/ a.last_eligibility_time = t
      BY <1>1, <1>4 DEF Eligible
    <2>3. t \notin Unseen(p, a, taken, seen)
      <3>1. CASE a.active
        BY <3>1 DEF Counted
      <3>2. CASE t < p.start
        BY <1>1, <3>2 DEF Unseen
      <3>3. CASE a.last_eligibility_time = t
        <4>1. t # Never
          BY DEF Never
        <4>2. \E e \in seen : e.at = t
          BY <3>3, <4>1 DEF Counted
        <4> QED
          BY <4>2 DEF Unseen
      <3> QED
        BY <2>2, <3>1, <3>2, <3>3
    <2>4. Unseen(p, a, taken, seen) \subseteq {t}
      BY DEF Counted
    <2> QED
      BY <2>1, <2>3, <2>4
  <1>5. CASE Eligible(p, a, t)
    <2> DEFINE e == [at |-> t, passed |-> passed]
    <2>1. ~a.active /\ p.start <= t /\ a.last_eligibility_time < t
      BY <1>1, <1>5 DEF Eligible
    <2>2. now = seen \cup {e} /\ e \in Evals
      BY <1>5 DEF Measures, Evals
    <2>3. \A f \in seen : f.at < t
      BY <1>1, <1>2, <2>1 DEF Counted
    <2>4. /\ b.last_eligibility_time = t
          /\ b.consecutive_passes = PassesAfter(p, a, passed)
          /\ b.active <=> PassesAfter(p, a, passed) >= p.required
          /\ b.active => b.activation_time = t
      BY <1>5, EligibleRecord
    <2>5. /\ IsFiniteSet(now)
          /\ Cardinality(Trailing(now)) =
               IF passed THEN Cardinality(Trailing(seen)) + 1 ELSE 0
      <3>1. IsFiniteSet(seen) /\ seen \in SUBSET Evals
        BY DEF Counted
      <3>2. e.at = t /\ e.passed = passed
        OBVIOUS
      <3> HIDE DEF e
      <3>3. /\ IsFiniteSet(seen \cup {e})
            /\ Cardinality(Trailing(seen \cup {e})) =
                 IF e.passed THEN Cardinality(Trailing(seen)) + 1 ELSE 0
        <4>1. \A f \in seen : f.at < e.at
          BY <2>3, <3>2
        <4>2. e \in Evals
          BY <2>2
        <4> QED
          BY <3>1, <4>1, <4>2, TrailingAfter
      <3> QED
        BY <2>2, <3>2, <3>3
    <2>6. /\ a.consecutive_passes = Cardinality(Trailing(seen))
          /\ a.consecutive_passes < p.required
      BY <1>1, <2>1 DEF Counted
    <2>7. /\ b.consecutive_passes = Cardinality(Trailing(now))
          /\ b.consecutive_passes <= p.required
          /\ b.active <=> b.consecutive_passes = p.required
      BY <1>1, <2>4, <2>5, <2>6 DEF PassesAfter
    <2>8. e \in now /\ e.at = t
      BY <2>2
    <2>9. Unseen(p, b, taken, now) = {}
      <3>1. Unseen(p, b, taken, now) \subseteq Unseen(p, a, taken, seen)
        BY <2>1, <2>2 DEF Unseen
      <3>2. Unseen(p, a, taken, seen) \subseteq {t}
        BY DEF Counted
      <3>3. t \notin Unseen(p, b, taken, now)
        BY <2>8 DEF Unseen
      <3> QED
        BY <3>1, <3>2, <3>3
    <2>10. t \in Accepted(taken)
      BY DEF Counted
    <2>11. ASSUME NEW f \in now
           PROVE  /\ f.at <= t
                  /\ p.start <= f.at
                  /\ f.at \in Accepted(taken)
      BY <1>2, <2>1, <2>2, <2>3, <2>10 DEF Counted
    <2> QED
      BY <2>4, <2>5, <2>7, <2>8, <2>9, <2>10, <2>11 DEF Counted
  <1> QED
    BY <1>4, <1>5

\* A constraint-aware record starts open and with nothing counted.
LEMMA ResetCounted ==
  ASSUME NEW p \in Policy, p.mode = "ConstraintAware"
  PROVE  Counted(p, 0, ResetActivation(p), {}, {})
  <1>1. /\ ResetActivation(p) = Fresh /\ ~Fresh.active
        /\ Fresh.consecutive_passes = 0 /\ Fresh.last_eligibility_time = Never
    BY DEF ResetActivation, Fresh
  <1>2. p.required \in Nat \ {0}
    BY DEF Policy
  <1>3. Trailing({}) = {} /\ Accepted({}) = {0}
    BY DEF Trailing, Accepted
  <1>4. Unseen(p, Fresh, {}, {}) \subseteq {0}
    BY <1>3 DEF Unseen
  <1> QED
    BY <1>1, <1>2, <1>3, <1>4, FS_EmptySet DEF Counted

\* What the step's own invariant says about the numbers compared here.
LEMMA CountTypes ==
  ASSUME IndInv
  PROVE  /\ policy \in Policy /\ policy.start \in Nat
         /\ activation \in Activation /\ time \in Nat
         /\ substeps \in SUBSET Substeps /\ evals \in SUBSET Evals
         /\ activation.last_eligibility_time <= time
         /\ activation.active \in BOOLEAN
         /\ activation.active => /\ activation.activation_time \in Nat
                                 /\ activation.activation_time <= time
  BY PolicyType DEF IndInv, TypeOK, GateInv, Explained, Activation

\* Considering the state at hand, or leaving alone a gate that has closed or is
\* not due: no state is left without its verdict.
LEMMA GateStepCounts ==
  ASSUME IndInv, CountInv, policy.mode = "ConstraintAware",
         \/ Consider(time)
         \/ UNCHANGED gate /\ (activation.active \/ ~(time >= policy.start))
  PROVE  /\ Counted(policy, time, activation', substeps, evals')
         /\ Unseen(policy, activation', substeps, evals') = {}
  <1>1. Counted(policy, time, activation, substeps, evals)
    BY DEF CountInv
  <1>2. CASE Consider(time)
    <2>1. PICK passed \in BOOLEAN :
            /\ activation' = Considered(policy, activation, time, passed)
            /\ IF Measures(policy, activation, time)
               THEN evals' = evals \cup {[at |-> time, passed |-> passed]}
               ELSE UNCHANGED evals
      BY <1>2 DEF Consider
    <2>2. evals' = IF Measures(policy, activation, time)
                   THEN evals \cup {[at |-> time, passed |-> passed]} ELSE evals
      BY <2>1
    <2> DEFINE b == Considered(policy, activation, time, passed)
               now == IF Measures(policy, activation, time)
                      THEN evals \cup {[at |-> time, passed |-> passed]} ELSE evals
    <2>3. Counted(policy, time, b, substeps, now) /\ Unseen(policy, b, substeps, now) = {}
      BY <1>1, CountTypes, ConsiderCounts, ZenonT(60)
    <2>4. activation' = b /\ evals' = now
      BY <2>1, <2>2
    <2> HIDE DEF b, now
    <2> QED
      BY <2>3, <2>4
  <1>3. CASE UNCHANGED gate /\ (activation.active \/ ~(time >= policy.start))
    <2>1. activation' = activation /\ evals' = evals
      BY <1>3 DEF gate
    <2>2. Unseen(policy, activation, substeps, evals) \subseteq {time}
      BY <1>1 DEF Counted
    <2>3. CASE activation.active
      BY <1>1, <2>1, <2>3 DEF Counted
    <2>4. CASE ~(time >= policy.start)
      <3>1. time \notin Unseen(policy, activation, substeps, evals)
        BY <2>4, CountTypes DEF Unseen
      <3> QED
        BY <1>1, <2>1, <2>2, <3>1
    <2> QED
      BY <1>3, <2>3, <2>4
  <1> QED
    BY <1>2, <1>3

\* A substep adds one accepted state, later than every verdict and than a latch.
LEMMA LastStageCounts ==
  ASSUME IndInv, CountInv, policy.mode = "ConstraintAware", LastStage
  PROVE  Counted(policy, time', activation', substeps', evals')
  <1>1. /\ Counted(policy, time, activation, substeps, evals)
        /\ Unseen(policy, activation, substeps, evals) = {}
    BY DEF CountInv, Waiting, LastStage
  <1> DEFINE new == [from |-> time, to |-> target, forced |-> activation.active]
  <1>2. substeps' = substeps \cup {new} /\ new.to = target
    BY LastStageRecords
  <1> HIDE DEF new
  <1>3. /\ time' = target /\ time < target /\ target \in Nat
        /\ activation' = activation /\ evals' = evals
    BY DEF LastStage, gate, IndInv, ControlInv, StagesInv, TypeOK
  <1>4. Accepted(substeps') = Accepted(substeps) \cup {target}
    BY <1>2 DEF Accepted
  <1>5. Unseen(policy, activation, substeps', evals) \subseteq {target}
    BY <1>1, <1>4 DEF Unseen
  <1>6. ASSUME activation.active
        PROVE  Unseen(policy, activation, substeps', evals) = {}
    <2>1. ~(target <= activation.activation_time)
      BY <1>3, <1>6, CountTypes
    <2> QED
      BY <1>5, <1>6, <2>1 DEF Unseen
  <1> QED
    BY <1>1, <1>3, <1>4, <1>5, <1>6 DEF Counted

LEMMA InitCounts == Init => CountInv
  BY ResetCounted, PipelineAssumption DEF Init, CountInv, Waiting

\* The counting invariant is kept by every step of a pipeline in its inductive
\* invariant.
LEMMA NextCounts ==
  ASSUME IndInv, CountInv, [Next]_vars
  PROVE  CountInv'
  <1> SUFFICES ASSUME policy'.mode = "ConstraintAware" PROVE CountInv'
    BY DEF CountInv
  <1> USE DEF CountInv
  <1>1. CASE UNCHANGED vars
    BY <1>1 DEF vars, gate, control, Waiting
  <1>2. CASE \E dt \in TimeSteps : BeginStep(dt)
    BY <1>2 DEF BeginStep, gate, Waiting
  <1>3. CASE EnterStep
    <2>1. UNCHANGED <<policy, time, substeps, saved>>
      BY <1>3 DEF EnterStep
    <2>2. \/ Consider(time)
          \/ UNCHANGED gate /\ (activation.active \/ ~(time >= policy.start))
      BY <1>3 DEF EnterStep
    <2> QED
      BY <2>1, <2>2, GateStepCounts
  <1>4. CASE EarlyStage
    BY <1>4 DEF EarlyStage, gate, Waiting
  <1>5. CASE LastStage
    <2>1. UNCHANGED <<policy, saved>> /\ Waiting'
      BY <1>5 DEF LastStage, Waiting
    <2> QED
      BY <1>5, <2>1, LastStageCounts
  <1>6. CASE ReachStart
    <2>1. UNCHANGED <<policy, time, substeps, saved>> /\ Consider(time)
      BY <1>6 DEF ReachStart
    <2> QED
      BY <2>1, GateStepCounts
  <1>7. CASE EndStep
    <2>1. UNCHANGED <<policy, time, substeps, saved>>
      BY <1>7 DEF EndStep
    <2>2. stepEnd = time
      BY <1>7 DEF EndStep, IndInv, ControlInv
    <2>3. \/ Consider(time)
          \/ UNCHANGED gate /\ (activation.active \/ ~(time >= policy.start))
      BY <1>7, <2>2 DEF EndStep
    <2> QED
      BY <2>1, <2>3, GateStepCounts
  <1>8. CASE Probe
    <2>1. UNCHANGED <<policy, time, substeps, saved>> /\ Consider(time)
      BY <1>8 DEF Probe
    <2> QED
      BY <2>1, GateStepCounts
  <1>9. CASE Initialize
    <2>1. /\ UNCHANGED <<policy, pc, saved>> /\ pc = "idle"
          /\ activation' = ResetActivation(policy)
          /\ time' = 0 /\ substeps' = {} /\ evals' = {}
      BY <1>9 DEF Initialize, control
    <2>2. policy \in Policy
      BY CountTypes
    <2>3. Counted(policy, time, activation, substeps, evals)'
      BY <2>1, <2>2, ResetCounted
    <2> QED
      BY <2>1, <2>3 DEF Waiting
  <1>10. CASE Checkpoint
    <2>1. /\ UNCHANGED <<policy, activation, evals, time, pc, substeps>>
          /\ saved' = {Capture} /\ pc = "idle"
      BY <1>10 DEF Checkpoint, gate, control
    <2> QED
      BY <2>1 DEF Waiting, Capture
  <1>11. CASE Restore
    <2>1. PICK c \in saved :
            /\ activation' = c.activation /\ time' = c.time
            /\ substeps' = c.substeps /\ evals' = c.evals
      BY <1>11 DEF Restore
    <2>2. UNCHANGED <<policy, pc, saved>> /\ pc = "idle"
      BY <1>11 DEF Restore, control
    <2> QED
      BY <2>1, <2>2 DEF Waiting
  <1> QED
    BY <1>1, <1>2, <1>3, <1>4, <1>5, <1>6, <1>7, <1>8, <1>9, <1>10, <1>11
    DEF Next, StepAction

\* For every policy, and through splits, probes, new data and restores: the
\* constraint-aware gate has one verdict for each accepted state that was due,
\* its counter is the unbroken run of passes, and it closes at that run's length.
THEOREM GateCounts == Spec => []GateCountsAcceptedStates
  <1>1. IndInv /\ CountInv /\ [Next]_vars => CountInv'
    BY NextCounts
  <1>2. CountInv => GateCountsAcceptedStates
    <2> SUFFICES ASSUME CountInv, policy.mode = "ConstraintAware",
                        pc \in {"idle", "stages"}
                 PROVE  /\ activation.consecutive_passes =
                             Cardinality(TrailingPasses)
                        /\ activation.active <=>
                             Cardinality(TrailingPasses) = policy.required
                        /\ substeps # {} =>
                             {e.at : e \in evals} =
                               {t \in AcceptedTimes :
                                  /\ policy.start <= t
                                  /\ activation.active =>
                                       t <= activation.activation_time}
      BY DEF GateCountsAcceptedStates
    <2>1. Trailing(evals) = TrailingPasses /\ AcceptedTimes = Accepted(substeps)
      BY DEF Trailing, TrailingPasses, AcceptedTimes, Accepted
    <2>2. Counted(policy, time, activation, substeps, evals)
      BY DEF CountInv
    <2>3. substeps # {} => Unseen(policy, activation, substeps, evals) = {}
      BY DEF CountInv, Waiting
    <2>4. ASSUME substeps # {}, NEW t \in Accepted(substeps), policy.start <= t,
                 activation.active => t <= activation.activation_time
          PROVE  \E e \in evals : e.at = t
      BY <2>3, <2>4 DEF Unseen
    <2>5. ASSUME NEW e \in evals
          PROVE  /\ e.at \in Accepted(substeps) /\ policy.start <= e.at
                 /\ activation.active => e.at <= activation.activation_time
      BY <2>2 DEF Counted
    <2> QED
      BY <2>1, <2>2, <2>4, <2>5 DEF Counted
  <1> QED
    BY <1>1, <1>2, InitCounts, Inductive, PTL DEF Spec

-----------------------------------------------------------------------------
(* The refinement *)

\* In terms of the latch a consideration is nothing, or the closing of it.
LEMMA ConsiderIsClose ==
  ASSUME IndInv, Consider(time), policy' = policy, time' = time
  PROVE  \/ LatchOf(activation') = LatchOf(activation)
         \/ /\ LatchOf(activation) = Never
            /\ policy.start <= time
            /\ LatchOf(activation') = time
  <1>1. PICK passed \in BOOLEAN :
          activation' = Considered(policy, activation, time, passed)
    BY DEF Consider
  <1>2. policy \in Policy /\ activation \in Activation /\ time \in Nat
    BY PolicyType DEF IndInv, TypeOK
  <1>3. /\ activation.active => activation' = activation
        /\ ~activation.active /\ activation'.active =>
             activation'.activation_time = time /\ policy.start <= time
    BY <1>1, <1>2, ConsideredRecord
  <1> QED
    BY <1>3 DEF LatchOf

LEMMA InitImplements == Init => Latch!LatchInit
  <1> SUFFICES ASSUME Init PROVE Latch!LatchInit
    OBVIOUS
  <1>1. policy \in Policy /\ policy.start \in Nat
    BY PipelineAssumption DEF Init, Policy
  <1>2. /\ time = 0 /\ substeps = {} /\ saved = {}
        /\ activation = ResetActivation(policy)
    BY DEF Init
  <1>3. LatchOf(activation) \in IF policy.start = 0 THEN {Never, 0} ELSE {Never}
    <2>1. Explained(policy, 0, activation, {}) /\ activation \in Activation
      BY <1>1, <1>2, ResetRecord
    <2> QED
      BY <1>1, <2>1 DEF Explained, LatchOf, Activation, Never
  <1> QED
    BY <1>1, <1>2, <1>3 DEF Latch!LatchInit, Latch!OpenOrClosedAtOnce

LEMMA NextImplements ==
  ASSUME IndInv, Next
  PROVE  [Latch!LatchNext]_(Latch!latchVars)
  <1> DEFINE pub == {[frontier |-> c.time, latch |-> LatchOf(c.activation),
                      history |-> c.substeps] : c \in saved}
  <1>1. /\ policy \in Policy /\ policy.start \in Nat
        /\ time \in Nat /\ target \in Nat /\ activation \in Activation
    BY PolicyType DEF IndInv, TypeOK
  <1>2. policy' = policy
    BY DEF Next, StepAction, BeginStep, EnterStep, EarlyStage, LastStage,
           ReachStart, EndStep, Probe, Initialize, Checkpoint, Restore
  <1>3. CASE /\ UNCHANGED <<time, substeps, saved>>
             /\ Consider(time) \/ UNCHANGED activation
    <2>1. pub' = pub
      BY <1>3
    <2>2. CASE LatchOf(activation') = LatchOf(activation)
      BY <1>2, <1>3, <2>1, <2>2 DEF Latch!latchVars
    <2>3. CASE /\ LatchOf(activation) = Never /\ policy.start <= time
               /\ LatchOf(activation') = time
      BY <1>1, <1>2, <1>3, <2>1, <2>3 DEF Latch!LatchNext, Latch!Close
    <2> QED
      BY <1>2, <1>3, <2>2, <2>3, ConsiderIsClose
  <1>4. CASE LastStage
    <2>1. /\ substeps' = substeps \cup {[from |-> time, to |-> target,
                                         forced |-> activation.active]}
          /\ time' = target /\ UNCHANGED <<activation, saved>>
      BY <1>4, LastStageRecords DEF LastStage, gate
    <2>2. /\ time < target
          /\ ~(time < policy.start /\ policy.start < target)
      BY <1>4 DEF LastStage, IndInv, ControlInv, StagesInv
    <2>3. activation.active = (LatchOf(activation) # Never)
      <3>1. activation.active \in BOOLEAN
        BY <1>1 DEF Activation
      <3>2. activation.active => activation.activation_time \in Nat
        BY DEF IndInv, GateInv, Explained
      <3>3. activation.active => activation.activation_time # Never
        BY <3>2 DEF Never
      <3> QED
        BY <3>1, <3>3 DEF LatchOf
    <2>4. pub' = pub
      BY <2>1
    <2> QED
      BY <1>1, <1>2, <2>1, <2>2, <2>3, <2>4 DEF Latch!LatchNext, Latch!Substep
  <1>5. CASE Initialize
    <2>1. /\ time' = 0 /\ substeps' = {} /\ saved' = saved
          /\ activation' = ResetActivation(policy)
      BY <1>5 DEF Initialize
    <2>2. LatchOf(activation') \in
            IF policy.start = 0 THEN {Never, 0} ELSE {Never}
      <3>1. /\ Explained(policy, 0, activation', {})
            /\ activation' \in Activation
        BY <1>1, <2>1, ResetRecord
      <3> QED
        BY <1>1, <3>1 DEF Explained, LatchOf, Activation, Never
    <2>3. pub' = pub
      BY <2>1
    <2> QED
      BY <1>2, <2>1, <2>2, <2>3
      DEF Latch!LatchNext, Latch!StartOver, Latch!OpenOrClosedAtOnce
  <1>6. CASE Checkpoint
    <2>1. saved' = {Capture} /\ UNCHANGED <<activation, time, substeps>>
      BY <1>6 DEF Checkpoint, gate
    <2>2. pub' = {[frontier |-> time, latch |-> LatchOf(activation),
                   history |-> substeps]}
      BY <2>1 DEF Capture
    <2> QED
      BY <1>2, <2>1, <2>2 DEF Latch!LatchNext, Latch!Publish, Latch!Solution
  <1>7. CASE Restore
    <2>1. PICK c \in saved : /\ activation' = c.activation
                             /\ time' = c.time
                             /\ substeps' = c.substeps
      BY <1>7 DEF Restore
    <2>2. saved' = saved
      BY <1>7 DEF Restore
    <2> DEFINE s == [frontier |-> c.time, latch |-> LatchOf(c.activation),
                     history |-> c.substeps]
    <2>3. s \in pub /\ pub' = pub
      BY <2>2
    <2>4. /\ time' = s.frontier /\ LatchOf(activation') = s.latch
          /\ substeps' = s.history
      BY <2>1
    <2> QED
      BY <1>2, <2>3, <2>4 DEF Latch!LatchNext, Latch!Return
  <1>8. CASE \/ \E dt \in TimeSteps : BeginStep(dt)
             \/ EnterStep \/ EarlyStage \/ ReachStart \/ EndStep \/ Probe
    <2>1. UNCHANGED <<time, substeps, saved>>
      BY <1>8 DEF BeginStep, EnterStep, EarlyStage, ReachStart, EndStep, Probe
    <2>2. Consider(time) \/ UNCHANGED activation
      <3>1. EndStep => stepEnd = time
        BY DEF EndStep, IndInv, ControlInv
      <3> QED
        BY <1>8, <3>1
        DEF BeginStep, EnterStep, EarlyStage, ReachStart, EndStep, Probe, gate
    <2> QED
      BY <1>3, <2>1, <2>2
  <1> QED
    BY <1>4, <1>5, <1>6, <1>7, <1>8 DEF Next, StepAction

\* The Runge-Kutta driver with its split steps, probes and restores implements
\* the one-way latch of ActivationLatch.
THEOREM Refinement == Spec => ImplementsLatch
  <1>1. IndInv /\ [Next]_vars => [Latch!LatchNext]_(Latch!latchVars)
    <2>1. CASE UNCHANGED vars
      BY <2>1 DEF vars, gate, control, Latch!latchVars
    <2> QED
      BY <2>1, NextImplements
  <1> QED
    BY <1>1, InitImplements, Inductive, PTL
    DEF Spec, ImplementsLatch, Latch!LatchSpec

=============================================================================
