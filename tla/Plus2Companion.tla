---------------------------- MODULE Plus2Companion ----------------------------
(***************************************************************************)
(* The passive spin +2 companion: Plus2CompanionPipeline and the           *)
(* Plus2ReplayOrchestrator it owns (include/teuk/plus2_companion_pipeline. *)
(* hpp, plus2_replay.hpp), with the file its checkpoints are written to    *)
(* (plus2_checkpoint.hpp).                                                 *)
(*                                                                         *)
(* A companion is advanced beside a primary state: one the caller owns     *)
(* (Concurrent) or a copy of its own (Replay).  It guards its provenance:  *)
(* the primary checkpoint it is paired with, the source that drives it,    *)
(* its time step and, once restored, its time.                             *)
(*                                                                         *)
(* A primary state is the run it belongs to and its time.  The receipt of  *)
(* a verified primary checkpoint names both, so that a receipt is a        *)
(* primary state here; the primary run has written one at every time.  A   *)
(* companion is the primary state it stands beside and what it was driven  *)
(* by since it was created or restored.  Left out: the views a caller may  *)
(* write to directly, orchestrator(), and the remaining configuration.     *)
(***************************************************************************)
EXTENDS Integers, FiniteSets

CONSTANTS
  Modes,           \* run modes, of Concurrent and Replay
  Origins,         \* primary runs
  Sources,         \* bound source adapters, by their authority
  Steps,           \* time steps a caller may ask for
  ConfiguredSteps, \* configured time steps, 0 for one to be resolved
  Paths,           \* companion checkpoint files
  None,            \* nothing
  Raw,             \* a callback without authority
  Mixed,           \* no single primary run
  MaxTime,         \* bound on the time (model checking)
  MaxRestarts,     \* bound on the processes (model checking)
  MaxForeign       \* bound on the files other programs write (model checking)

ASSUME CompanionAssumption ==
  /\ Modes \subseteq {"Concurrent", "Replay"}
  /\ Steps \subseteq Nat \ {0} /\ ConfiguredSteps \subseteq Steps \cup {0}
  /\ MaxTime \in Nat /\ MaxRestarts \in Nat /\ MaxForeign \in Nat
  /\ None \notin Sources /\ Raw \notin Sources /\ Mixed \notin Origins
  /\ Raw # None

\* Times are counted in units both time steps are multiples of.
Times   == 0 .. MaxTime
Primary == [origin: Origins, time: Times]
Beside  == [origin: Origins \cup {Mixed}, time: Times]

ASSUME NoneAssumption == None \notin Beside

VARIABLES
  mode, policy,  \* configuration_.mode and initial_policy
  stored,        \* the file configuration_.checkpoint names, or None
  timeStep,      \* configuration_.time_step, 0 before it is resolved
  initialized,   \* companion_initialized_
  at,            \* the primary state the companion stands beside; None: zero
  drivers,       \* what has driven it since it was created or restored
  taken,         \* the lengths of the steps it has taken since
  primary,       \* the primary state, None in a replay without one
  latch,         \* restored_accepted_time_, or None
  receipt,       \* primary_receipt_, or None
  history,       \* source_history_
  identity,      \* source_identity_
  files,         \* the companion checkpoints on disk
  saving,        \* the checkpoint being written, or None
  restarts, foreign

configuration == <<mode, policy, stored, timeStep>>
companion     == <<initialized, at, drivers, taken, latch>>
provenance    == <<receipt, history, identity>>
disk          == <<files, saving, foreign>>
companionVars == <<configuration, companion, primary, provenance, disk, restarts>>

\* A file: the paired primary checkpoint, the time step and the companion, and
\* the source that vouched for it.
File == [receipt: Primary, step: Steps, at: Beside \cup {None},
         drivers: SUBSET (Sources \cup {Raw}), authority: Sources]

\* A pipeline is constructed, and the caller has a primary state.
Construct ==
  /\ initialized' = FALSE /\ at' = None /\ drivers' = {} /\ taken' = {}
  /\ latch' = None /\ receipt' = None
  /\ history' = "Unbound" /\ identity' = None
  /\ mode' \in Modes
  /\ timeStep' \in ConfiguredSteps
  /\ primary' \in IF mode' = "Concurrent" THEN Primary ELSE {None}

CompanionInit ==
  /\ mode \in Modes /\ policy = "Zero" /\ stored = None
  /\ timeStep \in ConfiguredSteps
  /\ initialized = FALSE /\ at = None /\ drivers = {} /\ taken = {}
  /\ primary \in IF mode = "Concurrent" THEN Primary ELSE {None}
  /\ latch = None /\ receipt = None
  /\ history = "Unbound" /\ identity = None
  /\ files = [f \in Paths |-> None]
  /\ saving = None /\ restarts = 0 /\ foreign = 0

-----------------------------------------------------------------------------
(* What the pipeline requires *)

\* Fault: a validation-only trajectory is not remembered.
FaultSourceCompatible(s) == history = "Qualified" => identity = s

\* require_source_history_compatible, require_checkpoint_source_authority
SourceCompatible(s) ==
  /\ history # "ValidationOnly"
  /\ history = "Qualified" => identity = s

RecordQualified(s) == history' = "Qualified" /\ identity' = s

RecordValidationOnly == history' = "ValidationOnly" /\ identity' = None

\* Fault: a restore into a concurrent run does not look at its primary state.
FaultStateMatches(r) == TRUE

\* require_primary_state_matches_receipt: a concurrent run restores beside the
\* primary state it already has, a replay copies the one it is given.
StateMatches(r) == mode = "Concurrent" => primary = r

\* require_primary_receipt_compatible
ReceiptCompatible(r) == receipt \in {None, r}

\* A restored companion continues at its own time.
TimeAccepted(t) == latch \in {None, t}

\* configuration_.time_step after a step of this length was asked for.
Bound(dt) == IF timeStep = 0 THEN dt ELSE timeStep

-----------------------------------------------------------------------------
(* Initialization *)

InitializeZero ==
  /\ saving = None /\ policy = "Zero"
  /\ initialized' = TRUE /\ at' = None /\ drivers' = {} /\ taken' = {}
  /\ UNCHANGED <<configuration, latch, primary, provenance, disk, restarts>>

\* What the file says is what this run expects.
LoadAccepted(r) == timeStep > 0 /\ stored.receipt = r /\ stored.step = timeStep

\* The companion of the file replaces the one at hand.
Loaded(r) ==
  /\ initialized' = TRUE /\ at' = stored.at /\ drivers' = {} /\ taken' = {}
  /\ latch' = r.time

\* The caller supplies its primary state, or the one to be replayed.  Every
\* check comes before the first change.
InitializeCheckpoint(r, s) ==
  /\ saving = None /\ policy = "Checkpoint"
  /\ SourceCompatible(s)
  /\ StateMatches(r)
  /\ ReceiptCompatible(r)
  /\ LoadAccepted(r)
  /\ Loaded(r)
  /\ primary' = IF mode = "Replay" THEN r ELSE primary
  /\ receipt' = r
  /\ RecordQualified(s)
  /\ UNCHANGED <<configuration, disk, restarts>>

InitializeReplayPrimary(r) ==
  /\ saving = None /\ mode = "Replay"
  /\ ReceiptCompatible(r)
  /\ primary' = r
  /\ receipt' = r
  /\ UNCHANGED <<configuration, companion, history, identity, disk, restarts>>

InitializeReplayPrimaryValidationOnly(p) ==
  /\ saving = None /\ mode = "Replay" /\ policy # "Checkpoint"
  /\ primary' = p
  /\ UNCHANGED <<configuration, companion, provenance, disk, restarts>>

\* The caller of a concurrent pipeline takes another primary state before the
\* companion is initialized.
ReplacePrimary(p) ==
  /\ saving = None /\ mode = "Concurrent" /\ ~initialized
  /\ primary' = p
  /\ UNCHANGED <<configuration, companion, provenance, disk, restarts>>

-----------------------------------------------------------------------------
(* advance_concurrent, advance_replay *)

\* The checks of Plus2ReplayOrchestrator::advance.
StepAccepted(t, dt) ==
  /\ initialized /\ primary # None
  /\ TimeAccepted(t)
  /\ Bound(dt) = dt

\* After the last stage both states are accumulated.
Accumulate(dt, by) ==
  /\ primary' = [primary EXCEPT !.time = @ + dt]
  /\ at' = IF at \in {None, primary} THEN primary'
           ELSE [origin |-> Mixed, time |-> at.time + dt]
  /\ drivers' = drivers \cup {by} /\ taken' = taken \cup {dt}

Continued(t, dt) == IF latch = None THEN None ELSE t + dt

\* Fault: the restored time moves on before the stages are evaluated.
FaultStages(t, dt, by, thrown) ==
  /\ timeStep' = Bound(dt)
  /\ latch' = Continued(t, dt)
  /\ IF thrown THEN UNCHANGED <<at, drivers, taken, primary>>
     ELSE Accumulate(dt, by)

\* The four common stages: both states and the restored time move on after the
\* last of them; or a right-hand side throws, and all are as before.  The step
\* length was bound before the stages.
Stages(t, dt, by, thrown) ==
  /\ timeStep' = Bound(dt)
  /\ IF thrown THEN UNCHANGED <<at, drivers, taken, primary, latch>>
     ELSE Accumulate(dt, by) /\ latch' = Continued(t, dt)

InRange(t, dt) ==
  /\ t + dt <= MaxTime
  /\ primary # None => primary.time + dt <= MaxTime
  /\ at # None => at.time + dt <= MaxTime

\* With a bound source adapter.  The history is recorded as each stage ends, so
\* that a step that fails after the first has left its mark.
Advance(t, dt, s) ==
  /\ saving = None /\ InRange(t, dt)
  /\ SourceCompatible(s)
  /\ StepAccepted(t, dt)
  /\ \E thrown \in BOOLEAN :
       /\ Stages(t, dt, s, thrown)
       /\ \/ RecordQualified(s)
          \/ thrown /\ UNCHANGED <<history, identity>>
  /\ UNCHANGED <<mode, policy, stored, initialized, receipt, disk, restarts>>

\* With a raw callback.  The history is spoilt first, also by a call that is
\* then refused.
AdvanceValidationOnly(t, dt) ==
  /\ saving = None /\ InRange(t, dt)
  /\ RecordValidationOnly
  /\ IF StepAccepted(t, dt)
     THEN \E thrown \in BOOLEAN : Stages(t, dt, Raw, thrown)
     ELSE UNCHANGED <<timeStep, at, drivers, taken, primary, latch>>
  /\ UNCHANGED <<mode, policy, stored, initialized, receipt, disk, restarts>>

\* A coordinator evaluates one common stage on its own.
EvaluateStage(s) ==
  /\ saving = None /\ initialized
  /\ SourceCompatible(s)
  /\ RecordQualified(s)
  /\ UNCHANGED <<configuration, companion, primary, receipt, disk, restarts>>

EvaluateStageValidationOnly ==
  /\ saving = None
  /\ RecordValidationOnly
  /\ UNCHANGED <<configuration, companion, primary, receipt, disk, restarts>>

-----------------------------------------------------------------------------
(* save_checkpoint *)

\* Its checks: on the source, on the primary state the caller hands over, which
\* is the one the companion runs beside, and on the step.
SaveAccepted(r, s) ==
  /\ SourceCompatible(s)
  /\ initialized
  /\ primary = r
  /\ ReceiptCompatible(r)
  /\ timeStep > 0 /\ r.time % timeStep = 0

BeginSave(f, r, s) ==
  /\ saving = None
  /\ SaveAccepted(r, s)
  /\ files[f] = None
  /\ saving' = [path |-> f,
                file |-> [receipt |-> r, step |-> timeStep, at |-> at,
                          drivers |-> drivers, authority |-> s]]
  /\ UNCHANGED <<configuration, companion, primary, provenance,
                 files, foreign, restarts>>

\* The temporary file is renamed over the target, whatever is there by now; or
\* writing fails, and it is removed.
FinishSave ==
  /\ saving # None
  /\ files' \in {files, [files EXCEPT ![saving.path] = saving.file]}
  /\ saving' = None
  /\ UNCHANGED <<configuration, companion, primary, provenance, foreign, restarts>>

\* Another program publishes a checkpoint of its own.
ForeignSave(f) ==
  /\ files[f] = None /\ foreign < MaxForeign
  /\ \E r \in Primary, d \in Steps, s \in Sources :
       files' = [files EXCEPT ![f] =
         [receipt |-> r, step |-> d, at |-> r, drivers |-> {s}, authority |-> s]]
  /\ foreign' = foreign + 1
  /\ UNCHANGED <<configuration, companion, primary, provenance, saving, restarts>>

\* The process ends, in the middle of a save or not, and another one begins,
\* from nothing or from a checkpoint.
Restart ==
  /\ restarts < MaxRestarts
  /\ restarts' = restarts + 1
  /\ Construct
  /\ saving' = None
  /\ \/ policy' = "Zero" /\ stored' = None
     \/ /\ policy' = "Checkpoint"
        /\ stored' \in {files[f] : f \in Paths} \ {None}
  /\ UNCHANGED <<files, foreign>>

CompanionNext ==
  \/ InitializeZero
  \/ \E r \in Primary, s \in Sources : InitializeCheckpoint(r, s)
  \/ \E r \in Primary : InitializeReplayPrimary(r)
  \/ \E p \in Primary : InitializeReplayPrimaryValidationOnly(p)
  \/ \E p \in Primary : ReplacePrimary(p)
  \/ \E t \in Times, dt \in Steps, s \in Sources : Advance(t, dt, s)
  \/ \E t \in Times, dt \in Steps : AdvanceValidationOnly(t, dt)
  \/ \E s \in Sources : EvaluateStage(s)
  \/ EvaluateStageValidationOnly
  \/ \E f \in Paths, r \in Primary, s \in Sources : BeginSave(f, r, s)
  \/ FinishSave
  \/ \E f \in Paths : ForeignSave(f)
  \/ Restart

CompanionSpec == CompanionInit /\ [][CompanionNext]_companionVars

-----------------------------------------------------------------------------
(* Properties *)

\* The types of the variables.
CompanionTypeOK ==
  /\ mode \in Modes /\ policy \in {"Zero", "Checkpoint"}
  /\ stored \in File \cup {None}
  /\ policy = "Checkpoint" => stored # None
  /\ timeStep \in Steps \cup {0}
  /\ initialized \in BOOLEAN
  /\ at \in Beside \cup {None}
  /\ drivers \subseteq Sources \cup {Raw}
  /\ taken \subseteq Steps
  /\ primary \in Primary \cup {None}
  /\ latch \in Times \cup {None}
  /\ receipt \in Primary \cup {None}
  /\ history \in {"Unbound", "Qualified", "ValidationOnly"}
  /\ identity \in Sources \cup {None}
  /\ files \in [Paths -> File \cup {None}]
  /\ saving \in [path: Paths, file: File] \cup {None}

\* A saved companion stands beside the primary state of its receipt, or is zero.
Paired(file) == file.at # None => file.at = file.receipt

\* "Replay initialized from a checkpoint is latched to the restored accepted
\* time": the latch of a companion restored from a paired checkpoint is the time
\* the companion is at, through steps that succeed, steps that throw in any of
\* their stages, repeated restores and a primary state loaded once more.
LatchIsCompanionTime ==
  latch # None /\ at # None /\ Paired(stored) => latch = at.time

\* A checkpoint is vouched for by the one source that drove the companion in
\* the process that saved it: no other bound source, and no raw callback, took
\* part in any step, in whatever order they were called, refused or failed.
SavedByOneAuthority ==
  \A f \in Paths :
    files[f] # None => files[f].drivers \subseteq {files[f].authority}

\* A companion takes steps of one length only, the one in its checkpoints.
OneStepLength ==
  taken \subseteq {timeStep}

\* "primary and companion checkpoints must describe the same progress": a saved
\* companion stands beside the primary state of its receipt.
SavedIsPaired ==
  \A f \in Paths : files[f] # None => Paired(files[f])

\* The same of the companion of a concurrent run, at every moment: restored from
\* a paired checkpoint or created as zero, it stands beside the primary state the
\* caller owns, which is replaced before the companion is initialized only.
ConcurrentStaysPaired ==
  /\ mode = "Concurrent" /\ initialized /\ at # None
  /\ policy = "Checkpoint" => Paired(stored)
  => at = primary

\* "Checkpoint targets must be new paths, preventing an implicit overwrite."
SavedIsNeverOverwritten ==
  [][\A f \in Paths : files[f] # None => files'[f] = files[f]]_companionVars
=============================================================================
