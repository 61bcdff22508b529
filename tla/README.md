# A verification development for teuk-kokkos

This directory holds TLA+ models of the control logic of teuk-kokkos, TLC runs
that check them on small instances, and proofs of their main properties for all
values of their parameters. It is meant to be read beside the code: every
definition names the lines it stands for in `PROJECT.json` (`map`).

Contents: 1 the system, 2 the modules, 3 the runs, 4 the proofs, 5 what was
found, 6 what is not modelled, 7 the plan.

## 1. The system

teuk-kokkos evolves first- and second-order perturbations of a Kerr black hole
in the time domain: fields on radial and angular grids, advanced by classical
fourth-order Runge-Kutta on top of Kokkos. Most of its lines are floating-point
kernels. Around them is control logic with state that lives for the length of a
run, or longer, on disk. That logic is where this development looks.

| Component | State it keeps | Operations | Talks to |
|---|---|---|---|
| Source gate and stepper (`spatial_pipeline.hpp`, `source_activation.hpp`, `device_rk4.hpp`) | 13 evolved fields; the activation record (active, activation time, consecutive passes, last time considered); its device copy; the flags of the last step's stages | `step` (one or two substeps of four stages), `evaluate_source_activation_on_accepted_state`, `reset_source_activation`, `restore_source_activation` | called by the run loop, by initial data, by the checkpoint codec |
| Off-band gate (`pipeline_bands.hpp`) | none (a report) | `measure_pipeline_state_off_band`, `pipeline_state_is_bandlimited`, `import_pipeline_state` | called by the loader and by importers of states |
| Primary checkpoint (`pipeline_checkpoint.hpp`, `checkpoint_identity.hpp`) | directories of `metadata.txt` and `state.bin`; temporary siblings | `write_pipeline_checkpoint`, `load_pipeline_checkpoint_verified` | captures and overwrites a pipeline; shared file system |
| Run (`solver_driver.hpp`, `initial_data_factory.hpp`, `src/main.cpp`) | step, time, CSV files, checkpoints | `run_solver` | all of the above |
| Spin +2 companion (`plus2_companion_pipeline.hpp`, `plus2_replay.hpp`, `plus2_checkpoint.hpp`) | companion state, primary receipt, source history, time step, restored time | create, restore, advance (concurrent or replay, with a bound source or a raw callback), single stages, save | a primary state of the caller or its own copy; primary receipts; its own files |
| Spin +2 live source composition (`plus2_live_source_composition.hpp` with its producers `plus2_routeb_curvature_spatial.hpp`, `plus2_source_primitive_spatial.hpp`, `plus2_source_value_spatial.hpp`, `plus2_source_outer_spatial.hpp`, `plus2_linear_spatial.hpp`) | the last generation of the composition and of two producers; buffers with the stamps of the generation that wrote them; a readiness bit for each mode and point | evaluate a stage from levels of the Route-B tower, or from a reconstruction and transported curvature | companion, Route-B tower, Bianchi transport |
| Bianchi transport (`plus2_bianchi_transport.hpp`, `..._checkpoint.hpp`, three-state step of `device_rk4.hpp`) | the transported curvature; last and next generation of stages; boundary evidence; stamps of the metric inputs; one file | initialize, stage with its producer, three-state step, save, restore | primary, companion, a producer of the caller |
| Route-B tower (`routeb_teukolsky_primary_jet.hpp`, `routeb_reconstruction_jet.hpp`, `routeb_angular_jet_coordinator.hpp`) | five levels of time derivatives of the primary and the metric as radial Taylor jets, with a token and the valid orders of every mode | initialize from a stage, advance one level | a stage of the primary, the curvature provider |
| Right-hand-side graph (`evaluate_rhs_at_time` in `spatial_pipeline.hpp`, `full_spatial.hpp`, `angular_coordinator.hpp`, `source_tangent_spatial.hpp`, `source_spatial.hpp`) | some thirty work buffers on the device, shared by all stages | evaluate one stage: about fifty launches | the stepper, the gate, the diagnostics |
| Configuration (`config.hpp`, `run_parameters.hpp`) | the settings of a file and of the command line; the resolved file a run leaves | parse, override, resolve defaults, validate, print, read back | the run, the registry, initial data |
| Mode registry (`modes.hpp`) | ordered sets of stored modes, parents and targets, and the pairs of each target | build, look up, mirror, list daughters | everything indexed by mode |
| Operators, transforms, sources, diagnostics, output | tables and buffers | kernels, reductions, formatting | right-hand side and run |

**What is hard here.** No component starts a thread; what interleaves is

* *host and device*: kernels are launched and not waited for, so that the host may
  be a whole step ahead of the state it believes to be at its time, and all
  stages write the same buffers;
* *time*: one step may evaluate eight right-hand sides under a latch that may
  close between any two substeps but never inside one;
* *calls*: probes, new initial data, captures and restores come between any two
  steps, and refused or failed calls come in between those;
* *processes*: a run is a chain of processes that may be killed at any line and
  that share a directory with others, without locks and without `fsync`;
* *stamps*: what the host cannot see without waiting, the device keeps beside the
  data: a generation or token for every slot and mode. One that is checked but
  not cleared, or cleared but not checked, makes a later stage of an earlier one;
* *counters and integers*: a generation may reach the end of its type, a mode the
  end of `int`;
* *floating point*: an overflow or a value that is not a number turns a
  comparison the other way.

`PROJECT.json` (`hazards`) lists each such place at its line with the property
that watches it, or why none does.

**What makes each part correct.**

* Stepper: all four stages of a substep see one latch; exactly the substeps that
  begin at or after the activation time are forced; the gate judges each accepted
  state once and closes after the required run of passes; it never reopens.
* Right-hand side: an evaluation is a function of the one stage it is given; the
  coupling is one-way and respects the azimuthal modes; what the host reads was
  computed from the state it stands for.
* Off-band gate: a state that leaves its bands is rejected and one that does not
  is accepted, in whatever order its lines are measured.
* Checkpoints: a published directory is never rewritten; what is loaded is one
  whole capture of a pipeline built alike; failures leave neither half of a
  checkpoint in a pipeline nor temporary directories behind.
* Run: a chain of legs is the run that was never interrupted; its waveforms have
  no hole before a checkpoint; success means a finite, complete run; a leg ends.
* Companion: its files are vouched for by the one source that drove it, name the
  primary state it stands beside and its step length, and a restored companion
  goes on at its own time.
* Bianchi transport: a stage comes out whole or as zeros; every input of it is of
  that very stage; curvature and companion never act back on the primary; the
  four slopes that are added up belong to the stages of one step; generations
  only grow; a load takes one capture whole or leaves the transport alone.
* Route-B tower: levels are published for all modes or for none, one after the
  other and never changed; level l is the l-th time derivative of the stage; no
  angular operator reads content outside its band; a good stage gets through.
* Live source: the forcing of a mode is made of one stage and one generation, of
  the right time derivatives and the right pairs of modes, or it is zero; a sound
  stage is forced; no producer gets ahead of the composition.
* Registry: each target has exactly the ordered pairs of parents that sum to it,
  computed with ints that wrap. Configuration: what was validated can be started,
  what was resolved reads back, an override acts on what it names and nothing else.

## 2. The modules

Names in the modules are those of the code. Operators called `Fault...` are not
part of any model: each is a plausible mistake in the definition that follows it,
and substituting it for that definition makes the property it is paired with in
`PROJECT.json` (`mutants`) fail.

| Module | Models | State and actions, and the code |
|---|---|---|
| `SourceActivation` | the gate's rules | `Eligible`, `PassesAfter`, `Decided`, `Considered` are the early returns, the counter, the latch and the whole of `consider_source_activation`; `ResetActivation` is `reset_source_activation`; `ValidActivation` and `ValidHistory` are the two validations of a restored record |
| `SpatialPipeline` | `step()` at the grain of one right-hand side | `BeginStep`, `EnterStep` (argument checks, entry consideration, split), `EarlyStage` x3 and `LastStage` (`advance_fixed_source_step` with the integrator), `ReachStart` (the causal start inside a step), `EndStep` (endpoint consideration); `Probe`, `Initialize`, `Checkpoint`, `Restore` are the other calls |
| `StageGraph` | the right-hand side | a kernel is a table of what it reads (of which modes, how many time derivatives ahead) and writes; `Evaluation` is the sequence `evaluate_rhs_at_time` launches, with one operator per helper (`FirstOrder`, `Reconstruction` of `Pass1` to `Pass3`, `Constraints`, `SourceAngular`, `PrepareInputs`, `InnerSource`, `OuterSource`, `ApplyActivation`, `SecondOrder`, `Freeze`) |
| `KernelQueue` | host and device | `BeginStep`, `EnterStep`, `Advance`, `ReachStart`, `EndStep` launch what `step()` launches; `Measure` and `Consider` are the branch of the gate that waits; `Sample` and `Report` are the diagnostics; `Execute` is the device taking the oldest task |
| `ActivationLatch` | *abstract*: what the gate promises | a frontier that moves on, a latch that closes once, a history of substeps forced exactly from the latch on |
| `PipelineBands` | the measurement loop and the decision | `MeasureLine` is one turn of the loop with `std::max` as C++ has it, `Decide` the gate; a sum is zero, finite, overflowed or not a number |
| `PipelineCheckpoint` | writer and loader on a shared file system | `BeginWrite` (checks, capture) to `Publish` (rename) follow `write_pipeline_checkpoint` call by call; `BeginLoad` and `ReadState` are the two file reads of the loader with all checks between; `WriteFails`, `Crash`, `LosePower`, `Remove` are what goes wrong |
| `CheckpointStore` | *abstract*: what a store of checkpoints promises | `Put` once, `Take` what stands there whole, was built alike and lies in its bands |
| `SolverRun` | `run_solver` over a chain of legs | `StartGaussian`, `StartFromCheckpoint`, then `Step`, `Output`, `Sample`, `WriteCheckpoint` in the order of the loop body, `Finish`, `Kill`; one accepted step is `Advanced`, built from `SourceActivation` |
| `Plus2Companion` | companion pipeline, orchestrator and checkpoint file | one action for each public call; `Stages` is the one-way coupled integrator, completed or thrown out of; `BeginSave` and `FinishSave` are the two sides of the file write; `Restart` begins another process |
| `KernelGraph` | memory as dependences: shared by all kernel graphs below | `After` is a launch; the marks `NonFinite` and off-band travel like inputs |
| `BianchiGraph` | the kernels of `enqueue_stage` | one operator per launch, from the metric inputs and the curvature to its slopes, its time derivatives and the derivatives the source reads |
| `BianchiTransport` | transport and three-state Runge-Kutta step | `Initialize`, `Restore`, `BeginStep`, `Stage` (all three right-hand sides, the checks, the accumulation), `Refuse`, `ProducerThrows`, `PassiveThrows` |
| `BianchiCheckpoint` | save and load of a transport, step by step | `Begin`, `CompleteStep` (a new state, four generations on) and `AbandonedStep` (an exception after one to four stages: the state stays, the generation does not) are what happens to a transport between calls; `BeginSave`, `CheckTemporary`, `CreateTemporary`, `WriteHead`, `WriteBody`, `Rename`, `SaveFails` follow the writer; `BeginLoad` and `FinishLoad` are the loader; `Crash` and `RemoveFile` happen at any point; several programs, one temporary name |
| `StampedGraph` | memory whose slots carry a token and valid orders | `Stamp`, `Bears`, `Blank`; `RowsStamped` where a kernel checks the rows of a mode |
| `TowerGraph`, `RouteBTower` | the towers and the coordinator | `Initialize`, `AdvanceOneLevel`: the device code of each, launch by launch |
| `TowerLevels` | *abstract*: what a reader of the tower is promised | `BeginGeneration`, then levels one after the other, never taken back |
| `MetricGraph`, `CurvatureGraph`, `PrimitiveGraph`, `SourceGraph`, `LinearGraph` | the producers behind the forcing | metric to connection coefficients; curvature, its time derivatives and jets; primitives; ordered pairs, readiness and outer derivatives; the linear Psi_0 |
| `LiveSource` | `Plus2LiveSourceComposition` | `Write` (inputs of a stage, sound or flawed), `EvaluateRouteB`, `EvaluateScientific`, each with its early returns and throws |
| `ModeRegistry` | `ModeRegistry` of `modes.hpp` | pure operators with ints that end: construction and its refusals, pairs, ranges, closure, daughters |
| `RunConfiguration` | `parse_run_configuration`, `resolve_run_parameters`, `validate_run_parameters`, `resolved_configuration_text` and what they call, and `run_solver` up to its first state | `WriteSetting`, `AddOverride`, `Start` (merge, parse, resolve, validate), `RunSolver` (how far the run gets: the companion, the registry, the CFL limit, the pipeline, the initial data, in the order of the code), `Reuse` (the next run reads the resolved file, which exists when `RunSolver` came as far) |
| `MC...` | instances for TLC | parameter values only |
| `LiveSourceInvariant` | the inductive invariant of `LiveSource` and what its producers leave | section 4 |
| `...Proofs` | theorems | section 4 |

`SpatialPipeline`, `KernelQueue` and `SolverRun` share the rules of
`SourceActivation`: the first shows them at the grain of a stage for one process,
the second with a device that lags behind, the third at the grain of a step for a
chain of processes. `SpatialPipeline` implements
`ActivationLatch`; `PipelineCheckpoint` implements `CheckpointStore`; `RouteBTower` implements
`TowerLevels`. `LiveSource` composes the four graphs of the producers with the
checks and stamps between them; `BianchiTransport` composes the three right-hand
sides with the integrator.

In the kernel graphs (`StageGraph`, and all that extend `KernelGraph`) a slot of a buffer holds, for every mode, the set of inputs its
numbers depend on: which field of which mode of which generation of the stage,
and how many time derivatives of it. A kernel is replaced by the dependence it
adds; a mode is exactly zero when it depends on nothing. This over-approximates
(terms that cancel still count) and forgets formulas, coefficients and the
position on the grid. Two marks travel the same way: a number that is not finite
and content outside the band of the angular basis. The host of `BianchiTransport`,
`RouteBTower` and `LiveSource` never reads the device, which is in order, so that a
kernel takes effect where it is launched. A radial jet is its number of valid
orders; a plane of a mode is one cell, and a bit for each point is one bit.

In `RunConfiguration` a setting is a key, the index and spelling of an
`initial_data.mode.<index>` and a value; the keys that are only compared with a
bound of their own are one key (`numbers`: in their bounds, outside of them, or in them
with a time step above the radial CFL limit, which only `run_solver` compares), the two parts of an amplitude one
value, and a path is its text with what stands before a `#` (`Commented`). An int
wraps where the built code wraps (`Wrapped`).

**Abstraction.** Elsewhere fields are represented by what the properties tell apart: the
substeps they were carried by and whether each was forced, the capture they came
from, the primary state they stand beside. Verdicts that depend on the numerical
solution (do the constraints hold here, does the state stay finite, does a
right-hand side throw) are free choices; in `SolverRun` they are chosen once, so
that two legs that compute the same state get the same verdict. Times are
natural numbers, compared as the code compares times that come out of one
sequence of additions. Digests and checksums tell all contents apart.

## 3. The runs

| Run | Instance | Shows |
|---|---|---|
| `activation` | policies of all three modes, causal starts before, on and inside steps, steps of length 1 and 3, time up to 5 | `StagesSeeOneLatch`, `ForcedFromActivationOn`, `GateCountsAcceptedStates`, and that `ActivationLatch` is implemented, for every order of calls |
| `kernels` | modes -2..2, parents -1, 1, 2, targets 0 and 2; the three policies, two kinds of initial data, steps of length 1 and 2, time up to 2 | `EvaluationIsOfItsStage`, `OneWayCoupling`, `BandsStayClosed`, `ClassicalStages`, `ForcedAsLatched`, `ReadsAreOfTheState` |
| `bands` | all states of up to three lines of the six kinds | `OffBandLineRejected` |
| `checkpoint` | two processes, two builds, two destinations, two captures, one crash, one loss of power, one deletion | `LoadedIsOneCapture`, `LoadedFromLikePipeline`, `StraysExplained`, and that `CheckpointStore` is implemented |
| `run` | three legs, three steps, more samples than checkpoints, the reverse or no checkpoints, a constraint-aware and an unrestricted policy, one directory, any blow-up step | `RestartEquivalence`, `WaveformCoversCheckpoints`, and `RunEnds` under fairness |
| `companion` | both modes, two sources, steps of length 1 and 2, time up to 2, two files, three processes, one foreign file | `LatchIsCompanionTime`, `SavedByOneAuthority`, `ConcurrentStaysPaired` |
| `companion_paired` | replay only | *violation* of `SavedIsPaired` (section 5) |
| `transport` | a mode and its mirror image, two boundary evidences, generations up to 5, two lives, up to two faults of a caller's function: anything it may throw, leave out or spoil at H or HTT | `WholeStageOrNone`, `ClosureIsOfItsStage`, `CommonStages`, `GenerationsIncrease` |
| `transport_checkpoint` | two programs, two builds, generations up to 5, two contents and one that is not finite, three initialisations and steps, two files | `LoadedIsOneCapture` |
| `tower` | a mode and its mirror image, two stages, one bad input or one overflow anywhere | `LevelsWholeOrEmpty`, `LevelIsItsTimeDerivative`, `AngularReadsInBand`, `GoodStagesGetThrough`, and that `TowerLevels` is implemented |
| `live_source` | modes -1, 0, 1 with parents -1 and 1 and targets 0 and 1, of which 1 is a sum of no two parents, two stages, two generations, towers that reached level 1 or 4, a bad input of mode 0, one overflow out of fourteen, at least one for each check and two in the last kernel, after which there is none | `ForcingWholeOrZero`, `SoundStageIsForced`, `OrdersKept`, `ModesSelected`, `LinearPsiIsOfItsStage` |
| `configuration` | two dozen settings, up to three of them in the file and one on the command line, and a second run from the resolved file of the first; ints from -32 to 31 | `ReadsBack`, `ValidatedRunStarts`, `NoDaughterIsLost`, `OverridesCount` |

**Why the bounds are enough.** *activation*: two required passes fit with a
failed one between them, and a step is split with room before and after it.
*kernels*: the parents
are not closed under the change of sign, one target is not a sum of a parent with
itself only, and one mode is stored for its mirror image alone; a split step and
two steps in a row reuse every buffer with the gate open and closed.
*checkpoint*: each of the hazards needs two programs and at most two captures
(one overtaken, one replaced under a reader). *run*: three legs let a run be
resumed from a resumed run, with a leg that runs into a used directory; a leg of two
steps has samples and checkpoints that are due at different ones. *companion*:
a chain of save, restore, advance, save, restore fits in three processes.
*transport*: a step of four stages fits before and after an exception or a second
life, and the counter reaches its end inside a step. *transport_checkpoint*: two
savers meet in the one temporary file while a third call reads, and a transport is
saved before and after a step it abandons, with the same state, or before and after
one it completes. *tower* and
*live_source*: the second stage finds the memory of the first, sound or spoiled;
a mode, its mirror image and a mode that is neither parent nor its own image are
all there. *configuration*: each check of the validation is reached by at most
three settings, a setting is inherited, overridden and read back in two runs, and the
index of a seed has two spellings in file and override.
The proofs remove the bounds for the properties they cover.

**Bounds** are constants named `Max...` or `Horizon` that guard the actions which
would exceed them: `MaxTime`, `MaxCaptures`, `MaxChanges`, `MaxCrashes`, `MaxLosses`,
`MaxRemovals`, `MaxLegs`, `MaxRestarts`, `MaxForeign`, `MaxLives`, `MaxFaults`,
`MaxSerial` (contents of state and stage buffers), `MaxNodes` (files), `MaxStages`,
`MaxSettings`, `MaxOverrides`. `MaxGeneration`, `LastGeneration`, `IntMin` and `IntMax` are no bounds
of the model: they stand for the last value of the counter and the ends of `int`,
and what happens there is part of the model.

**Deadlock** is checked in `activation` and `kernels`, where a pipeline can always be
probed or sampled. In the others the system may stop: a gate has decided, programs
are done, a chain of legs or the generations have an end, a run has its parameters.

**Fairness.** Only `RunEnds` needs any: `WF_vars(Progress)`, where `Progress` is
the next statement of `run_solver`. It says that a started program runs. Nothing
is assumed about kills, verdicts or the order of legs. The property would fail
if any path through the loop led nowhere, in particular the one where a
checkpoint exists already.

**Symmetry** is used in `companion` for sources and files and in `transport_checkpoint`
for programs and contents, which are compared for equality only; these runs have no
temporal property.

**`TypeOK`** is stated in every module with a state (`FilesTypeOK` in
`BianchiCheckpoint`, `CompanionTypeOK` in `Plus2Companion`, `ParametersTypeOK` in
`RunConfiguration`). It is proved for `SpatialPipeline`, `KernelQueue`,
`PipelineCheckpoint`, `SolverRun`, `Plus2Companion` and `BianchiCheckpoint` (section
4; the invariants of `BianchiTransport`, `LiveSource` and `RouteBTower` there say of
the device more than types), and holds in the instances of the other runs, where it
can be added to the cfg; the runs listed spend their time on what could be wrong.
The same is true of the properties section 4 names that the table above does not.

## 4. The proofs

Proofs hold for every value of the constants that satisfies the named
assumptions of the modules: `PipelineAssumption` (policies and step lengths are
what their names say), `BandsAssumption` (states are sequences of lines),
`CheckpointAssumption`, `CompanionAssumption`, `RunAssumption`, `QueueAssumption`,
`TransportAssumption`, `LiveAssumption`, `TowerAssumption`, `RegistryAssumption`,
`ModesAssumption` (bounds are natural numbers, some sets are not empty, stored modes
are closed under the change of sign and contain parents and targets),
`IntAssumption`, `SettingsAssumption` and `ValuesAssumption` (a list of modes that can
be parsed is one of ints, and what cannot be parsed is no default), and
`NoneAssumption` (the value for nothing is nothing else). TLC evaluates them in the
runs. Eight modules hold all theorems; some hold those of two components.

* **`SpatialPipelineProofs`.** The properties are not inductive: in the middle
  of a step they say nothing about the flags recorded so far. `IndInv` adds, per
  program point of `step()`, how many flags there are, that the flags of the
  running substep are the latch, that the first half of a split step was not
  forced and ended at the causal start, and that a saved capture explains itself
  as the live state does. One lemma per action shows that it is kept; then
  `TypeCorrect` (with the bound of eight recorded stages, which makes the throw
  in `advance_fixed_source_step` unreachable), `OneLatchPerSubstep`,
  `ForcedExactlyFromActivation`, `LatchMonotone` (the gate never reopens, and
  nothing but a probe or a step closes it) and `Refinement` (the step
  simulation behind `ImplementsLatch`) follow. `GateCounts` has an invariant of its
  own on top (`CountInv`): at each program point it says which accepted states the
  gate has still to judge, and that its counter is the number of passes since the
  last failure, as the cardinality of a set that grows by the latest time.
* **`PipelineCheckpointProofs`.** To the types the invariant adds what is known of a
  call at each of its points: the two files of a directory, temporary or
  published, come from one write; captures of writes under way are unlike each
  other, unlike those published and unlike those being read. So a directory a
  loader finds with the state that the metadata promised is the directory it read
  the metadata from, whatever has been removed and renamed in between. From it
  follow `OneCapture`, `LikePipeline`, `NeverRewritten` and `StoreRefinement` (a
  `Publish` is a `Put`, a successful `ReadState` a `Take`); `StraysAccounted`
  counts left directories against crashes with cardinalities of finite sets.
  The module also holds the proofs about `PipelineBands`, the gate in the loader's
  way: the loop invariant `GateInv` says that the report is positive exactly when one
  of the lines measured so far counts; `GateRejectsOffBand` and `GateAcceptsInBand`
  (no state in its bands is refused) follow for states of any length.
* **`SolverRunProofs`.** `RestartEquivalence` compares a chain of legs with a
  recursive function, the run that never stopped. That the function exists, with
  its recursion equation, is proved by the least-number principle: a least step at
  which no approximation exists has a predecessor that has one. The invariant then
  says, for the live state, for each checkpoint on disk and for each line of the
  waveforms, that it is the function's value at its step (`RestartInv`), where a leg
  stands in its loop (`ControlInv`), and that every sample the leg owes by the step it
  has reached is in its waveforms, the one of the current step once `Sample` has been
  (`CoverageInv`): a checkpoint is written after that.
  `RestartsAreInvisible`, `NoHoleInWaveforms` and `SuccessMeansComplete` hold for
  any number of legs.

  The module also holds the proofs about `Plus2Companion`. `HistoryInv` says what the
  source history knows of the sources that drove the companion, `SavesInv` the same
  of a save under way, `LatchInv` where a companion restored as zero stands before
  its first step. With the types they are inductive (`CompanionInv`), and give
  `CompanionTypes`, `OneAuthority`, `RestoredTimeIsOwn`, `ConcurrentPairing` and
  `StepLengthIsFixed`, without any bound on processes or time.

  And those about `RunConfiguration`, for any settings. Its invariants only say that
  an accepted run is what its settings are parsed to, that these are finitely many
  and that lists of modes are lists of ints (`ConfigurationInv`, `ListsInv`); the rest
  is about the functions of one reading. `CommandLineCounts`: an override is merged
  and resolved so that it is what the run has, for the fields of seeds of any index, unless
  a setting that is read later names the same field by another key (`ReadLater`). `ResolvedReadsBack` reads a file
  entry by entry (`ReadsAs`): every key is given, so nothing is inherited again; every
  index is spelled once, so the seeds come back in their order. `DaughtersAreKept`
  follows a pair of parents into the list of all pairs: an ordered list holds its
  set, each member at a place of its own (`AscendingIs`, by counting what is
  smaller), and what has been concatenated stays where it is (`ChainGrows`), so that
  the pair lies between the two offsets of its target.
* **`KernelQueueProofs`.** Every slot of the fifty launches has a rank, a band and a
  level (`Rank`, `Band`, `Level`): the fields it may be computed from, the modes it may
  be nonzero at, and the time derivatives it has. A kernel whose reads fit the slots
  it writes keeps memory sound (`AfterKeeps`); one lemma for each helper of
  `evaluate_rhs_at_time` says that it is a list of such kernels and which slots are
  known after it (`Makes`); `EvaluationLeaves` puts them together, whatever the buffers
  held before. `CouplingIsOneWay`, `BandsAreClosed` and `EvaluationsAreStageLocal`
  follow with the types. For `StagesFollowEachOther`, `StageInv` says where in the four
  stages the device is and what the rest of the queue still is (`Chained`), and that
  no slope is empty, so that each is of exactly one generation. For `ReadsAreCurrent`,
  `ReadInv` says what executing the rest of the queue will come to: the host's time,
  its latch, and an evaluation of the state with nothing behind it. For
  `SubstepsAreForcedAsLatched`, `LatchInv` adds with which latch each stage in the
  queue was launched: the one of the time its substep begins at, which the device has
  yet to reach (`Told`), and which no later decision of the host changes, since the
  host is beyond that time (`ClosedBefore`). An evaluation launched with a closed latch
  carries a first-order field from the stage through the pair, the sum over pairs and
  the outer derivatives into the slope (`EvaluationCarries`), one launched with an open
  latch reads only second-order fields where it writes them (`EvaluationPure`). The theorem
  assumes that some target has a pair (`Supplied`): the registry accepts lists without
  any, and then no slope is ever forced.
* **`KernelGraphProofs`.** Lemmas for the proofs about transport, live source and
  tower, on any memory, kernel and set of modes: a kernel changes the slots it writes and no others, what comes
  into a slot came from what the kernel reads (`AfterWithin`), nothing comes of
  nothing (`AfterEmpty`), and a list of kernels is the last of a sequence of memories
  (`RunSteps`). `Run` is a recursive function; that it exists, and that what holds
  before the first kernel and is kept by each holds after the last, is shown with
  the least number for which it would fail.
* **`BianchiTransportProofs`.** `CounterInv` is about the host: the next generation is
  the successor of the last, or the one nobody has, and a step is under way only in
  a transport that was initialized. `Counting` is that invariant, `StagesNeverRepeat`
  the action property for a counter of any width: each evaluation, those of steps that an
  exception leaves included, has a generation above the one before. `TransportInv`
  adds what the device holds: the three systems' state and stage buffers, the contents they are known by
  (`HoldsInv`, `BuffersInv`); metric inputs, those of the primary at some stage, with
  the time derivative their slot is for (`MetricInv`); no stamp ahead of the life's
  last generation unless an earlier life or a failed call has left some (`AgeInv`);
  and for each stage of the step that is done, slopes of all systems made of the
  contents at that stage (`SlopesInv`). `WholeStages` is its last part; `ClosureOfItsStage`
  follows the inputs of a stage through one launch after the other, from any memory
  that the invariant allows; `StagesInCommon` is about the accumulation, which adds
  four slopes of each system that belong to the same four stages.

  The module also holds the proofs about `BianchiCheckpoint`. Two savers may hold the
  same temporary file open, and write head and body in any order, so that no file
  can be said to belong to one of them. Nor does a state tell its generation, since
  an abandoned step keeps one and not the other. What is invariant (`StoreContents`)
  is that every head, in a file or a call, is a capture some save has taken: build,
  state (by its checksum) and generation. A loader accepts only a body that has the
  head's checksum, and so loads that capture, whoever has written the body.
  `OneTransportLoaded` and `RefusedLoadLeaves` (a load that is refused leaves the
  transport alone) follow for any number of programs.
* **`LiveSourceProofs`.** `LastInv`: no producer is ahead of the composition; so each
  generation is used once (`GenerationsMoveTogether`) and a producer never throws on
  one the composition has accepted (`CompositionDecides`). `RejectedStageIsClosed` is
  about the last kernels alone: whatever the device holds, for any modes and registry,
  a stage with a stamp missing has no forcing and shows nothing.

  The five properties of the run are proved with `LiveInv` (module
  `LiveSourceInvariant`): the device has all its slots and sums only for targets
  (`Shape`, `Clean`); the inputs written last are what they were written as, with
  stamps on all modes if they are whole and one missing if not (`InputsInv`); and the
  stage evaluated last has left what the properties say (`OutcomeInv`). Every buffer
  is shared by all stages, so that an evaluation has to be followed from its inputs on.
  `Knows(memory, known, id, level, more)` says of a set of slots that they hold nothing
  but fields of stage `id`, of the order of time derivatives and of the modes that each
  slot is for, and what an overflow may add (`more`). A kernel that reads known slots
  at rates that fit (`Fits`) makes further slots known (`FitsKeeps`). Each producer is a
  list of such kernels; one lemma for each says what is known after it, which views it
  leaves alone, which stamps it sets and on what verdict: `CurvatureStageDone` (three
  levels that share one scratch), `PackLevelsDone`, `LinearStageDone`,
  `PrimitiveStageDone`, `SourceStageDone` (pairs, sums, outer derivatives, the checks
  in between). `ActiveStageDone` puts them together for both entries. That a forcing is
  there at all is the other direction: H of every mode is carried to the factors of a
  product and by it to the sums (`Carries`, `CarriesSum`). What may
  not be finite is followed to the last kernel, which no check follows (`OnlyLast`).
  `ForcingIsWholeOrZero`, `SoundStagesAreForced`, `OrdersAreKept`, `ModesAreSelected` and `LinearPsiIsItsStages`
  follow for any modes, parents, targets, generations, stages, flaws and overflows.

* **`RouteBTowerProofs`.** A slot is void (zero and without a stamp), whole in its band, or
  whole with content outside of it, and slots that are filled together are of one kind
  (`Group`). Each operation of the coordinator is followed through its kernels: what it
  touches and what it leaves as it was (`Frame...`), what it leaves if its inputs are
  there (`...Ready`), what it leaves if one of them is not (`...Void`), and both
  together (`...Done`). A level is built from the one below (`Ground`) by three passes
  that are each left projected onto the band, or take the whole level back
  (`PassLeft`, `LevelMet`). The invariant `TowerInv` says that both towers stand whole up
  to a level and are void above it, each level made of the time derivatives of this
  stage that it is named for, and that no angular operator has read anything outside
  of its band. `WholeOrEmpty`, `IsItsDerivative`, `NothingAliased` and `GoodGetThrough`
  are parts of it; `KeepsThePromise` is the step simulation of `TowerLevels`. They hold
  for any modes and any number of stages, whatever inputs are flawed and wherever a
  kernel overflows.

**Model-checked only.** `ValidatedRunStarts` of `configuration`, which is false at the ends of `int` (finding 8)
and so depends on the instance. `RunEnds`, since the prover does not handle liveness.
The types of the tower and of the configuration. What a fold or a recursive operator
computes is proved only where it could be written as a function whose existence
follows from the least-number principle.

## 5. What was found

Statements of the repository that the code, as modelled, does not satisfy.

1. *A replay can save a companion under an earlier primary checkpoint.* The save
   compares the progress, the receipt and the primary state with each other and
   not with the companion (`plus2_companion_pipeline.hpp:371`). The run
   `companion_paired` ends in the counterexample.

The others are definitions in the modules, each with the exception it needs to hold
written into a property of a run. To see a counterexample, put the definition in
the place of the properties of the cfg.

2. *Off-band content that overflows is accepted* (`AcceptedMeansInBand`,
   `MCPipelineBands.cfg`). The relative norm of a line whose residual and norm both
   overflow when squared is not a number, and `std::max(report, relative)` keeps the
   report (`pipeline_bands.hpp:152`); `docs/RUNTIME_CONFIGURATION.md:154-156` says
   that meaningful off-band content is rejected. `OffBandLineRejected` is about
   lines that do not overflow.
3. *A short file can be published* (`PublishedComplete`, `MCPipelineCheckpoint.cfg`
   with no crash and no loss of power). `write_exact_bytes` tests its stream before
   the destructor flushes it (`pipeline_checkpoint.hpp:503`). The loader refuses such
   a checkpoint, which is why `ImplementsStore` holds; but the run that wrote it has
   no usable checkpoint and does not know.
4. *A companion checkpoint can be overwritten* (`SavedIsNeverOverwritten`,
   `MCPlus2Companion.cfg`). Test and rename are apart, and rename replaces a file
   (`plus2_checkpoint.hpp:742-755`); `docs/PLUS2_REPLAY_AND_OUTPUT.md:81-82` promises
   that nothing is overwritten. The primary writer renames a directory, which refuses
   one with content: there the same race is harmless, as `NeverRewritten` proves.
5. *An input of the transport can be of an earlier stage* (`InputsAreOfThisStage`, as
   a PROPERTY of `MCBianchiTransport.cfg`). `initialize` and
   `restore_checkpoint_state` set the generations back and leave the stamps of the
   inputs (`plus2_bianchi_transport.hpp:847`), and a producer that throws leaves stamps
   of the generation the next attempt has again: an input that is then not written
   passes. `docs/PLUS2_BIANCHI_TRANSPORT.md:119-121` says that a missing stamp
   invalidates the stage "rather than reusing an earlier stage".
   `ClosureIsOfItsStage` excludes exactly these two cases (`leftovers`).
6. *A path with a `#` is cut off in the resolved file* (`ResolvedIsExact`,
   `MCRunConfiguration.cfg`). Overrides are not searched for comments, and of the
   three paths only one is tested before it is written (`config.hpp:765`);
   `docs/RUNTIME_CONFIGURATION.md:148-149`. `ReadsBack` excludes such paths. The time
   derivative of data from a checkpoint, which nobody looks at (`config.hpp:576`), is a
   fourth such string; it is not in the model.
7. *An override can go unheeded* (`OverridesOverrideTheFile`, `MCRunConfiguration.cfg`).
   `initial_data.seed_ell` and its like are read before `initial_data.mode.0.*`, from
   wherever each came, and every resolved file has the latter. And an index has several
   spellings, each of them a key: they are read in the order of the map, so that
   `initial_data.mode.01.ell` on the command line loses to `initial_data.mode.1.ell` of
   the file (`config.hpp:311-334`). `docs/RUNTIME_CONFIGURATION.md:10` says that
   arguments override file values. `OverridesCount` names the exception (`ReadLater`).
8. *Validation is deceived at the ends of `int`* (`ValidatedRunStarts` with `Settings <-
   MCLimitSettings`). The most negative mode is its own negative and has no magnitude,
   the largest band no successor (`config.hpp:464-491`): both pass in the builds tried
   and are refused after the resolved file is written;
   `docs/RUNTIME_CONFIGURATION.md:106-114`.

Behaviours that no document settles and that the models reproduce:

* a forcing that is not finite can go out as that of a ready stage: what the last kernel
  computes from finite sums and derivatives, and then scales to coordinates, may overflow
  (`plus2_source_value_spatial.hpp:397-427`); all checks are over by then, and the gather
  copies what it finds (`plus2_live_source_composition.hpp:369-381`).
  `ForcingWholeOrZero` says that this is the only way, and in which mode;
* a run above the radial CFL limit is refused when `resolved_config.cfg` has been
  written, and before the pipeline is allocated (`solver_driver.hpp:94`, `:119-125`);
  `docs/RUNTIME_CONFIGURATION.md:106-115` promises the latter only;
* a companion that was restored or replayed can never be saved again once it has
  moved on, since its receipt is pinned (`plus2_companion_pipeline.hpp:614`);
* a first step that throws has bound the time step (`plus2_replay.hpp:384`);
* a transport stage that is not ready has zeros for slopes, which the integrator
  adds (`plus2_bianchi_transport.hpp:577`);
* a program that ends in a save of a transport leaves the temporary file, which
  stops every later save to that path (`plus2_bianchi_transport_checkpoint.hpp:464`);
* a restore keeps the norms the diagnostics print (`spatial_pipeline.hpp:418`);
* mass, spin, damping, dissipation and time step of a checkpoint are compared between
  the two callers and not with a pipeline (`pipeline_checkpoint.hpp:800`);
* `diagnostics.csv` is neither flushed nor tested (`solver_driver.hpp:246`).

## 6. What is not modelled

* The equations: formulas, stencils, transforms, quadratures, jet algebra and
  generated source expressions are floating point and out of reach of these tools.
  What remains of them is what a kernel reads (the kernel graphs) and whether a
  verdict, an overflow or an exception comes out, which is a free choice.
* Formatting and parsing of metadata and CSV, and the syntax of numbers and lines of
  a configuration. A metadata file is whole, short, or of two writers; damage that
  keeps the shape of a file is not in the models.
* Parameters that a pipeline cannot be asked for and the codec takes from its
  callers (mass, spin, damping, dissipation, time step).
* In the companion: the views and the orchestrator a caller can reach around the
  pipeline, which `docs/PLUS2_REPLAY_AND_OUTPUT.md` lists as unqualified, and the
  activation record handed through to its stages.
* In the live source: the callback seam, which takes any producer of primitives, the
  comparison of grids and parameters on the host, and the endpoint audit. In the
  transport: the evidence of the coefficients at scri, apart from that of the boundary.
* Diagnostics, waveform and snapshot output beyond the waveform file of a run, and
  the tools and scripts.
* Rounding of times.

## 7. The plan

Done: the stepper and its gate, the right-hand side, both checkpoints, the run, the
companion, the curvature transport, the Route-B tower, the live source with its
producers, registry and configuration, with proofs of each (section 4). What is left,
in this order:

1. **Composition**: `LiveSource` driven by `RouteBTower` and `BianchiTransport`, and its
   identity and generations handed to `Plus2Companion`, which today names a source
   and takes its forcing for granted.
2. **Callback seam and endpoint audit** of the live source.
3. **Four-Weyl and snapshot output**: what a series on disk holds after a kill or a restart.
4. **Proofs**: `ValidatedRunStarts` for settings that stay away from the ends of `int`.
