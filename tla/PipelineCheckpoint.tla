-------------------------- MODULE PipelineCheckpoint --------------------------
(***************************************************************************)
(* write_pipeline_checkpoint and load_pipeline_checkpoint_verified         *)
(* (include/teuk/pipeline_checkpoint.hpp), called by several programs on   *)
(* one file system: a directory of two files, written under a temporary    *)
(* name and published by a rename; read back file by file, checked, and    *)
(* only then copied into the pipeline.                                     *)
(*                                                                         *)
(* A capture stands for the metadata and the state of one write.  A file   *)
(* is the capture it was written from and whether all of it is there; the  *)
(* number of bytes, the closed set of keys and the checksum are how the    *)
(* loader tells.  Captures are distinct, and so are their checksums.       *)
(*                                                                         *)
(* A build is the source policy, discretization and geometry a pipeline    *)
(* was constructed with; the caller hands over a configuration that names  *)
(* one too.  The method parameters of that configuration which a pipeline  *)
(* cannot be asked for are left out: the code takes the caller's word.     *)
(***************************************************************************)
EXTENDS Integers, FiniteSets

CONSTANTS
  Processes,      \* the programs
  Destinations,   \* checkpoint directories
  Builds,         \* policy, discretization and geometry of a pipeline
  None,           \* no directory, no file, no request, no content
  Damaged,        \* how the store calls content that is no capture
  MaxCaptures,    \* bound on the writes begun (model checking)
  MaxCrashes,     \* bound on the processes that die (model checking)
  MaxLosses,      \* bound on the power failures (model checking)
  MaxRemovals     \* bound on the directories deleted (model checking)

ASSUME CheckpointAssumption ==
  /\ IsFiniteSet(Processes)
  /\ MaxCaptures \in Nat /\ MaxCrashes \in Nat
  /\ MaxLosses \in Nat /\ MaxRemovals \in Nat

\* built is the truth about the captured pipeline, configuration what the
\* caller said of it, and inBand whether the state passes the off-band gate.
Capture == [id: 1 .. MaxCaptures, built: Builds,
            configuration: Builds, inBand: BOOLEAN]

File      == [of: Capture, whole: BOOLEAN]
Directory == [metadata: File \cup {None}, state: File \cup {None}]
Request   == [dest: Destinations, capture: Capture]
Load      == [metadata: Capture, state: Capture]

ASSUME NoneAssumption == None \notin Directory \cup File \cup Request \cup Load

VARIABLES
  built,      \* the pipeline of each process
  dirs,       \* the checkpoint directories
  temps,      \* the temporary directory of each process
  strays,     \* temporary directories nobody will remove
  pc,         \* where each process is
  request,    \* the write or load it is busy with
  loaded,     \* the metadata and state last copied into its pipeline
  captures,   \* writes begun
  crashes, losses, removals, stuck

counters == <<captures, crashes, losses, removals, stuck>>
vars == <<built, dirs, temps, strays, pc, request, loaded, counters>>

Init ==
  /\ built \in [Processes -> Builds]
  /\ dirs = [d \in Destinations |-> None]
  /\ temps = [p \in Processes |-> None]
  /\ strays = 0
  /\ pc = [p \in Processes |-> "idle"]
  /\ request = [p \in Processes |-> None]
  /\ loaded = [p \in Processes |-> None]
  /\ captures = 0 /\ crashes = 0 /\ losses = 0 /\ removals = 0 /\ stuck = 0

Goto(p, where) == pc' = [pc EXCEPT ![p] = where]

\* The call of p returns or throws.
Finish(p) ==
  /\ Goto(p, "idle")
  /\ request' = [request EXCEPT ![p] = None]

-----------------------------------------------------------------------------
(* write_pipeline_checkpoint *)

\* Fault: the caller is trusted with all of the configuration.
FaultWriterAccepts(p, d, configuration) == dirs[d] = None

\* The checks before anything is captured.
WriterAccepts(p, d, configuration) ==
  /\ dirs[d] = None
  /\ configuration = built[p]

\* The pipeline is captured: metadata, bytes, checksum and receipt are made.
BeginWrite(p, d, configuration) ==
  /\ pc[p] = "idle" /\ captures < MaxCaptures
  /\ WriterAccepts(p, d, configuration)
  /\ captures' = captures + 1
  /\ \E inBand \in BOOLEAN :
       request' = [request EXCEPT ![p] =
         [dest |-> d,
          capture |-> [id |-> captures', built |-> built[p],
                       configuration |-> configuration, inBand |-> inBand]]]
  /\ Goto(p, "create")
  /\ UNCHANGED <<built, dirs, temps, strays, loaded,
                 crashes, losses, removals, stuck>>

\* create_temporary_directory: the name is this call's own.
CreateTemporary(p) ==
  /\ pc[p] = "create"
  /\ temps' = [temps EXCEPT ![p] = [metadata |-> None, state |-> None]]
  /\ Goto(p, "state")
  /\ UNCHANGED <<built, dirs, strays, request, loaded, counters>>

\* write_exact_bytes, when it returns.  The stream is tested after write() but
\* not after it is closed, by its destructor: what is still buffered then may
\* fail to reach the file without anyone being told.
WriteExactBytes(p, file) ==
  \E whole \in BOOLEAN :
    temps' = [temps EXCEPT ![p][file] =
                [of |-> request[p].capture, whole |-> whole]]

WriteState(p) ==
  /\ pc[p] = "state"
  /\ WriteExactBytes(p, "state")
  /\ Goto(p, "metadata")
  /\ UNCHANGED <<built, dirs, strays, request, loaded, counters>>

WriteMetadata(p) ==
  /\ pc[p] = "metadata"
  /\ WriteExactBytes(p, "metadata")
  /\ Goto(p, "rename")
  /\ UNCHANGED <<built, dirs, strays, request, loaded, counters>>

\* Fault: remove, which leaves a directory with files alone.
FaultCleanUp(p) ==
  /\ temps' = [temps EXCEPT ![p] = None]
  /\ strays' = IF temps[p] = None \/ temps[p].state = None
               THEN strays ELSE strays + 1
  /\ UNCHANGED stuck

\* ~TemporaryDirectoryGuard: remove_all, and its error ignored.
CleanUp(p) ==
  /\ temps' = [temps EXCEPT ![p] = None]
  /\ \/ UNCHANGED <<strays, stuck>>
     \/ temps[p] # None /\ strays' = strays + 1 /\ stuck' = stuck + 1

\* rename(temporary, directory): refused when another writer, who passed the
\* same check for existence, was there first.
Rename(p) ==
  LET d == request[p].dest
  IN  \/ /\ dirs[d] = None
         /\ dirs' = [dirs EXCEPT ![d] = temps[p]]
         /\ temps' = [temps EXCEPT ![p] = None]
         /\ UNCHANGED <<strays, stuck>>
      \/ /\ dirs[d] # None
         /\ CleanUp(p)
         /\ UNCHANGED dirs

Publish(p) ==
  /\ pc[p] = "rename"
  /\ Rename(p)
  /\ Finish(p)
  /\ UNCHANGED <<built, loaded, captures, crashes, losses, removals>>

\* A step of the write fails and says so; the guard, once there is one, runs.
WriteFails(p) ==
  /\ pc[p] \in {"create", "state", "metadata", "rename"}
  /\ CleanUp(p)
  /\ Finish(p)
  /\ UNCHANGED <<built, dirs, loaded, captures, crashes, losses, removals>>

-----------------------------------------------------------------------------
(* load_pipeline_checkpoint_verified *)

\* The metadata parse, and agree with what the caller expects and has.
MetadataAccepted(p, metadata, expected) ==
  /\ metadata # None /\ metadata.whole
  /\ expected = built[p]
  /\ metadata.of.configuration = expected

\* The first file is read and everything that depends on it alone is checked.
\* When a check fails the call throws, and nothing has changed.
BeginLoad(p, d, expected) ==
  /\ pc[p] = "idle"
  /\ dirs[d] # None
  /\ MetadataAccepted(p, dirs[d].metadata, expected)
  /\ request' = [request EXCEPT ![p] =
                   [dest |-> d, capture |-> dirs[d].metadata.of]]
  /\ Goto(p, "load")
  /\ UNCHANGED <<built, dirs, temps, strays, loaded, counters>>

\* Fault: the checksum in the metadata is not compared.
FaultStateAccepted(metadata, state) == state # None /\ state.whole /\ state.of.inBand

\* The bytes are as many as the metadata say and have their checksum, and the
\* state lies in its bands.
StateAccepted(metadata, state) ==
  /\ state # None /\ state.whole
  /\ state.of = metadata
  /\ state.of.inBand

\* Fault: the state is copied in before it is checked.
FaultReadState(p) ==
  LET d == request[p].dest
      state == IF dirs[d] = None THEN None ELSE dirs[d].state
  IN  /\ pc[p] = "load"
      /\ loaded' = [loaded EXCEPT ![p] =
           IF state = None THEN @
           ELSE [metadata |-> request[p].capture, state |-> state.of]]
      /\ Finish(p)
      /\ UNCHANGED <<built, dirs, temps, strays, counters>>

\* The second file is read, by its name: the directory may have gone, or have
\* become another one.  After the last check the pipeline is overwritten.
ReadState(p) ==
  LET d == request[p].dest
      metadata == request[p].capture
      state == IF dirs[d] = None THEN None ELSE dirs[d].state
  IN  /\ pc[p] = "load"
      /\ loaded' = IF StateAccepted(metadata, state)
                   THEN [loaded EXCEPT ![p] =
                           [metadata |-> metadata, state |-> state.of]]
                   ELSE loaded
      /\ Finish(p)
      /\ UNCHANGED <<built, dirs, temps, strays, counters>>

-----------------------------------------------------------------------------
(* What happens to the programs and to the directories from outside. *)

\* A process dies in a call.
Crash(p) ==
  /\ pc[p] # "idle" /\ crashes < MaxCrashes
  /\ crashes' = crashes + 1
  /\ strays' = IF temps[p] # None THEN strays + 1 ELSE strays
  /\ temps' = [temps EXCEPT ![p] = None]
  /\ loaded' = [loaded EXCEPT ![p] = None]
  /\ Finish(p)
  /\ UNCHANGED <<built, dirs, captures, losses, removals, stuck>>

\* What may be left of a directory that was never synchronized.
Remains(directory) ==
  {None} \cup
  IF directory = None THEN {}
  ELSE {[metadata |-> m, state |-> s] :
          m \in {directory.metadata, [directory.metadata EXCEPT !.whole = FALSE]},
          s \in {directory.state, [directory.state EXCEPT !.whole = FALSE]}}

\* The machine loses power.  Publication issues no fsync.
LosePower ==
  /\ losses < MaxLosses
  /\ losses' = losses + 1
  /\ \E remains \in [Destinations -> UNION {Remains(dirs[d]) : d \in Destinations}] :
       /\ \A d \in Destinations : remains[d] \in Remains(dirs[d])
       /\ dirs' = remains
  /\ strays' = strays + Cardinality({p \in Processes : temps[p] # None})
  /\ temps' = [p \in Processes |-> None]
  /\ loaded' = [p \in Processes |-> None]
  /\ pc' = [p \in Processes |-> "idle"]
  /\ request' = [p \in Processes |-> None]
  /\ UNCHANGED <<built, captures, crashes, removals, stuck>>

\* The user deletes a checkpoint.
Remove(d) ==
  /\ dirs[d] # None /\ removals < MaxRemovals
  /\ removals' = removals + 1
  /\ dirs' = [dirs EXCEPT ![d] = None]
  /\ UNCHANGED <<built, temps, strays, pc, request, loaded,
                 captures, crashes, losses, stuck>>

ProcessAction(p) ==
  \/ \E d \in Destinations, c \in Builds : BeginWrite(p, d, c)
  \/ CreateTemporary(p)
  \/ WriteState(p)
  \/ WriteMetadata(p)
  \/ Publish(p)
  \/ WriteFails(p)
  \/ \E d \in Destinations, c \in Builds : BeginLoad(p, d, c)
  \/ ReadState(p)

Next ==
  \/ \E p \in Processes : ProcessAction(p) \/ Crash(p)
  \/ LosePower
  \/ \E d \in Destinations : Remove(d)

Spec == Init /\ [][Next]_vars

-----------------------------------------------------------------------------
(* Properties *)

\* The types of the variables, and what a call has and has not at each point: a
\* temporary directory exists exactly between its creation and the rename, and
\* what is about to be renamed has both its files.
TypeOK ==
  /\ built \in [Processes -> Builds]
  /\ dirs \in [Destinations -> Directory \cup {None}]
  /\ temps \in [Processes -> Directory \cup {None}]
  /\ request \in [Processes -> Request \cup {None}]
  /\ loaded \in [Processes -> Load \cup {None}]
  /\ strays \in Nat /\ stuck \in Nat
  /\ captures \in 0 .. MaxCaptures /\ crashes \in 0 .. MaxCrashes
  /\ losses \in 0 .. MaxLosses /\ removals \in 0 .. MaxRemovals
  /\ pc \in [Processes -> {"idle", "create", "state", "metadata", "rename", "load"}]
  /\ \A p \in Processes :
       /\ request[p] = None <=> pc[p] = "idle"
       /\ temps[p] # None <=> pc[p] \in {"state", "metadata", "rename"}
       /\ pc[p] = "rename" => None \notin {temps[p].metadata, temps[p].state}

\* No call of any program changes a published checkpoint, whoever else writes
\* to the same destination: it changes only by deletion or loss of power.
PublishedIsNeverRewritten ==
  [][(\E p \in Processes : ProcessAction(p) \/ Crash(p)) =>
       \A d \in Destinations : dirs[d] # None => dirs'[d] = dirs[d]]_vars

\* What is in a pipeline after a load is the state of the capture whose
\* metadata, activation record and progress came with it, though the two files
\* are read at different moments and the directory may be replaced in between.
LoadedIsOneCapture ==
  \A p \in Processes : loaded[p] # None => loaded[p].metadata = loaded[p].state

\* A pipeline only ever holds a loaded state of a pipeline built like itself,
\* whatever configurations the writer and the reader were called with.
LoadedFromLikePipeline ==
  \A p \in Processes : loaded[p] # None => loaded[p].state.built = built[p]

\* Temporary directories do not pile up: each one left behind is explained by a
\* crash, a loss of power (at most one for each process), or a removal that
\* failed; no failed or overtaken write leaves one by itself.
StraysExplained ==
  strays <= crashes + losses * Cardinality(Processes) + stuck

\* "The complete binary and metadata are first written beneath a unique sibling
\* directory and then published with one directory rename": what is published
\* is complete, as long as the power stays on.
PublishedComplete ==
  losses = 0 =>
    \A d \in Destinations :
      dirs[d] # None => dirs[d].metadata.whole /\ dirs[d].state.whole

\* The files implement the store.
Whole(directory) ==
  /\ directory.metadata.whole /\ directory.state.whole
  /\ directory.metadata.of = directory.state.of

Store == INSTANCE CheckpointStore WITH
  Captures <- Capture,
  Nothing  <- None,
  shelf    <- [d \in Destinations |->
                 IF dirs[d] = None THEN None
                 ELSE IF Whole(dirs[d]) THEN dirs[d].state.of ELSE Damaged],
  held     <- [p \in Processes |->
                 IF loaded[p] = None THEN None ELSE loaded[p].state]

\* Every step of the programs and of their surroundings is one of the store: in
\* particular what is loaded stands in its destination, whole and in its bands,
\* at the moment it is copied into the pipeline, and a load that fails leaves
\* the pipeline as it was.
ImplementsStore == Store!StoreSpec
=============================================================================
