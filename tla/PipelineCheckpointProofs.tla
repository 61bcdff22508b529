----------------------- MODULE PipelineCheckpointProofs -----------------------
(***************************************************************************)
(* Proofs about PipelineCheckpoint, for every set of programs, destinations *)
(* and builds, and any number of writes, crashes, losses of power and        *)
(* removals.  What has to be known besides the properties: the two files of  *)
(* a directory come from one write; captures of writes under way are unlike   *)
(* each other, those published and those being read; so the directory that a  *)
(* loader finds with the state it expects is the one it has read before.      *)
(***************************************************************************)
EXTENDS PipelineCheckpoint, PipelineBands, FiniteSetTheorems, TLAPS

Writing == {"create", "state", "metadata", "rename"}

\* The writer was not deceived about the pipeline, and the capture was begun.
Honest(capture) == capture.configuration = capture.built /\ capture.id <= captures

\* A directory of one write; in a temporary one, files may still be missing.
OfOne(directory, capture) ==
  /\ directory.metadata # None => directory.metadata.of = capture
  /\ directory.state # None => directory.state.of = capture
Filled(directory) ==
  /\ directory.metadata # None /\ directory.state # None
  /\ OfOne(directory, directory.metadata.of)
  /\ Honest(directory.metadata.of)

RequestInv == \A p \in Processes : request[p] # None =>
  /\ Honest(request[p].capture)
  /\ pc[p] = "load" => request[p].capture.built = built[p]
TempInv == \A p \in Processes : temps[p] # None =>
  /\ OfOne(temps[p], request[p].capture)
  /\ pc[p] = "metadata" => temps[p].state # None
DirInv  == \A d \in Destinations : dirs[d] # None => Filled(dirs[d])

\* The capture of a write under way is nobody else's.
OwnCapture(p) ==
  /\ \A q \in Processes : q # p /\ request[q] # None =>
       request[q].capture.id # request[p].capture.id
  /\ \A d \in Destinations : dirs[d] # None =>
       dirs[d].metadata.of.id # request[p].capture.id
WriteInv == \A p \in Processes : pc[p] \in Writing => OwnCapture(p)

\* A directory with the capture that a loader has read the metadata of has them
\* whole.
LoadInv == \A p \in Processes : pc[p] = "load" =>
  LET d == request[p].dest
  IN  dirs[d] # None /\ dirs[d].metadata.of = request[p].capture => dirs[d].metadata.whole

IndInv ==
  /\ TypeOK
  /\ RequestInv /\ TempInv /\ DirInv /\ WriteInv /\ LoadInv
  /\ LoadedIsOneCapture /\ LoadedFromLikePipeline

-----------------------------------------------------------------------------
(* Types *)

LEMMA NotNone ==
  /\ \A x \in Directory : x # None
  /\ \A x \in File : x # None
  /\ \A x \in Request : x # None
  /\ \A x \in Load : x # None
  BY NoneAssumption

\* The state without the counters, and what a call has at each point.
CallTypes ==
  /\ built \in [Processes -> Builds]
  /\ dirs \in [Destinations -> Directory \cup {None}]
  /\ temps \in [Processes -> Directory \cup {None}]
  /\ request \in [Processes -> Request \cup {None}]
  /\ loaded \in [Processes -> Load \cup {None}]
  /\ pc \in [Processes -> {"idle", "create", "state", "metadata", "rename", "load"}]
  /\ \A p \in Processes :
       /\ request[p] = None <=> pc[p] = "idle"
       /\ temps[p] # None <=> pc[p] \in {"state", "metadata", "rename"}
       /\ pc[p] = "rename" => None \notin {temps[p].metadata, temps[p].state}

CounterTypes ==
  /\ strays \in Nat /\ stuck \in Nat
  /\ captures \in 0 .. MaxCaptures /\ crashes \in 0 .. MaxCrashes
  /\ losses \in 0 .. MaxLosses /\ removals \in 0 .. MaxRemovals

\* All of the invariant but the counters.
CallInv ==
  /\ CallTypes /\ RequestInv /\ TempInv /\ DirInv /\ WriteInv /\ LoadInv
  /\ LoadedIsOneCapture /\ LoadedFromLikePipeline

LEMMA TypeParts == TypeOK <=> CallTypes /\ CounterTypes
  BY DEF TypeOK, CallTypes, CounterTypes

LEMMA Temporaries ==
  ASSUME CallTypes
  PROVE  LET some == {p \in Processes : temps[p] # None}
         IN  Cardinality(some) \in Nat /\ Cardinality(some) <= Cardinality(Processes)
<1> DEFINE some == {p \in Processes : temps[p] # None}
<1>1. some \subseteq Processes /\ IsFiniteSet(Processes)
  BY CheckpointAssumption
<1>2. IsFiniteSet(some) /\ Cardinality(some) <= Cardinality(Processes)
  BY <1>1, FS_Subset
<1> QED
  BY <1>2, FS_CardinalityType

LEMMA NextCounters ==
  ASSUME CallTypes, CounterTypes, [Next]_vars
  PROVE  CounterTypes'
<1>1. CASE LosePower
  <2>1. Cardinality({p \in Processes : temps[p] # None}) \in Nat
    BY Temporaries
  <2> QED
    BY <1>1, <2>1, CheckpointAssumption DEF LosePower, CounterTypes
<1>2. ASSUME NEW p \in Processes, ProcessAction(p) \/ Crash(p) PROVE CounterTypes'
  BY <1>2, CheckpointAssumption
  DEF CounterTypes, ProcessAction, Crash, BeginWrite, CreateTemporary, WriteState,
      WriteMetadata, Publish, Rename, CleanUp, WriteFails, BeginLoad, ReadState, counters
<1>3. ASSUME NEW d \in Destinations, Remove(d) PROVE CounterTypes'
  BY <1>3, CheckpointAssumption DEF CounterTypes, Remove
<1>4. CASE UNCHANGED vars
  BY <1>4 DEF CounterTypes, vars, counters
<1> QED
  BY <1>1, <1>2, <1>3, <1>4 DEF Next

-----------------------------------------------------------------------------
(* The writer *)

LEMMA BeginWriteStep ==
  ASSUME IndInv, NEW p \in Processes, NEW d \in Destinations, NEW c \in Builds,
         BeginWrite(p, d, c)
  PROVE  CallInv'
<1>1. CallTypes /\ CounterTypes /\ pc[p] = "idle" /\ temps[p] = None
  BY TypeParts DEF IndInv, CallTypes, BeginWrite
<1>2. PICK inBand \in BOOLEAN : request' = [request EXCEPT ![p] =
        [dest |-> d, capture |-> [id |-> captures + 1, built |-> built[p],
                                  configuration |-> c, inBand |-> inBand]]]
  BY DEF BeginWrite
<1> DEFINE new == [id |-> captures + 1, built |-> built[p],
                   configuration |-> c, inBand |-> inBand]
<1>3. new \in Capture /\ captures' = captures + 1 /\ captures \in Nat
  BY <1>1, CheckpointAssumption DEF BeginWrite, CallTypes, CounterTypes, Capture
<1>4. [dest |-> d, capture |-> new] \in Request
  BY <1>3 DEF Request
<1>5. /\ pc' = [pc EXCEPT ![p] = "create"]
      /\ UNCHANGED <<built, dirs, temps, loaded>> /\ c = built[p]
  BY DEF BeginWrite, Goto, WriterAccepts
<1>6. CallTypes'
  BY <1>1, <1>2, <1>4, <1>5, NotNone DEF CallTypes
<1>7. \A capture : Honest(capture) /\ capture.id \in Nat => Honest(capture)'
  BY <1>3 DEF Honest
<1>8. RequestInv'
  BY <1>1, <1>2, <1>3, <1>5, <1>7 DEF IndInv, RequestInv, CallTypes, Honest, Request, Capture
<1>9. TempInv'
  BY <1>1, <1>2, <1>5 DEF IndInv, TempInv, OfOne, CallTypes
<1>10. DirInv'
  BY <1>1, <1>5, <1>7, NotNone
  DEF IndInv, DirInv, Filled, OfOne, CallTypes, Directory, File, Capture
<1>11. WriteInv'
  <2>1. ASSUME NEW q \in Processes, q # p, request[q] # None
        PROVE  request[q].capture.id <= captures /\ request[q].capture.id \in Nat
    BY <2>1, <1>1 DEF IndInv, RequestInv, Honest, CallTypes, Request, Capture
  <2>2. ASSUME NEW e \in Destinations, dirs[e] # None
        PROVE  dirs[e].metadata.of.id <= captures /\ dirs[e].metadata.of.id \in Nat
    BY <2>2, <1>1 DEF IndInv, DirInv, Filled, Honest, CallTypes, Directory, File, Capture
  <2>3. request'[p].capture = new /\ new.id = captures + 1
    BY <1>1, <1>2 DEF CallTypes
  <2>4. OwnCapture(p)'
    BY <2>1, <2>2, <2>3, <1>1, <1>2, <1>3, <1>5 DEF OwnCapture, CallTypes
  <2>5. ASSUME NEW q \in Processes, q # p, pc'[q] \in Writing PROVE OwnCapture(q)'
    <3>1. OwnCapture(q) /\ request'[q] = request[q] /\ request[q] # None
      BY <2>5, <1>1, <1>2, <1>5 DEF IndInv, WriteInv, CallTypes, Writing
    <3> QED
      BY <2>1, <2>3, <2>5, <3>1, <1>1, <1>2, <1>3, <1>5 DEF OwnCapture, CallTypes
  <2> QED
    BY <2>4, <2>5 DEF WriteInv
<1>12. LoadInv'
  BY <1>1, <1>2, <1>5 DEF IndInv, LoadInv, CallTypes
<1>13. LoadedIsOneCapture' /\ LoadedFromLikePipeline'
  BY <1>5 DEF IndInv, LoadedIsOneCapture, LoadedFromLikePipeline
<1> QED
  BY <1>6, <1>8, <1>9, <1>10, <1>11, <1>12, <1>13 DEF CallInv

\* A writer goes on with the capture it has, and a directory of that capture.
LEMMA WriterGoesOn ==
  ASSUME IndInv, NEW p \in Processes, pc[p] \in Writing,
         NEW where \in Writing, Goto(p, where),
         NEW directory \in Directory, OfOne(directory, request[p].capture),
         where = "rename" => None \notin {directory.metadata, directory.state},
         where = "metadata" => directory.state # None, where # "create",
         temps' = [temps EXCEPT ![p] = directory],
         UNCHANGED <<built, dirs, request, loaded, captures>>
  PROVE  CallInv'
<1>1. CallTypes /\ pc' = [pc EXCEPT ![p] = where]
  BY TypeParts DEF IndInv, Goto
<1>2. CallTypes'
  BY <1>1, NotNone DEF CallTypes, Writing
<1>3. RequestInv'
  BY <1>1 DEF IndInv, RequestInv, Honest, CallTypes, Writing
<1>4. TempInv'
  BY <1>1 DEF IndInv, TempInv, OfOne, CallTypes
<1>5. DirInv'
  BY DEF IndInv, DirInv, Filled, OfOne, Honest
<1>6. WriteInv'
  BY <1>1 DEF IndInv, WriteInv, OwnCapture, CallTypes
<1>7. LoadInv'
  BY <1>1 DEF IndInv, LoadInv, CallTypes, Writing
<1>8. LoadedIsOneCapture' /\ LoadedFromLikePipeline'
  BY DEF IndInv, LoadedIsOneCapture, LoadedFromLikePipeline
<1> QED
  BY <1>2, <1>3, <1>4, <1>5, <1>6, <1>7, <1>8 DEF CallInv

LEMMA WritingStep ==
  ASSUME IndInv, NEW p \in Processes,
         CreateTemporary(p) \/ WriteState(p) \/ WriteMetadata(p)
  PROVE  CallInv'
<1>1. CallTypes
  BY TypeParts DEF IndInv
<1>2. CASE CreateTemporary(p)
  <2> DEFINE empty == [metadata |-> None, state |-> None]
  <2>1. /\ pc[p] \in Writing /\ Goto(p, "state") /\ "state" \in Writing
        /\ temps' = [temps EXCEPT ![p] = empty]
        /\ UNCHANGED <<built, dirs, request, loaded, captures>>
    BY <1>2 DEF CreateTemporary, Writing, counters
  <2>2. empty \in Directory /\ OfOne(empty, request[p].capture)
    BY DEF Directory, OfOne
  <2> QED
    BY <2>1, <2>2, WriterGoesOn
<1>3. ASSUME NEW whole \in BOOLEAN, request[p] # None
      PROVE  [of |-> request[p].capture, whole |-> whole] \in File
  BY <1>1, <1>3 DEF CallTypes, Request, File
<1>4. CASE WriteState(p)
  <2>1. /\ pc[p] = "state" /\ pc[p] \in Writing /\ "metadata" \in Writing
        /\ Goto(p, "metadata") /\ request[p] # None /\ temps[p] # None
        /\ UNCHANGED <<built, dirs, request, loaded, captures>>
    BY <1>1, <1>4 DEF WriteState, Writing, counters, CallTypes
  <2>2. PICK whole \in BOOLEAN : temps' =
          [temps EXCEPT ![p]["state"] = [of |-> request[p].capture, whole |-> whole]]
    BY <1>4 DEF WriteState, WriteExactBytes
  <2> DEFINE new == [temps[p] EXCEPT !["state"] = [of |-> request[p].capture, whole |-> whole]]
  <2>3. temps[p] \in Directory /\ OfOne(temps[p], request[p].capture)
    BY <1>1, <2>1 DEF CallTypes, IndInv, TempInv
  <2>4. new \in Directory /\ OfOne(new, request[p].capture) /\ new.state # None
    BY <1>3, <2>1, <2>3, NotNone DEF Directory, OfOne
  <2>5. temps' = [temps EXCEPT ![p] = new]
    BY <2>2
  <2> HIDE DEF new
  <2> QED
    BY <2>1, <2>4, <2>5, WriterGoesOn
<1>5. CASE WriteMetadata(p)
  <2>1. /\ pc[p] = "metadata" /\ pc[p] \in Writing /\ "rename" \in Writing
        /\ Goto(p, "rename") /\ request[p] # None /\ temps[p] # None
        /\ UNCHANGED <<built, dirs, request, loaded, captures>>
    BY <1>1, <1>5 DEF WriteMetadata, Writing, counters, CallTypes
  <2>2. PICK whole \in BOOLEAN : temps' =
          [temps EXCEPT ![p]["metadata"] = [of |-> request[p].capture, whole |-> whole]]
    BY <1>5 DEF WriteMetadata, WriteExactBytes
  <2> DEFINE file == [of |-> request[p].capture, whole |-> whole]
             new  == [temps[p] EXCEPT !["metadata"] = file]
  <2>3. /\ temps[p] \in Directory /\ OfOne(temps[p], request[p].capture)
        /\ temps[p].state # None
    BY <1>1, <2>1 DEF CallTypes, IndInv, TempInv
  <2>4. file \in File /\ file # None
    BY <1>3, <2>1, NotNone
  <2>5. /\ new \in Directory /\ OfOne(new, request[p].capture)
        /\ None \notin {new.metadata, new.state}
    BY <2>3, <2>4 DEF Directory, OfOne
  <2>6. temps' = [temps EXCEPT ![p] = new]
    BY <2>2
  <2> HIDE DEF new
  <2> QED
    BY <2>1, <2>5, <2>6, WriterGoesOn
<1> QED
  BY <1>2, <1>4, <1>5

-----------------------------------------------------------------------------
(* The ends of calls *)

\* A call that ends, having published its directory or none.
LEMMA CallEnds ==
  ASSUME IndInv, NEW p \in Processes, Finish(p),
         temps' = [temps EXCEPT ![p] = None],
         UNCHANGED <<built, captures>>,
         loaded' \in [Processes -> Load \cup {None}],
         \/ UNCHANGED dirs
         \/ /\ pc[p] = "rename" /\ dirs[request[p].dest] = None
            /\ dirs' = [dirs EXCEPT ![request[p].dest] = temps[p]]
  PROVE  CallTypes' /\ RequestInv' /\ TempInv' /\ DirInv' /\ WriteInv' /\ LoadInv'
<1>1. /\ CallTypes /\ pc' = [pc EXCEPT ![p] = "idle"]
      /\ request' = [request EXCEPT ![p] = None]
  BY TypeParts DEF IndInv, Finish, Goto
<1>2. RequestInv'
  BY <1>1 DEF IndInv, RequestInv, Honest, CallTypes
<1>3. TempInv'
  BY <1>1 DEF IndInv, TempInv, OfOne, CallTypes
<1>4. CASE UNCHANGED dirs
  <2>1. CallTypes'
    BY <1>1, <1>4 DEF CallTypes
  <2>2. DirInv'
    BY <1>4 DEF IndInv, DirInv, Filled, OfOne, Honest
  <2>3. WriteInv'
    BY <1>1, <1>4 DEF IndInv, WriteInv, OwnCapture, CallTypes, Writing
  <2>4. LoadInv'
    BY <1>1, <1>4 DEF IndInv, LoadInv, CallTypes
  <2> QED
    BY <1>2, <1>3, <2>1, <2>2, <2>3, <2>4
<1>5. CASE /\ pc[p] = "rename" /\ dirs[request[p].dest] = None
           /\ dirs' = [dirs EXCEPT ![request[p].dest] = temps[p]]
  <2> DEFINE d == request[p].dest
             c == request[p].capture
  <2>1. /\ d \in Destinations /\ c \in Capture /\ Honest(c)
        /\ temps[p] \in Directory /\ temps[p].metadata # None /\ temps[p].state # None
        /\ temps[p].metadata.of = c /\ temps[p].state.of = c
    BY <1>1, <1>5 DEF CallTypes, Request, IndInv, RequestInv, TempInv, OfOne
  <2>2. CallTypes'
    BY <1>1, <1>5, <2>1 DEF CallTypes
  <2>3. DirInv'
    BY <1>1, <1>5, <2>1 DEF IndInv, DirInv, Filled, OfOne, Honest, CallTypes
  <2>4. OwnCapture(p)
    BY <1>5 DEF IndInv, WriteInv, Writing
  <2>5. ASSUME NEW q \in Processes, pc'[q] # "idle"
        PROVE  q # p /\ request'[q] = request[q] /\ request[q] # None
               /\ pc'[q] = pc[q] /\ request[q].capture.id # c.id
    BY <1>1, <2>4, <2>5 DEF CallTypes, OwnCapture
  <2>6. WriteInv'
    <3>1. ASSUME NEW q \in Processes, pc'[q] \in Writing PROVE OwnCapture(q)'
      <4>1. OwnCapture(q) /\ q # p /\ request'[q] = request[q] /\ request[q].capture.id # c.id
        BY <2>5, <3>1 DEF IndInv, WriteInv, Writing
      <4>2. \A e \in Destinations : dirs'[e] # None =>
              dirs'[e].metadata.of.id # request'[q].capture.id
        BY <1>1, <1>5, <2>1, <4>1 DEF OwnCapture, CallTypes
      <4> QED
        BY <1>1, <4>1, <4>2 DEF OwnCapture, CallTypes
    <3> QED
      BY <3>1 DEF WriteInv
  <2>7. LoadInv'
    BY <1>1, <1>5, <2>1, <2>5 DEF IndInv, LoadInv, CallTypes
  <2> QED
    BY <1>2, <1>3, <2>2, <2>3, <2>6, <2>7
<1> QED
  BY <1>4, <1>5

LEMMA PublishStep ==
  ASSUME IndInv, NEW p \in Processes, Publish(p) \/ WriteFails(p)
  PROVE  CallInv'
<1>1. CallTypes
  BY TypeParts DEF IndInv
<1>2. UNCHANGED <<built, captures, loaded>> /\ Finish(p)
  BY DEF Publish, WriteFails
<1>3. /\ temps' = [temps EXCEPT ![p] = None]
      /\ \/ UNCHANGED dirs
         \/ /\ pc[p] = "rename" /\ dirs[request[p].dest] = None
            /\ dirs' = [dirs EXCEPT ![request[p].dest] = temps[p]]
  BY DEF Publish, Rename, CleanUp, WriteFails
<1>4. loaded' \in [Processes -> Load \cup {None}]
  BY <1>1, <1>2 DEF CallTypes
<1>5. CallTypes' /\ RequestInv' /\ TempInv' /\ DirInv' /\ WriteInv' /\ LoadInv'
  BY <1>2, <1>3, <1>4, CallEnds
<1>6. LoadedIsOneCapture' /\ LoadedFromLikePipeline'
  BY <1>2 DEF IndInv, LoadedIsOneCapture, LoadedFromLikePipeline
<1> QED
  BY <1>5, <1>6 DEF CallInv

LEMMA CrashStep ==
  ASSUME IndInv, NEW p \in Processes, Crash(p)
  PROVE  CallInv'
<1>1. CallTypes
  BY TypeParts DEF IndInv
<1>2. /\ UNCHANGED <<built, captures, dirs>> /\ Finish(p)
      /\ temps' = [temps EXCEPT ![p] = None] /\ loaded' = [loaded EXCEPT ![p] = None]
  BY DEF Crash
<1>3. loaded' \in [Processes -> Load \cup {None}]
  BY <1>1, <1>2 DEF CallTypes
<1>4. CallTypes' /\ RequestInv' /\ TempInv' /\ DirInv' /\ WriteInv' /\ LoadInv'
  BY <1>2, <1>3, CallEnds
<1>5. LoadedIsOneCapture' /\ LoadedFromLikePipeline'
  BY <1>1, <1>2 DEF IndInv, CallTypes, LoadedIsOneCapture, LoadedFromLikePipeline
<1> QED
  BY <1>4, <1>5 DEF CallInv

-----------------------------------------------------------------------------
(* The loader *)

LEMMA BeginLoadStep ==
  ASSUME IndInv, NEW p \in Processes, NEW d \in Destinations, NEW expected \in Builds,
         BeginLoad(p, d, expected)
  PROVE  CallInv'
<1> DEFINE c == dirs[d].metadata.of
<1>1. /\ CallTypes /\ pc[p] = "idle" /\ temps[p] = None
      /\ pc' = [pc EXCEPT ![p] = "load"]
      /\ request' = [request EXCEPT ![p] = [dest |-> d, capture |-> c]]
      /\ UNCHANGED <<built, dirs, temps, loaded, captures>>
  BY TypeParts DEF IndInv, CallTypes, BeginLoad, Goto, counters
<1>2. /\ dirs[d] # None /\ dirs[d].metadata.whole
      /\ c.configuration = built[p] /\ Honest(c) /\ c \in Capture
  BY <1>1 DEF IndInv, DirInv, Filled, BeginLoad, MetadataAccepted, CallTypes, Directory, File
<1>3. [dest |-> d, capture |-> c] \in Request
  BY <1>2 DEF Request
<1>4. CallTypes'
  BY <1>1, <1>3, NotNone DEF CallTypes
<1>5. RequestInv'
  BY <1>1, <1>2 DEF IndInv, RequestInv, Honest, CallTypes
<1>6. TempInv'
  BY <1>1 DEF IndInv, TempInv, OfOne, CallTypes
<1>7. DirInv'
  BY <1>1 DEF IndInv, DirInv, Filled, OfOne, Honest
<1>8. WriteInv'
  <2>1. ASSUME NEW q \in Processes, pc'[q] \in Writing PROVE OwnCapture(q)'
    <3>1. OwnCapture(q) /\ q # p /\ request'[q] = request[q]
      BY <1>1, <2>1 DEF IndInv, WriteInv, CallTypes, Writing
    <3>2. c.id # request[q].capture.id
      BY <1>2, <3>1 DEF OwnCapture
    <3> QED
      BY <1>1, <3>1, <3>2 DEF OwnCapture, CallTypes
  <2> QED
    BY <2>1 DEF WriteInv
<1>9. LoadInv'
  BY <1>1, <1>2 DEF IndInv, LoadInv, CallTypes
<1>10. LoadedIsOneCapture' /\ LoadedFromLikePipeline'
  BY <1>1 DEF IndInv, LoadedIsOneCapture, LoadedFromLikePipeline
<1> QED
  BY <1>4, <1>5, <1>6, <1>7, <1>8, <1>9, <1>10 DEF CallInv

\* A load that has passed all checks: what it copies stands whole where it was
\* looked for, and is of a pipeline built like the loading one.
LEMMA Accepted ==
  ASSUME IndInv, NEW p \in Processes, pc[p] = "load",
         NEW state, state = (IF dirs[request[p].dest] = None THEN None
                             ELSE dirs[request[p].dest].state),
         StateAccepted(request[p].capture, state)
  PROVE  LET d == request[p].dest
         IN  /\ d \in Destinations /\ dirs[d] # None /\ Whole(dirs[d])
             /\ dirs[d].state.of = request[p].capture /\ state = dirs[d].state
             /\ request[p].capture \in Capture
             /\ request[p].capture.built = built[p] /\ request[p].capture.inBand
<1> DEFINE d == request[p].dest
<1>1. CallTypes /\ request[p] \in Request /\ request[p] # None
  BY TypeParts DEF IndInv, CallTypes
<1>2. d \in Destinations /\ request[p].capture \in Capture
  BY <1>1 DEF Request
<1>3. dirs[d] # None /\ state = dirs[d].state
  BY DEF StateAccepted
<1>4. dirs[d].state.whole /\ dirs[d].state.of = request[p].capture /\ dirs[d].state.of.inBand
  BY <1>3 DEF StateAccepted
<1>5. dirs[d].metadata.of = dirs[d].state.of
  BY <1>2, <1>3 DEF IndInv, DirInv, Filled, OfOne
<1>6. dirs[d].metadata.whole
  BY <1>2, <1>3, <1>4, <1>5 DEF IndInv, LoadInv
<1>7. request[p].capture.built = built[p]
  BY <1>1 DEF IndInv, RequestInv
<1> QED
  BY <1>2, <1>3, <1>4, <1>5, <1>6, <1>7 DEF Whole

LEMMA ReadStateStep ==
  ASSUME IndInv, NEW p \in Processes, ReadState(p)
  PROVE  CallInv'
<1> DEFINE state == IF dirs[request[p].dest] = None THEN None
                    ELSE dirs[request[p].dest].state
           new   == [metadata |-> request[p].capture, state |-> state.of]
<1>1. CallTypes /\ pc[p] = "load" /\ temps[p] = None
  BY TypeParts DEF IndInv, CallTypes, ReadState
<1>2. /\ UNCHANGED <<built, captures, dirs, temps>> /\ Finish(p)
      /\ loaded' = IF StateAccepted(request[p].capture, state)
                   THEN [loaded EXCEPT ![p] = new] ELSE loaded
  BY DEF ReadState, counters
<1>3. temps' = [temps EXCEPT ![p] = None]
  BY <1>1, <1>2 DEF CallTypes
<1>4. ASSUME StateAccepted(request[p].capture, state)
      PROVE  /\ new \in Load /\ new.metadata = new.state /\ new.state.built = built[p]
  BY <1>1, <1>4, Accepted DEF Load
<1> HIDE DEF new, state
<1>5. loaded' \in [Processes -> Load \cup {None}]
  BY <1>1, <1>2, <1>4 DEF CallTypes
<1>6. CallTypes' /\ RequestInv' /\ TempInv' /\ DirInv' /\ WriteInv' /\ LoadInv'
  BY <1>2, <1>3, <1>5, CallEnds
<1>7. LoadedIsOneCapture' /\ LoadedFromLikePipeline'
  BY <1>1, <1>2, <1>4 DEF IndInv, CallTypes, LoadedIsOneCapture, LoadedFromLikePipeline
<1> QED
  BY <1>6, <1>7 DEF CallInv

-----------------------------------------------------------------------------
(* What happens from outside *)

LEMMA RemoveStep ==
  ASSUME IndInv, NEW d \in Destinations, Remove(d)
  PROVE  CallInv'
<1>1. /\ CallTypes /\ dirs' = [dirs EXCEPT ![d] = None]
      /\ UNCHANGED <<built, temps, pc, request, loaded, captures>>
  BY TypeParts DEF IndInv, Remove
<1>2. CallTypes' /\ RequestInv' /\ TempInv'
  BY <1>1 DEF IndInv, CallTypes, RequestInv, TempInv, OfOne, Honest
<1>3. DirInv' /\ LoadInv'
  BY <1>1 DEF IndInv, CallTypes, DirInv, LoadInv, Filled, OfOne, Honest
<1>4. WriteInv'
  BY <1>1 DEF IndInv, CallTypes, WriteInv, OwnCapture
<1>5. LoadedIsOneCapture' /\ LoadedFromLikePipeline'
  BY <1>1 DEF IndInv, LoadedIsOneCapture, LoadedFromLikePipeline
<1> QED
  BY <1>2, <1>3, <1>4, <1>5 DEF CallInv

\* What remains of a directory is nothing, or has the files of the same write.
LEMMA RemainsOf ==
  ASSUME NEW directory \in Directory, Filled(directory), NEW r \in Remains(directory)
  PROVE  \/ r = None
         \/ /\ r \in Directory /\ Filled(r)
            /\ r.metadata.whole => r.metadata = directory.metadata
            /\ r.state.whole => r.state = directory.state
<1>1. /\ directory.metadata \in File /\ directory.state \in File /\ directory # None
  BY NotNone DEF Directory, Filled
<1>2. CASE r = None
  BY <1>2
<1>3. CASE r # None
  <2>1. PICK m \in {directory.metadata, [directory.metadata EXCEPT !.whole = FALSE]},
             s \in {directory.state, [directory.state EXCEPT !.whole = FALSE]} :
          r = [metadata |-> m, state |-> s]
    BY <1>1, <1>3 DEF Remains
  <2>2. /\ m \in File /\ m.of = directory.metadata.of
        /\ m.whole => m = directory.metadata
    BY <1>1 DEF File
  <2>3. /\ s \in File /\ s.of = directory.state.of
        /\ s.whole => s = directory.state
    BY <1>1 DEF File
  <2>4. r \in Directory /\ r.metadata = m /\ r.state = s
    BY <2>1, <2>2, <2>3 DEF Directory
  <2>5. Filled(r)
    BY <2>2, <2>3, <2>4, NotNone DEF Filled, OfOne
  <2> QED
    BY <1>1, <2>2, <2>3, <2>4, <2>5
<1> QED
  BY <1>2, <1>3

LEMMA LosePowerStep ==
  ASSUME IndInv, LosePower
  PROVE  CallInv'
<1>1. /\ CallTypes /\ UNCHANGED <<built, captures>>
      /\ temps' = [p \in Processes |-> None] /\ loaded' = [p \in Processes |-> None]
      /\ pc' = [p \in Processes |-> "idle"] /\ request' = [p \in Processes |-> None]
  BY TypeParts DEF IndInv, LosePower
<1>2. PICK remains \in [Destinations -> UNION {Remains(dirs[d]) : d \in Destinations}] :
        (\A d \in Destinations : remains[d] \in Remains(dirs[d])) /\ dirs' = remains
  BY DEF LosePower
<1>3. ASSUME NEW d \in Destinations
      PROVE  dirs'[d] = None \/ (dirs'[d] \in Directory /\ Filled(dirs'[d]))
  <2>1. CASE dirs[d] = None
    BY <1>2, <2>1 DEF Remains
  <2>2. CASE dirs[d] # None
    BY <1>1, <1>2, <2>2, RemainsOf DEF IndInv, DirInv, CallTypes
  <2> QED
    BY <2>1, <2>2
<1>4. CallTypes'
  BY <1>1, <1>2, <1>3 DEF CallTypes
<1>5. DirInv'
  BY <1>1, <1>3 DEF DirInv, Filled, OfOne, Honest
<1>6. RequestInv' /\ TempInv' /\ WriteInv' /\ LoadInv'
  BY <1>1 DEF RequestInv, TempInv, WriteInv, LoadInv, Writing
<1>7. LoadedIsOneCapture' /\ LoadedFromLikePipeline'
  BY <1>1 DEF LoadedIsOneCapture, LoadedFromLikePipeline
<1> QED
  BY <1>4, <1>5, <1>6, <1>7 DEF CallInv

-----------------------------------------------------------------------------
(* The invariant *)

LEMMA InitInv == Init => IndInv
<1> SUFFICES ASSUME Init PROVE IndInv
  OBVIOUS
<1>1. CallTypes /\ CounterTypes
  BY CheckpointAssumption DEF Init, CallTypes, CounterTypes
<1>2. RequestInv /\ TempInv /\ DirInv /\ WriteInv /\ LoadInv
  BY DEF Init, RequestInv, TempInv, DirInv, WriteInv, LoadInv, Writing
<1>3. LoadedIsOneCapture /\ LoadedFromLikePipeline
  BY DEF Init, LoadedIsOneCapture, LoadedFromLikePipeline
<1> QED
  BY <1>1, <1>2, <1>3, TypeParts DEF IndInv

LEMMA NextInv == IndInv /\ [Next]_vars => IndInv'
<1> SUFFICES ASSUME IndInv, [Next]_vars PROVE IndInv'
  OBVIOUS
<1>1. CounterTypes'
  BY NextCounters, TypeParts DEF IndInv
<1>2. ASSUME NEW p \in Processes, ProcessAction(p) PROVE CallInv'
  BY <1>2, BeginWriteStep, WritingStep, PublishStep, BeginLoadStep, ReadStateStep
  DEF ProcessAction
<1>3. ASSUME NEW p \in Processes, Crash(p) PROVE CallInv'
  BY <1>3, CrashStep
<1>4. ASSUME LosePower PROVE CallInv'
  BY <1>4, LosePowerStep
<1>5. ASSUME NEW d \in Destinations, Remove(d) PROVE CallInv'
  BY <1>5, RemoveStep
<1>6. ASSUME UNCHANGED vars PROVE CallInv'
  <2>1. CallTypes' /\ RequestInv' /\ TempInv' /\ WriteInv' /\ LoadInv'
    BY <1>6, TypeParts
    DEF vars, counters, IndInv, CallTypes, RequestInv, TempInv, WriteInv, LoadInv,
        OwnCapture, OfOne, Honest
  <2>2. DirInv'
    BY <1>6 DEF vars, counters, IndInv, DirInv, Filled, OfOne, Honest
  <2>3. LoadedIsOneCapture' /\ LoadedFromLikePipeline'
    BY <1>6 DEF vars, IndInv, LoadedIsOneCapture, LoadedFromLikePipeline
  <2> QED
    BY <2>1, <2>2, <2>3 DEF CallInv
<1>7. CallInv'
  BY <1>2, <1>3, <1>4, <1>5, <1>6 DEF Next
<1>8. TypeOK'
  BY <1>1, <1>7 DEF CallInv, TypeOK, CallTypes, CounterTypes
<1> QED
  BY <1>7, <1>8 DEF IndInv, CallInv

\* The strengthened invariant holds in all behaviours.
THEOREM StoreInductive == Spec => []IndInv
  BY InitInv, NextInv, PTL DEF Spec

\* The types, and what a call of the writer or the loader has at each point.
THEOREM StoreTypes == Spec => []TypeOK
  BY StoreInductive, PTL DEF IndInv

\* What is loaded is one capture, metadata and state, whoever writes, deletes or
\* loses power between the two reads.
THEOREM OneCapture == Spec => []LoadedIsOneCapture
  BY StoreInductive, PTL DEF IndInv

\* What is loaded was captured from a pipeline built like the one it is loaded
\* into, whatever configurations were handed over.
THEOREM LikePipeline == Spec => []LoadedFromLikePipeline
  BY StoreInductive, PTL DEF IndInv

-----------------------------------------------------------------------------
(* Directories left behind, and directories published *)

LEMMA NextStrays ==
  ASSUME IndInv, StraysExplained, [Next]_vars
  PROVE  StraysExplained'
<1> DEFINE all == Cardinality(Processes)
<1>1. /\ all \in Nat /\ CallTypes
      /\ strays \in Nat /\ stuck \in Nat /\ crashes \in Nat /\ losses \in Nat
      /\ losses * all \in Nat /\ (losses + 1) * all = losses * all + all
  BY TypeParts, FS_CardinalityType, CheckpointAssumption DEF IndInv, CounterTypes
<1>2. CASE LosePower
  <2> DEFINE some == Cardinality({p \in Processes : temps[p] # None})
  <2>1. some \in Nat /\ some <= all
    BY <1>1, Temporaries
  <2>2. /\ strays' = strays + some /\ losses' = losses + 1
        /\ crashes' = crashes /\ stuck' = stuck
    BY <1>2 DEF LosePower
  <2> HIDE DEF some
  <2>3. strays <= crashes + losses * all + stuck
    BY DEF StraysExplained
  <2>4. strays + some <= crashes + (losses * all + all) + stuck
    BY <1>1, <2>1, <2>3
  <2>5. strays' <= crashes' + losses' * all + stuck'
    BY <1>1, <2>2, <2>4
  <2> QED
    BY <2>5 DEF StraysExplained
<1>3. ASSUME losses' = losses,
             \/ strays' = strays /\ crashes' \in {crashes, crashes + 1} /\ stuck' = stuck
             \/ strays' = strays + 1 /\ crashes' = crashes + 1 /\ stuck' = stuck
             \/ strays' = strays + 1 /\ crashes' = crashes /\ stuck' = stuck + 1
      PROVE  StraysExplained'
  BY <1>1, <1>3 DEF StraysExplained
<1>4. ASSUME NEW p \in Processes, ProcessAction(p) \/ Crash(p) PROVE StraysExplained'
  BY <1>3, <1>4
  DEF ProcessAction, Crash, BeginWrite, CreateTemporary, WriteState, WriteMetadata,
      Publish, Rename, CleanUp, WriteFails, BeginLoad, ReadState, counters
<1>5. ASSUME NEW d \in Destinations, Remove(d) PROVE StraysExplained'
  BY <1>3, <1>5 DEF Remove
<1>6. CASE UNCHANGED vars
  BY <1>3, <1>6 DEF vars, counters
<1> QED
  BY <1>2, <1>4, <1>5, <1>6 DEF Next

\* Every temporary directory left behind is explained by a crash, a loss of power
\* or a removal that failed, for any number of each.
THEOREM StraysAccounted == Spec => []StraysExplained
<1>1. Init => StraysExplained
  <2>1. Cardinality(Processes) \in Nat
    BY FS_CardinalityType, CheckpointAssumption
  <2> QED
    BY <2>1 DEF Init, StraysExplained
<1>2. IndInv /\ StraysExplained /\ [Next]_vars => StraysExplained'
  BY NextStrays
<1> QED
  BY <1>1, <1>2, StoreInductive, PTL DEF Spec

LEMMA ProcessKeepsPublished ==
  ASSUME CallTypes, NEW p \in Processes, ProcessAction(p) \/ Crash(p),
         NEW d \in Destinations, dirs[d] # None
  PROVE  dirs'[d] = dirs[d]
<1>1. CASE Publish(p)
  BY <1>1 DEF Publish, Rename, CallTypes
<1>2. CASE ~Publish(p)
  BY <1>2
  DEF ProcessAction, Crash, BeginWrite, CreateTemporary, WriteState, WriteMetadata,
      WriteFails, BeginLoad, ReadState
<1> QED
  BY <1>1, <1>2

\* No call of any program, finished or not, changes what is published.
THEOREM NeverRewritten == Spec => PublishedIsNeverRewritten
<1>1. IndInv /\ [Next]_vars
        => [(\E p \in Processes : ProcessAction(p) \/ Crash(p)) =>
              \A d \in Destinations : dirs[d] # None => dirs'[d] = dirs[d]]_vars
  BY ProcessKeepsPublished, TypeParts DEF IndInv
<1> QED
  BY <1>1, StoreInductive, PTL DEF Spec, PublishedIsNeverRewritten

-----------------------------------------------------------------------------
(* The refinement: what stands in a destination, and what a program holds *)

On(directory) == IF directory = None THEN None
                 ELSE IF Whole(directory) THEN directory.state.of ELSE Damaged
Shelf == [d \in Destinations |-> On(dirs[d])]
Held  == [p \in Processes |-> IF loaded[p] = None THEN None ELSE loaded[p].state]

\* The actions of the store, of these.
PutOn(d) ==
  /\ Shelf[d] = None
  /\ \E content \in Capture \cup {Damaged} : Shelf' = [Shelf EXCEPT ![d] = content]
  /\ UNCHANGED <<built, Held>>
TakeAwayFrom(d) == Shelf' = [Shelf EXCEPT ![d] = None] /\ UNCHANGED <<built, Held>>
TakeFrom(p, d) ==
  /\ Shelf[d] \in Capture /\ Shelf[d].built = built[p] /\ Shelf[d].inBand
  /\ Held' = [Held EXCEPT ![p] = Shelf[d]]
  /\ UNCHANGED <<built, Shelf>>
StopOf(p) == Held' = [Held EXCEPT ![p] = None] /\ UNCHANGED <<built, Shelf>>
Loss ==
  /\ Shelf' \in [Destinations -> Capture \cup {None, Damaged}]
  /\ \A d \in Destinations : Shelf'[d] \in {Shelf[d], None, Damaged}
  /\ Held' = [p \in Processes |-> None]
  /\ UNCHANGED built

LEMMA PublishImplements ==
  ASSUME IndInv, NEW p \in Processes, Publish(p)
  PROVE  UNCHANGED <<built, Shelf, Held>> \/ \E d \in Destinations : PutOn(d)
<1> DEFINE d == request[p].dest
<1>1. /\ CallTypes /\ d \in Destinations /\ temps[p] \in Directory /\ temps[p] # None
      /\ None \notin {temps[p].metadata, temps[p].state}
  BY TypeParts DEF IndInv, CallTypes, Publish, Request
<1>2. UNCHANGED <<built, Held>>
  BY DEF Publish, Held
<1>3. CASE dirs[d] = None /\ dirs' = [dirs EXCEPT ![d] = temps[p]]
  <2>1. On(temps[p]) \in Capture \cup {Damaged}
    BY <1>1 DEF On, Whole, Directory, File
  <2>2. Shelf[d] = None
    BY <1>1, <1>3 DEF Shelf, On
  <2>3. Shelf' = [Shelf EXCEPT ![d] = On(temps[p])]
    BY <1>1, <1>3 DEF Shelf, CallTypes
  <2> QED
    BY <1>1, <1>2, <2>1, <2>2, <2>3 DEF PutOn
<1>4. CASE UNCHANGED dirs
  BY <1>2, <1>4 DEF Shelf
<1> QED
  BY <1>3, <1>4 DEF Publish, Rename

LEMMA ReadImplements ==
  ASSUME IndInv, NEW p \in Processes, ReadState(p)
  PROVE  UNCHANGED <<built, Shelf, Held>> \/ \E d \in Destinations : TakeFrom(p, d)
<1> DEFINE state == IF dirs[request[p].dest] = None THEN None
                    ELSE dirs[request[p].dest].state
           new   == [metadata |-> request[p].capture, state |-> state.of]
           d     == request[p].dest
<1>1. /\ CallTypes /\ pc[p] = "load" /\ UNCHANGED <<built, dirs>>
      /\ loaded' = IF StateAccepted(request[p].capture, state)
                   THEN [loaded EXCEPT ![p] = new] ELSE loaded
  BY TypeParts DEF IndInv, ReadState
<1>2. UNCHANGED <<built, Shelf>>
  BY <1>1 DEF Shelf
<1>3. CASE StateAccepted(request[p].capture, state)
  <2>1. /\ d \in Destinations /\ dirs[d] # None /\ Whole(dirs[d])
        /\ dirs[d].state.of = request[p].capture /\ state = dirs[d].state
        /\ request[p].capture \in Capture
        /\ request[p].capture.built = built[p] /\ request[p].capture.inBand
    BY <1>1, <1>3, Accepted
  <2>2. Shelf[d] = request[p].capture
    BY <2>1 DEF Shelf, On
  <2>3. new \in Load /\ new # None /\ new.state = request[p].capture
    BY <2>1, NotNone DEF Load
  <2> HIDE DEF new, state
  <2>4. loaded' = [loaded EXCEPT ![p] = new]
    BY <1>1, <1>3
  <2>5. Held' = [Held EXCEPT ![p] = Shelf[d]]
    BY <1>1, <2>2, <2>3, <2>4 DEF Held, CallTypes
  <2> QED
    BY <1>2, <2>1, <2>2, <2>5 DEF TakeFrom
<1>4. CASE ~StateAccepted(request[p].capture, state)
  BY <1>1, <1>2, <1>4 DEF Held
<1> QED
  BY <1>3, <1>4

LEMMA LosePowerImplements ==
  ASSUME IndInv, LosePower
  PROVE  Loss
<1>1. CallTypes /\ UNCHANGED built /\ loaded' = [p \in Processes |-> None]
  BY TypeParts DEF IndInv, LosePower
<1>2. PICK remains \in [Destinations -> UNION {Remains(dirs[d]) : d \in Destinations}] :
        (\A d \in Destinations : remains[d] \in Remains(dirs[d])) /\ dirs' = remains
  BY DEF LosePower
<1>3. ASSUME NEW d \in Destinations
      PROVE  On(dirs'[d]) \in Capture \cup {None, Damaged}
             /\ On(dirs'[d]) \in {On(dirs[d]), None, Damaged}
  <2>1. CASE dirs[d] = None
    BY <1>2, <2>1 DEF Remains, On
  <2>2. CASE dirs[d] # None /\ dirs'[d] # None
    <3>1. /\ dirs[d] \in Directory /\ Filled(dirs[d]) /\ dirs'[d] \in Remains(dirs[d])
      BY <1>1, <1>2, <2>2 DEF IndInv, DirInv, CallTypes
    <3>2. /\ dirs'[d] \in Directory /\ Filled(dirs'[d])
          /\ dirs'[d].metadata.whole => dirs'[d].metadata = dirs[d].metadata
          /\ dirs'[d].state.whole => dirs'[d].state = dirs[d].state
      BY <2>2, <3>1, RemainsOf
    <3>3. Whole(dirs'[d]) => Whole(dirs[d]) /\ dirs'[d].state = dirs[d].state
      BY <3>2 DEF Whole
    <3>4. dirs'[d].state.of \in Capture
      BY <3>2 DEF Filled, Directory, File
    <3> QED
      BY <2>2, <3>3, <3>4 DEF On
  <2>3. CASE dirs'[d] = None
    BY <2>3 DEF On
  <2> QED
    BY <2>1, <2>2, <2>3
<1>4. Shelf' \in [Destinations -> Capture \cup {None, Damaged}]
  BY <1>3 DEF Shelf
<1>5. \A d \in Destinations : Shelf'[d] \in {Shelf[d], None, Damaged}
  BY <1>3 DEF Shelf
<1>6. Held' = [p \in Processes |-> None]
  BY <1>1 DEF Held
<1> QED
  BY <1>1, <1>4, <1>5, <1>6 DEF Loss

LEMMA OtherSteps ==
  ASSUME CallTypes, [Next]_vars, ~LosePower,
         \A p \in Processes : ~Publish(p) /\ ~ReadState(p)
  PROVE  \/ UNCHANGED <<built, Shelf, Held>>
         \/ \E p \in Processes : StopOf(p)
         \/ \E d \in Destinations : TakeAwayFrom(d)
<1>1. ASSUME NEW p \in Processes, Crash(p) PROVE StopOf(p)
  <2>1. /\ UNCHANGED <<built, dirs>> /\ loaded' = [loaded EXCEPT ![p] = None]
    BY <1>1 DEF Crash
  <2>2. UNCHANGED <<built, Shelf>>
    BY <2>1 DEF Shelf
  <2>3. Held' = [Held EXCEPT ![p] = None]
    BY <2>1 DEF Held, CallTypes
  <2> QED
    BY <2>2, <2>3 DEF StopOf
<1>2. ASSUME NEW d \in Destinations, Remove(d) PROVE TakeAwayFrom(d)
  <2>1. /\ UNCHANGED <<built, loaded>> /\ dirs' = [dirs EXCEPT ![d] = None]
    BY <1>2 DEF Remove
  <2>2. Shelf' = [Shelf EXCEPT ![d] = None]
    BY <2>1 DEF Shelf, On, CallTypes
  <2> QED
    BY <2>1, <2>2 DEF TakeAwayFrom, Held
<1>3. ASSUME NEW p \in Processes, ProcessAction(p) PROVE UNCHANGED <<built, dirs, loaded>>
  BY <1>3
  DEF ProcessAction, BeginWrite, CreateTemporary, WriteState, WriteMetadata,
      WriteFails, BeginLoad
<1>4. UNCHANGED <<built, dirs, loaded>> => UNCHANGED <<built, Shelf, Held>>
  BY DEF Shelf, Held
<1> QED
  BY <1>1, <1>2, <1>3, <1>4 DEF Next, vars

\* Writer, loader, crashes, losses of power and deletions implement the store: a
\* destination is filled once, with a whole capture or with one that is refused,
\* and what is loaded stands there whole at that very moment.
THEOREM StoreRefinement == Spec => ImplementsStore
<1>1. Init => Store!Start
  BY DEF Init, Store!Start
<1>2. IndInv /\ [Next]_vars => [Store!StoreNext]_<<built, Shelf, Held>>
  <2> SUFFICES ASSUME IndInv, [Next]_vars
               PROVE  \/ UNCHANGED <<built, Shelf, Held>>
                      \/ \E d \in Destinations : PutOn(d) \/ TakeAwayFrom(d)
                      \/ \E p \in Processes, d \in Destinations : TakeFrom(p, d)
                      \/ \E p \in Processes : StopOf(p)
                      \/ Loss
    BY DEF Store!StoreNext, Store!Put, Store!TakeAway, Store!Take, Store!Stop, Store!Disaster,
           PutOn, TakeAwayFrom, TakeFrom, StopOf, Loss, Shelf, Held, On
  <2>1. CASE LosePower
    BY <2>1, LosePowerImplements
  <2>2. CASE \E p \in Processes : Publish(p) \/ ReadState(p)
    BY <2>2, PublishImplements, ReadImplements
  <2>3. CASE ~LosePower /\ \A p \in Processes : ~Publish(p) /\ ~ReadState(p)
    BY <2>3, OtherSteps, TypeParts DEF IndInv
  <2> QED
    BY <2>1, <2>2, <2>3
<1> QED
  BY <1>1, <1>2, StoreInductive, PTL
  DEF Spec, ImplementsStore, Store!StoreSpec, Shelf, Held, On

-----------------------------------------------------------------------------
(* The off-band gate that a loaded state has to pass is right for states of  *)
(* any length.  The report is a maximum, and a maximum formed with std::max  *)
(* is never NaN when it starts from zero: it is positive exactly when some    *)
(* measured line has a positive quotient.                                    *)

\* The lines that the report has taken in.
Taken(i) == i \in 1 .. measured

\* A line with a positive quotient, as the code computes it.
Positive(line) == Relative(line) \in {One, Inf}

GateInv ==
  /\ candidate \in Seq(LineKinds)
  /\ measured \in 0 .. Len(candidate)
  /\ relative \in {Zero, One, Inf}
  /\ relative # Zero <=> \E i \in 1 .. Len(candidate) : Taken(i) /\ Positive(candidate[i])
  /\ verdict \in {"open", "accepted", "rejected"}
  /\ verdict # "open" => /\ measured = Len(candidate)
                         /\ verdict = "accepted" <=> relative = Zero

USE DEF Zero, One, Inf, NaN

\* std::max never returns a NaN it is given second, and is positive exactly when
\* one of its arguments is.
LEMMA MaxOfReport ==
  ASSUME NEW a \in {Zero, One, Inf}, NEW b \in Sums
  PROVE  /\ StdMax(a, b) \in {Zero, One, Inf}
         /\ StdMax(a, b) # Zero <=> a # Zero \/ b \in {One, Inf}
  BY DEF Sums, StdMax, Less

\* The quotient of a line the gate may meet is one of the sums it distinguishes.
\* A moderate off-band line has a positive one; one with a positive quotient is
\* off its band.
LEMMA QuotientOfLine ==
  ASSUME NEW line \in LineKinds
  PROVE  /\ Relative(line) \in Sums
         /\ Moderate(line) /\ OffBand(line) => Positive(line)
         /\ Positive(line) => OffBand(line)
  BY DEF LineKinds, Relative, Sums, Moderate, OffBand, Positive

\* Nothing is measured at first.
LEMMA InitGate == GateInit => GateInv
  BY BandsAssumption DEF GateInit, GateInv, Taken

\* One more line: the report is positive when it was, or when this line is.
LEMMA MeasureInductive ==
  ASSUME GateInv, MeasureLine
  PROVE  GateInv'
<1> DEFINE line == candidate[measured + 1]
<1>1. measured + 1 \in 1 .. Len(candidate)
  BY DEF GateInv, MeasureLine
<1>2. line \in LineKinds
  BY <1>1 DEF GateInv
<1>3. relative' = StdMax(relative, Relative(line)) /\ UNCHANGED <<candidate, verdict>>
  BY DEF MeasureLine
<1>4. /\ relative' \in {Zero, One, Inf}
      /\ relative' # Zero <=> relative # Zero \/ Positive(line)
  BY <1>2, <1>3, MaxOfReport, QuotientOfLine DEF GateInv, Positive
<1>5. \A i \in 1 .. Len(candidate) : Taken(i)' <=> Taken(i) \/ i = measured + 1
  BY <1>1 DEF Taken, MeasureLine, GateInv
<1>6. relative' # Zero <=> \E i \in 1 .. Len(candidate) : Taken(i)' /\ Positive(candidate[i])
  BY <1>1, <1>4, <1>5 DEF GateInv
<1> QED
  BY <1>1, <1>3, <1>4, <1>6 DEF GateInv, MeasureLine, Positive, Relative

\* The verdict is that of the report.
LEMMA DecideInductive ==
  ASSUME GateInv, Decide
  PROVE  GateInv'
  BY DEF GateInv, Decide, Taken, Positive, Relative, IsBandlimited

\* The report is positive exactly when a measured line has a positive quotient.
THEOREM GateInductive == GateSpec => []GateInv
<1>1. GateInv /\ [GateNext]_gateVars => GateInv'
  <2> SUFFICES ASSUME GateInv, [GateNext]_gateVars PROVE GateInv'
    OBVIOUS
  <2>1. CASE MeasureLine
    BY <2>1, MeasureInductive
  <2>2. CASE Decide
    BY <2>2, DecideInductive
  <2>3. CASE UNCHANGED gateVars
    BY <2>3 DEF GateInv, gateVars, Taken, Positive, Relative
  <2> QED
    BY <2>1, <2>2, <2>3 DEF GateNext
<1> QED
  BY <1>1, InitGate, PTL DEF GateSpec

\* However many lines a state has, one moderate off-band line among them has the
\* state rejected (measure_pipeline_state_off_band and its callers).
THEOREM GateRejectsOffBand == GateSpec => []OffBandLineRejected
<1>1. GateInv => OffBandLineRejected
  <2> SUFFICES ASSUME GateInv, verdict = "accepted",
                      NEW i \in 1 .. Len(candidate), Moderate(candidate[i]), OffBand(candidate[i])
               PROVE  FALSE
    BY DEF OffBandLineRejected
  <2>1. Taken(i)
    BY DEF GateInv, Taken
  <2>2. Positive(candidate[i])
    BY QuotientOfLine DEF GateInv
  <2> QED
    BY <2>1, <2>2 DEF GateInv
<1> QED
  BY <1>1, GateInductive, PTL

\* However many lines a state has and however large they are, it is rejected only
\* when one of them lies off its band.
THEOREM GateAcceptsInBand == GateSpec => []InBandAccepted
<1>1. GateInv => InBandAccepted
  <2> SUFFICES ASSUME GateInv, verdict = "rejected"
               PROVE  \E i \in 1 .. Len(candidate) : OffBand(candidate[i])
    BY DEF InBandAccepted
  <2>1. PICK i \in 1 .. Len(candidate) : Positive(candidate[i])
    BY DEF GateInv
  <2> QED
    BY <2>1, QuotientOfLine DEF GateInv
<1> QED
  BY <1>1, GateInductive, PTL
=============================================================================
