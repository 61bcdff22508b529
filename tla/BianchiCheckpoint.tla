-------------------------- MODULE BianchiCheckpoint --------------------------
(***************************************************************************)
(* The checkpoint of the curvature transport                               *)
(* (include/teuk/plus2_bianchi_transport_checkpoint.hpp).  A save writes to *)
(* a temporary file next to the target, always of the same name, and then   *)
(* renames it; a load validates everything it has read before it touches    *)
(* the transport.  Programs that share the directory run these step by step *)
(* at the same time, their writes may fail, and they may end at any moment. *)
(*                                                                         *)
(* A file is a node with two parts: the head, which is the metadata, among  *)
(* them the last generation and the checksum of the state, and the body,    *)
(* which is the state.  Equal states have equal checksums; no others do.    *)
(* A program keeps writing to the node it has opened, whatever has become   *)
(* of the name since.                                                       *)
(***************************************************************************)
EXTENDS Integers, Sequences

CONSTANTS
  Processes,      \* the programs, each with a transport of its own
  Builds,         \* geometries, methods, evidence and provenance that differ
  Contents,       \* finite states of a transport
  NotFinite,      \* a state with a number that is not finite
  LastGeneration, \* the largest std::uint64_t
  MaxChanges,     \* bound: initialisations and steps of all programs
  MaxNodes,       \* bound: files created
  None            \* nothing

ASSUME CheckpointAssumption ==
  /\ LastGeneration \in Nat \ {0} /\ MaxChanges \in Nat /\ MaxNodes \in Nat

VARIABLES
  built,      \* what the transport of each program was made with
  transport,  \* its initialized_, state_ and last_generation_
  call,       \* where the program is in a save or a load
  target,     \* the node under the target's name
  temporary,  \* the node under the temporary name
  nodes,      \* what has been written to each node
  changes,    \* history: initialisations and steps there have been
  captured,   \* history: what saves have taken from the transports
  loaded      \* history: what a load has given to each transport

filesVars == <<built, transport, call, target, temporary, nodes,
               changes, captured, loaded>>
files == <<target, temporary, nodes>>
history == <<changes, captured, loaded>>

\* A transport's state with what the metadata record of it.
Capture == [build: Builds, state: Contents, last: 0 .. LastGeneration]

ASSUME NoneAssumption == None \notin Capture \cup Contents \cup {NotFinite}

Fresh  == [initialized |-> FALSE, state |-> None, last |-> 0]
NoCall == [phase |-> "idle", capture |-> None, node |-> 0]
Empty  == [head |-> None, body |-> None]

FilesInit ==
  /\ built \in [Processes -> Builds]
  /\ transport = [p \in Processes |-> Fresh]
  /\ call = [p \in Processes |-> NoCall]
  /\ target = 0 /\ temporary = 0
  /\ nodes = <<>>
  /\ changes = 0 /\ captured = {}
  /\ loaded = [p \in Processes |-> None]

-----------------------------------------------------------------------------
(* The transport *)

\* The transport of a program that is in no call gets a state and a generation.
Change(p, state, last) ==
  /\ call[p] = NoCall /\ changes < MaxChanges
  /\ changes' = changes + 1
  /\ transport' = [transport EXCEPT ![p] =
       [initialized |-> TRUE, state |-> state, last |-> last]]
  /\ UNCHANGED <<built, call, files, captured>>

\* initialize: any state, which need not be finite.
Begin(p) ==
  /\ \E state \in Contents \cup {NotFinite} : Change(p, state, 0)
  /\ loaded' = [loaded EXCEPT ![p] = None]

\* A step of four stages gives the transport a new state, or the old one when it
\* adds nothing to it.
CompleteStep(p) ==
  /\ transport[p].last + 4 <= LastGeneration
  /\ \E state \in Contents \cup {NotFinite} :
       Change(p, state, transport[p].last + 4)

\* A step that an exception leaves keeps the state, but not the generation.
AbandonedStep(p) ==
  \E stages \in 1 .. 4 :
    /\ transport[p].last + stages <= LastGeneration
    /\ Change(p, transport[p].state, transport[p].last + stages)

Evolve(p) ==
  /\ transport[p].initialized
  /\ CompleteStep(p) \/ AbandonedStep(p)
  /\ UNCHANGED loaded

-----------------------------------------------------------------------------
(* save_plus2_bianchi_transport_checkpoint *)

\* The target must not exist, and what is captured must pass the checks that a
\* load repeats.
SaveAccepted(p) ==
  /\ transport[p].initialized /\ target = 0
  /\ transport[p].state # NotFinite
  /\ transport[p].last # LastGeneration

BeginSave(p) ==
  /\ call[p] = NoCall
  /\ SaveAccepted(p)
  /\ LET capture == [build |-> built[p], state |-> transport[p].state,
                     last |-> transport[p].last]
     IN  /\ call' = [call EXCEPT ![p] =
                       [phase |-> "check", capture |-> capture, node |-> 0]]
         /\ captured' = captured \cup {capture}
  /\ UNCHANGED <<built, transport, files, changes, loaded>>

Enter(p, phase) == call' = [call EXCEPT ![p].phase = phase]

\* The temporary must not exist; a program that ended in a save left it behind.
CheckTemporary(p) ==
  /\ call[p].phase = "check"
  /\ IF temporary = 0 THEN Enter(p, "create") ELSE call' = [call EXCEPT ![p] = NoCall]
  /\ UNCHANGED <<built, transport, files, history>>

\* std::ofstream with std::ios::trunc: by now the name may be another program's.
CreateTemporary(p) ==
  /\ call[p].phase = "create"
  /\ IF temporary = 0
     THEN /\ Len(nodes) < MaxNodes
          /\ nodes' = Append(nodes, Empty)
          /\ temporary' = Len(nodes) + 1
     ELSE /\ nodes' = [nodes EXCEPT ![temporary] = Empty]
          /\ UNCHANGED temporary
  /\ call' = [call EXCEPT ![p].phase = "head", ![p].node = temporary']
  /\ UNCHANGED <<built, transport, target, history>>

Write(p, part, value, from, to) ==
  /\ call[p].phase = from
  /\ nodes' = [nodes EXCEPT ![call[p].node][part] = value]
  /\ Enter(p, to)
  /\ UNCHANGED <<built, transport, target, temporary, history>>

WriteHead(p) == Write(p, "head", call[p].capture, "head", "body")
WriteBody(p) == Write(p, "body", call[p].capture.state, "body", "rename")

\* rename takes what now has the temporary name, also over a target that has
\* appeared, and throws when nothing has; the handler then removes nothing.
Rename(p) ==
  /\ call[p].phase = "rename"
  /\ IF temporary # 0
     THEN target' = temporary /\ temporary' = 0
     ELSE UNCHANGED <<target, temporary>>
  /\ call' = [call EXCEPT ![p] = NoCall]
  /\ UNCHANGED <<built, transport, nodes, history>>

\* Creating or writing fails: the handler removes the name, whoever's it is.
SaveFails(p) ==
  /\ call[p].phase \in {"head", "body", "rename"}
  /\ temporary' = 0
  /\ call' = [call EXCEPT ![p] = NoCall]
  /\ UNCHANGED <<built, transport, target, nodes, history>>

-----------------------------------------------------------------------------
(* load_plus2_bianchi_transport_checkpoint *)

BeginLoad(p) ==
  /\ call[p] = NoCall /\ target # 0
  /\ call' = [call EXCEPT ![p] =
       [phase |-> "load", capture |-> nodes[target].head, node |-> target]]
  /\ UNCHANGED <<built, transport, files, history>>

\* Fault: the checksum of the state is not compared.
FaultLoadAccepted(p, head, body) ==
  /\ head # None /\ body # None
  /\ head.last # LastGeneration
  /\ head.build = built[p]

\* read_payload, require_match and the checksum.
LoadAccepted(p, head, body) ==
  /\ head # None /\ body # None
  /\ head.last # LastGeneration
  /\ head.build = built[p]
  /\ head.state = body

\* What the transport is given: restore_checkpoint_state.
Restored(head, body) ==
  [initialized |-> TRUE, state |-> body, last |-> head.last]

FinishLoad(p) ==
  /\ call[p].phase = "load"
  /\ LET head == call[p].capture
         body == nodes[call[p].node].body
     IN  IF LoadAccepted(p, head, body)
         THEN /\ transport' = [transport EXCEPT ![p] = Restored(head, body)]
              /\ loaded' = [loaded EXCEPT ![p] =
                   [build |-> head.build, state |-> body, last |-> head.last]]
         ELSE UNCHANGED <<transport, loaded>>
  /\ call' = [call EXCEPT ![p] = NoCall]
  /\ UNCHANGED <<built, files, changes, captured>>

-----------------------------------------------------------------------------

\* The program ends, and another with the same build starts.
Crash(p) ==
  /\ transport' = [transport EXCEPT ![p] = Fresh]
  /\ call' = [call EXCEPT ![p] = NoCall]
  /\ loaded' = [loaded EXCEPT ![p] = None]
  /\ UNCHANGED <<built, files, changes, captured>>

\* The owner removes a file that nobody is reading.
RemoveFile ==
  /\ \A p \in Processes : call[p].phase # "load"
  /\ \/ target # 0 /\ target' = 0 /\ UNCHANGED temporary
     \/ temporary # 0 /\ temporary' = 0 /\ UNCHANGED target
  /\ UNCHANGED <<built, transport, call, nodes, history>>

FilesNext ==
  \/ \E p \in Processes :
       \/ Begin(p) \/ Evolve(p)
       \/ BeginSave(p) \/ CheckTemporary(p) \/ CreateTemporary(p)
       \/ WriteHead(p) \/ WriteBody(p) \/ Rename(p) \/ SaveFails(p)
       \/ BeginLoad(p) \/ FinishLoad(p) \/ Crash(p)
  \/ RemoveFile

FilesSpec == FilesInit /\ [][FilesNext]_filesVars

-----------------------------------------------------------------------------
(* Properties *)

Heads  == Capture \cup {None}
Bodies == Contents \cup {None}

\* The types of the variables.
FilesTypeOK ==
  /\ built \in [Processes -> Builds]
  /\ transport \in [Processes -> [initialized: BOOLEAN,
                                  state: Contents \cup {NotFinite, None},
                                  last: 0 .. LastGeneration]]
  /\ call \in [Processes ->
       [phase: {"idle", "check", "create", "head", "body", "rename", "load"},
        capture: Heads, node: 0 .. MaxNodes]]
  /\ target \in 0 .. Len(nodes) /\ temporary \in 0 .. Len(nodes)
  /\ nodes \in Seq([head: Heads, body: Bodies]) /\ Len(nodes) <= MaxNodes
  /\ changes \in 0 .. MaxChanges
  /\ captured \subseteq Capture
  /\ loaded \in [Processes -> Heads]

\* Whatever two savers and a reader do to one file at the same time, a load gives
\* build, state and last generation together as one save has taken them, from a
\* transport that was built alike, though the head and the body it read may have
\* been written by two saves, of one state even with different generations.  The
\* transport has that state until it evaluates a stage, and its generations go on
\* from the one it was given, also over steps that exceptions leave.
LoadedIsOneCapture ==
  \A p \in Processes : loaded[p] # None =>
    /\ loaded[p] \in captured
    /\ loaded[p].build = built[p]
    /\ transport[p].last >= loaded[p].last
    /\ transport[p].last = loaded[p].last => transport[p].state = loaded[p].state

\* "Validates ... before mutating device storage": a load that does not accept
\* what it has read leaves the transport as it was.
LoadIsAllOrNothing ==
  [][\A p \in Processes :
       call[p].phase = "load" /\ transport'[p] # transport[p] =>
         \/ /\ loaded'[p] # None
            /\ transport'[p] = Restored(loaded'[p], loaded'[p].state)
         \/ transport'[p] = Fresh]_filesVars

=============================================================================
