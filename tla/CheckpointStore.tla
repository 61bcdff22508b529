--------------------------- MODULE CheckpointStore ---------------------------
(***************************************************************************)
(* What pipeline checkpoints promise to the programs that share a place to *)
(* keep them: a destination holds nothing, one whole capture, or something *)
(* that cannot be loaded; it is filled once and never rewritten; and what  *)
(* a pipeline loads is a capture that stands there whole at that moment,   *)
(* was taken from a pipeline built alike, and lies in its angular bands.   *)
(***************************************************************************)
CONSTANTS
  Processes,     \* the programs, each with a pipeline of its own
  Destinations,  \* the directories checkpoints are published in
  Captures,      \* captures of a pipeline, with fields built and inBand
  Nothing,       \* an empty destination, or a pipeline that loaded nothing
  Damaged        \* content that is no capture

VARIABLES
  built,   \* what the pipeline of each process was constructed with
  shelf,   \* what each destination holds
  held     \* the capture each pipeline was last loaded from

Start ==
  /\ shelf = [d \in Destinations |-> Nothing]
  /\ held  = [p \in Processes |-> Nothing]

Put(d) ==
  /\ shelf[d] = Nothing
  /\ \E content \in Captures \cup {Damaged} :
       shelf' = [shelf EXCEPT ![d] = content]
  /\ UNCHANGED <<built, held>>

TakeAway(d) ==
  /\ shelf' = [shelf EXCEPT ![d] = Nothing]
  /\ UNCHANGED <<built, held>>

Take(p, d) ==
  /\ shelf[d] \in Captures
  /\ shelf[d].built = built[p] /\ shelf[d].inBand
  /\ held' = [held EXCEPT ![p] = shelf[d]]
  /\ UNCHANGED <<built, shelf>>

\* A process is gone, or the machine and with it some of the content.
Stop(p) ==
  /\ held' = [held EXCEPT ![p] = Nothing]
  /\ UNCHANGED <<built, shelf>>

Disaster ==
  /\ shelf' \in [Destinations -> Captures \cup {Nothing, Damaged}]
  /\ \A d \in Destinations : shelf'[d] \in {shelf[d], Nothing, Damaged}
  /\ held' = [p \in Processes |-> Nothing]
  /\ UNCHANGED built

StoreNext ==
  \/ \E d \in Destinations : Put(d) \/ TakeAway(d)
  \/ \E p \in Processes, d \in Destinations : Take(p, d)
  \/ \E p \in Processes : Stop(p)
  \/ Disaster

StoreSpec == Start /\ [][StoreNext]_<<built, shelf, held>>
=============================================================================
