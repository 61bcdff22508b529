--------------------------- MODULE ActivationLatch ---------------------------
(***************************************************************************)
(* What the second-order source gate promises, with nothing of how the     *)
(* Runge-Kutta driver achieves it.  A solution is carried forward in time  *)
(* by substeps; a one-way latch may close at a state that has been         *)
(* reached, never before the causal start; a substep is forced exactly     *)
(* when the latch had closed by the time the substep began, and no substep *)
(* crosses the causal start.  A solution may be put back to any state that *)
(* was published, latch included.                                          *)
(*                                                                         *)
(* SpatialPipeline.tla implements this module: see Refinement there.       *)
(***************************************************************************)
EXTENDS Integers

CONSTANT Open      \* the latch has not closed

VARIABLES
  start,           \* the causal start, fixed when the solution is set up
  frontier,        \* the time the solution has been carried to
  latch,           \* Open, or the time at which the latch closed
  history,         \* the substeps taken, each with whether it was forced
  published        \* solutions that can be returned to

latchVars == <<start, frontier, latch, history, published>>

Solution == [frontier |-> frontier, latch |-> latch, history |-> history]

\* A solution that starts at its causal start may start with the latch closed.
OpenOrClosedAtOnce == IF start = 0 THEN {Open, 0} ELSE {Open}

LatchInit ==
  /\ start \in Nat
  /\ frontier = 0
  /\ latch \in OpenOrClosedAtOnce
  /\ history = {}
  /\ published = {}

\* One substep: it ends later than it began, it does not cross the causal
\* start, and it is forced exactly when the latch is closed.
Substep ==
  /\ frontier' \in Nat
  /\ frontier < frontier'
  /\ ~(frontier < start /\ start < frontier')
  /\ history' = history \cup {[from   |-> frontier, to |-> frontier',
                                forced |-> latch # Open]}
  /\ UNCHANGED <<start, latch, published>>

\* The latch closes at the state that has been reached, once.
Close ==
  /\ latch = Open
  /\ frontier >= start
  /\ latch' = frontier
  /\ UNCHANGED <<start, frontier, history, published>>

Publish ==
  /\ published' = {Solution}
  /\ UNCHANGED <<start, frontier, latch, history>>

Return ==
  /\ \E s \in published : /\ frontier' = s.frontier
                          /\ latch' = s.latch
                          /\ history' = s.history
  /\ UNCHANGED <<start, published>>

\* New initial data: the solution starts over, the published one remains.
StartOver ==
  /\ frontier' = 0
  /\ latch' \in OpenOrClosedAtOnce
  /\ history' = {}
  /\ UNCHANGED <<start, published>>

LatchNext == Substep \/ Close \/ Publish \/ Return \/ StartOver

LatchSpec == LatchInit /\ [][LatchNext]_latchVars
=============================================================================
