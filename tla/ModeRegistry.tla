------------------------------ MODULE ModeRegistry ------------------------------
(*******************************************************************************)
(* The bookkeeping of signed azimuthal modes (modes.hpp): which modes are      *)
(* stored, which are parents of products, which are targets, and the ordered   *)
(* pairs of parents that contribute to each target.  Everything in the program *)
(* that is indexed by mode goes through it.                                    *)
(*                                                                             *)
(* Modes are C++ ints, from IntMin to IntMax.  A list of modes is a sequence   *)
(* as a caller hands it over: in any order, perhaps with repetitions.  Storage *)
(* positions count from 0.                                                     *)
(*******************************************************************************)
EXTENDS Integers, Sequences, SequencesExt, FiniteSets

CONSTANTS IntMin, IntMax,   \* the range of int
          Refused           \* the outcome of a call that throws

ASSUME IntAssumption == IntMin \in Int /\ IntMax \in Int

Ints == IntMin .. IntMax

\* A finite set of modes, or of indices, in ascending order.
Ascending(S) ==
    [i \in 1 .. Cardinality(S) |->
        CHOOSE n \in S : Cardinality({k \in S : k < n}) = i - 1]

\* A list that names no mode twice, in ascending order.
Sorted(list) == Ascending(ToSet(list))

\* sorted_unique: a list that names a mode twice is refused, never repaired.
Repeats(list) == Cardinality(ToSet(list)) # Len(list)

FaultPairsOf(parents, target) ==
    LET first == Ascending({m \in ToSet(parents) : /\ target - m \in ToSet(parents)
                                                   /\ m <= target - m})
    IN  [i \in 1 .. Len(first) |->
            [m1 |-> first[i], m2 |-> target - first[i], target |-> target]]

\* The pairs of one target, in the order of the first parent, as the parents are.
\* The partner is computed in a wider type and dropped where it is no int.
PairsOf(parents, target) ==
    LET first == Ascending({m \in ToSet(parents) : /\ target - m \in Ints
                                                   /\ target - m \in ToSet(parents)})
    IN  [i \in 1 .. Len(first) |->
            [m1 |-> first[i], m2 |-> target - first[i], target |-> target]]

\* Where the pairs of each target begin, and where the last ones end.
PairOffsets(parents, targets) ==
    [i \in 1 .. Len(targets) + 1 |->
        Len(FlattenSeq([j \in 1 .. i - 1 |-> PairsOf(parents, targets[j])]))]

Registry(modes, parents, targets) ==
    IF \/ \E list \in {modes, parents, targets} : Repeats(list) \/ list = << >>
       \/ ~ ToSet(parents) \cup ToSet(targets) \subseteq ToSet(modes)
    THEN Refused
    ELSE LET ps == Sorted(parents)
             ts == Sorted(targets)
         IN  [modes |-> Sorted(modes), parents |-> ps, targets |-> ts,
              representatives |-> Ascending({m \in ToSet(modes) : m >= 0}),
              \* the pairs of all targets, target by target
              pairs |-> FlattenSeq([i \in 1 .. Len(ts) |-> PairsOf(ps, ts[i])]),
              offsets |-> PairOffsets(ps, ts)]

Stored(registry, mode) == mode \in ToSet(registry.modes)
IsParent(registry, mode) == mode \in ToSet(registry.parents)

ClosedUnderSharp(registry) ==
    \A m \in ToSet(registry.modes) : m # IntMin /\ Stored(registry, -m)

\* A half-open range of positions in the list of pairs.
PairRange(registry, target) ==
    IF target \in ToSet(registry.targets)
    THEN LET i == CHOOSE i \in 1 .. Len(registry.targets) :
                      registry.targets[i] = target
         IN  <<registry.offsets[i], registry.offsets[i + 1]>>
    ELSE Refused

-------------------------------------------------------------------------------
(* Which products of first-order modes the second-order modes leave out.       *)

Daughters(first) == {l + r : l \in ToSet(first), r \in ToSet(first)}

MissingDaughters(first, second) ==
    IF first = << >> \/ ~ Daughters(first) \subseteq Ints
    THEN Refused
    ELSE Daughters(first) \ ToSet(second)
===============================================================================
