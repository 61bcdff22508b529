---------------------------- MODULE KernelGraph ----------------------------
(***************************************************************************)
(* What a sequence of kernels does to device memory, as dependences.       *)
(*                                                                         *)
(* Memory maps a slot, one field of one view, to what it holds for every   *)
(* stored mode: the set of inputs its numbers were computed from.  A number *)
(* that is exactly zero depends on nothing.  The numbers, the radial line   *)
(* and the angular nodes are left out: a kernel is pointwise or stays       *)
(* within one line or one plane of a mode, and a read names the modes it    *)
(* crosses to.                                                              *)
(***************************************************************************)
EXTENDS Integers, Sequences, SequencesExt

CONSTANT Modes   \* ModeRegistry::modes, the stored signed azimuthal modes

ASSUME ModesAssumption ==
  /\ Modes \subseteq Int /\ Modes # {}
  /\ \A m \in Modes : -m \in Modes

\* An input of the graph: a field of a mode, at the stage that the buffer it
\* came from held, with the time derivatives taken of it.
InputOf(field, stage, mode, rate) ==
  [field |-> field, stage |-> stage, mode |-> mode, rate |-> rate]

\* A number that is not finite; content outside the band of the angular basis,
\* which a product with the background makes; and what an angular operator that
\* reads such content leaves.  Everything computed from one has the mark too.
NonFinite == InputOf("NonFinite", 0, 0, 0)
OffBand   == InputOf("OffBand", 0, 0, 0)
Aliased   == InputOf("Aliased", 0, 0, 0)
Marks     == {NonFinite, OffBand, Aliased}

\* A read of the same mode, with the time derivatives by which the slot is
\* ahead of the quantity the kernel works on, and one of the mirrored mode,
\* X_m^sharp being the conjugate of X_{-m}.
Own(view, field)   == [slot |-> <<view, field>>, sign |-> 1, rate |-> 0]
Dt(view, field)    == [slot |-> <<view, field>>, sign |-> 1, rate |-> 1]
Sharp(view, field) == [slot |-> <<view, field>>, sign |-> -1, rate |-> 0]

\* A read of a jet: the value and its time derivative.
Jet(view, field, dtField) == {Own(view, field), Dt(view, dtField)}

\* One result of a kernel: the slot it writes, the reads it is computed from,
\* and the time derivatives the kernel itself takes.
To(view, field, reads)        == [slot |-> <<view, field>>, reads |-> reads, raise |-> 0]
RateTo(view, field, reads)    == [slot |-> <<view, field>>, reads |-> reads, raise |-> 1]

Copies(from, to, fields) == {To(to, f, {Own(from, f)}) : f \in fields}

\* A kernel that has found its inputs invalid writes zeros.
Gated(ready, kernel) ==
  IF ready THEN kernel ELSE {[r EXCEPT !.reads = {}] : r \in kernel}

\* eth and ethprime of a field need its time derivative.
Eth(view, field, dtField, out, slot) == {To(out, slot, Jet(view, field, dtField))}

Moved(i, by) == IF i \in Marks THEN i ELSE [i EXCEPT !.rate = @ + by]

Result(memory, result, m) ==
  UNION {{Moved(i, result.raise - r.rate) : i \in memory[r.slot][r.sign * m]} :
         r \in result.reads}

\* Memory after a kernel: several results for one slot add up.
After(memory, kernel) ==
  LET written == {r.slot : r \in kernel}
  IN  [s \in DOMAIN memory |->
         IF s \notin written THEN memory[s]
         ELSE [m \in Modes |->
                 UNION {Result(memory, r, m) : r \in {q \in kernel : q.slot = s}}]]

\* Memory after kernels launched one behind the other.
Run(memory, kernels) ==
  LET done[n \in 0 .. Len(kernels)] ==
        IF n = 0 THEN memory ELSE After(done[n - 1], kernels[n])
  IN  done[Len(kernels)]

\* Everything the fields of a view were computed from.
InputsOf(memory, view, fields) ==
  UNION {memory[<<view, f>>][m] : f \in fields, m \in Modes}

Zero == [m \in Modes |-> {}]
=============================================================================
