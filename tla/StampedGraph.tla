---------------------------- MODULE StampedGraph ----------------------------
(***************************************************************************)
(* Device memory whose slots carry stamps: every stored mode of a slot has  *)
(* a token, which names the generation and the stage of the computation     *)
(* that wrote it, and the number of radial Taylor orders that are valid     *)
(* under that token.  A consumer that does not find the token it expects    *)
(* for the orders it needs takes the slot for missing.                      *)
(***************************************************************************)
EXTENDS KernelGraph

\* The generation no stage has; also what a cleared slot is stamped with.
NoToken == <<>>
NoStamp == [token |-> NoToken, orders |-> 0]
Stamp(token, orders) ==
  IF orders = 0 THEN NoStamp ELSE [token |-> token, orders |-> orders]

Blank(slots) ==
  [mem   |-> [s \in slots |-> Zero],
   stamp |-> [s \in slots |-> [m \in Modes |-> NoStamp]]]

Launch(d, kernel) == [d EXCEPT !.mem = After(@, kernel)]

Finite(d, slots) ==
  \A s \in slots, m \in Modes : NonFinite \notin d.mem[s][m]

\* The orders a consumer asks for are there under the token, for every mode.
Bears(d, slot, m, token, orders) ==
  d.stamp[slot][m].token = token /\ d.stamp[slot][m].orders >= orders
AllBear(d, slots, token, orders) ==
  \A s \in slots, m \in Modes : Bears(d, s, m, token, orders)

Cleared(d, slots) ==
  [mem   |-> [s \in DOMAIN d.mem |-> IF s \in slots THEN Zero ELSE d.mem[s]],
   stamp |-> [s \in DOMAIN d.mem |->
                IF s \in slots THEN [m \in Modes |-> NoStamp] ELSE d.stamp[s]]]

\* Slots made copies of others, with one stamp for all their modes; without a
\* valid order there is nothing to copy.
Filled(d, from, token, orders) ==
  [mem |-> [s \in DOMAIN d.mem |->
      IF s \notin DOMAIN from THEN d.mem[s]
      ELSE IF orders = 0 THEN Zero ELSE d.mem[from[s]]],
   stamp |-> [s \in DOMAIN d.mem |->
      IF s \notin DOMAIN from THEN d.stamp[s]
      ELSE [m \in Modes |-> Stamp(token, orders)]]]

\* What is written is marked: a product with the background leaves the band.
MarkedAs(d, slots, mark) ==
  [d EXCEPT !.mem = [s \in DOMAIN @ |->
     IF s \notin slots THEN @[s]
     ELSE [m \in Modes |-> IF @[s][m] = {} THEN {} ELSE @[s][m] \cup {mark}]]]

\* Angular operators: each slot of "of" is made of a slot, its value, to which
\* the operator adds the time derivative it is given.
Angular(d, of) ==
  LET there == Launch(d, {To(s[1], s[2], {Own(of[s].value[1], of[s].value[2])} \cup of[s].dt) :
                            s \in DOMAIN of})
  IN  [there EXCEPT !.mem = [s \in DOMAIN @ |->
        IF s \notin DOMAIN of THEN @[s]
        ELSE [m \in Modes |->
               LET spread == IF OffBand \in d.mem[of[s].value][m] THEN {Aliased} ELSE {}
               IN  (@[s][m] \ {OffBand}) \cup spread]]]

\* The projection onto the band, of slots made of others.
Projected(d, from) ==
  [d EXCEPT !.mem = [s \in DOMAIN @ |->
     IF s \notin DOMAIN from THEN @[s]
     ELSE [m \in Modes |-> @[from[s]][m] \ {OffBand}]]]

\* A mode of a row is stamped if it is finite and each of the row's sources has
\* the token expected of it, and zeroed otherwise.
Source(slot, token) == [slot |-> slot, token |-> token]
RowsStamped(d, rows, orders, token) ==
  LET valid == [s \in DOMAIN rows |-> [m \in Modes |->
        /\ NonFinite \notin d.mem[s][m]
        /\ \A from \in rows[s] : Bears(d, from.slot, m, from.token, orders)]]
  IN  [mem   |-> [s \in DOMAIN d.mem |->
          IF s \notin DOMAIN rows THEN d.mem[s]
          ELSE [m \in Modes |-> IF valid[s][m] THEN d.mem[s][m] ELSE {}]],
       stamp |-> [s \in DOMAIN d.mem |->
          IF s \notin DOMAIN rows THEN d.stamp[s]
          ELSE [m \in Modes |-> IF valid[s][m] THEN Stamp(token, orders) ELSE NoStamp]]]
=============================================================================
