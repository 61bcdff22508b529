--------------------------- MODULE RouteBTowerProofs ---------------------------
(***************************************************************************)
(* Proofs about RouteBTower, for every set of modes, of generations and any *)
(* number of stages, whatever inputs are flawed and wherever a kernel        *)
(* overflows.                                                              *)
(*                                                                         *)
(* A slot is void (zero and unstamped), whole in its band, or whole with     *)
(* content outside of it (Kinds); a group of slots that is filled together   *)
(* is of one kind (Group).  Each operation of the coordinator is followed     *)
(* through its kernels: what it reads is of a kind, so what it leaves is of   *)
(* one, and all that it does not touch is as it was (Frame).  Lemmas named    *)
(* Ready say so of a step whose inputs are there, lemmas named Void of one    *)
(* whose inputs are not, and lemmas named Done put the two together.          *)
(*                                                                         *)
(* The construction of a level goes through Ground (what the passes start    *)
(* from), PassLeft (where each pass is left: projected onto the band, or all   *)
(* of the next level taken back) and LevelMet (what a level is once built).   *)
(* TowerInv says it of all the levels reached (Reached), and that angular      *)
(* operators have read nothing that is outside of the band (Sound).           *)
(***************************************************************************)
EXTENDS RouteBTower, KernelGraphProofs, TLAPS

-----------------------------------------------------------------------------
(* What slots hold *)

\* The numbers of a mode m of a time derivative of stage id: of that mode or of its
\* mirror image.
Made(id, rate, m) ==
  [field: Fields, stage: {id}, mode: {m, -m}, rate: {rate}]

\* What a number of the mirrored mode is made of.
Reflected(i) == [i EXCEPT !.mode = -@]

\* A slot that is there for all modes and is symmetric, perhaps with content outside
\* the band (extra).
Holds(memory, s, id, rate, extra) ==
  \A m \in Modes :
    /\ memory[s][m] \ extra # {}
    /\ memory[s][m] \subseteq Made(id, rate, m) \cup extra
    /\ \A i \in memory[s][m] : Reflected(i) \in memory[s][-m]
Extras == {{}, {OffBand}}

\* A device has all slots, and nothing that an angular operator has aliased.
Tame == {NonFinite, OffBand} \cup
        [field: Fields, stage: Int, mode: Int, rate: Int]
Sound(d) ==
  /\ d = [mem |-> d.mem, stamp |-> d.stamp]
  /\ DOMAIN d.mem = TowerSlots /\ DOMAIN d.stamp = TowerSlots
  /\ \A s \in TowerSlots : DOMAIN d.mem[s] = Modes
  /\ \A s \in TowerSlots, m \in Modes : d.mem[s][m] \subseteq Tame

\* Slots whole and stamped; slots zero and unstamped; slots left alone.
Stamped(d, s, token, orders) ==
  \A m \in Modes : d.stamp[s][m] = [token |-> token, orders |-> orders]
Void(d, s) == \A m \in Modes : d.mem[s][m] = {} /\ d.stamp[s][m] = NoStamp
Same(d, e, slots) == \A s \in slots : e.mem[s] = d.mem[s] /\ e.stamp[s] = d.stamp[s]

LEMMA MarksApart ==
  /\ NonFinite # OffBand /\ NonFinite # Aliased /\ OffBand # Aliased
  /\ Aliased \notin Tame
  /\ \A id, rate : \A m \in Modes : Marks \cap Made(id, rate, m) = {}
<1>1. NonFinite.field = "NonFinite" /\ OffBand.field = "OffBand" /\ Aliased.field = "Aliased"
  BY DEF NonFinite, OffBand, Aliased, InputOf
<1>2. \A f \in Fields : f \notin {"NonFinite", "OffBand", "Aliased"}
  BY DEF Fields, MasterFields, MetricFields
<1> QED
  BY <1>1, <1>2 DEF Tame, Made, Marks

LEMMA MadeTame ==
  ASSUME NEW id \in Int, NEW rate \in Int, NEW m \in Modes
  PROVE  Made(id, rate, m) \subseteq Tame
  BY ModesAssumption DEF Made, Tame

LEMMA ReflectedMark == Reflected(OffBand) = OffBand
  BY DEF Reflected, OffBand, InputOf

\* Moved keeps the marks and moves the rates.
LEMMA MovedMade ==
  ASSUME NEW id, NEW rate \in Int, NEW by \in Int, NEW m \in Modes, NEW i \in Made(id, rate, m)
  PROVE  /\ Moved(i, by) \in Made(id, rate + by, m)
         /\ Moved(i, by) \in Made(id, rate + by, -m)
         /\ Reflected(Moved(i, by)) = Moved(Reflected(i), by)
<1>1. m \in Int /\ -m \in Modes /\ -(-m) = m
  BY ModesAssumption
<1>2. i \notin Marks
  BY MarksApart
<1>3. Reflected(i) \in Made(id, rate, m)
  BY <1>1 DEF Reflected, Made
<1>4. Reflected(i) \notin Marks
  BY <1>3, MarksApart
<1> QED
  BY <1>1, <1>2, <1>4 DEF Moved, Made, Reflected

LEMMA MovedTame ==
  ASSUME NEW by \in Int, NEW i \in Tame
  PROVE  Moved(i, by) \in Tame
<1>1. CASE i \in Marks
  BY <1>1 DEF Moved
<1>2. CASE i \notin Marks
  <2>1. i \in [field: Fields, stage: Int, mode: Int, rate: Int]
    BY <1>2 DEF Tame, Marks
  <2>2. Moved(i, by) = [i EXCEPT !.rate = @ + by]
    BY <1>2 DEF Moved
  <2> QED
    BY <2>1, <2>2 DEF Tame
<1> QED
  BY <1>1, <1>2

\* Held slots are finite, tame and symmetric.
LEMMA HoldsFinite ==
  ASSUME NEW memory, NEW s, NEW id \in Int, NEW rate \in Int, NEW extra \in Extras,
         Holds(memory, s, id, rate, extra)
  PROVE  \A m \in Modes : /\ NonFinite \notin memory[s][m]
                          /\ memory[s][m] \subseteq Tame
                          /\ extra = {} => OffBand \notin memory[s][m]
<1> SUFFICES ASSUME NEW m \in Modes
             PROVE  /\ NonFinite \notin memory[s][m]
                    /\ memory[s][m] \subseteq Tame
                    /\ extra = {} => OffBand \notin memory[s][m]
  OBVIOUS
<1>1. memory[s][m] \subseteq Made(id, rate, m) \cup extra
  BY DEF Holds
<1>2. extra \subseteq {OffBand}
  BY DEF Extras
<1>3. NonFinite \notin Made(id, rate, m) /\ OffBand \notin Made(id, rate, m)
  BY MarksApart DEF Marks
<1>4. Made(id, rate, m) \subseteq Tame
  BY MadeTame
<1>5. OffBand \in Tame
  BY DEF Tame
<1> QED
  BY <1>1, <1>2, <1>3, <1>4, <1>5, MarksApart

AllReflected(numbers) == {[i EXCEPT !.mode = -@] : i \in numbers}

LEMMA HoldsMirror ==
  ASSUME NEW memory, NEW s, NEW id, NEW rate, NEW m \in Modes,
         Holds(memory, s, id, rate, {})
  PROVE  memory[s][-m] = AllReflected(memory[s][m])
<1>1. m \in Int /\ -m \in Modes /\ -(-m) = m
  BY ModesAssumption
<1>2. \A i \in memory[s][m] : Reflected(i) \in memory[s][-m]
  BY DEF Holds
<1>3. \A i \in memory[s][-m] : Reflected(i) \in memory[s][m]
  BY <1>1 DEF Holds
<1>4. \A i \in memory[s][-m] : Reflected(Reflected(i)) = i
  <2> SUFFICES ASSUME NEW i \in memory[s][-m] PROVE Reflected(Reflected(i)) = i
    OBVIOUS
  <2>1. i \in Made(id, rate, -m)
    BY <1>1 DEF Holds
  <2>2. i \in [field: Fields, stage: {id}, mode: Int, rate: {rate}]
    BY <2>1, <1>1 DEF Made
  <2>3. i = [field |-> i.field, stage |-> id, mode |-> i.mode, rate |-> rate] /\ i.mode \in Int
    BY <2>2
  <2> DEFINE back == [field |-> i.field, stage |-> id, mode |-> -i.mode, rate |-> rate]
  <2>4. Reflected(i) = back
    BY <2>3 DEF Reflected
  <2>5. Reflected(back) = [field |-> i.field, stage |-> id, mode |-> -(-i.mode), rate |-> rate]
    BY DEF Reflected
  <2>6. -(-i.mode) = i.mode
    BY <2>3
  <2> QED
    BY <2>3, <2>4, <2>5, <2>6
<1>5. AllReflected(memory[s][m]) = {Reflected(i) : i \in memory[s][m]}
  BY DEF AllReflected, Reflected
<1>6. memory[s][-m] \subseteq {Reflected(i) : i \in memory[s][m]}
  BY <1>3, <1>4
<1>7. {Reflected(i) : i \in memory[s][m]} \subseteq memory[s][-m]
  BY <1>2
<1> QED
  BY <1>5, <1>6, <1>7

-----------------------------------------------------------------------------
(* The operations on stamped memory *)

LEMMA ClearedKeeps ==
  ASSUME NEW d, Sound(d), NEW slots
  PROVE  /\ Sound(Cleared(d, slots))
         /\ \A s \in TowerSlots : s \in slots => Void(Cleared(d, slots), s)
         /\ Same(d, Cleared(d, slots), TowerSlots \ slots)
  BY DEF Cleared, Sound, Void, Same, Zero

LEMMA FilledKeeps ==
  ASSUME NEW d, Sound(d), NEW from, NEW token, NEW orders \in Nat,
         DOMAIN from \subseteq TowerSlots,
         \A s \in DOMAIN from : from[s] \in TowerSlots
  PROVE  /\ Sound(Filled(d, from, token, orders))
         /\ \A s \in DOMAIN from :
              IF orders = 0 THEN Void(Filled(d, from, token, orders), s)
              ELSE /\ Filled(d, from, token, orders).mem[s] = d.mem[from[s]]
                   /\ Stamped(Filled(d, from, token, orders), s, token, orders)
         /\ Same(d, Filled(d, from, token, orders), TowerSlots \ DOMAIN from)
<1> DEFINE e == Filled(d, from, token, orders)
<1>1. /\ e = [mem |-> e.mem, stamp |-> e.stamp]
      /\ DOMAIN e.mem = TowerSlots /\ DOMAIN e.stamp = TowerSlots
  BY DEF Filled, Sound
<1>2. \A s \in TowerSlots : s \notin DOMAIN from => e.mem[s] = d.mem[s] /\ e.stamp[s] = d.stamp[s]
  BY DEF Filled, Sound
<1>3. \A s \in DOMAIN from :
        /\ e.mem[s] = IF orders = 0 THEN Zero ELSE d.mem[from[s]]
        /\ \A m \in Modes : e.stamp[s][m] = Stamp(token, orders)
  BY DEF Filled, Sound
<1>4. \A m \in Modes : Zero[m] = {}
  BY DEF Zero
<1> HIDE DEF e
<1>5. \A s \in TowerSlots, m \in Modes : e.mem[s][m] \subseteq Tame
  BY <1>2, <1>3, <1>4 DEF Sound
<1>6. \A s \in DOMAIN from :
        IF orders = 0 THEN Void(e, s)
        ELSE e.mem[s] = d.mem[from[s]] /\ Stamped(e, s, token, orders)
  BY <1>3, <1>4 DEF Void, Stamped, Stamp
<1>9. \A s \in TowerSlots : DOMAIN e.mem[s] = Modes
  BY <1>2, <1>3 DEF Sound, Zero
<1>7. Sound(e)
  BY <1>1, <1>5, <1>9 DEF Sound
<1>8. Same(d, e, TowerSlots \ DOMAIN from)
  BY <1>2 DEF Same
<1> QED
  BY <1>6, <1>7, <1>8 DEF e

LEMMA AfterModes ==
  ASSUME NEW memory, NEW kernel, NEW s \in DOMAIN memory, s \in Written(kernel)
  PROVE  DOMAIN After(memory, kernel)[s] = Modes
  BY DEF After, Written

\* What a kernel leaves at a mode, it has read somewhere.
ReadFrom(memory, kernel, m, i) ==
  \E r \in kernel : \E q \in r.reads : \E j \in memory[q.slot][q.sign * m] :
    i = Moved(j, r.raise - q.rate)

LEMMA LaunchReads ==
  ASSUME NEW d, Sound(d), NEW kernel, NEW s \in TowerSlots, s \in Written(kernel),
         NEW m \in Modes, NEW i \in Launch(d, kernel).mem[s][m]
  PROVE  ReadFrom(d.mem, kernel, m, i)
<1>1. i \in After(d.mem, kernel)[s][m]
  BY DEF Launch, Sound
<1>2. s \in DOMAIN d.mem
  BY DEF Sound
<1> QED
  BY <1>1, <1>2, AfterWritten DEF ReadFrom

LEMMA LaunchKeeps ==
  ASSUME NEW d, Sound(d), NEW kernel,
         \A r \in kernel : \A q \in r.reads :
           /\ q.slot \in TowerSlots /\ q.sign \in {1, -1}
           /\ q.rate \in Int /\ r.raise \in Int
  PROVE  /\ Sound(Launch(d, kernel))
         /\ Same(d, Launch(d, kernel), TowerSlots \ Written(kernel))
         /\ Launch(d, kernel).mem = After(d.mem, kernel)
         /\ Launch(d, kernel).stamp = d.stamp
<1> DEFINE e == Launch(d, kernel)
<1>1. e = [mem |-> After(d.mem, kernel), stamp |-> d.stamp]
  BY DEF Launch, Sound
<1>2. DOMAIN e.mem = TowerSlots
  BY <1>1, AfterDomain DEF Sound
<1>3. \A s \in TowerSlots : s \notin Written(kernel) => e.mem[s] = d.mem[s]
  BY <1>1, AfterElsewhere DEF Sound
<1>4. ASSUME NEW s \in TowerSlots, NEW m \in Modes, NEW i \in e.mem[s][m]
      PROVE  i \in Tame
  <2>1. CASE s \notin Written(kernel)
    BY <2>1, <1>3, <1>4 DEF Sound
  <2>2. CASE s \in Written(kernel)
    <3>1. ReadFrom(d.mem, kernel, m, i)
      BY <2>2, <1>4, LaunchReads
    <3>5. PICK r \in kernel : \E q \in r.reads : \E j \in d.mem[q.slot][q.sign * m] :
            i = Moved(j, r.raise - q.rate)
      BY <3>1 DEF ReadFrom
    <3>6. PICK q \in r.reads : \E j \in d.mem[q.slot][q.sign * m] :
            i = Moved(j, r.raise - q.rate)
      BY <3>5
    <3>2. PICK j \in d.mem[q.slot][q.sign * m] : i = Moved(j, r.raise - q.rate)
      BY <3>6
    <3>3. q.sign * m \in Modes
      <4>1. q.sign = 1 \/ q.sign = -1
        OBVIOUS
      <4>2. 1 * m = m /\ (-1) * m = -m /\ -m \in Modes
        BY ModesAssumption
      <4> QED
        BY <4>1, <4>2
    <3>4. j \in Tame
      BY <3>3 DEF Sound
    <3> QED
      BY <3>2, <3>4, MovedTame
  <2> QED
    BY <2>1, <2>2
<1>5. \A s \in TowerSlots : DOMAIN e.mem[s] = Modes
  BY <1>1, <1>3, AfterModes DEF Sound
<1> QED
  BY <1>1, <1>2, <1>3, <1>4, <1>5 DEF Sound, Same

\* A kernel's result is whole when all that it reads is, at the right rates.
ReadsHold(memory, kernel, s, id, rate) ==
  \A r \in kernel : r.slot = s =>
    /\ r.reads # {} /\ r.raise \in Int
    /\ \A q \in r.reads :
         /\ q.sign \in {1, -1} /\ q.rate \in Int
         /\ Holds(memory, q.slot, id, rate - r.raise + q.rate, {})

LEMMA MovedRead ==
  ASSUME NEW memory, NEW slot, NEW id, NEW old \in Int, NEW by \in Int, NEW n \in Modes,
         Holds(memory, slot, id, old, {}), NEW j \in memory[slot][n]
  PROVE  /\ Moved(j, by) \in Made(id, old + by, n)
         /\ Moved(j, by) \in Made(id, old + by, -n)
         /\ Reflected(Moved(j, by)) = Moved(Reflected(j), by)
         /\ Reflected(j) \in memory[slot][-n]
<1>1. j \in Made(id, old, n) /\ Reflected(j) \in memory[slot][-n]
  BY DEF Holds
<1> QED
  BY <1>1, MovedMade

LEMMA SignedMode ==
  ASSUME NEW m \in Modes, NEW sign \in {1, -1}
  PROVE  /\ sign * m \in Modes /\ -m \in Modes
         /\ -(sign * m) = sign * (-m)
         /\ \/ sign * m = m /\ -(sign * m) = -m
            \/ sign * m = -m /\ -(sign * m) = m
<1>1. m \in Int /\ -m \in Modes
  BY ModesAssumption
<1>2. CASE sign = 1
  BY <1>1, <1>2
<1>3. CASE sign = -1
  <2>1. (-1) * m = -m /\ -(-m) = m /\ (-1) * (-m) = m
    BY <1>1
  <2> QED
    BY <1>1, <1>3, <2>1
<1> QED
  BY <1>2, <1>3

\* What a read brings into a slot.
LEMMA ReadBrings ==
  ASSUME NEW memory, NEW id, NEW rate, NEW old \in Int, NEW by \in Int,
         old + by = rate, NEW slot, Holds(memory, slot, id, old, {}),
         NEW m \in Modes, NEW n \in Modes, n = m \/ -n = m, NEW j \in memory[slot][n]
  PROVE  /\ Moved(j, by) \in Made(id, rate, m)
         /\ Reflected(Moved(j, by)) = Moved(Reflected(j), by)
         /\ Reflected(j) \in memory[slot][-n]
<1>1. /\ Moved(j, by) \in Made(id, old + by, n)
      /\ Moved(j, by) \in Made(id, old + by, -n)
      /\ Reflected(Moved(j, by)) = Moved(Reflected(j), by)
      /\ Reflected(j) \in memory[slot][-n]
  BY MovedRead
<1> QED
  BY <1>1

LEMMA WrittenBy ==
  ASSUME NEW memory, NEW kernel, NEW s \in DOMAIN memory, s \in Written(kernel),
         NEW m \in Modes, NEW r \in kernel, r.slot = s, NEW q \in r.reads,
         NEW j \in memory[q.slot][q.sign * m]
  PROVE  Moved(j, r.raise - q.rate) \in After(memory, kernel)[s][m]
  BY AfterWritten

LEMMA LaunchHolds ==
  ASSUME NEW memory, NEW kernel, NEW s \in DOMAIN memory, s \in Written(kernel),
         NEW id \in Int, NEW rate \in Int, ReadsHold(memory, kernel, s, id, rate)
  PROVE  Holds(After(memory, kernel), s, id, rate, {})
<1>1. ASSUME NEW m \in Modes PROVE After(memory, kernel)[s][m] # {}
  <2>1. PICK r \in kernel : r.slot = s
    BY DEF Written
  <2>2. PICK q \in r.reads : TRUE
    BY <2>1 DEF ReadsHold
  <2>3. q.sign \in {1, -1} /\ Holds(memory, q.slot, id, rate - r.raise + q.rate, {})
    BY <2>1, <2>2 DEF ReadsHold
  <2>4. q.sign * m \in Modes
    BY <2>3, SignedMode
  <2>5. memory[q.slot][q.sign * m] # {}
    BY <2>3, <2>4 DEF Holds
  <2>6. PICK j \in memory[q.slot][q.sign * m] : TRUE
    BY <2>5
  <2> QED
    BY <2>1, <2>2, <2>6, WrittenBy
<1>2. ASSUME NEW m \in Modes, NEW i \in After(memory, kernel)[s][m]
      PROVE  i \in Made(id, rate, m) /\ Reflected(i) \in After(memory, kernel)[s][-m]
  <2>1. PICK r \in kernel : r.slot = s /\ \E q \in r.reads : \E j \in memory[q.slot][q.sign * m] :
                                  i = Moved(j, r.raise - q.rate)
    BY <1>2, AfterWritten
  <2>2. PICK q \in r.reads : \E j \in memory[q.slot][q.sign * m] : i = Moved(j, r.raise - q.rate)
    BY <2>1
  <2>3. PICK j \in memory[q.slot][q.sign * m] : i = Moved(j, r.raise - q.rate)
    BY <2>2
  <2>4. q.sign \in {1, -1} /\ q.rate \in Int /\ r.raise \in Int
        /\ Holds(memory, q.slot, id, rate - r.raise + q.rate, {})
    BY <2>1, <2>2 DEF ReadsHold
  <2>5. /\ Moved(j, r.raise - q.rate) \in Made(id, rate, m)
        /\ Reflected(Moved(j, r.raise - q.rate)) = Moved(Reflected(j), r.raise - q.rate)
        /\ Reflected(j) \in memory[q.slot][q.sign * (-m)]
    <3>1. PICK old \in Int : old = rate - r.raise + q.rate
      BY <2>4
    <3>2. PICK by \in Int : by = r.raise - q.rate
      BY <2>4
    <3>3. old + by = rate
      BY <2>4, <3>1, <3>2
    <3>4. PICK n \in Modes : n = q.sign * m /\ -n = q.sign * (-m) /\ (n = m \/ -n = m)
      <4>1. q.sign * m \in Modes /\ -(q.sign * m) = q.sign * (-m)
            /\ (q.sign * m = m \/ -(q.sign * m) = m)
        BY <2>4, SignedMode
      <4> QED
        BY <4>1
    <3>5. PICK slot : slot = q.slot
      OBVIOUS
    <3>6. /\ Moved(j, by) \in Made(id, rate, m)
          /\ Reflected(Moved(j, by)) = Moved(Reflected(j), by)
          /\ Reflected(j) \in memory[slot][-n]
      <4>1. j \in memory[slot][n]
        BY <2>3, <3>4, <3>5
      <4>2. Holds(memory, slot, id, old, {})
        BY <2>4, <3>1, <3>5
      <4>3. n = m \/ -n = m
        BY <3>4
      <4> QED
        BY <3>3, <4>1, <4>2, <4>3, ReadBrings
    <3> QED
      BY <3>6, <3>2, <3>4, <3>5
  <2>6. -m \in Modes
    BY ModesAssumption
  <2>7. Moved(Reflected(j), r.raise - q.rate) \in After(memory, kernel)[s][-m]
    BY <2>1, <2>5, <2>6, WrittenBy
  <2> QED
    BY <2>3, <2>5, <2>7
<1> QED
  BY <1>1, <1>2 DEF Holds

LEMMA SetMem ==
  ASSUME NEW d, d = [mem |-> d.mem, stamp |-> d.stamp], NEW x
  PROVE  [d EXCEPT !.mem = x] = [mem |-> x, stamp |-> d.stamp]
  OBVIOUS

LEMMA MarkedModes ==
  ASSUME NEW d, Sound(d), NEW slots, NEW mark, NEW s \in slots, s \in TowerSlots
  PROVE  DOMAIN MarkedAs(d, slots, mark).mem[s] = Modes
  BY DEF MarkedAs, Sound

\* Products leave the band, and are as finite and as symmetric as before.
LEMMA MarkedKeeps ==
  ASSUME NEW d, Sound(d), NEW slots \in SUBSET TowerSlots
  PROVE  /\ Sound(MarkedAs(d, slots, OffBand))
         /\ Same(d, MarkedAs(d, slots, OffBand), TowerSlots \ slots)
         /\ MarkedAs(d, slots, OffBand).stamp = d.stamp
         /\ \A s \in slots : \A id, rate \in Int :
              Holds(d.mem, s, id, rate, {}) =>
                Holds(MarkedAs(d, slots, OffBand).mem, s, id, rate, {OffBand})
<1> DEFINE e == MarkedAs(d, slots, OffBand)
<1>1. e = [mem |-> e.mem, stamp |-> d.stamp] /\ DOMAIN e.mem = TowerSlots
  <2> DEFINE x == [s \in TowerSlots |->
                     IF s \notin slots THEN d.mem[s]
                     ELSE [m \in Modes |-> IF d.mem[s][m] = {} THEN {}
                                           ELSE d.mem[s][m] \cup {OffBand}]]
  <2>1. e = [d EXCEPT !.mem = x]
    BY DEF MarkedAs, Sound
  <2>2. e = [mem |-> x, stamp |-> d.stamp]
    BY <2>1, SetMem DEF Sound
  <2> QED
    BY <2>2
<1>2. \A s \in TowerSlots : s \notin slots => e.mem[s] = d.mem[s]
  BY DEF MarkedAs, Sound
<1>3. \A s \in slots : \A m \in Modes :
        e.mem[s][m] = IF d.mem[s][m] = {} THEN {} ELSE d.mem[s][m] \cup {OffBand}
  BY DEF MarkedAs, Sound
<1> HIDE DEF e
<1>4. \A s \in TowerSlots, m \in Modes : e.mem[s][m] \subseteq Tame
  <2>1. OffBand \in Tame
    BY DEF Tame
  <2> QED
    <3> TAKE s \in TowerSlots, m \in Modes
    <3>1. d.mem[s][m] \subseteq Tame
      BY DEF Sound
    <3>2. CASE s \notin slots
      BY <3>1, <3>2, <1>2
    <3>3. CASE s \in slots
      <4>1. e.mem[s][m] = IF d.mem[s][m] = {} THEN {} ELSE d.mem[s][m] \cup {OffBand}
        BY <3>3, <1>3
      <4> QED
        BY <4>1, <3>1, <2>1
    <3> QED
      BY <3>2, <3>3
<1>5. ASSUME NEW s \in slots, NEW id \in Int, NEW rate \in Int, Holds(d.mem, s, id, rate, {})
      PROVE  Holds(e.mem, s, id, rate, {OffBand})
  <2> SUFFICES ASSUME NEW m \in Modes
               PROVE  /\ e.mem[s][m] \ {OffBand} # {}
                      /\ e.mem[s][m] \subseteq Made(id, rate, m) \cup {OffBand}
                      /\ \A i \in e.mem[s][m] : Reflected(i) \in e.mem[s][-m]
    BY DEF Holds
  <2>1. -m \in Modes
    BY ModesAssumption
  <2>2. d.mem[s][m] # {} /\ d.mem[s][-m] # {} /\ d.mem[s][m] \subseteq Made(id, rate, m)
        /\ \A i \in d.mem[s][m] : Reflected(i) \in d.mem[s][-m]
    BY <1>5, <2>1 DEF Holds
  <2>3. e.mem[s][m] = d.mem[s][m] \cup {OffBand} /\ e.mem[s][-m] = d.mem[s][-m] \cup {OffBand}
    BY <1>3, <2>1, <2>2
  <2>4. OffBand \notin Made(id, rate, m)
    BY MarksApart DEF Marks
  <2>5. e.mem[s][m] \ {OffBand} # {}
    BY <2>2, <2>3, <2>4
  <2> QED
    BY <2>2, <2>3, <2>5, ReflectedMark
<1>6. \A s \in TowerSlots : DOMAIN e.mem[s] = Modes
  <2>1. \A s \in TowerSlots : s \in slots => DOMAIN e.mem[s] = Modes
    BY MarkedModes DEF e
  <2>2. \A s \in TowerSlots : DOMAIN d.mem[s] = Modes
    BY DEF Sound
  <2> QED
    BY <1>2, <2>1, <2>2
<1>7. Sound(e)
  BY <1>1, <1>4, <1>6 DEF Sound
<1>8. Same(d, e, TowerSlots \ slots) /\ e.stamp = d.stamp
  BY <1>1, <1>2 DEF Same
<1> QED
  BY <1>5, <1>7, <1>8 DEF e

\* A slot is void, whole and in its band, or whole with content outside of it.
Kinds == {"void", "inband", "marked"}
Extra(kind) == IF kind = "marked" THEN {OffBand} ELSE {}
HasKind(d, s, kind, id, rate, token, orders) ==
  IF kind = "void" THEN Void(d, s)
  ELSE Holds(d.mem, s, id, rate, Extra(kind)) /\ Stamped(d, s, token, orders)
Group(d, slots, kind, id, rate, token, orders) ==
  \A s \in slots : HasKind(d, s, kind, id, rate, token, orders)

LEMMA ExtraKinds ==
  ASSUME NEW kind \in Kinds
  PROVE  Extra(kind) \in Extras
  BY DEF Kinds, Extra, Extras

LEMMA HoldsSame ==
  ASSUME NEW memory, NEW other, NEW s, NEW t, NEW id, NEW rate, NEW extra,
         \A m \in Modes : other[t][m] = memory[s][m], Holds(memory, s, id, rate, extra)
  PROVE  Holds(other, t, id, rate, extra)
<1>1. \A m \in Modes : -m \in Modes
  BY ModesAssumption
<1> QED
  BY <1>1 DEF Holds

\* What a row is stamped for.
RowValid(d, s, m, sources, orders) ==
  /\ NonFinite \notin d.mem[s][m]
  /\ \A from \in sources : Bears(d, from.slot, m, from.token, orders)

LEMMA RowsKeep ==
  ASSUME NEW d, Sound(d), NEW rows, DOMAIN rows \subseteq TowerSlots,
         NEW orders \in Nat, orders >= 1, NEW token
  PROVE  /\ Sound(RowsStamped(d, rows, orders, token))
         /\ Same(d, RowsStamped(d, rows, orders, token), TowerSlots \ DOMAIN rows)
         /\ \A s \in DOMAIN rows, m \in Modes :
              IF RowValid(d, s, m, rows[s], orders)
              THEN /\ RowsStamped(d, rows, orders, token).mem[s][m] = d.mem[s][m]
                   /\ RowsStamped(d, rows, orders, token).stamp[s][m] =
                        [token |-> token, orders |-> orders]
              ELSE /\ RowsStamped(d, rows, orders, token).mem[s][m] = {}
                   /\ RowsStamped(d, rows, orders, token).stamp[s][m] = NoStamp
<1> DEFINE e == RowsStamped(d, rows, orders, token)
<1>1. /\ e = [mem |-> e.mem, stamp |-> e.stamp]
      /\ DOMAIN e.mem = TowerSlots /\ DOMAIN e.stamp = TowerSlots
  BY DEF RowsStamped, Sound
<1>2. \A s \in TowerSlots : s \notin DOMAIN rows => e.mem[s] = d.mem[s] /\ e.stamp[s] = d.stamp[s]
  BY DEF RowsStamped, Sound
<1>3. ASSUME NEW s \in DOMAIN rows, NEW m \in Modes
      PROVE  IF RowValid(d, s, m, rows[s], orders)
             THEN /\ e.mem[s][m] = d.mem[s][m]
                  /\ e.stamp[s][m] = [token |-> token, orders |-> orders]
             ELSE e.mem[s][m] = {} /\ e.stamp[s][m] = NoStamp
  <2>1. CASE RowValid(d, s, m, rows[s], orders)
    BY <2>1 DEF RowsStamped, RowValid, Sound, Stamp
  <2>2. CASE ~RowValid(d, s, m, rows[s], orders)
    BY <2>2 DEF RowsStamped, RowValid, Sound
  <2> QED
    BY <2>1, <2>2
<1> HIDE DEF e
<1>4. \A s \in TowerSlots, m \in Modes : e.mem[s][m] \subseteq Tame
  <2> TAKE s \in TowerSlots, m \in Modes
  <2>1. d.mem[s][m] \subseteq Tame
    BY DEF Sound
  <2>2. CASE s \notin DOMAIN rows
    BY <2>1, <2>2, <1>2
  <2>3. CASE s \in DOMAIN rows
    <3>1. e.mem[s][m] = d.mem[s][m] \/ e.mem[s][m] = {}
      BY <2>3, <1>3
    <3> QED
      BY <2>1, <3>1
  <2> QED
    BY <2>2, <2>3
<1>5. \A s \in TowerSlots : DOMAIN e.mem[s] = Modes
  BY <1>2 DEF RowsStamped, Sound, e
<1> QED
  BY <1>1, <1>2, <1>3, <1>4, <1>5 DEF Sound, Same, e

LEMMA RowsRefuse ==
  ASSUME NEW d, Sound(d), NEW rows, DOMAIN rows \subseteq TowerSlots,
         NEW orders \in Nat, orders >= 1, NEW token, NEW s \in DOMAIN rows, NEW m \in Modes,
         ~RowValid(d, s, m, rows[s], orders)
  PROVE  RowsStamped(d, rows, orders, token).stamp[s][m] = NoStamp
  BY DEF RowsStamped, RowValid, Sound

\* Rows of which all is good, and rows of which one mode of one source is not.
LEMMA RowsWhole ==
  ASSUME NEW d, Sound(d), NEW rows, DOMAIN rows \subseteq TowerSlots,
         NEW orders \in Nat, orders >= 1, NEW token, NEW s \in DOMAIN rows,
         NEW id \in Int, NEW rate \in Int, Holds(d.mem, s, id, rate, {}),
         \A from \in rows[s] : \E has \in Nat : has >= orders /\ Stamped(d, from.slot, from.token, has)
  PROVE  HasKind(RowsStamped(d, rows, orders, token), s, "inband", id, rate, token, orders)
<1> DEFINE e == RowsStamped(d, rows, orders, token)
<1>1. \A m \in Modes : RowValid(d, s, m, rows[s], orders)
  <2> TAKE m \in Modes
  <2>1. {} \in Extras
    BY DEF Extras
  <2>2. NonFinite \notin d.mem[s][m]
    BY <2>1, HoldsFinite
  <2>3. \A from \in rows[s] : Bears(d, from.slot, m, from.token, orders)
    <3> TAKE from \in rows[s]
    <3>1. PICK has \in Nat : has >= orders /\ Stamped(d, from.slot, from.token, has)
      OBVIOUS
    <3>2. d.stamp[from.slot][m] = [token |-> from.token, orders |-> has]
      BY <3>1 DEF Stamped
    <3> QED
      BY <3>1, <3>2 DEF Bears
  <2> QED
    BY <2>2, <2>3 DEF RowValid
<1>2. \A m \in Modes : /\ e.mem[s][m] = d.mem[s][m]
                       /\ e.stamp[s][m] = [token |-> token, orders |-> orders]
  BY <1>1, RowsKeep
<1> HIDE DEF e
<1>3. Holds(e.mem, s, id, rate, {})
  BY <1>2, HoldsSame
<1>4. Extra("inband") = {}
  BY DEF Extra
<1> QED
  BY <1>2, <1>3, <1>4 DEF HasKind, Stamped, e

LEMMA RowsRefused ==
  ASSUME NEW d, Sound(d), NEW rows, DOMAIN rows \subseteq TowerSlots,
         NEW orders \in Nat, orders >= 1, NEW token, NEW s \in DOMAIN rows, NEW m \in Modes,
         \/ NonFinite \in d.mem[s][m]
         \/ \E from \in rows[s] : d.stamp[from.slot][m] = NoStamp
  PROVE  ~Bears(RowsStamped(d, rows, orders, token), s, m, token, orders)
<1>1. ~RowValid(d, s, m, rows[s], orders)
  <2>1. CASE NonFinite \in d.mem[s][m]
    BY <2>1 DEF RowValid
  <2>2. CASE \E from \in rows[s] : d.stamp[from.slot][m] = NoStamp
    <3>1. PICK from \in rows[s] : d.stamp[from.slot][m] = NoStamp
      BY <2>2
    <3>2. d.stamp[from.slot][m].orders = 0
      BY <3>1 DEF NoStamp
    <3>3. ~Bears(d, from.slot, m, from.token, orders)
      BY <3>2 DEF Bears
    <3> QED
      BY <3>3 DEF RowValid
  <2> QED
    BY <2>1, <2>2
<1>2. RowsStamped(d, rows, orders, token).stamp[s][m] = NoStamp
  BY <1>1, RowsRefuse
<1>3. NoStamp.orders = 0
  BY DEF NoStamp
<1>4. RowsStamped(d, rows, orders, token).stamp[s][m].orders = 0
  BY <1>2, <1>3
<1> QED
  BY <1>4 DEF Bears

\* The projection: in the band, of what the slots are made of.
LEMMA ProjectedKeeps ==
  ASSUME NEW d, Sound(d), NEW from, DOMAIN from \subseteq TowerSlots,
         \A s \in DOMAIN from : from[s] \in TowerSlots
  PROVE  /\ Sound(Projected(d, from))
         /\ Same(d, Projected(d, from), TowerSlots \ DOMAIN from)
         /\ Projected(d, from).stamp = d.stamp
         /\ \A s \in DOMAIN from, m \in Modes :
              Projected(d, from).mem[s][m] = d.mem[from[s]][m] \ {OffBand}
<1> DEFINE e == Projected(d, from)
           x == [s \in TowerSlots |->
                   IF s \notin DOMAIN from THEN d.mem[s]
                   ELSE [m \in Modes |-> d.mem[from[s]][m] \ {OffBand}]]
<1>1. e = [d EXCEPT !.mem = x]
  BY DEF Projected, Sound
<1>2. e = [mem |-> x, stamp |-> d.stamp]
  BY <1>1, SetMem DEF Sound
<1>3. e = [mem |-> e.mem, stamp |-> d.stamp] /\ e.mem = x
  BY <1>2
<1> HIDE DEF e
<1>4. \A s \in TowerSlots : s \notin DOMAIN from => e.mem[s] = d.mem[s]
  BY <1>3
<1>5. \A s \in DOMAIN from, m \in Modes : e.mem[s][m] = d.mem[from[s]][m] \ {OffBand}
  BY <1>3
<1>6. DOMAIN e.mem = TowerSlots
  BY <1>3
<1>9. \A s \in TowerSlots : DOMAIN e.mem[s] = Modes
  BY <1>3 DEF Sound
<1> HIDE DEF x
<1>7. \A s \in TowerSlots, m \in Modes : e.mem[s][m] \subseteq Tame
  <2> TAKE s \in TowerSlots, m \in Modes
  <2>1. CASE s \notin DOMAIN from
    BY <2>1, <1>4 DEF Sound
  <2>2. CASE s \in DOMAIN from
    <3>1. d.mem[from[s]][m] \subseteq Tame
      BY <2>2 DEF Sound
    <3>2. e.mem[s][m] = d.mem[from[s]][m] \ {OffBand}
      BY <2>2, <1>5
    <3> QED
      BY <3>1, <3>2
  <2> QED
    BY <2>1, <2>2
<1>8. Sound(e) /\ Same(d, e, TowerSlots \ DOMAIN from) /\ e.stamp = d.stamp
  BY <1>3, <1>4, <1>6, <1>7, <1>9 DEF Sound, Same
<1> QED
  BY <1>5, <1>8 DEF e

LEMMA HoldsProjected ==
  ASSUME NEW memory, NEW other, NEW s, NEW t, NEW id \in Int, NEW rate \in Int,
         NEW extra \in Extras,
         \A m \in Modes : other[t][m] = memory[s][m] \ {OffBand},
         Holds(memory, s, id, rate, extra)
  PROVE  Holds(other, t, id, rate, {})
<1> SUFFICES ASSUME NEW m \in Modes
             PROVE  /\ other[t][m] # {}
                    /\ other[t][m] \subseteq Made(id, rate, m)
                    /\ \A i \in other[t][m] : Reflected(i) \in other[t][-m]
  BY DEF Holds
<1>1. -m \in Modes
  BY ModesAssumption
<1>2. other[t][m] = memory[s][m] \ {OffBand} /\ other[t][-m] = memory[s][-m] \ {OffBand}
  BY <1>1
<1>3. memory[s][m] \subseteq Made(id, rate, m) \cup extra /\ extra \subseteq {OffBand}
  BY DEF Holds, Extras
<1>4. \A i \in memory[s][m] : Reflected(i) \in memory[s][-m]
  BY DEF Holds
<1>5. \A i \in Made(id, rate, m) : Reflected(i) # OffBand
  <2>1. \A i \in Made(id, rate, m) : Reflected(i) \in Made(id, rate, m)
    <3>1. m \in Int /\ -(-m) = m
      BY ModesAssumption
    <3> QED
      BY <3>1 DEF Made, Reflected
  <2> QED
    BY <2>1, MarksApart DEF Marks
<1>6. other[t][m] # {}
  <2>1. PICK i \in memory[s][m] : i \notin extra
    BY DEF Holds
  <2>2. i \in Made(id, rate, m)
    BY <2>1, <1>3
  <2>3. i # OffBand
    BY <2>2, MarksApart DEF Marks
  <2> QED
    BY <2>1, <2>3, <1>2
<1>7. other[t][m] \subseteq Made(id, rate, m)
  BY <1>2, <1>3
<1> QED
  BY <1>2, <1>4, <1>5, <1>6, <1>7

LEMMA PairIn ==
  ASSUME NEW A, NEW B, NEW s \in A \X B
  PROVE  s = <<s[1], s[2]>> /\ s[1] \in A /\ s[2] \in B
  OBVIOUS

\* The launch of an angular operator.
AngularKernel(of) ==
  {To(s[1], s[2], {Own(of[s].value[1], of[s].value[2])} \cup of[s].dt) : s \in DOMAIN of}
AngularReads(of) ==
  \A s \in DOMAIN of :
    /\ s = <<s[1], s[2]>> /\ of[s].value = <<of[s].value[1], of[s].value[2]>>
    /\ of[s].value \in TowerSlots
    /\ \A q \in of[s].dt : q.slot \in TowerSlots /\ q.sign \in {1, -1} /\ q.rate \in Int

AngularInBand(d, of) ==
  \A s \in DOMAIN of, m \in Modes : OffBand \notin d.mem[of[s].value][m]

AngularMem(d, e, of) ==
  \A s \in DOMAIN of, m \in Modes :
    e.mem[s][m] = After(d.mem, AngularKernel(of))[s][m] \ {OffBand}

LEMMA AngularKernelIs ==
  ASSUME NEW of, DOMAIN of \subseteq TowerSlots, AngularReads(of)
  PROVE  /\ Written(AngularKernel(of)) = DOMAIN of
         /\ \A r \in AngularKernel(of) :
              /\ r.raise = 0 /\ r.slot \in DOMAIN of
              /\ r.reads = {[slot |-> of[r.slot].value, sign |-> 1, rate |-> 0]}
                             \cup of[r.slot].dt
<1>1. \A s \in DOMAIN of :
        /\ s = <<s[1], s[2]>>
        /\ of[s].value = <<of[s].value[1], of[s].value[2]>>
  BY DEF AngularReads
<1>2. ASSUME NEW s \in DOMAIN of
      PROVE  To(s[1], s[2], {Own(of[s].value[1], of[s].value[2])} \cup of[s].dt) =
               [slot |-> s, reads |-> {[slot |-> of[s].value, sign |-> 1, rate |-> 0]}
                                         \cup of[s].dt, raise |-> 0]
  BY <1>1 DEF To, Own
<1>3. AngularKernel(of) =
        {[slot |-> s, reads |-> {[slot |-> of[s].value, sign |-> 1, rate |-> 0]}
                                  \cup of[s].dt, raise |-> 0] : s \in DOMAIN of}
  BY <1>2 DEF AngularKernel
<1>4. \A r \in AngularKernel(of) :
        /\ r.raise = 0 /\ r.slot \in DOMAIN of
        /\ r.reads = {[slot |-> of[r.slot].value, sign |-> 1, rate |-> 0]} \cup of[r.slot].dt
  <2> TAKE r \in AngularKernel(of)
  <2>1. PICK s \in DOMAIN of :
          r = [slot |-> s, reads |-> {[slot |-> of[s].value, sign |-> 1, rate |-> 0]}
                                       \cup of[s].dt, raise |-> 0]
    BY <1>3
  <2>2. r.slot = s /\ r.raise = 0
        /\ r.reads = {[slot |-> of[s].value, sign |-> 1, rate |-> 0]} \cup of[s].dt
    BY <2>1
  <2> QED
    BY <2>2
<1>5. \A s \in DOMAIN of : \E r \in AngularKernel(of) : r.slot = s
  <2> TAKE s \in DOMAIN of
  <2> DEFINE r == [slot |-> s, reads |-> {[slot |-> of[s].value, sign |-> 1, rate |-> 0]}
                                  \cup of[s].dt, raise |-> 0]
  <2>1. r \in AngularKernel(of) /\ r.slot = s
    BY <1>3
  <2> QED
    BY <2>1
<1> QED
  BY <1>4, <1>5 DEF Written

LEMMA AngularKeeps ==
  ASSUME NEW d, Sound(d), NEW of, DOMAIN of \subseteq TowerSlots, AngularReads(of),
         AngularInBand(d, of)
  PROVE  /\ Sound(Angular(d, of))
         /\ Same(d, Angular(d, of), TowerSlots \ DOMAIN of)
         /\ Angular(d, of).stamp = d.stamp
         /\ AngularMem(d, Angular(d, of), of)
<1> DEFINE e == Angular(d, of)
           there == Launch(d, AngularKernel(of))
<1>1. \A r \in AngularKernel(of) : \A q \in r.reads :
           /\ q.slot \in TowerSlots /\ q.sign \in {1, -1}
           /\ q.rate \in Int /\ r.raise \in Int
  <2> TAKE r \in AngularKernel(of)
  <2> TAKE q \in r.reads
  <2>1. r.raise = 0 /\ r.slot \in DOMAIN of
        /\ r.reads = {[slot |-> of[r.slot].value, sign |-> 1, rate |-> 0]} \cup of[r.slot].dt
    BY AngularKernelIs
  <2>2. CASE q = [slot |-> of[r.slot].value, sign |-> 1, rate |-> 0]
    BY <2>1, <2>2 DEF AngularReads
  <2>3. CASE q \in of[r.slot].dt
    BY <2>1, <2>3 DEF AngularReads
  <2> QED
    BY <2>1, <2>2, <2>3
<1>2. /\ Sound(there) /\ Same(d, there, TowerSlots \ DOMAIN of)
      /\ there.mem = After(d.mem, AngularKernel(of)) /\ there.stamp = d.stamp
  BY <1>1, LaunchKeeps, AngularKernelIs
<1>3. e = [there EXCEPT !.mem = [s \in DOMAIN @ |->
        IF s \notin DOMAIN of THEN @[s]
        ELSE [m \in Modes |->
               LET spread == IF OffBand \in d.mem[of[s].value][m] THEN {Aliased} ELSE {}
               IN  (@[s][m] \ {OffBand}) \cup spread]]]
  BY DEF Angular, AngularKernel
<1> HIDE DEF there, e
<1> DEFINE x == [s \in TowerSlots |->
        IF s \notin DOMAIN of THEN there.mem[s]
        ELSE [m \in Modes |->
               (there.mem[s][m] \ {OffBand}) \cup
                 (IF OffBand \in d.mem[of[s].value][m] THEN {Aliased} ELSE {})]]
<1>4. e = [there EXCEPT !.mem = x]
  BY <1>2, <1>3 DEF Sound
<1>5. e = [mem |-> x, stamp |-> there.stamp]
  BY <1>2, <1>4, SetMem DEF Sound
<1>6. e = [mem |-> e.mem, stamp |-> d.stamp] /\ e.mem = x
  BY <1>2, <1>5
<1>7. \A s \in TowerSlots : s \notin DOMAIN of => e.mem[s] = there.mem[s]
  BY <1>6
<1>8. \A s \in DOMAIN of, m \in Modes : e.mem[s][m] = there.mem[s][m] \ {OffBand}
  <2> TAKE s \in DOMAIN of, m \in Modes
  <2>1. e.mem[s][m] = (there.mem[s][m] \ {OffBand}) \cup
                 (IF OffBand \in d.mem[of[s].value][m] THEN {Aliased} ELSE {})
    BY <1>6
  <2> QED
    BY <2>1 DEF AngularInBand
<1>9. DOMAIN e.mem = TowerSlots
  BY <1>6
<1>14. \A s \in TowerSlots : s \in DOMAIN of => DOMAIN e.mem[s] = Modes
  BY <1>6
<1> HIDE DEF x
<1>10. \A s \in TowerSlots, m \in Modes : e.mem[s][m] \subseteq Tame
  <2> TAKE s \in TowerSlots, m \in Modes
  <2>1. there.mem[s][m] \subseteq Tame
    BY <1>2 DEF Sound
  <2>2. e.mem[s][m] = there.mem[s][m] \/ e.mem[s][m] = there.mem[s][m] \ {OffBand}
    BY <1>7, <1>8
  <2> QED
    BY <2>1, <2>2
<1>13. \A s \in TowerSlots : DOMAIN e.mem[s] = Modes
  <2> TAKE s \in TowerSlots
  <2>1. CASE s \in DOMAIN of
    BY <2>1, <1>14
  <2>2. CASE s \notin DOMAIN of
    BY <2>2, <1>2, <1>7 DEF Sound
  <2> QED
    BY <2>1, <2>2
<1>11. Sound(e) /\ e.stamp = d.stamp
  BY <1>2, <1>6, <1>9, <1>10, <1>13 DEF Sound
<1>12. Same(d, e, TowerSlots \ DOMAIN of)
  BY <1>2, <1>7, <1>11 DEF Same
<1>15. AngularMem(d, e, of)
  BY <1>2, <1>8 DEF AngularMem
<1> QED
  BY <1>11, <1>12, <1>15 DEF e

LEMMA AngularHolds ==
  ASSUME NEW d, Sound(d), NEW of, DOMAIN of \subseteq TowerSlots, AngularReads(of),
         AngularInBand(d, of),
         NEW s \in DOMAIN of, NEW id \in Int, NEW rate \in Int,
         Holds(d.mem, of[s].value, id, rate, {}),
         \A q \in of[s].dt : Holds(d.mem, q.slot, id, rate + q.rate, {})
  PROVE  Holds(Angular(d, of).mem, s, id, rate, {})
<1> DEFINE x == After(d.mem, AngularKernel(of))
<1>1. ReadsHold(d.mem, AngularKernel(of), s, id, rate)
  <2> SUFFICES ASSUME NEW r \in AngularKernel(of), r.slot = s
               PROVE  /\ r.reads # {} /\ r.raise \in Int
                      /\ \A q \in r.reads :
                           /\ q.sign \in {1, -1} /\ q.rate \in Int
                           /\ Holds(d.mem, q.slot, id, rate - r.raise + q.rate, {})
    BY DEF ReadsHold
  <2>1. r.raise = 0
        /\ r.reads = {[slot |-> of[s].value, sign |-> 1, rate |-> 0]} \cup of[s].dt
    BY AngularKernelIs
  <2>2. ASSUME NEW q \in r.reads
        PROVE  /\ q.sign \in {1, -1} /\ q.rate \in Int
               /\ Holds(d.mem, q.slot, id, rate - r.raise + q.rate, {})
    <3>1. CASE q = [slot |-> of[s].value, sign |-> 1, rate |-> 0]
      <4>1. q.slot = of[s].value /\ q.sign = 1 /\ q.rate = 0 /\ rate - r.raise + q.rate = rate
        BY <3>1, <2>1
      <4> QED
        BY <4>1
    <3>2. CASE q \in of[s].dt
      <4>1. q.sign \in {1, -1} /\ q.rate \in Int
        BY <3>2 DEF AngularReads
      <4>2. rate - r.raise + q.rate = rate + q.rate
        BY <4>1, <2>1
      <4>3. Holds(d.mem, q.slot, id, rate + q.rate, {})
        BY <3>2
      <4> QED
        BY <4>1, <4>2, <4>3
    <3> QED
      BY <2>1, <3>1, <3>2
  <2>3. [slot |-> of[s].value, sign |-> 1, rate |-> 0] \in r.reads /\ r.raise \in Int
    BY <2>1
  <2> QED
    BY <2>2, <2>3
<1>2. Holds(x, s, id, rate, {})
  BY <1>1, LaunchHolds, AngularKernelIs DEF Sound
<1>3. \A m \in Modes : OffBand \notin x[s][m]
  <2>1. {} \in Extras
    BY DEF Extras
  <2> QED
    BY <2>1, <1>2, HoldsFinite
<1>4. \A m \in Modes : Angular(d, of).mem[s][m] = x[s][m]
  <2>2. AngularMem(d, Angular(d, of), of)
    BY AngularKeeps
  <2> TAKE m \in Modes
  <2>1. Angular(d, of).mem[s][m] = x[s][m] \ {OffBand}
    BY <2>2 DEF AngularMem
  <2> QED
    BY <2>1, <1>3
<1> HIDE DEF x
<1> QED
  BY <1>2, <1>4, HoldsSame

LEMMA OverflownKeeps ==
  ASSUME NEW d, Sound(d), NEW slot \in TowerSlots, NEW fault, fault.mode \in Modes,
         fault.at = slot
  PROVE  /\ Sound(Overflown(d, slot, fault))
         /\ Same(d, Overflown(d, slot, fault), TowerSlots \ {slot})
         /\ Overflown(d, slot, fault).stamp = d.stamp
         /\ NonFinite \in Overflown(d, slot, fault).mem[slot][fault.mode]
<1>1. Overflown(d, slot, fault) = [d EXCEPT !.mem[slot][fault.mode] = @ \cup {NonFinite}]
  BY DEF Overflown
<1> DEFINE row == [d.mem[slot] EXCEPT ![fault.mode] = d.mem[slot][fault.mode] \cup {NonFinite}]
           x == [d.mem EXCEPT ![slot] = row]
           e == Overflown(d, slot, fault)
<1>2. e = [d EXCEPT !.mem = x]
  BY <1>1
<1>3. e = [mem |-> x, stamp |-> d.stamp]
  BY <1>2, SetMem DEF Sound
<1>4. e = [mem |-> e.mem, stamp |-> d.stamp] /\ e.mem = x
  BY <1>3
<1> HIDE DEF e
<1>5. /\ DOMAIN x = TowerSlots /\ x[slot] = row
      /\ \A s \in TowerSlots : s # slot => x[s] = d.mem[s]
  BY DEF Sound
<1>6. /\ DOMAIN row = Modes
      /\ row[fault.mode] = d.mem[slot][fault.mode] \cup {NonFinite}
      /\ \A m \in Modes : m # fault.mode => row[m] = d.mem[slot][m]
  BY DEF Sound
<1> HIDE DEF x, row
<1>7. \A s \in TowerSlots : DOMAIN e.mem[s] = Modes
  BY <1>4, <1>5, <1>6 DEF Sound
<1>8. NonFinite \in Tame
  BY DEF Tame
<1>9. \A s \in TowerSlots, m \in Modes : e.mem[s][m] \subseteq Tame
  <2> TAKE s \in TowerSlots, m \in Modes
  <2>1. d.mem[s][m] \subseteq Tame
    BY DEF Sound
  <2>2. CASE s # slot \/ m # fault.mode
    BY <2>1, <2>2, <1>4, <1>5, <1>6
  <2>3. CASE s = slot /\ m = fault.mode
    <3>1. e.mem[s][m] = d.mem[s][m] \cup {NonFinite}
      BY <2>3, <1>4, <1>5, <1>6
    <3> QED
      BY <3>1, <2>1, <1>8
  <2> QED
    BY <2>2, <2>3
<1>10. Sound(e) /\ e.stamp = d.stamp
  BY <1>4, <1>5, <1>7, <1>9 DEF Sound
<1>11. Same(d, e, TowerSlots \ {slot})
  BY <1>4, <1>5 DEF Same
<1>12. NonFinite \in e.mem[slot][fault.mode]
  BY <1>4, <1>5, <1>6
<1> QED
  BY <1>10, <1>11, <1>12 DEF e

\* What a step may touch: the slots of some views, and one level of some towers.
Apart(s, views, jets, l) == s[1] \notin views /\ ~(s[1] \in jets /\ s[2][2] = l)
Frame(d, e, views, jets, l) ==
  \A s \in TowerSlots : Apart(s, views, jets, l) => e.mem[s] = d.mem[s] /\ e.stamp[s] = d.stamp[s]
Clear(slots, views, jets, l) == \A s \in slots : Apart(s, views, jets, l)
Touched(slots, views, jets, l) == \A s \in slots : ~Apart(s, views, jets, l)

LEMMA FrameOf ==
  ASSUME NEW d, NEW e, NEW slots, Same(d, e, TowerSlots \ slots),
         NEW views, NEW jets, NEW l, Touched(slots, views, jets, l)
  PROVE  Frame(d, e, views, jets, l)
  BY DEF Same, Frame, Touched

LEMMA FrameMore ==
  ASSUME NEW d, NEW e, NEW views, NEW jets, NEW l, NEW v1, NEW j1, Frame(d, e, v1, j1, l),
         v1 \subseteq views, j1 \subseteq jets
  PROVE  Frame(d, e, views, jets, l)
  BY DEF Frame, Apart

LEMMA FrameThen ==
  ASSUME NEW d, NEW e, NEW f, NEW views, NEW jets, NEW l,
         Frame(d, e, views, jets, l), Frame(e, f, views, jets, l)
  PROVE  Frame(d, f, views, jets, l)
  BY DEF Frame

LEMMA KindSame ==
  ASSUME NEW d, NEW e, NEW s, e.mem[s] = d.mem[s], e.stamp[s] = d.stamp[s],
         NEW kind, NEW id, NEW rate, NEW token, NEW orders, HasKind(d, s, kind, id, rate, token, orders)
  PROVE  HasKind(e, s, kind, id, rate, token, orders)
<1>1. CASE kind = "void"
  BY <1>1 DEF HasKind, Void
<1>2. CASE kind # "void"
  <2>1. Holds(d.mem, s, id, rate, Extra(kind)) /\ Stamped(d, s, token, orders)
    BY <1>2 DEF HasKind
  <2>2. Holds(e.mem, s, id, rate, Extra(kind))
    BY <2>1, HoldsSame
  <2>3. Stamped(e, s, token, orders)
    BY <2>1 DEF Stamped
  <2> QED
    BY <1>2, <2>2, <2>3 DEF HasKind
<1> QED
  BY <1>1, <1>2

LEMMA GroupFrame ==
  ASSUME NEW d, NEW e, NEW views, NEW jets, NEW l, Frame(d, e, views, jets, l),
         NEW slots \in SUBSET TowerSlots, Clear(slots, views, jets, l),
         NEW kind, NEW id, NEW rate, NEW token, NEW orders,
         Group(d, slots, kind, id, rate, token, orders)
  PROVE  Group(e, slots, kind, id, rate, token, orders)
<1> SUFFICES ASSUME NEW s \in slots PROVE HasKind(e, s, kind, id, rate, token, orders)
  BY DEF Group
<1>1. e.mem[s] = d.mem[s] /\ e.stamp[s] = d.stamp[s]
  BY DEF Frame, Clear
<1>2. HasKind(d, s, kind, id, rate, token, orders)
  BY DEF Group
<1> QED
  BY <1>1, <1>2, KindSame

\* The slots by name.
CurrentMaster == {"current primary"} \X MasterFields
Coefficients  == {<<"coefficients", "psi">>}
ViewOf(view, fields) == {view} \X fields

LEMMA MasterSlots ==
  /\ \A l \in Levels : \A f \in MasterFields : MasterJet(f, l) \in TowerSlots
  /\ \A l \in Levels : MasterLevel(l) \subseteq TowerSlots
  /\ CurrentMaster \subseteq TowerSlots
  /\ Coefficients \subseteq TowerSlots
  /\ {"projected primary"} \X MasterFields \subseteq TowerSlots
<1>1. \A l \in Levels : \A f \in MasterFields : MasterJet(f, l) \in TowerSlots
  BY DEF TowerSlots, OwnedSlots, MasterJet
<1>2. \A l \in Levels : MasterLevel(l) \subseteq TowerSlots
  BY <1>1 DEF MasterLevel
<1> QED
  BY <1>1, <1>2 DEF TowerSlots, OwnedSlots, CurrentMaster, Coefficients

LEMMA MetricSlots ==
  /\ \A l \in Levels : \A f \in MetricFields : MetricJet(f, l) \in TowerSlots
  /\ \A l \in Levels : MetricLevel(l) \subseteq TowerSlots
  /\ ViewOf("current", MetricFields) \subseteq TowerSlots
  /\ ViewOf("next", MetricFields) \subseteq TowerSlots
  /\ ViewOf("projected", MetricFields) \subseteq TowerSlots
<1>1. \A l \in Levels : \A f \in MetricFields : MetricJet(f, l) \in TowerSlots
  BY DEF TowerSlots, OwnedSlots, MetricJet
<1>2. \A l \in Levels : MetricLevel(l) \subseteq TowerSlots
  BY <1>1 DEF MetricLevel
<1> QED
  BY <1>1, <1>2 DEF TowerSlots, OwnedSlots, ViewOf

LEMMA ScratchSlots ==
  /\ <<"snapshot", "psi">> \in TowerSlots /\ <<"laplacian", "psi">> \in TowerSlots
  /\ <<"angular", "eth">> \in TowerSlots
  /\ ViewOf("pass3", {"ethC", "ethPi", "ethPrimeBSharp", "ethPrimeCSharp"}) \subseteq TowerSlots
  /\ ViewOf("sharp", {"B", "BT", "C", "CT"}) \subseteq TowerSlots
  BY DEF TowerSlots, ViewOf

\* Copies of slots that are whole.
AllHold(d, from, kind, id, rate) ==
  \A s \in DOMAIN from : from[s] \in TowerSlots /\ Holds(d.mem, from[s], id, rate, Extra(kind))

LEMMA FilledGroup ==
  ASSUME NEW d, Sound(d), NEW from, DOMAIN from \subseteq TowerSlots,
         NEW kind \in Kinds \ {"void"}, NEW id, NEW rate, AllHold(d, from, kind, id, rate),
         NEW token, NEW orders \in Nat, orders >= 1
  PROVE  /\ Sound(Filled(d, from, token, orders))
         /\ Same(d, Filled(d, from, token, orders), TowerSlots \ DOMAIN from)
         /\ Group(Filled(d, from, token, orders), DOMAIN from, kind, id, rate, token, orders)
<1> DEFINE e == Filled(d, from, token, orders)
<1>1. \A s \in DOMAIN from : from[s] \in TowerSlots
  BY DEF AllHold
<1>2. /\ Sound(e) /\ Same(d, e, TowerSlots \ DOMAIN from)
      /\ \A s \in DOMAIN from : e.mem[s] = d.mem[from[s]] /\ Stamped(e, s, token, orders)
  <2>1. /\ Sound(e) /\ Same(d, e, TowerSlots \ DOMAIN from)
        /\ \A s \in DOMAIN from :
              IF orders = 0 THEN Void(e, s)
              ELSE e.mem[s] = d.mem[from[s]] /\ Stamped(e, s, token, orders)
    BY <1>1, FilledKeeps
  <2>2. orders # 0
    OBVIOUS
  <2> HIDE DEF e
  <2> QED
    BY <2>1, <2>2
<1> HIDE DEF e
<1>3. \A s \in DOMAIN from : HasKind(e, s, kind, id, rate, token, orders)
  <2> TAKE s \in DOMAIN from
  <2>1. e.mem[s] = d.mem[from[s]] /\ Stamped(e, s, token, orders)
    BY <1>2
  <2>2. Holds(d.mem, from[s], id, rate, Extra(kind))
    BY DEF AllHold
  <2>3. Holds(e.mem, s, id, rate, Extra(kind))
    BY <2>1, <2>2, HoldsSame
  <2> QED
    BY <2>1, <2>3 DEF HasKind
<1>4. Group(e, DOMAIN from, kind, id, rate, token, orders)
  BY <1>3 DEF Group
<1> QED
  BY <1>2, <1>4 DEF e

LEMMA ClearedGroup ==
  ASSUME NEW d, Sound(d), NEW slots \in SUBSET TowerSlots,
         NEW id, NEW rate, NEW token, NEW orders
  PROVE  /\ Sound(Cleared(d, slots))
         /\ Same(d, Cleared(d, slots), TowerSlots \ slots)
         /\ Group(Cleared(d, slots), slots, "void", id, rate, token, orders)
  BY ClearedKeeps DEF Group, HasKind

\* What is asked of slots, and found.
LEMMA GroupReady ==
  ASSUME NEW d, NEW slots, NEW kind \in Kinds \ {"void"}, NEW id \in Int, NEW rate \in Int,
         NEW token, NEW has \in Nat, Group(d, slots, kind, id, rate, token, has),
         NEW orders \in Nat, has >= orders
  PROVE  AllBear(d, slots, token, orders) /\ Finite(d, slots)
<1> SUFFICES ASSUME NEW s \in slots, NEW m \in Modes
             PROVE  Bears(d, s, m, token, orders) /\ NonFinite \notin d.mem[s][m]
  BY DEF AllBear, Finite
<1>1. Holds(d.mem, s, id, rate, Extra(kind)) /\ Stamped(d, s, token, has)
  BY DEF Group, HasKind
<1>2. NonFinite \notin d.mem[s][m]
  BY <1>1, HoldsFinite, ExtraKinds
<1>3. d.stamp[s][m] = [token |-> token, orders |-> has]
  BY <1>1 DEF Stamped
<1> QED
  BY <1>2, <1>3 DEF Bears

LEMMA VoidRefused ==
  ASSUME NEW d, NEW slots, NEW s \in slots, NEW id, NEW rate, NEW t, NEW o,
         Group(d, slots, "void", id, rate, t, o), NEW token, NEW orders \in Nat, orders >= 1
  PROVE  ~AllBear(d, slots, token, orders)
<1>1. PICK m \in Modes : TRUE
  BY ModesAssumption
<1>2. d.stamp[s][m] = NoStamp
  BY DEF Group, HasKind, Void
<1>3. d.stamp[s][m].orders = 0
  BY <1>2 DEF NoStamp
<1>4. ~Bears(d, s, m, token, orders)
  BY <1>3 DEF Bears
<1> QED
  BY <1>4 DEF AllBear

-----------------------------------------------------------------------------
(* Publication *)

\* Where a tower stands: its level l, and what the coordinator reads of it.
MasterStands(d, kind, id, l, g, psiOrders) ==
  /\ Group(d, MasterLevel(l), kind, id, l, GenerationToken(g), OrdersAt(l))
  /\ Group(d, CurrentMaster, kind, id, l, GenerationToken(g), OrdersAt(l))
  /\ psiOrders >= 1 => Group(d, Coefficients, kind, id, l, GenerationToken(g), psiOrders)
MetricStands(d, kind, id, l, g) ==
  /\ Group(d, MetricLevel(l), kind, id, l, GenerationToken(g), OrdersAt(l))
  /\ Group(d, ViewOf("current", MetricFields), kind, id, l, GenerationToken(g), OrdersAt(l))

LEMMA OrdersOf ==
  \A l \in Levels : OrdersAt(l) \in Nat /\ OrdersAt(l) >= 1 /\ l \in Int /\ l \in Nat
  BY DEF Levels, TopLevel, OrdersAt

LEMMA LevelTouched ==
  /\ \A l : \A s \in MasterLevel(l) : s[1] = "primary" /\ s[2][2] = l
  /\ \A l : \A s \in MetricLevel(l) : s[1] = "h" /\ s[2][2] = l
  /\ \A view, fields : \A s \in ViewOf(view, fields) : s[1] = view
  /\ \A s \in CurrentMaster : s[1] = "current primary"
  /\ \A s \in Coefficients : s[1] = "coefficients"
<1>1. \A l : \A s \in MasterLevel(l) : s[1] = "primary" /\ s[2][2] = l
  BY DEF MasterLevel, MasterJet
<1>2. \A l : \A s \in MetricLevel(l) : s[1] = "h" /\ s[2][2] = l
  BY DEF MetricLevel, MetricJet
<1>3. \A view, fields : \A s \in ViewOf(view, fields) : s[1] = view
  BY DEF ViewOf
<1>4. \A s \in CurrentMaster : s[1] = "current primary"
  BY DEF CurrentMaster
<1>5. \A s \in Coefficients : s[1] = "coefficients"
  BY DEF Coefficients
<1> QED
  BY <1>1, <1>2, <1>3, <1>4, <1>5

\* The source of each field a level is filled from.
FieldsHold(d, from, fields, kind, id, rate) ==
  /\ DOMAIN from = fields
  /\ \A f \in fields : from[f] \in TowerSlots /\ Holds(d.mem, from[f], id, rate, Extra(kind))

LEMMA HoldsOf ==
  ASSUME NEW d, NEW slots, NEW s \in slots, NEW kind \in Kinds \ {"void"},
         NEW id, NEW rate, NEW token, NEW orders, Group(d, slots, kind, id, rate, token, orders)
  PROVE  Holds(d.mem, s, id, rate, Extra(kind))
  BY DEF Group, HasKind

LEMMA MasterFilled ==
  ASSUME NEW d, Sound(d), NEW from, NEW l \in Levels, NEW g, NEW kind \in Kinds \ {"void"},
         NEW id, FieldsHold(d, from, MasterFields, kind, id, l)
  PROVE  LET e == Filled(d, [s \in MasterLevel(l) |-> from[s[2][1]]], GenerationToken(g), OrdersAt(l))
         IN  /\ Sound(e) /\ Frame(d, e, {}, {"primary"}, l)
             /\ Group(e, MasterLevel(l), kind, id, l, GenerationToken(g), OrdersAt(l))
<1> DEFINE all == [s \in MasterLevel(l) |-> from[s[2][1]]]
           e == Filled(d, all, GenerationToken(g), OrdersAt(l))
<1>1. \A s \in MasterLevel(l) : s[2][1] \in MasterFields
  BY DEF MasterLevel, MasterJet
<1>2. AllHold(d, all, kind, id, l)
  BY <1>1 DEF AllHold, FieldsHold
<1>3. DOMAIN all = MasterLevel(l) /\ DOMAIN all \subseteq TowerSlots
  BY MasterSlots
<1>4. OrdersAt(l) \in Nat /\ OrdersAt(l) >= 1
  BY OrdersOf
<1> HIDE DEF all
<1>5. /\ Sound(e) /\ Same(d, e, TowerSlots \ DOMAIN all)
      /\ Group(e, DOMAIN all, kind, id, l, GenerationToken(g), OrdersAt(l))
  BY <1>2, <1>3, <1>4, FilledGroup
<1> HIDE DEF e
<1>6. Touched(MasterLevel(l), {}, {"primary"}, l)
  BY LevelTouched DEF Touched, Apart
<1>7. Frame(d, e, {}, {"primary"}, l)
  BY <1>3, <1>5, <1>6, FrameOf
<1> QED
  BY <1>3, <1>5, <1>7 DEF e, all

LEMMA MetricFilled ==
  ASSUME NEW d, Sound(d), NEW from, NEW l \in Levels, NEW g, NEW kind \in Kinds \ {"void"},
         NEW id, FieldsHold(d, from, MetricFields, kind, id, l)
  PROVE  LET e == Filled(d, [s \in MetricLevel(l) |-> from[s[2][1]]], GenerationToken(g), OrdersAt(l))
         IN  /\ Sound(e) /\ Frame(d, e, {}, {"h"}, l)
             /\ Group(e, MetricLevel(l), kind, id, l, GenerationToken(g), OrdersAt(l))
<1> DEFINE all == [s \in MetricLevel(l) |-> from[s[2][1]]]
           e == Filled(d, all, GenerationToken(g), OrdersAt(l))
<1>1. \A s \in MetricLevel(l) : s[2][1] \in MetricFields
  BY DEF MetricLevel, MetricJet
<1>2. AllHold(d, all, kind, id, l)
  BY <1>1 DEF AllHold, FieldsHold
<1>3. DOMAIN all = MetricLevel(l) /\ DOMAIN all \subseteq TowerSlots
  BY MetricSlots
<1>4. OrdersAt(l) \in Nat /\ OrdersAt(l) >= 1
  BY OrdersOf
<1> HIDE DEF all
<1>5. /\ Sound(e) /\ Same(d, e, TowerSlots \ DOMAIN all)
      /\ Group(e, DOMAIN all, kind, id, l, GenerationToken(g), OrdersAt(l))
  BY <1>2, <1>3, <1>4, FilledGroup
<1> HIDE DEF e
<1>6. Touched(MetricLevel(l), {}, {"h"}, l)
  BY LevelTouched DEF Touched, Apart
<1>7. Frame(d, e, {}, {"h"}, l)
  BY <1>3, <1>5, <1>6, FrameOf
<1> QED
  BY <1>3, <1>5, <1>7 DEF e, all

\* One slot made a copy of another that is whole.
LEMMA ViewFilled ==
  ASSUME NEW d, Sound(d), NEW from, NEW slots \in SUBSET TowerSlots, DOMAIN from = slots,
         NEW view, \A s \in slots : s[1] = view,
         NEW kind \in Kinds \ {"void"}, NEW id, NEW rate, AllHold(d, from, kind, id, rate),
         NEW token, NEW orders \in Nat, orders >= 1
  PROVE  /\ Sound(Filled(d, from, token, orders))
         /\ \A l : Frame(d, Filled(d, from, token, orders), {view}, {}, l)
         /\ Group(Filled(d, from, token, orders), slots, kind, id, rate, token, orders)
<1>1. /\ Sound(Filled(d, from, token, orders))
      /\ Same(d, Filled(d, from, token, orders), TowerSlots \ slots)
      /\ Group(Filled(d, from, token, orders), slots, kind, id, rate, token, orders)
  BY FilledGroup
<1>2. \A l : Touched(slots, {view}, {}, l)
  BY DEF Touched, Apart
<1>3. \A l : Frame(d, Filled(d, from, token, orders), {view}, {}, l)
  <2> TAKE l
  <2>1. Touched(slots, {view}, {}, l)
    BY <1>2
  <2> QED
    BY <1>1, <2>1, FrameOf
<1> QED
  BY <1>1, <1>3

LEMMA MasterLevelHolds ==
  ASSUME NEW d, NEW l \in Levels, NEW kind \in Kinds \ {"void"}, NEW id, NEW token, NEW orders,
         Group(d, MasterLevel(l), kind, id, l, token, orders)
  PROVE  \A f \in MasterFields : /\ MasterJet(f, l) \in TowerSlots
                                 /\ Holds(d.mem, MasterJet(f, l), id, l, Extra(kind))
  BY MasterSlots, HoldsOf DEF MasterLevel

LEMMA MetricLevelHolds ==
  ASSUME NEW d, NEW l \in Levels, NEW kind \in Kinds \ {"void"}, NEW id, NEW token, NEW orders,
         Group(d, MetricLevel(l), kind, id, l, token, orders)
  PROVE  \A f \in MetricFields : /\ MetricJet(f, l) \in TowerSlots
                                 /\ Holds(d.mem, MetricJet(f, l), id, l, Extra(kind))
  BY MetricSlots, HoldsOf DEF MetricLevel

LEMMA PublishMasterReady ==
  ASSUME NEW d, Sound(d), NEW from, NEW l \in Levels, NEW g, NEW psiOrders \in Nat,
         NEW kind \in Kinds \ {"void"}, NEW id, FieldsHold(d, from, MasterFields, kind, id, l)
  PROVE  LET e == PublishMaster(d, from, l, g, psiOrders, TRUE)
         IN  /\ Sound(e) /\ MasterStands(e, kind, id, l, g, psiOrders)
             /\ Frame(d, e, {"current primary", "coefficients"}, {"primary"}, l)
<1> DEFINE d1 == Filled(d, [s \in MasterLevel(l) |-> from[s[2][1]]], GenerationToken(g), OrdersAt(l))
           c == [s \in CurrentMaster |-> MasterJet(s[2], l)]
           d2 == Filled(d1, c, GenerationToken(g), OrdersAt(l))
           p == [s \in Coefficients |-> MasterJet("psi", l)]
           e == Filled(d2, p, GenerationToken(g), psiOrders)
           T == GenerationToken(g)
           n == OrdersAt(l)
<1>1. PublishMaster(d, from, l, g, psiOrders, TRUE) = e
  BY DEF PublishMaster, MasterLevel, CurrentMaster, Coefficients
<1>2. Sound(d1) /\ Frame(d, d1, {}, {"primary"}, l) /\ Group(d1, MasterLevel(l), kind, id, l, T, n)
  BY MasterFilled
<1>3. n \in Nat /\ n >= 1
  BY OrdersOf
<1>4. AllHold(d1, c, kind, id, l) /\ DOMAIN c = CurrentMaster
  <2>1. \A s \in CurrentMaster : s[2] \in MasterFields
    BY DEF CurrentMaster
  <2> HIDE DEF d1, T, n
  <2>2. \A f \in MasterFields : /\ MasterJet(f, l) \in TowerSlots
                                /\ Holds(d1.mem, MasterJet(f, l), id, l, Extra(kind))
    BY <1>2, MasterLevelHolds
  <2> QED
    BY <2>1, <2>2 DEF AllHold
<1> HIDE DEF d1, T, n, c
<1>5. \A s \in CurrentMaster : s[1] = "current primary"
  BY LevelTouched
<1>6. /\ Sound(d2) /\ Frame(d1, d2, {"current primary"}, {}, l)
      /\ Group(d2, CurrentMaster, kind, id, l, T, n)
  <2>1. CurrentMaster \in SUBSET TowerSlots
    BY MasterSlots
  <2>2. /\ Sound(Filled(d1, c, T, n))
        /\ \A k : Frame(d1, Filled(d1, c, T, n), {"current primary"}, {}, k)
        /\ Group(Filled(d1, c, T, n), CurrentMaster, kind, id, l, T, n)
    BY <1>2, <1>3, <1>4, <1>5, <2>1, ViewFilled
  <2> QED
    BY <2>2 DEF T, n
<1> HIDE DEF d2
<1>7. Clear(MasterLevel(l), {"current primary"}, {}, l)
  BY LevelTouched DEF Clear, Apart
<1>8. MasterLevel(l) \in SUBSET TowerSlots /\ CurrentMaster \in SUBSET TowerSlots
      /\ Coefficients \in SUBSET TowerSlots
  BY MasterSlots
<1>9. Group(d2, MasterLevel(l), kind, id, l, T, n)
  BY <1>2, <1>6, <1>7, <1>8, GroupFrame
<1>10. AllHold(d2, p, kind, id, l) /\ DOMAIN p = Coefficients
  <2>1. "psi" \in MasterFields
    BY DEF MasterFields
  <2>2. MasterJet("psi", l) \in TowerSlots /\ Holds(d2.mem, MasterJet("psi", l), id, l, Extra(kind))
    BY <1>9, <2>1, MasterLevelHolds
  <2> QED
    BY <2>2 DEF AllHold
<1> HIDE DEF p
<1>11. Touched(Coefficients, {"coefficients"}, {}, l)
  BY LevelTouched DEF Touched, Apart
<1>12. Sound(e) /\ Same(d2, e, TowerSlots \ Coefficients)
  <2>1. \A s \in DOMAIN p : p[s] \in TowerSlots
    BY <1>10 DEF AllHold
  <2>2. DOMAIN p \subseteq TowerSlots
    BY <1>8, <1>10
  <2> QED
    BY <1>6, <1>10, <2>1, <2>2, FilledKeeps
<1>13. psiOrders >= 1 => Group(e, Coefficients, kind, id, l, T, psiOrders)
  <2> SUFFICES ASSUME psiOrders >= 1 PROVE Group(e, Coefficients, kind, id, l, T, psiOrders)
    OBVIOUS
  <2>1. DOMAIN p \subseteq TowerSlots
    BY <1>8, <1>10
  <2>2. Group(Filled(d2, p, T, psiOrders), DOMAIN p, kind, id, l, T, psiOrders)
    BY <1>6, <1>10, <2>1, FilledGroup
  <2> QED
    BY <1>10, <2>2 DEF T
<1> HIDE DEF e
<1>14. Frame(d2, e, {"coefficients"}, {}, l)
  BY <1>11, <1>12, FrameOf
<1>15. Clear(MasterLevel(l), {"coefficients"}, {}, l) /\ Clear(CurrentMaster, {"coefficients"}, {}, l)
  BY LevelTouched DEF Clear, Apart
<1>16. Group(e, MasterLevel(l), kind, id, l, T, n) /\ Group(e, CurrentMaster, kind, id, l, T, n)
  BY <1>6, <1>8, <1>9, <1>14, <1>15, GroupFrame
<1>17. MasterStands(e, kind, id, l, g, psiOrders)
  BY <1>13, <1>16 DEF MasterStands, T, n
<1> DEFINE views == {"current primary", "coefficients"}
<1> HIDE DEF views
<1>20. Frame(d, d1, views, {"primary"}, l)
  BY <1>2 DEF Frame, Apart, views
<1>21. Frame(d1, d2, views, {"primary"}, l)
  BY <1>6 DEF Frame, Apart, views
<1>22. Frame(d2, e, views, {"primary"}, l)
  BY <1>14 DEF Frame, Apart, views
<1>18. Frame(d, d2, views, {"primary"}, l)
  BY <1>20, <1>21, FrameThen
<1>19. Frame(d, e, views, {"primary"}, l)
  BY <1>22, <1>18, FrameThen
<1> QED
  BY <1>1, <1>12, <1>17, <1>19 DEF views

LEMMA PublishMasterRefused ==
  ASSUME NEW d, Sound(d), NEW from, NEW l \in Levels, NEW g, NEW psiOrders, NEW id
  PROVE  LET e == PublishMaster(d, from, l, g, psiOrders, FALSE)
         IN  /\ Sound(e) /\ MasterStands(e, "void", id, l, g, psiOrders)
             /\ Frame(d, e, {"current primary", "coefficients"}, {"primary"}, l)
<1> DEFINE slots == MasterLevel(l) \cup CurrentMaster \cup Coefficients
           e == Cleared(d, slots)
<1>1. PublishMaster(d, from, l, g, psiOrders, FALSE) = e
  BY DEF PublishMaster, MasterLevel, CurrentMaster, Coefficients
<1>2. slots \in SUBSET TowerSlots
  BY MasterSlots
<1>3. Touched(slots, {"current primary", "coefficients"}, {"primary"}, l)
  BY LevelTouched DEF Touched, Apart
<1>4. \A s \in slots : Void(Cleared(d, slots), s)
  BY <1>2, ClearedKeeps
<1>5. Sound(Cleared(d, slots)) /\ Same(d, Cleared(d, slots), TowerSlots \ slots)
  BY <1>2, ClearedKeeps
<1>6. MasterStands(e, "void", id, l, g, psiOrders)
  BY <1>4 DEF MasterStands, Group, HasKind
<1> HIDE DEF slots
<1>7. Frame(d, e, {"current primary", "coefficients"}, {"primary"}, l)
  BY <1>3, <1>5, FrameOf
<1> QED
  BY <1>1, <1>5, <1>6, <1>7

CopiedFrom(d, e, from, l) == \A f \in MetricFields : e.mem[MetricJet(f, l)] = d.mem[from[f]]

LEMMA PublishMetricReady ==
  ASSUME NEW d, Sound(d), NEW from, NEW l \in Levels, NEW g,
         NEW kind \in Kinds \ {"void"}, NEW id, FieldsHold(d, from, MetricFields, kind, id, l)
  PROVE  LET e == PublishMetric(d, from, l, g, TRUE)
         IN  /\ Sound(e) /\ MetricStands(e, kind, id, l, g)
             /\ Frame(d, e, {"current"}, {"h"}, l)
             /\ CopiedFrom(d, e, from, l)
<1> DEFINE Current == ViewOf("current", MetricFields)
           d1 == Filled(d, [s \in MetricLevel(l) |-> from[s[2][1]]], GenerationToken(g), OrdersAt(l))
           c == [s \in Current |-> MetricJet(s[2], l)]
           e == Filled(d1, c, GenerationToken(g), OrdersAt(l))
           T == GenerationToken(g)
           n == OrdersAt(l)
<1>1. PublishMetric(d, from, l, g, TRUE) = e
  BY DEF PublishMetric, MetricLevel, ViewOf
<1>2. Sound(d1) /\ Frame(d, d1, {}, {"h"}, l) /\ Group(d1, MetricLevel(l), kind, id, l, T, n)
  BY MetricFilled
<1>20. \A f \in MetricFields : d1.mem[MetricJet(f, l)] = d.mem[from[f]]
  <2>1. n # 0
    BY OrdersOf
  <2>2. \A f \in MetricFields : MetricJet(f, l) \in MetricLevel(l) /\ MetricJet(f, l)[2][1] = f
                                /\ MetricJet(f, l) \in TowerSlots
    BY MetricSlots DEF MetricLevel, MetricJet
  <2> HIDE DEF n
  <2>3. \A s \in MetricLevel(l) : s \in TowerSlots => d1.mem[s] = d.mem[from[s[2][1]]]
    BY <2>1 DEF Filled, Sound, n
  <2> HIDE DEF d1
  <2> QED
    BY <2>2, <2>3
<1>3. n \in Nat /\ n >= 1
  BY OrdersOf
<1>4. AllHold(d1, c, kind, id, l) /\ DOMAIN c = Current
  <2>1. \A s \in Current : s[2] \in MetricFields
    BY DEF ViewOf
  <2> HIDE DEF d1, T, n, Current
  <2>2. \A f \in MetricFields : /\ MetricJet(f, l) \in TowerSlots
                                /\ Holds(d1.mem, MetricJet(f, l), id, l, Extra(kind))
    BY <1>2, MetricLevelHolds
  <2> QED
    BY <2>1, <2>2 DEF AllHold
<1> HIDE DEF d1, T, n, c
<1>5. \A s \in Current : s[1] = "current"
  BY LevelTouched
<1>8. MetricLevel(l) \in SUBSET TowerSlots /\ Current \in SUBSET TowerSlots
  BY MetricSlots
<1> HIDE DEF Current
<1>6. /\ Sound(e) /\ Frame(d1, e, {"current"}, {}, l)
      /\ Group(e, Current, kind, id, l, T, n)
  <2>2. /\ Sound(Filled(d1, c, T, n))
        /\ \A k : Frame(d1, Filled(d1, c, T, n), {"current"}, {}, k)
        /\ Group(Filled(d1, c, T, n), Current, kind, id, l, T, n)
    BY <1>2, <1>3, <1>4, <1>5, <1>8, ViewFilled
  <2> QED
    BY <2>2 DEF T, n
<1> HIDE DEF e
<1>7. Clear(MetricLevel(l), {"current"}, {}, l)
  BY LevelTouched DEF Clear, Apart
<1>9. Group(e, MetricLevel(l), kind, id, l, T, n)
  BY <1>2, <1>6, <1>7, <1>8, GroupFrame
<1>10. MetricStands(e, kind, id, l, g)
  BY <1>6, <1>9 DEF MetricStands, T, n, Current
<1>11. Frame(d, d1, {"current"}, {"h"}, l)
  BY <1>2 DEF Frame, Apart
<1>12. Frame(d1, e, {"current"}, {"h"}, l)
  BY <1>6 DEF Frame, Apart
<1>13. Frame(d, e, {"current"}, {"h"}, l)
  BY <1>11, <1>12, FrameThen
<1>14. \A f \in MetricFields : e.mem[MetricJet(f, l)] = d1.mem[MetricJet(f, l)]
  <2>1. \A f \in MetricFields : MetricJet(f, l) \in MetricLevel(l) /\ MetricJet(f, l) \in TowerSlots
    BY MetricSlots DEF MetricLevel
  <2> QED
    BY <1>6, <1>7, <2>1 DEF Frame, Clear
<1>15. CopiedFrom(d, e, from, l)
  BY <1>14, <1>20 DEF CopiedFrom
<1> QED
  BY <1>1, <1>6, <1>10, <1>13, <1>15

LEMMA PublishMetricRefused ==
  ASSUME NEW d, Sound(d), NEW from, NEW l \in Levels, NEW g, NEW id
  PROVE  LET e == PublishMetric(d, from, l, g, FALSE)
         IN  /\ Sound(e) /\ MetricStands(e, "void", id, l, g)
             /\ Frame(d, e, {"current"}, {"h"}, l)
<1> DEFINE slots == MetricLevel(l) \cup ViewOf("current", MetricFields)
           e == Cleared(d, slots)
<1>1. PublishMetric(d, from, l, g, FALSE) = e
  BY DEF PublishMetric, MetricLevel, ViewOf
<1>2. slots \in SUBSET TowerSlots
  BY MetricSlots
<1>3. Touched(slots, {"current"}, {"h"}, l)
  BY LevelTouched DEF Touched, Apart
<1>4. \A s \in slots : Void(Cleared(d, slots), s)
  BY <1>2, ClearedKeeps
<1>5. Sound(Cleared(d, slots)) /\ Same(d, Cleared(d, slots), TowerSlots \ slots)
  BY <1>2, ClearedKeeps
<1>6. MetricStands(e, "void", id, l, g)
  BY <1>4 DEF MetricStands, Group, HasKind
<1> HIDE DEF slots
<1>7. Frame(d, e, {"current"}, {"h"}, l)
  BY <1>3, <1>5, FrameOf
<1> QED
  BY <1>1, <1>5, <1>6, <1>7

\* The level under construction: the fields of a pass.
FieldJets(fields, l) == {MetricJet(f, l) : f \in fields}
NextStands(d, fields, token, kind, id, l) ==
  /\ Group(d, FieldJets(fields, l + 1), kind, id, l + 1, NoToken, NextOrders(l))
  /\ Group(d, ViewOf("next", fields), kind, id, l + 1, token, NextOrders(l))

LEMMA NextOf ==
  \A l \in 0 .. 3 : /\ NextOrders(l) \in Nat /\ NextOrders(l) >= 1 /\ l \in Levels
                    /\ l + 1 \in Levels /\ OrdersAt(l + 1) = NextOrders(l)
                    /\ OrdersAt(l) >= NextOrders(l) /\ l \in Int /\ l + 1 \in Int
                    /\ OrdersAt(l) \in Nat /\ l + 1 # l
  BY DEF Levels, TopLevel, OrdersAt, NextOrders

LEMMA FieldSlots ==
  ASSUME NEW fields \in SUBSET MetricFields, NEW l \in Levels
  PROVE  /\ FieldJets(fields, l) \in SUBSET TowerSlots
         /\ FieldJets(fields, l) \subseteq MetricLevel(l)
         /\ \A s \in FieldJets(fields, l) : s[1] = "h" /\ s[2][2] = l /\ s[2][1] \in fields
         /\ \A view \in {"current", "next", "projected"} :
               /\ ViewOf(view, fields) \in SUBSET TowerSlots
               /\ ViewOf(view, fields) \subseteq ViewOf(view, MetricFields)
<1>1. FieldJets(fields, l) \subseteq MetricLevel(l)
  BY DEF FieldJets, MetricLevel
<1>2. FieldJets(fields, l) \in SUBSET TowerSlots
  BY <1>1, MetricSlots
<1>3. \A s \in FieldJets(fields, l) : s[1] = "h" /\ s[2][2] = l /\ s[2][1] \in fields
  BY DEF FieldJets, MetricJet
<1>4. \A view : ViewOf(view, fields) \subseteq ViewOf(view, MetricFields)
  BY DEF ViewOf
<1>5. \A view \in {"current", "next", "projected"} : ViewOf(view, MetricFields) \in SUBSET TowerSlots
  BY MetricSlots
<1> QED
  BY <1>1, <1>2, <1>3, <1>4, <1>5

LEMMA PublishNextReady ==
  ASSUME NEW d, Sound(d), NEW fields \in SUBSET MetricFields, NEW from, NEW l \in 0 .. 3, NEW token,
         NEW kind \in Kinds \ {"void"}, NEW id, FieldsHold(d, from, fields, kind, id, l + 1)
  PROVE  LET e == PublishNext(d, from, l, token, TRUE)
         IN  /\ Sound(e) /\ NextStands(e, fields, token, kind, id, l)
             /\ Same(d, e, TowerSlots \ (FieldJets(fields, l + 1) \cup ViewOf("next", fields)))
<1> DEFINE jets == FieldJets(fields, l + 1)
           next == ViewOf("next", fields)
           a == [s \in jets |-> from[s[2][1]]]
           c == [s \in next |-> MetricJet(s[2], l + 1)]
           n == NextOrders(l)
           d1 == Filled(d, a, NoToken, n)
           e == Filled(d1, c, token, n)
<1>1. PublishNext(d, from, l, token, TRUE) = e
  <2>1. DOMAIN from = fields
    BY DEF FieldsHold
  <2> QED
    BY <2>1 DEF PublishNext, FieldJets, ViewOf
<1>2. n \in Nat /\ n >= 1 /\ l + 1 \in Levels
  BY NextOf
<1>3. jets \in SUBSET TowerSlots /\ next \in SUBSET TowerSlots
      /\ \A s \in jets : s[1] = "h" /\ s[2][1] \in fields
  <2>1. jets \in SUBSET TowerSlots /\ \A s \in jets : s[1] = "h" /\ s[2][1] \in fields
    <3>1. PICK k \in Levels : k = l + 1
      BY <1>2
    <3>2. /\ FieldJets(fields, k) \in SUBSET TowerSlots
          /\ \A s \in FieldJets(fields, k) : s[1] = "h" /\ s[2][2] = k /\ s[2][1] \in fields
      BY FieldSlots
    <3> QED
      BY <3>1, <3>2
  <2>2. ViewOf("next", fields) \in SUBSET TowerSlots
    BY <1>2, FieldSlots
  <2> QED
    BY <2>1, <2>2
<1>4. \A s \in next : s[1] = "next" /\ s[2] \in fields
  BY DEF ViewOf
<1>5. \A f \in fields : MetricJet(f, l + 1) \in jets
  BY DEF FieldJets
<1> HIDE DEF jets, next, n
<1>6. AllHold(d, a, kind, id, l + 1) /\ DOMAIN a = jets /\ DOMAIN a \subseteq TowerSlots
  BY <1>3 DEF AllHold, FieldsHold
<1> HIDE DEF a
<1>7. Sound(d1) /\ Same(d, d1, TowerSlots \ jets) /\ Group(d1, jets, kind, id, l + 1, NoToken, n)
  BY <1>2, <1>6, FilledGroup
<1> HIDE DEF d1
<1>8. AllHold(d1, c, kind, id, l + 1) /\ DOMAIN c = next /\ DOMAIN c \subseteq TowerSlots
  <2>1. \A s \in jets : Holds(d1.mem, s, id, l + 1, Extra(kind))
    BY <1>7, HoldsOf
  <2> QED
    BY <1>3, <1>4, <1>5, <2>1 DEF AllHold
<1> HIDE DEF c
<1>9. Sound(e) /\ Same(d1, e, TowerSlots \ next) /\ Group(e, next, kind, id, l + 1, token, n)
  BY <1>2, <1>7, <1>8, FilledGroup
<1> HIDE DEF e
<1>10. Touched(next, {"next"}, {}, l)
  BY <1>4 DEF Touched, Apart
<1>11. Frame(d1, e, {"next"}, {}, l)
  BY <1>9, <1>10, FrameOf
<1>12. Clear(jets, {"next"}, {}, l)
  BY <1>3 DEF Clear, Apart
<1>13. Group(e, jets, kind, id, l + 1, NoToken, n)
  BY <1>3, <1>7, <1>11, <1>12, GroupFrame
<1>14. Same(d, e, TowerSlots \ (jets \cup next))
  BY <1>7, <1>9 DEF Same
<1> QED
  BY <1>1, <1>9, <1>13, <1>14 DEF NextStands, jets, next, n

\* A pass that is not ready takes all the fields back, those of the passes before too.
LEMMA PublishNextRefused ==
  ASSUME NEW d, Sound(d), NEW from, NEW l \in 0 .. 3, NEW token
  PROVE  LET e == PublishNext(d, from, l, token, FALSE)
         IN  /\ Sound(e) /\ Frame(d, e, {"next"}, {"h"}, l + 1)
             /\ \A fields \in SUBSET MetricFields : \A t, id : NextStands(e, fields, t, "void", id, l)
<1> DEFINE slots == ViewOf("next", MetricFields) \cup MetricLevel(l + 1)
           e == Cleared(d, slots)
<1>1. PublishNext(d, from, l, token, FALSE) = e
  BY DEF PublishNext, MetricLevel, ViewOf
<1>2. slots \in SUBSET TowerSlots
  BY MetricSlots, NextOf
<1>3. Touched(slots, {"next"}, {"h"}, l + 1)
  BY LevelTouched, ZenonT(60) DEF Touched, Apart
<1>4. \A s \in slots : Void(Cleared(d, slots), s)
  BY <1>2, ClearedKeeps
<1>5. Sound(Cleared(d, slots)) /\ Same(d, Cleared(d, slots), TowerSlots \ slots)
  BY <1>2, ClearedKeeps
<1>6. \A fields \in SUBSET MetricFields : FieldJets(fields, l + 1) \subseteq slots
                                          /\ ViewOf("next", fields) \subseteq slots
  BY NextOf, FieldSlots
<1>7. \A fields \in SUBSET MetricFields : \A t, id : NextStands(e, fields, t, "void", id, l)
  BY <1>4, <1>6 DEF NextStands, Group, HasKind
<1> HIDE DEF slots
<1>8. Frame(d, e, {"next"}, {"h"}, l + 1)
  BY <1>3, <1>5, FrameOf
<1> QED
  BY <1>1, <1>5, <1>7, <1>8

-----------------------------------------------------------------------------
(* Projection *)

Projection(d, cleared, from, orders, source, token) ==
  RowsStamped(Projected(Cleared(d, cleared), from),
              [s \in DOMAIN from |-> {Source(from[s], source)}], orders, token)
SourcesOf(from, cleared, sources) ==
  /\ cleared \subseteq TowerSlots /\ sources \subseteq TowerSlots
  /\ sources \cap cleared = {} /\ DOMAIN from \subseteq cleared
  /\ \A s \in DOMAIN from : from[s] \in sources

ProjectedAs(d, x, cleared, from) ==
  /\ Sound(x) /\ Same(d, x, TowerSlots \ cleared)
  /\ \A s \in DOMAIN from, m \in Modes : x.mem[s][m] = d.mem[from[s]][m] \ {OffBand}
  /\ \A s \in DOMAIN from : x.stamp[from[s]] = d.stamp[from[s]]

\* Between the clearing and the stamping.
LEMMA ProjectionMem ==
  ASSUME NEW d, Sound(d), NEW cleared, NEW from, NEW sources, SourcesOf(from, cleared, sources)
  PROVE  ProjectedAs(d, Projected(Cleared(d, cleared), from), cleared, from)
<1> DEFINE c == Cleared(d, cleared)
           x == Projected(c, from)
<1>1. /\ cleared \subseteq TowerSlots /\ sources \subseteq TowerSlots
      /\ sources \cap cleared = {} /\ DOMAIN from \subseteq cleared
      /\ \A s \in DOMAIN from : from[s] \in sources
  BY DEF SourcesOf
<1>2. Sound(c) /\ Same(d, c, TowerSlots \ cleared)
  BY ClearedKeeps
<1> HIDE DEF c
<1>3. /\ Sound(x) /\ Same(c, x, TowerSlots \ DOMAIN from) /\ x.stamp = c.stamp
      /\ \A s \in DOMAIN from, m \in Modes : x.mem[s][m] = c.mem[from[s]][m] \ {OffBand}
  <2>1. DOMAIN from \subseteq TowerSlots /\ \A s \in DOMAIN from : from[s] \in TowerSlots
    BY <1>1
  <2> QED
    BY <1>2, <2>1, ProjectedKeeps
<1> HIDE DEF x
<1>4. \A s \in DOMAIN from : from[s] \in TowerSlots \ cleared
  BY <1>1
<1>5. \A s \in DOMAIN from : c.mem[from[s]] = d.mem[from[s]] /\ c.stamp[from[s]] = d.stamp[from[s]]
  BY <1>2, <1>4 DEF Same
<1>6. Same(d, x, TowerSlots \ cleared)
  BY <1>1, <1>2, <1>3 DEF Same
<1>7. \A s \in DOMAIN from, m \in Modes : x.mem[s][m] = d.mem[from[s]][m] \ {OffBand}
  BY <1>3, <1>5
<1>8. \A s \in DOMAIN from : x.stamp[from[s]] = d.stamp[from[s]]
  BY <1>3, <1>5
<1> QED
  BY <1>3, <1>6, <1>7, <1>8 DEF x, c, ProjectedAs

LEMMA ProjectionWhole ==
  ASSUME NEW d, Sound(d), NEW cleared, NEW from, NEW sources, SourcesOf(from, cleared, sources),
         NEW orders \in Nat, orders >= 1, NEW source, NEW token,
         NEW kind \in Kinds \ {"void"}, NEW id \in Int, NEW rate \in Int,
         NEW has \in Nat, has >= orders, Group(d, sources, kind, id, rate, source, has)
  PROVE  LET e == Projection(d, cleared, from, orders, source, token)
         IN  /\ Sound(e) /\ Same(d, e, TowerSlots \ cleared)
             /\ Group(e, DOMAIN from, "inband", id, rate, token, orders)
<1> DEFINE x == Projected(Cleared(d, cleared), from)
           rows == [s \in DOMAIN from |-> {Source(from[s], source)}]
           e == RowsStamped(x, rows, orders, token)
<1>1. /\ cleared \subseteq TowerSlots /\ DOMAIN from \subseteq cleared
      /\ \A s \in DOMAIN from : from[s] \in sources
  BY DEF SourcesOf
<1>2. /\ Sound(x) /\ Same(d, x, TowerSlots \ cleared)
      /\ \A s \in DOMAIN from, m \in Modes : x.mem[s][m] = d.mem[from[s]][m] \ {OffBand}
      /\ \A s \in DOMAIN from : x.stamp[from[s]] = d.stamp[from[s]]
  <2>1. ProjectedAs(d, x, cleared, from)
    BY ProjectionMem
  <2> HIDE DEF x
  <2> QED
    BY <2>1 DEF ProjectedAs
<1>3. e = Projection(d, cleared, from, orders, source, token)
  BY DEF Projection
<1> HIDE DEF x
<1>4. DOMAIN rows = DOMAIN from /\ DOMAIN rows \subseteq TowerSlots
  BY <1>1
<1>5. \A s \in DOMAIN from : rows[s] = {[slot |-> from[s], token |-> source]}
  BY DEF Source
<1> HIDE DEF rows
<1>6. Sound(e) /\ Same(x, e, TowerSlots \ DOMAIN from)
  BY <1>2, <1>4, RowsKeep
<1> HIDE DEF e
<1>7. ASSUME NEW s \in DOMAIN from
      PROVE  HasKind(e, s, "inband", id, rate, token, orders)
  <2>1. from[s] \in sources
    BY <1>1
  <2>2. Holds(d.mem, from[s], id, rate, Extra(kind)) /\ Stamped(d, from[s], source, has)
    BY <2>1 DEF Group, HasKind
  <2>3. Holds(x.mem, s, id, rate, {})
    <3>1. \A m \in Modes : x.mem[s][m] = d.mem[from[s]][m] \ {OffBand}
      BY <1>2
    <3>2. Extra(kind) \in Extras
      BY ExtraKinds
    <3> QED
      BY <2>2, <3>1, <3>2, HoldsProjected
  <2>4. Stamped(x, from[s], source, has)
    BY <2>2, <1>2 DEF Stamped
  <2>5. \A r \in rows[s] : \E h \in Nat : h >= orders /\ Stamped(x, r.slot, r.token, h)
    BY <1>5, <2>4
  <2> QED
    BY <1>2, <1>4, <2>3, <2>5, RowsWhole DEF e
<1>8. Group(e, DOMAIN from, "inband", id, rate, token, orders)
  BY <1>7 DEF Group
<1>9. Same(d, e, TowerSlots \ cleared)
  BY <1>1, <1>2, <1>6 DEF Same
<1> QED
  BY <1>3, <1>6, <1>8, <1>9

LEMMA ProjectionRefused ==
  ASSUME NEW d, Sound(d), NEW cleared, NEW from, NEW sources, SourcesOf(from, cleared, sources),
         NEW orders \in Nat, orders >= 1, NEW source, NEW token, DOMAIN from # {},
         NEW id, NEW rate, NEW t, NEW o, Group(d, sources, "void", id, rate, t, o)
  PROVE  LET e == Projection(d, cleared, from, orders, source, token)
         IN  /\ Sound(e) /\ Same(d, e, TowerSlots \ cleared)
             /\ ~AllBear(e, DOMAIN from, token, orders)
<1> DEFINE x == Projected(Cleared(d, cleared), from)
           rows == [s \in DOMAIN from |-> {Source(from[s], source)}]
           e == RowsStamped(x, rows, orders, token)
<1>1. /\ cleared \subseteq TowerSlots /\ DOMAIN from \subseteq cleared
      /\ \A s \in DOMAIN from : from[s] \in sources
  BY DEF SourcesOf
<1>2. /\ Sound(x) /\ Same(d, x, TowerSlots \ cleared)
      /\ \A s \in DOMAIN from : x.stamp[from[s]] = d.stamp[from[s]]
  <2>1. ProjectedAs(d, x, cleared, from)
    BY ProjectionMem
  <2> HIDE DEF x
  <2> QED
    BY <2>1 DEF ProjectedAs
<1>3. e = Projection(d, cleared, from, orders, source, token)
  BY DEF Projection
<1> HIDE DEF x
<1>4. DOMAIN rows = DOMAIN from /\ DOMAIN rows \subseteq TowerSlots
  BY <1>1
<1>5. \A s \in DOMAIN from : rows[s] = {[slot |-> from[s], token |-> source]}
  BY DEF Source
<1> HIDE DEF rows
<1>6. Sound(e) /\ Same(x, e, TowerSlots \ DOMAIN from)
  BY <1>2, <1>4, RowsKeep
<1>7. PICK s \in DOMAIN from : TRUE
  OBVIOUS
<1>8. PICK m \in Modes : TRUE
  BY ModesAssumption
<1>9. d.stamp[from[s]][m] = NoStamp
  BY <1>1 DEF Group, HasKind, Void
<1>10. \E r \in rows[s] : x.stamp[r.slot][m] = NoStamp
  <2>1. [slot |-> from[s], token |-> source] \in rows[s]
    BY <1>5
  <2>2. x.stamp[from[s]][m] = NoStamp
    BY <1>2, <1>9
  <2> QED
    BY <2>1, <2>2
<1>11. ~Bears(e, s, m, token, orders)
  BY <1>2, <1>4, <1>10, RowsRefused
<1> HIDE DEF e
<1>12. ~AllBear(e, DOMAIN from, token, orders)
  BY <1>11 DEF AllBear
<1>13. Same(d, e, TowerSlots \ cleared)
  BY <1>1, <1>2, <1>6 DEF Same
<1> QED
  BY <1>3, <1>6, <1>12, <1>13

ProjectedMaster == {"projected primary"} \X MasterFields
FromProjectedMaster == [f \in MasterFields |-> <<"projected primary", f>>]
MasterViews == {"current primary", "coefficients", "projected primary"}

LEMMA AcceptMasterReady ==
  ASSUME NEW r, NEW l, NEW g,
         AllBear(r, ProjectedMaster, ProjectionToken(g, l), OrdersAt(l)),
         Finite(r, ProjectedMaster)
  PROVE  AcceptMaster(r, l, g) =
           PublishMaster(r, FromProjectedMaster, l, g, ProjectedPsiOrders(l), TRUE)
  BY DEF AcceptMaster, PublishMaster, ProjectedMaster, FromProjectedMaster

LEMMA AcceptMasterRefused ==
  ASSUME NEW r, NEW l, NEW g,
         ~AllBear(r, ProjectedMaster, ProjectionToken(g, l), OrdersAt(l))
  PROVE  AcceptMaster(r, l, g) =
           PublishMaster(r, FromProjectedMaster, l, g, ProjectedPsiOrders(l), FALSE)
  BY DEF AcceptMaster, PublishMaster, ProjectedMaster, FromProjectedMaster

LEMMA ProjectedOrders ==
  \A l \in Levels : ProjectedPsiOrders(l) \in Nat /\ ProjectedPsiOrders(l) >= 1
                    /\ (l < TopLevel => ProjectedPsiOrders(l) >= NextOrders(l))
  BY DEF ProjectedPsiOrders, Levels, TopLevel, OrdersAt, NextOrders

LEMMA ProjectMasterIs ==
  ASSUME NEW d, NEW l, NEW g
  PROVE  ProjectMaster(d, l, g) =
           AcceptMaster(Projection(d, ProjectedMaster,
                                   [s \in ProjectedMaster |-> <<"current primary", s[2]>>],
                                   OrdersAt(l), GenerationToken(g), ProjectionToken(g, l)), l, g)
<1> DEFINE from == [s \in ProjectedMaster |-> <<"current primary", s[2]>>]
<1>1. DOMAIN from = ProjectedMaster
  OBVIOUS
<1>2. [s \in ProjectedMaster |-> {Source(from[s], GenerationToken(g))}] =
      [s \in DOMAIN from |-> {Source(from[s], GenerationToken(g))}]
  BY <1>1
<1>3. ProjectMaster(d, l, g) =
        AcceptMaster(RowsStamped(Projected(Cleared(d, ProjectedMaster), from),
                     [s \in ProjectedMaster |-> {Source(from[s], GenerationToken(g))}],
                     OrdersAt(l), ProjectionToken(g, l)), l, g)
  BY Zenon DEF ProjectMaster, ProjectedMaster
<1> HIDE DEF from
<1> QED
  BY <1>2, <1>3 DEF Projection, from

LEMMA MasterSources ==
  SourcesOf([s \in ProjectedMaster |-> <<"current primary", s[2]>>], ProjectedMaster, CurrentMaster)
<1>1. ProjectedMaster \subseteq TowerSlots /\ CurrentMaster \subseteq TowerSlots
  BY MasterSlots DEF ProjectedMaster
<1> QED
  BY <1>1 DEF SourcesOf, ProjectedMaster, CurrentMaster

LEMMA ProjectMasterWhole ==
  ASSUME NEW d, Sound(d), NEW l \in Levels, NEW g, NEW kind \in Kinds \ {"void"}, NEW id \in Int,
         NEW o, MasterStands(d, kind, id, l, g, o)
  PROVE  /\ Sound(ProjectMaster(d, l, g))
         /\ MasterStands(ProjectMaster(d, l, g), "inband", id, l, g, ProjectedPsiOrders(l))
         /\ Frame(d, ProjectMaster(d, l, g), MasterViews, {"primary"}, l)
<1> DEFINE from == [s \in ProjectedMaster |-> <<"current primary", s[2]>>]
           n == OrdersAt(l)
           T == ProjectionToken(g, l)
           r == Projection(d, ProjectedMaster, from, n, GenerationToken(g), T)
           e == PublishMaster(r, FromProjectedMaster, l, g, ProjectedPsiOrders(l), TRUE)
<1>1. n \in Nat /\ n >= 1 /\ n >= n /\ l \in Int
  BY OrdersOf
<1>2. Group(d, CurrentMaster, kind, id, l, GenerationToken(g), n)
  BY DEF MasterStands
<1>3. SourcesOf(from, ProjectedMaster, CurrentMaster) /\ DOMAIN from = ProjectedMaster
  BY MasterSources
<1>4. ProjectMaster(d, l, g) = AcceptMaster(r, l, g)
  BY ProjectMasterIs
<1> HIDE DEF from, n, T
<1>5. /\ Sound(r) /\ Same(d, r, TowerSlots \ ProjectedMaster)
      /\ Group(r, ProjectedMaster, "inband", id, l, T, n)
  BY <1>1, <1>2, <1>3, ProjectionWhole
<1> HIDE DEF r
<1>6. "inband" \in Kinds \ {"void"}
  BY DEF Kinds
<1>7. AllBear(r, ProjectedMaster, T, n) /\ Finite(r, ProjectedMaster)
  BY <1>1, <1>5, <1>6, GroupReady
<1>8. AcceptMaster(r, l, g) = e
  BY <1>7, AcceptMasterReady DEF T, n
<1>9. FieldsHold(r, FromProjectedMaster, MasterFields, "inband", id, l)
  <2>1. \A f \in MasterFields : FromProjectedMaster[f] \in ProjectedMaster
    BY DEF ProjectedMaster, FromProjectedMaster
  <2>2. \A s \in ProjectedMaster : Holds(r.mem, s, id, l, Extra("inband"))
    BY <1>5, <1>6, HoldsOf
  <2>3. ProjectedMaster \subseteq TowerSlots
    BY MasterSlots DEF ProjectedMaster
  <2> QED
    BY <2>1, <2>2, <2>3 DEF FieldsHold, FromProjectedMaster
<1>10. /\ Sound(e) /\ MasterStands(e, "inband", id, l, g, ProjectedPsiOrders(l))
       /\ Frame(r, e, {"current primary", "coefficients"}, {"primary"}, l)
  BY <1>5, <1>6, <1>9, PublishMasterReady, ProjectedOrders
<1> HIDE DEF e
<1>11. Frame(d, r, MasterViews, {"primary"}, l)
  <2>1. Touched(ProjectedMaster, MasterViews, {"primary"}, l)
    BY DEF Touched, Apart, ProjectedMaster, MasterViews
  <2> QED
    BY <2>1, <1>5, FrameOf
<1>12. Frame(r, e, MasterViews, {"primary"}, l)
  BY <1>10 DEF Frame, Apart, MasterViews
<1>13. Frame(d, e, MasterViews, {"primary"}, l)
  BY <1>11, <1>12, FrameThen
<1> QED
  BY <1>4, <1>8, <1>10, <1>13

LEMMA ProjectMasterVoid ==
  ASSUME NEW d, Sound(d), NEW l \in Levels, NEW g, NEW id \in Int,
         NEW o, MasterStands(d, "void", id, l, g, o)
  PROVE  /\ Sound(ProjectMaster(d, l, g))
         /\ MasterStands(ProjectMaster(d, l, g), "void", id, l, g, ProjectedPsiOrders(l))
         /\ Frame(d, ProjectMaster(d, l, g), MasterViews, {"primary"}, l)
<1> DEFINE from == [s \in ProjectedMaster |-> <<"current primary", s[2]>>]
           n == OrdersAt(l)
           T == ProjectionToken(g, l)
           r == Projection(d, ProjectedMaster, from, n, GenerationToken(g), T)
           e == PublishMaster(r, FromProjectedMaster, l, g, ProjectedPsiOrders(l), FALSE)
<1>1. n \in Nat /\ n >= 1 /\ l \in Int
  BY OrdersOf
<1>2. Group(d, CurrentMaster, "void", id, l, GenerationToken(g), n)
  BY DEF MasterStands
<1>3. SourcesOf(from, ProjectedMaster, CurrentMaster) /\ DOMAIN from = ProjectedMaster
  BY MasterSources
<1>4. ProjectMaster(d, l, g) = AcceptMaster(r, l, g)
  BY ProjectMasterIs
<1>20. ProjectedMaster # {}
  <2>1. <<"projected primary", "P">> \in ProjectedMaster
    BY DEF ProjectedMaster, MasterFields
  <2> QED
    BY <2>1
<1> HIDE DEF from, n, T
<1>5. /\ Sound(r) /\ Same(d, r, TowerSlots \ ProjectedMaster)
      /\ ~AllBear(r, ProjectedMaster, T, n)
  BY <1>1, <1>2, <1>3, <1>20, ProjectionRefused
<1> HIDE DEF r
<1>8. AcceptMaster(r, l, g) = e
  BY <1>5, AcceptMasterRefused DEF T, n
<1>10. /\ Sound(e) /\ MasterStands(e, "void", id, l, g, ProjectedPsiOrders(l))
       /\ Frame(r, e, {"current primary", "coefficients"}, {"primary"}, l)
  BY <1>5, PublishMasterRefused
<1> HIDE DEF e
<1>11. Frame(d, r, MasterViews, {"primary"}, l)
  <2>1. Touched(ProjectedMaster, MasterViews, {"primary"}, l)
    BY DEF Touched, Apart, ProjectedMaster, MasterViews
  <2> QED
    BY <2>1, <1>5, FrameOf
<1>12. Frame(r, e, MasterViews, {"primary"}, l)
  BY <1>10 DEF Frame, Apart, MasterViews
<1>13. Frame(d, e, MasterViews, {"primary"}, l)
  BY <1>11, <1>12, FrameThen
<1> QED
  BY <1>4, <1>8, <1>10, <1>13

-----------------------------------------------------------------------------
(* The projections of the metric *)

RowsFrom(view, fields) == [s \in ViewOf("projected", fields) |-> <<view, s[2]>>]

LEMMA ProjectRowsIs ==
  ASSUME NEW d, NEW view, NEW fields, NEW orders, NEW source, NEW token
  PROVE  ProjectRows(d, view, fields, orders, source, token) =
           Projection(d, ViewOf("projected", MetricFields), RowsFrom(view, fields),
                      orders, source, token)
  BY DEF ProjectRows, Projection, ViewOf, RowsFrom

LEMMA RowSources ==
  ASSUME NEW view \in {"current", "next"}, NEW fields \in SUBSET MetricFields
  PROVE  /\ SourcesOf(RowsFrom(view, fields), ViewOf("projected", MetricFields), ViewOf(view, fields))
         /\ DOMAIN RowsFrom(view, fields) = ViewOf("projected", fields)
<1>1. /\ ViewOf("projected", MetricFields) \subseteq TowerSlots
      /\ ViewOf("projected", fields) \subseteq ViewOf("projected", MetricFields)
      /\ ViewOf(view, fields) \subseteq TowerSlots
  BY MetricSlots DEF ViewOf
<1>2. ViewOf("projected", MetricFields) \cap ViewOf(view, fields) = {}
  BY DEF ViewOf
<1>3. \A s \in ViewOf("projected", fields) : <<view, s[2]>> \in ViewOf(view, fields)
  BY DEF ViewOf
<1> QED
  BY <1>1, <1>2, <1>3 DEF SourcesOf, RowsFrom

LEMMA ProjectRowsWhole ==
  ASSUME NEW d, Sound(d), NEW view \in {"current", "next"}, NEW fields \in SUBSET MetricFields,
         NEW orders \in Nat, orders >= 1, NEW source, NEW token,
         NEW kind \in Kinds \ {"void"}, NEW id \in Int, NEW rate \in Int,
         NEW has \in Nat, has >= orders,
         Group(d, ViewOf(view, fields), kind, id, rate, source, has)
  PROVE  LET r == ProjectRows(d, view, fields, orders, source, token)
         IN  /\ Sound(r) /\ \A l : Frame(d, r, {"projected"}, {}, l)
             /\ FieldsHold(r, FromProjected(fields), fields, "inband", id, rate)
             /\ RowsReady(r, fields, token, orders)
<1> DEFINE r == ProjectRows(d, view, fields, orders, source, token)
           all == ViewOf("projected", MetricFields)
           rows == ViewOf("projected", fields)
<1>1. /\ SourcesOf(RowsFrom(view, fields), all, ViewOf(view, fields))
      /\ DOMAIN RowsFrom(view, fields) = rows
  BY RowSources
<1>2. r = Projection(d, all, RowsFrom(view, fields), orders, source, token)
  BY ProjectRowsIs
<1> HIDE DEF r
<1>3. /\ Sound(r) /\ Same(d, r, TowerSlots \ all) /\ Group(r, rows, "inband", id, rate, token, orders)
  <2> DEFINE from == RowsFrom(view, fields)
             sources == ViewOf(view, fields)
             e == Projection(d, all, from, orders, source, token)
  <2>1. SourcesOf(from, all, sources) /\ Group(d, sources, kind, id, rate, source, has)
    BY <1>1
  <2> HIDE DEF from, sources, all, rows
  <2>2. /\ Sound(e) /\ Same(d, e, TowerSlots \ all)
        /\ Group(e, DOMAIN from, "inband", id, rate, token, orders)
    BY <2>1, ProjectionWhole
  <2>3. DOMAIN from = rows /\ r = e
    BY <1>1, <1>2 DEF from
  <2> HIDE DEF e
  <2> QED
    BY <2>2, <2>3
<1>4. "inband" \in Kinds \ {"void"} /\ orders >= orders
  BY DEF Kinds
<1>5. AllBear(r, rows, token, orders) /\ Finite(r, rows)
  BY <1>3, <1>4, GroupReady
<1>6. RowsReady(r, fields, token, orders)
  BY <1>5 DEF RowsReady, ViewOf
<1>7. FieldsHold(r, FromProjected(fields), fields, "inband", id, rate)
  <2>1. \A f \in fields : FromProjected(fields)[f] \in rows
    BY DEF FromProjected, ViewOf
  <2>2. \A s \in rows : Holds(r.mem, s, id, rate, Extra("inband"))
    BY <1>3, <1>4, HoldsOf
  <2>3. rows \subseteq TowerSlots
    BY <1>1 DEF SourcesOf
  <2> QED
    BY <2>1, <2>2, <2>3 DEF FieldsHold, FromProjected
<1>8. \A l : Frame(d, r, {"projected"}, {}, l)
  <2> TAKE l
  <2>1. Touched(all, {"projected"}, {}, l)
    BY DEF Touched, Apart, ViewOf
  <2> QED
    BY <2>1, <1>3, FrameOf
<1> QED
  BY <1>3, <1>6, <1>7, <1>8 DEF r

LEMMA ProjectRowsVoid ==
  ASSUME NEW d, Sound(d), NEW view \in {"current", "next"}, NEW fields \in SUBSET MetricFields,
         fields # {}, NEW orders \in Nat, orders >= 1, NEW source, NEW token,
         NEW id, NEW rate, NEW t, NEW o, Group(d, ViewOf(view, fields), "void", id, rate, t, o)
  PROVE  LET r == ProjectRows(d, view, fields, orders, source, token)
         IN  /\ Sound(r) /\ \A l : Frame(d, r, {"projected"}, {}, l)
             /\ ~RowsReady(r, fields, token, orders)
<1> DEFINE r == ProjectRows(d, view, fields, orders, source, token)
           all == ViewOf("projected", MetricFields)
           rows == ViewOf("projected", fields)
<1>1. /\ SourcesOf(RowsFrom(view, fields), all, ViewOf(view, fields))
      /\ DOMAIN RowsFrom(view, fields) = rows
  BY RowSources
<1>2. r = Projection(d, all, RowsFrom(view, fields), orders, source, token)
  BY ProjectRowsIs
<1>9. rows # {}
  <2>1. PICK f \in fields : TRUE
    OBVIOUS
  <2>2. <<"projected", f>> \in rows
    BY DEF ViewOf
  <2> QED
    BY <2>2
<1> HIDE DEF r
<1>3. /\ Sound(r) /\ Same(d, r, TowerSlots \ all) /\ ~AllBear(r, rows, token, orders)
  BY <1>1, <1>2, <1>9, ProjectionRefused
<1>6. ~RowsReady(r, fields, token, orders)
  BY <1>3 DEF RowsReady, ViewOf
<1>8. \A l : Frame(d, r, {"projected"}, {}, l)
  <2> TAKE l
  <2>1. Touched(all, {"projected"}, {}, l)
    BY DEF Touched, Apart, ViewOf
  <2> QED
    BY <2>1, <1>3, FrameOf
<1> QED
  BY <1>3, <1>6, <1>8 DEF r

\* What a pass may touch: some views, and its fields of the level under construction.
Aside(s, views, fields, k) ==
  /\ s[1] \notin views /\ ~(s[1] = "next" /\ s[2] \in fields)
  /\ ~(s[1] = "h" /\ s[2][2] = k /\ s[2][1] \in fields)
Between(d, e, views, fields, k) ==
  \A s \in TowerSlots : Aside(s, views, fields, k) => e.mem[s] = d.mem[s] /\ e.stamp[s] = d.stamp[s]

LEMMA BetweenOf ==
  ASSUME NEW d, NEW e, NEW slots, Same(d, e, TowerSlots \ slots),
         NEW views, NEW fields, NEW k, \A s \in slots : ~Aside(s, views, fields, k)
  PROVE  Between(d, e, views, fields, k)
  BY DEF Between, Same

LEMMA BetweenThen ==
  ASSUME NEW d, NEW e, NEW f, NEW views, NEW fields, NEW k,
         Between(d, e, views, fields, k), Between(e, f, views, fields, k)
  PROVE  Between(d, f, views, fields, k)
  BY DEF Between

LEMMA BetweenFrame ==
  ASSUME NEW d, NEW e, NEW views, NEW fields, NEW k, Between(d, e, views, fields, k)
  PROVE  Frame(d, e, views \cup {"next"}, {"h"}, k)
  BY DEF Between, Aside, Frame, Apart

LEMMA NextKept ==
  ASSUME NEW d, NEW e, NEW views, NEW fields, NEW l \in 0 .. 3, Between(d, e, views, fields, l + 1),
         "next" \notin views, "h" \notin views, NEW others \in SUBSET MetricFields,
         others \cap fields = {}, NEW token, NEW kind, NEW id, NextStands(d, others, token, kind, id, l)
  PROVE  NextStands(e, others, token, kind, id, l)
<1> DEFINE A == FieldJets(others, l + 1) \cup ViewOf("next", others)
<1>0. PICK k \in Levels : k = l + 1
  BY NextOf
<1>1. /\ FieldJets(others, l + 1) \in SUBSET TowerSlots
      /\ ViewOf("next", others) \in SUBSET TowerSlots
      /\ \A s \in FieldJets(others, l + 1) : s[1] = "h" /\ s[2][1] \in others
  <2>1. /\ FieldJets(others, k) \in SUBSET TowerSlots
        /\ ViewOf("next", others) \in SUBSET TowerSlots
        /\ \A s \in FieldJets(others, k) : s[1] = "h" /\ s[2][1] \in others
    BY FieldSlots
  <2> QED
    BY <2>1, <1>0
<1>2. \A s \in ViewOf("next", others) : s[1] = "next" /\ s[2] \in others
  BY DEF ViewOf
<1>3. \A s \in A : Aside(s, views, fields, l + 1)
  BY <1>1, <1>2 DEF Aside
<1>4. \A s \in A : e.mem[s] = d.mem[s] /\ e.stamp[s] = d.stamp[s]
  BY <1>1, <1>3 DEF Between
<1>5. ASSUME NEW s \in A, NEW rate, NEW t, NEW o, HasKind(d, s, kind, id, rate, t, o)
      PROVE  HasKind(e, s, kind, id, rate, t, o)
  BY <1>4, <1>5, KindSame
<1> QED
  BY <1>5 DEF NextStands, Group

LEMMA ProjectNextReady ==
  ASSUME NEW d, NEW pass, NEW l, NEW g, NEW rows,
         rows = ProjectRows(d, "next", PassFields[pass], NextOrders(l), PassToken(g, l, pass),
                            PassToken(g, l, pass)),
         RowsReady(rows, PassFields[pass], PassToken(g, l, pass), NextOrders(l))
  PROVE  ProjectNext(d, pass, l, g) =
           PublishNext(rows, FromProjected(PassFields[pass]), l, PassToken(g, l, pass), TRUE)
  BY Zenon DEF ProjectNext, PublishNext

LEMMA ProjectNextRefused ==
  ASSUME NEW d, NEW pass, NEW l, NEW g, NEW rows,
         rows = ProjectRows(d, "next", PassFields[pass], NextOrders(l), PassToken(g, l, pass),
                            PassToken(g, l, pass)),
         ~RowsReady(rows, PassFields[pass], PassToken(g, l, pass), NextOrders(l))
  PROVE  ProjectNext(d, pass, l, g) =
           PublishNext(rows, FromProjected(PassFields[pass]), l, PassToken(g, l, pass), FALSE)
  BY Zenon DEF ProjectNext, PublishNext

LEMMA PassFieldsAre ==
  \A pass \in 1 .. 3 : PassFields[pass] \in SUBSET MetricFields /\ PassFields[pass] # {}
  BY DEF PassFields, MetricFields

LEMMA ProjectNextWhole ==
  ASSUME NEW d, Sound(d), NEW pass \in 1 .. 3, NEW l \in 0 .. 3, NEW g, NEW id \in Int,
         NEW kind \in Kinds \ {"void"},
         NextStands(d, PassFields[pass], PassToken(g, l, pass), kind, id, l)
  PROVE  /\ Sound(ProjectNext(d, pass, l, g))
         /\ NextStands(ProjectNext(d, pass, l, g), PassFields[pass], PassToken(g, l, pass), "inband", id, l)
         /\ Between(d, ProjectNext(d, pass, l, g), {"projected"}, PassFields[pass], l + 1)
<1> DEFINE F == PassFields[pass]
           T == PassToken(g, l, pass)
           n == NextOrders(l)
           r == ProjectRows(d, "next", F, n, T, T)
           e == PublishNext(r, FromProjected(F), l, T, TRUE)
<1>1. n \in Nat /\ n >= 1 /\ n >= n /\ l + 1 \in Int /\ l + 1 \in Levels
  BY NextOf
<1>2. F \in SUBSET MetricFields
  BY PassFieldsAre
<1>3. Group(d, ViewOf("next", F), kind, id, l + 1, T, n)
  BY DEF NextStands
<1>20. RowsReady(r, F, T, n) => ProjectNext(d, pass, l, g) = e
  BY ProjectNextReady
<1> HIDE DEF F, T, n
<1>4. /\ Sound(r) /\ \A k : Frame(d, r, {"projected"}, {}, k)
      /\ FieldsHold(r, FromProjected(F), F, "inband", id, l + 1)
      /\ RowsReady(r, F, T, n)
  BY <1>1, <1>2, <1>3, ProjectRowsWhole
<1> HIDE DEF r
<1>5. "inband" \in Kinds \ {"void"}
  BY DEF Kinds
<1>6. /\ Sound(e) /\ NextStands(e, F, T, "inband", id, l)
      /\ Same(r, e, TowerSlots \ (FieldJets(F, l + 1) \cup ViewOf("next", F)))
  BY <1>2, <1>4, <1>5, PublishNextReady
<1> HIDE DEF e
<1>7. Between(d, r, {"projected"}, F, l + 1)
  <2>1. Frame(d, r, {"projected"}, {}, l + 1)
    BY <1>4
  <2> QED
    BY <2>1 DEF Between, Aside, Frame, Apart
<1>8. Between(r, e, {"projected"}, F, l + 1)
  <2>1. \A s \in FieldJets(F, l + 1) : s[1] = "h" /\ s[2][2] = l + 1 /\ s[2][1] \in F
    BY DEF FieldJets, MetricJet
  <2>2. \A s \in ViewOf("next", F) : s[1] = "next" /\ s[2] \in F
    BY DEF ViewOf
  <2>3. \A s \in FieldJets(F, l + 1) \cup ViewOf("next", F) : ~Aside(s, {"projected"}, F, l + 1)
    BY <2>1, <2>2 DEF Aside
  <2> QED
    BY <2>3, <1>6, BetweenOf
<1>9. Between(d, e, {"projected"}, F, l + 1)
  BY <1>7, <1>8, BetweenThen
<1> QED
  BY <1>4, <1>20, <1>6, <1>9 DEF F, T

LEMMA ProjectNextVoid ==
  ASSUME NEW d, Sound(d), NEW pass \in 1 .. 3, NEW l \in 0 .. 3, NEW g, NEW id,
         NextStands(d, PassFields[pass], PassToken(g, l, pass), "void", id, l)
  PROVE  /\ Sound(ProjectNext(d, pass, l, g))
         /\ \A fields \in SUBSET MetricFields : \A t, i :
              NextStands(ProjectNext(d, pass, l, g), fields, t, "void", i, l)
         /\ Frame(d, ProjectNext(d, pass, l, g), {"projected", "next"}, {"h"}, l + 1)
<1> DEFINE F == PassFields[pass]
           T == PassToken(g, l, pass)
           n == NextOrders(l)
           r == ProjectRows(d, "next", F, n, T, T)
           e == PublishNext(r, FromProjected(F), l, T, FALSE)
<1>1. n \in Nat /\ n >= 1
  BY NextOf
<1>2. F \in SUBSET MetricFields /\ F # {}
  BY PassFieldsAre
<1>3. Group(d, ViewOf("next", F), "void", id, l + 1, T, n)
  BY DEF NextStands
<1>20. ~RowsReady(r, F, T, n) => ProjectNext(d, pass, l, g) = e
  BY ProjectNextRefused
<1> HIDE DEF F, T, n
<1>4. /\ Sound(r) /\ \A k : Frame(d, r, {"projected"}, {}, k)
      /\ ~RowsReady(r, F, T, n)
  BY <1>1, <1>2, <1>3, ProjectRowsVoid
<1> HIDE DEF r
<1>6. /\ Sound(e) /\ Frame(r, e, {"next"}, {"h"}, l + 1)
      /\ \A fields \in SUBSET MetricFields : \A t, i : NextStands(e, fields, t, "void", i, l)
  BY <1>4, PublishNextRefused
<1> HIDE DEF e
<1>7. Frame(d, e, {"projected", "next"}, {"h"}, l + 1)
  <2>1. Frame(d, r, {"projected"}, {}, l + 1)
    BY <1>4
  <2>2. Frame(d, r, {"projected", "next"}, {"h"}, l + 1)
    BY <2>1 DEF Frame, Apart
  <2>3. Frame(r, e, {"projected", "next"}, {"h"}, l + 1)
    BY <1>6 DEF Frame, Apart
  <2> QED
    BY <2>2, <2>3, FrameThen
<1> QED
  BY <1>4, <1>20, <1>6, <1>7

LEMMA ProjectLastReady ==
  ASSUME NEW d, NEW l, NEW g, NEW rows,
         rows = ProjectRows(d, "current", {"U"}, NextOrders(l), GenerationToken(g), PassToken(g, l, 3)),
         RowsReady(rows, {"U"}, PassToken(g, l, 3), NextOrders(l))
  PROVE  ProjectLast(d, l, g) =
           PublishMetric(rows, [OwnMetric(l + 1) EXCEPT !["U"] = <<"projected", "U">>], l + 1, g, TRUE)
  BY Zenon DEF ProjectLast, PublishMetric

LEMMA ProjectLastRefused ==
  ASSUME NEW d, NEW l, NEW g, NEW rows,
         rows = ProjectRows(d, "current", {"U"}, NextOrders(l), GenerationToken(g), PassToken(g, l, 3)),
         ~RowsReady(rows, {"U"}, PassToken(g, l, 3), NextOrders(l))
  PROVE  ProjectLast(d, l, g) =
           PublishMetric(rows, [OwnMetric(l + 1) EXCEPT !["U"] = <<"projected", "U">>], l + 1, g, FALSE)
  BY Zenon DEF ProjectLast, PublishMetric

LEMMA ProjectLastWhole ==
  ASSUME NEW d, Sound(d), NEW l \in 0 .. 3, NEW g, NEW id \in Int,
         MetricStands(d, "marked", id, l + 1, g),
         \A f \in MetricFields \ {"U"} : Holds(d.mem, MetricJet(f, l + 1), id, l + 1, {})
  PROVE  /\ Sound(ProjectLast(d, l, g))
         /\ MetricStands(ProjectLast(d, l, g), "inband", id, l + 1, g)
         /\ Frame(d, ProjectLast(d, l, g), {"projected", "current"}, {"h"}, l + 1)
<1> DEFINE T == PassToken(g, l, 3)
           n == NextOrders(l)
           r == ProjectRows(d, "current", {"U"}, n, GenerationToken(g), T)
           from == [OwnMetric(l + 1) EXCEPT !["U"] = <<"projected", "U">>]
           e == PublishMetric(r, from, l + 1, g, TRUE)
<1>1. n \in Nat /\ n >= 1 /\ n >= n /\ l + 1 \in Int /\ l + 1 \in Levels /\ OrdersAt(l + 1) = n
  BY NextOf
<1>2. {"U"} \in SUBSET MetricFields
  BY DEF MetricFields
<1>3. Group(d, ViewOf("current", {"U"}), "marked", id, l + 1, GenerationToken(g), n)
  BY <1>1, <1>2 DEF MetricStands, Group, ViewOf
<1>20. RowsReady(r, {"U"}, T, n) => ProjectLast(d, l, g) = e
  BY ProjectLastReady
<1>5. "inband" \in Kinds \ {"void"} /\ "marked" \in Kinds \ {"void"} /\ Extra("inband") = {}
  BY DEF Kinds, Extra
<1> HIDE DEF T, n
<1>4. /\ Sound(r) /\ \A k : Frame(d, r, {"projected"}, {}, k)
      /\ FieldsHold(r, FromProjected({"U"}), {"U"}, "inband", id, l + 1)
      /\ RowsReady(r, {"U"}, T, n)
  BY <1>1, <1>2, <1>3, <1>5, ProjectRowsWhole
<1> HIDE DEF r
<1>6. FieldsHold(r, from, MetricFields, "inband", id, l + 1)
  <2>1. /\ DOMAIN from = MetricFields /\ from["U"] = <<"projected", "U">>
        /\ \A f \in MetricFields \ {"U"} : from[f] = MetricJet(f, l + 1)
    BY DEF OwnMetric, MetricFields
  <2> HIDE DEF from
  <2>2. <<"projected", "U">> \in TowerSlots /\ Holds(r.mem, <<"projected", "U">>, id, l + 1, {})
    <3>1. FromProjected({"U"})["U"] = <<"projected", "U">>
      BY DEF FromProjected
    <3> QED
      BY <1>4, <1>5, <3>1 DEF FieldsHold
  <2>3. ASSUME NEW f \in MetricFields \ {"U"}
        PROVE  MetricJet(f, l + 1) \in TowerSlots /\ Holds(r.mem, MetricJet(f, l + 1), id, l + 1, {})
    <3>1. MetricJet(f, l + 1) \in TowerSlots
      BY <1>1, MetricSlots
    <3>2. Frame(d, r, {"projected"}, {}, l + 1)
      BY <1>4
    <3>3. Apart(MetricJet(f, l + 1), {"projected"}, {}, l + 1)
      BY DEF MetricJet, Apart
    <3>4. r.mem[MetricJet(f, l + 1)] = d.mem[MetricJet(f, l + 1)]
      BY <3>1, <3>2, <3>3 DEF Frame
    <3>5. Holds(d.mem, MetricJet(f, l + 1), id, l + 1, {})
      OBVIOUS
    <3> QED
      BY <3>1, <3>4, <3>5, HoldsSame
  <2> QED
    BY <1>5, <2>1, <2>2, <2>3 DEF FieldsHold
<1> HIDE DEF from
<1>7. /\ Sound(e) /\ MetricStands(e, "inband", id, l + 1, g) /\ Frame(r, e, {"current"}, {"h"}, l + 1)
  BY <1>1, <1>4, <1>5, <1>6, PublishMetricReady
<1> HIDE DEF e
<1>8. Frame(d, e, {"projected", "current"}, {"h"}, l + 1)
  <2>1. Frame(d, r, {"projected"}, {}, l + 1)
    BY <1>4
  <2>2. Frame(d, r, {"projected", "current"}, {"h"}, l + 1)
    BY <2>1 DEF Frame, Apart
  <2>3. Frame(r, e, {"projected", "current"}, {"h"}, l + 1)
    BY <1>7 DEF Frame, Apart
  <2> QED
    BY <2>2, <2>3, FrameThen
<1> QED
  BY <1>4, <1>7, <1>8, <1>20

LEMMA ProjectLastVoid ==
  ASSUME NEW d, Sound(d), NEW l \in 0 .. 3, NEW g, NEW id \in Int,
         MetricStands(d, "void", id, l + 1, g)
  PROVE  /\ Sound(ProjectLast(d, l, g))
         /\ MetricStands(ProjectLast(d, l, g), "void", id, l + 1, g)
         /\ Frame(d, ProjectLast(d, l, g), {"projected", "current"}, {"h"}, l + 1)
<1> DEFINE T == PassToken(g, l, 3)
           n == NextOrders(l)
           r == ProjectRows(d, "current", {"U"}, n, GenerationToken(g), T)
           from == [OwnMetric(l + 1) EXCEPT !["U"] = <<"projected", "U">>]
           e == PublishMetric(r, from, l + 1, g, FALSE)
<1>1. n \in Nat /\ n >= 1 /\ l + 1 \in Levels /\ OrdersAt(l + 1) = n
  BY NextOf
<1>2. {"U"} \in SUBSET MetricFields /\ {"U"} # {}
  BY DEF MetricFields
<1>3. Group(d, ViewOf("current", {"U"}), "void", id, l + 1, GenerationToken(g), n)
  BY <1>1, <1>2 DEF MetricStands, Group, ViewOf
<1>20. ~RowsReady(r, {"U"}, T, n) => ProjectLast(d, l, g) = e
  BY ProjectLastRefused
<1> HIDE DEF T, n
<1>4. /\ Sound(r) /\ \A k : Frame(d, r, {"projected"}, {}, k)
      /\ ~RowsReady(r, {"U"}, T, n)
  BY <1>1, <1>2, <1>3, ProjectRowsVoid
<1> HIDE DEF r, from
<1>7. /\ Sound(e) /\ MetricStands(e, "void", id, l + 1, g) /\ Frame(r, e, {"current"}, {"h"}, l + 1)
  BY <1>1, <1>4, PublishMetricRefused
<1> HIDE DEF e
<1>8. Frame(d, e, {"projected", "current"}, {"h"}, l + 1)
  <2>1. Frame(d, r, {"projected"}, {}, l + 1)
    BY <1>4
  <2>2. Frame(d, r, {"projected", "current"}, {"h"}, l + 1)
    BY <2>1 DEF Frame, Apart
  <2>3. Frame(r, e, {"projected", "current"}, {"h"}, l + 1)
    BY <1>7 DEF Frame, Apart
  <2> QED
    BY <2>2, <2>3, FrameThen
<1> QED
  BY <1>4, <1>7, <1>8, <1>20

-----------------------------------------------------------------------------
(* Level zero *)

LEMMA ProjectInitialReady ==
  ASSUME NEW d, NEW g, NEW rows,
         rows = ProjectRows(d, "current", MetricFields, OrdersAt(0), GenerationToken(g), InitialToken(g)),
         RowsReady(rows, MetricFields, InitialToken(g), OrdersAt(0))
  PROVE  ProjectInitial(d, g) = PublishMetric(rows, FromProjected(MetricFields), 0, g, TRUE)
  BY Zenon DEF ProjectInitial, PublishMetric

LEMMA ProjectInitialRefused ==
  ASSUME NEW d, NEW g, NEW rows,
         rows = ProjectRows(d, "current", MetricFields, OrdersAt(0), GenerationToken(g), InitialToken(g)),
         ~RowsReady(rows, MetricFields, InitialToken(g), OrdersAt(0))
  PROVE  ProjectInitial(d, g) = PublishMetric(rows, FromProjected(MetricFields), 0, g, FALSE)
  BY Zenon DEF ProjectInitial, PublishMetric

LEMMA InitialDone ==
  ASSUME NEW d, Sound(d), NEW g, NEW id \in Int, NEW kind \in Kinds, MetricStands(d, kind, id, 0, g)
  PROVE  /\ Sound(ProjectInitial(d, g))
         /\ MetricStands(ProjectInitial(d, g), IF kind = "void" THEN "void" ELSE "inband", id, 0, g)
         /\ Frame(d, ProjectInitial(d, g), {"projected", "current"}, {"h"}, 0)
<1> DEFINE T == InitialToken(g)
           n == OrdersAt(0)
           r == ProjectRows(d, "current", MetricFields, n, GenerationToken(g), T)
           from == FromProjected(MetricFields)
           e == PublishMetric(r, from, 0, g, TRUE)
           f == PublishMetric(r, from, 0, g, FALSE)
<1>1. 0 \in Levels /\ n \in Nat /\ n >= 1 /\ n >= n /\ 0 \in Int
  BY OrdersOf DEF Levels, TopLevel
<1>2. MetricFields \in SUBSET MetricFields /\ MetricFields # {}
  BY DEF MetricFields
<1>3. Group(d, ViewOf("current", MetricFields), kind, id, 0, GenerationToken(g), n)
  BY DEF MetricStands
<1>4. /\ RowsReady(r, MetricFields, T, n) => ProjectInitial(d, g) = e
      /\ ~RowsReady(r, MetricFields, T, n) => ProjectInitial(d, g) = f
  BY ProjectInitialReady, ProjectInitialRefused
<1>5. "inband" \in Kinds \ {"void"}
  BY DEF Kinds
<1> HIDE DEF T, n
<1>6. ASSUME NEW x, Sound(r), Frame(d, r, {"projected"}, {}, 0), Frame(r, x, {"current"}, {"h"}, 0)
      PROVE  Frame(d, x, {"projected", "current"}, {"h"}, 0)
  <2>1. Frame(d, r, {"projected", "current"}, {"h"}, 0)
    BY <1>6 DEF Frame, Apart
  <2>2. Frame(r, x, {"projected", "current"}, {"h"}, 0)
    BY <1>6 DEF Frame, Apart
  <2> QED
    BY <2>1, <2>2, FrameThen
<1>7. CASE kind # "void"
  <2>0. kind \in Kinds \ {"void"}
    BY <1>7
  <2>1. /\ Sound(r) /\ \A k : Frame(d, r, {"projected"}, {}, k)
        /\ FieldsHold(r, from, MetricFields, "inband", id, 0)
        /\ RowsReady(r, MetricFields, T, n)
    BY <1>1, <1>2, <1>3, <2>0, ProjectRowsWhole
  <2> HIDE DEF r, from
  <2>2. /\ Sound(e) /\ MetricStands(e, "inband", id, 0, g) /\ Frame(r, e, {"current"}, {"h"}, 0)
    BY <1>1, <1>5, <2>1, PublishMetricReady
  <2> HIDE DEF e
  <2> QED
    BY <1>4, <1>6, <1>7, <2>1, <2>2
<1>8. CASE kind = "void"
  <2>0. Group(d, ViewOf("current", MetricFields), "void", id, 0, GenerationToken(g), n)
    BY <1>3, <1>8
  <2>1. /\ Sound(r) /\ \A k : Frame(d, r, {"projected"}, {}, k)
        /\ ~RowsReady(r, MetricFields, T, n)
    BY <1>1, <1>2, <2>0, ProjectRowsVoid
  <2> HIDE DEF r, from
  <2>2. /\ Sound(f) /\ MetricStands(f, "void", id, 0, g) /\ Frame(r, f, {"current"}, {"h"}, 0)
    BY <1>1, <2>1, PublishMetricRefused
  <2> HIDE DEF f
  <2> QED
    BY <1>4, <1>6, <1>8, <2>1, <2>2
<1> QED
  BY <1>7, <1>8

\* The inputs of a stage.
InputsTame(inputs, fields) ==
  \A f \in fields : DOMAIN inputs[f] = Modes /\ \A m \in Modes : inputs[f][m] \subseteq Tame
InputsHold(inputs, fields, id) ==
  \A f \in fields : Holds(inputs, f, id, 0, {})

LEMMA MarkedNonFinite ==
  ASSUME NEW d, Sound(d), NEW slots \in SUBSET TowerSlots, NEW s \in slots, NEW m \in Modes,
         NonFinite \in d.mem[s][m]
  PROVE  NonFinite \in MarkedAs(d, slots, OffBand).mem[s][m]
  BY DEF MarkedAs, Sound

LEMMA GivenKeeps ==
  ASSUME NEW d, Sound(d), NEW jets \in SUBSET TowerSlots, NEW fields, NEW inputs,
         \A s \in jets : s[2][1] \in fields, InputsTame(inputs, fields)
  PROVE  LET e == Given(d, jets, inputs)
         IN  /\ Sound(e) /\ Same(d, e, TowerSlots \ jets)
             /\ \A s \in jets, m \in Modes :
                  NonFinite \in inputs[s[2][1]][m] => NonFinite \in e.mem[s][m]
             /\ \A id \in Int : InputsHold(inputs, fields, id) =>
                  \A s \in jets : Holds(e.mem, s, id, 0, {OffBand})
<1> DEFINE y == [s \in TowerSlots |-> IF s \in jets THEN inputs[s[2][1]] ELSE d.mem[s]]
           x == [d EXCEPT !.mem = y]
           e == MarkedAs(x, jets, OffBand)
<1>1. Given(d, jets, inputs) = e
  BY DEF Given
<1>2. x = [mem |-> y, stamp |-> d.stamp]
  BY SetMem DEF Sound
<1>3. x.mem = y /\ x.stamp = d.stamp /\ x = [mem |-> x.mem, stamp |-> x.stamp]
  BY <1>2
<1>4. DOMAIN y = TowerSlots /\ \A s \in TowerSlots : s \notin jets => y[s] = d.mem[s]
  OBVIOUS
<1>5. \A s \in jets : y[s] = inputs[s[2][1]]
  OBVIOUS
<1> HIDE DEF x, y
<1>6. Sound(x)
  <2>1. \A s \in TowerSlots : DOMAIN y[s] = Modes /\ \A m \in Modes : y[s][m] \subseteq Tame
    BY <1>4, <1>5 DEF InputsTame, Sound
  <2> QED
    BY <1>3, <1>4, <2>1 DEF Sound
<1>7. /\ Sound(e) /\ Same(x, e, TowerSlots \ jets)
      /\ \A s \in jets : \A id, rate \in Int :
           Holds(x.mem, s, id, rate, {}) => Holds(e.mem, s, id, rate, {OffBand})
  BY <1>6, MarkedKeeps
<1>8. \A s \in jets, m \in Modes :
         NonFinite \in inputs[s[2][1]][m] => NonFinite \in e.mem[s][m]
  BY <1>3, <1>5, <1>6, MarkedNonFinite
<1> HIDE DEF e
<1>9. ASSUME NEW id \in Int, InputsHold(inputs, fields, id), NEW s \in jets
      PROVE  Holds(e.mem, s, id, 0, {OffBand})
  <2>1. Holds(inputs, s[2][1], id, 0, {})
    BY <1>9 DEF InputsHold
  <2>2. x.mem[s] = inputs[s[2][1]]
    BY <1>3, <1>5
  <2>3. Holds(x.mem, s, id, 0, {})
    BY <2>1, <2>2, HoldsSame
  <2>4. 0 \in Int
    OBVIOUS
  <2>5. \A i, rate \in Int : Holds(x.mem, s, i, rate, {}) => Holds(e.mem, s, i, rate, {OffBand})
    BY <1>7
  <2>6. Holds(x.mem, s, id, 0, {}) => Holds(e.mem, s, id, 0, {OffBand})
    BY <2>4, <2>5
  <2> QED
    BY <2>3, <2>6
<1>10. Same(d, e, TowerSlots \ jets)
  BY <1>3, <1>4, <1>7 DEF Same
<1> QED
  BY <1>1, <1>7, <1>8, <1>9, <1>10

\* Inputs all of which are welcome, and inputs of which one is not.
Good(inputs, stamps, fields, g) ==
  /\ \A f \in fields, m \in Modes : NonFinite \notin inputs[f][m] /\ stamps[f][m] = g
Bad(inputs, stamps, fields, g) ==
  \E f \in fields : \E m \in Modes : NonFinite \in inputs[f][m] \/ stamps[f][m] # g

LEMMA MasterZeroReady ==
  ASSUME NEW d, NEW inputs, NEW stamps, NEW g,
         Welcome(Given(d, MasterLevel(0), inputs), MasterLevel(0), stamps, g)
  PROVE  MasterZero(d, inputs, stamps, g) =
           PublishMaster(Given(d, MasterLevel(0), inputs), OwnMaster(0), 0, g, NextOrders(0), TRUE)
  BY Zenon DEF MasterZero, PublishMaster, MasterLevel

LEMMA MasterZeroRefused ==
  ASSUME NEW d, NEW inputs, NEW stamps, NEW g,
         ~Welcome(Given(d, MasterLevel(0), inputs), MasterLevel(0), stamps, g)
  PROVE  MasterZero(d, inputs, stamps, g) =
           PublishMaster(Given(d, MasterLevel(0), inputs), OwnMaster(0), 0, g, NextOrders(0), FALSE)
  BY Zenon DEF MasterZero, PublishMaster, MasterLevel

LEMMA MetricZeroReady ==
  ASSUME NEW d, NEW inputs, NEW stamps, NEW g,
         Welcome(Given(d, MetricLevel(0), inputs), MetricLevel(0), stamps, g)
  PROVE  MetricZero(d, inputs, stamps, g) =
           PublishMetric(Given(d, MetricLevel(0), inputs), OwnMetric(0), 0, g, TRUE)
  BY Zenon DEF MetricZero, PublishMetric, MetricLevel

LEMMA MetricZeroRefused ==
  ASSUME NEW d, NEW inputs, NEW stamps, NEW g,
         ~Welcome(Given(d, MetricLevel(0), inputs), MetricLevel(0), stamps, g)
  PROVE  MetricZero(d, inputs, stamps, g) =
           PublishMetric(Given(d, MetricLevel(0), inputs), OwnMetric(0), 0, g, FALSE)
  BY Zenon DEF MetricZero, PublishMetric, MetricLevel

LEMMA MasterZeroWhole ==
  ASSUME NEW d, Sound(d), NEW inputs, NEW stamps, NEW g, NEW id \in Int,
         InputsTame(inputs, MasterFields), InputsHold(inputs, MasterFields, id),
         \A f \in MasterFields, m \in Modes : stamps[f][m] = g
  PROVE  LET e == MasterZero(d, inputs, stamps, g)
         IN  /\ Sound(e) /\ MasterStands(e, "marked", id, 0, g, NextOrders(0))
             /\ Frame(d, e, {"current primary", "coefficients"}, {"primary"}, 0)
<1> DEFINE given == Given(d, MasterLevel(0), inputs)
           e == PublishMaster(given, OwnMaster(0), 0, g, NextOrders(0), TRUE)
<1>1. 0 \in Levels /\ NextOrders(0) \in Nat /\ 0 \in Int
  BY DEF Levels, TopLevel, NextOrders
<1>2. MasterLevel(0) \in SUBSET TowerSlots /\ \A s \in MasterLevel(0) : s[2][1] \in MasterFields
  <2>1. MasterLevel(0) \in SUBSET TowerSlots
    BY <1>1, MasterSlots
  <2>2. \A s \in MasterLevel(0) : s[2][1] \in MasterFields
    BY DEF MasterLevel, MasterJet
  <2> QED
    BY <2>1, <2>2
<1>3. /\ Sound(given) /\ Same(d, given, TowerSlots \ MasterLevel(0))
      /\ \A s \in MasterLevel(0) : Holds(given.mem, s, id, 0, {OffBand})
  BY <1>2, GivenKeeps
<1>4. Welcome(given, MasterLevel(0), stamps, g) => MasterZero(d, inputs, stamps, g) = e
  BY MasterZeroReady
<1> HIDE DEF given
<1>5. "marked" \in Kinds \ {"void"} /\ Extra("marked") = {OffBand} /\ {OffBand} \in Extras
  BY DEF Kinds, Extra, Extras
<1>6. Welcome(given, MasterLevel(0), stamps, g)
  <2>1. \A s \in MasterLevel(0), m \in Modes : NonFinite \notin given.mem[s][m]
    BY <1>1, <1>3, <1>5, HoldsFinite
  <2> QED
    BY <1>2, <2>1 DEF Welcome, Finite
<1>7. FieldsHold(given, OwnMaster(0), MasterFields, "marked", id, 0)
  BY <1>2, <1>3, <1>5 DEF FieldsHold, OwnMaster, MasterLevel
<1>8. /\ Sound(e) /\ MasterStands(e, "marked", id, 0, g, NextOrders(0))
      /\ Frame(given, e, {"current primary", "coefficients"}, {"primary"}, 0)
  BY <1>1, <1>3, <1>5, <1>7, PublishMasterReady
<1> HIDE DEF e
<1>9. Touched(MasterLevel(0), {"current primary", "coefficients"}, {"primary"}, 0)
  BY LevelTouched DEF Touched, Apart
<1>10. Frame(d, given, {"current primary", "coefficients"}, {"primary"}, 0)
  BY <1>3, <1>9, FrameOf
<1>11. Frame(d, e, {"current primary", "coefficients"}, {"primary"}, 0)
  BY <1>8, <1>10, FrameThen
<1> QED
  BY <1>4, <1>6, <1>8, <1>11

LEMMA MasterZeroVoid ==
  ASSUME NEW d, Sound(d), NEW inputs, NEW stamps, NEW g, NEW id \in Int,
         InputsTame(inputs, MasterFields), Bad(inputs, stamps, MasterFields, g)
  PROVE  LET e == MasterZero(d, inputs, stamps, g)
         IN  /\ Sound(e) /\ MasterStands(e, "void", id, 0, g, NextOrders(0))
             /\ Frame(d, e, {"current primary", "coefficients"}, {"primary"}, 0)
<1> DEFINE given == Given(d, MasterLevel(0), inputs)
           e == PublishMaster(given, OwnMaster(0), 0, g, NextOrders(0), FALSE)
<1>1. 0 \in Levels /\ NextOrders(0) \in Nat /\ 0 \in Int
  BY DEF Levels, TopLevel, NextOrders
<1>2. MasterLevel(0) \in SUBSET TowerSlots /\ \A s \in MasterLevel(0) : s[2][1] \in MasterFields
  <2>1. MasterLevel(0) \in SUBSET TowerSlots
    BY <1>1, MasterSlots
  <2>2. \A s \in MasterLevel(0) : s[2][1] \in MasterFields
    BY DEF MasterLevel, MasterJet
  <2> QED
    BY <2>1, <2>2
<1>3. /\ Sound(given) /\ Same(d, given, TowerSlots \ MasterLevel(0))
      /\ \A s \in MasterLevel(0), m \in Modes :
           NonFinite \in inputs[s[2][1]][m] => NonFinite \in given.mem[s][m]
  BY <1>2, GivenKeeps
<1>4. ~Welcome(given, MasterLevel(0), stamps, g) => MasterZero(d, inputs, stamps, g) = e
  BY MasterZeroRefused
<1> HIDE DEF given
<1>6. ~Welcome(given, MasterLevel(0), stamps, g)
  <2>1. PICK f \in MasterFields : \E m \in Modes : NonFinite \in inputs[f][m] \/ stamps[f][m] # g
    BY DEF Bad
  <2>2. PICK m \in Modes : NonFinite \in inputs[f][m] \/ stamps[f][m] # g
    BY <2>1
  <2>3. MasterJet(f, 0) \in MasterLevel(0) /\ MasterJet(f, 0)[2][1] = f
    BY DEF MasterLevel, MasterJet
  <2>4. NonFinite \in given.mem[MasterJet(f, 0)][m] \/ stamps[MasterJet(f, 0)[2][1]][m] # g
    BY <2>2, <2>3, <1>3
  <2> QED
    BY <2>3, <2>4 DEF Welcome, Finite
<1>8. /\ Sound(e) /\ MasterStands(e, "void", id, 0, g, NextOrders(0))
      /\ Frame(given, e, {"current primary", "coefficients"}, {"primary"}, 0)
  BY <1>1, <1>3, PublishMasterRefused
<1> HIDE DEF e
<1>9. Touched(MasterLevel(0), {"current primary", "coefficients"}, {"primary"}, 0)
  BY LevelTouched DEF Touched, Apart
<1>10. Frame(d, given, {"current primary", "coefficients"}, {"primary"}, 0)
  BY <1>3, <1>9, FrameOf
<1>11. Frame(d, e, {"current primary", "coefficients"}, {"primary"}, 0)
  BY <1>8, <1>10, FrameThen
<1> QED
  BY <1>4, <1>6, <1>8, <1>11

LEMMA MetricZeroWhole ==
  ASSUME NEW d, Sound(d), NEW inputs, NEW stamps, NEW g, NEW id \in Int,
         InputsTame(inputs, MetricFields), InputsHold(inputs, MetricFields, id),
         \A f \in MetricFields, m \in Modes : stamps[f][m] = g
  PROVE  LET e == MetricZero(d, inputs, stamps, g)
         IN  /\ Sound(e) /\ MetricStands(e, "marked", id, 0, g)
             /\ Frame(d, e, {"current"}, {"h"}, 0)
<1> DEFINE given == Given(d, MetricLevel(0), inputs)
           e == PublishMetric(given, OwnMetric(0), 0, g, TRUE)
<1>1. 0 \in Levels /\ 0 \in Int
  BY DEF Levels, TopLevel
<1>2. MetricLevel(0) \in SUBSET TowerSlots /\ \A s \in MetricLevel(0) : s[2][1] \in MetricFields
  <2>1. MetricLevel(0) \in SUBSET TowerSlots
    BY <1>1, MetricSlots
  <2>2. \A s \in MetricLevel(0) : s[2][1] \in MetricFields
    BY DEF MetricLevel, MetricJet
  <2> QED
    BY <2>1, <2>2
<1>3. /\ Sound(given) /\ Same(d, given, TowerSlots \ MetricLevel(0))
      /\ \A s \in MetricLevel(0) : Holds(given.mem, s, id, 0, {OffBand})
  BY <1>2, GivenKeeps
<1>4. Welcome(given, MetricLevel(0), stamps, g) => MetricZero(d, inputs, stamps, g) = e
  BY MetricZeroReady
<1> HIDE DEF given
<1>5. "marked" \in Kinds \ {"void"} /\ Extra("marked") = {OffBand} /\ {OffBand} \in Extras
  BY DEF Kinds, Extra, Extras
<1>6. Welcome(given, MetricLevel(0), stamps, g)
  <2>1. \A s \in MetricLevel(0), m \in Modes : NonFinite \notin given.mem[s][m]
    BY <1>1, <1>3, <1>5, HoldsFinite
  <2> QED
    BY <1>2, <2>1 DEF Welcome, Finite
<1>7. FieldsHold(given, OwnMetric(0), MetricFields, "marked", id, 0)
  BY <1>2, <1>3, <1>5 DEF FieldsHold, OwnMetric, MetricLevel
<1>8. /\ Sound(e) /\ MetricStands(e, "marked", id, 0, g) /\ Frame(given, e, {"current"}, {"h"}, 0)
  BY <1>1, <1>3, <1>5, <1>7, PublishMetricReady
<1> HIDE DEF e
<1>9. Touched(MetricLevel(0), {"current"}, {"h"}, 0)
  BY LevelTouched DEF Touched, Apart
<1>10. Frame(d, given, {"current"}, {"h"}, 0)
  BY <1>3, <1>9, FrameOf
<1>11. Frame(d, e, {"current"}, {"h"}, 0)
  BY <1>8, <1>10, FrameThen
<1> QED
  BY <1>4, <1>6, <1>8, <1>11

LEMMA MetricZeroVoid ==
  ASSUME NEW d, Sound(d), NEW inputs, NEW stamps, NEW g, NEW id \in Int,
         InputsTame(inputs, MetricFields), Bad(inputs, stamps, MetricFields, g)
  PROVE  LET e == MetricZero(d, inputs, stamps, g)
         IN  /\ Sound(e) /\ MetricStands(e, "void", id, 0, g)
             /\ Frame(d, e, {"current"}, {"h"}, 0)
<1> DEFINE given == Given(d, MetricLevel(0), inputs)
           e == PublishMetric(given, OwnMetric(0), 0, g, FALSE)
<1>1. 0 \in Levels /\ 0 \in Int
  BY DEF Levels, TopLevel
<1>2. MetricLevel(0) \in SUBSET TowerSlots /\ \A s \in MetricLevel(0) : s[2][1] \in MetricFields
  <2>1. MetricLevel(0) \in SUBSET TowerSlots
    BY <1>1, MetricSlots
  <2>2. \A s \in MetricLevel(0) : s[2][1] \in MetricFields
    BY DEF MetricLevel, MetricJet
  <2> QED
    BY <2>1, <2>2
<1>3. /\ Sound(given) /\ Same(d, given, TowerSlots \ MetricLevel(0))
      /\ \A s \in MetricLevel(0), m \in Modes :
           NonFinite \in inputs[s[2][1]][m] => NonFinite \in given.mem[s][m]
  BY <1>2, GivenKeeps
<1>4. ~Welcome(given, MetricLevel(0), stamps, g) => MetricZero(d, inputs, stamps, g) = e
  BY MetricZeroRefused
<1> HIDE DEF given
<1>6. ~Welcome(given, MetricLevel(0), stamps, g)
  <2>1. PICK f \in MetricFields : \E m \in Modes : NonFinite \in inputs[f][m] \/ stamps[f][m] # g
    BY DEF Bad
  <2>2. PICK m \in Modes : NonFinite \in inputs[f][m] \/ stamps[f][m] # g
    BY <2>1
  <2>3. MetricJet(f, 0) \in MetricLevel(0) /\ MetricJet(f, 0)[2][1] = f
    BY DEF MetricLevel, MetricJet
  <2>4. NonFinite \in given.mem[MetricJet(f, 0)][m] \/ stamps[MetricJet(f, 0)[2][1]][m] # g
    BY <2>2, <2>3, <1>3
  <2> QED
    BY <2>3, <2>4 DEF Welcome, Finite
<1>8. /\ Sound(e) /\ MetricStands(e, "void", id, 0, g) /\ Frame(given, e, {"current"}, {"h"}, 0)
  BY <1>1, <1>3, PublishMetricRefused
<1> HIDE DEF e
<1>9. Touched(MetricLevel(0), {"current"}, {"h"}, 0)
  BY LevelTouched DEF Touched, Apart
<1>10. Frame(d, given, {"current"}, {"h"}, 0)
  BY <1>3, <1>9, FrameOf
<1>11. Frame(d, e, {"current"}, {"h"}, 0)
  BY <1>8, <1>10, FrameThen
<1> QED
  BY <1>4, <1>6, <1>8, <1>11

\* The fields of one tower: all of a stage's inputs are good, or one mode of one is not.
LEMMA InputsAre ==
  ASSUME NEW id \in Int, NEW g \in Supported, NEW flaws \in {{}} \cup {{f} : f \in Flaws},
         NEW fields \in {MasterFields, MetricFields}
  PROVE  LET inputs == InputsOfStage(id, flaws)
             stamps == StampsOfStage(g, flaws)
         IN  /\ InputsTame(inputs, fields)
             /\ \/ /\ InputsHold(inputs, fields, id)
                   /\ \A f \in fields, m \in Modes : stamps[f][m] = g
                \/ /\ Bad(inputs, stamps, fields, g) /\ flaws # {}
<1> DEFINE inputs == InputsOfStage(id, flaws)
           stamps == StampsOfStage(g, flaws)
           Value(f, m) == [kind |-> "value", field |-> f, mode |-> m]
           Wrong(f, m) == [kind |-> "stamp", field |-> f, mode |-> m]
<1>1. fields \subseteq Fields
  BY DEF Fields
<1>2. \A f \in fields : /\ DOMAIN inputs[f] = Modes /\ DOMAIN stamps[f] = Modes
                        /\ \A m \in Modes :
                             /\ inputs[f][m] = IF Value(f, m) \in flaws THEN {NonFinite}
                                               ELSE {InputOf(f, id, m, 0)}
                             /\ stamps[f][m] = IF Wrong(f, m) \in flaws THEN 0 ELSE g
  BY <1>1 DEF InputsOfStage, StampsOfStage
<1> HIDE DEF inputs, stamps
<1>3. \A f \in fields, m \in Modes :
        /\ InputOf(f, id, m, 0) \in Made(id, 0, m)
        /\ InputOf(f, id, m, 0) \in Tame
        /\ Reflected(InputOf(f, id, m, 0)) = InputOf(f, id, -m, 0)
  <2>0. TAKE f \in fields, m \in Modes
  <2>1. InputOf(f, id, m, 0) \in Made(id, 0, m)
    BY <1>1 DEF Made, InputOf
  <2>2. 0 \in Int
    OBVIOUS
  <2>3. InputOf(f, id, m, 0) \in Tame
    BY <2>1, <2>2, MadeTame
  <2>4. Reflected(InputOf(f, id, m, 0)) = InputOf(f, id, -m, 0)
    BY DEF Reflected, InputOf
  <2> QED
    BY <2>1, <2>3, <2>4
<1>4. InputsTame(inputs, fields)
  <2>1. {NonFinite} \subseteq Tame
    BY DEF Tame
  <2>2. \A f \in fields, m \in Modes : {InputOf(f, id, m, 0)} \subseteq Tame
    BY <1>3
  <2> QED
    <3>1. \A f \in fields, m \in Modes : inputs[f][m] \subseteq Tame
      <4>1. TAKE f \in fields, m \in Modes
      <4>2. inputs[f][m] = {NonFinite} \/ inputs[f][m] = {InputOf(f, id, m, 0)}
        BY <1>2
      <4>3. {InputOf(f, id, m, 0)} \subseteq Tame
        BY <2>2
      <4> QED
        BY <2>1, <4>2, <4>3
    <3> QED
      BY <1>2, <3>1 DEF InputsTame
<1>5. ASSUME \A f \in fields, m \in Modes : Value(f, m) \notin flaws /\ Wrong(f, m) \notin flaws
      PROVE  /\ InputsHold(inputs, fields, id)
             /\ \A f \in fields, m \in Modes : stamps[f][m] = g
  <2>1. ASSUME NEW f \in fields
        PROVE  Holds(inputs, f, id, 0, {})
    <3> SUFFICES ASSUME NEW m \in Modes
                 PROVE  /\ inputs[f][m] # {} /\ inputs[f][m] \subseteq Made(id, 0, m)
                        /\ \A i \in inputs[f][m] : Reflected(i) \in inputs[f][-m]
      BY DEF Holds
    <3>1. -m \in Modes
      BY ModesAssumption
    <3>2. inputs[f][m] = {InputOf(f, id, m, 0)} /\ inputs[f][-m] = {InputOf(f, id, -m, 0)}
      BY <1>2, <1>5, <3>1
    <3> QED
      BY <1>3, <3>2
  <2> QED
    BY <1>2, <1>5, <2>1 DEF InputsHold
<1>6. ASSUME NEW f \in fields, NEW m \in Modes, Value(f, m) \in flaws \/ Wrong(f, m) \in flaws
      PROVE  Bad(inputs, stamps, fields, g) /\ flaws # {}
  <2>1. g # 0
    BY TowerAssumption
  <2>2. NonFinite \in inputs[f][m] \/ stamps[f][m] # g
    BY <1>2, <1>6, <2>1
  <2> QED
    BY <1>6, <2>2 DEF Bad
<1> QED
  BY <1>4, <1>5, <1>6 DEF inputs, stamps

\* A step in another tower, or at another level.
SparesMaster(views, jets) ==
  \A v \in {"primary", "current primary", "coefficients"} : v \notin views /\ v \notin jets
SparesMetric(views, jets, k, l) ==
  /\ "h" \notin views /\ "current" \notin views /\ "current" \notin jets
  /\ "h" \notin jets \/ k # l
SparesLevels(views) == "primary" \notin views /\ "h" \notin views

LEMMA MasterKept ==
  ASSUME NEW d, NEW e, NEW views, NEW jets, NEW k, Frame(d, e, views, jets, k),
         SparesMaster(views, jets),
         NEW kind, NEW id, NEW l \in Levels, NEW g, NEW o, MasterStands(d, kind, id, l, g, o)
  PROVE  MasterStands(e, kind, id, l, g, o)
<1>1. /\ Clear(MasterLevel(l), views, jets, k) /\ Clear(CurrentMaster, views, jets, k)
      /\ Clear(Coefficients, views, jets, k)
  <2>1. \A v \in {"primary", "current primary", "coefficients"} : v \notin views /\ v \notin jets
    BY DEF SparesMaster
  <2>2. /\ \A s \in MasterLevel(l) : s[1] = "primary"
        /\ \A s \in CurrentMaster : s[1] = "current primary"
        /\ \A s \in Coefficients : s[1] = "coefficients"
    BY LevelTouched
  <2> QED
    BY <2>1, <2>2 DEF Clear, Apart
<1>2. /\ MasterLevel(l) \in SUBSET TowerSlots /\ CurrentMaster \in SUBSET TowerSlots
      /\ Coefficients \in SUBSET TowerSlots
  BY MasterSlots
<1> QED
  BY <1>1, <1>2, GroupFrame DEF MasterStands

LEMMA MetricKept ==
  ASSUME NEW d, NEW e, NEW views, NEW jets, NEW k, Frame(d, e, views, jets, k),
         NEW kind, NEW id, NEW l \in Levels, NEW g, SparesMetric(views, jets, k, l),
         MetricStands(d, kind, id, l, g)
  PROVE  MetricStands(e, kind, id, l, g)
<1>1. Clear(MetricLevel(l), views, jets, k) /\ Clear(ViewOf("current", MetricFields), views, jets, k)
  <2>1. /\ "h" \notin views /\ "current" \notin views /\ "current" \notin jets
        /\ "h" \notin jets \/ k # l
    BY DEF SparesMetric
  <2>2. /\ \A s \in MetricLevel(l) : s[1] = "h" /\ s[2][2] = l
        /\ \A s \in ViewOf("current", MetricFields) : s[1] = "current"
    BY LevelTouched
  <2>3. Clear(MetricLevel(l), views, jets, k)
    BY <2>1, <2>2 DEF Clear, Apart
  <2>4. Clear(ViewOf("current", MetricFields), views, jets, k)
    BY <2>1, <2>2 DEF Clear, Apart
  <2> QED
    BY <2>3, <2>4
<1>2. /\ MetricLevel(l) \in SUBSET TowerSlots
      /\ ViewOf("current", MetricFields) \in SUBSET TowerSlots
  BY MetricSlots
<1> QED
  BY <1>1, <1>2, GroupFrame DEF MetricStands

LEMMA LevelsKept ==
  ASSUME NEW d, NEW e, NEW views, NEW jets, NEW k, Frame(d, e, views, jets, k),
         SparesLevels(views), NEW l \in Levels, l # k
  PROVE  Same(d, e, MasterLevel(l) \cup MetricLevel(l))
<1>1. Clear(MasterLevel(l) \cup MetricLevel(l), views, jets, k)
  <2>1. \A s \in MasterLevel(l) : s[1] = "primary" /\ s[2][2] = l
    BY LevelTouched
  <2>2. \A s \in MetricLevel(l) : s[1] = "h" /\ s[2][2] = l
    BY LevelTouched
  <2>3. ASSUME NEW s \in MasterLevel(l) \cup MetricLevel(l)
        PROVE  Apart(s, views, jets, k)
    <3>1. s[2][2] = l /\ s[1] \in {"primary", "h"}
      BY <2>1, <2>2
    <3> QED
      BY <3>1 DEF SparesLevels, Apart
  <2> QED
    BY <2>3 DEF Clear
<1>2. MasterLevel(l) \in SUBSET TowerSlots /\ MetricLevel(l) \in SUBSET TowerSlots
  BY MasterSlots, MetricSlots
<1> QED
  BY <1>1, <1>2 DEF Same, Frame, Clear

\* Where both towers stand.
Stand(d, a, b, id, l, g) ==
  /\ MasterStands(d, a, id, l, g, ProjectedPsiOrders(l))
  /\ MetricStands(d, b, id, l, g)
EmptyLevel(d, l) == \A s \in MasterLevel(l) \cup MetricLevel(l) : Void(d, s)

\* Level zero of a stage, which is there if nothing is wrong with the inputs.
ZeroMade(d, flaws, id, g) ==
  \E a, b \in {"void", "inband"} :
    Stand(d, a, b, id, 0, g) /\ (flaws = {} => a = "inband" /\ b = "inband")
EmptyAbove(d, n) == \A k \in Levels : k > n => EmptyLevel(d, k)

LEMMA LevelZeroDone ==
  ASSUME NEW old, Sound(old), NEW id \in Int, NEW g \in Supported,
         NEW flaws \in {{}} \cup {{f} : f \in Flaws}
  PROVE  LET e == LevelZero(old, InputsOfStage(id, flaws), StampsOfStage(g, flaws), g)
         IN  /\ Sound(e)
             /\ ZeroMade(e, flaws, id, g) /\ EmptyAbove(e, 0)
<1> DEFINE inputs == InputsOfStage(id, flaws)
           stamps == StampsOfStage(g, flaws)
           d0 == Begun(old)
           d1 == MasterZero(d0, inputs, stamps, g)
           d2 == MetricZero(d1, inputs, stamps, g)
           d3 == ProjectMaster(d2, 0, g)
           d4 == ProjectInitial(d3, g)
<1>0. LevelZero(old, inputs, stamps, g) = d4
  BY DEF LevelZero
<1>1. 0 \in Levels
  BY DEF Levels, TopLevel
<1>2. Sound(d0) /\ \A k \in Levels : EmptyLevel(d0, k)
  <2>1. \A k \in Levels : MasterLevel(k) \cup MetricLevel(k) \subseteq OwnedSlots
    <3>1. \A k \in Levels : MasterLevel(k) \subseteq {"primary"} \X (MasterFields \X Levels)
      BY DEF MasterLevel, MasterJet
    <3>2. \A k \in Levels : MetricLevel(k) \subseteq {"h"} \X (MetricFields \X Levels)
      BY DEF MetricLevel, MetricJet
    <3> QED
      BY <3>1, <3>2 DEF OwnedSlots
  <2>2. OwnedSlots \subseteq TowerSlots
    BY DEF TowerSlots
  <2>3. Sound(d0) /\ \A s \in TowerSlots : s \in OwnedSlots => Void(d0, s)
    BY ClearedKeeps DEF Begun
  <2> QED
    BY <2>1, <2>2, <2>3 DEF EmptyLevel
<1>3. /\ InputsTame(inputs, MasterFields)
      /\ \/ /\ InputsHold(inputs, MasterFields, id)
            /\ \A f \in MasterFields, m \in Modes : stamps[f][m] = g
         \/ Bad(inputs, stamps, MasterFields, g) /\ flaws # {}
  BY InputsAre
<1>4. /\ InputsTame(inputs, MetricFields)
      /\ \/ /\ InputsHold(inputs, MetricFields, id)
            /\ \A f \in MetricFields, m \in Modes : stamps[f][m] = g
         \/ Bad(inputs, stamps, MetricFields, g) /\ flaws # {}
  BY InputsAre
<1> HIDE DEF inputs, stamps, d0
<1>5. PICK a \in {"void", "marked"} :
        /\ Sound(d1) /\ MasterStands(d1, a, id, 0, g, NextOrders(0))
        /\ Frame(d0, d1, {"current primary", "coefficients"}, {"primary"}, 0)
        /\ flaws = {} => a = "marked"
  <2>1. CASE /\ InputsHold(inputs, MasterFields, id)
             /\ \A f \in MasterFields, m \in Modes : stamps[f][m] = g
    <3>1. /\ Sound(d1) /\ MasterStands(d1, "marked", id, 0, g, NextOrders(0))
          /\ Frame(d0, d1, {"current primary", "coefficients"}, {"primary"}, 0)
      BY <1>2, <1>3, <2>1, MasterZeroWhole
    <3> QED
      BY <3>1
  <2>2. CASE Bad(inputs, stamps, MasterFields, g) /\ flaws # {}
    <3>1. /\ Sound(d1) /\ MasterStands(d1, "void", id, 0, g, NextOrders(0))
          /\ Frame(d0, d1, {"current primary", "coefficients"}, {"primary"}, 0)
      BY <1>2, <1>3, <2>2, MasterZeroVoid
    <3> QED
      BY <2>2, <3>1
  <2> QED
    BY <1>3, <2>1, <2>2
<1> HIDE DEF d1
<1>6. PICK b \in {"void", "marked"} :
        /\ Sound(d2) /\ MetricStands(d2, b, id, 0, g) /\ Frame(d1, d2, {"current"}, {"h"}, 0)
        /\ flaws = {} => b = "marked"
  <2>1. CASE /\ InputsHold(inputs, MetricFields, id)
             /\ \A f \in MetricFields, m \in Modes : stamps[f][m] = g
    <3>1. Sound(d2) /\ MetricStands(d2, "marked", id, 0, g) /\ Frame(d1, d2, {"current"}, {"h"}, 0)
      BY <1>5, <1>4, <2>1, MetricZeroWhole
    <3> QED
      BY <3>1
  <2>2. CASE Bad(inputs, stamps, MetricFields, g) /\ flaws # {}
    <3>1. Sound(d2) /\ MetricStands(d2, "void", id, 0, g) /\ Frame(d1, d2, {"current"}, {"h"}, 0)
      BY <1>5, <1>4, <2>2, MetricZeroVoid
    <3> QED
      BY <2>2, <3>1
  <2> QED
    BY <1>4, <2>1, <2>2
<1> HIDE DEF d2
<1>20. /\ SparesMaster({"current"}, {"h"}) /\ SparesMaster({"projected", "current"}, {"h"})
       /\ SparesMetric(MasterViews, {"primary"}, 0, 0)
  BY DEF SparesMaster, SparesMetric, MasterViews
<1>21. /\ SparesLevels({"current primary", "coefficients"}) /\ SparesLevels({"current"})
       /\ SparesLevels(MasterViews) /\ SparesLevels({"projected", "current"})
  BY DEF SparesLevels, MasterViews
<1>7. MasterStands(d2, a, id, 0, g, NextOrders(0))
  BY <1>1, <1>5, <1>6, <1>20, MasterKept
<1>8. a \in Kinds /\ b \in Kinds
  BY DEF Kinds
<1> DEFINE a2 == IF a = "void" THEN "void" ELSE "inband"
           b2 == IF b = "void" THEN "void" ELSE "inband"
<1>9. /\ Sound(d3) /\ MasterStands(d3, a2, id, 0, g, ProjectedPsiOrders(0))
      /\ Frame(d2, d3, MasterViews, {"primary"}, 0)
  <2>1. CASE a = "void"
    BY <1>1, <1>6, <1>7, <2>1, ProjectMasterVoid
  <2>2. CASE a # "void"
    <3>1. a \in Kinds \ {"void"}
      BY <1>8, <2>2
    <3>2. /\ Sound(d3) /\ MasterStands(d3, "inband", id, 0, g, ProjectedPsiOrders(0))
          /\ Frame(d2, d3, MasterViews, {"primary"}, 0)
      BY <1>1, <1>6, <1>7, <3>1, ProjectMasterWhole
    <3> QED
      BY <2>2, <3>2
  <2> QED
    BY <2>1, <2>2
<1> HIDE DEF d3
<1>10. MetricStands(d3, b, id, 0, g)
  BY <1>1, <1>6, <1>9, <1>20, MetricKept
<1>11. /\ Sound(d4) /\ MetricStands(d4, b2, id, 0, g)
       /\ Frame(d3, d4, {"projected", "current"}, {"h"}, 0)
  BY <1>8, <1>9, <1>10, InitialDone
<1> HIDE DEF d4, a2, b2
<1>12. MasterStands(d4, a2, id, 0, g, ProjectedPsiOrders(0))
  BY <1>1, <1>9, <1>11, <1>20, MasterKept
<1>13. Stand(d4, a2, b2, id, 0, g) /\ a2 \in {"void", "inband"} /\ b2 \in {"void", "inband"}
       /\ (flaws = {} => a2 = "inband" /\ b2 = "inband")
  BY <1>5, <1>6, <1>11, <1>12 DEF Stand, a2, b2
<1>14. ASSUME NEW k \in Levels, k # 0
       PROVE  EmptyLevel(d4, k)
  <2> DEFINE S == MasterLevel(k) \cup MetricLevel(k)
  <2>2. Same(d0, d1, S)
    BY <1>5, <1>14, <1>21, LevelsKept
  <2>3. Same(d1, d2, S)
    BY <1>6, <1>14, <1>21, LevelsKept
  <2>4. Same(d2, d3, S)
    BY <1>9, <1>14, <1>21, LevelsKept
  <2>5. Same(d3, d4, S)
    BY <1>11, <1>14, <1>21, LevelsKept
  <2> QED
    BY <1>2, <2>2, <2>3, <2>4, <2>5 DEF EmptyLevel, Same, Void
<1>15. ZeroMade(d4, flaws, id, g)
  BY <1>13 DEF ZeroMade
<1>16. EmptyAbove(d4, 0)
  BY <1>14 DEF EmptyAbove, Levels
<1> QED
  BY <1>0, <1>11, <1>15, <1>16 DEF inputs, stamps

-----------------------------------------------------------------------------
(* Rows made by angular operators *)

TermsHold(d, of, id, rate) ==
  \A s \in DOMAIN of :
    /\ Holds(d.mem, of[s].value, id, rate, {})
    /\ \A q \in of[s].dt : Holds(d.mem, q.slot, id, rate + q.rate, {})
SourcesStamped(d, rows, orders) ==
  \A s \in DOMAIN rows : \A from \in rows[s] :
    from.slot \notin DOMAIN rows /\ from.slot \in TowerSlots
    /\ \E has \in Nat : has >= orders /\ Stamped(d, from.slot, from.token, has)

LEMMA TermsInBand ==
  ASSUME NEW d, NEW of, NEW id \in Int, NEW rate \in Int, TermsHold(d, of, id, rate)
  PROVE  AngularInBand(d, of)
<1>1. {} \in Extras
  BY DEF Extras
<1>2. ASSUME NEW s \in DOMAIN of
      PROVE  \A m \in Modes : OffBand \notin d.mem[of[s].value][m]
  <2>1. Holds(d.mem, of[s].value, id, rate, {})
    BY DEF TermsHold
  <2> QED
    BY <1>1, <2>1, HoldsFinite
<1> QED
  BY <1>2 DEF AngularInBand

LEMMA AngularRowsKeep ==
  ASSUME NEW d, Sound(d), NEW of, DOMAIN of \subseteq TowerSlots, AngularReads(of),
         AngularInBand(d, of), NEW rows, DOMAIN rows = DOMAIN of,
         NEW orders \in Nat, orders >= 1, NEW token
  PROVE  /\ Sound(RowsStamped(Angular(d, of), rows, orders, token))
         /\ Same(d, RowsStamped(Angular(d, of), rows, orders, token), TowerSlots \ DOMAIN of)
<1> DEFINE x == Angular(d, of)
           e == RowsStamped(x, rows, orders, token)
<1>1. Sound(x) /\ Same(d, x, TowerSlots \ DOMAIN of)
  BY AngularKeeps
<1> HIDE DEF x
<1>2. Sound(e) /\ Same(x, e, TowerSlots \ DOMAIN rows)
  BY <1>1, RowsKeep
<1> HIDE DEF e
<1>3. Same(d, e, TowerSlots \ DOMAIN of)
  BY <1>1, <1>2 DEF Same
<1> QED
  BY <1>2, <1>3 DEF e, x

LEMMA AngularRowsWhole ==
  ASSUME NEW d, Sound(d), NEW of, DOMAIN of \subseteq TowerSlots, AngularReads(of),
         NEW id \in Int, NEW rate \in Int, TermsHold(d, of, id, rate),
         NEW rows, DOMAIN rows = DOMAIN of,
         NEW orders \in Nat, orders >= 1, NEW token, SourcesStamped(d, rows, orders)
  PROVE  Group(RowsStamped(Angular(d, of), rows, orders, token), DOMAIN of,
               "inband", id, rate, token, orders)
<1> DEFINE x == Angular(d, of)
<1>1. AngularInBand(d, of)
  BY TermsInBand
<1>2. Sound(x) /\ x.stamp = d.stamp
  BY <1>1, AngularKeeps
<1>3. ASSUME NEW s \in DOMAIN of
      PROVE  Holds(x.mem, s, id, rate, {})
  <2>1. /\ Holds(d.mem, of[s].value, id, rate, {})
        /\ \A q \in of[s].dt : Holds(d.mem, q.slot, id, rate + q.rate, {})
    BY DEF TermsHold
  <2> QED
    BY <1>1, <2>1, AngularHolds
<1> HIDE DEF x
<1>4. ASSUME NEW s \in DOMAIN of
      PROVE  HasKind(RowsStamped(x, rows, orders, token), s, "inband", id, rate, token, orders)
  <2>1. \A from \in rows[s] : \E has \in Nat : has >= orders /\ Stamped(x, from.slot, from.token, has)
    BY <1>2 DEF SourcesStamped, Stamped
  <2>2. Holds(x.mem, s, id, rate, {})
    BY <1>3
  <2> QED
    BY <1>2, <2>1, <2>2, RowsWhole
<1> QED
  BY <1>4 DEF Group, x

LEMMA AngularRowsRefused ==
  ASSUME NEW d, Sound(d), NEW of, DOMAIN of \subseteq TowerSlots, AngularReads(of),
         AngularInBand(d, of), NEW rows, DOMAIN rows = DOMAIN of,
         NEW orders \in Nat, orders >= 1, NEW token,
         NEW s \in DOMAIN rows, NEW from \in rows[s], Void(d, from.slot)
  PROVE  ~AllBear(RowsStamped(Angular(d, of), rows, orders, token), DOMAIN of, token, orders)
<1> DEFINE x == Angular(d, of)
<1>1. Sound(x) /\ x.stamp = d.stamp
  BY AngularKeeps
<1> HIDE DEF x
<1>2. PICK m : m \in Modes
  BY ModesAssumption
<1>3. x.stamp[from.slot][m] = NoStamp
  BY <1>1, <1>2 DEF Void
<1>4. ~Bears(RowsStamped(x, rows, orders, token), s, m, token, orders)
  BY <1>1, <1>2, <1>3, RowsRefused
<1> QED
  BY <1>2, <1>4 DEF AllBear, x

-----------------------------------------------------------------------------
(* The laplacian *)

Copied(d) ==
  [mem   |-> [d.mem EXCEPT ![Captured] = d.mem[<<"coefficients", "psi">>]],
   stamp |-> [d.stamp EXCEPT ![Captured] = d.stamp[<<"coefficients", "psi">>]]]
Laplacian == <<"laplacian", "psi">>
LaplacianOf == [s \in {Laplacian} |-> [value |-> Captured, dt |-> {}]]
LaplacianFrom(g) == [s \in {Laplacian} |-> {Source(Captured, GenerationToken(g))}]

LEMMA LaplacianRowsAre ==
  ASSUME NEW d, NEW l, NEW g
  PROVE  LaplacianRows(d, l, g) =
           RowsStamped(Angular(Cleared(Copied(d), {Laplacian}), LaplacianOf),
                       LaplacianFrom(g), NextOrders(l), GenerationToken(g))
  BY DEF LaplacianRows, Copied, Laplacian, LaplacianOf, LaplacianFrom, Captured

LEMMA CopiedKeeps ==
  ASSUME NEW d, Sound(d)
  PROVE  /\ Sound(Copied(d)) /\ Same(d, Copied(d), TowerSlots \ {Captured})
         /\ Copied(d).mem[Captured] = d.mem[<<"coefficients", "psi">>]
         /\ Copied(d).stamp[Captured] = d.stamp[<<"coefficients", "psi">>]
<1>1. Captured \in TowerSlots
  BY ScratchSlots DEF Captured
<1>2. <<"coefficients", "psi">> \in TowerSlots
  BY MasterSlots DEF Coefficients
<1>3. PICK psi \in TowerSlots : psi = <<"coefficients", "psi">>
  BY <1>2
<1>4. /\ Copied(d).mem = [d.mem EXCEPT ![Captured] = d.mem[psi]]
      /\ Copied(d).stamp = [d.stamp EXCEPT ![Captured] = d.stamp[psi]]
      /\ Copied(d) = [mem |-> Copied(d).mem, stamp |-> Copied(d).stamp]
  BY <1>3 DEF Copied
<1>5. Sound(Copied(d))
  BY <1>1, <1>4 DEF Sound
<1> QED
  BY <1>1, <1>3, <1>4, <1>5 DEF Same, Sound

LEMMA LaplacianDone ==
  ASSUME NEW d, Sound(d), NEW l \in 0 .. 3, NEW g, NEW a \in {"void", "inband"}, NEW id \in Int,
         MasterStands(d, a, id, l, g, ProjectedPsiOrders(l))
  PROVE  LET e == LaplacianRows(d, l, g)
         IN  /\ Sound(e) /\ \A k : Frame(d, e, {"snapshot", "laplacian"}, {}, k)
             /\ Group(e, {Captured}, a, id, l, GenerationToken(g), ProjectedPsiOrders(l))
             /\ a = "inband" => Group(e, {Laplacian}, "inband", id, l, GenerationToken(g), NextOrders(l))
             /\ a = "void" => ~AllBear(e, {Laplacian}, GenerationToken(g), NextOrders(l))
<1> DEFINE T == GenerationToken(g)
           n == NextOrders(l)
           c == Copied(d)
           x == Cleared(c, {Laplacian})
           e == RowsStamped(Angular(x, LaplacianOf), LaplacianFrom(g), n, T)
<1>0. LaplacianRows(d, l, g) = e
  BY LaplacianRowsAre
<1>1. /\ n \in Nat /\ n >= 1 /\ l \in Levels /\ l \in Int
      /\ ProjectedPsiOrders(l) \in Nat /\ ProjectedPsiOrders(l) >= 1 /\ ProjectedPsiOrders(l) >= n
  BY NextOf, ProjectedOrders DEF TopLevel
<1>2. /\ Captured \in TowerSlots /\ Laplacian \in TowerSlots /\ Captured # Laplacian
      /\ Captured[1] = "snapshot" /\ Laplacian[1] = "laplacian"
  BY ScratchSlots DEF Captured, Laplacian
<1>3. Group(d, Coefficients, a, id, l, T, ProjectedPsiOrders(l))
  BY <1>1 DEF MasterStands
<1> HIDE DEF n, T
<1>4. /\ Sound(c) /\ Same(d, c, TowerSlots \ {Captured})
      /\ c.mem[Captured] = d.mem[<<"coefficients", "psi">>]
      /\ c.stamp[Captured] = d.stamp[<<"coefficients", "psi">>]
  BY CopiedKeeps
<1> HIDE DEF c
<1>5. /\ Sound(x) /\ Same(c, x, TowerSlots \ {Laplacian})
  BY <1>4, ClearedKeeps
<1> HIDE DEF x
<1>6. /\ x.mem[Captured] = d.mem[<<"coefficients", "psi">>]
      /\ x.stamp[Captured] = d.stamp[<<"coefficients", "psi">>]
      /\ Same(d, x, TowerSlots \ {Captured, Laplacian})
  BY <1>2, <1>4, <1>5 DEF Same
<1>7. /\ a = "void" => Void(x, Captured)
      /\ a = "inband" => Holds(x.mem, Captured, id, l, {}) /\ Stamped(x, Captured, T, ProjectedPsiOrders(l))
  <2>1. HasKind(d, <<"coefficients", "psi">>, a, id, l, T, ProjectedPsiOrders(l))
    BY <1>3 DEF Group, Coefficients
  <2>2. CASE a = "void"
    BY <1>6, <2>1, <2>2 DEF HasKind, Void
  <2>3. CASE a = "inband"
    <3>1. Holds(d.mem, <<"coefficients", "psi">>, id, l, {}) /\ Stamped(d, <<"coefficients", "psi">>, T, ProjectedPsiOrders(l))
      BY <2>1, <2>3 DEF HasKind, Extra
    <3>2. Holds(x.mem, Captured, id, l, {})
      BY <1>6, <3>1, HoldsSame
    <3> QED
      BY <1>6, <2>3, <3>1, <3>2 DEF Stamped
  <2> QED
    BY <2>2, <2>3
<1>8. /\ DOMAIN LaplacianOf = {Laplacian} /\ DOMAIN LaplacianFrom(g) = {Laplacian}
      /\ LaplacianOf[Laplacian] = [value |-> Captured, dt |-> {}]
      /\ LaplacianFrom(g)[Laplacian] = {Source(Captured, T)}
  BY DEF LaplacianOf, LaplacianFrom, T
<1>9. AngularReads(LaplacianOf)
  BY <1>2, <1>8 DEF AngularReads, Captured, Laplacian
<1>10. AngularInBand(x, LaplacianOf)
  <2>1. CASE a = "void"
    BY <1>7, <1>8, <2>1 DEF AngularInBand, Void
  <2>2. CASE a = "inband"
    <3>1. {} \in Extras
      BY DEF Extras
    <3>2. \A m \in Modes : OffBand \notin x.mem[Captured][m]
      BY <1>1, <1>7, <2>2, <3>1, HoldsFinite
    <3> QED
      BY <1>8, <3>2 DEF AngularInBand
  <2> QED
    BY <2>1, <2>2
<1>11. DOMAIN LaplacianOf \subseteq TowerSlots /\ DOMAIN LaplacianFrom(g) = DOMAIN LaplacianOf
  BY <1>2, <1>8
<1>12. Sound(e) /\ Same(x, e, TowerSlots \ {Laplacian})
  BY <1>1, <1>5, <1>8, <1>9, <1>10, <1>11, AngularRowsKeep
<1>13. ASSUME a = "inband"
       PROVE  Group(e, {Laplacian}, "inband", id, l, T, n)
  <2>1. TermsHold(x, LaplacianOf, id, l)
    BY <1>7, <1>8, <1>13 DEF TermsHold
  <2>2. SourcesStamped(x, LaplacianFrom(g), n)
    BY <1>1, <1>2, <1>7, <1>8, <1>13 DEF SourcesStamped, Source
  <2> QED
    BY <1>1, <1>5, <1>8, <1>9, <1>11, <2>1, <2>2, AngularRowsWhole
<1>14. ASSUME a = "void"
       PROVE  ~AllBear(e, {Laplacian}, T, n)
  <2>1. Source(Captured, T) \in LaplacianFrom(g)[Laplacian] /\ Void(x, Source(Captured, T).slot)
    BY <1>7, <1>8, <1>14 DEF Source
  <2>2. Laplacian \in DOMAIN LaplacianFrom(g)
    BY <1>8
  <2> QED
    BY <1>1, <1>5, <1>8, <1>9, <1>10, <1>11, <2>1, <2>2, AngularRowsRefused
<1> HIDE DEF e
<1>15. Group(e, {Captured}, a, id, l, T, ProjectedPsiOrders(l))
  <2>1. HasKind(d, <<"coefficients", "psi">>, a, id, l, T, ProjectedPsiOrders(l))
    BY <1>3 DEF Group, Coefficients
  <2>2. /\ e.mem[Captured] = x.mem[Captured] /\ e.stamp[Captured] = x.stamp[Captured]
    BY <1>2, <1>12 DEF Same
  <2>3. HasKind(x, Captured, a, id, l, T, ProjectedPsiOrders(l))
    BY <1>7 DEF HasKind, Extra
  <2> QED
    BY <2>2, <2>3, KindSame DEF Group
<1>16. \A k : Frame(d, e, {"snapshot", "laplacian"}, {}, k)
  <2> TAKE k
  <2>1. Same(d, e, TowerSlots \ {Captured, Laplacian})
    BY <1>6, <1>12 DEF Same
  <2>2. Touched({Captured, Laplacian}, {"snapshot", "laplacian"}, {}, k)
    BY <1>2 DEF Touched, Apart
  <2> QED
    BY <2>1, <2>2, FrameOf
<1> QED
  BY <1>0, <1>12, <1>13, <1>14, <1>15, <1>16 DEF T, n

-----------------------------------------------------------------------------
(* The step of the primary *)

\* A fault is in a mode there is; none is anywhere else.
Located(fault) == fault.at \in TowerSlots => fault.mode \in Modes

LEMMA OverflownSound ==
  ASSUME NEW d, Sound(d), NEW slot \in TowerSlots, NEW fault, Located(fault)
  PROVE  /\ Sound(Overflown(d, slot, fault))
         /\ Same(d, Overflown(d, slot, fault), TowerSlots \ {slot})
         /\ Overflown(d, slot, fault).stamp = d.stamp
         /\ fault.at # slot => Overflown(d, slot, fault) = d
         /\ fault.at = slot => \E m \in Modes : NonFinite \in Overflown(d, slot, fault).mem[slot][m]
<1>1. CASE fault.at = slot
  <2>1. fault.mode \in Modes
    BY <1>1 DEF Located
  <2>2. /\ Sound(Overflown(d, slot, fault))
        /\ Same(d, Overflown(d, slot, fault), TowerSlots \ {slot})
        /\ Overflown(d, slot, fault).stamp = d.stamp
        /\ NonFinite \in Overflown(d, slot, fault).mem[slot][fault.mode]
    BY <1>1, <2>1, OverflownKeeps
  <2> QED
    BY <1>1, <2>1, <2>2
<1>2. CASE fault.at # slot
  <2>1. Overflown(d, slot, fault) = d
    BY <1>2 DEF Overflown
  <2> QED
    BY <1>2, <2>1 DEF Same
<1> QED
  BY <1>1, <1>2

\* What a kernel of a tower reads and writes.
KernelOf(kernel, to, from) ==
  /\ Written(kernel) = to
  /\ \A r \in kernel :
       /\ r.raise = 1 /\ r.reads # {}
       /\ \A q \in r.reads : q.slot \in from /\ q.sign \in {1, -1} /\ q.rate = 0

\* Its results, one level up.
Stepped(d, kernel, to, at, fault) == Overflown(MarkedAs(Launch(d, kernel), to, OffBand), at, fault)

LEMMA KernelReads ==
  ASSUME NEW kernel, NEW to, NEW from \in SUBSET TowerSlots, KernelOf(kernel, to, from)
  PROVE  \A r \in kernel : \A q \in r.reads :
           /\ q.slot \in TowerSlots /\ q.sign \in {1, -1}
           /\ q.rate \in Int /\ r.raise \in Int
<1>1. 0 \in Int /\ 1 \in Int
  OBVIOUS
<1> QED
  BY <1>1 DEF KernelOf

LEMMA SteppedKeeps ==
  ASSUME NEW d, Sound(d), NEW kernel, NEW to \in SUBSET TowerSlots, NEW from \in SUBSET TowerSlots,
         KernelOf(kernel, to, from), NEW at \in to, NEW fault, Located(fault)
  PROVE  /\ Sound(Stepped(d, kernel, to, at, fault))
         /\ Same(d, Stepped(d, kernel, to, at, fault), TowerSlots \ to)
         /\ fault.at = at => ~Finite(Stepped(d, kernel, to, at, fault), to)
<1> DEFINE x == Launch(d, kernel)
           y == MarkedAs(x, to, OffBand)
           e == Overflown(y, at, fault)
<1>1. /\ Sound(x) /\ Same(d, x, TowerSlots \ to)
  <2>1. \A r \in kernel : \A q \in r.reads :
           /\ q.slot \in TowerSlots /\ q.sign \in {1, -1}
           /\ q.rate \in Int /\ r.raise \in Int
    BY KernelReads
  <2>2. /\ Sound(x) /\ Same(d, x, TowerSlots \ Written(kernel))
    BY <2>1, LaunchKeeps
  <2> QED
    BY <2>2 DEF KernelOf
<1> HIDE DEF x
<1>2. Sound(y) /\ Same(x, y, TowerSlots \ to)
  BY <1>1, MarkedKeeps
<1> HIDE DEF y
<1>3. at \in TowerSlots
  OBVIOUS
<1>4. /\ Sound(e) /\ Same(y, e, TowerSlots \ {at})
      /\ fault.at = at => \E m \in Modes : NonFinite \in e.mem[at][m]
  BY <1>2, <1>3, OverflownSound
<1> HIDE DEF e
<1>5. Same(d, e, TowerSlots \ to)
  BY <1>1, <1>2, <1>4 DEF Same
<1>6. fault.at = at => ~Finite(e, to)
  BY <1>4 DEF Finite
<1> QED
  BY <1>4, <1>5, <1>6 DEF Stepped, e, y, x

\* All that is read is whole, at one rate.
AllRead(d, from, id, rate) == \A s \in from : Holds(d.mem, s, id, rate, {})

LEMMA SteppedHolds ==
  ASSUME NEW d, Sound(d), NEW kernel, NEW to \in SUBSET TowerSlots, NEW from \in SUBSET TowerSlots,
         KernelOf(kernel, to, from), NEW at \in to, NEW fault, fault.at # at,
         NEW id \in Int, NEW rate \in Int, AllRead(d, from, id, rate), NEW s \in to
  PROVE  Holds(Stepped(d, kernel, to, at, fault).mem, s, id, rate + 1, {OffBand})
<1> DEFINE x == Launch(d, kernel)
           y == MarkedAs(x, to, OffBand)
           e == Overflown(y, at, fault)
<1>0. e = y
  BY DEF Overflown
<1>1. Sound(x) /\ x.mem = After(d.mem, kernel)
  <2>1. \A r \in kernel : \A q \in r.reads :
           /\ q.slot \in TowerSlots /\ q.sign \in {1, -1}
           /\ q.rate \in Int /\ r.raise \in Int
    BY KernelReads
  <2> QED
    BY <2>1, LaunchKeeps
<1>2. rate + 1 \in Int
  OBVIOUS
<1>3. ReadsHold(d.mem, kernel, s, id, rate + 1)
  <2>1. ASSUME NEW r \in kernel, NEW q \in r.reads
        PROVE  Holds(d.mem, q.slot, id, rate + 1 - r.raise + q.rate, {})
    <3>1. q.slot \in from /\ r.raise = 1 /\ q.rate = 0
      BY DEF KernelOf
    <3>2. rate + 1 - r.raise + q.rate = rate
      BY <3>1
    <3> QED
      BY <3>1, <3>2 DEF AllRead
  <2>2. 0 \in Int /\ 1 \in Int
    OBVIOUS
  <2> QED
    BY <2>1, <2>2 DEF ReadsHold, KernelOf
<1>4. s \in DOMAIN d.mem /\ s \in Written(kernel)
  BY DEF Sound, KernelOf
<1>5. Holds(x.mem, s, id, rate + 1, {})
  BY <1>1, <1>2, <1>3, <1>4, LaunchHolds
<1> HIDE DEF x
<1>6. \A i, r \in Int : Holds(x.mem, s, i, r, {}) => Holds(y.mem, s, i, r, {OffBand})
  BY <1>1, MarkedKeeps
<1> HIDE DEF y
<1>7. Holds(x.mem, s, id, rate + 1, {}) => Holds(y.mem, s, id, rate + 1, {OffBand})
  BY <1>2, <1>6
<1>8. Holds(y.mem, s, id, rate + 1, {OffBand})
  BY <1>5, <1>7
<1> QED
  BY <1>0, <1>8 DEF Stepped, y, x

LEMMA MasterStepIs ==
  ASSUME NEW l \in 0 .. 3
  PROVE  KernelOf(MasterStep(l), MasterLevel(l + 1), MasterLevel(l) \cup {Laplacian})
<1> DEFINE old == {Own("primary", <<f, l>>) : f \in MasterFields}
           p == {Own("primary", <<"Q", l>>), Own("primary", <<"psi", l>>), Own("laplacian", "psi")}
<1>1. MasterStep(l) = {RateTo("primary", <<"psi", l + 1>>, old),
                       RateTo("primary", <<"Q", l + 1>>, old), RateTo("primary", <<"P", l + 1>>, p)}
  BY DEF MasterStep
<1>2. MasterLevel(l + 1) = {MasterJet("psi", l + 1), MasterJet("Q", l + 1), MasterJet("P", l + 1)}
  BY DEF MasterLevel, MasterFields
<1>3. \A q \in old \cup p : /\ q.slot \in MasterLevel(l) \cup {Laplacian}
                            /\ q.sign \in {1, -1} /\ q.rate = 0
  BY DEF Own, MasterLevel, MasterJet, Laplacian, MasterFields
<1>4. old # {} /\ p # {}
  <2>1. Own("primary", <<"Q", l>>) \in old /\ Own("primary", <<"Q", l>>) \in p
    BY DEF MasterFields
  <2> QED
    BY <2>1
<1> HIDE DEF old, p
<1>5. \A r \in MasterStep(l) : r.raise = 1 /\ r.reads \in {old, p}
  BY <1>1 DEF RateTo
<1>6. Written(MasterStep(l)) = MasterLevel(l + 1)
  BY <1>1, <1>2 DEF Written, RateTo, MasterJet
<1> QED
  BY <1>3, <1>4, <1>5, <1>6 DEF KernelOf

MasterStepped(d, l, fault) ==
  Stepped(d, MasterStep(l), MasterLevel(l + 1), MasterJet("psi", l + 1), fault)

LEMMA AdvanceReady ==
  ASSUME NEW d, NEW l, NEW g, NEW fault,
         MasterReady(d, l, g), Finite(MasterStepped(d, l, fault), MasterLevel(l + 1))
  PROVE  AdvanceMaster(d, l, g, fault) =
           PublishMaster(MasterStepped(d, l, fault), OwnMaster(l + 1), l + 1, g, NextOrders(l + 1), TRUE)
  BY Zenon DEF AdvanceMaster, MasterStepped, Stepped, MasterLevel, PublishMaster

LEMMA AdvanceRefused ==
  ASSUME NEW d, NEW l, NEW g, NEW fault,
         ~(MasterReady(d, l, g) /\ Finite(MasterStepped(d, l, fault), MasterLevel(l + 1)))
  PROVE  AdvanceMaster(d, l, g, fault) =
           PublishMaster(MasterStepped(d, l, fault), OwnMaster(l + 1), l + 1, g, NextOrders(l + 1), FALSE)
  BY Zenon DEF AdvanceMaster, MasterStepped, Stepped, MasterLevel, PublishMaster

\* Whole if level l and the laplacian were, void otherwise.
\* The primary at the next level, as long as it was at this one.
Advanced(d, a, fault, id, l, g) ==
  \E c \in {"void", "marked"} :
    /\ MasterStands(d, c, id, l + 1, g, NextOrders(l + 1))
    /\ c = "marked" <=> (a = "inband" /\ fault.at # MasterJet("psi", l + 1))

LEMMA AdvanceMasterDone ==
  ASSUME NEW d, Sound(d), NEW l \in 0 .. 3, NEW g, NEW a \in {"void", "inband"}, NEW id \in Int,
         NEW fault, Located(fault), MasterStands(d, a, id, l, g, ProjectedPsiOrders(l)),
         a = "inband" => Group(d, {Laplacian}, "inband", id, l, GenerationToken(g), NextOrders(l)),
         a = "void" => ~AllBear(d, {Laplacian}, GenerationToken(g), NextOrders(l))
  PROVE  LET e == AdvanceMaster(d, l, g, fault)
         IN  /\ Sound(e) /\ Frame(d, e, {"current primary", "coefficients"}, {"primary"}, l + 1)
             /\ Advanced(e, a, fault, id, l, g)
<1>0. PICK k \in Levels : k = l + 1
  BY NextOf
<1> DEFINE T == GenerationToken(g)
           n == NextOrders(l)
           next == MasterLevel(k)
           kernel == MasterStep(l)
           at == MasterJet("psi", k)
           x == MasterStepped(d, l, fault)
           E(ready) == PublishMaster(x, OwnMaster(k), k, g, NextOrders(k), ready)
           views == {"current primary", "coefficients"}
           from == MasterLevel(l) \cup {Laplacian}
<1>1. /\ n \in Nat /\ n >= 1 /\ l \in Levels /\ l \in Int /\ k \in Int /\ OrdersAt(l) \in Nat
      /\ OrdersAt(l) >= 1 /\ 1 \in Nat /\ NextOrders(k) \in Nat /\ n >= n
  BY <1>0, NextOf, OrdersOf DEF NextOrders, Levels, TopLevel
<1>2. next \in SUBSET TowerSlots /\ from \in SUBSET TowerSlots /\ at \in next
  BY <1>1, MasterSlots, ScratchSlots DEF Laplacian, MasterLevel, MasterFields
<1>3. KernelOf(kernel, next, from)
  BY <1>0, MasterStepIs
<1>4. x = Stepped(d, kernel, next, at, fault)
  BY <1>0 DEF MasterStepped
<1>5. /\ MasterReady(d, l, g) /\ Finite(x, next) => AdvanceMaster(d, l, g, fault) = E(TRUE)
      /\ ~(MasterReady(d, l, g) /\ Finite(x, next)) => AdvanceMaster(d, l, g, fault) = E(FALSE)
  BY <1>0, AdvanceReady, AdvanceRefused
<1> HIDE DEF T, n, next, kernel, at, x, from
<1>6. /\ Sound(x) /\ Same(d, x, TowerSlots \ next)
      /\ fault.at = at => ~Finite(x, next)
  BY <1>2, <1>3, <1>4, SteppedKeeps
<1>7. Frame(d, x, views, {"primary"}, k)
  <2>1. Touched(next, views, {"primary"}, k)
    BY LevelTouched DEF Touched, Apart, next
  <2> QED
    BY <1>6, <2>1, FrameOf
<1>8. CASE a = "inband" /\ fault.at # at
  <2>1. "marked" \in Kinds \ {"void"} /\ "inband" \in Kinds \ {"void"} /\ Extra("marked") = {OffBand}
        /\ Extra("inband") = {} /\ {OffBand} \in Extras
    BY DEF Kinds, Extra, Extras
  <2>2. /\ Group(d, MasterLevel(l), "inband", id, l, T, OrdersAt(l))
        /\ Group(d, {Laplacian}, "inband", id, l, T, n)
    BY <1>8 DEF MasterStands, T, n
  <2>3. AllRead(d, from, id, l)
    BY <2>1, <2>2, HoldsOf, SMTT(40) DEF AllRead, from
  <2>4. \A s \in next : Holds(x.mem, s, id, k, {OffBand})
    BY <1>0, <1>1, <1>2, <1>3, <1>4, <1>8, <2>3, SteppedHolds
  <2>5. MasterReady(d, l, g)
    <3>1. AllBear(d, MasterLevel(l), T, 1)
      BY <1>1, <2>1, <2>2, GroupReady
    <3>2. AllBear(d, {Laplacian}, T, n) /\ Finite(d, {Laplacian})
      BY <1>1, <2>1, <2>2, GroupReady
    <3>3. MasterJet("psi", l) \in MasterLevel(l)
      BY DEF MasterLevel, MasterFields
    <3> QED
      BY <3>1, <3>2, <3>3 DEF MasterReady, LevelStamped, AllBear, Laplacian, T, n
  <2>6. Finite(x, next)
    BY <1>1, <2>1, <2>4, HoldsFinite DEF Finite
  <2>7. FieldsHold(x, OwnMaster(k), MasterFields, "marked", id, k)
    BY <1>2, <2>1, <2>4 DEF FieldsHold, OwnMaster, MasterLevel, next
  <2>8. /\ Sound(E(TRUE)) /\ MasterStands(E(TRUE), "marked", id, k, g, NextOrders(k))
        /\ Frame(x, E(TRUE), views, {"primary"}, k)
    BY <1>1, <1>6, <2>1, <2>7, PublishMasterReady
  <2>9. Frame(d, E(TRUE), views, {"primary"}, k)
    BY <1>7, <2>8, FrameThen
  <2>10. AdvanceMaster(d, l, g, fault) = E(TRUE)
    BY <1>5, <2>5, <2>6
  <2> HIDE DEF E
  <2> QED
    BY <1>0, <1>8, <2>8, <2>9, <2>10 DEF at, Advanced
<1>9. CASE ~(a = "inband" /\ fault.at # at)
  <2>1. ~(MasterReady(d, l, g) /\ Finite(x, next))
    <3>1. CASE fault.at = at
      BY <1>6, <3>1
    <3>2. CASE a # "inband"
      BY <3>2 DEF MasterReady, Laplacian, T, n
    <3> QED
      BY <1>9, <3>1, <3>2
  <2>8. /\ Sound(E(FALSE)) /\ MasterStands(E(FALSE), "void", id, k, g, NextOrders(k))
        /\ Frame(x, E(FALSE), views, {"primary"}, k)
    BY <1>1, <1>6, PublishMasterRefused
  <2>9. Frame(d, E(FALSE), views, {"primary"}, k)
    BY <1>7, <2>8, FrameThen
  <2>10. AdvanceMaster(d, l, g, fault) = E(FALSE)
    BY <1>5, <2>1
  <2> HIDE DEF E
  <2> QED
    BY <1>0, <1>9, <2>8, <2>9, <2>10 DEF at, Advanced
<1> QED
  BY <1>8, <1>9

-----------------------------------------------------------------------------
(* The launch of a pass *)

EthSlot == <<"angular", "eth">>
Pass3Slots == {"pass3"} \X {"ethC", "ethPi", "ethPrimeBSharp", "ethPrimeCSharp"}
\* The slots a pass reads beside those of the level it starts from.
PassTerms == <<{Captured, EthSlot}, {EthSlot}, Pass3Slots>>
PassAt(pass, l) == MetricJet(<<"G", "C", "U">>[pass], l + 1)
NextVoid(d, l) ==
  \A fields \in SUBSET MetricFields : \A t, i : NextStands(d, fields, t, "void", i, l)

LEMMA PassTermSlots ==
  \A pass \in 1 .. 3 : PassTerms[pass] \in SUBSET TowerSlots
<1>1. {Captured, EthSlot} \in SUBSET TowerSlots
  BY ScratchSlots DEF Captured, EthSlot
<1>2. Pass3Slots \in SUBSET TowerSlots
  BY ScratchSlots DEF Pass3Slots, ViewOf
<1> QED
  BY <1>1, <1>2 DEF PassTerms

LEMMA LowerReads ==
  ASSUME NEW fields \in SUBSET MetricFields, NEW l
  PROVE  \A q \in Lower(fields, l) : q.slot \in MetricLevel(l) /\ q.sign = 1 /\ q.rate = 0
  BY DEF Lower, Own, MetricLevel, MetricJet

LEMMA Pass1KernelIs ==
  ASSUME NEW l \in 0 .. 3
  PROVE  KernelOf(PassKernel(1, l), FieldJets(PassFields[1], l + 1), MetricLevel(l) \cup PassTerms[1])
<1> DEFINE psi4 == Own(Captured[1], Captured[2])
           eth == Own("angular", "eth")
           r1 == Lower({"G"}, l) \cup {psi4, eth}
           r2 == Lower({"Lambda"}, l) \cup {psi4}
<1>1. PassKernel(1, l) = {RateTo("h", <<"G", l + 1>>, r1), RateTo("h", <<"Lambda", l + 1>>, r2)}
  BY DEF PassKernel
<1>2. FieldJets(PassFields[1], l + 1) = {MetricJet("G", l + 1), MetricJet("Lambda", l + 1)}
  BY DEF FieldJets, PassFields
<1>3. /\ psi4.slot = Captured /\ psi4.sign = 1 /\ psi4.rate = 0
      /\ eth.slot = EthSlot /\ eth.sign = 1 /\ eth.rate = 0
  BY DEF Own, Captured, EthSlot
<1>4. {"G"} \in SUBSET MetricFields /\ {"Lambda"} \in SUBSET MetricFields
  BY DEF MetricFields
<1>5. PassTerms[1] = {Captured, EthSlot}
  BY DEF PassTerms
<1>6. psi4 \in r1 /\ psi4 \in r2
  OBVIOUS
<1>7. \A q \in r1 \cup r2 : q.slot \in MetricLevel(l) \cup PassTerms[1] /\ q.sign = 1 /\ q.rate = 0
  <2>1. \A q \in Lower({"G"}, l) : q.slot \in MetricLevel(l) /\ q.sign = 1 /\ q.rate = 0
    BY <1>4, LowerReads
  <2>2. \A q \in Lower({"Lambda"}, l) : q.slot \in MetricLevel(l) /\ q.sign = 1 /\ q.rate = 0
    BY <1>4, LowerReads
  <2> HIDE DEF psi4, eth
  <2> QED
    BY <1>3, <1>5, <2>1, <2>2
<1> HIDE DEF r1, r2, psi4, eth
<1>8. \A r \in PassKernel(1, l) : r.raise = 1 /\ r.reads \in {r1, r2}
  BY <1>1 DEF RateTo
<1>9. Written(PassKernel(1, l)) = FieldJets(PassFields[1], l + 1)
  <2>1. RateTo("h", <<"G", l + 1>>, r1).slot = MetricJet("G", l + 1)
    BY DEF RateTo, MetricJet
  <2>2. RateTo("h", <<"Lambda", l + 1>>, r2).slot = MetricJet("Lambda", l + 1)
    BY DEF RateTo, MetricJet
  <2> QED
    BY <1>1, <1>2, <2>1, <2>2 DEF Written
<1>10. r1 # {} /\ r2 # {}
  BY <1>6
<1> QED
  BY <1>7, <1>8, <1>9, <1>10 DEF KernelOf

LEMMA Pass2KernelIs ==
  ASSUME NEW l \in 0 .. 3
  PROVE  KernelOf(PassKernel(2, l), FieldJets(PassFields[2], l + 1), MetricLevel(l) \cup PassTerms[2])
<1> DEFINE eth == Own("angular", "eth")
           r1 == Lower({"H", "G"}, l) \cup {eth}
           r2 == Lower({"B", "Lambda"}, l)
           r3 == Lower({"Pi", "G", "Lambda", "B"}, l)
           r4 == Lower({"C", "Pi", "B"}, l)
<1>1. PassKernel(2, l) = {RateTo("h", <<"H", l + 1>>, r1), RateTo("h", <<"B", l + 1>>, r2),
                          RateTo("h", <<"Pi", l + 1>>, r3), RateTo("h", <<"C", l + 1>>, r4)}
  BY DEF PassKernel
<1>2. FieldJets(PassFields[2], l + 1) = {MetricJet("H", l + 1), MetricJet("B", l + 1),
                                         MetricJet("Pi", l + 1), MetricJet("C", l + 1)}
  BY DEF FieldJets, PassFields
<1>3. eth.slot = EthSlot /\ eth.sign = 1 /\ eth.rate = 0
  BY DEF Own, EthSlot
<1>4. /\ {"H", "G"} \in SUBSET MetricFields /\ {"B", "Lambda"} \in SUBSET MetricFields
      /\ {"Pi", "G", "Lambda", "B"} \in SUBSET MetricFields
      /\ {"C", "Pi", "B"} \in SUBSET MetricFields
  BY DEF MetricFields
<1>5. PassTerms[2] = {EthSlot}
  BY DEF PassTerms
<1>6. /\ eth \in r1 /\ Own("h", <<"B", l>>) \in r2 /\ Own("h", <<"B", l>>) \in r3
      /\ Own("h", <<"B", l>>) \in r4
  BY DEF Lower
<1>7. \A q \in r1 \cup r2 \cup r3 \cup r4 :
         q.slot \in MetricLevel(l) \cup PassTerms[2] /\ q.sign = 1 /\ q.rate = 0
  <2>1. \A q \in Lower({"H", "G"}, l) : q.slot \in MetricLevel(l) /\ q.sign = 1 /\ q.rate = 0
    BY <1>4, LowerReads
  <2>2. \A q \in r2 : q.slot \in MetricLevel(l) /\ q.sign = 1 /\ q.rate = 0
    BY <1>4, LowerReads
  <2>3. \A q \in r3 : q.slot \in MetricLevel(l) /\ q.sign = 1 /\ q.rate = 0
    BY <1>4, LowerReads
  <2>4. \A q \in r4 : q.slot \in MetricLevel(l) /\ q.sign = 1 /\ q.rate = 0
    BY <1>4, LowerReads
  <2> HIDE DEF r2, r3, r4, eth
  <2> QED
    BY <1>3, <1>5, <2>1, <2>2, <2>3, <2>4
<1> HIDE DEF r1, r2, r3, r4, eth
<1>8. \A r \in PassKernel(2, l) : r.raise = 1 /\ r.reads \in {r1, r2, r3, r4}
  BY <1>1 DEF RateTo
<1>9. Written(PassKernel(2, l)) = FieldJets(PassFields[2], l + 1)
  <2>1. RateTo("h", <<"H", l + 1>>, r1).slot = MetricJet("H", l + 1)
    BY DEF RateTo, MetricJet
  <2>2. RateTo("h", <<"B", l + 1>>, r2).slot = MetricJet("B", l + 1)
    BY DEF RateTo, MetricJet
  <2>3. RateTo("h", <<"Pi", l + 1>>, r3).slot = MetricJet("Pi", l + 1)
    BY DEF RateTo, MetricJet
  <2>4. RateTo("h", <<"C", l + 1>>, r4).slot = MetricJet("C", l + 1)
    BY DEF RateTo, MetricJet
  <2> QED
    BY <1>1, <1>2, <2>1, <2>2, <2>3, <2>4 DEF Written
<1>10. r1 # {} /\ r2 # {} /\ r3 # {} /\ r4 # {}
  BY <1>6
<1> QED
  BY <1>7, <1>8, <1>9, <1>10 DEF KernelOf

LEMMA Pass3KernelIs ==
  ASSUME NEW l \in 0 .. 3
  PROVE  KernelOf(PassKernel(3, l), FieldJets(PassFields[3], l + 1), MetricLevel(l) \cup PassTerms[3])
<1> DEFINE own == Lower({"U", "C", "Pi", "H"}, l)
           sharp == {Sharp("h", <<f, l>>) : f \in {"Pi", "B", "C"}}
           terms == {Own("pass3", a) : a \in {"ethC", "ethPi", "ethPrimeBSharp", "ethPrimeCSharp"}}
           r1 == own \cup sharp \cup terms
<1>1. PassKernel(3, l) = {RateTo("h", <<"U", l + 1>>, r1)}
  BY DEF PassKernel
<1>2. FieldJets(PassFields[3], l + 1) = {MetricJet("U", l + 1)}
  BY DEF FieldJets, PassFields
<1>3. \A q \in sharp : q.slot \in MetricLevel(l) /\ q.sign = -1 /\ q.rate = 0
  BY DEF Sharp, MetricLevel, MetricJet, MetricFields
<1>4. {"U", "C", "Pi", "H"} \in SUBSET MetricFields
  BY DEF MetricFields
<1>5. PassTerms[3] = Pass3Slots
  BY DEF PassTerms
<1>6. Own("h", <<"U", l>>) \in r1
  BY DEF Lower
<1>11. \A q \in terms : q.slot \in Pass3Slots /\ q.sign = 1 /\ q.rate = 0
  BY DEF Own, Pass3Slots
<1>12. \A q \in own : q.slot \in MetricLevel(l) /\ q.sign = 1 /\ q.rate = 0
  BY <1>4, LowerReads
<1> HIDE DEF own, sharp, terms
<1>7. \A q \in r1 : q.slot \in MetricLevel(l) \cup PassTerms[3] /\ q.sign \in {1, -1} /\ q.rate = 0
  BY <1>3, <1>5, <1>11, <1>12
<1> HIDE DEF r1
<1>8. \A r \in PassKernel(3, l) : r.raise = 1 /\ r.reads = r1
  BY <1>1 DEF RateTo
<1>9. Written(PassKernel(3, l)) = FieldJets(PassFields[3], l + 1)
  <2>1. RateTo("h", <<"U", l + 1>>, r1).slot = MetricJet("U", l + 1)
    BY DEF RateTo, MetricJet
  <2> QED
    BY <1>1, <1>2, <2>1 DEF Written
<1>10. r1 # {}
  BY <1>6
<1> QED
  BY <1>7, <1>8, <1>9, <1>10 DEF KernelOf

LEMMA PassKernelIs ==
  ASSUME NEW pass \in 1 .. 3, NEW l \in 0 .. 3
  PROVE  /\ KernelOf(PassKernel(pass, l), FieldJets(PassFields[pass], l + 1),
                     MetricLevel(l) \cup PassTerms[pass])
         /\ PassAt(pass, l) \in FieldJets(PassFields[pass], l + 1)
<1>1. pass = 1 \/ pass = 2 \/ pass = 3
  OBVIOUS
<1>2. KernelOf(PassKernel(pass, l), FieldJets(PassFields[pass], l + 1),
               MetricLevel(l) \cup PassTerms[pass])
  BY <1>1, Pass1KernelIs, Pass2KernelIs, Pass3KernelIs
<1>3. <<"G", "C", "U">>[pass] \in PassFields[pass]
  BY <1>1 DEF PassFields
<1> QED
  BY <1>2, <1>3 DEF PassAt, FieldJets

Passed(d, pass, l, fault) ==
  Stepped(d, PassKernel(pass, l), FieldJets(PassFields[pass], l + 1), PassAt(pass, l), fault)
PassFrom(pass, l) == [f \in PassFields[pass] |-> MetricJet(f, l + 1)]

LEMMA LaunchReady ==
  ASSUME NEW d, NEW pass, NEW l, NEW g, NEW fault, NEW ready, ready,
         Finite(Passed(d, pass, l, fault), FieldJets(PassFields[pass], l + 1))
  PROVE  LaunchPass(d, pass, l, g, ready, fault) =
           PublishNext(Passed(d, pass, l, fault), PassFrom(pass, l), l, PassToken(g, l, pass), TRUE)
  BY Zenon DEF LaunchPass, Passed, Stepped, FieldJets, PassAt, PassFrom, PublishNext

LEMMA LaunchRefusal ==
  ASSUME NEW d, NEW pass, NEW l, NEW g, NEW fault, NEW ready,
         ~(ready /\ Finite(Passed(d, pass, l, fault), FieldJets(PassFields[pass], l + 1)))
  PROVE  LaunchPass(d, pass, l, g, ready, fault) =
           PublishNext(Passed(d, pass, l, fault), PassFrom(pass, l), l, PassToken(g, l, pass), FALSE)
  BY Zenon DEF LaunchPass, Passed, Stepped, FieldJets, PassAt, PassFrom, PublishNext

LEMMA PassJets ==
  ASSUME NEW pass \in 1 .. 3, NEW l \in 0 .. 3
  PROVE  /\ FieldJets(PassFields[pass], l + 1) \in SUBSET TowerSlots
         /\ \A s \in FieldJets(PassFields[pass], l + 1) :
              s[1] = "h" /\ s[2][2] = l + 1 /\ s[2][1] \in PassFields[pass]
         /\ MetricLevel(l) \cup PassTerms[pass] \in SUBSET TowerSlots
<1>0. PICK k \in Levels : k = l + 1
  BY NextOf
<1>1. l \in Levels /\ PassFields[pass] \in SUBSET MetricFields
  BY NextOf, PassFieldsAre
<1>2. /\ FieldJets(PassFields[pass], k) \in SUBSET TowerSlots
      /\ \A s \in FieldJets(PassFields[pass], k) :
              s[1] = "h" /\ s[2][2] = k /\ s[2][1] \in PassFields[pass]
  BY <1>1, FieldSlots
<1>3. MetricLevel(l) \cup PassTerms[pass] \in SUBSET TowerSlots
  BY <1>1, MetricSlots, PassTermSlots
<1> QED
  BY <1>0, <1>2, <1>3

LEMMA LaunchWhole ==
  ASSUME NEW d, Sound(d), NEW pass \in 1 .. 3, NEW l \in 0 .. 3, NEW g, NEW fault, Located(fault),
         fault.at # PassAt(pass, l), NEW ready, ready, NEW id \in Int,
         AllRead(d, MetricLevel(l) \cup PassTerms[pass], id, l)
  PROVE  LET e == LaunchPass(d, pass, l, g, ready, fault)
         IN  /\ Sound(e) /\ NextStands(e, PassFields[pass], PassToken(g, l, pass), "marked", id, l)
             /\ Between(d, e, {}, PassFields[pass], l + 1)
<1> DEFINE F == PassFields[pass]
           to == FieldJets(F, l + 1)
           from == MetricLevel(l) \cup PassTerms[pass]
           x == Passed(d, pass, l, fault)
           T == PassToken(g, l, pass)
           e == PublishNext(x, PassFrom(pass, l), l, T, TRUE)
           at == PassAt(pass, l)
<1>1. /\ to \in SUBSET TowerSlots /\ from \in SUBSET TowerSlots /\ F \in SUBSET MetricFields
      /\ \A s \in to : s[1] = "h" /\ s[2][2] = l + 1 /\ s[2][1] \in F
  BY PassJets, PassFieldsAre
<1>2. KernelOf(PassKernel(pass, l), to, from) /\ at \in to
  BY PassKernelIs
<1>3. x = Stepped(d, PassKernel(pass, l), to, at, fault)
  BY DEF Passed
<1>4. Finite(x, to) => LaunchPass(d, pass, l, g, ready, fault) = e
  BY LaunchReady
<1>5. l \in Int /\ l + 1 \in Int
  OBVIOUS
<1>10. /\ DOMAIN PassFrom(pass, l) = F
       /\ \A f \in F : PassFrom(pass, l)[f] = MetricJet(f, l + 1) /\ MetricJet(f, l + 1) \in to
  BY DEF PassFrom, FieldJets
<1> HIDE DEF F, to, from, x, T, at
<1>6. /\ Sound(x) /\ Same(d, x, TowerSlots \ to)
  BY <1>1, <1>2, <1>3, SteppedKeeps
<1>7. \A s \in to : Holds(x.mem, s, id, l + 1, {OffBand})
  <2>1. AllRead(d, from, id, l) /\ fault.at # at
    BY DEF from, at
  <2> QED
    BY <1>1, <1>2, <1>3, <1>5, <2>1, SteppedHolds
<1>8. "marked" \in Kinds \ {"void"} /\ Extra("marked") = {OffBand} /\ {OffBand} \in Extras
  BY DEF Kinds, Extra, Extras
<1>9. Finite(x, to)
  BY <1>5, <1>7, <1>8, HoldsFinite DEF Finite
<1>11. FieldsHold(x, PassFrom(pass, l), F, "marked", id, l + 1)
  BY <1>1, <1>7, <1>8, <1>10 DEF FieldsHold
<1>12. /\ Sound(e) /\ NextStands(e, F, T, "marked", id, l)
       /\ Same(x, e, TowerSlots \ (FieldJets(F, l + 1) \cup ViewOf("next", F)))
  BY <1>1, <1>6, <1>8, <1>11, PublishNextReady
<1> HIDE DEF e
<1>13. Same(d, e, TowerSlots \ (to \cup ViewOf("next", F)))
  BY <1>6, <1>12 DEF Same, to
<1>14. \A s \in to \cup ViewOf("next", F) : ~Aside(s, {}, F, l + 1)
  <2>1. \A s \in ViewOf("next", F) : s[1] = "next" /\ s[2] \in F
    BY DEF ViewOf
  <2> QED
    BY <1>1, <2>1 DEF Aside
<1>15. Between(d, e, {}, F, l + 1)
  BY <1>13, <1>14, BetweenOf
<1> QED
  BY <1>4, <1>9, <1>12, <1>15 DEF F, T

LEMMA LaunchVoid ==
  ASSUME NEW d, Sound(d), NEW pass \in 1 .. 3, NEW l \in 0 .. 3, NEW g, NEW fault, Located(fault),
         NEW ready, fault.at = PassAt(pass, l) \/ ~ready
  PROVE  LET e == LaunchPass(d, pass, l, g, ready, fault)
         IN  /\ Sound(e) /\ NextVoid(e, l) /\ Frame(d, e, {"next"}, {"h"}, l + 1)
<1> DEFINE F == PassFields[pass]
           to == FieldJets(F, l + 1)
           from == MetricLevel(l) \cup PassTerms[pass]
           x == Passed(d, pass, l, fault)
           T == PassToken(g, l, pass)
           e == PublishNext(x, PassFrom(pass, l), l, T, FALSE)
           at == PassAt(pass, l)
<1>1. /\ to \in SUBSET TowerSlots /\ from \in SUBSET TowerSlots
      /\ \A s \in to : s[1] = "h" /\ s[2][2] = l + 1
  BY PassJets
<1>2. KernelOf(PassKernel(pass, l), to, from) /\ at \in to
  BY PassKernelIs
<1>3. x = Stepped(d, PassKernel(pass, l), to, at, fault)
  BY DEF Passed
<1>4. ~(ready /\ Finite(x, to)) => LaunchPass(d, pass, l, g, ready, fault) = e
  BY LaunchRefusal
<1>5. fault.at = at \/ ~ready
  OBVIOUS
<1> HIDE DEF F, to, from, x, T, at
<1>6. /\ Sound(x) /\ Same(d, x, TowerSlots \ to)
      /\ fault.at = at => ~Finite(x, to)
  BY <1>1, <1>2, <1>3, SteppedKeeps
<1>7. LaunchPass(d, pass, l, g, ready, fault) = e
  BY <1>4, <1>5, <1>6
<1>8. /\ Sound(e) /\ Frame(x, e, {"next"}, {"h"}, l + 1)
      /\ \A fields \in SUBSET MetricFields : \A t, i : NextStands(e, fields, t, "void", i, l)
  BY <1>6, PublishNextRefused
<1>9. Frame(d, x, {"next"}, {"h"}, l + 1)
  <2>1. Touched(to, {"next"}, {"h"}, l + 1)
    BY <1>1 DEF Touched, Apart
  <2> QED
    BY <1>6, <2>1, FrameOf
<1> HIDE DEF e
<1>10. Frame(d, e, {"next"}, {"h"}, l + 1)
  BY <1>8, <1>9, FrameThen
<1> QED
  BY <1>7, <1>8, <1>10 DEF NextVoid

-----------------------------------------------------------------------------
(* Between the towers *)

\* What the passes start from: psi_l as captured, the primary at the next level and
\* the metric at this one.
Ground(d, a, c, b, id, l, g) ==
  /\ Sound(d)
  /\ Group(d, {Captured}, a, id, l, GenerationToken(g), ProjectedPsiOrders(l))
  /\ MasterStands(d, c, id, l + 1, g, ProjectedPsiOrders(l + 1))
  /\ MetricStands(d, b, id, l, g)
  /\ {a, b, c} \subseteq {"void", "inband"} /\ (c = "inband" => a = "inband")
SparesGround(views) ==
  \A v \in {"snapshot", "primary", "current primary", "coefficients", "h", "current"} : v \notin views

LEMMA GroundKept ==
  ASSUME NEW d, NEW e, Sound(e), NEW l \in 0 .. 3, NEW views, SparesGround(views),
         Frame(d, e, views, {"h"}, l + 1), NEW a, NEW c, NEW b, NEW id, NEW g,
         Ground(d, a, c, b, id, l, g)
  PROVE  Ground(e, a, c, b, id, l, g)
<1>0. PICK k \in Levels : k = l + 1
  BY NextOf
<1>1. l \in Levels /\ k # l
  BY <1>0, NextOf
<1>2. SparesMaster(views, {"h"}) /\ SparesMetric(views, {"h"}, k, l)
  BY <1>1 DEF SparesGround, SparesMaster, SparesMetric
<1>3. Frame(d, e, views, {"h"}, k)
  BY <1>0
<1>4. MasterStands(e, c, id, k, g, ProjectedPsiOrders(k))
  BY <1>0, <1>2, <1>3, MasterKept DEF Ground
<1>5. MetricStands(e, b, id, l, g)
  BY <1>1, <1>2, <1>3, MetricKept DEF Ground
<1>6. Group(e, {Captured}, a, id, l, GenerationToken(g), ProjectedPsiOrders(l))
  <2>1. Clear({Captured}, views, {"h"}, k)
    <3>1. \A s \in {Captured} : s[1] = "snapshot"
      BY DEF Captured
    <3>2. "snapshot" \notin views /\ "snapshot" \notin {"h"}
      BY DEF SparesGround
    <3> QED
      BY <3>1, <3>2 DEF Clear, Apart
  <2>2. {Captured} \in SUBSET TowerSlots
    BY ScratchSlots DEF Captured
  <2>3. Group(d, {Captured}, a, id, l, GenerationToken(g), ProjectedPsiOrders(l))
    BY DEF Ground
  <2> QED
    BY <1>3, <2>1, <2>2, <2>3, GroupFrame
<1> QED
  BY <1>0, <1>4, <1>5, <1>6 DEF Ground

\* What is found of slots and of the level beneath.
LEMMA ExternalFound ==
  ASSUME NEW d, NEW slots, NEW l \in 0 .. 3, NEW g, NEW id \in Int, NEW token, NEW has \in Nat,
         has >= NextOrders(l), Group(d, slots, "inband", id, l, token, has),
         MetricStands(d, "inband", id, l, g)
  PROVE  ExternalReady(d, slots, l, g, token)
<1>1. /\ l \in Levels /\ l \in Int /\ OrdersAt(l) \in Nat /\ OrdersAt(l) >= 1 /\ 1 \in Nat
      /\ NextOrders(l) \in Nat
  BY NextOf, OrdersOf
<1>2. "inband" \in Kinds \ {"void"}
  BY DEF Kinds
<1>3. AllBear(d, slots, token, NextOrders(l)) /\ Finite(d, slots)
  BY <1>1, <1>2, GroupReady
<1>4. Group(d, MetricLevel(l), "inband", id, l, GenerationToken(g), OrdersAt(l))
  BY DEF MetricStands
<1>5. AllBear(d, MetricLevel(l), GenerationToken(g), 1)
  BY <1>1, <1>2, <1>4, GroupReady
<1>6. MetricJet("U", l) \in MetricLevel(l)
  BY DEF MetricLevel, MetricFields
<1> QED
  BY <1>3, <1>5, <1>6 DEF ExternalReady, LevelStamped, AllBear

LEMMA ExternalVoid ==
  ASSUME NEW d, NEW slots, NEW l \in 0 .. 3, NEW g, NEW id, NEW token,
         MetricStands(d, "void", id, l, g)
  PROVE  ~ExternalReady(d, slots, l, g, token)
<1>1. Group(d, MetricLevel(l), "void", id, l, GenerationToken(g), OrdersAt(l))
  BY DEF MetricStands
<1>2. MetricJet("U", l) \in MetricLevel(l)
  BY DEF MetricLevel, MetricFields
<1>3. Group(d, {MetricJet("U", l)}, "void", id, l, GenerationToken(g), OrdersAt(l))
  BY <1>1, <1>2 DEF Group
<1>4. 1 \in Nat /\ 1 >= 1
  OBVIOUS
<1>5. ~AllBear(d, {MetricJet("U", l)}, GenerationToken(g), 1)
  BY <1>3, <1>4, VoidRefused
<1> QED
  BY <1>5 DEF ExternalReady, LevelStamped

-----------------------------------------------------------------------------
(* Pass 1 *)

Psi == <<"coefficients", "psi">>
Pass1Of == [s \in {EthSlot} |-> [value |-> Captured, dt |-> {Dt("coefficients", "psi")}]]
Pass1From(g) == [s \in {EthSlot} |-> {Source(Captured, GenerationToken(g)), Source(Psi, GenerationToken(g))}]
Pass1Row(d, l, g, fault) ==
  RowsStamped(Overflown(Angular(Cleared(d, {EthSlot}), Pass1Of), EthSlot, fault), Pass1From(g),
              NextOrders(l), PassToken(g, l, 1))
Pass1Begun(d, l, g, fault) == Cleared(Pass1Row(d, l, g, fault), ViewOf("next", MetricFields))
Pass1Ready(d, l, g) ==
  /\ ExternalReady(d, {Captured}, l, g, GenerationToken(g))
  /\ ExternalReady(d, {EthSlot}, l, g, PassToken(g, l, 1))

LEMMA Pass1Is ==
  ASSUME NEW d, NEW l, NEW g, NEW fault
  PROVE  Pass1(d, l, g, fault) =
           LaunchPass(Pass1Begun(d, l, g, fault), 1, l, g,
                      Pass1Ready(Pass1Begun(d, l, g, fault), l, g), fault)
<1>1. <<"coefficients", "psi">>[1] = "coefficients" /\ <<"coefficients", "psi">>[2] = "psi"
  OBVIOUS
<1> QED
  BY <1>1, Zenon DEF Pass1, Pass1Begun, Pass1Row, Pass1Of, Pass1From, Pass1Ready, EthSlot, Psi, ViewOf

LEMMA Pass1Terms ==
  /\ DOMAIN Pass1Of = {EthSlot} /\ {EthSlot} \subseteq TowerSlots /\ AngularReads(Pass1Of)
  /\ Pass1Of[EthSlot].value = Captured
  /\ Pass1Of[EthSlot].dt = {Dt("coefficients", "psi")}
  /\ Dt("coefficients", "psi").slot = Psi /\ Dt("coefficients", "psi").rate = 1
  /\ \A g : /\ DOMAIN Pass1From(g) = {EthSlot}
            /\ Pass1From(g)[EthSlot] = {Source(Captured, GenerationToken(g)), Source(Psi, GenerationToken(g))}
  /\ Captured \in TowerSlots \ {EthSlot} /\ Psi \in TowerSlots \ {EthSlot} /\ EthSlot \in TowerSlots
<1>1. /\ Captured \in TowerSlots \ {EthSlot} /\ Psi \in TowerSlots \ {EthSlot} /\ EthSlot \in TowerSlots
  BY ScratchSlots, MasterSlots DEF Captured, EthSlot, Psi, Coefficients
<1>2. Dt("coefficients", "psi").slot = Psi /\ Dt("coefficients", "psi").rate = 1
      /\ Dt("coefficients", "psi").sign = 1
  BY DEF Dt, Psi
<1>3. Captured = <<Captured[1], Captured[2]>> /\ EthSlot = <<EthSlot[1], EthSlot[2]>>
  BY DEF Captured, EthSlot
<1>4. /\ DOMAIN Pass1Of = {EthSlot} /\ Pass1Of[EthSlot].value = Captured
      /\ Pass1Of[EthSlot].dt = {Dt("coefficients", "psi")}
  BY DEF Pass1Of
<1>5. AngularReads(Pass1Of)
  BY <1>1, <1>2, <1>3, <1>4 DEF AngularReads
<1> QED
  BY <1>1, <1>2, <1>4, <1>5 DEF Pass1From

\* The source of eth F: whole only if the primary is at both levels.
LEMMA Pass1RowDone ==
  ASSUME NEW d, NEW l \in 0 .. 3, NEW g, NEW fault, Located(fault), NEW id \in Int,
         NEW a, NEW c, NEW b, Ground(d, a, c, b, id, l, g)
  PROVE  LET e == Pass1Row(d, l, g, fault)
         IN  /\ Sound(e) /\ Same(d, e, TowerSlots \ {EthSlot})
             /\ IF c = "inband" /\ fault.at # EthSlot
                THEN Group(e, {EthSlot}, "inband", id, l, PassToken(g, l, 1), NextOrders(l))
                ELSE ~AllBear(e, {EthSlot}, PassToken(g, l, 1), NextOrders(l))
<1>0. PICK k \in Levels : k = l + 1
  BY NextOf
<1> DEFINE T == PassToken(g, l, 1)
           G == GenerationToken(g)
           n == NextOrders(l)
           x0 == Cleared(d, {EthSlot})
           x1 == Angular(x0, Pass1Of)
           x2 == Overflown(x1, EthSlot, fault)
           e == RowsStamped(x2, Pass1From(g), n, T)
<1>1. /\ n \in Nat /\ n >= 1 /\ l \in Levels /\ l \in Int /\ l + 1 \in Int
      /\ ProjectedPsiOrders(l) \in Nat /\ ProjectedPsiOrders(l) >= n
      /\ ProjectedPsiOrders(k) \in Nat /\ ProjectedPsiOrders(k) >= n
  BY <1>0, NextOf, ProjectedOrders, OrdersOf DEF TopLevel, ProjectedPsiOrders, NextOrders, OrdersAt
<1>2. Pass1Row(d, l, g, fault) = e
  BY DEF Pass1Row
<1>3. /\ Sound(d) /\ a \in {"void", "inband"} /\ c \in {"void", "inband"}
      /\ (c = "inband" => a = "inband")
      /\ HasKind(d, Captured, a, id, l, G, ProjectedPsiOrders(l))
      /\ HasKind(d, Psi, c, id, l + 1, G, ProjectedPsiOrders(k))
  <2>1. ProjectedPsiOrders(k) >= 1
    BY <1>1
  <2> QED
    BY <1>0, <2>1 DEF Ground, Group, MasterStands, Coefficients, Psi
<1> HIDE DEF T, G, n
<1>4. Sound(x0) /\ Same(d, x0, TowerSlots \ {EthSlot})
  BY <1>3, ClearedKeeps
<1> HIDE DEF x0
<1>5. /\ HasKind(x0, Captured, a, id, l, G, ProjectedPsiOrders(l))
      /\ HasKind(x0, Psi, c, id, l + 1, G, ProjectedPsiOrders(k))
  BY <1>3, <1>4, Pass1Terms, KindSame DEF Same
<1>6. AngularInBand(x0, Pass1Of)
  <2>1. CASE a = "void"
    BY <1>5, <2>1, Pass1Terms DEF AngularInBand, Void, HasKind
  <2>2. CASE a = "inband"
    <3>1. {} \in Extras /\ Holds(x0.mem, Captured, id, l, {})
      BY <1>5, <2>2 DEF Extras, HasKind, Extra
    <3>2. \A m \in Modes : OffBand \notin x0.mem[Captured][m]
      BY <1>1, <3>1, HoldsFinite
    <3> QED
      BY <3>2, Pass1Terms DEF AngularInBand
  <2> QED
    BY <1>3, <2>1, <2>2
<1>7. Sound(x1) /\ Same(x0, x1, TowerSlots \ {EthSlot}) /\ x1.stamp = x0.stamp
  BY <1>4, <1>6, Pass1Terms, AngularKeeps
<1>8. /\ Sound(x2) /\ Same(x1, x2, TowerSlots \ {EthSlot})
      /\ x2.stamp = x1.stamp
      /\ fault.at # EthSlot => x2 = x1
      /\ fault.at = EthSlot => \E m \in Modes : NonFinite \in x2.mem[EthSlot][m]
  <2> HIDE DEF x1
  <2> QED
    BY <1>7, Pass1Terms, OverflownSound
<1> HIDE DEF x2
<1>9. DOMAIN Pass1From(g) = {EthSlot} /\ {EthSlot} \subseteq TowerSlots /\ DOMAIN Pass1From(g) = DOMAIN Pass1Of
      /\ DOMAIN Pass1From(g) \subseteq TowerSlots
  BY Pass1Terms
<1>10. Sound(e) /\ Same(x2, e, TowerSlots \ {EthSlot})
  BY <1>1, <1>8, <1>9, RowsKeep
<1>11. Same(d, e, TowerSlots \ {EthSlot})
  <2> HIDE DEF e, x1
  <2> QED
    BY <1>4, <1>7, <1>8, <1>10 DEF Same
<1>12. CASE c = "inband" /\ fault.at # EthSlot
  <2>1. /\ Holds(x0.mem, Captured, id, l, {}) /\ Stamped(x0, Captured, G, ProjectedPsiOrders(l))
        /\ Holds(x0.mem, Psi, id, l + 1, {}) /\ Stamped(x0, Psi, G, ProjectedPsiOrders(k))
    BY <1>3, <1>5, <1>12 DEF HasKind, Extra
  <2>2. TermsHold(x0, Pass1Of, id, l)
    BY <2>1, Pass1Terms DEF TermsHold
  <2>3. SourcesStamped(x0, Pass1From(g), n)
    BY <1>1, <2>1, Pass1Terms DEF SourcesStamped, Source, G
  <2>4. Group(RowsStamped(x1, Pass1From(g), n, T), {EthSlot}, "inband", id, l, T, n)
    BY <1>1, <1>4, <1>9, <2>2, <2>3, Pass1Terms, AngularRowsWhole
  <2> QED
    BY <1>2, <1>8, <1>10, <1>11, <1>12, <2>4 DEF T, n
<1>13. CASE c = "void"
  <2>1. Void(x2, Psi)
    <3>1. Void(x0, Psi)
      BY <1>5, <1>13 DEF HasKind
    <3> HIDE DEF x1
    <3> QED
      BY <3>1, <1>7, <1>8, Pass1Terms DEF Void, Same
  <2>2. PICK m : m \in Modes
    BY ModesAssumption
  <2>3. Source(Psi, G) \in Pass1From(g)[EthSlot] /\ Source(Psi, G).slot = Psi
    BY Pass1Terms DEF Source, G
  <2>4. \E from \in Pass1From(g)[EthSlot] : x2.stamp[from.slot][m] = NoStamp
    BY <2>1, <2>2, <2>3 DEF Void
  <2>5. EthSlot \in DOMAIN Pass1From(g)
    BY <1>9
  <2>6. ~Bears(e, EthSlot, m, T, n)
    BY <1>1, <1>8, <1>9, <2>2, <2>4, <2>5, RowsRefused
  <2>7. ~AllBear(e, {EthSlot}, T, n)
    BY <2>2, <2>6 DEF AllBear
  <2> HIDE DEF e
  <2> QED
    BY <1>2, <1>10, <1>11, <1>13, <2>7 DEF T, n
<1>14. CASE fault.at = EthSlot
  <2>2. PICK m \in Modes : NonFinite \in x2.mem[EthSlot][m]
    BY <1>8, <1>14
  <2>5. EthSlot \in DOMAIN Pass1From(g)
    BY <1>9
  <2>6. ~Bears(e, EthSlot, m, T, n)
    BY <1>1, <1>8, <1>9, <2>2, <2>5, RowsRefused
  <2>7. ~AllBear(e, {EthSlot}, T, n)
    BY <2>2, <2>6 DEF AllBear
  <2> HIDE DEF e
  <2> QED
    BY <1>2, <1>10, <1>11, <1>14, <2>7 DEF T, n
<1> QED
  BY <1>3, <1>12, <1>13, <1>14

LEMMA Pass1Done ==
  ASSUME NEW d, NEW l \in 0 .. 3, NEW g, NEW fault, Located(fault), NEW id \in Int,
         NEW a, NEW c, NEW b, Ground(d, a, c, b, id, l, g)
  PROVE  LET e == Pass1(d, l, g, fault)
         IN  /\ Sound(e) /\ Frame(d, e, {"angular", "next"}, {"h"}, l + 1)
             /\ Ground(e, a, c, b, id, l, g)
             /\ IF c = "inband" /\ b = "inband" /\ fault.at \notin {EthSlot, PassAt(1, l)}
                THEN NextStands(e, PassFields[1], PassToken(g, l, 1), "marked", id, l)
                ELSE NextVoid(e, l)
<1> DEFINE T == PassToken(g, l, 1)
           G == GenerationToken(g)
           n == NextOrders(l)
           row == Pass1Row(d, l, g, fault)
           x == Pass1Begun(d, l, g, fault)
           ready == Pass1Ready(x, l, g)
           e == LaunchPass(x, 1, l, g, ready, fault)
           views == {"angular", "next"}
<1>0. Pass1(d, l, g, fault) = e
  BY Pass1Is
<1>1. /\ n \in Nat /\ n >= 1 /\ n >= n /\ l \in Levels /\ l \in Int
      /\ ProjectedPsiOrders(l) \in Nat /\ ProjectedPsiOrders(l) >= n
  BY NextOf, ProjectedOrders DEF TopLevel
<1>2. /\ Sound(row) /\ Same(d, row, TowerSlots \ {EthSlot})
      /\ IF c = "inband" /\ fault.at # EthSlot
         THEN Group(row, {EthSlot}, "inband", id, l, T, n)
         ELSE ~AllBear(row, {EthSlot}, T, n)
  BY Pass1RowDone
<1>3. x = Cleared(row, ViewOf("next", MetricFields))
  BY DEF Pass1Begun
<1> HIDE DEF row, x, T, n
<1>4. Sound(x) /\ Same(row, x, TowerSlots \ ViewOf("next", MetricFields))
  BY <1>2, <1>3, ClearedKeeps
<1>5. x.mem[EthSlot] = row.mem[EthSlot] /\ x.stamp[EthSlot] = row.stamp[EthSlot]
  <2>1. EthSlot \in TowerSlots /\ EthSlot \notin ViewOf("next", MetricFields)
    BY Pass1Terms DEF ViewOf, EthSlot
  <2> QED
    BY <1>4, <2>1 DEF Same
<1>6. \A k : Frame(d, x, views, {"h"}, k)
  <2> TAKE k
  <2>1. Touched({EthSlot} \cup ViewOf("next", MetricFields), views, {"h"}, k)
    <3>1. \A s \in {EthSlot} : s[1] = "angular"
      BY DEF EthSlot
    <3>2. \A s \in ViewOf("next", MetricFields) : s[1] = "next"
      BY LevelTouched
    <3> QED
      BY <3>1, <3>2 DEF Touched, Apart
  <2>2. Same(d, x, TowerSlots \ ({EthSlot} \cup ViewOf("next", MetricFields)))
    BY <1>2, <1>4 DEF Same
  <2> QED
    BY <2>1, <2>2, FrameOf
<1>7. Frame(d, x, views, {"h"}, l + 1) /\ SparesGround(views)
  BY <1>6 DEF SparesGround
<1>8. Ground(x, a, c, b, id, l, g)
  BY <1>4, <1>7, GroundKept
<1>9. 1 \in 1 .. 3
  OBVIOUS
<1>10. a \in {"void", "inband"} /\ b \in {"void", "inband"} /\ c \in {"void", "inband"}
       /\ (c = "inband" => a = "inband")
       /\ Group(x, {Captured}, a, id, l, G, ProjectedPsiOrders(l))
       /\ MetricStands(x, b, id, l, g)
  BY <1>8 DEF Ground
<1>11. CASE c = "inband" /\ b = "inband" /\ fault.at \notin {EthSlot, PassAt(1, l)}
  <2>1. Group(x, {EthSlot}, "inband", id, l, T, n)
    BY <1>2, <1>5, <1>11, KindSame DEF Group
  <2>2. /\ Group(x, {Captured}, "inband", id, l, G, ProjectedPsiOrders(l))
        /\ MetricStands(x, "inband", id, l, g)
    BY <1>10, <1>11
  <2>3. ready
    BY <1>1, <2>1, <2>2, ExternalFound DEF Pass1Ready, T, n
  <2>4. AllRead(x, MetricLevel(l) \cup PassTerms[1], id, l)
    <3>1. "inband" \in Kinds \ {"void"} /\ Extra("inband") = {}
      BY DEF Kinds, Extra
    <3>2. Group(x, MetricLevel(l), "inband", id, l, G, OrdersAt(l))
      BY <2>2 DEF MetricStands
    <3>3. PassTerms[1] = {Captured, EthSlot}
      BY DEF PassTerms
    <3>4. \A s \in MetricLevel(l) : Holds(x.mem, s, id, l, {})
      BY <3>1, <3>2, HoldsOf
    <3>5. Holds(x.mem, Captured, id, l, {}) /\ Holds(x.mem, EthSlot, id, l, {})
      BY <2>1, <2>2, <3>1, HoldsOf
    <3> QED
      BY <3>3, <3>4, <3>5 DEF AllRead
  <2>5. fault.at # PassAt(1, l)
    BY <1>11
  <2> HIDE DEF ready
  <2>6. /\ Sound(e) /\ NextStands(e, PassFields[1], T, "marked", id, l)
        /\ Between(x, e, {}, PassFields[1], l + 1)
    BY <1>4, <1>9, <2>3, <2>4, <2>5, LaunchWhole DEF T
  <2> HIDE DEF e
  <2>7. Frame(x, e, views, {"h"}, l + 1)
    BY <2>6 DEF Between, Aside, Frame, Apart
  <2>8. Frame(d, e, views, {"h"}, l + 1)
    BY <1>7, <2>7, FrameThen
  <2>9. Ground(e, a, c, b, id, l, g)
    BY <1>7, <1>8, <2>6, <2>7, GroundKept
  <2> QED
    BY <1>0, <1>11, <2>6, <2>8, <2>9 DEF T
<1>12. CASE ~(c = "inband" /\ b = "inband" /\ fault.at \notin {EthSlot, PassAt(1, l)})
  <2>1. fault.at = PassAt(1, l) \/ ~ready
    <3>1. CASE c # "inband" \/ fault.at = EthSlot
      <4>1. ~AllBear(row, {EthSlot}, T, n)
        BY <1>2, <3>1
      <4>2. ~AllBear(x, {EthSlot}, T, n)
        BY <4>1, <1>5 DEF AllBear, Bears
      <4> QED
        BY <4>2 DEF Pass1Ready, ExternalReady, T, n
    <3>2. CASE b # "inband"
      <4>1. MetricStands(x, "void", id, l, g)
        BY <1>10, <3>2
      <4> QED
        BY <4>1, ExternalVoid DEF Pass1Ready
    <3> QED
      BY <1>12, <3>1, <3>2
  <2> HIDE DEF ready
  <2>2. /\ Sound(e) /\ NextVoid(e, l) /\ Frame(x, e, {"next"}, {"h"}, l + 1)
    BY <1>4, <1>9, <2>1, LaunchVoid
  <2> HIDE DEF e
  <2>7. Frame(x, e, views, {"h"}, l + 1)
    BY <2>2 DEF Frame, Apart
  <2>8. Frame(d, e, views, {"h"}, l + 1)
    BY <1>7, <2>7, FrameThen
  <2>9. Ground(e, a, c, b, id, l, g)
    BY <1>7, <1>8, <2>2, <2>7, GroundKept
  <2> QED
    BY <1>0, <1>12, <2>2, <2>8, <2>9
<1> QED
  BY <1>11, <1>12

-----------------------------------------------------------------------------
(* Passes 1 and 2, projected *)

\* Where a pass is left: projected onto the band, or all of the next level taken back.
PassLeft(d, p, pass, id, l, g) ==
  IF p = "inband" THEN NextStands(d, PassFields[pass], PassToken(g, l, pass), "inband", id, l)
  ELSE NextVoid(d, l)

LEMMA VoidStands ==
  ASSUME NEW d, NEW l, NextVoid(d, l), NEW fields \in SUBSET MetricFields
  PROVE  \A t, i : NextStands(d, fields, t, "void", i, l)
  BY DEF NextVoid

\* The first pass is projected only of levels that are there, and then unless its
\* numbers overflow.
FirstLeft(d, c, b, fault, id, l, g) ==
  \E p \in {"void", "inband"} :
    /\ PassLeft(d, p, 1, id, l, g) /\ (p = "inband" => b = "inband" /\ c = "inband")
    /\ (c = "inband" /\ b = "inband" /\ fault.at \notin {EthSlot, PassAt(1, l)}) => p = "inband"

LEMMA FirstDone ==
  ASSUME NEW d, NEW l \in 0 .. 3, NEW g, NEW fault, Located(fault), NEW id \in Int,
         NEW a, NEW c, NEW b, Ground(d, a, c, b, id, l, g)
  PROVE  LET e == ProjectNext(Pass1(d, l, g, fault), 1, l, g)
         IN  /\ Frame(d, e, {"angular", "projected", "next"}, {"h"}, l + 1)
             /\ Ground(e, a, c, b, id, l, g)
             /\ FirstLeft(e, c, b, fault, id, l, g)
<1> DEFINE x == Pass1(d, l, g, fault)
           e == ProjectNext(x, 1, l, g)
           F == PassFields[1]
           T == PassToken(g, l, 1)
           views == {"angular", "projected", "next"}
           good == c = "inband" /\ b = "inband" /\ fault.at \notin {EthSlot, PassAt(1, l)}
<1>0. 1 \in 1 .. 3
  OBVIOUS
<1>1. /\ Sound(x) /\ Frame(d, x, {"angular", "next"}, {"h"}, l + 1)
      /\ Ground(x, a, c, b, id, l, g)
      /\ IF good THEN NextStands(x, F, T, "marked", id, l) ELSE NextVoid(x, l)
  BY Pass1Done
<1> HIDE DEF x, good, T
<1>2. Frame(d, x, views, {"h"}, l + 1)
  BY <1>1 DEF Frame, Apart
<1>3. SparesGround(views)
  BY DEF SparesGround
<1>4. CASE good
  <2>1. "marked" \in Kinds \ {"void"} /\ NextStands(x, F, T, "marked", id, l)
    BY <1>1, <1>4 DEF Kinds
  <2>2. /\ Sound(e) /\ NextStands(e, F, T, "inband", id, l)
        /\ Between(x, e, {"projected"}, F, l + 1)
    BY <1>0, <1>1, <2>1, ProjectNextWhole DEF T
  <2> HIDE DEF e
  <2>3. Frame(x, e, views, {"h"}, l + 1)
    BY <2>2 DEF Between, Aside, Frame, Apart
  <2>4. Frame(d, e, views, {"h"}, l + 1)
    BY <1>2, <2>3, FrameThen
  <2>5. Ground(e, a, c, b, id, l, g)
    BY <1>1, <1>3, <2>2, <2>3, GroundKept
  <2>6. PassLeft(e, "inband", 1, id, l, g)
    BY <2>2 DEF PassLeft, T
  <2> QED
    BY <1>4, <2>4, <2>5, <2>6 DEF e, x, good, FirstLeft
<1>5. CASE ~good
  <2>0. NextVoid(x, l)
    BY <1>1, <1>5
  <2>1. NextStands(x, F, PassToken(g, l, 1), "void", id, l)
    BY <1>0, <2>0, PassFieldsAre DEF NextVoid
  <2>2. /\ Sound(e)
        /\ \A fields \in SUBSET MetricFields : \A t, i : NextStands(e, fields, t, "void", i, l)
        /\ Frame(x, e, {"projected", "next"}, {"h"}, l + 1)
    BY <1>0, <1>1, <2>1, ProjectNextVoid
  <2> HIDE DEF e
  <2>3. Frame(x, e, views, {"h"}, l + 1)
    BY <2>2 DEF Frame, Apart
  <2>4. Frame(d, e, views, {"h"}, l + 1)
    BY <1>2, <2>3, FrameThen
  <2>5. Ground(e, a, c, b, id, l, g)
    BY <1>1, <1>3, <2>2, <2>3, GroundKept
  <2>6. PassLeft(e, "void", 1, id, l, g)
    BY <2>2 DEF PassLeft, NextVoid
  <2> QED
    BY <1>5, <2>4, <2>5, <2>6 DEF e, x, good, FirstLeft
<1> QED
  BY <1>4, <1>5

CurrentG == <<"current", "G">>
NextG == <<"next", "G">>
Pass2Of == [s \in {EthSlot} |-> [value |-> CurrentG, dt |-> {Dt("next", "G")}]]
Pass2From(l, g) ==
  [s \in {EthSlot} |-> {Source(CurrentG, GenerationToken(g)), Source(NextG, PassToken(g, l, 1))}]
Pass2Row(d, l, g) ==
  RowsStamped(Angular(Cleared(d, {EthSlot}), Pass2Of), Pass2From(l, g), NextOrders(l), PassToken(g, l, 2))
Pass2Ready(d, l, g) ==
  /\ AllBear(d, ViewOf("next", PassFields[1]), PassToken(g, l, 1), NextOrders(l))
  /\ ExternalReady(d, {EthSlot}, l, g, PassToken(g, l, 2))

LEMMA Pass2Is ==
  ASSUME NEW d, NEW l, NEW g, NEW fault
  PROVE  Pass2(d, l, g, fault) =
           LaunchPass(Pass2Row(d, l, g), 2, l, g, Pass2Ready(Pass2Row(d, l, g), l, g), fault)
<1>1. <<"next", "G">>[1] = "next" /\ <<"next", "G">>[2] = "G"
  OBVIOUS
<1> QED
  BY <1>1, Zenon DEF Pass2, Pass2Row, Pass2Of, Pass2From, Pass2Ready, EthSlot, CurrentG, NextG, ViewOf

LEMMA Pass2Terms ==
  /\ DOMAIN Pass2Of = {EthSlot} /\ {EthSlot} \subseteq TowerSlots /\ AngularReads(Pass2Of)
  /\ Pass2Of[EthSlot].value = CurrentG
  /\ Pass2Of[EthSlot].dt = {Dt("next", "G")}
  /\ Dt("next", "G").slot = NextG /\ Dt("next", "G").rate = 1
  /\ \A l, g : /\ DOMAIN Pass2From(l, g) = {EthSlot}
               /\ Pass2From(l, g)[EthSlot] = {Source(CurrentG, GenerationToken(g)),
                                          Source(NextG, PassToken(g, l, 1))}
  /\ CurrentG \in TowerSlots \ {EthSlot} /\ NextG \in TowerSlots \ {EthSlot} /\ EthSlot \in TowerSlots
  /\ CurrentG \in ViewOf("current", MetricFields) /\ NextG \in ViewOf("next", PassFields[1])
<1>0. CurrentG \in ViewOf("current", MetricFields) /\ NextG \in ViewOf("next", PassFields[1])
      /\ NextG \in ViewOf("next", MetricFields)
  BY DEF ViewOf, CurrentG, NextG, MetricFields, PassFields
<1>1. /\ CurrentG \in TowerSlots \ {EthSlot} /\ NextG \in TowerSlots \ {EthSlot} /\ EthSlot \in TowerSlots
  <2>1. CurrentG # EthSlot /\ NextG # EthSlot
    BY DEF EthSlot, CurrentG, NextG
  <2> QED
    BY <1>0, <2>1, Pass1Terms, MetricSlots
<1>2. Dt("next", "G").slot = NextG /\ Dt("next", "G").rate = 1 /\ Dt("next", "G").sign = 1
  BY DEF Dt, NextG
<1>3. CurrentG = <<CurrentG[1], CurrentG[2]>> /\ EthSlot = <<EthSlot[1], EthSlot[2]>>
  BY DEF CurrentG, EthSlot
<1>4. /\ DOMAIN Pass2Of = {EthSlot} /\ Pass2Of[EthSlot].value = CurrentG
      /\ Pass2Of[EthSlot].dt = {Dt("next", "G")}
  BY DEF Pass2Of
<1>5. AngularReads(Pass2Of)
  BY <1>1, <1>2, <1>3, <1>4 DEF AngularReads
<1> QED
  BY <1>0, <1>1, <1>2, <1>4, <1>5 DEF Pass2From

LEMMA Pass2RowDone ==
  ASSUME NEW d, NEW l \in 0 .. 3, NEW g, NEW id \in Int,
         NEW a, NEW c, NEW b, Ground(d, a, c, b, id, l, g), NEW p, p = "inband" => b = "inband",
         PassLeft(d, p, 1, id, l, g)
  PROVE  LET e == Pass2Row(d, l, g)
         IN  /\ Sound(e) /\ Same(d, e, TowerSlots \ {EthSlot})
             /\ p = "inband" => Group(e, {EthSlot}, "inband", id, l, PassToken(g, l, 2), NextOrders(l))
<1> DEFINE T == PassToken(g, l, 2)
           T1 == PassToken(g, l, 1)
           G == GenerationToken(g)
           n == NextOrders(l)
           x0 == Cleared(d, {EthSlot})
           x1 == Angular(x0, Pass2Of)
           e == RowsStamped(x1, Pass2From(l, g), n, T)
<1>1. /\ n \in Nat /\ n >= 1 /\ n >= n /\ l \in Levels /\ l \in Int /\ l + 1 \in Int
      /\ OrdersAt(l) \in Nat /\ OrdersAt(l) >= n
  BY NextOf
<1>2. Pass2Row(d, l, g) = e
  BY DEF Pass2Row
<1>3. /\ Sound(d) /\ b \in {"void", "inband"}
      /\ HasKind(d, CurrentG, b, id, l, G, OrdersAt(l))
  BY Pass2Terms DEF Ground, Group, MetricStands
<1>4. p = "inband" => HasKind(d, NextG, "inband", id, l + 1, T1, n)
  BY Pass2Terms DEF PassLeft, NextStands, Group
<1> HIDE DEF T, G, n, T1
<1>5. Sound(x0) /\ Same(d, x0, TowerSlots \ {EthSlot})
  BY <1>3, ClearedKeeps
<1> HIDE DEF x0
<1>6. /\ HasKind(x0, CurrentG, b, id, l, G, OrdersAt(l))
      /\ p = "inband" => HasKind(x0, NextG, "inband", id, l + 1, T1, n)
  BY <1>3, <1>4, <1>5, Pass2Terms, KindSame DEF Same
<1>7. AngularInBand(x0, Pass2Of)
  <2>1. CASE b = "void"
    BY <1>6, <2>1, Pass2Terms DEF AngularInBand, Void, HasKind
  <2>2. CASE b = "inband"
    <3>1. {} \in Extras /\ Holds(x0.mem, CurrentG, id, l, {})
      BY <1>6, <2>2 DEF Extras, HasKind, Extra
    <3>2. \A m \in Modes : OffBand \notin x0.mem[CurrentG][m]
      BY <1>1, <3>1, HoldsFinite
    <3> QED
      BY <3>2, Pass2Terms DEF AngularInBand
  <2> QED
    BY <1>3, <2>1, <2>2
<1>9. DOMAIN Pass2From(l, g) = {EthSlot} /\ {EthSlot} \subseteq TowerSlots
      /\ DOMAIN Pass2From(l, g) = DOMAIN Pass2Of /\ DOMAIN Pass2Of \subseteq TowerSlots
  BY Pass2Terms
<1>10. Sound(e) /\ Same(x0, e, TowerSlots \ DOMAIN Pass2Of)
  BY <1>1, <1>5, <1>7, <1>9, Pass2Terms, AngularRowsKeep
<1>11. Same(d, e, TowerSlots \ {EthSlot})
  <2> HIDE DEF e
  <2> QED
    BY <1>5, <1>9, <1>10 DEF Same
<1>12. ASSUME p = "inband" PROVE Group(e, {EthSlot}, "inband", id, l, T, n)
  <2>1. /\ Holds(x0.mem, CurrentG, id, l, {}) /\ Stamped(x0, CurrentG, G, OrdersAt(l))
        /\ Holds(x0.mem, NextG, id, l + 1, {}) /\ Stamped(x0, NextG, T1, n)
    BY <1>6, <1>12 DEF HasKind, Extra
  <2>2. TermsHold(x0, Pass2Of, id, l)
    BY <2>1, Pass2Terms DEF TermsHold
  <2>3. SourcesStamped(x0, Pass2From(l, g), n)
    BY <1>1, <2>1, Pass2Terms DEF SourcesStamped, Source, G, T1
  <2> QED
    BY <1>1, <1>5, <1>9, <2>2, <2>3, Pass2Terms, AngularRowsWhole
<1> HIDE DEF e
<1> QED
  BY <1>2, <1>10, <1>11, <1>12 DEF T, n

\* Pass 2 keeps the fields of pass 1, or takes them back.
LEMMA Pass2Done ==
  ASSUME NEW d, NEW l \in 0 .. 3, NEW g, NEW fault, Located(fault), NEW id \in Int,
         NEW a, NEW c, NEW b, Ground(d, a, c, b, id, l, g), NEW p \in {"void", "inband"},
         p = "inband" => b = "inband", PassLeft(d, p, 1, id, l, g)
  PROVE  LET e == Pass2(d, l, g, fault)
         IN  /\ Sound(e) /\ Frame(d, e, {"angular", "next"}, {"h"}, l + 1)
             /\ Ground(e, a, c, b, id, l, g)
             /\ IF p = "inband" /\ fault.at # PassAt(2, l)
                THEN /\ NextStands(e, PassFields[1], PassToken(g, l, 1), "inband", id, l)
                     /\ NextStands(e, PassFields[2], PassToken(g, l, 2), "marked", id, l)
                ELSE NextVoid(e, l)
<1> DEFINE T == PassToken(g, l, 2)
           T1 == PassToken(g, l, 1)
           G == GenerationToken(g)
           n == NextOrders(l)
           x == Pass2Row(d, l, g)
           ready == Pass2Ready(x, l, g)
           e == LaunchPass(x, 2, l, g, ready, fault)
           views == {"angular", "next"}
           F1 == PassFields[1]
           F2 == PassFields[2]
<1>0. Pass2(d, l, g, fault) = e
  BY Pass2Is
<1>1. /\ n \in Nat /\ n >= 1 /\ n >= n /\ l \in Levels /\ l \in Int /\ l + 1 \in Int
  BY NextOf
<1>2. /\ Sound(x) /\ Same(d, x, TowerSlots \ {EthSlot})
      /\ p = "inband" => Group(x, {EthSlot}, "inband", id, l, T, n)
  BY Pass2RowDone
<1>20. /\ F1 \in SUBSET MetricFields /\ F2 \in SUBSET MetricFields /\ F1 \cap F2 = {} /\ F1 # {}
  BY DEF PassFields, MetricFields
<1> HIDE DEF x, T, n, T1, F1, F2
<1>6. \A k : Frame(d, x, views, {"h"}, k)
  <2> TAKE k
  <2>1. Touched({EthSlot}, views, {"h"}, k)
    BY DEF Touched, Apart, EthSlot
  <2> QED
    BY <1>2, <2>1, FrameOf
<1>7. Frame(d, x, views, {"h"}, l + 1) /\ SparesGround(views)
  BY <1>6 DEF SparesGround
<1>8. Ground(x, a, c, b, id, l, g)
  BY <1>2, <1>7, GroundKept
<1>9. 2 \in 1 .. 3
  OBVIOUS
<1>13. Between(d, x, {"angular"}, {}, l + 1)
  <2>1. \A s \in {EthSlot} : ~Aside(s, {"angular"}, {}, l + 1)
    BY DEF Aside, EthSlot
  <2>2. Same(d, x, TowerSlots \ {EthSlot})
    BY <1>2
  <2> QED
    BY <2>1, <2>2 DEF Between, Same
<1>14. ASSUME NEW others \in SUBSET MetricFields, NEW t, NEW kind, NEW i,
              NextStands(d, others, t, kind, i, l)
       PROVE  NextStands(x, others, t, kind, i, l)
  <2>1. others \cap {} = {} /\ "next" \notin {"angular"} /\ "h" \notin {"angular"}
    OBVIOUS
  <2> QED
    BY <1>13, <1>14, <2>1, NextKept
<1>11. CASE p = "inband" /\ fault.at # PassAt(2, l)
  <2>1. Group(x, {EthSlot}, "inband", id, l, T, n)
    BY <1>2, <1>11
  <2>2. MetricStands(x, "inband", id, l, g)
    BY <1>8, <1>11 DEF Ground
  <2>3. NextStands(x, F1, T1, "inband", id, l)
    BY <1>11, <1>14, <1>20 DEF PassLeft, F1, T1
  <2>4. "inband" \in Kinds \ {"void"} /\ Extra("inband") = {}
    BY DEF Kinds, Extra
  <2>5. ready
    <3>1. ExternalReady(x, {EthSlot}, l, g, T)
      BY <1>1, <2>1, <2>2, ExternalFound DEF n
    <3>2. AllBear(x, ViewOf("next", F1), T1, n)
      <4>1. Group(x, ViewOf("next", F1), "inband", id, l + 1, T1, n)
        BY <2>3 DEF NextStands, n
      <4> QED
        BY <1>1, <2>4, <4>1, GroupReady
    <3> QED
      BY <3>1, <3>2 DEF Pass2Ready, T, T1, n, F1
  <2>6. AllRead(x, MetricLevel(l) \cup PassTerms[2], id, l)
    <3>2. Group(x, MetricLevel(l), "inband", id, l, G, OrdersAt(l))
      BY <2>2 DEF MetricStands
    <3>3. PassTerms[2] = {EthSlot}
      BY DEF PassTerms
    <3>4. \A s \in MetricLevel(l) : Holds(x.mem, s, id, l, {})
      BY <2>4, <3>2, HoldsOf
    <3>5. Holds(x.mem, EthSlot, id, l, {})
      BY <2>1, <2>4, HoldsOf
    <3> QED
      BY <3>3, <3>4, <3>5 DEF AllRead
  <2> HIDE DEF ready
  <2>7. /\ Sound(e) /\ NextStands(e, F2, T, "marked", id, l)
        /\ Between(x, e, {}, F2, l + 1)
    BY <1>2, <1>9, <1>11, <2>5, <2>6, LaunchWhole DEF T, F2
  <2> HIDE DEF e
  <2>8. NextStands(e, F1, T1, "inband", id, l)
    <3>1. "next" \notin {} /\ "h" \notin {}
      OBVIOUS
    <3> QED
      BY <1>20, <2>3, <2>7, <3>1, NextKept
  <2>9. Frame(x, e, views, {"h"}, l + 1)
    BY <2>7 DEF Between, Aside, Frame, Apart
  <2>10. Frame(d, e, views, {"h"}, l + 1)
    BY <1>7, <2>9, FrameThen
  <2>11. Ground(e, a, c, b, id, l, g)
    BY <1>7, <1>8, <2>7, <2>9, GroundKept
  <2> QED
    BY <1>0, <1>11, <2>7, <2>8, <2>10, <2>11 DEF T, T1, F1, F2
<1>12. CASE ~(p = "inband" /\ fault.at # PassAt(2, l))
  <2>1. fault.at = PassAt(2, l) \/ ~ready
    <3>1. CASE p = "void"
      <4>1. NextVoid(d, l)
        BY <3>1 DEF PassLeft
      <4>2. NextStands(d, F1, T1, "void", id, l)
        BY <1>20, <4>1 DEF NextVoid
      <4>3. NextStands(x, F1, T1, "void", id, l)
        BY <1>14, <1>20, <4>2
      <4>4. Group(x, ViewOf("next", F1), "void", id, l + 1, T1, n)
        BY <4>3 DEF NextStands, n
      <4>5. PICK f : f \in F1
        BY <1>20
      <4>6. <<"next", f>> \in ViewOf("next", F1)
        BY <4>5 DEF ViewOf
      <4>7. ~AllBear(x, ViewOf("next", F1), T1, n)
        BY <1>1, <4>4, <4>6, VoidRefused
      <4> QED
        BY <4>7 DEF Pass2Ready, T1, n, F1
    <3> QED
      BY <1>12, <3>1
  <2> HIDE DEF ready
  <2>2. /\ Sound(e) /\ NextVoid(e, l) /\ Frame(x, e, {"next"}, {"h"}, l + 1)
    BY <1>2, <1>9, <2>1, LaunchVoid
  <2> HIDE DEF e
  <2>7. Frame(x, e, views, {"h"}, l + 1)
    BY <2>2 DEF Frame, Apart
  <2>8. Frame(d, e, views, {"h"}, l + 1)
    BY <1>7, <2>7, FrameThen
  <2>9. Ground(e, a, c, b, id, l, g)
    BY <1>7, <1>8, <2>2, <2>7, GroundKept
  <2> QED
    BY <1>0, <1>12, <2>2, <2>8, <2>9
<1> QED
  BY <1>11, <1>12

\* Both passes, left projected or taken back.
BothLeft(d, p, id, l, g) ==
  IF p = "inband" THEN PassLeft(d, "inband", 1, id, l, g) /\ PassLeft(d, "inband", 2, id, l, g)
  ELSE NextVoid(d, l)

SecondLeft(d, p, fault, id, l, g) ==
  \E q \in {"void", "inband"} :
    /\ BothLeft(d, q, id, l, g) /\ (q = "inband" => p = "inband")
    /\ (p = "inband" /\ fault.at # PassAt(2, l)) => q = "inband"

LEMMA SecondDone ==
  ASSUME NEW d, NEW l \in 0 .. 3, NEW g, NEW fault, Located(fault), NEW id \in Int,
         NEW a, NEW c, NEW b, Ground(d, a, c, b, id, l, g), NEW p \in {"void", "inband"},
         p = "inband" => b = "inband", PassLeft(d, p, 1, id, l, g)
  PROVE  LET e == ProjectNext(Pass2(d, l, g, fault), 2, l, g)
         IN  /\ Frame(d, e, {"angular", "projected", "next"}, {"h"}, l + 1)
             /\ Ground(e, a, c, b, id, l, g)
             /\ SecondLeft(e, p, fault, id, l, g)
<1> DEFINE x == Pass2(d, l, g, fault)
           e == ProjectNext(x, 2, l, g)
           F1 == PassFields[1]
           F == PassFields[2]
           T1 == PassToken(g, l, 1)
           T == PassToken(g, l, 2)
           views == {"angular", "projected", "next"}
           good == p = "inband" /\ fault.at # PassAt(2, l)
<1>0. 2 \in 1 .. 3
  OBVIOUS
<1>1. /\ Sound(x) /\ Frame(d, x, {"angular", "next"}, {"h"}, l + 1)
      /\ Ground(x, a, c, b, id, l, g)
      /\ IF good THEN NextStands(x, F1, T1, "inband", id, l) /\ NextStands(x, F, T, "marked", id, l)
         ELSE NextVoid(x, l)
  BY Pass2Done
<1>20. /\ F1 \in SUBSET MetricFields /\ F1 \cap F = {}
  BY DEF PassFields, MetricFields
<1> HIDE DEF x, good, T, T1, F, F1
<1>2. Frame(d, x, views, {"h"}, l + 1)
  BY <1>1 DEF Frame, Apart
<1>3. SparesGround(views)
  BY DEF SparesGround
<1>4. CASE good
  <2>1. "marked" \in Kinds \ {"void"} /\ NextStands(x, F, T, "marked", id, l)
    BY <1>1, <1>4 DEF Kinds
  <2>2. /\ Sound(e) /\ NextStands(e, F, T, "inband", id, l)
        /\ Between(x, e, {"projected"}, F, l + 1)
    BY <1>0, <1>1, <2>1, ProjectNextWhole DEF T, F
  <2> HIDE DEF e
  <2>7. NextStands(e, F1, T1, "inband", id, l)
    <3>1. "next" \notin {"projected"} /\ "h" \notin {"projected"}
      OBVIOUS
    <3>2. NextStands(x, F1, T1, "inband", id, l)
      BY <1>1, <1>4
    <3> QED
      BY <1>20, <2>2, <3>1, <3>2, NextKept
  <2>3. Frame(x, e, views, {"h"}, l + 1)
    BY <2>2 DEF Between, Aside, Frame, Apart
  <2>4. Frame(d, e, views, {"h"}, l + 1)
    BY <1>2, <2>3, FrameThen
  <2>5. Ground(e, a, c, b, id, l, g)
    BY <1>1, <1>3, <2>2, <2>3, GroundKept
  <2>6. BothLeft(e, "inband", id, l, g)
    BY <2>2, <2>7 DEF BothLeft, PassLeft, T, T1, F, F1
  <2> QED
    BY <1>4, <2>4, <2>5, <2>6 DEF e, x, good, SecondLeft
<1>5. CASE ~good
  <2>0. NextVoid(x, l)
    BY <1>1, <1>5
  <2>1. NextStands(x, PassFields[2], PassToken(g, l, 2), "void", id, l)
    BY <1>0, <2>0, PassFieldsAre DEF NextVoid
  <2>2. /\ Sound(e)
        /\ \A fields \in SUBSET MetricFields : \A t, i : NextStands(e, fields, t, "void", i, l)
        /\ Frame(x, e, {"projected", "next"}, {"h"}, l + 1)
    BY <1>0, <1>1, <2>1, ProjectNextVoid
  <2> HIDE DEF e
  <2>3. Frame(x, e, views, {"h"}, l + 1)
    BY <2>2 DEF Frame, Apart
  <2>4. Frame(d, e, views, {"h"}, l + 1)
    BY <1>2, <2>3, FrameThen
  <2>5. Ground(e, a, c, b, id, l, g)
    BY <1>1, <1>3, <2>2, <2>3, GroundKept
  <2>6. BothLeft(e, "void", id, l, g)
    BY <2>2 DEF BothLeft, NextVoid
  <2> QED
    BY <1>5, <2>4, <2>5, <2>6 DEF e, x, good, SecondLeft
<1> QED
  BY <1>4, <1>5

-----------------------------------------------------------------------------
(* The mirrored modes *)

SharpNames == {"B", "BT", "C", "CT"}
SharpSlots == {"sharp"} \X SharpNames
SharpKernel == {To("sharp", s, {Sharp(SharpOf[s][1], SharpOf[s][2])}) : s \in DOMAIN SharpOf}
Fewer(orders, n) == IF orders < n THEN orders ELSE n
Packed(d, n) ==
  [Launch(d, SharpKernel) EXCEPT !.stamp = [s \in DOMAIN @ |->
     IF s[1] # "sharp" THEN @[s]
     ELSE [m \in Modes |-> Stamp(@[SharpOf[s[2]]][-m].token, Fewer(@[SharpOf[s[2]]][-m].orders, n))]]]

LEMMA PackedIs ==
  ASSUME NEW d, NEW l
  PROVE  PackSharpPairs(d, l) = Packed(d, NextOrders(l))
  BY DEF PackSharpPairs, Packed, SharpKernel, Fewer

LEMMA SharpOfIs ==
  /\ DOMAIN SharpOf = SharpNames
  /\ SharpOf["B"] = <<"current", "B">> /\ SharpOf["BT"] = <<"next", "B">>
  /\ SharpOf["C"] = <<"current", "C">> /\ SharpOf["CT"] = <<"next", "C">>
  BY DEF SharpOf, SharpNames

LEMMA SharpSources ==
  \A s \in SharpNames : /\ SharpOf[s] \in TowerSlots /\ SharpOf[s] = <<SharpOf[s][1], SharpOf[s][2]>>
                        /\ SharpOf[s][1] # "sharp" /\ <<"sharp", s>> \in TowerSlots
<1>1. \A f \in {"B", "C"} : <<"current", f>> \in TowerSlots /\ <<"next", f>> \in TowerSlots
  <2>1. \A f \in {"B", "C"} : <<"current", f>> \in ViewOf("current", MetricFields)
                              /\ <<"next", f>> \in ViewOf("next", MetricFields)
    BY DEF ViewOf, MetricFields
  <2> QED
    BY <2>1, MetricSlots
<1>2. \A s \in SharpNames : <<"sharp", s>> \in TowerSlots
  BY ScratchSlots DEF ViewOf, SharpNames
<1>3. \A s \in SharpNames : \E f \in {"B", "C"} : SharpOf[s] = <<"current", f>> \/ SharpOf[s] = <<"next", f>>
  BY SharpOfIs DEF SharpNames
<1>4. ASSUME NEW s \in SharpNames
      PROVE  /\ SharpOf[s] \in TowerSlots /\ SharpOf[s] = <<SharpOf[s][1], SharpOf[s][2]>>
             /\ SharpOf[s][1] # "sharp"
  <2>1. PICK f \in {"B", "C"} : SharpOf[s] = <<"current", f>> \/ SharpOf[s] = <<"next", f>>
    BY <1>3
  <2>2. SharpOf[s] \in TowerSlots
    BY <1>1, <2>1
  <2>3. CASE SharpOf[s] = <<"current", f>>
    BY <2>2, <2>3
  <2>4. CASE SharpOf[s] = <<"next", f>>
    BY <2>2, <2>4
  <2> QED
    BY <2>1, <2>3, <2>4
<1> QED
  BY <1>2, <1>4

LEMMA SharpSlotsAre ==
  ASSUME NEW s \in TowerSlots
  PROVE  s[1] = "sharp" <=> s \in SharpSlots
<1>1. s \in SharpSlots => s[1] = "sharp"
  BY DEF SharpSlots
<1>2. ASSUME s \notin SharpSlots PROVE s[1] # "sharp"
  <2>1. \/ s \in {"primary"} \X (MasterFields \X Levels)
        \/ s \in {"h"} \X (MetricFields \X Levels)
        \/ s \in {"current primary"} \X MasterFields
        \/ s \in {"current", "next"} \X MetricFields
        \/ s \in {"projected primary"} \X MasterFields
        \/ s \in {"projected"} \X MetricFields
        \/ s \in {"pass3"} \X {"ethC", "ethPi", "ethPrimeBSharp", "ethPrimeCSharp"}
        \/ s \in {<<"coefficients", "psi">>, <<"snapshot", "psi">>, <<"laplacian", "psi">>, <<"angular", "eth">>}
    BY <1>2 DEF TowerSlots, OwnedSlots, SharpSlots, SharpNames
  <2>2. s \in {"primary"} \X (MasterFields \X Levels) => s[1] \in {"primary"}
    BY PairIn
  <2>3. s \in {"h"} \X (MetricFields \X Levels) => s[1] \in {"h"}
    BY PairIn
  <2>4. s \in {"current primary"} \X MasterFields => s[1] \in {"current primary"}
    BY PairIn
  <2>5. s \in {"current", "next"} \X MetricFields => s[1] \in {"current", "next"}
    BY PairIn
  <2>6. s \in {"projected primary"} \X MasterFields => s[1] \in {"projected primary"}
    BY PairIn
  <2>7. s \in {"projected"} \X MetricFields => s[1] \in {"projected"}
    BY PairIn
  <2>8. s \in {"pass3"} \X {"ethC", "ethPi", "ethPrimeBSharp", "ethPrimeCSharp"} => s[1] \in {"pass3"}
    BY PairIn
  <2>9. s \in {<<"coefficients", "psi">>, <<"snapshot", "psi">>, <<"laplacian", "psi">>, <<"angular", "eth">>}
          => s[1] \in {"coefficients", "snapshot", "laplacian", "angular"}
    OBVIOUS
  <2>10. s[1] \in {"primary", "h", "current primary", "current", "next", "projected primary", "projected",
                   "pass3", "coefficients", "snapshot", "laplacian", "angular"}
    BY <2>1, <2>2, <2>3, <2>4, <2>5, <2>6, <2>7, <2>8, <2>9
  <2> QED
    BY <2>10
<1> QED
  BY <1>1, <1>2

Mirror(s) == To("sharp", s, {Sharp(SharpOf[s][1], SharpOf[s][2])})
MirrorOf(r, s) ==
  /\ r.slot = <<"sharp", s>>
  /\ \A q \in r.reads : q.slot = SharpOf[s] /\ q.sign = -1 /\ q.rate = 0

LEMMA SharpKernelIs ==
  /\ Written(SharpKernel) = SharpSlots
  /\ \A r \in SharpKernel : /\ r.raise = 0 /\ r.reads # {}
                            /\ \E s \in SharpNames : MirrorOf(r, s)
<1>1. ASSUME NEW s \in SharpNames
      PROVE  /\ Mirror(s).raise = 0 /\ Mirror(s).reads # {} /\ Mirror(s).slot = <<"sharp", s>>
             /\ MirrorOf(Mirror(s), s)
  <2>1. SharpOf[s] = <<SharpOf[s][1], SharpOf[s][2]>>
    BY SharpSources
  <2>2. PICK q : q = Sharp(SharpOf[s][1], SharpOf[s][2])
    OBVIOUS
  <2>3. q.slot = SharpOf[s] /\ q.sign = -1 /\ q.rate = 0
    BY <2>1, <2>2 DEF Sharp
  <2>4. Mirror(s) = [slot |-> <<"sharp", s>>, reads |-> {q}, raise |-> 0]
    BY <2>2 DEF Mirror, To
  <2> QED
    BY <2>3, <2>4 DEF MirrorOf
<1>2. SharpKernel = {Mirror(s) : s \in SharpNames}
  BY SharpOfIs DEF SharpKernel, Mirror
<1>4. \A r \in SharpKernel : /\ r.raise = 0 /\ r.reads # {}
                            /\ \E s \in SharpNames : MirrorOf(r, s)
  BY <1>1, <1>2
<1>5. Written(SharpKernel) = SharpSlots
  <2>1. ASSUME NEW t \in Written(SharpKernel) PROVE t \in SharpSlots
    <3>1. PICK r \in SharpKernel : t = r.slot
      BY DEF Written
    <3> QED
      <4>1. PICK s \in SharpNames : MirrorOf(r, s)
        BY <1>4
      <4>2. t = <<"sharp", s>>
        BY <3>1, <4>1 DEF MirrorOf
      <4> QED
        BY <4>2 DEF SharpSlots
  <2>2. ASSUME NEW t \in SharpSlots PROVE t \in Written(SharpKernel)
    <3>1. PICK s \in SharpNames : t = <<"sharp", s>>
      BY DEF SharpSlots
    <3>2. Mirror(s).slot = t
      BY <1>1, <3>1
    <3> QED
      BY <1>2, <3>2 DEF Written
  <2> QED
    BY <2>1, <2>2
<1> QED
  BY <1>4, <1>5

LEMMA PackedKeeps ==
  ASSUME NEW d, Sound(d), NEW n
  PROVE  /\ Sound(Packed(d, n)) /\ Same(d, Packed(d, n), TowerSlots \ SharpSlots)
         /\ Packed(d, n).mem = After(d.mem, SharpKernel)
         /\ \A s \in SharpNames, m \in Modes :
              Packed(d, n).stamp[<<"sharp", s>>][m] =
                Stamp(d.stamp[SharpOf[s]][-m].token, Fewer(d.stamp[SharpOf[s]][-m].orders, n))
<1> DEFINE x == Launch(d, SharpKernel)
           y == [s \in TowerSlots |->
                   IF s[1] # "sharp" THEN d.stamp[s]
                   ELSE [m \in Modes |-> Stamp(d.stamp[SharpOf[s[2]]][-m].token,
                                               Fewer(d.stamp[SharpOf[s[2]]][-m].orders, n))]]
           e == Packed(d, n)
<1>1. \A r \in SharpKernel : \A q \in r.reads :
           /\ q.slot \in TowerSlots /\ q.sign \in {1, -1}
           /\ q.rate \in Int /\ r.raise \in Int
  <2>1. 0 \in Int
    OBVIOUS
  <2> QED
    BY <2>1, SharpKernelIs, SharpSources DEF MirrorOf
<1>2. /\ Sound(x) /\ Same(d, x, TowerSlots \ SharpSlots)
      /\ x.mem = After(d.mem, SharpKernel) /\ x.stamp = d.stamp
  <2>1. /\ Sound(x) /\ Same(d, x, TowerSlots \ Written(SharpKernel))
        /\ x.mem = After(d.mem, SharpKernel) /\ x.stamp = d.stamp
    BY <1>1, LaunchKeeps
  <2> QED
    BY <2>1, SharpKernelIs
<1>3. e = [x EXCEPT !.stamp = y]
  BY <1>2 DEF Packed, Sound
<1> HIDE DEF x, e
<1>4. e = [mem |-> x.mem, stamp |-> y]
  BY <1>2, <1>3 DEF Sound
<1>5. e.mem = x.mem /\ e.stamp = y
  BY <1>4
<1>6. Sound(e)
  BY <1>2, <1>4, <1>5 DEF Sound
<1>7. Same(d, e, TowerSlots \ SharpSlots)
  <2>1. \A s \in TowerSlots \ SharpSlots : y[s] = d.stamp[s]
    BY SharpSlotsAre
  <2> HIDE DEF y
  <2> QED
    BY <1>2, <1>5, <2>1 DEF Same
<1>8. ASSUME NEW s \in SharpNames, NEW m \in Modes
      PROVE  y[<<"sharp", s>>][m] =
               Stamp(d.stamp[SharpOf[s]][-m].token, Fewer(d.stamp[SharpOf[s]][-m].orders, n))
  <2>1. <<"sharp", s>> \in TowerSlots
    BY SharpSources
  <2> QED
    BY <2>1
<1> HIDE DEF y
<1> QED
  BY <1>2, <1>5, <1>6, <1>7, <1>8 DEF e

LEMMA PackedWhole ==
  ASSUME NEW d, Sound(d), NEW n \in Nat, n >= 1, NEW s \in SharpNames, NEW id \in Int, NEW rate \in Int,
         NEW token, NEW has \in Nat, has >= n, HasKind(d, SharpOf[s], "inband", id, rate, token, has)
  PROVE  HasKind(Packed(d, n), <<"sharp", s>>, "inband", id, rate, token, n)
<1> DEFINE e == Packed(d, n)
           t == <<"sharp", s>>
<1>1. /\ Holds(d.mem, SharpOf[s], id, rate, {}) /\ Stamped(d, SharpOf[s], token, has)
  BY DEF HasKind, Extra
<1>2. /\ e.mem = After(d.mem, SharpKernel)
      /\ \A m \in Modes : e.stamp[t][m] =
              Stamp(d.stamp[SharpOf[s]][-m].token, Fewer(d.stamp[SharpOf[s]][-m].orders, n))
  BY PackedKeeps
<1> HIDE DEF e
<1>3. Holds(e.mem, t, id, rate, {})
  <2>1. ReadsHold(d.mem, SharpKernel, t, id, rate)
    <3>1. ASSUME NEW r \in SharpKernel, r.slot = t
          PROVE  /\ r.reads # {} /\ r.raise \in Int
                 /\ \A q \in r.reads :
                      /\ q.sign \in {1, -1} /\ q.rate \in Int
                      /\ Holds(d.mem, q.slot, id, rate - r.raise + q.rate, {})
      <4>1. PICK u \in SharpNames : /\ r.slot = <<"sharp", u>>
                                    /\ \A q \in r.reads : q.slot = SharpOf[u] /\ q.sign = -1 /\ q.rate = 0
        BY SharpKernelIs DEF MirrorOf
      <4>2. u = s
        BY <3>1, <4>1
      <4>3. r.raise = 0 /\ r.reads # {}
        BY SharpKernelIs
      <4>4. ASSUME NEW q \in r.reads
            PROVE  Holds(d.mem, q.slot, id, rate - r.raise + q.rate, {})
        <5>1. q.slot = SharpOf[s] /\ rate - r.raise + q.rate = rate
          BY <4>1, <4>2, <4>3
        <5> QED
          BY <1>1, <5>1
      <4> QED
        BY <4>1, <4>3, <4>4
    <3> QED
      BY <3>1 DEF ReadsHold
  <2>2. t \in DOMAIN d.mem /\ t \in Written(SharpKernel)
    BY SharpSources, SharpKernelIs DEF Sound, SharpSlots
  <2>3. Holds(After(d.mem, SharpKernel), t, id, rate, {})
    BY <2>1, <2>2, LaunchHolds
  <2> QED
    BY <1>2, <2>3
<1>4. Stamped(e, t, token, n)
  <2>1. ASSUME NEW m \in Modes PROVE e.stamp[t][m] = [token |-> token, orders |-> n]
    <3>1. -m \in Modes
      BY ModesAssumption
    <3>2. d.stamp[SharpOf[s]][-m] = [token |-> token, orders |-> has]
      BY <1>1, <3>1 DEF Stamped
    <3>3. Fewer(has, n) = n
      BY DEF Fewer
    <3> QED
      BY <1>2, <3>2, <3>3 DEF Stamp
  <2> QED
    BY <2>1 DEF Stamped
<1> QED
  BY <1>3, <1>4 DEF HasKind, Extra, e, t

\* What is read nothing of has nothing.
LEMMA PackedBand ==
  ASSUME NEW d, Sound(d), NEW n, NEW s \in SharpNames, Void(d, SharpOf[s]), NEW m \in Modes
  PROVE  Packed(d, n).mem[<<"sharp", s>>][m] = {}
<1> DEFINE t == <<"sharp", s>>
<1>1. Packed(d, n).mem = After(d.mem, SharpKernel)
  BY PackedKeeps
<1>2. t \in DOMAIN d.mem /\ t \in Written(SharpKernel)
  BY SharpSources, SharpKernelIs DEF Sound, SharpSlots
<1>3. After(d.mem, SharpKernel)[t][m] = UNION {Result(d.mem, r, m) : r \in {q \in SharpKernel : q.slot = t}}
  BY <1>2 DEF After, Written
<1>4. ASSUME NEW r \in SharpKernel, r.slot = t PROVE Result(d.mem, r, m) = {}
  <2>1. PICK u \in SharpNames : /\ r.slot = <<"sharp", u>>
                                /\ \A q \in r.reads : q.slot = SharpOf[u] /\ q.sign = -1 /\ q.rate = 0
    BY SharpKernelIs DEF MirrorOf
  <2>2. u = s
    BY <1>4, <2>1
  <2>3. ASSUME NEW q \in r.reads PROVE d.mem[q.slot][q.sign * m] = {}
    <3>1. -1 \in {1, -1}
      OBVIOUS
    <3>2. (-1) * m \in Modes
      BY <3>1, SignedMode
    <3>3. q.slot = SharpOf[s] /\ q.sign = -1
      BY <2>1, <2>2
    <3>4. q.sign * m = (-1) * m
      BY <3>3
    <3>5. q.sign * m \in Modes
      BY <3>2, <3>4
    <3> QED
      BY <3>3, <3>5 DEF Void
  <2> QED
    BY <2>3 DEF Result
<1> QED
  BY <1>1, <1>3, <1>4

-----------------------------------------------------------------------------
(* Pass 3 *)

TermNames == {"ethC", "ethPi", "ethPrimeBSharp", "ethPrimeCSharp"}
TermValue(t) == Pass3Terms[t][1]
TermDt(t) == Pass3Terms[t][2]
Pass3Of ==
  [s \in Pass3Slots |-> [value |-> TermValue(s[2]), dt |-> {Dt(TermDt(s[2])[1], TermDt(s[2])[2])}]]
Pass3From(l, g) ==
  [s \in Pass3Slots |-> {Source(TermValue(s[2]), GenerationToken(g)),
                         Source(TermDt(s[2]), PassToken(g, l, 2))}]
Pass3Packed(d, l) == Packed(Cleared(d, Pass3Slots), NextOrders(l))
Pass3Rows(d, l, g) ==
  RowsStamped(Angular(Pass3Packed(d, l), Pass3Of), Pass3From(l, g), NextOrders(l), PassToken(g, l, 3))
Pass3Ready(d, l, g) ==
  /\ AllBear(d, ViewOf("next", PassFields[1]), PassToken(g, l, 1), NextOrders(l))
  /\ AllBear(d, ViewOf("next", PassFields[2]), PassToken(g, l, 2), NextOrders(l))
  /\ ExternalReady(d, Pass3Slots, l, g, PassToken(g, l, 3))
Pass3Passed(d, l, g, fault) ==
  LaunchPass(Pass3Rows(d, l, g), 3, l, g, Pass3Ready(Pass3Rows(d, l, g), l, g), fault)
NextU == <<"next", "U">>

LEMMA TermNamesAre == DOMAIN Pass3Terms = TermNames /\ Pass3Slots = {"pass3"} \X TermNames
  BY DEF Pass3Terms, TermNames, Pass3Slots

LEMMA Pass3Begins ==
  ASSUME NEW d, NEW l, NEW g, NEW fault
  PROVE  Pass3(d, l, g, fault) =
           Cleared(PublishMetric(Pass3Passed(d, l, g, fault), OwnMetric(l + 1), l + 1, g,
                                 AllBear(Pass3Passed(d, l, g, fault), {NextU}, PassToken(g, l, 3),
                                         NextOrders(l))),
                   ViewOf("next", MetricFields))
<1>1. {"pass3"} \X DOMAIN Pass3Terms = Pass3Slots
  BY TermNamesAre
<1>2. PackSharpPairs(Cleared(d, Pass3Slots), l) = Pass3Packed(d, l)
  BY PackedIs DEF Pass3Packed
<1> QED
  BY <1>1, <1>2, Zenon DEF Pass3, Pass3Passed, Pass3Ready, Pass3Rows, Pass3Of, Pass3From,
                           TermValue, TermDt, NextU, ViewOf

LEMMA TermPairs ==
  /\ TermValue("ethC") = <<"current", "C">> /\ TermDt("ethC") = <<"next", "C">>
  /\ TermValue("ethPi") = <<"current", "Pi">> /\ TermDt("ethPi") = <<"next", "Pi">>
  /\ TermValue("ethPrimeBSharp") = <<"sharp", "B">> /\ TermDt("ethPrimeBSharp") = <<"sharp", "BT">>
  /\ TermValue("ethPrimeCSharp") = <<"sharp", "C">> /\ TermDt("ethPrimeCSharp") = <<"sharp", "CT">>
  BY DEF Pass3Terms, TermValue, TermDt

\* The slots the terms are made of.
Values == ViewOf("current", MetricFields) \cup {<<"sharp", "B">>, <<"sharp", "C">>}
Rates == ViewOf("next", PassFields[2]) \cup {<<"sharp", "BT">>, <<"sharp", "CT">>}

LEMMA TermSlots ==
  /\ \A t \in TermNames : TermValue(t) \in Values /\ TermDt(t) \in Rates
  /\ \A s \in Values \cup Rates : s \in TowerSlots /\ s \notin Pass3Slots /\ s = <<s[1], s[2]>>
<1>1. \A t \in TermNames : TermValue(t) \in Values /\ TermDt(t) \in Rates
  BY TermPairs DEF TermNames, Values, Rates, ViewOf, MetricFields, PassFields
<1>2. /\ ViewOf("current", MetricFields) \subseteq TowerSlots
      /\ ViewOf("next", PassFields[2]) \subseteq TowerSlots
  <2>1. 2 \in 1 .. 3
    OBVIOUS
  <2>2. PassFields[2] \in SUBSET MetricFields
    BY <2>1, PassFieldsAre
  <2>3. ViewOf("next", PassFields[2]) \subseteq ViewOf("next", MetricFields)
    BY <2>2 DEF ViewOf
  <2> QED
    BY <2>3, MetricSlots
<1>3. \A s \in SharpNames : <<"sharp", s>> \in TowerSlots
  BY SharpSources
<1>4. ASSUME NEW s \in Values \cup Rates
      PROVE  s \in TowerSlots /\ s[1] \in {"current", "next", "sharp"} /\ s = <<s[1], s[2]>>
  <2>1. CASE s \in ViewOf("current", MetricFields)
    BY <1>2, <2>1 DEF ViewOf
  <2>2. CASE s \in ViewOf("next", PassFields[2])
    BY <1>2, <2>2 DEF ViewOf
  <2>3. CASE s \in {<<"sharp", "B">>, <<"sharp", "C">>, <<"sharp", "BT">>, <<"sharp", "CT">>}
    <3>1. PICK n \in SharpNames : s = <<"sharp", n>>
      BY <2>3 DEF SharpNames
    <3> QED
      BY <1>3, <3>1
  <2> QED
    BY <2>1, <2>2, <2>3 DEF Values, Rates
<1>5. \A s \in Pass3Slots : s[1] = "pass3"
  BY PairIn DEF Pass3Slots
<1> QED
  BY <1>1, <1>4, <1>5

LEMMA Pass3OfIs ==
  /\ DOMAIN Pass3Of = Pass3Slots /\ Pass3Slots \subseteq TowerSlots /\ AngularReads(Pass3Of)
  /\ \A s \in Pass3Slots :
       /\ Pass3Of[s].value \in Values
       /\ \A q \in Pass3Of[s].dt : q.slot \in Rates /\ q.rate = 1
  /\ \A l, g : DOMAIN Pass3From(l, g) = Pass3Slots
<1>1. \A s \in Pass3Slots : s = <<s[1], s[2]>> /\ s[2] \in TermNames
  BY TermNamesAre, PairIn
<1>2. Pass3Slots \subseteq TowerSlots
  BY ScratchSlots DEF Pass3Slots, ViewOf
<1>3. ASSUME NEW s \in Pass3Slots
      PROVE  /\ s = <<s[1], s[2]>>
             /\ Pass3Of[s].value \in Values /\ Pass3Of[s].value \in TowerSlots
             /\ Pass3Of[s].value = <<Pass3Of[s].value[1], Pass3Of[s].value[2]>>
             /\ \A q \in Pass3Of[s].dt : q.slot \in Rates /\ q.rate = 1 /\ q.sign = 1
                                         /\ q.slot \in TowerSlots
  <2>1. TermValue(s[2]) \in Values /\ TermDt(s[2]) \in Rates
    BY <1>1, TermSlots
  <2>2. /\ Pass3Of[s].value = TermValue(s[2])
        /\ Pass3Of[s].dt = {Dt(TermDt(s[2])[1], TermDt(s[2])[2])}
    BY DEF Pass3Of
  <2>3. PICK q : q = Dt(TermDt(s[2])[1], TermDt(s[2])[2])
    OBVIOUS
  <2>4. q.slot = TermDt(s[2]) /\ q.rate = 1 /\ q.sign = 1
    BY <2>1, <2>3, TermSlots DEF Dt
  <2> QED
    BY <1>1, <2>1, <2>2, <2>3, <2>4, TermSlots
<1>4. DOMAIN Pass3Of = Pass3Slots /\ \A l, g : DOMAIN Pass3From(l, g) = Pass3Slots
  BY DEF Pass3Of, Pass3From
<1>5. AngularReads(Pass3Of)
  <2>1. 1 \in Int /\ 1 \in {1, -1}
    OBVIOUS
  <2> HIDE DEF Pass3Of
  <2> QED
    BY <1>3, <1>4, <2>1 DEF AngularReads
<1> QED
  BY <1>2, <1>3, <1>4, <1>5

\* The fields of level l and their mirror images, and the time derivatives of them
\* that pass 2 has left.
LEMMA PackedStands ==
  ASSUME NEW d, NEW l \in 0 .. 3, NEW g, NEW id \in Int,
         NEW a, NEW c, NEW b, Ground(d, a, c, b, id, l, g), NEW q, q = "inband" => b = "inband",
         BothLeft(d, q, id, l, g)
  PROVE  LET x == Pass3Packed(d, l)
         IN  /\ Sound(x) /\ Same(d, x, TowerSlots \ (Pass3Slots \cup SharpSlots))
             /\ \A s \in Values : IF b = "inband"
                                  THEN /\ Holds(x.mem, s, id, l, {})
                                       /\ \E has \in Nat : has >= NextOrders(l) /\ Stamped(x, s, GenerationToken(g), has)
                                  ELSE \A m \in Modes : x.mem[s][m] = {}
             /\ q = "inband" => \A s \in Rates : HasKind(x, s, "inband", id, l + 1, PassToken(g, l, 2), NextOrders(l))
<1> DEFINE T2 == PassToken(g, l, 2)
           G == GenerationToken(g)
           n == NextOrders(l)
           o == OrdersAt(l)
           y == Cleared(d, Pass3Slots)
           x == Packed(y, n)
           Current == ViewOf("current", MetricFields)
           Next2 == ViewOf("next", PassFields[2])
<1>0. Pass3Packed(d, l) = x
  BY DEF Pass3Packed
<1>1. /\ n \in Nat /\ n >= 1 /\ n >= n /\ l \in Int /\ l + 1 \in Int /\ o \in Nat /\ o >= n
  BY NextOf
<1>2. Sound(d) /\ b \in {"void", "inband"} /\ Group(d, Current, b, id, l, G, o)
  BY DEF Ground, MetricStands
<1>3. q = "inband" => Group(d, Next2, "inband", id, l + 1, T2, n)
  BY DEF BothLeft, PassLeft, NextStands
<1>4. /\ Current \subseteq TowerSlots /\ Next2 \subseteq TowerSlots
      /\ \A s \in Current \cup Next2 : s \notin Pass3Slots /\ s \notin SharpSlots
  <2>1. Current \subseteq Values /\ Next2 \subseteq Rates
    BY DEF Values, Rates
  <2>2. \A s \in Current : s[1] = "current"
    BY PairIn DEF ViewOf
  <2>3. \A s \in Next2 : s[1] = "next"
    BY PairIn DEF ViewOf
  <2> HIDE DEF Current, Next2
  <2> QED
    BY <2>1, <2>2, <2>3, TermSlots, SharpSlotsAre
<1>20. /\ <<"current", "B">> \in Current /\ <<"current", "C">> \in Current
       /\ <<"next", "B">> \in Next2 /\ <<"next", "C">> \in Next2
  BY DEF ViewOf, MetricFields, PassFields
<1> HIDE DEF T2, G, n, o, Current, Next2
<1>5. Sound(y) /\ Same(d, y, TowerSlots \ Pass3Slots)
  BY <1>2, ClearedKeeps
<1> HIDE DEF y
<1>6. /\ \A s \in Current : HasKind(y, s, b, id, l, G, o)
      /\ q = "inband" => \A s \in Next2 : HasKind(y, s, "inband", id, l + 1, T2, n)
  <2>1. \A s \in Current \cup Next2 : y.mem[s] = d.mem[s] /\ y.stamp[s] = d.stamp[s]
    BY <1>4, <1>5 DEF Same
  <2> QED
    BY <1>2, <1>3, <2>1, KindSame DEF Group
<1>7. /\ Sound(x) /\ Same(y, x, TowerSlots \ SharpSlots)
  BY <1>5, PackedKeeps
<1>8. \A s \in Current \cup Next2 : x.mem[s] = y.mem[s] /\ x.stamp[s] = y.stamp[s]
  BY <1>4, <1>7 DEF Same
<1>9. ASSUME NEW s \in {"B", "C"}
      PROVE  /\ b = "inband" => HasKind(x, <<"sharp", s>>, "inband", id, l, G, n)
             /\ b = "void" => \A m \in Modes : x.mem[<<"sharp", s>>][m] = {}
  <2>1. s \in SharpNames /\ SharpOf[s] \in Current
    BY <1>20, SharpOfIs DEF SharpNames
  <2>2. HasKind(y, SharpOf[s], b, id, l, G, o)
    BY <1>6, <2>1
  <2>3. b = "inband" => HasKind(x, <<"sharp", s>>, "inband", id, l, G, n)
    BY <1>1, <1>5, <2>1, <2>2, PackedWhole
  <2>4. ASSUME b = "void", NEW m \in Modes PROVE x.mem[<<"sharp", s>>][m] = {}
    <3>1. Void(y, SharpOf[s])
      BY <2>2, <2>4 DEF HasKind
    <3> QED
      BY <1>5, <2>1, <3>1, PackedBand
  <2> QED
    BY <2>3, <2>4
<1>10. ASSUME q = "inband", NEW s \in {"BT", "CT"}
       PROVE  HasKind(x, <<"sharp", s>>, "inband", id, l + 1, T2, n)
  <2>1. s \in SharpNames /\ SharpOf[s] \in Next2
    BY <1>20, SharpOfIs DEF SharpNames
  <2>2. HasKind(y, SharpOf[s], "inband", id, l + 1, T2, n)
    BY <1>6, <1>10, <2>1
  <2> QED
    BY <1>1, <1>5, <2>1, <2>2, PackedWhole
<1> HIDE DEF x
<1>11. Same(d, x, TowerSlots \ (Pass3Slots \cup SharpSlots))
  BY <1>5, <1>7 DEF Same
<1>12. ASSUME NEW s \in Values
       PROVE  IF b = "inband"
              THEN Holds(x.mem, s, id, l, {}) /\ \E has \in Nat : has >= n /\ Stamped(x, s, G, has)
              ELSE \A m \in Modes : x.mem[s][m] = {}
  <2>1. CASE s \in Current
    <3>1. HasKind(x, s, b, id, l, G, o)
      BY <1>6, <1>8, <2>1, KindSame
    <3> QED
      BY <1>1, <1>2, <3>1 DEF HasKind, Extra, Void
  <2>2. CASE s \in {<<"sharp", "B">>, <<"sharp", "C">>}
    <3>1. PICK f \in {"B", "C"} : s = <<"sharp", f>>
      BY <2>2
    <3>2. CASE b = "inband"
      <4>1. HasKind(x, s, "inband", id, l, G, n)
        BY <1>9, <3>1, <3>2
      <4> QED
        BY <1>1, <3>2, <4>1 DEF HasKind, Extra
    <3>3. CASE b = "void"
      BY <1>9, <3>1, <3>3
    <3> QED
      BY <1>2, <3>2, <3>3
  <2> QED
    BY <2>1, <2>2 DEF Values, Current
<1>13. ASSUME q = "inband", NEW s \in Rates
       PROVE  HasKind(x, s, "inband", id, l + 1, T2, n)
  <2>1. CASE s \in Next2
    BY <1>6, <1>8, <1>13, <2>1, KindSame
  <2>2. CASE s \in {<<"sharp", "BT">>, <<"sharp", "CT">>}
    <3>1. PICK f \in {"BT", "CT"} : s = <<"sharp", f>>
      BY <2>2
    <3> QED
      BY <1>10, <1>13, <3>1
  <2> QED
    BY <2>1, <2>2 DEF Rates, Next2
<1> QED
  BY <1>0, <1>7, <1>11, <1>12, <1>13 DEF G, n, T2

LEMMA Pass3RowsDone ==
  ASSUME NEW d, NEW l \in 0 .. 3, NEW g, NEW id \in Int,
         NEW a, NEW c, NEW b, Ground(d, a, c, b, id, l, g), NEW q, q = "inband" => b = "inband",
         BothLeft(d, q, id, l, g)
  PROVE  LET e == Pass3Rows(d, l, g)
         IN  /\ Sound(e) /\ Same(d, e, TowerSlots \ (Pass3Slots \cup SharpSlots))
             /\ q = "inband" => Group(e, Pass3Slots, "inband", id, l, PassToken(g, l, 3), NextOrders(l))
<1> DEFINE T == PassToken(g, l, 3)
           T2 == PassToken(g, l, 2)
           G == GenerationToken(g)
           n == NextOrders(l)
           x == Pass3Packed(d, l)
           e == RowsStamped(Angular(x, Pass3Of), Pass3From(l, g), n, T)
<1>0. Pass3Rows(d, l, g) = e
  BY DEF Pass3Rows
<1>1. /\ n \in Nat /\ n >= 1 /\ n >= n /\ l \in Int /\ l + 1 \in Int
  BY NextOf
<1>2. /\ Sound(x) /\ Same(d, x, TowerSlots \ (Pass3Slots \cup SharpSlots))
      /\ \A s \in Values : IF b = "inband"
                           THEN Holds(x.mem, s, id, l, {}) /\ \E has \in Nat : has >= n /\ Stamped(x, s, G, has)
                           ELSE \A m \in Modes : x.mem[s][m] = {}
      /\ q = "inband" => \A s \in Rates : HasKind(x, s, "inband", id, l + 1, T2, n)
  BY PackedStands
<1> HIDE DEF T, T2, G, n, x
<1>3. AngularInBand(x, Pass3Of)
  <2>1. ASSUME NEW s \in Values, NEW m \in Modes PROVE OffBand \notin x.mem[s][m]
    <3>1. CASE b = "inband"
      <4>1. {} \in Extras /\ Holds(x.mem, s, id, l, {})
        BY <1>2, <3>1 DEF Extras
      <4>2. \A k \in Modes : OffBand \notin x.mem[s][k]
        BY <1>1, <4>1, HoldsFinite
      <4> QED
        BY <4>2
    <3>2. CASE b # "inband"
      BY <1>2, <3>2
    <3> QED
      BY <3>1, <3>2
  <2> QED
    BY <2>1, Pass3OfIs DEF AngularInBand
<1>4. /\ DOMAIN Pass3Of \subseteq TowerSlots /\ AngularReads(Pass3Of)
      /\ DOMAIN Pass3From(l, g) = DOMAIN Pass3Of /\ DOMAIN Pass3Of = Pass3Slots
  BY Pass3OfIs
<1>5. Sound(e) /\ Same(x, e, TowerSlots \ DOMAIN Pass3Of)
  BY <1>1, <1>2, <1>3, <1>4, AngularRowsKeep
<1>6. ASSUME q = "inband" PROVE Group(e, Pass3Slots, "inband", id, l, T, n)
  <2>0. b = "inband"
    BY <1>6
  <2>1. TermsHold(x, Pass3Of, id, l)
    <3>1. ASSUME NEW s \in Pass3Slots
          PROVE  /\ Holds(x.mem, Pass3Of[s].value, id, l, {})
                 /\ \A r \in Pass3Of[s].dt : Holds(x.mem, r.slot, id, l + r.rate, {})
      <4>1. Holds(x.mem, Pass3Of[s].value, id, l, {})
        BY <1>2, <2>0, Pass3OfIs
      <4>2. ASSUME NEW r \in Pass3Of[s].dt PROVE Holds(x.mem, r.slot, id, l + r.rate, {})
        <5>1. r.slot \in Rates /\ r.rate = 1
          BY Pass3OfIs
        <5>2. HasKind(x, r.slot, "inband", id, l + 1, T2, n)
          BY <1>2, <1>6, <5>1
        <5> QED
          BY <5>1, <5>2 DEF HasKind, Extra
      <4> QED
        BY <4>1, <4>2
    <3> QED
      BY <1>4, <3>1 DEF TermsHold
  <2>2. SourcesStamped(x, Pass3From(l, g), n)
    <3>1. ASSUME NEW s \in Pass3Slots, NEW from \in Pass3From(l, g)[s]
          PROVE  /\ from.slot \notin Pass3Slots /\ from.slot \in TowerSlots
                 /\ \E has \in Nat : has >= n /\ Stamped(x, from.slot, from.token, has)
      <4>1. s[2] \in TermNames
        BY TermNamesAre, PairIn
      <4>2. TermValue(s[2]) \in Values /\ TermDt(s[2]) \in Rates
        BY <4>1, TermSlots
      <4>3. from = Source(TermValue(s[2]), G) \/ from = Source(TermDt(s[2]), T2)
        BY DEF Pass3From, G, T2
      <4>4. CASE from = Source(TermValue(s[2]), G)
        <5>1. from.slot = TermValue(s[2]) /\ from.token = G
          BY <4>4 DEF Source
        <5> QED
          BY <1>2, <2>0, <4>2, <5>1, TermSlots
      <4>5. CASE from = Source(TermDt(s[2]), T2)
        <5>1. from.slot = TermDt(s[2]) /\ from.token = T2
          BY <4>5 DEF Source
        <5>2. HasKind(x, TermDt(s[2]), "inband", id, l + 1, T2, n)
          BY <1>2, <1>6, <4>2
        <5>3. Stamped(x, TermDt(s[2]), T2, n)
          BY <5>2 DEF HasKind
        <5> QED
          BY <1>1, <4>2, <5>1, <5>3, TermSlots
      <4> QED
        BY <4>3, <4>4, <4>5
    <3> QED
      BY <1>4, <3>1 DEF SourcesStamped
  <2>3. Group(e, DOMAIN Pass3Of, "inband", id, l, T, n)
    BY <1>1, <1>2, <1>4, <2>1, <2>2, AngularRowsWhole
  <2> HIDE DEF e
  <2> QED
    BY <1>4, <2>3
<1> HIDE DEF e
<1>7. Same(d, e, TowerSlots \ (Pass3Slots \cup SharpSlots))
  BY <1>2, <1>4, <1>5 DEF Same
<1> QED
  BY <1>0, <1>5, <1>6, <1>7 DEF T, n

LEMMA Pass3PassedDone ==
  ASSUME NEW d, NEW l \in 0 .. 3, NEW g, NEW fault, Located(fault), NEW id \in Int,
         NEW a, NEW c, NEW b, Ground(d, a, c, b, id, l, g), NEW q \in {"void", "inband"},
         q = "inband" => b = "inband", BothLeft(d, q, id, l, g)
  PROVE  LET e == Pass3Passed(d, l, g, fault)
         IN  /\ Sound(e) /\ Frame(d, e, {"pass3", "sharp", "next"}, {"h"}, l + 1)
             /\ IF q = "inband" /\ fault.at # PassAt(3, l)
                THEN /\ BothLeft(e, "inband", id, l, g)
                     /\ NextStands(e, PassFields[3], PassToken(g, l, 3), "marked", id, l)
                ELSE NextVoid(e, l)
<1> DEFINE T1 == PassToken(g, l, 1)
           T2 == PassToken(g, l, 2)
           T == PassToken(g, l, 3)
           G == GenerationToken(g)
           n == NextOrders(l)
           x == Pass3Rows(d, l, g)
           ready == Pass3Ready(x, l, g)
           e == LaunchPass(x, 3, l, g, ready, fault)
           views == {"pass3", "sharp", "next"}
           F1 == PassFields[1]
           F2 == PassFields[2]
           F == PassFields[3]
<1>0. Pass3Passed(d, l, g, fault) = e
  BY DEF Pass3Passed
<1>1. /\ n \in Nat /\ n >= 1 /\ n >= n /\ l \in Levels /\ l \in Int /\ l + 1 \in Int
  BY NextOf
<1>2. /\ Sound(x) /\ Same(d, x, TowerSlots \ (Pass3Slots \cup SharpSlots))
      /\ q = "inband" => Group(x, Pass3Slots, "inband", id, l, T, n)
  BY Pass3RowsDone
<1>20. /\ F1 \in SUBSET MetricFields /\ F2 \in SUBSET MetricFields
       /\ F1 \cap F = {} /\ F2 \cap F = {} /\ F1 # {}
  BY DEF PassFields, MetricFields
<1> HIDE DEF x, T, n, T1, T2, F1, F2, F
<1>3. \A s \in Pass3Slots \cup SharpSlots : s[1] \in {"pass3", "sharp"}
  <2>1. \A s \in Pass3Slots : s[1] = "pass3"
    BY PairIn DEF Pass3Slots
  <2>2. \A s \in SharpSlots : s[1] = "sharp"
    BY PairIn DEF SharpSlots
  <2> QED
    BY <2>1, <2>2
<1>6. Frame(d, x, views, {"h"}, l + 1)
  <2>1. Touched(Pass3Slots \cup SharpSlots, views, {"h"}, l + 1)
    BY <1>3 DEF Touched, Apart
  <2> QED
    BY <1>2, <2>1, FrameOf
<1>7. SparesGround(views)
  BY DEF SparesGround
<1>8. Ground(x, a, c, b, id, l, g)
  BY <1>2, <1>6, <1>7, GroundKept
<1>9. 3 \in 1 .. 3
  OBVIOUS
<1>13. Between(d, x, {"pass3", "sharp"}, {}, l + 1)
  <2>1. \A s \in Pass3Slots \cup SharpSlots : ~Aside(s, {"pass3", "sharp"}, {}, l + 1)
    BY <1>3 DEF Aside
  <2> QED
    BY <1>2, <2>1 DEF Between, Same
<1>14. ASSUME NEW others \in SUBSET MetricFields, NEW t, NEW kind, NEW i,
              NextStands(d, others, t, kind, i, l)
       PROVE  NextStands(x, others, t, kind, i, l)
  <2>1. others \cap {} = {} /\ "next" \notin {"pass3", "sharp"} /\ "h" \notin {"pass3", "sharp"}
    OBVIOUS
  <2> QED
    BY <1>13, <1>14, <2>1, NextKept
<1>11. CASE q = "inband" /\ fault.at # PassAt(3, l)
  <2>1. Group(x, Pass3Slots, "inband", id, l, T, n)
    BY <1>2, <1>11
  <2>2. MetricStands(x, "inband", id, l, g)
    BY <1>8, <1>11 DEF Ground
  <2>3. /\ NextStands(x, F1, T1, "inband", id, l)
        /\ NextStands(x, F2, T2, "inband", id, l)
    <3>1. NextStands(d, F1, T1, "inband", id, l) /\ NextStands(d, F2, T2, "inband", id, l)
      BY <1>11 DEF BothLeft, PassLeft, F1, F2, T1, T2
    <3> QED
      BY <1>14, <1>20, <3>1
  <2>4. "inband" \in Kinds \ {"void"} /\ Extra("inband") = {}
    BY DEF Kinds, Extra
  <2>5. ready
    <3>1. ExternalReady(x, Pass3Slots, l, g, T)
      BY <1>1, <2>1, <2>2, ExternalFound DEF n
    <3>2. AllBear(x, ViewOf("next", F1), T1, n)
      <4>1. Group(x, ViewOf("next", F1), "inband", id, l + 1, T1, n)
        BY <2>3 DEF NextStands, n
      <4> QED
        BY <1>1, <2>4, <4>1, GroupReady
    <3>3. AllBear(x, ViewOf("next", F2), T2, n)
      <4>1. Group(x, ViewOf("next", F2), "inband", id, l + 1, T2, n)
        BY <2>3 DEF NextStands, n
      <4> QED
        BY <1>1, <2>4, <4>1, GroupReady
    <3> QED
      BY <3>1, <3>2, <3>3 DEF Pass3Ready, T, T1, T2, n, F1, F2
  <2>6. AllRead(x, MetricLevel(l) \cup PassTerms[3], id, l)
    <3>2. Group(x, MetricLevel(l), "inband", id, l, G, OrdersAt(l))
      BY <2>2 DEF MetricStands
    <3>3. PassTerms[3] = Pass3Slots
      BY DEF PassTerms
    <3>4. \A s \in MetricLevel(l) : Holds(x.mem, s, id, l, {})
      BY <2>4, <3>2, HoldsOf
    <3>5. \A s \in Pass3Slots : Holds(x.mem, s, id, l, {})
      BY <2>1, <2>4, HoldsOf
    <3> QED
      BY <3>3, <3>4, <3>5 DEF AllRead
  <2> HIDE DEF ready
  <2>7. /\ Sound(e) /\ NextStands(e, F, T, "marked", id, l)
        /\ Between(x, e, {}, F, l + 1)
    BY <1>2, <1>9, <1>11, <2>5, <2>6, LaunchWhole DEF T, F
  <2> HIDE DEF e
  <2>8. /\ NextStands(e, F1, T1, "inband", id, l) /\ NextStands(e, F2, T2, "inband", id, l)
    <3>1. "next" \notin {} /\ "h" \notin {}
      OBVIOUS
    <3> QED
      BY <1>20, <2>3, <2>7, <3>1, NextKept
  <2>9. Frame(x, e, views, {"h"}, l + 1)
    BY <2>7 DEF Between, Aside, Frame, Apart
  <2>10. Frame(d, e, views, {"h"}, l + 1)
    BY <1>6, <2>9, FrameThen
  <2>11. BothLeft(e, "inband", id, l, g)
    BY <2>8 DEF BothLeft, PassLeft, F1, F2, T1, T2
  <2> QED
    BY <1>0, <1>11, <2>7, <2>10, <2>11 DEF T, F
<1>12. CASE ~(q = "inband" /\ fault.at # PassAt(3, l))
  <2>1. fault.at = PassAt(3, l) \/ ~ready
    <3>1. CASE q = "void"
      <4>1. NextVoid(d, l)
        BY <3>1 DEF BothLeft
      <4>2. NextStands(d, F1, T1, "void", id, l)
        BY <1>20, <4>1 DEF NextVoid
      <4>3. NextStands(x, F1, T1, "void", id, l)
        BY <1>14, <1>20, <4>2
      <4>4. Group(x, ViewOf("next", F1), "void", id, l + 1, T1, n)
        BY <4>3 DEF NextStands, n
      <4>5. PICK f : f \in F1
        BY <1>20
      <4>6. <<"next", f>> \in ViewOf("next", F1)
        BY <4>5 DEF ViewOf
      <4>7. ~AllBear(x, ViewOf("next", F1), T1, n)
        BY <1>1, <4>4, <4>6, VoidRefused
      <4> QED
        BY <4>7 DEF Pass3Ready, T1, n, F1
    <3> QED
      BY <1>12, <3>1
  <2> HIDE DEF ready
  <2>2. /\ Sound(e) /\ NextVoid(e, l) /\ Frame(x, e, {"next"}, {"h"}, l + 1)
    BY <1>2, <1>9, <2>1, LaunchVoid
  <2> HIDE DEF e
  <2>7. Frame(x, e, views, {"h"}, l + 1)
    BY <2>2 DEF Frame, Apart
  <2>8. Frame(d, e, views, {"h"}, l + 1)
    BY <1>6, <2>7, FrameThen
  <2> QED
    BY <1>0, <1>12, <2>2, <2>8
<1> QED
  BY <1>11, <1>12

-----------------------------------------------------------------------------
(* The publication of the level *)

LEMMA HoldsMore ==
  ASSUME NEW memory, NEW s, NEW id \in Int, NEW rate \in Int, NEW extra \in Extras,
         Holds(memory, s, id, rate, {})
  PROVE  Holds(memory, s, id, rate, extra)
<1> SUFFICES ASSUME NEW m \in Modes
             PROVE  /\ memory[s][m] \ extra # {}
                    /\ memory[s][m] \subseteq Made(id, rate, m) \cup extra
                    /\ \A i \in memory[s][m] : Reflected(i) \in memory[s][-m]
  BY DEF Holds
<1>1. /\ memory[s][m] \ {} # {} /\ memory[s][m] \subseteq Made(id, rate, m) \cup {}
      /\ \A i \in memory[s][m] : Reflected(i) \in memory[s][-m]
  BY DEF Holds
<1>2. {} \in Extras
  BY DEF Extras
<1>3. \A k \in Modes : OffBand \notin memory[s][k]
  BY <1>2, HoldsFinite
<1>4. extra \subseteq {OffBand}
  BY DEF Extras
<1> QED
  BY <1>1, <1>3, <1>4

Pass3Ends(x, l, g) ==
  PublishMetric(x, OwnMetric(l + 1), l + 1, g,
                AllBear(x, {NextU}, PassToken(g, l, 3), NextOrders(l)))

LEMMA EndsReady ==
  ASSUME NEW x, NEW l, NEW g, AllBear(x, {NextU}, PassToken(g, l, 3), NextOrders(l))
  PROVE  Pass3Ends(x, l, g) = PublishMetric(x, OwnMetric(l + 1), l + 1, g, TRUE)
  BY Zenon DEF Pass3Ends, PublishMetric

LEMMA EndsRefused ==
  ASSUME NEW x, NEW l, NEW g, ~AllBear(x, {NextU}, PassToken(g, l, 3), NextOrders(l))
  PROVE  Pass3Ends(x, l, g) = PublishMetric(x, OwnMetric(l + 1), l + 1, g, FALSE)
  BY Zenon DEF Pass3Ends, PublishMetric

LEMMA FieldsLeft ==
  MetricFields = PassFields[1] \cup PassFields[2] \cup PassFields[3] /\ PassFields[3] = {"U"}
  BY DEF PassFields, MetricFields

\* Both projected passes and the third one are the fields of the level.
LEMMA LevelHeld ==
  ASSUME NEW x, NEW l \in 0 .. 3, NEW g, NEW id \in Int, BothLeft(x, "inband", id, l, g),
         NextStands(x, PassFields[3], PassToken(g, l, 3), "marked", id, l)
  PROVE  /\ \A f \in MetricFields \ {"U"} : Holds(x.mem, MetricJet(f, l + 1), id, l + 1, {})
         /\ FieldsHold(x, OwnMetric(l + 1), MetricFields, "marked", id, l + 1)
         /\ AllBear(x, {NextU}, PassToken(g, l, 3), NextOrders(l))
<1>1. l + 1 \in Levels /\ l + 1 \in Int /\ NextOrders(l) \in Nat /\ NextOrders(l) >= NextOrders(l)
  BY NextOf
<1>2. /\ "inband" \in Kinds \ {"void"} /\ Extra("inband") = {}
      /\ "marked" \in Kinds \ {"void"} /\ Extra("marked") = {OffBand}
      /\ {OffBand} \in Extras
  BY DEF Kinds, Extra, Extras
<1>3. /\ NextStands(x, PassFields[1], PassToken(g, l, 1), "inband", id, l)
      /\ NextStands(x, PassFields[2], PassToken(g, l, 2), "inband", id, l)
  BY DEF BothLeft, PassLeft
<1>4. ASSUME NEW f \in MetricFields \ {"U"} PROVE Holds(x.mem, MetricJet(f, l + 1), id, l + 1, {})
  <2>1. CASE f \in PassFields[1]
    <3>1. MetricJet(f, l + 1) \in FieldJets(PassFields[1], l + 1)
      BY <2>1 DEF FieldJets
    <3>2. Group(x, FieldJets(PassFields[1], l + 1), "inband", id, l + 1, NoToken, NextOrders(l))
      BY <1>3 DEF NextStands
    <3>3. Holds(x.mem, MetricJet(f, l + 1), id, l + 1, Extra("inband"))
      BY <1>2, <3>1, <3>2, HoldsOf, Zenon
    <3> QED
      BY <1>2, <3>3
  <2>2. CASE f \in PassFields[2]
    <3>1. MetricJet(f, l + 1) \in FieldJets(PassFields[2], l + 1)
      BY <2>2 DEF FieldJets
    <3>2. Group(x, FieldJets(PassFields[2], l + 1), "inband", id, l + 1, NoToken, NextOrders(l))
      BY <1>3 DEF NextStands
    <3>3. Holds(x.mem, MetricJet(f, l + 1), id, l + 1, Extra("inband"))
      BY <1>2, <3>1, <3>2, HoldsOf, Zenon
    <3> QED
      BY <1>2, <3>3
  <2> QED
    BY <2>1, <2>2, FieldsLeft
<1>5. Holds(x.mem, MetricJet("U", l + 1), id, l + 1, {OffBand})
  <2>1. MetricJet("U", l + 1) \in FieldJets(PassFields[3], l + 1)
    BY FieldsLeft DEF FieldJets
  <2>2. Group(x, FieldJets(PassFields[3], l + 1), "marked", id, l + 1, NoToken, NextOrders(l))
    BY DEF NextStands
  <2> QED
    BY <1>2, <2>1, <2>2, HoldsOf
<1>6. FieldsHold(x, OwnMetric(l + 1), MetricFields, "marked", id, l + 1)
  <2>1. /\ DOMAIN OwnMetric(l + 1) = MetricFields
        /\ \A f \in MetricFields : OwnMetric(l + 1)[f] = MetricJet(f, l + 1)
    BY DEF OwnMetric
  <2>2. \A f \in MetricFields : MetricJet(f, l + 1) \in TowerSlots
    BY <1>1, MetricSlots
  <2>3. \A f \in MetricFields : Holds(x.mem, MetricJet(f, l + 1), id, l + 1, {OffBand})
    BY <1>1, <1>2, <1>4, <1>5, HoldsMore
  <2> QED
    BY <1>2, <2>1, <2>2, <2>3 DEF FieldsHold
<1>7. AllBear(x, {NextU}, PassToken(g, l, 3), NextOrders(l))
  <2>1. Group(x, ViewOf("next", PassFields[3]), "marked", id, l + 1, PassToken(g, l, 3), NextOrders(l))
    BY DEF NextStands
  <2>2. NextU \in ViewOf("next", PassFields[3])
    BY FieldsLeft DEF NextU, ViewOf
  <2>3. Group(x, {NextU}, "marked", id, l + 1, PassToken(g, l, 3), NextOrders(l))
    BY <2>1, <2>2 DEF Group
  <2> QED
    BY <1>1, <1>2, <2>3, GroupReady
<1> QED
  BY <1>4, <1>6, <1>7

LEMMA VoidUnheard ==
  ASSUME NEW x, NEW l \in 0 .. 3, NEW g, NextVoid(x, l)
  PROVE  ~AllBear(x, {NextU}, PassToken(g, l, 3), NextOrders(l))
<1>1. PassFields[3] \in SUBSET MetricFields
  BY FieldsLeft
<1>2. NextStands(x, PassFields[3], PassToken(g, l, 3), "void", 0, l)
  BY <1>1 DEF NextVoid
<1>3. Group(x, ViewOf("next", PassFields[3]), "void", 0, l + 1, PassToken(g, l, 3), NextOrders(l))
  BY <1>2 DEF NextStands
<1>4. NextU \in ViewOf("next", PassFields[3]) /\ NextU \in {NextU}
  BY FieldsLeft DEF NextU, ViewOf
<1>5. Group(x, {NextU}, "void", 0, l + 1, PassToken(g, l, 3), NextOrders(l))
  BY <1>3, <1>4 DEF Group
<1>6. NextOrders(l) \in Nat /\ NextOrders(l) >= 1
  BY NextOf
<1> QED
  BY <1>4, <1>5, <1>6, VoidRefused

LEMMA Pass3Done ==
  ASSUME NEW d, NEW l \in 0 .. 3, NEW g, NEW fault, Located(fault), NEW id \in Int,
         NEW a, NEW c, NEW b, Ground(d, a, c, b, id, l, g), NEW q \in {"void", "inband"},
         q = "inband" => b = "inband", BothLeft(d, q, id, l, g)
  PROVE  LET e == Pass3(d, l, g, fault)
         IN  /\ Sound(e) /\ Frame(d, e, {"pass3", "sharp", "next", "current"}, {"h"}, l + 1)
             /\ IF q = "inband" /\ fault.at # PassAt(3, l)
                THEN /\ MetricStands(e, "marked", id, l + 1, g)
                     /\ \A f \in MetricFields \ {"U"} : Holds(e.mem, MetricJet(f, l + 1), id, l + 1, {})
                ELSE MetricStands(e, "void", id, l + 1, g)
<1> DEFINE x == Pass3Passed(d, l, g, fault)
           y == Pass3Ends(x, l, g)
           e == Cleared(y, ViewOf("next", MetricFields))
           views == {"pass3", "sharp", "next", "current"}
           good == q = "inband" /\ fault.at # PassAt(3, l)
<1>1. Pass3(d, l, g, fault) = e
  BY Pass3Begins DEF Pass3Ends
<1>12. /\ Sound(x) /\ Frame(d, x, {"pass3", "sharp", "next"}, {"h"}, l + 1)
       /\ IF good
          THEN /\ BothLeft(x, "inband", id, l, g)
               /\ NextStands(x, PassFields[3], PassToken(g, l, 3), "marked", id, l)
          ELSE NextVoid(x, l)
  <2>1. Sound(x)
    BY Pass3PassedDone
  <2>2. Frame(d, x, {"pass3", "sharp", "next"}, {"h"}, l + 1)
    BY Pass3PassedDone
  <2>3. CASE good
    BY <2>1, <2>2, <2>3, Pass3PassedDone
  <2>4. CASE ~good
    BY <2>1, <2>2, <2>4, Pass3PassedDone
  <2> QED
    BY <2>3, <2>4
<1> HIDE DEF x, good
<1>0. PICK k \in Levels : k = l + 1
  BY NextOf
<1>2. /\ Sound(x) /\ Frame(d, x, {"pass3", "sharp", "next"}, {"h"}, k)
      /\ IF good
         THEN /\ BothLeft(x, "inband", id, l, g)
              /\ NextStands(x, PassFields[3], PassToken(g, l, 3), "marked", id, l)
         ELSE NextVoid(x, l)
  BY <1>0, <1>12
<1>3. /\ Sound(y) /\ Frame(x, y, {"current"}, {"h"}, k)
      /\ IF good
         THEN /\ MetricStands(y, "marked", id, k, g)
              /\ \A f \in MetricFields \ {"U"} : Holds(y.mem, MetricJet(f, k), id, k, {})
         ELSE MetricStands(y, "void", id, k, g)
  <2>1. CASE good
    <3>1. /\ \A f \in MetricFields \ {"U"} : Holds(x.mem, MetricJet(f, k), id, k, {})
          /\ FieldsHold(x, OwnMetric(k), MetricFields, "marked", id, k)
          /\ AllBear(x, {NextU}, PassToken(g, l, 3), NextOrders(l))
      BY <1>0, <1>2, <2>1, LevelHeld
    <3>2. y = PublishMetric(x, OwnMetric(k), k, g, TRUE)
      BY <1>0, <3>1, EndsReady
    <3>3. "marked" \in Kinds \ {"void"}
      BY DEF Kinds
    <3> HIDE DEF y
    <3>7. FieldsHold(x, OwnMetric(k), MetricFields, "marked", id, k) /\ Sound(x)
      BY <1>2, <3>1
    <3> DEFINE z == PublishMetric(x, OwnMetric(k), k, g, TRUE)
    <3>8. Sound(z) /\ MetricStands(z, "marked", id, k, g) /\ Frame(x, z, {"current"}, {"h"}, k)
      BY <3>3, <3>7, PublishMetricReady
    <3>9. CopiedFrom(x, z, OwnMetric(k), k)
      BY <3>3, <3>7, PublishMetricReady
    <3>4. /\ Sound(y) /\ MetricStands(y, "marked", id, k, g)
          /\ Frame(x, y, {"current"}, {"h"}, k)
          /\ \A f \in MetricFields : y.mem[MetricJet(f, k)] = x.mem[OwnMetric(k)[f]]
      BY <3>2, <3>8, <3>9 DEF CopiedFrom
    <3>5. \A f \in MetricFields : OwnMetric(k)[f] = MetricJet(f, k)
      BY DEF OwnMetric
    <3>6. ASSUME NEW f \in MetricFields \ {"U"} PROVE Holds(y.mem, MetricJet(f, k), id, k, {})
      <4>1. \A m \in Modes : y.mem[MetricJet(f, k)][m] = x.mem[MetricJet(f, k)][m]
        BY <3>4, <3>5
      <4>2. Holds(x.mem, MetricJet(f, k), id, k, {})
        BY <3>1
      <4> QED
        BY <4>1, <4>2, HoldsSame
    <3> QED
      BY <2>1, <3>4, <3>6
  <2>2. CASE ~good
    <3>1. ~AllBear(x, {NextU}, PassToken(g, l, 3), NextOrders(l))
      BY <1>2, <2>2, VoidUnheard
    <3>2. y = PublishMetric(x, OwnMetric(k), k, g, FALSE)
      BY <1>0, <3>1, EndsRefused
    <3>3. Sound(y) /\ MetricStands(y, "void", id, k, g) /\ Frame(x, y, {"current"}, {"h"}, k)
      BY <1>2, <3>2, PublishMetricRefused
    <3> QED
      BY <2>2, <3>3
  <2> QED
    BY <2>1, <2>2
<1> HIDE DEF y
<1>4. Sound(e) /\ Same(y, e, TowerSlots \ ViewOf("next", MetricFields))
  BY <1>3, ClearedKeeps
<1> HIDE DEF e
<1>5. Frame(y, e, {"next"}, {}, k)
  <2>1. Touched(ViewOf("next", MetricFields), {"next"}, {}, k)
    BY LevelTouched DEF Touched, Apart
  <2> QED
    BY <1>4, <2>1, FrameOf
<1>6. SparesMetric({"next"}, {}, k, k)
  BY DEF SparesMetric
<1>7. \A kind : MetricStands(y, kind, id, k, g) => MetricStands(e, kind, id, k, g)
  BY <1>5, <1>6, MetricKept
<1>8. ASSUME NEW f \in MetricFields, Holds(y.mem, MetricJet(f, k), id, k, {})
      PROVE  Holds(e.mem, MetricJet(f, k), id, k, {})
  <2>1. MetricJet(f, k) \in TowerSlots
    BY MetricSlots
  <2>2. MetricJet(f, k) \notin ViewOf("next", MetricFields)
    <3>1. MetricJet(f, k)[1] = "h"
      BY DEF MetricJet
    <3>2. \A s \in ViewOf("next", MetricFields) : s[1] = "next"
      BY LevelTouched
    <3> QED
      BY <3>1, <3>2
  <2>3. e.mem[MetricJet(f, k)] = y.mem[MetricJet(f, k)]
    BY <1>4, <2>1, <2>2 DEF Same
  <2> QED
    BY <1>8, <2>3, HoldsSame
<1>9. Frame(d, e, views, {"h"}, k)
  <2>1. Frame(d, x, views, {"h"}, k)
    BY <1>2 DEF Frame, Apart
  <2>2. Frame(x, y, views, {"h"}, k)
    BY <1>3 DEF Frame, Apart
  <2>3. Frame(y, e, views, {"h"}, k)
    BY <1>5 DEF Frame, Apart
  <2> QED
    BY <2>1, <2>2, <2>3, FrameThen
<1>10. CASE good
  <2>1. MetricStands(e, "marked", id, k, g)
    BY <1>3, <1>7, <1>10
  <2>2. \A f \in MetricFields \ {"U"} : Holds(e.mem, MetricJet(f, k), id, k, {})
    BY <1>3, <1>8, <1>10
  <2> QED
    BY <1>0, <1>1, <1>4, <1>9, <1>10, <2>1, <2>2 DEF good
<1>11. CASE ~good
  <2>1. MetricStands(e, "void", id, k, g)
    BY <1>3, <1>7, <1>11
  <2> QED
    BY <1>0, <1>1, <1>4, <1>9, <1>11, <2>1 DEF good
<1> QED
  BY <1>10, <1>11

ThirdViews == {"pass3", "sharp", "next", "current", "projected"}

LevelMade(d, q, fault, id, l, g) ==
  \E r \in {"void", "inband"} :
    /\ MetricStands(d, r, id, l + 1, g)
    /\ r = "inband" <=> (q = "inband" /\ fault.at # PassAt(3, l))

LEMMA ThirdDone ==
  ASSUME NEW d, NEW l \in 0 .. 3, NEW g, NEW fault, Located(fault), NEW id \in Int,
         NEW a, NEW c, NEW b, Ground(d, a, c, b, id, l, g), NEW q \in {"void", "inband"},
         q = "inband" => b = "inband", BothLeft(d, q, id, l, g)
  PROVE  LET e == ProjectLast(Pass3(d, l, g, fault), l, g)
         IN  /\ Sound(e) /\ Frame(d, e, ThirdViews, {"h"}, l + 1)
             /\ LevelMade(e, q, fault, id, l, g)
<1> DEFINE x == Pass3(d, l, g, fault)
           e == ProjectLast(x, l, g)
           good == q = "inband" /\ fault.at # PassAt(3, l)
<1>1. /\ Sound(x) /\ Frame(d, x, {"pass3", "sharp", "next", "current"}, {"h"}, l + 1)
      /\ IF good
         THEN /\ MetricStands(x, "marked", id, l + 1, g)
              /\ \A f \in MetricFields \ {"U"} : Holds(x.mem, MetricJet(f, l + 1), id, l + 1, {})
         ELSE MetricStands(x, "void", id, l + 1, g)
  BY Pass3Done
<1> HIDE DEF x, good
<1>2. Frame(d, x, ThirdViews, {"h"}, l + 1)
  BY <1>1 DEF Frame, Apart, ThirdViews
<1>3. CASE good
  <2>1. /\ Sound(e) /\ MetricStands(e, "inband", id, l + 1, g)
        /\ Frame(x, e, {"projected", "current"}, {"h"}, l + 1)
    BY <1>1, <1>3, ProjectLastWhole
  <2> HIDE DEF e
  <2>2. Frame(x, e, ThirdViews, {"h"}, l + 1)
    BY <2>1 DEF Frame, Apart, ThirdViews
  <2>3. Frame(d, e, ThirdViews, {"h"}, l + 1)
    BY <1>2, <2>2, FrameThen
  <2> QED
    BY <1>3, <2>1, <2>3 DEF good, e, x, LevelMade
<1>4. CASE ~good
  <2>1. /\ Sound(e) /\ MetricStands(e, "void", id, l + 1, g)
        /\ Frame(x, e, {"projected", "current"}, {"h"}, l + 1)
    BY <1>1, <1>4, ProjectLastVoid
  <2> HIDE DEF e
  <2>2. Frame(x, e, ThirdViews, {"h"}, l + 1)
    BY <2>1 DEF Frame, Apart, ThirdViews
  <2>3. Frame(d, e, ThirdViews, {"h"}, l + 1)
    BY <1>2, <2>2, FrameThen
  <2> QED
    BY <1>4, <2>1, <2>3 DEF good, e, x, LevelMade
<1> QED
  BY <1>3, <1>4

-----------------------------------------------------------------------------
(* A level *)

\* All that the construction of a level touches beside that level.
LevelViews ==
  {"snapshot", "laplacian", "angular", "current primary", "coefficients", "projected primary",
   "next", "current", "projected", "pass3", "sharp"}

LEMMA LevelFrame ==
  ASSUME NEW d, NEW e, NEW k, NEW views, NEW jets, Frame(d, e, views, jets, k),
         views \subseteq LevelViews, jets \subseteq {"primary", "h"}
  PROVE  Frame(d, e, LevelViews, {"primary", "h"}, k)
  BY FrameMore

\* The primary, advanced and projected.
LEMMA PrimaryDone ==
  ASSUME NEW d, Sound(d), NEW l \in 0 .. 3, NEW g, NEW fault, Located(fault), NEW id \in Int,
         NEW a \in {"void", "inband"}, NEW b \in {"void", "inband"}, Stand(d, a, b, id, l, g)
  PROVE  LET e == ProjectMaster(AdvanceMaster(LaplacianRows(d, l, g), l, g, fault), l + 1, g)
         IN  /\ Frame(d, e, LevelViews, {"primary", "h"}, l + 1)
             /\ \E c \in {"void", "inband"} :
                  /\ Ground(e, a, c, b, id, l, g)
                  /\ c = "inband" <=> (a = "inband" /\ fault.at # MasterJet("psi", l + 1))
<1>0. PICK k \in Levels : k = l + 1
  BY NextOf
<1> DEFINE x == LaplacianRows(d, l, g)
           y == AdvanceMaster(x, l, g, fault)
           e == ProjectMaster(y, k, g)
           G == GenerationToken(g)
           views1 == {"snapshot", "laplacian"}
           views2 == {"current primary", "coefficients"}
           good == a = "inband" /\ fault.at # MasterJet("psi", l + 1)
<1>1. l \in Levels /\ k # l /\ k \in Int
  BY <1>0, NextOf
<1>2. MasterStands(d, a, id, l, g, ProjectedPsiOrders(l)) /\ MetricStands(d, b, id, l, g)
  BY DEF Stand
<1>3. /\ Sound(x) /\ \A j : Frame(d, x, views1, {}, j)
      /\ Group(x, {Captured}, a, id, l, G, ProjectedPsiOrders(l))
      /\ a = "inband" => Group(x, {Laplacian}, "inband", id, l, G, NextOrders(l))
      /\ a = "void" => ~AllBear(x, {Laplacian}, G, NextOrders(l))
  BY <1>2, LaplacianDone
<1> HIDE DEF x
<1>4. SparesMaster(views1, {}) /\ SparesMetric(views1, {}, k, l)
  BY DEF SparesMaster, SparesMetric
<1>5. SparesMetric(views2, {"primary"}, k, l) /\ SparesMetric(MasterViews, {"primary"}, k, l)
  BY DEF SparesMetric, MasterViews
<1>6. MasterStands(x, a, id, l, g, ProjectedPsiOrders(l)) /\ MetricStands(x, b, id, l, g)
  <2>1. Frame(d, x, views1, {}, k)
    BY <1>3
  <2> HIDE DEF views1
  <2> QED
    BY <1>1, <1>2, <1>4, <2>1, MasterKept, MetricKept
<1>7. /\ Sound(y) /\ Frame(x, y, views2, {"primary"}, l + 1)
      /\ Advanced(y, a, fault, id, l, g)
  BY <1>3, <1>6, AdvanceMasterDone DEF G
<1> HIDE DEF y, good
<1>8. PICK c \in {"void", "marked"} :
        /\ MasterStands(y, c, id, k, g, NextOrders(k))
        /\ c = "marked" <=> good
  BY <1>0, <1>7 DEF Advanced, good
<1>9. Frame(x, y, views2, {"primary"}, k)
  BY <1>0, <1>7
<1> DEFINE c2 == IF good THEN "inband" ELSE "void"
<1>10. /\ Sound(e) /\ MasterStands(e, c2, id, k, g, ProjectedPsiOrders(k))
       /\ Frame(y, e, MasterViews, {"primary"}, k)
  <2>1. CASE good
    <3>1. "marked" \in Kinds \ {"void"} /\ MasterStands(y, "marked", id, k, g, NextOrders(k))
      BY <1>8, <2>1 DEF Kinds
    <3>2. /\ Sound(e) /\ MasterStands(e, "inband", id, k, g, ProjectedPsiOrders(k))
          /\ Frame(y, e, MasterViews, {"primary"}, k)
      BY <1>7, <3>1, ProjectMasterWhole
    <3> QED
      BY <2>1, <3>2
  <2>2. CASE ~good
    <3>0. c = "void"
      BY <1>8, <2>2
    <3>1. MasterStands(y, "void", id, k, g, NextOrders(k))
      BY <1>8, <3>0
    <3>2. /\ Sound(e) /\ MasterStands(e, "void", id, k, g, ProjectedPsiOrders(k))
          /\ Frame(y, e, MasterViews, {"primary"}, k)
      BY <1>7, <3>1, ProjectMasterVoid
    <3> QED
      BY <2>2, <3>2
  <2> QED
    BY <2>1, <2>2
<1> HIDE DEF e, c2
<1>11. MetricStands(e, b, id, l, g)
  <2> HIDE DEF views1, views2
  <2>1. MetricStands(y, b, id, l, g)
    BY <1>1, <1>5, <1>6, <1>9, MetricKept
  <2> QED
    BY <1>1, <1>5, <1>10, <2>1, MetricKept
<1>12. Group(e, {Captured}, a, id, l, G, ProjectedPsiOrders(l))
  <2>1. {Captured} \in SUBSET TowerSlots
    BY ScratchSlots DEF Captured
  <2>2. Clear({Captured}, views2, {"primary"}, k) /\ Clear({Captured}, MasterViews, {"primary"}, k)
    BY DEF Clear, Apart, Captured, MasterViews
  <2> HIDE DEF views2
  <2>3. Group(y, {Captured}, a, id, l, G, ProjectedPsiOrders(l))
    BY <1>3, <1>9, <2>1, <2>2, GroupFrame
  <2> QED
    BY <1>10, <2>1, <2>2, <2>3, GroupFrame
<1>13. Ground(e, a, c2, b, id, l, g) /\ c2 \in {"void", "inband"} /\ (c2 = "inband" <=> good)
  <2>1. c2 \in {"void", "inband"} /\ (c2 = "inband" <=> good)
    BY DEF c2
  <2>2. c2 = "inband" => a = "inband"
    BY <2>1 DEF good
  <2>3. {a, b, c2} \subseteq {"void", "inband"}
    BY <2>1
  <2>4. MasterStands(e, c2, id, l + 1, g, ProjectedPsiOrders(l + 1))
    BY <1>0, <1>10
  <2> QED
    BY <1>10, <1>11, <1>12, <2>1, <2>2, <2>3, <2>4 DEF Ground, G
<1>14. Frame(d, e, LevelViews, {"primary", "h"}, k)
  <2>1. /\ views1 \subseteq LevelViews /\ views2 \subseteq LevelViews /\ MasterViews \subseteq LevelViews
        /\ {} \subseteq {"primary", "h"} /\ {"primary"} \subseteq {"primary", "h"}
    BY DEF LevelViews, MasterViews
  <2>2. Frame(d, x, views1, {}, k)
    BY <1>3
  <2> HIDE DEF views1, views2
  <2>3. Frame(d, x, LevelViews, {"primary", "h"}, k)
    BY <2>1, <2>2, LevelFrame
  <2>4. Frame(x, y, LevelViews, {"primary", "h"}, k)
    BY <1>9, <2>1, LevelFrame
  <2>5. Frame(y, e, LevelViews, {"primary", "h"}, k)
    BY <1>10, <2>1, LevelFrame
  <2> QED
    BY <2>3, <2>4, <2>5, FrameThen
<1> QED
  BY <1>0, <1>13, <1>14 DEF e, y, x, good

LEMMA OneLevelIs ==
  ASSUME NEW d, NEW l, NEW g, NEW fault
  PROVE  LET x == ProjectMaster(AdvanceMaster(LaplacianRows(d, l, g), l, g, fault), l + 1, g)
             y == ProjectNext(Pass1(x, l, g, fault), 1, l, g)
             z == ProjectNext(Pass2(y, l, g, fault), 2, l, g)
         IN  OneLevel(d, l, g, fault) = ProjectLast(Pass3(z, l, g, fault), l, g)
  BY DEF OneLevel

LEMMA FaultSlots ==
  ASSUME NEW l \in 0 .. 3
  PROVE  {MasterJet("psi", l + 1), EthSlot, PassAt(1, l), PassAt(2, l), PassAt(3, l)} \subseteq TowerSlots
<1>1. l + 1 \in Levels
  BY NextOf
<1>2. PassAt(1, l) = MetricJet("G", l + 1) /\ PassAt(2, l) = MetricJet("C", l + 1)
      /\ PassAt(3, l) = MetricJet("U", l + 1)
  BY DEF PassAt
<1>3. {"G", "C", "U"} \subseteq MetricFields /\ "psi" \in MasterFields
  BY DEF MetricFields, MasterFields
<1>4. EthSlot \in TowerSlots
  BY ScratchSlots DEF EthSlot
<1> QED
  BY <1>1, <1>2, <1>3, <1>4, MasterSlots, MetricSlots

\* A level that is there is made of one that is, and of a level that is there the
\* next is made unless numbers overflow.
NextMade(d, a, b, fault, id, l, g) ==
  \E c, r \in {"void", "inband"} :
    /\ Stand(d, c, r, id, l + 1, g)
    /\ (c = "inband" => a = "inband") /\ (r = "inband" => b = "inband")
    /\ (a = "inband" /\ b = "inband" /\ fault.at \notin TowerSlots) => c = "inband" /\ r = "inband"

LEMMA OneLevelDone ==
  ASSUME NEW d, Sound(d), NEW l \in 0 .. 3, NEW g, NEW fault, Located(fault), NEW id \in Int,
         NEW a \in {"void", "inband"}, NEW b \in {"void", "inband"}, Stand(d, a, b, id, l, g)
  PROVE  LET e == OneLevel(d, l, g, fault)
         IN  /\ Sound(e) /\ Frame(d, e, LevelViews, {"primary", "h"}, l + 1)
             /\ NextMade(e, a, b, fault, id, l, g)
<1>0. PICK k \in Levels : k = l + 1
  BY NextOf
<1> DEFINE x == ProjectMaster(AdvanceMaster(LaplacianRows(d, l, g), l, g, fault), l + 1, g)
           y == ProjectNext(Pass1(x, l, g, fault), 1, l, g)
           z == ProjectNext(Pass2(y, l, g, fault), 2, l, g)
           e == ProjectLast(Pass3(z, l, g, fault), l, g)
           good == fault.at \notin TowerSlots
           views == {"angular", "projected", "next"}
<1>1. OneLevel(d, l, g, fault) = e
  BY OneLevelIs
<1>2. /\ Frame(d, x, LevelViews, {"primary", "h"}, l + 1)
      /\ \E c \in {"void", "inband"} :
           /\ Ground(x, a, c, b, id, l, g)
           /\ c = "inband" <=> (a = "inband" /\ fault.at # MasterJet("psi", l + 1))
  BY PrimaryDone
<1>3. PICK c \in {"void", "inband"} :
        /\ Ground(x, a, c, b, id, l, g)
        /\ c = "inband" <=> (a = "inband" /\ fault.at # MasterJet("psi", l + 1))
  BY <1>2
<1> HIDE DEF x
<1>4. /\ Frame(x, y, views, {"h"}, l + 1) /\ Ground(y, a, c, b, id, l, g)
      /\ FirstLeft(y, c, b, fault, id, l, g)
  BY <1>3, FirstDone
<1>5. PICK p \in {"void", "inband"} :
        /\ PassLeft(y, p, 1, id, l, g) /\ (p = "inband" => b = "inband" /\ c = "inband")
        /\ (c = "inband" /\ b = "inband" /\ fault.at \notin {EthSlot, PassAt(1, l)}) => p = "inband"
  BY <1>4 DEF FirstLeft
<1> HIDE DEF y
<1>6. /\ Frame(y, z, views, {"h"}, l + 1) /\ Ground(z, a, c, b, id, l, g)
      /\ SecondLeft(z, p, fault, id, l, g)
  BY <1>4, <1>5, SecondDone
<1>7. PICK q \in {"void", "inband"} :
        /\ BothLeft(z, q, id, l, g) /\ (q = "inband" => p = "inband")
        /\ (p = "inband" /\ fault.at # PassAt(2, l)) => q = "inband"
  BY <1>6 DEF SecondLeft
<1>8. q = "inband" => b = "inband"
  BY <1>5, <1>7
<1> HIDE DEF z
<1>9. /\ Sound(e) /\ Frame(z, e, ThirdViews, {"h"}, l + 1)
      /\ LevelMade(e, q, fault, id, l, g)
  BY <1>6, <1>7, <1>8, ThirdDone
<1>10. PICK r \in {"void", "inband"} :
         /\ MetricStands(e, r, id, l + 1, g)
         /\ r = "inband" <=> (q = "inband" /\ fault.at # PassAt(3, l))
  BY <1>9 DEF LevelMade
<1> HIDE DEF e
<1>11. MasterStands(e, c, id, k, g, ProjectedPsiOrders(k))
  <2>1. MasterStands(z, c, id, k, g, ProjectedPsiOrders(k))
    BY <1>0, <1>6 DEF Ground
  <2>2. SparesMaster(ThirdViews, {"h"})
    BY DEF SparesMaster, ThirdViews
  <2>3. Frame(z, e, ThirdViews, {"h"}, k)
    BY <1>0, <1>9
  <2> QED
    BY <2>1, <2>2, <2>3, MasterKept
<1>12. Stand(e, c, r, id, l + 1, g)
  BY <1>0, <1>10, <1>11 DEF Stand
<1>13. Frame(d, e, LevelViews, {"primary", "h"}, l + 1)
  <2>1. views \subseteq LevelViews /\ ThirdViews \subseteq LevelViews /\ {"h"} \subseteq {"primary", "h"}
    BY DEF LevelViews, ThirdViews
  <2>2. /\ Frame(x, y, LevelViews, {"primary", "h"}, l + 1)
        /\ Frame(y, z, LevelViews, {"primary", "h"}, l + 1)
    <3> HIDE DEF views
    <3> QED
      BY <1>4, <1>6, <2>1, LevelFrame
  <2>3. Frame(z, e, LevelViews, {"primary", "h"}, l + 1)
    BY <1>9, <2>1, LevelFrame
  <2> QED
    BY <1>2, <2>2, <2>3, FrameThen
<1>14. /\ (c = "inband" => a = "inband") /\ (r = "inband" => b = "inband")
       /\ (a = "inband" /\ b = "inband" /\ good) => c = "inband" /\ r = "inband"
  BY <1>3, <1>5, <1>7, <1>8, <1>10, FaultSlots
<1>15. NextMade(e, a, b, fault, id, l, g)
  BY <1>12, <1>14 DEF NextMade
<1> QED
  BY <1>1, <1>9, <1>13, <1>15

-----------------------------------------------------------------------------
(* The levels of a stage *)

LevelIs(d, a, b, id, k, g) ==
  /\ Group(d, MasterLevel(k), a, id, k, GenerationToken(g), OrdersAt(k))
  /\ Group(d, MetricLevel(k), b, id, k, GenerationToken(g), OrdersAt(k))

\* Each level of each tower is whole or void; in a stage of which nothing is spoiled
\* (bad is FALSE), it is whole.
LevelMet(d, k, id, g, bad) ==
  \E a, b \in {"void", "inband"} :
    LevelIs(d, a, b, id, k, g) /\ (bad = FALSE => a = "inband" /\ b = "inband")
Standing(d, id, n, g, bad) ==
  \E a, b \in {"void", "inband"} :
    Stand(d, a, b, id, n, g) /\ (bad = FALSE => a = "inband" /\ b = "inband")

\* Where the towers are at level n: the levels up to it are made, those above are zero.
Reached(d, id, n, g, bad) ==
  /\ Standing(d, id, n, g, bad) /\ EmptyAbove(d, n)
  /\ \A k \in 0 .. n : LevelMet(d, k, id, g, bad)

\* Whole and Empty, of any device and generation.
WholeIn(d, slots, g) ==
  /\ AllBear(d, slots, GenerationToken(g), 1) /\ Finite(d, slots)
  /\ \A s \in slots, m \in Modes :
       d.mem[s][m] # {} /\ d.mem[s][-m] = {[i EXCEPT !.mode = -@] : i \in d.mem[s][m]}
EmptyIn(d, slots) ==
  AllBear(d, slots, NoToken, 0) /\ \A s \in slots, m \in Modes : d.mem[s][m] = {}
PublishedIn(d, g) == {k \in Levels : WholeIn(d, MetricLevel(k), g)}

LEMMA GroupWhole ==
  ASSUME NEW d, NEW slots, NEW id \in Int, NEW l \in Levels, NEW g,
         Group(d, slots, "inband", id, l, GenerationToken(g), OrdersAt(l))
  PROVE  WholeIn(d, slots, g)
<1>1. /\ l \in Int /\ OrdersAt(l) \in Nat /\ OrdersAt(l) >= 1 /\ 1 \in Nat
      /\ "inband" \in Kinds \ {"void"} /\ Extra("inband") = {}
  BY OrdersOf DEF Kinds, Extra
<1>2. AllBear(d, slots, GenerationToken(g), 1) /\ Finite(d, slots)
  BY <1>1, GroupReady
<1>3. ASSUME NEW s \in slots, NEW m \in Modes
      PROVE  d.mem[s][m] # {} /\ d.mem[s][-m] = {[i EXCEPT !.mode = -@] : i \in d.mem[s][m]}
  <2>1. Holds(d.mem, s, id, l, {})
    BY <1>1 DEF Group, HasKind
  <2>2. d.mem[s][m] # {}
    BY <2>1 DEF Holds
  <2>3. d.mem[s][-m] = AllReflected(d.mem[s][m])
    BY <2>1, HoldsMirror
  <2> QED
    BY <2>2, <2>3, Zenon DEF AllReflected
<1> QED
  BY <1>2, <1>3 DEF WholeIn

LEMMA VoidEmpty ==
  ASSUME NEW d, NEW slots, \A s \in slots : Void(d, s)
  PROVE  EmptyIn(d, slots)
<1>1. NoStamp.token = NoToken /\ NoStamp.orders = 0 /\ 0 >= 0
  BY DEF NoStamp
<1> QED
  BY <1>1 DEF EmptyIn, AllBear, Bears, Void

LEMMA VoidNotWhole ==
  ASSUME NEW d, NEW slots, NEW s \in slots, Void(d, s), NEW g
  PROVE  ~WholeIn(d, slots, g)
<1>1. PICK m : m \in Modes
  BY ModesAssumption
<1> QED
  BY <1>1 DEF WholeIn, Void

LEMMA SameWhole ==
  ASSUME NEW d, NEW e, NEW slots, Same(d, e, slots), NEW g
  PROVE  WholeIn(d, slots, g) <=> WholeIn(e, slots, g)
  BY DEF Same, WholeIn, AllBear, Bears, Finite

LEMMA SameGroup ==
  ASSUME NEW d, NEW e, NEW slots, NEW more, Same(d, e, slots \cup more),
         NEW kind, NEW id, NEW rate, NEW token, NEW orders,
         Group(d, slots, kind, id, rate, token, orders)
  PROVE  Group(e, slots, kind, id, rate, token, orders)
  BY KindSame DEF Group, Same

LEMMA SameEmpty ==
  ASSUME NEW d, NEW e, NEW k, Same(d, e, MasterLevel(k) \cup MetricLevel(k))
  PROVE  /\ EmptyLevel(d, k) => EmptyLevel(e, k)
         /\ \A id, g, bad : LevelMet(d, k, id, g, bad) => LevelMet(e, k, id, g, bad)
<1>1. EmptyLevel(d, k) => EmptyLevel(e, k)
  BY DEF EmptyLevel, Void, Same
<1>2. ASSUME NEW id, NEW g, NEW bad, LevelMet(d, k, id, g, bad)
      PROVE  LevelMet(e, k, id, g, bad)
  <2>1. PICK a \in {"void", "inband"} : \E b \in {"void", "inband"} :
          LevelIs(d, a, b, id, k, g) /\ (bad = FALSE => a = "inband" /\ b = "inband")
    BY <1>2 DEF LevelMet
  <2>2. PICK b \in {"void", "inband"} :
          LevelIs(d, a, b, id, k, g) /\ (bad = FALSE => a = "inband" /\ b = "inband")
    BY <2>1
  <2>3. LevelIs(e, a, b, id, k, g)
    <3>1. Same(d, e, MetricLevel(k) \cup MasterLevel(k))
      BY DEF Same
    <3> QED
      BY <2>2, <3>1, SameGroup DEF LevelIs
  <2> QED
    BY <2>2, <2>3 DEF LevelMet
<1> QED
  BY <1>1, <1>2

LEMMA StandingMet ==
  ASSUME NEW d, NEW id, NEW n, NEW g, NEW bad, Standing(d, id, n, g, bad)
  PROVE  LevelMet(d, n, id, g, bad)
  BY DEF Standing, LevelMet, Stand, MasterStands, MetricStands, LevelIs

-----------------------------------------------------------------------------
(* The two steps *)

LEMMA BeginStep ==
  ASSUME NEW old, Sound(old), NEW id \in Int, NEW g \in Supported,
         NEW flaws \in {{}} \cup {{f} : f \in Flaws}
  PROVE  LET e == LevelZero(old, InputsOfStage(id, flaws), StampsOfStage(g, flaws), g)
         IN  Sound(e) /\ Reached(e, id, 0, g, (flaws # {}))
<1> DEFINE e == LevelZero(old, InputsOfStage(id, flaws), StampsOfStage(g, flaws), g)
<1>1. Sound(e) /\ ZeroMade(e, flaws, id, g) /\ EmptyAbove(e, 0)
  BY LevelZeroDone
<1> HIDE DEF e
<1>2. ((flaws # {}) = FALSE) => flaws = {}
  OBVIOUS
<1>3. Standing(e, id, 0, g, (flaws # {}))
  BY <1>1, <1>2, Zenon DEF ZeroMade, Standing
<1>4. LevelMet(e, 0, id, g, (flaws # {}))
  BY <1>3, StandingMet, Zenon
<1>5. \A k \in 0 .. 0 : k = 0
  OBVIOUS
<1> QED
  BY <1>1, <1>3, <1>4, <1>5, Zenon DEF Reached, e

\* What a step that makes a level publishes: that level or nothing.
PublishesAt(d, e, l, g) ==
  \/ l \in PublishedIn(d, g) /\ PublishedIn(e, g) = PublishedIn(d, g) \cup {l + 1}
  \/ PublishedIn(e, g) = PublishedIn(d, g)

LEMMA MakeStep ==
  ASSUME NEW d, Sound(d), NEW l \in 0 .. 3, NEW g, NEW fault, Located(fault), NEW id \in Int,
         NEW bad, NEW worse, Reached(d, id, l, g, bad),
         worse = FALSE => bad = FALSE /\ fault.at \notin TowerSlots
  PROVE  LET e == OneLevel(d, l, g, fault)
         IN  Sound(e) /\ Reached(e, id, l + 1, g, worse) /\ PublishesAt(d, e, l, g)
<1>0. PICK k \in Levels : k = l + 1
  BY NextOf
<1> DEFINE e == OneLevel(d, l, g, fault)
<1>1. /\ EmptyAbove(d, l) /\ \A j \in 0 .. l : LevelMet(d, j, id, g, bad)
      /\ \E a, b \in {"void", "inband"} :
           Stand(d, a, b, id, l, g) /\ (bad = FALSE => a = "inband" /\ b = "inband")
  BY DEF Reached, Standing
<1>2. PICK a \in {"void", "inband"} : \E b \in {"void", "inband"} :
        Stand(d, a, b, id, l, g) /\ (bad = FALSE => a = "inband" /\ b = "inband")
  BY <1>1
<1>3. PICK b \in {"void", "inband"} :
        Stand(d, a, b, id, l, g) /\ (bad = FALSE => a = "inband" /\ b = "inband")
  BY <1>2
<1>4. /\ Sound(e) /\ Frame(d, e, LevelViews, {"primary", "h"}, l + 1)
      /\ NextMade(e, a, b, fault, id, l, g)
  BY <1>3, OneLevelDone
<1> HIDE DEF e
<1>5. PICK c \in {"void", "inband"} : \E r \in {"void", "inband"} :
        /\ Stand(e, c, r, id, l + 1, g)
        /\ (c = "inband" => a = "inband") /\ (r = "inband" => b = "inband")
        /\ (a = "inband" /\ b = "inband" /\ fault.at \notin TowerSlots) => c = "inband" /\ r = "inband"
  BY <1>4 DEF NextMade
<1>6. PICK r \in {"void", "inband"} :
        /\ Stand(e, c, r, id, l + 1, g)
        /\ (c = "inband" => a = "inband") /\ (r = "inband" => b = "inband")
        /\ (a = "inband" /\ b = "inband" /\ fault.at \notin TowerSlots) => c = "inband" /\ r = "inband"
  BY <1>5
<1>7. Standing(e, id, k, g, worse)
  <2>1. worse = FALSE => c = "inband" /\ r = "inband"
    BY <1>3, <1>6
  <2> QED
    BY <1>0, <1>6, <2>1 DEF Standing
<1>8. LevelMet(e, k, id, g, worse)
  BY <1>7, StandingMet
<1>9. ASSUME NEW j \in Levels, j # k
      PROVE  Same(d, e, MasterLevel(j) \cup MetricLevel(j))
  <2>1. SparesLevels(LevelViews)
    BY DEF SparesLevels, LevelViews
  <2>2. Frame(d, e, LevelViews, {"primary", "h"}, k)
    BY <1>0, <1>4
  <2> QED
    BY <1>9, <2>1, <2>2, LevelsKept
<1>10. EmptyAbove(e, k)
  <2>1. ASSUME NEW j \in Levels, j > k PROVE EmptyLevel(e, j)
    <3>1. j # k /\ j > l
      BY <1>0, <2>1 DEF Levels
    <3>2. EmptyLevel(d, j)
      BY <1>1, <3>1 DEF EmptyAbove
    <3> QED
      BY <1>9, <3>1, <3>2, SameEmpty
  <2> QED
    BY <2>1 DEF EmptyAbove
<1>11. ASSUME NEW j \in 0 .. k PROVE LevelMet(e, j, id, g, worse)
  <2>1. CASE j = k
    BY <1>8, <2>1
  <2>2. CASE j # k
    <3>1. j \in Levels /\ j \in 0 .. l
      BY <1>0, <2>2 DEF Levels, TopLevel
    <3>2. LevelMet(e, j, id, g, bad)
      BY <1>1, <1>9, <2>2, <3>1, SameEmpty
    <3>3. worse = FALSE => bad = FALSE
      OBVIOUS
    <3> QED
      BY <3>2, <3>3 DEF LevelMet
  <2> QED
    BY <2>1, <2>2
<1>12. PublishesAt(d, e, l, g)
  <2>1. \A j \in Levels : j # k => (j \in PublishedIn(d, g) <=> j \in PublishedIn(e, g))
    <3>1. ASSUME NEW j \in Levels, j # k PROVE j \in PublishedIn(d, g) <=> j \in PublishedIn(e, g)
      <4>1. Same(d, e, MetricLevel(j))
        BY <1>9, <3>1 DEF Same
      <4>2. WholeIn(d, MetricLevel(j), g) <=> WholeIn(e, MetricLevel(j), g)
        BY <4>1, SameWhole
      <4> QED
        BY <4>2 DEF PublishedIn
    <3> QED
      BY <3>1
  <2>2. PICK s : s \in MetricLevel(k)
    BY DEF MetricLevel, MetricFields
  <2>3. k \notin PublishedIn(d, g)
    <3>1. k > l
      BY <1>0
    <3>2. Void(d, s)
      BY <1>1, <2>2, <3>1 DEF EmptyAbove, EmptyLevel
    <3> QED
      BY <2>2, <3>2, VoidNotWhole DEF PublishedIn
  <2>4. PublishedIn(d, g) \subseteq Levels /\ PublishedIn(e, g) \subseteq Levels
    BY DEF PublishedIn
  <2>5. CASE r = "inband"
    <3>1. l \in Levels /\ b = "inband"
      BY <1>6, <2>5, NextOf
    <3>2. Group(d, MetricLevel(l), "inband", id, l, GenerationToken(g), OrdersAt(l))
      BY <1>3, <3>1 DEF Stand, MetricStands
    <3>3. Group(e, MetricLevel(k), "inband", id, k, GenerationToken(g), OrdersAt(k))
      BY <1>0, <1>6, <2>5 DEF Stand, MetricStands
    <3>4. l \in PublishedIn(d, g) /\ k \in PublishedIn(e, g)
      BY <3>1, <3>2, <3>3, GroupWhole DEF PublishedIn
    <3>5. PublishedIn(e, g) = PublishedIn(d, g) \cup {k}
      BY <2>1, <2>4, <3>4
    <3> QED
      BY <1>0, <3>4, <3>5 DEF PublishesAt
  <2>6. CASE r = "void"
    <3>1. Void(e, s)
      BY <1>0, <1>6, <2>2, <2>6 DEF Stand, MetricStands, Group, HasKind
    <3>2. k \notin PublishedIn(e, g)
      BY <2>2, <3>1, VoidNotWhole DEF PublishedIn
    <3>3. PublishedIn(e, g) = PublishedIn(d, g)
      BY <2>1, <2>3, <2>4, <3>2
    <3> QED
      BY <3>3 DEF PublishesAt
  <2> QED
    BY <2>5, <2>6
<1>13. Reached(e, id, k, g, worse)
  BY <1>7, <1>10, <1>11 DEF Reached
<1> QED
  BY <1>0, <1>4, <1>12, <1>13 DEF e

-----------------------------------------------------------------------------
(* The inductive invariant *)

\* What is true of the towers between two calls: nothing aliased anywhere, and of the
\* levels reached for this stage all that Reached says, those above being zero.
TowerInv ==
  /\ Sound(device)
  /\ head \in [initialized: BOOLEAN, generation: Supported \cup {0}, level: Levels]
  /\ stages \in Nat /\ spoiled \in BOOLEAN
  /\ IF head.initialized = TRUE
     THEN /\ head.generation \in Supported
          /\ Reached(device, stages, head.level, head.generation, spoiled)
     ELSE \A k \in Levels : EmptyLevel(device, k)

LEMMA BlankSound ==
  LET d == Blank(TowerSlots)
  IN  Sound(d) /\ \A k \in Levels : EmptyLevel(d, k)
<1> DEFINE d == Blank(TowerSlots)
<1>1. Sound(d) /\ \A s \in TowerSlots : Void(d, s)
  BY DEF Blank, Sound, Void, Zero
<1>2. \A k \in Levels : MasterLevel(k) \subseteq TowerSlots /\ MetricLevel(k) \subseteq TowerSlots
  BY MasterSlots, MetricSlots
<1> HIDE DEF d
<1>3. \A k \in Levels : EmptyLevel(d, k)
  BY <1>1, <1>2 DEF EmptyLevel
<1> QED
  BY <1>1, <1>3 DEF d

LEMMA TowerInit == Init => TowerInv
<1> SUFFICES ASSUME Init PROVE TowerInv
  OBVIOUS
<1>1. Sound(device) /\ \A k \in Levels : EmptyLevel(device, k)
  BY BlankSound DEF Init
<1>2. 0 \in Levels
  BY DEF Levels, TopLevel
<1>3. head \in [initialized: BOOLEAN, generation: Supported \cup {0}, level: Levels]
      /\ head.initialized # TRUE
  BY <1>2 DEF Init
<1> QED
  BY <1>1, <1>3 DEF Init, TowerInv

LEMMA NoPair ==
  /\ \A x, y : <<x, y>> # <<>>
  /\ \A A, B : <<>> \notin A \X B
<1>1. \A x, y : <<x, y>> # <<>>
  OBVIOUS
<1>2. ASSUME NEW A, NEW B, <<>> \in A \X B PROVE FALSE
  BY <1>1, <1>2, PairIn
<1> QED
  BY <1>1, <1>2

LEMMA NoPlace == NoFault.at \notin TowerSlots
<1> DEFINE none == <<>>
<1>1. \A A, B : none \notin A \X B
  BY NoPair
<1>2. /\ none # <<"coefficients", "psi">> /\ none # <<"snapshot", "psi">>
      /\ none # <<"laplacian", "psi">> /\ none # <<"angular", "eth">>
  BY NoPair
<1>3. NoFault.at = none
  BY DEF NoFault
<1> HIDE DEF none
<1>4. none \notin OwnedSlots
  BY <1>1, <1>2 DEF OwnedSlots
<1> QED
  BY <1>1, <1>2, <1>3, <1>4 DEF TowerSlots

LEMMA FaultsLocated ==
  ASSUME NEW l, NEW fault \in {NoFault} \cup Overflows(l)
  PROVE  Located(fault)
<1>1. CASE fault = NoFault
  BY <1>1, NoPlace DEF Located
<1>2. CASE fault \in Overflows(l)
  BY <1>2 DEF Overflows, Located
<1> QED
  BY <1>1, <1>2

\* A stage begins.
LEMMA InitializeKeeps ==
  ASSUME TowerInv, Initialize
  PROVE  /\ TowerInv'
         /\ head'.initialized = TRUE /\ head'.level = 0 /\ head'.generation \in Supported
<1>1. PICK g \in Supported : \E flaws \in {{}} \cup {{f} : f \in Flaws} :
        /\ device' = LevelZero(device, InputsOfStage(stages + 1, flaws), StampsOfStage(g, flaws), g)
        /\ head' = [initialized |-> TRUE, generation |-> g, level |-> 0]
        /\ stages' = stages + 1 /\ spoiled' = (flaws # {})
  BY DEF Initialize
<1>2. PICK flaws \in {{}} \cup {{f} : f \in Flaws} :
        /\ device' = LevelZero(device, InputsOfStage(stages + 1, flaws), StampsOfStage(g, flaws), g)
        /\ head' = [initialized |-> TRUE, generation |-> g, level |-> 0]
        /\ stages' = stages + 1 /\ spoiled' = (flaws # {})
  BY <1>1
<1>3. Sound(device) /\ stages + 1 \in Int /\ stages + 1 \in Nat
  BY DEF TowerInv
<1>4. Sound(device') /\ Reached(device', stages + 1, 0, g, (flaws # {}))
  BY <1>2, <1>3, BeginStep
<1>5. Reached(device', stages', 0, g, spoiled')
  BY <1>2, <1>4, Zenon
<1>6. /\ head'.initialized = TRUE /\ head'.generation = g /\ head'.level = 0
      /\ 0 \in Levels
      /\ head' \in [initialized: BOOLEAN, generation: Supported \cup {0}, level: Levels]
  BY <1>2 DEF Levels, TopLevel
<1>7. spoiled' \in BOOLEAN
  <2>1. (flaws # {}) \in BOOLEAN
    OBVIOUS
  <2> QED
    BY <1>2, <2>1, Zenon
<1>8. stages' \in Nat
  BY <1>2, <1>3
<1>9. Reached(device', stages', head'.level, head'.generation, spoiled')
  BY <1>5, <1>6
<1> QED
  BY <1>4, <1>6, <1>7, <1>8, <1>9 DEF TowerInv

\* A level is made.
LEMMA AdvanceKeeps ==
  ASSUME TowerInv, AdvanceOneLevel
  PROVE  /\ TowerInv'
         /\ head.initialized = TRUE /\ head.generation \in Supported /\ head.level \in 0 .. 3
         /\ head' = [head EXCEPT !.level = @ + 1]
         /\ PublishesAt(device, device', head.level, head.generation)
<1>1. PICK fault \in {NoFault} \cup Overflows(head.level) :
        /\ fault # NoFault => ~spoiled
        /\ device' = OneLevel(device, head.level, head.generation, fault)
        /\ spoiled' = (spoiled \/ fault # NoFault)
  BY DEF AdvanceOneLevel
<1>2. /\ head \in [initialized: BOOLEAN, generation: Supported \cup {0}, level: Levels]
      /\ head.level < TopLevel /\ head' = [head EXCEPT !.level = @ + 1] /\ stages' = stages
      /\ stages \in Nat /\ stages \in Int /\ Sound(device)
  BY DEF TowerInv, AdvanceOneLevel
<1>3. head.initialized = TRUE
  BY <1>2 DEF AdvanceOneLevel
<1>4. /\ head.generation \in Supported
      /\ Reached(device, stages, head.level, head.generation, spoiled)
  BY <1>3 DEF TowerInv
<1>5. head.level \in 0 .. 3
  BY <1>2 DEF Levels, TopLevel
<1>6. Located(fault)
  BY FaultsLocated
<1>7. spoiled \in BOOLEAN
  BY DEF TowerInv
<1>8. spoiled' = FALSE => spoiled = FALSE /\ fault = NoFault
  BY <1>1, <1>7, Zenon
<1>9. spoiled' = FALSE => spoiled = FALSE /\ fault.at \notin TowerSlots
  BY <1>8, NoPlace
<1>10. spoiled' \in BOOLEAN
  <2>1. (spoiled \/ fault # NoFault) \in BOOLEAN
    BY <1>7
  <2> QED
    BY <1>1, <2>1, Zenon
<1>11. /\ Sound(device') /\ Reached(device', stages, head.level + 1, head.generation, spoiled')
       /\ PublishesAt(device, device', head.level, head.generation)
  <2> DEFINE d == device  e == device'  l == head.level  g == head.generation  id == stages
             bad == spoiled  worse == spoiled'
  <2>1. e = OneLevel(d, l, g, fault)
    BY <1>1
  <2>2. Sound(d) /\ l \in 0 .. 3 /\ id \in Int /\ Reached(d, id, l, g, bad)
    BY <1>2, <1>4, <1>5
  <2>3. worse = FALSE => bad = FALSE /\ fault.at \notin TowerSlots
    BY <1>9
  <2> HIDE DEF d, e, l, g, id, bad, worse
  <2>4. Sound(e) /\ Reached(e, id, l + 1, g, worse) /\ PublishesAt(d, e, l, g)
    BY <1>6, <2>1, <2>2, <2>3, MakeStep
  <2> QED
    BY <2>4 DEF d, e, l, g, id, bad, worse
<1>12. /\ head'.initialized = TRUE /\ head'.generation = head.generation
       /\ head'.level = head.level + 1 /\ head.level + 1 \in Levels
       /\ head' \in [initialized: BOOLEAN, generation: Supported \cup {0}, level: Levels]
  BY <1>2, <1>3, <1>5 DEF Levels, TopLevel
<1>13. Reached(device', stages', head'.level, head'.generation, spoiled')
  BY <1>2, <1>11, <1>12
<1>14. TowerInv'
  BY <1>2, <1>4, <1>10, <1>11, <1>12, <1>13 DEF TowerInv
<1> QED
  BY <1>2, <1>3, <1>4, <1>5, <1>11, <1>14

LEMMA TowerStep == TowerInv /\ [Next]_vars => TowerInv'
<1> SUFFICES ASSUME TowerInv, [Next]_vars PROVE TowerInv'
  OBVIOUS
<1>1. CASE Initialize
  BY <1>1, InitializeKeeps
<1>2. CASE AdvanceOneLevel
  BY <1>2, AdvanceKeeps
<1>3. CASE UNCHANGED vars
  BY <1>3 DEF vars, TowerInv
<1> QED
  BY <1>1, <1>2, <1>3 DEF Next

\* Of every stage, the levels reached are whole in both towers or zero from some level
\* on, those above are zero, and no slot has content that an operator has aliased.
THEOREM TowerInvariant == Spec => []TowerInv
  BY TowerInit, TowerStep, PTL DEF Spec

-----------------------------------------------------------------------------
(* What follows from it *)

LEMMA WholeIs == \A slots : Whole(slots) <=> WholeIn(device, slots, head.generation)
  BY DEF Whole, WholeIn

LEMMA EmptyIs == \A slots : Empty(slots) <=> EmptyIn(device, slots)
  BY DEF Empty, EmptyIn

LEMMA MetWholeOrEmpty ==
  ASSUME NEW d, NEW k \in Levels, NEW id \in Int, NEW g, NEW bad, LevelMet(d, k, id, g, bad)
  PROVE  /\ WholeIn(d, MasterLevel(k), g) \/ EmptyIn(d, MasterLevel(k))
         /\ WholeIn(d, MetricLevel(k), g) \/ EmptyIn(d, MetricLevel(k))
         /\ bad = FALSE => WholeIn(d, MasterLevel(k), g) /\ WholeIn(d, MetricLevel(k), g)
<1>1. PICK a \in {"void", "inband"} : \E b \in {"void", "inband"} :
        LevelIs(d, a, b, id, k, g) /\ (bad = FALSE => a = "inband" /\ b = "inband")
  BY DEF LevelMet
<1>2. PICK b \in {"void", "inband"} :
        LevelIs(d, a, b, id, k, g) /\ (bad = FALSE => a = "inband" /\ b = "inband")
  BY <1>1
<1>3. ASSUME NEW slots, NEW kind \in {"void", "inband"},
             Group(d, slots, kind, id, k, GenerationToken(g), OrdersAt(k))
      PROVE  /\ kind = "inband" => WholeIn(d, slots, g)
             /\ kind = "void" => EmptyIn(d, slots)
  <2>1. CASE kind = "inband"
    BY <1>3, <2>1, GroupWhole
  <2>2. CASE kind = "void"
    <3>1. \A s \in slots : Void(d, s)
      BY <1>3, <2>2 DEF Group, HasKind
    <3> QED
      BY <2>2, <3>1, VoidEmpty
  <2> QED
    BY <2>1, <2>2
<1>4. /\ Group(d, MasterLevel(k), a, id, k, GenerationToken(g), OrdersAt(k))
      /\ Group(d, MetricLevel(k), b, id, k, GenerationToken(g), OrdersAt(k))
  BY <1>2 DEF LevelIs
<1>5. /\ a = "inband" => WholeIn(d, MasterLevel(k), g)
      /\ a = "void" => EmptyIn(d, MasterLevel(k))
  BY <1>3, <1>4
<1>6. /\ b = "inband" => WholeIn(d, MetricLevel(k), g)
      /\ b = "void" => EmptyIn(d, MetricLevel(k))
  BY <1>3, <1>4
<1> QED
  BY <1>2, <1>5, <1>6

LEMMA LevelSplit ==
  ASSUME TowerInv, head.initialized = TRUE, NEW k \in Levels
  PROVE  /\ k <= head.level => LevelMet(device, k, stages, head.generation, spoiled)
         /\ ~(k <= head.level) => EmptyLevel(device, k)
<1>1. /\ Reached(device, stages, head.level, head.generation, spoiled)
      /\ head.level \in Levels
  BY DEF TowerInv
<1>2. k <= head.level => k \in 0 .. head.level
  BY <1>1 DEF Levels
<1>3. ~(k <= head.level) => k > head.level
  BY <1>1 DEF Levels
<1> QED
  BY <1>1, <1>2, <1>3 DEF Reached, EmptyAbove

LEMMA EmptyLevelEmpty ==
  ASSUME NEW d, NEW k, EmptyLevel(d, k)
  PROVE  EmptyIn(d, MasterLevel(k)) /\ EmptyIn(d, MetricLevel(k))
  BY VoidEmpty DEF EmptyLevel

\* Every level of both towers is whole for all modes and fields or zero for all of
\* them, after any sequence of stages and levels, whichever mode of whichever input
\* was bad or pass overflowed.
THEOREM WholeOrEmpty == Spec => []LevelsWholeOrEmpty
<1>1. TowerInv => LevelsWholeOrEmpty
  <2> SUFFICES ASSUME TowerInv, head.initialized, NEW k \in Levels,
                      NEW level \in {MasterLevel(k), MetricLevel(k)}
               PROVE  Whole(level) \/ Empty(level)
    BY DEF LevelsWholeOrEmpty
  <2>1. head.initialized = TRUE /\ stages \in Int
    BY DEF TowerInv
  <2>2. CASE k <= head.level
    <3>1. LevelMet(device, k, stages, head.generation, spoiled)
      BY <2>1, <2>2, LevelSplit
    <3> QED
      BY <2>1, <3>1, MetWholeOrEmpty, WholeIs, EmptyIs
  <2>3. CASE ~(k <= head.level)
    <3>1. EmptyLevel(device, k)
      BY <2>1, <2>3, LevelSplit
    <3> QED
      BY <3>1, EmptyLevelEmpty, EmptyIs
  <2> QED
    BY <2>2, <2>3
<1> QED
  BY <1>1, TowerInvariant, PTL

\* The levels up to the one reached are whole as long as nothing was wrong with the
\* inputs of the stage and no number of it has overflowed.
THEOREM GoodGetThrough == Spec => []GoodStagesGetThrough
<1>1. TowerInv => GoodStagesGetThrough
  <2> SUFFICES ASSUME TowerInv, head.initialized, ~spoiled, NEW k \in 0 .. head.level
               PROVE  Whole(MasterLevel(k)) /\ Whole(MetricLevel(k))
    BY DEF GoodStagesGetThrough
  <2>1. head.initialized = TRUE /\ stages \in Int /\ spoiled = FALSE /\ head.level \in Levels
    BY DEF TowerInv
  <2>2. k \in Levels /\ k <= head.level
    BY <2>1 DEF Levels, TopLevel
  <2>3. LevelMet(device, k, stages, head.generation, spoiled)
    BY <2>1, <2>2, LevelSplit
  <2> QED
    BY <2>1, <2>2, <2>3, MetWholeOrEmpty, WholeIs
<1> QED
  BY <1>1, TowerInvariant, PTL

\* No angular operator has aliased anything, in any slot of the device.
THEOREM NothingAliased == Spec => []AngularReadsInBand
<1>1. TowerInv => AngularReadsInBand
  BY MarksApart DEF TowerInv, Sound, AngularReadsInBand
<1> QED
  BY <1>1, TowerInvariant, PTL

LEMMA MetMade ==
  ASSUME NEW d, NEW k, NEW id, NEW g, NEW bad, LevelMet(d, k, id, g, bad),
         NEW s \in MasterLevel(k) \cup MetricLevel(k), NEW m \in Modes, NEW i \in d.mem[s][m]
  PROVE  i.rate = k /\ i.stage = id /\ i.mode \in {m, -m}
<1>1. PICK kind \in {"void", "inband"} : HasKind(d, s, kind, id, k, GenerationToken(g), OrdersAt(k))
  BY DEF LevelMet, LevelIs, Group
<1>2. kind # "void"
  BY <1>1 DEF HasKind, Void
<1>3. Holds(d.mem, s, id, k, {})
  <2>1. kind = "inband" /\ Extra("inband") = {}
    BY <1>2 DEF Extra
  <2> QED
    BY <1>1, <2>1 DEF HasKind
<1>4. d.mem[s][m] \subseteq Made(id, k, m) \cup {}
  BY <1>3 DEF Holds
<1>5. i \in Made(id, k, m)
  BY <1>4
<1> QED
  BY <1>5 DEF Made

\* Level l is the l-th time derivative of this stage's inputs, and of nothing that a
\* stage or a pass before has left in the buffers.
THEOREM IsItsDerivative == Spec => []LevelIsItsTimeDerivative
<1>1. TowerInv => LevelIsItsTimeDerivative
  <2> SUFFICES ASSUME TowerInv, NEW k \in Levels, NEW s \in MasterLevel(k) \cup MetricLevel(k),
                      NEW m \in Modes, NEW i \in device.mem[s][m]
               PROVE  i.rate = k /\ i.stage = stages /\ i.mode \in {m, -m}
    BY DEF LevelIsItsTimeDerivative
  <2>1. ~EmptyLevel(device, k)
    BY DEF EmptyLevel, Void
  <2>2. head.initialized = TRUE
    BY <2>1 DEF TowerInv
  <2>3. k <= head.level
    BY <2>1, <2>2, LevelSplit
  <2>4. LevelMet(device, k, stages, head.generation, spoiled)
    BY <2>2, <2>3, LevelSplit
  <2> QED
    BY <2>4, MetMade
<1> QED
  BY <1>1, TowerInvariant, PTL

-----------------------------------------------------------------------------
(* The promise *)

LEMMA PublishedIs ==
  {l \in Levels : Whole(MetricLevel(l))} = PublishedIn(device, head.generation)
  BY WholeIs DEF PublishedIn

LEMMA PublishedNext ==
  {l \in Levels : Whole(MetricLevel(l))'} = PublishedIn(device', head'.generation)
<1>1. \A slots : Whole(slots)' <=> WholeIn(device', slots, head'.generation)
  BY DEF Whole, WholeIn
<1> QED
  BY <1>1 DEF PublishedIn

PromisedGeneration == IF head.initialized THEN head.generation ELSE -1
Published == IF head.initialized THEN {l \in Levels : Whole(MetricLevel(l))} ELSE {}

LEMMA ReachedPublished ==
  ASSUME NEW d, NEW id, NEW g, NEW bad, Reached(d, id, 0, g, bad)
  PROVE  PublishedIn(d, g) \in {{}, {0}}
<1>1. ASSUME NEW k \in Levels, k # 0 PROVE ~WholeIn(d, MetricLevel(k), g)
  <2>1. k > 0
    BY <1>1 DEF Levels
  <2>2. PICK s : s \in MetricLevel(k)
    BY DEF MetricLevel, MetricFields
  <2>3. Void(d, s)
    BY <2>1, <2>2 DEF Reached, EmptyAbove, EmptyLevel
  <2> QED
    BY <2>2, <2>3, VoidNotWhole
<1>2. PublishedIn(d, g) \subseteq {0}
  BY <1>1 DEF PublishedIn
<1> QED
  BY <1>2

\* The metric tower implements TowerLevels: a generation begins with level zero or
\* nothing, each step publishes the next level only where the one it is made of is
\* published, and what is published stays so until the next generation.
THEOREM KeepsThePromise == Spec => PromiseKept
<1>1. Init => Promise!LevelsInit
  BY DEF Init, Promise!LevelsInit, Promise!None
<1>2. TowerInv /\ [Next]_vars => [Promise!LevelsNext]_Promise!levelVars
  <2> SUFFICES ASSUME TowerInv, [Next]_vars
               PROVE  [Promise!LevelsNext]_Promise!levelVars
    OBVIOUS
  <2>1. CASE Initialize
    <3>1. /\ TowerInv' /\ head'.initialized = TRUE /\ head'.level = 0
          /\ head'.generation \in Supported
      BY <2>1, InitializeKeeps
    <3>2. PublishedIn(device', head'.generation) \in {{}, {0}}
      BY <3>1, ReachedPublished DEF TowerInv
    <3>3. Published' \in {{}, {0}}
      BY <3>1, <3>2, PublishedNext DEF Published
    <3>4. PromisedGeneration' = head'.generation
      BY <3>1 DEF PromisedGeneration
    <3>5. Promise!BeginGeneration(head'.generation)
      BY <3>1, <3>3, <3>4 DEF Promise!BeginGeneration, Published, PromisedGeneration
    <3> QED
      BY <3>1, <3>5 DEF Promise!LevelsNext
  <2>2. CASE AdvanceOneLevel
    <3>1. /\ head.initialized = TRUE /\ head.generation \in Supported /\ head.level \in 0 .. 3
          /\ head' = [head EXCEPT !.level = @ + 1]
          /\ PublishesAt(device, device', head.level, head.generation)
      BY <2>2, AdvanceKeeps
    <3>2. head \in [initialized: BOOLEAN, generation: Supported \cup {0}, level: Levels]
      BY DEF TowerInv
    <3>3. /\ head'.initialized = TRUE /\ head'.generation = head.generation
          /\ head'.level = head.level + 1
      BY <3>1, <3>2
    <3>4. Published = PublishedIn(device, head.generation)
      BY <3>1, PublishedIs DEF Published
    <3>5. Published' = PublishedIn(device', head.generation)
      BY <3>3, PublishedNext DEF Published
    <3>6. \/ head.level \in Published /\ Published' = Published \cup {head.level + 1}
          \/ Published' = Published
      BY <3>1, <3>4, <3>5 DEF PublishesAt
    <3>7. /\ PromisedGeneration' = PromisedGeneration /\ PromisedGeneration # -1
      BY <3>1, <3>3, TowerAssumption DEF PromisedGeneration
    <3>8. Promise!MakeLevel
      BY <3>1, <3>3, <3>6, <3>7
         DEF Promise!MakeLevel, Promise!None, Promise!TopLevel, Published, PromisedGeneration
    <3> QED
      BY <3>8 DEF Promise!LevelsNext
  <2>3. CASE UNCHANGED vars
    BY <2>3 DEF vars, Promise!levelVars, Whole
  <2> QED
    BY <2>1, <2>2, <2>3 DEF Next
<1> QED
  BY <1>1, <1>2, TowerInvariant, PTL DEF Spec, PromiseKept, Promise!LevelsSpec
=============================================================================
