----------------------------- MODULE TowerGraph -----------------------------
(***************************************************************************)
(* The kernels of one level of the Route-B time-derivative towers:          *)
(* RouteBTeukolskyPrimaryJetTower (include/teuk/                            *)
(* routeb_teukolsky_primary_jet.hpp), RouteBReconstructionJetTower          *)
(* (include/teuk/routeb_reconstruction_jet.hpp) and the angular operations   *)
(* RouteBAngularJetCoordinator puts between them                            *)
(* (include/teuk/routeb_angular_jet_coordinator.hpp).  Level l holds the    *)
(* l-th time derivative of the fields as a radial Taylor jet, one slot here. *)
(***************************************************************************)
EXTENDS StampedGraph

TopLevel == 4
Levels   == 0 .. TopLevel

MasterFields  == {"P", "Q", "psi"}
MetricFields  == {"G", "Lambda", "H", "B", "Pi", "C", "U"}
\* The fields each pass of the nested reconstruction writes.
PassFields == << {"G", "Lambda"}, {"H", "B", "Pi", "C"}, {"U"} >>

MasterJet(f, l) == <<"primary", <<f, l>>>>
MetricJet(f, l) == <<"h", <<f, l>>>>

\* The views of the towers themselves, and with them those of the coordinator.
OwnedSlots ==
  ({"primary"} \X (MasterFields \X Levels)) \cup ({"h"} \X (MetricFields \X Levels)) \cup
  ({"current primary"} \X MasterFields) \cup {<<"coefficients", "psi">>} \cup
  ({"current", "next"} \X MetricFields)
TowerSlots ==
  OwnedSlots \cup
  ({"projected primary"} \X MasterFields) \cup ({"projected"} \X MetricFields) \cup
  {<<"snapshot", "psi">>, <<"laplacian", "psi">>, <<"angular", "eth">>} \cup
  ({"pass3"} \X {"ethC", "ethPi", "ethPrimeBSharp", "ethPrimeCSharp"}) \cup
  ({"sharp"} \X {"B", "BT", "C", "CT"})

\* The orders of the radial jet that are left at a level: one is used up by the
\* radial derivative in every time derivative.
OrdersAt(l)   == 5 - l
NextOrders(l) == 4 - l

\* projection_token and make_pass_token: distinct for what is distinct, which
\* generation_supported has checked.
GenerationToken(g)     == <<g>>
ProjectionToken(g, l)  == <<g, "project", l>>
PassToken(g, l, pass)  == <<g, pass, l>>
InitialToken(g)        == <<g, "initial">>

\* A level is stamped as a whole.
LevelStamped(d, slot, g) == AllBear(d, {slot}, GenerationToken(g), 1)

-----------------------------------------------------------------------------
(* The primary tower *)

\* FinalizeLevelFunctor and AcceptProjectedCoefficientsFunctor: the jets of
\* level l of the primary become the given slots or zero, and so do what the
\* coordinator projects and what it takes the angular derivatives of, psi with as
\* many orders as is asked for.
PublishMaster(d, from, l, g, psiOrders, ready) ==
  LET jets    == {MasterJet(f, l) : f \in MasterFields}
      current == {"current primary"} \X MasterFields
      psi     == <<"coefficients", "psi">>
      levels  == Filled(d, [s \in jets |-> from[s[2][1]]], GenerationToken(g), OrdersAt(l))
      coefs   == Filled(levels, [s \in current |-> MasterJet(s[2], l)],
                        GenerationToken(g), OrdersAt(l))
  IN  IF ready
      THEN Filled(coefs, [s \in {psi} |-> MasterJet("psi", l)], GenerationToken(g), psiOrders)
      ELSE Cleared(d, jets \cup current \cup {psi})

OwnMaster(l) == [f \in MasterFields |-> MasterJet(f, l)]

\* Fault: psi is taken from where the primary's next level already is.
FaultCaptured == <<"coefficients", "psi">>

\* The coordinator's copy of psi_l, taken before the primary goes on.
Captured == <<"snapshot", "psi">>

\* routeb_teukolsky_primary_jet_step: psi and P from all three fields, Q from
\* those of the time derivative of psi.
MasterStep(l) ==
  LET old == {Own("primary", <<f, l>>) : f \in MasterFields}
  IN  {RateTo("primary", <<"psi", l + 1>>, old),
       RateTo("primary", <<"Q", l + 1>>, old),
       RateTo("primary", <<"P", l + 1>>,
              {Own("primary", <<"Q", l>>), Own("primary", <<"psi", l>>),
               Own("laplacian", "psi")})}

\* ValidateAngularFunctor.
MasterReady(d, l, g) ==
  /\ LevelStamped(d, MasterJet("psi", l), g)
  /\ AllBear(d, {<<"laplacian", "psi">>}, GenerationToken(g), NextOrders(l))
  /\ Finite(d, {<<"laplacian", "psi">>})

\* A kernel's numbers overflow in one mode of one slot.
Overflown(d, slot, fault) ==
  IF fault.at = slot
  THEN [d EXCEPT !.mem[slot][fault.mode] = @ \cup {NonFinite}] ELSE d

\* RouteBTeukolskyPrimaryJetTower::advance.
AdvanceMaster(d, l, g, fault) ==
  LET next == {MasterJet(f, l + 1) : f \in MasterFields}
      stepped == Overflown(MarkedAs(Launch(d, MasterStep(l)), next, OffBand),
                           MasterJet("psi", l + 1), fault)
  IN  PublishMaster(stepped, OwnMaster(l + 1), l + 1, g, NextOrders(l + 1),
                    MasterReady(d, l, g) /\ Finite(stepped, next))

\* Fault: as few orders as before the projection.
FaultProjectedPsiOrders(l) == NextOrders(l)

\* The orders of psi the projection leaves, of the four there is room for.
ProjectedPsiOrders(l) == IF OrdersAt(l) > 4 THEN 4 ELSE OrdersAt(l)

\* accept_projected_current.
AcceptMaster(d, l, g) ==
  LET token == ProjectionToken(g, l)
      out   == {"projected primary"} \X MasterFields
  IN  PublishMaster(d, [f \in MasterFields |-> <<"projected primary", f>>], l, g,
                    ProjectedPsiOrders(l),
                    AllBear(d, out, token, OrdersAt(l)) /\ Finite(d, out))

\* project_primary_current.
ProjectMaster(d, l, g) ==
  LET out  == {"projected primary"} \X MasterFields
      from == [s \in out |-> <<"current primary", s[2]>>]
  IN  AcceptMaster(
        RowsStamped(Projected(Cleared(d, out), from),
                    [s \in out |-> {Source(from[s], GenerationToken(g))}],
                    OrdersAt(l), ProjectionToken(g, l)), l, g)

-----------------------------------------------------------------------------
(* The reconstruction tower *)

\* FinalizeLevel and AcceptProjectedCurrentRange: level l becomes the given
\* slots or zero, and the current coefficients with it.
PublishMetric(d, from, l, g, ready) ==
  LET jets    == {MetricJet(f, l) : f \in MetricFields}
      current == {"current"} \X MetricFields
      levels  == Filled(d, [s \in jets |-> from[s[2][1]]], GenerationToken(g), OrdersAt(l))
  IN  IF ready
      THEN Filled(levels, [s \in current |-> MetricJet(s[2], l)],
                  GenerationToken(g), OrdersAt(l))
      ELSE Cleared(d, jets \cup current)

OwnMetric(l) == [f \in MetricFields |-> MetricJet(f, l)]

\* PublishFields and AcceptProjectedNextRange: some fields of the level under
\* construction; a failure clears all of them.
PublishNext(d, from, l, token, ready) ==
  LET fields == DOMAIN from
      jets == Filled(d, [s \in {MetricJet(f, l + 1) : f \in fields} |-> from[s[2][1]]],
                     NoToken, NextOrders(l))
  IN  IF ready
      THEN Filled(jets, [s \in {"next"} \X fields |-> MetricJet(s[2], l + 1)],
                  token, NextOrders(l))
      ELSE Cleared(d, ({"next"} \X MetricFields) \cup
                      {MetricJet(f, l + 1) : f \in MetricFields})

\* A projection of fields of a view, mode by mode, under the token given.
ProjectRows(d, view, fields, orders, source, token) ==
  LET from == [s \in {"projected"} \X fields |-> <<view, s[2]>>]
  IN  RowsStamped(Projected(Cleared(d, {"projected"} \X MetricFields), from),
                  [s \in DOMAIN from |-> {Source(from[s], source)}], orders, token)

\* ValidateProjectedRange.
RowsReady(d, fields, token, orders) ==
  LET rows == {"projected"} \X fields
  IN  AllBear(d, rows, token, orders) /\ Finite(d, rows)

FromProjected(fields) == [f \in fields |-> <<"projected", f>>]

\* The right-hand sides of the passes: the fields read at level l, and the
\* angular terms.
Lower(fields, l) == {Own("h", <<f, l>>) : f \in fields}
PassKernel(pass, l) ==
  LET Next(f, reads) == RateTo("h", <<f, l + 1>>, reads)
      psi4 == Own(Captured[1], Captured[2])
      eth  == Own("angular", "eth")
  IN  CASE pass = 1 -> {Next("G", Lower({"G"}, l) \cup {psi4, eth}),
                        Next("Lambda", Lower({"Lambda"}, l) \cup {psi4})}
        [] pass = 2 -> {Next("H", Lower({"H", "G"}, l) \cup {eth}),
                        Next("B", Lower({"B", "Lambda"}, l)),
                        Next("Pi", Lower({"Pi", "G", "Lambda", "B"}, l)),
                        Next("C", Lower({"C", "Pi", "B"}, l))}
        [] pass = 3 -> {Next("U", Lower({"U", "C", "Pi", "H"}, l) \cup
                           {Sharp("h", <<f, l>>) : f \in {"Pi", "B", "C"}} \cup
                           {Own("pass3", a) : a \in
                              {"ethC", "ethPi", "ethPrimeBSharp", "ethPrimeCSharp"}})}

\* launch_pass, of what the validations before it have found.
LaunchPass(d, pass, l, g, ready, fault) ==
  LET fields == PassFields[pass]
      next   == {MetricJet(f, l + 1) : f \in fields}
      at     == MetricJet(<<"G", "C", "U">>[pass], l + 1)
      passed == Overflown(MarkedAs(Launch(d, PassKernel(pass, l)), next, OffBand), at, fault)
  IN  PublishNext(passed, [f \in fields |-> MetricJet(f, l + 1)], l,
                  PassToken(g, l, pass), ready /\ Finite(passed, next))

\* Fault: the pass is not projected, which the next pass does not ask about.
FaultProjectNext(d, pass, l, g) == d

\* accept_pass1_projection and accept_pass2_projection, behind the projection.
ProjectNext(d, pass, l, g) ==
  LET token == PassToken(g, l, pass)
      rows  == ProjectRows(d, "next", PassFields[pass], NextOrders(l), token, token)
  IN  PublishNext(rows, FromProjected(PassFields[pass]), l, token,
                  RowsReady(rows, PassFields[pass], token, NextOrders(l)))

\* Fault: one good mode is enough.
FaultExternalReady(d, slots, l, g, token) ==
  /\ LevelStamped(d, MetricJet("U", l), g)
  /\ \E m \in Modes : \A s \in slots : Bears(d, s, m, token, NextOrders(l))

\* ValidateExternalJet and ValidatePass3Angular: the angular terms of a pass,
\* and the level it starts from.
ExternalReady(d, slots, l, g, token) ==
  /\ LevelStamped(d, MetricJet("U", l), g)
  /\ AllBear(d, slots, token, NextOrders(l)) /\ Finite(d, slots)

-----------------------------------------------------------------------------
(* The passes between the towers *)

\* eth F of the captured psi_l, whose time derivative is psi_{l+1}.
Pass1(d, l, g, fault) ==
  LET token == PassToken(g, l, 1)
      psi == Captured  dt == <<"coefficients", "psi">>
      eth == <<"angular", "eth">>
      of  == [s \in {eth} |-> [value |-> psi, dt |-> {Dt(dt[1], dt[2])}]]
      row == RowsStamped(Overflown(Angular(Cleared(d, {eth}), of), eth, fault),
               [s \in {eth} |-> {Source(psi, GenerationToken(g)),
                                 Source(dt, GenerationToken(g))}],
               NextOrders(l), token)
      begun == Cleared(row, {"next"} \X MetricFields)
  IN  LaunchPass(begun, 1, l, g,
        /\ ExternalReady(begun, {psi}, l, g, GenerationToken(g))
        /\ ExternalReady(begun, {eth}, l, g, token), fault)

\* eth G of level l, whose time derivative pass 1 has just made.
Pass2(d, l, g, fault) ==
  LET token == PassToken(g, l, 2)
      G == <<"current", "G">>  GT == <<"next", "G">>  eth == <<"angular", "eth">>
      of  == [s \in {eth} |-> [value |-> G, dt |-> {Dt(GT[1], GT[2])}]]
      row == RowsStamped(Angular(Cleared(d, {eth}), of),
               [s \in {eth} |-> {Source(G, GenerationToken(g)),
                                 Source(GT, PassToken(g, l, 1))}],
               NextOrders(l), token)
  IN  LaunchPass(row, 2, l, g,
        /\ AllBear(row, {"next"} \X PassFields[1], PassToken(g, l, 1), NextOrders(l))
        /\ ExternalReady(row, {eth}, l, g, token), fault)

\* pack_sharp_pairs: the mirrored modes of two fields and of their time
\* derivatives, with their stamps.
SharpOf ==
  [s \in {"B", "BT", "C", "CT"} |->
     CASE s = "B" -> <<"current", "B">> [] s = "BT" -> <<"next", "B">>
       [] s = "C" -> <<"current", "C">> [] s = "CT" -> <<"next", "C">>]
PackSharpPairs(d, l) ==
  LET packed == Launch(d, {To("sharp", s, {Sharp(SharpOf[s][1], SharpOf[s][2])}) :
                             s \in DOMAIN SharpOf})
  IN  [packed EXCEPT !.stamp = [s \in DOMAIN @ |->
        IF s[1] # "sharp" THEN @[s]
        ELSE [m \in Modes |->
               LET from == @[SharpOf[s[2]]][-m]
               IN  Stamp(from.token, IF from.orders < NextOrders(l) THEN from.orders
                                     ELSE NextOrders(l))]]]

\* The four angular terms of pass 3: the value and the time derivative each is
\* taken of.
Pass3Terms ==
  [ethC           |-> << <<"current", "C">>, <<"next", "C">> >>,
   ethPi          |-> << <<"current", "Pi">>, <<"next", "Pi">> >>,
   ethPrimeBSharp |-> << <<"sharp", "B">>, <<"sharp", "BT">> >>,
   ethPrimeCSharp |-> << <<"sharp", "C">>, <<"sharp", "CT">> >>]

Pass3(d, l, g, fault) ==
  LET token == PassToken(g, l, 3)
      terms == {"pass3"} \X DOMAIN Pass3Terms
      of == [s \in terms |-> [value |-> Pass3Terms[s[2]][1],
                              dt |-> {Dt(Pass3Terms[s[2]][2][1], Pass3Terms[s[2]][2][2])}]]
      rows == RowsStamped(Angular(PackSharpPairs(Cleared(d, terms), l), of),
                [s \in terms |-> {Source(Pass3Terms[s[2]][1], GenerationToken(g)),
                                  Source(Pass3Terms[s[2]][2], PassToken(g, l, 2))}],
                NextOrders(l), token)
      passed == LaunchPass(rows, 3, l, g,
        /\ AllBear(rows, {"next"} \X PassFields[1], PassToken(g, l, 1), NextOrders(l))
        /\ AllBear(rows, {"next"} \X PassFields[2], PassToken(g, l, 2), NextOrders(l))
        /\ ExternalReady(rows, terms, l, g, token), fault)
      \* ready_ as the publication of pass 3 has left it
      ready == AllBear(passed, {<<"next", "U">>}, token, NextOrders(l))
      published == PublishMetric(passed, OwnMetric(l + 1), l + 1, g, ready)
  IN  Cleared(published, {"next"} \X MetricFields)

\* accept_pass3_projection, of the level pass 3 has completed.
ProjectLast(d, l, g) ==
  LET token == PassToken(g, l, 3)
      rows == ProjectRows(d, "current", {"U"}, NextOrders(l), GenerationToken(g), token)
  IN  PublishMetric(rows, [OwnMetric(l + 1) EXCEPT !["U"] = <<"projected", "U">>],
                    l + 1, g, RowsReady(rows, {"U"}, token, NextOrders(l)))

\* The laplacian of the captured psi_l.
LaplacianRows(d, l, g) ==
  LET psi == <<"coefficients", "psi">>  copy == <<"snapshot", "psi">>
      laplacian == <<"laplacian", "psi">>
      copied == [mem   |-> [d.mem EXCEPT ![copy] = d.mem[psi]],
                 stamp |-> [d.stamp EXCEPT ![copy] = d.stamp[psi]]]
  IN  RowsStamped(Angular(Cleared(copied, {laplacian}),
                          [s \in {laplacian} |-> [value |-> copy, dt |-> {}]]),
        [s \in {laplacian} |-> {Source(copy, GenerationToken(g))}],
        NextOrders(l), GenerationToken(g))

\* advance_one_level.
OneLevel(d, l, g, fault) ==
  LET master == ProjectMaster(AdvanceMaster(LaplacianRows(d, l, g), l, g, fault), l + 1, g)
      first  == ProjectNext(Pass1(master, l, g, fault), 1, l, g)
      second == ProjectNext(Pass2(first, l, g, fault), 2, l, g)
  IN  ProjectLast(Pass3(second, l, g, fault), l, g)

-----------------------------------------------------------------------------
(* Level zero *)

\* Fault: the levels above are left as they are.
FaultBegun(old) ==
  Cleared(old, {MasterJet(f, 0) : f \in MasterFields} \cup
               {MetricJet(f, 0) : f \in MetricFields})

\* The views of both towers zeroed, not those of the coordinator.
Begun(old) == Cleared(old, OwnedSlots)

\* The inputs, of which products have left the band, become level zero.  An input
\* has the contents of its field or is not finite, and a stamp of each mode.
Given(d, jets, inputs) ==
  MarkedAs([d EXCEPT !.mem = [s \in TowerSlots |->
              IF s \in jets THEN inputs[s[2][1]] ELSE @[s]]], jets, OffBand)
Welcome(d, jets, stamps, g) ==
  Finite(d, jets) /\ \A s \in jets, m \in Modes : stamps[s[2][1]][m] = g

\* RouteBTeukolskyPrimaryJetTower::initialize.
MasterZero(d, inputs, stamps, g) ==
  LET jets  == {MasterJet(f, 0) : f \in MasterFields}
      given == Given(d, jets, inputs)
  IN  PublishMaster(given, OwnMaster(0), 0, g, NextOrders(0), Welcome(given, jets, stamps, g))

\* RouteBReconstructionJetTower::initialize.
MetricZero(d, inputs, stamps, g) ==
  LET jets  == {MetricJet(f, 0) : f \in MetricFields}
      given == Given(d, jets, inputs)
  IN  PublishMetric(given, OwnMetric(0), 0, g, Welcome(given, jets, stamps, g))

\* accept_initial_projection, behind the projection.
ProjectInitial(d, g) ==
  LET rows == ProjectRows(d, "current", MetricFields, OrdersAt(0),
                          GenerationToken(g), InitialToken(g))
  IN  PublishMetric(rows, FromProjected(MetricFields), 0, g,
                    RowsReady(rows, MetricFields, InitialToken(g), OrdersAt(0)))

\* RouteBAngularJetCoordinator::initialize.
LevelZero(old, inputs, stamps, g) ==
  LET master == MasterZero(Begun(old), inputs, stamps, g)
      metric == MetricZero(master, inputs, stamps, g)
  IN  ProjectInitial(ProjectMaster(metric, 0, g), g)
=============================================================================
