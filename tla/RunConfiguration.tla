---------------------------- MODULE RunConfiguration ----------------------------
(*******************************************************************************)
(* How a run gets its parameters (config.hpp, run_parameters.hpp): a file of   *)
(* settings, overrides on the command line, defaults and inheritance between   *)
(* keys, validation, the resolved_config.cfg that a run leaves behind, and a   *)
(* further run that starts from that file.                                     *)
(*                                                                             *)
(* A setting is <<key, at, value>>: "at" is Absent for a plain key and         *)
(* <<index, zeros>> for initial_data.mode.<index>.<key>, where zeros counts    *)
(* the leading zeros the index is spelled with.  The two parts of an amplitude *)
(* are one value.  The keys whose values are only compared with each other and *)
(* with bounds (mass, times, methods, cadences) are one key, "numbers": they   *)
(* are "admissible", or they pass validation with a time step above the radial *)
(* CFL limit ("above_cfl"), or they do not pass it.                            *)
(*******************************************************************************)
EXTENDS ModeRegistry

CONSTANTS
    Settings,       \* what a user may write, in the file or as an override
    Commented,      \* paths with a '#' in them, each with what stands before it
    MaxSettings,    \* bound on the settings of the file
    MaxOverrides,   \* bound on the overrides of one run
    Malformed,      \* a value that cannot be parsed as what its key requires
    Absent

\* A mode's index is a number and the zeros it is spelled with are counted.  A list
\* of modes that can be parsed is one of ints.
ASSUME SettingsAssumption ==
    /\ Absent \notin Nat \X Nat
    /\ \A s \in Settings :
           /\ s[2] \in {Absent} \cup (Nat \X Nat)
           /\ s[1] \in {"first_order_modes", "second_order_modes"} =>
                  s[3] \in Seq(Ints) \cup {Malformed}

VARIABLES
    file,        \* the settings in the file
    overrides,   \* the settings on the command line
    run,         \* Absent, Refused, or the parameters of the accepted run
    previous     \* Absent, or the run whose resolved file is in use

configurationVars == <<file, overrides, run, previous>>

-------------------------------------------------------------------------------
(* The parameters and their defaults (run_parameters.hpp).                     *)

Defaults ==
    [numbers |-> "admissible", ntheta |-> 7,
     ellmax_first |-> 4, ellmax_second |-> 4,
     first_order_modes |-> <<-2, 2>>, second_order_modes |-> <<-2, 2>>,
     initial_type |-> "gaussian", add_sharp_partner |-> FALSE,
     checkpoint_directory |-> "",
     second_order |-> FALSE, allow_truncated |-> FALSE,
     plus2 |-> FALSE, plus2_mode |-> "disabled", initial_policy |-> "zero",
     second_checkpoint |-> "", plus2_first |-> 4, plus2_second |-> 4,
     regularized |-> TRUE, physical |-> TRUE, families |-> TRUE, pairs |-> FALSE,
     output_directory |-> "teuk-output"]

BaseSeed == [ell |-> 2, m |-> 2, amplitude |-> "1e-3"]

\* What cannot be parsed is no parameter, and a path without a '#' is not commented.
ASSUME ValuesAssumption ==
    /\ \A k \in DOMAIN Defaults : Defaults[k] # Malformed
    /\ \A f \in DOMAIN BaseSeed : BaseSeed[f] # Malformed
    /\ Malformed \notin {"none", ""} /\ "none" \notin DOMAIN Commented
    /\ -2 \in Ints /\ 2 \in Ints

\* The keys of the base mode besides initial_data.mode.0.
SeedKey == [ell |-> "seed_ell", m |-> "seed_m", amplitude |-> "seed_amplitude"]

PathKeys == {"checkpoint_directory", "second_checkpoint", "output_directory"}

Known(key) == IF key[2] = Absent
              THEN key[1] \in DOMAIN Defaults \cup {SeedKey[f] : f \in DOMAIN SeedKey}
              ELSE key[1] \in DOMAIN BaseSeed

-------------------------------------------------------------------------------
(* Reading and merging.                                                        *)

KeyOf(setting) == <<setting[1], setting[2]>>

\* Whatever follows a '#' in a line of a file is dropped, on the command line it
\* is kept.
BeforeComment(path) == IF path \in DOMAIN Commented THEN Commented[path] ELSE path

ReadLine(setting) ==
    IF setting[1] \in PathKeys
    THEN <<setting[1], setting[2], BeforeComment(setting[3])>>
    ELSE setting

Repeated(settings) == \E s, t \in settings : KeyOf(s) = KeyOf(t) /\ s # t

Entries(settings) ==
    [k \in {KeyOf(s) : s \in settings} |->
        (CHOOSE s \in settings : KeyOf(s) = k)[3]]

\* merge_overrides: an override takes the place of the entry with the same key.
FaultMerged(f, o) ==
    LET read == Entries({ReadLine(s) : s \in f})  given == Entries(o)
    IN  [k \in DOMAIN read \cup DOMAIN given |->
            IF k \in DOMAIN read THEN read[k] ELSE given[k]]

Merged(f, o) ==
    LET read == Entries({ReadLine(s) : s \in f})  given == Entries(o)
    IN  [k \in DOMAIN read \cup DOMAIN given |->
            IF k \in DOMAIN given THEN given[k] ELSE read[k]]

-------------------------------------------------------------------------------
(* resolve_run_parameters.                                                     *)

Given(e, key) == <<key, Absent>> \in DOMAIN e
Plain(e, key) == IF Given(e, key) THEN e[<<key, Absent>>] ELSE Defaults[key]
NoneIsEmpty(path) == IF path = "none" THEN "" ELSE path

\* A band that is not given is the one it inherits from.
Values(e) ==
    LET second == IF Given(e, "ellmax_second") THEN Plain(e, "ellmax_second")
                  ELSE Plain(e, "ellmax_first")
        inherited == [ellmax_second |-> second,
                      plus2_first |-> Plain(e, "ellmax_first"),
                      plus2_second |-> second]
    IN  [k \in DOMAIN Defaults |->
            IF k \in {"checkpoint_directory", "second_checkpoint"}
            THEN NoneIsEmpty(Plain(e, k))
            ELSE IF k \in DOMAIN inherited /\ ~ Given(e, k)
            THEN inherited[k]
            ELSE Plain(e, k)]

\* The entries that name a field of a mode: one for each spelling of its index.
Spelled(e, index, field) ==
    {k \in DOMAIN e : k[2] # Absent /\ k[1] = field /\ k[2][1] = index}

\* Of two spellings the one that comes last in the order of the map counts:
\* "1." comes after "01.", and "00." after "0.".
LastSpelling(index, keys) ==
    CHOOSE k \in keys : \A other \in keys :
        IF index = 0 THEN other[2][2] <= k[2][2] ELSE other[2][2] >= k[2][2]

SeedIndices(e) == {0} \cup {k[2][1] : k \in {k \in DOMAIN e : k[2] # Absent}}

SeedComplete(e, index) ==
    index = 0 \/ \A f \in DOMAIN BaseSeed : Spelled(e, index, f) # {}

FaultSeedField(e, index, field) ==
    IF Spelled(e, index, field) # {}
    THEN e[LastSpelling(index, Spelled(e, index, field))]
    ELSE BaseSeed[field]

\* Mode 0 is also the base seed, whose own keys are read first.
SeedField(e, index, field) ==
    IF Spelled(e, index, field) # {}
    THEN e[LastSpelling(index, Spelled(e, index, field))]
    ELSE IF Given(e, SeedKey[field])
    THEN e[<<SeedKey[field], Absent>>]
    ELSE BaseSeed[field]

Seeds(e) ==
    LET order == Ascending(SeedIndices(e))
    IN  [i \in 1 .. Len(order) |->
            [f \in DOMAIN BaseSeed |-> SeedField(e, order[i], f)]]

Resolve(e) ==
    IF \/ \E k \in DOMAIN e : ~ Known(k) \/ e[k] = Malformed
       \/ \E i \in SeedIndices(e) : ~ SeedComplete(e, i)
    THEN Refused
    ELSE [values |-> Values(e), seeds |-> Seeds(e)]

-------------------------------------------------------------------------------
(* validate_run_parameters.  Arithmetic on ints wraps around where it leaves   *)
(* their range, as the build does it; the negative of IntMin is IntMin.        *)

Wrapped(n) == ((n - IntMin) % (IntMax - IntMin + 1)) + IntMin
Magnitude(n) == IF n < 0 THEN Wrapped(-n) ELSE n
Halved(n) == IF n < 0 THEN -((-n) \div 2) ELSE n \div 2
Greatest(S) == CHOOSE n \in S : \A other \in S : other <= n

\* What products of two first-order fields and one second-order field need.
ProductNodes(first, second) == Halved(Wrapped(2 * first + second + 2))

GridResolves(nodes, first, second) ==
    nodes >= Greatest({Wrapped(first + 1), Wrapped(second + 1),
                       ProductNodes(first, second)})

ModesValid(list, ell_max) ==
    /\ list # << >>
    /\ ~ Repeats(list)
    /\ \A m \in ToSet(list) : /\ Magnitude(m) <= ell_max
                              /\ Wrapped(-m) \in ToSet(list)

\* Seeds are examined in order, each against those before it and itself.
FaultSeedsValid(v, seeds) ==
    \A i \in 1 .. Len(seeds) :
        /\ seeds[i].ell >= Greatest({2, Magnitude(seeds[i].m)})
        /\ seeds[i].ell <= v.ellmax_first
        /\ seeds[i].m \in ToSet(v.first_order_modes)
        /\ \A j \in 1 .. i - 1 :
               <<seeds[j].ell, seeds[j].m>> # <<seeds[i].ell, seeds[i].m>>

SeedsValid(v, seeds) ==
    \A i \in 1 .. Len(seeds) :
        /\ seeds[i].ell >= Greatest({2, Magnitude(seeds[i].m)})
        /\ seeds[i].ell <= v.ellmax_first
        /\ seeds[i].m \in ToSet(v.first_order_modes)
        /\ \A j \in 1 .. i - 1 :
               <<seeds[j].ell, seeds[j].m>> # <<seeds[i].ell, seeds[i].m>>
        /\ v.add_sharp_partner /\ seeds[i].m # 0 =>
               \A j \in 1 .. i :
                   <<seeds[j].ell, seeds[j].m>> # <<seeds[i].ell, Wrapped(-seeds[i].m)>>

DaughtersValid(v) ==
    LET missing == MissingDaughters(v.first_order_modes, v.second_order_modes)
    IN  v.second_order => missing # Refused /\ (v.allow_truncated \/ missing = {})

Plus2Valid(v) ==
    LET loads == v.initial_policy = "checkpoint"
    IN  /\ v.plus2 = (v.plus2_mode # "disabled")
        /\ v.plus2_first >= 2 /\ v.plus2_second >= 2
        /\ \A m \in ToSet(v.first_order_modes) : Magnitude(m) <= v.plus2_first
        /\ \A m \in ToSet(v.second_order_modes) : Magnitude(m) <= v.plus2_second
        /\ v.plus2 => GridResolves(v.ntheta, v.plus2_first, v.plus2_second)
        /\ loads = (v.second_checkpoint # "")
        /\ v.second_checkpoint \notin DOMAIN Commented
        /\ v.plus2_mode \in {"disabled", "diagnostic_only"} => ~ loads
        /\ v.plus2_mode \in {"concurrent", "replay"} => v.second_order
        /\ v.pairs => v.families
        /\ v.plus2 => v.regularized \/ v.physical

Valid(p) ==
    LET v == p.values
    IN  /\ v.numbers \in {"admissible", "above_cfl"}
        /\ v.ellmax_first >= 3 /\ v.ellmax_second >= 3
        /\ GridResolves(v.ntheta, v.ellmax_first, v.ellmax_second)
        /\ ModesValid(v.first_order_modes, v.ellmax_first)
        /\ ModesValid(v.second_order_modes, v.ellmax_second)
        /\ DaughtersValid(v)
        /\ IF v.initial_type = "gaussian"
           THEN p.seeds # << >> /\ SeedsValid(v, p.seeds)
           ELSE v.checkpoint_directory # ""
        /\ Plus2Valid(v)
        /\ v.output_directory # ""

\* parse_run_configuration.  A line without a value is refused.
Parsed(f, o) ==
    LET p == Resolve(Merged(f, o))
    IN  IF \/ Repeated(f) \/ Repeated(o)
           \/ \E s \in f : s[1] \in PathKeys /\ BeforeComment(s[3]) = ""
           \/ p = Refused
        THEN Refused
        ELSE IF Valid(p) THEN p ELSE Refused

-------------------------------------------------------------------------------
(* resolved_configuration_text: every parameter is written, inherited or not;  *)
(* the seeds are numbered anew.                                                *)

EmptyIsNone(path) == IF path = "" THEN "none" ELSE path

FaultResolvedText(p) ==
    {<<k, Absent, IF k \in {"checkpoint_directory", "second_checkpoint"}
                THEN EmptyIsNone(p.values[k]) ELSE p.values[k]>> :
        k \in DOMAIN Defaults \ {"plus2_first", "plus2_second"}}
    \cup {<<f, <<i - 1, 0>>, p.seeds[i][f]>> :
             i \in 1 .. Len(p.seeds), f \in DOMAIN BaseSeed}

ResolvedText(p) ==
    {<<k, Absent, IF k \in {"checkpoint_directory", "second_checkpoint"}
                THEN EmptyIsNone(p.values[k]) ELSE p.values[k]>> :
        k \in DOMAIN Defaults}
    \cup {<<f, <<i - 1, 0>>, p.seeds[i][f]>> :
             i \in 1 .. Len(p.seeds), f \in DOMAIN BaseSeed}

-------------------------------------------------------------------------------
(* What a run makes of its parameters.                                         *)

RunRegistry(v) ==
    LET stored == ToSet(v.first_order_modes) \cup ToSet(v.second_order_modes)
    IN  Registry(Ascending(stored), v.first_order_modes, v.second_order_modes)

\* expanded_gaussian_modes, as <<ell, m>>: a repetition is refused.
ExpandedSeeds(p) ==
    LET partners == IF p.values.add_sharp_partner
                    THEN SelectSeq(p.seeds, LAMBDA s : s.m # 0) ELSE << >>
        keys == [i \in 1 .. Len(p.seeds) |-> <<p.seeds[i].ell, p.seeds[i].m>>]
                \o [i \in 1 .. Len(partners) |->
                       <<partners[i].ell, Wrapped(-partners[i].m)>>]
    IN  IF Repeats(keys) THEN Refused ELSE keys

\* A transform needs a node for each harmonic it retains.
TransformFits(spin, m, ell_max, nodes) ==
    LET ell_min == Greatest({Magnitude(spin), Magnitude(m)})
    IN  ell_max >= ell_min /\ nodes >= ell_max - ell_min + 1

\* The constructor of the pipeline, with the transforms of its coordinators.
PipelineAccepts(registry, v) ==
    /\ v.ellmax_first >= 3 /\ v.ellmax_second >= 3
    /\ GridResolves(v.ntheta, v.ellmax_first, v.ellmax_second)
    /\ \A m \in ToSet(registry.parents) :
           /\ Magnitude(m) <= v.ellmax_first
           /\ \A spin \in -2 .. 2 : TransformFits(spin, m, v.ellmax_first, v.ntheta)
    /\ \A m \in ToSet(registry.targets) :
           /\ Magnitude(m) <= v.ellmax_second
           /\ \A spin \in {-2, -1} : TransformFits(spin, m, v.ellmax_second, v.ntheta)

\* validate_gaussian_pulse, on the seeds as they were expanded.
PulseAccepted(registry, v, keys) ==
    /\ ClosedUnderSharp(registry)
    /\ v.ntheta >= v.ellmax_first + 1
    /\ keys # << >>
    /\ \A i \in 1 .. Len(keys) :
           /\ IsParent(registry, keys[i][2])
           /\ keys[i][1] >= Greatest({2, Magnitude(keys[i][2])})
           /\ keys[i][1] <= v.ellmax_first

\* run_solver: how far it gets with its parameters.  The resolved file is written
\* unless the companion is asked for; the pipeline is allocated once the time step
\* has been compared with the CFL limit; a checkpoint may still fail to load.
RunSolver(p) ==
    LET v == p.values
        registry == RunRegistry(v)
        keys == ExpandedSeeds(p)
    IN  IF v.plus2 THEN "refused_before_output"
        ELSE IF registry = Refused THEN "registry_refused"
        ELSE IF v.numbers = "above_cfl" THEN "refused_before_pipeline"
        ELSE IF ~ PipelineAccepts(registry, v) THEN "pipeline_refused"
        ELSE IF v.initial_type = "checkpoint" THEN "loads"
        ELSE IF keys = Refused THEN "data_refused"
        ELSE IF PulseAccepted(registry, v, keys) THEN "evolves" ELSE "data_refused"

-------------------------------------------------------------------------------
(* Actions.                                                                    *)

ConfigurationInit ==
    /\ file = {}
    /\ overrides = {}
    /\ run = Absent
    /\ previous = Absent

WriteSetting ==
    /\ run = Absent
    /\ previous = Absent
    /\ overrides = {}
    /\ Cardinality(file) < MaxSettings
    /\ \E s \in Settings : file' = file \cup {s}
    /\ UNCHANGED <<overrides, run, previous>>

AddOverride ==
    /\ run = Absent
    /\ Cardinality(overrides) < MaxOverrides
    /\ \E s \in Settings : overrides' = overrides \cup {s}
    /\ UNCHANGED <<file, run, previous>>

Start ==
    /\ run = Absent
    /\ run' = Parsed(file, overrides)
    /\ UNCHANGED <<file, overrides, previous>>

\* Another run is started with the resolved file of the first, if run_solver got as
\* far as to write it.
Reuse ==
    /\ run \notin {Absent, Refused}
    /\ RunSolver(run) # "refused_before_output"
    /\ previous = Absent
    /\ file' = ResolvedText(run)
    /\ overrides' = {}
    /\ previous' = run
    /\ run' = Absent

ConfigurationNext == WriteSetting \/ AddOverride \/ Start \/ Reuse

ConfigurationSpec == ConfigurationInit /\ [][ConfigurationNext]_configurationVars

Accepted == run \notin {Absent, Refused}

-------------------------------------------------------------------------------
(* Properties.                                                                 *)

\* The file holds settings of the user or of a resolved file, and an accepted
\* run has all parameters, one seed at least, and bands that are numbers.
ParametersTypeOK ==
    /\ IF previous = Absent THEN file \subseteq Settings ELSE file = ResolvedText(previous)
    /\ overrides \subseteq Settings
    /\ Accepted => /\ DOMAIN run.values = DOMAIN Defaults
                   /\ run.values.ellmax_second \in Ints
                   /\ run.seeds # << >>

HasComment(p) == \E k \in PathKeys : p.values[k] \in DOMAIN Commented

\* The resolved file of an accepted run stands for that run: it is accepted, and
\* read back it gives the same parameters, whatever was inherited, renumbered or
\* left out (resolved_configuration_text against resolve_run_parameters).  Paths
\* with a comment sign are the exception that ResolvedIsExact is about.
ReadsBack ==
    Accepted /\ ~ HasComment(run) => Parsed(ResolvedText(run), {}) = run

\* The statement of the documentation, without the exception: the resolved file
\* contains all defaults, file values and overrides.
ResolvedIsExact == Accepted => Parsed(ResolvedText(run), {}) = run

\* Whatever validation accepts, the registry, the pipeline with its transforms and
\* the initial data accept too: nothing is refused once the pipeline is allocated.
\* Two refusals are left to run_solver: the companion, before anything is written,
\* and a time step above the radial CFL limit, which validation does not look at
\* and which is found when resolved_config.cfg has been written.
ValidatedRunStarts ==
    Accepted => RunSolver(run) =
        IF run.values.plus2 THEN "refused_before_output"
        ELSE IF run.values.numbers = "above_cfl" THEN "refused_before_pipeline"
        ELSE IF run.values.initial_type = "checkpoint" THEN "loads" ELSE "evolves"

\* No product of two first-order modes is dropped silently: in an accepted run
\* with a source that does not opt out, each ordered pair of parents is among the
\* pairs of the target its modes sum to.
NoDaughterIsLost ==
    Accepted /\ run.values.second_order /\ ~ run.values.allow_truncated =>
        LET registry == RunRegistry(run.values)
        IN  \A l, r \in ToSet(run.values.first_order_modes) :
                /\ l + r \in ToSet(registry.targets)
                /\ LET range == PairRange(registry, l + r)
                   IN  \E i \in range[1] .. range[2] - 1 :
                           registry.pairs[i + 1] = [m1 |-> l, m2 |-> r, target |-> l + r]

\* The field of a mode that a setting names, if it names one.
NamedFields(setting) ==
    IF setting[2] = Absent
    THEN {<<0, f>> : f \in {f \in DOMAIN BaseSeed : setting[1] = SeedKey[f]}}
    ELSE {<<setting[2][1], f>> : f \in {f \in DOMAIN BaseSeed : setting[1] = f}}

\* The seed of the run that the mode of an index became.
SeedOf(index) ==
    LET order == Ascending(SeedIndices(Merged(file, overrides)))
    IN  run.seeds[CHOOSE i \in 1 .. Len(order) : order[i] = index]

\* A setting is what the run has.
Honoured(setting) ==
    /\ setting[2] = Absent /\ setting[1] \in DOMAIN Defaults =>
           run.values[setting[1]] \in {setting[3], IF setting[1] \in PathKeys
                                                  THEN NoneIsEmpty(setting[3])
                                                  ELSE setting[3]}
    /\ \A q \in NamedFields(setting) : SeedOf(q[1])[q[2]] = setting[3]

\* Of two settings that name one field by different keys, the one that is read
\* later counts: a mode's own key after those of the base mode, and of two
\* spellings of an index the one that comes later in the order of the map.
ReadLater(t, s) ==
    /\ NamedFields(t) \cap NamedFields(s) # {}
    /\ t[2] # Absent
    /\ s[2] = Absent \/ IF t[2][1] = 0 THEN t[2][2] > s[2][2] ELSE t[2][2] < s[2][2]

\* What the command line says is what the run has, for every key and every field
\* of every mode, with one exception: the file or a further override names the
\* field of that mode by another key, one that is read later.
OverridesCount ==
    Accepted => \A s \in overrides :
        Honoured(s) \/ \E t \in file \cup overrides : ReadLater(t, s)

\* The statement of the documentation, without the exception: overrides on the
\* command line override the values of the file.
OverridesOverrideTheFile == Accepted => \A s \in overrides : Honoured(s)
===============================================================================
