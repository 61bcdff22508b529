---- MODULE MCRunConfiguration ----
EXTENDS RunConfiguration

MCIntMin == -32

MCCommented == [p \in {"run#1"} |-> "run"]

Plainly(key, values) == {<<key, Absent, v>> : v \in values}
OfMode(index, zeros, field, values) == {<<field, <<index, zeros>>, v>> : v \in values}

\* Bands, modes and the second order.
GridSettings ==
    Plainly("ellmax_first", {5}) \cup Plainly("ellmax_second", {5})
    \cup Plainly("ntheta", {9}) \cup Plainly("plus2_first", {5})
    \cup Plainly("first_order_modes", {<<2, -2, 0>>, <<-2, -1, 1, 2>>})
    \cup Plainly("second_order_modes", {<<-4, 0, 4>>, <<4, 2, 0, -2, -4>>})
    \cup Plainly("second_order", {TRUE})
    \cup Plainly("allow_truncated", {TRUE})

\* Seeds, their partners and where the data come from.
DataSettings ==
    Plainly("seed_ell", {3}) \cup Plainly("add_sharp_partner", {TRUE})
    \cup Plainly("initial_type", {"checkpoint"})
    \cup Plainly("checkpoint_directory", {"run#1"})
    \cup Plainly("output_directory", {"run#1"})
    \cup OfMode(0, 0, "ell", {4}) \cup OfMode(0, 1, "ell", {3})
    \cup OfMode(1, 0, "ell", {2}) \cup OfMode(1, 1, "ell", {3})
    \cup OfMode(1, 0, "m", {-2, 0}) \cup OfMode(1, 0, "amplitude", {"1e-5"})

\* The companion, and what is refused anywhere.
OtherSettings ==
    Plainly("plus2", {TRUE}) \cup Plainly("plus2_mode", {"diagnostic_only"})
    \cup Plainly("numbers", {Malformed, "above_cfl"})

MCSettings == GridSettings \cup DataSettings \cup OtherSettings

\* Bands and modes at the end of the range of int.
MCLimitSettings ==
    Plainly("ellmax_first", {IntMax}) \cup Plainly("ellmax_second", {3})
    \cup Plainly("first_order_modes", {<<IntMin, -2, 2>>})
    \cup Plainly("second_order", {TRUE})
====
