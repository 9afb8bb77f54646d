----------------------------- MODULE MCPipeline -----------------------------
(* Five checkouts, and what is run there by hand.                          *)
EXTENDS Pipeline

\* Two integer targets of M0 and one of M2, under frozen scripts.
FrozenUnder(runners) ==
          [programs |-> {"fetch", "convert"} \cup runners,
           manifests |-> {"m0", "m2"},
           listed |-> [m0 |-> <<"i32", "i64">>, m2 |-> <<"labels">>, m5 |-> <<"i32">>],
           expected_convert_fail |-> {}]

\* One target of each manifest, under the regression gate.
Gated == [programs |-> {"fetch", "regression"},
          manifests |-> {"m0", "m2", "m3"},
          listed |-> [m0 |-> <<"i32">>, m2 |-> <<"labels">>, m3 |-> <<"store">>, m5 |-> <<"i32">>],
          expected_convert_fail |-> {}]

\* The M5 sweep: targets that are to convert and one that is not.
Sweep(converting) ==
         [programs |-> {"fetch", "convert_m5", "run_m5"},
          manifests |-> {"m0", "m2"},
          listed |-> [m0 |-> <<"i32">>, m2 |-> <<"i32">>, m5 |-> <<"array">> \o converting],
          expected_convert_fail |-> {"array"}]

ThePlans == {FrozenUnder({"run_skeleton"}), FrozenUnder({"run_m1"}), FrozenUnder({"run_m2"}),
             Gated, Sweep(<<"i32">>)}
JustSweep == {Sweep(<<"i32", "f32">>)}
=============================================================================
