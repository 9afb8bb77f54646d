----------------------------- MODULE MCRunnerM5 -----------------------------
EXTENDS RunnerM5History, TLC
CONSTANTS n1, n2, x1,
          MaxRun   \* bound: commands in all files of a run together
MCNames == {n1, n2}
MCAliases == {x1}
NameSymmetry == Permutations(MCNames)

WithinRun == status' = "running" => totals'["total"] + done' <= MaxRun
MCSpec == HInit /\ [][HNext /\ WithinRun]_hvars
=============================================================================
