--------------------------- MODULE FrozenRunners ---------------------------
(***************************************************************************)
(* One run of a frozen runner: run_m1's over converted files, which is     *)
(* also M2's and M3's; run_m4's over a curation somebody wrote; or the M4  *)
(* enumerator and then run_m4, over the curation the enumerator left.      *)
(***************************************************************************)
EXTENDS RunnerM1, EnumerateM4

VARIABLE script     \* the script that runs

NoCuration == scope = Committed /\ answers = <<>> /\ rows = <<>> /\ exit = "loading"

M1Init == script = "run_m1" /\ OracleInit /\ NoCuration /\ EnumeratorInit
M4Init == script = "run_m4" /\ OracleInit /\ CurationInit /\ EnumeratorInit
EnumerateInit == script = "enumerate" /\ OracleInit /\ NoCuration /\ EnumeratorInit

M1Step == script = "run_m1" /\ OracleNext /\ UNCHANGED <<script, curation, enumerator>>
M4Step == script = "run_m4" /\ CurationNext /\ UNCHANGED <<script, oracle, enumerator>>
EnumerateStep == script = "enumerate" /\ EnumeratorNext
                 /\ UNCHANGED <<script, oracle, answers, rows, exit>>
RunEnumerated == script = "enumerate" /\ EnumeratorDone /\ CurationNext
                 /\ UNCHANGED <<script, oracle, enumerator>>

RunnersSpec ==
  (M1Init \/ M4Init \/ EnumerateInit)
  /\ [][M1Step \/ M4Step \/ EnumerateStep \/ RunEnumerated]_<<script, oracle, curation, enumerator>>
=============================================================================
