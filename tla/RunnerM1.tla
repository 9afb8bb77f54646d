------------------------------ MODULE RunnerM1 ------------------------------
(***************************************************************************)
(* scripts/run_m1.py: run_file, which run_m2.py and run_m3.py call as      *)
(* well, and main, command by command over the files of a run.  What the   *)
(* engine does with a command is an input; what the runner makes of it is  *)
(* the model.                                                              *)
(***************************************************************************)
EXTENDS Naturals, Sequences, SequencesExt

CONSTANTS Files,        \* how many converted files there are
          MaxCommands,  \* bound: commands in a file
          None          \* no live instance

ASSUME RunnerM1Assumption ==
  Files \in Nat \ {0} /\ MaxCommands \in Nat /\ None \notin Nat

VARIABLES
  fr,        \* FileResult of the file at hand
  results,   \* FileResults of the files done
  instance,  \* the current module instance, by the command that made it
  rc,        \* the exit code; "running" until there is one
  module,    \* history: the last module command of the file, 0 before one
  mismatch   \* history: the engine differed from the oracle, or raised

oracle == <<fr, results, instance, rc, module, mismatch>>

----------------------------------------------------------------------------
FileResult == [total |-> 0, modules_ok |-> 0, passed |-> 0, failed |-> 0, unsupported |-> 0]

\* A command read, and the one bucket it lands in.
Counted(bucket) == fr' = [fr EXCEPT !.total = @ + 1, ![bucket] = @ + 1]
Reads == rc = "running" /\ Len(results) < Files /\ fr.total < MaxCommands

(* An exception nothing catches ends the run without a summary.            *)
Raises == rc' = "raised" /\ UNCHANGED <<fr, results, instance, module>>

\* Mutant: a module that does not decode leaves the one before it live.
Module_keeps(outcome) ==
  /\ Reads
  /\ CASE outcome = "ok" -> Counted("modules_ok") /\ instance' = fr.total + 1
       [] outcome = "Unsupported" -> Counted("unsupported") /\ UNCHANGED instance
       [] OTHER -> Counted("failed") /\ UNCHANGED instance
  /\ module' = fr.total + 1
  /\ mismatch' = (mismatch \/ outcome \in {"missing", "DecodeError"})
  /\ UNCHANGED <<results, rc>>

(* A memory the host cannot allocate is neither of the decoder's two       *)
(* exceptions.                                                             *)
ModuleRaises == Reads /\ Raises /\ mismatch' = TRUE

Module(outcome) ==
  /\ Reads
  /\ CASE outcome = "ok" -> Counted("modules_ok") /\ instance' = fr.total + 1
       [] outcome = "Unsupported" -> Counted("unsupported") /\ instance' = None
       [] OTHER -> Counted("failed") /\ instance' = None
  /\ module' = fr.total + 1
  /\ mismatch' = (mismatch \/ outcome \in {"missing", "DecodeError"})
  /\ UNCHANGED <<results, rc>>

(* What invoke may come to; the last of a set is compare_return raising on *)
(* an operand that is no integer, outside of the try.                      *)
Caught == {"KeyError", "ValueError", "IndexError"}
Returned == {"equal", "differs", "float expected"}
Trapped == {"trap as expected", "another trap"}

_do_return(outcome) ==
  IF instance = None \/ outcome = "Unsupported" THEN "unsupported"
  ELSE IF outcome \in Caught \cup Trapped THEN "failed"
  ELSE IF outcome = "equal" THEN "passed" ELSE "failed"

_do_trap(outcome) ==
  IF instance = None \/ outcome = "Unsupported" THEN "unsupported"
  ELSE IF outcome = "trap as expected" THEN "passed" ELSE "failed"

(* An assertion; without an instance nothing is invoked.                   *)
Asserts(wanted, bucket, outcome) ==
  /\ Reads
  /\ mismatch' = (mismatch \/ (instance # None /\ outcome \notin {wanted, "Unsupported"}))
  /\ Counted(bucket)
  /\ UNCHANGED <<results, instance, rc, module>>

AssertReturn(outcome) ==
  IF outcome = "float expected" /\ instance # None
  THEN Reads /\ Raises /\ mismatch' = TRUE
  ELSE Asserts("equal", _do_return(outcome), outcome)

AssertTrap(outcome) == Asserts("trap as expected", _do_trap(outcome), outcome)

(* assert_invalid and its kin, register, action and what is to come.       *)
OutOfScope ==
  /\ Reads /\ Counted("unsupported")
  /\ UNCHANGED <<results, instance, rc, module, mismatch>>

(* run_file returns: the identity is asserted, the next file begins with   *)
(* no instance.                                                            *)
Identity(r) == r.modules_ok + r.passed + r.failed + r.unsupported = r.total
FileEnds ==
  /\ rc = "running" /\ Len(results) < Files
  /\ IF Identity(fr)
     THEN /\ results' = Append(results, fr) /\ fr' = FileResult
          /\ instance' = None /\ module' = 0 /\ UNCHANGED rc
     ELSE Raises
  /\ UNCHANGED mismatch

Failures == \E r \in ToSet(results) : r.failed > 0

(* main: the summary, and the gate: the sum of the failures is not zero.   *)
Gate ==
  /\ rc = "running" /\ Len(results) = Files
  /\ rc' = IF Failures THEN "1" ELSE "0"
  /\ UNCHANGED <<fr, results, instance, module, mismatch>>

OracleInit ==
  /\ fr = FileResult /\ results = <<>> /\ instance = None
  /\ rc = "running" /\ module = 0 /\ mismatch = FALSE

OracleNext ==
  \/ \E outcome \in {"ok", "missing", "Unsupported", "DecodeError"} : Module(outcome)
  \/ \E outcome \in Caught \cup Returned \cup Trapped \cup {"Unsupported"} :
       AssertReturn(outcome) \/ AssertTrap(outcome)
  \/ ModuleRaises \/ OutOfScope \/ FileEnds \/ Gate

----------------------------------------------------------------------------
(* Every command read is in one bucket, in every file.                     *)
OracleTypeOK ==
  /\ \A r \in ToSet(results) \cup {fr} : r \in [DOMAIN FileResult -> Nat] /\ Identity(r)
  /\ rc \in {"running", "raised", "0", "1"} /\ Len(results) <= Files
  /\ module <= fr.total

(* The instance assertions run against is that of the last module command  *)
(* of their own file, or there is none: a module that could not be made    *)
(* does not leave an earlier one to be judged in its place.                *)
NoStaleInstance == instance \in {module, None} /\ instance # 0

(* The gate's zero is the oracle's: no module of any file was missing or   *)
(* undecodable, no assertion that could run differed, and nothing was cut  *)
(* short; and the gate fails for no other reason.                          *)
GateIsTheOracle ==
  /\ rc = "0" => ~mismatch
  /\ rc \in {"1", "raised"} => mismatch

(* A frozen run, whole: each command in one bucket, no stale instance, and *)
(* a gate that answers as the oracle does.                                 *)
OracleRun == OracleTypeOK /\ NoStaleInstance /\ GateIsTheOracle
=============================================================================
