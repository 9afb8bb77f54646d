---------------------------- MODULE ScriptProofs ----------------------------
(***************************************************************************)
(* The invariants of the scripts: of module FrozenRunners, for any number  *)
(* of files, any curation, any expected numbers and any corpus, and of     *)
(* module Pipeline, for any checkout, any targets and any programs run in  *)
(* any order and interrupted anywhere.                                     *)
(***************************************************************************)
EXTENDS FrozenRunners, Pipeline, FiniteSetTheorems, TLAPS

steps == <<script, oracle, curation, enumerator>>

----------------------------------------------------------------------------
(* run_m1: the failures counted are the differences from the oracle.       *)
Tallied == [DOMAIN FileResult -> Nat]

M1Typed ==
  /\ fr \in Tallied /\ Identity(fr)
  /\ results \in Seq(Tallied) /\ \A i \in DOMAIN results : Identity(results[i])
  /\ Len(results) <= Files
  /\ rc \in {"running", "raised", "0", "1"}
  /\ module \in Nat /\ module <= fr.total
  /\ mismatch \in BOOLEAN

Failed == fr.failed > 0 \/ Failures

M1Inv ==
  /\ M1Typed /\ NoStaleInstance
  /\ rc = "running" => (mismatch <=> Failed)
  /\ Len(results) = Files => fr.failed = 0
  /\ GateIsTheOracle

----------------------------------------------------------------------------
(* run_m4: what the scope is, and how far the rows have come.              *)
Curated ==
  [decision : {"INCLUDED", "UNSUPPORTED", "POLICY_VIOLATION"}, fits : BOOLEAN,
   category : Categories \cup {"deferred", "policy_violation"}, reason : BOOLEAN]
Scopes == [records : Seq(Curated), totals_agree : BOOLEAN, violations : BOOLEAN]

Statuses == {"UNSUPPORTED", "PASS", "FAIL"}
Asked == Answers \cup {"not asked"}

M4Typed ==
  /\ scope \in Scopes
  /\ exit \in {"loading", "running", "refused", "raised", "0", "1"}
  /\ rows \in Seq(Statuses)
  /\ answers \in Seq(Asked)
  /\ Len(rows) = Len(answers) /\ Len(rows) <= Len(scope.records)

\* What load_scope asks of the scope.
Loadable ==
  /\ scope.totals_agree /\ ~scope.violations
  /\ Len(scope.records) = EXPECTED_TOTAL
  /\ Decided(scope.records, "INCLUDED") = EXPECTED_INCLUDED
  /\ Decided(scope.records, "UNSUPPORTED") = EXPECTED_UNSUPPORTED
  /\ \A i \in DOMAIN scope.records : Acceptable(scope.records[i])

\* Row by row: a deferred record is not asked about, any other is judged.
Judged ==
  \A i \in DOMAIN rows :
    IF scope.records[i].decision = "UNSUPPORTED"
    THEN rows[i] = "UNSUPPORTED" /\ answers[i] = "not asked"
    ELSE answers[i] \in Answers /\ rows[i] = Status(scope.records[i], answers[i])

M4Inv ==
  /\ M4Typed /\ Judged
  /\ exit = "loading" => rows = <<>>
  /\ exit = "refused" => ~Loadable
  /\ exit \notin {"loading", "refused"} => Loadable
  /\ exit \in {"0", "1"} => Len(rows) = Len(scope.records)
  /\ exit = "0" => \A i \in DOMAIN rows : rows[i] # "FAIL"
  /\ exit = "1" => \E i \in DOMAIN rows : rows[i] = "FAIL"

----------------------------------------------------------------------------
(* The enumerator: what it has gathered while nothing went wrong.          *)
EnumTyped ==
  /\ gathered \in Seq(Curated) /\ within \in Seq(BOOLEAN) /\ met \in Nat
  /\ violations \in BOOLEAN
  /\ code \in {"idle", "gathering", "raised", "0", "1"}
  /\ Len(within) = Len(gathered) /\ Len(gathered) <= met /\ met <= MaxAssertions

Sound(r) == r = Deferred \/ (r.decision = "INCLUDED" /\ Acceptable(r))

\* Without a violation, every assertion met has a record of its own, a sound
\* one, and what is included was looked into.
Clean ==
  ~violations =>
    /\ Len(gathered) = met
    /\ \A i \in DOMAIN gathered :
         Sound(gathered[i]) /\ (gathered[i].decision = "INCLUDED" => within[i])

\* The scope on disk: without violations, what it includes stays within.
WrittenWithin ==
  ~scope.violations =>
    \A i \in DOMAIN scope.records : scope.records[i].decision = "INCLUDED" => written[i]

Agree(records) ==
  /\ Len(records) = EXPECTED_TOTAL
  /\ Decided(records, "INCLUDED") = EXPECTED_INCLUDED
  /\ Decided(records, "UNSUPPORTED") = EXPECTED_UNSUPPORTED
  /\ Decided(records, "POLICY_VIOLATION") = 0

\* A success: all of what was met is there, and the scope is what was written.
Succeeded ==
  code = "0" =>
    /\ ~violations /\ ~scope.violations
    /\ scope.records = gathered /\ (scope.totals_agree <=> Agree(gathered))
    /\ Len(gathered) = EXPECTED_TOTAL
    /\ Decided(gathered, "INCLUDED") + Decided(gathered, "UNSUPPORTED") = EXPECTED_TOTAL

EnumInv == EnumTyped /\ Clean /\ WrittenWithin /\ Succeeded

\* run_m4 runs over a scope nobody is writing any more.
InTurn ==
  /\ script # "enumerate" => code = "idle"
  /\ script = "enumerate" /\ ~EnumeratorDone => exit = "loading"

RunnersInv == M1Inv /\ M4Inv /\ EnumInv /\ InTurn

----------------------------------------------------------------------------
(* What the counters are.                                                  *)
LEMMA TalliedAre ==
  /\ Tallied = [{"total", "modules_ok", "passed", "failed", "unsupported"} -> Nat]
  /\ FileResult \in Tallied /\ Identity(FileResult) /\ FileResult.failed = 0
  /\ FileResult.total = 0
<1>1. DOMAIN FileResult = {"total", "modules_ok", "passed", "failed", "unsupported"}
  BY DEF FileResult
<1>2. Tallied = [{"total", "modules_ok", "passed", "failed", "unsupported"} -> Nat]
  BY <1>1 DEF Tallied
<1> QED BY <1>2 DEF FileResult, Identity

(* A command counted in a bucket other than the total keeps the identity.  *)
LEMMA CountedOnce ==
  ASSUME fr \in Tallied, Identity(fr),
         NEW bucket \in {"modules_ok", "passed", "failed", "unsupported"},
         Counted(bucket)
  PROVE  /\ fr' \in Tallied /\ Identity(fr') /\ fr'.total = fr.total + 1
         /\ bucket = "failed" => fr'.failed > 0
         /\ bucket # "failed" => fr'.failed = fr.failed
<1> USE TalliedAre
<1>1. fr' = [fr EXCEPT !.total = @ + 1, ![bucket] = @ + 1]
  BY DEF Counted
<1>2. fr' = [i \in {"total", "modules_ok", "passed", "failed", "unsupported"} |->
               IF i \in {"total", bucket} THEN fr[i] + 1 ELSE fr[i]]
  BY <1>1
<1>3. \A i \in {"total", "modules_ok", "passed", "failed", "unsupported"} : fr[i] \in Nat
  OBVIOUS
<1> QED BY <1>2, <1>3 DEF Identity

(* The command at hand changes the file at hand, its instance and whether  *)
(* anything differed, and keeps the tally of the differences.              *)
LEMMA CommandTallies ==
  ASSUME M1Inv, Reads, NEW bucket \in {"modules_ok", "passed", "failed", "unsupported"},
         Counted(bucket), UNCHANGED <<results, rc>>,
         module' \in {module, fr.total + 1}, instance' \in {module', None}, instance' # 0,
         mismatch' = (mismatch \/ bucket = "failed")
  PROVE  M1Inv'
<1> USE RunnerM1Assumption
<1>0. fr \in Tallied /\ Identity(fr) /\ fr.total \in Nat /\ fr.failed \in Nat
      /\ rc = "running" /\ Len(results) < Files
  BY TalliedAre DEF M1Inv, M1Typed, Reads
<1>1. fr' \in Tallied /\ Identity(fr') /\ fr'.total = fr.total + 1
      /\ (bucket = "failed" => fr'.failed > 0)
      /\ (bucket # "failed" => fr'.failed = fr.failed)
  BY <1>0, CountedOnce
<1>2. Identity(fr)' /\ Len(results') = Len(results) /\ rc' = "running"
  BY <1>0, <1>1 DEF Identity
<1>3. M1Typed'
  <2>1. Tallied' = Tallied
    BY DEF Tallied, FileResult
  <2>2. module' \in Nat /\ module' <= fr'.total
    BY <1>0, <1>1 DEF M1Inv, M1Typed
  <2> QED BY <1>0, <1>1, <1>2, <2>1, <2>2 DEF M1Inv, M1Typed, Identity
<1>4. NoStaleInstance'
  BY DEF NoStaleInstance
<1>5. mismatch' <=> Failed'
  BY <1>0, <1>1 DEF M1Inv, Failed, Failures, M1Typed
<1> QED BY <1>0, <1>2, <1>3, <1>4, <1>5 DEF M1Inv, GateIsTheOracle

(* What raises differs from the oracle.                                    *)
LEMMA RaisingDiffers ==
  ASSUME M1Inv, rc = "running", Raises, mismatch' = TRUE
  PROVE  M1Inv'
<1>1. M1Typed'
  BY DEF M1Inv, M1Typed, Raises, Tallied, FileResult, Identity
<1> QED BY <1>1 DEF M1Inv, NoStaleInstance, GateIsTheOracle, Raises

(* A module command is counted once, and sets the instance and what last   *)
(* made it together.                                                       *)
LEMMA ModuleTallies ==
  ASSUME M1Inv, NEW outcome \in {"ok", "missing", "Unsupported", "DecodeError"}, Module(outcome)
  PROVE  M1Inv'
<1> USE RunnerM1Assumption
<1>1. fr.total \in Nat
  BY TalliedAre DEF M1Inv, M1Typed
<1>2. Reads /\ UNCHANGED <<results, rc>> /\ module' = fr.total + 1
      /\ mismatch' = (mismatch \/ outcome \in {"missing", "DecodeError"})
  BY DEF Module
<1>3. CASE outcome = "ok"
  <2>1. Counted("modules_ok") /\ instance' = fr.total + 1
    BY <1>3 DEF Module
  <2>2. mismatch' = (mismatch \/ "modules_ok" = "failed")
    BY <1>2, <1>3
  <2> QED BY <1>1, <1>2, <2>1, <2>2, CommandTallies
<1>4. CASE outcome = "Unsupported"
  <2>1. Counted("unsupported") /\ instance' = None
    BY <1>4 DEF Module
  <2>2. mismatch' = (mismatch \/ "unsupported" = "failed")
    BY <1>2, <1>4
  <2> QED BY <1>1, <1>2, <2>1, <2>2, CommandTallies
<1>5. CASE outcome \in {"missing", "DecodeError"}
  <2>1. Counted("failed") /\ instance' = None
    BY <1>5 DEF Module
  <2>2. mismatch' = (mismatch \/ "failed" = "failed")
    BY <1>2, <1>5
  <2> QED BY <1>1, <1>2, <2>1, <2>2, CommandTallies
<1> QED BY <1>3, <1>4, <1>5

(* An assertion is counted once; it is a failure exactly when the engine,  *)
(* with an instance to ask, differed from the oracle.                      *)
LEMMA AssertionTallies ==
  ASSUME M1Inv, NEW wanted, NEW outcome,
         NEW bucket \in {"passed", "failed", "unsupported"},
         bucket = "failed" <=> instance # None /\ outcome \notin {wanted, "Unsupported"},
         Asserts(wanted, bucket, outcome)
  PROVE  M1Inv'
<1>1. /\ Reads /\ Counted(bucket) /\ UNCHANGED <<results, instance, rc, module>>
      /\ mismatch' = (mismatch \/ bucket = "failed")
  BY DEF Asserts
<1>2. instance' \in {module', None} /\ instance' # 0 /\ module' \in {module, fr.total + 1}
  BY <1>1 DEF M1Inv, NoStaleInstance
<1> QED BY <1>1, <1>2, CommandTallies

Outcomes == Caught \cup Returned \cup Trapped \cup {"Unsupported"}

(* assert_return: every outcome other than a return or "unsupported" is a  *)
(* failure.                                                                *)
LEMMA AssertReturnTallies ==
  ASSUME M1Inv, NEW outcome \in Outcomes, AssertReturn(outcome)
  PROVE  M1Inv'
<1>1. CASE outcome = "float expected" /\ instance # None
  BY <1>1, RaisingDiffers DEF AssertReturn, Reads
<1>2. CASE ~(outcome = "float expected" /\ instance # None)
  <2> DEFINE b == _do_return(outcome)
  <2>1. b \in {"passed", "failed", "unsupported"}
    BY DEF _do_return
  <2>2. b = "failed" <=> instance # None /\ outcome \notin {"equal", "Unsupported"}
    BY <1>2 DEF _do_return, Outcomes, Caught, Returned, Trapped
  <2>3. Asserts("equal", b, outcome)
    BY <1>2 DEF AssertReturn
  <2> HIDE DEF b
  <2> QED BY <2>1, <2>2, <2>3, AssertionTallies
<1> QED BY <1>1, <1>2

(* assert_trap: every outcome other than a trap or "unsupported" is a      *)
(* failure.                                                                *)
LEMMA AssertTrapTallies ==
  ASSUME M1Inv, NEW outcome \in Outcomes, AssertTrap(outcome)
  PROVE  M1Inv'
<1> DEFINE b == _do_trap(outcome)
<1>1. b \in {"passed", "failed", "unsupported"}
  BY DEF _do_trap
<1>2. b = "failed" <=> instance # None /\ outcome \notin {"trap as expected", "Unsupported"}
  BY DEF _do_trap
<1>3. Asserts("trap as expected", b, outcome)
  BY DEF AssertTrap
<1> HIDE DEF b
<1> QED BY <1>1, <1>2, <1>3, AssertionTallies

(* A command of another kind is counted out of scope and changes nothing   *)
(* else.                                                                   *)
LEMMA OutOfScopeTallies ==
  ASSUME M1Inv, OutOfScope
  PROVE  M1Inv'
<1>1. mismatch' = (mismatch \/ "unsupported" = "failed")
  BY DEF OutOfScope, M1Inv, M1Typed
<1>2. instance' \in {module', None} /\ instance' # 0 /\ module' \in {module, fr.total + 1}
  BY DEF M1Inv, NoStaleInstance, OutOfScope
<1> QED BY <1>1, <1>2, CommandTallies DEF OutOfScope

(* The end of a file: its failures are the run's from here on.             *)
LEMMA FileEndTallies ==
  ASSUME M1Inv, FileEnds
  PROVE  M1Inv'
<1> USE RunnerM1Assumption
<1>1. /\ results' = Append(results, fr) /\ fr' = FileResult
      /\ instance' = None /\ module' = 0 /\ UNCHANGED <<rc, mismatch>>
      /\ rc = "running" /\ Len(results) < Files
  BY DEF FileEnds, M1Inv, M1Typed
<1>2. results \in Seq(Tallied) /\ fr \in Tallied /\ Identity(fr)
      /\ \A i \in DOMAIN results : Identity(results[i])
  BY DEF M1Inv, M1Typed
<1>3. /\ results' \in Seq(Tallied) /\ Len(results') = Len(results) + 1
      /\ DOMAIN results' = DOMAIN results \cup {Len(results) + 1}
      /\ \A i \in DOMAIN results : results'[i] = results[i]
      /\ results'[Len(results) + 1] = fr
  BY <1>1, <1>2
<1>4. M1Typed'
  <2>1. Tallied' = Tallied
    BY DEF Tallied, FileResult
  <2>2. \A i \in DOMAIN results' : Identity(results'[i])
    BY <1>2, <1>3
  <2>3. Len(results') <= Files
    BY <1>1, <1>2, <1>3
  <2>4. 0 <= FileResult.total
    BY TalliedAre
  <2>5. Identity(fr') /\ fr' \in Tallied
    BY <1>1, TalliedAre
  <2>6. \A i \in DOMAIN results' : Identity(results[i])'
    BY <2>2 DEF Identity
  <2>7. Identity(fr)'
    BY <2>5 DEF Identity
  <2> QED BY <1>1, <1>3, <2>1, <2>3, <2>4, <2>5, <2>6, <2>7 DEF M1Inv, M1Typed
<1>5. NoStaleInstance'
  BY <1>1 DEF NoStaleInstance
<1>6. Failures' <=> Failures \/ fr.failed > 0
  BY <1>1, <1>2, <1>3 DEF Failures, ToSet
<1>7. fr'.failed = 0 /\ ~(fr'.failed > 0)
  BY <1>1, TalliedAre
<1> QED BY <1>1, <1>4, <1>5, <1>6, <1>7 DEF M1Inv, GateIsTheOracle, Failed

(* main's verdict on the totals keeps the tallies. *)
LEMMA GateTallies ==
  ASSUME M1Inv, Gate
  PROVE  M1Inv'
<1>1. /\ UNCHANGED <<fr, results, instance, module, mismatch>> /\ rc = "running"
      /\ Len(results) = Files /\ rc' = IF Failures THEN "1" ELSE "0"
  BY DEF Gate
<1>2. M1Typed' /\ NoStaleInstance'
  BY <1>1 DEF M1Inv, M1Typed, NoStaleInstance, Identity, Tallied, FileResult
<1>3. mismatch <=> Failures
  BY <1>1, TalliedAre DEF M1Inv, M1Typed, Failed
<1> QED BY <1>1, <1>2, <1>3 DEF M1Inv, GateIsTheOracle

(* Every step of run_m1 keeps the invariant. *)
LEMMA M1Next ==
  ASSUME M1Inv, OracleNext
  PROVE  M1Inv'
<1>1. ASSUME ModuleRaises PROVE M1Inv'
  BY <1>1, RaisingDiffers DEF ModuleRaises, Reads
<1> QED BY <1>1, ModuleTallies, AssertReturnTallies, AssertTrapTallies, OutOfScopeTallies,
           FileEndTallies, GateTallies DEF OracleNext, Outcomes

(* run_m1 starts in the invariant. *)
LEMMA M1Start ==
  ASSUME OracleInit
  PROVE  M1Inv
<1> USE RunnerM1Assumption
<1>1. fr = FileResult /\ results = <<>> /\ instance = None
      /\ rc = "running" /\ module = 0 /\ mismatch = FALSE
  BY DEF OracleInit
<1>2. M1Typed
  <2>1. results \in Seq(Tallied) /\ Len(results) = 0 /\ DOMAIN results = {}
    BY <1>1
  <2>2. fr \in Tallied /\ Identity(fr) /\ fr.total = 0
    BY <1>1, TalliedAre
  <2>3. Len(results) <= Files /\ module \in Nat /\ module <= fr.total
    BY <1>1, <2>1, <2>2
  <2>4. rc \in {"running", "raised", "0", "1"} /\ mismatch \in BOOLEAN
    BY <1>1
  <2>5. \A i \in DOMAIN results : Identity(results[i])
    BY <2>1
  <2> QED BY <2>1, <2>2, <2>3, <2>4, <2>5 DEF M1Typed
<1>3. ~Failed
  BY <1>1, TalliedAre DEF Failed, Failures, ToSet
<1> QED BY <1>1, <1>2, <1>3, TalliedAre DEF M1Inv, NoStaleInstance, GateIsTheOracle

(* So does a step of one of the other programs. *)
LEMMA M1Stays ==
  ASSUME M1Inv, UNCHANGED oracle
  PROVE  M1Inv'
BY DEF M1Inv, M1Typed, Failed, Failures, NoStaleInstance, GateIsTheOracle, oracle, Identity,
       Tallied, FileResult

(* What the invariant says of a whole run.                                 *)
LEMMA M1Means ==
  ASSUME M1Inv
  PROVE  OracleRun
<1>1. \A r \in ToSet(results) \cup {fr} : r \in [DOMAIN FileResult -> Nat] /\ Identity(r)
  BY DEF M1Inv, M1Typed, ToSet, Tallied
<1> QED BY <1>1 DEF M1Inv, M1Typed, OracleRun, OracleTypeOK

----------------------------------------------------------------------------
(* A sequence with an element more.                                        *)
LEMMA Appended ==
  ASSUME NEW T, NEW s \in Seq(T), NEW e \in T
  PROVE  /\ Append(s, e) \in Seq(T) /\ Len(Append(s, e)) = Len(s) + 1
         /\ \A i \in DOMAIN s : Append(s, e)[i] = s[i]
         /\ Append(s, e)[Len(s) + 1] = e
         /\ DOMAIN Append(s, e) = DOMAIN s \cup {Len(s) + 1}
OBVIOUS

(* The records of a sequence that were decided one way can be counted.     *)
LEMMA DecidedFinite ==
  ASSUME NEW records \in Seq(Curated), NEW d
  PROVE  /\ IsFiniteSet({i \in DOMAIN records : records[i].decision = d})
         /\ Decided(records, d) \in Nat
<1>1. IsFiniteSet(DOMAIN records)
  BY FS_Interval
<1>2. IsFiniteSet({i \in DOMAIN records : records[i].decision = d})
  BY <1>1, FS_Subset
<1> QED BY <1>2, FS_CardinalityType DEF Decided

(* The same of the rows.                                                   *)
LEMMA CountFinite ==
  ASSUME M4Typed, NEW s
  PROVE  /\ Count(s) \in Nat
         /\ Count(s) = 0 <=> \A i \in DOMAIN rows : rows[i] # s
<1>1. IsFiniteSet(DOMAIN rows)
  <2>1. Len(rows) \in Int /\ DOMAIN rows = 1..Len(rows)
    BY DEF M4Typed
  <2> QED BY <2>1, FS_Interval
<1>2. IsFiniteSet({i \in DOMAIN rows : rows[i] = s})
  BY <1>1, FS_Subset
<1>3. Count(s) \in Nat
  BY <1>2, FS_CardinalityType DEF Count
<1>4. Count(s) = 0 <=> {i \in DOMAIN rows : rows[i] = s} = {}
  BY <1>2, FS_EmptySet DEF Count
<1> QED BY <1>3, <1>4

(* load_scope.                                                             *)
LEMMA LoadScope ==
  ASSUME M4Inv, load_scope
  PROVE  M4Inv'
<1>1. exit = "loading" /\ rows = <<>> /\ UNCHANGED <<scope, answers, rows>>
  BY DEF load_scope, M4Inv
<1>2. exit' = IF Loadable THEN "running" ELSE "refused"
  BY DEF load_scope, Loadable, ToSet
<1>3. Loadable' <=> Loadable
  BY <1>1 DEF Loadable
<1>4. M4Typed' /\ Judged'
  BY <1>1, <1>2 DEF M4Inv, M4Typed, Judged
<1> QED BY <1>1, <1>2, <1>3, <1>4 DEF M4Inv

(* The record at hand gets its row.                                        *)
LEMMA RowAppended ==
  ASSUME M4Inv, exit = "running", Len(rows) < Len(scope.records),
         UNCHANGED <<scope, exit>>,
         NEW a \in Asked, NEW row \in Statuses,
         answers' = Append(answers, a), rows' = Append(rows, row),
         LET r == scope.records[Len(rows) + 1]
         IN  IF r.decision = "UNSUPPORTED" THEN row = "UNSUPPORTED" /\ a = "not asked"
             ELSE a \in Answers /\ row = Status(r, a)
  PROVE  M4Inv'
<1>1. /\ rows \in Seq(Statuses) /\ scope.records \in Seq(Curated)
      /\ answers \in Seq(Asked) /\ Len(rows) = Len(answers)
  BY DEF M4Inv, M4Typed, Scopes
<1>2. /\ Len(rows') = Len(rows) + 1 /\ Len(answers') = Len(answers) + 1
      /\ rows' \in Seq(Statuses)
      /\ answers' \in Seq(Asked)
  <2>1. answers' = Append(answers, a) /\ rows' = Append(rows, row)
    OBVIOUS
  <2> QED BY ONLY <1>1, <2>1, a \in Asked, row \in Statuses, Appended
<1>3. M4Typed'
  <2>1. Len(rows) \in Nat /\ Len(scope.records) \in Nat
    BY ONLY <1>1
  <2>0. UNCHANGED scope /\ Len(rows) < Len(scope.records)
    OBVIOUS
  <2>2. Len(rows') <= Len(scope'.records)
    BY ONLY <1>2, <2>0, <2>1
  <2> QED BY <1>1, <1>2, <2>2 DEF M4Inv, M4Typed, Asked, Answers, Scopes, Curated
<1>a. answers' = Append(answers, a) /\ rows' = Append(rows, row)
  OBVIOUS
<1>4. \A i \in DOMAIN rows : rows'[i] = rows[i] /\ answers'[i] = answers[i]
  <2>1. DOMAIN rows = DOMAIN answers
    BY ONLY <1>1
  <2> QED BY ONLY <1>1, <1>a, <2>1, a \in Asked, row \in Statuses, Appended
<1>5. rows'[Len(rows) + 1] = row /\ answers'[Len(rows) + 1] = a
  BY ONLY <1>1, <1>a, a \in Asked, row \in Statuses, Appended
<1>6. DOMAIN rows' = DOMAIN rows \cup {Len(rows) + 1}
  BY ONLY <1>1, <1>a, row \in Statuses, Appended
<1>7. Judged'
  BY <1>4, <1>5, <1>6, ZenonT(60) DEF M4Inv, Judged
<1>8. Loadable'
  BY DEF M4Inv, Loadable
<1> QED BY <1>3, <1>7, <1>8 DEF M4Inv

(* One curated record more is evaluated: its row says what the answer and  *)
(* the curation say of it.                                                 *)
LEMMA EvaluateRecord ==
  ASSUME M4Inv, NEW answer \in Answers, evaluate_record(answer)
  PROVE  M4Inv'
<1> DEFINE r == scope.records[Len(rows) + 1]
<1>1. exit = "running" /\ Len(rows) < Len(scope.records) /\ UNCHANGED scope
  BY DEF evaluate_record
<1>2. CASE r.decision = "UNSUPPORTED"
  <2>1. answers' = Append(answers, "not asked") /\ rows' = Append(rows, "UNSUPPORTED")
        /\ UNCHANGED exit
    BY <1>2 DEF evaluate_record
  <2> QED BY <1>1, <1>2, <2>1, RowAppended DEF Asked, Statuses
<1>3. CASE r.decision # "UNSUPPORTED" /\ answer = "IndexError"
  <2>1. exit' = "raised" /\ UNCHANGED <<scope, answers, rows>>
    BY <1>3 DEF evaluate_record
  <2> QED BY <1>1, <2>1 DEF M4Inv, M4Typed, Judged, Loadable
<1>4. CASE r.decision # "UNSUPPORTED" /\ answer # "IndexError"
  <2>1. answers' = Append(answers, answer) /\ rows' = Append(rows, Status(r, answer))
        /\ UNCHANGED exit
    BY <1>4 DEF evaluate_record
  <2>2. Status(r, answer) \in Statuses /\ answer \in Asked
    BY DEF Status, Statuses, Asked
  <2> QED BY <1>1, <1>4, <2>1, <2>2, RowAppended
<1> QED BY <1>2, <1>3, <1>4

(* When no row failed, the rows that passed are the included records.      *)
LEMMA RowsAsDecided ==
  ASSUME M4Inv, Loadable, Len(rows) = Len(scope.records),
         \A i \in DOMAIN rows : rows[i] # "FAIL"
  PROVE  Count("PASS") = EXPECTED_INCLUDED /\ Count("UNSUPPORTED") = EXPECTED_UNSUPPORTED
<1>1. rows \in Seq(Statuses) /\ scope.records \in Seq(Curated)
  BY DEF M4Inv, M4Typed, Scopes
<1>2. DOMAIN rows = DOMAIN scope.records
  BY <1>1
<1>3. ASSUME NEW i \in DOMAIN rows
      PROVE  /\ rows[i] = "PASS" <=> scope.records[i].decision = "INCLUDED"
             /\ rows[i] = "UNSUPPORTED" <=> scope.records[i].decision = "UNSUPPORTED"
  <2>1. scope.records[i].decision \in {"INCLUDED", "UNSUPPORTED"}
    BY <1>2 DEF Loadable, Acceptable
  <2> QED BY <2>1 DEF M4Inv, Judged, Status
<1>4. {i \in DOMAIN rows : rows[i] = "PASS"}
        = {i \in DOMAIN scope.records : scope.records[i].decision = "INCLUDED"}
  BY <1>2, <1>3
<1>5. {i \in DOMAIN rows : rows[i] = "UNSUPPORTED"}
        = {i \in DOMAIN scope.records : scope.records[i].decision = "UNSUPPORTED"}
  BY <1>2, <1>3
<1> QED BY <1>4, <1>5 DEF Loadable, Count, Decided

(* main's verdict on the rows is the one CurationRun asks for. *)
LEMMA GateCurates ==
  ASSUME M4Inv, CurationGate
  PROVE  M4Inv'
<1>1. /\ exit = "running" /\ Len(rows) = Len(scope.records) /\ Loadable
      /\ UNCHANGED <<scope, answers, rows>>
  BY DEF CurationGate, M4Inv
<1>2. Len(rows) = EXPECTED_TOTAL
  BY <1>1 DEF Loadable
<1>3. /\ Count("FAIL") \in Nat
      /\ Count("FAIL") = 0 <=> \A i \in DOMAIN rows : rows[i] # "FAIL"
  BY CountFinite DEF M4Inv
<1>4. Count("FAIL") = 0 =>
        Count("PASS") = EXPECTED_INCLUDED /\ Count("UNSUPPORTED") = EXPECTED_UNSUPPORTED
  BY <1>1, <1>3, RowsAsDecided
<1>5. exit' = IF Count("FAIL") > 0 THEN "1" ELSE "0"
  BY <1>2, <1>3, <1>4 DEF CurationGate
<1>6. M4Typed' /\ Judged' /\ Loadable'
  BY <1>1, <1>5 DEF M4Inv, M4Typed, Judged, Loadable
<1> QED BY <1>1, <1>3, <1>5, <1>6 DEF M4Inv

(* Every step of run_m4 keeps its invariant. *)
LEMMA M4Next ==
  ASSUME M4Inv, CurationNext
  PROVE  M4Inv'
BY LoadScope, EvaluateRecord, GateCurates DEF CurationNext

(* So does a step of another program. *)
LEMMA M4Stays ==
  ASSUME M4Inv, UNCHANGED curation
  PROVE  M4Inv'
BY DEF M4Inv, M4Typed, Judged, Loadable, curation

(* A scope may change as long as it is not loaded.                         *)
LEMMA M4Rewritten ==
  ASSUME M4Inv, exit = "loading", scope' \in Scopes, UNCHANGED <<answers, rows, exit>>
  PROVE  M4Inv'
<1>1. rows = <<>> /\ Len(scope'.records) \in Nat
  BY DEF M4Inv, Scopes
<1>2. M4Typed'
  BY <1>1 DEF M4Inv, M4Typed
<1> QED BY <1>1, <1>2 DEF M4Inv, Judged

(* run_m4 starts in its invariant on every scope file that can be read. *)
LEMMA M4Start ==
  ASSUME scope \in Scopes, answers = <<>>, rows = <<>>, exit = "loading"
  PROVE  M4Inv
<1>1. Len(scope.records) \in Nat
  BY DEF Scopes
<1>2. M4Typed
  BY <1>1 DEF M4Typed
<1> QED BY <1>2 DEF M4Inv, Judged

(* What the invariant says of a whole run.                                 *)
LEMMA M4Means ==
  ASSUME M4Inv
  PROVE  CurationRun
<1> USE RunnerM4Assumption
<1>1. "not asked" \notin Answers
  BY DEF Answers
<1>2. \A i \in DOMAIN rows :
        scope.records[i].decision = "UNSUPPORTED" <=> answers[i] = "not asked"
  BY <1>1 DEF M4Inv, Judged
<1>3. CurationTypeOK
  BY <1>2 DEF CurationTypeOK, M4Inv, M4Typed
<1>4. GateIsTheCuration
  <2> SUFFICES ASSUME exit = "0" PROVE GateIsTheCuration
    BY DEF GateIsTheCuration
  <2>1. Loadable /\ DOMAIN rows = DOMAIN scope.records
    <3>1. Loadable /\ Len(rows) = Len(scope.records)
      BY DEF M4Inv
    <3>2. rows \in Seq(Statuses) /\ scope.records \in Seq(Curated)
      BY DEF M4Inv, M4Typed, Scopes
    <3>3. DOMAIN rows = 1..Len(rows) /\ DOMAIN scope.records = 1..Len(scope.records)
      BY ONLY <3>2
    <3> QED BY <3>1, <3>3
  <2>2. ASSUME NEW i \in DOMAIN rows, scope.records[i].decision = "INCLUDED"
        PROVE  /\ scope.records[i].fits /\ answers[i] = scope.records[i].category
               /\ answers[i] \in EXPECTED_CATEGORIES
    <3>1. Acceptable(scope.records[i])
      BY <2>1 DEF Loadable
    <3>2. rows[i] # "FAIL" /\ rows[i] = Status(scope.records[i], answers[i])
      BY <2>2 DEF M4Inv, Judged
    <3> QED BY <2>2, <3>1, <3>2 DEF Acceptable, Status
  <2> QED BY <2>1, <2>2 DEF GateIsTheCuration, Loadable
<1>5. OnlyTheValidatorFails
  <2> SUFFICES ASSUME exit = "1" PROVE OnlyTheValidatorFails
    BY DEF OnlyTheValidatorFails
  <2>1. PICK i \in DOMAIN rows : rows[i] = "FAIL"
    BY DEF M4Inv
  <2>2. answers[i] \in Answers /\ Status(scope.records[i], answers[i]) = "FAIL"
    BY <2>1 DEF M4Inv, Judged
  <2>3. answers[i] \notin {"not asked", scope.records[i].category}
    BY <1>1, <2>2 DEF Status
  <2> QED BY <2>3 DEF OnlyTheValidatorFails
<1> QED BY <1>3, <1>4, <1>5 DEF CurationRun

----------------------------------------------------------------------------
(* What classify_policy can answer, and when it includes a binary.         *)
LEMMA PolicyClassified ==
  ASSUME NEW a \in Assertions
  PROVE  /\ classify_policy(a) \in Curated
         /\ classify_policy(a) # Violation => Sound(classify_policy(a))
         /\ classify_policy(a).decision = "INCLUDED" /\ a.listed => ~a.beyond
<1> USE RunnerM4Assumption, EnumerateM4Assumption
<1> DEFINE included == Record("INCLUDED", TRUE, PolicyCategory(a.text))
<1>1. PolicyCategory(a.text) \in EXPECTED_CATEGORIES
  BY DEF PolicyCategory
<1>2. /\ Deferred \in Curated /\ Violation \in Curated /\ included \in Curated
      /\ Deferred.decision = "UNSUPPORTED" /\ Violation.decision = "POLICY_VIOLATION"
      /\ included.decision = "INCLUDED" /\ Acceptable(included)
  BY <1>1 DEF Deferred, Violation, Record, Curated, Acceptable
<1>3. \/ classify_policy(a) \in {Deferred, Violation}
      \/ classify_policy(a) = included /\ ~a.shown
  BY DEF classify_policy
<1>4. a.listed => a.shown = a.beyond
  BY DEF Assertions
<1> HIDE DEF included
<1> QED BY <1>2, <1>3, <1>4 DEF Sound

(* The expected total is a number.                                         *)
LEMMA TotalIsNat == EXPECTED_TOTAL \in Nat
<1>1. EXPECTED_INCLUDED \in Nat /\ EXPECTED_UNSUPPORTED \in Nat
  BY RunnerM4Assumption
<1>2. EXPECTED_INCLUDED + EXPECTED_UNSUPPORTED \in Nat
  BY ONLY <1>1
<1> QED BY <1>2, Zenon DEF EXPECTED_TOTAL

(* gather_records appends a record, and notes what makes it a violation.   *)
LEMMA GatherKeeps ==
  ASSUME EnumInv, NEW a \in Assertions, Gather(a), UNCHANGED scope
  PROVE  EnumInv'
<1> DEFINE c == classify_policy(a)
           w == ~a.beyond
<1>1. /\ code = "gathering" /\ met < MaxAssertions
      /\ gathered' = Append(gathered, c) /\ within' = Append(within, w)
      /\ violations' = (violations \/ c = Violation \/ ~a.listed)
      /\ met' = met + 1 /\ UNCHANGED <<code, written>>
  BY DEF Gather, Gathers
<1>2. c \in Curated /\ (c # Violation => Sound(c))
      /\ (c.decision = "INCLUDED" /\ a.listed => w)
  BY PolicyClassified
<1>3. w \in BOOLEAN
  OBVIOUS
<1> HIDE DEF c, w
<1>4. /\ gathered \in Seq(Curated) /\ within \in Seq(BOOLEAN) /\ met \in Nat
      /\ Len(within) = Len(gathered) /\ Len(gathered) <= met /\ met <= MaxAssertions
      /\ violations \in BOOLEAN
  BY DEF EnumInv, EnumTyped
<1>5. /\ gathered' \in Seq(Curated) /\ Len(gathered') = Len(gathered) + 1
      /\ \A i \in DOMAIN gathered : gathered'[i] = gathered[i]
      /\ gathered'[Len(gathered) + 1] = c
      /\ DOMAIN gathered' = DOMAIN gathered \cup {Len(gathered) + 1}
  BY ONLY <1>1, <1>2, <1>4, Appended
<1>6. /\ within' \in Seq(BOOLEAN) /\ Len(within') = Len(within) + 1
      /\ \A i \in DOMAIN within : within'[i] = within[i]
      /\ within'[Len(within) + 1] = w
  BY ONLY <1>1, <1>3, <1>4, Appended
<1>7. DOMAIN within = DOMAIN gathered
  BY ONLY <1>4
<1>8. EnumTyped'
  <2>1. Len(gathered) \in Nat /\ Len(gathered') \in Nat
    BY ONLY <1>4, <1>5
  <2>2. Len(within') = Len(gathered') /\ Len(gathered') <= met' /\ met' <= MaxAssertions
        /\ met' \in Nat
    BY ONLY <1>1, <1>4, <1>5, <1>6, <2>1, EnumerateM4Assumption
  <2>3. violations' \in BOOLEAN
    BY <1>1, <1>4
  <2> QED BY <1>1, <1>5, <1>6, <2>2, <2>3 DEF EnumTyped, Curated
<1>9. Clean'
  <2> SUFFICES ASSUME ~violations' PROVE Clean'
    BY DEF Clean
  <2>1. ~violations /\ c # Violation /\ a.listed
    BY <1>1
  <2>2. Len(gathered) = met
        /\ \A i \in DOMAIN gathered :
             Sound(gathered[i]) /\ (gathered[i].decision = "INCLUDED" => within[i])
    BY <2>1 DEF EnumInv, Clean
  <2>3. Len(gathered') = met'
    BY <1>1, <1>5, <2>2
  <2>4. ASSUME NEW i \in DOMAIN gathered'
        PROVE  Sound(gathered'[i]) /\ (gathered'[i].decision = "INCLUDED" => within'[i])
    <3>1. CASE i \in DOMAIN gathered
      BY <1>5, <1>6, <1>7, <2>2, <3>1
    <3>2. CASE i = Len(gathered) + 1
      BY <1>2, <1>4, <1>5, <1>6, <2>1, <3>2
    <3> QED BY <1>5, <3>1, <3>2
  <2>5. \A i \in DOMAIN gathered' : Sound(gathered[i])'
    BY <2>4 DEF Sound, Acceptable, Deferred, Record
  <2> QED BY <2>3, <2>4, <2>5 DEF Clean
<1>10. WrittenWithin' /\ Succeeded'
  BY <1>1 DEF EnumInv, WrittenWithin, Succeeded
<1> QED BY <1>8, <1>9, <1>10 DEF EnumInv

(* What cannot be gathered is a violation, or ends the run.                *)
LEMMA MissingKeeps ==
  ASSUME EnumInv, GatherMissing \/ GatherNoFile \/ GatherSilent \/ Start, UNCHANGED scope
  PROVE  EnumInv'
<1>1. /\ UNCHANGED <<gathered, within, written>>
      /\ code' \in {"raised", "1", "gathering"}
      /\ \/ UNCHANGED <<met, violations>>
         \/ met < MaxAssertions /\ met' \in {met, met + 1} /\ violations' = TRUE
  BY DEF GatherMissing, GatherNoFile, GatherSilent, Start, Gathers
<1>2. /\ gathered \in Seq(Curated) /\ within \in Seq(BOOLEAN) /\ met \in Nat
      /\ Len(within) = Len(gathered) /\ Len(gathered) <= met /\ met <= MaxAssertions
      /\ violations \in BOOLEAN /\ Len(gathered) \in Nat
  BY DEF EnumInv, EnumTyped
<1>3. EnumTyped'
  <2>1. met' \in Nat /\ met' <= MaxAssertions /\ Len(gathered) <= met'
    BY ONLY <1>1, <1>2, EnumerateM4Assumption
  <2> QED BY <1>1, <1>2, <2>1 DEF EnumTyped, Curated
<1>4. Clean'
  BY <1>1 DEF EnumInv, Clean, Sound, Acceptable, Deferred, Record
<1>5. WrittenWithin' /\ Succeeded'
  BY <1>1 DEF EnumInv, WrittenWithin, Succeeded
<1> QED BY <1>3, <1>4, <1>5 DEF EnumInv

(* The scope is written, with what was found wrong.                        *)
LEMMA WriteKeeps ==
  ASSUME EnumInv, Write
  PROVE  EnumInv' /\ scope' \in Scopes
<1> DEFINE drift == Len(gathered) # EXPECTED_TOTAL
<1>1. /\ UNCHANGED <<gathered, violations, met, within>> /\ written' = within
      /\ scope'.records = gathered
      /\ scope'.totals_agree = Agree(gathered)
      /\ scope'.violations = (violations \/ drift)
  BY DEF Write, Agree
<1>2. code' = IF drift \/ Decided(gathered, "INCLUDED") + Decided(gathered, "UNSUPPORTED")
                            # EXPECTED_TOTAL \/ violations
              THEN "1" ELSE "0"
  BY DEF Write
<1>3. scope' \in Scopes
  <2>1. gathered \in Seq(Curated) /\ violations \in BOOLEAN
    BY DEF EnumInv, EnumTyped
  <2> QED BY <2>1 DEF Write, Scopes
<1>4. EnumTyped' /\ Clean'
  BY <1>1, <1>2 DEF EnumInv, EnumTyped, Clean, Sound, Acceptable, Deferred, Record, Curated
<1>5. WrittenWithin'
  BY <1>1 DEF EnumInv, Clean, WrittenWithin
<1>6. Succeeded'
  BY <1>1, <1>2 DEF Succeeded, Agree, Decided
<1> QED BY <1>3, <1>4, <1>5, <1>6 DEF EnumInv

(* Every step of the enumerator keeps its invariant, and what it writes is *)
(* a scope file.                                                           *)
LEMMA EnumNext ==
  ASSUME EnumInv, EnumeratorNext
  PROVE  EnumInv' /\ scope' \in Scopes \cup {scope}
BY GatherKeeps, MissingKeeps, WriteKeeps DEF EnumeratorNext

(* So does a step of another program. *)
LEMMA EnumStays ==
  ASSUME EnumInv, UNCHANGED <<scope, enumerator>>
  PROVE  EnumInv'
BY DEF EnumInv, EnumTyped, Clean, Sound, Acceptable, Deferred, Record, WrittenWithin,
       Succeeded, Agree, enumerator, Curated

(* The enumerator starts in its invariant. *)
LEMMA EnumStart ==
  ASSUME EnumeratorInit, scope \in Scopes, Len(scope.records) <= EXPECTED_TOTAL
  PROVE  EnumInv
<1>1. /\ gathered = <<>> /\ violations = FALSE /\ code = "idle" /\ met = 0 /\ within = <<>>
      /\ written = [i \in 1..EXPECTED_TOTAL |-> TRUE]
  BY DEF EnumeratorInit
<1>2. EnumTyped
  <2>1. MaxAssertions \in Nat
    BY EnumerateM4Assumption
  <2>2. /\ gathered \in Seq(Curated) /\ within \in Seq(BOOLEAN)
        /\ Len(gathered) = 0 /\ Len(within) = 0
    BY <1>1
  <2>3. met \in Nat /\ Len(gathered) <= met /\ met <= MaxAssertions
    BY ONLY <1>1, <2>1, <2>2
  <2> QED BY <1>1, <2>2, <2>3 DEF EnumTyped
<1>3. Clean
  BY <1>1 DEF Clean
<1>4. WrittenWithin
  <2>1. scope.records \in Seq(Curated)
    BY DEF Scopes
  <2>2. DOMAIN scope.records \subseteq 1..EXPECTED_TOTAL
    BY <2>1, TotalIsNat
  <2> QED BY <1>1, <2>2 DEF WrittenWithin
<1> QED BY <1>1, <1>2, <1>3, <1>4 DEF EnumInv, Succeeded

(* The scopes a run begins with.                                           *)
LEMMA CommittedIsScope ==
  Committed \in Scopes /\ Len(Committed.records) = EXPECTED_TOTAL
<1> USE RunnerM4Assumption, EnumerateM4Assumption
<1> DEFINE R(i) == IF i <= EXPECTED_INCLUDED THEN Record("INCLUDED", TRUE, TypeMismatch)
                   ELSE Deferred
           recs == [i \in 1..EXPECTED_TOTAL |-> R(i)]
<1>1. \A i \in 1..EXPECTED_TOTAL : R(i) \in Curated
  BY DEF Record, Deferred, Curated
<1>2. Committed.records = recs /\ Committed.totals_agree \in BOOLEAN
      /\ Committed.violations \in BOOLEAN
  BY DEF Committed
<1> HIDE DEF R
<1>3. recs \in Seq(Curated) /\ Len(recs) = EXPECTED_TOTAL
  <2>1. EXPECTED_TOTAL \in Nat
    BY TotalIsNat
  <2> QED BY ONLY <1>1, <2>1
<1>4. Committed = [records |-> recs, totals_agree |-> TRUE, violations |-> FALSE]
  BY DEF Committed, R
<1> QED BY <1>3, <1>4 DEF Scopes

(* The scope files run_m4 is started on are scope files of its type,       *)
(* within the expected total.                                              *)
LEMMA CurationStarts ==
  ASSUME CurationInit
  PROVE  scope \in Scopes /\ Len(scope.records) <= EXPECTED_TOTAL
<1>1. scope \in [records : BoundedSeq(Records, EXPECTED_TOTAL), totals_agree : BOOLEAN,
                 violations : BOOLEAN]
  BY DEF CurationInit
<1>2. Records \subseteq Curated
  BY DEF Records, Curated
<1>3. scope.records \in UNION {[1..m -> Records] : m \in 0..EXPECTED_TOTAL}
  BY <1>1 DEF BoundedSeq, SeqOf
<1>4. PICK m \in 0..EXPECTED_TOTAL : scope.records \in [1..m -> Records]
  BY <1>3
<1>5. m \in Nat /\ m <= EXPECTED_TOTAL
  BY TotalIsNat
<1>6. scope.records \in Seq(Curated) /\ Len(scope.records) = m
  BY <1>2, <1>4, <1>5
<1> QED BY <1>1, <1>5, <1>6 DEF Scopes

(* The totals of a success: what is not included is deferred, and the      *)
(* scope loads when as many are included as expected.                      *)
LEMMA SuccessLoads ==
  ASSUME EnumInv, code = "0", Decided(gathered, "INCLUDED") = EXPECTED_INCLUDED
  PROVE  Loadable
<1>1. /\ ~violations /\ ~scope.violations /\ scope.records = gathered
      /\ scope.totals_agree <=> Agree(gathered)
      /\ Len(gathered) = EXPECTED_TOTAL
      /\ Decided(gathered, "INCLUDED") + Decided(gathered, "UNSUPPORTED") = EXPECTED_TOTAL
  BY DEF EnumInv, Succeeded
<1>2. \A i \in DOMAIN gathered : Sound(gathered[i])
  BY <1>1 DEF EnumInv, Clean
<1>3. \A i \in DOMAIN gathered :
        Acceptable(gathered[i]) /\ gathered[i].decision # "POLICY_VIOLATION"
  <2>1. Deferred.decision = "UNSUPPORTED" /\ Deferred.reason = TRUE
    BY DEF Deferred, Record
  <2>2. Acceptable(Deferred) /\ Deferred.decision # "POLICY_VIOLATION"
    BY <2>1 DEF Acceptable
  <2>3. ASSUME NEW i \in DOMAIN gathered, gathered[i] # Deferred
        PROVE  gathered[i].decision = "INCLUDED" /\ Acceptable(gathered[i])
    BY <1>2, <2>3 DEF Sound
  <2> QED BY <2>2, <2>3
<1>4. Decided(gathered, "POLICY_VIOLATION") = 0
  <2>1. {i \in DOMAIN gathered : gathered[i].decision = "POLICY_VIOLATION"} = {}
    BY <1>3
  <2> QED BY <2>1, FS_EmptySet DEF Decided
<1>5. Decided(gathered, "UNSUPPORTED") = EXPECTED_UNSUPPORTED
  <2>1. gathered \in Seq(Curated)
    BY DEF EnumInv, EnumTyped
  <2>2. Decided(gathered, "UNSUPPORTED") \in Nat
    BY <2>1, DecidedFinite
  <2>3. EXPECTED_INCLUDED \in Nat /\ EXPECTED_UNSUPPORTED \in Nat
    BY RunnerM4Assumption
  <2>4. EXPECTED_INCLUDED + Decided(gathered, "UNSUPPORTED")
          = EXPECTED_INCLUDED + EXPECTED_UNSUPPORTED
    BY <1>1 DEF EXPECTED_TOTAL
  <2> QED BY ONLY <2>2, <2>3, <2>4
<1> QED BY <1>1, <1>3, <1>4, <1>5 DEF Loadable, Agree

(* What the invariants say of an enumeration and of the run after it.      *)
LEMMA EnumMeans ==
  ASSUME EnumInv, M4Inv
  PROVE  EnumeratesAll /\ IncludedStayWithin
<1>1. EnumeratorTypeOK
  BY DEF EnumInv, EnumTyped, EnumeratorTypeOK
<1>2. AllAccountedFor
  BY DEF AllAccountedFor, EnumInv, Succeeded, Clean
<1>3. CurationIsRunnable
  BY SuccessLoads DEF CurationIsRunnable, M4Inv
<1>4. IncludedStayWithin
  <2> SUFFICES ASSUME exit = "0", NEW i \in DOMAIN rows, rows[i] = "PASS"
               PROVE  written[i]
    BY DEF IncludedStayWithin
  <2>1. Loadable /\ Len(rows) = Len(scope.records)
    BY DEF M4Inv
  <2>2. rows \in Seq(Statuses) /\ scope.records \in Seq(Curated)
    BY DEF M4Inv, M4Typed, Scopes
  <2>3. i \in DOMAIN scope.records
    <3>1. Len(rows) = Len(scope.records) /\ i \in DOMAIN rows
      BY <2>1
    <3> QED BY ONLY <2>2, <3>1
  <2>4. scope.records[i].decision = "INCLUDED"
    BY <2>1, <2>3 DEF M4Inv, Judged, Loadable, Acceptable
  <2> QED BY <2>1, <2>3, <2>4 DEF EnumInv, WrittenWithin, Loadable
<1> QED BY <1>1, <1>2, <1>3, <1>4 DEF EnumeratesAll

----------------------------------------------------------------------------
(* Each of the three programs starts in the joint invariant. *)
LEMMA RunnersStart ==
  ASSUME M1Init \/ M4Init \/ EnumerateInit
  PROVE  RunnersInv
<1>1. /\ OracleInit /\ EnumeratorInit /\ answers = <<>> /\ rows = <<>> /\ exit = "loading"
      /\ scope = Committed \/ CurationInit
  BY DEF M1Init, M4Init, EnumerateInit, NoCuration, CurationInit
<1>2. scope \in Scopes /\ Len(scope.records) <= EXPECTED_TOTAL
  <2>1. EXPECTED_TOTAL <= EXPECTED_TOTAL
    BY TotalIsNat
  <2> QED BY <1>1, <2>1, CommittedIsScope, CurationStarts
<1>3. InTurn
  BY <1>1 DEF InTurn, EnumeratorInit
<1> QED BY <1>1, <1>2, <1>3, M1Start, M4Start, EnumStart DEF RunnersInv

(* Every step of each, and of run_m4 over what the enumerator left, keeps  *)
(* it.                                                                     *)
LEMMA Stepwise ==
  ASSUME RunnersInv, [M1Step \/ M4Step \/ EnumerateStep \/ RunEnumerated]_steps
  PROVE  RunnersInv'
<1>1. ASSUME M1Step PROVE RunnersInv'
  <2>1. OracleNext /\ UNCHANGED <<script, curation, enumerator>>
    BY <1>1 DEF M1Step
  <2>2. UNCHANGED <<scope, enumerator>> /\ UNCHANGED curation
    BY <2>1 DEF curation
  <2> QED BY <2>1, <2>2, M1Next, M4Stays, EnumStays
          DEF RunnersInv, InTurn, EnumeratorDone, curation, enumerator
<1>2. ASSUME M4Step \/ RunEnumerated PROVE RunnersInv'
  <2>1. CurationNext /\ UNCHANGED <<script, oracle, enumerator>>
        /\ (script # "enumerate" \/ EnumeratorDone)
    BY <1>2 DEF M4Step, RunEnumerated
  <2>2. UNCHANGED scope
    BY <2>1 DEF CurationNext, load_scope, evaluate_record, CurationGate
  <2>3. M1Inv' /\ M4Inv' /\ EnumInv'
    BY <2>1, <2>2, M1Stays, M4Next, EnumStays DEF RunnersInv
  <2> QED BY <2>1, <2>3 DEF RunnersInv, InTurn, EnumeratorDone, enumerator
<1>3. ASSUME EnumerateStep PROVE RunnersInv'
  <2>1. EnumeratorNext /\ UNCHANGED <<script, oracle, answers, rows, exit>>
        /\ script = "enumerate"
    BY <1>3 DEF EnumerateStep
  <2>2. EnumInv' /\ scope' \in Scopes
    BY <2>1, EnumNext DEF RunnersInv, M4Inv, M4Typed
  <2>3. exit = "loading"
    BY <2>1 DEF RunnersInv, InTurn, EnumeratorDone, EnumeratorNext, Write, Start, Gather,
                GatherMissing, GatherNoFile, GatherSilent, Gathers
  <2>4. M1Inv' /\ M4Inv'
    BY <2>1, <2>2, <2>3, M1Stays, M4Rewritten DEF RunnersInv
  <2> QED BY <2>1, <2>2, <2>3, <2>4 DEF RunnersInv, InTurn
<1>4. ASSUME UNCHANGED steps PROVE RunnersInv'
  <2>1. UNCHANGED oracle /\ UNCHANGED curation /\ UNCHANGED <<scope, enumerator>>
        /\ UNCHANGED <<script, code, exit>>
    BY <1>4 DEF steps, curation, enumerator
  <2> QED BY <2>1, M1Stays, M4Stays, EnumStays DEF RunnersInv, InTurn, EnumeratorDone
<1> QED BY <1>1, <1>2, <1>3, <1>4

(* What the three scripts keep, whatever they are given.                   *)
THEOREM RunnersInvariance == RunnersSpec => []RunnersInv
<1>1. M1Init \/ M4Init \/ EnumerateInit => RunnersInv
  BY RunnersStart
<1>2. RunnersInv /\ [M1Step \/ M4Step \/ EnumerateStep \/ RunEnumerated]_steps => RunnersInv'
  BY Stepwise
<1> QED BY <1>1, <1>2, PTL DEF RunnersSpec, steps

(* run_file and its gate: every command is in one bucket, no assertion is  *)
(* judged on the instance of an earlier module, and the exit code is zero  *)
(* exactly when nothing differed from the oracle.                          *)
THEOREM OracleRunHolds == RunnersSpec => []OracleRun
<1>1. RunnersInv => OracleRun
  BY M1Means DEF RunnersInv
<1> QED BY <1>1, RunnersInvariance, PTL

(* run_m4: one status for each record, a gate that passes only if each     *)
(* included record was rejected in its category, and that fails for        *)
(* nothing but the validator's answers once the curation is accepted.      *)
THEOREM CurationRunHolds == RunnersSpec => []CurationRun
<1>1. RunnersInv => CurationRun
  BY M4Means DEF RunnersInv
<1> QED BY <1>1, RunnersInvariance, PTL

(* The enumerator: a success leaves out no assertion of the corpus, and    *)
(* leaves a scope run_m4 takes when the numbers are the expected ones.     *)
THEOREM EnumeratesAllHolds == RunnersSpec => []EnumeratesAll
<1>1. RunnersInv => EnumeratesAll
  BY EnumMeans DEF RunnersInv
<1> QED BY <1>1, RunnersInvariance, PTL

(* What run_m4 passes was looked into, and stays within the frozen         *)
(* surface, whatever happened to wasm-objdump while the scope was written. *)
THEOREM IncludedStayWithinHolds == RunnersSpec => []IncludedStayWithin
<1>1. RunnersInv => IncludedStayWithin
  BY EnumMeans DEF RunnersInv
<1> QED BY <1>1, RunnersInvariance, PTL

----------------------------------------------------------------------------
(* The scripts as programs that read and leave files.                      *)

States == {"none", "empty", "torn", "whole", "unlisted"}
Outs == Manifests \cup {"m5", "none"}
Jobs == [prog : {"none", "fetch", "convert", "convert_m5"}, todo : Seq(Targets),
         made : BOOLEAN, ok : SUBSET Targets, failed : SUBSET Targets,
         missing : SUBSET Targets, out : Outs]
Reports == [ok : SUBSET Targets, all_ok : BOOLEAN] \cup {NoFile}
Summaries == [files : SUBSET Targets, fail : BOOLEAN] \cup {NoFile}

Typed ==
  /\ plan \in Plans
  /\ vendor \in [core : SUBSET Targets, marker : BOOLEAN]
  /\ json \in [{"converted", "converted_m5"} -> [Targets -> States]]
  /\ report \in [Manifests \cup {"m5"} -> Reports]
  /\ summary \in [Runners -> Summaries]
  /\ job \in Jobs
  /\ gate \in [on : BOOLEAN, at : 1..(Len(GateCommands) + 1)]
  /\ fresh \subseteq Runners /\ trouble \in BOOLEAN

(* The job: a directory just made, and where the report is to go.          *)
AtWork ==
  /\ job.prog = "none" => job = NoJob
  /\ job.made => /\ Converting /\ job.todo # <<>>
                 /\ json[Dir(job.prog)][src] = "empty" /\ src \in vendor.core
  /\ job.prog = "convert" => job.out \in Manifests
  /\ job.prog = "convert_m5" => job.out = "m5"

(* While something runs, the last end is that of nothing.                  *)
Idle == [prog |-> "none", rc |-> 0]
Busy == job # NoJob \/ gate.on => last = Idle

----------------------------------------------------------------------------
(* The gate.  A target of a manifest it converted is whole, or is being    *)
(* converted again.                                                        *)
Fine(t) == json["converted"][t] = "whole" \/ (job.made /\ t = src)

Kind(k) == GateCommands[k][1]
Of(k) == GateCommands[k][2][1]      \* the manifest a conversion is of

\* What a conversion behind the gate has left.
Converted(m) ==
  /\ ToSet(Listed[m]) \subseteq vendor.core
  /\ report[m] = [ok |-> ToSet(Listed[m]), all_ok |-> TRUE]
  /\ ~trouble => \A t \in ToSet(Listed[m]) : Fine(t)

\* What a runner behind the gate has left.
Classified(p) == p \in fresh /\ (~trouble => Locked(p))

\* The conversion the gate is waiting for.
UnderWay ==
  /\ job.prog = "convert" /\ gate.at <= Len(GateCommands)
  /\ GateCommands[gate.at] = <<"convert", <<job.out, job.out>>>>
  /\ ToSet(Listed[job.out]) = job.ok \cup job.failed \cup ToSet(job.todo)
  /\ job.ok \subseteq vendor.core
  /\ job.failed # {} => trouble
  /\ ~trouble => \A t \in job.ok : Fine(t)

Behind(k) ==
  /\ Kind(k) = "convert" => Converted(Of(k))
  /\ Kind(k) \in FrozenRunners => Classified(Kind(k))

Gating ==
  gate.on =>
    /\ "regression" \in Programs
    /\ job # NoJob => UnderWay
    /\ \A k \in 1..(gate.at - 1) : Behind(k)
    /\ trouble => \/ job.failed # {}
                  \/ \E m \in Manifests : ~(ToSet(Listed[m]) \subseteq vendor.core)

----------------------------------------------------------------------------
(* The sweep: each target is still to do, converted, or failed, and those  *)
(* whose source was there are told from those missing.                     *)
Sweeping ==
  job.prog = "convert_m5" =>
    /\ ~gate.on
    /\ ToSet(Listed["m5"]) = job.ok \cup job.failed \cup ToSet(job.todo)
    /\ job.ok \cap job.failed = {}
    /\ (job.ok \cup job.failed) \cap ToSet(job.todo) = {}
    /\ IsInjective(job.todo)
    /\ job.missing \subseteq job.failed
    /\ (job.ok \cup job.failed) \ job.missing \subseteq vendor.core
    /\ \A t \in job.ok : json["converted_m5"][t] \in {"whole", "unlisted"}

Ends == NoPartialInventory /\ SweepExaminesAll /\ RegressionIsFresh /\ RerunRecovers

Inv == Typed /\ AtWork /\ Busy /\ Gating /\ Sweeping /\ Ends

----------------------------------------------------------------------------
(* What a checkout is.                                                     *)
LEMMA PlanFacts ==
  ASSUME plan \in Plans
  PROVE  /\ "m0" \in Manifests /\ Manifests \subseteq {"m0", "m2", "m3"}
         /\ Programs \subseteq {"fetch", "convert", "convert_m5", "regression"} \cup Runners
         /\ "regression" \in Programs => Manifests = {"m0", "m2", "m3"}
         /\ \A p \in Runners : p \in Programs \/ (p # "run_m5" /\ "regression" \in Programs)
                                 => manifest(p) \in Manifests \cup {"m5"}
         /\ \A m \in Manifests \cup {"m5"} :
              /\ Listed[m] \in Seq(Targets) /\ IsInjective(Listed[m])
              /\ ToSet(Listed[m]) \subseteq Targets
         /\ ToSet(Listed["m0"]) # {}
         /\ expected_convert_fail \subseteq ToSet(Listed["m5"])
<1>1. /\ "m0" \in Manifests /\ Manifests \subseteq {"m0", "m2", "m3"}
      /\ Programs \subseteq {"fetch", "convert", "convert_m5", "regression"} \cup Runners
      /\ "regression" \in Programs => Manifests = {"m0", "m2", "m3"}
      /\ \A p \in Runners \cap Programs : manifest(p) \in Manifests \cup {"m5"}
      /\ Listed["m0"] # <<>>
      /\ \A m \in Manifests \cup {"m5"} :
           Listed[m] \in Seq(ToSet(Listed[m])) /\ IsInjective(Listed[m])
      /\ expected_convert_fail \subseteq ToSet(Listed["m5"])
  BY PipelineAssumption DEF Manifests, Programs, Listed, expected_convert_fail
<1>2. ASSUME NEW m \in Manifests \cup {"m5"}
      PROVE  Listed[m] \in Seq(Targets) /\ ToSet(Listed[m]) \subseteq Targets
  <2>1. ToSet(Listed[m]) \subseteq Targets
    BY DEF Targets
  <2>2. Listed[m] \in Seq(ToSet(Listed[m]))
    BY <1>1
  <2> QED BY <2>1, <2>2
<1>3. ASSUME NEW p \in Runners, p # "run_m5", "regression" \in Programs
      PROVE  manifest(p) \in Manifests
  BY <1>1, <1>3 DEF manifest, Runners, FrozenRunners
<1>4. ToSet(Listed["m0"]) # {}
  <2>1. Listed["m0"] \in Seq(Targets) /\ Listed["m0"] # <<>>
    BY <1>1, <1>2
  <2>2. 1 \in DOMAIN Listed["m0"]
    BY <2>1
  <2> QED BY <2>2 DEF ToSet
<1> QED BY <1>1, <1>2, <1>3, <1>4

(* The checkout stays as it is.                                            *)
LEMMA SamePlan ==
  ASSUME UNCHANGED plan
  PROVE  /\ Targets' = Targets /\ Listed' = Listed /\ Manifests' = Manifests
         /\ Programs' = Programs /\ expected_convert_fail' = expected_convert_fail
         /\ Outs' = Outs /\ Jobs' = Jobs /\ Reports' = Reports /\ Summaries' = Summaries
BY DEF Targets, Listed, Manifests, Programs, expected_convert_fail, Outs, Jobs, Reports,
       Summaries

(* The nine commands of the gate.                                          *)
LEMMA CommandsAre ==
  /\ Len(GateCommands) = 9
  /\ GateCommands[1] = <<"convert", <<"m0", "m0">>>>
  /\ GateCommands[2] = <<"convert", <<"m2", "m2">>>>
  /\ GateCommands[3] = <<"convert", <<"m3", "m3">>>>
  /\ GateCommands[4] = <<"m4", <<"enumerate">>>> /\ GateCommands[5] = <<"run_skeleton", <<>>>>
  /\ GateCommands[6] = <<"run_m1", <<>>>> /\ GateCommands[7] = <<"run_m2", <<>>>>
  /\ GateCommands[8] = <<"run_m3", <<>>>> /\ GateCommands[9] = <<"m4", <<"run">>>>
BY DEF GateCommands

(* The gate's nine commands, as the program lists them. *)
LEMMA KindsAre ==
  /\ Kind(1) = "convert" /\ Of(1) = "m0" /\ Kind(2) = "convert" /\ Of(2) = "m2"
  /\ Kind(3) = "convert" /\ Of(3) = "m3" /\ Kind(4) = "m4" /\ Kind(5) = "run_skeleton"
  /\ Kind(6) = "run_m1" /\ Kind(7) = "run_m2" /\ Kind(8) = "run_m3" /\ Kind(9) = "m4"
BY CommandsAre DEF Kind, Of

(* No program at work. *)
LEMMA NoJobIs ==
  /\ NoJob \in Jobs /\ NoJob.prog = "none" /\ ~NoJob.made /\ NoJob.failed = {}
  /\ NoJob.todo = <<>>
BY DEF NoJob, Jobs, Outs

(* A program that has just begun: nothing made, nothing converted. *)
LEMMA JobIs ==
  ASSUME NEW prog \in {"fetch", "convert", "convert_m5"}, NEW todo \in Seq(Targets),
         NEW out \in Outs
  PROVE  /\ Job(prog, todo, out) \in Jobs /\ Job(prog, todo, out) # NoJob
         /\ Job(prog, todo, out).prog = prog /\ Job(prog, todo, out).todo = todo
         /\ Job(prog, todo, out).out = out /\ ~Job(prog, todo, out).made
         /\ Job(prog, todo, out).ok = {} /\ Job(prog, todo, out).failed = {}
         /\ Job(prog, todo, out).missing = {}
<1> DEFINE j == Job(prog, todo, out)
<1>1. ~NoJob.made /\ NoJob.ok = {} /\ NoJob.failed = {} /\ NoJob.missing = {}
  BY DEF NoJob
<1>2. j = [NoJob EXCEPT !.prog = prog, !.todo = todo, !.out = out] /\ NoJob \in Jobs
  BY NoJobIs DEF Job
<1>3. j \in Jobs /\ j.prog = prog /\ j.todo = todo /\ j.out = out
  BY <1>2 DEF Jobs
<1>4. j.made = NoJob.made /\ j.ok = NoJob.ok /\ j.failed = NoJob.failed
      /\ j.missing = NoJob.missing
  BY <1>2 DEF Jobs
<1>5. j.prog # NoJob.prog
  BY <1>3, NoJobIs
<1> QED BY <1>1, <1>3, <1>4, <1>5

(* The first of a sequence, and what is left of it.                        *)
LEMMA HeadAndTail ==
  ASSUME NEW S, NEW s \in Seq(S), s # <<>>
  PROVE  /\ Head(s) \in S /\ Tail(s) \in Seq(S)
         /\ ToSet(s) = {Head(s)} \cup ToSet(Tail(s))
         /\ IsInjective(s) => IsInjective(Tail(s)) /\ Head(s) \notin ToSet(Tail(s))
<1>1. /\ Len(s) \in Nat /\ Len(s) > 0 /\ DOMAIN s = 1..Len(s)
      /\ Tail(s) \in Seq(S) /\ Len(Tail(s)) = Len(s) - 1
      /\ \A i \in 1..(Len(s) - 1) : Tail(s)[i] = s[i + 1]
      /\ Head(s) = s[1]
  OBVIOUS
<1>2. DOMAIN Tail(s) = 1..(Len(s) - 1)
  BY <1>1
<1>3. \A i \in DOMAIN s : i = 1 \/ i - 1 \in DOMAIN Tail(s)
  BY <1>1, <1>2
<1>4. \A i \in DOMAIN Tail(s) : i + 1 \in DOMAIN s /\ i + 1 # 1
  BY <1>1, <1>2
<1>5. Head(s) \in S
  BY <1>1
<1>6. ToSet(s) = {Head(s)} \cup ToSet(Tail(s))
  <2>1. ASSUME NEW i \in DOMAIN s PROVE s[i] \in {Head(s)} \cup ToSet(Tail(s))
    <3>1. CASE i = 1
      BY <1>1, <3>1
    <3>2. CASE i # 1
      <4>1. i - 1 \in DOMAIN Tail(s) /\ Tail(s)[i - 1] = s[i]
        BY <1>1, <1>2, <3>2
      <4> QED BY <4>1 DEF ToSet
    <3> QED BY <3>1, <3>2
  <2>2. ASSUME NEW i \in DOMAIN Tail(s) PROVE Tail(s)[i] \in ToSet(s)
    BY <1>1, <1>2, <1>4 DEF ToSet
  <2>3. Head(s) \in ToSet(s)
    <3>1. 1 \in DOMAIN s
      BY <1>1
    <3> QED BY <1>1, <3>1 DEF ToSet
  <2> QED BY <2>1, <2>2, <2>3 DEF ToSet
<1>7. ASSUME IsInjective(s)
      PROVE  IsInjective(Tail(s)) /\ Head(s) \notin ToSet(Tail(s))
  <2>1. \A a, b \in DOMAIN s : s[a] = s[b] => a = b
    BY <1>7 DEF IsInjective
  <2>2. ASSUME NEW a \in DOMAIN Tail(s), NEW b \in DOMAIN Tail(s), Tail(s)[a] = Tail(s)[b]
        PROVE  a = b
    <3>1. s[a + 1] = s[b + 1] /\ a + 1 \in DOMAIN s /\ b + 1 \in DOMAIN s
      BY <1>1, <1>2, <1>4, <2>2
    <3>2. a + 1 = b + 1
      BY <2>1, <3>1
    <3>3. a \in Int /\ b \in Int
      BY <1>2
    <3> QED BY ONLY <3>2, <3>3
  <2>3. ASSUME NEW a \in DOMAIN Tail(s) PROVE Tail(s)[a] # Head(s)
    <3>1. Tail(s)[a] = s[a + 1] /\ a + 1 \in DOMAIN s /\ 1 \in DOMAIN s /\ a + 1 # 1
      BY <1>1, <1>2, <1>4
    <3> QED BY <1>1, <2>1, <3>1
  <2> QED BY <2>2, <2>3 DEF IsInjective, ToSet
<1> QED BY <1>1, <1>5, <1>6, <1>7

----------------------------------------------------------------------------
(* A program ends by hand, or the gate goes on, or the gate ends.          *)
LEMMA ExitByHand ==
  ASSUME ~gate.on, NEW prog, NEW ret, Exit(prog, ret)
  PROVE  job' = NoJob /\ last' = [prog |-> prog, rc |-> ret] /\ gate' = gate
BY DEF Exit

(* A command that ends well sends the gate on to the next. *)
LEMMA ExitOnward ==
  ASSUME Typed, gate.on, NEW prog, Exit(prog, 0)
  PROVE  /\ job' = NoJob /\ UNCHANGED last
         /\ gate' = [gate EXCEPT !.at = gate.at + 1]
         /\ gate'.on /\ gate'.at = gate.at + 1
<1>1. gate \in [on : BOOLEAN, at : 1..(Len(GateCommands) + 1)]
  BY DEF Typed
<1> QED BY <1>1 DEF Exit

(* A command that ends badly ends the gate, with exit code 1. *)
LEMMA ExitFailing ==
  ASSUME gate.on, NEW prog, NEW ret, ret # 0, Exit(prog, ret)
  PROVE  job' = NoJob /\ gate' = GateOff /\ last' = [prog |-> "regression", rc |-> 1]
BY DEF Exit

(* The gate, not running. *)
LEMMA GateOffIs ==
  ~GateOff.on /\ GateOff \in [on : BOOLEAN, at : 1..(Len(GateCommands) + 1)]
BY CommandsAre DEF GateOff

\* Programs whose end says something that must be true.
Telling == FrozenRunners \cup {"convert_m5", "regression"}

(* Of the end of any other program nothing is claimed. *)
LEMMA TellsNothing ==
  ASSUME NEW p, NEW c, last' = [prog |-> p, rc |-> c], p \notin Telling
  PROVE  Ends'
<1>1. ASSUME NEW q \in Telling, NEW d
      PROVE  ~Ended(q, d)'
  <2>1. last'.prog = p /\ [prog |-> q, rc |-> d].prog = q /\ q # p
    OBVIOUS
  <2> QED BY <2>1 DEF Ended
<1>2. \A q \in FrozenRunners : ~Ended(q, 0)'
  BY <1>1 DEF Telling
<1>3. ~Ended("convert_m5", 0)' /\ ~Ended("regression", 0)' /\ ~Ended("regression", 1)'
  BY <1>1 DEF Telling
<1> QED BY <1>2, <1>3 DEF Ends, NoPartialInventory, SweepExaminesAll, RegressionIsFresh, RerunRecovers

(* A gate that fails is a gate in which something failed.                  *)
LEMMA TellsOfTrouble ==
  ASSUME last' = [prog |-> "regression", rc |-> 1], trouble' = TRUE
  PROVE  Ends'
<1>1. ASSUME NEW q \in FrozenRunners \cup {"convert_m5"}
      PROVE  ~Ended(q, 0)'
  <2>1. last'.prog = "regression" /\ [prog |-> q, rc |-> 0].prog = q /\ q # "regression"
    BY DEF FrozenRunners
  <2> QED BY <2>1 DEF Ended
<1>2. ~Ended("regression", 0)'
  <2>1. last'.rc = 1 /\ [prog |-> "regression", rc |-> 0].rc = 0
    OBVIOUS
  <2> QED BY <2>1 DEF Ended
<1> QED BY <1>1, <1>2 DEF Ends, NoPartialInventory, SweepExaminesAll, RegressionIsFresh, RerunRecovers

(* What runs is told of Idle.                                              *)
LEMMA IdleTellsNothing ==
  ASSUME last' = Idle
  PROVE  Ends'
BY TellsNothing DEF Idle, Telling, FrozenRunners

(* What the gate has behind it stays so.                                   *)
LEMMA ConvertedStays ==
  ASSUME Typed, UNCHANGED <<plan, vendor>>, NEW m \in Manifests, report'[m] = report[m],
         trouble => trouble', Converted(m),
         \A t \in Targets : ~trouble' /\ Fine(t) => Fine(t)'
  PROVE  Converted(m)'
<1>1. ToSet(Listed[m]) \subseteq Targets
  BY PlanFacts DEF Typed
<1>2. Listed' = Listed
  BY SamePlan
<1>3. ~trouble' => \A t \in ToSet(Listed[m]) : Fine(t)'
  BY <1>1 DEF Converted
<1> QED BY <1>2, <1>3 DEF Converted

(* A runner's summary that was complete stays so while nobody writes it. *)
LEMMA ClassifiedStays ==
  ASSUME UNCHANGED plan, NEW p, summary'[p] = summary[p], fresh \subseteq fresh',
         trouble => trouble', Classified(p)
  PROVE  Classified(p)'
<1>1. want(p)' = want(p)
  BY SamePlan DEF want
<1> QED BY <1>1 DEF Classified, Locked

(* What the gate has behind it stays done while the files it rests on      *)
(* stay.                                                                   *)
LEMMA BehindStays ==
  ASSUME Typed, "regression" \in Programs, UNCHANGED <<plan, vendor>>,
         \A m \in Manifests : report'[m] = report[m] \/ Converted(m)',
         \A p \in FrozenRunners : summary'[p] = summary[p] \/ Classified(p)',
         fresh \subseteq fresh', trouble => trouble',
         \A t \in Targets : ~trouble' /\ Fine(t) => Fine(t)',
         NEW k \in 1..9, Behind(k)
  PROVE  Behind(k)'
<1>1. Kind(k)' = Kind(k) /\ Of(k)' = Of(k)
  BY DEF Kind, Of
<1>2. Kind(k) = "convert" => Of(k) \in Manifests
  <2>1. Manifests = {"m0", "m2", "m3"}
    BY PlanFacts DEF Typed
  <2>2. k \in {1, 2, 3, 4, 5, 6, 7, 8, 9}
    OBVIOUS
  <2> QED BY <2>1, <2>2, KindsAre
<1>3. ASSUME Kind(k) = "convert" PROVE Converted(Of(k))'
  <2>1. PICK m \in Manifests : m = Of(k)
    BY <1>2, <1>3
  <2>2. Converted(m)
    BY <1>3, <2>1 DEF Behind
  <2>3. Converted(m)'
    <3>1. CASE report'[m] = report[m]
      BY <2>2, <3>1, ConvertedStays
    <3> QED BY <3>1
  <2> QED BY <1>1, <2>1, <2>3
<1>4. ASSUME Kind(k) \in FrozenRunners PROVE Classified(Kind(k))'
  <2>1. PICK p \in FrozenRunners : p = Kind(k)
    BY <1>4
  <2>2. Classified(p)
    BY <1>4, <2>1 DEF Behind
  <2>3. Classified(p)'
    <3>1. CASE summary'[p] = summary[p]
      BY <2>2, <3>1, ClassifiedStays
    <3> QED BY <3>1
  <2> QED BY <1>1, <2>1, <2>3
<1>5. FrozenRunners' = FrozenRunners
  BY DEF FrozenRunners
<1> QED BY <1>1, <1>3, <1>4, <1>5 DEF Behind

----------------------------------------------------------------------------
(* What a job of the gate is, and what the gate may be waiting for.        *)
LEMMA InGate ==
  ASSUME Inv, gate.on
  PROVE  /\ last = Idle /\ "regression" \in Programs /\ Manifests = {"m0", "m2", "m3"}
         /\ gate.at \in 1..10
         /\ \A k \in 1..(gate.at - 1) : k \in 1..9 /\ Behind(k)
         /\ job # NoJob => UnderWay
<1>1. gate.at \in 1..10
  BY CommandsAre DEF Inv, Typed
<1> QED BY <1>1, PlanFacts DEF Inv, Typed, Busy, Gating

(* While fetching or sweeping the gate is off.                             *)
LEMMA OutsideGate ==
  ASSUME Inv, job.prog \in {"fetch", "convert_m5"}
  PROVE  ~gate.on /\ job # NoJob /\ last = Idle
<1>1. job # NoJob
  BY NoJobIs
<1> QED BY <1>1 DEF Inv, Gating, UnderWay, Busy

\* The parts of the invariant that speak of a job, when there is none.
LEMMA AtRest ==
  ASSUME job' = NoJob
  PROVE  AtWork' /\ Sweeping' /\ (~gate'.on => Busy')
BY NoJobIs DEF AtWork, Sweeping, Busy

(* Fetching keeps the invariant. *)
LEMMA FetchKeeps ==
  ASSUME Inv, UNCHANGED plan, NEW skip \in BOOLEAN, Fetch(skip)
  PROVE  Inv'
<1>1. ~gate.on /\ UNCHANGED <<vendor, json, report, summary, fresh, trouble>>
  BY DEF Fetch, files
<1>2. CASE skip /\ vendor.marker
  <2>1. Exit("fetch", 0)
    BY <1>2 DEF Fetch
  <2>2. job' = NoJob /\ last' = [prog |-> "fetch", rc |-> 0] /\ gate' = gate
    BY <1>1, <2>1, ExitByHand
  <2>3. Typed'
    BY <1>1, <2>2, SamePlan, NoJobIs DEF Inv, Typed
  <2>4. Ends'
    BY <2>2, TellsNothing DEF Telling, FrozenRunners
  <2> QED BY <1>1, <2>2, <2>3, <2>4, AtRest DEF Inv, Gating
<1>3. CASE ~(skip /\ vendor.marker)
  <2>1. job' = Job("fetch", <<>>, "none") /\ last' = Idle /\ gate' = gate
    BY <1>3 DEF Fetch, Idle
  <2>2. <<>> \in Seq(Targets) /\ "none" \in Outs
    BY DEF Outs
  <2>3. job' \in Jobs /\ job'.prog = "fetch" /\ ~job'.made
    <3>1. PICK todo \in Seq(Targets) : todo = <<>>
      BY <2>2
    <3>2. Job("fetch", todo, "none") \in Jobs /\ Job("fetch", todo, "none").prog = "fetch"
          /\ ~Job("fetch", todo, "none").made
      BY ONLY <2>2, todo \in Seq(Targets), JobIs
    <3> QED BY ONLY <2>1, <3>1, <3>2
  <2>4. Typed'
    BY <1>1, <2>1, <2>3, SamePlan DEF Inv, Typed
  <2>5. AtWork' /\ Sweeping' /\ Busy'
    BY <2>1, <2>3 DEF AtWork, Sweeping, Busy, Idle
  <2> QED BY <1>1, <2>1, <2>4, <2>5, IdleTellsNothing DEF Inv, Gating
<1> QED BY <1>2, <1>3

(* Removing the old sources keeps it: nothing runs that relies on them. *)
LEMMA RmtreeKeeps ==
  ASSUME Inv, UNCHANGED plan, Rmtree
  PROVE  Inv'
<1>1. ~gate.on /\ job # NoJob /\ last = Idle /\ job.prog = "fetch"
  BY OutsideGate DEF Rmtree
<1>2. UNCHANGED <<json, report, summary, job, gate, last, fresh, trouble>>
  BY DEF Rmtree
<1>3. vendor' \in [core : SUBSET Targets, marker : BOOLEAN]
  BY DEF Rmtree, Inv, Typed
<1>4. Typed'
  BY <1>2, <1>3, SamePlan DEF Inv, Typed
<1>5. AtWork' /\ Sweeping' /\ Busy'
  BY <1>1, <1>2 DEF Inv, AtWork, Sweeping, Busy, Converting, src, Idle
<1> QED BY <1>1, <1>2, <1>4, <1>5, IdleTellsNothing DEF Inv, Gating

(* Putting the new sources in place keeps it. *)
LEMMA MoveKeeps ==
  ASSUME Inv, UNCHANGED plan, Move
  PROVE  Inv'
<1>1. ~gate.on
  BY OutsideGate DEF Move
<1>2. UNCHANGED <<json, report, summary, fresh, trouble>> /\ Exit("fetch", 0)
      /\ vendor' = Complete
  BY DEF Move
<1>3. job' = NoJob /\ last' = [prog |-> "fetch", rc |-> 0] /\ gate' = gate
  BY <1>1, <1>2, ExitByHand
<1>4. vendor' \in [core : SUBSET Targets, marker : BOOLEAN]
  BY <1>2 DEF Complete
<1>5. Typed'
  BY <1>2, <1>3, <1>4, SamePlan, NoJobIs DEF Inv, Typed
<1>6. Ends'
  BY <1>3, TellsNothing DEF Telling, FrozenRunners
<1> QED BY <1>1, <1>3, <1>5, <1>6, AtRest DEF Inv, Gating

(* A gate that fails for a trouble of its own.                             *)
LEMMA GateFails ==
  ASSUME Inv, UNCHANGED <<plan, vendor>>, gate.on, NEW prog, NEW ret, ret # 0, Exit(prog, ret),
         trouble' = TRUE, fresh' \subseteq Runners,
         json' \in [{"converted", "converted_m5"} -> [Targets -> States]],
         report' \in [Manifests \cup {"m5"} -> Reports], summary' \in [Runners -> Summaries]
  PROVE  Inv'
<1>1. job' = NoJob /\ gate' = GateOff /\ last' = [prog |-> "regression", rc |-> 1]
  BY ExitFailing
<1>2. Typed'
  BY <1>1, SamePlan, NoJobIs, GateOffIs DEF Inv, Typed
<1>3. ~gate'.on
  BY <1>1, GateOffIs
<1>4. Ends'
  BY <1>1, TellsOfTrouble
<1> QED BY <1>1, <1>2, <1>3, <1>4, AtRest DEF Inv, Gating

\* Nothing that ends by hand and tells nothing disturbs anything.
LEMMA EndsByHand ==
  ASSUME Inv, UNCHANGED <<plan, vendor, trouble, fresh>>, ~gate.on, NEW prog, NEW ret,
         prog \notin Telling, Exit(prog, ret),
         json' \in [{"converted", "converted_m5"} -> [Targets -> States]],
         report' \in [Manifests \cup {"m5"} -> Reports], summary' \in [Runners -> Summaries]
  PROVE  Inv'
<1>1. job' = NoJob /\ last' = [prog |-> prog, rc |-> ret] /\ gate' = gate
  BY ExitByHand
<1>2. Typed'
  BY <1>1, SamePlan, NoJobIs DEF Inv, Typed
<1>3. Ends'
  BY <1>1, TellsNothing
<1> QED BY <1>1, <1>2, <1>3, AtRest DEF Inv, Gating

(* The gate's conversions report under the manifest's own name.            *)
LEMMA GateConverts ==
  ASSUME NEW k \in 1..9, NEW m, NEW out, GateCommands[k] = <<"convert", <<m, out>>>>
  PROVE  out = m
<1>1. k \in {1, 2, 3, 4, 5, 6, 7, 8, 9}
  OBVIOUS
<1> QED BY <1>1, CommandsAre

(* A conversion begins with nothing made and everything to do. *)
LEMMA ConvertStarts ==
  ASSUME Inv, UNCHANGED plan, NEW m \in Manifests, NEW out \in Manifests,
         Starts("convert", <<m, out>>), job' = Job("convert", Listed[m], out),
         last' = Idle, UNCHANGED <<gate, trouble, vendor, json, report, summary, fresh>>
  PROVE  Inv'
<1>1. job = NoJob /\ (gate.on => gate.at <= Len(GateCommands)
                                 /\ GateCommands[gate.at] = <<"convert", <<m, out>>>>)
  BY DEF Starts
<1>2. Listed[m] \in Seq(Targets) /\ out \in Outs
  BY PlanFacts DEF Inv, Typed, Outs
<1>3. /\ job' \in Jobs /\ job' # NoJob /\ job'.prog = "convert" /\ job'.todo = Listed[m]
      /\ job'.out = out /\ ~job'.made /\ job'.ok = {} /\ job'.failed = {}
  BY <1>2, JobIs
<1>4. Typed'
  BY <1>3, SamePlan DEF Inv, Typed
<1>5. AtWork' /\ Sweeping' /\ Busy'
  BY <1>3, SamePlan DEF AtWork, Sweeping, Busy, Idle
<1>6. CASE gate.on
  <2>1. gate.at \in 1..9 /\ "regression" \in Programs
        /\ \A k \in 1..(gate.at - 1) : k \in 1..9 /\ Behind(k)
    BY <1>1, <1>6, CommandsAre, InGate
  <2>2. out = m
    BY <1>1, <1>6, <2>1, GateConverts
  <2>3. UnderWay'
    BY <1>1, <1>3, <1>6, <2>1, <2>2, SamePlan DEF UnderWay
  <2>4. \A t \in Targets : ~trouble' /\ Fine(t) => Fine(t)'
    BY <1>1, NoJobIs DEF Fine
  <2>5. \A k \in 1..(gate.at - 1) : Behind(k)'
    BY <2>1, <2>4, BehindStays DEF Inv
  <2>6. trouble => \E n \in Manifests : ~(ToSet(Listed[n]) \subseteq vendor.core)
    BY <1>1, <1>6, NoJobIs DEF Inv, Gating
  <2>7. Gating'
    BY <2>1, <2>3, <2>5, <2>6, SamePlan DEF Gating
  <2> QED BY <1>4, <1>5, <2>7, IdleTellsNothing DEF Inv
<1>7. CASE ~gate.on
  BY <1>4, <1>5, <1>7, IdleTellsNothing DEF Inv, Gating
<1> QED BY <1>6, <1>7

(* Starting convert from the command line keeps the invariant. *)
LEMMA ConvertKeeps ==
  ASSUME Inv, UNCHANGED plan, NEW m \in Manifests, NEW out \in Manifests, Convert(m, out)
  PROVE  Inv'
<1>1. Starts("convert", <<m, out>>) /\ UNCHANGED <<vendor, json, report, summary, fresh>>
  BY DEF Convert, files
<1>2. Typed
  BY DEF Inv
<1>3. CASE Exit("convert", 1) /\ Troubled(TRUE)
  <2>1. CASE gate.on
    <3>1. trouble' = TRUE
      BY <1>3, <2>1 DEF Troubled
    <3> QED BY <1>1, <1>2, <1>3, <2>1, <3>1, GateFails DEF Typed
  <2>2. CASE ~gate.on
    <3>1. UNCHANGED trouble
      BY <1>2, <1>3, <2>2 DEF Troubled, Typed
    <3>2. "convert" \notin Telling
      BY DEF Telling, FrozenRunners
    <3> QED BY <1>1, <1>2, <1>3, <2>2, <3>1, <3>2, EndsByHand DEF Typed
  <2> QED BY <2>1, <2>2
<1>4. CASE job' = Job("convert", Listed[m], out) /\ last' = Idle /\ UNCHANGED <<gate, trouble>>
  BY <1>1, <1>4, ConvertStarts
<1> QED BY <1>3, <1>4 DEF Convert, Idle

(* So does starting convert_m5, after its freeze or without. *)
LEMMA ConvertM5Keeps ==
  ASSUME Inv, UNCHANGED plan, NEW freeze \in BOOLEAN, ConvertM5(freeze)
  PROVE  Inv'
<1>1. ~gate.on /\ job = NoJob /\ UNCHANGED <<vendor, json, report, summary, fresh, trouble>>
  BY DEF ConvertM5, files, Starts
<1>2. ASSUME NEW ret \in {1, 2}, Exit("convert_m5", ret) PROVE Inv'
  <2>1. job' = NoJob /\ last' = [prog |-> "convert_m5", rc |-> ret] /\ gate' = gate
    BY <1>1, <1>2, ExitByHand
  <2>2. Typed'
    BY <1>1, <2>1, SamePlan, NoJobIs DEF Inv, Typed
  <2>3. last'.prog = "convert_m5" /\ last'.rc = ret
    BY <2>1
  <2>4. Ends'
    BY <2>3 DEF Ends, NoPartialInventory, SweepExaminesAll, RegressionIsFresh, RerunRecovers,
                Ended, FrozenRunners
  <2> QED BY <1>1, <2>1, <2>2, <2>4, AtRest DEF Inv, Gating
<1>3. ASSUME job' = Job("convert_m5", Listed["m5"], "m5"), last' = Idle, UNCHANGED gate
      PROVE  Inv'
  <2>1. Listed["m5"] \in Seq(Targets) /\ IsInjective(Listed["m5"]) /\ "m5" \in Outs
    BY PlanFacts DEF Inv, Typed, Outs
  <2>2. /\ job' \in Jobs /\ job'.prog = "convert_m5" /\ job'.todo = Listed["m5"]
        /\ job'.out = "m5" /\ ~job'.made /\ job'.ok = {} /\ job'.failed = {}
        /\ job'.missing = {}
    BY <1>3, <2>1, JobIs
  <2>3. Typed'
    BY <1>1, <1>3, <2>2, SamePlan DEF Inv, Typed
  <2>4. AtWork' /\ Busy'
    BY <1>3, <2>2 DEF AtWork, Busy, Idle
  <2>5. Sweeping'
    BY <1>1, <1>3, <2>1, <2>2, SamePlan DEF Sweeping
  <2> QED BY <1>1, <1>3, <2>3, <2>4, <2>5, IdleTellsNothing DEF Inv, Gating
<1> QED BY <1>2, <1>3 DEF ConvertM5, Idle
----------------------------------------------------------------------------
(* A step of a conversion, as far as the other parts are concerned.        *)
LEMMA JobMoves ==
  ASSUME Inv, UNCHANGED <<plan, vendor, report, summary, gate, last, fresh>>,
         Converting, job' \in Jobs, job'.prog = job.prog, job'.out = job.out,
         json' \in [{"converted", "converted_m5"} -> [Targets -> States]],
         trouble' \in BOOLEAN, trouble => trouble',
         job'.made => /\ job'.todo # <<>> /\ json'[Dir(job.prog)][Head(job'.todo)] = "empty"
                      /\ Head(job'.todo) \in vendor.core,
         gate.on => /\ UnderWay'
                    /\ trouble' => trouble \/ job'.failed # {}
                    /\ job.failed \subseteq job'.failed
                    /\ \A t \in Targets : ~trouble' /\ Fine(t) => Fine(t)',
         Sweeping'
  PROVE  Inv'
<1>1. Typed'
  BY SamePlan DEF Inv, Typed
<1>2. job # NoJob /\ job' # NoJob /\ job'.prog # "none" /\ last = Idle
  BY NoJobIs DEF Converting, Inv, Busy
<1>3. AtWork'
  BY <1>2, SamePlan DEF Inv, AtWork, Converting, src, Dir
<1>4. Busy'
  BY <1>2 DEF Busy, Idle
<1>5. Ends'
  BY <1>2, IdleTellsNothing DEF Idle
<1>6. CASE gate.on
  <2>1. "regression" \in Programs /\ \A k \in 1..(gate.at - 1) : k \in 1..9 /\ Behind(k)
    BY <1>6, InGate
  <2>2. \A k \in 1..(gate.at - 1) : Behind(k)'
    <3> SUFFICES ASSUME NEW k \in 1..(gate.at - 1)
                 PROVE  Behind(k)'
      OBVIOUS
    <3>1. k \in 1..9 /\ Behind(k) /\ Typed
      BY <2>1 DEF Inv
    <3> QED BY <1>6, <2>1, <3>1, BehindStays
  <2>3. trouble' => \/ job'.failed # {}
                    \/ \E m \in Manifests : ~(ToSet(Listed[m]) \subseteq vendor.core)
    BY <1>6 DEF Inv, Gating
  <2>4. Gating'
    BY <1>2, <1>6, <2>1, <2>2, <2>3, SamePlan DEF Gating
  <2> QED BY <1>1, <1>3, <1>4, <1>5, <2>4 DEF Inv
<1>7. CASE ~gate.on
  BY <1>1, <1>3, <1>4, <1>5, <1>7 DEF Inv, Gating
<1> QED BY <1>6, <1>7

(* What a conversion has at hand.                                          *)
LEMMA AtHand ==
  ASSUME Inv, Converting, job.todo # <<>>
  PROVE  /\ src \in Targets /\ Tail(job.todo) \in Seq(Targets)
         /\ ToSet(job.todo) = {src} \cup ToSet(Tail(job.todo))
         /\ IsInjective(job.todo) => /\ IsInjective(Tail(job.todo))
                                     /\ src \notin ToSet(Tail(job.todo))
         /\ Dir(job.prog) \in {"converted", "converted_m5"}
         /\ job.prog = "convert" => Dir(job.prog) = "converted"
         /\ job.prog = "convert_m5" => Dir(job.prog) = "converted_m5"
<1>1. job.todo \in Seq(Targets)
  BY DEF Inv, Typed, Jobs
<1>2. Dir("convert") = "converted" /\ Dir("convert_m5") = "converted_m5"
  BY DEF Dir
<1> QED BY <1>1, <1>2, HeadAndTail DEF src, Converting

(* A listed source that is missing ends a conversion, or is noted and      *)
(* passed over.                                                            *)
LEMMA MissingSourceKeeps ==
  ASSUME Inv, UNCHANGED plan, MissingSource
  PROVE  Inv'
<1>1. /\ Converting /\ job.todo # <<>> /\ ~job.made /\ src \notin vendor.core
      /\ UNCHANGED <<vendor, json, report, summary, gate, last, fresh>>
      /\ job' = [job EXCEPT !.todo = Tail(@), !.failed = @ \cup {src}, !.missing = @ \cup {src}]
  BY DEF MissingSource, files
<1>2. Typed /\ job \in Jobs
  BY DEF Inv, Typed
<1>3. /\ src \in Targets /\ Tail(job.todo) \in Seq(Targets)
      /\ ToSet(job.todo) = {src} \cup ToSet(Tail(job.todo))
      /\ IsInjective(job.todo) => /\ IsInjective(Tail(job.todo))
                                  /\ src \notin ToSet(Tail(job.todo))
  BY <1>1, AtHand
<1>4. /\ job'.prog = job.prog /\ job'.out = job.out /\ job'.made = job.made /\ job'.ok = job.ok
      /\ job'.todo = Tail(job.todo) /\ job'.failed = job.failed \cup {src}
      /\ job'.missing = job.missing \cup {src}
  BY <1>1, <1>2 DEF Jobs
<1>5. job' \in Jobs
  BY <1>1, <1>2, <1>3 DEF Jobs
<1>6. (gate.on => trouble' = TRUE) /\ (~gate.on => trouble' = trouble)
      /\ trouble' \in BOOLEAN /\ (trouble => trouble')
  BY <1>2 DEF MissingSource, Troubled, Typed
<1>7. ASSUME gate.on PROVE UnderWay'
  <2>1. UnderWay
    BY <1>1, <1>7, NoJobIs, InGate DEF Converting
  <2> QED BY <1>1, <1>3, <1>4, <1>6, <1>7, <2>1, SamePlan DEF UnderWay
<1>8. Sweeping'
  <2>1. CASE job.prog = "convert_m5"
    <3>1. /\ ~gate.on /\ IsInjective(job.todo)
          /\ ToSet(Listed["m5"]) = job.ok \cup job.failed \cup ToSet(job.todo)
          /\ job.ok \cap job.failed = {}
          /\ (job.ok \cup job.failed) \cap ToSet(job.todo) = {}
          /\ job.missing \subseteq job.failed
          /\ (job.ok \cup job.failed) \ job.missing \subseteq vendor.core
          /\ \A t \in job.ok : json["converted_m5"][t] \in {"whole", "unlisted"}
      BY <2>1 DEF Inv, Sweeping
    <3>2. /\ ToSet(Listed["m5"]) = job'.ok \cup job'.failed \cup ToSet(job'.todo)
          /\ job'.ok \cap job'.failed = {}
          /\ (job'.ok \cup job'.failed) \cap ToSet(job'.todo) = {}
      BY <1>3, <1>4, <3>1
    <3>3. /\ job'.missing \subseteq job'.failed
          /\ (job'.ok \cup job'.failed) \ job'.missing \subseteq vendor.core
      BY <1>4, <3>1
    <3> QED BY <1>1, <1>3, <1>4, <3>1, <3>2, <3>3, SamePlan DEF Sweeping
  <2> QED BY <1>4, <2>1 DEF Sweeping
<1> QED
  <2>1. gate.on => \A t \in Targets : ~trouble' /\ Fine(t) => Fine(t)'
    BY <1>6
  <2>2. json' \in [{"converted", "converted_m5"} -> [Targets -> States]]
    BY <1>1, <1>2 DEF Typed
  <2>3. job'.failed # {} /\ job.failed \subseteq job'.failed /\ ~job'.made
    BY <1>1, <1>4
  <2> QED BY <1>1, <1>4, <1>5, <1>6, <1>7, <1>8, <2>1, <2>2, <2>3, JobMoves
(* Making a target's directory keeps the invariant. *)
LEMMA MakeDirKeeps ==
  ASSUME Inv, UNCHANGED plan, MakeDir
  PROVE  Inv'
<1> DEFINE d == Dir(job.prog)
<1>1. /\ Converting /\ job.todo # <<>> /\ ~job.made /\ src \in vendor.core
      /\ UNCHANGED <<vendor, report, summary, gate, last, fresh, trouble>>
      /\ json' = [json EXCEPT ![d][src] = "empty"]
      /\ job' = [job EXCEPT !.made = TRUE]
  BY DEF MakeDir
<1>2. Typed /\ job \in Jobs
      /\ json \in [{"converted", "converted_m5"} -> [Targets -> States]]
  BY DEF Inv, Typed
<1>3. src \in Targets /\ d \in {"converted", "converted_m5"}
      /\ (job.prog = "convert" => d = "converted") /\ (job.prog = "convert_m5" => d = "converted_m5")
  BY <1>1, AtHand
<1>4. /\ job'.prog = job.prog /\ job'.out = job.out /\ job'.made = TRUE /\ job'.ok = job.ok
      /\ job'.todo = job.todo /\ job'.failed = job.failed /\ job'.missing = job.missing
  BY <1>1, <1>2 DEF Jobs
<1>5. job' \in Jobs
  BY <1>1, <1>2 DEF Jobs
<1> HIDE DEF d
<1>6. json' \in [{"converted", "converted_m5"} -> [Targets -> States]]
      /\ json'[d][src] = "empty"
      /\ \A t \in Targets : t # src => json'[d][t] = json[d][t]
  BY <1>1, <1>2, <1>3 DEF States
<1>7. src' = src
  BY <1>4 DEF src
<1>8. ASSUME gate.on
      PROVE  UnderWay' /\ \A t \in Targets : ~trouble' /\ Fine(t) => Fine(t)'
  <2>1. UnderWay
    BY <1>1, <1>8, NoJobIs, InGate DEF Converting
  <2>2. d = "converted"
    BY <1>3, <2>1 DEF UnderWay
  <2>3. ASSUME NEW t \in Targets, Fine(t) PROVE Fine(t)'
    BY <1>1, <1>4, <1>6, <1>7, <2>2, <2>3 DEF Fine
  <2>4. job.ok \subseteq Targets
    BY <1>2 DEF Jobs
  <2> QED BY <1>1, <1>4, <2>1, <2>3, <2>4, SamePlan DEF UnderWay
<1>9. Sweeping'
  <2>1. CASE job.prog = "convert_m5"
    <3>1. \A t \in job.ok : t \in Targets /\ t # src
      BY <1>1, <1>2, <2>1, AtHand DEF Inv, Sweeping, Jobs
    <3>2. d = "converted_m5"
      BY <1>3, <2>1
    <3>3. \A t \in job'.ok : json'["converted_m5"][t] \in {"whole", "unlisted"}
      BY <1>4, <1>6, <2>1, <3>1, <3>2 DEF Inv, Sweeping
    <3> QED BY <1>1, <1>4, <2>1, <3>3, SamePlan DEF Inv, Sweeping
  <2> QED BY <1>4, <2>1 DEF Sweeping
<1> QED
  <2>1. trouble' \in BOOLEAN /\ (trouble => trouble') /\ (trouble' => trouble)
    BY <1>1, <1>2 DEF Typed
  <2>2. job'.todo # <<>> /\ json'[Dir(job.prog)][Head(job'.todo)] = "empty"
        /\ Head(job'.todo) \in vendor.core
    BY <1>1, <1>4, <1>6 DEF src, d
  <2> QED BY <1>1, <1>4, <1>5, <1>6, <1>8, <1>9, <2>1, <2>2, JobMoves

(* What wast2json leaves: a whole file, which may hold a text not listed   *)
(* in the sweep, or a failure.                                             *)
LEMMA Wast2jsonKeeps ==
  ASSUME Inv, UNCHANGED plan, NEW left \in {"whole", "unlisted", "empty", "torn"},
         Wast2json(left)
  PROVE  Inv'
<1> DEFINE d == Dir(job.prog)
           whole == left \in {"whole", "unlisted"}
<1>1. /\ Converting /\ job.made /\ (left = "unlisted" => job.prog = "convert_m5")
      /\ UNCHANGED <<vendor, report, summary, gate, last, fresh>>
      /\ json' = [json EXCEPT ![d][src] = left]
  BY DEF Wast2json
<1>2. Typed /\ job \in Jobs
      /\ json \in [{"converted", "converted_m5"} -> [Targets -> States]]
      /\ job.todo # <<>> /\ src \in vendor.core
  BY <1>1 DEF Inv, Typed, AtWork
<1>3. /\ src \in Targets /\ d \in {"converted", "converted_m5"}
      /\ (job.prog = "convert" => d = "converted") /\ (job.prog = "convert_m5" => d = "converted_m5")
      /\ Tail(job.todo) \in Seq(Targets)
      /\ ToSet(job.todo) = {src} \cup ToSet(Tail(job.todo))
      /\ IsInjective(job.todo) => /\ IsInjective(Tail(job.todo))
                                  /\ src \notin ToSet(Tail(job.todo))
  BY <1>1, <1>2, AtHand
<1>4. PICK done \in Jobs : done = [job EXCEPT !.todo = Tail(@), !.made = FALSE]
  BY <1>2, <1>3 DEF Jobs
<1>5. /\ done.prog = job.prog /\ done.out = job.out /\ done.made = FALSE /\ done.ok = job.ok
      /\ done.todo = Tail(job.todo) /\ done.failed = job.failed /\ done.missing = job.missing
  BY <1>2, <1>4 DEF Jobs
<1>6. IF whole THEN job' = [done EXCEPT !.ok = @ \cup {src}] /\ UNCHANGED trouble
      ELSE job' = [done EXCEPT !.failed = @ \cup {src}] /\ Troubled(TRUE)
  BY <1>4 DEF Wast2json
<1>7. /\ job' \in Jobs /\ job'.prog = job.prog /\ job'.out = job.out /\ job'.made = FALSE
      /\ job'.todo = Tail(job.todo) /\ job'.missing = job.missing
      /\ job'.ok = IF whole THEN job.ok \cup {src} ELSE job.ok
      /\ job'.failed = IF whole THEN job.failed ELSE job.failed \cup {src}
  <2>1. CASE whole
    <3>1. job' = [done EXCEPT !.ok = @ \cup {src}]
      BY <1>6, <2>1
    <3>2. job' \in Jobs
      BY <1>3, <1>4, <3>1 DEF Jobs
    <3> QED BY <1>4, <1>5, <2>1, <3>1, <3>2 DEF Jobs
  <2>2. CASE ~whole
    <3>1. job' = [done EXCEPT !.failed = @ \cup {src}]
      BY <1>6, <2>2
    <3>2. job' \in Jobs
      BY <1>3, <1>4, <3>1 DEF Jobs
    <3> QED BY <1>4, <1>5, <2>2, <3>1, <3>2 DEF Jobs
  <2> QED BY <2>1, <2>2
<1>8. /\ (whole => trouble' = trouble) /\ (~whole /\ gate.on => trouble')
      /\ (~whole /\ ~gate.on => trouble' = trouble)
      /\ trouble' \in BOOLEAN /\ (trouble => trouble')
  BY <1>2, <1>6 DEF Troubled, Typed
<1> HIDE DEF d
<1>9. json' \in [{"converted", "converted_m5"} -> [Targets -> States]]
      /\ json'[d][src] = left
      /\ \A t \in Targets : t # src => json'[d][t] = json[d][t]
  BY <1>1, <1>2, <1>3 DEF States
<1>10. ASSUME gate.on
       PROVE  /\ UnderWay' /\ (trouble' => trouble \/ job'.failed # {})
              /\ \A t \in Targets : ~trouble' /\ Fine(t) => Fine(t)'
  <2>1. UnderWay
    BY <1>1, <1>10, NoJobIs, InGate DEF Converting
  <2>2. d = "converted" /\ left # "unlisted"
    BY <1>1, <1>3, <2>1 DEF UnderWay
  <2>3. ASSUME NEW t \in Targets, ~trouble', Fine(t) PROVE Fine(t)'
    <3>1. left = "whole"
      BY <1>8, <1>10, <2>2, <2>3
    <3>2. CASE t = src
      BY <1>9, <2>2, <3>1, <3>2 DEF Fine
    <3>3. CASE t # src
      BY <1>9, <2>2, <2>3, <3>3 DEF Fine
    <3> QED BY <3>2, <3>3
  <2>4. ToSet(Listed[job.out]) = job'.ok \cup job'.failed \cup ToSet(job'.todo)
    BY <1>3, <1>7, <2>1 DEF UnderWay
  <2>5. job'.ok \subseteq vendor.core /\ (job'.failed # {} => trouble')
    BY <1>2, <1>7, <1>8, <1>10, <2>1 DEF UnderWay
  <2>6. ASSUME ~trouble', NEW t \in job'.ok PROVE Fine(t)'
    <3>1. ~trouble /\ left = "whole" /\ job.ok \subseteq Targets
      BY <1>2, <1>8, <1>10, <2>2, <2>6 DEF Jobs
    <3>2. CASE t = src
      BY <1>9, <2>2, <3>1, <3>2 DEF Fine
    <3>3. CASE t # src
      <4>1. t \in job.ok
        BY <1>7, <2>6, <3>3
      <4>2. Fine(t) /\ t \in Targets
        BY <2>1, <3>1, <4>1 DEF UnderWay
      <4> QED BY <2>3, <2>6, <4>2
    <3> QED BY <3>2, <3>3
  <2>7. UnderWay'
    BY <1>1, <1>7, <2>1, <2>4, <2>5, <2>6, SamePlan DEF UnderWay
  <2>8. trouble' => trouble \/ job'.failed # {}
    BY <1>7, <1>8
  <2> QED BY <2>3, <2>7, <2>8
<1>11. Sweeping'
  <2>1. CASE job.prog = "convert_m5"
    <3>1. /\ ~gate.on /\ IsInjective(job.todo)
          /\ ToSet(Listed["m5"]) = job.ok \cup job.failed \cup ToSet(job.todo)
          /\ job.ok \cap job.failed = {}
          /\ (job.ok \cup job.failed) \cap ToSet(job.todo) = {}
          /\ job.missing \subseteq job.failed
          /\ (job.ok \cup job.failed) \ job.missing \subseteq vendor.core
          /\ \A t \in job.ok : json["converted_m5"][t] \in {"whole", "unlisted"}
      BY <2>1 DEF Inv, Sweeping
    <3>2. d = "converted_m5" /\ job.ok \subseteq Targets
      BY <1>2, <1>3, <2>1 DEF Jobs
    <3>3. /\ ToSet(Listed["m5"]) = job'.ok \cup job'.failed \cup ToSet(job'.todo)
          /\ job'.ok \cap job'.failed = {}
          /\ (job'.ok \cup job'.failed) \cap ToSet(job'.todo) = {}
      BY <1>3, <1>7, <3>1
    <3>4. /\ job'.missing \subseteq job'.failed
          /\ (job'.ok \cup job'.failed) \ job'.missing \subseteq vendor.core
      BY <1>2, <1>7, <3>1
    <3>5. ASSUME NEW t \in job'.ok PROVE json'["converted_m5"][t] \in {"whole", "unlisted"}
      <4>1. CASE t = src
        <5>1. src \notin job.ok
          BY <1>3, <3>1
        <5>2. whole
          BY <1>7, <4>1, <5>1
        <5> QED BY <1>9, <3>2, <4>1, <5>2
      <4>2. CASE t # src
        <5>1. t \in job.ok
          BY <1>7, <4>2
        <5> QED BY <1>9, <3>1, <3>2, <4>2, <5>1
      <4> QED BY <4>1, <4>2
    <3> QED BY <1>1, <1>3, <1>7, <3>1, <3>3, <3>4, <3>5, SamePlan DEF Sweeping
  <2> QED BY <1>7, <2>1 DEF Sweeping
<1> QED
  <2>1. job.failed \subseteq job'.failed
    BY <1>7
  <2> QED BY <1>1, <1>7, <1>8, <1>9, <1>10, <1>11, <2>1, JobMoves
----------------------------------------------------------------------------
(* The gate goes on to its next command.                                   *)
LEMMA GateGoesOn ==
  ASSUME Inv, UNCHANGED <<plan, vendor, json>>, gate.on, NEW at \in 1..9, gate.at = at, ~job.made,
         NEW prog, Exit(prog, 0), fresh \subseteq fresh', fresh' \subseteq Runners,
         trouble' \in BOOLEAN, trouble => trouble',
         trouble' => \E m \in Manifests : ~(ToSet(Listed[m]) \subseteq vendor.core),
         report' \in [Manifests \cup {"m5"} -> Reports], summary' \in [Runners -> Summaries],
         \A m \in Manifests : report'[m] = report[m] \/ Converted(m)',
         \A p \in FrozenRunners : summary'[p] = summary[p] \/ Classified(p)',
         Behind(at)'
  PROVE  Inv'
<1>1. /\ job' = NoJob /\ UNCHANGED last /\ gate' = [gate EXCEPT !.at = gate.at + 1]
      /\ gate'.on /\ gate'.at = gate.at + 1 /\ Typed
  BY ExitOnward DEF Inv
<1>2. /\ "regression" \in Programs /\ last = Idle
      /\ \A k \in 1..(gate.at - 1) : k \in 1..9 /\ Behind(k)
  BY InGate
<1>3. gate' \in [on : BOOLEAN, at : 1..(Len(GateCommands) + 1)]
  <2>1. gate \in [on : BOOLEAN, at : 1..(Len(GateCommands) + 1)]
    BY <1>1 DEF Typed
  <2>2. gate.at + 1 \in 1..(Len(GateCommands) + 1)
    BY CommandsAre
  <2> QED BY <1>1, <2>1, <2>2
<1>4. Typed'
  BY <1>1, <1>3, SamePlan, NoJobIs DEF Typed
<1>5. \A t \in Targets : ~trouble' /\ Fine(t) => Fine(t)'
  BY DEF Fine
<1>6. ASSUME NEW k \in 1..(gate.at - 1) PROVE Behind(k)'
  <2>1. k \in 1..9 /\ Behind(k)
    BY <1>2
  <2> QED BY <1>1, <1>2, <1>5, <2>1, BehindStays
<1>7. ASSUME NEW k \in 1..(gate'.at - 1) PROVE Behind(k)'
  <2>1. k \in 1..(gate.at - 1) \/ k = at
    BY <1>1
  <2> QED BY <1>6, <2>1
<1>8. Gating'
  BY <1>1, <1>2, <1>7, SamePlan DEF Gating
<1>9. Busy' /\ Ends'
  BY <1>1, <1>2, IdleTellsNothing DEF Busy, Idle
<1> QED BY <1>1, <1>4, <1>8, <1>9, AtRest DEF Inv

(* The report of a conversion, and its exit code.                          *)
LEMMA ConvertEndsKeeps ==
  ASSUME Inv, UNCHANGED plan, ConvertEnds
  PROVE  Inv'
<1> DEFINE out == job.out
           ret == IF job.failed = {} THEN 0 ELSE 1
<1>1. /\ job.prog = "convert" /\ job.todo = <<>>
      /\ report' = [report EXCEPT ![out] = Report] /\ Exit("convert", ret)
      /\ UNCHANGED <<vendor, json, summary, fresh, trouble>>
  BY DEF ConvertEnds
<1>2. /\ Typed /\ out \in Manifests /\ job # NoJob /\ ~job.made /\ job \in Jobs
      /\ json \in [{"converted", "converted_m5"} -> [Targets -> States]]
      /\ summary \in [Runners -> Summaries] /\ fresh \subseteq Runners /\ trouble \in BOOLEAN
  BY <1>1, NoJobIs DEF Inv, Typed, AtWork
<1>3. report \in [Manifests \cup {"m5"} -> Reports]
  BY <1>2 DEF Typed
<1>4. Report \in Reports
  BY <1>2 DEF Report, Reports, Jobs
<1>5. report' \in [Manifests \cup {"m5"} -> Reports] /\ report'[out] = Report
      /\ \A m \in Manifests : m # out => report'[m] = report[m]
  BY <1>1, <1>2, <1>3, <1>4
<1>6. CASE ~gate.on
  <2>1. "convert" \notin Telling
    BY DEF Telling, FrozenRunners
  <2> HIDE DEF ret, out
  <2> QED BY <1>1, <1>2, <1>5, <1>6, <2>1, EndsByHand
<1>7. CASE gate.on /\ job.failed # {}
  <2>1. UnderWay
    BY <1>2, <1>7, InGate
  <2>2. trouble' = TRUE
    BY <1>1, <1>2, <1>7, <2>1 DEF UnderWay
  <2> QED BY <1>1, <1>2, <1>5, <1>7, <2>2, GateFails
<1>8. CASE gate.on /\ job.failed = {}
  <2>1. UnderWay /\ gate.at \in 1..9
    BY <1>2, <1>8, InGate, CommandsAre DEF UnderWay
  <2>2. ToSet(job.todo) = {}
    BY <1>1 DEF ToSet
  <2>3. ToSet(Listed[out]) = job.ok /\ job.ok \subseteq vendor.core
    BY <1>8, <2>1, <2>2 DEF UnderWay
  <2>4. report'[out] = [ok |-> ToSet(Listed[out]), all_ok |-> TRUE]
    BY <1>5, <1>8, <2>3 DEF Report
  <2>5. \A t : Fine(t) => Fine(t)'
    BY <1>1, <1>2 DEF Fine
  <2>6. ~trouble' => \A t \in ToSet(Listed[out]) : Fine(t)'
    BY <1>1, <2>1, <2>3, <2>5 DEF UnderWay
  <2>7. PICK m \in Manifests : m = out
    BY <1>2
  <2>8. Converted(m)'
    BY <1>1, <2>3, <2>4, <2>6, <2>7, SamePlan DEF Converted
  <2>9. PICK k \in 1..9 : k = gate.at
    BY <2>1
  <2>10. Kind(k) = "convert" /\ Of(k) = m
    BY <2>1, <2>7, <2>9 DEF UnderWay, Kind, Of
  <2>11. Kind(k)' = Kind(k) /\ Of(k)' = Of(k) /\ "convert" \notin FrozenRunners'
    BY DEF Kind, Of, FrozenRunners
  <2>12. Behind(k)'
    BY <2>8, <2>10, <2>11 DEF Behind
  <2>13. trouble => \E n \in Manifests : ~(ToSet(Listed[n]) \subseteq vendor.core)
    BY <1>8 DEF Inv, Gating
  <2>14. \A n \in Manifests : report'[n] = report[n] \/ Converted(n)'
    BY <1>5, <2>7, <2>8
  <2>15. Exit("convert", 0)
    BY <1>1, <1>8
  <2> HIDE DEF ret, out
  <2> QED BY <1>1, <1>2, <1>5, <1>8, <2>9, <2>12, <2>13, <2>14, <2>15, GateGoesOn
<1> QED BY <1>6, <1>7, <1>8
(* A sweep that tells 0 has examined every target.                         *)
LEMMA ConvertM5EndsKeeps ==
  ASSUME Inv, UNCHANGED plan, ConvertM5Ends
  PROVE  Inv'
<1> DEFINE ret == IF Drift THEN 1 ELSE 0
<1>1. /\ job.prog = "convert_m5" /\ job.todo = <<>>
      /\ report' = [report EXCEPT !["m5"] = Report] /\ Exit("convert_m5", ret)
      /\ UNCHANGED <<vendor, json, summary, fresh, trouble>>
  BY DEF ConvertM5Ends
<1>2. /\ Typed /\ ~gate.on /\ job \in Jobs /\ report \in [Manifests \cup {"m5"} -> Reports]
  BY <1>1, OutsideGate DEF Inv, Typed
<1>3. Report \in Reports /\ Report.ok = job.ok
  BY <1>2 DEF Report, Reports, Jobs
<1>4. report' \in [Manifests \cup {"m5"} -> Reports] /\ report'["m5"].ok = job.ok
  BY <1>1, <1>2, <1>3
<1>5. job' = NoJob /\ last' = [prog |-> "convert_m5", rc |-> ret] /\ gate' = gate
  BY <1>1, <1>2, ExitByHand
<1>6. Typed'
  BY <1>1, <1>2, <1>4, <1>5, SamePlan, NoJobIs DEF Typed
<1>7. /\ ToSet(Listed["m5"]) = job.ok \cup job.failed /\ job.ok \cap job.failed = {}
      /\ (job.ok \cup job.failed) \ job.missing \subseteq vendor.core
      /\ \A t \in job.ok : json["converted_m5"][t] \in {"whole", "unlisted"}
  <2>1. ToSet(job.todo) = {}
    BY <1>1 DEF ToSet
  <2> QED BY <1>1, <2>1 DEF Inv, Sweeping
<1>8. ASSUME ~Drift
      PROVE  /\ ToSet(Listed["m5"]) \subseteq vendor.core
             /\ job.ok = ToSet(Listed["m5"]) \ expected_convert_fail
             /\ \A t \in job.ok : json["converted_m5"][t] = "whole"
  BY <1>7, <1>8 DEF Drift, Unlisted
<1>9. SweepExaminesAll'
  <2>1. CASE Drift
    <3>1. last'.rc = 1
      BY <1>5, <2>1
    <3> QED BY <3>1 DEF SweepExaminesAll, Ended
  <2>2. CASE ~Drift
    BY <1>1, <1>4, <1>8, <2>2, SamePlan DEF SweepExaminesAll
  <2> QED BY <2>1, <2>2
<1>10. Ends'
  <2>1. last'.prog = "convert_m5"
    BY <1>5
  <2> QED BY <1>9, <2>1 DEF Ends, NoPartialInventory, RegressionIsFresh, RerunRecovers, Ended,
                            FrozenRunners
<1> QED BY <1>2, <1>5, <1>6, <1>10, AtRest DEF Inv, Gating

----------------------------------------------------------------------------
(* Starting the gate keeps the invariant: nothing lies behind it yet. *)
LEMMA RegressionKeeps ==
  ASSUME Inv, UNCHANGED plan, Regression
  PROVE  Inv'
<1>1. /\ job = NoJob /\ ~gate.on /\ "regression" \in Programs /\ gate' = [on |-> TRUE, at |-> 1]
      /\ fresh' = {} /\ last' = Idle /\ UNCHANGED <<vendor, json, report, summary, job>>
      /\ trouble' = \E m \in Manifests : ~(ToSet(Listed[m]) \subseteq vendor.core)
  BY DEF Regression, files, Idle
<1>2. gate'.on /\ gate'.at = 1 /\ gate' \in [on : BOOLEAN, at : 1..(Len(GateCommands) + 1)]
  BY <1>1, CommandsAre
<1>3. Typed'
  BY <1>1, <1>2, SamePlan DEF Inv, Typed
<1>4. \A k \in 1..(gate'.at - 1) : Behind(k)'
  BY <1>2
<1>5. Gating'
  BY <1>1, <1>4, SamePlan DEF Gating
<1> QED BY <1>1, <1>3, <1>5, AtRest, IdleTellsNothing DEF Inv, Busy

(* M4's own two commands, which may fail.                                  *)
LEMMA M4Keeps ==
  ASSUME Inv, UNCHANGED plan, NEW step, NEW ret \in {0, 1}, M4(step, ret)
  PROVE  Inv'
<1>1. /\ gate.on /\ Exit("m4", ret) /\ Troubled(ret # 0) /\ Starts("m4", <<step>>)
      /\ UNCHANGED <<vendor, json, report, summary, fresh>>
  BY DEF M4, files
<1>2. /\ job = NoJob /\ ~job.made /\ job.failed = {} /\ gate.at <= 9
      /\ GateCommands[gate.at] = <<"m4", <<step>>>>
  BY <1>1, CommandsAre, NoJobIs DEF Starts
<1>3. PICK at \in 1..9 : at = gate.at
  BY <1>1, <1>2, InGate
<1>4. /\ json \in [{"converted", "converted_m5"} -> [Targets -> States]] /\ trouble \in BOOLEAN
      /\ report \in [Manifests \cup {"m5"} -> Reports] /\ summary \in [Runners -> Summaries]
      /\ fresh \subseteq Runners
  BY DEF Inv, Typed
<1>5. CASE ret = 0
  <2>1. trouble' = trouble
    BY <1>1, <1>4, <1>5 DEF Troubled
  <2>2. Kind(at)' = "m4"
    BY <1>2, <1>3 DEF Kind
  <2>3. Behind(at)'
    BY <2>2 DEF Behind, FrozenRunners
  <2>4. trouble => \E m \in Manifests : ~(ToSet(Listed[m]) \subseteq vendor.core)
    BY <1>1, <1>2 DEF Inv, Gating
  <2>5. Exit("m4", 0)
    BY <1>1, <1>5
  <2> QED BY <1>1, <1>2, <1>3, <1>4, <2>1, <2>3, <2>4, <2>5, GateGoesOn
<1>6. CASE ret # 0
  <2>1. trouble' = TRUE
    BY <1>1, <1>6 DEF Troubled
  <2> QED BY <1>1, <1>4, <1>6, <2>1, GateFails
<1> QED BY <1>5, <1>6

(* The answer of the gate: every runner has written its summary in this    *)
(* run, and it is the locked one unless something failed.                  *)
LEMMA VerdictKeeps ==
  ASSUME Inv, UNCHANGED plan, NEW additive \in BOOLEAN, Verdict(additive)
  PROVE  Inv'
<1> DEFINE ret == IF additive /\ \A p \in FrozenRunners : Locked(p) THEN 0 ELSE 1
<1>1. /\ gate.on /\ gate.at > Len(GateCommands) /\ job = NoJob
      /\ last' = [prog |-> "regression", rc |-> ret]
      /\ gate' = GateOff /\ Troubled(~additive)
      /\ UNCHANGED <<vendor, json, report, summary, job, fresh>>
  BY DEF Verdict, files
<1>2. /\ Manifests = {"m0", "m2", "m3"} /\ Typed
      /\ \A k \in 1..9 : Behind(k)
  <2>1. gate.at = 10
    BY <1>1, InGate, CommandsAre
  <2> QED BY <1>1, <2>1, InGate DEF Inv
<1>3. \A m \in Manifests : Converted(m)
  BY <1>2, KindsAre DEF Behind
<1>4. \A p \in FrozenRunners : Classified(p)
  BY <1>2, KindsAre DEF Behind, FrozenRunners
<1>5. ~trouble
  BY <1>1, <1>3, NoJobIs DEF Inv, Gating, Converted
<1>6. (trouble' <=> ~additive) /\ trouble' \in BOOLEAN
  BY <1>1, <1>5 DEF Troubled
<1>7. Typed'
  BY <1>1, <1>2, <1>6, SamePlan, GateOffIs DEF Typed
<1>8. ~gate'.on
  BY <1>1, GateOffIs
<1>9. RegressionIsFresh'
  <2>1. CASE ret = 0
    <3>1. FrozenRunners \subseteq fresh' /\ ~trouble'
      BY <1>1, <1>4, <1>6, <2>1 DEF Classified
    <3> QED BY <3>1 DEF RegressionIsFresh, FrozenRunners
  <2>2. CASE ret # 0
    <3>1. last'.rc # 0
      BY <1>1, <2>2
    <3> QED BY <3>1 DEF RegressionIsFresh, Ended
  <2> QED BY <2>1, <2>2
<1>10. RerunRecovers'
  <2>1. CASE ret = 1
    <3>1. ~additive
      BY <1>4, <1>5, <2>1 DEF Classified
    <3> QED BY <1>6, <3>1 DEF RerunRecovers
  <2>2. CASE ret # 1
    <3>1. last'.rc # 1
      BY <1>1, <2>2
    <3> QED BY <3>1 DEF RerunRecovers, Ended
  <2> QED BY <2>1, <2>2
<1>11. NoPartialInventory' /\ SweepExaminesAll'
  <2>1. last'.prog = "regression"
    BY <1>1
  <2> QED BY <2>1 DEF NoPartialInventory, SweepExaminesAll, Ended, FrozenRunners
<1> QED BY <1>1, <1>7, <1>8, <1>9, <1>10, <1>11, AtRest DEF Inv, Gating, Ends

(* An interruption.                                                        *)
LEMMA KilledKeeps ==
  ASSUME Inv, UNCHANGED plan, Killed
  PROVE  Inv'
<1>1. /\ job' = NoJob /\ gate' = GateOff /\ last' = [prog |-> "killed", rc |-> 1]
      /\ UNCHANGED <<vendor, report, summary, fresh, trouble>>
      /\ \/ UNCHANGED json
         \/ job.made /\ json' = [json EXCEPT ![Dir(job.prog)][src] = "torn"]
  BY DEF Killed
<1>2. Typed /\ json \in [{"converted", "converted_m5"} -> [Targets -> States]]
  BY DEF Inv, Typed
<1>3. json' \in [{"converted", "converted_m5"} -> [Targets -> States]]
  <2>1. ASSUME job.made PROVE src \in Targets /\ Dir(job.prog) \in {"converted", "converted_m5"}
    BY <2>1, AtHand DEF Inv, AtWork
  <2> QED BY <1>1, <1>2, <2>1 DEF States
<1>4. Typed'
  BY <1>1, <1>2, <1>3, SamePlan, NoJobIs, GateOffIs DEF Typed
<1>5. ~gate'.on
  BY <1>1, GateOffIs
<1>6. Ends'
  BY <1>1, TellsNothing DEF Telling, FrozenRunners
<1> QED BY <1>1, <1>4, <1>5, <1>6, AtRest DEF Inv, Gating
----------------------------------------------------------------------------
\* The conditions of Run.
Bad(prog) == Refuses(prog) \/ \E t \in paths(prog) : ~IsWhole(prog, t)
Writes(prog) == ~Bad(prog) /\ (prog = "run_skeleton" \/ ~Incomplete(prog))
Rc(prog, fail) ==
  IF Bad(prog) \/ Incomplete(prog) \/ (fail /\ prog \in {"run_m1", "run_m2", "run_m3"})
  THEN 1 ELSE 0

(* What a runner does.                                                     *)
LEMMA RunDoes ==
  ASSUME Inv, UNCHANGED plan, NEW prog \in Runners, NEW fail \in BOOLEAN, Run(prog, fail)
  PROVE  /\ Exit(prog, Rc(prog, fail)) /\ UNCHANGED <<vendor, json, report>> /\ Troubled(fail)
         /\ job = NoJob /\ manifest(prog) \in Manifests \cup {"m5"}
         /\ (~gate.on => prog \in Programs)
         /\ (gate.on => gate.at \in 1..9 /\ GateCommands[gate.at] = <<prog, <<>>>>)
         /\ paths(prog) \subseteq Targets
         /\ summary' = (IF Writes(prog) THEN [summary EXCEPT ![prog] = [files |-> paths(prog), fail |-> fail]]
                        ELSE summary)
         /\ summary' \in [Runners -> Summaries]
         /\ fresh' = (IF Writes(prog) /\ gate.on THEN fresh \cup {prog} ELSE fresh)
         /\ fresh' \subseteq Runners
         /\ (Rc(prog, fail) = 0 => (Writes(prog) /\ want(prog) \subseteq paths(prog)) \/ prog = "run_m5")
         /\ (fail /\ prog \in FrozenRunners => Rc(prog, fail) = 1)
<1>1. /\ Exit(prog, Rc(prog, fail)) /\ UNCHANGED <<vendor, json, report>> /\ Troubled(fail)
      /\ fresh' = (IF Writes(prog) /\ gate.on THEN fresh \cup {prog} ELSE fresh)
      /\ summary' = (IF Writes(prog) THEN [summary EXCEPT ![prog] = [files |-> paths(prog), fail |-> fail]]
                     ELSE summary)
      /\ Starts(prog, <<>>) /\ (fail => prog # "run_skeleton")
  BY DEF Run, Bad, Writes, Rc
<1>2. /\ job = NoJob /\ (~gate.on => prog \in Programs)
      /\ (gate.on => gate.at \in 1..9 /\ GateCommands[gate.at] = <<prog, <<>>>>)
  BY <1>1, InGate, CommandsAre DEF Starts
<1>3. manifest(prog) \in Manifests \cup {"m5"}
  <2>1. ASSUME gate.on PROVE prog # "run_m5" /\ "regression" \in Programs
    <3>1. PICK k \in 1..9 : GateCommands[k] = <<prog, <<>>>>
      BY <1>2, <2>1
    <3>2. k \in {1, 2, 3, 4, 5, 6, 7, 8, 9}
      OBVIOUS
    <3> QED BY <2>1, <3>1, <3>2, CommandsAre, InGate
  <2> QED BY <1>2, <2>1, PlanFacts DEF Inv, Typed
<1>4. paths(prog) \subseteq Targets
  <2>1. want(prog) \subseteq Targets
    BY <1>3, PlanFacts DEF want, Inv, Typed
  <2>2. ASSUME HasReport(prog) PROVE report[manifest(prog)].ok \subseteq Targets
    BY <1>3, <2>2 DEF HasReport, Inv, Typed, Reports
  <2> QED BY <2>1, <2>2 DEF paths
<1>5. summary \in [Runners -> Summaries] /\ fresh \subseteq Runners
  BY DEF Inv, Typed
<1>6. [files |-> paths(prog), fail |-> fail] \in Summaries
  BY <1>4 DEF Summaries
<1>7. summary' \in [Runners -> Summaries] /\ fresh' \subseteq Runners
  BY <1>1, <1>5, <1>6
<1>8. Rc(prog, fail) = 0 => (Writes(prog) /\ want(prog) \subseteq paths(prog)) \/ prog = "run_m5"
  BY DEF Rc, Writes, Incomplete
<1>9. fail /\ prog \in FrozenRunners => Rc(prog, fail) = 1
  BY <1>1 DEF Rc, FrozenRunners
<1> QED BY <1>1, <1>2, <1>3, <1>4, <1>7, <1>8, <1>9

(* A runner of the gate finds what its conversions left, all of it, and    *)
(* whole, so that nothing but a failure of its own makes it fail.          *)
LEMMA GateRunnerFinds ==
  ASSUME Inv, gate.on, job = NoJob, NEW prog \in FrozenRunners, gate.at \in 1..9,
         GateCommands[gate.at] = <<prog, <<>>>>, ~trouble
  PROVE  paths(prog) = want(prog) /\ ~Bad(prog) /\ ~Incomplete(prog)
<1>1. PICK at \in 1..9 : at = gate.at
  OBVIOUS
<1>2. at \in {5, 6, 7, 8} /\ prog # "run_m5"
  <2>1. at \in {1, 2, 3, 4, 5, 6, 7, 8, 9}
    BY <1>1
  <2>2. GateCommands[at] = <<prog, <<>>>>
    BY <1>1
  <2> QED BY <2>1, <2>2, CommandsAre DEF FrozenRunners
<1>3. /\ Manifests = {"m0", "m2", "m3"} /\ Typed
      /\ Behind(1) /\ Behind(2) /\ Behind(3)
  BY <1>1, <1>2, InGate DEF Inv
<1>4. \A m \in Manifests : Converted(m)
  BY <1>3, KindsAre DEF Behind
<1>5. manifest(prog) \in Manifests
      /\ (prog \in {"run_skeleton", "run_m1"} => manifest(prog) = "m0")
  BY <1>3 DEF manifest, FrozenRunners
<1>6. /\ report[manifest(prog)].ok = want(prog) /\ report[manifest(prog)].all_ok
      /\ \A t \in want(prog) : Fine(t)
  <2>1. PICK m \in Manifests : m = manifest(prog)
    BY <1>5
  <2>2. report[m] = [ok |-> ToSet(Listed[m]), all_ok |-> TRUE]
        /\ \A t \in ToSet(Listed[m]) : Fine(t)
    BY <1>4 DEF Converted
  <2>3. report[m].ok = ToSet(Listed[m]) /\ report[m].all_ok
    BY <2>2
  <2> QED BY <2>1, <2>2, <2>3 DEF want
<1>7. paths(prog) = want(prog)
  BY <1>6 DEF paths
<1>8. Dir(prog) = "converted"
  BY <1>2 DEF Dir, FrozenRunners
<1>9. \A t \in want(prog) : json["converted"][t] = "whole"
  BY <1>6, NoJobIs DEF Fine
<1>10. \A t \in paths(prog) : Exists(prog, t) /\ IsWhole(prog, t)
  BY <1>7, <1>8, <1>9 DEF Exists, IsWhole
<1>11. prog \in {"run_skeleton", "run_m1"} => paths(prog) # {} /\ report["m0"].all_ok
  BY <1>3, <1>5, <1>6, <1>7, PlanFacts DEF want, Typed
<1>12. ~Refuses(prog)
  BY <1>2, <1>10, <1>11 DEF Refuses, FrozenRunners
<1> QED BY <1>7, <1>10, <1>12 DEF Bad, Incomplete

(* A runner that reads the whole report and writes its summary keeps the   *)
(* invariant.                                                              *)
LEMMA RunKeeps ==
  ASSUME Inv, UNCHANGED plan, NEW prog \in Runners, NEW fail \in BOOLEAN, Run(prog, fail)
  PROVE  Inv'
<1> DEFINE ret == Rc(prog, fail)
<1>1. /\ Exit(prog, ret) /\ UNCHANGED <<vendor, json, report>> /\ Troubled(fail)
      /\ job = NoJob /\ manifest(prog) \in Manifests \cup {"m5"}
      /\ (gate.on => gate.at \in 1..9 /\ GateCommands[gate.at] = <<prog, <<>>>>)
      /\ paths(prog) \subseteq Targets
      /\ summary' = (IF Writes(prog) THEN [summary EXCEPT ![prog] = [files |-> paths(prog), fail |-> fail]]
                     ELSE summary)
      /\ summary' \in [Runners -> Summaries]
      /\ fresh' = (IF Writes(prog) /\ gate.on THEN fresh \cup {prog} ELSE fresh)
      /\ fresh' \subseteq Runners
      /\ (ret = 0 => (Writes(prog) /\ want(prog) \subseteq paths(prog)) \/ prog = "run_m5")
      /\ (fail /\ prog \in FrozenRunners => ret = 1)
  BY RunDoes
<1>2. /\ Typed /\ summary \in [Runners -> Summaries] /\ ~job.made /\ job.failed = {}
      /\ trouble' \in BOOLEAN /\ (trouble => trouble') /\ ret \in {0, 1}
      /\ (~gate.on => trouble' = trouble) /\ (gate.on => (trouble' <=> trouble \/ fail))
  BY <1>1, NoJobIs DEF Inv, Typed, Troubled, Rc
<1>3. /\ json' \in [{"converted", "converted_m5"} -> [Targets -> States]]
      /\ report' \in [Manifests \cup {"m5"} -> Reports]
  BY <1>1, <1>2 DEF Typed
<1>4. ASSUME Writes(prog) PROVE summary'[prog] = [files |-> paths(prog), fail |-> fail]
  BY <1>1, <1>2, <1>4
<1>5. /\ want(prog)' = want(prog)
      /\ \A t : IsWhole(prog, t)' <=> IsWhole(prog, t)
  BY <1>1, SamePlan DEF want, IsWhole, Dir, manifest
<1> HIDE DEF ret
<1>6. CASE ~gate.on
  <2>1. job' = NoJob /\ last' = [prog |-> prog, rc |-> ret] /\ gate' = gate
    BY <1>1, <1>6, ExitByHand
  <2>2. Typed'
    BY <1>1, <1>2, <1>3, <2>1, SamePlan, NoJobIs DEF Typed
  <2>3. CASE prog = "run_m5"
    <3>1. Ends'
      BY <2>1, <2>3, TellsNothing DEF Telling, FrozenRunners
    <3> QED BY <1>6, <2>1, <2>2, <3>1, AtRest DEF Inv, Gating
  <2>4. CASE prog # "run_m5"
    <3>1. last'.prog = prog /\ last'.rc = ret /\ prog \in FrozenRunners
          /\ prog # "convert_m5" /\ prog # "regression"
      BY <2>1, <2>4 DEF Runners, FrozenRunners
    <3>2. ASSUME ret = 0
          PROVE  /\ want(prog)' \subseteq summary'[prog].files
                 /\ \A t \in summary'[prog].files : IsWhole(prog, t)'
      <4>1. Writes(prog) /\ want(prog) \subseteq paths(prog)
        BY <1>1, <2>4, <3>2
      <4>2. summary'[prog].files = paths(prog)
        BY <1>4, <4>1
      <4>3. \A t \in paths(prog) : IsWhole(prog, t)
        BY <4>1 DEF Writes, Bad
      <4> QED BY <1>5, <4>1, <4>2, <4>3
    <3>3. ASSUME NEW q \in FrozenRunners, Ended(q, 0)' PROVE q = prog /\ ret = 0
      BY <2>1, <3>3 DEF Ended
    <3>4. NoPartialInventory'
      BY <3>2, <3>3 DEF NoPartialInventory, FrozenRunners
    <3>5. SweepExaminesAll' /\ RegressionIsFresh' /\ RerunRecovers'
      BY <3>1 DEF SweepExaminesAll, RegressionIsFresh, RerunRecovers, Ended
    <3> QED BY <1>6, <2>1, <2>2, <3>4, <3>5, AtRest DEF Inv, Gating, Ends
  <2> QED BY <2>3, <2>4
<1>7. CASE gate.on
  <2>1. PICK at \in 1..9 : at = gate.at
    BY <1>1, <1>7
  <2>2. Kind(at) = prog /\ prog \in FrozenRunners /\ prog # "run_m5"
    <3>1. at \in {1, 2, 3, 4, 5, 6, 7, 8, 9} /\ GateCommands[at] = <<prog, <<>>>>
      BY <1>1, <1>7, <2>1
    <3> QED BY <3>1, CommandsAre DEF Kind, FrozenRunners
  <2>3. ~trouble => /\ paths(prog) = want(prog) /\ ~Bad(prog) /\ ~Incomplete(prog)
    BY <1>1, <1>7, <2>2, GateRunnerFinds
  <2>4. CASE ret # 0
    <3>1. trouble
            \/ fail
      BY <1>2, <2>3, <2>4 DEF ret, Rc
    <3>2. trouble' = TRUE
      BY <1>2, <1>7, <3>1
    <3> QED BY <1>1, <1>2, <1>3, <1>7, <2>4, <3>2, GateFails
  <2>5. CASE ret = 0
    <3>1. Writes(prog) /\ ~fail
      BY <1>1, <1>2, <2>2, <2>5
    <3>2. trouble => \E m \in Manifests : ~(ToSet(Listed[m]) \subseteq vendor.core)
      BY <1>2, <1>7 DEF Inv, Gating
    <3>3. summary'[prog] = [files |-> paths(prog), fail |-> FALSE] /\ prog \in fresh'
          /\ (trouble' <=> trouble)
      BY <1>1, <1>2, <1>4, <1>7, <3>1
    <3>4. Classified(prog)'
      BY <1>5, <2>3, <3>3 DEF Classified, Locked
    <3>5. Behind(at)'
      <4>1. Kind(at)' = prog /\ FrozenRunners' = FrozenRunners /\ prog # "convert"
        BY <2>2 DEF Kind, FrozenRunners
      <4> QED BY <3>4, <4>1 DEF Behind
    <3>6. \A p \in FrozenRunners : summary'[p] = summary[p] \/ Classified(p)'
      <4>1. \A p \in FrozenRunners : p \in Runners
        BY DEF Runners
      <4>2. \A p \in Runners : p # prog => summary'[p] = summary[p]
        BY <1>1, <1>2
      <4> QED BY <3>4, <4>1, <4>2
    <3>7. fresh \subseteq fresh' /\ Exit(prog, 0)
      BY <1>1, <2>5
    <3> QED BY <1>1, <1>2, <1>3, <1>7, <2>1, <3>2, <3>3, <3>5, <3>6, <3>7, GateGoesOn
  <2> QED BY <2>4, <2>5
<1> QED BY <1>6, <1>7
----------------------------------------------------------------------------
(* A fresh checkout satisfies the invariant. *)
LEMMA Initially ==
  Init => Inv
<1> SUFFICES ASSUME Init PROVE Inv
  OBVIOUS
<1>1. /\ plan \in Plans /\ vendor = [core |-> {}, marker |-> FALSE]
      /\ json = [d \in {"converted", "converted_m5"} |-> [t \in Targets |-> "none"]]
      /\ report = [m \in Manifests \cup {"m5"} |-> NoFile]
      /\ summary = [p \in Runners |-> NoFile]
      /\ job = NoJob /\ gate = GateOff /\ last = Idle /\ fresh = {} /\ trouble = FALSE
  BY DEF Init, Idle
<1>2. Typed
  BY <1>1, NoJobIs, GateOffIs DEF Typed, States, Reports, Summaries
<1>3. ~gate.on
  BY <1>1, GateOffIs
<1>4. Ends
  BY <1>1 DEF Ends, NoPartialInventory, SweepExaminesAll, RegressionIsFresh, RerunRecovers,
              Ended, Idle, FrozenRunners
<1> QED BY <1>1, <1>2, <1>3, <1>4, NoJobIs DEF Inv, AtWork, Busy, Gating, Sweeping

(* Standing still keeps it. *)
LEMMA Stutter ==
  ASSUME Inv, UNCHANGED vars
  PROVE  Inv'
<1>1. UNCHANGED <<plan, vendor, json, report, summary, job, gate, last, fresh, trouble>>
  BY DEF vars
<1>2. Typed'
  BY <1>1, SamePlan DEF Inv, Typed
<1>3. AtWork' /\ Busy' /\ Sweeping'
  BY <1>1, SamePlan DEF Inv, AtWork, Busy, Sweeping, Converting, src, Dir
<1>4. Gating'
  <2>1. \A t : Fine(t)' <=> Fine(t)
    BY <1>1 DEF Fine, src
  <2>2. \A m : Converted(m)' <=> Converted(m)
    BY <1>1, <2>1, SamePlan DEF Converted
  <2>3. \A p : Classified(p)' <=> Classified(p)
    BY <1>1, SamePlan DEF Classified, Locked, want, manifest
  <2>4. \A k : Behind(k)' <=> Behind(k)
    BY <2>2, <2>3 DEF Behind, Kind, Of, GateCommands, FrozenRunners
  <2>5. UnderWay' <=> UnderWay
    BY <1>1, <2>1, SamePlan DEF UnderWay, GateCommands
  <2> QED BY <1>1, <2>4, <2>5, SamePlan DEF Inv, Gating
<1>5. Ends'
  BY <1>1, SamePlan DEF Inv, Ends, NoPartialInventory, SweepExaminesAll, RegressionIsFresh,
       RerunRecovers, Ended, want, manifest, IsWhole, Dir, FrozenRunners
<1> QED BY <1>2, <1>3, <1>4, <1>5 DEF Inv

(* The invariant: for any checkout, whatever is run there and however it   *)
(* is interrupted.                                                         *)
THEOREM Invariance == Spec => []Inv
<1>1. ASSUME Inv, Next PROVE Inv'
  <2>1. UNCHANGED plan
    BY <1>1 DEF Next
  <2>2. CASE \E skip \in BOOLEAN : Fetch(skip)
    BY <1>1, <2>1, <2>2, FetchKeeps
  <2>3. CASE Rmtree
    BY <1>1, <2>1, <2>3, RmtreeKeeps
  <2>4. CASE Move
    BY <1>1, <2>1, <2>4, MoveKeeps
  <2>5. CASE \E m \in Manifests : Convert(m, m) \/ Convert(m, "m0")
    <3>1. "m0" \in Manifests
      BY <1>1, PlanFacts DEF Inv, Typed
    <3> QED BY <1>1, <2>1, <2>5, <3>1, ConvertKeeps
  <2>6. CASE \E freeze \in BOOLEAN : ConvertM5(freeze)
    BY <1>1, <2>1, <2>6, ConvertM5Keeps
  <2>7. CASE MissingSource
    BY <1>1, <2>1, <2>7, MissingSourceKeeps
  <2>8. CASE MakeDir
    BY <1>1, <2>1, <2>8, MakeDirKeeps
  <2>9. CASE ConvertEnds
    BY <1>1, <2>1, <2>9, ConvertEndsKeeps
  <2>10. CASE ConvertM5Ends
    BY <1>1, <2>1, <2>10, ConvertM5EndsKeeps
  <2>11. CASE \E left \in {"whole", "unlisted", "empty", "torn"} : Wast2json(left)
    BY <1>1, <2>1, <2>11, Wast2jsonKeeps
  <2>12. CASE \E prog \in Runners, fail \in BOOLEAN : Run(prog, fail)
    BY <1>1, <2>1, <2>12, RunKeeps
  <2>13. CASE Regression
    BY <1>1, <2>1, <2>13, RegressionKeeps
  <2>14. CASE Killed
    BY <1>1, <2>1, <2>14, KilledKeeps
  <2>15. CASE \E ret \in {0, 1} : M4("enumerate", ret) \/ M4("run", ret)
    BY <1>1, <2>1, <2>15, M4Keeps
  <2>16. CASE \E additive \in BOOLEAN : Verdict(additive)
    BY <1>1, <2>1, <2>16, VerdictKeeps
  <2> QED BY <1>1, <2>2, <2>3, <2>4, <2>5, <2>6, <2>7, <2>8, <2>9, <2>10, <2>11, <2>12, <2>13,
             <2>14, <2>15, <2>16 DEF Next, Steps
<1> QED BY <1>1, Initially, Stutter, PTL DEF Spec

(* A frozen runner that succeeds has classified every target of its        *)
(* manifest from a whole file, whatever was left before.                   *)
THEOREM NoPartialInventoryHolds == Spec => []NoPartialInventory
BY Invariance, PTL DEF Inv, Ends

(* convert_m5.py succeeds only if every target was really examined.        *)
THEOREM SweepExaminesAllHolds == Spec => []SweepExaminesAll
BY Invariance, PTL DEF Inv, Ends

(* The invariant gives the types. *)
LEMMA TypesHold ==
  Inv => TypeOK
<1> SUFFICES ASSUME Inv PROVE TypeOK
  OBVIOUS
<1>1. Typed /\ AtWork
  BY DEF Inv
<1>2. vendor \in [core : SUBSET Targets, marker : BOOLEAN]
      /\ \A d \in DOMAIN json : json[d] \in [Targets -> {"none", "empty", "torn", "whole", "unlisted"}]
  BY <1>1 DEF Typed, States
<1>3. \A m \in DOMAIN report : report[m] = NoFile \/ report[m].ok \subseteq Targets
  BY <1>1 DEF Typed, Reports
<1>4. \A p \in DOMAIN summary : summary[p] = NoFile \/ summary[p].files \subseteq Targets
  BY <1>1 DEF Typed, Summaries
<1>5. gate.on \in BOOLEAN /\ gate.at \in 1..(Len(GateCommands) + 1) /\ fresh \subseteq Runners
  BY <1>1 DEF Typed
<1>6. job.made => json[Dir(job.prog)][src] = "empty"
  BY <1>1 DEF AtWork
<1>7. ASSUME gate.on, job # NoJob PROVE GateCommands[gate.at][1] = job.prog
  BY <1>7 DEF Inv, Gating, UnderWay
<1> QED BY <1>2, <1>3, <1>4, <1>5, <1>6, <1>7 DEF TypeOK

(* The regression gate: its answer is about this run, both ways.           *)
THEOREM GateRunsHolds == Spec => []GateRuns
BY Invariance, TypesHold, PTL DEF Inv, Ends, GateRuns
=============================================================================
