------------------------------ MODULE RunnerM4 ------------------------------
(***************************************************************************)
(* scripts/run_m4.py over a curated scope: load_scope, evaluate_record for *)
(* each record in order, and the gate.  The records are drawn from all     *)
(* those a curation might hold; what the validator says of a record's      *)
(* module is an input.                                                     *)
(***************************************************************************)
EXTENDS Naturals, Sequences, FiniteSets, SequencesExt

CONSTANTS EXPECTED_INCLUDED, EXPECTED_UNSUPPORTED,
          EXPECTED_CATEGORIES,
          Categories   \* what a record may give as its category

ASSUME RunnerM4Assumption ==
  /\ EXPECTED_INCLUDED \in Nat /\ EXPECTED_UNSUPPORTED \in Nat
  /\ EXPECTED_CATEGORIES \subseteq Categories /\ "not asked" \notin EXPECTED_CATEGORIES

VARIABLES
  scope,    \* the records, whether the totals at the head agree, and whether
            \* the file lists policy violations
  answers,  \* history: what the validator said of each record, "not asked"
  rows,     \* the statuses so far
  exit      \* the exit code; "loading" and "running" before

curation == <<scope, answers, rows, exit>>

----------------------------------------------------------------------------
EXPECTED_TOTAL == EXPECTED_INCLUDED + EXPECTED_UNSUPPORTED

(* "fits" stands for the conditions of an included record other than its   *)
(* category: a binary assert_invalid the decoder accepts, to be matched by *)
(* category, with no deferred surface.                                     *)
Records ==
  [decision : {"INCLUDED"}, fits : BOOLEAN, category : Categories, reason : {FALSE}]
  \cup [decision : {"UNSUPPORTED"}, fits : {FALSE}, category : Categories, reason : BOOLEAN]
  \cup [decision : {"POLICY_VIOLATION"}, fits : {FALSE}, category : Categories, reason : {FALSE}]

Decided(records, d) == Cardinality({i \in DOMAIN records : records[i].decision = d})

(* _assert_included_record, and the loop around it.                        *)
Acceptable(r) ==
  \/ r.decision = "INCLUDED" /\ r.fits /\ r.category \in EXPECTED_CATEGORIES
  \/ r.decision = "UNSUPPORTED" /\ r.reason

\* Mutant: the totals at the head say that nothing violates the policy.
load_scope_totals_only ==
  /\ exit = "loading"
  /\ exit' = IF /\ scope.totals_agree
              /\ Len(scope.records) = EXPECTED_TOTAL
              /\ Decided(scope.records, "INCLUDED") = EXPECTED_INCLUDED
              /\ Decided(scope.records, "UNSUPPORTED") = EXPECTED_UNSUPPORTED
              /\ \A r \in ToSet(scope.records) : Acceptable(r)
           THEN "running" ELSE "refused"
  /\ UNCHANGED <<scope, answers, rows>>

load_scope ==
  /\ exit = "loading"
  /\ exit' = IF /\ scope.totals_agree /\ ~scope.violations
              /\ Len(scope.records) = EXPECTED_TOTAL
              /\ Decided(scope.records, "INCLUDED") = EXPECTED_INCLUDED
              /\ Decided(scope.records, "UNSUPPORTED") = EXPECTED_UNSUPPORTED
              /\ \A r \in ToSet(scope.records) : Acceptable(r)
           THEN "running" ELSE "refused"
  /\ UNCHANGED <<scope, answers, rows>>

\* What validate_bytes may do: reject in a category, or something else; the
\* artifact may also be gone.
Answers == EXPECTED_CATEGORIES \cup {"accepted", "Unsupported", "DecodeError", "missing", "IndexError"}

\* Mutant: any rejection will do.
Status_any(r, answer) == IF answer \in EXPECTED_CATEGORIES THEN "PASS" ELSE "FAIL"

Status(r, answer) == IF answer = r.category THEN "PASS" ELSE "FAIL"

(* An unsupported record is never decoded; an exception that is not one of *)
(* the three caught ends the run.                                          *)
evaluate_record(answer) ==
  /\ exit = "running" /\ Len(rows) < Len(scope.records)
  /\ LET r == scope.records[Len(rows) + 1]
     IN  IF r.decision = "UNSUPPORTED"
         THEN answers' = Append(answers, "not asked") /\ rows' = Append(rows, "UNSUPPORTED") /\ UNCHANGED exit
         ELSE IF answer = "IndexError" THEN exit' = "raised" /\ UNCHANGED <<answers, rows>>
         ELSE answers' = Append(answers, answer) /\ rows' = Append(rows, Status(r, answer)) /\ UNCHANGED exit
  /\ UNCHANGED scope

Count(s) == Cardinality({i \in DOMAIN rows : rows[i] = s})

(* run_scope's check of the sum, then main's gate.                         *)
CurationGate ==
  /\ exit = "running" /\ Len(rows) = Len(scope.records)
  /\ exit' = IF Len(rows) # EXPECTED_TOTAL THEN "raised"
           ELSE IF Count("FAIL") > 0 THEN "1"
           ELSE IF Count("PASS") # EXPECTED_INCLUDED \/ Count("UNSUPPORTED") # EXPECTED_UNSUPPORTED
           THEN "1" ELSE "0"
  /\ UNCHANGED <<scope, answers, rows>>

CurationInit ==
  /\ scope \in [records : BoundedSeq(Records, EXPECTED_TOTAL), totals_agree : BOOLEAN,
               violations : BOOLEAN]
  /\ answers = <<>> /\ rows = <<>> /\ exit = "loading"

CurationNext == load_scope \/ (\E answer \in Answers : evaluate_record(answer)) \/ CurationGate

----------------------------------------------------------------------------
CurationTypeOK ==
  /\ exit \in {"loading", "running", "refused", "raised", "0", "1"}
  /\ Len(rows) = Len(answers) /\ Len(rows) <= Len(scope.records)
  \* Only what is included is ever decoded.
  /\ \A i \in DOMAIN rows : scope.records[i].decision = "UNSUPPORTED" <=> answers[i] = "not asked"

(* The gate passes only if each included record is what M4 promises: of a  *)
(* category it covers, and rejected by the validator in that category; and *)
(* their number and that of the deferred ones are those published.         *)
GateIsTheCuration ==
  exit = "0" =>
    /\ Len(scope.records) = EXPECTED_TOTAL
    /\ \A i \in DOMAIN rows : scope.records[i].decision = "INCLUDED" =>
         scope.records[i].fits /\ answers[i] = scope.records[i].category
                               /\ answers[i] \in EXPECTED_CATEGORIES
    /\ Decided(scope.records, "INCLUDED") = EXPECTED_INCLUDED

(* Over a curation it accepts, the gate turns only on the validator.       *)
OnlyTheValidatorFails ==
  exit = "1" => \E i \in DOMAIN rows : answers[i] \notin {"not asked", scope.records[i].category}

(* A run over a curation, whole: one status for each record, and a gate    *)
(* that answers as the curation and the validator do.                      *)
CurationRun == CurationTypeOK /\ GateIsTheCuration /\ OnlyTheValidatorFails
=============================================================================
