---------------------------- MODULE EnumerateM4 ----------------------------
(***************************************************************************)
(* tools/enumerate_m4_validation_scope.py, which curates the validation    *)
(* assertions of the converted corpus and writes the scope that run_m4.py  *)
(* (module RunnerM4) consumes.  gather_records takes one assertion a step. *)
(* wasm-objdump is external: it may fail, with or without a message.       *)
(***************************************************************************)
EXTENDS RunnerM4

CONSTANTS TypeMismatch, UnknownLabel,  \* the categories of EXPECTED_TEXT_POLICY
          MaxAssertions                \* bound: validation assertions in the corpus

ASSUME EnumerateM4Assumption ==
  {TypeMismatch, UnknownLabel} \subseteq EXPECTED_CATEGORIES /\ MaxAssertions \in Nat

VARIABLES
  gathered,    \* records
  violations,  \* whether there is any
  code,        \* main's exit code; "idle" and "gathering" before
  met,         \* history: validation assertions met in the corpus
  within,      \* history: of each record, whether its binary really stays
               \* within the frozen surface
  written      \* history: within, of the scope file as it is

enumerator == <<gathered, violations, code, met, within, written>>

----------------------------------------------------------------------------
Texts == {"type mismatch", "unknown label", "unknown operator", "unexpected token", "other"}

ExpectedTextPolicy ==
  {<<"assert_invalid", "type mismatch">>, <<"assert_invalid", "unknown label">>,
   <<"assert_malformed", "unknown operator">>, <<"assert_malformed", "unexpected token">>}
PolicyCategory(text) == IF text = "type mismatch" THEN TypeMismatch ELSE UnknownLabel

(* What the tool sees of an assertion whose artifact is there: beyond says *)
(* whether the binary has a section or opcode outside the frozen surface,  *)
(* shown whether wasm-objdump's listing has it, listed whether objdump was *)
(* content, named whether the decoder's message names a deferred feature.  *)
(* A text artifact is not looked into.                                     *)
Assertions ==
  {a \in [type : {"assert_invalid", "assert_malformed"}, text : Texts,
          module_type : {"binary", "text"},
          decoder : {"decoder_accept", "unsupported", "decode_error", "unexpected_exception"},
          beyond : BOOLEAN, shown : BOOLEAN, listed : BOOLEAN, named : BOOLEAN] :
     /\ a.shown => a.beyond
     /\ a.listed => a.shown = a.beyond
     /\ a.named => a.decoder = "unsupported"
     /\ a.module_type = "text" => a.listed /\ ~a.beyond /\ a.decoder = "decode_error"}

Record(decision, fits, category) ==
  [decision |-> decision, fits |-> fits, category |-> category,
   reason |-> decision = "UNSUPPORTED"]
Deferred == Record("UNSUPPORTED", FALSE, "deferred")
Violation == Record("POLICY_VIOLATION", FALSE, "policy_violation")

(* A ValueError is the record of a policy violation.                       *)
classify_policy(a) ==
  IF <<a.type, a.text>> \notin ExpectedTextPolicy THEN Violation
  ELSE IF a.module_type = "text"
       THEN IF a.type = "assert_malformed" THEN Deferred ELSE Violation
  ELSE IF a.decoder = "decoder_accept" /\ ~a.shown /\ a.type = "assert_invalid"
       THEN Record("INCLUDED", TRUE, PolicyCategory(a.text))
  ELSE IF a.decoder = "unsupported" /\ (a.named \/ a.shown) THEN Deferred
  ELSE Violation

Gathers == code = "gathering" /\ met < MaxAssertions

(* A listing that failed is a violation of its own: the record may still   *)
(* be an INCLUDED one, of a binary nobody looked into.                     *)
Gather(a) ==
  /\ Gathers
  /\ gathered' = Append(gathered, classify_policy(a))
  /\ violations' = (violations \/ classify_policy(a) = Violation \/ ~a.listed)
  /\ within' = Append(within, ~a.beyond)
  /\ met' = met + 1
  /\ UNCHANGED <<code, written>>

\* Mutant: an assertion without an artifact is passed over.
GatherMissing_passes ==
  /\ Gathers /\ met' = met + 1
  /\ UNCHANGED <<gathered, violations, code, within, written>>

(* No filename, or no such artifact: no record, and no index either.       *)
GatherMissing ==
  /\ Gathers /\ met' = met + 1 /\ violations' = TRUE
  /\ UNCHANGED <<gathered, code, within, written>>

(* A target that was not converted: all its assertions are missed.         *)
GatherNoFile ==
  /\ Gathers /\ violations' = TRUE
  /\ UNCHANGED <<gathered, code, met, within, written>>

(* objdump fails without a message, and its absent output is split.        *)
GatherSilent ==
  /\ Gathers /\ code' = "raised"
  /\ UNCHANGED <<gathered, violations, met, within, written>>

(* summarize, write_json, and the exit code.  The scope is written whether *)
(* it is good or not.                                                      *)
Write ==
  LET drift == Len(gathered) # EXPECTED_TOTAL
      n(d) == Decided(gathered, d)
  IN  /\ code = "gathering"
      /\ scope' = [records |-> gathered,
                   totals_agree |-> /\ ~drift
                                    /\ n("INCLUDED") = EXPECTED_INCLUDED
                                    /\ n("UNSUPPORTED") = EXPECTED_UNSUPPORTED
                                    /\ n("POLICY_VIOLATION") = 0,
                   violations |-> violations \/ drift]
      /\ written' = within
      /\ code' = IF drift \/ n("INCLUDED") + n("UNSUPPORTED") # EXPECTED_TOTAL \/ violations
                 THEN "1" ELSE "0"
      /\ UNCHANGED <<gathered, violations, met, within>>

(* main: without objdump nothing is gathered.                              *)
Start == code = "idle" /\ code' \in {"1", "gathering"}
         /\ UNCHANGED <<gathered, violations, met, within, written>>

(* The repository comes with a scope that was curated before.              *)
Committed ==
  [records |-> [i \in 1..EXPECTED_TOTAL |->
                  IF i <= EXPECTED_INCLUDED THEN Record("INCLUDED", TRUE, TypeMismatch)
                  ELSE Deferred],
   totals_agree |-> TRUE, violations |-> FALSE]

EnumeratorInit ==
  /\ gathered = <<>> /\ violations = FALSE /\ code = "idle" /\ met = 0 /\ within = <<>>
  /\ written = [i \in 1..EXPECTED_TOTAL |-> TRUE]

EnumeratorNext ==
  \/ Write
  \/ /\ Start \/ (\E a \in Assertions : Gather(a)) \/ GatherMissing \/ GatherNoFile \/ GatherSilent
     /\ UNCHANGED scope
EnumeratorDone == code \notin {"idle", "gathering"}

----------------------------------------------------------------------------
EnumeratorTypeOK ==
  /\ Len(within) = Len(gathered) /\ met \in Len(gathered)..MaxAssertions
  /\ code \in {"idle", "gathering", "raised", "0", "1"}

(* The gate passes only over included binaries that stay within the frozen *)
(* surface -- not ones the enumerator never saw into -- whatever happened  *)
(* to wasm-objdump while the scope was written.                            *)
IncludedStayWithin ==
  exit = "0" => \A i \in DOMAIN rows : rows[i] = "PASS" => written[i]

(* The enumerator succeeds only if it accounts for every validation        *)
(* assertion of the corpus, none passed over while another one came in.    *)
AllAccountedFor ==
  code = "0" => Len(gathered) = met /\ met = EXPECTED_TOTAL

(* A curation that succeeds is one the runner takes, unless the numbers of *)
(* included and deferred assertions moved.                                 *)
CurationIsRunnable ==
  code = "0" /\ exit = "refused" => Decided(gathered, "INCLUDED") # EXPECTED_INCLUDED

(* An enumeration, whole: a record for each assertion seen, and a success  *)
(* that leaves out nothing and leaves a scope that can be run.             *)
EnumeratesAll == EnumeratorTypeOK /\ AllAccountedFor /\ CurationIsRunnable
=============================================================================
