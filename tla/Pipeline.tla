------------------------------ MODULE Pipeline ------------------------------
(***************************************************************************)
(* The scripts around the engines, as programs that read and leave files:  *)
(* fetch_oracle.py fills vendor/spec, convert.py and convert_m5.py turn    *)
(* sources into JSON and write a report, run_skeleton.py, run_m1.py,       *)
(* run_m2.py, run_m3.py (the same text again) and run_m5.py classify what  *)
(* they find and write a summary, and check_regression_m5.py runs the      *)
(* frozen ones in order and compares their summaries with locked counts.   *)
(*                                                                         *)
(* One program runs at a time and may be interrupted between any two of    *)
(* its writes; the next one finds what it left.  wast2json may accept or   *)
(* reject any source.  The locked counts of a summary are those of the     *)
(* files of its manifest, so they are compared as sets of files.           *)
(***************************************************************************)
EXTENDS Naturals, Sequences, SequencesExt

CONSTANTS
  Plans,          \* the checkouts considered, each of four parts:
                  \*   programs, what may be started by hand there
                  \*   manifests, the frozen ones, "m0" among them
                  \*   listed, the targets of a manifest, "m5" included, in order
                  \*   expected_convert_fail, of manifest_m5.json
  NoFile          \* a report or a summary that was never written

VARIABLE plan     \* the checkout at hand: the repository's files, which stay
Programs  == plan.programs
Manifests == plan.manifests
Listed    == plan.listed
expected_convert_fail == plan.expected_convert_fail

Targets == UNION {ToSet(Listed[m]) : m \in Manifests \cup {"m5"}}
FrozenRunners == {"run_skeleton", "run_m1", "run_m2", "run_m3"}
Runners == FrozenRunners \cup {"run_m5"}

manifest(prog) ==
  CASE prog = "run_m5" -> "m5" [] prog = "run_m2" -> "m2" [] prog = "run_m3" -> "m3" [] OTHER -> "m0"

(* A checkout holds the manifests its programs read; a manifest lists its  *)
(* targets once each, and that of M0 lists some.                           *)
ASSUME PipelineAssumption ==
  \A pl \in Plans :
    /\ "m0" \in pl.manifests /\ pl.manifests \subseteq {"m0", "m2", "m3"}
    /\ pl.programs \subseteq {"fetch", "convert", "convert_m5", "regression"} \cup Runners
    /\ "regression" \in pl.programs => pl.manifests = {"m0", "m2", "m3"}
    /\ \A p \in Runners \cap pl.programs : manifest(p) \in pl.manifests \cup {"m5"}
    /\ pl.listed["m0"] # <<>>
    /\ \A m \in pl.manifests \cup {"m5"} :
         pl.listed[m] \in Seq(ToSet(pl.listed[m])) /\ IsInjective(pl.listed[m])
    /\ pl.expected_convert_fail \subseteq ToSet(pl.listed["m5"])

VARIABLES
  vendor,   \* vendor/spec: the sources of test/core, and interpreter/Makefile
  json,     \* build/converted and build/converted_m5, by target
  report,   \* the conversion reports
  summary,  \* the runners' summaries
  job,      \* the program that runs
  gate,     \* whether check_regression_m5.py runs, and its command at hand
  last,     \* how the last program started by hand ended
  fresh,    \* history: summaries written since the gate began
  trouble   \* history: something failed since the gate began

vars == <<plan, vendor, json, report, summary, job, gate, last, fresh, trouble>>
files == <<vendor, json, report, summary>>

----------------------------------------------------------------------------
NoJob == [prog |-> "none", todo |-> <<>>, made |-> FALSE, ok |-> {}, failed |-> {},
          missing |-> {}, out |-> "none"]
Job(prog, todo, out) == [NoJob EXCEPT !.prog = prog, !.todo = todo, !.out = out]
GateOff == [on |-> FALSE, at |-> 1]
Complete == [core |-> Targets, marker |-> TRUE]

\* The directory a converter writes and a runner reads.
Dir(prog) == IF prog \in {"convert_m5", "run_m5"} THEN "converted_m5" ELSE "converted"
Exists(prog, t) == json[Dir(prog)][t] \in {"torn", "whole", "unlisted"}
IsWhole(prog, t) == json[Dir(prog)][t] \in {"whole", "unlisted"}

\* Mutant: the gate goes on after a command that failed.
Exit_unchecked(prog, rc) ==
  /\ job' = NoJob
  /\ IF gate.on THEN gate' = [gate EXCEPT !.at = @ + 1] /\ UNCHANGED last
     ELSE last' = [prog |-> prog, rc |-> rc] /\ UNCHANGED gate

Troubled(b) == trouble' = (trouble \/ (gate.on /\ b))

(* A program ends; within the gate, run() goes on only after a zero.       *)
Exit(prog, rc) ==
  /\ job' = NoJob
  /\ IF ~gate.on THEN last' = [prog |-> prog, rc |-> rc] /\ UNCHANGED gate
     ELSE IF rc = 0 THEN gate' = [gate EXCEPT !.at = @ + 1] /\ UNCHANGED last
     ELSE gate' = GateOff /\ last' = [prog |-> "regression", rc |-> 1]

(* The frozen pipeline in order; the curation and the runner of M4 read    *)
(* and write files of their own and may succeed or fail.                   *)
GateCommands ==
  << <<"convert", <<"m0", "m0">>>>, <<"convert", <<"m2", "m2">>>>, <<"convert", <<"m3", "m3">>>>,
     <<"m4", <<"enumerate">>>>, <<"run_skeleton", <<>>>>, <<"run_m1", <<>>>>, <<"run_m2", <<>>>>,
     <<"run_m3", <<>>>>, <<"m4", <<"run">>>> >>

\* A program is started by hand, or is the next command of the gate.
Starts(prog, args) ==
  /\ job = NoJob
  /\ IF gate.on THEN gate.at <= Len(GateCommands) /\ GateCommands[gate.at] = <<prog, args>>
     ELSE prog \in Programs

----------------------------------------------------------------------------
(* fetch_spec: what is there is taken for complete if the Makefile is.     *)
Fetch(skip) ==
  /\ Starts("fetch", <<>>) /\ ~gate.on
  /\ IF skip /\ vendor.marker THEN Exit("fetch", 0)
     ELSE job' = Job("fetch", <<>>, "none") /\ last' = [prog |-> "none", rc |-> 0] /\ UNCHANGED gate
  /\ UNCHANGED <<files, fresh, trouble>>

(* shutil.rmtree(final_dir), in the order the file system lists it.        *)
Rmtree ==
  /\ job.prog = "fetch"
  /\ \/ \E t \in vendor.core : vendor' = [vendor EXCEPT !.core = @ \ {t}]
     \/ vendor.marker /\ vendor' = [vendor EXCEPT !.marker = FALSE]
  /\ UNCHANGED <<json, report, summary, job, gate, last, fresh, trouble>>

(* The extracted tree is moved into place at once.                         *)
Move ==
  /\ job.prog = "fetch" /\ vendor = [core |-> {}, marker |-> FALSE]
  /\ vendor' = Complete
  /\ Exit("fetch", 0)
  /\ UNCHANGED <<json, report, summary, fresh, trouble>>

----------------------------------------------------------------------------
(* convert.py --manifest m --report out; a tree without test/core is       *)
(* refused.                                                                *)
Convert(m, out) ==
  /\ Starts("convert", <<m, out>>)
  /\ \/ vendor.core = {} /\ Exit("convert", 1) /\ Troubled(TRUE)
     \/ /\ job' = Job("convert", Listed[m], out)
        /\ last' = [prog |-> "none", rc |-> 0] /\ UNCHANGED <<gate, trouble>>
  /\ UNCHANGED <<files, fresh>>

(* convert_m5.py, which compares its pins with manifest_m0.json first.     *)
ConvertM5(check_pin_freeze) ==
  /\ Starts("convert_m5", <<>>) /\ ~gate.on
  /\ IF ~check_pin_freeze THEN Exit("convert_m5", 2)
     ELSE \/ vendor.core = {} /\ Exit("convert_m5", 1)
          \/ /\ job' = Job("convert_m5", Listed["m5"], "m5")
             /\ last' = [prog |-> "none", rc |-> 0] /\ UNCHANGED gate
  /\ UNCHANGED <<files, fresh, trouble>>

Converting == job.prog \in {"convert", "convert_m5"}
src == Head(job.todo)

(* A missing source is recorded as a failure, and what an earlier run made *)
(* of it stays.                                                            *)
MissingSource ==
  /\ Converting /\ job.todo # <<>> /\ ~job.made /\ src \notin vendor.core
  /\ job' = [job EXCEPT !.todo = Tail(@), !.failed = @ \cup {src}, !.missing = @ \cup {src}]
  /\ Troubled(TRUE)
  /\ UNCHANGED <<files, gate, last, fresh>>

(* convert_one: the target's directory is removed and made again ...       *)
MakeDir ==
  /\ Converting /\ job.todo # <<>> /\ ~job.made /\ src \in vendor.core
  /\ json' = [json EXCEPT ![Dir(job.prog)][src] = "empty"]
  /\ job' = [job EXCEPT !.made = TRUE]
  /\ UNCHANGED <<vendor, report, summary, gate, last, fresh, trouble>>

(* ... and wast2json fills it, or rejects the source, and may then leave   *)
(* part of a file; what it writes may hold a judgment text that            *)
(* manifest_m5.json does not list.                                         *)
Wast2json(left) ==
  /\ Converting /\ job.made
  /\ left = "unlisted" => job.prog = "convert_m5"
  /\ json' = [json EXCEPT ![Dir(job.prog)][src] = left]
  /\ LET done == [job EXCEPT !.todo = Tail(@), !.made = FALSE]
     IN  IF left \in {"whole", "unlisted"} THEN job' = [done EXCEPT !.ok = @ \cup {src}] /\ UNCHANGED trouble
         ELSE job' = [done EXCEPT !.failed = @ \cup {src}] /\ Troubled(TRUE)
  /\ UNCHANGED <<vendor, report, summary, gate, last, fresh>>

Report == [ok |-> job.ok, all_ok |-> job.failed = {}]

(* The report is written first, then the exit code told.                   *)
ConvertEnds ==
  /\ job.prog = "convert" /\ job.todo = <<>>
  /\ report' = [report EXCEPT ![job.out] = Report]
  /\ Exit("convert", IF job.failed = {} THEN 0 ELSE 1)
  /\ UNCHANGED <<vendor, json, summary, fresh, trouble>>

\* What the text inventory finds in the JSON just written.
Unlisted == {t \in job.ok : json["converted_m5"][t] = "unlisted"}

\* Mutant: a missing source counts as any other failure.
Drift_only == job.failed # expected_convert_fail \/ Unlisted # {}

(* missing_sources, drift against the manifest's expectation, and texts    *)
(* the judgment boundaries do not list.                                    *)
Drift ==
  \/ job.missing # {}
  \/ job.failed # expected_convert_fail
  \/ Unlisted # {}

ConvertM5Ends ==
  /\ job.prog = "convert_m5" /\ job.todo = <<>>
  /\ report' = [report EXCEPT !["m5"] = Report]
  /\ Exit("convert_m5", IF Drift THEN 1 ELSE 0)
  /\ UNCHANGED <<vendor, json, summary, fresh, trouble>>

----------------------------------------------------------------------------
(* iter_json_paths.  run_skeleton and run_m1 trust conversion_report.json, *)
(* whichever manifest it is of; run_m2 and run_m3 read no report; run_m5   *)
(* takes what its report calls ok.                                         *)
want(prog) == ToSet(Listed[manifest(prog)])

HasReport(prog) == prog \notin {"run_m2", "run_m3"} /\ report[manifest(prog)] # NoFile
paths(prog) == IF HasReport(prog) THEN report[manifest(prog)].ok ELSE want(prog)

Refuses(prog) ==
  \/ prog = "run_m5" /\ ~HasReport(prog)
  \/ prog \in {"run_skeleton", "run_m1"} /\ HasReport(prog) /\ ~report["m0"].all_ok
  \/ paths(prog) = {} /\ prog \notin {"run_m2", "run_m3"}
  \/ \E t \in paths(prog) : ~Exists(prog, t)

\* Mutant: the files that were found are taken for all.
Incomplete_never(prog) == FALSE

(* want - got: run_m5 has no such check.                                   *)
Incomplete(prog) == prog # "run_m5" /\ want(prog) \ paths(prog) # {}

(* A runner: json.loads raises on half a file; run_skeleton writes its     *)
(* summary before it looks for what is missing, the others after; and the  *)
(* gates of M1 to M3 are their FAIL counts, while M0 and M5 have none.     *)
Run(prog, fail) ==
  /\ Starts(prog, <<>>)
  /\ fail => prog # "run_skeleton"
  /\ LET bad == Refuses(prog) \/ \E t \in paths(prog) : ~IsWhole(prog, t)
         writes == ~bad /\ (prog = "run_skeleton" \/ ~Incomplete(prog))
         rc == IF bad \/ Incomplete(prog) \/ (fail /\ prog \in {"run_m1", "run_m2", "run_m3"}) THEN 1 ELSE 0
     IN  /\ summary' = IF writes THEN [summary EXCEPT ![prog] = [files |-> paths(prog), fail |-> fail]]
                       ELSE summary
         /\ fresh' = IF writes /\ gate.on THEN fresh \cup {prog} ELSE fresh
         /\ Exit(prog, rc)
  /\ Troubled(fail)
  /\ UNCHANGED <<vendor, json, report>>

----------------------------------------------------------------------------
(* The sources of the frozen manifests are all there, or the gate is to    *)
(* fail.                                                                   *)
Regression ==
  /\ job = NoJob /\ ~gate.on /\ "regression" \in Programs
  /\ gate' = [on |-> TRUE, at |-> 1]
  /\ fresh' = {}
  /\ trouble' = \E m \in Manifests : ~(ToSet(Listed[m]) \subseteq vendor.core)
  /\ last' = [prog |-> "none", rc |-> 0]
  /\ UNCHANGED <<files, job>>

M4(step, rc) ==
  /\ Starts("m4", <<step>>) /\ gate.on
  /\ Exit("m4", rc) /\ Troubled(rc # 0)
  /\ UNCHANGED <<files, fresh>>

(* The locked counts: those of exactly the manifest's files, and no FAIL.  *)
Locked(prog) == summary[prog] = [files |-> want(prog), fail |-> FALSE]

(* expect(), then the two layers of git, whose answer is "additive".       *)
Verdict(additive) ==
  /\ gate.on /\ gate.at > Len(GateCommands) /\ job = NoJob
  /\ last' = [prog |-> "regression",
              rc |-> IF additive /\ \A p \in FrozenRunners : Locked(p)
                     THEN 0 ELSE 1]
  /\ gate' = GateOff
  /\ Troubled(~additive)
  /\ UNCHANGED <<files, job, fresh>>

(* An interruption, or an exception: part of a JSON file may be left.      *)
Killed ==
  /\ job # NoJob \/ gate.on
  /\ job' = NoJob /\ gate' = GateOff /\ last' = [prog |-> "killed", rc |-> 1]
  /\ \/ UNCHANGED json
     \/ job.made /\ json' = [json EXCEPT ![Dir(job.prog)][src] = "torn"]
  /\ UNCHANGED <<vendor, report, summary, fresh, trouble>>

----------------------------------------------------------------------------
Init ==
  /\ plan \in Plans
  /\ vendor = [core |-> {}, marker |-> FALSE]
  /\ json = [d \in {"converted", "converted_m5"} |-> [t \in Targets |-> "none"]]
  /\ report = [m \in Manifests \cup {"m5"} |-> NoFile]
  /\ summary = [p \in Runners |-> NoFile]
  /\ job = NoJob /\ gate = GateOff /\ last = [prog |-> "none", rc |-> 0]
  /\ fresh = {} /\ trouble = FALSE

Steps ==
  \/ \E skip \in BOOLEAN : Fetch(skip)
  \/ Rmtree \/ Move
  \/ \E m \in Manifests : Convert(m, m) \/ Convert(m, "m0")
  \/ \E freeze \in BOOLEAN : ConvertM5(freeze)
  \/ MissingSource \/ MakeDir \/ ConvertEnds \/ ConvertM5Ends
  \/ \E left \in {"whole", "unlisted", "empty", "torn"} : Wast2json(left)
  \/ \E prog \in Runners, fail \in BOOLEAN : Run(prog, fail)
  \/ Regression \/ Killed
  \/ \E rc \in {0, 1} : M4("enumerate", rc) \/ M4("run", rc)
  \/ \E additive \in BOOLEAN : Verdict(additive)

Next == Steps /\ UNCHANGED plan

Spec == Init /\ [][Next]_vars

----------------------------------------------------------------------------
TypeOK ==
  /\ vendor \in [core : SUBSET Targets, marker : BOOLEAN]
  /\ \A d \in DOMAIN json : json[d] \in [Targets -> {"none", "empty", "torn", "whole", "unlisted"}]
  /\ \A m \in DOMAIN report : report[m] = NoFile \/ report[m].ok \subseteq Targets
  /\ \A p \in DOMAIN summary : summary[p] = NoFile \/ summary[p].files \subseteq Targets
  /\ gate.on \in BOOLEAN /\ gate.at \in 1..(Len(GateCommands) + 1) /\ fresh \subseteq Runners
  \* wast2json starts in a directory with nothing of an earlier run.
  /\ job.made => json[Dir(job.prog)][src] = "empty"
  \* Within the gate, what runs is its next command.
  /\ gate.on /\ job # NoJob => GateCommands[gate.at][1] = job.prog

Ended(prog, rc) == last = [prog |-> prog, rc |-> rc]

(* A frozen runner that succeeds has classified every target of its        *)
(* manifest from a whole file, whatever interrupted conversions and        *)
(* reports of other manifests were left before.                            *)
NoPartialInventory ==
  \A p \in FrozenRunners :
    Ended(p, 0) => /\ want(p) \subseteq summary[p].files
                   /\ \A t \in summary[p].files : IsWhole(p, t)

(* convert_m5 succeeds only if every target was really examined: those not *)
(* converted are the expected ones, whose source was there, and each text  *)
(* to be judged is enumerated.                                             *)
SweepExaminesAll ==
  Ended("convert_m5", 0) =>
    /\ ToSet(Listed["m5"]) \subseteq vendor.core
    /\ report["m5"].ok = ToSet(Listed["m5"]) \ expected_convert_fail
    /\ \A t \in report["m5"].ok : json["converted_m5"][t] = "whole"

(* The regression gate passes on summaries this very run wrote, never on   *)
(* those an earlier one left.                                              *)
RegressionIsFresh ==
  Ended("regression", 0) => FrozenRunners \subseteq fresh /\ ~trouble

(* And nothing earlier runs left behind can make it fail: over a complete  *)
(* tree, a gate in which nothing fails passes.                             *)
RerunRecovers == Ended("regression", 1) => trouble

(* The regression gate, whole: its commands in turn over directories made  *)
(* anew, and an answer that is about this run, both ways.                  *)
GateRuns == TypeOK /\ RegressionIsFresh /\ RerunRecovers

----------------------------------------------------------------------------
(* What run_m5.py says of its summary and does not keep: without --json it *)
(* is the "full test/core sweep ... (55 convertible files)".               *)
FullSweepIsFull ==
  summary["run_m5"] # NoFile =>
    ToSet(Listed["m5"]) \ expected_convert_fail \subseteq summary["run_m5"].files
=============================================================================
