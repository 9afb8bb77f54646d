------------------------------ MODULE RunnerM5 ------------------------------
(***************************************************************************)
(* scripts/run_m5.py: the full-sweep assert runner.  One action per        *)
(* command handler; the data of a command (binary, arguments, texts) is    *)
(* abstracted to the outcomes the handler tells apart.  A module instance  *)
(* is identified by the command that created it.                           *)
(***************************************************************************)
EXTENDS Naturals, Sequences

CONSTANTS Names, NoName, Aliases, NoInst,
          MaxFiles,      \* bound: files in one run
          MaxCommands,   \* bound: commands in one file
          MaxImports     \* bound: imports of one module

Instance == [file : 1..MaxFiles, cmd : 1..MaxCommands]

ASSUME RunnerAssumption ==
  /\ MaxFiles \in Nat \ {0}
  /\ MaxCommands \in Nat \ {0}
  /\ MaxImports \in Nat
  /\ NoName \notin Names
  /\ NoInst \notin Instance

VARIABLES
  fileNo,          \* index in iter_json_paths' list of the file being run
  done,            \* commands of this file already counted
  current,         \* _Runner.current
  current_reason,  \* _Runner.current_reason: bucket of the chain, or "none"
  named,           \* _Runner.named, NoInst where the name has no entry
  named_reason,    \* _Runner.named_reason, "none" where it has no entry
  registered,      \* Store.registered, NoInst where the alias has no entry
  fr,              \* the FileResult counters
  totals,          \* main's tot: counters and lengths of the finished files
  status,          \* "running"; then "reported", "stopped" by SystemExit, or
                   \* "raised": an exception nothing catches
  cmd              \* the last command: what it was aimed at, how it counted;
                   \* "as" is the alias of a register command, else NoName

env == <<current, current_reason, named, named_reason, registered>>
vars == <<fileNo, done, env, fr, totals, status, cmd>>

Targets == Names \cup {NoName}
Buckets == {"modules_ok", "registered", "actions_ok",
            "PASS", "FAIL", "UNSUPPORTED"}
Reasons == {"FAIL", "UNSUPPORTED"}
NoCounts == [b \in Buckets |-> 0]
Counted(c) == c["modules_ok"] + c["registered"] + c["actions_ok"]
              + c["PASS"] + c["FAIL"] + c["UNSUPPORTED"]

CmdTypes == {"none", "module", "register", "action", "assert_return",
             "assert_trap", "assert_invalid", "assert_malformed",
             "assert_uninstantiable", "unhandled"}
NoCmd == [type |-> "none", action |-> "none", target |-> NoName,
          as |-> NoName, bucket |-> "none"]
This == [file |-> fileNo, cmd |-> done + 1]

----------------------------------------------------------------------------
(* Inputs.  An import names an alias and says how the export it asks for   *)
(* relates to it: of the declared type ("fits"), of the right kind but     *)
(* another type ("mismatch"), or missing or of another kind ("absent").    *)
(* "load" is what reading, decoding and validating the binary comes to;    *)
(* "run" is what instantiation does once every import is resolved.         *)
Imports == [from : Aliases, export : {"fits", "mismatch", "absent"}]
ImportLists == UNION {[1..k -> Imports] : k \in 0..MaxImports}
Loads == {"missing", "unsupported", "malformed", "invalid", "valid"}
Rejects(l) == [load |-> l, imports |-> <<>>, run |-> "none"]
Binaries == {Rejects(l) : l \in Loads \ {"valid"}}
            \cup [load : {"valid"}, imports : ImportLists, run : {"ok", "traps"}]

Resolves(im) == registered[im.from] # NoInst /\ im.export # "absent"
Links(im) == Resolves(im) /\ im.export = "fits"

(* instantiate resolves and type-checks the imports in declaration order,  *)
(* so the first one that does not link decides which exception is raised.  *)
Instantiate(m) ==
  LET broken == {i \in DOMAIN m.imports : ~Links(m.imports[i])}
      first == CHOOSE i \in broken : \A j \in broken : i <= j
  IN  IF broken = {} THEN m.run
      ELSE IF Resolves(m.imports[first]) THEN "incompatible" ELSE "unlinked"

Outcome(m) == IF m.load = "valid" THEN Instantiate(m) ELSE m.load

\* The exceptions cmd_module counts UNSUPPORTED; every other one is a FAIL.
OutOfSurface == {"unsupported", "unlinked"}
BucketOf(outcome) == IF outcome \in OutOfSurface THEN "UNSUPPORTED" ELSE "FAIL"

----------------------------------------------------------------------------
Count(b) ==
  /\ status = "running" /\ done < MaxCommands
  /\ done' = done + 1
  /\ fr' = [fr EXCEPT ![b] = @ + 1]
  /\ UNCHANGED <<fileNo, totals, status>>

Record(type, action, target, as, b) ==
  cmd' = [type |-> type, action |-> action, target |-> target, as |-> as,
          bucket |-> b]

\* Mutant: the failed module's name keeps the instance it had.
ModuleFailed_keeps_name(n, reason) ==
  /\ current' = NoInst /\ current_reason' = reason
  /\ UNCHANGED named
  /\ IF n = NoName THEN UNCHANGED named_reason
     ELSE named_reason' = [named_reason EXCEPT ![n] = reason]

ModuleFailed(n, reason) ==
  /\ current' = NoInst /\ current_reason' = reason
  /\ IF n = NoName THEN UNCHANGED <<named, named_reason>>
     ELSE /\ named' = [named EXCEPT ![n] = NoInst]
          /\ named_reason' = [named_reason EXCEPT ![n] = reason]

ModuleOk(n) ==
  /\ current' = This /\ current_reason' = "none"
  /\ IF n = NoName THEN UNCHANGED <<named, named_reason>>
     ELSE /\ named' = [named EXCEPT ![n] = This]
          /\ named_reason' = [named_reason EXCEPT ![n] = "none"]

(* cmd_module                                                              *)
Module(n, m) ==
  LET outcome == Outcome(m)
      b == IF outcome = "ok" THEN "modules_ok" ELSE BucketOf(outcome)
  IN  /\ Count(b) /\ Record("module", "none", n, NoName, b)
      /\ IF outcome = "ok" THEN ModuleOk(n) ELSE ModuleFailed(n, b)
      /\ UNCHANGED registered

InstanceOf(t) == IF t = NoName THEN current ELSE named[t]
ReasonOf(t) == IF t = NoName THEN current_reason ELSE named_reason[t]

\* Mutant: whatever the reason, a missing instance is out of surface.
ChainBucket_lenient(t) == "UNSUPPORTED"

\* What a missing instance counts as: UNSUPPORTED only when its module was
\* out of surface; a FAIL, or a target nothing is known about, is a FAIL.
ChainBucket(t) == IF ReasonOf(t) = "UNSUPPORTED" THEN "UNSUPPORTED" ELSE "FAIL"

\* Mutant: a register that fails leaves the alias as it was.
Register_keeps_alias(src, a) ==
  LET inst == InstanceOf(src)
      b == IF inst = NoInst THEN ChainBucket(src) ELSE "registered"
  IN  /\ Count(b) /\ Record("register", "none", src, a, b)
      /\ registered' = IF inst = NoInst THEN registered
                       ELSE [registered EXCEPT ![a] = inst]
      /\ UNCHANGED <<current, current_reason, named, named_reason>>

(* cmd_register                                                            *)
Register(src, a) ==
  LET inst == InstanceOf(src)
      b == IF inst = NoInst THEN ChainBucket(src) ELSE "registered"
  IN  /\ Count(b) /\ Record("register", "none", src, a, b)
      /\ registered' = [registered EXCEPT ![a] = inst]
      /\ UNCHANGED <<current, current_reason, named, named_reason>>

(* _invoke: what a call comes to once its instance is found.  A normal     *)
(* return and a trap are judged by the caller against the expected values  *)
(* or text ("matches", "differs"); "error" stands for the KeyError,        *)
(* IncompatibleImport, ValueError and IndexError that _invoke catches.     *)
CallResults == {<<"returns", "matches">>, <<"returns", "differs">>,
                <<"traps", "matches">>, <<"traps", "differs">>,
                <<"error", "-">>, <<"unsupported", "-">>}

Invoke(action, t, r) ==
  IF action # "invoke" THEN <<"bucket", "UNSUPPORTED">>
  ELSE IF InstanceOf(t) = NoInst THEN <<"bucket", ChainBucket(t)>>
  ELSE IF r[1] = "error" THEN <<"bucket", "FAIL">>
  ELSE IF r[1] = "unsupported" THEN <<"bucket", "UNSUPPORTED">>
  ELSE r

(* How each caller of _invoke counts its answer.                           *)
Passes(type, answer) ==
  \/ type = "assert_return" /\ answer = <<"returns", "matches">>
  \/ type = "assert_trap" /\ answer = <<"traps", "matches">>
Verdict(type, answer) ==
  IF answer[1] = "bucket" THEN answer[2]
  ELSE IF type = "action" /\ answer[1] = "returns" THEN "actions_ok"
  ELSE IF Passes(type, answer) THEN "PASS" ELSE "FAIL"

\* assert_exhaustion has assert_trap's handler, _assert_traplike.
CallTypes == {"action", "assert_return", "assert_trap"}

(* cmd_action, cmd_assert_return, _assert_traplike                         *)
Call(type, action, t, r) ==
  LET b == Verdict(type, Invoke(action, t, r))
  IN  Count(b) /\ Record(type, action, t, NoName, b) /\ UNCHANGED env

(* cmd_assert_invalid, cmd_assert_malformed: the binary is decoded (and    *)
(* validated) only; a module in text format is not judged at all.          *)
Rejected(type) == IF type = "assert_invalid" THEN "invalid" ELSE "malformed"
AssertRejected(type, format, load, match) ==
  LET b == IF format # "binary" \/ load = "unsupported" THEN "UNSUPPORTED"
           ELSE IF load = Rejected(type) /\ match THEN "PASS" ELSE "FAIL"
  IN  /\ format = "binary" => load # "missing"
      /\ Count(b) /\ Record(type, "none", NoName, NoName, b) /\ UNCHANGED env

(* cmd_assert_uninstantiable: instantiates against the live store, binds   *)
(* nothing.                                                                *)
AssertUninstantiable(m, match) ==
  LET outcome == Outcome(m)
      b == IF outcome \in OutOfSurface THEN "UNSUPPORTED"
           ELSE IF outcome = "traps" /\ match THEN "PASS" ELSE "FAIL"
  IN  /\ m.load # "missing"
      /\ Count(b) /\ Record("assert_uninstantiable", "none", NoName, NoName, b)
      /\ UNCHANGED env

(* assert_unlinkable and every command type run_file does not know.        *)
Unhandled ==
  /\ Count("UNSUPPORTED")
  /\ Record("unhandled", "none", NoName, NoName, "UNSUPPORTED")
  /\ UNCHANGED env

(* The assert_invalid, assert_malformed and assert_uninstantiable handlers *)
(* read their binary without looking whether it exists: FileNotFoundError. *)
MissingBinary ==
  /\ status = "running" /\ done < MaxCommands
  /\ status' = "raised"
  /\ UNCHANGED <<fileNo, done, env, fr, totals, cmd>>

(* main exits before it runs a file that the conversion report lists and   *)
(* that is not there.                                                      *)
MissingFile ==
  /\ status = "running" /\ done = 0
  /\ status' = "stopped"
  /\ UNCHANGED <<fileNo, done, env, fr, totals, cmd>>

EnvInit ==
  /\ current = NoInst /\ current_reason = "none"
  /\ named = [n \in Names |-> NoInst]
  /\ named_reason = [n \in Names |-> "none"]
  /\ registered = [a \in Aliases |-> NoInst]

\* Mutant: the Store, and with it the aliases, outlives the file.
FreshRunner_keeps_store ==
  /\ current' = NoInst /\ current_reason' = "none"
  /\ named' = [n \in Names |-> NoInst]
  /\ named_reason' = [n \in Names |-> "none"]
  /\ UNCHANGED registered

FreshRunner ==
  /\ current' = NoInst /\ current_reason' = "none"
  /\ named' = [n \in Names |-> NoInst]
  /\ named_reason' = [n \in Names |-> "none"]
  /\ registered' = [a \in Aliases |-> NoInst]

(* run_file returns its FileResult; main goes on to the next file, with a  *)
(* new _Runner, or sums the results and writes the report.                 *)
EndFile ==
  /\ status = "running"
  /\ totals' = [b \in Buckets \cup {"total"} |->
                 totals[b] + IF b = "total" THEN done ELSE fr[b]]
  /\ IF fileNo < MaxFiles
     THEN /\ fileNo' = fileNo + 1 /\ done' = 0 /\ fr' = NoCounts
          /\ cmd' = NoCmd /\ FreshRunner /\ UNCHANGED status
     ELSE /\ status' = "reported"
          /\ UNCHANGED <<fileNo, done, fr, cmd, env>>

Init ==
  /\ fileNo = 1 /\ done = 0 /\ EnvInit
  /\ fr = NoCounts /\ status = "running" /\ cmd = NoCmd
  /\ totals = [b \in Buckets \cup {"total"} |-> 0]

Next ==
  \/ \E n \in Targets, m \in Binaries : Module(n, m)
  \/ \E src \in Targets, a \in Aliases : Register(src, a)
  \/ \E type \in CallTypes, action \in {"invoke", "get"}, t \in Targets,
        r \in CallResults : Call(type, action, t, r)
  \/ \E type \in {"assert_invalid", "assert_malformed"},
        format \in {"text", "binary"}, load \in Loads, match \in BOOLEAN :
        AssertRejected(type, format, load, match)
  \/ \E m \in Binaries, match \in BOOLEAN : AssertUninstantiable(m, match)
  \/ Unhandled
  \/ MissingBinary
  \/ MissingFile
  \/ EndFile

Spec == Init /\ [][Next]_vars

----------------------------------------------------------------------------
TypeOK ==
  /\ fileNo \in 1..MaxFiles /\ done \in 0..MaxCommands
  /\ current \in Instance \cup {NoInst}
  /\ current_reason \in Reasons \cup {"none"}
  /\ named \in [Names -> Instance \cup {NoInst}]
  /\ named_reason \in [Names -> Reasons \cup {"none"}]
  /\ registered \in [Aliases -> Instance \cup {NoInst}]
  /\ fr \in [Buckets -> Nat]
  /\ totals \in [Buckets \cup {"total"} -> Nat]
  /\ status \in {"running", "reported", "stopped", "raised"}
  /\ cmd \in [type : CmdTypes, action : {"none", "invoke", "get"}, target : Targets,
               as : Aliases \cup {NoName}, bucket : Buckets \cup {"none"}]

(* The accounting identity run_file and main assert: at every point of a   *)
(* run every command counted so far is in exactly one bucket, of its file  *)
(* and of the totals.                                                      *)
Accounting ==
  /\ Counted(fr) = done
  /\ Counted(totals) = totals["total"]

(* named and named_reason (current and current_reason) never answer for    *)
(* the same module with both an instance and a reason for having none.     *)
OneAnswer ==
  \A t \in Targets : InstanceOf(t) = NoInst \/ ReasonOf(t) = "none"

(* Every instance the runner can still reach was created by a command of   *)
(* the file being run that has already been counted, so the instance that  *)
(* a module command creates is never one already bound.                    *)
Reachable(i) ==
  i # NoInst => i.file = fileNo /\ i.cmd \in 1..done
OwnInstances ==
  /\ \A t \in Targets : Reachable(InstanceOf(t))
  /\ \A a \in Aliases : Reachable(registered[a])

(* The bookkeeping of a run, whole: its types, the accounting identity, one *)
(* answer for each target and no instance that outlives its file.  It is   *)
(* inductive, and what the refinement of ScriptEnv rests on.               *)
Bookkeeping == TypeOK /\ Accounting /\ OneAnswer /\ OwnInstances

(* The bookkeeping implements the script's environment: whatever the order *)
(* of module, register and failing commands, a name, the current module    *)
(* and an alias denote what the last command about them was counted as,    *)
(* and every later command counts as what it is aimed at allows.           *)
Tag == [none |-> "undefined", FAIL |-> "failed", UNSUPPORTED |-> "unsupported"]
BindingOf(t) ==
  IF InstanceOf(t) # NoInst THEN [tag |-> "live", inst |-> InstanceOf(t)]
  ELSE [tag |-> Tag[ReasonOf(t)], inst |-> NoInst]

Env == INSTANCE ScriptEnv WITH
         binding <- [t \in Targets |-> BindingOf(t)], alias <- registered,
         last <- cmd
ImplementsEnv == Env!EnvSpec
=============================================================================
