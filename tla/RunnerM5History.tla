-------------------------- MODULE RunnerM5History ---------------------------
(***************************************************************************)
(* RunnerM5 with a memory of its own account: how the last module command  *)
(* for each target, and the last register command for each alias, were     *)
(* counted, and how the module that register named had been.  The runner   *)
(* keeps no such memory; these variables only read the commands and their  *)
(* buckets, so that what one command counted as can be compared with what  *)
(* later commands chained to it count as.                                  *)
(***************************************************************************)
EXTENDS RunnerM5

VARIABLES told,       \* [Targets -> bucket of its last module command]
          aliasTold,  \* [Aliases -> bucket of its last register command]
          aliasSource,  \* [Aliases -> told, at that register command, of the
                        \* module it named]
          via         \* aliasSource of the alias the last module command
                      \* failed to link through, "none" for any other command

hvars == <<vars, told, aliasTold, aliasSource, via>>

Untold == [t \in Targets |-> "none"]
AliasUntold == [a \in Aliases |-> "none"]

HInit ==
  /\ Init
  /\ told = Untold /\ aliasTold = AliasUntold
  /\ aliasSource = AliasUntold /\ via = "none"

\* The alias on which the link of m stops.
Blamed(m) == m.imports[CHOOSE i \in DOMAIN m.imports :
                         /\ ~Links(m.imports[i])
                         /\ \A j \in 1..(i - 1) : Links(m.imports[j])].from

HModule(n, m) ==
  /\ Module(n, m)
  /\ told' = [t \in Targets |-> IF t \in {n, NoName} THEN cmd'.bucket
                                ELSE told[t]]
  /\ via' = IF Outcome(m) = "unlinked" THEN aliasSource[Blamed(m)] ELSE "none"
  /\ UNCHANGED <<aliasTold, aliasSource>>

HRegister(src, a) ==
  /\ Register(src, a)
  /\ aliasTold' = [aliasTold EXCEPT ![a] = cmd'.bucket]
  /\ aliasSource' = [aliasSource EXCEPT ![a] = told[src]]
  /\ via' = "none"
  /\ UNCHANGED told

HJudged ==
  /\ \/ \E type \in CallTypes, action \in {"invoke", "get"}, t \in Targets,
           r \in CallResults : Call(type, action, t, r)
     \/ \E type \in {"assert_invalid", "assert_malformed"},
           format \in {"text", "binary"}, load \in Loads, match \in BOOLEAN :
           AssertRejected(type, format, load, match)
     \/ \E m \in Binaries, match \in BOOLEAN : AssertUninstantiable(m, match)
     \/ Unhandled
     \/ MissingBinary
     \/ MissingFile
  /\ via' = "none"
  /\ UNCHANGED <<told, aliasTold, aliasSource>>

HEndFile ==
  /\ EndFile
  /\ told' = Untold /\ aliasTold' = AliasUntold
  /\ aliasSource' = AliasUntold /\ via' = "none"

HNext ==
  \/ \E n \in Targets, m \in Binaries : HModule(n, m)
  \/ \E src \in Targets, a \in Aliases : HRegister(src, a)
  \/ HJudged
  \/ HEndFile

HSpec == HInit /\ [][HNext]_hvars

----------------------------------------------------------------------------
(* A command chained to a module (an invoke against it, a register of it)  *)
(* is counted as the module was: FAIL after a module counted FAIL, or after*)
(* none at all; UNSUPPORTED after one counted UNSUPPORTED; and it passes   *)
(* only when the last module command for its target was counted            *)
(* modules_ok.                                                             *)
Chained == cmd.type \in CallTypes \cup {"register"} /\ cmd.action # "get"
ChainVerdict ==
  status = "running" /\ Chained =>
    /\ told[cmd.target] \in {"FAIL", "none"} => cmd.bucket = "FAIL"
    /\ told[cmd.target] = "UNSUPPORTED" => cmd.bucket = "UNSUPPORTED"
    /\ cmd.bucket \in {"PASS", "actions_ok", "registered"} =>
         told[cmd.target] = "modules_ok"

(* An alias can be imported from exactly when the last register command    *)
(* for it was counted registered, and a module can be invoked exactly when *)
(* the last module command for it was counted modules_ok.                  *)
LiveAsCounted ==
  status = "running" =>
    /\ \A a \in Aliases :
         registered[a] # NoInst <=> aliasTold[a] = "registered"
    /\ \A t \in Targets :
         InstanceOf(t) # NoInst <=> told[t] = "modules_ok"

(* scripts/run_m5.py says of a module that FAILED that "everything chained *)
(* to it is also FAIL".  A module that cannot link because its import      *)
(* names an alias whose register command named a module counted FAIL is    *)
(* chained to that module, and is counted UNSUPPORTED: the register popped *)
(* the alias, so Store.resolve raises a plain LinkError.                   *)
FailChainsThroughImports == via = "FAIL" => cmd.bucket = "FAIL"
=============================================================================
