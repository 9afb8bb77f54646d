------------------------------ MODULE ScriptEnv ------------------------------
(***************************************************************************)
(* What a converted .wast script means by a module name, by "the current   *)
(* module" and by a registered alias: one environment that binds each name *)
(* to the outcome of the LAST module command that carried it, and one that *)
(* binds each alias to what the LAST register command for it denoted.  A   *)
(* command counts as what it is aimed at allows.                           *)
(* scripts/run_m5.py keeps the same information in five places (current,   *)
(* current_reason, named, named_reason, store.registered); module RunnerM5 *)
(* is that bookkeeping and is shown to implement this environment.         *)
(***************************************************************************)
EXTENDS Naturals

CONSTANTS Names,     \* script names of modules ("$m")
          NoName,    \* a command without a name: the current module
          Aliases,   \* names given by register
          Instance,  \* module instances
          NoInst     \* no instance

VARIABLES binding,   \* [Targets -> Binding]
          alias,     \* [Aliases -> Instance \cup {NoInst}]
          last       \* the last command: what it was, how it counted

envVars == <<binding, alias, last>>

Targets == Names \cup {NoName}

\* A target is live, or it has a reason for not being live, or no module
\* command of this file has defined it.
Live(i) == [tag |-> "live", inst |-> i]
Dead(t) == [tag |-> t, inst |-> NoInst]

DeadTags == {"unsupported", "failed", "undefined"}
Binding == {Live(i) : i \in Instance} \cup {Dead(t) : t \in DeadTags}

EmptyBinding == [t \in Targets |-> Dead("undefined")]
EmptyAlias == [a \in Aliases |-> NoInst]

\* A command: "as" is the alias of a register command, else NoName.
Command(type, action, target, as, bucket) ==
  [type |-> type, action |-> action, target |-> target, as |-> as,
   bucket |-> bucket]
NoCommand == Command("none", "none", NoName, NoName, "none")

\* What a command chained to something that is not live counts as.
Chain(b) == IF b.tag = "unsupported" THEN "UNSUPPORTED" ELSE "FAIL"
CountsAs(b, bucket) == IF b.tag = "live" THEN bucket ELSE Chain(b)

EnvInit == binding = EmptyBinding /\ alias = EmptyAlias /\ last = NoCommand

\* An instance nothing is bound to yet.
Fresh(i) == /\ \A t \in Targets : binding[t].inst # i
            /\ \A a \in Aliases : alias[a] # i

(* A module command names the current module and, when it carries a name,  *)
(* that name too: both get the outcome it was counted as, whatever they    *)
(* were bound to, and a module that is instantiated is a new instance.     *)
Bind(n, b) ==
  /\ last' = Command("module", "none", n, NoName, CountsAs(b, "modules_ok"))
  /\ b.tag = "live" => Fresh(b.inst)
  /\ binding' = [t \in Targets |-> IF t \in {n, NoName} THEN b ELSE binding[t]]
  /\ UNCHANGED alias

(* A register command makes the alias denote what its source denotes; an   *)
(* alias of something that is not live denotes nothing.                    *)
Alias(src, a) ==
  /\ last' = Command("register", "none", src, a,
                     CountsAs(binding[src], "registered"))
  /\ alias' = [alias EXCEPT ![a] = binding[src].inst]
  /\ UNCHANGED binding

(* A call can only succeed on something live, and counts as the chain says *)
(* otherwise; a get is out of scope whatever it is aimed at.               *)
Succeeds(type) == IF type = "action" THEN "actions_ok" ELSE "PASS"
Call(type, action, t, bucket) ==
  /\ last' = Command(type, action, t, NoName, bucket)
  /\ IF action = "get" THEN bucket = "UNSUPPORTED"
     ELSE IF binding[t].tag = "live"
     THEN bucket \in {Succeeds(type), "FAIL", "UNSUPPORTED"}
     ELSE bucket = Chain(binding[t])
  /\ UNCHANGED <<binding, alias>>

(* The other assertions judge a binary of their own and bind nothing.      *)
Judge(type, bucket) ==
  /\ last' = Command(type, "none", NoName, NoName, bucket)
  /\ UNCHANGED <<binding, alias>>

(* Every file starts from nothing.                                         *)
NewFile ==
  last' = NoCommand /\ binding' = EmptyBinding /\ alias' = EmptyAlias

DefinedOutcome == Binding \ {Dead("undefined")}
CallTypes == {"action", "assert_return", "assert_trap"}
JudgeTypes == {"assert_invalid", "assert_malformed", "assert_uninstantiable",
               "unhandled"}
Verdicts == {"PASS", "FAIL", "UNSUPPORTED"}

EnvNext ==
  \/ \E n \in Targets, b \in DefinedOutcome : Bind(n, b)
  \/ \E src \in Targets, a \in Aliases : Alias(src, a)
  \/ \E type \in CallTypes, action \in {"invoke", "get"}, t \in Targets,
        bucket \in Verdicts \cup {"actions_ok"} : Call(type, action, t, bucket)
  \/ \E type \in JudgeTypes, bucket \in Verdicts : Judge(type, bucket)
  \/ NewFile

EnvSpec == EnvInit /\ [][EnvNext]_envVars
=============================================================================
