--------------------------- MODULE RunnerM5Proofs ---------------------------
(***************************************************************************)
(* Proofs about scripts/run_m5.py (modules RunnerM5 and RunnerM5History)   *)
(* for every set of names and aliases and every number of files, commands  *)
(* and imports.                                                            *)
(***************************************************************************)
EXTENDS RunnerM5History, TLAPS

USE RunnerAssumption

----------------------------------------------------------------------------
(* Every handler counts its command in a bucket that exists.               *)
LEMMA ChainBucketType ==
  ASSUME NEW t PROVE ChainBucket(t) \in Reasons
BY DEF ChainBucket, Reasons

(* A judged call is counted in one of the buckets. *)
LEMMA VerdictType ==
  ASSUME NEW type \in CallTypes, NEW action, NEW t \in Targets,
         NEW r \in CallResults
  PROVE  Verdict(type, Invoke(action, t, r)) \in Buckets
<1> DEFINE ans == Invoke(action, t, r)
<1>1. \/ ans[1] = "bucket" /\ ans[2] \in {"FAIL", "UNSUPPORTED"}
      \/ ans[1] # "bucket"
  BY ChainBucketType DEF Invoke, Reasons, CallResults
<1>2. CASE ans[1] = "bucket" /\ ans[2] \in {"FAIL", "UNSUPPORTED"}
  BY <1>2 DEF Verdict, Buckets
<1>3. CASE ans[1] # "bucket"
  BY <1>3 DEF Verdict, Buckets
<1>4. QED BY <1>1, <1>2, <1>3

(* Counting one command keeps the counters' types and the identity.        *)
LEMMA CountStep ==
  ASSUME TypeOK, Accounting, NEW b \in Buckets, Count(b)
  PROVE  /\ fr' \in [Buckets -> Nat]
         /\ Counted(fr') = Counted(fr) + 1
         /\ done' = done + 1 /\ done \in Nat /\ done' \in 1..MaxCommands
         /\ UNCHANGED <<fileNo, totals, status>>
<1>1. fr \in [Buckets -> Nat] /\ done \in 0..MaxCommands
  BY DEF TypeOK
<1>2. fr' = [fr EXCEPT ![b] = @ + 1] /\ done' = done + 1 /\ done < MaxCommands
  BY DEF Count
<1>3. fr' \in [Buckets -> Nat]
  BY <1>1, <1>2
<1>4. Counted(fr') = Counted(fr) + 1
  <2>1. \A c \in Buckets : fr'[c] = IF c = b THEN fr[c] + 1 ELSE fr[c]
    BY <1>1, <1>2
  <2>2. \A c \in Buckets : fr[c] \in Nat
    BY <1>1
  <2>3. b \in {"modules_ok", "registered", "actions_ok",
               "PASS", "FAIL", "UNSUPPORTED"}
    BY DEF Buckets
  <2>4. QED BY <2>1, <2>2, <2>3 DEF Counted, Buckets
<1>5. QED BY <1>1, <1>2, <1>3, <1>4 DEF Count

----------------------------------------------------------------------------
(* Bookkeeping is inductive: OneAnswer and OwnInstances are what the       *)
(* refinement needs, TypeOK what they need.                                *)
(* A command that changes no name binding keeps the invariant.             *)
LEMMA JudgedStep ==
  ASSUME Bookkeeping, NEW b \in Buckets, Count(b), UNCHANGED env,
         NEW type \in CmdTypes,
         NEW action \in {"none", "invoke", "get"}, NEW t \in Targets,
         Record(type, action, t, NoName, b)
  PROVE  Bookkeeping'
<1>1. /\ fr' \in [Buckets -> Nat]
      /\ Counted(fr') = Counted(fr) + 1
      /\ done' = done + 1 /\ done \in Nat /\ done' \in 1..MaxCommands
      /\ UNCHANGED <<fileNo, totals, status>>
  BY CountStep DEF Bookkeeping
<1>2. TypeOK'
  BY <1>1 DEF Bookkeeping, TypeOK, env, Record
<1>3. Accounting'
  BY <1>1 DEF Bookkeeping, Accounting
<1>4. OneAnswer'
  BY DEF Bookkeeping, OneAnswer, InstanceOf, ReasonOf, env
<1>5. OwnInstances'
  BY <1>1 DEF Bookkeeping, OwnInstances, Reachable, InstanceOf, env
<1>6. QED BY <1>2, <1>3, <1>4, <1>5 DEF Bookkeeping

(* The instance a command would create is named after that command. *)
LEMMA ThisIsNew ==
  ASSUME TypeOK, done < MaxCommands
  PROVE  /\ This \in Instance
         /\ This # NoInst
         /\ This.file = fileNo /\ This.cmd = done + 1
BY DEF TypeOK, This, Instance

(* A module command is counted once and answers for its name and for "the  *)
(* current module".                                                        *)
LEMMA ModuleStep ==
  ASSUME Bookkeeping, NEW n \in Targets, NEW m \in Binaries, Module(n, m)
  PROVE  Bookkeeping'
<1> DEFINE outcome == Outcome(m)
           b == IF outcome = "ok" THEN "modules_ok" ELSE BucketOf(outcome)
<1>1. b \in Buckets /\ (outcome # "ok" => b \in Reasons)
  BY DEF BucketOf, Buckets, Reasons
<1>2. /\ Count(b) /\ Record("module", "none", n, NoName, b)
      /\ UNCHANGED registered
      /\ IF outcome = "ok" THEN ModuleOk(n) ELSE ModuleFailed(n, b)
  BY DEF Module
<1> HIDE DEF b, outcome
<1>3. /\ fr' \in [Buckets -> Nat]
      /\ Counted(fr') = Counted(fr) + 1
      /\ done' = done + 1 /\ done \in Nat /\ done' \in 1..MaxCommands
      /\ UNCHANGED <<fileNo, totals, status>>
  BY <1>1, <1>2, CountStep DEF Bookkeeping
<1>4. Accounting'
  BY <1>3 DEF Bookkeeping, Accounting
<1>5. This \in Instance /\ This # NoInst /\ This.file = fileNo
      /\ This.cmd = done + 1
  BY <1>2, ThisIsNew DEF Bookkeeping, Count
<1>6. CASE outcome = "ok"
  <2>1. ModuleOk(n)
    BY <1>2, <1>6
  <2>2. TypeOK'
    BY <1>1, <1>2, <1>3, <1>5, <2>1 DEF Bookkeeping, TypeOK, ModuleOk, Record, Targets,
                                                CmdTypes
  <2>3. OneAnswer'
    BY <1>5, <2>1 DEF Bookkeeping, TypeOK, OneAnswer, InstanceOf, ReasonOf, ModuleOk, Targets
  <2>4. OwnInstances'
    BY <1>2, <1>3, <1>5, <2>1
       DEF Bookkeeping, TypeOK, OwnInstances, Reachable, InstanceOf, ModuleOk, Targets
  <2>5. QED BY <1>4, <2>2, <2>3, <2>4 DEF Bookkeeping
<1>7. CASE outcome # "ok"
  <2>1. ModuleFailed(n, b) /\ b \in Reasons
    BY <1>1, <1>2, <1>7
  <2>2. TypeOK'
    BY <1>1, <1>2, <1>3, <2>1 DEF Bookkeeping, TypeOK, ModuleFailed, Record, Targets,
                                                CmdTypes
  <2>3. OneAnswer'
    BY <2>1 DEF Bookkeeping, TypeOK, OneAnswer, InstanceOf, ReasonOf, ModuleFailed, Targets
  <2>4. OwnInstances'
    BY <1>2, <1>3, <2>1
       DEF Bookkeeping, TypeOK, OwnInstances, Reachable, InstanceOf, ModuleFailed, Targets
  <2>5. QED BY <1>4, <2>2, <2>3, <2>4 DEF Bookkeeping
<1>8. QED BY <1>6, <1>7

(* register gives an alias what its source has, instance or reason. *)
LEMMA RegisterStep ==
  ASSUME Bookkeeping, NEW src \in Targets, NEW a \in Aliases, Register(src, a)
  PROVE  Bookkeeping'
<1> DEFINE b == IF InstanceOf(src) = NoInst THEN ChainBucket(src)
                ELSE "registered"
<1>1. b \in Buckets
  BY ChainBucketType DEF Reasons, Buckets
<1>2. /\ Count(b) /\ Record("register", "none", src, a, b)
      /\ registered' = [registered EXCEPT ![a] = InstanceOf(src)]
      /\ UNCHANGED <<current, current_reason, named, named_reason>>
  BY DEF Register
<1> HIDE DEF b
<1>3. /\ fr' \in [Buckets -> Nat]
      /\ Counted(fr') = Counted(fr) + 1
      /\ done' = done + 1 /\ done \in Nat /\ done' \in 1..MaxCommands
      /\ UNCHANGED <<fileNo, totals, status>>
  BY <1>1, <1>2, CountStep DEF Bookkeeping
<1>4. InstanceOf(src) \in Instance \cup {NoInst}
  BY DEF Bookkeeping, TypeOK, InstanceOf, Targets
<1>5. TypeOK'
  BY <1>1, <1>2, <1>3, <1>4 DEF Bookkeeping, TypeOK, Record, CmdTypes
<1>6. Accounting'
  BY <1>3 DEF Bookkeeping, Accounting
<1>7. OneAnswer'
  BY <1>2 DEF Bookkeeping, OneAnswer, InstanceOf, ReasonOf
<1>8. OwnInstances'
  <2>1. \A t \in Targets : InstanceOf(t)' = InstanceOf(t)
    BY <1>2 DEF InstanceOf
  <2>2. \A c \in Aliases : registered'[c] \in {registered[c], InstanceOf(src)}
    BY <1>2 DEF Bookkeeping, TypeOK
  <2>3. ASSUME NEW i, Reachable(i) PROVE Reachable(i)'
    BY <1>3, <2>3 DEF Reachable
  <2>4. QED BY <2>1, <2>2, <1>3 DEF Bookkeeping, OwnInstances, Reachable
<1>9. QED BY <1>5, <1>6, <1>7, <1>8 DEF Bookkeeping

(* The next file starts with nothing of this one; its counts are in the    *)
(* totals.                                                                 *)
LEMMA EndFileStep ==
  ASSUME Bookkeeping, EndFile
  PROVE  Bookkeeping'
<1>1. totals' = [b \in Buckets \cup {"total"} |->
                   totals[b] + IF b = "total" THEN done ELSE fr[b]]
  BY DEF EndFile
<1>2. /\ fr \in [Buckets -> Nat] /\ totals \in [Buckets \cup {"total"} -> Nat]
      /\ done \in Nat /\ fileNo \in 1..MaxFiles
  BY DEF Bookkeeping, TypeOK
<1>3. totals' \in [Buckets \cup {"total"} -> Nat]
  <2>1. "total" \notin Buckets
    BY DEF Buckets
  <2>2. \A b \in Buckets \cup {"total"} :
           totals[b] + (IF b = "total" THEN done ELSE fr[b]) \in Nat
    BY <1>2, <2>1
  <2>3. QED BY <1>1, <2>2
<1>4. Counted(totals') = totals'["total"]
  BY <1>1, <1>2 DEF Bookkeeping, Accounting, Counted, Buckets
<1>5. CASE fileNo < MaxFiles
  <2>1. /\ fileNo' = fileNo + 1 /\ done' = 0 /\ fr' = NoCounts
        /\ cmd' = NoCmd /\ FreshRunner /\ UNCHANGED status
    BY <1>5 DEF EndFile
  <2>2. TypeOK'
    BY <1>2, <1>3, <1>5, <2>1
       DEF Bookkeeping, TypeOK, FreshRunner, NoCmd, NoCounts, Targets, Reasons,
           CmdTypes
  <2>3. Accounting'
    BY <1>4, <2>1 DEF Accounting, NoCounts, Counted, Buckets
  <2>4. OneAnswer'
    BY <2>1 DEF OneAnswer, FreshRunner, InstanceOf, ReasonOf, Targets
  <2>5. OwnInstances'
    BY <2>1 DEF OwnInstances, Reachable, FreshRunner, InstanceOf, Targets
  <2>6. QED BY <2>2, <2>3, <2>4, <2>5 DEF Bookkeeping
<1>6. CASE ~(fileNo < MaxFiles)
  <2>1. status' = "reported" /\ UNCHANGED <<fileNo, done, fr, cmd, env>>
    BY <1>6 DEF EndFile
  <2>2. TypeOK'
    BY <1>3, <2>1 DEF Bookkeeping, TypeOK, env
  <2>3. Accounting'
    BY <1>4, <2>1 DEF Bookkeeping, Accounting
  <2>4. OneAnswer' /\ OwnInstances'
    BY <2>1 DEF Bookkeeping, OneAnswer, OwnInstances, Reachable, InstanceOf,
                ReasonOf, env
  <2>5. QED BY <2>2, <2>3, <2>4 DEF Bookkeeping
<1>7. QED BY <1>5, <1>6

(* Before the first command the bookkeeping is in order. *)
LEMMA InitInv == Init => Bookkeeping
<1> SUFFICES ASSUME Init PROVE Bookkeeping
  OBVIOUS
<1>1. TypeOK
  BY DEF Init, EnvInit, TypeOK, NoCmd, NoCounts, Targets, Reasons,
           CmdTypes
<1>2. Accounting
  BY DEF Init, Accounting, NoCounts, Counted, Buckets
<1>3. OneAnswer /\ OwnInstances
  BY DEF Init, EnvInit, OneAnswer, OwnInstances, Reachable, InstanceOf,
         ReasonOf, Targets
<1>4. QED BY <1>1, <1>2, <1>3 DEF Bookkeeping

(* Stopping early leaves the bookkeeping as it is. *)
LEMMA StutterStep ==
  ASSUME Bookkeeping, UNCHANGED <<fileNo, done, env, fr, totals, cmd>>,
         status' \in {"running", "reported", "stopped", "raised"}
  PROVE  Bookkeeping'
BY DEF Bookkeeping, TypeOK, Accounting, OneAnswer, OwnInstances, Reachable,
       InstanceOf, ReasonOf, env

(* Every step keeps the bookkeeping in order. *)
LEMMA NextInv == Bookkeeping /\ [Next]_vars => Bookkeeping'
<1> SUFFICES ASSUME Bookkeeping, [Next]_vars PROVE Bookkeeping'
  OBVIOUS
<1>1. ASSUME NEW n \in Targets, NEW m \in Binaries, Module(n, m) PROVE Bookkeeping'
  BY <1>1, ModuleStep
<1>2. ASSUME NEW src \in Targets, NEW a \in Aliases, Register(src, a)
      PROVE  Bookkeeping'
  BY <1>2, RegisterStep
<1>3. ASSUME NEW type \in CallTypes, NEW action \in {"invoke", "get"},
             NEW t \in Targets, NEW r \in CallResults, Call(type, action, t, r)
      PROVE  Bookkeeping'
  <2> DEFINE b == Verdict(type, Invoke(action, t, r))
  <2>1. b \in Buckets
    BY VerdictType
  <2>2. Count(b) /\ Record(type, action, t, NoName, b) /\ UNCHANGED env
    BY <1>3 DEF Call
  <2>3. type \in CmdTypes /\ action \in {"none", "invoke", "get"}
    BY DEF CallTypes, CmdTypes
  <2> HIDE DEF b
  <2>4. QED BY <2>1, <2>2, <2>3, JudgedStep
<1>4. ASSUME NEW type \in {"assert_invalid", "assert_malformed"},
             NEW format \in {"text", "binary"}, NEW load \in Loads,
             NEW match \in BOOLEAN, AssertRejected(type, format, load, match)
      PROVE  Bookkeeping'
  <2> DEFINE b == IF format # "binary" \/ load = "unsupported"
                  THEN "UNSUPPORTED"
                  ELSE IF load = Rejected(type) /\ match THEN "PASS" ELSE "FAIL"
  <2>1. b \in Buckets /\ NoName \in Targets
    BY DEF Buckets, Targets
  <2>2. Count(b) /\ Record(type, "none", NoName, NoName, b) /\ UNCHANGED env
    BY <1>4 DEF AssertRejected
  <2>3. type \in CmdTypes
    BY DEF CmdTypes
  <2> HIDE DEF b
  <2>4. QED BY <2>1, <2>2, <2>3, JudgedStep
<1>5. ASSUME NEW m \in Binaries, NEW match \in BOOLEAN,
             AssertUninstantiable(m, match)
      PROVE  Bookkeeping'
  <2> DEFINE b == IF Outcome(m) \in OutOfSurface THEN "UNSUPPORTED"
                  ELSE IF Outcome(m) = "traps" /\ match THEN "PASS" ELSE "FAIL"
  <2>1. b \in Buckets /\ NoName \in Targets
    BY DEF Buckets, Targets
  <2>2. /\ Count(b) /\ Record("assert_uninstantiable", "none", NoName, NoName, b)
        /\ UNCHANGED env
    BY <1>5 DEF AssertUninstantiable
  <2>3. "assert_uninstantiable" \in CmdTypes
    BY DEF CmdTypes
  <2> HIDE DEF b
  <2>4. QED BY <2>1, <2>2, <2>3, JudgedStep
<1>6. CASE Unhandled
  <2>1. "UNSUPPORTED" \in Buckets /\ NoName \in Targets
        /\ "unhandled" \in CmdTypes
    BY DEF Buckets, Targets, CmdTypes
  <2>2. QED BY <1>6, <2>1, JudgedStep DEF Unhandled
<1>7. CASE MissingBinary \/ MissingFile \/ UNCHANGED vars
  BY <1>7, StutterStep DEF MissingBinary, MissingFile, vars, Bookkeeping, TypeOK
<1>8. CASE EndFile
  BY <1>8, EndFileStep
<1>9. QED BY <1>1, <1>2, <1>3, <1>4, <1>5, <1>6, <1>7, <1>8 DEF Next

(* The inductive invariant holds of every run of the runner.               *)
THEOREM Invariance == Spec => []Bookkeeping
<1>1. Init => Bookkeeping BY InitInv
<1>2. Bookkeeping /\ [Next]_vars => Bookkeeping' BY NextInv
<1>3. QED BY <1>1, <1>2, PTL DEF Spec

(* Every variable of the runner keeps its type.                            *)
THEOREM TypeCorrect == Spec => []TypeOK
BY Invariance, PTL DEF Bookkeeping

(* The accounting identity run_file and main assert holds at every point   *)
(* of every run, so neither assertion can fail.                            *)
THEOREM AccountingHolds == Spec => []Accounting
BY Invariance, PTL DEF Bookkeeping

(* No lookup finds both an instance and a reason for its absence.          *)
THEOREM OneAnswerHolds == Spec => []OneAnswer
BY Invariance, PTL DEF Bookkeeping

(* No instance of an earlier file, and none that is yet to be created, can *)
(* be reached.                                                             *)
THEOREM OwnInstancesHolds == Spec => []OwnInstances
BY Invariance, PTL DEF Bookkeeping

----------------------------------------------------------------------------
(* The refinement.  BindingOf is the abstract binding of a target; its     *)
(* instance is the one the runner would look up.                           *)
LEMMA BindingInst ==
  ASSUME NEW t PROVE BindingOf(t).inst = InstanceOf(t)
BY DEF BindingOf

(* How a reason is read as a binding. *)
LEMMA TagType ==
  /\ Tag["none"] = "undefined"
  /\ Tag["FAIL"] = "failed" /\ Tag["UNSUPPORTED"] = "unsupported"
BY DEF Tag

\* The abstract variables, and what a step that leaves env alone does to them.
absBinding == [t \in Targets |-> BindingOf(t)]

(* Bindings depend on the five maps alone. *)
LEMMA EnvUnchanged ==
  ASSUME UNCHANGED env
  PROVE  absBinding' = absBinding /\ registered' = registered
<1>1. \A t : BindingOf(t)' = BindingOf(t)
  BY DEF env, BindingOf, InstanceOf, ReasonOf
<1>2. QED BY <1>1 DEF env, absBinding

(* A step that leaves maps and counts alone is a stutter of ScriptEnv. *)
LEMMA EnvStutter ==
  ASSUME UNCHANGED env, UNCHANGED cmd
  PROVE  UNCHANGED Env!envVars
BY EnvUnchanged DEF Env!envVars, absBinding

\* A target is live in the environment when the runner finds an instance,
\* and a chain is UNSUPPORTED there when it is for the runner.
LEMMA LiveIffInstance ==
  ASSUME TypeOK, NEW t \in Targets
  PROVE  absBinding[t].tag = "live" <=> InstanceOf(t) # NoInst
<1>1. ReasonOf(t) \in Reasons \cup {"none"}
  BY DEF TypeOK, ReasonOf, Targets
<1>2. Tag[ReasonOf(t)] # "live"
  BY <1>1, TagType DEF Reasons
<1>3. QED BY <1>2 DEF absBinding, BindingOf

(* A target without an instance is chained to the same bucket in both. *)
LEMMA SameChain ==
  ASSUME TypeOK, NEW t \in Targets, InstanceOf(t) = NoInst
  PROVE  Env!Chain(absBinding[t]) = ChainBucket(t)
<1>1. ReasonOf(t) \in Reasons \cup {"none"}
  BY DEF TypeOK, ReasonOf, Targets
<1>2. absBinding[t].tag = Tag[ReasonOf(t)]
  BY DEF absBinding, BindingOf
<1>3. Tag[ReasonOf(t)] = "unsupported" <=> ReasonOf(t) = "UNSUPPORTED"
  BY <1>1, TagType DEF Reasons
<1>4. QED BY <1>2, <1>3 DEF Env!Chain, ChainBucket

(* A module command sets one binding of ScriptEnv. *)
LEMMA ModuleRefines ==
  ASSUME Bookkeeping, NEW n \in Targets, NEW m \in Binaries, Module(n, m)
  PROVE  Env!EnvNext
<1> DEFINE outcome == Outcome(m)
           b == IF outcome = "ok" THEN "modules_ok" ELSE BucketOf(outcome)
<1>1. /\ Count(b) /\ Record("module", "none", n, NoName, b)
      /\ UNCHANGED registered
      /\ IF outcome = "ok" THEN ModuleOk(n) ELSE ModuleFailed(n, b)
  BY DEF Module
<1>2. (outcome # "ok" => b \in Reasons) /\ (outcome = "ok" => b = "modules_ok")
  BY DEF BucketOf, Reasons
<1> HIDE DEF b, outcome
<1>3. \A t \in Targets : t # n /\ t # NoName => BindingOf(t)' = BindingOf(t)
  BY <1>1 DEF ModuleOk, ModuleFailed, BindingOf, InstanceOf, ReasonOf,
              Targets, Bookkeeping, TypeOK
<1>4. CASE outcome = "ok"
  <2>1. ModuleOk(n) /\ UNCHANGED registered /\ done < MaxCommands
    BY <1>1, <1>4 DEF Count
  <2>2. This \in Instance /\ This # NoInst /\ This.cmd = done + 1
    BY <2>1, ThisIsNew DEF Bookkeeping
  <2>3. \A t \in {n, NoName} : BindingOf(t)' = [tag |-> "live", inst |-> This]
    BY <2>1, <2>2 DEF ModuleOk, BindingOf, InstanceOf, Targets, Bookkeeping, TypeOK
  <2>4. \A i : Reachable(i) => i # This
    <3>1. done \in Nat
      BY DEF Bookkeeping, TypeOK
    <3>2. QED BY <2>2, <3>1 DEF Reachable
  <2>5. /\ \A t \in Targets : absBinding[t].inst # This
        /\ \A a \in Aliases : registered[a] # This
    BY <2>4, BindingInst DEF Bookkeeping, OwnInstances, absBinding
  <2>6. cmd' = Env!Command("module", "none", n, NoName,
                           Env!CountsAs(Env!Live(This), "modules_ok"))
    BY <1>1, <1>2, <1>4 DEF Record, Env!Command, Env!CountsAs, Env!Live
  <2>7. Env!Bind(n, Env!Live(This))
    BY <1>3, <2>1, <2>3, <2>5, <2>6
       DEF Env!Bind, Env!Fresh, Env!Live, Env!Targets, Targets, absBinding
  <2>8. Env!Live(This) \in Env!DefinedOutcome
    BY <2>2 DEF Env!DefinedOutcome, Env!Binding, Env!Live, Env!Dead
  <2>9. QED BY <2>7, <2>8 DEF Env!EnvNext, Env!Targets, Targets
<1>5. CASE outcome # "ok"
  <2> DEFINE tag == Tag[b]
  <2>1. ModuleFailed(n, b) /\ UNCHANGED registered /\ b \in Reasons
    BY <1>1, <1>2, <1>5
  <2>2. /\ tag \in {"failed", "unsupported"}
        /\ b = IF tag = "unsupported" THEN "UNSUPPORTED" ELSE "FAIL"
    BY <2>1, TagType DEF Reasons
  <2>3. \A t \in {n, NoName} : BindingOf(t)' = [tag |-> tag, inst |-> NoInst]
    BY <2>1 DEF ModuleFailed, BindingOf, InstanceOf, ReasonOf, Targets,
                Bookkeeping, TypeOK
  <2> HIDE DEF tag
  <2>4. cmd' = Env!Command("module", "none", n, NoName,
                           Env!CountsAs(Env!Dead(tag), "modules_ok"))
    BY <1>1, <2>2 DEF Record, Env!Command, Env!CountsAs, Env!Dead, Env!Chain
  <2>5. Env!Bind(n, Env!Dead(tag))
    BY <1>3, <2>1, <2>2, <2>3, <2>4
       DEF Env!Bind, Env!Dead, Env!Targets, Targets, absBinding
  <2>6. Env!Dead(tag) \in Env!DefinedOutcome
    BY <2>2 DEF Env!DefinedOutcome, Env!Binding, Env!Dead, Env!Live,
                Env!DeadTags
  <2>7. QED BY <2>5, <2>6 DEF Env!EnvNext, Env!Targets, Targets
<1>6. QED BY <1>4, <1>5

(* register copies a binding to an alias. *)
LEMMA RegisterRefines ==
  ASSUME Bookkeeping, NEW src \in Targets, NEW a \in Aliases, Register(src, a)
  PROVE  Env!EnvNext
<1> DEFINE b == IF InstanceOf(src) = NoInst THEN ChainBucket(src)
                ELSE "registered"
<1>1. /\ registered' = [registered EXCEPT ![a] = InstanceOf(src)]
      /\ UNCHANGED <<current, current_reason, named, named_reason>>
      /\ Record("register", "none", src, a, b)
  BY DEF Register
<1>2. \A t : BindingOf(t)' = BindingOf(t)
  BY <1>1 DEF BindingOf, InstanceOf, ReasonOf
<1>3. b = Env!CountsAs(absBinding[src], "registered")
  BY LiveIffInstance, SameChain DEF Env!CountsAs, Bookkeeping
<1> HIDE DEF b
<1>4. Env!Alias(src, a)
  BY <1>1, <1>2, <1>3, BindingInst
     DEF Env!Alias, Env!Command, Record, absBinding
<1>5. QED BY <1>4 DEF Env!EnvNext, Env!Targets, Targets

\* What a call counts as is what the environment allows it.
LEMMA CallRefines ==
  ASSUME Bookkeeping, NEW type \in CallTypes, NEW action \in {"invoke", "get"},
         NEW t \in Targets, NEW r \in CallResults, Call(type, action, t, r)
  PROVE  Env!EnvNext
<1> DEFINE ans == Invoke(action, t, r)
           b == Verdict(type, ans)
<1>1. Record(type, action, t, NoName, b) /\ UNCHANGED env
  BY DEF Call
<1>2. type \in {"action", "assert_return", "assert_trap"}
  BY DEF CallTypes
<1>3. CASE action = "get"
  <2>1. b = "UNSUPPORTED"
    BY <1>3 DEF Invoke, Verdict
  <2>2. Env!Call(type, action, t, b)
    BY <1>1, <1>3, <2>1, EnvUnchanged
       DEF Env!Call, Env!Command, Record, absBinding
  <2>3. QED BY <1>2, <2>1, <2>2
            DEF Env!EnvNext, Env!CallTypes, Env!Verdicts, Env!Targets, Targets
<1>4. CASE action = "invoke" /\ InstanceOf(t) = NoInst
  <2>1. b = ChainBucket(t)
    BY <1>4 DEF Invoke, Verdict
  <2>2. b = Env!Chain(absBinding[t]) /\ absBinding[t].tag # "live"
    BY <1>4, <2>1, SameChain, LiveIffInstance DEF Bookkeeping
  <2>3. b \in {"FAIL", "UNSUPPORTED"}
    BY <2>1, ChainBucketType DEF Reasons
  <2> HIDE DEF b, ans
  <2>4. Env!Call(type, action, t, b)
    BY <1>1, <1>4, <2>2, EnvUnchanged
       DEF Env!Call, Env!Command, Record, absBinding
  <2>5. QED BY <1>2, <2>3, <2>4
            DEF Env!EnvNext, Env!CallTypes, Env!Verdicts, Env!Targets, Targets
<1>5. CASE action = "invoke" /\ InstanceOf(t) # NoInst
  <2>1. absBinding[t].tag = "live"
    BY <1>5, LiveIffInstance DEF Bookkeeping
  <2>2. \/ ans = <<"bucket", "FAIL">> \/ ans = <<"bucket", "UNSUPPORTED">>
        \/ ans = r /\ r[1] \in {"returns", "traps"}
    BY <1>5 DEF Invoke, CallResults
  <2>3. b \in {Env!Succeeds(type), "FAIL", "UNSUPPORTED"}
    <3>1. CASE ans = <<"bucket", "FAIL">> \/ ans = <<"bucket", "UNSUPPORTED">>
      BY <3>1 DEF Verdict
    <3>2. CASE ans = r /\ r[1] \in {"returns", "traps"}
      BY <1>2, <3>2 DEF Verdict, Passes, Env!Succeeds
    <3>3. QED BY <2>2, <3>1, <3>2
  <2> HIDE DEF b, ans
  <2>4. b \in Env!Verdicts \cup {"actions_ok"}
    BY <2>3 DEF Env!Succeeds, Env!Verdicts
  <2>5. Env!Call(type, action, t, b)
    BY <1>1, <1>5, <2>1, <2>3, EnvUnchanged
       DEF Env!Call, Env!Command, Record, absBinding
  <2>6. QED BY <1>2, <2>4, <2>5
            DEF Env!EnvNext, Env!CallTypes, Env!Targets, Targets
<1>6. QED BY <1>3, <1>4, <1>5

\* A command that judges a binary of its own.
LEMMA JudgeRefines ==
  ASSUME UNCHANGED env, NEW type \in Env!JudgeTypes, NEW b \in Env!Verdicts,
         Record(type, "none", NoName, NoName, b)
  PROVE  Env!EnvNext
<1>1. Env!Judge(type, b)
  BY EnvUnchanged DEF Env!Judge, Env!Command, Record, absBinding
<1>2. QED BY <1>1 DEF Env!EnvNext

(* The end of a file forgets all bindings. *)
LEMMA EndFileRefines ==
  ASSUME Bookkeeping, EndFile
  PROVE  [Env!EnvNext]_(Env!envVars)
<1>1. CASE fileNo < MaxFiles
  <2>1. FreshRunner
    BY <1>1 DEF EndFile
  <2>2. \A t \in Targets : BindingOf(t)' = [tag |-> "undefined", inst |-> NoInst]
    BY <2>1, TagType DEF FreshRunner, BindingOf, InstanceOf, ReasonOf, Targets
  <2>3. Env!NewFile
    BY <1>1, <2>1, <2>2
       DEF Env!NewFile, Env!EmptyBinding, Env!EmptyAlias, Env!Dead, Env!Targets,
           Targets, FreshRunner, EndFile, NoCmd, Env!NoCommand, Env!Command
  <2>4. QED BY <2>3 DEF Env!EnvNext
<1>2. CASE ~(fileNo < MaxFiles)
  BY <1>2, EnvStutter DEF EndFile
<1>3. QED BY <1>1, <1>2

(* Both start with nothing bound. *)
LEMMA InitRefines == Init => Env!EnvInit
<1> SUFFICES ASSUME Init PROVE Env!EnvInit
  OBVIOUS
<1>1. \A t \in Targets : BindingOf(t) = [tag |-> "undefined", inst |-> NoInst]
  BY TagType DEF Init, EnvInit, BindingOf, InstanceOf, ReasonOf, Targets
<1>2. QED BY <1>1 DEF Init, EnvInit, Env!EnvInit, Env!EmptyBinding,
                      Env!EmptyAlias, Env!Dead, Env!Targets, Targets,
                      NoCmd, Env!NoCommand, Env!Command

(* Every step is a step of ScriptEnv, or a stutter. *)
LEMMA NextRefines ==
  Bookkeeping /\ [Next]_vars => [Env!EnvNext]_(Env!envVars)
<1> SUFFICES ASSUME Bookkeeping, [Next]_vars PROVE [Env!EnvNext]_(Env!envVars)
  OBVIOUS
<1>1. ASSUME NEW n \in Targets, NEW m \in Binaries, Module(n, m)
      PROVE  Env!EnvNext
  BY <1>1, ModuleRefines
<1>2. ASSUME NEW src \in Targets, NEW a \in Aliases, Register(src, a)
      PROVE  Env!EnvNext
  BY <1>2, RegisterRefines
<1>3. ASSUME NEW type \in CallTypes, NEW action \in {"invoke", "get"},
             NEW t \in Targets, NEW r \in CallResults, Call(type, action, t, r)
      PROVE  Env!EnvNext
  BY <1>3, CallRefines
<1>4. ASSUME NEW type \in {"assert_invalid", "assert_malformed"},
             NEW format \in {"text", "binary"}, NEW load \in Loads,
             NEW match \in BOOLEAN, AssertRejected(type, format, load, match)
      PROVE  Env!EnvNext
  <2> DEFINE b == IF format # "binary" \/ load = "unsupported"
                  THEN "UNSUPPORTED"
                  ELSE IF load = Rejected(type) /\ match THEN "PASS" ELSE "FAIL"
  <2>1. b \in Env!Verdicts /\ type \in Env!JudgeTypes
    BY DEF Env!Verdicts, Env!JudgeTypes
  <2>2. Record(type, "none", NoName, NoName, b) /\ UNCHANGED env
    BY <1>4 DEF AssertRejected
  <2> HIDE DEF b
  <2>3. QED BY <2>1, <2>2, JudgeRefines
<1>5. ASSUME NEW m \in Binaries, NEW match \in BOOLEAN,
             AssertUninstantiable(m, match)
      PROVE  Env!EnvNext
  <2> DEFINE b == IF Outcome(m) \in OutOfSurface THEN "UNSUPPORTED"
                  ELSE IF Outcome(m) = "traps" /\ match THEN "PASS" ELSE "FAIL"
  <2>1. b \in Env!Verdicts /\ "assert_uninstantiable" \in Env!JudgeTypes
    BY DEF Env!Verdicts, Env!JudgeTypes
  <2>2. /\ Record("assert_uninstantiable", "none", NoName, NoName, b)
        /\ UNCHANGED env
    BY <1>5 DEF AssertUninstantiable
  <2> HIDE DEF b
  <2>3. QED BY <2>1, <2>2, JudgeRefines
<1>6. CASE Unhandled
  <2>1. "UNSUPPORTED" \in Env!Verdicts /\ "unhandled" \in Env!JudgeTypes
    BY DEF Env!Verdicts, Env!JudgeTypes
  <2>2. QED BY <1>6, <2>1, JudgeRefines DEF Unhandled
<1>7. CASE EndFile
  BY <1>7, EndFileRefines
<1>8. CASE MissingBinary \/ MissingFile \/ UNCHANGED vars
  BY <1>8, EnvStutter DEF MissingBinary, MissingFile, vars
<1>9. QED BY <1>1, <1>2, <1>3, <1>4, <1>5, <1>6, <1>7, <1>8 DEF Next

(* run_m5's bookkeeping implements the environment of the script: whatever *)
(* the commands and however they fail, a name, the current module and an   *)
(* alias denote what the last command about them was counted as, and a     *)
(* later command counts as what it is aimed at allows.                     *)
THEOREM RunnerImplementsEnv == Spec => ImplementsEnv
<1>1. Init => Env!EnvInit BY InitRefines
<1>2. Bookkeeping /\ [Next]_vars => [Env!EnvNext]_(Env!envVars) BY NextRefines
<1>3. Spec => []Bookkeeping BY Invariance
<1>4. QED BY <1>1, <1>2, <1>3, PTL DEF Spec, ImplementsEnv, Env!EnvSpec

----------------------------------------------------------------------------
(* The history only watches: what is proved of RunnerM5 holds here.        *)
THEOREM HistoryWatches == HSpec => Spec
<1>1. HInit => Init
  BY DEF HInit
<1>2. [HNext]_hvars => [Next]_vars
  <2>1. HJudged => Next
    BY DEF HJudged, Next
  <2>2. (\E n \in Targets, m \in Binaries : HModule(n, m)) => Next
    BY DEF HModule, Next
  <2>3. (\E src \in Targets, a \in Aliases : HRegister(src, a)) => Next
    BY DEF HRegister, Next
  <2>4. HEndFile => Next
    BY DEF HEndFile, Next
  <2>5. UNCHANGED hvars => UNCHANGED vars
    BY DEF hvars
  <2> QED BY <2>1, <2>2, <2>3, <2>4, <2>5 DEF HNext
<1> QED BY <1>1, <1>2, PTL DEF HSpec, Spec

----------------------------------------------------------------------------
(* What a target was last told is what its entries say: an instance, a     *)
(* reason, or neither; and an alias has an instance when it was told so.   *)
Reports(t) ==
  /\ told[t] \in {"modules_ok", "FAIL", "UNSUPPORTED", "none"}
  /\ InstanceOf(t) # NoInst <=> told[t] = "modules_ok"
  /\ ReasonOf(t) = IF told[t] \in Reasons THEN told[t] ELSE "none"
Exported(a) == registered[a] # NoInst <=> aliasTold[a] = "registered"
Remembers ==
  /\ DOMAIN told = Targets /\ DOMAIN aliasTold = Aliases
  /\ \A t \in Targets : Reports(t)
  /\ \A a \in Aliases : Exported(a)

HInv == (status = "running" => Remembers) /\ ChainVerdict

(* Before the first command nothing has been told. *)
LEMMA InitHInv == HInit => HInv
<1> SUFFICES ASSUME HInit PROVE HInv
  OBVIOUS
<1>1. \A t \in Targets : InstanceOf(t) = NoInst /\ ReasonOf(t) = "none"
  BY DEF HInit, Init, EnvInit, InstanceOf, ReasonOf, Targets
<1>2. Remembers
  BY <1>1 DEF HInit, Init, EnvInit, Untold, AliasUntold, Remembers, Reports,
              Exported, Reasons
<1>3. ChainVerdict
  BY DEF HInit, Init, NoCmd, CallTypes, ChainVerdict, Chained
<1> QED BY <1>2, <1>3 DEF HInv

(* A command that binds nothing and is not chained to a module.            *)
LEMMA UnchainedStep ==
  ASSUME HInv, status = "running", UNCHANGED <<env, told, aliasTold>>,
         ~Chained' \/ status' # "running"
  PROVE  HInv'
<1>1. Remembers'
  BY DEF HInv, Remembers, Reports, Exported, InstanceOf, ReasonOf, env
<1>2. ChainVerdict'
  BY DEF ChainVerdict
<1> QED BY <1>1, <1>2 DEF HInv

----------------------------------------------------------------------------
(* A module command is remembered by the targets it set, with the cause it *)
(* was counted for.                                                        *)
LEMMA ModuleHInv ==
  ASSUME Bookkeeping, HInv, NEW n \in Targets, NEW m \in Binaries, HModule(n, m)
  PROVE  HInv'
<1> DEFINE outcome == Outcome(m)
           b == IF outcome = "ok" THEN "modules_ok" ELSE BucketOf(outcome)
<1>1. /\ Record("module", "none", n, NoName, b) /\ Count(b)
      /\ IF outcome = "ok" THEN ModuleOk(n) ELSE ModuleFailed(n, b)
      /\ UNCHANGED <<registered, aliasTold>>
  BY DEF HModule, Module
<1>2. (outcome # "ok" => b \in Reasons) /\ (outcome = "ok" => b = "modules_ok")
  BY DEF BucketOf, Reasons
<1> HIDE DEF b, outcome
<1>3. cmd'.bucket = b /\ cmd'.type = "module" /\ status = "running"
  BY <1>1 DEF Record, Count
<1>4. told' = [t \in Targets |-> IF t \in {n, NoName} THEN b ELSE told[t]]
  BY <1>3 DEF HModule
<1>5. Remembers
  BY <1>3 DEF HInv
<1>6. \A t \in {n, NoName} : t \in Targets
  BY DEF Targets
<1>7. \A t \in Targets : t \notin {n, NoName} =>
        InstanceOf(t)' = InstanceOf(t) /\ ReasonOf(t)' = ReasonOf(t)
  BY <1>1 DEF ModuleOk, ModuleFailed, InstanceOf, ReasonOf, Targets,
              Bookkeeping, TypeOK
<1>8. \A t \in {n, NoName} :
        IF outcome = "ok" THEN InstanceOf(t)' = This /\ ReasonOf(t)' = "none"
        ELSE InstanceOf(t)' = NoInst /\ ReasonOf(t)' = b
  BY <1>1 DEF ModuleOk, ModuleFailed, InstanceOf, ReasonOf, Targets,
              Bookkeeping, TypeOK
<1>9. This # NoInst
  BY <1>1, ThisIsNew DEF Bookkeeping, Count
<1>10. ASSUME NEW t \in Targets PROVE Reports(t)'
  <2>1. CASE t \in {n, NoName}
    <3>1. told'[t] = b
      BY <1>4, <2>1
    <3>2. CASE outcome = "ok"
      BY <1>2, <1>8, <1>9, <2>1, <3>1, <3>2 DEF Reports, Reasons
    <3>3. CASE outcome # "ok"
      BY <1>2, <1>8, <2>1, <3>1, <3>3 DEF Reports, Reasons
    <3> QED BY <3>2, <3>3
  <2>2. CASE t \notin {n, NoName}
    BY <1>4, <1>5, <1>7, <2>2 DEF Reports, Remembers
  <2> QED BY <2>1, <2>2
<1>11. Remembers'
  BY <1>1, <1>4, <1>5, <1>10 DEF Remembers, Exported
<1>12. ~Chained'
  BY <1>3 DEF Chained, CallTypes
<1> QED BY <1>11, <1>12 DEF HInv, ChainVerdict

(* register hands its source's cause on to the alias. *)
LEMMA RegisterHInv ==
  ASSUME Bookkeeping, HInv, NEW src \in Targets, NEW a \in Aliases,
         HRegister(src, a)
  PROVE  HInv'
<1> DEFINE b == IF InstanceOf(src) = NoInst THEN ChainBucket(src)
                ELSE "registered"
<1>1. /\ registered' = [registered EXCEPT ![a] = InstanceOf(src)]
      /\ UNCHANGED <<current, current_reason, named, named_reason, told>>
      /\ Record("register", "none", src, a, b) /\ Count(b)
  BY DEF HRegister, Register
<1>2. /\ cmd'.bucket = b /\ cmd'.type = "register" /\ cmd'.target = src
      /\ status = "running"
  BY <1>1 DEF Record, Count
<1>3. aliasTold' = [aliasTold EXCEPT ![a] = b]
  BY <1>2 DEF HRegister
<1>4. Remembers
  BY <1>2 DEF HInv
<1>5. /\ InstanceOf(src) = NoInst => b = ChainBucket(src) /\ b \in Reasons
      /\ InstanceOf(src) # NoInst => b = "registered"
  BY ChainBucketType
<1> HIDE DEF b
<1>6. \A t \in Targets : Reports(t)'
  BY <1>1, <1>4 DEF Remembers, Reports, InstanceOf, ReasonOf
<1>7. ASSUME NEW x \in Aliases PROVE Exported(x)'
  <2>1. registered \in [Aliases -> Instance \cup {NoInst}]
    BY DEF Bookkeeping, TypeOK
  <2>2. CASE x = a
    BY <1>1, <1>3, <1>4, <1>5, <2>1, <2>2 DEF Exported, Remembers, Reasons
  <2>3. CASE x # a
    BY <1>1, <1>3, <1>4, <2>1, <2>3 DEF Exported, Remembers
  <2> QED BY <2>2, <2>3
<1>8. Remembers'
  BY <1>1, <1>3, <1>4, <1>6, <1>7 DEF Remembers
<1>9. ChainVerdict'
  <2>1. Reports(src)
    BY <1>4 DEF Remembers
  <2>2. told'[cmd'.target] = told[src] /\ cmd'.bucket = b
    BY <1>1, <1>2
  <2>3. told[src] \in {"FAIL", "none"} => b = "FAIL"
    BY <1>5, <2>1 DEF Reports, ChainBucket, Reasons
  <2>4. told[src] = "UNSUPPORTED" => b = "UNSUPPORTED"
    BY <1>5, <2>1 DEF Reports, ChainBucket, Reasons
  <2>5. b \in {"PASS", "actions_ok", "registered"} => told[src] = "modules_ok"
    BY <1>5, <2>1 DEF Reports, Reasons
  <2> QED BY <2>2, <2>3, <2>4, <2>5 DEF ChainVerdict
<1> QED BY <1>8, <1>9 DEF HInv

(* A call of a module that is not there counts as the module did.          *)
LEMMA CallHInv ==
  ASSUME HInv, UNCHANGED <<told, aliasTold>>,
         NEW type \in CallTypes, NEW action \in {"invoke", "get"},
         NEW t \in Targets, NEW x \in CallResults, Call(type, action, t, x)
  PROVE  HInv'
<1> DEFINE ans == Invoke(action, t, x)
           b == Verdict(type, ans)
<1>1. Record(type, action, t, NoName, b) /\ UNCHANGED env /\ Count(b)
  BY DEF Call
<1>2. /\ cmd'.bucket = b /\ cmd'.type = type /\ cmd'.target = t
      /\ cmd'.action = action /\ status = "running"
  BY <1>1 DEF Record, Count
<1>3. CASE action = "get"
  <2>1. ~Chained'
    BY <1>2, <1>3 DEF Chained
  <2> QED BY <1>1, <1>2, <2>1, UnchainedStep
<1>4. CASE action = "invoke"
  <2>1. Remembers /\ Reports(t)
    BY <1>2 DEF HInv, Remembers
  <2>2. InstanceOf(t) = NoInst => b = ChainBucket(t)
    BY <1>4 DEF Invoke, Verdict
  <2> HIDE DEF b, ans
  <2>3. told[t] \in {"FAIL", "none"} => b = "FAIL"
    BY <2>1, <2>2 DEF Reports, ChainBucket, Reasons
  <2>4. told[t] = "UNSUPPORTED" => b = "UNSUPPORTED"
    BY <2>1, <2>2 DEF Reports, ChainBucket, Reasons
  <2>5. b \in {"PASS", "actions_ok", "registered"} => told[t] = "modules_ok"
    BY <2>1, <2>2 DEF Reports, ChainBucket, Reasons
  <2>6. ChainVerdict'
    BY <1>2, <2>3, <2>4, <2>5 DEF ChainVerdict
  <2>7. Remembers'
    BY <1>1, <2>1 DEF Remembers, Reports, Exported, InstanceOf, ReasonOf, env
  <2> QED BY <2>6, <2>7 DEF HInv
<1> QED BY <1>3, <1>4

(* The end of a file forgets what was told in it. *)
LEMMA EndFileHInv == ASSUME HEndFile PROVE HInv'
<1>1. EndFile /\ told' = Untold /\ aliasTold' = AliasUntold
  BY DEF HEndFile
<1>2. CASE fileNo < MaxFiles
  <2>1. FreshRunner /\ cmd' = NoCmd
    BY <1>1, <1>2 DEF EndFile
  <2>2. \A t \in Targets : InstanceOf(t)' = NoInst /\ ReasonOf(t)' = "none"
    BY <2>1 DEF FreshRunner, InstanceOf, ReasonOf, Targets
  <2>3. Remembers'
    BY <1>1, <2>1, <2>2 DEF FreshRunner, Untold, AliasUntold, Remembers, Reports,
                            Exported, Reasons
  <2>4. ~Chained'
    BY <2>1 DEF NoCmd, CallTypes, Chained
  <2> QED BY <2>3, <2>4 DEF HInv, ChainVerdict
<1>3. CASE ~(fileNo < MaxFiles)
  <2>1. status' = "reported"
    BY <1>1, <1>3 DEF EndFile
  <2> QED BY <2>1 DEF HInv, ChainVerdict
<1> QED BY <1>2, <1>3

(* A judged command leaves what the targets were told. *)
LEMMA JudgedHInv == ASSUME HInv, HJudged PROVE HInv'
<1>0. UNCHANGED <<told, aliasTold>>
  BY DEF HJudged
<1>1. ASSUME NEW type \in CallTypes, NEW action \in {"invoke", "get"},
             NEW t \in Targets, NEW x \in CallResults, Call(type, action, t, x)
      PROVE  HInv'
  BY <1>0, <1>1, CallHInv
<1>2. ASSUME NEW type \in {"assert_invalid", "assert_malformed"},
             NEW format \in {"text", "binary"}, NEW load \in Loads,
             NEW match \in BOOLEAN, AssertRejected(type, format, load, match)
      PROVE  HInv'
  <2>1. UNCHANGED env /\ status = "running" /\ cmd'.type = type
    BY <1>2 DEF AssertRejected, Count, Record
  <2>2. ~Chained'
    BY <2>1 DEF Chained, CallTypes
  <2> QED BY <1>0, <2>1, <2>2, UnchainedStep
<1>3. ASSUME NEW m \in Binaries, NEW match \in BOOLEAN,
             AssertUninstantiable(m, match)
      PROVE  HInv'
  <2>1. /\ UNCHANGED env /\ status = "running"
        /\ cmd'.type = "assert_uninstantiable"
    BY <1>3 DEF AssertUninstantiable, Count, Record
  <2>2. ~Chained'
    BY <2>1 DEF Chained, CallTypes
  <2> QED BY <1>0, <2>1, <2>2, UnchainedStep
<1>4. CASE Unhandled
  <2>1. UNCHANGED env /\ status = "running" /\ cmd'.type = "unhandled"
    BY <1>4 DEF Unhandled, Count, Record
  <2>2. ~Chained'
    BY <2>1 DEF Chained, CallTypes
  <2> QED BY <1>0, <2>1, <2>2, UnchainedStep
<1>5. CASE MissingBinary \/ MissingFile
  <2>1. UNCHANGED env /\ status = "running" /\ status' # "running"
    BY <1>5 DEF MissingBinary, MissingFile
  <2> QED BY <1>0, <2>1, UnchainedStep
<1> QED BY <1>1, <1>2, <1>3, <1>4, <1>5 DEF HJudged

----------------------------------------------------------------------------
(* Every step keeps the history and the bookkeeping in agreement. *)
LEMMA NextHInv == Bookkeeping /\ HInv /\ [HNext]_hvars => HInv'
<1> SUFFICES ASSUME Bookkeeping, HInv, [HNext]_hvars PROVE HInv'
  OBVIOUS
<1>1. ASSUME NEW n \in Targets, NEW m \in Binaries, HModule(n, m) PROVE HInv'
  BY <1>1, ModuleHInv
<1>2. ASSUME NEW src \in Targets, NEW a \in Aliases, HRegister(src, a)
      PROVE  HInv'
  BY <1>2, RegisterHInv
<1>3. CASE HJudged
  BY <1>3, JudgedHInv
<1>4. CASE HEndFile
  BY <1>4, EndFileHInv
<1>5. CASE UNCHANGED hvars
  BY <1>5 DEF hvars, vars, env, HInv, Remembers, Reports, Exported, InstanceOf,
              ReasonOf, ChainVerdict, Chained
<1> QED BY <1>1, <1>2, <1>3, <1>4, <1>5 DEF HNext

(* While a file runs, what each name and alias has - an instance, a reason *)
(* or nothing - is what the last command about it was counted as, and each *)
(* chain is counted as its cause.                                          *)
THEOREM HistoryInvariance == HSpec => []HInv
<1>1. HSpec => []Bookkeeping
  BY HistoryWatches, Invariance, PTL
<1> QED BY <1>1, InitHInv, NextHInv, PTL DEF HSpec

(* Whatever a script does, a command chained to a module counts as the     *)
(* module did, and passes only after one that was counted modules_ok.      *)
THEOREM ChainsCountAsTheirCause == HSpec => []ChainVerdict
<1>1. HInv => ChainVerdict
  BY DEF HInv
<1> QED BY <1>1, HistoryInvariance, PTL

(* A module can be invoked, and an alias imported from, exactly when the   *)
(* last command about it was counted a success.                            *)
THEOREM LiveExactlyAsCounted == HSpec => []LiveAsCounted
<1>1. HInv => LiveAsCounted
  BY DEF HInv, Remembers, Reports, Exported, LiveAsCounted
<1> QED BY <1>1, HistoryInvariance, PTL
=============================================================================
