# A verification development for wasm-oracle

wasm-oracle runs the WebAssembly specification's own test scripts against small
Python engines and counts, command by command, what agrees with the oracle. Two
engines live side by side: `interp/` (milestones M1-M4, frozen) and `interp5/`
(milestone M5, the full MVP). A number the project reports is only worth
something if two things hold: the engine does what WebAssembly says, and the
runner never counts a disagreement as something else. This directory states both
kinds of property in TLA+, checks them with TLC on small instances and proves
the most important ones with TLAPS for every value of the constants.

The program is sequential. There are no threads, no messages and no timeouts;
what is hard here is *stale state* (a name that still denotes the module before
last), *protocol sequences* (a long script of legal commands that reaches a state
nobody tested), *partial failure* (half of an instantiation persists), *shared
objects* (a memory imported by three instances), and *numeric edges*.

## 1. Inventory

| Component (source) | State | Operations | Works with |
|---|---|---|---|
| M5 runner (`scripts/run_m5.py`) | `_Runner.current`, `current_reason`, `named`, `named_reason`, `Store.registered`; `FileResult` counters; `main`'s totals | a handler for each script command, `run_file`, `main` | calls decoder, validator, `instantiate` and `invoke`; reads the conversion report |
| M5 engine, memory (`interp5/machine.py` `Memory`) | `pages`, `n_pages`, `max_pages` | `grow`, `read`, `write` | load, store and grow instructions; data segments; shared by imports |
| M5 engine, linking (`Store`, `instantiate`, `invoke`) | instances and the memories, tables, global cells and functions they share; the alias map; the call depth | resolve and match imports, allocate, apply segments, start, invoke, `call`, `call_indirect` | runner (register), memory |
| M5 engine, control (`_parse_seq`, `_exec_block`, `_do_br`, `_call`) | operand stack, locals, labels, frame count | structured instructions, branches, return, traps | relies on the validator |
| M5 engine, numerics (`_ibinop`, `_icompare`, `interp5/fvalues.py`) | none | integer and IEEE operations on bit patterns | control |
| M5 validator (`interp5/validator.py`) | value stack and control stack of one function | one rule per instruction; module-level checks | runner, decoder's `Module` |
| M5 decoder (`interp5/decoder.py`) | a reader's position and limit; the last section seen | LEB128, names, sections, instructions | runner |
| Frozen engine (`interp/`) | as above, for the M1-M4 surface | decode, validate, execute | frozen runners |
| Frozen runners (`scripts/run_skeleton.py`, `run_m1.py` ... `run_m4.py`) | counters | scan or run a converted corpus | frozen engine |
| Pipeline (`scripts/convert*.py`, `check_regression_m5.py`, `fetch_oracle.py`) | files under `vendor/` and `build/` | fetch, convert, gate | runners read what it writes |
| Reports (`tools/*.py`) | none that outlives a run | enumerate scopes, check purity | docs |

How they interact: `fetch_oracle` puts the specification's tests and the converter
in place; `convert_m5` turns each `.wast` file into a JSON list of commands and
binaries and writes a report; `run_m5` reads that report and, for each file,
makes a new `_Runner` with a new `Store` and hands it the commands in order. A
`module` command decodes, validates and instantiates; `register` puts an instance
in the store, where later imports find it; actions and assertions invoke.
Everything is a plain call; what components share is the store's objects.

What makes each part correct:

* *Runner*: every command is in exactly one bucket; a name, an alias and "the
  current module" denote what the **last** command about them produced; what is
  chained to a failure counts as the failure did.
* *Memory*: it answers like a flat array of zeroed bytes; an access that does
  not fit writes nothing; growing never passes the cap.
* *Linking*: an import stays within what its importer declared, whoever grows it
  later; a function is only entered at the type its call site was validated for,
  and runs against its own instance; constants stay constant; a trap keeps what
  was done before it and does nothing more; recursion ends at the frame cap.
* *Control and validator*: a validated body never finds an operand missing or of
  another type, and every branch leaves the stack as its label says.
* *Decoder*: exactly the well-formed encodings are accepted.
* *Numerics*: each operation equals the specification's, at the edges too.
* *Pipeline*: a partial or drifted conversion is never reported as a sweep.

The hazards behind these, each at the line where it bites, are listed in
`PROJECT.json`.

## 2. Plan

Built in the order of what the reported numbers depend on most.

| | Modules | Abstract specification or reference | Theorems | State |
|---|---|---|---|---|
| A | `RunnerM5`, `RunnerM5History` (adds a history of causes) | `ScriptEnv` | bookkeeping, chains, refinement | done |
| B | `LazyMemory` | `FlatMemory` | consistency, refinement | done |
| C | `Linker`: instances over shared objects | - | all its safety and action properties | done |
| D | `Validator5` and `Machine5`: what the first accepts the second executes | the typed stack machine | stack discipline; a validated body runs as validated | done |
| E | `Validator1` (with D's validator) and `Machine1` (with D's machine) | `Validator5`, `Machine5` | the two validators are one | done; the machines' agreement is recursive, and checked |
| F | `ByteReader`, `Decoder5`, `Decoder1` | `LebMeaning`: the bytes of an integer; the encoding of a module, written out | LEB128 read exactly, by both engines | done; sections and bodies are data, and checked |
| G | `FValues` | `FMeaning`: extended reals, rounded once | special values, integers from floats, every result rounded once, in every format | done |
| H | `IntOps` | `IntMeaning`: mathematical integers and bits | every instruction exact, and the same in both machines | done |
| I | `RunnerM1`, `RunnerM4`, `EnumerateM4` | what the oracle and the curation say | every property of the run | done |
| J | `Pipeline`: fetch, convert, run, gate, interrupted anywhere | complete corpus or refused | every property of the run | done |
| K | `Module5`: module-level validation, then instantiation | the declared index spaces | every property of the run | done |

*What composes what.* `Validator1` EXTENDS `Validator5` and moves both validators
on the same instruction; `Machine5` EXTENDS `Validator5`; `Machine1` EXTENDS both, so
that one run carries a body through two validators and two machines.
`MCDecoders` puts `Decoder1` beside `Decoder5`, `Numeric` the integer core beside the
float core. `EnumerateM4` EXTENDS `RunnerM4`, whose scope it writes, and
`FrozenRunners` adds `RunnerM1`. `RunnerM5` abstracts an instantiation to its outcome;
`Linker` and `Module5` show which outcomes there are. `Linker` takes a body to be
well typed and its indices to be in range; `Validator5`, `Machine5` and `Module5` show
that it is so. `Pipeline` takes a runner's counts to be those of the files it read;
`RunnerM1` shows what they are.

A component's theorems are in the module of its name with `Proofs` added (of its
validator's or runner's: `Machine5Proofs` is about both validators and the M5 machine,
`NumericProofs` about `IntOps`, `IntMeaning`, `ByteReader`, `LebMeaning` and what `FValues` and `FMeaning`
say apart from rounding, `FloatProofs`, which builds on it, about how these round, `RunnerM5Proofs` about `RunnerM5History` too, `ScriptProofs` about
`RunnerM1`, `RunnerM4`, `EnumerateM4` and `Pipeline`).

*Open.* Proofs about the decoders' sections and bodies and about the two machines'
agreement: section 5 says what stands in the way of each.

Conventions: constants carry named assumptions; each operation is one action;
invariants are conjunctions of named parts; no module that is proved about
reaches a `RECURSIVE` operator. Operators marked `Mutant:` in a module are
deliberate bugs, each a variant of the definition that follows it: substituting
it must break the property `PROJECT.json` pairs it with.

## 3. What is modelled

### `RunnerM5`, `ScriptEnv`, `RunnerM5History` - the runner

`RunnerM5` keeps the five pieces of bookkeeping under the code's names. Each
handler is an action: `Module`, `Register`, `Call` (action, assert_return,
assert_trap and assert_exhaustion, which share `_invoke`), `AssertRejected`
(assert_invalid, assert_malformed), `AssertUninstantiable`, `Unhandled`; `EndFile`
is `run_file` returning and `main` moving on; `MissingFile` and `MissingBinary`
are the two ways a run stops early. A command's data is abstracted to what its
handler tells apart: how its binary loads, whether each import resolves and fits,
how its call ends. `BucketOf` and `ChainBucket` are the two counting rules. An
instance is named by the command that created it, so "stale" can be said.

`ScriptEnv` is what a script means: **one** binding per name, set by the last
module command that carried the name, and one per alias. It shows the last command
and the bucket it was counted in, so that counting wrongly is not an allowed
step. `RunnerM5!ImplementsEnv` is the refinement, the five maps read as one.

`RunnerM5History` adds what each name and alias was last *told*, what the module
an alias was registered from had been told, and so which kind of failure an import
was lost to, and states what the documentation says of chains.

### `LazyMemory`, `FlatMemory` - linear memory

`LazyMemory` is `Memory`: pages in a partial function, materialised on first
write; `read` and `write` as the loops they are, one chunk per step
(`ReadChunk`, `WriteChunk`), with the bounds check before the loop.
`FlatMemory` is an array of bytes, as the frozen engine's memory is, that answers
every request at once; an answer carries its request. The refinement maps the
pages, together with the bytes a write under way has still to copy, to the flat
array: the flat write happens when the bounds check passes, the copying is
stuttering, and the answer to a read must be what the flat memory held.

### `Linker` - instances that share objects

`insts` holds, per instance, its module and index spaces; `mems`, `tabs`, `cells`
are the objects, which index spaces of several instances may name. `Instantiate`
resolves and matches all imports, allocates and evaluates global initialisers; then
`ElemSegment`, `DataSegment` (one segment a step, so a trap leaves the earlier ones
applied) and `Start`. `Invoke`, `Call`, `CallIndirect`, `Enter` and `Return` are
calls between instances under the frame cap; `Grow`, `MemStore` and `GlobalSet` are
the instructions that change shared objects; `Register` and `Unregister` are the
runner's. A trap drops all frames and keeps all writes. An instance whose
instantiation trapped is never handed out, yet its functions may lie in a shared
table and be called: the model has this. `Module` is the shape of a module and
`Validated` what `validate_module` has made sure of before the linker sees one; both are
assumed of `Modules` (`LinkerAssumption`), and `Module5` shows the latter.

### `Module5` - module-level validation, then instantiation

`Validate` is `validate_module`, one section a step in the validator's order;
when all pass, the remaining stages are `instantiate`'s, which fills the index
spaces in an order of its own (`ResolveImports`, `DefineGlobal`, `DefineFuncs`,
`DefineExports`, `WriteElems`, `WriteDatas`, `Start`), and then any instruction of any
function that names an index (`Call`). A list read past its end is the outcome `IndexError`, as in
Python, wherever the code indexes without looking. `FrozenAccepts` is
`validate_module` of the frozen engine on the modules that engine can hold. What a decoder
makes of a file is `ModulesAssumption`: indices and limits are naturals, and a module
defines at most one memory, as both decoders see to (`interp5/decoder.py:520-541`,
`interp/decoder.py:259`); the run's modules have no second table or memory, imported ones
included. `ObjectsAssumption` says that the store's global cells hold a value of their
type, which is what `GlobalsKeepTheirWord` gives back for the cells made here.

### `Validator5`, `Machine5` - a function body is validated, then run

`Validator5` is `_FuncValidator`: `vals` and `ctrls` are its two stacks. The rules
of `_instr` come in two halves: `Allows` collects what a rule checks (`CanPop` is
`_pop_many` with its answer for unreachable code, `CanClose` is `_pop_ctrl`,
`BrTableAllowed` the loop over the targets), and the actions `Plainly`, `Drop`,
`Select`, `Open`, `Else`, `End`, `BrIf` and `Leave` what it leaves on the stacks. An
instruction is given by what the rules see of it: the many that only pop
operands and push results are `plain` with their type. `Check` appends any
instruction of the instance, so the bodies are **all** bodies up to a length; a
`ValidationError` is final.

`Machine5` runs an accepted body with no check of its own, as
`_exec_block`, `_exec_seq` and `_exec_instr` do. Instead of the tree that
`_parse_seq` builds, it keeps the flat body and where each block's else and
end are (`EndOf`, `ElseOf`); a branch is an exception that one handler after
another sees (`branch`, `Unwind`). A value is its type and a condition is a choice,
so every path is taken. The history variable `trace` keeps the validator's stacks
before each instruction, which is what `Agreement` compares with. A missing
operand is the outcome `crashed`. What an instruction that calls does beyond its
own operands is `Linker`'s.

### `Validator1`, `Machine1` - the frozen engine on the same body

`Validator1` is the frozen `_FuncValidator`, rule by rule (`f_stack`, `f_ctrls`,
`f_verdict`), and moves with the M5 one: `Both` gives the same instruction to the
two. Outside the frozen surface the frozen one says unsupported and is out.
The two differ in more than layout: the frozen one edits an if's frame at its else
where M5 pops it and pushes another, and has no wildcard.

`Machine1` is `_structure` and `_parse_seq`, which build a tree, and the recursive
`_exec_seq`, `_exec_block` and `_do_br` over it, whose pops check nothing. A branch is a
returned value, not an exception. While `Machine5` runs a body it writes down the
way it went at every condition and table (`choices`), and the frozen machine is
run on these.

### `ByteReader`, `LebMeaning`, `Decoder5`, `Decoder1` - from bytes to modules

A reader is a record of bytes, position, limit and the error it met; `Uleb` and
`Sleb` are the strict LEB128 readers of M5, `FrozenUleb` and `FrozenSleb` those of the
frozen engine, which check neither length nor range. A loop over `range(n)` is a recursive
function of the turns taken (`Looped`). `LebMeaning` goes the other way, from integers to
all their byte forms, and reads any bytes at any position under any limit. Bytes are
real bytes, with groups of seven bits; the widths of integers are scaled so that one has several
bytes. `Decoder5` takes one section a step through `decode`'s loop, with a history of
where each lay (`layout`); each section's loop over its entries, each immediate and
each body is an operator that consumes the reader. `Decoder1` is the frozen decoder,
whose reader has no section limit: reads run on into the next section and only the
end is compared.

### `IntOps`, `FValues` - what instructions compute

`IntOps` has both integer cores: `_ibinop`, `_icompare`, counts, conversions and
extensions of M5, and the frozen ones with their own formulas for division, signs
and extensions. What both write alike is one definition here, so `FrozenSame` tells
them apart where the formulas differ; that the rest is right is `IntegersExact`.
`IntMeaning` says what every operation means, on integers and on bit positions, and
gives an instruction any operands it can have. `FValues` is `fvalues.py` on bit
patterns of two scaled formats: the path through the wide format (`b2f`, the operation, `f2b`), the special cases before it,
the way Python raises. What CPython, `struct` and `math` do is external and
modelled as the exact result rounded once to the wide format. `FMeaning` says what
the result should be: the exact value on the extended reals, rounded once to the
format of the result.

### `RunnerM1`, `RunnerM4`, `EnumerateM4` - the frozen runners

`RunnerM1` is `run_file` and `main` of `run_m1.py`, which `run_m2.py` and `run_m3.py` call
too: a command a step, with every outcome of the engine, every exception the
handlers catch and those they do not. Histories: which module command was the last
(`module`), and whether the engine ever differed from the oracle (`mismatch`).
`RunnerM4` is `load_scope`, which refuses a curation that contradicts itself or the
numbers in the script, `evaluate_record`, and the gate. `EnumerateM4` is the tool that
writes the curation: an assertion a step; `wasm-objdump` may fail with a message
(a violation is listed, and the record included all the same) or without one (the
tool ends in an exception); a missing artifact takes no index; the scope file is
written even when it will be refused, and when nothing is written the committed one
stays. `FrozenRunners` puts the three side by side and runs `run_m4` over what is on disk.

### `Pipeline` - the scripts as programs that read and leave files

The state is what is on disk: `vendor`, `json` (each target's directory: none,
empty, torn, whole, or whole with a text the judgment boundaries do not list),
`report`, `summary`. One
program runs at a time (`job`), and may be killed between any two of its writes
(`Killed`); sources disappear only as `Rmtree` removes them. The regression
gate is a list of commands, each run to its exit code. Histories: which
summaries are of this gate run (`fresh`), and whether anything failed in it
(`trouble`). Five checkouts give each program its manifests.

## 4. What is checked

| Run | Bounds | Shows |
|---|---|---|
| `runner_m5` | up to 4 commands in a run of up to 2 files, 2 names (symmetric), 1 alias, at most 1 import | `Bookkeeping`: one bucket per command, one answer per target, nothing of another file; `ImplementsEnv`: the five maps mean what the script means; `ChainVerdict`, `LiveAsCounted`: a chain is judged as its cause was, and a target is live exactly when last counted so |
| `lazy_memory` | pages of 2 bytes, 3 pages at most, addresses 1, 2, 5, lengths 0, 1, 4 | `Consistent`; `ImplementsFlat`: same answers as the flat array, partial writes never; `CallsReturn` |
| `linker` | 3 instances of 6 modules, 1 alias, 3 pages, 3 frames | declared limits go on holding, calls enter at their type, constants stay, a trap writes nothing, an instance reaches only its own objects, and `CallsEnd` |
| `engines` | all bodies of 6 instructions of 2 types, all of 8 out of the blocks, branches and one type; 4 conditions in a call, 4 loop re-entries | `StackDiscipline` and `RunsAsValidated` of the M5 engine; `SameJudgement`, `ParsesTheBody` and `FrozenRunsTheSame` of the two engines |
| `decoders` | 6 modules, every file one byte away from their encodings, every row of up to 3 sections, integers of up to 3 bytes at 10 bits, indices at 10 to 12, 3 locals | `DecodesExactly`: decoding inverts writing out, both ways; `WellFormed`; `LebExact`; the frozen decoder agrees (`FrozenScopeReadsTheSame`, `FrozenReadsTheSame`) |
| `module_m5` | 2 modules with up to 2 parts rewritten, against every object that could be resolved; 2 pages | `NoIndexError`, `IndexSpaces`, `GlobalsKeepTheirWord`, `FrozenSameVerdict` |
| `numeric` | integers of 4 and 8 bits, every operand of 4 and all first ones of 8, floats of 3 and 8 bits of significand, integers of 5 and 10 bits beside them | `IntegersExact`, `FrozenSame`; `RoundsOnce`, `SpecialValues`, `ToIntegers` |
| `pipeline` | 5 checkouts of 2 or 3 manifests with up to 3 targets | `NoPartialInventory`, `GateRuns`, `SweepExaminesAll` |
| `frozen_runners` | 2 files of up to 4 commands; curations of up to 3 records; 4 assertions | `OracleRun`, `CurationRun`, `EnumeratesAll`, `IncludedStayWithin` |
| `fail_chains`, `wild_operands`, `full_sweep_label` | as the run of the same module, or smaller | see Findings |

*Why these bounds are enough to be interesting.*

* Runner: a stale name needs a module, a failing module of the same name and a use:
  three commands; a stale alias needs module, register, failing module and
  re-register, a fourth. Two names tell "this name" from "another one". Two files
  are what it takes to leak. The proofs cover the rest.
* Memory: an access of four bytes at address 1 covers parts of three pages of two
  bytes, so first, middle and last chunk differ; three pages allow growth, a
  refused growth and an access that ends exactly at the end.
* Linker: three instances allow an exporter and two importers that disturb each
  other through it, re-exports, and an instance that failed in the middle whose
  functions are still in the table; the frame cap of three is reached by
  self-recursion through the table. The six modules were chosen so that every
  disjunct of every action is taken: matched and mismatched limits, mutability
  mismatch, an export of the wrong kind or not registered, data and element
  segments that trap after one that did not, starts that return and that trap, each
  of `call_indirect`'s three traps.
* Engines: six instructions (the final end included) are long enough for a value
  below a block, a branch out of it with an operand too many, and a use of the
  block's result; two types are what a mismatch takes. Eight are an if with an else
  inside another, which is where an else could be given to the wrong if. Four
  re-entries of a loop see a loop that leaves an operand behind on every turn.
* Decoders: a file one byte away is a length too short or too long, a section
  swapped in kind, an index or a flag out of range, an opcode that takes another
  immediate, a body whose end is elsewhere. Three sections are what order and
  repetition take. Ten bits make an integer of two bytes whose last one has unused
  bits; eleven and twelve are the widths of a block type and an i64; three bytes are
  one too many.
* Module-level validation: two rewritten parts are a definition and its use, which
  is what one section's check taking another's for granted needs.
* Numerics: the formats keep the relations the code relies on, stated as
  `FormatAssumption`: a wide significand of at least `2 p + 2` bits, i32 within the
  wide significand and i64 beyond it. All pairs of f32s are tried, so every tie
  and near-tie of a double rounding occurs; of the f64s, those around the edges.
* Pipeline: two targets are what "partial" takes, two manifests are what "the report
  of another one" takes. Any interleaving of programs and interruptions of any
  length is explored; the state space is finite without a bound.
* Frozen runners: two files tell a stale instance of another file; a hand-written
  curation of up to three records can be short, or right in number and wrong in kind (a
  long one comes from the enumerator, with totals that do not agree); four assertions
  allow one whose artifact is missing and one too many elsewhere.

*Bounds that are not the code's*: `MaxFiles`, `Files`, `MaxCommands`, `MaxRun`,
`MaxImports`, `MaxInst`, `MaxAssertions` cap what a run may do; `MaxBody`, `Short`,
`MaxChoices` and `MaxAgain` what a body is and does; `SpliceLen`, `IntLen` what a file is.
`PageSize`, `MaxPages`, `FrameCap`, `MaxLocals`, the `EXPECTED_` totals and all widths are the
code's constants made small.

*Deadlock* is checked for the memory and the linker. Everything else is a program
that ends: a run that reported, a body that returned, a file that was read, an
instruction that was executed.

*Fairness.* `LazyMemory` and `Linker` assume weak fairness of the step that
continues what is under way, and only of it: the program is one thread in a loop
or a call, and nothing else can run before it is done. Nothing is assumed about
new requests arriving. Under it `CallsReturn` and `CallsEnd` say that the
loops and the recursion themselves terminate. Loops *inside* a WebAssembly body
may of course run for ever; `Linker` leaves them out, so `CallsEnd` is about calls.
No other specification states fairness: a script may be killed at any time.

## 5. What is proved

All theorems are `Spec => ...` for every value of the constants that satisfies the
module's named assumption; nothing else is assumed.

`RunnerM5Proofs` (`RunnerAssumption`: the bounds are naturals, `NoName` is not a
name, `NoInst` is not an instance).

* `Invariance`: `Bookkeeping == TypeOK /\ Accounting /\ OneAnswer /\ OwnInstances` is
  inductive. The parts need each other: the accounting of the totals needs the
  types to add, and that a new instance is new needs that every reachable
  instance was created by a command *already counted* in *this* file
  (`OwnInstances`). `TypeCorrect`, `AccountingHolds`, `OneAnswerHolds` and
  `OwnInstancesHolds` follow.
* `RunnerImplementsEnv`: every step maps to a step of `ScriptEnv` or a stutter. The
  argument needs `OneAnswer` (else a binding would have two readings), and
  `OwnInstances` for the abstract side's demand that a new binding is fresh.

Of `RunnerM5History`, in the same module:

* `HistoryWatches`: the specification with its history implements the one without,
  so the history only watches.
* `HistoryInvariance`: `HInv` is inductive; beside `ChainVerdict` it says, while the
  runner runs, that what each target has (an instance, a reason, neither) is what its
  last command was counted as (`Remembers`). Without it nothing links the buckets of
  commands long gone with the five maps. `ChainsCountAsTheirCause` and
  `LiveExactlyAsCounted` follow.

`LazyMemoryProofs` (`MemoryAssumption`: page size and cap positive, bytes include zero,
lengths and deltas are naturals).

* `Invariance`: `Consistent == TypeOK /\ InBounds /\ ReadSoFar`. `InBounds` says that a call
  under way fits and that no page exists beyond the size; without it a page
  left over would show through after a growth. `ReadSoFar` says that the buffer holds
  what the memory holds, up to the position; it is what makes the answer right.
  The lemmas before it are the arithmetic of `divmod`: a chunk never leaves its
  page and two addresses in one chunk differ by their offsets.
* `LazyImplementsFlat`: the refinement, for every page size.

`Machine5Proofs` (`ValidatorAssumption`: `i32` is a value type, `Unknown` is not one,
results are a sequence of value types, instructions are well formed). It is for
bodies of every length and nesting, over any set of instructions and block types.
Its first half is about the validators.

* `Invariance`: `Inv == VTypeOK /\ Nested /\ Whole`. `Nested` is the order of the
  frames' heights; it is inductive because a pop stops at the innermost height
  (`PoppedFacts`) and a closed frame leaves the stack exactly at it (`ClosedFacts`). `Whole`
  adds that the function's frame keeps its results through every replacement of
  a frame, so that its end leaves them and nothing else. There is a lemma for each way
  a rule treats the frames: `LevelInv` leaves them alone, `OpenInv` adds one,
  `ElseInv` and `LeaveInv` replace one (`ReplaceFrame`), `EndInv` removes one.
  `TypeCorrect`, `FramesNest`, `AcceptedBodiesReturn` and, together,
  `StackDisciplineHolds` follow.

`JudgementsStayTheSame`, about both validators: on the frozen surface
the two validators keep the same stacks and reach the same verdict, for bodies of any
length. `JointInv == Inv /\ SameStacks /\ SameVerdict /\ (Together => Bare)` is inductive; `Bare`
says that on that surface the M5 stack holds no wildcard and no frame takes
parameters, without which the two would part at the first pop in unreachable code. Its
lemmas take one kind of rule each and show that both validators ask the same
(`PopsFrozen`) and leave the same.

Its second half is about the machine.

* `Validates`: the composition implements the validator, so the three invariants hold
  while a body runs (`ValidatedBodies`), as the run checks them.
* `RunsAsValidatedHolds` is type soundness: a machine without a check, run on an accepted
  body, has before each instruction it reaches the operand stack and the labels the
  validator had there, never misses an operand, and returns what the function declares.
  The argument has two halves. The validator's: `TraceInv`, about the recorded states.
  Each follows from the one before by the rule of its instruction (`Follows`), which in
  reachable code means that its operands really are there (`Steps`); a wildcard lies only
  in an unreachable frame (`Known`), else `_pop` would let a missing operand pass;
  counting openers and ends gives the difference of depths (`Counted`), so that `EndOf` finds
  the end the validator had in mind (`Spans`); and from a block's opener to its end its
  frame and the operands below it stay the same (`Stable`). The machine's: `Running` says that
  each label on its stack is that of a block around the instruction at hand (`LabelsAt`),
  and that the operand stack is the validator's (`Arrived`) or, while a branch is passing
  handlers, that of the frame it is heading for (`Unwinding`). The hard case is code the
  machine skips: after a branch or the first arm of an if, the validator went on in
  unreachable code or in the other arm, and `PastEnd` shows that wherever a block is left,
  the state behind its end is the same. There is a lemma for each instruction.

`LinkerProofs` (`LinkerAssumption`: modules are validated, the bounds are naturals).

* `Invariance`: `Inv == TypeOK /\ AsDeclared /\ Capped /\ CalledAsTyped`. `DeclaredLimits` is not
  inductive: `grow` looks at the object's own maximum, not at any importer's, so one needs that
  the object's maximum is within what each importer declared (`AsDeclared`, which has
  `LimitsMatch` for imports, and the type and mutability of every function and global) and
  that no object outgrows its own maximum (`Capped`). `CalledAsTyped` needs `AsDeclared` for
  direct calls, and for indirect ones that a table holds only functions that exist, even
  those of an instance that failed. Most steps write into objects without making one;
  `InPlaceKeeps` treats them together, and `InstantiateKeeps` the one step that adds objects,
  by the lemmas about index spaces before it. `TypeCorrect`, `DeclaredLimitsHold` and
  `CalledAsTypedHolds` follow.
* `ConstantsStayHolds`, `TrapsWriteNothingHolds`, `ConfinedHolds`: the three action properties,
  each from `Inv`. That a constant stays needs `AsDeclared`: the module that sets a global
  knows the cell, whoever defined it, as mutable.

`Module5Proofs` (`ModulesAssumption`, `ObjectsAssumption`).

* `Invariance`: `Inv == Typed /\ Judged /\ Filling /\ GlobalsKeepTheirWord /\ StartIsNullary`. `Judged`: the
  sections the validator has passed were found valid, all ten of them once
  `instantiate` begins. `Filling`: what each later stage has put into the index spaces, in
  number and type. No read past the end of a list (`NoIndexErrorHolds`) is then a matter of
  showing, stage by stage, that what a section's validity promises is there when the stage
  reads it; the two orders differ, so an earlier section's promise may be about a
  later one's list. `IndexSpacesHolds` and `GlobalsKeepTheirWordHolds` follow.
* `FrozenSameVerdictHolds` rests on `FrozenAgrees`: on its surface the frozen validator accepts
  exactly when each of M5's ten sections is valid.

`ScriptProofs`, the frozen runners (`RunnerM1Assumption`, `RunnerM4Assumption`, `EnumerateM4Assumption`: bounds and
expected numbers are naturals, the expected categories are categories).

* `RunnersInvariance`: of the three programs only one runs at a time (`InTurn`), each with an
  invariant of its own. `M1Inv`: failures counted so far are exactly the differences from the
  oracle so far (`mismatch <=> Failed`), and the instance is the last module command's. `M4Inv`: rows
  agree with curation and answers one by one, and a scope that contradicts itself never gets
  past loading. `EnumInv`: while no violation is listed, every assertion met has one sound record
  (`Clean`), and a scope on disk without violations includes only what was looked into
  (`WrittenWithin`). `OracleRunHolds`, `CurationRunHolds`, `EnumeratesAllHolds` and
  `IncludedStayWithinHolds` follow.

`ScriptProofs`, the scripts and their files (`PipelineAssumption`: a checkout lists each target once and has the manifests its
programs read).

* `Invariance`: `Inv == Typed /\ AtWork /\ Busy /\ Gating /\ Sweeping /\ Ends`. `Ends` is what the run checks,
  and speaks of a program that has just ended; the others say how it gets there.
  `Gating`: every command the gate has behind it left its report or its summary
  (`Converted`, `Classified`) and nothing since has undone it, although a conversion of one
  manifest rewrites targets of another (`Fine`); the one under way has a partition of its
  targets (`UnderWay`). `Sweeping` is that partition for `convert_m5`.
  `NoPartialInventoryHolds`, `GateRunsHolds` and `SweepExaminesAllHolds` follow.

`NumericProofs` (`WidthAssumption`: an i32 has a positive number of bits, a multiple of four,
which the narrowest sign extension takes; `LebAssumption`, `GroupAssumption`: a byte of a file
carries at least one bit, and the last byte of an integer is not full, as with 32, 33 and 64
bits in sevens). The engine's widths are one case.

* `CoreIsExact`: every integer instruction, on all its operands, is the mathematics of
  `IntMeaning`: sums, differences and products but for a multiple of the modulus, read
  with and without a sign (`Multiple`, `MeantIs`); logic, shifts, rotations and counts bit
  by bit; division toward zero and its two traps; the orders; what conversions keep. The code computes by masks, powers of two and floor quotients, so the
  argument climbs from these. Induction over the naturals, which the library cannot
  instantiate here, is proved from the least member of a set (`Least`, `Induction`); by it
  powers of two are naturals that double and add up (`PowNext`, `PowSum`), numbers below
  `2^n` are their `n` bits (`BitAbove`, `ClearAbove`, `AllClear`), and a mask, a shift and Python's
  `&`, `|`, `^` do to the bits what their names say (`BitOfMask`, `BitOfShift`,
  `CombinedFacts`). Signed operations go through the integer a pattern stands for
  (`SignedIsMeant`, `MeantOfMask`); `OfMagnitudes` is division toward zero by magnitudes and
  signs, and shows that the one quotient that does not fit is the one that traps. Shifts,
  rotations and counts are then one lemma each (`SignedShift`, `Rotation`, `TrailingZeros`,
  ...), the two-operand cases by bits, `v & -v` by the carry that runs up to the lowest one.
* `ReadersAreExact`: on every file, at every position and under every limit, `uleb` and `sleb`
  accept exactly the forms of the integers in range, padded ones included, and say truly why
  they reject. Invariant: `Reading`, what has been read came from one such place. What takes
  the work is the loop. The bytes so far are a number to the base of the continuation bit
  (`Number`, `SignedNumber`), which determines its digits and is determined by them, so forms
  and numbers are one. `Running` is the reader after `i` continued bytes, and a run of the loop is
  the `Path` of such readers up to the byte that ends the integer (`Ends`) or to the end of the
  bytes; as the recursive definition has one solution only, that path is the loop (`UlebReturns`,
  `SlebReturns`). At the last byte (`UlebEnds`, `SlebEnds`) the test of its unused bits is the range
  of the integer: `extra` says the number is not below `2^Width`, the comparison with `lo` and `hi`
  that the sign is not repeated.
* `FrozenReadersAgree`: wherever a strict reader succeeds, the frozen one stops at the same byte;
  where it leaves the sign of a full last byte unextended, the difference is a multiple of `2^Width`.
* `CoresAgree`: the frozen machine leaves the same value or the same trap. Its division
  is a floor division with a correction (`Truncates`), its `to_signed` masks first.

About floats, `NumericProofs` and on top of it `FloatProofs` (`FormatAssumption`: what the comments of
`fvalues.py` rest on, as binary32 and binary64 satisfy it).

* `FloatsKeepSpecialValues`: what is not a matter of rounding, for all operands of any two
  formats. Invariant: `FloatExecuted`, the answer is still to come or that of the instruction on operands
  of its types. A pattern is its sign and its magnitude, and a magnitude an exponent and a
  fraction (`FieldFacts`, `Unpacked`); packing never passes the infinity (`PackType`), so that what
  is packed is a NaN only if it was one (`Packed`). The exact operations take floats to floats
  (`SumType`, ..., `RootType`, which needs that the root searched for exists). The order of numbers
  is the order of patterns because a larger magnitude has a higher first bit or the same place
  and a larger significand (`MagnitudesGrow`, `PatternsCompare`, `PatternsOrder`); the rest is a lemma
  for each class of instructions.
* `FloatsReachIntegers`: ceil, floor, trunc and nearest, and the truncations to integers, on every
  operand of any two formats, from the same invariant. A comparison of two numbers scales both to
  one place, and is their order (`CmpExact`); so a number is below an integer exactly when its
  integer part is (`SizeCompares`, `TruncOrders`), which is all the bounds of the integer types ask.
  An integer rounded to has no more bits than the number it comes from, or is one place
  higher; so it is packed exactly (`PackedExactly`), and an f32's goes through the f64 and back
  unchanged (`RoundTrip`). What is left over is a difference counted in units of the lower place
  (`Difference`, `LeftInUnits`); only where the number lies far below the point is that
  sum inexact, and there it is a fraction rounded up to one (`RoundsUpToOne`).
* `FloatsRoundOnce`: every sum, difference, product, quotient, root, change of format and converted
  integer is the exact result rounded once, although `f32_binop` and `f32_sqrt` compute in an f64
  and round again, and `_int_to_f32_bits` rounds by hand. Same invariant. All numbers are
  brought to one low place (`AtPlace`, `Grid`, `Mid`), where patterns and the middles between them are natural
  numbers in order (`GridNext`, `GridMiddle`), and packing is shown to give the nearest (`PackNearest`).
  A narrow middle is a pattern of the wide format (`MiddleIsPattern`); so rounding to the wide
  format keeps a number on its side of every narrow middle (`SidesKept`), unless it comes to
  lie on one it was not on. `HitsMiddles` says that it does not, and then rounding twice is
  rounding once (`RoundsTwice`). That is left to show of each operation: a number `m * 2^q` must be no
  nearer to an odd `mu * 2^s` than half a last place of the wide format without being it (`Apart`). A product has
  few enough bits to be exact (`SmallHits`). A sum that near would have a term that is the middle, which has a
  bit more than narrow numbers have (`SumApart`). A quotient that near, multiplied out, and a root, squared,
  leave two integers less than one apart (`QuotientApart`, `RootApart`); here `p2 >= 2 p1 + 2` is used up. An integer
  cut by hand is cut where packing cuts it (`HandRounded`), the carry into a new place included.

*Only model-checked*:

* the decoders' sections and bodies (`DecodesExactly`, `WellFormed`, `FrozenScopeReadsTheSame`): the
  loop of an integer reader has a closed form, a place in the bytes and a number, and is proved;
  the loops over entries and instructions build nested data whose meaning is itself recursive,
  and the library's induction theorems cannot be instantiated;
* the frozen machine (`ParsesTheBody`, `FrozenRunsTheSame`): its tree and its run are recursive;
* all liveness (`CallsReturn`, `CallsEnd`), which the prover does not reach, as it does not
  reach `ENABLED`.

## 6. Findings

Each is a disagreement between the code and a sentence of the repository, found
while translating the code, and reproduced by a run that must fail
(`PROJECT.json` quotes the sentences).

* `FailChainsThroughImports` - a module is counted FAIL, a register command names it
  and is counted FAIL too, and a module that imports from the alias so lost is counted
  UNSUPPORTED: `resolve` cannot tell an alias never registered from one withdrawn, and
  the plain `LinkError` is counted out of surface.
* `WildOperands` - in unreachable code a `br_table` whose labels take equally many
  values of different types is rejected: with no operand left, `_pop` returns the
  type it expected rather than the wildcard, and `br_table` pushes that back.
* `FullSweepIsFull` - `run_m5` after a failed `convert_m5` runs over what did convert
  and labels its summary the full sweep: the report is written before `convert_m5`
  decides to fail, and `run_m5` has no completeness check.

Further observations that no run turns into a finding; the models have the
behaviour.

* A `get` action aimed at a failed module counts UNSUPPORTED, because `_invoke` looks at
  the kind of action before it looks for the instance; `tests/test_m5_runner.py:8-9`
  says "never UNSUPPORTED" of every later command.
* An assertion whose binary is missing raises `FileNotFoundError` past every handler
  and the run ends with nothing reported (`MissingBinary`);
  `goal-runs/m5-unsupported-sweep/plan.md:113-114` says otherwise.
* The frozen decoder accepts a body without its final end, in spite of the comment at
  `interp/decoder.py:276-277`.
* An import that resolves to an export of another *kind* raises the plain `LinkError`
  (UNSUPPORTED) rather than `IncompatibleImport`.
* The `RecursionError` backstop covers `invoke`, not the start function.

## 7. What is not modelled

* *Values and texts*: which value a call returns, the wording of messages, the
  layout of reports. The runners' models let every comparison come out either way.
  Which of two texts a decoder or validator raises is told apart only where a count
  depends on it.
* *UTF-8's own rules* and names of more than ASCII; of the opcode table, the models
  hold a sample with every kind of immediate.
* *spectest*, the host module: its objects are fresh at every lookup and its
  functions do nothing.
* *The Python stack*: the recursion limit is set far above what the frame cap needs.
* *The archive of WABT*, its checksum, and the two layers of git that
  `check_regression_m5.py` asks: their answers are inputs.
* *The scope reports of M1 to M3 and the purity tools* under `tools/`: text processing
  without state that outlives a run and without a consumer in the code.
* *Instructions inside `Linker`* that touch neither a shared object nor the call stack;
  what they compute is in `IntOps` and `FValues`, what they leave on the stack in
  `Machine5`.
