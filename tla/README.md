# TLA+ models of golua-conformance

The repository puts a Lua implementation, golua, to the test. Thirteen fuzzers
and a program generator in Python write Lua programs, run them on golua and on the
reference interpreter, compare what the two print, and keep what differs. Two
systems written in Lua are there to be run: `lua55vm`, a Lua 5.5 interpreter, and
`navfuzz`, a navigation pipeline. This directory models the Python programs and the
interpreter. TLC checks each model on small instances. TLAPS proves most of their
safety properties for every size: of the batch fuzzers, the program harnesses, the
reducer, tables, coroutines, to-be-closed variables, the collector and numeric loops.

`PROJECT.json` lists components, runs, mutants, findings, hazards and theorems,
and maps every definition to the lines it stands for.

## 1. The system

### The Python programs

| Part | State | Operations | Works with |
|---|---|---|---|
| case generators (`grammar.py`, `values.py` of packfuzz, patternfuzz, formatfuzz, coercionfuzz, datefuzz, utf8fuzz) | a random generator | the items of each tier, and the cases made of an item | `emit.py` |
| drivers (`emit.py` of the same) | Lua source | a batch of cases as one Lua program that prints a line for each operation, and checks of its own | both interpreters |
| batch runners (`run.py` of the same) | the leads of a phase and of the invocation; `/tmp`; `corpus/` | `run_batch`, `diff_outputs`, `invariant_failures`, `panic_in`, `_dump_panic`, `process`, `write_corpus`, `write_report` | two processes for each batch |
| program harnesses (`run.py` of sandboxfuzz, bytecodefuzz, compilefuzz, mathfuzz, coroutinefuzz, debugfuzz, pairsfuzz) | counts and leads; `/tmp`; `corpus/` | the plan of programs, one run of golua (and one of the reference), a verdict, a report | one or two processes for each program |
| mutation of dumps (`bytecodefuzz/run.py`) | a dumped chunk | `Reader`, `locate_code`, `maxstack_offset`, `mutate` | golua's `string.dump` |
| rubegoldberg (`stages.py`, `run.py`) | the list of stages, a tally, saved failures | the stages, `render`, `classify`, `reduce`, `save_failure` | three processes for each program |

Each program is one Python process that starts one child at a time and waits for it
under a time limit, so nothing runs concurrently with it. What is hard is that the
program under test *may do anything*: print part of what it should, print nothing,
panic, be killed, hang, fail once and not again; and that the harness must neither
stay silent about it nor cry wolf. A mistake of a harness is silent by nature: a
comparison that skips a case, an excuse that covers too much, a case that does not
test what it was made for, a file that a later run overwrites. None of the
harnesses has a test.

### The interpreter (`src/lua55vm`)

| Part | State | Operations | Works with |
|---|---|---|---|
| tables (`runtime.lua`) | `arr`, `asize`, `hash`, `lenhint` of each table | `new_table`, `rawget`, `rawset`, `setlist`, `getn`, `tnext` | every instruction and library function that touches a table; the collector clears weak entries |
| calls and errors (`vm.lua`) | `I.frames`, `I.depth`, `I.msgh`, `I.max_depth` | `call`, `run_closure`, `protected`, `apply_msgh` | natives call back into guest code; the host unwinds errors |
| to-be-closed variables (`vm.lua`) | `frame.tbc`, `frame.tbctop` | `TBC`, `CLOSE`, `RETURN`, `TAILCALL`, `close_upvals` | `protected`, `do_resume`, `coroutine.close` |
| coroutines (`stdlib.lua`) | `th.co`, `th.frames`, `th.depth`, `th.msgh`, `th.closing`, `th.reserr`, `I.current_thread` | `create`, `resume`, `yield`, `wrap`, `close`, `isyieldable`, `running`, `status` | one host coroutine each; swap the registers of the calls part |
| collector (`gc.lua`) | `gc.objects`, `gc.finalizable`, `gc.in_gc`, `gc.epoch`, byte estimate | `gc_register`, `gc_check_finalizer`, `gc_mark`, `gc_clear_weak`, `gc_collect` | reads frames of all threads; calls finalizers |
| numeric loops (`vm.lua`) | four registers and `loopstate.count` | `FORPREP`, `FORLOOP`, `udiv`, `clamp_for_limit` | the compiler emits them |
| other instructions (`vm.lua`) | registers, upvalues, `pc` | about 80 opcodes | compiler |
| lexer, parser (`lexer.lua`, `parser.lua`) | position, token, nesting level | recursive descent to an AST | compiler |
| compiler (`compiler.lua`) | per function: free register, active locals, blocks, jumps, gotos | AST to bytecode | emits what `vm.lua` runs |
| binary chunks (`dump.lua`) | a byte position | `dump`, `undump` | `load`, `string.dump` |
| patterns (`strmatch.lua`) | captures, match depth | backtracking match | `find`, `match`, `gmatch`, `gsub` |
| library (`stdlib.lua`) | none of its own | table, string, math, utf8, os, io | host for numbers and files |
| hooks (`vm.lua`, `stdlib.lua`) | `I.hook`, its mask and count | `fire_hook`, `debug.sethook` | instruction loop |

Everything runs on one host thread. What makes the interpreter hard is not
parallelism but *control that moves by itself*: an error unwinds the host stack
and leaves the interpreter's own registers as they were, to be repaired by
whoever catches it; a resume or a yield swaps these registers in the middle of
anything; a finalizer or a `__close` handler is guest code that runs between two
steps of the interpreter; a `pairs` loop shares its table with its body and with
the collector. The compiler has a difficulty of its own: scopes, captured
variables, jumps, variables to be closed and open lists of values are each simple
and share registers, so that a mistake shows only in a program that mixes two or
three of them. The tests of the repository run programs and compare output. They
do not look at the registers, and they hardly reach the orders in which two or
three of these mechanisms meet.

### The other systems

* `navfuzz` (Lua): triangulation by divide and conquer on a half-edge mesh
  (`mesh.lua`, `divconq.lua`), flips, constrained edges, holes, navmesh, bounding
  volume tree, A* and funnel. One thread, no failure handling; what is hard is
  the invariant of the mesh (every bond is mutual, free lists hold what is dead).
* `lua54.py`: three commands that check out and build golua's 5.4 branch.
* `luadiff`: a shell script that compares two outputs.

### What makes each part correct

* Batch runners: no lead means the two printed the same but for the divergences
  that are documented; every lead is real; a panic stays on disk with what is
  needed to repeat it; the report and the exit status say what happened; a loop
  over seeds overwrites nothing of another seed; an invocation ends.
* Program harnesses: the same, a program at a time.
* Case generators: a case tests what its tier says; values fit the directives that
  take them, and one does not; operands exist; a check in a driver fails only when
  the interpreter is wrong; a mutation touches only what it names; a stage of
  rubegoldberg returns an integer, or fails when it is one that is to fail.
* rubegoldberg: a reduction keeps the failure it is about, ends, and ends in a
  program from which no stage can be left out.
* Tables: the two parts are one map; no key lives twice; `#` is a border; a
  traversal gives each lasting field once and ends.
* Calls: after any error, yield or resume the frame stack, the depth and the
  message handler say what the host stack says.
* Coroutines: resumed threads form a chain; the interpreter's idea of it is the
  host's; a dead coroutine stays dead; none is suspended inside a call that cannot be
  yielded across; a self-close reaches its resume.
* To-be-closed variables: each is closed once, in order, with the error that is
  under way, whatever the handlers do; the last error is delivered.
* Collector: it takes garbage, all of it, and nothing else; a finalizer runs once.
* Numeric loops: exactly the values of the definition, in order, without overflow.
* Compiler and instruction loop: a program is accepted when the scope rules allow
  it and outputs what its source means; a register that is captured or to be
  closed stays with its variable.

## 2. Modules

| Module | Kind | Stands for |
|---|---|---|
| `Batch` | operators | `run_batch` of the six batch fuzzers: comparing, excusing, panics, leads |
| `Campaign`, `MCCampaign` | system | `main`, `process`, `run_batch`, `run_lua`, `write_corpus`, `write_report` of the same, with the processes, the disk and the user |
| `Ulp` | operators | `classify` of mathfuzz: floats by their bits |
| `Verdicts` | operators | what each of the seven program harnesses makes of the outcome of a program |
| `Session`, `MCSession` | system | their `main`: the plan, the runs, the report |
| `Stages` | operators | the stages of rubegoldberg as functions on integers that wrap around, and `render`: the transcript of a program |
| `Reducer`, `MCReducer` | system | `generate`, `classify`, `reduce`, `save_failure`, `main` of rubegoldberg |
| `PackCases`, `FormatCases`, `Utf8Cases`, `CoercionCases`, `PatternCases`, `DateCases` | operators | the generators of the six batch fuzzers |
| `MutantCases` | operators | the reader of dumps and the mutations of bytecodefuzz |
| `Cases`, `MCCases` | system | every generator run on every item of every tier, a step for each case (for a pattern, for each item the matcher reads), and every stage of rubegoldberg on every integer |
| `LuaTable` | abstract | a table as one map from keys to values |
| `GuestTable` | detailed | `new_table`, `rawget`, `rawset`, `setlist`, constructors, `gc_clear_weak` |
| `TableLength` | extends `GuestTable` | `getn`, `binsearch`, `hash_search`, one action per probe |
| `TableTraversal` | extends `GuestTable` | `pairs`, `next`, `tnext` with a loop body and a collection between calls |
| `CoroutineChain` | abstract | the chain of threads that resumed one another |
| `Coroutines` | detailed | `call`, `run_closure`, `protected`, `pcall`, `xpcall`, `load` with a reader, `do_resume`, `yield`, `close`, self-close |
| `Unwinding` | abstract | what Lua promises of to-be-closed variables and errors |
| `CloseVariables`, `MCCloseVariables` | detailed | `close_upvals`, `protected`, `TBC`, `CLOSE`, `TAILCALL`, `RETURN` |
| `Collector`, `MCCollector` | detailed | `gc_collect`, `gc_mark`, `gc_register`, `gc_check_finalizer`, and a program that uses objects on several threads |
| `ForLoop` | detailed | `FORPREP`, `FORLOOP`, `udiv`, `clamp_for_limit` |
| `Syntax` | data | the syntax tree of `parser.lua` |
| `Values` | operators | what `runtime.lua` does with values: `rawget`, `rawset`, `arith`, `concat`, `len`, ... |
| `Compiler` | operators | `compiler.lua`: from the tree to protos of register code |
| `Meaning` | abstract | what a program means by its tree alone: accepted or not, and its output |
| `Machine`, `MCMachine` | detailed | `exec_loop`, `run_closure`, `close_upvals`: one action per kind of instruction, running what `Compiler` makes of the programs of `MCMachine` |
| `GuestTable_proofs` | proofs | `GuestTable`, `TableLength` and `TableTraversal` |
| `Campaign_proofs`, `Session_proofs`, `Reducer_proofs`, `Coroutines_proofs`, `CloseVariables_proofs`, `Collector_proofs`, `ForLoop_proofs` | proofs | the modules they are named after, with `Batch` and with `Ulp` and `Verdicts` |

`MCMachine` has the source programs, `MCCampaign`, `MCSession`, `MCReducer` and
`MCCases` give sizes, stages and chunks, and the other `MC` modules only add the
symmetry that TLC uses.

### Batch fuzzers

The six `run.py` are copies of one another that have drifted apart. `Batch` has each
fuzzer's own `run_batch`, comparison and excuses, and their common parts once. A
line of output is its operation, its case and a value; the values are those the
fuzzers tell apart (two of them, the signed zeros of coercionfuzz, the error
`cannot be represented` of datefuzz, the two ways a check may pass in patternfuzz).

In `Campaign`, `Invoke` draws a seed and the phases asked for, and `WorkOf` makes the
batches of each phase, as `main` and `process` do. `WriteDriver`, `RunGolua`,
`RunReference` and `JudgeBatch` are `run_batch`; they are separate because the user may
interrupt in between and because files are made and removed by them. golua prints
any values, or dies or times out, which prints nothing since a driver keeps its lines
until it is done. `tmp`, `corpus` and `report` are the disk; a driver script is named by
the invocation and the batch (the names are random in the code, so they never meet).

`corpus` maps the name of a file, as the code makes it of label, seed, zone and batch,
to who wrote it: two writers of one name are a clobbered file.

### Program harnesses

`Verdicts` is what a harness makes of an *outcome*: how the process really ended, which
the harness cannot see, and the exit code, output, error text and timeout that it can.
`Session` has the plan of programs of each harness, runs them with any outcome, and
keeps counts, reports and evidence as each `main` does. The harnesses differ in all
of it: what is a fault, what ends the session with status 1, what stays in `corpus/`.

The pairs of answers are free but for what a harness itself prints: the programs of
pairsfuzz print what their prelude finds, so `TraversalReport` computes it from any
two traversals. The reference finishes, is killed for want of memory, or hangs.

### rubegoldberg

`Reducer` is about programs that are sequences of any stages, with the outputs of the
two interpreters as constant operators. `MCReducer` joins it to `Stages`, whose
transcripts are these outputs: the stages are functions from an integer to an integer
or an error, with integers of `IntBits` bits. golua is wrong about one stage on some
inputs (`Bugs`: a residue class and an offset), so that stages before it decide whether the failure shows and stages
after it whether it lasts. `RunsOf` gives the three runs of a program: as they
should be, or, `MaxNoise` times in all, one of them timed out, killed or garbled.
`TryWithout` is one candidate of `reduce`; a success starts the search over.

### Case generators

A case module has an operator for each function or list of `grammar.py`, `values.py` and
`emit.py`, on formats that are sequences of directives, subjects that are sequences
of bytes, and tables by field. Random functions become the set of what they can draw,
with counts bounded by `Cases`. An instant is a cycle of 400 years, a day and a second, since
TLC's integers are too short for `time_t`; `os_time` fails where `mktime` answers -1, and
`os.date` where the year does not fit an `int`. Bytes have `ByteBits` bits in packfuzz, which moves every
boundary of `_int_boundaries` and leaves their order as it is. What the interpreters do
with a case (the pattern matcher's reading of a pattern, `utf8`, `strftime`, `mktime`, the
dumper) is external, modelled as the code in `src/` uses it, and only as far as the
properties need: whether a pattern is well-formed, a subject decodes, a format is
accepted, a time exists, where the dumper puts the code.

The self-checks of a driver are modelled for utf8fuzz and datefuzz (`InvLines`, with both lines
of datefuzz: `utc_roundtrip`, its answer `time_err` included, and `difftime_id`), and for
patternfuzz the comparison of the counts of `gmatch` and `gsub` (`CountsAgree`), which is right
only for subjects shorter than the driver's own guard. Those of packfuzz and formatfuzz
(`packsize`, offsets, repacking, `%q` read back) and `find_bounds` of patternfuzz state what the
tested functions return, and are not.

### Tables

`arr`, `asize`, `hash` and `lenhint` are the fields of the same names. `hash` is
the host table with `Nil` for an absent key. A key is a positive integer up to
`MaxKey` or one of `Names`, which stand for every other key: the code tells
integers from 1 to `asize + 1` from all others, and nothing else. `RawSet` has
the three branches of `rawset` as three actions. `ExtendArray` includes the loop
that moves the following keys into the array; the loop's end `e` is determined by
`AbsorbsTo`. `SetList` is the `SETLIST` instruction and may only run while a
constructor is at work, where keyed stores may run before and between. The number
of items a trailing call delivers is free, so it may store nothing.

`mixed` is a history variable: a constructor ran list items over keys that it had
already put into the hash part. `setlist` then leaves the key in both parts (see
5). The invariants hold of all other tables.

`TableLength` runs the search in steps because the loops are what may fail to end
or stop in the wrong place; nothing else runs in between (`TableStep` needs
`pc = "idle"`). The result is checked against the definition of a border.
`Return` and `SetHint` are the returns and the writes of `t.lenhint`. `HalfMax`
is the index past which doubling would overflow, small here so that the linear
search is reached.

`TableTraversal` starts `pairs` on any table that can be built. Between two
calls of `next` the body may assign to fields that exist, and a collection may
clear entries. The host's `next` is external: it walks a hash part in some order
that it keeps, and goes on from a key that has been cleared since.

### Calls, errors and coroutines

A thread's `stack` is its host call stack, one record per activation that
matters, with the locals the code keeps there: `saved_n`, `saved_depth` and
`saved_msgh` in `pcall`, the saved registers in `resume`. `frames`, `depth`,
`msgh`, `curth` are `I.frames`, `I.depth`, `I.msgh`, `I.current_thread`, and `cf`
says whose frame stack `I.frames` is. `Enter` is a call with its frames; each
`ReturnTo...` is the return from it. `CaughtBy...` is an error or a sentinel that
unwinds to the innermost activation that catches, with everything that activation
does afterwards: a message handler runs *on top of* the frames that the error
left, so it is an activation of its own, and `EndPcall` or `EndLoad` follows it.
`GoBack` is the code in `do_resume` after the host's resume, and `Saved` are its
locals. `status` and `running` belong to the host.

`slips` records which repair the code leaves out, so that the invariants can name
the exception instead of being silent about it: `"depth"` when `load` caught its
reader's error, `"frames"` when a live coroutine's frames were emptied by a
refused resume or left by a handler that failed on a bad piece, `"msgh"` when a
resume failed or was refused. The invariants hold until one of these happens, for every
interleaving of everything else.

`coroutine.yield` asks `I.frames`, not the host, whether it may yield
(`is_yieldable_now`). `NoYieldAcrossNative` says that the host agrees: no coroutine is ever
suspended above a comparator, a reader of `load` or a resume of its own, whose host call could
not go on. It rests on every repair of the frames, and names `"frames"` as its exception.

`max_depth` is modelled by `headroom`, the number of extensions in force for
message handlers. An error that reaches no catcher on the main thread ends the
program and is not an action.

### To-be-closed variables

The same machine on one thread, with `tbc` and without message handlers. A frame
has an identity because closures of the host keep it after it left `I.frames`.
`CloseOf` is an activation of `close_upvals`; `CloseNext` calls the next handler
under a host `pcall`; `LeftNext` and `LeftDone` are the loop that closes what a
failed handler left; `Unwind` and `Deliver` are the epilogue of `protected`.
`Exit(keep, how)` is `CLOSE`, or `TAILCALL` or `RETURN`, which close everything.

`Unwinding` says what Lua promises, with one list `todo` of functions, variables,
protected calls and running handlers. The refinement mapping `Todo` rebuilds that
list from the host stack and `I.frames`; it is where one sees that frames left
below a running handler count for their variables only. `Work` is what one activation
adds, `Base` and `ModeOf` what a `close_upvals` works on and how it goes on.

### Collector

`held[t]` is what the registers of a thread's frames refer to, `refs` what tables
refer to. The program can do everything a program does with references, on the
thread that runs. `Marked` is what `gc_mark` reaches from the roots the code
gives it, `Live` is what a program can get at. Marking, clearing weak entries and
sweeping are one action since no guest code runs meanwhile; finalizers are
actions of their own, during which the program goes on.

### Numeric loops

Integers have `2 * Half` values and wrap around, `udiv` works on bit patterns.
A float limit is given by its double, so that it can lie between two integers;
beyond the integers only one value each way matters. The clauses of
`clamp_for_limit` are those of `ClampFor`. `Steps` is the definition of the loop,
independent of the count.

### Compiler and instruction loop

`Compiler` keeps the `FuncState` of the code as a record per open function:
`actvars`, `blocks`, `freereg`, `ntbc`, pending gotos, labels, upvalues, code. An
operator of it takes the state and gives the next, in the order of the code,
including what is peculiar to it: an operand that is a local is used where it
lies, a goto reserves a `CLOSE` whose level its label fills in, the generic `for`
has four registers below its variables. Constants are in the instruction itself.
`FieldsPerFlush` is the 50 of `compile_table`.

`Machine` runs the code, one instruction a step. The compiler and the meaning are
its constants `Compiled` and `Meant`, so that it says nothing about where code
comes from; the run gives them `CompileMain` and `Meaning`. `frames`, `uvs`,
`closures` and `tables` are the interpreter's; registers outlive the block that used them, as in
the code, so stale values are seen by whoever reads them. A table is a map here,
which is what `GuestTable` shows it to be. Closing a guard, a value with a
`__close` metamethod, is an output. An error ends the program.

`Meaning` is written from the language, not from the code, and shares with
`Machine` only `Syntax` and `Values`: a variable is a cell, a block ends with one
of four outcomes, a goto continues at its label. `CompilesRight` compares the two.
The programs do not depend on the order in which Lua leaves operands and
assignments open, but for assignments whose targets overlap (see 5).

`slips` names the known mistakes of the compiler, as for coroutines: `"overlap"`,
`"tail"`, `"closing"`, `"void"` and `"hidden"`. Each is set by the operator that
makes it, when the program has what it takes to make it, and `CompilesRight` speaks
of the programs without one: all but some 570 of the 12,323.

## 3. Runs

The properties, one per question.

| Run | Bounds | What it shows |
|---|---|---|
| `Campaign` | 6 fuzzers, 2 invocations, 2 batches (datefuzz: 2 zones) and a random one, 1 case a batch, the reference's 2 outputs | `SilenceMeansAgreement`, `LeadsAreReal`, `PanicsStayOnDisk`, `ReportTells`, `NeverClobbers`, `InvocationEnds` |
| `Session` | 7 harnesses, 2 sessions, up to 3 cases, 2 to a program, 5-bit floats, tolerance 2, 2 lead files | `SilenceMeansPassed`, `FaultsAreReal`, `ReportTells`, `SessionEnds` |
| `SignalDeath` | the same | finds `SignalDeathIsEscape` violated (see 5) |
| `Reducer` | 3 stages of 4, 2 programs, 6 bugs, 1 disturbed run, 10-bit integers | `StillFails`, `OneMinimal`, `ReportTells`, `ReductionEnds` |
| `Cases` | every item of every tier; up to 2 random directives, code points and probes, 1 random atom; 3-bit bytes in packfuzz; 576 dumps; 26 stages with the ends of their parameters' ranges, on all 10-bit integers | `ValuesFit`, `TiersAreAsNamed`, `NoFalseAlarm`, `OperandsAreBound`, `MutantsStayInside` |
| `TableLength` | 6 integer keys, 1 value, `MaxVic` 1, `HalfMax` 2 | `LengthIsBorder`, `HintInside`, `LengthTerminates` |
| `TableTraversal` | 4 integer keys, 1 name, 1 value | `Canonical`: no key up to `asize + 1` is in the hash part; `ArrayTailUnused`; `ImplementsLuaTable`; `VisitsEachOnce`; `TraversalEnds` |
| `Coroutines` | 2 coroutines, 7 activations (5 once the second coroutine ran), depth 3, 2 extensions | `StateMatches`, `NoYieldAcrossNative`, `ImplementsChain` |
| `CloseVariables` | 2 variables, 2 errors, depth 4 | `LeavesNothing`, `ImplementsUnwinding` |
| `Collector` | 2 tables, 1 coroutine, 4 references | `FinalizedOnce`, `MainTakesOnlyGarbage`, `TakesAllGarbage` |
| `ForLoop` | 4-bit integers | `RunsAsDefined`, `LoopEnds` |
| `Machine` | 12,323 programs, 16 registers, batches of 2 fields | `CompilesRight`, `RegistersHold`, `Terminates` |

Why the bounds are enough:

* *Campaign.* A lead depends on one batch; what outlives it are the leads of the phase,
  the files and the report. Two batches show what the second makes of the leads
  of the first, two phases what `main` adds up, two invocations, of one seed or two,
  what they overwrite. With three lines a batch of utf8fuzz gives the five leads that
  push a panic out of the last four.
* *Session.* Two programs, the second of them shorter, show what the chunks leave out
  and what one program leaves behind; every outcome of one is tried after every
  outcome of another. 5-bit floats have every class of float, and every distance,
  also across the zeros.
* *Reducer.* Three stages are enough for a stage that can only be left out after
  another one was. The pool has a stage that changes its value, one that raises, one
  that loops and one that raises with a message; the others differ in what they
  compute, and are checked one by one in `Cases`.
* *Cases.* Tiers but the random ones are whole. Two random pieces meet in every pair. A stage
  is tried on every integer of its width, so on every residue its conditions ask for.
* *Tables.* The code compares a key with `asize` and `asize + 1` and follows runs
  of consecutive keys. Four keys give an array part, a gap, and a run of two to
  absorb. Six keys with one probe reach every loop of the length search, both
  directions, both bisections, doubling and the linear search.
* *Coroutines.* Seven activations hold a coroutine inside an `xpcall` inside a
  `load` on the main thread, or a handler above a `pcall` in a coroutine. What a
  repair does depends on the activation that catches and the frames above it,
  not on how many lie below. The second coroutine is needed for the chain: a
  third link would do what the second does.
* *To-be-closed variables.* Two variables can lie in one frame, in two, or one in
  a frame and one in a handler of the other; two errors tell the old from the
  new. Depth four holds a handler that fails inside a handler.
* *Collector.* A chain needs two objects and a thread; two finalizers have an
  order. Four references allow a cycle and one root into it.
* *Compiler.* Programs are families: every combination of a few features. Loops:
  seven kinds, a variable of three kinds in the body, closures over one variable
  or another, seven ways to leave an iteration. Scopes: all sequences of four
  pieces (three in a `repeat`), each a captured variable, a variable to be closed,
  a jump back or out, a label, or a block of these. Assignments: two targets of
  eight kinds and one or two sources, in the function or in a closure. Lists: what
  a call, a return, a tail call, a method, a local or a table makes of up to three
  expressions of each kind. Declarations of globals and constants, two operators
  over operands with effects, functions three deep, returns with something to
  close, every error. A mistake of register allocation needs two features that
  meet in one scope or in two nested ones, which the families have. With batches
  of two, three items flush once and twice. Programs use at most 16 registers.
* *Numeric loops.* 4-bit integers meet all overflows of 64-bit ones: every
  operation is taken modulo the size, and every triple of operands is tried.

Of all but *Reducer*'s `Stages`, *Cases* and *Compiler* the proofs of section 4 remove
the bound, for the safety properties they list; the runs are what showed that a
property holds before it was proved, and what the mutants and liveness rest on.

Fairness. `WF_vars(Next)` in `Campaign`, `Session` and `Reducer` says that the Python
program goes on: it waits for nothing but a child, and kills a child whose time is up
(`subprocess.run` with a timeout). It does not say that a child ends by itself.
`WF_vars(Getn)`, `WF_allvars(TNext)` and weak fairness of the `Next` of
`ForLoop` and of `Machine` say that the interpreter goes on with what it is doing:
this is straight code on one thread with nothing to wait for. In `TableTraversal`
the loop's body may take any number of steps between two calls of `next`, but must
come back, which is what a `pairs` loop that is to end has to do. Nothing else
assumes fairness; `Coroutines`, `CloseVariables`, `Collector` and `Cases` state safety
only, for a program may loop for ever or never resume a coroutine.

Deadlock is not checked where the system stops: the invocations, sessions, reductions
and cases are done, a loop or a program ends (`ForLoop`, `Machine`), or a program has
made all its objects and dropped them (`Collector`).

Symmetry is used in `MCCloseVariables` (variables, errors) and `MCCollector`
(tables, coroutines). Their modules treat these values alike, choose none of them
by `CHOOSE`, and state no liveness property.

Every property has a mutant in `PROJECT.json`: a definition next to the one it
replaces, with the mistake named in its comment, that makes TLC refute the
property under the same configuration.

## 4. Proofs

A proof module EXTENDS the module it is about. Each proves one inductive invariant,
with a lemma for each action and under it a step for each part of the invariant, and
reads the properties of the runs off it. Every theorem holds for all values of the
constants that the named assumptions allow.

**Tables** (`GuestTable_proofs`), for every number of keys, names and values:

* `TypeCorrect`, `TableIsCanonical`, `TailIsUnused`: `Spec` keeps `TypeOK`,
  `Canonical` and `ArrayTailUnused`. The inductive invariant `Inv` is their
  conjunction: none is inductive alone. `ExtendArray` keeps `Canonical` because
  absorbing stops at an absent key, and `SetList` keeps it because list items lie
  at or below the array's end (`built <= asize`, the second half of
  `ArrayTailUnused`).
* `TableRefinesMap`, `TraversedTableRefinesMap`: every step maps to a store, a list of
  stores, a clearing or a stutter of `LuaTable`.
* `LengthReturnsBorder`, `HintStaysInside`, for every `MaxVic` and `HalfMax`. The
  invariant says at each label what the search knows: on the way down the probed
  slot is absent, on the way up present; a bisection has a present (or zero) lower
  end and an absent upper end; the doubling search has an absent or unset lower end,
  and needs `Canonical` for "`asize` is the border when `asize + 1` is absent".
* `LoopVisitsEachOnce`, `NextKnowsItsKeys`: a `pairs` loop visits what lasts once and
  nothing twice, and `next` fails only on a key of a mixed constructor's table. The
  invariant relates the keys visited to where `tnext` stands.

**Coroutines** (`Coroutines_proofs`), for any coroutines, activations and depth:

* `CoroutineInvariant`. `CoroutineInv` has three layers. `ThreadsInv` is about threads
  alone: the resumed ones are a chain from the running one to the main thread.
  `StackRight` is about one host stack: each activation holds, as saved, the numbers
  of frames and depth that the activations below it account for. `FramesMatch` and
  `RegistersInv` tie the interpreter's registers to the topmost activation of each
  stack. The layers cannot be proved in turn: a return restores a register from what
  an activation saved, a resume swaps registers because the chain says whose they are.
* `StateAlwaysMatches` follows from it, and `ChainRefinesLibrary` says that every step is a
  step of `CoroutineChain` or a stutter.
* `NeverSuspendedInNative`: a native that cannot be yielded across, wherever it stands in a
  host stack, has its frame among those the stack accounts for (`NativeShows`), so the
  guard of `yield` sees it as long as `FramesMatch` holds; a suspended stack stays as it is.
* The proof of the message handler's part failed at first, rightly: a self-close that
  passes by a `pcall` inside the reader of `load` leaves the handler as that `pcall` had
  set it. TLC meets this only with `MaxCalls` 8 and `MaxDepth` 4, past the bounds of the
  run. `PassedBy` names the exception now, as part of `slips`.

**To-be-closed variables** (`CloseVariables_proofs`), for any variables, errors and depth:

* `CloseInvariant`. `CloseInv` says that there is for each host activation a number of
  frames it stands on, growing from the outermost in, that those above are closed
  innermost out by the `close_upvals` under way (`StandsOn`, `TopFits`), that frames
  have identities of their own (`Distinct`), that what has left `I.frames` is referred
  to only by the activation that closes it (`Forgets`), and that the depth is what the
  frames make (`Deep`).
* `UnwindingLeavesNothing`: `LeavesNothing` from it.
* `UnwindingIsImplemented`: `Spec => ImplementsUnwinding`. Every step of the interpreter is
  one step of `Unwinding` or none: a call, a declaration, a block's or function's end, a
  throw and a handler's call are its steps, popping frames and closing what was left of a
  failed handler are stutters. The refinement mapping is partial sums: `Todo[p]` is what
  the first `p` activations have to do. So each step has two halves. Below the
  activation that changes nothing changes (`BelowIs`, `Beneath`: the tasks there look at
  variables and frames that the step leaves alone), and at the top the list changes as
  `Unwinding` says (`CallSteps`, `CloseNextSteps`, `ThrowLeaves`, `UnwindSteps`, ...). What an
  error passes is `Abandon`, whose lemmas say that it goes over a run of functions to
  the variables of their frames (`AbandonRun`) and that abandoning twice is once.
  `CloseInv` is not enough; `Owns` adds three facts. A scope has at least the variables it
  keeps, or the handler would go on to the wrong length. A failed handler's finger has not
  left its frames while one of them is closed, or its variables would count twice. And
  the frame that an unwinding `pcall` has popped is nobody else's, or closing it would take
  variables from what lies below. The two are inductive together (`Joint`).

**Collector** (`Collector_proofs`), for any finite object graph, threads and links:

* `FinalizersRunOnce`: `Owes` counts, for each object, the calls pending and the
  entries in `gc.finalizable` against the times it was marked; an object is in one list
  at most (`ListsOnce`).
* `MainCollectsGarbage`, `CollectsAllGarbage`: the two action properties, which rest
  on `ReachIsClosure`: marking in rounds, as many as there are objects, ends with the
  least set that has the roots and is closed under references. As long as it is not
  closed a round adds an object, which is a counting argument over `Cardinality`.

**Numeric loops** (`ForLoop_proofs`), for every `Half` of at least 2, so for 64 bits:

* `UDivIsUnsigned`: `udiv`, which has only signed division, divides bit patterns
  (quotient and remainder are unique, and twice the quotient of the half is short by one
  at most).
* `LoopRunsAsDefined`: with `UDivIsUnsigned`, the count prepared by `FORPREP` is the
  number of values of the definition, the loop gives them in order, and no addition
  that is used overflows.

**Program harnesses** (`Session_proofs`), for any number of cases, batches, sessions
and saved files, floats of any width, any tolerance, and any outcome of any run:

* `SessionInvariant`: the cases judged, those of the program that runs and those still
  planned make up all that were asked for (`Counts`), an escape of bytecodefuzz has a file
  of this session (`EvidenceKept`), `/tmp` holds of this session what it still needs
  (`TmpKept`), and what is compared was said about the program that runs (`Heard`).
  `PlanIs`: batching loses no case.
* `ReportAlwaysTells`, `FaultsAreAlwaysReal`, `SilenceAlwaysMeansPassed`: for each of
  the seven harnesses, the verdict on each of the seven ways a process ends. For
  mathfuzz it needs that `_ulp_key`, made of the bits of a float, tells any two floats
  apart but the two zeros.

**Batch fuzzers** (`Campaign_proofs`), for any number of batches, cases, zones and
invocations, and any lines that the drivers can print:

* `CampaignInvariant`. `Outputs` says that what is compared was printed in the
  driver's order, one line for each operation, or nothing, and that the leads are
  those of the two outputs; `WorkLeft` that a batch is run once in an invocation
  (`WorkIs`: the batches of all phases and zones are apart, so dumps never share a
  name); `Found` that `main` has leads exactly when some batch gave one; `Files` what
  lies under which name; `Reported` that the lines of the report are in order.
* `SilenceAlwaysMeansAgreement`, `LeadsAreAlwaysReal`: `OpsAre` gives the operations of
  all six drivers for any number of cases, no two of them with one key but in utf8fuzz;
  `IndexIs` what the dictionary of the comparison holds; `Silence` and `Real` are the two
  directions.
* `PanicsAlwaysStay`: needs that a panic is the first lead of its batch, and stays
  among the last four while at most three follow (`PanicIsAmongFour`).
* `CampaignReportTells`, and the action property `NothingClobbered`: a panic dump never
  has the name of a lead file, so that only an invocation of the same seed writes one.

**rubegoldberg** (`Reducer_proofs`), for any stages, any outputs of the two
interpreters, any number of programs and any number of disturbed runs:

* `ReductionStillFails`: what `reduce` holds is a nonempty subsequence of the program
  generated (`WithoutIsSubsequence`: leaving out one stage more keeps it one) that
  still differs. It is nonempty at first because a program is complete when it is
  classified (`Complete`).
* `SavedIsMinimal`: no stage can be left out of what is saved. `NeededSoFar` is what
  makes it inductive: every stage before `at` was tried on the program as it is now,
  which holds only because `reduce` starts over after a success.
* `ReportIsTrue`: `Counted` says how far the tally is behind `count` while a program
  is classified, and `saved` behind the tally while one is reduced.
* The ghost `disturbed` stands in the invariant as in the properties: while it is
  false every run was as it should be, so `reproduces` is `Differs`, which depends on
  the program alone.

### How, and from what

The library states induction with an operator as a parameter, which no prover here can
instantiate. The proofs that need induction argue on a *set* of numbers instead: a set
that has 0 and every successor is `Nat`, for otherwise `WFMin` gives a least number
outside it (`LeastNumber`, `AllNumbers`). A recursive function is reached the same way:
the numbers up to which its defining equation has been unfolded are such a set. So
the models write recursion as functions (`OutputsOf`, `Reach`, `Todo`, the plan of a session), and
selections as `Chosen` or `Sift`, a bijection that keeps the order, since no fact about
`SelectSeq` can be proved here.

Assumptions, which TLC evaluates on every run:

* `TableAssumption`: names are no integers, `Nil` is no value. `LengthAssumption`,
  `ReducerAssumption`, `CloseAssumption`, `BatchAssumption`, `SessionAssumption`,
  `ToleranceAssumption`: bounds and sizes are naturals, and not 0 where nothing could run
  (stages of a program, cases of a batch, depth). `HalfAssumption`: `Half` is at least 2,
  since 1 must be an integer.
* `CoroutineAssumption`, `CollectorAssumption`: the main thread is no coroutine, a table is
  no coroutine, and there are finitely many. `CloseAssumption`: no error is `None`.
* `WidthAssumption`: `2 ^ (W - 1)` is a positive natural number, which it is; no prover
  here knows the exponential.
* `CampaignAssumption`: the zones are distinct, as the default list of datefuzz is
  (`datefuzz/run.py`, `UTC` and `America/New_York`). With a list in `DATEFUZZ_TZS` that
  has a zone twice, the second pass writes its dumps over those of the first.

### Only model-checked

* Liveness (`InvocationEnds`, `SessionEnds`, `ReductionEnds`, `LengthTerminates`,
  `TraversalEnds`, `LoopEnds`, `Terminates`): there is no support for fairness and `ENABLED`.
* `CompilesRight` and `RegistersHold` of `Machine`: they are about the code that the
  compiler makes, and `Compiler` and `Meaning` are recursive over syntax trees, which
  bars the prover; about any other code they are false. The same for what `Stages`
  computes.
* The properties of `Cases`, which compare the items of a finite generator with their
  meaning, one by one: there is no parameter to generalise, but the counts of random pieces.

## 5. Where the code and its comments disagree

Checked by a run:

* `SignalDeath`: the children are started with `exec`, so a golua that dies by a
  signal has a negative returncode, and the test `returncode > 128`
  (`sandboxfuzz/run.py:134`, `bytecodefuzz/run.py:294`, `compilefuzz/run.py:231`) never sees
  it; a kill that leaves no text passes for "ok", against `sandboxfuzz/run.py:17`.

Exceptions that a property names, in the Python programs:

* datefuzz asks for the table of the second before the epoch (`datefuzz/values.py:28`) and
  reads it back with `os.time`, which raises an error since `mktime` answers -1 for that second
  and for failure alike. So the driver prints `time_err` (`datefuzz/emit.py:121`) on a golua that
  does all as the reference does, and every run of tier 0 under UTC has a false lead, against
  `datefuzz/README.md:6` and `:46` and `datefuzz/emit.py:116`. `NoFalseAlarm` shows that it is
  the only one.
* Five batch fuzzers keep the driver when a PANIC is among the last four leads
  (`packfuzz/run.py:140` and its copies). A batch golua did not live to print differs in
  every case, so after a panic in the middle of 400 cases the driver that the dump
  names is removed (`PanicsStayOnDisk`). coercionfuzz keeps it.
* When both interpreters fail on a batch nothing differs (`SilenceMeansAgreement`), and
  the same in debugfuzz and pairsfuzz (`SilenceMeansPassed`).
* datefuzz excuses a line `cannot be represented` also when the other side printed
  nothing (`datefuzz/run.py:127`).
* `cstack_vs_reg` excuses a C stack overflow also when the other side accepts the
  program, against its docstring, "Both reject" (`compilefuzz/run.py:209-215`).
* coercionfuzz excuses a golua `-0` for a reference `+0` in every `binop`, also one that
  is computed at run time from strings, against its comment (`coercionfuzz/run.py:96-101`).
* In rubegoldberg a golua killed by a signal is a DIFF and a reference killed so is
  INVALID (`rubegoldberg/run.py:164`).
* A lone `[` or `)` is malformed although it is in a tier of well-formed patterns, and
  `patternfuzz/grammar.py:179` and `:186` are wrong about `[]` and `)` (`TiersAreAsNamed`).

Seen while modelling them, without a property:

* an interrupted invocation writes neither leads nor report; a second run with the
  same seed overwrites the lead files of another tier; a clean run leaves
  `corpus/report.txt` although the docstrings say that it leaves the corpus empty.
* utf8fuzz compares only the last of the INV lines of a case with the reference's.
* `diff.txt` of an earlier session stays after a clean one, against
  `mathfuzz/README.md:49`; hangs in sandboxfuzz do not change the exit status.
* `g_upvalues`, `g_multiassign`, `g_longjump` and `g_break_distance` of compilefuzz meet the
  limit of 200 locals before the limit they are to bracket (`compilefuzz/run.py:50`).
* in packfuzz the profile "max" draws the value before the last boundary, so the
  largest integer of a width is never drawn (`packfuzz/values.py:206`); in formatfuzz the float
  profiles "min", "max" and "rand" are never drawn, and `%q` never meets `nil`.
* the least of the two instants said to drive "cannot be represented" on both interpreters
  (`datefuzz/README.md:87-88`, `values.py:59-61`) has under UTC the least year that does fit.
* the timestamp that `datefuzz/values.py:43-45` calls the spring-forward of New York lies
  two hours before it, so that change of clocks is not among the boundaries.
* a stage of rubegoldberg is to swap its `__index` "between a table and a function while being
  read" (`rubegoldberg/stages.py:179`). The first read installs a function that neither counts
  nor swaps, so the table is never installed.
* `--replay` of rubegoldberg does not reduce, as its help says; saved failures are
  numbered from 0 in each invocation and replace those of the last.
* `lua54.py:34` ignores a failed checkout.

In the interpreter (paths below are under `src/lua55vm/`), exceptions that properties name:

* `for k in pairs{[2] = "x", "a", "b"}` never ends. `setlist` leaves key 2 in the hash
  part while the array part grows over it (`runtime.lua:118`), and `tnext` restarts the
  hash part after an array key (`runtime.lua:246`). The history variable `mixed`.
* the roots of a collection are the frames of the running thread only. A collection in
  a coroutine takes objects its resumer still holds, and the upvalues of a coroutine
  that has not started are not traced (`gc.lua:196`, against `gc.lua:10-14`).
  `MainTakesOnlyGarbage` speaks of the main thread.
* `FORLOOP` compares the unsigned count as a signed integer (`vm.lua:848`, against
  `vm.lua:821`): a loop over more than 2^63 values stops after the first, which
  `RunsAsDefined` leaves out.
* the host `pcall` around a reader of `load`, or around a message handler, swallows the
  sentinel of a self-close (`stdlib.lua:484`, `vm.lua:986`), against `stdlib.lua:1827-1828` and
  `vm.lua:964-965`. The coroutine goes on with `th.closing` set, so a later `coroutine.close` of
  it answers true and closes nothing (`stdlib.lua:1815`). `SelfClose` in `Coroutines` is this step;
  no property excludes it. The invariants hold after it, but for what `slips` has.
* `#` returns some border, not the first one (`runtime.lua:154-156`), and no
  border for a table that a mixed constructor made.
* `load` does not give back the depth its reader had used when the reader fails
  (`stdlib.lua:484-497`), and leaves frames when the handler called on a bad
  piece fails (`stdlib.lua:506`).
* resuming a running or waiting coroutine empties its frames (`stdlib.lua:1717`),
  and a failed or refused resume leaves the coroutine's message handler in force
  (`stdlib.lua:1711-1738`).
* `max_depth` stays extended when protected calls of two coroutines end in
  another order than they began (`vm.lua:976`).
* an error kept by a refused resume is reported by a later `coroutine.close`
  (`stdlib.lua:1879`).
* a resurrected object never returns to `gc.objects` (`gc.lua:220`) and is not
  finalized again when it is marked for it again; finalizers run in the reverse
  order of creation, not of marking (`gc.lua:222`).
* an assignment prepares its targets in "stable registers" (`compiler.lua:711`),
  but a local used as object or key is not copied, and stores go from right to
  left: `t[i], i = 20, 2` stores at `t[2]`.
* the generic `for` gives back its to-be-closed count twice (`compiler.lua:962`
  after `compiler.lua:185`), so that a later `return f()` becomes a tail call
  although a variable is still to be closed, against `compiler.lua:823-824`.
* the generic `for` makes its block start at the hidden registers
  (`compiler.lua:938`): when the body has a captured variable, the `CLOSE` at the
  end of each iteration closes the loop's closing value after the first one.
* a goto to a label at the end of its block leaves the scope of the block's
  variables, but its `CLOSE` is not lowered to them (`compiler.lua:149-176`):
  their upvalues stay open and their `__close` does not run there.
* assigning to a global that is declared inside the scope of a constant of the
  same name is rejected (`compiler.lua:694` skips declarations).
* `lua55vm/README.md:71-72` says that `#` and the table internals delegate to the
  host. They no longer do.

## 6. What is not modelled

* Of the Python programs: building golua, `--replay`, and `lua54.py`, which are commands in
  a row; the distribution of random draws; the Lua source of the scenarios of
  coroutinefuzz, debugfuzz, pairsfuzz, compilefuzz and sandboxfuzz and the expressions
  of mathfuzz, which are data: nothing in the repository says what they should print,
  only that both interpreters should print the same.
* golua and the reference, which are not part of the repository: free, or external.
* Of the interpreter: `coroutine.wrap` (a resume that raises), `__close` handlers run by
  `coroutine.close` or by a failed resume, weak keys and ephemerons, the byte estimate
  that starts a collection, loops over floats; the limits of 200 locals and 255
  registers, lines, debug names and the division and bit operators; the lexer,
  binary chunks, patterns, metamethods, hooks, the table, string and utf8 functions.
* `io`, `os` and numbers are calls to the host. Wording of errors and line
  information are left out everywhere.
* `navfuzz` and the shell scripts.

## 7. Plan

The project keeps to a dozen runs: a new component takes over a run whose question
another run, or a theorem, answers as well (`TableLength` beside its proof).

1. `CoroutineClose`: handlers run by `coroutine.close` and by a failed resume, the
   closing thread resumed by one of them; composes the two machines.
2. `Sort`, `TableMove`, `Precedence`, `Metamethods`, `Matcher`, `Chunks`, `WeakTables` for the
   remaining parts of the interpreter.
3. `Mesh` (half-edges, bonds, free lists), `Flip`, `Segment` and `Carve` on small
   grids; `Funnel` and `AStar` against shortest paths by definition.
