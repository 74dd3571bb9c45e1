# Virtual CPU in TLA+

A model of the Virtual CPU of this repository: a MIPS-like processor in C++ with
two execution engines, one that interprets an instruction at a time (`CPU::run`)
and one with a five-stage pipeline (`CPU::run_pipeline`), and the assembler that
makes their programs out of text. TLC checks the models
on small instances and TLAPS proves the most important properties for all of them.

## The system

| part | source | state | operations | what makes it correct |
|---|---|---|---|---|
| memory and registers | `virtual_cpu.h`, constructor and `loadProgram` | `memory`, `registers`, memory map | load a program, set up `$sp`, `$gp` | words stay words, the program stays in the text segment |
| instruction set | `opcodes.h`, `registers.h`, `syscalls.h` | none | cut a word into fields | both engines agree on what a word means |
| flags | `flags.cpp` | seven flags | `setFlags`, `setExceptionFlag` | none is read by the program; every flag is sticky |
| system calls | `executeSyscall`, `utils::syscall_*` | registers, memory, `file_descriptors`, `halted` | print, read, exit, four file calls | the text of the program is not overwritten, an exit ends the run |
| control unit | `control_unit.cpp` | `pc_src`, `branch`, `nop`, `resolved`, `redo_decode`, forwarding bits | derive, forward and reset signals | signals travel with their instruction, requests are served once |
| pipelined engine | `run_pipeline` and its five stages, `pipeline_registers.h` | latches IF/ID, ID/EX, EX/MEM, MEM/WB, `dont_write`, all of the above | `WB`, `mem`, `execute`, `decode`, `fetch_pipeline` | no instruction is lost, repeated or overtaken; operands are never stale; only stores write memory; the result is that of the other engine |
| interpreting engine | `run`, `fetch`, `decodeExecute` | `pc`, special registers HI, LO, PC, all of the above | one instruction | programs compute what they should and halt |
| assembler | `Assembler.cpp`, `Assembler.h` | `mult_inst` (a global), the vector of words and the line it is at | `encodeInstructions`: look a line up, strip, `rType`, `iType`, `jType`, `trap`, append | a word denotes its line, a line is refused for a cause only, line and word count stay in step |
| demo | `main` of `demo.cpp` | a text, a `CPU` | assemble, load messages and program, run | the programs do what their comments say |
| display, debugging | `debug*`, `display_*` | none | print | not modelled |

There is one thread. What is hard is the order of the stages: one turn of
`run_pipeline` calls `WB`, `mem`, `execute`, `decode` and `fetch_pipeline`, in
that order, and each reads and writes the latches of its neighbours in place.
What a stage sees depends on which of the others has run in this turn, on four
instructions under way at once, on signals that travel apart from their
instruction, and on forwarding values that outlive it. The second source of
difficulty is the console and the file system, whose answers a program does not
control. There is no persistence, no messages and no concurrency of threads, so
no crashes, no lost messages and no races between threads appear in the model.

## Modules

| module | models | lines of code |
|---|---|---|
| `Words` | `uint32_t`/`int32_t` arithmetic, sign extension, shifts | `utils.h` 16-56 and the operators of the engines |
| `Isa` | opcodes, registers, system call numbers, jump targets, results both engines compute alike | `opcodes.h`, `registers.h`, `syscalls.h` |
| `Flags` | `Flags::setFlags`, `utils::checkIntOverflow` | `flags.cpp` |
| `Machine` | constructor, `loadProgram`, memory map | `virtual_cpu.cpp` 4-31 |
| `Syscalls` | `executeSyscall` and the `utils::syscall_*` helpers, as a set of outcomes | `virtual_cpu.cpp` 1123-1185, `utils.h` 58-183 |
| `ControlUnit` | `ControlUnit` | `control_unit.cpp` |
| `Pipeline` | the five stages, one action per stage and case of its switch | `virtual_cpu.cpp` 174-868, `pipeline_registers.h` |
| `FiveStage` | abstract: what a pipeline promises about the flow of instructions | CPU_design.md 275-354 |
| `Interpreter` | `run`, `fetch`, `decodeExecute`, one action per group of cases | `virtual_cpu.cpp` 34-40, 167-171, 877-1054 |
| `Conformance` | both engines on the same program | composes `Pipeline` and `Interpreter` |
| `ArithmeticPrograms` | the programs both engines are proved to agree on | `virtual_cpu.cpp` 803-868, 975 set their limits |
| `KnownPrograms` | programs whose result is known, given by the fields of their instructions | |
| `AssemblyText` | what a text is: lines of a mnemonic and operands, numbers with sign and base | `Assembler.cpp` 77-114 |
| `InstructionWord` | the 32-bit word, put together as the assembler does and cut as the engines do | `Assembler.cpp`, `virtual_cpu.cpp` 226-234, `opcodes.h` |
| `LineEncoding` | `getOpAndInstructionType`, `stripWhiteSpaces`, `anyBaseToBinary`, `validStoreReg`, `rType`, `iType`, `jType`, `trap`: a line as the set of encodings it may get | `Assembler.cpp` 116-606 |
| `Assembler` | the loop of `encodeInstructions`, its global flag, the ways it ends | `Assembler.cpp` 9-75, `Assembler.h` 26 |
| `OnePass` | abstract: what an assembler promises for a line | the tables of CPU_design.md and the engines' cuts |
| `Demo` | `main`: assembler, loader and both engines | `demo.cpp` 177-224; composes `Assembler` and `Conformance` |
| `DemoTexts` | the fifteen programs | `demo.cpp` 24-172 |
| `Encoding` | decoding of narrow words, for model checking | |
| `MCPipeline`, `MCInterpreter`, `MCPrograms`, `MCConformance`, `MCAssembler`, `MCDemo` | vocabularies, texts and programs of the runs | |
| `MachineProofs`, `PipelineProofs`, `OrderProofs`, `InterpreterProofs`, `ProgramProofs`, `ConformanceProofs`, `AssemblerProofs`, `DemoProofs` | lemmas and theorems | |

`Syscalls` extends `Machine` extends `Isa` extends `Words`; `Pipeline` extends
`Syscalls`, `ControlUnit` and `Flags`, and `Interpreter` extends `Syscalls` and
`Flags`. `Conformance` extends `Pipeline` and takes an instance of `Interpreter`
on variables of its own (`ref_...`); the reference runs first, then the pipeline.
`ArithmeticPrograms` extends `Conformance`, and `KnownPrograms` extends `Interpreter`, with
programs as predicates on `Fields` and memory, so that they do not depend on an encoding.
`LineEncoding` extends `AssemblyText` and `InstructionWord`, `Assembler` extends
`LineEncoding`. `Demo` extends `Conformance` and takes an instance of `Assembler`;
the words it hands over stand for themselves (see Abstractions).

### State and actions of `Pipeline`

The variables have the names of the fields of class `CPU`; a latch is a record
with the names of its fields. `stage` is the function the loop calls next, and
each action is one whole call. `execute` and `decode` are split by the cases of
their switches (`ExecuteRegister`, `ExecuteBeq`, ..., `DecodeImmediate`), and
what every case does is in `Latch`, `ControlUnitAfter` and `Issue`. Fields that
are written and only displayed (`store_val2`, `jump_address`, the copies of
registers in EX/MEM, the cycle counter) are left out.

The control signals need a word. `decode` derives them, copies them into EX/MEM
and clears them in the control unit, all in one call; `execute` of the next turn
copies them into MEM/WB and clears EX/MEM. So the fields of `ControlUnit` that
hold them are always zero between calls and do not appear: `ex_mem.ctl` and
`mem_wb.ctl` do.

A step that indexes memory outside the array, or divides by zero, is a `fault`
that ends the run. BEQ uses values as register numbers: beyond the 32 registers
it reads memory of the process it does not own, which is a choice over both
outcomes of the comparison or a fault. `WB` can write there as well: a word with
the opcode 2, 16, 18, 24 or 26 names no instruction, but `setControlSignals`
compares the opcode with the function codes of SRL, MFHI, MFLO, MULT and DIV, and
on the `alu_op` of an R-type `execute` takes what `decode` has read from a
register for the number of the destination (`Misread`, `DestinationIsNumber`).
The registers are the last member of class `CPU`, so that such a write meets no
variable of the machine (`Written`), or ends the process (`WBFault`).

### State and actions of `Assembler`

`encodeInstructions` is a loop with two halves: a line is turned into a string
(`Encode`), and the string is appended as one word or, when the global
`mult_inst` is up, as the several an la takes (`AppendOne`, `AppendLa`). An
action is one half, so the flag that couples them is state. `Refuse` is the
string "N", `UnknownMnemonic` a line that is not in the table, `Finish` the end.

Where the language leaves open what happens, the model has every outcome: a load
without a register in its address reads `registers[2]` of a vector of two
(Assembler.cpp:441, any register or none), jalr with one operand `registers[1]`,
and `erase` of an operand without a space before it acts on the end of the
string (any of these may also end the process, `EncodeCrash`).

`KeepsPromise` is refinement of `OnePass`, which knows nothing of strings: it
cuts the fields out of the words as `decode` does and compares them with the
operands of the line.

### Abstractions

A word has `ImmBits + UpperShift` bits, 16 + 16 in the code. The fields the code
cuts out of a word are a constant function `Fields`, so that a theorem holds for
every encoding and a run can use a narrow one. An opcode field may hold a number
that is no opcode: the six the code compares with something (the function codes
of `Misread`, and ADD, which `WB` has in its list of loads) keep their names, all
others are "UNDEFINED". The assembler emits none of them, but a program can store
such a word, and the messages of `main` are such words. Printing leaves no trace. The floating-point registers are written by two system calls
and used by none, and are left out. The host's shifts take the amount modulo
the word size, as x86-64 and AArch64 do.

A line of text is a mnemonic and a sequence of operands; the parser's search for
commas, comments and parentheses is abstracted to that. What later steps depend
on is kept: the spaces before an operand (`stripWhiteSpaces` erases exactly one
character), the base and sign of a number, a name that is no register. A number
is checked in the code by counting the bits of a `bitset<26>` from its first 1
or 0; `AnyBaseToBinary` states the comparison this amounts to, and
`TakenByItsBits` compares it with the search (`ImmSize`), and the proofs show that
the two always agree.

The assembler's words have 32 bits and the engines of a run eight. `Demo`
numbers the words of its texts (`WordCode`), and `CodeAssumption`, which TLC
evaluates, says that the fields the engines get are those cut out of the 32 bits.
The two messages `main` loads are the words their letters make (`MessageWord`).

## Runs

All runs use eight-bit words (six bits of immediate, LUI shifts by two), forty
words of memory: text up to 23, data from 24, stack from 39 downwards. Programs
are sequences of instructions from a vocabulary, followed by `li $v0, 9` and
`syscall` (9 and 10 both are exits). A byte is four bits and a halfword six, so that narrowing shows.

| run | shows |
|---|---|
| `pipeline_safety` | every pair of the 33 words of the vocabulary, two that are no instruction among them, every triple of twelve of them, and system calls in a row, from two presets of the registers: where control information goes, which results have a register number for a destination, and refinement of `FiveStage` |
| `pipeline_straight_line` | triples without jumps, branches and calls between: the instruction in EX is the one two words before `pc`, only stores write memory, and `dont_write`, which stops all results for good, is raised only by a load with a store behind it |
| `conformance_alu` | triples of ADDI, LI, LUI, ORI, ADD, SUB, SLL, NOR on registers that never hold the number of one of them (`NumbersApart`): both engines halt with the same registers and memory. The programs are those of the proofs (`ArithmeticOnly`, `StraightText`, `ZeroPrograms`) and bounds keep them apart (`TextKeepsApart`): assumptions TLC evaluates |
| `interpreter_safety` | every pair of 35 instructions and system calls in a row, lines of up to sixteen characters: typing, the mirror of `pc`, text spared by system calls, nothing in the data segment written over |
| `interpreter_programs` | Euclid's algorithm, two counted loops, a call, two pushes and pops, a byte stored and loaded, on 64 pairs of operands from 0 to 255: known results, termination. That the runs satisfy what the proofs suppose (`OperandsOnly`, `RoomForStack`, `RoomForJumps`) is an assumption TLC evaluates |
| `assembler_contract` | every mnemonic with registers of each kind and some thirty numbers at the edges of the fields in four bases, operands too many, too few and unknown, none to two spaces, and texts of up to three lines of every outcome: refinement of `OnePass`, the count of words, the width test, termination |
| `demo` | the fifteen texts of `demo.cpp` and eight with a line that is refused, from the text through the assembler and the memory to the end of both engines |
| `conformance_by_value` | **violated**: `ex_mem.rd`, the value of a register, is compared with a register number |
| `pipeline_store_clobbers` | **violated**: a store writes a register, on the signals of the instruction behind it |
| `pipeline_flushed_store` | **violated**: a store flushed by a jump writes memory |
| `pipeline_target_again` | **violated**: the target of a jump is fetched twice, with an address one less than for others |
| `pipeline_double_load` | **violated**: LW loads from the address it has loaded |

The pipeline holds four instructions and the stages reach no further than the
neighbouring latches: an instruction can affect one three behind it at most.
Three instructions in any order and the exit pair behind them fill all latches
and meet each other at every distance, which is why triples are enough. The
exceptions are latch fields that outlive a flush (`dont_write`, the register
numbers, `syscall_code`), and they are set and used within the five words of a
program. A word narrower than 32 bits keeps every comparison the code makes: the sign
bit, the wrap of additions, a value that equals a register number. Programs may
store into their own text and jump anywhere, which is why runs of a few
instructions still reach 866 000 states. Every action of both engines fires.

Every line of the assembler is encoded by itself but for `mult_inst`, which one
line raises and the same line lowers: a line can disturb the next, which is why
pairs and triples of lines of every outcome are enough beside single lines with
every operand. The numbers of `MCAssembler` are those at which a comparison of
`AnyBaseToBinary` or `LongLa` changes, and their neighbours.

What `demo` shows of the programs in `demo.cpp`: the five results their comments
announce ("expect 42 in $t5", ...) come out on both engines; the message of
`branch_equal_not_equal` in the pipeline is the one for equal registers, because
`decode` takes $a0 from the last immediate and not from what lui and ori make of
it; both engines leave the same memory behind except for `d_hazard` and
`sw_data_hazard_test3`; and `run_pipeline` ends for all but `array_program`,
which its own comment marks as not working. `d_hazard` stores 0 and not 10 at
address 8: the test for a store behind a load (virtual_cpu.cpp:735) does not
list li. On `run`, `hello_world` and `branch_equal_not_equal` fault, as $a0 is
then the address lui has shifted. Texts that are refused run all the same, as
`main` does not look at what `encodeInstructions` returns: they write no $zero,
and neither engine ends them as a program that has come to its exit.

The violations are findings about the code; PROJECT.json quotes the lines of the
repository that say otherwise. `conformance_alu` avoids them: the registers it
uses start as multiples of 32 and never reach the number of one of them, and the
exit call is followed by nothing. Loads and
stores are outside it because of the findings about them.

Each property of a passing run has a seeded fault that breaks it: an operator
beside the definition it alters, commented as such in its module, that makes the
change a plausible bug would make (a flush left out, a signal not reset, an
offset by one). PROJECT.json pairs them.

### Fairness

`Spec` has `WF_vars(Next)`: `run` and `run_pipeline` are `while (!halted)` loops
of one thread, so a step that can be taken is. Nothing stronger is assumed.
`encodeInstructions` and `main` are loops and calls of one thread as well
(`WF_asm_vars(Next)`, `WF_demo_vars(DemoNext)`). `BothHalt`, `Halts`, `Returns`
and `RunEnds` need it; no other property does. Deadlock is not checked
because the process stops when it halts or faults.

## Proofs

The theorems hold for every word width (of more than 31 values, so that a word
can hold a register number), memory size below the word size, encoding, set of
programs, presets, console answers and texts that satisfy the ASSUMEs of `Words`,
`Isa`, `Machine`, `Syscalls`, `Interpreter` and `Assembler`. They ask of the constants: powers of two are
positive naturals, bit operations stay within a word, `Fields` maps words to
instructions and the word 0 to an R-type, and memory fits below the word size.
TLC evaluates the assumptions on every run.

`PipelineProofs`, for `Pipeline!Spec`:

- `PipelineTyped`, `HazardUnitNeverActs`, `ForwardingServed`, `RedirectServed`,
  `BeqComparesWithZero`, `DestinationsAreNumbers`, `SignalsAhead`: each invariant of
  `pipeline_safety`;
- `ImplementsFiveStage`: the refinement of `FiveStage`.

They rest on one inductive invariant,

    IInv == TypeOK /\ HazardUnitIdle /\ ForwardingConsumed /\ RedirectWithinTurn
              /\ BranchOperandsZero /\ SignalsOfExMem /\ SignalsOfIdEx /\ RdIsNumber
              /\ DestinationIsNumber

in which three parts are not properties but what makes the others inductive.
`SignalsOfExMem`: what EX/MEM and MEM/WB hold at each stage is what
`setControlSignals` derives from the opcode of the latch behind, or a bubble
stands there, and EX/MEM has no signals when `decode` runs. The load-use stall
therefore never sees `mem_read`, `nop` is never raised, and with `nop` at zero
every turn calls all five stages, which is what the flow of instructions needs.
`SignalsOfIdEx` is the same for the signals that `execute` will move on.
`RdIsNumber`: where `alu_op = 10` and the opcode in ID/EX is not misread,
`id_ex.rd` is a register number, though for an I-type it is a value; without it
`DestinationIsNumber` would not be kept. Of `destination_register` the types say
no more than that it is a word: of a misread instruction nothing more is true.

`InterpreterProofs`, for `Interpreter!Spec`: `InterpreterTyped`,
`MirrorFollows` (`pc` and its mirror differ after J and JAL only),
`TextSpared` (no system call writes below the data segment) and `LinesAreKept`
(a line that is read writes over nothing as long as the data segment has no
gaps), from the invariant `TypeOK /\ PcMirrored`. The last two rest on one lemma:
`READ_STRING` writes from the first empty cell on, and that cell exists, is
empty and lies in the data segment. `MachineProofs` holds the lemmas both use: operators on
words stay within words, and each system call maps a well-typed machine to
well-typed outcomes and leaves the text alone.

`AssemblerProofs`, for `Assembler!Spec` and every set of texts: `TypeCorrect`,
`PromiseKept` (the refinement of `OnePass`) and `CountKept`. The invariant is

    IInv == TypeOK /\ Handover

`Handover` says what one half of the loop leaves for the other: a string that
waits to be appended is one of the encodings of the line the loop is at, and the
flag is up exactly when that line is an la that was not refused. Without it
`AppendLa` could split the word of another line, and nothing would relate what
is appended to the text. `RTypeKept`, `ITypeKept`, `LaKept` and `JTypeKept` show for
each form that the fields cut out of the word are the operands that were put in;
they rest on the first section of the module, where the arithmetic of the shifts and
masks is done once. `CountKept` adds to `IInv` how many words each encoding has.

`SearchAgrees`: the comparisons of `AnyBaseToBinary` say what the code's search
through the 26 characters says. It is a fact about each number, so the proof is
about one: the first 1 of a positive pattern is at the place of its highest power
of two (`HighestOne`), the first 0 of a negative one is that of its complement
(`HighestZero`), and a pattern without either is 0 or -1 (`AllAlike`).

`OrderProofs`, for straight lines of `Pipeline!Spec`: `NothingOvertaken`,
`WritesLostBesideStore` and `OnlyStoresWrite`. A straight line is a behaviour in
which no redirection is ordered (`NotRedirected`), only fetching moves `pc`
(`FetchMovesPc`) and no word before `pc` is written (`TextKept`). The three are
hypotheses about the program, stated of its behaviour: every behaviour of
`pipeline_straight_line` satisfies them, and without the first `StoresOnly` is one of the
violations above. The invariant says which word each latch holds:

    OrderInv == InOrder /\ StoppedBehindPc

`InOrder` is `InStep` for every stage and latch, the distance from `pc` depending
on the stage; `StoppedBehindPc` remembers the load and the store that raised
`dont_write`, which may have left the pipeline long ago. `OnlyStoresWrite` needs
no more than `NotRedirected`: with it the signal to write memory never outlives
its store (`StoreSignals`). It says in whose turn memory changes, in `mem` with a
store in EX/MEM or in a system call, and claims neither the address nor the value:
the code alters both (virtual_cpu.cpp:681, 727), and `d_hazard` stores 0 for 10.
`StraightStoresOnly` adds which store it is: with the order of the words as well, the
one three words before `pc`, so that each write belongs to a store of the text.

For a class of texts the three hypotheses are theorems: `StraightTextGoesStraight`. A
`StraightText` has no store, branch, jump or jalr and asks for no string, and
`StraightTextInStep` is `InStep` for it without any word about its behaviour. The
invariant is `MadeOf(K)`: all that memory and the latches hold are instructions of a
set K, where none of K writes into memory. The latch fields that outlive a flush are
what it has to speak of: the empty instruction that stands in a flushed latch,
and `syscall_code`, which keeps the last immediate that went to `$v0`.

`ZeroProgramsKeepZero`, with the same invariant for K the words that spare `$zero`:
write back does not look at the number of the register it writes. A program leaves `$zero`
alone if each of its words names another destination, no system call stands right
behind an R-type, and a misread word stands before one that writes no register. The
second condition is not one a reader of the instruction set would
expect. SYSCALL falls through into ADDI with the `rd_reg` that `decode` left in ID/EX for
the instruction before it, an R-type leaves 0 there, and what the addition computes goes to
`$zero`. `ZeroLatches` follows the destinations through EX/MEM and MEM/WB, where
whatever is on its way to `$zero` has to be zero: the empty instruction shifts `$zero`
into itself, and no forwarding replaces its operand. A misread word may find 0 in the
register it takes its destination from, and what it leaves in `alu_result` is the result of
an instruction before it. Whether that is written is up to the signals of the word
behind it, hence the third condition (`MisreadPlaced`).

`ConformanceProofs`, for the composition: `EnginesAgree`. The programs are those of
`ArithmeticOnly`, of any length: instructions with a result, no addi on `$sp`, no
write to `$zero`, then the exit. `NumbersApart` is what the run
`conformance_by_value` shows to be necessary: forwarding compares a register's
contents with a register number. Under it the invariant is a simulation. `History`
is the sequence of register files the program goes through, as the first engine
computes them; the pipeline's registers are the element of it at the last
instruction written back, and each operand in a latch, after the forwarding its
stage still owes it, is its register's value in the element before the
instruction that reads it. This is where the order of `WB`, `mem` and `execute` in one
turn is used: the newer of two results wins because `mem` asks for forwarding last.

`NumbersApart` is itself decided by the text. `TextKeepsApart` carries bounds over the
instructions: sets of words, one for each register after each instruction, that the presets
start in and each result stays in, and that no number of a named register is in.
`TextDecidesApart` proves `NumbersApart` of every such text and `TextDecidesAgreement`
what follows, so that the hypothesis of `EnginesAgree` about a behaviour becomes one about
a text. The bounds are not computed in the proof but supposed to exist: a run of the
program is one of the `History` the invariant above speaks of, and by the number of
instructions executed its element k lies in the k-th bounds. `EnginesComputeText` says
what both engines end with: the registers that applying the instructions one by one to a
preset defines (`IsRun`), and the memory as it was loaded. In `MCConformance` TLC collects
the least bounds of the 585 programs of the run and finds them apart.

`ProgramProofs`, for `Interpreter!Spec` and a behaviour that starts with the
program in question: `EuclidComputesGcd`, `SumIsProduct`, `CallComesBack`,
`StackBalances` and `StoresByte`. A lemma per instruction says what it leaves
(`DoesAdd`, `DoesBeq`, ...); an invariant per program says what holds at each of its
addresses, as Floyd has it (`EuclidInv`, ...). At the head of Euclid's loop
the common divisors of `$t0` and `$t1` are those of the operands; at the head of the
sum `$t2` is the product of the operand and the terms added so far, modulo the word size, with
which a counter that starts at zero and wraps is right as well. The hypotheses: only `$s0` and
`$s1` are preset, jumps stay in the first region (a region has 2^28 words in the
code), and the stack lies behind the program, inside memory, and not at address 29,
where addi would move `$sp` twice. The operands, the width of a word and the encoding are
free. The results are partial correctness; that the programs end is `Halts`, which TLC checks.

`DemoProofs`, for `Demo!DemoSpec`, that is for a text on its way through the assembler,
the loader and both engines. The engine without a pipeline and the assembler are
instances there on variables of their own, and what is proved about them is used as
an instance of their proofs (`RefProofs`, `AsmProofs`); `SameReference`, `SameWords`,
`SameEncodings` and `SameAssembler` say that the instances are of one definition.

- `MainKeepsPromise`, `MainTyped`, `MainImplementsFiveStage`: the refinement of `OnePass`, the
  types and the flow of instructions hold for every text inside `main`, which loads a CPU that
  has been set up already with what the assembler has left when it stopped. `Encoded` is what
  the engines need to know of the assembler: every word appended is one of the texts'.
- `CutTextNeverHalts`: `RefusedNeverHalts` for all texts that are cut before anything in
  them stores or calls. The invariant is in two halves, as the run is. `Assembling(n)`: of a
  text that is cut at line n, only words of the lines before n are appended, whatever the
  line is that cannot be taken. `Running`: all that both engines have in memory and latches
  are instructions that neither store nor call, none of which ends a run.
- `SparingTextKeepsZero`: `ZeroStaysZero` for the texts of `SparingText`, whose lines are
  R-types with a destination, additions and logic with an immediate, li, lui, la and
  system calls. `validStoreReg` keeps `$zero` out of them; li, lui and la are taken without
  it (Assembler.cpp:500), so that of those lines it is a condition. `SparingAssembling(n)` relates
  words to lines: a call has a word before it that comes of a line of another form than the
  register form, so that loading establishes what `ZeroProgramsKeepZero` needs.

The conditions on the constants are `CutQuietly` and `SparingCpu`. They are assumptions of
`MCDemo`, with `SparingText` for seven of the fifteen texts of `demo.cpp` and all eight that are
refused, so TLC evaluates them on the run `demo`. About the messages beside the program
nothing is supposed, as what they are is known: `QuietMessage` and `SparingMessage` prove of
the words of their letters that none stores, calls or names `$zero`. Their opcodes are 26 to
28 and 0. The word of "Regi" (opcode 26) is misread for a division, with $a3 for the number of its
destination, and harmless because "ster" (opcode 28, no instruction's) follows and writes nothing.
Nothing jumps there, but the engines run into the messages behind a text without an exit.

Model-checked only: `Expected`, `RightMessage` and `StoresAgree` of `demo`, which are
about particular texts of 32-bit words, whose evaluation is TLC's business and not a
prover's; `ZeroStaysZero` for the texts of `demo.cpp` with loads, stores or branches, or a call right
behind an R-type, which `SparingText` leaves out; and
`BothHalt`, `Halts`, `Returns` and `RunEnds`, liveness under fairness. Not proved
either: `Conforms` beyond arithmetic. Loads, stores and whatever redirects the
fetch are outside it because of the findings about them.

## Where code and documents differ

Five findings have a run each. The rest is read off the definitions of the model
that a line of a document contradicts; a run would only repeat it. Where the table
names a theorem, the model checks and proves what the code does, and a repair of
the code would, as it should, make that property fail.

| the code | the document |
|---|---|
| `exit2` sets a copy of `halt`, the program runs on (utils.h:180) | "Exit with status", CPU_design.md:206 |
| READ_STRING ignores $a0 and $a1 and stores a quarter of the line, with gaps (utils.h:72) | "buffer in $a0, length in $a1", CPU_design.md:195 |
| a load and the instruction that uses its result follow each other without a stall: the test looks for a signal that has been cleared (virtual_cpu.cpp:255, control_unit.cpp:70); `HazardUnitNeverActs` | "hazard detection unit in decode stage ... stall pipeline", CPU_design.md:364-367 |
| the operands a branch waits for never arrive, the signal being cleared before `mem` sees it, so that BEQ compares with zeros (virtual_cpu.cpp:749, control_unit.cpp:70); `BeqComparesWithZero` | "branch pipeline hazard solution", "Solved Problem", virtual_cpu.cpp:748-750; "Branch if $rs == $rt", CPU_design.md:168 |
| JAL and JALR link behind the next instruction, which a call skips when it returns (virtual_cpu.cpp:957); `CallComesBack` | "save address of next instruction (to return to)", virtual_cpu.cpp:957; "stores return address in $ra", CPU_design.md:164 |
| a word that names no instruction is decoded as an I-type, with the signals of an R-type if its opcode is a function code (control_unit.cpp:18) | "Check before decoding if opcode is valid", CPU_design.md:373 |
| the file calls look up descriptor 4 (utils.h:114) | "fd in $a0", CPU_design.md:203 |
| flags are computed from register numbers and only raised (virtual_cpu.cpp:896, flags.cpp:18) | "if the result ... is zero", CPU_design.md:84 |
| LB, LH, SB, SH address from the number of the base register (virtual_cpu.cpp:995) | "offset($t1)", CPU_design.md:145 |
| ADDI moves $sp as well when its base holds 29 (virtual_cpu.cpp:975) | CPU_design.md:112 |
| MULT writes neither HI nor LO, but the register 0 of its rd field (virtual_cpu.cpp:904) | "Hi, Lo = $2 x $3", CPU_design.md:114; "$zero always holds 0", :40 |
| BLTZ never jumps, BGEZ always does (virtual_cpu.cpp:1020, 1026) | CPU_design.md:173 |
| the data segment begins below the end of the text (virtual_cpu.h:24) | CPU_design.md:237 |
| the pipelined DIV traps on zero (virtual_cpu.cpp:471) | exception flag, CPU_design.md:100 |
| the pipelined JAL does not jump and makes a system call (virtual_cpu.cpp:519) | CPU_design.md:164 |
| `dont_write == 0` is a comparison (virtual_cpu.cpp:789) | "Writes the result to the destination register", CPU_design.md:280 |
| the pipelined SYSCALL takes its arguments from immediates (virtual_cpu.cpp:524) | the table from CPU_design.md:191 on |
| li is not in the list of loads a store waits for (virtual_cpu.cpp:735) | "For loads imm followed by stores", CPU_design.md:362 |
| a negative number down to twice its range is taken, -1 is refused (Assembler.cpp:236) | "the number fits the instruction", Assembler.cpp:201 |
| one character is stripped, whatever the spaces (Assembler.cpp:254) | "strips the whitespace out", Assembler.cpp:249 |
| `jr $ra` is refused, as the test that exempts jr is always true (Assembler.cpp:294); no engine has a case for jr | "Return from function", CPU_design.md:183 |

## Not modelled

- The characters of a text: `parser` and the splitting of an operand are
  abstracted to `Line`.
- `executeSyscall_pipeline`: nothing calls it.
- Display and debugging functions, the performance counters, the debug helpers
  of `Assembler.h`. `helloWorld` of `demo.cpp` is compiled out.
- The exception of `loadProgram` for a program longer than the text segment:
  nothing catches it and the process ends, so `Loadable` keeps it out.
- The contents of files and printed text.

## Plan

What has been planned is done but for these:

1. `Conforms` for an arithmetic text inside `main`: the simulation of `ConformanceProofs`
   starts from memory that holds the program and nothing else, while `main` has messages
   behind it.
2. The pipeline on the programs of `KnownPrograms`, restricted to the
   instructions both engines agree on.
3. Words of 32 bits throughout, in place of `Fields` over numbered words.
