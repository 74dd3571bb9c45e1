----------------------------- MODULE Conformance -----------------------------
(***************************************************************************)
(* Both engines of the CPU class on the same program: CPU::run, the        *)
(* reference, executes it to its end, then CPU::run_pipeline does, from    *)
(* the same memory and registers.                                          *)
(***************************************************************************)
EXTENDS Pipeline

CONSTANTS ByteBits, HalfwordBits

ASSUME WidthsAssumption == {ByteBits, HalfwordBits} \subseteq 0 .. WordBits

VARIABLES ref_status, ref_pc, ref_registers, ref_memory, ref_flags, ref_files, ref_special

Ref == INSTANCE Interpreter WITH
  status <- ref_status, pc <- ref_pc, registers <- ref_registers, memory <- ref_memory,
  flags <- ref_flags, files <- ref_files, special <- ref_special

ref_vars == <<ref_status, ref_pc, ref_registers, ref_memory, ref_flags, ref_files,
              ref_special>>
both_vars == <<vars, ref_vars>>

(* one program and one preset, loaded into both *)
BothInit ==
  /\ Init
  /\ ref_status = status /\ ref_pc = pc
  /\ ref_registers = registers /\ ref_memory = memory
  /\ ref_flags = flags /\ ref_files = files
  /\ ref_special = [s \in {"HI", "LO", "PC"} |-> 0]

ReferenceStep == Ref!Next /\ UNCHANGED vars
PipelineStep  == ref_status # "running" /\ Next /\ UNCHANGED ref_vars

BothNext == ReferenceStep \/ PipelineStep
BothSpec == BothInit /\ [][BothNext]_both_vars /\ WF_both_vars(BothNext)

BothHalted == status = "halted" /\ ref_status = "halted" /\ stage = "WB"

(* $v0 and the argument registers are loaded differently by the two        *)
(* engines' system calls, and nothing but an exit follows here.            *)
Visible == Reg \ ({V0} \cup A0 .. A3)

(* Both engines leave the same registers and the same memory behind:       *)
(* overlapping the instructions is not observable.                         *)
Conforms == BothHalted =>
  /\ \A r \in Visible : registers[r] = ref_registers[r]
  /\ memory = ref_memory

(* Both engines reach the exit call that ends the program.                 *)
BothHalt == <>BothHalted
==============================================================================
