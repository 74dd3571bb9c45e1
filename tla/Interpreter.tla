----------------------------- MODULE Interpreter -----------------------------
(***************************************************************************)
(* CPU::run: the engine without a pipeline.  fetch() reads the word at pc, *)
(* steps pc and calls decodeExecute, which does the whole instruction; one *)
(* call is one action here, an action per group of cases of its switches.  *)
(***************************************************************************)
EXTENDS Syscalls, Flags

CONSTANTS ByteBits, HalfwordBits       \* uint8_t and uint16_t: 8 and 16 in the code

ASSUME WidthsAssumption == {ByteBits, HalfwordBits} \subseteq 0 .. WordBits

VARIABLES
  status, pc, registers, memory, flags, files,
  special           \* special_registers HI, LO and PC; the others are never written

vars == <<status, pc, registers, memory, flags, files, special>>

(* Whatever decodeExecute() runs, registers and memory hold words: no      *)
(* system call leaves an offset or a status that is none.                  *)
TypeOK ==
  /\ status \in Status
  /\ pc \in Word
  /\ registers \in Registers
  /\ memory \in Memory
  /\ flags \in FlagSet
  /\ files \in SUBSET Descriptors
  /\ special \in [{"HI", "LO", "PC"} -> Word]

Init ==
  /\ status = "running" /\ pc = 0
  /\ \E s \in Presets : registers = InitialRegisters(s)
  /\ \E p \in Programs : Loadable(p) /\ memory = LoadedMemory(p)
  /\ flags = NoFlags /\ files = {}
  /\ special = [s \in {"HI", "LO", "PC"} |-> 0]

(* CPU::fetch, the part before decodeExecute *)
Instr    == Fields[memory[pc]]
Stepped  == Add(pc, 1)
Fetching == status = "running" /\ InMemory(pc)
AtNextForgets == pc' = Stepped /\ UNCHANGED special               \* mutant
AtNext   == pc' = Stepped /\ special' = [special EXCEPT !.PC = Stepped]

Immediate == SignExtend(Instr.imm)
RsNumber  == Instr.rs                                           \* mutant
Rs        == registers[Instr.rs]
Rt        == registers[Instr.rt]          \* `rd' of an I-type

Register(r, v) == registers' = [registers EXCEPT ![r] = v]
IsFn(fns)      == Instr.op = "R_TYPE" /\ Instr.fn \in fns

(* the flags are computed from the numbers of the registers, not their contents *)
ExecuteRegister ==
  /\ Fetching /\ IsFn(Computed)
  /\ Register(Instr.rd, RegisterResult(Instr.fn, Rs, Rt, Instr.shamt))
  /\ flags' = IF Instr.fn \in {"ADD", "SUB", "MULT"}
                THEN SetFlags(flags, Instr.rd, Instr.rs, Instr.rt) ELSE flags
  /\ AtNext
  /\ UNCHANGED <<status, memory, files>>

DividedSwapped == [special EXCEPT !.PC = Stepped, !.HI = Rs \div Rt, !.LO = Rs % Rt]  \* mutant
Divided == [special EXCEPT !.PC = Stepped, !.HI = Rs % Rt, !.LO = Rs \div Rt]

ExecuteDiv ==
  /\ Fetching /\ IsFn({"DIV"})
  /\ IF Rt = 0
       THEN /\ flags' = SetExceptionFlag(flags)
            /\ special' = [special EXCEPT !.PC = Stepped]
            /\ UNCHANGED registers
       ELSE /\ special' = Divided
            /\ Register(Instr.rd, special'.LO)
            /\ flags' = SetFlags(flags, Instr.rs, Instr.rt, Instr.rd)
  /\ pc' = Stepped
  /\ UNCHANGED <<status, memory, files>>

MoveFrom ==                   \* MFHI, MFLO
  /\ Fetching /\ IsFn({"MFHI", "MFLO"})
  /\ Register(Instr.rd, IF Instr.fn = "MFHI" THEN special.HI ELSE special.LO)
  /\ AtNext
  /\ UNCHANGED <<status, memory, flags, files>>

(* the link is taken by ++pc on a pc fetch() has stepped already *)
LinkSteppedTwice == Add(Stepped, 2)                             \* mutant
Link == Add(Stepped, 1)

ExecuteJalr ==
  /\ Fetching /\ IsFn({"JALR"})
  /\ Register(Instr.rd, Link)
  /\ pc' = registers'[Instr.rs]
  /\ special' = [special EXCEPT !.PC = pc']
  /\ UNCHANGED <<status, memory, flags, files>>

ExecuteJump ==                \* special_registers[PC] is not told where the jump goes
  /\ Fetching /\ Instr.op \in Jumps
  /\ IF Instr.op = "JAL"
       THEN Register(RA, Link) /\ pc' = JumpOffset(Link, Instr.target)
       ELSE UNCHANGED registers /\ pc' = JumpOffset(Stepped, Instr.target)
  /\ special' = [special EXCEPT !.PC = Stepped]
  /\ UNCHANGED <<status, memory, flags, files>>

ExecuteSyscall ==
  /\ Fetching /\ Instr.op = "SYSCALL"
  /\ \E c \in Call([registers |-> registers, memory |-> memory, files |-> files,
                    status |-> "running"]) :
       /\ registers' = c.registers
       /\ memory' = c.memory
       /\ files' = c.files
       /\ status' = c.status
  /\ AtNext
  /\ UNCHANGED flags

AddImmediateToSp ==                                             \* mutant
  LET sum == [registers EXCEPT ![Instr.rt] = Add(Rs, Immediate)]
  IN IF Instr.rs = SP THEN [sum EXCEPT ![SP] = Add(@, Immediate)] ELSE sum
(* ADDI compares the contents of rs with SP, the number 29 *)
AddImmediate ==
  LET sum == [registers EXCEPT ![Instr.rt] = Add(Rs, Immediate)]
  IN IF sum[Instr.rs] = SP THEN [sum EXCEPT ![SP] = Add(@, Immediate)] ELSE sum

ExecuteImmediate ==
  /\ Fetching /\ Instr.op \in AluImm
  /\ IF Instr.op = "ADDI"
       THEN /\ registers' = AddImmediate
            /\ flags' = SetFlags(flags, Instr.rs, Instr.rt, Immediate)
       ELSE /\ Register(Instr.rt, ImmediateResult(Instr.op, Rs, Immediate))
            /\ UNCHANGED flags
  /\ AtNext
  /\ UNCHANGED <<status, memory, files>>

EffectiveAddressOfStores ==                                     \* mutant
  Add(IF Instr.op \in {"LW"} \cup Stores THEN Rs ELSE Instr.rs, Immediate)
(* LW and SW address from the contents of rs, the byte and halfword forms from its number *)
EffectiveAddress ==
  Add(IF Instr.op \in {"LW", "SW"} THEN Rs ELSE Instr.rs, Immediate)

Narrowed(op, v) == CASE op \in {"LB", "SB"} -> v % Pow2(ByteBits)
                     [] op \in {"LH", "SH"} -> v % Pow2(HalfwordBits)
                     [] op \in {"LW", "SW"} -> v

ExecuteMemory ==
  /\ Fetching /\ Instr.op \in Loads \cup Stores
  /\ InMemory(EffectiveAddress)
  /\ IF Instr.op \in Loads
       THEN /\ Register(Instr.rt, Narrowed(Instr.op, memory[EffectiveAddress]))
            /\ UNCHANGED memory
       ELSE /\ memory' = [memory EXCEPT ![EffectiveAddress] = Narrowed(Instr.op, Rt)]
            /\ UNCHANGED registers
  /\ AtNext
  /\ UNCHANGED <<status, flags, files>>

(* unsigned comparisons with zero; all but BEQ scale the offset by four *)
TakenWhenEqual == Instr.op \in {"BEQ", "BNE"} /\ Rs = Rt          \* mutant
Taken ==
  CASE Instr.op = "BEQ"  -> Rs = Rt
    [] Instr.op = "BNE"  -> Rs # Rt
    [] Instr.op = "BGTZ" -> Rs > 0
    [] Instr.op = "BLEZ" -> Rs = 0
    [] Instr.op = "BGEZ" -> TRUE
    [] Instr.op = "BLTZ" -> FALSE
BranchOffsetUnscaled == Immediate                               \* mutant
BranchOffset == IF Instr.op = "BEQ" THEN Immediate ELSE ShiftLeft(Immediate, 2)

ExecuteBranch ==
  /\ Fetching /\ Instr.op \in Branches
  /\ pc' = IF Taken THEN Add(Stepped, BranchOffset) ELSE Stepped
  /\ special' = [special EXCEPT !.PC = pc']
  /\ UNCHANGED <<status, registers, memory, flags, files>>

ExecuteUnknown ==             \* an opcode or function code without a case
  /\ Fetching
  /\ Instr.op \in Undefined \/ IsFn({"UNDEFINED"})
  /\ AtNext
  /\ UNCHANGED <<status, registers, memory, flags, files>>

Fault ==
  /\ status = "running"
  /\ InMemory(pc) => Instr.op \in Loads \cup Stores /\ ~InMemory(EffectiveAddress)
  /\ status' = "fault"
  /\ UNCHANGED <<pc, registers, memory, flags, files, special>>

Next == ExecuteRegister \/ ExecuteDiv \/ MoveFrom \/ ExecuteJalr \/ ExecuteJump
          \/ ExecuteSyscall \/ ExecuteImmediate \/ ExecuteMemory \/ ExecuteBranch
          \/ ExecuteUnknown \/ Fault

(* run() is one loop of one thread: it keeps going until it halts *)
Spec == Init /\ [][Next]_vars /\ WF_vars(Next)

(***************************************************************************)
(*                             PROPERTIES                                  *)
(***************************************************************************)
(* special_registers[PC] follows pc ("Holds the address of the next        *)
(* instruction to be executed", CPU_design.md) but for J and JAL, after    *)
(* which it still holds the address behind the jump.                       *)
PcMirrored ==
  special.PC # pc => special.PC > 0 /\ Fields[memory[special.PC - 1]].op \in Jumps

(* A system call never writes below the data segment, wherever $a0 points: *)
(* the program text cannot be changed by what the console or a file says.  *)
SyscallsSpareText ==
  [][status = "running" /\ InMemory(pc) /\ Instr.op = "SYSCALL" =>
       \A a \in Address : a < GlobalData => memory'[a] = memory[a]]_vars

(* an empty cell before one that is not *)
Data == {a \in Address : a >= GlobalData}
Gap  == \E a, b \in Data : a < b /\ memory[a] = 0 /\ memory[b] # 0

(* READ_STRING writes over no word of the data segment as long as nothing  *)
(* there lies behind an empty cell, whatever the length of the line: lines *)
(* read one after the other are lost only by the gaps of a long one.       *)
LinesKept ==
  [][Fetching /\ Instr.op = "SYSCALL" /\ registers[V0] = READ_STRING /\ ~Gap =>
       \A a \in Data : memory[a] # 0 => memory'[a] = memory[a]]_vars
==============================================================================
