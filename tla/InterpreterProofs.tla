-------------------------- MODULE InterpreterProofs --------------------------
(***************************************************************************)
(* Proofs about the engine without a pipeline, for every word width,       *)
(* memory size, decoding, program and console.                             *)
(***************************************************************************)
EXTENDS Interpreter, MachineProofs

(* PcMirrored speaks of memory[special.PC - 1], the jump just executed:    *)
(* with the types it is inductive.                                         *)
IInv == TypeOK /\ PcMirrored

(* The word at the program counter decodes to an instruction. *)
LEMMA InstrTyped ==
  ASSUME TypeOK, Fetching
  PROVE  /\ pc \in Address /\ memory[pc] \in Word
         /\ Instr \in Instruction
         /\ Instr.op \in Opcodes
         /\ Instr.rs \in Reg /\ Instr.rt \in Reg /\ Instr.rd \in Reg
         /\ Instr.shamt \in 0 .. 63 /\ Instr.imm \in Imm /\ Instr.target \in Word
<1>1. pc \in Address
  BY WordFacts, MemoryAssumption DEF TypeOK, Fetching, InMemory, Address, Word
<1>2. memory[pc] \in Word
  BY <1>1 DEF TypeOK, Memory
<1>3. Instr \in Instruction
  BY <1>2, FieldsAssumption DEF Instr
<1> QED BY <1>1, <1>2, <1>3 DEF Instruction

(* The operands of the instruction are words. *)
LEMMA OperandsTyped ==
  ASSUME TypeOK, Fetching
  PROVE  Rs \in Word /\ Rt \in Word /\ Immediate \in Word /\ Stepped \in Word
<1>1. Rs \in Word /\ Rt \in Word
  BY InstrTyped DEF TypeOK, Registers, Rs, Rt
<1>2. Immediate \in Word
  BY InstrTyped, SignExtendInWord DEF Immediate
<1>3. Stepped \in Word
  BY StepInWord DEF TypeOK, Stepped
<1> QED BY <1>1, <1>2, <1>3

(* An instruction that ends with special_registers[PC] = pc.               *)
LEMMA Mirrors ==
  ASSUME special' \in [{"HI", "LO", "PC"} -> Word], special'.PC = pc'
  PROVE  PcMirrored'
BY DEF PcMirrored

(* An instruction that goes on to the next one mirrors the program counter. *)
LEMMA AtNextStep ==
  ASSUME TypeOK, Fetching, AtNext
  PROVE  /\ pc' \in Word /\ special' \in [{"HI", "LO", "PC"} -> Word]
         /\ PcMirrored'
<1>1. Stepped \in Word
  BY OperandsTyped
<1>2. /\ special' \in [{"HI", "LO", "PC"} -> Word] /\ special'.PC = pc' /\ pc' \in Word
  BY <1>1 DEF AtNext, TypeOK
<1> QED BY <1>2, Mirrors

(* Writing a word to a register leaves a register file of words. *)
LEMMA RegisterTyped ==
  ASSUME TypeOK, NEW r \in Reg, NEW v \in Word, Register(r, v)
  PROVE  registers' \in Registers
BY DEF TypeOK, Register, Registers

(* The inductive invariant holds of every initial machine. *)
LEMMA InitIInv == Init => IInv
<1> SUFFICES ASSUME Init PROVE IInv
  OBVIOUS
<1>1. registers \in Registers
  <2>1. \A s \in Presets : InitialRegisters(s) \in Registers
    BY ProgramAssumption, MemoryAssumption, WordFacts DEF InitialRegisters, Registers
  <2> QED BY <2>1 DEF Init
<1>2. memory \in Memory
  <2>1. \A p \in Programs : LoadedMemory(p) \in Memory
    BY ProgramAssumption, AddressFacts, WordFacts DEF LoadedMemory, Memory
  <2> QED BY <2>1 DEF Init
<1>3. TypeOK
  BY <1>1, <1>2, WordFacts DEF TypeOK, Init, Status, NoFlags, FlagSet
<1> QED BY <1>3 DEF IInv, Init, PcMirrored

(* The R-type instructions with a result keep the inductive invariant. *)
LEMMA RegisterStep == IInv /\ ExecuteRegister => IInv'
<1> SUFFICES ASSUME IInv, ExecuteRegister PROVE IInv'
  OBVIOUS
<1>1. TypeOK /\ Fetching /\ AtNext
  BY DEF IInv, ExecuteRegister
<1> DEFINE r == RegisterResult(Instr.fn, Rs, Rt, Instr.shamt)
<1>2. r \in Word
  BY <1>1, InstrTyped, OperandsTyped, ResultsInWord DEF ExecuteRegister, IsFn
<1>3. registers' \in Registers
  BY <1>1, <1>2, InstrTyped, RegisterTyped DEF ExecuteRegister
<1>4. flags' \in FlagSet
  BY <1>1, FlagsTyped DEF ExecuteRegister, TypeOK
<1> QED BY <1>1, <1>3, <1>4, AtNextStep DEF IInv, TypeOK, ExecuteRegister

(* DIV keeps the inductive invariant, dividing by zero included. *)
LEMMA DivStep == IInv /\ ExecuteDiv => IInv'
<1> SUFFICES ASSUME IInv, ExecuteDiv PROVE IInv'
  OBVIOUS
<1>1. TypeOK /\ Fetching
  BY DEF IInv, ExecuteDiv
<1>2. Stepped \in Word /\ Rs \in Word /\ Rt \in Word
  BY <1>1, OperandsTyped
<1>3. CASE Rt = 0
  <2>1. special' \in [{"HI", "LO", "PC"} -> Word] /\ special'.PC = pc'
    BY <1>1, <1>2, <1>3 DEF ExecuteDiv, TypeOK
  <2>2. flags' \in FlagSet
    BY <1>1, <1>3 DEF ExecuteDiv, TypeOK, SetExceptionFlag, FlagSet
  <2> QED BY <1>1, <1>2, <1>3, <2>1, <2>2, Mirrors DEF IInv, TypeOK, ExecuteDiv
<1>4. CASE Rt # 0
  <2>1. Rs % Rt \in Word /\ Rs \div Rt \in Word
    <3>1. \A m, n \in Word : n # 0 => m % n \in Word
      BY WordFacts DEF Word
    <3>2. \A m \in Nat, n \in Nat \ {0} : m \div n \in 0 .. m
      OBVIOUS
    <3>3. \A m, n \in Word : n # 0 => m \div n \in Word
      BY <3>2, WordFacts DEF Word
    <3> QED BY <1>2, <1>4, <3>1, <3>3
  <2>2. /\ special' \in [{"HI", "LO", "PC"} -> Word] /\ special'.PC = pc'
        /\ special'.LO \in Word
    BY <1>1, <1>2, <1>4, <2>1 DEF ExecuteDiv, Divided, TypeOK
  <2>3. registers' \in Registers
    BY <1>1, <1>4, <2>2, InstrTyped, RegisterTyped DEF ExecuteDiv
  <2>4. flags' \in FlagSet
    BY <1>1, <1>4, FlagsTyped DEF ExecuteDiv, TypeOK
  <2> QED BY <1>1, <1>2, <1>4, <2>2, <2>3, <2>4, Mirrors DEF IInv, TypeOK, ExecuteDiv
<1> QED BY <1>3, <1>4

(* MFHI and MFLO keep the inductive invariant. *)
LEMMA MoveFromStep == IInv /\ MoveFrom => IInv'
<1> SUFFICES ASSUME IInv, MoveFrom PROVE IInv'
  OBVIOUS
<1>1. TypeOK /\ Fetching /\ AtNext
  BY DEF IInv, MoveFrom
<1>2. special.HI \in Word /\ special.LO \in Word
  BY <1>1 DEF TypeOK
<1>3. registers' \in Registers
  BY <1>1, <1>2, InstrTyped, RegisterTyped DEF MoveFrom
<1> QED BY <1>1, <1>3, AtNextStep DEF IInv, TypeOK, MoveFrom

(* JALR keeps the inductive invariant. *)
LEMMA JalrStep == IInv /\ ExecuteJalr => IInv'
<1> SUFFICES ASSUME IInv, ExecuteJalr PROVE IInv'
  OBVIOUS
<1>1. TypeOK /\ Fetching
  BY DEF IInv, ExecuteJalr
<1>2. Link \in Word
  BY <1>1, OperandsTyped, StepInWord DEF Link
<1>3. registers' \in Registers
  BY <1>1, <1>2, InstrTyped, RegisterTyped DEF ExecuteJalr
<1>4. pc' \in Word
  BY <1>1, <1>3, InstrTyped DEF ExecuteJalr, Registers
<1>5. special' \in [{"HI", "LO", "PC"} -> Word] /\ special'.PC = pc'
  BY <1>1, <1>4 DEF ExecuteJalr, TypeOK
<1> QED BY <1>1, <1>3, <1>4, <1>5, Mirrors DEF IInv, TypeOK, ExecuteJalr

(* special_registers[PC] now lies behind the jump, whose word is the one   *)
(* before it.                                                              *)
LEMMA JumpStep == IInv /\ ExecuteJump => IInv'
<1> SUFFICES ASSUME IInv, ExecuteJump PROVE IInv'
  OBVIOUS
<1>1. TypeOK /\ Fetching /\ Instr.op \in Jumps
  BY DEF IInv, ExecuteJump
<1>2. Link \in Word /\ Stepped \in Word /\ RA \in Reg
  BY <1>1, OperandsTyped, StepInWord DEF Link, RA, Reg
<1>3. registers' \in Registers
  BY <1>1, <1>2, RegisterTyped DEF ExecuteJump, TypeOK
<1>4. pc' \in Word
  BY <1>1, <1>2, InstrTyped, JumpOffsetInWord DEF ExecuteJump
<1>5. special' \in [{"HI", "LO", "PC"} -> Word] /\ special'.PC = Stepped
  BY <1>1, <1>2 DEF ExecuteJump, TypeOK
<1>6. Stepped = pc + 1
  <2>1. \A m \in Nat, n \in Nat : m < n => m % n = m
    OBVIOUS
  <2>2. pc \in Nat /\ pc + 1 < WordSize /\ WordSize \in Nat
    BY <1>1, InstrTyped, MemoryAssumption, WordFacts DEF Address
  <2> QED BY <2>1, <2>2 DEF Stepped, Add, Wrap
<1>7. PcMirrored'
  <2>1. special'.PC - 1 = pc /\ special'.PC > 0
    BY <1>1, <1>5, <1>6, InstrTyped DEF Address
  <2>2. memory' = memory
    BY DEF ExecuteJump
  <2> QED BY <1>1, <2>1, <2>2 DEF PcMirrored, Instr
<1> QED BY <1>1, <1>3, <1>4, <1>5, <1>7 DEF IInv, TypeOK, ExecuteJump

(* A system call keeps the inductive invariant. *)
LEMMA SyscallStep == IInv /\ ExecuteSyscall => IInv'
<1> SUFFICES ASSUME IInv, ExecuteSyscall PROVE IInv'
  OBVIOUS
<1>1. TypeOK /\ Fetching /\ AtNext
  BY DEF IInv, ExecuteSyscall
<1> DEFINE call == [registers |-> registers, memory |-> memory, files |-> files,
                    status |-> "running"]
<1>2. call \in Outcomes
  BY <1>1 DEF TypeOK, Outcomes, Status
<1>3. PICK c \in Call(call) : /\ registers' = c.registers /\ memory' = c.memory
                             /\ files' = c.files /\ status' = c.status
  BY DEF ExecuteSyscall
<1>4. c \in Outcomes
  BY <1>2, CallTyped
<1>5. /\ registers' \in Registers /\ memory' \in Memory
      /\ files' \in SUBSET Descriptors /\ status' \in Status
  BY <1>3, <1>4 DEF Outcomes
<1> QED BY <1>1, <1>5, AtNextStep DEF IInv, TypeOK, ExecuteSyscall

(* The instructions on an immediate keep the inductive invariant. *)
LEMMA ImmediateStep == IInv /\ ExecuteImmediate => IInv'
<1> SUFFICES ASSUME IInv, ExecuteImmediate PROVE IInv'
  OBVIOUS
<1>1. TypeOK /\ Fetching /\ AtNext
  BY DEF IInv, ExecuteImmediate
<1>2. Rs \in Word /\ Immediate \in Word
  BY <1>1, OperandsTyped
<1>3. CASE Instr.op = "ADDI"
  <2> DEFINE sum == [registers EXCEPT ![Instr.rt] = Add(Rs, Immediate)]
  <2>1. sum \in Registers
    BY <1>1, <1>2, InstrTyped, ArithmeticInWord DEF TypeOK, Registers
  <2>2. SP \in Reg
    BY DEF SP, Reg
  <2>3. Add(sum[SP], Immediate) \in Word
    BY <1>2, <2>1, <2>2, ArithmeticInWord DEF Registers
  <2>4. registers' = IF sum[Instr.rs] = SP THEN [sum EXCEPT ![SP] = Add(@, Immediate)] ELSE sum
    BY <1>3 DEF ExecuteImmediate, AddImmediate
  <2> HIDE DEF sum
  <2>5. registers' \in Registers
    BY <2>1, <2>3, <2>4 DEF Registers
  <2>6. flags' \in FlagSet
    BY <1>1, <1>3, FlagsTyped DEF ExecuteImmediate, TypeOK
  <2> QED BY <1>1, <2>5, <2>6, AtNextStep DEF IInv, TypeOK, ExecuteImmediate
<1>4. CASE Instr.op # "ADDI"
  <2>1. ImmediateResult(Instr.op, Rs, Immediate) \in Word
    BY <1>2, ResultsInWord DEF ExecuteImmediate
  <2>2. registers' \in Registers
    BY <1>1, <1>4, <2>1, InstrTyped, RegisterTyped DEF ExecuteImmediate
  <2> QED BY <1>1, <1>4, <2>2, AtNextStep DEF IInv, TypeOK, ExecuteImmediate
<1> QED BY <1>3, <1>4

(* A loaded or stored value stays a word when cut to a byte or a halfword. *)
LEMMA NarrowedTyped ==
  ASSUME NEW op \in Loads \cup Stores, NEW v \in Word PROVE Narrowed(op, v) \in Word
<1>1. Pow2(ByteBits) \in Nat \ {0} /\ Pow2(HalfwordBits) \in Nat \ {0}
  BY WidthsAssumption, WidthAssumption
<1>2. \A m \in Nat, n \in Nat \ {0} : m % n \in 0 .. m
  <2>1. \A m \in Nat, n \in Nat \ {0} : m % n \in 0 .. n - 1
    OBVIOUS
  <2>2. \A m \in Nat, n \in Nat \ {0} : m < n => m % n = m
    OBVIOUS
  <2> QED BY <2>1, <2>2
<1>3. \A n \in Nat \ {0} : v % n \in Word
  BY <1>2, WordFacts DEF Word
<1>4. v % Pow2(ByteBits) \in Word /\ v % Pow2(HalfwordBits) \in Word
  BY <1>1, <1>3
<1> QED BY <1>4 DEF Narrowed, Loads, Stores

(* The loads and the stores keep the inductive invariant. *)
LEMMA MemoryStep == IInv /\ ExecuteMemory => IInv'
<1> SUFFICES ASSUME IInv, ExecuteMemory PROVE IInv'
  OBVIOUS
<1>1. TypeOK /\ Fetching /\ AtNext /\ Instr.op \in Loads \cup Stores
  BY DEF IInv, ExecuteMemory
<1>2. EffectiveAddress \in Address
  <2>1. EffectiveAddress \in Word
    BY <1>1, OperandsTyped, InstrTyped, ArithmeticInWord, WordFacts DEF EffectiveAddress
  <2> QED BY <2>1, WordFacts, MemoryAssumption DEF ExecuteMemory, InMemory, Address, Word
<1>3. registers' \in Registers
  <2>1. memory[EffectiveAddress] \in Word
    BY <1>1, <1>2 DEF TypeOK, Memory
  <2>2. Narrowed(Instr.op, memory[EffectiveAddress]) \in Word
    BY <1>1, <2>1, NarrowedTyped
  <2> QED BY <1>1, <2>2, InstrTyped, RegisterTyped DEF ExecuteMemory, TypeOK
<1>4. memory' \in Memory
  <2>1. Narrowed(Instr.op, Rt) \in Word
    BY <1>1, OperandsTyped, NarrowedTyped
  <2> QED BY <1>1, <1>2, <2>1 DEF ExecuteMemory, TypeOK, Memory
<1> QED BY <1>1, <1>3, <1>4, AtNextStep DEF IInv, TypeOK, ExecuteMemory

(* The branches keep the inductive invariant. *)
LEMMA BranchStep == IInv /\ ExecuteBranch => IInv'
<1> SUFFICES ASSUME IInv, ExecuteBranch PROVE IInv'
  OBVIOUS
<1>1. TypeOK /\ Fetching
  BY DEF IInv, ExecuteBranch
<1>2. Stepped \in Word /\ Immediate \in Word
  BY <1>1, OperandsTyped
<1>3. BranchOffset \in Word
  BY <1>2, ShiftsInWord DEF BranchOffset
<1>4. Add(Stepped, BranchOffset) \in Word
  BY <1>2, <1>3, ArithmeticInWord
<1>5. pc' \in Word
  BY <1>2, <1>4 DEF ExecuteBranch
<1>6. special' \in [{"HI", "LO", "PC"} -> Word] /\ special'.PC = pc'
  BY <1>1, <1>5 DEF ExecuteBranch, TypeOK
<1> QED BY <1>1, <1>5, <1>6, Mirrors DEF IInv, TypeOK, ExecuteBranch

(* Every step keeps the inductive invariant. *)
LEMMA NextIInv == IInv /\ [Next]_vars => IInv'
<1> SUFFICES ASSUME IInv, [Next]_vars PROVE IInv'
  OBVIOUS
<1>1. CASE ExecuteUnknown
  BY <1>1, AtNextStep DEF IInv, TypeOK, ExecuteUnknown
<1>2. CASE Fault
  BY <1>2 DEF IInv, TypeOK, Fault, Status, PcMirrored
<1>3. CASE UNCHANGED vars
  BY <1>3 DEF IInv, TypeOK, vars, PcMirrored
<1> QED
  BY <1>1, <1>2, <1>3, RegisterStep, DivStep, MoveFromStep, JalrStep, JumpStep, SyscallStep,
    ImmediateStep, MemoryStep, BranchStep DEF Next

(* The inductive invariant holds in every reachable state. *)
LEMMA Invariance == Spec => []IInv
<1>1. Init => IInv
  BY InitIInv
<1>2. IInv /\ [Next]_vars => IInv'
  BY NextIInv
<1> QED BY <1>1, <1>2, PTL DEF Spec

(* Registers, memory, pc, HI, LO and the mirror of pc stay machine words   *)
(* whatever run() executes.                                                *)
THEOREM InterpreterTyped == Spec => []TypeOK
<1>1. IInv => TypeOK
  BY DEF IInv
<1> QED BY <1>1, Invariance, PTL

(* special_registers[PC] equals pc unless a jump has just been executed.   *)
THEOREM MirrorFollows == Spec => []PcMirrored
<1>1. IInv => PcMirrored
  BY DEF IInv
<1> QED BY <1>1, Invariance, PTL

(* A line that is read is stored from the first empty cell on. *)
LEMMA ReadStringKeepsBelow ==
  ASSUME NEW c \in Outcomes, NEW line \in Lines, NEW a \in Address,
         EmptyCells(c.memory) # {} => a < FirstEmpty(c.memory)
  PROVE  ReadString(c, line).memory[a] = c.memory[a]
<1> DEFINE base == FirstEmpty(c.memory)
<1>1. CASE EmptyCells(c.memory) = {} \/ ~InMemory(base + StringEnd(line))
  BY <1>1 DEF ReadString, Faulted, Outcomes
<1>2. CASE EmptyCells(c.memory) # {} /\ InMemory(base + StringEnd(line))
  <2>1. base \in Nat /\ a \in Nat /\ a < base
    BY <1>2, FirstEmptyIsEmpty, AddressFacts DEF EmptyCells
  <2>2. \A k \in Nat : StringCell(k) \in Nat
    <3>1. \A k \in Nat : k * (k + 1) \in Nat
      OBVIOUS
    <3> QED BY <3>1 DEF StringCell
  <2>3. LastRound(line) \in Nat /\ LastRound(line) \div 4 \in Nat
    <3>1. Len(line) \in Nat
      BY ConsoleAssumption
    <3> QED BY <3>1 DEF LastRound
  <2>4. StringCells(line) \subseteq Nat
    BY <2>3 DEF StringCells
  <2>5. {k \in StringCells(line) : a = base + StringCell(k)} = {}
    BY <2>1, <2>2, <2>4
  <2>6. StringEnd(line) \in Nat
    BY <2>2, <2>3 DEF StringEnd
  <2>7. a # base + StringEnd(line)
    BY <2>1, <2>6
  <2> QED BY <1>2, <2>5, <2>7 DEF ReadString, Outcomes
<1> QED BY <1>1, <1>2

(* read_string writes no cell below the global data. *)
LEMMA ReadStringSparesText ==
  ASSUME NEW c \in Outcomes, NEW line \in Lines, NEW a \in Address, a < GlobalData
  PROVE  ReadString(c, line).memory[a] = c.memory[a]
<1>1. ASSUME EmptyCells(c.memory) # {} PROVE a < FirstEmpty(c.memory)
  <2>1. FirstEmpty(c.memory) \in Nat /\ FirstEmpty(c.memory) >= GlobalData
    BY <1>1, FirstEmptyIsEmpty, AddressFacts DEF EmptyCells
  <2> QED BY <2>1, AddressFacts
<1> QED BY <1>1, ReadStringKeepsBelow

(* No system call writes a cell below the global data. *)
LEMMA CallSparesText ==
  ASSUME NEW c \in Outcomes, NEW d \in Call(c), NEW a \in Address, a < GlobalData
  PROVE  d.memory[a] = c.memory[a]
<1>1. ASSUME NEW line \in Lines, d = ReadString(c, line) PROVE d.memory[a] = c.memory[a]
  BY <1>1, ReadStringSparesText
<1>2. CASE d \in OpenFile(c) \cup ReadFile(c) \cup WriteFile(c)
  BY <1>2 DEF OpenFile, ReadFile, WriteFile, Return, Faulted, Outcomes
<1>3. CASE d \in {c, Faulted(c), [c EXCEPT !.status = "halted"]} \cup {Return(c, v) : v \in Word}
  BY <1>3 DEF Return, Faulted, Outcomes
<1>4. c.registers[A0] \in Word
  BY DEF Outcomes, Registers, Reg, A0
<1> QED BY <1>1, <1>2, <1>3, <1>4, ConsoleAssumption DEF Call

(* No system call of run() changes a word below the data segment: what is  *)
(* typed at the console never becomes program text.                        *)
THEOREM TextSpared == Spec => SyscallsSpareText
<1>1. TypeOK /\ [Next]_vars =>
        [status = "running" /\ InMemory(pc) /\ Instr.op = "SYSCALL" =>
           \A a \in Address : a < GlobalData => memory'[a] = memory[a]]_vars
  <2> SUFFICES ASSUME TypeOK, Next, Instr.op = "SYSCALL",
                      NEW a \in Address, a < GlobalData
               PROVE  memory'[a] = memory[a]
    BY DEF vars
  <2>1. CASE ExecuteSyscall
    <3> DEFINE call == [registers |-> registers, memory |-> memory, files |-> files,
                        status |-> "running"]
    <3>1. call \in Outcomes
      BY DEF TypeOK, Outcomes, Status
    <3>2. PICK c \in Call(call) : memory' = c.memory
      BY <2>1 DEF ExecuteSyscall
    <3>3. c.memory[a] = call.memory[a]
      BY <3>1, CallSparesText
    <3> QED BY <3>2, <3>3
  <2>2. CASE ~ExecuteSyscall
    <3>1. memory' = memory
      BY <2>2 DEF Next, ExecuteRegister, ExecuteDiv, MoveFrom, ExecuteJalr, ExecuteJump,
        ExecuteImmediate, ExecuteMemory, ExecuteBranch, ExecuteUnknown, Fault, Loads, Stores
    <3> QED BY <3>1
  <2> QED BY <2>1, <2>2
<1> QED BY <1>1, InterpreterTyped, PTL DEF Spec, SyscallsSpareText

(* What is read at the console writes over nothing that has been stored in *)
(* a data segment without gaps, however long the lines are.                *)
THEOREM LinesAreKept == Spec => LinesKept
<1>1. TypeOK /\ [Next]_vars =>
        [Fetching /\ Instr.op = "SYSCALL" /\ registers[V0] = READ_STRING /\ ~Gap =>
           \A a \in Data : memory[a] # 0 => memory'[a] = memory[a]]_vars
  <2> SUFFICES ASSUME TypeOK, Next, Instr.op = "SYSCALL", registers[V0] = READ_STRING, ~Gap,
                      NEW a \in Data, memory[a] # 0
               PROVE  memory'[a] = memory[a]
    BY DEF vars
  <2>1. CASE ExecuteSyscall
    <3> DEFINE call == [registers |-> registers, memory |-> memory, files |-> files,
                        status |-> "running"]
    <3>1. call \in Outcomes
      BY DEF TypeOK, Outcomes, Status
    <3>2. PICK line \in Lines : memory' = ReadString(call, line).memory
      <4>1. call.registers[V0] = 8
        BY DEF READ_STRING
      <4>2. Call(call) = {ReadString(call, line) : line \in Lines}
        <5> HIDE DEF call
        <5> QED BY <4>1 DEF Call, PRINT_STRING, READ_INT, READ_STRING, EXIT, EXIT_STATUS,
              OPEN_FILE, READ_FILE, WRITE_FILE, EXIT_WITH_STATUS
      <4>3. PICK c \in Call(call) : memory' = c.memory
        BY <2>1 DEF ExecuteSyscall
      <4> QED BY <4>2, <4>3
    <3>3. ASSUME EmptyCells(memory) # {} PROVE a < FirstEmpty(memory)
      <4>1. FirstEmpty(memory) \in Data /\ memory[FirstEmpty(memory)] = 0
        BY <3>3, FirstEmptyIsEmpty DEF EmptyCells, Data
      <4>2. ~(FirstEmpty(memory) < a)
        BY <4>1 DEF Gap
      <4>3. FirstEmpty(memory) # a
        BY <4>1
      <4>4. FirstEmpty(memory) \in Nat /\ a \in Nat
        BY <4>1, AddressFacts DEF Data
      <4> QED BY <4>2, <4>3, <4>4
    <3>4. a \in Address
      BY DEF Data
    <3> QED BY <3>1, <3>2, <3>3, <3>4, ReadStringKeepsBelow
  <2>2. CASE ~ExecuteSyscall
    <3>1. memory' = memory
      BY <2>2 DEF Next, ExecuteRegister, ExecuteDiv, MoveFrom, ExecuteJalr, ExecuteJump,
        ExecuteImmediate, ExecuteMemory, ExecuteBranch, ExecuteUnknown, Fault, Loads, Stores
    <3> QED BY <3>1
  <2> QED BY <2>1, <2>2
<1> QED BY <1>1, InterpreterTyped, PTL DEF Spec, LinesKept

(***************************************************************************)
(* Programs that leave $zero alone                                         *)
(***************************************************************************)
(* Of words that do, nothing that is executed writes $zero, and nothing    *)
(* writes into memory if no string is read.                                *)
LEMMA NextKeepsZero ==
  ASSUME IInv, Lines = {}, registers[0] = 0, Next,
         \A a \in Address : SparesZero(Fields[memory[a]])
  PROVE  registers'[0] = 0 /\ memory' = memory
<1>1. TypeOK /\ 0 \in Reg /\ SP \in Reg /\ SP # 0
  BY DEF IInv, Reg, SP
<1>2. ASSUME Fetching
      PROVE  /\ SparesZero(Instr) /\ Instr.op \notin Jumps \cup Loads \cup Stores \cup Branches
             /\ ~IsFn({"JALR"})
  <2>1. SparesZero(Instr)
    BY <1>1, <1>2, InstrTyped DEF Instr
  <2> QED BY <2>1 DEF SparesZero, Jumps, Loads, Stores, Branches, AluImm, Undefined, Misread, IsFn
<1>3. ASSUME NEW r \in Reg \ {0}, NEW v, Register(r, v) PROVE registers'[0] = 0
  BY <1>1, <1>3 DEF Register, TypeOK, Registers
<1>4. CASE ExecuteRegister
  <2>1. CASE Instr.rd # 0
    BY <1>1, <1>3, <1>4, <2>1, InstrTyped DEF ExecuteRegister, Instruction
  <2>2. CASE Instr.rd = 0
    <3>1. Instr.fn = "SLL" /\ Instr.rt = 0 /\ Instr.shamt \in Int
      BY <1>1, <1>2, <1>4, <2>2, InstrTyped DEF ExecuteRegister, SparesZero, IsFn, AluImm,
        Undefined, Misread, Instruction
    <3>2. RegisterResult(Instr.fn, Rs, Rt, Instr.shamt) = ShiftLeft(0, Instr.shamt)
      BY <3>1 DEF RegisterResult, Rt
    <3> QED BY <1>1, <1>4, <2>2, <3>1, <3>2, ShiftOfZero DEF ExecuteRegister, Register, TypeOK,
          Registers
  <2>3. memory' = memory
    BY <1>4 DEF ExecuteRegister
  <2> QED BY <2>1, <2>2, <2>3
<1>5. CASE ExecuteDiv \/ MoveFrom
  <2>1. Fetching /\ IsFn({"DIV", "MFHI", "MFLO"}) /\ memory' = memory
    BY <1>5 DEF ExecuteDiv, MoveFrom, IsFn
  <2>2. Instr.rd \in Reg \ {0}
    BY <1>1, <1>2, <2>1, InstrTyped DEF SparesZero, IsFn, AluImm, Undefined, Misread,
      Instruction
  <2>3. registers' = registers \/ \E v : Register(Instr.rd, v)
    BY <1>5 DEF ExecuteDiv, MoveFrom
  <2> QED BY <1>3, <2>1, <2>2, <2>3
<1>6. ~ExecuteJalr /\ ~ExecuteJump /\ ~ExecuteMemory /\ ~ExecuteBranch
  BY <1>2 DEF ExecuteJalr, ExecuteJump, ExecuteMemory, ExecuteBranch
<1>7. CASE ExecuteSyscall
  <2> DEFINE call == [registers |-> registers, memory |-> memory, files |-> files,
                      status |-> "running"]
  <2>1. call \in Outcomes
    BY <1>1 DEF TypeOK, Outcomes, Status
  <2>2. PICK c \in Call(call) : registers' = c.registers /\ memory' = c.memory
    BY <1>7 DEF ExecuteSyscall
  <2> QED BY <2>1, <2>2, CallsSpare, CallSparesZero
<1>8. CASE ExecuteImmediate
  <2>1. Instr.rt \in Reg \ {0} /\ memory' = memory
    BY <1>1, <1>2, <1>8, InstrTyped DEF ExecuteImmediate, SparesZero, AluImm, Instruction, Fetching
  <2>2. CASE Instr.op = "ADDI"
    BY <1>1, <1>8, <2>1, <2>2 DEF ExecuteImmediate, AddImmediate, TypeOK, Registers
  <2>3. CASE Instr.op # "ADDI"
    BY <1>3, <1>8, <2>1, <2>3 DEF ExecuteImmediate
  <2> QED BY <2>1, <2>2, <2>3
<1>9. CASE ExecuteUnknown \/ Fault
  BY <1>9 DEF ExecuteUnknown, Fault
<1> QED BY <1>4, <1>5, <1>6, <1>7, <1>8, <1>9 DEF Next
==============================================================================
