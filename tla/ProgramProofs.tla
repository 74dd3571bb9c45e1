---------------------------- MODULE ProgramProofs -----------------------------
(***************************************************************************)
(* The results of the programs of KnownPrograms, for every width of a      *)
(* word, every decoding and every operand.  The proofs are those of        *)
(* Floyd: what holds at each address of the text.                          *)
(***************************************************************************)
EXTENDS KnownPrograms, InterpreterProofs

(***************************************************************************)
(* One instruction                                                         *)
(***************************************************************************)
(* what a step leaves, unless the process ends with it *)
Goes(k, regs, mem) ==
  /\ status' = "running" /\ pc' = k
  /\ registers' = regs /\ memory' = mem

(* A program that has ended stays as it is. *)
LEMMA Stopped == ASSUME [Next]_vars, status # "running" PROVE UNCHANGED vars
BY DEF Next, ExecuteRegister, ExecuteDiv, MoveFrom, ExecuteJalr, ExecuteJump, ExecuteSyscall,
  ExecuteImmediate, ExecuteMemory, ExecuteBranch, ExecuteUnknown, Fault, Fetching

(* The opcode selects the case of decodeExecute. *)
LEMMA Dispatch ==
  ASSUME Next, status' # "fault"
  PROVE  /\ Fetching
         /\ IsFn(Computed) => ExecuteRegister
         /\ IsFn({"DIV"}) => ExecuteDiv
         /\ IsFn({"MFHI", "MFLO"}) => MoveFrom
         /\ IsFn({"JALR"}) => ExecuteJalr
         /\ Instr.op \in Jumps => ExecuteJump
         /\ Instr.op = "SYSCALL" => ExecuteSyscall
         /\ Instr.op \in AluImm => ExecuteImmediate
         /\ Instr.op \in Loads \cup Stores => ExecuteMemory
         /\ Instr.op \in Branches => ExecuteBranch
<1>1. \/ ExecuteRegister /\ Fetching /\ IsFn(Computed)
      \/ ExecuteDiv /\ Fetching /\ IsFn({"DIV"})
      \/ MoveFrom /\ Fetching /\ IsFn({"MFHI", "MFLO"})
      \/ ExecuteJalr /\ Fetching /\ IsFn({"JALR"})
      \/ ExecuteJump /\ Fetching /\ Instr.op \in Jumps
      \/ ExecuteSyscall /\ Fetching /\ Instr.op = "SYSCALL"
      \/ ExecuteImmediate /\ Fetching /\ Instr.op \in AluImm
      \/ ExecuteMemory /\ Fetching /\ Instr.op \in Loads \cup Stores
      \/ ExecuteBranch /\ Fetching /\ Instr.op \in Branches
      \/ ExecuteUnknown /\ Fetching /\ (Instr.op \in Undefined \/ IsFn({"UNDEFINED"}))
  BY DEF Next, ExecuteRegister, ExecuteDiv, MoveFrom, ExecuteJalr, ExecuteJump, ExecuteSyscall,
    ExecuteImmediate, ExecuteMemory, ExecuteBranch, ExecuteUnknown, Fault
<1> QED
  BY <1>1 DEF IsFn, Computed, Functions, Jumps, AluImm, Loads, Stores, Branches, Undefined,
    Misread

(* A word is itself when kept to the width of a word, and 0 adds nothing. *)
LEMMA SmallWrap == ASSUME NEW n \in Word PROVE Wrap(n) = n /\ Add(n, 0) = n
<1>1. \A m \in Nat, w \in Nat : m < w => m % w = m
  OBVIOUS
<1>2. n \in Nat /\ n < WordSize /\ n + 0 = n
  BY WordFacts DEF Word
<1> QED BY <1>1, <1>2, WordFacts DEF Wrap, Add

(* The next address. *)
LEMMA NextAddress == ASSUME TypeOK, Fetching PROVE Stepped = pc + 1 /\ pc + 1 \in Word /\ pc \in Nat
<1>1. pc \in Nat /\ pc + 1 < WordSize /\ WordSize \in Nat
  BY InstrTyped, MemoryAssumption, WordFacts DEF Address
<1>2. pc + 1 \in Word
  BY <1>1 DEF Word
<1> QED BY <1>1, <1>2, SmallWrap DEF Stepped, Add

(* add *)
LEMMA DoesAdd ==
  ASSUME TypeOK, Next, status' # "fault", NEW rd, NEW rs, NEW rt, RTypeAt(pc, "ADD", rd, rs, rt)
  PROVE  Goes(pc + 1, [registers EXCEPT ![rd] = Add(registers[rs], registers[rt])], memory)
<1>1. Fetching /\ ExecuteRegister
  BY Dispatch DEF RTypeAt, Instr, IsFn, Computed, Functions
<1>2. Stepped = pc + 1
  BY <1>1, NextAddress
<1> QED BY <1>1, <1>2 DEF RTypeAt, Goes, ExecuteRegister, AtNext, Register, RegisterResult, Rs, Rt,
  Instr, Fetching

(* nop: a shift of $zero by any amount *)
LEMMA DoesNop ==
  ASSUME TypeOK, Next, status' # "fault", RTypeAt(pc, "SLL", 0, 0, 0), registers[0] = 0
  PROVE  Goes(pc + 1, registers, memory)
<1>1. Fetching /\ ExecuteRegister
  BY Dispatch DEF RTypeAt, Instr, IsFn, Computed, Functions
<1>2. Stepped = pc + 1
  BY <1>1, NextAddress
<1>3. ShiftLeft(0, Instr.shamt) = 0
  <2>1. PICK p \in Nat \ {0} : p = Pow2(Instr.shamt % WordBits)
    BY <1>1, InstrTyped, Pow2Int
  <2>2. 0 * p = 0
    BY <2>1
  <2> QED BY <2>1, <2>2, SmallWrap, WordFacts DEF ShiftLeft
<1>4. registers' = [registers EXCEPT ![0] = 0]
  BY <1>1, <1>3 DEF RTypeAt, ExecuteRegister, Register, RegisterResult, Rt, Instr
<1>5. registers' = registers
  BY <1>4 DEF TypeOK, Registers, Reg
<1> QED BY <1>1, <1>2, <1>5 DEF Goes, ExecuteRegister, AtNext, Fetching

(* li *)
LEMMA DoesLi ==
  ASSUME TypeOK, Next, status' # "fault", NEW rt, NEW rs, NEW n \in Word,
         ITypeAt(pc, "LI", rt, rs, n)
  PROVE  Goes(pc + 1, [registers EXCEPT ![rt] = n], memory)
<1>1. Fetching /\ ExecuteImmediate
  BY Dispatch DEF ITypeAt, Instr, AluImm
<1>2. Stepped = pc + 1
  BY <1>1, NextAddress
<1>3. Immediate = n
  BY SmallWrap DEF ITypeAt, Immediate, Instr
<1> QED BY <1>1, <1>2, <1>3 DEF ITypeAt, Goes, ExecuteImmediate, AtNext, Register, ImmediateResult,
  Instr, Fetching

(* addi, when the sum of the registers' contents is not the number of $sp *)
LEMMA DoesAddi ==
  ASSUME TypeOK, Next, status' # "fault", NEW rt \in Reg, NEW n \in Int,
         ITypeAt(pc, "ADDI", rt, rt, n), Add(registers[rt], Wrap(n)) # SP
  PROVE  Goes(pc + 1, [registers EXCEPT ![rt] = Add(registers[rt], Wrap(n))], memory)
<1>1. Fetching /\ ExecuteImmediate
  BY Dispatch DEF ITypeAt, Instr, AluImm
<1>2. Stepped = pc + 1
  BY <1>1, NextAddress
<1>3. registers' = [registers EXCEPT ![rt] = Add(registers[rt], Wrap(n))]
  BY <1>1 DEF ITypeAt, ExecuteImmediate, AddImmediate, Immediate, Rs, Instr, TypeOK, Registers
<1> QED BY <1>1, <1>2, <1>3 DEF Goes, ExecuteImmediate, AtNext, Fetching

(* sw at an offset of zero *)
LEMMA DoesSw ==
  ASSUME TypeOK, Next, status' # "fault", NEW rt, NEW rs \in Reg, ITypeAt(pc, "SW", rt, rs, 0)
  PROVE  Goes(pc + 1, registers, [memory EXCEPT ![registers[rs]] = registers[rt]])
<1>1. Fetching /\ ExecuteMemory
  BY Dispatch DEF ITypeAt, Instr, Stores
<1>2. Stepped = pc + 1
  BY <1>1, NextAddress
<1>3. EffectiveAddress = registers[rs]
  <2>1. registers[rs] \in Word
    BY DEF TypeOK, Registers
  <2>2. Immediate = 0
    BY SmallWrap, WordFacts DEF ITypeAt, Immediate, Instr
  <2> QED BY <2>1, <2>2, SmallWrap DEF ITypeAt, EffectiveAddress, Rs, Instr
<1>4. memory' = [memory EXCEPT ![registers[rs]] = registers[rt]] /\ registers' = registers
  BY <1>1, <1>3 DEF ITypeAt, ExecuteMemory, Narrowed, Rt, Instr, Loads, Stores
<1> QED BY <1>1, <1>2, <1>4 DEF Goes, ExecuteMemory, AtNext, Fetching

(* lw at an offset of zero *)
LEMMA DoesLw ==
  ASSUME TypeOK, Next, status' # "fault", NEW rt, NEW rs \in Reg, ITypeAt(pc, "LW", rt, rs, 0)
  PROVE  Goes(pc + 1, [registers EXCEPT ![rt] = memory[registers[rs]]], memory)
<1>1. Fetching /\ ExecuteMemory
  BY Dispatch DEF ITypeAt, Instr, Loads
<1>2. Stepped = pc + 1
  BY <1>1, NextAddress
<1>3. EffectiveAddress = registers[rs]
  <2>1. registers[rs] \in Word
    BY DEF TypeOK, Registers
  <2>2. Immediate = 0
    BY SmallWrap, WordFacts DEF ITypeAt, Immediate, Instr
  <2> QED BY <2>1, <2>2, SmallWrap DEF ITypeAt, EffectiveAddress, Rs, Instr
<1>4. registers' = [registers EXCEPT ![rt] = memory[registers[rs]]] /\ memory' = memory
  BY <1>1, <1>3 DEF ITypeAt, ExecuteMemory, Register, Narrowed, Instr, Loads
<1> QED BY <1>1, <1>2, <1>4 DEF Goes, ExecuteMemory, AtNext, Fetching

(* addi, whatever the sum: $sp may get the immediate once more *)
LEMMA DoesCount ==
  ASSUME TypeOK, Next, status' # "fault", NEW rt \in Reg \ {SP}, NEW n \in Int,
         ITypeAt(pc, "ADDI", rt, rt, n)
  PROVE  \E v : Goes(pc + 1, [registers EXCEPT ![rt] = Add(registers[rt], Wrap(n)), ![SP] = v],
                     memory)
<1>1. Fetching /\ ExecuteImmediate
  BY Dispatch DEF ITypeAt, Instr, AluImm
<1>2. Stepped = pc + 1
  BY <1>1, NextAddress
<1> DEFINE sum == [registers EXCEPT ![rt] = Add(registers[rt], Wrap(n))]
<1>3. registers' = IF sum[rt] = SP THEN [sum EXCEPT ![SP] = Add(@, Wrap(n))] ELSE sum
  BY <1>1 DEF ITypeAt, ExecuteImmediate, AddImmediate, Immediate, Rs, Instr
<1>4. \E v : registers' = [sum EXCEPT ![SP] = v]
  <2>1. sum \in Registers
    <3>1. Wrap(n) \in Word /\ registers[rt] \in Word
      BY WrapInWord DEF TypeOK, Registers
    <3> QED BY <3>1, ArithmeticInWord DEF TypeOK, Registers
  <2> HIDE DEF sum
  <2>2. sum = [sum EXCEPT ![SP] = sum[SP]]
    BY <2>1 DEF Registers
  <2> QED BY <1>3, <2>2
<1> QED BY <1>1, <1>2, <1>4 DEF Goes, ExecuteImmediate, AtNext, Fetching

(* what sb and lb keep of a word *)
Byte(v) == v % Pow2(ByteBits)

(* sb, which addresses from the number of its base register *)
LEMMA DoesSb ==
  ASSUME TypeOK, Next, status' # "fault", NEW rt, NEW rs, NEW n \in Int,
         NEW a, a = Add(rs, Wrap(n)),
         ITypeAt(pc, "SB", rt, rs, n)
  PROVE  Goes(pc + 1, registers, [memory EXCEPT ![a] = Byte(registers[rt])])
<1>1. Fetching /\ ExecuteMemory
  BY Dispatch DEF ITypeAt, Instr, Stores
<1>2. Stepped = pc + 1
  BY <1>1, NextAddress
<1>3. EffectiveAddress = a
  BY DEF ITypeAt, EffectiveAddress, Immediate, Instr
<1>4. Narrowed("SB", Rt) = Byte(Rt)
  BY DEF Narrowed, Byte
<1> QED BY <1>1, <1>2, <1>3, <1>4 DEF ITypeAt, ExecuteMemory, Rt, Instr, Loads, Stores,
  Goes, AtNext, Fetching

(* lb, which does so too *)
LEMMA DoesLb ==
  ASSUME TypeOK, Next, status' # "fault", NEW rt, NEW rs, NEW n \in Int,
         NEW a, a = Add(rs, Wrap(n)),
         ITypeAt(pc, "LB", rt, rs, n)
  PROVE  Goes(pc + 1, [registers EXCEPT ![rt] = Byte(memory[a])], memory)
<1>1. Fetching /\ ExecuteMemory
  BY Dispatch DEF ITypeAt, Instr, Loads
<1>2. Stepped = pc + 1
  BY <1>1, NextAddress
<1>3. EffectiveAddress = a
  BY DEF ITypeAt, EffectiveAddress, Immediate, Instr
<1>4. Narrowed("LB", memory[EffectiveAddress]) = Byte(memory[a])
  BY <1>3 DEF Narrowed, Byte
<1> QED BY <1>1, <1>2, <1>3, <1>4 DEF ITypeAt, ExecuteMemory, Register, Instr, Loads,
  Goes, AtNext, Fetching

(* A jump to an address of the first region, from below its end. *)
LEMMA NearJump ==
  ASSUME NEW base \in Nat, base < Region, NEW target \in Word
  PROVE  JumpOffset(base, target) = target
<1>1. \A m \in Nat, k \in Nat \ {0} : m < k => m \div k = 0
  OBVIOUS
<1>2. base \div Region = 0 /\ 0 * Region = 0 /\ 0 + target = target
  BY <1>1, RegionAssumption, WordFacts
<1> QED BY <1>2, SmallWrap DEF JumpOffset

(* j *)
LEMMA DoesJ ==
  ASSUME TypeOK, Next, status' # "fault", NEW t \in Word, JTypeAt(pc, "J", t), pc + 1 < Region
  PROVE  Goes(t, registers, memory)
<1>1. Fetching /\ ExecuteJump
  BY Dispatch DEF JTypeAt, Instr, Jumps
<1>2. Stepped = pc + 1 /\ pc + 1 \in Nat
  BY <1>1, NextAddress
<1> QED BY <1>1, <1>2, NearJump DEF JTypeAt, ExecuteJump, Instr, Goes, Fetching

(* jal: the link is one word further than the word behind the call *)
LEMMA DoesJal ==
  ASSUME TypeOK, Next, status' # "fault", NEW t \in Word, JTypeAt(pc, "JAL", t),
         pc + 2 < Region, pc + 2 \in Word
  PROVE  Goes(t, [registers EXCEPT ![RA] = pc + 2], memory)
<1>1. Fetching /\ ExecuteJump
  BY Dispatch DEF JTypeAt, Instr, Jumps
<1>2. Stepped = pc + 1 /\ pc \in Nat
  BY <1>1, NextAddress
<1>3. Link = pc + 2
  BY <1>2, SmallWrap DEF Link, Add
<1> QED BY <1>1, <1>2, <1>3, NearJump DEF JTypeAt, ExecuteJump, Register, Instr, Goes, Fetching

(* jalr *)
LEMMA DoesJalr ==
  ASSUME TypeOK, Next, status' # "fault", NEW rd \in Reg, NEW rs \in Reg \ {rd},
         NEW rt, RTypeAt(pc, "JALR", rd, rs, rt)
  PROVE  \E v : Goes(registers[rs], [registers EXCEPT ![rd] = v], memory)
<1>1. Fetching /\ ExecuteJalr
  BY Dispatch DEF RTypeAt, Instr, IsFn
<1>2. registers' = [registers EXCEPT ![rd] = Link] /\ pc' = registers'[rs]
  BY <1>1 DEF RTypeAt, ExecuteJalr, Register, Instr
<1>3. pc' = registers[rs]
  BY <1>2 DEF TypeOK, Registers
<1> QED BY <1>1, <1>2, <1>3 DEF ExecuteJalr, Goes, Fetching

(* div by something, and the remainder it leaves in HI *)
LEMMA DoesDiv ==
  ASSUME TypeOK, Next, status' # "fault", NEW rd, NEW rs, NEW rt,
         RTypeAt(pc, "DIV", rd, rs, rt), registers[rt] # 0
  PROVE  /\ \E v : Goes(pc + 1, [registers EXCEPT ![rd] = v], memory)
         /\ special'.HI = registers[rs] % registers[rt]
<1>1. Fetching /\ ExecuteDiv
  BY Dispatch DEF RTypeAt, Instr, IsFn
<1>2. Stepped = pc + 1
  BY <1>1, NextAddress
<1>3. Rs = registers[rs] /\ Rt = registers[rt] /\ Rt # 0 /\ Instr.rd = rd
  BY DEF RTypeAt, Rs, Rt, Instr
<1>4. special' = Divided /\ registers' = [registers EXCEPT ![rd] = special'.LO]
  BY <1>1, <1>3 DEF ExecuteDiv, Register
<1>5. special'.HI = Rs % Rt
  BY <1>4 DEF Divided, TypeOK
<1> QED BY <1>1, <1>2, <1>3, <1>4, <1>5 DEF ExecuteDiv, Goes, Fetching

(* mfhi *)
LEMMA DoesMfhi ==
  ASSUME TypeOK, Next, status' # "fault", NEW rd, NEW rs, NEW rt, RTypeAt(pc, "MFHI", rd, rs, rt)
  PROVE  Goes(pc + 1, [registers EXCEPT ![rd] = special.HI], memory)
<1>1. Fetching /\ MoveFrom
  BY Dispatch DEF RTypeAt, Instr, IsFn
<1>2. Stepped = pc + 1
  BY <1>1, NextAddress
<1> QED BY <1>1, <1>2 DEF RTypeAt, MoveFrom, AtNext, Register, Instr, Goes, Fetching

(* beq, whose offset counts words *)
LEMMA DoesBeq ==
  ASSUME TypeOK, Next, status' # "fault", NEW rt, NEW rs, NEW n \in Nat,
         ITypeAt(pc, "BEQ", rt, rs, n), n \in Word, pc + 1 + n \in Word
  PROVE  Goes(IF registers[rs] = registers[rt] THEN pc + 1 + n ELSE pc + 1, registers, memory)
<1>1. Fetching /\ ExecuteBranch
  BY Dispatch DEF ITypeAt, Instr, Branches
<1>2. Stepped = pc + 1
  BY <1>1, NextAddress
<1>3. Add(Stepped, BranchOffset) = pc + 1 + n
  <2>1. BranchOffset = n
    BY SmallWrap DEF ITypeAt, BranchOffset, Immediate, Instr
  <2> QED BY <1>2, <2>1, SmallWrap DEF Add
<1>4. Taken <=> registers[rs] = registers[rt]
  BY DEF ITypeAt, Taken, Rs, Rt, Instr
<1> QED BY <1>1, <1>2, <1>3, <1>4 DEF ExecuteBranch, Goes, Fetching

(* Four times minus one, added to an address behind the fourth, is the     *)
(* address four words back.                                                *)
LEMMA FourBack ==
  ASSUME NEW a \in Nat, a >= 4, a \in Word
  PROVE  Add(a, ShiftLeft(Wrap(-1), 2)) = a - 4
<1>1. WordSize \in Nat /\ WordSize > 31 /\ a < WordSize
  BY WordFacts DEF Word
<1>2. WordBits > 2
  <2>1. WordBits \in Nat
    BY WidthAssumption DEF WordBits
  <2>2. ASSUME WordBits = 2 PROVE FALSE
    <3>1. WordSize = 2^2
      BY <2>2 DEF WordSize, Pow2
    <3>2. 2^2 = 4
      OBVIOUS
    <3> QED BY <3>1, <3>2, <1>1
  <2>3. WordBits >= 2
    BY WidthAssumption DEF WordBits
  <2> QED BY <2>1, <2>2, <2>3
<1>3. Pow2(2 % WordBits) = 4
  <2>1. 2 % WordBits = 2
    <3>1. \A m \in Nat : m > 2 => 2 % m = 2
      OBVIOUS
    <3> QED BY <1>2, <3>1, WidthAssumption DEF WordBits
  <2>2. 2^2 = 4
    OBVIOUS
  <2> QED BY <2>1, <2>2 DEF Pow2
<1>4. Wrap(-1) = WordSize - 1
  <2>1. \A w \in Nat : w > 1 => (-1) % w = w - 1
    OBVIOUS
  <2> QED BY <1>1, <2>1 DEF Wrap
<1>5. ShiftLeft(Wrap(-1), 2) = WordSize - 4
  <2>1. \A w \in Nat : w > 31 => ((w - 1) * 4) % w = w - 4
    OBVIOUS
  <2> QED BY <1>1, <1>3, <1>4, <2>1 DEF ShiftLeft, Wrap
<1>6. (a + (WordSize - 4)) % WordSize = a - 4
  <2>1. \A w \in Nat, k \in Nat : k < w => (w + k) % w = k
    OBVIOUS
  <2>2. a - 4 \in Nat /\ a - 4 < WordSize /\ a + (WordSize - 4) = WordSize + (a - 4)
    BY <1>1
  <2> QED BY <1>1, <2>1, <2>2
<1> QED BY <1>5, <1>6 DEF Add, Wrap

(* bne and bgtz against $zero with the offset -1, which is scaled by four *)
LEMMA DoesLoop ==
  ASSUME TypeOK, Next, status' # "fault", NEW rs \in Reg, registers[0] = 0, pc >= 3,
         ITypeAt(pc, "BNE", 0, rs, -1) \/ ITypeAt(pc, "BGTZ", 0, rs, -1)
  PROVE  Goes(IF registers[rs] # 0 THEN pc - 3 ELSE pc + 1, registers, memory)
<1>1. Fetching /\ ExecuteBranch
  BY Dispatch DEF ITypeAt, Instr, Branches
<1>2. Stepped = pc + 1 /\ pc \in Nat /\ pc + 1 \in Word
  BY <1>1, NextAddress
<1>3. Add(Stepped, BranchOffset) = pc - 3
  <2>1. BranchOffset = ShiftLeft(Wrap(-1), 2)
    BY DEF ITypeAt, BranchOffset, Immediate, Instr
  <2>2. Add(pc + 1, ShiftLeft(Wrap(-1), 2)) = (pc + 1) - 4
    BY <1>2, FourBack
  <2> QED BY <1>2, <2>1, <2>2
<1>4. registers[rs] \in Nat
  BY WordFacts DEF TypeOK, Registers, Word
<1>5. Taken <=> registers[rs] # 0
  <2>1. Rs = registers[rs] /\ Rt = 0
    BY DEF ITypeAt, Rs, Rt, Instr
  <2>2. CASE Instr.op = "BNE"
    BY <2>1, <2>2 DEF Taken
  <2>3. CASE Instr.op = "BGTZ"
    <3>1. Taken <=> Rs > 0
      BY <2>3 DEF Taken
    <3> QED BY <1>4, <2>1, <3>1
  <2> QED BY <2>2, <2>3 DEF ITypeAt, Instr
<1> QED BY <1>1, <1>2, <1>3, <1>5 DEF ExecuteBranch, Goes, Fetching

(* syscall with the number of exit in $v0 *)
LEMMA DoesExit ==
  ASSUME TypeOK, Next, status' # "fault", Fields[memory[pc]].op = "SYSCALL",
         registers[V0] = EXIT
  PROVE  status' = "halted" /\ registers' = registers /\ memory' = memory
<1>1. Fetching /\ ExecuteSyscall
  BY Dispatch DEF Instr
<1> DEFINE call == [registers |-> registers, memory |-> memory, files |-> files,
                    status |-> "running"]
<1>2. call.registers[V0] = 9
  BY DEF EXIT
<1>3. Call(call) = {[call EXCEPT !.status = "halted"]}
  <2> HIDE DEF call
  <2> QED BY <1>2 DEF Call, PRINT_STRING, READ_INT, READ_STRING, EXIT, EXIT_STATUS,
        OPEN_FILE, READ_FILE, WRITE_FILE, EXIT_WITH_STATUS
<1>4. PICK c \in Call(call) : registers' = c.registers /\ memory' = c.memory /\ status' = c.status
  BY <1>1 DEF ExecuteSyscall
<1> QED BY <1>3, <1>4

(* A program is the same as long as the text is. *)
LEMMA TextStays ==
  ASSUME \A a \in 0 .. 11 : memory'[a] = memory[a]
  PROVE  /\ Euclid => Euclid'
         /\ Summed => Summed'
         /\ Called => Called'
         /\ Pushed => Pushed'
         /\ Stored => Stored'
<1>1. Euclid => Euclid'
  BY SMT DEF Euclid, OperandsAt, ExitAt, RTypeAt, ITypeAt, JTypeAt
<1>2. Summed => Summed'
  BY SMT DEF Summed, OperandsAt, ExitAt, RTypeAt, ITypeAt
<1>3. Called => Called'
  BY SMT DEF Called, ExitAt, RTypeAt, ITypeAt, JTypeAt
<1>4. Pushed => Pushed'
  BY SMT DEF Pushed, OperandsAt, ExitAt, RTypeAt, ITypeAt
<1>5. Stored => Stored'
  BY SMT DEF Stored, ExitAt, ITypeAt
<1> QED BY <1>1, <1>2, <1>3, <1>4, <1>5

(* The registers a program starts with, when only its operands are preset. *)
LEMMA Started ==
  ASSUME OperandsOnly, Init
  PROVE  registers[0] = 0 /\ registers[T(2)] = 0 /\ registers[SP] = StackTop
<1>1. PICK s \in Presets : registers = InitialRegisters(s)
  BY DEF Init
<1>2. 0 \notin DOMAIN s /\ 10 \notin DOMAIN s /\ 29 \notin DOMAIN s
  BY DEF OperandsOnly, Reg, S0, S1
<1> QED BY <1>1, <1>2 DEF InitialRegisters, Reg, T, SP, GP

(* Small numbers are words. *)
LEMMA SmallWords == 0 .. 31 \subseteq Word
BY WordFacts DEF Word

(* The number of the system call that ends a program is one of them. *)
LEMMA ExitWord == EXIT \in Word
BY SmallWords DEF EXIT

(***************************************************************************)
(* A byte stored and loaded                                                *)
(***************************************************************************)
(* what holds at each address of Stored *)
StoredInv ==
  \/ status = "fault"
  \/ /\ Stored
     /\ \/ status = "running" /\ pc = 0
        \/ status = "running" /\ pc = 1 /\ memory[S1 + 3] = Byte(registers[S0])
        \/ /\ (status = "running" /\ pc \in {2, 3}) \/ status = "halted"
           /\ memory[S1 + 3] = Byte(registers[S0])
           /\ registers[T(0)] = Byte(registers[S0])
           /\ pc = 3 => registers[V0] = EXIT

(* Where the byte goes: the offset from the number of $s1. *)
LEMMA ByteAddress == Add(S1, Wrap(3)) = S1 + 3
<1>1. 3 \in Word /\ 20 \in Word
  BY SmallWords
<1>2. Wrap(3) = 3 /\ Wrap(20) = 20
  BY <1>1, SmallWrap
<1> QED BY <1>2 DEF Add, S1

(* Narrowing a byte twice is narrowing it once. *)
LEMMA ByteTwice == ASSUME NEW v \in Word PROVE Byte(Byte(v)) = Byte(v)
<1>1. PICK b \in Nat \ {0} : b = Pow2(ByteBits)
  BY WidthsAssumption, WidthAssumption
<1>2. \A n \in Nat \ {0} : (v % n) % n = v % n
  <2>1. \A n \in Nat \ {0} : v % n \in Nat /\ v % n < n
    BY WordFacts DEF Word
  <2>2. \A m \in Nat, n \in Nat \ {0} : m < n => m % n = m
    OBVIOUS
  <2> QED BY <2>1, <2>2
<1> QED BY <1>1, <1>2 DEF Byte

(* Each step of Stored leads from its annotation to the next one. *)
LEMMA StoredStep == TypeOK /\ StoredInv /\ [Next]_vars => StoredInv'
<1> SUFFICES ASSUME TypeOK, StoredInv, [Next]_vars, status' # "fault" PROVE StoredInv'
  BY DEF StoredInv
<1>0. CASE UNCHANGED vars
  <2>1. Stored' <=> Stored
    BY <1>0 DEF vars, Stored, ExitAt, ITypeAt
  <2> QED BY <1>0, <2>1 DEF vars, StoredInv
<1>1. CASE status # "running"
  BY <1>0, <1>1, Stopped
<1>2. CASE Next /\ status = "running"
  <2>1. Stored /\ registers \in [Reg -> Word] /\ memory \in [Address -> Word]
    BY <1>2 DEF StoredInv, TypeOK, Registers, Memory
  <2>2. CASE pc = 0
    <3>1. ITypeAt(pc, "SB", S0, S1, 3)
      BY <2>1, <2>2 DEF Stored
    <3> DEFINE a == S1 + 3
    <3>2. a = Add(S1, Wrap(3))
      BY ByteAddress
    <3>3. a \in Address
      <4>1. Instr.op = "SB" /\ EffectiveAddress = Add(S1, Wrap(3))
        BY <3>1 DEF ITypeAt, EffectiveAddress, Immediate, Instr
      <4>2. InMemory(Add(S1, Wrap(3)))
        BY <1>2, <4>1, Dispatch DEF ExecuteMemory, Stores
      <4> QED BY <4>2, ByteAddress, MemoryAssumption DEF InMemory, Address, S1
    <3> HIDE DEF a
    <3>4. Next
      BY <1>2
    <3>5. Goes(pc + 1, registers, [memory EXCEPT ![a] = Byte(registers[S0])])
      <4>1. 3 \in Int
        OBVIOUS
      <4> QED BY <3>1, <3>2, <3>4, <4>1, DoesSb, Zenon
    <3>6. memory'[S1 + 3] = Byte(registers[S0]) /\ \A k \in 0 .. 11 : memory'[k] = memory[k]
      BY <2>1, <3>3, <3>5 DEF Goes, S1, a
    <3> QED BY <2>1, <2>2, <3>5, <3>6, TextStays DEF StoredInv, Goes
  <2>3. CASE pc = 1
    <3>1. ITypeAt(pc, "LB", T(0), S1, 3)
      BY <2>1, <2>3 DEF Stored
    <3>2. Goes(pc + 1, [registers EXCEPT ![T(0)] = Byte(memory[S1 + 3])], memory)
      BY <1>2, <3>1, DoesLb, ByteAddress
    <3>3. Byte(memory[S1 + 3]) = Byte(registers[S0])
      BY <1>2, <2>1, <2>3, ByteTwice DEF StoredInv, S0, Reg
    <3> QED BY <1>2, <2>1, <2>3, <3>2, <3>3, TextStays DEF StoredInv, Goes, T, S0, Reg
  <2>4. CASE pc = 2
    <3>1. ITypeAt(pc, "LI", V0, 0, EXIT)
      BY <2>1, <2>4 DEF Stored, ExitAt
    <3>2. Goes(pc + 1, [registers EXCEPT ![V0] = EXIT], memory)
      BY <1>2, <3>1, DoesLi, ExitWord
    <3> QED BY <1>2, <2>1, <2>4, <3>2, TextStays DEF StoredInv, Goes, T, S0, V0, Reg
  <2>5. CASE pc = 3
    <3>1. Fields[memory[pc]].op = "SYSCALL" /\ registers[V0] = EXIT
      BY <1>2, <2>1, <2>5 DEF Stored, ExitAt, StoredInv
    <3>2. status' = "halted" /\ registers' = registers /\ memory' = memory
      BY <1>2, <3>1, DoesExit
    <3> QED BY <1>2, <2>1, <2>5, <3>1, <3>2, TextStays DEF StoredInv
  <2> QED BY <1>2, <2>2, <2>3, <2>4, <2>5 DEF StoredInv
<1> QED BY <1>0, <1>1, <1>2

(* A byte is loaded from where it has been stored. *)
THEOREM StoresByte == Spec /\ Stored => []ByteKept
<1>1. Init /\ Stored => StoredInv
  BY DEF Init, StoredInv
<1>2. StoredInv => ByteKept
  BY DEF StoredInv, ByteKept, Byte
<1> QED BY <1>1, <1>2, StoredStep, InterpreterTyped, PTL DEF Spec

(***************************************************************************)
(* A call                                                                  *)
(***************************************************************************)
(* Multiples of the number of words do not change a word. *)
LEMMA WrapShift == ASSUME NEW x \in Int, NEW k \in Int PROVE Wrap(x + (WordSize * k)) = Wrap(x)
<1>1. \A w \in Nat \ {0}, q \in Int : \A r \in 0 .. w - 1 : ((q * w) + r) % w = r
  OBVIOUS
<1>2. PICK w \in Nat \ {0} : w = WordSize
  BY WordFacts
<1>3. PICK q \in Int : q = x \div w
  BY <1>2
<1>4. PICK r \in 0 .. w - 1 : r = x % w
  BY <1>2
<1>5. x = (w * q) + r
  <2>1. \A n \in Nat \ {0} : x = (n * (x \div n)) + (x % n)
    OBVIOUS
  <2> QED BY <1>2, <1>3, <1>4, <2>1
<1>6. x + (w * k) = ((q + k) * w) + r
  <2>1. \A i, j, n \in Int : (n * i) + (n * j) = (i + j) * n
    OBVIOUS
  <2>2. (w * q) + (w * k) = (q + k) * w
    BY <1>2, <1>3, <2>1
  <2>3. \A i, j, l \in Int : (i + l) + j = (i + j) + l
    OBVIOUS
  <2>4. w * q \in Int /\ w * k \in Int /\ r \in Int
    BY <1>2, <1>3, <1>4
  <2> QED BY <1>5, <2>2, <2>3, <2>4
<1>7. (((q + k) * w) + r) % w = r
  <2>1. q + k \in Int
    BY <1>3
  <2> QED BY <1>1, <1>2, <1>4, <2>1
<1> QED BY <1>2, <1>4, <1>6, <1>7 DEF Wrap

(* An integer is its word and a multiple of the number of words. *)
LEMMA WrapLeaves == ASSUME NEW x \in Int PROVE \E k \in Int : x = Wrap(x) + (WordSize * k)
<1>1. \A n \in Nat \ {0} : x = (x % n) + (n * (x \div n)) /\ x \div n \in Int
  OBVIOUS
<1>2. PICK w \in Nat \ {0} : w = WordSize
  BY WordFacts
<1>3. x = (x % w) + (w * (x \div w)) /\ x \div w \in Int
  BY <1>1
<1> QED BY <1>2, <1>3 DEF Wrap

(* Sums may be kept to the width of a word before or after they are added. *)
LEMMA WrapSum == ASSUME NEW x \in Int, NEW y \in Int PROVE Wrap(Wrap(x) + Wrap(y)) = Wrap(x + y)
<1>1. PICK j \in Int : x = Wrap(x) + (WordSize * j)
  BY WrapLeaves
<1>2. PICK k \in Int : y = Wrap(y) + (WordSize * k)
  BY WrapLeaves
<1>3. Wrap(x) \in Int /\ Wrap(y) \in Int /\ WordSize \in Int
  BY WrapInWord, WordFacts DEF Word
<1>4. x + y = (Wrap(x) + Wrap(y)) + (WordSize * (j + k))
  <2>1. \A w, i, l \in Int : (w * i) + (w * l) = w * (i + l) /\ w * i \in Int
    OBVIOUS
  <2>2. \A a, b, c, d \in Int : (a + b) + (c + d) = (a + c) + (b + d)
    OBVIOUS
  <2> QED BY <1>1, <1>2, <1>3, <2>1, <2>2
<1>5. j + k \in Int /\ Wrap(x) + Wrap(y) \in Int
  BY <1>3
<1> QED BY <1>4, <1>5, WrapShift

(* what holds at each address of Called *)
CalledInv ==
  \/ status = "fault"
  \/ /\ Called /\ registers[0] = 0
     /\ \/ status = "running" /\ pc = 0
        \/ status = "running" /\ pc = 1 /\ registers[T(0)] = registers[S0]
        \/ status = "running" /\ pc = 6 /\ registers[T(0)] = registers[S0] /\ registers[RA] = 3
        \/ /\ status = "running" /\ pc = 7
           /\ registers[T(0)] = Add(registers[S0], registers[S1]) /\ registers[RA] = 3
        \/ status = "running" /\ pc = 3 /\ registers[T(0)] = Add(registers[S0], registers[S1])
        \/ /\ (status = "running" /\ pc \in {4, 5}) \/ status = "halted"
           /\ registers[T(0)] = Mult(2, registers[S0] + registers[S1])
           /\ pc = 5 => registers[V0] = EXIT

(* Each step of Called leads from its annotation to the next one. *)
LEMMA CalledStep == RoomForJumps /\ TypeOK /\ CalledInv /\ [Next]_vars => CalledInv'
<1> SUFFICES ASSUME RoomForJumps, TypeOK, CalledInv, [Next]_vars, status' # "fault"
             PROVE  CalledInv'
  BY DEF CalledInv
<1>0. CASE UNCHANGED vars
  <2>1. Called' <=> Called
    BY <1>0 DEF vars, Called, ExitAt, RTypeAt, ITypeAt, JTypeAt
  <2> QED BY <1>0, <2>1 DEF vars, CalledInv
<1>1. CASE status # "running"
  BY <1>0, <1>1, Stopped
<1>2. CASE Next /\ status = "running"
  <2>1. Called /\ registers \in [Reg -> Word] /\ registers[0] = 0
    BY <1>2 DEF CalledInv, TypeOK, Registers
  <2>2. CASE pc = 0
    <3>1. RTypeAt(pc, "ADD", T(0), S0, 0)
      BY <2>1, <2>2 DEF Called
    <3>2. Goes(pc + 1, [registers EXCEPT ![T(0)] = Add(registers[S0], registers[0])], memory)
      BY <1>2, <3>1, DoesAdd
    <3>3. Add(registers[S0], registers[0]) = registers[S0]
      BY <2>1, SmallWrap DEF S0, Reg
    <3> QED BY <2>1, <2>2, <3>2, <3>3, TextStays DEF CalledInv, Goes, T, S0, Reg
  <2>3. CASE pc = 1
    <3>1. JTypeAt(pc, "JAL", 6)
      BY <2>1, <2>3 DEF Called
    <3>2. 6 \in Word /\ pc + 2 \in Word /\ pc + 2 < Region
      BY <2>3, SmallWords, RegionAssumption DEF RoomForJumps
    <3>3. Goes(6, [registers EXCEPT ![RA] = pc + 2], memory)
      BY <1>2, <3>1, <3>2, DoesJal
    <3> QED BY <1>2, <2>1, <2>3, <3>3, TextStays DEF CalledInv, Goes, T, S0, RA, Reg
  <2>4. CASE pc = 6
    <3>1. RTypeAt(pc, "ADD", T(0), T(0), S1)
      BY <2>1, <2>4 DEF Called
    <3>2. Goes(pc + 1, [registers EXCEPT ![T(0)] = Add(registers[T(0)], registers[S1])], memory)
      BY <1>2, <3>1, DoesAdd
    <3> QED BY <1>2, <2>1, <2>4, <3>2, TextStays DEF CalledInv, Goes, T, S0, S1, RA, Reg
  <2>5. CASE pc = 7
    <3>1. RTypeAt(pc, "JALR", AT, RA, 0)
      BY <2>1, <2>5 DEF Called
    <3>2. AT \in Reg /\ RA \in Reg \ {AT}
      BY DEF AT, RA, Reg
    <3>3. PICK v : Goes(registers[RA], [registers EXCEPT ![AT] = v], memory)
      BY <1>2, <3>1, <3>2, DoesJalr
    <3> QED BY <1>2, <2>1, <2>5, <3>3, TextStays DEF CalledInv, Goes, T, S0, S1, AT, Reg
  <2>6. CASE pc = 3
    <3>1. RTypeAt(pc, "ADD", T(0), T(0), T(0))
      BY <2>1, <2>6 DEF Called
    <3>2. Goes(pc + 1, [registers EXCEPT ![T(0)] = Add(registers[T(0)], registers[T(0)])], memory)
      BY <1>2, <3>1, DoesAdd
    <3>3. Add(registers[T(0)], registers[T(0)]) = Mult(2, registers[S0] + registers[S1])
      <4>1. registers[T(0)] = Wrap(registers[S0] + registers[S1])
        BY <1>2, <2>6 DEF CalledInv, Add
      <4>2. registers[S0] + registers[S1] \in Int
        <5>1. registers[S0] \in Word /\ registers[S1] \in Word
          BY <2>1 DEF S0, S1, Reg
        <5> QED BY <5>1, WordFacts DEF Word
      <4>3. \A n \in Int : n + n = 2 * n
        OBVIOUS
      <4> QED BY <4>1, <4>2, <4>3, WrapSum DEF Add, Mult
    <3> QED BY <2>1, <2>6, <3>2, <3>3, TextStays DEF CalledInv, Goes, T, S0, S1, Reg
  <2>7. CASE pc = 4
    <3>1. ITypeAt(pc, "LI", V0, 0, EXIT)
      BY <2>1, <2>7 DEF Called, ExitAt
    <3>2. Goes(pc + 1, [registers EXCEPT ![V0] = EXIT], memory)
      BY <1>2, <3>1, DoesLi, ExitWord
    <3> QED BY <1>2, <2>1, <2>7, <3>2, TextStays DEF CalledInv, Goes, T, S0, S1, V0, Reg
  <2>8. CASE pc = 5
    <3>1. Fields[memory[pc]].op = "SYSCALL" /\ registers[V0] = EXIT
      BY <1>2, <2>1, <2>8 DEF Called, ExitAt, CalledInv
    <3>2. status' = "halted" /\ registers' = registers /\ memory' = memory
      BY <1>2, <3>1, DoesExit
    <3> QED BY <1>2, <2>1, <2>8, <3>1, <3>2, TextStays DEF CalledInv
  <2> QED BY <1>2, <2>2, <2>3, <2>4, <2>5, <2>6, <2>7, <2>8 DEF CalledInv
<1> QED BY <1>0, <1>1, <1>2

(* A call comes back to the second word behind it with the callee's value. *)
THEOREM CallComesBack == OperandsOnly /\ RoomForJumps => (Spec /\ Called => []CallReturns)
<1> SUFFICES ASSUME OperandsOnly, RoomForJumps PROVE Spec /\ Called => []CallReturns
  OBVIOUS
<1>1. Init /\ Called => CalledInv
  BY Started DEF Init, CalledInv
<1>2. CalledInv => CallReturns
  BY DEF CalledInv, CallReturns
<1>3. TypeOK /\ CalledInv /\ [Next]_vars => CalledInv'
  BY CalledStep
<1> QED BY <1>1, <1>2, <1>3, InterpreterTyped, PTL DEF Spec

(***************************************************************************)
(* Two words on the stack                                                  *)
(***************************************************************************)
(* Adding the word of -1 to a word that is not 0 takes one from it. *)
LEMMA OneLess == ASSUME NEW a \in Word, a # 0 PROVE Add(a, Wrap(-1)) = a - 1
<1>1. a \in Int /\ -1 \in Int /\ a + (-1) = a - 1
  BY WordFacts DEF Word
<1>2. Wrap(a) = a
  BY SmallWrap
<1>3. Wrap(Wrap(a) + Wrap(-1)) = Wrap(a - 1)
  BY <1>1, WrapSum
<1>4. a - 1 \in Word
  BY WordFacts DEF Word
<1> QED BY <1>2, <1>3, <1>4, SmallWrap DEF Add

(* Where $sp goes, two words down and up again. *)
LEMMA StackMoves ==
  ASSUME RoomForStack
  PROVE  /\ StackTop - 1 \in Address \ 0 .. 11 /\ StackTop - 2 \in Address \ 0 .. 11
         /\ StackTop - 1 # StackTop - 2
         /\ Add(StackTop, Wrap(-1)) = StackTop - 1 /\ Add(StackTop - 1, Wrap(-1)) = StackTop - 2
         /\ Add(StackTop - 2, Wrap(1)) = StackTop - 1 /\ Add(StackTop - 1, Wrap(1)) = StackTop
         /\ SP \notin {StackTop, StackTop - 1, StackTop - 2}
<1>1. StackTop \in Nat /\ StackTop >= 14 /\ StackTop <= MemSize /\ MemSize \in Nat
  BY MemoryAssumption, WordFacts DEF RoomForStack, Word
<1>2. StackTop \in Word /\ StackTop - 1 \in Word /\ StackTop - 2 \in Word
  BY <1>1, MemoryAssumption, WordFacts DEF Word
<1>3. StackTop - 1 \in Address \ 0 .. 11 /\ StackTop - 2 \in Address \ 0 .. 11
  BY <1>1 DEF Address
<1>4. Add(StackTop, Wrap(-1)) = StackTop - 1
  BY <1>1, <1>2, OneLess
<1>5. Add(StackTop - 1, Wrap(-1)) = StackTop - 2
  <2>1. StackTop - 1 # 0 /\ (StackTop - 1) - 1 = StackTop - 2
    BY <1>1
  <2> QED BY <1>2, <2>1, OneLess
<1>6. Wrap(1) = 1
  BY SmallWords, SmallWrap
<1>7. Add(StackTop - 2, Wrap(1)) = StackTop - 1
  <2>1. (StackTop - 2) + 1 = StackTop - 1
    BY <1>1
  <2> QED BY <1>2, <1>6, <2>1, SmallWrap DEF Add
<1>8. Add(StackTop - 1, Wrap(1)) = StackTop
  <2>1. (StackTop - 1) + 1 = StackTop
    BY <1>1
  <2> QED BY <1>2, <1>6, <2>1, SmallWrap DEF Add
<1>9. SP \notin {StackTop, StackTop - 1, StackTop - 2}
  BY <1>1 DEF RoomForStack
<1>10. StackTop - 1 # StackTop - 2
  BY <1>1
<1> QED BY <1>3, <1>4, <1>5, <1>7, <1>8, <1>9, <1>10

(* what holds at each address of Pushed: of $t0 and $t1, of $sp, of the    *)
(* words on the stack and of what has come off it                          *)
Copied    == registers[T(0)] = registers[S0] /\ registers[T(1)] = registers[S1]
Below(d)  == registers[SP] = StackTop - d
FirstIn   == memory[StackTop - 1] = registers[T(0)]
BothIn    == FirstIn /\ memory[StackTop - 2] = registers[T(1)]
SecondOut == registers[S0] = registers[T(1)]
BothOut   == SecondOut /\ registers[S1] = registers[T(0)]
PushedInv ==
  \/ status = "fault"
  \/ /\ Pushed
     /\ \/ /\ status = "running"
           /\ \/ pc = 0 /\ registers[SP] = StackTop /\ registers[0] = 0
              \/ /\ pc = 1 /\ registers[SP] = StackTop /\ registers[0] = 0
                 /\ registers[T(0)] = registers[S0]
              \/ pc = 2 /\ registers[SP] = StackTop /\ Copied
              \/ pc = 3 /\ Below(1) /\ Copied
              \/ pc = 4 /\ Below(1) /\ Copied /\ FirstIn
              \/ pc = 5 /\ Below(2) /\ Copied /\ FirstIn
              \/ pc = 6 /\ Below(2) /\ BothIn
              \/ pc = 7 /\ Below(2) /\ BothIn /\ SecondOut
              \/ pc = 8 /\ Below(1) /\ BothIn /\ SecondOut
              \/ pc = 9 /\ Below(1) /\ BothIn /\ BothOut
        \/ /\ (status = "running" /\ pc \in {10, 11}) \/ status = "halted"
           /\ registers[SP] = StackTop /\ BothIn /\ BothOut
           /\ pc = 11 => registers[V0] = EXIT

(* Each step of Pushed leads from its annotation to the next one. *)
LEMMA PushedStep == RoomForStack /\ TypeOK /\ PushedInv /\ [Next]_vars => PushedInv'
<1> SUFFICES ASSUME RoomForStack, TypeOK, PushedInv, [Next]_vars, status' # "fault"
             PROVE  PushedInv'
  BY DEF PushedInv
<1>0. CASE UNCHANGED vars
  <2>1. Pushed' <=> Pushed
    BY <1>0 DEF vars, Pushed, OperandsAt, ExitAt, RTypeAt, ITypeAt
  <2> QED BY <1>0, <2>1 DEF vars, PushedInv, Copied, Below, FirstIn, BothIn, SecondOut, BothOut
<1>1. CASE status # "running"
  BY <1>0, <1>1, Stopped
<1>2. CASE Next /\ status = "running"
  <2>1. Pushed /\ registers \in [Reg -> Word] /\ memory \in [Address -> Word]
    BY <1>2 DEF PushedInv, TypeOK, Registers, Memory
  <2>2. SP \in Reg /\ S0 \in Reg /\ S1 \in Reg /\ T(0) \in Reg /\ T(1) \in Reg
    BY DEF SP, S0, S1, T, Reg
  <2>3. CASE pc = 0
    <3>1. RTypeAt(pc, "ADD", T(0), S0, 0) /\ registers[SP] = StackTop /\ registers[0] = 0
      BY <1>2, <2>1, <2>3 DEF Pushed, OperandsAt, PushedInv
    <3>2. Goes(pc + 1, [registers EXCEPT ![T(0)] = Add(registers[S0], registers[0])], memory)
      BY <1>2, <3>1, DoesAdd
    <3>3. Add(registers[S0], registers[0]) = registers[S0]
      BY <2>1, <2>2, <3>1, SmallWrap
    <3> QED BY <2>1, <2>3, <3>1, <3>2, <3>3, TextStays DEF PushedInv, Goes, T, S0, SP, Reg
  <2>4. CASE pc = 1
    <3>1. /\ RTypeAt(pc, "ADD", T(1), S1, 0) /\ registers[SP] = StackTop /\ registers[0] = 0
          /\ registers[T(0)] = registers[S0]
      BY <1>2, <2>1, <2>4 DEF Pushed, OperandsAt, PushedInv
    <3>2. Goes(pc + 1, [registers EXCEPT ![T(1)] = Add(registers[S1], registers[0])], memory)
      BY <1>2, <3>1, DoesAdd
    <3>3. Add(registers[S1], registers[0]) = registers[S1]
      BY <2>1, <2>2, <3>1, SmallWrap
    <3> QED BY <2>1, <2>4, <3>1, <3>2, <3>3, TextStays
              DEF PushedInv, Copied, Goes, T, S0, S1, SP, Reg
  <2>5. CASE pc = 2
    <3>1. ITypeAt(pc, "ADDI", SP, SP, -1) /\ registers[SP] = StackTop /\ Copied
      BY <1>2, <2>1, <2>5 DEF Pushed, PushedInv
    <3>2. Goes(pc + 1, [registers EXCEPT ![SP] = StackTop - 1], memory)
      BY <1>2, <2>2, <3>1, DoesAddi, StackMoves
    <3> QED BY <2>1, <2>5, <3>1, <3>2, TextStays
              DEF PushedInv, Copied, Below, Goes, T, S0, S1, SP, Reg
  <2>6. CASE pc = 3
    <3>1. ITypeAt(pc, "SW", S0, SP, 0) /\ registers[SP] = StackTop - 1 /\ Copied
      BY <1>2, <2>1, <2>6 DEF Pushed, PushedInv, Below
    <3>2. Goes(pc + 1, registers, [memory EXCEPT ![StackTop - 1] = registers[S0]])
      BY <1>2, <2>2, <3>1, DoesSw
    <3>3. Pushed' /\ memory'[StackTop - 1] = registers[S0]
      BY <2>1, <3>2, StackMoves, TextStays DEF Goes
    <3> QED BY <2>6, <3>1, <3>2, <3>3 DEF PushedInv, Copied, Below, FirstIn, Goes
  <2>7. CASE pc = 4
    <3>1. ITypeAt(pc, "ADDI", SP, SP, -1) /\ registers[SP] = StackTop - 1 /\ Copied /\ FirstIn
      BY <1>2, <2>1, <2>7 DEF Pushed, PushedInv, Below
    <3>2. Goes(pc + 1, [registers EXCEPT ![SP] = StackTop - 2], memory)
      BY <1>2, <2>2, <3>1, DoesAddi, StackMoves
    <3> QED BY <2>1, <2>7, <3>1, <3>2, TextStays
              DEF PushedInv, Copied, Below, FirstIn, Goes, T, S0, S1, SP, Reg
  <2>8. CASE pc = 5
    <3>1. ITypeAt(pc, "SW", S1, SP, 0) /\ registers[SP] = StackTop - 2 /\ Copied /\ FirstIn
      BY <1>2, <2>1, <2>8 DEF Pushed, PushedInv, Below
    <3>2. Goes(pc + 1, registers, [memory EXCEPT ![StackTop - 2] = registers[S1]])
      BY <1>2, <2>2, <3>1, DoesSw
    <3>3. /\ Pushed' /\ memory'[StackTop - 2] = registers[S1]
          /\ memory'[StackTop - 1] = memory[StackTop - 1]
      BY <2>1, <3>2, StackMoves, TextStays DEF Goes
    <3> QED BY <2>8, <3>1, <3>2, <3>3 DEF PushedInv, Copied, Below, FirstIn, BothIn, Goes
  <2>9. CASE pc = 6
    <3>1. ITypeAt(pc, "LW", S0, SP, 0) /\ registers[SP] = StackTop - 2 /\ BothIn
      BY <1>2, <2>1, <2>9 DEF Pushed, PushedInv, Below
    <3>2. Goes(pc + 1, [registers EXCEPT ![S0] = memory[StackTop - 2]], memory)
      BY <1>2, <2>2, <3>1, DoesLw
    <3> QED BY <2>1, <2>9, <3>1, <3>2, TextStays
              DEF PushedInv, Below, FirstIn, BothIn, SecondOut, Goes, T, S0, SP, Reg
  <2>10. CASE pc = 7
    <3>1. ITypeAt(pc, "ADDI", SP, SP, 1) /\ registers[SP] = StackTop - 2 /\ BothIn /\ SecondOut
      BY <1>2, <2>1, <2>10 DEF Pushed, PushedInv, Below
    <3>2. Goes(pc + 1, [registers EXCEPT ![SP] = StackTop - 1], memory)
      BY <1>2, <2>2, <3>1, DoesAddi, StackMoves
    <3> QED BY <2>1, <2>10, <3>1, <3>2, TextStays
              DEF PushedInv, Below, FirstIn, BothIn, SecondOut, Goes, T, S0, SP, Reg
  <2>11. CASE pc = 8
    <3>1. ITypeAt(pc, "LW", S1, SP, 0) /\ registers[SP] = StackTop - 1 /\ BothIn /\ SecondOut
      BY <1>2, <2>1, <2>11 DEF Pushed, PushedInv, Below
    <3>2. Goes(pc + 1, [registers EXCEPT ![S1] = memory[StackTop - 1]], memory)
      BY <1>2, <2>2, <3>1, DoesLw
    <3> QED BY <2>1, <2>11, <3>1, <3>2, TextStays
              DEF PushedInv, Below, FirstIn, BothIn, SecondOut, BothOut, Goes, T, S0, S1, SP, Reg
  <2>12. CASE pc = 9
    <3>1. ITypeAt(pc, "ADDI", SP, SP, 1) /\ registers[SP] = StackTop - 1 /\ BothIn /\ BothOut
      BY <1>2, <2>1, <2>12 DEF Pushed, PushedInv, Below
    <3>2. Goes(pc + 1, [registers EXCEPT ![SP] = StackTop], memory)
      BY <1>2, <2>2, <3>1, DoesAddi, StackMoves
    <3> QED BY <2>1, <2>12, <3>1, <3>2, TextStays
              DEF PushedInv, FirstIn, BothIn, SecondOut, BothOut, Goes, T, S0, S1, SP, Reg
  <2>13. CASE pc = 10
    <3>1. /\ ITypeAt(pc, "LI", V0, 0, EXIT)
          /\ registers[SP] = StackTop /\ BothIn /\ BothOut
      BY <1>2, <2>1, <2>13 DEF Pushed, ExitAt, PushedInv
    <3>2. Goes(pc + 1, [registers EXCEPT ![V0] = EXIT], memory)
      BY <1>2, <3>1, DoesLi, ExitWord
    <3> QED BY <2>1, <2>13, <3>1, <3>2, TextStays
              DEF PushedInv, FirstIn, BothIn, SecondOut, BothOut, Goes, T, S0, S1, SP, V0, Reg
  <2>14. CASE pc = 11
    <3>1. /\ Fields[memory[pc]].op = "SYSCALL" /\ registers[V0] = EXIT
          /\ registers[SP] = StackTop /\ BothIn /\ BothOut
      BY <1>2, <2>1, <2>14 DEF Pushed, ExitAt, PushedInv
    <3>2. status' = "halted" /\ registers' = registers /\ memory' = memory
      BY <1>2, <3>1, DoesExit
    <3> QED BY <2>1, <3>1, <3>2, TextStays DEF PushedInv, FirstIn, BothIn, SecondOut, BothOut
  <2> QED BY <1>2, <2>3, <2>4, <2>5, <2>6, <2>7, <2>8, <2>9, <2>10, <2>11, <2>12, <2>13, <2>14
          DEF PushedInv
<1> QED BY <1>0, <1>1, <1>2

(* What is pushed comes off in the reverse order and $sp is back, however  *)
(* wide a word is and wherever the stack lies.                             *)
THEOREM StackBalances == OperandsOnly /\ RoomForStack => (Spec /\ Pushed => []StackBalanced)
<1> SUFFICES ASSUME OperandsOnly, RoomForStack PROVE Spec /\ Pushed => []StackBalanced
  OBVIOUS
<1>1. Init /\ Pushed => PushedInv
  BY Started DEF Init, PushedInv
<1>2. PushedInv => StackBalanced
  BY DEF PushedInv, FirstIn, BothIn, SecondOut, BothOut, StackBalanced
<1>3. TypeOK /\ PushedInv /\ [Next]_vars => PushedInv'
  BY PushedStep
<1> QED BY <1>1, <1>2, <1>3, InterpreterTyped, PTL DEF Spec

(***************************************************************************)
(* A product                                                               *)
(***************************************************************************)
(* The terms still to be added are those the counter counts. *)
Remains(c, sum) == sum = Mult(registers[S0] - c, registers[S1])
(* what holds at each address of Summed *)
SummedInv ==
  \/ status = "fault"
  \/ /\ Summed /\ registers[0] = 0
     /\ \/ status = "running" /\ pc = 0 /\ registers[T(2)] = 0
        \/ status = "running" /\ pc = 1 /\ registers[T(2)] = 0 /\ registers[T(0)] = registers[S0]
        \/ /\ status = "running" /\ registers[T(1)] = registers[S1]
           /\ \/ pc \in {2, 4, 5} /\ Remains(registers[T(0)], registers[T(2)])
              \/ pc = 3 /\ Remains(registers[T(0)] - 1, registers[T(2)])
        \/ /\ (status = "running" /\ pc \in {6, 7}) \/ status = "halted"
           /\ registers[T(2)] = Mult(registers[S0], registers[S1])
           /\ pc = 7 => registers[V0] = EXIT

(* One more term is added, and one fewer remains. *)
LEMMA TermAdded ==
  ASSUME NEW m \in Word, NEW n \in Word, NEW c \in Word
  PROVE  /\ Add(Mult(m - c, n), n) = Mult(m - (c - 1), n)
         /\ Mult(m - (c - 1), n) = Mult(m - Add(c, Wrap(-1)), n)
         /\ Mult(m - m, n) = 0
<1>1. m \in Int /\ n \in Int /\ c \in Int
  BY WordFacts DEF Word
<1>2. Add(Mult(m - c, n), n) = Mult(m - (c - 1), n)
  <2>1. (m - c) * n \in Int
    BY <1>1
  <2>2. (m - c) * n + n = (m - (c - 1)) * n
    BY <1>1
  <2>3. Wrap(n) = n
    BY SmallWrap
  <2> QED BY <1>1, <2>1, <2>2, <2>3, WrapSum DEF Add, Mult
<1>3. Mult(m - (c - 1), n) = Mult(m - Add(c, Wrap(-1)), n)
  <2>1. CASE c # 0
    BY <2>1, OneLess
  <2>2. CASE c = 0
    <3>1. Add(c, Wrap(-1)) = WordSize - 1
      <4>1. \A w \in Nat : w > 1 => (-1) % w = w - 1
        OBVIOUS
      <4>2. Wrap(-1) = WordSize - 1
        BY <4>1, WordFacts DEF Wrap
      <4>3. WordSize - 1 \in Word
        BY WordFacts DEF Word
      <4>4. 0 + (WordSize - 1) = WordSize - 1
        BY WordFacts
      <4> QED BY <2>2, <4>2, <4>3, <4>4, SmallWrap DEF Add
    <3>2. (m - (c - 1)) * n = (m - (WordSize - 1)) * n + (WordSize * n)
      <4>1. PICK w \in Int : w = WordSize
        BY WordFacts
      <4>2. (m - (0 - 1)) * n = (m - (w - 1)) * n + (w * n)
        BY <1>1, <4>1
      <4> QED BY <2>2, <4>1, <4>2
    <3>3. (m - (WordSize - 1)) * n \in Int
      BY <1>1, WordFacts
    <3> QED BY <1>1, <3>1, <3>2, <3>3, WrapShift DEF Mult
  <2> QED BY <2>1, <2>2
<1>4. Mult(m - m, n) = 0
  <2>1. (m - m) * n = 0
    BY <1>1
  <2> QED BY <2>1, SmallWrap, WordFacts DEF Mult
<1> QED BY <1>2, <1>3, <1>4

(* Each step of Summed leads from its annotation to the next one. *)
LEMMA SummedStep == TypeOK /\ SummedInv /\ [Next]_vars => SummedInv'
<1> SUFFICES ASSUME TypeOK, SummedInv, [Next]_vars, status' # "fault" PROVE SummedInv'
  BY DEF SummedInv
<1>0. CASE UNCHANGED vars
  <2>1. Summed' <=> Summed
    BY <1>0 DEF vars, Summed, OperandsAt, ExitAt, RTypeAt, ITypeAt
  <2> QED BY <1>0, <2>1 DEF vars, SummedInv, Remains
<1>1. CASE status # "running"
  BY <1>0, <1>1, Stopped
<1>2. CASE Next /\ status = "running"
  <2>1. Summed /\ registers \in [Reg -> Word] /\ registers[0] = 0
    BY <1>2 DEF SummedInv, TypeOK, Registers
  <2>2. /\ registers[S0] \in Word /\ registers[S1] \in Word
        /\ registers[T(0)] \in Word /\ registers[T(1)] \in Word
    BY <2>1 DEF S0, S1, T, Reg
  <2>3. CASE pc = 0
    <3>1. RTypeAt(pc, "ADD", T(0), S0, 0) /\ registers[T(2)] = 0
      BY <1>2, <2>1, <2>3 DEF Summed, OperandsAt, SummedInv
    <3>2. Goes(pc + 1, [registers EXCEPT ![T(0)] = Add(registers[S0], registers[0])], memory)
      BY <1>2, <3>1, DoesAdd
    <3>3. Add(registers[S0], registers[0]) = registers[S0]
      BY <2>1, <2>2, SmallWrap
    <3> QED BY <2>1, <2>3, <3>1, <3>2, <3>3, TextStays DEF SummedInv, Goes, T, S0, Reg
  <2>4. CASE pc = 1
    <3>1. /\ RTypeAt(pc, "ADD", T(1), S1, 0)
          /\ registers[T(2)] = 0 /\ registers[T(0)] = registers[S0]
      BY <1>2, <2>1, <2>4 DEF Summed, OperandsAt, SummedInv
    <3>2. Goes(pc + 1, [registers EXCEPT ![T(1)] = Add(registers[S1], registers[0])], memory)
      BY <1>2, <3>1, DoesAdd
    <3>3. Add(registers[S1], registers[0]) = registers[S1]
      BY <2>1, <2>2, SmallWrap
    <3>4. Remains(registers[T(0)], registers[T(2)])
      BY <2>2, <3>1, TermAdded DEF Remains
    <3> QED BY <2>1, <2>4, <3>1, <3>2, <3>3, <3>4, TextStays
              DEF SummedInv, Remains, Goes, T, S0, S1, Reg
  <2>5. CASE pc = 2
    <3>1. /\ RTypeAt(pc, "ADD", T(2), T(2), T(1)) /\ registers[T(1)] = registers[S1]
          /\ Remains(registers[T(0)], registers[T(2)])
      BY <1>2, <2>1, <2>5 DEF Summed, SummedInv
    <3>2. Goes(pc + 1, [registers EXCEPT ![T(2)] = Add(registers[T(2)], registers[T(1)])], memory)
      BY <1>2, <3>1, DoesAdd
    <3>3. Remains(registers[T(0)] - 1, Add(registers[T(2)], registers[T(1)]))
      BY <2>2, <3>1, TermAdded DEF Remains
    <3> QED BY <2>1, <2>5, <3>1, <3>2, <3>3, TextStays
              DEF SummedInv, Remains, Goes, T, S0, S1, Reg
  <2>6. CASE pc = 3
    <3>1. /\ ITypeAt(pc, "ADDI", T(0), T(0), -1) /\ registers[T(1)] = registers[S1]
          /\ Remains(registers[T(0)] - 1, registers[T(2)])
      BY <1>2, <2>1, <2>6 DEF Summed, SummedInv
    <3>2. T(0) \in Reg \ {SP} /\ -1 \in Int
      BY DEF T, Reg, SP
    <3> DEFINE c == Add(registers[T(0)], Wrap(-1))
    <3>3. PICK v : Goes(pc + 1, [registers EXCEPT ![T(0)] = c, ![SP] = v], memory)
      BY <1>2, <3>1, <3>2, DoesCount
    <3>4. Remains(c, registers[T(2)])
      BY <2>2, <3>1, TermAdded DEF Remains
    <3> HIDE DEF c
    <3> QED BY <2>1, <2>6, <3>1, <3>3, <3>4, TextStays
              DEF SummedInv, Remains, Goes, T, S0, S1, SP, Reg
  <2>7. CASE pc = 4
    <3>1. /\ RTypeAt(pc, "SLL", 0, 0, 0) /\ registers[T(1)] = registers[S1]
          /\ Remains(registers[T(0)], registers[T(2)])
      BY <1>2, <2>1, <2>7 DEF Summed, SummedInv
    <3>2. Goes(pc + 1, registers, memory)
      BY <1>2, <2>1, <3>1, DoesNop
    <3> QED BY <2>1, <2>7, <3>1, <3>2, TextStays DEF SummedInv, Remains, Goes
  <2>8. CASE pc = 5
    <3>1. /\ ITypeAt(pc, "BNE", 0, T(0), -1) \/ ITypeAt(pc, "BGTZ", 0, T(0), -1)
          /\ registers[T(1)] = registers[S1] /\ Remains(registers[T(0)], registers[T(2)])
      BY <1>2, <2>1, <2>8 DEF Summed, SummedInv
    <3>2. T(0) \in Reg /\ pc >= 3
      BY <2>8 DEF T, Reg
    <3>3. Goes(IF registers[T(0)] # 0 THEN pc - 3 ELSE pc + 1, registers, memory)
      BY <1>2, <2>1, <3>1, <3>2, DoesLoop
    <3>4. registers[T(0)] = 0 => registers[T(2)] = Mult(registers[S0], registers[S1])
      <4>1. registers[S0] - 0 = registers[S0]
        BY <2>2, WordFacts DEF Word
      <4> QED BY <3>1, <4>1 DEF Remains
    <3> QED BY <2>1, <2>8, <3>1, <3>3, <3>4, TextStays DEF SummedInv, Remains, Goes
  <2>9. CASE pc = 6
    <3>1. /\ ITypeAt(pc, "LI", V0, 0, EXIT)
          /\ registers[T(2)] = Mult(registers[S0], registers[S1])
      BY <1>2, <2>1, <2>9 DEF Summed, ExitAt, SummedInv
    <3>2. Goes(pc + 1, [registers EXCEPT ![V0] = EXIT], memory)
      BY <1>2, <3>1, DoesLi, ExitWord
    <3> QED BY <2>1, <2>9, <3>1, <3>2, TextStays DEF SummedInv, Goes, T, S0, S1, V0, Reg
  <2>10. CASE pc = 7
    <3>1. /\ Fields[memory[pc]].op = "SYSCALL" /\ registers[V0] = EXIT
          /\ registers[T(2)] = Mult(registers[S0], registers[S1])
      BY <1>2, <2>1, <2>10 DEF Summed, ExitAt, SummedInv
    <3>2. status' = "halted" /\ registers' = registers /\ memory' = memory
      BY <1>2, <3>1, DoesExit
    <3> QED BY <2>1, <3>1, <3>2, TextStays DEF SummedInv
  <2> QED BY <1>2, <2>3, <2>4, <2>5, <2>6, <2>7, <2>8, <2>9, <2>10 DEF SummedInv
<1> QED BY <1>0, <1>1, <1>2

(* A loop closed by bne or bgtz adds as often as its counter says, a       *)
(* counter of zero as often as there are words.                            *)
THEOREM SumIsProduct == OperandsOnly => (Spec /\ Summed => []ProductComputed)
<1> SUFFICES ASSUME OperandsOnly PROVE Spec /\ Summed => []ProductComputed
  OBVIOUS
<1>1. Init /\ Summed => SummedInv
  BY Started DEF Init, SummedInv
<1>2. SummedInv => ProductComputed
  BY DEF SummedInv, ProductComputed
<1> QED BY <1>1, <1>2, SummedStep, InterpreterTyped, PTL DEF Spec

(***************************************************************************)
(* A greatest common divisor                                               *)
(***************************************************************************)
(* What is divided is a multiple. *)
LEMMA Multiples ==
  ASSUME NEW x \in Int, NEW d \in Nat \ {0}
  PROVE  Divides(d, x) <=> \E k \in Int : x = d * k
<1>1. ASSUME Divides(d, x) PROVE \E k \in Int : x = d * k
  <2>1. \A n \in Nat \ {0} : x = (n * (x \div n)) + (x % n) /\ x \div n \in Int
    OBVIOUS
  <2>2. x = (d * (x \div d)) + (x % d) /\ x \div d \in Int
    BY <2>1
  <2>3. PICK k \in Int : k = x \div d
    BY <2>2
  <2>4. x = (d * k) + 0 /\ d * k \in Int
    BY <1>1, <2>2, <2>3 DEF Divides
  <2>5. x = d * k
    BY <2>4
  <2> QED BY <2>3, <2>5
<1>2. ASSUME NEW k \in Int, x = d * k PROVE Divides(d, x)
  <2>1. \A w \in Nat \ {0}, q \in Int : \A r \in 0 .. w - 1 : ((q * w) + r) % w = r
    OBVIOUS
  <2>2. ((k * d) + 0) % d = 0
    BY <2>1
  <2>3. (k * d) + 0 = x
    BY <1>2
  <2> QED BY <2>2, <2>3 DEF Divides
<1> QED BY <1>1, <1>2

(* Dividing keeps the common divisors. *)
LEMMA RemainderDivides ==
  ASSUME NEW a \in Nat, NEW b \in Nat \ {0}, NEW d \in Nat \ {0}
  PROVE  Divides(d, a) /\ Divides(d, b) <=> Divides(d, b) /\ Divides(d, a % b)
<1>1. PICK q \in Int : q = a \div b
  OBVIOUS
<1>2. PICK r \in Nat : r = a % b
  OBVIOUS
<1>3. a = (b * q) + r
  <2>1. \A n \in Nat \ {0} : a = (n * (a \div n)) + (a % n)
    OBVIOUS
  <2> QED BY <1>1, <1>2, <2>1
<1>4. ASSUME Divides(d, a), Divides(d, b) PROVE Divides(d, r)
  <2>1. PICK i \in Int : a = d * i
    BY <1>4, Multiples
  <2>2. PICK j \in Int : b = d * j
    BY <1>4, Multiples
  <2>3. r = d * (i - (j * q))
    <3>1. r = (d * i) - ((d * j) * q)
      BY <1>3, <2>1, <2>2
    <3>2. \A u, v \in Int : (u * i) - ((u * j) * v) = u * (i - (j * v))
      OBVIOUS
    <3> QED BY <3>1, <3>2
  <2>4. i - (j * q) \in Int
    OBVIOUS
  <2> QED BY <2>3, <2>4, Multiples
<1>5. ASSUME Divides(d, b), Divides(d, r) PROVE Divides(d, a)
  <2>1. PICK i \in Int : r = d * i
    BY <1>5, Multiples
  <2>2. PICK j \in Int : b = d * j
    BY <1>5, Multiples
  <2>3. a = d * ((j * q) + i)
    <3>1. a = ((d * j) * q) + (d * i)
      BY <1>3, <2>1, <2>2
    <3>2. \A u, v \in Int : ((u * j) * v) + (u * i) = u * ((j * v) + i)
      OBVIOUS
    <3> QED BY <3>1, <3>2
  <2>4. (j * q) + i \in Int
    OBVIOUS
  <2> QED BY <2>3, <2>4, Multiples
<1> QED BY <1>2, <1>4, <1>5

(* a and b have the common divisors of the operands, and one of them is    *)
(* not zero unless both operands are.                                      *)
Common(a, b) ==
  /\ \A d \in Nat \ {0} :
       Divides(d, a) /\ Divides(d, b) <=> Divides(d, registers[S0]) /\ Divides(d, registers[S1])
  /\ registers[S0] + registers[S1] > 0 => a + b > 0

(* what holds at each address of Euclid *)
EuclidInv ==
  \/ status = "fault"
  \/ /\ Euclid /\ registers[0] = 0
     /\ \/ status = "running" /\ pc = 0
        \/ status = "running" /\ pc = 1 /\ registers[T(0)] = registers[S0]
        \/ status = "running" /\ pc = 2 /\ Common(registers[T(0)], registers[T(1)])
        \/ /\ status = "running" /\ pc \in {3, 4} /\ registers[T(1)] # 0
           /\ Common(registers[T(0)], registers[T(1)])
           /\ pc = 4 => special.HI = registers[T(0)] % registers[T(1)]
        \/ status = "running" /\ pc = 5 /\ Common(registers[T(1)], registers[T(3)])
        \/ status = "running" /\ pc = 6 /\ Common(registers[T(0)], registers[T(3)])
        \/ status = "running" /\ pc = 7 /\ Common(registers[T(0)], registers[T(1)])
        \/ /\ (status = "running" /\ pc \in {8, 9}) \/ status = "halted"
           /\ Common(registers[T(0)], 0)
           /\ pc = 9 => registers[V0] = EXIT

(* Each step of Euclid leads from its annotation to the next one. *)
LEMMA EuclidStep == RoomForJumps /\ TypeOK /\ EuclidInv /\ [Next]_vars => EuclidInv'
<1> SUFFICES ASSUME RoomForJumps, TypeOK, EuclidInv, [Next]_vars, status' # "fault"
             PROVE  EuclidInv'
  BY DEF EuclidInv
<1>0. CASE UNCHANGED vars
  <2>1. Euclid' <=> Euclid
    BY <1>0 DEF vars, Euclid, OperandsAt, ExitAt, RTypeAt, ITypeAt, JTypeAt
  <2> QED BY <1>0, <2>1 DEF vars, EuclidInv, Common
<1>1. CASE status # "running"
  BY <1>0, <1>1, Stopped
<1>2. CASE Next /\ status = "running"
  <2>1. Euclid /\ registers \in [Reg -> Word] /\ registers[0] = 0
    BY <1>2 DEF EuclidInv, TypeOK, Registers
  <2>2. /\ registers[S0] \in Word /\ registers[S1] \in Word
        /\ registers[T(0)] \in Word /\ registers[T(1)] \in Word /\ registers[T(3)] \in Word
    BY <2>1 DEF S0, S1, T, Reg
  <2>3. CASE pc = 0
    <3>1. RTypeAt(pc, "ADD", T(0), S0, 0)
      BY <2>1, <2>3 DEF Euclid, OperandsAt
    <3>2. Goes(pc + 1, [registers EXCEPT ![T(0)] = Add(registers[S0], registers[0])], memory)
      BY <1>2, <3>1, DoesAdd
    <3>3. Add(registers[S0], registers[0]) = registers[S0]
      BY <2>1, <2>2, SmallWrap
    <3> QED BY <2>1, <2>3, <3>2, <3>3, TextStays DEF EuclidInv, Goes, T, S0, Reg
  <2>4. CASE pc = 1
    <3>1. RTypeAt(pc, "ADD", T(1), S1, 0) /\ registers[T(0)] = registers[S0]
      BY <1>2, <2>1, <2>4 DEF Euclid, OperandsAt, EuclidInv
    <3>2. Goes(pc + 1, [registers EXCEPT ![T(1)] = Add(registers[S1], registers[0])], memory)
      BY <1>2, <3>1, DoesAdd
    <3>3. Add(registers[S1], registers[0]) = registers[S1]
      BY <2>1, <2>2, SmallWrap
    <3> QED BY <2>1, <2>4, <3>1, <3>2, <3>3, TextStays
              DEF EuclidInv, Common, Goes, T, S0, S1, Reg
  <2>5. CASE pc = 2
    <3>1. /\ ITypeAt(pc, "BEQ", T(1), 0, 5)
          /\ Common(registers[T(0)], registers[T(1)])
      BY <1>2, <2>1, <2>5 DEF Euclid, EuclidInv
    <3>2. 5 \in Nat /\ 5 \in Word /\ pc + 1 + 5 \in Word
      BY <2>5, SmallWords
    <3>3. Goes(IF registers[0] = registers[T(1)] THEN pc + 1 + 5 ELSE pc + 1, registers, memory)
      BY <1>2, <3>1, <3>2, DoesBeq
    <3> QED BY <2>1, <2>5, <3>1, <3>3, TextStays DEF EuclidInv, Common, Goes
  <2>6. CASE pc = 3
    <3>1. /\ RTypeAt(pc, "DIV", T(2), T(0), T(1)) /\ registers[T(1)] # 0
          /\ Common(registers[T(0)], registers[T(1)])
      BY <1>2, <2>1, <2>6 DEF Euclid, EuclidInv
    <3>2. \E v : Goes(pc + 1, [registers EXCEPT ![T(2)] = v], memory)
      BY <1>2, <3>1, DoesDiv
    <3>3. special'.HI = registers[T(0)] % registers[T(1)]
      BY <1>2, <3>1, DoesDiv
    <3>4. PICK v : Goes(pc + 1, [registers EXCEPT ![T(2)] = v], memory)
      BY <3>2
    <3> QED BY <2>1, <2>6, <3>1, <3>3, <3>4, TextStays
              DEF EuclidInv, Common, Goes, T, S0, S1, Reg
  <2>7. CASE pc = 4
    <3>1. /\ RTypeAt(pc, "MFHI", T(3), 0, 0) /\ registers[T(1)] # 0
          /\ Common(registers[T(0)], registers[T(1)])
          /\ special.HI = registers[T(0)] % registers[T(1)]
      BY <1>2, <2>1, <2>7 DEF Euclid, EuclidInv
    <3>2. Goes(pc + 1, [registers EXCEPT ![T(3)] = special.HI], memory)
      BY <1>2, <3>1, DoesMfhi
    <3>3. Common(registers[T(1)], special.HI)
      <4>1. registers[T(0)] \in Nat /\ registers[T(1)] \in Nat \ {0}
        BY <2>2, <3>1, WordFacts DEF Word
      <4>2. \A d \in Nat \ {0} :
              Divides(d, registers[T(1)]) /\ Divides(d, registers[T(0)] % registers[T(1)])
                <=> Divides(d, registers[T(0)]) /\ Divides(d, registers[T(1)])
        BY <4>1, RemainderDivides
      <4>3. \A m \in Nat, n \in Nat \ {0} : n + (m % n) > 0
        OBVIOUS
      <4> QED BY <3>1, <4>1, <4>2, <4>3 DEF Common
    <3> QED BY <2>1, <2>7, <3>2, <3>3, TextStays DEF EuclidInv, Common, Goes, T, S0, S1, Reg
  <2>8. CASE pc = 5
    <3>1. RTypeAt(pc, "ADD", T(0), T(1), 0) /\ Common(registers[T(1)], registers[T(3)])
      BY <1>2, <2>1, <2>8 DEF Euclid, EuclidInv
    <3>2. Goes(pc + 1, [registers EXCEPT ![T(0)] = Add(registers[T(1)], registers[0])], memory)
      BY <1>2, <3>1, DoesAdd
    <3>3. Add(registers[T(1)], registers[0]) = registers[T(1)]
      BY <2>1, <2>2, SmallWrap
    <3> QED BY <2>1, <2>8, <3>1, <3>2, <3>3, TextStays
              DEF EuclidInv, Common, Goes, T, S0, S1, Reg
  <2>9. CASE pc = 6
    <3>1. RTypeAt(pc, "ADD", T(1), T(3), 0) /\ Common(registers[T(0)], registers[T(3)])
      BY <1>2, <2>1, <2>9 DEF Euclid, EuclidInv
    <3>2. Goes(pc + 1, [registers EXCEPT ![T(1)] = Add(registers[T(3)], registers[0])], memory)
      BY <1>2, <3>1, DoesAdd
    <3>3. Add(registers[T(3)], registers[0]) = registers[T(3)]
      BY <2>1, <2>2, SmallWrap
    <3> QED BY <2>1, <2>9, <3>1, <3>2, <3>3, TextStays
              DEF EuclidInv, Common, Goes, T, S0, S1, Reg
  <2>10. CASE pc = 7
    <3>1. JTypeAt(pc, "J", 2) /\ Common(registers[T(0)], registers[T(1)])
      BY <1>2, <2>1, <2>10 DEF Euclid, EuclidInv
    <3>2. 2 \in Word /\ pc + 1 < Region
      BY <2>10, SmallWords, RegionAssumption DEF RoomForJumps
    <3>3. Goes(2, registers, memory)
      BY <1>2, <3>1, <3>2, DoesJ
    <3> QED BY <2>1, <3>1, <3>3, TextStays DEF EuclidInv, Common, Goes
  <2>11. CASE pc = 8
    <3>1. ITypeAt(pc, "LI", V0, 0, EXIT) /\ Common(registers[T(0)], 0)
      BY <1>2, <2>1, <2>11 DEF Euclid, ExitAt, EuclidInv
    <3>2. Goes(pc + 1, [registers EXCEPT ![V0] = EXIT], memory)
      BY <1>2, <3>1, DoesLi, ExitWord
    <3> QED BY <2>1, <2>11, <3>1, <3>2, TextStays DEF EuclidInv, Common, Goes, T, S0, S1, V0, Reg
  <2>12. CASE pc = 9
    <3>1. /\ Fields[memory[pc]].op = "SYSCALL" /\ registers[V0] = EXIT
          /\ Common(registers[T(0)], 0)
      BY <1>2, <2>1, <2>12 DEF Euclid, ExitAt, EuclidInv
    <3>2. status' = "halted" /\ registers' = registers /\ memory' = memory
      BY <1>2, <3>1, DoesExit
    <3> QED BY <2>1, <3>1, <3>2, TextStays DEF EuclidInv, Common
  <2> QED BY <1>2, <2>3, <2>4, <2>5, <2>6, <2>7, <2>8, <2>9, <2>10, <2>11, <2>12 DEF EuclidInv
<1> QED BY <1>0, <1>1, <1>2

(* Where Euclid's algorithm ends, the common divisors are the divisors of  *)
(* one number.                                                             *)
LEMMA GcdFound == TypeOK /\ EuclidInv => GcdComputed
<1> SUFFICES ASSUME TypeOK, EuclidInv, status = "halted", Euclid,
                    registers[S0] + registers[S1] > 0
             PROVE  IsGcd(registers[T(0)], registers[S0], registers[S1])
  BY DEF GcdComputed
<1>1. PICK g \in Word : g = registers[T(0)]
  BY DEF TypeOK, Registers, T, Reg
<1>2. Common(g, 0)
  BY <1>1 DEF EuclidInv
<1>3. g \in Nat \ {0}
  BY <1>2, WordFacts DEF Common, Word
<1>4. Divides(g, registers[S0]) /\ Divides(g, registers[S1])
  <2>1. \A n \in Nat \ {0} : n % n = 0 /\ 0 % n = 0
    OBVIOUS
  <2> QED BY <1>2, <1>3, <2>1 DEF Common, Divides
<1>5. ASSUME NEW e \in 1 .. registers[S0] + registers[S1],
             Divides(e, registers[S0]), Divides(e, registers[S1])
      PROVE  e <= g
  <2>1. registers[S0] \in Word /\ registers[S1] \in Word
    BY DEF TypeOK, Registers, S0, S1, Reg
  <2>2. e \in Nat \ {0}
    BY <2>1, WordFacts DEF Word
  <2>3. Divides(e, g)
    BY <1>2, <1>5, <2>2 DEF Common
  <2>4. \A m, n \in Nat \ {0} : m < n => m % n = m
    OBVIOUS
  <2> QED BY <1>3, <2>2, <2>3, <2>4 DEF Divides
<1> QED BY <1>1, <1>3, <1>4, <1>5 DEF IsGcd

(* div leaves the remainder in HI, beq counts words and j stays in its     *)
(* region: Euclid's algorithm computes a greatest common divisor.          *)
THEOREM EuclidComputesGcd == OperandsOnly /\ RoomForJumps => (Spec /\ Euclid => []GcdComputed)
<1> SUFFICES ASSUME OperandsOnly, RoomForJumps PROVE Spec /\ Euclid => []GcdComputed
  OBVIOUS
<1>1. Init /\ Euclid => EuclidInv
  BY Started DEF Init, EuclidInv
<1>2. TypeOK /\ EuclidInv => GcdComputed
  BY GcdFound
<1>3. TypeOK /\ EuclidInv /\ [Next]_vars => EuclidInv'
  BY EuclidStep
<1> QED BY <1>1, <1>2, <1>3, InterpreterTyped, PTL DEF Spec
==============================================================================
