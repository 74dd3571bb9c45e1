-------------------------- MODULE ConformanceProofs --------------------------
(***************************************************************************)
(* Both engines leave the same registers and the same memory behind, for   *)
(* arithmetic programs of every length and words of every width.           *)
(***************************************************************************)
EXTENDS ArithmeticPrograms, OrderProofs

(***************************************************************************)
(* The history of the reference: t[k] are the registers before instruction *)
(* k, the call that ends the program is instruction `last', and what comes *)
(* before instruction 0 are the bubbles the pipeline starts with.          *)
(***************************************************************************)
IsProgram(code, last) ==
  /\ last \in Nat /\ last >= 1
  /\ \A k \in 0 .. last - 2 : k < MemSize => Ordinary(code[k])
  /\ last - 1 < MemSize => Exits(code[last - 1])
  /\ last < MemSize => code[last].op = "SYSCALL"

(* t is right up to instruction n *)
History(code, t, n) ==
  /\ t \in [Int -> Registers]
  /\ \A k \in Int : k < 0 => t[k] = t[0]
  /\ \A k \in 0 .. n - 1 : Apart(code, t[k]) /\ t[k + 1] = After(t[k], code[k])
  /\ \A k \in 0 .. n : t[k][0] = 0

(* what the pipeline needs of a complete history *)
Steady(i) == Alu(i) /\ ~SpTwice(i) /\ (Writes(i) = 0 => Nop(i))
Trace(code, t, last) ==
  /\ last \in Nat /\ last >= 1 /\ last < MemSize
  /\ code \in [Int -> Instruction] /\ t \in [Int -> Registers]
  /\ Exits(code[last - 1]) /\ code[last].op = "SYSCALL"
  /\ \A k \in Int : k < 0 => Nop(code[k]) /\ t[k] = t[0]
  /\ \A k \in Int : k <= last => t[k][0] = 0
  /\ \A k \in Int : k < last => Steady(code[k]) /\ t[k + 1] = After(t[k], code[k])
  /\ \A i, j, k \in Int : i < last /\ j < last /\ k < last =>
       \A r \in Reads(code[i]) : r # 0 => t[k][Writes(code[j])] # r

(***************************************************************************)
(* What the latches hold when the pipeline comes to a stage, pc counting   *)
(* the words fetched.                                                      *)
(***************************************************************************)
SignalsOf(i) == SetControlSignals(NoSignals, i.op)

(* ID/EX as decode() leaves it for i, the registers being regs *)
Held(i, regs) ==
  /\ id_ex.rs_reg = i.rs
  /\ IF i.op = "R_TYPE"
       THEN /\ id_ex.function_opcode = i.fn /\ id_ex.shamt = i.shamt
            /\ id_ex.rt_reg = i.rt /\ id_ex.rd = i.rd /\ id_ex.rd_reg = 0
       ELSE /\ id_ex.rd_reg = i.rt /\ id_ex.rd = regs[i.rt]
            /\ id_ex.immediate = SignExtend(i.imm)
Read(i, regs) == /\ id_ex.rs = regs[i.rs]
                 /\ i.op = "R_TYPE" => id_ex.rt = regs[i.rt]

(* EX/MEM and MEM/WB hold what i has come to; regs are those i was decoded with *)
ExMemIs(i, regs, after) ==
  /\ ex_mem.opcode = i.op
  /\ ex_mem.destination_register = Writes(i)
  /\ ex_mem.alu_result = after[Writes(i)]
  /\ ex_mem.rd = IF i.op = "R_TYPE" THEN i.rd ELSE regs[i.rt]
MemWbIs(i, after) ==
  /\ mem_wb.destination_register = Writes(i)
  /\ mem_wb.alu_result = after[Writes(i)]

RegistersAre(regs, s) == \A r \in s : registers[r] = regs[r]

(* from the decoding of the li before the call on *)
CallReady == id_ex.syscall_code \in {EXIT, EXIT_STATUS} /\ id_ex.rs_reg # SP

Quiet == /\ dont_write = 0 /\ control_unit.pc_src = 0
         /\ control_unit.data_hazard_mem_to_mem = 0

(* a register whose value WB() has to forward: the instruction m behind,   *)
(* in EX/MEM, does not write it                                            *)
DueFromWb(r, m) == r = 0 \/ r # Writes(m)
FromWb(way, old) == IF way = 10 THEN mem_wb.mem_data_copy1 ELSE old

AtWB(code, t, last) ==
  /\ pc <= last + 2
  /\ RegistersAre(t[pc - 4], IF pc <= last + 1 THEN Reg ELSE Visible)
  /\ Fields[if_id.instruction] = code[pc - 1]
  /\ id_ex.opcode = code[pc - 2].op
  /\ pc - 2 < last => Held(code[pc - 2], t[pc - 4]) /\ Read(code[pc - 2], t[pc - 4])
  /\ pc > last => CallReady
  /\ ExMemIs(code[pc - 3], t[pc - 5], t[pc - 2])
  /\ MemWbIs(code[pc - 4], t[pc - 3])
  /\ ex_mem.ctl = IF pc = 0 THEN NoSignals ELSE SignalsOf(code[pc - 2])
  /\ mem_wb.ctl = IF pc <= 1 THEN NoSignals ELSE SignalsOf(code[pc - 3])

AtMEM(code, t, last) ==
  /\ pc <= last + 2
  /\ RegistersAre(t[pc - 3], IF pc <= last + 1 THEN Reg ELSE Visible)
  /\ Fields[if_id.instruction] = code[pc - 1]
  /\ id_ex.opcode = code[pc - 2].op
  /\ pc - 2 < last =>
       LET i == code[pc - 2] IN
       /\ Held(i, t[pc - 4])
       /\ DueFromWb(i.rs, code[pc - 3]) =>
            FromWb(control_unit.forwardA, id_ex.rs) = t[pc - 3][i.rs]
       /\ i.op = "R_TYPE" /\ i.rs # i.rt /\ DueFromWb(i.rt, code[pc - 3]) =>
            FromWb(control_unit.forwardB, id_ex.rt) = t[pc - 3][i.rt]
  /\ {control_unit.forwardA, control_unit.forwardB} \subseteq {0, 10}
  /\ pc > last => CallReady
  /\ ExMemIs(code[pc - 3], t[pc - 5], t[pc - 2])
  /\ ex_mem.ctl = IF pc = 0 THEN NoSignals ELSE SignalsOf(code[pc - 2])
  /\ mem_wb.ctl.mem_read = 0 /\ mem_wb.ctl.mem_write = 0

AtEX(code, t, last) ==
  /\ pc <= last + 2
  /\ RegistersAre(t[pc - 3], IF pc <= last + 1 THEN Reg ELSE Visible)
  /\ Fields[if_id.instruction] = code[pc - 1]
  /\ id_ex.opcode = code[pc - 2].op
  /\ pc - 2 < last =>
       LET i == code[pc - 2] IN
       /\ Held(i, t[pc - 4])
       /\ Operands.rs = t[pc - 2][i.rs]
       /\ i.op = "R_TYPE" => Operands.rt = t[pc - 2][i.rt]
  /\ pc > last => CallReady
  /\ MemWbIs(code[pc - 3], t[pc - 2])
  /\ ex_mem.ctl = IF pc = 0 THEN NoSignals ELSE SignalsOf(code[pc - 2])

AtID(code, t, last) ==
  /\ pc <= last + 1
  /\ RegistersAre(t[pc - 3], Reg)
  /\ Fields[if_id.instruction] = code[pc - 1]
  /\ pc > last => CallReady
  /\ ExMemIs(code[pc - 2], t[pc - 4], t[pc - 1])
  /\ MemWbIs(code[pc - 3], t[pc - 2])
  /\ mem_wb.ctl = IF pc = 0 THEN NoSignals ELSE SignalsOf(code[pc - 2])

AtIF(code, t, last) ==
  /\ pc <= last + 1
  /\ RegistersAre(t[pc - 3], IF pc <= last THEN Reg ELSE Visible)
  /\ id_ex.opcode = code[pc - 1].op
  /\ pc - 1 < last => Held(code[pc - 1], t[pc - 3]) /\ Read(code[pc - 1], t[pc - 3])
  /\ pc >= last => CallReady
  /\ ExMemIs(code[pc - 2], t[pc - 4], t[pc - 1])
  /\ MemWbIs(code[pc - 3], t[pc - 2])
  /\ ex_mem.ctl = SignalsOf(code[pc - 1])
  /\ mem_wb.ctl = IF pc = 0 THEN NoSignals ELSE SignalsOf(code[pc - 2])

InHistory(code, t, last) ==
  /\ Quiet
  /\ stage = "WB"  => AtWB(code, t, last)
  /\ stage = "MEM" => AtMEM(code, t, last)
  /\ stage = "EX"  => AtEX(code, t, last)
  /\ stage = "ID"  => AtID(code, t, last)
  /\ stage = "IF"  => AtIF(code, t, last)

AtStart == /\ stage = "WB" /\ status = "running" /\ pc = 0 /\ dont_write = 0
           /\ if_id = IfIdReset /\ id_ex = IdExReset
           /\ ex_mem = ExMemReset /\ mem_wb = MemWbReset
           /\ control_unit = ControlUnitInit

(* the reference is on its way, and the pipeline has not begun *)
Referring ==
  /\ memory = ref_memory /\ AtStart
  /\ \E last \in Nat, t \in [Int -> Registers] :
       /\ IsProgram(Code, last) /\ History(Code, t, ref_pc)
       /\ ref_pc \in 0 .. last /\ ref_registers = t[ref_pc] /\ registers = t[0]

(* the reference has come to its end, and the pipeline follows *)
Following ==
  /\ memory = ref_memory
  /\ \E last \in Nat, t \in [Int -> Registers] :
       /\ Trace(Code, t, last)
       /\ ref_registers = t[last]
       /\ status = "running" => InHistory(Code, t, last)
       /\ status = "halted" => RegistersAre(t[last], Visible)

ConformanceInv ==
  /\ ref_status = "running" => Referring
  /\ ref_status = "halted" => Following

(***************************************************************************)
(* Instructions                                                            *)
(***************************************************************************)
(* The fields of an instruction, each of its type. *)
LEMMA FieldFacts ==
  ASSUME NEW i \in Instruction
  PROVE  /\ i.rs \in Reg /\ i.rt \in Reg /\ i.rd \in Reg /\ i.shamt \in 0 .. 63
         /\ i.op \in Opcodes /\ Writes(i) \in Reg /\ SignExtend(i.imm) \in Word
BY SignExtendInWord DEF Instruction, Writes

(* The signals of an instruction with a result ask for nothing but the write. *)
LEMMA AluSignals ==
  ASSUME NEW i, Alu(i)
  PROVE  /\ SignalsOf(i).reg_write = 1 /\ SignalsOf(i).mem_to_reg = 0
         /\ SignalsOf(i).mem_read = 0 /\ SignalsOf(i).mem_write = 0
         /\ SignalsOf(i).alu_op = 10 <=> i.op = "R_TYPE"
<1>1. CASE i.op = "R_TYPE"
  BY <1>1 DEF SignalsOf, SetControlSignals, NoSignals, AluImm, Branches, Stores, Loads
<1>2. CASE i.op = "ADDI"
  BY <1>2 DEF SignalsOf, SetControlSignals, NoSignals, AluImm, Branches, Stores, Loads
<1>3. CASE i.op \in AluImm \ {"ADDI"}
  BY <1>3 DEF SignalsOf, SetControlSignals, NoSignals, AluImm, Branches, Stores, Loads
<1> QED BY <1>1, <1>2, <1>3 DEF Alu

(* A system call has no signals. *)
LEMMA CallSignals == ASSUME NEW i, i.op = "SYSCALL" PROVE SignalsOf(i) = NoSignals
BY DEF SignalsOf, SetControlSignals, AluImm, Branches, Stores, Loads

(* An instruction with a result is no load, store or call. *)
LEMMA AluOpcodes ==
  ASSUME NEW i, Alu(i)
  PROVE  i.op \in {"R_TYPE"} \cup AluImm /\ i.op \notin Loads \cup Stores \cup {"SYSCALL"}
BY DEF Alu, AluImm, Loads, Stores

(* An instruction with a result changes its register and no other. *)
LEMMA AfterFacts ==
  ASSUME NEW i \in Instruction, Alu(i), NEW regs \in Registers
  PROVE  /\ After(regs, i) \in Registers
         /\ After(regs, i)[Writes(i)] = Result(i, regs)
         /\ \A r \in Reg : r # Writes(i) => After(regs, i)[r] = regs[r]
<1>1. /\ i.rs \in Reg /\ i.rt \in Reg /\ i.shamt \in 0 .. 63 /\ Writes(i) \in Reg
      /\ SignExtend(i.imm) \in Word
  BY FieldFacts
<1>2. regs[i.rs] \in Word /\ regs[i.rt] \in Word
  BY <1>1 DEF Registers
<1>3. CASE i.op = "R_TYPE"
  <2>1. i.fn \in Computed
    BY <1>3 DEF Alu, AluImm
  <2>2. Result(i, regs) \in Word
    BY <1>1, <1>2, <1>3, <2>1, ResultsInWord DEF Result
  <2> QED BY <1>1, <2>2 DEF After, Registers
<1>4. CASE i.op # "R_TYPE"
  <2>1. i.op \in AluImm
    BY <1>4 DEF Alu
  <2>2. 0 \in 0 .. 63
    OBVIOUS
  <2>3. Result(i, regs) \in Word
    BY <1>1, <1>2, <1>4, <2>1, <2>2, ResultsInWord DEF Result
  <2> QED BY <1>1, <2>3 DEF After, Registers
<1> QED BY <1>3, <1>4

(* SLL $zero, $zero, 0 computes zero. *)
LEMMA NopResult ==
  ASSUME NEW i, Nop(i), NEW regs, regs[0] = 0
  PROVE  Alu(i) /\ Writes(i) = 0 /\ Result(i, regs) = 0 /\ ~SpTwice(i)
<1>1. Alu(i) /\ Writes(i) = 0 /\ ~SpTwice(i)
  BY DEF Nop, Alu, Computed, Functions, Writes, SpTwice
<1>2. Result(i, regs) = ShiftLeft(0, 0)
  BY DEF Nop, Result, RegisterResult
<1>3. Pow2(0 % WordBits) \in Nat \ {0} /\ WordSize \in Nat \ {0}
  BY Pow2Int, WordFacts
<1>4. ShiftLeft(0, 0) = 0
  <2>1. \A p \in Nat : 0 * p = 0
    OBVIOUS
  <2>2. \A m \in Nat \ {0} : 0 % m = 0
    OBVIOUS
  <2> QED BY <1>3, <2>1, <2>2 DEF ShiftLeft, Wrap
<1> QED BY <1>1, <1>2, <1>4

(* The text is made of instructions. *)
LEMMA CodeTyped == ASSUME memory \in Memory PROVE Code \in [Int -> Instruction]
BY FieldsAssumption, WordFacts DEF Code, Memory

(***************************************************************************)
(* Histories                                                               *)
(***************************************************************************)
(* A complete history has all the pipeline needs. *)
LEMMA HistoryIsTrace ==
  ASSUME NEW code \in [Int -> Instruction], NEW t \in [Int -> Registers],
         NEW last \in Nat, last < MemSize,
         \A k \in Int : k < 0 => Nop(code[k]),
         IsProgram(code, last), History(code, t, last)
  PROVE  Trace(code, t, last)
<1>1. last >= 1 /\ Exits(code[last - 1]) /\ code[last].op = "SYSCALL"
  BY MemoryAssumption DEF IsProgram
<1>2. \A k \in Int : k < 0 => Nop(code[k]) /\ t[k] = t[0]
  BY DEF History
<1>3. \A k \in Int : k <= last => t[k][0] = 0
  BY <1>2 DEF History
<1>4. \A k \in 0 .. last - 1 : Alu(code[k]) /\ ~SpTwice(code[k]) /\ Writes(code[k]) # 0
  <2> SUFFICES ASSUME NEW k \in 0 .. last - 1
               PROVE  Alu(code[k]) /\ ~SpTwice(code[k]) /\ Writes(code[k]) # 0
    OBVIOUS
  <2>1. CASE k = last - 1
    BY <1>1, <2>1 DEF Exits, Alu, AluImm, SpTwice, Writes, V0
  <2>2. CASE k # last - 1
    <3>1. k \in 0 .. last - 2 /\ k < MemSize
      BY <2>2, MemoryAssumption
    <3> QED BY <3>1 DEF IsProgram, Ordinary
  <2> QED BY <2>1, <2>2
<1>5. \A k \in Int : k < last => Steady(code[k]) /\ t[k + 1] = After(t[k], code[k])
  <2> SUFFICES ASSUME NEW k \in Int, k < last
               PROVE  Steady(code[k]) /\ t[k + 1] = After(t[k], code[k])
    OBVIOUS
  <2>1. CASE k >= 0
    <3>1. k \in 0 .. last - 1
      BY <2>1
    <3> QED BY <1>4, <3>1 DEF History, Steady
  <2>2. CASE k < 0
    <3>1. Nop(code[k]) /\ t[k] = t[0] /\ t[k][0] = 0 /\ t[k] \in Registers
      BY <1>2, <1>3, <2>2
    <3>2. Alu(code[k]) /\ Writes(code[k]) = 0 /\ Result(code[k], t[k]) = 0 /\ ~SpTwice(code[k])
      BY <3>1, NopResult
    <3>3. After(t[k], code[k]) = t[k]
      BY <3>1, <3>2 DEF After, Registers
    <3>4. t[k + 1] = t[0]
      BY <1>2, <2>2
    <3> QED BY <3>1, <3>2, <3>3, <3>4 DEF Steady
  <2> QED BY <2>1, <2>2
<1>6. ASSUME NEW i \in Int, NEW j \in Int, NEW k \in Int, i < last, j < last, k < last,
             NEW r \in Reads(code[i]), r # 0
      PROVE  t[k][Writes(code[j])] # r
  <2>1. CASE Writes(code[j]) = 0
    BY <1>3, <1>6, <2>1
  <2>2. CASE Writes(code[j]) # 0
    <3>1. i >= 0
      BY <1>2, <1>6 DEF Nop, Reads
    <3>2. j >= 0
      BY <1>2, <1>6, <2>2, <1>3, NopResult
    <3>3. i \in Address /\ j \in Address
      BY <1>6, <3>1, <3>2, MemoryAssumption DEF Address
    <3>4. r \in Names(code) /\ Writes(code[j]) \in Names(code)
      BY <1>6, <2>2, <3>3 DEF Names
    <3>5. \E n \in 0 .. last - 1 : t[k] = t[n]
      <4>1. CASE k >= 0
        BY <1>6, <4>1
      <4>2. CASE k < 0
        BY <1>1, <1>2, <4>2
      <4> QED BY <4>1, <4>2
    <3> QED BY <3>4, <3>5 DEF History, Apart
  <2> QED BY <2>1, <2>2
<1> QED BY <1>1, <1>2, <1>3, <1>5, <1>6 DEF Trace

(* What an instruction before the call makes of the registers. *)
LEMMA TraceStep ==
  ASSUME NEW code, NEW t, NEW last, Trace(code, t, last), NEW k \in Int, k < last
  PROVE  /\ code[k] \in Instruction /\ t[k] \in Registers /\ t[k + 1] \in Registers
         /\ Alu(code[k]) /\ ~SpTwice(code[k]) /\ (Writes(code[k]) = 0 => Nop(code[k]))
         /\ t[k][0] = 0 /\ t[k + 1][0] = 0
         /\ Writes(code[k]) \in Reg
         /\ t[k + 1][Writes(code[k])] = Result(code[k], t[k])
         /\ \A r \in Reg : r # Writes(code[k]) => t[k + 1][r] = t[k][r]
<1>1. /\ code[k] \in Instruction /\ t[k] \in Registers /\ t[k + 1] \in Registers
      /\ Steady(code[k]) /\ t[k + 1] = After(t[k], code[k])
      /\ t[k][0] = 0 /\ t[k + 1][0] = 0
  BY DEF Trace
<1> QED BY <1>1, FieldFacts, AfterFacts DEF Steady

(***************************************************************************)
(* The stages                                                              *)
(***************************************************************************)
(* The counter is a number of words fetched. *)
LEMMA PcFacts == ASSUME IInv PROVE pc \in Nat /\ pc < WordSize
BY WordFacts DEF IInv, TypeOK, Word

(* The instruction in MEM/WB, or a bubble, writes back what the history    *)
(* says, under the signals of the instruction behind it.                   *)
LEMMA WBWrites ==
  ASSUME NEW code, NEW t, NEW last, Trace(code, t, last), IInv, Quiet,
         AtWB(code, t, last), WB
  PROVE  /\ RegWrite = (IF pc <= 1 THEN 0 ELSE 1)
         /\ mem_wb.ctl.mem_read = 0 /\ mem_wb.ctl.mem_write = 0
         /\ \A r \in Reg : registers[r] = t[pc - 4][r] => registers'[r] = t[pc - 3][r]
<1> DEFINE m == code[pc - 3]
           w == code[pc - 4]
<1>1. /\ pc \in Nat /\ last \in Nat /\ pc <= last + 2
      /\ pc - 3 \in Int /\ pc - 3 < last /\ pc - 4 \in Int /\ pc - 4 < last
      /\ (pc - 4) + 1 = pc - 3
  BY PcFacts DEF AtWB, Trace
<1>2. Alu(m)
  BY <1>1, TraceStep
<1>3. /\ Writes(w) \in Reg /\ (Writes(w) = 0 => Nop(w))
      /\ t[pc - 4] \in Registers /\ t[pc - 4][0] = 0 /\ t[pc - 3][0] = 0
      /\ \A r \in Reg : r # Writes(w) => t[pc - 3][r] = t[pc - 4][r]
  BY <1>1, TraceStep
<1>4. /\ mem_wb.destination_register = Writes(w)
      /\ mem_wb.alu_result = t[pc - 3][Writes(w)]
      /\ mem_wb.ctl = IF pc <= 1 THEN NoSignals ELSE SignalsOf(m)
  BY DEF AtWB, MemWbIs
<1>5. RegWrite = mem_wb.ctl.reg_write
  BY DEF RegWrite, IInv, HazardUnitIdle
<1>6. /\ RegWrite = (IF pc <= 1 THEN 0 ELSE 1)
      /\ mem_wb.ctl.mem_read = 0 /\ mem_wb.ctl.mem_write = 0 /\ mem_wb.ctl.mem_to_reg = 0
  BY <1>2, <1>4, <1>5, AluSignals DEF NoSignals
<1>7. registers' = [registers EXCEPT ![Writes(w)] = WrittenBack] /\ registers \in Registers
  BY <1>3, <1>4 DEF WB, Written, IInv, TypeOK
<1>8. CASE pc <= 1
  <2>1. t[pc - 3] = t[pc - 4]
    BY <1>1, <1>8 DEF Trace
  <2>2. WrittenBack = registers[Writes(w)]
    BY <1>4, <1>6, <1>8 DEF WrittenBack
  <2> QED BY <1>3, <1>6, <1>7, <2>1, <2>2 DEF Registers
<1>9. CASE ~(pc <= 1)
  <2>1. WrittenBack = t[pc - 3][Writes(w)]
    BY <1>4, <1>6, <1>9 DEF WrittenBack, Quiet
  <2> QED BY <1>3, <1>6, <1>7, <2>1 DEF Registers
<1> QED BY <1>8, <1>9

(* A forwarding that WB() owes is made, and one that it makes is right. *)
LEMMA WBForwards ==
  ASSUME NEW code, NEW t, NEW last, Trace(code, t, last), IInv, Quiet,
         AtWB(code, t, last), WB, pc - 2 < last,
         NEW r \in Reads(code[pc - 2]),
         NEW forwards \in BOOLEAN,
         forwards => WbHits(r),
         WbHits(r) /\ ex_mem.rd # r => forwards
  PROVE  /\ forwards => mem_wb.alu_result = t[pc - 3][r]
         /\ ~forwards /\ DueFromWb(r, code[pc - 3]) => t[pc - 4][r] = t[pc - 3][r]
<1> DEFINE i == code[pc - 2]
           m == code[pc - 3]
           w == code[pc - 4]
<1>1. /\ pc \in Nat /\ last \in Nat
      /\ pc - 2 \in Int /\ pc - 2 < last /\ pc - 3 \in Int /\ pc - 3 < last
      /\ pc - 4 \in Int /\ pc - 4 < last /\ (pc - 4) + 1 = pc - 3
      /\ pc - 5 \in Int /\ pc - 5 < last
  BY PcFacts DEF Trace
<1>2. /\ Writes(w) \in Reg
      /\ t[pc - 4][0] = 0 /\ t[pc - 3][0] = 0
      /\ \A q \in Reg : q # Writes(w) => t[pc - 3][q] = t[pc - 4][q]
  BY <1>1, TraceStep
<1>3. /\ mem_wb.destination_register = Writes(w)
      /\ mem_wb.alu_result = t[pc - 3][Writes(w)]
      /\ ex_mem.rd = IF m.op = "R_TYPE" THEN m.rd ELSE t[pc - 5][m.rt]
  BY DEF AtWB, MemWbIs, ExMemIs
<1>4. r \in Reg
  <2>1. i \in Instruction
    BY <1>1, TraceStep
  <2> QED BY <2>1, FieldFacts DEF Reads
<1>5. ASSUME forwards PROVE mem_wb.alu_result = t[pc - 3][r]
  BY <1>3, <1>5 DEF WbHits
<1>6. ASSUME ~forwards, DueFromWb(r, m) PROVE t[pc - 4][r] = t[pc - 3][r]
  <2>1. CASE r # Writes(w) \/ r = 0
    BY <1>2, <1>4, <2>1
  <2>2. CASE pc <= 1
    BY <1>1, <2>2 DEF Trace
  <2>3. CASE r = Writes(w) /\ r # 0 /\ ~(pc <= 1)
    <3>1. WbHits(r)
      BY <1>3, <2>3, WBWrites DEF WbHits
    <3>2. r # Writes(m)
      BY <1>6, <2>3 DEF DueFromWb
    <3>3. t[pc - 5][Writes(m)] # r
      BY <1>1, <2>3 DEF Trace
    <3>4. ex_mem.rd # r
      BY <1>3, <3>2, <3>3 DEF Writes
    <3> QED BY <1>6, <3>1, <3>4
  <2> QED BY <2>1, <2>2, <2>3
<1> QED BY <1>5, <1>6

(* write_back() passes from what the history says of WB to what it says of MEM. *)
LEMMA WBFollows ==
  ASSUME NEW code, NEW t, NEW last, Trace(code, t, last), IInv, Quiet,
         AtWB(code, t, last), WB
  PROVE  stage' = "MEM" /\ Quiet' /\ AtMEM(code, t, last)'
<1> DEFINE i == code[pc - 2]
           m == code[pc - 3]
<1>1. /\ stage = "WB" /\ stage' = "MEM" /\ dont_write' = dont_write
      /\ pc' = pc /\ if_id' = if_id /\ id_ex' = id_ex /\ ex_mem' = ex_mem
  BY DEF WB
<1>2. ~StallResolved
  BY DEF IInv, HazardUnitIdle, StallResolved
<1>3. ~StoreForwardsA
  BY WBWrites DEF StoreForwardsA
<1>4. control_unit.forwardA = 0 /\ control_unit.forwardB = 0
  BY <1>1 DEF IInv, ForwardingConsumed
<1>5. /\ control_unit' = [control_unit EXCEPT !.forwardA = IF WbForwardsA THEN 10 ELSE 0,
                                              !.forwardB = IF WbForwardsB THEN 10 ELSE 0]
      /\ control_unit \in ControlUnitSet
  BY <1>2, <1>3, <1>4 DEF WB, IInv, TypeOK, ControlUnitSet
<1>6. /\ control_unit'.pc_src = control_unit.pc_src
      /\ control_unit'.data_hazard_mem_to_mem = control_unit.data_hazard_mem_to_mem
      /\ control_unit'.forwardA = IF WbForwardsA THEN 10 ELSE 0
      /\ control_unit'.forwardB = IF WbForwardsB THEN 10 ELSE 0
  BY <1>5 DEF ControlUnitSet
<1>7. /\ mem_wb'.ctl.mem_read = 0 /\ mem_wb'.ctl.mem_write = 0
      /\ WbForwardsA \/ WbForwardsB => mem_wb'.mem_data_copy1 = mem_wb.alu_result
  BY WBWrites DEF WB, IInv, TypeOK, MemWbSet, Signals
<1>8. \A s \in {Reg, Visible} : RegistersAre(t[pc - 4], s) => RegistersAre(t[pc - 3], s)'
  BY <1>1, WBWrites DEF RegistersAre, Visible
<1>9. ASSUME pc - 2 < last
      PROVE  /\ DueFromWb(i.rs, m) =>
                  FromWb(control_unit.forwardA, id_ex.rs)' = t[pc - 3][i.rs]
             /\ i.op = "R_TYPE" /\ i.rs # i.rt /\ DueFromWb(i.rt, m) =>
                  FromWb(control_unit.forwardB, id_ex.rt)' = t[pc - 3][i.rt]
  <2>1. /\ id_ex.rs_reg = i.rs /\ id_ex.rs = t[pc - 4][i.rs]
        /\ i.op = "R_TYPE" => /\ id_ex.rt_reg = i.rt /\ id_ex.rd_reg = 0
                              /\ id_ex.rt = t[pc - 4][i.rt]
    BY <1>9 DEF AtWB, Held, Read
  <2>2. i.rs \in Reads(i) /\ (i.op = "R_TYPE" => i.rt \in Reads(i))
    BY DEF Reads
  <2>3. /\ WbForwardsA => WbHits(i.rs)
        /\ WbHits(i.rs) /\ ex_mem.rd # i.rs => WbForwardsA
    BY <2>1 DEF WbForwardsA, WbHitsRs, WbHitsRsToo
  <2>4. WbForwardsA \in BOOLEAN /\ WbForwardsB \in BOOLEAN
    BY DEF WbForwardsA, WbForwardsB, WbHitsRs, WbHitsRt, WbHitsRsToo, WbHitsRd, WbHits
  <2>5. /\ WbForwardsA => mem_wb.alu_result = t[pc - 3][i.rs]
        /\ ~WbForwardsA /\ DueFromWb(i.rs, m) => t[pc - 4][i.rs] = t[pc - 3][i.rs]
    BY <1>9, <2>2, <2>3, <2>4, WBForwards
  <2>6. DueFromWb(i.rs, m) => FromWb(control_unit.forwardA, id_ex.rs)' = t[pc - 3][i.rs]
    BY <1>1, <1>6, <1>7, <2>1, <2>5 DEF FromWb
  <2>7. ASSUME i.op = "R_TYPE", i.rs # i.rt, DueFromWb(i.rt, m)
        PROVE  FromWb(control_unit.forwardB, id_ex.rt)' = t[pc - 3][i.rt]
    <3>1. ~WbHits(0) /\ (WbHits(i.rt) => ~WbHits(i.rs))
      BY <2>7 DEF WbHits
    <3>2. /\ WbForwardsB => WbHits(i.rt)
          /\ WbHits(i.rt) /\ ex_mem.rd # i.rt => WbForwardsB
      BY <2>1, <2>7, <3>1 DEF WbForwardsB, WbHitsRs, WbHitsRt, WbHitsRsToo, WbHitsRd
    <3>3. /\ WbForwardsB => mem_wb.alu_result = t[pc - 3][i.rt]
          /\ ~WbForwardsB => t[pc - 4][i.rt] = t[pc - 3][i.rt]
      BY <1>9, <2>2, <2>4, <2>7, <3>2, WBForwards
    <3> QED BY <1>1, <1>6, <1>7, <2>1, <2>7, <3>3 DEF FromWb
  <2> QED BY <2>6, <2>7
<1>10. Quiet'
  BY <1>1, <1>6 DEF Quiet
<1>11. AtMEM(code, t, last)'
  <2>1. RegistersAre(t[pc - 3], IF pc <= last + 1 THEN Reg ELSE Visible)'
    BY <1>1, <1>8 DEF AtWB
  <2>2. ExMemIs(m, t[pc - 5], t[pc - 2])'
    BY <1>1 DEF AtWB, ExMemIs
  <2>3. pc - 2 < last => Held(i, t[pc - 4])'
    BY <1>1 DEF AtWB, Held
  <2>4. CallReady' <=> CallReady
    BY <1>1 DEF CallReady
  <2>5. {control_unit.forwardA, control_unit.forwardB}' \subseteq {0, 10}
    BY <1>6
  <2> QED BY <1>1, <1>7, <1>9, <2>1, <2>2, <2>3, <2>4, <2>5 DEF AtWB, AtMEM
<1> QED BY <1>1, <1>10, <1>11

(* No store follows a load or a lui: what mem() hands on to execute() is   *)
(* what it forwards.                                                       *)
LEMMA MemCopies ==
  ASSUME NEW code, NEW t, NEW last, Trace(code, t, last), IInv, Quiet,
         AtMEM(code, t, last)
  PROVE  /\ ~MemToMemHazard /\ DataHazard = 0
         /\ MemForwardsA \/ MemForwardsB => MemDataCopy = ex_mem.alu_result
<1> DEFINE m == code[pc - 3]
<1>1. /\ pc \in Nat /\ last \in Nat /\ pc <= last + 2
      /\ pc - 1 \in Int /\ pc - 2 \in Int /\ pc - 3 \in Int /\ pc - 3 < last
  BY PcFacts DEF AtMEM, Trace
<1>2. ex_mem.opcode = m.op /\ id_ex.opcode = code[pc - 2].op
      /\ Fields[if_id.instruction] = code[pc - 1]
  BY DEF AtMEM, ExMemIs
<1>3. m.op \notin Loads
  BY <1>1, TraceStep, AluOpcodes
<1>4. \A k \in Int : k <= last => code[k].op \notin Stores
  <2> SUFFICES ASSUME NEW k \in Int, k <= last PROVE code[k].op \notin Stores
    OBVIOUS
  <2>1. CASE k < last
    BY <2>1, TraceStep, AluOpcodes
  <2>2. CASE k = last
    BY <2>2 DEF Trace, Stores
  <2> QED BY <1>1, <2>1, <2>2
<1>5. m.op = "LUI" => pc - 3 < last - 1
  BY <1>1 DEF Trace, Exits
<1>6. ~MemToMemHazard
  BY <1>1, <1>2, <1>3, <1>4, <1>5 DEF MemToMemHazard
<1>7. DataHazard = 0
  BY <1>6 DEF DataHazard, Quiet
<1> QED BY <1>6, <1>7 DEF MemDataCopy

(* The forwarding of mem() completes what WB() has begun: r is read by the *)
(* instruction in ID/EX, fromWb what WB() and decode() have for it.        *)
LEMMA MemForwards ==
  ASSUME NEW code, NEW t, NEW last, Trace(code, t, last), IInv, Quiet,
         AtMEM(code, t, last), pc - 2 < last,
         NEW r \in Reads(code[pc - 2]), NEW fromWb,
         DueFromWb(r, code[pc - 3]) => fromWb = t[pc - 3][r]
  PROVE  /\ MemHits(r) => ex_mem.alu_result = t[pc - 2][r]
         /\ ~MemHits(r) => fromWb = t[pc - 2][r]
<1> DEFINE i == code[pc - 2]
           m == code[pc - 3]
<1>1. /\ pc \in Nat /\ last \in Nat /\ pc - 2 \in Int /\ pc - 2 < last
      /\ pc - 3 \in Int /\ pc - 3 < last /\ (pc - 3) + 1 = pc - 2
  BY PcFacts DEF Trace
<1>2. /\ Writes(m) \in Reg /\ (Writes(m) = 0 => Nop(m))
      /\ t[pc - 3][0] = 0 /\ t[pc - 2][0] = 0
      /\ \A q \in Reg : q # Writes(m) => t[pc - 2][q] = t[pc - 3][q]
  BY <1>1, TraceStep
<1>3. i \in Instruction /\ Alu(i)
  BY <1>1, TraceStep
<1>4. r \in Reg
  BY <1>3, FieldFacts DEF Reads
<1>5. /\ ex_mem.destination_register = Writes(m)
      /\ ex_mem.alu_result = t[pc - 2][Writes(m)]
      /\ ex_mem.ctl = IF pc = 0 THEN NoSignals ELSE SignalsOf(i)
  BY DEF AtMEM, ExMemIs
<1>6. ASSUME MemHits(r) PROVE ex_mem.alu_result = t[pc - 2][r]
  BY <1>5, <1>6 DEF MemHits
<1>7. ASSUME ~MemHits(r) PROVE fromWb = t[pc - 2][r]
  <2>1. r = 0 \/ r # Writes(m)
    <3>1. CASE pc = 0
      BY <1>1, <3>1, NopResult DEF Trace
    <3>2. CASE pc # 0
      BY <1>3, <1>5, <1>7, <3>2, AluSignals DEF MemHits
    <3> QED BY <3>1, <3>2
  <2> QED BY <1>2, <1>4, <2>1 DEF DueFromWb
<1> QED BY <1>6, <1>7

(* memory_access() passes from what the history says of MEM to what it says of EX. *)
LEMMA MemFollows ==
  ASSUME NEW code, NEW t, NEW last, Trace(code, t, last), IInv, Quiet,
         AtMEM(code, t, last), Mem
  PROVE  stage' = "EX" /\ memory' = memory /\ Quiet' /\ AtEX(code, t, last)'
<1> DEFINE i == code[pc - 2]
           m == code[pc - 3]
<1>1. /\ stage = "MEM" /\ stage' = "EX" /\ pc' = pc /\ if_id' = if_id /\ id_ex' = id_ex
      /\ ex_mem'.ctl = ex_mem.ctl
  BY MemMoves
<1>2. registers' = registers /\ memory' = memory
  BY DEF Mem, Storing, AtMEM
<1>3. ~MemToMemHazard /\ DataHazard = 0
  BY MemCopies
<1>4. dont_write' = dont_write
  BY <1>3 DEF Mem
<1>5. /\ control_unit'.pc_src = control_unit.pc_src
      /\ control_unit'.data_hazard_mem_to_mem = 0
      /\ control_unit'.forwardA = IF MemForwardsA THEN 1 ELSE control_unit.forwardA
      /\ control_unit'.forwardB = IF MemForwardsB THEN 1 ELSE control_unit.forwardB
  BY <1>3 DEF Mem, IInv, TypeOK, ControlUnitSet, MemForwardA
<1>6. /\ mem_wb'.destination_register = ex_mem.destination_register
      /\ mem_wb'.alu_result = ex_mem.alu_result
      /\ mem_wb'.mem_data_copy1 = mem_wb.mem_data_copy1
      /\ mem_wb'.mem_data_copy = MemDataCopy
  BY DEF Mem, IInv, TypeOK, MemWbSet
<1>7. MemForwardsA \/ MemForwardsB => mem_wb'.mem_data_copy = ex_mem.alu_result
  BY <1>6, MemCopies
<1>8. /\ control_unit.forwardA \in {0, 10} /\ control_unit.forwardB \in {0, 10}
      /\ \A old : \A way \in {0, 1, 10} :
           Forwarded(way, old)' = CASE way = 1  -> mem_wb'.mem_data_copy
                                    [] way = 10 -> mem_wb.mem_data_copy1
                                    [] OTHER    -> old'
  BY <1>6 DEF AtMEM, Forwarded
<1>9. id_ex \in IdExSet
  BY DEF IInv, TypeOK
<1>10. /\ Operands'.rs = Forwarded(control_unit.forwardA, id_ex.rs)'
       /\ id_ex.rs_reg = id_ex.rt_reg => Operands'.rt = Operands'.rs
       /\ id_ex.rs_reg # id_ex.rt_reg /\ id_ex.opcode # "SW" =>
            Operands'.rt = Forwarded(control_unit.forwardB, id_ex.rt)'
  BY <1>1, <1>9 DEF Operands, IdExSet
<1>11. ASSUME pc - 2 < last
       PROVE  Operands'.rs = t[pc - 2][i.rs] /\ (i.op = "R_TYPE" => Operands'.rt = t[pc - 2][i.rt])
  <2> DEFINE a == FromWb(control_unit.forwardA, id_ex.rs)
             b == FromWb(control_unit.forwardB, id_ex.rt)
  <2>1. /\ id_ex.rs_reg = i.rs /\ id_ex.opcode = i.op
        /\ i.op = "R_TYPE" => id_ex.rt_reg = i.rt /\ id_ex.rd_reg = 0
        /\ DueFromWb(i.rs, m) => a = t[pc - 3][i.rs]
        /\ i.op = "R_TYPE" /\ i.rs # i.rt /\ DueFromWb(i.rt, m) => b = t[pc - 3][i.rt]
    BY <1>11 DEF AtMEM, Held
  <2>2. i.rs \in Reads(i) /\ (i.op = "R_TYPE" => i.rt \in Reads(i))
    BY DEF Reads
  <2>3. /\ MemForwardsA => ex_mem.alu_result = t[pc - 2][i.rs]
        /\ ~MemForwardsA => a = t[pc - 2][i.rs]
    BY <1>11, <2>1, <2>2, MemForwards DEF MemForwardsA
  <2>4. Operands'.rs = t[pc - 2][i.rs]
    <3>1. CASE MemForwardsA
      BY <1>5, <1>7, <1>8, <1>10, <2>3, <3>1 DEF Forwarded
    <3>2. CASE ~MemForwardsA
      BY <1>1, <1>5, <1>6, <1>8, <1>10, <2>3, <3>2 DEF Forwarded, FromWb
    <3> QED BY <3>1, <3>2
  <2>5. ASSUME i.op = "R_TYPE" PROVE Operands'.rt = t[pc - 2][i.rt]
    <3>1. CASE i.rs = i.rt
      BY <1>10, <2>1, <2>4, <2>5, <3>1
    <3>2. CASE i.rs # i.rt
      <4>1. /\ MemHits(i.rt) => ex_mem.alu_result = t[pc - 2][i.rt]
            /\ ~MemHits(i.rt) => b = t[pc - 2][i.rt]
        BY <1>11, <2>1, <2>2, <2>5, <3>2, MemForwards
      <4>2. MemForwardsB <=> MemHits(i.rt)
        BY <2>1, <2>5, <3>2 DEF MemForwardsB, MemForwardsA, MemHits
      <4>3. Operands'.rt = Forwarded(control_unit.forwardB, id_ex.rt)'
        BY <1>10, <2>1, <2>5, <3>2
      <4>4. CASE MemForwardsB
        BY <1>5, <1>7, <1>8, <4>1, <4>2, <4>3, <4>4 DEF Forwarded
      <4>5. CASE ~MemForwardsB
        BY <1>1, <1>5, <1>6, <1>8, <4>1, <4>2, <4>3, <4>5 DEF Forwarded, FromWb
      <4> QED BY <4>4, <4>5
    <3> QED BY <3>1, <3>2
  <2> QED BY <2>4, <2>5
<1>12. Quiet'
  BY <1>4, <1>5 DEF Quiet
<1>13. AtEX(code, t, last)'
  <2>1. RegistersAre(t[pc - 3], IF pc <= last + 1 THEN Reg ELSE Visible)'
    BY <1>1, <1>2 DEF AtMEM, RegistersAre
  <2>2. MemWbIs(m, t[pc - 2])'
    BY <1>1, <1>6 DEF AtMEM, ExMemIs, MemWbIs
  <2>3. pc - 2 < last => Held(i, t[pc - 4])'
    BY <1>1 DEF AtMEM, Held
  <2>4. CallReady' <=> CallReady
    BY <1>1 DEF CallReady
  <2> QED BY <1>1, <1>11, <2>1, <2>2, <2>3, <2>4 DEF AtMEM, AtEX
<1> QED BY <1>1, <1>2, <1>12, <1>13

(* Before the call, the only case of execute() is one of the ALU's. *)
LEMMA ExecuteCase ==
  ASSUME NEW i \in Instruction, Alu(i), Execute, IInv, id_ex.opcode = i.op,
         i.op = "R_TYPE" => id_ex.function_opcode = i.fn
  PROVE  IF i.op = "R_TYPE" THEN ExecuteRegister ELSE ExecuteImmediate
<1>1. /\ Operands \in IdExSet /\ Operands.opcode = i.op
      /\ i.op = "R_TYPE" => Operands.function_opcode \in Computed
  <2>1. Operands.function_opcode = id_ex.function_opcode
    BY DEF Operands, IInv, TypeOK, IdExSet
  <2>2. i.op = "R_TYPE" => i.fn \in Computed
    BY DEF Alu, AluImm
  <2> QED BY <2>1, <2>2, OperandsTyped DEF IInv
<1>2. i.op \in {"R_TYPE"} \cup AluImm
  BY AluOpcodes
<1>3. ~ExecuteNoResult /\ ~ExecuteJalr
  BY <1>1, <1>2 DEF ExecuteNoResult, ExecuteJalr, IsFn, Computed, Functions, AluImm,
    Undefined, Misread
<1>4. ~ExecuteMemory /\ ~ExecuteJump /\ ~ExecuteBeq /\ ~ExecuteBranch /\ ~ExecuteSyscall
  BY <1>1, <1>2 DEF ExecuteMemory, ExecuteJump, ExecuteBeq, ExecuteBranch, ExecuteSyscall,
    AluImm, Loads, Stores, Branches
<1>5. ~ExecuteFault
  BY <1>1, <1>2 DEF ExecuteFault, IsFn, Computed, AluImm
<1>6. i.op = "R_TYPE" => ~ExecuteImmediate
  BY <1>1 DEF ExecuteImmediate, AluImm
<1>7. i.op # "R_TYPE" => ~ExecuteRegister
  BY <1>1 DEF ExecuteRegister, IsFn
<1> QED BY <1>3, <1>4, <1>5, <1>6, <1>7 DEF Execute

(* execute() computes what the reference computed and changes no register. *)
LEMMA ExecuteComputes ==
  ASSUME NEW code, NEW t, NEW last, Trace(code, t, last), IInv, Quiet,
         AtEX(code, t, last), pc - 2 < last, Execute
  PROVE  /\ stage' = "ID" /\ UNCHANGED <<status, pc, registers, memory, if_id, dont_write>>
         /\ control_unit'.pc_src = control_unit.pc_src
         /\ control_unit'.data_hazard_mem_to_mem = control_unit.data_hazard_mem_to_mem
         /\ id_ex'.syscall_code = id_ex.syscall_code /\ id_ex'.rs_reg = id_ex.rs_reg
         /\ ExMemIs(code[pc - 2], t[pc - 4], t[pc - 1])'
         /\ mem_wb' = [mem_wb EXCEPT !.ctl = ex_mem.ctl]
<1> DEFINE i == code[pc - 2]
           x == Operands
<1>1. /\ pc \in Nat /\ last \in Nat /\ pc - 2 \in Int /\ (pc - 2) + 1 = pc - 1
      /\ pc = 0 => pc - 2 < 0
  BY PcFacts DEF Trace
<1>2. /\ i \in Instruction /\ Alu(i) /\ ~SpTwice(i)
      /\ t[pc - 1][Writes(i)] = Result(i, t[pc - 2])
  BY <1>1, TraceStep
<1>3. id_ex.opcode = i.op /\ Held(i, t[pc - 4])
      /\ x.rs = t[pc - 2][i.rs] /\ (i.op = "R_TYPE" => x.rt = t[pc - 2][i.rt])
      /\ ex_mem.ctl = (IF pc = 0 THEN NoSignals ELSE SignalsOf(i))
  BY DEF AtEX
<1>4. /\ x.opcode = i.op /\ x.rs_reg = id_ex.rs_reg /\ x.rd_reg = id_ex.rd_reg
      /\ x.immediate = id_ex.immediate /\ x.shamt = id_ex.shamt
      /\ x.function_opcode = id_ex.function_opcode
      /\ x.syscall_code = id_ex.syscall_code
      /\ i.op # "SW" => x.rd = id_ex.rd
  BY <1>3 DEF Operands, IInv, TypeOK, IdExSet
<1>5. i.op # "SW"
  BY <1>2, AluOpcodes DEF Stores
<1>6. IF i.op = "R_TYPE" THEN ExecuteRegister ELSE ExecuteImmediate
  BY <1>2, <1>3, ExecuteCase DEF Held
<1>7. /\ Executing /\ Unchanged /\ UNCHANGED <<status, pc, memory>>
      /\ \E s, l : Latch(x, IF i.op = "R_TYPE"
                           THEN RegisterResult(x.function_opcode, x.rs, x.rt, x.shamt)
                           ELSE ImmediateResult(x.opcode, x.rs, x.immediate), s, l)
  <2>1. CASE i.op = "R_TYPE"
    BY <1>6, <2>1 DEF ExecuteRegister
  <2>2. CASE i.op # "R_TYPE"
    BY <1>6, <2>2 DEF ExecuteImmediate
  <2> QED BY <2>1, <2>2
<1>8. registers' = registers
  <2>1. CASE i.op = "R_TYPE"
    BY <1>6, <2>1 DEF ExecuteRegister
  <2>2. CASE i.op # "R_TYPE"
    BY <1>2, <1>3, <1>4, <1>6, <2>2 DEF ExecuteImmediate, AddToSp, SpTwice, Held
  <2> QED BY <2>1, <2>2
<1>9. (IF i.op = "R_TYPE" THEN RegisterResult(x.function_opcode, x.rs, x.rt, x.shamt)
                         ELSE ImmediateResult(x.opcode, x.rs, x.immediate))
        = t[pc - 1][Writes(i)]
  BY <1>2, <1>3, <1>4 DEF Result, Held
<1>10. DestinationRegister(x) = Writes(i)
  <2>1. CASE pc = 0
    <3>1. Nop(i)
      BY <1>1, <2>1 DEF Trace
    <3> QED BY <1>3, <1>4, <2>1, <3>1 DEF DestinationRegister, NoSignals, Nop, Writes, Held
  <2>2. CASE pc # 0
    BY <1>2, <1>3, <1>4, <2>2, AluSignals DEF DestinationRegister, Writes, Held
  <2> QED BY <2>1, <2>2
<1>11. /\ id_ex' = x
       /\ ex_mem'.opcode = i.op /\ ex_mem'.destination_register = Writes(i)
       /\ ex_mem'.alu_result = t[pc - 1][Writes(i)] /\ ex_mem'.rd = id_ex.rd
       /\ mem_wb' = [mem_wb EXCEPT !.ctl = ex_mem.ctl]
  BY <1>4, <1>5, <1>7, <1>9, <1>10 DEF Latch, IInv, TypeOK, ExMemSet
<1>12. ExMemIs(i, t[pc - 4], t[pc - 1])'
  BY <1>3, <1>7, <1>11 DEF ExMemIs, Held
<1>13. /\ control_unit'.pc_src = control_unit.pc_src
       /\ control_unit'.data_hazard_mem_to_mem = control_unit.data_hazard_mem_to_mem
  BY <1>7 DEF Unchanged, ControlUnitAfter, IInv, TypeOK, ControlUnitSet
<1>14. stage' = "ID" /\ UNCHANGED <<if_id, dont_write>>
  BY <1>7 DEF Executing, IInv, HazardUnitIdle
<1> QED BY <1>4, <1>7, <1>8, <1>11, <1>12, <1>13, <1>14

(* execute() before the call passes from what the history says of EX to    *)
(* what it says of ID.                                                     *)
LEMMA ExecuteFollows ==
  ASSUME NEW code, NEW t, NEW last, Trace(code, t, last), IInv, Quiet,
         AtEX(code, t, last), pc - 2 < last, Execute
  PROVE  stage' = "ID" /\ memory' = memory /\ Quiet' /\ AtID(code, t, last)'
<1> DEFINE i == code[pc - 2]
<1>1. /\ stage' = "ID" /\ UNCHANGED <<status, pc, registers, memory, if_id, dont_write>>
      /\ control_unit'.pc_src = control_unit.pc_src
      /\ control_unit'.data_hazard_mem_to_mem = control_unit.data_hazard_mem_to_mem
      /\ id_ex'.syscall_code = id_ex.syscall_code /\ id_ex'.rs_reg = id_ex.rs_reg
      /\ ExMemIs(i, t[pc - 4], t[pc - 1])'
      /\ mem_wb' = [mem_wb EXCEPT !.ctl = ex_mem.ctl]
  BY ExecuteComputes
<1>2. pc \in Nat /\ last \in Nat /\ pc <= last + 1
  BY PcFacts DEF Trace
<1>3. /\ mem_wb'.ctl = ex_mem.ctl /\ mem_wb'.alu_result = mem_wb.alu_result
      /\ mem_wb'.destination_register = mem_wb.destination_register
  BY <1>1 DEF IInv, TypeOK, MemWbSet
<1>4. MemWbIs(code[pc - 3], t[pc - 2])'
  BY <1>1, <1>3 DEF AtEX, MemWbIs
<1>5. RegistersAre(t[pc - 3], Reg)'
  BY <1>1, <1>2 DEF AtEX, RegistersAre
<1>6. CallReady' <=> CallReady
  BY <1>1 DEF CallReady
<1>7. Quiet'
  BY <1>1 DEF Quiet
<1> QED BY <1>1, <1>2, <1>3, <1>4, <1>5, <1>6, <1>7 DEF AtEX, AtID

(* The exit call halts, and leaves what is visible as the history does. *)
LEMMA CallFollows ==
  ASSUME NEW code, NEW t, NEW last, Trace(code, t, last), IInv,
         AtEX(code, t, last), ~(pc - 2 < last), Execute
  PROVE  /\ memory' = memory
         /\ status' = "fault" \/ (status' = "halted" /\ RegistersAre(t[last], Visible)')
<1>1. /\ pc \in Nat /\ last \in Nat /\ pc - 2 = last /\ pc > last /\ pc - 3 = last - 1
      /\ ~(pc <= last + 1) /\ last - 1 \in Int /\ last - 1 < last /\ (last - 1) + 1 = last
  BY PcFacts DEF AtEX, Trace
<1>2. id_ex.opcode = "SYSCALL" /\ CallReady /\ RegistersAre(t[last - 1], Visible)
  BY <1>1 DEF AtEX, Trace
<1>3. /\ Operands.opcode = "SYSCALL" /\ Operands.rs_reg # SP
      /\ Operands.syscall_code \in {EXIT, EXIT_STATUS}
  BY <1>2 DEF Operands, CallReady, IInv, TypeOK, IdExSet
<1>4. CASE ExecuteFault
  BY <1>4 DEF ExecuteFault, Faults
<1>5. CASE ExecuteSyscall
  <2> DEFINE call == SyscallCall(Operands)
  <2>1. PICK c \in Call(call) : /\ registers' = AddToSp(c.registers, Operands)
                                /\ memory' = c.memory /\ status' = c.status
    BY <1>5 DEF ExecuteSyscall
  <2>2. /\ call.registers[V0] \in {EXIT, EXIT_STATUS} /\ call.memory = memory
        /\ \A r \in Visible : call.registers[r] = registers[r]
    BY <1>3 DEF SyscallCall, V0, A0, A3, Reg, Visible
  <2>3. Call(call) = {[call EXCEPT !.status = "halted"]}
    BY <2>2 DEF Call, PRINT_STRING, READ_INT, READ_STRING, EXIT, EXIT_STATUS, OPEN_FILE,
      READ_FILE, WRITE_FILE, EXIT_WITH_STATUS
  <2>4. c.status = "halted" /\ c.memory = memory /\ c.registers = call.registers
    BY <2>1, <2>2, <2>3 DEF SyscallCall
  <2>5. registers' = call.registers
    BY <1>3, <2>1, <2>4 DEF AddToSp
  <2>6. \A r \in Visible : t[last][r] = t[last - 1][r]
    <3>1. Writes(code[last - 1]) = V0
      BY DEF Trace, Exits, Writes
    <3> QED BY <1>1, <3>1, TraceStep DEF Visible
  <2>7. RegistersAre(t[last], Visible)'
    BY <1>2, <2>2, <2>5, <2>6 DEF RegistersAre
  <2> QED BY <2>1, <2>4, <2>7
<1>6. ExecuteFault \/ ExecuteSyscall
  BY <1>3 DEF Execute, ExecuteRegister, ExecuteNoResult, ExecuteJalr, ExecuteImmediate,
    ExecuteMemory, ExecuteJump, ExecuteBeq, ExecuteBranch, IsFn, AluImm, Loads, Stores,
    Branches, Undefined, Misread
<1> QED BY <1>4, <1>5, <1>6

(* decode() passes from what the history says of ID to what it says of IF. *)
LEMMA DecodeFollows ==
  ASSUME NEW code, NEW t, NEW last, Trace(code, t, last), IInv, Quiet,
         AtID(code, t, last), Decode
  PROVE  stage' = "IF" /\ memory' = memory /\ Quiet' /\ AtIF(code, t, last)'
<1> DEFINE i == code[pc - 1]
<1>1. /\ stage = "ID" /\ stage' = "IF" /\ dont_write' = dont_write /\ memory' = memory
      /\ mem_wb' = mem_wb /\ id_ex'.opcode = Fields[if_id.instruction].op
      /\ ex_mem'.ctl = SetControlSignals(NoSignals, id_ex'.opcode)
  BY DecodeMoves DEF Decode, DecodeRegister, DecodeJump, DecodeSyscall, DecodeImmediate, Decoding
<1>2. /\ pc \in Nat /\ last \in Nat /\ pc <= last + 1 /\ pc - 1 \in Int
      /\ Fields[if_id.instruction] = i
  BY PcFacts DEF AtID, Trace
<1>3. Decoded = i
  BY <1>2 DEF Decoded, IInv, HazardUnitIdle
<1>4. \A r, s : LoadUse(r, s) = FALSE
  BY <1>1, NoLoadUse DEF LoadUse
<1>5. Issue(i, FALSE)
  BY <1>3, <1>4 DEF Decode, DecodeRegister, DecodeJump, DecodeSyscall, DecodeImmediate
<1>6. /\ control_unit'.pc_src = control_unit.pc_src /\ control_unit'.data_hazard_mem_to_mem = 0
      /\ ex_mem' = [ex_mem EXCEPT !.ctl = ex_mem'.ctl]
  BY <1>5 DEF Issue, Reset, IInv, TypeOK, ControlUnitSet, ExMemSet
<1>7. i.op \in {"R_TYPE", "SYSCALL"} \cup AluImm
  <2>1. CASE pc - 1 < last
    BY <1>2, <2>1, TraceStep, AluOpcodes
  <2>2. CASE ~(pc - 1 < last)
    BY <1>2, <2>2 DEF Trace
  <2> QED BY <2>1, <2>2
<1>8. pc' = pc
  BY <1>3, <1>7 DEF Decode, DecodeRegister, DecodeJump, DecodeSyscall, DecodeImmediate,
    Jumps, AluImm
<1>9. /\ ex_mem'.opcode = ex_mem.opcode /\ ex_mem'.alu_result = ex_mem.alu_result
      /\ ex_mem'.destination_register = ex_mem.destination_register
      /\ ex_mem'.rd = ex_mem.rd
  BY <1>6 DEF IInv, TypeOK, ExMemSet
<1>10. ExMemIs(code[pc - 2], t[pc - 4], t[pc - 1])' /\ MemWbIs(code[pc - 3], t[pc - 2])'
  BY <1>1, <1>8, <1>9 DEF AtID, ExMemIs, MemWbIs
<1>11. id_ex \in IdExSet
  BY IdExFacts
<1>12. ASSUME pc - 1 < last
       PROVE  /\ RegistersAre(t[pc - 3], Reg)'
              /\ Held(i, t[pc - 3])' /\ Read(i, t[pc - 3])'
              /\ pc = last => CallReady'
  <2>1. /\ i \in Instruction /\ Alu(i)
        /\ i.rs \in Reg /\ i.rt \in Reg
    BY <1>2, <1>12, TraceStep, FieldFacts
  <2>2. pc = last => Exits(i)
    BY <1>2 DEF Trace
  <2>3. \A r \in Reg : registers[r] = t[pc - 3][r]
    BY DEF AtID, RegistersAre
  <2>4. CASE i.op = "R_TYPE"
    <3>1. DecodeRegister
      BY <1>3, <2>4 DEF Decode, DecodeJump, DecodeSyscall, DecodeImmediate, Jumps, Immediates,
        AluImm, Loads, Stores, Branches, Undefined, Misread
    <3>2. /\ registers' = registers
          /\ id_ex'.rs_reg = i.rs /\ id_ex'.function_opcode = i.fn /\ id_ex'.shamt = i.shamt
          /\ id_ex'.rt_reg = i.rt /\ id_ex'.rd = i.rd /\ id_ex'.rd_reg = 0
          /\ id_ex'.rs = registers[i.rs] /\ id_ex'.rt = registers[i.rt]
      BY <1>3, <1>11, <3>1 DEF DecodeRegister, IdExSet
    <3> QED BY <1>8, <2>1, <2>2, <2>3, <2>4, <3>2 DEF Held, Read, RegistersAre, Exits
  <2>5. CASE i.op \in AluImm
    <3>1. DecodeImmediate
      BY <1>3, <2>5 DEF Decode, DecodeRegister, DecodeJump, DecodeSyscall, Jumps, AluImm
    <3>2. /\ registers' = registers
          /\ id_ex'.rs_reg = i.rs /\ id_ex'.rd_reg = i.rt
          /\ id_ex'.immediate = SignExtend(i.imm)
          /\ id_ex'.rs = registers[i.rs] /\ id_ex'.rd = registers[i.rt]
          /\ i.rt = V0 => id_ex'.syscall_code = SignExtend(i.imm)
      BY <1>3, <1>11, <3>1 DEF DecodeImmediate, IdExSet
    <3>3. i.op # "R_TYPE"
      BY <2>5 DEF AluImm
    <3> QED BY <1>8, <2>1, <2>2, <2>3, <3>2, <3>3 DEF Held, Read, RegistersAre, Exits, CallReady
  <2> QED BY <2>1, <2>4, <2>5 DEF Alu
<1>13. ASSUME ~(pc - 1 < last)
       PROVE  RegistersAre(t[pc - 3], Visible)' /\ CallReady' /\ ~(pc <= last) /\ pc > last
  <2>1. pc - 1 = last /\ pc > last /\ ~(pc <= last) /\ i.op = "SYSCALL"
    BY <1>2, <1>13 DEF Trace
  <2>2. DecodeSyscall
    BY <1>3, <2>1 DEF Decode, DecodeRegister, DecodeJump, DecodeImmediate, Jumps, Immediates,
      AluImm, Loads, Stores, Branches, Undefined, Misread
  <2>3. /\ \A r \in Visible : registers'[r] = registers[r]
        /\ id_ex'.syscall_code = id_ex.syscall_code /\ id_ex'.rs_reg = id_ex.rs_reg
    <3>1. \A r \in Visible : r \in Reg /\ r # A0
      BY DEF Visible, Reg, A0, A3
    <3> QED BY <1>11, <2>2, <3>1 DEF DecodeSyscall, IdExSet, IInv, TypeOK, Registers
  <2> QED BY <1>8, <2>1, <2>3 DEF AtID, RegistersAre, CallReady, Visible
<1>14. Quiet'
  BY <1>1, <1>6 DEF Quiet
<1>15. AtIF(code, t, last)'
  <2>1. RegistersAre(t[pc - 3], IF pc <= last THEN Reg ELSE Visible)'
    BY <1>2, <1>8, <1>12, <1>13 DEF RegistersAre, Visible
  <2>2. pc >= last => CallReady'
    BY <1>2, <1>12, <1>13
  <2>3. ex_mem'.ctl = SignalsOf(i)
    BY <1>1, <1>2 DEF SignalsOf
  <2> QED BY <1>1, <1>2, <1>8, <1>10, <1>12, <2>1, <2>2, <2>3 DEF AtID, AtIF
<1> QED BY <1>1, <1>14, <1>15

(* fetch_pipeline() passes from what the history says of IF to what it     *)
(* says of WB, one word on.                                                *)
LEMMA FetchFollows ==
  ASSUME NEW code, NEW t, NEW last, Trace(code, t, last), IInv, Quiet, code = Code,
         AtIF(code, t, last), FetchNext
  PROVE  stage' = "WB" /\ memory' = memory /\ Quiet' /\ AtWB(code, t, last)'
<1>1. /\ stage' = "WB" /\ InMemory(pc) /\ if_id'.instruction = memory[pc]
      /\ UNCHANGED <<registers, memory, ex_mem, mem_wb, dont_write, id_ex, control_unit>>
  BY DEF FetchNext, Fetching
<1>2. pc \in Nat /\ last \in Nat /\ pc <= last + 1 /\ pc < MemSize
  BY <1>1, PcFacts DEF AtIF, Trace, InMemory
<1>3. pc' = pc + 1
  BY <1>2, WordFacts, MemoryAssumption DEF FetchNext, Add, Wrap
<1>4. Fields[if_id'.instruction] = code[pc]
  BY <1>1, <1>2, MemoryAssumption DEF Code, Address
<1>5. /\ pc' - 1 = pc /\ pc' - 2 = pc - 1 /\ pc' - 3 = pc - 2 /\ pc' - 4 = pc - 3
      /\ pc' - 5 = pc - 4 /\ pc' # 0 /\ (pc' <= 1 <=> pc = 0)
      /\ (pc' <= last + 1 <=> pc <= last) /\ (pc' > last <=> pc >= last)
      /\ pc' <= last + 2
  BY <1>2, <1>3
<1>6. Quiet'
  BY <1>1 DEF Quiet
<1>7. \A r \in IF pc <= last THEN Reg ELSE Visible : registers'[r] = t[pc - 3][r]
  BY <1>1 DEF AtIF, RegistersAre
<1>8. RegistersAre(t[pc - 4], IF pc <= last + 1 THEN Reg ELSE Visible)'
  BY <1>5, <1>7 DEF RegistersAre
<1>9. /\ id_ex'.opcode = code[pc' - 2].op
      /\ pc' - 2 < last => Held(code[pc - 2], t[pc - 4])' /\ Read(code[pc - 2], t[pc - 4])'
  BY <1>1, <1>5 DEF AtIF, Held, Read
<1>10. ExMemIs(code[pc - 3], t[pc - 5], t[pc - 2])' /\ MemWbIs(code[pc - 4], t[pc - 3])'
  <2>1. pc' - 2 = pc - 1
    BY <1>5
  <2> QED BY <1>1, <1>5, <2>1 DEF AtIF, ExMemIs, MemWbIs
<1>11. /\ ex_mem'.ctl = SignalsOf(code[pc' - 2])
       /\ mem_wb'.ctl = IF pc' <= 1 THEN NoSignals ELSE SignalsOf(code[pc' - 3])
  BY <1>1, <1>5 DEF AtIF
<1>12. pc' > last => CallReady'
  BY <1>1, <1>5 DEF AtIF, CallReady
<1>13. AtWB(code, t, last)'
  BY <1>1, <1>4, <1>5, <1>8, <1>9, <1>10, <1>11, <1>12 DEF AtWB
<1> QED BY <1>1, <1>6, <1>13

(***************************************************************************)
(* The pipeline follows the history                                        *)
(***************************************************************************)
(* A running pipeline follows the history, up to the call that halts it. *)
LEMMA RunningFollows ==
  ASSUME NEW code, NEW t, NEW last, Trace(code, t, last), code = Code, IInv,
         status = "running", InHistory(code, t, last), Next
  PROVE  /\ memory' = memory
         /\ \/ InHistory(code, t, last)' /\ status' = "running"
            \/ status' = "halted" /\ RegistersAre(t[last], Visible)'
            \/ status' = "fault"
<1>1. Quiet
  BY DEF InHistory
<1>2. CASE WB
  <2>1. AtWB(code, t, last) /\ UNCHANGED <<memory, status>>
    BY <1>2 DEF WB, InHistory
  <2>2. stage' = "MEM" /\ Quiet' /\ AtMEM(code, t, last)'
    BY <1>1, <1>2, <2>1, WBFollows
  <2> QED BY <2>1, <2>2 DEF InHistory
<1>3. CASE Mem
  <2>1. AtMEM(code, t, last) /\ status' = status
    BY <1>3 DEF Mem, InHistory
  <2>2. stage' = "EX" /\ memory' = memory /\ Quiet' /\ AtEX(code, t, last)'
    BY <1>1, <1>3, <2>1, MemFollows
  <2> QED BY <2>1, <2>2 DEF InHistory
<1>4. CASE Execute
  <2>1. AtEX(code, t, last)
    BY <1>4 DEF InHistory, Execute, Executing, ExecuteRegister, ExecuteNoResult, ExecuteJalr,
      ExecuteImmediate, ExecuteMemory, ExecuteJump, ExecuteBeq, ExecuteBranch,
      ExecuteSyscall, ExecuteFault
  <2>2. CASE pc - 2 < last
    <3>1. stage' = "ID" /\ memory' = memory /\ Quiet' /\ AtID(code, t, last)'
      BY <1>1, <1>4, <2>1, <2>2, ExecuteFollows
    <3>2. status' = status
      BY <1>1, <1>4, <2>1, <2>2, ExecuteComputes
    <3> QED BY <3>1, <3>2 DEF InHistory
  <2>3. CASE ~(pc - 2 < last)
    BY <1>4, <2>1, <2>3, CallFollows
  <2> QED BY <2>2, <2>3
<1>5. CASE Decode
  <2>1. AtID(code, t, last) /\ status' = status
    BY <1>5 DEF InHistory, Decode, Decoding, DecodeRegister, DecodeJump, DecodeSyscall,
      DecodeImmediate
  <2>2. stage' = "IF" /\ memory' = memory /\ Quiet' /\ AtIF(code, t, last)'
    BY <1>1, <1>5, <2>1, DecodeFollows
  <2> QED BY <2>1, <2>2 DEF InHistory
<1>6. CASE FetchNext
  <2>1. AtIF(code, t, last) /\ status' = status
    BY <1>6 DEF InHistory, FetchNext, Fetching
  <2>2. stage' = "WB" /\ memory' = memory /\ Quiet' /\ AtWB(code, t, last)'
    BY <1>1, <1>6, <2>1, FetchFollows
  <2> QED BY <2>1, <2>2 DEF InHistory
<1>7. ~FetchTarget
  BY <1>1 DEF FetchTarget, Quiet
<1>8. CASE WBFault \/ MemFault \/ FetchFault
  BY <1>8 DEF WBFault, MemFault, FetchFault, Faults
<1> QED BY <1>2, <1>3, <1>4, <1>5, <1>6, <1>7, <1>8 DEF Next, Fetch

(* Behind the call, decode() and fetch_pipeline() change nothing visible. *)
LEMMA HaltedStays ==
  ASSUME IInv, status # "running", Next
  PROVE  /\ memory' = memory /\ status' # "running"
         /\ \A r \in Visible : registers'[r] = registers[r]
<1>1. ~WB /\ ~WBFault /\ ~Mem /\ ~MemFault /\ ~Execute
  BY DEF WB, WBFault, Mem, MemFault, Execute, Executing, ExecuteRegister, ExecuteNoResult, ExecuteJalr,
    ExecuteImmediate, ExecuteMemory, ExecuteJump, ExecuteBeq, ExecuteBranch,
    ExecuteSyscall, ExecuteFault
<1>2. CASE Decode
  <2>1. memory' = memory /\ status' = status
    BY <1>2 DEF Decode, Decoding, DecodeRegister, DecodeJump, DecodeSyscall, DecodeImmediate
  <2>2. registers \in Registers /\ \A r \in Visible : r \in Reg /\ r # A0
    BY DEF IInv, TypeOK, Visible, Reg, A0, A3
  <2>3. registers' = registers \/ registers' = [registers EXCEPT ![A0] = SyscallArgument]
    BY <1>2 DEF Decode, DecodeRegister, DecodeJump, DecodeSyscall, DecodeImmediate
  <2> QED BY <2>1, <2>2, <2>3 DEF Registers
<1>3. CASE Fetch
  BY <1>3 DEF Fetch, FetchNext, FetchTarget, FetchFault, Fetching, Faults
<1> QED BY <1>1, <1>2, <1>3 DEF Next

(* Every step of the pipeline keeps to the history. *)
LEMMA PipelineFollows ==
  ASSUME IInv, Following, [Next]_vars, UNCHANGED ref_vars
  PROVE  Following'
<1>1. PICK last \in Nat, t \in [Int -> Registers] :
        /\ Trace(Code, t, last)
        /\ ref_registers = t[last]
        /\ status = "running" => InHistory(Code, t, last)
        /\ status = "halted" => RegistersAre(t[last], Visible)
  BY DEF Following
<1>2. PICK c : c = Code
  OBVIOUS
<1>3. Trace(c, t, last) /\ (status = "running" => InHistory(c, t, last))
  BY <1>1, <1>2
<1>4. /\ memory' = memory
      /\ status' = "running" => InHistory(c, t, last)'
      /\ status' = "halted" => RegistersAre(t[last], Visible)'
  <2>1. CASE UNCHANGED vars
    <3>1. InHistory(c, t, last) => InHistory(c, t, last)'
      BY <2>1 DEF vars, InHistory, Quiet, AtWB, AtMEM, AtEX, AtID, AtIF, Held, Read, ExMemIs,
        MemWbIs, RegistersAre, CallReady, FromWb, Operands, Forwarded
    <3> QED BY <1>1, <1>3, <2>1, <3>1 DEF vars, RegistersAre
  <2>2. CASE Next /\ status = "running"
    BY <1>2, <1>3, <2>2, RunningFollows
  <2>3. CASE Next /\ status # "running"
    <3>1. /\ memory' = memory /\ status' # "running"
          /\ \A r \in Visible : registers'[r] = registers[r]
      BY <2>3, HaltedStays
    <3>2. status = "halted" \/ status = "fault"
      BY <2>3 DEF IInv, TypeOK, Status
    <3>3. status = "fault" => FALSE
      BY <2>3 DEF Next, WB, WBFault, Mem, MemFault, Execute, Executing, ExecuteRegister,
        ExecuteNoResult, ExecuteJalr, ExecuteImmediate, ExecuteMemory, ExecuteJump,
        ExecuteBeq, ExecuteBranch, ExecuteSyscall, ExecuteFault, Decode, Decoding,
        DecodeRegister, DecodeJump, DecodeSyscall, DecodeImmediate, Fetch, FetchNext,
        FetchTarget, FetchFault, Fetching
    <3> QED BY <1>1, <3>1, <3>2, <3>3 DEF RegistersAre
  <2> QED BY <2>1, <2>2, <2>3
<1>5. Code' = c
  BY <1>2, <1>4 DEF Code
<1>6. memory' = ref_memory' /\ ref_registers' = t[last]
  BY <1>1, <1>4 DEF Following, ref_vars
<1>7. status' = "running" => InHistory(Code, t, last)'
  <2>1. InHistory(c, t, last)' => InHistory(Code, t, last)'
    BY <1>5 DEF InHistory, AtWB, AtMEM, AtEX, AtID, AtIF
  <2> QED BY <1>4, <2>1
<1>8. Trace(Code, t, last)'
  BY <1>3, <1>5 DEF Trace
<1> QED BY <1>4, <1>6, <1>7, <1>8 DEF Following

(* The reset pipeline is where a history begins. *)
LEMMA StartFollows ==
  ASSUME NEW code, NEW t, NEW last, Trace(code, t, last), Fields[0] = code[-1],
         AtStart, registers = t[0]
  PROVE  InHistory(code, t, last)
<1>1. /\ last \in Nat /\ last >= 1
      /\ \A k \in Int : k < 0 => Nop(code[k]) /\ t[k] = t[0]
      /\ t[0][0] = 0
  BY DEF Trace
<1>2. /\ Nop(code[-2]) /\ Nop(code[-3]) /\ Nop(code[-4])
      /\ t[-5] = t[0] /\ t[-4] = t[0] /\ t[-3] = t[0] /\ t[-2] = t[0]
  BY <1>1
<1>3. /\ 0 - 1 = -1 /\ 0 - 2 = -2 /\ 0 - 3 = -3 /\ 0 - 4 = -4 /\ 0 - 5 = -5
      /\ 0 <= last + 2 /\ 0 <= last + 1 /\ ~(0 > last) /\ 0 <= 1
  BY <1>1
<1>4. AtWB(code, t, last)
  <2>1. RegistersAre(t[pc - 4], IF pc <= last + 1 THEN Reg ELSE Visible)
    BY <1>2, <1>3 DEF AtStart, RegistersAre
  <2>2. Held(code[-2], t[-4]) /\ Read(code[-2], t[-4]) /\ id_ex.opcode = code[-2].op
    BY <1>1, <1>2 DEF AtStart, IdExReset, Held, Read, Nop
  <2>3. ExMemIs(code[-3], t[-5], t[-2]) /\ MemWbIs(code[-4], t[-3])
    BY <1>1, <1>2 DEF AtStart, ExMemReset, MemWbReset, ExMemIs, MemWbIs, Nop, Writes
  <2>4. ex_mem.ctl = NoSignals /\ mem_wb.ctl = NoSignals /\ if_id.instruction = 0
    BY DEF AtStart, ExMemReset, MemWbReset, IfIdReset
  <2> QED BY <1>3, <2>1, <2>2, <2>3, <2>4 DEF AtStart, AtWB
<1> QED BY <1>4 DEF InHistory, AtStart, Quiet, ControlUnitInit

(***************************************************************************)
(* The reference                                                           *)
(***************************************************************************)
(* The reference has the arithmetic and the instruction set of the pipeline. *)
LEMMA SameWords ==
  /\ Ref!WordSize = WordSize /\ Ref!MinusOne = MinusOne /\ Ref!SignBit = SignBit
  /\ Ref!WordBits = WordBits
  /\ \A k : Ref!Pow2(k) = Pow2(k)
  /\ \A n : Ref!Wrap(n) = Wrap(n)
  /\ \A x, y : Ref!Add(x, y) = Add(x, y)
  /\ \A x, y : Ref!Sub(x, y) = Sub(x, y)
  /\ \A x, y : Ref!Mult(x, y) = Mult(x, y)
  /\ \A x : Ref!BitNot(x) = BitNot(x)
  /\ \A i : Ref!SignExtend(i) = SignExtend(i)
  /\ \A x, n : Ref!ShiftLeft(x, n) = ShiftLeft(x, n)
  /\ \A x, n : Ref!ShiftRight(x, n) = ShiftRight(x, n)
<1>1. \A k : Ref!Pow2(k) = Pow2(k)
  BY DEF Ref!Pow2, Pow2
<1>2. Ref!WordBits = WordBits
  BY DEF Ref!WordBits, WordBits
<1>3. Ref!WordSize = WordSize /\ Ref!SignBit = SignBit
  BY <1>1, <1>2 DEF Ref!WordSize, WordSize, Ref!SignBit, SignBit
<1>4. \A n : Ref!Wrap(n) = Wrap(n)
  BY <1>3 DEF Ref!Wrap, Wrap
<1>5. Ref!MinusOne = MinusOne
  BY <1>3 DEF Ref!MinusOne, MinusOne
<1>6. \A x, y : Ref!Add(x, y) = Add(x, y)
  BY <1>4 DEF Ref!Add, Add
<1>7. \A x, y : Ref!Sub(x, y) = Sub(x, y)
  BY <1>4 DEF Ref!Sub, Sub
<1>8. \A x, y : Ref!Mult(x, y) = Mult(x, y)
  BY <1>4 DEF Ref!Mult, Mult
<1>9. \A x : Ref!BitNot(x) = BitNot(x)
  BY <1>5 DEF Ref!BitNot, BitNot
<1>10. \A i : Ref!SignExtend(i) = SignExtend(i)
  BY <1>1, <1>4 DEF Ref!SignExtend, SignExtend
<1>11. \A x, n : Ref!ShiftLeft(x, n) = ShiftLeft(x, n)
  BY <1>1, <1>2, <1>4 DEF Ref!ShiftLeft, ShiftLeft
<1>12. \A x, n : Ref!ShiftRight(x, n) = ShiftRight(x, n)
  BY <1>1, <1>2, <1>4 DEF Ref!ShiftRight, ShiftRight
<1> QED BY <1>1, <1>2, <1>3, <1>4, <1>5, <1>6, <1>7, <1>8, <1>9, <1>10, <1>11, <1>12

(* The other engine's copies of the opcodes and numbers it compares with. *)
LEMMA SameIsa ==
  /\ Ref!AluImm = AluImm /\ Ref!Loads = Loads /\ Ref!Stores = Stores
  /\ Ref!Branches = Branches /\ Ref!Jumps = Jumps /\ Ref!Computed = Computed
  /\ Ref!Undefined = Undefined
  /\ Ref!SP = SP /\ Ref!V0 = V0 /\ Ref!EXIT = EXIT /\ Ref!EXIT_STATUS = EXIT_STATUS
  /\ \A a : Ref!InMemory(a) <=> InMemory(a)
BY DEF Ref!AluImm, AluImm, Ref!Loads, Loads, Ref!Stores, Stores, Ref!Branches, Branches,
  Ref!Jumps, Jumps, Ref!Undefined, Undefined, Ref!Misread, Misread, Ref!Computed, Computed,
  Ref!Functions, Functions, Ref!SP, SP, Ref!V0, V0,
  Ref!EXIT, EXIT, Ref!EXIT_STATUS, EXIT_STATUS, Ref!InMemory, InMemory

(* Both engines' ALUs compute the same. *)
LEMMA SameResults ==
  /\ \A fn \in Computed : \A a, b, n : Ref!RegisterResult(fn, a, b, n) = RegisterResult(fn, a, b, n)
  /\ \A op \in AluImm : \A a, b : Ref!ImmediateResult(op, a, b) = ImmediateResult(op, a, b)
<1>1. ASSUME NEW fn \in Computed, NEW a, NEW b, NEW n
      PROVE  Ref!RegisterResult(fn, a, b, n) = RegisterResult(fn, a, b, n)
  BY SameWords DEF Ref!RegisterResult, RegisterResult, Computed, Functions
<1>2. ASSUME NEW op \in AluImm, NEW a, NEW b
      PROVE  Ref!ImmediateResult(op, a, b) = ImmediateResult(op, a, b)
  BY SameWords DEF Ref!ImmediateResult, ImmediateResult, AluImm
<1> QED BY <1>1, <1>2

(* Before the call, the only case of decodeExecute() is one of the ALU's. *)
LEMMA ReferenceCase ==
  ASSUME Ref!Next, ref_status = "running", InMemory(ref_pc), Alu(Fields[ref_memory[ref_pc]])
  PROVE  IF Fields[ref_memory[ref_pc]].op = "R_TYPE" THEN Ref!ExecuteRegister
                                                     ELSE Ref!ExecuteImmediate
<1> DEFINE i == Fields[ref_memory[ref_pc]]
<1>1. Ref!Instr = i
  BY DEF Ref!Instr
<1>2. i.op \in {"R_TYPE"} \cup AluImm /\ (i.op = "R_TYPE" => i.fn \in Computed)
  BY AluOpcodes DEF Alu, AluImm
<1>3. ~Ref!ExecuteDiv /\ ~Ref!MoveFrom /\ ~Ref!ExecuteJalr
  BY <1>1, <1>2 DEF Ref!ExecuteDiv, Ref!MoveFrom, Ref!ExecuteJalr, Ref!IsFn,
    Computed, Functions
<1>4. ~Ref!ExecuteJump /\ ~Ref!ExecuteSyscall /\ ~Ref!ExecuteBranch
  BY <1>1, <1>2, SameIsa DEF Ref!ExecuteJump, Ref!ExecuteSyscall, Ref!ExecuteBranch,
    AluImm, Branches, Jumps
<1>5. ~Ref!ExecuteMemory /\ ~Ref!ExecuteUnknown
  BY <1>1, <1>2, SameIsa DEF Ref!ExecuteMemory, Ref!ExecuteUnknown, Ref!IsFn, Computed,
    Functions, AluImm, Loads, Stores, Undefined, Misread
<1>6. ~Ref!Fault
  BY <1>1, <1>2, SameIsa DEF Ref!Fault, AluImm, Loads, Stores
<1>7. i.op = "R_TYPE" => ~Ref!ExecuteImmediate
  BY <1>1, SameIsa DEF Ref!ExecuteImmediate, AluImm
<1>8. i.op # "R_TYPE" => ~Ref!ExecuteRegister
  BY <1>1 DEF Ref!ExecuteRegister, Ref!IsFn
<1> QED BY <1>3, <1>4, <1>5, <1>6, <1>7, <1>8 DEF Ref!Next

(* The reference steps only while it runs. *)
LEMMA ReferenceRuns == Ref!Next => ref_status = "running"
BY DEF Ref!Next, Ref!ExecuteRegister, Ref!ExecuteDiv, Ref!MoveFrom, Ref!ExecuteJalr,
  Ref!ExecuteJump, Ref!ExecuteSyscall, Ref!ExecuteImmediate, Ref!ExecuteMemory,
  Ref!ExecuteBranch, Ref!ExecuteUnknown, Ref!Fault, Ref!Fetching

(* Before the call, decodeExecute() goes on to the next word. *)
LEMMA ReferenceGoesOn ==
  ASSUME Ref!Next, ref_status = "running", InMemory(ref_pc), ref_pc \in Nat,
         Alu(Fields[ref_memory[ref_pc]])
  PROVE  ref_pc' = ref_pc + 1 /\ ref_status' = "running" /\ ref_memory' = ref_memory
<1>1. Ref!Stepped = ref_pc + 1
  BY WordFacts, SameWords, MemoryAssumption DEF Ref!Stepped, Add, Wrap, InMemory
<1>2. Ref!ExecuteRegister \/ Ref!ExecuteImmediate
  BY ReferenceCase
<1> QED BY <1>1, <1>2 DEF Ref!ExecuteRegister, Ref!ExecuteImmediate, Ref!AtNext

(* It does to the registers what the history says, as long as an addi      *)
(* leaves no 29 in the register it reads.                                  *)
LEMMA ReferenceComputes ==
  ASSUME NEW i \in Instruction, i = Fields[ref_memory[ref_pc]], Alu(i),
         Ref!Next, ref_status = "running", InMemory(ref_pc),
         ref_registers \in Registers, ref_registers[0] = 0, Writes(i) # 0,
         i.op = "ADDI" => /\ i.rs # SP
                          /\ \/ i.rs = 0 \/ ref_registers'[i.rs] # SP
                             \/ After(ref_registers, i)[i.rs] # SP
  PROVE  ref_registers' = After(ref_registers, i)
<1>1. Ref!Instr = i
  BY DEF Ref!Instr
<1>2. IF i.op = "R_TYPE" THEN Ref!ExecuteRegister ELSE Ref!ExecuteImmediate
  BY ReferenceCase
<1>3. CASE i.op = "R_TYPE"
  <2>1. i.fn \in Computed
    BY <1>3 DEF Alu, AluImm
  <2>2. Ref!RegisterResult(i.fn, Ref!Rs, Ref!Rt, i.shamt) = Result(i, ref_registers)
    BY <1>1, <1>3, <2>1, SameResults DEF Ref!Rs, Ref!Rt, Result
  <2>3. Ref!Register(i.rd, Result(i, ref_registers))
    BY <1>1, <1>2, <1>3, <2>2 DEF Ref!ExecuteRegister
  <2> QED BY <1>3, <2>3 DEF Ref!Register, After, Writes
<1>4. CASE i.op # "R_TYPE"
  <2>1. Ref!ExecuteImmediate /\ i.op \in AluImm
    BY <1>2, <1>4 DEF Alu
  <2>2. Ref!ImmediateResult(i.op, Ref!Rs, Ref!Immediate) = Result(i, ref_registers)
        /\ Result(i, ref_registers) = ImmediateResult(i.op, Ref!Rs, Ref!Immediate)
    BY <1>1, <1>4, <2>1, SameResults, SameWords DEF Ref!Rs, Ref!Immediate, Result
  <2>3. CASE i.op # "ADDI"
    <3>1. Ref!Register(i.rt, Result(i, ref_registers))
      BY <1>1, <2>1, <2>2, <2>3 DEF Ref!ExecuteImmediate
    <3> QED BY <1>4, <3>1 DEF Ref!Register, After, Writes
  <2>4. CASE i.op = "ADDI"
    <3> DEFINE sum == [ref_registers EXCEPT ![i.rt] = Ref!Add(Ref!Rs, Ref!Immediate)]
    <3>1. ref_registers' = Ref!AddImmediate
      BY <1>1, <2>1, <2>4 DEF Ref!ExecuteImmediate
    <3>2. sum = After(ref_registers, i)
      BY <1>4, <2>2, <2>4, SameWords DEF After, Writes, ImmediateResult
    <3>3. sum \in Registers
      BY <3>2, AfterFacts
    <3>4. Ref!AddImmediate = IF sum[i.rs] = SP
                               THEN [sum EXCEPT ![SP] = Ref!Add(@, Ref!Immediate)] ELSE sum
      BY <1>1, SameIsa DEF Ref!AddImmediate
    <3>5. i.rs \in Reg
      BY FieldFacts
    <3>6. sum[i.rs] # SP
      <4>1. CASE i.rs = 0
        <5>1. After(ref_registers, i)[0] = 0
          BY <3>5, <4>1, AfterFacts
        <5> QED BY <3>2, <4>1, <5>1 DEF SP
      <4>2. CASE i.rs # 0
        BY <2>4, <3>1, <3>2, <3>3, <3>4, <3>5, <4>2 DEF Registers
      <4> QED BY <4>1, <4>2
    <3> QED BY <3>1, <3>2, <3>4, <3>6
  <2> QED BY <2>3, <2>4
<1> QED BY <1>3, <1>4

(* The exit call halts the reference and leaves its registers alone. *)
LEMMA ReferenceHalts ==
  ASSUME Ref!Next, ref_status = "running", InMemory(ref_pc),
         Fields[ref_memory[ref_pc]].op = "SYSCALL",
         ref_registers[V0] \in {EXIT, EXIT_STATUS}
  PROVE  /\ ref_registers' = ref_registers /\ ref_memory' = ref_memory
         /\ ref_status' = "halted"
<1>1. Ref!Instr.op = "SYSCALL"
  BY DEF Ref!Instr
<1>2. Ref!ExecuteSyscall
  BY <1>1, SameIsa DEF Ref!Next, Ref!ExecuteRegister, Ref!ExecuteDiv, Ref!MoveFrom,
    Ref!ExecuteJalr, Ref!ExecuteJump, Ref!ExecuteImmediate, Ref!ExecuteMemory,
    Ref!ExecuteBranch, Ref!ExecuteUnknown, Ref!Fault, Ref!IsFn, AluImm, Jumps, Loads,
    Stores, Branches, Undefined, Misread
<1> DEFINE call == [registers |-> ref_registers, memory |-> ref_memory, files |-> ref_files,
                    status |-> "running"]
<1>3. call.registers[Ref!V0] \in {EXIT, EXIT_STATUS}
  BY SameIsa
<1>4. Ref!Call(call) = {[call EXCEPT !.status = "halted"]}
  BY <1>3, SameIsa DEF Ref!Call, Ref!PRINT_STRING, Ref!READ_INT, Ref!READ_STRING, EXIT,
    EXIT_STATUS, Ref!OPEN_FILE, Ref!READ_FILE, Ref!WRITE_FILE, Ref!EXIT_WITH_STATUS
<1> QED BY <1>2, <1>4 DEF Ref!ExecuteSyscall

(* One instruction of the reference adds one to the history. *)
LEMMA HistoryGrows ==
  ASSUME NEW code \in [Int -> Instruction], NEW t \in [Int -> Registers], NEW n \in Nat,
         NEW regs \in Registers,
         History(code, t, n), Apart(code, t[n]), regs = After(t[n], code[n]),
         Alu(code[n]), Writes(code[n]) # 0
  PROVE  \E u \in [Int -> Registers] :
            History(code, u, n + 1) /\ u[n + 1] = regs /\ u[0] = t[0]
<1> DEFINE u == [t EXCEPT ![n + 1] = regs]
<1>1. u \in [Int -> Registers] /\ u[n + 1] = regs
      /\ \A k \in Int : k # n + 1 => u[k] = t[k]
  OBVIOUS
<1>2. u[0] = t[0] /\ \A k \in Int : k < 0 => u[k] = u[0]
  BY <1>1 DEF History
<1>3. ASSUME NEW k \in 0 .. n + 1 - 1
      PROVE  Apart(code, u[k]) /\ u[k + 1] = After(u[k], code[k])
  <2>1. CASE k = n
    BY <1>1, <2>1
  <2>2. CASE k # n
    <3>1. k \in 0 .. n - 1 /\ k # n + 1 /\ k + 1 # n + 1
      BY <2>2
    <3> QED BY <1>1, <3>1 DEF History
  <2> QED BY <2>1, <2>2
<1>4. ASSUME NEW k \in 0 .. n + 1 PROVE u[k][0] = 0
  <2>1. CASE k = n + 1
    <3>1. t[n][0] = 0 /\ 0 \in Reg
      BY DEF History, Reg
    <3> QED BY <1>1, <2>1, <3>1, AfterFacts
  <2>2. CASE k # n + 1
    BY <1>1, <2>2 DEF History
  <2> QED BY <2>1, <2>2
<1>5. History(code, u, n + 1)
  BY <1>1, <1>2, <1>3, <1>4 DEF History
<1> QED BY <1>1, <1>2, <1>5

(* Every step of the reference keeps the invariant. *)
LEMMA ReferenceFollows ==
  ASSUME Nop(Fields[0]), IInv, Referring, NumbersApart, NumbersApart', ref_status = "running",
         Ref!Next, UNCHANGED vars
  PROVE  ConformanceInv'
<1>1. PICK last \in Nat, t \in [Int -> Registers] :
        /\ IsProgram(Code, last) /\ History(Code, t, ref_pc)
        /\ ref_pc \in 0 .. last /\ ref_registers = t[ref_pc] /\ registers = t[0]
  BY DEF Referring
<1>2. PICK code : code = Code
  OBVIOUS
<1>3. /\ code \in [Int -> Instruction] /\ Code' = code
      /\ \A k \in Int : k < 0 => code[k] = Fields[0]
      /\ \A k \in Address : code[k] = Fields[memory[k]]
      /\ memory = ref_memory /\ memory' = memory
      /\ ref_pc \in Nat /\ last >= 1 /\ ref_registers \in Registers
      /\ AtStart' /\ registers' = registers
  <2>1. memory \in Memory /\ memory' = memory /\ registers' = registers
    BY DEF IInv, TypeOK, vars
  <2>2. AtStart'
    BY DEF AtStart, Referring, vars
  <2>3. Code' = Code
    BY <2>1 DEF Code
  <2>4. \A k \in Int : k < 0 => k \notin Address
    BY MemoryAssumption DEF Address
  <2>5. Address \subseteq Int
    BY AddressFacts
  <2> QED BY <1>1, <1>2, <2>1, <2>2, <2>3, <2>4, <2>5, CodeTyped DEF Code, Referring, IsProgram
<1>4. CASE ~InMemory(ref_pc)
  <2>1. ref_status' = "fault"
    BY <1>4, SameIsa DEF Ref!Next, Ref!ExecuteRegister, Ref!ExecuteDiv, Ref!MoveFrom,
      Ref!ExecuteJalr, Ref!ExecuteJump, Ref!ExecuteSyscall, Ref!ExecuteImmediate,
      Ref!ExecuteMemory, Ref!ExecuteBranch, Ref!ExecuteUnknown, Ref!Fault, Ref!Fetching
  <2> QED BY <2>1 DEF ConformanceInv
<1>5. CASE InMemory(ref_pc) /\ ref_pc < last
  <2> DEFINE i == code[ref_pc]
  <2>1. ref_pc \in Address /\ i = Fields[ref_memory[ref_pc]] /\ i \in Instruction
    BY <1>3, <1>5, MemoryAssumption DEF Address, InMemory
  <2>2. Alu(i) /\ Writes(i) # 0 /\ (i.op = "ADDI" => i.rs # SP)
    <3>1. CASE ref_pc = last - 1
      <4>1. Exits(i)
        BY <1>1, <1>2, <1>5, <3>1 DEF IsProgram, InMemory
      <4> QED BY <4>1 DEF Exits, Alu, AluImm, Writes, V0
    <3>2. CASE ref_pc # last - 1
      <4>1. ref_pc \in 0 .. last - 2 /\ ref_pc < MemSize
        BY <1>1, <1>3, <1>5, <3>2 DEF InMemory
      <4> QED BY <1>1, <1>2, <4>1 DEF IsProgram, Ordinary, SpTwice
    <3> QED BY <3>1, <3>2
  <2>3. ref_pc' = ref_pc + 1 /\ ref_status' = "running" /\ ref_memory' = ref_memory
    BY <1>3, <1>5, <2>1, <2>2, ReferenceGoesOn
  <2>4. i.op # "SYSCALL" /\ Apart(code, ref_registers)
    BY <1>2, <2>2, AluOpcodes DEF NumbersApart
  <2>5. ASSUME i.op = "ADDI", i.rs # 0 PROVE ref_registers'[i.rs] # SP
    <3>1. i.rs \in Names(code)
      <4>1. i.rs \in Reads(code[ref_pc])
        BY DEF Reads
      <4>2. i.rs \in UNION {Reads(code[a]) \cup {Writes(code[a])} : a \in Address}
        BY <2>1, <4>1
      <4> QED BY <2>5, <4>2 DEF Names
    <3>2. ref_pc # last - 1
      BY <1>1, <1>2, <1>5, <2>5 DEF IsProgram, InMemory, Exits
    <3>3. code[ref_pc + 1].op # "SYSCALL"
      <4>1. CASE ref_pc + 1 >= MemSize
        <5>1. ref_pc + 1 \in Int /\ ref_pc + 1 \notin Address
          BY <1>3, <4>1, MemoryAssumption DEF Address
        <5> QED BY <1>2, <5>1, FieldsAssumption DEF Code
      <4>2. CASE ~(ref_pc + 1 >= MemSize)
        <5>1. CASE ref_pc + 1 = last - 1
          <6>1. Exits(code[last - 1])
            BY <1>1, <1>2, <4>2, <5>1, MemoryAssumption DEF IsProgram
          <6> QED BY <5>1, <6>1 DEF Exits
        <5>2. CASE ref_pc + 1 # last - 1
          <6>1. ref_pc + 1 \in 0 .. last - 2 /\ ref_pc + 1 < MemSize
            BY <1>3, <1>5, <3>2, <4>2, <5>2, MemoryAssumption
          <6>2. Ordinary(code[ref_pc + 1])
            BY <1>1, <1>2, <6>1 DEF IsProgram
          <6> QED BY <6>2, AluOpcodes DEF Ordinary
        <5> QED BY <5>1, <5>2
      <4> QED BY <4>1, <4>2
    <3>4. Apart(code, ref_registers')
      <4>1. NumbersApart' <=> (ref_status' = "running" /\ Code'[ref_pc'].op # "SYSCALL"
                                 => Apart(Code', ref_registers'))
        BY DEF NumbersApart, Apart, Names
      <4> QED BY <1>3, <2>3, <3>3, <4>1
    <3> QED BY <3>1, <3>4 DEF Apart
  <2>6. ref_registers[0] = 0
    BY <1>1, <1>3 DEF History
  <2>7. ref_registers' = After(ref_registers, i)
    BY <1>3, <1>5, <2>1, <2>2, <2>5, <2>6, ReferenceComputes
  <2>8. After(ref_registers, i) \in Registers
    BY <1>3, <2>1, <2>2, AfterFacts
  <2>9. PICK regs \in Registers : regs = After(ref_registers, i)
    BY <2>8
  <2>10. PICK v \in [Int -> Registers] :
           History(code, v, ref_pc + 1) /\ v[ref_pc + 1] = ref_registers' /\ v[0] = t[0]
    <3>1. /\ History(code, t, ref_pc) /\ Apart(code, t[ref_pc])
          /\ regs = After(t[ref_pc], code[ref_pc])
          /\ Alu(code[ref_pc]) /\ Writes(code[ref_pc]) # 0
      BY <1>1, <1>2, <2>2, <2>4, <2>9
    <3>2. code \in [Int -> Instruction] /\ ref_pc \in Nat
      BY <1>3
    <3>3. \E v \in [Int -> Registers] :
             History(code, v, ref_pc + 1) /\ v[ref_pc + 1] = regs /\ v[0] = t[0]
      BY <3>1, <3>2, HistoryGrows
    <3> QED BY <2>7, <2>9, <3>3
  <2>11. Referring'
    <3>1. IsProgram(Code', last) /\ History(Code', v, ref_pc')
      BY <1>1, <1>2, <1>3, <2>3, <2>10
    <3>2. ref_pc' \in 0 .. last /\ ref_registers' = v[ref_pc'] /\ registers' = v[0]
      BY <1>1, <1>3, <1>5, <2>3, <2>10
    <3>3. memory' = ref_memory'
      BY <1>3, <2>3
    <3> QED BY <1>3, <3>1, <3>2, <3>3 DEF Referring, IsProgram, History
  <2> QED BY <2>3, <2>11 DEF ConformanceInv
<1>6. CASE InMemory(ref_pc) /\ ref_pc = last
  <2>1. Trace(code, t, last)
    BY <1>1, <1>2, <1>3, <1>6, HistoryIsTrace DEF InMemory
  <2>2. ref_registers[V0] \in {EXIT, EXIT_STATUS}
    <3>1. /\ last - 1 \in Int /\ last - 1 < last /\ (last - 1) + 1 = last
          /\ Exits(code[last - 1])
      BY <1>3, <2>1 DEF Trace
    <3>2. ref_registers[Writes(code[last - 1])] = Result(code[last - 1], t[last - 1])
      BY <1>1, <1>6, <2>1, <3>1, TraceStep
    <3> QED BY <3>1, <3>2 DEF Exits, Writes, Result, ImmediateResult
  <2>3. ref_registers' = ref_registers /\ ref_memory' = ref_memory /\ ref_status' = "halted"
    <3>1. Fields[ref_memory[ref_pc]].op = "SYSCALL"
      <4>1. last \in Address
        BY <1>6, MemoryAssumption DEF Address, InMemory
      <4> QED BY <1>3, <1>6, <2>1, <4>1 DEF Trace
    <3> QED BY <1>6, <2>2, <3>1, ReferenceHalts
  <2>4. Fields[0] = code[-1]
    BY <1>3
  <2>5. AtStart /\ status' = status /\ status = "running"
    BY DEF Referring, AtStart, vars
  <2>6. InHistory(code, t, last)
    BY <1>1, <2>1, <2>4, <2>5, StartFollows
  <2>7. InHistory(code, t, last)'
    BY <2>6 DEF vars, InHistory, Quiet, AtWB, AtMEM, AtEX, AtID, AtIF, Held, Read, ExMemIs,
      MemWbIs, RegistersAre, CallReady, FromWb, Operands, Forwarded
  <2>8. Following'
    <3>1. Trace(Code, t, last)'
      BY <1>3, <2>1 DEF Trace
    <3>2. InHistory(Code, t, last)'
      BY <1>3, <2>7 DEF InHistory, AtWB, AtMEM, AtEX, AtID, AtIF
    <3>3. memory' = ref_memory' /\ ref_registers' = t[last] /\ status' # "halted"
      BY <1>1, <1>3, <1>6, <2>3, <2>5
    <3> QED BY <3>1, <3>2, <3>3 DEF Following
  <2> QED BY <2>3, <2>8 DEF ConformanceInv
<1> QED BY <1>1, <1>3, <1>4, <1>5, <1>6

(***************************************************************************)
(* Both engines                                                            *)
(***************************************************************************)
(* A program of arithmetic is loaded into both, before anything has run. *)
LEMMA InitConforms == ArithmeticOnly /\ BothInit => ConformanceInv
<1> SUFFICES ASSUME ArithmeticOnly, BothInit PROVE Referring
  BY DEF BothInit, Init, ConformanceInv
<1>1. PICK p \in Programs : memory = LoadedMemory(p)
  BY DEF BothInit, Init
<1>2. PICK s \in Presets : registers = InitialRegisters(s)
  BY DEF BothInit, Init
<1> DEFINE last == Len(p) - 1
           t == [k \in Int |-> registers]
<1>3. p \in Seq(Word) /\ Arithmetic(p)
  BY ProgramAssumption DEF ArithmeticOnly
<1>4. Len(p) \in Nat /\ last \in Nat /\ last >= 1
  BY <1>3 DEF Arithmetic
<1>5. ASSUME NEW k \in Int, 0 <= k, k <= last, k < MemSize
      PROVE  Code[k] = Fields[p[k + 1]]
  <2>1. k \in Address
    BY <1>5, MemoryAssumption DEF Address
  <2>2. memory[k] = p[k + 1]
    BY <1>1, <1>4, <1>5, <2>1 DEF LoadedMemory
  <2> QED BY <2>1, <2>2 DEF Code
<1>6. IsProgram(Code, last)
  <2>1. ASSUME NEW k \in 0 .. last - 2, k < MemSize PROVE Ordinary(Code[k])
    <3>1. k + 1 \in 1 .. Len(p) - 2
      BY <1>4, <2>1
    <3>2. Code[k] = Fields[p[k + 1]]
      BY <1>4, <1>5, <2>1
    <3> QED BY <1>3, <3>1, <3>2 DEF Arithmetic
  <2>2. last - 1 < MemSize => Code[last - 1] = Fields[p[Len(p) - 1]]
    BY <1>4, <1>5
  <2>3. last < MemSize => Code[last] = Fields[p[Len(p)]]
    BY <1>4, <1>5
  <2> QED BY <1>3, <1>4, <2>1, <2>2, <2>3 DEF IsProgram, Arithmetic
<1>7. registers \in Registers
  BY InitIInv DEF BothInit, IInv, TypeOK
<1>8. History(Code, t, 0) /\ t \in [Int -> Registers] /\ t[0] = registers
  BY <1>2, <1>7 DEF History, ArithmeticOnly
<1>9. memory = ref_memory /\ AtStart /\ ref_pc = 0 /\ ref_registers = registers
  BY DEF BothInit, Init, AtStart
<1> QED BY <1>4, <1>6, <1>8, <1>9 DEF Referring

(* Every step of either engine keeps the invariant. *)
LEMMA NextConforms ==
  ArithmeticOnly /\ IInv /\ ConformanceInv /\ NumbersApart /\ NumbersApart'
    /\ [BothNext]_both_vars => ConformanceInv'
<1> SUFFICES ASSUME ArithmeticOnly, IInv, ConformanceInv, NumbersApart, NumbersApart',
                    [BothNext]_both_vars
             PROVE  ConformanceInv'
  OBVIOUS
<1>1. CASE UNCHANGED both_vars
  <2>1. UNCHANGED vars /\ UNCHANGED ref_vars
    BY <1>1 DEF both_vars
  <2>2. Following => Following'
    BY <2>1, PipelineFollows
  <2>3. ASSUME Referring PROVE Referring'
    <3>1. Code' = Code /\ (AtStart => AtStart')
      BY <2>1 DEF vars, Code, AtStart
    <3>2. /\ memory' = memory /\ registers' = registers /\ ref_pc' = ref_pc
          /\ ref_registers' = ref_registers /\ ref_memory' = ref_memory
      BY <2>1 DEF vars, ref_vars
    <3> QED BY <2>3, <3>1, <3>2 DEF Referring, IsProgram, History
  <2> QED BY <2>1, <2>2, <2>3 DEF ConformanceInv, ref_vars
<1>2. CASE ReferenceStep
  BY <1>2, ReferenceRuns, ReferenceFollows DEF ReferenceStep, ConformanceInv, ArithmeticOnly
<1>3. CASE PipelineStep
  <2>1. ref_status' = ref_status /\ UNCHANGED ref_vars /\ Next /\ ref_status # "running"
    BY <1>3 DEF PipelineStep, ref_vars
  <2> QED BY <2>1, PipelineFollows DEF ConformanceInv
<1> QED BY <1>1, <1>2, <1>3 DEF BothNext

(* The pipeline's own invariant holds beside the reference. *)
LEMMA BothIInv == BothSpec => []IInv
<1>1. BothInit => IInv
  BY InitIInv DEF BothInit
<1>2. IInv /\ [BothNext]_both_vars => IInv'
  <2> SUFFICES ASSUME IInv, [BothNext]_both_vars PROVE IInv'
    OBVIOUS
  <2>1. [Next]_vars
    BY DEF BothNext, ReferenceStep, PipelineStep, both_vars
  <2> QED BY <2>1, NextIInv
<1> QED BY <1>1, <1>2, PTL DEF BothSpec

(***************************************************************************)
(* What the text shows of the contents                                     *)
(***************************************************************************)
(* the reference is where the bounds of its program say *)
IsWithin(p, within) ==
  /\ Len(p) <= MemSize /\ memory = LoadedMemory(p) /\ ref_memory = memory
  /\ StaysWithin(p, within) /\ KeepsApart(p, within)
  /\ ref_registers \in Registers /\ ref_registers[0] = 0
  /\ ref_pc \in 0 .. Len(p) - 1
  /\ ref_pc <= Len(p) - 2 => \A r \in Reg : ref_registers[r] \in within[ref_pc][r]
  /\ ref_pc = Len(p) - 1 => ref_registers[V0] \in {EXIT, EXIT_STATUS}
Within(p) == ref_status = "running" => \E within \in Bounds(p) : IsWithin(p, within)

(* The instruction at an address of the text. *)
LEMMA TextFacts ==
  ASSUME ArithmeticOnly, NEW p \in Programs, Len(p) <= MemSize,
         NEW n \in 0 .. Len(p) - 1
  PROVE  /\ Len(p) \in Nat /\ Len(p) >= 2 /\ InMemory(n) /\ n \in Address
         /\ LoadedMemory(p)[n] = p[n + 1] /\ n + 1 \in 1 .. Len(p)
         /\ p[n + 1] \in Word /\ Fields[p[n + 1]] \in Instruction
         /\ n <= Len(p) - 3 => Ordinary(Fields[p[n + 1]])
         /\ n = Len(p) - 2 => Exits(Fields[p[n + 1]])
         /\ n = Len(p) - 1 => Fields[p[n + 1]].op = "SYSCALL"
<1>1. p \in Seq(Word) /\ Arithmetic(p)
  BY ProgramAssumption DEF ArithmeticOnly
<1>2. Len(p) \in Nat /\ Len(p) >= 2 /\ n \in Nat /\ n < Len(p) /\ n + 1 \in 1 .. Len(p)
  BY <1>1 DEF Arithmetic
<1>3. InMemory(n) /\ n \in Address /\ LoadedMemory(p)[n] = p[n + 1]
  BY <1>2, MemoryAssumption DEF InMemory, Address, LoadedMemory
<1>4. p[n + 1] \in Word /\ Fields[p[n + 1]] \in Instruction
  BY <1>1, <1>2, FieldsAssumption
<1>5. n <= Len(p) - 3 => n + 1 \in 1 .. Len(p) - 2
  BY <1>2
<1>6. n = Len(p) - 2 => n + 1 = Len(p) - 1
  BY <1>2
<1>7. n = Len(p) - 1 => n + 1 = Len(p)
  BY <1>2
<1> QED BY <1>1, <1>2, <1>3, <1>4, <1>5, <1>6, <1>7 DEF Arithmetic

(* A result depends on the operands alone. *)
LEMMA ResultOfOperands ==
  ASSUME NEW i \in Instruction, NEW regs
  PROVE  Result(i, [r \in Reg |-> IF r = i.rs THEN regs[i.rs] ELSE regs[i.rt]]) = Result(i, regs)
BY FieldFacts DEF Result

(* An instruction carries contents within bounds to contents within the    *)
(* next.                                                                   *)
LEMMA BoundsCarry ==
  ASSUME NEW i \in Instruction, Alu(i), NEW regs \in Registers, NEW before, NEW after,
         Carries(i, before, after), \A r \in Reg : regs[r] \in before[r]
  PROVE  \A r \in Reg : After(regs, i)[r] \in after[r]
<1>1. i.rs \in Reg /\ i.rt \in Reg
  BY FieldFacts
<1>2. Result(i, regs) \in after[Writes(i)]
  BY <1>1, ResultOfOperands DEF Carries
<1>3. ASSUME NEW r \in Reg PROVE After(regs, i)[r] \in after[r]
  <2>1. CASE r = Writes(i)
    BY <1>2, <2>1, AfterFacts
  <2>2. CASE r # Writes(i)
    BY <2>2, AfterFacts DEF Carries
  <2> QED BY <2>1, <2>2
<1> QED BY <1>3

(* The memory names the registers the text does. *)
LEMMA NamesFromText ==
  ASSUME ArithmeticOnly, NEW p \in Programs, memory = LoadedMemory(p)
  PROVE  Names(Code) \subseteq NamesOf(p)
<1>1. p \in Seq(Word) /\ Len(p) \in Nat
  BY ProgramAssumption
<1>2. ASSUME NEW a \in Address, NEW r \in Reads(Code[a]) \cup {Writes(Code[a])}, r # 0
      PROVE  r \in NamesOf(p)
  <2>1. a \in Int /\ a \in Nat /\ Code[a] = Fields[memory[a]]
    BY AddressFacts, MemoryAssumption DEF Code, Address
  <2>2. CASE a < Len(p)
    <3>1. a + 1 \in 1 .. Len(p) /\ memory[a] = p[a + 1]
      BY <1>1, <2>1, <2>2 DEF LoadedMemory
    <3> QED BY <1>2, <2>1, <3>1 DEF NamesOf
  <2>3. CASE ~(a < Len(p))
    <3>1. Nop(Code[a])
      BY <2>1, <2>3 DEF LoadedMemory, ArithmeticOnly
    <3> QED BY <1>2, <3>1 DEF Nop, Reads, Writes
  <2> QED BY <2>2, <2>3
<1> QED BY <1>2 DEF Names

(* The presets are within the bounds. *)
LEMMA InitWithin ==
  ASSUME ArithmeticOnly, TextBound < MemSize, BothInit,
         NEW p \in Programs, TextKeepsApart(p), Loadable(p), memory = LoadedMemory(p)
  PROVE  Within(p)
<1>1. PICK s \in Presets : registers = InitialRegisters(s)
  BY DEF BothInit, Init
<1>2. PICK within \in Bounds(p) : StaysWithin(p, within) /\ KeepsApart(p, within)
  BY DEF TextKeepsApart
<1>3. Len(p) \in Nat /\ Len(p) >= 2 /\ Len(p) <= MemSize
  BY MemoryAssumption, WordFacts, ProgramAssumption DEF Loadable, ArithmeticOnly, Arithmetic, Word
<1>4. registers \in Registers /\ registers[0] = 0
  BY <1>1, InitIInv DEF BothInit, IInv, TypeOK, ArithmeticOnly
<1>5. \A r \in Reg : registers[r] \in within[0][r]
  BY <1>1, <1>2 DEF StaysWithin
<1>6. ref_pc = 0 /\ ref_registers = registers /\ ref_memory = memory
  BY DEF BothInit, Init
<1>7. IsWithin(p, within)
  <2>1. ref_pc \in 0 .. Len(p) - 1 /\ ref_pc # Len(p) - 1
    <3>1. \A n \in Nat : n >= 2 => 0 \in 0 .. n - 1 /\ 0 # n - 1
      OBVIOUS
    <3> QED BY <1>3, <1>6, <3>1
  <2>2. ref_registers \in Registers /\ ref_registers[0] = 0
    BY <1>4, <1>6
  <2>3. \A r \in Reg : ref_registers[r] \in within[ref_pc][r]
    BY <1>5, <1>6
  <2> QED BY <1>2, <1>3, <1>6, <2>1, <2>2, <2>3 DEF IsWithin
<1> QED BY <1>7 DEF Within

(* Within the bounds the reference executes one instruction after the      *)
(* other, as the text says, until the call halts it.                       *)
LEMMA ReferenceExecutes ==
  ASSUME ArithmeticOnly, NEW p \in Programs, NEW within \in Bounds(p), IsWithin(p, within),
         ref_status = "running", Ref!Next
  PROVE  /\ ref_pc \in Nat /\ ref_memory' = ref_memory
         /\ \/ /\ ref_pc = Len(p) - 1
               /\ ref_status' = "halted" /\ ref_registers' = ref_registers
            \/ /\ ref_pc \in 0 .. Len(p) - 2
               /\ ref_pc' = ref_pc + 1 /\ ref_status' = "running"
               /\ ref_registers' = After(ref_registers, Fields[p[ref_pc + 1]])
               /\ Alu(Fields[p[ref_pc + 1]]) /\ Writes(Fields[p[ref_pc + 1]]) # 0
               /\ Fields[p[ref_pc + 1]] \in Instruction
               /\ ref_pc <= Len(p) - 3 =>
                    \A r \in Reg : ref_registers'[r] \in within[ref_pc + 1][r]
               /\ ref_pc = Len(p) - 2 => Exits(Fields[p[ref_pc + 1]])
<1> USE DEF IsWithin
<1> DEFINE i == Fields[p[ref_pc + 1]]
<1>3. /\ Len(p) \in Nat /\ Len(p) >= 2 /\ InMemory(ref_pc) /\ ref_pc + 1 \in 1 .. Len(p)
      /\ i = Fields[ref_memory[ref_pc]] /\ i \in Instruction
      /\ ref_pc <= Len(p) - 3 => Ordinary(i)
      /\ ref_pc = Len(p) - 2 => Exits(i)
      /\ ref_pc = Len(p) - 1 => i.op = "SYSCALL"
  BY TextFacts
<1>5. CASE ref_pc = Len(p) - 1
  <2>1. ref_registers[V0] \in {EXIT, EXIT_STATUS} /\ Fields[ref_memory[ref_pc]].op = "SYSCALL"
    BY <1>3, <1>5
  <2>2. ref_registers' = ref_registers /\ ref_memory' = ref_memory /\ ref_status' = "halted"
    BY <1>3, <2>1, ReferenceHalts
  <2>3. ref_pc \in Nat
    BY <1>3, <1>5
  <2> QED BY <1>5, <2>2, <2>3
<1>6. CASE ref_pc # Len(p) - 1
  <2>1. ref_pc \in Nat /\ ref_pc <= Len(p) - 2 /\ (ref_pc <= Len(p) - 3 \/ ref_pc = Len(p) - 2)
    BY <1>3, <1>6
  <2>2. Alu(i) /\ Writes(i) # 0 /\ (i.op = "ADDI" => ref_pc <= Len(p) - 3 /\ i.rs # SP)
    <3>1. CASE ref_pc <= Len(p) - 3
      BY <1>3, <3>1 DEF Ordinary, SpTwice
    <3>2. CASE ref_pc = Len(p) - 2
      BY <1>3, <3>2 DEF Exits, Alu, AluImm, Writes, V0
    <3> QED BY <2>1, <3>1, <3>2
  <2>3. ref_pc' = ref_pc + 1 /\ ref_status' = "running" /\ ref_memory' = ref_memory
    BY <1>3, <2>1, <2>2, ReferenceGoesOn
  <2>4. ref_pc <= Len(p) - 3 => \A r \in Reg : After(ref_registers, i)[r] \in within[ref_pc + 1][r]
    <3> SUFFICES ASSUME ref_pc <= Len(p) - 3
                 PROVE  \A r \in Reg : After(ref_registers, i)[r] \in within[ref_pc + 1][r]
      OBVIOUS
    <3>1. ref_pc + 1 \in 1 .. Len(p) - 2 /\ (ref_pc + 1) - 1 = ref_pc
      BY <1>3, <2>1
    <3>2. Carries(i, within[ref_pc], within[ref_pc + 1])
      BY <3>1 DEF StaysWithin
    <3> QED BY <1>3, <2>1, <2>2, <3>2, BoundsCarry
  <2>5. ASSUME i.op = "ADDI", i.rs # 0 PROVE After(ref_registers, i)[i.rs] # SP
    <3>1. i.rs \in Reg /\ After(ref_registers, i)[i.rs] \in within[ref_pc + 1][i.rs]
      BY <1>3, <2>2, <2>4, <2>5, FieldFacts
    <3>2. i.rs \in NamesOf(p)
      <4>1. i.rs \in Reads(Fields[p[ref_pc + 1]])
        BY DEF Reads
      <4>2. i.rs \in UNION {Reads(Fields[p[k]]) \cup {Writes(Fields[p[k]])} : k \in 1 .. Len(p)}
        BY <1>3, <4>1
      <4> QED BY <2>5, <4>2 DEF NamesOf
    <3>3. ref_pc + 1 \in 0 .. Len(p) - 2
      BY <1>3, <2>1, <2>2, <2>5
    <3>4. within[ref_pc + 1][i.rs] \cap (NamesOf(p) \cup {SP}) = {}
      BY <3>2, <3>3 DEF KeepsApart
    <3> QED BY <3>1, <3>4
  <2>6. ref_registers' = After(ref_registers, i)
    BY <1>3, <2>2, <2>5, ReferenceComputes
  <2> QED BY <1>3, <2>1, <2>2, <2>3, <2>4, <2>6
<1> QED BY <1>3, <1>5, <1>6

(* It stays within them. *)
LEMMA ReferenceStaysWithin ==
  ASSUME ArithmeticOnly, NEW p \in Programs, Within(p), ref_status = "running", Ref!Next,
         UNCHANGED vars
  PROVE  Within(p)'
<1>1. PICK within \in Bounds(p) : IsWithin(p, within)
  BY DEF Within
<1> DEFINE i == Fields[p[ref_pc + 1]]
<1>2. ref_memory' = ref_memory /\ memory' = memory
  BY <1>1, ReferenceExecutes DEF vars
<1>3. CASE ref_status' = "halted"
  BY <1>3 DEF Within
<1>4. CASE /\ ref_pc \in 0 .. Len(p) - 2
           /\ ref_pc' = ref_pc + 1 /\ ref_status' = "running"
           /\ ref_registers' = After(ref_registers, i)
           /\ Alu(i) /\ Writes(i) # 0 /\ i \in Instruction
           /\ ref_pc <= Len(p) - 3 => \A r \in Reg : ref_registers'[r] \in within[ref_pc + 1][r]
           /\ ref_pc = Len(p) - 2 => Exits(i)
  <2>1. Len(p) \in Nat
    BY ProgramAssumption
  <2>2. ref_registers' \in Registers /\ ref_registers'[0] = 0
    <3>1. 0 \in Reg
      BY DEF Reg
    <3> QED BY <1>1, <1>4, <3>1, AfterFacts DEF IsWithin
  <2>3. ref_pc' = Len(p) - 1 => ref_registers'[V0] \in {EXIT, EXIT_STATUS}
    <3> SUFFICES ASSUME ref_pc' = Len(p) - 1 PROVE ref_registers'[V0] \in {EXIT, EXIT_STATUS}
      OBVIOUS
    <3>1. Exits(i)
      BY <1>4, <2>1
    <3>2. ref_registers'[Writes(i)] = Result(i, ref_registers)
      BY <1>1, <1>4, AfterFacts DEF IsWithin
    <3> QED BY <3>1, <3>2 DEF Exits, Writes, Result, ImmediateResult
  <2>4. ref_pc' \in 0 .. Len(p) - 1 /\ (ref_pc' <= Len(p) - 2 => ref_pc <= Len(p) - 3)
    BY <1>4, <2>1
  <2>5. ref_pc' <= Len(p) - 2 => \A r \in Reg : ref_registers'[r] \in within[ref_pc'][r]
    BY <1>4, <2>4
  <2> QED BY <1>1, <1>2, <2>2, <2>3, <2>4, <2>5 DEF Within, IsWithin, StaysWithin, KeepsApart
<1> QED BY <1>1, <1>3, <1>4, ReferenceExecutes

(* Every step of either engine does. *)
LEMMA NextWithin ==
  ASSUME ArithmeticOnly, NEW p \in Programs, Within(p), [BothNext]_both_vars
  PROVE  Within(p)'
<1>1. CASE UNCHANGED both_vars
  BY <1>1 DEF both_vars, vars, ref_vars, Within, IsWithin, StaysWithin, KeepsApart
<1>2. CASE ReferenceStep
  BY <1>2, ReferenceStaysWithin, ReferenceRuns DEF ReferenceStep
<1>3. CASE PipelineStep
  BY <1>3 DEF PipelineStep, ref_vars, Within
<1> QED BY <1>1, <1>2, <1>3 DEF BothNext

(* Within its bounds a program keeps its numbers apart. *)
LEMMA WithinIsApart ==
  ASSUME ArithmeticOnly, NEW p \in Programs, Within(p)
  PROVE  NumbersApart
<1> SUFFICES ASSUME ref_status = "running", Code[ref_pc].op # "SYSCALL"
             PROVE  Apart(Code, ref_registers)
  BY DEF NumbersApart
<1>2. PICK within \in Bounds(p) : IsWithin(p, within)
  BY DEF Within
<1> USE <1>2 DEF IsWithin
<1>3. /\ Len(p) \in Nat /\ ref_pc \in Address /\ Code[ref_pc] = Fields[p[ref_pc + 1]]
      /\ ref_pc = Len(p) - 1 => Fields[p[ref_pc + 1]].op = "SYSCALL"
  BY TextFacts, AddressFacts DEF Code
<1>4. ref_pc \in 0 .. Len(p) - 2
  BY <1>3
<1>5. Names(Code) \subseteq NamesOf(p)
  BY NamesFromText
<1>6. ASSUME NEW r \in Names(Code) PROVE ref_registers[r] \notin Names(Code) \cup {SP}
  <2>1. r \in NamesOf(p) /\ r \in Reg
    <3>1. ASSUME NEW k \in 1 .. Len(p)
          PROVE  Reads(Fields[p[k]]) \cup {Writes(Fields[p[k]])} \subseteq Reg
      <4>1. k - 1 \in 0 .. Len(p) - 1 /\ (k - 1) + 1 = k
        BY <1>3
      <4>2. Fields[p[k]] \in Instruction
        BY <4>1, TextFacts
      <4> QED BY <4>2, FieldFacts DEF Reads
    <3> QED BY <1>5, <3>1 DEF NamesOf
  <2>2. within[ref_pc][r] \cap (NamesOf(p) \cup {SP}) = {}
    BY <1>4, <2>1 DEF KeepsApart
  <2> QED BY <1>4, <1>5, <2>1, <2>2
<1> QED BY <1>6 DEF Apart

(* A program keeps the numbers of its registers apart from their contents  *)
(* if its text says so: bounds on the contents, carried from instruction   *)
(* to instruction, that no number lies in.  Nothing is asked of what the   *)
(* machine does.                                                           *)
THEOREM TextDecidesApart ==
  ArithmeticOnly /\ TextBound < MemSize /\ (\A p \in Programs : TextKeepsApart(p))
    => (BothSpec => []NumbersApart)
<1> SUFFICES ASSUME ArithmeticOnly, TextBound < MemSize, \A p \in Programs : TextKeepsApart(p)
             PROVE  BothSpec => []NumbersApart
  OBVIOUS
<1> DEFINE WithinText == \E p \in Programs : Within(p)
<1>1. BothInit => WithinText
  <2> SUFFICES ASSUME BothInit PROVE WithinText
    OBVIOUS
  <2>1. PICK p \in Programs : Loadable(p) /\ memory = LoadedMemory(p)
    BY DEF BothInit, Init
  <2> QED BY <2>1, InitWithin
<1>2. WithinText /\ [BothNext]_both_vars => WithinText'
  BY NextWithin
<1>3. WithinText => NumbersApart
  BY WithinIsApart
<1> QED BY <1>1, <1>2, <1>3, PTL DEF BothSpec

(* Overlapping the instructions of an arithmetic program, of any length    *)
(* and on words of any width, is not observable: run_pipeline leaves the   *)
(* registers and the memory run leaves, as long as the numbers of the      *)
(* registers stay apart from their contents.                               *)
THEOREM EnginesAgree == ArithmeticOnly => (BothSpec /\ []NumbersApart => []Conforms)
<1> SUFFICES ASSUME ArithmeticOnly PROVE BothSpec /\ []NumbersApart => []Conforms
  OBVIOUS
<1>1. BothInit => ConformanceInv
  BY InitConforms
<1>2. IInv /\ ConformanceInv /\ NumbersApart /\ NumbersApart' /\ [BothNext]_both_vars
        => ConformanceInv'
  BY NextConforms
<1>3. ConformanceInv => Conforms
  BY DEF ConformanceInv, Following, Conforms, BothHalted, RegistersAre
<1> QED BY <1>1, <1>2, <1>3, BothIInv, PTL DEF BothSpec

(* Both engines agree on every arithmetic program whose text keeps numbers *)
(* and contents apart.                                                     *)
THEOREM TextDecidesAgreement ==
  ArithmeticOnly /\ TextBound < MemSize /\ (\A p \in Programs : TextKeepsApart(p))
    => (BothSpec => []Conforms)
<1> SUFFICES ASSUME ArithmeticOnly, TextBound < MemSize, \A p \in Programs : TextKeepsApart(p)
             PROVE  BothSpec => []Conforms
  OBVIOUS
<1>1. BothSpec => []NumbersApart
  BY TextDecidesApart
<1>2. BothSpec /\ []NumbersApart => []Conforms
  BY EnginesAgree
<1> QED BY <1>1, <1>2, PTL

(***************************************************************************)
(* What both engines compute                                               *)
(***************************************************************************)

(* The reference has executed the first n instructions of the text.        *)
RunsTo(p, s, n) ==
  /\ n \in 0 .. Len(p) - 1
  /\ ref_memory = LoadedMemory(p)
  /\ IF ref_status = "running" THEN ref_pc = n ELSE n = Len(p) - 1
  /\ \E run \in [0 .. n -> Registers] : IsRun(p, s, run, n) /\ ref_registers = run[n]
Runs(p, s) == \E n \in Nat : RunsTo(p, s, n)

(* A run is longer by an instruction.                                      *)
LEMMA RunExtends ==
  ASSUME NEW p, NEW s, NEW n \in Nat, NEW run \in [0 .. n -> Registers], IsRun(p, s, run, n),
         After(run[n], Fields[p[n + 1]]) \in Registers
  PROVE  \E longer \in [0 .. n + 1 -> Registers] :
           IsRun(p, s, longer, n + 1) /\ longer[n + 1] = After(run[n], Fields[p[n + 1]])
<1> DEFINE longer == [k \in 0 .. n + 1 |->
                        IF k = n + 1 THEN After(run[n], Fields[p[n + 1]]) ELSE run[k]]
<1>1. /\ \A k \in 0 .. n : k \in 0 .. n + 1 /\ k # n + 1
      /\ n + 1 \in 0 .. n + 1 /\ (n + 1) - 1 = n /\ 0 \in 0 .. n /\ n \in 0 .. n
  OBVIOUS
<1>2. /\ \A k \in 0 .. n : longer[k] = run[k]
      /\ longer[n + 1] = After(run[n], Fields[p[n + 1]])
  BY <1>1
<1>3. longer \in [0 .. n + 1 -> Registers]
  <2>1. ASSUME NEW k \in 0 .. n + 1, k # n + 1 PROVE run[k] \in Registers
    <3>1. k \in 0 .. n
      BY <2>1
    <3> QED BY <3>1
  <2> QED BY <2>1
<1>4. ASSUME NEW k \in 1 .. n + 1 PROVE longer[k] = After(longer[k - 1], Fields[p[k]])
  <2>1. CASE k = n + 1
    BY <1>1, <1>2, <2>1
  <2>2. CASE k # n + 1
    <3>1. k \in 1 .. n /\ k \in 0 .. n /\ k - 1 \in 0 .. n
      BY <2>2
    <3> HIDE DEF longer
    <3>2. longer[k] = run[k] /\ longer[k - 1] = run[k - 1]
      BY <1>2, <3>1
    <3> QED BY <3>1, <3>2 DEF IsRun
  <2> QED BY <2>1, <2>2
<1>5. longer[0] = InitialRegisters(s)
  BY <1>1, <1>2 DEF IsRun
<1> HIDE DEF longer
<1>6. IsRun(p, s, longer, n + 1)
  BY <1>3, <1>4, <1>5 DEF IsRun
<1> QED BY <1>2, <1>3, <1>6

(* Before the first instruction.                                           *)
LEMMA InitRuns ==
  ASSUME BothInit, ArithmeticOnly, NEW p \in Programs, NEW s \in Presets,
         memory = LoadedMemory(p), registers = InitialRegisters(s)
  PROVE  Runs(p, s)
<1> DEFINE run == [k \in 0 .. 0 |-> registers]
<1>1. registers \in Registers
  BY InitIInv DEF BothInit, IInv, TypeOK
<1>2. Len(p) \in Nat /\ Len(p) >= 2
  BY ProgramAssumption DEF ArithmeticOnly, Arithmetic
<1>3. run \in [0 .. 0 -> Registers] /\ run[0] = registers /\ 1 .. 0 = {}
  BY <1>1
<1>4. IsRun(p, s, run, 0)
  BY <1>3 DEF IsRun
<1>5. ref_pc = 0 /\ ref_registers = registers /\ ref_memory = memory /\ ref_status = "running"
  BY DEF BothInit, Init
<1> HIDE DEF run
<1>6. 0 \in Nat /\ 0 \in 0 .. Len(p) - 1
  BY <1>2
<1> QED BY <1>3, <1>4, <1>5, <1>6 DEF Runs, RunsTo

(* A step of the reference is the next instruction of the text.            *)
LEMMA NextRuns ==
  ASSUME ArithmeticOnly, NEW p \in Programs, NEW s \in Presets, Within(p), Runs(p, s),
         [BothNext]_both_vars
  PROVE  Runs(p, s)'
<1>1. PICK n \in Nat : RunsTo(p, s, n)
  BY DEF Runs
<1>2. CASE UNCHANGED ref_vars
  BY <1>1, <1>2 DEF ref_vars, Runs, RunsTo, IsRun
<1>3. CASE ReferenceStep
  <2>1. ref_status = "running" /\ Ref!Next /\ ref_pc = n
    BY <1>1, <1>3, ReferenceRuns DEF ReferenceStep, RunsTo
  <2>2. PICK within \in Bounds(p) : IsWithin(p, within)
    BY <2>1 DEF Within
  <2>3. PICK run \in [0 .. n -> Registers] : IsRun(p, s, run, n) /\ ref_registers = run[n]
    BY <1>1 DEF RunsTo
  <2> DEFINE i == Fields[p[n + 1]]
  <2>4. ref_memory' = LoadedMemory(p)
    BY <1>1, <2>1, <2>2, ReferenceExecutes DEF RunsTo
  <2>5. CASE ref_pc = Len(p) - 1 /\ ref_status' = "halted" /\ ref_registers' = ref_registers
    BY <1>1, <2>1, <2>3, <2>4, <2>5 DEF Runs, RunsTo, IsRun
  <2>6. CASE /\ ref_pc \in 0 .. Len(p) - 2
             /\ ref_pc' = ref_pc + 1 /\ ref_status' = "running"
             /\ ref_registers' = After(ref_registers, i)
             /\ Alu(i) /\ Writes(i) # 0 /\ i \in Instruction
    <3>1. n + 1 \in Nat /\ n + 1 \in 0 .. Len(p) - 1
      BY <2>1, <2>6, ProgramAssumption
    <3>2. After(run[n], i) \in Registers
      BY <2>2, <2>3, <2>6, AfterFacts DEF IsWithin
    <3>3. \E longer \in [0 .. n + 1 -> Registers] :
            IsRun(p, s, longer, n + 1) /\ longer[n + 1] = After(run[n], i)
      BY <2>3, <3>2, RunExtends
    <3>4. RunsTo(p, s, n + 1)'
      BY <2>1, <2>3, <2>4, <2>6, <3>1, <3>3 DEF RunsTo, IsRun
    <3> QED BY <3>1, <3>4 DEF Runs
  <2> QED BY <2>1, <2>2, <2>5, <2>6, ReferenceExecutes
<1>4. CASE PipelineStep
  BY <1>2, <1>4 DEF PipelineStep
<1> QED BY <1>2, <1>3, <1>4 DEF BothNext, both_vars

(* When the reference has halted the run is complete.                      *)
LEMMA HaltedHoldsRun ==
  ASSUME NEW p \in Programs, NEW s \in Presets, Runs(p, s), Conforms, BothHalted
  PROVE  HoldsRun(p, s)
<1>1. PICK n \in Nat : RunsTo(p, s, n)
  BY DEF Runs
<1>2. n = Len(p) - 1 /\ ref_memory = LoadedMemory(p)
  BY <1>1 DEF RunsTo, BothHalted
<1>3. PICK run \in [0 .. n -> Registers] : IsRun(p, s, run, n) /\ ref_registers = run[n]
  BY <1>1 DEF RunsTo
<1> QED BY <1>2, <1>3 DEF HoldsRun, Conforms

(* What the engines compute is what the text says, read one instruction    *)
(* after the other: when both have halted, run() has in its registers what *)
(* the instructions up to the call make of the presets, run_pipeline() has *)
(* it in every register but those a call reloads, and neither has touched  *)
(* the memory.                                                             *)
THEOREM EnginesComputeText ==
  ASSUME ArithmeticOnly, TextBound < MemSize, \A q \in Programs : TextKeepsApart(q),
         NEW p \in Programs, Loadable(p), NEW s \in Presets
  PROVE  BothSpec /\ memory = LoadedMemory(p) /\ registers = InitialRegisters(s)
           => [](BothHalted => HoldsRun(p, s))
<1>1. BothInit /\ memory = LoadedMemory(p) /\ registers = InitialRegisters(s)
        => Within(p) /\ Runs(p, s)
  BY InitWithin, InitRuns
<1>2. Within(p) /\ Runs(p, s) /\ [BothNext]_both_vars => Within(p)' /\ Runs(p, s)'
  BY NextWithin, NextRuns
<1>3. Runs(p, s) /\ Conforms => (BothHalted => HoldsRun(p, s))
  BY HaltedHoldsRun
<1>4. BothSpec => []Conforms
  BY TextDecidesAgreement
<1> QED BY <1>1, <1>2, <1>3, <1>4, PTL DEF BothSpec

==============================================================================
