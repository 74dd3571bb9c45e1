--------------------------- MODULE PipelineProofs ----------------------------
(***************************************************************************)
(* Proofs about the five-stage engine, for every word width, memory size,  *)
(* decoding, program and console.                                          *)
(***************************************************************************)
EXTENDS Pipeline, MachineProofs

(***************************************************************************)
(* The inductive invariant                                                 *)
(***************************************************************************)
(* The signals in MEM/WB are those of the instruction in EX/MEM, until     *)
(* mem() has begun to replace them.                                        *)
SignalsOfExMem ==
  stage # "EX" => \/ mem_wb.ctl = SetControlSignals(NoSignals, ex_mem.opcode)
                  \/ ex_mem.opcode = "R_TYPE"

(* The signals in EX/MEM are those of the instruction in ID/EX, or what a  *)
(* flushed one left behind; execute() has cleared them before decode().    *)
SignalsOfIdEx ==
  IF stage = "ID" THEN ex_mem.ctl = NoSignals
  ELSE \/ ex_mem.ctl = SetControlSignals(NoSignals, id_ex.opcode)
       \/ id_ex.opcode = "R_TYPE"

(* Where execute() takes id_ex.rd for the number of a register, it is one, *)
(* unless the instruction is one that is misread.                          *)
RdIsNumber ==
  ex_mem.ctl.alu_op = 10 /\ id_ex.opcode \notin Misread => id_ex.rd \in Reg

IInv ==
  /\ TypeOK
  /\ HazardUnitIdle
  /\ ForwardingConsumed
  /\ RedirectWithinTurn
  /\ BranchOperandsZero
  /\ SignalsOfExMem
  /\ SignalsOfIdEx
  /\ RdIsNumber
  /\ DestinationIsNumber

(* The records the pipeline starts from and resets to are typed. *)
LEMMA Constants ==
  /\ NoSignals \in Signals
  /\ IfIdReset \in IfIdSet
  /\ IdExReset \in IdExSet
  /\ ExMemReset \in ExMemSet
  /\ MemWbReset \in MemWbSet
  /\ ControlUnitInit \in ControlUnitSet
BY WordFacts DEF NoSignals, Signals, Bit, AluOp, Forward, IfIdReset, IfIdSet, IdExReset,
  IdExSet, ExMemReset, ExMemSet, MemWbReset, MemWbSet, ControlUnitInit, ControlUnitSet,
  Opcodes, Functions, Reg, A0, A3

(* The inductive invariant holds of every initial pipeline. *)
LEMMA InitIInv == Init => IInv
<1> SUFFICES ASSUME Init PROVE IInv
  OBVIOUS
<1>1. registers \in Registers
  <2>1. \A s \in Presets : InitialRegisters(s) \in Registers
    BY ProgramAssumption, MemoryAssumption, WordFacts DEF InitialRegisters, Registers
  <2> QED BY <2>1 DEF Init
<1>2. memory \in Memory
  <2>1. \A p \in Programs : LoadedMemory(p) \in Memory
    BY ProgramAssumption, AddressFacts, WordFacts DEF LoadedMemory, Memory
  <2> QED BY <2>1 DEF Init
<1>3. TypeOK
  BY <1>1, <1>2, Constants, WordFacts
  DEF TypeOK, Init, Status, NoFlags, FlagSet, Bit
<1> QED
  BY <1>3 DEF Init, IInv, HazardUnitIdle, ForwardingConsumed, RedirectWithinTurn,
    BranchOperandsZero, SignalsOfExMem, SignalsOfIdEx, RdIsNumber, DestinationIsNumber,
    IdExReset, ExMemReset, MemWbReset, NoSignals, ControlUnitInit, SetControlSignals, Reg

(* What is written to a register, or beyond them, leaves words in them. *)
LEMMA WrittenTyped ==
  ASSUME registers \in Registers, NEW r, NEW v \in Word PROVE Written(r, v) \in Registers
BY DEF Written, Registers

(* write_back() keeps the inductive invariant. *)
LEMMA WBStep == IInv /\ WB => IInv'
<1> SUFFICES ASSUME IInv, WB PROVE IInv'
  OBVIOUS
<1>1. ~StallResolved /\ RegWrite = mem_wb.ctl.reg_write
  BY DEF IInv, HazardUnitIdle, StallResolved, RegWrite
<1>2. registers' \in Registers
  <2>1. RegWrite # 1 => registers' = registers
    BY DEF IInv, TypeOK, WB, WrittenBack, Written, Registers
  <2>2. RegWrite = 1 => WrittenBack \in Word \/ registers' = registers
    BY DEF IInv, TypeOK, WB, WrittenBack, Written, Registers, MemWbSet
  <2> QED BY <2>1, <2>2, WrittenTyped DEF IInv, TypeOK, WB
<1>3. control_unit' \in ControlUnitSet
  BY <1>1 DEF IInv, TypeOK, WB, ControlUnitSet, Forward
<1>4. mem_wb' \in MemWbSet /\ mem_wb'.ctl = mem_wb.ctl
  BY <1>1 DEF IInv, TypeOK, WB, MemWbSet, Signals
<1>5. TypeOK'
  BY <1>2, <1>3, <1>4 DEF IInv, TypeOK, WB, ControlUnitSet, Bit, HazardUnitIdle
<1>6. /\ HazardUnitIdle' /\ ForwardingConsumed' /\ RedirectWithinTurn' /\ BranchOperandsZero'
  BY <1>1 DEF IInv, TypeOK, WB, HazardUnitIdle, ForwardingConsumed, RedirectWithinTurn,
    BranchOperandsZero, ControlUnitSet
<1>7. SignalsOfExMem' /\ SignalsOfIdEx' /\ RdIsNumber'
  BY <1>4 DEF IInv, WB, SignalsOfExMem, SignalsOfIdEx, RdIsNumber
<1>8. DestinationIsNumber'
  BY DEF IInv, TypeOK, WB, MemWbSet, DestinationIsNumber
<1> QED BY <1>5, <1>6, <1>7, <1>8 DEF IInv

(* A step that faults keeps the inductive invariant. *)
LEMMA FaultsStep == IInv /\ Faults => IInv'
BY DEF IInv, Faults, TypeOK, Status, HazardUnitIdle, ForwardingConsumed, RedirectWithinTurn,
  BranchOperandsZero, SignalsOfExMem, SignalsOfIdEx, RdIsNumber, DestinationIsNumber

(* memory_access() keeps the inductive invariant. *)
LEMMA MemStep == IInv /\ Mem => IInv'
<1> SUFFICES ASSUME IInv, Mem PROVE IInv'
  OBVIOUS
<1>1. MemAddress \in Word /\ StoreValue \in Word /\ MemDataCopy \in Word
  <2>1. MemAddress \in Word
    BY ArithmeticInWord DEF IInv, TypeOK, MemAddress, ExMemSet, MemWbSet
  <2> QED BY <2>1 DEF IInv, TypeOK, StoreValue, MemDataCopy, ExMemSet, MemWbSet
<1>2. MemAccess => MemAddress \in Address
  BY <1>1, WordFacts, MemoryAssumption DEF Mem, InMemory, Address, Word
<1>3. mem_wb' \in MemWbSet
  <2>1. /\ ex_mem.opcode \in Opcodes /\ ex_mem.destination_register \in Word
        /\ ex_mem.alu_result \in Word
        /\ ex_mem.ctl.reg_write \in Bit /\ ex_mem.ctl.mem_to_reg \in Bit
    BY DEF IInv, TypeOK, ExMemSet, Signals
  <2>2. mem_wb.ctl.mem_read = 1 => memory[MemAddress] \in Word
    BY <1>2 DEF IInv, TypeOK, Memory, MemAccess
  <2>3. (IF mem_wb.ctl.mem_read = 1 THEN memory[MemAddress] ELSE mem_wb.mem_data) \in Word
    BY <2>2 DEF IInv, TypeOK, MemWbSet
  <2> QED BY <1>1, <2>1, <2>3 DEF IInv, TypeOK, Mem, MemWbSet, Signals
<1>4. memory' \in Memory
  BY <1>1, <1>2 DEF IInv, TypeOK, Mem, Memory, MemAccess, Storing
<1>5. ex_mem' \in ExMemSet /\ ex_mem'.ctl = ex_mem.ctl /\ ex_mem'.opcode = ex_mem.opcode
  BY <1>1 DEF IInv, TypeOK, Mem, ExMemSet
<1>6. id_ex' = id_ex
  BY DEF IInv, BranchOperandsZero, BranchWaits, Mem
<1>7. control_unit' \in ControlUnitSet
  BY DEF IInv, TypeOK, Mem, ControlUnitSet, MemForwardA, DataHazard, Bit, Forward
<1>8. TypeOK'
  BY <1>3, <1>4, <1>5, <1>6, <1>7 DEF IInv, TypeOK, Mem, Bit
<1>9. /\ HazardUnitIdle' /\ ForwardingConsumed' /\ RedirectWithinTurn' /\ BranchOperandsZero'
  BY <1>6 DEF IInv, TypeOK, Mem, HazardUnitIdle, ForwardingConsumed, RedirectWithinTurn,
    BranchOperandsZero, ControlUnitSet
<1>10. SignalsOfExMem' /\ SignalsOfIdEx' /\ RdIsNumber'
  BY <1>5, <1>6 DEF IInv, Mem, SignalsOfExMem, SignalsOfIdEx, RdIsNumber
<1>11. DestinationIsNumber'
  BY DEF IInv, TypeOK, Mem, ExMemSet, MemWbSet, DestinationIsNumber
<1> QED BY <1>8, <1>9, <1>10, <1>11 DEF IInv

(***************************************************************************)
(* execute()                                                               *)
(***************************************************************************)
LEMMA OperandsTyped ==
  ASSUME TypeOK
  PROVE  /\ Operands \in IdExSet
         /\ Operands.opcode = id_ex.opcode
         /\ Operands.branch_rd = id_ex.branch_rd /\ Operands.branch_rs = id_ex.branch_rs
<1>1. \A way \in Forward, old \in Word : Forwarded(way, old) \in Word
  BY DEF TypeOK, Forwarded, MemWbSet
<1>2. /\ control_unit.forwardA \in Forward /\ control_unit.forwardB \in Forward
      /\ id_ex.rs \in Word /\ id_ex.rt \in Word /\ id_ex.rd \in Word
  BY DEF TypeOK, ControlUnitSet, IdExSet
<1>3. /\ Forwarded(control_unit.forwardA, id_ex.rs) \in Word
      /\ Forwarded(control_unit.forwardB, id_ex.rt) \in Word
      /\ Forwarded(control_unit.forwardB, id_ex.rd) \in Word
  BY <1>1, <1>2
<1> QED BY <1>3 DEF TypeOK, Operands, IdExSet

(* What every case of execute() shares: the latches stay well-formed, the  *)
(* signals move on, and the forwarding has been served.                    *)
LEMMA ExecuteStep ==
  ASSUME IInv, Executing,
         NEW alu_result \in Word, NEW store_val \in Word, NEW link_address \in Word,
         NEW pc_src \in Bit, NEW hazard \in Bit,
         Latch(Operands, alu_result, store_val, link_address),
         ControlUnitAfter(pc_src, hazard),
         status' \in Status, pc' \in Word, registers' \in Registers, memory' \in Memory,
         flags' \in FlagSet, files' \in SUBSET Descriptors
  PROVE  IInv'
<1>1. stage = "EX" /\ stage' = "ID"
  BY DEF Executing, IInv, HazardUnitIdle
<1>2. /\ Operands \in IdExSet
      /\ Operands.opcode = id_ex.opcode
      /\ Operands.branch_rd = id_ex.branch_rd /\ Operands.branch_rs = id_ex.branch_rs
  BY OperandsTyped DEF IInv
<1>3. /\ DestinationRegister(Operands) \in Word
      /\ id_ex.opcode \notin Misread => DestinationRegister(Operands) \in Reg
  <2>1. id_ex.rd \in Word /\ Operands.rd_reg \in Reg /\ Operands.rd_reg \in Word
    BY <1>2, WordFacts DEF IInv, TypeOK, IdExSet, Reg
  <2> QED BY <2>1 DEF IInv, RdIsNumber, DestinationRegister
<1>4. ex_mem' \in ExMemSet /\ ex_mem'.ctl = NoSignals /\ ex_mem'.opcode = id_ex.opcode
  BY <1>2, <1>3, Constants DEF IInv, TypeOK, Latch, ExMemSet, IdExSet, ResetExMem
<1>5. mem_wb' \in MemWbSet /\ mem_wb'.ctl = ex_mem.ctl
  BY DEF IInv, TypeOK, Latch, MemWbSet, ExMemSet
<1>6. /\ control_unit' \in ControlUnitSet
      /\ control_unit'.forwardA = 0 /\ control_unit'.forwardB = 0
      /\ control_unit'.nop = control_unit.nop /\ control_unit'.branch = control_unit.branch
      /\ control_unit'.resolved = control_unit.resolved
      /\ control_unit'.redo_decode = control_unit.redo_decode
  BY DEF IInv, TypeOK, ControlUnitAfter, ControlUnitSet, Forward
<1>7. TypeOK'
  BY <1>1, <1>2, <1>4, <1>5, <1>6 DEF IInv, TypeOK, Executing, Latch
<1>8. /\ HazardUnitIdle' /\ ForwardingConsumed' /\ RedirectWithinTurn' /\ BranchOperandsZero'
  BY <1>1, <1>2, <1>6 DEF IInv, Executing, Latch, HazardUnitIdle, ForwardingConsumed,
    RedirectWithinTurn, BranchOperandsZero
<1>9. SignalsOfExMem' /\ SignalsOfIdEx' /\ RdIsNumber'
  BY <1>1, <1>4, <1>5 DEF IInv, SignalsOfExMem, SignalsOfIdEx, RdIsNumber, NoSignals
<1>10. DestinationIsNumber'
  BY <1>2, <1>3 DEF IInv, TypeOK, Latch, ExMemSet, MemWbSet, DestinationIsNumber
<1> QED BY <1>7, <1>8, <1>9, <1>10 DEF IInv

(* The fields of the operands, each of its type. *)
LEMMA LatchFacts ==
  ASSUME IInv
  PROVE  /\ Operands.rs \in Word /\ Operands.rt \in Word /\ Operands.rd \in Word
         /\ Operands.immediate \in Word /\ Operands.target \in Word
         /\ Operands.link_address \in Word /\ Operands.syscall_code \in Word
         /\ Operands.shamt \in 0 .. 63 /\ Operands.opcode \in Opcodes
         /\ Operands.args \in [A0 .. A3 -> Word]
         /\ ex_mem.alu_result \in Word /\ ex_mem.store_val \in Word
         /\ ex_mem.link_address \in Word
         /\ control_unit.pc_src \in Bit /\ control_unit.data_hazard_mem_to_mem \in Bit
<1>1. Operands \in IdExSet
  BY OperandsTyped DEF IInv
<1> QED BY <1>1 DEF IInv, TypeOK, IdExSet, ExMemSet, ControlUnitSet

(* The state outside the latches, each part of its type. *)
LEMMA StateFacts ==
  ASSUME IInv
  PROVE  /\ status \in Status /\ pc \in Word /\ registers \in Registers /\ memory \in Memory
         /\ flags \in FlagSet /\ files \in SUBSET Descriptors
BY DEF IInv, TypeOK

(* execute() of an R-type with a result keeps the inductive invariant. *)
LEMMA RegisterStep == IInv /\ ExecuteRegister => IInv'
<1> SUFFICES ASSUME IInv, ExecuteRegister PROVE IInv'
  OBVIOUS
<1> DEFINE x == Operands
           r == RegisterResult(x.function_opcode, x.rs, x.rt, x.shamt)
           v == IF x.function_opcode = "MULT" /\ r # SignBit THEN Half(r)
                                                            ELSE ex_mem.store_val
<1>1. r \in Word
  BY LatchFacts, ResultsInWord DEF ExecuteRegister, IsFn
<1>2. v \in Word
  BY <1>1, HalfInWord, LatchFacts
<1>3. flags' \in FlagSet
  BY FlagsTyped, StateFacts DEF ExecuteRegister
<1>4. /\ Executing
      /\ Latch(x, r, v, ex_mem.link_address)
      /\ ControlUnitAfter(control_unit.pc_src, control_unit.data_hazard_mem_to_mem)
      /\ UNCHANGED <<status, pc, registers, memory, files>>
  BY DEF ExecuteRegister, Unchanged
<1> QED BY <1>1, <1>2, <1>3, <1>4, ExecuteStep, LatchFacts, StateFacts

(* execute() of DIV, MFHI, MFLO or an unknown function keeps the inductive invariant. *)
LEMMA NoResultStep == IInv /\ ExecuteNoResult => IInv'
<1> SUFFICES ASSUME IInv, ExecuteNoResult PROVE IInv'
  OBVIOUS
<1> DEFINE x == Operands
           v == CASE IsFn(x, {"DIV"}) -> x.rs % x.rt
                  [] IsFn(x, {"MFHI", "MFLO"}) -> 0
                  [] OTHER -> ex_mem.store_val
<1>1. \A m, n \in Word : n # 0 => m % n \in Word
  BY WordFacts DEF Word
<1>2. v \in Word
  BY <1>1, LatchFacts, WordFacts DEF ExecuteNoResult, IsFn
<1>3. flags' \in FlagSet
  BY FlagsTyped, StateFacts DEF ExecuteNoResult
<1>4. /\ Executing
      /\ Latch(x, ex_mem.alu_result, v, ex_mem.link_address)
      /\ ControlUnitAfter(control_unit.pc_src, control_unit.data_hazard_mem_to_mem)
      /\ UNCHANGED <<status, pc, registers, memory, files>>
  BY DEF ExecuteNoResult, Unchanged
<1> QED BY <1>2, <1>3, <1>4, ExecuteStep, LatchFacts, StateFacts

(* execute() of JALR keeps the inductive invariant. *)
LEMMA JalrStep == IInv /\ ExecuteJalr => IInv'
<1> SUFFICES ASSUME IInv, ExecuteJalr PROVE IInv'
  OBVIOUS
<1>1. Add(pc, 1) \in Word
  BY StateFacts, StepInWord
<1>2. /\ Executing
      /\ Latch(Operands, ex_mem.alu_result, ex_mem.store_val, Add(pc, 1))
      /\ ControlUnitAfter(control_unit.pc_src, control_unit.data_hazard_mem_to_mem)
      /\ pc' = Operands.rs
      /\ UNCHANGED <<status, registers, memory, flags, files>>
  BY DEF ExecuteJalr, Unchanged
<1> QED BY <1>1, <1>2, ExecuteStep, LatchFacts, StateFacts

(* The move of $sp that execute() does on the side leaves words in the registers. *)
LEMMA AddToSpTyped ==
  ASSUME NEW regs \in Registers, NEW x, x.immediate \in Word
  PROVE  AddToSp(regs, x) \in Registers
<1>1. SP \in Reg
  BY DEF SP, Reg
<1>2. regs[SP] \in Word
  BY <1>1 DEF Registers
<1>3. Add(regs[SP], x.immediate) \in Word
  BY <1>2, ArithmeticInWord
<1> QED BY <1>3 DEF AddToSp, Registers

(* execute() of an immediate instruction keeps the inductive invariant. *)
LEMMA ImmediateStep == IInv /\ ExecuteImmediate => IInv'
<1> SUFFICES ASSUME IInv, ExecuteImmediate PROVE IInv'
  OBVIOUS
<1> DEFINE x == Operands
<1>1. ImmediateResult(x.opcode, x.rs, x.immediate) \in Word
  BY LatchFacts, ResultsInWord DEF ExecuteImmediate
<1>2. registers' \in Registers
  BY AddToSpTyped, LatchFacts, StateFacts DEF ExecuteImmediate
<1>3. flags' \in FlagSet
  BY FlagsTyped, StateFacts DEF ExecuteImmediate
<1>4. /\ Executing
      /\ Latch(x, ImmediateResult(x.opcode, x.rs, x.immediate), ex_mem.store_val,
               ex_mem.link_address)
      /\ ControlUnitAfter(control_unit.pc_src, control_unit.data_hazard_mem_to_mem)
      /\ UNCHANGED <<status, pc, memory, files>>
  BY DEF ExecuteImmediate, Unchanged
<1> QED BY <1>1, <1>2, <1>3, <1>4, ExecuteStep, LatchFacts, StateFacts

(* execute() of a load or a store keeps the inductive invariant. *)
LEMMA MemoryStep == IInv /\ ExecuteMemory => IInv'
<1> SUFFICES ASSUME IInv, ExecuteMemory PROVE IInv'
  OBVIOUS
<1> DEFINE x == Operands
           a == Add(x.rs, x.immediate)
           hazard == control_unit.data_hazard_mem_to_mem
           r == IF x.opcode = "LW" THEN memory[a] ELSE a
           v == CASE x.opcode \in Stores /\ hazard = 1 -> mem_wb.mem_data_copy
                  [] x.opcode \in Stores /\ hazard = 0 -> x.rd
                  [] OTHER -> ex_mem.store_val
           h == IF x.opcode \in {"SW", "SH"} THEN 0 ELSE hazard
<1>1. a \in Word
  BY LatchFacts, ArithmeticInWord
<1>2. r \in Word
  BY <1>1, StateFacts, WordFacts, MemoryAssumption
  DEF ExecuteMemory, InMemory, Memory, Address, Word
<1>3. v \in Word
  BY LatchFacts DEF IInv, TypeOK, MemWbSet, Bit
<1>4. h \in Bit
  BY LatchFacts DEF Bit
<1>5. /\ Executing
      /\ Latch(x, r, v, ex_mem.link_address)
      /\ ControlUnitAfter(control_unit.pc_src, h)
      /\ UNCHANGED <<status, pc, registers, memory, flags, files>>
  BY DEF ExecuteMemory
<1> HIDE DEF r, v, h
<1> QED BY <1>2, <1>3, <1>4, <1>5, ExecuteStep, LatchFacts, StateFacts

(* execute() of a jump keeps the inductive invariant. *)
LEMMA JumpStep == IInv /\ ExecuteJump => IInv'
<1> SUFFICES ASSUME IInv, ExecuteJump PROVE IInv'
  OBVIOUS
<1> DEFINE target == JumpOffset(Operands.link_address, Operands.target)
<1>1. target \in Word
  BY LatchFacts, JumpOffsetInWord
<1>2. /\ Executing
      /\ Latch(Operands, ex_mem.alu_result, ex_mem.store_val, target)
      /\ ControlUnitAfter(1, control_unit.data_hazard_mem_to_mem)
      /\ UNCHANGED <<status, pc, registers, memory, flags, files>>
  BY DEF ExecuteJump
<1>3. 1 \in Bit
  BY DEF Bit
<1> QED BY <1>1, <1>2, <1>3, ExecuteStep, LatchFacts, StateFacts

(* The target of a branch is a word. *)
LEMMA BranchTargetInWord ==
  ASSUME IInv PROVE BranchTarget(Operands) \in Word
BY LatchFacts, ArithmeticInWord DEF BranchTarget

(* execute() of BEQ keeps the inductive invariant, whatever it compares. *)
LEMMA BeqStep == IInv /\ ExecuteBeq => IInv'
<1> SUFFICES ASSUME IInv, ExecuteBeq PROVE IInv'
  OBVIOUS
<1>1. PICK taken \in BeqOutcomes(Operands) :
        /\ Latch(Operands, ex_mem.alu_result, ex_mem.store_val,
                 IF taken THEN BranchTarget(Operands) ELSE ex_mem.link_address)
        /\ ControlUnitAfter(IF taken THEN 1 ELSE control_unit.pc_src,
                            control_unit.data_hazard_mem_to_mem)
  BY DEF ExecuteBeq
<1> DEFINE target == IF taken THEN BranchTarget(Operands) ELSE ex_mem.link_address
           src == IF taken THEN 1 ELSE control_unit.pc_src
<1>2. target \in Word /\ src \in Bit
  BY BranchTargetInWord, LatchFacts DEF Bit
<1>3. registers' \in Registers
  BY WrittenTyped DEF IInv, TypeOK, ExecuteBeq, BeqRegisters, MemWbSet
<1>4. Executing /\ UNCHANGED <<status, pc, memory, flags, files>>
  BY DEF ExecuteBeq
<1> QED BY <1>1, <1>2, <1>3, <1>4, ExecuteStep, LatchFacts, StateFacts

(* execute() of the other branches keeps the inductive invariant. *)
LEMMA BranchStep == IInv /\ ExecuteBranch => IInv'
<1> SUFFICES ASSUME IInv, ExecuteBranch PROVE IInv'
  OBVIOUS
<1> DEFINE target == IF BranchCondition(Operands) THEN BranchTarget(Operands)
                                                  ELSE ex_mem.link_address
<1>1. target \in Word
  BY BranchTargetInWord, LatchFacts
<1>2. /\ Executing
      /\ Latch(Operands, ex_mem.alu_result, ex_mem.store_val, target)
      /\ ControlUnitAfter(1, control_unit.data_hazard_mem_to_mem)
      /\ UNCHANGED <<status, pc, registers, memory, flags, files>>
  BY DEF ExecuteBranch
<1>3. 1 \in Bit
  BY DEF Bit
<1> QED BY <1>1, <1>2, <1>3, ExecuteStep, LatchFacts, StateFacts

(* execute() of SYSCALL keeps the inductive invariant. *)
LEMMA SyscallStep == IInv /\ ExecuteSyscall => IInv'
<1> SUFFICES ASSUME IInv, ExecuteSyscall PROVE IInv'
  OBVIOUS
<1> DEFINE x == Operands
           target == IF x.opcode = "JAL" THEN x.link_address ELSE ex_mem.link_address
<1>1. SyscallCall(x) \in Outcomes
  <2>1. SyscallCall(x).registers \in Registers
    BY LatchFacts, StateFacts DEF SyscallCall, Registers
  <2> QED BY <2>1, StateFacts DEF SyscallCall, Outcomes, Status
<1>2. PICK c \in Call(SyscallCall(x)) :
        /\ registers' = AddToSp(c.registers, x)
        /\ memory' = c.memory /\ files' = c.files /\ status' = c.status
  BY DEF ExecuteSyscall
<1>3. c \in Outcomes
  BY <1>1, CallTyped
<1>4. registers' \in Registers
  BY <1>2, <1>3, AddToSpTyped, LatchFacts DEF Outcomes
<1>5. memory' \in Memory /\ files' \in SUBSET Descriptors /\ status' \in Status
  BY <1>2, <1>3 DEF Outcomes
<1>6. flags' \in FlagSet
  BY FlagsTyped, StateFacts DEF ExecuteSyscall
<1>7. Add(x.rs, x.immediate) \in Word /\ target \in Word
  BY LatchFacts, ArithmeticInWord
<1>8. /\ Executing
      /\ Latch(x, Add(x.rs, x.immediate), ex_mem.store_val, target)
      /\ ControlUnitAfter(control_unit.pc_src, control_unit.data_hazard_mem_to_mem)
      /\ UNCHANGED pc
  BY DEF ExecuteSyscall, Unchanged
<1> QED BY <1>4, <1>5, <1>6, <1>7, <1>8, ExecuteStep, LatchFacts, StateFacts

(***************************************************************************)
(* decode() and fetch_pipeline()                                           *)
(***************************************************************************)
LEMMA DecodedTyped == ASSUME IInv PROVE Decoded \in Instruction
<1>1. Decoded = Fields[if_id.instruction]
  BY DEF Decoded, IInv, HazardUnitIdle
<1>2. if_id.instruction \in Word
  BY DEF IInv, TypeOK, IfIdSet
<1> QED BY <1>1, <1>2, FieldsAssumption

(* The load-use test fails whatever is decoded: the signals it looks at    *)
(* have been cleared.                                                      *)
LEMMA NoLoadUse ==
  ASSUME IInv, stage = "ID" PROVE \A r, s : ~LoadUse(r, s)
BY DEF IInv, SignalsOfIdEx, LoadUse, NoSignals

(* set_control_signals gives typed signals, and those of an R-type to no   *)
(* other word than one that is misread.                                    *)
LEMMA SignalsTyped ==
  ASSUME NEW op \in Opcodes
  PROVE  /\ SetControlSignals(NoSignals, op) \in Signals
         /\ SetControlSignals(NoSignals, op).alu_op = 10 => op = "R_TYPE" \/ op \in Misread
<1> DEFINE register  == [NoSignals EXCEPT !.reg_write = 1, !.alu_op = 10]
           immediate == [NoSignals EXCEPT !.reg_write = 1, !.alu_op = 11]
           add       == [NoSignals EXCEPT !.reg_write = 1]
           branch    == [NoSignals EXCEPT !.alu_op = 1]
           store     == [NoSignals EXCEPT !.mem_write = 1]
           load      == [NoSignals EXCEPT !.mem_to_reg = 1, !.reg_write = 1, !.mem_read = 1]
           divides   == [NoSignals EXCEPT !.alu_op = 10]
<1>1. register \in Signals
  BY DEF Signals, NoSignals, Bit, AluOp
<1>2. immediate \in Signals /\ immediate.alu_op = 11
  BY DEF Signals, NoSignals, Bit, AluOp
<1>3. add \in Signals /\ add.alu_op = 0
  BY DEF Signals, NoSignals, Bit, AluOp
<1>4. branch \in Signals /\ branch.alu_op = 1
  BY DEF Signals, NoSignals, Bit, AluOp
<1>5. store \in Signals /\ store.alu_op = 0
  BY DEF Signals, NoSignals, Bit, AluOp
<1>6. load \in Signals /\ load.alu_op = 0
  BY DEF Signals, NoSignals, Bit, AluOp
<1>7. NoSignals \in Signals /\ NoSignals.alu_op = 0
  BY DEF Signals, NoSignals, Bit, AluOp
<1>8. divides \in Signals
  BY DEF Signals, NoSignals, Bit, AluOp
<1>9. SetControlSignals(NoSignals, op) \in
        {register, divides, immediate, add, branch, store, load, NoSignals}
  BY DEF SetControlSignals
<1>10. op # "R_TYPE" /\ op \notin Misread =>
         SetControlSignals(NoSignals, op) \in {immediate, add, branch, store, load, NoSignals}
  BY DEF SetControlSignals, Misread
<1> HIDE DEF register, immediate, add, branch, store, load, divides
<1>11. op # "R_TYPE" /\ op \notin Misread =>
         SetControlSignals(NoSignals, op).alu_op \in {0, 1, 11}
  BY <1>2, <1>3, <1>4, <1>5, <1>6, <1>7, <1>10
<1>12. SetControlSignals(NoSignals, op) \in Signals
  BY <1>1, <1>2, <1>3, <1>4, <1>5, <1>6, <1>7, <1>8, <1>9
<1> QED BY <1>11, <1>12

(* What every case of decode() shares. *)
LEMMA DecodeStep ==
  ASSUME IInv, Decoding, NEW i \in Instruction, Issue(i, FALSE),
         id_ex' \in IdExSet, id_ex'.opcode = i.op,
         id_ex'.branch_rd = id_ex.branch_rd, id_ex'.branch_rs = id_ex.branch_rs,
         i.op = "R_TYPE" => id_ex'.rd \in Reg,
         pc' \in Word, registers' \in Registers
  PROVE  IInv'
<1>1. stage = "ID" /\ stage' = "IF"
  BY DEF Decoding
<1>2. i.op \in Opcodes
  BY DEF Instruction
<1>3. [NoSignals EXCEPT !.reg_write = 0] = NoSignals
  BY DEF NoSignals
<1>4. ex_mem' = [ex_mem EXCEPT !.ctl = SetControlSignals(NoSignals, i.op)]
  BY <1>3 DEF Issue
<1>5. ex_mem' \in ExMemSet /\ ex_mem'.ctl = SetControlSignals(NoSignals, i.op)
  BY <1>2, <1>4, SignalsTyped DEF IInv, TypeOK, ExMemSet
<1>6. /\ control_unit' \in ControlUnitSet
      /\ control_unit'.nop = 0 /\ control_unit'.branch = 0 /\ control_unit'.redo_decode = 0
      /\ control_unit'.resolved = control_unit.resolved
      /\ control_unit'.forwardA = control_unit.forwardA
      /\ control_unit'.forwardB = control_unit.forwardB
  BY DEF IInv, TypeOK, Issue, Reset, ControlUnitSet, Bit
<1>7. if_id' = if_id /\ mem_wb' = mem_wb
  BY DEF Issue
<1>8. TypeOK'
  BY <1>1, <1>5, <1>6, <1>7 DEF IInv, TypeOK, Decoding
<1>9. /\ HazardUnitIdle' /\ ForwardingConsumed' /\ RedirectWithinTurn' /\ BranchOperandsZero'
  BY <1>1, <1>6 DEF IInv, Decoding, HazardUnitIdle, ForwardingConsumed, RedirectWithinTurn,
    BranchOperandsZero
<1>10. SignalsOfExMem' /\ SignalsOfIdEx'
  BY <1>1, <1>4, <1>5, <1>7 DEF IInv, TypeOK, ExMemSet, SignalsOfExMem, SignalsOfIdEx
<1>11. RdIsNumber'
  BY <1>2, <1>5, SignalsTyped DEF RdIsNumber
<1>12. DestinationIsNumber'
  BY <1>4, <1>7 DEF IInv, TypeOK, ExMemSet, DestinationIsNumber
<1> QED BY <1>8, <1>9, <1>10, <1>11, <1>12 DEF IInv

(* What decode() reads, each part of its type. *)
LEMMA IdExFacts ==
  ASSUME IInv
  PROVE  /\ id_ex \in IdExSet /\ if_id \in IfIdSet
         /\ \A r \in Reg : registers[r] \in Word
         /\ ex_mem.alu_result \in Word /\ mem_wb.alu_result \in Word
BY DEF IInv, TypeOK, Registers, ExMemSet, MemWbSet

(* The fields of an instruction, each of its type. *)
LEMMA InstructionFacts ==
  ASSUME NEW i \in Instruction
  PROVE  /\ i.op \in Opcodes /\ i.rs \in Reg /\ i.rt \in Reg /\ i.rd \in Reg
         /\ i.shamt \in 0 .. 63 /\ i.fn \in Functions \cup {"UNDEFINED"}
         /\ i.imm \in Imm /\ i.target \in Word
BY DEF Instruction

(* decode() of an R-type keeps the inductive invariant. *)
LEMMA DecodeRegisterStep == IInv /\ DecodeRegister => IInv'
<1> SUFFICES ASSUME IInv, DecodeRegister PROVE IInv'
  OBVIOUS
<1> DEFINE i == Decoded
<1>1. i \in Instruction
  BY DecodedTyped
<1>2. Decoding /\ UNCHANGED <<pc, registers>>
  BY DEF DecodeRegister
<1>3. LoadUse(i.rs, 0) = FALSE
  BY <1>2, NoLoadUse DEF Decoding, LoadUse
<1>4. Issue(i, FALSE)
  BY <1>3 DEF DecodeRegister
<1>5. id_ex' = [id_ex EXCEPT
                !.link_address = if_id.link_address, !.opcode = i.op,
                !.rs = registers[i.rs], !.rt = registers[i.rt], !.rd = i.rd,
                !.shamt = i.shamt, !.function_opcode = i.fn,
                !.rs_reg = i.rs, !.rt_reg = i.rt, !.rd_reg = 0]
  BY DEF DecodeRegister
<1> HIDE DEF i
<1>6. /\ if_id.link_address \in Word /\ i.rd \in Word /\ 0 \in Reg
      /\ registers[i.rs] \in Word /\ registers[i.rt] \in Word
  BY <1>1, IdExFacts, InstructionFacts, WordFacts DEF IfIdSet, Reg
<1>7. /\ id_ex' \in IdExSet /\ id_ex'.opcode = i.op /\ id_ex'.rd \in Reg
      /\ id_ex'.branch_rd = id_ex.branch_rd /\ id_ex'.branch_rs = id_ex.branch_rs
  BY <1>1, <1>5, <1>6, IdExFacts, InstructionFacts DEF IdExSet
<1> QED BY <1>1, <1>2, <1>4, <1>7, DecodeStep, StateFacts

(* decode() of a jump keeps the inductive invariant. *)
LEMMA DecodeJumpStep == IInv /\ DecodeJump => IInv'
<1> SUFFICES ASSUME IInv, DecodeJump PROVE IInv'
  OBVIOUS
<1> DEFINE i == Decoded
<1>1. i \in Instruction /\ i.op \in Jumps
  BY DecodedTyped DEF DecodeJump
<1>2. Decoding /\ Issue(i, FALSE) /\ UNCHANGED registers
  BY DEF DecodeJump
<1>3. pc' = (IF i.op = "JAL" THEN Add(pc, 1) ELSE pc)
  BY DEF DecodeJump
<1>4. id_ex' = [id_ex EXCEPT !.opcode = i.op, !.link_address = pc',
                             !.target = Fields[if_id.instruction].target]
  BY DEF DecodeJump
<1> HIDE DEF i
<1>5. pc' \in Word
  BY <1>3, StateFacts, StepInWord
<1>6. Fields[if_id.instruction].target \in Word
  BY IdExFacts, FieldsAssumption, InstructionFacts DEF IfIdSet
<1>7. /\ id_ex' \in IdExSet /\ id_ex'.opcode = i.op /\ i.op # "R_TYPE"
      /\ id_ex'.branch_rd = id_ex.branch_rd /\ id_ex'.branch_rs = id_ex.branch_rs
  BY <1>1, <1>4, <1>5, <1>6, IdExFacts, InstructionFacts DEF IdExSet, Jumps
<1> QED BY <1>1, <1>2, <1>5, <1>7, DecodeStep, StateFacts

(* decode() of SYSCALL keeps the inductive invariant. *)
LEMMA DecodeSyscallStep == IInv /\ DecodeSyscall => IInv'
<1> SUFFICES ASSUME IInv, DecodeSyscall PROVE IInv'
  OBVIOUS
<1> DEFINE i == Decoded
<1>1. i \in Instruction /\ i.op = "SYSCALL"
  BY DecodedTyped DEF DecodeSyscall
<1>2. Decoding /\ Issue(i, FALSE) /\ UNCHANGED pc
  BY DEF DecodeSyscall
<1>3. id_ex' = [id_ex EXCEPT !.link_address = if_id.link_address, !.opcode = i.op]
  BY DEF DecodeSyscall
<1>4. registers' = [registers EXCEPT ![A0] = SyscallArgument]
  BY DEF DecodeSyscall
<1> HIDE DEF i
<1>5. SyscallArgument \in Word
  BY IdExFacts DEF SyscallArgument, A0, Reg
<1>6. registers' \in Registers
  BY <1>4, <1>5, StateFacts DEF Registers
<1>7. /\ id_ex' \in IdExSet /\ id_ex'.opcode = i.op
      /\ id_ex'.branch_rd = id_ex.branch_rd /\ id_ex'.branch_rs = id_ex.branch_rs
  BY <1>1, <1>3, IdExFacts, InstructionFacts DEF IdExSet, IfIdSet
<1> QED BY <1>1, <1>2, <1>6, <1>7, DecodeStep, StateFacts

(* decode() of the other instructions keeps the inductive invariant. *)
LEMMA DecodeImmediateStep == IInv /\ DecodeImmediate => IInv'
<1> SUFFICES ASSUME IInv, DecodeImmediate PROVE IInv'
  OBVIOUS
<1> DEFINE i == Decoded
           imm == SignExtend(i.imm)
           compares == i.op \in Branches \ {"BNE"}
           code == IF i.rt = V0 THEN imm ELSE id_ex.syscall_code
           args == [a \in A0 .. A3 |-> IF i.rt = a THEN imm ELSE id_ex.args[a]]
           compare_1 == IF compares THEN ex_mem.alu_result ELSE id_ex.branch_compare_1
           compare_2 == IF compares THEN mem_wb'.alu_result ELSE id_ex.branch_compare_2
<1>1. i \in Instruction /\ i.op \in Immediates
  BY DecodedTyped DEF DecodeImmediate
<1>2. Decoding /\ UNCHANGED <<pc, registers>>
  BY DEF DecodeImmediate
<1>3. LoadUse(i.rs, i.rt) = FALSE
  BY <1>2, NoLoadUse DEF Decoding, LoadUse
<1>4. Issue(i, FALSE)
  BY <1>3 DEF DecodeImmediate
<1>5. id_ex' = [id_ex EXCEPT
                !.link_address = if_id.link_address, !.opcode = i.op,
                !.syscall_code = code, !.args = args,
                !.rs = registers[i.rs], !.rs_reg = i.rs,
                !.rd = registers[i.rt], !.rd_reg = i.rt,
                !.rt = 0, !.rt_reg = 0, !.immediate = imm,
                !.branch_compare_1 = compare_1, !.branch_compare_2 = compare_2]
  BY DEF DecodeImmediate
<1> HIDE DEF i
<1>6. imm \in Word
  BY <1>1, InstructionFacts, SignExtendInWord
<1>7. code \in Word /\ args \in [A0 .. A3 -> Word]
  BY <1>6, IdExFacts DEF IdExSet
<1>8. mem_wb' = mem_wb
  BY <1>4 DEF Issue
<1>9. compare_1 \in Word /\ compare_2 \in Word
  BY <1>8, IdExFacts DEF IdExSet
<1>10. /\ if_id.link_address \in Word /\ 0 \in Word /\ 0 \in Reg
       /\ registers[i.rs] \in Word /\ registers[i.rt] \in Word
  BY <1>1, IdExFacts, InstructionFacts, WordFacts DEF IfIdSet, Reg
<1> HIDE DEF imm, code, args, compare_1, compare_2
<1>11. /\ id_ex' \in IdExSet /\ id_ex'.opcode = i.op
       /\ id_ex'.branch_rd = id_ex.branch_rd /\ id_ex'.branch_rs = id_ex.branch_rs
  BY <1>1, <1>5, <1>6, <1>7, <1>9, <1>10, IdExFacts, InstructionFacts DEF IdExSet
<1>12. i.op # "R_TYPE"
  BY <1>1 DEF Immediates, AluImm, Loads, Stores, Branches, Undefined, Misread
<1> QED BY <1>1, <1>2, <1>4, <1>11, <1>12, DecodeStep, StateFacts

(* A fetched instruction is a word. *)
LEMMA FetchedInWord ==
  ASSUME IInv, NEW a \in Word, InMemory(a) PROVE memory[a] \in Word
BY StateFacts, WordFacts, MemoryAssumption DEF InMemory, Memory, Address, Word

(* fetch() of the next instruction keeps the inductive invariant. *)
LEMMA FetchNextStep == IInv /\ FetchNext => IInv'
<1> SUFFICES ASSUME IInv, FetchNext PROVE IInv'
  OBVIOUS
<1>1. pc' \in Word
  BY StateFacts, StepInWord DEF FetchNext
<1>2. if_id' \in IfIdSet
  BY <1>1, StateFacts, FetchedInWord DEF FetchNext, IfIdSet
<1>3. TypeOK'
  BY <1>1, <1>2 DEF IInv, TypeOK, FetchNext, Fetching
<1>4. /\ HazardUnitIdle' /\ ForwardingConsumed' /\ RedirectWithinTurn' /\ BranchOperandsZero'
  BY DEF IInv, FetchNext, Fetching, HazardUnitIdle, ForwardingConsumed, RedirectWithinTurn,
    BranchOperandsZero, TypeOK, ControlUnitSet, Bit
<1>5. SignalsOfExMem' /\ SignalsOfIdEx' /\ RdIsNumber'
  BY DEF IInv, FetchNext, Fetching, SignalsOfExMem, SignalsOfIdEx, RdIsNumber
<1>6. DestinationIsNumber'
  BY DEF IInv, FetchNext, Fetching, DestinationIsNumber
<1> QED BY <1>3, <1>4, <1>5, <1>6 DEF IInv

(* The flush leaves ID/EX typed and an R-type. *)
LEMMA FlushTyped ==
  ASSUME IInv
  PROVE  /\ FlushIdEx \in IdExSet /\ FlushIdEx.opcode = "R_TYPE" /\ FlushIdEx.rd \in Reg
         /\ FlushIdEx.branch_rd = id_ex.branch_rd /\ FlushIdEx.branch_rs = id_ex.branch_rs
<1>1. /\ "R_TYPE" \in Opcodes /\ "SLL" \in Functions /\ 0 \in 0 .. 63 /\ 0 \in Reg
      /\ [a \in A0 .. A3 |-> 0] \in [A0 .. A3 -> Word]
  BY WordFacts DEF Opcodes, Functions, Reg
<1> QED BY <1>1, IdExFacts, WordFacts DEF FlushIdEx, IdExSet

(* fetch() of the target of a redirection keeps the inductive invariant. *)
LEMMA FetchTargetStep == IInv /\ FetchTarget => IInv'
<1> SUFFICES ASSUME IInv, FetchTarget PROVE IInv'
  OBVIOUS
<1>1. pc' \in Word
  BY LatchFacts DEF FetchTarget
<1>2. if_id' \in IfIdSet
  BY <1>1, FetchedInWord, LatchFacts DEF FetchTarget, IfIdSet
<1>3. control_unit' \in ControlUnitSet
  BY DEF IInv, TypeOK, FetchTarget, PcSrcConsumed, ControlUnitSet, Bit
<1>4. TypeOK'
  BY <1>1, <1>2, <1>3, FlushTyped DEF IInv, TypeOK, FetchTarget, Fetching
<1>5. /\ HazardUnitIdle' /\ ForwardingConsumed' /\ RedirectWithinTurn' /\ BranchOperandsZero'
  BY FlushTyped DEF IInv, FetchTarget, Fetching, PcSrcConsumed, HazardUnitIdle,
    ForwardingConsumed, RedirectWithinTurn, BranchOperandsZero, TypeOK, ControlUnitSet, Bit
<1>6. SignalsOfExMem' /\ SignalsOfIdEx' /\ RdIsNumber'
  BY FlushTyped DEF IInv, FetchTarget, Fetching, SignalsOfExMem, SignalsOfIdEx, RdIsNumber
<1>7. DestinationIsNumber'
  BY DEF IInv, FetchTarget, Fetching, DestinationIsNumber
<1> QED BY <1>4, <1>5, <1>6, <1>7 DEF IInv

(***************************************************************************)
(* Every call of a stage keeps the invariant                               *)
(***************************************************************************)
LEMMA NextIInv == IInv /\ [Next]_vars => IInv'
<1> SUFFICES ASSUME IInv, [Next]_vars PROVE IInv'
  OBVIOUS
<1>1. CASE WB
  BY <1>1, WBStep
<1>2. CASE Mem
  BY <1>2, MemStep
<1>3. CASE WBFault \/ MemFault \/ ExecuteFault \/ FetchFault
  BY <1>3, FaultsStep DEF WBFault, MemFault, ExecuteFault, FetchFault
<1>4. CASE ExecuteRegister \/ ExecuteNoResult \/ ExecuteJalr \/ ExecuteImmediate
  BY <1>4, RegisterStep, NoResultStep, JalrStep, ImmediateStep
<1>5. CASE ExecuteMemory \/ ExecuteJump \/ ExecuteBeq \/ ExecuteBranch \/ ExecuteSyscall
  BY <1>5, MemoryStep, JumpStep, BeqStep, BranchStep, SyscallStep
<1>6. CASE Decode
  BY <1>6, DecodeRegisterStep, DecodeJumpStep, DecodeSyscallStep, DecodeImmediateStep
  DEF Decode
<1>7. CASE FetchNext \/ FetchTarget
  BY <1>7, FetchNextStep, FetchTargetStep
<1>8. CASE UNCHANGED vars
  BY <1>8 DEF vars, IInv, TypeOK, HazardUnitIdle, ForwardingConsumed, RedirectWithinTurn,
    BranchOperandsZero, SignalsOfExMem, SignalsOfIdEx, RdIsNumber, DestinationIsNumber
<1> QED
  BY <1>1, <1>2, <1>3, <1>4, <1>5, <1>6, <1>7, <1>8 DEF Next, Execute, Fetch

(* The inductive invariant holds in every reachable state. *)
LEMMA Invariance == Spec => []IInv
<1>1. Init => IInv
  BY InitIInv
<1>2. IInv /\ [Next]_vars => IInv'
  BY NextIInv
<1> QED BY <1>1, <1>2, PTL DEF Spec

(* Every field of the latches, every register and every word of memory     *)
(* stays a machine word: no arithmetic, shift, system call or forwarded    *)
(* value escapes its width.                                                *)
THEOREM PipelineTyped == Spec => []TypeOK
<1>1. IInv => TypeOK
  BY DEF IInv
<1> QED BY <1>1, Invariance, PTL

(* No instruction but those that are misread carries anything but the      *)
(* number of a register for its destination, whatever is flushed.          *)
THEOREM DestinationsAreNumbers == Spec => []DestinationIsNumber
<1>1. IInv => DestinationIsNumber
  BY DEF IInv
<1> QED BY <1>1, Invariance, PTL

(* decode() never stalls: the load-use hazard unit is dead code, whatever  *)
(* the program.                                                            *)
THEOREM HazardUnitNeverActs == Spec => []HazardUnitIdle
<1>1. IInv => HazardUnitIdle
  BY DEF IInv
<1> QED BY <1>1, Invariance, PTL

(* No forwarding request of WB() or mem() outlives the execute() of its    *)
(* turn.                                                                   *)
THEOREM ForwardingServed == Spec => []ForwardingConsumed
<1>1. IInv => ForwardingConsumed
  BY DEF IInv
<1> QED BY <1>1, Invariance, PTL

(* No redirection of execute() is obeyed by the fetch_pipeline() of a      *)
(* later turn.                                                             *)
THEOREM RedirectServed == Spec => []RedirectWithinTurn
<1>1. IInv => RedirectWithinTurn
  BY DEF IInv
<1> QED BY <1>1, Invariance, PTL

(* mem() never hands BEQ the results it is meant to compare.               *)
THEOREM BeqComparesWithZero == Spec => []BranchOperandsZero
<1>1. IInv => BranchOperandsZero
  BY DEF IInv
<1> QED BY <1>1, Invariance, PTL

(* The control signals run one stage ahead of their instruction.           *)
THEOREM SignalsAhead == Spec => []SignalsOneStageAhead
<1>1. IInv => SignalsOneStageAhead
  BY DEF IInv, SignalsOfExMem, SignalsOneStageAhead
<1> QED BY <1>1, Invariance, PTL

(***************************************************************************)
(* The engine implements the flow of a five-stage pipeline                 *)
(***************************************************************************)
LEMMA FlowInit == Init => Flow!Init
BY FieldsAssumption DEF Init, Flow!Init, IfIdReset, IdExReset, ExMemReset, MemWbReset

(* A fault moves no instruction. *)
LEMMA FlowStutters ==
  (Faults \/ UNCHANGED vars) => UNCHANGED Flow!vars
BY DEF Faults, vars, Flow!vars

(* execute() moves the opcode of ID/EX to EX/MEM. *)
LEMMA FlowExecute ==
  ASSUME IInv, Executing, NEW r, NEW s, NEW l, Latch(Operands, r, s, l)
  PROVE  Flow!Execute
<1>1. Operands.opcode = id_ex.opcode
  BY OperandsTyped DEF IInv
<1>2. stage = "EX" /\ stage' = "ID" /\ if_id' = if_id
  BY DEF Executing, IInv, HazardUnitIdle
<1>3. id_ex'.opcode = id_ex.opcode /\ ex_mem'.opcode = id_ex.opcode
  BY <1>1 DEF Latch, IInv, TypeOK, ExMemSet
<1>4. mem_wb'.opcode = mem_wb.opcode
  BY DEF Latch, IInv, TypeOK, MemWbSet
<1> QED BY <1>2, <1>3, <1>4 DEF Flow!Execute

(* decode() moves the opcode of the word in IF/ID to ID/EX. *)
LEMMA FlowDecode ==
  ASSUME IInv, Decoding, Issue(Decoded, FALSE), id_ex'.opcode = Decoded.op
  PROVE  Flow!Decode
<1>1. Decoded = Fields[if_id.instruction]
  BY DEF Decoded, IInv, HazardUnitIdle
<1>2. /\ stage = "ID" /\ stage' = "IF"
      /\ ex_mem'.opcode = ex_mem.opcode /\ mem_wb' = mem_wb /\ if_id' = if_id
  BY DEF Decoding, Issue, IInv, TypeOK, ExMemSet
<1> QED BY <1>1, <1>2 DEF Flow!Decode

(* Every case of execute() is the move of the abstract pipeline, or none. *)
LEMMA FlowExecutes ==
  ASSUME IInv, Execute PROVE Flow!Execute \/ UNCHANGED Flow!vars
<1>1. CASE ExecuteRegister \/ ExecuteNoResult \/ ExecuteJalr \/ ExecuteImmediate
             \/ ExecuteMemory \/ ExecuteJump \/ ExecuteBranch \/ ExecuteSyscall
  <2>1. Executing /\ \E r, s, l : Latch(Operands, r, s, l)
    BY <1>1 DEF ExecuteRegister, ExecuteNoResult, ExecuteJalr, ExecuteImmediate,
      ExecuteMemory, ExecuteJump, ExecuteBranch, ExecuteSyscall
  <2> QED BY <2>1, FlowExecute
<1>2. CASE ExecuteBeq
  <2>1. Executing /\ \E r, s, l : Latch(Operands, r, s, l)
    BY <1>2 DEF ExecuteBeq
  <2> QED BY <2>1, FlowExecute
<1>3. CASE ExecuteFault
  BY <1>3, FlowStutters DEF ExecuteFault
<1> QED BY <1>1, <1>2, <1>3 DEF Execute

(* Every case of decode() is the move of the abstract pipeline. *)
LEMMA FlowDecodes ==
  ASSUME IInv, Decode PROVE Flow!Decode
<1>1. Decoding
  BY DEF Decode, DecodeRegister, DecodeJump, DecodeSyscall, DecodeImmediate
<1>2. \A r, s : LoadUse(r, s) = FALSE
  BY <1>1, NoLoadUse DEF Decoding, LoadUse
<1>3. Issue(Decoded, FALSE)
  BY <1>2 DEF Decode, DecodeRegister, DecodeJump, DecodeSyscall, DecodeImmediate
<1>4. id_ex'.opcode = Decoded.op
  <2>1. id_ex \in IdExSet
    BY IdExFacts
  <2>2. CASE DecodeRegister
    BY <2>1, <2>2 DEF DecodeRegister, IdExSet
  <2>3. CASE DecodeJump
    BY <2>1, <2>3 DEF DecodeJump, IdExSet
  <2>4. CASE DecodeSyscall
    BY <2>1, <2>4 DEF DecodeSyscall, IdExSet
  <2>5. CASE DecodeImmediate
    BY <2>1, <2>5 DEF DecodeImmediate, IdExSet
  <2> QED BY <2>2, <2>3, <2>4, <2>5 DEF Decode
<1> QED BY <1>1, <1>3, <1>4, FlowDecode

(* Both cases of fetch() are the move of the abstract pipeline. *)
LEMMA FlowFetches ==
  ASSUME IInv, FetchNext \/ FetchTarget PROVE Flow!Fetch
<1>1. /\ stage = "IF" /\ stage' = "WB"
      /\ ex_mem' = ex_mem /\ mem_wb' = mem_wb
  BY DEF FetchNext, FetchTarget, Fetching
<1>2. id_ex'.opcode \in {id_ex.opcode, "R_TYPE"}
  BY FlushTyped DEF FetchNext, FetchTarget
<1>3. if_id' \in IfIdSet
  BY FetchNextStep, FetchTargetStep DEF IInv, TypeOK
<1>4. Fields[if_id'.instruction].op \in Opcodes
  BY <1>3, FieldsAssumption, InstructionFacts DEF IfIdSet
<1> QED BY <1>1, <1>2, <1>4 DEF Flow!Fetch

(* Every step is a step of the abstract pipeline or moves nothing. *)
LEMMA FlowStep == IInv /\ [Next]_vars => [Flow!Next]_Flow!vars
<1> SUFFICES ASSUME IInv, [Next]_vars PROVE Flow!Next \/ UNCHANGED Flow!vars
  OBVIOUS
<1>1. CASE WB
  <2>1. mem_wb'.opcode = mem_wb.opcode
    BY <1>1 DEF WB, IInv, TypeOK, MemWbSet
  <2>2. Flow!WriteBack
    BY <1>1, <2>1 DEF WB, Flow!WriteBack
  <2> QED BY <2>2 DEF Flow!Next
<1>2. CASE Mem
  <2>1. mem_wb'.opcode = ex_mem.opcode
    BY <1>2 DEF Mem, IInv, TypeOK, MemWbSet
  <2>2. id_ex' = id_ex /\ ex_mem'.opcode = ex_mem.opcode
    BY <1>2 DEF Mem, IInv, BranchOperandsZero, BranchWaits, TypeOK, ExMemSet
  <2>3. Flow!Access
    BY <1>2, <2>1, <2>2 DEF Mem, Flow!Access
  <2> QED BY <2>3 DEF Flow!Next
<1>3. CASE WBFault \/ MemFault \/ FetchFault \/ UNCHANGED vars
  BY <1>3, FlowStutters DEF WBFault, MemFault, FetchFault
<1>4. CASE Execute
  BY <1>4, FlowExecutes DEF Flow!Next
<1>5. CASE Decode
  BY <1>5, FlowDecodes DEF Flow!Next
<1>6. CASE FetchNext \/ FetchTarget
  BY <1>6, FlowFetches DEF Flow!Next
<1> QED BY <1>1, <1>2, <1>3, <1>4, <1>5, <1>6 DEF Next, Fetch

(* CPU::run_pipeline moves instructions as FiveStage promises: each call   *)
(* of a stage moves one instruction by one latch, and only a redirected    *)
(* fetch turns one into a bubble.                                          *)
THEOREM ImplementsFiveStage == Spec => FlowSpec
<1>1. Init => Flow!Init
  BY FlowInit
<1>2. IInv /\ [Next]_vars => [Flow!Next]_Flow!vars
  BY FlowStep
<1> QED BY <1>1, <1>2, Invariance, PTL DEF Spec, FlowSpec, Flow!Spec
==============================================================================
