------------------------------ MODULE Pipeline -------------------------------
(***************************************************************************)
(* CPU::run_pipeline: the five-stage engine of the virtual CPU.  One turn  *)
(* of its loop runs the stages backwards, WB, mem, execute, decode and     *)
(* fetch_pipeline, each a function that reads and writes the latches in    *)
(* place; a stage is one action here and `stage' says whose turn it is.    *)
(* Left out: latch fields that are written but never read (except to be    *)
(* displayed), and the cycle counter.                                      *)
(***************************************************************************)
EXTENDS Syscalls, ControlUnit, Flags

VARIABLES
  stage,            \* the function run_pipeline calls next
  status,           \* "running", "halted" (halted == true) or "fault"
  pc,
  registers,
  memory,
  flags,
  files,            \* file_descriptors
  if_id, id_ex, ex_mem, mem_wb,
  dont_write,       \* wb_display.dont_write
  control_unit,
  stalled_cycles

vars == <<stage, status, pc, registers, memory, flags, files, if_id, id_ex,
          ex_mem, mem_wb, dont_write, control_unit, stalled_cycles>>

IfIdSet == [instruction : Word, link_address : Word]
IdExSet == [opcode : Opcodes, rs : Word, rt : Word, rd : Word, immediate : Word,
            shamt : 0 .. 63, function_opcode : Functions \cup {"UNDEFINED"},
            target : Word, link_address : Word, syscall_code : Word,
            args : [A0 .. A3 -> Word], rs_reg : Reg, rd_reg : Reg, rt_reg : Reg,
            branch_rs : Word, branch_rd : Word,
            branch_compare_1 : Word, branch_compare_2 : Word]
ExMemSet == [opcode : Opcodes, alu_result : Word, store_val : Word,
             destination_register : Word, link_address : Word, rd : Word,
             rs_reg : Reg, ctl : Signals]
MemWbSet == [opcode : Opcodes, alu_result : Word, store_val : Word,
             destination_register : Word, mem_data : Word, mem_data_copy : Word,
             mem_data_copy1 : Word, ctl : Signals]

IfIdReset == [instruction |-> 0, link_address |-> 0]
IdExReset == [opcode |-> "R_TYPE", rs |-> 0, rt |-> 0, rd |-> 0, immediate |-> 0,
              shamt |-> 0, function_opcode |-> "SLL", target |-> 0,
              link_address |-> 0, syscall_code |-> 0,
              args |-> [a \in A0 .. A3 |-> 0], rs_reg |-> 0, rd_reg |-> 0, rt_reg |-> 0,
              branch_rs |-> 0, branch_rd |-> 0,
              branch_compare_1 |-> 0, branch_compare_2 |-> 0]
ExMemReset == [opcode |-> "R_TYPE", alu_result |-> 0, store_val |-> 0,
               destination_register |-> 0, link_address |-> 0, rd |-> 0,
               rs_reg |-> 0, ctl |-> NoSignals]
MemWbReset == [opcode |-> "R_TYPE", alu_result |-> 0, store_val |-> 0,
               destination_register |-> 0, mem_data |-> 0, mem_data_copy |-> 0,
               mem_data_copy1 |-> 0, ctl |-> NoSignals]

(* ID_EX::flush: the register numbers and the branch fields survive *)
FlushIdEx ==
  [id_ex EXCEPT !.opcode = "R_TYPE", !.rs = 0, !.rt = 0, !.rd = 0, !.immediate = 0,
                !.shamt = 0, !.function_opcode = "SLL", !.target = 0,
                !.link_address = 0, !.syscall_code = 0,
                !.args = [a \in A0 .. A3 |-> 0]]

(* What the stages leave in the latches stays within the fields' types,    *)
(* and registers and memory hold words, whatever is executed.              *)
TypeOK ==
  /\ stage \in {"WB", "MEM", "EX", "ID", "IF"}
  /\ status \in Status
  /\ pc \in Word
  /\ registers \in Registers
  /\ memory \in Memory
  /\ flags \in FlagSet
  /\ files \in SUBSET Descriptors
  /\ if_id \in IfIdSet
  /\ id_ex \in IdExSet
  /\ ex_mem \in ExMemSet
  /\ mem_wb \in MemWbSet
  /\ dont_write \in Bit
  /\ control_unit \in ControlUnitSet
  /\ stalled_cycles \in Nat

Init ==
  /\ stage = "WB" /\ status = "running" /\ pc = 0
  /\ \E s \in Presets : registers = InitialRegisters(s)
  /\ \E p \in Programs : Loadable(p) /\ memory = LoadedMemory(p)
  /\ flags = NoFlags /\ files = {}
  /\ if_id = IfIdReset /\ id_ex = IdExReset
  /\ ex_mem = ExMemReset /\ mem_wb = MemWbReset
  /\ dont_write = 0 /\ control_unit = ControlUnitInit /\ stalled_cycles = 0

(* a stage that faults ends the process where it stands *)
Faults == /\ status' = "fault"
          /\ UNCHANGED <<stage, pc, registers, memory, flags, files, if_id, id_ex,
                         ex_mem, mem_wb, dont_write, control_unit, stalled_cycles>>

(***************************************************************************)
(*                            CPU::WB                                      *)
(***************************************************************************)
StallResolved == /\ control_unit.nop = 1
                 /\ mem_wb.opcode \in Loads \cup {"LI", "LUI", "ADD"}

RegWriteInverted == IF control_unit.nop = 0 THEN 1 ELSE mem_wb.ctl.reg_write  \* mutant
RegWrite == IF control_unit.nop = 1 THEN 1 ELSE mem_wb.ctl.reg_write

(* A destination may be the contents of a register (see Misread).  The     *)
(* registers are the last member of class CPU: a write beyond them meets   *)
(* no state of the machine, or faults.                                     *)
Written(r, v) == IF r \in Reg THEN [registers EXCEPT ![r] = v] ELSE registers

WrittenBack ==
  CASE RegWrite = 1 /\ mem_wb.ctl.mem_to_reg = 1 -> mem_wb.mem_data
    [] RegWrite = 1 /\ mem_wb.ctl.mem_to_reg = 0 /\ dont_write = 0 -> mem_wb.alu_result
    [] OTHER -> registers[mem_wb.destination_register]

(* the four cases of the WB to EX forwarding chain, the first that holds wins *)
WbHits(r) == /\ RegWrite = 1
             /\ mem_wb.destination_register # 0
             /\ mem_wb.destination_register = r
WbHitsRs    == WbHits(id_ex.rs_reg) /\ ex_mem.rd # id_ex.rs_reg
WbHitsRt    == WbHits(id_ex.rt_reg) /\ ex_mem.rd # id_ex.rt_reg
WbHitsRsToo == WbHits(id_ex.rs_reg) /\ mem_wb.destination_register # id_ex.rd_reg
WbHitsRd    == WbHits(id_ex.rd_reg) /\ mem_wb.destination_register # id_ex.rs_reg

WbForwardsA == WbHitsRs \/ (~WbHitsRt /\ WbHitsRsToo)
WbForwardsB == ~WbHitsRs /\ (WbHitsRt \/ (~WbHitsRsToo /\ WbHitsRd))
(* a store in MEM/WB whose register number equals the base register ahead of it *)
StoreForwardsA == /\ mem_wb.ctl.mem_write = 1
                  /\ mem_wb.destination_register = ex_mem.rs_reg

WB ==
  /\ stage = "WB" /\ status = "running"
  /\ stalled_cycles' = stalled_cycles + control_unit.nop
  /\ registers' = Written(mem_wb.destination_register, WrittenBack)
  /\ control_unit' =
       [control_unit EXCEPT
          !.nop         = IF StallResolved THEN 0 ELSE @,
          !.resolved    = IF StallResolved THEN 0 ELSE @,
          !.redo_decode = IF StallResolved THEN 1 ELSE @,
          !.forwardA    = IF WbForwardsA \/ StoreForwardsA THEN 10 ELSE @,
          !.forwardB    = IF WbForwardsB THEN 10 ELSE @]
  /\ mem_wb' = [mem_wb EXCEPT
          !.ctl.reg_write = RegWrite,
          !.mem_data_copy1 = IF WbForwardsA \/ WbForwardsB \/ StoreForwardsA
                               THEN mem_wb.alu_result ELSE @]
  /\ stage' = "MEM"
  /\ UNCHANGED <<status, pc, memory, flags, files, if_id, id_ex, ex_mem, dont_write>>

WBFault ==
  /\ stage = "WB" /\ status = "running"
  /\ RegWrite = 1 /\ (mem_wb.ctl.mem_to_reg = 1 \/ dont_write = 0)
  /\ mem_wb.destination_register \notin Reg
  /\ Faults

(***************************************************************************)
(*                            CPU::mem                                     *)
(***************************************************************************)
MemHits(r) == /\ ex_mem.ctl.reg_write = 1
              /\ ex_mem.destination_register # 0
              /\ ex_mem.destination_register = r
MemForwardsANever == FALSE                                      \* mutant
MemForwardsA == MemHits(id_ex.rs_reg)
MemForwardsB == ~MemForwardsA /\ (MemHits(id_ex.rt_reg) \/ MemHits(id_ex.rd_reg))
MemForwardA  == IF MemForwardsA THEN 1 ELSE control_unit.forwardA

(* the value a store stage writes; SP is compared as the number 29 *)
StoreValue == IF control_unit.forwardB = 10 /\ Signed(ex_mem.alu_result) < SP
                THEN mem_wb.mem_data_copy1 ELSE ex_mem.store_val

(* alu_result as mem() leaves it in EX/MEM: the address it uses *)
MemAddress ==
  CASE MemForwardA = 10 /\ ex_mem.rs_reg # SP -> Add(ex_mem.alu_result, mem_wb.mem_data_copy1)
    [] MemForwardA = 10 /\ ex_mem.rs_reg = SP -> mem_wb.mem_data_copy1
    [] OTHER -> ex_mem.alu_result

MemToMemHazardOnLi ==                                           \* mutant
  /\ ex_mem.opcode \in Loads \cup {"LI", "LUI"}
  /\ id_ex.opcode \in Stores \/ Fields[if_id.instruction].op \in Stores
(* the load in EX/MEM meets a store in ID/EX or IF/ID *)
MemToMemHazard ==
  /\ ex_mem.opcode \in Loads \cup {"LUI"}
  /\ id_ex.opcode \in Stores \/ Fields[if_id.instruction].op \in Stores
  /\ id_ex.opcode # "ADDI" /\ id_ex.rd # SP
DataHazard == IF MemToMemHazard THEN 1 ELSE control_unit.data_hazard_mem_to_mem

(* what execute() will forward or store; the hazard case overwrites the forwarding *)
MemDataCopy ==
  LET kept == IF MemForwardsA \/ MemForwardsB THEN ex_mem.alu_result
                                             ELSE mem_wb.mem_data_copy
  IN IF ex_mem.opcode \in Loads \cup {"LI", "LUI"} /\ DataHazard = 1
       THEN MemAddress ELSE kept

BranchWaitsAlways == TRUE                                       \* mutant
BranchWaits == control_unit.branch = 1

MemAccess == mem_wb.ctl.mem_read = 1 \/ mem_wb.ctl.mem_write = 1
StoringOfTheNext == mem_wb.ctl.mem_read = 0 /\ ex_mem.ctl.mem_write = 1    \* mutant
Storing == mem_wb.ctl.mem_read = 0 /\ mem_wb.ctl.mem_write = 1

Mem ==
  /\ stage = "MEM" /\ status = "running"
  /\ MemAccess => InMemory(MemAddress)
  /\ mem_wb' = [mem_wb EXCEPT
          !.opcode = ex_mem.opcode,
          !.destination_register = ex_mem.destination_register,
          !.alu_result = ex_mem.alu_result,
          !.store_val = StoreValue,
          !.ctl.reg_write = ex_mem.ctl.reg_write,
          !.ctl.mem_to_reg = ex_mem.ctl.mem_to_reg,
          !.mem_data = IF mem_wb.ctl.mem_read = 1 THEN memory[MemAddress] ELSE @,
          !.mem_data_copy = MemDataCopy]
  /\ memory' = IF Storing THEN [memory EXCEPT ![MemAddress] = StoreValue] ELSE memory
  /\ ex_mem' = [ex_mem EXCEPT !.alu_result = MemAddress]
  /\ id_ex' = IF BranchWaits
                THEN [id_ex EXCEPT !.branch_rd = ex_mem.alu_result,
                                   !.branch_rs = ex_mem.alu_result]
                ELSE id_ex
  /\ control_unit' = [control_unit EXCEPT
          !.forwardA = MemForwardA,
          !.forwardB = IF MemForwardsB THEN 1 ELSE @,
          !.data_hazard_mem_to_mem = DataHazard,
          !.branch = 0]
  /\ dont_write' = IF MemToMemHazard THEN 1 ELSE dont_write
  /\ stage' = "EX"
  /\ UNCHANGED <<status, pc, registers, flags, files, if_id, stalled_cycles>>

MemFault ==
  /\ stage = "MEM" /\ status = "running"
  /\ MemAccess /\ ~InMemory(MemAddress)
  /\ Faults

(***************************************************************************)
(*                            CPU::execute                                 *)
(***************************************************************************)
(* ID/EX once the forwarded values have replaced the ones decode() read *)
Forwarded(way, old) == CASE way = 1  -> mem_wb.mem_data_copy
                         [] way = 10 -> mem_wb.mem_data_copy1
                         [] OTHER    -> old

Operands ==
  LET a == Forwarded(control_unit.forwardA, id_ex.rs)
      b == Forwarded(control_unit.forwardB, id_ex.rt)
  IN [id_ex EXCEPT
        !.rs = a,
        !.rd = IF id_ex.opcode = "SW" THEN Forwarded(control_unit.forwardB, @) ELSE @,
        !.rt = CASE id_ex.rs_reg = id_ex.rt_reg -> a
                 [] id_ex.rs_reg # id_ex.rt_reg /\ id_ex.opcode # "SW" -> b
                 [] OTHER -> @]

DestinationIgnoresAluOp(x) == id_ex.rd                          \* mutant
DestinationRegister(x) == IF ex_mem.ctl.alu_op = 10 THEN id_ex.rd ELSE x.rd_reg

ResetExMemForgotten == [NoSignals EXCEPT !.mem_read = ex_mem.ctl.mem_read]    \* mutant
ResetExMem == NoSignals

(* what every call leaves in the latches: x is ID/EX, the results vary *)
Latch(x, alu_result, store_val, link_address) ==
  /\ id_ex' = x
  /\ ex_mem' = [ex_mem EXCEPT
          !.opcode = x.opcode,
          !.rs_reg = x.rs_reg,
          !.rd = x.rd,
          !.destination_register = DestinationRegister(x),
          !.alu_result = alu_result,
          !.store_val = store_val,
          !.link_address = link_address,
          !.ctl = ResetExMem]
  /\ mem_wb' = [mem_wb EXCEPT !.ctl = ex_mem.ctl]

ControlUnitAfterA(pc_src, hazard) ==                            \* mutant
  control_unit' = [control_unit EXCEPT !.forwardA = 0,
                     !.pc_src = pc_src, !.data_hazard_mem_to_mem = hazard]
ControlUnitAfter(pc_src, hazard) ==
  control_unit' = [control_unit EXCEPT !.forwardA = 0, !.forwardB = 0,
                     !.pc_src = pc_src, !.data_hazard_mem_to_mem = hazard]
Unchanged == ControlUnitAfter(control_unit.pc_src, control_unit.data_hazard_mem_to_mem)

(* decode() and fetch_pipeline() do nothing while nop is set *)
Executing == /\ stage = "EX" /\ status = "running"
             /\ stage' = IF control_unit.nop = 1 THEN "WB" ELSE "ID"
             /\ UNCHANGED <<if_id, dont_write, stalled_cycles>>

IsFn(x, fns) == x.opcode = "R_TYPE" /\ x.function_opcode \in fns

ExecuteRegister ==            \* ADD ... SRL
  /\ Executing
  /\ LET x == Operands
         r == RegisterResult(x.function_opcode, x.rs, x.rt, x.shamt)
     IN /\ IsFn(x, Computed)
        /\ Latch(x, r,
                 IF x.function_opcode = "MULT" /\ r # SignBit THEN Half(r) ELSE ex_mem.store_val,
                 ex_mem.link_address)
        /\ flags' = IF x.function_opcode \in {"ADD", "SUB", "MULT"}
                      THEN SetFlags(flags, x.rd, x.rs, x.rt) ELSE flags
  /\ Unchanged
  /\ UNCHANGED <<status, pc, registers, memory, files>>

(* DIV, MFHI, MFLO and unknown codes leave alu_result as it was; HI and LO *)
(* are never written here and stay 0                                       *)
ExecuteNoResult ==
  /\ Executing
  /\ LET x == Operands IN
        /\ IsFn(x, {"DIV", "MFHI", "MFLO", "UNDEFINED"}) \/ x.opcode \in Undefined
        /\ IsFn(x, {"DIV"}) => x.rt # 0
        /\ Latch(x, ex_mem.alu_result,
                 CASE IsFn(x, {"DIV"}) -> x.rs % x.rt
                   [] IsFn(x, {"MFHI", "MFLO"}) -> 0
                   [] OTHER -> ex_mem.store_val,
                 ex_mem.link_address)
        /\ flags' = IF IsFn(x, {"DIV"}) THEN SetFlags(flags, x.rs, x.rt, x.rd) ELSE flags
  /\ Unchanged
  /\ UNCHANGED <<status, pc, registers, memory, files>>

ExecuteJalr ==                \* the program counter moves at once, nothing is flushed
  /\ Executing
  /\ LET x == Operands IN
        /\ IsFn(x, {"JALR"})
        /\ Latch(x, ex_mem.alu_result, ex_mem.store_val, Add(pc, 1))
        /\ pc' = x.rs
  /\ Unchanged
  /\ UNCHANGED <<status, registers, memory, flags, files>>

(* ADDI on the stack pointer also moves the register itself *)
AddToSp(regs, x) == IF x.rs_reg = SP THEN [regs EXCEPT ![SP] = Add(@, x.immediate)] ELSE regs

ExecuteImmediate ==           \* ADDI ... LI
  /\ Executing
  /\ LET x == Operands IN
        /\ x.opcode \in AluImm
        /\ Latch(x, ImmediateResult(x.opcode, x.rs, x.immediate), ex_mem.store_val,
                 ex_mem.link_address)
        /\ registers' = IF x.opcode = "ADDI" THEN AddToSp(registers, x) ELSE registers
        /\ flags' = IF x.opcode = "ADDI" THEN SetFlags(flags, x.rs, x.rd, x.immediate)
                                         ELSE flags
  /\ Unchanged
  /\ UNCHANGED <<status, pc, memory, files>>

(* LW reads memory here already, and mem() reads it again at what LW read *)
ExecuteMemory ==
  /\ Executing
  /\ LET x == Operands
         a == Add(x.rs, x.immediate)
         hazard == control_unit.data_hazard_mem_to_mem
     IN /\ x.opcode \in Loads \cup Stores
        /\ x.opcode = "LW" => InMemory(a)
        /\ Latch(x, IF x.opcode = "LW" THEN memory[a] ELSE a,
                 CASE x.opcode \in Stores /\ hazard = 1 -> mem_wb.mem_data_copy
                   [] x.opcode \in Stores /\ hazard = 0 -> x.rd
                   [] OTHER -> ex_mem.store_val,
                 ex_mem.link_address)
        /\ ControlUnitAfter(control_unit.pc_src,
                            IF x.opcode \in {"SW", "SH"} THEN 0 ELSE hazard)
  /\ UNCHANGED <<status, pc, registers, memory, flags, files>>

ExecuteJump ==
  /\ Executing
  /\ LET x == Operands IN
        /\ x.opcode = "J"
        /\ Latch(x, ex_mem.alu_result, ex_mem.store_val, JumpOffset(x.link_address, x.target))
  /\ ControlUnitAfter(1, control_unit.data_hazard_mem_to_mem)
  /\ UNCHANGED <<status, pc, registers, memory, flags, files>>

(***************************************************************************)
(* BEQ first writes the result in MEM/WB to its register, and then uses    *)
(* the values of its operands as register numbers: beyond the 32 registers *)
(* the comparison reads whatever lies there, or faults.                    *)
(***************************************************************************)
BeqRegisters == Written(mem_wb.destination_register, mem_wb.alu_result)
Compared(i, v) == IF i \in Reg THEN {BeqRegisters[i] = v} ELSE BOOLEAN
BeqOutcomes(x) ==
  IF x.branch_compare_1 # x.branch_compare_2 THEN {FALSE}
  ELSE {a \/ b \/ mem_wb.alu_result = x.branch_rd :
          a \in Compared(x.rs, x.branch_rd), b \in Compared(x.rd, x.branch_rs)}
BeqOutside(x) ==
  \/ mem_wb.destination_register \notin Reg
  \/ /\ x.branch_compare_1 = x.branch_compare_2
     /\ \/ x.rs \notin Reg
        \/ x.rd \notin Reg /\ BeqRegisters[x.rs] # x.branch_rd

BranchTargetUnwrapped(x) == x.link_address + x.immediate        \* mutant
BranchTarget(x) == Add(x.link_address, x.immediate)

ExecuteBeq ==
  /\ Executing
  /\ LET x == Operands IN
        /\ x.opcode = "BEQ"
        /\ \E taken \in BeqOutcomes(x) :
             /\ Latch(x, ex_mem.alu_result, ex_mem.store_val,
                      IF taken THEN BranchTarget(x) ELSE ex_mem.link_address)
             /\ ControlUnitAfter(IF taken THEN 1 ELSE control_unit.pc_src,
                                 control_unit.data_hazard_mem_to_mem)
  /\ registers' = BeqRegisters
  /\ UNCHANGED <<status, pc, memory, flags, files>>

(* unsigned comparisons: BGEZ always holds and BLTZ never does *)
BranchCondition(x) ==
  CASE x.opcode = "BNE"  -> x.rs # x.rd
    [] x.opcode = "BGTZ" -> x.rs > 0
    [] x.opcode = "BLEZ" -> x.rs = 0
    [] x.opcode = "BGEZ" -> TRUE
    [] x.opcode = "BLTZ" -> FALSE

(* `pc_src = 1' is outside the if: the fetch is redirected in either case *)
ExecuteBranch ==
  /\ Executing
  /\ LET x == Operands IN
        /\ x.opcode \in Branches \ {"BEQ"}
        /\ Latch(x, ex_mem.alu_result, ex_mem.store_val,
                 IF BranchCondition(x) THEN BranchTarget(x) ELSE ex_mem.link_address)
  /\ ControlUnitAfter(1, control_unit.data_hazard_mem_to_mem)
  /\ UNCHANGED <<status, pc, registers, memory, flags, files>>

(***************************************************************************)
(* SYSCALL loads $a0..$a3 and $v0 from ID/EX and falls through into ADDI;  *)
(* JAL falls through into SYSCALL.                                         *)
(***************************************************************************)
SyscallCallKeepsV0(x) ==                                        \* mutant
  [registers |-> [r \in Reg |-> IF r \in A0 .. A3 THEN x.args[r] ELSE registers[r]],
   memory |-> memory, files |-> files, status |-> "running"]
SyscallCallKeepsArgs(x) ==                                      \* mutant
  [registers |-> [registers EXCEPT ![V0] = x.syscall_code],
   memory |-> memory, files |-> files, status |-> "running"]
SyscallCall(x) ==
  [registers |-> [r \in Reg |-> CASE r \in A0 .. A3 -> x.args[r]
                                 [] r = V0 -> x.syscall_code
                                 [] OTHER  -> registers[r]],
   memory |-> memory, files |-> files, status |-> "running"]

ExecuteSyscall ==
  /\ Executing
  /\ LET x == Operands IN
        /\ x.opcode \in {"JAL", "SYSCALL"}
        /\ \E c \in Call(SyscallCall(x)) :
             /\ c.status # "fault"
             /\ registers' = AddToSp(c.registers, x)
             /\ memory' = c.memory
             /\ files' = c.files
             /\ status' = c.status
        /\ Latch(x, Add(x.rs, x.immediate), ex_mem.store_val,
                 IF x.opcode = "JAL" THEN x.link_address ELSE ex_mem.link_address)
        /\ flags' = SetFlags(flags, x.rs, x.rd, x.immediate)
  /\ Unchanged
  /\ UNCHANGED pc

(* division by zero traps; the rest leaves the arrays *)
ExecuteFault ==
  /\ stage = "EX" /\ status = "running"
  /\ LET x == Operands IN
        \/ IsFn(x, {"DIV"}) /\ x.rt = 0
        \/ x.opcode = "LW" /\ ~InMemory(Add(x.rs, x.immediate))
        \/ x.opcode = "BEQ" /\ BeqOutside(x)
        \/ /\ x.opcode \in {"JAL", "SYSCALL"}
           /\ \E c \in Call(SyscallCall(x)) : c.status = "fault"
  /\ Faults

Execute == ExecuteRegister \/ ExecuteNoResult \/ ExecuteJalr \/ ExecuteImmediate
             \/ ExecuteMemory \/ ExecuteJump \/ ExecuteBeq \/ ExecuteBranch
             \/ ExecuteSyscall \/ ExecuteFault

(***************************************************************************)
(*                            CPU::decode                                  *)
(***************************************************************************)
DecodedAgain ==                                                 \* mutant
  Fields[IF InMemory(pc) THEN memory[pc] ELSE if_id.instruction]
Decoded == Fields[IF control_unit.redo_decode = 1 THEN memory[pc - 1] ELSE if_id.instruction]

(* the load-use test: a load in EX/MEM writes a register number of the instruction *)
LoadUse(rs_reg, rd_reg) ==
  /\ rs_reg # 0 \/ rd_reg # 0
  /\ control_unit.resolved = 0
  /\ ex_mem.ctl.mem_read = 1
  /\ ex_mem.destination_register \in {rs_reg, rd_reg}

(* what decode() leaves behind in every case; reset() clears the nop and the *)
(* branch it has just set                                                    *)
Issue(i, stall) ==
  /\ ex_mem' = [ex_mem EXCEPT !.ctl =
          SetControlSignals([NoSignals EXCEPT !.reg_write = IF stall THEN 1 ELSE 0], i.op)]
  /\ control_unit' = Reset([control_unit EXCEPT
          !.redo_decode = 0,
          !.branch = IF i.op \in Branches \cup Jumps THEN 1 ELSE @,
          !.resolved = IF stall THEN 1 ELSE @,
          !.nop = IF stall THEN 1 ELSE @])
  /\ mem_wb' = IF stall THEN MemWbReset ELSE mem_wb
  /\ if_id' = IF stall THEN IfIdReset ELSE if_id

Decoding == /\ stage = "ID" /\ status # "fault" /\ stage' = "IF"
            /\ UNCHANGED <<status, memory, flags, files, dont_write, stalled_cycles>>

DecodeRegister ==
  /\ Decoding
  /\ LET i == Decoded IN
        /\ i.op = "R_TYPE"
        /\ id_ex' = [id_ex EXCEPT
                !.link_address = if_id.link_address, !.opcode = i.op,
                !.rs = registers[i.rs], !.rt = registers[i.rt], !.rd = i.rd,
                !.shamt = i.shamt, !.function_opcode = i.fn,
                !.rs_reg = i.rs, !.rt_reg = i.rt, !.rd_reg = 0]
        /\ Issue(i, LoadUse(i.rs, 0))
  /\ UNCHANGED <<pc, registers>>

DecodeJump ==                 \* JAL skips the instruction fetched next
  /\ Decoding
  /\ LET i == Decoded IN
        /\ i.op \in Jumps
        /\ pc' = IF i.op = "JAL" THEN Add(pc, 1) ELSE pc
        /\ id_ex' = [id_ex EXCEPT
                !.opcode = i.op, !.link_address = pc',
                !.target = Fields[if_id.instruction].target]
        /\ Issue(i, FALSE)
  /\ UNCHANGED registers

(* a result bound for one of $a0..$a3 and not written back yet goes to $a0 *)
SyscallArgument ==
  LET address == {"LUI", "ORI"} IN
  CASE mem_wb.opcode \in address /\ mem_wb.destination_register \in A0 .. A3
         -> mem_wb.alu_result
    [] ~(mem_wb.opcode \in address /\ mem_wb.destination_register \in A0 .. A3)
         /\ ex_mem.opcode \in address /\ ex_mem.rd \in A0 .. A3
         -> ex_mem.alu_result
    [] OTHER -> registers[A0]

DecodeSyscall ==
  /\ Decoding
  /\ LET i == Decoded IN
        /\ i.op = "SYSCALL"
        /\ id_ex' = [id_ex EXCEPT !.link_address = if_id.link_address, !.opcode = i.op]
        /\ Issue(i, FALSE)
  /\ registers' = [registers EXCEPT ![A0] = SyscallArgument]
  /\ UNCHANGED pc

(* bits 16..20, rt of an R-type, are `rd' here; $v0 and $a0..$a3 are snooped *)
DecodeImmediate ==
  /\ Decoding
  /\ LET i == Decoded
         imm == SignExtend(i.imm)
         stall == LoadUse(i.rs, i.rt)
         compares == i.op \in Branches \ {"BNE"}
     IN /\ i.op \in Immediates
        /\ Issue(i, stall)
        /\ id_ex' = [id_ex EXCEPT
                !.link_address = if_id.link_address, !.opcode = i.op,
                !.syscall_code = IF i.rt = V0 THEN imm ELSE @,
                !.args = [a \in A0 .. A3 |-> IF i.rt = a THEN imm ELSE @[a]],
                !.rs = registers[i.rs], !.rs_reg = i.rs,
                !.rd = registers[i.rt], !.rd_reg = i.rt,
                !.rt = 0, !.rt_reg = 0, !.immediate = imm,
                !.branch_compare_1 = IF compares THEN ex_mem.alu_result ELSE @,
                !.branch_compare_2 = IF compares THEN mem_wb'.alu_result ELSE @]
  /\ UNCHANGED <<pc, registers>>

Decode == DecodeRegister \/ DecodeJump \/ DecodeSyscall \/ DecodeImmediate

(***************************************************************************)
(*                            CPU::fetch_pipeline                          *)
(***************************************************************************)
Fetching == /\ stage = "IF" /\ status # "fault" /\ stage' = "WB"
            /\ UNCHANGED <<status, registers, memory, flags, files, ex_mem, mem_wb,
                           dont_write, stalled_cycles>>

FetchNext ==
  /\ Fetching /\ control_unit.pc_src = 0 /\ InMemory(pc)
  /\ pc' = Add(pc, 1)
  /\ if_id' = [instruction |-> memory[pc], link_address |-> pc']
  /\ UNCHANGED <<id_ex, control_unit>>

PcSrcKept == control_unit                                       \* mutant
PcSrcConsumed == [control_unit EXCEPT !.pc_src = 0]

(* the target is fetched but pc is left on it: the next turn fetches it again *)
FetchTarget ==
  /\ Fetching /\ control_unit.pc_src = 1 /\ InMemory(pc) /\ InMemory(ex_mem.link_address)
  /\ pc' = ex_mem.link_address
  /\ if_id' = [instruction |-> memory[pc'], link_address |-> pc']
  /\ id_ex' = FlushIdEx
  /\ control_unit' = PcSrcConsumed

FetchFault ==
  /\ stage = "IF" /\ status # "fault"
  /\ ~InMemory(pc) \/ (control_unit.pc_src = 1 /\ ~InMemory(ex_mem.link_address))
  /\ Faults

Fetch == FetchNext \/ FetchTarget \/ FetchFault

Next == WB \/ WBFault \/ Mem \/ MemFault \/ Execute \/ Decode \/ Fetch

(* run_pipeline is one loop of one thread: it keeps going until it halts *)
Spec == Init /\ [][Next]_vars /\ WF_vars(Next)

(***************************************************************************)
(*                             PROPERTIES                                  *)
(***************************************************************************)
(* The hazard unit of decode() never acts: when it looks for a load in     *)
(* EX/MEM, execute() has moved the signals of EX/MEM on and cleared them,  *)
(* so no stall is ever raised, resolved, redone or counted.  The unit that *)
(* CPU_design.md:364 describes, which "stalls the pipeline" on a load-use, *)
(* is not what the code has.                                               *)
HazardUnitIdle ==
  /\ control_unit.nop = 0 /\ control_unit.resolved = 0 /\ control_unit.redo_decode = 0
  /\ stalled_cycles = 0

(* A forwarding request raised by WB() or mem() is served by the execute() *)
(* of the same turn: it never reaches an instruction decoded later.        *)
ForwardingConsumed ==
  control_unit.forwardA # 0 \/ control_unit.forwardB # 0 => stage \in {"MEM", "EX"}

(* A redirection ordered by execute() is obeyed by the fetch_pipeline() of *)
(* the same turn, and by no later one.                                     *)
RedirectWithinTurn == control_unit.pc_src = 1 => stage \in {"ID", "IF"}

(* The values decode() wants compared for a branch never arrive: reset()   *)
(* takes the branch signal back before mem() can look at it, so BEQ        *)
(* compares with branch_rd = branch_rs = 0 in every state, which neither   *)
(* the comment in mem() ("Solved Problem") nor CPU_design.md:168 ("Branch  *)
(* if $rs == $rt") expects.                                                *)
BranchOperandsZero == id_ex.branch_rd = 0 /\ id_ex.branch_rs = 0 /\ control_unit.branch = 0

(* The destination of a result numbers one of the 32 registers unless the  *)
(* instruction is one setControlSignals misreads: for no other does        *)
(* execute() take the contents of a register from ID/EX for a number, be   *)
(* it flushed, a bubble, or a call that keeps the fields of another.       *)
DestinationIsNumber ==
  /\ ex_mem.opcode \notin Misread => ex_mem.destination_register \in Reg
  /\ mem_wb.opcode \notin Misread => mem_wb.destination_register \in Reg

(* When WB() and mem() run, the signals in MEM/WB are not those of the     *)
(* instruction MEM/WB holds but of the one behind it, in EX/MEM; where an  *)
(* instruction has been flushed, its signals survive it beside a bubble.   *)
SignalsOneStageAhead ==
  stage \in {"WB", "MEM"} =>
    \/ mem_wb.ctl = SetControlSignals(NoSignals, ex_mem.opcode)
    \/ ex_mem.opcode = "R_TYPE"

(* Memory is only written by mem() on behalf of a store in EX/MEM, or by a *)
(* system call.  It holds as long as nothing is flushed.                   *)
StoresOnly ==
  [][memory' # memory => \/ stage = "MEM" /\ ex_mem.opcode \in Stores
                         \/ stage = "EX" /\ id_ex.opcode \in {"JAL", "SYSCALL"}]_vars

(* WB() writes a register only if the instruction in MEM/WB produces a     *)
(* result for it; a store, a branch or a jump does not (CPU_design.md:     *)
(* "Whether to write to the register file" is a signal of MEM/WB).         *)
OnlyResultsWrittenBack ==
  [][stage = "WB" /\ registers' # registers =>
       mem_wb.opcode \in {"R_TYPE"} \cup AluImm \cup Loads]_vars

(* The word in IF/ID is the one before the address kept with it, as        *)
(* CPU_design.md says ("PC+4: Address of the next instruction").           *)
NextInstructionKept ==
  stage = "WB" /\ if_id.link_address # 0 => if_id.instruction = memory[if_id.link_address - 1]

(* While nothing is flushed, the instruction in EX is the one two words    *)
(* before pc: none is lost, repeated or overtaken.  (A program that writes *)
(* into its own text is outside this property.)                            *)
InStep ==
  stage = "EX" /\ status = "running" /\ pc >= 2 => id_ex.opcode = Fields[memory[pc - 2]].op

(* Once raised, dont_write is never lowered again, and no result of the    *)
(* ALU is written back.  That happens only to a program with a store one   *)
(* or two words behind a load (or lui): a store behind li, the constant of *)
(* nearly every program, loses nothing.                                    *)
WritesStopBesideStore ==
  LET Op(a) == IF InMemory(a) THEN Fields[memory[a]].op ELSE "UNDEFINED" IN
  dont_write = 1 => \E a \in Address : /\ Op(a) \in Loads \cup {"LUI"}
                                       /\ {Op(a + 1), Op(a + 2)} \cap Stores # {}

(* The word a load has read in execute() is the one mem() hands on to be   *)
(* written back ("the loaded memory value (if `lw`)", CPU_design.md).      *)
LoadedWordKept ==
  [][stage = "MEM" /\ stage' = "EX" /\ ex_mem.opcode = "LW" =>
       mem_wb'.mem_data = ex_mem.alu_result]_vars

(* the latches seen as FiveStage sees them *)
Flow == INSTANCE FiveStage WITH
  turn <- stage, fetched <- Fields[if_id.instruction].op, decoded <- id_ex.opcode,
  executed <- ex_mem.opcode, accessed <- mem_wb.opcode,
  Opcode <- Opcodes, Bubble <- "R_TYPE"
(* The opcodes in the latches move as FiveStage says: each call of a stage *)
(* moves one instruction by one latch, and only fetch_pipeline() may turn  *)
(* one into a bubble.                                                      *)
FlowSpec == Flow!Spec

(***************************************************************************)
(* Programs of OrderProofs.  A straight text stores, branches and jumps    *)
(* nowhere and asks for no string.  A program leaves $zero alone of which  *)
(* each word does, no system call stands right behind an R-type, and one   *)
(* that is misread stands before one that writes no register.              *)
(***************************************************************************)
GoesStraight(i) ==
  /\ i.op \notin Stores \cup Branches \cup Jumps
  /\ ~(i.op = "R_TYPE" /\ i.fn = "JALR")
  /\ Lines # {} /\ i.op \in Immediates /\ i.rt = V0 => SignExtend(i.imm) # READ_STRING
StraightText ==
  /\ \A p \in Programs : \A k \in 1 .. Len(p) : GoesStraight(Fields[p[k]])
  /\ GoesStraight(Fields[0])

WritesNothing(op) == SetControlSignals(NoSignals, op).reg_write = 0
ZeroProgram(p) ==
  \A k \in 1 .. Len(p) :
    /\ SparesZero(Fields[p[k]])
    /\ Fields[p[k]].op = "SYSCALL" => k > 1 /\ Fields[p[k - 1]].op # "R_TYPE"
    /\ Fields[p[k]].op \in Misread => k < Len(p) /\ WritesNothing(Fields[p[k + 1]].op)
ZeroPrograms ==
  /\ Lines = {} /\ SparesZero(Fields[0])
  /\ \A p \in Programs : ZeroProgram(p)
  /\ \A s \in Presets : InitialRegisters(s)[0] = 0
==============================================================================
