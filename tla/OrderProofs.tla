----------------------------- MODULE OrderProofs -----------------------------
(***************************************************************************)
(* Proofs about the five-stage engine while it executes in a straight      *)
(* line: the order of the instructions in the latches, and the stores and  *)
(* write-backs that depend on it.                                          *)
(***************************************************************************)
EXTENDS PipelineProofs

(***************************************************************************)
(* What a straight line is: conditions on an execution, not on programs.   *)
(* execute() never orders a redirection; nothing but fetch_pipeline()      *)
(* moves the program counter, as JALR and JAL do; and no store or system   *)
(* call changes a word that has been fetched.                              *)
(***************************************************************************)
NotRedirected == control_unit.pc_src = 0
FetchMovesPc  == pc' # pc => stage = "IF"
TextKept      == \A a \in Address : a < pc => memory'[a] = memory[a]

StraightLine == []NotRedirected /\ [][FetchMovesPc]_vars /\ [][TextKept]_vars

(***************************************************************************)
(* The inductive invariant                                                 *)
(***************************************************************************)
(* the opcode of the instruction k words before pc, a bubble before the first *)
Behind(k) == IF pc >= k THEN Fields[memory[pc - k]].op ELSE "R_TYPE"

(* The latches hold the words before pc, one each.  ID/EX moves on in      *)
(* decode(), EX/MEM in execute().                                          *)
InOrder ==
  /\ pc <= MemSize
  /\ stage # "IF" => Fields[if_id.instruction].op = Behind(1)
  /\ id_ex.opcode  = IF stage = "IF" THEN Behind(1) ELSE Behind(2)
  /\ ex_mem.opcode = IF stage \in {"ID", "IF"} THEN Behind(2) ELSE Behind(3)

(* dont_write was raised by a load and a store that have both been fetched *)
StoppedBehindPc ==
  dont_write = 1 => \E a \in Address :
    /\ a + 2 < pc
    /\ Fields[memory[a]].op \in Loads \cup {"LUI"}
    /\ {Fields[memory[a + 1]].op, Fields[memory[a + 2]].op} \cap Stores # {}

OrderInv == InOrder /\ StoppedBehindPc

(* The signal that makes mem() write belongs to a store: without a flush,  *)
(* the signals never outlive their instruction.                            *)
StoreSignals ==
  /\ stage # "EX" /\ mem_wb.ctl.mem_write = 1 => ex_mem.opcode \in Stores
  /\ stage # "ID" /\ ex_mem.ctl.mem_write = 1 => id_ex.opcode \in Stores

(***************************************************************************)
(* What each stage does to the latches                                     *)
(***************************************************************************)
(* execute() moves ID/EX on, or faults. *)
LEMMA ExecuteMoves ==
  ASSUME IInv, Execute
  PROVE  \/ Faults
         \/ /\ stage = "EX" /\ stage' = "ID"
            /\ if_id' = if_id /\ dont_write' = dont_write
            /\ id_ex'.opcode = id_ex.opcode /\ ex_mem'.opcode = id_ex.opcode
            /\ ex_mem'.ctl = NoSignals /\ mem_wb'.ctl = ex_mem.ctl
<1>1. CASE ExecuteFault
  BY <1>1 DEF ExecuteFault
<1>2. CASE ~ExecuteFault
  <2>1. Executing /\ \E r, s, l : Latch(Operands, r, s, l)
    <3>1. CASE ExecuteRegister \/ ExecuteNoResult \/ ExecuteJalr \/ ExecuteImmediate
      BY <3>1 DEF ExecuteRegister, ExecuteNoResult, ExecuteJalr, ExecuteImmediate
    <3>2. CASE ExecuteMemory \/ ExecuteJump \/ ExecuteBranch \/ ExecuteSyscall
      BY <3>2 DEF ExecuteMemory, ExecuteJump, ExecuteBranch, ExecuteSyscall
    <3>3. CASE ExecuteBeq
      BY <3>3 DEF ExecuteBeq
    <3> QED BY <1>2, <3>1, <3>2, <3>3 DEF Execute
  <2>2. Operands.opcode = id_ex.opcode
    BY OperandsTyped DEF IInv
  <2>3. id_ex'.opcode = id_ex.opcode /\ ex_mem'.opcode = id_ex.opcode
    BY <2>1, <2>2 DEF Latch, IInv, TypeOK, ExMemSet
  <2>4. ex_mem'.ctl = NoSignals /\ mem_wb'.ctl = ex_mem.ctl
    BY <2>1 DEF Latch, IInv, TypeOK, ExMemSet, MemWbSet, ResetExMem
  <2> QED BY <2>1, <2>3, <2>4 DEF Executing, IInv, HazardUnitIdle
<1> QED BY <1>1, <1>2

(* execute() changes memory only for a system call, or a call that falls   *)
(* through into one.                                                       *)
LEMMA ExecuteWrites ==
  ASSUME IInv, Execute, memory' # memory
  PROVE  stage = "EX" /\ id_ex.opcode \in {"JAL", "SYSCALL"}
<1>1. ExecuteSyscall
  BY DEF Execute, ExecuteRegister, ExecuteNoResult, ExecuteJalr, ExecuteImmediate,
    ExecuteMemory, ExecuteJump, ExecuteBeq, ExecuteBranch, ExecuteFault, Faults
<1>2. Operands.opcode = id_ex.opcode
  BY OperandsTyped DEF IInv
<1> QED BY <1>1, <1>2 DEF ExecuteSyscall, Executing

(* decode() moves the word in IF/ID on. *)
LEMMA DecodeMoves ==
  ASSUME IInv, Decode
  PROVE  /\ stage = "ID" /\ stage' = "IF"
         /\ memory' = memory /\ dont_write' = dont_write /\ if_id' = if_id
         /\ id_ex'.opcode = Fields[if_id.instruction].op
         /\ ex_mem'.opcode = ex_mem.opcode
         /\ ex_mem'.ctl = SetControlSignals(NoSignals, id_ex'.opcode)
         /\ mem_wb' = mem_wb
<1>1. Decoding
  BY DEF Decode, DecodeRegister, DecodeJump, DecodeSyscall, DecodeImmediate
<1>2. \A r, s : LoadUse(r, s) = FALSE
  BY <1>1, NoLoadUse DEF Decoding, LoadUse
<1>3. Issue(Decoded, FALSE)
  BY <1>2 DEF Decode, DecodeRegister, DecodeJump, DecodeSyscall, DecodeImmediate
<1>4. id_ex'.opcode = Decoded.op
  <2>1. id_ex \in IdExSet
    BY IdExFacts
  <2>2. CASE DecodeRegister
    BY <2>1, <2>2 DEF DecodeRegister, IdExSet
  <2>3. CASE DecodeJump
    BY <2>1, <2>3 DEF DecodeJump, IdExSet
  <2>4. CASE DecodeSyscall
    BY <2>1, <2>4 DEF DecodeSyscall, IdExSet
  <2>5. CASE DecodeImmediate
    BY <2>1, <2>5 DEF DecodeImmediate, IdExSet
  <2> QED BY <2>2, <2>3, <2>4, <2>5 DEF Decode
<1>5. Decoded = Fields[if_id.instruction]
  BY DEF Decoded, IInv, HazardUnitIdle
<1>6. [NoSignals EXCEPT !.reg_write = 0] = NoSignals
  BY DEF NoSignals
<1>7. /\ ex_mem' = [ex_mem EXCEPT !.ctl = SetControlSignals(NoSignals, Decoded.op)]
      /\ mem_wb' = mem_wb /\ if_id' = if_id
  BY <1>3, <1>6 DEF Issue
<1>8. ex_mem'.opcode = ex_mem.opcode /\ ex_mem'.ctl = SetControlSignals(NoSignals, Decoded.op)
  BY <1>7 DEF IInv, TypeOK, ExMemSet
<1> QED BY <1>1, <1>4, <1>5, <1>7, <1>8 DEF Decoding

(* mem() leaves ID/EX alone and the opcode of EX/MEM as it is. *)
LEMMA MemMoves ==
  ASSUME IInv, Mem
  PROVE  /\ stage = "MEM" /\ stage' = "EX" /\ pc' = pc /\ if_id' = if_id
         /\ id_ex' = id_ex
         /\ ex_mem'.opcode = ex_mem.opcode /\ ex_mem'.ctl = ex_mem.ctl
BY DEF Mem, IInv, BranchOperandsZero, BranchWaits, TypeOK, ExMemSet

(* Only a store's or no signals at all make mem() write. *)
LEMMA StoreSignalIsOfStore ==
  ASSUME NEW op \in Opcodes, SetControlSignals(NoSignals, op).mem_write = 1
  PROVE  op \in Stores
BY DEF SetControlSignals, NoSignals, AluImm, Loads, Stores, Branches

(***************************************************************************)
(* Program order                                                           *)
(***************************************************************************)
(* The reset pipeline is in order. *)
LEMMA InitOrder == Init => OrderInv
BY FieldsAssumption, MemoryAssumption
DEF Init, OrderInv, InOrder, StoppedBehindPc, Behind, IfIdReset, IdExReset, ExMemReset

(* The words behind pc are the same while pc stays and the text is kept. *)
LEMMA BehindKept ==
  ASSUME IInv, pc <= MemSize, TextKept, pc' = pc
  PROVE  Behind(1)' = Behind(1) /\ Behind(2)' = Behind(2) /\ Behind(3)' = Behind(3)
<1>1. pc \in Nat
  BY StateFacts, WordFacts DEF Word
<1>2. ASSUME NEW k \in {1, 2, 3}, pc >= k PROVE memory'[pc - k] = memory[pc - k]
  BY <1>1, <1>2, MemoryAssumption DEF TextKept, Address
<1> QED BY <1>1, <1>2 DEF Behind

(* So are the load and the store that have stopped the write-backs. *)
LEMMA StoppedKept ==
  ASSUME IInv, OrderInv, TextKept, pc' \in Nat, pc' >= pc, dont_write' = dont_write
  PROVE  StoppedBehindPc'
<1>1. CASE dont_write # 1
  BY <1>1 DEF StoppedBehindPc
<1>2. CASE dont_write = 1
  <2>1. PICK a \in Address :
          /\ a + 2 < pc
          /\ Fields[memory[a]].op \in Loads \cup {"LUI"}
          /\ {Fields[memory[a + 1]].op, Fields[memory[a + 2]].op} \cap Stores # {}
    BY <1>2 DEF OrderInv, StoppedBehindPc
  <2>2. pc \in Nat /\ a \in Nat /\ pc <= MemSize /\ MemSize \in Nat
    BY <2>1, StateFacts, WordFacts, MemoryAssumption DEF Word, Address, OrderInv, InOrder
  <2>3. a + 1 \in Address /\ a + 2 \in Address
    BY <2>1, <2>2 DEF Address
  <2>4. /\ memory'[a] = memory[a] /\ memory'[a + 1] = memory[a + 1]
        /\ memory'[a + 2] = memory[a + 2]
    BY <2>1, <2>2, <2>3 DEF TextKept
  <2>5. a + 2 < pc'
    BY <2>1, <2>2
  <2> QED BY <2>1, <2>4, <2>5 DEF StoppedBehindPc
<1> QED BY <1>1, <1>2

(* A step that neither fetches nor moves an instruction keeps the order. *)
LEMMA StandingOrder ==
  ASSUME IInv, OrderInv, TextKept, pc' = pc,
         Fields[if_id'.instruction].op = Fields[if_id.instruction].op,
         id_ex'.opcode = id_ex.opcode, ex_mem'.opcode = ex_mem.opcode,
         \/ stage' = stage
         \/ stage \in {"WB", "MEM"} /\ stage' \in {"MEM", "EX"}
  PROVE  InOrder'
<1>1. pc <= MemSize
  BY DEF OrderInv, InOrder
<1>2. Behind(1)' = Behind(1) /\ Behind(2)' = Behind(2) /\ Behind(3)' = Behind(3)
  BY <1>1, BehindKept
<1> QED BY <1>1, <1>2 DEF OrderInv, InOrder

(* A step that faults keeps the order. *)
LEMMA FaultsOrder ==
  ASSUME IInv, OrderInv, Faults PROVE OrderInv'
BY DEF Faults, OrderInv, InOrder, StoppedBehindPc, Behind

(* mem() keeps the order; it raises dont_write for a load it has in EX/MEM *)
(* and a store behind it, which are three, two and one words before pc.    *)
LEMMA MemOrder ==
  ASSUME IInv, OrderInv, TextKept, Mem PROVE OrderInv'
<1>1. /\ stage = "MEM" /\ stage' = "EX" /\ pc' = pc /\ if_id' = if_id
      /\ id_ex' = id_ex /\ ex_mem'.opcode = ex_mem.opcode
  BY MemMoves
<1>2. InOrder'
  BY <1>1, StandingOrder
<1>3. pc \in Nat /\ pc <= MemSize
  BY StateFacts, WordFacts DEF Word, OrderInv, InOrder
<1>4. CASE dont_write' = dont_write
  BY <1>1, <1>3, <1>4, <1>2, StoppedKept DEF OrderInv
<1>5. CASE MemToMemHazard
  <2>1. /\ ex_mem.opcode = Behind(3) /\ id_ex.opcode = Behind(2)
        /\ Fields[if_id.instruction].op = Behind(1)
    BY <1>1 DEF OrderInv, InOrder
  <2>2. Behind(3) \in Loads \cup {"LUI"} /\ {Behind(2), Behind(1)} \cap Stores # {}
    BY <1>5, <2>1 DEF MemToMemHazard
  <2>3. pc >= 3
    BY <2>2 DEF Behind, Loads
  <2>4. pc - 3 \in Address /\ (pc - 3) + 2 < pc /\ (pc - 3) + 1 = pc - 2 /\ (pc - 3) + 2 = pc - 1
    BY <1>3, <2>3, MemoryAssumption DEF Address
  <2>5. /\ Fields[memory[pc - 3]].op \in Loads \cup {"LUI"}
        /\ {Fields[memory[pc - 2]].op, Fields[memory[pc - 1]].op} \cap Stores # {}
    BY <1>3, <2>2, <2>3 DEF Behind
  <2>6. /\ memory'[pc - 3] = memory[pc - 3] /\ memory'[pc - 2] = memory[pc - 2]
        /\ memory'[pc - 1] = memory[pc - 1]
    BY <1>3, <2>3, MemoryAssumption DEF TextKept, Address
  <2>7. /\ pc - 3 \in Address /\ (pc - 3) + 2 < pc'
        /\ Fields[memory'[pc - 3]].op \in Loads \cup {"LUI"}
        /\ {Fields[memory'[(pc - 3) + 1]].op, Fields[memory'[(pc - 3) + 2]].op} \cap Stores # {}
    BY <1>1, <2>4, <2>5, <2>6
  <2> QED BY <1>2, <2>7 DEF OrderInv, StoppedBehindPc
<1> QED BY <1>4, <1>5 DEF Mem

(* Every step of a straight line keeps the order. *)
LEMMA NextOrder ==
  ASSUME IInv, OrderInv, NotRedirected, [Next]_vars, [FetchMovesPc]_vars, [TextKept]_vars
  PROVE  OrderInv'
<1>1. CASE UNCHANGED vars
  BY <1>1 DEF vars, OrderInv, InOrder, StoppedBehindPc, Behind
<1>2. CASE ~UNCHANGED vars
  <2>1. Next /\ FetchMovesPc /\ TextKept
    BY <1>2
  <2>2. pc \in Nat /\ pc <= MemSize /\ MemSize \in Nat /\ MemSize < WordSize
    BY StateFacts, WordFacts, MemoryAssumption DEF Word, OrderInv, InOrder
  <2>3. CASE WB
    <3>1. /\ stage = "WB" /\ stage' = "MEM"
          /\ UNCHANGED <<pc, if_id, id_ex, ex_mem, dont_write>>
      BY <2>3 DEF WB
    <3> QED BY <2>1, <2>2, <3>1, StandingOrder, StoppedKept DEF OrderInv
  <2>4. CASE Mem
    BY <2>1, <2>4, MemOrder
  <2>5. CASE Execute
    <3>1. CASE Faults
      BY <3>1, FaultsOrder
    <3>2. CASE ~Faults
      <4>1. /\ stage = "EX" /\ stage' = "ID"
            /\ if_id' = if_id /\ dont_write' = dont_write
            /\ id_ex'.opcode = id_ex.opcode /\ ex_mem'.opcode = id_ex.opcode
        BY <2>5, <3>2, ExecuteMoves
      <4>2. pc' = pc
        BY <2>1, <4>1 DEF FetchMovesPc
      <4>3. Behind(1)' = Behind(1) /\ Behind(2)' = Behind(2)
        BY <2>1, <2>2, <4>2, BehindKept
      <4>4. InOrder'
        BY <2>2, <4>1, <4>2, <4>3 DEF OrderInv, InOrder
      <4>5. StoppedBehindPc'
        BY <2>1, <2>2, <4>1, <4>2, StoppedKept
      <4> QED BY <4>4, <4>5 DEF OrderInv
    <3> QED BY <3>1, <3>2
  <2>6. CASE Decode
    <3>1. /\ stage = "ID" /\ stage' = "IF"
          /\ dont_write' = dont_write /\ if_id' = if_id
          /\ id_ex'.opcode = Fields[if_id.instruction].op
          /\ ex_mem'.opcode = ex_mem.opcode
      BY <2>6, DecodeMoves
    <3>2. pc' = pc
      BY <2>1, <3>1 DEF FetchMovesPc
    <3>3. Behind(1)' = Behind(1) /\ Behind(2)' = Behind(2)
      BY <2>1, <2>2, <3>2, BehindKept
    <3>4. InOrder'
      BY <2>2, <3>1, <3>2, <3>3 DEF OrderInv, InOrder
    <3>5. StoppedBehindPc'
      BY <2>1, <2>2, <3>1, <3>2, StoppedKept
    <3> QED BY <3>4, <3>5 DEF OrderInv
  <2>7. CASE FetchNext
    <3>1. /\ stage = "IF" /\ stage' = "WB" /\ pc < MemSize
          /\ pc' = Add(pc, 1) /\ if_id'.instruction = memory[pc]
          /\ UNCHANGED <<id_ex, ex_mem, memory, dont_write>>
      BY <2>7 DEF FetchNext, Fetching, InMemory
    <3>2. pc' = pc + 1
      BY <2>2, <3>1, WordFacts DEF Add, Wrap
    <3>3. /\ Behind(1)' = Fields[memory[pc]].op
          /\ Behind(2)' = Behind(1) /\ Behind(3)' = Behind(2)
      BY <2>2, <3>1, <3>2 DEF Behind
    <3>4. InOrder'
      BY <2>2, <3>1, <3>2, <3>3 DEF OrderInv, InOrder
    <3>5. StoppedBehindPc'
      BY <2>1, <2>2, <3>1, <3>2, StoppedKept
    <3> QED BY <3>4, <3>5 DEF OrderInv
  <2>8. ~FetchTarget
    BY DEF FetchTarget, NotRedirected
  <2>9. CASE WBFault \/ MemFault \/ FetchFault
    BY <2>9, FaultsOrder DEF WBFault, MemFault, FetchFault
  <2> QED BY <2>1, <2>3, <2>4, <2>5, <2>6, <2>7, <2>8, <2>9 DEF Next, Fetch
<1> QED BY <1>1, <1>2

(* The latches hold the words before pc throughout a straight line. *)
LEMMA OrderInvariance == Spec /\ StraightLine => []OrderInv
<1>1. Init => OrderInv
  BY InitOrder
<1>2. IInv /\ OrderInv /\ NotRedirected /\ [Next]_vars /\ [FetchMovesPc]_vars
        /\ [TextKept]_vars => OrderInv'
  BY NextOrder
<1> QED BY <1>1, <1>2, Invariance, PTL DEF Spec, StraightLine

(* No instruction of a straight line is lost, repeated or overtaken: what  *)
(* execute() works on is the instruction two words before pc.              *)
THEOREM NothingOvertaken == Spec /\ StraightLine => []InStep
<1>1. OrderInv => InStep
  BY DEF OrderInv, InOrder, InStep, Behind
<1> QED BY <1>1, OrderInvariance, PTL

(* In a straight line the results of the ALU stop being written back only  *)
(* to a program that has a store one or two words behind a load or a lui.  *)
THEOREM WritesLostBesideStore == Spec /\ StraightLine => []WritesStopBesideStore
<1>1. IInv /\ OrderInv => WritesStopBesideStore
  <2> SUFFICES ASSUME IInv, OrderInv, dont_write = 1 PROVE WritesStopBesideStore
    BY DEF WritesStopBesideStore
  <2>1. PICK a \in Address :
          /\ a + 2 < pc
          /\ Fields[memory[a]].op \in Loads \cup {"LUI"}
          /\ {Fields[memory[a + 1]].op, Fields[memory[a + 2]].op} \cap Stores # {}
    BY DEF OrderInv, StoppedBehindPc
  <2>2. InMemory(a) /\ InMemory(a + 1) /\ InMemory(a + 2)
    BY <2>1, StateFacts, WordFacts, MemoryAssumption
    DEF Word, Address, InMemory, OrderInv, InOrder
  <2> QED BY <2>1, <2>2 DEF WritesStopBesideStore
<1> QED BY <1>1, OrderInvariance, Invariance, PTL

(***************************************************************************)
(* Stores                                                                  *)
(***************************************************************************)
(* As long as nothing is flushed, the signal to write belongs to a store. *)
LEMMA NextStoreSignals ==
  ASSUME IInv, StoreSignals, NotRedirected, [Next]_vars
  PROVE  StoreSignals'
<1>1. CASE UNCHANGED vars
  BY <1>1 DEF vars, StoreSignals
<1>2. CASE WB
  <2>1. mem_wb'.ctl.mem_write = mem_wb.ctl.mem_write
    BY <1>2 DEF WB, IInv, TypeOK, MemWbSet, Signals
  <2> QED BY <1>2, <2>1 DEF WB, StoreSignals
<1>3. CASE Mem
  BY <1>3, MemMoves DEF StoreSignals
<1>4. CASE Execute
  <2>1. CASE Faults
    BY <2>1 DEF Faults, StoreSignals
  <2>2. CASE ~Faults
    <3>1. /\ stage = "EX" /\ stage' = "ID"
          /\ ex_mem'.opcode = id_ex.opcode /\ mem_wb'.ctl = ex_mem.ctl
      BY <1>4, <2>2, ExecuteMoves
    <3> QED BY <3>1 DEF StoreSignals
  <2> QED BY <2>1, <2>2
<1>5. CASE Decode
  <2>1. /\ stage = "ID" /\ stage' = "IF"
        /\ ex_mem'.opcode = ex_mem.opcode /\ mem_wb' = mem_wb
        /\ ex_mem'.ctl = SetControlSignals(NoSignals, id_ex'.opcode)
    BY <1>5, DecodeMoves
  <2>2. id_ex'.opcode \in Opcodes
    BY NextIInv DEF IInv, TypeOK, IdExSet
  <2> QED BY <2>1, <2>2, StoreSignalIsOfStore DEF StoreSignals
<1>6. CASE FetchNext
  BY <1>6 DEF FetchNext, Fetching, StoreSignals
<1>7. ~FetchTarget
  BY DEF FetchTarget, NotRedirected
<1>8. CASE WBFault \/ MemFault \/ FetchFault
  BY <1>8 DEF WBFault, MemFault, FetchFault, Faults, StoreSignals
<1> QED BY <1>1, <1>2, <1>3, <1>4, <1>5, <1>6, <1>7, <1>8 DEF Next, Fetch

(* With such signals mem() and execute() are all that writes. *)
LEMMA NextStores ==
  ASSUME IInv, StoreSignals, Next, memory' # memory
  PROVE  \/ stage = "MEM" /\ ex_mem.opcode \in Stores
         \/ stage = "EX" /\ id_ex.opcode \in {"JAL", "SYSCALL"}
<1>1. CASE Mem
  BY <1>1 DEF Mem, Storing, StoreSignals
<1>2. CASE Execute
  BY <1>2, ExecuteWrites
<1>3. ~WB /\ ~WBFault /\ ~MemFault /\ ~Decode /\ ~Fetch
  BY DecodeMoves DEF WB, WBFault, MemFault, Faults, Fetch, FetchNext, FetchTarget, FetchFault,
    Fetching
<1> QED BY <1>1, <1>2, <1>3 DEF Next

(* Memory changes only when mem() runs with a store in EX/MEM, or          *)
(* execute() with a system call, or the JAL that falls through into one,   *)
(* as long as no redirection flushes an instruction and leaves its signals *)
(* behind.  Where mem() writes, and what, is not claimed: both can be      *)
(* other than the store says (virtual_cpu.cpp:681 and 727).                *)
THEOREM OnlyStoresWrite == Spec /\ []NotRedirected => StoresOnly
<1>1. Init => StoreSignals
  BY DEF Init, StoreSignals, ExMemReset, MemWbReset, NoSignals
<1>2. IInv /\ StoreSignals /\ NotRedirected /\ [Next]_vars => StoreSignals'
  BY NextStoreSignals
<1>3. IInv /\ StoreSignals /\ [Next]_vars =>
        [memory' # memory => \/ stage = "MEM" /\ ex_mem.opcode \in Stores
                             \/ stage = "EX" /\ id_ex.opcode \in {"JAL", "SYSCALL"}]_vars
  BY NextStores DEF vars
<1> QED BY <1>1, <1>2, <1>3, Invariance, PTL DEF Spec, StoresOnly

(* In a straight line mem() changes memory only while the word three       *)
(* before pc is a store: each write has one of the text behind it, at its  *)
(* place in the order, and no other instruction is taken for one.          *)
StoreBehindPc ==
  memory' # memory /\ stage = "MEM" => pc >= 3 /\ Fields[memory[pc - 3]].op \in Stores
THEOREM StraightStoresOnly == Spec /\ StraightLine => [][StoreBehindPc]_vars
<1>1. Init => StoreSignals
  BY DEF Init, StoreSignals, ExMemReset, MemWbReset, NoSignals
<1>2. IInv /\ StoreSignals /\ NotRedirected /\ [Next]_vars => StoreSignals'
  BY NextStoreSignals
<1>3. IInv /\ OrderInv /\ StoreSignals /\ [Next]_vars => [StoreBehindPc]_vars
  <2> SUFFICES ASSUME IInv, OrderInv, StoreSignals, Next, memory' # memory, stage = "MEM"
               PROVE  pc >= 3 /\ Fields[memory[pc - 3]].op \in Stores
    BY DEF StoreBehindPc, vars
  <2>1. ex_mem.opcode \in Stores
    BY NextStores
  <2> QED BY <2>1 DEF OrderInv, InOrder, Behind, Stores
<1> QED BY <1>1, <1>2, <1>3, Invariance, OrderInvariance, PTL DEF Spec, StraightLine

(***************************************************************************)
(* Texts that leave the memory alone                                       *)
(***************************************************************************)
(* No instruction stores, and none is a call, or no string can be read, or *)
(* none asks for the call that reads one: $v0 is snooped from an immediate. *)
Spares(K) ==
  /\ \A i \in K : i.op \notin Stores
  /\ \/ Lines = {}
     \/ \A i \in K : i.op \notin {"JAL", "SYSCALL"}
     \/ \A i \in K : i.op \in Immediates /\ i.rt = V0 => SignExtend(i.imm) # READ_STRING

(* The words in memory and in the latches are instructions of K: ID/EX     *)
(* holds one, or a bubble, and no signal asks mem() to write.              *)
MadeOf(K) ==
  /\ \A a \in Address : Fields[memory[a]] \in K
  /\ Fields[if_id.instruction] \in K
  /\ \/ id_ex.opcode = "R_TYPE" /\ id_ex.function_opcode = "SLL"
     \/ \E i \in K : id_ex.opcode = i.op /\ (i.op = "R_TYPE" => id_ex.function_opcode = i.fn)
  /\ \/ id_ex.syscall_code = 0
     \/ \E i \in K : /\ i.op \in Immediates /\ i.rt = V0
                     /\ id_ex.syscall_code = SignExtend(i.imm)
  /\ ex_mem.ctl.mem_write = 0 /\ mem_wb.ctl.mem_write = 0

(* Nothing that execute() does of these instructions writes into memory. *)
LEMMA ExecuteSpares ==
  ASSUME NEW K, Spares(K), IInv, MadeOf(K), Execute PROVE memory' = memory
<1> SUFFICES ASSUME memory' # memory PROVE FALSE
  OBVIOUS
<1>1. id_ex.opcode \in {"JAL", "SYSCALL"}
  BY ExecuteWrites
<1>2. Lines = {} \/ id_ex.syscall_code # READ_STRING
  BY <1>1 DEF Spares, MadeOf, READ_STRING
<1>3. ExecuteSyscall
  BY DEF Execute, ExecuteRegister, ExecuteNoResult, ExecuteJalr, ExecuteImmediate,
    ExecuteMemory, ExecuteJump, ExecuteBeq, ExecuteBranch, ExecuteFault, Faults
<1> DEFINE c == SyscallCall(Operands)
<1>4. Operands.syscall_code = id_ex.syscall_code /\ Operands.syscall_code \in Word
      /\ Operands.args \in [A0 .. A3 -> Word]
  BY LatchFacts DEF IInv, TypeOK, IdExSet, Operands
<1>5. c \in Outcomes /\ c.registers[V0] = id_ex.syscall_code /\ c.memory = memory
  BY <1>4, StateFacts DEF SyscallCall, Outcomes, Registers, V0, A0, A3, Reg, Status
<1>6. \A d \in Call(c) : d.memory = memory
  BY <1>2, <1>5, CallsSpare
<1> QED BY <1>3, <1>6 DEF ExecuteSyscall

(* What ID/EX is left with by each stage. *)
LEMMA OperandsKeep ==
  ASSUME IInv
  PROVE  Operands.function_opcode = id_ex.function_opcode
         /\ Operands.syscall_code = id_ex.syscall_code /\ Operands.opcode = id_ex.opcode
BY DEF IInv, TypeOK, IdExSet, Operands

(* Every step leaves the memory alone, and brings no other instruction in. *)
LEMMA NextMadeOf ==
  ASSUME NEW K, Spares(K), IInv, MadeOf(K), [Next]_vars
  PROVE  MadeOf(K)' /\ memory' = memory
<1>1. CASE UNCHANGED vars \/ Faults
  BY <1>1 DEF vars, Faults, MadeOf
<1>2. CASE WB
  <2>1. mem_wb'.ctl.mem_write = mem_wb.ctl.mem_write
    BY <1>2 DEF WB, IInv, TypeOK, MemWbSet, Signals
  <2> QED BY <1>2, <2>1 DEF WB, MadeOf
<1>3. CASE Mem
  <2>1. /\ if_id' = if_id /\ id_ex' = id_ex /\ ex_mem'.ctl = ex_mem.ctl
    BY <1>3, MemMoves
  <2>2. mem_wb'.ctl.mem_write = mem_wb.ctl.mem_write
    BY <1>3 DEF Mem, IInv, TypeOK, MemWbSet, Signals
  <2>3. memory' = memory
    BY <1>3 DEF Mem, Storing, MadeOf
  <2> QED BY <2>1, <2>2, <2>3 DEF MadeOf
<1>4. CASE Execute /\ ~Faults
  <2>1. memory' = memory
    BY <1>4, ExecuteSpares
  <2>2. if_id' = if_id /\ ex_mem'.ctl = NoSignals /\ mem_wb'.ctl = ex_mem.ctl
    BY <1>4, ExecuteMoves
  <2>3. \E r, s, l : Latch(Operands, r, s, l)
    BY <1>4 DEF Execute, ExecuteRegister, ExecuteNoResult, ExecuteJalr, ExecuteImmediate,
      ExecuteMemory, ExecuteJump, ExecuteBeq, ExecuteBranch, ExecuteSyscall, ExecuteFault
  <2>4. id_ex' = Operands
    BY <2>3 DEF Latch
  <2> QED BY <2>1, <2>2, <2>4, OperandsKeep DEF MadeOf, NoSignals
<1>5. CASE Decode
  <2> DEFINE i == Fields[if_id.instruction]
  <2>1. /\ memory' = memory /\ if_id' = if_id /\ mem_wb' = mem_wb
        /\ id_ex'.opcode = i.op /\ ex_mem'.ctl = SetControlSignals(NoSignals, i.op)
    BY <1>5, DecodeMoves
  <2>2. i \in K /\ i \in Instruction
    BY DecodedTyped DEF MadeOf, Decoded, IInv, HazardUnitIdle
  <2>3. ex_mem'.ctl.mem_write = 0
    <3>1. i.op \in Opcodes /\ i.op \notin Stores
      BY <2>2, InstructionFacts DEF Spares
    <3>2. ex_mem'.ctl \in Signals /\ ex_mem'.ctl.mem_write # 1
      BY <2>1, <3>1, SignalsTyped, StoreSignalIsOfStore
    <3> QED BY <3>2 DEF Signals, Bit
  <2>4. Decoded = i
    BY DEF Decoded, IInv, HazardUnitIdle
  <2>5. i.op = "R_TYPE" => id_ex'.function_opcode = i.fn
    <3>1. CASE DecodeRegister
      BY <2>4, <3>1, IdExFacts DEF DecodeRegister, IdExSet
    <3> QED BY <1>5, <2>4, <3>1
      DEF Decode, DecodeJump, DecodeSyscall, DecodeImmediate, Jumps, Immediates, AluImm, Loads,
        Stores, Branches, Undefined, Misread
  <2>6. \/ id_ex'.syscall_code = id_ex.syscall_code
        \/ i.op \in Immediates /\ i.rt = V0 /\ id_ex'.syscall_code = SignExtend(i.imm)
    <3>1. CASE DecodeRegister
      BY <3>1, IdExFacts DEF DecodeRegister, IdExSet
    <3>2. CASE DecodeJump
      BY <3>2, IdExFacts DEF DecodeJump, IdExSet
    <3>3. CASE DecodeSyscall
      BY <3>3, IdExFacts DEF DecodeSyscall, IdExSet
    <3>4. CASE DecodeImmediate
      BY <2>4, <3>4, IdExFacts DEF DecodeImmediate, IdExSet
    <3> QED BY <1>5, <3>1, <3>2, <3>3, <3>4 DEF Decode
  <2> QED BY <2>1, <2>2, <2>3, <2>5, <2>6 DEF MadeOf
<1>6. CASE FetchNext
  <2>1. pc \in Address
    BY <1>6, StateFacts, WordFacts, MemoryAssumption DEF FetchNext, InMemory, Word, Address
  <2> QED BY <1>6, <2>1 DEF FetchNext, Fetching, MadeOf
<1>7. CASE FetchTarget
  <2>1. pc' \in Address
    BY <1>7, LatchFacts, WordFacts, MemoryAssumption DEF FetchTarget, InMemory, Word, Address
  <2>2. FlushIdEx.opcode = "R_TYPE" /\ FlushIdEx.function_opcode = "SLL"
        /\ FlushIdEx.syscall_code = 0
    BY IdExFacts DEF FlushIdEx, IdExSet
  <2> QED BY <1>7, <2>1, <2>2 DEF FetchTarget, Fetching, MadeOf
<1> QED BY <1>1, <1>2, <1>3, <1>4, <1>5, <1>6, <1>7
  DEF Next, Fetch, WBFault, MemFault, FetchFault

(* The reset pipeline holds the word 0, and what has been loaded. *)
LEMMA InitMadeOf ==
  ASSUME NEW K, Fields[0] \in K, \A p \in Programs : \A k \in 1 .. Len(p) : Fields[p[k]] \in K,
         Init
  PROVE  MadeOf(K)
<1>1. \A a \in Address : Fields[memory[a]] \in K
  <2>1. PICK p \in Programs : memory = LoadedMemory(p)
    BY DEF Init
  <2>2. ASSUME NEW a \in Address, a < Len(p) PROVE a + 1 \in 1 .. Len(p)
    BY <2>2, ProgramAssumption, MemoryAssumption DEF Address
  <2> QED BY <2>1, <2>2 DEF LoadedMemory
<1> QED BY <1>1 DEF Init, MadeOf, IfIdReset, IdExReset, ExMemReset, MemWbReset, NoSignals

(***************************************************************************)
(* Texts that are executed in a straight line                              *)
(***************************************************************************)
StraightWords == {i \in Instruction : GoesStraight(i)}

(* On such a text execute() redirects nothing, and no stage but            *)
(* fetch_pipeline() moves the program counter.                             *)
LEMMA StraightStep ==
  ASSUME IInv, MadeOf(StraightWords), NotRedirected, Next
  PROVE  NotRedirected' /\ FetchMovesPc
<1>1. /\ id_ex.opcode \notin Branches \cup Jumps
      /\ ~(id_ex.opcode = "R_TYPE" /\ id_ex.function_opcode = "JALR")
  BY DEF MadeOf, StraightWords, GoesStraight, Branches, Jumps
<1>2. Fields[if_id.instruction].op \notin Jumps
  BY DEF MadeOf, StraightWords, GoesStraight
<1>3. control_unit \in ControlUnitSet
  BY DEF IInv, TypeOK
<1>4. CASE WB
  BY <1>3, <1>4 DEF WB, NotRedirected, FetchMovesPc, ControlUnitSet
<1>5. CASE Mem
  BY <1>3, <1>5 DEF Mem, NotRedirected, FetchMovesPc, ControlUnitSet
<1>6. CASE Execute
  <2>1. ~ExecuteJalr /\ ~ExecuteJump /\ ~ExecuteBeq /\ ~ExecuteBranch
    BY <1>1, OperandsKeep DEF ExecuteJalr, ExecuteJump, ExecuteBeq, ExecuteBranch, IsFn,
      Branches, Jumps
  <2>2. CASE ExecuteFault
    BY <2>2 DEF ExecuteFault, Faults, NotRedirected, FetchMovesPc
  <2>3. CASE ExecuteRegister \/ ExecuteNoResult \/ ExecuteImmediate \/ ExecuteMemory
               \/ ExecuteSyscall
    <3>1. pc' = pc /\ \E h : ControlUnitAfter(control_unit.pc_src, h)
      BY <2>3 DEF ExecuteRegister, ExecuteNoResult, ExecuteImmediate, ExecuteMemory,
        ExecuteSyscall, Unchanged
    <3> QED BY <1>3, <3>1 DEF ControlUnitAfter, NotRedirected, FetchMovesPc, ControlUnitSet
  <2> QED BY <1>6, <2>1, <2>2, <2>3 DEF Execute
<1>7. CASE Decode
  <2>1. Decoded = Fields[if_id.instruction]
    BY DEF Decoded, IInv, HazardUnitIdle
  <2>2. ~DecodeJump
    BY <1>2, <2>1 DEF DecodeJump
  <2>3. pc' = pc /\ \E s : Issue(Decoded, s)
    BY <1>7, <2>2 DEF Decode, DecodeRegister, DecodeSyscall, DecodeImmediate
  <2>4. control_unit'.pc_src = control_unit.pc_src
    BY <1>3, <2>3 DEF Issue, Reset, ControlUnitSet
  <2> QED BY <2>3, <2>4 DEF NotRedirected, FetchMovesPc
<1>8. CASE FetchNext
  BY <1>8 DEF FetchNext, Fetching, NotRedirected, FetchMovesPc
<1>9. ~FetchTarget
  BY DEF FetchTarget, NotRedirected
<1>10. CASE WBFault \/ MemFault \/ FetchFault
  BY <1>10 DEF WBFault, MemFault, FetchFault, Faults, NotRedirected, FetchMovesPc
<1> QED BY <1>4, <1>5, <1>6, <1>7, <1>8, <1>9, <1>10 DEF Next, Fetch

(* A text without stores, branches and jumps, that reads no string, is     *)
(* executed in a straight line, whatever else it does: the conditions on   *)
(* an execution that the theorems above ask for follow from the text.      *)
THEOREM StraightTextGoesStraight == StraightText => (Spec => StraightLine)
<1> SUFFICES ASSUME StraightText PROVE Spec => StraightLine
  OBVIOUS
<1>1. Spares(StraightWords)
  BY DEF Spares, StraightWords, GoesStraight
<1>2. Init => MadeOf(StraightWords) /\ NotRedirected
  <2>1. Fields[0] \in StraightWords
    BY WordFacts, FieldsAssumption DEF StraightText, StraightWords
  <2>2. ASSUME NEW p \in Programs, NEW k \in 1 .. Len(p) PROVE Fields[p[k]] \in StraightWords
    <3>1. p[k] \in Word
      BY ProgramAssumption
    <3> QED BY <3>1, FieldsAssumption DEF StraightText, StraightWords
  <2>3. Init => MadeOf(StraightWords)
    BY <2>1, <2>2, InitMadeOf
  <2> QED BY <2>3 DEF Init, ControlUnitInit, NotRedirected
<1>3. IInv /\ MadeOf(StraightWords) /\ [Next]_vars => MadeOf(StraightWords)' /\ memory' = memory
  BY <1>1, NextMadeOf
<1>4. IInv /\ MadeOf(StraightWords) /\ NotRedirected /\ [Next]_vars
        => NotRedirected' /\ [FetchMovesPc]_vars
  BY StraightStep DEF vars, NotRedirected
<1>5. IInv /\ MadeOf(StraightWords) /\ [Next]_vars => [TextKept]_vars
  BY <1>3 DEF TextKept
<1> QED BY <1>2, <1>3, <1>4, <1>5, Invariance, PTL DEF Spec, StraightLine

(* On such a text no instruction is lost, repeated or overtaken. *)
THEOREM StraightTextInStep == StraightText => (Spec => []InStep)
<1> SUFFICES ASSUME StraightText PROVE Spec => []InStep
  OBVIOUS
<1> QED BY StraightTextGoesStraight, NothingOvertaken, PTL

(***************************************************************************)
(* Programs that leave $zero alone                                         *)
(***************************************************************************)
(* A system call goes through the latches with the register number left by *)
(* the instruction before it, and an R-type leaves 0: execute() makes that *)
(* the destination of what the fall-through into ADDI computes.            *)
ZeroWords == {i \in Instruction : SparesZero(i)}
CallsPlaced ==
  \A a \in Address : Fields[memory[a]].op = "SYSCALL" =>
    a > 0 /\ Fields[memory[a - 1]].op # "R_TYPE"

(* A word that is misread has the contents of a register for the number of *)
(* its destination, and may find 0 there.  Whether WB() writes its result  *)
(* depends on the signals of the word behind it.                           *)
MisreadPlaced ==
  \A a \in Address : Fields[memory[a]].op \in Misread =>
    (a + 1 \in Address => WritesNothing(Fields[memory[a + 1]].op))

(* What is on its way to $zero is zero: the instruction in ID/EX has       *)
(* another destination, or it is the empty one, whose operand is not       *)
(* replaced by a forwarded value.  The result of a misread word is no      *)
(* zero, but is not written.                                               *)
EmptySlot == /\ id_ex.function_opcode = "SLL" /\ id_ex.rs = 0 /\ id_ex.rd = 0
             /\ id_ex.rs_reg = 0 /\ id_ex.rt_reg = 0 /\ id_ex.rd_reg = 0
ZeroLatches ==
  /\ registers[0] = 0
  /\ ex_mem.ctl.mem_to_reg = 0 /\ mem_wb.ctl.mem_to_reg = 0
  /\ mem_wb.destination_register = 0 => mem_wb.alu_result = 0 \/ mem_wb.ctl.reg_write = 0
  /\ stage = "EX" => mem_wb.ctl.reg_write = ex_mem.ctl.reg_write
  /\ stage # "EX" /\ ex_mem.destination_register = 0 =>
       ex_mem.alu_result = 0 \/ ex_mem.opcode \in Misread
  /\ stage \notin {"EX", "ID"} /\ ex_mem.opcode \in Misread => ex_mem.ctl.reg_write = 0
  /\ control_unit.forwardA # 0 => id_ex.rs_reg # 0
  /\ id_ex.opcode # "R_TYPE" => id_ex.rd_reg # 0
  /\ stage # "ID" /\ id_ex.opcode = "R_TYPE" =>
       EmptySlot \/ (id_ex.rd # 0 /\ ex_mem.ctl.alu_op = 10)

(* What the words have in common with those of a straight line. *)
LEMMA ZeroWordFacts ==
  ASSUME NEW i \in ZeroWords
  PROVE  /\ i \in Instruction /\ SparesZero(i)
         /\ i.op \in {"R_TYPE", "SYSCALL"} \cup AluImm \cup Undefined
         /\ i.op \notin Stores \cup Loads \cup Branches \cup Jumps
         /\ ~(i.op = "R_TYPE" /\ i.fn = "JALR")
BY DEF ZeroWords, SparesZero, AluImm, Stores, Loads, Branches, Jumps, Undefined, Misread

LEMMA ZeroSignals ==
  ASSUME NEW op \in {"R_TYPE", "SYSCALL"} \cup AluImm \cup Undefined
  PROVE  /\ SetControlSignals(NoSignals, op).mem_to_reg = 0
         /\ op \notin Misread =>
              (SetControlSignals(NoSignals, op).alu_op = 10 <=> op = "R_TYPE")
BY DEF SetControlSignals, NoSignals, AluImm, Branches, Stores, Loads, Undefined, Misread

(* WB() finds zero, or another register, for everything it writes. *)
LEMMA WBZero ==
  ASSUME IInv, MadeOf(ZeroWords), ZeroLatches, WB PROVE ZeroLatches'
<1>1. WrittenBack = 0 \/ mem_wb.destination_register # 0
  BY DEF WrittenBack, RegWrite, IInv, HazardUnitIdle, ZeroLatches
<1>2. registers \in [Reg -> Word] /\ 0 \in Reg /\ mem_wb \in MemWbSet
      /\ control_unit \in ControlUnitSet /\ control_unit.nop = 0
  BY DEF IInv, TypeOK, Registers, Reg, HazardUnitIdle
<1>3. registers'[0] = 0
  BY <1>1, <1>2 DEF WB, Written, ZeroLatches
<1>4. mem_wb'.ctl = mem_wb.ctl
      /\ mem_wb'.destination_register = mem_wb.destination_register
      /\ mem_wb'.alu_result = mem_wb.alu_result
  BY <1>2 DEF WB, RegWrite, MemWbSet, Signals
<1>5. control_unit'.forwardA # 0 => id_ex.rs_reg # 0
  <2>1. ~StoreForwardsA
    BY DEF StoreForwardsA, MadeOf
  <2>2. WbForwardsA => id_ex.rs_reg # 0
    BY DEF WbForwardsA, WbHitsRs, WbHitsRsToo, WbHits
  <2>3. control_unit'.forwardA = control_unit.forwardA \/ WbForwardsA
    BY <1>2, <2>1 DEF WB, ControlUnitSet
  <2> QED BY <2>2, <2>3 DEF ZeroLatches
<1> QED BY <1>3, <1>4, <1>5 DEF WB, ZeroLatches, EmptySlot

(* mem() hands on what execute() has left. *)
LEMMA MemZero ==
  ASSUME IInv, ZeroLatches, Mem PROVE ZeroLatches'
<1>1. mem_wb \in MemWbSet /\ control_unit \in ControlUnitSet
  BY DEF IInv, TypeOK
<1>2. /\ mem_wb'.ctl.mem_to_reg = ex_mem.ctl.mem_to_reg
      /\ mem_wb'.ctl.reg_write = ex_mem.ctl.reg_write
      /\ mem_wb'.destination_register = ex_mem.destination_register
      /\ mem_wb'.alu_result = ex_mem.alu_result
  BY <1>1 DEF Mem, MemWbSet, Signals
<1>3. id_ex' = id_ex /\ ex_mem'.ctl = ex_mem.ctl /\ stage = "MEM" /\ stage' = "EX"
  BY MemMoves
<1>4. control_unit'.forwardA # 0 => id_ex.rs_reg # 0
  BY <1>1 DEF Mem, MemForwardA, MemForwardsA, MemHits, ZeroLatches, ControlUnitSet
<1>5. registers' = registers
  BY DEF Mem
<1> QED BY <1>2, <1>3, <1>4, <1>5 DEF ZeroLatches, EmptySlot

(* decode() reads zero for the operand of an empty instruction, and finds  *)
(* another register for every result.                                      *)
LEMMA DecodeZero ==
  ASSUME IInv, MadeOf(ZeroWords), OrderInv, CallsPlaced, MisreadPlaced, ZeroLatches, Decode
  PROVE  ZeroLatches'
<1> DEFINE i == Fields[if_id.instruction]
<1>1. /\ stage = "ID" /\ stage' = "IF" /\ mem_wb' = mem_wb
      /\ id_ex'.opcode = i.op /\ ex_mem'.ctl = SetControlSignals(NoSignals, i.op)
  BY DecodeMoves
<1>2. Decoded = i /\ i \in ZeroWords
  BY DEF Decoded, IInv, HazardUnitIdle, MadeOf
<1>3. i.op \in {"R_TYPE", "SYSCALL"} \cup AluImm \cup Undefined /\ i \in Instruction
      /\ SparesZero(i)
  BY <1>2, ZeroWordFacts
<1>4. /\ ex_mem'.ctl.mem_to_reg = 0
      /\ i.op = "R_TYPE" => ex_mem'.ctl.alu_op = 10
  BY <1>1, <1>3, ZeroSignals DEF Misread
<1>5. control_unit'.forwardA = 0
  <2>1. control_unit.forwardA = 0 /\ control_unit \in ControlUnitSet
    BY <1>1 DEF IInv, TypeOK, ForwardingConsumed
  <2>2. \E s : Issue(Decoded, s)
    BY DEF Decode, DecodeRegister, DecodeJump, DecodeSyscall, DecodeImmediate
  <2> QED BY <2>1, <2>2 DEF Issue, Reset, ControlUnitSet
<1>6. ex_mem'.destination_register = ex_mem.destination_register
      /\ ex_mem'.alu_result = ex_mem.alu_result
  <2>1. ex_mem \in ExMemSet
    BY DEF IInv, TypeOK
  <2>2. \E s : Issue(Decoded, s)
    BY DEF Decode, DecodeRegister, DecodeJump, DecodeSyscall, DecodeImmediate
  <2> QED BY <2>1, <2>2 DEF Issue, ExMemSet
<1>7. registers'[0] = 0
  <2>1. registers \in [Reg -> Word] /\ 0 \in Reg /\ A0 # 0
    BY DEF IInv, TypeOK, Registers, Reg, A0
  <2> QED BY <2>1 DEF Decode, DecodeRegister, DecodeJump, DecodeSyscall, DecodeImmediate,
        ZeroLatches
<1>8. ex_mem'.opcode \in Misread => ex_mem'.ctl.reg_write = 0
  <2> SUFFICES ASSUME ex_mem'.opcode \in Misread PROVE ex_mem'.ctl.reg_write = 0
    OBVIOUS
  <2>1. ex_mem'.opcode = ex_mem.opcode
    BY DecodeMoves
  <2>2. /\ ex_mem.opcode = Behind(2) /\ i.op = Behind(1) /\ pc \in Nat /\ pc <= MemSize
        /\ MemSize \in Nat
    BY <1>1, StateFacts, WordFacts, MemoryAssumption DEF OrderInv, InOrder, Word
  <2>3. pc >= 2 /\ Fields[memory[pc - 2]].op \in Misread
    BY <2>1, <2>2 DEF Behind, Misread
  <2>4. pc - 2 \in Address /\ pc - 1 \in Address /\ (pc - 2) + 1 = pc - 1
    BY <2>2, <2>3 DEF Address
  <2>5. WritesNothing(Fields[memory[pc - 1]].op)
    BY <2>3, <2>4 DEF MisreadPlaced
  <2>6. WritesNothing(i.op)
    BY <2>2, <2>3, <2>5 DEF Behind
  <2> QED BY <1>1, <2>6 DEF WritesNothing
<1>9. ex_mem'.opcode = ex_mem.opcode
  BY DecodeMoves
<1>10. CASE i.op = "R_TYPE"
  <2>1. DecodeRegister
    BY <1>2, <1>10 DEF Decode, DecodeRegister, DecodeJump, DecodeSyscall, DecodeImmediate, Jumps,
      Immediates, AluImm, Loads, Stores, Branches, Undefined, Misread
  <2>2. /\ id_ex'.function_opcode = i.fn /\ id_ex'.rs = registers[i.rs] /\ id_ex'.rd = i.rd
        /\ id_ex'.rs_reg = i.rs /\ id_ex'.rt_reg = i.rt /\ id_ex'.rd_reg = 0
    BY <1>2, <2>1, IdExFacts DEF DecodeRegister, IdExSet
  <2>3. i.rd # 0 \/ (i.fn = "SLL" /\ i.rs = 0 /\ i.rt = 0 /\ i.rd = 0)
    BY <1>3, <1>10 DEF SparesZero, AluImm, Undefined, Misread
  <2>4. \/ id_ex'.rd # 0
        \/ /\ id_ex'.function_opcode = "SLL" /\ id_ex'.rs = 0 /\ id_ex'.rd = 0
           /\ id_ex'.rs_reg = 0 /\ id_ex'.rt_reg = 0 /\ id_ex'.rd_reg = 0
    BY <2>2, <2>3 DEF ZeroLatches
  <2> QED BY <1>1, <1>4, <1>5, <1>6, <1>7, <1>8, <1>9, <1>10, <2>4 DEF ZeroLatches, EmptySlot
<1>11. CASE i.op # "R_TYPE"
  <2>1. id_ex'.rd_reg # 0
    <3>1. CASE i.op = "SYSCALL"
      <4>1. Behind(1) = "SYSCALL" /\ id_ex.opcode = Behind(2) /\ pc \in Nat /\ pc <= MemSize
        BY <1>1, <3>1, StateFacts, WordFacts DEF OrderInv, InOrder, Word
      <4>2. pc >= 1 /\ Fields[memory[pc - 1]].op = "SYSCALL" /\ pc - 1 \in Address
        BY <4>1, MemoryAssumption DEF Behind, Address
      <4>3. pc - 1 > 0 /\ Fields[memory[(pc - 1) - 1]].op # "R_TYPE"
        BY <4>2 DEF CallsPlaced
      <4>4. pc >= 2 /\ (pc - 1) - 1 = pc - 2
        BY <4>1, <4>3
      <4>5. id_ex.rd_reg # 0
        BY <4>1, <4>3, <4>4 DEF Behind, ZeroLatches
      <4>6. DecodeSyscall
        BY <1>2, <3>1 DEF Decode, DecodeRegister, DecodeJump, DecodeImmediate, Jumps, Immediates,
          AluImm, Loads, Stores, Branches, Undefined, Misread
      <4> QED BY <4>5, <4>6, IdExFacts DEF DecodeSyscall, IdExSet
    <3>2. CASE i.op # "SYSCALL"
      <4>1. DecodeImmediate
        BY <1>2, <1>3, <1>11, <3>2
        DEF Decode, DecodeRegister, DecodeJump, DecodeSyscall, Jumps, AluImm, Undefined, Misread
      <4>2. i.rt # 0
        BY <1>3, <1>11, <3>2 DEF SparesZero
      <4> QED BY <1>2, <4>1, <4>2, IdExFacts DEF DecodeImmediate, IdExSet
    <3> QED BY <3>1, <3>2
  <2> QED BY <1>1, <1>4, <1>5, <1>6, <1>7, <1>8, <1>9, <1>11, <2>1 DEF ZeroLatches
<1> QED BY <1>10, <1>11

(* The empty instruction computes zero, and no other has $zero for its     *)
(* destination, but for those that are misread.                            *)
LEMMA ResultsZero ==
  ASSUME IInv, MadeOf(ZeroWords), ZeroLatches, Execute, ~Faults, id_ex.opcode \notin Misread,
         DestinationRegister(Operands) = 0
  PROVE  ExecuteRegister /\ Operands.function_opcode = "SLL" /\ Operands.rt = 0
<1>1. stage = "EX" /\ control_unit.nop = 0
  BY ExecuteMoves DEF IInv, HazardUnitIdle
<1>2. /\ Operands.opcode = id_ex.opcode /\ Operands.function_opcode = id_ex.function_opcode
      /\ Operands.rd_reg = id_ex.rd_reg
  BY OperandsKeep DEF IInv, TypeOK, IdExSet, Operands
<1>3. id_ex.opcode \in {"R_TYPE", "SYSCALL"} \cup AluImm \cup Undefined
  BY ZeroWordFacts DEF MadeOf
<1>4. id_ex.opcode = "R_TYPE"
  <2>1. SUFFICES ASSUME id_ex.opcode # "R_TYPE" PROVE FALSE
    OBVIOUS
  <2>2. id_ex.rd_reg # 0
    BY <2>1 DEF ZeroLatches
  <2>3. ex_mem.ctl.alu_op # 10
    BY <1>1, <1>3, <2>1, ZeroSignals DEF IInv, SignalsOfIdEx
  <2> QED BY <1>2, <2>2, <2>3 DEF DestinationRegister
<1>5. EmptySlot
  BY <1>1, <1>4 DEF ZeroLatches, DestinationRegister
<1>6. control_unit.forwardA = 0
  BY <1>5 DEF ZeroLatches, EmptySlot
<1>7. Operands.rt = 0
  <2>1. Forwarded(control_unit.forwardA, id_ex.rs) = 0
    BY <1>5, <1>6 DEF Forwarded, EmptySlot
  <2> QED BY <1>5, <2>1, IdExFacts DEF Operands, EmptySlot, IdExSet
<1>8. ExecuteRegister
  BY <1>2, <1>4, <1>5 DEF Execute, ExecuteNoResult, ExecuteJalr, ExecuteImmediate, ExecuteMemory,
    ExecuteJump, ExecuteBeq, ExecuteBranch, ExecuteSyscall, ExecuteFault, IsFn, EmptySlot,
    AluImm, Loads, Stores, Branches, Undefined, Misread
<1> QED BY <1>2, <1>5, <1>7, <1>8 DEF EmptySlot

(* No case of execute() that these instructions reach writes $zero. *)
LEMMA ExecuteKeepsZero ==
  ASSUME IInv, MadeOf(ZeroWords), ZeroLatches, Execute, ~Faults PROVE registers'[0] = 0
<1>1. registers \in [Reg -> Word] /\ {0, V0, SP} \cup (A0 .. A3) \subseteq Reg
      /\ 0 \notin {V0, SP} \cup (A0 .. A3) /\ registers[0] = 0
  BY DEF IInv, TypeOK, Registers, Reg, V0, SP, A0, A3, ZeroLatches
<1>2. ASSUME NEW r \in [Reg -> Word], NEW x PROVE AddToSp(r, x)[0] = r[0]
  BY <1>1, <1>2 DEF AddToSp
<1>3. Operands.opcode \in {"R_TYPE", "SYSCALL"} \cup AluImm \cup Undefined
  BY OperandsKeep, ZeroWordFacts DEF MadeOf
<1>4. ~ExecuteMemory /\ ~ExecuteJump /\ ~ExecuteBeq /\ ~ExecuteBranch
  BY <1>3 DEF ExecuteMemory, ExecuteJump, ExecuteBeq, ExecuteBranch, AluImm, Loads, Stores,
    Branches, Undefined, Misread
<1>5. CASE ExecuteRegister \/ ExecuteNoResult \/ ExecuteJalr
  BY <1>1, <1>5 DEF ExecuteRegister, ExecuteNoResult, ExecuteJalr
<1>6. CASE ExecuteImmediate
  BY <1>1, <1>2, <1>6 DEF ExecuteImmediate
<1>7. CASE ExecuteSyscall
  <2> DEFINE c == SyscallCall(Operands)
  <2>1. Operands.syscall_code \in Word /\ Operands.args \in [A0 .. A3 -> Word]
    BY LatchFacts
  <2>2. c \in Outcomes /\ c.registers[0] = 0
    BY <1>1, <2>1, StateFacts DEF SyscallCall, Outcomes, Registers, Status
  <2> HIDE DEF c
  <2>3. PICK d \in Call(c) : registers' = AddToSp(d.registers, Operands)
    BY <1>7 DEF ExecuteSyscall, c
  <2>4. d \in Outcomes /\ d.registers[0] = 0
    BY <2>2, <2>3, CallTyped, CallSparesZero
  <2>5. d.registers \in [Reg -> Word]
    BY <2>4 DEF Outcomes, Registers
  <2> QED BY <1>2, <2>3, <2>4, <2>5
<1>8. ~ExecuteFault
  BY DEF ExecuteFault
<1> QED BY <1>4, <1>5, <1>6, <1>7, <1>8 DEF Execute

(* execute() keeps what is on its way to $zero zero. *)
LEMMA ExecuteZero ==
  ASSUME IInv, MadeOf(ZeroWords), ZeroLatches, Execute, ~Faults PROVE ZeroLatches'
<1>1. /\ stage = "EX" /\ stage' = "ID" /\ ex_mem'.ctl = NoSignals /\ mem_wb'.ctl = ex_mem.ctl
      /\ id_ex'.opcode = id_ex.opcode /\ ex_mem'.opcode = id_ex.opcode
  BY ExecuteMoves
<1>2. PICK r, s, l : Latch(Operands, r, s, l) /\ (ExecuteRegister =>
        r = RegisterResult(Operands.function_opcode, Operands.rs, Operands.rt, Operands.shamt))
  <2>1. CASE ExecuteRegister
    BY <2>1 DEF ExecuteRegister
  <2>2. CASE ~ExecuteRegister
    BY <2>2 DEF Execute, ExecuteNoResult, ExecuteJalr, ExecuteImmediate, ExecuteMemory,
      ExecuteJump, ExecuteBeq, ExecuteBranch, ExecuteSyscall, ExecuteFault
  <2> QED BY <2>1, <2>2
<1>3. /\ ex_mem'.destination_register = DestinationRegister(Operands) /\ ex_mem'.alu_result = r
      /\ mem_wb'.destination_register = mem_wb.destination_register
      /\ mem_wb'.alu_result = mem_wb.alu_result /\ id_ex' = Operands
  BY <1>2 DEF Latch, IInv, TypeOK, ExMemSet, MemWbSet
<1>4. Operands.rd_reg = id_ex.rd_reg
  BY DEF IInv, TypeOK, IdExSet, Operands
<1>5. DestinationRegister(Operands) = 0 => r = 0 \/ id_ex.opcode \in Misread
  <2> SUFFICES ASSUME DestinationRegister(Operands) = 0, id_ex.opcode \notin Misread PROVE r = 0
    OBVIOUS
  <2> DEFINE x == Operands
  <2> HIDE DEF x
  <2>1. ExecuteRegister /\ x.function_opcode = "SLL" /\ x.rt = 0
    BY ResultsZero DEF x
  <2>2. r = RegisterResult("SLL", x.rs, 0, x.shamt)
    <3>1. r = RegisterResult(x.function_opcode, x.rs, x.rt, x.shamt)
      BY <1>2, <2>1 DEF x
    <3> QED BY <2>1, <3>1
  <2>3. x.shamt \in Int
    <3>1. x.shamt \in 0 .. 63
      BY LatchFacts, Zenon DEF x
    <3> QED BY <3>1
  <2> QED BY <2>2, <2>3, ShiftOfZero DEF RegisterResult
<1>6. control_unit'.forwardA = 0
  <2>1. \E p, h : ControlUnitAfter(p, h)
    <3>1. CASE ExecuteBeq
      BY <3>1 DEF ExecuteBeq
    <3>2. CASE ~ExecuteBeq
      BY <3>2 DEF Execute, ExecuteRegister, ExecuteNoResult, ExecuteJalr, ExecuteImmediate,
        ExecuteMemory, ExecuteJump, ExecuteBranch, ExecuteSyscall, ExecuteFault, Unchanged
    <3> QED BY <3>1, <3>2
  <2> QED BY <2>1 DEF ControlUnitAfter, IInv, TypeOK, ControlUnitSet
<1>7. registers'[0] = 0
  BY ExecuteKeepsZero
<1> QED BY <1>1, <1>3, <1>4, <1>5, <1>6, <1>7 DEF ZeroLatches, NoSignals

(* Every step does. *)
LEMMA NextZero ==
  ASSUME IInv, MadeOf(ZeroWords), OrderInv, CallsPlaced, MisreadPlaced, NotRedirected,
         ZeroLatches, [Next]_vars
  PROVE  ZeroLatches'
<1>1. CASE UNCHANGED vars \/ Faults
  BY <1>1 DEF vars, Faults, ZeroLatches, EmptySlot
<1>2. CASE FetchNext
  BY <1>2 DEF FetchNext, Fetching, ZeroLatches, EmptySlot
<1>3. ~FetchTarget
  BY DEF FetchTarget, NotRedirected
<1> QED BY <1>1, <1>2, <1>3, WBZero, MemZero, ExecuteZero, DecodeZero
     DEF Next, Fetch, WBFault, MemFault, FetchFault

ZeroInv == /\ MadeOf(ZeroWords) /\ CallsPlaced /\ MisreadPlaced
           /\ NotRedirected /\ OrderInv /\ ZeroLatches

(* Such programs go straight, in order, and leave $zero alone. *)
LEMMA NextZeroInv ==
  ASSUME Lines = {}, IInv, ZeroInv, [Next]_vars PROVE ZeroInv'
<1>1. Spares(ZeroWords)
  BY ZeroWordFacts DEF Spares
<1>2. MadeOf(ZeroWords)' /\ memory' = memory
  BY <1>1, NextMadeOf DEF ZeroInv
<1>3. MadeOf(StraightWords)
  <2>1. ZeroWords \subseteq StraightWords
    BY ZeroWordFacts DEF StraightWords, GoesStraight
  <2> HIDE DEF ZeroWords, StraightWords
  <2> QED BY <2>1 DEF ZeroInv, MadeOf
<1>4. NotRedirected' /\ [FetchMovesPc]_vars
  BY <1>3, StraightStep DEF ZeroInv, vars, NotRedirected
<1>5. OrderInv'
  BY <1>2, <1>4, NextOrder DEF ZeroInv, TextKept
<1>6. CallsPlaced' /\ MisreadPlaced'
  BY <1>2 DEF ZeroInv, CallsPlaced, MisreadPlaced
<1>7. ZeroLatches'
  BY NextZero DEF ZeroInv
<1> QED BY <1>2, <1>4, <1>5, <1>6, <1>7 DEF ZeroInv

(* A new pipeline holds bubbles, and words of such a program. *)
LEMMA InitZero == ASSUME ZeroPrograms, Init PROVE ZeroInv
<1>1. MadeOf(ZeroWords)
  <2>1. Fields[0] \in ZeroWords
    BY WordFacts, FieldsAssumption DEF ZeroPrograms, ZeroWords
  <2>2. ASSUME NEW p \in Programs, NEW k \in 1 .. Len(p) PROVE Fields[p[k]] \in ZeroWords
    <3>1. p[k] \in Word
      BY ProgramAssumption
    <3> QED BY <3>1, FieldsAssumption DEF ZeroPrograms, ZeroProgram, ZeroWords
  <2> QED BY <2>1, <2>2, InitMadeOf
<1>2. CallsPlaced
  <2>1. PICK p \in Programs : memory = LoadedMemory(p)
    BY DEF Init
  <2>2. p \in Seq(Word)
    BY ProgramAssumption
  <2> SUFFICES ASSUME NEW a \in Address, Fields[memory[a]].op = "SYSCALL"
               PROVE  a > 0 /\ Fields[memory[a - 1]].op # "R_TYPE"
    BY DEF CallsPlaced
  <2>3. a < Len(p) /\ memory[a] = p[a + 1]
    BY <2>1, FieldsAssumption DEF LoadedMemory
  <2>4. a + 1 \in 1 .. Len(p) /\ a \in Nat
    BY <2>2, <2>3, MemoryAssumption DEF Address
  <2>5. a + 1 > 1 /\ Fields[p[(a + 1) - 1]].op # "R_TYPE"
    BY <2>3, <2>4 DEF ZeroPrograms, ZeroProgram
  <2>6. a - 1 \in Address /\ a - 1 < Len(p) /\ (a + 1) - 1 = (a - 1) + 1
    BY <2>2, <2>3, <2>4, <2>5, MemoryAssumption DEF Address
  <2>7. memory[a - 1] = p[(a - 1) + 1]
    BY <2>1, <2>6 DEF LoadedMemory
  <2> QED BY <2>4, <2>5, <2>6, <2>7
<1>3. MisreadPlaced
  <2>1. PICK p \in Programs : memory = LoadedMemory(p)
    BY DEF Init
  <2>2. Len(p) \in Nat
    BY ProgramAssumption
  <2> SUFFICES ASSUME NEW a \in Address, Fields[memory[a]].op \in Misread, a + 1 \in Address
               PROVE  WritesNothing(Fields[memory[a + 1]].op)
    BY DEF MisreadPlaced
  <2>3. a < Len(p) /\ memory[a] = p[a + 1]
    BY <2>1, FieldsAssumption DEF LoadedMemory, Misread
  <2>4. a + 1 \in 1 .. Len(p) /\ a \in Nat
    BY <2>2, <2>3, MemoryAssumption DEF Address
  <2>5. a + 1 < Len(p) /\ WritesNothing(Fields[p[(a + 1) + 1]].op)
    BY <2>3, <2>4 DEF ZeroPrograms, ZeroProgram
  <2>6. memory[a + 1] = p[(a + 1) + 1]
    BY <2>1, <2>5 DEF LoadedMemory
  <2> QED BY <2>5, <2>6
<1>4. NotRedirected /\ OrderInv
  BY InitOrder DEF Init, NotRedirected, ControlUnitInit
<1>5. ZeroLatches
  <2>1. registers[0] = 0
    BY DEF Init, ZeroPrograms
  <2> QED BY <2>1 DEF Init, ZeroLatches, EmptySlot, IdExReset, ExMemReset, MemWbReset, NoSignals,
        ControlUnitInit, Misread
<1> QED BY <1>1, <1>2, <1>3, <1>4, <1>5 DEF ZeroInv

(* Nothing in the engine keeps $zero from being written: a program leaves  *)
(* it zero that names no $zero for a destination, stores, branches and     *)
(* jumps nowhere, makes no system call right behind an R-type, whose       *)
(* destination the call would take over from a latch that holds 0, and has *)
(* no word that is misread but before one that writes no register.         *)
ZeroKept == registers[0] = 0
THEOREM ZeroProgramsKeepZero == ZeroPrograms => (Spec => []ZeroKept)
<1> SUFFICES ASSUME ZeroPrograms PROVE Spec => []ZeroKept
  OBVIOUS
<1>1. Init => ZeroInv
  BY InitZero
<1>2. IInv /\ ZeroInv /\ [Next]_vars => ZeroInv'
  BY NextZeroInv DEF ZeroPrograms
<1>3. ZeroInv => ZeroKept
  BY DEF ZeroInv, ZeroLatches, ZeroKept
<1> QED BY <1>1, <1>2, <1>3, Invariance, PTL DEF Spec
==============================================================================
