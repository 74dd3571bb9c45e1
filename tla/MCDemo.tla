------------------------------- MODULE MCDemo --------------------------------
(***************************************************************************)
(* The programs of demo.cpp, assembled, loaded and run on both engines.    *)
(***************************************************************************)
EXTENDS Demo, DemoTexts, Encoding

(* the words of texts and messages, numbered in their order from FirstCode on *)
Before(v, w) == v.opcode < w.opcode \/ (v.opcode = w.opcode /\ v.low < w.low)
MCCode ==
  LET words == TextWords \cup MessageWords
  IN [w \in words |-> WordOf(Cardinality({v \in words : Before(v, w)}) + 1)]
MCFields ==
  LET words == TextWords \cup MessageWords
      code  == MCCode
  IN [n \in 0 .. 255 |-> IF \E w \in words : code[w] = n
                           THEN FieldsCut(CHOOSE w \in words : code[w] = n)
                           ELSE LowWord(n)]

AllTexts ==
  {d_hazard, data_hazard, WWR_data_hazard, skipped_cycle_data_hazard,
   data_hazard_two_inst_writing_diff_reg, double_reg_reuse_data_hazard, hello_world,
   branch_equal_not_equal, array_program, test1, stack_test, sw_test,
   sw_data_hazard_no_load, sw_data_hazard_test2, sw_data_hazard_test3}

(* texts with a line the assembler refuses, and an exit behind it *)
Exit == <<L("LI", <<R("v0"), I(10)>>), L("SYSCALL", <<>>)>>
Five == <<L("ADDI", <<R("t0"), R("t0"), I(5)>>)>>
RefusedLines ==
  {L("ADDI", <<R("zero"), R("t0"), I(1)>>),               \* a register that shall not be written
   L("SUB", <<R("zero"), R("zero"), R("t0")>>),
   L("LW", <<R("zero"), M(20, "zero")>>),
   L("JR", <<[R("zero") EXCEPT !.reg = 31]>>),
   L("ADDI", <<R("t1"), R("t0"), I(65536)>>),             \* a number wider than its field
   L("ADD", <<R("t1"), R("t0")>>),                        \* an operand is missing
   L("ADD", <<R("t1"), R("t0"), [R("t0") EXCEPT !.reg = Unknown]>>),
   L("NOP", <<>>)}                                        \* no such mnemonic
RefusedTexts == {Five \o <<line>> \o Five \o Exit : line \in RefusedLines}

MCTexts   == AllTexts \cup RefusedTexts
NoProgram == {<<>>}
NoPresets == {<<>>}

(* the theorems of DemoProofs: the texts, and the ones that spare $zero *)
ASSUME QuietAssumption == CutQuietly
SparingTexts ==
  {data_hazard, WWR_data_hazard, skipped_cycle_data_hazard, hello_world, test1,
   data_hazard_two_inst_writing_diff_reg, double_reg_reuse_data_hazard} \cup RefusedTexts
ASSUME SparingAssumption == SparingCpu /\ \A t \in SparingTexts : SparingText(t)

(* What the comments over five programs say: "expect 42 in $t5", "expect 3 *)
(* in $t1", ...  From the text through the assembler, the memory and either *)
(* engine, forwarding included.                                            *)
Expected == BothHalted =>
  LET Both(r, n) == registers[r] = n /\ ref_registers[r] = n IN
  /\ instructions = data_hazard => Both(13, 42)
  /\ instructions = WWR_data_hazard => Both(9, 3)
  /\ instructions = skipped_cycle_data_hazard => Both(9, 1)
  /\ instructions = data_hazard_two_inst_writing_diff_reg => Both(10, 3)
  /\ instructions = double_reg_reuse_data_hazard => Both(9, 10)

(* Both engines leave the same memory behind for every program of demo.cpp *)
(* but the two with a store right behind the instruction that sets one of  *)
(* its registers with li, or without anything before it.                   *)
StoresAgree ==
  BothHalted /\ instructions \notin {d_hazard, sw_data_hazard_test3} => memory = ref_memory

(* controlHazard() prints "Registers are equal", as 4 and 4 are, and       *)
(* helloWorld() the message loaded at 5: the branch has compared what the  *)
(* additions before it leave, and the call finds in $a0 the last immediate *)
(* decode() has seen going there, not what lui and ori have made of it.    *)
RightMessage ==
  LET call == SyscallCall(Operands).registers IN
  stage = "EX" /\ status = "running" /\ Operands.opcode = "SYSCALL" /\ call[V0] = PRINT_STRING =>
    /\ instructions = branch_equal_not_equal => call[A0] = 26
    /\ instructions = hello_world => call[A0] = 5

(* run_pipeline comes to the end of every program of demo.cpp but the one  *)
(* that is marked "NOT WORKING".                                           *)
RunEnds == instructions \in AllTexts \ {array_program} => <>(status = "halted")
==============================================================================
