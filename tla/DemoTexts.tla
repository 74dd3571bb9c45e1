------------------------------ MODULE DemoTexts ------------------------------
(***************************************************************************)
(* The programs written out in demo.cpp, a line for each of theirs.        *)
(***************************************************************************)
EXTENDS AssemblyText, TLC

(* register_encode_map, for the names the programs use and $zero *)
register_encode_map ==
  "zero" :> 0 @@ "v0" :> 2 @@ "a0" :> 4 @@ "t0" :> 8 @@ "t1" :> 9 @@
  "t2" :> 10 @@ "t3" :> 11 @@ "t4" :> 12 @@ "t5" :> 13 @@ "t6" :> 14 @@ "sp" :> 29

Plainly(n) == [neg |-> FALSE, base |-> 10, mag |-> n]
R(name)    == [kind |-> "reg", reg |-> register_encode_map[name], num |-> Plainly(0), spaces |-> 1]
I(n)       == [kind |-> "num", reg |-> 0, num |-> Plainly(n), spaces |-> 1]
M(n, name) == [kind |-> "mem", reg |-> register_encode_map[name], num |-> Plainly(n), spaces |-> 1]
L(mnemonic, operands) == [mnemonic |-> mnemonic, operands |-> operands]

d_hazard ==
  <<L("LI", <<R("t3"), I(8)>>), L("LI", <<R("t1"), I(10)>>),
    L("SW", <<R("t1"), M(0, "t3")>>), L("LI", <<R("v0"), I(10)>>), L("SYSCALL", <<>>)>>

data_hazard ==
  <<L("ADDI", <<R("t0"), R("t0"), I(5)>>), L("ADDI", <<R("t1"), R("t1"), I(17)>>),
    L("SUB", <<R("t2"), R("t1"), R("t0")>>), L("ADDI", <<R("t3"), R("t3"), I(15)>>),
    L("ADD", <<R("t4"), R("t3"), R("t2")>>), L("ADD", <<R("t5"), R("t4"), R("t3")>>),
    L("ADDI", <<R("v0"), R("v0"), I(10)>>), L("SYSCALL", <<>>)>>

WWR_data_hazard ==
  <<L("ADDI", <<R("t0"), R("t0"), I(1)>>), L("ADDI", <<R("t0"), R("t0"), I(2)>>),
    L("ADD", <<R("t1"), R("t0"), R("t5")>>), L("LI", <<R("v0"), I(10)>>),
    L("SYSCALL", <<>>)>>

skipped_cycle_data_hazard ==
  <<L("ADDI", <<R("t0"), R("t0"), I(1)>>), L("ADDI", <<R("t0"), R("t0"), I(0)>>),
    L("ADDI", <<R("t0"), R("t0"), I(0)>>), L("ADD", <<R("t1"), R("t0"), R("t5")>>),
    L("LI", <<R("v0"), I(10)>>), L("SYSCALL", <<>>)>>

data_hazard_two_inst_writing_diff_reg ==
  <<L("ADDI", <<R("t0"), R("t0"), I(1)>>), L("ADDI", <<R("t1"), R("t1"), I(2)>>),
    L("ADD", <<R("t2"), R("t1"), R("t0")>>), L("LI", <<R("v0"), I(10)>>),
    L("SYSCALL", <<>>)>>

double_reg_reuse_data_hazard ==
  <<L("ADDI", <<R("t0"), R("t0"), I(5)>>), L("ADD", <<R("t1"), R("t0"), R("t0")>>),
    L("LI", <<R("v0"), I(10)>>), L("SYSCALL", <<>>)>>

hello_world ==
  <<L("ADDI", <<R("v0"), R("v0"), I(4)>>), L("LUI", <<R("a0"), I(5)>>),
    L("SYSCALL", <<>>), L("ADDI", <<R("v0"), R("v0"), I(10)>>), L("SYSCALL", <<>>)>>

branch_equal_not_equal ==
  <<L("ADDI", <<R("t0"), R("t0"), I(4)>>), L("ADDI", <<R("t1"), R("t1"), I(4)>>),
    L("BEQ", <<R("t0"), R("t1"), I(6)>>), L("ADDI", <<R("v0"), R("v0"), I(4)>>),
    L("LUI", <<R("a0"), I(20)>>), L("ORI", <<R("a0"), R("a0"), I(20)>>),
    L("SYSCALL", <<>>), L("ADDI", <<R("v0"), R("v0"), I(10)>>), L("SYSCALL", <<>>),
    L("ADDI", <<R("v0"), R("v0"), I(4)>>), L("LUI", <<R("a0"), I(26)>>),
    L("ORI", <<R("a0"), R("a0"), I(26)>>), L("SYSCALL", <<>>),
    L("ADDI", <<R("v0"), R("v0"), I(10)>>), L("SYSCALL", <<>>)>>

array_program ==
  <<L("ADDI", <<R("t0"), R("t0"), I(0)>>), L("ADDI", <<R("t1"), R("t1"), I(6)>>),
    L("ADDI", <<R("t4"), R("t4"), I(1)>>), L("BEQ", <<R("t0"), R("t1"), I(4)>>),
    L("SUB", <<R("sp"), R("sp"), R("t4")>>), L("SW", <<R("t0"), M(0, "sp")>>),
    L("ADDI", <<R("t0"), R("t0"), I(1)>>), L("J", <<I(3)>>),
    L("ADDI", <<R("v0"), R("v0"), I(10)>>), L("SYSCALL", <<>>)>>

test1 ==
  <<L("ADDI", <<R("t0"), R("t0"), I(5)>>), L("ADDI", <<R("t1"), R("t1"), I(7)>>),
    L("ADD", <<R("t2"), R("t1"), R("t0")>>), L("ADDI", <<R("v0"), R("v0"), I(10)>>),
    L("SYSCALL", <<>>)>>

stack_test ==
  <<L("ADDI", <<R("t0"), R("t0"), I(5)>>), L("ADDI", <<R("t1"), R("t1"), I(3)>>),
    L("SUB", <<R("sp"), R("sp"), R("t1")>>), L("SW", <<R("t0"), M(0, "sp")>>),
    L("ADDI", <<R("v0"), R("v0"), I(10)>>), L("SYSCALL", <<>>)>>

sw_test ==
  <<L("LI", <<R("t0"), I(7)>>), L("LI", <<R("t1"), I(10)>>),
    L("SW", <<R("t0"), M(0, "t1")>>), L("ADDI", <<R("v0"), R("v0"), I(10)>>),
    L("SYSCALL", <<>>)>>

sw_data_hazard_no_load ==
  <<L("ADDI", <<R("t0"), R("t0"), I(3)>>), L("ADDI", <<R("t1"), R("t1"), I(10)>>),
    L("SW", <<R("t0"), M(0, "t1")>>), L("ADDI", <<R("v0"), R("v0"), I(10)>>),
    L("SYSCALL", <<>>)>>

sw_data_hazard_test2 ==
  <<L("ADDI", <<R("t1"), R("t1"), I(20)>>), L("ADDI", <<R("t0"), R("t0"), I(8)>>),
    L("SW", <<R("t1"), M(4, "t0")>>), L("LI", <<R("v0"), I(10)>>), L("SYSCALL", <<>>)>>

sw_data_hazard_test3 ==
  <<L("ADDI", <<R("t0"), R("t0"), I(8)>>), L("SW", <<R("t0"), M(0, "t6")>>),
    L("LI", <<R("v0"), I(10)>>), L("SYSCALL", <<>>)>>
==============================================================================
