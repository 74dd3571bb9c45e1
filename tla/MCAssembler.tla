---------------------------- MODULE MCAssembler ------------------------------
(***************************************************************************)
(* Texts of one and two lines: every mnemonic with operands of every kind, *)
(* registers that may and may not be written, numbers at the edges of the  *)
(* fields in each base, and the ways a line can be wrong.                  *)
(***************************************************************************)
EXTENDS Assembler

None == [neg |-> FALSE, base |-> 10, mag |-> 0]
Num(neg, base, mag) == [neg |-> neg, base |-> base, mag |-> mag]
Dec(n) == Num(n < 0, 10, IF n < 0 THEN -n ELSE n)

R(r)     == [kind |-> "reg", reg |-> r, num |-> None, spaces |-> 1]
I(n)     == [kind |-> "num", reg |-> 0, num |-> n, spaces |-> 1]
M(n, r)  == [kind |-> "mem", reg |-> r, num |-> n, spaces |-> 1]
Spaced(x, k) == [x EXCEPT !.spaces = k]
Ln(m, o) == [mnemonic |-> m, operands |-> o]

(* $zero, $t0, $t1, $ra and a word that names no register *)
Regs == {0, 8, 9, 31, Unknown}

Plain    == {0, 1, 5, 31, 32, 63, 64, 32767, 32768, 65535, 65536, 65537, 67108863,
             67108864, 67108869}
Negative == {-1, -2, -64, -65, -32768, -32769, -40000, -131072, -131073, -67108864}
Numbers  == {Dec(n) : n \in Plain \cup Negative}
              \cup {Num(neg, base, mag) : neg \in BOOLEAN, base \in {2, 8, 16}, mag \in {0, 1, 31, 40}}
              \cup {Num(TRUE, 10, 0)}

(* every mnemonic, with every number and with every register *)
Lines1 ==
  {Ln(m, <<R(a), R(b), R(8)>>) : m \in ThreeRegisters \cup {"SLL"}, a, b \in Regs}
    \cup {Ln(m, <<R(a), R(b)>>) : m \in {"MULT", "DIV", "JALR", "ADD", "LW"}, a, b \in Regs}
    \cup {Ln(m, <<R(a)>>) : m \in {"MFHI", "MFLO", "JR", "JALR", "LI", "J"}, a \in Regs}
    \cup {Ln(m, <<R(a), R(9), I(n)>>) : m \in {"SLL", "SRL"}, a \in {8, 9, 31}, n \in Numbers}
    \cup {Ln(m, <<R(a), R(b), I(Dec(3))>>) :
            m \in ByImmediate \cup {"BEQ", "BNE"}, a, b \in Regs}
    \cup {Ln(m, <<R(8), R(9), I(n)>>) : m \in {"ADDI", "BEQ"}, n \in Numbers}
    \cup {Ln(m, <<R(a), M(Dec(4), b)>>) :
            m \in LoadForm \cup StoreForm \cup {"LI", "BGTZ"}, a, b \in Regs}
    \cup {Ln(m, <<R(8), M(n, 9)>>) : m \in {"LW", "SB"}, n \in Numbers}
    \cup {Ln(m, <<R(a), I(Dec(4))>>) :
            m \in LoadForm \cup StoreForm \cup AgainstZero \cup {"LUI", "LI", "LA", "ADDI"},
            a \in Regs}
    \cup {Ln(m, <<R(8), I(n)>>) : m \in {"BGEZ", "LUI", "LA"}, n \in Numbers}
    \cup {Ln(m, <<I(n)>>) : m \in JumpForm \cup {"SYSCALL", "ADDI"}, n \in Numbers}
    \cup {Ln(m, <<>>) : m \in {"SYSCALL", "J", "ADD", "LI", "NOP"}}
    \cup {Ln(m, <<Spaced(R(8), k), R(9), Spaced(I(n), l)>>) :
            m \in {"SLL", "ADDI"}, k, l \in 0 .. 2, n \in {Dec(0), Dec(5), Dec(-3), Num(FALSE, 16, 31)}}
    \cup {Ln("LI", <<R(8), Spaced(M(Dec(4), 9), k)>>) : k \in 0 .. 2}

(* a line of every outcome, next to each other *)
Lines2 ==
  {Ln("ADD", <<R(8), R(9), R(8)>>), Ln("JR", <<R(31)>>), Ln("LA", <<R(8), I(Dec(5))>>),
   Ln("LA", <<R(8), I(Dec(40))>>), Ln("LA", <<R(8), I(Dec(-40))>>), Ln("LA", <<R(8)>>),
   Ln("LW", <<R(8), I(Dec(4))>>), Ln("SW", <<R(0), M(Dec(4), 29)>>), Ln("J", <<I(Dec(3))>>),
   Ln("NOP", <<>>), Ln("SYSCALL", <<>>), Ln("ADDI", <<R(8), R(8), Spaced(I(Dec(5)), 0)>>)}

MCTexts == {<<>>} \cup {<<l>> : l \in Lines1} \cup {<<l, k>> : l, k \in Lines2}
             \cup {<<l, k, j>> : l, k, j \in {x \in Lines2 : x.mnemonic # "LW"}}
==============================================================================
