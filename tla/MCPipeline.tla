----------------------------- MODULE MCPipeline ------------------------------
(***************************************************************************)
(* The five-stage engine on small programs: eight-bit words, forty words   *)
(* of memory, and every program of a few instructions from a vocabulary    *)
(* with an instruction for every case of the stages.                       *)
(***************************************************************************)
EXTENDS Pipeline, Encoding

Li(r, n)     == IType("LI", r, 0, n)
Addi(r, s, n) == IType("ADDI", r, s, n)

(* $t0 = 8, $t1 = 9, $a0 = 4, $v0 = 2, $sp = 29 *)
Vocabulary == <<
  (*  1 *) Li(2, 9),                 SyscallWord,              Li(8, 16),
  (*  4 *) Addi(9, 8, 5),            Addi(29, 29, -1),         IType("LUI", 4, 0, 3),
  (*  7 *) IType("LW", 9, 8, 2),     IType("LB", 8, 9, 1),     IType("SW", 8, 9, 3),
  (* 10 *) IType("SB", 9, 29, -2),   RType("ADD", 8, 9, 8, 0), RType("MULT", 9, 8, 9, 0),
  (* 13 *) RType("DIV", 9, 8, 9, 0), RType("SLL", 8, 0, 9, 1), RType("MFHI", 8, 0, 0, 0),
  (* 16 *) RType("JALR", 9, 8, 0, 0), JType("J", 4),           JType("JAL", 3),
  (* 19 *) IType("BEQ", 8, 9, 1),    IType("BNE", 8, 9, 1),    IType("BGTZ", 0, 8, -2),
  (* 22 *) IType("ORI", 5, 8, 7),    IType("UNDEFINED", 8, 9, 1),
  (* 24 *) Li(2, 4),                 Li(2, 5),                 Li(2, 8),
  (* 27 *) Li(2, 13),                Li(2, 14),                Li(2, 15),
  (* 30 *) Li(4, -1),                IType("SW", 8, 29, -4),
  (* 32 *) IType("MFHI", 8, 9, 1),   IType("DIV", 29, 8, 0)>>

MCFields == FieldsOf(Vocabulary)

Exit     == <<1, 2>>
Straight == {3, 4, 5, 6, 7, 9, 11, 14}
Control  == {16, 17, 19, 20}
Console  == {1, 24, 25, 26, 27, 28, 29}

SequencesOf(s, n) == UNION {[1 .. k -> s] : k \in 0 .. n}
Ended(s, n)       == {WordsOf(q \o Exit) : q \in SequencesOf(s, n)}

(* every pair of instructions, every triple without system calls, and calls in a row *)
AllPrograms == Ended(1 .. Len(Vocabulary), 2) \cup Ended(Straight \cup Control, 3)
                 \cup {WordsOf(<<c, 2, d, 2, e, 2>>) : c, d, e \in Console}
                 \cup {WordsOf(<<30, c, 2>> \o Exit) : c \in Console}
StraightPrograms == Ended((Straight \ {9}) \cup {8, 10, 12, 13, 15, 31}, 3)

(* the shortest programs that show what the violation runs are about *)
StorePrograms  == Ended({3, 4, 9}, 3)
JumpPrograms   == Ended({3, 9, 17}, 3)
LoadPrograms   == Ended({3, 7}, 3)

MCPresets == {<<>>, 8 :> 18 @@ 9 :> 18}
MCLines   == {<<>>, <<7>>, <<7, 7, 7, 7>>}
==============================================================================
