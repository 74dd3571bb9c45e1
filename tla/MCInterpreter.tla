---------------------------- MODULE MCInterpreter ----------------------------
(***************************************************************************)
(* The unpipelined engine: every short program of a vocabulary with an     *)
(* instruction for every case.                                             *)
(***************************************************************************)
EXTENDS Interpreter, Encoding

(* $t0 .. $t3 = 8 .. 11, $s0 = 16, $s1 = 17, $sp = 29, $ra = 31 *)
Vocabulary == <<
  (*  1 *) ExitCall,                     SyscallWord,
  (*  3 *) RType("ADD", 8, 16, 0, 0),    RType("ADD", 9, 17, 0, 0),
  (*  5 *) RType("ADD", 8, 9, 0, 0),     RType("ADD", 9, 11, 0, 0),
  (*  7 *) RType("DIV", 10, 8, 9, 0),    RType("MFHI", 11, 0, 0, 0),
  (*  9 *) IType("BEQ", 9, 0, 5),        JType("J", 2),
  (* 11 *) RType("ADD", 10, 10, 9, 0),   IType("ADDI", 8, 8, -1),
  (* 13 *) IType("BNE", 0, 8, -1),       JType("JAL", 6),
  (* 15 *) RType("ADD", 8, 8, 8, 0),     RType("ADD", 8, 8, 17, 0),
  (* 17 *) RType("JALR", 1, 31, 0, 0),   IType("UNDEFINED", 8, 9, 1),
  (* 19 *) IType("LW", 8, 9, 2),         IType("LB", 8, 9, 1),
  (* 21 *) IType("SW", 8, 9, -1),        IType("SH", 9, 29, 2),
  (* 23 *) IType("LUI", 4, 0, 3),        IType("BGTZ", 0, 8, 1),
  (* 25 *) IType("LI", 2, 0, 4),         IType("LI", 2, 0, 5),
  (* 27 *) IType("LI", 2, 0, 8),         IType("LI", 2, 0, 13),
  (* 29 *) IType("LI", 2, 0, 14),        IType("LI", 2, 0, 15),
  (* 31 *) RType("MULT", 9, 8, 9, 0),    IType("LI", 2, 0, 17),
  (* 33 *) IType("ADDI", 8, 8, 11),      IType("BLTZ", 0, 8, 1),
  (* 35 *) IType("BGEZ", 0, 9, 1)>>

MCFields == FieldsOf(Vocabulary)

SequencesOf(s, n) == UNION {[1 .. k -> s] : k \in 0 .. n}
Console       == {1, 25, 26, 27, 28, 29, 30}
ShortPrograms ==
  {WordsOf(q \o <<1, 2>>) : q \in SequencesOf(1 .. Len(Vocabulary), 2)}
    \cup {WordsOf(<<c, 2, d, 2, e, 2>>) : c, d, e \in Console}

MCPresets == {<<>>, 8 :> 18 @@ 9 :> 22}
MCLines   == {<<>>, <<7>>, <<5, 6, 7, 8>>, [k \in 1 .. 16 |-> k]}
==============================================================================
