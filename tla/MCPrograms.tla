----------------------------- MODULE MCPrograms -------------------------------
(***************************************************************************)
(* The programs of KnownPrograms for the operands of Pairs.                *)
(***************************************************************************)
EXTENDS KnownPrograms, Encoding

Vocabulary == <<
  (*  1 *) ExitCall,                     SyscallWord,
  (*  3 *) RType("ADD", 8, 16, 0, 0),    RType("ADD", 9, 17, 0, 0),
  (*  5 *) RType("ADD", 8, 9, 0, 0),     RType("ADD", 9, 11, 0, 0),
  (*  7 *) RType("DIV", 10, 8, 9, 0),    RType("MFHI", 11, 0, 0, 0),
  (*  9 *) IType("BEQ", 9, 0, 5),        JType("J", 2),
  (* 11 *) RType("ADD", 10, 10, 9, 0),   IType("ADDI", 8, 8, -1),
  (* 13 *) IType("BNE", 0, 8, -1),       IType("BGTZ", 0, 8, -1),
  (* 15 *) JType("JAL", 6),              RType("JALR", 1, 31, 0, 0),
  (* 17 *) RType("ADD", 8, 8, 8, 0),     RType("ADD", 8, 8, 17, 0),
  (* 19 *) IType("ADDI", 29, 29, -1),    IType("ADDI", 29, 29, 1),
  (* 21 *) IType("SW", 16, 29, 0),       IType("SW", 17, 29, 0),
  (* 23 *) IType("LW", 16, 29, 0),       IType("LW", 17, 29, 0),
  (* 25 *) IType("SB", 16, 17, 3),       IType("LB", 8, 17, 3)>>

MCFields == FieldsOf(Vocabulary)
Nop      == 0                             \* SLL $zero, $zero, 0

GcdWords     == WordsOf(<<3, 4, 9, 7, 8, 5, 6, 10, 1, 2>>)
ProductWords == WordsOf(<<3, 4>>) \o WordsOf(<<11, 12>>) \o <<Nop>> \o WordsOf(<<13, 1, 2>>)
CountedWords == WordsOf(<<3, 4>>) \o WordsOf(<<11, 12>>) \o <<Nop>> \o WordsOf(<<14, 1, 2>>)
CallWords    == WordsOf(<<3, 15, 12, 17, 1, 2, 18, 16>>)
StackWords   == WordsOf(<<3, 4, 19, 21, 19, 22, 23, 20, 24, 20, 1, 2>>)
ByteWords    == WordsOf(<<25, 26, 1, 2>>)
AllWords     == {GcdWords, ProductWords, CountedWords, CallWords, StackWords, ByteWords}

Numbers == {0, 1, 2, 6, 9, 15, 40, 255}
Pairs   == {S0 :> m @@ S1 :> n : m, n \in Numbers}

(* the hypotheses of the theorems of ProgramProofs *)
ASSUME ProgramsAssumption == OperandsOnly /\ RoomForStack /\ RoomForJumps
==============================================================================
