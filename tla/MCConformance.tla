---------------------------- MODULE MCConformance ----------------------------
(***************************************************************************)
(* Straight-line arithmetic programs on both engines.  $t0 and $t1 start   *)
(* as multiples of 32 and stay clear of 8 and 9: neither register ever     *)
(* holds the number of the other, or of itself.                            *)
(***************************************************************************)
EXTENDS ArithmeticPrograms, Encoding

Vocabulary == <<
  (* 1 *) ExitCall,                    SyscallWord,
  (* 3 *) IType("ADDI", 8, 8, 32),     IType("ADDI", 9, 9, -32),
  (* 5 *) IType("LI", 8, 0, 32),       IType("LUI", 9, 0, 48),
  (* 7 *) IType("ORI", 8, 9, 32),      RType("ADD", 9, 8, 9, 0),
  (* 9 *) RType("SUB", 8, 9, 8, 0),    RType("SLL", 9, 0, 8, 1),
  (* 11 *) RType("NOR", 8, 9, 9, 0),
  (* 12 *) IType("ADDI", 8, 8, 5),     IType("ADDI", 9, 9, 1)>>

MCFields == FieldsOf(Vocabulary)

SequencesOf(s, n) == UNION {[1 .. k -> s] : k \in 0 .. n}
AluPrograms       == {WordsOf(q \o <<1, 2>>) : q \in SequencesOf(3 .. 10, 3)}
CollidingPrograms == {WordsOf(q \o <<1, 2>>) : q \in SequencesOf({12, 13}, 4)}

MCPresets      == {<<>>, 8 :> 64 @@ 9 :> 96}
(* $t1 holds 8, the number of $t0 *)
CollidingPresets == {9 :> 8}

(* every program here is one the theorem of ConformanceProofs is about, and *)
(* those of OrderProofs on straight texts and on $zero                      *)
ASSUME ProgramsAssumption == ArithmeticOnly /\ StraightText /\ ZeroPrograms

(* the contents a program can come to from the presets, instruction by     *)
(* instruction: the least bounds there are                                 *)
Contents(i, before) ==
  {Result(i, [r \in Reg |-> IF r = i.rs THEN x ELSE y]) : x \in before[i.rs], y \in before[i.rt]}
Collected(p) ==
  LET c[k \in 0 .. Len(p) - 2] ==
        IF k = 0 THEN [r \in Reg |-> {InitialRegisters(s)[r] : s \in Presets}]
                 ELSE [c[k - 1] EXCEPT ![Writes(Fields[p[k]])] = Contents(Fields[p[k]], c[k - 1])]
  IN c

(* under which the arithmetic ones stay clear of 8 and 9 *)
ASSUME ApartAssumption ==
  /\ TextBound < MemSize
  /\ \A p \in Programs \cap AluPrograms :
       /\ Collected(p) \in Bounds(p)
       /\ StaysWithin(p, Collected(p)) /\ KeepsApart(p, Collected(p))
==============================================================================
