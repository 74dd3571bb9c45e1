------------------------------ MODULE Syscalls -------------------------------
(***************************************************************************)
(* CPU::executeSyscall and the utils::syscall_* helpers: what a system     *)
(* call does to registers, memory, the descriptor table and the status.    *)
(* Call gives the set of outcomes, as the console and the host's files     *)
(* answer in ways the program does not control.  Printing leaves no trace, *)
(* and the floating-point registers are written by READ_FLOAT and          *)
(* READ_DOUBLE only and never used: both are left out.                     *)
(***************************************************************************)
EXTENDS Machine

CONSTANTS
  Inputs,        \* integers the console may answer READ_INT with
  Lines,         \* lines of text it may answer READ_STRING with
  Descriptors    \* 3 .. 1024 in the code: descriptors OPEN_FILE draws from

ASSUME ConsoleAssumption ==
  /\ Inputs \subseteq Word
  /\ Lines \subseteq Seq(Word \ {0})
  /\ Descriptors \subseteq Nat

(* a line is never longer than the text it was typed as; s[size] is NUL *)
CharAt(line, i) == IF i < Len(line) THEN line[i + 1] ELSE 0

Outcomes == [registers : Registers, memory : Memory,
             files : SUBSET Descriptors, status : Status]

Faulted(c)     == [c EXCEPT !.status = "fault"]
Return(c, v)   == [c EXCEPT !.registers[V0] = v]

(* the first empty cell of the data segment; the scan has no bound but the array *)
EmptyCellsAnywhere(mem) == {a \in Address : mem[a] = 0}            \* mutant
EmptyCellsFull(mem) == {a \in Address : a >= GlobalData}              \* mutant
EmptyCells(mem) == {a \in Address : a >= GlobalData /\ mem[a] = 0}
FirstEmpty(mem) == CHOOSE a \in EmptyCells(mem) : \A b \in EmptyCells(mem) : a <= b

(***************************************************************************)
(* utils::syscall_read_string.  Only the first Len / 4 + 1 characters are  *)
(* stored; `address += j' is taken every fourth round while j grows every  *)
(* round, so cell k of the string lies 2k(k+1) after the first and keeps   *)
(* the last character stored into it.                                      *)
(***************************************************************************)
LastRound(line)    == Len(line) \div 4
StringCells(line)  == 0 .. LastRound(line) \div 4
StringCell(k)      == 2 * k * (k + 1)
CellChar(line, k)  == CharAt(line, IF 4 * k + 3 < LastRound(line)
                                     THEN 4 * k + 3 ELSE LastRound(line))
StringEnd(line)    == StringCell(LastRound(line) \div 4) + 1

ReadString(c, line) ==
  IF EmptyCells(c.memory) = {} \/ ~InMemory(FirstEmpty(c.memory) + StringEnd(line))
    THEN Faulted(c)
    ELSE LET base == FirstEmpty(c.memory)
             written(a) == {k \in StringCells(line) : a = base + StringCell(k)}
         IN [c EXCEPT
              !.registers[A0] = base,
              !.memory = [a \in Address |->
                            IF a = base + StringEnd(line) THEN 0
                            ELSE IF written(a) # {}
                                   THEN CellChar(line, CHOOSE k \in written(a) : TRUE)
                                   ELSE c.memory[a]]]

(***************************************************************************)
(* utils::syscall_open_file takes the word found at $a0 for a host pointer *)
(* to the path: the open fails, or finds a file if the host has one there. *)
(***************************************************************************)
OpenFile(c) ==
  IF ~InMemory(c.registers[A0])
    THEN {Faulted(c)}
    ELSE {Return(c, MinusOne)} \cup
         {[Return(c, Wrap(d)) EXCEPT !.files = @ \cup {d}] : d \in Descriptors}

(***************************************************************************)
(* utils::syscall_read_file, _write_file and _close_file look up the       *)
(* descriptor numbered Registers::A0 (the constant 4), not the one in $a0. *)
(***************************************************************************)
ReadFile(c) ==
  IF c.registers[V0] = 0 THEN {c}
  ELSE {Return(c, MinusOne)} \cup
       (IF A0 \notin c.files THEN {}
        ELSE IF EmptyCells(c.memory) = {} THEN {Faulted(c)}
        ELSE {[c EXCEPT !.registers[V0] = 0, !.registers[A2] = 0,
                        !.registers[T0] = FirstEmpty(c.memory) - GlobalData]})

(* the buffer is a host address the program does not own: only a write of  *)
(* no bytes is sure not to touch it; `reg[V0] == bytes' assigns nothing    *)
WriteFile(c) ==
  {Return(c, MinusOne)} \cup
  (IF A0 \notin c.files THEN {}
   ELSE IF c.registers[A2] = 0 THEN {c} ELSE {c, Faulted(c)})

(* CPU::executeSyscall on the call c = [registers, memory, files, status] *)
Call(c) ==
  LET v == c.registers[V0] IN
  CASE v = PRINT_STRING     -> {IF InMemory(c.registers[A0]) THEN c ELSE Faulted(c)}
    [] v = READ_INT         -> {Return(c, i) : i \in Inputs}
    [] v = READ_STRING      -> {ReadString(c, line) : line \in Lines}
    [] v \in {EXIT, EXIT_STATUS} -> {[c EXCEPT !.status = "halted"]}
    [] v = OPEN_FILE        -> OpenFile(c)
    [] v = READ_FILE        -> ReadFile(c)
    [] v = WRITE_FILE       -> WriteFile(c)
    [] v = EXIT_WITH_STATUS -> {Return(c, c.registers[A0])}
    [] OTHER                -> {c}
==============================================================================
