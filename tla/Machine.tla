------------------------------- MODULE Machine -------------------------------
(***************************************************************************)
(* The state both execution engines of the CPU class work on: memory, the  *)
(* general registers, the memory map, the constructor and loadProgram.     *)
(* Memory is addressed by words; an index outside the array is a fault     *)
(* that ends the process.                                                  *)
(***************************************************************************)
EXTENDS Isa, Sequences

CONSTANTS
  MemSize,       \* MEMORY_SIZE, in words
  TextBound,     \* TEXT_MEMORY_BOUND, the last address of the text segment
  GlobalData,    \* GLOBAL_DATA_MEMORY, first address of the data segment
  StackTop,      \* STACK_MEMORY_BOUND, the initial stack pointer
  Programs,      \* the programs that may be loaded: sequences of words
  Presets        \* registers the embedding program sets before it runs the CPU

Address == 0 .. MemSize - 1

ASSUME MemoryAssumption ==
  /\ MemSize \in Nat \ {0}
  /\ MemSize < WordSize
  /\ {TextBound, GlobalData, StackTop} \subseteq Word
ASSUME ProgramAssumption ==
  /\ Programs \subseteq Seq(Word)
  /\ \A s \in Presets : \A r \in DOMAIN s : s[r] \in Word

InMemory(a) == a < MemSize

Memory    == [Address -> Word]
Registers == [Reg -> Word]

(* CPU::loadProgram throws when the program leaves the text segment *)
Loadable(p) == Len(p) <= TextBound + 1

LoadedMemory(p) == [a \in Address |-> IF a < Len(p) THEN p[a + 1] ELSE 0]

(* CPU::CPU, then what demo.cpp stores into cpu.registers *)
InitialRegisters(preset) ==
  [r \in Reg |-> CASE r \in DOMAIN preset -> preset[r]
                   [] r \notin DOMAIN preset /\ r = SP -> StackTop
                   [] r \notin DOMAIN preset /\ r = GP -> GlobalData
                   [] OTHER -> 0]

(* the state of the process while it executes, and the ways it ends *)
Status == {"running", "halted", "fault"}
==============================================================================
