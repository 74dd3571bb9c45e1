------------------------------ MODULE Assembler ------------------------------
(***************************************************************************)
(* class Assembler: encodeInstructions goes through the lines of a text,   *)
(* turns each into one or two instruction words and stops at the first it  *)
(* cannot.                                                                 *)
(***************************************************************************)
EXTENDS LineEncoding, FiniteSets

CONSTANT Texts       \* the texts that may be assembled

ASSUME TextsAssumption == Texts \subseteq Seq(Line)

(***************************************************************************)
(*                    Assembler::encodeInstructions                        *)
(***************************************************************************)
VARIABLES
  instructions,          \* the lines of the text
  i,                     \* the line the loop is at, counted from 0
  step,                  \* "encode" the line, or "append" what came of it
  encoded_instruction,
  mult_inst,             \* the global flag iType raises for la
  encoded_instructions,  \* the caller's vector
  status,                \* "running", "returned" or "crash"
  result                 \* what the call returns: -1, or the line that was refused

asm_vars == <<instructions, i, step, encoded_instruction, mult_inst,
              encoded_instructions, status, result>>

(* Each half of the loop hands on what the other relies on: the flag is up *)
(* between the two for la and never else, and all that is pushed is words. *)
TypeOK ==
  /\ instructions \in Seq(Line)
  /\ i \in 0 .. Len(instructions)
  /\ step \in {"encode", "append"}
  /\ encoded_instruction \in Seq(BinaryWord)
  /\ mult_inst \in BOOLEAN
  /\ encoded_instructions \in Seq(BinaryWord)
  /\ status \in {"running", "returned", "crash"}
  /\ result \in {-1} \cup 0 .. Len(instructions)
  /\ mult_inst => step = "append" /\ instructions[i + 1].mnemonic = "LA"

Init ==
  /\ instructions \in Texts
  /\ i = 0 /\ step = "encode" /\ encoded_instruction = N /\ mult_inst = FALSE
  /\ encoded_instructions = <<>> /\ status = "running" /\ result = -1

AtLine == status = "running" /\ step = "encode" /\ i < Len(instructions)
CurrentLine == instructions[i + 1]

Return(value) == /\ status' = "returned" /\ result' = value
                 /\ UNCHANGED <<instructions, i, step, encoded_instruction, mult_inst,
                                encoded_instructions>>

UnknownMnemonic ==     (* getOpAndInstructionType finds nothing in its map *)
  AtLine /\ CurrentLine.mnemonic \notin Mnemonic /\ Return(i)

(* iType sets mult_inst last, after everything that can throw *)
Encode ==
  /\ AtLine /\ CurrentLine.mnemonic \in Mnemonic
  /\ encoded_instruction' \in Encodings(CurrentLine)
  /\ mult_inst' = (mult_inst \/ (CurrentLine.mnemonic = "LA" /\ encoded_instruction' # N))
  /\ step' = "append"
  /\ UNCHANGED <<instructions, i, encoded_instructions, status, result>>

Crash == /\ status' = "crash"
         /\ UNCHANGED <<instructions, i, step, encoded_instruction, mult_inst,
                        encoded_instructions, result>>
EncodeCrash == AtLine /\ Undefined(CurrentLine) /\ Crash

Push == /\ encoded_instructions' = encoded_instructions \o encoded_instruction
        /\ i' = i + 1 /\ step' = "encode"
        /\ UNCHANGED <<instructions, encoded_instruction, status, result>>

MultInstKept == mult_inst                                         \* mutant
MultInstDone == FALSE

Appending == status = "running" /\ step = "append"
AppendLa ==            (* the strings between the line feeds; stoll("N") is not caught *)
  /\ Appending /\ mult_inst
  /\ IF encoded_instruction = N THEN Crash ELSE Push /\ mult_inst' = MultInstDone
AppendOne == Appending /\ ~mult_inst /\ encoded_instruction # N /\ Push /\ UNCHANGED mult_inst
RefuseRetries ==                                                  \* mutant
  /\ Appending /\ ~mult_inst /\ encoded_instruction = N /\ step' = "encode"
  /\ UNCHANGED <<instructions, i, encoded_instruction, mult_inst, encoded_instructions,
                 status, result>>
RefuseSkips ==                                                    \* mutant
  /\ Appending /\ ~mult_inst /\ encoded_instruction = N /\ i' = i + 1 /\ step' = "encode"
  /\ UNCHANGED <<instructions, encoded_instruction, mult_inst, encoded_instructions,
                 status, result>>
Refuse == Appending /\ ~mult_inst /\ encoded_instruction = N /\ Return(i)

Finish == /\ status = "running" /\ step = "encode" /\ i = Len(instructions)
          /\ Return(-1)

Next == UnknownMnemonic \/ Encode \/ EncodeCrash \/ AppendLa \/ AppendOne \/ Refuse \/ Finish

(* one call of one thread: it goes on until it returns *)
Spec == Init /\ [][Next]_asm_vars /\ WF_asm_vars(Next)

(***************************************************************************)
(*                             PROPERTIES                                  *)
(***************************************************************************)
Promise == INSTANCE OnePass WITH
  text <- instructions, line <- i, words <- encoded_instructions, report <- result,
  outcome <- CASE status = "running" -> "working"
               [] status = "crash" -> "crashed"
               [] status = "returned" /\ result = -1 -> "done"
               [] OTHER -> "refused"
(* encodeInstructions keeps the promise of OnePass: what the engines will  *)
(* cut out of the words it adds for a well-formed line are the line's      *)
(* operands, no line before is disturbed, a line is refused only for a     *)
(* cause, under its number, and none that is well-formed ends the process, *)
(* not even a line behind an la.                                           *)
KeepsPromise == Promise!Spec

(* The word of a line stands as far behind the program's start as there    *)
(* are lines before it, and one more for each la among them whose ori was  *)
(* needed: jump targets and branch offsets, which are numbers in the text, *)
(* have to count it.                                                       *)
LinesCounted ==
  (\A k \in 1 .. i : Promise!WellFormed(instructions[k])) =>
     Len(encoded_instructions) =
       i + Cardinality({k \in 1 .. i : /\ instructions[k].mnemonic = "LA"
                                       /\ Value(instructions[k].operands[2].num) % Immed > 31})

(* A number is taken for a field when the search for its first significant *)
(* bit says that it has no more of them than the field: the comparisons    *)
(* that the encoding goes by agree with it, at every edge of every field.  *)
TakenByItsBits ==
  AtLine => \A k \in DOMAIN CurrentLine.operands :
    LET n == CurrentLine.operands[k].num
        Searched(bits) == IsInt(n) /\ ~MinusZero(n) /\ (ImmSize(n) <= bits \/ Zero(n))
    IN /\ AnyBaseToBinary(n, Shamt)  <=> Searched(5)
       /\ AnyBaseToBinary(n, Immed)  <=> Searched(16)
       /\ AnyBaseToBinary(n, Target) <=> Searched(26)

(* The call comes back, with -1 or the number of a line, unless the        *)
(* process ends in it.                                                     *)
Returns == <>(status # "running")
==============================================================================
