\* Texts of up to three lines.
CONSTANT Texts <- MCTexts
SPECIFICATION Spec
INVARIANTS
  TypeOK
  LinesCounted
  TakenByItsBits
PROPERTIES
  KeepsPromise
  Returns
\* The call ends when it returns.
CHECK_DEADLOCK FALSE
