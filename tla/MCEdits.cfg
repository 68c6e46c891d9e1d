\* A user who also changes the machine and types nonsense, on 6-bit words.
SPECIFICATION HistorySpec
CONSTANTS
  OPERAND_SIGN = 4
  BitAnd <- AndBits
  BitOr <- OrBits
  BitXor <- XorBits
  RotL <- RotLBits
  RotR <- RotRBits
  UNSAFE_OPERATIONS = FALSE
  StackSize = 3
  MemorySize = 1
  Images <- Few
  Lines <- Edits
INVARIANTS
  DebuggerTypeOK
  SoundUntilEdited
CHECK_DEADLOCK FALSE
