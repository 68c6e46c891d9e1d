\* A user who walks about in the programs, on 6-bit words.
SPECIFICATION HistorySpec
CONSTANTS
  OPERAND_SIGN = 4
  BitAnd <- AndBits
  BitOr <- OrBits
  BitXor <- XorBits
  RotL <- RotLBits
  RotR <- RotRBits
  UNSAFE_OPERATIONS = FALSE
  StackSize = 3
  MemorySize = 1
  Images <- Debugged
  Lines <- Walks
INVARIANT NeverTwice
PROPERTY ImplementsTimeline
CHECK_DEADLOCK FALSE
