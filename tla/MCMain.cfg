\* From the file to the exit code, with and without the debugger, on 6-bit words.
SPECIFICATION MainSpec
CONSTANTS
  OPERAND_SIGN = 4
  BitAnd <- AndBits
  BitOr <- OrBits
  BitXor <- XorBits
  RotL <- RotLBits
  RotR <- RotRBits
  UNSAFE_OPERATIONS = FALSE
  StackSize = 4
  MemorySize = 2
  Images <- NoImages
  alpha = alpha
  beta = beta
  gamma = gamma
  Symbols = {alpha, beta, gamma}
  Programs <- Files
  Configurations <- Options
  Lines <- Walks
INVARIANTS
  ZeroEntropyIsClean
  UncomputedIsClean
PROPERTIES
  LandsOnLabel
  ProcessEnds
  CommandsComeBack
CHECK_DEADLOCK FALSE
