\* A division ends the process without an exit code of main.
SPECIFICATION MainSpec
CONSTANTS
  OPERAND_SIGN = 4
  BitAnd <- AndBits
  BitOr <- OrBits
  BitXor <- XorBits
  RotL <- RotLBits
  RotR <- RotRBits
  UNSAFE_OPERATIONS = FALSE
  StackSize = 4
  MemorySize = 2
  Images <- NoImages
  alpha = alpha
  beta = beta
  gamma = gamma
  Symbols = {alpha, beta, gamma}
  Programs <- Files
  Configurations <- Options
  Lines <- Walks
INVARIANT RuntimeErrorsExitWithOne
CHECK_DEADLOCK FALSE
