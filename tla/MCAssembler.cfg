\* Memory of every shape in the addresses from 0 to 31, and code with every
\* kind of operand and label.
SPECIFICATION Spec
CONSTANTS
  OPERAND_SIGN = 4
  BitAnd <- AndBits
  BitOr <- OrBits
  BitXor <- XorBits
  RotL <- RotLBits
  RotR <- RotRBits
  alpha = alpha
  beta = beta
  Symbols = {alpha, beta}
  Programs <- Everything
INVARIANTS
  TypeOK
  LowestFit
  AssembledIsRunnable
PROPERTIES
  ImplementsLoader
  AssemblyAdvances
  AssemblyTerminates
CHECK_DEADLOCK FALSE
