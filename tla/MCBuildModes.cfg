\* Every instruction and every order of transfers, in both builds, on 6-bit
\* words.
SPECIFICATION Spec
CONSTANTS
  OPERAND_SIGN = 4
  BitAnd <- AndBits
  BitOr <- OrBits
  BitXor <- XorBits
  RotL <- RotLBits
  RotR <- RotRBits
  UNSAFE_OPERATIONS = FALSE
  StackSize = 6
  MemorySize = 2
  Images <- Everything
INVARIANTS
  TypeOK
  CleanAboveSp
  NoUndefinedAccess
PROPERTIES
  StepsAreUndone
  ChecksAreTransparent
  RunTerminates
CHECK_DEADLOCK FALSE
