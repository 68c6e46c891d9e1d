\* popl onto the slot it pops (violated).
SPECIFICATION Spec
CONSTANTS
  OPERAND_SIGN = 4
  BitAnd <- AndBits
  BitOr <- OrBits
  BitXor <- XorBits
  RotL <- RotLBits
  RotR <- RotRBits
  UNSAFE_OPERATIONS = FALSE
  StackSize = 6
  MemorySize = 2
  Images <- SelfPop
PROPERTY EveryStepIsUndone
CHECK_DEADLOCK FALSE
