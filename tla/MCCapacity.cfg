\* A stack of three slots (violated).
SPECIFICATION Spec
CONSTANTS
  OPERAND_SIGN = 4
  BitAnd <- AndBits
  BitOr <- OrBits
  BitXor <- XorBits
  RotL <- RotLBits
  RotR <- RotRBits
  UNSAFE_OPERATIONS = FALSE
  StackSize = 3
  MemorySize = 2
  Images <- OnePush
PROPERTY CapacityIsUsable
CHECK_DEADLOCK FALSE
