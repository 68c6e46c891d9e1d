\* Texts of up to four lines, on 6-bit words.
SPECIFICATION Spec
CONSTANTS
  OPERAND_SIGN = 4
  BitAnd <- AndBits
  BitOr <- OrBits
  BitXor <- XorBits
  RotL <- RotLBits
  RotR <- RotRBits
  alpha = alpha
  beta = beta
  Symbols = {alpha, beta}
  Texts <- UpToFour
INVARIANTS
  ParsesWhatIsWritten
  RefusesWhatIsNot
CHECK_DEADLOCK FALSE
