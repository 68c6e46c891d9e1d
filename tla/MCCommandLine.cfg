\* Command lines of up to four arguments; numbers of 20 bits, a kilo of 64.
SPECIFICATION Spec
CONSTANTS
  CommandLines <- Short
  MODULUS = 1048576
  KILO = 64
INVARIANT MeansWhatIsWritten
CHECK_DEADLOCK FALSE
