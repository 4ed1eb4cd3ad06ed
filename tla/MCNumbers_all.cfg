SPECIFICATION Spec
CONSTANTS
  LimbBits = 5
  ChunkDigits = 1
  Primes <- MCPrimes
  Limits <- MCLimits
  Operands <- MCOperands
  Exponents <- MCExponents
  Shifts <- MCShifts
  Sizes <- MCSizes
  Moduli <- MCModuli
  MaxLimbs = 6
  MaxSteps = 1
INVARIANT Canonical
PROPERTY ExactArithmetic
CHECK_DEADLOCK FALSE
