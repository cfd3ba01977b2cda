SPECIFICATION Spec
CONSTANTS
  Bytes <- MCBytes
  Flips <- MCFlips
  MaxLen = 3
  MaxHit = 2
INVARIANTS
  TableIsPolynomial
  DamageDetected
CHECK_DEADLOCK FALSE
