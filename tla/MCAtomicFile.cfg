SPECIFICATION Spec
CONSTANTS
  w1 = w1
  w2 = w2
  r1 = r1
  Old = Old
  None = None
  Writers <- MCWriters
  Readers <- MCReaders
INVARIANTS
  TypeOK
  NeverTruncated
  LitterOnlyByCrash
PROPERTIES
  ImplementsRegister
