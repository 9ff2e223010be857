SPECIFICATION Spec
CONSTANTS
  Bits <- MCBits
  Numbers <- MCNumbers
  Families <- MCFamilies
INVARIANTS
  TypeOK
  ComputesAsMeant
