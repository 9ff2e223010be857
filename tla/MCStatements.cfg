SPECIFICATION Spec
CONSTANTS
  Programs <- MCPrograms
  MAX_AST_DEPTH = 8
INVARIANTS
  TypeOK
  
  WellWrittenIsRead
