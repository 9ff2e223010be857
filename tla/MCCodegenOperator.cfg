CONSTANTS
  MaxDecls = 0
  Programs <- OperatorPrograms
SPECIFICATION Spec
INVARIANT ErasedIsUnused
