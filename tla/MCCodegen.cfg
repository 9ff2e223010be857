CONSTANTS
  MaxDecls = 3
  Programs <- MCPrograms
SPECIFICATION Spec
INVARIANTS
  TypeOK
  UniqueIdentity
  BindingIsStable
  ErasedAreUncalled
  
PROPERTY ImplementsSymbolTable
