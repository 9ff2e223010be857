SPECIFICATION Spec
CONSTANT Programs <- MCPrograms
INVARIANTS TypeOK 
PROPERTY OnlyCommentsRemoved
