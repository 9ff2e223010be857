SPECIFICATION Spec
CONSTANT Projects <- MCProjects
INVARIANTS TypeOK ImportsPrecede
PROPERTIES  Terminates
