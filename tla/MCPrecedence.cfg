SPECIFICATION Spec
CONSTANT Expressions <- MCExpressions
INVARIANTS TypeOK ReadsAsSource Grouped
PROPERTY Terminates
