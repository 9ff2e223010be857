SPECIFICATION Spec
CONSTANTS
  Statements <- MCStatements
  Bodies <- MCBodies
INVARIANTS TypeOK RunsTheSource
