SPECIFICATION Spec
CONSTANTS
  Registries <- BodyRegistries
  Programs <- BodyPrograms
INVARIANTS UsesCoverCalls EmittedPerGeneration LastValuesArePassed BoundOnce PipesAreNested ExitHasCause
