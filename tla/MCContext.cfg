SPECIFICATION Spec
CONSTANTS
  TASKS = 2
  DEPTH = 8
  LOCALS <- OneEach
  DRAFTS = {first}
INVARIANT TypeOK
INVARIANT HandlersDoNotNest
INVARIANT OnOwnStack
PROPERTY ImplementsTaskRegisters
