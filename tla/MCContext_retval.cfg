SPECIFICATION Spec
CONSTANTS
  TASKS = 2
  DEPTH = 8
  LOCALS <- OneEach
  DRAFTS = {first}
PROPERTY AnswerInR0
