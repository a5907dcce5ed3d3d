CONSTANTS
  task_cnt = 3
  Values = {0, 1}
SPECIFICATION Spec
INVARIANTS
  ContextKept
  NeverNested
PROPERTY
  EveryTaskRuns
