SPECIFICATION Spec
CONSTANTS
  Task = {t1, t2, t3}
  MaxNest = 2
INVARIANTS
  TasksEnabled
