CONSTANTS
  t1 = t1  t2 = t2  t3 = t3
  v1 = v1  v2 = v2
  r1 = r1  r2 = r2
  Tasks <- MCTwoTasks
  Values <- MCOneValue
  Runs <- MCRuns
  NoTask = NoTask
  Absent = Absent
  MaxEvents = 3
  BlockersLast = FALSE
SPECIFICATION Spec
CHECK_DEADLOCK FALSE
INVARIANT RefusedOnlyForOthers
