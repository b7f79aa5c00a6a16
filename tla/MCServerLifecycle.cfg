SPECIFICATION Spec
CONSTANTS
  Conns = {c1, c2}
  Workers = {w1}
  Descriptors = 1
  MaxTasks = 1
CHECK_DEADLOCK FALSE
INVARIANTS
  ObjectsOutliveThreads
  AcceptedTasksAreExecuted
PROPERTIES
  StopEndsServer
  ConnectionsAreTaken
