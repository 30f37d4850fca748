SPECIFICATION Spec
CONSTANTS
  Nodes <- MCNodes
  Entries <- MCEntries
  Joins <- MCJoins
  Edges <- MCEdges
  BackEdges <- MCBackEdges
  Writers <- MCWriters
  Dispatches <- MCDispatches
  Answers <- MCAnswers
  Shapes = {"fan", "diamond", "loop"}
  Modes = {"any", "all", "quorum"}
  Failing = {"a", "b", "c", "left", "right", "inner", "outer", "log", "x", "y"}
  Interrupting = {"a", "b", "right", "inner", "log", "x"}
  Skipping = {"c", "outer"}
  Retrying = {"a", "x"}
  Writing = {"x", "merge", "inner", "log"}
  MaxParallelism = 2
  MaxSteps = 9
  MaxProcesses = 3
INVARIANTS
  TypeOK
  QueueIsTheWork
  PayloadsFlowOnce
  UndisturbedFailureIsWarranted
  ItemsAreDispatchedOnce
  NothingIsLeftBehind
  JoinsFireOncePerEpoch
PROPERTIES
  DecisionsAreFinal
  NoUpdateIsLost
CHECK_DEADLOCK FALSE
