SPECIFICATION Spec
CONSTANTS
  Nodes <- MCNodes
  Entries <- MCEntries
  Joins <- MCJoins
  Edges <- MCEdges
  BackEdges <- MCBackEdges
  Writers <- MCWriters
  Dispatches <- MCDispatches
  Answers <- MCAnswers
  Shapes = {"fan"}
  Modes = {"any"}
  Failing = {}
  Interrupting = {"a", "b", "c"}
  Skipping = {}
  Retrying = {}
  Writing = {}
  MaxParallelism = 2
  MaxSteps = 6
  MaxProcesses = 2
INVARIANTS
  FailureIsWarranted
CHECK_DEADLOCK FALSE
