SPECIFICATION Spec
CONSTANTS
  Nodes <- MCNodes
  Entries <- MCEntries
  Joins <- MCJoins
  Edges <- MCEdges
  BackEdges <- MCBackEdges
  Writers <- MCWriters
  Dispatches <- MCDispatches
  Answers <- MCAnswers
  Shapes = {"chain"}
  Modes = {"all"}
  Failing = {}
  Interrupting = {}
  Skipping = {}
  Retrying = {}
  Writing = {}
  MaxParallelism = 2
  MaxSteps = 8
  MaxProcesses = 1
INVARIANTS
  NothingIsLeftBehind
CHECK_DEADLOCK FALSE
