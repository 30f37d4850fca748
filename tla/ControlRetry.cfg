SPECIFICATION ControlSpec
CONSTANTS
  Nodes <- MCNodes
  Entries <- MCEntries
  Joins <- MCJoins
  Edges <- MCEdges
  BackEdges <- MCBackEdges
  Writers <- MCWriters
  Dispatches <- MCDispatches
  Answers <- MCAnswers
  Shapes = {"pending"}
  Modes = {"all"}
  Failing = {"q", "meet", "after", "tail"}
  Interrupting = {}
  Skipping = {}
  Retrying = {}
  Writing = {"meet"}
  MaxParallelism = 2
  MaxSteps = 7
  MaxProcesses = 2
  JumpTargets = {"meet"}
  Marks = {"q", "meet", "after", "tail"}
INVARIANTS
  RetryLosesNothing
CHECK_DEADLOCK FALSE
