SPECIFICATION ControlFairSpec
CONSTANTS
  Nodes <- MCNodes
  Entries <- MCEntries
  Joins <- MCJoins
  Edges <- MCEdges
  BackEdges <- MCBackEdges
  Writers <- MCWriters
  Dispatches <- MCDispatches
  Answers <- MCAnswers
  Shapes = {"pending", "fan", "loop"}
  Modes = {"any", "all", "quorum"}
  Failing = {"q", "meet", "after", "tail", "a", "b"}
  Interrupting = {"b", "c", "x"}
  Skipping = {}
  Retrying = {"a"}
  Writing = {"meet"}
  MaxParallelism = 2
  MaxSteps = 7
  MaxProcesses = 2
  JumpTargets = {"meet"}
  Marks = {"q", "meet", "after", "tail"}
INVARIANTS
  ControlledRunsLoseNothing
PROPERTIES
  Terminates
CHECK_DEADLOCK FALSE
