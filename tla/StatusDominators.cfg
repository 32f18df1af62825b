SPECIFICATION Spec
CONSTANT Graphs <- MCGraphs
INVARIANTS
  ExactOnFinish
  TableIsComputed
PROPERTY Terminates
CHECK_DEADLOCK FALSE
