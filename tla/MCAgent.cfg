SPECIFICATION FairSpec
CONSTANTS
  A = A
  G = G
  I = I
  B = B
  a1 = a1
  a2 = a2
  g = g
  i = i
  b = b
  Steps <- AllSteps
  Tasks <- AllTasks
  StepOf <- StepOfAll
  Kind <- Kinds
  Place <- Places
  StepNeeds <- AfterSteps
  StepNeedsTask <- AfterTasks
  TaskNeeds <- TaskAfter
  Conditional = {I}
  Tolerant = {b}
  Outputs = {a2}
  StepReads <- ReadByStep
  TaskReads <- ReadByTask
  HasTimeout = TRUE
  FinalStatus = FinalStatus
  MaxUpsets = 2
INVARIANTS
  TypeOK
  DependenciesRespected
  ApprovalBarrier
  StartedOnce
  VerdictTruthful
  RowsSettled
  SessionsReleased
PROPERTIES
  AgentEnds
\* Once the run has ended, nothing more happens.
CHECK_DEADLOCK FALSE
