SPECIFICATION Spec
CONSTANTS
  r1 = r1
  r2 = r2
  g1 = g1
  Runs = {r1, r2}
  Groups = {g1}
  GroupOf <- FamilyGroups
  ParentOf <- Family
  Gated = {}
  Cancellable = {r1}
  Deletable = {}
  Agents = {a1}
  MaxFaults = 0
  MaxDecisions = 1
  BatchSize = 25
  GroupReadFails = FALSE
  NoGroup = NoGroup
  NoRun = NoRun
PROPERTIES
  TerminalAbsorbing
  CancelPrevails
\* Once every run has ended, nothing more happens.
CHECK_DEADLOCK FALSE
