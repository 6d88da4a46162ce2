SPECIFICATION FairSpec
CONSTANTS
  r1 = r1
  r2 = r2
  g1 = g1
  Runs = {r1}
  Groups = {g1}
  GroupOf <- OneGroup
  ParentOf <- TopLevel
  Gated = {r1}
  Cancellable = {r1}
  Deletable = {r1}
  Agents = {a1}
  MaxFaults = 1
  MaxDecisions = 1
  BatchSize = 25
  GroupReadFails = FALSE
  NoGroup = NoGroup
  NoRun = NoRun
PROPERTIES
  PendingHeadStarts
\* Once every run has ended, nothing more happens.
CHECK_DEADLOCK FALSE
