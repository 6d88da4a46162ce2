SPECIFICATION FairSpec
CONSTANTS
  s1 = s1
  g1 = g1
  h1 = h1
  Sources = {s1}
  Groups = {g1}
  GroupOf <- OneGroup
  Required = {s1}
  Unlaunchable = {}
  Requests = {h1}
  Keys = {}
  KeyOf <- NoKeys
  NoKey = NoKey
  Readers = {h1}
  Cancels = {c1}
  MaxConcurrency = 1
  Overlapping = {}
  MaxUpsets = 1
INVARIANTS
  TypeOK
  SuccessPublished
  CancelStopsRuns
PROPERTIES
  RefreshEnds
\* Once the refresh has ended, nothing more need happen.
CHECK_DEADLOCK FALSE
