SPECIFICATION Spec
CONSTANTS
  i1 = i1
  i2 = i2
  i3 = i3
  d1 = d1
  d2 = d2
  Invocations = {i1, i2, i3}
  Deliveries = {d1, d2}
  Pipelines = {"p", "r"}
  Target = "p"
  Keys = {"k", "event"}
  Key <- SharedKeys
  NoKey = NoKey
  Limit = 1
  Minute = 2
  MaxTime = 2
  MaxUpsets = 2
CONSTRAINT OneTable
SYMMETRY Alike
INVARIANTS
  TypeOK
  KeyStartsOnce
  LimitRespected
\* Once every request is answered, nothing more happens.
CHECK_DEADLOCK FALSE
