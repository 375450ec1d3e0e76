\* Two entities, two concurrent handlers, every kind of call, and the fairness
\* the scheduling justifies.
CONSTANTS
  Ids = {i1, i2}
  Values = {v1}
  v1 = v1
  Absent = Absent
  Nobody = Nobody
  Handlers = {h1, h2}
  Requests <- AllCalls
  MaxRequests = 4
  Times = {1, 2}
SPECIFICATION FairSpec
CHECK_DEADLOCK FALSE
INVARIANT IInv
PROPERTIES JSpec AnswersAreTruthful CallsReturn KeepsPromise
