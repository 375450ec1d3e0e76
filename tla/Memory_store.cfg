\* One process, three goroutines, two ids, every call.
CONSTANTS
  Ids = {i1, i2}
  Values = {v1, v2}
  Absent = Absent
  Nobody = Nobody
  Handlers = {h1, h2, h3}
  Requests <- AllCalls
  MaxRequests = 4
SPECIFICATION Spec
CHECK_DEADLOCK FALSE
INVARIANT IInv
PROPERTIES KeepsPromiseUntilWiped CallsReturn
