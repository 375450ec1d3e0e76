\* Two concurrent updates from one version.
CONSTANTS
  Ids = {i1}
  Values = {v1}
  v1 = v1
  Absent = Absent
  Nobody = Nobody
  Handlers = {h1, h2}
  Requests <- LifeOfOne
  MaxRequests = 3
  Times = {1, 2}
SPECIFICATION Spec
CHECK_DEADLOCK FALSE
INVARIANT VersionsGrow
