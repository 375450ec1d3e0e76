\* All services but that of project members: two isolated requests, crashes anywhere.
CONSTANTS
  Tenants = {t1, t2}
  TenantMembers = {tm1}
  TenantConfigs = {tc1}
  Neighbours = {}
  Projects = {p1}
  ProjectMembers = {}
  ProjectConfigs = {pc1}
  Handlers = {h1, h2}
  Namespaces = {n1}
  Ids <- IdsOfKinds
  Requests <- Named
  NoId = NoId
  Absent = Absent
SPECIFICATION IsolatedSpec
SYMMETRY SymmetricAll
INVARIANTS TypeOK NothingOrphaned
PROPERTY ReferencesKept
