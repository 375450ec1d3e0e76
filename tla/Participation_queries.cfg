\* Queries while tenants, projects and memberships are created and deleted.
CONSTANTS
  t1 = t1
  n1 = n1
  Tenants = {t1, t2}
  TenantMembers = {tm1}
  TenantConfigs = {}
  Neighbours = {}
  Projects = {p1}
  ProjectMembers = {pm1, pm2}
  ProjectConfigs = {}
  Handlers = {h1}
  Namespaces = {n1, n2}
  Ids <- IdsOfKinds
  Requests <- Changes
  Queries <- Asked
  NoId = NoId
  Absent = Absent
SPECIFICATION QuerySpec
SYMMETRY SymmetricMembers
INVARIANTS QueriesAgree ProjectIdsDistinct SteadyIsFound
