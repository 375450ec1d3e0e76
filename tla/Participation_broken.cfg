\* A query whose rows break off.
CONSTANTS
  t1 = t1
  n1 = n1
  Tenants = {t1}
  TenantMembers = {}
  TenantConfigs = {}
  Neighbours = {}
  Projects = {p1}
  ProjectMembers = {pm1}
  ProjectConfigs = {}
  Handlers = {h1}
  Namespaces = {n1}
  Ids <- IdsOfKinds
  Requests <- Changes
  Queries <- Asked
  NoId = NoId
  Absent = Absent
SPECIFICATION QuerySpec
INVARIANT AllAreReturned
