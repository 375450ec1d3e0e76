\* All services, two overlapping requests, and the configs of a second tenant.
CONSTANTS
  Tenants = {t1, t2}
  Neighbours = {t2}
  TenantMembers = {tm1}
  TenantConfigs = {tc1}
  Projects = {p1}
  ProjectMembers = {pm1}
  ProjectConfigs = {pc1}
  Handlers = {h1, h2}
  Namespaces = {n1}
  Ids <- IdsOfKinds
  Requests <- Races
  NoId = NoId
  Absent = Absent
SPECIFICATION Spec
SYMMETRY Symmetric
INVARIANT NoCorruptionAnswered
PROPERTIES DeletionAloneCleans ConfigReferencesKept
