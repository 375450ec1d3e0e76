\* A config is created while its tenant is deleted.
CONSTANTS
  Tenants = {t1}
  TenantMembers = {}
  TenantConfigs = {c1}
  Neighbours = {}
  Projects = {}
  ProjectMembers = {}
  ProjectConfigs = {}
  Handlers = {h1, h2}
  Namespaces = {n1}
  Ids <- IdsOfKinds
  Requests <- AllRequests
  NoId = NoId
  Absent = Absent
SPECIFICATION Spec
PROPERTY DeletionCleans
