\* Two replicas start on a database that no migration was applied to; two of
\* the memberships have one text.
CONSTANTS
  Replicas = {r1, r2}
  Tenants = {1}
  RowIds <- FewRows
  a = a
  b = b
  c = c
  Members = {a, b, c}
  Key <- Texts
  Versions = {0}
  Absent = Absent
  Nobody = Nobody
  MaxChanges = 1
  MaxFailures = 1
SPECIFICATION FewSpec
CHECK_DEADLOCK FALSE
INVARIANTS TypeOK NoMembershipLost QuotaIsMigrated ServesMigrated
PROPERTY AllServe
