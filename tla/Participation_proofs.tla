------------------------ MODULE Participation_proofs ------------------------
(***************************************************************************)
(* Theorems about Participation, for any number of handlers, ids,          *)
(* namespaces, requests and queries.                                       *)
(***************************************************************************)
EXTENDS ParticipationProperties, Tenancy_proofs

(***************************************************************************)
(* The SELECTs, in terms of the memberships they join.                     *)
(***************************************************************************)
LEMMA RowFields ==
  ASSUME NEW i, NEW m, NEW p
  PROVE  Row(i, m, p).id = i /\ Row(i, m, p).via = m /\ Row(i, m, p).project = p
BY DEF Row

\* The tenant t participates in i by a membership of its own in the namespace n.
TenantLink(t, i, n) ==
  \E m \in Stored("tenantmember") :
    /\ db["tenantmember"][m].tenant = i
    /\ db["tenantmember"][m].member = t
    /\ db["tenantmember"][m].namespace = n

\* ... by a membership in the project p of i.
ProjectLink(t, i, p, n) ==
  /\ p \in Stored("project") /\ db["project"][p].tenant = i
  /\ \E m \in Stored("projectmember") :
       /\ db["projectmember"][m].project = p
       /\ db["projectmember"][m].tenant = t
       /\ db["projectmember"][m].namespace = n

LEMMA TenantsOfLinks ==
  ASSUME NEW t, NEW n, NEW i
  PROVE  i \in TenantsOf(t, n) <=>
           /\ i \in Stored("tenant")
           /\ TenantLink(t, i, n) \/ \E p : ProjectLink(t, i, p, n)
<1>1. i \in Found(DirectTenants(t, n)) <=> i \in Stored("tenant") /\ TenantLink(t, i, n)
  <2>1. ASSUME i \in Found(DirectTenants(t, n))
        PROVE  i \in Stored("tenant") /\ TenantLink(t, i, n)
    <3>1. PICK r \in DirectTenants(t, n) : r.id = i
      BY <2>1 DEF Found
    <3>2. PICK m \in Memberships("tenantmember", "member", t, n) :
                 r = Row(db["tenantmember"][m].tenant, m, Absent)
      BY <3>1 DEF DirectTenants, Joined
    <3>3. db["tenantmember"][m].tenant = i
      BY <3>1, <3>2, RowFields
    <3> QED
      BY <3>1, <3>2, <3>3 DEF DirectTenants, Joined, Memberships, Referring, TenantLink
  <2>2. ASSUME i \in Stored("tenant"), TenantLink(t, i, n)
        PROVE  i \in Found(DirectTenants(t, n))
    <3>1. PICK m \in Memberships("tenantmember", "member", t, n) :
                 db["tenantmember"][m].tenant = i
      BY <2>2 DEF TenantLink, Memberships, Referring
    <3>2. Row(i, m, Absent) \in DirectTenants(t, n)
      BY <2>2, <3>1, RowFields DEF DirectTenants, Joined
    <3> QED
      BY <3>2, RowFields DEF Found
  <2> QED
    BY <2>1, <2>2
<1>2. i \in Found(InheritedTenants(t, n)) <=>
        i \in Stored("tenant") /\ \E p : ProjectLink(t, i, p, n)
  <2>1. ASSUME i \in Found(InheritedTenants(t, n))
        PROVE  i \in Stored("tenant") /\ \E p : ProjectLink(t, i, p, n)
    <3>1. PICK r \in InheritedTenants(t, n) : r.id = i
      BY <2>1 DEF Found
    <3>2. PICK m \in Memberships("projectmember", "tenant", t, n) :
                 /\ ProjectOf(m) \in Stored("project")
                 /\ r = Row(db["project"][ProjectOf(m)].tenant, m, Absent)
      BY <3>1 DEF InheritedTenants, Joined
    <3>3. db["project"][ProjectOf(m)].tenant = i
      BY <3>1, <3>2, RowFields
    <3>4. ProjectLink(t, i, ProjectOf(m), n)
      BY <3>2, <3>3 DEF Memberships, Referring, ProjectLink, ProjectOf
    <3> QED
      BY <3>1, <3>4 DEF InheritedTenants, Joined
  <2>2. ASSUME i \in Stored("tenant"), NEW p, ProjectLink(t, i, p, n)
        PROVE  i \in Found(InheritedTenants(t, n))
    <3>1. PICK m \in Memberships("projectmember", "tenant", t, n) : ProjectOf(m) = p
      BY <2>2 DEF ProjectLink, Memberships, Referring, ProjectOf
    <3>2. p \in Stored("project") /\ db["project"][p].tenant = i
      BY <2>2 DEF ProjectLink
    <3>3. Row(i, m, Absent) \in InheritedTenants(t, n)
      BY <2>2, <3>1, <3>2, RowFields DEF InheritedTenants, Joined
    <3> QED
      BY <3>3, RowFields DEF Found
  <2> QED
    BY <2>1, <2>2
<1>3. i \in TenantsOf(t, n) <=>
        i \in Found(DirectTenants(t, n)) \/ i \in Found(InheritedTenants(t, n))
  BY DEF TenantsOf, Found
<1> QED
  BY <1>1, <1>2, <1>3

LEMMA MembersOfLinks ==
  ASSUME NEW t, NEW n, NEW i
  PROVE  t \in MembersOf(i, n) <=>
           /\ t \in Stored("tenant")
           /\ TenantLink(t, i, n) \/ \E p : ProjectLink(t, i, p, n)
<1>1. t \in Found(DirectMembers(i, n)) <=> t \in Stored("tenant") /\ TenantLink(t, i, n)
  <2>1. ASSUME t \in Found(DirectMembers(i, n))
        PROVE  t \in Stored("tenant") /\ TenantLink(t, i, n)
    <3>1. PICK r \in DirectMembers(i, n) : r.id = t
      BY <2>1 DEF Found
    <3>2. PICK m \in Memberships("tenantmember", "tenant", i, n) :
                 r = Row(db["tenantmember"][m].member, m, Absent)
      BY <3>1 DEF DirectMembers, Joined
    <3>3. db["tenantmember"][m].member = t
      BY <3>1, <3>2, RowFields
    <3> QED
      BY <3>1, <3>2, <3>3 DEF DirectMembers, Joined, Memberships, Referring, TenantLink
  <2>2. ASSUME t \in Stored("tenant"), TenantLink(t, i, n)
        PROVE  t \in Found(DirectMembers(i, n))
    <3>1. PICK m \in Memberships("tenantmember", "tenant", i, n) :
                 db["tenantmember"][m].member = t
      BY <2>2 DEF TenantLink, Memberships, Referring
    <3>2. Row(t, m, Absent) \in DirectMembers(i, n)
      BY <2>2, <3>1, RowFields DEF DirectMembers, Joined
    <3> QED
      BY <3>2, RowFields DEF Found
  <2> QED
    BY <2>1, <2>2
<1>2. t \in Found(InheritedMembers(i, n)) <=>
        t \in Stored("tenant") /\ \E p : ProjectLink(t, i, p, n)
  <2>1. ASSUME t \in Found(InheritedMembers(i, n))
        PROVE  t \in Stored("tenant") /\ \E p : ProjectLink(t, i, p, n)
    <3>1. PICK r \in InheritedMembers(i, n) : r.id = t
      BY <2>1 DEF Found
    <3>2. PICK p \in Referring("project", "tenant", i) :
                 \E m \in Memberships("projectmember", "project", p, n) :
                   r = Row(db["projectmember"][m].tenant, m, p)
      BY <3>1 DEF InheritedMembers, Joined
    <3>3. PICK m \in Memberships("projectmember", "project", p, n) :
                 r = Row(db["projectmember"][m].tenant, m, p)
      BY <3>2
    <3>4. db["projectmember"][m].tenant = t
      BY <3>1, <3>3, RowFields
    <3>5. ProjectLink(t, i, p, n)
      BY <3>3, <3>4 DEF Memberships, Referring, ProjectLink
    <3> QED
      BY <3>1, <3>5 DEF InheritedMembers, Joined
  <2>2. ASSUME t \in Stored("tenant"), NEW p, ProjectLink(t, i, p, n)
        PROVE  t \in Found(InheritedMembers(i, n))
    <3>1. PICK m \in Memberships("projectmember", "project", p, n) :
                 db["projectmember"][m].tenant = t
      BY <2>2 DEF ProjectLink, Memberships, Referring
    <3>2. p \in Referring("project", "tenant", i)
      BY <2>2 DEF ProjectLink, Referring
    <3>3. Row(t, m, p) \in InheritedMembers(i, n)
      BY <2>2, <3>1, <3>2, RowFields DEF InheritedMembers, Joined
    <3> QED
      BY <3>3, RowFields DEF Found
  <2> QED
    BY <2>1, <2>2
<1>3. t \in MembersOf(i, n) <=>
        t \in Found(DirectMembers(i, n)) \/ t \in Found(InheritedMembers(i, n))
  BY DEF MembersOf, Found
<1> QED
  BY <1>1, <1>2, <1>3

LEMMA ProjectsOfLinks ==
  ASSUME NEW t, NEW n, NEW p, p \in ProjectsOf(t, n)
  PROVE  LET i == db["project"][p].tenant
         IN  TenantLink(t, i, n) \/ ProjectLink(t, i, p, n)
<1> DEFINE i == db["project"][p].tenant
<1>1. ASSUME p \in Found(DirectProjects(t, n)) PROVE ProjectLink(t, i, p, n)
  <2>1. PICK r \in DirectProjects(t, n) : r.id = p
    BY <1>1 DEF Found
  <2>2. PICK m \in Memberships("projectmember", "tenant", t, n) :
               r = Row(ProjectOf(m), m, Absent)
    BY <2>1 DEF DirectProjects, Joined
  <2>3. ProjectOf(m) = p /\ p \in Stored("project")
    BY <2>1, <2>2, RowFields DEF DirectProjects, Joined
  <2> QED
    BY <2>2, <2>3 DEF ProjectLink, ProjectOf, Memberships, Referring
<1>2. ASSUME p \in Found(InheritedProjects(t, n)) PROVE TenantLink(t, i, n)
  <2>1. PICK r \in InheritedProjects(t, n) : r.id = p
    BY <1>2 DEF Found
  <2>2. PICK m \in Memberships("tenantmember", "member", t, n) :
               \E o \in Referring("project", "tenant", db["tenantmember"][m].tenant) :
                 r = Row(o, m, Absent)
    BY <2>1 DEF InheritedProjects
  <2>3. p \in Referring("project", "tenant", db["tenantmember"][m].tenant)
    BY <2>1, <2>2, RowFields
  <2> QED
    BY <2>2, <2>3 DEF TenantLink, Memberships, Referring
<1>3. p \in Found(DirectProjects(t, n)) \/ p \in Found(InheritedProjects(t, n))
  BY DEF ProjectsOf, Found
<1> QED
  BY <1>1, <1>2, <1>3

LEMMA QueriesAgreeAlways == QueriesAgree
<1> SUFFICES ASSUME NEW t \in Stored("tenant"), NEW n \in Namespaces
             PROVE  /\ {i \in Stored("tenant") : t \in MembersOf(i, n)} = TenantsOf(t, n)
                    /\ {db["project"][p].tenant : p \in ProjectsOf(t, n)}
                         \cap Stored("tenant") \subseteq TenantsOf(t, n)
  BY DEF QueriesAgree
<1>1. \A i \in Stored("tenant") : t \in MembersOf(i, n) <=> i \in TenantsOf(t, n)
  BY TenantsOfLinks, MembersOfLinks
<1>2. TenantsOf(t, n) \subseteq Stored("tenant")
  BY TenantsOfLinks
<1>3. ASSUME NEW p \in ProjectsOf(t, n), db["project"][p].tenant \in Stored("tenant")
      PROVE  db["project"][p].tenant \in TenantsOf(t, n)
  BY <1>3, ProjectsOfLinks, TenantsOfLinks
<1> QED
  BY <1>1, <1>2, <1>3

-----------------------------------------------------------------------------
(***************************************************************************)
(* What the tables hold between any two steps of the services: documents,  *)
(* and no membership twice.                                                *)
(***************************************************************************)
Unique(k) == \A i, j \in Stored(k) : db[k][i] = db[k][j] => i = j

TablesInv == TablesHoldDocuments /\ \A k \in Members : Unique(k)

LEMMA ChangeTables ==
  ASSUME ConfigInv, TablesInv, NEW h \in Handlers, NEW k \in Kinds, NEW table,
         Change(h, k, table), table \in [Ids[k] -> Documents[k] \cup {Absent}],
         k \in Members =>
           \A i, j \in Ids[k] : table[i] # Absent /\ table[i] = table[j] => i = j
  PROVE  TablesInv'
<1>1. DOMAIN db' = Kinds /\ db'[k] = table /\ \A c \in Kinds \ {k} : db'[c] = db[c]
  BY DEF Change, TablesInv, TablesHoldDocuments
<1>2. TablesHoldDocuments'
  BY <1>1 DEF TablesInv, TablesHoldDocuments
<1>3. ASSUME NEW c \in Members PROVE Unique(c)'
  <2>1. CASE c = k
    BY <1>1, <1>3, <2>1 DEF Unique, Stored
  <2>2. CASE c # k
    BY <1>1, <1>3, <2>2 DEF TablesInv, Unique, Stored, Members, Kinds
  <2> QED
    BY <2>1, <2>2
<1> QED
  BY <1>2, <1>3 DEF TablesInv

LEMMA WithoutIsFine ==
  ASSUME ConfigInv, TablesInv, NEW h \in Handlers, NEW k \in Kinds, NEW table,
         Change(h, k, table), DOMAIN table = Ids[k],
         table = [i \in Ids[k] |-> table[i]],
         \A i \in Ids[k] : table[i] \in {db[k][i], Absent}
  PROVE  TablesInv'
<1>1. db[k] \in [Ids[k] -> Documents[k] \cup {Absent}]
  BY DEF TablesInv, TablesHoldDocuments
<1>2. table \in [Ids[k] -> Documents[k] \cup {Absent}]
  BY <1>1
<1>3. k \in Members =>
        \A i, j \in Ids[k] : table[i] # Absent /\ table[i] = table[j] => i = j
  BY DEF TablesInv, Unique, Stored
<1> QED
  BY <1>2, <1>3, ChangeTables

LEMMA WithIsFine ==
  ASSUME ConfigInv, TablesInv, NEW h \in Handlers, NEW k \in Kinds, NEW i \in Ids[k],
         NEW d \in Documents[k], ~Clashes(k, i, d),
         Change(h, k, [db[k] EXCEPT ![i] = d])
  PROVE  TablesInv'
<1> DEFINE table == [db[k] EXCEPT ![i] = d]
<1>1. db[k] \in [Ids[k] -> Documents[k] \cup {Absent}]
  BY DEF TablesInv, TablesHoldDocuments
<1>2. /\ table \in [Ids[k] -> Documents[k] \cup {Absent}]
      /\ table[i] = d /\ \A j \in Ids[k] \ {i} : table[j] = db[k][j]
  BY <1>1
<1> HIDE DEF table
<1>3. ASSUME k \in Members, NEW j \in Ids[k], NEW l \in Ids[k],
             table[j] # Absent, table[j] = table[l]
      PROVE  j = l
  <2>1. \A m \in Ids[k] \ {i} : table[m] # Absent => table[m] # d
    BY <1>2, <1>3 DEF Clashes, Stored
  <2> QED
    BY <1>2, <1>3, <2>1 DEF TablesInv, Unique, Stored
<1> QED
  BY <1>2, <1>3, ChangeTables DEF table

LEMMA SameTablesInv ==
  ASSUME TablesInv, db' = db
  PROVE  TablesInv'
BY DEF TablesInv, TablesHoldDocuments, Unique, Stored

LEMMA NextKeepsTables ==
  ASSUME ConfigInv, TablesInv, Next
  PROVE  TablesInv'
<1> PICK h \in Handlers :
      (\E q \in Requests : Begin(h, q)) \/ Step(h) \/ Fail(h)
  BY DEF Next
<1>1. ASSUME db' = db PROVE TablesInv'
  BY <1>1, SameTablesInv
<1>2. CASE \/ \E q \in Requests : Begin(h, q)
           \/ Fail(h)
           \/ CheckNoId(h) \/ CheckReference(h) \/ CompareOld(h)
           \/ FindReferring(h) \/ SkipDeleteAll(h)
  BY <1>1, <1>2 DEF Begin, Fail, CheckNoId, CheckReference, CompareOld,
       FindReferring, SkipDeleteAll, Refuse
<1> PICK k : k = Kind(h)
  OBVIOUS
<1>3. CASE DeleteAllFound(h)
  <2> DEFINE table == [i \in Ids[k] |-> IF i \in found[h] \cap Stored(k)
                                        THEN Absent ELSE db[k][i]]
  <2>1. k \in Kinds
    BY <1>3, NextCall DEF DeleteAllFound, At
  <2>2. db' = db \/ Change(h, k, table)
    BY <1>3 DEF DeleteAllFound, Refuse
  <2>3. DOMAIN table = Ids[k] /\ table = [i \in Ids[k] |-> table[i]]
        /\ \A i \in Ids[k] : table[i] \in {db[k][i], Absent}
    OBVIOUS
  <2> HIDE DEF table
  <2> QED
    BY <1>1, <2>1, <2>2, <2>3, WithoutIsFine
<1>4. CASE \E a \in {"ok", "error"} : StoreDelete(h, a)
  <2> DEFINE table == [db[k] EXCEPT ![req[h].id] = Absent]
  <2>1. k \in Kinds
    BY <1>4, NextCall DEF StoreDelete, At
  <2>2. db' = db \/ Change(h, k, table)
    BY <1>4 DEF StoreDelete, Refuse
  <2>3. DOMAIN table = Ids[k] /\ table = [i \in Ids[k] |-> table[i]]
        /\ \A i \in Ids[k] : table[i] \in {db[k][i], Absent}
    BY <2>1 DEF TablesInv, TablesHoldDocuments
  <2> HIDE DEF table
  <2> QED
    BY <1>1, <2>1, <2>2, <2>3, WithoutIsFine
<1>5. CASE \E a \in {"ok", "error"} : StoreCreate(h, a) \/ StoreUpdate(h, a)
  <2>1. k \in Kinds /\ req[h].doc \in Documents[k]
    BY <1>5, NextCall DEF StoreCreate, StoreUpdate, At, IsRequest
  <2>2. \/ db' = db
        \/ \E i \in Ids[k] : /\ ~Clashes(k, i, req[h].doc)
                             /\ Change(h, k, [db[k] EXCEPT ![i] = req[h].doc])
    BY <1>5 DEF StoreCreate, StoreUpdate, Refuse, Stored
  <2> QED
    BY <1>1, <2>1, <2>2, WithIsFine
<1> QED
  BY <1>2, <1>3, <1>4, <1>5 DEF Step

-----------------------------------------------------------------------------
(***************************************************************************)
(* What a query has collected, at each of its phases.                      *)
(***************************************************************************)
SteadyInv ==
  /\ Running => steady \subseteq Participating(query)
  /\ phase = "inherited" /\ ~broken =>
       \A x \in steady : x \in Found(rows) \/ x \notin Found(Direct(query))
  /\ SteadyIsFound

DirectRows == \A r \in rows : r.project = Absent

RowsInv ==
  /\ phase \in {"idle", "direct"} => rows = {}
  /\ phase = "inherited" /\ query.kind = "members" => DirectRows
  /\ ProjectIdsDistinct

QueryInv == ConfigInv /\ TablesInv /\ SteadyInv /\ RowsInv

\* The SELECTs read nothing but the tables.
LEMMA SameAnswers ==
  ASSUME db' = db, NEW q
  PROVE  Direct(q)' = Direct(q) /\ Inherited(q)' = Inherited(q)
BY DEF Direct, Inherited, DirectProjects, InheritedProjects, DirectTenants,
     InheritedTenants, DirectMembers, InheritedMembers, Joined, Memberships,
     Referring, Stored, ProjectOf

LEMMA SameQuery ==
  ASSUME db' = db, query' = query
  PROVE  Direct(query)' = Direct(query) /\ Inherited(query)' = Inherited(query)
BY DEF Direct, Inherited, DirectProjects, InheritedProjects, DirectTenants,
     InheritedTenants, DirectMembers, InheritedMembers, Joined, Memberships,
     Referring, Stored, ProjectOf

LEMMA SameQueryInv ==
  ASSUME QueryInv, UNCHANGED vars
  PROVE  ConfigInv' /\ TablesInv'
<1>1. db' = db
  BY DEF vars
<1>2. ConfigInv'
  BY DEF QueryInv, vars, locals, ConfigInv, TablesFit, ConfigFits, UpdateStands,
       Stored, At, Active, Kind
<1> QED
  BY <1>1, <1>2, SameTablesInv DEF QueryInv

\* Memberships are unique, so that each row has a project of its own.
LEMMA InheritedMembersDistinct ==
  ASSUME TablesInv, NEW t, NEW n,
         NEW r \in InheritedMembers(t, n), NEW s \in InheritedMembers(t, n),
         r.id = s.id, r.project = s.project
  PROVE  r = s
<1> DEFINE pm == db["projectmember"]
<1>1. ASSUME NEW x \in InheritedMembers(t, n)
      PROVE  \E m \in Stored("projectmember") :
               x = Row(pm[m].tenant, m, pm[m].project) /\ pm[m].namespace = n
  <2>1. PICK p \in Referring("project", "tenant", t) :
               \E m \in Memberships("projectmember", "project", p, n) :
                 x = Row(pm[m].tenant, m, p)
    BY <1>1 DEF InheritedMembers, Joined
  <2> QED
    BY <2>1 DEF Memberships, Referring
<1>2. PICK i \in Stored("projectmember") :
             r = Row(pm[i].tenant, i, pm[i].project) /\ pm[i].namespace = n
  BY <1>1
<1>3. PICK j \in Stored("projectmember") :
             s = Row(pm[j].tenant, j, pm[j].project) /\ pm[j].namespace = n
  BY <1>1
<1>4. pm[i].project = pm[j].project /\ pm[i].tenant = pm[j].tenant
  BY <1>2, <1>3, RowFields
<1>5. \A m \in Stored("projectmember") : pm[m] \in Documents["projectmember"]
  BY DEF TablesInv, TablesHoldDocuments, Stored, Kinds
<1>6. \E X : Documents["projectmember"] \subseteq [{"project", "tenant", "namespace"} -> X]
  BY DEF Documents, Kinds, Fields
<1>7. pm[i] = pm[j]
  BY <1>2, <1>3, <1>4, <1>5, <1>6
<1>8. i = j
  BY <1>7 DEF TablesInv, Unique, Members
<1> QED
  BY <1>2, <1>3, <1>4, <1>8

LEMMA InitQueryInv == Init /\ QueryInit => QueryInv
<1> SUFFICES ASSUME Init, QueryInit PROVE QueryInv
  OBVIOUS
<1>1. ConfigInv
  BY InitConfigInv
<1>2. TablesInv
  BY DEF Init, TablesInv, TablesHoldDocuments, Unique, Stored, Members, Kinds
<1>3. SteadyInv /\ RowsInv
  BY DEF QueryInit, SteadyInv, Running, SteadyIsFound, RowsInv, ProjectIdsDistinct
<1> QED
  BY <1>1, <1>2, <1>3 DEF QueryInv

LEMMA AskFits ==
  ASSUME QueryInv, NEW q \in Queries, Ask(q)
  PROVE  QueryInv'
<1>1. ConfigInv' /\ TablesInv'
  BY SameQueryInv DEF Ask
<1>2. db' = db
  BY DEF Ask, vars
<1>3. Direct(query)' = Direct(q)' /\ Inherited(query)' = Inherited(q)'
  BY DEF Ask
<1>4. SteadyInv'
  BY <1>2, <1>3, SameAnswers DEF Ask, SteadyInv, Running, SteadyIsFound, Found,
     Participating
<1>5. RowsInv'
  BY DEF Ask, RowsInv, ProjectIdsDistinct
<1> QED
  BY <1>1, <1>4, <1>5 DEF QueryInv

LEMMA SelectDirectFits ==
  ASSUME QueryInv, SelectDirect
  PROVE  QueryInv'
<1>1. ConfigInv' /\ TablesInv'
  BY SameQueryInv DEF SelectDirect
<1>2. db' = db /\ query' = query /\ steady' = steady /\ rows = {}
      /\ phase' = (IF query.inherited THEN "inherited" ELSE "done")
      /\ phase = "direct" /\ Running
  BY DEF SelectDirect, vars, QueryInv, RowsInv, Running
<1> PICK S \in SUBSET Direct(query) :
           rows' = S /\ broken' = (broken \/ S # Direct(query))
  BY <1>2 DEF SelectDirect, RunQuery
<1>3. Direct(query)' = Direct(query) /\ Inherited(query)' = Inherited(query)
  BY <1>2, SameQuery
<1>4. ~broken' => Found(rows') = Found(Direct(query))
  OBVIOUS
<1>5. steady \subseteq Found(Direct(query)) \cup Found(Inherited(query))
  BY <1>2 DEF QueryInv, SteadyInv, Participating, Found
<1>9. ~query.inherited => Found(Inherited(query)) = {}
  BY DEF Inherited, Found
<1>6. SteadyInv'
  <2>1. Running' => steady' \subseteq Participating(query)'
    BY <1>2, <1>3, <1>5 DEF Participating, Found
  <2>2. Found(Direct(query))' = Found(Direct(query)) /\ Found(rows)' = Found(rows')
    BY <1>3 DEF Found
  <2>3. phase' = "inherited" /\ ~broken' => \A x \in steady' :
          x \in Found(rows)' \/ x \notin Found(Direct(query))'
    BY <1>4, <2>2
  <2>4. SteadyIsFound'
    BY <1>2, <1>4, <1>5, <1>9, <2>2 DEF SteadyIsFound
  <2> QED
    BY <2>1, <2>3, <2>4 DEF SteadyInv
<1>7. query.kind = "members" => DirectRows'
  BY RowFields DEF DirectRows, Direct, DirectMembers, Joined
<1>8. RowsInv'
  BY <1>2, <1>7 DEF RowsInv, ProjectIdsDistinct, DirectRows
<1> QED
  BY <1>1, <1>6, <1>8 DEF QueryInv

LEMMA SelectInheritedFits ==
  ASSUME QueryInv, SelectInherited
  PROVE  QueryInv'
<1>1. ConfigInv' /\ TablesInv'
  BY SameQueryInv DEF SelectInherited
<1>2. /\ db' = db /\ query' = query /\ phase' = "done"
      /\ steady' = steady
      /\ phase = "inherited" /\ Running
  BY DEF SelectInherited, vars, Running
<1> PICK S \in SUBSET Inherited(query) :
           rows' = rows \cup S /\ broken' = (broken \/ S # Inherited(query))
  BY <1>2 DEF SelectInherited, RunQuery
<1>3. SteadyInv'
  <2>1. ~broken' => ~broken /\ S = Inherited(query)
    OBVIOUS
  <2>2. steady \subseteq Found(Direct(query)) \cup Found(Inherited(query))
    BY <1>2 DEF QueryInv, SteadyInv, Participating, Found
  <2>3. ~broken => \A x \in steady :
          x \in Found(rows) \/ x \notin Found(Direct(query))
    BY <1>2 DEF QueryInv, SteadyInv
  <2>4. ~broken' => Found(rows)' = Found(rows) \cup Found(Inherited(query))
    BY <2>1 DEF Found
  <2>5. ~broken' => steady \subseteq Found(rows)'
    BY <2>1, <2>2, <2>3, <2>4
  <2> QED
    BY <1>2, <2>5 DEF SteadyInv, Running, SteadyIsFound
<1>4. ProjectIdsDistinct'
  <2> SUFFICES ASSUME query.kind = "members", NEW r \in rows', NEW s \in rows',
                      r.project # Absent, r.id = s.id, r.project = s.project
               PROVE  r = s
    BY <1>2 DEF ProjectIdsDistinct
  <2>1. r \notin rows /\ s \notin rows
    BY <1>2 DEF QueryInv, RowsInv, DirectRows
  <2>2. r \in InheritedMembers(query.tenant, query.namespace)
        /\ s \in InheritedMembers(query.tenant, query.namespace)
    BY <2>1 DEF Inherited
  <2> QED
    BY <2>2, InheritedMembersDistinct DEF QueryInv
<1>5. RowsInv'
  BY <1>2, <1>4 DEF RowsInv
<1> QED
  BY <1>1, <1>3, <1>5 DEF QueryInv

LEMMA AnswerFits ==
  ASSUME QueryInv, Answer
  PROVE  QueryInv'
<1>1. ConfigInv' /\ TablesInv'
  BY SameQueryInv DEF Answer
<1>2. SteadyInv' /\ RowsInv'
  BY DEF Answer, SteadyInv, Running, SteadyIsFound, RowsInv, ProjectIdsDistinct
<1> QED
  BY <1>1, <1>2 DEF QueryInv

LEMMA ProceedFits ==
  ASSUME QueryInv, Proceed
  PROVE  QueryInv'
<1>1. ConfigInv' /\ TablesInv'
  BY NextFits, NextKeepsTables DEF Proceed, QueryInv
<1>2. SteadyInv'
  <2>1. CASE Running
    <3> DEFINE D == Found(Direct(query))
               P == Participating(query)
    <3>1. /\ query' = query /\ phase' = phase /\ rows' = rows /\ broken' = broken
          /\ phase # "done"
          /\ steady' \subseteq steady \cap P'
          /\ phase = "inherited" => steady' \cap (D' \ D) = {}
      BY <2>1 DEF Proceed, Turned
    <3>2. phase = "inherited" /\ ~broken =>
            \A x \in steady : x \in Found(rows) \/ x \notin D
      BY DEF QueryInv, SteadyInv
    <3>3. Found(rows)' = Found(rows)
      BY <3>1
    <3> HIDE DEF D, P
    <3>4. phase' = "inherited" /\ ~broken' =>
            \A x \in steady' : x \in Found(rows)' \/ x \notin D'
      BY <3>1, <3>2, <3>3
    <3>5. steady' \subseteq P' /\ phase' # "done"
      BY <3>1
    <3> QED
      BY <3>4, <3>5 DEF SteadyInv, SteadyIsFound, D, P
  <2>2. CASE ~Running
    BY <2>2 DEF Proceed, QueryInv, SteadyInv, Running, SteadyIsFound
  <2> QED
    BY <2>1, <2>2
<1>3. RowsInv'
  BY DEF Proceed, QueryInv, RowsInv, ProjectIdsDistinct, DirectRows
<1> QED
  BY <1>1, <1>2, <1>3 DEF QueryInv

LEMMA QueryInvHolds == QuerySpec => []QueryInv
<1>1. QueryInv /\ [QueryNext]_<<vars, queryVars>> => QueryInv'
  <2> SUFFICES ASSUME QueryInv, [QueryNext]_<<vars, queryVars>> PROVE QueryInv'
    OBVIOUS
  <2>1. CASE QueryNext
    BY <2>1, AskFits, SelectDirectFits, SelectInheritedFits, AnswerFits, ProceedFits
      DEF QueryNext
  <2>2. CASE UNCHANGED <<vars, queryVars>>
    <3>1. ConfigInv' /\ TablesInv'
      BY <2>2, SameQueryInv
    <3>2. /\ db' = db /\ query' = query /\ phase' = phase /\ rows' = rows
          /\ broken' = broken /\ steady' = steady
      BY <2>2 DEF vars, queryVars
    <3>3. Direct(query)' = Direct(query) /\ Inherited(query)' = Inherited(query)
      BY <3>2, SameQuery
    <3>4. SteadyInv' /\ RowsInv'
      BY <3>2, <3>3 DEF QueryInv, SteadyInv, SteadyIsFound, Participating, Running, RowsInv,
           ProjectIdsDistinct, DirectRows
    <3> QED
      BY <3>1, <3>4 DEF QueryInv
  <2> QED
    BY <2>1, <2>2
<1> QED
  BY <1>1, InitQueryInv, PTL DEF QuerySpec

(***************************************************************************)
(* The SELECTs of FindParticipatingProjects, FindParticipatingTenants and  *)
(* ListTenantMembers agree with each other on every database.              *)
(***************************************************************************)
THEOREM SelectsAgree == QuerySpec => []QueriesAgree
BY QueriesAgreeAlways, PTL

(***************************************************************************)
(* ListTenantMembers lists no project twice for a member, because no two   *)
(* memberships of a tenant in a project share a namespace.                 *)
(***************************************************************************)
THEOREM NoProjectTwice == QuerySpec => []ProjectIdsDistinct
<1>1. QueryInv => ProjectIdsDistinct
  BY DEF QueryInv, RowsInv
<1> QED
  BY <1>1, QueryInvHolds, PTL

(***************************************************************************)
(* What participates all the time while a query runs is in the answer,     *)
(* directly at one moment and by inheritance at another, too, unless       *)
(* RunQuery broke off, or it began to participate directly between the two *)
(* SELECTs: the second one looks for the participations that are           *)
(* inherited, and the first one for the direct ones.                       *)
(***************************************************************************)
THEOREM SteadyIsAnswered == QuerySpec => []SteadyIsFound
<1>1. QueryInv => SteadyIsFound
  BY DEF QueryInv, SteadyInv
<1> QED
  BY <1>1, QueryInvHolds, PTL
=============================================================================
