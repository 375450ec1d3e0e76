--------------------------- MODULE Participation ---------------------------
(***************************************************************************)
(* The participation queries of the tenant service, pkg/service/tenant.go: *)
(* FindParticipatingProjects, FindParticipatingTenants, ListTenantMembers. *)
(* Each is one or two SELECTs that join memberships with tenants and       *)
(* projects, and a map in which their rows are merged by entity.  No       *)
(* transaction spans the SELECTs: the requests of Tenancy run in between.  *)
(*                                                                         *)
(* One query at a time is enough, for queries change nothing.  Annotations *)
(* are left out.                                                           *)
(***************************************************************************)
EXTENDS Tenancy

CONSTANT Queries  \* the queries clients may send

Query == [kind : {"projects", "tenants", "members"}, tenant : Ids["tenant"],
          namespace : Namespaces, inherited : BOOLEAN]

ASSUME QueriesAreQueries == Queries \subseteq Query

-----------------------------------------------------------------------------
(***************************************************************************)
(* The SELECTs.  A row has the id of the tenant or project it is about,    *)
(* the membership it comes from, and the project, where that is selected.  *)
(***************************************************************************)
Row(i, m, p) == [id |-> i, via |-> m, project |-> p]

Memberships(k, f, i, n) == {m \in Referring(k, f, i) : db[k][m].namespace = n}

\* JOIN ... ON id: rows about entities that are not stored drop out.
Joined(k, R) == {r \in R : r.id \in Stored(k)}

ProjectOf(m) == db["projectmember"][m].project

DirectProjects(t, n) ==
  Joined("project", {Row(ProjectOf(m), m, Absent) :
                       m \in Memberships("projectmember", "tenant", t, n)})

InheritedProjects(t, n) ==
  UNION {{Row(p, m, Absent) :
            p \in Referring("project", "tenant", db["tenantmember"][m].tenant)} :
         m \in Memberships("tenantmember", "member", t, n)}

\* Mutation: the two sides of the membership are mixed up.
DirectTenantsSwapped(t, n) ==
  Joined("tenant", {Row(db["tenantmember"][m].member, m, Absent) :
                      m \in Memberships("tenantmember", "tenant", t, n)})

DirectTenants(t, n) ==
  Joined("tenant", {Row(db["tenantmember"][m].tenant, m, Absent) :
                      m \in Memberships("tenantmember", "member", t, n)})

InheritedTenants(t, n) ==
  Joined("tenant",
         {Row(db["project"][ProjectOf(m)].tenant, m, Absent) :
            m \in {m \in Memberships("projectmember", "tenant", t, n) :
                     ProjectOf(m) \in Stored("project")}})

DirectMembers(t, n) ==
  Joined("tenant", {Row(db["tenantmember"][m].member, m, Absent) :
                      m \in Memberships("tenantmember", "tenant", t, n)})

\* Mutation: the namespace is not compared.
InheritedMembersAnywhere(t, n) ==
  Joined("tenant",
         UNION {{Row(db["projectmember"][m].tenant, m, p) :
                   m \in Referring("projectmember", "project", p)} :
                p \in Referring("project", "tenant", t)})

InheritedMembers(t, n) ==
  Joined("tenant",
         UNION {{Row(db["projectmember"][m].tenant, m, p) :
                   m \in Memberships("projectmember", "project", p, n)} :
                p \in Referring("project", "tenant", t)})

Direct(q) ==
  CASE q.kind = "projects" -> DirectProjects(q.tenant, q.namespace)
    [] q.kind = "tenants"  -> DirectTenants(q.tenant, q.namespace)
    [] q.kind = "members"  -> DirectMembers(q.tenant, q.namespace)

\* Asked only when the query includes inherited participations.
Inherited(q) ==
  IF ~q.inherited THEN {}
  ELSE CASE q.kind = "projects" -> InheritedProjects(q.tenant, q.namespace)
         [] q.kind = "tenants"  -> InheritedTenants(q.tenant, q.namespace)
         [] q.kind = "members"  -> InheritedMembers(q.tenant, q.namespace)

\* The keys of the result map.
Found(R) == {r.id : r \in R}

Participating(q) == Found(Direct(q) \cup Inherited(q))

-----------------------------------------------------------------------------
VARIABLES
  query,   \* the query that runs or was answered last
  phase,   \* "idle", the SELECT that is next, or "done"
  rows,    \* the rows merged into the result map
  broken,  \* a SELECT broke off before its last row (auxiliary)
  steady   \* what participated at every moment of the query, directly or not,
           \* but for what has Turned (auxiliary)

queryVars == <<query, phase, rows, broken, steady>>

NoQuery == [kind |-> "none"]

QueryInit ==
  /\ query = NoQuery
  /\ phase = "idle"
  /\ rows = {}
  /\ broken = FALSE
  /\ steady = {}

Running == phase \in {"direct", "inherited"}

Ask(q) ==
  /\ phase = "idle"
  /\ query' = q
  /\ phase' = "direct"
  /\ rows' = {}
  /\ broken' = FALSE
  /\ steady' = Participating(q)
  /\ UNCHANGED vars

(***************************************************************************)
(* RunQuery calls resultFn for each row.  Its loop ends when rows.Next()   *)
(* says FALSE, after the last row and after an error alike.                *)
(***************************************************************************)
RunQuery(R, before) ==
  \E S \in SUBSET R :
    /\ rows' = before \cup S
    /\ broken' = (broken \/ S # R)

SelectDirect ==
  /\ phase = "direct"
  /\ RunQuery(Direct(query), rows)
  /\ phase' = IF query.inherited THEN "inherited" ELSE "done"
  /\ UNCHANGED <<vars, query, steady>>

\* Mutation: the second SELECT starts with a new result map.
SelectInheritedAnew ==
  /\ phase = "inherited"
  /\ RunQuery(Inherited(query), {})
  /\ phase' = "done"
  /\ UNCHANGED <<vars, query, steady>>

SelectInherited ==
  /\ phase = "inherited"
  /\ RunQuery(Inherited(query), rows)
  /\ phase' = "done"
  /\ UNCHANGED <<vars, query, steady>>

\* The answer is sent, or an error when a SELECT or resultFn fails.
Answer ==
  /\ phase # "idle"
  /\ query' = NoQuery
  /\ phase' = "idle"
  /\ rows' = {}
  /\ broken' = FALSE
  /\ steady' = {}
  /\ UNCHANGED vars

\* What begins to participate directly between the two SELECTs.
Turned ==
  IF phase = "inherited" THEN Found(Direct(query))' \ Found(Direct(query)) ELSE {}

\* A step of a request; what it takes away was not there all the time.  (An
\* answer that is complete is sent before it: no other step can change it.)
Proceed ==
  /\ phase # "done"
  /\ Next
  /\ UNCHANGED <<query, phase, rows, broken>>
  /\ steady' = IF Running
               THEN (steady \cap Participating(query)') \ Turned ELSE steady

QueryNext == \/ \E q \in Queries : Ask(q)
             \/ SelectDirect \/ SelectInherited \/ Answer
             \/ Proceed

QuerySpec == Init /\ QueryInit /\ [][QueryNext]_<<vars, queryVars>>
=============================================================================
