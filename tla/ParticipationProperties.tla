---------------------- MODULE ParticipationProperties ----------------------
(***************************************************************************)
(* What the participation queries must answer, as properties of            *)
(* Participation.                                                          *)
(***************************************************************************)
EXTENDS Participation

ProjectsOf(t, n) == Found(DirectProjects(t, n) \cup InheritedProjects(t, n))
TenantsOf(t, n)  == Found(DirectTenants(t, n) \cup InheritedTenants(t, n))
MembersOf(t, n)  == Found(DirectMembers(t, n) \cup InheritedMembers(t, n))

(***************************************************************************)
(* The six SELECTs agree with each other on every database the services    *)
(* can produce, half deleted ones too: t is listed as a member of i        *)
(* exactly when i is listed for t (ListTenantMembers and                   *)
(* FindParticipatingTenants), and the tenants of the projects listed for t *)
(* are listed for t (FindParticipatingProjects).                           *)
(***************************************************************************)
QueriesAgree ==
  \A t \in Stored("tenant"), n \in Namespaces :
    LET tenants == TenantsOf(t, n)
        owners  == {db["project"][p].tenant : p \in ProjectsOf(t, n)}
    IN  /\ {i \in Stored("tenant") : t \in MembersOf(i, n)} = tenants
        /\ owners \cap Stored("tenant") \subseteq tenants

(***************************************************************************)
(* ListTenantMembers appends a project id for each row, and yet lists no   *)
(* project twice for a member: memberships are unique in a namespace.      *)
(***************************************************************************)
ProjectIdsDistinct ==
  query.kind = "members" =>
    \A r, s \in rows : r.project # Absent /\ r.id = s.id /\ r.project = s.project
                         => r = s

(***************************************************************************)
(* What participates all the time while the query runs, directly at one    *)
(* moment and by inheritance at another, is in the answer, unless a SELECT *)
(* broke off. Excepted is what begins to participate directly between the  *)
(* two SELECTs: when it ceases to do so by inheritance before the second   *)
(* one, neither of them finds it, although it participated at every        *)
(* moment.                                                                 *)
(***************************************************************************)
SteadyIsFound == phase = "done" /\ ~broken => steady \subseteq Found(rows)

(***************************************************************************)
(* "FindParticipatingProjects returns all projects in which a member       *)
(* participates": those, at least, in which it does so all the time.  Not  *)
(* so when a SELECT breaks off.                                            *)
(***************************************************************************)
AllAreReturned == phase = "done" => steady \subseteq Found(rows)
=============================================================================
