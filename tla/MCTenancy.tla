----------------------------- MODULE MCTenancy -----------------------------
(***************************************************************************)
(* Instances of Tenancy for TLC: the ids of each kind of entity, and the   *)
(* services that get requests.                                             *)
(***************************************************************************)
EXTENDS TenancyProperties, TLC

CONSTANTS Tenants, TenantMembers, TenantConfigs,
          Projects, ProjectMembers, ProjectConfigs,
          Neighbours  \* those of the tenants that have nothing but configs

IdsOfKinds == [tenant |-> Tenants, tenantmember |-> TenantMembers,
               tenantconfig |-> TenantConfigs, project |-> Projects,
               projectmember |-> ProjectMembers, projectconfig |-> ProjectConfigs]

Creates(k) == [service : {k}, method : {"create"}, id : Ids[k] \cup {NoId},
               doc : Documents[k]]
Updates(k) == [service : {k}, method : {"update"}, id : Ids[k], doc : Documents[k]]
Deletes(k) == [service : {k}, method : {"delete"}, id : Ids[k], doc : {NoDocument}]

AllOf(k) == Creates(k) \cup Updates(k) \cup Deletes(k)

\* The services whose entities the instance has.
AllRequests == UNION {AllOf(k) : k \in Kinds}

\* Clients choose the ids they may choose.
Named == {q \in AllRequests : q.id = NoId => q.service \in Configs}

(***************************************************************************)
(* What can race: the requests that change what is stored, and the updates *)
(* of tenant configs, which could change a reference if an id were used    *)
(* twice.  The neighbours are not deleted.                                 *)
(***************************************************************************)
Neighbourly(q) ==
  IF q.service = "tenant"
  THEN q.id \in Neighbours => q.method = "create"
  ELSE q.service # "tenantconfig" =>
         \A f \in DOMAIN q.doc : q.doc[f] \notin Neighbours

Races == {q \in Named : /\ q.method = "update" => q.service = "tenantconfig"
                        /\ Neighbourly(q)}

Symmetric == Permutations(Handlers)

SymmetricAll == Permutations(Handlers) \cup Permutations(Tenants)
=============================================================================
