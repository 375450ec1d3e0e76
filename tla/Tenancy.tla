------------------------------ MODULE Tenancy ------------------------------
(***************************************************************************)
(* The services of pkg/service on top of the storage layer: what keeps     *)
(* tenants, projects, their members and their configs consistent with each *)
(* other.  A service method is a sequence of calls to the stores, and no   *)
(* transaction spans two of them: other requests run in between, and a     *)
(* failure or a crash ends a method wherever it is.                        *)
(*                                                                         *)
(* A call to a store is one step here (Datastore shows how it is made of   *)
(* smaller ones and that it takes effect in one transaction or not at all).*)
(* A document is reduced to the fields that the services compare or look   *)
(* up.  Its version is left out: an Update may be refused for it at any    *)
(* time.                                                                   *)
(***************************************************************************)
EXTENDS Naturals, Sequences, FiniteSets

CONSTANTS
  Handlers,    \* the goroutines that run requests
  Ids,         \* Ids[k] are the ids of entities of kind k
  Namespaces,  \* the namespaces of memberships
  Requests,    \* the requests clients may send
  NoId,        \* a creation that leaves the id to the server
  Absent       \* no document is stored under an id

Kinds == {"tenant", "tenantmember", "tenantconfig",
          "project", "projectmember", "projectconfig"}

Members == {"tenantmember", "projectmember"}
Configs == {"tenantconfig", "projectconfig"}

\* The fields of a document.  An update may change none of them.
Fields == [tenant        |-> {},
           tenantmember  |-> {"tenant", "member", "namespace"},
           tenantconfig  |-> {"tenant"},
           project       |-> {"tenant"},
           projectmember |-> {"project", "tenant", "namespace"},
           projectconfig |-> {"project"}]

\* The kind of entity a field refers to.
Target == [tenant |-> "tenant", member |-> "tenant", project |-> "project"]

Domain(f) == IF f = "namespace" THEN Namespaces ELSE Ids[Target[f]]

Documents ==
  [k \in Kinds |-> {d \in [Fields[k] -> UNION {Domain(f) : f \in Fields[k]}] :
                     \A f \in Fields[k] : d[f] \in Domain(f)}]

NoDocument == <<>>

ASSUME AbsentIsNoDocument == \A k \in Kinds : Absent \notin Documents[k]

(***************************************************************************)
(* A request: the service (named by its kind of entity), the method, and   *)
(* the id and the document it carries.                                     *)
(***************************************************************************)
IsRequest(q) ==
  /\ q.service \in Kinds
  /\ q.method \in {"create", "update", "delete"}
  /\ q.id \in Ids[q.service] \cup {NoId}
  /\ q.method # "create" => q.id # NoId
  /\ q.doc \in IF q.method = "delete" THEN {NoDocument} ELSE Documents[q.service]

ASSUME RequestsAreCalls == \A q \in Requests : IsRequest(q)

-----------------------------------------------------------------------------
(***************************************************************************)
(* The methods as sequences of calls to the stores.                        *)
(***************************************************************************)
Call(c, k, f) == [call |-> c, kind |-> k, field |-> f]

WithoutId      == Call("noId", "none", "none")   \* the request has no id
Check(f)       == Call("check", Target[f], f)    \* Get the entity f refers to
ReadOld(k)     == Call("old", k, "none")         \* Get, and compare the fields
Find(k, f)     == Call("find", k, f)             \* the entities with f = id
DeleteFound(k) == Call("deleteAll", k, "none")   \* DeleteAll of those found
Create(k)      == Call("create", k, "none")
Update(k)      == Call("update", k, "none")
Delete(k)      == Call("delete", k, "none")

TenantCreate == <<Create("tenant")>>
TenantUpdate == <<Update("tenant")>>

\* Mutation: the tenant is deleted first.
TenantDeleteFirst ==
  <<Delete("tenant"),
    Find("tenantmember", "tenant"), Find("tenantmember", "member"),
    DeleteFound("tenantmember"),
    Find("tenantconfig", "tenant"), DeleteFound("tenantconfig")>>

\* Mutation: the memberships of the tenant in other tenants are forgotten.
TenantDeleteHostOnly ==
  <<Find("tenantmember", "tenant"), DeleteFound("tenantmember"),
    Find("tenantconfig", "tenant"), DeleteFound("tenantconfig"),
    Delete("tenant")>>

TenantDelete ==
  <<Find("tenantmember", "tenant"), Find("tenantmember", "member"),
    DeleteFound("tenantmember"),
    Find("tenantconfig", "tenant"), DeleteFound("tenantconfig"),
    Delete("tenant")>>

TenantMemberCreate ==
  <<Check("tenant"), Check("member"), Create("tenantmember")>>

TenantMemberUpdate == <<ReadOld("tenantmember"), Update("tenantmember")>>
TenantMemberDelete == <<Delete("tenantmember")>>

\* Mutation: clients may choose the id of a config.
TenantConfigCreateAny == <<Check("tenant"), Create("tenantconfig")>>

TenantConfigCreate == <<WithoutId, Check("tenant"), Create("tenantconfig")>>
TenantConfigUpdate == <<ReadOld("tenantconfig"), Update("tenantconfig")>>
TenantConfigDelete == <<Delete("tenantconfig")>>

ProjectCreate == <<Check("tenant"), Create("project")>>

\* Mutation: the tenant of the stored project is not compared.
ProjectUpdateUnread == <<Update("project")>>

ProjectUpdate == <<ReadOld("project"), Update("project")>>

ProjectDelete ==
  <<Find("projectmember", "project"), DeleteFound("projectmember"),
    Find("projectconfig", "project"), DeleteFound("projectconfig"),
    Delete("project")>>

ProjectMemberCreate ==
  <<Check("tenant"), Check("project"), Create("projectmember")>>
ProjectMemberUpdate == <<ReadOld("projectmember"), Update("projectmember")>>
ProjectMemberDelete == <<Delete("projectmember")>>

ProjectConfigCreate == <<WithoutId, Check("project"), Create("projectconfig")>>
ProjectConfigUpdate == <<ReadOld("projectconfig"), Update("projectconfig")>>
ProjectConfigDelete == <<Delete("projectconfig")>>

Methods ==
  [tenant        |-> [create |-> TenantCreate, update |-> TenantUpdate,
                      delete |-> TenantDelete],
   tenantmember  |-> [create |-> TenantMemberCreate,
                      update |-> TenantMemberUpdate,
                      delete |-> TenantMemberDelete],
   tenantconfig  |-> [create |-> TenantConfigCreate,
                      update |-> TenantConfigUpdate,
                      delete |-> TenantConfigDelete],
   project       |-> [create |-> ProjectCreate, update |-> ProjectUpdate,
                      delete |-> ProjectDelete],
   projectmember |-> [create |-> ProjectMemberCreate,
                      update |-> ProjectMemberUpdate,
                      delete |-> ProjectMemberDelete],
   projectconfig |-> [create |-> ProjectConfigCreate,
                      update |-> ProjectConfigUpdate,
                      delete |-> ProjectConfigDelete]]

-----------------------------------------------------------------------------
VARIABLES
  db,     \* db[k][i] is the document of kind k stored under id i, or Absent
  used,   \* used[k] are the ids of kind k ever stored (a UUID is a new one)
  req,    \* the request a handler works on
  todo,   \* the calls its method has yet to make
  found,  \* the ids collected for the next DeleteAll
  named,  \* how many ids DeleteAll will be called with
  reply,  \* the answer to its last request
  alone   \* no other handler changed db since its request began (auxiliary)

locals == <<req, todo, found, named, reply>>
vars == <<db, used, locals, alone>>

Answers == {"none", "ok", "invalid", "notfound", "conflict", "internal", "error"}

NoRequest == [service |-> "none", method |-> "none", id |-> NoId,
              doc |-> NoDocument]

AllIds == UNION {Ids[k] : k \in Kinds}

TypeOK ==
  /\ \A k \in Kinds : db[k] \in [Ids[k] -> Documents[k] \cup {Absent}]
  /\ \A k \in Kinds : used[k] \subseteq Ids[k]
  /\ \A h \in Handlers : req[h] = NoRequest \/ IsRequest(req[h])
  /\ \A h \in Handlers : Len(todo[h]) <= 6
  /\ found \in [Handlers -> SUBSET AllIds]
  /\ named \in [Handlers -> Nat]
  /\ reply \in [Handlers -> Answers]
  /\ alone \in [Handlers -> BOOLEAN]

Init ==
  /\ db = [k \in Kinds |-> [i \in Ids[k] |-> Absent]]
  /\ used = [k \in Kinds |-> {}]
  /\ req = [h \in Handlers |-> NoRequest]
  /\ todo = [h \in Handlers |-> <<>>]
  /\ found = [h \in Handlers |-> {}]
  /\ named = [h \in Handlers |-> 0]
  /\ reply = [h \in Handlers |-> "none"]
  /\ alone = [h \in Handlers |-> TRUE]

Stored(k) == {i \in Ids[k] : db[k][i] # Absent}

Active(h) == todo[h] # <<>>

\* h is about to make the call c.
At(h, c) == Active(h) /\ Head(todo[h]).call = c
Kind(h) == Head(todo[h]).kind
Field(h) == Head(todo[h]).field

Continue(h) ==
  /\ todo' = [todo EXCEPT ![h] = Tail(@)]
  /\ UNCHANGED <<req, reply>>

Return(h, a) ==
  /\ req' = [req EXCEPT ![h] = NoRequest]
  /\ todo' = [todo EXCEPT ![h] = <<>>]
  /\ found' = [found EXCEPT ![h] = {}]
  /\ named' = [named EXCEPT ![h] = 0]
  /\ reply' = [reply EXCEPT ![h] = a]

\* The answer a ends the method, and no table was changed.
Refuse(h, a) ==
  /\ Return(h, a)
  /\ UNCHANGED <<db, used, alone>>

Change(h, k, table) ==
  /\ db' = [db EXCEPT ![k] = table]
  /\ used' = [used EXCEPT ![k] = @ \cup {i \in Ids[k] : table[i] # Absent}]
  /\ alone' = [g \in Handlers |-> g = h /\ alone[g]]

(***************************************************************************)
(* A request arrives.                                                      *)
(***************************************************************************)
Begin(h, q) ==
  /\ ~Active(h)
  /\ req' = [req EXCEPT ![h] = q]
  /\ todo' = [todo EXCEPT ![h] = Methods[q.service][q.method]]
  /\ reply' = [reply EXCEPT ![h] = "none"]
  /\ alone' = [alone EXCEPT ![h] = TRUE]
  /\ UNCHANGED <<db, used, found, named>>

(***************************************************************************)
(* The calls before the last one.                                          *)
(***************************************************************************)
CheckNoId(h) ==
  /\ At(h, "noId")
  /\ \/ /\ req[h].id # NoId
        /\ Refuse(h, "invalid")
     \/ /\ req[h].id = NoId
        /\ Continue(h)
        /\ UNCHANGED <<db, used, alone, found, named>>

CheckReference(h) ==
  /\ At(h, "check")
  /\ \/ /\ req[h].doc[Field(h)] \notin Stored(Kind(h))
        /\ Refuse(h, "notfound")
     \/ /\ req[h].doc[Field(h)] \in Stored(Kind(h))
        /\ Continue(h)
        /\ UNCHANGED <<db, used, alone, found, named>>

CompareOld(h) ==
  /\ At(h, "old")
  /\ \/ /\ req[h].id \notin Stored(Kind(h))
        /\ Refuse(h, "notfound")
     \/ /\ req[h].id \in Stored(Kind(h))
        /\ db[Kind(h)][req[h].id] # req[h].doc
        /\ Refuse(h, "invalid")
     \/ /\ req[h].id \in Stored(Kind(h))
        /\ db[Kind(h)][req[h].id] = req[h].doc
        /\ Continue(h)
        /\ UNCHANGED <<db, used, alone, found, named>>

Referring(k, f, i) == {j \in Stored(k) : db[k][j][f] = i}

\* Mutation: the two lists of memberships are appended.
FindAppending(h) ==
  /\ At(h, "find")
  /\ LET F == Referring(Kind(h), Field(h), req[h].id)
     IN  /\ found' = [found EXCEPT ![h] = @ \cup F]
         /\ named' = [named EXCEPT ![h] = @ + Cardinality(F)]
  /\ Continue(h)
  /\ UNCHANGED <<db, used, alone>>

\* The ids that are found are collected in a set: unionMap in the deletion of
\* a tenant, the result of a single query elsewhere.
FindReferring(h) ==
  /\ At(h, "find")
  /\ found' = [found EXCEPT ![h] = @ \cup Referring(Kind(h), Field(h), req[h].id)]
  /\ named' = [named EXCEPT ![h] = Cardinality(found'[h])]
  /\ Continue(h)
  /\ UNCHANGED <<db, used, alone>>

(***************************************************************************)
(* DeleteAll, which is not called without ids.  It deletes all the rows it *)
(* was called with or none: it answers NotFound when one of its reads      *)
(* misses, Internal when its statement deletes another number of rows than *)
(* it was called with.                                                     *)
(***************************************************************************)
SkipDeleteAll(h) ==
  /\ At(h, "deleteAll") /\ found[h] = {}
  /\ Continue(h)
  /\ UNCHANGED <<db, used, alone, found, named>>

DeleteAllFound(h) ==
  /\ At(h, "deleteAll") /\ found[h] # {}
  /\ LET k == Kind(h)
         rows == found[h] \cap Stored(k)
     IN  \/ /\ Cardinality(rows) = named[h]
            /\ Change(h, k, [i \in Ids[k] |-> IF i \in rows THEN Absent
                                              ELSE db[k][i]])
            /\ found' = [found EXCEPT ![h] = {}]
            /\ named' = [named EXCEPT ![h] = 0]
            /\ Continue(h)
         \/ /\ Cardinality(rows) # named[h]
            /\ Refuse(h, "internal")
         \/ /\ rows # found[h]
            /\ Refuse(h, "notfound")

(***************************************************************************)
(* The last call of a method.  The answer a is "ok", or "error" when the   *)
(* call took effect and its answer got lost or the server crashed.         *)
(***************************************************************************)
\* The unique indexes on memberships.
Clashes(k, i, d) ==
  k \in Members /\ \E j \in Stored(k) \ {i} : db[k][j] = d

StoreCreate(h, a) ==
  /\ At(h, "create")
  /\ LET k == Kind(h)
     IN  \E i \in Ids[k] :
           /\ IF req[h].id = NoId THEN i \notin used[k] ELSE i = req[h].id
           /\ \/ /\ i \in Stored(k) \/ Clashes(k, i, req[h].doc)
                 /\ Refuse(h, "conflict")
              \/ /\ i \notin Stored(k) /\ ~Clashes(k, i, req[h].doc)
                 /\ Change(h, k, [db[k] EXCEPT ![i] = req[h].doc])
                 /\ Return(h, a)

StoreUpdate(h, a) ==
  /\ At(h, "update")
  /\ LET k == Kind(h)
         i == req[h].id
     IN  \/ /\ i \notin Stored(k)
            /\ Refuse(h, "notfound")
         \/ /\ i \in Stored(k)          \* an outdated version
            /\ Refuse(h, "conflict")
         \/ /\ i \in Stored(k) /\ Clashes(k, i, req[h].doc)
            /\ Refuse(h, "error")
         \/ /\ i \in Stored(k) /\ ~Clashes(k, i, req[h].doc)
            /\ Change(h, k, [db[k] EXCEPT ![i] = req[h].doc])
            /\ Return(h, a)

\* Mutation: the row of a deleted entity is kept, without a document.
StoreEmpty(h, a) ==
  /\ At(h, "delete") /\ req[h].id \in Stored(Kind(h))
  /\ Change(h, Kind(h), [db[Kind(h)] EXCEPT ![req[h].id] = NoDocument])
  /\ Return(h, a)

StoreDelete(h, a) ==
  /\ At(h, "delete")
  /\ LET k == Kind(h)
         i == req[h].id
     IN  \/ /\ i \notin Stored(k)
            /\ Refuse(h, "notfound")
         \/ /\ i \in Stored(k)
            /\ Change(h, k, [db[k] EXCEPT ![i] = Absent])
            /\ Return(h, a)

\* A call to a store fails without effect, or the server crashes.
Fail(h) ==
  /\ Active(h)
  /\ Refuse(h, "error")

Step(h) ==
  \/ CheckNoId(h) \/ CheckReference(h) \/ CompareOld(h)
  \/ FindReferring(h) \/ SkipDeleteAll(h) \/ DeleteAllFound(h)
  \/ \E a \in {"ok", "error"} :
       StoreCreate(h, a) \/ StoreUpdate(h, a) \/ StoreDelete(h, a)

Next == \E h \in Handlers : \/ \E q \in Requests : Begin(h, q)
                            \/ Step(h)
                            \/ Fail(h)

Spec == Init /\ [][Next]_vars
=============================================================================
