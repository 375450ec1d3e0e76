------------------------- MODULE TenancyProperties -------------------------
(***************************************************************************)
(* What the services must keep, as properties of Tenancy.                  *)
(***************************************************************************)
EXTENDS Tenancy

\* The entities whose deletion takes along the documents of kind k.
Owners == [tenantmember  |-> {"tenant", "member"},
           tenantconfig  |-> {"tenant"},
           projectmember |-> {"project"},
           projectconfig |-> {"project"}]

\* Some document of an owned kind refers to the entity i by its field f.
Owns(f, i) == \E k \in DOMAIN Owners :
                f \in Owners[k] /\ \E j \in Stored(k) : db[k][j][f] = i

(***************************************************************************)
(* Requests run as if they were isolated: one that changes what is stored  *)
(* does so only if no other has since it began.  Others may run meanwhile, *)
(* fail, and crash anywhere.  Nothing in the code sees to that.            *)
(***************************************************************************)
Isolated == db' # db => \E h \in Handlers : alone'[h]

IsolatedSpec == Init /\ [][Next /\ Isolated]_vars

(***************************************************************************)
(* No membership and no config outlives its owner: the tenant, the member  *)
(* tenant or the project it belongs to is stored.  The deletions cascade   *)
(* from the dependent tables to the owner, so that this holds between any  *)
(* two of their calls too, and after a crash there.  It holds for requests *)
(* that are isolated (Create checks, then creates).                        *)
(***************************************************************************)
NothingOrphaned ==
  \A k \in DOMAIN Owners : \A j \in Stored(k) : \A f \in Owners[k] :
    db[k][j][f] \in Stored(Target[f])

(***************************************************************************)
(* DeleteAll answers "data corruption" (Internal) only when another        *)
(* request changed the data meanwhile: the services call it with ids that  *)
(* are there, and with each of them once, although a tenant that is a      *)
(* member of itself is found by two queries.                               *)
(***************************************************************************)
NoCorruptionAnswered == \A h \in Handlers : alone[h] => reply[h] # "internal"

(***************************************************************************)
(* The references of a stored document never change ("update tenant of     *)
(* project is not allowed", "updating the tenant id of a tenant member is  *)
(* not allowed"): only deleting it and creating it again gives it others.  *)
(* It holds for requests that are isolated (Update compares, then writes). *)
(***************************************************************************)
KeepsReferences(k) ==
  \A i \in Stored(k) : db'[k][i] \in {db[k][i], Absent}

ReferencesKept == [][\A k \in Kinds : KeepsReferences(k)]_vars

(***************************************************************************)
(* The inductive invariant of all requests.  Each call that a request has  *)
(* made established something, and that holds until its last call if the   *)
(* request is alone, because nobody else changed the tables.               *)
(***************************************************************************)
Method(h) == Methods[req[h].service][req[h].method]

\* What the m-th call has established for the n-th.
Establishes(h, m, n) ==
  LET c == Method(h)[m]
  IN  /\ c.call = "check" => req[h].doc[c.field] \in Stored(c.kind)
      /\ c.call = "old" => /\ req[h].id \in Stored(c.kind)
                           /\ db[c.kind][req[h].id] = req[h].doc
      /\ c.call = "find" =>
           Referring(c.kind, c.field, req[h].id) \subseteq
             IF \E l \in m + 1 .. n - 1 : Method(h)[l].call = "deleteAll"
             THEN {} ELSE found[h]

\* The n-th call of M is the next one to DeleteAll from the l-th on.
NextDeletion(M, l, n) ==
  M[n].call = "deleteAll" /\ \A m \in l .. n - 1 : M[m].call # "deleteAll"

\* What is found is stored in the table it will be deleted from.
FoundStands(h, n) ==
  \A m \in n .. Len(Method(h)) :
    NextDeletion(Method(h), n, m) => found[h] \subseteq Stored(Method(h)[m].kind)

AtCall(h, n) ==
  /\ todo[h] = SubSeq(Method(h), n, Len(Method(h)))
  /\ alone[h] => (\A m \in 1 .. n - 1 : Establishes(h, m, n)) /\ FoundStands(h, n)

RequestStands(h) ==
  /\ named[h] = Cardinality(found[h])
  /\ ~Active(h) => found[h] = {}
  /\ Active(h) => /\ IsRequest(req[h])
                  /\ \E n \in 1 .. Len(Method(h)) : AtCall(h, n)

TablesHoldDocuments ==
  /\ DOMAIN db = Kinds
  /\ \A k \in Kinds : db[k] \in [Ids[k] -> Documents[k] \cup {Absent}]

RequestsInv ==
  /\ TablesHoldDocuments /\ NoCorruptionAnswered
  /\ DOMAIN req = Handlers /\ DOMAIN todo = Handlers /\ DOMAIN found = Handlers
  /\ DOMAIN named = Handlers /\ DOMAIN reply = Handlers
  /\ alone \in [Handlers -> BOOLEAN]
  /\ \A h \in Handlers : RequestStands(h)

(***************************************************************************)
(* The references of configs never change even when requests overlap,      *)
(* because no config id is ever used again: it is the server that chooses  *)
(* them (tenantConfigService.Create, projectConfigService.Create).         *)
(***************************************************************************)
ConfigReferencesKept == [][\A k \in Configs : KeepsReferences(k)]_vars

(***************************************************************************)
(* The inductive invariant behind it.  What is stored was stored under an  *)
(* id that is used; a method writes to the table of its own service only;  *)
(* a creation of a config has no id once that is checked; and an update of *)
(* a config that has read the config carries what is stored, or nothing is *)
(* stored any more (and nothing will be, under an id that is used).        *)
(***************************************************************************)
TablesFit ==
  /\ DOMAIN db = Kinds /\ DOMAIN used = Kinds
  /\ \A k \in Kinds : /\ DOMAIN db[k] = Ids[k]
                       /\ Stored(k) \subseteq used[k] /\ used[k] \subseteq Ids[k]

UpdateStands(h) ==
  /\ req[h].id \in used[req[h].service]
  /\ db[req[h].service][req[h].id] \in {req[h].doc, Absent}

\* The calls a method may make for the request q.
CallsFor(q) ==
  {c \in [call  : {"noId", "check", "old", "find", "deleteAll",
                   "create", "update", "delete"},
          kind  : Kinds \cup {"none"},
          field : DOMAIN Target \cup {"none"}] :
     /\ c.call # "noId" => c.kind # "none"
     /\ c.call \in {"create", "update"} => c.kind = q.service /\ c.call = q.method}

ConfigFits(h) ==
  Active(h) =>
    /\ IsRequest(req[h])
    /\ todo[h] \in Seq(CallsFor(req[h]))
    /\ req[h].service \in Configs /\ req[h].method = "create" =>
         req[h].id = NoId \/ At(h, "noId")
    /\ req[h].service \in Configs /\ req[h].method = "update" =>
         UpdateStands(h) \/ (At(h, "old") /\ Kind(h) = req[h].service)

ConfigInv ==
  /\ TablesFit
  /\ DOMAIN req = Handlers /\ DOMAIN todo = Handlers
  /\ \A h \in Handlers : ConfigFits(h)

(***************************************************************************)
(* Deleting a tenant or a project leaves nothing behind, whatever is there *)
(* before it, if no other request changes the data while it runs: it also  *)
(* removes what an overlapping creation or a crashed deletion left, so it  *)
(* can be repeated until it succeeds or answers NotFound.                  *)
(***************************************************************************)
\* The deletion of the entity i of kind k ends with one of the answers.
DeletionEnds(h, k, i, answers) ==
  /\ req[h].service = k /\ req[h].method = "delete" /\ req[h].id = i
  /\ Active(h) /\ todo'[h] = <<>> /\ reply'[h] \in answers

Gone(k, i) == /\ i \notin Stored(k)
              /\ \A f \in DOMAIN Target : Target[f] = k => ~Owns(f, i)

DeletionAloneCleans ==
  [][\A h \in Handlers, k \in {"tenant", "project"} : \A i \in Ids[k] :
       DeletionEnds(h, k, i, {"ok", "notfound"}) /\ alone[h] => Gone(k, i)']_vars

(***************************************************************************)
(* A deletion that succeeds leaves nothing behind, whatever else runs      *)
(* (TestDeleteTenantDeletesTenantConfigs, tenantconfig_test.go).           *)
(***************************************************************************)
DeletionCleans ==
  [][\A h \in Handlers, k \in {"tenant", "project"} : \A i \in Ids[k] :
       DeletionEnds(h, k, i, {"ok"}) => Gone(k, i)']_vars
=============================================================================
