--------------------------- MODULE Tenancy_proofs ---------------------------
(***************************************************************************)
(* For any number of handlers, ids and requests: the references of stored  *)
(* configs never change, however requests overlap, fail or crash.          *)
(***************************************************************************)
EXTENDS TenancyProperties, TLAPS

\* The next call of h is past the checks that ConfigFits speaks of.
Ready(h) ==
  req[h].service \in Configs =>
    /\ req[h].method = "create" => req[h].id = NoId
    /\ req[h].method = "update" => UpdateStands(h)

\* What a step does to the tables: ids stay used, and the config under an id
\* that is used stays as it is or is deleted.
TablesStep ==
  /\ TablesFit'
  /\ \A k \in Kinds : used[k] \subseteq used'[k]
  /\ \A k \in Configs : \A j \in used[k] : db'[k][j] \in {db[k][j], Absent}

LEMMA CallIsFor ==
  ASSUME NEW q,
         NEW c \in {"noId", "check", "old", "find", "deleteAll",
                    "create", "update", "delete"},
         NEW k \in Kinds \cup {"none"},
         NEW f \in {"tenant", "member", "project", "none"},
         c # "noId" => k # "none",
         c \in {"create", "update"} => k = q.service /\ c = q.method
  PROVE  Call(c, k, f) \in CallsFor(q)
<1> DEFINE r == [call |-> c, kind |-> k, field |-> f]
<1>1. r \in [call  : {"noId", "check", "old", "find", "deleteAll",
                      "create", "update", "delete"},
             kind  : Kinds \cup {"none"},
             field : DOMAIN Target \cup {"none"}]
  BY DEF Target
<1>2. r.call = c /\ r.kind = k
  OBVIOUS
<1> HIDE DEF r
<1>3. r \in CallsFor(q)
  BY <1>1, <1>2 DEF CallsFor
<1> QED
  BY <1>3 DEF r, Call

(***************************************************************************)
(* Every method of Methods writes to the table of its own service only.    *)
(* Creations of configs start with the check that there is no id, updates  *)
(* of configs by reading the config.                                       *)
(***************************************************************************)
\* How the method of a request for a config starts.
StartsFor(q, M) ==
  q.service \in Configs =>
    /\ q.method = "create" => Head(M).call = "noId"
    /\ q.method = "update" => Head(M).call = "old" /\ Head(M).kind = q.service

LEMMA MethodsFit ==
  ASSUME NEW q, IsRequest(q)
  PROVE  LET M == Methods[q.service][q.method]
         IN  M \in Seq(CallsFor(q)) /\ M # <<>> /\ StartsFor(q, M)
<1> DEFINE C == CallsFor(q)
           M == Methods[q.service][q.method]
<1>1. \A k \in Kinds : /\ Find(k, "tenant") \in C /\ Find(k, "member") \in C
                      /\ Find(k, "project") \in C
  BY CallIsFor DEF Find, Kinds
<1>2. WithoutId \in C
        /\ \A k \in Kinds : DeleteFound(k) \in C /\ Delete(k) \in C /\ ReadOld(k) \in C
  BY CallIsFor DEF DeleteFound, Delete, ReadOld, WithoutId, Kinds
<1>3. Check("tenant") \in C /\ Check("member") \in C /\ Check("project") \in C
  BY CallIsFor DEF Check, Target, Kinds
<1>4. /\ q.method = "create" => Create(q.service) \in C
      /\ q.method = "update" => Update(q.service) \in C
  BY CallIsFor DEF Create, Update, IsRequest, Kinds
<1>5. \A a, b, c \in C :
        /\ <<a>> \in Seq(C) /\ <<a, b>> \in Seq(C) /\ <<a, b, c>> \in Seq(C)
        /\ <<a>> # <<>> /\ <<a, b>> # <<>> /\ <<a, b, c>> # <<>>
        /\ Head(<<a, b>>) = a /\ Head(<<a, b, c>>) = a
  <2> HIDE DEF C
  <2> QED
    OBVIOUS
<1>6. ASSUME q.method = "create"
      PROVE  M \in Seq(C) /\ M # <<>> /\ StartsFor(q, M)
  <2> DEFINE last == Create(q.service)
  <2>1. /\ q.service \in Configs =>
             M \in {<<WithoutId, Check("tenant"), last>>,
                    <<WithoutId, Check("project"), last>>}
        /\ q.service \notin Configs =>
             M \in {<<last>>, <<Check("tenant"), last>>,
                    <<Check("tenant"), Check("member"), last>>,
                    <<Check("tenant"), Check("project"), last>>}
    BY <1>6 DEF Methods, IsRequest, Kinds, Configs, TenantCreate, TenantMemberCreate,
         TenantConfigCreate, ProjectCreate, ProjectMemberCreate, ProjectConfigCreate
  <2>2. WithoutId.call = "noId"
    BY DEF WithoutId, Call
  <2>3. last \in C
    BY <1>4, <1>6
  <2> HIDE DEF C, M, last
  <2>4. CASE q.service \in Configs
    <3>1. PICK b \in C : M = <<WithoutId, b, last>>
      BY <1>3, <2>1, <2>4
    <3>2. M \in Seq(C) /\ M # <<>> /\ Head(M) = WithoutId
      BY <1>2, <1>5, <2>3, <3>1
    <3> QED
      BY <1>6, <2>2, <3>2 DEF StartsFor
  <2>5. CASE q.service \notin Configs
    <3>1. \/ M = <<last>> \/ \E a \in C : M = <<a, last>>
          \/ \E a, b \in C : M = <<a, b, last>>
      BY <1>3, <2>1, <2>5
    <3> QED
      BY <1>5, <2>3, <2>5, <3>1 DEF StartsFor
  <2> QED
    BY <2>4, <2>5
<1>7. ASSUME q.method = "update"
      PROVE  M \in Seq(C) /\ M # <<>> /\ StartsFor(q, M)
  <2> DEFINE first == ReadOld(q.service)
             last == Update(q.service)
  <2>1. M = <<first, last>> \/ (q.service \notin Configs /\ M = <<last>>)
    BY <1>7 DEF Methods, IsRequest, Kinds, Configs, TenantUpdate, TenantMemberUpdate,
         TenantConfigUpdate, ProjectUpdate, ProjectMemberUpdate, ProjectConfigUpdate
  <2>2. first.call = "old" /\ first.kind = q.service
    BY DEF ReadOld, Call
  <2>3. first \in C /\ last \in C
    BY <1>2, <1>4, <1>7 DEF IsRequest
  <2> HIDE DEF C, M, first, last
  <2>4. CASE M = <<first, last>>
    BY <1>5, <1>7, <2>2, <2>3, <2>4 DEF StartsFor
  <2>5. CASE q.service \notin Configs /\ M = <<last>>
    BY <1>5, <2>3, <2>5 DEF StartsFor
  <2> QED
    BY <2>1, <2>4, <2>5
<1>8. ASSUME q.method = "delete"
      PROVE  M \in Seq(C) /\ M # <<>> /\ StartsFor(q, M)
  <2>1. M \in {TenantDelete, ProjectDelete, <<Delete(q.service)>>}
    BY <1>8 DEF Methods, IsRequest, Kinds, TenantMemberDelete, TenantConfigDelete,
         ProjectMemberDelete, ProjectConfigDelete
  <2>2. /\ Find("tenantmember", "tenant") \in C /\ Find("tenantmember", "member") \in C
        /\ Find("tenantconfig", "tenant") \in C
        /\ Find("projectmember", "project") \in C
        /\ Find("projectconfig", "project") \in C
    BY <1>1 DEF Kinds
  <2>3. \A k \in Kinds : DeleteFound(k) \in C /\ Delete(k) \in C
    BY <1>2
  <2>4. /\ DeleteFound("tenantmember") \in C /\ DeleteFound("tenantconfig") \in C
        /\ DeleteFound("projectmember") \in C /\ DeleteFound("projectconfig") \in C
        /\ Delete("tenant") \in C /\ Delete("project") \in C
        /\ Delete(q.service) \in C
    BY <2>3 DEF Kinds, IsRequest
  <2> HIDE DEF C, M
  <2>5. TenantDelete \in Seq(C) /\ TenantDelete # <<>>
    BY <2>2, <2>4 DEF TenantDelete
  <2>6. ProjectDelete \in Seq(C) /\ ProjectDelete # <<>>
    BY <2>2, <2>4 DEF ProjectDelete
  <2> QED
    BY <1>5, <1>8, <2>1, <2>4, <2>5, <2>6 DEF StartsFor
<1> QED
  BY <1>6, <1>7, <1>8 DEF IsRequest

-----------------------------------------------------------------------------
(***************************************************************************)
(* What a step of one handler h leaves to the others, and to itself.       *)
(***************************************************************************)
\* Ids that are used stay used, so what another handler has read still stands.
LEMMA OthersFit ==
  ASSUME ConfigInv, TablesStep, NEW g \in Handlers,
         req'[g] = req[g], todo'[g] = todo[g]
  PROVE  ConfigFits(g)'
<1> USE DEF At, Active, Kind
<1> SUFFICES ASSUME Active(g) PROVE ConfigFits(g)'
  BY DEF ConfigFits
<1>1. ConfigFits(g)
  BY DEF ConfigInv
<1>2. ASSUME req[g].service \in Configs, UpdateStands(g)
      PROVE  UpdateStands(g)'
  BY <1>2, <1>1 DEF TablesStep, UpdateStands, Configs, Kinds
<1> QED
  BY <1>1, <1>2 DEF ConfigFits

\* The next call fits when the handler is past the checks.
LEMMA ContinueFits ==
  ASSUME ConfigInv, TablesStep, NEW h \in Handlers, Active(h), Ready(h),
         Continue(h)
  PROVE  ConfigInv'
<1>1. DOMAIN req' = Handlers /\ DOMAIN todo' = Handlers
  BY DEF Continue, ConfigInv
<1>2. ConfigFits(h)'
  <2>1. ConfigFits(h) /\ req'[h] = req[h] /\ todo'[h] = Tail(todo[h])
    BY DEF ConfigInv, Continue
  <2>2. todo'[h] \in Seq(CallsFor(req[h]))
    <3> DEFINE C == CallsFor(req[h])
    <3>1. todo[h] \in Seq(C) /\ todo[h] # <<>>
      BY <2>1 DEF ConfigFits, Active
    <3> HIDE DEF C
    <3>2. Tail(todo[h]) \in Seq(C)
      BY <3>1
    <3> QED
      BY <3>2, <2>1 DEF C
  <2>3. ASSUME req[h].service \in Configs, UpdateStands(h)
        PROVE  UpdateStands(h)'
    BY <2>1, <2>3 DEF TablesStep, UpdateStands, Configs, Kinds
  <2>4. IsRequest(req[h])
    BY <2>1 DEF ConfigFits
  <2> QED
    BY <2>1, <2>2, <2>3, <2>4 DEF ConfigFits, Ready
<1>3. ASSUME NEW g \in Handlers, g # h PROVE ConfigFits(g)'
  BY <1>3, OthersFit DEF Continue, ConfigInv
<1> QED
  BY <1>1, <1>2, <1>3 DEF ConfigInv, TablesStep

LEMMA ReturnFits ==
  ASSUME ConfigInv, TablesStep, NEW h \in Handlers, NEW a, Return(h, a)
  PROVE  ConfigInv'
<1>1. DOMAIN req' = Handlers /\ DOMAIN todo' = Handlers
  BY DEF Return, ConfigInv
<1>2. ConfigFits(h)'
  BY DEF ConfigFits, Active, Return, ConfigInv
<1>3. ASSUME NEW g \in Handlers, g # h PROVE ConfigFits(g)'
  BY <1>3, OthersFit DEF Return, ConfigInv
<1> QED
  BY <1>1, <1>2, <1>3 DEF ConfigInv, TablesStep

LEMMA SameTables ==
  ASSUME ConfigInv, UNCHANGED <<db, used>>
  PROVE  TablesStep
BY DEF ConfigInv, TablesStep, TablesFit, Stored

LEMMA RefuseFits ==
  ASSUME ConfigInv, NEW h \in Handlers, NEW a, Refuse(h, a)
  PROVE  ConfigInv' /\ TablesStep
BY SameTables, ReturnFits DEF Refuse

\* A store that keeps or deletes what is stored under ids that are used.
LEMMA ChangeSteps ==
  ASSUME ConfigInv, NEW h \in Handlers, NEW k \in Kinds, NEW table,
         DOMAIN table = Ids[k], Change(h, k, table),
         k \in Configs => \A j \in used[k] : table[j] \in {db[k][j], Absent}
  PROVE  TablesStep
<1>1. /\ DOMAIN db' = Kinds /\ DOMAIN used' = Kinds
      /\ \A c \in Kinds \ {k} : db'[c] = db[c] /\ used'[c] = used[c]
      /\ db'[k] = table
      /\ used'[k] = used[k] \cup {i \in Ids[k] : table[i] # Absent}
  BY DEF Change, ConfigInv, TablesFit
<1>2. TablesFit'
  BY <1>1 DEF ConfigInv, TablesFit, Stored
<1> QED
  BY <1>1, <1>2 DEF TablesStep, Configs, Kinds

\* A handler that is neither about to check for an id nor about to read the
\* config is past these checks, and its next write is to its own table.
LEMMA NextCall ==
  ASSUME ConfigInv, NEW h \in Handlers, Active(h)
  PROVE  /\ IsRequest(req[h])
         /\ Kind(h) \in Kinds \cup {"none"}
         /\ At(h, "deleteAll") \/ At(h, "delete") => Kind(h) \in Kinds
         /\ At(h, "create") \/ At(h, "update") =>
              Kind(h) = req[h].service /\ Head(todo[h]).call = req[h].method
         /\ ~At(h, "noId") /\ ~At(h, "old") => Ready(h)
<1>1. ConfigFits(h) /\ todo[h] # <<>>
  BY DEF ConfigInv, Active
<1> DEFINE C == CallsFor(req[h])
           c == Head(todo[h])
<1>2. c \in C
  <2>1. todo[h] \in Seq(C)
    BY <1>1 DEF ConfigFits, Active
  <2> HIDE DEF C
  <2> QED
    BY <2>1, <1>1
<1> QED
  BY <1>1, <1>2 DEF ConfigFits, CallsFor, Ready, At, Active, Kind

-----------------------------------------------------------------------------
(***************************************************************************)
(* One lemma for each kind of step.                                        *)
(***************************************************************************)
LEMMA InitConfigInv == Init => ConfigInv
BY DEF Init, ConfigInv, TablesFit, Stored, ConfigFits, Active

LEMMA BeginFits ==
  ASSUME ConfigInv, NEW h \in Handlers, NEW q \in Requests, Begin(h, q)
  PROVE  ConfigInv' /\ TablesStep
<1>1. TablesStep
  BY SameTables DEF Begin
<1>2. DOMAIN req' = Handlers /\ DOMAIN todo' = Handlers
      /\ req'[h] = q /\ todo'[h] = Methods[q.service][q.method]
  BY DEF Begin, ConfigInv
<1>3. IsRequest(q)
  BY RequestsAreCalls
<1> DEFINE M == Methods[q.service][q.method]
<1>4. M \in Seq(CallsFor(q)) /\ M # <<>> /\ StartsFor(q, M)
  BY <1>3, MethodsFit
<1> HIDE DEF M
<1>5. ConfigFits(h)'
  BY <1>2, <1>3, <1>4 DEF ConfigFits, StartsFor, At, Active, Kind, M
<1>6. ASSUME NEW g \in Handlers, g # h PROVE ConfigFits(g)'
  BY <1>1, <1>6, OthersFit DEF Begin, ConfigInv
<1> QED
  BY <1>1, <1>2, <1>5, <1>6 DEF ConfigInv, TablesStep

LEMMA ChecksFit ==
  ASSUME ConfigInv, NEW h \in Handlers,
         CheckNoId(h) \/ CheckReference(h) \/ FindReferring(h) \/ SkipDeleteAll(h)
  PROVE  ConfigInv' /\ TablesStep
<1>1. Active(h)
  BY DEF CheckNoId, CheckReference, FindReferring, SkipDeleteAll, At
<1>2. ASSUME NEW a, Refuse(h, a) PROVE ConfigInv' /\ TablesStep
  BY <1>2, RefuseFits
<1>3. ASSUME Ready(h), Continue(h), UNCHANGED <<db, used>>
      PROVE  ConfigInv' /\ TablesStep
  BY <1>1, <1>3, SameTables, ContinueFits
<1>4. CASE CheckNoId(h)
  <2>1. req[h].id = NoId => Ready(h)
    BY <1>1, <1>4 DEF CheckNoId, At, Ready, ConfigInv, ConfigFits
  <2> QED
    BY <1>2, <1>3, <1>4, <2>1 DEF CheckNoId
<1>5. CASE CheckReference(h)
  <2>1. Ready(h)
    BY <1>1, <1>5, NextCall DEF CheckReference, At
  <2> QED
    BY <1>2, <1>3, <1>5, <2>1 DEF CheckReference
<1>6. CASE FindReferring(h)
  <2>1. Ready(h)
    BY <1>1, <1>6, NextCall DEF FindReferring, At
  <2> QED
    BY <1>3, <1>6, <2>1 DEF FindReferring
<1>7. CASE SkipDeleteAll(h)
  <2>1. Ready(h)
    BY <1>1, <1>7, NextCall DEF SkipDeleteAll, At
  <2> QED
    BY <1>3, <1>7, <2>1 DEF SkipDeleteAll
<1> QED
  BY <1>4, <1>5, <1>6, <1>7

LEMMA CompareOldFits ==
  ASSUME ConfigInv, NEW h \in Handlers, CompareOld(h)
  PROVE  ConfigInv' /\ TablesStep
<1>1. Active(h) /\ At(h, "old")
  BY DEF CompareOld, At
<1>2. ASSUME NEW a, Refuse(h, a) PROVE ConfigInv' /\ TablesStep
  BY <1>2, RefuseFits
<1>3. ASSUME req[h].id \in Stored(Kind(h)), db[Kind(h)][req[h].id] = req[h].doc
      PROVE  Ready(h)
  <2>1. ConfigFits(h) /\ TablesFit
    BY DEF ConfigInv
  <2>2. ASSUME req[h].service \in Configs, Kind(h) = req[h].service
        PROVE  UpdateStands(h)
    BY <1>3, <2>1, <2>2 DEF UpdateStands, TablesFit, Configs, Kinds
  <2> QED
    BY <1>1, <2>1, <2>2 DEF ConfigFits, Ready, At
<1>4. ASSUME Ready(h), Continue(h), UNCHANGED <<db, used>>
      PROVE  ConfigInv' /\ TablesStep
  BY <1>1, <1>4, SameTables, ContinueFits
<1> QED
  BY <1>2, <1>3, <1>4 DEF CompareOld

\* Deletions only make entities absent.
LEMMA DeletionsFit ==
  ASSUME ConfigInv, NEW h \in Handlers,
         DeleteAllFound(h) \/ \E a \in {"ok", "error"} : StoreDelete(h, a)
  PROVE  ConfigInv' /\ TablesStep
<1>1. Active(h) /\ Kind(h) \in Kinds /\ Ready(h)
  BY NextCall DEF DeleteAllFound, StoreDelete, At
<1>2. ASSUME NEW a, Refuse(h, a) PROVE ConfigInv' /\ TablesStep
  BY <1>2, RefuseFits
<1>3. CASE DeleteAllFound(h)
  <2> DEFINE k == Kind(h)
             rows == found[h] \cap Stored(k)
             table == [i \in Ids[k] |-> IF i \in rows THEN Absent ELSE db[k][i]]
  <2>1. ASSUME Change(h, k, table), Continue(h)
        PROVE  ConfigInv' /\ TablesStep
    <3>1. DOMAIN table = Ids[k] /\ \A j \in used[k] : table[j] \in {db[k][j], Absent}
      BY <1>1 DEF ConfigInv, TablesFit
    <3> QED
      BY <1>1, <2>1, <3>1, ChangeSteps, ContinueFits
  <2> QED
    BY <1>2, <1>3, <2>1 DEF DeleteAllFound
<1>4. CASE \E a \in {"ok", "error"} : StoreDelete(h, a)
  <2> PICK a \in {"ok", "error"} : StoreDelete(h, a)
    BY <1>4
  <2> DEFINE k == Kind(h)
             table == [db[k] EXCEPT ![req[h].id] = Absent]
  <2>1. ASSUME Change(h, k, table), Return(h, a)
        PROVE  ConfigInv' /\ TablesStep
    <3>1. DOMAIN table = Ids[k] /\ \A j \in used[k] : table[j] \in {db[k][j], Absent}
      BY <1>1 DEF ConfigInv, TablesFit
    <3> QED
      BY <1>1, <2>1, <3>1, ChangeSteps, ReturnFits
  <2> QED
    BY <1>2, <2>1 DEF StoreDelete
<1> QED
  BY <1>3, <1>4

\* A creation of a config is given an id that was never used.
LEMMA StoreCreateFits ==
  ASSUME ConfigInv, NEW h \in Handlers, NEW a, StoreCreate(h, a)
  PROVE  ConfigInv' /\ TablesStep
<1> DEFINE k == Kind(h)
<1>1. /\ IsRequest(req[h]) /\ k = req[h].service /\ k \in Kinds
      /\ req[h].method = "create" /\ Ready(h)
  BY NextCall DEF StoreCreate, At, IsRequest
<1>2. ASSUME Refuse(h, "conflict") PROVE ConfigInv' /\ TablesStep
  BY <1>2, RefuseFits
<1>3. ASSUME NEW i \in Ids[k],
             IF req[h].id = NoId THEN i \notin used[k] ELSE i = req[h].id,
             Change(h, k, [db[k] EXCEPT ![i] = req[h].doc]), Return(h, a)
      PROVE  ConfigInv' /\ TablesStep
  <2> DEFINE table == [db[k] EXCEPT ![i] = req[h].doc]
  <2>1. DOMAIN db[k] = Ids[k] /\ used[k] \subseteq Ids[k]
    BY <1>1 DEF ConfigInv, TablesFit
  <2>2. k \in Configs => i \notin used[k]
    BY <1>1, <1>3 DEF Ready
  <2>3. DOMAIN table = Ids[k]
        /\ (k \in Configs => \A j \in used[k] : table[j] \in {db[k][j], Absent})
    BY <2>1, <2>2
  <2> QED
    BY <1>1, <1>3, <2>3, ChangeSteps, ReturnFits
<1> QED
  BY <1>2, <1>3 DEF StoreCreate

\* An update of a config writes what is stored.
LEMMA StoreUpdateFits ==
  ASSUME ConfigInv, NEW h \in Handlers, NEW a, StoreUpdate(h, a)
  PROVE  ConfigInv' /\ TablesStep
<1> DEFINE k == Kind(h)
           i == req[h].id
<1>1. /\ IsRequest(req[h]) /\ k = req[h].service /\ k \in Kinds
      /\ req[h].method = "update" /\ Ready(h)
  BY NextCall DEF StoreUpdate, At, IsRequest
<1>2. ASSUME NEW b, Refuse(h, b) PROVE ConfigInv' /\ TablesStep
  BY <1>2, RefuseFits
<1>3. ASSUME i \in Stored(k), Change(h, k, [db[k] EXCEPT ![i] = req[h].doc]),
             Return(h, a)
      PROVE  ConfigInv' /\ TablesStep
  <2> DEFINE table == [db[k] EXCEPT ![i] = req[h].doc]
  <2>1. DOMAIN db[k] = Ids[k] /\ used[k] \subseteq Ids[k]
    BY <1>1 DEF ConfigInv, TablesFit
  <2>2. k \in Configs => db[k][i] = req[h].doc
    BY <1>1, <1>3 DEF Ready, UpdateStands, Stored
  <2>3. DOMAIN table = Ids[k]
        /\ (k \in Configs => \A j \in used[k] : table[j] \in {db[k][j], Absent})
    BY <2>1, <2>2
  <2> QED
    BY <1>1, <1>3, <2>3, ChangeSteps, ReturnFits
<1> QED
  BY <1>2, <1>3 DEF StoreUpdate

LEMMA NextFits ==
  ASSUME ConfigInv, Next
  PROVE  ConfigInv' /\ TablesStep
<1> PICK h \in Handlers :
      (\E q \in Requests : Begin(h, q)) \/ Step(h) \/ Fail(h)
  BY DEF Next
<1>1. CASE \E q \in Requests : Begin(h, q)
  BY <1>1, BeginFits
<1>2. CASE Step(h)
  <2>1. CASE CheckNoId(h) \/ CheckReference(h) \/ FindReferring(h) \/ SkipDeleteAll(h)
    BY <2>1, ChecksFit
  <2>2. CASE CompareOld(h)
    BY <2>2, CompareOldFits
  <2>3. CASE DeleteAllFound(h) \/ \E a \in {"ok", "error"} : StoreDelete(h, a)
    BY <2>3, DeletionsFit
  <2>4. CASE \E a \in {"ok", "error"} : StoreCreate(h, a)
    BY <2>4, StoreCreateFits
  <2>5. CASE \E a \in {"ok", "error"} : StoreUpdate(h, a)
    BY <2>5, StoreUpdateFits
  <2> QED
    BY <1>2, <2>1, <2>2, <2>3, <2>4, <2>5 DEF Step
<1>3. CASE Fail(h)
  BY <1>3, RefuseFits DEF Fail
<1> QED
  BY <1>1, <1>2, <1>3

LEMMA StepFits ==
  ASSUME ConfigInv, [Next]_vars
  PROVE  ConfigInv' /\ [\A k \in Configs : KeepsReferences(k)]_vars
<1>1. CASE Next
  <2>1. ConfigInv' /\ TablesStep
    BY <1>1, NextFits
  <2>2. \A k \in Configs : Stored(k) \subseteq used[k]
    BY DEF ConfigInv, TablesFit, Configs, Kinds
  <2> QED
    BY <2>1, <2>2 DEF TablesStep, KeepsReferences
<1>2. CASE UNCHANGED vars
  BY <1>2 DEF vars, locals, ConfigInv, TablesFit, ConfigFits, UpdateStands,
     Stored, At, Active, Kind
<1> QED
  BY <1>1, <1>2

LEMMA ConfigInvHolds == Spec => []ConfigInv
BY InitConfigInv, StepFits, PTL DEF Spec

(***************************************************************************)
(* The references of stored configs never change, with any number of       *)
(* overlapping requests: tenantConfigService and projectConfigService      *)
(* refuse an id in Create, and compare the stored config in Update.        *)
(***************************************************************************)
THEOREM ConfigsKeepTheirOwner == Spec => ConfigReferencesKept
BY ConfigInvHolds, StepFits, PTL DEF Spec, ConfigReferencesKept
=============================================================================
