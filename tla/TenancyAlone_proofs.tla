------------------------ MODULE TenancyAlone_proofs ------------------------
(***************************************************************************)
(* For a handler that is alone, and any ids, namespaces and requests:      *)
(* nothing is orphaned, references are kept, and DeleteAll never answers   *)
(* "data corruption".                                                      *)
(***************************************************************************)
EXTENDS Tenancy_proofs, FiniteSetTheorems

Writes == {"create", "update", "delete"}

(***************************************************************************)
(* What the methods have in common.  They write last, and to the table of  *)
(* their service; a creation has checked all owners before, an update of   *)
(* anything but a tenant has compared the stored document; a deletion has  *)
(* found and deleted all that the entity owns, and what it finds is        *)
(* deleted from the table it was found in.                                 *)
(***************************************************************************)
WritesLast(q, M) ==
  \A n \in 1 .. Len(M) :
    /\ M[n].call \in Writes <=> n = Len(M)
    /\ n = Len(M) => M[n].kind = q.service /\ M[n].call = q.method

ChecksOwners(q, M) ==
  q.method = "create" /\ q.service \in DOMAIN Owners =>
    \A f \in Owners[q.service] : \E m \in 1 .. Len(M) - 1 :
      M[m].call = "check" /\ M[m].kind = Target[f] /\ M[m].field = f

ComparesOld(q, M) ==
  q.method = "update" /\ q.service # "tenant" =>
    \E m \in 1 .. Len(M) - 1 : M[m].call = "old" /\ M[m].kind = q.service

DeletesOwned(q, M) ==
  q.method = "delete" =>
    \A k \in DOMAIN Owners : \A f \in Owners[k] : Target[f] = q.service =>
      \E l \in 1 .. Len(M) - 1 : \E m \in 1 .. l - 1 :
        M[m].call = "find" /\ M[m].kind = k /\ M[m].field = f
        /\ M[l].call = "deleteAll"

DeletesFound(q, M) ==
  \A n \in 1 .. Len(M) :
    /\ M[n].call = "deleteAll" =>
         /\ M[n].kind \in DOMAIN Owners
         /\ \A m \in 1 .. Len(M) : M[m].call \notin {"check", "old"}
    /\ M[n].call = "find" =>
         /\ M[n].kind \in DOMAIN Owners
         /\ \A m \in n + 1 .. Len(M) :
              NextDeletion(M, n + 1, m) => M[m].kind = M[n].kind

Shape(q, M) == /\ WritesLast(q, M) /\ ChecksOwners(q, M) /\ ComparesOld(q, M)
               /\ DeletesOwned(q, M) /\ DeletesFound(q, M)

LEMMA TenantDeletionShape ==
  ASSUME NEW q, q.service = "tenant", q.method = "delete"
  PROVE  Shape(q, TenantDelete)
<1> DEFINE M == TenantDelete
<1>1. /\ Len(M) = 6
      /\ M[1] = Find("tenantmember", "tenant") /\ M[2] = Find("tenantmember", "member")
      /\ M[3] = DeleteFound("tenantmember") /\ M[4] = Find("tenantconfig", "tenant")
      /\ M[5] = DeleteFound("tenantconfig") /\ M[6] = Delete("tenant")
  BY DEF TenantDelete
<1>2. /\ M[1].call = "find" /\ M[1].kind = "tenantmember" /\ M[1].field = "tenant"
      /\ M[2].call = "find" /\ M[2].kind = "tenantmember" /\ M[2].field = "member"
      /\ M[3].call = "deleteAll" /\ M[3].kind = "tenantmember"
      /\ M[4].call = "find" /\ M[4].kind = "tenantconfig" /\ M[4].field = "tenant"
      /\ M[5].call = "deleteAll" /\ M[5].kind = "tenantconfig"
      /\ M[6].call = "delete" /\ M[6].kind = "tenant"
  BY <1>1 DEF Find, DeleteFound, Delete, Call
<1> HIDE DEF M
<1>3. WritesLast(q, M)
  BY <1>1, <1>2 DEF WritesLast, Writes
<1>4. ChecksOwners(q, M) /\ ComparesOld(q, M)
  BY DEF ChecksOwners, ComparesOld
<1>5. DeletesOwned(q, M)
  <2> SUFFICES ASSUME NEW k \in DOMAIN Owners, NEW f \in Owners[k],
                      Target[f] = "tenant"
               PROVE  \E l \in 1 .. Len(M) - 1 : \E m \in 1 .. l - 1 :
                        M[m].call = "find" /\ M[m].kind = k /\ M[m].field = f
                        /\ M[l].call = "deleteAll"
    BY DEF DeletesOwned
  <2>1. \/ k = "tenantmember" /\ f = "tenant"
        \/ k = "tenantmember" /\ f = "member"
        \/ k = "tenantconfig" /\ f = "tenant"
    BY DEF Owners, Target
  <2>2. 3 \in 1 .. Len(M) - 1 /\ 5 \in 1 .. Len(M) - 1
        /\ 1 \in 1 .. 3 - 1 /\ 2 \in 1 .. 3 - 1 /\ 4 \in 1 .. 5 - 1
    BY <1>1
  <2> QED
    BY <1>2, <2>1, <2>2
<1>6. DeletesFound(q, M)
  BY <1>1, <1>2 DEF DeletesFound, NextDeletion, Owners
<1> QED
  BY <1>3, <1>4, <1>5, <1>6 DEF Shape, M

LEMMA ProjectDeletionShape ==
  ASSUME NEW q, q.service = "project", q.method = "delete"
  PROVE  Shape(q, ProjectDelete)
<1> DEFINE M == ProjectDelete
<1>1. /\ Len(M) = 5
      /\ M[1] = Find("projectmember", "project") /\ M[2] = DeleteFound("projectmember")
      /\ M[3] = Find("projectconfig", "project") /\ M[4] = DeleteFound("projectconfig")
      /\ M[5] = Delete("project")
  BY DEF ProjectDelete
<1>2. /\ M[1].call = "find" /\ M[1].kind = "projectmember" /\ M[1].field = "project"
      /\ M[2].call = "deleteAll" /\ M[2].kind = "projectmember"
      /\ M[3].call = "find" /\ M[3].kind = "projectconfig" /\ M[3].field = "project"
      /\ M[4].call = "deleteAll" /\ M[4].kind = "projectconfig"
      /\ M[5].call = "delete" /\ M[5].kind = "project"
  BY <1>1 DEF Find, DeleteFound, Delete, Call
<1> HIDE DEF M
<1>3. WritesLast(q, M)
  BY <1>1, <1>2 DEF WritesLast, Writes
<1>4. ChecksOwners(q, M) /\ ComparesOld(q, M)
  BY DEF ChecksOwners, ComparesOld
<1>5. DeletesOwned(q, M)
  <2> SUFFICES ASSUME NEW k \in DOMAIN Owners, NEW f \in Owners[k],
                      Target[f] = "project"
               PROVE  \E l \in 1 .. Len(M) - 1 : \E m \in 1 .. l - 1 :
                        M[m].call = "find" /\ M[m].kind = k /\ M[m].field = f
                        /\ M[l].call = "deleteAll"
    BY DEF DeletesOwned
  <2>1. f = "project" /\ (k = "projectmember" \/ k = "projectconfig")
    BY DEF Owners, Target
  <2>2. 2 \in 1 .. Len(M) - 1 /\ 4 \in 1 .. Len(M) - 1
        /\ 1 \in 1 .. 2 - 1 /\ 3 \in 1 .. 4 - 1
    BY <1>1
  <2> QED
    BY <1>2, <2>1, <2>2
<1>6. DeletesFound(q, M)
  BY <1>1, <1>2 DEF DeletesFound, NextDeletion, Owners
<1> QED
  BY <1>3, <1>4, <1>5, <1>6 DEF Shape, M

\* Creations, updates, and the deletions that only delete one entity.
LEMMA CreationShape ==
  ASSUME NEW q, IsRequest(q), q.method = "create"
  PROVE  Shape(q, Methods[q.service][q.method])
<1> DEFINE M == Methods[q.service][q.method]
           last == Create(q.service)
           ct == Check("tenant")
           cm == Check("member")
           cp == Check("project")
<1>1. \/ q.service = "tenant" /\ M = <<last>>
      \/ q.service = "project" /\ M = <<ct, last>>
      \/ q.service = "tenantmember" /\ M = <<ct, cm, last>>
      \/ q.service = "projectmember" /\ M = <<ct, cp, last>>
      \/ q.service = "tenantconfig" /\ M = <<WithoutId, ct, last>>
      \/ q.service = "projectconfig" /\ M = <<WithoutId, cp, last>>
  BY DEF Methods, IsRequest, Kinds, TenantCreate, TenantMemberCreate,
       TenantConfigCreate, ProjectCreate, ProjectMemberCreate, ProjectConfigCreate
<1>2. /\ ct.call = "check" /\ ct.kind = "tenant" /\ ct.field = "tenant"
      /\ cm.call = "check" /\ cm.kind = "tenant" /\ cm.field = "member"
      /\ cp.call = "check" /\ cp.kind = "project" /\ cp.field = "project"
      /\ WithoutId.call = "noId"
      /\ last.call = "create" /\ last.kind = q.service
  BY DEF Check, Create, WithoutId, Call, Target
<1> HIDE DEF M, last, ct, cm, cp
<1>3. /\ Len(M) \in 1 .. 3 /\ M[Len(M)] = last
      /\ \A n \in 1 .. Len(M) - 1 : M[n] \in {ct, cm, cp, WithoutId}
  <2>1. CASE M = <<last>>
    BY <2>1
  <2>2. CASE M = <<ct, last>>
    BY <2>2
  <2>3. CASE \E a \in {ct, WithoutId}, b \in {ct, cm, cp} : M = <<a, b, last>>
    BY <2>3
  <2> QED
    BY <1>1, <2>1, <2>2, <2>3
<1>4. ChecksOwners(q, M)
  <2> SUFFICES ASSUME q.service \in DOMAIN Owners, NEW f \in Owners[q.service]
               PROVE  \E m \in 1 .. Len(M) - 1 :
                        M[m].call = "check" /\ M[m].kind = Target[f] /\ M[m].field = f
    BY DEF ChecksOwners
  <2>1. CASE q.service = "tenantmember"
    <3>1. f \in {"tenant", "member"} /\ M[1] = ct /\ M[2] = cm /\ Len(M) = 3
      BY <1>1, <2>1 DEF Owners
    <3> QED
      BY <1>2, <3>1 DEF Target
  <2>2. CASE q.service = "projectmember"
    <3>1. f = "project" /\ M[2] = cp /\ Len(M) = 3
      BY <1>1, <2>2 DEF Owners
    <3> QED
      BY <1>2, <3>1 DEF Target
  <2>3. CASE q.service = "tenantconfig"
    <3>1. f = "tenant" /\ M[2] = ct /\ Len(M) = 3
      BY <1>1, <2>3 DEF Owners
    <3> QED
      BY <1>2, <3>1 DEF Target
  <2>4. CASE q.service = "projectconfig"
    <3>1. f = "project" /\ M[2] = cp /\ Len(M) = 3
      BY <1>1, <2>4 DEF Owners
    <3> QED
      BY <1>2, <3>1 DEF Target
  <2> QED
    BY <2>1, <2>2, <2>3, <2>4 DEF Owners
<1>5. WritesLast(q, M)
  BY <1>2, <1>3 DEF WritesLast, Writes
<1>6. DeletesFound(q, M)
  BY <1>2, <1>3 DEF DeletesFound
<1> QED
  BY <1>4, <1>5, <1>6 DEF Shape, ComparesOld, DeletesOwned, M

LEMMA UpdateShape ==
  ASSUME NEW q, IsRequest(q), q.method = "update"
  PROVE  Shape(q, Methods[q.service][q.method])
<1> DEFINE M == Methods[q.service][q.method]
           first == ReadOld(q.service)
           last == Update(q.service)
<1>1. M = <<first, last>> \/ (q.service = "tenant" /\ M = <<last>>)
  BY DEF Methods, IsRequest, Kinds, TenantUpdate, TenantMemberUpdate,
       TenantConfigUpdate, ProjectUpdate, ProjectMemberUpdate, ProjectConfigUpdate
<1>2. /\ first.call = "old" /\ first.kind = q.service
      /\ last.call = "update" /\ last.kind = q.service
  BY DEF ReadOld, Update, Call
<1> HIDE DEF M, first, last
<1>3. /\ Len(M) \in 1 .. 2 /\ M[Len(M)] = last
      /\ \A n \in 1 .. Len(M) - 1 : M[n] = first
      /\ q.service # "tenant" => Len(M) = 2
  <2>1. CASE M = <<first, last>>
    BY <2>1
  <2>2. CASE q.service = "tenant" /\ M = <<last>>
    BY <2>2
  <2> QED
    BY <1>1, <2>1, <2>2
<1>4. WritesLast(q, M)
  BY <1>2, <1>3 DEF WritesLast, Writes
<1>5. ComparesOld(q, M)
  BY <1>2, <1>3 DEF ComparesOld
<1>6. DeletesFound(q, M)
  BY <1>2, <1>3 DEF DeletesFound
<1> QED
  BY <1>4, <1>5, <1>6 DEF Shape, ChecksOwners, DeletesOwned, M

LEMMA MethodShape ==
  ASSUME NEW q, IsRequest(q)
  PROVE  Shape(q, Methods[q.service][q.method])
<1> DEFINE M == Methods[q.service][q.method]
<1>1. CASE q.method = "delete" /\ q.service = "tenant"
  BY <1>1, TenantDeletionShape DEF Methods
<1>2. CASE q.method = "delete" /\ q.service = "project"
  BY <1>2, ProjectDeletionShape DEF Methods
<1>3. CASE q.method = "delete" /\ q.service \notin {"tenant", "project"}
  <2> DEFINE last == Delete(q.service)
  <2>1. M = <<last>>
    BY <1>3 DEF Methods, IsRequest, Kinds, TenantMemberDelete, TenantConfigDelete,
         ProjectMemberDelete, ProjectConfigDelete
  <2>2. last.call = "delete" /\ last.kind = q.service
    BY DEF Delete, Call
  <2> HIDE DEF M, last
  <2>3. WritesLast(q, M) /\ DeletesFound(q, M)
    BY <1>3, <2>1, <2>2 DEF WritesLast, Writes, DeletesFound
  <2>4. DeletesOwned(q, M)
    BY <1>3 DEF DeletesOwned, Owners, Target
  <2> QED
    BY <1>3, <2>3, <2>4 DEF Shape, ChecksOwners, ComparesOld, M
<1> QED
  BY <1>1, <1>2, <1>3, CreationShape, UpdateShape DEF IsRequest

-----------------------------------------------------------------------------
(***************************************************************************)
(* Where the handler h is in its method.                                   *)
(***************************************************************************)
LEMMA Position ==
  ASSUME RequestsInv, NEW h \in Handlers, Active(h)
  PROVE  /\ IsRequest(req[h]) /\ Shape(req[h], Method(h))
         /\ Len(Method(h)) \in Nat
         /\ \E n \in 1 .. Len(Method(h)) :
              /\ AtCall(h, n)
              /\ Head(todo[h]) = Method(h)[n]
              /\ Method(h)[n] \in CallsFor(req[h])
              /\ Tail(todo[h]) = SubSeq(Method(h), n + 1, Len(Method(h)))
              /\ n < Len(Method(h)) => Tail(todo[h]) # <<>>
<1> DEFINE M == Method(h)
           C == CallsFor(req[h])
<1>1. IsRequest(req[h])
  BY DEF RequestsInv, RequestStands
<1>2. Shape(req[h], M)
  BY <1>1, MethodShape DEF Method
<1>3. M \in Seq(C)
  BY <1>1, MethodsFit DEF Method
<1>4. PICK n \in 1 .. Len(M) : AtCall(h, n)
  BY DEF RequestsInv, RequestStands
<1>5. todo[h] = SubSeq(M, n, Len(M))
  BY <1>4 DEF AtCall
<1> HIDE DEF M, C
<1>6. /\ Len(M) \in Nat /\ M[n] \in C
      /\ Head(todo[h]) = M[n] /\ Tail(todo[h]) = SubSeq(M, n + 1, Len(M))
  BY <1>3, <1>5
<1>7. n < Len(M) => SubSeq(M, n + 1, Len(M)) # <<>>
  <2>1. Len(SubSeq(M, n + 1, Len(M))) = Len(M) - n
    BY <1>3
  <2>2. n < Len(M) => Len(SubSeq(M, n + 1, Len(M))) # 0
    BY <1>6, <2>1
  <2>3. Len(<<>>) = 0
    OBVIOUS
  <2> QED
    BY <2>2, <2>3, Zenon
<1> QED
  BY <1>1, <1>2, <1>4, <1>6, <1>7 DEF M, C

LEMMA InitRequestsInv == Init => RequestsInv /\ NothingOrphaned
<1> SUFFICES ASSUME Init PROVE RequestsInv /\ NothingOrphaned
  OBVIOUS
<1>1. TablesHoldDocuments
  BY DEF Init, TablesHoldDocuments
<1>2. \A k \in Kinds : Stored(k) = {}
  BY DEF Init, Stored
<1>3. NothingOrphaned
  BY <1>2 DEF NothingOrphaned, Owners, Kinds
<1> QED
  BY <1>1, <1>3, FS_EmptySet
    DEF Init, RequestsInv, RequestStands, NoCorruptionAnswered, Active

-----------------------------------------------------------------------------
(***************************************************************************)
(* What a step of the handler h does to the others: it leaves them where   *)
(* they are, and if it changes what is stored none of them is alone.       *)
(***************************************************************************)
OthersAlone(h) ==
  /\ alone' \in [Handlers -> BOOLEAN]
  /\ \A g \in Handlers \ {h} : alone'[g] => alone[g] /\ db' = db

OthersWait(h) ==
  /\ DOMAIN req' = Handlers /\ DOMAIN todo' = Handlers /\ DOMAIN found' = Handlers
  /\ DOMAIN named' = Handlers /\ DOMAIN reply' = Handlers
  /\ \A g \in Handlers \ {h} :
       /\ req'[g] = req[g] /\ todo'[g] = todo[g] /\ found'[g] = found[g]
       /\ named'[g] = named[g] /\ reply'[g] = reply[g]

LEMMA SameTablesAlone ==
  ASSUME RequestsInv, db' = db
  PROVE  /\ TablesHoldDocuments' /\ NothingOrphaned' = NothingOrphaned
         /\ \A k : Stored(k)' = Stored(k)
         /\ \A k, f, i : Referring(k, f, i)' = Referring(k, f, i)
BY DEF RequestsInv, TablesHoldDocuments, NothingOrphaned, Stored, Referring

LEMMA StandsStill ==
  ASSUME RequestsInv, NEW g \in Handlers, alone'[g] => alone[g] /\ db' = db,
         req'[g] = req[g], todo'[g] = todo[g], found'[g] = found[g],
         named'[g] = named[g], reply'[g] = reply[g]
  PROVE  RequestStands(g)' /\ (alone'[g] => reply'[g] # "internal")
<1>1. Method(g)' = Method(g) /\ Active(g)' = Active(g)
  BY DEF Method, Active
<1>2. ASSUME alone'[g], NEW n, NEW m
      PROVE  /\ Establishes(g, m, n) => Establishes(g, m, n)'
             /\ FoundStands(g, n) => FoundStands(g, n)'
  BY <1>1, <1>2, SameTablesAlone DEF Establishes, FoundStands
<1>3. ASSUME NEW n, AtCall(g, n) PROVE AtCall(g, n)'
  BY <1>1, <1>2, <1>3 DEF AtCall
<1>4. RequestStands(g)
  BY DEF RequestsInv
<1> QED
  BY <1>1, <1>3, <1>4 DEF RequestStands, RequestsInv, NoCorruptionAnswered

LEMMA OthersStand ==
  ASSUME RequestsInv, NEW h \in Handlers, OthersAlone(h), OthersWait(h),
         TablesHoldDocuments', RequestStands(h)', alone'[h] => reply'[h] # "internal"
  PROVE  RequestsInv'
<1>1. ASSUME NEW g \in Handlers
      PROVE  RequestStands(g)' /\ (alone'[g] => reply'[g] # "internal")
  <2>1. CASE g = h
    BY <2>1
  <2>2. CASE g # h
    BY <2>2, StandsStill DEF OthersAlone, OthersWait
  <2> QED
    BY <2>1, <2>2
<1>2. NoCorruptionAnswered'
  BY <1>1 DEF NoCorruptionAnswered
<1> QED
  BY <1>1, <1>2 DEF RequestsInv, OthersAlone, OthersWait

LEMMA ReturnStands ==
  ASSUME RequestsInv, NEW h \in Handlers, NEW a \in Answers, Return(h, a),
         TablesHoldDocuments', OthersAlone(h), alone'[h] => a # "internal"
  PROVE  RequestsInv'
<1>1. todo'[h] = <<>> /\ found'[h] = {} /\ named'[h] = 0 /\ reply'[h] = a
  BY DEF Return, RequestsInv
<1>2. OthersWait(h)
  BY DEF Return, RequestsInv, OthersWait
<1>3. RequestStands(h)'
  BY <1>1, FS_EmptySet DEF RequestStands, Active
<1> QED
  BY <1>1, <1>2, <1>3, OthersStand

LEMMA RefuseStands ==
  ASSUME RequestsInv, NEW h \in Handlers, NEW a \in Answers, Refuse(h, a),
         alone[h] => a # "internal"
  PROVE  RequestsInv' /\ db' = db
<1>1. OthersAlone(h) /\ alone'[h] = alone[h]
  BY DEF OthersAlone, Refuse, RequestsInv
<1> QED
  BY <1>1, ReturnStands, SameTablesAlone DEF Refuse

\* The n-th call is made and another one follows.
LEMMA ContinueStands ==
  ASSUME RequestsInv, NEW h \in Handlers, Active(h), Continue(h),
         NEW n \in 1 .. Len(Method(h)), Len(Method(h)) \in Nat, AtCall(h, n),
         Method(h)[n].call \notin Writes, WritesLast(req[h], Method(h)),
         Tail(todo[h]) = SubSeq(Method(h), n + 1, Len(Method(h))),
         n < Len(Method(h)) => Tail(todo[h]) # <<>>,
         TablesHoldDocuments', OthersAlone(h), alone'[h] => alone[h],
         alone[h] => (\A m \in 1 .. n : Establishes(h, m, n + 1)')
                     /\ FoundStands(h, n + 1)',
         DOMAIN found' = Handlers, DOMAIN named' = Handlers,
         \A g \in Handlers \ {h} : found'[g] = found[g] /\ named'[g] = named[g],
         named'[h] = Cardinality(found'[h])
  PROVE  RequestsInv'
<1>1. /\ req' = req /\ reply' = reply /\ todo'[h] = Tail(todo[h])
      /\ OthersWait(h)
  BY DEF Continue, RequestsInv, OthersWait
<1>2. n + 1 \in 1 .. Len(Method(h))
  BY DEF WritesLast
<1>3. Method(h)' = Method(h)
  BY <1>1 DEF Method
<1>4. AtCall(h, n + 1)'
  BY <1>1, <1>3 DEF AtCall
<1>5. RequestStands(h)'
  BY <1>1, <1>2, <1>3, <1>4 DEF RequestStands, RequestsInv, Active
<1> QED
  BY <1>1, <1>5, OthersStand DEF RequestsInv, NoCorruptionAnswered

(***************************************************************************)
(* What is shown of each step of the handler h.  What it changes while it  *)
(* is alone orphans nothing and changes no reference.                      *)
(***************************************************************************)
Sound(h) ==
  /\ RequestsInv'
  /\ db' = db \/ \A g \in Handlers : alone'[g] => alone[g] /\ g = h
  /\ alone[h] /\ NothingOrphaned => NothingOrphaned'
  /\ alone[h] => \A k \in Kinds : KeepsReferences(k)

LEMMA SoundIfIdle ==
  ASSUME RequestsInv, NEW h \in Handlers, RequestsInv', db' = db
  PROVE  Sound(h)
BY SameTablesAlone DEF Sound, KeepsReferences

LEMMA RefuseSound ==
  ASSUME RequestsInv, NEW h \in Handlers, NEW a \in Answers, Refuse(h, a),
         alone[h] => a # "internal"
  PROVE  Sound(h)
BY RefuseStands, SoundIfIdle

-----------------------------------------------------------------------------
(***************************************************************************)
(* The calls that change no table: what they establish, and that they keep *)
(* what was established.                                                   *)
(***************************************************************************)
LEMMA ChecksSound ==
  ASSUME RequestsInv, NEW h \in Handlers,
         CheckNoId(h) \/ CheckReference(h) \/ CompareOld(h)
  PROVE  Sound(h)
<1> DEFINE M == Method(h)
<1>1. Active(h) /\ \A c : At(h, c) <=> Head(todo[h]).call = c
  BY DEF CheckNoId, CheckReference, CompareOld, At
<1>2. ASSUME NEW a \in {"invalid", "notfound"}, Refuse(h, a)
      PROVE  Sound(h)
  BY <1>2, RefuseSound DEF Answers
<1>3. ASSUME Continue(h), UNCHANGED <<db, used, alone, found, named>>,
             Head(todo[h]).call \in {"noId", "check", "old"},
             Head(todo[h]).call = "check" => req[h].doc[Field(h)] \in Stored(Kind(h)),
             Head(todo[h]).call = "old" => req[h].id \in Stored(Kind(h))
                                           /\ db[Kind(h)][req[h].id] = req[h].doc
      PROVE  Sound(h)
  <2> PICK n \in 1 .. Len(M) :
             /\ AtCall(h, n) /\ Head(todo[h]) = M[n]
             /\ Tail(todo[h]) = SubSeq(M, n + 1, Len(M))
             /\ n < Len(M) => Tail(todo[h]) # <<>>
    BY <1>1, Position
  <2>1. Len(M) \in Nat /\ WritesLast(req[h], M)
    BY <1>1, Position DEF Shape
  <2>2. M[n].call \in {"noId", "check", "old"} /\ Kind(h) = M[n].kind
        /\ Field(h) = M[n].field
    BY <1>3 DEF Kind, Field
  <2>3. M' = M /\ req' = req /\ \A k : Stored(k)' = Stored(k)
    BY <1>3 DEF Method, Continue, Stored
  <2> HIDE DEF M
  <2>4. ASSUME alone[h], NEW m \in 1 .. n PROVE Establishes(h, m, n + 1)'
    <3>1. CASE m = n
      BY <1>3, <2>2, <2>3, <3>1 DEF Establishes, M
    <3>2. CASE m # n
      <4>1. Establishes(h, m, n)
        BY <2>4, <3>2 DEF AtCall
      <4>2. (\E l \in m + 1 .. (n + 1) - 1 : M[l].call = "deleteAll")
              <=> (\E l \in m + 1 .. n - 1 : M[l].call = "deleteAll")
        BY <2>2
      <4> QED
        BY <1>3, <2>3, <4>1, <4>2 DEF Establishes, Referring, M
    <3> QED
      BY <3>1, <3>2
  <2>5. ASSUME alone[h] PROVE FoundStands(h, n + 1)'
    <3> SUFFICES ASSUME NEW m \in n + 1 .. Len(M), NextDeletion(M, n + 1, m)
                 PROVE  found[h] \subseteq Stored(M[m].kind)
      BY <1>3, <2>3 DEF FoundStands, M
    <3>1. NextDeletion(M, n, m) /\ m \in n .. Len(M)
      BY <2>1, <2>2 DEF NextDeletion
    <3> QED
      BY <2>5, <3>1 DEF AtCall, FoundStands, M
  <2>6. OthersAlone(h) /\ alone' = alone
    BY <1>3 DEF OthersAlone, RequestsInv
  <2>7. /\ DOMAIN found' = Handlers /\ DOMAIN named' = Handlers
        /\ named'[h] = Cardinality(found'[h])
    BY <1>3 DEF RequestsInv, RequestStands
  <2>8. RequestsInv'
    BY <1>1, <1>3, <2>1, <2>2, <2>4, <2>5, <2>6, <2>7, ContinueStands, SameTablesAlone
      DEF M, Writes
  <2> QED
    BY <1>3, <2>8, SoundIfIdle
<1> QED
  BY <1>1, <1>2, <1>3 DEF CheckNoId, CheckReference, CompareOld

LEMMA FindSound ==
  ASSUME RequestsInv, NEW h \in Handlers, FindReferring(h)
  PROVE  Sound(h)
<1> DEFINE M == Method(h)
           refs == Referring(Kind(h), Field(h), req[h].id)
<1>1. /\ Active(h) /\ Head(todo[h]).call = "find" /\ Continue(h)
      /\ db' = db /\ alone' = alone /\ DOMAIN found' = Handlers /\ DOMAIN named' = Handlers
      /\ \A g \in Handlers \ {h} : found'[g] = found[g] /\ named'[g] = named[g]
      /\ found'[h] = found[h] \cup refs /\ named'[h] = Cardinality(found'[h])
  BY DEF FindReferring, At, RequestsInv
<1> PICK n \in 1 .. Len(M) :
           /\ AtCall(h, n) /\ Head(todo[h]) = M[n]
           /\ Tail(todo[h]) = SubSeq(M, n + 1, Len(M))
           /\ n < Len(M) => Tail(todo[h]) # <<>>
  BY <1>1, Position
<1>2. Len(M) \in Nat /\ WritesLast(req[h], M) /\ DeletesFound(req[h], M)
  BY <1>1, Position DEF Shape
<1>3. M[n].call = "find" /\ Kind(h) = M[n].kind /\ Field(h) = M[n].field
  BY <1>1 DEF Kind, Field
<1>4. M' = M /\ req' = req /\ \A k : Stored(k)' = Stored(k)
  BY <1>1 DEF Method, Continue, Stored
<1> HIDE DEF M
<1>5. ASSUME alone[h], NEW m \in 1 .. n PROVE Establishes(h, m, n + 1)'
  <2>1. CASE m = n
    <3>1. ~ \E l \in m + 1 .. (n + 1) - 1 : M[l].call = "deleteAll"
      BY <2>1
    <3> QED
      BY <1>1, <1>3, <1>4, <2>1, <3>1 DEF Establishes, Referring, M
  <2>2. CASE m # n
    <3>1. Establishes(h, m, n)
      BY <1>5, <2>2 DEF AtCall
    <3>2. (\E l \in m + 1 .. (n + 1) - 1 : M[l].call = "deleteAll")
            <=> (\E l \in m + 1 .. n - 1 : M[l].call = "deleteAll")
      BY <1>3
    <3> QED
      BY <1>1, <1>4, <3>1, <3>2 DEF Establishes, Referring, M
  <2> QED
    BY <2>1, <2>2
<1>6. ASSUME alone[h] PROVE FoundStands(h, n + 1)'
  <2> SUFFICES ASSUME NEW m \in n + 1 .. Len(M), NextDeletion(M, n + 1, m)
               PROVE  found'[h] \subseteq Stored(M[m].kind)
    BY <1>4 DEF FoundStands, M
  <2>1. NextDeletion(M, n, m) /\ m \in n .. Len(M)
    BY <1>2, <1>3 DEF NextDeletion
  <2>2. found[h] \subseteq Stored(M[m].kind)
    BY <1>6, <2>1 DEF AtCall, FoundStands, M
  <2>3. M[m].kind = Kind(h)
    BY <1>2, <1>3 DEF DeletesFound
  <2> QED
    BY <1>1, <2>2, <2>3 DEF Referring
<1>7. OthersAlone(h)
  BY <1>1 DEF OthersAlone, RequestsInv
<1>8. RequestsInv'
  BY <1>1, <1>2, <1>3, <1>5, <1>6, <1>7, ContinueStands, SameTablesAlone DEF M, Writes
<1> QED
  BY <1>1, <1>8, SoundIfIdle

-----------------------------------------------------------------------------
(***************************************************************************)
(* Changing one table.                                                     *)
(***************************************************************************)
LEMMA ChangeTable ==
  ASSUME RequestsInv, NEW h \in Handlers, NEW k \in Kinds, NEW table,
         Change(h, k, table), table \in [Ids[k] -> Documents[k] \cup {Absent}]
  PROVE  /\ db'[k] = table /\ \A c \in Kinds \ {k} : db'[c] = db[c]
         /\ TablesHoldDocuments' /\ OthersAlone(h)
         /\ \A g \in Handlers : alone'[g] => alone[g] /\ g = h
         /\ \A c \in Kinds \ {k} : Stored(c)' = Stored(c)
         /\ Stored(k)' = {i \in Ids[k] : table[i] # Absent}
<1>1. DOMAIN db' = Kinds /\ db'[k] = table /\ \A c \in Kinds \ {k} : db'[c] = db[c]
  BY DEF Change, RequestsInv, TablesHoldDocuments
<1>2. \A g \in Handlers : alone'[g] = (g = h /\ alone[g])
  BY DEF Change
<1>3. OthersAlone(h)
  BY <1>2 DEF OthersAlone, Change, RequestsInv
<1> QED
  BY <1>1, <1>2, <1>3 DEF RequestsInv, TablesHoldDocuments, Stored

(***************************************************************************)
(* DeleteAll deletes all that was found, and so all that its kind owes.    *)
(***************************************************************************)
\* All that was found is stored, if nobody else changed the tables.
LEMMA FoundIsStored ==
  ASSUME RequestsInv, NEW h \in Handlers, At(h, "deleteAll"), alone[h]
  PROVE  found[h] \subseteq Stored(Kind(h)) /\ Cardinality(found[h]) = named[h]
<1> PICK n \in 1 .. Len(Method(h)) : AtCall(h, n) /\ Head(todo[h]) = Method(h)[n]
  BY Position DEF At
<1>1. NextDeletion(Method(h), n, n) /\ n \in n .. Len(Method(h))
  BY Position DEF NextDeletion, At
<1> QED
  BY <1>1 DEF AtCall, FoundStands, Kind, RequestsInv, RequestStands

LEMMA DeleteAllSound ==
  ASSUME RequestsInv, NEW h \in Handlers, SkipDeleteAll(h) \/ DeleteAllFound(h)
  PROVE  Sound(h)
<1> DEFINE M == Method(h)
<1> PICK k : k = Kind(h)
  OBVIOUS
<1>1. Active(h) /\ Head(todo[h]).call = "deleteAll" /\ At(h, "deleteAll")
  BY DEF SkipDeleteAll, DeleteAllFound, At
<1> PICK n \in 1 .. Len(M) :
           /\ AtCall(h, n) /\ Head(todo[h]) = M[n]
           /\ Tail(todo[h]) = SubSeq(M, n + 1, Len(M))
           /\ n < Len(M) => Tail(todo[h]) # <<>>
  BY <1>1, Position
<1>2. Len(M) \in Nat /\ WritesLast(req[h], M) /\ DeletesFound(req[h], M)
  BY <1>1, Position DEF Shape
<1>3. M[n].call = "deleteAll" /\ k = M[n].kind /\ k \in DOMAIN Owners /\ k \in Kinds
      /\ \A m \in 1 .. Len(M) : M[m].call \notin {"check", "old"}
  BY <1>1, <1>2 DEF Kind, DeletesFound, Owners, Kinds
<1> DEFINE rows == found[h] \cap Stored(k)
           table == [i \in Ids[k] |-> IF i \in rows THEN Absent ELSE db[k][i]]
<1>4. alone[h] => rows = found[h] /\ Cardinality(rows) = named[h]
  BY <1>1, FoundIsStored
<1>5. CASE Refuse(h, "notfound") \/ (Refuse(h, "internal") /\ ~alone[h])
  BY <1>5, RefuseSound DEF Answers
<1>6. ASSUME Continue(h), OthersAlone(h), TablesHoldDocuments',
             found'[h] = {}, named'[h] = 0,
             DOMAIN found' = Handlers, DOMAIN named' = Handlers,
             \A g \in Handlers \ {h} : found'[g] = found[g] /\ named'[g] = named[g],
             db' = db \/ \A g \in Handlers : alone'[g] => alone[g] /\ g = h,
             alone'[h] => alone[h],
             \A c \in Kinds \ {k} : db'[c] = db[c] /\ Stored(c)' = Stored(c),
             Stored(k)' = Stored(k) \ rows,
             \A i \in Stored(k)' : db'[k][i] = db[k][i],
             \A i \in Stored(k) : db'[k][i] \in {db[k][i], Absent}
      PROVE  Sound(h)
  <2>1. NothingOrphaned => NothingOrphaned'
    BY <1>3, <1>6 DEF NothingOrphaned, Owners, Kinds, Target
  <2>2. \A c \in Kinds : KeepsReferences(c)
    BY <1>3, <1>6 DEF KeepsReferences, Stored
  <2>3. M' = M /\ req' = req
    BY <1>6 DEF Method, Continue
  <2> HIDE DEF M, rows
  <2>4. ASSUME alone[h], NEW m \in 1 .. n PROVE Establishes(h, m, n + 1)'
    <3>1. M[m].call \notin {"check", "old"}
      BY <1>2, <1>3
    <3>2. ASSUME M[m].call = "find"
          PROVE  Referring(M[m].kind, M[m].field, req[h].id)' = {}
      <4>1. m \in 1 .. n - 1 /\ Establishes(h, m, n)
        <5>1. m # n
          BY <1>3, <3>2
        <5>2. m \in 1 .. n - 1
          BY <1>2, <5>1
        <5> QED
          BY <2>4, <5>2 DEF AtCall
      <4>2. M[m].kind \in Kinds
        BY <1>2, <3>2, <4>1 DEF DeletesFound, Owners, Kinds
      <4>3. CASE \E l \in m + 1 .. n - 1 : M[l].call = "deleteAll"
        <5>1. Referring(M[m].kind, M[m].field, req[h].id) = {}
          BY <3>2, <4>1, <4>3 DEF Establishes, M
        <5> QED
          BY <1>6, <2>3, <4>2, <5>1 DEF Referring
      <4>4. CASE ~ \E l \in m + 1 .. n - 1 : M[l].call = "deleteAll"
        <5>1. NextDeletion(M, m + 1, n) /\ n \in m + 1 .. Len(M) /\ m \in 1 .. Len(M)
          BY <1>2, <1>3, <4>1, <4>4 DEF NextDeletion
        <5>2. M[m].kind = k
          BY <1>2, <1>3, <3>2, <5>1 DEF DeletesFound
        <5>3. Referring(k, M[m].field, req[h].id) \subseteq rows
          BY <1>4, <2>4, <3>2, <4>1, <4>4, <5>2 DEF Establishes, M
        <5> QED
          BY <1>6, <2>3, <5>2, <5>3 DEF Referring
      <4> QED
        BY <4>3, <4>4
    <3> QED
      BY <2>3, <3>1, <3>2 DEF Establishes, M
  <2>5. FoundStands(h, n + 1)'
    BY <1>6, <2>3 DEF FoundStands, M
  <2>6. RequestsInv'
    BY <1>1, <1>2, <1>3, <1>6, <2>4, <2>5, ContinueStands, FS_EmptySet DEF M, Writes
  <2> QED
    BY <1>6, <2>1, <2>2, <2>6 DEF Sound
<1>7. CASE SkipDeleteAll(h)
  <2>1. db' = db /\ alone' = alone /\ found' = found /\ named' = named /\ found[h] = {}
        /\ Continue(h)
    BY <1>7 DEF SkipDeleteAll
  <2>2. named[h] = 0
    BY <2>1, FS_EmptySet DEF RequestsInv, RequestStands
  <2>3. OthersAlone(h)
    BY <2>1 DEF OthersAlone, RequestsInv
  <2> QED
    BY <1>6, <2>1, <2>2, <2>3, SameTablesAlone DEF RequestsInv
<1>8. ASSUME Change(h, k, table), Continue(h),
             found' = [found EXCEPT ![h] = {}], named' = [named EXCEPT ![h] = 0]
      PROVE  Sound(h)
  <2>1. table \in [Ids[k] -> Documents[k] \cup {Absent}]
    BY <1>3 DEF RequestsInv, TablesHoldDocuments
  <2>2. /\ db'[k] = table /\ \A c \in Kinds \ {k} : db'[c] = db[c]
        /\ TablesHoldDocuments' /\ OthersAlone(h)
        /\ \A g \in Handlers : alone'[g] => alone[g] /\ g = h
        /\ \A c \in Kinds \ {k} : Stored(c)' = Stored(c)
        /\ Stored(k)' = {i \in Ids[k] : table[i] # Absent}
    <3> HIDE DEF table
    <3> QED
      BY <1>3, <1>8, <2>1, ChangeTable
  <2>3. Stored(k)' = Stored(k) \ rows
    BY <2>2 DEF Stored
  <2>4. /\ \A i \in Stored(k)' : db'[k][i] = db[k][i]
        /\ \A i \in Stored(k) : db'[k][i] \in {db[k][i], Absent}
    BY <2>2, <2>3 DEF Stored
  <2>5. /\ found'[h] = {} /\ named'[h] = 0
        /\ DOMAIN found' = Handlers /\ DOMAIN named' = Handlers
        /\ \A g \in Handlers \ {h} : found'[g] = found[g] /\ named'[g] = named[g]
    BY <1>8 DEF RequestsInv
  <2> QED
    BY <1>6, <1>8, <2>2, <2>3, <2>4, <2>5
<1>9. CASE DeleteAllFound(h)
  <2>1. \/ /\ Change(h, k, table) /\ Continue(h)
           /\ found' = [found EXCEPT ![h] = {}] /\ named' = [named EXCEPT ![h] = 0]
        \/ Cardinality(rows) # named[h] /\ Refuse(h, "internal")
        \/ Refuse(h, "notfound")
    BY <1>9 DEF DeleteAllFound
  <2> QED
    BY <1>4, <1>5, <1>8, <2>1
<1> QED
  BY <1>7, <1>9

-----------------------------------------------------------------------------
(***************************************************************************)
(* The last calls, by what was established before.                         *)
(***************************************************************************)
LEMMA LastCall ==
  ASSUME RequestsInv, NEW h \in Handlers, Active(h), Head(todo[h]).call \in Writes
  PROVE  LET q == req[h]
             k == Kind(h)
         IN  /\ IsRequest(q) /\ k = q.service /\ k \in Kinds
             /\ Head(todo[h]).call = q.method
             /\ alone[h] /\ q.method = "create" /\ k \in DOMAIN Owners =>
                  \A f \in Owners[k] : q.doc[f] \in Stored(Target[f])
             /\ alone[h] /\ q.method = "update" /\ k # "tenant" =>
                  q.id \in Stored(k) /\ db[k][q.id] = q.doc
             /\ alone[h] /\ q.method = "delete" =>
                  \A c \in DOMAIN Owners : \A f \in Owners[c] :
                    Target[f] = k => Referring(c, f, q.id) = {}
<1> DEFINE M == Method(h)
           q == req[h]
<1>1. IsRequest(q) /\ Shape(q, M) /\ Len(M) \in Nat
  BY Position
<1> PICK n \in 1 .. Len(M) : AtCall(h, n) /\ Head(todo[h]) = M[n]
  BY Position
<1>2. n = Len(M) /\ M[n].kind = q.service /\ M[n].call = q.method
  BY <1>1 DEF Shape, WritesLast
<1>3. alone[h] => \A m \in 1 .. Len(M) - 1 : Establishes(h, m, n)
  BY <1>2 DEF AtCall
<1> HIDE DEF M
<1>4. alone[h] /\ q.method = "create" /\ q.service \in DOMAIN Owners =>
        \A f \in Owners[q.service] : q.doc[f] \in Stored(Target[f])
  BY <1>1, <1>3 DEF Shape, ChecksOwners, Establishes, M
<1>5. alone[h] /\ q.method = "update" /\ q.service # "tenant" =>
        q.id \in Stored(q.service) /\ db[q.service][q.id] = q.doc
  BY <1>1, <1>3 DEF Shape, ComparesOld, Establishes, M
<1>6. ASSUME alone[h], q.method = "delete", NEW c \in DOMAIN Owners,
             NEW f \in Owners[c], Target[f] = q.service
      PROVE  Referring(c, f, q.id) = {}
  <2>1. PICK l \in 1 .. Len(M) - 1 : \E m \in 1 .. l - 1 :
               M[m].call = "find" /\ M[m].kind = c /\ M[m].field = f
               /\ M[l].call = "deleteAll"
    BY <1>1, <1>6 DEF Shape, DeletesOwned
  <2>2. PICK m \in 1 .. l - 1 :
               M[m].call = "find" /\ M[m].kind = c /\ M[m].field = f
               /\ M[l].call = "deleteAll"
    BY <2>1
  <2>3. m \in 1 .. Len(M) - 1 /\ l \in m + 1 .. n - 1
    BY <1>1, <1>2
  <2> QED
    BY <1>3, <1>6, <2>2, <2>3 DEF Establishes, M
<1> QED
  BY <1>1, <1>2, <1>4, <1>5, <1>6 DEF Kind, IsRequest

LEMMA WriteSound ==
  ASSUME RequestsInv, NEW h \in Handlers, NEW k \in Kinds, NEW table,
         Change(h, k, table), table \in [Ids[k] -> Documents[k] \cup {Absent}],
         NEW a \in {"ok", "error"}, Return(h, a),
         alone[h] /\ NothingOrphaned => NothingOrphaned',
         alone[h] => \A c \in Kinds : KeepsReferences(c)
  PROVE  Sound(h)
<1>1. /\ TablesHoldDocuments' /\ OthersAlone(h)
      /\ \A g \in Handlers : alone'[g] => alone[g] /\ g = h
  BY ChangeTable
<1> QED
  BY <1>1, ReturnStands DEF Sound, Answers

LEMMA StoreCreateSound ==
  ASSUME RequestsInv, NEW h \in Handlers, NEW a \in {"ok", "error"},
         StoreCreate(h, a)
  PROVE  Sound(h)
<1> DEFINE d == req[h].doc
<1> PICK k : k = Kind(h)
  OBVIOUS
<1>1. /\ IsRequest(req[h]) /\ k = req[h].service /\ k \in Kinds
      /\ req[h].method = "create"
      /\ alone[h] /\ k \in DOMAIN Owners => \A f \in Owners[k] : d[f] \in Stored(Target[f])
  BY LastCall DEF StoreCreate, At, Writes
<1>2. d \in Documents[k]
  BY <1>1 DEF IsRequest
<1>3. ASSUME Refuse(h, "conflict") PROVE Sound(h)
  BY <1>3, RefuseSound DEF Answers
<1>4. ASSUME NEW i \in Ids[k] \ Stored(k), Change(h, k, [db[k] EXCEPT ![i] = d]),
             Return(h, a)
      PROVE  Sound(h)
  <2> DEFINE table == [db[k] EXCEPT ![i] = d]
  <2>1. table \in [Ids[k] -> Documents[k] \cup {Absent}] /\ table[i] = d /\ d # Absent
        /\ \A j \in Ids[k] \ {i} : table[j] = db[k][j]
    BY <1>1, <1>2, AbsentIsNoDocument DEF RequestsInv, TablesHoldDocuments
  <2> HIDE DEF table, d
  <2>2. /\ db'[k] = table /\ \A c \in Kinds \ {k} : db'[c] = db[c]
        /\ \A c \in Kinds \ {k} : Stored(c)' = Stored(c)
        /\ Stored(k)' = Stored(k) \cup {i}
    BY <1>1, <1>4, <2>1, ChangeTable DEF Stored, table, d
  <2>3. ASSUME alone[h], NothingOrphaned PROVE NothingOrphaned'
    <3> SUFFICES ASSUME NEW c \in DOMAIN Owners, NEW j \in Stored(c)', NEW f \in Owners[c]
                 PROVE  db'[c][j][f] \in Stored(Target[f])'
      BY DEF NothingOrphaned
    <3>1. c \in Kinds /\ Target[f] \in Kinds
      BY DEF Owners, Target, Kinds
    <3>2. Stored(Target[f]) \subseteq Stored(Target[f])'
      BY <2>2, <3>1
    <3>3. CASE c = k /\ j = i
      BY <1>1, <2>1, <2>2, <2>3, <3>2, <3>3 DEF d
    <3>4. CASE ~(c = k /\ j = i)
      <4>1. j \in Stored(c) /\ db'[c][j] = db[c][j]
        BY <2>1, <2>2, <3>1, <3>4 DEF Stored
      <4> QED
        BY <2>3, <3>2, <4>1 DEF NothingOrphaned
    <3> QED
      BY <3>3, <3>4
  <2>4. \A c \in Kinds : KeepsReferences(c)
    BY <1>4, <2>1, <2>2 DEF KeepsReferences, Stored
  <2> QED
    BY <1>1, <1>4, <2>1, <2>3, <2>4, WriteSound DEF table, d
<1> QED
  BY <1>3, <1>4 DEF StoreCreate

LEMMA StoreUpdateSound ==
  ASSUME RequestsInv, NEW h \in Handlers, NEW a \in {"ok", "error"},
         StoreUpdate(h, a)
  PROVE  Sound(h)
<1> DEFINE d == req[h].doc
           i == req[h].id
<1> PICK k : k = Kind(h)
  OBVIOUS
<1>1. /\ IsRequest(req[h]) /\ k = req[h].service /\ k \in Kinds
      /\ req[h].method = "update"
      /\ alone[h] /\ k # "tenant" => db[k][i] = d
  BY LastCall DEF StoreUpdate, At, Writes
<1>2. d \in Documents[k]
  BY <1>1 DEF IsRequest
<1>3. ASSUME NEW b \in {"notfound", "conflict", "error"}, Refuse(h, b)
      PROVE  Sound(h)
  BY <1>3, RefuseSound DEF Answers
<1>4. ASSUME i \in Stored(k), Change(h, k, [db[k] EXCEPT ![i] = d]), Return(h, a)
      PROVE  Sound(h)
  <2> DEFINE table == [db[k] EXCEPT ![i] = d]
  <2>1. db[k] \in [Ids[k] -> Documents[k] \cup {Absent}] /\ db[k][i] \in Documents[k]
    BY <1>1, <1>4 DEF RequestsInv, TablesHoldDocuments, Stored
  <2>2. table \in [Ids[k] -> Documents[k] \cup {Absent}]
    BY <1>2, <2>1
  <2>3. ASSUME alone[h] PROVE table = db[k]
    <3>1. CASE k = "tenant"
      <4>1. \A X : \A e, g \in [{} -> X] : e = g
        OBVIOUS
      <4>2. \E X : Documents["tenant"] \subseteq [{} -> X]
        BY DEF Documents, Kinds, Fields
      <4>3. db[k][i] = d
        BY <1>2, <2>1, <3>1, <4>1, <4>2
      <4> QED
        BY <2>1, <4>3
    <3> QED
      BY <1>1, <2>1, <2>3, <3>1
  <2> HIDE DEF table
  <2>4. db'[k] = table /\ \A c \in Kinds \ {k} : db'[c] = db[c]
    BY <1>1, <1>4, <2>2, ChangeTable DEF table
  <2>5. ASSUME alone[h]
        PROVE  /\ NothingOrphaned => NothingOrphaned'
               /\ \A c \in Kinds : KeepsReferences(c)
    <3>1. \A c \in Kinds : db'[c] = db[c]
      BY <2>3, <2>4, <2>5
    <3>2. \A c \in Kinds : Stored(c)' = Stored(c)
      BY <3>1 DEF Stored
    <3> QED
      BY <3>1, <3>2 DEF NothingOrphaned, Owners, Target, Kinds, KeepsReferences
  <2> QED
    BY <1>1, <1>4, <2>2, <2>5, WriteSound DEF table
<1> QED
  BY <1>3, <1>4 DEF StoreUpdate

LEMMA StoreDeleteSound ==
  ASSUME RequestsInv, NEW h \in Handlers, NEW a \in {"ok", "error"},
         StoreDelete(h, a)
  PROVE  Sound(h)
<1> DEFINE i == req[h].id
<1> PICK k : k = Kind(h)
  OBVIOUS
<1>1. /\ k \in Kinds /\ req[h].method = "delete"
      /\ alone[h] => \A c \in DOMAIN Owners : \A f \in Owners[c] :
           Target[f] = k => Referring(c, f, i) = {}
  BY LastCall DEF StoreDelete, At, Writes
<1>2. ASSUME Refuse(h, "notfound") PROVE Sound(h)
  BY <1>2, RefuseSound DEF Answers
<1>3. ASSUME Change(h, k, [db[k] EXCEPT ![i] = Absent]), Return(h, a)
      PROVE  Sound(h)
  <2> DEFINE table == [db[k] EXCEPT ![i] = Absent]
  <2>1. table \in [Ids[k] -> Documents[k] \cup {Absent}]
        /\ \A j \in Ids[k] : table[j] = IF j = i THEN Absent ELSE db[k][j]
    BY <1>1 DEF RequestsInv, TablesHoldDocuments
  <2> HIDE DEF table
  <2>2. /\ db'[k] = table /\ \A c \in Kinds \ {k} : db'[c] = db[c]
        /\ \A c \in Kinds \ {k} : Stored(c)' = Stored(c)
        /\ Stored(k)' = Stored(k) \ {i}
    BY <1>1, <1>3, <2>1, ChangeTable DEF Stored, table
  <2>3. ASSUME alone[h], NothingOrphaned PROVE NothingOrphaned'
    <3> SUFFICES ASSUME NEW c \in DOMAIN Owners, NEW j \in Stored(c)', NEW f \in Owners[c]
                 PROVE  db'[c][j][f] \in Stored(Target[f])'
      BY DEF NothingOrphaned
    <3>1. c \in Kinds /\ Target[f] \in Kinds
      BY DEF Owners, Target, Kinds
    <3>2. j \in Stored(c) /\ db'[c][j] = db[c][j]
      BY <2>1, <2>2, <3>1 DEF Stored
    <3>3. db[c][j][f] \in Stored(Target[f])
      BY <2>3, <3>2 DEF NothingOrphaned
    <3>4. Target[f] = k => db[c][j][f] # i
      BY <1>1, <2>3, <3>2 DEF Referring
    <3> QED
      BY <2>2, <3>1, <3>2, <3>3, <3>4
  <2>4. \A c \in Kinds : KeepsReferences(c)
    BY <2>1, <2>2 DEF KeepsReferences, Stored
  <2> QED
    BY <1>1, <1>3, <2>1, <2>3, <2>4, WriteSound DEF table
<1> QED
  BY <1>2, <1>3 DEF StoreDelete

-----------------------------------------------------------------------------
LEMMA BeginSound ==
  ASSUME RequestsInv, NEW h \in Handlers, NEW q \in Requests, Begin(h, q)
  PROVE  Sound(h)
<1> DEFINE M == Methods[q.service][q.method]
<1>1. IsRequest(q)
  BY RequestsAreCalls
<1>2. M \in Seq(CallsFor(q)) /\ M # <<>>
  BY <1>1, MethodsFit
<1>3. /\ req'[h] = q /\ todo'[h] = M /\ reply'[h] = "none"
      /\ UNCHANGED <<db, found, named>>
  BY DEF Begin, RequestsInv
<1>4. OthersAlone(h) /\ OthersWait(h)
  BY DEF Begin, RequestsInv, OthersAlone, OthersWait
<1>5. found[h] = {} /\ named[h] = Cardinality(found[h])
  BY DEF Begin, RequestsInv, RequestStands
<1>6. Method(h)' = M
  BY <1>3 DEF Method
<1> HIDE DEF M
<1>7. M = SubSeq(M, 1, Len(M)) /\ 1 \in 1 .. Len(M)
  BY <1>2
<1>8. AtCall(h, 1)'
  BY <1>3, <1>5, <1>6, <1>7 DEF AtCall, FoundStands
<1>9. RequestStands(h)'
  BY <1>1, <1>2, <1>3, <1>5, <1>6, <1>7, <1>8 DEF RequestStands, Active
<1>10. RequestsInv'
  BY <1>3, <1>4, <1>9, OthersStand, SameTablesAlone
<1> QED
  BY <1>3, <1>10, SoundIfIdle

LEMMA NextSound ==
  ASSUME RequestsInv, Next
  PROVE  \E h \in Handlers : Sound(h)
<1> PICK h \in Handlers : (\E q \in Requests : Begin(h, q)) \/ Step(h) \/ Fail(h)
  BY DEF Next
<1>1. CASE \E q \in Requests : Begin(h, q)
  BY <1>1, BeginSound
<1>2. CASE Fail(h)
  BY <1>2, RefuseSound DEF Fail, Answers
<1>3. CASE CheckNoId(h) \/ CheckReference(h) \/ CompareOld(h)
  BY <1>3, ChecksSound
<1>4. CASE FindReferring(h)
  BY <1>4, FindSound
<1>5. CASE SkipDeleteAll(h) \/ DeleteAllFound(h)
  BY <1>5, DeleteAllSound
<1>6. CASE \E a \in {"ok", "error"} :
             StoreCreate(h, a) \/ StoreUpdate(h, a) \/ StoreDelete(h, a)
  BY <1>6, StoreCreateSound, StoreUpdateSound, StoreDeleteSound
<1> QED
  BY <1>1, <1>2, <1>3, <1>4, <1>5, <1>6 DEF Step

\* A step that changes nothing.
LEMMA StutterSound ==
  ASSUME RequestsInv, UNCHANGED vars
  PROVE  /\ RequestsInv' /\ NothingOrphaned' = NothingOrphaned
         /\ \A k \in Kinds : KeepsReferences(k)
<1>1. /\ db' = db /\ req' = req /\ todo' = todo /\ found' = found
      /\ named' = named /\ reply' = reply /\ alone' = alone
  BY DEF vars, locals
<1>2. \A g \in Handlers : RequestStands(g)' /\ (alone'[g] => reply'[g] # "internal")
  BY <1>1, StandsStill
<1> QED
  BY <1>1, <1>2, SameTablesAlone DEF RequestsInv, NoCorruptionAnswered, KeepsReferences

LEMMA RequestsInvHolds == Spec => []RequestsInv
<1>1. RequestsInv /\ [Next]_vars => RequestsInv'
  BY NextSound, StutterSound DEF Sound
<1> QED
  BY <1>1, InitRequestsInv, PTL DEF Spec

LEMMA IsolatedSound ==
  ASSUME RequestsInv, [Next /\ Isolated]_vars
  PROVE  /\ RequestsInv' /\ (NothingOrphaned => NothingOrphaned')
         /\ \A k \in Kinds : KeepsReferences(k)
<1>1. CASE Next /\ Isolated
  <2> PICK h \in Handlers : Sound(h)
    BY <1>1, NextSound
  <2>1. db' = db \/ alone[h]
    BY <1>1 DEF Sound, Isolated
  <2> QED
    BY <2>1, SameTablesAlone DEF Sound, KeepsReferences
<1>2. CASE UNCHANGED vars
  BY <1>2, StutterSound
<1> QED
  BY <1>1, <1>2

(***************************************************************************)
(* DeleteAll answers "data corruption" (Internal) to no request that ran   *)
(* while no other changed what is stored: the services call it with ids    *)
(* that are stored, and with each of them once (unionMap).                 *)
(***************************************************************************)
THEOREM NoCorruptionAlone == Spec => []NoCorruptionAnswered
<1>1. RequestsInv => NoCorruptionAnswered
  BY DEF RequestsInv
<1> QED
  BY <1>1, RequestsInvHolds, PTL

(***************************************************************************)
(* When the requests that change what is stored are isolated, no           *)
(* membership and no config outlives its owner, wherever requests fail and *)
(* the server crashes: the deletions go from the dependent tables to the   *)
(* owner, and creations check first.                                       *)
(***************************************************************************)
THEOREM NothingIsOrphanedAlone == IsolatedSpec => []NothingOrphaned
<1>1. RequestsInv /\ NothingOrphaned /\ [Next /\ Isolated]_vars
        => (RequestsInv /\ NothingOrphaned)'
  BY IsolatedSound
<1> QED
  BY <1>1, InitRequestsInv, PTL DEF IsolatedSpec

(***************************************************************************)
(* When the requests that change what is stored are isolated, the          *)
(* references of a stored document never change: each Update but that of   *)
(* tenants compares them with the stored ones, and a tenant has none.      *)
(***************************************************************************)
THEOREM ReferencesKeptAlone == IsolatedSpec => ReferencesKept
<1>1. RequestsInv /\ [Next /\ Isolated]_vars
        => RequestsInv' /\ [\A k \in Kinds : KeepsReferences(k)]_vars
  BY IsolatedSound
<1> QED
  BY <1>1, InitRequestsInv, PTL DEF IsolatedSpec, ReferencesKept

LEMMA OneHandlerStaysAlone ==
  ASSUME NEW h, Handlers = {h}, alone = [g \in Handlers |-> TRUE], [Next]_vars
  PROVE  alone' = [g \in Handlers |-> TRUE]
<1>1. ASSUME NEW k, NEW table, Change(h, k, table)
      PROVE  alone' = [g \in Handlers |-> TRUE]
  BY <1>1 DEF Change
<1>2. ASSUME alone' = alone PROVE alone' = [g \in Handlers |-> TRUE]
  BY <1>2
<1>3. CASE UNCHANGED vars
  BY <1>3 DEF vars
<1>4. CASE \E q \in Requests : Begin(h, q)
  BY <1>4 DEF Begin
<1>5. CASE Step(h)
  <2>1. CASE CheckNoId(h) \/ CheckReference(h) \/ CompareOld(h) \/ FindReferring(h)
             \/ SkipDeleteAll(h)
    BY <2>1 DEF CheckNoId, CheckReference, CompareOld, FindReferring,
       SkipDeleteAll, Refuse
  <2>2. CASE DeleteAllFound(h) \/ \E a \in {"ok", "error"} :
               StoreCreate(h, a) \/ StoreUpdate(h, a) \/ StoreDelete(h, a)
    BY <1>1, <2>2 DEF DeleteAllFound, StoreCreate, StoreUpdate, StoreDelete, Refuse
  <2> QED
    BY <1>5, <2>1, <2>2 DEF Step
<1>6. CASE Fail(h)
  BY <1>6 DEF Fail, Refuse
<1> QED
  BY <1>3, <1>4, <1>5, <1>6 DEF Next

(***************************************************************************)
(* Requests that run one at a time, as a single handler runs them, are     *)
(* isolated.                                                               *)
(***************************************************************************)
THEOREM OneHandlerIsIsolated ==
  ASSUME NEW h, Handlers = {h}
  PROVE  Spec => IsolatedSpec
<1> DEFINE AllAlone == alone = [g \in Handlers |-> TRUE]
<1>1. Init => AllAlone
  BY DEF Init
<1>2. AllAlone /\ [Next]_vars => AllAlone'
  BY OneHandlerStaysAlone
<1>3. AllAlone' /\ [Next]_vars => [Next /\ Isolated]_vars
  BY DEF Isolated
<1> QED
  BY <1>1, <1>2, <1>3, PTL DEF Spec, IsolatedSpec

-----------------------------------------------------------------------------
(***************************************************************************)
(* How the deletion of a tenant or a project ends.                         *)
(***************************************************************************)
\* Calls that are not the last one do not end it with ok or notfound.
LEMMA GoesOn ==
  ASSUME RequestsInv, NEW h \in Handlers, Active(h), Continue(h),
         Head(todo[h]).call \notin Writes
  PROVE  todo'[h] # <<>>
<1> PICK n \in 1 .. Len(Method(h)) :
           /\ Head(todo[h]) = Method(h)[n]
           /\ n < Len(Method(h)) => Tail(todo[h]) # <<>>
  BY Position
<1>1. Len(Method(h)) \in Nat /\ n < Len(Method(h))
  BY Position DEF Shape, WritesLast
<1> QED
  BY <1>1 DEF Continue, RequestsInv

\* It makes no call but find, deleteAll and delete.
LEMMA DeletionCalls ==
  ASSUME RequestsInv, NEW h \in Handlers, Active(h), req[h].method = "delete",
         req[h].service \in {"tenant", "project"}
  PROVE  Head(todo[h]).call \notin {"check", "old", "create", "update"}
<1> DEFINE M == Method(h)
<1>1. Shape(req[h], M) /\ Len(M) \in Nat
  BY Position
<1> PICK n \in 1 .. Len(M) : Head(todo[h]) = M[n]
  BY Position
<1> HIDE DEF M
<1>2. \E k \in DOMAIN Owners : \E f \in Owners[k] : Target[f] = req[h].service
  <2>1. /\ "tenantconfig" \in DOMAIN Owners /\ "tenant" \in Owners["tenantconfig"]
        /\ "projectconfig" \in DOMAIN Owners /\ "project" \in Owners["projectconfig"]
        /\ Target["tenant"] = "tenant" /\ Target["project"] = "project"
    BY DEF Owners, Target
  <2> QED
    BY <2>1
<1>3. \E l \in 1 .. Len(M) - 1 : M[l].call = "deleteAll"
  BY <1>1, <1>2 DEF Shape, DeletesOwned
<1>4. M[n].call \notin {"check", "old"}
  BY <1>1, <1>3 DEF Shape, DeletesFound
<1>5. M[n].call \notin {"create", "update"}
  BY <1>1 DEF Shape, WritesLast, Writes
<1> QED
  BY <1>4, <1>5

LEMMA LastDeletionCleans ==
  ASSUME RequestsInv, NEW h \in Handlers, NEW a \in {"ok", "error"}, alone[h],
         StoreDelete(h, a), req[h].method = "delete",
         NEW k \in {"tenant", "project"}, req[h].service = k, NEW i, req[h].id = i
  PROVE  Gone(k, i)'
<1>1. /\ k = Kind(h) /\ k \in Kinds /\ k \notin DOMAIN Owners
      /\ \A c \in DOMAIN Owners : \A f \in Owners[c] :
           Target[f] = k => Referring(c, f, i) = {}
  BY LastCall DEF StoreDelete, At, Writes, Owners
<1>2. /\ \A c \in Kinds \ {k} : db'[c] = db[c]
      /\ i \notin Stored(k)'
  <2>1. CASE i \notin Stored(k) /\ db' = db
    BY <2>1 DEF Stored
  <2>2. CASE Change(h, k, [db[k] EXCEPT ![i] = Absent])
    <3> DEFINE table == [db[k] EXCEPT ![i] = Absent]
    <3>1. /\ table \in [Ids[k] -> Documents[k] \cup {Absent}]
          /\ i \in Ids[k] => table[i] = Absent
      BY <1>1 DEF RequestsInv, TablesHoldDocuments
    <3> HIDE DEF table
    <3>2. /\ \A c \in Kinds \ {k} : db'[c] = db[c]
          /\ Stored(k)' = {j \in Ids[k] : table[j] # Absent}
      BY <1>1, <2>2, <3>1, ChangeTable DEF table
    <3> QED
      BY <3>1, <3>2
  <2> QED
    BY <1>1, <2>1, <2>2 DEF StoreDelete, Refuse
<1>3. ASSUME NEW f \in DOMAIN Target, Target[f] = k PROVE ~Owns(f, i)'
  <2> SUFFICES ASSUME NEW c \in DOMAIN Owners, f \in Owners[c],
                      NEW j \in Stored(c)', db'[c][j][f] = i
               PROVE  FALSE
    BY DEF Owns
  <2>1. c \in Kinds \ {k}
    BY <1>1 DEF Owners, Kinds
  <2>2. j \in Referring(c, f, i)
    BY <1>2, <2>1 DEF Referring, Stored
  <2> QED
    BY <1>1, <1>3, <2>2
<1> QED
  BY <1>2, <1>3 DEF Gone

LEMMA OthersDoNotEnd ==
  ASSUME RequestsInv, NEW g \in Handlers, NEW h \in Handlers \ {g},
         (\E q \in Requests : Begin(g, q)) \/ Step(g) \/ Fail(g)
  PROVE  todo'[h] = todo[h]
BY DEF RequestsInv, Begin, Step, Fail, CheckNoId, CheckReference, CompareOld,
  FindReferring, SkipDeleteAll, DeleteAllFound, StoreCreate, StoreUpdate,
  StoreDelete, Refuse, Return, Continue

LEMMA EndsClean ==
  ASSUME RequestsInv, Next, NEW h \in Handlers, NEW k \in {"tenant", "project"},
         NEW i \in Ids[k], DeletionEnds(h, k, i, {"ok", "notfound"}), alone[h]
  PROVE  Gone(k, i)'
<1>1. /\ Active(h) /\ todo'[h] = <<>> /\ reply'[h] \in {"ok", "notfound"}
      /\ req[h].service = k /\ req[h].method = "delete" /\ req[h].id = i
  BY DEF DeletionEnds
<1>2. Step(h) \/ Fail(h)
  <2> PICK g \in Handlers : (\E q \in Requests : Begin(g, q)) \/ Step(g) \/ Fail(g)
    BY DEF Next
  <2>1. g = h
    BY <1>1, OthersDoNotEnd DEF Active
  <2> QED
    BY <1>1, <2>1 DEF Begin
<1>3. Head(todo[h]).call \notin {"check", "old", "create", "update"}
  BY <1>1, DeletionCalls
<1>4. ASSUME NEW b, Refuse(h, b) PROVE reply'[h] = b
  BY <1>4 DEF Refuse, Return, RequestsInv
<1>5. ASSUME NEW b, At(h, b), b \notin Writes PROVE ~Continue(h)
  BY <1>1, <1>5, GoesOn DEF At
<1>6. CASE Fail(h)
  BY <1>1, <1>4, <1>6 DEF Fail
<1>7. CASE CheckNoId(h)
  BY <1>1, <1>4, <1>5, <1>7 DEF CheckNoId, Writes
<1>8. CASE FindReferring(h) \/ SkipDeleteAll(h)
  BY <1>5, <1>8 DEF FindReferring, SkipDeleteAll, Writes
<1>9. CASE DeleteAllFound(h)
  <2>1. /\ found[h] \cap Stored(Kind(h)) = found[h]
        /\ ~Continue(h)
    BY <1>5, <1>9, FoundIsStored DEF DeleteAllFound, Writes
  <2>2. Refuse(h, "internal")
    BY <1>9, <2>1 DEF DeleteAllFound
  <2> QED
    BY <1>1, <1>4, <2>2
<1>10. CASE \E a \in {"ok", "error"} : StoreDelete(h, a)
  BY <1>1, <1>10, LastDeletionCleans
<1>11. ~(CheckReference(h) \/ CompareOld(h)
         \/ \E a \in {"ok", "error"} : StoreCreate(h, a) \/ StoreUpdate(h, a))
  BY <1>3 DEF CheckReference, CompareOld, StoreCreate, StoreUpdate, At
<1> QED
  BY <1>2, <1>6, <1>7, <1>8, <1>9, <1>10, <1>11 DEF Step

(***************************************************************************)
(* However many requests run, fail and crash, and whatever they left       *)
(* behind: the deletion of a tenant or a project that answers ok or        *)
(* NotFound leaves nothing that belongs to the entity, unless another      *)
(* request changed what is stored while it ran.                            *)
(***************************************************************************)
THEOREM RepeatedDeletionCleans == Spec => DeletionAloneCleans
<1>1. RequestsInv /\ [Next]_vars
        => [\A h \in Handlers, k \in {"tenant", "project"} : \A i \in Ids[k] :
              DeletionEnds(h, k, i, {"ok", "notfound"}) /\ alone[h] => Gone(k, i)']_vars
  BY EndsClean
<1> QED
  BY <1>1, RequestsInvHolds, PTL DEF Spec, DeletionAloneCleans

-----------------------------------------------------------------------------
(***************************************************************************)
(* The types.  That a count of found ids is a number rests on the tables   *)
(* being finite at any time, although any number of ids may be there.      *)
(***************************************************************************)
TablesFinite == \A k \in Kinds : IsFiniteSet(Stored(k))

LocalsTyped ==
  /\ \A h \in Handlers : req[h] = NoRequest \/ IsRequest(req[h])
  /\ \A h \in Handlers : IsFiniteSet(found[h])
  /\ found \in [Handlers -> SUBSET AllIds]
  /\ named \in [Handlers -> Nat]
  /\ reply \in [Handlers -> Answers]

Typed == TablesFinite /\ LocalsTyped

LEMMA ReturnTyped ==
  ASSUME RequestsInv, LocalsTyped, NEW h \in Handlers, NEW a \in Answers, Return(h, a)
  PROVE  LocalsTyped'
BY FS_EmptySet DEF RequestsInv, LocalsTyped, Return

LEMMA ContinueTyped ==
  ASSUME RequestsInv, LocalsTyped, NEW h, Continue(h), NEW F \in SUBSET AllIds,
         IsFiniteSet(F), found' = [found EXCEPT ![h] = F],
         named' = [named EXCEPT ![h] = Cardinality(F)]
  PROVE  LocalsTyped'
BY FS_CardinalityType DEF RequestsInv, LocalsTyped, Continue

LEMMA SameTyped ==
  ASSUME Typed, db' = db PROVE TablesFinite'
BY DEF Typed, TablesFinite, Stored

LEMMA RefuseTyped ==
  ASSUME RequestsInv, Typed, NEW h \in Handlers, NEW a \in Answers, Refuse(h, a)
  PROVE  Typed'
BY ReturnTyped, SameTyped DEF Typed, Refuse

\* A change stores at most one more entity.
LEMMA ChangeTyped ==
  ASSUME RequestsInv, Typed, NEW h \in Handlers, NEW k \in Kinds, NEW table,
         Change(h, k, table), table \in [Ids[k] -> Documents[k] \cup {Absent}],
         NEW i, \A j \in Ids[k] \ {i} : table[j] # Absent => j \in Stored(k)
  PROVE  TablesFinite'
<1> SUFFICES ASSUME NEW c \in Kinds PROVE IsFiniteSet(Stored(c)')
  BY DEF TablesFinite
<1>1. IsFiniteSet(Stored(c)) /\ IsFiniteSet(Stored(k) \cup {i})
  BY FS_AddElement DEF Typed, TablesFinite
<1>2. Stored(k)' \subseteq Stored(k) \cup {i} /\ (c # k => Stored(c)' = Stored(c))
  BY ChangeTable
<1> QED
  BY <1>1, <1>2, FS_Subset

LEMMA CallsTyped ==
  ASSUME RequestsInv, Typed, NEW h \in Handlers,
         CheckNoId(h) \/ CheckReference(h) \/ CompareOld(h) \/ SkipDeleteAll(h)
  PROVE  Typed'
<1>1. ASSUME NEW a \in Answers, Refuse(h, a) PROVE Typed'
  BY <1>1, RefuseTyped
<1>2. ASSUME Continue(h), UNCHANGED <<db, used, alone, found, named>> PROVE Typed'
  BY <1>2, SameTyped DEF Typed, LocalsTyped, Continue
<1> QED
  BY <1>1, <1>2 DEF CheckNoId, CheckReference, CompareOld, SkipDeleteAll, Answers

\* What a call is about.
LEMMA CallKind ==
  ASSUME RequestsInv, NEW h \in Handlers, Active(h),
         Head(todo[h]).call \in {"find", "deleteAll"}
  PROVE  Kind(h) \in Kinds
<1>1. Shape(req[h], Method(h)) /\ \E n \in 1 .. Len(Method(h)) : Head(todo[h]) = Method(h)[n]
  BY Position
<1> QED
  BY <1>1 DEF Shape, DeletesFound, Owners, Kinds, Kind

LEMMA FindTyped ==
  ASSUME RequestsInv, Typed, NEW h \in Handlers, FindReferring(h)
  PROVE  Typed'
<1> DEFINE F == found[h] \cup Referring(Kind(h), Field(h), req[h].id)
<1>1. Continue(h) /\ db' = db
  BY DEF FindReferring
<1>2. Referring(Kind(h), Field(h), req[h].id) \subseteq Stored(Kind(h))
      /\ Kind(h) \in Kinds
  BY CallKind DEF Referring, FindReferring, At
<1>3. Stored(Kind(h)) \subseteq AllIds /\ IsFiniteSet(Stored(Kind(h)))
  BY <1>2 DEF AllIds, Stored, Typed, TablesFinite
<1>4. F \in SUBSET AllIds /\ IsFiniteSet(F)
  <2>1. IsFiniteSet(Referring(Kind(h), Field(h), req[h].id))
    BY <1>2, <1>3, FS_Subset
  <2> QED
    BY <1>2, <1>3, <2>1, FS_Union DEF Typed, LocalsTyped
<1>5. /\ found' = [found EXCEPT ![h] = F]
      /\ named' = [named EXCEPT ![h] = Cardinality(F)]
  BY DEF FindReferring, Typed, LocalsTyped
<1> HIDE DEF F
<1> QED
  BY <1>1, <1>4, <1>5, ContinueTyped, SameTyped DEF Typed

LEMMA DeleteAllTyped ==
  ASSUME RequestsInv, Typed, NEW h \in Handlers, DeleteAllFound(h)
  PROVE  Typed'
<1> DEFINE k == Kind(h)
           rows == found[h] \cap Stored(k)
           table == [i \in Ids[k] |-> IF i \in rows THEN Absent ELSE db[k][i]]
<1>1. k \in Kinds
  BY CallKind DEF DeleteAllFound, At
<1>2. ASSUME NEW a \in Answers, Refuse(h, a) PROVE Typed'
  BY <1>2, RefuseTyped
<1>3. ASSUME Change(h, k, table), Continue(h),
             found' = [found EXCEPT ![h] = {}], named' = [named EXCEPT ![h] = 0]
      PROVE  Typed'
  <2>1. table \in [Ids[k] -> Documents[k] \cup {Absent}]
    BY <1>1 DEF RequestsInv, TablesHoldDocuments
  <2>2. \A j \in Ids[k] : table[j] # Absent => j \in Stored(k)
    BY DEF Stored
  <2>3. LocalsTyped'
    BY <1>3, ContinueTyped, FS_EmptySet DEF Typed
  <2>4. TablesFinite'
    <3> HIDE DEF table
    <3> QED
      BY <1>1, <1>3, <2>1, <2>2, ChangeTyped
  <2> QED
    BY <2>3, <2>4 DEF Typed
<1> QED
  BY <1>2, <1>3 DEF DeleteAllFound, Answers

LEMMA WriteTyped ==
  ASSUME RequestsInv, Typed, NEW h \in Handlers, NEW a \in {"ok", "error"},
         StoreCreate(h, a) \/ StoreUpdate(h, a) \/ StoreDelete(h, a)
  PROVE  Typed'
<1> DEFINE k == Kind(h)
           d == req[h].doc
<1>1. ASSUME NEW b \in Answers, Refuse(h, b) PROVE Typed'
  BY <1>1, RefuseTyped
<1>2. k \in Kinds /\ k = req[h].service /\ IsRequest(req[h])
      /\ Head(todo[h]).call = req[h].method
  BY LastCall DEF StoreCreate, StoreUpdate, StoreDelete, At, Writes
<1>3. ASSUME NEW i, NEW e \in Documents[k] \cup {Absent},
             Change(h, k, [db[k] EXCEPT ![i] = e]), Return(h, a)
      PROVE  Typed'
  <2> DEFINE table == [db[k] EXCEPT ![i] = e]
  <2>1. /\ table \in [Ids[k] -> Documents[k] \cup {Absent}]
        /\ \A j \in Ids[k] \ {i} : table[j] # Absent => j \in Stored(k)
    BY <1>2 DEF RequestsInv, TablesHoldDocuments, Stored
  <2> HIDE DEF table
  <2>2. TablesFinite'
    BY <1>2, <1>3, <2>1, ChangeTyped DEF table
  <2> QED
    BY <1>3, <2>2, ReturnTyped DEF Typed, Answers
<1>4. CASE StoreCreate(h, a)
  <2>1. d \in Documents[k]
    BY <1>2, <1>4 DEF StoreCreate, At, IsRequest
  <2> QED
    BY <1>1, <1>3, <1>4, <2>1 DEF StoreCreate, Answers
<1>5. CASE StoreUpdate(h, a)
  <2>1. d \in Documents[k]
    BY <1>2, <1>5 DEF StoreUpdate, At, IsRequest
  <2> QED
    BY <1>1, <1>3, <1>5, <2>1 DEF StoreUpdate, Answers
<1>6. CASE StoreDelete(h, a)
  BY <1>1, <1>3, <1>6 DEF StoreDelete, Answers
<1> QED
  BY <1>4, <1>5, <1>6

LEMMA BeginTyped ==
  ASSUME RequestsInv, Typed, NEW h \in Handlers, NEW q \in Requests, Begin(h, q)
  PROVE  Typed'
BY RequestsAreCalls, SameTyped DEF Begin, RequestsInv, Typed, LocalsTyped, Answers

LEMMA NextTyped ==
  ASSUME RequestsInv, Typed, [Next]_vars
  PROVE  Typed'
<1>1. CASE UNCHANGED vars
  BY <1>1 DEF vars, locals, Typed, TablesFinite, LocalsTyped, Stored
<1>2. CASE Next
  <2> PICK h \in Handlers : (\E q \in Requests : Begin(h, q)) \/ Step(h) \/ Fail(h)
    BY <1>2 DEF Next
  <2>1. CASE Fail(h)
    BY <2>1, RefuseTyped DEF Fail, Answers
  <2> QED
    BY <2>1, BeginTyped, CallsTyped, FindTyped, DeleteAllTyped, WriteTyped DEF Step
<1> QED
  BY <1>1, <1>2

LEMMA InitTyped == Init => Typed
<1> SUFFICES ASSUME Init PROVE Typed
  OBVIOUS
<1>1. \A k \in Kinds : Stored(k) = {}
  BY DEF Init, Stored
<1> QED
  BY <1>1, FS_EmptySet DEF Init, Typed, TablesFinite, LocalsTyped, Answers

\* No method makes more than six calls.
LEMMA MethodsAreShort ==
  ASSUME NEW q, IsRequest(q)
  PROVE  Len(Methods[q.service][q.method]) \in 1 .. 6
BY DEF Methods, IsRequest, Kinds, TenantCreate, TenantUpdate, TenantDelete,
   TenantMemberCreate, TenantMemberUpdate, TenantMemberDelete, TenantConfigCreate,
   TenantConfigUpdate, TenantConfigDelete, ProjectCreate, ProjectUpdate, ProjectDelete,
   ProjectMemberCreate, ProjectMemberUpdate, ProjectMemberDelete, ProjectConfigCreate,
   ProjectConfigUpdate, ProjectConfigDelete

LEMMA FewCallsToDo ==
  ASSUME RequestsInv, NEW h \in Handlers
  PROVE  Len(todo[h]) <= 6
<1>1. CASE ~Active(h)
  BY <1>1 DEF Active
<1>2. CASE Active(h)
  <2> DEFINE M == Method(h)
             C == CallsFor(req[h])
  <2>1. IsRequest(req[h])
    BY <1>2, Position
  <2>2. M \in Seq(C) /\ Len(M) \in 1 .. 6
    BY <2>1, MethodsFit, MethodsAreShort DEF Method
  <2>3. PICK n \in 1 .. Len(M) : todo[h] = SubSeq(M, n, Len(M))
    BY <1>2, Position DEF AtCall
  <2> HIDE DEF M, C
  <2>4. Len(todo[h]) = Len(M) - n + 1
    BY <2>2, <2>3
  <2>5. \A l \in 1 .. 6 : \A m \in 1 .. l : l - m + 1 <= 6
    OBVIOUS
  <2>6. Len(M) - n + 1 <= 6
    BY <2>2, <2>5
  <2> QED
    BY <2>4, <2>6
<1> QED
  BY <1>1, <1>2

(***************************************************************************)
(* The tables hold documents of their kind, the ids that were used are ids *)
(* of the kind, and each handler works on a request or none, with a finite *)
(* number of ids found and at most six calls to make.                      *)
(***************************************************************************)
THEOREM TenancyTypes == Spec => []TypeOK
<1>1. RequestsInv /\ Typed /\ [Next]_vars => Typed'
  BY NextTyped
<1>2. RequestsInv /\ ConfigInv /\ Typed => TypeOK
  BY FewCallsToDo DEF RequestsInv, TablesHoldDocuments, ConfigInv, TablesFit, Typed,
     LocalsTyped, TypeOK
<1> QED
  BY <1>1, <1>2, RequestsInvHolds, ConfigInvHolds, InitTyped, PTL DEF Spec
=============================================================================
