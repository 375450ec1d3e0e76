----------------------------- MODULE Migration -----------------------------
(***************************************************************************)
(* The start of a replica: InitTables and MigrateDB, and then it serves.   *)
(* The replicas of a deployment start at the same time, on one database,   *)
(* while the servers of the previous release go on serving requests        *)
(* (deployment.yaml: RollingUpdate), and write the format they know.       *)
(*                                                                         *)
(* A migration is a function that is given a transaction, and all but the  *)
(* CREATE INDEX statements of these functions go past it, through the      *)
(* connection pool: they take effect at once and stay when the transaction *)
(* is rolled back.  Any error ends the process (main, log.Fatalf), and it  *)
(* is started again.                                                       *)
(*                                                                         *)
(* External, modelled from how the code uses them: the migrator (it counts *)
(* the applied migrations once, runs the others in order, each in a        *)
(* transaction that also inserts its number as a primary key) and Postgres *)
(* (CREATE INDEX keeps writers off its table until the transaction ends).  *)
(* A call to the storage layer is one step, as in Tenancy.                 *)
(***************************************************************************)
EXTENDS Naturals, FiniteSets, Sequences

CONSTANTS
  Replicas,
  Tenants,      \* ids of tenants: numbers, in the order of the column id
  RowIds,       \* RowIds[k] are the ids of table k: numbers, in that order
  Members,      \* what a membership is about: (project, tenant, namespace)
  Key,          \* Key[m]: the text of m that the loop over the rows compares
  Versions,     \* the versions that tenants may have at first
  Absent,       \* there is no row
  Nobody,       \* the owner of a lock that is free
  MaxChanges,   \* bound: number of changes that clients make
  MaxFailures   \* bound: number of failures of calls and processes

\* The tables of memberships, in the order in which they are treated.
Tables == <<"projectmembers", "tenantmembers">>
TableNames == {Tables[n] : n \in DOMAIN Tables}

ASSUME IdsAreOrdered ==
  /\ Tenants \subseteq Nat
  /\ \A k \in TableNames : RowIds[k] \subseteq Nat

ASSUME MarksAreNone == Absent \notin Members \cup Nat /\ Nobody \notin Replicas

ASSUME BoundsAreNumbers ==
  Versions \subseteq Nat /\ MaxChanges \in Nat /\ MaxFailures \in Nat

\* The migrations in their order.
Sample == 1
Quota == 2
Unique == 3
Migrations == {Sample, Quota, Unique}

VARIABLES
  tenant,     \* tenant[t] is the version of tenant t, or Absent
  newFormat,  \* the tenants that are stored in the format of this release
  late,       \* those a server of the previous release has written behind the
              \* back of a replica that migrates them (auxiliary)
  member,     \* member[k][i] is what row i of table k is about, or Absent
  applied,    \* number of rows in the table of migrations
  index,      \* the tables whose unique index exists
  lock,       \* lock[k]: the replica whose transaction creates the index of k
  entry,      \* the replica whose transaction has inserted a number, or Nobody
  at,         \* where each replica is in its start
  changes,    \* number of changes clients have made
  failures,   \* number of failures
  had,        \* the memberships there ever were (auxiliary)
  dropped     \* those of which a client deleted a row, or which it created
              \* under an id that a replica was about to delete (auxiliary)

tenantData == <<tenant, newFormat, late>>
data == <<tenantData, member>>
schema == <<applied, index>>
locks == <<lock, entry>>
aux == <<had, dropped>>
vars == <<data, schema, locks, at, changes, failures, aux>>

(***************************************************************************)
(* Where a replica is: its phase, the number of the migration it runs, of  *)
(* the table that migration treats, the ids it has yet to update or to     *)
(* delete, and the versions under which it has read those tenants.         *)
(***************************************************************************)
Place == [phase : {"down", "func", "update", "dedupe", "index", "record",
                   "commit", "serving"},
          migration : Migrations, nth : DOMAIN Tables,
          todo : SUBSET Nat, read : [Tenants -> Nat]]

Down == [phase |-> "down", migration |-> Sample, nth |-> 1, todo |-> {},
         read |-> [t \in Tenants |-> 0]]

StoredTenants == {t \in Tenants : tenant[t] # Absent}

Stored(k) == {i \in RowIds[k] : member[k][i] # Absent}

Memberships == UNION {{<<k, member[k][i]>> : i \in Stored(k)} : k \in TableNames}

TypeOK ==
  /\ tenant \in [Tenants -> Nat \cup {Absent}]
  /\ newFormat \subseteq Tenants /\ late \subseteq Tenants
  /\ DOMAIN member = TableNames
  /\ \A k \in TableNames : member[k] \in [RowIds[k] -> Members \cup {Absent}]
  /\ applied \in 0 .. Cardinality(Migrations) /\ index \subseteq TableNames
  /\ lock \in [TableNames -> Replicas \cup {Nobody}]
  /\ entry \in Replicas \cup {Nobody}
  /\ at \in [Replicas -> Place]
  /\ changes \in 0 .. MaxChanges /\ failures \in 0 .. MaxFailures
  /\ had \subseteq TableNames \X Members /\ dropped \subseteq had

\* A database of the previous release: no migration was ever recorded.
Init ==
  /\ tenant \in [Tenants -> Versions \cup {Absent}]
  /\ newFormat = {} /\ late = {}
  /\ \E all \in [TableNames ->
                   UNION {[RowIds[k] -> Members \cup {Absent}] : k \in TableNames}] :
       /\ \A k \in TableNames : DOMAIN all[k] = RowIds[k]
       /\ member = all
  /\ applied = 0 /\ index = {}
  /\ lock = [k \in TableNames |-> Nobody] /\ entry = Nobody
  /\ at = [r \in Replicas |-> Down]
  /\ changes = 0 /\ failures = 0
  /\ had = Memberships /\ dropped = {}

-----------------------------------------------------------------------------
In(r, phase) == at[r].phase = phase

Go(r, phase) == at' = [at EXCEPT ![r].phase = phase]

\* Mutation: an error of MigrateDB is not noticed.
ExitUnnoticed(r) ==
  /\ at' = [at EXCEPT ![r] = [Down EXCEPT !.phase = "serving"]]
  /\ lock' = [k \in TableNames |-> IF lock[k] = r THEN Nobody ELSE lock[k]]
  /\ entry' = IF entry = r THEN Nobody ELSE entry

\* An error: the transaction is rolled back and the process ends.
Exit(r) ==
  /\ at' = [at EXCEPT ![r] = Down]
  /\ lock' = [k \in TableNames |-> IF lock[k] = r THEN Nobody ELSE lock[k]]
  /\ entry' = IF entry = r THEN Nobody ELSE entry

\* Mutation: there is one migration more.
StartAtOneMore(r, n) ==
  at' = [at EXCEPT ![r] = IF n <= Cardinality(Migrations) + 1
                          THEN [Down EXCEPT !.phase = "func", !.migration = n]
                          ELSE [Down EXCEPT !.phase = "serving"]]

\* The migrations that r has counted as applied are those before n.
StartAt(r, n) ==
  at' = [at EXCEPT ![r] = IF n \in Migrations
                          THEN [Down EXCEPT !.phase = "func", !.migration = n]
                          ELSE [Down EXCEPT !.phase = "serving"]]

\* The process starts, creates the tables that are missing, and counts the
\* migrations that are recorded.
Start(r) ==
  /\ In(r, "down")
  /\ StartAt(r, applied + 1)
  /\ UNCHANGED <<data, schema, locks, changes, failures, aux>>

\* The function of the first migration only reads.
RunSample(r) ==
  /\ In(r, "func") /\ at[r].migration = Sample
  /\ Go(r, "record")
  /\ UNCHANGED <<data, schema, locks, changes, failures, aux>>

(***************************************************************************)
(* The second migration reads all tenants and then updates each of them,   *)
(* so that it is stored in the new format.  The optimistic lock refuses a  *)
(* tenant whose version has grown since, and Update one that was deleted;  *)
(* one that was deleted and created again starts over, and is overwritten. *)
(***************************************************************************)
FindTenants(r) ==
  /\ In(r, "func") /\ at[r].migration = Quota
  /\ at' = [at EXCEPT ![r] = [@ EXCEPT !.phase = "update", !.todo = StoredTenants,
              !.read = [t \in Tenants |-> IF t \in StoredTenants THEN tenant[t]
                                                               ELSE 0]]]
  /\ UNCHANGED <<data, schema, locks, changes, failures, aux>>

First(S) == CHOOSE i \in S : \A j \in S : i <= j

Refused(r, t) == t \in StoredTenants => at[r].read[t] < tenant[t]

\* A server of this release has written tenant t.
WrittenNew(t) == newFormat' = newFormat \cup {t} /\ late' = late \ {t}

UpdateDone(r, t) == at' = [at EXCEPT ![r].todo = @ \ {t}, ![r].read[t] = 0]

\* Mutation: an update that fails is skipped.
UpdateTenantLeniently(r) ==
  /\ In(r, "update") /\ at[r].todo # {}
  /\ LET t == First(at[r].todo)
     IN  /\ IF Refused(r, t) THEN UNCHANGED tenantData
            ELSE /\ tenant' = [tenant EXCEPT ![t] = at[r].read[t] + 1]
                 /\ WrittenNew(t)
         /\ UpdateDone(r, t)
  /\ UNCHANGED <<member, schema, locks, changes, failures, aux>>

UpdateTenant(r) ==
  /\ In(r, "update") /\ at[r].todo # {}
  /\ LET t == First(at[r].todo)
     IN  \/ /\ Refused(r, t)
            /\ Exit(r)
            /\ UNCHANGED tenantData
         \/ /\ ~Refused(r, t)
            /\ tenant' = [tenant EXCEPT ![t] = at[r].read[t] + 1]
            /\ WrittenNew(t)
            /\ UpdateDone(r, t)
            /\ UNCHANGED locks
  /\ UNCHANGED <<member, schema, changes, failures, aux>>

UpdatesDone(r) ==
  /\ In(r, "update") /\ at[r].todo = {}
  /\ Go(r, "record")
  /\ UNCHANGED <<data, schema, locks, changes, failures, aux>>

(***************************************************************************)
(* The third migration reads a table of memberships, and deletes all rows  *)
(* whose text an earlier row has; then the other table; then it creates    *)
(* the unique indexes.  Both reads are ordered by id.  The text joins the  *)
(* three parts with "|", which a part may contain, too: different          *)
(* memberships may have one text.  The indexes are on the three parts.     *)
(***************************************************************************)
TableOf(r) == Tables[at[r].nth]

Text(k, i) == Key[member[k][i]]

Duplicates(k) ==
  {i \in Stored(k) : \E j \in Stored(k) : j < i /\ Text(k, j) = Text(k, i)}

\* The rows for which the unique index cannot be created.
Repeated(k) ==
  {i \in Stored(k) : \E j \in Stored(k) : j < i /\ member[k][j] = member[k][i]}

\* Mutation: the rows come in any order.
FindMembersUnordered(r) ==
  /\ In(r, "func") /\ at[r].migration = Unique
  /\ \E kept \in SUBSET Stored(TableOf(r)) :
       /\ \A text \in {Text(TableOf(r), i) : i \in Stored(TableOf(r))} :
            Cardinality({i \in kept : Text(TableOf(r), i) = text}) = 1
       /\ at' = [at EXCEPT ![r] = [@ EXCEPT !.phase = "dedupe",
                                            !.todo = Stored(TableOf(r)) \ kept]]
  /\ UNCHANGED <<data, schema, locks, changes, failures, aux>>

\* Mutation: a row is compared with the one before it only.
FindMembersAdjacent(r) ==
  /\ In(r, "func") /\ at[r].migration = Unique
  /\ LET k == TableOf(r)
     IN  at' = [at EXCEPT ![r] = [@ EXCEPT !.phase = "dedupe", !.todo =
                  {i \in Duplicates(k) : \E j \in Stored(k) :
                     /\ j < i /\ Text(k, j) = Text(k, i)
                     /\ \A l \in Stored(k) : j < l => i <= l}]]
  /\ UNCHANGED <<data, schema, locks, changes, failures, aux>>

FindMembers(r) ==
  /\ In(r, "func") /\ at[r].migration = Unique
  /\ at' = [at EXCEPT ![r] = [@ EXCEPT !.phase = "dedupe",
                                       !.todo = Duplicates(TableOf(r))]]
  /\ UNCHANGED <<data, schema, locks, changes, failures, aux>>

\* A storage call that writes to a table waits for the creation of its index.
Writable(k) == lock[k] = Nobody

DeleteDuplicate(r) ==
  /\ In(r, "dedupe") /\ at[r].todo # {} /\ Writable(TableOf(r))
  /\ LET k == TableOf(r)
         i == First(at[r].todo)
     IN  \/ /\ i \notin Stored(k)
            /\ Exit(r)
            /\ UNCHANGED data
         \/ /\ i \in Stored(k)
            /\ member' = [member EXCEPT ![k][i] = Absent]
            /\ at' = [at EXCEPT ![r].todo = @ \ {i}]
            /\ UNCHANGED <<tenantData, locks>>
  /\ UNCHANGED <<schema, changes, failures, aux>>

\* On to the next table, or to what comes after the last one.
NextTable(r, phase, after) ==
  at' = [at EXCEPT ![r] = IF at[r].nth < Len(Tables)
                          THEN [@ EXCEPT !.phase = phase, !.nth = at[r].nth + 1]
                          ELSE [@ EXCEPT !.phase = after, !.nth = 1]]

TableDeduped(r) ==
  /\ In(r, "dedupe") /\ at[r].todo = {}
  /\ NextTable(r, "func", "index")
  /\ UNCHANGED <<data, schema, locks, changes, failures, aux>>

\* CREATE UNIQUE INDEX IF NOT EXISTS.  A statement that waited for another one
\* to commit finds that the index has come into being, and fails.
CreateIndex(r) ==
  /\ In(r, "index") /\ Writable(TableOf(r))
  /\ LET k == TableOf(r)
     IN  \/ /\ k \in index \/ Repeated(k) # {}
            /\ Exit(r)
         \/ /\ k \in index
            /\ NextTable(r, "index", "record")
            /\ UNCHANGED locks
         \/ /\ k \notin index /\ Repeated(k) = {}
            /\ lock' = [lock EXCEPT ![k] = r]
            /\ NextTable(r, "index", "record")
            /\ UNCHANGED entry
  /\ UNCHANGED <<data, schema, changes, failures, aux>>

(***************************************************************************)
(* The migrator inserts the number of the migration, waiting for others    *)
(* that have inserted it, and commits.                                     *)
(***************************************************************************)
Record(r) ==
  /\ In(r, "record") /\ entry = Nobody
  /\ \/ /\ applied >= at[r].migration
        /\ Exit(r)
     \/ /\ applied < at[r].migration
        /\ entry' = r
        /\ Go(r, "commit")
        /\ UNCHANGED lock
  /\ UNCHANGED <<data, schema, changes, failures, aux>>

Committed(r) ==
  /\ In(r, "commit")
  /\ applied' = at[r].migration
  /\ index' = index \cup {k \in TableNames : lock[k] = r}
  /\ lock' = [k \in TableNames |-> IF lock[k] = r THEN Nobody ELSE lock[k]]
  /\ entry' = Nobody
  /\ UNCHANGED <<data, changes, aux>>

\* On to the next migration.  After the last one MigrateDB returns, and main
\* starts the server.
Commit(r) ==
  /\ Committed(r)
  /\ StartAt(r, at[r].migration + 1)
  /\ UNCHANGED failures

(***************************************************************************)
(* A call to the database fails, or the process dies, anywhere.            *)
(***************************************************************************)
Fails == failures < MaxFailures /\ failures' = failures + 1

Fail(r) ==
  /\ Fails
  /\ ~In(r, "down")
  /\ Exit(r)
  /\ UNCHANGED <<data, schema, changes, aux>>

\* The commit takes effect, and its answer is lost.
CommitUnanswered(r) ==
  /\ Fails
  /\ Committed(r)
  /\ at' = [at EXCEPT ![r] = Down]

-----------------------------------------------------------------------------
(***************************************************************************)
(* Clients change the data through the servers that run.                   *)
(***************************************************************************)
Changes == changes < MaxChanges /\ changes' = changes + 1

\* Replica r has read row i as a duplicate and will delete it.
Doomed(r, k, i) == In(r, "dedupe") /\ TableOf(r) = k /\ i \in at[r].todo

CreateMember(k, i, m) ==
  /\ Changes
  /\ i \notin Stored(k) /\ Writable(k)
  /\ k \in index => \A j \in Stored(k) : member[k][j] # m
  /\ member' = [member EXCEPT ![k][i] = m]
  /\ had' = had \cup {<<k, m>>}
  /\ dropped' = IF \E r \in Replicas : Doomed(r, k, i)
                THEN dropped \cup {<<k, m>>} ELSE dropped
  /\ UNCHANGED <<tenantData, schema, locks, at, failures>>

DeleteMember(k, i) ==
  /\ Changes
  /\ i \in Stored(k) /\ Writable(k)
  /\ member' = [member EXCEPT ![k][i] = Absent]
  /\ dropped' = dropped \cup {<<k, member[k][i]>>}
  /\ UNCHANGED <<tenantData, schema, locks, at, failures, had>>

\* Replica r runs migration m and has done what it is for.
Done(r, m) == at[r].migration = m /\ at[r].phase \in {"record", "commit"}

\* Some replica has migrated tenant t already, or will not.
Behind(t) ==
  \/ applied >= Quota
  \/ \E r \in Replicas : In(r, "update") /\ t \notin at[r].todo
  \/ \E r \in Replicas : Done(r, Quota)

\* Tenant t is written by a server of this release or of the previous one.
Written(t) ==
  \/ /\ \E r \in Replicas : In(r, "serving")
     /\ WrittenNew(t)
  \/ /\ newFormat' = newFormat \ {t}
     /\ late' = IF Behind(t) THEN late \cup {t} ELSE late \ {t}

ClientCreatesTenant(t) ==
  /\ Changes
  /\ t \notin StoredTenants
  /\ tenant' = [tenant EXCEPT ![t] = 0]
  /\ Written(t)
  /\ UNCHANGED <<member, schema, locks, at, failures, aux>>

ClientUpdatesTenant(t) ==
  /\ Changes
  /\ t \in StoredTenants
  /\ tenant' = [tenant EXCEPT ![t] = tenant[t] + 1]
  /\ Written(t)
  /\ UNCHANGED <<member, schema, locks, at, failures, aux>>

ClientDeletesTenant(t) ==
  /\ Changes
  /\ t \in StoredTenants
  /\ tenant' = [tenant EXCEPT ![t] = Absent]
  /\ UNCHANGED <<newFormat, late, member, schema, locks, at, failures, aux>>

-----------------------------------------------------------------------------
Step(r) ==
  \/ Start(r) \/ RunSample(r)
  \/ FindTenants(r) \/ UpdateTenant(r) \/ UpdatesDone(r)
  \/ FindMembers(r) \/ DeleteDuplicate(r) \/ TableDeduped(r) \/ CreateIndex(r)
  \/ Record(r) \/ Commit(r)

ClientStep ==
  \/ \E k \in TableNames : \E i \in RowIds[k] :
       DeleteMember(k, i) \/ \E m \in Members : CreateMember(k, i, m)
  \/ \E t \in Tenants :
       ClientCreatesTenant(t) \/ ClientUpdatesTenant(t) \/ ClientDeletesTenant(t)

Next == \/ ClientStep
        \/ \E r \in Replicas : Step(r) \/ Fail(r) \/ CommitUnanswered(r)

\* A process that can go on does, and one that ended is started again.
Spec == Init /\ [][Next]_vars /\ \A r \in Replicas : WF_vars(Step(r))

-----------------------------------------------------------------------------
\* The memberships that the loop over the rows takes for m.
Same(m) == {o \in Members : Key[o] = Key[m]}

(***************************************************************************)
(* Removing duplicates leaves, of every membership that was ever stored, a *)
(* row that has its text, unless a client deleted one, or created it under *)
(* an id that a replica has read as that of a duplicate.  Replicas delete  *)
(* what they read before, each past its transaction and again after        *)
(* failures; that none of them deletes the row another one keeps rests on  *)
(* the order of Find and on keeping the first ("seen[key]").  Of different *)
(* memberships with one text, one may be deleted: the text is all that the *)
(* code compares.                                                          *)
(***************************************************************************)
NoMembershipLost ==
  \A d \in had : \E m \in Same(d[2]) : <<d[1], m>> \in Memberships \cup dropped

(***************************************************************************)
(* When the migration of the quota field is recorded, every tenant is in   *)
(* the new format ("Migrate quota field": all tenants are updated), those  *)
(* excepted that a server of the previous release wrote after a replica    *)
(* had migrated them, or created after it had read them: whichever replica *)
(* got how far, whoever failed, and whatever was deleted, created again or *)
(* updated meanwhile.                                                      *)
(***************************************************************************)
QuotaIsMigrated == applied >= Quota => StoredTenants \subseteq newFormat \cup late

(***************************************************************************)
(* A replica that serves does so on a migrated database: all migrations    *)
(* are recorded, both indexes exist, and no membership is stored twice     *)
(* ("failed to migrate database" ends the process otherwise).              *)
(***************************************************************************)
ServesMigrated ==
  \A r \in Replicas : In(r, "serving") =>
    /\ applied = Cardinality(Migrations)
    /\ index = TableNames
    /\ \A k \in TableNames : Repeated(k) = {}

(***************************************************************************)
(* In the end all replicas serve: that they fail because of each other and *)
(* of requests (a tenant updated meanwhile, a duplicate created or deleted *)
(* meanwhile, a number recorded meanwhile) and start again comes to an     *)
(* end, and they do not wait for each other for ever.                      *)
(***************************************************************************)
AllServe == <>[](\A r \in Replicas : In(r, "serving"))

-----------------------------------------------------------------------------
(***************************************************************************)
(* The inductive invariant, for any number of replicas.                    *)
(***************************************************************************)
\* A migration is run only when those before it are recorded, and committed
\* by the one replica that has inserted its number.
NumbersFit(r) ==
  /\ at[r].migration <= applied + 1
  /\ In(r, "update") => at[r].migration = Quota
  /\ at[r].phase \in {"dedupe", "index"} => at[r].migration = Unique
  /\ In(r, "commit") => entry = r /\ applied < at[r].migration
  /\ In(r, "serving") => applied = Unique

\* A tenant that r has not updated is among those it will update, or late.
UpdatesFit(r) ==
  /\ In(r, "update") => StoredTenants \subseteq newFormat \cup late \cup at[r].todo
  /\ Done(r, Quota) => StoredTenants \subseteq newFormat \cup late

\* Which tables the transaction of r has given an index.
IndexedBy(r, n) ==
  at[r].migration = Unique /\ (Done(r, Unique) \/ (In(r, "index") /\ n < at[r].nth))

IndexesFit ==
  /\ \A k \in TableNames : k \in index \/ lock[k] # Nobody => Repeated(k) = {}
  /\ \A r \in Replicas : \A n \in DOMAIN Tables :
       IndexedBy(r, n) => Tables[n] \in index \/ lock[Tables[n]] = r
  /\ applied = Unique => index = TableNames

\* Of every membership the first row with its text is one that no replica
\* will delete.
FirstRow(k, m, i) ==
  /\ i \in Stored(k) /\ Text(k, i) = Key[m]
  /\ \A j \in Stored(k) : Text(k, j) = Key[m] => i <= j

FirstRowsStay ==
  \A k \in TableNames : \A m \in Members :
    <<k, m>> \in had /\ (\A o \in Same(m) : <<k, o>> \notin dropped) =>
      \E i \in RowIds[k] :
        FirstRow(k, m, i) /\ \A r \in Replicas : ~Doomed(r, k, i)

MigrationInv ==
  /\ TypeOK
  /\ Memberships \subseteq had
  /\ QuotaIsMigrated
  /\ \A r \in Replicas : NumbersFit(r) /\ UpdatesFit(r)
  /\ IndexesFit
  /\ FirstRowsStay
=============================================================================
