# Verification of tenant-apiserver

TLA+ models of the tenant-apiserver, TLC configurations that check them, and
machine-checked proofs of what they check. Paths are those of the
repository, below `src/` in `PROJECT.json`.

## The system

The server stores tenants, projects, their members and their configs in
Postgres and serves them over gRPC. A deployment runs two replicas
(`deployment.yaml`), every request is a goroutine, and all of them share one
database; nothing else is shared, so concurrency and failure all meet in
Postgres. The command `memory` starts a single process that keeps everything in
maps instead.

| component | state | operations | interacts with |
|---|---|---|---|
| the interface `Storage`, `api/entity.go`, and its wrapper, `service.go` | none | the operations of a backend | services call it, backends implement it |
| generic storage, `postgres.go` | a table (id, JSON document) and a history table per entity type | Create, Update, Get, Delete, DeleteAll, Find, GetHistory, GetHistoryCreated | Postgres, in transactions of its own |
| six services, `pkg/service` | none | Create, Update, Delete, Get, List, GetHistory | several storages, one call after the other |
| participation queries, `tenant.go` | none | FindParticipatingProjects, FindParticipatingTenants, ListTenantMembers | joins over the tables, two SELECTs each |
| paging, `postgres.go` and the List methods | none; the client carries the page number | Find, List | a table that changes between two pages |
| start of a replica, `main.go`, `migrate.go` | the table of migrations, the unique indexes | NewPostgresDB, MigrateDB, then serving | storage, the other replica, running servers |
| in-memory storage, `memory.go` | a map and a mutex | the storage interface | the goroutines of the command `memory` |
| health, `health.go` | a map of statuses that nothing reads | Check, SetServingStatus | migrations |
| error codes, listeners, CLI, version | none | I/O | |

What is hard:

* **The storage layer decides outside of its transactions.** Update reads the
  stored document, compares its version with the client's, copies
  `created_time`, takes a timestamp, and only then begins a transaction whose
  UPDATE names nothing but the id. Delete and DeleteAll journal a document they
  read before. Whatever commits in between is not noticed.
* **A change is two writes**, to the table and to its history, and DeleteAll
  makes many of them. They must all happen or none, whatever call fails, and
  whether or not the acknowledgement of the commit arrives.
* **DeleteAll locks several rows**, in an order it does not choose.
* **Services make several storage calls** with no transaction around them. A
  deletion cascades over three tables and may stop after each; a creation
  checks that what it refers to is there and creates afterwards.
* **Migrations run beside their transaction.** The functions are given a
  transaction and use the connection pool, so what they update and delete stays
  when they fail and is done again when the replica starts again, while the
  other replica does the same and old servers change the data.
* **The history is sorted by the clocks of the servers**, each its own, and a
  call takes its time before it waits for its row.
* **The map of the in-memory backend is replaced without its mutex.**
* **A listing is many queries**, and an offset means another row after every
  change.

What makes each component correct: the history is a complete journal of the
table (storage); nothing outlives its owner and references do not change
(services); what is there all the time is in the answer, and the queries agree
with each other (participation); no membership is lost, and whoever serves
serves a migrated database (start of a replica); calls take effect at one moment
or not at all (both backends); every entity that is left alone is listed once
(paging).

## Modules

| module | models |
|---|---|
| `Storage` | what a backend promises its callers: a call takes effect at one moment between its arrival and its answer, or is refused with a reason. The abstract specification of both backends. |
| `JournaledTable` | what the storage layer promises: a table and its journal that change together, one transaction a step. The abstract specification. |
| `Datastore` | `postgres.go`: the storage methods as the database calls they consist of, run by concurrent handlers |
| `DatastoreProperties` | its properties, and its inductive invariants: `IInv`, `SerialInv` for calls that do not overlap, and `ClocksInv` for clocks that agree besides |
| `MCDatastore` | instances for TLC |
| `Datastore_proofs`, `DatastoreProperties_proofs`, `MemoryStore_proofs`, `Tenancy_proofs`, `TenancyAlone_proofs`, `Participation_proofs`, `Paging_proofs`, `Migration_proofs` | theorems and their proofs |
| `Tenancy` | the methods of the six services as sequences of storage calls |
| `TenancyProperties`, `MCTenancy` | its properties, the inductive invariants `ConfigInv` and `RequestsInv`, and its instances |
| `Participation` | the participation queries, on top of `Tenancy`: its `Next` runs between their SELECTs |
| `ParticipationProperties`, `MCParticipation` | its properties and instances |
| `MemoryStore`, `MCMemoryStore` | `memory.go`: the methods as steps between which other goroutines run |
| `Paging` | `addPaging`, the next page of Find, and a client that lists a table |
| `Migration`, `MCMigration` | the start of replicas: tables, the three migrations, the migrator, failures, restarts, and clients of the servers that run |

Two abstract specifications stand for one backend: `JournaledTable` says what
the database goes through (a table and its history, transaction by
transaction), `Storage` what callers see (calls and answers that overlap).
`Datastore` implements both, `JournaledTable` with the identity as refinement
mapping (`JSpec`), `Storage` with one that hides versions, times, history,
locks and the places of handlers (`INSTANCE Storage WITH`, `KeepsPromise`; the
mapping is `StoredValues` and `PendingCalls`).
`MemoryStore` implements `Storage` only, for it keeps no history.

### Datastore and the code

A handler `h` works on at most one request (`req[h]`) and is at `pc[h]`:

| pc | code | actions |
|---|---|---|
| idle | the checks of the arguments | `Reject`, `DeleteNothing`, `BeginCreate`, `BeginChange` |
| read | Get, once for Update and Delete, once per id for DeleteAll; the version check of Update | `ReadRow`, `ReadAbsent`, `ReadStale`, `ReadFails` |
| stamp | `pbNow()` of Create and Update | `Stamp` |
| exec | BeginTx and the INSERT, UPDATE or DELETE; waiting for row locks | `ExecRow` (one row of it), `ExecMiss`, `DeadlockVictim` |
| journal | insertHistory, one row at a time, in any order of ids | `Journal` |
| commit | `tx.Commit()` | `Commit(h, "ok")`, `Commit(h, "error")` |

`Fail` ends a request anywhere: a call to the database fails, the client
cancels, or the server dies; the deferred rollback, or Postgres, undoes what
the transaction did. `Commit(h, "error")` is a commit whose acknowledgement is
lost. A retry is a further request. `table` and `history` hold what is
committed; what a transaction has written is held by its handler (`journal`,
`NewRow`) until it commits, which is what READ COMMITTED shows to others, and
`lock` says which rows it has locked. A waiting statement looks at its row
again when it gets the lock, as Postgres does under READ COMMITTED.

Abstracted: a document is its version, its creation time and a payload;
`updated_time` and the kind are left out. `now()` is the clock of the server
that runs the call, and gives any time (`Times`): times of two servers are not
ordered, may be equal, and a clock may step back. What the code needs of clocks
is stated as an assumption of those properties that rest on it (`ClocksAgree`),
never of the model.
`commits` and `Entry.n` number transactions for the properties and exist in no
table. Answers are `invalid`, `notfound`, `conflict`, `internal` (DeleteAll's
"data corruption") and `error` for everything else. A DELETE of several rows
locks them one at a time in any order; Postgres would skip a row that was
deleted and inserted again while the statement ran, the model may delete it, so
it allows more than happens. Versions are unbounded, the int64 is not modelled.

### Tenancy and the code

A method is a sequence of calls: `Check` (Get of a referenced entity),
`ReadOld` (Get of the stored entity and the comparison of the fields that may
not change), `Find`, `DeleteFound`, and `Create`, `Update` or `Delete`. Each
call is one step, which `Datastore` justifies: a storage call takes effect in
one transaction or not at all (`AnswersAreTruthful`). It forgets versions, so
an Update may be refused as outdated at any time. Two consequences of
`Datastore` are kept: DeleteAll answers NotFound when a read misses and
Internal when its statement deletes fewer rows, and an UPDATE compares nothing
with what was read. `used` remembers ids because a generated UUID is a new one.
`alone` is auxiliary: no other handler changed the database since this request
began. `IsolatedSpec` are the behaviours in which a request changes something
only while it is alone; requests overlap in them, but none acts on what another
one has changed since. A tenant's projects are not deleted with it, in the code and the model.
Namespaces are compared like the unique indexes do (`Clashes`).

### Participation and the code

The six SELECTs (`DirectProjects` ... `InheritedMembers`) are sets of rows over
the tables of `Tenancy`, joins and conditions as in the code; a row names the
entity it is about and the membership it comes from. A query collects the rows
of its direct SELECT, then, if asked, of its inherited one (`SelectDirect`,
`SelectInherited`); the keys of the result map are `Found(rows)`. `RunQuery`
may stop at any row without an error, as its loop does. Annotations, which are
merged into the same map, are left out. Each SELECT sees one state of the
database. `broken` and `steady` are auxiliary: whether a SELECT broke
off, and what participated at every moment of the query, directly or by
inheritance (`Participating`), but for what began to do so directly between the
SELECTs (`Turned`). Queries change
nothing, so one at a time is enough, and its answer is sent before the next
step of a request.

### Storage and the code

The interface has no comments but "Storage"; what it promises is what its
callers, the services, rely on. A caller has at most one call; `TakeEffect` is
the moment it happens and is answered in, `Refuse` an answer without effect.
An answer `error` tells nothing. An Update may be refused as outdated whatever
is stored, since the abstract values have no versions, and as not found,
because `postgres.go` reports any failure of its read in this way; a Delete may
not. `StorageStatusWrapper` passes calls on and is therefore part of the
promise, not a step of its own. A backend's "answer" step is the one in which
the outcome is certain (`Commit`, or the decision under the mutex): nothing
that others see happens between it and the return.

### MemoryStore and the code

`Lock`, `Look` (`_, ok := m.entities[id]`), `Load` and `Assign` (the two halves
of `m.entities[id] = ve` and of `delete`), `Unlock` (deferred). `Begin` is the
entry of a method; `DeleteAll` is the step after it, without the mutex. Its race with a goroutine that has loaded the map
and not yet written is resolved either way: `old` are those goroutines, and
what they write goes to the replaced map. Get and Find change nothing; that
Find ignores its filters, and that documents without an id share the empty one,
is not repaired by the services: with this backend the deletion of a tenant
takes everybody's members and configs along (both by Find and by DeleteAll).

### Paging and the code

`result` are the rows that satisfy the WHERE clause, ordered by id; creations,
updates and deletions of other requests are `Enter` and `Leave`. `List` is a
call of a List method: `Limit`, `Offset` and `NextPage` are the values of
`addPaging` in uint64 arithmetic, `Width` stands for 2^64, and `HasNext` is the
condition under which Find names a next page. Postgres refuses what does not
fit a bigint (`OutOfRange`, `ListFails`). A request without a Paging
(`NoPaging`) has neither LIMIT nor OFFSET, and gets all rows at once. The client
is external; it starts without a page and
then asks for what it is told; one that sends no count gets one page. The
members' List methods do not page. A listing of one table by one client is
enough: listings do not change anything.

### Migration and the code

`at[r]` is where a replica is: counting what is applied (`Start`), running the
function of a migration (`func`, `update`, `dedupe`, `index`), inserting its
number (`record`), committing, serving. A storage call is one step, as in
`Tenancy`; the optimistic lock of Update is kept (`read`: the versions under
which this replica has read the tenants), because that is how one replica, or a
client, makes another replica fail; a tenant that was deleted and created again
starts at version 0 and is overwritten, as in the code. `Exit` is `log.Fatalf`,
with the rollback of the transaction. External are the migrator (it counts the
applied migrations once, at its start, and the number of a migration is a
primary key), and the lock that CREATE INDEX holds on its table until the end of
the transaction.

Duplicates are what the code takes for such: rows with the same text. `Key` is
the text `fmt.Sprintf("%s|%s|%s", ...)` of a membership, which need not tell
memberships apart, since no handler refuses a `|` in an id or a namespace; the
index is on the three parts (`Repeated`). The instances have two memberships
with one text. `NoMembershipLost` therefore speaks of a row with the same text.

Clients create and delete memberships and create, update and delete tenants,
through servers that run already: those of this release, which write the new
format, once a replica serves, and those of the previous one, which
`deployment.yaml` (RollingUpdate) keeps running and which write the old format
(`Written`). How they store it is not in this repository; all that is modelled
is that it is not the new one.

What the code leaves open is excluded by name. `dropped` takes note of a
membership that a client deletes (of two duplicates a client deletes the one
that is kept while a replica is about to delete the other: both are gone), and
of one it creates under an id that a replica has read as that of a duplicate
(the replica deletes it). `late` takes note of a tenant that a server of the
previous release writes when some replica has migrated it already, or has read
the tenants without it: it stays in the old format when the migration is
recorded.

## Runs

All runs but those marked *violation* pass. The numbers are distinct states.

| run | instance | question |
|---|---|---|
| `datastore_life` | 3 handlers, 1 id, 5 requests (125,000) | Does the storage layer implement `JournaledTable` when creations, updates and deletions of one entity overlap, fail and are retried? `IInv`, `TableIsJournalTail`, `LivesAlternate`, `JSpec`, `AnswersAreTruthful` |
| `datastore_many` | 2 handlers, 2 ids, every call, 4 requests (96,000) | The same for DeleteAll of overlapping sets, generated ids and refused arguments; and is every call answered, deadlocks included (`CallsReturn`)? Does it keep the promise of the interface (`KeepsPromise`)? |
| `datastore_serial` | 2 handlers, 2 ids, 5 requests, 5 times (1,340,000) | What holds when calls on one entity do not overlap and clocks agree (`SerialClocksSpec`), across failures, retries and lost answers: `VersionsGrow`, `DeletionRecordsLastRow`, `CreatedTimeKept`, `HistoryAnswersLatest`, by the invariants `SerialInv` and `ClocksInv` |
| `datastore_lost_update` | *violation* | `VersionsGrow` when calls overlap: the optimistic lock loses an update |
| `tenancy_serial` | 2 handlers, all services but that of project members, 2 tenants (1,850,000) | Isolated requests (`IsolatedSpec`), with a crash anywhere: `NothingOrphaned`, `ReferencesKept` |
| `tenancy_overlap` | 2 handlers, all services, 2 tenants (2,210,000) | `DeletionAloneCleans`: a deletion repeated in peace removes whatever races and crashes left; `NoCorruptionAnswered`: it is not refused as corrupt; `ConfigReferencesKept`: generated ids protect configs from what projects and members are exposed to |
| `tenancy_orphan` | *violation* | `DeletionCleans`: a config created while its tenant is deleted survives it |
| `participation_queries` | 1 handler, 2 tenants, 2 project memberships, 2 namespaces (1,830,000) | Do the queries agree with each other on every database (`QueriesAgree`), list no project twice (`ProjectIdsDistinct`) and find what participates all the time, in one way or the other, but for what turns direct between the SELECTs (`SteadyIsFound`)? |
| `participation_broken` | *violation* | `AllAreReturned`: rows that break off are answered as complete |
| `memory_store` | 3 goroutines, 2 ids, every call, 4 calls (308,000) | Does the in-memory backend keep the promise of the interface until DeleteAll is called (`KeepsPromiseUntilWiped`, by the invariant `IInv`), and does every call return (`CallsReturn`)? |
| `paging` | 4 entities, five page sizes, no count and no paging, numbers of 16 values (137,000) | What can a listing skip (`NothingSkipped`) or repeat (`NothingTwice`) while the table changes, by the invariant `IInv`, and is it completed (`ListingEnds`)? |
| `migration` | 2 replicas, 1 tenant, 2 and 3 membership rows, 3 memberships of which 2 have one text, 1 change, 1 failure (1,840,000) | Is a membership lost (`NoMembershipLost`), a tenant left in the old format (`QuotaIsMigrated`), or a database served that is not migrated (`ServesMigrated`)? Do both replicas serve in the end (`AllServe`)? |

**What the hypotheses exclude.** The code enforces none of them. What happens
without them follows from the lines named, and is not among the runs but for
three:

* Calls on one entity overlap (`OneAtATime`). Two updates from one version both
  succeed (`datastore_lost_update`). An update that commits between the read of a
  deletion and its statement is missing from the history row of the deletion
  (`postgres.go:255`; no comment promises that it is not). An update that
  overlaps a deletion and a new creation stores, and journals, the
  `created_time` of the earlier life (`postgres.go:189`). And a call takes the
  time of its history row before it waits for the lock of its row, so that
  `GetHistory` may answer with the change that was overwritten
  (`postgres.go:182`), even if all clocks agree.
* The clocks of two servers differ (`ClocksAgree`). History rows are stamped by
  the server that runs the call (`postgres.go:25`, `462`). When the later one of
  two changes runs where the clock is behind, or gives the same time,
  `GetHistory` answers with the earlier change, with a document, say, after its
  deletion was answered; the calls need not overlap.
* Requests overlap (`IsolatedSpec`). A config created while its tenant is deleted
  survives the deletion (`tenancy_orphan`). A project that is deleted and created
  for another tenant after an update has compared its tenant
  (`project.go:64`) is moved to the tenant of the old one by that update.
* A SELECT breaks off (`participation_broken`), or a participation turns from
  inherited to direct between the two SELECTs (`Turned`): it is missed.
* DeleteAll of the in-memory backend is called (`wiped`): entities nobody named
  are gone (`memory.go:70`), although `DeleteAll deletes the entities with the
  given ids` in the other backend (`postgres.go:295`).
* Two memberships have one text (`Same`): `(p, t|n, "")` and `(p|t, n, "")` are
  one to the loop that removes duplicates (`migrate.go:74`), which deletes one of
  them, but two to the index (`migrate.go:102-110`).

Nothing is stated of `GetHistoryCreated`, which is not modelled: its comment
says "Get the first history entity for given id" (`postgres.go:410`), its query
sorts descending and answers with the last creation of an id that was created
again. Update answers NotFound to any error of its read, and of two overlapping
DeleteAll calls one is answered with "data corruption"; both are part of what the
properties allow.

**Bounds.** `MaxRequests` bounds the requests of a `Datastore` behaviour, and
the versions with it. Two times are enough for equal, earlier and later ones
where clocks give anything; where they agree, each of five requests has its own.
Five requests let three handlers create an
entity and then overlap an update, a deletion, a new creation and a retry of any
of them; four let two entities be created and then deleted by overlapping
calls, the shortest deadlock; five without overlap let one entity be created,
updated, deleted, created and updated again, or share them with the other one. Clients carry versions 0 and 1: older, equal and
newer than the stored one all happen. One payload value is enough, since
no operation looks at it. `Tenancy` bounds no number of requests, only ids:
with two tenants, a tenant can be a member of itself and of the other; with two
memberships the unique index can be violated; ids chosen by clients are used
again and again, generated ones are used up. `tenancy_serial` leaves out the members of projects, whose
service is that of tenant members with another owner; `tenancy_overlap` has
them. In both only the ids of configs are generated (a generated id of another
kind is one that a client might have chosen). In `tenancy_overlap` only tenant
configs are updated, since the other updates leave all references alone or are
the subject of `ReferencesKept`, and a second tenant, which is never deleted, gives configs somewhere to move to. `participation_queries` asks about one
of two tenants and one of two namespaces, so that what belongs to the others
must be told apart; all ids there are chosen by clients. Symmetry is taken
among handlers, tenants or project memberships where nothing tells them apart,
never in `datastore_many`, whose liveness it would not be sound for, nor where a liveness
property is checked.

In `memory_store` three goroutines are what a race needs: one that has loaded
the map, one that replaces it, and one that creates again. In `paging` four
entities make pages of one, two and three full, partly full and empty; a page
of 15 is one that Postgres refuses. With 16 numbers an offset could wrap around
to a row already listed; that a client that follows the next pages never gets
there is a result (`NothingTwice`), and one that asks for pages of nothing sees
the page number itself wrap around. In `migration` every database of two rows of
one table is one to start with, and every database of up to three rows with one
membership of the other (`FewInit`): so there are duplicates that are
neighbours and that are not, by membership and by text only, and a loop that
deletes more than one row of a membership. One change by a client lets it
create or delete a membership, or create, update or delete a tenant, at any
moment; one failure hits any moment, on top of those that replicas cause each
other. With one tenant a replica cannot fail between two updates of tenants,
with one change a tenant is not deleted and created again: of these cases only
the theorem speaks. With more of each the state space outgrows the run.
Symmetry is not taken, for `AllServe`.

`Datastore`, `MemoryStore` and `Migration` do not check for deadlock of the
model, because clients stop after a number of requests or changes; that no
*call* blocks is `CallsReturn`, that no replica does is `AllServe`.

**Fairness.** Weak fairness of `Advance(h)` for each handler: the Go scheduler
runs goroutines, and Postgres executes a statement and grants a lock that is
free (calls on one row cannot starve each other here, for there are finitely
many). Weak fairness of `DeadlockVictim(h)`: Postgres looks for deadlocks after
`deadlock_timeout`. Failures and requests are not fair. `CallsReturn` needs the
second: without it two overlapping DeleteAll calls wait for ever. In
`MemoryStore` weak fairness of a goroutine's next step is enough, since a mutex
is waited for by finitely many calls. In `Paging` the client that has begun
goes on; changes of the table are not fair, and there may be any number of them
(`ListingEnds` holds because the offset grows and the table does not grow
without end). In `Migration` weak fairness of a replica's next step: the process
runs, and an orchestrator starts one that ended again (`deployment.yaml`). A
lock is waited for weakly fairly too, which is enough as there are finitely
many replicas and changes.

## Theorems

Proved by TLAPS for every set of handlers, ids, payloads and requests that
satisfies the assumptions: `AbsentIsNoRow`, `AbsentIsNoValue` and
`AbsentIsNoDocument` (the mark of a missing document is none), `RequestsAreCalls` (create carries at most one id,
update and delete exactly one), `NobodyIsNoHandler`, `TimesAreNumbers`; in `Migration` `IdsAreOrdered`
(ids are numbers), `MarksAreNone` and `BoundsAreNumbers`; in `Paging`
`IdsAreOrdered` (a finite set of numbers: a table has finitely many rows) and
`CountsFit` (the counts a client sends are numbers of the width).

* `JournalIsConsistent`: `JSpec => []JInv`. The abstract table is the tail of
  its journal and the lives of an entity alternate. So implementing `JSpec`
  means something.
* `HandlersAreIsolated`: `Spec => []IInv`.
* `DatastoreJournals`: `Spec => JSpec`, the refinement. No mapping is needed:
  the committed tables are the variables of the abstract specification.
* `TableFollowsJournal`, `NoResurrection`: `TableIsJournalTail` and
  `LivesAlternate` of the implementation.
* `AnswersTellTheTruth`: `Spec => AnswersAreTruthful`.
* `SerialCallsKeepInv`, and from it `SerialVersionsGrow`,
  `SerialDeletionsRecordLastRow` and `SerialCreatedTimeKept`: the properties of
  `datastore_serial`, for any number of handlers and entities, and whatever the
  clocks give. Their hypothesis is `SerialSpec`: calls on one entity do not
  overlap. Nothing in the code sees to that, and `datastore_lost_update` shows
  that it is needed. The theorems say more than the run, which has clocks that
  agree besides. A single handler satisfies it
  (`OneHandlerIsSerial`).
* `SerialClocksKeepInv`, and from it `SerialHistoryAnswersLatest`: `ClocksInv`
  and `HistoryAnswersLatest` under `SerialClocksSpec`, which adds a second
  hypothesis: a clock read for an entity gives a later time than all those taken
  for it before. With one server and a clock that does not step back that is
  so; two servers do not see to it.
* `DatastoreKeepsPromise`: `Spec => KeepsPromise`, the refinement of `Storage`.
* `MethodsExcludeEachOther`, `MemoryStoreKeepsPromise`: the invariant of
  `MemoryStore`, and its refinement of `Storage` until DeleteAll is called.
* `ConfigsKeepTheirOwner`: `Spec => ConfigReferencesKept`, for any number of
  overlapping requests to the services.
* `RepeatedDeletionCleans`: `Spec => DeletionAloneCleans`, and
  `NoCorruptionAlone`: `Spec => []NoCorruptionAnswered`, for any number of
  handlers; both speak of requests that are `alone`, and of what all others may
  have done before them.
* `NothingIsOrphanedAlone`, `ReferencesKeptAlone`: `NothingOrphaned` and
  `ReferencesKept`, for any number of handlers. Their hypothesis is
  `IsolatedSpec`, which the code does not enforce: `tenancy_orphan` shows what
  happens otherwise. A single handler satisfies it (`OneHandlerIsIsolated`).
* `TenancyTypes`: `Spec => []TypeOK`. There may be infinitely many ids; that the
  ids a deletion collects can be counted is part of the proof.
* `SelectsAgree`, `NoProjectTwice`, `SteadyIsAnswered`: `QueriesAgree`,
  `ProjectIdsDistinct` and `SteadyIsFound`, for any number of handlers that
  change the database between the SELECTs of a query. The last one says:
  a query whose SELECTs do not break off has all that participated at every
  moment of it, directly at one and by inheritance at another, but for what
  began to do so directly between the SELECTs.
* `PagesKeepPlace`, and from it `ListingIsComplete` and `ListingRepeatsNothing`:
  `NothingSkipped` and `NothingTwice`, for every table, page size and width.
* `MigrationKeepsTypes`, `QuotaMigrates`, `ServingIsMigrated`,
  `MembershipsSurvive`: `TypeOK`, `QuotaIsMigrated`,
  `ServesMigrated` and `NoMembershipLost`, for any number of replicas, tenants
  and rows, any function from memberships to texts, and any changes of clients
  through servers of both releases. `QuotaIsMigrated` exempts tenants that are
  `late`, `NoMembershipLost` is up to the text.

**The argument.** `JInv` alone is not inductive for the implementation: that a
commit finds the row its statement found rests on the row locks, and that the
`created_time` and the journaled document come from the same id rests on what
was read long before. `IInv` says of each handler that
(`RequestFits`) it works on a call it accepted, and not at a place its call
never gets to; (`LocksFit`) it locks rows of its request only within its
transaction, and all of them when its statement is done; (`LockedRowsStay`) a
row it locked is still as its statement found it, because every commit is made
by the holder of the lock; (`SeenWasStored`) what it read was once committed
under that id, which history, growing only, keeps true; and (`JournalFits`) its
history rows are those of its request, one for each id, all of them at the
commit. Each action has a lemma, split by these parts. `CommitIsTransaction`
then shows that a commit is a transaction of `JournaledTable`: `LocksFit` and
`LockedRowsStay` give the guards of `Legal`, `SeenWasStored` its witness,
`JournalFits` that all rows are journaled. `JInv` follows from the abstract
lemmas (`TransactionKeepsTail`, `TransactionKeepsLives`) and is not proved
again for the code.

For `Storage` the same invariant is enough: a step that ends a call is a
`Rollback`, whose answer must be justified by the table at that moment
(`RefusalsAreJustified`: a read that found nothing, a statement that met a row
it did not expect), or a `Commit`, where `LocksFit` and `LockedRowsStay` say
that all rows named are there (free, for a creation) and `NewRow` carries the
value of the call (`CommitTakesEffect`). The steps in between change nothing
that `StoredValues` and `PendingCalls` show (`WorkIsHidden`).

When calls on one entity do not overlap, `SerialInv` adds to `IInv` what a
handler may rely on until its commit (`UpToDate`): what it read is what is
stored, so an update is not stale and a deletion journals what it deletes. A
commit of another handler is one on other entities, and disturbs none of it.
That a stored document names the time of the last creation of its id
(`CreatedTimeKept`) is a fact about the whole life of the entity: only a
creation changes the time, and an update copies it from what is stored. No time
is compared with another, so the clocks play no part. They do for GetHistory:
when they agree, the times a call has taken are later than all the journal has
of its entities (`TimesFresh`), so the journal's times grow with its numbers
(`TimesGrow`, both in `ClocksInv`), and the latest row by time is the last one
by number.

In `MemoryStore` the promise rests on the time between the look at the map and
the write: `IInv` says that a goroutine is past the mutex exactly when it holds
it, and (`FindingStands`) that what it found is still so, as long as DeleteAll
was not called. That is what DeleteAll breaks, and why the theorem stops there.

In `Tenancy` a handler is somewhere in a sequence of calls, and both invariants
speak of the calls it has made. `ConfigInv` needs two of them: a creation of a
config is past the check that the request has no id, so it is stored under an id
that no `used` set has; an update is past the comparison with the stored config,
so what it writes is what is stored or what nobody can store there again
(`UpdateStands`). The other handlers keep that, because they only delete configs
or store them under new ids (`TablesStep`). `RequestsInv` says of
every call made what it established (`Establishes`), as long as the request is
alone: an owner that was checked is stored, an old document that was compared is
the new one, and what refers to the entity that is deleted has been found, or is
gone once the next DeleteAll is done. It is an invariant of all behaviours, for
a step that changes the database ends the solitude of the others
(`OthersStand`). What a request does while it is alone then orphans nothing and
changes no reference (`Sound`), and a deletion that gets to its end has nothing
left that refers to its entity, since no call before the last one can answer ok
or NotFound (`EndsClean`). `MethodShape`
proves of the eighteen methods what the argument needs: they write last, check
all owners, compare, find and delete all that is owned, and delete from the table
they searched.

In `Participation` each pair of SELECTs is shown to select what is linked, by a
membership of the tenant (`TenantLink`) or of one of its projects
(`ProjectLink`): `SelectsAgree` is then a matter of reading links from either
end, and needs nothing of the database. The other two rest on `QueryInv`: no two
rows hold the same membership (`TablesInv`, kept by every step of `Tenancy`
because of the unique indexes), so no row of a query differs in the membership
only (`RowsInv`); and what has been there all the time since the query began is
in the rows once the SELECT that finds it is done (`SteadyInv`).

In `Paging` the client is somewhere in an ordered set that changes, and knows
only a number. `IInv` says that the number does not wrap around (`NoWrap`:
Postgres refuses an offset long before), that what was listed has a rank below
the offset, and what was there all the time and was not listed has one that is
not below it, unless something was put in or taken away before it
(`GivenIsBehind`, `MissingIsAhead`). A page that is followed by another one was
full, and a last one had everything ahead of it: `FullPage`, a page with a row
behind it holds as many rows as its limit, since ranks are dense. Its proof
counts: the ranks of a finite set of numbers are pairwise different and below
its size.

In `Migration` replicas count at their start what is recorded, and are wrong
soon after. `MigrationInv` says what is still right: `NumbersFit`, a replica is
at most one migration ahead, and only the one that has inserted its number
commits, so numbers are recorded in their order; `UpdatesFit`, a tenant that is
not in the new format is among those still to be updated, or was written behind
the replica's back; `IndexesFit`, a table with an index,
committed or not, has no duplicates, and writers wait or are refused; and
`FirstRowsStay`, which is what makes it safe that every replica deletes by
itself and past its transaction: the first row with a text is not among the
rows any replica will delete, and when it goes, or another one becomes the
first, a client did that.

Only model-checked are the liveness properties `CallsReturn`, `ListingEnds` and
`AllServe`, which rest on fairness and ENABLED and are out of reach of the
provers here. Every invariant, action property and refinement that a passing run
checks is also a theorem.

## Not modelled

* The health service: main makes one, MigrateDB sets "migratedb" in it, and
  nobody ever asks it; its registration is commented out (`server.go:124`), and
  health checks are answered from a static list (`server.go:146`).
* The filters of List: plain conditions on the columns, which `Paging` takes as
  a set of rows.
* What a server of the previous release does, but that it goes on running
  during a rolling update and writes its own format: its code is not here.
* Error constructors, listeners, metrics, interceptors, CLI and version service
  keep no state and have no protocol.

## Plan

In order of importance:

1. *Done:* `JournaledTable`, `Datastore`, `Tenancy`, `Participation` and their
   runs; the invariant of the storage layer, the refinement, truthful answers.
2. *Done:* `Storage`, the promise of a backend, kept by `Datastore` and (until
   DeleteAll) by `MemoryStore`; `Migration`; `Paging`.
3. *Done:* the theorems that both backends keep the promise.
4. *Done:* `ConfigReferencesKept` for any number of handlers, and the properties
   of `tenancy_serial` for one, with invariants that say what the calls made so
   far have checked, found and removed.
5. *Done:* the safety properties of `Participation` and `Migration` for any
   number of handlers and replicas.
6. *Done:* the serial properties of `Datastore` for all handlers whose calls on
   one entity do not overlap; the properties of `Tenancy` for all handlers whose
   requests are isolated, `DeletionAloneCleans` for all; `Paging`.
7. Theorems that say how little isolation is enough: which pairs of methods may
   overlap without orphaning anything.
