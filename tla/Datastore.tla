----------------------------- MODULE Datastore -----------------------------
(***************************************************************************)
(* The generic Postgres storage layer, pkg/datastore/postgres/postgres.go, *)
(* for one entity type: Create, Update, Delete and DeleteAll as the calls  *)
(* to the database they are made of, run by concurrent handlers (the       *)
(* goroutines of the servers of a deployment, two replicas by default).    *)
(*                                                                         *)
(* Postgres is external and is modelled from how the code uses it: READ    *)
(* COMMITTED transactions (BeginTx(ctx, nil)), a read sees what is         *)
(* committed, a statement that writes a row holds the row's lock from then *)
(* to the end of its transaction, and one transaction of a deadlock is     *)
(* aborted.  A statement of several rows locks them in any order; that it  *)
(* would skip a row that was created again while it ran is not modelled,   *)
(* so such a row may be deleted here where Postgres reports fewer rows.    *)
(*                                                                         *)
(* now() is the wall clock of the server that calls it: nothing orders the *)
(* times of two servers, and a clock that is corrected steps back, so a    *)
(* call of now() gives any time.  DatastoreProperties says what is lost    *)
(* when clocks differ (ClocksAgree).                                       *)
(***************************************************************************)
EXTENDS JournaledTable, FiniteSets

CONSTANTS
  Handlers,     \* the goroutines that run requests
  Requests,     \* the requests clients may send
  MaxRequests,  \* bound: number of requests sent in a behaviour
  Nobody,       \* the owner of a row that is not locked
  Times         \* what a call of now() may return

Ops == {"create", "update", "delete", "deleteAll"}

(***************************************************************************)
(* A call of the storage interface: the ids it names, the version and the  *)
(* payload of the document it carries, and whether that document passes    *)
(* the checks of its meta (no meta, no id, wrong kind, wrong apiversion).  *)
(* A creation without ids asks the server to generate one.  DeleteAll is   *)
(* called with distinct ids (Tenancy shows that its callers see to that).  *)
(***************************************************************************)
Request == [op : Ops, ids : SUBSET Ids, version : Nat, val : Values,
            valid : BOOLEAN]

ASSUME RequestsAreCalls ==
  /\ Requests \subseteq Request
  /\ \A q \in Requests : q.op = "create" => \A i, j \in q.ids : i = j
  /\ \A q \in Requests :
       q.op \in {"update", "delete"} => \E i \in Ids : q.ids = {i}

ASSUME NobodyIsNoHandler == Nobody \notin Handlers

ASSUME TimesAreNumbers == Times \subseteq Nat

NoRequest == [op |-> "none", ids |-> {}, version |-> 0, val |-> Absent,
              valid |-> TRUE]

VARIABLES
  lock,     \* lock[i] is the handler whose transaction locks row i, or Nobody
  issued,   \* number of requests sent
  pc,       \* where the handler is in its request
  req,      \* the request it works on
  seen,     \* seen[h][i] is what Get read under i, or Absent
  stamp,    \* the time Create or Update took before the transaction
  journal,  \* the history rows its transaction has inserted
  reply     \* the answer to its last request

locals == <<pc, req, seen, stamp, journal, reply>>
vars == <<table, history, commits, lock, issued, locals>>

Phases == {"idle", "read", "stamp", "exec", "journal", "commit"}
Refusals == {"invalid", "notfound", "conflict", "internal"}
Replies == Refusals \cup {"none", "ok", "error"}

JournalRow == [id : Ids, op : {"C", "U", "D"}, at : Nat, row : Row]

TypeOK ==
  /\ JTypeOK
  /\ lock \in [Ids -> Handlers \cup {Nobody}]
  /\ issued \in Nat
  /\ pc \in [Handlers -> Phases]
  /\ req \in [Handlers -> Request \cup {NoRequest}]
  /\ seen \in [Handlers -> [Ids -> Row \cup {Absent}]]
  /\ stamp \in [Handlers -> Nat]
  /\ journal \in [Handlers -> SUBSET JournalRow]
  /\ reply \in [Handlers -> Replies]

Nothing == [i \in Ids |-> Absent]

Init ==
  /\ JInit
  /\ lock = [i \in Ids |-> Nobody]
  /\ issued = 0
  /\ pc = [h \in Handlers |-> "idle"]
  /\ req = [h \in Handlers |-> NoRequest]
  /\ seen = [h \in Handlers |-> Nothing]
  /\ stamp = [h \in Handlers |-> 0]
  /\ journal = [h \in Handlers |-> {}]
  /\ reply = [h \in Handlers |-> "none"]

(***************************************************************************)
(* The call returns answer a; its locals are gone.                         *)
(***************************************************************************)
Return(h, a) ==
  /\ pc' = [pc EXCEPT ![h] = "idle"]
  /\ req' = [req EXCEPT ![h] = NoRequest]
  /\ seen' = [seen EXCEPT ![h] = Nothing]
  /\ stamp' = [stamp EXCEPT ![h] = 0]
  /\ journal' = [journal EXCEPT ![h] = {}]
  /\ reply' = [reply EXCEPT ![h] = a]

\* The transaction of h, if it has one, is over: its row locks are released.
EndTx(h) == lock' = [i \in Ids |-> IF lock[i] = h THEN Nobody ELSE lock[i]]

\* Mutation: no rollback is deferred, the transaction stays open.
NoRollback(h, a) ==
  /\ Return(h, a)
  /\ UNCHANGED <<table, history, commits, lock, issued>>

\* The deferred rollback runs and the call returns answer a.
Rollback(h, a) ==
  /\ Return(h, a)
  /\ EndTx(h)
  /\ UNCHANGED <<table, history, commits, issued>>

-----------------------------------------------------------------------------
(***************************************************************************)
(* A request arrives.                                                      *)
(***************************************************************************)
Arrives(h, q) ==
  /\ pc[h] = "idle"
  /\ issued < MaxRequests
  /\ q \in Requests
  /\ issued' = issued + 1
  /\ UNCHANGED <<table, history, commits, lock>>

\* The checks of Create and Update refuse the document's meta.
Reject(h, q) ==
  /\ Arrives(h, q)
  /\ q.op \in {"create", "update"} /\ ~q.valid
  /\ Return(h, "invalid")

\* DeleteAll of no ids succeeds without a call to the database.
DeleteNothing(h, q) ==
  /\ Arrives(h, q)
  /\ q.op = "deleteAll" /\ q.ids = {}
  /\ Return(h, "ok")

Begin(h, q, first) ==
  /\ Arrives(h, q)
  /\ pc' = [pc EXCEPT ![h] = first]
  /\ reply' = [reply EXCEPT ![h] = "none"]
  /\ UNCHANGED <<seen, stamp, journal>>

BeginCreate(h, q) ==
  /\ q.op = "create" /\ q.valid
  /\ Begin(h, q, "stamp")
  /\ \/ /\ q.ids # {}
        /\ req' = [req EXCEPT ![h] = q]
     \/ /\ q.ids = {}
        /\ \E i \in Ids :  \* a generated id is one that nobody ever used
             /\ \A e \in history : e.id # i
             /\ \A g \in Handlers : i \notin req[g].ids
             /\ req' = [req EXCEPT ![h] = [q EXCEPT !.ids = {i}]]

\* Update, Delete and DeleteAll start with reads.
BeginChange(h, q) ==
  /\ q.op # "create" /\ (q.op = "update" => q.valid) /\ q.ids # {}
  /\ Begin(h, q, "read")
  /\ req' = [req EXCEPT ![h] = q]

-----------------------------------------------------------------------------
(***************************************************************************)
(* Get, outside of any transaction.  DeleteAll calls it for every id.      *)
(***************************************************************************)
ToRead(h, i) == pc[h] = "read" /\ i \in req[h].ids /\ seen[h][i] = Absent

\* Mutation: the version is not compared.
NeverStale(h, i) == FALSE

Stale(h, i) == req[h].op = "update" /\ req[h].version < table[i].version

ReadRow(h, i) ==
  /\ ToRead(h, i) /\ table[i] # Absent /\ ~Stale(h, i)
  /\ seen' = [seen EXCEPT ![h][i] = table[i]]
  /\ pc' = [pc EXCEPT ![h] =
              IF \E j \in req[h].ids \ {i} : seen[h][j] = Absent THEN "read"
              ELSE IF req[h].op = "update" THEN "stamp" ELSE "exec"]
  /\ UNCHANGED <<table, history, commits, lock, issued,
                 req, stamp, journal, reply>>

\* No row: NotFound, from Get or in place of Get's error.
ReadAbsent(h, i) ==
  /\ ToRead(h, i) /\ table[i] = Absent
  /\ Rollback(h, "notfound")

\* The optimistic lock: the client's version is older than the stored one.
ReadStale(h, i) ==
  /\ ToRead(h, i) /\ table[i] # Absent /\ Stale(h, i)
  /\ Rollback(h, "conflict")

\* Mutation: Delete and DeleteAll answer NotFound to whatever error, too.
ReadFailsAsAbsent(h) ==
  /\ pc[h] = "read"
  /\ Rollback(h, "notfound")

\* The read fails.  Update answers NotFound to whatever error Get returns.
ReadFails(h) ==
  /\ pc[h] = "read"
  /\ Rollback(h, IF req[h].op = "update" THEN "notfound" ELSE "error")

\* Create and Update call pbNow, at time t, before their transaction begins.
Stamp(h, t) ==
  /\ pc[h] = "stamp"
  /\ stamp' = [stamp EXCEPT ![h] = t]
  /\ pc' = [pc EXCEPT ![h] = "exec"]
  /\ UNCHANGED <<table, history, commits, lock, issued,
                 req, seen, journal, reply>>

-----------------------------------------------------------------------------
(***************************************************************************)
(* The INSERT, UPDATE or DELETE: it reaches row i when no transaction has  *)
(* the row locked, sees what is committed then, and locks the row.  UPDATE *)
(* and DELETE find their rows by id alone; what was read before, and the   *)
(* version in it, plays no part.                                           *)
(***************************************************************************)
Reaches(h, i) == pc[h] = "exec" /\ i \in req[h].ids /\ lock[i] = Nobody

\* Mutation: the UPDATE is an upsert.
Upserts(h, i) ==
  req[h].op = "update" \/ ((table[i] = Absent) <=> (req[h].op = "create"))

Matches(h, i) == (table[i] = Absent) <=> (req[h].op = "create")

\* Mutation: DeleteAll is content with the first row its statement finds.
ExecAnyRow(h, i) ==
  /\ Reaches(h, i) /\ Matches(h, i)
  /\ lock' = [lock EXCEPT ![i] = h]
  /\ pc' = [pc EXCEPT ![h] = "journal"]
  /\ UNCHANGED <<table, history, commits, issued,
                 req, seen, stamp, journal, reply>>

ExecRow(h, i) ==
  /\ Reaches(h, i) /\ Matches(h, i)
  /\ lock' = [lock EXCEPT ![i] = h]
  /\ pc' = [pc EXCEPT ![h] =
              IF \A j \in req[h].ids \ {i} : lock[j] = h THEN "journal"
              ELSE "exec"]
  /\ UNCHANGED <<table, history, commits, issued,
                 req, seen, stamp, journal, reply>>

\* A unique violation, or fewer rows than the call needs.
MissAnswer == [create |-> "conflict", update |-> "error",  \* sql.ErrNoRows
               delete |-> "notfound", deleteAll |-> "internal"]

ExecMiss(h, i) ==
  /\ Reaches(h, i) /\ ~Matches(h, i)
  /\ Rollback(h, MissAnswer[req[h].op])

(***************************************************************************)
(* insertHistory.  The journal of a creation or an update holds the new    *)
(* document and the time taken before the transaction; the journal of a    *)
(* deletion holds the document that was read before it, and a time of its  *)
(* own.                                                                    *)
(***************************************************************************)
\* Mutation: an update writes the time of the update as the creation time.
NewRowCreatedNow(h, i) ==
  [version |-> IF req[h].op = "create" THEN 0 ELSE req[h].version + 1,
   created |-> stamp[h], val |-> req[h].val]

NewRow(h, i) ==
  IF req[h].op = "create"
  THEN [version |-> 0, created |-> stamp[h], val |-> req[h].val]
  ELSE [version |-> req[h].version + 1, created |-> seen[h][i].created,
        val |-> req[h].val]

\* Mutation: Delete journals with the op of Update.
OpCodeCopied == [create |-> "C", update |-> "U", delete |-> "U", deleteAll |-> "D"]

OpCode == [create |-> "C", update |-> "U", delete |-> "D", deleteAll |-> "D"]

Deletes(h) == req[h].op \in {"delete", "deleteAll"}

\* Mutation: a deletion journals the version of the call's document.
JournalsCall(h, i, t) ==
  [id |-> i, op |-> OpCode[req[h].op], at |-> t,
   row |-> IF Deletes(h) THEN [seen[h][i] EXCEPT !.version = req[h].version]
           ELSE NewRow(h, i)]

\* Mutation: a deletion is journaled at the creation time of its document.
JournalsCreation(h, i, t) ==
  [id |-> i, op |-> OpCode[req[h].op],
   at  |-> IF Deletes(h) THEN seen[h][i].created ELSE t,
   row |-> IF Deletes(h) THEN seen[h][i] ELSE NewRow(h, i)]

Journals(h, i, t) ==
  [id |-> i, op |-> OpCode[req[h].op], at |-> t,
   row |-> IF Deletes(h) THEN seen[h][i] ELSE NewRow(h, i)]

Journaled(h) == {j.id : j \in journal[h]}

\* Mutation: DeleteAll returns from its loop after the first history row.
JournalFirst(h, i, t) ==
  /\ pc[h] = "journal" /\ i \in req[h].ids \ Journaled(h)
  /\ journal' = [journal EXCEPT ![h] = @ \cup {Journals(h, i, t)}]
  /\ pc' = [pc EXCEPT ![h] = "commit"]
  /\ UNCHANGED <<table, history, commits, lock, issued,
                 req, seen, stamp, reply>>

Journal(h, i, t) ==
  /\ pc[h] = "journal" /\ i \in req[h].ids \ Journaled(h)
  /\ journal' = [journal EXCEPT ![h] = @ \cup {Journals(h, i, t)}]
  /\ pc' = [pc EXCEPT ![h] = IF req[h].ids = Journaled(h) \cup {i}
                             THEN "commit" ELSE "journal"]
  /\ UNCHANGED <<table, history, commits, lock, issued,
                 req, seen, stamp, reply>>

(***************************************************************************)
(* Commit.  The answer "error" is that of a commit the database made and   *)
(* whose acknowledgement got lost, or of a server that died before it      *)
(* could answer.                                                           *)
(***************************************************************************)
Committed(h) ==
  {[n |-> commits + 1, id |-> j.id, op |-> j.op, at |-> j.at, row |-> j.row] :
     j \in journal[h]}

Commit(h, a) ==
  /\ pc[h] = "commit"
  /\ table' = [i \in Ids |-> IF i \notin req[h].ids THEN table[i]
                             ELSE IF Deletes(h) THEN Absent
                             ELSE NewRow(h, i)]
  /\ history' = history \cup Committed(h)
  /\ commits' = commits + 1
  /\ EndTx(h)
  /\ Return(h, a)
  /\ UNCHANGED issued

(***************************************************************************)
(* A call to the database fails before the commit, the client cancels the  *)
(* request, or the server dies: Postgres rolls back what was begun.        *)
(***************************************************************************)
\* Mutation: the error of tx.Commit() is dropped.
FailUnnoticed(h) ==
  /\ pc[h] # "idle"
  /\ Rollback(h, IF pc[h] = "commit" THEN "ok" ELSE "error")

Fail(h) ==
  /\ pc[h] # "idle"
  /\ Rollback(h, "error")

(***************************************************************************)
(* Postgres aborts one of a set of transactions that wait for each other.  *)
(***************************************************************************)
Waits(h, D) ==
  /\ pc[h] = "exec"
  /\ \A i \in req[h].ids : lock[i] # Nobody
  /\ \E i \in req[h].ids : lock[i] # h
  /\ \A i \in req[h].ids : lock[i] \in D

Deadlocked(h) ==
  \E D \in SUBSET Handlers : h \in D /\ \A d \in D : Waits(d, D)

DeadlockVictim(h) ==
  /\ Deadlocked(h)
  /\ Rollback(h, "error")

-----------------------------------------------------------------------------
\* Mutation: the history is sorted in ascending order.
OldestWithPredicate(M) == {e \in M : \A f \in M : e.at <= f.at}

(***************************************************************************)
(* getHistoryWithPredicate: ORDER BY created_at DESC LIMIT 1.  With equal  *)
(* times the database may return any of the rows, hence a set of answers.  *)
(***************************************************************************)
GetHistoryWithPredicate(M) == {e \in M : \A f \in M : f.at <= e.at}

GetHistory(i, t) ==
  GetHistoryWithPredicate({e \in history : e.id = i /\ e.at <= t})

-----------------------------------------------------------------------------
Accept(h) ==
  \E q \in Requests : \/ Reject(h, q) \/ DeleteNothing(h, q)
                      \/ BeginCreate(h, q) \/ BeginChange(h, q)

Work(h) ==
  \/ \E i \in Ids : \/ ReadRow(h, i) \/ ReadAbsent(h, i) \/ ReadStale(h, i)
                    \/ ExecRow(h, i) \/ ExecMiss(h, i)
                    \/ ~Deletes(h) /\ Journal(h, i, stamp[h])
  \/ Commit(h, "ok")

\* The steps that call now(): pbNow, and insertHistory of a deletion.
ReadClock(h, t) ==
  \/ Stamp(h, t)
  \/ \E i \in Ids : Deletes(h) /\ Journal(h, i, t)

Advance(h) == Work(h) \/ \E t \in Times : ReadClock(h, t)

Disturb(h) == ReadFails(h) \/ Fail(h) \/ Commit(h, "error")

Next == \E h \in Handlers : \/ Accept(h) \/ Advance(h) \/ Disturb(h)
                            \/ DeadlockVictim(h)

Spec == Init /\ [][Next]_vars

(***************************************************************************)
(* A handler that can take its next step takes it (goroutines are          *)
(* scheduled, Postgres executes statements and grants free locks), and     *)
(* Postgres finds deadlocks.  Nothing is assumed of clients and failures.  *)
(***************************************************************************)
Fairness == \A h \in Handlers : /\ WF_vars(Advance(h))
                                /\ WF_vars(DeadlockVictim(h))

FairSpec == Spec /\ Fairness
=============================================================================
