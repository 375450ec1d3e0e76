------------------------ MODULE DatastoreProperties ------------------------
(***************************************************************************)
(* What the storage layer must keep, as properties of Datastore.           *)
(***************************************************************************)
EXTENDS Datastore

Active(h) == pc[h] # "idle"

(***************************************************************************)
(* The inductive invariant: what holds of every handler, in named parts.   *)
(***************************************************************************)
\* A handler that is active works on a call it accepted.
RequestFits(h) ==
  IF Active(h)
  THEN /\ req[h] \in Request
       /\ req[h].ids # {}
       /\ req[h].op # "deleteAll" => \E i \in Ids : req[h].ids = {i}
       /\ pc[h] = "read" => req[h].op # "create"
       /\ pc[h] = "stamp" => req[h].op \in {"create", "update"}
  ELSE req[h] = NoRequest

\* Only a transaction that has begun holds locks, and only on its own rows;
\* once its statement is done it holds all of them.
LocksFit(h) ==
  /\ \A i \in Ids : lock[i] = h =>
       pc[h] \in {"exec", "journal", "commit"} /\ i \in req[h].ids
  /\ pc[h] \in {"journal", "commit"} =>
       \A i \in Ids : i \in req[h].ids => lock[i] = h

\* What a statement found of its row stays so until its transaction ends:
\* no other handler commits to a locked row.
LockedRowsStay(h) == \A i \in Ids : lock[i] = h => Matches(h, i)

\* What Get returned is a document that the journal knows under that id; past
\* the reads, a change has read all its rows.
SeenWasStored(h) ==
  /\ \A i \in Ids : seen[h][i] # Absent => Stored(i, seen[h][i])
  /\ pc[h] \in {"stamp", "exec", "journal", "commit"} /\ req[h].op # "create" =>
       \A i \in req[h].ids : seen[h][i] # Absent

\* The history rows a transaction has inserted are those of its request, one
\* for an id, and all of them when it commits.
JournalFits(h) ==
  /\ \A j \in journal[h] :
       /\ j.id \in req[h].ids
       /\ j.op = OpCode[req[h].op]
       /\ j.row = IF Deletes(h) THEN seen[h][j.id] ELSE NewRow(h, j.id)
  /\ \A j, k \in journal[h] : j.id = k.id => j = k
  /\ journal[h] # {} => pc[h] \in {"journal", "commit"}
  /\ pc[h] = "commit" => Journaled(h) = req[h].ids

HandlerInv(h) == /\ RequestFits(h) /\ LocksFit(h) /\ LockedRowsStay(h)
                 /\ SeenWasStored(h) /\ JournalFits(h)

IInv == TypeOK /\ JInv /\ \A h \in Handlers : HandlerInv(h)

-----------------------------------------------------------------------------
(***************************************************************************)
(* An answer tells the truth (the return values of Create, Update, Delete  *)
(* and DeleteAll): a request answered without an error took effect, all of *)
(* it and in one transaction; a request that was refused had no effect at  *)
(* all.  An "error" leaves the client in doubt.                            *)
(***************************************************************************)
Truthful(h) ==
  Active(h) /\ pc'[h] = "idle" =>
    /\ reply'[h] = "ok" =>
         /\ {e.id : e \in history' \ history} = req[h].ids
         /\ \A i \in req[h].ids :
              IF Deletes(h) THEN table'[i] = Absent
              ELSE table'[i] # Absent /\ table'[i].val = req[h].val
    /\ reply'[h] \in Refusals => table' = table /\ history' = history

AnswersAreTruthful == [][\A h \in Handlers : Truthful(h)]_vars

(***************************************************************************)
(* A call is answered, whatever it waits for: overlapping DeleteAll calls  *)
(* that lock their rows in different orders do not block each other for    *)
(* ever, and a failed transaction does not leave its rows locked.          *)
(***************************************************************************)
CallsReturn == \A h \in Handlers : Active(h) ~> ~Active(h)

(***************************************************************************)
(* Calls on one entity do not overlap; calls on different ones may, and    *)
(* failures, retries and lost answers remain.  Nothing in the code sees to *)
(* that: it is what the properties below need of the clients.              *)
(***************************************************************************)
OneAtATime ==
  \A g, h \in Handlers :
    Active(g) /\ Active(h) /\ req[g].ids \cap req[h].ids # {} => g = h

SerialSpec == Init /\ [][Next /\ OneAtATime']_vars

(***************************************************************************)
(* An update makes the version of a document grow: the optimistic lock     *)
(* refuses a document older than the stored one (Update, "optimistic lock  *)
(* error").  When calls on one entity do not overlap this holds across     *)
(* failures and retries; when they do it does not, for the check reads     *)
(* before the transaction and the UPDATE does not repeat it.               *)
(***************************************************************************)
VersionsGrow ==
  \A e \in history : e.op = "U" =>
    \A p \in history : Precedes(p, e) => p.row.version < e.row.version

(***************************************************************************)
(* The history row of a deletion is the document that was deleted: what    *)
(* Delete and DeleteAll journal was read before their transaction.         *)
(***************************************************************************)
DeletionRecordsLastRow ==
  \A e \in history : e.op = "D" =>
    \A p \in history : Precedes(p, e) => p.row = e.row

(***************************************************************************)
(* The created_time of a stored document names the last creation of its    *)
(* id, however often the id was created before: Update keeps the field     *)
(* ("handle non updatable fields like created_time"), copying it from what *)
(* it read before its transaction.  True of calls that do not overlap; an  *)
(* update that overlaps a deletion and a new creation brings the time of   *)
(* the earlier life back.                                                  *)
(***************************************************************************)
CreatedTimeKept ==
  \A i \in Ids : table[i] # Absent =>
    \E e \in history : /\ e.id = i /\ e.op = "C" /\ e.at = table[i].created
                       /\ \A f \in history : f.id = i /\ f.op = "C" => f.n <= e.n

(***************************************************************************)
(* The inductive invariant of SerialSpec, beside IInv.  It says nothing of *)
(* the order of times, for the clocks of the servers promise none.         *)
(***************************************************************************)
\* What a handler has read is still stored and its update is not stale; the
\* row of a creation names the time it is journaled at.
UpToDate(h) ==
  /\ \A i \in Ids : seen[h][i] # Absent =>
       /\ i \in req[h].ids
       /\ seen[h][i] = table[i]
       /\ ~Stale(h, i)
  /\ \A j \in journal[h] : j.op = "C" => j.row.created = j.at

SerialInv == /\ OneAtATime /\ CreatedTimeKept
             /\ VersionsGrow /\ DeletionRecordsLastRow
             /\ \A h \in Handlers : UpToDate(h)

-----------------------------------------------------------------------------
(***************************************************************************)
(* The clocks of the servers agree well enough: a call of now() for an     *)
(* entity gives a time later than all that is journaled of it, by          *)
(* whichever server. One server whose clock does not step back sees to     *)
(* that; two servers with a clock of their own each do not.                *)
(***************************************************************************)
Fresh(i, t) == \A e \in history : e.id = i => e.at < t

ClocksAgree(h, t) == \A i \in req[h].ids : Fresh(i, t)

ClocksNext ==
  \E h \in Handlers :
    \/ Accept(h) \/ Work(h) \/ Disturb(h) \/ DeadlockVictim(h)
    \/ \E t \in Times : ClocksAgree(h, t) /\ ReadClock(h, t)

\* The clocks agree, and calls on one entity do not overlap.
SerialClocksSpec == Init /\ [][ClocksNext /\ OneAtATime']_vars

(***************************************************************************)
(* GetHistory ("latest before or equal the given point in time"): among    *)
(* the changes of an entity that are no later than t, it answers with the  *)
(* one that was committed last, so that for a present t it gives the       *)
(* document that is stored, or the one that was deleted last. It sorts by  *)
(* times of the servers, and takes both clocks that agree and calls that   *)
(* do not overlap for this to be true: otherwise the time of a later       *)
(* change may be an earlier one, because its server is behind, or because  *)
(* it took its time before it waited for the row.                          *)
(***************************************************************************)
HistoryAnswersLatest ==
  \A i \in Ids, t \in Times : \A e \in GetHistory(i, t) :
    \A f \in history : f.id = i /\ f.at <= t => f.n <= e.n

(***************************************************************************)
(* The inductive invariant of SerialClocksSpec, beside IInv and SerialInv: *)
(* the times journaled of an entity grow with its commits, and the times a *)
(* handler has taken are later still.                                      *)
(***************************************************************************)
TimesGrow ==
  \A e, f \in history : e.id = f.id /\ e.n < f.n => e.at < f.at

TimesFresh(h) ==
  /\ pc[h] \in {"exec", "journal", "commit"} /\ ~Deletes(h) =>
       \A i \in req[h].ids : Fresh(i, stamp[h])
  /\ \A j \in journal[h] : Fresh(j.id, j.at)

ClocksInv == TimesGrow /\ \A h \in Handlers : TimesFresh(h)

-----------------------------------------------------------------------------
(***************************************************************************)
(* What the callers of the interface Storage see of this backend: which    *)
(* values are stored, the calls that wait for an answer, the answers.      *)
(***************************************************************************)
StoredValues == [i \in Ids |-> IF table[i] = Absent THEN Absent ELSE table[i].val]

CallOn(q) == [op |-> q.op, ids |-> q.ids, val |-> q.val]

PendingCalls ==
  [h \in Handlers |-> IF Active(h) THEN CallOn(req[h]) ELSE NoRequest]

Promise == INSTANCE Storage WITH
  Callers <- Handlers,
  NoCall <- NoRequest,
  stored <- StoredValues,
  call <- PendingCalls,
  answer <- reply

(***************************************************************************)
(* The Postgres backend keeps the promise of the storage interface: every  *)
(* call, on however many rows, takes effect at one moment or not at all,   *)
(* an effect hits exactly the entities it names, and a refusal other than  *)
(* that of an update has its reason in what is stored when it is decided.  *)
(***************************************************************************)
KeepsPromise == Promise!SSpec
=============================================================================
