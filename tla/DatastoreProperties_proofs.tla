--------------------- MODULE DatastoreProperties_proofs ---------------------
(***************************************************************************)
(* What the callers of the Postgres backend rely on, proved: as long as    *)
(* calls on one entity do not overlap, versions grow and the journal keeps *)
(* what was deleted and when it was created (first part); when the clocks  *)
(* of the servers agree, too, the history answers with the latest change   *)
(* (second part); and the promise of the storage interface is kept         *)
(* whatever overlaps: Datastore refines Storage (third part).              *)
(***************************************************************************)
EXTENDS Datastore_proofs

-----------------------------------------------------------------------------
(***************************************************************************)
(* The journal part of SerialInv.                                          *)
(***************************************************************************)
JournalTells == CreatedTimeKept /\ VersionsGrow /\ DeletionRecordsLastRow

(***************************************************************************)
(* What makes a new entry keep it: a creation is named by its row, an      *)
(* update keeps that name and makes the version grow, and a deletion       *)
(* records the row that is stored.                                         *)
(***************************************************************************)
Current(e) ==
  /\ e.op = "C" => e.row.created = e.at
  /\ e.op = "U" => /\ table[e.id] # Absent
                   /\ e.row.created = table[e.id].created
                   /\ table[e.id].version < e.row.version
  /\ e.op = "D" => e.row = table[e.id]

\* The row of the latest entry of a stored document is the document.
LEMMA LatestIsStored ==
  ASSUME JInv, NEW p \in history, Latest(p), table[p.id] # Absent
  PROVE  p.row = table[p.id] /\ p.op # "D"
<1>1. p.id \in Ids
  BY DEF JInv, JTypeOK, Entry
<1>2. PICK e \in history : e.id = p.id /\ Latest(e) /\ e.op # "D" /\ e.row = table[p.id]
  BY <1>1 DEF JInv, TableIsJournalTail
<1>3. e.n = p.n
  BY <1>2 DEF Latest, JInv, JTypeOK, Entry
<1> QED
  BY <1>2, <1>3 DEF JInv, HistoryNumbered

LEMMA TransactionTells ==
  ASSUME JInv, JournalTells, NEW E, Transaction(E), \A e \in E : Current(e)
  PROVE  JournalTells'
<1>1. history' = history \cup E
  BY DEF Transaction
<1>2. \A e \in E : \A p \in history : p.n < e.n
  BY NewEntriesAreLast
<1>3. \A e \in history : e.n \in Nat /\ e.at \in Nat /\ e.id \in Ids /\ e.row \in Row
  BY DEF JInv, JTypeOK, Entry
<1>4. \A e \in E : /\ e.n \in Nat /\ e.at \in Nat /\ e.id \in Ids /\ e.row \in Row
                   /\ e.n = commits + 1
  BY DEF Transaction, Entry
<1>5. \A e, f \in E : e.id = f.id => e = f
  BY DEF Transaction
<1>6. CreatedTimeKept'
  <2> SUFFICES ASSUME NEW i \in Ids, table'[i] # Absent
               PROVE  \E e \in history' :
                        /\ e.id = i /\ e.op = "C" /\ e.at = table'[i].created
                        /\ \A f \in history' : f.id = i /\ f.op = "C" => f.n <= e.n
    BY DEF CreatedTimeKept
  <2>1. CASE \A e \in E : e.id # i
    <3>1. table'[i] = table[i]
      BY <2>1, WrittenRows
    <3> QED
      BY <1>1, <2>1, <3>1 DEF JournalTells, CreatedTimeKept
  <2>2. CASE \E e \in E : e.id = i
    <3>1. PICK e \in E : e.id = i
      BY <2>2
    <3>2. table'[i] = e.row /\ e.op # "D"
      BY <3>1, WrittenRows DEF After
    <3>3. e.op \in {"C", "U"}
      BY <3>2 DEF Transaction, Entry
    <3>4. CASE e.op = "C"
      <4>1. e.at = table'[i].created
        BY <3>2, <3>4 DEF Current
      <4>2. \A f \in history' : f.id = i => f.n <= e.n
        BY <3>1, NewEntriesAreLast DEF Latest
      <4> QED
        BY <1>1, <3>1, <3>4, <4>1, <4>2
    <3>5. CASE e.op = "U"
      <4>1. table[i] # Absent /\ table'[i].created = table[i].created
        BY <3>1, <3>2, <3>5 DEF Current
      <4>2. \A f \in history' : f.id = i /\ f.op = "C" => f \in history
        BY <1>1, <1>5, <3>1, <3>5
      <4> QED
        BY <1>1, <4>1, <4>2 DEF JournalTells, CreatedTimeKept
    <3> QED
      BY <3>3, <3>4, <3>5
  <2> QED
    BY <2>1, <2>2
<1>7. VersionsGrow'
  <2> SUFFICES ASSUME NEW e \in history', e.op = "U",
                      NEW p \in history', Precedes(p, e)'
               PROVE  p.row.version < e.row.version
    BY DEF VersionsGrow
  <2>1. CASE e \in history
    BY <2>1, PrecedesAfter DEF JournalTells, VersionsGrow
  <2>2. CASE e \in E
    <3>1. p \in history /\ p.id = e.id /\ Latest(p)
      BY <2>2, PrecedesAfter
    <3>2. table[e.id] # Absent /\ table[e.id].version < e.row.version
      BY <2>2 DEF Current
    <3> QED
      BY <3>1, <3>2, LatestIsStored
  <2> QED
    BY <1>1, <2>1, <2>2
<1>8. DeletionRecordsLastRow'
  <2> SUFFICES ASSUME NEW e \in history', e.op = "D",
                      NEW p \in history', Precedes(p, e)'
               PROVE  p.row = e.row
    BY DEF DeletionRecordsLastRow
  <2>1. CASE e \in history
    BY <2>1, PrecedesAfter DEF JournalTells, DeletionRecordsLastRow
  <2>2. CASE e \in E
    <3>1. p \in history /\ p.id = e.id /\ Latest(p)
      BY <2>2, PrecedesAfter
    <3>2. table[e.id] # Absent /\ e.row = table[e.id]
      BY <2>2, <1>4, AbsentIsNoRow DEF Current
    <3> QED
      BY <3>1, <3>2, LatestIsStored
  <2> QED
    BY <1>1, <2>1, <2>2
<1> QED
  BY <1>6, <1>7, <1>8 DEF JournalTells

-----------------------------------------------------------------------------
(***************************************************************************)
(* The handlers' part of SerialInv.  A step that leaves the locals of g    *)
(* and all that is stored of its entities leaves g up to date.             *)
(***************************************************************************)
SameLocals(g) ==
  /\ pc'[g] = pc[g] /\ req'[g] = req[g] /\ seen'[g] = seen[g]
  /\ stamp'[g] = stamp[g] /\ journal'[g] = journal[g]

Alone(g) ==
  /\ SameLocals(g)
  /\ \A i \in req[g].ids :
       /\ table'[i] = table[i]
       /\ \A e \in history' : e.id = i => e \in history

LEMMA OthersUpToDate ==
  ASSUME NEW g \in Handlers, UpToDate(g), Alone(g)
  PROVE  UpToDate(g)'
BY DEF UpToDate, Alone, SameLocals, Stale

(***************************************************************************)
(* When calls do not overlap, the steps of h leave every other handler     *)
(* alone: what h has locked is none of theirs.                             *)
(***************************************************************************)
LEMMA OthersAreElsewhere ==
  ASSUME IInv, OneAtATime, NEW h \in Handlers, pc[h] # "idle",
         NEW g \in Handlers, g # h
  PROVE  req[g].ids \cap req[h].ids = {}
<1>1. CASE Active(g)
  BY <1>1 DEF OneAtATime, Active
<1>2. CASE ~Active(g)
  BY <1>2 DEF IInv, HandlerInv, RequestFits, NoRequest
<1> QED
  BY <1>1, <1>2

(***************************************************************************)
(* A step of h that writes nothing to the tables.                          *)
(***************************************************************************)
LEMMA QuietStepKeepsSerialInv ==
  ASSUME SerialInv, NEW h \in Handlers, UpToDate(h)', OneAtATime',
         UNCHANGED <<table, history>>, \A g \in Handlers \ {h} : SameLocals(g)
  PROVE  SerialInv'
<1>1. JournalTells'
  BY DEF SerialInv, JournalTells, CreatedTimeKept, VersionsGrow,
     DeletionRecordsLastRow, Precedes
<1>2. ASSUME NEW g \in Handlers, g # h
      PROVE  UpToDate(g)'
  <2>1. Alone(g)
    BY <1>2 DEF Alone
  <2> QED
    BY <2>1, OthersUpToDate DEF SerialInv
<1> QED
  BY <1>1, <1>2 DEF SerialInv, JournalTells
-----------------------------------------------------------------------------
(***************************************************************************)
(* Each step keeps SerialInv.                                              *)
(***************************************************************************)
\* A step whose only news for h is that its call is over.
LEMMA ReturnKeepsSerialInv ==
  ASSUME IInv, SerialInv, OneAtATime', NEW h \in Handlers, NEW a,
         Return(h, a), UNCHANGED <<table, history>>
  PROVE  SerialInv'
<1>1. UpToDate(h)'
  BY DEF UpToDate, Return, Nothing, IInv, TypeOK
<1> QED
  BY <1>1, QuietStepKeepsSerialInv DEF SameLocals, Return, IInv, TypeOK

LEMMA BeginKeepsSerialInv ==
  ASSUME IInv, SerialInv, OneAtATime', NEW h \in Handlers, NEW q,
         BeginCreate(h, q) \/ BeginChange(h, q)
  PROVE  SerialInv'
<1>1. /\ pc[h] = "idle"
      /\ \E p \in {"read", "stamp"} : pc' = [pc EXCEPT ![h] = p]
      /\ \E r : req' = [req EXCEPT ![h] = r]
      /\ UNCHANGED <<table, history, seen, stamp, journal>>
  BY DEF BeginCreate, BeginChange, Begin, Arrives
<1>2. \A i \in Ids : seen[h][i] = Absent
  BY <1>1 DEF SerialInv, UpToDate, IInv, HandlerInv, RequestFits, Active, NoRequest
<1>3. journal[h] = {}
  BY <1>1 DEF IInv, HandlerInv, JournalFits
<1>4. UpToDate(h)'
  BY <1>1, <1>2, <1>3 DEF UpToDate, IInv, TypeOK
<1> QED
  BY <1>1, <1>4, QuietStepKeepsSerialInv DEF SameLocals, IInv, TypeOK

LEMMA ReadRowKeepsSerialInv ==
  ASSUME IInv, SerialInv, OneAtATime', NEW h \in Handlers, NEW i \in Ids,
         ReadRow(h, i)
  PROVE  SerialInv'
<1> USE DEF ReadRow, ToRead
<1>1. PICK p \in {"read", "stamp", "exec"} : pc' = [pc EXCEPT ![h] = p]
  OBVIOUS
<1>2. journal'[h] = {}
  BY DEF IInv, HandlerInv, JournalFits
<1>3. \A k \in Ids : seen'[h][k] # Absent =>
        k \in req[h].ids /\ seen'[h][k] = table[k] /\ ~Stale(h, k)
  BY DEF SerialInv, UpToDate, IInv, TypeOK
<1>4. UpToDate(h)'
  BY <1>2, <1>3 DEF UpToDate, Stale
<1> QED
  BY <1>1, <1>4, QuietStepKeepsSerialInv DEF SameLocals, IInv, TypeOK

LEMMA StampKeepsSerialInv ==
  ASSUME IInv, SerialInv, OneAtATime', NEW h \in Handlers, NEW t \in Nat,
         Stamp(h, t)
  PROVE  SerialInv'
<1> USE DEF Stamp
<1>1. UpToDate(h)'
  BY DEF SerialInv, UpToDate, Stale
<1> QED
  BY <1>1, QuietStepKeepsSerialInv DEF SameLocals, IInv, TypeOK

LEMMA ExecRowKeepsSerialInv ==
  ASSUME IInv, SerialInv, OneAtATime', NEW h \in Handlers, NEW i \in Ids,
         ExecRow(h, i)
  PROVE  SerialInv'
<1> USE DEF ExecRow, Reaches
<1>1. PICK p \in {"exec", "journal"} : pc' = [pc EXCEPT ![h] = p]
  OBVIOUS
<1>2. UpToDate(h)'
  BY <1>1 DEF SerialInv, UpToDate, Stale
<1> QED
  BY <1>1, <1>2, QuietStepKeepsSerialInv DEF SameLocals, IInv, TypeOK

\* A creation is journaled with the time of its stamp, which its row names.
LEMMA JournalKeepsSerialInv ==
  ASSUME IInv, SerialInv, OneAtATime', NEW h \in Handlers, NEW i \in Ids,
         NEW t \in Nat, Journal(h, i, t), Deletes(h) \/ t = stamp[h]
  PROVE  SerialInv'
<1> USE DEF Journal
<1> DEFINE J == Journals(h, i, t)
<1>1. /\ pc[h] = "journal" /\ i \in req[h].ids
      /\ UNCHANGED <<table, history, req, seen, stamp>>
  OBVIOUS
<1>2. journal'[h] = journal[h] \cup {J}
  BY DEF IInv, TypeOK
<1>3. J.op = "C" => J.row.created = J.at
  <2>1. /\ J.op = OpCode[req[h].op] /\ J.at = t
        /\ J.row = IF Deletes(h) THEN seen[h][i] ELSE NewRow(h, i)
    BY DEF Journals
  <2>2. J.op = "C" => req[h].op = "create"
    BY <1>1, <2>1, CallOf DEF OpCode, Ops
  <2>3. req[h].op = "create" => ~Deletes(h) /\ NewRow(h, i).created = stamp[h]
    BY DEF Deletes, NewRow
  <2> HIDE DEF J
  <2> QED
    BY <2>1, <2>2, <2>3
<1>4. UpToDate(h)'
  <2> HIDE DEF J, Journal
  <2> QED
    BY <1>1, <1>2, <1>3 DEF SerialInv, UpToDate, Stale
<1> QED
  BY <1>1, <1>4, QuietStepKeepsSerialInv DEF SameLocals, IInv, TypeOK

(***************************************************************************)
(* What a handler commits when calls on its entities do not overlap: what  *)
(* it read is what it replaces.                                            *)
(***************************************************************************)
LEMMA CommitIsCurrent ==
  ASSUME IInv, SerialInv, NEW h \in Handlers, pc[h] = "commit"
  PROVE  \A e \in Committed(h) : Current(e) /\ e.id \in req[h].ids
<1> SUFFICES ASSUME NEW j \in journal[h], NEW e,
                    e = [n |-> commits + 1, id |-> j.id, op |-> j.op,
                         at |-> j.at, row |-> j.row]
             PROVE  Current(e) /\ e.id \in req[h].ids
  BY DEF Committed
<1>1. e.id = j.id /\ e.op = j.op /\ e.at = j.at /\ e.row = j.row
  OBVIOUS
<1>2. /\ j.id \in req[h].ids /\ j.id \in Ids /\ j.op = OpCode[req[h].op]
      /\ j.row = IF Deletes(h) THEN seen[h][j.id] ELSE NewRow(h, j.id)
  BY CallOf DEF IInv, HandlerInv, JournalFits
<1>3. j.op = "C" => j.row.created = j.at
  BY DEF SerialInv, UpToDate
<1>4. req[h].op # "create" => /\ seen[h][j.id] # Absent
                              /\ seen[h][j.id] = table[j.id]
                              /\ ~Stale(h, j.id)
  BY <1>2 DEF IInv, HandlerInv, SeenWasStored, SerialInv, UpToDate
<1>5. CASE req[h].op = "create"
  <2>1. j.op = "C"
    BY <1>2, <1>5 DEF OpCode
  <2> QED
    BY <1>1, <1>2, <1>3, <2>1 DEF Current
<1>6. CASE req[h].op = "update"
  <2>1. j.op = "U" /\ j.row = NewRow(h, j.id)
    BY <1>2, <1>6 DEF OpCode, Deletes
  <2>2. /\ j.row.created = seen[h][j.id].created
        /\ j.row.version = req[h].version + 1
    BY <1>6, <2>1 DEF NewRow
  <2>3. table[j.id].version \in Nat /\ req[h].version \in Nat
    BY <1>2, <1>4, <1>6, CallOf DEF IInv, TypeOK, JTypeOK, Row
  <2>4. table[j.id].version < j.row.version
    BY <1>4, <1>6, <2>2, <2>3 DEF Stale
  <2> QED
    BY <1>1, <1>2, <1>3, <1>4, <1>6, <2>1, <2>2, <2>4 DEF Current
<1>7. CASE Deletes(h)
  <2>1. j.op = "D" /\ j.row = seen[h][j.id] /\ req[h].op # "create"
    BY <1>2, <1>7 DEF OpCode, Deletes
  <2> QED
    BY <1>1, <1>2, <1>3, <1>4, <2>1 DEF Current
<1> QED
  BY <1>5, <1>6, <1>7, CallOf DEF Ops, Deletes

LEMMA CommitKeepsSerialInv ==
  ASSUME IInv, SerialInv, OneAtATime', NEW h \in Handlers, NEW a \in Replies,
         Commit(h, a)
  PROVE  SerialInv'
<1>1. pc[h] = "commit"
  BY DEF Commit
<1>2. Transaction(Committed(h)) /\ \A e \in Committed(h) : Current(e)
  BY <1>1, CommitIsTransaction, CommitIsCurrent
<1>3. JournalTells'
  BY <1>2, TransactionTells DEF SerialInv, JournalTells, IInv
<1>4. UpToDate(h)'
  BY DEF UpToDate, Commit, Return, Nothing, IInv, TypeOK
<1>5. ASSUME NEW g \in Handlers, g # h
      PROVE  UpToDate(g)'
  <2>1. SameLocals(g)
    BY <1>5 DEF SameLocals, Commit, Return, IInv, TypeOK
  <2>2. req[g].ids \cap req[h].ids = {}
    BY <1>1, <1>5, OthersAreElsewhere DEF SerialInv
  <2>3. req[g].ids \subseteq Ids
    BY DEF IInv, TypeOK, Request, NoRequest
  <2>4. \A i \in req[g].ids : table'[i] = table[i]
    BY <2>2, <2>3 DEF Commit
  <2>5. \A i \in req[g].ids : \A e \in history' : e.id = i => e \in history
    BY <1>1, <2>2, CommitIsCurrent DEF Commit
  <2>6. Alone(g)
    BY <2>1, <2>4, <2>5 DEF Alone
  <2> QED
    BY <2>6, OthersUpToDate DEF SerialInv
<1> QED
  BY <1>3, <1>4, <1>5 DEF SerialInv, JournalTells

LEMMA InitSerialInv == Init => SerialInv
BY DEF Init, JInit, SerialInv, OneAtATime, Active, CreatedTimeKept,
   VersionsGrow, DeletionRecordsLastRow, UpToDate, Nothing

LEMMA StepKeepsSerialInv ==
  ASSUME IInv, SerialInv, [Next /\ OneAtATime']_vars
  PROVE  SerialInv'
<1>1. CASE UNCHANGED vars
  BY <1>1 DEF vars, locals, SerialInv, OneAtATime, Active, CreatedTimeKept,
     VersionsGrow, DeletionRecordsLastRow, Precedes, UpToDate, Stale
<1>2. CASE Next /\ OneAtATime'
  <2>1. PICK h \in Handlers : \/ Accept(h) \/ Advance(h) \/ Disturb(h)
                              \/ DeadlockVictim(h)
    BY <1>2 DEF Next
  <2>2. \A a : Rollback(h, a) => SerialInv'
    BY <1>2, ReturnKeepsSerialInv DEF Rollback
  <2>3. CASE Accept(h)
    <3>1. PICK q \in Requests : \/ Reject(h, q) \/ DeleteNothing(h, q)
                                \/ BeginCreate(h, q) \/ BeginChange(h, q)
      BY <2>3 DEF Accept
    <3>2. CASE Reject(h, q) \/ DeleteNothing(h, q)
      BY <1>2, <3>2, ReturnKeepsSerialInv DEF Reject, DeleteNothing, Arrives
    <3>3. CASE BeginCreate(h, q) \/ BeginChange(h, q)
      BY <1>2, <3>3, BeginKeepsSerialInv
    <3> QED
      BY <3>1, <3>2, <3>3
  <2>4. CASE Advance(h)
    <3>1. ASSUME NEW i \in Ids, ReadAbsent(h, i) \/ ReadStale(h, i) \/ ExecMiss(h, i)
          PROVE  SerialInv'
      BY <2>2, <3>1 DEF ReadAbsent, ReadStale, ExecMiss
    <3>2. ASSUME NEW i \in Ids, ReadRow(h, i) \/ ExecRow(h, i)
          PROVE  SerialInv'
      BY <1>2, <3>2, ReadRowKeepsSerialInv, ExecRowKeepsSerialInv
    <3>3. ASSUME NEW i \in Ids, NEW t \in Nat, Journal(h, i, t),
                 Deletes(h) \/ t = stamp[h]
          PROVE  SerialInv'
      BY <1>2, <3>3, JournalKeepsSerialInv
    <3>4. ASSUME NEW t \in Nat, Stamp(h, t)
          PROVE  SerialInv'
      BY <1>2, <3>4, StampKeepsSerialInv
    <3>5. CASE Commit(h, "ok")
      BY <1>2, <3>5, CommitKeepsSerialInv DEF Replies
    <3>6. stamp[h] \in Nat /\ Times \subseteq Nat
      BY TimesAreNumbers DEF IInv, TypeOK
    <3> QED
      BY <2>4, <3>1, <3>2, <3>3, <3>4, <3>5, <3>6 DEF Advance, Work, ReadClock
  <2>5. CASE Disturb(h)
    <3>1. CASE ReadFails(h) \/ Fail(h)
      BY <2>2, <3>1 DEF ReadFails, Fail
    <3>2. CASE Commit(h, "error")
      BY <1>2, <3>2, CommitKeepsSerialInv DEF Replies
    <3> QED
      BY <2>5, <3>1, <3>2 DEF Disturb
  <2>6. CASE DeadlockVictim(h)
    BY <2>2, <2>6 DEF DeadlockVictim
  <2> QED
    BY <2>1, <2>3, <2>4, <2>5, <2>6
<1> QED
  BY <1>1, <1>2

(***************************************************************************)
(* The inductive invariant, for all numbers of handlers, entities, values  *)
(* and requests.                                                           *)
(***************************************************************************)
THEOREM SerialCallsKeepInv == SerialSpec => [](IInv /\ SerialInv)
<1>1. Init => IInv /\ SerialInv
  BY InitIInv, InitSerialInv
<1>2. IInv /\ SerialInv /\ [Next /\ OneAtATime']_vars => (IInv /\ SerialInv)'
  BY StepKeepsIInv, StepKeepsSerialInv
<1> QED
  BY <1>1, <1>2, PTL DEF SerialSpec

(***************************************************************************)
(* Calls that are made one at a time, as a single handler makes them, do   *)
(* not overlap.                                                            *)
(***************************************************************************)
THEOREM OneHandlerIsSerial ==
  ASSUME NEW h, Handlers = {h}
  PROVE  Spec => SerialSpec
<1>1. [Next]_vars => [Next /\ OneAtATime']_vars
  BY DEF OneAtATime
<1> QED
  BY <1>1, PTL DEF Spec, SerialSpec

(***************************************************************************)
(* Update, "optimistic lock error": when calls on one entity do not        *)
(* overlap, no update lowers or repeats a version, whatever fails, is      *)
(* retried or loses its answer, and whatever runs on other entities.       *)
(***************************************************************************)
THEOREM SerialVersionsGrow == SerialSpec => []VersionsGrow
<1>1. SerialInv => VersionsGrow
  BY DEF SerialInv
<1> QED
  BY <1>1, SerialCallsKeepInv, PTL

(***************************************************************************)
(* Delete and DeleteAll journal the document they delete, although they    *)
(* read it before their transaction.                                       *)
(***************************************************************************)
THEOREM SerialDeletionsRecordLastRow == SerialSpec => []DeletionRecordsLastRow
<1>1. SerialInv => DeletionRecordsLastRow
  BY DEF SerialInv
<1> QED
  BY <1>1, SerialCallsKeepInv, PTL

(***************************************************************************)
(* Update keeps created_time: a stored document names the time of the last *)
(* creation of its id, whatever the clocks of the servers say.             *)
(***************************************************************************)
THEOREM SerialCreatedTimeKept == SerialSpec => []CreatedTimeKept
<1>1. SerialInv => CreatedTimeKept
  BY DEF SerialInv
<1> QED
  BY <1>1, SerialCallsKeepInv, PTL

-----------------------------------------------------------------------------
(***************************************************************************)
(* Clocks that agree.  A step that journals nothing new of the entities of *)
(* g leaves its times fresh.                                               *)
(***************************************************************************)
LEMMA OthersStayFresh ==
  ASSUME NEW g \in Handlers, IInv, TimesFresh(g), Alone(g)
  PROVE  TimesFresh(g)'
<1>1. \A j \in journal[g] : j.id \in req[g].ids
  BY DEF IInv, HandlerInv, JournalFits
<1> QED
  BY <1>1 DEF TimesFresh, Alone, SameLocals, Fresh, Deletes

LEMMA QuietStepKeepsClocksInv ==
  ASSUME IInv, ClocksInv, NEW h \in Handlers, TimesFresh(h)',
         UNCHANGED <<table, history>>, \A g \in Handlers \ {h} : SameLocals(g)
  PROVE  ClocksInv'
<1>1. ASSUME NEW g \in Handlers, g # h
      PROVE  TimesFresh(g)'
  <2>1. Alone(g)
    BY <1>1 DEF Alone
  <2> QED
    BY <2>1, OthersStayFresh DEF ClocksInv
<1> QED
  BY <1>1 DEF ClocksInv, TimesGrow

LEMMA ReturnKeepsClocksInv ==
  ASSUME IInv, ClocksInv, NEW h \in Handlers, NEW a,
         Return(h, a), UNCHANGED <<table, history>>
  PROVE  ClocksInv'
<1>1. TimesFresh(h)'
  BY DEF TimesFresh, Return, IInv, TypeOK
<1> QED
  BY <1>1, QuietStepKeepsClocksInv DEF SameLocals, Return, IInv, TypeOK

\* No time is taken before the stamp, and none by a call that only reads.
LEMMA EarlyStepKeepsClocksInv ==
  ASSUME IInv, ClocksInv, NEW h \in Handlers,
         \/ \E q : BeginCreate(h, q) \/ BeginChange(h, q)
         \/ \E i \in Ids : ReadRow(h, i)
  PROVE  ClocksInv'
<1>1. /\ UNCHANGED <<table, history, stamp, journal>>
      /\ \E r : req' = [req EXCEPT ![h] = r]
      /\ \E r : seen' = [seen EXCEPT ![h] = r]
      /\ pc[h] \in {"idle", "read"}
      /\ \E p \in {"read", "stamp", "exec"} :
           /\ pc' = [pc EXCEPT ![h] = p]
           /\ p = "exec" => /\ req' = req /\ pc[h] = "read"
                            /\ req[h].op # "update"
  <2>1. req = [req EXCEPT ![h] = req[h]] /\ seen = [seen EXCEPT ![h] = seen[h]]
    BY DEF IInv, TypeOK
  <2>2. ASSUME NEW q, BeginCreate(h, q) \/ BeginChange(h, q)
        PROVE  <1>1!:
    BY <2>1, <2>2 DEF BeginCreate, BeginChange, Begin, Arrives
  <2>3. ASSUME NEW i \in Ids, ReadRow(h, i)
        PROVE  <1>1!:
    BY <2>1, <2>3 DEF ReadRow, ToRead
  <2> QED
    BY <2>2, <2>3
<1>2. journal[h] = {}
  BY <1>1 DEF IInv, HandlerInv, JournalFits
<1>3. pc'[h] \in {"read", "stamp"} \/ Deletes(h)'
  <2>1. pc[h] = "read" /\ req[h].op # "update" => Deletes(h)
    BY CallOf DEF Deletes, IInv, HandlerInv, RequestFits, Active, Ops
  <2> QED
    BY <1>1, <2>1 DEF Deletes, IInv, TypeOK
<1>4. TimesFresh(h)'
  BY <1>1, <1>2, <1>3 DEF TimesFresh
<1> QED
  BY <1>1, <1>4, QuietStepKeepsClocksInv DEF SameLocals, IInv, TypeOK

LEMMA ExecRowKeepsClocksInv ==
  ASSUME IInv, ClocksInv, NEW h \in Handlers, NEW i \in Ids, ExecRow(h, i)
  PROVE  ClocksInv'
<1>1. TimesFresh(h)'
  BY DEF ExecRow, Reaches, ClocksInv, TimesFresh, Deletes, Fresh
<1>2. \A g \in Handlers \ {h} : SameLocals(g)
  BY DEF ExecRow, SameLocals, IInv, TypeOK
<1> QED
  BY <1>1, <1>2, QuietStepKeepsClocksInv DEF ExecRow

LEMMA StampKeepsClocksInv ==
  ASSUME IInv, ClocksInv, NEW h \in Handlers, NEW t, ClocksAgree(h, t), Stamp(h, t)
  PROVE  ClocksInv'
<1>1. journal[h] = {}
  BY DEF Stamp, IInv, HandlerInv, JournalFits
<1>2. TimesFresh(h)'
  BY <1>1 DEF Stamp, TimesFresh, ClocksAgree, Fresh, IInv, TypeOK
<1>3. \A g \in Handlers \ {h} : SameLocals(g)
  BY DEF Stamp, SameLocals, IInv, TypeOK
<1> QED
  BY <1>2, <1>3, QuietStepKeepsClocksInv DEF Stamp

LEMMA JournalKeepsClocksInv ==
  ASSUME IInv, ClocksInv, NEW h \in Handlers, NEW i \in Ids, NEW t,
         Journal(h, i, t), ClocksAgree(h, t) \/ (~Deletes(h) /\ t = stamp[h])
  PROVE  ClocksInv'
<1> DEFINE J == Journals(h, i, t)
<1>1. /\ pc[h] = "journal" /\ i \in req[h].ids
      /\ UNCHANGED <<table, history, req, seen, stamp>>
      /\ journal'[h] = journal[h] \cup {J}
  BY DEF Journal, IInv, TypeOK
<1>2. J.id = i /\ J.at = t
  BY DEF Journals
<1>3. Fresh(i, t)
  BY <1>1 DEF ClocksAgree, ClocksInv, TimesFresh
<1>4. TimesFresh(h)'
  <2> HIDE DEF J
  <2> QED
    BY <1>1, <1>2, <1>3 DEF ClocksInv, TimesFresh, Fresh, Deletes
<1>5. \A g \in Handlers \ {h} : SameLocals(g)
  BY DEF Journal, SameLocals, IInv, TypeOK
<1> QED
  BY <1>1, <1>4, <1>5, QuietStepKeepsClocksInv

\* What is committed is later than all that was journaled of its entities.
LEMMA CommitKeepsClocksInv ==
  ASSUME IInv, SerialInv, ClocksInv, NEW h \in Handlers, NEW a \in Replies,
         Commit(h, a)
  PROVE  ClocksInv'
<1>1. pc[h] = "commit" /\ history' = history \cup Committed(h)
  BY DEF Commit
<1>2. \A e \in Committed(h) : Fresh(e.id, e.at) /\ e.id \in req[h].ids
  <2>1. \A j \in journal[h] : Fresh(j.id, j.at) /\ j.id \in req[h].ids
    BY DEF ClocksInv, TimesFresh, IInv, HandlerInv, JournalFits
  <2> QED
    BY <2>1 DEF Committed
<1>3. TimesGrow'
  <2> SUFFICES ASSUME NEW e \in history', NEW f \in history', e.id = f.id, e.n < f.n
               PROVE  e.at < f.at
    BY DEF TimesGrow
  <2>1. Transaction(Committed(h))
    BY <1>1, CommitIsTransaction
  <2>2. /\ \A k \in history : k.n \in Nat
        /\ \A k \in Committed(h) : k.n \in Nat /\ k.n = commits + 1
    BY <2>1 DEF Transaction, Entry, IInv, TypeOK, JTypeOK
  <2>3. \A k \in Committed(h) : \A p \in history : p.n < k.n
    BY <2>1, NewEntriesAreLast DEF IInv
  <2>4. CASE f \in history
    <3>1. e \in history
      BY <1>1, <2>2, <2>3, <2>4
    <3> QED
      BY <2>4, <3>1 DEF ClocksInv, TimesGrow
  <2>5. CASE f \in Committed(h)
    <3>1. e \in history
      BY <1>1, <2>2, <2>5
    <3> QED
      BY <1>2, <2>5, <3>1 DEF Fresh
  <2> QED
    BY <1>1, <2>4, <2>5
<1>4. TimesFresh(h)'
  BY DEF TimesFresh, Commit, Return, IInv, TypeOK
<1>5. ASSUME NEW g \in Handlers, g # h
      PROVE  TimesFresh(g)'
  <2>1. SameLocals(g)
    BY <1>5 DEF SameLocals, Commit, Return, IInv, TypeOK
  <2>2. req[g].ids \cap req[h].ids = {}
    BY <1>1, <1>5, OthersAreElsewhere DEF SerialInv
  <2>3. req[g].ids \subseteq Ids
    BY DEF IInv, TypeOK, Request, NoRequest
  <2>4. \A i \in req[g].ids : table'[i] = table[i]
    BY <2>2, <2>3 DEF Commit
  <2>5. \A i \in req[g].ids : \A e \in history' : e.id = i => e \in history
    BY <1>1, <1>2, <2>2
  <2>6. Alone(g)
    BY <2>1, <2>4, <2>5 DEF Alone
  <2> QED
    BY <2>6, OthersStayFresh DEF ClocksInv
<1> QED
  BY <1>3, <1>4, <1>5 DEF ClocksInv

LEMMA StepKeepsClocksInv ==
  ASSUME IInv, SerialInv, ClocksInv, [ClocksNext]_vars
  PROVE  ClocksInv'
<1>1. CASE UNCHANGED vars
  BY <1>1 DEF vars, locals, ClocksInv, TimesGrow, TimesFresh, Fresh, Deletes
<1>2. ASSUME NEW h \in Handlers, NEW a, Rollback(h, a)
      PROVE  ClocksInv'
  BY <1>2, ReturnKeepsClocksInv DEF Rollback
<1>3. ASSUME NEW h \in Handlers, Accept(h)
      PROVE  ClocksInv'
  <2>1. PICK q \in Requests : \/ Reject(h, q) \/ DeleteNothing(h, q)
                              \/ BeginCreate(h, q) \/ BeginChange(h, q)
    BY <1>3 DEF Accept
  <2>2. CASE Reject(h, q) \/ DeleteNothing(h, q)
    BY <2>2, ReturnKeepsClocksInv DEF Reject, DeleteNothing, Arrives
  <2>3. CASE BeginCreate(h, q) \/ BeginChange(h, q)
    BY <2>3, EarlyStepKeepsClocksInv
  <2> QED
    BY <2>1, <2>2, <2>3
<1>4. ASSUME NEW h \in Handlers, Work(h)
      PROVE  ClocksInv'
  <2>1. ASSUME NEW i \in Ids, ReadAbsent(h, i) \/ ReadStale(h, i) \/ ExecMiss(h, i)
        PROVE  ClocksInv'
    BY <1>2, <2>1 DEF ReadAbsent, ReadStale, ExecMiss
  <2>2. ASSUME NEW i \in Ids, ReadRow(h, i) \/ ExecRow(h, i)
        PROVE  ClocksInv'
    BY <2>2, EarlyStepKeepsClocksInv, ExecRowKeepsClocksInv
  <2>3. ASSUME NEW i \in Ids, ~Deletes(h), Journal(h, i, stamp[h])
        PROVE  ClocksInv'
    BY <2>3, JournalKeepsClocksInv
  <2>4. CASE Commit(h, "ok")
    BY <2>4, CommitKeepsClocksInv DEF Replies
  <2> QED
    BY <1>4, <2>1, <2>2, <2>3, <2>4 DEF Work
<1>5. ASSUME NEW h \in Handlers, NEW t \in Times, ClocksAgree(h, t), ReadClock(h, t)
      PROVE  ClocksInv'
  BY <1>5, StampKeepsClocksInv, JournalKeepsClocksInv DEF ReadClock
<1>6. ASSUME NEW h \in Handlers, Disturb(h) \/ DeadlockVictim(h)
      PROVE  ClocksInv'
  BY <1>2, <1>6, CommitKeepsClocksInv
  DEF Disturb, DeadlockVictim, ReadFails, Fail, Replies
<1>7. CASE ClocksNext
  BY <1>3, <1>4, <1>5, <1>6, <1>7 DEF ClocksNext
<1> QED
  BY <1>1, <1>7

(***************************************************************************)
(* Agreeing clocks only restrict the times that are taken.                 *)
(***************************************************************************)
LEMMA ClocksNextIsNext == ClocksNext => Next
BY DEF ClocksNext, Next, Advance

(***************************************************************************)
(* The inductive invariant when calls on one entity do not overlap and the *)
(* clocks of the servers agree: journaled times grow with the commits, and *)
(* the times that calls under way have taken are later than those.         *)
(***************************************************************************)
THEOREM SerialClocksKeepInv ==
  SerialClocksSpec => [](IInv /\ SerialInv /\ ClocksInv)
<1>1. Init => IInv /\ SerialInv /\ ClocksInv
  BY InitIInv, InitSerialInv
  DEF Init, JInit, ClocksInv, TimesGrow, TimesFresh
<1>2. /\ IInv /\ SerialInv /\ ClocksInv
      /\ [ClocksNext /\ OneAtATime']_vars
      => (IInv /\ SerialInv /\ ClocksInv)'
  BY ClocksNextIsNext, StepKeepsIInv, StepKeepsSerialInv, StepKeepsClocksInv
<1> QED
  BY <1>1, <1>2, PTL DEF SerialClocksSpec

(***************************************************************************)
(* GetHistory, "latest before or equal the given point in time": when the  *)
(* clocks agree and calls on one entity do not overlap, the answer for any *)
(* time is the change committed last among those no later.                 *)
(***************************************************************************)
THEOREM SerialHistoryAnswersLatest == SerialClocksSpec => []HistoryAnswersLatest
<1>1. IInv /\ ClocksInv => HistoryAnswersLatest
  <2> SUFFICES ASSUME IInv, ClocksInv, NEW i \in Ids, NEW t \in Times,
                      NEW e \in GetHistory(i, t),
                      NEW f \in history, f.id = i, f.at <= t
               PROVE  f.n <= e.n
    BY DEF HistoryAnswersLatest
  <2>1. e \in history /\ e.id = i /\ f.at <= e.at
    BY DEF GetHistory, GetHistoryWithPredicate
  <2>2. e.n \in Nat /\ f.n \in Nat /\ e.at \in Nat /\ f.at \in Nat
    BY <2>1 DEF IInv, TypeOK, JTypeOK, Entry
  <2> QED
    BY <2>1, <2>2 DEF ClocksInv, TimesGrow
<1> QED
  BY <1>1, SerialClocksKeepInv, PTL

-----------------------------------------------------------------------------
(***************************************************************************)
(* A step of handler h changes no call but its own.                        *)
(***************************************************************************)
LEMMA OtherCallsStay ==
  ASSUME IInv, NEW h \in Handlers, NEW p, NEW q,
         pc' = [pc EXCEPT ![h] = p], req' = [req EXCEPT ![h] = q]
  PROVE  PendingCalls' = [PendingCalls EXCEPT ![h] =
                            IF p # "idle" THEN CallOn(q) ELSE NoRequest]
BY DEF IInv, TypeOK, PendingCalls, Active

(***************************************************************************)
(* An active handler has a call of the interface, which waits.             *)
(***************************************************************************)
LEMMA PendingCall ==
  ASSUME IInv, NEW h \in Handlers, pc[h] # "idle"
  PROVE  /\ PendingCalls[h] = CallOn(req[h])
         /\ PendingCalls[h] # NoRequest
         /\ CallOn(req[h]).op = req[h].op
         /\ CallOn(req[h]).ids = req[h].ids
         /\ CallOn(req[h]).val = req[h].val
<1>1. PendingCalls[h] = CallOn(req[h])
  BY DEF PendingCalls, Active
<1>2. req[h].op # "none"
  BY CallOf DEF Ops
<1>3. CallOn(req[h]).op = req[h].op /\ NoRequest.op = "none"
  BY DEF CallOn, NoRequest
<1>4. CallOn(req[h]) # NoRequest
  BY <1>2, <1>3
<1> QED
  BY <1>1, <1>3, <1>4 DEF CallOn

(***************************************************************************)
(* The value stored under an id tells whether a row is there.              *)
(***************************************************************************)
LEMMA PresentIsStored ==
  ASSUME IInv, NEW i \in Ids
  PROVE  Promise!Present(i) <=> table[i] # Absent
<1>1. table[i] # Absent => table[i].val # Absent
  BY AbsentIsNoValue DEF IInv, TypeOK, JTypeOK, Row
<1> QED
  BY <1>1 DEF Promise!Present, StoredValues

(***************************************************************************)
(* A rollback refuses the call, when the answer is justified.              *)
(***************************************************************************)
LEMMA RollbackRefuses ==
  ASSUME IInv, NEW h \in Handlers, pc[h] # "idle",
         NEW a \in {"error", "conflict", "notfound", "internal"},
         Rollback(h, a), Promise!Justified(CallOn(req[h]), a)
  PROVE  Promise!SNext
<1>1. PendingCalls' = [PendingCalls EXCEPT ![h] = NoRequest]
  BY OtherCallsStay DEF Rollback, Return
<1>2. reply' = [reply EXCEPT ![h] = a]
  BY DEF Rollback, Return
<1>3. StoredValues' = StoredValues
  BY DEF Rollback, StoredValues
<1>4. PendingCalls[h] # NoRequest /\ PendingCalls[h] = CallOn(req[h])
  BY PendingCall
<1>5. Promise!Refuse(h)
  BY <1>1, <1>2, <1>3, <1>4 DEF Promise!Refuse, Promise!Answer
<1> QED
  BY <1>5 DEF Promise!SNext

(***************************************************************************)
(* The refusals of Datastore have the reasons that Storage asks for.       *)
(***************************************************************************)
LEMMA RefusalsAreJustified ==
  ASSUME IInv, NEW h \in Handlers,
         \/ ReadFails(h) \/ Fail(h) \/ DeadlockVictim(h)
         \/ \E i \in Ids : ReadAbsent(h, i) \/ ReadStale(h, i) \/ ExecMiss(h, i)
  PROVE  Promise!SNext
<1> DEFINE q == CallOn(req[h])
<1>1. CASE Fail(h)
  <2>1. Promise!Justified(q, "error")
    BY DEF Promise!Justified
  <2> QED
    BY <1>1, <2>1, RollbackRefuses DEF Fail
<1>2. CASE DeadlockVictim(h)
  <2>1. Promise!Justified(q, "error")
    BY DEF Promise!Justified
  <2>2. pc[h] # "idle"
    BY <1>2 DEF DeadlockVictim, Deadlocked, Waits
  <2> QED
    BY <1>2, <2>1, <2>2, RollbackRefuses DEF DeadlockVictim
<1>3. CASE ReadFails(h)
  <2>1. pc[h] # "idle" /\ q.op = req[h].op
    BY <1>3, PendingCall DEF ReadFails
  <2>2. Promise!Justified(q, IF req[h].op = "update" THEN "notfound" ELSE "error")
    BY <2>1 DEF Promise!Justified
  <2> QED
    BY <1>3, <2>1, <2>2, RollbackRefuses DEF ReadFails
<1>4. ASSUME NEW i \in Ids, ReadAbsent(h, i)
      PROVE  Promise!SNext
  <2>1. pc[h] = "read" /\ i \in req[h].ids /\ table[i] = Absent
    BY <1>4 DEF ReadAbsent, ToRead
  <2>2. req[h].op \in {"update", "delete", "deleteAll"}
    BY <2>1, CallOf DEF IInv, HandlerInv, RequestFits, Active, Ops
  <2>3. q.op = req[h].op /\ q.ids = req[h].ids
    BY <2>1, PendingCall
  <2>4. ~Promise!Present(i)
    BY <2>1, PresentIsStored
  <2>5. Promise!Justified(q, "notfound")
    BY <2>1, <2>2, <2>3, <2>4 DEF Promise!Justified
  <2> QED
    BY <1>4, <2>1, <2>5, RollbackRefuses DEF ReadAbsent
<1>5. ASSUME NEW i \in Ids, ReadStale(h, i)
      PROVE  Promise!SNext
  <2>1. pc[h] = "read" /\ req[h].op = "update"
    BY <1>5 DEF ReadStale, ToRead, Stale
  <2>2. Promise!Justified(q, "conflict")
    BY <2>1, PendingCall DEF Promise!Justified
  <2> QED
    BY <1>5, <2>1, <2>2, RollbackRefuses DEF ReadStale
<1>6. ASSUME NEW i \in Ids, ExecMiss(h, i)
      PROVE  Promise!SNext
  <2>1. pc[h] = "exec" /\ i \in req[h].ids /\ ~Matches(h, i)
    BY <1>6 DEF ExecMiss, Reaches
  <2>2. req[h].op \in Ops
    BY <2>1, CallOf
  <2>3. q.op = req[h].op /\ q.ids = req[h].ids
    BY <2>1, PendingCall
  <2>4. Promise!Present(i) <=> req[h].op = "create"
    BY <2>1, PresentIsStored DEF Matches
  <2>5. Promise!Justified(q, MissAnswer[req[h].op])
    BY <2>1, <2>2, <2>3, <2>4 DEF Promise!Justified, MissAnswer, Ops
  <2>6. MissAnswer[req[h].op] \in {"error", "conflict", "notfound", "internal"}
    BY <2>2 DEF MissAnswer, Ops
  <2> QED
    BY <1>6, <2>1, <2>5, <2>6, RollbackRefuses DEF ExecMiss
<1> QED
  BY <1>1, <1>2, <1>3, <1>4, <1>5, <1>6

(***************************************************************************)
(* A commit is the moment at which the call takes effect.                  *)
(***************************************************************************)
LEMMA CommitTakesEffect ==
  ASSUME IInv, NEW h \in Handlers, NEW a \in {"ok", "error"}, Commit(h, a)
  PROVE  Promise!SNext
<1> DEFINE q == CallOn(req[h])
<1>1. pc[h] = "commit"
  BY DEF Commit
<1>2. /\ PendingCalls[h] = q /\ q # NoRequest
      /\ q.op = req[h].op /\ q.ids = req[h].ids /\ q.val = req[h].val
  BY <1>1, PendingCall
<1>3. req[h].op \in Ops /\ req[h].ids \subseteq Ids
  BY <1>1, CallOf
<1>4. PendingCalls' = [PendingCalls EXCEPT ![h] = NoRequest]
  BY OtherCallsStay DEF Commit, Return
<1>5. reply' = [reply EXCEPT ![h] = a]
  BY DEF Commit, Return
<1>6. \A i \in req[h].ids : Promise!Present(i) <=> req[h].op # "create"
  <2>1. \A i \in req[h].ids : lock[i] = h
    BY <1>1, <1>3 DEF IInv, HandlerInv, LocksFit
  <2>2. \A i \in req[h].ids : Matches(h, i)
    BY <1>3, <2>1 DEF IInv, HandlerInv, LockedRowsStay
  <2> QED
    BY <1>3, <2>2, PresentIsStored DEF Matches
<1>7. Promise!Applies(q)
  BY <1>2, <1>6 DEF Promise!Applies
<1>8. StoredValues' = Promise!Effect(q)
  <2>1. ASSUME NEW i \in Ids
        PROVE  StoredValues'[i] = Promise!Effect(q)[i]
    <3>1. CASE i \notin req[h].ids
      BY <1>2, <3>1 DEF StoredValues, Promise!Effect, Commit
    <3>2. CASE i \in req[h].ids /\ Deletes(h)
      BY <1>2, <3>2 DEF StoredValues, Promise!Effect, Commit, Deletes
    <3>3. CASE i \in req[h].ids /\ ~Deletes(h)
      <4>1. table'[i] = NewRow(h, i)
        BY <3>3 DEF Commit
      <4>2. NewRow(h, i) \in Row
        BY <1>1, <1>3, <3>3, NewRowIsRow DEF Deletes, Ops
      <4>3. NewRow(h, i) # Absent /\ NewRow(h, i).val = req[h].val
        BY <4>2, AbsentIsNoRow DEF NewRow
      <4>4. StoredValues'[i] = req[h].val
        BY <4>1, <4>3 DEF StoredValues
      <4> QED
        BY <1>2, <3>3, <4>4 DEF Promise!Effect, Deletes
    <3> QED
      BY <3>1, <3>2, <3>3
  <2>2. StoredValues' = [i \in Ids |-> StoredValues'[i]]
    BY DEF StoredValues
  <2>3. Promise!Effect(q) = [i \in Ids |-> Promise!Effect(q)[i]]
    BY DEF Promise!Effect
  <2> QED
    BY <2>1, <2>2, <2>3, Zenon
<1>9. Promise!TakeEffect(h)
  BY <1>2, <1>4, <1>5, <1>7, <1>8 DEF Promise!TakeEffect, Promise!Answer
<1> QED
  BY <1>9 DEF Promise!SNext

(***************************************************************************)
(* A request that arrives is a call, or is answered at once.               *)
(***************************************************************************)
LEMMA AcceptInvokes ==
  ASSUME IInv, NEW h \in Handlers, Accept(h)
  PROVE  Promise!SNext
<1>1. PICK q \in Requests : \/ Reject(h, q) \/ DeleteNothing(h, q)
                            \/ BeginCreate(h, q) \/ BeginChange(h, q)
  BY DEF Accept
<1>2. pc[h] = "idle" /\ req[h] = NoRequest
  BY <1>1 DEF Reject, DeleteNothing, BeginCreate, BeginChange, Begin, Arrives,
     IInv, HandlerInv, RequestFits, Active
<1>3. PendingCalls[h] = NoRequest
  BY <1>2 DEF PendingCalls, Active
<1>4. StoredValues' = StoredValues
  BY <1>1 DEF Reject, DeleteNothing, BeginCreate, BeginChange, Begin, Arrives,
     StoredValues
<1>5. CASE Reject(h, q) \/ DeleteNothing(h, q)
  <2>1. PICK a \in {"ok", "invalid"} : Return(h, a)
    BY <1>5 DEF Reject, DeleteNothing
  <2>2. PendingCalls' = [PendingCalls EXCEPT ![h] = NoRequest]
    BY <2>1, OtherCallsStay DEF Return
  <2>3. PendingCalls' = PendingCalls
    BY <1>3, <2>2 DEF PendingCalls
  <2>4. Promise!AnswerAtOnce(h)
    BY <1>3, <1>4, <2>1, <2>3 DEF Promise!AnswerAtOnce, Return
  <2> QED
    BY <2>4 DEF Promise!SNext
<1>6. CASE BeginCreate(h, q) \/ BeginChange(h, q)
  <2>1. PICK r \in Request : req' = [req EXCEPT ![h] = r]
    <3>1. q \in Request
      BY RequestsAreCalls
    <3>2. ASSUME NEW i \in Ids
          PROVE  [q EXCEPT !.ids = {i}] \in Request
      BY <3>1 DEF Request
    <3> QED
      BY <1>6, <3>1, <3>2 DEF BeginCreate, BeginChange
  <2>2. PICK p \in {"stamp", "read"} : pc' = [pc EXCEPT ![h] = p]
    BY <1>6 DEF BeginCreate, BeginChange, Begin
  <2>3. PendingCalls' = [PendingCalls EXCEPT ![h] = CallOn(r)]
    BY <2>1, <2>2, OtherCallsStay
  <2>4. CallOn(r) \in Promise!ACall
    BY DEF CallOn, Request, Ops, Promise!ACall
  <2>5. reply' = [reply EXCEPT ![h] = "none"]
    BY <1>6 DEF BeginCreate, BeginChange, Begin
  <2>6. Promise!Invoke(h)
    BY <1>3, <1>4, <2>3, <2>4, <2>5 DEF Promise!Invoke
  <2> QED
    BY <2>6 DEF Promise!SNext
<1> QED
  BY <1>1, <1>5, <1>6

(***************************************************************************)
(* The steps in between are not seen by anybody.                           *)
(***************************************************************************)
LEMMA WorkIsHidden ==
  ASSUME IInv, NEW h \in Handlers,
         \/ \E i \in Ids : ReadRow(h, i) \/ ExecRow(h, i)
         \/ \E t \in Nat : Stamp(h, t) \/ \E i \in Ids : Journal(h, i, t)
  PROVE  UNCHANGED Promise!storageVars
<1>1. PICK p \in Phases \ {"idle"} : pc' = [pc EXCEPT ![h] = p]
  BY DEF ReadRow, ExecRow, Journal, Stamp, Phases
<1>2. pc[h] # "idle"
  BY DEF ReadRow, ToRead, ExecRow, Reaches, Journal, Stamp
<1>3. table' = table /\ req' = req /\ reply' = reply
  BY DEF ReadRow, ExecRow, Journal, Stamp
<1>4. \A g \in Handlers : Active(g)' <=> Active(g)
  BY <1>1, <1>2 DEF Active, IInv, TypeOK
<1>5. PendingCalls' = PendingCalls
  BY <1>3, <1>4 DEF PendingCalls
<1>6. StoredValues' = StoredValues
  BY <1>3 DEF StoredValues
<1> QED
  BY <1>3, <1>5, <1>6 DEF Promise!storageVars

LEMMA StepKeepsPromise ==
  ASSUME IInv, [Next]_vars
  PROVE  [Promise!SNext]_(Promise!storageVars)
<1>1. CASE UNCHANGED vars
  BY <1>1 DEF vars, locals, Promise!storageVars, StoredValues, PendingCalls,
     Active
<1>2. ASSUME NEW h \in Handlers,
             Accept(h) \/ Advance(h) \/ Disturb(h) \/ DeadlockVictim(h)
      PROVE  [Promise!SNext]_(Promise!storageVars)
  <2>1. CASE Accept(h)
    BY <2>1, AcceptInvokes
  <2>2. CASE Commit(h, "ok") \/ Commit(h, "error")
    BY <2>2, CommitTakesEffect
  <2>3. CASE \/ ReadFails(h) \/ Fail(h) \/ DeadlockVictim(h)
             \/ \E i \in Ids :
                  ReadAbsent(h, i) \/ ReadStale(h, i) \/ ExecMiss(h, i)
    BY <2>3, RefusalsAreJustified
  <2>4. CASE \/ \E i \in Ids : ReadRow(h, i) \/ ExecRow(h, i)
             \/ \E t \in Nat : Stamp(h, t) \/ \E i \in Ids : Journal(h, i, t)
    BY <2>4, WorkIsHidden
  <2> QED
    BY <1>2, <2>1, <2>2, <2>3, <2>4, AdvanceSteps DEF Disturb
<1> QED
  BY <1>1, <1>2 DEF Next

(***************************************************************************)
(* The Postgres backend keeps the promise of the interface Storage, for    *)
(* any number of handlers, entities and calls: a call takes effect at one  *)
(* moment or not at all, on exactly the entities it names, and refusals    *)
(* have their reason in what is stored.                                    *)
(***************************************************************************)
THEOREM DatastoreKeepsPromise == Spec => KeepsPromise
<1>1. Init => Promise!SInit
  BY DEF Init, JInit, Promise!SInit, StoredValues, PendingCalls, Active
<1>2. IInv /\ [Next]_vars => [Promise!SNext]_(Promise!storageVars)
  BY StepKeepsPromise
<1> QED
  BY <1>1, <1>2, HandlersAreIsolated, PTL
  DEF Spec, KeepsPromise, Promise!SSpec
=============================================================================
