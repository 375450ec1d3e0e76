-------------------------- MODULE Datastore_proofs --------------------------
(***************************************************************************)
(* For every number of handlers, entities, values and requests: IInv is an *)
(* invariant of Datastore, and Datastore implements JournaledTable.  First *)
(* what holds of JournaledTable: whatever its transactions are, table and  *)
(* journal agree.                                                          *)
(***************************************************************************)
EXTENDS DatastoreProperties, TLAPS

(***************************************************************************)
(* What a transaction does to a row: the entry of its id decides it, and a *)
(* row without an entry stays.                                             *)
(***************************************************************************)
LEMMA WrittenRows ==
  ASSUME NEW E, Transaction(E)
  PROVE  /\ \A e \in E : table'[e.id] = After(e)
         /\ \A i \in Ids : (\A e \in E : e.id # i) => table'[i] = table[i]
<1>1. ASSUME NEW e \in E
      PROVE  table'[e.id] = After(e)
  <2>1. e.id \in Ids
    BY DEF Transaction, Entry
  <2>2. \A f \in E : f.id = e.id => f = e
    BY DEF Transaction
  <2>3. (CHOOSE f \in E : f.id = e.id) = e
    BY <2>2
  <2>4. table'[e.id] = After(CHOOSE f \in E : f.id = e.id)
    BY <2>1 DEF Transaction
  <2> QED
    BY <2>3, <2>4
<1>2. ASSUME NEW i \in Ids, \A e \in E : e.id # i
      PROVE  table'[i] = table[i]
  BY <1>2 DEF Transaction
<1> QED
  BY <1>1, <1>2

LEMMA TransactionTypes ==
  ASSUME JTypeOK, NEW E, Transaction(E)
  PROVE  JTypeOK'
<1>1. \A e \in E : After(e) \in Row \cup {Absent}
  BY DEF Transaction, After, Entry
<1>2. \A i \in Ids : table'[i] \in Row \cup {Absent}
  BY <1>1, WrittenRows DEF JTypeOK
<1>3. table' \in [Ids -> Row \cup {Absent}]
  <2>1. table' = [i \in Ids |-> table'[i]]
    BY DEF Transaction
  <2> QED
    BY <1>2, <2>1
<1>4. history' \subseteq Entry /\ commits' \in Nat
  BY DEF Transaction, JTypeOK
<1> QED
  BY <1>3, <1>4 DEF JTypeOK

(***************************************************************************)
(* The entries of a transaction are the latest of their ids, and the order *)
(* among the older ones stays.                                             *)
(***************************************************************************)
LEMMA NewEntriesAreLast ==
  ASSUME JInv, NEW E, Transaction(E)
  PROVE  /\ HistoryNumbered'
         /\ \A e \in E : Latest(e)'
         /\ \A e \in E : \A p \in history : p.n < e.n
<1>1. \A e \in E : e.n = commits + 1
  BY DEF Transaction
<1>2. commits \in Nat /\ commits' = commits + 1 /\ history' = history \cup E
  BY DEF Transaction, JInv, JTypeOK
<1>3. \A p \in history : p.n \in Nat /\ p.n <= commits
  BY DEF JInv, JTypeOK, Entry, HistoryNumbered
<1>4. \A e \in E : \A p \in history : p.n < e.n
  BY <1>1, <1>2, <1>3
<1>5. HistoryNumbered'
  <2>1. \A e \in history' : e.n <= commits'
    BY <1>1, <1>2, <1>3
  <2>2. ASSUME NEW e \in history', NEW f \in history', e.n = f.n, e.id = f.id
        PROVE  e = f
    <3>1. CASE e \in E /\ f \in E
      BY <2>2, <3>1 DEF Transaction
    <3>2. CASE e \in history /\ f \in history
      BY <2>2, <3>2 DEF JInv, HistoryNumbered
    <3>3. CASE e \in E /\ f \in history
      BY <2>2, <3>3, <1>1, <1>2, <1>3
    <3>4. CASE e \in history /\ f \in E
      BY <2>2, <3>4, <1>1, <1>2, <1>3
    <3> QED
      BY <1>2, <3>1, <3>2, <3>3, <3>4
  <2> QED
    BY <2>1, <2>2 DEF HistoryNumbered
<1>6. \A e \in E : Latest(e)'
  BY <1>1, <1>2, <1>3 DEF Latest
<1> QED
  BY <1>4, <1>5, <1>6

LEMMA TransactionKeepsTail ==
  ASSUME JInv, NEW E, Transaction(E)
  PROVE  TableIsJournalTail'
<1> USE DEF Transaction
<1>1. history' = history \cup E
  OBVIOUS
<1>2. \A e \in E : e.id \in Ids /\ e.row \in Row
  BY DEF Entry
<1> SUFFICES ASSUME NEW i \in Ids
             PROVE  /\ table'[i] # Absent =>
                         \E e \in history' : /\ e.id = i /\ Latest(e)'
                                             /\ e.op # "D" /\ e.row = table'[i]
                    /\ table'[i] = Absent =>
                         \A e \in history' : e.id = i /\ Latest(e)' => e.op = "D"
  BY DEF TableIsJournalTail
<1>3. CASE \E e \in E : e.id = i
  <2>1. PICK e \in E : e.id = i
    BY <1>3
  <2>2. table'[i] = After(e)
    BY <2>1, WrittenRows
  <2>3. Latest(e)' /\ e \in history'
    BY <1>1, NewEntriesAreLast
  <2>4. \A f \in history' : f.id = i /\ Latest(f)' => f = e
    <3>1. SUFFICES ASSUME NEW f \in history', f.id = i, Latest(f)'
                   PROVE  f = e
      OBVIOUS
    <3>2. e.n <= f.n /\ f.n <= e.n
      BY <2>1, <2>3, <3>1 DEF Latest
    <3>3. e.n \in Nat /\ f.n \in Nat
      BY <2>3, TransactionTypes DEF JInv, JTypeOK, Entry
    <3>4. e.n = f.n
      BY <3>2, <3>3
    <3> QED
      BY <2>1, <2>3, <3>1, <3>4, NewEntriesAreLast DEF HistoryNumbered
  <2>5. After(e) = Absent <=> e.op = "D"
    BY <1>2, AbsentIsNoRow DEF After
  <2>6. e.op # "D" => After(e) = e.row
    BY DEF After
  <2> HIDE DEF Transaction
  <2> QED
    BY <2>1, <2>2, <2>3, <2>4, <2>5, <2>6
<1>4. CASE \A e \in E : e.id # i
  <2>1. table'[i] = table[i]
    BY <1>4, WrittenRows
  <2>2. \A e : e \in history' /\ e.id = i <=> e \in history /\ e.id = i
    BY <1>1, <1>4
  <2>3. \A e : e.id = i => (Latest(e)' <=> Latest(e))
    BY <2>2 DEF Latest
  <2> HIDE DEF Transaction
  <2> QED
    BY <2>1, <2>2, <2>3 DEF JInv, TableIsJournalTail
<1> QED
  BY <1>3, <1>4

(***************************************************************************)
(* Which rows precede which after a transaction: among the older entries   *)
(* nothing changes, and its own follow the latest ones of their ids.       *)
(***************************************************************************)
LEMMA PrecedesAfter ==
  ASSUME JInv, NEW E, Transaction(E)
  PROVE  \A p \in history' :
           /\ \A e \in history : Precedes(p, e)' <=> p \in history /\ Precedes(p, e)
           /\ \A e \in E : Precedes(p, e)' <=> p \in history /\ p.id = e.id /\ Latest(p)
<1>1. history' = history \cup E
  BY DEF Transaction
<1>2. \A e \in E : \A p \in history : p.n < e.n
  BY NewEntriesAreLast
<1>3. \A e \in history : e.n \in Nat /\ e.id \in Ids
  BY DEF JInv, JTypeOK, Entry
<1>4. \A e \in E : e.n \in Nat /\ e.id \in Ids /\ e.n = commits + 1
  BY DEF Transaction, Entry
<1>5. \A e \in history : \A p \in history' :
        Precedes(p, e)' <=> p \in history /\ Precedes(p, e)
  BY <1>1, <1>2, <1>3, <1>4 DEF Precedes
<1>6. ASSUME NEW e \in E, NEW p \in history, p.id = e.id
      PROVE  Precedes(p, e)' <=> Latest(p)
  <2>1. Precedes(p, e)' <=>
          \A q \in history' : q.id = e.id => q.n <= p.n \/ q.n >= e.n
    BY <1>2, <1>6 DEF Precedes
  <2>2. \A q \in E : q.n >= e.n
    BY <1>4
  <2>3. \A q \in history : ~(q.n >= e.n)
    BY <1>2, <1>3, <1>4
  <2> QED
    BY <1>1, <1>6, <2>1, <2>2, <2>3 DEF Latest
<1>7. \A e \in E, p \in E : ~Precedes(p, e)'
  BY <1>4 DEF Precedes
<1>8. \A e, p : Precedes(p, e)' => p.id = e.id
  BY DEF Precedes
<1> QED
  BY <1>1, <1>5, <1>6, <1>7, <1>8

LEMMA TransactionKeepsLives ==
  ASSUME JInv, NEW E, Transaction(E)
  PROVE  LivesAlternate'
<1>1. history' = history \cup E
  BY DEF Transaction
<1>2. ASSUME NEW e \in history
      PROVE  /\ e.op = "C" => \A p \in history' : Precedes(p, e)' => p.op = "D"
             /\ e.op # "C" => \E p \in history' : Precedes(p, e)' /\ p.op # "D"
  BY <1>1, PrecedesAfter DEF JInv, LivesAlternate
<1>3. ASSUME NEW e \in E
      PROVE  /\ e.op = "C" => \A p \in history' : Precedes(p, e)' => p.op = "D"
             /\ e.op # "C" => \E p \in history' : Precedes(p, e)' /\ p.op # "D"
  <2>1. e.id \in Ids /\ Legal(e)
    BY DEF Transaction, Entry
  <2>2. e.op = "C" => table[e.id] = Absent
    BY <2>1 DEF Legal
  <2>3. e.op # "C" => table[e.id] # Absent
    BY <2>1 DEF Legal
  <2>4. ASSUME e.op = "C", NEW p \in history', Precedes(p, e)'
        PROVE  p.op = "D"
    BY <2>1, <2>2, <2>4, PrecedesAfter DEF JInv, TableIsJournalTail
  <2>5. ASSUME e.op # "C"
        PROVE  \E p \in history' : Precedes(p, e)' /\ p.op # "D"
    <3>1. PICK p \in history : p.id = e.id /\ Latest(p) /\ p.op # "D"
      BY <2>1, <2>3, <2>5 DEF JInv, TableIsJournalTail
    <3> QED
      BY <1>1, <3>1, PrecedesAfter
  <2> QED
    BY <2>4, <2>5
<1> QED
  BY <1>1, <1>2, <1>3 DEF LivesAlternate

(***************************************************************************)
(* One transaction keeps the whole of JInv.                                *)
(***************************************************************************)
LEMMA TransactionKeepsJInv ==
  ASSUME JInv, NEW E, Transaction(E)
  PROVE  JInv'
BY TransactionTypes, NewEntriesAreLast, TransactionKeepsTail,
   TransactionKeepsLives DEF JInv

LEMMA InitJInv == JInit => JInv
BY DEF JInit, JInv, JTypeOK, HistoryNumbered, TableIsJournalTail, LivesAlternate

(***************************************************************************)
(* The promise of the abstract storage layer, for all sets of ids and      *)
(* values and all histories: table and journal agree (README of the        *)
(* repository: every change is also written to the history table), and the *)
(* lives of an entity do not overlap.                                      *)
(***************************************************************************)
THEOREM JournalIsConsistent == JSpec => []JInv
<1>1. JInit => JInv
  BY InitJInv
<1>2. JInv /\ [JNext]_journalVars => JInv'
  <2>1. SUFFICES ASSUME JInv, [JNext]_journalVars PROVE JInv'
    OBVIOUS
  <2>2. CASE JNext
    BY <2>1, <2>2, TransactionKeepsJInv DEF JNext
  <2>3. CASE UNCHANGED journalVars
    BY <2>1, <2>3 DEF journalVars, JInv, JTypeOK, HistoryNumbered, Latest,
       TableIsJournalTail, Precedes, LivesAlternate
  <2> QED
    BY <2>1, <2>2, <2>3
<1> QED
  BY <1>1, <1>2, PTL DEF JSpec

-----------------------------------------------------------------------------
LEMMA JInvStays == JInv /\ UNCHANGED journalVars => JInv'
BY DEF journalVars, JInv, JTypeOK, HistoryNumbered, Latest,
   TableIsJournalTail, Precedes, LivesAlternate

(***************************************************************************)
(* A step of another handler: it leaves the locals and the locks of g, and *)
(* the rows g has locked.                                                  *)
(***************************************************************************)
Undisturbed(g) ==
  /\ pc'[g] = pc[g] /\ req'[g] = req[g] /\ seen'[g] = seen[g]
  /\ stamp'[g] = stamp[g] /\ journal'[g] = journal[g]
  /\ \A i \in Ids : lock'[i] = g <=> lock[i] = g
  /\ \A i \in Ids : lock[i] = g => table'[i] = table[i]
  /\ history \subseteq history'

LEMMA OthersStay ==
  ASSUME NEW g \in Handlers, HandlerInv(g), Undisturbed(g)
  PROVE  HandlerInv(g)'
<1> USE DEF Undisturbed
<1>1. RequestFits(g)'
  BY DEF HandlerInv, RequestFits, Active
<1>2. LocksFit(g)'
  BY DEF HandlerInv, LocksFit
<1>3. LockedRowsStay(g)'
  BY DEF HandlerInv, LockedRowsStay, Matches
<1>4. SeenWasStored(g)'
  BY DEF HandlerInv, SeenWasStored, Stored
<1>5. JournalFits(g)'
  <2>1. Journaled(g)' = Journaled(g)
    BY DEF Journaled
  <2>2. \A i : NewRow(g, i)' = NewRow(g, i)
    BY DEF NewRow
  <2>3. Deletes(g)' <=> Deletes(g)
    BY DEF Deletes
  <2> QED
    BY <2>1, <2>2, <2>3 DEF HandlerInv, JournalFits
<1> QED
  BY <1>1, <1>2, <1>3, <1>4, <1>5 DEF HandlerInv

(***************************************************************************)
(* A handler between two calls has no locals and no locks.                 *)
(***************************************************************************)
IsIdle(h) ==
  /\ pc[h] = "idle" /\ req[h] = NoRequest /\ seen[h] = Nothing
  /\ journal[h] = {}
  /\ \A i \in Ids : lock[i] # h

LEMMA IdleFits ==
  \A h \in Handlers : /\ IsIdle(h) => HandlerInv(h)
                      /\ IsIdle(h)' => HandlerInv(h)'
BY DEF IsIdle, HandlerInv, RequestFits, Active, LocksFit, LockedRowsStay,
   SeenWasStored, Nothing, JournalFits

LEMMA InitIInv == Init => IInv
<1> SUFFICES ASSUME Init PROVE IInv
  OBVIOUS
<1>1. TypeOK
  BY DEF Init, JInit, TypeOK, JTypeOK, Nothing, Phases, Replies, Refusals
<1>2. JInv
  BY InitJInv DEF Init
<1>3. \A h \in Handlers : IsIdle(h)
  BY NobodyIsNoHandler DEF Init, IsIdle
<1> QED
  BY <1>1, <1>2, <1>3, IdleFits DEF IInv

(***************************************************************************)
(* The call of h ends without a commit.  Its locks, if it has any, are     *)
(* released, and nothing is left of it.                                    *)
(***************************************************************************)
LEMMA RollbackKeepsIInv ==
  ASSUME IInv, NEW h \in Handlers, NEW a \in Replies, Rollback(h, a)
  PROVE  IInv'
<1> USE DEF Rollback, Return, EndTx
<1>1. TypeOK'
  BY DEF IInv, TypeOK, JTypeOK, Nothing, Phases
<1>2. JInv'
  BY JInvStays DEF IInv, journalVars
<1>3. HandlerInv(h)'
  <2>1. \A i \in Ids : lock'[i] # h
    BY NobodyIsNoHandler DEF IInv, TypeOK
  <2>2. IsIdle(h)'
    BY <2>1 DEF IInv, TypeOK, IsIdle, Nothing
  <2> QED
    BY <2>2, IdleFits
<1>4. ASSUME NEW g \in Handlers, g # h
      PROVE  HandlerInv(g)'
  <2>1. Undisturbed(g)
    BY <1>4, NobodyIsNoHandler DEF IInv, TypeOK, Undisturbed
  <2> QED
    BY <2>1, OthersStay DEF IInv
<1> QED
  BY <1>1, <1>2, <1>3, <1>4 DEF IInv

(***************************************************************************)
(* Reject and DeleteNothing: the call returns at once.                     *)
(***************************************************************************)
LEMMA ReturnAtOnceKeepsIInv ==
  ASSUME IInv, NEW h \in Handlers, NEW q, Arrives(h, q),
         NEW a \in Replies, Return(h, a)
  PROVE  IInv'
<1> USE DEF Arrives, Return
<1>1. TypeOK'
  BY DEF IInv, TypeOK, JTypeOK, Nothing, Phases
<1>2. JInv'
  BY JInvStays DEF IInv, journalVars
<1>3. HandlerInv(h)'
  <2>1. \A i \in Ids : lock'[i] # h
    BY DEF IInv, HandlerInv, LocksFit
  <2>2. IsIdle(h)'
    BY <2>1 DEF IInv, TypeOK, IsIdle, Nothing
  <2> QED
    BY <2>2, IdleFits
<1>4. ASSUME NEW g \in Handlers, g # h
      PROVE  HandlerInv(g)'
  <2>1. Undisturbed(g)
    BY <1>4 DEF IInv, TypeOK, Undisturbed
  <2> QED
    BY <2>1, OthersStay DEF IInv
<1> QED
  BY <1>1, <1>2, <1>3, <1>4 DEF IInv

(***************************************************************************)
(* BeginCreate and BeginChange: h has a call to work on, and nothing else. *)
(***************************************************************************)
LEMMA BeginKeepsIInv ==
  ASSUME IInv, NEW h \in Handlers, NEW q,
         BeginCreate(h, q) \/ BeginChange(h, q)
  PROVE  IInv'
<1> USE DEF Begin, Arrives
<1>1. PICK r \in Request :
        /\ req' = [req EXCEPT ![h] = r]
        /\ r.op = q.op /\ r.ids # {}
        /\ r.op # "deleteAll" => \E i \in Ids : r.ids = {i}
  <2>1. q \in Request
    BY RequestsAreCalls DEF BeginCreate, BeginChange
  <2>2. CASE BeginChange(h, q)
    <3>1. q.op \in {"update", "delete", "deleteAll"}
      BY <2>1, <2>2 DEF BeginChange, Request, Ops
    <3> QED
      BY <2>1, <2>2, <3>1, RequestsAreCalls DEF BeginChange
  <2>3. CASE BeginCreate(h, q) /\ q.ids # {}
    <3>1. req' = [req EXCEPT ![h] = q]
      BY <2>3 DEF BeginCreate
    <3>2. \E i \in Ids : q.ids = {i}
      BY <2>1, <2>3, RequestsAreCalls DEF BeginCreate, Request
    <3> QED
      BY <2>1, <2>3, <3>1, <3>2
  <2>4. CASE BeginCreate(h, q) /\ q.ids = {}
    <3>1. PICK i \in Ids : req' = [req EXCEPT ![h] = [q EXCEPT !.ids = {i}]]
      BY <2>4 DEF BeginCreate
    <3>2. [q EXCEPT !.ids = {i}] \in Request
      BY <2>1 DEF Request
    <3>3. [q EXCEPT !.ids = {i}].ids = {i} /\ [q EXCEPT !.ids = {i}].op = q.op
      BY <2>1 DEF Request
    <3> QED
      BY <3>1, <3>2, <3>3
  <2> QED
    BY <2>2, <2>3, <2>4
<1>2. /\ pc[h] = "idle"
      /\ \/ pc' = [pc EXCEPT ![h] = "stamp"] /\ q.op = "create"
         \/ pc' = [pc EXCEPT ![h] = "read"] /\ q.op # "create"
  BY DEF BeginCreate, BeginChange
<1>3. UNCHANGED <<table, history, commits, lock, seen, stamp, journal>>
  BY DEF BeginCreate, BeginChange
<1>4. TypeOK'
  <2>1. reply' = [reply EXCEPT ![h] = "none"] /\ issued' = issued + 1
    BY DEF BeginCreate, BeginChange
  <2> QED
    BY <1>1, <1>2, <1>3, <2>1 DEF IInv, TypeOK, JTypeOK, Phases, Replies
<1>5. JInv'
  BY <1>3, JInvStays DEF IInv, journalVars
<1>6. HandlerInv(h)'
  <2>1. req'[h] = r /\ pc'[h] \in {"stamp", "read"}
    BY <1>1, <1>2 DEF IInv, TypeOK
  <2>2. RequestFits(h)'
    BY <1>1, <1>2, <2>1 DEF IInv, TypeOK, RequestFits, Active
  <2>3. LocksFit(h)' /\ LockedRowsStay(h)'
    BY <1>2, <1>3, <2>1
    DEF IInv, HandlerInv, LocksFit, LockedRowsStay
  <2>4. SeenWasStored(h)'
    <3>1. \A i \in Ids : seen[h][i] # Absent => Stored(i, seen[h][i])
      BY DEF IInv, HandlerInv, SeenWasStored
    <3> QED
      BY <1>1, <1>2, <1>3, <2>1, <3>1 DEF IInv, TypeOK, SeenWasStored, Stored
  <2>5. JournalFits(h)'
    <3>1. journal'[h] = {}
      BY <1>2, <1>3 DEF IInv, HandlerInv, JournalFits
    <3> QED
      BY <2>1, <3>1 DEF JournalFits
  <2> QED
    BY <2>2, <2>3, <2>4, <2>5 DEF HandlerInv
<1>7. ASSUME NEW g \in Handlers, g # h
      PROVE  HandlerInv(g)'
  <2>1. Undisturbed(g)
    BY <1>1, <1>2, <1>3, <1>7 DEF IInv, TypeOK, Undisturbed
  <2> QED
    BY <2>1, OthersStay DEF IInv
<1> QED
  BY <1>4, <1>5, <1>6, <1>7 DEF IInv

(***************************************************************************)
(* What the steps of a call use of the invariant: its request is a call,   *)
(* and its ids are ids.                                                    *)
(***************************************************************************)
LEMMA CallOf ==
  ASSUME IInv, NEW h \in Handlers, pc[h] # "idle"
  PROVE  /\ req[h] \in Request
         /\ req[h].op \in Ops /\ req[h].ids \subseteq Ids
         /\ req[h].version \in Nat /\ req[h].val \in Values
         /\ req[h].ids # {}
         /\ req[h].op # "deleteAll" => \E i \in Ids : req[h].ids = {i}
BY DEF IInv, HandlerInv, RequestFits, Active, Request

\* Get returns what is stored, and what is stored is in the journal.
LEMMA ReadRowKeepsIInv ==
  ASSUME IInv, NEW h \in Handlers, NEW i \in Ids, ReadRow(h, i)
  PROVE  IInv'
<1> USE DEF ReadRow, ToRead
<1>1. table[i] \in Row
  BY DEF IInv, TypeOK, JTypeOK
<1>2. PICK p \in {"read", "stamp", "exec"} :
        /\ pc' = [pc EXCEPT ![h] = p]
        /\ p = "stamp" => req[h].op = "update"
        /\ p # "read" => \A j \in req[h].ids \ {i} : seen[h][j] # Absent
  OBVIOUS
<1>3. TypeOK'
  <2>1. seen' \in [Handlers -> [Ids -> Row \cup {Absent}]]
    BY <1>1 DEF IInv, TypeOK
  <2>2. pc' \in [Handlers -> Phases]
    BY <1>2 DEF IInv, TypeOK, Phases
  <2> QED
    BY <2>1, <2>2 DEF IInv, TypeOK, JTypeOK
<1>4. JInv'
  BY JInvStays DEF IInv, journalVars
<1>5. HandlerInv(h)'
  <2>1. pc'[h] = p /\ req'[h] = req[h]
    BY <1>2 DEF IInv, TypeOK
  <2>2. \A j \in Ids : seen'[h][j] = IF j = i THEN table[i] ELSE seen[h][j]
    BY DEF IInv, TypeOK
  <2>3. RequestFits(h)'
    BY <1>2, <2>1 DEF IInv, HandlerInv, RequestFits, Active
  <2>4. LocksFit(h)' /\ LockedRowsStay(h)'
    BY <2>1 DEF IInv, HandlerInv, LocksFit, LockedRowsStay
  <2>5. SeenWasStored(h)'
    <3>1. Stored(i, table[i])
      BY DEF IInv, JInv, TableIsJournalTail, Stored
    <3>2. \A j \in Ids : seen'[h][j] # Absent => Stored(j, seen'[h][j])
      BY <2>2, <3>1 DEF IInv, HandlerInv, SeenWasStored
    <3>3. p # "read" => \A j \in req[h].ids : seen'[h][j] # Absent
      BY <1>2, <2>2, CallOf
    <3> QED
      BY <2>1, <3>2, <3>3 DEF SeenWasStored, Stored
  <2>6. JournalFits(h)'
    <3>1. journal'[h] = {}
      BY DEF IInv, HandlerInv, JournalFits
    <3> QED
      BY <2>1, <3>1 DEF JournalFits
  <2> QED
    BY <2>3, <2>4, <2>5, <2>6 DEF HandlerInv
<1>6. ASSUME NEW g \in Handlers, g # h
      PROVE  HandlerInv(g)'
  <2>1. Undisturbed(g)
    BY <1>2, <1>6 DEF IInv, TypeOK, Undisturbed
  <2> QED
    BY <2>1, OthersStay DEF IInv
<1> QED
  BY <1>3, <1>4, <1>5, <1>6 DEF IInv

(***************************************************************************)
(* The steps of a handler at work; every time they use is a number.        *)
(***************************************************************************)
LEMMA AdvanceSteps ==
  ASSUME IInv, NEW h \in Handlers, Advance(h)
  PROVE  \/ \E i \in Ids : \/ ReadRow(h, i) \/ ReadAbsent(h, i) \/ ReadStale(h, i)
                           \/ ExecRow(h, i) \/ ExecMiss(h, i)
                           \/ \E t \in Nat : Journal(h, i, t)
         \/ \E t \in Nat : Stamp(h, t)
         \/ Commit(h, "ok")
<1>1. stamp[h] \in Nat /\ Times \subseteq Nat
  BY TimesAreNumbers DEF IInv, TypeOK
<1> QED
  BY <1>1 DEF Advance, Work, ReadClock

LEMMA StampKeepsIInv ==
  ASSUME IInv, NEW h \in Handlers, NEW t \in Nat, Stamp(h, t)
  PROVE  IInv'
<1> USE DEF Stamp
<1>1. TypeOK'
  BY DEF IInv, TypeOK, JTypeOK, Phases
<1>2. JInv'
  BY JInvStays DEF IInv, journalVars
<1>3. HandlerInv(h)'
  <2>1. pc'[h] = "exec"
    BY DEF IInv, TypeOK
  <2>2. RequestFits(h)' /\ LocksFit(h)' /\ LockedRowsStay(h)'
    BY <2>1 DEF IInv, HandlerInv, RequestFits, Active, LocksFit, LockedRowsStay
  <2>3. SeenWasStored(h)'
    BY <2>1 DEF IInv, HandlerInv, SeenWasStored, Stored
  <2>4. JournalFits(h)'
    BY <2>1 DEF IInv, HandlerInv, JournalFits
  <2> QED
    BY <2>2, <2>3, <2>4 DEF HandlerInv
<1>4. ASSUME NEW g \in Handlers, g # h
      PROVE  HandlerInv(g)'
  <2>1. Undisturbed(g)
    BY <1>4 DEF IInv, TypeOK, Undisturbed
  <2> QED
    BY <2>1, OthersStay DEF IInv
<1> QED
  BY <1>1, <1>2, <1>3, <1>4 DEF IInv

\* A statement takes a lock nobody has, on a row that fits its operation.
LEMMA ExecRowKeepsIInv ==
  ASSUME IInv, NEW h \in Handlers, NEW i \in Ids, ExecRow(h, i)
  PROVE  IInv'
<1> USE DEF ExecRow, Reaches
<1>1. PICK p \in {"exec", "journal"} :
        /\ pc' = [pc EXCEPT ![h] = p]
        /\ p = "journal" => \A j \in req[h].ids \ {i} : lock[j] = h
  OBVIOUS
<1>2. TypeOK'
  <2>1. pc' \in [Handlers -> Phases]
    BY <1>1 DEF IInv, TypeOK, Phases
  <2> QED
    BY <2>1 DEF IInv, TypeOK, JTypeOK
<1>3. JInv'
  BY JInvStays DEF IInv, journalVars
<1>4. HandlerInv(h)'
  <2>1. pc'[h] = p
    BY <1>1 DEF IInv, TypeOK
  <2>2. \A j \in Ids : lock'[j] = IF j = i THEN h ELSE lock[j]
    BY DEF IInv, TypeOK
  <2>3. RequestFits(h)'
    BY <2>1 DEF IInv, HandlerInv, RequestFits, Active
  <2>4. LocksFit(h)'
    BY <1>1, <2>1, <2>2 DEF IInv, HandlerInv, LocksFit
  <2>5. LockedRowsStay(h)'
    BY <2>2 DEF IInv, HandlerInv, LockedRowsStay, Matches
  <2>6. SeenWasStored(h)'
    BY <2>1 DEF IInv, HandlerInv, SeenWasStored, Stored
  <2>7. JournalFits(h)'
    BY <2>1 DEF IInv, HandlerInv, JournalFits
  <2> QED
    BY <2>3, <2>4, <2>5, <2>6, <2>7 DEF HandlerInv
<1>5. ASSUME NEW g \in Handlers, g # h
      PROVE  HandlerInv(g)'
  <2>1. Undisturbed(g)
    BY <1>1, <1>5, NobodyIsNoHandler DEF IInv, TypeOK, Undisturbed
  <2> QED
    BY <2>1, OthersStay DEF IInv
<1> QED
  BY <1>2, <1>3, <1>4, <1>5 DEF IInv

(***************************************************************************)
(* The document a creation or an update writes is a document.              *)
(***************************************************************************)
LEMMA NewRowIsRow ==
  ASSUME IInv, NEW h \in Handlers, NEW i \in Ids,
         pc[h] \in {"journal", "commit"}, i \in req[h].ids
  PROVE  /\ req[h].op \in {"create", "update"} => NewRow(h, i) \in Row
         /\ req[h].op # "create" => seen[h][i] \in Row
<1>1. req[h].op # "create" => seen[h][i] \in Row
  BY DEF IInv, TypeOK, HandlerInv, SeenWasStored
<1>2. stamp[h] \in Nat /\ req[h].version \in Nat /\ req[h].val \in Values
  BY CallOf DEF IInv, TypeOK
<1>3. req[h].op # "create" => seen[h][i].created \in Nat
  BY <1>1 DEF Row
<1>4. CASE req[h].op = "create"
  BY <1>2, <1>4 DEF NewRow, Row
<1>5. CASE req[h].op # "create"
  BY <1>1, <1>2, <1>3, <1>5 DEF NewRow, Row
<1> QED
  BY <1>4, <1>5

LEMMA JournalKeepsIInv ==
  ASSUME IInv, NEW h \in Handlers, NEW i \in Ids, NEW t \in Nat,
         Journal(h, i, t)
  PROVE  IInv'
<1> USE DEF Journal
<1> DEFINE J == Journals(h, i, t)
<1>1. pc[h] = "journal" /\ i \in req[h].ids /\ i \notin Journaled(h)
  OBVIOUS
<1>2. PICK p \in {"journal", "commit"} :
        /\ pc' = [pc EXCEPT ![h] = p]
        /\ p = "commit" => req[h].ids = Journaled(h) \cup {i}
  OBVIOUS
<1>3. /\ J.id = i /\ J.op = OpCode[req[h].op]
      /\ J.row = IF Deletes(h) THEN seen[h][i] ELSE NewRow(h, i)
  BY DEF Journals
<1>4. J \in JournalRow
  <2>1. J.row \in Row
    BY <1>1, <1>3, NewRowIsRow, CallOf DEF Deletes, Ops
  <2>2. OpCode[req[h].op] \in {"C", "U", "D"}
    BY <1>1, CallOf DEF OpCode, Ops
  <2>3. (IF Deletes(h) THEN seen[h][i] ELSE NewRow(h, i)) \in Row
    BY <1>3, <2>1
  <2> QED
    BY <2>2, <2>3 DEF Journals, JournalRow
<1>5. TypeOK'
  <2>1. pc' \in [Handlers -> Phases]
    BY <1>2 DEF IInv, TypeOK, Phases
  <2>2. journal' \in [Handlers -> SUBSET JournalRow]
    BY <1>4 DEF IInv, TypeOK
  <2> QED
    BY <2>1, <2>2 DEF IInv, TypeOK, JTypeOK
<1>6. JInv'
  BY JInvStays DEF IInv, journalVars
<1>7. HandlerInv(h)'
  <2>1. pc'[h] = p /\ journal'[h] = journal[h] \cup {J}
    BY <1>2 DEF IInv, TypeOK
  <2>2. RequestFits(h)' /\ LocksFit(h)' /\ LockedRowsStay(h)'
    BY <1>1, <2>1 DEF IInv, HandlerInv, RequestFits, Active, LocksFit,
       LockedRowsStay, Matches
  <2>3. SeenWasStored(h)'
    BY <1>1, <2>1 DEF IInv, HandlerInv, SeenWasStored, Stored
  <2>4. JournalFits(h)'
    <3>1. \A k : NewRow(h, k)' = NewRow(h, k)
      BY DEF NewRow
    <3>2. Deletes(h)' <=> Deletes(h)
      BY DEF Deletes
    <3>3. Journaled(h)' = Journaled(h) \cup {i}
      BY <1>3, <2>1 DEF Journaled
    <3>4. \A j \in journal'[h] :
            /\ j.id \in req[h].ids
            /\ j.op = OpCode[req[h].op]
            /\ j.row = IF Deletes(h) THEN seen[h][j.id] ELSE NewRow(h, j.id)
      <4> HIDE DEF J
      <4> QED
        BY <1>1, <1>3, <2>1 DEF IInv, HandlerInv, JournalFits
    <3>5. \A j \in journal[h] : j.id # J.id
      BY <1>1, <1>3 DEF Journaled
    <3>6. \A j, k \in journal'[h] : j.id = k.id => j = k
      <4> HIDE DEF J
      <4> QED
        BY <2>1, <3>5 DEF IInv, HandlerInv, JournalFits
    <3> HIDE DEF J
    <3> QED
      BY <1>2, <2>1, <3>1, <3>2, <3>3, <3>4, <3>6 DEF JournalFits
  <2> QED
    BY <2>2, <2>3, <2>4 DEF HandlerInv
<1>8. ASSUME NEW g \in Handlers, g # h
      PROVE  HandlerInv(g)'
  <2>1. Undisturbed(g)
    BY <1>2, <1>8 DEF IInv, TypeOK, Undisturbed
  <2> QED
    BY <2>1, OthersStay DEF IInv
<1> QED
  BY <1>5, <1>6, <1>7, <1>8 DEF IInv

(***************************************************************************)
(* A commit is a transaction of JournaledTable: the rows it writes are     *)
(* those of its history rows, and each of these is legal.                  *)
(***************************************************************************)
LEMMA CommitIsTransaction ==
  ASSUME IInv, NEW h \in Handlers, NEW a \in Replies, Commit(h, a)
  PROVE  Transaction(Committed(h)) /\ Committed(h) = history' \ history
<1> DEFINE E == Committed(h)
           Tagged(j) == [n |-> commits + 1, id |-> j.id, op |-> j.op,
                         at |-> j.at, row |-> j.row]
<1>1. /\ pc[h] = "commit" /\ history' = history \cup E /\ commits' = commits + 1
      /\ table' = [i \in Ids |-> IF i \notin req[h].ids THEN table[i]
                                 ELSE IF Deletes(h) THEN Absent
                                 ELSE NewRow(h, i)]
  BY DEF Commit
<1>2. E = {Tagged(j) : j \in journal[h]}
  BY DEF Committed
<1>3. \A j \in journal[h] :
        /\ j \in JournalRow /\ j.id \in req[h].ids /\ j.id \in Ids
        /\ j.op = OpCode[req[h].op]
        /\ j.row = IF Deletes(h) THEN seen[h][j.id] ELSE NewRow(h, j.id)
  BY <1>1, CallOf DEF IInv, TypeOK, HandlerInv, JournalFits
<1>4. \A j \in journal[h] :
        /\ Tagged(j) \in Entry
        /\ Tagged(j).n = commits + 1 /\ Tagged(j).id = j.id
        /\ Tagged(j).op = j.op /\ Tagged(j).row = j.row
  BY <1>3 DEF IInv, TypeOK, JTypeOK, JournalRow, Entry
<1>5. E \subseteq Entry /\ \A e \in E : e.n = commits + 1
  BY <1>2, <1>4
<1>6. \A i \in req[h].ids : \E j \in journal[h] : j.id = i
  BY <1>1 DEF IInv, HandlerInv, JournalFits, Journaled
<1>7. E # {}
  <2>1. PICK i : i \in req[h].ids
    BY <1>1, CallOf
  <2>2. PICK j \in journal[h] : j.id = i
    BY <1>6, <2>1
  <2>3. Tagged(j) \in E
    BY <1>2
  <2> QED
    BY <2>3
<1>8. \A e, f \in E : e.id = f.id => e = f
  <2>1. \A j, k \in journal[h] : j.id = k.id => j = k
    BY DEF IInv, HandlerInv, JournalFits
  <2> HIDE DEF Tagged
  <2> QED
    BY <1>2, <1>4, <2>1
<1>9. ASSUME NEW e \in E, e.op # "D"
      PROVE  E = {e}
  <2>1. PICK j \in journal[h] : e = Tagged(j)
    BY <1>2
  <2>2. req[h].op # "deleteAll"
    BY <1>3, <1>4, <1>9, <2>1 DEF OpCode
  <2>3. PICK i \in Ids : req[h].ids = {i}
    BY <1>1, <2>2, CallOf
  <2>4. \A f \in E : f.id = i
    BY <1>2, <1>3, <1>4, <2>3
  <2> HIDE DEF E
  <2> QED
    BY <1>8, <2>4
<1>10. ASSUME NEW e \in E
       PROVE  Legal(e)
  <2>1. PICK j \in journal[h] : e = Tagged(j)
    BY <1>2
  <2>2. e.id = j.id /\ e.op = j.op /\ e.row = j.row
    BY <1>4, <2>1
  <2>3. lock[e.id] = h /\ e.id \in Ids /\ e.id \in req[h].ids
    BY <1>1, <1>3, <2>2 DEF IInv, HandlerInv, LocksFit
  <2>4. (table[e.id] = Absent) <=> (req[h].op = "create")
    BY <2>3 DEF IInv, HandlerInv, LockedRowsStay, Matches
  <2>5. req[h].op # "create" => Stored(e.id, seen[h][e.id])
    BY <1>1, <2>3 DEF IInv, HandlerInv, SeenWasStored
  <2>6. CASE req[h].op = "create"
    BY <1>3, <2>2, <2>4, <2>6 DEF Legal, OpCode
  <2>7. CASE req[h].op = "update"
    <3>1. e.op = "U" /\ e.row = NewRow(h, e.id)
      BY <1>3, <2>2, <2>7 DEF OpCode, Deletes
    <3>2. e.row.created = seen[h][e.id].created
      BY <2>7, <3>1 DEF NewRow
    <3> QED
      BY <2>4, <2>5, <2>7, <3>1, <3>2 DEF Legal, Stored
  <2>8. CASE Deletes(h)
    <3>1. e.op = "D" /\ e.row = seen[h][e.id]
      BY <1>3, <2>2, <2>8 DEF OpCode, Deletes
    <3> QED
      BY <2>4, <2>5, <2>8, <3>1 DEF Legal, Deletes
  <2> QED
    BY <1>1, <2>6, <2>7, <2>8, CallOf DEF Ops, Deletes
<1>11. table' = [i \in Ids |-> IF \E e \in E : e.id = i
                              THEN After(CHOOSE e \in E : e.id = i)
                              ELSE table[i]]
  <2>1. ASSUME NEW i \in Ids, i \in req[h].ids
        PROVE  /\ \E e \in E : e.id = i
               /\ table'[i] = After(CHOOSE e \in E : e.id = i)
    <3>1. PICK j \in journal[h] : j.id = i
      BY <1>6, <2>1
    <3>2. Tagged(j) \in E /\ Tagged(j).id = i
      BY <1>2, <1>4, <3>1
    <3> DEFINE e == CHOOSE x \in E : x.id = i
    <3>3. e \in E /\ e.id = i
      BY <3>2
    <3>4. e = Tagged(j)
      <4> HIDE DEF E, Tagged, e
      <4> QED
        BY <1>8, <3>2, <3>3
    <3>5. After(e) = IF Deletes(h) THEN Absent ELSE NewRow(h, i)
      <4>1. e.op = OpCode[req[h].op]
        BY <1>3, <1>4, <3>4
      <4>2. e.row = IF Deletes(h) THEN seen[h][i] ELSE NewRow(h, i)
        BY <1>3, <1>4, <3>1, <3>4
      <4>3. e.op = "D" <=> Deletes(h)
        BY <1>1, <4>1, CallOf DEF OpCode, Deletes, Ops
      <4> HIDE DEF e
      <4> QED
        BY <4>2, <4>3 DEF After
    <3> QED
      BY <1>1, <2>1, <3>2, <3>5
  <2>2. ASSUME NEW i \in Ids, i \notin req[h].ids
        PROVE  /\ ~ \E e \in E : e.id = i
               /\ table'[i] = table[i]
    BY <1>1, <1>2, <1>3, <1>4, <2>2
  <2>3. table' = [i \in Ids |-> table'[i]]
    BY <1>1
  <2> HIDE DEF E
  <2> QED
    BY <2>1, <2>2, <2>3
<1>12. E = history' \ history
  <2>1. \A e \in history : e.n \in Nat /\ e.n <= commits
    BY DEF IInv, JInv, JTypeOK, Entry, HistoryNumbered
  <2>2. commits \in Nat
    BY DEF IInv, JInv, JTypeOK
  <2>3. \A e \in E : e \notin history
    BY <1>5, <2>1, <2>2
  <2> HIDE DEF E
  <2> QED
    BY <1>1, <2>3
<1> HIDE DEF E
<1>13. Transaction(E)
  BY <1>1, <1>5, <1>7, <1>8, <1>9, <1>10, <1>11 DEF Transaction
<1> QED
  BY <1>12, <1>13 DEF E

LEMMA CommitKeepsIInv ==
  ASSUME IInv, NEW h \in Handlers, NEW a \in Replies, Commit(h, a)
  PROVE  IInv'
<1> USE DEF Commit, Return, EndTx
<1>1. JInv'
  BY CommitIsTransaction, TransactionKeepsJInv DEF IInv
<1>2. TypeOK'
  <2>1. JTypeOK'
    BY <1>1 DEF JInv
  <2> QED
    BY <2>1 DEF IInv, TypeOK, Nothing, Phases
<1>3. HandlerInv(h)'
  <2>1. \A i \in Ids : lock'[i] # h
    BY NobodyIsNoHandler DEF IInv, TypeOK
  <2>2. IsIdle(h)'
    BY <2>1 DEF IInv, TypeOK, IsIdle, Nothing
  <2> QED
    BY <2>2, IdleFits
<1>4. ASSUME NEW g \in Handlers, g # h
      PROVE  HandlerInv(g)'
  <2>1. \A i \in Ids : lock[i] = g => table'[i] = table[i]
    BY <1>4 DEF IInv, HandlerInv, LocksFit
  <2>2. Undisturbed(g)
    BY <1>4, <2>1, NobodyIsNoHandler DEF IInv, TypeOK, Undisturbed
  <2> QED
    BY <2>2, OthersStay DEF IInv
<1> QED
  BY <1>1, <1>2, <1>3, <1>4 DEF IInv

(***************************************************************************)
(* Every step keeps IInv, and is a transaction or leaves the journal.      *)
(***************************************************************************)
LEMMA StepKeepsIInv ==
  ASSUME IInv, [Next]_vars
  PROVE  IInv'
<1>1. CASE UNCHANGED vars
  <2>1. JInv'
    BY <1>1, JInvStays DEF IInv, vars, journalVars
  <2>2. \A g \in Handlers : Undisturbed(g)
    BY <1>1 DEF vars, locals, Undisturbed
  <2>3. TypeOK'
    BY <1>1 DEF IInv, vars, locals, TypeOK, JTypeOK
  <2> QED
    BY <2>1, <2>2, <2>3, OthersStay DEF IInv
<1>2. CASE Next
  <2>1. PICK h \in Handlers : \/ Accept(h) \/ Advance(h) \/ Disturb(h)
                              \/ DeadlockVictim(h)
    BY <1>2 DEF Next
  <2>2. CASE Accept(h)
    <3>1. PICK q \in Requests : \/ Reject(h, q) \/ DeleteNothing(h, q)
                                \/ BeginCreate(h, q) \/ BeginChange(h, q)
      BY <2>2 DEF Accept
    <3>2. CASE Reject(h, q) \/ DeleteNothing(h, q)
      BY <3>2, ReturnAtOnceKeepsIInv DEF Reject, DeleteNothing, Replies, Refusals
    <3>3. CASE BeginCreate(h, q) \/ BeginChange(h, q)
      BY <3>3, BeginKeepsIInv
    <3> QED
      BY <3>1, <3>2, <3>3
  <2>3. CASE Advance(h)
    <3>1. ASSUME NEW i \in Ids, ReadAbsent(h, i) \/ ReadStale(h, i)
          PROVE  IInv'
      BY <3>1, RollbackKeepsIInv DEF ReadAbsent, ReadStale, Replies, Refusals
    <3>2. ASSUME NEW i \in Ids, ExecMiss(h, i)
          PROVE  IInv'
      <4>1. MissAnswer[req[h].op] \in Replies
        BY <3>2, CallOf DEF ExecMiss, Reaches, MissAnswer, Ops, Replies, Refusals
      <4> QED
        BY <3>2, <4>1, RollbackKeepsIInv DEF ExecMiss
    <3>3. ASSUME NEW i \in Ids, NEW t \in Nat,
                 ReadRow(h, i) \/ ExecRow(h, i) \/ Journal(h, i, t)
          PROVE  IInv'
      BY <3>3, ReadRowKeepsIInv, ExecRowKeepsIInv, JournalKeepsIInv
    <3>4. CASE \E t \in Nat : Stamp(h, t)
      BY <3>4, StampKeepsIInv
    <3>5. CASE Commit(h, "ok")
      BY <3>5, CommitKeepsIInv DEF Replies
    <3> QED
      BY <2>3, <3>1, <3>2, <3>3, <3>4, <3>5, AdvanceSteps
  <2>4. CASE Disturb(h)
    <3>1. CASE ReadFails(h)
      BY <3>1, RollbackKeepsIInv DEF ReadFails, Replies, Refusals
    <3>2. CASE Fail(h)
      BY <3>2, RollbackKeepsIInv DEF Fail, Replies
    <3>3. CASE Commit(h, "error")
      BY <3>3, CommitKeepsIInv DEF Replies
    <3> QED
      BY <2>4, <3>1, <3>2, <3>3 DEF Disturb
  <2>5. CASE DeadlockVictim(h)
    BY <2>5, RollbackKeepsIInv DEF DeadlockVictim, Replies
  <2> QED
    BY <2>1, <2>2, <2>3, <2>4, <2>5
<1> QED
  BY <1>1, <1>2

LEMMA StepIsTransaction ==
  ASSUME IInv, [Next]_vars
  PROVE  [JNext]_journalVars
<1>1. CASE UNCHANGED vars
  BY <1>1 DEF vars, journalVars
<1>2. ASSUME NEW h \in Handlers, NEW a \in Replies, Commit(h, a)
      PROVE  JNext
  BY <1>2, CommitIsTransaction DEF JNext
<1>3. ASSUME NEW h \in Handlers, Accept(h) \/ DeadlockVictim(h) \/ ReadFails(h)
                                \/ Fail(h) \/ \E t \in Nat : Stamp(h, t)
      PROVE  UNCHANGED journalVars
  BY <1>3 DEF Accept, Reject, DeleteNothing, BeginCreate, BeginChange, Begin,
     Arrives, DeadlockVictim, ReadFails, Fail, Rollback, Stamp, journalVars
<1>4. ASSUME NEW h \in Handlers, NEW i \in Ids,
             \/ ReadRow(h, i) \/ ReadAbsent(h, i) \/ ReadStale(h, i)
             \/ ExecRow(h, i) \/ ExecMiss(h, i)
             \/ \E t \in Nat : Journal(h, i, t)
      PROVE  UNCHANGED journalVars
  BY <1>4 DEF ReadRow, ReadAbsent, ReadStale, ExecRow, ExecMiss, Journal,
     Rollback, journalVars
<1>5. CASE Next
  <2>1. {"ok", "error"} \subseteq Replies
    BY DEF Replies
  <2> QED
    BY <1>2, <1>3, <1>4, <1>5, <2>1, AdvanceSteps DEF Next, Disturb
<1> QED
  BY <1>1, <1>5

(***************************************************************************)
(* The inductive invariant of the storage layer, whatever the number of    *)
(* handlers and requests and whatever fails: in particular its variables   *)
(* keep their types, only the transaction that has locked a row commits to *)
(* it, and what a handler read outside of its transaction was once stored. *)
(***************************************************************************)
THEOREM HandlersAreIsolated == Spec => []IInv
<1>1. Init => IInv
  BY InitIInv
<1>2. IInv /\ [Next]_vars => IInv'
  BY StepKeepsIInv
<1> QED
  BY <1>1, <1>2, PTL DEF Spec

(***************************************************************************)
(* Create, Update, Delete and DeleteAll implement the abstract journaled   *)
(* table: each transaction they commit is one of JournaledTable, and all   *)
(* their other steps leave table and history alone.                        *)
(***************************************************************************)
THEOREM DatastoreJournals == Spec => JSpec
<1>1. Init => JInit
  BY DEF Init
<1>2. IInv /\ [Next]_vars => [JNext]_journalVars
  BY StepIsTransaction
<1> QED
  BY <1>1, <1>2, HandlersAreIsolated, PTL DEF Spec, JSpec

(***************************************************************************)
(* Table and history never disagree on what the last commit to an entity   *)
(* was (Create, Update, Delete, DeleteAll with insertHistory).             *)
(***************************************************************************)
THEOREM TableFollowsJournal == Spec => []TableIsJournalTail
<1>1. IInv => TableIsJournalTail
  BY DEF IInv, JInv
<1> QED
  BY <1>1, HandlersAreIsolated, PTL

(***************************************************************************)
(* The lives of an entity do not overlap: no concurrent update resurrects  *)
(* an entity whose deletion was committed.                                 *)
(***************************************************************************)
THEOREM NoResurrection == Spec => []LivesAlternate
<1>1. IInv => LivesAlternate
  BY DEF IInv, JInv
<1> QED
  BY <1>1, HandlersAreIsolated, PTL

(***************************************************************************)
(* The steps after which a call has returned, and what they answer.        *)
(***************************************************************************)
LEMMA RollbackIsTruthful ==
  ASSUME IInv, NEW h \in Handlers, NEW a \in Replies \ {"ok"}, Rollback(h, a)
  PROVE  \A g \in Handlers : Truthful(g)
<1>1. reply'[h] # "ok" /\ table' = table /\ history' = history
  BY DEF IInv, TypeOK, Rollback, Return
<1>2. \A g \in Handlers : g # h => pc'[g] = pc[g]
  BY DEF IInv, TypeOK, Rollback, Return
<1> QED
  BY <1>1, <1>2 DEF Truthful, Active

LEMMA CommitIsTruthful ==
  ASSUME IInv, NEW h \in Handlers, NEW a \in {"ok", "error"}, Commit(h, a)
  PROVE  \A g \in Handlers : Truthful(g)
<1>1. pc[h] = "commit" /\ reply'[h] = a
  BY DEF Commit, Return, IInv, TypeOK
<1>2. \A g \in Handlers : g # h => pc'[g] = pc[g]
  BY DEF IInv, TypeOK, Commit, Return
<1>3. Committed(h) = history' \ history
  BY CommitIsTransaction DEF Replies
<1>4. {e.id : e \in Committed(h)} = req[h].ids
  <2>1. Journaled(h) = req[h].ids
    BY <1>1 DEF IInv, HandlerInv, JournalFits
  <2>2. {e.id : e \in Committed(h)} = Journaled(h)
    <3> DEFINE Tagged(j) == [n |-> commits + 1, id |-> j.id, op |-> j.op,
                             at |-> j.at, row |-> j.row]
    <3>1. Committed(h) = {Tagged(j) : j \in journal[h]}
      BY DEF Committed
    <3>2. \A j \in journal[h] : Tagged(j).id = j.id
      OBVIOUS
    <3> HIDE DEF Tagged
    <3> QED
      BY <3>1, <3>2 DEF Journaled
  <2> QED
    BY <2>1, <2>2
<1>5. ASSUME NEW i \in req[h].ids
      PROVE  IF Deletes(h) THEN table'[i] = Absent
             ELSE table'[i] # Absent /\ table'[i].val = req[h].val
  <2>1. i \in Ids
    BY <1>1, CallOf
  <2>2. table'[i] = IF Deletes(h) THEN Absent ELSE NewRow(h, i)
    BY <2>1 DEF Commit
  <2>3. ASSUME ~Deletes(h)
        PROVE  NewRow(h, i) # Absent
    <3>1. NewRow(h, i) \in Row
      BY <1>1, <2>1, <2>3, NewRowIsRow, CallOf DEF Deletes, Ops
    <3> QED
      BY <3>1, AbsentIsNoRow
  <2>4. NewRow(h, i).val = req[h].val
    BY DEF NewRow
  <2> QED
    BY <2>2, <2>3, <2>4
<1>6. Truthful(h)
  BY <1>1, <1>3, <1>4, <1>5 DEF Truthful, Refusals
<1> QED
  BY <1>1, <1>2, <1>6 DEF Truthful, Active

LEMMA WorkIsTruthful ==
  ASSUME IInv, NEW h \in Handlers,
         \/ \E i \in Ids : ReadRow(h, i) \/ ExecRow(h, i)
         \/ \E t \in Nat : Stamp(h, t) \/ \E i \in Ids : Journal(h, i, t)
         \/ Accept(h)
  PROVE  \A g \in Handlers : Truthful(g)
<1>1. \A g \in Handlers : g # h => pc'[g] = pc[g]
  <2>1. pc' = [pc EXCEPT ![h] = pc'[h]]
    BY DEF ReadRow, ExecRow, Journal, Stamp, Accept, Reject, DeleteNothing,
       BeginCreate, BeginChange, Begin, Return, IInv, TypeOK
  <2> QED
    BY <2>1 DEF IInv, TypeOK
<1>2. CASE Accept(h)
  <2>1. pc[h] = "idle"
    BY <1>2 DEF Accept, Reject, DeleteNothing, BeginCreate, BeginChange, Begin,
       Arrives
  <2> QED
    BY <1>1, <2>1 DEF Truthful, Active
<1>3. CASE ~Accept(h)
  <2>1. pc[h] # "idle" => pc'[h] # "idle"
    <3>1. ASSUME NEW t \in Nat, Stamp(h, t)
          PROVE  pc'[h] # "idle"
      BY <3>1 DEF Stamp, IInv, TypeOK
    <3>2. ASSUME NEW i \in Ids, ReadRow(h, i)
          PROVE  pc'[h] # "idle"
      BY <3>2 DEF ReadRow, IInv, TypeOK
    <3>3. ASSUME NEW i \in Ids, ExecRow(h, i)
          PROVE  pc'[h] # "idle"
      BY <3>3 DEF ExecRow, IInv, TypeOK
    <3>4. ASSUME NEW i \in Ids, NEW t \in Nat, Journal(h, i, t)
          PROVE  pc'[h] # "idle"
      BY <3>4 DEF Journal, IInv, TypeOK
    <3> QED
      BY <1>3, <3>1, <3>2, <3>3, <3>4
  <2> QED
    BY <1>1, <2>1 DEF Truthful, Active
<1> QED
  BY <1>2, <1>3

(***************************************************************************)
(* Answers tell the truth, whatever overlaps and whatever fails: "ok" is   *)
(* said of calls that took effect completely, in one transaction, and a    *)
(* refused call changed nothing (the return values of Create, Update,      *)
(* Delete and DeleteAll).                                                  *)
(***************************************************************************)
THEOREM AnswersTellTheTruth == Spec => AnswersAreTruthful
<1>1. IInv /\ [Next]_vars => [\A h \in Handlers : Truthful(h)]_vars
  <2>1. SUFFICES ASSUME IInv, Next PROVE \A g \in Handlers : Truthful(g)
    OBVIOUS
  <2>2. PICK h \in Handlers : \/ Accept(h) \/ Advance(h) \/ Disturb(h)
                              \/ DeadlockVictim(h)
    BY <2>1 DEF Next
  <2>3. CASE Accept(h)
    BY <2>1, <2>3, WorkIsTruthful
  <2>4. CASE Advance(h)
    <3>1. ASSUME NEW i \in Ids, ReadAbsent(h, i) \/ ReadStale(h, i)
          PROVE  \A g \in Handlers : Truthful(g)
      BY <2>1, <3>1, RollbackIsTruthful
      DEF ReadAbsent, ReadStale, Replies, Refusals
    <3>2. ASSUME NEW i \in Ids, ExecMiss(h, i)
          PROVE  \A g \in Handlers : Truthful(g)
      <4>1. MissAnswer[req[h].op] \in Replies \ {"ok"}
        BY <2>1, <3>2, CallOf
        DEF ExecMiss, Reaches, MissAnswer, Ops, Replies, Refusals
      <4> QED
        BY <2>1, <3>2, <4>1, RollbackIsTruthful DEF ExecMiss
    <3>3. CASE \/ \E i \in Ids : ReadRow(h, i) \/ ExecRow(h, i)
               \/ \E t \in Nat : Stamp(h, t) \/ \E i \in Ids : Journal(h, i, t)
      BY <2>1, <3>3, WorkIsTruthful
    <3>4. CASE Commit(h, "ok")
      BY <2>1, <3>4, CommitIsTruthful
    <3> QED
      BY <2>1, <2>4, <3>1, <3>2, <3>3, <3>4, AdvanceSteps
  <2>5. CASE Disturb(h)
    <3>1. CASE ReadFails(h)
      BY <2>1, <3>1, RollbackIsTruthful DEF ReadFails, Replies, Refusals
    <3>2. CASE Fail(h)
      BY <2>1, <3>2, RollbackIsTruthful DEF Fail, Replies
    <3>3. CASE Commit(h, "error")
      BY <2>1, <3>3, CommitIsTruthful
    <3> QED
      BY <2>5, <3>1, <3>2, <3>3 DEF Disturb
  <2>6. CASE DeadlockVictim(h)
    BY <2>1, <2>6, RollbackIsTruthful DEF DeadlockVictim, Replies
  <2> QED
    BY <2>2, <2>3, <2>4, <2>5, <2>6
<1> QED
  BY <1>1, HandlersAreIsolated, PTL DEF Spec, AnswersAreTruthful
=============================================================================
