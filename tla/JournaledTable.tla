--------------------------- MODULE JournaledTable ---------------------------
(***************************************************************************)
(* What the storage layer promises of one entity type (README.md of the    *)
(* repository, "Design"): the data lives in a table of documents, and      *)
(* every change that reaches the table is also written to the history      *)
(* table, its twin.  A step of this specification is one committed         *)
(* transaction: the set of history rows it writes says completely what it  *)
(* does to the table.  Datastore shows how the code keeps the promise.     *)
(***************************************************************************)
EXTENDS Naturals

CONSTANTS
  Ids,     \* entity ids
  Values,  \* the payloads of a document, abstracted to members of a set
  Absent   \* no document is stored under an id

VARIABLES
  table,    \* table[i] is the document stored under id i, or Absent
  history,  \* the rows of the history table
  commits   \* number of transactions committed so far

journalVars == <<table, history, commits>>

(***************************************************************************)
(* A document: the fields of its Meta that the storage layer maintains     *)
(* (version and created_time) and its payload.                             *)
(***************************************************************************)
Row == [version : Nat, created : Nat, val : Values]

ASSUME AbsentIsNoRow == Absent \notin Row

ASSUME AbsentIsNoValue == Absent \notin Values

(***************************************************************************)
(* A row of the history table.  id, op, at (the column created_at) and row *)
(* are its columns; n is the number of the transaction that wrote it, so   *)
(* that the order of commits can be told from the order of timestamps.     *)
(***************************************************************************)
Entry == [n : Nat, id : Ids, op : {"C", "U", "D"}, at : Nat, row : Row]

JTypeOK ==
  /\ table \in [Ids -> Row \cup {Absent}]
  /\ history \subseteq Entry
  /\ commits \in Nat

JInit ==
  /\ table = [i \in Ids |-> Absent]
  /\ history = {}
  /\ commits = 0

(***************************************************************************)
(* When an entry may be journaled.  An update keeps the creation time of a *)
(* document that the journal knows under this id, and a deletion records   *)
(* a document that was really stored under this id: no entry is invented.  *)
(* (Which of the earlier documents is left open: see VersionsGrow and      *)
(* DeletionRecordsLastRow in Datastore.)                                   *)
(***************************************************************************)
Stored(i, r) == \E p \in history : p.id = i /\ p.op # "D" /\ p.row = r

Legal(e) ==
  \/ /\ e.op = "C"
     /\ table[e.id] = Absent
  \/ /\ e.op = "U"
     /\ table[e.id] # Absent
     /\ \E r \in {p.row : p \in history} : /\ Stored(e.id, r)
                                           /\ r.created = e.row.created
  \/ /\ e.op = "D"
     /\ table[e.id] # Absent
     /\ Stored(e.id, e.row)

After(e) == IF e.op = "D" THEN Absent ELSE e.row

(***************************************************************************)
(* One transaction commits the entries in E, at most one for an id.  Only  *)
(* deletions come in sets (DeleteAll).                                     *)
(***************************************************************************)
Transaction(E) ==
  /\ E # {}
  /\ E \subseteq Entry
  /\ \A e \in E : e.n = commits + 1 /\ Legal(e)
  /\ \A e, f \in E : e.id = f.id => e = f
  /\ \A e \in E : e.op # "D" => E = {e}
  /\ table' = [i \in Ids |-> IF \E e \in E : e.id = i
                             THEN After(CHOOSE e \in E : e.id = i)
                             ELSE table[i]]
  /\ history' = history \cup E
  /\ commits' = commits + 1

\* The entries of a step are those it adds to the history.
JNext == Transaction(history' \ history)

JSpec == JInit /\ [][JNext]_journalVars

-----------------------------------------------------------------------------
Latest(e) == \A f \in history : f.id = e.id => f.n <= e.n

(***************************************************************************)
(* The table is the tail of the journal: a document is stored exactly when *)
(* the last committed history row of its id is a creation or an update,    *)
(* and then it is the document of that row.  Whatever interleaving of      *)
(* requests, failures and lost answers produced them, table and history    *)
(* never disagree on what the last commit was.                             *)
(***************************************************************************)
TableIsJournalTail ==
  \A i \in Ids :
    /\ table[i] # Absent =>
         \E e \in history : /\ e.id = i /\ Latest(e)
                            /\ e.op # "D" /\ e.row = table[i]
    /\ table[i] = Absent =>
         \A e \in history : e.id = i /\ Latest(e) => e.op = "D"

\* p is the history row of the same id that was committed right before e.
Precedes(p, e) ==
  /\ p.id = e.id
  /\ p.n < e.n
  /\ \A q \in history : q.id = e.id => q.n <= p.n \/ q.n >= e.n

(***************************************************************************)
(* Lives of an entity do not overlap: an id is created only when it never  *)
(* was or was deleted last, and it is updated or deleted only while it is  *)
(* there.  In particular a late update never resurrects a deleted entity.  *)
(***************************************************************************)
LivesAlternate ==
  \A e \in history :
    /\ e.op = "C" => \A p \in history : Precedes(p, e) => p.op = "D"
    /\ e.op # "C" => \E p \in history : Precedes(p, e) /\ p.op # "D"

\* History rows carry the numbers of past commits, one row for an id in each.
HistoryNumbered ==
  /\ \A e \in history : e.n <= commits
  /\ \A e, f \in history : e.n = f.n /\ e.id = f.id => e = f

\* Inductive: every transaction keeps it.
JInv == JTypeOK /\ HistoryNumbered /\ TableIsJournalTail /\ LivesAlternate
=============================================================================
