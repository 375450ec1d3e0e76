---------------------------- MODULE MemoryStore ----------------------------
(***************************************************************************)
(* The backend of the command "memory", pkg/datastore/memory/memory.go:    *)
(* a map from ids to entities that the goroutines of one process share.    *)
(* Every method but DeleteAll holds the mutex from its first look at the   *)
(* map to its return.  DeleteAll replaces the map without the mutex: a     *)
(* data race, whose outcomes are that a method which has already loaded    *)
(* the map still writes to the old one.                                    *)
(*                                                                         *)
(* Versions, filters and paging are ignored by the code; the history       *)
(* queries only return an error.  A document that has no id is stored      *)
(* under the empty id, an id like the others here.                         *)
(***************************************************************************)
EXTENDS Naturals

CONSTANTS
  Ids, Values,
  Absent,       \* the map has no entry for an id
  Handlers,     \* the goroutines that run requests
  Requests,     \* the calls they may make
  MaxRequests,  \* bound: number of calls in a behaviour
  Nobody        \* the owner of the mutex when it is free

Request == [op : {"create", "update", "delete", "deleteAll"},
            ids : SUBSET Ids, val : Values, valid : BOOLEAN]

ASSUME RequestsAreCalls ==
  /\ Requests \subseteq Request
  /\ \A q \in Requests : q.op # "deleteAll" => \E i \in Ids : q.ids = {i}

ASSUME AbsentIsNoValue == Absent \notin Values

ASSUME NobodyIsNoHandler == Nobody \notin Handlers

NoRequest == [op |-> "none", ids |-> {}, val |-> Absent, valid |-> TRUE]

VARIABLES
  entities,  \* entities[i] is the entity stored under id i, or Absent
  mutex,     \* the handler that holds it, or Nobody
  issued,    \* number of calls made
  pc,        \* where the handler is in its call
  req,       \* the call it works on
  old,       \* the handlers that hold a map which DeleteAll has replaced
  reply,     \* the answer to the last call
  wiped      \* DeleteAll was called at least once (auxiliary)

vars == <<entities, mutex, issued, pc, req, old, reply, wiped>>

TypeOK ==
  /\ entities \in [Ids -> Values \cup {Absent}]
  /\ mutex \in Handlers \cup {Nobody}
  /\ issued \in Nat
  /\ pc \in [Handlers -> {"idle", "wipe", "lock", "look", "load", "assign", "unlock"}]
  /\ req \in [Handlers -> Request \cup {NoRequest}]
  /\ old \subseteq {h \in Handlers : pc[h] = "assign"}
  /\ reply \in [Handlers -> {"none", "ok", "conflict", "notfound", "error"}]
  /\ wiped \in BOOLEAN

Init ==
  /\ entities = [i \in Ids |-> Absent]
  /\ mutex = Nobody
  /\ issued = 0
  /\ pc = [h \in Handlers |-> "idle"]
  /\ req = [h \in Handlers |-> NoRequest]
  /\ old = {}
  /\ reply = [h \in Handlers |-> "none"]
  /\ wiped = FALSE

-----------------------------------------------------------------------------
Arrives(h, q) ==
  /\ pc[h] = "idle" /\ issued < MaxRequests
  /\ issued' = issued + 1

\* Create and Update refuse a document without a meta.
Reject(h, q) ==
  /\ Arrives(h, q)
  /\ q.op \in {"create", "update"} /\ ~q.valid
  /\ reply' = [reply EXCEPT ![h] = "error"]
  /\ UNCHANGED <<entities, mutex, pc, req, old, wiped>>

Begin(h, q) ==
  /\ Arrives(h, q)
  /\ q.op \in {"create", "update"} => q.valid
  /\ pc' = [pc EXCEPT ![h] = IF q.op = "deleteAll" THEN "wipe" ELSE "lock"]
  /\ req' = [req EXCEPT ![h] = q]
  /\ reply' = [reply EXCEPT ![h] = "none"]
  /\ UNCHANGED <<entities, mutex, old, wiped>>

\* A new map, whatever the ids are, and no mutex.
DeleteAll(h) ==
  /\ pc[h] = "wipe"
  /\ entities' = [i \in Ids |-> Absent]
  /\ old' = {g \in Handlers : pc[g] = "assign"}
  /\ pc' = [pc EXCEPT ![h] = "idle"]
  /\ req' = [req EXCEPT ![h] = NoRequest]
  /\ reply' = [reply EXCEPT ![h] = "ok"]
  /\ wiped' = TRUE
  /\ UNCHANGED <<mutex, issued>>

\* Mutation: RLock, the other method of the RWMutex, in place of Lock.
LockForReading(h) ==
  /\ pc[h] = "lock"
  /\ mutex' = h
  /\ pc' = [pc EXCEPT ![h] = "look"]
  /\ UNCHANGED <<entities, issued, req, old, reply, wiped>>

Lock(h) ==
  /\ pc[h] = "lock" /\ mutex = Nobody
  /\ mutex' = h
  /\ pc' = [pc EXCEPT ![h] = "look"]
  /\ UNCHANGED <<entities, issued, req, old, reply, wiped>>

(***************************************************************************)
(* The outcome a of a call is known; what is left is the deferred unlock.  *)
(***************************************************************************)
Decide(h, a) ==
  /\ pc' = [pc EXCEPT ![h] = "unlock"]
  /\ reply' = [reply EXCEPT ![h] = a]
  /\ UNCHANGED <<mutex, issued, req, wiped>>

Id(h) == CHOOSE i \in Ids : req[h].ids = {i}

\* Mutation: Create overwrites what is there.
CreateOverwrites(h) ==
  (entities[Id(h)] = Absent) => (req[h].op = "create")

\* The id to create is free, the one to update or delete is there.
Fits(h) == (entities[Id(h)] = Absent) <=> (req[h].op = "create")

\* Mutation: a lookup that misses returns with the mutex held.
LookKeepsMutex(h) ==
  /\ pc[h] = "look"
  /\ IF Fits(h)
     THEN /\ pc' = [pc EXCEPT ![h] = "load"]
          /\ UNCHANGED <<mutex, issued, req, reply, wiped>>
     ELSE /\ pc' = [pc EXCEPT ![h] = "idle"]
          /\ req' = [req EXCEPT ![h] = NoRequest]
          /\ reply' = [reply EXCEPT ![h] =
                         IF req[h].op = "create" THEN "conflict" ELSE "notfound"]
          /\ UNCHANGED <<mutex, issued, wiped>>
  /\ UNCHANGED <<entities, old>>

Look(h) ==
  /\ pc[h] = "look"
  /\ IF Fits(h)
     THEN /\ pc' = [pc EXCEPT ![h] = "load"]
          /\ UNCHANGED <<mutex, issued, req, reply, wiped>>
     ELSE Decide(h, IF req[h].op = "create" THEN "conflict" ELSE "notfound")
  /\ UNCHANGED <<entities, old>>

\* The statement that writes first loads the map ...
Load(h) ==
  /\ pc[h] = "load"
  /\ pc' = [pc EXCEPT ![h] = "assign"]
  /\ UNCHANGED <<entities, mutex, issued, req, old, reply, wiped>>

\* ... and then assigns or deletes an entry of the map it loaded.
Assign(h) ==
  /\ pc[h] = "assign"
  /\ entities' = IF h \in old THEN entities
                 ELSE [entities EXCEPT ![Id(h)] =
                         IF req[h].op = "delete" THEN Absent ELSE req[h].val]
  /\ old' = old \ {h}
  /\ Decide(h, "ok")

Unlock(h) ==
  /\ pc[h] = "unlock"
  /\ mutex' = Nobody
  /\ pc' = [pc EXCEPT ![h] = "idle"]
  /\ req' = [req EXCEPT ![h] = NoRequest]
  /\ UNCHANGED <<entities, issued, old, reply, wiped>>

Accept(h) == \E q \in Requests : Reject(h, q) \/ Begin(h, q)

Advance(h) == \/ DeleteAll(h)
              \/ Lock(h) \/ Look(h) \/ Load(h) \/ Assign(h) \/ Unlock(h)

Next == \E h \in Handlers : Accept(h) \/ Advance(h)

\* Goroutines are scheduled, and a free mutex is given to one that waits.
Spec == Init /\ [][Next]_vars /\ \A h \in Handlers : WF_vars(Advance(h))

-----------------------------------------------------------------------------
(***************************************************************************)
(* The inductive invariant.  A goroutine is past the mutex exactly when it *)
(* holds it, and so the last one to look at the map: what it found stays   *)
(* true until it writes, unless DeleteAll intervenes.                      *)
(***************************************************************************)
CallFits(h) ==
  IF pc[h] = "idle" THEN req[h] = NoRequest
  ELSE /\ req[h] \in Request
       /\ req[h].op = "deleteAll" <=> pc[h] = "wipe"
       /\ pc[h] # "wipe" => \E i \in Ids : req[h].ids = {i}

HoldsMutex(h) == pc[h] \in {"look", "load", "assign", "unlock"}

FindingStands(h) == ~wiped /\ pc[h] \in {"load", "assign"} => Fits(h)

IInv == /\ TypeOK
        /\ \A h \in Handlers : /\ CallFits(h)
                               /\ HoldsMutex(h) <=> mutex = h
                               /\ FindingStands(h)
        /\ ~wiped => old = {}

(***************************************************************************)
(* What callers see.  A call has happened when its outcome is known: the   *)
(* mutex is held until then, so nobody can tell that moment from the       *)
(* return.                                                                 *)
(***************************************************************************)
CallOn(q) == [op |-> q.op, ids |-> q.ids, val |-> q.val]

Decided(h) == pc[h] \in {"idle", "unlock"}

PendingCalls ==
  [h \in Handlers |-> IF Decided(h) THEN NoRequest ELSE CallOn(req[h])]

Promise == INSTANCE Storage WITH
  Callers <- Handlers,
  NoCall <- NoRequest,
  stored <- entities,
  call <- PendingCalls,
  answer <- reply

(***************************************************************************)
(* As long as nobody calls DeleteAll, the in-memory backend keeps the      *)
(* promise of the storage interface: overlapping Create, Update and Delete *)
(* are atomic, and refused only with a reason ("Create implements          *)
(* Storage.", and so on). DeleteAll does not keep it: it starts with a new *)
(* map whatever its ids are, and does not wait for the mutex.              *)
(***************************************************************************)
KeepsPromiseUntilWiped ==
  /\ Promise!SInit
  /\ [][~wiped' => [Promise!SNext]_Promise!storageVars]_vars

(***************************************************************************)
(* A call returns, whatever it finds and whoever calls DeleteAll: no path  *)
(* leaves the mutex locked.                                                *)
(***************************************************************************)
CallsReturn == \A h \in Handlers : pc[h] # "idle" ~> pc[h] = "idle"
=============================================================================
