------------------------------ MODULE Storage ------------------------------
(***************************************************************************)
(* What a backend promises the services that call it (the interface        *)
(* Storage of pkg/api/entity.go), for one type of entities: a call takes   *)
(* effect at one moment between its arrival and its answer, or never; what *)
(* it does then depends only on what is stored at that moment; and its     *)
(* answer says which it was.  Calls of many callers overlap.               *)
(*                                                                         *)
(* Datastore (Postgres) and MemoryStore are shown to implement this.       *)
(***************************************************************************)
CONSTANTS
  Ids,      \* entity ids
  Values,   \* what a caller stores, abstracted
  Absent,   \* nothing is stored under an id: not a member of Values
  Callers,  \* the goroutines that call the storage
  NoCall    \* a caller that waits for no answer: not a member of ACall

VARIABLES
  stored,  \* stored[i] is the value stored under id i, or Absent
  call,    \* the call a caller waits for, or NoCall
  answer   \* what the last call of a caller was answered with

storageVars == <<stored, call, answer>>

ACall == [op : {"create", "update", "delete", "deleteAll"},
          ids : SUBSET Ids, val : Values]

Present(i) == stored[i] # Absent

SInit ==
  /\ stored = [i \in Ids |-> Absent]
  /\ call = [c \in Callers |-> NoCall]
  /\ answer = [c \in Callers |-> "none"]

Answer(c, a) ==
  /\ call' = [call EXCEPT ![c] = NoCall]
  /\ answer' = [answer EXCEPT ![c] = a]

Invoke(c) ==
  /\ call[c] = NoCall
  /\ \E q \in ACall : call' = [call EXCEPT ![c] = q]
  /\ answer' = [answer EXCEPT ![c] = "none"]
  /\ UNCHANGED stored

(***************************************************************************)
(* Arguments that are no document are refused, and deleting nothing        *)
(* succeeds, both at once.                                                 *)
(***************************************************************************)
AnswerAtOnce(c) ==
  /\ call[c] = NoCall
  /\ \E a \in {"ok", "invalid", "error"} : answer' = [answer EXCEPT ![c] = a]
  /\ UNCHANGED <<stored, call>>

(***************************************************************************)
(* The call takes effect: a creation on an id that is free, anything else  *)
(* on entities that are all there.  An answer "error" tells the caller     *)
(* nothing.                                                                *)
(***************************************************************************)
Applies(q) == IF q.op = "create" THEN \A i \in q.ids : ~Present(i)
                                 ELSE \A i \in q.ids : Present(i)

Effect(q) ==
  [i \in Ids |-> IF i \notin q.ids THEN stored[i]
                 ELSE IF q.op \in {"delete", "deleteAll"} THEN Absent
                 ELSE q.val]

TakeEffect(c) ==
  /\ call[c] # NoCall
  /\ Applies(call[c])
  /\ stored' = Effect(call[c])
  /\ \E a \in {"ok", "error"} : Answer(c, a)

(***************************************************************************)
(* The call is refused and changes nothing.  A refusal has its reason in   *)
(* what is stored at that moment: the id to create is taken; one of those  *)
(* to delete is missing.  An update may be refused as outdated whatever is *)
(* stored (versions are not part of this specification), and as not found  *)
(* whenever its entity cannot be read.                                     *)
(***************************************************************************)
Justified(q, a) ==
  \/ a = "error"
  \/ a = "conflict" /\ q.op = "create" /\ \E i \in q.ids : Present(i)
  \/ a \in {"conflict", "notfound"} /\ q.op = "update"
  \/ a = "notfound" /\ q.op = "delete" /\ \E i \in q.ids : ~Present(i)
  \/ a \in {"notfound", "internal"} /\ q.op = "deleteAll"
                                    /\ \E i \in q.ids : ~Present(i)

Refuse(c) ==
  /\ call[c] # NoCall
  /\ \E a \in {"error", "conflict", "notfound", "internal"} :
       Justified(call[c], a) /\ Answer(c, a)
  /\ UNCHANGED stored

SNext == \E c \in Callers :
           Invoke(c) \/ AnswerAtOnce(c) \/ TakeEffect(c) \/ Refuse(c)

SSpec == SInit /\ [][SNext]_storageVars
=============================================================================
