---------------------------- MODULE MCDatastore ----------------------------
(***************************************************************************)
(* Instances of Datastore for TLC: small sets of calls.                    *)
(***************************************************************************)
EXTENDS DatastoreProperties, TLC

CONSTANTS v1

Call(op, ids, version) ==
  [op |-> op, ids |-> ids, version |-> version, val |-> v1, valid |-> TRUE]

\* One entity: it is created, updated from two versions, and deleted.
LifeOfOne ==
  {Call("create", {i}, 0) : i \in Ids} \cup
  {Call("update", {i}, n) : i \in Ids, n \in {0, 1}} \cup
  {Call("delete", {i}, 0) : i \in Ids}

Deletions == {Call("deleteAll", I, 0) : I \in SUBSET Ids}

\* Calls the argument checks refuse, and creations that name no id.
Odd == {[Call("create", {i}, 0) EXCEPT !.valid = FALSE] : i \in Ids} \cup
       {Call("create", {}, 0), Call("deleteAll", {}, 0)}

AllCalls == LifeOfOne \cup Deletions \cup Odd

Symmetric == Permutations(Handlers)
=============================================================================
