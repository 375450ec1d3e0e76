--------------------------- MODULE MCMemoryStore ---------------------------
(***************************************************************************)
(* An instance of MemoryStore for TLC: every call on a few ids.            *)
(***************************************************************************)
EXTENDS MemoryStore

Call(op, I, v) == [op |-> op, ids |-> I, val |-> v, valid |-> TRUE]

\* The value plays no part in a deletion or a refusal.
AnyValue == CHOOSE v \in Values : TRUE

AllCalls ==
  {Call(op, {i}, v) : op \in {"create", "update"}, i \in Ids, v \in Values}
    \cup {Call(op, {i}, AnyValue) : op \in {"delete", "deleteAll"}, i \in Ids}
    \cup {[Call("update", {i}, AnyValue) EXCEPT !.valid = FALSE] : i \in Ids}
=============================================================================
