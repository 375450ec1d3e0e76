------------------------------- MODULE Paging -------------------------------
(***************************************************************************)
(* Listing entities page by page: the List methods of tenants, projects    *)
(* and configs, which make a WHERE clause of their request, and Find and   *)
(* addPaging of postgres.go, which order the rows by id and cut a page out *)
(* of them with LIMIT and OFFSET.  A client asks for a page, then for the  *)
(* next page that the answer names, and so on; every page is a query of    *)
(* its own, and other requests change the table in between.                *)
(***************************************************************************)
EXTENDS Naturals, FiniteSets

CONSTANTS
  Ids,           \* entity ids: numbers, in the order of the column id
  Counts,        \* what clients ask for: a page size, Unset or NoPaging
  Unset,         \* a field of Paging that is not set
  NoPaging,      \* the request has no Paging at all
  DefaultLimit,  \* defaultPagingLimit
  Width          \* the number of values of a uint64

ASSUME IdsAreOrdered == Ids \subseteq Nat /\ IsFiniteSet(Ids)

ASSUME CountsFit ==
  /\ Width \in Nat
  /\ Counts \ {Unset, NoPaging} \subseteq 0 .. Width - 1
  /\ Unset \notin Nat /\ NoPaging \notin Nat /\ Unset # NoPaging
  /\ DefaultLimit \in 1 .. Width - 1

VARIABLES
  result,   \* the ids of the rows that satisfy the WHERE clause
  phase,    \* of the client: "idle", "listing", "done" or "failed"
  count,    \* Paging.Count of its requests, or that they have no Paging
  page,     \* Paging.Page of its next request
  listed,   \* listed[i]: how often entity i was in an answer of this listing
  steady,   \* the ids that satisfied the clause all the time (auxiliary)
  entered,  \* the ids that came to satisfy it since (auxiliary)
  left      \* the ids that ceased to satisfy it since (auxiliary)

vars == <<result, phase, count, page, listed, steady, entered, left>>

TypeOK ==
  /\ result \subseteq Ids
  /\ phase \in {"idle", "listing", "done", "failed"}
  /\ count \in Counts
  /\ page \in 0 .. Width - 1 \cup {Unset}
  /\ listed \in [Ids -> Nat]
  /\ steady \subseteq result
  /\ entered \subseteq Ids /\ left \subseteq Ids

Nowhere == [i \in Ids |-> 0]

Init ==
  /\ result \in SUBSET Ids
  /\ phase = "idle"
  /\ count \in Counts
  /\ page = Unset
  /\ listed = Nowhere
  /\ steady = {} /\ entered = {} /\ left = {}

-----------------------------------------------------------------------------
(***************************************************************************)
(* addPaging.  The offset and the number of the next page are uint64.      *)
(***************************************************************************)
\* (Without a Paging there is no LIMIT.)
Limit == IF count \in Nat THEN count ELSE DefaultLimit

\* Mutation: pages are counted from one.
OffsetFromOne ==
  IF page = Unset \/ page = 0 THEN 0 ELSE ((page - 1) * Limit) % Width

\* Mutation: the offset is the first row after the first one of the page.
OffsetTooFar == IF page = Unset THEN 0 ELSE (page * (Limit + 1)) % Width

Offset == IF page = Unset THEN 0 ELSE (page * Limit) % Width

\* Mutation: the next page is the second one, whichever was asked for.
NextPageStuck == 1

NextPage == IF page = Unset THEN 1 ELSE (page + 1) % Width

\* The place of a row of the result, from 0.
Rank(i) == Cardinality({j \in result : j < i})

\* LIMIT and OFFSET of the rows ordered by id, if there is a Paging.
Rows == {i \in result : \/ count = NoPaging
                        \/ Rank(i) >= Offset /\ Rank(i) < Offset + Limit}

\* LIMIT and OFFSET are bigint in Postgres: the upper half of uint64 is an error.
OutOfRange ==
  count # NoPaging /\ (Limit >= Width \div 2 \/ Offset >= Width \div 2)

\* Mutation: every answer to a request with a count names a next page.
HasNextAlways == count \in Nat

\* There is a next page only after a page as long as the client asked for.
HasNext == count \in Nat /\ Cardinality(Rows) = count

-----------------------------------------------------------------------------
\* A client begins to list.
Begin ==
  /\ phase # "listing"
  /\ phase' = "listing"
  /\ count' \in Counts
  /\ page' = Unset
  /\ listed' = Nowhere
  /\ steady' = result /\ entered' = {} /\ left' = {}
  /\ UNCHANGED result

\* It calls List, which answers with a page and the number of the next one.
List ==
  /\ phase = "listing" /\ ~OutOfRange
  /\ listed' = [i \in Ids |-> IF i \in Rows THEN listed[i] + 1 ELSE listed[i]]
  /\ \/ /\ HasNext
        /\ page' = NextPage
        /\ UNCHANGED phase
     \/ /\ ~HasNext
        /\ phase' = "done"
        /\ page' = Unset
  /\ UNCHANGED <<result, count, steady, entered, left>>

ListFails ==
  /\ phase = "listing" /\ OutOfRange
  /\ phase' = "failed"
  /\ page' = Unset
  /\ UNCHANGED <<result, count, listed, steady, entered, left>>

\* An entity is created that satisfies the clause, or updated so that it does.
Enter(i) ==
  /\ i \notin result
  /\ result' = result \cup {i}
  /\ entered' = entered \cup {i}
  /\ UNCHANGED <<phase, count, page, listed, steady, left>>

\* An entity is deleted, or updated so that it does not satisfy it any more.
Leave(i) ==
  /\ i \in result
  /\ result' = result \ {i}
  /\ steady' = steady \ {i}
  /\ left' = left \cup {i}
  /\ UNCHANGED <<phase, count, page, listed, entered>>

Next == \/ Begin \/ List \/ ListFails
        \/ \E i \in Ids : Enter(i) \/ Leave(i)

\* A client that has begun to list goes on.
Spec == Init /\ [][Next]_vars /\ WF_vars(List \/ ListFails)

-----------------------------------------------------------------------------
(***************************************************************************)
(* A listing that is complete has every entity that was there all the      *)
(* time, unless one before it (in the order of ids) was taken away         *)
(* meanwhile and moved it to a page the client had already seen.  Nothing  *)
(* that is created or updated meanwhile makes a listing skip an entity     *)
(* ("OrderBy("id")" and OFFSET in Find).  A client that sends a paging     *)
(* without a count gets the first DefaultLimit entities and no next page;  *)
(* one that sends no paging gets all entities at once.                     *)
(***************************************************************************)
NothingSkipped ==
  phase = "done" /\ count # Unset =>
    \A i \in steady : listed[i] = 0 => \E j \in left : j < i

(***************************************************************************)
(* No entity is listed twice, unless one before it was put in meanwhile.   *)
(* Entities with generated ids never are: ids grow with the time (UUIDv7). *)
(***************************************************************************)
NothingTwice ==
  \A i \in Ids : listed[i] > 1 => \E j \in entered : j < i

(***************************************************************************)
(* The inductive invariant.  The number of a page never wraps around: Find *)
(* refuses an offset before that.  A client that lists has passed the rows *)
(* before its offset: what it was given is behind it, what it was not      *)
(* given is ahead of it, unless rows moved.                                *)
(***************************************************************************)
NoWrap == page # Unset => page * Limit < Width

\* Without a Paging there is one page.
OnePage == count = NoPaging => page = Unset

GivenIsBehind ==
  \A i \in Ids : listed[i] > 0 => Rank(i) < Offset \/ \E j \in entered : j < i

MissingIsAhead ==
  \A i \in steady : listed[i] = 0 => Rank(i) >= Offset \/ \E j \in left : j < i

IInv == /\ TypeOK /\ NoWrap /\ OnePage /\ NothingSkipped /\ NothingTwice
        /\ phase = "listing" => GivenIsBehind /\ MissingIsAhead

(***************************************************************************)
(* A listing is completed, however the table changes while it runs: there  *)
(* is a page that is not full, and Find says so before the numbers of the  *)
(* pages get to where Postgres refuses them.  (A client that asks for      *)
(* pages of no entities is always told of a next one.)                     *)
(***************************************************************************)
ListingEnds ==
  phase = "listing" /\ count # 0 /\ Limit < Width \div 2 ~> phase = "done"
=============================================================================
