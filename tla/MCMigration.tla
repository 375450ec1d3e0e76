---------------------------- MODULE MCMigration ----------------------------
(***************************************************************************)
(* Instances of Migration for TLC: how many rows the tables have, and the  *)
(* texts of the memberships.                                               *)
(***************************************************************************)
EXTENDS Migration

CONSTANTS a, b, c

FewRows == [projectmembers |-> 1 .. 2, tenantmembers |-> 1 .. 3]

\* (p, t|n, "") and (p|t, n, "") have one text.
Texts == [m \in {a, b, c} |-> IF m = c THEN "q|t|" ELSE "p|t|n|"]

(***************************************************************************)
(* Databases on which the second table has, at first, one membership, in   *)
(* as many rows as there may be; the first one has any.                    *)
(***************************************************************************)
FewInit ==
  /\ Init
  /\ \A i \in Stored("tenantmembers") : member["tenantmembers"][i] = a

FewSpec == FewInit /\ [][Next]_vars /\ \A r \in Replicas : WF_vars(Step(r))
=============================================================================
