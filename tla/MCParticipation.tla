-------------------------- MODULE MCParticipation --------------------------
(***************************************************************************)
(* Instances of Participation for TLC: queries about one tenant, while the *)
(* services create and delete entities.                                    *)
(***************************************************************************)
EXTENDS ParticipationProperties, MCTenancy

CONSTANTS t1, n1

\* Ids are chosen by clients; whether an id is used again plays no part here.
\* An update would leave all references as they are.
Changes == {q \in AllRequests : q.method # "update" /\ q.id # NoId}

Asked == [kind : {"projects", "tenants", "members"}, tenant : {t1},
          namespace : {n1}, inherited : {TRUE}]
         \cup [kind : {"projects"}, tenant : {t1}, namespace : {n1},
               inherited : {FALSE}]

SymmetricMembers == Permutations(ProjectMembers)
=============================================================================
