-------------------------- MODULE Migration_proofs --------------------------
(***************************************************************************)
(* Theorems about Migration, for any number of replicas, tenants and rows. *)
(***************************************************************************)
EXTENDS Migration, FiniteSetTheorems, WellFoundedInduction, TLAPS

LEMMA TwoTables ==
  /\ DOMAIN Tables = 1 .. 2 /\ Len(Tables) = 2
  /\ TableNames = {"projectmembers", "tenantmembers"}
  /\ \A n \in DOMAIN Tables : Tables[n] \in TableNames
  /\ \A k \in TableNames : \E n \in DOMAIN Tables : Tables[n] = k
BY DEF Tables, TableNames

LEMMA ThreeMigrations ==
  Cardinality(Migrations) = 3 /\ Migrations = 1 .. 3 /\ Unique = 3
<1>1. Migrations = 1 .. 3
  BY DEF Migrations, Sample, Quota, Unique
<1>2. Cardinality(1 .. 3) = 3
  <2>1. 1 \in Int /\ 3 \in Int
    OBVIOUS
  <2>2. Cardinality(1 .. 3) = IF 1 > 3 THEN 0 ELSE 3 - 1 + 1
    BY <2>1, FS_Interval, Zenon
  <2> QED
    BY <2>2
<1> QED
  BY <1>1, <1>2 DEF Unique

LEMMA LeastOf ==
  ASSUME NEW S, S \subseteq Nat, S # {}
  PROVE  \E i \in S : \A j \in S : i <= j
<1>1. PICK i \in S : \A j \in S : ~(<<j, i>> \in OpToRel(<, Nat))
  BY NatLessThanWellFounded, WFMin
<1>2. \A j \in S : ~(j < i)
  BY <1>1 DEF OpToRel
<1> QED
  BY <1>2

LEMMA FirstIsIn ==
  ASSUME NEW S, S \subseteq Nat, S # {}
  PROVE  First(S) \in S
BY LeastOf DEF First

\* Where the types of a replica's place are needed.
LEMMA PlaceOf ==
  ASSUME TypeOK, NEW r \in Replicas
  PROVE  /\ at[r] \in Place /\ at[r].todo \subseteq Nat
         /\ at[r].migration \in 1 .. 3 /\ at[r].nth \in 1 .. 2
         /\ TableOf(r) \in TableNames
         /\ applied \in 0 .. 3
<1>1. at[r] \in Place
  BY DEF TypeOK
<1> QED
  BY <1>1, TwoTables, ThreeMigrations DEF TypeOK, Place, TableOf

LEMMA DownIsPlace ==
  /\ Down \in Place /\ Down.phase = "down" /\ Down.migration = 1
  /\ Down.nth = 1 /\ Down.todo = {}
BY TwoTables DEF Down, Place, Migrations, Sample

LEMMA SameTenants ==
  ASSUME UNCHANGED tenant
  PROVE  StoredTenants' = StoredTenants
BY DEF StoredTenants

LEMMA SameRows ==
  ASSUME UNCHANGED member
  PROVE  /\ Memberships' = Memberships
         /\ \A k : Stored(k)' = Stored(k) /\ Duplicates(k)' = Duplicates(k)
         /\ \A k : Repeated(k)' = Repeated(k)
         /\ \A k, m, i : FirstRow(k, m, i)' = FirstRow(k, m, i)
BY DEF Memberships, Stored, Duplicates, Repeated, Text, FirstRow

LEMMA FirstRowIsNoDuplicate ==
  ASSUME TypeOK, NEW k \in TableNames, NEW m, NEW i, FirstRow(k, m, i)
  PROVE  i \notin Duplicates(k)
<1>1. Stored(k) \subseteq Nat
  BY IdsAreOrdered DEF Stored
<1> QED
  BY <1>1 DEF FirstRow, Duplicates

-----------------------------------------------------------------------------
LEMMA InitMigrationInv == Init => MigrationInv
<1> SUFFICES ASSUME Init PROVE MigrationInv
  OBVIOUS
<1>1. /\ DOMAIN member = TableNames
      /\ \A k \in TableNames : member[k] \in [RowIds[k] -> Members \cup {Absent}]
  <2>1. PICK all \in [TableNames ->
                        UNION {[RowIds[k] -> Members \cup {Absent}] : k \in TableNames}] :
          (\A k \in TableNames : DOMAIN all[k] = RowIds[k]) /\ member = all
    BY DEF Init
  <2>2. ASSUME NEW k \in TableNames
        PROVE  all[k] \in [RowIds[k] -> Members \cup {Absent}]
    <3>1. PICK c \in TableNames : all[k] \in [RowIds[c] -> Members \cup {Absent}]
      OBVIOUS
    <3>2. RowIds[c] = RowIds[k]
      BY <2>1, <3>1
    <3> QED
      BY <3>1, <3>2
  <2> QED
    BY <2>1, <2>2
<1>2. had \subseteq TableNames \X Members
  BY <1>1 DEF Init, Memberships, Stored
<1>8. tenant \in [Tenants -> Nat \cup {Absent}]
  BY BoundsAreNumbers DEF Init
<1>3. TypeOK
  BY <1>1, <1>2, <1>8, DownIsPlace, ThreeMigrations, BoundsAreNumbers DEF Init, TypeOK
<1>4. ASSUME NEW r \in Replicas
      PROVE  at[r] = Down /\ NumbersFit(r) /\ UpdatesFit(r)
  BY DownIsPlace DEF Init, NumbersFit, UpdatesFit, Done, In, Quota
<1>5. IndexesFit
  BY <1>4, DownIsPlace, ThreeMigrations
  DEF Init, IndexesFit, IndexedBy, Done, In, Unique
<1>6. FirstRowsStay
  <2> SUFFICES ASSUME NEW k \in TableNames, NEW m \in Members,
                      <<k, m>> \in had
               PROVE  \E i \in RowIds[k] :
                        FirstRow(k, m, i) /\ \A r \in Replicas : ~Doomed(r, k, i)
    BY DEF FirstRowsStay
  <2> DEFINE S == {i \in Stored(k) : Text(k, i) = Key[m]}
  <2>1. S # {} /\ S \subseteq Nat /\ S \subseteq RowIds[k]
    BY IdsAreOrdered DEF Init, Memberships, Stored, Text
  <2>2. PICK i \in S : \A j \in S : i <= j
    BY <2>1, LeastOf
  <2>3. \A r \in Replicas : ~Doomed(r, k, i)
    BY <1>4, DownIsPlace DEF Doomed, In
  <2> QED
    BY <2>1, <2>2, <2>3 DEF FirstRow
<1>7. Memberships \subseteq had /\ QuotaIsMigrated
  BY DEF Init, QuotaIsMigrated, Quota
<1> QED
  BY <1>3, <1>4, <1>5, <1>6, <1>7 DEF MigrationInv

(***************************************************************************)
(* A replica moves on, and changes nothing but its place and locks that    *)
(* are free.                                                               *)
(***************************************************************************)
LEMMA LockFits ==
  ASSUME MigrationInv, NEW r \in Replicas, NEW place \in Place,
         at' = [at EXCEPT ![r] = place],
         UNCHANGED <<data, schema, changes, failures, aux>>,
         lock' \in [TableNames -> Replicas \cup {Nobody}],
         entry' \in Replicas \cup {Nobody},
         \A k \in TableNames : lock'[k] = lock[k] \/ lock[k] = Nobody,
         \A k \in TableNames : lock'[k] = lock[k] \/ Repeated(k) = {},
         entry' = entry \/ entry = Nobody,
         NumbersFit(r)', UpdatesFit(r)',
         \A n \in DOMAIN Tables :
           IndexedBy(r, n)' => Tables[n] \in index \/ lock'[Tables[n]] = r,
         \A k \in TableNames : \A i :
           Doomed(r, k, i)' => Doomed(r, k, i) \/ i \in Duplicates(k)
  PROVE  MigrationInv'
<1>1. /\ UNCHANGED <<tenant, newFormat, late, member, applied, index,
                     changes, failures, had, dropped>>
      /\ at \in [Replicas -> Place]
      /\ \A s \in Replicas \ {r} : at'[s] = at[s]
  BY DEF MigrationInv, TypeOK, data, tenantData, schema, aux
<1>2. TypeOK'
  BY <1>1 DEF MigrationInv, TypeOK
<1>3. Memberships' \subseteq had' /\ QuotaIsMigrated'
  BY <1>1, SameRows, SameTenants DEF MigrationInv, QuotaIsMigrated
<1>4. \A s \in Replicas : NumbersFit(s)' /\ UpdatesFit(s)'
  BY <1>1, MarksAreNone, SameTenants DEF MigrationInv, NumbersFit, UpdatesFit, Done, In
<1>5. IndexesFit'
  <2>1. ASSUME NEW s \in Replicas \ {r}, NEW n \in DOMAIN Tables, IndexedBy(s, n)'
        PROVE  Tables[n] \in index \/ lock'[Tables[n]] = s
    <3>1. Tables[n] \in index \/ lock[Tables[n]] = s
      BY <1>1, <2>1 DEF MigrationInv, IndexesFit, IndexedBy, Done, In
    <3> QED
      BY <3>1, MarksAreNone, TwoTables
  <2>2. \A k \in TableNames : k \in index \/ lock'[k] # Nobody => Repeated(k)' = {}
    BY <1>1, SameRows DEF MigrationInv, IndexesFit
  <2> QED
    BY <1>1, <2>1, <2>2 DEF MigrationInv, IndexesFit
<1>6. FirstRowsStay'
  <2> SUFFICES ASSUME NEW k \in TableNames, NEW m \in Members,
                      <<k, m>> \in had, \A o \in Same(m) : <<k, o>> \notin dropped
               PROVE  \E i \in RowIds[k] :
                        FirstRow(k, m, i)' /\ \A s \in Replicas : ~Doomed(s, k, i)'
    BY <1>1 DEF FirstRowsStay, Same
  <2>1. PICK i \in RowIds[k] :
          FirstRow(k, m, i) /\ \A s \in Replicas : ~Doomed(s, k, i)
    BY DEF MigrationInv, FirstRowsStay
  <2>2. i \notin Duplicates(k)
    BY <2>1, FirstRowIsNoDuplicate DEF MigrationInv
  <2>3. \A s \in Replicas \ {r} : Doomed(s, k, i)' = Doomed(s, k, i)
    BY <1>1 DEF Doomed, In, TableOf
  <2> QED
    BY <1>1, <2>1, <2>2, <2>3, SameRows
<1> QED
  BY <1>2, <1>3, <1>4, <1>5, <1>6 DEF MigrationInv

LEMMA MoveFits ==
  ASSUME MigrationInv, NEW r \in Replicas, NEW place \in Place,
         at' = [at EXCEPT ![r] = place],
         UNCHANGED <<data, schema, locks, changes, failures, aux>>,
         NumbersFit(r)', UpdatesFit(r)',
         \A n \in DOMAIN Tables :
           IndexedBy(r, n)' => Tables[n] \in index \/ lock[Tables[n]] = r,
         \A k \in TableNames : \A i :
           Doomed(r, k, i)' => Doomed(r, k, i) \/ i \in Duplicates(k)
  PROVE  MigrationInv'
<1>1. lock' = lock /\ entry' = entry
  BY DEF locks
<1>2. lock' \in [TableNames -> Replicas \cup {Nobody}] /\ entry' \in Replicas \cup {Nobody}
  BY <1>1 DEF MigrationInv, TypeOK
<1> QED
  BY <1>1, <1>2, LockFits

\* The same for a place that is not about tables, tenants or locks.
LEMMA StartAtFits ==
  ASSUME MigrationInv, NEW r \in Replicas, StartAt(r, applied + 1),
         UNCHANGED <<data, schema, locks, changes, failures, aux>>
  PROVE  MigrationInv'
<1>1. PICK place \in Place :
        /\ at' = [at EXCEPT ![r] = place]
        /\ \/ place.phase = "func" /\ place.migration = applied + 1
           \/ place.phase = "serving" /\ applied = 3 /\ place.migration = 1
  <2>1. applied \in 0 .. 3
    BY PlaceOf DEF MigrationInv
  <2>2. CASE applied + 1 \in Migrations
    <3> DEFINE place == [Down EXCEPT !.phase = "func", !.migration = applied + 1]
    <3>1. place \in Place /\ place.phase = "func" /\ place.migration = applied + 1
      BY <2>2, DownIsPlace DEF Place
    <3> QED
      BY <2>2, <3>1 DEF StartAt
  <2>3. CASE applied + 1 \notin Migrations
    <3> DEFINE place == [Down EXCEPT !.phase = "serving"]
    <3>1. place \in Place /\ place.phase = "serving" /\ place.migration = 1
      BY DownIsPlace DEF Place
    <3>2. applied = 3
      BY <2>1, <2>3, ThreeMigrations
    <3> QED
      BY <2>3, <3>1, <3>2 DEF StartAt
  <2> QED
    BY <2>2, <2>3
<1>2. at'[r] = place /\ applied' = applied /\ applied \in 0 .. 3
  BY <1>1, PlaceOf DEF MigrationInv, TypeOK, schema
<1>3. NumbersFit(r)' /\ UpdatesFit(r)'
  BY <1>1, <1>2, ThreeMigrations, SameTenants DEF NumbersFit, UpdatesFit, Done, In
<1>4. \A n : ~IndexedBy(r, n)'
  BY <1>1, <1>2 DEF IndexedBy, Done, In
<1>5. \A k, i : ~Doomed(r, k, i)'
  BY <1>1, <1>2 DEF Doomed, In
<1> QED
  BY <1>1, <1>3, <1>4, <1>5, MoveFits

(***************************************************************************)
(* The steps of a replica that change nothing but its place.               *)
(***************************************************************************)
\* r is in phase "phase" next, the rest of its place is as it was.
LEMMA GoFits ==
  ASSUME MigrationInv, NEW r \in Replicas, NEW phase, Go(r, phase),
         UNCHANGED <<data, schema, locks, changes, failures, aux>>,
         phase = "record",
         at[r].migration = Unique => \A n \in DOMAIN Tables :
           Tables[n] \in index \/ lock[Tables[n]] = r,
         at[r].migration = Quota => StoredTenants \subseteq newFormat \cup late
  PROVE  MigrationInv'
<1> DEFINE place == [at[r] EXCEPT !.phase = phase]
<1>1. at[r] \in Place /\ at \in [Replicas -> Place]
  BY DEF MigrationInv, TypeOK
<1>2. /\ place \in Place /\ at' = [at EXCEPT ![r] = place] /\ at'[r] = place
      /\ place.phase = "record" /\ place.migration = at[r].migration
  BY <1>1 DEF Go, Place
<1>3. UNCHANGED <<tenant, newFormat, late, applied, entry>>
  BY DEF data, tenantData, schema, locks
<1>4. NumbersFit(r)' /\ UpdatesFit(r)'
  BY <1>2, <1>3, SameTenants DEF MigrationInv, NumbersFit, UpdatesFit, Done, In
<1>5. \A n \in DOMAIN Tables :
        IndexedBy(r, n)' => Tables[n] \in index \/ lock[Tables[n]] = r
  BY <1>2 DEF IndexedBy
<1>6. \A k, i : ~Doomed(r, k, i)'
  BY <1>2 DEF Doomed, In
<1> HIDE DEF place
<1> QED
  BY <1>2, <1>4, <1>5, <1>6, MoveFits

LEMMA RunSampleFits ==
  ASSUME MigrationInv, NEW r \in Replicas, RunSample(r)
  PROVE  MigrationInv'
BY GoFits DEF RunSample, Sample, Quota, Unique

LEMMA UpdatesDoneFits ==
  ASSUME MigrationInv, NEW r \in Replicas, UpdatesDone(r)
  PROVE  MigrationInv'
<1>1. at[r].migration = Quota /\ StoredTenants \subseteq newFormat \cup late
  BY DEF UpdatesDone, MigrationInv, NumbersFit, UpdatesFit
<1> QED
  BY <1>1, GoFits DEF UpdatesDone, Quota, Unique

LEMMA FindTenantsFits ==
  ASSUME MigrationInv, NEW r \in Replicas, FindTenants(r)
  PROVE  MigrationInv'
<1> DEFINE read == [t \in Tenants |-> IF t \in StoredTenants THEN tenant[t] ELSE 0]
           place == [at[r] EXCEPT !.phase = "update", !.todo = StoredTenants,
                                  !.read = read]
<1>1. at[r] \in Place /\ at \in [Replicas -> Place] /\ StoredTenants \subseteq Nat
  BY IdsAreOrdered DEF MigrationInv, TypeOK, StoredTenants
<1>7. read \in [Tenants -> Nat]
  BY DEF MigrationInv, TypeOK, StoredTenants
<1>8. at' = [at EXCEPT ![r] = place]
  BY DEF FindTenants
<1> HIDE DEF read
<1>2. /\ place \in Place /\ at' = [at EXCEPT ![r] = place] /\ at'[r] = place
      /\ place.phase = "update" /\ place.migration = at[r].migration
      /\ place.todo = StoredTenants /\ at[r].migration = Quota
  BY <1>1, <1>7, <1>8 DEF FindTenants, Place
<1>3. UNCHANGED <<tenant, newFormat, late, applied, entry>>
  BY DEF FindTenants, data, tenantData, schema, locks
<1>4. NumbersFit(r)' /\ UpdatesFit(r)'
  BY <1>2, <1>3, SameTenants DEF MigrationInv, NumbersFit, UpdatesFit, Done, In
<1>5. \A n : ~IndexedBy(r, n)'
  BY <1>2 DEF IndexedBy, Quota, Unique
<1>6. \A k, i : ~Doomed(r, k, i)'
  BY <1>2 DEF Doomed, In
<1> HIDE DEF place
<1> QED
  BY <1>2, <1>4, <1>5, <1>6, MoveFits DEF FindTenants

LEMMA FindMembersFits ==
  ASSUME MigrationInv, NEW r \in Replicas, FindMembers(r)
  PROVE  MigrationInv'
<1> DEFINE place == [at[r] EXCEPT !.phase = "dedupe", !.todo = Duplicates(TableOf(r))]
<1>1. at[r] \in Place /\ at \in [Replicas -> Place] /\ TableOf(r) \in TableNames
  BY PlaceOf DEF MigrationInv, TypeOK
<1>2. Duplicates(TableOf(r)) \subseteq Nat
  BY <1>1, IdsAreOrdered DEF Duplicates, Stored
<1>3. /\ place \in Place /\ at' = [at EXCEPT ![r] = place] /\ at'[r] = place
      /\ place.phase = "dedupe" /\ place.migration = at[r].migration
      /\ place.nth = at[r].nth /\ place.todo = Duplicates(TableOf(r))
      /\ at[r].migration = Unique
  BY <1>1, <1>2 DEF FindMembers, Place
<1>4. UNCHANGED <<tenant, newFormat, late, applied, entry>>
  BY DEF FindMembers, data, tenantData, schema, locks
<1>5. NumbersFit(r)' /\ UpdatesFit(r)'
  BY <1>3, <1>4, SameTenants DEF MigrationInv, NumbersFit, UpdatesFit, Done, In, Quota, Unique
<1>6. \A n : ~IndexedBy(r, n)'
  BY <1>3 DEF IndexedBy, Done, In
<1>7. \A k, i : Doomed(r, k, i)' => i \in Duplicates(k)
  BY <1>3 DEF Doomed, In, TableOf
<1> HIDE DEF place
<1> QED
  BY <1>3, <1>5, <1>6, <1>7, MoveFits DEF FindMembers

\* Where a replica is that goes on to the next table.
Moved(p, phase, n) == [p EXCEPT !.phase = phase, !.nth = n]

LEMMA MovedIs ==
  ASSUME NEW p \in Place, NEW phase \in {"func", "index", "record"}, NEW n \in 1 .. 2
  PROVE  /\ Moved(p, phase, n) \in Place /\ Moved(p, phase, n).phase = phase
         /\ Moved(p, phase, n).nth = n /\ Moved(p, phase, n).migration = p.migration
<1>1. DOMAIN Tables = 1 .. 2
  BY TwoTables
<1> QED
  BY <1>1 DEF Place, Moved

LEMMA NextTablePlace ==
  ASSUME TypeOK, NEW r \in Replicas,
         NEW phase \in {"func", "index"}, NEW after \in {"index", "record"},
         NextTable(r, phase, after)
  PROVE  \E place \in Place :
           /\ at' = [at EXCEPT ![r] = place] /\ place.migration = at[r].migration
           /\ \/ at[r].nth = 1 /\ place.phase = phase /\ place.nth = 2
              \/ at[r].nth = 2 /\ place.phase = after /\ place.nth = 1
<1> DEFINE place == IF at[r].nth < Len(Tables) THEN Moved(at[r], phase, at[r].nth + 1)
                                               ELSE Moved(at[r], after, 1)
<1>1. at[r] \in Place /\ at[r].nth \in 1 .. 2
  BY PlaceOf DEF TypeOK
<1>2. at' = [at EXCEPT ![r] = place]
  BY <1>1, Zenon DEF NextTable, Moved, TypeOK
<1> HIDE DEF place
<1>3. CASE at[r].nth = 1
  <2>1. place = Moved(at[r], phase, 2)
    BY <1>3, TwoTables DEF place
  <2>2. /\ Moved(at[r], phase, 2) \in Place /\ Moved(at[r], phase, 2).phase = phase
        /\ Moved(at[r], phase, 2).nth = 2
        /\ Moved(at[r], phase, 2).migration = at[r].migration
    BY <1>1, MovedIs
  <2> QED
    BY <1>2, <1>3, <2>1, <2>2
<1>4. CASE at[r].nth = 2
  <2>1. place = Moved(at[r], after, 1)
    BY <1>4, TwoTables DEF place
  <2>2. /\ Moved(at[r], after, 1) \in Place /\ Moved(at[r], after, 1).phase = after
        /\ Moved(at[r], after, 1).nth = 1
        /\ Moved(at[r], after, 1).migration = at[r].migration
    BY <1>1, MovedIs
  <2> QED
    BY <1>2, <1>4, <2>1, <2>2
<1> QED
  BY <1>1, <1>3, <1>4

\* On to the next table, where r has neither rows to delete nor an index yet.
LEMMA TableDedupedFits ==
  ASSUME MigrationInv, NEW r \in Replicas, TableDeduped(r)
  PROVE  MigrationInv'
<1>1. at[r] \in Place /\ at \in [Replicas -> Place] /\ at[r].nth \in 1 .. 2
  BY PlaceOf DEF MigrationInv, TypeOK
<1>2. PICK place \in Place :
        /\ at' = [at EXCEPT ![r] = place]
        /\ place.phase \in {"func", "index"} /\ place.migration = at[r].migration
        /\ place.phase = "index" => place.nth = 1
  BY NextTablePlace DEF MigrationInv, TableDeduped
<1>3. at'[r] = place /\ at[r].migration = Unique
  BY <1>1, <1>2 DEF MigrationInv, NumbersFit, TableDeduped, In
<1>4. UNCHANGED <<tenant, newFormat, late, applied, entry>>
  BY DEF TableDeduped, data, tenantData, schema, locks
<1>5. NumbersFit(r)' /\ UpdatesFit(r)'
  BY <1>2, <1>3, <1>4, SameTenants DEF MigrationInv, NumbersFit, UpdatesFit, Done, In
<1>6. \A n \in DOMAIN Tables : ~IndexedBy(r, n)'
  BY <1>2, <1>3, TwoTables DEF IndexedBy, Done, In
<1>7. \A k, i : ~Doomed(r, k, i)'
  BY <1>2, <1>3 DEF Doomed, In
<1> QED
  BY <1>2, <1>5, <1>6, <1>7, MoveFits DEF TableDeduped

(***************************************************************************)
(* An error releases the locks of a replica, and it promises nothing more. *)
(***************************************************************************)
LEMMA ExitFits ==
  ASSUME MigrationInv, NEW r \in Replicas, Exit(r),
         UNCHANGED <<data, schema, changes, aux>>, failures' \in 0 .. MaxFailures
  PROVE  MigrationInv'
<1>1. /\ UNCHANGED <<tenant, newFormat, late, member, applied, index, changes, had, dropped>>
      /\ at \in [Replicas -> Place] /\ at'[r] = Down
      /\ \A s \in Replicas \ {r} : at'[s] = at[s]
  BY DEF Exit, MigrationInv, TypeOK, data, tenantData, schema, aux
<1>2. /\ \A k \in TableNames : lock'[k] = IF lock[k] = r THEN Nobody ELSE lock[k]
      /\ entry' = IF entry = r THEN Nobody ELSE entry
  BY DEF Exit
<1>3. TypeOK'
  <2>1. at' \in [Replicas -> Place]
    BY <1>1, DownIsPlace DEF Exit
  <2>2. lock' \in [TableNames -> Replicas \cup {Nobody}] /\ entry' \in Replicas \cup {Nobody}
    BY DEF Exit, MigrationInv, TypeOK
  <2> QED
    BY <1>1, <2>1, <2>2 DEF MigrationInv, TypeOK
<1>4. Memberships' \subseteq had' /\ QuotaIsMigrated'
  BY <1>1, SameRows, SameTenants DEF MigrationInv, QuotaIsMigrated
<1>5. \A s \in Replicas : NumbersFit(s)' /\ UpdatesFit(s)'
  <2>1. NumbersFit(r)' /\ UpdatesFit(r)'
    BY <1>1, DownIsPlace, PlaceOf, SameTenants
    DEF MigrationInv, NumbersFit, UpdatesFit, Done, In, Quota
  <2>2. \A s \in Replicas \ {r} : NumbersFit(s)' /\ UpdatesFit(s)'
    BY <1>1, <1>2, SameTenants DEF MigrationInv, NumbersFit, UpdatesFit, Done, In
  <2> QED
    BY <2>1, <2>2
<1>6. IndexesFit'
  <2>1. ASSUME NEW s \in Replicas, NEW n \in DOMAIN Tables, IndexedBy(s, n)'
        PROVE  Tables[n] \in index \/ lock'[Tables[n]] = s
    <3>1. s # r
      BY <1>1, <2>1, DownIsPlace DEF IndexedBy, Done, In
    <3>2. Tables[n] \in index \/ lock[Tables[n]] = s
      BY <1>1, <2>1, <3>1 DEF MigrationInv, IndexesFit, IndexedBy, Done, In
    <3> QED
      BY <1>2, <3>1, <3>2, TwoTables
  <2>2. \A k \in TableNames : k \in index \/ lock'[k] # Nobody => Repeated(k)' = {}
    BY <1>1, <1>2, SameRows DEF MigrationInv, IndexesFit
  <2> QED
    BY <1>1, <2>1, <2>2 DEF MigrationInv, IndexesFit
<1>7. FirstRowsStay'
  <2>1. \A k, i : \A s \in Replicas : Doomed(s, k, i)' => Doomed(s, k, i)
    BY <1>1, DownIsPlace DEF Doomed, In, TableOf
  <2> QED
    BY <1>1, <2>1, SameRows DEF MigrationInv, FirstRowsStay
<1> QED
  BY <1>3, <1>4, <1>5, <1>6, <1>7 DEF MigrationInv

LEMMA FailFits ==
  ASSUME MigrationInv, NEW r \in Replicas, Fail(r)
  PROVE  MigrationInv'
<1>1. failures' \in 0 .. MaxFailures
  BY BoundsAreNumbers DEF Fail, Fails, MigrationInv, TypeOK
<1> QED
  BY <1>1, ExitFits DEF Fail

\* A replica that ends because a call is refused.
LEMMA RefusedFits ==
  ASSUME MigrationInv, NEW r \in Replicas, Exit(r),
         UNCHANGED <<data, schema, changes, failures, aux>>
  PROVE  MigrationInv'
<1>1. failures' \in 0 .. MaxFailures
  BY DEF MigrationInv, TypeOK
<1> QED
  BY <1>1, ExitFits

(***************************************************************************)
(* Steps that write tenants: memberships, indexes and locks stay.          *)
(***************************************************************************)
LEMMA TenantsWrittenFit ==
  ASSUME MigrationInv, at' \in [Replicas -> Place],
         \A s \in Replicas :
           /\ at'[s].phase = at[s].phase /\ at'[s].migration = at[s].migration
           /\ at'[s].nth = at[s].nth
           /\ at'[s].todo = at[s].todo \/ at[s].migration = Quota,
         UNCHANGED <<member, schema, locks, failures, aux>>,
         changes' \in 0 .. MaxChanges,
         tenant' \in [Tenants -> Nat \cup {Absent}],
         newFormat' \subseteq Tenants, late' \subseteq Tenants,
         QuotaIsMigrated', \A s \in Replicas : UpdatesFit(s)'
  PROVE  MigrationInv'
<1>1. UNCHANGED <<member, applied, index, lock, entry, failures, had, dropped>>
  BY DEF schema, locks, aux
<1>2. TypeOK'
  BY <1>1 DEF MigrationInv, TypeOK
<1>3. Memberships' \subseteq had'
  BY <1>1, SameRows DEF MigrationInv
<1>4. \A s \in Replicas : NumbersFit(s)'
  BY <1>1 DEF MigrationInv, NumbersFit, In
<1>5. IndexesFit'
  <2>1. \A s \in Replicas : \A n : IndexedBy(s, n)' = IndexedBy(s, n)
    BY DEF IndexedBy, Done, In
  <2> QED
    BY <1>1, <2>1, SameRows DEF MigrationInv, IndexesFit
<1>6. FirstRowsStay'
  <2>1. \A k, i : \A s \in Replicas : Doomed(s, k, i)' => Doomed(s, k, i)
    BY DEF MigrationInv, NumbersFit, Doomed, In, TableOf, Quota, Unique
  <2> QED
    BY <1>1, <2>1, SameRows DEF MigrationInv, FirstRowsStay
<1> QED
  BY <1>2, <1>3, <1>4, <1>5, <1>6 DEF MigrationInv

LEMMA TenantUpdated ==
  ASSUME MigrationInv, NEW r \in Replicas, NEW t \in at[r].todo,
         In(r, "update"), ~Refused(r, t),
         tenant' = [tenant EXCEPT ![t] = at[r].read[t] + 1],
         WrittenNew(t), UpdateDone(r, t),
         UNCHANGED <<member, schema, locks, changes, failures, aux>>
  PROVE  MigrationInv'
<1>1. /\ t \in Tenants /\ tenant[t] # Absent /\ at[r] \in Place
      /\ tenant \in [Tenants -> Nat \cup {Absent}] /\ at[r].read[t] \in Nat
  BY DEF Refused, StoredTenants, MigrationInv, TypeOK, Place
<1>2. tenant' \in [Tenants -> Nat \cup {Absent}] /\ StoredTenants' = StoredTenants
  BY <1>1, MarksAreNone DEF StoredTenants
<1>3. /\ at' \in [Replicas -> Place]
      /\ at'[r].todo = at[r].todo \ {t} /\ at'[r].phase = at[r].phase
      /\ at'[r].nth = at[r].nth /\ at'[r].migration = at[r].migration
      /\ \A s \in Replicas : s # r => at'[s] = at[s]
  <2> DEFINE place == [at[r] EXCEPT !.todo = at[r].todo \ {t},
                                    !.read = [at[r].read EXCEPT ![t] = 0]]
  <2>1. at' = [at EXCEPT ![r] = place] /\ at \in [Replicas -> Place]
    <3>1. at \in [Replicas -> Place]
      BY DEF MigrationInv, TypeOK
    <3>2. at' = [at EXCEPT ![r].todo = at[r].todo \ {t}, ![r].read[t] = 0]
      BY DEF UpdateDone
    <3> QED
      BY <1>1, <3>1, <3>2 DEF Place
  <2>2. /\ place \in Place
        /\ place.todo = at[r].todo \ {t} /\ place.phase = at[r].phase
        /\ place.nth = at[r].nth /\ place.migration = at[r].migration
    BY <1>1 DEF Place
  <2> HIDE DEF place
  <2> QED
    BY <2>1, <2>2
<1>4. /\ newFormat' \cup late' = newFormat \cup late \cup {t}
      /\ newFormat' \subseteq Tenants /\ late' \subseteq Tenants
  BY <1>1 DEF WrittenNew, MigrationInv, TypeOK
<1>5. QuotaIsMigrated'
  BY <1>2, <1>4 DEF MigrationInv, QuotaIsMigrated, schema
<1>6. \A s \in Replicas : UpdatesFit(s)'
  BY <1>2, <1>3, <1>4 DEF MigrationInv, UpdatesFit, Done, In
<1>7. at[r].migration = Quota /\ changes' \in 0 .. MaxChanges
  BY DEF MigrationInv, NumbersFit, TypeOK
<1> QED
  BY <1>2, <1>3, <1>4, <1>5, <1>6, <1>7, TenantsWrittenFit

LEMMA UpdateTenantFits ==
  ASSUME MigrationInv, NEW r \in Replicas, UpdateTenant(r)
  PROVE  MigrationInv'
<1> DEFINE t == First(at[r].todo)
<1>1. CASE Exit(r) /\ UNCHANGED tenantData
  BY <1>1, RefusedFits DEF UpdateTenant, data
<1>2. CASE /\ ~Refused(r, t)
           /\ tenant' = [tenant EXCEPT ![t] = at[r].read[t] + 1]
           /\ WrittenNew(t) /\ UpdateDone(r, t)
           /\ UNCHANGED locks
  <2>1. t \in at[r].todo
    BY PlaceOf, FirstIsIn DEF UpdateTenant, MigrationInv
  <2> QED
    BY <1>2, <2>1, TenantUpdated DEF UpdateTenant
<1> QED
  BY <1>1, <1>2, Zenon DEF UpdateTenant

\* A client writes a tenant: it is migrated, or will be, or late.
LEMMA ClientWritesTenantFits ==
  ASSUME MigrationInv, NEW t \in Tenants, Changes, NEW version \in Nat,
         tenant' = [tenant EXCEPT ![t] = version], Written(t),
         UNCHANGED <<member, schema, locks, at, failures, aux>>
  PROVE  MigrationInv'
<1>1. changes' \in 0 .. MaxChanges
  BY BoundsAreNumbers DEF Changes, MigrationInv, TypeOK
<1>2. /\ tenant' \in [Tenants -> Nat \cup {Absent}]
      /\ StoredTenants' = StoredTenants \cup {t}
  BY MarksAreNone DEF MigrationInv, TypeOK, StoredTenants
<1>3. /\ newFormat' \subseteq Tenants /\ late' \subseteq Tenants
      /\ (newFormat \cup late) \ {t} \subseteq newFormat' \cup late'
      /\ Behind(t) => t \in newFormat' \cup late'
  BY DEF Written, WrittenNew, MigrationInv, TypeOK
<1>4. QuotaIsMigrated'
  BY <1>2, <1>3 DEF MigrationInv, QuotaIsMigrated, Behind, schema
<1>5. \A s \in Replicas : UpdatesFit(s)'
  BY <1>2, <1>3 DEF MigrationInv, UpdatesFit, Done, In, Behind
<1> QED
  BY <1>1, <1>2, <1>3, <1>4, <1>5, TenantsWrittenFit DEF MigrationInv, TypeOK

LEMMA ClientCreatesTenantFits ==
  ASSUME MigrationInv, NEW t \in Tenants, ClientCreatesTenant(t)
  PROVE  MigrationInv'
BY ClientWritesTenantFits DEF ClientCreatesTenant

LEMMA ClientUpdatesTenantFits ==
  ASSUME MigrationInv, NEW t \in Tenants, ClientUpdatesTenant(t)
  PROVE  MigrationInv'
<1>1. tenant[t] + 1 \in Nat
  BY DEF ClientUpdatesTenant, StoredTenants, MigrationInv, TypeOK
<1> QED
  BY <1>1, ClientWritesTenantFits DEF ClientUpdatesTenant

LEMMA ClientDeletesTenantFits ==
  ASSUME MigrationInv, NEW t \in Tenants, ClientDeletesTenant(t)
  PROVE  MigrationInv'
<1>1. changes' \in 0 .. MaxChanges
  BY BoundsAreNumbers DEF ClientDeletesTenant, Changes, MigrationInv, TypeOK
<1>2. /\ tenant' \in [Tenants -> Nat \cup {Absent}]
      /\ StoredTenants' \subseteq StoredTenants
  BY DEF ClientDeletesTenant, MigrationInv, TypeOK, StoredTenants
<1>3. UNCHANGED <<newFormat, late, member, schema, locks, at, failures, aux>>
  BY DEF ClientDeletesTenant
<1>4. QuotaIsMigrated' /\ \A s \in Replicas : UpdatesFit(s)'
  BY <1>2, <1>3 DEF MigrationInv, QuotaIsMigrated, UpdatesFit, Done, In, schema
<1> QED
  BY <1>1, <1>2, <1>3, <1>4, TenantsWrittenFit DEF MigrationInv, TypeOK

(***************************************************************************)
(* Steps that change a row of a table of memberships.                      *)
(***************************************************************************)
\* What holds after row i of table k was written, given that it holds of the
\* indexes and the first rows.
LEMMA RowWrittenFits ==
  ASSUME MigrationInv, NEW k \in TableNames, NEW i \in RowIds[k],
         NEW m \in Members \cup {Absent},
         member' = [member EXCEPT ![k][i] = m],
         at' \in [Replicas -> Place],
         \A s \in Replicas :
           /\ at'[s].phase = at[s].phase /\ at'[s].migration = at[s].migration
           /\ at'[s].nth = at[s].nth
           /\ at'[s].todo = at[s].todo \/ In(s, "dedupe"),
         UNCHANGED <<tenant, newFormat, late, schema, locks>>,
         failures' \in 0 .. MaxFailures, changes' \in 0 .. MaxChanges,
         had' \subseteq TableNames \X Members, dropped' \subseteq had',
         had \subseteq had', m # Absent => <<k, m>> \in had',
         k \in index \/ lock[k] # Nobody => Repeated(k)' = {},
         FirstRowsStay'
  PROVE  MigrationInv'
<1>1. UNCHANGED <<applied, index, lock, entry>>
  BY DEF schema, locks
<1>2. /\ DOMAIN member' = TableNames
      /\ member'[k] = [member[k] EXCEPT ![i] = m]
      /\ \A c \in TableNames : c # k => member'[c] = member[c]
  BY DEF MigrationInv, TypeOK
<1>3. TypeOK'
  <2>1. \A c \in TableNames : member'[c] \in [RowIds[c] -> Members \cup {Absent}]
    BY <1>2 DEF MigrationInv, TypeOK
  <2> QED
    BY <1>1, <1>2, <2>1 DEF MigrationInv, TypeOK
<1>4. Memberships' \subseteq had'
  <2>1. ASSUME NEW c \in TableNames, NEW j \in RowIds[c], member'[c][j] # Absent
        PROVE  <<c, member'[c][j]>> \in had'
    <3>1. CASE c = k /\ j = i
      BY <1>2, <2>1, <3>1 DEF MigrationInv, TypeOK
    <3>2. CASE ~(c = k /\ j = i)
      <4>1. member'[c][j] = member[c][j]
        BY <1>2, <3>2 DEF MigrationInv, TypeOK
      <4> QED
        BY <2>1, <4>1 DEF MigrationInv, Memberships, Stored
    <3> QED
      BY <3>1, <3>2
  <2> QED
    BY <2>1 DEF Memberships, Stored
<1>5. QuotaIsMigrated' /\ \A s \in Replicas : NumbersFit(s)' /\ UpdatesFit(s)'
  <2>1. \A s \in Replicas : In(s, "update") => at'[s].todo = at[s].todo
    BY DEF In
  <2> QED
    BY <1>1, <2>1, SameTenants
    DEF MigrationInv, QuotaIsMigrated, NumbersFit, UpdatesFit, Done, In
<1>6. IndexesFit'
  <2>1. \A s \in Replicas : \A n : IndexedBy(s, n)' = IndexedBy(s, n)
    BY DEF IndexedBy, Done, In
  <2>2. \A c \in TableNames : c # k => Repeated(c)' = Repeated(c)
    BY <1>2 DEF Repeated, Stored
  <2> QED
    BY <1>1, <2>1, <2>2 DEF MigrationInv, IndexesFit
<1> QED
  BY <1>3, <1>4, <1>5, <1>6 DEF MigrationInv

\* A row less is no duplicate more.
LEMMA RowDeleted ==
  ASSUME MigrationInv, NEW k \in TableNames, NEW i \in RowIds[k],
         member' = [member EXCEPT ![k][i] = Absent]
  PROVE  /\ Stored(k)' = Stored(k) \ {i}
         /\ \A j \in Stored(k) \ {i} : member'[k][j] = member[k][j]
         /\ \A c \in TableNames : c # k => member'[c] = member[c]
         /\ Repeated(k)' \subseteq Repeated(k)
         /\ \A m, j : FirstRow(k, m, j) /\ j # i => FirstRow(k, m, j)'
<1>1. Stored(k)' = Stored(k) \ {i} /\ \A j \in Stored(k) \ {i} : member'[k][j] = member[k][j]
  BY DEF MigrationInv, TypeOK, Stored
<1>2. \A c \in TableNames : c # k => member'[c] = member[c]
  BY DEF MigrationInv, TypeOK
<1>3. Repeated(k)' \subseteq Repeated(k)
  BY <1>1 DEF Repeated
<1>4. \A m, j : FirstRow(k, m, j) /\ j # i => FirstRow(k, m, j)'
  BY <1>1 DEF FirstRow, Text
<1> QED
  BY <1>1, <1>2, <1>3, <1>4

\* The first rows stay when a row goes that is not one, or is dropped.
LEMMA FirstRowsOutlive ==
  ASSUME MigrationInv, NEW k \in TableNames, NEW i \in Stored(k),
         member' = [member EXCEPT ![k][i] = Absent],
         had' = had, dropped \subseteq dropped',
         <<k, member[k][i]>> \in dropped' \/ \E s \in Replicas : Doomed(s, k, i),
         \A c, j : \A s \in Replicas : Doomed(s, c, j)' => Doomed(s, c, j)
  PROVE  FirstRowsStay'
<1> SUFFICES ASSUME NEW c \in TableNames, NEW m \in Members,
                    <<c, m>> \in had, \A o \in Same(m) : <<c, o>> \notin dropped'
             PROVE  \E j \in RowIds[c] :
                      FirstRow(c, m, j)' /\ \A s \in Replicas : ~Doomed(s, c, j)'
  BY DEF FirstRowsStay, Same
<1>1. PICK j \in RowIds[c] :
        FirstRow(c, m, j) /\ \A s \in Replicas : ~Doomed(s, c, j)
  BY DEF MigrationInv, FirstRowsStay
<1>2. i \in RowIds[k]
  BY DEF Stored
<1>3. CASE c = k
  <2>1. member[k][i] \in Members
    BY <1>2 DEF MigrationInv, TypeOK, Stored
  <2>2. ASSUME j = i PROVE FALSE
    <3>1. member[k][i] \in Same(m)
      BY <1>1, <1>3, <2>1, <2>2 DEF FirstRow, Text, Same
    <3>2. \E s \in Replicas : Doomed(s, k, i)
      BY <1>3, <3>1
    <3> QED
      BY <1>1, <1>3, <2>2, <3>2
  <2> QED
    BY <1>1, <1>2, <1>3, <2>2, RowDeleted
<1>4. CASE c # k
  <2>1. member'[c] = member[c]
    BY <1>2, <1>4, RowDeleted
  <2>2. FirstRow(c, m, j)'
    BY <1>1, <2>1 DEF FirstRow, Stored, Text
  <2> QED
    BY <1>1, <2>2
<1> QED
  BY <1>3, <1>4

LEMMA DeleteMemberFits ==
  ASSUME MigrationInv, NEW k \in TableNames, NEW i \in RowIds[k], DeleteMember(k, i)
  PROVE  MigrationInv'
<1>1. i \in Stored(k) /\ member' = [member EXCEPT ![k][i] = Absent]
      /\ at' = at /\ had' = had /\ dropped' = dropped \cup {<<k, member[k][i]>>}
      /\ at \in [Replicas -> Place] /\ had \subseteq TableNames \X Members
  BY DEF DeleteMember, MigrationInv, TypeOK
<1>2. \A c, j : \A s \in Replicas : Doomed(s, c, j)' => Doomed(s, c, j)
  BY <1>1 DEF Doomed, In, TableOf
<1>3. FirstRowsStay'
  BY <1>1, <1>2, FirstRowsOutlive
<1>4. changes' \in 0 .. MaxChanges /\ failures' \in 0 .. MaxFailures
  BY BoundsAreNumbers DEF DeleteMember, Changes, MigrationInv, TypeOK
<1>5. <<k, member[k][i]>> \in had /\ dropped' \subseteq had'
  BY <1>1 DEF MigrationInv, TypeOK, Memberships
<1>6. k \in index \/ lock[k] # Nobody => Repeated(k)' = {}
  BY <1>1, RowDeleted DEF MigrationInv, IndexesFit
<1> QED
  BY <1>1, <1>3, <1>4, <1>5, <1>6, RowWrittenFits DEF DeleteMember, tenantData

\* Replica r deletes a row i of table k, as it was about to.
LEMMA DoomedRowDeleted ==
  ASSUME MigrationInv, NEW r \in Replicas, NEW k \in TableNames, NEW i \in Stored(k),
         Doomed(r, k, i),
         member' = [member EXCEPT ![k][i] = Absent],
         at' = [at EXCEPT ![r].todo = @ \ {i}],
         UNCHANGED <<tenant, newFormat, late, schema, locks, changes, failures, aux>>
  PROVE  MigrationInv'
<1>1. at \in [Replicas -> Place] /\ i \in RowIds[k] /\ In(r, "dedupe")
  BY DEF MigrationInv, TypeOK, Stored, Doomed
<1>2. /\ at' \in [Replicas -> Place]
      /\ \A s \in Replicas : s # r => at'[s] = at[s]
      /\ at'[r].phase = at[r].phase /\ at'[r].nth = at[r].nth
      /\ at'[r].migration = at[r].migration /\ at'[r].todo = at[r].todo \ {i}
  BY <1>1 DEF Place
<1>3. \A c, j : \A s \in Replicas : Doomed(s, c, j)' => Doomed(s, c, j)
  BY <1>2 DEF Doomed, In, TableOf
<1>4. had' = had /\ dropped' = dropped /\ changes' = changes /\ failures' = failures
  BY DEF aux
<1>5. FirstRowsStay'
  BY <1>3, <1>4, FirstRowsOutlive
<1>6. k \in index \/ lock[k] # Nobody => Repeated(k)' = {}
  BY <1>1, RowDeleted DEF MigrationInv, IndexesFit
<1>7. /\ changes' \in 0 .. MaxChanges /\ failures' \in 0 .. MaxFailures
      /\ had' \subseteq TableNames \X Members /\ dropped' \subseteq had'
  BY <1>4 DEF MigrationInv, TypeOK
<1>8. \A s \in Replicas :
        /\ at'[s].phase = at[s].phase /\ at'[s].migration = at[s].migration
        /\ at'[s].nth = at[s].nth
        /\ at'[s].todo = at[s].todo \/ In(s, "dedupe")
  BY <1>1, <1>2
<1> QED
  BY <1>1, <1>2, <1>4, <1>5, <1>6, <1>7, <1>8, RowWrittenFits

LEMMA DeleteDuplicateFits ==
  ASSUME MigrationInv, NEW r \in Replicas, DeleteDuplicate(r)
  PROVE  MigrationInv'
<1> DEFINE k == TableOf(r)
           i == First(at[r].todo)
<1>1. CASE Exit(r) /\ UNCHANGED data
  BY <1>1, RefusedFits DEF DeleteDuplicate
<1>2. CASE /\ i \in Stored(k)
           /\ member' = [member EXCEPT ![k][i] = Absent]
           /\ at' = [at EXCEPT ![r].todo = @ \ {i}]
           /\ UNCHANGED <<tenantData, locks>>
  <2>1. /\ k \in TableNames /\ at[r].todo \subseteq Nat
        /\ In(r, "dedupe") /\ at[r].todo # {}
    BY PlaceOf DEF DeleteDuplicate, MigrationInv
  <2>2. Doomed(r, k, i)
    BY <2>1, FirstIsIn DEF Doomed
  <2>3. UNCHANGED <<tenant, newFormat, late, schema, locks, changes, failures, aux>>
    BY <1>2 DEF DeleteDuplicate, tenantData
  <2> QED
    BY <1>2, <2>1, <2>2, <2>3, DoomedRowDeleted
<1> QED
  BY <1>1, <1>2, Zenon DEF DeleteDuplicate

LEMMA CreateMemberFits ==
  ASSUME MigrationInv, NEW k \in TableNames, NEW i \in RowIds[k], NEW m \in Members,
         CreateMember(k, i, m)
  PROVE  MigrationInv'
<1>1. /\ i \notin Stored(k) /\ member' = [member EXCEPT ![k][i] = m] /\ at' = at
      /\ had' = had \cup {<<k, m>>} /\ dropped \subseteq dropped'
      /\ dropped' \subseteq dropped \cup {<<k, m>>}
      /\ <<k, m>> \in dropped' \/ \A r \in Replicas : ~Doomed(r, k, i)
      /\ lock[k] = Nobody /\ (k \in index => \A j \in Stored(k) : member[k][j] # m)
  BY DEF CreateMember, Writable
<1>2. /\ Stored(k)' = Stored(k) \cup {i} /\ member'[k][i] = m
      /\ \A j \in Stored(k) : member'[k][j] = member[k][j]
      /\ \A c \in TableNames : c # k => member'[c] = member[c]
  <2>1. /\ DOMAIN member = TableNames /\ m # Absent
        /\ member[k] \in [RowIds[k] -> Members \cup {Absent}]
    BY MarksAreNone DEF MigrationInv, TypeOK
  <2>2. /\ member'[k] = [member[k] EXCEPT ![i] = m]
        /\ \A c \in TableNames : c # k => member'[c] = member[c]
    BY <1>1, <2>1
  <2>3. member'[k][i] = m /\ \A j \in RowIds[k] : j # i => member'[k][j] = member[k][j]
    BY <2>1, <2>2
  <2> QED
    BY <1>1, <2>1, <2>2, <2>3 DEF Stored
<1>3. k \in index \/ lock[k] # Nobody => Repeated(k)' = {}
  <2>1. CASE k \in index
    <3>1. Repeated(k) = {} /\ \A j \in Stored(k) : member[k][j] # m
      BY <1>1, <2>1 DEF MigrationInv, IndexesFit
    <3>2. ASSUME NEW l \in Stored(k)', NEW j \in Stored(k)', j < l
          PROVE  member'[k][j] # member'[k][l]
      <4>1. i \in Nat /\ l \in Stored(k) \cup {i} /\ j \in Stored(k) \cup {i}
        BY <1>2, IdsAreOrdered
      <4>2. CASE l # i /\ j # i
        BY <1>2, <3>1, <3>2, <4>1, <4>2 DEF Repeated
      <4>3. CASE l = i /\ j # i
        BY <1>2, <3>1, <4>1, <4>3
      <4>4. CASE l # i /\ j = i
        BY <1>2, <3>1, <4>1, <4>4
      <4>5. CASE l = i /\ j = i
        BY <3>2, <4>1, <4>5
      <4> QED
        BY <4>2, <4>3, <4>4, <4>5
    <3> QED
      BY <3>2 DEF Repeated
  <2> QED
    BY <1>1, <2>1
<1>4. FirstRowsStay'
  <2> SUFFICES ASSUME NEW c \in TableNames, NEW m2 \in Members,
                      <<c, m2>> \in had', \A o \in Same(m2) : <<c, o>> \notin dropped'
               PROVE  \E j \in RowIds[c] :
                        FirstRow(c, m2, j)' /\ \A s \in Replicas : ~Doomed(s, c, j)'
    BY DEF FirstRowsStay, Same
  <2>1. \A d, j : \A s \in Replicas : Doomed(s, d, j)' = Doomed(s, d, j)
    BY <1>1 DEF Doomed, In, TableOf
  <2>2. CASE \E o \in Same(m2) : <<c, o>> \in had
    <3>1. PICK o \in Same(m2) : <<c, o>> \in had
      BY <2>2
    <3>2. o \in Members /\ Key[o] = Key[m2] /\ Same(o) = Same(m2)
      BY <3>1 DEF Same
    <3>3. PICK j \in RowIds[c] :
            FirstRow(c, o, j) /\ \A s \in Replicas : ~Doomed(s, c, j)
      BY <1>1, <3>1, <3>2 DEF MigrationInv, FirstRowsStay
    <3>4. FirstRow(c, m2, j)
      BY <3>2, <3>3 DEF FirstRow
    <3>5. CASE c # k
      <4>1. FirstRow(c, m2, j)'
        BY <1>2, <3>4, <3>5 DEF FirstRow, Stored, Text
      <4> QED
        BY <2>1, <3>3, <4>1
    <3>6. CASE c = k /\ (Key[m2] # Key[m] \/ j <= i)
      <4>1. FirstRow(c, m2, j)'
        BY <1>2, <3>4, <3>6 DEF FirstRow, Text
      <4> QED
        BY <2>1, <3>3, <4>1
    <3>7. CASE c = k /\ Key[m2] = Key[m] /\ ~(j <= i)
      <4>1. i \in Nat /\ j \in Nat /\ \A l \in Stored(k) : l \in Nat
        BY <3>7, IdsAreOrdered DEF Stored
      <4>2. \A l \in Stored(k) : Text(k, l) = Key[m2] => j <= l
        BY <3>4, <3>7 DEF FirstRow
      <4>3. ASSUME NEW l \in Stored(k)', Text(k, l)' = Key[m2] PROVE i <= l
        <5>1. CASE l = i
          BY <4>1, <5>1
        <5>2. CASE l # i
          <6>1. l \in Stored(k) /\ Text(k, l) = Key[m2]
            BY <1>2, <4>3, <5>2 DEF Text
          <6> QED
            BY <3>7, <4>1, <4>2, <6>1
        <5> QED
          BY <5>1, <5>2
      <4>4. FirstRow(k, m2, i)'
        BY <1>2, <3>7, <4>3 DEF FirstRow, Text
      <4>5. \A s \in Replicas : ~Doomed(s, k, i)
        BY <1>1, <3>7 DEF Same
      <4> QED
        BY <2>1, <3>7, <4>4, <4>5
    <3> QED
      BY <3>5, <3>6, <3>7
  <2>3. CASE \A o \in Same(m2) : <<c, o>> \notin had
    <3>1. c = k /\ m2 = m
      BY <1>1, <2>3 DEF Same
    <3>2. ASSUME NEW j \in Stored(k) PROVE Text(k, j) # Key[m]
      <4>1. <<k, member[k][j]>> \in had /\ member[k][j] \in Members
        BY <3>2 DEF MigrationInv, TypeOK, Memberships, Stored
      <4> QED
        BY <2>3, <3>1, <4>1 DEF Same, Text
    <3>3. i \in Nat
      BY IdsAreOrdered
    <3>4. FirstRow(k, m, i)'
      BY <1>2, <3>2, <3>3 DEF FirstRow, Text
    <3>5. \A s \in Replicas : ~Doomed(s, k, i)
      BY <1>1, <3>1 DEF Same
    <3> QED
      BY <2>1, <3>1, <3>4, <3>5
  <2> QED
    BY <2>2, <2>3
<1>5. /\ changes' \in 0 .. MaxChanges /\ failures' \in 0 .. MaxFailures
      /\ had' \subseteq TableNames \X Members /\ dropped' \subseteq had'
  BY <1>1, BoundsAreNumbers DEF CreateMember, Changes, MigrationInv, TypeOK
<1>6. at' \in [Replicas -> Place] /\ UNCHANGED <<tenant, newFormat, late, schema, locks>>
  BY DEF CreateMember, MigrationInv, TypeOK, tenantData
<1> QED
  BY <1>1, <1>3, <1>4, <1>5, <1>6, RowWrittenFits

(***************************************************************************)
(* Indexes, numbers and commits.                                           *)
(***************************************************************************)
LEMMA CreateIndexFits ==
  ASSUME MigrationInv, NEW r \in Replicas, CreateIndex(r)
  PROVE  MigrationInv'
<1> DEFINE k == TableOf(r)
<1>1. CASE Exit(r)
  BY <1>1, RefusedFits DEF CreateIndex
<1>2. CASE /\ NextTable(r, "index", "record") /\ entry' = entry
           /\ \/ k \in index /\ lock' = lock
              \/ Repeated(k) = {} /\ lock' = [lock EXCEPT ![k] = r]
  <2>1. PICK place \in Place :
          /\ at' = [at EXCEPT ![r] = place] /\ place.migration = at[r].migration
          /\ \/ at[r].nth = 1 /\ place.phase = "index" /\ place.nth = 2
             \/ at[r].nth = 2 /\ place.phase = "record" /\ place.nth = 1
    BY <1>2, NextTablePlace DEF MigrationInv
  <2>2. /\ at'[r] = place /\ at[r].migration = Unique /\ In(r, "index")
        /\ k \in TableNames /\ lock[k] = Nobody /\ lock \in [TableNames -> Replicas \cup {Nobody}]
    <3>1. at'[r] = place
      BY <2>1 DEF MigrationInv, TypeOK
    <3>2. In(r, "index") /\ lock[k] = Nobody
      BY DEF CreateIndex, Writable
    <3>3. at[r].migration = Unique
      BY <3>2 DEF MigrationInv, NumbersFit, In
    <3> QED
      BY <3>1, <3>2, <3>3, PlaceOf DEF MigrationInv, TypeOK
  <2>3. /\ lock' \in [TableNames -> Replicas \cup {Nobody}]
        /\ \A c \in TableNames : lock'[c] = lock[c] \/ c = k
        /\ lock'[k] = lock[k] \/ Repeated(k) = {}
        /\ k \in index \/ lock'[k] = r
    BY <1>2, <2>2
  <2>4. UNCHANGED <<data, schema, changes, failures, aux>> /\ entry' \in Replicas \cup {Nobody}
        /\ applied' = applied
    BY <1>2 DEF CreateIndex, Exit, MigrationInv, TypeOK, schema, data, tenantData
  <2>5. NumbersFit(r)' /\ UpdatesFit(r)'
    BY <2>1, <2>2, <2>4 DEF MigrationInv, NumbersFit, UpdatesFit, Done, In, Quota, Unique
  <2>6. ASSUME NEW n \in DOMAIN Tables, IndexedBy(r, n)'
        PROVE  Tables[n] \in index \/ lock'[Tables[n]] = r
    <3>1. CASE n = at[r].nth
      BY <2>3, <3>1 DEF TableOf
    <3>2. CASE n # at[r].nth
      <4>1. n < at[r].nth
        BY <2>1, <2>2, <2>6, <3>2, TwoTables DEF IndexedBy, Done, In
      <4>2. Tables[n] \in index \/ lock[Tables[n]] = r
        BY <2>2, <4>1 DEF MigrationInv, IndexesFit, IndexedBy
      <4>3. Tables[n] \in TableNames /\ r # Nobody
        BY TwoTables, MarksAreNone
      <4> QED
        BY <2>2, <2>3, <4>2, <4>3
    <3> QED
      BY <3>1, <3>2
  <2>7. \A c, i : ~Doomed(r, c, i)'
    BY <2>1, <2>2 DEF Doomed, In
  <2>8. \A c \in TableNames : (lock'[c] = lock[c] \/ lock[c] = Nobody)
                            /\ (lock'[c] = lock[c] \/ Repeated(c) = {})
    BY <2>2, <2>3
  <2> HIDE DEF k
  <2> QED
    BY <1>2, <2>1, <2>3, <2>4, <2>5, <2>6, <2>7, <2>8, LockFits
<1> QED
  BY <1>1, <1>2 DEF CreateIndex, locks

LEMMA RecordFits ==
  ASSUME MigrationInv, NEW r \in Replicas, Record(r)
  PROVE  MigrationInv'
<1>1. CASE Exit(r)
  BY <1>1, RefusedFits DEF Record
<1>2. CASE applied < at[r].migration /\ entry' = r /\ Go(r, "commit") /\ lock' = lock
  <2> DEFINE place == [at[r] EXCEPT !.phase = "commit"]
  <2>1. at[r] \in Place /\ at \in [Replicas -> Place]
    BY DEF MigrationInv, TypeOK
  <2>2. /\ place \in Place /\ at' = [at EXCEPT ![r] = place] /\ at'[r] = place
        /\ place.phase = "commit" /\ place.migration = at[r].migration
    BY <1>2, <2>1 DEF Go, Place
  <2> HIDE DEF place
  <2>3. UNCHANGED <<tenant, newFormat, late, applied, index>> /\ entry = Nobody
        /\ In(r, "record") /\ UNCHANGED <<data, schema, changes, failures, aux>>
    BY DEF Record, data, tenantData, schema
  <2>4. NumbersFit(r)' /\ UpdatesFit(r)'
    BY <1>2, <2>2, <2>3, SameTenants DEF MigrationInv, NumbersFit, UpdatesFit, Done, In
  <2>5. \A n \in DOMAIN Tables :
          IndexedBy(r, n)' => Tables[n] \in index \/ lock'[Tables[n]] = r
    BY <1>2, <2>2, <2>3 DEF MigrationInv, IndexesFit, IndexedBy, Done, In
  <2>6. \A k, i : ~Doomed(r, k, i)'
    BY <2>2 DEF Doomed, In
  <2>7. lock' \in [TableNames -> Replicas \cup {Nobody}] /\ entry' \in Replicas \cup {Nobody}
    BY <1>2 DEF MigrationInv, TypeOK
  <2> QED
    BY <1>2, <2>2, <2>3, <2>4, <2>5, <2>6, <2>7, LockFits
<1> QED
  BY <1>1, <1>2 DEF Record

\* A commit records one migration more, whatever becomes of the replica.
LEMMA CommittedFits ==
  ASSUME MigrationInv, NEW r \in Replicas, Committed(r), NEW place \in Place,
         at' = [at EXCEPT ![r] = place],
         place.phase \in {"down", "func", "serving"},
         place.migration <= at[r].migration + 1,
         place.phase = "serving" => at[r].migration = Unique,
         failures' \in 0 .. MaxFailures
  PROVE  MigrationInv'
<1>1. /\ UNCHANGED <<tenant, newFormat, late, member, changes, had, dropped>>
      /\ at \in [Replicas -> Place] /\ at'[r] = place
      /\ \A s \in Replicas \ {r} : at'[s] = at[s]
  BY DEF Committed, MigrationInv, TypeOK, data, tenantData, aux
<1>2. /\ applied' = at[r].migration /\ entry = r /\ applied < applied'
      /\ applied \in 0 .. 3 /\ applied' \in 1 .. 3 /\ In(r, "commit")
  BY PlaceOf DEF Committed, MigrationInv, NumbersFit
<1>3. index' = index \cup {k \in TableNames : lock[k] = r} /\ entry' = Nobody
      /\ lock' = [k \in TableNames |-> IF lock[k] = r THEN Nobody ELSE lock[k]]
  BY DEF Committed
<1>4. TypeOK'
  <2>1. at' \in [Replicas -> Place]
    BY <1>1
  <2>2. lock' \in [TableNames -> Replicas \cup {Nobody}] /\ index' \subseteq TableNames
    BY <1>3 DEF MigrationInv, TypeOK
  <2>3. applied' \in 0 .. Cardinality(Migrations)
    BY <1>2, ThreeMigrations
  <2> QED
    BY <1>1, <1>3, <2>1, <2>2, <2>3 DEF MigrationInv, TypeOK
<1>5. Memberships' \subseteq had'
  BY <1>1, SameRows DEF MigrationInv
<1>6. QuotaIsMigrated'
  <2>1. CASE applied' = Quota
    BY <1>1, <1>2, <2>1, SameTenants
    DEF MigrationInv, UpdatesFit, Done, In, QuotaIsMigrated
  <2>2. CASE applied' # Quota
    <3>1. at[r].migration <= applied + 1
      BY DEF MigrationInv, NumbersFit
    <3> QED
      BY <1>1, <1>2, <2>2, <3>1, SameTenants DEF MigrationInv, QuotaIsMigrated, Quota
  <2> QED
    BY <2>1, <2>2
<1>7. \A s \in Replicas : NumbersFit(s)' /\ UpdatesFit(s)'
  <2>1. NumbersFit(r)' /\ UpdatesFit(r)'
    BY <1>1, <1>2, SameTenants DEF NumbersFit, UpdatesFit, Done, In
  <2>2. ASSUME NEW s \in Replicas \ {r} PROVE NumbersFit(s)' /\ UpdatesFit(s)'
    <3>1. ~In(s, "commit") /\ ~In(s, "serving")
      BY <1>2 DEF MigrationInv, NumbersFit, Unique
    <3>2. at[s].migration \in 1 .. 3 /\ at[s].migration <= applied + 1
      BY PlaceOf DEF MigrationInv, NumbersFit
    <3>3. at[s].migration <= applied' + 1
      BY <1>2, <3>2
    <3> QED
      BY <1>1, <3>1, <3>3, SameTenants DEF MigrationInv, NumbersFit, UpdatesFit, Done, In
  <2> QED
    BY <2>1, <2>2
<1>8. IndexesFit'
  <2>1. \A k \in TableNames : k \in index' \/ lock'[k] # Nobody => Repeated(k)' = {}
    BY <1>1, <1>3, MarksAreNone, SameRows DEF MigrationInv, IndexesFit
  <2>2. ASSUME NEW s \in Replicas, NEW n \in DOMAIN Tables, IndexedBy(s, n)'
        PROVE  Tables[n] \in index' \/ lock'[Tables[n]] = s
    <3>1. s # r
      BY <1>1, <2>2 DEF IndexedBy, Done, In
    <3>2. Tables[n] \in index \/ lock[Tables[n]] = s
      BY <1>1, <2>2, <3>1 DEF MigrationInv, IndexesFit, IndexedBy, Done, In
    <3> QED
      BY <1>3, <3>1, <3>2, TwoTables
  <2>3. applied' = Unique => index' = TableNames
    <3> SUFFICES ASSUME at[r].migration = Unique PROVE index' = TableNames
      BY <1>2
    <3>1. \A n \in DOMAIN Tables : Tables[n] \in index \/ lock[Tables[n]] = r
      BY <1>2 DEF MigrationInv, IndexesFit, IndexedBy, Done, In
    <3> QED
      <4>1. \A k \in TableNames : k \in index \/ lock[k] = r
        BY <3>1, TwoTables
      <4> QED
        BY <1>3, <4>1 DEF MigrationInv, TypeOK
  <2> QED
    BY <2>1, <2>2, <2>3 DEF IndexesFit
<1>9. FirstRowsStay'
  <2>1. \A k, i : \A s \in Replicas : Doomed(s, k, i)' => Doomed(s, k, i)
    BY <1>1 DEF Doomed, In, TableOf
  <2> QED
    BY <1>1, <2>1, SameRows DEF MigrationInv, FirstRowsStay
<1> QED
  BY <1>4, <1>5, <1>6, <1>7, <1>8, <1>9 DEF MigrationInv

LEMMA CommitFits ==
  ASSUME MigrationInv, NEW r \in Replicas, Commit(r)
  PROVE  MigrationInv'
<1> DEFINE n == at[r].migration + 1
<1>1. n \in 2 .. 4
  BY PlaceOf DEF MigrationInv
<1>2. failures' \in 0 .. MaxFailures /\ Committed(r)
  BY DEF Commit, MigrationInv, TypeOK
<1>3. CASE n \in Migrations
  <2> DEFINE place == [Down EXCEPT !.phase = "func", !.migration = n]
  <2>1. place \in Place /\ place.phase = "func" /\ place.migration = n
    BY <1>3, DownIsPlace DEF Place
  <2>2. at' = [at EXCEPT ![r] = place]
    BY <1>3 DEF Commit, StartAt
  <2>3. place.migration <= at[r].migration + 1 /\ place.phase # "serving"
    BY <1>1, <2>1
  <2>4. place.phase \in {"down", "func", "serving"}
    BY <2>1
  <2> HIDE DEF place
  <2> QED
    BY <1>2, <2>1, <2>2, <2>3, <2>4, CommittedFits
<1>4. CASE n \notin Migrations
  <2> DEFINE place == [Down EXCEPT !.phase = "serving"]
  <2>1. place \in Place /\ place.phase = "serving" /\ place.migration = 1
    BY DownIsPlace DEF Place
  <2>2. at' = [at EXCEPT ![r] = place]
    BY <1>4 DEF Commit, StartAt
  <2>3. at[r].migration = Unique
    <3>1. n = 4 /\ at[r].migration \in 1 .. 3
      BY <1>1, <1>4, ThreeMigrations, PlaceOf DEF MigrationInv
    <3> QED
      BY <3>1, ThreeMigrations
  <2>4. place.migration <= at[r].migration + 1
    BY <1>1, <2>1
  <2>5. place.phase \in {"down", "func", "serving"}
    BY <2>1
  <2> HIDE DEF place
  <2> QED
    BY <1>2, <2>1, <2>2, <2>3, <2>4, <2>5, CommittedFits
<1> QED
  BY <1>3, <1>4

LEMMA CommitUnansweredFits ==
  ASSUME MigrationInv, NEW r \in Replicas, CommitUnanswered(r)
  PROVE  MigrationInv'
<1>1. failures' \in 0 .. MaxFailures
  BY BoundsAreNumbers DEF CommitUnanswered, Fails, MigrationInv, TypeOK
<1>2. 1 <= at[r].migration + 1
  BY PlaceOf DEF MigrationInv
<1> QED
  BY <1>1, <1>2, DownIsPlace, CommittedFits DEF CommitUnanswered

-----------------------------------------------------------------------------
LEMMA StepFits ==
  ASSUME MigrationInv, NEW r \in Replicas, Step(r)
  PROVE  MigrationInv'
BY StartAtFits, RunSampleFits, FindTenantsFits, UpdateTenantFits, UpdatesDoneFits,
   FindMembersFits, DeleteDuplicateFits, TableDedupedFits, CreateIndexFits,
   RecordFits, CommitFits
DEF Step, Start

LEMMA ClientStepFits ==
  ASSUME MigrationInv, ClientStep
  PROVE  MigrationInv'
BY DeleteMemberFits, CreateMemberFits,
   ClientCreatesTenantFits, ClientUpdatesTenantFits, ClientDeletesTenantFits
DEF ClientStep

LEMMA StutterFits ==
  ASSUME MigrationInv, UNCHANGED vars
  PROVE  MigrationInv'
BY DEF MigrationInv, vars, data, tenantData, schema, locks, aux, TypeOK, Memberships, Stored,
       QuotaIsMigrated, NumbersFit, UpdatesFit, IndexesFit, IndexedBy, Done, In,
       StoredTenants, Repeated, FirstRowsStay, FirstRow, Text, Doomed, TableOf

(***************************************************************************)
(* The inductive invariant, for any number of replicas that start and end  *)
(* at any moment, and any changes that clients make meanwhile.             *)
(***************************************************************************)
THEOREM StartsKeepMigrationInv == Spec => []MigrationInv
<1>1. MigrationInv /\ [Next]_vars => MigrationInv'
  <2> SUFFICES ASSUME MigrationInv, [Next]_vars PROVE MigrationInv'
    OBVIOUS
  <2>1. CASE UNCHANGED vars
    BY <2>1, StutterFits
  <2>2. CASE ClientStep
    BY <2>2, ClientStepFits
  <2>3. ASSUME NEW r \in Replicas, Step(r) \/ Fail(r) \/ CommitUnanswered(r)
        PROVE  MigrationInv'
    BY <2>3, StepFits, FailFits, CommitUnansweredFits
  <2> QED
    BY <2>1, <2>2, <2>3 DEF Next
<1> QED
  BY <1>1, InitMigrationInv, PTL DEF Spec

(***************************************************************************)
(* The tables, the locks and the place of each replica are what they are   *)
(* meant to be, and no more migrations are recorded than there are.        *)
(***************************************************************************)
THEOREM MigrationKeepsTypes == Spec => []TypeOK
<1>1. MigrationInv => TypeOK
  BY DEF MigrationInv
<1> QED
  BY <1>1, StartsKeepMigrationInv, PTL

(***************************************************************************)
(* When the migration of the quota field is recorded, every tenant is in   *)
(* the new format, except those a server of the previous release wrote     *)
(* when a replica had migrated them already, or had read the others only.  *)
(***************************************************************************)
THEOREM QuotaMigrates == Spec => []QuotaIsMigrated
<1>1. MigrationInv => QuotaIsMigrated
  BY DEF MigrationInv
<1> QED
  BY <1>1, StartsKeepMigrationInv, PTL

(***************************************************************************)
(* A replica that serves does so on a migrated database.                   *)
(***************************************************************************)
THEOREM ServingIsMigrated == Spec => []ServesMigrated
<1>1. MigrationInv => ServesMigrated
  BY ThreeMigrations DEF MigrationInv, ServesMigrated, NumbersFit, IndexesFit
<1> QED
  BY <1>1, StartsKeepMigrationInv, PTL

(***************************************************************************)
(* Of every membership that was ever stored a row is left that has its     *)
(* text, which two different memberships may have in common, unless a      *)
(* client deleted one, or created it under an id that a replica has read   *)
(* as that of a duplicate.                                                 *)
(***************************************************************************)
THEOREM MembershipsSurvive == Spec => []NoMembershipLost
<1>1. MigrationInv => NoMembershipLost
  <2> SUFFICES ASSUME MigrationInv, NEW d \in had,
                      \A o \in Same(d[2]) : <<d[1], o>> \notin dropped
               PROVE  \E o \in Same(d[2]) : <<d[1], o>> \in Memberships
    BY DEF NoMembershipLost
  <2> DEFINE k == d[1]
             m == d[2]
  <2>3. k \in TableNames /\ m \in Members /\ <<k, m>> \in had
    BY DEF MigrationInv, TypeOK
  <2> HIDE DEF k, m
  <2>4. \A o \in Same(m) : <<k, o>> \notin dropped
    BY DEF k, m
  <2>1. PICK i \in RowIds[k] : FirstRow(k, m, i)
    BY <2>3, <2>4 DEF MigrationInv, FirstRowsStay
  <2>2. member[k][i] \in Same(m) /\ <<k, member[k][i]>> \in Memberships
    BY <2>1, <2>3 DEF FirstRow, Text, Same, Memberships, Stored, MigrationInv, TypeOK
  <2> QED
    BY <2>2 DEF k, m
<1> QED
  BY <1>1, StartsKeepMigrationInv, PTL
=============================================================================
