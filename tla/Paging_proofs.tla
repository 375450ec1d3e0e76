---------------------------- MODULE Paging_proofs ----------------------------
(***************************************************************************)
(* Listing page by page, for every table, page size and width of the       *)
(* numbers, and every interleaving with changes: nothing is listed twice   *)
(* and nothing is skipped without the change that explains it.             *)
(***************************************************************************)
EXTENDS Paging, FiniteSetTheorems, TLAPS

(***************************************************************************)
(* Arithmetic of the offset.                                               *)
(***************************************************************************)
LEMMA SmallMod ==
  ASSUME NEW x \in Nat, NEW w \in Nat, x < w
  PROVE  x % w = x
OBVIOUS

LEMMA ModBelow ==
  ASSUME NEW x \in Nat, NEW w \in Nat, w > 0
  PROVE  x % w \in 0 .. w - 1
OBVIOUS

LEMMA HalvesAddUp ==
  ASSUME NEW w \in Nat, NEW x \in Nat, NEW y \in Nat,
         x < w \div 2, y < w \div 2
  PROVE  x + y < w
OBVIOUS

LEMMA NextProduct ==
  ASSUME NEW p \in Nat, NEW l \in Nat
  PROVE  (p + 1) * l = p * l + l /\ p * l \in Nat /\ (l > 0 => p < (p + 1) * l)
OBVIOUS

(***************************************************************************)
(* Rank: smaller ids have smaller ranks, and a set that grows or shrinks   *)
(* beyond an id does not move it.                                          *)
(***************************************************************************)
Below(S, i) == {j \in S : j < i}

LEMMA BelowFinite ==
  ASSUME NEW S, IsFiniteSet(S), NEW i
  PROVE  IsFiniteSet(Below(S, i)) /\ Cardinality(Below(S, i)) \in Nat
BY FS_Subset, FS_CardinalityType DEF Below

LEMMA BelowMonotone ==
  ASSUME NEW S, NEW T, IsFiniteSet(T), S \subseteq T, NEW i
  PROVE  Cardinality(Below(S, i)) <= Cardinality(Below(T, i))
<1>1. IsFiniteSet(Below(T, i)) /\ Below(S, i) \in SUBSET Below(T, i)
  BY BelowFinite DEF Below
<1> QED
  BY <1>1, FS_Subset

LEMMA BelowStrict ==
  ASSUME NEW S \in SUBSET Nat, IsFiniteSet(S), NEW i \in S, NEW j \in S, i < j
  PROVE  Cardinality(Below(S, i)) < Cardinality(Below(S, j))
<1>1. IsFiniteSet(Below(S, j)) /\ Below(S, i) \in SUBSET Below(S, j)
  <2>1. \A k \in S : k < i => k < j
    OBVIOUS
  <2>2. Below(S, i) \subseteq Below(S, j)
    BY <2>1 DEF Below
  <2> QED
    BY <2>2, BelowFinite
<1>2. i \in Below(S, j) /\ i \notin Below(S, i)
  BY DEF Below
<1>3. /\ Cardinality(Below(S, i)) <= Cardinality(Below(S, j))
      /\ Cardinality(Below(S, j)) # Cardinality(Below(S, i))
  BY <1>1, <1>2, FS_Subset
<1> QED
  BY <1>3, BelowFinite

(***************************************************************************)
(* A page with rows behind it is full: the ranks before the rank of x are  *)
(* all taken, each by one row.                                             *)
(***************************************************************************)
LEMMA FullPage ==
  ASSUME NEW S \in SUBSET Nat, IsFiniteSet(S), NEW x \in S,
         NEW o \in Nat, NEW l \in Nat, Cardinality(Below(S, x)) >= o + l
  PROVE  Cardinality({i \in S : /\ Cardinality(Below(S, i)) >= o
                                /\ Cardinality(Below(S, i)) < o + l}) = l
<1> DEFINE R(i) == Cardinality(Below(S, i))
           n == R(x)
           B == Below(S, x)
           r == [i \in B |-> R(i)]
           P == {i \in S : R(i) >= o /\ R(i) < o + l}
<1>1. \A i \in S : R(i) \in Nat
  BY BelowFinite
<1>2. \A i, j \in S : i < j => R(i) < R(j)
  BY BelowStrict
<1>3. n \in Nat /\ n >= o + l
  BY <1>1
<1>4. B \subseteq S /\ IsFiniteSet(B) /\ Cardinality(B) = n
  BY BelowFinite DEF Below
<1>5. \A i \in S : i \in B <=> i < x
  BY DEF Below
<1>6. IsFiniteSet(0 .. n - 1) /\ Cardinality(0 .. n - 1) = n
  <2>1. 0 \in Int /\ n - 1 \in Int
    BY <1>3
  <2>2. /\ IsFiniteSet(0 .. n - 1)
        /\ Cardinality(0 .. n - 1) = IF 0 > n - 1 THEN 0 ELSE (n - 1) - 0 + 1
    BY <2>1, FS_Interval, Zenon
  <2> QED
    BY <1>3, <2>2
<1> HIDE DEF R, n, B, P
<1>7. r \in Injection(B, 0 .. n - 1)
  <2>1. \A i \in B : R(i) \in 0 .. n - 1
    BY <1>1, <1>2, <1>3, <1>4, <1>5 DEF n
  <2>2. \A i, j \in B : R(i) = R(j) => i = j
    <3>1. \A i, j \in B : i < j \/ j < i \/ i = j
      BY <1>4
    <3> QED
      BY <1>1, <1>2, <1>4, <3>1
  <2> QED
    BY <2>1, <2>2 DEF Injection, IsInjective
<1>8. r \in Surjection(B, 0 .. n - 1)
  BY <1>4, <1>6, <1>7, FS_Injection
<1>9. P \subseteq B
  <2>1. ASSUME NEW i \in P PROVE i < x
    <3>1. i \in S /\ R(i) < n
      BY <1>1, <1>3 DEF P
    <3>2. i < x \/ x < i \/ i = x
      BY <3>1
    <3> QED
      BY <1>1, <1>2, <3>1, <3>2 DEF n
  <2> QED
    BY <1>5, <2>1 DEF P
<1> DEFINE I == o .. o + l - 1
           f == [i \in P |-> R(i)]
<1>10. f \in Bijection(P, I)
  <2>1. \A i \in P : R(i) \in I
    BY <1>1 DEF P
  <2>2. \A i, j \in P : R(i) = R(j) => i = j
    BY <1>7, <1>9 DEF Injection, IsInjective
  <2>3. ASSUME NEW k \in I PROVE \E i \in P : R(i) = k
    <3>1. k \in 0 .. n - 1
      BY <1>3
    <3>2. PICK i \in B : r[i] = k
      BY <1>8, <3>1 DEF Surjection
    <3> QED
      BY <1>4, <3>2 DEF P
  <2>4. f \in Injection(P, I)
    BY <2>1, <2>2 DEF Injection, IsInjective
  <2>5. f \in Surjection(P, I)
    BY <2>1, <2>3 DEF Surjection
  <2> QED
    BY <2>4, <2>5 DEF Bijection
<1>11. IsFiniteSet(I) /\ Cardinality(I) = l
  <2>1. o \in Int /\ o + l - 1 \in Int
    OBVIOUS
  <2>2. /\ IsFiniteSet(o .. o + l - 1)
        /\ Cardinality(o .. o + l - 1)
             = IF o > o + l - 1 THEN 0 ELSE (o + l - 1) - o + 1
    BY <2>1, FS_Interval, Zenon
  <2> QED
    BY <2>2
<1>12. IsFiniteSet(P)
  BY <1>4, <1>9, FS_Subset
<1>13. Cardinality(I) = Cardinality(P)
  BY <1>10, <1>12, FS_Bijection DEF ExistsBijection
<1>14. Cardinality(P) = l
  BY <1>11, <1>13
<1> QED
  BY <1>14 DEF P, R

-----------------------------------------------------------------------------
(***************************************************************************)
(* The numbers of a page, as long as they do not wrap around.              *)
(***************************************************************************)
LEMMA LimitFits ==
  ASSUME TypeOK
  PROVE  Limit \in Nat /\ Limit < Width /\ Width \in Nat /\ Width > 1
BY CountsFit DEF TypeOK, Limit

LEMMA OffsetFits ==
  ASSUME TypeOK, NoWrap
  PROVE  /\ Offset \in Nat
         /\ page = Unset => Offset = 0
         /\ page # Unset => Offset = page * Limit /\ page \in Nat
<1>1. Limit \in Nat /\ Width \in Nat
  BY LimitFits
<1>2. CASE page # Unset
  <2>1. page \in Nat
    BY <1>2 DEF TypeOK
  <2> DEFINE x == page * Limit
  <2>2. x \in Nat
    BY <1>1, <2>1, NextProduct
  <2>3. x < Width
    BY <1>2 DEF NoWrap
  <2>4. x % Width = x
    <3> HIDE DEF x
    <3> QED
      BY <1>1, <2>2, <2>3, SmallMod
  <2>5. Offset = x
    BY <1>2, <2>4 DEF Offset
  <2> QED
    BY <1>2, <2>1, <2>2, <2>5
<1> QED
  BY <1>2 DEF Offset

\* After a page comes the page that starts where it ends.
LEMMA NextPageFits ==
  ASSUME TypeOK, NoWrap, ~OutOfRange, count # NoPaging,
         page' = NextPage, count' = count
  PROVE  /\ page' \in 0 .. Width - 1
         /\ NoWrap'
         /\ Offset' = Offset + Limit
<1>1. Limit \in Nat /\ Width \in Nat /\ Width > 1 /\ Limit < Width
  BY LimitFits
<1>2. Offset + Limit < Width
  <2>1. Limit < Width \div 2 /\ Offset < Width \div 2
    BY <1>1, OffsetFits DEF OutOfRange
  <2> QED
    BY <1>1, <2>1, OffsetFits, HalvesAddUp
<1>3. Limit' = Limit
  BY DEF Limit
<1>4. page' \in 0 .. Width - 1 /\ page' * Limit = Offset + Limit
  <2>1. CASE page = Unset
    BY <1>1, <2>1, OffsetFits DEF NextPage
  <2>2. CASE page # Unset
    <3>1. page \in Nat /\ Offset = page * Limit
      BY <2>2, OffsetFits
    <3>2. (page + 1) * Limit = Offset + Limit
      BY <1>1, <3>1, NextProduct
    <3>3. page' = (page + 1) % Width
      BY <2>2 DEF NextPage
    <3>4. CASE Limit > 0
      <4>1. page + 1 < Width
        <5>1. page < (page + 1) * Limit
          BY <1>1, <3>1, <3>4, NextProduct
        <5>2. Offset \in Nat
          BY OffsetFits
        <5>3. page + 1 <= Offset + Limit
          BY <1>1, <3>1, <3>2, <5>1, <5>2
        <5> QED
          BY <1>1, <1>2, <3>1, <5>2, <5>3
      <4>2. page' = page + 1
        BY <1>1, <3>1, <3>3, <4>1, SmallMod
      <4> QED
        BY <1>1, <3>1, <3>2, <4>1, <4>2
    <3>5. CASE Limit = 0
      <4>1. page' \in 0 .. Width - 1
        BY <1>1, <3>1, <3>3, ModBelow
      <4>2. page' * Limit = 0 /\ Offset = 0
        BY <3>1, <3>5, <4>1
      <4> QED
        BY <3>5, <4>1, <4>2
    <3> QED
      BY <1>1, <3>4, <3>5
  <2> QED
    BY <2>1, <2>2
<1>5. NoWrap'
  BY <1>2, <1>3, <1>4 DEF NoWrap
<1>6. page' # Unset /\ page' \in Nat
  BY <1>4, CountsFit
<1>7. Offset' = Offset + Limit
  <2> DEFINE y == page' * Limit
  <2>1. y = Offset + Limit /\ y \in Nat
    BY <1>1, <1>4, OffsetFits
  <2>2. y < Width
    BY <1>2, <2>1
  <2>3. Offset' = y % Width
    BY <1>3, <1>6 DEF Offset
  <2> HIDE DEF y
  <2>4. y % Width = y
    BY <1>1, <2>1, <2>2, SmallMod
  <2> QED
    BY <2>1, <2>3, <2>4
<1> QED
  BY <1>4, <1>5, <1>7

(***************************************************************************)
(* Ranks of the result.                                                    *)
(***************************************************************************)
LEMMA RankFits ==
  ASSUME TypeOK
  PROVE  /\ IsFiniteSet(result) /\ result \in SUBSET Nat
         /\ \A i : Rank(i) = Cardinality(Below(result, i)) /\ Rank(i) \in Nat
<1>1. IsFiniteSet(result) /\ result \in SUBSET Nat
  BY IdsAreOrdered, FS_Subset DEF TypeOK
<1> QED
  BY <1>1, BelowFinite DEF Rank, Below

\* An answer without a next page has every row from its offset on.
LEMMA LastPage ==
  ASSUME TypeOK, NoWrap, ~HasNext, count \notin {Unset, NoPaging},
         NEW x \in result
  PROVE  Rank(x) < Offset + Limit
<1>1. Limit \in Nat /\ Offset \in Nat
  BY LimitFits, OffsetFits
<1>2. \A i : Rank(i) = Cardinality(Below(result, i)) /\ Rank(i) \in Nat
  BY RankFits
<1> SUFFICES ASSUME Rank(x) >= Offset + Limit PROVE FALSE
  BY <1>1, <1>2
<1>3. Cardinality({i \in result : /\ Cardinality(Below(result, i)) >= Offset
                                  /\ Cardinality(Below(result, i)) < Offset + Limit})
        = Limit
  BY <1>1, <1>2, FullPage, RankFits
<1>4. Rows = {i \in result : /\ Cardinality(Below(result, i)) >= Offset
                             /\ Cardinality(Below(result, i)) < Offset + Limit}
  BY <1>2 DEF Rows
<1>5. count \in Nat
  BY CountsFit DEF TypeOK
<1> QED
  BY <1>3, <1>4, <1>5 DEF HasNext, Limit

\* The ranks before and after a change of the table.
LEMMA EnterMoves ==
  ASSUME TypeOK, NEW k \in Ids, Enter(k)
  PROVE  \A i \in Ids : /\ Rank(i) <= Rank(i)'
                        /\ Rank(i)' = Rank(i) \/ k < i
                        /\ Rank(i)' \in Nat
<1>1. result' = result \cup {k} /\ TypeOK'
  BY DEF Enter, TypeOK
<1>2. \A i \in Ids : Rank(i) <= Rank(i)' /\ Rank(i)' \in Nat
  <2>1. IsFiniteSet(result') /\ \A i : Rank(i)' = Cardinality(Below(result', i))
    BY <1>1, IdsAreOrdered, FS_Subset DEF TypeOK, Rank, Below
  <2> QED
    BY <1>1, <2>1, BelowMonotone, BelowFinite, RankFits
<1>3. \A i \in Ids : k < i \/ Rank(i)' = Rank(i)
  <2>1. ASSUME NEW i \in Ids, ~(k < i)
        PROVE  {j \in result' : j < i} = {j \in result : j < i}
    BY <1>1, <2>1
  <2> QED
    BY <2>1 DEF Rank
<1> QED
  BY <1>2, <1>3

LEMMA LeaveMoves ==
  ASSUME TypeOK, NEW k \in Ids, Leave(k)
  PROVE  \A i \in Ids : /\ Rank(i)' <= Rank(i)
                        /\ Rank(i)' = Rank(i) \/ k < i
                        /\ Rank(i)' \in Nat
<1>1. result' = result \ {k} /\ TypeOK'
  BY DEF Leave, TypeOK
<1>2. IsFiniteSet(result') /\ \A i : Rank(i)' = Cardinality(Below(result', i))
  BY <1>1, IdsAreOrdered, FS_Subset DEF TypeOK, Rank, Below
<1>3. \A i \in Ids : Rank(i)' <= Rank(i) /\ Rank(i)' \in Nat
  BY <1>1, <1>2, BelowMonotone, BelowFinite, RankFits
<1>4. \A i \in Ids : k < i \/ Rank(i)' = Rank(i)
  <2>1. ASSUME NEW i \in Ids, ~(k < i)
        PROVE  {j \in result' : j < i} = {j \in result : j < i}
    BY <1>1, <2>1
  <2> QED
    BY <2>1 DEF Rank
<1> QED
  BY <1>3, <1>4

-----------------------------------------------------------------------------
(***************************************************************************)
(* Each step keeps the invariant.                                          *)
(***************************************************************************)
LEMMA InitPaging == Init => IInv
<1> SUFFICES ASSUME Init PROVE IInv
  OBVIOUS
<1>1. TypeOK
  BY DEF Init, TypeOK, Nowhere
<1> QED
  BY <1>1 DEF Init, IInv, NoWrap, OnePage, NothingSkipped, NothingTwice, Nowhere

LEMMA BeginKeepsPaging ==
  ASSUME IInv, Begin
  PROVE  IInv'
<1>1. TypeOK'
  BY DEF IInv, Begin, TypeOK, Nowhere
<1>2. Offset' = 0
  BY DEF Begin, Offset
<1>3. \A i : Rank(i)' \in Nat
  BY RankFits DEF IInv, Begin, Rank
<1>4. MissingIsAhead'
  BY <1>2, <1>3 DEF MissingIsAhead
<1> QED
  BY <1>1, <1>4 DEF IInv, Begin, NoWrap, OnePage, NothingSkipped, NothingTwice,
     GivenIsBehind, Nowhere

LEMMA ListFailsKeepsPaging ==
  ASSUME IInv, ListFails
  PROVE  IInv'
BY DEF IInv, ListFails, TypeOK, NoWrap, OnePage, NothingSkipped, NothingTwice

LEMMA EnterKeepsPaging ==
  ASSUME IInv, NEW k \in Ids, Enter(k)
  PROVE  IInv'
<1>1. TypeOK'
  BY DEF IInv, Enter, TypeOK
<1>2. NoWrap' /\ OnePage' /\ NothingSkipped' /\ NothingTwice'
  BY DEF IInv, Enter, NoWrap, OnePage, Limit, NothingSkipped, NothingTwice
<1>3. Offset' = Offset
  BY DEF Enter, Offset, Limit
<1>4. \A i \in Ids : /\ Rank(i) <= Rank(i)'
                     /\ Rank(i)' = Rank(i) \/ k < i
                     /\ Rank(i) \in Nat
  BY EnterMoves, RankFits DEF IInv
<1>5. ASSUME phase = "listing" PROVE GivenIsBehind'
  BY <1>3, <1>4, <1>5 DEF IInv, Enter, GivenIsBehind
<1>6. ASSUME phase = "listing" PROVE MissingIsAhead'
  <2> SUFFICES ASSUME NEW i \in steady, listed[i] = 0
               PROVE  Rank(i)' >= Offset \/ \E j \in left : j < i
    BY <1>3 DEF Enter, MissingIsAhead
  <2>1. i \in Ids /\ Rank(i)' \in Nat
    BY EnterMoves DEF IInv, TypeOK
  <2>2. Offset \in Nat
    BY OffsetFits DEF IInv
  <2> QED
    BY <1>4, <1>6, <2>1, <2>2 DEF IInv, MissingIsAhead
<1> QED
  BY <1>1, <1>2, <1>5, <1>6 DEF IInv, Enter

LEMMA LeaveKeepsPaging ==
  ASSUME IInv, NEW k \in Ids, Leave(k)
  PROVE  IInv'
<1>1. TypeOK'
  BY DEF IInv, Leave, TypeOK
<1>2. NoWrap' /\ OnePage' /\ NothingSkipped' /\ NothingTwice'
  BY DEF IInv, Leave, NoWrap, OnePage, Limit, NothingSkipped, NothingTwice
<1>3. Offset' = Offset /\ Offset \in Nat
  BY OffsetFits DEF IInv, Leave, Offset, Limit
<1>4. \A i \in Ids : /\ Rank(i)' <= Rank(i)
                     /\ Rank(i)' = Rank(i) \/ k < i
                     /\ Rank(i)' \in Nat /\ Rank(i) \in Nat
  BY LeaveMoves, RankFits DEF IInv
<1>5. ASSUME phase = "listing" PROVE GivenIsBehind'
  BY <1>3, <1>4, <1>5 DEF IInv, Leave, GivenIsBehind
<1>6. ASSUME phase = "listing" PROVE MissingIsAhead'
  BY <1>3, <1>4, <1>6 DEF IInv, Leave, MissingIsAhead, TypeOK
<1> QED
  BY <1>1, <1>2, <1>5, <1>6 DEF IInv, Leave

LEMMA ListKeepsPaging ==
  ASSUME IInv, List
  PROVE  IInv'
<1> USE DEF List
<1>1. Limit \in Nat /\ Offset \in Nat /\ \A i : Rank(i) \in Nat
  BY LimitFits, OffsetFits, RankFits DEF IInv
<1>2. Limit' = Limit /\ (\A i : Rank(i)' = Rank(i)) /\ result' = result
  BY DEF Limit, Rank
<1>3. \A i \in Ids : listed[i] \in Nat
                     /\ listed'[i] = IF i \in Rows THEN listed[i] + 1 ELSE listed[i]
  BY DEF IInv, TypeOK
<1>4. \A i \in Rows : /\ i \in Ids /\ Rank(i) >= Offset
                      /\ count # NoPaging => Rank(i) < Offset + Limit
  <2>1. count = NoPaging => Offset = 0
    BY DEF IInv, OnePage, Offset
  <2> QED
    BY <1>1, <2>1 DEF Rows, IInv, TypeOK
\* Nothing was listed before that is listed now, unless a row was put in.
<1>5. NothingTwice'
  <2> SUFFICES ASSUME NEW i \in Ids, listed'[i] > 1, \A j \in entered : ~(j < i)
               PROVE  FALSE
    BY DEF NothingTwice
  <2>1. ~(listed[i] > 1)
    BY DEF IInv, NothingTwice
  <2>2. listed[i] > 0 /\ i \in Rows
    BY <1>3, <2>1
  <2>3. Rank(i) < Offset
    BY <2>2 DEF IInv, GivenIsBehind
  <2> QED
    BY <1>1, <1>4, <2>2, <2>3
\* What was missing and is still missing is ahead of the whole page.
<1>6. \A i \in steady : listed'[i] = 0 =>
        Rank(i) >= Offset + Limit \/ \E j \in left : j < i
  <2> SUFFICES ASSUME NEW i \in steady, listed'[i] = 0, \A j \in left : ~(j < i)
               PROVE  Rank(i) >= Offset + Limit
    OBVIOUS
  <2>1. i \in Ids /\ i \in result
    BY DEF IInv, TypeOK
  <2>2. i \notin Rows /\ listed[i] = 0
    BY <1>3, <2>1
  <2>3. Rank(i) >= Offset
    BY <2>2 DEF IInv, MissingIsAhead
  <2> QED
    BY <1>1, <2>1, <2>2, <2>3 DEF Rows
<1>7. listed' \in [Ids -> Nat]
  BY DEF IInv, TypeOK
<1>8. CASE HasNext /\ page' = NextPage /\ UNCHANGED phase
  <2>6. count # NoPaging
    BY <1>8, CountsFit DEF HasNext
  <2>1. page' \in 0 .. Width - 1 /\ NoWrap' /\ Offset' = Offset + Limit
    BY <1>8, <2>6, NextPageFits DEF IInv
  <2>2. TypeOK'
    BY <1>7, <1>8, <2>1 DEF IInv, TypeOK
  <2>3. GivenIsBehind'
    <3> SUFFICES ASSUME NEW i \in Ids, listed'[i] > 0, \A j \in entered : ~(j < i)
                 PROVE  Rank(i) < Offset + Limit
      BY <1>2, <2>1 DEF GivenIsBehind
    <3>1. i \in Rows \/ listed[i] > 0
      BY <1>3
    <3> QED
      BY <1>1, <1>4, <2>6, <3>1 DEF IInv, GivenIsBehind
  <2>4. MissingIsAhead'
    BY <1>2, <1>6, <2>1 DEF MissingIsAhead
  <2>5. NothingSkipped'
    BY <1>8 DEF NothingSkipped
  <2> QED
    BY <1>5, <2>1, <2>2, <2>3, <2>4, <2>5, <2>6 DEF IInv, OnePage
<1>9. CASE ~HasNext /\ phase' = "done" /\ page' = Unset
  <2>1. TypeOK' /\ NoWrap' /\ OnePage'
    BY <1>7, <1>9 DEF IInv, TypeOK, NoWrap, OnePage
  <2>2. NothingSkipped'
    <3> SUFFICES ASSUME count # Unset, NEW i \in steady, listed'[i] = 0
                 PROVE  \E j \in left : j < i
      BY DEF NothingSkipped
    <3>1. i \in result /\ i \in Ids
      BY DEF IInv, TypeOK
    <3>2. count # NoPaging
      BY <1>3, <3>1 DEF Rows
    <3>3. Rank(i) < Offset + Limit
      BY <1>9, <3>1, <3>2, LastPage DEF IInv
    <3> QED
      BY <1>1, <1>6, <3>3
  <2> QED
    BY <1>5, <1>9, <2>1, <2>2 DEF IInv
<1> QED
  BY <1>8, <1>9

(***************************************************************************)
(* The inductive invariant, whatever the table, the counts and the changes *)
(* in between.                                                             *)
(***************************************************************************)
THEOREM PagesKeepPlace == Spec => []IInv
<1>1. Init => IInv
  BY InitPaging
<1>2. IInv /\ [Next]_vars => IInv'
  <2>1. SUFFICES ASSUME IInv, [Next]_vars PROVE IInv'
    OBVIOUS
  <2>2. CASE UNCHANGED vars
    BY <2>1, <2>2 DEF vars, IInv, TypeOK, NoWrap, OnePage, Limit, NothingSkipped,
       NothingTwice, GivenIsBehind, MissingIsAhead, Rank, Offset
  <2>3. CASE Begin \/ List \/ ListFails
    BY <2>1, <2>3, BeginKeepsPaging, ListKeepsPaging, ListFailsKeepsPaging
  <2>4. CASE \E i \in Ids : Enter(i) \/ Leave(i)
    BY <2>1, <2>4, EnterKeepsPaging, LeaveKeepsPaging
  <2> QED
    BY <2>1, <2>2, <2>3, <2>4 DEF Next
<1> QED
  BY <1>1, <1>2, PTL DEF Spec

(***************************************************************************)
(* Find orders by id and cuts with OFFSET: a complete listing has every    *)
(* entity that was there all the time, unless one before it was taken      *)
(* away.  The page that is not full is the last one, for the rows up to    *)
(* any row behind a page fill that page (FullPage).                        *)
(***************************************************************************)
THEOREM ListingIsComplete == Spec => []NothingSkipped
<1>1. IInv => NothingSkipped
  BY DEF IInv
<1> QED
  BY <1>1, PagesKeepPlace, PTL

(***************************************************************************)
(* No entity is listed twice, unless one before it was put in.             *)
(***************************************************************************)
THEOREM ListingRepeatsNothing == Spec => []NothingTwice
<1>1. IInv => NothingTwice
  BY DEF IInv
<1> QED
  BY <1>1, PagesKeepPlace, PTL
==============================================================================
