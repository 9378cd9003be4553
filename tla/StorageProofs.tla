---------------------------- MODULE StorageProofs ----------------------------
(***************************************************************************)
(* Theorems about module MemoryStorage, for every set of runs, step runs,  *)
(* signals, events, keys and callers: its types, its indexes, that every  *)
(* call is a statement of module Tables, and that the reads agree too.     *)
(***************************************************************************)
EXTENDS MemoryStorage, WellFoundedInduction, FiniteSetTheorems, SequenceTheorems, TLAPS

-----------------------------------------------------------------------------
(* The oldest of a set of positions, and the order left after a deletion *)

Less == {w \in Nat \X Nat : w[1] < w[2]}

LEMMA LessIsWellFounded == IsWellFoundedOn(Less, Nat)
BY NatLessThanWellFounded DEF OpToRel, Less

LEMMA MinIsIn ==
  ASSUME NEW S \in SUBSET Nat, S # {}
  PROVE  Min(S) \in S /\ \A y \in S : Min(S) <= y
<1>1. \E m \in S : \A y \in S : ~ (<<y, m>> \in Less)
  BY LessIsWellFounded, WFMin, Zenon
<1>2. ASSUME NEW m \in S, NEW y \in S, ~ (<<y, m>> \in Less)
      PROVE  m <= y
  <2>1. m \in Nat /\ y \in Nat
    OBVIOUS
  <2> QED BY <1>2, <2>1 DEF Less
<1>3. PICK m \in S : \A y \in S : m <= y
  BY <1>1, <1>2
<1> QED BY <1>3 DEF Min

\* A total order of a set, as the set of pairs it relates.
TotalOrder(R, S) ==
  /\ \A i \in S : <<i, i>> \in R
  /\ \A i, j \in S : <<i, j>> \in R /\ <<j, i>> \in R => i = j
  /\ \A i, j, k \in S : <<i, j>> \in R /\ <<j, k>> \in R => <<i, k>> \in R
  /\ \A i, j \in S : <<i, j>> \in R \/ <<j, i>> \in R

RankIn(R, S, i) == Cardinality({j \in S : <<j, i>> \in R})

\* The ranks of the elements are the numbers up to the size of the set, no two have
\* the same, and they grow along the order.
Numbered(R, S) ==
  /\ Cardinality(S) \in Nat
  /\ \A i \in S : RankIn(R, S, i) \in 1..Cardinality(S)
  /\ \A i, j \in S : RankIn(R, S, i) = RankIn(R, S, j) => i = j
  /\ \A i, j \in S : RankIn(R, S, i) <= RankIn(R, S, j) => <<i, j>> \in R
  /\ \A n \in 1..Cardinality(S) : \E i \in S : RankIn(R, S, i) = n

\* A finite set can be numbered in any total order.
LEMMA RankInIsABijection ==
  ASSUME NEW S, IsFiniteSet(S), NEW R, TotalOrder(R, S)
  PROVE  Numbered(R, S)
<1> DEFINE Upto(i) == {j \in S : <<j, i>> \in R}
           f == [i \in S |-> RankIn(R, S, i)]
<1>1. Cardinality(S) \in Nat
  BY FS_CardinalityType, Zenon
<1>2. \A i \in S : /\ Upto(i) \in SUBSET S /\ i \in Upto(i)
                   /\ IsFiniteSet(Upto(i)) /\ Cardinality(Upto(i)) \in Nat
                   /\ Cardinality(Upto(i)) <= Cardinality(S)
                   /\ Cardinality(Upto(i)) # 0
  <2> SUFFICES ASSUME NEW i \in S
               PROVE  /\ Upto(i) \in SUBSET S /\ i \in Upto(i)
                      /\ IsFiniteSet(Upto(i)) /\ Cardinality(Upto(i)) \in Nat
                      /\ Cardinality(Upto(i)) <= Cardinality(S)
                      /\ Cardinality(Upto(i)) # 0
    OBVIOUS
  <2>1. Upto(i) \in SUBSET S /\ i \in Upto(i)
    BY DEF TotalOrder
  <2>2. IsFiniteSet(Upto(i)) /\ Cardinality(Upto(i)) <= Cardinality(S)
    BY <2>1, FS_Subset, Zenon
  <2>3. Cardinality(Upto(i)) \in Nat
    BY <2>2, FS_CardinalityType, Zenon
  <2>4. Cardinality(Upto(i)) # 0
    BY <2>1, <2>2, FS_EmptySet, Zenon
  <2> QED BY <2>1, <2>2, <2>3, <2>4
<1>3. \A i \in S : RankIn(R, S, i) = Cardinality(Upto(i))
  BY DEF RankIn
<1>4. \A i \in S : RankIn(R, S, i) \in 1..Cardinality(S)
  <2> HIDE DEF Upto
  <2> QED BY <1>1, <1>2, <1>3
<1>5. ASSUME NEW i \in S, NEW j \in S, <<i, j>> \in R, i # j
      PROVE  RankIn(R, S, i) < RankIn(R, S, j)
  <2>1. Upto(i) \in SUBSET Upto(j) /\ Upto(i) # Upto(j)
    <3>1. j \in Upto(j) /\ j \notin Upto(i)
      BY <1>5 DEF TotalOrder
    <3>2. \A k \in S : <<k, i>> \in R => <<k, j>> \in R
      BY <1>5 DEF TotalOrder
    <3> QED BY <3>1, <3>2, Zenon
  <2>2. /\ Cardinality(Upto(i)) # Cardinality(Upto(j))
        /\ Cardinality(Upto(i)) <= Cardinality(Upto(j))
    BY <1>2, <2>1, FS_Subset, Zenon
  <2> HIDE DEF Upto
  <2> QED BY <1>2, <1>3, <2>2
<1>6. \A i, j \in S : RankIn(R, S, i) = RankIn(R, S, j) => i = j
  <2> SUFFICES ASSUME NEW i \in S, NEW j \in S, RankIn(R, S, i) = RankIn(R, S, j), i # j
               PROVE  FALSE
    OBVIOUS
  <2>1. <<i, j>> \in R \/ <<j, i>> \in R
    BY DEF TotalOrder
  <2>2. RankIn(R, S, i) < RankIn(R, S, j) \/ RankIn(R, S, j) < RankIn(R, S, i)
    BY <2>1, <1>5
  <2> QED BY <2>2, <1>1, <1>4
<1>7. \A i, j \in S : RankIn(R, S, i) <= RankIn(R, S, j) => <<i, j>> \in R
  <2> SUFFICES ASSUME NEW i \in S, NEW j \in S, RankIn(R, S, i) <= RankIn(R, S, j),
                      <<i, j>> \notin R
               PROVE  FALSE
    OBVIOUS
  <2>1. <<j, i>> \in R /\ i # j
    BY DEF TotalOrder
  <2>2. RankIn(R, S, j) < RankIn(R, S, i)
    BY <2>1, <1>5
  <2> QED BY <2>2, <1>1, <1>4
<1>8. \A n \in 1..Cardinality(S) : \E i \in S : RankIn(R, S, i) = n
  <2>1. f \in Injection(S, 1..Cardinality(S))
    BY <1>4, <1>6 DEF Injection, IsInjective
  <2>2. IsFiniteSet(1..Cardinality(S)) /\ Cardinality(1..Cardinality(S)) = Cardinality(S)
    BY <1>1, FS_Interval
  <2>3. f \in Surjection(S, 1..Cardinality(S))
    BY <2>1, <2>2, FS_Injection
  <2> QED BY <2>3 DEF Surjection
<1> QED BY <1>1, <1>4, <1>6, <1>7, <1>8 DEF Numbered

\* The n-th smallest element of a finite set of numbers.
LEMMA RankIsABijection ==
  ASSUME NEW N \in Nat, NEW kept \in SUBSET (1..N)
  PROVE  /\ Cardinality(kept) \in Nat
         /\ \A i \in kept : Rank(kept, i) \in 1..Cardinality(kept)
         /\ \A i, j \in kept : Rank(kept, i) = Rank(kept, j) => i = j
         /\ \A n \in 1..Cardinality(kept) : \E i \in kept : Rank(kept, i) = n
<1> DEFINE R == {w \in kept \X kept : w[1] <= w[2]}
<1>1. IsFiniteSet(kept)
  <2>1. IsFiniteSet(1..N)
    BY FS_Interval
  <2> QED BY <2>1, FS_Subset, Zenon
<1>2. TotalOrder(R, kept)
  BY DEF TotalOrder
<1>3. \A i \in kept : RankIn(R, kept, i) = Rank(kept, i)
  <2>1. \A i \in kept : {j \in kept : <<j, i>> \in R} = {j \in kept : j <= i}
    OBVIOUS
  <2> QED BY <2>1 DEF RankIn, Rank
<1> HIDE DEF R
<1>4. Numbered(R, kept)
  BY <1>1, <1>2, RankInIsABijection, Zenon
<1> QED BY <1>3, <1>4 DEF Numbered

\* Keep takes every position there is to keep, and none twice.
LEMMA KeptRows ==
  ASSUME NEW T, NEW list \in Seq(T), NEW kept \in SUBSET DOMAIN list
  PROVE  /\ Keep(list, kept) \in Seq(T)
         /\ \E at \in Bijection(DOMAIN Keep(list, kept), kept) :
              \A n \in DOMAIN Keep(list, kept) : Keep(list, kept)[n] = list[at[n]]
<1> DEFINE nth(n) == CHOOSE i \in kept : Rank(kept, i) = n
           size == Cardinality(kept)
           left == [n \in 1..size |-> list[nth(n)]]
           at == [n \in 1..size |-> nth(n)]
<1>1. CASE kept = DOMAIN list
  <2> DEFINE same == [n \in DOMAIN list |-> n]
  <2>1. Keep(list, kept) = list
    BY <1>1 DEF Keep
  <2>2. same \in Bijection(DOMAIN list, kept) /\ \A n \in DOMAIN list : list[n] = list[same[n]]
    BY <1>1 DEF Bijection, Injection, Surjection, IsInjective
  <2> QED BY <2>1, <2>2
<1>2. CASE kept # DOMAIN list
  <2>1. Keep(list, kept) = left
    BY <1>2 DEF Keep
  <2>2. /\ Len(list) \in Nat /\ kept \in SUBSET (1..Len(list))
        /\ \A i \in DOMAIN list : list[i] \in T
    OBVIOUS
  <2>3. /\ size \in Nat
        /\ \A i \in kept : Rank(kept, i) \in 1..size
        /\ \A i, j \in kept : Rank(kept, i) = Rank(kept, j) => i = j
        /\ \A n \in 1..size : \E i \in kept : Rank(kept, i) = n
    BY <2>2, RankIsABijection, Zenon
  <2>4. \A n \in 1..size : nth(n) \in kept /\ Rank(kept, nth(n)) = n
    BY <2>3, Zenon
  <2>5. \A i \in kept : nth(Rank(kept, i)) = i
    BY <2>3, <2>4, Zenon
  <2> HIDE DEF nth, size
  <2>6. left \in Seq(T)
    <3>1. \A n \in 1..size : list[nth(n)] \in T
      BY <2>2, <2>4
    <3> QED BY <2>3, <3>1
  <2>7. at \in [1..size -> kept]
    BY <2>4
  <2>8. at \in Injection(1..size, kept)
    <3>1. \A n, m \in 1..size : at[n] = at[m] => n = m
      BY <2>4
    <3> QED BY <2>7, <3>1 DEF Injection, IsInjective
  <2>9. at \in Surjection(1..size, kept)
    <3>1. \A i \in kept : \E n \in 1..size : at[n] = i
      BY <2>3, <2>5
    <3> QED BY <2>7, <3>1 DEF Surjection
  <2>10. at \in Bijection(1..size, kept)
    BY <2>8, <2>9 DEF Bijection
  <2>11. DOMAIN left = 1..size /\ \A n \in 1..size : left[n] = list[at[n]]
    OBVIOUS
  <2> HIDE DEF left, at
  <2> QED BY <2>1, <2>6, <2>10, <2>11, Zenon
<1> QED BY <1>1, <1>2

\* What is left when the runs of some ids are deleted: rows that were there, of other
\* ids, none of them twice, and all of them.
LEMMA RunsLeft ==
  ASSUME NEW T, runs \in Seq(T), NEW victims
  PROVE  LET left == RunsWithout(victims)
         IN  /\ left \in Seq(T)
             /\ \A n \in DOMAIN left : \E i \in DOMAIN runs :
                  left[n] = runs[i] /\ runs[i].id \notin victims
             /\ (\A i, j \in DOMAIN runs : runs[i].id = runs[j].id => i = j) =>
                  \A n, m \in DOMAIN left : left[n].id = left[m].id => n = m
             /\ \A i \in DOMAIN runs : runs[i].id \notin victims =>
                  \E n \in DOMAIN left : left[n] = runs[i]
<1> DEFINE kept == {i \in DOMAIN runs : runs[i].id \notin victims}
           left == Keep(runs, kept)
<1>1. RunsWithout(victims) = left
  BY DEF RunsWithout
<1>2. /\ left \in Seq(T)
      /\ \E at \in Bijection(DOMAIN left, kept) : \A n \in DOMAIN left : left[n] = runs[at[n]]
  <2>1. kept \in SUBSET DOMAIN runs
    OBVIOUS
  <2> HIDE DEF kept
  <2> QED BY <2>1, KeptRows, Zenon
<1> HIDE DEF left
<1>3. PICK at \in Bijection(DOMAIN left, kept) : \A n \in DOMAIN left : left[n] = runs[at[n]]
  BY <1>2
<1>4. /\ \A n \in DOMAIN left : at[n] \in DOMAIN runs /\ runs[at[n]].id \notin victims
      /\ \A n, m \in DOMAIN left : at[n] = at[m] => n = m
      /\ \A i \in kept : \E n \in DOMAIN left : at[n] = i
  BY <1>3 DEF Bijection, Injection, Surjection, IsInjective
<1>5. \A n \in DOMAIN left : \E i \in DOMAIN runs : left[n] = runs[i] /\ runs[i].id \notin victims
  BY <1>3, <1>4
<1>6. ASSUME \A i, j \in DOMAIN runs : runs[i].id = runs[j].id => i = j
      PROVE  \A n, m \in DOMAIN left : left[n].id = left[m].id => n = m
  BY <1>3, <1>4, <1>6
<1>7. \A i \in DOMAIN runs : runs[i].id \notin victims => \E n \in DOMAIN left : left[n] = runs[i]
  BY <1>3, <1>4
<1> QED BY <1>1, <1>2, <1>5, <1>6, <1>7

-----------------------------------------------------------------------------
(* A Map of rows and the lists of their ids, run by run *)

\* ListsAgree, where `existing` are the runs there are.
Agree(map, lists, existing) ==
  /\ \A r \in RunIds : /\ \A i, j \in DOMAIN lists[r] : lists[r][i] = lists[r][j] => i = j
                       /\ lists[r] # << >> => r \in existing
                       /\ \A i \in DOMAIN lists[r] :
                            map[lists[r][i]] # None /\ map[lists[r][i]].runId = r
  /\ \A x \in DOMAIN map : map[x] # None =>
       /\ map[x].id = x
       /\ map[x].runId \in RunIds
       /\ \E i \in DOMAIN lists[map[x].runId] : lists[map[x].runId][i] = x

Existing == {r \in RunIds : HasRun(r)}

\* The lists do not care which runs exist, as long as theirs do.
LEMMA AgreeWithMore ==
  ASSUME NEW map, NEW lists, NEW existing, NEW more, Agree(map, lists, existing),
         existing \subseteq more
  PROVE  Agree(map, lists, more)
BY DEF Agree

\* A new row, appended to the list of its run.
LEMMA AgreeAfterAppend ==
  ASSUME NEW Ids, NEW map, NEW lists, NEW existing, Agree(map, lists, existing),
         DOMAIN map = Ids, lists \in [RunIds -> Seq(Ids)],
         NEW id \in Ids, map[id] = None,
         NEW row, row # None, row.id = id, row.runId \in RunIds, row.runId \in existing
  PROVE  Agree([map EXCEPT ![id] = row], [lists EXCEPT ![row.runId] = Append(@, id)], existing)
<1> DEFINE map2 == [map EXCEPT ![id] = row]
           lists2 == [lists EXCEPT ![row.runId] = Append(@, id)]
<1>1. /\ DOMAIN map2 = Ids
      /\ map2[id] = row
      /\ \A x \in Ids \ {id} : map2[x] = map[x]
  OBVIOUS
<1>2. \A r \in RunIds : r # row.runId => lists2[r] = lists[r]
  OBVIOUS
<1>3. /\ Len(lists[row.runId]) \in Nat
      /\ DOMAIN lists[row.runId] = 1..Len(lists[row.runId])
      /\ DOMAIN lists2[row.runId] = 1..(Len(lists[row.runId]) + 1)
      /\ lists2[row.runId][Len(lists[row.runId]) + 1] = id
      /\ \A i \in 1..Len(lists[row.runId]) : lists2[row.runId][i] = lists[row.runId][i]
  OBVIOUS
<1>4. \A r \in RunIds : \A i \in DOMAIN lists[r] : lists[r][i] \in Ids /\ lists[r][i] # id
  BY DEF Agree
<1> HIDE DEF map2, lists2
<1>5. ASSUME NEW r \in RunIds
      PROVE  /\ \A i, j \in DOMAIN lists2[r] : lists2[r][i] = lists2[r][j] => i = j
             /\ lists2[r] # << >> => r \in existing
             /\ \A i \in DOMAIN lists2[r] :
                  map2[lists2[r][i]] # None /\ map2[lists2[r][i]].runId = r
  <2>1. CASE r # row.runId
    BY <2>1, <1>1, <1>2, <1>4 DEF Agree
  <2>2. CASE r = row.runId
    <3>1. \A i \in DOMAIN lists2[r] : i \in 1..Len(lists[r]) \/ i = Len(lists[r]) + 1
      BY <2>2, <1>3
    <3> DEFINE last == Len(lists[r]) + 1
    <3>2. /\ lists2[r][last] = id
          /\ \A i \in 1..Len(lists[r]) :
               lists2[r][i] = lists[r][i] /\ lists[r][i] \in Ids \ {id} /\ i \in DOMAIN lists[r]
      BY <2>2, <1>3, <1>4
    <3> HIDE DEF last
    <3>3. \A i, j \in DOMAIN lists2[r] : lists2[r][i] = lists2[r][j] => i = j
      BY <3>1, <3>2 DEF Agree, last
    <3>4. \A i \in DOMAIN lists2[r] : map2[lists2[r][i]] # None /\ map2[lists2[r][i]].runId = r
      BY <2>2, <3>1, <3>2, <1>1 DEF Agree, last
    <3> QED BY <2>2, <3>3, <3>4
  <2> QED BY <2>1, <2>2
<1>6. ASSUME NEW x \in DOMAIN map2, map2[x] # None
      PROVE  /\ map2[x].id = x
             /\ map2[x].runId \in RunIds
             /\ \E i \in DOMAIN lists2[map2[x].runId] : lists2[map2[x].runId][i] = x
  <2>1. CASE x = id
    BY <2>1, <1>1, <1>3
  <2>2. CASE x # id
    <3>1. x \in DOMAIN map /\ map2[x] = map[x]
      BY <2>2, <1>1
    <3> DEFINE r == map[x].runId
    <3>2. r \in RunIds /\ map[x].id = x /\ \E i \in DOMAIN lists[r] : lists[r][i] = x
      BY <3>1, <1>6 DEF Agree
    <3> HIDE DEF r
    <3>3. PICK i \in DOMAIN lists[r] : lists[r][i] = x
      BY <3>2
    <3>4. i \in DOMAIN lists2[r] /\ lists2[r][i] = x
      <4>1. CASE r # row.runId
        BY <4>1, <3>2, <3>3, <1>2
      <4>2. CASE r = row.runId
        BY <4>2, <3>3, <1>3
      <4> QED BY <4>1, <4>2
    <3>5. map2[x].runId = r
      BY <3>1 DEF r
    <3> QED BY <3>1, <3>2, <3>4, <3>5
  <2> QED BY <2>1, <2>2
<1> QED BY <1>5, <1>6 DEF Agree, map2, lists2

\* Rows that change but keep their id and their run.
LEMMA AgreeAfterPatch ==
  ASSUME NEW map, NEW map2, NEW lists, NEW existing, Agree(map, lists, existing),
         DOMAIN map2 = DOMAIN map,
         \A r \in RunIds : \A i \in DOMAIN lists[r] : lists[r][i] \in DOMAIN map,
         \A x \in DOMAIN map : /\ map2[x] = None <=> map[x] = None
                              /\ map2[x].id = map[x].id /\ map2[x].runId = map[x].runId
  PROVE  Agree(map2, lists, existing)
BY DEF Agree

\* The runs of some ids are deleted, and with each the rows its list names.
Without(map, gone) == [x \in DOMAIN map |-> IF x \in gone THEN None ELSE map[x]]

LEMMA AgreeAfterDelete ==
  ASSUME NEW Ids, NEW map, NEW lists, NEW existing, Agree(map, lists, existing),
         DOMAIN map = Ids, lists \in [RunIds -> Seq(Ids)], NEW victims
  PROVE  /\ \A x \in Ids : map[x] # None =>
              (x \in Named(lists, victims) <=> map[x].runId \in victims)
         /\ Agree(Without(map, Named(lists, victims)), Emptied(lists, victims),
                  existing \ victims)
<1> DEFINE gone == Named(lists, victims)
           map2 == Without(map, gone)
           lists2 == Emptied(lists, victims)
<1>1. \A x : x \in gone <=> \E r \in RunIds \cap victims : \E i \in DOMAIN lists[r] : lists[r][i] = x
  BY DEF Named, Range
<1>2. \A r \in RunIds : lists2[r] = IF r \in victims THEN << >> ELSE lists[r]
  BY DEF Emptied
<1>3. DOMAIN map2 = Ids /\ \A x \in Ids : map2[x] = IF x \in gone THEN None ELSE map[x]
  BY DEF Without
<1>4. \A r \in RunIds : \A i \in DOMAIN lists[r] : lists[r][i] \in Ids
  OBVIOUS
<1> HIDE DEF gone, map2, lists2
<1>5. \A x \in Ids : map[x] # None => (x \in gone <=> map[x].runId \in victims)
  BY <1>1 DEF Agree
<1>6. ASSUME NEW r \in RunIds
      PROVE  /\ \A i, j \in DOMAIN lists2[r] : lists2[r][i] = lists2[r][j] => i = j
             /\ lists2[r] # << >> => r \in existing \ victims
             /\ \A i \in DOMAIN lists2[r] :
                  map2[lists2[r][i]] # None /\ map2[lists2[r][i]].runId = r
  <2>1. CASE r \in victims
    BY <2>1, <1>2
  <2>2. CASE r \notin victims
    BY <2>2, <1>2, <1>3, <1>4, <1>5 DEF Agree
  <2> QED BY <2>1, <2>2
<1>7. ASSUME NEW x \in DOMAIN map2, map2[x] # None
      PROVE  /\ map2[x].id = x
             /\ map2[x].runId \in RunIds
             /\ \E i \in DOMAIN lists2[map2[x].runId] : lists2[map2[x].runId][i] = x
  <2>1. x \in Ids /\ map2[x] = map[x] /\ map[x] # None /\ x \notin gone
    BY <1>3, <1>7
  <2>2. map[x].id = x /\ map[x].runId \in RunIds /\ map[x].runId \notin victims
    BY <2>1, <1>5 DEF Agree
  <2>3. \E i \in DOMAIN lists[map[x].runId] : lists[map[x].runId][i] = x
    BY <2>1 DEF Agree
  <2>4. lists2[map[x].runId] = lists[map[x].runId]
    BY <2>2, <1>2
  <2> QED BY <2>1, <2>2, <2>3, <2>4
<1>8. Agree(map2, lists2, existing \ victims)
  BY <1>6, <1>7 DEF Agree
<1> QED BY <1>5, <1>8 DEF gone, map2, lists2
-----------------------------------------------------------------------------
(* Rows under a patch *)

LEMMA PatchedRun ==
  ASSUME NEW row \in RunRow, NEW patch, IsPatch(patch, RunColumns)
  PROVE  /\ Merge(row, patch) \in RunRow
         /\ Merge(row, patch).id = row.id
         /\ Merge(row, patch).leaseOwner = row.leaseOwner
         /\ Merge(row, patch).leaseExpiresAt = row.leaseExpiresAt
BY DEF Merge, RunRow, IsPatch, RunColumns

LEMMA PatchedStepRun ==
  ASSUME NEW row \in StepRow, NEW patch, IsPatch(patch, StepColumns)
  PROVE  /\ Merge(row, patch) \in StepRow
         /\ Merge(row, patch).id = row.id
         /\ Merge(row, patch).runId = row.runId
         /\ Merge(row, patch).key = IF "key" \in DOMAIN patch THEN patch.key ELSE row.key
BY DEF Merge, StepRow, IsPatch, StepColumns

\* claimDue and releaseLease.
LEMMA LeasedRun ==
  ASSUME NEW row \in RunRow, NEW owner \in Owners \cup {None}, NEW ends \in Nat \cup {None},
         NEW lease, lease = [leaseOwner |-> owner, leaseExpiresAt |-> ends]
  PROVE  /\ Merge(row, lease) \in RunRow
         /\ Merge(row, lease).id = row.id
         /\ Merge(row, lease).leaseOwner = owner
         /\ Merge(row, lease).leaseExpiresAt = ends
BY DEF Merge, RunRow

\* renewLease.
LEMMA RenewedRun ==
  ASSUME NEW row \in RunRow, NEW ends \in Nat,
         NEW lease, lease = [leaseExpiresAt |-> ends]
  PROVE  /\ Merge(row, lease) \in RunRow
         /\ Merge(row, lease).id = row.id
         /\ Merge(row, lease).leaseOwner = row.leaseOwner
         /\ Merge(row, lease).leaseExpiresAt = ends
BY DEF Merge, RunRow

-----------------------------------------------------------------------------
(* The invariant *)

\* No step run has a key that another may be created with or patched to: that is
\* why a key that moves in the index is not in use.
KeysAreOwn == \A x \in StepRunIds : stepRuns[x] # None => stepRuns[x].key \in KeysOf(x)

StorageInv ==
  /\ TypeOK
  /\ \A i, j \in DOMAIN runs : runs[i].id = runs[j].id => i = j
  /\ Agree(stepRuns, stepRunsByRun, Existing)
  /\ Agree(signals, signalsByRun, Existing)
  /\ Agree(events, eventsByRun, Existing)
  /\ KeyIndexAgrees
  /\ SignalsInOrder
  /\ KeysAreOwn

LEMMA AgreeIsListsAgree ==
  ASSUME NEW map, NEW lists, Agree(map, lists, Existing)
  PROVE  ListsAgree(map, lists)
<1>1. ASSUME NEW r \in RunIds
      PROVE  /\ IsInjective(lists[r])
             /\ lists[r] # << >> => HasRun(r)
             /\ \A x \in Range(lists[r]) : map[x] # None /\ map[x].runId = r
  BY DEF Agree, Existing, IsInjective, Range
<1>2. ASSUME NEW x \in DOMAIN map, map[x] # None
      PROVE  map[x].id = x /\ map[x].runId \in RunIds /\ x \in Range(lists[map[x].runId])
  BY <1>2 DEF Agree, Range
<1> QED BY <1>1, <1>2 DEF ListsAgree

LEMMA StorageInvIsEnough == StorageInv => IndexesAgree
BY AgreeIsListsAgree DEF StorageInv, IndexesAgree

LEMMA InitiallyAgreed == Init => StorageInv
<1> SUFFICES ASSUME Init PROVE StorageInv
  OBVIOUS
<1> USE StorageAssumption DEF Init
<1>1. TypeOK
  BY DEF TypeOK
<1>2. /\ Agree(stepRuns, stepRunsByRun, Existing)
      /\ Agree(signals, signalsByRun, Existing)
      /\ Agree(events, eventsByRun, Existing)
  BY DEF Agree
<1>3. KeyIndexAgrees /\ SignalsInOrder /\ KeysAreOwn
  BY DEF KeyIndexAgrees, SignalsInOrder, KeysAreOwn
<1> QED BY <1>1, <1>2, <1>3 DEF StorageInv

-----------------------------------------------------------------------------
(* The run store *)

\* Whatever a call does to the runs, as long as no run vanishes.
LEMMA OnlyRuns ==
  ASSUME StorageInv, UNCHANGED <<stepVars, signalVars, eventVars>>,
         runs' \in Seq(RunRow),
         \A i \in DOMAIN runs' : runs'[i].leaseOwner = None <=> runs'[i].leaseExpiresAt = None,
         \A i, j \in DOMAIN runs' : runs'[i].id = runs'[j].id => i = j,
         \A i \in DOMAIN runs : \E j \in DOMAIN runs' : runs'[j].id = runs[i].id,
         reply' \in {"ok", "no", "conflict"}
  PROVE  StorageInv'
<1> USE DEF stepVars, signalVars, eventVars
<1>1. TypeOK'
  BY DEF StorageInv, TypeOK
<1>2. Existing \subseteq Existing'
  BY DEF Existing, HasRun
<1>3. /\ Agree(stepRuns', stepRunsByRun', Existing')
      /\ Agree(signals', signalsByRun', Existing')
      /\ Agree(events', eventsByRun', Existing')
  BY <1>2, AgreeWithMore DEF StorageInv
<1>4. (KeyIndexAgrees /\ SignalsInOrder /\ KeysAreOwn)'
  BY DEF StorageInv, KeyIndexAgrees, SignalsInOrder, KeysAreOwn
<1> QED BY <1>1, <1>3, <1>4 DEF StorageInv

\* A call that writes columns of runs that are there, and neither an id nor half a lease.
RowOK(old, new) ==
  /\ new \in RunRow
  /\ new.id = old.id
  /\ new.leaseOwner = None <=> new.leaseExpiresAt = None

LEMMA SameRuns ==
  ASSUME StorageInv, UNCHANGED <<stepVars, signalVars, eventVars>>,
         NEW f, runs' = f, f \in [DOMAIN runs -> RunRow],
         \A i \in DOMAIN runs : RowOK(runs[i], f[i]),
         reply' \in {"ok", "no", "conflict"}
  PROVE  StorageInv'
<1>1. runs \in Seq(RunRow)
  BY DEF StorageInv, TypeOK
<1>2. Len(runs) \in Nat /\ DOMAIN runs = 1..Len(runs)
  BY <1>1
<1>3. runs' \in Seq(RunRow)
  BY <1>2
<1>4. /\ \A i \in DOMAIN runs' : runs'[i].leaseOwner = None <=> runs'[i].leaseExpiresAt = None
      /\ \A i, j \in DOMAIN runs' : runs'[i].id = runs'[j].id => i = j
      /\ \A i \in DOMAIN runs : \E j \in DOMAIN runs' : runs'[j].id = runs[i].id
  BY DEF StorageInv, RowOK
<1> QED BY <1>3, <1>4, OnlyRuns

LEMMA RowsAreOK == ASSUME StorageInv PROVE \A i \in DOMAIN runs : RowOK(runs[i], runs[i])
BY DEF StorageInv, TypeOK, RowOK

\* A call that is refused, or finds nothing.
LEMMA AnswerKeeps ==
  ASSUME StorageInv, NEW what \in {"ok", "no", "conflict"}, Answer(what)
  PROVE  StorageInv'
<1>1. runs' = runs /\ UNCHANGED <<stepVars, signalVars, eventVars>> /\ reply' = what
  BY DEF Answer
<1>2. runs \in [DOMAIN runs -> RunRow]
  BY DEF StorageInv, TypeOK
<1> QED BY <1>1, <1>2, RowsAreOK, SameRuns

LEMMA CreateRunKeeps ==
  ASSUME StorageInv, NEW run \in NewRuns, CreateRun(run)
  PROVE  StorageInv'
<1>1. CASE HasRun(run.id)
  BY <1>1, AnswerKeeps DEF CreateRun
<1>2. CASE ~HasRun(run.id)
  <2>1. /\ runs' = Append(runs, run) /\ reply' = "ok"
        /\ UNCHANGED <<stepVars, signalVars, eventVars>>
    BY <1>2 DEF CreateRun
  <2>2. run \in RunRow /\ run.leaseOwner = None /\ run.leaseExpiresAt = None
    BY StorageAssumption
  <2>3. runs \in Seq(RunRow)
    BY DEF StorageInv, TypeOK
  <2>4. /\ Len(runs) \in Nat /\ DOMAIN runs = 1..Len(runs)
        /\ runs' \in Seq(RunRow)
        /\ DOMAIN runs' = 1..(Len(runs) + 1)
        /\ runs'[Len(runs) + 1] = run
        /\ \A i \in DOMAIN runs : i \in DOMAIN runs' /\ runs'[i] = runs[i]
    BY <2>1, <2>2, <2>3
  <2>5. \A i \in DOMAIN runs' : i \in DOMAIN runs \/ i = Len(runs) + 1
    BY <2>4
  <2>6. \A i \in DOMAIN runs : runs[i].id # run.id
    BY <1>2 DEF HasRun
  <2>7. /\ \A i \in DOMAIN runs : runs[i].leaseOwner = None <=> runs[i].leaseExpiresAt = None
        /\ \A i, j \in DOMAIN runs : runs[i].id = runs[j].id => i = j
    BY DEF StorageInv, TypeOK
  <2>8. \A i \in DOMAIN runs' : runs'[i].leaseOwner = None <=> runs'[i].leaseExpiresAt = None
    BY <2>2, <2>4, <2>5, <2>7
  <2>9. \A i, j \in DOMAIN runs' : runs'[i].id = runs'[j].id => i = j
    BY <2>4, <2>5, <2>6, <2>7
  <2> QED BY <2>1, <2>4, <2>8, <2>9, OnlyRuns
<1> QED BY <1>1, <1>2

LEMMA UpdateRunKeeps ==
  ASSUME StorageInv, NEW id \in RunIds, NEW patch \in RunPatches[id], UpdateRun(id, patch)
  PROVE  StorageInv'
<1> DEFINE f == [i \in DOMAIN runs |-> IF runs[i].id = id THEN Merge(runs[i], patch) ELSE runs[i]]
<1>1. IsPatch(patch, RunColumns)
  BY StorageAssumption
<1>2. ASSUME NEW i \in DOMAIN runs
      PROVE  RowOK(runs[i], Merge(runs[i], patch))
  BY <1>1, RowsAreOK, PatchedRun DEF RowOK
<1>3. /\ f \in [DOMAIN runs -> RunRow]
      /\ \A i \in DOMAIN runs : RowOK(runs[i], f[i])
  BY <1>2, RowsAreOK DEF RowOK
<1>4. /\ runs' = f /\ reply' = "ok"
      /\ UNCHANGED <<stepVars, signalVars, eventVars>>
  BY DEF UpdateRun, SetRow
<1> HIDE DEF f
<1> QED BY <1>3, <1>4, SameRuns

LEMMA ClaimDueKeeps ==
  ASSUME StorageInv, NEW owner \in Owners, NEW at \in Times, NEW limit \in Limits,
         ClaimDue(owner, at, limit)
  PROVE  StorageInv'
<1> DEFINE lease == [leaseOwner |-> owner, leaseExpiresAt |-> at + LeaseMs]
           due == Sliced({i \in DOMAIN runs : Due(runs[i], at)}, limit)
           f == [i \in DOMAIN runs |->
                   IF runs[i].id \in due THEN Merge(runs[i], lease) ELSE runs[i]]
<1>1. /\ at + LeaseMs \in Nat /\ at + LeaseMs # None
      /\ owner \in Owners /\ owner # None
  BY StorageAssumption
<1>2. ASSUME NEW i \in DOMAIN runs
      PROVE  RowOK(runs[i], Merge(runs[i], lease))
  <2>1. runs[i] \in RunRow
    BY RowsAreOK DEF RowOK
  <2> QED BY <1>1, <2>1, LeasedRun DEF RowOK
<1>3. /\ runs' = f /\ reply' \in {"ok", "no"}
      /\ UNCHANGED <<stepVars, signalVars, eventVars>>
  BY DEF ClaimDue
<1> HIDE DEF due, lease
<1>4. /\ f \in [DOMAIN runs -> RunRow]
      /\ \A i \in DOMAIN runs : RowOK(runs[i], f[i])
  BY <1>2, RowsAreOK DEF RowOK
<1> HIDE DEF f
<1> QED BY <1>3, <1>4, SameRuns

LEMMA RenewLeaseKeeps ==
  ASSUME StorageInv, NEW id \in RunIds, NEW owner \in Owners, NEW at \in Times,
         RenewLease(id, owner, at)
  PROVE  StorageInv'
<1>1. CASE ~Holds(id, owner)
  BY <1>1, AnswerKeeps DEF RenewLease
<1>2. CASE Holds(id, owner)
  <2> DEFINE ends == [leaseExpiresAt |-> at + LeaseMs]
             f == [i \in DOMAIN runs |-> IF runs[i].id = id THEN Merge(runs[i], ends) ELSE runs[i]]
  <2>1. at + LeaseMs \in Nat /\ at + LeaseMs # None /\ owner # None
    BY StorageAssumption
  <2>2. \A i, j \in DOMAIN runs : runs[i].id = runs[j].id => i = j
    BY DEF StorageInv
  <2>3. ASSUME NEW i \in DOMAIN runs, runs[i].id = id
        PROVE  RowOK(runs[i], Merge(runs[i], ends))
    <3>1. runs[i].leaseOwner = owner
      BY <1>2, <2>2, <2>3 DEF Holds
    <3>2. runs[i] \in RunRow
      BY RowsAreOK DEF RowOK
    <3> QED BY <2>1, <3>1, <3>2, RenewedRun DEF RowOK
  <2>4. /\ runs' = f /\ reply' = "ok"
        /\ UNCHANGED <<stepVars, signalVars, eventVars>>
    BY <1>2 DEF RenewLease, SetRow
  <2> HIDE DEF ends
  <2>5. /\ f \in [DOMAIN runs -> RunRow]
        /\ \A i \in DOMAIN runs : RowOK(runs[i], f[i])
    BY <2>3, RowsAreOK DEF RowOK
  <2> HIDE DEF f
  <2> QED BY <2>4, <2>5, SameRuns
<1> QED BY <1>1, <1>2

LEMMA ReleaseLeaseKeeps ==
  ASSUME StorageInv, NEW id \in RunIds, NEW owner \in Owners, ReleaseLease(id, owner)
  PROVE  StorageInv'
<1>1. CASE ~Holds(id, owner)
  BY <1>1, AnswerKeeps DEF ReleaseLease
<1>2. CASE Holds(id, owner)
  <2> DEFINE none == [leaseOwner |-> None, leaseExpiresAt |-> None]
             f == [i \in DOMAIN runs |-> IF runs[i].id = id THEN Merge(runs[i], none) ELSE runs[i]]
  <2>1. ASSUME NEW i \in DOMAIN runs
        PROVE  RowOK(runs[i], Merge(runs[i], none))
    <3>1. runs[i] \in RunRow
      BY RowsAreOK DEF RowOK
    <3> QED BY <3>1, LeasedRun DEF RowOK
  <2>2. /\ runs' = f /\ reply' = "ok"
        /\ UNCHANGED <<stepVars, signalVars, eventVars>>
    BY <1>2 DEF ReleaseLease, SetRow
  <2> HIDE DEF none
  <2>3. /\ f \in [DOMAIN runs -> RunRow]
        /\ \A i \in DOMAIN runs : RowOK(runs[i], f[i])
    BY <2>1, RowsAreOK DEF RowOK
  <2> HIDE DEF f
  <2> QED BY <2>2, <2>3, SameRuns
<1> QED BY <1>1, <1>2

\* One run of several goes, with the rows, keys, lists and watermark that are its own.
LEMMA DeleteTerminalBeforeKeeps ==
  ASSUME StorageInv, NEW before \in Times, NEW limit \in Limits,
         DeleteTerminalBefore(before, limit)
  PROVE  StorageInv'
<1> DEFINE victims == Sliced({i \in DOMAIN runs : /\ IsTerminalRunStatus(runs[i].status)
                                                /\ runs[i].completedAt # None
                                                /\ runs[i].completedAt < before}, limit)
           steps == Named(stepRunsByRun, victims)
           sent  == Named(signalsByRun, victims)
           log   == Named(eventsByRun, victims)
<1>1. /\ runs' = RunsWithout(victims)
      /\ stepRunByKey' = KeysWithout(steps)
      /\ stepRuns' = [x \in StepRunIds |-> IF x \in steps THEN None ELSE stepRuns[x]]
      /\ signals' = [s \in SignalIds |-> IF s \in sent THEN None ELSE signals[s]]
      /\ events' = [e \in EventIds |-> IF e \in log THEN None ELSE events[e]]
      /\ stepRunsByRun' = Emptied(stepRunsByRun, victims)
      /\ signalsByRun' = Emptied(signalsByRun, victims)
      /\ eventsByRun' = Emptied(eventsByRun, victims)
      /\ signalWatermark' = [r \in RunIds |-> IF r \in victims THEN 0 ELSE signalWatermark[r]]
      /\ reply' \in {"ok", "no"}
      /\ signalSeq' = signalSeq
  BY DEF DeleteTerminalBefore
<1> HIDE DEF victims
<1>2. TypeOK
  BY DEF StorageInv
<1>3. /\ runs' \in Seq(RunRow)
      /\ \A n \in DOMAIN runs' : \E i \in DOMAIN runs :
           runs'[n] = runs[i] /\ runs[i].id \notin victims
      /\ \A n, m \in DOMAIN runs' : runs'[n].id = runs'[m].id => n = m
      /\ \A i \in DOMAIN runs : runs[i].id \notin victims => \E n \in DOMAIN runs' : runs'[n] = runs[i]
  BY <1>1, <1>2, RunsLeft DEF StorageInv, TypeOK
<1>4. Existing \ victims \subseteq Existing'
  BY <1>3 DEF Existing, HasRun
<1>5. /\ stepRuns' = Without(stepRuns, steps)
      /\ signals' = Without(signals, sent)
      /\ events' = Without(events, log)
  BY <1>1, <1>2 DEF Without, TypeOK
<1>6. /\ DOMAIN stepRuns = StepRunIds /\ stepRunsByRun \in [RunIds -> Seq(StepRunIds)]
      /\ DOMAIN signals = SignalIds /\ signalsByRun \in [RunIds -> Seq(SignalIds)]
      /\ DOMAIN events = EventIds /\ eventsByRun \in [RunIds -> Seq(EventIds)]
  BY <1>2 DEF TypeOK
<1>7. /\ Agree(stepRuns, stepRunsByRun, Existing)
      /\ Agree(signals, signalsByRun, Existing)
      /\ Agree(events, eventsByRun, Existing)
  BY DEF StorageInv
<1>8. /\ Agree(stepRuns', stepRunsByRun', Existing \ victims)
      /\ \A x \in StepRunIds : stepRuns[x] # None =>
           (x \in steps <=> stepRuns[x].runId \in victims)
  <2>1. /\ Agree(Without(stepRuns, steps), Emptied(stepRunsByRun, victims), Existing \ victims)
        /\ \A x \in StepRunIds : stepRuns[x] # None =>
             (x \in steps <=> stepRuns[x].runId \in victims)
    BY <1>6, <1>7, AgreeAfterDelete, Zenon
  <2> QED BY <2>1, <1>1, <1>5, Zenon
<1>9. /\ Agree(signals', signalsByRun', Existing \ victims)
      /\ \A s \in SignalIds : signals[s] # None =>
           (s \in sent <=> signals[s].runId \in victims)
  <2>1. /\ Agree(Without(signals, sent), Emptied(signalsByRun, victims), Existing \ victims)
        /\ \A s \in SignalIds : signals[s] # None =>
             (s \in sent <=> signals[s].runId \in victims)
    BY <1>6, <1>7, AgreeAfterDelete, Zenon
  <2> QED BY <2>1, <1>1, <1>5, Zenon
<1>10. Agree(events', eventsByRun', Existing \ victims)
  <2>1. Agree(Without(events, log), Emptied(eventsByRun, victims), Existing \ victims)
    BY <1>6, <1>7, AgreeAfterDelete, Zenon
  <2> QED BY <2>1, <1>1, <1>5, Zenon
<1> HIDE DEF steps, sent, log
<1>11. /\ Agree(stepRuns', stepRunsByRun', Existing')
       /\ Agree(signals', signalsByRun', Existing')
       /\ Agree(events', eventsByRun', Existing')
  BY <1>4, <1>8, <1>9, <1>10, AgreeWithMore
<1>12. TypeOK'
  <2>1. \A i \in DOMAIN runs' : runs'[i].leaseOwner = None <=> runs'[i].leaseExpiresAt = None
    BY <1>2, <1>3 DEF TypeOK
  <2>2. /\ stepRuns' \in [StepRunIds -> StepRow \cup {None}]
        /\ signals' \in [SignalIds -> SignalRow \cup {None}]
        /\ events' \in [EventIds -> EventRow \cup {None}]
        /\ stepRunByKey' \in [Keys -> StepRunIds \cup {None}]
    BY <1>1, <1>2 DEF TypeOK, KeysWithout
  <2>3. /\ stepRunsByRun' \in [RunIds -> Seq(StepRunIds)]
        /\ signalsByRun' \in [RunIds -> Seq(SignalIds)]
        /\ eventsByRun' \in [RunIds -> Seq(EventIds)]
    BY <1>1, <1>2 DEF TypeOK, Emptied
  <2>4. signalSeq' \in Nat /\ signalWatermark' \in [RunIds -> 0..signalSeq']
    BY <1>1, <1>2 DEF TypeOK
  <2> QED BY <1>1, <1>3, <2>1, <2>2, <2>3, <2>4 DEF TypeOK
<1>13. KeyIndexAgrees'
  <2>1. /\ \A k \in Keys : stepRunByKey[k] # None =>
             /\ stepRunByKey[k] \in StepRunIds
             /\ stepRuns[stepRunByKey[k]] # None
             /\ stepRuns[stepRunByKey[k]].key = k
        /\ \A x \in StepRunIds : stepRuns[x] # None =>
             stepRuns[x].key \in Keys /\ stepRunByKey[stepRuns[x].key] = x
    BY <1>2, StorageAssumption DEF StorageInv, KeyIndexAgrees, TypeOK, StepRow, StepColumns
  <2>2. \A x \in steps : x \in StepRunIds
    BY <1>6 DEF steps, Named, Range
  <2>3. \A k \in Keys : stepRunByKey'[k] # None =>
          stepRunByKey'[k] = stepRunByKey[k] /\ stepRunByKey[k] \notin steps
    BY <1>1, <2>1, <2>2 DEF KeysWithout
  <2>4. ASSUME NEW x \in StepRunIds, stepRuns'[x] # None
        PROVE  stepRuns'[x] = stepRuns[x] /\ stepRunByKey'[stepRuns[x].key] = x
    <3>1. stepRuns'[x] = stepRuns[x] /\ x \notin steps /\ stepRuns[x] # None
      BY <1>1, <2>4
    <3>2. stepRuns[x].key \in Keys /\ stepRunByKey[stepRuns[x].key] = x
      BY <2>1, <3>1
    <3>3. ~ \E y \in steps : stepRuns[y] # None /\ stepRuns[y].key = stepRuns[x].key
      BY <2>1, <2>2, <3>1, <3>2
    <3> QED BY <1>1, <3>1, <3>2, <3>3 DEF KeysWithout
  <2>5. \A k \in Keys : stepRunByKey'[k] # None =>
          stepRuns'[stepRunByKey'[k]] # None /\ stepRuns'[stepRunByKey'[k]].key = k
    BY <1>1, <2>1, <2>3
  <2> QED BY <2>4, <2>5 DEF KeyIndexAgrees
<1>14. SignalsInOrder'
  <2> SUFFICES ASSUME NEW r \in RunIds
               PROVE  LET ids == signalsByRun'[r] IN
                      /\ \A i, j \in DOMAIN ids : i < j => signals'[ids[i]].seq < signals'[ids[j]].seq
                      /\ signalWatermark'[r] = IF ids = << >> THEN 0 ELSE signals'[Last(ids)].seq
    BY DEF SignalsInOrder
  <2>1. CASE r \in victims
    BY <2>1, <1>1 DEF Emptied
  <2>2. CASE r \notin victims
    <3>1. signalsByRun'[r] = signalsByRun[r] /\ signalWatermark'[r] = signalWatermark[r]
      BY <2>2, <1>1 DEF Emptied
    <3>2. \A i \in DOMAIN signalsByRun[r] : signals'[signalsByRun[r][i]] = signals[signalsByRun[r][i]]
      <4> SUFFICES ASSUME NEW i \in DOMAIN signalsByRun[r]
                   PROVE  signals'[signalsByRun[r][i]] = signals[signalsByRun[r][i]]
        OBVIOUS
      <4>1. signalsByRun[r][i] \in SignalIds
        BY <1>6
      <4>2. signals[signalsByRun[r][i]] # None /\ signals[signalsByRun[r][i]].runId = r
        BY <1>7 DEF Agree
      <4>3. signalsByRun[r][i] \notin sent
        BY <2>2, <4>1, <4>2, <1>9
      <4> QED BY <4>1, <4>3, <1>1
    <3>3. signalsByRun[r] # << >> =>
            Len(signalsByRun[r]) \in DOMAIN signalsByRun[r]
      BY <1>6
    <3> QED BY <3>1, <3>2, <3>3 DEF StorageInv, SignalsInOrder, Last
  <2> QED BY <2>1, <2>2
<1>15. KeysAreOwn'
  BY <1>1 DEF StorageInv, KeysAreOwn
<1> QED BY <1>3, <1>11, <1>12, <1>13, <1>14, <1>15 DEF StorageInv
-----------------------------------------------------------------------------
(* The stores of step runs, signals and events *)

\* Most calls leave two of the three tables and the runs alone.
LEMMA SameRunsExist == ASSUME runs' = runs PROVE Existing' = Existing
BY DEF Existing, HasRun

\* What the invariant and the assumptions say of a row before it is looked at.
LEMMA RowsAreTyped ==
  ASSUME StorageInv
  PROVE  /\ \A x \in StepRunIds : stepRuns[x] # None => stepRuns[x] \in StepRow
         /\ \A s \in SignalIds : signals[s] # None => signals[s] \in SignalRow
         /\ None \notin StepRow \cup SignalRow \cup EventRow \cup StepRunIds
BY StorageAssumption DEF StorageInv, TypeOK

LEMMA CreateStepRunKeeps ==
  ASSUME StorageInv, NEW new \in NewStepRuns, CreateStepRun(new)
  PROVE  StorageInv'
<1>1. CASE ~HasRun(new.runId) \/ stepRuns[new.id] # None \/ stepRunByKey[new.key] # None
  BY <1>1, AnswerKeeps DEF CreateStepRun
<1>2. CASE ~(~HasRun(new.runId) \/ stepRuns[new.id] # None \/ stepRunByKey[new.key] # None)
  <2>1. /\ stepRuns' = [stepRuns EXCEPT ![new.id] = new]
        /\ stepRunByKey' = [stepRunByKey EXCEPT ![new.key] = new.id]
        /\ stepRunsByRun' = [stepRunsByRun EXCEPT ![new.runId] = Append(@, new.id)]
        /\ reply' = "ok"
        /\ runs' = runs /\ UNCHANGED signalVars /\ UNCHANGED eventVars
    BY <1>2 DEF CreateStepRun
  <2>2. HasRun(new.runId) /\ stepRuns[new.id] = None /\ stepRunByKey[new.key] = None
    BY <1>2
  <2>3. new \in StepRow
    BY StorageAssumption
  <2>4. /\ new.id \in StepRunIds /\ new.runId \in RunIds /\ new.key \in Keys
        /\ new # None /\ new.id # None
    BY <2>3, RowsAreTyped DEF StepRow, StepColumns
  <2>5. TypeOK
    BY DEF StorageInv
  <2>6. TypeOK'
    BY <2>1, <2>3, <2>4, <2>5 DEF TypeOK, signalVars, eventVars
  <2>7. Existing' = Existing /\ new.runId \in Existing
    BY <2>1, <2>2, <2>4, SameRunsExist DEF Existing
  <2>8. /\ Agree(stepRuns, stepRunsByRun, Existing)
        /\ DOMAIN stepRuns = StepRunIds /\ stepRunsByRun \in [RunIds -> Seq(StepRunIds)]
    BY <2>5 DEF StorageInv, TypeOK
  <2>9. Agree(stepRuns', stepRunsByRun', Existing')
    <3>1. Agree([stepRuns EXCEPT ![new.id] = new],
                [stepRunsByRun EXCEPT ![new.runId] = Append(@, new.id)], Existing)
      BY <2>2, <2>4, <2>7, <2>8, AgreeAfterAppend
    <3> QED BY <3>1, <2>1, <2>7, Zenon
  <2>10. /\ Agree(signals', signalsByRun', Existing')
         /\ Agree(events', eventsByRun', Existing')
         /\ SignalsInOrder'
    BY <2>1, <2>7 DEF StorageInv, SignalsInOrder, signalVars, eventVars
  <2>11. KeyIndexAgrees'
    <3>1. \A k \in Keys : stepRunByKey[k] # None => stepRunByKey[k] \in StepRunIds
      BY <2>5 DEF TypeOK
    <3>2. \A x \in StepRunIds : stepRuns[x] # None => stepRuns[x].key \in Keys
      BY RowsAreTyped DEF StepRow, StepColumns
    <3>3. \A k \in Keys : stepRunByKey'[k] = IF k = new.key THEN new.id ELSE stepRunByKey[k]
      BY <2>1, <2>5 DEF TypeOK
    <3>4. \A x \in StepRunIds : stepRuns'[x] = IF x = new.id THEN new ELSE stepRuns[x]
      BY <2>1, <2>5 DEF TypeOK
    <3>5. \A k \in Keys : stepRunByKey'[k] # None =>
            stepRuns'[stepRunByKey'[k]] # None /\ stepRuns'[stepRunByKey'[k]].key = k
      BY <2>2, <2>4, <3>1, <3>3, <3>4 DEF StorageInv, KeyIndexAgrees
    <3>6. \A x \in StepRunIds : stepRuns'[x] # None => stepRunByKey'[stepRuns'[x].key] = x
      <4>1. \A x \in StepRunIds : stepRuns[x] # None => stepRunByKey[stepRuns[x].key] = x
        BY DEF StorageInv, KeyIndexAgrees
      <4>2. \A x \in StepRunIds : stepRuns[x] # None => stepRuns[x].key # new.key
        BY <2>2, <4>1, RowsAreTyped
      <4> QED BY <2>2, <2>4, <3>2, <3>3, <3>4, <4>1, <4>2
    <3> QED BY <3>5, <3>6 DEF KeyIndexAgrees
  <2>12. KeysAreOwn'
    BY <2>1, <2>4, <2>5 DEF StorageInv, KeysAreOwn, KeysOf, TypeOK
  <2> QED BY <2>1, <2>6, <2>9, <2>10, <2>11, <2>12 DEF StorageInv
<1> QED BY <1>1, <1>2

LEMMA UpdateStepRunKeeps ==
  ASSUME StorageInv, NEW id \in StepRunIds, NEW patch \in StepRunPatches[id],
         UpdateStepRun(id, patch)
  PROVE  StorageInv'
<1>1. CASE stepRuns[id] = None
  BY <1>1, AnswerKeeps DEF UpdateStepRun
<1>2. CASE stepRuns[id] # None
  <2> DEFINE row == stepRuns[id]
             moved == "key" \in DOMAIN patch /\ patch.key # row.key
  <2>1. /\ stepRuns' = [stepRuns EXCEPT ![id] = Merge(row, patch)]
        /\ stepRunByKey' = IF moved THEN [stepRunByKey EXCEPT ![row.key] = None, ![patch.key] = id]
                           ELSE stepRunByKey
        /\ reply' = "ok"
        /\ runs' = runs /\ stepRunsByRun' = stepRunsByRun
        /\ UNCHANGED signalVars /\ UNCHANGED eventVars
    BY <1>2 DEF UpdateStepRun
  <2>2. /\ IsPatch(patch, StepColumns)
        /\ "key" \in DOMAIN patch => \A y \in StepRunIds \ {id} : patch.key \notin KeysOf(y)
    BY StorageAssumption
  <2>3. row \in StepRow
    BY <1>2, RowsAreTyped
  <2>4. /\ Merge(row, patch) \in StepRow
        /\ Merge(row, patch).id = row.id
        /\ Merge(row, patch).runId = row.runId
        /\ Merge(row, patch).key = IF "key" \in DOMAIN patch THEN patch.key ELSE row.key
    BY <2>2, <2>3, PatchedStepRun
  <2>5. row.key \in Keys /\ Merge(row, patch).key \in Keys /\ Merge(row, patch) # None
    BY <2>3, <2>4, RowsAreTyped DEF StepRow, StepColumns
  <2>6. TypeOK
    BY DEF StorageInv
  <2>7. /\ stepRuns' \in [StepRunIds -> StepRow \cup {None}]
        /\ stepRunByKey' \in [Keys -> StepRunIds \cup {None}]
    BY <2>1, <2>4, <2>6 DEF TypeOK
  <2>8. TypeOK'
    BY <2>1, <2>6, <2>7 DEF TypeOK, signalVars, eventVars
  <2>9. \A x \in StepRunIds : stepRuns'[x] = IF x = id THEN Merge(row, patch) ELSE stepRuns[x]
    BY <2>1, <2>6 DEF TypeOK
  <2>10. \A k \in Keys : stepRunByKey'[k] = IF moved /\ k = patch.key THEN id
                                          ELSE IF moved /\ k = row.key THEN None
                                          ELSE stepRunByKey[k]
    BY <2>1, <2>4, <2>5, <2>6 DEF TypeOK
  <2>11. Existing' = Existing
    BY <2>1, SameRunsExist
  <2> HIDE DEF row
  <2>12. Agree(stepRuns', stepRunsByRun', Existing')
    <3>1. \A r \in RunIds : \A i \in DOMAIN stepRunsByRun[r] : stepRunsByRun[r][i] \in DOMAIN stepRuns
      BY <2>6 DEF TypeOK
    <3>2. DOMAIN stepRuns' = DOMAIN stepRuns
      BY <2>6, <2>7 DEF TypeOK
    <3>3. \A x \in DOMAIN stepRuns : /\ stepRuns'[x] = None <=> stepRuns[x] = None
                                    /\ stepRuns'[x].id = stepRuns[x].id
                                    /\ stepRuns'[x].runId = stepRuns[x].runId
      BY <1>2, <2>4, <2>5, <2>6, <2>9 DEF row, TypeOK
    <3>4. Agree(stepRuns', stepRunsByRun, Existing)
      BY <3>1, <3>2, <3>3, AgreeAfterPatch DEF StorageInv
    <3> QED BY <3>4, <2>1, <2>11
  <2>13. /\ Agree(signals', signalsByRun', Existing')
         /\ Agree(events', eventsByRun', Existing')
         /\ SignalsInOrder'
    BY <2>1, <2>11 DEF StorageInv, SignalsInOrder, signalVars, eventVars
  <2>14. KeyIndexAgrees'
    <3>1. \A k \in Keys : stepRunByKey[k] # None =>
            /\ stepRunByKey[k] \in StepRunIds
            /\ stepRuns[stepRunByKey[k]] # None
            /\ stepRuns[stepRunByKey[k]].key = k
      BY <2>6 DEF StorageInv, KeyIndexAgrees, TypeOK
    <3>2. \A x \in StepRunIds : stepRuns[x] # None =>
            stepRuns[x].key \in Keys /\ stepRuns[x].key \in KeysOf(x) /\ stepRunByKey[stepRuns[x].key] = x
      BY RowsAreTyped DEF StorageInv, KeyIndexAgrees, KeysAreOwn, StepRow, StepColumns
    <3>3. stepRunByKey[row.key] = id
      BY <1>2, <3>2 DEF row
    <3>4. CASE ~moved
      <4>1. Merge(row, patch).key = row.key
        BY <2>4, <3>4
      <4> QED BY <1>2, <3>1, <3>2, <3>3, <3>4, <4>1, <2>5, <2>9, <2>10 DEF KeyIndexAgrees, row
    <3>5. CASE moved
      <4>1. Merge(row, patch).key = patch.key /\ patch.key \in Keys /\ patch.key # row.key
        BY <2>4, <2>5, <3>5
      <4>2. \A x \in StepRunIds \ {id} : stepRuns[x] # None => stepRuns[x].key # patch.key
        BY <2>2, <3>2, <3>5
      <4>3. \A x \in StepRunIds \ {id} : stepRuns[x] # None => stepRuns[x].key # row.key
        BY <3>2, <3>3
      <4>4. ASSUME NEW k \in Keys, stepRunByKey'[k] # None
            PROVE  stepRuns'[stepRunByKey'[k]] # None /\ stepRuns'[stepRunByKey'[k]].key = k
        <5>1. CASE k = patch.key
          BY <5>1, <4>1, <2>5, <2>9, <2>10, <3>5
        <5>2. CASE k # patch.key
          <6>1. k # row.key /\ stepRunByKey'[k] = stepRunByKey[k]
            BY <5>2, <4>4, <2>10, <3>5
          <6>2. stepRunByKey[k] # id
            BY <6>1, <3>1, <4>4 DEF row
          <6> QED BY <6>1, <6>2, <3>1, <4>4, <2>9
        <5> QED BY <5>1, <5>2
      <4>5. ASSUME NEW x \in StepRunIds, stepRuns'[x] # None
            PROVE  stepRunByKey'[stepRuns'[x].key] = x
        <5>1. CASE x = id
          BY <5>1, <4>1, <2>9, <2>10, <3>5
        <5>2. CASE x # id
          BY <5>2, <4>2, <4>3, <4>5, <3>2, <2>9, <2>10
        <5> QED BY <5>1, <5>2
      <4> QED BY <4>4, <4>5 DEF KeyIndexAgrees
    <3> QED BY <3>4, <3>5
  <2>15. KeysAreOwn'
    <3>1. "key" \in DOMAIN patch => patch.key \in KeysOf(id)
      BY DEF KeysOf
    <3> QED BY <1>2, <3>1, <2>4, <2>9 DEF StorageInv, KeysAreOwn, row
  <2> QED BY <2>1, <2>8, <2>12, <2>13, <2>14, <2>15 DEF StorageInv
<1> QED BY <1>1, <1>2

LEMMA AppendSignalKeeps ==
  ASSUME StorageInv, NEW new \in NewSignals, AppendSignal(new)
  PROVE  StorageInv'
<1>1. CASE ~HasRun(new.runId) \/ signals[new.id] # None
  BY <1>1, AnswerKeeps DEF AppendSignal
<1>2. CASE ~(~HasRun(new.runId) \/ signals[new.id] # None)
  <2> DEFINE row == [id |-> new.id, runId |-> new.runId, name |-> new.name,
                     stepId |-> new.stepId, createdAt |-> new.createdAt,
                     seq |-> signalSeq + 1, consumed |-> FALSE]
             r == new.runId
             n == Len(signalsByRun[r])
  <2>1. /\ signalSeq' = signalSeq + 1
        /\ signals' = [signals EXCEPT ![new.id] = row]
        /\ signalsByRun' = [signalsByRun EXCEPT ![r] = Append(@, new.id)]
        /\ signalWatermark' = [signalWatermark EXCEPT ![r] = signalSeq + 1]
        /\ reply' = "ok"
        /\ runs' = runs /\ UNCHANGED stepVars /\ UNCHANGED eventVars
    BY <1>2 DEF AppendSignal
  <2>2. HasRun(r) /\ signals[new.id] = None
    BY <1>2
  <2>3. TypeOK
    BY DEF StorageInv
  <2>4. new \in NewSignal
    BY StorageAssumption
  <2>5. /\ new.id \in SignalIds /\ r \in RunIds
        /\ row \in SignalRow /\ row.id = new.id /\ row.runId = r /\ row.seq = signalSeq + 1
    BY <2>3, <2>4 DEF NewSignal, SignalRow, TypeOK
  <2>6. row # None
    BY <2>5, RowsAreTyped
  <2> HIDE DEF row
  <2>7. /\ signalSeq \in Nat /\ signalSeq' \in Nat
        /\ signalWatermark' \in [RunIds -> 0..signalSeq']
    <3>1. signalSeq \in Nat /\ signalWatermark \in [RunIds -> 0..signalSeq]
      BY <2>3 DEF TypeOK
    <3>2. \A w \in 0..signalSeq : w \in 0..(signalSeq + 1)
      BY <3>1
    <3>3. signalSeq + 1 \in 0..(signalSeq + 1)
      BY <3>1
    <3>4. signalSeq' = signalSeq + 1 /\ signalSeq' \in Nat
      BY <2>1, <3>1
    <3>5. signalWatermark' \in [RunIds -> 0..(signalSeq + 1)]
      BY <2>1, <3>1, <3>2, <3>3, Zenon
    <3> QED BY <3>1, <3>4, <3>5
  <2>8. /\ signals' \in [SignalIds -> SignalRow \cup {None}]
        /\ signalsByRun' \in [RunIds -> Seq(SignalIds)]
    BY <2>1, <2>3, <2>5 DEF TypeOK
  <2>9. TypeOK'
    BY <2>1, <2>3, <2>7, <2>8 DEF TypeOK, stepVars, eventVars
  <2>10. Existing' = Existing /\ r \in Existing
    BY <2>1, <2>2, <2>5, SameRunsExist DEF Existing
  <2>11. /\ Agree(signals, signalsByRun, Existing)
         /\ DOMAIN signals = SignalIds /\ signalsByRun \in [RunIds -> Seq(SignalIds)]
    BY <2>3 DEF StorageInv, TypeOK
  <2>12. Agree(signals', signalsByRun', Existing')
    <3>1. Agree([signals EXCEPT ![new.id] = row],
                [signalsByRun EXCEPT ![row.runId] = Append(@, new.id)], Existing)
      BY <2>2, <2>5, <2>6, <2>10, <2>11, AgreeAfterAppend
    <3> QED BY <3>1, <2>1, <2>5, <2>10
  <2>13. /\ Agree(stepRuns', stepRunsByRun', Existing')
         /\ Agree(events', eventsByRun', Existing')
         /\ KeyIndexAgrees' /\ KeysAreOwn'
    BY <2>1, <2>10 DEF StorageInv, KeyIndexAgrees, KeysAreOwn, stepVars, eventVars
  <2>14. SignalsInOrder'
    <3>1. \A q \in RunIds : \A i \in DOMAIN signalsByRun[q] :
            signalsByRun[q][i] \in SignalIds /\ signals'[signalsByRun[q][i]] = signals[signalsByRun[q][i]]
      <4> SUFFICES ASSUME NEW q \in RunIds, NEW i \in DOMAIN signalsByRun[q]
                   PROVE  /\ signalsByRun[q][i] \in SignalIds
                          /\ signals'[signalsByRun[q][i]] = signals[signalsByRun[q][i]]
        OBVIOUS
      <4>1. signalsByRun[q][i] \in SignalIds
        BY <2>11
      <4>2. signals[signalsByRun[q][i]] # None
        BY <2>11 DEF Agree
      <4> QED BY <4>1, <4>2, <2>1, <2>2
    <3> SUFFICES ASSUME NEW q \in RunIds
                 PROVE  LET ids == signalsByRun'[q] IN
                        /\ \A i, j \in DOMAIN ids : i < j => signals'[ids[i]].seq < signals'[ids[j]].seq
                        /\ signalWatermark'[q] = IF ids = << >> THEN 0 ELSE signals'[Last(ids)].seq
      BY DEF SignalsInOrder
    <3>2. /\ Len(signalsByRun[q]) \in Nat /\ DOMAIN signalsByRun[q] = 1..Len(signalsByRun[q])
          /\ signalsByRun[q] # << >> => Len(signalsByRun[q]) \in DOMAIN signalsByRun[q]
      BY <2>11
    <3>3. /\ \A i, j \in DOMAIN signalsByRun[q] : i < j =>
               signals[signalsByRun[q][i]].seq < signals[signalsByRun[q][j]].seq
          /\ signalWatermark[q] =
               IF signalsByRun[q] = << >> THEN 0 ELSE signals[signalsByRun[q][Len(signalsByRun[q])]].seq
      BY DEF StorageInv, SignalsInOrder, Last
    <3>4. CASE q # r
      <4>1. signalsByRun'[q] = signalsByRun[q] /\ signalWatermark'[q] = signalWatermark[q]
        BY <3>4, <2>1, <2>3 DEF TypeOK
      <4> QED BY <4>1, <3>1, <3>2, <3>3 DEF Last
    <3>5. CASE q = r
      <4>1. /\ DOMAIN signalsByRun'[q] = 1..(n + 1) /\ Len(signalsByRun'[q]) = n + 1
            /\ signalsByRun'[q][n + 1] = new.id
            /\ \A i \in 1..n : signalsByRun'[q][i] = signalsByRun[q][i]
            /\ signalsByRun'[q] # << >>
        <5> DEFINE s == signalsByRun[r]
        <5>1. signalsByRun'[q] = Append(s, new.id)
          BY <3>5, <2>1, <2>5, <2>11
        <5>2. s \in Seq(SignalIds)
          BY <2>5, <2>11
        <5> HIDE DEF s
        <5>3. /\ Len(s) \in Nat
              /\ DOMAIN Append(s, new.id) = 1..(Len(s) + 1) /\ Len(Append(s, new.id)) = Len(s) + 1
              /\ Append(s, new.id)[Len(s) + 1] = new.id
              /\ \A i \in 1..Len(s) : Append(s, new.id)[i] = s[i]
              /\ Append(s, new.id) # << >>
          BY <5>2, <2>5
        <5> QED BY <3>5, <5>1, <5>3 DEF s
      <4>2. signals'[new.id] = row /\ signalWatermark'[q] = signalSeq + 1
        BY <3>5, <2>1, <2>3, <2>5 DEF TypeOK
      <4>3. \A i \in 1..n : /\ signals[signalsByRun[q][i]].seq \in Nat
                            /\ signals[signalsByRun[q][i]].seq <= signalSeq
        <5>1. \A i \in 1..n : signals[signalsByRun[q][i]] \in SignalRow
          BY <3>1, <3>2, <3>5, <2>11, RowsAreTyped DEF Agree
        <5>2. signalWatermark[q] \in 0..signalSeq
          BY <2>3 DEF TypeOK
        <5>3. \A i \in 1..n : signals[signalsByRun[q][i]].seq <= signals[signalsByRun[q][n]].seq
          <6> SUFFICES ASSUME NEW i \in 1..n
                       PROVE  signals[signalsByRun[q][i]].seq <= signals[signalsByRun[q][n]].seq
            OBVIOUS
          <6>1. n \in 1..n /\ n \in DOMAIN signalsByRun[q] /\ i \in DOMAIN signalsByRun[q]
            BY <3>2, <3>5
          <6>2. /\ signals[signalsByRun[q][i]].seq \in Nat
                /\ signals[signalsByRun[q][n]].seq \in Nat
            BY <5>1, <6>1 DEF SignalRow
          <6>3. i < n => signals[signalsByRun[q][i]].seq < signals[signalsByRun[q][n]].seq
            BY <6>1, <3>3
          <6>4. i < n \/ i = n
            BY <3>2, <3>5
          <6> QED BY <6>2, <6>3, <6>4
        <5> QED BY <5>1, <5>2, <5>3, <3>2, <3>3, <3>5, <2>7 DEF SignalRow
      <4>4. \A i \in DOMAIN signalsByRun'[q] : i \in 1..n \/ i = n + 1
        BY <4>1, <3>2, <3>5
      <4>5. \A i, j \in DOMAIN signalsByRun'[q] : i < j =>
              signals'[signalsByRun'[q][i]].seq < signals'[signalsByRun'[q][j]].seq
        <5> SUFFICES ASSUME NEW i \in DOMAIN signalsByRun'[q], NEW j \in DOMAIN signalsByRun'[q], i < j
                     PROVE  signals'[signalsByRun'[q][i]].seq < signals'[signalsByRun'[q][j]].seq
          OBVIOUS
        <5>1. i \in 1..n
          BY <4>1, <4>4, <3>2, <3>5
        <5>2. signals'[signalsByRun'[q][i]] = signals[signalsByRun[q][i]]
          BY <5>1, <4>1, <3>1, <3>2, <3>5
        <5>3. CASE j = n + 1
          BY <5>1, <5>2, <5>3, <4>1, <4>2, <4>3, <2>5, <2>7
        <5>4. CASE j \in 1..n
          <6>1. signals'[signalsByRun'[q][j]] = signals[signalsByRun[q][j]]
            BY <5>4, <4>1, <3>1, <3>2, <3>5
          <6> QED BY <5>1, <5>2, <5>4, <6>1, <3>2, <3>3, <3>5
        <5> QED BY <5>3, <5>4, <4>4
      <4> QED BY <4>1, <4>2, <4>5, <2>5 DEF Last
    <3> QED BY <3>4, <3>5
  <2> QED BY <2>1, <2>9, <2>12, <2>13, <2>14 DEF StorageInv
<1> QED BY <1>1, <1>2

LEMMA ConsumeNextKeeps ==
  ASSUME StorageInv, NEW wait, wait.runId \in RunIds, ConsumeNext(wait)
  PROVE  StorageInv'
<1> DEFINE ids == signalsByRun[wait.runId]
           matches == {i \in DOMAIN ids : signals[ids[i]] # None /\ Eligible(signals[ids[i]], wait)}
           s == ids[Min(matches)]
<1>1. CASE matches = {}
  BY <1>1, AnswerKeeps DEF ConsumeNext
<1>2. CASE matches # {}
  <2>1. /\ signals' = [signals EXCEPT ![s].consumed = TRUE]
        /\ reply' = "ok"
        /\ runs' = runs /\ UNCHANGED stepVars /\ UNCHANGED eventVars
        /\ signalsByRun' = signalsByRun /\ signalWatermark' = signalWatermark
        /\ signalSeq' = signalSeq
    BY <1>2 DEF ConsumeNext
  <2>2. TypeOK
    BY DEF StorageInv
  <2>3. ids \in Seq(SignalIds)
    BY <2>2 DEF TypeOK
  <2>4. Min(matches) \in matches
    <3>1. matches \in SUBSET Nat
      BY <2>3
    <3> QED BY <3>1, <1>2, MinIsIn
  <2>5. s \in SignalIds /\ signals[s] # None
    <3> DEFINE first == Min(matches)
    <3>1. first \in DOMAIN ids /\ signals[ids[first]] # None
      BY <2>4, Zenon
    <3> HIDE DEF first
    <3>2. ids[first] \in SignalIds
      BY <2>3, <3>1
    <3> QED BY <3>1, <3>2 DEF first
  <2> HIDE DEF s
  <2>6. signals[s] \in SignalRow
    BY <2>5, RowsAreTyped
  <2>7. /\ [signals[s] EXCEPT !.consumed = TRUE] \in SignalRow
        /\ [signals[s] EXCEPT !.consumed = TRUE].id = signals[s].id
        /\ [signals[s] EXCEPT !.consumed = TRUE].runId = signals[s].runId
        /\ [signals[s] EXCEPT !.consumed = TRUE].seq = signals[s].seq
    BY <2>6 DEF SignalRow
  <2>8. \A x \in SignalIds : signals'[x] = IF x = s THEN [signals[s] EXCEPT !.consumed = TRUE]
                                          ELSE signals[x]
    BY <2>1, <2>2, <2>5 DEF TypeOK
  <2>9. signals' \in [SignalIds -> SignalRow \cup {None}]
    BY <2>1, <2>2, <2>5, <2>7 DEF TypeOK
  <2>10. TypeOK'
    BY <2>1, <2>2, <2>9 DEF TypeOK, stepVars, eventVars
  <2>11. Existing' = Existing
    BY <2>1, SameRunsExist
  <2>12. \A x \in SignalIds : /\ signals'[x] = None <=> signals[x] = None
                              /\ signals'[x].id = signals[x].id
                              /\ signals'[x].runId = signals[x].runId
                              /\ signals'[x].seq = signals[x].seq
    BY <2>5, <2>7, <2>8, RowsAreTyped
  <2>13. \A r \in RunIds : \A i \in DOMAIN signalsByRun[r] : signalsByRun[r][i] \in SignalIds
    BY <2>2 DEF TypeOK
  <2>14. Agree(signals', signalsByRun', Existing')
    <3>1. DOMAIN signals = SignalIds /\ DOMAIN signals' = SignalIds
      BY <2>2, <2>9 DEF TypeOK
    <3>2. Agree(signals', signalsByRun, Existing)
      BY <2>12, <2>13, <3>1, AgreeAfterPatch DEF StorageInv
    <3> QED BY <3>2, <2>1, <2>11
  <2>15. /\ Agree(stepRuns', stepRunsByRun', Existing')
         /\ Agree(events', eventsByRun', Existing')
         /\ KeyIndexAgrees' /\ KeysAreOwn'
    BY <2>1, <2>11 DEF StorageInv, KeyIndexAgrees, KeysAreOwn, stepVars, eventVars
  <2>16. SignalsInOrder'
    <3> SUFFICES ASSUME NEW r \in RunIds
                 PROVE  LET q == signalsByRun[r] IN
                        /\ \A i, j \in DOMAIN q : i < j => signals'[q[i]].seq < signals'[q[j]].seq
                        /\ signalWatermark[r] = IF q = << >> THEN 0 ELSE signals'[Last(q)].seq
      BY <2>1 DEF SignalsInOrder
    <3>1. \A i \in DOMAIN signalsByRun[r] : signals'[signalsByRun[r][i]].seq = signals[signalsByRun[r][i]].seq
      BY <2>12, <2>13
    <3>2. signalsByRun[r] # << >> => Len(signalsByRun[r]) \in DOMAIN signalsByRun[r]
      BY <2>2 DEF TypeOK
    <3> QED BY <3>1, <3>2 DEF StorageInv, SignalsInOrder, Last
  <2> QED BY <2>1, <2>10, <2>14, <2>15, <2>16 DEF StorageInv
<1> QED BY <1>1, <1>2

LEMMA AppendEventKeeps ==
  ASSUME StorageInv, NEW new \in NewEvents, AppendEvent(new)
  PROVE  StorageInv'
<1>1. CASE ~HasRun(new.runId) \/ events[new.id] # None
  BY <1>1, AnswerKeeps DEF AppendEvent
<1>2. CASE ~(~HasRun(new.runId) \/ events[new.id] # None)
  <2>1. /\ events' = [events EXCEPT ![new.id] = new]
        /\ eventsByRun' = [eventsByRun EXCEPT ![new.runId] = Append(@, new.id)]
        /\ reply' = "ok"
        /\ runs' = runs /\ UNCHANGED stepVars /\ UNCHANGED signalVars
    BY <1>2 DEF AppendEvent
  <2>2. HasRun(new.runId) /\ events[new.id] = None
    BY <1>2
  <2>3. /\ new \in EventRow /\ new # None
        /\ new.id \in EventIds /\ new.runId \in RunIds
    BY StorageAssumption, RowsAreTyped DEF EventRow
  <2>4. TypeOK
    BY DEF StorageInv
  <2>5. TypeOK'
    BY <2>1, <2>3, <2>4 DEF TypeOK, stepVars, signalVars
  <2>6. Existing' = Existing /\ new.runId \in Existing
    BY <2>1, <2>2, <2>3, SameRunsExist DEF Existing
  <2>7. /\ Agree(events, eventsByRun, Existing)
        /\ DOMAIN events = EventIds /\ eventsByRun \in [RunIds -> Seq(EventIds)]
    BY <2>4 DEF StorageInv, TypeOK
  <2>8. Agree(events', eventsByRun', Existing')
    <3>1. Agree([events EXCEPT ![new.id] = new],
                [eventsByRun EXCEPT ![new.runId] = Append(@, new.id)], Existing)
      BY <2>2, <2>3, <2>6, <2>7, AgreeAfterAppend
    <3> QED BY <3>1, <2>1, <2>6, Zenon
  <2>9. /\ Agree(stepRuns', stepRunsByRun', Existing')
        /\ Agree(signals', signalsByRun', Existing')
        /\ (KeyIndexAgrees /\ SignalsInOrder /\ KeysAreOwn)'
    BY <2>1, <2>6 DEF StorageInv, KeyIndexAgrees, SignalsInOrder, KeysAreOwn, stepVars, signalVars
  <2> QED BY <2>1, <2>5, <2>8, <2>9 DEF StorageInv
<1> QED BY <1>1, <1>2

-----------------------------------------------------------------------------
(* The theorems *)

LEMMA StorageInvIsKept == StorageInv /\ [Next]_vars => StorageInv'
<1> SUFFICES ASSUME StorageInv, [Next]_vars PROVE StorageInv'
  OBVIOUS
<1>1. CASE \E run \in NewRuns : CreateRun(run)
  BY <1>1, CreateRunKeeps
<1>2. CASE \E id \in RunIds : \E patch \in RunPatches[id] : UpdateRun(id, patch)
  BY <1>2, UpdateRunKeeps
<1>3. CASE \E owner \in Owners, at \in Times, limit \in Limits : ClaimDue(owner, at, limit)
  BY <1>3, ClaimDueKeeps
<1>4. CASE \E id \in RunIds, owner \in Owners, at \in Times : RenewLease(id, owner, at)
  BY <1>4, RenewLeaseKeeps
<1>5. CASE \E id \in RunIds, owner \in Owners : ReleaseLease(id, owner)
  BY <1>5, ReleaseLeaseKeeps
<1>6. CASE \E before \in Times, limit \in Limits : DeleteTerminalBefore(before, limit)
  BY <1>6, DeleteTerminalBeforeKeeps
<1>7. CASE \E new \in NewStepRuns : CreateStepRun(new)
  BY <1>7, CreateStepRunKeeps
<1>8. CASE \E id \in StepRunIds : \E patch \in StepRunPatches[id] : UpdateStepRun(id, patch)
  BY <1>8, UpdateStepRunKeeps
<1>9. CASE \E new \in NewSignals : InClockOrder(new) /\ AppendSignal(new)
  BY <1>9, AppendSignalKeeps
<1>10. CASE \E x \in StepRunIds : /\ stepRuns[x] # None /\ stepRuns[x].waitFor # None
                                 /\ ConsumeNext(stepRuns[x])
  <2>1. PICK x \in StepRunIds : stepRuns[x] # None /\ ConsumeNext(stepRuns[x])
    BY <1>10
  <2>2. stepRuns[x].runId \in RunIds
    BY <2>1, RowsAreTyped DEF StepRow
  <2> QED BY <2>1, <2>2, ConsumeNextKeeps
<1>11. CASE \E new \in NewEvents : AppendEvent(new)
  BY <1>11, AppendEventKeeps
<1>12. CASE UNCHANGED vars
  <2>1. UNCHANGED <<runs, stepVars, signalVars, eventVars, reply>>
    BY <1>12 DEF vars
  <2>2. /\ runs \in [DOMAIN runs -> RunRow]
        /\ reply \in {"ok", "no", "conflict"}
    BY DEF StorageInv, TypeOK
  <2>3. runs' = runs /\ UNCHANGED <<stepVars, signalVars, eventVars>> /\ reply' = reply
    BY <2>1
  <2> QED BY <2>2, <2>3, RowsAreOK, SameRuns
<1> QED BY <1>1, <1>2, <1>3, <1>4, <1>5, <1>6, <1>7, <1>8, <1>9, <1>10, <1>11, <1>12 DEF Next

LEMMA StorageInvHolds == Spec => []StorageInv
BY InitiallyAgreed, StorageInvIsKept, PTL DEF Spec

\* Every row of memory.ts keeps its columns, every index list and Map the ids it is
\* for, and a run has an owner exactly as long as its lease has an end, whatever calls
\* are made in whatever order.
THEOREM StorageTypesCorrect == Spec => []TypeOK
<1>1. StorageInv => TypeOK
  BY DEF StorageInv
<1> QED BY StorageInvHolds, <1>1, PTL

\* The Maps and index lists of memory.ts keep the constraints of the tables they stand
\* in for: no dangling id, no row outside the list of its run, no key that is taken by a
\* row that is gone or that names another row, no row without its run, and a watermark
\* that is the seq of the run's last signal, for every number of runs and rows.
THEOREM StorageIndexesAgree == Spec => []IndexesAgree
BY StorageInvHolds, StorageInvIsEnough, PTL

-----------------------------------------------------------------------------
(* Sorting and LIMIT *)

Oldest(where) == {w \in where \X where : w[1] = w[2] \/ ByCreatedAt(w[1], w[2])}

\* The order of created_at, and of insertion where two are the same, is total.
LEMMA OldestIsTotal ==
  ASSUME runs \in Seq(RunRow), NEW where \in SUBSET DOMAIN runs
  PROVE  /\ IsFiniteSet(where)
         /\ TotalOrder(Oldest(where), where)
         /\ \A i, j \in where : <<i, j>> \in Oldest(where) /\ i # j <=> ByCreatedAt(i, j)
         /\ \A i, j \in where : ~(ByCreatedAt(i, j) /\ ByCreatedAt(j, i)) /\ ~ByCreatedAt(i, i)
<1>1. /\ Len(runs) \in Nat /\ DOMAIN runs = 1..Len(runs)
      /\ \A i \in where : i \in Nat /\ runs[i].createdAt \in Nat
  <2>1. Len(runs) \in Nat /\ DOMAIN runs = 1..Len(runs)
    OBVIOUS
  <2>2. \A i \in where : i \in Nat /\ runs[i] \in RunRow
    BY <2>1
  <2> QED BY <2>1, <2>2 DEF RunRow
<1>2. IsFiniteSet(where)
  <2>1. IsFiniteSet(1..Len(runs))
    BY <1>1, FS_Interval
  <2> QED BY <1>1, <2>1, FS_Subset, Zenon
<1>3. \A i, j \in where : <<i, j>> \in Oldest(where) <=> i = j \/ ByCreatedAt(i, j)
  BY DEF Oldest
<1>4. \A i, j \in where : ~(ByCreatedAt(i, j) /\ ByCreatedAt(j, i))
                          /\ (i # j => ByCreatedAt(i, j) \/ ByCreatedAt(j, i))
  BY <1>1 DEF ByCreatedAt
<1>5. \A i, j, k \in where : ByCreatedAt(i, j) /\ ByCreatedAt(j, k) => ByCreatedAt(i, k)
  BY <1>1 DEF ByCreatedAt
<1>6. \A i \in where : ~ByCreatedAt(i, i)
  BY <1>1 DEF ByCreatedAt
<1>7. TotalOrder(Oldest(where), where)
  <2> HIDE DEF ByCreatedAt
  <2>1. \A i \in where : <<i, i>> \in Oldest(where)
    BY <1>3
  <2>2. \A i, j \in where : <<i, j>> \in Oldest(where) \/ <<j, i>> \in Oldest(where)
    BY <1>3, <1>4
  <2>3. \A i, j \in where :
          <<i, j>> \in Oldest(where) /\ <<j, i>> \in Oldest(where) => i = j
    BY <1>3, <1>4
  <2>4. \A i, j, k \in where :
          <<i, j>> \in Oldest(where) /\ <<j, k>> \in Oldest(where) => <<i, k>> \in Oldest(where)
    BY <1>3, <1>5
  <2> QED BY <2>1, <2>2, <2>3, <2>4 DEF TotalOrder
<1> QED BY <1>2, <1>3, <1>4, <1>6, <1>7

InOrder(s) == \A m, n \in DOMAIN s : m < n => ByCreatedAt(s[m], s[n])

\* A finite set of runs can be sorted.
LEMMA CanBeSorted ==
  ASSUME runs \in Seq(RunRow), NEW where \in SUBSET DOMAIN runs
  PROVE  \E s \in [1..Cardinality(where) -> where] : InOrder(s)
<1> DEFINE R == Oldest(where)
           size == Cardinality(where)
           nth(n) == CHOOSE i \in where : RankIn(R, where, i) = n
           s == [n \in 1..size |-> nth(n)]
<1>1. /\ TotalOrder(R, where) /\ Numbered(R, where)
      /\ \A i, j \in where : <<i, j>> \in R /\ i # j <=> ByCreatedAt(i, j)
  BY OldestIsTotal, RankInIsABijection, Zenon
<1> HIDE DEF R
<1>2. \A n \in 1..size : nth(n) \in where /\ RankIn(R, where, nth(n)) = n
  BY <1>1, Zenon DEF Numbered
<1>3. size \in Nat
  BY <1>1 DEF Numbered
<1> HIDE DEF nth, size
<1>4. s \in [1..size -> where]
  BY <1>2
<1>5. ASSUME NEW m \in 1..size, NEW n \in 1..size, m < n
      PROVE  ByCreatedAt(s[m], s[n])
  <2>1. RankIn(R, where, nth(m)) <= RankIn(R, where, nth(n)) /\ nth(m) # nth(n)
    BY <1>2, <1>3, <1>5
  <2>2. <<nth(m), nth(n)>> \in R
    BY <1>1, <1>2, <2>1 DEF Numbered
  <2> QED BY <1>1, <1>2, <2>1, <2>2
<1>6. InOrder(s)
  BY <1>4, <1>5 DEF InOrder
<1> QED BY <1>4, <1>6 DEF size

\* Sorted lists every run of a set once, in order.
LEMMA SortedIsSorted ==
  ASSUME runs \in Seq(RunRow), NEW where \in SUBSET DOMAIN runs
  PROVE  /\ Cardinality(where) \in Nat
         /\ Sorted(where) \in Bijection(1..Cardinality(where), where)
         /\ InOrder(Sorted(where))
<1> DEFINE s == Sorted(where)
           size == Cardinality(where)
<1>1. s \in [1..size -> where] /\ InOrder(s)
  BY CanBeSorted, Zenon DEF Sorted, InOrder
<1>2. IsFiniteSet(where) /\ size \in Nat
  BY OldestIsTotal, FS_CardinalityType, Zenon
<1>3. \A i \in where : ~ByCreatedAt(i, i)
  BY OldestIsTotal, Zenon
<1> HIDE DEF s, size
<1>4. \A m, n \in 1..size : s[m] = s[n] => m = n
  <2> SUFFICES ASSUME NEW m \in 1..size, NEW n \in 1..size, s[m] = s[n], m # n
               PROVE  FALSE
    OBVIOUS
  <2>1. m < n \/ n < m
    BY <1>2
  <2>2. ByCreatedAt(s[m], s[n]) \/ ByCreatedAt(s[n], s[m])
    BY <1>1, <2>1 DEF InOrder
  <2>3. s[m] \in where
    BY <1>1
  <2> QED BY <1>3, <2>2, <2>3
<1>5. s \in Injection(1..size, where)
  BY <1>1, <1>4 DEF Injection, IsInjective
<1>6. Cardinality(1..size) = size
  BY <1>2, FS_Interval
<1>7. s \in Surjection(1..size, where)
  <2>1. Cardinality(1..size) = Cardinality(where)
    BY <1>6 DEF size
  <2> QED BY <1>2, <1>5, <2>1, FS_Injection
<1>8. s \in Bijection(1..size, where)
  BY <1>5, <1>7 DEF Bijection
<1> QED BY <1>1, <1>2, <1>8 DEF s, size

LEMMA SameCardinality == \A S : Postgres!Cardinality(S) = Cardinality(S)
BY Zenon DEF Postgres!Cardinality, Cardinality

\* ORDER BY created_at, seq LIMIT limit takes what sort and slice take.
LEMMA SlicedIsFirst ==
  ASSUME runs \in Seq(RunRow), NEW where \in SUBSET DOMAIN runs, NEW limit \in Nat
  PROVE  Sliced(where, limit) = {runs[i].id : i \in Postgres!First(runs, where, limit)}
<1> DEFINE s == Sorted(where)
           size == Cardinality(where)
           Before(i) ==
             {j \in where : runs[j].createdAt < runs[i].createdAt
                             \/ (runs[j].createdAt = runs[i].createdAt /\ j < i)}
<1>1. size \in Nat /\ s \in Bijection(1..size, where) /\ InOrder(s)
  BY SortedIsSorted, Zenon
<1>2. \A i, j \in where : ~(ByCreatedAt(i, j) /\ ByCreatedAt(j, i)) /\ ~ByCreatedAt(i, i)
  BY OldestIsTotal, Zenon
<1>3. Sliced(where, limit) = {runs[s[k]].id : k \in {n \in DOMAIN s : n <= limit}}
  BY DEF Sliced
<1>4. Postgres!First(runs, where, limit) = {i \in where : limit > Cardinality(Before(i))}
  BY Zenon DEF Postgres!First, Postgres!Cardinality, Cardinality
<1> HIDE DEF s, size
<1>5. /\ DOMAIN s = 1..size
      /\ \A k \in 1..size : s[k] \in where
      /\ \A m, n \in 1..size : s[m] = s[n] => m = n
      /\ \A i \in where : \E k \in 1..size : s[k] = i
  BY <1>1 DEF Bijection, Injection, Surjection, IsInjective
<1>6. ASSUME NEW k \in 1..size
      PROVE  Cardinality(Before(s[k])) = k - 1
  <2> DEFINE low == 1..(k - 1)
             f == [n \in low |-> s[n]]
  <2>1. low \in SUBSET (1..size) /\ IsFiniteSet(low) /\ Cardinality(low) = k - 1
    <3>1. low \in SUBSET (1..size) /\ k - 1 \in Int /\ k - 1 >= 0
      BY <1>1
    <3>2. IsFiniteSet(low) /\ Cardinality(low) = IF 1 > k - 1 THEN 0 ELSE k - 1 - 1 + 1
      BY <3>1, FS_Interval
    <3> QED BY <3>1, <3>2
  <2>2. ASSUME NEW j \in where
        PROVE  ByCreatedAt(j, s[k]) <=> \E n \in low : s[n] = j
    <3>1. PICK n \in 1..size : s[n] = j
      BY <1>5
    <3>2. CASE n < k
      <4>1. n \in low
        BY <1>1, <3>2
      <4>2. ByCreatedAt(j, s[k])
        BY <1>1, <1>5, <3>1, <3>2 DEF InOrder
      <4> QED BY <3>1, <4>1, <4>2
    <3>3. CASE n = k
      <4>1. ~ByCreatedAt(j, s[k])
        BY <1>2, <3>1, <3>3
      <4>2. \A m \in low : s[m] # j
        BY <1>1, <1>5, <3>1, <3>3
      <4> QED BY <4>1, <4>2
    <3>4. CASE k < n
      <4>1. ByCreatedAt(s[k], j)
        BY <1>1, <1>5, <3>1, <3>4 DEF InOrder
      <4>2. ~ByCreatedAt(j, s[k])
        BY <1>2, <1>5, <4>1
      <4>3. \A m \in low : s[m] # j
        BY <1>1, <1>5, <3>1, <3>4
      <4> QED BY <4>2, <4>3
    <3> QED BY <1>1, <3>2, <3>3, <3>4
  <2>3. f \in Bijection(low, Before(s[k]))
    <3> HIDE DEF low
    <3>0. Before(s[k]) = {j \in where : ByCreatedAt(j, s[k])}
      BY Zenon DEF ByCreatedAt
    <3> HIDE DEF Before
    <3>1. \A n \in low : s[n] \in Before(s[k])
      BY <1>5, <2>1, <2>2, <3>0
    <3>2. \A m, n \in low : f[m] = f[n] => m = n
      BY <1>5, <2>1
    <3>3. \A j \in Before(s[k]) : \E n \in low : f[n] = j
      BY <2>2, <3>0
    <3>4. f \in [low -> Before(s[k])]
      BY <3>1
    <3> HIDE DEF f
    <3> QED BY <3>2, <3>3, <3>4 DEF Bijection, Injection, Surjection, IsInjective
  <2>4. ExistsBijection(low, Before(s[k]))
    BY <2>3, Zenon DEF ExistsBijection
  <2> HIDE DEF low, Before
  <2> QED BY <2>1, <2>4, FS_Bijection
<1>7. \A k \in 1..size : limit > Cardinality(Before(s[k])) <=> k <= limit
  BY <1>1, <1>6
<1> HIDE DEF Before
<1> QED BY <1>3, <1>4, <1>5, <1>7

-----------------------------------------------------------------------------
(* The tables the Maps stand in for *)

Tabled(map, lists) == [r \in RunIds |-> [i \in DOMAIN lists[r] |-> map[lists[r][i]]]]

\* No id dangles, so a table is the rows its lists name.
LEMMA TableIsTabled ==
  ASSUME NEW map, NEW lists, NEW existing, Agree(map, lists, existing)
  PROVE  TableOf(map, lists) = Tabled(map, lists)
<1> DEFINE listed(r) == [i \in DOMAIN lists[r] |-> map[lists[r][i]]]
           kept(r) == {i \in DOMAIN lists[r] : map[lists[r][i]] # None}
<1>1. ASSUME NEW r \in RunIds
      PROVE  Get(map, lists[r]) = listed(r)
  <2>1. Get(map, lists[r]) = Keep(listed(r), kept(r))
    BY DEF Get
  <2>2. kept(r) = DOMAIN lists[r]
    BY DEF Agree
  <2>3. DOMAIN listed(r) = DOMAIN lists[r]
    OBVIOUS
  <2> HIDE DEF listed, kept
  <2> QED BY <2>1, <2>2, <2>3, Zenon DEF Keep
<1>2. Tabled(map, lists) = [r \in RunIds |-> listed(r)]
  BY DEF Tabled
<1> HIDE DEF listed
<1> QED BY <1>1, <1>2 DEF TableOf

RowsOf(map) == {map[x] : x \in {y \in DOMAIN map : map[y] # None}}

\* The rows of all runs are the rows of the Map.
LEMMA AllRows ==
  ASSUME NEW map, NEW lists, NEW existing, Agree(map, lists, existing),
         lists \in [RunIds -> Seq(DOMAIN map)]
  PROVE  UNION {Postgres!Rows(TableOf(map, lists)[r]) : r \in RunIds} = RowsOf(map)
<1> DEFINE table(r) == TableOf(map, lists)[r]
<1>1. \A r \in RunIds : \A i \in DOMAIN lists[r] :
        lists[r][i] \in DOMAIN map /\ map[lists[r][i]] # None
  BY DEF Agree
<1>2. \A x \in DOMAIN map : map[x] # None =>
        \E r \in RunIds : \E i \in DOMAIN lists[r] : lists[r][i] = x
  BY DEF Agree
<1>3. TableOf(map, lists) = Tabled(map, lists)
  BY TableIsTabled
<1>4. \A r \in RunIds : table(r) = [i \in DOMAIN lists[r] |-> map[lists[r][i]]]
  BY <1>3 DEF Tabled
<1> HIDE DEF table
<1>5. ASSUME NEW r \in RunIds, NEW row \in Postgres!Rows(table(r))
      PROVE  row \in RowsOf(map)
  <2>1. PICK i \in DOMAIN lists[r] : row = map[lists[r][i]]
    BY <1>4 DEF Postgres!Rows
  <2> QED BY <1>1, <2>1 DEF RowsOf
<1>6. ASSUME NEW row \in RowsOf(map)
      PROVE  \E r \in RunIds : row \in Postgres!Rows(table(r))
  <2>1. PICK x \in DOMAIN map : map[x] # None /\ row = map[x]
    BY DEF RowsOf
  <2>2. PICK r \in RunIds : \E i \in DOMAIN lists[r] : lists[r][i] = x
    BY <1>2, <2>1
  <2>3. PICK i \in DOMAIN lists[r] : lists[r][i] = x
    BY <2>2
  <2>4. i \in DOMAIN table(r) /\ table(r)[i] = row
    BY <1>4, <2>1, <2>3
  <2> QED BY <2>4 DEF Postgres!Rows
<1>7. UNION {Postgres!Rows(table(r)) : r \in RunIds} = RowsOf(map)
  BY <1>5, <1>6
<1> QED BY <1>7 DEF table

Put(map, id, row) == [map EXCEPT ![id] = row]

Added(lists, run, x) == [lists EXCEPT ![run] = Append(@, x)]

\* INSERT.
LEMMA TabledAppend ==
  ASSUME NEW map, NEW lists, NEW existing, Agree(map, lists, existing),
         lists \in [RunIds -> Seq(DOMAIN map)],
         NEW id \in DOMAIN map, map[id] = None, NEW row, NEW run \in RunIds
  PROVE  Tabled(Put(map, id, row), Added(lists, run, id)) = Added(Tabled(map, lists), run, row)
<1> DEFINE Ids == DOMAIN map
           map2 == Put(map, id, row)
           lists2 == Added(lists, run, id)
           before(r) == [i \in DOMAIN lists[r] |-> map[lists[r][i]]]
           after(r) == [i \in DOMAIN lists2[r] |-> map2[lists2[r][i]]]
<1>1. \A r \in RunIds : \A i \in DOMAIN lists[r] : lists[r][i] \in Ids /\ lists[r][i] # id
  BY DEF Agree
<1>2. map2[id] = row /\ \A x \in Ids \ {id} : map2[x] = map[x]
  BY DEF Put
<1>3. lists2[run] = Append(lists[run], id) /\ \A r \in RunIds \ {run} : lists2[r] = lists[r]
  BY DEF Added
<1> HIDE DEF map2, lists2
<1>4. \A r \in RunIds \ {run} : after(r) = before(r)
  BY <1>1, <1>2, <1>3
<1>5. after(run) = Append(before(run), row)
  <2> DEFINE n == Len(lists[run])
  <2>1. /\ n \in Nat /\ DOMAIN lists[run] = 1..n
        /\ DOMAIN lists2[run] = 1..(n + 1)
        /\ lists2[run][n + 1] = id
        /\ \A i \in 1..n : lists2[run][i] = lists[run][i]
    BY <1>3
  <2>2. before(run) \in Seq({map[x] : x \in Ids}) /\ Len(before(run)) = n
    BY <1>1, <2>1
  <2> HIDE DEF n
  <2>3. \A i \in 1..n : after(run)[i] = before(run)[i]
    BY <1>1, <1>2, <2>1
  <2>4. after(run)[n + 1] = row /\ DOMAIN after(run) = 1..(n + 1)
    BY <1>2, <2>1
  <2> HIDE DEF before
  <2>5. /\ DOMAIN Append(before(run), row) = 1..(n + 1)
        /\ Append(before(run), row)[n + 1] = row
        /\ \A i \in 1..n : Append(before(run), row)[i] = before(run)[i]
    BY <2>2
  <2>6. \A i \in 1..(n + 1) : i \in 1..n \/ i = n + 1
    BY <2>1
  <2>7. \A i \in 1..(n + 1) : after(run)[i] = Append(before(run), row)[i]
    BY <2>3, <2>4, <2>5, <2>6
  <2>8. after(run) = [i \in 1..(n + 1) |-> after(run)[i]]
    BY <2>4, <2>1
  <2>9. Append(before(run), row) = [i \in 1..(n + 1) |-> Append(before(run), row)[i]]
    <3> DEFINE T == {map[x] : x \in Ids} \cup {row}
    <3>1. before(run) \in Seq(T) /\ row \in T
      BY <2>2
    <3> HIDE DEF T
    <3>2. Append(before(run), row) \in Seq(T)
      BY <3>1, AppendProperties
    <3>3. \A q \in Seq(T) : q = [i \in DOMAIN q |-> q[i]]
      OBVIOUS
    <3> QED BY <3>2, <3>3, <2>5, Zenon
  <2> HIDE DEF after
  <2> QED BY <2>7, <2>8, <2>9
<1>6. Tabled(map2, lists2) = [r \in RunIds |-> after(r)]
  BY DEF Tabled
<1>7. Tabled(map, lists) = [r \in RunIds |-> before(r)]
  BY DEF Tabled
<1> HIDE DEF before, after
<1> QED BY <1>4, <1>5, <1>6, <1>7 DEF map2, lists2, Added

Replaced(map, lists, id, row) ==
  [r \in RunIds |-> [i \in DOMAIN lists[r] |->
     IF map[lists[r][i]].id = id THEN row ELSE map[lists[r][i]]]]

\* UPDATE of one row.
LEMMA TabledPatch ==
  ASSUME NEW map, NEW lists, NEW existing, Agree(map, lists, existing),
         lists \in [RunIds -> Seq(DOMAIN map)],
         NEW id \in DOMAIN map, NEW row
  PROVE  Tabled(Put(map, id, row), lists) = Replaced(map, lists, id, row)
<1>1. \A r \in RunIds : \A i \in DOMAIN lists[r] :
        lists[r][i] \in DOMAIN map /\ map[lists[r][i]].id = lists[r][i]
  BY DEF Agree
<1>2. \A x \in DOMAIN map : Put(map, id, row)[x] = IF x = id THEN row ELSE map[x]
  BY DEF Put
<1> QED BY <1>1, <1>2 DEF Tabled, Replaced

\* DELETE ... ON DELETE CASCADE.
LEMMA TabledDelete ==
  ASSUME NEW map, NEW lists, NEW existing, Agree(map, lists, existing),
         lists \in [RunIds -> Seq(DOMAIN map)], NEW victims
  PROVE  Tabled(Without(map, Named(lists, victims)), Emptied(lists, victims))
           = [r \in RunIds |-> IF r \in victims THEN << >> ELSE Tabled(map, lists)[r]]
<1> DEFINE gone == Named(lists, victims)
           map2 == Without(map, gone)
           lists2 == Emptied(lists, victims)
           after(r) == [i \in DOMAIN lists2[r] |-> map2[lists2[r][i]]]
           before(r) == [i \in DOMAIN lists[r] |-> map[lists[r][i]]]
<1> DEFINE Ids == DOMAIN map
<1>1. \A x \in Ids : map[x] # None => (x \in gone <=> map[x].runId \in victims)
  BY AgreeAfterDelete, Zenon
<1>2. \A r \in RunIds : \A i \in DOMAIN lists[r] :
        lists[r][i] \in Ids /\ map[lists[r][i]] # None /\ map[lists[r][i]].runId = r
  BY DEF Agree
<1>3. \A r \in RunIds : lists2[r] = IF r \in victims THEN << >> ELSE lists[r]
  BY DEF Emptied
<1>4. \A x \in Ids : map2[x] = IF x \in gone THEN None ELSE map[x]
  BY DEF Without
<1> HIDE DEF gone, map2, lists2
<1>5. \A r \in RunIds : r \notin victims => after(r) = before(r)
  BY <1>1, <1>2, <1>3, <1>4
<1>6. \A r \in RunIds : r \in victims => after(r) = << >>
  BY <1>3
<1>7. Tabled(map2, lists2) = [r \in RunIds |-> after(r)]
  BY DEF Tabled
<1>8. Tabled(map, lists) = [r \in RunIds |-> before(r)]
  BY DEF Tabled
<1> HIDE DEF before, after
<1> QED BY <1>5, <1>6, <1>7, <1>8 DEF gone, map2, lists2

-----------------------------------------------------------------------------
(* One call, one statement: the runs *)

\* The other tables do not move as long as their Maps and lists do not.
LEMMA SameTables ==
  /\ UNCHANGED stepVars => UNCHANGED TableOf(stepRuns, stepRunsByRun)
  /\ UNCHANGED signalVars => UNCHANGED TableOf(signals, signalsByRun)
  /\ UNCHANGED eventVars => UNCHANGED TableOf(events, eventsByRun)
BY DEF stepVars, signalVars, eventVars

LEMMA AnswerIsRefused == ASSUME NEW what, Answer(what) PROVE Postgres!Refused(what)
BY SameTables DEF Answer, Postgres!Refused, signalVars

LEMMA RunsExist == \A r : Postgres!RunExists(r) <=> HasRun(r)
BY DEF Postgres!RunExists, Postgres!Rows, HasRun

LEMMA CreateRunRefines ==
  ASSUME NEW run, CreateRun(run)
  PROVE  Postgres!CreateRun(run)
<1>1. CASE HasRun(run.id)
  BY <1>1, AnswerIsRefused, RunsExist DEF CreateRun, Postgres!CreateRun
<1>2. CASE ~HasRun(run.id)
  BY <1>2, RunsExist, SameTables DEF CreateRun, Postgres!CreateRun, signalVars
<1> QED BY <1>1, <1>2

LEMMA SetRowIsUpdate ==
  ASSUME NEW id, NEW patch, SetRow(id, patch)
  PROVE  runs' = Postgres!UpdateRows(runs, id, patch)
BY Zenon DEF SetRow, Merge, Postgres!UpdateRows, Postgres!Patched

LEMMA UpdateRunRefines ==
  ASSUME NEW id, NEW patch, UpdateRun(id, patch)
  PROVE  Postgres!UpdateRun(id, patch)
BY SetRowIsUpdate, SameTables DEF UpdateRun, Postgres!UpdateRun, signalVars

LEMMA HeldIsOwned == \A id, owner : Postgres!Owned(id, owner) <=> Holds(id, owner)
BY DEF Postgres!Owned, Postgres!Rows, Holds

LEMMA RenewLeaseRefines ==
  ASSUME NEW id, NEW owner, NEW at, RenewLease(id, owner, at)
  PROVE  Postgres!RenewLease(id, owner, at)
<1>1. CASE ~Holds(id, owner)
  BY <1>1, AnswerIsRefused, HeldIsOwned DEF RenewLease, Postgres!RenewLease
<1>2. CASE Holds(id, owner)
  <2>1. /\ SetRow(id, [leaseExpiresAt |-> at + LeaseMs]) /\ reply' = "ok"
        /\ UNCHANGED <<stepVars, signalVars, eventVars>>
    BY <1>2 DEF RenewLease
  <2>2. runs' = Postgres!UpdateRows(runs, id, [leaseExpiresAt |-> at + LeaseMs])
    BY <2>1, SetRowIsUpdate, Zenon
  <2> QED BY <1>2, <2>1, <2>2, HeldIsOwned, SameTables DEF Postgres!RenewLease, signalVars
<1> QED BY <1>1, <1>2

LEMMA ReleaseLeaseRefines ==
  ASSUME NEW id, NEW owner, ReleaseLease(id, owner)
  PROVE  Postgres!ReleaseLease(id, owner)
<1>1. CASE ~Holds(id, owner)
  BY <1>1, AnswerIsRefused, HeldIsOwned DEF ReleaseLease, Postgres!ReleaseLease
<1>2. CASE Holds(id, owner)
  <2>1. /\ SetRow(id, [leaseOwner |-> None, leaseExpiresAt |-> None]) /\ reply' = "ok"
        /\ UNCHANGED <<stepVars, signalVars, eventVars>>
    BY <1>2 DEF ReleaseLease
  <2>2. runs' = Postgres!UpdateRows(runs, id, [leaseOwner |-> None, leaseExpiresAt |-> None])
    BY <2>1, SetRowIsUpdate, Zenon
  <2> QED BY <1>2, <2>1, <2>2, HeldIsOwned, SameTables DEF Postgres!ReleaseLease, signalVars
<1> QED BY <1>1, <1>2

\* The rows behind the tables of step runs, signals and events.
LEMMA RowsOfTables ==
  ASSUME StorageInv
  PROVE  /\ Postgres!AllStepRuns = RowsOf(stepRuns)
         /\ Postgres!AllSignals = RowsOf(signals)
         /\ Postgres!AllEvents = RowsOf(events)
<1>1. /\ stepRunsByRun \in [RunIds -> Seq(DOMAIN stepRuns)]
      /\ signalsByRun \in [RunIds -> Seq(DOMAIN signals)]
      /\ eventsByRun \in [RunIds -> Seq(DOMAIN events)]
  BY DEF StorageInv, TypeOK
<1>2. /\ Agree(stepRuns, stepRunsByRun, Existing)
      /\ Agree(signals, signalsByRun, Existing)
      /\ Agree(events, eventsByRun, Existing)
  BY DEF StorageInv
<1> QED BY <1>1, <1>2, AllRows DEF Postgres!AllStepRuns, Postgres!AllSignals, Postgres!AllEvents

\* isSignalEligible is the WHERE of the two statements that look for signals.
LEMMA EligibleIsUsable ==
  ASSUME NEW s, NEW wait
  PROVE  Eligible(s, wait) <=> Postgres!Usable(s, wait.waitFor, wait.stepId, wait.waitSinceSeq)
BY Zenon DEF Eligible, IsSignalEligible, Postgres!Usable

\* A parked run that a signal waits for, as claimDue and as CLAIM_DUE_SQL find it.
LEMMA PendingIsUsable ==
  ASSUME StorageInv, NEW run \in RunRow, run.status = "WAITING"
  PROVE  HasPendingSignal(run) <=>
           \E s \in Postgres!Rows(TableOf(signals, signalsByRun)[run.id]), sr \in Postgres!AllStepRuns :
              /\ sr.id = run.currentStepRunId
              /\ sr.waitFor # None
              /\ Postgres!Usable(s, sr.waitFor, sr.stepId, sr.waitSinceSeq)
<1> DEFINE current == run.currentStepRunId
           sent == Range(Get(signals, signalsByRun[run.id]))
<1>1. run.id \in RunIds /\ current \in StepRunIds \cup {None}
  BY DEF RunRow, RunColumns
<1>2. Postgres!Rows(TableOf(signals, signalsByRun)[run.id]) = sent
  BY <1>1 DEF TableOf, Postgres!Rows, Range
<1>3. \A sr : sr \in Postgres!AllStepRuns <=>
                \E x \in StepRunIds : stepRuns[x] # None /\ sr = stepRuns[x]
  BY RowsOfTables DEF RowsOf, StorageInv, TypeOK
<1>4. \A x \in StepRunIds : stepRuns[x] # None => stepRuns[x].id = x
  BY DEF StorageInv, Agree, TypeOK
<1>5. None \notin StepRunIds
  BY RowsAreTyped
<1>6. HasPendingSignal(run) <=>
        /\ current # None /\ stepRuns[current] # None /\ stepRuns[current].waitFor # None
        /\ \E s \in sent : Eligible(s, stepRuns[current])
  BY Zenon DEF HasPendingSignal
<1> HIDE DEF sent, current
<1>7. ASSUME current # None, stepRuns[current] # None
      PROVE  current \in StepRunIds /\ stepRuns[current] \in Postgres!AllStepRuns
             /\ stepRuns[current].id = current
  BY <1>1, <1>3, <1>4, <1>7
<1>8. ASSUME NEW sr \in Postgres!AllStepRuns, sr.id = current
      PROVE  current # None /\ stepRuns[current] # None /\ sr = stepRuns[current]
  BY <1>3, <1>4, <1>5, <1>8
<1>9. ASSUME HasPendingSignal(run)
      PROVE  \E s \in sent, sr \in Postgres!AllStepRuns :
               /\ sr.id = current /\ sr.waitFor # None
               /\ Postgres!Usable(s, sr.waitFor, sr.stepId, sr.waitSinceSeq)
  BY <1>6, <1>7, <1>9, EligibleIsUsable
<1>10. ASSUME NEW s \in sent, NEW sr \in Postgres!AllStepRuns,
              sr.id = current, sr.waitFor # None,
              Postgres!Usable(s, sr.waitFor, sr.stepId, sr.waitSinceSeq)
       PROVE  HasPendingSignal(run)
  BY <1>6, <1>8, <1>10, EligibleIsUsable
<1> QED BY <1>2, <1>9, <1>10 DEF current

LEMMA DueIsClaimable ==
  ASSUME StorageInv, NEW run \in RunRow, NEW at \in Nat
  PROVE  Due(run, at) <=> Postgres!Claimable(run, at)
<1>1. CLAIMABLE_RUN_STATUSES = Postgres!CLAIMABLE_RUN_STATUSES
  BY DEF CLAIMABLE_RUN_STATUSES, Postgres!CLAIMABLE_RUN_STATUSES
<1>2. IsRunDue([status |-> run.status, wakeAt |-> WakeAtOf(run, at)]) <=>
        IF run.status # "WAITING" THEN run.wakeAt = None \/ run.wakeAt <= at
                                  ELSE run.wakeAt # None /\ run.wakeAt <= at
  BY DEF IsRunDue, WakeAtOf
<1>3. run.status # "WAITING" => ~HasPendingSignal(run)
  BY DEF HasPendingSignal
<1>4. CASE run.status # "WAITING"
  BY <1>1, <1>2, <1>3, <1>4, Zenon DEF Due, Expired, Postgres!Claimable
<1>5. CASE run.status = "WAITING"
  BY <1>1, <1>2, <1>5, PendingIsUsable, Zenon DEF Due, Expired, Postgres!Claimable
<1> QED BY <1>4, <1>5

\* The rows a claim writes, by id as in memory and by position as in the table.
LEMMA ByIdIsByPosition ==
  ASSUME StorageInv, NEW where \in SUBSET DOMAIN runs, NEW taken \in SUBSET where,
         NEW i \in DOMAIN runs
  PROVE  runs[i].id \in {runs[j].id : j \in taken} <=> i \in taken
BY DEF StorageInv

LEMMA ClaimDueRefines ==
  ASSUME StorageInv, NEW owner \in Owners, NEW at \in Times, NEW limit \in Limits,
         ClaimDue(owner, at, limit)
  PROVE  Postgres!ClaimDue(owner, at, limit)
<1> DEFINE where == {i \in DOMAIN runs : Due(runs[i], at)}
           claimed == Postgres!First(runs, where, limit)
           lease == [leaseOwner |-> owner, leaseExpiresAt |-> at + LeaseMs]
<1>1. runs \in Seq(RunRow) /\ limit \in Nat /\ at \in Nat
  BY StorageAssumption DEF StorageInv, TypeOK
<1>2. \A i \in DOMAIN runs : runs[i] \in RunRow
  BY <1>1
<1>3. where = {i \in DOMAIN runs : Postgres!Claimable(runs[i], at)}
  BY <1>1, <1>2, DueIsClaimable
<1>4. Sliced(where, limit) = {runs[i].id : i \in claimed}
  BY <1>1, SlicedIsFirst
<1>5. claimed \in SUBSET where
  BY DEF Postgres!First
<1>6. /\ runs' = [i \in DOMAIN runs |->
                   IF runs[i].id \in Sliced(where, limit) THEN Merge(runs[i], lease) ELSE runs[i]]
      /\ reply' = IF Sliced(where, limit) = {} THEN "no" ELSE "ok"
      /\ UNCHANGED <<stepVars, signalVars, eventVars>>
  BY DEF ClaimDue
<1>7. \A i : Merge(runs[i], lease) = Postgres!Patched(runs[i], lease)
  BY Zenon DEF Merge, Postgres!Patched
<1>8. \A i \in DOMAIN runs : runs[i].id \in Sliced(where, limit) <=> i \in claimed
  <2>1. where \in SUBSET DOMAIN runs
    OBVIOUS
  <2> HIDE DEF where, claimed
  <2> QED BY <1>4, <1>5, <2>1, ByIdIsByPosition
<1>9. Sliced(where, limit) = {} <=> claimed = {}
  <2> HIDE DEF where, claimed
  <2> QED BY <1>4
<1> HIDE DEF where
<1>10. /\ runs' = [i \in DOMAIN runs |->
                    IF i \in claimed
                      THEN Postgres!Patched(runs[i], lease)
                      ELSE runs[i]]
       /\ reply' = IF claimed = {} THEN "no" ELSE "ok"
  <2> HIDE DEF claimed, lease
  <2> QED BY <1>6, <1>7, <1>8, <1>9
<1>11. /\ UNCHANGED TableOf(stepRuns, stepRunsByRun) /\ UNCHANGED TableOf(signals, signalsByRun)
       /\ UNCHANGED TableOf(events, eventsByRun) /\ UNCHANGED signalSeq
  BY <1>6, SameTables DEF signalVars
<1> QED BY <1>3, <1>10, <1>11, Zenon DEF Postgres!ClaimDue

LEMMA SameKeep == \A list, kept : Postgres!Keep(list, kept) = Keep(list, kept)
BY Zenon DEF Postgres!Keep, Keep, Postgres!Rank, Rank, Postgres!Cardinality, Cardinality

\* One DELETE with its cascade, and #deleteRun victim by victim.
LEMMA DeleteTerminalBeforeRefines ==
  ASSUME StorageInv, StorageInv', NEW before \in Times, NEW limit \in Limits,
         DeleteTerminalBefore(before, limit)
  PROVE  Postgres!DeleteTerminalBefore(before, limit)
<1> DEFINE where == {i \in DOMAIN runs : /\ IsTerminalRunStatus(runs[i].status)
                                         /\ runs[i].completedAt # None
                                         /\ runs[i].completedAt < before}
           victims == Sliced(where, limit)
<1>1. runs \in Seq(RunRow) /\ limit \in Nat
  BY StorageAssumption DEF StorageInv, TypeOK
<1>2. victims = {runs[i].id : i \in Postgres!First(runs, where, limit)}
  BY <1>1, SlicedIsFirst
<1>3. where = {i \in DOMAIN runs : /\ runs[i].status \in Postgres!TERMINAL_RUN_STATUSES
                                   /\ runs[i].completedAt # None
                                   /\ runs[i].completedAt < before}
  BY Zenon DEF IsTerminalRunStatus, TERMINAL_RUN_STATUSES, Postgres!TERMINAL_RUN_STATUSES
<1>4. /\ runs' = RunsWithout(victims)
      /\ stepRuns' = [x \in StepRunIds |->
                        IF x \in Named(stepRunsByRun, victims) THEN None ELSE stepRuns[x]]
      /\ signals' = [s \in SignalIds |->
                       IF s \in Named(signalsByRun, victims) THEN None ELSE signals[s]]
      /\ events' = [e \in EventIds |->
                      IF e \in Named(eventsByRun, victims) THEN None ELSE events[e]]
      /\ stepRunsByRun' = Emptied(stepRunsByRun, victims)
      /\ signalsByRun' = Emptied(signalsByRun, victims)
      /\ eventsByRun' = Emptied(eventsByRun, victims)
      /\ reply' = IF victims = {} THEN "no" ELSE "ok"
      /\ signalSeq' = signalSeq
  BY DEF DeleteTerminalBefore
<1> HIDE DEF where, victims
<1>5. runs' = Postgres!Keep(runs, {i \in DOMAIN runs : runs[i].id \notin victims})
  BY <1>4, SameKeep, Zenon DEF RunsWithout
<1>6. /\ DOMAIN stepRuns = StepRunIds /\ stepRunsByRun \in [RunIds -> Seq(DOMAIN stepRuns)]
      /\ DOMAIN signals = SignalIds /\ signalsByRun \in [RunIds -> Seq(DOMAIN signals)]
      /\ DOMAIN events = EventIds /\ eventsByRun \in [RunIds -> Seq(DOMAIN events)]
  BY DEF StorageInv, TypeOK
<1>7. /\ stepRuns' = Without(stepRuns, Named(stepRunsByRun, victims))
      /\ signals' = Without(signals, Named(signalsByRun, victims))
      /\ events' = Without(events, Named(eventsByRun, victims))
  BY <1>4, <1>6, Zenon DEF Without
<1>8. /\ Agree(stepRuns, stepRunsByRun, Existing) /\ Agree(stepRuns', stepRunsByRun', Existing')
      /\ Agree(signals, signalsByRun, Existing) /\ Agree(signals', signalsByRun', Existing')
      /\ Agree(events, eventsByRun, Existing) /\ Agree(events', eventsByRun', Existing')
  BY DEF StorageInv
<1>9. TableOf(stepRuns', stepRunsByRun') =
        [r \in RunIds |-> IF r \in victims THEN << >> ELSE TableOf(stepRuns, stepRunsByRun)[r]]
  <2>1. /\ TableOf(stepRuns, stepRunsByRun) = Tabled(stepRuns, stepRunsByRun)
        /\ TableOf(stepRuns', stepRunsByRun') = Tabled(stepRuns', stepRunsByRun')
    BY <1>8, TableIsTabled
  <2>2. Tabled(Without(stepRuns, Named(stepRunsByRun, victims)), Emptied(stepRunsByRun, victims)) =
          [r \in RunIds |-> IF r \in victims THEN << >> ELSE Tabled(stepRuns, stepRunsByRun)[r]]
    <3>1. Agree(stepRuns, stepRunsByRun, Existing) /\ stepRunsByRun \in [RunIds -> Seq(DOMAIN stepRuns)]
      BY <1>6, <1>8
    <3> QED BY <3>1, TabledDelete
  <2> QED BY <1>4, <1>7, <2>1, <2>2, Zenon
<1>10. TableOf(signals', signalsByRun') =
         [r \in RunIds |-> IF r \in victims THEN << >> ELSE TableOf(signals, signalsByRun)[r]]
  <2>1. /\ TableOf(signals, signalsByRun) = Tabled(signals, signalsByRun)
        /\ TableOf(signals', signalsByRun') = Tabled(signals', signalsByRun')
    BY <1>8, TableIsTabled
  <2>2. Tabled(Without(signals, Named(signalsByRun, victims)), Emptied(signalsByRun, victims)) =
          [r \in RunIds |-> IF r \in victims THEN << >> ELSE Tabled(signals, signalsByRun)[r]]
    <3>1. Agree(signals, signalsByRun, Existing) /\ signalsByRun \in [RunIds -> Seq(DOMAIN signals)]
      BY <1>6, <1>8
    <3> QED BY <3>1, TabledDelete
  <2> QED BY <1>4, <1>7, <2>1, <2>2, Zenon
<1>11. TableOf(events', eventsByRun') =
         [r \in RunIds |-> IF r \in victims THEN << >> ELSE TableOf(events, eventsByRun)[r]]
  <2>1. /\ TableOf(events, eventsByRun) = Tabled(events, eventsByRun)
        /\ TableOf(events', eventsByRun') = Tabled(events', eventsByRun')
    BY <1>8, TableIsTabled
  <2>2. Tabled(Without(events, Named(eventsByRun, victims)), Emptied(eventsByRun, victims)) =
          [r \in RunIds |-> IF r \in victims THEN << >> ELSE Tabled(events, eventsByRun)[r]]
    <3>1. Agree(events, eventsByRun, Existing) /\ eventsByRun \in [RunIds -> Seq(DOMAIN events)]
      BY <1>6, <1>8
    <3> QED BY <3>1, TabledDelete
  <2> QED BY <1>4, <1>7, <2>1, <2>2, Zenon
<1> QED BY <1>2, <1>3, <1>4, <1>5, <1>9, <1>10, <1>11, Zenon DEF Postgres!DeleteTerminalBefore

-----------------------------------------------------------------------------
(* One call, one statement: step runs, events and signals *)

LEMMA InTables ==
  ASSUME StorageInv
  PROVE  /\ Agree(stepRuns, stepRunsByRun, Existing)
         /\ DOMAIN stepRuns = StepRunIds /\ stepRunsByRun \in [RunIds -> Seq(DOMAIN stepRuns)]
         /\ Agree(signals, signalsByRun, Existing)
         /\ DOMAIN signals = SignalIds /\ signalsByRun \in [RunIds -> Seq(DOMAIN signals)]
         /\ Agree(events, eventsByRun, Existing)
         /\ DOMAIN events = EventIds /\ eventsByRun \in [RunIds -> Seq(DOMAIN events)]
BY DEF StorageInv, TypeOK

\* An id is taken in the Map exactly if a row of the table has it.
LEMMA TakenIds ==
  ASSUME NEW map, NEW lists, NEW existing, Agree(map, lists, existing), NEW id \in DOMAIN map
  PROVE  map[id] # None <=> \E row \in RowsOf(map) : row.id = id
BY DEF Agree, RowsOf

LEMMA CreateStepRunRefines ==
  ASSUME StorageInv, StorageInv', NEW new \in NewStepRuns, CreateStepRun(new)
  PROVE  Postgres!CreateStepRun(new)
<1>1. /\ new.id \in StepRunIds /\ new.runId \in RunIds /\ new.key \in Keys
      /\ None \notin StepRunIds
  BY StorageAssumption DEF StepRow, StepColumns
<1>2. stepRuns[new.id] # None <=> \E sr \in Postgres!AllStepRuns : sr.id = new.id
  BY <1>1, InTables, TakenIds, RowsOfTables
<1>3. stepRunByKey[new.key] # None <=> \E sr \in Postgres!AllStepRuns : sr.key = new.key
  <2>1. stepRunByKey[new.key] \in StepRunIds \cup {None}
    BY <1>1 DEF StorageInv, TypeOK
  <2>2. \A x \in StepRunIds : stepRuns[x] # None => stepRunByKey[stepRuns[x].key] = x
    BY DEF StorageInv, KeyIndexAgrees
  <2>3. stepRunByKey[new.key] # None =>
          stepRuns[stepRunByKey[new.key]] # None /\ stepRuns[stepRunByKey[new.key]].key = new.key
    BY <1>1 DEF StorageInv, KeyIndexAgrees
  <2> QED BY <1>1, <2>1, <2>2, <2>3, InTables, RowsOfTables DEF RowsOf
<1>4. CASE ~HasRun(new.runId) \/ stepRuns[new.id] # None \/ stepRunByKey[new.key] # None
  <2>1. Postgres!Refused("conflict")
    BY <1>4, AnswerIsRefused DEF CreateStepRun
  <2> QED BY <1>2, <1>3, <1>4, <2>1, RunsExist DEF Postgres!CreateStepRun
<1>5. CASE ~(~HasRun(new.runId) \/ stepRuns[new.id] # None \/ stepRunByKey[new.key] # None)
  <2>1. /\ stepRuns' = [stepRuns EXCEPT ![new.id] = new]
        /\ stepRunsByRun' = [stepRunsByRun EXCEPT ![new.runId] = Append(@, new.id)]
        /\ reply' = "ok" /\ runs' = runs
        /\ UNCHANGED signalVars /\ UNCHANGED eventVars
    BY <1>5 DEF CreateStepRun
  <2>2. /\ TableOf(stepRuns, stepRunsByRun) = Tabled(stepRuns, stepRunsByRun)
        /\ TableOf(stepRuns', stepRunsByRun') = Tabled(stepRuns', stepRunsByRun')
    BY TableIsTabled DEF StorageInv
  <2>3. Tabled(Put(stepRuns, new.id, new), Added(stepRunsByRun, new.runId, new.id))
          = Added(Tabled(stepRuns, stepRunsByRun), new.runId, new)
    <3>1. /\ Agree(stepRuns, stepRunsByRun, Existing) /\ stepRunsByRun \in [RunIds -> Seq(DOMAIN stepRuns)]
          /\ new.id \in DOMAIN stepRuns /\ stepRuns[new.id] = None
      BY <1>1, <1>5, InTables
    <3> QED BY <1>1, <3>1, TabledAppend
  <2>4. TableOf(stepRuns', stepRunsByRun')
          = [TableOf(stepRuns, stepRunsByRun) EXCEPT ![new.runId] = Append(@, new)]
    BY <2>1, <2>2, <2>3, Zenon DEF Put, Added
  <2>5. /\ UNCHANGED TableOf(signals, signalsByRun) /\ UNCHANGED TableOf(events, eventsByRun)
        /\ UNCHANGED signalSeq
    BY <2>1, SameTables DEF signalVars
  <2> QED BY <1>2, <1>3, <1>5, <2>1, <2>4, <2>5, RunsExist, Zenon DEF Postgres!CreateStepRun
<1> QED BY <1>4, <1>5

LEMMA AppendEventRefines ==
  ASSUME StorageInv, StorageInv', NEW new \in NewEvents, AppendEvent(new)
  PROVE  Postgres!AppendEvent(new)
<1>1. new.id \in EventIds /\ new.runId \in RunIds
  BY StorageAssumption DEF EventRow
<1>2. events[new.id] # None <=> \E e \in Postgres!AllEvents : e.id = new.id
  BY <1>1, InTables, TakenIds, RowsOfTables
<1>3. CASE ~HasRun(new.runId) \/ events[new.id] # None
  <2>1. Postgres!Refused("conflict")
    BY <1>3, AnswerIsRefused DEF AppendEvent
  <2> QED BY <1>2, <1>3, <2>1, RunsExist DEF Postgres!AppendEvent
<1>4. CASE ~(~HasRun(new.runId) \/ events[new.id] # None)
  <2>1. /\ events' = [events EXCEPT ![new.id] = new]
        /\ eventsByRun' = [eventsByRun EXCEPT ![new.runId] = Append(@, new.id)]
        /\ reply' = "ok" /\ runs' = runs
        /\ UNCHANGED stepVars /\ UNCHANGED signalVars
    BY <1>4 DEF AppendEvent
  <2>2. /\ TableOf(events, eventsByRun) = Tabled(events, eventsByRun)
        /\ TableOf(events', eventsByRun') = Tabled(events', eventsByRun')
    BY TableIsTabled DEF StorageInv
  <2>3. Tabled(Put(events, new.id, new), Added(eventsByRun, new.runId, new.id))
          = Added(Tabled(events, eventsByRun), new.runId, new)
    <3>1. /\ Agree(events, eventsByRun, Existing) /\ eventsByRun \in [RunIds -> Seq(DOMAIN events)]
          /\ new.id \in DOMAIN events /\ events[new.id] = None
      BY <1>1, <1>4, InTables
    <3> QED BY <1>1, <3>1, TabledAppend
  <2>4. TableOf(events', eventsByRun')
          = [TableOf(events, eventsByRun) EXCEPT ![new.runId] = Append(@, new)]
    BY <2>1, <2>2, <2>3, Zenon DEF Put, Added
  <2>5. /\ UNCHANGED TableOf(signals, signalsByRun) /\ UNCHANGED TableOf(stepRuns, stepRunsByRun)
        /\ UNCHANGED signalSeq
    BY <2>1, SameTables DEF signalVars
  <2> QED BY <1>2, <1>4, <2>1, <2>4, <2>5, RunsExist, Zenon DEF Postgres!AppendEvent
<1> QED BY <1>3, <1>4

\* The driver sends the payload of a wait as JSON unless it is a string.
ObjectPayloads ==
  \A x \in StepRunIds : \A patch \in StepRunPatches[x] :
    "waitPayload" \in DOMAIN patch => patch.waitPayload # "text"

\* No caller patches a key that another step run has, so UNIQUE never refuses.
LEMMA UpdateStepRunRefines ==
  ASSUME StorageInv, StorageInv', ObjectPayloads,
         NEW id \in StepRunIds, NEW patch \in StepRunPatches[id], UpdateStepRun(id, patch)
  PROVE  Postgres!UpdateStepRun(id, patch)
<1> DEFINE table == TableOf(stepRuns, stepRunsByRun)
           set(r) == [i \in DOMAIN stepRunsByRun[r] |->
                        IF stepRuns[stepRunsByRun[r][i]].id = id
                          THEN Merge(stepRuns[stepRunsByRun[r][i]], patch)
                          ELSE stepRuns[stepRunsByRun[r][i]]]
<1>1. ~Postgres!NotJson(patch)
  BY DEF ObjectPayloads, Postgres!NotJson
<1>2. \A x \in StepRunIds : stepRuns[x] # None => stepRuns[x].id = x
  BY InTables DEF Agree
<1>3. ~("key" \in DOMAIN patch /\ \E sr \in Postgres!AllStepRuns : sr.id # id /\ sr.key = patch.key)
  <2>1. "key" \in DOMAIN patch => \A y \in StepRunIds \ {id} : patch.key \notin KeysOf(y)
    BY StorageAssumption
  <2>2. \A x \in StepRunIds : stepRuns[x] # None => stepRuns[x].key \in KeysOf(x)
    BY DEF StorageInv, KeysAreOwn
  <2> QED BY <1>2, <2>1, <2>2, InTables, RowsOfTables DEF RowsOf
<1>4. table = Tabled(stepRuns, stepRunsByRun)
  BY InTables, TableIsTabled
<1>5. \A r \in RunIds : Postgres!UpdateRows(table[r], id, patch) = set(r)
  <2> SUFFICES ASSUME NEW r \in RunIds
               PROVE  Postgres!UpdateRows(table[r], id, patch) = set(r)
    OBVIOUS
  <2>1. table[r] = [i \in DOMAIN stepRunsByRun[r] |-> stepRuns[stepRunsByRun[r][i]]]
    BY <1>4 DEF Tabled
  <2>2. \A row : Postgres!Patched(row, patch) = Merge(row, patch)
    BY Zenon DEF Postgres!Patched, Merge
  <2> HIDE DEF table
  <2> QED BY <2>1, <2>2 DEF Postgres!UpdateRows
<1>6. [r \in RunIds |-> Postgres!UpdateRows(table[r], id, patch)] = [r \in RunIds |-> set(r)]
  <2> HIDE DEF set, table
  <2> QED BY <1>5
<1>7. TableOf(stepRuns', stepRunsByRun') = [r \in RunIds |-> set(r)]
      /\ reply' = "ok" /\ runs' = runs /\ UNCHANGED signalVars /\ UNCHANGED eventVars
  <2>1. CASE stepRuns[id] = None
    <3>1. /\ reply' = "ok" /\ runs' = runs
          /\ stepRuns' = stepRuns /\ stepRunsByRun' = stepRunsByRun
          /\ UNCHANGED signalVars /\ UNCHANGED eventVars
      BY <2>1 DEF UpdateStepRun, Answer, stepVars
    <3>2. ASSUME NEW r \in RunIds, NEW i \in DOMAIN stepRunsByRun[r]
          PROVE  stepRuns[stepRunsByRun[r][i]].id # id
      <4>1. stepRunsByRun[r][i] \in StepRunIds /\ stepRuns[stepRunsByRun[r][i]] # None
        BY InTables DEF Agree
      <4> QED BY <1>2, <2>1, <4>1
    <3>3. \A r \in RunIds : set(r) = [i \in DOMAIN stepRunsByRun[r] |-> stepRuns[stepRunsByRun[r][i]]]
      BY <3>2
    <3>4. table = [r \in RunIds |-> set(r)]
      <4> HIDE DEF set, table
      <4> QED BY <1>4, <3>3 DEF Tabled
    <3> QED BY <3>1, <3>4
  <2>2. CASE stepRuns[id] # None
    <3> DEFINE row == Merge(stepRuns[id], patch)
    <3>1. /\ reply' = "ok" /\ runs' = runs
          /\ stepRuns' = Put(stepRuns, id, row) /\ stepRunsByRun' = stepRunsByRun
          /\ UNCHANGED signalVars /\ UNCHANGED eventVars
      BY <2>2 DEF UpdateStepRun, Put
    <3> HIDE DEF row
    <3>2. TableOf(stepRuns', stepRunsByRun') = Tabled(stepRuns', stepRunsByRun')
      BY TableIsTabled DEF StorageInv
    <3>3. Tabled(Put(stepRuns, id, row), stepRunsByRun) = Replaced(stepRuns, stepRunsByRun, id, row)
      <4>1. /\ Agree(stepRuns, stepRunsByRun, Existing) /\ id \in DOMAIN stepRuns
            /\ stepRunsByRun \in [RunIds -> Seq(DOMAIN stepRuns)]
        BY InTables
      <4> QED BY <4>1, TabledPatch, Zenon
    <3>4. \A r \in RunIds : \A i \in DOMAIN stepRunsByRun[r] :
            stepRuns[stepRunsByRun[r][i]].id = id => stepRuns[stepRunsByRun[r][i]] = stepRuns[id]
      <4> SUFFICES ASSUME NEW r \in RunIds, NEW i \in DOMAIN stepRunsByRun[r]
                   PROVE  stepRuns[stepRunsByRun[r][i]].id = id
                            => stepRuns[stepRunsByRun[r][i]] = stepRuns[id]
        OBVIOUS
      <4>1. stepRunsByRun[r][i] \in StepRunIds /\ stepRuns[stepRunsByRun[r][i]] # None
        BY InTables DEF Agree
      <4> QED BY <1>2, <4>1
    <3>5. \A r \in RunIds :
            set(r) = [i \in DOMAIN stepRunsByRun[r] |->
                        IF stepRuns[stepRunsByRun[r][i]].id = id THEN row
                                                                 ELSE stepRuns[stepRunsByRun[r][i]]]
      BY <3>4 DEF row
    <3>6. Tabled(Put(stepRuns, id, row), stepRunsByRun) = [r \in RunIds |-> set(r)]
      <4> HIDE DEF set
      <4> QED BY <3>3, <3>5 DEF Replaced
    <3> QED BY <3>1, <3>2, <3>6, Zenon
  <2> QED BY <2>1, <2>2
<1>8. /\ UNCHANGED TableOf(signals, signalsByRun) /\ UNCHANGED TableOf(events, eventsByRun)
      /\ UNCHANGED signalSeq
  BY <1>7, SameTables DEF signalVars
<1> HIDE DEF set
<1> QED BY <1>1, <1>3, <1>6, <1>7, <1>8, Zenon DEF Postgres!UpdateStepRun

LEMMA AppendSignalRefines ==
  ASSUME StorageInv, StorageInv', NEW new \in NewSignals, AppendSignal(new)
  PROVE  Postgres!AppendSignal(new)
<1> DEFINE row(seq) == [id |-> new.id, runId |-> new.runId, name |-> new.name,
                        stepId |-> new.stepId, createdAt |-> new.createdAt,
                        seq |-> seq, consumed |-> FALSE]
           table == TableOf(signals, signalsByRun)
<1>1. new.id \in SignalIds /\ new.runId \in RunIds
  BY StorageAssumption DEF NewSignal
<1>2. signals[new.id] # None <=> \E s \in Postgres!AllSignals : s.id = new.id
  BY <1>1, InTables, TakenIds, RowsOfTables
<1>3. CASE ~HasRun(new.runId) \/ signals[new.id] # None
  <2>1. Postgres!Refused("conflict")
    BY <1>3, AnswerIsRefused DEF AppendSignal
  <2> QED BY <1>2, <1>3, <2>1, RunsExist DEF Postgres!AppendSignal
<1>4. CASE ~(~HasRun(new.runId) \/ signals[new.id] # None)
  <2> DEFINE next == signalSeq + 1
  <2>1. /\ signalSeq < MaxSeq /\ signalSeq' = next
        /\ signals' = Put(signals, new.id, row(next))
        /\ signalsByRun' = Added(signalsByRun, new.runId, new.id)
        /\ reply' = "ok" /\ runs' = runs
        /\ UNCHANGED stepVars /\ UNCHANGED eventVars
    BY <1>4, Zenon DEF AppendSignal, Put, Added
  <2>2. next \in (signalSeq + 1)..MaxSeq
    BY <2>1, StorageAssumption DEF StorageInv, TypeOK
  <2> HIDE DEF row, next
  <2>3. /\ table = Tabled(signals, signalsByRun)
        /\ TableOf(signals', signalsByRun') = Tabled(signals', signalsByRun')
    BY TableIsTabled DEF StorageInv
  <2>4. Tabled(Put(signals, new.id, row(next)), Added(signalsByRun, new.runId, new.id))
          = Added(Tabled(signals, signalsByRun), new.runId, row(next))
    <3>1. /\ Agree(signals, signalsByRun, Existing) /\ signalsByRun \in [RunIds -> Seq(DOMAIN signals)]
          /\ new.id \in DOMAIN signals /\ signals[new.id] = None
      BY <1>1, <1>4, InTables
    <3> QED BY <1>1, <3>1, TabledAppend
  <2>5. TableOf(signals', signalsByRun') = [table EXCEPT ![new.runId] = Append(@, row(next))]
    BY <2>1, <2>3, <2>4, Zenon DEF Added
  <2>6. UNCHANGED TableOf(stepRuns, stepRunsByRun) /\ UNCHANGED TableOf(events, eventsByRun)
    BY <2>1, SameTables
  <2> HIDE DEF table
  <2>7. \E seq \in (signalSeq + 1)..MaxSeq :
          /\ TableOf(signals', signalsByRun') = [table EXCEPT ![new.runId] = Append(@, row(seq))]
          /\ signalSeq' = seq
          /\ reply' = "ok"
          /\ UNCHANGED <<runs, TableOf(stepRuns, stepRunsByRun), TableOf(events, eventsByRun)>>
    BY <2>1, <2>2, <2>5, <2>6
  <2> QED BY <1>2, <1>4, <2>7, RunsExist, Zenon DEF Postgres!AppendSignal, row, table
<1> QED BY <1>3, <1>4

-----------------------------------------------------------------------------
(* The oldest signal *)

\* The stamps of a run's signals grow in the order of arrival, as their callers see to it.
SignalsByClock ==
  \A r \in RunIds : LET ids == signalsByRun[r] IN
    \A i, j \in DOMAIN ids : i < j => signals[ids[i]].createdAt <= signals[ids[j]].createdAt

\* The first match of a list that grows with the clock is the one ORDER BY puts first.
LEMMA FirstIsMin ==
  ASSUME NEW queue, NEW n \in Nat, NEW where \in SUBSET (1..n), where # {},
         \A i \in 1..n : queue[i].createdAt \in Nat,
         \A i, j \in 1..n : i < j => queue[i].createdAt <= queue[j].createdAt
  PROVE  Postgres!First(queue, where, 1) = {Min(where)} /\ Min(where) \in where
<1> DEFINE Before(i) == {j \in where : queue[j].createdAt < queue[i].createdAt
                                       \/ (queue[j].createdAt = queue[i].createdAt /\ j < i)}
           m == Min(where)
<1>1. m \in where /\ \A j \in where : m <= j
  <2>1. where \in SUBSET Nat
    OBVIOUS
  <2> QED BY <2>1, MinIsIn
<1>2. Postgres!First(queue, where, 1) = {i \in where : 1 > Cardinality(Before(i))}
  BY Zenon DEF Postgres!First, Postgres!Cardinality, Cardinality
<1> HIDE DEF m
<1>3. \A j \in where : j \in Nat /\ j \in 1..n
  OBVIOUS
<1>4. IsFiniteSet(where)
  <2>1. IsFiniteSet(1..n)
    BY FS_Interval
  <2> QED BY <2>1, FS_Subset, Zenon
<1>5. Before(m) = {}
  <2> SUFFICES ASSUME NEW j \in Before(m) PROVE FALSE
    OBVIOUS
  <2>1. j \in where /\ j \in 1..n /\ m \in 1..n /\ m <= j
    BY <1>1, <1>3
  <2>2. queue[j].createdAt \in Nat /\ queue[m].createdAt \in Nat
        /\ queue[m].createdAt <= queue[j].createdAt
    <3>1. m < j \/ m = j
      BY <2>1
    <3> QED BY <2>1, <3>1
  <2> QED BY <2>1, <2>2
<1>6. ASSUME NEW i \in where, i # m
      PROVE  m \in Before(i)
  <2>1. m < i /\ m \in 1..n /\ i \in 1..n
    BY <1>1, <1>3, <1>6
  <2>2. /\ queue[m].createdAt \in Nat /\ queue[i].createdAt \in Nat
        /\ queue[m].createdAt <= queue[i].createdAt
    BY <2>1
  <2>3. queue[m].createdAt < queue[i].createdAt \/ queue[m].createdAt = queue[i].createdAt
    BY <2>2
  <2> QED BY <1>1, <2>1, <2>3
<1>7. \A i \in where : IsFiniteSet(Before(i))
  <2>1. \A i \in where : Before(i) \in SUBSET where
    OBVIOUS
  <2> HIDE DEF Before
  <2> QED BY <1>4, <2>1, FS_Subset, Zenon
<1> HIDE DEF Before
<1>8. \A i \in where : Cardinality(Before(i)) \in Nat /\ (Cardinality(Before(i)) = 0 <=> Before(i) = {})
  BY <1>7, FS_CardinalityType, FS_EmptySet, Zenon
<1>9. \A i \in where : 1 > Cardinality(Before(i)) <=> i = m
  BY <1>1, <1>5, <1>6, <1>8
<1> QED BY <1>1, <1>2, <1>9 DEF m

LEMMA ConsumeNextRefines ==
  ASSUME StorageInv, StorageInv', SignalsByClock,
         NEW wait \in StepRow, ConsumeNext(wait)
  PROVE  Postgres!ConsumeNext(wait.runId, wait.waitFor, wait.stepId, wait.waitSinceSeq)
<1> DEFINE q == wait.runId
           ids == signalsByRun[q]
           table == TableOf(signals, signalsByRun)
           queue == table[q]
           usable == {i \in DOMAIN queue :
                        Postgres!Usable(queue[i], wait.waitFor, wait.stepId, wait.waitSinceSeq)}
           matches == {i \in DOMAIN ids : signals[ids[i]] # None /\ Eligible(signals[ids[i]], wait)}
           oldest == Postgres!First(queue, usable, 1)
<1>1. q \in RunIds
  BY DEF StepRow
<1>2. table = Tabled(signals, signalsByRun)
  BY InTables, TableIsTabled
<1>3. queue = [i \in DOMAIN ids |-> signals[ids[i]]]
  BY <1>1, <1>2 DEF Tabled
<1>4. /\ Len(ids) \in Nat /\ DOMAIN ids = 1..Len(ids)
      /\ \A i \in DOMAIN ids : /\ ids[i] \in SignalIds /\ signals[ids[i]] # None
                               /\ signals[ids[i]].runId = q /\ signals[ids[i]].id = ids[i]
                               /\ signals[ids[i]].createdAt \in Nat
      /\ \A i, j \in DOMAIN ids : ids[i] = ids[j] => i = j
  <2>1. ids \in Seq(SignalIds)
    BY <1>1, InTables
  <2>2. \A i \in DOMAIN ids : ids[i] \in SignalIds
    BY <2>1
  <2>3. /\ \A i \in DOMAIN ids : signals[ids[i]] # None /\ signals[ids[i]].runId = q
        /\ \A i, j \in DOMAIN ids : ids[i] = ids[j] => i = j
        /\ \A s \in SignalIds : signals[s] # None => signals[s].id = s
    BY <1>1, InTables DEF Agree
  <2>4. \A s \in SignalIds : signals[s] # None => signals[s].createdAt \in Nat
    BY RowsAreTyped DEF SignalRow
  <2> QED BY <2>1, <2>2, <2>3, <2>4
<1>5. DOMAIN queue = DOMAIN ids /\ \A i \in DOMAIN ids : queue[i] = signals[ids[i]]
  BY <1>3
<1>6. usable = matches
  <2> HIDE DEF queue, ids
  <2> QED BY <1>4, <1>5, EligibleIsUsable
<1>7. CASE matches = {}
  <2>1. oldest = {}
    <3> HIDE DEF usable, queue
    <3> QED BY <1>6, <1>7 DEF Postgres!First
  <2>2. Postgres!Refused("no")
    BY <1>7, AnswerIsRefused DEF ConsumeNext
  <2> QED BY <2>1, <2>2 DEF Postgres!ConsumeNext
<1>8. CASE matches # {}
  <2> DEFINE m == Min(matches)
             s == ids[m]
             row == [signals[s] EXCEPT !.consumed = TRUE]
             after(i) == IF i \in oldest THEN [queue[i] EXCEPT !.consumed = TRUE] ELSE queue[i]
  <2>1. /\ signals' = Put(signals, s, row)
        /\ reply' = "ok" /\ runs' = runs
        /\ UNCHANGED stepVars /\ UNCHANGED eventVars
        /\ signalsByRun' = signalsByRun /\ signalSeq' = signalSeq
    BY <1>8, Zenon DEF ConsumeNext, Put
  <2>2. oldest = {m} /\ m \in matches
    <3> DEFINE n == Len(ids)
    <3>1. /\ n \in Nat /\ matches \in SUBSET (1..n)
          /\ \A i \in 1..n : queue[i].createdAt \in Nat
      BY <1>4, <1>5
    <3>2. \A i, j \in 1..n : i < j => queue[i].createdAt <= queue[j].createdAt
      <4>1. \A i, j \in DOMAIN ids : i < j => signals[ids[i]].createdAt <= signals[ids[j]].createdAt
        BY <1>1, Zenon DEF SignalsByClock
      <4> HIDE DEF ids, queue
      <4> QED BY <1>4, <1>5, <4>1
    <3> HIDE DEF n, queue, matches, usable
    <3> QED BY <1>6, <1>8, <3>1, <3>2, FirstIsMin
  <2> HIDE DEF m, oldest, row, matches, usable
  <2>3. m \in DOMAIN ids
    BY <2>2 DEF matches
  <2>4. s \in DOMAIN signals /\ signals[s] # None /\ signals[s].runId = q
    BY <1>4, <2>3, InTables
  <2>5. TableOf(signals', signalsByRun') = Replaced(signals, signalsByRun, s, row)
    <3>1. TableOf(signals', signalsByRun') = Tabled(signals', signalsByRun')
      BY TableIsTabled DEF StorageInv
    <3>2. Agree(signals, signalsByRun, Existing) /\ signalsByRun \in [RunIds -> Seq(DOMAIN signals)]
      BY InTables
    <3>3. Tabled(Put(signals, s, row), signalsByRun) = Replaced(signals, signalsByRun, s, row)
      <4> HIDE DEF s
      <4> QED BY <2>4, <3>2, TabledPatch
    <3> QED BY <2>1, <3>1, <3>3, Zenon
  <2>6. [i \in DOMAIN ids |-> IF signals[ids[i]].id = s THEN row ELSE signals[ids[i]]]
          = [i \in DOMAIN queue |-> after(i)]
    <3>1. \A i \in DOMAIN ids : signals[ids[i]].id = s <=> i \in oldest
      BY <1>4, <2>2, <2>3
    <3>2. \A i \in DOMAIN ids : i \in oldest => [queue[i] EXCEPT !.consumed = TRUE] = row
      BY <1>5, <2>2, <2>3 DEF row
    <3>3. \A i \in DOMAIN ids : (IF signals[ids[i]].id = s THEN row ELSE signals[ids[i]]) = after(i)
      BY <1>5, <3>1, <3>2
    <3> HIDE DEF after, queue, ids
    <3> QED BY <1>5, <3>3
  <2>7. \A r \in RunIds \ {q} : \A i \in DOMAIN signalsByRun[r] : signals[signalsByRun[r][i]].id # s
    <3> SUFFICES ASSUME NEW r \in RunIds \ {q}, NEW i \in DOMAIN signalsByRun[r],
                        signals[signalsByRun[r][i]].id = s
                 PROVE  FALSE
      OBVIOUS
    <3>1. /\ signalsByRun[r][i] \in SignalIds
          /\ signals[signalsByRun[r][i]] # None /\ signals[signalsByRun[r][i]].runId = r
      BY InTables DEF Agree
    <3>2. signals[signalsByRun[r][i]].id = signalsByRun[r][i]
      BY <3>1, InTables DEF Agree
    <3> QED BY <2>4, <3>1, <3>2
  <2>8. TableOf(signals', signalsByRun') = [table EXCEPT ![q] = [i \in DOMAIN queue |-> after(i)]]
    <3>1. \A r \in RunIds \ {q} : Replaced(signals, signalsByRun, s, row)[r] = table[r]
      <4> HIDE DEF table, s
      <4> QED BY <1>2, <2>7 DEF Replaced, Tabled
    <3>2. Replaced(signals, signalsByRun, s, row)[q] = [i \in DOMAIN queue |-> after(i)]
      <4> HIDE DEF after, s
      <4> QED BY <1>1, <2>6 DEF Replaced
    <3>3. /\ table = [r \in RunIds |-> table[r]]
          /\ Replaced(signals, signalsByRun, s, row)
               = [r \in RunIds |-> Replaced(signals, signalsByRun, s, row)[r]]
      BY <1>2 DEF Replaced, Tabled
    <3> DEFINE new == Replaced(signals, signalsByRun, s, row)
               now == [i \in DOMAIN queue |-> after(i)]
    <3>4. new[q] = now
      BY <3>2
    <3> HIDE DEF table, now, new
    <3>5. new = [table EXCEPT ![q] = now]
      BY <1>1, <3>1, <3>3, <3>4 DEF new
    <3> QED BY <2>5, <3>5 DEF new, now
  <2>9. UNCHANGED TableOf(stepRuns, stepRunsByRun) /\ UNCHANGED TableOf(events, eventsByRun)
    BY <2>1, SameTables
  <2>10. oldest # {}
    BY <2>2
  <2> HIDE DEF table
  <2> QED BY <2>1, <2>8, <2>9, <2>10, Zenon DEF Postgres!ConsumeNext, oldest, usable, table
<1> QED BY <1>7, <1>8

LEMMA SameSignals ==
  ASSUME SignalsByClock, UNCHANGED signalVars
  PROVE  SignalsByClock'
BY DEF SignalsByClock, signalVars

LEMMA AppendSignalByClock ==
  ASSUME StorageInv, SignalsByClock, NEW new \in NewSignals,
         InClockOrder(new), AppendSignal(new)
  PROVE  SignalsByClock'
<1>1. CASE ~HasRun(new.runId) \/ signals[new.id] # None
  BY <1>1, SameSignals DEF AppendSignal, Answer
<1>2. CASE ~(~HasRun(new.runId) \/ signals[new.id] # None)
  <2>1. /\ signals' = [signals EXCEPT ![new.id] =
             [id |-> new.id, runId |-> new.runId, name |-> new.name, stepId |-> new.stepId,
              createdAt |-> new.createdAt, seq |-> signalSeq + 1, consumed |-> FALSE]]
        /\ signalsByRun' = [signalsByRun EXCEPT ![new.runId] = Append(@, new.id)]
    BY <1>2 DEF AppendSignal
  <2>2. new.id \in SignalIds /\ new.runId \in RunIds /\ signals[new.id] = None
    BY <1>2, StorageAssumption DEF NewSignal
  <2>3. \A s \in SignalIds \ {new.id} : signals'[s] = signals[s]
    BY <2>1, InTables
  <2>4. signals'[new.id].createdAt = new.createdAt
    BY <2>1, <2>2, InTables
  <2>5. \A r \in RunIds : \A i \in DOMAIN signalsByRun[r] :
          signalsByRun[r][i] \in SignalIds \ {new.id} /\ signals[signalsByRun[r][i]] # None
    BY <2>2, InTables DEF Agree
  <2> SUFFICES ASSUME NEW r \in RunIds,
                      NEW i \in DOMAIN signalsByRun'[r], NEW j \in DOMAIN signalsByRun'[r], i < j
               PROVE  signals'[signalsByRun'[r][i]].createdAt <= signals'[signalsByRun'[r][j]].createdAt
    BY DEF SignalsByClock
  <2>6. CASE r # new.runId
    <3>1. signalsByRun'[r] = signalsByRun[r]
      BY <2>1, <2>6, InTables
    <3>2. signals[signalsByRun[r][i]].createdAt <= signals[signalsByRun[r][j]].createdAt
      BY <3>1 DEF SignalsByClock
    <3> QED BY <2>3, <2>5, <3>1, <3>2
  <2>7. CASE r = new.runId
    <3> DEFINE ids == signalsByRun[r]
               n == Len(ids)
    <3>1. signalsByRun'[r] = Append(ids, new.id) /\ ids \in Seq(SignalIds)
      BY <2>1, <2>2, <2>7, InTables
    <3>2. /\ n \in Nat /\ DOMAIN ids = 1..n
          /\ DOMAIN signalsByRun'[r] = 1..(n + 1)
          /\ signalsByRun'[r][n + 1] = new.id
          /\ \A k \in 1..n : signalsByRun'[r][k] = ids[k]
      <4> HIDE DEF ids
      <4> QED BY <2>2, <3>1
    <3>3. i \in 1..n /\ (j \in 1..n \/ j = n + 1)
      <4> HIDE DEF n
      <4> QED BY <3>2
    <3>4. signals'[signalsByRun'[r][i]] = signals[ids[i]]
      BY <2>3, <2>5, <3>2, <3>3
    <3>5. CASE j \in 1..n
      <4>1. signals'[signalsByRun'[r][j]] = signals[ids[j]]
        BY <2>3, <2>5, <3>2, <3>5
      <4>2. signals[ids[i]].createdAt <= signals[ids[j]].createdAt
        BY <3>2, <3>3, <3>5 DEF SignalsByClock
      <4> QED BY <3>4, <4>1, <4>2
    <3>6. CASE j = n + 1
      <4>1. signals'[signalsByRun'[r][j]].createdAt = new.createdAt
        BY <2>4, <3>2, <3>6
      <4>2. Get(signals, ids) = [k \in DOMAIN ids |-> signals[ids[k]]]
        <5>1. TableOf(signals, signalsByRun) = Tabled(signals, signalsByRun)
          BY InTables, TableIsTabled
        <5> QED BY <5>1 DEF TableOf, Tabled
      <4>3. signals[ids[i]] \in Range(Get(signals, ids))
        BY <3>2, <3>3, <4>2 DEF Range
      <4>4. signals[ids[i]].createdAt <= new.createdAt
        BY <2>2, <2>7, <4>3 DEF InClockOrder
      <4> QED BY <3>4, <4>1, <4>4
    <3> QED BY <3>3, <3>5, <3>6
  <2> QED BY <2>6, <2>7
<1> QED BY <1>1, <1>2

LEMMA ConsumeNextByClock ==
  ASSUME StorageInv, SignalsByClock, NEW wait \in StepRow, ConsumeNext(wait)
  PROVE  SignalsByClock'
<1> DEFINE ids == signalsByRun[wait.runId]
           matches == {i \in DOMAIN ids : signals[ids[i]] # None /\ Eligible(signals[ids[i]], wait)}
           s == ids[Min(matches)]
<1>1. CASE matches = {}
  BY <1>1, SameSignals DEF ConsumeNext, Answer
<1>2. CASE matches # {}
  <2>1. /\ signals' = [signals EXCEPT ![s].consumed = TRUE]
        /\ signalsByRun' = signalsByRun
    BY <1>2 DEF ConsumeNext
  <2> HIDE DEF s
  <2>2. ASSUME NEW x \in SignalIds, signals[x] # None
        PROVE  signals'[x].createdAt = signals[x].createdAt
    <3>1. signals[x] \in SignalRow /\ x \in DOMAIN signals
      BY <2>2, RowsAreTyped, InTables
    <3>2. signals'[x] = IF x = s THEN [signals[x] EXCEPT !.consumed = TRUE] ELSE signals[x]
      BY <2>1, <3>1
    <3> QED BY <3>1, <3>2 DEF SignalRow
  <2>3. \A r \in RunIds : \A i \in DOMAIN signalsByRun[r] :
          signalsByRun[r][i] \in SignalIds /\ signals[signalsByRun[r][i]] # None
    BY InTables DEF Agree
  <2> QED BY <2>1, <2>2, <2>3 DEF SignalsByClock
<1> QED BY <1>1, <1>2

LEMMA DeleteTerminalBeforeByClock ==
  ASSUME StorageInv, StorageInv', SignalsByClock, NEW before, NEW limit,
         DeleteTerminalBefore(before, limit)
  PROVE  SignalsByClock'
<1>1. PICK victims, sent :
        /\ signals' = [s \in SignalIds |-> IF s \in sent THEN None ELSE signals[s]]
        /\ signalsByRun' = Emptied(signalsByRun, victims)
  BY Zenon DEF DeleteTerminalBefore
<1>2. \A r \in RunIds : \A i \in DOMAIN signalsByRun'[r] :
        signalsByRun'[r][i] \in SignalIds /\ signals'[signalsByRun'[r][i]] # None
  BY DEF StorageInv, TypeOK, Agree
<1>3. \A r \in RunIds : \A i \in DOMAIN signalsByRun'[r] :
        signals'[signalsByRun'[r][i]] = signals[signalsByRun'[r][i]]
  BY <1>1, <1>2
<1>4. \A r \in RunIds : signalsByRun'[r] = << >> \/ signalsByRun'[r] = signalsByRun[r]
  BY <1>1 DEF Emptied
<1> QED BY <1>3, <1>4 DEF SignalsByClock

LEMMA SignalsByClockIsKept ==
  ASSUME StorageInv, StorageInv', SignalsByClock, [Next]_vars
  PROVE  SignalsByClock'
<1>1. CASE \E new \in NewSignals : InClockOrder(new) /\ AppendSignal(new)
  BY <1>1, AppendSignalByClock
<1>2. CASE \E x \in StepRunIds : stepRuns[x] # None /\ ConsumeNext(stepRuns[x])
  BY <1>2, RowsAreTyped, ConsumeNextByClock
<1>3. CASE \E before \in Times, limit \in Limits : DeleteTerminalBefore(before, limit)
  BY <1>3, DeleteTerminalBeforeByClock
<1>4. CASE UNCHANGED signalVars
  BY <1>4, SameSignals
<1>5. ASSUME NEW what, Answer(what)
      PROVE  UNCHANGED signalVars
  BY <1>5 DEF Answer
<1>6. CASE \E run \in NewRuns : CreateRun(run)
  BY <1>4, <1>5, <1>6 DEF CreateRun
<1>7. CASE \E id \in RunIds : \E patch \in RunPatches[id] : UpdateRun(id, patch)
  BY <1>4, <1>7 DEF UpdateRun
<1>8. CASE \E owner \in Owners, at \in Times, limit \in Limits : ClaimDue(owner, at, limit)
  BY <1>4, <1>8 DEF ClaimDue
<1>9. CASE \E id \in RunIds, owner \in Owners, at \in Times : RenewLease(id, owner, at)
  BY <1>4, <1>5, <1>9 DEF RenewLease
<1>10. CASE \E id \in RunIds, owner \in Owners : ReleaseLease(id, owner)
  BY <1>4, <1>5, <1>10 DEF ReleaseLease
<1>11. CASE \E new \in NewStepRuns : CreateStepRun(new)
  BY <1>4, <1>5, <1>11 DEF CreateStepRun
<1>12. CASE \E id \in StepRunIds : \E patch \in StepRunPatches[id] : UpdateStepRun(id, patch)
  BY <1>4, <1>5, <1>12 DEF UpdateStepRun
<1>13. CASE \E new \in NewEvents : AppendEvent(new)
  BY <1>4, <1>5, <1>13 DEF AppendEvent
<1>14. CASE UNCHANGED vars
  BY <1>4, <1>14 DEF vars
<1> QED BY <1>1, <1>2, <1>3, <1>6, <1>7, <1>8, <1>9, <1>10, <1>11, <1>12, <1>13, <1>14 DEF Next

-----------------------------------------------------------------------------
(* Memory implements the tables *)

LEMMA InitRefines == Init => Postgres!Init
<1> SUFFICES ASSUME Init PROVE Postgres!Init
  OBVIOUS
<1>1. /\ TableOf(stepRuns, stepRunsByRun) = [r \in RunIds |-> << >>]
      /\ TableOf(signals, signalsByRun) = [r \in RunIds |-> << >>]
      /\ TableOf(events, eventsByRun) = [r \in RunIds |-> << >>]
  <2>1. StorageInv
    BY InitiallyAgreed
  <2>2. /\ TableOf(stepRuns, stepRunsByRun) = Tabled(stepRuns, stepRunsByRun)
        /\ TableOf(signals, signalsByRun) = Tabled(signals, signalsByRun)
        /\ TableOf(events, eventsByRun) = Tabled(events, eventsByRun)
    BY <2>1, InTables, TableIsTabled
  <2> QED BY <2>2 DEF Init, Tabled
<1> QED BY <1>1 DEF Init, Postgres!Init

LEMMA NextRefines ==
  ASSUME StorageInv, StorageInv', SignalsByClock, ObjectPayloads, [Next]_vars
  PROVE  [Postgres!Next]_(Postgres!vars)
<1>1. CASE \E run \in NewRuns : CreateRun(run)
  BY <1>1, CreateRunRefines DEF Postgres!Next
<1>2. CASE \E id \in RunIds : \E patch \in RunPatches[id] : UpdateRun(id, patch)
  BY <1>2, UpdateRunRefines DEF Postgres!Next
<1>3. CASE \E owner \in Owners, at \in Times, limit \in Limits : ClaimDue(owner, at, limit)
  BY <1>3, ClaimDueRefines DEF Postgres!Next
<1>4. CASE \E id \in RunIds, owner \in Owners, at \in Times : RenewLease(id, owner, at)
  BY <1>4, RenewLeaseRefines DEF Postgres!Next
<1>5. CASE \E id \in RunIds, owner \in Owners : ReleaseLease(id, owner)
  BY <1>5, ReleaseLeaseRefines DEF Postgres!Next
<1>6. CASE \E before \in Times, limit \in Limits : DeleteTerminalBefore(before, limit)
  BY <1>6, DeleteTerminalBeforeRefines DEF Postgres!Next
<1>7. CASE \E new \in NewStepRuns : CreateStepRun(new)
  BY <1>7, CreateStepRunRefines DEF Postgres!Next
<1>8. CASE \E id \in StepRunIds : \E patch \in StepRunPatches[id] : UpdateStepRun(id, patch)
  BY <1>8, UpdateStepRunRefines DEF Postgres!Next
<1>9. CASE \E new \in NewSignals : InClockOrder(new) /\ AppendSignal(new)
  BY <1>9, AppendSignalRefines DEF Postgres!Next
<1>10. CASE \E x \in StepRunIds : /\ stepRuns[x] # None /\ stepRuns[x].waitFor # None
                                  /\ ConsumeNext(stepRuns[x])
  <2>1. PICK x \in StepRunIds : /\ stepRuns[x] # None /\ stepRuns[x].waitFor # None
                                /\ ConsumeNext(stepRuns[x])
    BY <1>10
  <2> DEFINE wait == stepRuns[x]
  <2>2. wait \in StepRow /\ wait \in Postgres!AllStepRuns
    BY <2>1, RowsAreTyped, InTables, RowsOfTables DEF RowsOf
  <2> HIDE DEF wait
  <2>3. Postgres!ConsumeNext(wait.runId, wait.waitFor, wait.stepId, wait.waitSinceSeq)
    BY <2>1, <2>2, ConsumeNextRefines DEF wait
  <2>4. wait.waitFor # None
    BY <2>1 DEF wait
  <2> QED BY <2>2, <2>3, <2>4 DEF Postgres!Next
<1>11. CASE \E new \in NewEvents : AppendEvent(new)
  BY <1>11, AppendEventRefines DEF Postgres!Next
<1>12. CASE UNCHANGED vars
  <2>1. UNCHANGED <<runs, stepVars, signalVars, eventVars, reply>>
    BY <1>12 DEF vars
  <2>2. UNCHANGED signalSeq
    BY <2>1 DEF signalVars
  <2> QED BY <2>1, <2>2, SameTables DEF Postgres!vars
<1> QED BY <1>1, <1>2, <1>3, <1>4, <1>5, <1>6, <1>7, <1>8, <1>9, <1>10, <1>11, <1>12 DEF Next

LEMMA SignalsByClockHolds == Spec => []SignalsByClock
<1>1. Init => SignalsByClock
  BY DEF Init, SignalsByClock
<1>2. StorageInv /\ StorageInv' /\ SignalsByClock /\ [Next]_vars => SignalsByClock'
  BY SignalsByClockIsKept
<1> QED BY <1>1, <1>2, StorageInvHolds, PTL DEF Spec

\* Whatever calls are made, memory.ts leaves the rows and gives the answers that the
\* statements of postgres.ts would, for every number of runs, rows and callers, as long as
\* the payload of a wait is not a bare string: that case the driver refuses.
THEOREM MemoryImplementsTables ==
  ASSUME ObjectPayloads
  PROVE  Spec => SameAsPostgres
<1>1. Init => Postgres!Init
  BY InitRefines
<1>2. StorageInv /\ StorageInv' /\ SignalsByClock /\ [Next]_vars => [Postgres!Next]_(Postgres!vars)
  BY ObjectPayloads, NextRefines
<1> QED BY <1>1, <1>2, StorageInvHolds, SignalsByClockHolds, PTL
    DEF Spec, SameAsPostgres, Postgres!Spec
-----------------------------------------------------------------------------
(* The reads *)

\* A step run has the run and the step it was created with, and a visit it was created
\* with or patched to.
CreatedAsNew ==
  \A x \in StepRunIds : stepRuns[x] # None =>
    \E new \in NewStepRuns :
      /\ new.id = x /\ new.runId = stepRuns[x].runId /\ new.stepId = stepRuns[x].stepId
      /\ stepRuns[x].visit \in VisitsOf(new)

LEMMA PatchedVisit ==
  ASSUME NEW row \in StepRow, NEW patch, IsPatch(patch, StepColumns)
  PROVE  /\ Merge(row, patch).stepId = row.stepId
         /\ Merge(row, patch).visit = IF "visit" \in DOMAIN patch THEN patch.visit ELSE row.visit
BY DEF Merge, StepRow, IsPatch, StepColumns

LEMMA UpdateStepRunAsNew ==
  ASSUME StorageInv, CreatedAsNew, NEW id \in StepRunIds, NEW patch \in StepRunPatches[id],
         UpdateStepRun(id, patch)
  PROVE  CreatedAsNew'
<1>1. CASE stepRuns[id] = None
  BY <1>1 DEF UpdateStepRun, Answer, stepVars, CreatedAsNew
<1>2. CASE stepRuns[id] # None
  <2> DEFINE row == stepRuns[id]
             next == Merge(row, patch)
  <2>1. stepRuns' = [stepRuns EXCEPT ![id] = next]
    BY <1>2 DEF UpdateStepRun
  <2>2. IsPatch(patch, StepColumns)
    BY StorageAssumption
  <2>3. row \in StepRow
    BY <1>2, RowsAreTyped
  <2>4. /\ next.runId = row.runId /\ next.stepId = row.stepId
        /\ next.visit = IF "visit" \in DOMAIN patch THEN patch.visit ELSE row.visit
    BY <2>2, <2>3, PatchedStepRun, PatchedVisit
  <2> HIDE DEF next
  <2>5. stepRuns'[id] = next /\ \A x \in StepRunIds \ {id} : stepRuns'[x] = stepRuns[x]
    BY <2>1, InTables
  <2>6. PICK new \in NewStepRuns :
          /\ new.id = id /\ new.runId = row.runId /\ new.stepId = row.stepId
          /\ row.visit \in VisitsOf(new)
    BY <1>2 DEF CreatedAsNew
  <2>7. next.visit \in VisitsOf(new)
    BY <2>4, <2>6 DEF VisitsOf
  <2> QED BY <2>4, <2>5, <2>6, <2>7 DEF CreatedAsNew
<1> QED BY <1>1, <1>2

LEMMA CreateStepRunAsNew ==
  ASSUME StorageInv, CreatedAsNew, NEW new \in NewStepRuns, CreateStepRun(new)
  PROVE  CreatedAsNew'
<1>1. CASE UNCHANGED stepRuns
  BY <1>1 DEF CreatedAsNew
<1>2. CASE stepRuns' = [stepRuns EXCEPT ![new.id] = new]
  <2>1. new.id \in StepRunIds /\ new.visit \in VisitsOf(new)
    BY StorageAssumption DEF StepRow, VisitsOf
  <2>2. stepRuns'[new.id] = new /\ \A x \in StepRunIds \ {new.id} : stepRuns'[x] = stepRuns[x]
    BY <1>2, <2>1, InTables
  <2> QED BY <2>1, <2>2 DEF CreatedAsNew
<1> QED BY <1>1, <1>2 DEF CreateStepRun, Answer, stepVars

LEMMA CreatedAsNewIsKept ==
  ASSUME StorageInv, CreatedAsNew, [Next]_vars
  PROVE  CreatedAsNew'
<1>1. CASE \E new \in NewStepRuns : CreateStepRun(new)
  BY <1>1, CreateStepRunAsNew
<1>2. CASE \E id \in StepRunIds : \E patch \in StepRunPatches[id] : UpdateStepRun(id, patch)
  BY <1>2, UpdateStepRunAsNew
<1>3. CASE \E before \in Times, limit \in Limits : DeleteTerminalBefore(before, limit)
  <2>1. PICK gone : stepRuns' = [x \in StepRunIds |-> IF x \in gone THEN None ELSE stepRuns[x]]
    BY <1>3, Zenon DEF DeleteTerminalBefore
  <2> QED BY <2>1 DEF CreatedAsNew
<1>4. CASE UNCHANGED stepVars
  BY <1>4 DEF CreatedAsNew, stepVars
<1>5. ASSUME NEW what, Answer(what)
      PROVE  UNCHANGED stepVars
  BY <1>5 DEF Answer
<1>6. CASE \E run \in NewRuns : CreateRun(run)
  BY <1>4, <1>5, <1>6 DEF CreateRun
<1>7. CASE \E id \in RunIds : \E patch \in RunPatches[id] : UpdateRun(id, patch)
  BY <1>4, <1>7 DEF UpdateRun
<1>8. CASE \E owner \in Owners, at \in Times, limit \in Limits : ClaimDue(owner, at, limit)
  BY <1>4, <1>8 DEF ClaimDue
<1>9. CASE \E id \in RunIds, owner \in Owners, at \in Times : RenewLease(id, owner, at)
  BY <1>4, <1>5, <1>9 DEF RenewLease
<1>10. CASE \E id \in RunIds, owner \in Owners : ReleaseLease(id, owner)
  BY <1>4, <1>5, <1>10 DEF ReleaseLease
<1>11. CASE \E new \in NewSignals : InClockOrder(new) /\ AppendSignal(new)
  BY <1>4, <1>5, <1>11 DEF AppendSignal
<1>12. CASE \E x \in StepRunIds : ConsumeNext(stepRuns[x])
  BY <1>4, <1>5, <1>12 DEF ConsumeNext
<1>13. CASE \E new \in NewEvents : AppendEvent(new)
  BY <1>4, <1>5, <1>13 DEF AppendEvent
<1>14. CASE UNCHANGED vars
  BY <1>4, <1>14 DEF vars
<1> QED BY <1>1, <1>2, <1>3, <1>6, <1>7, <1>8, <1>9, <1>10, <1>11, <1>12, <1>13, <1>14 DEF Next

LEMMA CreatedAsNewHolds == Spec => []CreatedAsNew
<1>1. Init => CreatedAsNew
  BY DEF Init, CreatedAsNew
<1>2. StorageInv /\ CreatedAsNew /\ [Next]_vars => CreatedAsNew'
  BY CreatedAsNewIsKept
<1> QED BY <1>1, <1>2, StorageInvHolds, PTL DEF Spec

\* A visit of a step has one step run: two would have one key.
LEMMA OneStepRunPerVisit ==
  ASSUME StorageInv, CreatedAsNew,
         NEW x \in StepRunIds, NEW y \in StepRunIds, stepRuns[x] # None, stepRuns[y] # None,
         stepRuns[x].runId = stepRuns[y].runId, stepRuns[x].stepId = stepRuns[y].stepId,
         stepRuns[x].visit = stepRuns[y].visit
  PROVE  x = y
<1> SUFFICES ASSUME x # y PROVE FALSE
  OBVIOUS
<1>1. PICK new \in NewStepRuns :
        /\ new.id = x /\ new.runId = stepRuns[x].runId /\ new.stepId = stepRuns[x].stepId
        /\ stepRuns[x].visit \in VisitsOf(new)
  BY DEF CreatedAsNew
<1>2. PICK other \in NewStepRuns :
        /\ other.id = y /\ other.runId = stepRuns[y].runId /\ other.stepId = stepRuns[y].stepId
        /\ stepRuns[y].visit \in VisitsOf(other)
  BY DEF CreatedAsNew
<1>3. VisitsOf(new) \cap VisitsOf(other) # {}
  BY <1>1, <1>2
<1>4. \A k \in KeysOf(x), l \in KeysOf(y) : k = l
  BY <1>1, <1>2, <1>3, VisitAssumption, Zenon
<1>5. stepRuns[x].key = stepRuns[y].key
  BY <1>4 DEF StorageInv, KeysAreOwn
<1> QED BY <1>5 DEF StorageInv, KeyIndexAgrees

\* The table of a run, position by position.
LEMMA TableOfRun ==
  ASSUME NEW map, NEW lists, NEW existing, Agree(map, lists, existing),
         lists \in [RunIds -> Seq(DOMAIN map)], NEW r \in RunIds
  PROVE  /\ Get(map, lists[r]) = TableOf(map, lists)[r]
         /\ TableOf(map, lists)[r] = [i \in DOMAIN lists[r] |-> map[lists[r][i]]]
         /\ Len(lists[r]) \in Nat /\ DOMAIN lists[r] = 1..Len(lists[r])
         /\ \A i \in DOMAIN lists[r] : /\ lists[r][i] \in DOMAIN map
                                       /\ map[lists[r][i]] # None
                                       /\ map[lists[r][i]].id = lists[r][i]
                                       /\ map[lists[r][i]].runId = r
         /\ \A i, j \in DOMAIN lists[r] : lists[r][i] = lists[r][j] => i = j
<1>1. TableOf(map, lists) = Tabled(map, lists)
  BY TableIsTabled
<1>2. TableOf(map, lists)[r] = [i \in DOMAIN lists[r] |-> map[lists[r][i]]]
  BY <1>1 DEF Tabled
<1>3. Get(map, lists[r]) = TableOf(map, lists)[r]
  BY DEF TableOf
<1>4. Len(lists[r]) \in Nat /\ DOMAIN lists[r] = 1..Len(lists[r])
  OBVIOUS
<1>5. \A i \in DOMAIN lists[r] : lists[r][i] \in DOMAIN map
  OBVIOUS
<1> QED BY <1>2, <1>3, <1>4, <1>5 DEF Agree

\* Of finitely many rows with different visits one has the highest.
LEMMA HighestVisit ==
  ASSUME NEW rows, NEW n \in Nat, NEW where \in SUBSET (1..n), where # {},
         \A i \in where : rows[i].visit \in Nat,
         \A i, j \in where : rows[i].visit = rows[j].visit => i = j
  PROVE  \E m \in where : \A j \in where : rows[j].visit <= rows[m].visit
<1> DEFINE R == {w \in where \X where : rows[w[1]].visit <= rows[w[2]].visit}
<1>1. IsFiniteSet(where)
  <2>1. IsFiniteSet(1..n)
    BY FS_Interval
  <2> QED BY <2>1, FS_Subset, Zenon
<1>2. \A i, j \in where : <<i, j>> \in R <=> rows[i].visit <= rows[j].visit
  OBVIOUS
<1> HIDE DEF R
<1>3. TotalOrder(R, where)
  <2>1. \A i \in where : <<i, i>> \in R
    BY <1>2
  <2>2. \A i, j \in where : <<i, j>> \in R /\ <<j, i>> \in R => i = j
    BY <1>2
  <2>3. \A i, j, k \in where : <<i, j>> \in R /\ <<j, k>> \in R => <<i, k>> \in R
    BY <1>2
  <2>4. ASSUME NEW i \in where, NEW j \in where
        PROVE  <<i, j>> \in R \/ <<j, i>> \in R
    <3>1. rows[i].visit \in Nat /\ rows[j].visit \in Nat
      OBVIOUS
    <3>2. rows[i].visit <= rows[j].visit \/ rows[j].visit <= rows[i].visit
      BY <3>1
    <3> QED BY <1>2, <3>2
  <2> QED BY <2>1, <2>2, <2>3, <2>4 DEF TotalOrder
<1>4. Numbered(R, where)
  BY <1>1, <1>3, RankInIsABijection
<1>5. Cardinality(where) \in Nat /\ Cardinality(where) # 0
  BY <1>1, FS_CardinalityType, FS_EmptySet, Zenon
<1>6. PICK m \in where : RankIn(R, where, m) = Cardinality(where)
  BY <1>4, <1>5 DEF Numbered
<1>7. \A j \in where : RankIn(R, where, j) <= RankIn(R, where, m)
  BY <1>4, <1>5, <1>6 DEF Numbered
<1>8. \A j \in where : <<j, m>> \in R
  BY <1>4, <1>7 DEF Numbered
<1> QED BY <1>2, <1>8

\* findLatest on the rows of a run.
LatestRow(rows, step) ==
  LET ofStep  == {i \in DOMAIN rows : rows[i].stepId = step}
      highest == {i \in ofStep : \A j \in ofStep : rows[j].visit <= rows[i].visit}
  IN  IF ofStep = {} THEN None ELSE rows[Min(highest)]

\* findLatest.
LEMMA LatestAgrees ==
  ASSUME StorageInv, CreatedAsNew, NEW r \in RunIds, NEW step
  PROVE  AsSet(FindLatest(r, step)) = Postgres!FindLatest(r, step)
<1> DEFINE ids == stepRunsByRun[r]
           n == Len(ids)
           rows == TableOf(stepRuns, stepRunsByRun)[r]
           ofStep == {i \in DOMAIN rows : rows[i].stepId = step}
           highest == {i \in ofStep : \A j \in ofStep : rows[j].visit <= rows[i].visit}
           latest == {j \in ofStep : \A k \in ofStep :
                        \/ rows[k].visit < rows[j].visit
                        \/ rows[k].visit = rows[j].visit /\ k <= j}
<1>1. /\ Get(stepRuns, ids) = rows
      /\ rows = [i \in DOMAIN ids |-> stepRuns[ids[i]]]
      /\ n \in Nat /\ DOMAIN ids = 1..n
      /\ \A i \in DOMAIN ids : /\ ids[i] \in StepRunIds /\ stepRuns[ids[i]] # None
                               /\ stepRuns[ids[i]].runId = r
      /\ \A i, j \in DOMAIN ids : ids[i] = ids[j] => i = j
  <2>1. /\ Agree(stepRuns, stepRunsByRun, Existing)
        /\ DOMAIN stepRuns = StepRunIds /\ stepRunsByRun \in [RunIds -> Seq(DOMAIN stepRuns)]
    BY InTables
  <2>2. Get(stepRuns, ids) = rows /\ rows = [i \in DOMAIN ids |-> stepRuns[ids[i]]]
    BY <2>1, TableOfRun
  <2>3. n \in Nat /\ DOMAIN ids = 1..n
    BY <2>1
  <2>4. \A i \in DOMAIN ids : ids[i] \in StepRunIds /\ stepRuns[ids[i]] # None
                              /\ stepRuns[ids[i]].runId = r
    BY <2>1 DEF Agree
  <2>5. \A i, j \in DOMAIN ids : ids[i] = ids[j] => i = j
    BY <2>1 DEF Agree
  <2> QED BY <2>2, <2>3, <2>4, <2>5
<1>2. FindLatest(r, step) = IF ofStep = {} THEN None ELSE rows[Min(highest)]
  <2>1. FindLatest(r, step) = LatestRow(Get(stepRuns, ids), step)
    BY Zenon DEF FindLatest, LatestRow
  <2>2. FindLatest(r, step) = LatestRow(rows, step)
    <3> HIDE DEF rows, ids
    <3> QED BY <1>1, <2>1
  <2> QED BY <2>2, Zenon DEF LatestRow
<1>3. Postgres!FindLatest(r, step) = {rows[i] : i \in latest}
  BY Zenon DEF Postgres!FindLatest
<1> HIDE DEF rows
<1>4. DOMAIN rows = 1..n /\ \A i \in 1..n : rows[i] = stepRuns[ids[i]] /\ rows[i] # None
  BY <1>1
<1>5. \A i \in 1..n : rows[i].visit \in Nat
  <2>1. \A i \in 1..n : rows[i] \in StepRow
    BY <1>1, <1>4, RowsAreTyped
  <2> QED BY <2>1 DEF StepRow, StepColumns
<1>6. ASSUME NEW i \in ofStep, NEW j \in ofStep, rows[i].visit = rows[j].visit
      PROVE  i = j
  <2>1. i \in 1..n /\ j \in 1..n /\ rows[i].stepId = rows[j].stepId
    BY <1>4
  <2>2. ids[i] = ids[j]
    BY <1>1, <1>4, <1>6, <2>1, OneStepRunPerVisit
  <2> QED BY <1>1, <2>1, <2>2
<1>7. ofStep \in SUBSET (1..n)
  BY <1>4
<1>8. CASE ofStep = {}
  <2>1. latest = {}
    BY <1>8
  <2> QED BY <1>2, <1>3, <1>8, <2>1 DEF AsSet
<1>9. CASE ofStep # {}
  <2> HIDE DEF ofStep
  <2>1. PICK m \in ofStep : \A j \in ofStep : rows[j].visit <= rows[m].visit
    <3>1. n \in Nat
      BY <1>1
    <3> HIDE DEF n
    <3> QED BY <1>5, <1>6, <1>7, <1>9, <3>1, HighestVisit
  <2>2. \A j \in ofStep : j \in 1..n /\ rows[j].visit \in Nat
    BY <1>5, <1>7
  <2>3. \A j \in ofStep \ {m} : rows[j].visit < rows[m].visit
    BY <1>6, <2>1, <2>2
  <2>4. highest = {m}
    BY <2>1, <2>2, <2>3
  <2>5. latest = {m}
    BY <2>1, <2>2, <2>3
  <2>6. Min({m}) = m
    <3>1. {m} \in SUBSET Nat
      BY <2>2
    <3> QED BY <3>1, MinIsIn
  <2>7. FindLatest(r, step) = rows[m] /\ rows[m] # None
    BY <1>2, <1>4, <1>9, <2>2, <2>4, <2>6
  <2>8. Postgres!FindLatest(r, step) = {rows[m]}
    BY <1>3, <2>5
  <2> QED BY <2>7, <2>8 DEF AsSet
<1> QED BY <1>8, <1>9

\* getByIdempotencyKey.
LEMMA KeyReadAgrees ==
  ASSUME StorageInv, NEW k \in Keys
  PROVE  AsSet(GetByIdempotencyKey(k)) = Postgres!GetByIdempotencyKey(k)
<1>1. Postgres!GetByIdempotencyKey(k) = {sr \in RowsOf(stepRuns) : sr.key = k}
  BY RowsOfTables DEF Postgres!GetByIdempotencyKey
<1>2. /\ stepRunByKey[k] # None => /\ stepRunByKey[k] \in StepRunIds
                                   /\ stepRuns[stepRunByKey[k]] # None
                                   /\ stepRuns[stepRunByKey[k]].key = k
      /\ \A x \in StepRunIds : stepRuns[x] # None /\ stepRuns[x].key = k => stepRunByKey[k] = x
  BY DEF StorageInv, TypeOK, KeyIndexAgrees
<1>3. None \notin StepRunIds /\ DOMAIN stepRuns = StepRunIds
  BY StorageAssumption, InTables
<1>4. CASE stepRunByKey[k] = None
  <2>1. \A sr \in RowsOf(stepRuns) : sr.key # k
    BY <1>2, <1>3, <1>4 DEF RowsOf
  <2> QED BY <1>1, <1>4, <2>1 DEF GetByIdempotencyKey, AsSet
<1>5. CASE stepRunByKey[k] # None
  <2>1. {sr \in RowsOf(stepRuns) : sr.key = k} = {stepRuns[stepRunByKey[k]]}
    BY <1>2, <1>3, <1>5 DEF RowsOf
  <2> QED BY <1>1, <1>2, <1>5, <2>1 DEF GetByIdempotencyKey, AsSet
<1> QED BY <1>4, <1>5

\* watermark.
LEMMA WatermarkAgrees ==
  ASSUME StorageInv, NEW r \in RunIds
  PROVE  Watermark(r) = Postgres!Watermark(r)
<1> DEFINE ids == signalsByRun[r]
           n == Len(ids)
           rows == TableOf(signals, signalsByRun)[r]
<1>1. /\ rows = [i \in DOMAIN ids |-> signals[ids[i]]]
      /\ n \in Nat /\ DOMAIN ids = 1..n /\ ids \in Seq(SignalIds)
  <2>1. /\ Agree(signals, signalsByRun, Existing)
        /\ DOMAIN signals = SignalIds /\ signalsByRun \in [RunIds -> Seq(DOMAIN signals)]
    BY InTables
  <2> QED BY <2>1, TableOfRun
<1>2. signalWatermark[r] = IF ids = << >> THEN 0 ELSE signals[Last(ids)].seq
  BY DEF StorageInv, SignalsInOrder
<1>3. Postgres!Watermark(r) = IF rows = << >> THEN 0 ELSE rows[Len(rows)].seq
  BY Zenon DEF Postgres!Watermark
<1> HIDE DEF rows, ids
<1>4. CASE ids = << >>
  <2>1. rows = << >>
    BY <1>1, <1>4
  <2> QED BY <1>2, <1>3, <1>4, <2>1 DEF Watermark
<1>5. CASE ids # << >>
  <2>1. n # 0
    BY <1>1, <1>5
  <2>2. rows \in Seq({signals[ids[i]] : i \in 1..n}) /\ Len(rows) = n /\ rows # << >>
    BY <1>1, <2>1
  <2>3. rows[n] = signals[ids[n]] /\ Last(ids) = ids[n]
    BY <1>1, <2>1 DEF Last
  <2> QED BY <1>2, <1>3, <1>5, <2>2, <2>3 DEF Watermark
<1> QED BY <1>4, <1>5

\* countPending.
LEMMA CountAgrees ==
  ASSUME StorageInv, NEW r \in RunIds
  PROVE  CountPending(r) = Postgres!CountPending(r)
<1> DEFINE ids == signalsByRun[r]
           n == Len(ids)
           rows == TableOf(signals, signalsByRun)[r]
           at == {i \in DOMAIN ids : signals[ids[i]] # None /\ ~signals[ids[i]].consumed}
           pending == {s \in Postgres!Rows(rows) : ~s.consumed}
           f == [i \in at |-> rows[i]]
<1>1. /\ rows = [i \in DOMAIN ids |-> signals[ids[i]]]
      /\ n \in Nat /\ DOMAIN ids = 1..n
      /\ \A i \in DOMAIN ids : signals[ids[i]] # None /\ signals[ids[i]].id = ids[i]
      /\ \A i, j \in DOMAIN ids : ids[i] = ids[j] => i = j
  <2>1. /\ Agree(signals, signalsByRun, Existing)
        /\ signalsByRun \in [RunIds -> Seq(DOMAIN signals)]
    BY InTables
  <2> QED BY <2>1, TableOfRun
<1>2. CountPending(r) = Cardinality(at)
  BY DEF CountPending
<1>3. Postgres!CountPending(r) = Cardinality(pending)
  BY SameCardinality, Zenon DEF Postgres!CountPending
<1> HIDE DEF rows, ids
<1>4. IsFiniteSet(at)
  <2>1. IsFiniteSet(1..n)
    <3>1. n \in Int
      BY <1>1
    <3> QED BY <3>1, FS_Interval
  <2>2. at \in SUBSET (1..n)
    BY <1>1
  <2> QED BY <2>1, <2>2, FS_Subset, Zenon
<1>5. f \in Bijection(at, pending)
  <2>1. \A i \in at : f[i] \in pending
    BY <1>1 DEF Postgres!Rows
  <2>2. \A i, j \in at : f[i] = f[j] => i = j
    BY <1>1
  <2>3. \A s \in pending : \E i \in at : f[i] = s
    BY <1>1 DEF Postgres!Rows
  <2>4. f \in [at -> pending]
    BY <2>1
  <2> HIDE DEF f, at, pending
  <2> QED BY <2>2, <2>3, <2>4 DEF Bijection, Injection, Surjection, IsInjective
<1>6. ExistsBijection(at, pending)
  BY <1>5, Zenon DEF ExistsBijection
<1> HIDE DEF at, pending
<1> QED BY <1>2, <1>3, <1>4, <1>6, FS_Bijection

\* .slice(from).slice(0, limit)
Taken(rows, from, limit) == SubSeq(rows, from, Min({Len(rows), from + limit - 1}))

\* ORDER BY seq LIMIT limit, among later positions.
Limited(rows, later, limit) ==
  {rows[i] : i \in {j \in later : Cardinality({k \in later : k < j}) < limit}}

\* The list of events from a cursor on, cut off by slice and by LIMIT.
LEMMA CutIsLimited ==
  ASSUME NEW rows, NEW n \in Nat, DOMAIN rows = 1..n, Len(rows) = n,
         NEW from \in 1..(n + 1), NEW limit \in Nat
  PROVE  Range(Taken(rows, from, limit)) = Limited(rows, from..n, limit)
<1> DEFINE to == Min({n, from + limit - 1})
           page == SubSeq(rows, from, to)
           first == {j \in from..n : Cardinality({k \in from..n : k < j}) < limit}
<1>1. to \in Nat /\ to \in {n, from + limit - 1} /\ to <= n /\ to <= from + limit - 1
  <2>1. {n, from + limit - 1} \in SUBSET Nat
    OBVIOUS
  <2> QED BY <2>1, MinIsIn
<1> HIDE DEF to
<1>2. first = from..to
  <2>1. \A j \in from..n : Cardinality({k \in from..n : k < j}) = j - from
    <3> SUFFICES ASSUME NEW j \in from..n
                 PROVE  Cardinality({k \in from..n : k < j}) = j - from
      OBVIOUS
    <3> DEFINE below == {k \in from..n : k < j}
    <3>1. below = from..(j - 1)
      OBVIOUS
    <3>2. from \in Int /\ j \in Int /\ from <= j /\ j - 1 \in Int
      OBVIOUS
    <3>3. Cardinality(from..(j - 1)) = IF from > j - 1 THEN 0 ELSE (j - 1) - from + 1
      BY <3>2, FS_Interval
    <3>4. (IF from > j - 1 THEN 0 ELSE (j - 1) - from + 1) = j - from
      BY <3>2
    <3> HIDE DEF below
    <3>5. Cardinality(below) = j - from
      BY <3>1, <3>3, <3>4, Zenon
    <3> QED BY <3>5 DEF below
  <2>2. first = {j \in from..n : j - from < limit}
    BY <2>1
  <2> HIDE DEF first
  <2> QED BY <1>1, <2>2
<1>3. /\ page \in Seq(Postgres!Rows(rows))
      /\ Len(page) = IF from <= to THEN to - from + 1 ELSE 0
      /\ \A i \in 1..(to - from + 1) : page[i] = rows[from + i - 1]
  <2>1. \A i \in from..to : rows[i] \in Postgres!Rows(rows)
    <3>1. \A i \in from..to : i \in 1..n
      BY <1>1
    <3> QED BY <3>1 DEF Postgres!Rows
  <2>2. from \in Int /\ to \in Int
    BY <1>1
  <2> QED BY <2>1, <2>2, SubSeqProperties
<1> HIDE DEF page
<1>4. Range(page) = {page[i] : i \in 1..Len(page)}
  BY <1>3 DEF Range
<1>5. ASSUME NEW i \in 1..Len(page)
      PROVE  \E j \in from..to : page[i] = rows[j]
  <2>1. i \in 1..(to - from + 1) /\ from + i - 1 \in from..to
    BY <1>1, <1>3
  <2> QED BY <1>3, <2>1
<1>6. ASSUME NEW j \in from..to
      PROVE  \E i \in 1..Len(page) : page[i] = rows[j]
  <2>1. j - from + 1 \in 1..(to - from + 1) /\ Len(page) = to - from + 1
        /\ from + (j - from + 1) - 1 = j
    BY <1>1, <1>3
  <2> QED BY <1>3, <2>1
<1>7. Range(page) = {rows[j] : j \in from..to}
  <2>1. ASSUME NEW row \in {page[i] : i \in 1..Len(page)}
        PROVE  row \in {rows[j] : j \in from..to}
    <3>1. PICK i \in 1..Len(page) : row = page[i]
      OBVIOUS
    <3>2. PICK j \in from..to : page[i] = rows[j]
      BY <1>5
    <3> QED BY <3>1, <3>2
  <2>2. ASSUME NEW row \in {rows[j] : j \in from..to}
        PROVE  row \in {page[i] : i \in 1..Len(page)}
    <3>1. PICK j \in from..to : row = rows[j]
      OBVIOUS
    <3>2. PICK i \in 1..Len(page) : page[i] = rows[j]
      BY <1>6
    <3> QED BY <3>1, <3>2
  <2> QED BY <1>4, <2>1, <2>2
<1> QED BY <1>2, <1>7 DEF page, to, first, Limited, Taken

\* listByRun of the events.
LEMMA PagesAgree ==
  ASSUME StorageInv, NEW r \in RunIds, NEW after
  PROVE  /\ PageRefused(r, after) <=> Postgres!PageRefused(r, after)
         /\ ~PageRefused(r, after) => \A limit \in Limits :
              Range(Page(r, after, limit)) = Postgres!Page(r, after, limit)
<1> DEFINE ids == eventsByRun[r]
           n == Len(ids)
           rows == TableOf(events, eventsByRun)[r]
           at == Cursor(rows, after)
<1>1. /\ Get(events, ids) = rows
      /\ rows = [i \in DOMAIN ids |-> events[ids[i]]]
      /\ n \in Nat /\ DOMAIN ids = 1..n
      /\ \A i \in DOMAIN ids : ids[i] \in EventIds /\ events[ids[i]] # None /\ events[ids[i]].id = ids[i]
      /\ \A i, j \in DOMAIN ids : ids[i] = ids[j] => i = j
  <2>1. /\ Agree(events, eventsByRun, Existing)
        /\ DOMAIN events = EventIds /\ eventsByRun \in [RunIds -> Seq(DOMAIN events)]
    BY InTables
  <2> QED BY <2>1, TableOfRun
<1>2. at = Postgres!Cursor(rows, after)
  BY DEF Cursor, Postgres!Cursor
<1>3. PageRefused(r, after) <=> after # None /\ at = {}
  BY <1>1 DEF PageRefused
<1>4. Postgres!PageRefused(r, after) <=> after # None /\ at = {}
  BY <1>2, Zenon DEF Postgres!PageRefused
<1>5. ASSUME NEW limit \in Limits, ~PageRefused(r, after)
      PROVE  Range(Page(r, after, limit)) = Postgres!Page(r, after, limit)
  <2> DEFINE from == IF after = None THEN 1 ELSE Min(at) + 1
             later == {i \in DOMAIN rows : \A c \in at : i > c}
  <2>1. Page(r, after, limit) = Taken(rows, from, limit)
    BY <1>1, Zenon DEF Page, Taken
  <2>2. Postgres!Page(r, after, limit) = Limited(rows, later, limit)
    BY <1>2, SameCardinality, Zenon DEF Postgres!Page, Limited
  <2>3. limit \in Nat
    BY StorageAssumption
  <2>4. DOMAIN rows = 1..n /\ Len(rows) = n
    <3>1. DOMAIN rows = 1..n /\ rows \in Seq({events[ids[i]] : i \in 1..n})
      BY <1>1
    <3> QED BY <1>1, <3>1
  <2>5. at = {i \in 1..n : ids[i] = after}
    BY <1>1 DEF Cursor
  <2> HIDE DEF rows, at
  <2>6. from \in 1..(n + 1) /\ later = from..n
    <3>1. CASE after = None
      <4>1. at = {}
        BY <1>1, <2>5, <3>1, StorageAssumption, InTables DEF StorageInv
      <4> QED BY <1>1, <2>4, <3>1, <4>1
    <3>2. CASE after # None
      <4>1. PICK c \in at : TRUE
        BY <1>3, <1>5, <3>2
      <4>2. at = {c} /\ c \in 1..n
        BY <1>1, <2>5, <4>1
      <4>3. Min({c}) = c
        <5>1. {c} \in SUBSET Nat
          BY <4>2
        <5> QED BY <5>1, MinIsIn
      <4>4. from = c + 1
        BY <3>2, <4>2, <4>3
      <4>5. later = {i \in 1..n : i > c}
        BY <2>4, <4>2
      <4> HIDE DEF from, later
      <4> QED BY <1>1, <4>2, <4>4, <4>5
    <3> QED BY <3>1, <3>2
  <2> HIDE DEF from, later
  <2>7. Range(Taken(rows, from, limit)) = Limited(rows, from..n, limit)
    <3>1. n \in Nat
      BY <1>1
    <3>2. from \in 1..(n + 1)
      BY <2>6
    <3> HIDE DEF n
    <3> QED BY <2>3, <2>4, <3>1, <3>2, CutIsLimited
  <2> QED BY <2>1, <2>2, <2>6, <2>7
<1> QED BY <1>3, <1>4, <1>5

\* Whatever was created, updated, consumed and deleted before, the reads of the memory adapter
\* return what the SELECTs of Postgres would: the row of a key, the latest visit of a step,
\* the watermark of a wait, the number of pending signals and every page of the log.
THEOREM ReadsAlwaysAgree == Spec => []ReadsAgree
<1>1. StorageInv /\ CreatedAsNew => ReadsAgree
  BY KeyReadAgrees, LatestAgrees, WatermarkAgrees, CountAgrees, PagesAgree DEF ReadsAgree
<1> QED BY <1>1, StorageInvHolds, CreatedAsNewHolds, PTL
=============================================================================
