--------------------------- MODULE TimelinesProofs ---------------------------
(***************************************************************************)
(* Theorems about the home timeline in a browser window, for any statuses, *)
(* any sizes of pages and lists and any number of removals, losses of the  *)
(* socket and failures.                                                    *)
(***************************************************************************)
EXTENDS Timelines, FiniteSetTheorems, SequenceTheorems, TLAPS

-----------------------------------------------------------------------------
(* Places in a set and in a list *)

LEMMA SmallestIs ==
  ASSUME NEW T \in SUBSET Nat, T # {}
  PROVE  \E n \in T : \A m \in T : n <= m
<1>1. IsWellFoundedOn(OpToRel(<, Nat), Nat)
  BY NatLessThanWellFounded
<1>2. PICK n \in T : \A m \in T : ~ (<<m, n>> \in OpToRel(<, Nat))
  BY <1>1, WFMin
<1>3. \A m \in T : ~ (m < n)
  BY <1>2 DEF OpToRel
<1> QED BY <1>3

LEMMA GreatestIs ==
  ASSUME NEW n \in Nat, NEW T \in SUBSET (0..n), T # {}
  PROVE  Max(T) \in T /\ \A m \in T : m <= Max(T)
<1> DEFINE R == {n - m : m \in T}
<1>0. \A m \in T : m \in 0..n /\ m \in Nat /\ n - m \in Nat
  OBVIOUS
<1>1. R \in SUBSET Nat /\ R # {}
  BY <1>0
<1>2. PICK r \in R : \A m \in R : r <= m
  <2> HIDE DEF R
  <2> QED BY <1>1, SmallestIs
<1>3. PICK x \in T : r = n - x
  BY <1>2
<1>4. \A m \in T : x >= m
  <2> TAKE m \in T
  <2>1. n - m \in R
    OBVIOUS
  <2>2. n - x <= n - m
    BY <1>2, <1>3, <2>1
  <2>3. x \in Nat /\ m \in Nat
    BY <1>0, <1>3
  <2> HIDE DEF R
  <2> QED BY <2>2, <2>3
<1>5. Max(T) \in T /\ \A m \in T : Max(T) >= m
  BY <1>4 DEF Max
<1> QED BY <1>0, <1>5

Before(S, x) == {m \in S : m < x}

LEMMA NthIs ==
  ASSUME NEW S \in SUBSET Nat, IsFiniteSet(S)
  PROVE  /\ Cardinality(S) \in Nat
         /\ \A k \in 1..Cardinality(S) : Nth(S, k) \in S
         /\ \A j, k \in 1..Cardinality(S) : j < k => Nth(S, j) < Nth(S, k)
         /\ \A x \in S : \E k \in 1..Cardinality(S) : x = Nth(S, k)
<1> DEFINE n == Cardinality(S)
           f == [x \in S |-> Cardinality(Before(S, x)) + 1]
<1>1. n \in Nat
  BY FS_CardinalityType
<1>2. ASSUME NEW x \in S
      PROVE  /\ IsFiniteSet(Before(S, x)) /\ Cardinality(Before(S, x)) \in Nat
             /\ Cardinality(Before(S, x)) + 1 \in 1..n
  <2>1. Before(S, x) \in SUBSET S /\ x \notin Before(S, x)
    BY DEF Before
  <2>2. /\ IsFiniteSet(Before(S, x)) /\ Cardinality(Before(S, x)) <= n
        /\ (n = Cardinality(Before(S, x)) => S = Before(S, x))
    BY <2>1, FS_Subset
  <2>3. Cardinality(Before(S, x)) \in Nat
    BY <2>2, FS_CardinalityType
  <2>4. Cardinality(Before(S, x)) # n
    BY <2>1, <2>2
  <2> QED BY <1>1, <2>2, <2>3, <2>4
<1>3. ASSUME NEW x \in S, NEW y \in S, x < y
      PROVE  Cardinality(Before(S, x)) < Cardinality(Before(S, y))
  <2>1. Before(S, x) \in SUBSET Before(S, y) /\ x \in Before(S, y) /\ x \notin Before(S, x)
    <3>1. \A m \in S : m < x => m < y
      BY <1>3
    <3>2. x < y /\ ~ (x < x)
      BY <1>3
    <3> HIDE <1>3
    <3> QED BY <3>1, <3>2, Zenon DEF Before
  <2>2. /\ Cardinality(Before(S, x)) <= Cardinality(Before(S, y))
        /\ Cardinality(Before(S, y)) = Cardinality(Before(S, x)) => Before(S, y) = Before(S, x)
    BY <1>2, <2>1, FS_Subset
  <2>3. Cardinality(Before(S, x)) \in Nat /\ Cardinality(Before(S, y)) \in Nat
    BY <1>2
  <2>4. Before(S, y) # Before(S, x)
    BY <2>1
  <2> QED BY <2>2, <2>3, <2>4
<1>4. f \in [S -> 1..n] /\ \A x \in S : f[x] = Cardinality(Before(S, x)) + 1
  BY <1>2
<1>5. \A x, y \in S : x < y => f[x] < f[y]
  <2> TAKE x, y \in S
  <2> HAVE x < y
  <2>1. Cardinality(Before(S, x)) < Cardinality(Before(S, y))
    BY <1>3
  <2>2. Cardinality(Before(S, x)) \in Nat /\ Cardinality(Before(S, y)) \in Nat
    BY <1>2
  <2>3. f[x] = Cardinality(Before(S, x)) + 1 /\ f[y] = Cardinality(Before(S, y)) + 1
    BY <1>4
  <2> HIDE DEF f
  <2> QED BY <2>1, <2>2, <2>3
<1>6. \A x \in S : f[x] \in 1..n
  <2> HIDE DEF f
  <2> QED BY <1>4
<1>7. \A x, y \in S : f[x] = f[y] => x = y
  <2> HIDE DEF f
  <2> TAKE x, y \in S
  <2>1. x \in Nat /\ y \in Nat /\ f[x] \in Int /\ f[y] \in Int
    BY <1>1, <1>6
  <2> QED BY <1>5, <2>1
<1>8. f \in Injection(S, 1..n)
  <2> HIDE DEF f
  <2> QED BY <1>4, <1>7 DEF Injection, IsInjective
<1>9. IsFiniteSet(1..n) /\ Cardinality(1..n) = n
  <2>1. IsFiniteSet(1..n) /\ Cardinality(1..n) = IF 1 > n THEN 0 ELSE n - 1 + 1
    BY <1>1, FS_Interval
  <2> QED BY <1>1, <2>1
<1>10. \A k \in 1..n : \E x \in S : f[x] = k
  <2>1. Cardinality(S) = Cardinality(1..n) <=> f \in Surjection(S, 1..n)
    <3> HIDE DEF f
    <3> QED BY <1>8, <1>9, FS_Injection
  <2>2. f \in Surjection(S, 1..n)
    BY <1>9, <2>1
  <2> HIDE DEF f
  <2> QED BY <2>2 DEF Surjection
<1>11. \A k \in 1..n : Nth(S, k) \in S /\ f[Nth(S, k)] = k
  <2> TAKE k \in 1..n
  <2>1. PICK x \in S : f[x] = k
    BY <1>10
  <2>2. Cardinality({m \in S : m < x}) = k - 1
    BY <1>2, <2>1 DEF Before
  <2>3. Nth(S, k) \in S /\ Cardinality({m \in S : m < Nth(S, k)}) = k - 1
    BY <2>2 DEF Nth
  <2>4. Cardinality(Before(S, Nth(S, k))) = k - 1
    BY <2>3 DEF Before
  <2> QED BY <1>4, <2>3, <2>4
<1> HIDE DEF f
<1>12. \A j, k \in 1..n : j < k => Nth(S, j) < Nth(S, k)
  <2> TAKE j, k \in 1..n
  <2> HAVE j < k
  <2>1. Nth(S, j) \in S /\ f[Nth(S, j)] = j /\ Nth(S, k) \in S /\ f[Nth(S, k)] = k
    BY <1>11
  <2>2. ~ (Nth(S, k) < Nth(S, j)) /\ Nth(S, k) # Nth(S, j)
    <3>1. ASSUME Nth(S, k) < Nth(S, j) PROVE FALSE
      <4>1. f[Nth(S, k)] < f[Nth(S, j)]
        BY <1>5, <2>1, <3>1
      <4> QED BY <2>1, <4>1
    <3> QED BY <2>1, <3>1
  <2>3. Nth(S, j) \in Nat /\ Nth(S, k) \in Nat
    BY <2>1
  <2> QED BY <2>2, <2>3
<1>13. \A x \in S : \E k \in 1..n : x = Nth(S, k)
  <2> TAKE x \in S
  <2>1. f[x] \in 1..n
    BY <1>6
  <2>2. f[Nth(S, f[x])] = f[x] /\ Nth(S, f[x]) \in S
    BY <1>11, <2>1
  <2>3. Nth(S, f[x]) = x
    BY <1>7, <2>2
  <2> QED BY <2>1, <2>3
<1> QED BY <1>1, <1>11, <1>12, <1>13

Entries == Ids \cup {GAP}

LEMMA IdIs == \A s \in Ids : s \in Nat /\ s > 0 /\ s # GAP
BY TimelinesAssumption DEF GAP

LEMMA EntryIs == \A s \in Entries : s \in Nat /\ (s > 0 => s \in Ids) /\ (s # GAP => s \in Ids)
BY IdIs DEF Entries, GAP

\* What is taken out of a list leaves the others in their order
LEMMA WithoutIs ==
  ASSUME NEW list \in Seq(Entries), NEW S
  PROVE  /\ Without(list, S) \in Seq(Entries)
         /\ \E f \in [1..Len(Without(list, S)) -> 1..Len(list)] :
              /\ \A k \in 1..Len(Without(list, S)) :
                   Without(list, S)[k] = list[f[k]] /\ list[f[k]] \notin S
              /\ \A j, k \in 1..Len(Without(list, S)) : j < k => f[j] < f[k]
              /\ \A i \in 1..Len(list) :
                   list[i] \notin S => \E k \in 1..Len(Without(list, S)) : f[k] = i
<1> DEFINE kept == {i \in DOMAIN list : list[i] \notin S}
           n == Cardinality(kept)
           W == Without(list, S)
           f == [k \in 1..n |-> Nth(kept, k)]
<1>1. DOMAIN list = 1..Len(list) /\ Len(list) \in Nat /\ \A i \in 1..Len(list) : list[i] \in Entries
  OBVIOUS
<1>2. kept \in SUBSET (1..Len(list)) /\ kept \in SUBSET Nat
  BY <1>1
<1>3. IsFiniteSet(kept)
  <2>1. IsFiniteSet(1..Len(list))
    BY <1>1, FS_Interval
  <2> HIDE DEF kept
  <2> QED BY <1>2, <2>1, FS_Subset
<1>4. /\ n \in Nat
      /\ \A k \in 1..n : Nth(kept, k) \in kept
      /\ \A j, k \in 1..n : j < k => Nth(kept, j) < Nth(kept, k)
      /\ \A x \in kept : \E k \in 1..n : x = Nth(kept, k)
  <2> HIDE DEF kept
  <2> QED BY <1>2, <1>3, NthIs
<1>5. \A i \in kept : i \in 1..Len(list) /\ list[i] \in Entries /\ list[i] \notin S
  BY <1>1
<1>6. W = [k \in 1..n |-> list[Nth(kept, k)]]
  BY DEF Without
<1>7. \A i \in 1..Len(list) : list[i] \notin S => i \in kept
  BY <1>1
<1> HIDE DEF kept, n
<1>8. /\ W \in Seq(Entries) /\ Len(W) = n
      /\ \A k \in 1..n : W[k] = list[Nth(kept, k)]
  <2> HIDE DEF W
  <2>1. \A k \in 1..n : list[Nth(kept, k)] \in Entries
    BY <1>4, <1>5
  <2>2. W \in [1..n -> Entries]
    BY <1>6, <2>1
  <2> QED BY <1>4, <1>6, <2>2
<1> HIDE DEF W
<1>9. f \in [1..n -> 1..Len(list)] /\ \A k \in 1..n : f[k] = Nth(kept, k)
  BY <1>4, <1>5
<1> HIDE DEF f
<1>10. /\ \A k \in 1..n : W[k] = list[f[k]] /\ list[f[k]] \notin S
       /\ \A j, k \in 1..n : j < k => f[j] < f[k]
       /\ \A i \in 1..Len(list) : list[i] \notin S => \E k \in 1..n : f[k] = i
  <2>1. \A k \in 1..n : W[k] = list[f[k]] /\ list[f[k]] \notin S
    BY <1>4, <1>5, <1>8, <1>9
  <2>2. \A j, k \in 1..n : j < k => f[j] < f[k]
    BY <1>4, <1>9
  <2>3. ASSUME NEW i \in 1..Len(list), list[i] \notin S
        PROVE  \E k \in 1..n : f[k] = i
    BY <1>4, <1>7, <1>9, <2>3
  <2> QED BY <2>1, <2>2, <2>3
<1>11. /\ W \in Seq(Entries)
       /\ \E g \in [1..Len(W) -> 1..Len(list)] :
            /\ \A k \in 1..Len(W) : W[k] = list[g[k]] /\ list[g[k]] \notin S
            /\ \A j, k \in 1..Len(W) : j < k => g[j] < g[k]
            /\ \A i \in 1..Len(list) :
                 list[i] \notin S => \E k \in 1..Len(W) : g[k] = i
  BY <1>8, <1>9, <1>10
<1> QED BY <1>11 DEF W

\* A page is the newest of what it was asked for
LEMMA PageIs ==
  ASSUME feed \subseteq Ids, NEW since \in Nat, NEW max \in Nat
  PROVE  /\ Page(since, max) \in Seq(Ids)
         /\ \A k \in 1..Len(Page(since, max)) : Page(since, max)[k] \in InRange(since, max)
         /\ \A j, k \in 1..Len(Page(since, max)) :
              j < k => Page(since, max)[j] > Page(since, max)[k]
         /\ \A s \in InRange(since, max) :
              \/ \E k \in 1..Len(Page(since, max)) : s = Page(since, max)[k]
              \/ /\ Page(since, max) # <<>>
                 /\ s < Page(since, max)[Len(Page(since, max))]
                 /\ Cardinality(InRange(since, max)) > LIMIT
<1> DEFINE all == InRange(since, max)
           size == Cardinality(all)
           n == IF size < LIMIT THEN size ELSE LIMIT
           p == Page(since, max)
<1>1. all \in SUBSET feed /\ all \in SUBSET Ids /\ all \in SUBSET Nat
  BY IdIs DEF InRange
<1>2. IsFiniteSet(all)
  BY <1>1, FS_Subset, TimelinesAssumption
<1>3. LIMIT \in Nat \ {0}
  BY TimelinesAssumption
<1>4. p = [k \in 1..n |-> Nth(all, size + 1 - k)]
  BY DEF Page
<1> HIDE DEF all, p
<1>5. /\ size \in Nat
      /\ \A k \in 1..size : Nth(all, k) \in all
      /\ \A j, k \in 1..size : j < k => Nth(all, j) < Nth(all, k)
      /\ \A x \in all : \E k \in 1..size : x = Nth(all, k)
  BY <1>1, <1>2, NthIs
<1> HIDE DEF size
<1>6. n \in Nat /\ n <= size /\ n <= LIMIT /\ (n < size => n = LIMIT)
  BY <1>3, <1>5
<1> HIDE DEF n
<1>7. \A k \in 1..n : size + 1 - k \in 1..size
  BY <1>5, <1>6
<1>8. /\ p \in Seq(Ids) /\ Len(p) = n
      /\ \A k \in 1..n : p[k] = Nth(all, size + 1 - k) /\ p[k] \in all
  <2>1. \A k \in 1..n : Nth(all, size + 1 - k) \in all
    BY <1>5, <1>7
  <2>2. p \in [1..n -> Ids]
    BY <1>1, <1>4, <2>1
  <2> QED BY <1>4, <1>6, <2>1, <2>2
<1>9. \A j, k \in 1..n : j < k => p[j] > p[k]
  <2> TAKE j, k \in 1..n
  <2> HAVE j < k
  <2>1. size + 1 - k < size + 1 - j
    BY <1>5, <1>6
  <2>2. Nth(all, size + 1 - k) < Nth(all, size + 1 - j)
    BY <1>5, <1>7, <2>1
  <2>3. p[k] < p[j] /\ p[k] \in Nat /\ p[j] \in Nat
    BY <1>1, <1>8, <2>2
  <2> QED BY <2>3
<1>10. ASSUME NEW s \in all
       PROVE  \/ \E k \in 1..n : s = p[k]
              \/ p # <<>> /\ s < p[n] /\ size > LIMIT
  <2>1. PICK i \in 1..size : s = Nth(all, i)
    BY <1>5
  <2>2. CASE size + 1 - i <= n
    <3>1. size + 1 - i \in 1..n /\ size + 1 - (size + 1 - i) = i
      BY <1>5, <1>6, <2>2
    <3>2. p[size + 1 - i] = s
      BY <1>8, <2>1, <3>1
    <3> QED BY <3>1, <3>2
  <2>3. CASE size + 1 - i > n
    <3>1. n < size /\ n = LIMIT /\ n \in 1..n /\ i < size + 1 - n
      BY <1>3, <1>5, <1>6, <2>3
    <3>2. Nth(all, i) < Nth(all, size + 1 - n)
      BY <1>5, <1>7, <3>1
    <3>3. p # <<>>
      BY <1>3, <1>8, <3>1
    <3> QED BY <1>8, <2>1, <3>1, <3>2, <3>3
  <2> QED BY <1>5, <1>6, <2>2, <2>3
<1>11. /\ p \in Seq(Ids)
       /\ \A k \in 1..Len(p) : p[k] \in all
       /\ \A j, k \in 1..Len(p) : j < k => p[j] > p[k]
       /\ \A s \in all : \/ \E k \in 1..Len(p) : s = p[k]
                         \/ p # <<>> /\ s < p[Len(p)] /\ size > LIMIT
  BY <1>8, <1>9, <1>10
<1> QED BY <1>11 DEF p, all, size

\* What goes before a page in a list and what after it
LEMMA MergedIs ==
  ASSUME NEW list \in Seq(Entries), NEW page \in Seq(Ids), page # <<>>
  PROVE  \E first, last \in 0..Len(list) :
           /\ first <= last
           /\ first > 0 => list[first] > page[1]
           /\ \A i \in 1..last : i > first => list[i] <= page[1]
           /\ last > 0 => list[last] >= page[Len(page)]
           /\ \A i \in 1..Len(list) : i > last => list[i] < page[Len(page)]
           /\ Merged(list, page) \in Seq(Entries)
           /\ Len(Merged(list, page)) = first + Len(page) + (Len(list) - last)
           /\ \A i \in 1..Len(Merged(list, page)) :
                Merged(list, page)[i] =
                  IF i <= first THEN list[i]
                  ELSE IF i <= first + Len(page) THEN page[i - first]
                  ELSE list[i - first - Len(page) + last]
<1> DEFINE n == Len(page)
           asNew == {i \in 1..Len(list) : list[i] >= page[n]}
           last == IF asNew # {} THEN Max(asNew) ELSE 0
           newer == {i \in 1..last : list[i] > page[1]}
           first == IF newer # {} THEN Max(newer) ELSE 0
           above == SubSeq(list, 1, first)
           below == SubSeq(list, last + 1, Len(list))
           upper == above \o page
           M == Merged(list, page)
<1>1. /\ Len(list) \in Nat /\ \A i \in 1..Len(list) : list[i] \in Entries /\ list[i] \in Nat
      /\ n \in Nat /\ n > 0 /\ \A i \in 1..n : page[i] \in Ids /\ page[i] \in Nat
  <2>1. Len(list) \in Nat /\ \A i \in 1..Len(list) : list[i] \in Entries
    OBVIOUS
  <2>2. n \in Nat /\ n > 0 /\ \A i \in 1..n : page[i] \in Ids
    OBVIOUS
  <2> QED BY <2>1, <2>2, EntryIs, IdIs
<1>2. M = upper \o below
  BY DEF Merged, SelectLastInSeq, SelectLastInSubSeq
<1> HIDE DEF n, M
<1>3. /\ last \in 0..Len(list)
      /\ last > 0 => list[last] >= page[n]
      /\ \A i \in 1..Len(list) : i > last => ~ (list[i] >= page[n])
  <2>1. asNew \in SUBSET (0..Len(list)) /\ \A i \in asNew : i \in 1..Len(list) /\ list[i] >= page[n]
    OBVIOUS
  <2>2. \A i \in 1..Len(list) : list[i] >= page[n] => i \in asNew
    OBVIOUS
  <2> HIDE DEF asNew
  <2>3. CASE asNew = {}
    BY <1>1, <2>2, <2>3
  <2>4. CASE asNew # {}
    <3>1. Max(asNew) \in asNew /\ \A m \in asNew : m <= Max(asNew)
      BY <1>1, <2>1, <2>4, GreatestIs
    <3>2. last = Max(asNew) /\ last \in 1..Len(list) /\ list[last] >= page[n]
      BY <2>1, <2>4, <3>1
    <3>3. ASSUME NEW i \in 1..Len(list), i > last, list[i] >= page[n]
          PROVE  FALSE
      BY <1>1, <2>2, <3>1, <3>2, <3>3
    <3> QED BY <1>1, <3>2, <3>3
  <2> QED BY <2>3, <2>4
<1>4. last \in Nat /\ last <= Len(list)
  BY <1>1, <1>3
<1> HIDE DEF last, asNew
<1>5. /\ first \in 0..last
      /\ first > 0 => list[first] > page[1]
      /\ \A i \in 1..last : i > first => ~ (list[i] > page[1])
  <2>1. newer \in SUBSET (0..last) /\ \A i \in newer : i \in 1..last /\ list[i] > page[1]
    BY <1>4
  <2>2. \A i \in 1..last : list[i] > page[1] => i \in newer
    OBVIOUS
  <2> HIDE DEF newer
  <2>3. CASE newer = {}
    BY <1>4, <2>2, <2>3
  <2>4. CASE newer # {}
    <3>1. Max(newer) \in newer /\ \A m \in newer : m <= Max(newer)
      BY <1>4, <2>1, <2>4, GreatestIs
    <3>2. first = Max(newer) /\ first \in 1..last /\ list[first] > page[1]
      BY <2>1, <2>4, <3>1
    <3>3. ASSUME NEW i \in 1..last, i > first, list[i] > page[1]
          PROVE  FALSE
      BY <1>4, <2>2, <3>1, <3>2, <3>3
    <3> QED BY <1>4, <3>2, <3>3
  <2> QED BY <2>3, <2>4
<1>6. first \in Nat /\ first <= last /\ first \in 0..Len(list)
  BY <1>4, <1>5
<1> HIDE DEF first, newer
<1>7. /\ above \in Seq(Entries) /\ Len(above) = first
      /\ \A i \in 1..first : above[i] = list[i]
  BY <1>1, <1>4, <1>6
<1>8. /\ below \in Seq(Entries) /\ Len(below) = Len(list) - last
      /\ \A i \in 1..(Len(list) - last) : below[i] = list[last + i]
  BY <1>1, <1>4
<1> HIDE DEF above, below
<1>9. /\ page \in Seq(Entries)
      /\ upper \in Seq(Entries) /\ Len(upper) = first + n
      /\ \A i \in 1..(first + n) : upper[i] = IF i <= first THEN list[i] ELSE page[i - first]
  <2>1. page \in Seq(Entries)
    BY SeqMonotonic DEF Entries
  <2>2. /\ upper \in Seq(Entries) /\ Len(upper) = first + n
        /\ \A i \in 1..(first + n) : upper[i] = IF i <= first THEN above[i] ELSE page[i - first]
    BY <1>7, <2>1, ConcatProperties DEF n, upper
  <2>3. \A i \in 1..(first + n) : i <= first => above[i] = list[i]
    BY <1>6, <1>7
  <2> QED BY <2>1, <2>2, <2>3
<1> HIDE DEF upper
<1>10. /\ M \in Seq(Entries) /\ Len(M) = first + n + (Len(list) - last)
       /\ \A i \in 1..(first + n + (Len(list) - last)) :
            M[i] = IF i <= first + n THEN upper[i] ELSE below[i - (first + n)]
  <2>1. /\ upper \o below \in Seq(Entries) /\ Len(upper \o below) = Len(upper) + Len(below)
        /\ \A i \in 1..(Len(upper) + Len(below)) :
             (upper \o below)[i] = IF i <= Len(upper) THEN upper[i] ELSE below[i - Len(upper)]
    BY <1>8, <1>9, ConcatProperties
  <2>2. Len(upper) = first + n /\ Len(below) = Len(list) - last
    BY <1>8, <1>9
  <2> HIDE DEF M
  <2> QED BY <1>2, <2>1, <2>2
<1>11. ASSUME NEW i \in 1..(first + n + (Len(list) - last))
       PROVE  M[i] = IF i <= first THEN list[i]
                     ELSE IF i <= first + n THEN page[i - first]
                     ELSE list[i - first - n + last]
  <2>1. CASE i <= first + n
    <3>1. i \in 1..(first + n)
      BY <1>1, <1>6, <2>1
    <3>2. M[i] = upper[i]
      BY <1>10, <2>1
    <3> QED BY <1>9, <2>1, <3>1, <3>2
  <2>2. CASE i > first + n
    <3>1. M[i] = below[i - (first + n)]
      BY <1>1, <1>6, <1>10, <2>2
    <3>2. i - (first + n) \in 1..(Len(list) - last)
      BY <1>1, <1>4, <1>6, <2>2
    <3>3. below[i - (first + n)] = list[last + (i - (first + n))]
      BY <1>8, <3>2
    <3>4. last + (i - (first + n)) = i - first - n + last /\ ~ (i <= first) /\ ~ (i <= first + n)
      BY <1>1, <1>4, <1>6, <2>2
    <3> QED BY <3>1, <3>3, <3>4
  <2> QED BY <1>1, <1>4, <1>6, <2>1, <2>2
<1>12. \A i \in 1..last : i > first => list[i] <= page[1]
  BY <1>1, <1>4, <1>5
<1>13. \A i \in 1..Len(list) : i > last => list[i] < page[n]
  BY <1>1, <1>3
<1>14. \E f, l \in 0..Len(list) :
         /\ f <= l
         /\ f > 0 => list[f] > page[1]
         /\ \A i \in 1..l : i > f => list[i] <= page[1]
         /\ l > 0 => list[l] >= page[n]
         /\ \A i \in 1..Len(list) : i > l => list[i] < page[n]
         /\ M \in Seq(Entries)
         /\ Len(M) = f + n + (Len(list) - l)
         /\ \A i \in 1..Len(M) :
              M[i] = IF i <= f THEN list[i]
                     ELSE IF i <= f + n THEN page[i - f]
                     ELSE list[i - f - n + l]
  <2>1. \A i \in 1..Len(M) :
              M[i] = IF i <= first THEN list[i]
                     ELSE IF i <= first + n THEN page[i - first]
                     ELSE list[i - first - n + last]
    BY <1>10, <1>11
  <2> first \in 0..Len(list) /\ last \in 0..Len(list)
    BY <1>3, <1>5
  <2> HIDE DEF first, last
  <2> WITNESS first \in 0..Len(list), last \in 0..Len(list)
  <2> QED BY <1>3, <1>5, <1>6, <1>10, <1>12, <1>13, <2>1
<1> QED BY <1>14 DEF M, n

-----------------------------------------------------------------------------
(* Types *)

LEMMA ItemsAre ==
  ASSUME TypeOK
  PROVE  /\ items \in Seq(Entries) /\ Len(items) \in Nat /\ DOMAIN items = 1..Len(items)
         /\ \A i \in 1..Len(items) :
              /\ items[i] \in Entries /\ items[i] \in Nat
              /\ items[i] # GAP => items[i] \in Ids /\ items[i] > 0
<1>1. items \in Seq(Entries)
  BY DEF TypeOK, Entries
<1>2. Len(items) \in Nat /\ DOMAIN items = 1..Len(items) /\ \A i \in 1..Len(items) : items[i] \in Entries
  BY <1>1
<1>3. \A e \in Entries : e \in Nat /\ (e # GAP => e \in Ids /\ e > 0)
  BY EntryIs, IdIs
<1> QED BY <1>1, <1>2, <1>3

LEMMA WireIs ==
  ASSUME TypeOK
  PROVE  /\ wire \in Seq(Events) /\ Len(wire) \in Nat /\ DOMAIN wire = 1..Len(wire)
         /\ \A i \in 1..Len(wire) :
              /\ wire[i] \in Events /\ wire[i].id \in Ids /\ wire[i].id \in Nat
              /\ wire[i].event \in {"update", "delete"}
<1>1. wire \in Seq(Events)
  BY DEF TypeOK
<1>2. Len(wire) \in Nat /\ DOMAIN wire = 1..Len(wire) /\ \A i \in 1..Len(wire) : wire[i] \in Events
  BY <1>1
<1>3. \A e \in Events : e.id \in Ids /\ e.event \in {"update", "delete"}
  BY DEF Events
<1> QED BY <1>1, <1>2, <1>3, IdIs

LEMMA RequestIs ==
  ASSUME TypeOK
  PROVE  /\ request = None => request.at = "none"
         /\ isLoading => /\ request.at \in {"asked", "answered"}
                         /\ request.since \in Entries /\ request.max \in Entries
                         /\ request.since \in Nat /\ request.max \in Nat
         /\ request.at \in {"asked", "answered"} => isLoading
         /\ request.at = "answered" => request.page \in Seq(Ids)
<1>1. request \in Requests
  BY DEF TypeOK
<1>2. ASSUME NEW q \in [at : {"asked"}, since : Ids \cup {0}, max : Ids \cup {0}]
      PROVE  q.at = "asked" /\ q.since \in Entries /\ q.max \in Entries
  BY DEF Entries, GAP
<1>3. ASSUME NEW q \in [at : {"answered"}, since : Ids \cup {0}, max : Ids \cup {0}, page : Seq(Ids)]
      PROVE  q.at = "answered" /\ q.since \in Entries /\ q.max \in Entries /\ q.page \in Seq(Ids)
  BY DEF Entries, GAP
<1>4. None.at = "none"
  BY DEF None
<1> QED BY <1>1, <1>2, <1>3, <1>4, EntryIs DEF Requests, isLoading

LEMMA PageOfIs ==
  ASSUME TypeOK, request.at = "answered"
  PROVE  /\ request.page \in Seq(Ids) /\ Len(request.page) \in Nat
         /\ DOMAIN request.page = 1..Len(request.page)
         /\ \A k \in 1..Len(request.page) :
              request.page[k] \in Ids /\ request.page[k] \in Nat /\ request.page[k] > 0
         /\ request.page # <<>> => Len(request.page) > 0
<1>1. request.page \in Seq(Ids)
  BY RequestIs
<1> DEFINE p == request.page
<1> HIDE DEF p
<1>2. p \in Seq(Ids) => /\ Len(p) \in Nat /\ DOMAIN p = 1..Len(p)
                        /\ \A k \in 1..Len(p) : p[k] \in Ids
                        /\ p # <<>> => Len(p) > 0
  OBVIOUS
<1> QED BY <1>1, <1>2, IdIs DEF p

LEMMA WithoutType ==
  ASSUME NEW list \in Seq(Entries), NEW S
  PROVE  Without(list, S) \in Seq(Entries)
BY WithoutIs

LEMMA MergedType ==
  ASSUME NEW list \in Seq(Entries), NEW page \in Seq(Ids)
  PROVE  Merged(list, page) \in Seq(Entries)
<1>1. CASE page = <<>>
  BY <1>1 DEF Merged
<1>2. CASE page # <<>>
  BY <1>2, MergedIs
<1> QED BY <1>1, <1>2

\* What a request that is made asks for
LEMMA AskedIs ==
  ASSUME TypeOK, NEW max \in Entries, Expand(max)
  PROVE  /\ request' \in Requests /\ isLoading' /\ request'.at = "asked" /\ request'.max = max
         /\ request'.since = IF max = 0 /\ items # <<>> THEN Head(items) ELSE 0
         /\ request = None
<1> DEFINE h == IF max = 0 /\ items # <<>> THEN Head(items) ELSE 0
<1>1. h \in Ids \cup {0}
  <2>1. items # <<>> => Head(items) \in Entries
    BY ItemsAre
  <2> QED BY <2>1 DEF Entries, GAP
<1>2. request' = [at |-> "asked", max |-> max, since |-> h] /\ request = None
  BY DEF Expand, isLoading
<1>3. max \in Ids \cup {0}
  BY DEF Entries, GAP
<1> HIDE DEF h
<1>4. request' \in [at : {"asked"}, since : Ids \cup {0}, max : Ids \cup {0}] /\ request'.at = "asked"
      /\ request'.max = max /\ request'.since = h
  BY <1>1, <1>2, <1>3
<1>5. request' # None
  BY <1>4 DEF None
<1> QED BY <1>2, <1>4, <1>5 DEF Requests, isLoading, h

\* A status and its reblogs are announced as removed in some order
Deletes(s, R, order) ==
  [i \in 1..(Cardinality(R) + 1) |-> [event |-> "delete", id |-> IF i = 1 THEN s ELSE order[i - 1]]]

ReblogsIn(s) == {t \in feed : ReblogOf[t] = s}

LEMMA DeletesAre ==
  ASSUME NEW s \in Ids, NEW R \in SUBSET Ids, NEW order \in Bijection(1..Cardinality(R), R)
  PROVE  /\ Deletes(s, R, order) \in Seq(Events)
         /\ \A i \in 1..Len(Deletes(s, R, order)) :
              Deletes(s, R, order)[i].event = "delete" /\ Deletes(s, R, order)[i].id \in {s} \cup R
<1> DEFINE n == Cardinality(R)
           x(i) == IF i = 1 THEN s ELSE order[i - 1]
           d == [i \in 1..(n + 1) |-> [event |-> "delete", id |-> x(i)]]
<1>1. n \in Nat
  BY FS_Subset, FS_CardinalityType, TimelinesAssumption
<1>2. order \in [1..n -> R]
  BY DEF Bijection, Injection
<1> HIDE DEF n
<1>3. \A i \in 1..(n + 1) : x(i) \in {s} \cup R /\ x(i) \in Ids
  <2> TAKE i \in 1..(n + 1)
  <2>1. i # 1 => i - 1 \in 1..n
    BY <1>1
  <2> QED BY <1>2, <2>1
<1> HIDE DEF x
<1>4. \A i \in 1..(n + 1) : [event |-> "delete", id |-> x(i)] \in Events
  BY <1>3 DEF Events
<1>5. n + 1 \in Nat
  BY <1>1
<1>6. d \in [1..(n + 1) -> Events] /\ DOMAIN d = 1..(n + 1)
  BY <1>4
<1>7. d \in Seq(Events) /\ Len(d) = n + 1
  <2> HIDE DEF d
  <2> QED BY <1>5, <1>6
<1>8. \A i \in 1..(n + 1) : d[i].event = "delete" /\ d[i].id = x(i)
  OBVIOUS
<1>9. d \in Seq(Events) /\ \A i \in 1..Len(d) : d[i].event = "delete" /\ d[i].id \in {s} \cup R
  <2> HIDE DEF d
  <2> QED BY <1>3, <1>7, <1>8
<1>10. Deletes(s, R, order) = d
  BY DEF Deletes, d, x, n
<1> HIDE DEF d
<1> QED BY <1>9, <1>10

LEMMA RemovalTold ==
  ASSUME TypeOK, NEW s \in Ids, RemoveStatus(s)
  PROVE  \E e \in Seq(Events) :
           /\ \A i \in 1..Len(e) : e[i].event = "delete" /\ e[i].id \in {s} \cup ReblogsIn(s)
           /\ wire' = IF socket = "subscribed" THEN wire \o e ELSE wire
<1>1. PICK order \in Bijection(1..Cardinality(ReblogsIn(s)), ReblogsIn(s)) :
        wire' = IF socket = "subscribed" THEN wire \o Deletes(s, ReblogsIn(s), order) ELSE wire
  BY DEF RemoveStatus, Deletes, ReblogsIn
<1>2. ReblogsIn(s) \in SUBSET Ids
  BY DEF TypeOK, ReblogsIn
<1> DEFINE e == Deletes(s, ReblogsIn(s), order)
<1>3. /\ e \in Seq(Events)
      /\ \A i \in 1..Len(e) : e[i].event = "delete" /\ e[i].id \in {s} \cup ReblogsIn(s)
  BY <1>2, DeletesAre
<1>4. wire' = IF socket = "subscribed" THEN wire \o e ELSE wire
  BY <1>1
<1> HIDE DEF e
<1> QED BY <1>3, <1>4

LEMMA TypeInit == Init => TypeOK
<1> SUFFICES ASSUME Init PROVE TypeOK
  OBVIOUS
<1>1. request \in Requests
  BY DEF Init, Requests
<1>2. feed \subseteq Ids /\ removed \subseteq Ids
  BY DEF Init
<1>3. wire \in Seq(Events) /\ items \in Seq(Ids \cup {GAP})
  BY DEF Init
<1>4. removals \in 0..MaxRemovals /\ drops \in 0..MaxDrops /\ fails \in 0..MaxFails
  BY TimelinesAssumption DEF Init
<1> QED BY <1>1, <1>2, <1>3, <1>4 DEF Init, TypeOK

LEMMA TypeNext == TypeOK /\ [Next]_vars => TypeOK'
<1> SUFFICES ASSUME TypeOK, [Next]_vars PROVE TypeOK'
  OBVIOUS
<1> USE DEF server, past, stream
<1>1. ASSUME NEW s \in Ids, Publish(s) PROVE TypeOK'
  <2>1. [event |-> "update", id |-> s] \in Events
    BY DEF Events
  <2>2. wire' \in Seq(Events)
    <3>1. Append(wire, [event |-> "update", id |-> s]) \in Seq(Events)
      BY <2>1, WireIs, AppendProperties
    <3> QED BY <1>1, <3>1, WireIs DEF Publish
  <2>3. feed' \subseteq Ids /\ overtaken' \in BOOLEAN /\ holed' \in BOOLEAN
    BY <1>1 DEF Publish, TypeOK, Announced
  <2> QED BY <1>1, <2>2, <2>3 DEF Publish, TypeOK
<1>2. ASSUME NEW s \in Ids, RemoveStatus(s) PROVE TypeOK'
  <2> DEFINE R == {t \in feed : ReblogOf[t] = s}
  <2>1. R \in SUBSET Ids
    BY DEF TypeOK
  <2>2. wire' \in Seq(Events)
    <3>1. PICK e \in Seq(Events) :
            /\ \A i \in 1..Len(e) : e[i].event = "delete" /\ e[i].id \in {s} \cup ReblogsIn(s)
            /\ wire' = IF socket = "subscribed" THEN wire \o e ELSE wire
      BY <1>2, RemovalTold
    <3>2. wire \o e \in Seq(Events)
      BY WireIs, ConcatProperties
    <3> QED BY <3>1, <3>2, WireIs
  <2>3. removals' \in 0..MaxRemovals
    BY <1>2, TimelinesAssumption DEF RemoveStatus, TypeOK
  <2>4. feed' \subseteq Ids /\ removed' \subseteq Ids
    BY <1>2, <2>1 DEF RemoveStatus, TypeOK
  <2> QED BY <1>2, <2>2, <2>3, <2>4 DEF RemoveStatus, TypeOK
<1>3. ASSUME NEW max \in Entries, Expand(max), UNCHANGED <<server, stream, items, top, fails, past>>
      PROVE  TypeOK'
  <2>1. request' \in Requests
    BY <1>3, AskedIs
  <2> QED BY <1>3, <2>1 DEF TypeOK
<1>4. CASE Refresh
  BY <1>3, <1>4 DEF Refresh, Entries, GAP
<1>5. CASE LoadOlder
  <2>1. items[Len(items)] \in Entries
    BY <1>5, ItemsAre DEF LoadOlder
  <2> QED BY <1>3, <1>5, <2>1 DEF LoadOlder
<1>6. ASSUME NEW i \in DOMAIN items, FillGap(i) PROVE TypeOK'
  <2>1. items[i - 1] \in Entries
    BY <1>6, ItemsAre DEF FillGap
  <2> QED BY <1>3, <1>6, <2>1 DEF FillGap
<1>7. CASE Show
  <2> DEFINE p == Page(request.since, request.max)
  <2>1. request.at = "asked" /\ request \in Requests
    BY <1>7 DEF Show, TypeOK
  <2>2. request.since \in Entries /\ request.max \in Entries /\ request.since \in Nat /\ request.max \in Nat
    BY <2>1, RequestIs
  <2>3. p \in Seq(Ids)
    BY <2>2, PageIs DEF TypeOK
  <2>4. request' \in Requests
    <3> HIDE DEF p
    <3>1. request' = [at |-> "answered", since |-> request.since, max |-> request.max, page |-> p]
      BY <1>7 DEF Show, p
    <3> QED BY <2>2, <2>3, <3>1 DEF Requests, Entries, GAP
  <2>5. holed' \in BOOLEAN
    BY <1>7 DEF Show, TypeOK
  <2> QED BY <1>7, <2>4, <2>5 DEF Show, TypeOK
<1>8. CASE ExpandSuccess
  <2>1. items' \in Seq(Ids \cup {GAP})
    <3>1. request.page \in Seq(Ids)
      BY <1>8, PageOfIs DEF ExpandSuccess
    <3> QED BY <1>8, <3>1, ItemsAre, MergedType DEF ExpandSuccess, Entries
  <2>2. overtaken' \in BOOLEAN /\ holed' \in BOOLEAN /\ caught' \in BOOLEAN
    BY <1>8 DEF ExpandSuccess, TypeOK, Overtakes
  <2> QED BY <1>8, <2>1, <2>2 DEF ExpandSuccess, TypeOK, Requests
<1>9. CASE ExpandFail
  <2>1. fails' \in 0..MaxFails
    BY <1>9, TimelinesAssumption DEF ExpandFail, TypeOK
  <2>2. holed' \in BOOLEAN
    BY <1>9 DEF ExpandFail, TypeOK, Partial
  <2> QED BY <1>9, <2>1, <2>2 DEF ExpandFail, TypeOK, Requests
<1>10. CASE TimelineUpdate
  <2>1. Head(wire).id \in Ids /\ wire # <<>> /\ wire' = Tail(wire)
    BY <1>10, WireIs DEF TimelineUpdate
  <2>2. wire' \in Seq(Events)
    BY <2>1, WireIs, HeadTailProperties
  <2>3. items' \in Seq(Ids \cup {GAP})
    <3> DEFINE s == Head(wire).id
               cut == top /\ Len(items) > FULL
               kept == IF cut THEN SubSeq(items, 1, KEPT) ELSE items
               same == IF ReblogOf[s] = 0 THEN {} ELSE {t \in Ids : SameText(s, t)}
    <3>1. kept \in Seq(Entries)
      <4>1. cut => \A i \in 1..KEPT : items[i] \in Entries
        BY ItemsAre, TimelinesAssumption
      <4>2. cut => SubSeq(items, 1, KEPT) \in Seq(Entries)
        BY <4>1, SubSeqProperties, TimelinesAssumption
      <4> QED BY <4>2, ItemsAre
    <3>2. Without(kept, same) \in Seq(Entries)
      <4> HIDE DEF kept, same
      <4> QED BY <3>1, WithoutType
    <3>3. <<s>> \in Seq(Entries)
      BY <2>1 DEF Entries
    <3>4. <<s>> \o Without(kept, same) \in Seq(Entries)
      <4> HIDE DEF kept, same, s
      <4> QED BY <3>2, <3>3, ConcatProperties
    <3>5. items' = items \/ items' = <<s>> \o Without(kept, same)
      BY <1>10 DEF TimelineUpdate
    <3> HIDE DEF s, kept, same
    <3> QED BY <3>4, <3>5, ItemsAre DEF Entries
  <2>4. holed' \in BOOLEAN
    BY <1>10 DEF TimelineUpdate, TypeOK
  <2> QED BY <1>10, <2>2, <2>3, <2>4 DEF TimelineUpdate, TypeOK
<1>11. CASE TimelineDelete
  <2>1. wire # <<>> /\ wire' = Tail(wire)
    BY <1>11 DEF TimelineDelete
  <2>2. wire' \in Seq(Events)
    BY <2>1, WireIs, HeadTailProperties
  <2>3. items' \in Seq(Ids \cup {GAP})
    BY <1>11, ItemsAre, WithoutType DEF TimelineDelete, Entries
  <2> QED BY <1>11, <2>2, <2>3 DEF TimelineDelete, TypeOK
<1>12. CASE Scroll
  BY <1>12 DEF Scroll, TypeOK
<1>13. CASE Connect
  <2>1. request' \in Requests
    <3>1. CASE opened /\ ~ isLoading
      <4>1. Expand(0) /\ 0 \in Entries
        BY <1>13, <3>1 DEF Connect, Entries, GAP
      <4> QED BY <4>1, AskedIs
    <3>2. CASE ~ (opened /\ ~ isLoading)
      BY <1>13, <3>2 DEF Connect, TypeOK
    <3> QED BY <3>1, <3>2
  <2>2. polling' \in BOOLEAN /\ holed' \in BOOLEAN
    BY <1>13 DEF Connect, TypeOK, isLoading
  <2> QED BY <1>13, <2>1, <2>2 DEF Connect, TypeOK
<1>14. CASE Subscribe
  BY <1>14 DEF Subscribe, TypeOK
<1>15. CASE Disconnect
  <2>1. items' \in Seq(Ids \cup {GAP})
    <3>1. <<GAP>> \o items \in Seq(Entries)
      <4>1. <<GAP>> \in Seq(Entries)
        BY DEF Entries
      <4> QED BY <4>1, ItemsAre, ConcatProperties
    <3> QED BY <1>15, <3>1, ItemsAre DEF Disconnect, Entries
  <2>2. drops' \in 0..MaxDrops
    BY <1>15, TimelinesAssumption DEF Disconnect, TypeOK
  <2>3. wire' \in Seq(Events) /\ caught' \in BOOLEAN
    BY <1>15 DEF Disconnect, isLoading
  <2> QED BY <1>15, <2>1, <2>2, <2>3 DEF Disconnect, TypeOK
<1>16. CASE UNCHANGED vars
  BY <1>16 DEF vars, TypeOK
<1> QED
  BY <1>1, <1>2, <1>4, <1>5, <1>6, <1>7, <1>8, <1>9, <1>10, <1>11, <1>12, <1>13, <1>14, <1>15, <1>16
  DEF Next

\* Whatever is posted, asked, lost and merged, what the window holds is a
\* list of statuses and gaps, a request that is one, and events
THEOREM TypeCorrect == Spec => []TypeOK
<1> QED BY TypeInit, TypeNext, PTL DEF Spec

-----------------------------------------------------------------------------
(* The order of what is shown *)

OnWire(s) == \E i \in DOMAIN wire : wire[i].event = "update" /\ wire[i].id = s

InPage(s) == \E k \in DOMAIN request.page : request.page[k] = s

\* What was removed does not come back to the feed, and a reblog is in the
\* feed with its original
ServerSound ==
  /\ \A s \in feed : s \notin removed /\ ReblogOf[s] \in feed \cup {0}
  /\ Shown \subseteq Posted

\* Events are about what happened, and nothing is announced after it was
\* announced as removed
WireSound ==
  /\ wire # <<>> => socket = "subscribed"
  /\ \A i \in DOMAIN wire :
       IF wire[i].event = "update" THEN wire[i].id \in Posted ELSE wire[i].id \in removed
  /\ \A i, j \in DOMAIN wire :
       i < j /\ wire[i].event = "delete" /\ wire[j].event = "update" =>
         wire[j].id # wire[i].id /\ ReblogOf[wire[j].id] # wire[i].id

\* What is announced is newer than all that is shown, or shown already, and
\* all that is newer still is announced behind it
WireOrdered ==
  ~ overtaken =>
    /\ \A i, j \in DOMAIN wire :
         i < j /\ wire[i].event = "update" /\ wire[j].event = "update" => wire[i].id < wire[j].id
    /\ \A i \in DOMAIN wire :
         wire[i].event = "update" =>
           /\ wire[i].id \in Shown \/ \A s \in Shown : s < wire[i].id
           /\ \A s \in feed : s > wire[i].id => OnWire(s)

\* A page goes from its first status to its last without leaving one out
PageSound ==
  /\ isLoading => request.since \in Posted \cup {0} /\ request.max \in Posted \cup {0}
  /\ request.at = "answered" =>
       /\ \A j, k \in DOMAIN request.page : j < k => request.page[j] > request.page[k]
       /\ \A k \in DOMAIN request.page :
            /\ request.page[k] \in Posted /\ request.page[k] > request.since
            /\ request.max # 0 => request.page[k] < request.max
       /\ ~ overtaken /\ request.page # <<>> =>
            \A s \in feed :
              /\ s >= request.page[Len(request.page)]
              /\ IF request.max = 0 THEN s <= request.page[1] ELSE s < request.max
              => InPage(s)

Sound == TypeOK /\ ServerSound /\ WireSound /\ WireOrdered /\ PageSound /\ NewestFirst

LEMMA ShownIs ==
  ASSUME TypeOK
  PROVE  /\ \A s : s \in Shown <=> s # GAP /\ \E i \in 1..Len(items) : items[i] = s
         /\ \A s \in Shown : s \in Ids /\ s \in Nat
<1>1. \A s : s \in Shown <=> s # GAP /\ \E i \in 1..Len(items) : items[i] = s
  BY ItemsAre DEF Shown
<1> QED BY <1>1, ItemsAre, IdIs

LEMMA SortedIs ==
  ASSUME TypeOK, NewestFirst, ~ overtaken, NEW i \in 1..Len(items), NEW j \in 1..Len(items),
         items[i] # GAP, items[j] # GAP
  PROVE  i < j <=> items[i] > items[j]
<1>1. DOMAIN items = 1..Len(items) /\ items[i] \in Nat /\ items[j] \in Nat /\ Len(items) \in Nat
  BY ItemsAre
<1>2. i < j => items[i] > items[j]
  BY <1>1 DEF NewestFirst
<1>3. j < i => items[j] > items[i]
  BY <1>1 DEF NewestFirst
<1> QED BY <1>1, <1>2, <1>3

LEMMA PostedAre == TypeOK => \A s \in Posted : s \in Ids /\ s \in Nat /\ s # 0
BY IdIs DEF Posted, TypeOK, GAP

LEMMA SoundInit == Init => Sound
<1> SUFFICES ASSUME Init PROVE Sound
  OBVIOUS
<1>1. TypeOK
  BY TypeInit
<1>2. wire = <<>> /\ items = <<>> /\ DOMAIN wire = {} /\ DOMAIN items = {}
  BY DEF Init
<1>3. ServerSound
  <2>1. \A s \in feed : ReblogOf[s] \in feed \cup {0}
    BY TimelinesAssumption DEF Init
  <2> QED BY <1>2, <2>1 DEF ServerSound, Init, Shown
<1>4. request.at = "asked" /\ request.since = 0 /\ request.max = 0
  BY DEF Init
<1> QED BY <1>1, <1>2, <1>3, <1>4 DEF Sound, WireSound, WireOrdered, PageSound, NewestFirst

\* A step that leaves the feed, the list and the events alone
LEMMA SoundAside ==
  ASSUME Sound, TypeOK', UNCHANGED <<feed, removed, items, wire, overtaken>>,
         wire # <<>> => socket' = "subscribed",
         \/ request' = request
         \/ /\ request'.at # "answered"
            /\ isLoading' => request'.since \in Posted \cup {0} /\ request'.max \in Posted \cup {0}
  PROVE  Sound'
<1>1. Posted' = Posted /\ Shown' = Shown /\ \A s : OnWire(s)' <=> OnWire(s)
  BY DEF Posted, Shown, OnWire
<1>2. ServerSound'
  BY <1>1 DEF Sound, ServerSound
<1>3. WireSound' /\ WireOrdered'
  BY <1>1 DEF Sound, WireSound, WireOrdered
<1>4. NewestFirst'
  BY DEF Sound, NewestFirst
<1>5. PageSound'
  BY <1>1 DEF Sound, PageSound, InPage, isLoading
<1> QED BY <1>2, <1>3, <1>4, <1>5 DEF Sound

LEMMA SoundAsked ==
  ASSUME Sound, TypeOK', NEW max \in Entries, max \in Shown \cup {0}, Expand(max),
         UNCHANGED <<feed, removed, items, wire, overtaken>>,
         wire # <<>> => socket' = "subscribed"
  PROVE  Sound'
<1>1. TypeOK /\ Shown \subseteq Posted
  BY DEF Sound, ServerSound
<1>2. request'.at = "asked" /\ request'.max = max
      /\ request'.since = IF max = 0 /\ items # <<>> THEN Head(items) ELSE 0
  BY <1>1, AskedIs
<1>3. items # <<>> => Head(items) \in Shown \cup {0}
  <2>1. items # <<>> => Head(items) = items[1] /\ 1 \in 1..Len(items)
    BY <1>1, ItemsAre
  <2> QED BY <1>1, <2>1, ShownIs DEF GAP
<1> QED BY <1>1, <1>2, <1>3, SoundAside

LEMMA SoundPublish ==
  ASSUME Sound, TypeOK', NEW s \in Ids, Publish(s)
  PROVE  Sound'
<1>1. TypeOK /\ s \notin Posted /\ feed' = feed \cup {s} /\ removed' = removed
      /\ items' = items /\ request' = request /\ socket' = socket
      /\ ReblogOf[s] \in feed \cup {0}
      /\ (~ overtaken' => ~ overtaken /\ \A t \in Posted : ~ (t > s))
  BY DEF Sound, Publish
<1>2. Posted' = Posted \cup {s} /\ Shown' = Shown /\ s # 0 /\ s \in Nat
  BY <1>1, IdIs DEF Posted, Shown, GAP
<1>3. ASSUME ~ overtaken' PROVE ~ overtaken /\ \A t \in Posted : t < s
  <2>1. \A t \in Posted : t \in Nat /\ t # s
    BY <1>1, PostedAre
  <2> QED BY <1>1, <1>2, <1>3, <2>1
<1> DEFINE e == [event |-> "update", id |-> s]
<1>4. e \in Events /\ e.event = "update" /\ e.id = s
  BY DEF Events
<1>5. wire' = IF socket = "subscribed" THEN Append(wire, e) ELSE wire
  BY DEF Publish
<1> HIDE DEF e
<1>6. wire \in Seq(Events) /\ Len(wire) \in Nat /\ DOMAIN wire = 1..Len(wire)
  BY <1>1, WireIs
<1>7. \A i \in DOMAIN wire : i \in DOMAIN wire' /\ wire'[i] = wire[i]
  <2>1. /\ Len(Append(wire, e)) = Len(wire) + 1 /\ DOMAIN Append(wire, e) = 1..(Len(wire) + 1)
        /\ \A i \in 1..Len(wire) : Append(wire, e)[i] = wire[i]
    BY <1>4, <1>6, AppendProperties
  <2> QED BY <1>5, <1>6, <2>1
<1>8. \A i \in DOMAIN wire' :
        \/ i \in DOMAIN wire
        \/ wire'[i] = e /\ socket = "subscribed" /\ \A j \in DOMAIN wire : j < i
  <2>1. /\ Len(Append(wire, e)) = Len(wire) + 1 /\ DOMAIN Append(wire, e) = 1..(Len(wire) + 1)
        /\ Append(wire, e)[Len(wire) + 1] = e
    BY <1>4, <1>6, AppendProperties
  <2> QED BY <1>5, <1>6, <2>1
<1>9. socket = "subscribed" => OnWire(s)'
  <2>1. /\ Len(Append(wire, e)) = Len(wire) + 1 /\ DOMAIN Append(wire, e) = 1..(Len(wire) + 1)
        /\ Append(wire, e)[Len(wire) + 1] = e
    BY <1>4, <1>6, AppendProperties
  <2>2. Len(wire) + 1 \in 1..(Len(wire) + 1)
    BY <1>6
  <2> QED BY <1>4, <1>5, <2>1, <2>2 DEF OnWire
<1>10. \A t : OnWire(t) => OnWire(t)'
  BY <1>7 DEF OnWire
<1>11. ServerSound'
  BY <1>1, <1>2 DEF Sound, ServerSound, Posted
<1>12. WireSound'
  <2>1. wire' # <<>> => socket' = "subscribed"
    BY <1>1, <1>5 DEF Sound, WireSound
  <2>2. \A i \in DOMAIN wire' : IF wire'[i].event = "update" THEN wire'[i].id \in Posted'
                                                             ELSE wire'[i].id \in removed'
    BY <1>1, <1>2, <1>4, <1>7, <1>8 DEF Sound, WireSound
  <2>3. ASSUME NEW i \in DOMAIN wire', NEW j \in DOMAIN wire', i < j,
               wire'[i].event = "delete", wire'[j].event = "update"
        PROVE  wire'[j].id # wire'[i].id /\ ReblogOf[wire'[j].id] # wire'[i].id
    <3>1. i \in DOMAIN wire
      BY <1>4, <1>8, <2>3
    <3>2. CASE j \in DOMAIN wire
      BY <1>7, <2>3, <3>1, <3>2 DEF Sound, WireSound
    <3>3. CASE wire'[j] = e
      <4>1. wire'[i].id \in removed /\ wire[i] = wire'[i]
        BY <1>7, <2>3, <3>1 DEF Sound, WireSound
      <4>2. wire'[i].id # s /\ wire'[i].id \notin feed \cup {0}
        BY <1>1, <4>1, PostedAre DEF Sound, ServerSound, Posted
      <4> QED BY <1>1, <1>4, <3>3, <4>2
    <3> QED BY <1>8, <3>2, <3>3
  <2> QED BY <2>1, <2>2, <2>3 DEF WireSound
<1>13. WireOrdered'
  <2> SUFFICES ASSUME ~ overtaken' PROVE WireOrdered'
    BY DEF WireOrdered
  <2>0. ~ overtaken /\ \A t \in Posted : t < s
    BY <1>3
  <2>1. ASSUME NEW i \in DOMAIN wire', NEW j \in DOMAIN wire', i < j,
               wire'[i].event = "update", wire'[j].event = "update"
        PROVE  wire'[i].id < wire'[j].id
    <3>1. i \in DOMAIN wire
      <4>1. i \in Int /\ j \in Int
        <5>1. DOMAIN Append(wire, e) = 1..(Len(wire) + 1)
          BY <1>4, <1>6, AppendProperties
        <5> QED BY <1>5, <1>6, <2>1, <5>1
      <4>2. ASSUME i \notin DOMAIN wire PROVE FALSE
        <5>1. \A k \in DOMAIN wire : k < i
          BY <1>8, <4>2
        <5>2. CASE j \in DOMAIN wire
          BY <2>1, <4>1, <5>1, <5>2
        <5>3. CASE j \notin DOMAIN wire
          <6>1. i = Len(wire) + 1 /\ j = Len(wire) + 1
            <7>1. Len(Append(wire, e)) = Len(wire) + 1 /\ DOMAIN Append(wire, e) = 1..(Len(wire) + 1)
              BY <1>4, <1>6, AppendProperties
            <7> QED BY <1>5, <1>6, <4>2, <5>3, <7>1
          <6> QED BY <2>1, <4>1, <6>1
        <5> QED BY <5>2, <5>3
      <4> QED BY <4>2
    <3>2. CASE j \in DOMAIN wire
      BY <1>7, <2>0, <2>1, <3>1, <3>2 DEF Sound, WireOrdered
    <3>3. CASE wire'[j] = e
      <4>1. wire'[i].id \in Posted
        BY <1>7, <2>1, <3>1 DEF Sound, WireSound
      <4> QED BY <1>4, <2>0, <3>3, <4>1
    <3> QED BY <1>8, <3>2, <3>3
  <2>2. ASSUME NEW i \in DOMAIN wire', wire'[i].event = "update"
        PROVE  /\ wire'[i].id \in Shown' \/ \A t \in Shown' : t < wire'[i].id
               /\ \A t \in feed' : t > wire'[i].id => OnWire(t)'
    <3>1. CASE i \in DOMAIN wire
      <4>1. /\ wire[i].id \in Shown \/ \A t \in Shown : t < wire[i].id
            /\ \A t \in feed : t > wire[i].id => OnWire(t)
            /\ wire'[i] = wire[i]
        BY <1>7, <2>0, <2>2, <3>1 DEF Sound, WireOrdered
      <4>2. socket = "subscribed"
        BY <1>6, <3>1 DEF Sound, WireSound
      <4> QED BY <1>1, <1>2, <1>9, <1>10, <4>1, <4>2
    <3>2. CASE wire'[i] = e /\ i \notin DOMAIN wire
      <4>1. \A t \in Shown' : t < s
        BY <1>2, <2>0 DEF Sound, ServerSound
      <4>2. \A t \in feed' : ~ (t > s)
        <5>1. \A t \in feed : t < s /\ t \in Nat
          BY <1>1, <2>0, PostedAre DEF Posted
        <5> QED BY <1>1, <1>2, <5>1
      <4> QED BY <1>4, <3>2, <4>1, <4>2
    <3> QED BY <1>8, <3>1, <3>2
  <2> QED BY <2>1, <2>2 DEF WireOrdered
<1>14. NewestFirst'
  BY <1>1 DEF Sound, NewestFirst
<1>15. PageSound'
  <2>1. isLoading' => request'.since \in Posted' \cup {0} /\ request'.max \in Posted' \cup {0}
    BY <1>1, <1>2 DEF Sound, PageSound, isLoading
  <2>2. ASSUME request'.at = "answered"
        PROVE  /\ \A j, k \in DOMAIN request'.page : j < k => request'.page[j] > request'.page[k]
               /\ \A k \in DOMAIN request'.page :
                    /\ request'.page[k] \in Posted' /\ request'.page[k] > request'.since
                    /\ request'.max # 0 => request'.page[k] < request'.max
    BY <1>1, <1>2, <2>2 DEF Sound, PageSound
  <2>3. ASSUME request'.at = "answered", ~ overtaken', request'.page # <<>>, NEW t \in feed',
               t >= request'.page[Len(request'.page)],
               IF request'.max = 0 THEN t <= request'.page[1] ELSE t < request'.max
        PROVE  InPage(t)'
    <3>1. isLoading /\ request.at = "answered"
      BY <1>1, <2>3, RequestIs
    <3>2. request.max \in Posted \cup {0} /\ \A k \in DOMAIN request.page : request.page[k] \in Posted
      BY <3>1 DEF Sound, PageSound
    <3>3. 1 \in DOMAIN request.page
      BY <1>1, <2>3, <3>1, PageOfIs
    <3>4. t # s
      <4>1. request.page[1] < s
        BY <1>3, <2>3, <3>2, <3>3
      <4>2. request.max = 0 \/ request.max < s
        BY <1>3, <2>3, <3>2
      <4>3. request.page[1] \in Nat /\ request.max \in Nat
        BY <1>1, <3>1, <3>2, <3>3, PageOfIs, PostedAre
      <4> QED BY <1>1, <1>2, <2>3, <4>1, <4>2, <4>3
    <3>5. InPage(t)
      BY <1>1, <1>3, <2>3, <3>1, <3>4 DEF Sound, PageSound
    <3> QED BY <1>1, <3>5 DEF InPage
  <2> QED BY <2>1, <2>2, <2>3 DEF PageSound
<1> QED BY <1>11, <1>12, <1>13, <1>14, <1>15 DEF Sound

LEMMA SoundRemove ==
  ASSUME Sound, TypeOK', NEW s \in Ids, RemoveStatus(s)
  PROVE  Sound'
<1> DEFINE R == {t \in feed : ReblogOf[t] = s}
<1>1. TypeOK /\ s \in feed /\ R \in SUBSET feed /\ R \in SUBSET Ids
  BY DEF Sound, RemoveStatus, TypeOK
<1>2. /\ feed' = feed \ ({s} \cup R) /\ removed' = removed \cup {s} \cup R
      /\ UNCHANGED <<socket, items, request, overtaken>>
  BY DEF RemoveStatus, past
<1>3. Posted' = Posted /\ Shown' = Shown
  BY <1>1, <1>2 DEF Posted, Shown
<1>4. PICK e \in Seq(Events) :
        /\ \A i \in 1..Len(e) : e[i].event = "delete" /\ e[i].id \in {s} \cup ReblogsIn(s)
        /\ wire' = IF socket = "subscribed" THEN wire \o e ELSE wire
  BY <1>1, RemovalTold
<1>5. e \in Seq(Events) /\ \A i \in 1..Len(e) : e[i].event = "delete" /\ e[i].id \in {s} \cup R
  BY <1>4 DEF ReblogsIn
<1>6. wire' = IF socket = "subscribed" THEN wire \o e ELSE wire
  BY <1>4
<1>7. wire \in Seq(Events) /\ Len(wire) \in Nat /\ DOMAIN wire = 1..Len(wire) /\ Len(e) \in Nat
  BY <1>1, <1>5, WireIs
<1>8. /\ DOMAIN (wire \o e) = 1..(Len(wire) + Len(e))
      /\ \A i \in 1..(Len(wire) + Len(e)) :
           (wire \o e)[i] = IF i <= Len(wire) THEN wire[i] ELSE e[i - Len(wire)]
  <2>1. wire \o e \in Seq(Events) /\ Len(wire \o e) = Len(wire) + Len(e)
    BY <1>5, <1>7, ConcatProperties
  <2>2. DOMAIN (wire \o e) = 1..Len(wire \o e)
    BY <2>1, LenProperties
  <2> QED BY <1>5, <1>7, <2>1, <2>2, ConcatProperties
<1>9. \A i \in DOMAIN wire : i \in DOMAIN wire' /\ wire'[i] = wire[i]
  <2>1. CASE socket = "subscribed"
    <3>1. wire' = wire \o e
      BY <1>6, <2>1
    <3> QED BY <1>7, <1>8, <3>1
  <2>2. CASE socket # "subscribed"
    BY <1>6, <2>2
  <2> QED BY <2>1, <2>2
<1>10. \A i \in DOMAIN wire' :
         \/ i \in DOMAIN wire
         \/ /\ wire'[i].event = "delete" /\ wire'[i].id \in {s} \cup R
            /\ socket = "subscribed" /\ \A j \in DOMAIN wire : j < i
  <2> TAKE i \in DOMAIN wire'
  <2> SUFFICES ASSUME i \notin DOMAIN wire
               PROVE  /\ wire'[i].event = "delete" /\ wire'[i].id \in {s} \cup R
                      /\ socket = "subscribed" /\ \A j \in DOMAIN wire : j < i
    OBVIOUS
  <2>1. socket = "subscribed" /\ wire' = wire \o e
    BY <1>6
  <2>2. i - Len(wire) \in 1..Len(e) /\ i \in Int /\ i > Len(wire)
    BY <1>7, <1>8, <2>1
  <2>3. wire'[i] = e[i - Len(wire)]
    BY <1>7, <1>8, <2>1, <2>2
  <2>4. \A j \in DOMAIN wire : j < i
    BY <1>7, <2>2
  <2> QED BY <1>5, <2>1, <2>2, <2>3, <2>4
<1>11. \A t : OnWire(t) => OnWire(t)'
  BY <1>9 DEF OnWire
<1>12. ServerSound'
  <2>1. ASSUME NEW t \in feed' PROVE t \notin removed' /\ ReblogOf[t] \in feed' \cup {0}
    <3>1. t \in feed /\ t \in Ids /\ t \notin R /\ t # s
      BY <1>1, <1>2, <2>1 DEF TypeOK
    <3>2. t \notin removed /\ ReblogOf[t] \in feed \cup {0}
      BY <3>1 DEF Sound, ServerSound
    <3>3. ReblogOf[t] # s
      BY <3>1
    <3>4. ReblogOf[t] \notin R
      <4>1. ASSUME ReblogOf[t] \in R PROVE FALSE
        <5>1. ReblogOf[t] \in Ids /\ ReblogOf[ReblogOf[t]] = s /\ s # 0
          BY <1>1, <4>1, IdIs DEF GAP
        <5> QED BY <3>1, <5>1, TimelinesAssumption
      <4> QED BY <4>1
    <3> QED BY <1>2, <3>1, <3>2, <3>3, <3>4
  <2> QED BY <1>3, <2>1 DEF Sound, ServerSound
<1> HIDE DEF R
<1>13. WireSound'
  <2>1. wire' # <<>> => socket' = "subscribed"
    BY <1>2, <1>6 DEF Sound, WireSound
  <2>2. ASSUME NEW i \in DOMAIN wire'
        PROVE  IF wire'[i].event = "update" THEN wire'[i].id \in Posted' ELSE wire'[i].id \in removed'
    <3>1. CASE i \in DOMAIN wire
      BY <1>2, <1>3, <1>9, <3>1 DEF Sound, WireSound
    <3>2. CASE i \notin DOMAIN wire
      BY <1>2, <1>10, <3>2
    <3> QED BY <3>1, <3>2
  <2>3. ASSUME NEW i \in DOMAIN wire', NEW j \in DOMAIN wire', i < j,
               wire'[i].event = "delete", wire'[j].event = "update"
        PROVE  wire'[j].id # wire'[i].id /\ ReblogOf[wire'[j].id] # wire'[i].id
    <3>1. j \in DOMAIN wire
      BY <1>10, <2>3
    <3>2. i \in DOMAIN wire
      <4>1. ASSUME i \notin DOMAIN wire PROVE FALSE
        <5>1. j < i
          BY <1>10, <3>1, <4>1
        <5>2. i \in Int /\ j \in Int
          BY <1>6, <1>7, <1>8
        <5> QED BY <2>3, <5>1, <5>2
      <4> QED BY <4>1
    <3> QED BY <1>9, <2>3, <3>1, <3>2 DEF Sound, WireSound
  <2> QED BY <2>1, <2>2, <2>3 DEF WireSound
<1>14. WireOrdered'
  <2> SUFFICES ASSUME ~ overtaken' PROVE WireOrdered'
    BY DEF WireOrdered
  <2>1. ~ overtaken
    BY <1>2
  <2>2. \A i \in DOMAIN wire' : wire'[i].event = "update" => i \in DOMAIN wire /\ wire'[i] = wire[i]
    BY <1>9, <1>10
  <2>3. \A t \in feed' : t \in feed
    BY <1>2
  <2> QED BY <1>3, <1>11, <2>1, <2>2, <2>3 DEF Sound, WireOrdered
<1>15. NewestFirst'
  BY <1>2 DEF Sound, NewestFirst
<1>16. PageSound'
  <2>1. \A t \in feed' : t \in feed
    BY <1>2
  <2> QED BY <1>2, <1>3, <2>1 DEF Sound, PageSound, InPage, isLoading
<1> QED BY <1>12, <1>13, <1>14, <1>15, <1>16 DEF Sound

LEMMA SoundShow ==
  ASSUME Sound, TypeOK', Show
  PROVE  Sound'
<1> DEFINE p == Page(request.since, request.max)
           r == [at |-> "answered", since |-> request.since, max |-> request.max, page |-> p]
<1>1. TypeOK /\ request.at = "asked" /\ request' = r
  BY DEF Sound, Show
<1>2. r.at = "answered" /\ r.since = request.since /\ r.max = request.max /\ r.page = p
  OBVIOUS
<1> HIDE DEF r
<1>3. UNCHANGED <<feed, removed, items, wire, overtaken, socket>>
  BY DEF Show, server, stream
<1>4. Posted' = Posted /\ Shown' = Shown /\ \A s : OnWire(s)' <=> OnWire(s)
  BY <1>3 DEF Posted, Shown, OnWire
<1>5. ServerSound' /\ WireSound' /\ WireOrdered' /\ NewestFirst'
  BY <1>3, <1>4 DEF Sound, ServerSound, WireSound, WireOrdered, NewestFirst
<1>6. isLoading /\ request.since \in Nat /\ request.max \in Nat
      /\ request.since \in Posted \cup {0} /\ request.max \in Posted \cup {0}
  BY <1>1, RequestIs DEF Sound, PageSound
<1>7. /\ p \in Seq(Ids)
      /\ \A k \in 1..Len(p) : p[k] \in InRange(request.since, request.max)
      /\ \A j, k \in 1..Len(p) : j < k => p[j] > p[k]
      /\ \A s \in InRange(request.since, request.max) :
           (\E k \in 1..Len(p) : s = p[k]) \/ (p # <<>> /\ s < p[Len(p)])
  BY <1>1, <1>6, PageIs DEF TypeOK
<1> HIDE DEF p
<1>8. DOMAIN p = 1..Len(p) /\ Len(p) \in Nat /\ (p # <<>> => Len(p) \in 1..Len(p))
  BY <1>7
<1>9. \A s \in feed : s \in Posted /\ s \in Nat
  BY <1>1, IdIs DEF Posted, TypeOK
<1>10. \A k \in DOMAIN p : /\ p[k] \in feed /\ p[k] \in Posted /\ p[k] > request.since
                           /\ request.max # 0 => p[k] < request.max
  <2>1. \A s \in InRange(request.since, request.max) :
          s \in feed /\ s > request.since /\ (request.max # 0 => s < request.max)
    BY DEF InRange
  <2> QED BY <1>7, <1>8, <1>9, <2>1
<1>11. ASSUME p # <<>>, NEW s \in feed, s >= p[Len(p)],
              IF request.max = 0 THEN s <= p[1] ELSE s < request.max
       PROVE  \E k \in DOMAIN p : p[k] = s
  <2>1. p[Len(p)] > request.since /\ p[Len(p)] \in Nat /\ s \in Nat
    BY <1>8, <1>9, <1>10, <1>11
  <2>2. s > request.since
    BY <1>6, <1>11, <2>1
  <2>3. s \in InRange(request.since, request.max)
    BY <1>11, <2>2 DEF InRange
  <2>4. ~ (s < p[Len(p)])
    BY <1>11, <2>1
  <2> QED BY <1>7, <1>8, <2>3, <2>4
<1>12. PageSound'
  <2>1. request'.since = request.since /\ request'.max = request.max /\ request'.page = p
    BY <1>1, <1>2
  <2>2. \A s \in feed : (\E k \in DOMAIN p : p[k] = s) => InPage(s)'
    BY <2>1 DEF InPage
  <2> QED BY <1>3, <1>4, <1>6, <1>7, <1>8, <1>10, <1>11, <2>1, <2>2 DEF PageSound
<1> QED BY <1>5, <1>12 DEF Sound

\* How a page comes into the list: between what is newer than its first
\* status and what is older than its last
Joined(first, last) ==
  LET page == request.page
      n    == Len(page)
  IN
  /\ page # <<>>
  /\ first \in 0..Len(items) /\ last \in 0..Len(items) /\ first <= last
  /\ first > 0 => items[first] > page[1]
  /\ \A i \in 1..last : i > first => items[i] <= page[1]
  /\ last > 0 => items[last] >= page[n]
  /\ \A i \in 1..Len(items) : i > last => items[i] < page[n]
  /\ Len(items') = first + n + (Len(items) - last)
  /\ \A i \in 1..Len(items') :
       items'[i] = IF i <= first THEN items[i]
                   ELSE IF i <= first + n THEN page[i - first]
                   ELSE items[i - first - n + last]

LEMMA Joining ==
  ASSUME TypeOK, request.at = "answered", items' = Merged(items, request.page), request.page # <<>>
  PROVE  \E first, last \in 0..Len(items) : Joined(first, last)
<1> DEFINE p == request.page
<1>1. p \in Seq(Ids) /\ items \in Seq(Entries) /\ p # <<>> /\ items' = Merged(items, p)
  BY PageOfIs, ItemsAre
<1> HIDE DEF p
<1>2. PICK first, last \in 0..Len(items) :
           /\ first <= last
           /\ first > 0 => items[first] > p[1]
           /\ \A i \in 1..last : i > first => items[i] <= p[1]
           /\ last > 0 => items[last] >= p[Len(p)]
           /\ \A i \in 1..Len(items) : i > last => items[i] < p[Len(p)]
           /\ Merged(items, p) \in Seq(Entries)
           /\ Len(Merged(items, p)) = first + Len(p) + (Len(items) - last)
           /\ \A i \in 1..Len(Merged(items, p)) :
                Merged(items, p)[i] =
                  IF i <= first THEN items[i]
                  ELSE IF i <= first + Len(p) THEN p[i - first]
                  ELSE items[i - first - Len(p) + last]
  BY <1>1, MergedIs
<1>3. Joined(first, last)
  <2> SUFFICES
           /\ p # <<>>
           /\ first \in 0..Len(items) /\ last \in 0..Len(items) /\ first <= last
           /\ first > 0 => items[first] > p[1]
           /\ \A i \in 1..last : i > first => items[i] <= p[1]
           /\ last > 0 => items[last] >= p[Len(p)]
           /\ \A i \in 1..Len(items) : i > last => items[i] < p[Len(p)]
           /\ Len(items') = first + Len(p) + (Len(items) - last)
           /\ \A i \in 1..Len(items') :
                items'[i] =
                  IF i <= first THEN items[i]
                  ELSE IF i <= first + Len(p) THEN p[i - first]
                  ELSE items[i - first - Len(p) + last]
    BY DEF Joined, p
  <2> QED BY <1>1, <1>2
<1> QED BY <1>3

\* Where what is in the list after a merge was before
LEMMA JoinedPlaces ==
  ASSUME TypeOK, request.at = "answered",
         NEW first, NEW last, Joined(first, last), DOMAIN items' = 1..Len(items')
  PROVE  /\ first \in Nat /\ last \in Nat /\ Len(request.page) \in Nat \ {0} /\ Len(items) \in Nat
         /\ first <= last /\ last <= Len(items)
         /\ \A i \in 1..first : i \in DOMAIN items' /\ items'[i] = items[i]
         /\ \A k \in 1..Len(request.page) :
              first + k \in DOMAIN items' /\ items'[first + k] = request.page[k]
         /\ \A i \in 1..Len(items) : i > last =>
              /\ i - last + first + Len(request.page) \in DOMAIN items'
              /\ items'[i - last + first + Len(request.page)] = items[i]
         /\ \A i \in DOMAIN items' :
              \/ i \in 1..first /\ items'[i] = items[i]
              \/ i - first \in 1..Len(request.page) /\ items'[i] = request.page[i - first]
              \/ /\ i > first + Len(request.page)
                 /\ i - first - Len(request.page) + last \in 1..Len(items)
                 /\ i - first - Len(request.page) + last > last
                 /\ items'[i] = items[i - first - Len(request.page) + last]
<1> DEFINE p == request.page
           n == Len(p)
<1>1. /\ p # <<>>
      /\ first \in 0..Len(items) /\ last \in 0..Len(items) /\ first <= last
      /\ first > 0 => items[first] > p[1]
      /\ \A i \in 1..last : i > first => items[i] <= p[1]
      /\ last > 0 => items[last] >= p[n]
      /\ \A i \in 1..Len(items) : i > last => items[i] < p[n]
      /\ Len(items') = first + n + (Len(items) - last)
      /\ \A i \in 1..Len(items') :
           items'[i] = IF i <= first THEN items[i]
                       ELSE IF i <= first + n THEN p[i - first]
                       ELSE items[i - first - n + last]
  BY DEF Joined
<1>2. n \in Nat \ {0} /\ \A k \in 1..n : p[k] \in Ids /\ p[k] \in Nat /\ p[k] > 0
  BY <1>1, PageOfIs
<1> HIDE DEF p, n
<1>5. first \in Nat /\ last \in Nat /\ Len(items) \in Nat /\ last <= Len(items)
  BY <1>1, ItemsAre
<1>9. \A i \in 1..first : i \in DOMAIN items' /\ items'[i] = items[i]
  BY <1>1, <1>2, <1>5
<1>10. \A k \in 1..n : first + k \in DOMAIN items' /\ items'[first + k] = p[k]
  <2> TAKE k \in 1..n
  <2>1. first + k \in 1..Len(items') /\ ~ (first + k <= first) /\ first + k <= first + n
        /\ (first + k) - first = k
    BY <1>1, <1>2, <1>5
  <2> QED BY <1>1, <2>1
<1>11. ASSUME NEW i \in 1..Len(items), i > last
       PROVE  i - last + first + n \in DOMAIN items' /\ items'[i - last + first + n] = items[i]
  <2> DEFINE j == i - last + first + n
  <2>1. j \in 1..Len(items') /\ ~ (j <= first) /\ ~ (j <= first + n) /\ j - first - n + last = i
    BY <1>1, <1>2, <1>5, <1>11
  <2> HIDE DEF j
  <2>2. items'[j] = items[j - first - n + last]
    BY <1>1, <2>1
  <2> QED BY <2>1, <2>2 DEF j
<1>12. ASSUME NEW i \in DOMAIN items'
       PROVE  \/ i \in 1..first /\ items'[i] = items[i]
              \/ i - first \in 1..n /\ items'[i] = p[i - first]
              \/ /\ i > first + n
                 /\ i - first - n + last \in 1..Len(items)
                 /\ i - first - n + last > last
                 /\ items'[i] = items[i - first - n + last]
  <2>1. CASE i <= first
    BY <1>1, <1>5, <2>1
  <2>2. CASE i > first /\ i <= first + n
    <3>1. i - first \in 1..n /\ ~ (i <= first)
      BY <1>2, <1>5, <2>2
    <3> QED BY <1>1, <2>2, <3>1
  <2>3. CASE i > first + n
    <3>1. i - first - n + last \in 1..Len(items) /\ i - first - n + last > last
          /\ ~ (i <= first) /\ ~ (i <= first + n)
      BY <1>1, <1>2, <1>5, <2>3
    <3> QED BY <1>1, <2>3, <3>1
  <2> QED BY <1>1, <1>2, <1>5, <2>1, <2>2, <2>3
<1> QED BY <1>1, <1>2, <1>5, <1>9, <1>10, <1>11, <1>12 DEF p, n

\* How what is in the list before a merge compares with the page
LEMMA JoinedOrder ==
  ASSUME TypeOK, PageSound, NewestFirst, ~ overtaken, request.at = "answered",
         NEW first, NEW last, Joined(first, last)
  PROVE  /\ \A k \in 1..Len(request.page) :
              /\ request.page[k] \in Ids /\ request.page[k] \in Nat
              /\ request.page[k] <= request.page[1]
              /\ request.page[k] >= request.page[Len(request.page)]
         /\ \A i \in 1..first : items[i] # GAP => items[i] > request.page[1]
         /\ \A i \in 1..last : items[i] # GAP => items[i] >= request.page[Len(request.page)]
         /\ \A i \in 1..last : i > first => items[i] <= request.page[1]
         /\ \A i \in 1..Len(items) : i > last => items[i] < request.page[Len(request.page)]
<1> DEFINE p == request.page
           n == Len(p)
<1>1. /\ p # <<>>
      /\ first \in 0..Len(items) /\ last \in 0..Len(items) /\ first <= last
      /\ first > 0 => items[first] > p[1]
      /\ \A i \in 1..last : i > first => items[i] <= p[1]
      /\ last > 0 => items[last] >= p[n]
      /\ \A i \in 1..Len(items) : i > last => items[i] < p[n]
      /\ Len(items') = first + n + (Len(items) - last)
      /\ \A i \in 1..Len(items') :
           items'[i] = IF i <= first THEN items[i]
                       ELSE IF i <= first + n THEN p[i - first]
                       ELSE items[i - first - n + last]
  BY DEF Joined
<1>2. n \in Nat \ {0} /\ \A k \in 1..n : p[k] \in Ids /\ p[k] \in Nat /\ p[k] > 0
  BY <1>1, PageOfIs
<1>3. \A j, k \in 1..n : j < k => p[j] > p[k]
  BY PageOfIs DEF PageSound
<1> HIDE DEF p, n
<1>4. \A k \in 1..n : p[k] <= p[1] /\ p[k] >= p[n]
  <2> TAKE k \in 1..n
  <2>1. 1 \in 1..n /\ n \in 1..n
    BY <1>2
  <2>2. p[1] \in Nat /\ p[n] \in Nat /\ p[k] \in Nat
    BY <1>2, <2>1
  <2>3. k # 1 => p[k] < p[1]
    BY <1>2, <1>3, <2>1
  <2>4. k # n => p[k] > p[n]
    BY <1>2, <1>3, <2>1
  <2> QED BY <2>2, <2>3, <2>4
<1>5. first \in Nat /\ last \in Nat /\ Len(items) \in Nat /\ last <= Len(items)
  BY <1>1, ItemsAre
<1>6. p[1] \in Nat /\ p[n] \in Nat /\ p[1] > 0 /\ p[n] > 0
  BY <1>2
<1>7. ASSUME NEW i \in 1..first, items[i] # GAP PROVE items[i] > p[1]
  <2>1. i \in 1..Len(items) /\ first \in 1..Len(items) /\ first > 0 /\ items[first] > p[1]
    BY <1>1, <1>5
  <2>2. items[i] \in Nat /\ items[first] \in Nat /\ items[first] # GAP
    BY <1>6, <2>1, ItemsAre DEF GAP
  <2>3. i # first => i < first
    BY <1>5
  <2>4. i # first => items[i] > items[first]
    BY <1>7, <2>1, <2>2, <2>3, SortedIs
  <2> QED BY <1>6, <2>1, <2>2, <2>4
<1>8. ASSUME NEW i \in 1..last, items[i] # GAP PROVE items[i] >= p[n]
  <2>1. i \in 1..Len(items) /\ last \in 1..Len(items) /\ last > 0 /\ items[last] >= p[n]
    BY <1>1, <1>5
  <2>2. items[i] \in Nat /\ items[last] \in Nat /\ items[last] # GAP
    BY <1>6, <2>1, ItemsAre DEF GAP
  <2>3. i # last => i < last
    BY <1>5
  <2>4. i # last => items[i] > items[last]
    BY <1>8, <2>1, <2>2, <2>3, SortedIs
  <2> QED BY <1>6, <2>1, <2>2, <2>4
<1> QED BY <1>1, <1>2, <1>4, <1>7, <1>8 DEF p, n

LEMMA SoundMerge ==
  ASSUME Sound, TypeOK', ExpandSuccess
  PROVE  Sound' /\ (~ overtaken' => \A s \in Shown : s \in Shown' \/ s \in removed)
<1>1. /\ TypeOK /\ request.at = "answered" /\ isLoading
      /\ items' = Merged(items, request.page) /\ request' = None
      /\ overtaken' = (overtaken \/ Overtakes(request.page))
      /\ UNCHANGED <<feed, removed, wire, socket>>
  BY RequestIs DEF Sound, ExpandSuccess, server, stream
<1>2. Posted' = Posted /\ (\A s : OnWire(s)' <=> OnWire(s)) /\ request'.at = "none" /\ ~ isLoading'
  BY <1>1 DEF Posted, OnWire, None, isLoading
<1>3. WireSound' /\ PageSound'
  BY <1>1, <1>2 DEF Sound, WireSound, PageSound
<1>4. DOMAIN items' = 1..Len(items') /\ Len(items') \in Nat
  BY DEF TypeOK
<1>5. \A s : s \in Shown' <=> s # GAP /\ \E i \in DOMAIN items' : items'[i] = s
  BY DEF Shown
<1>6. CASE request.page = <<>>
  <2>1. items' = items /\ Shown' = Shown /\ ~ Overtakes(request.page)
    BY <1>1, <1>6 DEF Merged, Shown, Overtakes
  <2>2. ServerSound' /\ WireOrdered' /\ NewestFirst'
    BY <1>1, <1>2, <2>1 DEF Sound, ServerSound, WireOrdered, NewestFirst
  <2> QED BY <1>3, <2>1, <2>2 DEF Sound
<1>7. CASE request.page # <<>>
  <2> DEFINE p == request.page
             n == Len(p)
  <2>1. PICK first, last \in 0..Len(items) : Joined(first, last)
    BY <1>1, <1>7, Joining
  <2>2. /\ first \in Nat /\ last \in Nat /\ n \in Nat \ {0} /\ Len(items) \in Nat
        /\ first <= last /\ last <= Len(items)
        /\ \A i \in 1..first : i \in DOMAIN items' /\ items'[i] = items[i]
        /\ \A k \in 1..n : first + k \in DOMAIN items' /\ items'[first + k] = p[k]
        /\ \A i \in 1..Len(items) : i > last =>
             i - last + first + n \in DOMAIN items' /\ items'[i - last + first + n] = items[i]
        /\ \A i \in DOMAIN items' :
              \/ i \in 1..first /\ items'[i] = items[i]
              \/ i - first \in 1..n /\ items'[i] = p[i - first]
              \/ /\ i > first + n
                 /\ i - first - n + last \in 1..Len(items)
                 /\ i - first - n + last > last
                 /\ items'[i] = items[i - first - n + last]
    <3>1. TypeOK /\ request.at = "answered" /\ Joined(first, last) /\ DOMAIN items' = 1..Len(items')
      BY <1>1, <1>4, <2>1
    <3> HIDE <1>1, <1>3, <1>5
    <3> QED BY <3>1, JoinedPlaces, Zenon
  <2>3. /\ DOMAIN p = 1..n /\ \A k \in 1..n : p[k] \in Ids /\ p[k] \in Nat /\ p[k] > 0
        /\ \A j, k \in 1..n : j < k => p[j] > p[k]
        /\ \A k \in 1..n : p[k] \in Posted /\ p[k] > request.since
                           /\ (request.max # 0 => p[k] < request.max)
    BY <1>1, PageOfIs DEF Sound, PageSound
  <2>4. ~ overtaken =>
          /\ \A k \in 1..n : p[k] <= p[1] /\ p[k] >= p[n]
          /\ \A i \in 1..first : items[i] # GAP => items[i] > p[1]
          /\ \A i \in 1..last : items[i] # GAP => items[i] >= p[n]
          /\ \A i \in 1..last : i > first => items[i] <= p[1]
          /\ \A i \in 1..Len(items) : i > last => items[i] < p[n]
    BY <1>1, <2>1, JoinedOrder DEF Sound
  <2>5. \A s : InPage(s) <=> \E k \in 1..n : p[k] = s
    BY <2>3 DEF InPage
  <2>6. ~ overtaken => \A s \in feed : s >= p[n] /\ (IF request.max = 0 THEN s <= p[1] ELSE s < request.max)
          => InPage(s)
    BY <1>1, <1>7 DEF Sound, PageSound
  <2>7. \A i \in 1..Len(items) : items[i] \in Nat /\ (items[i] # GAP => items[i] > 0 /\ items[i] \in Shown)
    BY <1>1, ItemsAre, ShownIs
  <2>8. ~ overtaken' => ~ overtaken /\ ~ Overtakes(p)
    BY <1>1
  <2>9. \A i \in DOMAIN wire : wire[i].event = "update" => wire[i].id \in Nat
    BY <1>1, WireIs
  <2>10. ~ Overtakes(p) => \A i \in DOMAIN wire :
           wire[i].event = "update" => ~ (wire[i].id < p[1]) \/ \E k \in 1..n : p[k] = wire[i].id
    BY <1>7, <2>3 DEF Overtakes
  <2> HIDE DEF p, n
  <2>11. \A s \in Shown' : s \in Shown \/ \E k \in 1..n : p[k] = s
    <3> TAKE s \in Shown'
    <3>1. PICK i \in DOMAIN items' : items'[i] = s /\ s # GAP
      BY <1>5
    <3>2. CASE i \in 1..first /\ items'[i] = items[i]
      BY <2>2, <2>7, <3>1, <3>2
    <3>3. CASE i - first \in 1..n /\ items'[i] = p[i - first]
      BY <3>1, <3>3
    <3>4. CASE i - first - n + last \in 1..Len(items) /\ items'[i] = items[i - first - n + last]
      BY <2>7, <3>1, <3>4
    <3> QED BY <2>2, <3>2, <3>3, <3>4
  <2>12. \A k \in 1..n : p[k] \in Shown'
    <3> TAKE k \in 1..n
    <3>1. first + k \in DOMAIN items' /\ items'[first + k] = p[k]
      BY <2>2
    <3>2. p[k] # GAP
      BY <2>3 DEF GAP
    <3> QED BY <1>5, <3>1, <3>2
  <2>13. ASSUME ~ overtaken, NEW s \in Shown, s \notin Shown'
         PROVE  s >= p[n] /\ s <= p[1]
    <3>1. PICK i \in 1..Len(items) : items[i] = s /\ s # GAP
      BY <1>1, ShownIs
    <3>2. ~ (i <= first)
      <4>1. i <= first => i \in DOMAIN items' /\ items'[i] = items[i]
        BY <2>2
      <4> QED BY <1>5, <2>13, <3>1, <4>1
    <3>3. ~ (i > last)
      BY <1>5, <2>2, <2>13, <3>1
    <3>4. i \in 1..last /\ i > first
      BY <2>2, <3>2, <3>3
    <3> QED BY <2>4, <2>13, <3>1, <3>4
  <2>14. ServerSound'
    <3>1. Shown' \subseteq Posted'
      BY <1>2, <2>3, <2>11 DEF Sound, ServerSound
    <3> QED BY <1>1, <3>1 DEF Sound, ServerSound
  <2>15. WireOrdered'
    <3> SUFFICES ASSUME ~ overtaken' PROVE WireOrdered'
      BY DEF WireOrdered
    <3>1. ~ overtaken /\ ~ Overtakes(p)
      BY <2>8
    <3>2. ASSUME NEW i \in DOMAIN wire, wire[i].event = "update"
          PROVE  wire[i].id \in Shown' \/ \A s \in Shown' : s < wire[i].id
      <4> DEFINE u == wire[i].id
      <4>1. u \in Nat /\ (~ (u < p[1]) \/ u \in Shown')
        BY <2>9, <2>10, <2>12, <3>1, <3>2
      <4>2. u \in Shown \/ \A s \in Shown : s < u
        BY <3>1, <3>2 DEF Sound, WireOrdered
      <4>3. p[1] \in Nat /\ p[1] \in Shown' /\ \A k \in 1..n : p[k] \in Nat /\ p[k] <= p[1]
        BY <2>2, <2>3, <2>4, <2>12, <3>1
      <4> HIDE DEF u
      <4>4. CASE u \in Shown /\ u \notin Shown'
        <5>1. u <= p[1] /\ ~ (u < p[1])
          BY <2>13, <3>1, <4>1, <4>4
        <5>2. u = p[1]
          BY <4>1, <4>3, <5>1
        <5> QED BY <4>3, <4>4, <5>2
      <4>5. CASE u \notin Shown'
        <5>1. CASE \A s \in Shown : s < u
          <6>1. \A k \in 1..n : p[k] < u
            <7>1. u # p[1] /\ ~ (u < p[1])
              BY <4>1, <4>3, <4>5
            <7> QED BY <4>1, <4>3, <7>1
          <6> QED BY <2>11, <5>1, <6>1 DEF u
        <5> QED BY <4>2, <4>4, <4>5, <5>1 DEF u
      <4> QED BY <4>5 DEF u
    <3> QED BY <1>1, <1>2, <3>1, <3>2 DEF Sound, WireOrdered
  <2>16. NewestFirst'
    <3> SUFFICES ASSUME ~ overtaken', NEW i \in DOMAIN items', NEW j \in DOMAIN items', i < j,
                        items'[i] # GAP, items'[j] # GAP
                 PROVE  items'[i] > items'[j]
      BY DEF NewestFirst
    <3>1. ~ overtaken /\ i \in Nat /\ j \in Nat
      BY <1>4, <2>8
    <3>2. 1 \in 1..n /\ p[1] \in Nat /\ p[n] \in Nat /\ n \in 1..n
      BY <2>2, <2>3
    <3>3. CASE i \in 1..first /\ items'[i] = items[i]
      <4>1. i \in 1..Len(items) /\ items[i] > p[1] /\ items[i] \in Nat
        BY <2>2, <2>4, <2>7, <3>1, <3>3
      <4>2. CASE j \in 1..first /\ items'[j] = items[j]
        <5>1. j \in 1..Len(items)
          BY <2>2, <4>2
        <5> QED BY <1>1, <3>1, <3>3, <4>1, <4>2, <5>1, SortedIs DEF Sound
      <4>3. CASE j - first \in 1..n /\ items'[j] = p[j - first]
        <5>1. p[j - first] <= p[1] /\ p[j - first] \in Nat
          BY <2>3, <2>4, <3>1, <4>3
        <5> QED BY <3>2, <3>3, <4>1, <4>3, <5>1
      <4>4. CASE /\ j - first - n + last \in 1..Len(items) /\ j - first - n + last > last
                 /\ items'[j] = items[j - first - n + last]
        <5>1. items[j - first - n + last] < p[n] /\ items[j - first - n + last] \in Nat /\ p[n] <= p[1]
          BY <2>4, <2>7, <3>1, <3>2, <4>4
        <5> QED BY <3>2, <3>3, <4>1, <4>4, <5>1
      <4> QED BY <2>2, <4>2, <4>3, <4>4
    <3>4. CASE i - first \in 1..n /\ items'[i] = p[i - first]
      <4>1. CASE j \in 1..first
        BY <2>2, <3>1, <3>4, <4>1
      <4>2. CASE j - first \in 1..n /\ items'[j] = p[j - first]
        <5>1. i - first < j - first
          BY <2>2, <3>1
        <5> QED BY <2>3, <3>4, <4>2, <5>1
      <4>3. CASE /\ j - first - n + last \in 1..Len(items) /\ j - first - n + last > last
                 /\ items'[j] = items[j - first - n + last]
        <5>1. items[j - first - n + last] < p[n] /\ items[j - first - n + last] \in Nat
              /\ p[n] <= p[i - first] /\ p[i - first] \in Nat
          BY <2>3, <2>4, <2>7, <3>1, <3>4, <4>3
        <5> QED BY <3>2, <3>4, <4>3, <5>1
      <4> QED BY <2>2, <4>1, <4>2, <4>3
    <3>5. CASE /\ i > first + n /\ i - first - n + last \in 1..Len(items)
               /\ items'[i] = items[i - first - n + last]
      <4>1. /\ j - first - n + last \in 1..Len(items)
            /\ items'[j] = items[j - first - n + last]
        <5>1. ~ (j \in 1..first) /\ ~ (j - first \in 1..n)
          BY <2>2, <3>1, <3>5
        <5> QED BY <2>2, <5>1
      <4>2. i - first - n + last < j - first - n + last
        BY <2>2, <3>1
      <4> QED BY <1>1, <3>1, <3>5, <4>1, <4>2, SortedIs DEF Sound
    <3> QED BY <2>2, <3>3, <3>4, <3>5
  <2>17. ASSUME ~ overtaken', NEW s \in Shown, s \notin Shown'
         PROVE  s \in removed
    <3>1. ~ overtaken /\ s >= p[n] /\ s <= p[1]
      BY <2>8, <2>13, <2>17
    <3>2. s \in Posted /\ s \in Nat
      BY <1>1, <2>17, ShownIs DEF Sound, ServerSound
    <3>3. 1 \in 1..n /\ p[1] \in Nat
      BY <2>2, <2>3
    <3>4. request.max # 0 => s < request.max
      <4>1. request.max # 0 => p[1] < request.max /\ request.max \in Nat
        BY <1>1, <2>3, <3>3, RequestIs
      <4> QED BY <3>1, <3>2, <3>3, <4>1
    <3>5. s \notin feed
      <4>1. ASSUME s \in feed PROVE FALSE
        <5>1. InPage(s)
          BY <2>6, <3>1, <3>4, <4>1
        <5> QED BY <2>5, <2>12, <2>17, <5>1 DEF p, n
      <4> QED BY <4>1
    <3> QED BY <3>2, <3>5 DEF Posted
  <2> QED BY <1>3, <2>14, <2>15, <2>16, <2>17 DEF Sound
<1> QED BY <1>6, <1>7

\* The rest of the events
LEMMA TailIs ==
  ASSUME TypeOK, wire # <<>>, wire' = Tail(wire)
  PROVE  /\ Head(wire) = wire[1] /\ 1 \in DOMAIN wire /\ DOMAIN wire \subseteq Nat
         /\ \A i \in DOMAIN wire' : i \in Nat /\ i + 1 \in DOMAIN wire /\ wire'[i] = wire[i + 1]
         /\ \A i \in DOMAIN wire : i # 1 => i - 1 \in DOMAIN wire' /\ wire'[i - 1] = wire[i]
<1>1. wire \in Seq(Events) /\ DOMAIN wire = 1..Len(wire) /\ Len(wire) \in Nat /\ Len(wire) > 0
  BY WireIs
<1>2. /\ Tail(wire) \in Seq(Events) /\ Len(Tail(wire)) = Len(wire) - 1
      /\ \A i \in 1..Len(Tail(wire)) : Tail(wire)[i] = wire[i + 1]
  BY <1>1, HeadTailProperties
<1>3. DOMAIN wire' = 1..(Len(wire) - 1) /\ \A i \in DOMAIN wire' : wire'[i] = wire[i + 1]
  BY <1>2
<1>4. ASSUME NEW i \in DOMAIN wire, i # 1
      PROVE  i - 1 \in DOMAIN wire' /\ wire'[i - 1] = wire[i]
  <2>1. i - 1 \in DOMAIN wire' /\ (i - 1) + 1 = i
    BY <1>1, <1>3, <1>4
  <2> QED BY <1>3, <2>1
<1> QED BY <1>1, <1>3, <1>4

\* Behind a status that came in are the first m of the list, without those
\* in S; f says from which place each comes
Inserted(s, m, S, f) ==
  /\ m \in 0..Len(items) /\ (items # <<>> => m > 0)
  /\ Len(items') \in Nat \ {0} /\ items'[1] = s
  /\ f \in [1..(Len(items') - 1) -> 1..m]
  /\ \A k \in 1..(Len(items') - 1) : items'[k + 1] = items[f[k]] /\ items[f[k]] \notin S
  /\ \A j, k \in 1..(Len(items') - 1) : j < k => f[j] < f[k]
  /\ \A i \in 1..m : items[i] \notin S => \E k \in 1..(Len(items') - 1) : f[k] = i

Alike(s) == IF ReblogOf[s] = 0 THEN {} ELSE {t \in Ids : SameText(s, t)}

LEMMA Inserting ==
  ASSUME TypeOK, TimelineUpdate, \A i \in DOMAIN items : items[i] # Head(wire).id
  PROVE  \E m, f :
           /\ Inserted(Head(wire).id, m, Alike(Head(wire).id), f)
           /\ m = Len(items) \/ holed' \/ request.at # "answered"
<1> DEFINE s == Head(wire).id
           cut == top /\ Len(items) > FULL
           kept == IF cut THEN SubSeq(items, 1, KEPT) ELSE items
           m == IF cut THEN KEPT ELSE Len(items)
           W == Without(kept, Alike(s))
<1>1. items' = <<s>> \o W /\ holed' = (holed \/ (cut /\ request.at = "answered"))
  BY DEF TimelineUpdate, Alike
<1>2. items \in Seq(Entries) /\ Len(items) \in Nat /\ \A i \in 1..Len(items) : items[i] \in Entries
      /\ (items # <<>> => Len(items) > 0)
  BY ItemsAre
<1>3. s \in Ids
  BY WireIs DEF TimelineUpdate
<1>4. KEPT \in Nat /\ KEPT > 0 /\ FULL \in Nat /\ KEPT <= FULL
  BY TimelinesAssumption
<1> HIDE DEF s
<1>5. m \in 0..Len(items) /\ m \in Nat /\ (items # <<>> => m > 0)
  BY <1>2, <1>4
<1>6. kept \in Seq(Entries) /\ Len(kept) = m /\ \A i \in 1..m : kept[i] = items[i]
  <2>1. CASE cut
    <3>1. \A i \in 1..KEPT : i \in 1..Len(items) /\ items[i] \in Entries
      BY <1>2, <1>4, <2>1
    <3>2. /\ SubSeq(items, 1, KEPT) \in Seq(Entries) /\ Len(SubSeq(items, 1, KEPT)) = KEPT
          /\ \A i \in 1..KEPT : SubSeq(items, 1, KEPT)[i] = items[i]
      BY <1>4, <3>1, SubSeqProperties
    <3> QED BY <2>1, <3>2
  <2>2. CASE ~ cut
    BY <1>2, <2>2
  <2> QED BY <2>1, <2>2
<1>7. m = Len(items) \/ holed' \/ request.at # "answered"
  BY <1>1
<1> HIDE DEF cut, kept, m
<1> DEFINE S == Alike(s)
<1> HIDE DEF S
<1>8a. /\ Without(kept, S) \in Seq(Entries)
       /\ \E f \in [1..Len(Without(kept, S)) -> 1..Len(kept)] :
            /\ \A k \in 1..Len(Without(kept, S)) :
                 Without(kept, S)[k] = kept[f[k]] /\ kept[f[k]] \notin S
            /\ \A j, k \in 1..Len(Without(kept, S)) : j < k => f[j] < f[k]
            /\ \A i \in 1..Len(kept) :
                 kept[i] \notin S => \E k \in 1..Len(Without(kept, S)) : f[k] = i
  BY <1>6, WithoutIs
<1>8. PICK f \in [1..Len(W) -> 1..Len(kept)] :
        /\ W \in Seq(Entries)
        /\ \A k \in 1..Len(W) : W[k] = kept[f[k]] /\ kept[f[k]] \notin Alike(s)
        /\ \A j, k \in 1..Len(W) : j < k => f[j] < f[k]
        /\ \A i \in 1..Len(kept) : kept[i] \notin Alike(s) => \E k \in 1..Len(W) : f[k] = i
  BY <1>8a DEF S
<1> HIDE DEF W
<1>9. Len(W) \in Nat
  BY <1>8
<1>10. /\ <<s>> \o W \in Seq(Entries) /\ Len(<<s>> \o W) = Len(W) + 1
       /\ \A i \in 1..(Len(W) + 1) : (<<s>> \o W)[i] = IF i <= 1 THEN <<s>>[i] ELSE W[i - 1]
  <2>1. <<s>> \in Seq(Entries) /\ Len(<<s>>) = 1
    BY <1>3 DEF Entries
  <2>2. /\ <<s>> \o W \in Seq(Entries) /\ Len(<<s>> \o W) = Len(<<s>>) + Len(W)
        /\ \A i \in 1..(Len(<<s>>) + Len(W)) :
             (<<s>> \o W)[i] = IF i <= Len(<<s>>) THEN <<s>>[i] ELSE W[i - Len(<<s>>)]
    BY <1>8, <2>1, ConcatProperties
  <2> QED BY <1>9, <2>1, <2>2
<1>11. Len(items') = Len(W) + 1 /\ items'[1] = s /\ \A k \in 1..Len(W) : items'[k + 1] = W[k]
  <2>1. items'[1] = s
    <3>1. 1 \in 1..(Len(W) + 1) /\ <<s>>[1] = s
      BY <1>9
    <3> QED BY <1>1, <1>10, <3>1
  <2>2. ASSUME NEW k \in 1..Len(W) PROVE items'[k + 1] = W[k]
    <3>1. k + 1 \in 1..(Len(W) + 1) /\ ~ (k + 1 <= 1) /\ (k + 1) - 1 = k
      BY <1>9
    <3> QED BY <1>1, <1>10, <3>1
  <2> QED BY <1>1, <1>10, <2>1, <2>2
<1>12. Len(items') - 1 = Len(W) /\ Len(items') \in Nat \ {0}
  BY <1>9, <1>11
<1>13. \A k \in 1..Len(W) : f[k] \in 1..m
  BY <1>6, <1>8
<1>14. Inserted(s, m, Alike(s), f)
  <2>1. f \in [1..(Len(items') - 1) -> 1..m]
    BY <1>6, <1>12
  <2>2. \A k \in 1..(Len(items') - 1) : items'[k + 1] = items[f[k]] /\ items[f[k]] \notin Alike(s)
    BY <1>6, <1>8, <1>11, <1>12, <1>13
  <2>3. \A j, k \in 1..(Len(items') - 1) : j < k => f[j] < f[k]
    BY <1>8, <1>12
  <2>4. \A i \in 1..m : items[i] \notin Alike(s) => \E k \in 1..(Len(items') - 1) : f[k] = i
    BY <1>6, <1>8, <1>12
  <2> QED BY <1>5, <1>11, <1>12, <2>1, <2>2, <2>3, <2>4 DEF Inserted
<1> QED BY <1>5, <1>7, <1>14 DEF s

\* What is left of the list without those in S
Left(S, f) ==
  /\ Len(items') \in Nat
  /\ f \in [1..Len(items') -> 1..Len(items)]
  /\ \A k \in 1..Len(items') : items'[k] = items[f[k]] /\ items[f[k]] \notin S
  /\ \A j, k \in 1..Len(items') : j < k => f[j] < f[k]
  /\ \A i \in 1..Len(items) : items[i] \notin S => \E k \in 1..Len(items') : f[k] = i

ReblogsToo(s) == {s} \cup {t \in Ids : ReblogOf[t] = s}

LEMMA Leaving ==
  ASSUME TypeOK, TimelineDelete
  PROVE  \E f : Left(ReblogsToo(Head(wire).id), f)
<1> DEFINE S == ReblogsToo(Head(wire).id)
<1>1. items' = Without(items, S) /\ items \in Seq(Entries)
  BY ItemsAre DEF TimelineDelete, ReblogsToo
<1> HIDE DEF S
<1>2. PICK f \in [1..Len(Without(items, S)) -> 1..Len(items)] :
        /\ Without(items, S) \in Seq(Entries)
        /\ \A k \in 1..Len(Without(items, S)) : Without(items, S)[k] = items[f[k]] /\ items[f[k]] \notin S
        /\ \A j, k \in 1..Len(Without(items, S)) : j < k => f[j] < f[k]
        /\ \A i \in 1..Len(items) : items[i] \notin S => \E k \in 1..Len(Without(items, S)) : f[k] = i
  BY <1>1, WithoutIs
<1>3. Len(Without(items, S)) \in Nat
  BY <1>2
<1>4. Left(S, f)
  BY <1>1, <1>2, <1>3 DEF Left
<1> QED BY <1>4 DEF S

\* The events that are left are as sound as all were
LEMMA SoundTail ==
  ASSUME Sound, wire # <<>>, wire' = Tail(wire), UNCHANGED <<feed, removed, socket>>
  PROVE  /\ WireSound'
         /\ \A t : OnWire(t) => OnWire(t)' \/ (Head(wire).event = "update" /\ t = Head(wire).id)
         /\ \A t : OnWire(t)' => OnWire(t)
<1>1. /\ Head(wire) = wire[1] /\ 1 \in DOMAIN wire
      /\ \A i \in DOMAIN wire' : i \in Nat /\ i + 1 \in DOMAIN wire /\ wire'[i] = wire[i + 1]
      /\ \A i \in DOMAIN wire : i # 1 => i - 1 \in DOMAIN wire' /\ wire'[i - 1] = wire[i]
  BY TailIs DEF Sound
<1>2. Posted' = Posted
  BY DEF Posted
<1>3. WireSound'
  <2>1. \A i, j \in DOMAIN wire' : i < j => i + 1 < j + 1
    BY <1>1
  <2> QED BY <1>1, <1>2, <2>1 DEF Sound, WireSound
<1>4. ASSUME NEW t, OnWire(t)
      PROVE  OnWire(t)' \/ (Head(wire).event = "update" /\ t = Head(wire).id)
  <2>1. PICK i \in DOMAIN wire : wire[i].event = "update" /\ wire[i].id = t
    BY <1>4 DEF OnWire
  <2>2. CASE i = 1
    BY <1>1, <2>1, <2>2
  <2>3. CASE i # 1
    BY <1>1, <2>1, <2>3 DEF OnWire
  <2> QED BY <2>2, <2>3
<1>5. ASSUME NEW t, OnWire(t)' PROVE OnWire(t)
  BY <1>1, <1>5 DEF OnWire
<1> QED BY <1>3, <1>4, <1>5

LEMMA SoundUpdate ==
  ASSUME Sound, TypeOK', TimelineUpdate
  PROVE  Sound'
<1> DEFINE s == Head(wire).id
<1>1. /\ TypeOK /\ wire # <<>> /\ wire' = Tail(wire) /\ Head(wire).event = "update"
      /\ UNCHANGED <<feed, removed, socket, request, overtaken>>
  BY DEF Sound, TimelineUpdate, server
<1>2. Posted' = Posted
  BY <1>1 DEF Posted
<1>3. /\ Head(wire) = wire[1] /\ 1 \in DOMAIN wire /\ DOMAIN wire \subseteq Nat
      /\ \A i \in DOMAIN wire' : i \in Nat /\ i + 1 \in DOMAIN wire /\ wire'[i] = wire[i + 1]
  BY <1>1, TailIs
<1>4. /\ WireSound'
      /\ \A t : OnWire(t) => OnWire(t)' \/ t = s
  BY <1>1, SoundTail
<1>5. s \in Ids /\ s \in Nat /\ s \in Posted /\ s # GAP
  BY <1>1, <1>3, WireIs, IdIs DEF Sound, WireSound
<1>6. PageSound'
  BY <1>1, <1>2 DEF Sound, PageSound, InPage, isLoading
<1>7. ~ overtaken => s \in Shown \/ \A t \in Shown : t < s
  BY <1>1, <1>3 DEF Sound, WireOrdered
<1>8. \A i \in DOMAIN items : items[i] # GAP => items[i] \in Shown
  BY DEF Shown
<1> DEFINE New == /\ Shown' \subseteq Shown \cup {s}
                  /\ (~ overtaken => (Shown' = Shown \/ \A t \in Shown : t < s))
                  /\ NewestFirst'
<1>9. ASSUME \E i \in DOMAIN items : items[i] = s PROVE New
  <2>1. items' = items
    BY <1>9 DEF TimelineUpdate
  <2>2. Shown' = Shown
    BY <2>1 DEF Shown
  <2>3. NewestFirst'
    BY <1>1, <2>1 DEF Sound, NewestFirst
  <2> QED BY <2>2, <2>3
<1>10. ASSUME \A i \in DOMAIN items : items[i] # s PROVE New
  <2>1. PICK m, f : Inserted(s, m, Alike(s), f)
    BY <1>1, <1>10, Inserting
  <2> DEFINE c == Len(items') - 1
  <2>2. /\ c \in Nat /\ items'[1] = s /\ m \in 0..Len(items) /\ f \in [1..c -> 1..m]
        /\ \A k \in 1..c : items'[k + 1] = items[f[k]]
        /\ \A j, k \in 1..c : j < k => f[j] < f[k]
    BY <2>1 DEF Inserted
  <2>3. DOMAIN items' = 1..(c + 1)
    BY DEF TypeOK
  <2> HIDE DEF c
  <2>4. Len(items) \in Nat /\ DOMAIN items = 1..Len(items)
    BY <1>1, ItemsAre
  <2>5. \A k \in 1..c : f[k] \in DOMAIN items
    <3>1. \A k \in 1..c : f[k] \in 1..m
      BY <2>2
    <3> QED BY <2>2, <2>4, <3>1
  <2>6. \A i \in DOMAIN items' : i = 1 \/ (i - 1 \in 1..c /\ items'[i] = items[f[i - 1]])
    <3> TAKE i \in DOMAIN items'
    <3>1. i # 1 => i - 1 \in 1..c /\ (i - 1) + 1 = i
      BY <2>2, <2>3
    <3> QED BY <2>2, <3>1
  <2>7. \A t \in Shown' : t = s \/ t \in Shown
    <3> TAKE t \in Shown'
    <3>1. PICK i \in DOMAIN items' : items'[i] = t /\ t # GAP
      BY DEF Shown
    <3> QED BY <1>8, <2>2, <2>5, <2>6, <3>1
  <2>8. ~ overtaken => \A t \in Shown : t < s
    BY <1>7, <1>10, <1>5 DEF Shown
  <2>9. NewestFirst'
    <3> SUFFICES ASSUME ~ overtaken', NEW i \in DOMAIN items', NEW j \in DOMAIN items', i < j,
                        items'[i] # GAP, items'[j] # GAP
                 PROVE  items'[i] > items'[j]
      BY DEF NewestFirst
    <3>1. ~ overtaken
      BY <1>1
    <3>2. j - 1 \in 1..c /\ items'[j] = items[f[j - 1]]
      <4>1. j # 1
        BY <2>2, <2>3
      <4> QED BY <2>6, <4>1
    <3>3. items[f[j - 1]] \in Shown /\ items[f[j - 1]] \in Nat
      BY <1>8, <2>4, <2>5, <3>2, <1>1, ItemsAre
    <3>4. CASE i = 1
      <4>1. items[f[j - 1]] < s
        BY <2>8, <3>1, <3>3
      <4> QED BY <1>5, <2>2, <3>2, <3>3, <3>4, <4>1
    <3>5. CASE i - 1 \in 1..c /\ items'[i] = items[f[i - 1]]
      <4>1. i - 1 < j - 1
        BY <2>2, <2>3
      <4>2. f[i - 1] < f[j - 1] /\ f[i - 1] \in DOMAIN items /\ f[j - 1] \in DOMAIN items
        BY <2>2, <2>5, <3>2, <3>5, <4>1
      <4> QED BY <3>1, <3>2, <3>5, <4>2 DEF Sound, NewestFirst
    <3> QED BY <2>6, <3>4, <3>5
  <2> QED BY <2>7, <2>8, <2>9
<1>11. New
  BY <1>9, <1>10
<1> HIDE DEF s
<1>12. ServerSound'
  <2>1. Shown' \subseteq Posted'
    BY <1>2, <1>5, <1>11 DEF Sound, ServerSound
  <2> QED BY <1>1, <2>1 DEF Sound, ServerSound
<1>13. WireOrdered'
  <2> SUFFICES ASSUME ~ overtaken' PROVE WireOrdered'
    BY DEF WireOrdered
  <2>1. ~ overtaken
    BY <1>1
  <2>2. ASSUME NEW i \in DOMAIN wire', NEW j \in DOMAIN wire', i < j,
               wire'[i].event = "update", wire'[j].event = "update"
        PROVE  wire'[i].id < wire'[j].id
    <3>1. i + 1 < j + 1
      BY <1>3, <2>2
    <3> QED BY <1>3, <2>1, <2>2, <3>1 DEF Sound, WireOrdered
  <2>3. ASSUME NEW i \in DOMAIN wire', wire'[i].event = "update"
        PROVE  /\ wire'[i].id \in Shown' \/ \A t \in Shown' : t < wire'[i].id
               /\ \A t \in feed' : t > wire'[i].id => OnWire(t)'
    <3>1. i + 1 \in DOMAIN wire /\ wire'[i] = wire[i + 1] /\ 1 < i + 1
      <4>1. i \in Nat /\ i + 1 \in DOMAIN wire /\ wire'[i] = wire[i + 1]
        BY <1>3
      <4>2. i # 0
        <5>1. DOMAIN wire = 1..Len(wire) /\ Len(wire) \in Nat
          BY <1>1, WireIs
        <5>2. Tail(wire) \in Seq(Events)
          BY <1>1, WireIs, HeadTailProperties
        <5>3. DOMAIN wire' = 1..Len(wire')
          BY <1>1, <5>2, LenProperties
        <5> QED BY <5>3
      <4> QED BY <4>1, <4>2
    <3>2. s < wire[i + 1].id /\ wire[i + 1].id \in Nat
      <4>1. wire[1].id < wire[i + 1].id
        BY <1>1, <1>3, <2>1, <2>3, <3>1 DEF Sound, WireOrdered
      <4> QED BY <1>1, <1>3, <3>1, <4>1, WireIs DEF s
    <3>3. /\ wire[i + 1].id \in Shown \/ \A t \in Shown : t < wire[i + 1].id
          /\ \A t \in feed : t > wire[i + 1].id => OnWire(t)
      BY <2>1, <2>3, <3>1 DEF Sound, WireOrdered
    <3>4. wire[i + 1].id \in Shown' \/ \A t \in Shown' : t < wire[i + 1].id
      <4>1. CASE Shown' = Shown
        BY <3>3, <4>1
      <4>2. CASE \A t \in Shown : t < s
        <5>1. \A t \in Shown : t \in Nat
          BY <1>1, ShownIs
        <5>2. \A t \in Shown : t < wire[i + 1].id
          BY <1>5, <3>2, <4>2, <5>1
        <5> QED BY <1>11, <3>2, <5>2
      <4> QED BY <1>11, <2>1, <4>1, <4>2
    <3>5. ASSUME NEW t \in feed, t > wire[i + 1].id PROVE OnWire(t)'
      <4>1. t # s
        BY <1>5, <3>2, <3>5
      <4> QED BY <1>4, <3>3, <3>5, <4>1
    <3> QED BY <1>1, <3>1, <3>4, <3>5
  <2> QED BY <2>2, <2>3 DEF WireOrdered
<1> QED BY <1>4, <1>6, <1>11, <1>12, <1>13 DEF Sound

\* What is shown after a removal
LEMMA LeftIs ==
  ASSUME TypeOK, TypeOK', NEW S, NEW f, Left(S, f), GAP \notin S
  PROVE  /\ DOMAIN items' = 1..Len(items') /\ Len(items') \in Nat
         /\ \A k \in DOMAIN items' : f[k] \in DOMAIN items /\ items'[k] = items[f[k]]
         /\ \A t : t \in Shown' <=> t \in Shown /\ t \notin S
<1>1. /\ DOMAIN items' = 1..Len(items') /\ Len(items') \in Nat
      /\ DOMAIN items = 1..Len(items)
  BY ItemsAre DEF TypeOK
<1>2. /\ \A k \in DOMAIN items' : f[k] \in DOMAIN items /\ items'[k] = items[f[k]] /\ items[f[k]] \notin S
      /\ \A i \in DOMAIN items : items[i] \notin S => \E k \in DOMAIN items' : f[k] = i
  BY <1>1 DEF Left
<1>3. ASSUME NEW t \in Shown' PROVE t \in Shown /\ t \notin S
  <2>1. PICK k \in DOMAIN items' : items'[k] = t /\ t # GAP
    BY <1>3 DEF Shown
  <2> QED BY <1>2, <2>1 DEF Shown
<1>4. ASSUME NEW t \in Shown, t \notin S PROVE t \in Shown'
  <2>1. PICK i \in DOMAIN items : items[i] = t /\ t # GAP
    BY <1>4 DEF Shown
  <2>2. PICK k \in DOMAIN items' : f[k] = i
    BY <1>2, <1>4, <2>1
  <2> QED BY <1>2, <2>1, <2>2 DEF Shown
<1> QED BY <1>1, <1>2, <1>3, <1>4

LEMMA SoundDelete ==
  ASSUME Sound, TypeOK', TimelineDelete
  PROVE  Sound'
<1> DEFINE x == Head(wire).id
           S == ReblogsToo(x)
<1>1. /\ TypeOK /\ wire # <<>> /\ wire' = Tail(wire) /\ Head(wire).event = "delete"
      /\ UNCHANGED <<feed, removed, socket, request, overtaken>>
  BY DEF Sound, TimelineDelete, server, past
<1>2. Posted' = Posted
  BY <1>1 DEF Posted
<1>3. /\ Head(wire) = wire[1] /\ 1 \in DOMAIN wire /\ DOMAIN wire \subseteq Nat
      /\ \A i \in DOMAIN wire' : i \in Nat /\ i + 1 \in DOMAIN wire /\ wire'[i] = wire[i + 1]
  BY <1>1, TailIs
<1>4. WireSound' /\ \A t : OnWire(t) => OnWire(t)'
  BY <1>1, SoundTail
<1>5. x \in Ids /\ GAP \notin S
  BY <1>1, <1>3, WireIs, IdIs DEF ReblogsToo
<1>6. PageSound'
  BY <1>1, <1>2 DEF Sound, PageSound, InPage, isLoading
<1>7. PICK f : Left(S, f)
  BY <1>1, Leaving
<1> HIDE DEF S
<1>8. /\ DOMAIN items' = 1..Len(items') /\ Len(items') \in Nat
      /\ \A k \in DOMAIN items' : f[k] \in DOMAIN items /\ items'[k] = items[f[k]]
      /\ \A t : t \in Shown' <=> t \in Shown /\ t \notin S
  BY <1>1, <1>5, <1>7, LeftIs
<1>9. \A j, k \in DOMAIN items' : j < k => f[j] < f[k]
  BY <1>7, <1>8 DEF Left
<1>10. NewestFirst'
  BY <1>1, <1>8, <1>9 DEF Sound, NewestFirst
<1>11. ServerSound'
  BY <1>1, <1>2, <1>8 DEF Sound, ServerSound
<1>12. WireOrdered'
  <2> SUFFICES ASSUME ~ overtaken' PROVE WireOrdered'
    BY DEF WireOrdered
  <2>1. ~ overtaken
    BY <1>1
  <2>2. ASSUME NEW i \in DOMAIN wire', NEW j \in DOMAIN wire', i < j,
               wire'[i].event = "update", wire'[j].event = "update"
        PROVE  wire'[i].id < wire'[j].id
    <3>1. i + 1 < j + 1
      BY <1>3, <2>2
    <3> QED BY <1>3, <2>1, <2>2, <3>1 DEF Sound, WireOrdered
  <2>3. ASSUME NEW i \in DOMAIN wire', wire'[i].event = "update"
        PROVE  /\ wire'[i].id \in Shown' \/ \A t \in Shown' : t < wire'[i].id
               /\ \A t \in feed' : t > wire'[i].id => OnWire(t)'
    <3>1. i + 1 \in DOMAIN wire /\ wire'[i] = wire[i + 1] /\ 1 < i + 1
      <4>1. i \in Nat /\ i + 1 \in DOMAIN wire /\ wire'[i] = wire[i + 1]
        BY <1>3
      <4>2. i # 0
        <5>1. Tail(wire) \in Seq(Events)
          BY <1>1, WireIs, HeadTailProperties
        <5>2. DOMAIN wire' = 1..Len(wire')
          BY <1>1, <5>1, LenProperties
        <5> QED BY <5>2
      <4> QED BY <4>1, <4>2
    <3>2. wire[i + 1].id # x /\ ReblogOf[wire[i + 1].id] # x
      BY <1>1, <1>3, <2>3, <3>1 DEF Sound, WireSound
    <3>3. wire[i + 1].id \notin S
      BY <3>2 DEF S, ReblogsToo
    <3>4. /\ wire[i + 1].id \in Shown \/ \A t \in Shown : t < wire[i + 1].id
          /\ \A t \in feed : t > wire[i + 1].id => OnWire(t)
      BY <2>1, <2>3, <3>1 DEF Sound, WireOrdered
    <3> QED BY <1>1, <1>4, <1>8, <3>1, <3>3, <3>4
  <2> QED BY <2>2, <2>3 DEF WireOrdered
<1> QED BY <1>4, <1>6, <1>10, <1>11, <1>12 DEF Sound

\* A gap on top of the list
LEMMA GapOnTop ==
  ASSUME TypeOK
  PROVE  /\ Len(<<GAP>> \o items) = Len(items) + 1
         /\ DOMAIN (<<GAP>> \o items) = 1..(Len(items) + 1)
         /\ (<<GAP>> \o items)[1] = GAP
         /\ \A i \in 1..Len(items) : (<<GAP>> \o items)[i + 1] = items[i]
<1>1. <<GAP>> \in Seq(Entries) /\ Len(<<GAP>>) = 1 /\ <<GAP>>[1] = GAP
  BY DEF Entries
<1>2. items \in Seq(Entries) /\ Len(items) \in Nat
  BY ItemsAre
<1>3. /\ <<GAP>> \o items \in Seq(Entries) /\ Len(<<GAP>> \o items) = Len(<<GAP>>) + Len(items)
      /\ \A i \in 1..(Len(<<GAP>>) + Len(items)) :
           (<<GAP>> \o items)[i] = IF i <= Len(<<GAP>>) THEN <<GAP>>[i] ELSE items[i - Len(<<GAP>>)]
  BY <1>1, <1>2, ConcatProperties
<1> DEFINE G == <<GAP>> \o items
<1>4. DOMAIN G = 1..Len(G)
  BY <1>3, LenProperties
<1>5. Len(G) = Len(items) + 1 /\ \A i \in 1..(Len(items) + 1) : G[i] = IF i <= 1 THEN GAP ELSE items[i - 1]
  <2>1. Len(<<GAP>>) + Len(items) = Len(items) + 1
    BY <1>1, <1>2
  <2>2. \A i \in 1..(Len(items) + 1) : i <= 1 => i = 1
    OBVIOUS
  <2> QED BY <1>1, <1>2, <1>3, <2>1, <2>2
<1> HIDE DEF G
<1>6. ASSUME NEW i \in 1..Len(items) PROVE G[i + 1] = items[i]
  <2>1. i + 1 \in 1..(Len(items) + 1) /\ ~ (i + 1 <= 1) /\ (i + 1) - 1 = i
    BY <1>2
  <2> QED BY <1>5, <2>1
<1>7. G[1] = GAP
  <2>1. 1 \in 1..(Len(items) + 1)
    BY <1>2
  <2> QED BY <1>5, <2>1
<1>8. /\ Len(G) = Len(items) + 1 /\ DOMAIN G = 1..(Len(items) + 1) /\ G[1] = GAP
      /\ \A i \in 1..Len(items) : G[i + 1] = items[i]
  BY <1>4, <1>5, <1>6, <1>7
<1> QED BY <1>8 DEF G

LEMMA SoundDisconnect ==
  ASSUME Sound, TypeOK', Disconnect
  PROVE  Sound'
<1>1. /\ TypeOK /\ wire' = <<>> /\ DOMAIN wire' = {}
      /\ items' = (IF Partial THEN items ELSE <<GAP>> \o items)
      /\ UNCHANGED <<feed, removed, request, overtaken>>
  BY DEF Sound, Disconnect, server
<1>2. Posted' = Posted
  BY <1>1 DEF Posted
<1>3. WireSound' /\ WireOrdered'
  BY <1>1 DEF WireSound, WireOrdered
<1>4. PageSound'
  BY <1>1, <1>2 DEF Sound, PageSound, InPage, isLoading
<1>5. CASE Partial
  <2>1. items' = items /\ Shown' = Shown
    BY <1>1, <1>5 DEF Shown
  <2> QED BY <1>1, <1>2, <1>3, <1>4, <2>1 DEF Sound, ServerSound, NewestFirst
<1>6. CASE ~ Partial
  <2>1. /\ DOMAIN items' = 1..(Len(items) + 1) /\ items'[1] = GAP
        /\ \A i \in 1..Len(items) : items'[i + 1] = items[i]
    BY <1>1, <1>6, GapOnTop
  <2>2. DOMAIN items = 1..Len(items) /\ Len(items) \in Nat
    BY <1>1, ItemsAre
  <2>3. \A i \in DOMAIN items' : i \in Nat /\ (i = 1 \/ (i - 1 \in DOMAIN items /\ items'[i] = items[i - 1]))
    <3> TAKE i \in DOMAIN items'
    <3>1. i \in Nat /\ (i # 1 => i - 1 \in 1..Len(items) /\ (i - 1) + 1 = i)
      BY <2>1, <2>2
    <3> QED BY <2>1, <2>2, <3>1
  <2>4. ServerSound'
    <3>1. Shown' \subseteq Shown
      BY <2>1, <2>3 DEF Shown
    <3> QED BY <1>1, <1>2, <3>1 DEF Sound, ServerSound
  <2>5. NewestFirst'
    <3> SUFFICES ASSUME ~ overtaken', NEW i \in DOMAIN items', NEW j \in DOMAIN items', i < j,
                        items'[i] # GAP, items'[j] # GAP
                 PROVE  items'[i] > items'[j]
      BY DEF NewestFirst
    <3>1. i # 1 /\ j # 1 /\ i - 1 < j - 1
      BY <2>1, <2>3
    <3> QED BY <1>1, <2>3, <3>1 DEF Sound, NewestFirst
  <2> QED BY <1>3, <1>4, <2>4, <2>5 DEF Sound
<1> QED BY <1>5, <1>6

LEMMA SoundNext == Sound /\ [Next]_vars => Sound'
<1> SUFFICES ASSUME Sound, [Next]_vars PROVE Sound'
  OBVIOUS
<1>1. TypeOK /\ TypeOK'
  BY TypeNext DEF Sound
<1> USE DEF server, past, stream
<1>2. wire # <<>> => socket = "subscribed"
  BY DEF Sound, WireSound
<1>3. ASSUME NEW s \in Ids, Publish(s) PROVE Sound'
  BY <1>1, <1>3, SoundPublish
<1>4. ASSUME NEW s \in Ids, RemoveStatus(s) PROVE Sound'
  BY <1>1, <1>4, SoundRemove
<1>5. 0 \in Entries /\ \A i \in DOMAIN items : items[i] \in Entries /\ items[i] \in Shown \cup {0}
  BY <1>1, ItemsAre DEF Entries, GAP, Shown
<1>6. CASE Refresh
  BY <1>1, <1>2, <1>5, <1>6, SoundAsked DEF Refresh
<1>7. CASE LoadOlder
  <2>1. Len(items) \in DOMAIN items
    BY <1>1, <1>7, ItemsAre DEF LoadOlder
  <2> QED BY <1>1, <1>2, <1>5, <1>7, <2>1, SoundAsked DEF LoadOlder
<1>8. ASSUME NEW i \in DOMAIN items, FillGap(i) PROVE Sound'
  <2>1. i - 1 \in DOMAIN items
    BY <1>1, <1>8, ItemsAre DEF FillGap
  <2> QED BY <1>1, <1>2, <1>5, <1>8, <2>1, SoundAsked DEF FillGap
<1>9. CASE Show
  BY <1>1, <1>9, SoundShow
<1>10. CASE ExpandSuccess
  BY <1>1, <1>10, SoundMerge
<1>11. CASE ExpandFail
  <2>1. request'.at # "answered" /\ ~ isLoading'
    BY <1>11 DEF ExpandFail, None, isLoading
  <2> QED BY <1>1, <1>2, <1>11, <2>1, SoundAside DEF ExpandFail
<1>12. CASE TimelineUpdate
  BY <1>1, <1>12, SoundUpdate
<1>13. CASE TimelineDelete
  BY <1>1, <1>13, SoundDelete
<1>14. CASE Scroll
  BY <1>1, <1>2, <1>14, SoundAside DEF Scroll
<1>15. CASE Connect
  <2>1. wire = <<>>
    BY <1>2, <1>15 DEF Connect
  <2>2. CASE opened /\ ~ isLoading
    BY <1>1, <1>5, <1>15, <2>1, <2>2, SoundAsked DEF Connect
  <2>3. CASE ~ (opened /\ ~ isLoading)
    BY <1>1, <1>15, <2>1, <2>3, SoundAside DEF Connect
  <2> QED BY <2>2, <2>3
<1>16. CASE Subscribe
  BY <1>1, <1>16, SoundAside DEF Subscribe
<1>17. CASE Disconnect
  BY <1>1, <1>17, SoundDisconnect
<1>18. CASE UNCHANGED vars
  BY <1>1, <1>2, <1>18, SoundAside DEF vars
<1> QED
  BY <1>3, <1>4, <1>6, <1>7, <1>8, <1>9, <1>10, <1>11, <1>12, <1>13, <1>14, <1>15, <1>16, <1>17, <1>18
  DEF Next

LEMMA SoundAlways == Spec => []Sound
<1> QED BY SoundInit, SoundNext, PTL DEF Spec

\* Pages merged into what events have changed, and events into what pages
\* have filled, leave the newer above the older and nothing shown twice
THEOREM OrderKept == Spec => []NewestFirst
<1>1. Sound => NewestFirst
  BY DEF Sound
<1> QED BY <1>1, SoundAlways, PTL

\* A page that is merged replaces what it has itself, and what it has not
\* and stood there was removed
THEOREM MergeLosesNothing == Spec => NothingLost
<1> DEFINE A == (request.at = "answered" /\ request' = None /\ fails' = fails /\ ~ overtaken')
                  => Shown \ Shown' \subseteq removed
<1>1. Sound /\ [Next]_vars => [A]_vars
  <2> SUFFICES ASSUME Sound, Next, request.at = "answered", request' = None, fails' = fails, ~ overtaken'
               PROVE  \A s \in Shown : s \in Shown' \/ s \in removed
    BY DEF vars
  <2> USE DEF server, past, stream
  <2>1. request' # request /\ TypeOK /\ TypeOK' /\ request'.at = "none"
    BY TypeNext DEF Sound, None
  <2>2. CASE ExpandSuccess
    BY <2>1, <2>2, SoundMerge
  <2>3. CASE ~ ExpandSuccess
    <3>1. ~ ExpandFail
      BY <2>1 DEF ExpandFail, TypeOK
    <3>2. ~ Show
      BY DEF Show
    <3>3. ASSUME NEW max, Expand(max) PROVE FALSE
      BY <2>1, <3>3, RequestIs DEF Expand
    <3>4. ~ Connect
      BY <2>1, <3>3 DEF Connect
    <3>5. ~ Refresh /\ ~ LoadOlder /\ \A i \in DOMAIN items : ~ FillGap(i)
      BY <3>3 DEF Refresh, LoadOlder, FillGap
    <3>6. \A s \in Ids : ~ Publish(s) /\ ~ RemoveStatus(s)
      BY <2>1 DEF Publish, RemoveStatus
    <3>7. ~ TimelineUpdate /\ ~ TimelineDelete /\ ~ Scroll /\ ~ Subscribe /\ ~ Disconnect
      BY <2>1 DEF TimelineUpdate, TimelineDelete, Scroll, Subscribe, Disconnect
    <3> QED BY <2>3, <3>1, <3>2, <3>4, <3>5, <3>6, <3>7 DEF Next
  <2> QED BY <2>2, <2>3
<1>2. NothingLost <=> [][A]_vars
  BY DEF NothingLost
<1> QED BY <1>1, <1>2, SoundAlways, PTL DEF Spec

-----------------------------------------------------------------------------
(* Gaps are seen *)

\* The page that is under way has it
Coming(s) ==
  /\ isLoading /\ request.max = 0 /\ request.since # 0
  /\ IF request.at = "asked" THEN caught /\ s > request.since ELSE InPage(s)

\* It is missed because the socket is closed, and not before the page that is
\* under way, so that the refresh when the socket is open again has it
Missed(s) ==
  /\ socket = "closed" /\ opened /\ caught
  /\ ~ /\ isLoading /\ request.max = 0
       /\ request.at = "asked" \/ (request.page # <<>> /\ s <= request.page[1])

\* Until the socket opens for the first time nothing but pages comes
NotYetOn ==
  ~ opened =>
    /\ socket = "closed" /\ wire = <<>> /\ ~ polling
    /\ \A i \in DOMAIN items : items[i] # GAP
    /\ isLoading /\ request.max = 0 => items = <<>>

\* A list is under its gap until a refresh comes, or what the stream brings
\* stands above the gap
Fresh ==
  ~ Partial /\ (~ caught \/ (request.at = "asked" /\ request.max = 0 /\ request.since = 0)) =>
    socket = "subscribed"

\* What is missing between two statuses comes with the page
Covered ==
  \A i \in 1..(Len(items) - 1) :
    items[i] # GAP /\ items[i + 1] # GAP =>
      \A s \in feed : items[i] > s /\ s > items[i + 1] => Regrouped(s) \/ Coming(s)

\* What is missing on top comes
Topped ==
  ~ Partial =>
    \A s \in feed : s > Head(items) => Regrouped(s) \/ OnWire(s) \/ Coming(s) \/ Missed(s)

\* What is newer than the newest page is shown, or comes behind all that is
Behind ==
  request.at = "answered" /\ request.max = 0 /\ request.page # <<>> =>
    \A s \in feed : s > request.page[1] =>
      \/ s \in Shown \/ Regrouped(s)
      \/ /\ OnWire(s) \/ (socket = "closed" /\ opened)
         /\ \A t \in Shown : t < s

Whole ==
  /\ NotYetOn
  /\ ~ holed /\ ~ overtaken => Fresh /\ Covered /\ Topped /\ Behind

LEMMA WholeShows == TypeOK /\ Whole => NoSilentGap
<1> SUFFICES ASSUME TypeOK, Whole PROVE NoSilentGap
  OBVIOUS
<1>1. ~ isLoading => \A s : ~ Coming(s)
  BY DEF Coming
<1>2. socket = "subscribed" => \A s : ~ Missed(s)
  BY DEF Missed
<1>3. wire = <<>> => \A s : ~ OnWire(s)
  BY DEF OnWire
<1>4. ~ Partial => Head(items) \in Nat
  BY ItemsAre DEF Partial
<1>5. \A s \in feed : s \in Nat
  BY IdIs DEF TypeOK
<1>6. ASSUME ~ isLoading, ~ holed, ~ overtaken
      PROVE  /\ \A i \in 1..(Len(items) - 1) :
                  items[i] # GAP /\ items[i + 1] # GAP =>
                    \A s \in feed : items[i] > s /\ s > items[i + 1] => Regrouped(s)
             /\ (socket = "subscribed" /\ wire = <<>> /\ ~ Partial) =>
                  \A s \in feed : s <= Head(items) \/ Regrouped(s)
  BY <1>1, <1>2, <1>3, <1>4, <1>5, <1>6 DEF Whole, Covered, Topped
<1> QED BY <1>6 DEF NoSilentGap

LEMMA HeadIs ==
  ASSUME TypeOK
  PROVE  /\ ~ Partial => 1 \in 1..Len(items) /\ Head(items) = items[1] /\ items[1] # GAP
         /\ Partial /\ items # <<>> => items[1] = GAP
BY ItemsAre DEF Partial

\* Where there is no gap a status that is missing is missing between two
\* neighbours
LEMMA Chain ==
  ASSUME TypeOK, Covered, NEW i \in 1..Len(items), NEW j \in 1..Len(items), i < j,
         \A k \in i..j : items[k] # GAP,
         NEW s \in feed, items[i] > s, s > items[j], \A k \in i..j : items[k] # s
  PROVE  Regrouped(s) \/ Coming(s)
<1> DEFINE T == {k \in i..j : items[k] < s}
<1>1. T \in SUBSET Nat /\ j \in T
  <2>1. items[j] \in Nat /\ s \in Nat /\ j \in i..j
    BY ItemsAre, IdIs DEF TypeOK
  <2> QED BY <2>1
<1>2. PICK k \in T : \A l \in T : k <= l
  <2> HIDE DEF T
  <2> QED BY <1>1, SmallestIs
<1>3. k \in i..j /\ items[k] < s /\ k \in Nat
  OBVIOUS
<1>4. items[i] \in Nat /\ s \in Nat
  BY ItemsAre, IdIs DEF TypeOK
<1>5. k # i
  BY <1>3, <1>4
<1>6. k - 1 \in i..j /\ k - 1 \in 1..(Len(items) - 1) /\ (k - 1) + 1 = k /\ k - 1 \in 1..Len(items)
  BY <1>3, <1>5, ItemsAre
<1>7. ~ (items[k - 1] < s)
  <2>1. ~ (k <= k - 1)
    BY <1>3
  <2>2. k - 1 \notin T
    <3> HIDE DEF T
    <3> QED BY <1>2, <2>1
  <2> QED BY <1>6, <2>2
<1>8. items[k - 1] \in Nat /\ items[k - 1] # s
  BY <1>6, ItemsAre
<1>9. items[k - 1] > s /\ s > items[k] /\ items[k - 1] # GAP /\ items[k] # GAP
  <2>1. items[k] \in Nat
    BY <1>3, ItemsAre
  <2> QED BY <1>3, <1>4, <1>6, <1>7, <1>8, <2>1
<1> QED BY <1>6, <1>9 DEF Covered

LEMMA WholeInit == Init => Whole
<1> SUFFICES ASSUME Init PROVE Whole
  OBVIOUS
<1>1. items = <<>> /\ wire = <<>> /\ request.at = "asked" /\ Partial
  BY DEF Init, Partial
<1>2. Len(items) = 0 /\ DOMAIN items = {}
  BY <1>1
<1>3. Covered
  <2>1. 1..(Len(items) - 1) = {}
    BY <1>2
  <2> QED BY <2>1 DEF Covered
<1>4. NotYetOn
  BY <1>1, <1>2 DEF NotYetOn, Init
<1> QED BY <1>1, <1>3, <1>4 DEF Whole, Fresh, Topped, Behind

\* A step that leaves the list and the request alone
LEMMA WholeAside ==
  ASSUME Whole, NotYetOn', UNCHANGED <<items, request, caught>>,
         feed' \subseteq feed, Posted' = Posted, \A s : OnWire(s) => OnWire(s)',
         holed => holed', overtaken => overtaken',
         socket = "subscribed" => socket' = "subscribed",
         socket = "closed" /\ opened => socket' = "closed" /\ opened'
  PROVE  Whole'
<1>1. Shown' = Shown /\ Partial' = Partial /\ isLoading' = isLoading
  BY DEF Shown, Partial, isLoading
<1>2. \A s : /\ Regrouped(s)' <=> Regrouped(s)
             /\ Coming(s)' <=> Coming(s)
             /\ Missed(s) => Missed(s)'
  BY <1>1 DEF Regrouped, Coming, Missed, InPage
<1> SUFFICES ASSUME ~ holed', ~ overtaken' PROVE Fresh' /\ Covered' /\ Topped' /\ Behind'
  BY DEF Whole
<1>3. Fresh /\ Covered /\ Topped /\ Behind
  BY DEF Whole
<1>4. \A s \in feed' : s \in feed
  OBVIOUS
<1>5. Fresh'
  BY <1>1, <1>3 DEF Fresh
<1>6. Covered'
  BY <1>2, <1>3, <1>4 DEF Covered
<1>7. Topped'
  BY <1>1, <1>2, <1>3, <1>4 DEF Topped
<1>8. Behind'
  BY <1>1, <1>2, <1>3, <1>4 DEF Behind
<1> QED BY <1>5, <1>6, <1>7, <1>8

LEMMA WholeAsked ==
  ASSUME TypeOK, Whole, NEW max \in Entries, Expand(max),
         UNCHANGED <<feed, removed, items, wire, caught, overtaken>>, holed => holed',
         NotYetOn',
         UNCHANGED <<socket, opened>> \/ (max = 0 /\ socket = "closed")
  PROVE  Whole'
<1>1. request = None /\ ~ isLoading /\ isLoading' /\ request'.at = "asked" /\ request'.max = max
      /\ request'.since = IF max = 0 /\ items # <<>> THEN Head(items) ELSE 0
  BY AskedIs DEF isLoading
<1>2. Shown' = Shown /\ Partial' = Partial /\ Posted' = Posted
  BY DEF Shown, Partial, Posted
<1>3. \A s : (Regrouped(s)' <=> Regrouped(s)) /\ (OnWire(s)' <=> OnWire(s)) /\ ~ Coming(s)
  BY <1>1, <1>2 DEF Regrouped, OnWire, Coming
<1>4. ~ Partial => items # <<>> /\ Head(items) # GAP
  BY DEF Partial
<1> SUFFICES ASSUME ~ holed', ~ overtaken' PROVE Fresh' /\ Covered' /\ Topped' /\ Behind'
  BY DEF Whole
<1>5. Fresh /\ Covered /\ Topped /\ Behind
  BY DEF Whole
<1>6. Fresh'
  <2> SUFFICES ASSUME ~ Partial, ~ caught \/ (max = 0 /\ request'.since = 0)
               PROVE  socket' = "subscribed"
    BY <1>1, <1>2 DEF Fresh
  <2>1. ~ caught
    BY <1>1, <1>4 DEF GAP
  <2>2. socket = "subscribed"
    BY <1>5, <2>1 DEF Fresh
  <2> QED BY <2>2
<1>7. Covered'
  BY <1>3, <1>5 DEF Covered
<1>8. Topped'
  <2> SUFFICES ASSUME ~ Partial, NEW s \in feed, s > Head(items), Missed(s)
               PROVE  Coming(s)' \/ Missed(s)'
    BY <1>2, <1>3, <1>5 DEF Topped
  <2>1. CASE max = 0
    BY <1>1, <1>4, <2>1 DEF Coming, Missed, GAP
  <2>2. CASE max # 0
    BY <1>1, <2>2 DEF Missed
  <2> QED BY <2>1, <2>2
<1>9. Behind'
  BY <1>1 DEF Behind
<1> QED BY <1>6, <1>7, <1>8, <1>9

LEMMA WholePublish ==
  ASSUME Sound, Sound', Whole, NEW s \in Ids, Publish(s)
  PROVE  Whole'
<1>1. /\ TypeOK /\ s \notin Posted /\ s \in Nat /\ feed' = feed \cup {s}
      /\ UNCHANGED <<removed, items, request, socket, opened, polling, caught>>
      /\ wire' = (IF socket = "subscribed" THEN Append(wire, [event |-> "update", id |-> s]) ELSE wire)
      /\ holed' = (holed \/ ~ Announced)
      /\ overtaken' = (overtaken \/ \E t \in Posted : t > s)
  BY IdIs DEF Sound, Publish
<1>2. Posted' = Posted \cup {s} /\ Shown' = Shown /\ Partial' = Partial /\ isLoading' = isLoading
  BY <1>1 DEF Posted, Shown, Partial, isLoading
<1>3. wire \in Seq(Events) /\ Len(wire) \in Nat /\ DOMAIN wire = 1..Len(wire)
  BY <1>1, WireIs
<1> DEFINE e == [event |-> "update", id |-> s]
<1>4. e \in Events /\ e.event = "update" /\ e.id = s
  BY DEF Events
<1> HIDE DEF e
<1>5. /\ DOMAIN Append(wire, e) = 1..(Len(wire) + 1)
      /\ \A i \in 1..Len(wire) : Append(wire, e)[i] = wire[i]
      /\ Append(wire, e)[Len(wire) + 1] = e
  BY <1>3, <1>4, AppendProperties
<1>6. wire' = IF socket = "subscribed" THEN Append(wire, e) ELSE wire
  BY <1>1 DEF e
<1>7. \A t : OnWire(t) => OnWire(t)'
  BY <1>3, <1>5, <1>6 DEF OnWire
<1>8. socket = "subscribed" => OnWire(s)'
  <2>1. Len(wire) + 1 \in 1..(Len(wire) + 1)
    BY <1>3
  <2> QED BY <1>4, <1>5, <1>6, <2>1 DEF OnWire
<1>9. \A t : /\ Regrouped(t) => Regrouped(t)'
             /\ Coming(t)' <=> Coming(t)
             /\ Missed(t)' <=> Missed(t)
  BY <1>1, <1>2 DEF Regrouped, Coming, Missed, InPage
<1>10. NotYetOn'
  BY <1>1, <1>2 DEF Whole, NotYetOn
<1> SUFFICES ASSUME ~ holed', ~ overtaken' PROVE Fresh' /\ Covered' /\ Topped' /\ Behind'
  BY <1>10 DEF Whole
<1>11. Fresh /\ Covered /\ Topped /\ Behind /\ ~ overtaken /\ Announced
  BY <1>1 DEF Whole
<1>12. \A t \in Posted : t < s
  <2>1. \A t \in Posted : t \in Nat /\ t # s /\ ~ (t > s)
    BY <1>1, PostedAre
  <2> QED BY <1>1, <2>1
<1>13. \A t \in Shown : t < s
  BY <1>12 DEF Sound, ServerSound
<1>14. isLoading => (request.since = 0 \/ request.since < s) /\ request.since \in Nat
  BY <1>1, <1>12, RequestIs DEF Sound, PageSound
<1>15. request.at = "answered" /\ request.page # <<>> => request.page[1] < s /\ request.page[1] \in Nat
  BY <1>1, <1>12, PageOfIs DEF Sound, PageSound
<1>16. request.at \in {"asked", "answered"} <=> isLoading
  BY <1>1, RequestIs
<1>17. Fresh'
  BY <1>1, <1>2, <1>11 DEF Fresh
<1>18. Covered'
  <2> SUFFICES ASSUME NEW i \in 1..(Len(items) - 1), items[i] # GAP, items[i + 1] # GAP,
                      NEW t \in feed', items[i] > t, t > items[i + 1]
               PROVE  Regrouped(t) \/ Coming(t)
    BY <1>1, <1>9 DEF Covered
  <2>1. i \in 1..Len(items)
    BY <1>1, ItemsAre
  <2>2. items[i] \in Shown /\ items[i] \in Nat
    BY <1>1, <2>1, ItemsAre, ShownIs
  <2>3. t # s
    <3>1. items[i] < s
      BY <1>13, <2>2
    <3> QED BY <1>1, <2>2, <3>1
  <2> QED BY <1>1, <1>11, <2>3 DEF Covered
<1>19. Topped'
  <2> SUFFICES ASSUME ~ Partial
               PROVE  OnWire(s)' \/ Coming(s) \/ Missed(s)
    BY <1>1, <1>2, <1>7, <1>9, <1>11 DEF Topped
  <2>1. CASE socket = "subscribed"
    BY <1>8, <2>1
  <2>2. CASE socket # "subscribed"
    <3>1. caught /\ ~ (request.at = "asked" /\ request.max = 0 /\ request.since = 0)
      BY <1>11, <2>2 DEF Fresh
    <3>2. CASE request.at = "asked" /\ request.max = 0
      <4>1. isLoading /\ request.since # 0 /\ s > request.since
        BY <1>1, <1>14, <1>16, <3>1, <3>2
      <4> QED BY <3>1, <3>2, <4>1 DEF Coming
    <3>3. CASE socket = "closed" /\ opened /\ ~ (request.at = "asked" /\ request.max = 0)
      <4>1. request.at = "answered" /\ request.page # <<>> => ~ (s <= request.page[1])
        BY <1>1, <1>15
      <4> QED BY <1>16, <3>1, <3>3, <4>1 DEF Missed
    <3> QED BY <1>11, <2>2, <3>2, <3>3 DEF Announced
  <2> QED BY <2>1, <2>2
<1>20. Behind'
  <2> SUFFICES ASSUME request.at = "answered", request.max = 0, request.page # <<>>
               PROVE  OnWire(s)' \/ (socket = "closed" /\ opened)
    BY <1>1, <1>2, <1>7, <1>9, <1>11, <1>13 DEF Behind
  <2> QED BY <1>8, <1>11, <1>16 DEF Announced
<1> QED BY <1>17, <1>18, <1>19, <1>20

LEMMA WholeShow ==
  ASSUME TypeOK, Whole, Show
  PROVE  Whole'
<1> DEFINE p == Page(request.since, request.max)
           all == InRange(request.since, request.max)
           r == [at |-> "answered", since |-> request.since, max |-> request.max, page |-> p]
<1>1. request.at = "asked" /\ request' = r
      /\ UNCHANGED <<feed, removed, items, wire, socket, opened, polling, caught, overtaken>>
  BY DEF Show, server, stream
<1>2. r.at = "answered" /\ r.since = request.since /\ r.max = request.max /\ r.page = p
      /\ r # None
  <2>1. r.at = "answered" /\ r.since = request.since /\ r.max = request.max /\ r.page = p
    OBVIOUS
  <2> HIDE DEF r
  <2> QED BY <2>1 DEF None
<1> HIDE DEF r
<1>3. request'.at = "answered" /\ request'.since = request.since /\ request'.max = request.max
      /\ request'.page = p /\ isLoading' /\ isLoading
  BY <1>1, <1>2, RequestIs DEF isLoading
<1>4. holed' = (holed \/ (request.since # 0 /\ caught /\ Cardinality(all) > LIMIT))
  BY DEF Show
<1>5. request.since \in Nat /\ request.max \in Nat
  BY <1>3, RequestIs
<1>6. /\ p \in Seq(Ids)
      /\ \A k \in 1..Len(p) : p[k] \in all
      /\ \A j, k \in 1..Len(p) : j < k => p[j] > p[k]
      /\ \A s \in all : \/ \E k \in 1..Len(p) : s = p[k]
                        \/ /\ p # <<>> /\ s < p[Len(p)]
                           /\ Cardinality(all) > LIMIT
  BY <1>5, PageIs DEF TypeOK
<1>7. Shown' = Shown /\ Partial' = Partial /\ Posted' = Posted
  BY <1>1 DEF Shown, Partial, Posted
<1>8. \A s : (Regrouped(s)' <=> Regrouped(s)) /\ (OnWire(s)' <=> OnWire(s)) /\ (Missed(s) => Missed(s)')
  BY <1>1, <1>3, <1>7 DEF Regrouped, OnWire, Missed
<1>9. NotYetOn'
  BY <1>1, <1>3 DEF Whole, NotYetOn
<1> SUFFICES ASSUME ~ holed', ~ overtaken' PROVE Fresh' /\ Covered' /\ Topped' /\ Behind'
  BY <1>9 DEF Whole
<1>10. Fresh /\ Covered /\ Topped
  BY <1>1, <1>4 DEF Whole
<1>11. DOMAIN p = 1..Len(p)
  BY <1>6
<1>12. \A s \in feed : request.max = 0 /\ s > request.since => s \in all
  BY DEF InRange
<1> HIDE DEF p, all
<1>13. \A s \in feed : Coming(s) => Coming(s)'
  <2> SUFFICES ASSUME NEW s \in feed, Coming(s) PROVE Coming(s)'
    OBVIOUS
  <2>1. request.max = 0 /\ request.since # 0 /\ caught /\ s > request.since
    BY <1>1 DEF Coming
  <2>2. s \in all /\ ~ (Cardinality(all) > LIMIT)
    BY <1>4, <1>12, <2>1
  <2>3. \E k \in 1..Len(p) : s = p[k]
    BY <1>6, <2>2
  <2>4. InPage(s)'
    BY <1>3, <1>11, <2>3 DEF InPage
  <2> QED BY <1>3, <2>1, <2>4 DEF Coming
<1>14. Fresh' /\ Covered' /\ Topped'
  BY <1>1, <1>3, <1>7, <1>8, <1>10, <1>13 DEF Fresh, Covered, Topped
<1>15. Behind'
  <2> SUFFICES ASSUME request.max = 0, p # <<>>, NEW s \in feed, s > p[1] PROVE FALSE
    BY <1>1, <1>3 DEF Behind
  <2>1. Len(p) \in Nat /\ 1 \in 1..Len(p) /\ Len(p) \in 1..Len(p)
    BY <1>6
  <2>2. \A k \in 1..Len(p) : p[k] \in Nat /\ p[k] > 0 /\ p[k] <= p[1]
    <3> TAKE k \in 1..Len(p)
    <3>1. \A l \in 1..Len(p) : p[l] \in Nat /\ p[l] > 0
      BY <1>6, IdIs
    <3>2. k # 1 => p[1] > p[k]
      BY <1>6, <2>1
    <3> QED BY <2>1, <3>1, <3>2
  <2>3. s \in Nat
    BY IdIs DEF TypeOK
  <2>4. p[1] > request.since
    BY <1>6, <2>1 DEF all, InRange
  <2>5. s \in all
    BY <1>5, <1>12, <2>1, <2>2, <2>3, <2>4
  <2>6. ASSUME NEW k \in 1..Len(p), s = p[k] PROVE FALSE
    BY <2>1, <2>2, <2>3, <2>6
  <2>7. ASSUME s < p[Len(p)] PROVE FALSE
    BY <2>1, <2>2, <2>3, <2>7
  <2> QED BY <1>6, <2>5, <2>6, <2>7
<1> QED BY <1>14, <1>15

LEMMA WholeFail ==
  ASSUME TypeOK, Whole, ExpandFail
  PROVE  Whole'
<1>1. isLoading /\ request' = None /\ request'.at = "none" /\ ~ isLoading'
      /\ UNCHANGED <<feed, removed, items, wire, socket, opened, polling, caught, overtaken>>
      /\ holed' = (holed \/ (request.max = 0 /\ opened /\ (request.since # 0 \/ ~ Partial)))
  BY DEF ExpandFail, server, stream, None, isLoading
<1>2. Shown' = Shown /\ Partial' = Partial /\ Posted' = Posted
  BY <1>1 DEF Shown, Partial, Posted
<1>3. \A s : (Regrouped(s)' <=> Regrouped(s)) /\ (OnWire(s)' <=> OnWire(s)) /\ (Missed(s) => Missed(s)')
  BY <1>1, <1>2 DEF Regrouped, OnWire, Missed
<1>4. NotYetOn'
  BY <1>1 DEF Whole, NotYetOn
<1> SUFFICES ASSUME ~ holed', ~ overtaken' PROVE Fresh' /\ Covered' /\ Topped' /\ Behind'
  BY <1>4 DEF Whole
<1>5. Fresh /\ Covered /\ Topped
  BY <1>1 DEF Whole
<1>6. items # <<>> => \A s : ~ Coming(s)
  BY <1>1 DEF Coming, Whole, NotYetOn
<1>7. Fresh'
  BY <1>1, <1>2, <1>5 DEF Fresh
<1>8. Covered'
  <2>1. 1..(Len(items) - 1) # {} => items # <<>>
    OBVIOUS
  <2>2. ASSUME NEW i \in 1..(Len(items) - 1) PROVE items # <<>>
    BY <2>1
  <2> QED BY <1>1, <1>3, <1>5, <1>6, <2>2 DEF Covered
<1>9. Topped'
  <2>1. ~ Partial => items # <<>>
    BY DEF Partial
  <2> QED BY <1>1, <1>2, <1>3, <1>5, <1>6, <2>1 DEF Topped
<1>10. Behind'
  BY <1>1 DEF Behind
<1> QED BY <1>7, <1>8, <1>9, <1>10

LEMMA WholeDisconnect ==
  ASSUME TypeOK, Whole, Disconnect
  PROVE  Whole'
<1>1. /\ socket # "closed" /\ socket' = "closed" /\ wire' = <<>>
      /\ items' = (IF Partial THEN items ELSE <<GAP>> \o items)
      /\ caught' = isLoading
      /\ UNCHANGED <<feed, removed, opened, request, holed, overtaken>>
  BY DEF Disconnect, server
<1>2. opened
  BY <1>1 DEF Whole, NotYetOn
<1>3. NotYetOn'
  BY <1>1, <1>2 DEF NotYetOn
<1>4. Posted' = Posted /\ isLoading' = isLoading
  BY <1>1 DEF Posted, isLoading
<1> SUFFICES ASSUME ~ holed', ~ overtaken' PROVE Fresh' /\ Covered' /\ Topped' /\ Behind'
  BY <1>3 DEF Whole
<1>5. Covered /\ Behind
  BY <1>1 DEF Whole
<1>6. \A s : (Regrouped(s)' <=> Regrouped(s)) /\ (Coming(s) => Coming(s)')
  BY <1>1, <1>4 DEF Regrouped, Coming, InPage
<1>7. DOMAIN items = 1..Len(items) /\ Len(items) \in Nat
  BY ItemsAre
<1>8. Partial' /\ Shown' = Shown /\ Covered'
  <2>1. CASE Partial
    <3>1. items' = items
      BY <1>1, <2>1
    <3> QED BY <1>1, <1>5, <1>6, <2>1, <3>1 DEF Partial, Shown, Covered
  <2>2. CASE ~ Partial
    <3>1. /\ Len(items') = Len(items) + 1 /\ DOMAIN items' = 1..(Len(items) + 1) /\ items'[1] = GAP
          /\ \A i \in 1..Len(items) : items'[i + 1] = items[i]
      BY <1>1, <2>2, GapOnTop
    <3>2. Partial'
      <4>1. Head(items') = items'[1] \/ items' = <<>>
        <5>1. items' = <<GAP>> \o items
          BY <1>1, <2>2
        <5>2. <<GAP>> \o items \in Seq(Entries)
          <6>1. <<GAP>> \in Seq(Entries)
            BY DEF Entries
          <6> QED BY <6>1, ItemsAre, ConcatProperties
        <5>3. items' \in Seq(Entries)
          BY <5>1, <5>2
        <5> QED BY <5>3
      <4> QED BY <3>1, <4>1 DEF Partial
    <3>3. \A i \in DOMAIN items' : i # 1 => i - 1 \in 1..Len(items) /\ items'[i] = items[i - 1]
      <4> TAKE i \in DOMAIN items'
      <4>1. i # 1 => i - 1 \in 1..Len(items) /\ (i - 1) + 1 = i
        BY <1>7, <3>1
      <4> QED BY <3>1, <4>1
    <3>4. Shown' = Shown
      <4>1. \A s \in Shown' : s \in Shown
        BY <1>7, <3>1, <3>3 DEF Shown
      <4>2. \A s \in Shown : s \in Shown'
        <5> TAKE s \in Shown
        <5>1. PICK i \in 1..Len(items) : items[i] = s /\ s # GAP
          BY <1>7 DEF Shown
        <5>2. i + 1 \in DOMAIN items'
          BY <1>7, <3>1
        <5> QED BY <3>1, <5>1, <5>2 DEF Shown
      <4> QED BY <4>1, <4>2
    <3>5. Covered'
      <4> SUFFICES ASSUME NEW i \in 1..(Len(items') - 1), items'[i] # GAP, items'[i + 1] # GAP,
                          NEW s \in feed, items'[i] > s, s > items'[i + 1]
                   PROVE  Regrouped(s) \/ Coming(s)
        BY <1>1, <1>6 DEF Covered
      <4>1. i # 1 /\ i \in DOMAIN items' /\ i + 1 \in DOMAIN items' /\ i + 1 # 1
        BY <1>7, <3>1
      <4>2. items'[i] = items[i - 1] /\ items'[i + 1] = items[(i + 1) - 1]
        BY <3>3, <4>1
      <4>3. i - 1 \in 1..(Len(items) - 1) /\ (i + 1) - 1 = (i - 1) + 1
        BY <1>7, <3>1, <4>1
      <4> QED BY <1>5, <4>2, <4>3 DEF Covered
    <3> QED BY <3>2, <3>4, <3>5
  <2> QED BY <2>1, <2>2
<1>9. Fresh' /\ Topped'
  BY <1>8 DEF Fresh, Topped
<1>10. Behind'
  BY <1>1, <1>2, <1>5, <1>6, <1>8 DEF Behind
<1> QED BY <1>8, <1>9, <1>10

\* What stood between two neighbours, or above the first, was taken out
LEMMA Neighbours ==
  ASSUME NEW c \in Nat, NEW m \in Nat, NEW f \in [1..c -> 1..m], NEW S, NEW list,
         \A j, k \in 1..c : j < k => f[j] < f[k],
         \A i \in 1..m : list[i] \notin S => \E k \in 1..c : f[k] = i
  PROVE  /\ \A k \in 1..(c - 1) : \A i \in 1..m : f[k] < i /\ i < f[k + 1] => list[i] \in S
         /\ c > 0 => \A i \in 1..m : i < f[1] => list[i] \in S
<1>1. \A k \in 1..c : f[k] \in Nat
  OBVIOUS
<1>2. ASSUME NEW k \in 1..(c - 1), NEW i \in 1..m, f[k] < i, i < f[k + 1], list[i] \notin S
      PROVE  FALSE
  <2>1. PICK l \in 1..c : f[l] = i
    BY <1>2
  <2>2. k \in 1..c /\ k + 1 \in 1..c
    OBVIOUS
  <2>3. l # k /\ l # k + 1
    BY <1>1, <1>2, <2>1, <2>2
  <2>4. ~ (l < k)
    BY <1>1, <1>2, <2>1, <2>2
  <2>5. ~ (k + 1 < l)
    BY <1>1, <1>2, <2>1, <2>2
  <2> QED BY <2>2, <2>3, <2>4, <2>5
<1>3. ASSUME c > 0, NEW i \in 1..m, i < f[1], list[i] \notin S
      PROVE  FALSE
  <2>1. PICK l \in 1..c : f[l] = i
    BY <1>3
  <2>2. 1 \in 1..c
    BY <1>3
  <2>3. l # 1 /\ ~ (1 < l)
    BY <1>1, <1>3, <2>1, <2>2
  <2> QED BY <2>3
<1> QED BY <1>2, <1>3

LEMMA WholeDelete ==
  ASSUME Sound, TypeOK', Whole, TimelineDelete
  PROVE  Whole'
<1> DEFINE x == Head(wire).id
           S == ReblogsToo(x)
           c == Len(items')
           m == Len(items)
<1>1. /\ TypeOK /\ wire # <<>> /\ wire' = Tail(wire) /\ Head(wire).event = "delete"
      /\ UNCHANGED <<feed, removed, socket, opened, request, overtaken, holed, caught>>
  BY DEF Sound, TimelineDelete, server, past
<1>2. Posted' = Posted /\ isLoading' = isLoading
  BY <1>1 DEF Posted, isLoading
<1>3. Head(wire) = wire[1] /\ 1 \in DOMAIN wire
  BY <1>1, TailIs
<1>4. \A t : OnWire(t) => OnWire(t)'
  BY <1>1, SoundTail
<1>5. x \in Ids /\ x \in removed /\ x # 0
  BY <1>1, <1>3, WireIs, IdIs DEF Sound, WireSound, GAP
<1>6. GAP \notin S
  BY <1>5, IdIs DEF ReblogsToo
<1>7. \A t \in feed : t \notin S
  BY <1>5 DEF Sound, ServerSound, ReblogsToo
<1>8. PICK f : Left(S, f)
  BY <1>1, Leaving
<1> HIDE DEF S, x
<1>9. \A t : t \in Shown' <=> t \in Shown /\ t \notin S
  BY <1>1, <1>6, <1>8, LeftIs
<1>10. /\ c \in Nat /\ m \in Nat /\ f \in [1..c -> 1..m]
       /\ \A k \in 1..c : items'[k] = items[f[k]]
       /\ \A j, k \in 1..c : j < k => f[j] < f[k]
       /\ \A i \in 1..m : items[i] \notin S => \E k \in 1..c : f[k] = i
  BY <1>1, <1>8, ItemsAre DEF Left
<1>11. /\ \A k \in 1..(c - 1) : \A i \in 1..m : f[k] < i /\ i < f[k + 1] => items[i] \in S
       /\ c > 0 => \A i \in 1..m : i < f[1] => items[i] \in S
  BY <1>10, Neighbours
<1>12. NotYetOn'
  <2>1. opened
    BY <1>1 DEF Whole, NotYetOn
  <2> QED BY <1>1, <2>1 DEF NotYetOn
<1> SUFFICES ASSUME ~ holed', ~ overtaken' PROVE Fresh' /\ Covered' /\ Topped' /\ Behind'
  BY <1>12 DEF Whole
<1>13. Fresh /\ Covered /\ Topped /\ Behind
  BY <1>1 DEF Whole
<1>14. \A s : /\ Regrouped(s)' <=> Regrouped(s)
              /\ Coming(s)' <=> Coming(s)
              /\ Missed(s)' <=> Missed(s)
  BY <1>1, <1>2 DEF Regrouped, Coming, Missed, InPage
<1>15. ~ Partial' => c > 0 /\ Head(items') = items'[1] /\ items'[1] # GAP
  <2>1. items' \in Seq(Entries)
    BY DEF TypeOK, Entries
  <2> QED BY <2>1 DEF Partial
<1> HIDE DEF c
<1>16. ~ Partial' => /\ f[1] \in 1..m /\ items[f[1]] # GAP /\ Head(items') = items[f[1]]
                     /\ \A i \in 1..m : i < f[1] => items[i] \in S /\ items[i] # GAP
  <2> SUFFICES ASSUME ~ Partial'
               PROVE  /\ f[1] \in 1..m /\ items[f[1]] # GAP /\ Head(items') = items[f[1]]
                      /\ \A i \in 1..m : i < f[1] => items[i] \in S /\ items[i] # GAP
    OBVIOUS
  <2>1. 1 \in 1..c
    BY <1>10, <1>15
  <2> QED BY <1>6, <1>10, <1>11, <1>15, <2>1
<1>17. ~ Partial' => ~ Partial
  <2> SUFFICES ASSUME ~ Partial', Partial PROVE FALSE
    OBVIOUS
  <2>1. 1 \in 1..m /\ f[1] \in Nat /\ f[1] >= 1
    BY <1>10, <1>16
  <2>2. items # <<>> /\ items[1] = GAP
    BY <1>1, <2>1, HeadIs
  <2>3. CASE f[1] = 1
    BY <1>16, <2>2, <2>3
  <2>4. CASE 1 < f[1]
    BY <1>16, <2>1, <2>2, <2>4
  <2> QED BY <2>1, <2>3, <2>4
<1>18. Fresh'
  BY <1>1, <1>13, <1>17 DEF Fresh
<1>19. Covered'
  <2> SUFFICES ASSUME NEW k \in 1..(c - 1), items'[k] # GAP, items'[k + 1] # GAP,
                      NEW s \in feed, items'[k] > s, s > items'[k + 1]
               PROVE  Regrouped(s) \/ Coming(s)
    BY <1>1, <1>14 DEF Covered, c
  <2>1. k \in 1..c /\ k + 1 \in 1..c /\ k < k + 1
    BY <1>10
  <2>2. f[k] \in 1..m /\ f[k + 1] \in 1..m /\ f[k] < f[k + 1]
        /\ items'[k] = items[f[k]] /\ items'[k + 1] = items[f[k + 1]]
    BY <1>10, <2>1
  <2>3. ASSUME NEW i \in f[k]..f[k + 1] PROVE items[i] # GAP /\ items[i] # s
    <3>1. i \in 1..m
      BY <1>10, <2>2
    <3>2. CASE i = f[k]
      <4>1. items[f[k]] \in Nat /\ s \in Nat
        BY <1>1, <2>2, ItemsAre, IdIs DEF TypeOK
      <4> QED BY <2>2, <3>2, <4>1
    <3>3. CASE i = f[k + 1]
      <4>1. items[f[k + 1]] \in Nat /\ s \in Nat
        BY <1>1, <2>2, ItemsAre, IdIs DEF TypeOK
      <4> QED BY <2>2, <3>3, <4>1
    <3>4. CASE f[k] < i /\ i < f[k + 1]
      <4>1. items[i] \in S
        BY <1>11, <3>1, <3>4
      <4> QED BY <1>6, <1>7, <4>1
    <3> QED BY <2>2, <3>1, <3>2, <3>3, <3>4
  <2> QED BY <1>1, <1>13, <2>2, <2>3, Chain
<1>20. Topped'
  <2> SUFFICES ASSUME ~ Partial', NEW s \in feed, s > Head(items')
               PROVE  Regrouped(s) \/ OnWire(s) \/ Coming(s) \/ Missed(s)
    BY <1>1, <1>4, <1>14 DEF Topped
  <2>1. ~ Partial /\ Head(items) = items[1] /\ 1 \in 1..m /\ f[1] \in 1..m /\ s > items[f[1]]
    BY <1>1, <1>16, <1>17, HeadIs
  <2>2. s \in Nat /\ items[1] \in Nat /\ items[f[1]] \in Nat
    BY <1>1, <2>1, ItemsAre, IdIs DEF TypeOK
  <2>3. CASE s > items[1]
    BY <1>13, <2>1, <2>3 DEF Topped
  <2>4. CASE ~ (s > items[1])
    <3>1. 1 < f[1]
      BY <2>1, <2>2, <2>4
    <3>2. ASSUME NEW i \in 1..f[1] PROVE items[i] # GAP /\ items[i] # s
      <4>1. i \in 1..m
        BY <2>1
      <4>2. CASE i = f[1]
        BY <1>16, <2>1, <2>2, <4>2
      <4>3. CASE i < f[1]
        BY <1>6, <1>7, <1>16, <4>1, <4>3
      <4> QED BY <2>1, <4>1, <4>2, <4>3
    <3>3. items[1] > s
      <4>1. items[1] # s
        BY <2>1, <3>2
      <4> QED BY <2>2, <2>4, <4>1
    <3> QED BY <1>1, <1>13, <2>1, <3>1, <3>2, <3>3, Chain
  <2> QED BY <2>3, <2>4
<1>21. Behind'
  BY <1>1, <1>4, <1>7, <1>9, <1>13, <1>14 DEF Behind
<1> QED BY <1>18, <1>19, <1>20, <1>21

LEMMA WholeUpdate ==
  ASSUME Sound, Sound', Whole, TimelineUpdate
  PROVE  Whole'
<1> DEFINE u == Head(wire).id
           S == Alike(u)
           c == Len(items') - 1
<1>1. /\ TypeOK /\ TypeOK' /\ wire # <<>> /\ wire' = Tail(wire) /\ Head(wire).event = "update"
      /\ UNCHANGED <<feed, removed, socket, opened, request, overtaken, caught>>
      /\ holed => holed'
  BY DEF Sound, TimelineUpdate, server
<1>2. Posted' = Posted /\ isLoading' = isLoading
  BY <1>1 DEF Posted, isLoading
<1>3. Head(wire) = wire[1] /\ 1 \in DOMAIN wire /\ DOMAIN wire \subseteq Nat
  BY <1>1, TailIs
<1>4. \A t : OnWire(t) => OnWire(t)' \/ t = u
  BY <1>1, SoundTail
<1>5. u \in Ids /\ u \in Nat /\ u \in Posted /\ u # GAP
  BY <1>1, <1>3, WireIs, IdIs DEF Sound, WireSound
<1>6. socket = "subscribed"
  BY <1>1 DEF Sound, WireSound
<1>7. NotYetOn'
  <2>1. opened
    BY <1>1 DEF Whole, NotYetOn
  <2> QED BY <1>1, <2>1 DEF NotYetOn
<1> SUFFICES ASSUME ~ holed', ~ overtaken' PROVE Fresh' /\ Covered' /\ Topped' /\ Behind'
  BY <1>7 DEF Whole
<1>8. Covered /\ Topped /\ Behind /\ ~ overtaken
  BY <1>1 DEF Whole
<1>9. Fresh'
  BY <1>1, <1>6 DEF Fresh
<1>10. \A s : /\ Regrouped(s)' <=> Regrouped(s)
              /\ Coming(s)' <=> Coming(s)
              /\ ~ Missed(s)
  BY <1>1, <1>2, <1>6 DEF Regrouped, Coming, Missed, InPage
<1>11. \A s \in feed : s \in Nat
  BY <1>1, IdIs DEF TypeOK
<1>12. \A s \in feed : s > u => OnWire(s)
  BY <1>1, <1>3, <1>8 DEF Sound, WireOrdered
<1>13. \A s \in feed : OnWire(s) => s = u \/ s > u
  <2> TAKE s \in feed
  <2> HAVE OnWire(s)
  <2>1. PICK i \in DOMAIN wire : wire[i].event = "update" /\ wire[i].id = s
    BY DEF OnWire
  <2>2. CASE i = 1
    BY <1>3, <2>1, <2>2
  <2>3. CASE i # 1
    <3>1. 1 < i
      <4>1. DOMAIN wire = 1..Len(wire) /\ Len(wire) \in Nat
        BY <1>1, WireIs
      <4> QED BY <2>3, <4>1
    <3>2. wire[1].id < wire[i].id
      BY <1>1, <1>3, <1>8, <2>1, <3>1 DEF Sound, WireOrdered
    <3> QED BY <1>3, <1>5, <1>11, <2>1, <3>2
  <2> QED BY <2>2, <2>3
<1>14. CASE \E i \in DOMAIN items : items[i] = u
  <2>1. items' = items
    BY <1>14 DEF TimelineUpdate
  <2>2. Shown' = Shown /\ Partial' = Partial
    BY <2>1 DEF Shown, Partial
  <2>3. u \in Shown
    BY <1>5, <1>14 DEF Shown
  <2>4. ~ Partial => Head(items) \in Nat /\ u <= Head(items)
    <3> SUFFICES ASSUME ~ Partial PROVE Head(items) \in Nat /\ u <= Head(items)
      OBVIOUS
    <3>1. 1 \in 1..Len(items) /\ Head(items) = items[1] /\ items[1] # GAP /\ items[1] \in Nat
      BY <1>1, HeadIs, ItemsAre
    <3>2. PICK i \in 1..Len(items) : items[i] = u
      BY <1>1, <1>14, ItemsAre
    <3>3. i # 1 => items[1] > items[i]
      <4>1. i # 1 => 1 < i
        OBVIOUS
      <4> QED BY <1>1, <1>5, <1>8, <3>1, <3>2, <4>1, SortedIs DEF Sound
    <3> QED BY <1>5, <3>1, <3>2, <3>3
  <2>5. Covered'
    BY <1>1, <1>8, <1>10, <2>1 DEF Covered
  <2>6. Topped'
    <3> SUFFICES ASSUME ~ Partial, NEW s \in feed, s > Head(items)
                 PROVE  Regrouped(s) \/ OnWire(s)' \/ Coming(s)
      BY <1>1, <1>10, <2>1, <2>2 DEF Topped
    <3>1. s # u
      BY <1>5, <2>4
    <3> QED BY <1>4, <1>8, <1>10, <3>1 DEF Topped
  <2>7. Behind'
    BY <1>1, <1>4, <1>8, <1>10, <2>2, <2>3 DEF Behind
  <2> QED BY <1>9, <2>5, <2>6, <2>7
<1>15. CASE \A i \in DOMAIN items : items[i] # u
  <2>1. PICK m, f :
          /\ Inserted(u, m, S, f)
          /\ m = Len(items) \/ holed' \/ request.at # "answered"
    BY <1>1, <1>15, Inserting
  <2>2. Len(items) \in Nat /\ m \in Nat /\ m <= Len(items) /\ (items # <<>> => m > 0)
    <3>1. Len(items) \in Nat
      BY <1>1, ItemsAre
    <3>2. m \in 0..Len(items) /\ (items # <<>> => m > 0)
      <4> HIDE DEF u, S, c
      <4> QED BY <2>1 DEF Inserted
    <3> QED BY <3>1, <3>2
  <2>3. /\ c \in Nat /\ Len(items') = c + 1 /\ items'[1] = u
        /\ f \in [1..c -> 1..m]
        /\ \A k \in 1..c : items'[k + 1] = items[f[k]]
        /\ \A j, k \in 1..c : j < k => f[j] < f[k]
        /\ \A i \in 1..m : items[i] \notin S => \E k \in 1..c : f[k] = i
    BY <2>1 DEF Inserted
  <2>4. DOMAIN items' = 1..(c + 1)
    BY <1>1, <2>3 DEF TypeOK
  <2>5. Head(items') = u /\ ~ Partial'
    <3>1. items' \in Seq(Entries) /\ items' # <<>>
      BY <1>1, <2>3 DEF TypeOK, Entries
    <3>2. Head(items') = items'[1]
      BY <3>1
    <3> QED BY <1>5, <2>3, <3>1, <3>2 DEF Partial
  <2> HIDE DEF c
  <2>6. /\ \A k \in 1..(c - 1) : \A i \in 1..m : f[k] < i /\ i < f[k + 1] => items[i] \in S
        /\ c > 0 => \A i \in 1..m : i < f[1] => items[i] \in S
    BY <2>2, <2>3, Neighbours
  <2>7. \A t \in Shown : t < u /\ t \in Nat
    <3>1. u \notin Shown
      BY <1>15 DEF Shown
    <3> QED BY <1>1, <1>3, <1>8, <3>1, ShownIs DEF Sound, WireOrdered
  <2>8. \A i \in 1..Len(items) : items[i] # GAP => items[i] \in Shown
    BY <1>1, ShownIs
  <2>9. GAP \notin S
    BY IdIs DEF Alike
  <2>10. \A t \in S : t < u => Regrouped(t)
    <3> SUFFICES ASSUME NEW t \in S, t < u PROVE Regrouped(t)
      OBVIOUS
    <3>1. t \in Ids /\ SameText(u, t)
      BY DEF Alike
    <3>2. SameText(t, u) /\ u > t
      <4>1. t \in Nat
        BY <3>1, IdIs
      <4> QED BY <1>5, <3>1, <4>1 DEF SameText
    <3> QED BY <1>5, <3>2 DEF Regrouped
  <2> HIDE DEF S
  \* what stands nowhere in a stretch without gaps
  <2>11. ASSUME NEW i \in 1..Len(items), NEW j \in 1..Len(items), i < j,
                items[i] # GAP, items[j] # GAP,
                \A k \in 1..Len(items) : i < k /\ k < j => items[k] \in S,
                NEW s \in feed, items[i] > s, s > items[j]
         PROVE  Regrouped(s) \/ Coming(s)
    <3>1. s \in Nat /\ items[i] \in Nat /\ items[j] \in Nat /\ items[i] < u
      BY <1>1, <1>11, <2>7, <2>8, <2>11, ItemsAre
    <3>2. s < u
      BY <1>5, <2>11, <3>1
    <3>3. CASE s \in S
      BY <2>10, <3>2, <3>3
    <3>4. CASE s \notin S
      <4>1. ASSUME NEW k \in i..j PROVE items[k] # GAP /\ items[k] # s
        <5>1. k \in 1..Len(items)
          BY <2>2
        <5>2. CASE k = i
          BY <2>11, <3>1, <5>2
        <5>3. CASE k = j
          BY <2>11, <3>1, <5>3
        <5>4. CASE i < k /\ k < j
          BY <2>9, <2>11, <3>4, <5>1, <5>4
        <5> QED BY <5>1, <5>2, <5>3, <5>4
      <4> QED BY <1>1, <1>8, <2>11, <4>1, Chain
    <3> QED BY <3>3, <3>4
  <2>12. Covered'
    <3> SUFFICES ASSUME NEW k \in 1..c, items'[k] # GAP, items'[k + 1] # GAP,
                        NEW s \in feed, items'[k] > s, s > items'[k + 1]
                 PROVE  Regrouped(s) \/ Coming(s)
      <4>1. Len(items') - 1 = c
        BY <2>3
      <4> QED BY <1>1, <1>10, <4>1 DEF Covered
    <3>1. f[k] \in 1..m /\ items'[k + 1] = items[f[k]] /\ f[k] \in 1..Len(items) /\ s > items[f[k]]
          /\ items[f[k]] # GAP
      BY <2>2, <2>3
    <3>2. s \in Nat /\ items[f[k]] \in Nat
      BY <1>1, <1>11, <3>1, ItemsAre
    <3>3. CASE k > 1
      <4>1. k - 1 \in 1..c /\ k - 1 \in 1..(c - 1) /\ (k - 1) + 1 = k /\ k - 1 < k
        BY <2>3, <3>3
      <4>2. items'[k] = items[f[k - 1]] /\ f[k - 1] \in 1..m /\ f[k - 1] < f[k] /\ f[k - 1] \in 1..Len(items)
        BY <2>2, <2>3, <4>1
      <4>3. \A i \in 1..Len(items) : f[k - 1] < i /\ i < f[k] => items[i] \in S
        <5> TAKE i \in 1..Len(items)
        <5> HAVE f[k - 1] < i /\ i < f[k]
        <5>1. i \in 1..m
          BY <2>2, <3>1
        <5> QED BY <2>6, <4>1, <5>1
      <4> QED BY <2>11, <3>1, <4>2, <4>3
    <3>4. CASE k = 1
      <4>1. s < u /\ ~ OnWire(s)
        <5>1. s < u
          BY <1>5, <2>3, <3>2, <3>4
        <5> QED BY <1>5, <1>13, <3>2, <5>1
      <4>2. 1 \in 1..m /\ 1 \in 1..Len(items) /\ items # <<>> /\ f[1] \in Nat /\ c > 0
        BY <2>2, <2>3, <3>1, <3>4
      <4>3. items[1] # GAP
        <5>1. CASE f[1] = 1
          BY <3>1, <3>4, <5>1
        <5>2. CASE 1 < f[1]
          BY <2>6, <2>9, <4>2, <5>2
        <5> QED BY <3>1, <3>4, <4>2, <5>1, <5>2
      <4>4. ~ Partial /\ Head(items) = items[1] /\ items[1] \in Nat
        <5>1. ~ Partial
          BY <1>1, <4>2, <4>3, HeadIs
        <5> QED BY <1>1, <4>2, <5>1, HeadIs, ItemsAre
      <4>5. CASE s > items[1]
        BY <1>8, <1>10, <4>1, <4>4, <4>5 DEF Topped
      <4>6. CASE ~ (s > items[1])
        <5>1. 1 < f[1]
          BY <3>1, <3>2, <3>4, <4>2, <4>6
        <5>2. items[1] \in S
          BY <2>6, <4>2, <5>1
        <5>3. CASE s = items[1]
          BY <2>10, <4>1, <5>2, <5>3
        <5>4. CASE s # items[1]
          <6>1. items[1] > s
            BY <3>2, <4>4, <4>6, <5>4
          <6>2. \A i \in 1..Len(items) : 1 < i /\ i < f[1] => items[i] \in S
            <7> TAKE i \in 1..Len(items)
            <7> HAVE 1 < i /\ i < f[1]
            <7>1. i \in 1..m
              BY <2>2, <3>1, <3>4
            <7> QED BY <2>6, <4>2, <7>1
          <6> QED BY <2>11, <3>1, <3>4, <4>2, <4>3, <5>1, <6>1, <6>2
        <5> QED BY <5>3, <5>4
      <4> QED BY <4>5, <4>6
    <3> QED BY <2>3, <3>3, <3>4
  <2>13. Topped'
    <3> SUFFICES ASSUME NEW s \in feed, s > u PROVE OnWire(s)'
      BY <1>1, <2>5 DEF Topped
    <3>1. s # u
      BY <1>5
    <3> QED BY <1>4, <1>12, <3>1
  <2>14. Behind'
    <3> SUFFICES ASSUME request.at = "answered", request.max = 0, request.page # <<>>,
                        NEW s \in feed, s > request.page[1]
                 PROVE  \/ s \in Shown' \/ Regrouped(s)
                        \/ OnWire(s)' /\ \A t \in Shown' : t < s
      BY <1>1, <1>10 DEF Behind
    <3>1. m = Len(items)
      BY <2>1
    <3>2. u \in Shown'
      <4>1. 1 \in DOMAIN items'
        BY <2>3, <2>4
      <4> QED BY <1>5, <2>3, <4>1 DEF Shown
    <3>3. \A t \in Shown' : t = u \/ t \in Shown
      <4> TAKE t \in Shown'
      <4>1. PICK i \in DOMAIN items' : items'[i] = t /\ t # GAP
        BY DEF Shown
      <4>2. CASE i = 1
        BY <2>3, <4>1, <4>2
      <4>3. CASE i # 1
        <5>1. i - 1 \in 1..c /\ (i - 1) + 1 = i
          BY <2>3, <2>4, <4>3
        <5>2. t = items[f[i - 1]] /\ f[i - 1] \in 1..m
          BY <2>3, <4>1, <5>1
        <5>3. f[i - 1] \in 1..Len(items)
          BY <3>1, <5>2
        <5> QED BY <2>8, <4>1, <5>2, <5>3
      <4> QED BY <4>2, <4>3
    <3>4. CASE s \in Shown
      <4>1. PICK i \in 1..Len(items) : items[i] = s /\ s # GAP
        BY <1>1, <3>4, ShownIs
      <4>2. CASE s \in S
        BY <2>7, <2>10, <3>4, <4>2
      <4>3. CASE s \notin S
        <5>1. PICK k \in 1..c : f[k] = i
          BY <2>3, <3>1, <4>1, <4>3
        <5>2. k + 1 \in DOMAIN items' /\ items'[k + 1] = s
          BY <2>3, <2>4, <4>1, <5>1
        <5> QED BY <4>1, <5>2 DEF Shown
      <4> QED BY <4>2, <4>3
    <3>5. CASE OnWire(s) /\ \A t \in Shown : t < s
      <4>1. CASE s = u
        BY <3>2, <4>1
      <4>2. CASE s # u
        <5>1. u < s
          BY <1>5, <1>11, <1>13, <3>5, <4>2
        <5> QED BY <1>4, <3>3, <3>5, <4>2, <5>1
      <4> QED BY <4>1, <4>2
    <3> QED BY <1>6, <1>8, <3>4, <3>5 DEF Behind
  <2> QED BY <1>9, <2>12, <2>13, <2>14
<1> QED BY <1>14, <1>15


LEMMA WholeMerge ==
  ASSUME Sound, Sound', Whole, ExpandSuccess
  PROVE  Whole'
<1>1. /\ TypeOK /\ TypeOK' /\ request.at = "answered" /\ isLoading
      /\ items' = Merged(items, request.page) /\ request' = None
      /\ overtaken' = (overtaken \/ Overtakes(request.page))
      /\ holed' = (holed \/ (request.max # 0 /\ request.max \notin Shown))
      /\ caught' = (caught \/ request.max = 0)
      /\ UNCHANGED <<feed, removed, wire, socket, opened, polling>>
  BY RequestIs DEF Sound, ExpandSuccess, server, stream
<1>2. /\ Posted' = Posted /\ request'.at = "none" /\ ~ isLoading'
      /\ \A s : /\ OnWire(s)' <=> OnWire(s)
                /\ Regrouped(s)' <=> Regrouped(s)
                /\ ~ Coming(s)'
                /\ Missed(s)' <=> socket = "closed" /\ opened /\ caught'
                /\ Missed(s) => Missed(s)'
                /\ Coming(s) => InPage(s)
  <2>1. Posted' = Posted /\ request'.at = "none" /\ ~ isLoading'
    BY <1>1 DEF Posted, None, isLoading
  <2> QED BY <1>1, <2>1 DEF OnWire, Regrouped, Coming, Missed
<1>3. DOMAIN items' = 1..Len(items') /\ Len(items') \in Nat
  BY <1>1, ItemsAre DEF TypeOK
<1>4. \A s : s \in Shown' <=> s # GAP /\ \E i \in DOMAIN items' : items'[i] = s
  BY DEF Shown
<1>5. \A s \in feed : s \in Nat
  BY <1>1, IdIs DEF TypeOK
<1>6. ~ holed' /\ ~ overtaken' =>
        /\ ~ overtaken /\ ~ Overtakes(request.page)
        /\ request.max # 0 => request.max \in Shown
        /\ Fresh /\ Covered /\ Topped /\ Behind
  BY <1>1 DEF Whole
<1>7. Behind'
  BY <1>2 DEF Behind
<1>8. CASE request.page = <<>>
  <2>1. items' = items /\ Partial' = Partial /\ \A s : ~ InPage(s)
    BY <1>1, <1>8 DEF Merged, Partial, InPage
  <2>2. NotYetOn'
    BY <1>1, <1>2, <2>1 DEF Whole, NotYetOn
  <2> SUFFICES ASSUME ~ holed', ~ overtaken' PROVE Fresh' /\ Covered' /\ Topped'
    BY <1>7, <2>2 DEF Whole
  <2>3. Fresh'
    BY <1>1, <1>2, <1>6, <2>1 DEF Fresh
  <2>4. Covered'
    BY <1>1, <1>2, <1>6, <2>1 DEF Covered
  <2>5. Topped'
    BY <1>1, <1>2, <1>6, <2>1 DEF Topped
  <2> QED BY <2>3, <2>4, <2>5
<1>9. CASE request.page # <<>>
  <2> DEFINE p == request.page
             n == Len(p)
  <2>1. PICK first, last \in 0..Len(items) : Joined(first, last)
    BY <1>1, <1>9, Joining
  <2>2. /\ first \in Nat /\ last \in Nat /\ n \in Nat \ {0} /\ Len(items) \in Nat
        /\ first <= last /\ last <= Len(items)
        /\ \A i \in 1..first : i \in DOMAIN items' /\ items'[i] = items[i]
        /\ \A k \in 1..n : first + k \in DOMAIN items' /\ items'[first + k] = p[k]
        /\ \A i \in 1..Len(items) : i > last =>
             i - last + first + n \in DOMAIN items' /\ items'[i - last + first + n] = items[i]
        /\ \A i \in DOMAIN items' :
              \/ i \in 1..first /\ items'[i] = items[i]
              \/ i - first \in 1..n /\ items'[i] = p[i - first]
              \/ /\ i > first + n
                 /\ i - first - n + last \in 1..Len(items)
                 /\ i - first - n + last > last
                 /\ items'[i] = items[i - first - n + last]
    <3>1. TypeOK /\ request.at = "answered" /\ Joined(first, last) /\ DOMAIN items' = 1..Len(items')
      BY <1>1, <1>3, <2>1
    <3> HIDE <1>1, <1>2, <1>3, <1>4, <1>6
    <3> QED BY <3>1, JoinedPlaces, Zenon
  <2>3. /\ DOMAIN p = 1..n /\ \A k \in 1..n : p[k] \in Ids /\ p[k] \in Nat /\ p[k] > 0
        /\ \A k \in 1..n : request.max # 0 => p[k] < request.max
    BY <1>1, PageOfIs DEF Sound, PageSound
  <2>4. Len(items') = first + n + (Len(items) - last) /\ (last > 0 => items[last] >= p[n])
    BY <2>1 DEF Joined
  <2>5. \A s : InPage(s) <=> \E k \in 1..n : p[k] = s
    BY <2>3 DEF InPage
  <2>6. \A i \in 1..Len(items) : items[i] \in Nat /\ (items[i] # GAP => items[i] > 0 /\ items[i] \in Shown)
    BY <1>1, ItemsAre, ShownIs
  <2>7. NotYetOn'
    <3> SUFFICES ASSUME ~ opened, NEW i \in DOMAIN items' PROVE items'[i] # GAP
      BY <1>1, <1>2 DEF Whole, NotYetOn
    <3>1. \A j \in 1..Len(items) : items[j] # GAP
      BY <1>1, ItemsAre DEF Whole, NotYetOn
    <3>2. \A k \in 1..n : p[k] # GAP
      BY <2>3 DEF GAP
    <3>3. \A j \in 1..first : j \in 1..Len(items)
      BY <2>2
    <3> HIDE DEF p, n
    <3> QED BY <2>2, <3>1, <3>2, <3>3
  <2> SUFFICES ASSUME ~ holed', ~ overtaken' PROVE Fresh' /\ Covered' /\ Topped'
    BY <1>7, <2>7 DEF Whole
  <2>8. /\ \A k \in 1..n : p[k] <= p[1] /\ p[k] >= p[n]
        /\ \A i \in 1..first : items[i] # GAP => items[i] > p[1]
        /\ \A i \in 1..last : i > first => items[i] <= p[1]
        /\ \A i \in 1..Len(items) : i > last => items[i] < p[n]
    BY <1>1, <1>6, <2>1, JoinedOrder DEF Sound
  <2>9. \A s \in feed : s >= p[n] /\ (IF request.max = 0 THEN s <= p[1] ELSE s < request.max)
          => InPage(s)
    BY <1>1, <1>6, <1>9 DEF Sound, PageSound
  <2>10. \A s : OnWire(s) /\ s < p[1] => InPage(s)
    BY <1>6, <1>9, <2>3 DEF OnWire, Overtakes, InPage
  <2>11. request.max = 0 => \A s \in feed : s > p[1] =>
           \/ s \in Shown \/ Regrouped(s)
           \/ /\ OnWire(s) \/ (socket = "closed" /\ opened)
              /\ \A t \in Shown : t < s
    BY <1>1, <1>6, <1>9 DEF Behind
  <2>12. \A s : request.max = 0 /\ s <= p[1] => ~ Missed(s)
    BY <1>1, <1>9 DEF Missed
  <2> HIDE DEF p, n
  <2>13. /\ 1 \in 1..n /\ n \in 1..n /\ p[1] \in Nat /\ p[n] \in Nat /\ p[n] <= p[1] /\ p[1] > 0
         /\ (first + 1 \in DOMAIN items' /\ items'[first + 1] = p[1])
    <3>1. 1 \in 1..n /\ n \in 1..n
      BY <2>2
    <3> QED BY <2>2, <2>3, <2>8, <3>1
  <2>14. \A i \in 1..Len(items) : items[i] > p[1] => i \in 1..first
    <3> TAKE i \in 1..Len(items)
    <3>1. i > last => ~ (items[i] > p[1])
      BY <2>6, <2>8, <2>13
    <3>2. i \in 1..last /\ i > first => ~ (items[i] > p[1])
      BY <2>6, <2>8, <2>13
    <3> QED BY <2>2, <3>1, <3>2
  \* the status the page was to follow is still there
  <2>15. request.max # 0 => /\ first > 0 /\ first \in 1..first /\ first \in 1..Len(items)
                            /\ request.max \in Nat /\ items[first] <= request.max
    <3> SUFFICES ASSUME request.max # 0
                 PROVE  /\ first > 0 /\ first \in 1..first /\ first \in 1..Len(items)
                        /\ request.max \in Nat /\ items[first] <= request.max
      OBVIOUS
    <3>1. PICK m \in 1..Len(items) : items[m] = request.max /\ request.max # GAP
      BY <1>1, <1>6, ShownIs
    <3>2. request.max \in Nat /\ items[m] > p[1]
      BY <2>3, <2>6, <2>13, <3>1
    <3>3. m \in 1..first
      BY <2>14, <3>2
    <3>4. first > 0 /\ first \in 1..first /\ first \in 1..Len(items)
      BY <2>2, <3>3
    <3>5. items[first] > p[1] /\ items[first] \in Nat
      BY <2>1, <2>6, <3>4 DEF Joined, p
    <3>6. items[first] # GAP
      BY <2>13, <3>5 DEF GAP
    <3>7. m # first => m < first
      BY <2>2, <3>3
    <3>8. m # first => items[m] > items[first]
      BY <1>1, <1>6, <3>1, <3>4, <3>6, <3>7, SortedIs DEF Sound
    <3> QED BY <3>1, <3>2, <3>4, <3>5, <3>8
  \* what is missing between two neighbours is not in the page
  <2>16. ASSUME NEW i \in 1..(Len(items') - 1), items'[i] # GAP, items'[i + 1] # GAP,
                NEW s \in feed, items'[i] > s, s > items'[i + 1]
         PROVE  s \notin Shown' /\ ~ InPage(s) /\ ~ Coming(s)
    <3>1. i \in 1..Len(items') /\ i + 1 \in 1..Len(items') /\ i \in Nat
      BY <1>3
    <3>2. \A j \in 1..Len(items') : items'[j] \in Nat
      BY <1>1, <1>3, EntryIs DEF TypeOK, Entries
    <3>3. \A j, k \in 1..Len(items') : j < k /\ items'[j] # GAP /\ items'[k] # GAP => items'[j] > items'[k]
      BY <1>3 DEF Sound, NewestFirst
    <3>4. ASSUME NEW j \in 1..Len(items'), items'[j] = s, s # GAP PROVE FALSE
      <4>1. j \in Nat /\ s \in Nat /\ items'[i] \in Nat /\ items'[i + 1] \in Nat
        BY <1>3, <1>5, <3>1, <3>2
      <4>2. CASE j < i
        <5>1. s > items'[i]
          BY <2>16, <3>1, <3>3, <3>4, <4>2
        <5> QED BY <2>16, <4>1, <5>1
      <4>3. CASE j = i
        BY <2>16, <3>4, <4>1, <4>3
      <4>4. CASE j = i + 1
        BY <2>16, <3>4, <4>1, <4>4
      <4>5. CASE j > i + 1
        <5>1. items'[i + 1] > s
          BY <2>16, <3>1, <3>3, <3>4, <4>5
        <5> QED BY <2>16, <4>1, <5>1
      <4> QED BY <3>1, <4>1, <4>2, <4>3, <4>4, <4>5
    <3>5. s \notin Shown'
      BY <1>3, <1>4, <3>4
    <3>6. ~ InPage(s)
      <4>1. \A k \in 1..n : p[k] # GAP /\ p[k] \in Shown'
        BY <1>4, <2>2, <2>3 DEF GAP
      <4> QED BY <2>5, <3>5, <4>1
    <3> QED BY <1>2, <3>5, <3>6
  <2>17. Covered'
    <3> SUFFICES ASSUME NEW i \in 1..(Len(items') - 1), items'[i] # GAP, items'[i + 1] # GAP,
                        NEW s \in feed, items'[i] > s, s > items'[i + 1]
                 PROVE  Regrouped(s)
      BY <1>1, <1>2 DEF Covered
    <3>1. s \notin Shown' /\ ~ InPage(s) /\ ~ Coming(s) /\ s \in Nat
      BY <1>5, <2>16
    <3>2. i \in Nat /\ i > 0 /\ i + 1 \in 1..Len(items')
      BY <1>3
    <3>3. \A j \in 1..(Len(items) - 1) :
            items[j] # GAP /\ items[j + 1] # GAP /\ items[j] > s /\ s > items[j + 1] => Regrouped(s)
      BY <1>6, <3>1 DEF Covered
    <3>4. CASE i < first
      <4>1. i \in 1..first /\ i + 1 \in 1..first /\ i \in 1..(Len(items) - 1)
        BY <2>2, <3>2, <3>4
      <4>2. items'[i] = items[i] /\ items'[i + 1] = items[i + 1]
        BY <2>2, <4>1
      <4> QED BY <3>3, <4>1, <4>2
    <3>5. CASE i = first
      <4>1. items'[i] = items[first] /\ items'[i + 1] = p[1] /\ first \in 1..first /\ first \in 1..Len(items)
        BY <2>2, <2>13, <3>2, <3>5
      <4>2. s > p[1] /\ items[first] > s /\ items[first] \in Nat /\ items[first] \in Shown
        BY <2>6, <4>1
      <4>3. CASE request.max # 0
        <5>1. s >= p[n] /\ s < request.max
          BY <2>13, <2>15, <3>1, <4>2, <4>3
        <5> QED BY <2>9, <3>1, <4>3, <5>1
      <4>4. CASE request.max = 0
        <5>1. s \notin Shown
          <6>1. ASSUME s \in Shown PROVE FALSE
            <7>1. PICK j \in 1..Len(items) : items[j] = s /\ s # GAP
              BY <1>1, <6>1, ShownIs
            <7>2. j \in 1..first
              BY <2>14, <4>2, <7>1
            <7>3. s \in Shown'
              BY <1>4, <2>2, <7>1, <7>2
            <7> QED BY <3>1, <7>3
          <6> QED BY <6>1
        <5>2. ~ (\A t \in Shown : t < s)
          BY <3>1, <4>2
        <5> QED BY <2>11, <4>2, <4>4, <5>1, <5>2
      <4> QED BY <4>3, <4>4
    <3>6. CASE first < i /\ i < first + n
      <4>1. i - first \in 1..n /\ i - first + 1 \in 1..n
            /\ first + (i - first) = i /\ first + (i - first + 1) = i + 1
        BY <2>2, <3>2, <3>6
      <4>2. items'[i] = p[i - first] /\ items'[i + 1] = p[i - first + 1]
        BY <2>2, <4>1
      <4>3. p[i - first] \in Nat /\ p[i - first] <= p[1]
            /\ p[i - first + 1] \in Nat /\ p[i - first + 1] >= p[n]
        BY <2>3, <2>8, <4>1
      <4>4. s >= p[n] /\ s <= p[1]
        BY <2>13, <3>1, <4>2, <4>3
      <4>5. request.max # 0 => s < request.max
        <5>1. request.max # 0 => p[1] < request.max /\ request.max \in Nat
          BY <2>3, <2>13, <2>15
        <5> QED BY <2>13, <3>1, <4>4, <5>1
      <4> QED BY <2>9, <3>1, <4>4, <4>5
    <3>7. CASE i = first + n
      <4>1. items'[i] = p[n]
        BY <2>2, <2>13, <3>7
      <4>2. last + 1 \in 1..Len(items) /\ last + 1 > last /\ (last + 1) - last + first + n = i + 1
        BY <1>3, <2>2, <2>4, <3>2, <3>7
      <4>3. items'[i + 1] = items[last + 1]
        BY <2>2, <4>2
      <4>4. CASE last > 0
        <5>1. last \in 1..(Len(items) - 1) /\ last \in 1..Len(items)
          BY <2>2, <4>2, <4>4
        <5>2. items[last] \in Nat /\ items[last] >= p[n]
          BY <2>4, <2>6, <4>4, <5>1
        <5>3. items[last] > s /\ items[last] # GAP
          BY <2>13, <3>1, <4>1, <5>2 DEF GAP
        <5> QED BY <3>3, <4>3, <5>1, <5>3
      <4>5. CASE last = 0
        <5>1. request.max = 0
          BY <2>2, <2>15, <4>5
        <5>2. 1 \in 1..Len(items) /\ items'[i + 1] = items[1] /\ items[1] # GAP
          BY <2>2, <4>2, <4>3, <4>5
        <5>3. ~ Partial /\ Head(items) = items[1]
          BY <1>1, <2>2, <5>2, HeadIs, ItemsAre
        <5>4. s > Head(items) /\ s < p[1]
          BY <2>13, <3>1, <4>1, <5>2, <5>3
        <5>5. ~ OnWire(s) /\ ~ Missed(s)
          <6>1. s <= p[1]
            BY <2>13, <3>1, <5>4
          <6> QED BY <2>10, <2>12, <3>1, <5>1, <5>4, <6>1
        <5> QED BY <1>6, <3>1, <5>3, <5>4, <5>5 DEF Topped
      <4> QED BY <2>2, <4>4, <4>5
    <3>8. CASE i > first + n
      <4> DEFINE j == i - first - n + last
      <4>1. /\ j \in 1..(Len(items) - 1) /\ j \in 1..Len(items) /\ j + 1 \in 1..Len(items)
            /\ j > last /\ j + 1 > last
            /\ j - last + first + n = i /\ (j + 1) - last + first + n = i + 1
        BY <1>3, <2>2, <2>4, <3>2, <3>8
      <4> HIDE DEF j
      <4>2. items'[i] = items[j] /\ items'[i + 1] = items[j + 1]
        BY <2>2, <4>1
      <4> QED BY <3>3, <4>1, <4>2
    <3> QED BY <2>2, <3>2, <3>4, <3>5, <3>6, <3>7, <3>8
  <2>18. /\ first > 0 => Partial' = Partial /\ (~ Partial => Head(items') = Head(items) /\ Head(items) > p[1])
         /\ first = 0 => ~ Partial' /\ Head(items') = p[1]
    <3>1. items' # <<>> /\ Head(items') = items'[1]
      <4>1. items' \in Seq(Entries) /\ Len(items') > 0
        BY <1>1, <1>3, <2>13 DEF TypeOK, Entries
      <4> QED BY <4>1
    <3>2. Partial' <=> items'[1] = GAP
      BY <3>1 DEF Partial
    <3>3. ASSUME first > 0 PROVE 1 \in 1..first /\ 1 \in 1..Len(items) /\ items'[1] = items[1]
      <4>1. 1 \in 1..first /\ 1 \in 1..Len(items)
        BY <2>2, <3>3
      <4> QED BY <2>2, <4>1
    <3>4. ASSUME first > 0
          PROVE  /\ Partial <=> items[1] = GAP
                 /\ Head(items) = items[1]
      BY <1>1, <3>3, <3>4, HeadIs, ItemsAre DEF Partial
    <3>5. first > 0 /\ ~ Partial => items[1] > p[1]
      BY <2>8, <3>3, <3>4
    <3>6. first = 0 => items'[1] = p[1]
      BY <2>13
    <3>7. p[1] # GAP
      BY <2>13 DEF GAP
    <3>8. Partial' \in BOOLEAN /\ Partial \in BOOLEAN
      BY DEF Partial
    <3> QED BY <3>1, <3>2, <3>3, <3>4, <3>5, <3>6, <3>7, <3>8
  <2>19. Topped'
    <3> SUFFICES ASSUME ~ Partial', NEW s \in feed, s > Head(items')
                 PROVE  Regrouped(s) \/ OnWire(s) \/ Missed(s)'
      BY <1>1, <1>2 DEF Topped
    <3>1. s \in Nat
      BY <1>5
    <3>2. CASE first > 0
      <4>1. ~ Partial /\ Head(items') = Head(items) /\ Head(items) > p[1] /\ Head(items) \in Nat
        <5>1. ~ Partial /\ Head(items') = Head(items) /\ Head(items) > p[1]
          BY <2>18, <3>2
        <5> QED BY <1>1, <2>6, <5>1, HeadIs
      <4>2. ~ Coming(s)
        <5>1. \A k \in 1..n : p[k] # s
          BY <2>3, <2>8, <2>13, <3>1, <4>1
        <5> QED BY <1>2, <2>5, <5>1
      <4> QED BY <1>2, <1>6, <4>1, <4>2 DEF Topped
    <3>3. CASE first = 0
      <4>1. request.max = 0 /\ s > p[1] /\ caught'
        <5>1. request.max = 0 /\ s > p[1]
          BY <2>15, <2>18, <3>3
        <5>2. caught'
          BY <1>1, <5>1, Zenon
        <5> QED BY <5>1, <5>2
      <4>2. s \notin Shown
        <5>1. ASSUME s \in Shown PROVE FALSE
          <6>1. PICK j \in 1..Len(items) : items[j] = s
            BY <1>1, <5>1, ShownIs
          <6>2. j \in 1..first
            BY <2>14, <4>1, <6>1
          <6> QED BY <3>3, <6>2
        <5> QED BY <5>1
      <4> QED BY <1>2, <2>11, <4>1, <4>2
    <3> QED BY <2>2, <3>2, <3>3
  <2>20. Fresh'
    <3> SUFFICES ASSUME ~ Partial', ~ caught' PROVE socket = "subscribed"
      BY <1>1, <1>2 DEF Fresh
    <3>1. ~ caught /\ request.max # 0
      BY <1>1, Zenon
    <3>2. first > 0 /\ ~ Partial
      <4>1. first > 0
        BY <2>15, <3>1
      <4>2. Partial' = Partial
        BY <2>18, <4>1
      <4> QED BY <4>1, <4>2
    <3> QED BY <1>6, <3>1, <3>2 DEF Fresh
  <2> QED BY <2>17, <2>19, <2>20
<1> QED BY <1>8, <1>9

LEMMA WholeRemove ==
  ASSUME Sound, Whole, NEW s \in Ids, RemoveStatus(s)
  PROVE  Whole'
<1> DEFINE R == {t \in feed : ReblogOf[t] = s}
<1>1. /\ TypeOK /\ s \in feed /\ feed' = feed \ ({s} \cup R) /\ removed' = removed \cup {s} \cup R
      /\ UNCHANGED <<socket, opened, items, request, polling, holed, overtaken, caught>>
  BY DEF Sound, RemoveStatus, past
<1>2. feed' \subseteq feed /\ Posted' = Posted
  BY <1>1 DEF Posted
<1>3. PICK e \in Seq(Events) :
        /\ \A i \in 1..Len(e) : e[i].event = "delete" /\ e[i].id \in {s} \cup ReblogsIn(s)
        /\ wire' = IF socket = "subscribed" THEN wire \o e ELSE wire
  BY <1>1, RemovalTold
<1>7. \A t : OnWire(t) => OnWire(t)'
  <2>1. wire \in Seq(Events) /\ Len(wire) \in Nat /\ DOMAIN wire = 1..Len(wire)
    BY <1>1, WireIs
  <2>2. \A i \in DOMAIN wire : i \in DOMAIN (wire \o e) /\ (wire \o e)[i] = wire[i]
    <3>1. /\ wire \o e \in Seq(Events) /\ Len(wire \o e) = Len(wire) + Len(e) /\ Len(e) \in Nat
          /\ \A i \in 1..(Len(wire) + Len(e)) :
               (wire \o e)[i] = IF i <= Len(wire) THEN wire[i] ELSE e[i - Len(wire)]
      BY <2>1, ConcatProperties
    <3>2. DOMAIN (wire \o e) = 1..Len(wire \o e)
      BY <3>1, LenProperties
    <3> QED BY <2>1, <3>1, <3>2
  <2> QED BY <1>3, <2>2 DEF OnWire
<1>8. NotYetOn'
  <2>1. ~ opened => wire' = wire
    BY <1>3 DEF Whole, NotYetOn
  <2> QED BY <1>1, <2>1 DEF Whole, NotYetOn, isLoading
<1> QED BY <1>1, <1>2, <1>7, <1>8, WholeAside

LEMMA WholeNext == Sound /\ Whole /\ [Next]_vars => Whole'
<1> SUFFICES ASSUME Sound, Whole, [Next]_vars PROVE Whole'
  OBVIOUS
<1>1. TypeOK /\ TypeOK' /\ Sound'
  BY TypeNext, SoundNext DEF Sound
<1> USE DEF server, past, stream
<1>2. 0 \in Entries /\ \A i \in DOMAIN items : items[i] \in Entries
  BY <1>1, ItemsAre DEF Entries, GAP
<1>3. DOMAIN items = 1..Len(items) /\ Len(items) \in Nat /\ (items = <<>> <=> Len(items) = 0)
  BY <1>1, ItemsAre
<1>4. ~ opened =>
        /\ socket = "closed" /\ wire = <<>> /\ ~ polling
        /\ \A i \in DOMAIN items : items[i] # GAP
        /\ isLoading /\ request.max = 0 => items = <<>>
  BY DEF Whole, NotYetOn
<1>5. ASSUME NEW s \in Ids, Publish(s) PROVE Whole'
  BY <1>1, <1>5, WholePublish
<1>6. ASSUME NEW s \in Ids, RemoveStatus(s) PROVE Whole'
  BY <1>6, WholeRemove
<1>7. CASE Refresh
  <2>1. request'.max = 0
    BY <1>1, <1>2, <1>7, AskedIs DEF Refresh
  <2>2. ~ opened => items = <<>>
    <3>1. items # <<>> /\ Partial => items[1] = GAP /\ 1 \in DOMAIN items
      BY <1>1, <1>3, HeadIs
    <3> QED BY <1>4, <1>7, <3>1 DEF Refresh
  <2>3. NotYetOn'
    BY <1>4, <1>7, <2>2 DEF NotYetOn, Refresh
  <2> QED BY <1>1, <1>2, <1>7, <2>3, WholeAsked DEF Refresh
<1>8. CASE LoadOlder
  <2>1. Len(items) \in DOMAIN items
    BY <1>3, <1>8 DEF LoadOlder
  <2>2. request'.max = items[Len(items)]
    BY <1>1, <1>2, <1>8, <2>1, AskedIs DEF LoadOlder
  <2>3. NotYetOn'
    BY <1>4, <1>8, <2>1, <2>2 DEF NotYetOn, LoadOlder, GAP
  <2> QED BY <1>1, <1>2, <1>8, <2>1, <2>3, WholeAsked DEF LoadOlder
<1>9. ASSUME NEW i \in DOMAIN items, FillGap(i) PROVE Whole'
  <2>1. i - 1 \in DOMAIN items
    BY <1>3, <1>9 DEF FillGap
  <2>2. NotYetOn'
    BY <1>4, <1>9 DEF NotYetOn, FillGap
  <2> QED BY <1>1, <1>2, <1>9, <2>1, <2>2, WholeAsked DEF FillGap
<1>10. CASE Show
  BY <1>1, <1>10, WholeShow
<1>11. CASE ExpandSuccess
  BY <1>1, <1>11, WholeMerge
<1>12. CASE ExpandFail
  BY <1>1, <1>12, WholeFail
<1>13. CASE TimelineUpdate
  BY <1>1, <1>13, WholeUpdate
<1>14. CASE TimelineDelete
  BY <1>1, <1>14, WholeDelete
<1>15. CASE Scroll
  <2>1. UNCHANGED <<feed, removed, socket, opened, wire, polling, items, request, holed, overtaken, caught>>
    BY <1>15 DEF Scroll
  <2>2. NotYetOn' /\ Posted' = Posted /\ \A s : OnWire(s) => OnWire(s)'
    BY <2>1 DEF Whole, NotYetOn, Posted, OnWire, isLoading
  <2> QED BY <2>1, <2>2, WholeAside
<1>16. CASE Connect
  <2>1. /\ socket = "closed" /\ socket' = "open" /\ opened'
        /\ UNCHANGED <<feed, removed, wire, items, overtaken, caught>>
        /\ holed => holed'
    BY <1>16 DEF Connect
  <2>2. NotYetOn'
    BY <2>1 DEF NotYetOn
  <2>3. CASE opened /\ ~ isLoading
    BY <1>1, <1>2, <1>16, <2>1, <2>2, <2>3, WholeAsked DEF Connect
  <2>4. CASE opened /\ isLoading
    <3>1. holed'
      BY <1>16, <2>4 DEF Connect
    <3> QED BY <2>2, <3>1 DEF Whole
  <2>5. CASE ~ opened
    <3>1. request' = request
      BY <1>16, <2>5 DEF Connect
    <3>2. Posted' = Posted /\ \A s : OnWire(s) => OnWire(s)'
      BY <2>1 DEF Posted, OnWire
    <3> QED BY <2>1, <2>2, <2>5, <3>1, <3>2, WholeAside
  <2> QED BY <2>3, <2>4, <2>5
<1>17. CASE Subscribe
  <2>1. /\ socket = "open" /\ socket' = "subscribed"
        /\ UNCHANGED <<feed, removed, opened, wire, polling, items, request, holed, overtaken, caught>>
    BY <1>17 DEF Subscribe
  <2>2. NotYetOn' /\ Posted' = Posted /\ \A s : OnWire(s) => OnWire(s)'
    BY <1>4, <2>1 DEF NotYetOn, Posted, OnWire
  <2> QED BY <2>1, <2>2, WholeAside
<1>18. CASE Disconnect
  BY <1>1, <1>18, WholeDisconnect
<1>19. CASE UNCHANGED vars
  <2>1. UNCHANGED <<feed, removed, socket, opened, wire, polling, items, request, holed, overtaken, caught>>
    BY <1>19 DEF vars
  <2>2. NotYetOn' /\ Posted' = Posted /\ \A s : OnWire(s) => OnWire(s)'
    BY <2>1 DEF Whole, NotYetOn, Posted, OnWire, isLoading
  <2> QED BY <2>1, <2>2, WholeAside
<1> QED
  BY <1>5, <1>6, <1>7, <1>8, <1>9, <1>10, <1>11, <1>12, <1>13, <1>14, <1>15, <1>16, <1>17, <1>18, <1>19
  DEF Next

\* What the list lacks is behind a gap that the user sees, on its way, or
\* one of the losses the code does nothing about: between two statuses that
\* stand next to each other nothing of the feed is missing, and above the
\* list nothing while the stream is on
THEOREM GapsAreSeen == Spec => []NoSilentGap
<1>1. Init => Sound /\ Whole
  BY SoundInit, WholeInit
<1>2. Sound /\ Whole /\ [Next]_vars => Sound' /\ Whole'
  BY SoundNext, WholeNext
<1>3. Sound /\ Whole => NoSilentGap
  BY WholeShows DEF Sound
<1> QED BY <1>1, <1>2, <1>3, PTL DEF Spec
=============================================================================
