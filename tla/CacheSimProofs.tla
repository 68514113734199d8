---------------------------- MODULE CacheSimProofs ----------------------------
(***************************************************************************)
(* What the stamps and dirty bits of CacheSim mean, for caches of any size  *)
(* and traces of any length: with them cache_access() is an LRU cache.      *)
(***************************************************************************)
EXTENDS MCCacheSim, FiniteSetTheorems, SequenceTheorems, TLAPS

(* Division with remainder has one answer.                                  *)
LEMMA DividesOnce ==
    ASSUME NEW n \in Nat \ {0}, NEW q \in Nat, NEW r \in 0 .. n - 1
    PROVE  (q * n + r) \div n = q /\ (q * n + r) % n = r
  <1> DEFINE x == q * n + r
  <1>1. q * n \in Nat
    OBVIOUS
  <1>2. x \in Nat /\ x \div n \in Int /\ x % n \in 0 .. n - 1
        /\ x = n * (x \div n) + (x % n)
    BY <1>1
  <1> DEFINE d == x \div n
             m == x % n
  <1>3. d \in Int /\ m \in 0 .. n - 1 /\ q * n + r = n * d + m
    BY <1>2
  <1> HIDE DEF d, m, x
  <1>4. (q - d) * n = m - r
    BY <1>3
  <1>5. q - d \in Int /\ m - r < n /\ m - r > -n
    BY <1>3
  <1>6. \A e \in Int : e >= 1 => e * n >= n
    OBVIOUS
  <1>7. \A e \in Int : e <= -1 => e * n <= -n
    OBVIOUS
  <1>8. q - d = 0
    BY <1>4, <1>5, <1>6, <1>7
  <1>9. m = r
    BY <1>3, <1>4, <1>8
  <1> QED BY <1>3, <1>8, <1>9 DEF d, m, x

(* A number is its quotient and its remainder.                              *)
LEMMA Divided ==
    ASSUME NEW x \in Nat, NEW n \in Nat \ {0}
    PROVE  /\ x \div n \in Nat /\ x % n \in 0 .. n - 1
           /\ x = (x \div n) * n + (x % n)
  <1>1. x = n * (x \div n) + (x % n) /\ x \div n \in Nat /\ x % n \in 0 .. n - 1
    OBVIOUS
  <1>2. \A a \in Nat : n * a = a * n
    OBVIOUS
  <1> QED BY <1>1, <1>2

(* The geometry: sets and ways can be counted.                              *)
LEMMA Geometry ==
    /\ 2^indexbit \in Nat \ {0} /\ 2^S \in Nat \ {0} /\ 2^B \in Nat \ {0}
    /\ IsFiniteSet(SetIndex) /\ IsFiniteSet(Ways)
    /\ Cardinality(Ways) = 2^S
  <1>1. /\ indexbit \in 0 .. C + WIDTH /\ S \in 0 .. C + WIDTH
        /\ B \in 0 .. C + WIDTH
    BY CacheAssumption DEF indexbit
  <1>2. 2^indexbit \in Nat \ {0} /\ 2^S \in Nat \ {0} /\ 2^B \in Nat \ {0}
    BY <1>1, PowersOfTwo
  <1>3. /\ IsFiniteSet(Ways) /\ Cardinality(Ways) = 2^S
        /\ IsFiniteSet(SetIndex)
    <2>1. 2^S - 1 \in Int /\ 2^indexbit - 1 \in Int /\ 0 \in Int
      BY <1>2
    <2>2. Cardinality(0 .. 2^S - 1) = IF 0 > 2^S - 1 THEN 0 ELSE 2^S - 1 - 0 + 1
      BY <2>1, FS_Interval
    <2> QED BY <1>2, <2>1, <2>2, FS_Interval DEF Ways, SetIndex
  <1> QED BY <1>2, <1>3

(* getindex() and gettag() split the number of an address's block: the      *)
(* shift left drops just the tag's bits.                                    *)
LEMMA AddressIsSplit ==
    ASSUME NEW a \in Addresses
    PROVE  /\ getindex(a) \in SetIndex /\ gettag(a) \in Nat
           /\ a \div 2^B = gettag(a) * 2^indexbit + getindex(a)
  <1>1. PICK I \in Nat \ {0} : I = 2^indexbit
    BY Geometry
  <1>2. PICK O \in Nat \ {0} : O = 2^B
    BY Geometry
  <1>3. tagbit \in 0 .. C + WIDTH /\ tagbit \in 0 .. WIDTH /\ B \in 0 .. WIDTH
        /\ indexbit \in 0 .. WIDTH /\ WIDTH = tagbit + (B + indexbit)
        /\ B + indexbit \in 0 .. WIDTH /\ tagbit + B <= WIDTH
    BY CacheAssumption DEF tagbit, offsetbit
  <1>4. PICK T \in Nat \ {0} : T = 2^tagbit
    BY <1>3, PowersOfTwo
  <1>5. 2^(B + indexbit) = O * I /\ 2^WIDTH = T * (O * I)
        /\ 2^(tagbit + B) = T * O
    BY <1>1, <1>2, <1>3, <1>4, PowersOfTwo
  <1>6. a \in Nat
    BY CacheAssumption
  <1> DEFINE b == a \div O
             y == a % O
             t == b \div I
             x == b % I
  <1>7. b \in Nat /\ y \in 0 .. O - 1 /\ a = b * O + y
    BY <1>6, Divided
  <1>8. t \in Nat /\ x \in 0 .. I - 1 /\ b = t * I + x
    BY <1>7, Divided
  <1> HIDE DEF b, y, t, x
  <1>9. O * I \in Nat \ {0} /\ T * O \in Nat \ {0} /\ T * (O * I) \in Nat \ {0}
    OBVIOUS
  <1> DEFINE r == x * O + y
  <1>10. r \in 0 .. O * I - 1 /\ r \div O = x
    <2>1. x * O <= (I - 1) * O /\ x * O \in Nat
      BY <1>8
    <2>2. (I - 1) * O = O * I - O
      OBVIOUS
    <2> QED BY <1>7, <1>8, <1>9, <2>1, <2>2, DividesOnce
  <1>11. a = t * (O * I) + r
    <2>1. (t * I + x) * O = (t * I) * O + x * O
      BY <1>8
    <2>2. (t * I) * O = t * (O * I)
      BY <1>8
    <2>3. t * (O * I) \in Nat /\ x * O \in Nat
      BY <1>8, <1>9
    <2> QED BY <1>7, <1>8, <2>1, <2>2, <2>3
  <1>12. a \div (O * I) = t
    BY <1>8, <1>9, <1>10, <1>11, DividesOnce
  <1> DEFINE w == x * (T * O) + y * T
  <1>13. w \in 0 .. T * (O * I) - 1
    <2>1. w = r * T
      <3>1. (x * O + y) * T = (x * O) * T + y * T
        BY <1>7, <1>8
      <3>2. (x * O) * T = x * (T * O)
        BY <1>8
      <3> QED BY <3>1, <3>2
    <2>2. r * T <= (O * I - 1) * T /\ r * T \in Nat
      BY <1>9, <1>10
    <2>3. (O * I - 1) * T = T * (O * I) - T
      BY <1>9
    <2> QED BY <1>9, <2>1, <2>2, <2>3
  <1>14. a * T = t * (T * (O * I)) + w
    <2>1. (t * (O * I) + r) * T = (t * (O * I)) * T + r * T
      BY <1>8, <1>9, <1>10
    <2>2. (t * (O * I)) * T = t * (T * (O * I))
      BY <1>8, <1>9
    <2>3. r * T = w
      <3>1. (x * O + y) * T = (x * O) * T + y * T
        BY <1>7, <1>8
      <3>2. (x * O) * T = x * (T * O)
        BY <1>8
      <3> QED BY <3>1, <3>2
    <2> QED BY <1>11, <2>1, <2>2, <2>3
  <1>15. (a * T) % (T * (O * I)) = w
    BY <1>8, <1>9, <1>13, <1>14, DividesOnce
  <1>16. w \div (T * O) = x
    <2>1. y * T \in 0 .. T * O - 1
      <3>1. y * T <= (O - 1) * T /\ y * T \in Nat
        BY <1>7
      <3>2. (O - 1) * T = T * O - T
        OBVIOUS
      <3> QED BY <1>9, <3>1, <3>2
    <2> QED BY <1>8, <1>9, <2>1, DividesOnce
  <1>17. getindex(a) = x
    BY <1>4, <1>5, <1>15, <1>16 DEF getindex, shr, shl, offsetbit
  <1>18. gettag(a) = t
    BY <1>5, <1>12 DEF gettag, shr, offsetbit
  <1>19. x \in SetIndex
    BY <1>1, <1>8 DEF SetIndex
  <1> QED BY <1>1, <1>2, <1>8, <1>17, <1>18, <1>19 DEF b

-----------------------------------------------------------------------------
(* The order of a set by its stamps, as a list of its elements.             *)
Falls(list, stamp) ==
    \A j, k \in DOMAIN list : j < k => stamp[list[j]] > stamp[list[k]]

(* A list of just a set's elements in that order.                           *)
Lists(list, set, stamp) ==
    /\ list \in Seq(set)
    /\ \A x \in set : \E k \in DOMAIN list : list[k] = x
    /\ Falls(list, stamp)

(* The numbers up to n are n.                                               *)
LEMMA FirstNumbers ==
    ASSUME NEW n \in Nat
    PROVE  IsFiniteSet(1 .. n) /\ Cardinality(1 .. n) = n
  <1>1. Cardinality(1 .. n) = IF 1 > n THEN 0 ELSE n - 1 + 1
    BY FS_Interval
  <1> QED BY <1>1, FS_Interval

(* What has a stamp at least as high as x.                                  *)
NotOlder(set, stamp, x) == {y \in set : stamp[y] >= stamp[x]}

(* An element's place in the list is its rank among the stamps.             *)
LEMMA PlaceIsRank ==
    ASSUME NEW set, NEW stamp, \A x \in set : stamp[x] \in Int,
           NEW list, Lists(list, set, stamp), NEW k \in DOMAIN list
    PROVE  Cardinality(NotOlder(set, stamp, list[k])) = k
  <1>1. /\ list \in Seq(set) /\ Len(list) \in Nat
        /\ DOMAIN list = 1 .. Len(list)
        /\ \A j \in DOMAIN list : list[j] \in set
    BY DEF Lists
  <1> DEFINE f == [j \in 1 .. k |-> list[j]]
             N == NotOlder(set, stamp, list[k])
  <1>2. ASSUME NEW j \in DOMAIN list
        PROVE  list[j] \in N <=> j <= k
    <2>1. j < k => stamp[list[j]] > stamp[list[k]]
      BY DEF Lists, Falls
    <2>2. k < j => stamp[list[k]] > stamp[list[j]]
      BY DEF Lists, Falls
    <2>3. stamp[list[j]] \in Int /\ stamp[list[k]] \in Int /\ list[j] \in set
      BY <1>1
    <2> QED BY <1>1, <2>1, <2>2, <2>3 DEF NotOlder
  <1>3. f \in [1 .. k -> N]
    BY <1>1, <1>2
  <1>4. \A i, j \in 1 .. k : f[i] = f[j] => i = j
    <2> SUFFICES ASSUME NEW i \in 1 .. k, NEW j \in 1 .. k, i < j
                 PROVE  f[i] # f[j]
      BY <1>1
    <2>1. stamp[list[i]] > stamp[list[j]]
      BY <1>1 DEF Lists, Falls
    <2>2. stamp[list[j]] \in Int
      BY <1>1
    <2> QED BY <2>1, <2>2
  <1>5. \A x \in N : \E j \in 1 .. k : f[j] = x
    <2> SUFFICES ASSUME NEW x \in N PROVE \E j \in 1 .. k : f[j] = x
      OBVIOUS
    <2>1. x \in set
      BY DEF NotOlder
    <2>2. PICK j \in DOMAIN list : list[j] = x
      BY <2>1 DEF Lists
    <2> QED BY <1>1, <1>2, <2>2
  <1> HIDE DEF N, f
  <1>6. f \in Bijection(1 .. k, N)
    BY <1>3, <1>4, <1>5 DEF Bijection, Injection, Surjection, IsInjective
  <1>7. IsFiniteSet(1 .. k) /\ Cardinality(1 .. k) = k
    BY <1>1, FirstNumbers
  <1>8. Cardinality(N) = k
    BY <1>6, <1>7, FS_Bijection DEF ExistsBijection
  <1> QED BY <1>8 DEF N

(* A higher stamp is a lower rank, so that a rank belongs to one element.   *)
LEMMA RankIsOwn ==
    ASSUME NEW set, IsFiniteSet(set), NEW stamp,
           \A x \in set : stamp[x] \in Int,
           NEW x \in set, NEW y \in set, stamp[x] # stamp[y]
    PROVE  Cardinality(NotOlder(set, stamp, x))
              # Cardinality(NotOlder(set, stamp, y))
  <1>1. ASSUME NEW u \in set, NEW v \in set, stamp[u] > stamp[v]
        PROVE  Cardinality(NotOlder(set, stamp, u))
                  # Cardinality(NotOlder(set, stamp, v))
    <2>1. stamp[u] \in Int /\ stamp[v] \in Int
      OBVIOUS
    <2>2. /\ NotOlder(set, stamp, u) \in SUBSET NotOlder(set, stamp, v)
          /\ v \in NotOlder(set, stamp, v) /\ v \notin NotOlder(set, stamp, u)
      BY <1>1, <2>1 DEF NotOlder
    <2>3. IsFiniteSet(NotOlder(set, stamp, v))
      <3>1. NotOlder(set, stamp, v) \in SUBSET set
        BY DEF NotOlder
      <3> QED BY <3>1, FS_Subset
    <2> QED BY <2>2, <2>3, FS_Subset
  <1>2. stamp[x] > stamp[y] \/ stamp[y] > stamp[x]
    <2>1. stamp[x] \in Int /\ stamp[y] \in Int
      OBVIOUS
    <2> QED BY <2>1
  <1> QED BY <1>1, <1>2

(* A list by stamps holds each element once.                                *)
LEMMA ListCounts ==
    ASSUME NEW set, IsFiniteSet(set), NEW stamp,
           \A x \in set : stamp[x] \in Int,
           NEW list, Lists(list, set, stamp)
    PROVE  /\ Len(list) = Cardinality(set)
           /\ \A j, k \in DOMAIN list : list[j] = list[k] => j = k
  <1>1. /\ list \in Seq(set) /\ Len(list) \in Nat
        /\ DOMAIN list = 1 .. Len(list)
        /\ list \in [1 .. Len(list) -> set]
    BY DEF Lists
  <1>2. \A j, k \in DOMAIN list : list[j] = list[k] => j = k
    BY PlaceIsRank
  <1>3. list \in Bijection(1 .. Len(list), set)
    BY <1>1, <1>2 DEF Lists, Bijection, Injection, Surjection, IsInjective
  <1>4. /\ IsFiniteSet(1 .. Len(list))
        /\ Cardinality(1 .. Len(list)) = Len(list)
    BY <1>1, FirstNumbers
  <1>5. Cardinality(set) = Len(list)
    BY <1>3, <1>4, FS_Bijection DEF ExistsBijection
  <1> QED BY <1>2, <1>5

(* There is one list of a set by its stamps, ByStamp.                       *)
LEMMA ByStampIsTheList ==
    ASSUME NEW set, IsFiniteSet(set), NEW stamp,
           \A x \in set : stamp[x] \in Int,
           \A x, y \in set : x # y => stamp[x] # stamp[y],
           NEW list, Lists(list, set, stamp)
    PROVE  ByStamp(set, stamp) = list
  <1>1. /\ Len(list) = Cardinality(set) /\ list \in Seq(set)
        /\ list \in [1 .. Cardinality(set) -> set] /\ Falls(list, stamp)
        /\ Cardinality(set) \in Nat
    BY ListCounts, FS_CardinalityType DEF Lists
  <1> DEFINE other == ByStamp(set, stamp)
             n == Cardinality(set)
  <1>2. other \in [1 .. n -> set] /\ Falls(other, stamp)
    BY <1>1 DEF ByStamp, Falls
  <1> HIDE DEF other
  <1>3. other \in Seq(set) /\ DOMAIN other = 1 .. n
    BY <1>1, <1>2
  <1>4. \A x \in set : \E k \in DOMAIN other : other[k] = x
    <2>1. ASSUME NEW i \in 1 .. n, NEW j \in 1 .. n, i < j
          PROVE  other[i] # other[j]
      <3>1. stamp[other[i]] > stamp[other[j]]
        BY <1>3, <2>1, <1>2 DEF Falls
      <3>2. stamp[other[j]] \in Int
        BY <1>2
      <3> QED BY <3>1, <3>2
    <2>2. \A i, j \in 1 .. n : other[i] = other[j] => i = j
      BY <1>1, <2>1
    <2>3. other \in Injection(1 .. n, set)
      BY <1>2, <2>2 DEF Injection, IsInjective
    <2>4. Cardinality(1 .. n) = n
      BY <1>1, FirstNumbers
    <2>5. other \in Surjection(1 .. n, set)
      BY <2>3, <2>4, FS_Injection
    <2> QED BY <1>3, <2>5 DEF Surjection
  <1>5. Lists(other, set, stamp)
    BY <1>2, <1>3, <1>4 DEF Lists
  <1>6. ASSUME NEW k \in 1 .. n PROVE other[k] = list[k]
    <2>1. /\ Cardinality(NotOlder(set, stamp, other[k])) = k
          /\ Cardinality(NotOlder(set, stamp, list[k])) = k
      BY <1>1, <1>3, <1>5, PlaceIsRank
    <2>2. other[k] \in set /\ list[k] \in set
      BY <1>1, <1>2
    <2> QED BY <2>1, <2>2, RankIsOwn
  <1>7. other = list
    BY <1>1, <1>2, <1>6
  <1> QED BY <1>7 DEF other

(* Taking an element out of a list.                                         *)
LEMMA RemovedAt ==
    ASSUME NEW set, NEW list \in Seq(set), NEW k \in 1 .. Len(list)
    PROVE  /\ RemoveAt(list, k) \in Seq(set)
           /\ Len(RemoveAt(list, k)) = Len(list) - 1
           /\ DOMAIN RemoveAt(list, k) = 1 .. Len(list) - 1
           /\ \A j \in 1 .. Len(list) - 1 : RemoveAt(list, k)[j]
                 = list[IF j < k THEN j ELSE j + 1]
           /\ k = Len(list) => RemoveAt(list, k) = Front(list)
  <1> DEFINE n == Len(list)
             less == RemoveAt(list, k)
  <1>1. n \in Nat /\ DOMAIN list = 1 .. n
    OBVIOUS
  <1>2. /\ less \in Seq(set) /\ Len(less) = n - 1
        /\ \A j \in 1 .. n - 1 : less[j] = list[IF j < k THEN j ELSE j + 1]
        /\ DOMAIN less = 1 .. n - 1
    <2> DEFINE front == SubSeq(list, 1, k - 1)
               back == SubSeq(list, k + 1, n)
    <2>1. /\ front \in Seq(set) /\ Len(front) = k - 1
          /\ \A j \in 1 .. k - 1 : front[j] = list[j]
      BY <1>1
    <2>2. /\ back \in Seq(set) /\ Len(back) = n - k
          /\ \A j \in 1 .. n - k : back[j] = list[j + k]
      <3>0. k \in 1 .. n /\ \A j \in 1 .. n : list[j] \in set
        BY <1>1
      <3> HIDE DEF n
      <3>1. /\ k + 1 \in Int /\ n \in Int /\ n - (k + 1) + 1 = n - k
            /\ k + 1 <= n \/ n - k = 0
            /\ \A j \in k + 1 .. n : list[j] \in set
        BY <1>1, <3>0
      <3>2. /\ back \in Seq(set)
            /\ Len(back) = IF k + 1 <= n THEN n - (k + 1) + 1 ELSE 0
            /\ \A j \in 1 .. n - (k + 1) + 1 : back[j] = list[k + 1 + j - 1]
        BY <3>1, SubSeqProperties DEF back
      <3> HIDE DEF back
      <3>3. \A j \in 1 .. n - k : k + 1 + j - 1 = j + k
        BY <1>1
      <3> QED BY <3>1, <3>2, <3>3
    <2>3. less = front \o back
      BY DEF RemoveAt
    <2> HIDE DEF front, back, less
    <2>4. /\ less \in Seq(set) /\ Len(less) = Len(front) + Len(back)
          /\ \A j \in 1 .. Len(front) + Len(back) : less[j] =
                IF j <= Len(front) THEN front[j] ELSE back[j - Len(front)]
      BY <2>1, <2>2, <2>3, ConcatProperties
    <2>5. /\ Len(front) + Len(back) = n - 1
          /\ Len(less) = n - 1 /\ DOMAIN less = 1 .. n - 1
      <3>1. (k - 1) + (n - k) = n - 1
        BY <1>1
      <3> QED BY <2>1, <2>2, <2>4, <3>1
    <2>6. ASSUME NEW j \in 1 .. n - 1
          PROVE  less[j] = list[IF j < k THEN j ELSE j + 1]
      <3>1. less[j] = IF j <= k - 1 THEN front[j] ELSE back[j - (k - 1)]
        BY <2>1, <2>4, <2>5
      <3>2. CASE j < k
        BY <1>1, <2>1, <3>1, <3>2
      <3>3. CASE ~(j < k)
        <4>1. j - (k - 1) \in 1 .. n - k /\ j - (k - 1) + k = j + 1
          BY <1>1, <3>3
        <4>2. ~(j <= k - 1)
          BY <1>1, <3>3
        <4> QED BY <2>2, <3>1, <3>3, <4>1, <4>2
      <3> QED BY <3>2, <3>3
    <2> QED BY <2>4, <2>5, <2>6
  <1>3. k = n => less = Front(list)
    BY <1>1 DEF RemoveAt, Front
  <1> QED BY <1>2, <1>3

(* A list by stamps without one of its elements.                            *)
LEMMA OneLess ==
    ASSUME NEW set, IsFiniteSet(set), NEW stamp,
           \A x \in set : stamp[x] \in Int,
           NEW list, Lists(list, set, stamp), NEW k \in DOMAIN list
    PROVE  Lists(RemoveAt(list, k), set \ {list[k]}, stamp)
  <1> DEFINE n == Len(list)
             less == RemoveAt(list, k)
             rest == set \ {list[k]}
  <1>1. list \in Seq(set) /\ n \in Nat /\ DOMAIN list = 1 .. n /\ k \in 1 .. n
    BY DEF Lists
  <1>2. /\ less \in Seq(set) /\ Len(less) = n - 1
        /\ \A j \in 1 .. n - 1 : less[j] = list[IF j < k THEN j ELSE j + 1]
        /\ DOMAIN less = 1 .. n - 1
    BY <1>1, RemovedAt
  <1>3. \A i, j \in 1 .. n : list[i] = list[j] => i = j
    BY <1>1, ListCounts
  <1> HIDE DEF less
  <1>4. \A j \in 1 .. n - 1 : less[j] \in rest
    BY <1>1, <1>2, <1>3
  <1>5. less \in Seq(rest)
    BY <1>1, <1>2, <1>4
  <1>6. \A x \in rest : \E j \in DOMAIN less : less[j] = x
    <2> SUFFICES ASSUME NEW x \in rest
                 PROVE  \E j \in 1 .. n - 1 : less[j] = x
      BY <1>2
    <2>1. PICK i \in 1 .. n : list[i] = x
      BY <1>1 DEF Lists
    <2>2. i # k
      BY <2>1
    <2>3. CASE i < k
      BY <1>1, <1>2, <2>1, <2>3
    <2>4. CASE i > k
      <3>1. i - 1 \in 1 .. n - 1 /\ ~(i - 1 < k) /\ i - 1 + 1 = i
        BY <1>1, <2>4
      <3> QED BY <1>2, <2>1, <3>1
    <2> QED BY <1>1, <2>2, <2>3, <2>4
  <1>7. Falls(less, stamp)
    <2> SUFFICES ASSUME NEW i \in 1 .. n - 1, NEW j \in 1 .. n - 1, i < j
                 PROVE  stamp[less[i]] > stamp[less[j]]
      BY <1>1, <1>2 DEF Falls
    <2> DEFINE p == IF i < k THEN i ELSE i + 1
               q == IF j < k THEN j ELSE j + 1
    <2>1. p \in 1 .. n /\ q \in 1 .. n /\ p < q
      BY <1>1
    <2>2. less[i] = list[p] /\ less[j] = list[q]
      BY <1>2
    <2> HIDE DEF p, q
    <2> QED BY <1>1, <2>1, <2>2 DEF Lists, Falls
  <1> QED BY <1>2, <1>5, <1>6, <1>7 DEF Lists, less

(* Putting an element with a higher stamp in front of one.                  *)
LEMMA OneMore ==
    ASSUME NEW set, NEW stamp, NEW new,
           NEW list, Lists(list, set, stamp),
           NEW x, x \notin set, \A y \in set : new[y] = stamp[y],
           \A y \in set : new[x] > new[y]
    PROVE  Lists(<<x>> \o list, set \cup {x}, new)
  <1> DEFINE n == Len(list)
             more == <<x>> \o list
  <1>1. list \in Seq(set) /\ n \in Nat /\ DOMAIN list = 1 .. n
    BY DEF Lists
  <1>2. /\ more \in Seq(set \cup {x}) /\ Len(more) = n + 1 /\ more[1] = x
        /\ \A j \in 1 .. n : more[j + 1] = list[j]
        /\ DOMAIN more = 1 .. n + 1
    BY <1>1
  <1> HIDE DEF more
  <1>3. \A j \in 2 .. n + 1 : j - 1 \in 1 .. n /\ more[j] = list[j - 1]
    <2> SUFFICES ASSUME NEW j \in 2 .. n + 1
                 PROVE  j - 1 \in 1 .. n /\ more[j] = list[j - 1]
      OBVIOUS
    <2>1. j - 1 \in 1 .. n /\ (j - 1) + 1 = j
      BY <1>1
    <2> QED BY <1>2, <2>1
  <1>4. \A y \in set \cup {x} : \E j \in DOMAIN more : more[j] = y
    <2>1. ASSUME NEW y \in set PROVE \E j \in DOMAIN more : more[j] = y
      <3>1. PICK i \in 1 .. n : list[i] = y
        BY <1>1 DEF Lists
      <3>2. i + 1 \in 1 .. n + 1
        BY <1>1
      <3> QED BY <1>2, <3>1, <3>2
    <2>2. 1 \in DOMAIN more
      BY <1>1, <1>2
    <2> QED BY <1>2, <2>1, <2>2
  <1>5. Falls(more, new)
    <2> SUFFICES ASSUME NEW i \in 1 .. n + 1, NEW j \in 1 .. n + 1, i < j
                 PROVE  new[more[i]] > new[more[j]]
      BY <1>1, <1>2 DEF Falls
    <2>1. j - 1 \in 1 .. n /\ more[j] = list[j - 1] /\ list[j - 1] \in set
      BY <1>1, <1>3
    <2>2. CASE i = 1
      BY <1>2, <2>1, <2>2
    <2>3. CASE i # 1
      <3>1. i - 1 \in 1 .. n /\ more[i] = list[i - 1] /\ list[i - 1] \in set
        BY <1>1, <1>3, <2>3
      <3>2. stamp[list[i - 1]] > stamp[list[j - 1]]
        <4>1. i - 1 < j - 1
          BY <1>1
        <4> QED BY <1>1, <2>1, <3>1, <4>1 DEF Lists, Falls
      <3> QED BY <2>1, <3>1, <3>2
    <2> QED BY <2>2, <2>3
  <1> QED BY <1>2, <1>4, <1>5 DEF Lists, more

(* A list under other names.                                                *)
Named(list, name) == [k \in DOMAIN list |-> name[list[k]]]

(* Naming commutes with taking out and with putting in front.               *)
LEMMA NamedLists ==
    ASSUME NEW set, NEW list \in Seq(set), NEW name,
           \A x \in set : name[x] \in Nat
    PROVE  /\ Named(list, name) \in Seq(Nat)
           /\ Len(Named(list, name)) = Len(list)
           /\ \A k \in 1 .. Len(list) :
                RemoveAt(Named(list, name), k) = Named(RemoveAt(list, k), name)
           /\ \A x : name[x] \in Nat =>
                Named(<<x>> \o list, name) = <<name[x]>> \o Named(list, name)
  <1> DEFINE named == Named(list, name)
             n == Len(list)
  <1>1. n \in Nat /\ DOMAIN list = 1 .. n /\ \A j \in 1 .. n : list[j] \in set
    OBVIOUS
  <1>2. named \in Seq(Nat) /\ Len(named) = n /\ DOMAIN named = 1 .. n
        /\ \A j \in 1 .. n : named[j] = name[list[j]]
    BY <1>1 DEF Named
  <1> HIDE DEF named
  <1>3. ASSUME NEW k \in 1 .. n
        PROVE  RemoveAt(named, k) = Named(RemoveAt(list, k), name)
    <2> DEFINE less == RemoveAt(list, k)
               left == RemoveAt(named, k)
    <2>1. /\ DOMAIN less = 1 .. n - 1
          /\ \A j \in 1 .. n - 1 : less[j] = list[IF j < k THEN j ELSE j + 1]
      BY RemovedAt
    <2>2. /\ left \in Seq(Nat) /\ DOMAIN left = 1 .. n - 1
          /\ \A j \in 1 .. n - 1 : left[j] = named[IF j < k THEN j ELSE j + 1]
      <3>1. named \in Seq(Nat) /\ k \in 1 .. Len(named) /\ Len(named) = n
        BY <1>2
      <3> HIDE DEF n
      <3> QED BY <3>1, RemovedAt
    <2> HIDE DEF less, left
    <2>3. ASSUME NEW j \in 1 .. n - 1 PROVE left[j] = name[less[j]]
      <3>1. (IF j < k THEN j ELSE j + 1) \in 1 .. n
        BY <1>1
      <3> QED BY <1>2, <2>1, <2>2, <3>1
    <2>4. left = Named(less, name)
      BY <2>1, <2>2, <2>3 DEF Named
    <2> QED BY <2>4 DEF less, left
  <1>4. ASSUME NEW x, name[x] \in Nat
        PROVE  Named(<<x>> \o list, name) = <<name[x]>> \o named
    <2> DEFINE more == <<x>> \o list
               front == <<name[x]>> \o named
    <2>1. /\ DOMAIN more = 1 .. n + 1 /\ more[1] = x
          /\ \A j \in 1 .. n : more[j + 1] = list[j]
      <3>1. list \in Seq(set \cup {x}) /\ <<x>> \in Seq(set \cup {x})
        OBVIOUS
      <3> QED BY <1>1, <3>1
    <2>2. /\ front \in Seq(Nat) /\ DOMAIN front = 1 .. n + 1
          /\ front[1] = name[x]
          /\ \A j \in 1 .. n : front[j + 1] = named[j]
      BY <1>1, <1>2, <1>4
    <2> HIDE DEF more, front
    <2>3. ASSUME NEW j \in 1 .. n + 1 PROVE front[j] = name[more[j]]
      <3>1. CASE j = 1
        BY <2>1, <2>2, <3>1
      <3>2. CASE j # 1
        <4>1. j - 1 \in 1 .. n /\ (j - 1) + 1 = j
          BY <1>1, <3>2
        <4>2. front[j] = named[j - 1] /\ more[j] = list[j - 1]
          BY <2>1, <2>2, <4>1
        <4> QED BY <1>2, <4>1, <4>2
      <3> QED BY <3>1, <3>2
    <2>4. front = Named(more, name)
      BY <2>1, <2>2, <2>3 DEF Named
    <2> QED BY <2>4 DEF more, front
  <1> QED BY <1>2, <1>3, <1>4 DEF named

-----------------------------------------------------------------------------
CacheInv == CacheTypeOK /\ SetsAreOrdered

(* What an access does to block i of set s, which becomes b: no other block *)
(* of the set has its tag, and if it is dirty the access writes or the      *)
(* block was dirty and stays.                                               *)
Replaces(s, i, b, rw, back) ==
    /\ Touch(s, i, b)
    /\ \E miss \in BOOLEAN : Count(rw, miss, back)
    /\ \A j \in Ways : j # i /\ cache[s][j].valid => cache[s][j].tag # b.tag
    /\ b.dirty => rw = "w" \/ (cache[s][i].dirty /\ ~back)
    /\ back => cache[s][i].dirty

-----------------------------------------------------------------------------
(* Hits, fills and evictions alike replace one block.                       *)
LEMMA AccessReplaces ==
    ASSUME CacheInv, cache_access
    PROVE  \E s \in SetIndex, i \in Ways, b \in Blocks, rw \in {"r", "w"},
              back \in BOOLEAN : Replaces(s, i, b, rw, back)
  <1>1. PICK rw \in {"r", "w"}, a \in Addresses :
           Hit(rw, a) \/ FillInvalid(rw, a) \/ EvictLru(rw, a)
    BY DEF cache_access
  <1> DEFINE s == getindex(a)
             t == gettag(a)
  <1>2. s \in SetIndex /\ t \in Nat
    BY AddressIsSplit
  <1>3. \A i \in Ways : cache[s][i] \in Blocks
    BY <1>2 DEF CacheInv, CacheTypeOK
  <1>4. CASE Hit(rw, a)
    <2>1. PICK i \in Ways :
             /\ Holds(s, i, t)
             /\ Touch(s, i, [cache[s][i] EXCEPT !.dirty = @ \/ rw = "w"])
      BY <1>4 DEF Hit
    <2> DEFINE b == [cache[s][i] EXCEPT !.dirty = @ \/ rw = "w"]
    <2>2. /\ b \in Blocks /\ b.tag = cache[s][i].tag
          /\ b.dirty = (cache[s][i].dirty \/ rw = "w")
      BY <1>3 DEF Blocks
    <2>3. Count(rw, FALSE, FALSE)
      BY <1>4 DEF Hit
    <2>4. cache[s][i].valid
      BY <2>1 DEF Holds
    <2>5. ASSUME NEW j \in Ways, j # i, cache[s][j].valid
          PROVE  cache[s][j].tag # b.tag
      BY <1>2, <2>2, <2>4, <2>5 DEF CacheInv, SetsAreOrdered
    <2>6. Replaces(s, i, b, rw, FALSE)
      BY <2>1, <2>2, <2>3, <2>5 DEF Replaces
    <2> QED BY <1>2, <2>2, <2>6
  <1>5. ASSUME Miss(a), NEW i \in Ways, NEW back \in BOOLEAN,
               Touch(s, i, Fetched(cache[s][i], rw, a)),
               Count(rw, TRUE, back), back => cache[s][i].dirty
        PROVE  Replaces(s, i, Fetched(cache[s][i], rw, a), rw, back)
    <2> DEFINE b == Fetched(cache[s][i], rw, a)
    <2>1. b.tag = t /\ b.dirty = (rw = "w")
      BY <1>3 DEF Fetched, Blocks
    <2>2. ASSUME NEW j \in Ways, cache[s][j].valid
          PROVE  cache[s][j].tag # t
      BY <1>5, <2>2 DEF Miss, Holds
    <2> QED BY <1>5, <2>1, <2>2 DEF Replaces
  <1>6. \A i \in Ways : Fetched(cache[s][i], rw, a) \in Blocks
    BY <1>2, <1>3 DEF Fetched, Blocks
  <1>7. CASE FillInvalid(rw, a)
    <2>1. Miss(a) /\ Count(rw, TRUE, FALSE)
      BY <1>7 DEF FillInvalid
    <2>2. PICK i \in Ways : Touch(s, i, Fetched(cache[s][i], rw, a))
      BY <1>7 DEF FillInvalid
    <2>3. Replaces(s, i, Fetched(cache[s][i], rw, a), rw, FALSE)
      BY <1>5, <2>1, <2>2
    <2> QED BY <1>2, <1>6, <2>3
  <1>8. CASE EvictLru(rw, a)
    <2>1. Miss(a)
      BY <1>8 DEF EvictLru
    <2>2. PICK i \in Ways : /\ Touch(s, i, Fetched(cache[s][i], rw, a))
                            /\ Count(rw, TRUE, cache[s][i].dirty)
      BY <1>8 DEF EvictLru
    <2>3. cache[s][i].dirty \in BOOLEAN
      BY <1>3 DEF Blocks
    <2>4. Replaces(s, i, Fetched(cache[s][i], rw, a), rw, cache[s][i].dirty)
      BY <1>5, <2>1, <2>2, <2>3
    <2> QED BY <1>2, <1>6, <2>3, <2>4
  <1> QED BY <1>1, <1>4, <1>7, <1>8

(* Touch changes one block and gives it the next stamp.                     *)
LEMMA TouchedBlocks ==
    ASSUME CacheTypeOK, NEW s \in SetIndex, NEW i \in Ways, NEW b \in Blocks,
           Touch(s, i, b)
    PROVE  /\ counter' = counter + 1 /\ counter' \in Nat
           /\ cache' \in [SetIndex -> [Ways -> Blocks]]
           /\ cache'[s][i].LRU = counter + 1
           /\ cache'[s][i].tag = b.tag
           /\ cache'[s][i].valid = b.valid
           /\ cache'[s][i].dirty = b.dirty
           /\ \A r \in SetIndex, j \in Ways :
                 r # s \/ j # i => cache'[r][j] = cache[r][j]
  <1> DEFINE n == [b EXCEPT !.LRU = counter + 1]
  <1>1. counter' = counter + 1 /\ counter' \in Nat
    BY DEF Touch, CacheTypeOK
  <1>2. /\ n \in Blocks /\ n.LRU = counter + 1 /\ n.tag = b.tag
        /\ n.valid = b.valid /\ n.dirty = b.dirty
    BY <1>1 DEF Blocks
  <1>3. cache' = [cache EXCEPT ![s][i] = n]
    BY DEF Touch
  <1>4. cache \in [SetIndex -> [Ways -> Blocks]]
    BY DEF CacheTypeOK
  <1> HIDE DEF n
  <1>5. cache' \in [SetIndex -> [Ways -> Blocks]]
    BY <1>2, <1>3, <1>4
  <1>6. cache'[s][i] = n
    BY <1>3, <1>4
  <1>7. \A r \in SetIndex, j \in Ways :
           r # s \/ j # i => cache'[r][j] = cache[r][j]
    BY <1>3, <1>4
  <1> QED BY <1>1, <1>2, <1>5, <1>6, <1>7

(* The counts after an access.                                              *)
LEMMA Counts ==
    ASSUME CacheTypeOK, NEW rw \in {"r", "w"}, NEW miss \in BOOLEAN,
           NEW back \in BOOLEAN, Count(rw, miss, back)
    PROVE  /\ stats' \in Stats
           /\ stats'.writes = stats.writes + One(rw = "w")
           /\ stats'.write_backs = stats.write_backs + One(back)
  <1>1. stats \in Stats
    BY DEF CacheTypeOK
  <1>2. /\ One(rw = "r") \in Nat /\ One(rw = "w") \in Nat
        /\ One(rw = "r" /\ miss) \in Nat /\ One(rw = "w" /\ miss) \in Nat
        /\ One(back) \in Nat
    BY DEF One
  <1> QED BY <1>1, <1>2 DEF Count, Stats

-----------------------------------------------------------------------------
(* cache_init() leaves no valid block.                                      *)
LEMMA CacheStarts == cache_init => CacheInv /\ WriteBacksArePaid
  <1> SUFFICES ASSUME cache_init PROVE CacheInv /\ WriteBacksArePaid
    OBVIOUS
  <1>1. /\ cache \in [SetIndex -> [Ways ->
              [valid : {FALSE}, dirty : {FALSE}, tag : Junk, LRU : Junk]]]
        /\ counter = 0 /\ ended = FALSE
        /\ stats = [reads |-> 0, writes |-> 0, read_misses |-> 0,
                    write_misses |-> 0, write_backs |-> 0, misses |-> 0]
    BY DEF cache_init
  <1>2. \A s \in SetIndex, i \in Ways :
           cache[s][i] \in Blocks /\ ~cache[s][i].valid /\ ~cache[s][i].dirty
    BY <1>1, CacheAssumption DEF Blocks
  <1>3. cache \in [SetIndex -> [Ways -> Blocks]]
    BY <1>1, <1>2
  <1>4. stats \in Stats /\ stats.write_backs = 0 /\ stats.writes = 0
    BY <1>1 DEF Stats
  <1>5. CacheTypeOK
    BY <1>1, <1>3, <1>4 DEF CacheTypeOK
  <1>6. SetsAreOrdered
    BY <1>2 DEF SetsAreOrdered
  <1>7. Cardinality(DirtyBlocks) = 0
    <2>1. DirtyBlocks = {}
      BY <1>2 DEF DirtyBlocks
    <2> QED BY <2>1, FS_EmptySet
  <1> QED BY <1>4, <1>5, <1>6, <1>7 DEF CacheInv, WriteBacksArePaid

(* The stamps stay in order: the new one is above all.                      *)
LEMMA AccessKeepsOrder ==
    ASSUME CacheInv, cache_access
    PROVE  CacheInv'
  <1>1. PICK s \in SetIndex, i \in Ways, b \in Blocks, rw \in {"r", "w"},
             back \in BOOLEAN : Replaces(s, i, b, rw, back)
    BY AccessReplaces
  <1>2. Touch(s, i, b) /\ CacheTypeOK /\ SetsAreOrdered
    BY <1>1 DEF Replaces, CacheInv
  <1>3. /\ counter' = counter + 1 /\ counter' \in Nat
        /\ cache' \in [SetIndex -> [Ways -> Blocks]]
        /\ cache'[s][i].LRU = counter + 1
        /\ cache'[s][i].tag = b.tag
        /\ \A r \in SetIndex, j \in Ways :
              r # s \/ j # i => cache'[r][j] = cache[r][j]
    BY <1>2, TouchedBlocks
  <1>4. stats' \in Stats
    BY <1>1, <1>2, Counts DEF Replaces
  <1>5. CacheTypeOK'
    BY <1>2, <1>3, <1>4 DEF CacheTypeOK, Touch
  <1>6. counter \in Nat /\ \A r \in SetIndex, j \in Ways :
           cache[r][j].LRU \in Nat
    BY <1>2 DEF CacheTypeOK, Blocks
  <1>7. ASSUME NEW r \in SetIndex, NEW j \in Ways, NEW l \in Ways,
               cache'[r][j].valid, cache'[r][l].valid
        PROVE  /\ cache'[r][j].LRU <= counter'
               /\ j # l => /\ cache'[r][j].LRU # cache'[r][l].LRU
                           /\ cache'[r][j].tag # cache'[r][l].tag
    <2>1. CASE r # s
      BY <2>1, <1>2, <1>3, <1>6, <1>7 DEF SetsAreOrdered
    <2>2. CASE r = s /\ j # i /\ l # i
      BY <2>2, <1>2, <1>3, <1>6, <1>7 DEF SetsAreOrdered
    <2>3. CASE r = s /\ j = i /\ l # i
      <3>1. cache'[r][l] = cache[r][l] /\ cache[r][l].LRU <= counter
        BY <2>3, <1>2, <1>3, <1>7 DEF SetsAreOrdered
      <3>2. cache[r][l].tag # b.tag
        BY <2>3, <3>1, <1>1, <1>7 DEF Replaces
      <3> QED BY <2>3, <3>1, <3>2, <1>3, <1>6
    <2>4. CASE r = s /\ j # i /\ l = i
      <3>1. cache'[r][j] = cache[r][j] /\ cache[r][j].LRU <= counter
        BY <2>4, <1>2, <1>3, <1>7 DEF SetsAreOrdered
      <3>2. cache[r][j].tag # b.tag
        BY <2>4, <3>1, <1>1, <1>7 DEF Replaces
      <3> QED BY <2>4, <3>1, <3>2, <1>3, <1>6
    <2>5. CASE r = s /\ j = i /\ l = i
      BY <2>5, <1>3, <1>6
    <2> QED BY <2>1, <2>2, <2>3, <2>4, <2>5
  <1>8. SetsAreOrdered'
    BY <1>7 DEF SetsAreOrdered
  <1> QED BY <1>5, <1>8 DEF CacheInv

(* An access adds a dirty block only if it writes, and counts a write-back  *)
(* only if a dirty block has gone.                                          *)
LEMMA AccessKeepsPaid ==
    ASSUME CacheInv, WriteBacksArePaid, cache_access
    PROVE  WriteBacksArePaid'
  <1>1. PICK s \in SetIndex, i \in Ways, b \in Blocks, rw \in {"r", "w"},
             back \in BOOLEAN : Replaces(s, i, b, rw, back)
    BY AccessReplaces
  <1>2. Touch(s, i, b) /\ CacheTypeOK
    BY <1>1 DEF Replaces, CacheInv
  <1>3. /\ cache'[s][i].dirty = b.dirty
        /\ \A r \in SetIndex, j \in Ways :
              r # s \/ j # i => cache'[r][j] = cache[r][j]
    BY <1>2, TouchedBlocks
  <1>4. /\ stats'.writes = stats.writes + One(rw = "w")
        /\ stats'.write_backs = stats.write_backs + One(back)
    BY <1>1, <1>2, Counts DEF Replaces
  <1>5. stats.writes \in Nat /\ stats.write_backs \in Nat
    BY <1>2 DEF CacheTypeOK, Stats
  <1> DEFINE x == <<s, i>>
             D == DirtyBlocks
  <1>6. IsFiniteSet(D)
    <2>1. IsFiniteSet(SetIndex \X Ways)
      BY Geometry, FS_Product
    <2> QED BY <2>1, FS_Subset DEF DirtyBlocks
  <1>7. x \in D <=> cache[s][i].dirty
    BY DEF DirtyBlocks
  <1>8. D' = IF b.dirty THEN D \cup {x} ELSE D \ {x}
    <2>1. ASSUME NEW y \in SetIndex \X Ways, y # x
          PROVE  cache'[y[1]][y[2]] = cache[y[1]][y[2]]
      BY <2>1, <1>3
    <2>2. x \in SetIndex \X Ways /\ x[1] = s /\ x[2] = i
      OBVIOUS
    <2>3. ASSUME NEW y \in SetIndex \X Ways, y # x
          PROVE  y \in D' <=> y \in D
      BY <2>1, <2>3 DEF DirtyBlocks
    <2>4. x \in D' <=> b.dirty
      BY <1>3, <2>2 DEF DirtyBlocks
    <2>5. D \subseteq SetIndex \X Ways /\ D' \subseteq SetIndex \X Ways
      BY DEF DirtyBlocks
    <2> HIDE DEF D, x
    <2> QED BY <2>2, <2>3, <2>4, <2>5
  <1>9. /\ Cardinality(D) \in Nat
        /\ Cardinality(D \cup {x}) =
              IF x \in D THEN Cardinality(D) ELSE Cardinality(D) + 1
        /\ Cardinality(D \ {x}) =
              IF x \in D THEN Cardinality(D) - 1 ELSE Cardinality(D)
    BY <1>6, FS_CardinalityType, FS_AddElement, FS_RemoveElement
  <1>10. /\ b.dirty => rw = "w" \/ (x \in D /\ ~back)
         /\ back => x \in D
    BY <1>1, <1>7 DEF Replaces
  <1>11. stats.write_backs + Cardinality(D) <= stats.writes
    BY DEF WriteBacksArePaid
  <1> HIDE DEF x, D
  <1>12. Cardinality(D') =
            IF b.dirty THEN Cardinality(D \cup {x}) ELSE Cardinality(D \ {x})
    BY <1>8
  <1>13. stats'.write_backs + Cardinality(D') <= stats'.writes
    <2>1. CASE rw = "w"
      BY <2>1, <1>4, <1>5, <1>9, <1>10, <1>11, <1>12 DEF One
    <2>2. CASE rw # "w"
      BY <2>2, <1>4, <1>5, <1>9, <1>10, <1>11, <1>12 DEF One
    <2> QED BY <2>1, <2>2
  <1> QED BY <1>13 DEF WriteBacksArePaid, D

-----------------------------------------------------------------------------
(* For every geometry and every trace the types, the order of the stamps    *)
(* and the account of write-backs are kept.                                 *)
THEOREM CacheInvHolds == CacheSpec => [](CacheInv /\ WriteBacksArePaid)
  <1>1. ASSUME CacheInv, WriteBacksArePaid, [CacheNext]_cacheVars
        PROVE  (CacheInv /\ WriteBacksArePaid)'
    <2>1. CASE cache_access
      BY <1>1, <2>1, AccessKeepsOrder, AccessKeepsPaid
    <2>2. CASE cache_cleanup
      <3>1. /\ UNCHANGED <<cache, counter>> /\ ended' = TRUE
            /\ stats' = [stats EXCEPT !.misses = stats.read_misses
                                                 + stats.write_misses]
        BY <2>2 DEF cache_cleanup
      <3>2. stats \in Stats
        BY <1>1 DEF CacheInv, CacheTypeOK
      <3>3. /\ stats' \in Stats /\ stats'.writes = stats.writes
            /\ stats'.write_backs = stats.write_backs
        BY <3>1, <3>2 DEF Stats
      <3>4. CacheInv'
        BY <1>1, <3>1, <3>3 DEF CacheInv, CacheTypeOK, SetsAreOrdered
      <3> QED BY <1>1, <3>1, <3>3, <3>4 DEF WriteBacksArePaid, DirtyBlocks
    <2>3. CASE UNCHANGED cacheVars
      BY <1>1, <2>3 DEF CacheInv, CacheTypeOK, SetsAreOrdered,
                        WriteBacksArePaid, DirtyBlocks, cacheVars
    <2> QED BY <1>1, <2>1, <2>2, <2>3 DEF CacheNext
  <1> QED BY <1>1, CacheStarts, PTL DEF CacheSpec

(* No set holds a block twice or two blocks with one stamp, so that         *)
(* find_lru() has one answer.                                               *)
THEOREM SetsAreAlwaysOrdered == CacheSpec => []SetsAreOrdered
  <1>1. CacheInv => SetsAreOrdered
    BY DEF CacheInv
  <1> QED BY <1>1, CacheInvHolds, PTL

(* Every write-back, counted or to come, has a write of its own.            *)
THEOREM WriteBacksAreAlwaysPaid == CacheSpec => []WriteBacksArePaid
  BY CacheInvHolds, PTL

-----------------------------------------------------------------------------
(* The refinement of LruCache.                                              *)

(* The blocks in use of each set, their stamps and their numbers, and what  *)
(* the abstract cache is made of.                                           *)
ValidIn == [s \in SetIndex |-> Valid(s)]

StampsIn == [s \in SetIndex |-> [i \in Ways |-> cache[s][i].LRU]]

NumbersIn == [s \in SetIndex |-> [i \in Ways |-> Number(s, i)]]

RecencyIn == [s \in SetIndex |-> Recency(s)]

ModifiedIn == {Number(x[1], x[2]) : x \in DirtyBlocks}

(* The blocks of a set can be listed by their stamps.                       *)
SetsAreListed ==
    \A s \in SetIndex :
        \E list \in Seq(Ways) : Lists(list, ValidIn[s], StampsIn[s])

(* A block that holds nothing is not dirty.                                 *)
DirtyIsValid ==
    \A s \in SetIndex, i \in Ways : cache[s][i].dirty => cache[s][i].valid

LruInv == CacheInv /\ SetsAreListed /\ DirtyIsValid

(* What Recency makes of such a list.                                       *)
RecencyIsList ==
    \A s \in SetIndex, list \in Seq(Ways) :
        Lists(list, ValidIn[s], StampsIn[s]) =>
            /\ RecencyIn[s] = Named(list, NumbersIn[s])
            /\ Len(list) = Cardinality(ValidIn[s])

(* The stamps of a set's blocks are different numbers.                      *)
StampsDiffer ==
    /\ \A s \in SetIndex :
        /\ ValidIn[s] = {i \in Ways : cache[s][i].valid}
        /\ IsFiniteSet(ValidIn[s]) /\ ValidIn[s] \in SUBSET Ways
        /\ \A i \in Ways : /\ StampsIn[s][i] = cache[s][i].LRU
                           /\ StampsIn[s][i] \in Int
                           /\ NumbersIn[s][i] \in Nat
                           /\ NumbersIn[s][i]
                                = cache[s][i].tag * 2^indexbit + s
        /\ \A i, j \in ValidIn[s] : i # j => StampsIn[s][i] # StampsIn[s][j]
    /\ \A r, s \in SetIndex, i, j \in Ways :
        NumbersIn[r][i] = NumbersIn[s][j] =>
            r = s /\ cache[r][i].tag = cache[s][j].tag
    /\ \A s \in SetIndex : \A i, j \in ValidIn[s] :
        NumbersIn[s][i] = NumbersIn[s][j] => i = j

(* A block's number gives its set and its tag.                              *)
LEMMA NumberIsSplit ==
    ASSUME NEW t \in Nat, NEW s \in SetIndex
    PROVE  /\ t * 2^indexbit + s \in Nat
           /\ (t * 2^indexbit + s) % 2^indexbit = s
           /\ (t * 2^indexbit + s) \div 2^indexbit = t
  <1>1. PICK n \in Nat \ {0} : n = 2^indexbit
    BY Geometry
  <1>2. s \in 0 .. n - 1
    BY <1>1 DEF SetIndex
  <1>3. t * n \in Nat /\ t * n + s \in Nat
    BY <1>2
  <1>4. (t * n + s) \div n = t /\ (t * n + s) % n = s
    BY <1>2, DividesOnce
  <1> QED BY <1>1, <1>3, <1>4

(* The order of the stamps and the split of an address tell blocks apart.   *)
LEMMA BlocksAreTold == CacheInv => StampsDiffer
  <1> SUFFICES ASSUME CacheInv PROVE StampsDiffer
    OBVIOUS
  <1>1. \A s \in SetIndex, i \in Ways :
           /\ cache[s][i].LRU \in Nat /\ cache[s][i].tag \in Nat
           /\ cache[s][i].valid \in BOOLEAN
    BY DEF CacheInv, CacheTypeOK, Blocks
  <1>2. ASSUME NEW s \in SetIndex
        PROVE  /\ ValidIn[s] = {i \in Ways : cache[s][i].valid}
               /\ IsFiniteSet(ValidIn[s]) /\ ValidIn[s] \in SUBSET Ways
               /\ \A i \in Ways : /\ StampsIn[s][i] = cache[s][i].LRU
                                  /\ StampsIn[s][i] \in Int
                                  /\ NumbersIn[s][i] \in Nat
                                  /\ NumbersIn[s][i]
                                       = cache[s][i].tag * 2^indexbit + s
    <2>1. ValidIn[s] = {i \in Ways : cache[s][i].valid}
      BY DEF ValidIn, Valid
    <2>2. IsFiniteSet(ValidIn[s]) /\ ValidIn[s] \in SUBSET Ways
      BY <2>1, Geometry, FS_Subset
    <2>3. ASSUME NEW i \in Ways
          PROVE  /\ StampsIn[s][i] = cache[s][i].LRU
                 /\ NumbersIn[s][i] = cache[s][i].tag * 2^indexbit + s
      BY DEF StampsIn, NumbersIn, Number
    <2> QED BY <1>1, <2>1, <2>2, <2>3, NumberIsSplit
  <1>3. ASSUME NEW s \in SetIndex, NEW i \in ValidIn[s], NEW j \in ValidIn[s],
               i # j
        PROVE  /\ StampsIn[s][i] # StampsIn[s][j]
               /\ cache[s][i].tag # cache[s][j].tag
    BY <1>2, <1>3 DEF CacheInv, SetsAreOrdered
  <1>4. ASSUME NEW r \in SetIndex, NEW s \in SetIndex,
               NEW i \in Ways, NEW j \in Ways,
               NumbersIn[r][i] = NumbersIn[s][j]
        PROVE  r = s /\ cache[r][i].tag = cache[s][j].tag
    <2>1. /\ NumbersIn[r][i] = cache[r][i].tag * 2^indexbit + r
          /\ NumbersIn[s][j] = cache[s][j].tag * 2^indexbit + s
      BY <1>2
    <2>2. cache[r][i].tag \in Nat /\ cache[s][j].tag \in Nat
      BY <1>1
    <2>3. /\ NumbersIn[r][i] % 2^indexbit = r
          /\ NumbersIn[s][j] % 2^indexbit = s
          /\ NumbersIn[r][i] \div 2^indexbit = cache[r][i].tag
          /\ NumbersIn[s][j] \div 2^indexbit = cache[s][j].tag
      BY <2>1, <2>2, NumberIsSplit
    <2> QED BY <1>4, <2>3
  <1>5. \A s \in SetIndex : \A i, j \in ValidIn[s] :
           NumbersIn[s][i] = NumbersIn[s][j] => i = j
    BY <1>2, <1>3, <1>4
  <1> QED BY <1>2, <1>3, <1>4, <1>5 DEF StampsDiffer

(* Where a set is listed, Recency is that list.                             *)
LEMMA RecencyListed == CacheInv => RecencyIsList
  <1> SUFFICES ASSUME CacheInv, NEW s \in SetIndex, NEW list \in Seq(Ways),
                      Lists(list, ValidIn[s], StampsIn[s])
               PROVE  /\ RecencyIn[s] = Named(list, NumbersIn[s])
                      /\ Len(list) = Cardinality(ValidIn[s])
    BY DEF RecencyIsList
  <1>1. StampsDiffer
    BY BlocksAreTold
  <1>2. /\ IsFiniteSet(ValidIn[s]) /\ ValidIn[s] \in SUBSET Ways
        /\ \A i \in ValidIn[s] : StampsIn[s][i] \in Int
        /\ \A i, j \in ValidIn[s] : i # j => StampsIn[s][i] # StampsIn[s][j]
    BY <1>1 DEF StampsDiffer
  <1>3. ByStamp(ValidIn[s], StampsIn[s]) = list
    BY <1>2, ByStampIsTheList
  <1>4. Len(list) = Cardinality(ValidIn[s])
    BY <1>2, ListCounts
  <1>5. Recency(s) = [k \in DOMAIN list |-> Number(s, list[k])]
    <2>1. ValidIn[s] = Valid(s)
          /\ StampsIn[s] = [i \in Ways |-> cache[s][i].LRU]
      BY DEF ValidIn, StampsIn
    <2> QED BY <1>3, <2>1 DEF Recency
  <1>6. \A k \in DOMAIN list : list[k] \in Ways
    OBVIOUS
  <1>7. \A i \in Ways : NumbersIn[s][i] = Number(s, i)
    BY DEF NumbersIn
  <1> QED BY <1>4, <1>5, <1>6, <1>7 DEF RecencyIn, Named

(* Both, before and after a step.                                           *)
LEMMA BeforeAndAfter ==
    /\ CacheInv => StampsDiffer /\ RecencyIsList
    /\ CacheInv' => StampsDiffer' /\ RecencyIsList'
  BY BlocksAreTold, RecencyListed, PTL

-----------------------------------------------------------------------------
(* What Touch does to a set: the block touched comes first, the others keep *)
(* their order.                                                             *)
LEMMA TouchedComesFirst ==
    ASSUME LruInv, CacheInv', NEW s \in SetIndex, NEW i \in Ways,
           NEW b \in Blocks, b.valid, Touch(s, i, b),
           NEW list \in Seq(Ways),
           Lists(list, ValidIn[s] \ {i}, StampsIn[s])
    PROVE  /\ SetsAreListed'
           /\ RecencyIn' = [RecencyIn EXCEPT ![s] =
                 <<b.tag * 2^indexbit + s>> \o Named(list, NumbersIn[s])]
  <1> DEFINE more == <<i>> \o list
             n == b.tag * 2^indexbit + s
  <1>1. /\ CacheTypeOK /\ CacheInv /\ SetsAreListed
        /\ StampsDiffer /\ RecencyIsList /\ StampsDiffer' /\ RecencyIsList'
    BY BeforeAndAfter DEF LruInv, CacheInv
  <1>2. /\ cache'[s][i].LRU = counter + 1 /\ cache'[s][i].tag = b.tag
        /\ cache'[s][i].valid
        /\ \A r \in SetIndex, j \in Ways :
              r # s \/ j # i => cache'[r][j] = cache[r][j]
    BY <1>1, TouchedBlocks
  <1>3. /\ \A r \in SetIndex : r # s => ValidIn'[r] = ValidIn[r]
        /\ ValidIn'[s] = (ValidIn[s] \ {i}) \cup {i}
    <2>1. \A r \in SetIndex :
             /\ ValidIn[r] = {j \in Ways : cache[r][j].valid}
             /\ ValidIn'[r] = {j \in Ways : cache'[r][j].valid}
      BY <1>1 DEF StampsDiffer
    <2>2. ASSUME NEW r \in SetIndex, r # s PROVE ValidIn'[r] = ValidIn[r]
      <3>1. \A j \in Ways : j \in ValidIn'[r] <=> j \in ValidIn[r]
        BY <1>2, <2>1, <2>2
      <3>2. ValidIn'[r] \subseteq Ways /\ ValidIn[r] \subseteq Ways
        BY <2>1
      <3> QED BY <3>1, <3>2
    <2>3. ValidIn'[s] = (ValidIn[s] \ {i}) \cup {i}
      <3>1. ASSUME NEW j \in Ways
            PROVE  j \in ValidIn'[s] <=> j \in (ValidIn[s] \ {i}) \cup {i}
        BY <1>2, <2>1
      <3>2. ValidIn'[s] \subseteq Ways /\ ValidIn[s] \subseteq Ways
        BY <2>1
      <3> QED BY <3>1, <3>2
    <2> QED BY <2>2, <2>3
  <1>4. /\ \A r \in SetIndex, j \in Ways : r # s \/ j # i =>
              /\ StampsIn'[r][j] = StampsIn[r][j]
              /\ NumbersIn'[r][j] = NumbersIn[r][j]
        /\ StampsIn'[s][i] = counter + 1
        /\ NumbersIn'[s][i] = n
    BY <1>1, <1>2 DEF StampsDiffer
  <1>5. \A r \in SetIndex : \A j \in ValidIn[r] :
           j \in Ways /\ StampsIn[r][j] \in Int /\ StampsIn[r][j] < counter + 1
    <2> SUFFICES ASSUME NEW r \in SetIndex, NEW j \in ValidIn[r]
                 PROVE  /\ j \in Ways /\ StampsIn[r][j] \in Int
                        /\ StampsIn[r][j] < counter + 1
      OBVIOUS
    <2>1. /\ j \in Ways /\ cache[r][j].valid
          /\ StampsIn[r][j] = cache[r][j].LRU /\ StampsIn[r][j] \in Int
      BY <1>1 DEF StampsDiffer
    <2>2. cache[r][j].LRU <= counter /\ counter \in Int
      BY <1>1, <2>1 DEF CacheInv, SetsAreOrdered, CacheTypeOK
    <2> QED BY <2>1, <2>2
  <1>6. Lists(more, ValidIn'[s], StampsIn'[s])
    <2> DEFINE old == ValidIn[s] \ {i}
    <2>1. \A j \in old : StampsIn'[s][j] = StampsIn[s][j]
      BY <1>4, <1>5
    <2>2. \A j \in old : StampsIn'[s][i] > StampsIn'[s][j]
      BY <1>4, <1>5, <2>1 DEF CacheInv, CacheTypeOK
    <2> HIDE DEF old
    <2>3. Lists(more, old \cup {i}, StampsIn'[s])
      BY <2>1, <2>2, OneMore DEF old
    <2> QED BY <1>3, <2>3 DEF old
  <1>7. more \in Seq(Ways)
    OBVIOUS
  <1>8. RecencyIn'[s] = <<n>> \o Named(list, NumbersIn[s])
    <2> DEFINE name == NumbersIn'[s]
    <2>1. RecencyIn'[s] = Named(more, name)
      BY <1>1, <1>6, <1>7 DEF RecencyIsList
    <2>2. \A j \in Ways : name[j] \in Nat
      BY <1>1 DEF StampsDiffer
    <2> HIDE DEF name
    <2>3. Named(more, name) = <<name[i]>> \o Named(list, name)
      BY <2>2, NamedLists
    <2>4. ASSUME NEW k \in DOMAIN list
          PROVE  name[list[k]] = NumbersIn[s][list[k]]
      <3>1. list[k] \in ValidIn[s] \ {i}
        BY DEF Lists
      <3> QED BY <1>4, <1>5, <3>1 DEF name
    <2>5. Named(list, name) = Named(list, NumbersIn[s])
      BY <2>4 DEF Named
    <2> QED BY <1>4, <2>1, <2>3, <2>5 DEF name
  <1>9. ASSUME NEW r \in SetIndex, r # s
        PROVE  /\ \E l \in Seq(Ways) : Lists(l, ValidIn'[r], StampsIn'[r])
               /\ RecencyIn'[r] = RecencyIn[r]
    <2>1. PICK l \in Seq(Ways) : Lists(l, ValidIn[r], StampsIn[r])
      BY <1>1 DEF SetsAreListed
    <2>2. \A j \in Ways : /\ StampsIn'[r][j] = StampsIn[r][j]
                          /\ NumbersIn'[r][j] = NumbersIn[r][j]
      BY <1>4, <1>9
    <2>3. \A k \in DOMAIN l : l[k] \in Ways
      OBVIOUS
    <2>4. Lists(l, ValidIn'[r], StampsIn'[r])
      BY <1>3, <1>9, <2>1, <2>2, <2>3 DEF Lists, Falls
    <2>5. /\ RecencyIn[r] = Named(l, NumbersIn[r])
          /\ RecencyIn'[r] = Named(l, NumbersIn'[r])
      BY <1>1, <2>1, <2>4 DEF RecencyIsList
    <2>6. Named(l, NumbersIn'[r]) = Named(l, NumbersIn[r])
      BY <2>2, <2>3 DEF Named
    <2> QED BY <2>4, <2>5, <2>6
  <1>10. SetsAreListed'
    BY <1>6, <1>7, <1>9 DEF SetsAreListed
  <1>11. RecencyIn' = [RecencyIn EXCEPT ![s] =
                 <<n>> \o Named(list, NumbersIn[s])]
    <2>1. RecencyIn' = [r \in SetIndex |-> RecencyIn'[r]]
      BY DEF RecencyIn
    <2>2. RecencyIn = [r \in SetIndex |-> RecencyIn[r]]
      BY DEF RecencyIn
    <2> QED BY <1>8, <1>9, <2>1, <2>2
  <1> QED BY <1>10, <1>11

(* The dirty blocks but block i of set s.                                   *)
LEMMA ModifiedOthers ==
    ASSUME LruInv, CacheInv', NEW s \in SetIndex, NEW i \in Ways,
           NEW b \in Blocks, b.valid, Touch(s, i, b)
    PROVE  /\ DirtyIsValid'
           /\ \E others :
                /\ ModifiedIn = others \cup
                     (IF cache[s][i].dirty THEN {NumbersIn[s][i]} ELSE {})
                /\ ModifiedIn' = others \cup
                     (IF b.dirty THEN {b.tag * 2^indexbit + s} ELSE {})
                /\ cache[s][i].valid => NumbersIn[s][i] \notin others
  <1> DEFINE n == b.tag * 2^indexbit + s
             rest == {x \in SetIndex \X Ways :
                        cache[x[1]][x[2]].dirty /\ x # <<s, i>>}
             others == {NumbersIn[x[1]][x[2]] : x \in rest}
  <1>1. /\ CacheTypeOK /\ StampsDiffer /\ StampsDiffer' /\ DirtyIsValid
    BY BeforeAndAfter DEF LruInv, CacheInv
  <1>2. /\ cache'[s][i].tag = b.tag /\ cache'[s][i].valid = b.valid
        /\ cache'[s][i].dirty = b.dirty
        /\ \A r \in SetIndex, j \in Ways :
              r # s \/ j # i => cache'[r][j] = cache[r][j]
    BY <1>1, TouchedBlocks
  <1>3. /\ NumbersIn'[s][i] = n
        /\ \A r \in SetIndex, j \in Ways :
              r # s \/ j # i => NumbersIn'[r][j] = NumbersIn[r][j]
    BY <1>1, <1>2 DEF StampsDiffer
  <1>4. /\ ModifiedIn = {NumbersIn[x[1]][x[2]] : x \in DirtyBlocks}
        /\ ModifiedIn' = {NumbersIn'[x[1]][x[2]] : x \in DirtyBlocks'}
    BY DEF ModifiedIn, NumbersIn, DirtyBlocks
  <1>5. DirtyBlocks = rest \cup (IF cache[s][i].dirty THEN {<<s, i>>} ELSE {})
    BY DEF DirtyBlocks
  <1>6. DirtyBlocks' = rest \cup (IF b.dirty THEN {<<s, i>>} ELSE {})
    <2>1. ASSUME NEW x \in SetIndex \X Ways
          PROVE  x \in DirtyBlocks' <=>
                    x \in rest \cup (IF b.dirty THEN {<<s, i>>} ELSE {})
      <3>1. x = <<x[1], x[2]>> /\ x[1] \in SetIndex /\ x[2] \in Ways
        OBVIOUS
      <3>2. x \in DirtyBlocks' <=> cache'[x[1]][x[2]].dirty
        BY DEF DirtyBlocks
      <3>3. CASE x = <<s, i>>
        BY <1>2, <3>2, <3>3
      <3>4. CASE x # <<s, i>>
        <4>1. cache'[x[1]][x[2]] = cache[x[1]][x[2]]
          BY <1>2, <3>1, <3>4
        <4> QED BY <3>2, <3>4, <4>1
      <3> QED BY <3>3, <3>4
    <2>2. DirtyBlocks' \subseteq SetIndex \X Ways
      BY DEF DirtyBlocks
    <2>3. rest \subseteq SetIndex \X Ways /\ <<s, i>> \in SetIndex \X Ways
      OBVIOUS
    <2> HIDE DEF rest
    <2> QED BY <2>1, <2>2, <2>3
  <1>7. \A x \in rest : NumbersIn'[x[1]][x[2]] = NumbersIn[x[1]][x[2]]
    <2> SUFFICES ASSUME NEW x \in rest
                 PROVE  NumbersIn'[x[1]][x[2]] = NumbersIn[x[1]][x[2]]
      OBVIOUS
    <2>1. x = <<x[1], x[2]>> /\ x[1] \in SetIndex /\ x[2] \in Ways
      OBVIOUS
    <2>2. x[1] # s \/ x[2] # i
      BY <2>1
    <2> QED BY <1>3, <2>1, <2>2
  <1>8. cache[s][i].valid => NumbersIn[s][i] \notin others
    <2> SUFFICES ASSUME cache[s][i].valid, NEW x \in rest,
                        NumbersIn[x[1]][x[2]] = NumbersIn[s][i]
                 PROVE  FALSE
      OBVIOUS
    <2>1. x = <<x[1], x[2]>> /\ x[1] \in SetIndex /\ x[2] \in Ways
      OBVIOUS
    <2>2. x[1] = s /\ cache[s][x[2]].dirty
      BY <1>1, <2>1 DEF StampsDiffer
    <2>3. cache[s][x[2]].valid
      BY <1>1, <2>1, <2>2 DEF DirtyIsValid
    <2>4. x[2] \in ValidIn[s] /\ i \in ValidIn[s]
      BY <1>1, <2>1, <2>3 DEF StampsDiffer
    <2>5. x[2] = i
      <3>1. NumbersIn[s][x[2]] = NumbersIn[s][i]
        BY <2>2
      <3> QED BY <1>1, <2>4, <3>1 DEF StampsDiffer
    <2> QED BY <2>1, <2>2, <2>5
  <1>9. DirtyIsValid'
    BY <1>1, <1>2 DEF DirtyIsValid
  <1> DEFINE new == [x \in SetIndex \X Ways |-> NumbersIn'[x[1]][x[2]]]
             old == [x \in SetIndex \X Ways |-> NumbersIn[x[1]][x[2]]]
             here == <<s, i>>
  <1>10. /\ here \in SetIndex \X Ways /\ rest \subseteq SetIndex \X Ways
         /\ new[here] = n /\ old[here] = NumbersIn[s][i]
         /\ \A x \in rest : new[x] = old[x]
    BY <1>3, <1>7
  <1>11. /\ others = {old[x] : x \in rest}
         /\ ModifiedIn = {old[x] : x \in DirtyBlocks}
         /\ ModifiedIn' = {new[x] : x \in DirtyBlocks'}
    BY <1>4 DEF DirtyBlocks
  <1> HIDE DEF rest, others, new, old, here, n
  <1>12. ModifiedIn = others \cup
            (IF cache[s][i].dirty THEN {NumbersIn[s][i]} ELSE {})
    <2>1. DirtyBlocks = rest \cup (IF cache[s][i].dirty THEN {here} ELSE {})
      BY <1>5 DEF here
    <2> QED BY <1>10, <1>11, <2>1
  <1>13. ModifiedIn' = others \cup (IF b.dirty THEN {n} ELSE {})
    <2>1. DirtyBlocks' = rest \cup (IF b.dirty THEN {here} ELSE {})
      BY <1>6 DEF here
    <2>2. others = {new[x] : x \in rest}
      BY <1>10, <1>11
    <2> QED BY <1>10, <1>11, <2>1, <2>2
  <1> QED BY <1>8, <1>9, <1>12, <1>13 DEF n

-----------------------------------------------------------------------------
(* The three cases of an access are accesses of the abstract cache.         *)

(* The block of an address, and the counts.                                 *)
LEMMA BlockOf ==
    ASSUME NEW a \in Addresses
    PROVE  /\ getindex(a) \in SetIndex /\ gettag(a) \in Nat
           /\ a \div 2^B = gettag(a) * 2^indexbit + getindex(a)
           /\ Lru!SetOf(a \div 2^B) = getindex(a)
  <1>1. /\ getindex(a) \in SetIndex /\ gettag(a) \in Nat
        /\ a \div 2^B = gettag(a) * 2^indexbit + getindex(a)
    BY AddressIsSplit
  <1>2. (gettag(a) * 2^indexbit + getindex(a)) % 2^indexbit = getindex(a)
    BY <1>1, NumberIsSplit
  <1> QED BY <1>1, <1>2 DEF Lru!SetOf

(* The two counts of misses are counted together.                           *)
LEMMA CountsOf ==
    ASSUME CacheTypeOK, NEW rw \in {"r", "w"}, NEW miss \in BOOLEAN,
           NEW back \in BOOLEAN, Count(rw, miss, back)
    PROVE  /\ stats'.read_misses + stats'.write_misses
                 = stats.read_misses + stats.write_misses
                      + (IF miss THEN 1 ELSE 0)
           /\ stats'.write_backs = stats.write_backs + (IF back THEN 1 ELSE 0)
  <1>1. stats \in Stats
    BY DEF CacheTypeOK
  <1>2. /\ stats'.read_misses = stats.read_misses + One(rw = "r" /\ miss)
        /\ stats'.write_misses = stats.write_misses + One(rw = "w" /\ miss)
        /\ stats'.write_backs = stats.write_backs + One(back)
    BY DEF Count
  <1>3. One(rw = "r" /\ miss) + One(rw = "w" /\ miss)
           = (IF miss THEN 1 ELSE 0)
    BY DEF One
  <1>4. /\ One(rw = "r" /\ miss) \in Nat /\ One(rw = "w" /\ miss) \in Nat
        /\ stats.read_misses \in Nat /\ stats.write_misses \in Nat
    BY <1>1 DEF One, Stats
  <1>5. One(back) = IF back THEN 1 ELSE 0
    BY DEF One
  <1>6. \A u, v, p, q \in Nat : (u + p) + (v + q) = (u + v) + (p + q)
    OBVIOUS
  <1> HIDE DEF One
  <1>7. stats'.read_misses + stats'.write_misses
           = (stats.read_misses + stats.write_misses)
                + (One(rw = "r" /\ miss) + One(rw = "w" /\ miss))
    BY <1>2, <1>4, <1>6
  <1> QED BY <1>2, <1>3, <1>5, <1>7

(* What makes an access one of the abstract cache.                          *)
LEMMA IsAccess ==
    ASSUME NEW a \in Addresses, NEW rw \in {"r", "w"},
           NEW miss \in BOOLEAN, NEW full \in BOOLEAN, NEW kept,
           CacheTypeOK,
           miss <=> ~Lru!Contains(RecencyIn[getindex(a)], a \div 2^B),
           full <=> miss /\ Len(RecencyIn[getindex(a)]) = 2^S,
           kept = IF full THEN Front(RecencyIn[getindex(a)])
                  ELSE Lru!Without(RecencyIn[getindex(a)], a \div 2^B),
           RecencyIn' = [RecencyIn EXCEPT ![getindex(a)] =
                            <<a \div 2^B>> \o kept],
           ModifiedIn' = (ModifiedIn \ (IF full
                              THEN {Last(RecencyIn[getindex(a)])} ELSE {}))
                            \cup (IF rw = "w" THEN {a \div 2^B} ELSE {}),
           Count(rw, miss, full /\ Last(RecencyIn[getindex(a)]) \in ModifiedIn)
    PROVE  Lru!Access(a \div 2^B, rw = "w")
  <1> DEFINE b == a \div 2^B
             s == getindex(a)
             old == RecencyIn[s]
             back == full /\ Last(old) \in ModifiedIn
  <1>1. Lru!SetOf(b) = s
    BY BlockOf
  <1>2. back \in BOOLEAN
    OBVIOUS
  <1>3. /\ stats'.read_misses + stats'.write_misses
             = stats.read_misses + stats.write_misses
                  + (IF miss THEN 1 ELSE 0)
        /\ stats'.write_backs = stats.write_backs + (IF back THEN 1 ELSE 0)
    <2> HIDE DEF back
    <2>1. Count(rw, miss, back)
      BY DEF back
    <2> QED BY <1>2, <2>1, CountsOf
  <1>4. /\ [r \in SetIndex |-> Recency(r)] = RecencyIn
        /\ {Number(x[1], x[2]) : x \in DirtyBlocks} = ModifiedIn
    BY DEF RecencyIn, ModifiedIn
  <1>5. /\ [r \in SetIndex |-> Recency(r)]' = RecencyIn'
        /\ {Number(x[1], x[2]) : x \in DirtyBlocks}' = ModifiedIn'
    BY DEF RecencyIn, ModifiedIn
  <1> DEFINE was == RecencyIn[Lru!SetOf(b)]
             absent == ~Lru!Contains(was, b)
             crowded == absent /\ Len(was) = 2^S
             left == IF crowded THEN Lru!Front(was) ELSE Lru!Without(was, b)
             paid == crowded /\ Lru!Last(was) \in ModifiedIn
  <1>6. /\ was = old /\ Lru!Last(was) = Last(old)
        /\ Lru!Front(was) = Front(old)
    BY <1>1 DEF Lru!Front, Lru!Last, Front, Last
  <1>7. absent = miss /\ crowded = full /\ paid = back
    BY <1>6
  <1>8. left = kept
    BY <1>6, <1>7
  <1>9. RecencyIn' = [RecencyIn EXCEPT ![Lru!SetOf(b)] = <<b>> \o left]
    <2> HIDE DEF left, was
    <2> QED BY <1>1, <1>8
  <1>10. ModifiedIn' = (ModifiedIn \ (IF crowded THEN {Lru!Last(was)} ELSE {}))
                          \cup (IF rw = "w" THEN {b} ELSE {})
    <2> HIDE DEF crowded, was
    <2> QED BY <1>6, <1>7
  <1>11. /\ stats'.read_misses + stats'.write_misses
              = stats.read_misses + stats.write_misses
                   + (IF absent THEN 1 ELSE 0)
         /\ stats'.write_backs = stats.write_backs + (IF paid THEN 1 ELSE 0)
    <2> HIDE DEF absent, paid, back
    <2> QED BY <1>3, <1>7
  <1> QED BY <1>4, <1>5, <1>9, <1>10, <1>11 DEF Lru!Access

(* A set's list before an access, in ways and in numbers.                   *)
IsListOf(s, list) ==
    LET old == RecencyIn[s]
    IN  /\ list \in Seq(Ways) /\ Lists(list, ValidIn[s], StampsIn[s])
        /\ old = Named(list, NumbersIn[s])
        /\ old \in Seq(Nat) /\ Len(old) = Len(list)
        /\ Len(list) = Cardinality(ValidIn[s])
        /\ \A k \in 1 .. Len(list) :
             /\ list[k] \in ValidIn[s] /\ old[k] = NumbersIn[s][list[k]]
             /\ RemoveAt(list, k) \in Seq(Ways)
             /\ Lists(RemoveAt(list, k), ValidIn[s] \ {list[k]}, StampsIn[s])
             /\ RemoveAt(old, k) = Named(RemoveAt(list, k), NumbersIn[s])
        /\ \A j, k \in 1 .. Len(list) : old[j] = old[k] => j = k

(* There is such a list.                                                    *)
LEMMA OldList ==
    ASSUME LruInv, NEW s \in SetIndex
    PROVE  \E list : IsListOf(s, list)
  <1>1. PICK list \in Seq(Ways) : Lists(list, ValidIn[s], StampsIn[s])
    BY DEF LruInv, SetsAreListed
  <1>2. StampsDiffer /\ RecencyIsList
    BY BeforeAndAfter DEF LruInv
  <1> DEFINE old == RecencyIn[s]
  <1>3. /\ old = Named(list, NumbersIn[s])
        /\ Len(list) = Cardinality(ValidIn[s])
    BY <1>1, <1>2 DEF RecencyIsList
  <1>4. /\ IsFiniteSet(ValidIn[s]) /\ ValidIn[s] \subseteq Ways
        /\ \A i \in Ways : NumbersIn[s][i] \in Nat
        /\ \A i \in ValidIn[s] : StampsIn[s][i] \in Int
    BY <1>2 DEF StampsDiffer
  <1>5. /\ old \in Seq(Nat) /\ Len(old) = Len(list)
        /\ \A k \in 1 .. Len(list) :
             RemoveAt(old, k) = Named(RemoveAt(list, k), NumbersIn[s])
    BY <1>3, <1>4, NamedLists
  <1>6. /\ DOMAIN list = 1 .. Len(list)
        /\ \A k \in 1 .. Len(list) :
             list[k] \in ValidIn[s] /\ old[k] = NumbersIn[s][list[k]]
    BY <1>1, <1>3 DEF Lists, Named
  <1>7. ASSUME NEW k \in 1 .. Len(list)
        PROVE  /\ RemoveAt(list, k) \in Seq(Ways)
               /\ Lists(RemoveAt(list, k), ValidIn[s] \ {list[k]}, StampsIn[s])
    <2>1. RemoveAt(list, k) \in Seq(Ways)
      BY RemovedAt
    <2>2. k \in DOMAIN list
      BY <1>6
    <2> QED BY <1>1, <1>4, <2>1, <2>2, OneLess
  <1>8. ASSUME NEW j \in 1 .. Len(list), NEW k \in 1 .. Len(list),
               old[j] = old[k]
        PROVE  j = k
    <2>1. list[j] = list[k]
      BY <1>2, <1>6, <1>8 DEF StampsDiffer
    <2> QED BY <1>1, <1>4, <1>6, <2>1, ListCounts
  <1>9. \A j, k \in 1 .. Len(list) : old[j] = old[k] => j = k
    BY <1>8
  <1> HIDE DEF old
  <1>10. \A k \in 1 .. Len(list) :
           /\ list[k] \in ValidIn[s] /\ old[k] = NumbersIn[s][list[k]]
           /\ RemoveAt(list, k) \in Seq(Ways)
           /\ Lists(RemoveAt(list, k), ValidIn[s] \ {list[k]}, StampsIn[s])
           /\ RemoveAt(old, k) = Named(RemoveAt(list, k), NumbersIn[s])
    BY <1>5, <1>6, <1>7
  <1> QED BY <1>1, <1>3, <1>5, <1>9, <1>10, Zenon DEF old, IsListOf

(* A hit moves its block to the front.                                      *)
LEMMA HitIsAccess ==
    ASSUME LruInv, CacheInv', NEW rw \in {"r", "w"}, NEW a \in Addresses,
           Hit(rw, a)
    PROVE  /\ Lru!Access(a \div 2^B, rw = "w")
           /\ SetsAreListed' /\ DirtyIsValid'
  <1> DEFINE s == getindex(a)
             t == gettag(a)
             n == a \div 2^B
             old == RecencyIn[s]
  <1>1. PICK i \in Ways :
           /\ Holds(s, i, t)
           /\ Touch(s, i, [cache[s][i] EXCEPT !.dirty = @ \/ rw = "w"])
    BY DEF Hit
  <1>2. s \in SetIndex /\ t \in Nat /\ n = t * 2^indexbit + s
    BY BlockOf
  <1>3. CacheTypeOK /\ StampsDiffer
    BY BeforeAndAfter DEF LruInv, CacheInv
  <1> DEFINE b == [cache[s][i] EXCEPT !.dirty = @ \/ rw = "w"]
  <1>4. /\ cache[s][i] \in Blocks /\ cache[s][i].valid /\ cache[s][i].tag = t
    BY <1>1, <1>2, <1>3 DEF CacheTypeOK, Holds
  <1>5. /\ b \in Blocks /\ b.valid /\ b.tag = t
        /\ b.dirty <=> cache[s][i].dirty \/ rw = "w"
    BY <1>4 DEF Blocks
  <1>6. i \in ValidIn[s] /\ NumbersIn[s][i] = n
    BY <1>2, <1>3, <1>4 DEF StampsDiffer
  <1>7. PICK list : IsListOf(s, list)
    BY <1>2, OldList
  <1>8. /\ Lists(list, ValidIn[s], StampsIn[s]) /\ list \in Seq(Ways)
        /\ old \in Seq(Nat) /\ Len(old) = Len(list)
        /\ \A j, k \in 1 .. Len(list) : old[j] = old[k] => j = k
    BY <1>7 DEF IsListOf
  <1>9. PICK p \in 1 .. Len(list) : list[p] = i
    BY <1>6, <1>8 DEF Lists
  <1>10. /\ old[p] = n /\ RemoveAt(list, p) \in Seq(Ways)
         /\ Lists(RemoveAt(list, p), ValidIn[s] \ {i}, StampsIn[s])
         /\ RemoveAt(old, p) = Named(RemoveAt(list, p), NumbersIn[s])
    BY <1>6, <1>7, <1>9 DEF IsListOf
  <1>11. Touch(s, i, b)
    BY <1>1
  <1> HIDE DEF s, t, n, old, b
  <1>12. /\ Lru!Contains(old, n)
         /\ Lru!Without(old, n) = RemoveAt(old, p)
    <2>1. /\ DOMAIN old = 1 .. Len(list)
          /\ \A j \in 1 .. Len(list) : old[j] = n => j = p
      BY <1>8, <1>10
    <2>2. (CHOOSE j \in DOMAIN old : old[j] = n) = p
      BY <1>10, <2>1
    <2>3. Lru!Contains(old, n)
      BY <1>10, <2>1 DEF Lru!Contains
    <2> QED BY <2>2, <2>3 DEF Lru!Without, Lru!RemoveAt, RemoveAt
  <1>13. /\ SetsAreListed'
         /\ RecencyIn' = [RecencyIn EXCEPT ![s] = <<n>> \o RemoveAt(old, p)]
    <2> DEFINE less == RemoveAt(list, p)
    <2>1. /\ less \in Seq(Ways) /\ Lists(less, ValidIn[s] \ {i}, StampsIn[s])
          /\ RemoveAt(old, p) = Named(less, NumbersIn[s])
      BY <1>10
    <2> HIDE DEF less
    <2>2. /\ SetsAreListed'
          /\ RecencyIn' = [RecencyIn EXCEPT ![s] =
                <<b.tag * 2^indexbit + s>> \o Named(less, NumbersIn[s])]
      BY <1>2, <1>5, <1>11, <2>1, TouchedComesFirst, Zenon
    <2> QED BY <1>2, <1>5, <2>1, <2>2
  <1>14. /\ DirtyIsValid'
         /\ ModifiedIn' = ModifiedIn \cup (IF rw = "w" THEN {n} ELSE {})
    <2>1. DirtyIsValid'
      BY <1>2, <1>5, <1>11, ModifiedOthers
    <2>2. PICK others :
             /\ ModifiedIn = others \cup
                  (IF cache[s][i].dirty THEN {NumbersIn[s][i]} ELSE {})
             /\ ModifiedIn' = others \cup
                  (IF b.dirty THEN {b.tag * 2^indexbit + s} ELSE {})
             /\ cache[s][i].valid => NumbersIn[s][i] \notin others
      BY <1>2, <1>5, <1>11, ModifiedOthers, Zenon
    <2> QED BY <1>2, <1>5, <1>6, <2>1, <2>2
  <1>15. Count(rw, FALSE, FALSE)
    BY DEF Hit
  <1>16. Lru!Access(n, rw = "w")
    <2>1. ModifiedIn' = (ModifiedIn \ (IF FALSE THEN {Last(old)} ELSE {}))
                          \cup (IF rw = "w" THEN {n} ELSE {})
      BY <1>14
    <2>2. Count(rw, FALSE, FALSE /\ Last(old) \in ModifiedIn)
      BY <1>15
    <2>3. RemoveAt(old, p) = IF FALSE THEN Front(old) ELSE Lru!Without(old, n)
      BY <1>12
    <2> QED BY <1>3, <1>12, <1>13, <2>1, <2>2, <2>3, IsAccess DEF s, n, old
  <1> QED BY <1>13, <1>14, <1>16 DEF n

(* A block that the cache does not hold is not in its set's list.           *)
LEMMA MissIsAbsent ==
    ASSUME LruInv, NEW a \in Addresses, Miss(a)
    PROVE  ~Lru!Contains(RecencyIn[getindex(a)], a \div 2^B)
  <1> DEFINE s == getindex(a)
             t == gettag(a)
             n == a \div 2^B
             old == RecencyIn[s]
  <1>1. s \in SetIndex /\ t \in Nat /\ n = t * 2^indexbit + s
    BY BlockOf
  <1>2. CacheTypeOK /\ StampsDiffer
    BY BeforeAndAfter DEF LruInv, CacheInv
  <1>3. PICK list : IsListOf(s, list)
    BY <1>1, OldList
  <1>4. ASSUME NEW k \in 1 .. Len(list) PROVE old[k] # n
    <2> DEFINE j == list[k]
    <2>1. j \in ValidIn[s] /\ old[k] = NumbersIn[s][j]
      BY <1>3 DEF IsListOf
    <2>2. /\ j \in Ways /\ cache[s][j].valid /\ cache[s][j].tag \in Nat
          /\ NumbersIn[s][j] = cache[s][j].tag * 2^indexbit + s
      BY <1>1, <1>2, <2>1 DEF StampsDiffer, CacheTypeOK, Blocks
    <2>3. cache[s][j].tag # t
      BY <2>2 DEF Miss, Holds
    <2> HIDE DEF s, t, n, old, j
    <2>4. n \div 2^indexbit = t
      <3>1. (t * 2^indexbit + s) \div 2^indexbit = t
        BY <1>1, NumberIsSplit
      <3> QED BY <1>1, <3>1, Zenon
    <2>5. NumbersIn[s][j] \div 2^indexbit = cache[s][j].tag
      <3>1. (cache[s][j].tag * 2^indexbit + s) \div 2^indexbit
              = cache[s][j].tag
        BY <1>1, <2>2, NumberIsSplit
      <3> QED BY <2>2, <3>1, Zenon
    <2> QED BY <2>1, <2>3, <2>4, <2>5, Zenon
  <1>5. old \in Seq(Nat) /\ Len(old) = Len(list)
    BY <1>3 DEF IsListOf
  <1> HIDE DEF s, n, old
  <1>6. \A k \in 1 .. Len(old) : old[k] # n
    BY <1>4, <1>5
  <1> QED BY <1>6 DEF Lru!Contains, s, n, old

(* The block that is fetched.                                               *)
LEMMA FetchedBlock ==
    ASSUME LruInv, NEW a \in Addresses, NEW rw \in {"r", "w"}, NEW i \in Ways,
           NEW b, b = Fetched(cache[getindex(a)][i], rw, a)
    PROVE  /\ b \in Blocks /\ b.valid /\ b.dirty = (rw = "w")
           /\ b.tag = gettag(a)
  <1>1. getindex(a) \in SetIndex /\ gettag(a) \in Nat
    BY BlockOf
  <1>2. cache[getindex(a)][i] \in Blocks
    BY <1>1 DEF LruInv, CacheInv, CacheTypeOK
  <1> QED BY <1>1, <1>2 DEF Fetched, Blocks

(* A fill puts its block in front of a list that is not full.               *)
LEMMA FillIsAccess ==
    ASSUME LruInv, CacheInv', NEW rw \in {"r", "w"}, NEW a \in Addresses,
           FillInvalid(rw, a)
    PROVE  /\ Lru!Access(a \div 2^B, rw = "w")
           /\ SetsAreListed' /\ DirtyIsValid'
  <1> DEFINE s == getindex(a)
             t == gettag(a)
             n == a \div 2^B
             old == RecencyIn[s]
  <1>1. PICK i \in Ways :
           /\ ~cache[s][i].valid
           /\ Touch(s, i, Fetched(cache[s][i], rw, a))
    BY DEF FillInvalid
  <1>2. s \in SetIndex /\ t \in Nat /\ n = t * 2^indexbit + s
    BY BlockOf
  <1>3. CacheTypeOK /\ StampsDiffer /\ DirtyIsValid
    BY BeforeAndAfter DEF LruInv, CacheInv
  <1> DEFINE b == Fetched(cache[s][i], rw, a)
  <1>4. /\ b \in Blocks /\ b.valid /\ b.dirty = (rw = "w") /\ b.tag = t
    BY FetchedBlock
  <1>5. ~cache[s][i].dirty
    BY <1>1, <1>2, <1>3 DEF DirtyIsValid
  <1>6. /\ ValidIn[s] \in SUBSET Ways /\ i \notin ValidIn[s]
        /\ ValidIn[s] \ {i} = ValidIn[s]
    BY <1>1, <1>2, <1>3 DEF StampsDiffer
  <1>7. PICK list : IsListOf(s, list)
    BY <1>2, OldList
  <1>8. /\ Lists(list, ValidIn[s], StampsIn[s]) /\ list \in Seq(Ways)
        /\ old = Named(list, NumbersIn[s])
        /\ Len(old) = Cardinality(ValidIn[s])
    BY <1>7 DEF IsListOf
  <1>9. ~Lru!Contains(old, n)
    BY MissIsAbsent DEF FillInvalid
  <1>10. Len(old) # 2^S
    BY <1>6, <1>8, Geometry, FS_Subset
  <1>11. Touch(s, i, b) /\ Count(rw, TRUE, FALSE)
    BY <1>1 DEF FillInvalid
  <1> HIDE DEF s, t, n, old, b
  <1>12. Lru!Without(old, n) = old
    BY <1>9 DEF Lru!Without
  <1>13. /\ SetsAreListed'
         /\ RecencyIn' = [RecencyIn EXCEPT ![s] = <<n>> \o old]
    <2>1. Lists(list, ValidIn[s] \ {i}, StampsIn[s])
      BY <1>6, <1>8
    <2>2. /\ SetsAreListed'
          /\ RecencyIn' = [RecencyIn EXCEPT ![s] =
                <<b.tag * 2^indexbit + s>> \o Named(list, NumbersIn[s])]
      <3>1. b \in Blocks /\ b.valid
        BY <1>4
      <3> QED BY <1>2, <1>8, <1>11, <2>1, <3>1, TouchedComesFirst, Zenon
    <2> QED BY <1>2, <1>4, <1>8, <2>2
  <1>14. /\ DirtyIsValid'
         /\ ModifiedIn' = ModifiedIn \cup (IF rw = "w" THEN {n} ELSE {})
    <2>1. DirtyIsValid'
      BY <1>2, <1>4, <1>11, ModifiedOthers
    <2>2. PICK others :
             /\ ModifiedIn = others \cup
                  (IF cache[s][i].dirty THEN {NumbersIn[s][i]} ELSE {})
             /\ ModifiedIn' = others \cup
                  (IF b.dirty THEN {b.tag * 2^indexbit + s} ELSE {})
             /\ cache[s][i].valid => NumbersIn[s][i] \notin others
      BY <1>2, <1>4, <1>11, ModifiedOthers, Zenon
    <2> QED BY <1>2, <1>4, <1>5, <2>1, <2>2
  <1>15. Lru!Access(n, rw = "w")
    <2>1. ModifiedIn' = (ModifiedIn \ (IF FALSE THEN {Last(old)} ELSE {}))
                          \cup (IF rw = "w" THEN {n} ELSE {})
      BY <1>14
    <2>2. Count(rw, TRUE, FALSE /\ Last(old) \in ModifiedIn)
      BY <1>11
    <2>3. old = IF FALSE THEN Front(old) ELSE Lru!Without(old, n)
      BY <1>12
    <2> QED BY <1>3, <1>9, <1>10, <1>13, <2>1, <2>2, <2>3, IsAccess
            DEF s, n, old
  <1> QED BY <1>13, <1>14, <1>15 DEF n

(* An eviction takes out the last of a list that is full, and writes it     *)
(* back just when it was modified.                                          *)
LEMMA EvictIsAccess ==
    ASSUME LruInv, CacheInv', NEW rw \in {"r", "w"}, NEW a \in Addresses,
           EvictLru(rw, a)
    PROVE  /\ Lru!Access(a \div 2^B, rw = "w")
           /\ SetsAreListed' /\ DirtyIsValid'
  <1> DEFINE s == getindex(a)
             t == gettag(a)
             n == a \div 2^B
             old == RecencyIn[s]
  <1>1. PICK i \in Ways :
           /\ Oldest(s, i)
           /\ Touch(s, i, Fetched(cache[s][i], rw, a))
           /\ Count(rw, TRUE, cache[s][i].dirty)
    BY DEF EvictLru
  <1>2. s \in SetIndex /\ t \in Nat /\ n = t * 2^indexbit + s
    BY BlockOf
  <1>3. CacheTypeOK /\ StampsDiffer
    BY BeforeAndAfter DEF LruInv, CacheInv
  <1> DEFINE b == Fetched(cache[s][i], rw, a)
  <1>4. /\ b \in Blocks /\ b.valid /\ b.dirty = (rw = "w") /\ b.tag = t
    BY FetchedBlock
  <1>5. ValidIn[s] = Ways /\ cache[s][i].valid /\ cache[s][i].dirty \in BOOLEAN
    <2>1. \A j \in Ways : cache[s][j].valid
      BY DEF EvictLru
    <2>2. ValidIn[s] = {j \in Ways : cache[s][j].valid}
      BY <1>2, <1>3 DEF StampsDiffer
    <2>3. ValidIn[s] = Ways
      BY <2>1, <2>2
    <2>4. cache[s][i].dirty \in BOOLEAN
      BY <1>2, <1>3 DEF CacheTypeOK, Blocks
    <2> QED BY <2>1, <2>3, <2>4
  <1>6. \A j \in Ways : /\ StampsIn[s][j] \in Int
                        /\ StampsIn[s][i] <= StampsIn[s][j]
    BY <1>1, <1>2, <1>3 DEF StampsDiffer, Oldest
  <1>7. PICK list : IsListOf(s, list)
    BY <1>2, OldList
  <1>8. /\ Lists(list, Ways, StampsIn[s]) /\ list \in Seq(Ways)
        /\ old \in Seq(Nat) /\ Len(old) = Len(list)
        /\ Len(list) = Cardinality(Ways)
    BY <1>5, <1>7 DEF IsListOf
  <1>9. ~Lru!Contains(old, n)
    BY MissIsAbsent DEF EvictLru
  <1>10. Len(old) = 2^S
    BY <1>8, Geometry
  <1>11. Touch(s, i, b) /\ Count(rw, TRUE, cache[s][i].dirty)
    BY <1>1
  <1>12. PICK p \in 1 .. Len(list) : list[p] = i
    BY <1>8 DEF Lists
  <1>13. p = Len(list)
    <2> SUFFICES ASSUME p < Len(list) PROVE FALSE
      BY <1>8
    <2>1. Len(list) \in DOMAIN list /\ p \in DOMAIN list
          /\ list[Len(list)] \in Ways
      BY <1>8
    <2>2. StampsIn[s][list[p]] > StampsIn[s][list[Len(list)]]
      BY <1>8, <2>1 DEF Lists, Falls
    <2>3. StampsIn[s][list[p]] <= StampsIn[s][list[Len(list)]]
          /\ StampsIn[s][list[p]] \in Int
          /\ StampsIn[s][list[Len(list)]] \in Int
      BY <1>6, <1>12, <2>1
    <2> QED BY <2>2, <2>3
  <1>14. /\ old[p] = NumbersIn[s][i] /\ RemoveAt(list, p) \in Seq(Ways)
         /\ Lists(RemoveAt(list, p), ValidIn[s] \ {i}, StampsIn[s])
         /\ RemoveAt(old, p) = Named(RemoveAt(list, p), NumbersIn[s])
    BY <1>7, <1>12 DEF IsListOf
  <1> HIDE DEF s, t, n, old, b
  <1>15. RemoveAt(old, p) = Front(old) /\ Last(old) = NumbersIn[s][i]
    <2>1. old \in Seq(Nat) /\ p \in 1 .. Len(old) /\ p = Len(old)
      BY <1>8, <1>13
    <2>2. RemoveAt(old, p) = Front(old)
      BY <2>1, RemovedAt
    <2> QED BY <1>14, <2>1, <2>2 DEF Last
  <1>16. /\ SetsAreListed'
         /\ RecencyIn' = [RecencyIn EXCEPT ![s] = <<n>> \o Front(old)]
    <2> DEFINE less == RemoveAt(list, p)
    <2>1. /\ less \in Seq(Ways) /\ Lists(less, ValidIn[s] \ {i}, StampsIn[s])
          /\ Front(old) = Named(less, NumbersIn[s])
      BY <1>14, <1>15
    <2> HIDE DEF less
    <2>2. /\ SetsAreListed'
          /\ RecencyIn' = [RecencyIn EXCEPT ![s] =
                <<b.tag * 2^indexbit + s>> \o Named(less, NumbersIn[s])]
      <3>1. b \in Blocks /\ b.valid
        BY <1>4
      <3> QED BY <1>2, <1>11, <2>1, <3>1, TouchedComesFirst, Zenon
    <2> QED BY <1>2, <1>4, <2>1, <2>2
  <1>17. /\ DirtyIsValid'
         /\ ModifiedIn' = (ModifiedIn \ {Last(old)})
                             \cup (IF rw = "w" THEN {n} ELSE {})
         /\ cache[s][i].dirty = (Last(old) \in ModifiedIn)
    <2>1. DirtyIsValid'
      BY <1>2, <1>4, <1>11, ModifiedOthers
    <2>2. PICK others :
             /\ ModifiedIn = others \cup
                  (IF cache[s][i].dirty THEN {NumbersIn[s][i]} ELSE {})
             /\ ModifiedIn' = others \cup
                  (IF b.dirty THEN {b.tag * 2^indexbit + s} ELSE {})
             /\ cache[s][i].valid => NumbersIn[s][i] \notin others
      BY <1>2, <1>4, <1>11, ModifiedOthers, Zenon
    <2>3. Last(old) \notin others /\ Last(old) = NumbersIn[s][i]
      BY <1>5, <1>15, <2>2
    <2>4. ModifiedIn \ {Last(old)} = others
      BY <2>2, <2>3
    <2>5. ModifiedIn' = (ModifiedIn \ {Last(old)})
                             \cup (IF rw = "w" THEN {n} ELSE {})
      BY <1>2, <1>4, <2>2, <2>4
    <2>6. cache[s][i].dirty = (Last(old) \in ModifiedIn)
      BY <1>5, <2>2, <2>3
    <2> QED BY <2>1, <2>5, <2>6
  <1>18. Lru!Access(n, rw = "w")
    <2>1. ModifiedIn' = (ModifiedIn \ (IF TRUE THEN {Last(old)} ELSE {}))
                          \cup (IF rw = "w" THEN {n} ELSE {})
      BY <1>17
    <2>2. Count(rw, TRUE, TRUE /\ Last(old) \in ModifiedIn)
      BY <1>11, <1>17 DEF Count, One
    <2>3. Front(old) = IF TRUE THEN Front(old) ELSE Lru!Without(old, n)
      OBVIOUS
    <2> QED BY <1>3, <1>9, <1>10, <1>16, <2>1, <2>2, <2>3, IsAccess
            DEF s, n, old
  <1> QED BY <1>16, <1>17, <1>18 DEF n

-----------------------------------------------------------------------------
(* At the start no set lists anything.                                      *)
LEMMA CacheStartsEmpty == cache_init => LruInv /\ Lru!LruInit
  <1> SUFFICES ASSUME cache_init PROVE LruInv /\ Lru!LruInit
    OBVIOUS
  <1>1. CacheInv /\ StampsDiffer /\ RecencyIsList
    BY CacheStarts, BeforeAndAfter
  <1>2. \A s \in SetIndex, i \in Ways :
           cache[s][i].valid = FALSE /\ cache[s][i].dirty = FALSE
    BY DEF cache_init
  <1>3. ASSUME NEW s \in SetIndex
        PROVE  /\ Lists(<<>>, ValidIn[s], StampsIn[s])
               /\ RecencyIn[s] = <<>>
    <2>1. ValidIn[s] = {}
      BY <1>1, <1>2 DEF StampsDiffer
    <2>2. Lists(<<>>, ValidIn[s], StampsIn[s])
      BY <2>1 DEF Lists, Falls
    <2>3. <<>> \in Seq(Ways)
      OBVIOUS
    <2>4. RecencyIn[s] = Named(<<>>, NumbersIn[s])
      BY <1>1, <2>2, <2>3 DEF RecencyIsList
    <2> QED BY <2>2, <2>4 DEF Named
  <1>4. SetsAreListed
    <2>1. <<>> \in Seq(Ways)
      OBVIOUS
    <2> QED BY <1>3, <2>1 DEF SetsAreListed
  <1>5. DirtyIsValid
    BY <1>2 DEF DirtyIsValid
  <1>6. [s \in SetIndex |-> Recency(s)] = [s \in SetIndex |-> <<>>]
    <2>1. \A s \in SetIndex : Recency(s) = <<>>
      BY <1>3 DEF RecencyIn
    <2> QED BY <2>1
  <1>7. {Number(x[1], x[2]) : x \in DirtyBlocks} = {}
    <2>1. DirtyBlocks = {}
      BY <1>2 DEF DirtyBlocks
    <2> QED BY <2>1
  <1>8. stats.read_misses + stats.write_misses = 0 /\ stats.write_backs = 0
    BY DEF cache_init
  <1>9. Lru!LruInit
    BY <1>6, <1>7, <1>8 DEF Lru!LruInit, SetIndex
  <1> QED BY <1>1, <1>4, <1>5, <1>9 DEF LruInv

(* Where the blocks and the counts stay, so does the abstract cache.        *)
LEMMA LruStays ==
    ASSUME LruInv, CacheInv', cache' = cache,
           stats'.read_misses + stats'.write_misses
              = stats.read_misses + stats.write_misses,
           stats'.write_backs = stats.write_backs
    PROVE  LruInv' /\ UNCHANGED Lru!lruVars
  <1>1. /\ ValidIn' = ValidIn /\ StampsIn' = StampsIn
        /\ [s \in SetIndex |-> Recency(s)]' = [s \in SetIndex |-> Recency(s)]
        /\ {Number(x[1], x[2]) : x \in DirtyBlocks}'
              = {Number(x[1], x[2]) : x \in DirtyBlocks}
    BY DEF ValidIn, StampsIn, Valid, Recency, Number, DirtyBlocks
  <1>2. SetsAreListed' /\ DirtyIsValid'
    BY <1>1 DEF LruInv, SetsAreListed, DirtyIsValid
  <1> QED BY <1>1, <1>2 DEF LruInv, Lru!lruVars

(* Every step of the simulator is an access of the abstract cache or leaves *)
(* it alone.                                                                *)
LEMMA CacheStepIsLru ==
    ASSUME LruInv, CacheInv', [CacheNext]_cacheVars
    PROVE  LruInv' /\ [Lru!LruNext]_(Lru!lruVars)
  <1>1. ASSUME NEW rw \in {"r", "w"}, NEW a \in Addresses,
               Hit(rw, a) \/ FillInvalid(rw, a) \/ EvictLru(rw, a)
        PROVE  LruInv' /\ Lru!LruNext
    <2>1. /\ Lru!Access(a \div 2^B, rw = "w")
          /\ SetsAreListed' /\ DirtyIsValid'
      BY <1>1, HitIsAccess, FillIsAccess, EvictIsAccess
    <2>2. /\ a \div 2^B \in {x \div 2^B : x \in Addresses}
          /\ (rw = "w") \in BOOLEAN
      OBVIOUS
    <2>3. Lru!LruNext
      BY <2>1, <2>2 DEF Lru!LruNext
    <2> QED BY <2>1, <2>3 DEF LruInv
  <1>2. CASE cache_cleanup
    <2>1. stats \in Stats
      BY DEF LruInv, CacheInv, CacheTypeOK
    <2>2. /\ cache' = cache
          /\ stats'.read_misses = stats.read_misses
          /\ stats'.write_misses = stats.write_misses
          /\ stats'.write_backs = stats.write_backs
      BY <1>2, <2>1 DEF cache_cleanup, Stats
    <2> QED BY <2>2, LruStays
  <1>3. CASE UNCHANGED cacheVars
    BY <1>3, LruStays DEF cacheVars
  <1> QED BY <1>1, <1>2, <1>3 DEF CacheNext, cache_access

(* Every set can always be listed by its stamps: no two of its blocks, all  *)
(* of different tags, share one, and what is dirty holds a block.           *)
THEOREM LruInvHolds == CacheSpec => []LruInv
  <1>1. cache_init => LruInv
    BY CacheStartsEmpty
  <1>2. LruInv /\ CacheInv' /\ [CacheNext]_cacheVars => LruInv'
    BY CacheStepIsLru
  <1>3. CacheSpec => []CacheInv
    BY CacheInvHolds, PTL
  <1> QED BY <1>1, <1>2, <1>3, PTL DEF CacheSpec

(* cache_access(), with its stamps, tags, indices and dirty bits, is an LRU *)
(* cache of block numbers: what it evicts is what was used longest ago in   *)
(* the block's set, and it counts a write-back just when what leaves was    *)
(* written since it came.                                                   *)
THEOREM CacheImplementsLru == CacheSpec => ImplementsLruCache
  <1>1. cache_init => Lru!LruInit
    BY CacheStartsEmpty
  <1>2. LruInv /\ CacheInv' /\ [CacheNext]_cacheVars
           => [Lru!LruNext]_(Lru!lruVars)
    BY CacheStepIsLru
  <1>3. CacheSpec => []LruInv /\ []CacheInv
    BY LruInvHolds, CacheInvHolds, PTL
  <1> QED BY <1>1, <1>2, <1>3, PTL
         DEF CacheSpec, ImplementsLruCache, Lru!LruSpec
=============================================================================
