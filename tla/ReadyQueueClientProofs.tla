----------------------- MODULE ReadyQueueClientProofs -----------------------
(***************************************************************************)
(* The linked list of student.c is a TaskQueue, for every set of processes  *)
(* and of CPU threads, where one thread uses it at a time.                  *)
(***************************************************************************)
EXTENDS ReadyQueueClient, ReadyQueueProofs, FiniteSetTheorems

(* At most one process is of priority 0, as in process.c, where none is:    *)
(* with two of them gethighestone() may find none above lvl.                *)
OneIsAboveZero ==
    \A p, r \in Procs : p # r => Priority[p] > 0 \/ Priority[r] > 0

-----------------------------------------------------------------------------
(* There is one list from a head.                                           *)
LEMMA ListIsUnique ==
    ASSUME NEW q, NEW r, NEW h, NEW nx, IsList(q, h, nx), IsList(r, h, nx)
    PROVE  q = r
<1> USE PointersAreNotProcs
<1>1. /\ q \in Seq(Procs) /\ Len(q) \in Nat
      /\ r \in Seq(Procs) /\ Len(r) \in Nat
      /\ \A i \in 1 .. Len(q) : q[i] \in Procs
      /\ \A i \in 1 .. Len(r) : r[i] \in Procs
  BY LenProperties, ElementOfSeq DEF IsList
<1>2. \A i \in 1 .. Len(q) : i \in 1 .. Len(r) /\ q[i] = r[i]
  <2> DEFINE T == {i \in 1 .. Len(q) : ~(i \in 1 .. Len(r) /\ q[i] = r[i])}
  <2> SUFFICES ASSUME T # {} PROVE FALSE
    OBVIOUS
  <2>1. PICK m \in T : \A k \in T : m <= k
    <3>1. T \in SUBSET Nat
      BY <1>1
    <3> HIDE DEF T
    <3>2. QED
      BY <3>1, LeastNumber
  <2>2. m \in 1 .. Len(q) /\ ~(m \in 1 .. Len(r) /\ q[m] = r[m])
    BY <2>1
  <2>3. m # 1
    BY <1>1, <2>2 DEF IsList
  <2>4. m - 1 \in 1 .. Len(q) /\ m - 1 # Len(q) /\ (m - 1) + 1 = m
    BY <1>1, <2>2, <2>3
  <2>5. m - 1 \in 1 .. Len(r) /\ q[m - 1] = r[m - 1]
    BY <1>1, <2>1, <2>4
  <2>6. nx[q[m - 1]] = q[m] /\ q[m] \in Procs
    BY <1>1, <2>2, <2>4 DEF IsList
  <2>7. nx[r[m - 1]] = IF m - 1 = Len(r) THEN NULL ELSE r[m]
    BY <2>4, <2>5 DEF IsList
  <2>8. m - 1 # Len(r) /\ q[m] = r[m]
    BY <2>5, <2>6, <2>7
  <2>9. QED
    BY <1>1, <2>2, <2>5, <2>8
<1>3. Len(r) = Len(q)
  <2> SUFFICES ASSUME Len(q) < Len(r) PROVE FALSE
    BY <1>1, <1>2
  <2>1. CASE Len(q) = 0
    BY <1>1, <2>1 DEF IsList
  <2>2. CASE Len(q) # 0
    <3>1. Len(q) \in 1 .. Len(q) /\ Len(q) + 1 \in 1 .. Len(r)
      BY <1>1, <2>2
    <3>2. nx[q[Len(q)]] = NULL /\ nx[r[Len(q)]] = r[Len(q) + 1]
      BY <1>1, <1>2, <3>1 DEF IsList
    <3>3. QED
      BY <1>1, <1>2, <3>1, <3>2
  <2>3. QED
    BY <2>1, <2>2
<1>4. QED
  BY <1>1, <1>2, <1>3, SeqEqual

(* A list has as many elements as places.                                   *)
LEMMA ListLength ==
    ASSUME NEW q, NEW h, NEW nx, IsList(q, h, nx)
    PROVE  Cardinality(Elements(q)) = Len(q)
<1>1. Len(q) \in Nat /\ q \in [1 .. Len(q) -> Elements(q)]
  BY LenProperties DEF IsList, Elements
<1>2. q \in Bijection(1 .. Len(q), Elements(q))
  BY <1>1 DEF IsList, Elements, Bijection, Injection, Surjection, IsInjective
<1>3. IsFiniteSet(1 .. Len(q)) /\ Cardinality(1 .. Len(q)) = Len(q)
  <2>1. Cardinality(1 .. Len(q)) = IF 1 > Len(q) THEN 0 ELSE Len(q) - 1 + 1
    BY <1>1, FS_Interval
  <2>2. QED
    BY <1>1, <2>1, FS_Interval
<1>4. QED
  BY <1>2, <1>3, FS_Bijection DEF ExistsBijection

(* List is the list, and it has what a walk visits.                         *)
ListIsKnown ==
    \A q \in Seq(Procs) :
        IsList(q, q_head, next) => List = q /\ Queued = Elements(q)

(* Whatever sequence is the list from q_head, List is it: the CHOOSE of     *)
(* List has one choice, and Queued is its elements.                         *)
LEMMA ListIs == ListIsKnown
<1> SUFFICES ASSUME NEW q \in Seq(Procs), IsList(q, q_head, next)
             PROVE  List = q /\ Queued = Elements(q)
  BY DEF ListIsKnown
<1>1. Queued = Elements(q) /\ Cardinality(Queued) = Len(q)
  BY WalkVisitsList, ListLength DEF Queued
<1>2. q \in [1 .. Cardinality(Queued) -> Queued]
  BY <1>1, LenProperties DEF IsList, Elements
<1>3. IsList(List, q_head, next)
  BY <1>2 DEF List
<1>4. QED
  BY <1>1, <1>3, ListIsUnique

(* Before and after a step.                                                 *)
LEMMA ListsAre == ListIsKnown /\ ListIsKnown'
BY ListIs, PTL

(* A sequence without its i-th element.                                     *)
Cut(q, i) == SubSeq(q, 1, i - 1) \o SubSeq(q, i + 1, Len(q))

(* Cut is one shorter, and what followed the i-th element moves up.         *)
LEMMA CutIs ==
    ASSUME NEW set, NEW q \in Seq(set), NEW i \in 1 .. Len(q)
    PROVE  /\ Cut(q, i) \in Seq(set) /\ Len(Cut(q, i)) = Len(q) - 1
           /\ \A j \in 1 .. Len(q) - 1 :
                 Cut(q, i)[j] = q[IF j < i THEN j ELSE j + 1]
<1> DEFINE n == Len(q)
           less == Cut(q, i)
           front == SubSeq(q, 1, i - 1)
           back == SubSeq(q, i + 1, n)
<1>1. n \in Nat /\ i \in 1 .. n /\ \A j \in 1 .. n : q[j] \in set
  BY LenProperties, ElementOfSeq
<1>2. less = front \o back
  BY DEF Cut
<1> HIDE DEF n, less
<1>3. /\ front \in Seq(set) /\ Len(front) = i - 1
      /\ \A j \in 1 .. i - 1 : front[j] = q[j]
  <2>1. /\ i - 1 \in Int /\ (i - 1) - 1 + 1 = i - 1
        /\ 1 <= i - 1 \/ i - 1 = 0
        /\ \A j \in 1 .. i - 1 : q[j] \in set
    BY <1>1
  <2>2. /\ front \in Seq(set)
        /\ Len(front) = IF 1 <= i - 1 THEN (i - 1) - 1 + 1 ELSE 0
        /\ \A j \in 1 .. (i - 1) - 1 + 1 : front[j] = q[1 + j - 1]
    BY <2>1, SubSeqProperties
  <2> HIDE DEF front
  <2>3. \A j \in 1 .. i - 1 : 1 + j - 1 = j
    BY <1>1
  <2>4. QED
    BY <2>1, <2>2, <2>3
<1>4. /\ back \in Seq(set) /\ Len(back) = n - i
      /\ \A j \in 1 .. n - i : back[j] = q[j + i]
  <2>1. /\ i + 1 \in Int /\ n \in Int /\ n - (i + 1) + 1 = n - i
        /\ i + 1 <= n \/ n - i = 0
        /\ \A j \in i + 1 .. n : q[j] \in set
    BY <1>1
  <2>2. /\ back \in Seq(set)
        /\ Len(back) = IF i + 1 <= n THEN n - (i + 1) + 1 ELSE 0
        /\ \A j \in 1 .. n - (i + 1) + 1 : back[j] = q[i + 1 + j - 1]
    BY <2>1, SubSeqProperties
  <2> HIDE DEF back
  <2>3. \A j \in 1 .. n - i : i + 1 + j - 1 = j + i
    BY <1>1
  <2>4. QED
    BY <2>1, <2>2, <2>3
<1> HIDE DEF front, back
<1>5. /\ less \in Seq(set) /\ Len(less) = Len(front) + Len(back)
      /\ \A j \in 1 .. Len(front) + Len(back) : less[j] =
            IF j <= Len(front) THEN front[j] ELSE back[j - Len(front)]
  BY <1>2, <1>3, <1>4, ConcatProperties
<1>6. Len(front) + Len(back) = n - 1
  BY <1>1, <1>3, <1>4
<1>7. ASSUME NEW j \in 1 .. n - 1
      PROVE  less[j] = q[IF j < i THEN j ELSE j + 1]
  <2>1. less[j] = IF j <= i - 1 THEN front[j] ELSE back[j - (i - 1)]
    BY <1>3, <1>5, <1>6
  <2>2. CASE j < i
    BY <1>1, <1>3, <2>1, <2>2
  <2>3. CASE ~(j < i)
    <3>1. /\ j - (i - 1) \in 1 .. n - i /\ j - (i - 1) + i = j + 1
          /\ ~(j <= i - 1)
      BY <1>1, <2>3
    <3>2. QED
      BY <1>4, <2>1, <2>3, <3>1
  <2>4. QED
    BY <2>2, <2>3
<1>8. QED
  BY <1>5, <1>6, <1>7 DEF less, n

(* Where the pointer to a list's i-th PCB is replaced by that PCB's next,   *)
(* the list is without it.                                                  *)
LEMMA CutList ==
    ASSUME NEW q, NEW h, NEW nx, IsList(q, h, nx), NEW i \in 1 .. Len(q),
           NEW to, NEW mx,
           to = IF i = 1 THEN nx[h] ELSE h,
           \A x \in Procs : mx[x] = IF i # 1 /\ x = q[i - 1] THEN nx[q[i]]
                                    ELSE nx[x]
    PROVE  IsList(Cut(q, i), to, mx)
<1> DEFINE n == Len(q)
           less == Cut(q, i)
<1>1. /\ q \in Seq(Procs) /\ n \in Nat /\ i \in 1 .. n
      /\ \A j \in 1 .. n : q[j] \in Procs
      /\ h = q[1]
  BY LenProperties, ElementOfSeq DEF IsList
<1>2. /\ less \in Seq(Procs) /\ Len(less) = n - 1
      /\ \A j \in 1 .. n - 1 : less[j] = q[IF j < i THEN j ELSE j + 1]
  BY <1>1, CutIs
<1>3. /\ \A j, k \in 1 .. n : q[j] = q[k] => j = k
      /\ \A j \in 1 .. n : nx[q[j]] = IF j = n THEN NULL ELSE q[j + 1]
  BY DEF IsList
<1> HIDE DEF n, less
<1>4. ASSUME NEW j \in 1 .. n - 1, NEW k \in 1 .. n - 1, less[j] = less[k]
      PROVE  j = k
  <2> DEFINE a == IF j < i THEN j ELSE j + 1
             b == IF k < i THEN k ELSE k + 1
  <2>1. a \in 1 .. n /\ b \in 1 .. n
    BY <1>1
  <2>2. q[a] = q[b]
    BY <1>2, <1>4
  <2>3. a = b
    <3> HIDE DEF a, b
    <3>1. QED
      BY <1>3, <2>1, <2>2
  <2>4. QED
    BY <1>1, <2>3
<1>5. to = IF n - 1 = 0 THEN NULL ELSE less[1]
  <2>1. CASE i = 1
    <3>1. to = IF 1 = n THEN NULL ELSE q[1 + 1]
      BY <1>1, <1>3, <2>1
    <3>2. n # 1 => 1 \in 1 .. n - 1 /\ less[1] = q[1 + 1]
      BY <1>1, <1>2, <2>1
    <3>3. QED
      BY <1>1, <3>1, <3>2
  <2>2. CASE i # 1
    <3>1. 1 \in 1 .. n - 1 /\ 1 < i
      BY <1>1, <2>2
    <3>2. QED
      BY <1>1, <1>2, <2>2, <3>1
  <2>3. QED
    BY <2>1, <2>2
<1>6. ASSUME NEW j \in 1 .. n - 1
      PROVE  mx[less[j]] = IF j = n - 1 THEN NULL ELSE less[j + 1]
  <2>1. CASE j + 1 < i
    <3>1. j \in 1 .. n /\ j + 1 \in 1 .. n - 1 /\ j < i /\ j # n /\ j # n - 1
      BY <1>1, <2>1
    <3>2. less[j] = q[j] /\ less[j + 1] = q[j + 1]
      BY <1>2, <2>1, <3>1
    <3>3. q[j] # q[i - 1] /\ q[j] \in Procs
      <4>1. i - 1 \in 1 .. n /\ j # i - 1
        BY <1>1, <2>1
      <4>2. QED
        BY <1>1, <1>3, <3>1, <4>1
    <3>4. mx[q[j]] = nx[q[j]]
      BY <3>3
    <3>5. QED
      BY <1>3, <3>1, <3>2, <3>4
  <2>2. CASE j + 1 = i
    <3>1. /\ j \in 1 .. n /\ j < i /\ i - 1 = j /\ i # 1
          /\ i = n <=> j = n - 1
      BY <1>1, <2>2
    <3>2. less[j] = q[j] /\ q[j] \in Procs
      BY <1>1, <1>2, <3>1
    <3>3. mx[q[j]] = nx[q[i]]
      BY <3>1, <3>2
    <3>4. nx[q[i]] = IF i = n THEN NULL ELSE q[i + 1]
      BY <1>1, <1>3
    <3>5. j # n - 1 => j + 1 \in 1 .. n - 1 /\ ~(j + 1 < i)
      BY <1>1, <2>2
    <3>6. j # n - 1 => less[j + 1] = q[i + 1]
      BY <1>2, <2>2, <3>5
    <3>7. QED
      BY <3>1, <3>2, <3>3, <3>4, <3>6
  <2>3. CASE j + 1 > i
    <3>1. /\ j + 1 \in 1 .. n /\ ~(j < i) /\ j + 1 # i - 1
          /\ j + 1 = n <=> j = n - 1
      BY <1>1, <2>3
    <3>2. less[j] = q[j + 1] /\ q[j + 1] \in Procs
      BY <1>1, <1>2, <3>1
    <3>3. i # 1 => q[j + 1] # q[i - 1]
      <4>1. i # 1 => i - 1 \in 1 .. n
        BY <1>1
      <4>2. QED
        BY <1>3, <3>1, <4>1
    <3>4. mx[q[j + 1]] = nx[q[j + 1]]
      BY <3>2, <3>3
    <3>5. nx[q[j + 1]] = IF j + 1 = n THEN NULL ELSE q[j + 1 + 1]
      BY <1>3, <3>1
    <3>6. j # n - 1 => j + 1 \in 1 .. n - 1 /\ ~(j + 1 < i)
      BY <1>1, <2>3
    <3>7. j # n - 1 => less[j + 1] = q[j + 1 + 1]
      BY <1>2, <3>6
    <3>8. QED
      BY <3>1, <3>2, <3>4, <3>5, <3>7
  <2>4. QED
    BY <1>1, <2>1, <2>2, <2>3
<1>7. QED
  BY <1>2, <1>4, <1>5, <1>6 DEF IsList, less, n

-----------------------------------------------------------------------------
(* Place i of list L holds the process of highest priority that came first, *)
(* among the first n.                                                       *)
IsBest(L, i, n) ==
    /\ i \in 1 .. n
    /\ \A j \in 1 .. n : \/ Priority[L[j]] < Priority[L[i]]
                         \/ Priority[L[j]] = Priority[L[i]] /\ i <= j

(* What gethighestone()'s first loop has found in the first n of list L.    *)
Found(L, high, n) ==
    \/ high = WILD /\ \A j \in 1 .. n : Priority[L[j]] = 0
    \/ \E i \in 1 .. n : /\ IsBest(L, i, n)
                         /\ high = L[i] /\ Priority[L[i]] > 0

(* What a thread in gethighestone() knows of the list at each statement.    *)
Searching(t, L) ==
    gpc[t] = "walk" =>
        \E k \in 1 .. Len(L) + 1 :
            /\ gcur[t] = IF k = Len(L) + 1 THEN NULL ELSE L[k]
            /\ Found(L, ghigh[t], k - 1)

Late == {"reload", "head", "advance", "behind", "store", "find", "follow",
         "unlink", "relink"}

Removing(t, L) ==
    gpc[t] \in Late =>
        \E i \in 1 .. Len(L) :
            /\ IsBest(L, i, Len(L)) /\ ghigh[t] = L[i]
            /\ gpc[t] \in {"advance", "behind", "store"} => i = 1
            /\ gpc[t] = "find" => \E k \in 1 .. i - 1 : gcur[t] = L[k]
            /\ gpc[t] = "follow" => \E k \in 1 .. i - 2 : gcur[t] = L[k]
            /\ gpc[t] \in {"unlink", "relink"} => i # 1 /\ gcur[t] = L[i - 1]

Knows(t, L) ==
    /\ gpc[t] # "fault"
    /\ gpc[t] \in {"empty", "single", "lone", "clear", "head"}
          => gcur[t] = q_head
    /\ gpc[t] \in {"single", "lone"} => Len(L) # 0
    /\ gpc[t] = "clear" => Len(L) = 1
    /\ gpc[t] \in Late \cup {"walk"} => Len(L) > 1
    /\ Searching(t, L) /\ Removing(t, L)
    /\ gpc[t] \in {"lone", "behind"} => greg[t] = q_head
    /\ gpc[t] = "store" => greg[t] = next[q_head]
    /\ gpc[t] = "relink" => greg[t] = next[ghigh[t]]

OneCaller ==
    \A t, u \in CPUs : gpc[t] # "out" /\ gpc[u] # "out" => t = u

(* The list is a list, one thread at most is in gethighestone(), and it     *)
(* knows where it is.                                                       *)
ClientInv ==
    /\ QueueTypeOK /\ GhLocals
    /\ List \in Seq(Procs) /\ IsList(List, q_head, next)
    /\ OneCaller
    /\ \A t \in CPUs : Knows(t, List)

-----------------------------------------------------------------------------
(* What the last operation returned.                                        *)
ResultKnown ==
    OneCaller => /\ \A t \in CPUs : gpc[t] = "done" => Result = ghigh[t]
                 /\ (\A t \in CPUs : gpc[t] # "done") => Result = got

(* With one caller, Result is its highestone from the unlinking on, and     *)
(* what was returned last before that.                                      *)
LEMMA ResultIs == ResultKnown
<1> SUFFICES ASSUME OneCaller
             PROVE  /\ \A t \in CPUs : gpc[t] = "done" => Result = ghigh[t]
                    /\ (\A t \in CPUs : gpc[t] # "done") => Result = got
  BY DEF ResultKnown
<1>1. ASSUME NEW t \in CPUs, gpc[t] = "done" PROVE Result = ghigh[t]
  <2>1. (CHOOSE u \in CPUs : gpc[u] = "done") = t
    BY <1>1 DEF OneCaller
  <2>2. QED
    BY <1>1, <2>1 DEF Result
<1>2. QED
  BY <1>1 DEF Result

LEMMA ResultsAre == ResultKnown /\ ResultKnown'
BY ResultIs, PTL

(* Taking the best of the whole list is what TaskQueue promises.            *)
LEMMA TakesHighest ==
    ASSUME List \in Seq(Procs), NEW i, IsBest(List, i, Len(List)),
           Result' = List[i], List' = Cut(List, i)
    PROVE  Tasks!TakeHighest
<1> DEFINE L == List
<1>1. /\ DOMAIN L = 1 .. Len(L) /\ Len(L) \in Nat /\ i \in 1 .. Len(L)
      /\ \A j \in 1 .. Len(L) : Priority[L[j]] \in Nat
  <2>1. \A j \in 1 .. Len(L) : L[j] \in Procs
    BY ElementOfSeq
  <2>2. QED
    BY <2>1, LenProperties, PrioritiesAreNumbers DEF IsBest
<1>2. \A j \in DOMAIN L : \/ Priority[L[j]] < Priority[L[i]]
                          \/ Priority[L[j]] = Priority[L[i]] /\ i <= j
  BY <1>1 DEF IsBest
<1>3. Tasks!HighestIndex = i
  <2> HIDE DEF L
  <2>1. \A k \in DOMAIN L :
           (\A j \in DOMAIN L : \/ Priority[L[j]] < Priority[L[k]]
                                \/ Priority[L[j]] = Priority[L[k]] /\ k <= j)
           => k = i
    BY <1>1, <1>2
  <2>2. (CHOOSE k \in DOMAIN L :
            \A j \in DOMAIN L : \/ Priority[L[j]] < Priority[L[k]]
                                \/ Priority[L[j]] = Priority[L[k]] /\ k <= j)
           = i
    BY <1>1, <1>2, <2>1
  <2>3. QED
    BY <2>2 DEF Tasks!HighestIndex, L
<1>4. List # <<>>
  BY <1>1
<1>5. List' = Tasks!Without(i)
  BY DEF Tasks!Without, Cut
<1>6. QED
  BY <1>3, <1>4, <1>5 DEF Tasks!TakeHighest, Tasks!TakeAt

(* Only the thread that steps is in gethighestone().                        *)
LEMMA OthersAreOut ==
    ASSUME ClientInv, NEW t \in CPUs, GhStep(t)
    PROVE  /\ gpc[t] \notin {"out", "done"} /\ gpc'[t] # "out"
           /\ \A u \in CPUs : u # t => gpc[u] = "out" /\ gpc'[u] = "out"
           /\ OneCaller'
<1>1. gpc \in [CPUs -> GhLabels]
  BY DEF ClientInv, QueueTypeOK
<1>2. PICK from, to : /\ Goto(t, from, to) /\ from # "out" /\ from # "done"
                      /\ to # "out"
  <2> USE DEF Return
  <2>1. CASE GhLoad(t)
    BY <2>1 DEF GhLoad
  <2>2. CASE GhEmpty(t)
    BY <2>2 DEF GhEmpty
  <2>3. CASE GhSingle(t)
    BY <2>3 DEF GhSingle
  <2>4. CASE GhLone(t)
    BY <2>4 DEF GhLone
  <2>5. CASE GhClear(t)
    BY <2>5 DEF GhClear
  <2>6. CASE GhWalk(t)
    BY <2>6 DEF GhWalk
  <2>7. CASE GhReload(t)
    BY <2>7 DEF GhReload
  <2>8. CASE GhHead(t)
    BY <2>8 DEF GhHead
  <2>9. CASE GhAdvance(t)
    BY <2>9 DEF GhAdvance
  <2>10. CASE GhBehind(t)
    BY <2>10 DEF GhBehind
  <2>11. CASE GhStore(t)
    BY <2>11 DEF GhStore
  <2>12. CASE GhFind(t)
    BY <2>12 DEF GhFind
  <2>13. CASE GhFollow(t)
    BY <2>13 DEF GhFollow
  <2>14. CASE GhUnlink(t)
    BY <2>14 DEF GhUnlink
  <2>15. CASE GhRelink(t)
    BY <2>15 DEF GhRelink
  <2>16. QED
    BY <2>1, <2>2, <2>3, <2>4, <2>5, <2>6, <2>7, <2>8, <2>9, <2>10, <2>11,
       <2>12, <2>13, <2>14, <2>15 DEF GhStep
<1>3. /\ gpc[t] = from /\ gpc'[t] = to
      /\ \A u \in CPUs : u # t => gpc'[u] = gpc[u]
  BY <1>1, <1>2 DEF Goto
<1>4. \A u \in CPUs : u # t => gpc[u] = "out" /\ gpc'[u] = "out"
  BY <1>2, <1>3 DEF ClientInv, OneCaller
<1>5. QED
  BY <1>2, <1>3, <1>4 DEF OneCaller

(* What is left to show of a step: the list stays a list, the thread knows  *)
(* where it is, and what it does to list and result is a step of TaskQueue. *)
StepDone(t) ==
    /\ List' \in Seq(Procs) /\ IsList(List', q_head', next')
    /\ Knows(t, List)'
    /\ \/ List' = List /\ Result' = Result
       \/ Tasks!TakeNothing
       \/ Tasks!TakeHighest

(* A statement that writes neither the list nor the result.                 *)
LEMMA StepKeepsList ==
    ASSUME ClientInv, NEW t \in CPUs, GhStep(t), got' = got,
           q_head' = q_head, next' = next, gpc'[t] # "done"
    PROVE  /\ List' = List /\ Result' = Result
           /\ List' \in Seq(Procs) /\ IsList(List', q_head', next')
<1>1. List \in Seq(Procs) /\ IsList(List, q_head', next')
  BY DEF ClientInv
<1>2. List' = List
  BY <1>1, ListsAre DEF ListIsKnown
<1>3. /\ OneCaller /\ OneCaller'
      /\ \A u \in CPUs : gpc[u] # "done" /\ gpc'[u] # "done"
  BY OthersAreOut DEF ClientInv
<1>4. Result' = Result
  BY <1>3, ResultsAre DEF ResultKnown
<1>5. QED
  BY <1>1, <1>2, <1>4

(* A statement that takes the best process out of the list and returns it.  *)
LEMMA StepTakesBest ==
    ASSUME ClientInv, NEW t \in CPUs, GhStep(t), gpc'[t] = "done",
           NEW i, IsBest(List, i, Len(List)), ghigh'[t] = List[i],
           IsList(Cut(List, i), q_head', next')
    PROVE  StepDone(t)
<1>1. List' = Cut(List, i) /\ List' \in Seq(Procs)
  <2>1. Cut(List, i) \in Seq(Procs)
    BY DEF IsList
  <2>2. QED
    BY <2>1, ListsAre DEF ListIsKnown
<1>2. Result' = List[i]
  BY OthersAreOut, ResultsAre DEF ResultKnown
<1>3. Tasks!TakeHighest
  BY <1>1, <1>2, TakesHighest DEF ClientInv
<1>4. Knows(t, List)'
  BY DEF Knows, Searching, Removing, Late
<1>5. QED
  BY <1>1, <1>3, <1>4 DEF StepDone

-----------------------------------------------------------------------------
(* The list, by its places.                                                 *)
LEMMA ListPlaces ==
    ASSUME ClientInv
    PROVE  /\ List \in Seq(Procs) /\ Len(List) \in Nat
           /\ \A i \in 1 .. Len(List) :
                 /\ List[i] \in Procs /\ Priority[List[i]] \in 0 .. 10
                 /\ next[List[i]] = IF i = Len(List) THEN NULL
                                    ELSE List[i + 1]
           /\ \A i, j \in 1 .. Len(List) : List[i] = List[j] => i = j
           /\ q_head = IF Len(List) = 0 THEN NULL ELSE List[1]
           /\ q_head = NULL <=> Len(List) = 0
<1>1. /\ List \in Seq(Procs) /\ Len(List) \in Nat
      /\ \A i \in 1 .. Len(List) : List[i] \in Procs
  BY LenProperties, ElementOfSeq DEF ClientInv
<1>2. Len(List) # 0 => 1 \in 1 .. Len(List)
  BY <1>1
<1>3. QED
  BY <1>1, <1>2, PrioritiesAreNumbers, PointersAreNotProcs
     DEF ClientInv, IsList

(* currentone = q_head and the three branches on a short list.              *)
LEMMA BranchIsDone ==
    ASSUME ClientInv, NEW t \in CPUs, got' = got,
           GhLoad(t) \/ GhEmpty(t) \/ GhSingle(t) \/ GhLone(t)
           \/ GhClear(t)
    PROVE  StepDone(t)
<1> DEFINE L == List
           n == Len(L)
<1>1. /\ L \in Seq(Procs) /\ n \in Nat
      /\ \A i \in 1 .. n : /\ L[i] \in Procs
                           /\ next[L[i]] = IF i = n THEN NULL ELSE L[i + 1]
      /\ q_head = IF n = 0 THEN NULL ELSE L[1]
      /\ q_head = NULL <=> n = 0
  BY ListPlaces
<1>2. /\ GhStep(t) /\ gpc \in [CPUs -> GhLabels] /\ Knows(t, L)
      /\ gcur \in [CPUs -> Pointers] /\ ghigh \in [CPUs -> Pointers \cup {WILD}]
      /\ greg \in [CPUs -> Pointers]
  BY DEF GhStep, ClientInv, QueueTypeOK
<1> USE DEF Late
<1> HIDE DEF L, n
<1>3. CASE GhLoad(t)
  <2>1. /\ gpc'[t] = "empty" /\ gcur'[t] = q_head
        /\ q_head' = q_head /\ next' = next
    BY <1>2, <1>3 DEF GhLoad, Goto
  <2>2. QED
    BY <1>2, <2>1, StepKeepsList DEF StepDone, Knows, Searching, Removing
<1>4. CASE GhEmpty(t)
  <2>1. q_head' = q_head /\ next' = next /\ gcur' = gcur /\ gcur[t] = q_head
    BY <1>2, <1>4 DEF GhEmpty, Goto, Return, Knows
  <2>2. CASE q_head = NULL
    <3>1. gpc'[t] = "done" /\ ghigh'[t] = NULL
      BY <1>2, <1>4, <2>2 DEF GhEmpty, Goto, Return
    <3>2. List' = List /\ List' \in Seq(Procs) /\ IsList(List', q_head', next')
      <4>1. List \in Seq(Procs) /\ IsList(List, q_head', next')
        BY <2>1 DEF ClientInv
      <4>2. QED
        BY <4>1, ListsAre DEF ListIsKnown
    <3>3. Result' = NULL
      BY <1>2, <3>1, OthersAreOut, ResultsAre DEF ResultKnown
    <3>4. List = <<>>
      BY <1>1, <2>2, EmptySeq DEF L, n
    <3>5. Tasks!TakeNothing
      BY <3>2, <3>3, <3>4 DEF Tasks!TakeNothing
    <3>6. QED
      BY <3>1, <3>2, <3>5 DEF StepDone, Knows, Searching, Removing
  <2>3. CASE q_head # NULL
    <3>1. gpc'[t] = "single"
      BY <1>2, <1>4, <2>3 DEF GhEmpty, Goto
    <3>2. Len(List) # 0
      BY <1>1, <2>3 DEF L, n
    <3>3. QED
      BY <1>2, <2>1, <3>1, <3>2, StepKeepsList
         DEF StepDone, Knows, Searching, Removing
  <2>4. QED
    BY <2>2, <2>3
<1>5. CASE GhSingle(t)
  <2>1. /\ q_head' = q_head /\ next' = next /\ gcur' = gcur
        /\ gcur[t] = q_head /\ q_head # NULL /\ n # 0
    BY <1>1, <1>2, <1>5 DEF GhSingle, Goto, Knows, n
  <2>2. gpc'[t] = "lone" /\ greg'[t] = q_head
    BY <1>2, <1>5, <2>1 DEF GhSingle, Goto
  <2>3. QED
    BY <1>2, <2>1, <2>2, StepKeepsList
       DEF StepDone, Knows, Searching, Removing, L, n
<1>6. CASE GhClear(t)
  <2>1. /\ q_head' = NULL /\ next' = next /\ gpc'[t] = "done"
        /\ ghigh'[t] = gcur[t] /\ gcur[t] = q_head /\ n = 1
    BY <1>2, <1>6 DEF GhClear, Return, Goto, Knows, n
  <2>2. /\ 1 \in 1 .. n /\ q_head = L[1] /\ next[q_head] = NULL
        /\ \A j \in 1 .. n : j = 1
    BY <1>1, <2>1
  <2>3. IsBest(List, 1, Len(List))
    BY <2>2 DEF IsBest, L, n
  <2>4. IsList(Cut(List, 1), q_head', next')
    BY <2>1, <2>2, CutList DEF ClientInv, L, n
  <2>5. QED
    BY <1>2, <2>1, <2>2, <2>3, <2>4, StepTakesBest DEF L
<1>7. CASE GhLone(t)
  <2>1. /\ q_head' = q_head /\ next' = next /\ gcur' = gcur
        /\ gcur[t] = q_head /\ greg[t] = q_head /\ q_head # NULL /\ n # 0
    BY <1>1, <1>2, <1>7 DEF GhLone, Goto, Knows, n
  <2>2. 1 \in 1 .. n /\ q_head = L[1]
    BY <1>1, <2>1
  <2>3. CASE next[q_head] = NULL
    <3>1. gpc'[t] = "clear"
      BY <1>2, <1>7, <2>1, <2>3 DEF GhLone, Goto
    <3>2. Len(List) = 1
      <4>1. n # 1 => 1 + 1 \in 1 .. n
        BY <1>1, <2>2
      <4>2. QED
        BY <1>1, <2>2, <2>3, <4>1, PointersAreNotProcs DEF n, L
    <3>3. QED
      BY <1>2, <2>1, <3>1, <3>2, StepKeepsList
         DEF StepDone, Knows, Searching, Removing
  <2>4. CASE next[q_head] # NULL
    <3>1. gpc'[t] = "walk" /\ ghigh'[t] = WILD
      BY <1>2, <1>7, <2>1, <2>4 DEF GhLone, Goto
    <3>2. n > 1
      BY <1>1, <2>2, <2>4
    <3>3. /\ List' = List /\ Result' = Result
          /\ List' \in Seq(Procs) /\ IsList(List', q_head', next')
      BY <1>2, <2>1, <3>1, StepKeepsList
    <3>4. /\ 1 \in 1 .. Len(List) + 1 /\ 1 # Len(List) + 1
          /\ gcur'[t] = List[1] /\ Found(List, ghigh'[t], 1 - 1)
      BY <1>1, <2>1, <2>2, <3>1, <3>2 DEF Found, L, n
    <3>5. Searching(t, List)'
      BY <3>3, <3>4 DEF Searching
    <3>6. QED
      BY <3>1, <3>2, <3>3, <3>5 DEF StepDone, Knows, Removing, L, n
  <2>5. QED
    BY <2>3, <2>4
<1>8. QED
  BY <1>3, <1>4, <1>5, <1>6, <1>7

(* The first loop finds the best of the list, which is above level 0.       *)
LEMMA WalkIsDone ==
    ASSUME OneIsAboveZero, ClientInv, NEW t \in CPUs, got' = got, GhWalk(t)
    PROVE  StepDone(t)
<1> DEFINE L == List
           n == Len(L)
<1>1. /\ L \in Seq(Procs) /\ n \in Nat
      /\ \A i \in 1 .. n : /\ L[i] \in Procs /\ Priority[L[i]] \in 0 .. 10
                           /\ next[L[i]] = IF i = n THEN NULL ELSE L[i + 1]
      /\ \A i, j \in 1 .. n : L[i] = L[j] => i = j
  BY ListPlaces
<1>2. /\ GhStep(t) /\ gpc \in [CPUs -> GhLabels] /\ Knows(t, L)
      /\ gcur \in [CPUs -> Pointers] /\ ghigh \in [CPUs -> Pointers \cup {WILD}]
  BY DEF GhStep, ClientInv, QueueTypeOK
<1> USE DEF Late
<1>3. gpc[t] = "walk" /\ n > 1 /\ q_head' = q_head /\ next' = next
  BY <1>2 DEF GhWalk, Goto, Knows
<1>4. PICK k \in 1 .. n + 1 :
         /\ gcur[t] = IF k = n + 1 THEN NULL ELSE L[k]
         /\ Found(L, ghigh[t], k - 1)
  BY <1>2, <1>3 DEF Knows, Searching
<1>5. gpc'[t] # "done"
  BY <1>2 DEF GhWalk, Goto
<1>6. /\ List' = L /\ Result' = Result
      /\ List' \in Seq(Procs) /\ IsList(List', q_head', next')
  BY <1>2, <1>3, <1>5, StepKeepsList
<1> HIDE DEF L, n
<1>7. CASE k = n + 1
  <2>1. gcur[t] = NULL /\ Found(L, ghigh[t], n)
    BY <1>1, <1>4, <1>7
  <2>2. PICK i \in 1 .. n : IsBest(L, i, n) /\ ghigh[t] = L[i]
    <3>1. 1 \in 1 .. n /\ 2 \in 1 .. n
      BY <1>1, <1>3
    <3>2. L[1] # L[2] /\ L[1] \in Procs /\ L[2] \in Procs
      BY <1>1, <3>1
    <3>3. Priority[L[1]] > 0 \/ Priority[L[2]] > 0
      BY <3>2 DEF OneIsAboveZero
    <3>4. ~\A j \in 1 .. n : Priority[L[j]] = 0
      BY <3>1, <3>3
    <3>5. QED
      BY <2>1, <3>4 DEF Found
  <2>3. ghigh[t] # WILD
    BY <1>1, <2>2, PointersAreNotProcs
  <2>4. gpc'[t] = "reload" /\ ghigh'[t] = L[i]
    BY <1>2, <2>1, <2>2, <2>3 DEF GhWalk, Goto, HighestRead
  <2>5. Removing(t, List)'
    BY <1>6, <2>2, <2>4 DEF Removing, n
  <2>6. Searching(t, List)' /\ Len(List') > 1
    BY <1>3, <1>6, <2>4 DEF Searching, n
  <2>7. Knows(t, List)'
    BY <2>4, <2>5, <2>6 DEF Knows
  <2>8. QED
    BY <1>6, <2>7 DEF StepDone, L
<1>8. CASE k # n + 1
  <2>1. k \in 1 .. n /\ gcur[t] = L[k] /\ L[k] \in Procs /\ L[k] # NULL
    BY <1>1, <1>4, <1>8, PointersAreNotProcs
  <2>2. /\ gpc'[t] = "walk" /\ gcur'[t] = next[L[k]]
        /\ ghigh'[t] = IF Priority[L[k]] > Level(t) THEN L[k] ELSE ghigh[t]
    BY <1>2, <2>1 DEF GhWalk, Goto
  <2>3. /\ k + 1 \in 1 .. n + 1 /\ (k + 1) - 1 = k
        /\ gcur'[t] = IF k + 1 = n + 1 THEN NULL ELSE L[k + 1]
    BY <1>1, <2>1, <2>2
  <2>4. /\ k \in 1 .. k /\ \A j \in 1 .. k - 1 : j \in 1 .. k
        /\ \A j \in 1 .. k : /\ j \in 1 .. k - 1 \/ j = k
                             /\ Priority[L[j]] \in 0 .. 10
    <3>1. \A j \in 1 .. k : j \in 1 .. n /\ (j \in 1 .. k - 1 \/ j = k)
      BY <1>1, <2>1
    <3>2. k \in 1 .. k /\ \A j \in 1 .. k - 1 : j \in 1 .. k
      BY <1>1, <2>1
    <3>3. QED
      BY <1>1, <3>1, <3>2
  <2>5. Found(L, ghigh'[t], k)
    <3>1. CASE ghigh[t] = WILD /\ \A j \in 1 .. k - 1 : Priority[L[j]] = 0
      <4>1. Level(t) = 0
        BY <3>1, PointersAreNotProcs DEF Level
      <4>2. CASE Priority[L[k]] > 0
        <5>1. ghigh'[t] = L[k]
          BY <2>2, <4>1, <4>2
        <5>2. IsBest(L, k, k)
          BY <2>1, <2>4, <3>1, <4>2 DEF IsBest
        <5>3. QED
          BY <2>1, <4>2, <5>1, <5>2 DEF Found
      <4>3. CASE ~(Priority[L[k]] > 0)
        <5>1. Priority[L[k]] = 0 /\ ghigh'[t] = WILD
          BY <2>1, <2>2, <2>4, <3>1, <4>1, <4>3
        <5>2. QED
          BY <2>4, <3>1, <5>1 DEF Found
      <4>4. QED
        BY <4>2, <4>3
    <3>2. ASSUME NEW i \in 1 .. k - 1, IsBest(L, i, k - 1),
                 ghigh[t] = L[i], Priority[L[i]] > 0
          PROVE  Found(L, ghigh'[t], k)
      <4>1. i \in 1 .. n /\ i \in 1 .. k /\ i <= k
        BY <1>1, <2>1
      <4>2. Level(t) = Priority[L[i]]
        BY <1>1, <3>2, <4>1 DEF Level
      <4>3. CASE Priority[L[k]] > Priority[L[i]]
        <5>1. ghigh'[t] = L[k] /\ Priority[L[k]] > 0
          BY <2>1, <2>2, <2>4, <3>2, <4>1, <4>2, <4>3
        <5>2. IsBest(L, k, k)
          BY <2>1, <2>4, <3>2, <4>1, <4>3 DEF IsBest
        <5>3. QED
          BY <2>1, <5>1, <5>2 DEF Found
      <4>4. CASE ~(Priority[L[k]] > Priority[L[i]])
        <5>1. ghigh'[t] = L[i]
          BY <2>2, <3>2, <4>2, <4>4
        <5>2. IsBest(L, i, k)
          BY <2>1, <2>4, <3>2, <4>1, <4>4 DEF IsBest
        <5>3. QED
          BY <3>2, <4>1, <5>1, <5>2 DEF Found
      <4>5. QED
        BY <4>3, <4>4
    <3>3. QED
      BY <1>4, <3>1, <3>2 DEF Found
  <2>6. Searching(t, List)'
    BY <1>6, <2>3, <2>5 DEF Searching, n
  <2>7. Removing(t, List)' /\ Len(List') > 1
    BY <1>3, <1>6, <2>2 DEF Removing, n
  <2>8. Knows(t, List)'
    BY <2>2, <2>6, <2>7 DEF Knows
  <2>9. QED
    BY <1>6, <2>8 DEF StepDone, L
<1>9. QED
  BY <1>7, <1>8

(* The statements after the loop take the best out of the list.             *)
LEMMA RemovalIsDone ==
    ASSUME ClientInv, NEW t \in CPUs, got' = got,
           \/ GhReload(t) \/ GhHead(t) \/ GhAdvance(t) \/ GhBehind(t)
           \/ GhStore(t) \/ GhFind(t) \/ GhFollow(t)
           \/ GhUnlink(t) \/ GhRelink(t)
    PROVE  StepDone(t)
<1> DEFINE L == List
           n == Len(L)
<1>1. /\ L \in Seq(Procs) /\ n \in Nat
      /\ \A i \in 1 .. n : /\ L[i] \in Procs
                           /\ next[L[i]] = IF i = n THEN NULL ELSE L[i + 1]
      /\ \A i, j \in 1 .. n : L[i] = L[j] => i = j
      /\ q_head = IF n = 0 THEN NULL ELSE L[1]
  BY ListPlaces
<1>2. /\ GhStep(t) /\ gpc \in [CPUs -> GhLabels] /\ Knows(t, L)
      /\ gcur \in [CPUs -> Pointers] /\ ghigh \in [CPUs -> Pointers \cup {WILD}]
      /\ greg \in [CPUs -> Pointers] /\ next \in [Procs -> Pointers]
      /\ IsList(L, q_head, next)
  BY DEF GhStep, ClientInv, QueueTypeOK
<1> USE DEF Late
<1>3. gpc[t] \in Late
  BY DEF GhReload, GhHead, GhAdvance, GhBehind, GhStore, GhFind, GhFollow,
         GhUnlink, GhRelink, Goto, Return
<1>4. n > 1 /\ 1 \in 1 .. n /\ q_head = L[1] /\ q_head \in Procs
  BY <1>1, <1>2, <1>3 DEF Knows
<1>5. PICK i \in 1 .. n :
         /\ IsBest(L, i, n) /\ ghigh[t] = L[i]
         /\ gpc[t] \in {"advance", "behind", "store"} => i = 1
         /\ gpc[t] = "find" => \E k \in 1 .. i - 1 : gcur[t] = L[k]
         /\ gpc[t] = "follow" => \E k \in 1 .. i - 2 : gcur[t] = L[k]
         /\ gpc[t] \in {"unlink", "relink"} => i # 1 /\ gcur[t] = L[i - 1]
  BY <1>2, <1>3 DEF Knows, Removing
<1>6. /\ gpc[t] = "head" => gcur[t] = q_head
      /\ gpc[t] = "behind" => greg[t] = q_head
      /\ gpc[t] = "store" => greg[t] = next[q_head]
      /\ gpc[t] = "relink" => greg[t] = next[ghigh[t]]
  BY <1>2 DEF Knows
<1> HIDE DEF L, n
(* A statement that leaves the list and highestone alone.                   *)
<1>7. ASSUME q_head' = q_head, next' = next, ghigh'[t] = ghigh[t],
             gpc'[t] \in Late,
             gpc'[t] = "head" => gcur'[t] = q_head,
             gpc'[t] \in {"advance", "behind", "store"} => i = 1,
             gpc'[t] = "behind" => greg'[t] = q_head,
             gpc'[t] = "store" => greg'[t] = next[q_head],
             gpc'[t] = "find" => \E k \in 1 .. i - 1 : gcur'[t] = L[k],
             gpc'[t] = "follow" => \E k \in 1 .. i - 2 : gcur'[t] = L[k],
             gpc'[t] \in {"unlink", "relink"} => i # 1 /\ gcur'[t] = L[i - 1],
             gpc'[t] = "relink" => greg'[t] = next[L[i]]
      PROVE  StepDone(t)
  <2>1. /\ List' = L /\ Result' = Result
        /\ List' \in Seq(Procs) /\ IsList(List', q_head', next')
    BY <1>2, <1>7, StepKeepsList DEF L
  <2>2. Removing(t, List)'
    BY <1>5, <1>7, <2>1 DEF Removing, n
  <2>3. Searching(t, List)' /\ Len(List') > 1
    BY <1>4, <1>7, <2>1 DEF Searching, n
  <2>4. Knows(t, List)'
    BY <1>5, <1>7, <2>2, <2>3 DEF Knows
  <2>5. QED
    BY <2>1, <2>4 DEF StepDone, L
<1>8. CASE GhReload(t)
  <2>1. /\ gpc'[t] = "head" /\ gcur'[t] = q_head /\ ghigh' = ghigh
        /\ q_head' = q_head /\ next' = next
    BY <1>2, <1>8 DEF GhReload, Goto
  <2>2. QED
    BY <1>7, <2>1
<1>9. CASE GhHead(t)
  <2>1. /\ gcur' = gcur /\ gcur[t] = L[1] /\ ghigh' = ghigh
        /\ q_head' = q_head /\ next' = next
        /\ gpc'[t] = IF L[i] = L[1] THEN "advance" ELSE "find"
    BY <1>2, <1>4, <1>5, <1>6, <1>9 DEF GhHead, Goto
  <2>2. CASE i = 1
    BY <1>7, <2>1, <2>2
  <2>3. CASE i # 1
    <3>1. L[i] # L[1] /\ 1 \in 1 .. i - 1
      BY <1>1, <1>4, <2>3
    <3>2. gpc'[t] = "find" /\ \E k \in 1 .. i - 1 : gcur'[t] = L[k]
      BY <2>1, <3>1
    <3>3. QED
      BY <1>7, <2>1, <3>2
  <2>4. QED
    BY <2>2, <2>3
<1>10. CASE GhAdvance(t)
  <2>1. /\ gpc'[t] = "behind" /\ greg'[t] = q_head /\ ghigh' = ghigh
        /\ q_head' = q_head /\ next' = next /\ i = 1
    BY <1>2, <1>4, <1>5, <1>10, PointersAreNotProcs DEF GhAdvance, Goto
  <2>2. QED
    BY <1>7, <2>1
<1>11. CASE GhStore(t)
  <2>1. /\ gpc'[t] = "done" /\ ghigh'[t] = L[i] /\ i = 1
        /\ q_head' = next[q_head] /\ next' = next
    BY <1>2, <1>5, <1>6, <1>11 DEF GhStore, Return, Goto
  <2>2. IsList(Cut(L, i), q_head', next')
    BY <1>2, <1>4, <2>1, CutList DEF n
  <2>3. QED
    BY <1>2, <1>5, <2>1, <2>2, StepTakesBest DEF L, n
<1>12. CASE GhFind(t)
  <2>1. PICK k \in 1 .. i - 1 : gcur[t] = L[k]
    BY <1>2, <1>5, <1>12 DEF GhFind, Goto
  <2>2. k \in 1 .. n /\ k + 1 \in 1 .. n /\ k # n /\ i # 1
    BY <1>1, <2>1
  <2>3. L[k] # NULL /\ next[L[k]] = L[k + 1]
    BY <1>1, <2>2, PointersAreNotProcs
  <2>4. /\ q_head' = q_head /\ next' = next /\ ghigh' = ghigh
        /\ gpc'[t] = IF L[k + 1] = L[i] THEN "unlink" ELSE "follow"
        /\ gcur'[t] = L[k]
    BY <1>2, <1>5, <1>12, <2>1, <2>3 DEF GhFind, Goto
  <2>5. CASE k + 1 = i
    <3>1. gpc'[t] = "unlink" /\ gcur'[t] = L[i - 1]
      <4>1. k = i - 1
        BY <2>1, <2>5
      <4>2. QED
        BY <2>4, <2>5, <4>1
    <3>2. QED
      BY <1>7, <2>2, <2>4, <3>1
  <2>6. CASE k + 1 # i
    <3>1. L[k + 1] # L[i] /\ k \in 1 .. i - 2
      BY <1>1, <2>1, <2>2, <2>6
    <3>2. gpc'[t] = "follow" /\ \E m \in 1 .. i - 2 : gcur'[t] = L[m]
      BY <2>4, <3>1
    <3>3. QED
      BY <1>7, <2>4, <3>2
  <2>7. QED
    BY <2>5, <2>6
<1>13. CASE GhUnlink(t)
  <2>1. L[i] # NULL
    BY <1>1, PointersAreNotProcs
  <2>2. /\ gpc'[t] = "relink" /\ greg'[t] = next[L[i]] /\ ghigh' = ghigh
        /\ gcur' = gcur /\ q_head' = q_head /\ next' = next
        /\ i # 1 /\ gcur[t] = L[i - 1]
    BY <1>2, <1>5, <1>13, <2>1 DEF GhUnlink, Goto
  <2>3. QED
    BY <1>7, <2>2
<1>14. CASE GhRelink(t)
  <2>1. /\ gpc'[t] = "done" /\ ghigh'[t] = L[i] /\ i # 1
        /\ q_head' = q_head
        /\ next' = [next EXCEPT ![L[i - 1]] = next[L[i]]]
    BY <1>2, <1>5, <1>6, <1>14 DEF GhRelink, Return, Goto
  <2>2. L[i - 1] \in Procs
    <3>1. i - 1 \in 1 .. n
      BY <1>1, <2>1
    <3>2. QED
      BY <1>1, <3>1
  <2>3. \A x \in Procs : next'[x] = IF i # 1 /\ x = L[i - 1] THEN next[L[i]]
                                    ELSE next[x]
    BY <1>2, <2>1, <2>2
  <2>4. IsList(Cut(L, i), q_head', next')
    BY <1>2, <2>1, <2>3, CutList DEF n
  <2>5. QED
    BY <1>2, <1>5, <2>1, <2>4, StepTakesBest DEF L, n
<1>15. CASE GhBehind(t)
  <2>1. /\ gpc'[t] = "store" /\ greg'[t] = next[q_head] /\ ghigh' = ghigh
        /\ q_head' = q_head /\ next' = next /\ i = 1
    BY <1>2, <1>5, <1>6, <1>15 DEF GhBehind, Goto
  <2>2. QED
    BY <1>7, <2>1
<1>16. CASE GhFollow(t)
  <2>1. PICK k \in 1 .. i - 2 : gcur[t] = L[k]
    BY <1>2, <1>5, <1>16 DEF GhFollow, Goto
  <2>2. /\ k \in 1 .. n /\ k # n /\ k + 1 \in 1 .. i - 1
    BY <1>1, <2>1
  <2>3. /\ q_head' = q_head /\ next' = next /\ ghigh' = ghigh
        /\ gpc'[t] = "find" /\ gcur'[t] = L[k + 1]
    BY <1>1, <1>2, <1>16, <2>1, <2>2 DEF GhFollow, Goto
  <2>4. \E m \in 1 .. i - 1 : gcur'[t] = L[m]
    BY <2>2, <2>3
  <2>5. QED
    BY <1>7, <2>3, <2>4
<1>17. QED
  BY <1>8, <1>9, <1>10, <1>11, <1>12, <1>13, <1>14, <1>15, <1>16

-----------------------------------------------------------------------------
(* At the start the list is empty.                                          *)
LEMMA ClientStarts == ClientInit => ClientInv /\ Tasks!TasksInit
<1> SUFFICES ASSUME ClientInit PROVE ClientInv /\ Tasks!TasksInit
  OBVIOUS
<1> USE PointersAreNotProcs
<1>1. QueueTypeOK /\ GhLocals
  BY DEF ClientInit, QueueInit, QueueTypeOK, GhLocals, Pointers, GhLabels,
         AddLabels
<1>2. <<>> \in Seq(Procs) /\ IsList(<<>>, q_head, next)
  BY DEF ClientInit, QueueInit, IsList
<1>3. List = <<>>
  BY <1>2, ListIs DEF ListIsKnown
<1>4. \A t \in CPUs : gpc[t] = "out"
  BY DEF ClientInit, QueueInit
<1>5. OneCaller /\ \A t \in CPUs : Knows(t, List)
  BY <1>4 DEF OneCaller, Knows, Searching, Removing, Late
<1>6. Result = NULL
  BY <1>4, <1>5, ResultIs DEF ResultKnown, ClientInit
<1>7. QED
  BY <1>1, <1>2, <1>3, <1>5, <1>6 DEF ClientInv, Tasks!TasksInit

(* Every step of the client keeps the invariant and is a step of TaskQueue, *)
(* or none.                                                                 *)
LEMMA ClientStepIsTask ==
    ASSUME OneIsAboveZero, ClientInv, [ClientNext]_clientVars
    PROVE  ClientInv' /\ [Tasks!TasksNext]_<<List, Result>>
<1> DEFINE Stays == List' = List /\ Result' = Result
<1>1. /\ List \in Seq(Procs) /\ IsList(List, q_head, next)
      /\ QueueTypeOK /\ GhLocals /\ OneCaller
      /\ Queued = Elements(List)
      /\ gpc \in [CPUs -> GhLabels]
  BY ListIs DEF ClientInv, ListIsKnown, QueueTypeOK
(* The steps between two calls.                                             *)
<1>2. ASSUME Quiet, UNCHANGED <<ghVars, addVars, method>>,
             NEW q, IsList(q, q_head', next'),
             q_head' \in Pointers, next' \in [Procs -> Pointers]
      PROVE  ClientInv' /\ List' = q /\ Result = got /\ Result' = got'
  <2>1. q \in Seq(Procs) /\ List' = q
    BY <1>2, ListsAre DEF ListIsKnown, IsList
  <2>2. \A t \in CPUs : gpc[t] = "out" /\ gpc'[t] = "out"
    BY <1>2 DEF Quiet, ghVars
  <2>3. QueueTypeOK' /\ GhLocals'
    BY <1>1, <1>2, <2>2 DEF QueueTypeOK, GhLocals, ghVars, addVars
  <2>4. OneCaller' /\ \A t \in CPUs : Knows(t, List)'
    BY <2>2 DEF OneCaller, Knows, Searching, Removing, Late
  <2>5. Result = got /\ Result' = got'
    BY <1>1, <2>2, <2>4, ResultsAre DEF ResultKnown
  <2>6. QED
    BY <1>2, <2>1, <2>3, <2>4, <2>5 DEF ClientInv
<1>3. ASSUME NEW p \in Procs, ClientAdd(p)
      PROVE  ClientInv' /\ Tasks!TasksNext
  <2>1. /\ Quiet /\ p \notin Elements(List) /\ AddQueue(p)
        /\ UNCHANGED <<ghVars, addVars, method>> /\ got' = got
    BY <1>1, <1>3 DEF ClientAdd
  <2>2. q_head' \in Pointers /\ next' \in [Procs -> Pointers]
    BY <1>1, <2>1, AddQueueTyped
  <2>3. IsList(Append(List, p), q_head', next')
    BY <1>1, <2>1, AddQueueAppends
  <2>4. /\ ClientInv' /\ List' = Append(List, p)
        /\ Result = got /\ Result' = got'
    BY <1>2, <2>1, <2>2, <2>3
  <2>5. Tasks!InQueue = Elements(List)
    BY <1>1 DEF Tasks!InQueue, Elements
  <2>6. Tasks!Add(p)
    BY <2>1, <2>4, <2>5 DEF Tasks!Add
  <2>7. QED
    BY <2>4, <2>6 DEF Tasks!TasksNext
<1>4. CASE ClientGet
  <2>1. /\ Quiet /\ Get /\ got' = q_head
        /\ UNCHANGED <<ghVars, addVars, method>>
    BY <1>4 DEF ClientGet
  <2>2. q_head' \in Pointers /\ next' \in [Procs -> Pointers]
    BY <1>1, <2>1, GetTyped
  <2>3. CASE q_head = NULL
    <3>1. List = <<>> /\ IsList(List, q_head', next')
      BY <1>1, <2>1, <2>3, GetTakesHead
    <3>2. ClientInv' /\ List' = List /\ Result' = NULL
      BY <1>2, <2>1, <2>2, <2>3, <3>1
    <3>3. Tasks!TakeNothing
      BY <3>1, <3>2 DEF Tasks!TakeNothing
    <3>4. QED
      BY <3>2, <3>3 DEF Tasks!TasksNext
  <2>4. CASE q_head # NULL
    <3>1. 1 \in 1 .. Len(List) /\ q_head = List[1] /\ List # <<>>
      <4>1. Len(List) \in Nat /\ Len(List) # 0 /\ q_head = List[1]
        BY <2>4, ListPlaces
      <4>2. QED
        BY <4>1
    <3>2. q_head' = next[q_head] /\ next' = next
      BY <2>1, <2>4 DEF Get
    <3>3. IsList(Cut(List, 1), q_head', next')
      BY <1>1, <3>1, <3>2, CutList
    <3>4. ClientInv' /\ List' = Cut(List, 1) /\ Result' = List[1]
      BY <1>2, <2>1, <2>2, <3>1, <3>3
    <3>5. Tasks!TakeFirst
      BY <3>1, <3>4
         DEF Tasks!TakeFirst, Tasks!TakeAt, Tasks!Without, Cut
    <3>6. QED
      BY <3>4, <3>5 DEF Tasks!TasksNext
  <2>5. QED
    BY <2>3, <2>4
<1>5. ASSUME NEW t \in CPUs, ClientCall(t) PROVE ClientInv' /\ Stays
  <2>1. /\ \A u \in CPUs : gpc[u] = "out"
        /\ gpc' = [gpc EXCEPT ![t] = "load"]
        /\ q_head' = q_head /\ next' = next /\ got' = got /\ GhCall(t)
        /\ UNCHANGED addVars
    BY <1>5 DEF ClientCall, GhCall, Goto, Quiet
  <2>2. /\ gpc'[t] = "load"
        /\ \A u \in CPUs : u # t => gpc'[u] = "out"
    BY <1>1, <2>1
  <2>3. QueueTypeOK' /\ GhLocals'
    BY <1>1, <2>1, GhCallTyped
  <2>4. List' = List /\ List' \in Seq(Procs) /\ IsList(List', q_head', next')
    BY <1>1, <2>1, ListsAre DEF ListIsKnown
  <2>5. OneCaller' /\ \A u \in CPUs : Knows(u, List)'
    BY <2>2 DEF OneCaller, Knows, Searching, Removing, Late
  <2>6. Result' = Result
    BY <1>1, <2>1, <2>2, <2>5, ResultsAre DEF ResultKnown
  <2>7. QED
    BY <2>3, <2>4, <2>5, <2>6 DEF ClientInv
<1>6. ASSUME NEW t \in CPUs, ClientStep(t)
      PROVE  ClientInv' /\ (Stays \/ Tasks!TasksNext)
  <2>1. GhStep(t) /\ got' = got /\ UNCHANGED addVars
    BY <1>6 DEF ClientStep
  <2>2. QueueTypeOK' /\ GhLocals'
    BY <1>1, <2>1, GhStepTyped
  <2>3. StepDone(t)
    BY <2>1, BranchIsDone, WalkIsDone, RemovalIsDone DEF GhStep
  <2>4. OneCaller' /\ \A u \in CPUs : Knows(u, List)'
    <3>1. OneCaller' /\ \A u \in CPUs : u # t => gpc'[u] = "out"
      BY <2>1, OthersAreOut
    <3>2. \A u \in CPUs : u # t => Knows(u, List)'
      BY <3>1 DEF Knows, Searching, Removing, Late
    <3>3. Knows(t, List)'
      BY <2>3 DEF StepDone
    <3>4. QED
      BY <3>1, <3>2, <3>3
  <2>5. ClientInv'
    BY <2>2, <2>3, <2>4 DEF ClientInv, StepDone
  <2>6. QED
    BY <2>3, <2>5 DEF StepDone, Tasks!TasksNext
<1>7. ASSUME NEW t \in CPUs, ClientReturn(t) PROVE ClientInv' /\ Stays
  <2>1. /\ gpc[t] = "done" /\ gpc' = [gpc EXCEPT ![t] = "out"]
        /\ q_head' = q_head /\ next' = next /\ got' = ghigh[t] /\ GhLeave(t)
        /\ UNCHANGED addVars
    BY <1>7 DEF ClientReturn, GhLeave, Goto
  <2>2. \A u \in CPUs : gpc'[u] = "out"
    BY <1>1, <2>1 DEF OneCaller
  <2>3. QueueTypeOK' /\ GhLocals'
    BY <1>1, <2>1, GhCallTyped
  <2>4. List' = List /\ List' \in Seq(Procs) /\ IsList(List', q_head', next')
    BY <1>1, <2>1, ListsAre DEF ListIsKnown
  <2>5. OneCaller' /\ \A u \in CPUs : Knows(u, List)'
    BY <2>2 DEF OneCaller, Knows, Searching, Removing, Late
  <2>6. Result' = Result
    BY <1>1, <2>1, <2>2, <2>5, ResultsAre DEF ResultKnown
  <2>7. QED
    BY <2>3, <2>4, <2>5, <2>6 DEF ClientInv
<1>8. CASE UNCHANGED clientVars
  <2>1. UNCHANGED <<q_head, next, gpc, gcur, ghigh, greg, apc, acur, got>>
    BY <1>8 DEF clientVars, queueVars, ghVars, addVars
  <2>2. List' = List /\ List' \in Seq(Procs) /\ IsList(List', q_head', next')
    BY <1>1, <2>1, ListsAre DEF ListIsKnown
  <2>3. QueueTypeOK' /\ GhLocals' /\ OneCaller'
    BY <1>1, <2>1 DEF QueueTypeOK, GhLocals, OneCaller
  <2>4. \A t \in CPUs : Knows(t, List)'
    BY <2>1, <2>2 DEF ClientInv, Knows, Searching, Removing, Late
  <2>5. Result' = Result
    BY <2>1 DEF Result
  <2>6. QED
    BY <2>2, <2>3, <2>4, <2>5 DEF ClientInv
<1>9. QED
  BY <1>3, <1>4, <1>5, <1>6, <1>7, <1>8 DEF ClientNext

(* The two conjuncts of ClientSpec that concern safety.                     *)
LEMMA ClientIsSafe == ClientSpec => ClientInit /\ [][ClientNext]_clientVars
BY PTL DEF ClientSpec

(* At every statement of gethighestone() the PCBs are a list, and the       *)
(* thread's pointers are where it takes them to be; it never dereferences   *)
(* NULL, and it never reads highestone uninitialised.                       *)
THEOREM ClientInvHolds ==
    ASSUME OneIsAboveZero
    PROVE  ClientSpec => []ClientInv
<1>1. ClientInit => ClientInv
  BY ClientStarts
<1>2. ClientInv /\ [ClientNext]_clientVars => ClientInv'
  BY ClientStepIsTask
<1>3. QED
  BY <1>1, <1>2, ClientIsSafe, PTL

(* addqueue(), get() and gethighestone(), used by one thread at a time, are *)
(* a TaskQueue for every set of processes: none is lost or duplicated,      *)
(* get() is first in first out, and gethighestone() takes the process of    *)
(* highest priority that came first.                                        *)
THEOREM ListImplementsTaskQueue ==
    ASSUME OneIsAboveZero
    PROVE  ClientSpec => ImplementsTaskQueue
<1>1. ClientInit => Tasks!TasksInit
  BY ClientStarts
<1>2. ClientInv /\ [ClientNext]_clientVars
         => [Tasks!TasksNext]_<<List, Result>>
  BY ClientStepIsTask
<1>3. QED
  BY <1>1, <1>2, ClientInvHolds, ClientIsSafe, PTL
     DEF ImplementsTaskQueue, Tasks!TasksSpec

=============================================================================
