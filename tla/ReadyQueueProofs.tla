-------------------------- MODULE ReadyQueueProofs --------------------------
(***************************************************************************)
(* Typing of the ready queue, for every set of PCBs and of CPU threads: at  *)
(* any interleaving of gethighestone()'s steps, the list and the locals     *)
(* hold pointers to PCBs or NULL, and what is returned is one of these.     *)
(* And what addqueue() and get() do to a list that is well formed.          *)
(***************************************************************************)
EXTENDS ReadyQueue, SequenceTheorems, WellFoundedInduction, TLAPS

(* What each caller's locals hold, by the statement it is at.               *)
GhLocals ==
    \A t \in CPUs :
        /\ gpc[t] \in {"lone", "behind"} => greg[t] \in Procs
        /\ gpc[t] = "walk" => ghigh[t] \in Procs \cup {WILD}
        /\ gpc[t] \in {"advance", "behind", "store", "unlink", "done"}
              => ghigh[t] \in Pointers
        /\ gpc[t] = "relink" => ghigh[t] \in Procs
        /\ gpc[t] \in {"follow", "unlink", "relink"} => gcur[t] \in Procs

AddLocals == apc \in {"walk", "follow", "link"} => acur \in Procs

(* addqueue() keeps the list a list of PCBs.                                *)
LEMMA AddQueueTyped ==
    ASSUME QueueTypeOK, NEW p \in Procs, AddQueue(p)
    PROVE  q_head' \in Pointers /\ next' \in [Procs -> Pointers]
<1>1. [next EXCEPT ![p] = NULL] \in [Procs -> Pointers]
  BY DEF QueueTypeOK, Pointers
<1>2. CASE q_head = NULL
  BY <1>1, <1>2 DEF AddQueue, Pointers
<1>3. CASE q_head # NULL
  BY <1>1, <1>3 DEF AddQueue, QueueTypeOK, Pointers
<1>4. QED
  BY <1>2, <1>3

(* get() keeps the list a list of PCBs.                                     *)
LEMMA GetTyped ==
    ASSUME QueueTypeOK, Get
    PROVE  q_head' \in Pointers /\ next' \in [Procs -> Pointers]
BY DEF QueueTypeOK, Get, Pointers

(* Every statement of addqueue() keeps the types and its local.             *)
LEMMA AddStepTyped ==
    ASSUME QueueTypeOK, AddLocals, NEW p \in Procs,
           AddCall \/ AddStep(p), UNCHANGED ghVars
    PROVE  QueueTypeOK' /\ AddLocals'
<1> USE PointersAreNotProcs DEF QueueTypeOK, AddLocals, Pointers, AddLabels,
        ghVars
<1>1. CASE AddCall
  BY <1>1 DEF AddCall
<1>2. CASE AddClear(p)
  BY <1>2 DEF AddClear
<1>3. CASE AddFirst(p)
  BY <1>3 DEF AddFirst
<1>4. CASE AddWalk
  BY <1>4 DEF AddWalk
<1>5. CASE AddFollow
  BY <1>5 DEF AddFollow
<1>6. CASE AddLink(p)
  BY <1>6 DEF AddLink
<1>7. QED
  BY <1>1, <1>2, <1>3, <1>4, <1>5, <1>6 DEF AddStep

(* Every statement of gethighestone() keeps the types and the locals.       *)
LEMMA GhStepTyped ==
    ASSUME QueueTypeOK, GhLocals, NEW t \in CPUs, GhStep(t), UNCHANGED addVars
    PROVE  QueueTypeOK' /\ GhLocals'
<1> USE PointersAreNotProcs DEF QueueTypeOK, GhLocals, Pointers, GhLabels, Goto,
        addVars
<1>1. CASE GhLoad(t)
  BY <1>1 DEF GhLoad
<1>2. CASE GhEmpty(t)
  BY <1>2 DEF GhEmpty, Return
<1>3. CASE GhSingle(t)
  BY <1>3 DEF GhSingle
<1>4. CASE GhLone(t)
  BY <1>4 DEF GhLone
<1>5. CASE GhClear(t)
  BY <1>5 DEF GhClear, Return
<1>6. CASE GhWalk(t)
  BY <1>6 DEF GhWalk, HighestRead
<1>7. CASE GhReload(t)
  BY <1>7 DEF GhReload
<1>8. CASE GhHead(t)
  BY <1>8 DEF GhHead
<1>9. CASE GhAdvance(t)
  BY <1>9 DEF GhAdvance
<1>10. CASE GhBehind(t)
  BY <1>10 DEF GhBehind
<1>11. CASE GhStore(t)
  BY <1>11 DEF GhStore, Return
<1>12. CASE GhFind(t)
  BY <1>12 DEF GhFind
<1>13. CASE GhFollow(t)
  BY <1>13 DEF GhFollow
<1>14. CASE GhUnlink(t)
  BY <1>14 DEF GhUnlink
<1>15. CASE GhRelink(t)
  BY <1>15 DEF GhRelink, Return
<1>16. QED
  BY <1>1, <1>2, <1>3, <1>4, <1>5, <1>6, <1>7, <1>8, <1>9, <1>10, <1>11,
     <1>12, <1>13, <1>14, <1>15 DEF GhStep

(* The call and the return keep them too.                                   *)
LEMMA GhCallTyped ==
    ASSUME QueueTypeOK, GhLocals, NEW t \in CPUs, GhCall(t) \/ GhLeave(t),
           UNCHANGED addVars
    PROVE  QueueTypeOK' /\ GhLocals'
BY PointersAreNotProcs
   DEF QueueTypeOK, GhLocals, Pointers, GhLabels, Goto, GhCall, GhLeave, addVars

-----------------------------------------------------------------------------
Elements(q) == {q[i] : i \in 1 .. Len(q)}

(* The least of some numbers.                                               *)
LEMMA LeastNumber ==
    ASSUME NEW T \in SUBSET Nat, T # {}
    PROVE  \E m \in T : \A k \in T : m <= k
<1>1. PICK m \in T : \A k \in T : ~(<<k, m>> \in OpToRel(<, Nat))
  BY NatLessThanWellFounded, WFMin, Zenon
<1>2. \A k \in T : ~(k < m)
  BY <1>1 DEF OpToRel
<1>3. QED
  BY <1>2

(* A walk from the head visits the PCBs of the list and no other.           *)
LEMMA WalkVisitsList ==
    ASSUME NEW q, NEW h, NEW nx, IsList(q, h, nx)
    PROVE  Reach(h, nx) = Elements(q)
<1>1. Len(q) \in Nat /\ \A i \in 1 .. Len(q) : q[i] \in Procs
  BY LenProperties, ElementOfSeq DEF IsList
<1>2. /\ Elements(q) \in SUBSET Procs
      /\ h \in Elements(q) \cup {NULL}
      /\ \A x \in Elements(q) : nx[x] \in Elements(q) \cup {NULL}
  <2>1. \A i \in 1 .. Len(q) : nx[q[i]] \in Elements(q) \cup {NULL}
    BY <1>1 DEF IsList, Elements
  <2>2. QED
    BY <1>1, <2>1 DEF IsList, Elements
<1>3. Reach(h, nx) \subseteq Elements(q)
  BY <1>2 DEF Reach
<1>4. ASSUME NEW S \in SUBSET Procs, h \in S \cup {NULL},
             \A x \in S : nx[x] \in S \cup {NULL}
      PROVE  \A i \in 1 .. Len(q) : q[i] \in S
  <2> DEFINE T == {i \in 1 .. Len(q) : q[i] \notin S}
  <2> SUFFICES ASSUME T # {} PROVE FALSE
    OBVIOUS
  <2>1. PICK m \in T : \A k \in T : m <= k
    <3>1. T \in SUBSET Nat
      BY <1>1
    <3> HIDE DEF T
    <3>2. QED
      BY <3>1, LeastNumber
  <2>2. m \in 1 .. Len(q) /\ q[m] \notin S /\ q[m] \in Procs
    BY <1>1, <2>1
  <2>3. m # 1
    BY <1>1, <1>4, <2>2, PointersAreNotProcs DEF IsList
  <2>4. m - 1 \in 1 .. Len(q) /\ m - 1 # Len(q) /\ (m - 1) + 1 = m
    BY <1>1, <2>2, <2>3
  <2>5. q[m - 1] \in S
    BY <2>1, <2>4
  <2>6. nx[q[m - 1]] = q[m]
    BY <2>4 DEF IsList
  <2>7. QED
    BY <1>4, <2>2, <2>5, <2>6, PointersAreNotProcs
<1>5. Elements(q) \subseteq Reach(h, nx)
  <2> SUFFICES ASSUME NEW i \in 1 .. Len(q) PROVE q[i] \in Reach(h, nx)
    BY DEF Elements
  <2>1. q[i] \in Procs
    BY <1>1
  <2>2. QED
    BY <1>4, <2>1 DEF Reach
<1>6. QED
  BY <1>3, <1>5

(* addqueue() links a PCB that is not in the list behind the last one.      *)
LEMMA AddQueueAppends ==
    ASSUME QueueTypeOK, NEW q, IsList(q, q_head, next),
           NEW p \in Procs, p \notin Elements(q)
    PROVE  /\ ~AddQueueSpins(p)
           /\ AddQueue(p) => IsList(Append(q, p), q_head', next')
<1> USE PointersAreNotProcs
<1> DEFINE nx == [next EXCEPT ![p] = NULL]
           a == Append(q, p)
<1>1. /\ q \in Seq(Procs) /\ Len(q) \in Nat
      /\ \A i \in 1 .. Len(q) : q[i] \in Procs /\ q[i] # p
  BY LenProperties, ElementOfSeq DEF IsList, Elements
<1>2. next \in [Procs -> Pointers]
  BY DEF QueueTypeOK
<1>3. IsList(q, q_head, nx)
  BY <1>1, <1>2 DEF IsList
<1>4. Reach(q_head, nx) = Elements(q)
  BY <1>3, WalkVisitsList
<1>5. /\ q_head = NULL <=> Len(q) = 0
      /\ Len(q) # 0 => /\ Len(q) \in 1 .. Len(q)
                       /\ nx[q[Len(q)]] = NULL /\ q[1] = q_head
  BY <1>1, <1>3 DEF IsList
<1>6. ~AddQueueSpins(p)
  <2>1. q_head # NULL => q[Len(q)] \in Reach(q_head, nx)
    BY <1>4, <1>5 DEF Elements
  <2>2. QED
    BY <1>5, <2>1 DEF AddQueueSpins, Ends
<1>7. /\ a \in Seq(Procs) /\ Len(a) = Len(q) + 1
      /\ \A i \in 1 .. Len(q) : a[i] = q[i]
      /\ a[Len(q) + 1] = p
  BY <1>1, AppendProperties
<1>8. \A i \in 1 .. Len(a) : i \in 1 .. Len(q) \/ i = Len(q) + 1
  BY <1>1, <1>7
<1>9. \A i, j \in 1 .. Len(a) : a[i] = a[j] => i = j
  BY <1>1, <1>7, <1>8 DEF IsList
<1>10. ASSUME AddQueue(p) PROVE IsList(a, q_head', next')
  <2>1. q_head' = a[1]
    BY <1>1, <1>5, <1>7, <1>10 DEF AddQueue
  <2>2. CASE Len(q) = 0
    <3>1. next' = nx /\ nx[p] = NULL
      BY <1>2, <1>5, <1>10, <2>2 DEF AddQueue
    <3> HIDE DEF nx, a
    <3>2. \A i \in 1 .. Len(a) : i = Len(a) /\ a[i] = p
      BY <1>7, <2>2
    <3>3. QED
      BY <1>7, <1>9, <2>1, <2>2, <3>1, <3>2 DEF IsList
  <2>3. CASE Len(q) # 0
    <3>1. PICK last \in Elements(q) :
             nx[last] = NULL /\ next' = [nx EXCEPT ![last] = p]
      BY <1>4, <1>5, <1>10, <2>3 DEF AddQueue
    <3>2. PICK k \in 1 .. Len(q) : last = q[k]
      BY DEF Elements
    <3>3. k = Len(q)
      <4> SUFFICES ASSUME k # Len(q) PROVE FALSE
        OBVIOUS
      <4>1. k + 1 \in 1 .. Len(q)
        BY <1>1
      <4>2. nx[q[k]] = q[k + 1]
        BY <1>3 DEF IsList
      <4>3. QED
        BY <1>1, <3>1, <3>2, <4>1, <4>2
    <3>4. nx \in [Procs -> Pointers] /\ nx[p] = NULL
      BY <1>2 DEF Pointers
    <3>5. /\ next'[q[Len(q)]] = p
          /\ \A x \in Procs : x # q[Len(q)] => next'[x] = nx[x]
      BY <1>1, <3>1, <3>2, <3>3, <3>4
    <3>6. ASSUME NEW i \in 1 .. Len(a)
          PROVE  next'[a[i]] = IF i = Len(a) THEN NULL ELSE a[i + 1]
      <4>1. CASE i = Len(q) + 1
        BY <1>1, <1>5, <1>7, <2>3, <3>4, <3>5, <4>1
      <4>2. CASE i = Len(q)
        BY <1>1, <1>7, <3>5, <4>2
      <4>3. CASE i \in 1 .. Len(q) /\ i # Len(q)
        <5>1. i + 1 \in 1 .. Len(q) /\ i # Len(a)
          BY <1>1, <1>7, <4>3
        <5>2. q[i] # q[Len(q)]
          BY <1>3, <1>5, <2>3, <4>3 DEF IsList
        <5>3. nx[q[i]] = q[i + 1]
          BY <1>3, <4>3 DEF IsList
        <5>4. QED
          BY <1>1, <1>7, <3>5, <4>3, <5>1, <5>2, <5>3
      <4>4. QED
        BY <1>8, <4>1, <4>2, <4>3
    <3> HIDE DEF nx, a
    <3>7. QED
      BY <1>1, <1>7, <1>9, <2>1, <3>6 DEF IsList
  <2>4. QED
    BY <2>2, <2>3
<1>11. QED
  BY <1>6, <1>10

(* get() takes the first PCB off the list.                                  *)
LEMMA GetTakesHead ==
    ASSUME NEW q, IsList(q, q_head, next), Get
    PROVE  /\ q_head = NULL => q = <<>> /\ IsList(q, q_head', next')
           /\ q_head # NULL => /\ q # <<>> /\ q_head = Head(q)
                               /\ IsList(Tail(q), q_head', next')
<1> USE PointersAreNotProcs
<1>1. /\ q \in Seq(Procs) /\ Len(q) \in Nat
      /\ \A i \in 1 .. Len(q) : q[i] \in Procs
      /\ q_head = NULL <=> Len(q) = 0
      /\ Len(q) = 0 <=> q = <<>>
  <2>1. q \in Seq(Procs) /\ Len(q) \in Nat
    BY LenProperties DEF IsList
  <2>2. \A i \in 1 .. Len(q) : q[i] \in Procs
    BY <2>1, ElementOfSeq
  <2>3. Len(q) = 0 <=> q = <<>>
    BY <2>1, EmptySeq
  <2>4. q_head = NULL <=> Len(q) = 0
    BY <2>1, <2>2 DEF IsList
  <2>5. QED
    BY <2>1, <2>2, <2>3, <2>4
<1>2. CASE q_head = NULL
  <2>1. q_head' = q_head /\ next' = next
    BY <1>2 DEF Get
  <2>2. QED
    BY <1>1, <1>2, <2>1
<1>3. CASE q_head # NULL
  <2> DEFINE t == Tail(q)
  <2>1. /\ q # <<>> /\ q_head = Head(q)
        /\ t \in Seq(Procs) /\ Len(t) = Len(q) - 1 /\ Len(q) # 0
        /\ \A i \in 1 .. Len(t) : t[i] = q[i + 1]
    BY <1>1, <1>3, HeadTailProperties DEF IsList
  <2>2. q_head' = next[q_head] /\ next' = next /\ q_head = q[1]
    BY <1>1, <1>3 DEF Get, IsList
  <2> HIDE DEF t
  <2>3. \A i \in 1 .. Len(t) : i + 1 \in 1 .. Len(q)
    BY <1>1, <2>1
  <2>4. \A i, j \in 1 .. Len(t) : t[i] = t[j] => i = j
    <3> TAKE i, j \in 1 .. Len(t)
    <3> HAVE t[i] = t[j]
    <3>1. i + 1 = j + 1
      BY <2>1, <2>3 DEF IsList
    <3>2. i \in Nat /\ j \in Nat
      BY <1>1, <2>1
    <3>3. QED
      BY <3>1, <3>2
  <2>5. next[q[1]] = IF Len(t) = 0 THEN NULL ELSE t[1]
    <3>1. 1 \in 1 .. Len(q) /\ (1 = Len(q) <=> Len(t) = 0)
      BY <1>1, <2>1
    <3>2. Len(t) # 0 => 1 \in 1 .. Len(t) /\ t[1] = q[1 + 1]
      BY <1>1, <2>1
    <3>3. QED
      BY <3>1, <3>2 DEF IsList
  <2>6. ASSUME NEW i \in 1 .. Len(t)
        PROVE  next[t[i]] = IF i = Len(t) THEN NULL ELSE t[i + 1]
    <3>1. i + 1 \in 1 .. Len(q) /\ (i + 1 = Len(q) <=> i = Len(t))
      BY <1>1, <2>1, <2>3
    <3>2. i # Len(t) => i + 1 \in 1 .. Len(t)
      BY <1>1, <2>1
    <3>3. QED
      BY <2>1, <3>1, <3>2 DEF IsList
  <2>7. IsList(t, q_head', next')
    BY <2>1, <2>2, <2>4, <2>5, <2>6 DEF IsList
  <2>8. QED
    BY <1>3, <2>1, <2>7 DEF t
<1>4. QED
  BY <1>2, <1>3

(* The PCBs of a list with one more behind, and without the first.          *)
LEMMA ElementsChange ==
    ASSUME NEW q \in Seq(Procs), \A i, j \in 1 .. Len(q) : q[i] = q[j] => i = j
    PROVE  /\ \A p \in Procs : Elements(Append(q, p)) = Elements(q) \cup {p}
           /\ q # <<>> => /\ Head(q) \in Elements(q)
                          /\ Elements(Tail(q)) = Elements(q) \ {Head(q)}
<1>1. ASSUME NEW p \in Procs
      PROVE  Elements(Append(q, p)) = Elements(q) \cup {p}
  <2> DEFINE a == Append(q, p)
  <2>1. /\ Len(q) \in Nat /\ Len(a) = Len(q) + 1 /\ a[Len(q) + 1] = p
        /\ \A i \in 1 .. Len(q) : a[i] = q[i]
    BY AppendProperties, LenProperties
  <2> HIDE DEF a
  <2>2. \A i : i \in 1 .. Len(a) <=> i \in 1 .. Len(q) \/ i = Len(q) + 1
    BY <2>1
  <2>3. Elements(a) = Elements(q) \cup {p}
    BY <2>1, <2>2 DEF Elements
  <2>4. QED
    BY <2>3 DEF a
<1>2. ASSUME q # <<>>
      PROVE  /\ Head(q) \in Elements(q)
             /\ Elements(Tail(q)) = Elements(q) \ {Head(q)}
  <2> DEFINE t == Tail(q)
  <2>1. /\ Head(q) = q[1] /\ Len(q) \in Nat \ {0} /\ Len(t) = Len(q) - 1
        /\ \A i \in 1 .. Len(t) : t[i] = q[i + 1]
    BY <1>2, HeadTailProperties, LenProperties, EmptySeq
  <2> HIDE DEF t
  <2>2. 1 \in 1 .. Len(q)
    BY <2>1
  <2>3. \A i \in 1 .. Len(t) : i + 1 \in 1 .. Len(q) /\ i + 1 # 1
    BY <2>1
  <2>4. \A i \in 1 .. Len(q) : i # 1 => /\ i - 1 \in 1 .. Len(t)
                                       /\ (i - 1) + 1 = i
    BY <2>1
  <2>5. Elements(t) \subseteq Elements(q) \ {q[1]}
    BY <2>1, <2>2, <2>3 DEF Elements
  <2>6. ASSUME NEW i \in 1 .. Len(q), q[i] # q[1]
        PROVE  q[i] \in Elements(t)
    <3>1. i - 1 \in 1 .. Len(t) /\ t[i - 1] = q[i]
      BY <2>1, <2>4, <2>6
    <3>2. QED
      BY <3>1 DEF Elements
  <2>7. Elements(q) \ {q[1]} \subseteq Elements(t)
    BY <2>6 DEF Elements
  <2>8. q[1] \in Elements(q)
    BY <2>2 DEF Elements
  <2>9. QED
    BY <2>1, <2>5, <2>7, <2>8 DEF t
<1>3. QED
  BY <1>1, <1>2

(* The ready queue is a list.                                               *)
QueueIsList == \E q \in Seq(Procs) : IsList(q, q_head, next)

(* addqueue() of a PCB that is not queued ends, and queues it.              *)
LEMMA AddsOne ==
    ASSUME QueueTypeOK, QueueIsList, NEW p \in Procs, p \notin Queued
    PROVE  /\ ~AddQueueSpins(p)
           /\ AddQueue(p) => QueueIsList' /\ Queued' = Queued \cup {p}
<1>1. PICK q \in Seq(Procs) : IsList(q, q_head, next)
  BY DEF QueueIsList
<1>2. Queued = Elements(q)
  BY <1>1, WalkVisitsList DEF Queued
<1>3. ~AddQueueSpins(p)
  BY <1>1, <1>2, AddQueueAppends
<1>4. ASSUME AddQueue(p)
      PROVE  QueueIsList' /\ Queued' = Queued \cup {p}
  <2>1. IsList(Append(q, p), q_head', next')
    BY <1>1, <1>2, <1>4, AddQueueAppends
  <2>2. Append(q, p) \in Seq(Procs)
    BY <2>1 DEF IsList
  <2>3. Reach(q_head', next') = Elements(Append(q, p))
    BY <2>1, WalkVisitsList
  <2>4. Elements(Append(q, p)) = Elements(q) \cup {p}
    BY <1>1, ElementsChange DEF IsList
  <2>5. Queued' = Queued \cup {p}
    BY <1>2, <2>3, <2>4 DEF Queued
  <2>6. QueueIsList'
    BY <2>1, <2>2 DEF QueueIsList
  <2>7. QED
    BY <2>5, <2>6
<1>5. QED
  BY <1>3, <1>4

(* get() takes a queued PCB out of the queue, unless there is none.         *)
LEMMA TakesOne ==
    ASSUME QueueIsList, Get
    PROVE  /\ QueueIsList'
           /\ q_head = NULL => Queued' = Queued
           /\ q_head # NULL => /\ q_head \in Queued
                               /\ Queued' = Queued \ {q_head}
<1>1. PICK q \in Seq(Procs) : IsList(q, q_head, next)
  BY DEF QueueIsList
<1>2. Queued = Elements(q)
  BY <1>1, WalkVisitsList DEF Queued
<1>3. CASE q_head = NULL
  <2>1. IsList(q, q_head', next')
    BY <1>1, <1>3, GetTakesHead
  <2>2. Reach(q_head', next') = Elements(q)
    BY <2>1, WalkVisitsList
  <2>3. QED
    BY <1>2, <1>3, <2>1, <2>2 DEF Queued, QueueIsList
<1>4. CASE q_head # NULL
  <2>1. /\ q # <<>> /\ q_head = Head(q)
        /\ IsList(Tail(q), q_head', next')
    BY <1>1, <1>4, GetTakesHead
  <2>2. Tail(q) \in Seq(Procs)
    BY <2>1 DEF IsList
  <2>3. Reach(q_head', next') = Elements(Tail(q))
    BY <2>1, WalkVisitsList
  <2>4. /\ Head(q) \in Elements(q)
        /\ Elements(Tail(q)) = Elements(q) \ {Head(q)}
    BY <1>1, <2>1, ElementsChange DEF IsList
  <2>5. q_head \in Queued /\ Queued' = Queued \ {q_head}
    BY <1>2, <2>1, <2>3, <2>4 DEF Queued
  <2>6. QueueIsList'
    BY <2>1, <2>2 DEF QueueIsList
  <2>7. QED
    BY <1>4, <2>5, <2>6
<1>5. QED
  BY <1>3, <1>4

=============================================================================
