----------------------------- MODULE ReadyQueue -----------------------------
(***************************************************************************)
(* The ready queue of Project-6-Scheduling/student.c: the PCBs linked       *)
(* through their next field from q_head.                                    *)
(*                                                                         *)
(* addqueue() and get() hold ready_mutex from their first statement to      *)
(* their last, so where nothing else touches the list each is one step.     *)
(* gethighestone() takes no lock: it is called by several CPU threads at    *)
(* once and while another adds to the list, and the Makefile compiles with  *)
(* -O0.  So each of its accesses to the list is a step of its own, and so   *)
(* is each of addqueue()'s beside it; an assignment is a load and a store.  *)
(***************************************************************************)
EXTENDS Naturals, Sequences

CONSTANTS
    Procs,      \* the PCBs of processes[]
    CPUs,       \* the CPU threads, which call gethighestone()
    Priority,   \* static_priority of each PCB
    NULL,       \* the null pointer
    WILD        \* an uninitialised pointer

(* os-sim.h: 0 is the lowest priority and 10 the highest.                   *)
ASSUME PrioritiesAreNumbers == Priority \in [Procs -> 0 .. 10]

ASSUME PointersAreNotProcs ==
    /\ NULL \notin Procs
    /\ WILD \notin Procs
    /\ NULL # WILD

VARIABLES
    q_head,     \* the first PCB of the list, or NULL
    next,       \* pcb->next
    gpc,        \* where each caller is in gethighestone()
    gcur,       \* its currentone
    ghigh,      \* its highestone; once "done", the pointer it returns
    greg,       \* the register between a load and the use of its value
    apc,        \* where the holder of ready_mutex is in addqueue()
    acur        \* its curr

ghVars == <<gpc, gcur, ghigh, greg>>
addVars == <<apc, acur>>
queueVars == <<q_head, next, ghVars, addVars>>

Pointers == Procs \cup {NULL}

GhLabels == {"out", "load", "empty", "single", "lone", "clear", "walk",
             "reload", "head", "advance", "behind", "store", "find", "follow",
             "unlink", "relink", "done", "fault"}

AddLabels == {"out", "clear", "first", "walk", "follow", "link", "fault"}

QueueTypeOK ==
    /\ q_head \in Pointers
    /\ next \in [Procs -> Pointers]
    /\ gpc \in [CPUs -> GhLabels]
    /\ gcur \in [CPUs -> Pointers]
    /\ ghigh \in [CPUs -> Pointers \cup {WILD}]
    /\ greg \in [CPUs -> Pointers]
    /\ apc \in AddLabels
    /\ acur \in Pointers

QueueInit ==
    /\ q_head = NULL
    /\ next = [p \in Procs |-> NULL]
    /\ gpc = [t \in CPUs |-> "out"]
    /\ gcur = [t \in CPUs |-> NULL]
    /\ ghigh = [t \in CPUs |-> NULL]
    /\ greg = [t \in CPUs |-> NULL]
    /\ apc = "out" /\ acur = NULL

-----------------------------------------------------------------------------
(* The PCBs that a walk from h along nx visits: the least set that holds h  *)
(* and is closed under nx.                                                 *)
Reach(h, nx) ==
    {p \in Procs :
        \A S \in SUBSET Procs :
            /\ h \in S \cup {NULL}
            /\ \A x \in S : nx[x] \in S \cup {NULL}
            => p \in S}

Queued == Reach(q_head, next)

(* The PCBs of q, one after the other, are the list that starts at h.       *)
IsList(q, h, nx) ==
    /\ q \in Seq(Procs)
    /\ \A i, j \in 1 .. Len(q) : q[i] = q[j] => i = j
    /\ h = IF Len(q) = 0 THEN NULL ELSE q[1]
    /\ \A i \in 1 .. Len(q) :
          nx[q[i]] = IF i = Len(q) THEN NULL ELSE q[i + 1]

(* The list ends: some PCB of it has no successor.                          *)
Ends(h, nx) == h = NULL \/ \E p \in Reach(h, nx) : nx[p] = NULL

(* Mutant of AddQueue: p is linked in front of the list.                    *)
AddQueueInFront(p) ==
    /\ q_head' = p
    /\ next' = [next EXCEPT ![p] = q_head]

(* addqueue(p): clear p->next, walk from the head to the last PCB and link  *)
(* p behind it.  The walk ends only on a list that ends.                    *)
AddQueue(p) ==
    LET nx == [next EXCEPT ![p] = NULL] IN
    IF q_head = NULL
    THEN q_head' = p /\ next' = nx
    ELSE /\ \E last \in Reach(q_head, nx) :
                nx[last] = NULL /\ next' = [nx EXCEPT ![last] = p]
         /\ q_head' = q_head

(* On a circular list addqueue()'s walk never ends, with ready_mutex held.  *)
AddQueueSpins(p) == ~Ends(q_head, [next EXCEPT ![p] = NULL])

(* Mutant of Get: the head is returned and stays in the list.               *)
GetWithoutUnlinking == UNCHANGED <<q_head, next>>

(* addqueue(p) beside gethighestone(), from curr = q_head, one access to    *)
(* the list at a time: the list may change under the walk, which ends in a  *)
(* fault if curr->next has become NULL between the test and the assignment. *)
AddCall ==
    /\ apc = "out" /\ apc' = "clear"
    /\ acur' = q_head
    /\ UNCHANGED <<q_head, next>>

AddClear(p) ==
    /\ apc = "clear" /\ apc' = IF acur = NULL THEN "first" ELSE "walk"
    /\ next' = [next EXCEPT ![p] = NULL]
    /\ UNCHANGED <<q_head, acur>>

AddFirst(p) ==
    /\ apc = "first" /\ apc' = "out"
    /\ q_head' = p
    /\ UNCHANGED <<next, acur>>

(* while (curr->next != NULL) curr = curr->next                             *)
AddWalk ==
    /\ apc = "walk" /\ apc' = IF next[acur] = NULL THEN "link" ELSE "follow"
    /\ UNCHANGED <<q_head, next, acur>>

AddFollow ==
    /\ apc = "follow" /\ apc' = IF next[acur] = NULL THEN "fault" ELSE "walk"
    /\ acur' = next[acur]
    /\ UNCHANGED <<q_head, next>>

AddLink(p) ==
    /\ apc = "link" /\ apc' = "out"
    /\ next' = [next EXCEPT ![acur] = p]
    /\ acur' = NULL
    /\ UNCHANGED q_head

AddStep(p) ==
    AddClear(p) \/ AddFirst(p) \/ AddWalk \/ AddFollow \/ AddLink(p)

(* get(): unlink the head; its result is the old head, NULL if none.        *)
Get ==
    /\ q_head' = IF q_head = NULL THEN NULL ELSE next[q_head]
    /\ next' = next

-----------------------------------------------------------------------------
(* gethighestone(), one statement at a time.                                *)
Goto(t, from, to) ==
    /\ gpc[t] = from
    /\ gpc' = [gpc EXCEPT ![t] = to]

Return(t, from, result) ==
    /\ Goto(t, from, "done")
    /\ ghigh' = [ghigh EXCEPT ![t] = result]

(* currentone = q_head                                                      *)
GhLoad(t) ==
    /\ Goto(t, "load", "empty")
    /\ gcur' = [gcur EXCEPT ![t] = q_head]
    /\ UNCHANGED <<q_head, next, ghigh, greg>>

(* if (q_head == NULL) return NULL                                          *)
GhEmpty(t) ==
    /\ IF q_head = NULL
       THEN Return(t, "empty", NULL)
       ELSE Goto(t, "empty", "single") /\ ghigh' = ghigh
    /\ UNCHANGED <<q_head, next, gcur, greg>>

(* else if (q_head->next == NULL): q_head is read again, and dereferenced.  *)
(* The other branch enters the loop with highestone uninitialised.          *)
GhSingle(t) ==
    /\ Goto(t, "single", IF q_head = NULL THEN "fault" ELSE "lone")
    /\ greg' = [greg EXCEPT ![t] = q_head]
    /\ UNCHANGED <<q_head, next, gcur, ghigh>>

GhLone(t) ==
    /\ \/ Goto(t, "lone", "clear") /\ next[greg[t]] = NULL /\ ghigh' = ghigh
       \/ /\ Goto(t, "lone", "walk") /\ next[greg[t]] # NULL
          /\ ghigh' = [ghigh EXCEPT ![t] = WILD]
    /\ greg' = [greg EXCEPT ![t] = NULL]
    /\ UNCHANGED <<q_head, next, gcur>>

(* q_head = NULL; return currentone                                         *)
GhClear(t) ==
    /\ Return(t, "clear", gcur[t])
    /\ q_head' = NULL
    /\ UNCHANGED <<next, gcur, greg>>

(* lvl, which is 0 until highestone is set, then highestone's priority.     *)
Level(t) == IF ghigh[t] \in Procs THEN Priority[ghigh[t]] ELSE 0

(* The first read of highestone after the loop.  If no process was above    *)
(* level 0 it is uninitialised: whatever an earlier call left in its place. *)
HighestRead(t) == IF ghigh[t] = WILD THEN Pointers \cup {WILD} ELSE {ghigh[t]}

(* Mutant of GhWalk: >= in place of >, the last of equals wins.             *)
GhWalkTakesLast(t) ==
    /\ \/ /\ gcur[t] = NULL
          /\ Goto(t, "walk", "reload") /\ UNCHANGED <<gcur, ghigh>>
       \/ /\ gcur[t] # NULL
          /\ Goto(t, "walk", "walk")
          /\ gcur' = [gcur EXCEPT ![t] = next[gcur[t]]]
          /\ ghigh' = IF Priority[gcur[t]] >= Level(t)
                      THEN [ghigh EXCEPT ![t] = gcur[t]] ELSE ghigh
    /\ UNCHANGED <<q_head, next, greg>>

(* One turn of while (currentone != NULL), or its exit.                     *)
GhWalk(t) ==
    /\ \/ /\ gcur[t] = NULL
          /\ Goto(t, "walk", "reload")
          /\ gcur' = gcur
          /\ \E h \in HighestRead(t) : ghigh' = [ghigh EXCEPT ![t] = h]
       \/ /\ gcur[t] # NULL
          /\ Goto(t, "walk", "walk")
          /\ gcur' = [gcur EXCEPT ![t] = next[gcur[t]]]
          /\ ghigh' = IF Priority[gcur[t]] > Level(t)
                      THEN [ghigh EXCEPT ![t] = gcur[t]] ELSE ghigh
    /\ UNCHANGED <<q_head, next, greg>>

(* currentone = q_head                                                      *)
GhReload(t) ==
    /\ Goto(t, "reload", "head")
    /\ gcur' = [gcur EXCEPT ![t] = q_head]
    /\ UNCHANGED <<q_head, next, ghigh, greg>>

(* if (highestone == q_head)                                                *)
GhHead(t) ==
    /\ Goto(t, "head", IF ghigh[t] = q_head THEN "advance" ELSE "find")
    /\ UNCHANGED <<q_head, next, gcur, ghigh, greg>>

(* q_head = q_head->next; return highestone                                 *)
GhAdvance(t) ==
    /\ Goto(t, "advance", IF q_head = NULL THEN "fault" ELSE "behind")
    /\ greg' = [greg EXCEPT ![t] = q_head]
    /\ UNCHANGED <<q_head, next, gcur, ghigh>>

GhBehind(t) ==
    /\ Goto(t, "behind", "store")
    /\ greg' = [greg EXCEPT ![t] = next[greg[t]]]
    /\ UNCHANGED <<q_head, next, gcur, ghigh>>

GhStore(t) ==
    /\ Return(t, "store", ghigh[t])
    /\ q_head' = greg[t]
    /\ UNCHANGED <<next, gcur, greg>>

(* Mutant of GhFollow: the loop does not advance.                           *)
GhFollowStays(t) ==
    /\ Goto(t, "follow", "find")
    /\ UNCHANGED <<q_head, next, gcur, ghigh, greg>>

(* while (currentone->next != highestone) currentone = currentone->next     *)
GhFind(t) ==
    /\ Goto(t, "find", IF gcur[t] = NULL THEN "fault"
                       ELSE IF next[gcur[t]] = ghigh[t] THEN "unlink"
                       ELSE "follow")
    /\ UNCHANGED <<q_head, next, gcur, ghigh, greg>>

GhFollow(t) ==
    /\ Goto(t, "follow", "find")
    /\ gcur' = [gcur EXCEPT ![t] = next[gcur[t]]]
    /\ UNCHANGED <<q_head, next, ghigh, greg>>

(* currentone->next = highestone->next; return highestone                   *)
GhUnlink(t) ==
    /\ \/ ghigh[t] = NULL /\ Goto(t, "unlink", "fault") /\ greg' = greg
       \/ /\ ghigh[t] # NULL /\ Goto(t, "unlink", "relink")
          /\ greg' = [greg EXCEPT ![t] = next[ghigh[t]]]
    /\ UNCHANGED <<q_head, next, gcur, ghigh>>

GhRelink(t) ==
    /\ Return(t, "relink", ghigh[t])
    /\ next' = [next EXCEPT ![gcur[t]] = greg[t]]
    /\ UNCHANGED <<q_head, gcur, greg>>

GhStep(t) ==
    \/ GhLoad(t) \/ GhEmpty(t) \/ GhSingle(t) \/ GhLone(t) \/ GhClear(t)
    \/ GhWalk(t) \/ GhReload(t) \/ GhHead(t)
    \/ GhAdvance(t) \/ GhBehind(t) \/ GhStore(t) \/ GhFind(t) \/ GhFollow(t)
    \/ GhUnlink(t) \/ GhRelink(t)

(* The call, and the return to the caller with the value of ghigh[t]; the   *)
(* locals die with the call.                                               *)
GhCall(t) ==
    /\ Goto(t, "out", "load")
    /\ UNCHANGED <<q_head, next, gcur, ghigh, greg>>

GhLeave(t) ==
    /\ Goto(t, "done", "out")
    /\ gcur' = [gcur EXCEPT ![t] = NULL]
    /\ ghigh' = [ghigh EXCEPT ![t] = NULL]
    /\ greg' = [greg EXCEPT ![t] = NULL]
    /\ UNCHANGED <<q_head, next>>

=============================================================================
