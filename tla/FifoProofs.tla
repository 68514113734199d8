----------------------------- MODULE FifoProofs -----------------------------
(***************************************************************************)
(* Proofs about Scheduler where no time slice ever fires, for every number  *)
(* of CPUs and of processes and every legal set of programs, whenever the   *)
(* ticks begin: until an event is missed, library and scheduler agree on    *)
(* where each process is, and an event is missed only when a tick has begun *)
(* before every CPU thread was at rest.                                     *)
(*                                                                         *)
(* FifoInv is the inductive invariant.  ControlKnows says which statements  *)
(* are never reached, and holds whatever is missed; SettledAhead that the   *)
(* supervisor finds at rest the CPU threads it has yet to visit, until a    *)
(* tick is hurried; and PlaceKnows, until an event is missed, what is true  *)
(* of a process in the ready queue, on a CPU, on its way into the queue, at *)
(* an I/O operation and in each state that student.c gives it.              *)
(***************************************************************************)
EXTENDS SchedulerProofs

(* ./os-sim <cpus>, or a time slice of zero.                                *)
FifoOnly == \A line \in CommandLines : ~line.static_prior /\ line.timeslice <= 0

(* The process each CPU has, the CPUs that took theirs from the queue and   *)
(* have not yet marked it RUNNING, what each has been told of its process   *)
(* and not yet acted on, and the kind of operation each process is at.      *)
On == [c \in CPUs |-> OnCpu(c)]

Taken == {c \in CPUs : cpc[c] = "setrun"}

Told ==
    [c \in CPUs |->
        IF cpc[c] = "parked" /\ simState[c] # "CPU_RUNNING" THEN simState[c]
        ELSE IF cpc[c] \in {"count", "enter", "handler"} THEN event[c]
        ELSE "nothing"]

Kind == [p \in Procs |-> Op(p).type]

(* How far wake_up() is with its process.                                   *)
WakeStage ==
    IF spc \in {"wake", "wake_ready"} THEN "coming"
    ELSE IF spc = "wake_add" THEN "adding"
    ELSE IF spc = "wake_leave" THEN "added"
    ELSE IF spc = "wake_ret" THEN "over"
    ELSE "none"

(* The thread is in idle(), or in the schedule() that idle() calls and has  *)
(* yet to tell the simulator of it.                                         *)
Idling(c) ==
    \/ cpc[c] \in {"idle", "idle_wait"}
    \/ event[c] = "CPU_IDLE"
       /\ cpc[c] \in {"select", "setrun", "cs_unlock", "cs_set"}

ControlKnows ==
    /\ ~static_prior /\ timeslice <= 0
    /\ spc \in {"tick", "print", "cpus", "await", "resume", "io", "creat",
                "wake", "wake_ready", "wake_add", "wake_leave", "wake_ret",
                "end", "exit", "spin"}
    /\ \A c \in CPUs :
        /\ timer[c] <= 0
        /\ cpc[c] \notin {"requeue", "adding", "spin", "gh"}
        /\ event[c] # "CPU_PREEMPT" /\ simState[c] # "CPU_PREEMPT"
        /\ Idling(c) => simCurrent[c] = NULL
        /\ Idling(c) /\ cpc[c] \notin {"cs_unlock", "cs_set"}
              => current[c] \notin Procs

(* The CPU threads that the supervisor has yet to visit in this tick, or    *)
(* visits next.                                                             *)
Ahead ==
    {c \in CPUs : \/ spc = "print"
                  \/ spc = "cpus" /\ c >= n
                  \/ spc \in {"await", "resume"} /\ c > n}

SettledAhead == \A c \in Ahead : Settled(c)

(* Where a process is decides what it is doing.                             *)
QueueKnows ==
    \A p \in Queued :
        /\ state[p] = "READY" /\ Kind[p] = "OP_CPU"
        /\ \A c \in CPUs : On[c] # p

OnKnows ==
    \A c \in CPUs : On[c] \in Procs =>
        /\ \A d \in CPUs : On[d] = On[c] => d = c
        /\ state[On[c]] = IF c \in Taken THEN "READY" ELSE "RUNNING"
        /\ Told[c] = "nothing" => Kind[On[c]] = "OP_CPU"
        /\ Told[c] = "CPU_YIELD" => Kind[On[c]] = "OP_IO"
        /\ Told[c] = "CPU_TERMINATE" => Kind[On[c]] = "OP_TERMINATE"

WakeKnows ==
    /\ WakeStage \in {"coming", "adding"} =>
          /\ waking \in Procs /\ waking \notin Queued
          /\ \A c \in CPUs : On[c] # waking
          /\ Kind[waking] = "OP_CPU"
          /\ after = "created" => waking = created
    /\ WakeStage = "coming" =>
          state[waking] = IF after = "created" THEN "NEW" ELSE "WAITING"
    /\ WakeStage = "adding" => state[waking] = "READY"
    /\ WakeStage = "added" =>
          waking \in Procs /\ state[waking] \in {"READY", "RUNNING"}
    /\ WakeStage \in {"none", "over"} => waking = NULL

(* And what student.c takes it to be doing says where it is.                *)
StateKnows ==
    \A p \in Procs :
        /\ state[p] = "NEW" => Kind[p] = "OP_CPU"
        /\ p >= created =>
             \/ state[p] = "NEW"
             \/ WakeStage \in {"adding", "added", "over"}
                /\ after = "created" /\ p = created
        /\ state[p] = "RUNNING" => \E c \in CPUs \ Taken : On[c] = p
        /\ state[p] = "READY" => \/ p \in Queued
                                 \/ \E c \in Taken : On[c] = p
                                 \/ WakeStage = "adding" /\ waking = p
        /\ state[p] = "WAITING" => \/ Kind[p] = "OP_IO"
                                   \/ WakeStage = "coming" /\ waking = p
        /\ Kind[p] = "OP_IO" => \/ state[p] = "WAITING"
                                \/ \E c \in CPUs : On[c] = p

PlaceKnows == QueueKnows /\ OnKnows /\ WakeKnows /\ StateKnows /\ QueueIsList

FifoInv ==
    /\ SupInv
    /\ ControlKnows
    /\ ~hurried => ~missed /\ SettledAhead
    /\ ~missed => PlaceKnows

-----------------------------------------------------------------------------
(* The steps of Scheduler as far as PlaceKnows can tell them apart.         *)
Stays(c) ==
    On'[c] = On[c] /\ Told'[c] = Told[c] /\ (c \in Taken' <=> c \in Taken)

OthersStay(c) == \A d \in CPUs \ {c} : Stays(d)
AllStay == \A d \in CPUs : Stays(d)
ListStays == UNCHANGED <<q_head, next>>
WakeWaits == UNCHANGED <<created, waking, after, WakeStage>>

Quiet == AllStay /\ ListStays /\ WakeWaits /\ UNCHANGED <<state, Kind>>

(* yield() or terminate() marks the process of its CPU.                     *)
Leaves(c) ==
    /\ OthersStay(c) /\ ListStays /\ WakeWaits /\ Kind' = Kind
    /\ On[c] \in Procs /\ c \notin Taken
    /\ Told[c] \in {"CPU_YIELD", "CPU_TERMINATE"}
    /\ On'[c] = NULL /\ Told'[c] = "nothing" /\ c \notin Taken'
    /\ state' = [state EXCEPT ![On[c]] = NewState(Told[c])]

(* schedule() takes the head of the queue ...                               *)
Takes(c) ==
    /\ OthersStay(c) /\ WakeWaits /\ UNCHANGED <<state, Kind>>
    /\ On[c] = NULL /\ Get
    /\ On'[c] = q_head /\ Told'[c] = "nothing" /\ c \in Taken'

(* ... and marks it.                                                        *)
Marks(c) ==
    /\ OthersStay(c) /\ ListStays /\ WakeWaits /\ Kind' = Kind
    /\ c \in Taken /\ c \notin Taken'
    /\ On'[c] = On[c] /\ Told'[c] = Told[c]
    /\ state' = [p \in Procs |-> IF p = On[c] THEN "RUNNING" ELSE state[p]]

(* The burst of CPU c's process is over, and e is posted to c.              *)
Posts(c, e) ==
    /\ OthersStay(c) /\ ListStays /\ WakeWaits /\ UNCHANGED state
    /\ WakeStage = "none"
    /\ On[c] \in Procs /\ c \notin Taken /\ Told[c] = "nothing"
    /\ On'[c] = On[c] /\ Told'[c] = e /\ c \notin Taken'
    /\ \A p \in Procs : p # On[c] => Kind'[p] = Kind[p]
    /\ Kind'[On[c]] = IF e = "CPU_YIELD" THEN "OP_IO" ELSE "OP_TERMINATE"

(* wake_up() is called for a process whose I/O is complete, ...             *)
Completes(p) ==
    /\ AllStay /\ ListStays /\ UNCHANGED <<state, created>>
    /\ WakeStage = "none" /\ WakeStage' = "coming"
    /\ waking' = p /\ after' = "creat"
    /\ Kind[p] = "OP_IO" /\ Kind'[p] = "OP_CPU"
    /\ \A q \in Procs : q # p => Kind'[q] = Kind[q]
    /\ \A c \in CPUs : Told[c] = "nothing"

(* ... or for a new one; it marks its process, adds it to the queue,        *)
(* forgets it, and a new process is counted.                                *)
Creates ==
    /\ AllStay /\ ListStays /\ UNCHANGED <<state, created, Kind>>
    /\ WakeStage = "none" /\ WakeStage' = "coming"
    /\ created \in Procs /\ waking' = created /\ after' = "created"

Readies ==
    /\ AllStay /\ ListStays /\ UNCHANGED <<created, waking, after, Kind>>
    /\ WakeStage = "coming" /\ WakeStage' = "adding"
    /\ state' = [state EXCEPT ![waking] = "READY"]

Adds ==
    /\ AllStay /\ UNCHANGED <<state, created, waking, after, Kind>>
    /\ WakeStage = "adding" /\ WakeStage' = "added"
    /\ AddQueue(waking)

Forgets ==
    /\ AllStay /\ ListStays /\ UNCHANGED <<state, created, after, Kind>>
    /\ WakeStage = "added" /\ WakeStage' = "over"
    /\ waking' = NULL

Counts ==
    /\ AllStay /\ ListStays /\ UNCHANGED <<state, waking, after, Kind>>
    /\ WakeStage = "over" /\ WakeStage' = "none"
    /\ created' = IF after = "created" THEN created + 1 ELSE created

FifoStep ==
    \/ Quiet
    \/ \E c \in CPUs : \/ Leaves(c) \/ Takes(c) \/ Marks(c)
                       \/ \E e \in {"CPU_YIELD", "CPU_TERMINATE"} : Posts(c, e)
    \/ \E p \in Procs : Completes(p)
    \/ Creates \/ Readies \/ Adds \/ Forgets \/ Counts

-----------------------------------------------------------------------------
(* What the variables of PlaceKnows may hold.                               *)
PlaceTypes ==
    /\ QueueTypeOK
    /\ state \in [Procs -> ProcessStates]
    /\ waking \in Pointers
    /\ created \in Nat
    /\ Procs \subseteq Nat
    /\ \A c \in Taken : c \in CPUs /\ Told[c] = "nothing"
    /\ \A c \in CPUs : /\ On[c] \in Pointers
                       /\ Told[c] # "nothing" => WakeStage = "none"

(* A step that moves no process keeps PlaceKnows.                           *)
LEMMA QuietKeepsPlace ==
    ASSUME PlaceTypes, PlaceKnows, Quiet
    PROVE  PlaceKnows'
<1>1. Queued' = Queued /\ (QueueIsList <=> QueueIsList')
  BY DEF Quiet, ListStays, Queued, QueueIsList
<1>2. /\ UNCHANGED <<created, waking, after, WakeStage, state, Kind>>
      /\ \A c \in CPUs : /\ On'[c] = On[c] /\ Told'[c] = Told[c]
                         /\ c \in Taken' <=> c \in Taken
      /\ Taken \subseteq CPUs /\ Taken' \subseteq CPUs
  BY DEF Quiet, AllStay, Stays, WakeWaits, Taken
<1>3. QueueKnows'
  BY <1>1, <1>2 DEF PlaceKnows, QueueKnows
<1>4. OnKnows'
  BY <1>1, <1>2 DEF PlaceKnows, OnKnows
<1>5. WakeKnows'
  BY <1>1, <1>2 DEF PlaceKnows, WakeKnows
<1>6. StateKnows'
  BY <1>1, <1>2 DEF PlaceKnows, StateKnows
<1>7. QED
  BY <1>1, <1>3, <1>4, <1>5, <1>6 DEF PlaceKnows

(* yield() and terminate() take no process that is queued or being woken.   *)
LEMMA LeaveKeepsPlace ==
    ASSUME PlaceTypes, PlaceKnows, NEW c \in CPUs, Leaves(c)
    PROVE  PlaceKnows'
<1> USE PointersAreNotProcs
<1> DEFINE p == On[c]
<1>1. Queued' = Queued /\ (QueueIsList <=> QueueIsList')
  BY DEF Leaves, ListStays, Queued, QueueIsList
<1>2. /\ UNCHANGED <<created, waking, after, WakeStage, Kind>>
      /\ \A d \in CPUs \ {c} : /\ On'[d] = On[d] /\ Told'[d] = Told[d]
                               /\ d \in Taken' <=> d \in Taken
      /\ Taken \subseteq CPUs /\ Taken' \subseteq CPUs
  BY DEF Leaves, OthersStay, Stays, WakeWaits, Taken
<1>3. /\ p \in Procs /\ c \notin Taken /\ c \notin Taken'
      /\ On'[c] = NULL /\ Told'[c] = "nothing"
      /\ WakeStage = "none"
  BY DEF Leaves, PlaceTypes
<1>4. /\ \A q \in Procs : q # p => state'[q] = state[q]
      /\ \/ Told[c] = "CPU_YIELD" /\ state'[p] = "WAITING"
         \/ Told[c] = "CPU_TERMINATE" /\ state'[p] = "TERMINATED"
  BY <1>3 DEF Leaves, NewState, PlaceTypes
<1>5. /\ \A d \in CPUs : On[d] = p => d = c
      /\ state[p] = "RUNNING"
      /\ Told[c] = "CPU_YIELD" => Kind[p] = "OP_IO"
      /\ Told[c] = "CPU_TERMINATE" => Kind[p] = "OP_TERMINATE"
      /\ p \notin Queued
  BY <1>3 DEF PlaceKnows, OnKnows, QueueKnows
<1> HIDE DEF p
<1>6. QueueKnows'
  <2> SUFFICES ASSUME NEW q \in Queued
               PROVE  /\ state'[q] = "READY" /\ Kind'[q] = "OP_CPU"
                      /\ \A d \in CPUs : On'[d] # q
    BY <1>1 DEF QueueKnows
  <2>1. q \in Procs /\ q # p
    BY <1>5 DEF Queued, Reach
  <2>2. QED
    BY <1>2, <1>3, <1>4, <2>1 DEF PlaceKnows, QueueKnows
<1>7. OnKnows'
  <2> SUFFICES ASSUME NEW d \in CPUs, On'[d] \in Procs
               PROVE  /\ \A e \in CPUs : On'[e] = On'[d] => e = d
                      /\ state'[On'[d]] = IF d \in Taken' THEN "READY"
                                                          ELSE "RUNNING"
                      /\ Told'[d] = "nothing" => Kind'[On'[d]] = "OP_CPU"
                      /\ Told'[d] = "CPU_YIELD" => Kind'[On'[d]] = "OP_IO"
                      /\ Told'[d] = "CPU_TERMINATE"
                            => Kind'[On'[d]] = "OP_TERMINATE"
    BY DEF OnKnows
  <2>1. d # c /\ On'[d] = On[d] /\ On[d] # p
    BY <1>2, <1>3, <1>5
  <2>2. QED
    BY <1>2, <1>3, <1>4, <2>1 DEF PlaceKnows, OnKnows
<1>8. WakeKnows'
  BY <1>2, <1>3 DEF PlaceKnows, WakeKnows
<1>9. StateKnows'
  <2> SUFFICES ASSUME NEW q \in Procs
               PROVE  /\ state'[q] = "NEW" => Kind'[q] = "OP_CPU"
                      /\ q >= created' => state'[q] = "NEW"
                      /\ state'[q] = "RUNNING"
                            => \E d \in CPUs \ Taken' : On'[d] = q
                      /\ state'[q] = "READY"
                            => \/ q \in Queued'
                               \/ \E d \in Taken' : On'[d] = q
                      /\ state'[q] = "WAITING" => Kind'[q] = "OP_IO"
                      /\ Kind'[q] = "OP_IO"
                            => \/ state'[q] = "WAITING"
                               \/ \E d \in CPUs : On'[d] = q
    BY DEF StateKnows
  <2>1. CASE q = p
    BY <1>2, <1>3, <1>4, <1>5, <2>1 DEF PlaceKnows, StateKnows
  <2>2. CASE q # p
    <3>1. state'[q] = state[q] /\ Kind'[q] = Kind[q]
      BY <1>2, <1>4, <2>2
    <3>2. \A d \in CPUs : On[d] = q => d # c
      BY <2>2 DEF p
    <3>3. QED
      BY <1>1, <1>2, <1>3, <3>1, <3>2 DEF PlaceKnows, StateKnows
  <2>3. QED
    BY <2>1, <2>2
<1>10. QED
  BY <1>1, <1>6, <1>7, <1>8, <1>9 DEF PlaceKnows

(* schedule() takes a queued process to a CPU that has none.                *)
LEMMA TakeKeepsPlace ==
    ASSUME PlaceTypes, PlaceKnows, NEW c \in CPUs, Takes(c)
    PROVE  PlaceKnows'
<1> USE PointersAreNotProcs
<1> DEFINE h == q_head
<1>1. /\ UNCHANGED <<created, waking, after, WakeStage, Kind, state>>
      /\ \A d \in CPUs \ {c} : /\ On'[d] = On[d] /\ Told'[d] = Told[d]
                               /\ d \in Taken' <=> d \in Taken
      /\ Taken \subseteq CPUs /\ Taken' \subseteq CPUs
      /\ On[c] = NULL /\ On'[c] = h /\ Told'[c] = "nothing" /\ c \in Taken'
  BY DEF Takes, OthersStay, Stays, WakeWaits, Taken
<1>2. /\ QueueIsList'
      /\ h = NULL => Queued' = Queued
      /\ h # NULL => h \in Queued /\ Queued' = Queued \ {h}
  BY TakesOne DEF Takes, PlaceKnows
<1>3. /\ h \in Pointers
      /\ h \in Procs => /\ h \in Queued
                        /\ state[h] = "READY" /\ Kind[h] = "OP_CPU"
                        /\ \A d \in CPUs : On[d] # h
  BY <1>2 DEF PlaceTypes, QueueTypeOK, PlaceKnows, QueueKnows
<1>4. /\ Queued' \subseteq Queued /\ h \notin Queued'
      /\ Queued \subseteq Procs
  <2>1. Queued \subseteq Procs
    BY DEF Queued, Reach
  <2>2. QED
    BY <1>2, <2>1
<1> HIDE DEF h
<1>5. QueueKnows'
  <2> SUFFICES ASSUME NEW q \in Queued'
               PROVE  /\ state'[q] = "READY" /\ Kind'[q] = "OP_CPU"
                      /\ \A d \in CPUs : On'[d] # q
    BY DEF QueueKnows
  <2>1. QED
    BY <1>1, <1>4 DEF PlaceKnows, QueueKnows
<1>6. OnKnows'
  <2> SUFFICES ASSUME NEW d \in CPUs, On'[d] \in Procs
               PROVE  /\ \A e \in CPUs : On'[e] = On'[d] => e = d
                      /\ state'[On'[d]] = IF d \in Taken' THEN "READY"
                                                          ELSE "RUNNING"
                      /\ Told'[d] = "nothing" => Kind'[On'[d]] = "OP_CPU"
                      /\ Told'[d] = "CPU_YIELD" => Kind'[On'[d]] = "OP_IO"
                      /\ Told'[d] = "CPU_TERMINATE"
                            => Kind'[On'[d]] = "OP_TERMINATE"
    BY DEF OnKnows
  <2>1. CASE d = c
    BY <1>1, <1>3, <2>1
  <2>2. CASE d # c
    BY <1>1, <1>3, <2>2 DEF PlaceKnows, OnKnows
  <2>3. QED
    BY <2>1, <2>2
<1>7. WakeKnows'
  BY <1>1, <1>3, <1>4 DEF PlaceKnows, WakeKnows
<1>8. StateKnows'
  <2> SUFFICES ASSUME NEW q \in Procs
               PROVE  /\ state'[q] = "RUNNING"
                            => \E d \in CPUs \ Taken' : On'[d] = q
                      /\ state'[q] = "READY"
                            => \/ q \in Queued'
                               \/ \E d \in Taken' : On'[d] = q
                               \/ WakeStage' = "adding" /\ waking' = q
                      /\ Kind'[q] = "OP_IO"
                            => \/ state'[q] = "WAITING"
                               \/ \E d \in CPUs : On'[d] = q
    BY <1>1 DEF PlaceKnows, StateKnows
  <2>1. \A d \in CPUs : On[d] = q => d # c
    BY <1>1
  <2>2. q \in Queued => q \in Queued' \/ q = h
    BY <1>2
  <2>3. QED
    BY <1>1, <2>1, <2>2 DEF PlaceKnows, StateKnows
<1>9. QED
  BY <1>2, <1>5, <1>6, <1>7, <1>8 DEF PlaceKnows

(* ... and marks it RUNNING.                                                *)
LEMMA MarkKeepsPlace ==
    ASSUME PlaceTypes, PlaceKnows, NEW c \in CPUs, Marks(c)
    PROVE  PlaceKnows'
<1> USE PointersAreNotProcs
<1> DEFINE p == On[c]
<1>1. Queued' = Queued /\ (QueueIsList <=> QueueIsList')
  BY DEF Marks, ListStays, Queued, QueueIsList
<1>2. /\ UNCHANGED <<created, waking, after, WakeStage, Kind>>
      /\ \A d \in CPUs : On'[d] = On[d] /\ Told'[d] = Told[d]
      /\ \A d \in CPUs \ {c} : d \in Taken' <=> d \in Taken
      /\ Taken \subseteq CPUs /\ Taken' \subseteq CPUs
      /\ c \in Taken /\ c \notin Taken'
  BY DEF Marks, OthersStay, Stays, WakeWaits, Taken
<1>3. \A q \in Procs : state'[q] = IF q = p THEN "RUNNING" ELSE state[q]
  BY DEF Marks
<1>4. /\ p \in Pointers
      /\ p \in Procs => /\ \A d \in CPUs : On[d] = p => d = c
                        /\ state[p] = "READY" /\ p \notin Queued
  BY <1>2 DEF PlaceTypes, PlaceKnows, OnKnows, QueueKnows
<1> HIDE DEF p
<1>5. QueueKnows'
  <2> SUFFICES ASSUME NEW q \in Queued
               PROVE  /\ state'[q] = "READY" /\ Kind'[q] = "OP_CPU"
                      /\ \A d \in CPUs : On'[d] # q
    BY <1>1 DEF QueueKnows
  <2>1. q \in Procs /\ q # p
    BY <1>4 DEF Queued, Reach
  <2>2. QED
    BY <1>2, <1>3, <2>1 DEF PlaceKnows, QueueKnows
<1>6. OnKnows'
  <2> SUFFICES ASSUME NEW d \in CPUs, On[d] \in Procs
               PROVE  /\ \A e \in CPUs : On[e] = On[d] => e = d
                      /\ state'[On[d]] = IF d \in Taken' THEN "READY"
                                                         ELSE "RUNNING"
                      /\ Told[d] = "nothing" => Kind[On[d]] = "OP_CPU"
                      /\ Told[d] = "CPU_YIELD" => Kind[On[d]] = "OP_IO"
                      /\ Told[d] = "CPU_TERMINATE"
                            => Kind[On[d]] = "OP_TERMINATE"
    BY <1>2 DEF OnKnows
  <2>1. On[d] = p => d = c
    BY <1>4
  <2>2. d = c => On[d] = p
    BY DEF p
  <2>3. QED
    BY <1>2, <1>3, <2>1, <2>2 DEF PlaceKnows, OnKnows
<1>7. WakeKnows'
  BY <1>1, <1>2, <1>3, <1>4 DEF PlaceKnows, WakeKnows, p
<1>8. StateKnows'
  <2> SUFFICES ASSUME NEW q \in Procs
               PROVE  /\ state'[q] = "NEW" => Kind[q] = "OP_CPU"
                      /\ q >= created =>
                           \/ state'[q] = "NEW"
                           \/ WakeStage \in {"adding", "added", "over"}
                              /\ after = "created" /\ q = created
                      /\ state'[q] = "RUNNING"
                            => \E d \in CPUs \ Taken' : On[d] = q
                      /\ state'[q] = "READY"
                            => \/ q \in Queued
                               \/ \E d \in Taken' : On[d] = q
                               \/ WakeStage = "adding" /\ waking = q
                      /\ state'[q] = "WAITING"
                            => \/ Kind[q] = "OP_IO"
                               \/ WakeStage = "coming" /\ waking = q
                      /\ Kind[q] = "OP_IO"
                            => \/ state'[q] = "WAITING"
                               \/ \E d \in CPUs : On[d] = q
    BY <1>1, <1>2 DEF StateKnows
  <2>1. CASE q = p
    <3>1. On[c] = q /\ state[q] = "READY" /\ state'[q] = "RUNNING"
      BY <1>3, <1>4, <2>1 DEF p
    <3>2. QED
      BY <1>2, <3>1 DEF PlaceKnows, StateKnows
  <2>2. CASE q # p
    <3>1. state'[q] = state[q]
      BY <1>3, <2>2
    <3>2. \A d \in CPUs : On[d] = q => d # c
      BY <2>2 DEF p
    <3>3. QED
      BY <1>2, <3>1, <3>2 DEF PlaceKnows, StateKnows
  <2>3. QED
    BY <2>1, <2>2
<1>9. QED
  BY <1>1, <1>5, <1>6, <1>7, <1>8 DEF PlaceKnows

(* The process whose burst is over is the one on the CPU that is told so.   *)
LEMMA PostKeepsPlace ==
    ASSUME PlaceTypes, PlaceKnows, NEW c \in CPUs,
           NEW e \in {"CPU_YIELD", "CPU_TERMINATE"}, Posts(c, e)
    PROVE  PlaceKnows'
<1> USE PointersAreNotProcs
<1> DEFINE p == On[c]
<1>1. Queued' = Queued /\ (QueueIsList <=> QueueIsList')
  BY DEF Posts, ListStays, Queued, QueueIsList
<1>2. /\ UNCHANGED <<created, waking, after, WakeStage, state>>
      /\ \A d \in CPUs : On'[d] = On[d] /\ (d \in Taken' <=> d \in Taken)
      /\ \A d \in CPUs \ {c} : Told'[d] = Told[d]
      /\ Taken \subseteq CPUs /\ Taken' \subseteq CPUs
      /\ c \notin Taken /\ Told'[c] = e
      /\ WakeStage = "none"
  BY DEF Posts, OthersStay, Stays, WakeWaits, Taken
<1>3. /\ p \in Procs /\ state[p] = "RUNNING"
      /\ \A d \in CPUs : On[d] = p => d = c
      /\ \A q \in Procs : q # p => Kind'[q] = Kind[q]
      /\ e = "CPU_YIELD" => Kind'[p] = "OP_IO"
      /\ e = "CPU_TERMINATE" => Kind'[p] = "OP_TERMINATE"
  BY DEF Posts, PlaceKnows, OnKnows
<1> HIDE DEF p
<1>4. QueueKnows'
  BY <1>1, <1>2, <1>3 DEF PlaceKnows, QueueKnows, Queued, Reach
<1>5. OnKnows'
  <2> SUFFICES ASSUME NEW d \in CPUs, On[d] \in Procs
               PROVE  /\ \A f \in CPUs : On[f] = On[d] => f = d
                      /\ state[On[d]] = IF d \in Taken THEN "READY"
                                                       ELSE "RUNNING"
                      /\ Told'[d] = "nothing" => Kind'[On[d]] = "OP_CPU"
                      /\ Told'[d] = "CPU_YIELD" => Kind'[On[d]] = "OP_IO"
                      /\ Told'[d] = "CPU_TERMINATE"
                            => Kind'[On[d]] = "OP_TERMINATE"
    BY <1>2 DEF OnKnows
  <2>1. CASE d = c
    <3>1. On[d] = p
      BY <2>1 DEF p
    <3>2. QED
      BY <1>2, <1>3, <2>1, <3>1
  <2>2. CASE d # c
    BY <1>2, <1>3, <2>2 DEF PlaceKnows, OnKnows
  <2>3. QED
    BY <2>1, <2>2
<1>6. WakeKnows'
  BY <1>2 DEF PlaceKnows, WakeKnows
<1>7. StateKnows'
  <2> SUFFICES ASSUME NEW q \in Procs
               PROVE  /\ state[q] = "NEW" => Kind'[q] = "OP_CPU"
                      /\ state[q] = "WAITING" => Kind'[q] = "OP_IO"
                      /\ Kind'[q] = "OP_IO" => \/ state[q] = "WAITING"
                                               \/ \E d \in CPUs : On[d] = q
    BY <1>1, <1>2 DEF PlaceKnows, StateKnows
  <2>1. CASE q = p
    BY <1>3, <2>1 DEF p
  <2>2. CASE q # p
    BY <1>2, <1>3, <2>2 DEF PlaceKnows, StateKnows
  <2>3. QED
    BY <2>1, <2>2
<1>8. QED
  BY <1>1, <1>4, <1>5, <1>6, <1>7 DEF PlaceKnows

(* The process whose I/O is complete is blocked, and neither queued nor on  *)
(* a CPU.                                                                   *)
LEMMA CompletedIsBlocked ==
    ASSUME PlaceTypes, PlaceKnows, NEW p \in Procs, Completes(p)
    PROVE  /\ state[p] = "WAITING" /\ p \notin Queued
           /\ \A c \in CPUs : On[c] # p
<1>1. \A c \in CPUs : On[c] # p
  BY DEF Completes, PlaceKnows, OnKnows
<1>2. state[p] = "WAITING"
  BY <1>1 DEF Completes, PlaceKnows, StateKnows
<1>3. QED
  BY <1>1, <1>2 DEF PlaceKnows, QueueKnows

(* simulate_io() wakes a process that is blocked.                           *)
LEMMA CompleteKeepsPlace ==
    ASSUME PlaceTypes, PlaceKnows, NEW p \in Procs, Completes(p)
    PROVE  PlaceKnows'
<1>1. Queued' = Queued /\ (QueueIsList <=> QueueIsList')
  BY DEF Completes, ListStays, Queued, QueueIsList
<1>2. /\ UNCHANGED <<state, created>>
      /\ WakeStage = "none" /\ WakeStage' = "coming"
      /\ waking' = p /\ after' = "creat"
      /\ Kind'[p] = "OP_CPU"
      /\ \A q \in Procs : q # p => Kind'[q] = Kind[q]
      /\ \A c \in CPUs : /\ On'[c] = On[c] /\ Told'[c] = Told[c]
                         /\ c \in Taken' <=> c \in Taken
      /\ Taken \subseteq CPUs /\ Taken' \subseteq CPUs
  BY DEF Completes, AllStay, Stays, Taken
<1>3. /\ state[p] = "WAITING" /\ p \notin Queued
      /\ \A c \in CPUs : On[c] # p
  BY CompletedIsBlocked
<1>4. QueueKnows'
  BY <1>1, <1>2, <1>3 DEF PlaceKnows, QueueKnows, Queued, Reach
<1>5. OnKnows'
  BY <1>2, <1>3 DEF PlaceKnows, OnKnows
<1>6. WakeKnows'
  BY <1>1, <1>2, <1>3 DEF WakeKnows
<1>7. StateKnows'
  <2> SUFFICES ASSUME NEW q \in Procs
               PROVE  /\ state[q] = "NEW" => Kind'[q] = "OP_CPU"
                      /\ q >= created => state[q] = "NEW"
                      /\ state[q] = "RUNNING"
                            => \E c \in CPUs \ Taken : On[c] = q
                      /\ state[q] = "READY"
                            => q \in Queued \/ \E c \in Taken : On[c] = q
                      /\ state[q] = "WAITING" => Kind'[q] = "OP_IO" \/ q = p
                      /\ Kind'[q] = "OP_IO" => \/ state[q] = "WAITING"
                                               \/ \E c \in CPUs : On[c] = q
    BY <1>1, <1>2 DEF StateKnows
  <2>1. QED
    BY <1>2 DEF PlaceKnows, StateKnows
<1>8. QED
  BY <1>1, <1>4, <1>5, <1>6, <1>7 DEF PlaceKnows

(* simulate_creat() wakes a process that no one has seen yet.               *)
LEMMA CreateKeepsPlace ==
    ASSUME PlaceTypes, PlaceKnows, Creates
    PROVE  PlaceKnows'
<1>1. Queued' = Queued /\ (QueueIsList <=> QueueIsList')
  BY DEF Creates, ListStays, Queued, QueueIsList
<1>2. /\ UNCHANGED <<state, created, Kind>>
      /\ WakeStage = "none" /\ WakeStage' = "coming"
      /\ waking' = created /\ after' = "created" /\ created \in Procs
      /\ \A c \in CPUs : /\ On'[c] = On[c] /\ Told'[c] = Told[c]
                         /\ c \in Taken' <=> c \in Taken
      /\ Taken \subseteq CPUs /\ Taken' \subseteq CPUs
  BY DEF Creates, AllStay, Stays, Taken
<1>3. state[created] = "NEW" /\ Kind[created] = "OP_CPU"
  BY <1>2 DEF PlaceKnows, StateKnows, PlaceTypes
<1>4. created \notin Queued /\ \A c \in CPUs : On[c] # created
  BY <1>2, <1>3 DEF PlaceKnows, QueueKnows, OnKnows
<1>5. QueueKnows'
  BY <1>1, <1>2 DEF PlaceKnows, QueueKnows
<1>6. OnKnows'
  BY <1>2 DEF PlaceKnows, OnKnows
<1>7. WakeKnows'
  BY <1>1, <1>2, <1>3, <1>4 DEF WakeKnows
<1>8. StateKnows'
  BY <1>1, <1>2 DEF PlaceKnows, StateKnows
<1>9. QED
  BY <1>1, <1>5, <1>6, <1>7, <1>8 DEF PlaceKnows

(* wake_up() marks a process that is new or blocked.                        *)
LEMMA ReadyKeepsPlace ==
    ASSUME PlaceTypes, PlaceKnows, Readies
    PROVE  PlaceKnows'
<1> DEFINE w == waking
<1>1. Queued' = Queued /\ (QueueIsList <=> QueueIsList')
  BY DEF Readies, ListStays, Queued, QueueIsList
<1>2. /\ UNCHANGED <<created, waking, after, Kind>>
      /\ WakeStage = "coming" /\ WakeStage' = "adding"
      /\ \A c \in CPUs : /\ On'[c] = On[c] /\ Told'[c] = Told[c]
                         /\ c \in Taken' <=> c \in Taken
      /\ Taken \subseteq CPUs /\ Taken' \subseteq CPUs
  BY DEF Readies, AllStay, Stays, Taken
<1>3. /\ w \in Procs /\ w \notin Queued /\ Kind[w] = "OP_CPU"
      /\ \A c \in CPUs : On[c] # w
      /\ after = "created" => w = created
      /\ state[w] = IF after = "created" THEN "NEW" ELSE "WAITING"
  BY <1>2 DEF PlaceKnows, WakeKnows
<1>4. \A q \in Procs : state'[q] = IF q = w THEN "READY" ELSE state[q]
  BY <1>3 DEF Readies, PlaceTypes
<1> HIDE DEF w
<1>5. QueueKnows'
  BY <1>1, <1>2, <1>3, <1>4 DEF PlaceKnows, QueueKnows, Queued, Reach
<1>6. OnKnows'
  BY <1>2, <1>3, <1>4 DEF PlaceKnows, OnKnows
<1>7. WakeKnows'
  BY <1>1, <1>2, <1>3, <1>4 DEF PlaceKnows, WakeKnows, w
<1>8. StateKnows'
  <2> SUFFICES ASSUME NEW q \in Procs
               PROVE  /\ state'[q] = "NEW" => Kind[q] = "OP_CPU"
                      /\ q >= created =>
                           \/ state'[q] = "NEW"
                           \/ after = "created" /\ q = created
                      /\ state'[q] = "RUNNING"
                            => \E c \in CPUs \ Taken : On[c] = q
                      /\ state'[q] = "READY"
                            => \/ q \in Queued
                               \/ \E c \in Taken : On[c] = q
                               \/ w = q
                      /\ state'[q] = "WAITING" => Kind[q] = "OP_IO"
                      /\ Kind[q] = "OP_IO" => \/ state'[q] = "WAITING"
                                              \/ \E c \in CPUs : On[c] = q
    BY <1>1, <1>2 DEF StateKnows, w
  <2>1. CASE q = w
    BY <1>2, <1>3, <1>4, <2>1 DEF PlaceKnows, StateKnows
  <2>2. CASE q # w
    BY <1>2, <1>4, <2>2 DEF PlaceKnows, StateKnows, w
  <2>3. QED
    BY <2>1, <2>2
<1>9. QED
  BY <1>1, <1>5, <1>6, <1>7, <1>8 DEF PlaceKnows

(* ... and adds it to the queue, where it is not yet.                       *)
LEMMA AddKeepsPlace ==
    ASSUME PlaceTypes, PlaceKnows, Adds
    PROVE  PlaceKnows'
<1> DEFINE w == waking
<1>1. /\ UNCHANGED <<state, created, waking, after, Kind>>
      /\ WakeStage = "adding" /\ WakeStage' = "added"
      /\ \A c \in CPUs : /\ On'[c] = On[c] /\ Told'[c] = Told[c]
                         /\ c \in Taken' <=> c \in Taken
      /\ Taken \subseteq CPUs /\ Taken' \subseteq CPUs
  BY DEF Adds, AllStay, Stays, Taken
<1>2. /\ w \in Procs /\ w \notin Queued /\ Kind[w] = "OP_CPU"
      /\ \A c \in CPUs : On[c] # w
      /\ state[w] = "READY"
  BY <1>1 DEF PlaceKnows, WakeKnows
<1>3. QueueIsList' /\ Queued' = Queued \cup {w}
  BY <1>2, AddsOne DEF Adds, PlaceKnows, PlaceTypes
<1> HIDE DEF w
<1>4. QueueKnows'
  BY <1>1, <1>2, <1>3 DEF PlaceKnows, QueueKnows
<1>5. OnKnows'
  BY <1>1 DEF PlaceKnows, OnKnows
<1>6. WakeKnows'
  BY <1>1, <1>2 DEF WakeKnows, w
<1>7. StateKnows'
  BY <1>1, <1>2, <1>3 DEF PlaceKnows, StateKnows, w
<1>8. QED
  BY <1>3, <1>4, <1>5, <1>6, <1>7 DEF PlaceKnows

(* wake_up() returns, and simulate_creat() counts what it has created.      *)
LEMMA ReturnKeepsPlace ==
    ASSUME PlaceTypes, PlaceKnows, Forgets \/ Counts
    PROVE  PlaceKnows'
<1>1. Queued' = Queued /\ (QueueIsList <=> QueueIsList')
  BY DEF Forgets, Counts, ListStays, Queued, QueueIsList
<1>2. /\ UNCHANGED <<state, after, Kind>>
      /\ \A c \in CPUs : /\ On'[c] = On[c] /\ Told'[c] = Told[c]
                         /\ c \in Taken' <=> c \in Taken
      /\ Taken \subseteq CPUs /\ Taken' \subseteq CPUs
  BY DEF Forgets, Counts, AllStay, Stays, Taken
<1>3. QueueKnows'
  BY <1>1, <1>2 DEF PlaceKnows, QueueKnows
<1>4. OnKnows'
  BY <1>2 DEF PlaceKnows, OnKnows
<1>5. WakeKnows'
  BY DEF PlaceKnows, WakeKnows, Forgets, Counts
<1>6. StateKnows'
  <2>1. \A q \in Procs :
           /\ state[q] = "READY" => q \in Queued \/ \E c \in Taken : On[c] = q
           /\ state[q] = "WAITING" => Kind[q] = "OP_IO"
    BY DEF Forgets, Counts, PlaceKnows, StateKnows
  <2>2. ASSUME NEW q \in Procs, q >= created'
        PROVE  \/ state[q] = "NEW"
               \/ /\ WakeStage' \in {"adding", "added", "over"}
                  /\ after = "created" /\ q = created'
    <3>1. q \in Nat /\ created \in Nat
      BY DEF PlaceTypes
    <3>2. CASE Forgets
      BY <2>2, <3>2 DEF Forgets, PlaceKnows, StateKnows
    <3>3. CASE Counts
      BY <2>2, <3>1, <3>3 DEF Counts, PlaceKnows, StateKnows
    <3>4. QED
      BY <3>2, <3>3
  <2>3. QED
    BY <1>1, <1>2, <2>1, <2>2 DEF PlaceKnows, StateKnows
<1>7. QED
  BY <1>1, <1>3, <1>4, <1>5, <1>6 DEF PlaceKnows

(* Every step keeps what is known of where each process is.                 *)
LEMMA StepKeepsPlace ==
    ASSUME PlaceTypes, PlaceKnows, FifoStep
    PROVE  PlaceKnows'
BY QuietKeepsPlace, LeaveKeepsPlace, TakeKeepsPlace, MarkKeepsPlace,
   PostKeepsPlace, CompleteKeepsPlace, CreateKeepsPlace, ReadyKeepsPlace,
   AddKeepsPlace, ReturnKeepsPlace DEF FifoStep

-----------------------------------------------------------------------------
(* Without preemption a step of CPU thread c leaves the other CPU threads   *)
(* and the supervisor as they are, but that it ends the supervisor's wait.  *)
LEMMA FifoOthers ==
    ASSUME SupInv, ControlKnows, NEW c \in CPUs, CpuStep(c)
    PROVE  /\ \A d \in CPUs \ {c} :
                /\ cpc'[d] = cpc[d] /\ event'[d] = event[d] /\ pcb'[d] = pcb[d]
                /\ simState'[d] = simState[d] /\ timer'[d] = timer[d]
                /\ current'[d] = current[d] /\ simCurrent'[d] = simCurrent[d]
           /\ UNCHANGED <<static_prior, timeslice, ops, pc, created, waking,
                          after, n, missed, hurried>>
           /\ \/ spc' = spc
              \/ spc = "await" /\ spc' = "resume" /\ n = c
           /\ ~Requeue(c) /\ ~RequeueBesideGh(c) /\ ~SelectHighest(c)
<1> USE DEF Step, supVars, queueVars, ghVars, addVars, configVars, studentVars,
        simCpuVars, programVars, countVars
<1>1. /\ cpc \in [CPUs -> CpuLabels] /\ event \in [CPUs -> CpuStates]
      /\ simState \in [CPUs -> CpuStates] /\ pcb \in [CPUs -> Pointers]
      /\ current \in [CPUs -> Pointers \cup {WILD}]
      /\ simCurrent \in [CPUs -> Pointers] /\ timer \in [CPUs -> Int]
  BY DEF SupInv, IInv, TypeOK, CpuTypeOK, SharedTypeOK
<1>2. ~Requeue(c) /\ ~RequeueBesideGh(c) /\ ~SelectHighest(c)
  BY DEF ControlKnows, Requeue, RequeueBesideGh, SelectHighest
<1>3. CASE LoopTop(c)
  BY <1>1, <1>2, <1>3 DEF LoopTop, ControlKnows
<1>4. CASE Dispatch(c) \/ CountTerminated(c) \/ EnterHandler(c) \/ Idle(c)
  BY <1>1, <1>2, <1>4 DEF Dispatch, CountTerminated, EnterHandler, Idle
<1>5. CASE Handler(c)
  BY <1>1, <1>2, <1>5 DEF Handler
<1>6. CASE SelectFirst(c)
  BY <1>1, <1>2, <1>6 DEF SelectFirst
<1>7. CASE SetRunning(c)
  BY <1>1, <1>2, <1>7 DEF SetRunning
<1>8. CASE SwitchUnlock(c) \/ SwitchSet(c) \/ SwitchLock(c) \/ LeaveHandler(c)
  BY <1>1, <1>2, <1>8 DEF SwitchUnlock, SwitchSet, SwitchLock, LeaveHandler
<1>9. QED
  BY <1>2, <1>3, <1>4, <1>5, <1>6, <1>7, <1>8 DEF CpuStep

(* What PlaceKnows is about, of a CPU that the step does not concern.       *)
LEMMA SameCpu ==
    ASSUME NEW d \in CPUs,
           \/ cpc'[d] = cpc[d]
           \/ cpc[d] = "idle_wait" /\ cpc'[d] = "idle",
           event'[d] = event[d], pcb'[d] = pcb[d], simState'[d] = simState[d],
           current'[d] = current[d]
    PROVE  Stays(d)
BY DEF Stays, On, OnCpu, Told, Taken

(* What a CPU thread leaves to the others, as far as PlaceKnows goes.       *)
LEMMA FifoOthersStay ==
    ASSUME SupInv, ControlKnows, NEW c \in CPUs, CpuStep(c)
    PROVE  OthersStay(c) /\ WakeWaits /\ Kind' = Kind
<1>1. OthersStay(c)
  BY FifoOthers, SameCpu DEF OthersStay
<1>2. WakeWaits
  BY FifoOthers DEF WakeWaits, WakeStage, ControlKnows
<1>3. Kind' = Kind
  BY FifoOthers DEF Kind, Op
<1>4. QED
  BY <1>1, <1>2, <1>3

(* What a step of CPU thread c does to its process.                         *)
LEMMA FifoCpu ==
    ASSUME SupInv, ControlKnows, NEW c \in CPUs, CpuStep(c)
    PROVE  Quiet \/ Leaves(c) \/ Takes(c) \/ Marks(c)
<1> USE PointersAreNotProcs
    DEF Step, supVars, queueVars, ghVars, addVars, configVars, studentVars,
        simCpuVars, programVars, countVars
<1>1. /\ cpc \in [CPUs -> CpuLabels] /\ event \in [CPUs -> CpuStates]
      /\ simState \in [CPUs -> CpuStates] /\ pcb \in [CPUs -> Pointers]
      /\ current \in [CPUs -> Pointers \cup {WILD}]
      /\ NULL \in Pointers
      /\ q_head \in Pointers
  BY DEF SupInv, IInv, TypeOK, CpuTypeOK, SharedTypeOK, QueueTypeOK, Pointers
<1>2. OthersStay(c) /\ WakeWaits /\ Kind' = Kind
  BY FifoOthersStay
<1>3. /\ cpc[c] \in {"parked", "count", "enter", "handler"}
            => current[c] \in Procs
      /\ cpc[c] \in {"count", "enter", "handler"} => event[c] \in Events
      /\ event[c] # "CPU_PREEMPT"
      /\ cpc[c] = "idle" => current[c] \notin Procs
      /\ ~Requeue(c) /\ ~RequeueBesideGh(c) /\ ~SelectHighest(c)
  BY FifoOthers DEF SupInv, IInv, CpuKnows, ControlKnows, Idling
<1>4. ASSUME UNCHANGED <<state, q_head, next>>, Stays(c)
      PROVE  Quiet
  <2>1. AllStay
    BY <1>2, <1>4 DEF AllStay, OthersStay
  <2>2. QED
    BY <1>2, <1>4, <2>1 DEF Quiet, ListStays
<1>5. CASE LoopTop(c)
  BY <1>1, <1>4, <1>5 DEF LoopTop, Stays, On, OnCpu, Told, Taken
<1>6. CASE Dispatch(c)
  BY <1>1, <1>4, <1>6 DEF Dispatch, Stays, On, OnCpu, Told, Taken
<1>7. CASE CountTerminated(c) \/ EnterHandler(c)
  BY <1>1, <1>4, <1>7
     DEF CountTerminated, EnterHandler, Stays, On, OnCpu, Told, Taken
<1>8. CASE Idle(c)
  BY <1>1, <1>3, <1>4, <1>8 DEF Idle, Stays, On, OnCpu, Told, Taken
<1>9. CASE SwitchUnlock(c) \/ SwitchSet(c) \/ SwitchLock(c) \/ LeaveHandler(c)
  BY <1>1, <1>4, <1>9
     DEF SwitchUnlock, SwitchSet, SwitchLock, LeaveHandler, Stays, On, OnCpu,
         Told, Taken
<1>10. CASE Handler(c)
  <2>1. /\ cpc[c] = "handler" /\ cpc'[c] = "select"
        /\ state' = [state EXCEPT ![current[c]] = NewState(event[c])]
        /\ UNCHANGED <<q_head, next, event, current>>
    BY <1>1, <1>3, <1>10 DEF Handler
  <2>2. On[c] = current[c] /\ Told[c] = event[c] /\ c \notin Taken
    BY <1>3, <2>1 DEF On, OnCpu, Told, Taken
  <2>3. On'[c] = NULL /\ Told'[c] = "nothing" /\ c \notin Taken'
    BY <2>1 DEF On, OnCpu, Told, Taken
  <2>4. QED
    BY <1>2, <1>3, <2>1, <2>2, <2>3 DEF Leaves, ListStays, Events
<1>11. CASE SelectFirst(c)
  <2>1. /\ cpc[c] = "select" /\ cpc'[c] = "setrun" /\ pcb'[c] = q_head
        /\ Get /\ state' = state
    BY <1>1, <1>11 DEF SelectFirst
  <2>2. On[c] = NULL
    BY <2>1 DEF On, OnCpu
  <2>3. On'[c] = q_head /\ Told'[c] = "nothing" /\ c \in Taken'
    BY <2>1 DEF On, OnCpu, Told, Taken
  <2>4. QED
    BY <1>2, <2>1, <2>2, <2>3 DEF Takes
<1>12. CASE SetRunning(c)
  <2>1. /\ cpc[c] = "setrun" /\ cpc'[c] = "cs_unlock"
        /\ current'[c] = pcb[c] /\ UNCHANGED <<q_head, next, event>>
        /\ state' = [p \in Procs |-> IF p = pcb[c] THEN "RUNNING"
                                                   ELSE state[p]]
    BY <1>1, <1>12 DEF SetRunning
  <2>2. pcb[c] \in Procs \cup {NULL}
    BY <1>1 DEF Pointers
  <2>3. On[c] = pcb[c] /\ c \in Taken /\ c \notin Taken'
    BY <2>1 DEF On, OnCpu, Taken
  <2>4. On'[c] = On[c] /\ Told'[c] = Told[c]
    BY <2>1, <2>2, <2>3 DEF On, OnCpu, Told
  <2>5. QED
    BY <1>2, <2>1, <2>3, <2>4 DEF Marks, ListStays
<1>13. QED
  BY <1>3, <1>5, <1>6, <1>7, <1>8, <1>9, <1>10, <1>11, <1>12 DEF CpuStep

(* No step of a CPU thread leads to the statements of the other policies.   *)
LEMMA CpuKeepsControl ==
    ASSUME SupInv, ControlKnows, NEW c \in CPUs, CpuStep(c)
    PROVE  ControlKnows'
<1> USE PointersAreNotProcs
    DEF Step, supVars, queueVars, ghVars, addVars, configVars, studentVars,
        simCpuVars, programVars, countVars
<1> DEFINE Tame == {d \in CPUs :
        /\ timer[d] <= 0
        /\ cpc[d] \notin {"requeue", "adding", "spin", "gh"}
        /\ event[d] # "CPU_PREEMPT" /\ simState[d] # "CPU_PREEMPT"
        /\ Idling(d) => simCurrent[d] = NULL
        /\ Idling(d) /\ cpc[d] \notin {"cs_unlock", "cs_set"}
              => current[d] \notin Procs}
<1>1. /\ cpc \in [CPUs -> CpuLabels] /\ event \in [CPUs -> CpuStates]
      /\ simState \in [CPUs -> CpuStates] /\ pcb \in [CPUs -> Pointers]
      /\ current \in [CPUs -> Pointers \cup {WILD}]
      /\ simCurrent \in [CPUs -> Pointers] /\ timer \in [CPUs -> Int]
  BY DEF SupInv, IInv, TypeOK, CpuTypeOK, SharedTypeOK
<1>2. /\ c \in Tame /\ timeslice <= 0
      /\ cpc[c] = "top" => \/ simCurrent[c] = current[c]
                           \/ simCurrent[c] = NULL /\ current[c] = WILD
      /\ cpc[c] \in {"count", "enter", "handler"} => event[c] \in Events
      /\ ~Requeue(c) /\ ~RequeueBesideGh(c) /\ ~SelectHighest(c)
  BY FifoOthers DEF ControlKnows, SupInv, IInv, CpuKnows
<1>3. ASSUME NEW d \in CPUs \ {c} PROVE d \in Tame'
  BY FifoOthers DEF ControlKnows, Idling
<1>4. c \in Tame'
  <2> USE DEF Idling
  <2>1. CASE LoopTop(c)
    BY <1>1, <1>2, <2>1 DEF LoopTop
  <2>2. CASE Dispatch(c) \/ CountTerminated(c) \/ EnterHandler(c) \/ Idle(c)
    BY <1>1, <1>2, <2>2 DEF Dispatch, CountTerminated, EnterHandler, Idle
  <2>3. CASE Handler(c)
    BY <1>1, <1>2, <2>3 DEF Handler, Events
  <2>4. CASE SelectFirst(c)
    BY <1>1, <1>2, <2>4 DEF SelectFirst
  <2>5. CASE SetRunning(c)
    BY <1>1, <1>2, <2>5 DEF SetRunning
  <2>6. CASE \/ SwitchUnlock(c) \/ SwitchSet(c)
             \/ SwitchLock(c) \/ LeaveHandler(c)
    BY <1>1, <1>2, <2>6 DEF SwitchUnlock, SwitchSet, SwitchLock, LeaveHandler
  <2>7. QED
    BY <1>2, <2>1, <2>2, <2>3, <2>4, <2>5, <2>6 DEF CpuStep
<1>5. QED
  BY <1>3, <1>4, FifoOthers DEF ControlKnows

(* A CPU thread that the supervisor has yet to visit takes no step.         *)
LEMMA CpuKeepsSettled ==
    ASSUME SupInv, ControlKnows, SettledAhead, NEW c \in CPUs, CpuStep(c)
    PROVE  SettledAhead'
<1>1. Ahead' \subseteq Ahead
  BY FifoOthers DEF Ahead
<1>2. c \notin Ahead
  <2> SUFFICES ASSUME c \in Ahead PROVE FALSE
    OBVIOUS
  <2>1. ~Busy(c)
    BY CpusAreNumbered DEF Ahead, SupInv, IInv, HandlerIsolation
  <2>2. \/ cpc[c] = "idle_wait"
        \/ cpc[c] = "parked" /\ simState[c] = "CPU_RUNNING"
    BY <2>1 DEF SettledAhead, Settled, Busy
  <2>3. QED
    BY <2>2, FifoOthers DEF CpuStep, LoopTop, Dispatch, CountTerminated,
       EnterHandler, Handler, Idle, SelectFirst, SetRunning, SwitchUnlock,
       SwitchSet, SwitchLock, LeaveHandler, Step
<1>3. \A d \in Ahead' : cpc'[d] = cpc[d] /\ d \in Ahead
  BY <1>1, <1>2, FifoOthers DEF Ahead
<1>4. QED
  BY <1>3 DEF SettledAhead, Settled

-----------------------------------------------------------------------------
(* An event is on its way to a handler only while the supervisor waits.     *)
LEMMA ToldOnlyInWait ==
    ASSUME SupInv, NEW c \in CPUs, Told[c] # "nothing"
    PROVE  spc \in {"await", "fp_await"}
<1>1. Busy(c)
  BY DEF SupInv, IInv, CpuKnows, Told, Busy, Events
<1>2. QED
  BY <1>1 DEF SupInv, IInv, HandlerIsolation

(* What follows from the types alone.                                       *)
LEMMA PlacesAreTyped ==
    ASSUME SupInv
    PROVE  PlaceTypes
<1>1. TypeOK
  BY DEF SupInv, IInv
<1>2. \A c \in CPUs : On[c] \in Pointers
  BY <1>1 DEF On, OnCpu, TypeOK, CpuTypeOK, SharedTypeOK, Pointers
<1>3. \A c \in CPUs : Told[c] # "nothing" => WakeStage = "none"
  BY ToldOnlyInWait DEF WakeStage
<1>4. \A c \in Taken : c \in CPUs /\ Told[c] = "nothing"
  BY DEF Taken, Told
<1>5. created \in Nat /\ Procs \subseteq Nat
  BY <1>1, ProcsAreNumbered DEF TypeOK, CountTypeOK
<1>6. QED
  BY <1>1, <1>2, <1>3, <1>4, <1>5
     DEF PlaceTypes, TypeOK, SharedTypeOK, SupTypeOK

(* What no step of the supervisor writes.                                   *)
LEMMA SupervisorOutside ==
    ASSUME SupStep
    PROVE  UNCHANGED <<event, pcb, current, simCurrent, static_prior,
                       timeslice, ops>>
BY DEF SupStep, Tick, PrintGantt, EndTick, SkipCpu, Resume, CpusDone, Burst,
   BurstToIo, BurstToEnd, NotRunnable, IoIdle, IoTick, IoComplete, Creat,
   WakeEnter, WakeReady, WakeAdd, WakeAddBesideGh, WakeLeave, WakeReturn,
   ScanTest, ScanCompare, ScanTake, ScanDone, ForceUnlock, ForcePost,
   ForceResume, ForceRelock, Simulate, outsideSup, configVars

(* An event once missed, or a tick once hurried, stays so.                  *)
LEMMA MissedStays ==
    ASSUME SupStep
    PROVE  (missed => missed') /\ (hurried => hurried')
<1>1. ASSUME Tick PROVE (missed => missed') /\ (hurried => hurried')
  BY <1>1 DEF Tick
<1>2. ASSUME NEW e, Signal(n, e) PROVE missed => missed'
  BY <1>2 DEF Signal
<1>3. ASSUME NEW p \in Procs, \/ Burst(p) \/ BurstToIo(p)
                              \/ BurstToEnd(p) \/ NotRunnable(p)
      PROVE  (missed => missed') /\ (hurried => hurried')
  <2>1. hurried' = hurried
    BY <1>3 DEF Burst, BurstToIo, BurstToEnd, NotRunnable, Simulate
  <2>2. missed' = missed \/ \E e : Signal(n, e)
    BY <1>3 DEF Burst, BurstToIo, BurstToEnd, NotRunnable, Post
  <2>3. QED
    BY <1>2, <2>1, <2>2
<1>4. ASSUME ForcePost PROVE (missed => missed') /\ (hurried => hurried')
  <2>1. hurried' = hurried
    BY <1>4 DEF ForcePost
  <2>2. missed' = missed \/ Signal(n, "CPU_PREEMPT")
    BY <1>4 DEF ForcePost
  <2>3. QED
    BY <1>2, <2>1, <2>2
<1>5. ASSUME ~Tick, ~ForcePost,
             ~\E p \in Procs : \/ Burst(p) \/ BurstToIo(p)
                              \/ BurstToEnd(p) \/ NotRunnable(p)
      PROVE  UNCHANGED <<missed, hurried>>
  BY <1>5 DEF SupStep, PrintGantt, EndTick, SkipCpu, Resume, CpusDone, IoIdle,
     IoTick, IoComplete, Creat, WakeEnter, WakeReady, WakeAdd,
     WakeAddBesideGh, WakeLeave, WakeReturn, ScanTest, ScanCompare, ScanTake,
     ScanDone, ForceUnlock, ForceResume, ForceRelock, aside
<1>6. QED
  <2>1. CASE UNCHANGED <<missed, hurried>>
    BY <2>1
  <2>2. QED
    BY <1>1, <1>3, <1>4, <1>5, <2>1

(* The supervisor moves no CPU thread in a way that PlaceKnows can see,     *)
(* unless it posts an event.                                                *)
LEMMA SupervisorStays ==
    ASSUME SupInv, SupStep, NEW d \in CPUs, simState'[d] = simState[d]
    PROVE  Stays(d)
BY SupervisorLeavesCpus, SupervisorOutside, SameCpu DEF SupInv

(* The process that the supervisor is about to simulate is on the CPU       *)
(* thread that it looks at, and no event is on its way there.               *)
LEMMA SimulatedIsOn ==
    ASSUME SupInv, ControlKnows, NEW p \in Procs, spc = "cpus",
           n < cpu_count, simCurrent[n] = p
    PROVE  /\ n \in CPUs /\ n \notin Taken
           /\ On[n] = p /\ Told[n] = "nothing"
           /\ cpc[n] \notin {"idle_wait", "count", "enter", "handler"}
<1> USE PointersAreNotProcs
<1>1. n \in CPUs
  BY CpusAreNumbered DEF SupInv, IInv, TypeOK, SupTypeOK
<1>2. event[n] = "CPU_IDLE"
  BY <1>1 DEF SupInv, IInv, HandlerIsolation, Busy
<1>3. cpc[n] \notin {"idle", "idle_wait", "select", "setrun", "cs_unlock",
                     "cs_set", "requeue", "adding", "spin", "gh"}
  BY <1>1, <1>2 DEF ControlKnows, Idling
<1>4. cpc[n] \notin {"count", "enter", "handler"}
  BY <1>1, <1>2 DEF SupInv, IInv, CpuKnows, Events
<1>5. cpc[n] \in {"top", "parked", "cs_lock", "leave"}
  BY <1>1, <1>3, <1>4 DEF SupInv, IInv, TypeOK, CpuTypeOK, CpuLabels
<1>6. current[n] = p
  BY <1>1, <1>5 DEF SupInv, IInv, CpuKnows
<1>7. Told[n] = "nothing"
  BY <1>1, ToldOnlyInWait
<1>8. QED
  BY <1>1, <1>5, <1>6, <1>7 DEF On, OnCpu, Taken

(* No step of the supervisor leads to the statements of other policies.     *)
LEMMA SupKeepsControl ==
    ASSUME SupInv, ControlKnows, SupStep
    PROVE  ControlKnows'
<1> USE DEF SupGoto, Simulate, sharedVars, supLocals, outsideSup, configVars
<1>1. /\ UNCHANGED <<event, pcb, current, simCurrent, static_prior, timeslice,
                     ops>>
      /\ \A d \in CPUs : \/ cpc'[d] = cpc[d]
                         \/ cpc[d] = "idle_wait" /\ cpc'[d] = "idle"
  BY SupervisorOutside, SupervisorLeavesCpus DEF SupInv
<1>2. /\ simState \in [CPUs -> CpuStates] /\ timer \in [CPUs -> Int]
      /\ n \in 0 .. cpu_count
  BY DEF SupInv, IInv, TypeOK, SharedTypeOK, SupTypeOK
<1>3. ASSUME NEW p \in Procs, Burst(p) \/ BurstToIo(p) \/ BurstToEnd(p)
                             \/ NotRunnable(p)
      PROVE  n \in CPUs /\ timer[n] <= 0
  <2>1. n \in CPUs
    BY <1>2, <1>3, CpusAreNumbered
       DEF Burst, BurstToIo, BurstToEnd, NotRunnable
  <2>2. QED
    BY <2>1 DEF ControlKnows
<1>4. /\ \A d \in CPUs : timer'[d] = timer[d]
      /\ \A d \in CPUs : \/ simState'[d] = simState[d]
                         \/ simState'[d] \in {"CPU_YIELD", "CPU_TERMINATE"}
  <2>1. CASE \/ Tick \/ PrintGantt \/ EndTick \/ SkipCpu \/ Resume
             \/ CpusDone \/ IoIdle \/ IoTick \/ IoComplete \/ Creat
    BY <2>1 DEF Tick, PrintGantt, EndTick, SkipCpu, Resume, CpusDone, IoIdle,
       IoTick, IoComplete, Creat
  <2>2. CASE WakeEnter \/ WakeReady \/ WakeAdd \/ WakeLeave \/ WakeReturn
    BY <2>2 DEF WakeEnter, WakeReady, WakeAdd, WakeLeave, WakeReturn
  <2>3. ASSUME NEW p \in Procs, Burst(p) \/ BurstToIo(p) \/ BurstToEnd(p)
                                \/ NotRunnable(p)
        PROVE  /\ \A d \in CPUs : timer'[d] = timer[d]
               /\ \A d \in CPUs :
                    \/ simState'[d] = simState[d]
                    \/ simState'[d] \in {"CPU_YIELD", "CPU_TERMINATE"}
    BY <1>2, <1>3, <2>3
       DEF Burst, BurstToIo, BurstToEnd, NotRunnable, Post, Signal, CountDown
  <2>4. QED
    BY <2>1, <2>2, <2>3 DEF SupStep, ControlKnows, WakeAddBesideGh, ScanTest,
       ScanCompare, ScanTake, ScanDone, ForceUnlock, ForcePost, ForceResume,
       ForceRelock
<1>5. spc' \in {"tick", "print", "cpus", "await", "resume", "io", "creat",
                "wake", "wake_ready", "wake_add", "wake_leave", "wake_ret",
                "end", "exit", "spin"}
  <2>1. CASE \/ Tick \/ PrintGantt \/ EndTick \/ SkipCpu \/ Resume
             \/ CpusDone \/ IoIdle \/ IoTick \/ IoComplete \/ Creat
    BY <2>1 DEF Tick, PrintGantt, EndTick, SkipCpu, Resume, CpusDone, IoIdle,
       IoTick, IoComplete, Creat, NextCpu
  <2>2. CASE WakeEnter \/ WakeReady \/ WakeAdd \/ WakeLeave \/ WakeReturn
    BY <2>2 DEF WakeEnter, WakeReady, WakeAdd, WakeLeave, WakeReturn
  <2>3. CASE \E p \in Procs : Burst(p) \/ BurstToIo(p) \/ BurstToEnd(p)
                              \/ NotRunnable(p)
    BY <2>3 DEF Burst, BurstToIo, BurstToEnd, NotRunnable, Post, NextCpu
  <2>4. QED
    BY <2>1, <2>2, <2>3 DEF SupStep, ControlKnows, WakeAddBesideGh, ScanTest,
       ScanCompare, ScanTake, ScanDone, ForceUnlock, ForcePost, ForceResume,
       ForceRelock
<1>6. QED
  BY <1>1, <1>4, <1>5 DEF ControlKnows, Idling

(* Until a tick is hurried the supervisor finds the CPU threads it has yet  *)
(* to visit at rest, as they were when the tick began, and so every thread  *)
(* it posts an event to waiting for it.                                     *)
LEMMA SupKeepsSettled ==
    ASSUME SupInv, ControlKnows, SettledAhead, ~missed, SupStep, ~hurried'
    PROVE  ~missed' /\ SettledAhead'
<1> USE DEF SupGoto, Simulate, sharedVars, supLocals, outsideSup
<1>1. n \in 0 .. cpu_count
  BY DEF SupInv, IInv, TypeOK, SupTypeOK
<1>2. ASSUME NEW p \in Procs, spc = "cpus", n < cpu_count, simCurrent[n] = p
      PROVE  cpc[n] = "parked"
  <2>1. n \in CPUs /\ cpc[n] # "idle_wait"
    BY <1>2, SimulatedIsOn
  <2>2. n \in Ahead
    BY <1>2, <2>1, CpusAreNumbered DEF Ahead
  <2>3. QED
    BY <2>1, <2>2 DEF SettledAhead, Settled
<1>3. ~missed'
  BY <1>2 DEF SupStep, Tick, PrintGantt, EndTick, SkipCpu, Resume, CpusDone,
     Burst, BurstToIo, BurstToEnd, NotRunnable, IoIdle, IoTick, IoComplete,
     Creat, WakeEnter, WakeReady, WakeAdd, WakeAddBesideGh, WakeLeave,
     WakeReturn, ScanTest, ScanCompare, ScanTake, ScanDone, ForceUnlock,
     ForcePost, ForceResume, ForceRelock, Post, Signal, aside, ControlKnows
<1>4. \/ spc' \notin {"print", "cpus", "await", "resume"}
      \/ Tick /\ spc' = "print"
      \/ spc = "print" /\ spc' = "cpus" /\ UNCHANGED cpc
      \/ spc = "cpus" /\ spc' = "cpus" /\ n' = n + 1 /\ UNCHANGED cpc
      \/ spc = "cpus" /\ spc' = "await" /\ n' = n /\ UNCHANGED cpc
      \/ spc = "resume" /\ spc' = "cpus" /\ n' = n + 1 /\ UNCHANGED cpc
  <2>1. CASE \/ Tick \/ PrintGantt \/ EndTick \/ SkipCpu \/ Resume
             \/ CpusDone \/ IoIdle \/ IoTick \/ IoComplete \/ Creat
    BY <2>1 DEF Tick, PrintGantt, EndTick, SkipCpu, Resume, CpusDone, IoIdle,
       IoTick, IoComplete, Creat, NextCpu
  <2>2. CASE WakeEnter \/ WakeReady \/ WakeAdd \/ WakeLeave \/ WakeReturn
    BY <2>2 DEF WakeEnter, WakeReady, WakeAdd, WakeLeave, WakeReturn
  <2>3. CASE \E p \in Procs : Burst(p) \/ BurstToIo(p) \/ BurstToEnd(p)
                              \/ NotRunnable(p)
    BY <2>3 DEF Burst, BurstToIo, BurstToEnd, NotRunnable, Post, NextCpu
  <2>4. QED
    BY <2>1, <2>2, <2>3 DEF SupStep, ControlKnows, WakeAddBesideGh, ScanTest,
       ScanCompare, ScanTake, ScanDone, ForceUnlock, ForcePost, ForceResume,
       ForceRelock
<1>5. SettledAhead'
  <2>1. CASE Tick /\ spc' = "print"
    BY <2>1 DEF Tick, SettledAhead, Ahead, Settled
  <2>2. CASE ~Tick
    <3>1. ASSUME NEW d \in Ahead' PROVE d \in Ahead /\ cpc'[d] = cpc[d]
      <4>1. d \in Int
        BY CpusAreNumbered DEF Ahead
      <4>2. QED
        BY <1>1, <1>4, <2>2, <4>1 DEF Ahead
    <3>2. QED
      BY <3>1 DEF SettledAhead, Settled
  <2>3. CASE Tick /\ spc' # "print"
    BY <2>3 DEF Tick, SettledAhead, Ahead
  <2>4. QED
    BY <2>1, <2>2, <2>3
<1>6. QED
  BY <1>3, <1>5

(* pcb->pc++ changes what the process is at, and what no other is.          *)
LEMMA MoveOnKind ==
    ASSUME TypeOK, NEW p \in Procs, MoveOn(p), ops' = ops
    PROVE  /\ Kind'[p] = ops[p][pc[p] + 1].type
           /\ \A q \in Procs : q # p => Kind'[q] = Kind[q]
<1>1. pc \in [Procs -> Nat]
  BY DEF TypeOK, SharedTypeOK
<1>2. pc'[p] = pc[p] + 1 /\ \A q \in Procs : q # p => pc'[q] = pc[q]
  BY <1>1 DEF MoveOn
<1>3. QED
  BY <1>2 DEF Kind, Op

(* What a step of the supervisor that misses no thread does to a process.   *)
LEMMA FifoSup ==
    ASSUME SupInv, ControlKnows, PlaceKnows, SupStep, ~missed'
    PROVE  FifoStep
<1> USE DEF SupGoto, sharedVars, supLocals, outsideSup, configVars, programVars
<1>1. UNCHANGED <<event, pcb, current, simCurrent, static_prior, timeslice,
                  ops>>
  BY SupervisorOutside
<1>2. UNCHANGED simState => AllStay
  BY SupervisorStays DEF AllStay
<1>3. UNCHANGED pc => Kind' = Kind
  BY <1>1 DEF Kind, Op
<1>4. \A c \in CPUs : spc \notin {"await", "fp_await"} => Told[c] = "nothing"
  BY ToldOnlyInWait
<1>5. TypeOK
  BY DEF SupInv, IInv
<1>6. CASE \/ Tick \/ PrintGantt \/ EndTick \/ SkipCpu \/ Resume
           \/ CpusDone \/ IoIdle \/ IoTick \/ WakeEnter
  <2>1. /\ UNCHANGED <<simState, pc, state, q_head, next, created, waking,
                       after>>
        /\ WakeStage' = WakeStage
    BY <1>6 DEF Tick, PrintGantt, EndTick, SkipCpu, Resume, CpusDone, IoIdle,
       IoTick, WakeEnter, countVars, WakeStage, NextCpu
  <2>2. QED
    BY <1>2, <1>3, <2>1 DEF FifoStep, Quiet, ListStays, WakeWaits
<1>7. ASSUME NEW p \in Procs, Burst(p) \/ NotRunnable(p)
      PROVE  FifoStep
  <2>1. n \in CPUs /\ timer[n] # 1
    <3>1. n \in CPUs
      BY <1>5, <1>7, CpusAreNumbered
         DEF Burst, NotRunnable, Simulate, TypeOK, SupTypeOK
    <3>2. timer[n] \in Int /\ timer[n] <= 0
      BY <1>5, <3>1 DEF ControlKnows, TypeOK, SharedTypeOK
    <3>3. QED
      BY <3>1, <3>2
  <2>2. /\ UNCHANGED <<simState, pc, state, q_head, next, created, waking,
                       after>>
        /\ WakeStage' = WakeStage
    BY <1>7, <2>1
       DEF Burst, NotRunnable, Simulate, countVars, WakeStage, NextCpu
  <2>3. QED
    BY <1>2, <1>3, <2>2 DEF FifoStep, Quiet, ListStays, WakeWaits
<1>8. ASSUME NEW p \in Procs, BurstToIo(p) \/ BurstToEnd(p)
      PROVE  FifoStep
  <2>1. PICK e \in {"CPU_YIELD", "CPU_TERMINATE"} :
          /\ MoveOn(p) /\ simState' = [simState EXCEPT ![n] = e]
          /\ ops[p][pc[p] + 1].type =
               IF e = "CPU_YIELD" THEN "OP_IO" ELSE "OP_TERMINATE"
    BY <1>8 DEF BurstToIo, BurstToEnd, Post, Signal
  <2>2. /\ spc = "cpus" /\ n < cpu_count /\ simCurrent[n] = p
        /\ spc' = "await" /\ n' = n
        /\ UNCHANGED <<state, q_head, next, created, waking, after, cpc>>
        /\ cpc[n] = "parked"
    BY <1>8 DEF BurstToIo, BurstToEnd, Post, Signal, Simulate, countVars
  <2>3. n \in CPUs /\ n \notin Taken /\ On[n] = p /\ Told[n] = "nothing"
    BY <2>2, SimulatedIsOn
  <2>4. simState \in [CPUs -> CpuStates]
    BY <1>5 DEF TypeOK, SharedTypeOK
  <2>5. OthersStay(n)
    BY <2>1, <2>4, SupervisorStays DEF OthersStay
  <2>6. On'[n] = On[n] /\ Told'[n] = e /\ n \notin Taken'
    BY <1>1, <2>1, <2>2, <2>3, <2>4 DEF On, OnCpu, Told, Taken
  <2>7. /\ Kind'[p] = IF e = "CPU_YIELD" THEN "OP_IO" ELSE "OP_TERMINATE"
        /\ \A q \in Procs : q # p => Kind'[q] = Kind[q]
    BY <1>1, <1>5, <2>1, MoveOnKind
  <2>8. WakeStage = "none" /\ WakeStage' = "none"
    BY <2>2 DEF WakeStage
  <2>9. Posts(n, e)
    BY <2>2, <2>3, <2>5, <2>6, <2>7, <2>8 DEF Posts, ListStays, WakeWaits
  <2>10. QED
    BY <2>3, <2>9 DEF FifoStep
<1>9. CASE IoComplete
  <2> DEFINE p == Head(ioQueue).pcb
  <2>1. /\ MoveOn(p) /\ ioQueue # <<>> /\ spc = "io" /\ spc' = "wake"
        /\ waking' = p /\ after' = "creat"
        /\ UNCHANGED <<simState, state, q_head, next, created>>
    BY <1>9 DEF IoComplete, countVars
  <2>2. p \in Procs /\ Op(p).type = "OP_IO"
    <3>1. Blocked \in SUBSET Procs
      BY DEF Blocked
    <3>2. ioQueue \in Seq(Request) /\ OneRequestEach(ioQueue, Blocked)
      BY DEF SupInv, IInv, TypeOK, SharedTypeOK, IoKnows, Request
    <3>3. QED
      BY <2>1, <3>1, <3>2, TailRequest DEF Blocked
  <2> HIDE DEF p
  <2>3. ops[p][pc[p] + 1].type = "OP_CPU"
    BY <1>1, <2>1, <2>2, MoveOnKnows DEF SupInv, IInv
  <2>4. /\ Kind[p] = "OP_IO" /\ Kind'[p] = "OP_CPU"
        /\ \A q \in Procs : q # p => Kind'[q] = Kind[q]
    BY <1>1, <1>5, <2>1, <2>2, <2>3, MoveOnKind DEF Kind
  <2>5. WakeStage = "none" /\ WakeStage' = "coming"
    BY <2>1 DEF WakeStage
  <2>6. Completes(p)
    BY <1>2, <1>4, <2>1, <2>4, <2>5 DEF Completes, ListStays
  <2>7. QED
    BY <2>2, <2>6 DEF FifoStep
<1>10. CASE Creat
  <2>1. UNCHANGED <<simState, pc, state, q_head, next, created>>
    BY <1>10 DEF Creat, countVars
  <2>2. CASE clock = 0 /\ created < PROCESS_COUNT
    <3>1. created \in Procs
      BY <1>5, <2>2, ProcsAreNumbered DEF TypeOK, CountTypeOK
    <3>2. Creates
      BY <1>2, <1>3, <1>10, <2>1, <2>2, <3>1
         DEF Creates, Creat, ListStays, WakeStage
    <3>3. QED
      BY <3>2 DEF FifoStep
  <2>3. CASE ~(clock = 0 /\ created < PROCESS_COUNT)
    BY <1>2, <1>3, <1>10, <2>1, <2>3
       DEF FifoStep, Quiet, Creat, ListStays, WakeWaits, WakeStage
  <2>4. QED
    BY <2>2, <2>3
<1>11. CASE WakeReady
  <2>1. Readies
    BY <1>2, <1>3, <1>11
       DEF Readies, WakeReady, countVars, ListStays, WakeStage
  <2>2. QED
    BY <2>1 DEF FifoStep
<1>12. CASE WakeAdd
  <2>1. waking \in Procs /\ waking \notin Queued /\ spc = "wake_add"
    BY <1>12 DEF WakeAdd, PlaceKnows, WakeKnows, WakeStage
  <2>2. ~AddQueueSpins(waking)
    BY <1>5, <2>1, AddsOne DEF PlaceKnows, TypeOK
  <2>3. /\ UNCHANGED <<simState, pc, state, created, waking, after>>
        /\ AddQueue(waking) /\ spc' = "wake_leave"
    BY <1>12, <2>2 DEF WakeAdd, ControlKnows, countVars
  <2>4. Adds
    BY <1>2, <1>3, <2>1, <2>3 DEF Adds, WakeStage
  <2>5. QED
    BY <2>4 DEF FifoStep
<1>13. CASE WakeLeave
  <2>1. Forgets
    BY <1>2, <1>3, <1>13
       DEF Forgets, WakeLeave, countVars, ListStays, WakeStage
  <2>2. QED
    BY <2>1 DEF FifoStep
<1>14. CASE WakeReturn
  <2>1. Counts
    BY <1>2, <1>3, <1>14 DEF Counts, WakeReturn, ListStays, WakeStage
  <2>2. QED
    BY <2>1 DEF FifoStep
<1>15. CASE \/ WakeAddBesideGh \/ ScanTest \/ ScanCompare \/ ScanTake
            \/ ScanDone \/ ForceUnlock \/ ForcePost \/ ForceResume
            \/ ForceRelock
  BY <1>15 DEF ControlKnows, WakeAddBesideGh, ScanTest, ScanCompare, ScanTake,
     ScanDone, ForceUnlock, ForcePost, ForceResume, ForceRelock
<1>16. QED
  BY <1>6, <1>7, <1>8, <1>9, <1>10, <1>11, <1>12, <1>13, <1>14, <1>15
     DEF SupStep

-----------------------------------------------------------------------------
(* Every step of Scheduler that misses no thread is one that PlaceKnows     *)
(* knows.                                                                   *)
LEMMA EveryStep ==
    ASSUME FifoInv, [Next]_vars, ~missed'
    PROVE  ~missed /\ FifoStep
<1>1. ASSUME NEW c \in CPUs, CpuStep(c) PROVE ~missed /\ FifoStep
  BY <1>1, FifoOthers, FifoCpu DEF FifoStep, FifoInv
<1>2. ASSUME SupStep PROVE ~missed /\ FifoStep
  <2>1. ~missed
    BY <1>2, MissedStays
  <2>2. QED
    BY <1>2, <2>1, FifoSup DEF FifoInv
<1>3. ASSUME UNCHANGED vars PROVE ~missed /\ FifoStep
  <2>0. missed' = missed
    BY <1>3 DEF vars, supVars
  <2>1. UNCHANGED <<ops, pc, cpc, event, pcb, simState, current, q_head, next,
                    state, created, waking, after, spc>>
    BY <1>3 DEF vars, queueVars, configVars, studentVars, simCpuVars,
       programVars, countVars, cpuVars, supVars
  <2>2. AllStay
    BY <2>1, SameCpu DEF AllStay
  <2>3. WakeWaits /\ ListStays /\ Kind' = Kind
    BY <2>1 DEF WakeWaits, WakeStage, ListStays, Kind, Op
  <2>4. QED
    BY <2>0, <2>1, <2>2, <2>3 DEF FifoStep, Quiet
<1>4. QED
  BY <1>1, <1>2, <1>3 DEF Next, CpuNext, SupNext, Stopped

(* Before any thread has run every process is new and the queue is empty.   *)
LEMMA FifoInvInit ==
    ASSUME FifoOnly, Init
    PROVE  FifoInv
<1> USE PointersAreNotProcs
<1>1. SupInv
  BY SupInvInit
<1>2. ControlKnows
  <2>1. PICK line \in CommandLines :
          static_prior = line.static_prior /\ timeslice = line.timeslice
    BY DEF Init
  <2>2. ~static_prior /\ timeslice <= 0
    BY <2>1 DEF FifoOnly
  <2>3. QED
    BY <2>2 DEF Init, ControlKnows, Idling
<1>3. SettledAhead /\ ~missed
  BY DEF Init, SettledAhead, Ahead
<1>4. \A p \in Procs : state[p] = "NEW" /\ Kind[p] = "OP_CPU"
  <2> TAKE p \in Procs
  <2>1. ops[p] \in Programs /\ pc[p] = 1 /\ state[p] = "NEW"
    BY DEF Init
  <2>2. Len(ops[p]) \in Nat /\ Len(ops[p]) >= 2
    BY <2>1, ProgramsAlternate DEF LegalProgram
  <2>3. 1 \in 1 .. Len(ops[p])
    BY <2>2
  <2>4. ops[p][1].type = "OP_CPU"
    BY <2>1, <2>3, ProgramsAlternate DEF LegalProgram
  <2>5. QED
    BY <2>1, <2>4 DEF Kind, Op
<1>5. QueueIsList /\ Queued = {}
  <2>1. q_head = NULL
    BY DEF Init, QueueInit
  <2>2. <<>> \in Seq(Procs) /\ Len(<<>>) = 0
    BY EmptySeq
  <2>3. IsList(<<>>, q_head, next)
    BY <2>1, <2>2 DEF IsList
  <2>4. Elements(<<>>) = {}
    BY <2>2 DEF Elements
  <2>5. QED
    BY <2>2, <2>3, <2>4, WalkVisitsList DEF QueueIsList, Queued
<1>6. \A c \in CPUs : On[c] = NULL
  <2>1. \A c \in CPUs : cpc[c] = "top" /\ current[c] \in {NULL, WILD}
    BY ParametersAreLegal DEF Init
  <2>2. QED
    BY <2>1 DEF On, OnCpu
<1>7. WakeStage = "none" /\ waking = NULL
  BY DEF Init, WakeStage
<1>8. PlaceKnows
  BY <1>4, <1>5, <1>6, <1>7
     DEF PlaceKnows, QueueKnows, OnKnows, WakeKnows, StateKnows
<1>9. QED
  BY <1>1, <1>2, <1>3, <1>8 DEF FifoInv

(* Every step, and a stutter, keeps FifoInv.                                *)
LEMMA FifoInvStep ==
    ASSUME FifoInv, [Next]_vars
    PROVE  FifoInv'
<1> DEFINE Haste == ~hurried => ~missed /\ SettledAhead
<1>1. SupInv'
  BY SupInvStep DEF FifoInv
<1>2. ~missed' => PlaceKnows'
  BY EveryStep, PlacesAreTyped, StepKeepsPlace DEF FifoInv
<1>3. ASSUME NEW c \in CPUs, CpuStep(c)
      PROVE  ControlKnows' /\ Haste'
  <2>1. ControlKnows'
    BY <1>3, CpuKeepsControl DEF FifoInv
  <2>2. missed' = missed /\ hurried' = hurried
    BY <1>3, FifoOthers DEF FifoInv
  <2>3. QED
    BY <1>3, <2>1, <2>2, CpuKeepsSettled DEF FifoInv
<1>4. ASSUME SupStep PROVE ControlKnows' /\ Haste'
  BY <1>4, SupKeepsControl, SupKeepsSettled, MissedStays DEF FifoInv
<1>5. ASSUME UNCHANGED vars PROVE ControlKnows' /\ Haste'
  <2>1. UNCHANGED <<static_prior, timeslice, spc, n, timer, cpc, event,
                    simState, simCurrent, current>>
    BY <1>5 DEF vars, configVars, studentVars, simCpuVars, cpuVars, supVars
  <2>2. missed' = missed /\ hurried' = hurried
    BY <1>5 DEF vars, supVars
  <2>3. ControlKnows'
    BY <2>1 DEF FifoInv, ControlKnows, Idling
  <2>4. SettledAhead' <=> SettledAhead
    BY <2>1 DEF SettledAhead, Ahead, Settled
  <2>5. QED
    BY <2>2, <2>3, <2>4 DEF FifoInv
<1>6. QED
  BY <1>1, <1>2, <1>3, <1>4, <1>5
     DEF FifoInv, Next, CpuNext, SupNext, Stopped

(* Until an event is missed, library and scheduler agree on where each      *)
(* process is.                                                              *)
THEOREM FifoInvHolds ==
    ASSUME FifoOnly
    PROVE  Spec => []FifoInv
<1>1. Init => FifoInv
  BY FifoInvInit
<1>2. FifoInv /\ [Next]_vars => FifoInv'
  BY FifoInvStep
<1>3. QED
  BY <1>1, <1>2, PTL DEF Spec

(* In FIFO an event is missed only when a tick has begun before every CPU   *)
(* thread was back at its wait.                                             *)
THEOREM MissesOnlyInHaste ==
    ASSUME FifoOnly
    PROVE  Spec => []OnlyHasteMisses
<1>1. FifoInv => OnlyHasteMisses
  <2>1. ASSUME FifoInv PROVE missed => hurried
    BY <2>1 DEF FifoInv
  <2>2. QED
    BY <2>1 DEF OnlyHasteMisses
<1>2. QED
  BY <1>1, FifoInvHolds, PTL

(* What the simulator has on a CPU when it prints a line: the process that  *)
(* the scheduler has put there, or none where the thread is in idle() or in *)
(* the schedule() that idle() calls.                                        *)
LEMMA PrintedIsOn ==
    ASSUME SupInv, ControlKnows, spc = "print", NEW c \in CPUs
    PROVE  /\ On[c] \in Pointers /\ simCurrent[c] \in Pointers
           /\ Told[c] = "nothing"
           /\ simCurrent[c] \in Procs => On[c] = simCurrent[c] /\ c \notin Taken
           /\ c \in Taken => On[c] = pcb[c] /\ cpc[c] = "setrun"
           /\ c \notin Taken /\ On[c] \in Procs =>
                 \/ simCurrent[c] = On[c]
                 \/ cpc[c] \in {"cs_unlock", "cs_set"} /\ pcb[c] = On[c]
           /\ cpc[c] \in {"cs_unlock", "cs_set"} =>
                 c \notin Taken /\ (pcb[c] \in Procs => On[c] = pcb[c])
<1> USE PointersAreNotProcs
<1>1. event[c] = "CPU_IDLE"
  BY DEF SupInv, IInv, HandlerIsolation, Busy
<1>2. Idling(c) => simCurrent[c] = NULL
  BY DEF ControlKnows
<1>3. Idling(c) /\ cpc[c] \notin {"cs_unlock", "cs_set"}
         => current[c] \notin Procs
  BY DEF ControlKnows
<1>4. Told[c] = "nothing" /\ On[c] \in Pointers /\ simCurrent[c] \in Pointers
  BY ToldOnlyInWait, PlacesAreTyped
     DEF PlaceTypes, SupInv, IInv, TypeOK, SharedTypeOK
<1>5. CASE cpc[c] \in {"idle", "idle_wait", "select"}
  BY <1>1, <1>2, <1>3, <1>4, <1>5 DEF Idling, On, OnCpu, Taken
<1>6. CASE cpc[c] = "setrun"
  BY <1>1, <1>2, <1>4, <1>6 DEF Idling, On, OnCpu, Taken
<1>7. CASE cpc[c] \in {"cs_unlock", "cs_set"}
  <2>1. pcb[c] = current[c]
    BY <1>7 DEF SupInv, IInv, CpuKnows
  <2>2. QED
    BY <1>1, <1>2, <1>4, <1>7, <2>1 DEF Idling, On, OnCpu, Taken
<1>8. CASE cpc[c] \in {"top", "parked", "cs_lock", "leave"}
  <2>1. \/ simCurrent[c] = current[c]
        \/ simCurrent[c] = NULL /\ current[c] = WILD
    BY <1>8 DEF SupInv, IInv, CpuKnows
  <2>2. QED
    BY <1>4, <1>8, <2>1 DEF On, OnCpu, Taken
<1>9. cpc[c] \notin {"count", "enter", "handler", "requeue", "adding", "spin",
                     "gh"}
  BY <1>1 DEF SupInv, IInv, CpuKnows, ControlKnows, Events
<1>10. QED
  BY <1>5, <1>6, <1>7, <1>8, <1>9
     DEF SupInv, IInv, TypeOK, CpuTypeOK, CpuLabels

(* Unless an event was missed, no process is on two CPUs when a tick begins.*)
THEOREM NoProcessRunsTwice ==
    ASSUME FifoOnly
    PROVE  Spec => []NoDoubleDispatch
<1>1. ASSUME FifoInv PROVE NoDoubleDispatch
  <2> SUFFICES ASSUME spc = "print", ~missed, NEW c \in CPUs, NEW d \in CPUs,
                      c # d, simCurrent[c] \in Procs
               PROVE  simCurrent[c] # simCurrent[d]
    BY DEF NoDoubleDispatch
  <2>1. /\ On[c] = simCurrent[c]
        /\ simCurrent[d] \in Procs => On[d] = simCurrent[d]
    BY <1>1, PrintedIsOn DEF FifoInv
  <2>2. QED
    BY <1>1, <2>1 DEF FifoInv, PlaceKnows, OnKnows
<1>2. QED
  BY <1>1, FifoInvHolds, PTL

(* Unless an event was missed, the simulator never simulates a process that *)
(* is blocked or terminated: each yield() and terminate() has taken effect  *)
(* before its CPU is visited again.                                         *)
THEOREM OnlyRunnableProcessesRun ==
    ASSUME FifoOnly
    PROVE  Spec => []RunsOnlyRunnable
<1>1. ASSUME FifoInv PROVE RunsOnlyRunnable
  <2> SUFFICES ASSUME ~missed, spc = "cpus", n < cpu_count,
                      simCurrent[n] \in Procs
               PROVE  Op(simCurrent[n]).type = "OP_CPU"
    BY DEF RunsOnlyRunnable, NeverSimulatesBlocked
  <2>1. On[n] = simCurrent[n] /\ Told[n] = "nothing" /\ n \in CPUs
    BY <1>1, SimulatedIsOn DEF FifoInv
  <2>2. Kind[simCurrent[n]] = "OP_CPU"
    BY <1>1, <2>1 DEF FifoInv, PlaceKnows, OnKnows
  <2>3. QED
    BY <2>2 DEF Kind
<1>2. QED
  BY <1>1, FifoInvHolds, PTL

(* Unless an event was missed, a line of the Gantt chart agrees with itself *)
(* and with the queues, whatever the threads that idle() has taken into     *)
(* schedule() are doing.                                                    *)
THEOREM GanttLinesAgree ==
    ASSUME FifoOnly
    PROVE  Spec => []GanttAgrees
<1> USE PointersAreNotProcs
<1>1. ASSUME FifoInv, spc = "print", ~missed
      PROVE  /\ {p \in Procs : state[p] = "RUNNING"}
                   = ({simCurrent[c] : c \in CPUs} \ {NULL})
                     \cup Held({"cs_unlock", "cs_set"})
             /\ {p \in Procs : state[p] = "WAITING"}
                   = {ioQueue[i].pcb : i \in DOMAIN ioQueue}
             /\ {p \in Procs : state[p] = "READY"}
                   = Queued \cup Held({"setrun"})
  <2>1. SupInv /\ ControlKnows
    BY <1>1 DEF FifoInv
  <2>2. WakeStage = "none" /\ Taken \subseteq CPUs
    BY <1>1 DEF WakeStage, Taken
  <2>3. /\ QueueKnows /\ OnKnows /\ StateKnows
        /\ state \in [Procs -> ProcessStates] /\ pcb \in [CPUs -> Pointers]
    BY <1>1 DEF FifoInv, PlaceKnows, SupInv, IInv, TypeOK, SharedTypeOK,
       CpuTypeOK
  <2>4. /\ \A c \in CPUs : Told[c] = "nothing" /\ On[c] \in Pointers
        /\ \A c \in CPUs : simCurrent[c] \in Pointers
    BY <1>1, <2>1, PrintedIsOn
  <2>5. ASSUME NEW p \in Procs, state[p] = "RUNNING"
        PROVE  \/ p \in {simCurrent[c] : c \in CPUs} \ {NULL}
               \/ p \in Held({"cs_unlock", "cs_set"})
    <3>1. PICK c \in CPUs \ Taken : On[c] = p
      BY <2>3, <2>5 DEF StateKnows
    <3>2. \/ simCurrent[c] = p
          \/ cpc[c] \in {"cs_unlock", "cs_set"} /\ pcb[c] = p
      BY <1>1, <2>1, <3>1, PrintedIsOn
    <3>3. QED
      BY <3>1, <3>2 DEF Held
  <2>6. ASSUME NEW c \in CPUs, simCurrent[c] # NULL
        PROVE  simCurrent[c] \in Procs /\ state[simCurrent[c]] = "RUNNING"
    <3>1. simCurrent[c] \in Procs
      BY <2>4, <2>6 DEF Pointers
    <3>2. On[c] = simCurrent[c] /\ c \notin Taken
      BY <1>1, <2>1, <3>1, PrintedIsOn
    <3>3. QED
      BY <2>3, <3>1, <3>2 DEF OnKnows
  <2>7. ASSUME NEW p \in Held({"cs_unlock", "cs_set"})
        PROVE  p \in Procs /\ state[p] = "RUNNING"
    <3>1. PICK c \in CPUs : /\ cpc[c] \in {"cs_unlock", "cs_set"}
                            /\ pcb[c] = p /\ p # NULL
      BY <2>7 DEF Held
    <3>2. p \in Procs
      BY <2>3, <3>1 DEF Pointers
    <3>3. On[c] = p /\ c \notin Taken
      BY <1>1, <2>1, <3>1, <3>2, PrintedIsOn
    <3>4. QED
      BY <2>3, <3>2, <3>3 DEF OnKnows
  <2>8. {p \in Procs : state[p] = "RUNNING"}
          = ({simCurrent[c] : c \in CPUs} \ {NULL})
            \cup Held({"cs_unlock", "cs_set"})
    BY <2>5, <2>6, <2>7
  <2>9. \A p \in Procs : state[p] = "WAITING" <=> p \in Blocked
    <3> TAKE p \in Procs
    <3>1. state[p] = "WAITING" <=> Kind[p] = "OP_IO"
      BY <2>2, <2>3, <2>4 DEF StateKnows, OnKnows
    <3>2. QED
      BY <3>1 DEF Kind, Blocked
  <2>10. \A p : p \in Blocked <=> p \in {ioQueue[i].pcb : i \in DOMAIN ioQueue}
    <3>1. ioQueue \in Seq([pcb : Procs, time : Nat])
          /\ OneRequestEach(ioQueue, Blocked)
      BY <1>1 DEF FifoInv, SupInv, IInv, TypeOK, SharedTypeOK, IoKnows
    <3>2. DOMAIN ioQueue = 1 .. Len(ioQueue)
      BY <3>1, LenProperties
    <3>3. QED
      BY <3>1, <3>2 DEF OneRequestEach
  <2>11. {p \in Procs : state[p] = "WAITING"}
           = {ioQueue[i].pcb : i \in DOMAIN ioQueue}
    <3>1. \A p : p \in {q \in Procs : state[q] = "WAITING"}
                   <=> p \in {ioQueue[i].pcb : i \in DOMAIN ioQueue}
      BY <2>9, <2>10 DEF Blocked
    <3>2. QED
      BY <3>1
  <2>12. \A p : p \in {q \in Procs : state[q] = "READY"}
                  <=> p \in Queued \cup Held({"setrun"})
    <3>1. Queued \subseteq Procs
      BY DEF Queued, Reach
    <3>2. \A p \in Procs : p \in Held({"setrun"}) <=> \E c \in Taken : On[c] = p
      <4>1. \A c \in CPUs : c \in Taken <=> cpc[c] = "setrun"
        BY DEF Taken
      <4>2. \A c \in Taken : On[c] = pcb[c]
        BY <1>1, <2>1, <2>2, PrintedIsOn
      <4>3. QED
        BY <2>2, <4>1, <4>2 DEF Held
    <3>3. Held({"setrun"}) \subseteq Procs
      BY <2>3 DEF Held, Pointers
    <3>4. \A p \in Procs : state[p] = "READY"
                            => p \in Queued \/ \E c \in Taken : On[c] = p
      BY <2>2, <2>3 DEF StateKnows
    <3>5. \A p \in Procs : p \in Queued \/ (\E c \in Taken : On[c] = p)
                            => state[p] = "READY"
      BY <2>2, <2>3 DEF QueueKnows, OnKnows
    <3>6. QED
      BY <3>1, <3>2, <3>3, <3>4, <3>5
  <2>13. {p \in Procs : state[p] = "READY"} = Queued \cup Held({"setrun"})
    BY <2>12
  <2>14. QED
    BY <2>8, <2>11, <2>13
<1>2. FifoInv => GanttAgrees
  BY <1>1 DEF GanttAgrees
<1>3. QED
  BY <1>2, FifoInvHolds, PTL

-----------------------------------------------------------------------------
(* A queue is no longer than there are processes.                           *)
LEMMA QueueFits ==
    ASSUME NEW q, IsList(q, q_head, next)
    PROVE  Len(q) \in Nat /\ Len(q) <= PROCESS_COUNT
<1>1. q \in Seq(Procs) /\ Len(q) \in Nat
  BY LenProperties DEF IsList
<1>2. q \in [1 .. Len(q) -> Procs]
  BY <1>1, LenProperties
<1>3. q \in Injection(1 .. Len(q), Procs)
  BY <1>2 DEF IsList, Injection, IsInjective
<1>4. IsFiniteSet(Procs) /\ Cardinality(Procs) = PROCESS_COUNT
  BY ProcsAreNumbered, FS_Interval
<1>5. Cardinality(1 .. Len(q)) <= PROCESS_COUNT
  BY <1>3, <1>4, FS_Injection
<1>6. Cardinality(1 .. Len(q)) = Len(q)
  <2>1. Cardinality(1 .. Len(q)) = IF 1 > Len(q) THEN 0 ELSE Len(q) - 1 + 1
    BY <1>1, FS_Interval
  <2>2. QED
    BY <1>1, <2>1
<1>7. QED
  BY <1>1, <1>5, <1>6

(* Walk is the list, in its order.                                          *)
LEMMA WalkIsTheList ==
    ASSUME NEW q, IsList(q, q_head, next)
    PROVE  Walk = q
<1> USE PointersAreNotProcs
<1> DEFINE nth[k \in 0 .. PROCESS_COUNT] ==
               IF k = 0 THEN q_head
               ELSE IF nth[k - 1] = NULL THEN NULL ELSE next[nth[k - 1]]
           long == {k \in 0 .. PROCESS_COUNT - 1 : nth[k] # NULL}
           f == [k \in 0 .. PROCESS_COUNT |-> IF k < Len(q) THEN q[k + 1]
                                                            ELSE NULL]
<1>1. Walk = [k \in 1 .. Cardinality(long) |-> nth[k - 1]]
  BY DEF Walk
<1>2. /\ q \in Seq(Procs) /\ Len(q) \in Nat
      /\ Len(q) <= PROCESS_COUNT /\ PROCESS_COUNT \in Nat
      /\ \A i \in 1 .. Len(q) : q[i] \in Procs
      /\ q = [i \in 1 .. Len(q) |-> q[i]]
  BY QueueFits, ProcsAreNumbered, LenProperties, ElementOfSeq DEF IsList
<1>3. \A k \in 0 .. PROCESS_COUNT :
         f[k] = IF k = 0 THEN q_head
                ELSE IF f[k - 1] = NULL THEN NULL ELSE next[f[k - 1]]
  <2> TAKE k \in 0 .. PROCESS_COUNT
  <2>1. CASE k = 0
    BY <1>2, <2>1 DEF IsList
  <2>2. CASE k # 0
    <3>1. /\ k - 1 \in 0 .. PROCESS_COUNT /\ (k - 1) + 1 = k
          /\ k <= Len(q) <=> k - 1 < Len(q)
          /\ k <= Len(q) => k \in 1 .. Len(q)
          /\ k < Len(q) <=> k <= Len(q) /\ k # Len(q)
      BY <1>2, <2>2
    <3>2. f[k - 1] = IF k <= Len(q) THEN q[k] ELSE NULL
      BY <3>1
    <3>3. k <= Len(q) => next[q[k]] = IF k = Len(q) THEN NULL ELSE q[k + 1]
      BY <3>1 DEF IsList
    <3>4. QED
      BY <1>2, <2>2, <3>1, <3>2, <3>3
  <2>3. QED
    BY <2>1, <2>2
<1>4. f = [k \in 0 .. PROCESS_COUNT |->
             IF k = 0 THEN q_head
             ELSE IF f[k - 1] = NULL THEN NULL ELSE next[f[k - 1]]]
  BY <1>3
<1>5. nth = [k \in 0 .. PROCESS_COUNT |->
             IF k = 0 THEN q_head
             ELSE IF nth[k - 1] = NULL THEN NULL ELSE next[nth[k - 1]]]
  <2> HIDE DEF f
  <2>1. QED
    BY <1>4 DEF nth
<1> HIDE DEF nth, f
<1>6. \A k \in 0 .. PROCESS_COUNT : nth[k] = f[k]
  <2> DEFINE T == {k \in 0 .. PROCESS_COUNT : nth[k] # f[k]}
  <2> SUFFICES ASSUME T # {} PROVE FALSE
    OBVIOUS
  <2>1. PICK m \in T : \A k \in T : m <= k
    <3>1. T \in SUBSET Nat
      BY <1>2
    <3> HIDE DEF T
    <3>2. QED
      BY <3>1, LeastNumber
  <2>2. m \in 0 .. PROCESS_COUNT /\ nth[m] # f[m]
    OBVIOUS
  <2>3. m # 0
    BY <1>3, <1>5, <2>2
  <2>4. m - 1 \in 0 .. PROCESS_COUNT /\ ~(m <= m - 1)
    BY <1>2, <2>2, <2>3
  <2>5. nth[m - 1] = f[m - 1]
    BY <2>1, <2>4
  <2>6. QED
    BY <1>3, <1>5, <2>2, <2>3, <2>5
<1>7. Cardinality(long) = Len(q)
  <2>1. \A k : k \in long <=> k \in 0 .. Len(q) - 1
    BY <1>2, <1>6 DEF f
  <2>2. long = 0 .. Len(q) - 1
    BY <2>1
  <2> HIDE DEF long
  <2>3. Cardinality(0 .. Len(q) - 1)
          = IF 0 > Len(q) - 1 THEN 0 ELSE (Len(q) - 1) - 0 + 1
    <3>1. 0 \in Int /\ Len(q) - 1 \in Int
      BY <1>2
    <3>2. QED
      BY <3>1, FS_Interval
  <2>4. QED
    BY <1>2, <2>2, <2>3
<1>8. \A k \in 1 .. Len(q) : nth[k - 1] = q[k]
  BY <1>2, <1>6 DEF f
<1> HIDE DEF long
<1>9. QED
  BY <1>1, <1>2, <1>7, <1>8

(* What WalkIsTheList says of the state.                                    *)
WalkKnows == \A q : IsList(q, q_head, next) => Walk = q

(* The same of the next state.                                              *)
LEMMA WalkIsTheListNext == WalkKnows /\ WalkKnows'
<1>1. WalkKnows
  BY WalkIsTheList DEF WalkKnows
<1>2. QED
  BY <1>1, PTL

(* addqueue() and get() as the lifecycle sees them.                         *)
LEMMA WalkChanges ==
    ASSUME QueueTypeOK, QueueIsList
    PROVE  /\ ListStays => Walk' = Walk
           /\ \A p \in Procs : p \notin Queued /\ AddQueue(p)
                               => Walk' = Append(Walk, p)
           /\ Get /\ q_head # NULL => /\ Walk # <<>> /\ q_head = Head(Walk)
                                      /\ Walk' = Tail(Walk)
           /\ Get /\ q_head = NULL => Walk' = Walk
<1>1. PICK q \in Seq(Procs) : IsList(q, q_head, next)
  BY DEF QueueIsList
<1>2. Walk = q /\ Queued = Elements(q)
  BY <1>1, WalkIsTheList, WalkVisitsList DEF Queued
<1>3. \A r : IsList(r, q_head', next') => Walk' = r
  BY WalkIsTheListNext DEF WalkKnows
<1>4. ASSUME ListStays PROVE Walk' = Walk
  BY <1>1, <1>2, <1>3, <1>4 DEF ListStays
<1>5. ASSUME NEW p \in Procs, p \notin Queued, AddQueue(p)
      PROVE  Walk' = Append(Walk, p)
  BY <1>1, <1>2, <1>3, <1>5, AddQueueAppends
<1>6. ASSUME Get
      PROVE  /\ q_head # NULL => /\ Walk # <<>> /\ q_head = Head(Walk)
                                 /\ Walk' = Tail(Walk)
             /\ q_head = NULL => Walk' = Walk
  BY <1>1, <1>2, <1>3, <1>6, GetTakesHead
<1>7. QED
  BY <1>4, <1>5, <1>6

(* The lifecycle's place of each process.                                   *)
Place == [p \in Procs |-> PlaceOf(p)]

(* PlaceOf in the terms of PlaceKnows.                                      *)
PlacesAre ==
    \A p \in Procs :
        /\ p \in Queued => Place[p] = "ready"
        /\ p \notin Queued /\ (\E c \in CPUs : On[c] = p)
              => Place[p] = "running"
        /\ p \notin Queued /\ (\A c \in CPUs : On[c] # p) =>
             Place[p] = IF waking = p
                        THEN (IF after = "created" THEN "new" ELSE "waiting")
                        ELSE IF state[p] = "TERMINATED" THEN "terminated"
                        ELSE IF state[p] = "WAITING" THEN "waiting"
                        ELSE "new"

(* These say what PlaceOf is, in this state and in the next.                *)
LEMMA PlacesAreKnown == PlacesAre /\ PlacesAre'
<1>1. PlacesAre
  <2>1. \A c \in CPUs : On[c] = OnCpu(c)
    BY DEF On
  <2>2. ASSUME NEW p \in Procs
        PROVE  PlaceOf(p) =
                 IF p \in Queued THEN "ready"
                 ELSE IF \E c \in CPUs : OnCpu(c) = p THEN "running"
                 ELSE IF waking = p
                      THEN (IF after = "created" THEN "new" ELSE "waiting")
                 ELSE IF state[p] = "TERMINATED" THEN "terminated"
                 ELSE IF state[p] = "WAITING" THEN "waiting"
                 ELSE "new"
    BY DEF PlaceOf
  <2>3. \A p \in Procs : Place[p] = PlaceOf(p)
    BY DEF Place
  <2>4. \A p \in Procs : (\E c \in CPUs : OnCpu(c) = p)
                          <=> \E c \in CPUs : On[c] = p
    BY <2>1
  <2>5. ASSUME NEW p \in Procs
        PROVE  /\ p \in Queued => Place[p] = "ready"
               /\ p \notin Queued /\ (\E c \in CPUs : On[c] = p)
                     => Place[p] = "running"
               /\ p \notin Queued /\ (\A c \in CPUs : On[c] # p) =>
                    Place[p] = IF waking = p
                               THEN (IF after = "created" THEN "new"
                                                          ELSE "waiting")
                               ELSE IF state[p] = "TERMINATED"
                                    THEN "terminated"
                               ELSE IF state[p] = "WAITING" THEN "waiting"
                               ELSE "new"
    <3>1. Place[p] = PlaceOf(p)
      BY <2>3
    <3>2. CASE p \in Queued
      BY <2>2, <3>1, <3>2
    <3>3. CASE p \notin Queued /\ \E c \in CPUs : On[c] = p
      <4>1. \E c \in CPUs : OnCpu(c) = p
        BY <2>4, <3>3
      <4>2. QED
        BY <2>2, <3>1, <3>3, <4>1
    <3>4. CASE p \notin Queued /\ \A c \in CPUs : On[c] # p
      <4>1. ~\E c \in CPUs : OnCpu(c) = p
        BY <2>4, <3>4
      <4>2. QED
        BY <2>2, <3>1, <3>4, <4>1
    <3>5. QED
      BY <3>2, <3>3, <3>4
  <2>6. QED
    BY <2>5 DEF PlacesAre
<1>2. QED
  BY <1>1, PTL

(* A step after which each process is still where it was, but for p, which  *)
(* is now at t.                                                             *)
LEMMA PlaceChanges ==
    ASSUME NEW p \in Procs, NEW t, Place'[p] = t,
           \A q \in Procs : q # p => Place'[q] = Place[q]
    PROVE  Place' = [Place EXCEPT ![p] = t]
<1>1. \A q \in Procs : Place'[q] = [Place EXCEPT ![p] = t][q]
  BY DEF Place
<1>2. /\ Place' = [q \in Procs |-> Place'[q]]
      /\ [Place EXCEPT ![p] = t]
            = [q \in Procs |-> [Place EXCEPT ![p] = t][q]]
  BY DEF Place
<1>3. QED
  BY <1>1, <1>2

(* A step after which each process is still where it was.                   *)
LEMMA PlaceStays ==
    ASSUME \A q \in Procs : Place'[q] = Place[q]
    PROVE  Place' = Place
<1>1. /\ Place' = [q \in Procs |-> Place'[q]]
      /\ Place = [q \in Procs |-> Place[q]]
  BY DEF Place
<1>2. QED
  BY <1>1

(* The same of the process each CPU runs.                                   *)
LEMMA OnChanges ==
    /\ AllStay => On' = On
    /\ \A c \in CPUs : \A p :
         OthersStay(c) /\ On'[c] = p => On' = [On EXCEPT ![c] = p]
<1>1. On' = [c \in CPUs |-> On'[c]] /\ On = [c \in CPUs |-> On[c]]
  BY DEF On
<1>2. AllStay => On' = On
  BY <1>1 DEF AllStay, Stays
<1>3. ASSUME NEW c \in CPUs, NEW p, OthersStay(c), On'[c] = p
      PROVE  On' = [On EXCEPT ![c] = p]
  BY <1>1, <1>3 DEF OthersStay, Stays
<1>4. QED
  BY <1>2, <1>3

(* The steps of ProcessLifecycle, over Walk, On and Place.                  *)
Arrives(p) ==
    /\ Place[p] \in {"new", "waiting"}
    /\ Place' = [Place EXCEPT ![p] = "ready"]
    /\ Walk' = Append(Walk, p) /\ On' = On

Departs(c, to) ==
    /\ On[c] # NULL
    /\ Place' = [Place EXCEPT ![On[c]] = to]
    /\ On' = [On EXCEPT ![c] = NULL] /\ Walk' = Walk

Dispatched(c) ==
    /\ On[c] = NULL /\ Walk # <<>>
    /\ On' = [On EXCEPT ![c] = Head(Walk)]
    /\ Place' = [Place EXCEPT ![Head(Walk)] = "running"]
    /\ Walk' = Tail(Walk)

Nothing == UNCHANGED <<Walk, On, Place>>

LifeStep ==
    \/ Nothing
    \/ \E p \in Procs : Arrives(p)
    \/ \E c \in CPUs : \/ Dispatched(c)
                       \/ Departs(c, "waiting") \/ Departs(c, "terminated")

(* A process that was added to the queue arrives.                           *)
LEMMA AddArrives ==
    ASSUME PlaceTypes, PlaceKnows, Adds
    PROVE  LifeStep
<1> DEFINE w == waking
<1>1. /\ UNCHANGED <<state, waking, after>> /\ AllStay
      /\ WakeStage = "adding" /\ AddQueue(w)
      /\ \A c \in CPUs : On'[c] = On[c]
  BY DEF Adds, AllStay, Stays
<1>2. w \in Procs /\ w \notin Queued /\ \A c \in CPUs : On[c] # w
  BY <1>1 DEF PlaceKnows, WakeKnows
<1>3. Queued' = Queued \cup {w} /\ Walk' = Append(Walk, w)
  BY <1>1, <1>2, AddsOne, WalkChanges DEF PlaceKnows, PlaceTypes
<1>4. Place[w] \in {"new", "waiting"} /\ Place'[w] = "ready"
  BY <1>2, <1>3, PlacesAreKnown DEF PlacesAre
<1> HIDE DEF w
<1>5. ASSUME NEW q \in Procs, q # w PROVE Place'[q] = Place[q]
  BY <1>1, <1>3, <1>5, PlacesAreKnown DEF PlacesAre
<1>6. Place' = [Place EXCEPT ![w] = "ready"]
  BY <1>2, <1>4, <1>5, PlaceChanges
<1>7. On' = On
  BY <1>1, OnChanges
<1>8. QED
  BY <1>2, <1>3, <1>4, <1>6, <1>7 DEF LifeStep, Arrives

(* A process that is taken from the queue is dispatched, in queue order.    *)
LEMMA TakeDispatches ==
    ASSUME PlaceTypes, PlaceKnows, NEW c \in CPUs, Takes(c)
    PROVE  LifeStep
<1> USE PointersAreNotProcs
<1> DEFINE h == q_head
<1>1. /\ UNCHANGED <<state, waking, after>> /\ OthersStay(c)
      /\ \A d \in CPUs \ {c} : On'[d] = On[d]
      /\ On[c] = NULL /\ On'[c] = h /\ Get
  BY DEF Takes, OthersStay, Stays, WakeWaits
<1>2. On' = [On EXCEPT ![c] = h]
  BY <1>1, OnChanges
<1>3. CASE h = NULL
  <2>1. Queued' = Queued /\ Walk' = Walk
    BY <1>1, <1>3, TakesOne, WalkChanges DEF PlaceKnows, PlaceTypes
  <2>2. \A d \in CPUs : On'[d] = On[d]
    BY <1>1, <1>3
  <2>3. On' = On
    BY <2>2 DEF On
  <2>4. \A q \in Procs : Place'[q] = Place[q]
    BY <1>1, <2>1, <2>2, PlacesAreKnown DEF PlacesAre
  <2>5. QED
    BY <2>1, <2>3, <2>4, PlaceStays DEF LifeStep, Nothing
<1>4. CASE h # NULL
  <2>1. /\ h \in Queued /\ Queued' = Queued \ {h}
        /\ Walk # <<>> /\ h = Head(Walk) /\ Walk' = Tail(Walk)
    BY <1>1, <1>4, TakesOne, WalkChanges DEF PlaceKnows, PlaceTypes
  <2>2. h \in Procs
    BY <2>1 DEF Queued, Reach
  <2> HIDE DEF h
  <2>3. Place'[h] = "running"
    BY <1>1, <2>1, <2>2, PlacesAreKnown DEF PlacesAre
  <2>4. ASSUME NEW q \in Procs, q # h PROVE Place'[q] = Place[q]
    <3>1. \A d \in CPUs : On'[d] = q <=> On[d] = q
      BY <1>1, <2>4
    <3>2. q \in Queued' <=> q \in Queued
      BY <2>1, <2>4
    <3>3. QED
      BY <1>1, <3>1, <3>2, PlacesAreKnown DEF PlacesAre
  <2>5. Place' = [Place EXCEPT ![h] = "running"]
    BY <2>2, <2>3, <2>4, PlaceChanges
  <2>6. Dispatched(c)
    BY <1>1, <1>2, <2>1, <2>5 DEF Dispatched
  <2>7. QED
    BY <2>6 DEF LifeStep
<1>5. QED
  BY <1>3, <1>4

(* A process that yield() or terminate() marks departs.                     *)
LEMMA LeaveDeparts ==
    ASSUME PlaceTypes, PlaceKnows, NEW c \in CPUs, Leaves(c)
    PROVE  LifeStep
<1> USE PointersAreNotProcs
<1> DEFINE p == On[c]
           to == IF Told[c] = "CPU_YIELD" THEN "waiting" ELSE "terminated"
<1>1. /\ UNCHANGED <<waking, after>> /\ OthersStay(c)
      /\ \A d \in CPUs \ {c} : On'[d] = On[d]
      /\ p \in Procs /\ On'[c] = NULL
      /\ Queued' = Queued /\ ListStays
      /\ Told[c] \in {"CPU_YIELD", "CPU_TERMINATE"}
  BY DEF Leaves, OthersStay, Stays, WakeWaits, ListStays, Queued
<1>2. /\ \A q \in Procs : q # p => state'[q] = state[q]
      /\ state'[p] = IF to = "waiting" THEN "WAITING" ELSE "TERMINATED"
  BY <1>1 DEF Leaves, NewState, PlaceTypes
<1>3. /\ \A d \in CPUs : On[d] = p => d = c
      /\ p \notin Queued /\ waking = NULL
  BY <1>1 DEF PlaceKnows, OnKnows, QueueKnows, WakeKnows, PlaceTypes
<1>4. Walk' = Walk /\ On' = [On EXCEPT ![c] = NULL]
  BY <1>1, WalkChanges, OnChanges DEF PlaceKnows, PlaceTypes
<1> HIDE DEF p
<1>5. Place'[p] = to
  <2>1. \A d \in CPUs : On'[d] # p
    BY <1>1, <1>3
  <2>2. QED
    BY <1>1, <1>2, <1>3, <2>1, PlacesAreKnown DEF PlacesAre
<1>6. ASSUME NEW q \in Procs, q # p PROVE Place'[q] = Place[q]
  <2>1. \A d \in CPUs : On'[d] = q <=> On[d] = q
    BY <1>1, <1>6 DEF p
  <2>2. QED
    BY <1>1, <1>2, <1>6, <2>1, PlacesAreKnown DEF PlacesAre
<1>7. Place' = [Place EXCEPT ![p] = to]
  BY <1>1, <1>5, <1>6, PlaceChanges
<1>8. Departs(c, to)
  BY <1>1, <1>4, <1>7 DEF Departs, p
<1>9. QED
  BY <1>8 DEF LifeStep

(* No other step moves a process.                                           *)
LEMMA OthersDoNothing ==
    ASSUME PlaceTypes, PlaceKnows,
           \/ Quiet
           \/ \E c \in CPUs : \/ Marks(c)
                              \/ \E e \in {"CPU_YIELD", "CPU_TERMINATE"} :
                                    Posts(c, e)
           \/ \E p \in Procs : Completes(p)
           \/ Creates \/ Readies \/ Forgets \/ Counts
    PROVE  LifeStep
<1> USE PointersAreNotProcs
<1>1. ListStays /\ \A d \in CPUs : On'[d] = On[d]
  BY DEF Quiet, Marks, Posts, Completes, Creates, Readies, Forgets, Counts,
     AllStay, OthersStay, Stays
<1>2. Queued' = Queued /\ Walk' = Walk /\ On' = On
  <2>1. Queued' = Queued
    BY <1>1 DEF ListStays, Queued
  <2>2. Walk' = Walk
    BY <1>1, WalkChanges DEF PlaceKnows, PlaceTypes
  <2>3. On' = On
    BY <1>1 DEF On
  <2>4. QED
    BY <2>1, <2>2, <2>3
<1>3. ASSUME NEW q \in Procs,
             \/ UNCHANGED <<waking, after>> /\ state'[q] = state[q]
             \/ UNCHANGED <<waking, after>> /\ waking = q
             \/ waking # q /\ waking' # q /\ state'[q] = state[q]
             \/ q \in Queued
             \/ \E c \in CPUs : On[c] = q
      PROVE  Place'[q] = Place[q]
  BY <1>1, <1>2, <1>3, PlacesAreKnown DEF PlacesAre
<1>4. SUFFICES \A q \in Procs : Place'[q] = Place[q]
  BY <1>2, PlaceStays DEF LifeStep, Nothing
<1>5. CASE Quiet \/ \E c \in CPUs : \E e \in {"CPU_YIELD", "CPU_TERMINATE"} :
                                       Posts(c, e)
  BY <1>3, <1>5 DEF Quiet, Posts, WakeWaits
<1>6. ASSUME NEW c \in CPUs, Marks(c)
      PROVE  \A q \in Procs : Place'[q] = Place[q]
  <2>1. \A q \in Procs : (\A d \in CPUs : On[d] # q) => state'[q] = state[q]
    BY <1>6 DEF Marks
  <2>2. QED
    BY <1>3, <1>6, <2>1 DEF Marks, WakeWaits
<1>7. ASSUME NEW p \in Procs, Completes(p)
      PROVE  \A q \in Procs : Place'[q] = Place[q]
  <2>1. /\ state[p] = "WAITING" /\ p \notin Queued
        /\ \A c \in CPUs : On[c] # p
    BY <1>7, CompletedIsBlocked
  <2>2. /\ waking = NULL /\ waking' = p /\ after' = "creat"
        /\ state' = state
    BY <1>7 DEF Completes, PlaceKnows, WakeKnows
  <2>3. Place'[p] = "waiting" /\ Place[p] = "waiting"
    BY <1>1, <1>2, <2>1, <2>2, PlacesAreKnown DEF PlacesAre
  <2>4. QED
    BY <1>3, <2>2, <2>3
<1>8. CASE Creates
  <2>1. /\ state' = state /\ created \in Procs /\ created >= created
        /\ WakeStage = "none" /\ waking = NULL
        /\ waking' = created /\ after' = "created"
    BY <1>8 DEF Creates, PlaceKnows, WakeKnows, PlaceTypes
  <2>2. state[created] = "NEW"
    BY <2>1 DEF PlaceKnows, StateKnows
  <2>3. created \notin Queued /\ \A c \in CPUs : On[c] # created
    BY <2>1, <2>2 DEF PlaceKnows, QueueKnows, OnKnows
  <2>4. Place'[created] = "new" /\ Place[created] = "new"
    BY <1>1, <1>2, <2>1, <2>2, <2>3, PlacesAreKnown DEF PlacesAre
  <2>5. QED
    BY <1>3, <2>1, <2>4
<1>9. CASE Readies
  <2>1. /\ UNCHANGED <<waking, after>> /\ WakeStage = "coming"
        /\ waking \in Procs
        /\ state' = [state EXCEPT ![waking] = "READY"]
    BY <1>9 DEF Readies, PlaceKnows, WakeKnows
  <2>2. \A q \in Procs : q # waking => state'[q] = state[q]
    BY <2>1 DEF PlaceTypes
  <2>3. QED
    BY <1>3, <2>1, <2>2
<1>10. CASE Forgets
  <2>1. /\ state' = state /\ after' = after /\ WakeStage = "added"
        /\ waking' = NULL /\ waking \in Procs
        /\ state[waking] \in {"READY", "RUNNING"}
    BY <1>10 DEF Forgets, PlaceKnows, WakeKnows
  <2>2. waking \in Queued \/ \E c \in CPUs : On[c] = waking
    BY <2>1 DEF PlaceKnows, StateKnows, PlaceTypes
  <2>3. QED
    BY <1>3, <2>1, <2>2
<1>11. CASE Counts
  BY <1>3, <1>11 DEF Counts
<1>12. QED
  BY <1>5, <1>6, <1>7, <1>8, <1>9, <1>10, <1>11

(* In FIFO, until an event is missed, every process is in one place at a    *)
(* time, is dispatched in the order in which it became ready, and keeps its *)
(* CPU until it blocks or ends: every step of the threads is a step of      *)
(* ProcessLifecycle or none.                                                *)
THEOREM FifoImplementsLifecycle ==
    ASSUME FifoOnly
    PROVE  Spec => ImplementsLifecycle
<1>1. On = [c \in CPUs |-> OnCpu(c)] /\ Place = [p \in Procs |-> PlaceOf(p)]
  BY DEF On, Place
<1>2. Init => Lifecycle!LifeInit
  <2> SUFFICES ASSUME Init PROVE Lifecycle!LifeInit
    OBVIOUS
  <2>1. FifoInv
    BY FifoInvInit
  <2>2. q_head = NULL /\ \A p \in Procs : state[p] = "NEW"
    BY DEF Init, QueueInit
  <2>3. IsList(<<>>, q_head, next)
    <3>1. <<>> \in Seq(Procs) /\ Len(<<>>) = 0
      BY EmptySeq
    <3>2. QED
      BY <2>2, <3>1 DEF IsList
  <2>4. Walk = <<>> /\ Queued = {}
    <3>1. Elements(<<>>) = {}
      BY EmptySeq DEF Elements
    <3>2. QED
      BY <2>3, <3>1, WalkIsTheList, WalkVisitsList DEF Queued
  <2>5. \A c \in CPUs : OnCpu(c) = NULL
    <3>1. \A c \in CPUs : cpc[c] = "top" /\ current[c] \in {NULL, WILD}
      BY ParametersAreLegal DEF Init
    <3>2. QED
      BY <3>1, PointersAreNotProcs DEF OnCpu
  <2>6. \A p \in Procs : PlaceOf(p) = "new"
    <3>1. waking = NULL
      BY DEF Init
    <3>2. QED
      BY <2>2, <2>4, <2>5, <3>1, PointersAreNotProcs DEF PlaceOf
  <2>7. QED
    BY <2>4, <2>5, <2>6 DEF Lifecycle!LifeInit
<1>3. FifoInv /\ [Next]_vars
        => [missed' \/ Lifecycle!LifeNext]_(Lifecycle!lifeVars)
  <2> SUFFICES ASSUME FifoInv, [Next]_vars, ~missed'
               PROVE  [Lifecycle!LifeNext]_(Lifecycle!lifeVars)
    OBVIOUS
  <2>1. LifeStep
    BY EveryStep, PlacesAreTyped, AddArrives, TakeDispatches, LeaveDeparts,
       OthersDoNothing DEF FifoStep, FifoInv
  <2>2. timeslice' = timeslice
    BY FifoOthers, SupervisorOutside
       DEF FifoInv, Next, CpuNext, SupNext, Stopped, vars, configVars
  <2>3. /\ On' = [c \in CPUs |-> OnCpu(c)]'
        /\ Place' = [p \in Procs |-> PlaceOf(p)]'
    BY DEF On, Place
  <2>4. QED
    BY <1>1, <2>1, <2>2, <2>3
       DEF LifeStep, Nothing, Arrives, Dispatched, Departs,
           Lifecycle!LifeNext, Lifecycle!lifeVars, Lifecycle!Arrive,
           Lifecycle!Dispatch, Lifecycle!Leave
<1>4. QED
  BY <1>2, <1>3, FifoInvHolds, PTL DEF Spec, ImplementsLifecycle

=============================================================================
