-------------------------- MODULE ProcessLifecycle --------------------------
(***************************************************************************)
(* What a FIFO or round-robin scheduler promises, whatever its threads,     *)
(* locks and lists: every process is in one place at a time, processes are  *)
(* dispatched in the order in which they became ready, and one that runs    *)
(* keeps its CPU unless the scheduler is preemptive.                        *)
(***************************************************************************)
EXTENDS Naturals, Sequences

CONSTANTS Procs, CPUs, NULL

VARIABLES
    queue,      \* the ready processes, in the order of their arrival
    running,    \* the process each CPU runs, or NULL
    place,      \* where each process is in its life
    preemptive

lifeVars == <<queue, running, place, preemptive>>

LifeInit ==
    /\ queue = <<>>
    /\ running = [c \in CPUs |-> NULL]
    /\ place = [p \in Procs |-> "new"]
    /\ preemptive \in BOOLEAN

(* A process is created, or its I/O is complete.                            *)
Arrive(p) ==
    /\ place[p] \in {"new", "waiting"}
    /\ place' = [place EXCEPT ![p] = "ready"]
    /\ queue' = Append(queue, p)
    /\ UNCHANGED <<running, preemptive>>

Dispatch(c) ==
    /\ running[c] = NULL /\ queue # <<>>
    /\ running' = [running EXCEPT ![c] = Head(queue)]
    /\ place' = [place EXCEPT ![Head(queue)] = "running"]
    /\ queue' = Tail(queue)
    /\ UNCHANGED preemptive

Preempt(c) ==
    /\ preemptive /\ running[c] # NULL
    /\ queue' = Append(queue, running[c])
    /\ place' = [place EXCEPT ![running[c]] = "ready"]
    /\ running' = [running EXCEPT ![c] = NULL]
    /\ UNCHANGED preemptive

(* The process blocks on I/O or terminates.                                 *)
Leave(c, to) ==
    /\ running[c] # NULL
    /\ place' = [place EXCEPT ![running[c]] = to]
    /\ running' = [running EXCEPT ![c] = NULL]
    /\ UNCHANGED <<queue, preemptive>>

LifeNext ==
    \/ \E p \in Procs : Arrive(p)
    \/ \E c \in CPUs : Dispatch(c) \/ Preempt(c)
                       \/ Leave(c, "waiting") \/ Leave(c, "terminated")

LifeSpec == LifeInit /\ [][LifeNext]_lifeVars

=============================================================================
