------------------------------ MODULE TaskQueue ------------------------------
(***************************************************************************)
(* What a ready queue promises its scheduler: processes leave it in the     *)
(* order of their arrival, or the one of highest priority leaves first and, *)
(* among equals, the one that arrived first.                                *)
(***************************************************************************)
EXTENDS Naturals, Sequences

CONSTANTS Procs, Priority, NULL

VARIABLES
    tasks,      \* the processes in it, in the order of their arrival
    taken       \* what the last take returned

InQueue == {tasks[i] : i \in DOMAIN tasks}

(* The place of the process of highest priority that has waited longest.    *)
HighestIndex ==
    CHOOSE i \in DOMAIN tasks :
        \A j \in DOMAIN tasks :
            \/ Priority[tasks[j]] < Priority[tasks[i]]
            \/ Priority[tasks[j]] = Priority[tasks[i]] /\ i <= j

Without(i) == SubSeq(tasks, 1, i - 1) \o SubSeq(tasks, i + 1, Len(tasks))

TasksInit == tasks = <<>> /\ taken = NULL

Add(p) ==
    /\ p \notin InQueue
    /\ tasks' = Append(tasks, p)
    /\ taken' = taken

TakeNothing == tasks = <<>> /\ taken' = NULL /\ tasks' = tasks

TakeAt(i) == taken' = tasks[i] /\ tasks' = Without(i)

TakeFirst == tasks # <<>> /\ TakeAt(1)

TakeHighest == tasks # <<>> /\ TakeAt(HighestIndex)

TasksNext ==
    \/ \E p \in Procs : Add(p)
    \/ TakeNothing \/ TakeFirst \/ TakeHighest

TasksSpec == TasksInit /\ [][TasksNext]_<<tasks, taken>>

=============================================================================
