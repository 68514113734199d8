-------------------------- MODULE ReadyQueueClient --------------------------
(***************************************************************************)
(* The ready queue used by one thread at a time, which is what addqueue()   *)
(* and get() ensure with ready_mutex and what gethighestone() needs: with   *)
(* it the linked list is a TaskQueue.  Scheduler shows what happens without.*)
(***************************************************************************)
EXTENDS ReadyQueue, FiniteSets

VARIABLES
    method,     \* the operation schedule() uses: "get" or "gethighestone"
    got         \* what the last one returned

clientVars == <<queueVars, method, got>>

ClientInit ==
    /\ QueueInit
    /\ method \in {"get", "gethighestone"}
    /\ got = NULL

(* No call is in progress.                                                  *)
Quiet == \A t \in CPUs : gpc[t] = "out"

(* addqueue() of a process that is not in the queue.                        *)
ClientAdd(p) ==
    /\ Quiet
    /\ p \notin Queued
    /\ AddQueue(p)
    /\ UNCHANGED <<ghVars, addVars, method, got>>

ClientGet ==
    /\ Quiet /\ method = "get"
    /\ got' = q_head
    /\ Get
    /\ UNCHANGED <<ghVars, addVars, method>>

ClientCall(t) ==
    /\ Quiet /\ method = "gethighestone"
    /\ GhCall(t)
    /\ UNCHANGED <<addVars, method, got>>

ClientStep(t) == GhStep(t) /\ UNCHANGED <<addVars, method, got>>

ClientReturn(t) ==
    /\ GhLeave(t)
    /\ got' = ghigh[t]
    /\ UNCHANGED <<addVars, method>>

ClientNext ==
    \/ \E p \in Procs : ClientAdd(p)
    \/ ClientGet
    \/ \E t \in CPUs : ClientCall(t) \/ ClientStep(t) \/ ClientReturn(t)

ClientSpec ==
    /\ ClientInit /\ [][ClientNext]_clientVars
    /\ \A t \in CPUs : WF_clientVars(ClientStep(t) \/ ClientReturn(t))

-----------------------------------------------------------------------------
(* The list, head first.                                                    *)
List ==
    CHOOSE q \in [1 .. Cardinality(Queued) -> Queued] :
        IsList(q, q_head, next)

(* The result counts from the statement that unlinks it.                    *)
Result ==
    IF \E t \in CPUs : gpc[t] = "done"
    THEN ghigh[CHOOSE t \in CPUs : gpc[t] = "done"]
    ELSE got

Tasks == INSTANCE TaskQueue WITH tasks <- List, taken <- Result

(* addqueue(), get() and gethighestone() implement TaskQueue: no process is *)
(* lost or duplicated, get() is first in first out, and gethighestone()     *)
(* returns the process of highest priority that came first.                 *)
ImplementsTaskQueue == Tasks!TasksSpec

(* gethighestone()'s two loops end, and it never dereferences NULL.         *)
HighestReturns == \A t \in CPUs : gpc[t] = "load" ~> gpc[t] = "done"

=============================================================================
