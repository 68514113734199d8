----------------------------- MODULE CpuThread -----------------------------
(***************************************************************************)
(* The steps of a CPU thread c: the loop of simulator_cpu_thread() in       *)
(* os-sim.c and the handlers of student.c it calls, idle(), preempt(),      *)
(* yield() and terminate(), down to context_switch().                       *)
(***************************************************************************)
EXTENDS SimState

Step(c, from, to) ==
    /\ cpc[c] = from
    /\ cpc' = [cpc EXCEPT ![c] = to]

(* Mutant of LoopTop: the supervisor is not signalled.                      *)
LoopTopWithoutSignal(c) ==
    /\ cpc[c] = "top"
    /\ SimMutexFree
    /\ event' = [event EXCEPT ![c] = "CPU_IDLE"]
    /\ IF simCurrent[c] = NULL
       THEN /\ simState' = [simState EXCEPT ![c] = "CPU_IDLE"]
            /\ cpc' = [cpc EXCEPT ![c] = "idle"]
       ELSE /\ simState' = [simState EXCEPT ![c] = "CPU_RUNNING"]
            /\ cpc' = [cpc EXCEPT ![c] = "parked"]
    /\ UNCHANGED <<supVars, pcb, simCurrent, timer, queueVars, configVars,
                   studentVars, programVars, countVars, writers>>

(* Mutant of LoopTop: idle() is called with a process on the CPU too.       *)
LoopTopIdles(c) ==
    /\ Step(c, "top", "idle")
    /\ SimMutexFree
    /\ spc' = IF spc = "await" /\ n = c THEN "resume" ELSE spc
    /\ event' = [event EXCEPT ![c] = "CPU_IDLE"]
    /\ simState' = [simState EXCEPT ![c] = "CPU_IDLE"]
    /\ UNCHANGED <<n, waking, after, lows, stop, missed, hurried, pcb,
                   simCurrent, timer, queueVars, configVars, studentVars,
                   programVars, countVars, writers>>

(* The top of the loop, up to the wait for an event.  The signal reaches    *)
(* the supervisor if it waits on this CPU's wakeup.  The local variable     *)
(* state (event) is dead while the thread is parked.                        *)
LoopTop(c) ==
    /\ cpc[c] = "top"
    /\ SimMutexFree
    /\ spc' = IF n # c THEN spc
              ELSE IF spc = "await" THEN "resume"
              ELSE IF spc = "fp_await" THEN "fp_resume"
              ELSE spc
    /\ event' = [event EXCEPT ![c] = "CPU_IDLE"]
    /\ IF simCurrent[c] = NULL
       THEN /\ simState' = [simState EXCEPT ![c] = "CPU_IDLE"]
            /\ cpc' = [cpc EXCEPT ![c] = "idle"]
       ELSE /\ simState' = [simState EXCEPT ![c] = "CPU_RUNNING"]
            /\ cpc' = [cpc EXCEPT ![c] = "parked"]
    /\ UNCHANGED <<n, waking, after, lows, stop, missed, hurried, pcb,
                   simCurrent, timer, queueVars, configVars, studentVars,
                   programVars, countVars, writers>>

(* Mutant of Dispatch: the case CPU_YIELD falls through into CPU_TERMINATE. *)
DispatchFallsThrough(c) ==
    /\ Step(c, "parked",
            IF simState[c] = "CPU_PREEMPT" THEN "enter" ELSE "count")
    /\ simState[c] # "CPU_RUNNING"
    /\ SimMutexFree
    /\ event' = [event EXCEPT ![c] = simState[c]]
    /\ UNCHANGED <<pcb, supVars, queueVars, configVars, studentVars,
                   simCpuVars, programVars, countVars, writers>>

(* The wait ends.  An event is always posted with a signal, and no other    *)
(* thread waits on wakeup then, so a parked thread whose state has changed  *)
(* has been signalled.                                                      *)
Dispatch(c) ==
    /\ Step(c, "parked",
            IF simState[c] = "CPU_TERMINATE" THEN "count" ELSE "enter")
    /\ simState[c] # "CPU_RUNNING"
    /\ SimMutexFree
    /\ event' = [event EXCEPT ![c] = simState[c]]
    /\ UNCHANGED <<pcb, supVars, queueVars, configVars, studentVars,
                   simCpuVars, programVars, countVars, writers>>

(* Mutant of CountTerminated: the increment is lost.                        *)
CountTerminatedLost(c) ==
    /\ Step(c, "count", "enter")
    /\ SimMutexFree
    /\ UNCHANGED <<event, pcb, supVars, queueVars, configVars, studentVars,
                   simCpuVars, programVars, countVars, writers>>

(* processes_terminated++                                                   *)
CountTerminated(c) ==
    /\ Step(c, "count", "enter")
    /\ SimMutexFree
    /\ terminated' = terminated + 1
    /\ UNCHANGED <<event, pcb, supVars, queueVars, configVars, studentVars,
                   simCpuVars, programVars, clock, created, writers>>

EnterHandler(c) ==
    /\ Step(c, "enter", "handler")
    /\ WriterLock
    /\ UNCHANGED <<event, pcb, supVars, queueVars, configVars, studentVars,
                   simCpuVars, programVars, countVars>>

(* Mutant of NewState: yield() leaves the process READY.                    *)
NewStateReady(e) == IF e = "CPU_TERMINATE" THEN "TERMINATED" ELSE "READY"

NewState(e) == CASE e = "CPU_PREEMPT" -> "READY"
                 [] e = "CPU_YIELD" -> "WAITING"
                 [] e = "CPU_TERMINATE" -> "TERMINATED"

(* preempt(), yield(), terminate(): the section under current_mutex.        *)
Handler(c) ==
    /\ Step(c, "handler",
            IF event[c] = "CPU_PREEMPT" THEN "requeue" ELSE "select")
    /\ CurrentMutexFree
    /\ pcb' = [pcb EXCEPT ![c] = current[c]]
    /\ state' = [state EXCEPT ![current[c]] = NewState(event[c])]
    /\ UNCHANGED <<event, supVars, queueVars, configVars, current,
                   simCpuVars, programVars, countVars, writers>>

(* preempt()'s addqueue(pcblock): one step where everyone who touches the   *)
(* list holds ready_mutex ...                                               *)
Requeue(c) ==
    /\ ~static_prior
    /\ cpc[c] = "requeue"
    /\ ReadyMutexFree
    /\ IF AddQueueSpins(pcb[c])
       THEN /\ cpc' = [cpc EXCEPT ![c] = "spin"]
            /\ next' = [next EXCEPT ![pcb[c]] = NULL]
            /\ UNCHANGED q_head
       ELSE /\ AddQueue(pcb[c])
            /\ cpc' = Broadcast([cpc EXCEPT ![c] = "select"])
    /\ UNCHANGED <<event, pcb, supVars, ghVars, addVars, configVars,
                   studentVars, simCpuVars, programVars, countVars, writers>>

(* ... and several beside gethighestone().                                  *)
RequeueBesideGh(c) ==
    /\ static_prior
    /\ \/ /\ Step(c, "requeue", "adding")
          /\ ReadyMutexFree
          /\ AddCall
       \/ /\ cpc[c] = "adding"
          /\ AddStep(pcb[c])
          /\ cpc' = IF apc' = "out"
                    THEN Broadcast([cpc EXCEPT ![c] = "select"]) ELSE cpc
    /\ UNCHANGED <<event, pcb, supVars, ghVars, configVars, studentVars,
                   simCpuVars, programVars, countVars, writers>>

(* idle(): one test of while (q_head == NULL) under ready_mutex.            *)
Idle(c) ==
    /\ ReadyMutexFree
    /\ Step(c, "idle", IF q_head = NULL THEN "idle_wait" ELSE "select")
    /\ UNCHANGED <<event, pcb, supVars, queueVars, configVars, studentVars,
                   simCpuVars, programVars, countVars, writers>>

(* schedule(): the process is taken by get() ...                            *)
SelectFirst(c) ==
    /\ ~static_prior
    /\ Step(c, "select", "setrun")
    /\ ReadyMutexFree
    /\ pcb' = [pcb EXCEPT ![c] = q_head]
    /\ Get
    /\ UNCHANGED <<event, supVars, ghVars, addVars, configVars, studentVars,
                   simCpuVars, programVars, countVars, writers>>

(* ... or by gethighestone(), under no lock.                                *)
SelectHighest(c) ==
    /\ static_prior
    /\ \/ /\ Step(c, "select", "gh")
          /\ GhCall(c)
          /\ UNCHANGED pcb
       \/ /\ cpc[c] = "gh"
          /\ GhStep(c)
          /\ UNCHANGED <<cpc, pcb>>
       \/ /\ Step(c, "gh", "setrun")
          /\ GhLeave(c)
          /\ pcb' = [pcb EXCEPT ![c] = ghigh[c]]
    /\ UNCHANGED <<event, supVars, addVars, configVars, studentVars,
                   simCpuVars, programVars, countVars, writers>>

(* Mutant of SetRunning: current[] is not updated.                          *)
SetRunningForgetsCurrent(c) ==
    /\ Step(c, "setrun", "cs_unlock")
    /\ ReadyMutexFree
    /\ state' = [p \in Procs |-> IF p = pcb[c] THEN "RUNNING" ELSE state[p]]
    /\ UNCHANGED <<event, pcb, supVars, queueVars, configVars, current,
                   simCpuVars, programVars, countVars, writers>>

(* schedule(): the section under ready_mutex.                               *)
SetRunning(c) ==
    /\ Step(c, "setrun", "cs_unlock")
    /\ ReadyMutexFree
    /\ state' = [p \in Procs |-> IF p = pcb[c] THEN "RUNNING" ELSE state[p]]
    /\ current' = [current EXCEPT ![c] = pcb[c]]
    /\ UNCHANGED <<event, pcb, supVars, queueVars, configVars,
                   simCpuVars, programVars, countVars, writers>>

(* context_switch(): IRWL_WRITER_UNLOCK, which idle() has not locked, the   *)
(* section under simulator_mutex, and IRWL_WRITER_LOCK.                     *)
SwitchUnlock(c) ==
    /\ Step(c, "cs_unlock", "cs_set")
    /\ WriterUnlock
    /\ UNCHANGED <<event, pcb, supVars, queueVars, configVars, studentVars,
                   simCpuVars, programVars, countVars>>

(* Mutant of SwitchSet: selecting the idle process leaves the CPU's         *)
(* previous process in place.                                               *)
SwitchSetIgnoresNull(c) ==
    /\ Step(c, "cs_set", "cs_lock")
    /\ SimMutexFree
    /\ simCurrent' = IF pcb[c] = NULL THEN simCurrent
                     ELSE [simCurrent EXCEPT ![c] = pcb[c]]
    /\ timer' = [timer EXCEPT ![c] = timeslice]
    /\ pcb' = [pcb EXCEPT ![c] = NULL]
    /\ UNCHANGED <<event, supVars, queueVars, configVars, studentVars,
                   simState, programVars, countVars, writers>>

SwitchSet(c) ==
    /\ Step(c, "cs_set", "cs_lock")
    /\ SimMutexFree
    /\ simCurrent' = [simCurrent EXCEPT ![c] = pcb[c]]
    /\ timer' = [timer EXCEPT ![c] = timeslice]
    /\ pcb' = [pcb EXCEPT ![c] = NULL]
    /\ UNCHANGED <<event, supVars, queueVars, configVars, studentVars,
                   simState, programVars, countVars, writers>>

SwitchLock(c) ==
    /\ Step(c, "cs_lock", IF event[c] = "CPU_IDLE" THEN "top" ELSE "leave")
    /\ WriterLock
    /\ UNCHANGED <<event, pcb, supVars, queueVars, configVars, studentVars,
                   simCpuVars, programVars, countVars>>

(* Mutant of LeaveHandler: student_lock stays locked.                       *)
LeaveHandlerLocked(c) ==
    /\ Step(c, "leave", "top")
    /\ UNCHANGED <<event, pcb, supVars, queueVars, configVars, studentVars,
                   simCpuVars, programVars, countVars, writers>>

(* The handler has returned: IRWL_WRITER_UNLOCK.                            *)
LeaveHandler(c) ==
    /\ Step(c, "leave", "top")
    /\ WriterUnlock
    /\ UNCHANGED <<event, pcb, supVars, queueVars, configVars, studentVars,
                   simCpuVars, programVars, countVars>>

CpuStep(c) ==
    \/ LoopTop(c) \/ Dispatch(c) \/ CountTerminated(c) \/ EnterHandler(c)
    \/ Handler(c) \/ Requeue(c) \/ RequeueBesideGh(c) \/ Idle(c)
    \/ SelectFirst(c) \/ SelectHighest(c) \/ SetRunning(c)
    \/ SwitchUnlock(c) \/ SwitchSet(c) \/ SwitchLock(c) \/ LeaveHandler(c)

=============================================================================
