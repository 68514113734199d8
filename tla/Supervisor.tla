----------------------------- MODULE Supervisor -----------------------------
(***************************************************************************)
(* The steps of the supervisor thread: one tick of                          *)
(* simulator_supervisor_thread() in os-sim.c, with wake_up() of student.c,  *)
(* which it calls, and force_preempt(), which wake_up() calls.              *)
(*                                                                         *)
(* A tick may begin at any time: mt_safe_usleep(1) sleeps a microsecond     *)
(* where the comments speak of 100ms.  Two history variables keep what that *)
(* entails: hurried, that a tick began before all CPU threads were at rest, *)
(* and missed, that an event was posted to one that did not wait for it.    *)
(***************************************************************************)
EXTENDS SimState

SupGoto(from, to) == spc = from /\ spc' = to

(* What the supervisor seldom or never writes, and groups of what it does.  *)
outsideSup == <<ghVars, configVars, current, simCurrent, event, pcb>>
aside == <<addVars, missed, hurried>>
supLocals == <<n, waking, after, lows, stop>>
sharedVars == <<q_head, next, state, simState, timer, cpc>>

(* The loop's head: lock simulator_mutex, exit if all have terminated.      *)
Tick ==
    /\ SupGoto("tick", IF terminated >= PROCESS_COUNT THEN "exit" ELSE "print")
    /\ hurried' = (hurried \/ \E c \in CPUs : ~Settled(c))
    /\ UNCHANGED <<outsideSup, addVars, missed, supLocals, sharedVars,
                   programVars, countVars, writers>>

(* print_gantt_line(), under the reader's side of student_lock.             *)
PrintGantt ==
    /\ SupGoto("print", "cpus")
    /\ writers <= 0
    /\ n' = 0
    /\ UNCHANGED <<outsideSup, aside, waking, after, lows, stop, sharedVars,
                   programVars, countVars, writers>>

-----------------------------------------------------------------------------
(* simulate_cpus(), CPU n, and simulate_process(n, simCurrent[n]).          *)
Op(p) == ops[p][pc[p]]

MoveOn(p) ==
    /\ pc' = [pc EXCEPT ![p] = @ + 1]
    /\ left' = [left EXCEPT ![p] = ops[p][pc[p] + 1].time]

(* An event for CPU c, by its state and a signal, which is lost where its   *)
(* thread does not wait.                                                    *)
Signal(c, e) ==
    /\ simState' = [simState EXCEPT ![c] = e]
    /\ missed' = (missed \/ cpc[c] # "parked")

(* Mutant of Post: the supervisor does not wait for the scheduler to run.   *)
PostWithoutWaiting(e) ==
    /\ Signal(n, e)
    /\ spc' = "cpus" /\ n' = n + 1

(* Post an event to CPU n and wait on wakeup[n] for its scheduler to run.   *)
(* Nothing tests that the CPU thread is waiting for events.                 *)
Post(e) ==
    /\ Signal(n, e)
    /\ spc' = "await" /\ n' = n

NextCpu == n' = n + 1 /\ spc' = "cpus"

Simulate(p) ==
    /\ spc = "cpus" /\ n < cpu_count
    /\ simCurrent[n] = p
    /\ UNCHANGED <<outsideSup, addVars, hurried, waking, after, lows, stop,
                   q_head, next, state, countVars, writers, cpc>>

(* No process to simulate on this CPU.                                      *)
SkipCpu ==
    /\ spc = "cpus" /\ n < cpu_count
    /\ simCurrent[n] = NULL
    /\ NextCpu
    /\ UNCHANGED <<outsideSup, aside, waking, after, lows, stop, sharedVars,
                   countVars, writers, programVars>>

(* A tick of a CPU burst; the timer may fire.                               *)
Burst(p) ==
    /\ Simulate(p)
    /\ Op(p).type = "OP_CPU" /\ left[p] > 0
    /\ left' = [left EXCEPT ![p] = @ - 1]
    /\ timer' = [timer EXCEPT ![n] = CountDown(@)]
    /\ IF timer[n] = 1 THEN Post("CPU_PREEMPT")
                       ELSE NextCpu /\ UNCHANGED <<simState, missed>>
    /\ UNCHANGED <<pc, ioQueue>>

(* The burst is over and an I/O operation follows: submit_io_request(),     *)
(* then yield.                                                              *)
BurstToIo(p) ==
    /\ Simulate(p)
    /\ Op(p).type = "OP_CPU" /\ left[p] = 0
    /\ ops[p][pc[p] + 1].type = "OP_IO"
    /\ MoveOn(p)
    /\ ioQueue' = Append(ioQueue,
                         [pcb |-> p, time |-> ops[p][pc[p] + 1].time])
    /\ Post("CPU_YIELD")
    /\ UNCHANGED timer

BurstToEnd(p) ==
    /\ Simulate(p)
    /\ Op(p).type = "OP_CPU" /\ left[p] = 0
    /\ ops[p][pc[p] + 1].type = "OP_TERMINATE"
    /\ MoveOn(p)
    /\ Post("CPU_TERMINATE")
    /\ UNCHANGED <<timer, ioQueue>>

(* "Scheduled a process that's blocked on I/O", "a terminated process".     *)
NotRunnable(p) ==
    /\ Simulate(p)
    /\ Op(p).type # "OP_CPU"
    /\ NextCpu
    /\ UNCHANGED <<simState, missed, timer, programVars>>

(* The CPU's scheduler has run: the wait returns with simulator_mutex.      *)
Resume ==
    /\ spc = "resume"
    /\ NextCpu
    /\ UNCHANGED <<outsideSup, aside, waking, after, lows, stop, sharedVars,
                   programVars, countVars, writers>>

CpusDone ==
    /\ SupGoto("cpus", "io")
    /\ n = cpu_count
    /\ UNCHANGED <<outsideSup, aside, supLocals, sharedVars, programVars,
                   countVars, writers>>

-----------------------------------------------------------------------------
(* simulate_io(): execution_time is unsigned, so the test is for zero.      *)
IoIdle ==
    /\ SupGoto("io", "creat")
    /\ ioQueue = <<>>
    /\ UNCHANGED <<outsideSup, aside, supLocals, sharedVars, programVars,
                   countVars, writers>>

IoTick ==
    /\ SupGoto("io", "creat")
    /\ ioQueue # <<>> /\ Head(ioQueue).time > 0
    /\ ioQueue' = [ioQueue EXCEPT ![1].time = @ - 1]
    /\ UNCHANGED <<outsideSup, aside, supLocals, sharedVars, pc, left,
                   countVars, writers>>

(* Mutant of IoComplete: the request stays at the head of the queue.        *)
IoCompleteStays ==
    /\ SupGoto("io", "wake")
    /\ ioQueue # <<>> /\ Head(ioQueue).time = 0
    /\ MoveOn(Head(ioQueue).pcb)
    /\ waking' = Head(ioQueue).pcb /\ after' = "creat"
    /\ UNCHANGED <<outsideSup, aside, n, lows, stop, q_head, next, ioQueue,
                   state, simState, timer, countVars, writers, cpc>>

IoComplete ==
    /\ SupGoto("io", "wake")
    /\ ioQueue # <<>> /\ Head(ioQueue).time = 0
    /\ MoveOn(Head(ioQueue).pcb)
    /\ waking' = Head(ioQueue).pcb /\ after' = "creat"
    /\ ioQueue' = Tail(ioQueue)
    /\ UNCHANGED <<outsideSup, aside, n, lows, stop, sharedVars, countVars,
                   writers>>

(* Mutant of Creat: processes are created for ever.                         *)
CreatUnbounded ==
    /\ spc = "creat"
    /\ IF clock = 0
       THEN spc' = "wake" /\ waking' = created /\ after' = "created"
       ELSE spc' = "end" /\ UNCHANGED <<waking, after>>
    /\ UNCHANGED <<outsideSup, aside, n, lows, stop, q_head, next, state,
                   simState, timer, programVars, countVars, writers, cpc>>

(* simulate_creat()                                                         *)
Creat ==
    /\ spc = "creat"
    /\ IF clock = 0 /\ created < PROCESS_COUNT
       THEN spc' = "wake" /\ waking' = created /\ after' = "created"
       ELSE spc' = "end" /\ UNCHANGED <<waking, after>>
    /\ UNCHANGED <<outsideSup, aside, n, lows, stop, sharedVars, programVars,
                   countVars, writers>>

(* simulator_time++, unlock, sleep.                                         *)
EndTick ==
    /\ SupGoto("end", "tick")
    /\ clock' = (clock + 1) % CREATE_PERIOD
    /\ UNCHANGED <<outsideSup, aside, supLocals, sharedVars, programVars,
                   created, terminated, writers>>

-----------------------------------------------------------------------------
(* The call of wake_up(waking): simulator_mutex is released and student_lock*)
(* write-locked.                                                            *)
WakeEnter ==
    /\ SupGoto("wake", "wake_ready")
    /\ WriterLock
    /\ UNCHANGED <<outsideSup, aside, supLocals, sharedVars, programVars,
                   countVars>>

WakeReady ==
    /\ SupGoto("wake_ready", "wake_add")
    /\ state' = [state EXCEPT ![waking] = "READY"]
    /\ UNCHANGED <<outsideSup, aside, supLocals, q_head, next, simState, timer,
                   programVars, countVars, writers, cpc>>

(* addqueue(process), as in preempt(); wake_up() goes on to the scan under  *)
(* -p only.                                                                 *)
WakeAdd ==
    /\ ~static_prior
    /\ spc = "wake_add"
    /\ ReadyMutexFree
    /\ IF AddQueueSpins(waking)
       THEN /\ spc' = "spin"
            /\ next' = [next EXCEPT ![waking] = NULL]
            /\ UNCHANGED <<q_head, cpc>>
       ELSE /\ AddQueue(waking)
            /\ cpc' = Broadcast(cpc)
            /\ spc' = "wake_leave"
    /\ UNCHANGED <<outsideSup, aside, supLocals, state, simState, timer,
                   programVars, countVars, writers>>

WakeAddBesideGh ==
    /\ static_prior
    /\ \/ /\ SupGoto("wake_add", "wake_adding")
          /\ ReadyMutexFree
          /\ AddCall
          /\ UNCHANGED cpc
       \/ /\ spc = "wake_adding"
          /\ AddStep(waking)
          /\ IF apc' = "out" THEN spc' = "scan" /\ cpc' = Broadcast(cpc)
                             ELSE UNCHANGED <<spc, cpc>>
    /\ n' = 0 /\ lows' = 10
    /\ UNCHANGED <<outsideSup, missed, hurried, waking, after, stop, state,
                   simState, timer, programVars, countVars, writers>>

(* The scan of current[] for the lowest priority, one element: the test for *)
(* NULL ends it, the next statement dereferences.                           *)
ScanTest ==
    /\ spc = "scan" /\ n < cpu_count
    /\ spc' = IF current[n] = NULL THEN "wake_leave" ELSE "scan_cmp"
    /\ UNCHANGED <<outsideSup, aside, supLocals, sharedVars, programVars,
                   countVars, writers>>

(* What the dereference may read: uninitialised memory in current[] may be  *)
(* an address that holds anything, or none.                                 *)
PriorityRead(q) ==
    IF q = WILD THEN 0 .. 10 ELSE {Priority[p] : p \in {q} \cap Procs}

(* if (current[i]->static_priority < lows) ...                              *)
ScanCompare ==
    /\ spc = "scan_cmp"
    /\ \/ /\ current[n] \notin Procs
          /\ spc' = "fault" /\ n' = n
       \/ \E level \in PriorityRead(current[n]) :
             IF level < lows THEN spc' = "scan_take" /\ n' = n
                             ELSE spc' = "scan" /\ n' = n + 1
    /\ UNCHANGED <<outsideSup, aside, waking, after, lows, stop, sharedVars,
                   programVars, countVars, writers>>

(* ... reads current[i] once more: lows = current[i]->static_priority.      *)
ScanTake ==
    /\ spc = "scan_take"
    /\ \/ /\ current[n] \notin Procs
          /\ spc' = "fault" /\ UNCHANGED <<n, lows, stop>>
       \/ /\ spc' = "scan"
          /\ lows' \in PriorityRead(current[n])
          /\ stop' = n /\ n' = n + 1
    /\ UNCHANGED <<outsideSup, aside, waking, after, sharedVars, programVars,
                   countVars, writers>>

ScanDone ==
    /\ n = cpu_count
    /\ SupGoto("scan",
               IF lows < Priority[waking] THEN "fp_unlock" ELSE "wake_leave")
    /\ UNCHANGED <<outsideSup, aside, supLocals, sharedVars, programVars,
                   countVars, writers>>

(* force_preempt(stop)                                                      *)
ForceUnlock ==
    /\ SupGoto("fp_unlock", "fp_lock")
    /\ WriterUnlock
    /\ n' = stop
    /\ UNCHANGED <<outsideSup, aside, waking, after, lows, stop, sharedVars,
                   programVars, countVars>>

ForcePost ==
    /\ spc = "fp_lock"
    /\ IF simState[n] = "CPU_RUNNING"
       THEN spc' = "fp_await" /\ Signal(n, "CPU_PREEMPT")
       ELSE spc' = "fp_relock" /\ UNCHANGED <<simState, missed>>
    /\ UNCHANGED <<outsideSup, addVars, hurried, supLocals, q_head, next,
                   state, timer, programVars, countVars, writers, cpc>>

ForceResume ==
    /\ SupGoto("fp_resume", "fp_relock")
    /\ UNCHANGED <<outsideSup, aside, supLocals, sharedVars, programVars,
                   countVars, writers>>

ForceRelock ==
    /\ SupGoto("fp_relock", "wake_leave")
    /\ WriterLock
    /\ UNCHANGED <<outsideSup, aside, supLocals, sharedVars, programVars,
                   countVars>>

(* wake_up() has returned: its locals die.                                  *)
WakeLeave ==
    /\ SupGoto("wake_leave", "wake_ret")
    /\ WriterUnlock
    /\ waking' = NULL /\ lows' = 10 /\ stop' = 0 /\ n' = 0
    /\ UNCHANGED <<outsideSup, aside, after, sharedVars, programVars,
                   countVars>>

(* simulator_mutex again; simulate_creat() counts its process only now.     *)
WakeReturn ==
    /\ spc = "wake_ret"
    /\ IF after = "created"
       THEN spc' = "end" /\ created' = created + 1
       ELSE spc' = "creat" /\ UNCHANGED created
    /\ UNCHANGED <<outsideSup, aside, supLocals, sharedVars, programVars, clock,
                   terminated, writers>>

SupStep ==
    \/ Tick \/ PrintGantt \/ EndTick
    \/ SkipCpu \/ Resume \/ CpusDone
    \/ \E p \in Procs : Burst(p) \/ BurstToIo(p) \/ BurstToEnd(p)
                        \/ NotRunnable(p)
    \/ IoIdle \/ IoTick \/ IoComplete \/ Creat
    \/ WakeEnter \/ WakeReady \/ WakeAdd \/ WakeAddBesideGh
    \/ WakeLeave \/ WakeReturn
    \/ ScanTest \/ ScanCompare \/ ScanTake \/ ScanDone
    \/ ForceUnlock \/ ForcePost \/ ForceResume \/ ForceRelock

=============================================================================
