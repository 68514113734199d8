------------------------------ MODULE SimState ------------------------------
(***************************************************************************)
(* The state of Project-6-Scheduling that its threads share: the library    *)
(* (os-sim.c), the scheduler (student.c), the programs (process.c) and the  *)
(* locks between them.  CpuThread and Supervisor hold the actions of the    *)
(* two kinds of threads, Scheduler composes them.                           *)
(*                                                                         *)
(* A mutex needs no variable of its own.  A critical section without a wait *)
(* in it is one step; the supervisor holds simulator_mutex over several     *)
(* steps, addqueue() holds ready_mutex for ever when its walk does not end, *)
(* and wake_up() holds current_mutex while it scans: each is a set of       *)
(* values of a program counter.                                            *)
(***************************************************************************)
EXTENDS ReadyQueue, Integers, Sequences, FiniteSets

CONSTANTS
    cpu_count,      \* argv[1]
    PROCESS_COUNT,
    Programs,       \* what the processes may run: sequences of [type, time]
    CREATE_PERIOD,  \* ticks between two creations, 10 in the code
    CommandLines,   \* what main() may read: [static_prior, timeslice]
    Garbage         \* what malloc() may leave in current[]

ASSUME CpusAreNumbered ==
    cpu_count \in Nat \ {0} /\ CPUs = 0 .. cpu_count - 1

ASSUME ProcsAreNumbered ==
    PROCESS_COUNT \in Nat /\ Procs = 0 .. PROCESS_COUNT - 1

OpTypes == {"OP_CPU", "OP_IO", "OP_TERMINATE"}

(* process.c:13: operations alternate OP_CPU, OP_IO, OP_CPU, ..., the first *)
(* and the last but one are OP_CPU, and the last is OP_TERMINATE.           *)
LegalProgram(prog) ==
    /\ prog \in Seq([type : OpTypes, time : Nat])
    /\ Len(prog) >= 2 /\ Len(prog) % 2 = 0
    /\ \A k \in 1 .. Len(prog) :
         prog[k].type = IF k % 2 = 1 THEN "OP_CPU"
                        ELSE IF k = Len(prog) THEN "OP_TERMINATE"
                        ELSE "OP_IO"

ASSUME ProgramsAlternate == \A prog \in Programs : LegalProgram(prog)

ASSUME ParametersAreLegal ==
    /\ CREATE_PERIOD \in Nat \ {0}
    /\ CommandLines \subseteq [static_prior : BOOLEAN, timeslice : Int]
    /\ Garbage \subseteq {NULL, WILD}

VARIABLES
    static_prior, timeslice,                \* student.c: the command line
    ops,                                    \* process.c: the programs
    current, state,                         \* student.c: current[], pcb->state
    simCurrent, simState, timer,            \* os-sim.c: simulator_cpu_data[]
    pc, left,                               \* pcb->pc, and pc->time
    ioQueue,                                \* the I/O queue, head first
    clock,                                  \* simulator_time % CREATE_PERIOD
    created, terminated,                    \* processes_created, _terminated
    writers,                                \* student_lock.writers
    cpc, event, pcb,                        \* a CPU thread: pc and locals
    spc, n, waking, after, lows, stop,      \* the supervisor: pc and locals
    missed,     \* history: an event was posted to a thread not waiting for one
    hurried     \* history: a tick began before every CPU thread was at rest

configVars == <<static_prior, timeslice, ops>>
studentVars == <<current, state>>
simCpuVars == <<simCurrent, simState, timer>>
programVars == <<pc, left, ioQueue>>
countVars == <<clock, created, terminated>>
cpuVars == <<cpc, event, pcb>>
supVars == <<spc, n, waking, after, lows, stop, missed, hurried>>
vars == <<queueVars, configVars, studentVars, simCpuVars, programVars,
          countVars, writers, cpuVars, supVars>>

ProcessStates == {"NEW", "READY", "RUNNING", "WAITING", "TERMINATED"}
Events == {"CPU_PREEMPT", "CPU_YIELD", "CPU_TERMINATE"}
CpuStates == Events \cup {"CPU_IDLE", "CPU_RUNNING"}

CpuLabels == {"top", "parked", "count", "enter", "handler", "requeue", "adding",
              "idle", "idle_wait", "select", "gh", "setrun",
              "cs_unlock", "cs_set", "cs_lock", "leave", "spin"}

SupLabels == {"tick", "print", "cpus", "await", "resume", "io", "creat",
              "wake", "wake_ready", "wake_add", "wake_adding",
              "scan", "scan_cmp", "scan_take",
              "fp_unlock", "fp_lock", "fp_await", "fp_resume", "fp_relock",
              "wake_leave", "wake_ret", "end", "exit", "spin", "fault"}

SharedTypeOK ==
    /\ static_prior \in BOOLEAN /\ timeslice \in Int
    /\ ops \in [Procs -> Programs]
    /\ current \in [CPUs -> Pointers \cup {WILD}]
    /\ state \in [Procs -> ProcessStates]
    /\ simCurrent \in [CPUs -> Pointers]
    /\ simState \in [CPUs -> CpuStates]
    /\ timer \in [CPUs -> Int]
    /\ pc \in [Procs -> Nat]
    /\ left \in [Procs -> Nat]
    /\ ioQueue \in Seq([pcb : Procs, time : Nat])

CountTypeOK ==
    /\ clock \in 0 .. CREATE_PERIOD - 1
    /\ created \in 0 .. PROCESS_COUNT
    /\ terminated \in Nat
    /\ writers \in Int

CpuTypeOK ==
    /\ cpc \in [CPUs -> CpuLabels]
    /\ event \in [CPUs -> CpuStates]
    /\ pcb \in [CPUs -> Pointers]

SupTypeOK ==
    /\ spc \in SupLabels
    /\ n \in 0 .. cpu_count
    /\ waking \in Pointers
    /\ after \in {"creat", "created"}
    /\ lows \in Nat
    /\ stop \in CPUs
    /\ missed \in BOOLEAN /\ hurried \in BOOLEAN

TypeOK == QueueTypeOK /\ SharedTypeOK /\ CountTypeOK /\ CpuTypeOK /\ SupTypeOK

Init ==
    /\ QueueInit
    /\ \E line \in CommandLines :
         static_prior = line.static_prior /\ timeslice = line.timeslice
    /\ ops \in [Procs -> Programs]
    /\ current \in [CPUs -> Garbage]
    /\ state = [p \in Procs |-> "NEW"]
    /\ simCurrent = [c \in CPUs |-> NULL]
    /\ simState = [c \in CPUs |-> "CPU_IDLE"]
    /\ timer = [c \in CPUs |-> -1]
    /\ pc = [p \in Procs |-> 1]
    /\ left = [p \in Procs |-> ops[p][1].time]
    /\ ioQueue = <<>>
    /\ clock = 0 /\ created = 0 /\ terminated = 0
    /\ writers = 0
    /\ cpc = [c \in CPUs |-> "top"]
    /\ event = [c \in CPUs |-> "CPU_IDLE"]
    /\ pcb = [c \in CPUs |-> NULL]
    /\ spc = "tick" /\ n = 0
    /\ waking = NULL /\ after = "creat" /\ lows = 10 /\ stop = 0
    /\ missed = FALSE /\ hurried = FALSE

-----------------------------------------------------------------------------
(* Who holds which mutex.                                                   *)
SimMutexFree == spc \notin {"print", "cpus", "io", "creat", "end", "exit"}
ReadyMutexFree ==
    /\ apc = "out" /\ spc # "spin" /\ \A c \in CPUs : cpc[c] # "spin"
CurrentMutexFree == spc \notin {"scan", "scan_cmp", "scan_take"}

(* The CPU thread is where a tick 100ms later would find it: simulating, or *)
(* waiting for a process.                                                   *)
Settled(c) == cpc[c] \in {"parked", "idle_wait"}

(* Mutant of Broadcast: addqueue() wakes no one.                            *)
BroadcastToNone(f) == f

(* pthread_cond_broadcast(&not_idle) on the program counters f.             *)
Broadcast(f) == [c \in CPUs |-> IF f[c] = "idle_wait" THEN "idle" ELSE f[c]]

(* IRWL_WRITER_LOCK and IRWL_WRITER_UNLOCK; the reader's critical section   *)
(* is a single step, so the lock's own mutex is always free here.           *)
WriterLock == writers' = writers + 1
WriterUnlock == writers' = writers - 1

(* A countdown that reaches zero only from above: a timer of -1, or one     *)
(* that is already 0, never fires.                                          *)
CountDown(k) == IF k > 0 THEN k - 1 ELSE k

=============================================================================
