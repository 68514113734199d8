----------------------------- MODULE Scheduler -----------------------------
(***************************************************************************)
(* The multithreaded scheduler of Project-6-Scheduling: CPU threads and the *)
(* supervisor thread, and what is required of them together.                *)
(***************************************************************************)
EXTENDS CpuThread, Supervisor

(* exit(0), a crash, or an addqueue() that never ends.                      *)
Crashed ==
    spc = "fault" \/ apc = "fault" \/ \E c \in CPUs : gpc[c] = "fault"
Spinning == spc = "spin" \/ \E c \in CPUs : cpc[c] = "spin"
Running == spc # "exit" /\ ~Crashed

CpuNext == Running /\ \E c \in CPUs : CpuStep(c)
SupNext == Running /\ SupStep

Stopped == (~Running \/ Spinning) /\ UNCHANGED vars

Next == CpuNext \/ SupNext \/ Stopped

Spec == Init /\ [][Next]_vars

(* Every thread that can take a step is eventually scheduled.               *)
Fairness ==
    /\ WF_vars(SupNext)
    /\ \A c \in CPUs : WF_vars(Running /\ CpuStep(c))

FairSpec == Spec /\ Fairness

(* The supervisor frees simulator_mutex once a tick, while it sleeps: a     *)
(* thread that finds it free again and again eventually takes it.           *)
TakeSimMutex(c) ==
    LoopTop(c) \/ Dispatch(c) \/ CountTerminated(c) \/ SwitchSet(c)

MutexFairSpec ==
    /\ FairSpec
    /\ \A c \in CPUs : SF_vars(Running /\ TakeSimMutex(c))

-----------------------------------------------------------------------------
(* What holds whatever happens: events missed, priorities raced for.        *)

(* An event is posted to CPU c and not yet taken, or its handler runs and   *)
(* has not yet been reported at the top of the loop.                        *)
Busy(c) ==
    \/ event[c] # "CPU_IDLE"
    \/ cpc[c] = "parked" /\ simState[c] # "CPU_RUNNING"

(* "Ensure the scheduler gets run before the simulator": from the moment an *)
(* event is delivered to a CPU until that CPU thread is back at the top of  *)
(* its loop, the supervisor waits for that very CPU.  Hence at most one of  *)
(* preempt(), yield() and terminate() runs at a time, and none of them      *)
(* beside wake_up() or print_gantt_line().                                  *)
HandlerIsolation ==
    \A c \in CPUs : Busy(c) => spc \in {"await", "fp_await"} /\ n = c

(* A CPU thread blocked in idle() has nothing to run: where every access to *)
(* the queue is under ready_mutex, addqueue()'s broadcast is never missed.  *)
NoLostIdleWakeup ==
    ~static_prior => \A c \in CPUs : cpc[c] = "idle_wait" => q_head = NULL

(* The I/O queue holds one request for each process whose pc is at an I/O   *)
(* operation and none for any other, so that simulate_io() never advances a *)
(* pc that simulate_process() also advances, nor any past its program.      *)
IoRequests(p) == {i \in DOMAIN ioQueue : ioQueue[i].pcb = p}

IoRequestPerBlockedProcess ==
    \A p \in Procs :
        /\ pc[p] \in DOMAIN ops[p]
        /\ Op(p).type = "OP_IO" => \E i \in DOMAIN ioQueue : IoRequests(p) = {i}
        /\ Op(p).type # "OP_IO" => IoRequests(p) = {}

(* The reader's side of student_lock never finds a writer: its wait loop is *)
(* dead code, although idle() unlocks a lock it does not hold.              *)
ReaderNeverWaits == spc = "print" => writers <= 0

(* A handler finds in current[] the process that the simulator ran on its   *)
(* CPU: never NULL, never the memory malloc() returned.                     *)
HandlerFindsItsProcess ==
    \A c \in CPUs :
        cpc[c] = "handler" => current[c] \in Procs /\ current[c] = simCurrent[c]

(* exit(0) is called only when every program has reached its end.           *)
ExitsOnlyAtTheEnd ==
    spc = "exit" => \A p \in Procs : Op(p).type = "OP_TERMINATE"

-----------------------------------------------------------------------------
(* What holds while no event has been missed.                               *)

(* In FIFO an event is missed only when a tick has begun before every CPU   *)
(* thread was back at its wait: a supervisor that really sleeps 100ms would *)
(* never miss one.                                                          *)
OnlyHasteMisses == ~static_prior /\ timeslice <= 0 /\ missed => hurried

(* The simulator never simulates a process that is blocked or terminated.   *)
NeverSimulatesBlocked ==
    spc = "cpus" /\ n < cpu_count /\ simCurrent[n] \in Procs
        => Op(simCurrent[n]).type = "OP_CPU"

(* ... as long as no event was missed;                                      *)
RunsOnlyRunnable == ~missed => NeverSimulatesBlocked

(* ... or as long as every tick leaves the CPU threads time to come to rest.*)
RunsOnlyRunnableAtRest == ~hurried => NeverSimulatesBlocked

(* Unless an event was missed, no process is on two CPUs when a tick begins.*)
NoDoubleDispatch ==
    spc = "print" /\ ~missed =>
        \A c, d \in CPUs : c # d /\ simCurrent[c] \in Procs
                            => simCurrent[c] # simCurrent[d]

(* Unless an event was missed, a line of the Gantt chart agrees with itself *)
(* and with the queues, up to the CPU threads that idle() has taken into    *)
(* schedule(): the processes called RUNNING are those the simulator has on  *)
(* its CPUs and those a thread is about to give it, the WAITING ones are    *)
(* those in the I/O queue, and the READY ones are those a walk of the ready *)
(* queue finds and those a thread has just taken from it.                   *)
Held(labels) == {pcb[c] : c \in {d \in CPUs : cpc[d] \in labels}} \ {NULL}

GanttAgrees ==
    spc = "print" /\ ~missed =>
        /\ {p \in Procs : state[p] = "RUNNING"}
             = ({simCurrent[c] : c \in CPUs} \ {NULL})
               \cup Held({"cs_unlock", "cs_set"})
        /\ {p \in Procs : state[p] = "WAITING"}
             = {ioQueue[i].pcb : i \in DOMAIN ioQueue}
        /\ {p \in Procs : state[p] = "READY"} = Queued \cup Held({"setrun"})

(* The scheduler as an implementation of ProcessLifecycle.  A process joins *)
(* the queue when addqueue() links it and leaves it when get() unlinks it;  *)
(* it leaves its CPU when a handler marks it, or when preempt() has queued  *)
(* it.                                                                      *)
Walk ==
    LET nth[k \in 0 .. PROCESS_COUNT] ==
            IF k = 0 THEN q_head
            ELSE IF nth[k - 1] = NULL THEN NULL ELSE next[nth[k - 1]]
        length == Cardinality({k \in 0 .. PROCESS_COUNT - 1 : nth[k] # NULL})
    IN  [k \in 1 .. length |-> nth[k - 1]]

OnCpu(c) ==
    IF cpc[c] = "setrun" THEN pcb[c]
    ELSE IF cpc[c] = "select" \/ current[c] \notin Procs THEN NULL
    ELSE current[c]

PlaceOf(p) ==
    IF p \in Queued THEN "ready"
    ELSE IF \E c \in CPUs : OnCpu(c) = p THEN "running"
    ELSE IF waking = p
         THEN (IF after = "created" THEN "new" ELSE "waiting")
    ELSE CASE state[p] = "TERMINATED" -> "terminated"
           [] state[p] = "WAITING" -> "waiting"
           [] OTHER -> "new"

Lifecycle ==
    INSTANCE ProcessLifecycle WITH
        queue <- Walk,
        running <- [c \in CPUs |-> OnCpu(c)],
        place <- [p \in Procs |-> PlaceOf(p)],
        preemptive <- timeslice > 0

(* In FIFO and round-robin, until an event is missed, every step is a step  *)
(* of the lifecycle or none.                                                *)
ImplementsLifecycle ==
    Lifecycle!LifeInit /\ [][missed' \/ Lifecycle!LifeNext]_(Lifecycle!lifeVars)

-----------------------------------------------------------------------------
(* The supervisor, waiting for a CPU's scheduler to run, is answered, even  *)
(* where the event was missed, unless an addqueue() never ends.             *)
PostIsAnswered == spc = "await" ~> spc # "await" \/ Spinning

(* Unless an event is missed, every program ends and the simulator exits.   *)
EventuallyExits == <>(spc = "exit" \/ missed)

(* Unless an event is missed, a ready process runs, whatever else is ready. *)
ReadyRuns == \A p \in Procs : p \in Queued ~> state[p] = "RUNNING" \/ missed

=============================================================================
