-------------------------- MODULE SchedulerProofs --------------------------
(***************************************************************************)
(* Proofs about Scheduler for every number of CPUs and of processes, every  *)
(* legal set of programs, every command line, and events missed or not.     *)
(*                                                                         *)
(* IInv is the inductive invariant.  Its parts beyond the properties        *)
(* themselves say what a thread knows at each of its steps: CpuKnows that a *)
(* CPU thread's current[c] and simCurrent[c] agree whenever an event can    *)
(* reach it, SupKnows which indices and pointers the supervisor holds, and  *)
(* IoKnows how the I/O queue and the program counters fit together.         *)
(*                                                                         *)
(* The second part is about what the supervisor relies on without looking:  *)
(* that no writer holds student_lock when it prints, and that every program *)
(* has ended when it counts PROCESS_COUNT terminations.                     *)
(***************************************************************************)
EXTENDS Scheduler, ReadyQueueProofs, SequenceTheorems, FiniteSetTheorems

(* A CPU thread between two events.  Where an event can reach it (parked)   *)
(* or is on its way to the handler, student.c and os-sim.c name the same    *)
(* process; at the top of the loop they do, or no process was ever          *)
(* scheduled here; inside context_switch() pcb is what current[] holds.     *)
CpuKnows ==
    \A c \in CPUs :
        /\ cpc[c] \in {"parked", "count", "enter", "handler"}
              => current[c] \in Procs /\ current[c] = simCurrent[c]
        /\ cpc[c] \in {"cs_lock", "leave", "top"}
              => \/ simCurrent[c] = current[c]
                 \/ simCurrent[c] = NULL /\ current[c] = WILD
        /\ cpc[c] \in {"cs_unlock", "cs_set"} => pcb[c] = current[c]
        /\ cpc[c] = "parked" => simState[c] # "CPU_IDLE"
        /\ cpc[c] \in {"count", "enter", "handler"} => event[c] \in Events
        /\ cpc[c] \in {"requeue", "adding"} => pcb[c] \in Procs
        /\ gpc[c] # "out" => cpc[c] = "gh"

(* What addqueue() and gethighestone() know between two of their accesses.  *)
QueueLocals == GhLocals /\ AddLocals

WakeLabels == {"wake", "wake_ready", "wake_add", "wake_adding",
               "scan", "scan_cmp", "scan_take",
               "fp_unlock", "fp_lock", "fp_await", "fp_resume", "fp_relock",
               "wake_leave"}

(* The supervisor: n is a CPU wherever it indexes one, waking is a process  *)
(* during wake_up(), and a creation in progress has not been counted.       *)
SupKnows ==
    /\ spc \in {"await", "resume", "scan_cmp", "scan_take", "fp_lock",
                "fp_await", "fp_resume"} => n \in CPUs
    /\ spc \in WakeLabels => waking \in Procs
    /\ spc \in WakeLabels \cup {"wake_ret"} /\ after = "created"
          => created < PROCESS_COUNT

(* The processes whose pc is at an I/O operation, and a queue with one      *)
(* request for each process of a set and none for any other.                *)
Blocked == {p \in Procs : Op(p).type = "OP_IO"}

OneRequestEach(q, S) ==
    /\ \A i \in 1 .. Len(q) : q[i].pcb \in S
    /\ \A i, j \in 1 .. Len(q) : q[i].pcb = q[j].pcb => i = j
    /\ \A p \in S : \E i \in 1 .. Len(q) : q[i].pcb = p

(* Every pc is in its program, and the I/O queue fits the pcs.              *)
IoKnows ==
    /\ \A p \in Procs : pc[p] \in 1 .. Len(ops[p])
    /\ OneRequestEach(ioQueue, Blocked)

IInv ==
    /\ TypeOK
    /\ QueueLocals
    /\ CpuKnows
    /\ SupKnows
    /\ IoKnows
    /\ HandlerIsolation
    /\ NoLostIdleWakeup

-----------------------------------------------------------------------------
(* Programs alternate: what follows an operation.                           *)
LEMMA ProgramFacts ==
    ASSUME NEW prog \in Programs, NEW k \in 1 .. Len(prog)
    PROVE  /\ Len(prog) \in Nat
           /\ prog[k].type \in OpTypes /\ prog[k].time \in Nat
           /\ prog[k].type # "OP_TERMINATE" => k + 1 \in 1 .. Len(prog)
           /\ prog[k].type = "OP_CPU" => prog[k + 1].type # "OP_CPU"
           /\ prog[k].type = "OP_IO" => prog[k + 1].type = "OP_CPU"
<1> DEFINE kind(j) == IF j % 2 = 1 THEN "OP_CPU"
                      ELSE IF j = Len(prog) THEN "OP_TERMINATE" ELSE "OP_IO"
<1>1. prog \in Seq([type : OpTypes, time : Nat])
  BY ProgramsAlternate DEF LegalProgram
<1>2. Len(prog) \in Nat /\ Len(prog) % 2 = 0
  BY ProgramsAlternate, <1>1 DEF LegalProgram
<1>3. \A j \in 1 .. Len(prog) : prog[j].type = kind(j)
  BY ProgramsAlternate DEF LegalProgram
<1>4. prog[k] \in [type : OpTypes, time : Nat]
  BY <1>1, ElementOfSeq
<1>5. prog[k].type = kind(k)
  BY <1>3
<1>6. k \in Nat /\ k >= 1 /\ k <= Len(prog)
  BY <1>2
<1>7. prog[k].type # "OP_TERMINATE" => k + 1 \in 1 .. Len(prog)
  BY <1>2, <1>5, <1>6
<1>8. ASSUME prog[k].type # "OP_TERMINATE"
      PROVE  prog[k + 1].type = kind(k + 1)
  BY <1>3, <1>7, <1>8
<1>9. k % 2 = 1 => (k + 1) % 2 # 1
  BY <1>6
<1>10. k % 2 # 1 => (k + 1) % 2 = 1
  BY <1>6
<1>11. prog[k].type = "OP_CPU" => prog[k + 1].type # "OP_CPU"
  BY <1>5, <1>8, <1>9
<1>12. prog[k].type = "OP_IO" => prog[k + 1].type = "OP_CPU"
  BY <1>5, <1>8, <1>10
<1>13. QED
  BY <1>2, <1>4, <1>7, <1>11, <1>12

-----------------------------------------------------------------------------
(* The I/O queue: submit_io_request() adds a request, simulate_io() counts  *)
(* the first one down and removes it.                                       *)
Request == [pcb : Procs, time : Nat]

(* submit_io_request(): a request appended for a process that has none.    *)
LEMMA AppendRequest ==
    ASSUME NEW q \in Seq(Request), NEW S \in SUBSET Procs,
           OneRequestEach(q, S), NEW r \in Request, r.pcb \notin S
    PROVE  /\ Append(q, r) \in Seq(Request)
           /\ OneRequestEach(Append(q, r), S \cup {r.pcb})
<1> DEFINE a == Append(q, r)
<1>1. /\ a \in Seq(Request)
      /\ Len(q) \in Nat /\ Len(a) = Len(q) + 1
      /\ \A i \in 1 .. Len(q) : a[i] = q[i]
      /\ a[Len(q) + 1] = r
  BY AppendProperties, LenProperties
<1> HIDE DEF a
<1>2. \A i \in 1 .. Len(a) : i \in 1 .. Len(q) \/ i = Len(q) + 1
  BY <1>1
<1>3. \A i \in 1 .. Len(q) : i \in 1 .. Len(a)
  BY <1>1
<1>4. Len(q) + 1 \in 1 .. Len(a)
  BY <1>1
<1>5. \A i \in 1 .. Len(a) : a[i].pcb \in S \cup {r.pcb}
  BY <1>1, <1>2 DEF OneRequestEach
<1>6. \A i, j \in 1 .. Len(a) : a[i].pcb = a[j].pcb => i = j
  BY <1>1, <1>2 DEF OneRequestEach
<1>7. \A p \in S \cup {r.pcb} : \E i \in 1 .. Len(a) : a[i].pcb = p
  BY <1>1, <1>3, <1>4 DEF OneRequestEach
<1>8. QED
  BY <1>1, <1>5, <1>6, <1>7 DEF OneRequestEach, a

(* simulate_io(): the head request leaves, and with it its process's only   *)
(* one.                                                                     *)
LEMMA TailRequest ==
    ASSUME NEW q \in Seq(Request), NEW S \in SUBSET Procs,
           OneRequestEach(q, S), q # <<>>
    PROVE  /\ Head(q) \in Request /\ Head(q).pcb \in S
           /\ Tail(q) \in Seq(Request)
           /\ OneRequestEach(Tail(q), S \ {Head(q).pcb})
<1> DEFINE t == Tail(q)  h == Head(q)
<1>1. /\ h \in Request /\ t \in Seq(Request) /\ h = q[1]
      /\ Len(q) \in Nat \ {0} /\ Len(t) = Len(q) - 1
      /\ \A i \in 1 .. Len(t) : t[i] = q[i + 1]
  BY HeadTailProperties, LenProperties, EmptySeq
<1> HIDE DEF t, h
<1>2. 1 \in 1 .. Len(q) /\ \A i \in 1 .. Len(t) : i + 1 \in 1 .. Len(q)
  BY <1>1
<1>3. h.pcb \in S
  BY <1>1, <1>2 DEF OneRequestEach
<1>4. \A i \in 1 .. Len(t) : t[i].pcb \in S \ {h.pcb}
  <2> TAKE i \in 1 .. Len(t)
  <2>1. i + 1 # 1
    BY <1>1
  <2>2. q[i + 1].pcb \in S /\ q[i + 1].pcb # q[1].pcb
    BY <1>2, <2>1 DEF OneRequestEach
  <2>3. QED
    BY <1>1, <2>2
<1>5. \A i, j \in 1 .. Len(t) : t[i].pcb = t[j].pcb => i = j
  <2> TAKE i, j \in 1 .. Len(t)
  <2> HAVE t[i].pcb = t[j].pcb
  <2>1. i + 1 \in 1 .. Len(q) /\ j + 1 \in 1 .. Len(q)
    BY <1>2
  <2>2. q[i + 1].pcb = q[j + 1].pcb
    BY <1>1
  <2>3. i + 1 = j + 1
    BY <2>1, <2>2 DEF OneRequestEach
  <2>4. i \in Nat /\ j \in Nat
    BY <1>1
  <2>5. QED
    BY <2>3, <2>4
<1>6. \A p \in S \ {h.pcb} : \E i \in 1 .. Len(t) : t[i].pcb = p
  <2> TAKE p \in S \ {h.pcb}
  <2>1. PICK k \in 1 .. Len(q) : q[k].pcb = p
    BY DEF OneRequestEach
  <2>2. k # 1
    BY <1>1, <2>1
  <2>3. k - 1 \in 1 .. Len(t) /\ (k - 1) + 1 = k
    BY <1>1, <2>2
  <2>4. t[k - 1].pcb = p
    BY <1>1, <2>1, <2>3
  <2>5. QED
    BY <2>3, <2>4
<1>7. QED
  BY <1>1, <1>3, <1>4, <1>5, <1>6 DEF OneRequestEach, t, h

(* simulate_io(): a tick of the head request changes no request's process.  *)
LEMMA TickRequest ==
    ASSUME NEW q \in Seq(Request), NEW S \in SUBSET Procs,
           OneRequestEach(q, S), q # <<>>, Head(q).time > 0
    PROVE  /\ [q EXCEPT ![1].time = @ - 1] \in Seq(Request)
           /\ OneRequestEach([q EXCEPT ![1].time = @ - 1], S)
<1> DEFINE r == [q[1] EXCEPT !.time = @ - 1]
           t == [q EXCEPT ![1] = r]
<1>1. Len(q) \in Nat \ {0} /\ Head(q) = q[1] /\ q[1] \in Request
  BY HeadTailProperties, LenProperties, EmptySeq
<1>2. r \in Request /\ r.pcb = q[1].pcb
  BY <1>1 DEF Request
<1> HIDE DEF r
<1>3. 1 \in 1 .. Len(q)
  BY <1>1
<1>4. /\ t \in Seq(Request) /\ Len(t) = Len(q)
      /\ \A i \in 1 .. Len(q) : t[i] = IF i = 1 THEN r ELSE q[i]
  BY <1>2, <1>3, ExceptSeq
<1>5. OneRequestEach(t, S)
  BY <1>2, <1>4 DEF OneRequestEach
<1>6. t = [q EXCEPT ![1].time = @ - 1]
  BY DEF r
<1>7. QED
  BY <1>4, <1>5, <1>6

(* pcb->pc++ stays inside the program, and Blocked changes by that process  *)
(* alone.                                                                   *)
LEMMA MoveOnKnows ==
    ASSUME TypeOK, IoKnows, NEW p \in Procs, MoveOn(p), UNCHANGED ops,
           Op(p).type # "OP_TERMINATE"
    PROVE  /\ pc' \in [Procs -> Nat] /\ left' \in [Procs -> Nat]
           /\ \A q \in Procs : pc'[q] \in 1 .. Len(ops[q])
           /\ ops[p][pc[p] + 1].time \in Nat
           /\ Blocked' = IF ops[p][pc[p] + 1].type = "OP_IO"
                         THEN Blocked \cup {p} ELSE Blocked \ {p}
           /\ Op(p).type = "OP_IO" => ops[p][pc[p] + 1].type = "OP_CPU"
<1>1. ops[p] \in Programs /\ pc[p] \in 1 .. Len(ops[p]) /\ pc \in [Procs -> Nat]
  BY DEF TypeOK, SharedTypeOK, IoKnows
<1>2. pc[p] + 1 \in 1 .. Len(ops[p])
  BY <1>1, ProgramFacts DEF Op
<1>3. ops[p][pc[p] + 1].time \in Nat
  BY <1>1, <1>2, ProgramFacts
<1>4. /\ pc' \in [Procs -> Nat]
      /\ pc'[p] = pc[p] + 1 /\ \A q \in Procs \ {p} : pc'[q] = pc[q]
  BY <1>1 DEF MoveOn
<1>5. left' \in [Procs -> Nat]
  BY <1>3 DEF MoveOn, TypeOK, SharedTypeOK
<1>6. \A q \in Procs : pc'[q] \in 1 .. Len(ops[q])
  BY <1>2, <1>4 DEF IoKnows
<1>7. Blocked' = IF ops[p][pc[p] + 1].type = "OP_IO"
                 THEN Blocked \cup {p} ELSE Blocked \ {p}
  BY <1>4 DEF Blocked, Op
<1>8. Op(p).type = "OP_IO" => ops[p][pc[p] + 1].type = "OP_CPU"
  BY <1>1, ProgramFacts DEF Op
<1>9. QED
  BY <1>3, <1>4, <1>5, <1>6, <1>7, <1>8

(* The invariant holds before any thread has run.                           *)
LEMMA IInvInit == Init => IInv
<1> SUFFICES ASSUME Init PROVE IInv
  OBVIOUS
<1> USE PointersAreNotProcs, CpusAreNumbered, ProcsAreNumbered,
        ParametersAreLegal
<1>1. QueueTypeOK /\ QueueLocals
  BY DEF Init, QueueInit, QueueTypeOK, QueueLocals, GhLocals, AddLocals,
         Pointers, GhLabels, AddLabels
<1>2. \A p \in Procs : /\ 1 \in 1 .. Len(ops[p]) /\ ops[p][1].time \in Nat
                       /\ ops[p][1].type = "OP_CPU"
  <2> TAKE p \in Procs
  <2>1. ops[p] \in Programs
    BY DEF Init
  <2>2. ops[p] \in Seq([type : OpTypes, time : Nat]) /\ Len(ops[p]) >= 2
    BY <2>1, ProgramsAlternate DEF LegalProgram
  <2>3. 1 \in 1 .. Len(ops[p])
    BY <2>2, LenProperties
  <2>4. ops[p][1].type = "OP_CPU"
    BY <2>1, <2>3, ProgramsAlternate DEF LegalProgram
  <2>5. QED
    BY <2>1, <2>3, <2>4, ProgramFacts
<1>3. TypeOK
  <2>1. SharedTypeOK
    BY <1>2 DEF Init, SharedTypeOK, Pointers, ProcessStates, CpuStates
  <2>2. CountTypeOK /\ CpuTypeOK
    BY DEF Init, CountTypeOK, CpuTypeOK, Pointers, CpuStates, CpuLabels
  <2>3. SupTypeOK
    <3>1. missed \in BOOLEAN /\ hurried \in BOOLEAN
      BY DEF Init
    <3>2. /\ spc = "tick" /\ n = 0 /\ waking = NULL /\ after = "creat"
          /\ lows = 10 /\ stop = 0
      BY DEF Init
    <3>3. QED
      BY <3>1, <3>2 DEF SupTypeOK, Pointers, SupLabels
  <2>4. QED
    BY <1>1, <2>1, <2>2, <2>3 DEF TypeOK
<1>4. CpuKnows /\ SupKnows /\ HandlerIsolation /\ NoLostIdleWakeup
  BY DEF Init, QueueInit, CpuKnows, SupKnows, WakeLabels, HandlerIsolation,
         Busy, NoLostIdleWakeup
<1>5. IoKnows
  <2>1. ioQueue = <<>> /\ \A p \in Procs : pc[p] = 1
    BY DEF Init
  <2>2. Blocked = {}
    BY <1>2, <2>1 DEF Blocked, Op
  <2>3. OneRequestEach(<<>>, {})
    BY DEF OneRequestEach
  <2>4. QED
    BY <1>2, <2>1, <2>2, <2>3 DEF IoKnows
<1>6. QED
  BY <1>1, <1>3, <1>4, <1>5 DEF IInv


(* addqueue()'s broadcast moves the threads blocked in idle() and no other.  *)
LEMMA BroadcastWakes ==
    ASSUME NEW f \in [CPUs -> CpuLabels]
    PROVE  /\ Broadcast(f) \in [CPUs -> CpuLabels]
           /\ \A d \in CPUs : Broadcast(f)[d] = IF f[d] = "idle_wait"
                                                THEN "idle" ELSE f[d]
BY DEF Broadcast, CpuLabels


-----------------------------------------------------------------------------
(* A CPU thread touches neither the programs nor the I/O queue, and only    *)
(* SelectHighest the locals of gethighestone().                             *)
LEMMA CpuKeepsIo ==
    ASSUME IoKnows, NEW c \in CPUs, CpuStep(c)
    PROVE  IoKnows'
<1>1. UNCHANGED <<ops, pc, ioQueue>>
  BY DEF CpuStep, LoopTop, Dispatch, CountTerminated, EnterHandler, Handler,
         Requeue, RequeueBesideGh, Idle, SelectFirst, SelectHighest,
         SetRunning, SwitchUnlock, SwitchSet, SwitchLock, LeaveHandler,
         configVars, programVars
<1>2. QED
  BY <1>1 DEF IoKnows, Blocked, Op

(* Every step of simulator_cpu_thread() and of the handlers keeps IInv.     *)
LEMMA CpuKeepsIInv ==
    ASSUME IInv, NEW c \in CPUs, CpuStep(c)
    PROVE  IInv'
<1> USE PointersAreNotProcs, CpusAreNumbered
    DEF Step, supVars, queueVars, ghVars, addVars, configVars, studentVars,
        simCpuVars, programVars, countVars, WriterLock, WriterUnlock, Pointers
<1>a. TypeOK /\ CpuKnows /\ SupKnows /\ HandlerIsolation /\ NoLostIdleWakeup
  BY DEF IInv
<1>b. IoKnows'
  BY CpuKeepsIo DEF IInv
<1>c. UNCHANGED <<gpc, gcur, ghigh, greg, apc, acur>> => QueueLocals'
  BY DEF IInv, QueueLocals, GhLocals, AddLocals
<1>1. CASE LoopTop(c)
  <2>1. /\ spc' \in SupLabels
        /\ event' \in [CPUs -> CpuStates] /\ simState' \in [CPUs -> CpuStates]
        /\ cpc' \in [CPUs -> CpuLabels]
    BY <1>a, <1>1 DEF LoopTop, TypeOK, QueueTypeOK, SharedTypeOK, CountTypeOK,
           CpuTypeOK, SupTypeOK, CpuLabels, SupLabels, CpuStates, Events
  <2>2. TypeOK'
    BY <1>a, <1>1, <2>1 DEF LoopTop, TypeOK, QueueTypeOK, SharedTypeOK,
           CountTypeOK, CpuTypeOK, SupTypeOK
  <2>3. CpuKnows'
    BY <1>a, <1>1 DEF LoopTop, TypeOK, SharedTypeOK, CpuTypeOK, CpuKnows
  <2>4. SupKnows' /\ HandlerIsolation' /\ NoLostIdleWakeup'
    BY <1>a, <1>1 DEF LoopTop, TypeOK, QueueTypeOK, SharedTypeOK, CountTypeOK,
           CpuTypeOK, SupTypeOK, CpuKnows, SupKnows, WakeLabels,
           HandlerIsolation, Busy, NoLostIdleWakeup
  <2>5. QueueLocals'
    BY <1>c, <1>1 DEF LoopTop
  <2>6. QED
    BY <1>b, <2>2, <2>3, <2>4, <2>5 DEF IInv
<1>2. CASE Dispatch(c)
  <2>1. CpuTypeOK' /\ CountTypeOK'
    BY <1>a, <1>2 DEF Dispatch, TypeOK, SharedTypeOK, CountTypeOK, CpuTypeOK,
           CpuLabels
  <2>2. QueueTypeOK' /\ SharedTypeOK' /\ SupTypeOK'
    BY <1>a, <1>2 DEF Dispatch, TypeOK, QueueTypeOK, SharedTypeOK, CpuTypeOK,
           SupTypeOK
  <2>3. CpuKnows'
    BY <1>a, <1>2 DEF Dispatch, TypeOK, SharedTypeOK, CpuTypeOK, CpuKnows,
           Events, CpuStates
  <2>4. SupKnows' /\ HandlerIsolation' /\ NoLostIdleWakeup'
    BY <1>a, <1>2 DEF Dispatch, TypeOK, SharedTypeOK, CpuTypeOK, CpuKnows,
           SupKnows, WakeLabels, HandlerIsolation, Busy, NoLostIdleWakeup
  <2>5. QueueLocals'
    BY <1>c, <1>2 DEF Dispatch
  <2>6. QED
    BY <1>b, <2>1, <2>2, <2>3, <2>4, <2>5 DEF IInv, TypeOK
<1>3. CASE CountTerminated(c)
  <2>1. CpuTypeOK' /\ CountTypeOK'
    BY <1>a, <1>3 DEF CountTerminated, TypeOK, SharedTypeOK, CountTypeOK,
           CpuTypeOK, CpuLabels
  <2>2. QueueTypeOK' /\ SharedTypeOK' /\ SupTypeOK'
    BY <1>a, <1>3 DEF CountTerminated, TypeOK, QueueTypeOK, SharedTypeOK,
           CpuTypeOK, SupTypeOK
  <2>3. CpuKnows'
    BY <1>a, <1>3 DEF CountTerminated, TypeOK, SharedTypeOK, CpuTypeOK,
           CpuKnows, Events, CpuStates
  <2>4. SupKnows' /\ HandlerIsolation' /\ NoLostIdleWakeup'
    BY <1>a, <1>3 DEF CountTerminated, TypeOK, SharedTypeOK, CpuTypeOK,
           CpuKnows, SupKnows, WakeLabels, HandlerIsolation, Busy,
           NoLostIdleWakeup
  <2>5. QueueLocals'
    BY <1>c, <1>3 DEF CountTerminated
  <2>6. QED
    BY <1>b, <2>1, <2>2, <2>3, <2>4, <2>5 DEF IInv, TypeOK
<1>4. CASE EnterHandler(c)
  <2>1. CpuTypeOK' /\ CountTypeOK'
    BY <1>a, <1>4 DEF EnterHandler, TypeOK, SharedTypeOK, CountTypeOK,
           CpuTypeOK, CpuLabels
  <2>2. QueueTypeOK' /\ SharedTypeOK' /\ SupTypeOK'
    BY <1>a, <1>4 DEF EnterHandler, TypeOK, QueueTypeOK, SharedTypeOK,
           CpuTypeOK, SupTypeOK
  <2>3. CpuKnows'
    BY <1>a, <1>4 DEF EnterHandler, TypeOK, SharedTypeOK, CpuTypeOK, CpuKnows,
           Events, CpuStates
  <2>4. SupKnows' /\ HandlerIsolation' /\ NoLostIdleWakeup'
    BY <1>a, <1>4 DEF EnterHandler, TypeOK, SharedTypeOK, CpuTypeOK, CpuKnows,
           SupKnows, WakeLabels, HandlerIsolation, Busy, NoLostIdleWakeup
  <2>5. QueueLocals'
    BY <1>c, <1>4 DEF EnterHandler
  <2>6. QED
    BY <1>b, <2>1, <2>2, <2>3, <2>4, <2>5 DEF IInv, TypeOK
<1>5. CASE Handler(c)
  <2>1. CpuTypeOK' /\ CountTypeOK'
    BY <1>a, <1>5 DEF Handler, TypeOK, SharedTypeOK, CountTypeOK, CpuTypeOK,
           CpuLabels, CpuKnows
  <2>2. QueueTypeOK' /\ SharedTypeOK' /\ SupTypeOK'
    BY <1>a, <1>5 DEF Handler, TypeOK, QueueTypeOK, SharedTypeOK, CpuTypeOK,
           SupTypeOK, CpuKnows, NewState, ProcessStates, Events
  <2>3. CpuKnows'
    BY <1>a, <1>5 DEF Handler, TypeOK, SharedTypeOK, CpuTypeOK, CpuKnows,
           Events, CpuStates
  <2>4. SupKnows' /\ HandlerIsolation' /\ NoLostIdleWakeup'
    BY <1>a, <1>5 DEF Handler, TypeOK, SharedTypeOK, CpuTypeOK, CpuKnows,
           SupKnows, WakeLabels, HandlerIsolation, Busy, NoLostIdleWakeup
  <2>5. QueueLocals'
    BY <1>c, <1>5 DEF Handler
  <2>6. QED
    BY <1>b, <2>1, <2>2, <2>3, <2>4, <2>5 DEF IInv, TypeOK
<1>6. CASE Requeue(c)
  <2>1. pcb[c] \in Procs
    BY <1>a, <1>6 DEF Requeue, CpuKnows
  <2>2. q_head' \in Pointers /\ next' \in [Procs -> Pointers]
    BY <1>a, <1>6, <2>1, AddQueueTyped DEF Requeue, TypeOK, QueueTypeOK,
           SharedTypeOK, CountTypeOK, CpuTypeOK, SupTypeOK
  <2> DEFINE g == [cpc EXCEPT ![c] = "select"]
  <2>3. /\ g \in [CPUs -> CpuLabels]
        /\ \A d \in CPUs : g[d] = IF d = c THEN "select" ELSE cpc[d]
    BY <1>a DEF TypeOK, QueueTypeOK, SharedTypeOK, CountTypeOK, CpuTypeOK,
           SupTypeOK, CpuLabels
  <2>4. \/ AddQueueSpins(pcb[c]) /\ cpc' = [cpc EXCEPT ![c] = "spin"]
        \/ ~AddQueueSpins(pcb[c]) /\ cpc' = Broadcast(g)
    BY <1>6 DEF Requeue
  <2> HIDE DEF g
  <2>5. /\ cpc' \in [CPUs -> CpuLabels]
        /\ \A d \in CPUs : \/ cpc'[d] = cpc[d]
                           \/ d = c /\ cpc'[d] \in {"spin", "select"}
                           \/ cpc[d] = "idle_wait" /\ cpc'[d] = "idle"
    <3>1. CASE cpc' = [cpc EXCEPT ![c] = "spin"]
      BY <1>a, <3>1 DEF TypeOK, QueueTypeOK, SharedTypeOK, CountTypeOK,
             CpuTypeOK, SupTypeOK, CpuLabels
    <3>2. CASE cpc' = Broadcast(g)
      BY <1>a, <2>3, <3>2, BroadcastWakes
         DEF TypeOK, QueueTypeOK, SharedTypeOK, CountTypeOK, CpuTypeOK,
             SupTypeOK
    <3>3. QED
      BY <2>4, <3>1, <3>2
  <2>6. ~AddQueueSpins(pcb[c]) => \A d \in CPUs : cpc'[d] # "idle_wait"
    BY <2>3, <2>4, BroadcastWakes
  <2>7. AddQueueSpins(pcb[c]) => q_head' = q_head
    BY <1>6 DEF Requeue
  <2>8. TypeOK'
    BY <1>a, <1>6, <2>2, <2>5 DEF Requeue, TypeOK, QueueTypeOK, SharedTypeOK,
           CountTypeOK, CpuTypeOK, SupTypeOK
  <2>9. CpuKnows'
    BY <1>a, <1>6, <2>5 DEF Requeue, CpuKnows
  <2>10. SupKnows' /\ HandlerIsolation'
    BY <1>a, <1>6, <2>5 DEF Requeue, CpuKnows, SupKnows, WakeLabels,
           HandlerIsolation, Busy
  <2>11. NoLostIdleWakeup'
    BY <1>a, <1>6, <2>5, <2>6, <2>7 DEF Requeue, NoLostIdleWakeup
  <2>12. QueueLocals'
    BY <1>c, <1>6 DEF Requeue
  <2>13. QED
    BY <1>b, <2>8, <2>9, <2>10, <2>11, <2>12 DEF IInv
<1>7. CASE Idle(c)
  <2>1. CpuTypeOK' /\ CountTypeOK'
    BY <1>a, <1>7 DEF Idle, TypeOK, SharedTypeOK, CountTypeOK, CpuTypeOK,
           CpuLabels
  <2>2. QueueTypeOK' /\ SharedTypeOK' /\ SupTypeOK'
    BY <1>a, <1>7 DEF Idle, TypeOK, QueueTypeOK, SharedTypeOK, CpuTypeOK,
           SupTypeOK
  <2>3. CpuKnows'
    BY <1>a, <1>7 DEF Idle, TypeOK, SharedTypeOK, CpuTypeOK, CpuKnows, Events,
           CpuStates
  <2>4. SupKnows' /\ HandlerIsolation' /\ NoLostIdleWakeup'
    BY <1>a, <1>7 DEF Idle, TypeOK, SharedTypeOK, CpuTypeOK, CpuKnows,
           SupKnows, WakeLabels, HandlerIsolation, Busy, NoLostIdleWakeup
  <2>5. QueueLocals'
    BY <1>c, <1>7 DEF Idle
  <2>6. QED
    BY <1>b, <2>1, <2>2, <2>3, <2>4, <2>5 DEF IInv, TypeOK
<1>8. CASE SelectFirst(c)
  <2>1. q_head' \in Pointers /\ next' \in [Procs -> Pointers]
    BY <1>a, <1>8, GetTyped DEF SelectFirst, TypeOK, QueueTypeOK, SharedTypeOK,
           CountTypeOK, CpuTypeOK, SupTypeOK
  <2>2. TypeOK'
    BY <1>a, <1>8, <2>1 DEF SelectFirst, TypeOK, QueueTypeOK, SharedTypeOK,
           CountTypeOK, CpuTypeOK, SupTypeOK, CpuLabels
  <2>3. CpuKnows'
    BY <1>a, <1>8 DEF SelectFirst, TypeOK, QueueTypeOK, SharedTypeOK,
           CountTypeOK, CpuTypeOK, SupTypeOK, CpuKnows, Events, CpuStates
  <2>4. SupKnows' /\ HandlerIsolation' /\ NoLostIdleWakeup'
    BY <1>a, <1>8 DEF SelectFirst, Get, TypeOK, QueueTypeOK, SharedTypeOK,
           CountTypeOK, CpuTypeOK, SupTypeOK, CpuKnows, SupKnows, WakeLabels,
           HandlerIsolation, Busy, NoLostIdleWakeup
  <2>5. QueueLocals'
    BY <1>c, <1>8 DEF SelectFirst
  <2>6. QED
    BY <1>b, <2>2, <2>3, <2>4, <2>5 DEF IInv
<1>9. CASE SelectHighest(c)
  <2>1. QueueTypeOK' /\ QueueLocals'
    <3>1. QueueTypeOK /\ GhLocals /\ UNCHANGED addVars
      BY <1>9 DEF SelectHighest, IInv, TypeOK, QueueLocals
    <3>2. QueueTypeOK' /\ GhLocals'
      <4>1. CASE GhCall(c) \/ GhLeave(c)
        BY <3>1, <4>1, GhCallTyped
      <4>2. CASE GhStep(c)
        BY <3>1, <4>2, GhStepTyped
      <4>3. QED
        BY <1>9, <4>1, <4>2 DEF SelectHighest
    <3>3. QED
      BY <3>1, <3>2 DEF IInv, QueueLocals, AddLocals
  <2>2. /\ cpc' \in [CPUs -> CpuLabels]
        /\ pcb' \in [CPUs -> Pointers]
    BY <1>a, <1>9 DEF SelectHighest, GhLeave, Goto, IInv, QueueLocals, GhLocals,
           TypeOK, QueueTypeOK, SharedTypeOK, CountTypeOK, CpuTypeOK, SupTypeOK,
           CpuLabels
  <2>3. \A d \in CPUs : d # c => gpc'[d] = gpc[d] /\ pcb'[d] = pcb[d]
    BY <1>a, <1>9 DEF SelectHighest, GhCall, GhLeave, GhStep, GhLoad, GhEmpty,
           GhSingle, GhLone, GhClear, GhWalk, GhReload, GhHead, GhAdvance,
           GhBehind, GhStore, GhFind, GhFollow, GhUnlink, GhRelink, Goto,
           Return, TypeOK, QueueTypeOK, SharedTypeOK, CountTypeOK, CpuTypeOK,
           SupTypeOK
  <2>4. /\ \/ cpc[c] = "select" /\ cpc'[c] = "gh"
           \/ cpc[c] = "gh" /\ cpc'[c] = "gh"
           \/ cpc[c] = "gh" /\ cpc'[c] = "setrun" /\ gpc'[c] = "out"
        /\ \A d \in CPUs : d # c => cpc'[d] = cpc[d]
    BY <1>a, <1>9 DEF SelectHighest, GhLeave, Goto, TypeOK, QueueTypeOK,
           SharedTypeOK, CountTypeOK, CpuTypeOK, SupTypeOK
  <2>5. UNCHANGED <<event, simState, simCurrent, current, spc, n, waking, after,
                    created, static_prior>> /\ static_prior
    BY <1>9 DEF SelectHighest
  <2>6. TypeOK'
    BY <1>a, <1>9, <2>1, <2>2 DEF SelectHighest, TypeOK, QueueTypeOK,
           SharedTypeOK, CountTypeOK, CpuTypeOK, SupTypeOK
  <2>7. CpuKnows'
    BY <1>a, <2>3, <2>4, <2>5 DEF CpuKnows
  <2>8. SupKnows' /\ HandlerIsolation' /\ NoLostIdleWakeup'
    BY <1>a, <2>4, <2>5 DEF SupKnows, HandlerIsolation, Busy, NoLostIdleWakeup
  <2>9. QED
    BY <1>b, <2>1, <2>6, <2>7, <2>8 DEF IInv
<1>10. CASE SetRunning(c)
  <2>1. CpuTypeOK' /\ CountTypeOK'
    BY <1>a, <1>10 DEF SetRunning, TypeOK, SharedTypeOK, CountTypeOK,
           CpuTypeOK, CpuLabels
  <2>2. QueueTypeOK' /\ SharedTypeOK' /\ SupTypeOK'
    BY <1>a, <1>10 DEF SetRunning, TypeOK, QueueTypeOK, SharedTypeOK,
           CpuTypeOK, SupTypeOK, ProcessStates
  <2>3. CpuKnows'
    BY <1>a, <1>10 DEF SetRunning, TypeOK, SharedTypeOK, CpuTypeOK, CpuKnows,
           Events, CpuStates
  <2>4. SupKnows' /\ HandlerIsolation' /\ NoLostIdleWakeup'
    BY <1>a, <1>10 DEF SetRunning, TypeOK, SharedTypeOK, CpuTypeOK, CpuKnows,
           SupKnows, WakeLabels, HandlerIsolation, Busy, NoLostIdleWakeup
  <2>5. QueueLocals'
    BY <1>c, <1>10 DEF SetRunning
  <2>6. QED
    BY <1>b, <2>1, <2>2, <2>3, <2>4, <2>5 DEF IInv, TypeOK
<1>11. CASE SwitchUnlock(c)
  <2>1. CpuTypeOK' /\ CountTypeOK'
    BY <1>a, <1>11 DEF SwitchUnlock, TypeOK, SharedTypeOK, CountTypeOK,
           CpuTypeOK, CpuLabels
  <2>2. QueueTypeOK' /\ SharedTypeOK' /\ SupTypeOK'
    BY <1>a, <1>11 DEF SwitchUnlock, TypeOK, QueueTypeOK, SharedTypeOK,
           CpuTypeOK, SupTypeOK
  <2>3. CpuKnows'
    BY <1>a, <1>11 DEF SwitchUnlock, TypeOK, SharedTypeOK, CpuTypeOK, CpuKnows,
           Events, CpuStates
  <2>4. SupKnows' /\ HandlerIsolation' /\ NoLostIdleWakeup'
    BY <1>a, <1>11 DEF SwitchUnlock, TypeOK, SharedTypeOK, CpuTypeOK, CpuKnows,
           SupKnows, WakeLabels, HandlerIsolation, Busy, NoLostIdleWakeup
  <2>5. QueueLocals'
    BY <1>c, <1>11 DEF SwitchUnlock
  <2>6. QED
    BY <1>b, <2>1, <2>2, <2>3, <2>4, <2>5 DEF IInv, TypeOK
<1>12. CASE SwitchSet(c)
  <2>1. CpuTypeOK' /\ CountTypeOK'
    BY <1>a, <1>12 DEF SwitchSet, TypeOK, SharedTypeOK, CountTypeOK, CpuTypeOK,
           CpuLabels
  <2>2. QueueTypeOK' /\ SharedTypeOK' /\ SupTypeOK'
    BY <1>a, <1>12 DEF SwitchSet, TypeOK, QueueTypeOK, SharedTypeOK, CpuTypeOK,
           SupTypeOK
  <2>3. CpuKnows'
    BY <1>a, <1>12 DEF SwitchSet, TypeOK, SharedTypeOK, CpuTypeOK, CpuKnows,
           Events, CpuStates
  <2>4. SupKnows' /\ HandlerIsolation' /\ NoLostIdleWakeup'
    BY <1>a, <1>12 DEF SwitchSet, TypeOK, SharedTypeOK, CpuTypeOK, CpuKnows,
           SupKnows, WakeLabels, HandlerIsolation, Busy, NoLostIdleWakeup
  <2>5. QueueLocals'
    BY <1>c, <1>12 DEF SwitchSet
  <2>6. QED
    BY <1>b, <2>1, <2>2, <2>3, <2>4, <2>5 DEF IInv, TypeOK
<1>13. CASE SwitchLock(c)
  <2>1. CpuTypeOK' /\ CountTypeOK'
    BY <1>a, <1>13 DEF SwitchLock, TypeOK, SharedTypeOK, CountTypeOK,
           CpuTypeOK, CpuLabels
  <2>2. QueueTypeOK' /\ SharedTypeOK' /\ SupTypeOK'
    BY <1>a, <1>13 DEF SwitchLock, TypeOK, QueueTypeOK, SharedTypeOK,
           CpuTypeOK, SupTypeOK
  <2>3. CpuKnows'
    BY <1>a, <1>13 DEF SwitchLock, TypeOK, SharedTypeOK, CpuTypeOK, CpuKnows,
           Events, CpuStates
  <2>4. SupKnows' /\ HandlerIsolation' /\ NoLostIdleWakeup'
    BY <1>a, <1>13 DEF SwitchLock, TypeOK, SharedTypeOK, CpuTypeOK, CpuKnows,
           SupKnows, WakeLabels, HandlerIsolation, Busy, NoLostIdleWakeup
  <2>5. QueueLocals'
    BY <1>c, <1>13 DEF SwitchLock
  <2>6. QED
    BY <1>b, <2>1, <2>2, <2>3, <2>4, <2>5 DEF IInv, TypeOK
<1>14. CASE LeaveHandler(c)
  <2>1. CpuTypeOK' /\ CountTypeOK'
    BY <1>a, <1>14 DEF LeaveHandler, TypeOK, SharedTypeOK, CountTypeOK,
           CpuTypeOK, CpuLabels
  <2>2. QueueTypeOK' /\ SharedTypeOK' /\ SupTypeOK'
    BY <1>a, <1>14 DEF LeaveHandler, TypeOK, QueueTypeOK, SharedTypeOK,
           CpuTypeOK, SupTypeOK
  <2>3. CpuKnows'
    BY <1>a, <1>14 DEF LeaveHandler, TypeOK, SharedTypeOK, CpuTypeOK, CpuKnows,
           Events, CpuStates
  <2>4. SupKnows' /\ HandlerIsolation' /\ NoLostIdleWakeup'
    BY <1>a, <1>14 DEF LeaveHandler, TypeOK, SharedTypeOK, CpuTypeOK, CpuKnows,
           SupKnows, WakeLabels, HandlerIsolation, Busy, NoLostIdleWakeup
  <2>5. QueueLocals'
    BY <1>c, <1>14 DEF LeaveHandler
  <2>6. QED
    BY <1>b, <2>1, <2>2, <2>3, <2>4, <2>5 DEF IInv, TypeOK
<1>15. CASE RequeueBesideGh(c)
  <2>1. cpc[c] \in {"requeue", "adding"} /\ pcb[c] \in Procs /\ static_prior
    BY <1>a, <1>15 DEF RequeueBesideGh, CpuKnows
  <2>2. QueueTypeOK' /\ QueueLocals'
    <3>1. /\ QueueTypeOK /\ AddLocals /\ GhLocals /\ UNCHANGED ghVars
          /\ AddCall \/ AddStep(pcb[c])
      BY <1>15 DEF RequeueBesideGh, IInv, TypeOK, QueueLocals
    <3>2. QueueTypeOK' /\ AddLocals'
      BY <2>1, <3>1, AddStepTyped
    <3>3. GhLocals'
      BY <3>1 DEF GhLocals
    <3>4. QED
      BY <3>2, <3>3 DEF QueueLocals
  <2> DEFINE g == [cpc EXCEPT ![c] = "select"]
  <2>3. /\ cpc \in [CPUs -> CpuLabels] /\ g \in [CPUs -> CpuLabels]
        /\ \A d \in CPUs : g[d] = IF d = c THEN "select" ELSE cpc[d]
    BY <1>a DEF TypeOK, CpuTypeOK, CpuLabels
  <2>4. \/ cpc' = [cpc EXCEPT ![c] = "adding"]
        \/ cpc' = Broadcast(g)
        \/ cpc[c] = "adding" /\ cpc' = cpc
    BY <1>15 DEF RequeueBesideGh
  <2> HIDE DEF g
  <2>5. /\ cpc' \in [CPUs -> CpuLabels]
        /\ \A d \in CPUs : \/ cpc'[d] = cpc[d] /\ (d = c => cpc[d] = "adding")
                           \/ d = c /\ cpc'[d] \in {"adding", "select"}
                           \/ cpc[d] = "idle_wait" /\ cpc'[d] = "idle"
    <3>1. CASE cpc' = [cpc EXCEPT ![c] = "adding"]
      BY <2>3, <3>1 DEF CpuLabels
    <3>2. CASE cpc' = Broadcast(g)
      BY <2>3, <3>2, BroadcastWakes
    <3>3. QED
      BY <2>3, <2>4, <3>1, <3>2
  <2>6. UNCHANGED <<event, pcb, supVars, configVars, studentVars, simCpuVars,
                    programVars, countVars, writers, gpc>>
    BY <1>15 DEF RequeueBesideGh
  <2>7. TypeOK'
    BY <1>a, <2>2, <2>5, <2>6 DEF TypeOK, SharedTypeOK, CountTypeOK, CpuTypeOK,
           SupTypeOK
  <2>8. CpuKnows'
    BY <1>a, <2>1, <2>5, <2>6 DEF CpuKnows
  <2>9. SupKnows' /\ HandlerIsolation'
    BY <1>a, <2>1, <2>5, <2>6 DEF CpuKnows, SupKnows, WakeLabels,
           HandlerIsolation, Busy
  <2>10. NoLostIdleWakeup'
    BY <2>1, <2>6 DEF NoLostIdleWakeup
  <2>11. QED
    BY <1>b, <2>2, <2>7, <2>8, <2>9, <2>10 DEF IInv
<1>16. QED
  BY <1>1, <1>2, <1>3, <1>4, <1>5, <1>6, <1>7, <1>8, <1>9, <1>10, <1>11, <1>12,
     <1>13, <1>14, <1>15
     DEF CpuStep

(* Every step of simulator_supervisor_thread() and of wake_up() keeps IInv. *)
LEMMA SupKeepsIInv ==
    ASSUME IInv, SupStep
    PROVE  IInv'
<1> USE PointersAreNotProcs, CpusAreNumbered, ProcsAreNumbered,
        ParametersAreLegal
    DEF outsideSup, aside, addVars, supLocals, sharedVars, configVars, ghVars,
        programVars, countVars, WriterLock, WriterUnlock, Pointers, SupGoto,
        NextCpu, Post, Signal, Simulate
<1>a. TypeOK /\ CpuKnows /\ SupKnows /\ HandlerIsolation /\ NoLostIdleWakeup
  BY DEF IInv
<1>b. UNCHANGED <<gpc, gcur, ghigh, greg, apc, acur>> => QueueLocals'
  BY DEF IInv, QueueLocals, GhLocals, AddLocals
<1>c. UNCHANGED <<cpc, current, simCurrent, pcb, simState, event, gpc>>
      => CpuKnows'
  BY DEF IInv, CpuKnows
<1>d. UNCHANGED <<ops, pc, ioQueue>> => IoKnows'
  BY DEF IInv, IoKnows, Blocked, Op
<1>e. UNCHANGED <<static_prior, cpc, q_head>> => NoLostIdleWakeup'
  BY DEF IInv, NoLostIdleWakeup
<1>1. CASE Tick
  <2>1. CountTypeOK' /\ SupTypeOK'
    BY <1>a, <1>1 DEF Tick, TypeOK, CountTypeOK, SupTypeOK, SupKnows,
           WakeLabels, SupLabels
  <2>2. QueueTypeOK' /\ SharedTypeOK' /\ CpuTypeOK'
    BY <1>a, <1>1 DEF Tick, TypeOK, QueueTypeOK, SharedTypeOK, CpuTypeOK,
           ProcessStates
  <2>3. SupKnows' /\ HandlerIsolation'
    BY <1>a, <1>1 DEF Tick, TypeOK, CountTypeOK, SupTypeOK, SupKnows,
           WakeLabels, HandlerIsolation, Busy
  <2>4. QueueLocals' /\ CpuKnows' /\ IoKnows' /\ NoLostIdleWakeup'
    BY <1>b, <1>c, <1>d, <1>e, <1>1 DEF Tick
  <2>5. QED
    BY <2>1, <2>2, <2>3, <2>4 DEF IInv, TypeOK
<1>2. CASE PrintGantt
  <2>1. CountTypeOK' /\ SupTypeOK'
    BY <1>a, <1>2 DEF PrintGantt, TypeOK, CountTypeOK, SupTypeOK, SupKnows,
           WakeLabels, SupLabels
  <2>2. QueueTypeOK' /\ SharedTypeOK' /\ CpuTypeOK'
    BY <1>a, <1>2 DEF PrintGantt, TypeOK, QueueTypeOK, SharedTypeOK, CpuTypeOK,
           ProcessStates
  <2>3. SupKnows' /\ HandlerIsolation'
    BY <1>a, <1>2 DEF PrintGantt, TypeOK, CountTypeOK, SupTypeOK, SupKnows,
           WakeLabels, HandlerIsolation, Busy
  <2>4. QueueLocals' /\ CpuKnows' /\ IoKnows' /\ NoLostIdleWakeup'
    BY <1>b, <1>c, <1>d, <1>e, <1>2 DEF PrintGantt
  <2>5. QED
    BY <2>1, <2>2, <2>3, <2>4 DEF IInv, TypeOK
<1>3. CASE EndTick
  <2>1. CountTypeOK' /\ SupTypeOK'
    BY <1>a, <1>3 DEF EndTick, TypeOK, CountTypeOK, SupTypeOK, SupKnows,
           WakeLabels, SupLabels
  <2>2. QueueTypeOK' /\ SharedTypeOK' /\ CpuTypeOK'
    BY <1>a, <1>3 DEF EndTick, TypeOK, QueueTypeOK, SharedTypeOK, CpuTypeOK,
           ProcessStates
  <2>3. SupKnows' /\ HandlerIsolation'
    BY <1>a, <1>3 DEF EndTick, TypeOK, CountTypeOK, SupTypeOK, SupKnows,
           WakeLabels, HandlerIsolation, Busy
  <2>4. QueueLocals' /\ CpuKnows' /\ IoKnows' /\ NoLostIdleWakeup'
    BY <1>b, <1>c, <1>d, <1>e, <1>3 DEF EndTick
  <2>5. QED
    BY <2>1, <2>2, <2>3, <2>4 DEF IInv, TypeOK
<1>4. CASE SkipCpu
  <2>1. CountTypeOK' /\ SupTypeOK'
    BY <1>a, <1>4 DEF SkipCpu, TypeOK, CountTypeOK, SupTypeOK, SupKnows,
           WakeLabels, SupLabels
  <2>2. QueueTypeOK' /\ SharedTypeOK' /\ CpuTypeOK'
    BY <1>a, <1>4 DEF SkipCpu, TypeOK, QueueTypeOK, SharedTypeOK, CpuTypeOK,
           ProcessStates
  <2>3. SupKnows' /\ HandlerIsolation'
    BY <1>a, <1>4 DEF SkipCpu, TypeOK, CountTypeOK, SupTypeOK, SupKnows,
           WakeLabels, HandlerIsolation, Busy
  <2>4. QueueLocals' /\ CpuKnows' /\ IoKnows' /\ NoLostIdleWakeup'
    BY <1>b, <1>c, <1>d, <1>e, <1>4 DEF SkipCpu
  <2>5. QED
    BY <2>1, <2>2, <2>3, <2>4 DEF IInv, TypeOK
<1>5. CASE Resume
  <2>1. CountTypeOK' /\ SupTypeOK'
    BY <1>a, <1>5 DEF Resume, TypeOK, CountTypeOK, SupTypeOK, SupKnows,
           WakeLabels, SupLabels
  <2>2. QueueTypeOK' /\ SharedTypeOK' /\ CpuTypeOK'
    BY <1>a, <1>5 DEF Resume, TypeOK, QueueTypeOK, SharedTypeOK, CpuTypeOK,
           ProcessStates
  <2>3. SupKnows' /\ HandlerIsolation'
    BY <1>a, <1>5 DEF Resume, TypeOK, CountTypeOK, SupTypeOK, SupKnows,
           WakeLabels, HandlerIsolation, Busy
  <2>4. QueueLocals' /\ CpuKnows' /\ IoKnows' /\ NoLostIdleWakeup'
    BY <1>b, <1>c, <1>d, <1>e, <1>5 DEF Resume
  <2>5. QED
    BY <2>1, <2>2, <2>3, <2>4 DEF IInv, TypeOK
<1>6. CASE CpusDone
  <2>1. CountTypeOK' /\ SupTypeOK'
    BY <1>a, <1>6 DEF CpusDone, TypeOK, CountTypeOK, SupTypeOK, SupKnows,
           WakeLabels, SupLabels
  <2>2. QueueTypeOK' /\ SharedTypeOK' /\ CpuTypeOK'
    BY <1>a, <1>6 DEF CpusDone, TypeOK, QueueTypeOK, SharedTypeOK, CpuTypeOK,
           ProcessStates
  <2>3. SupKnows' /\ HandlerIsolation'
    BY <1>a, <1>6 DEF CpusDone, TypeOK, CountTypeOK, SupTypeOK, SupKnows,
           WakeLabels, HandlerIsolation, Busy
  <2>4. QueueLocals' /\ CpuKnows' /\ IoKnows' /\ NoLostIdleWakeup'
    BY <1>b, <1>c, <1>d, <1>e, <1>6 DEF CpusDone
  <2>5. QED
    BY <2>1, <2>2, <2>3, <2>4 DEF IInv, TypeOK
<1>7. CASE IoIdle
  <2>1. CountTypeOK' /\ SupTypeOK'
    BY <1>a, <1>7 DEF IoIdle, TypeOK, CountTypeOK, SupTypeOK, SupKnows,
           WakeLabels, SupLabels
  <2>2. QueueTypeOK' /\ SharedTypeOK' /\ CpuTypeOK'
    BY <1>a, <1>7 DEF IoIdle, TypeOK, QueueTypeOK, SharedTypeOK, CpuTypeOK,
           ProcessStates
  <2>3. SupKnows' /\ HandlerIsolation'
    BY <1>a, <1>7 DEF IoIdle, TypeOK, CountTypeOK, SupTypeOK, SupKnows,
           WakeLabels, HandlerIsolation, Busy
  <2>4. QueueLocals' /\ CpuKnows' /\ IoKnows' /\ NoLostIdleWakeup'
    BY <1>b, <1>c, <1>d, <1>e, <1>7 DEF IoIdle
  <2>5. QED
    BY <2>1, <2>2, <2>3, <2>4 DEF IInv, TypeOK
<1>8. CASE Creat
  <2>1. CountTypeOK' /\ SupTypeOK'
    BY <1>a, <1>8 DEF Creat, TypeOK, CountTypeOK, SupTypeOK, SupKnows,
           WakeLabels, SupLabels
  <2>2. QueueTypeOK' /\ SharedTypeOK' /\ CpuTypeOK'
    BY <1>a, <1>8 DEF Creat, TypeOK, QueueTypeOK, SharedTypeOK, CpuTypeOK,
           ProcessStates
  <2>3. SupKnows' /\ HandlerIsolation'
    BY <1>a, <1>8 DEF Creat, TypeOK, CountTypeOK, SupTypeOK, SupKnows,
           WakeLabels, HandlerIsolation, Busy
  <2>4. QueueLocals' /\ CpuKnows' /\ IoKnows' /\ NoLostIdleWakeup'
    BY <1>b, <1>c, <1>d, <1>e, <1>8 DEF Creat
  <2>5. QED
    BY <2>1, <2>2, <2>3, <2>4 DEF IInv, TypeOK
<1>9. CASE WakeEnter
  <2>1. CountTypeOK' /\ SupTypeOK'
    BY <1>a, <1>9 DEF WakeEnter, TypeOK, CountTypeOK, SupTypeOK, SupKnows,
           WakeLabels, SupLabels
  <2>2. QueueTypeOK' /\ SharedTypeOK' /\ CpuTypeOK'
    BY <1>a, <1>9 DEF WakeEnter, TypeOK, QueueTypeOK, SharedTypeOK, CpuTypeOK,
           ProcessStates
  <2>3. SupKnows' /\ HandlerIsolation'
    BY <1>a, <1>9 DEF WakeEnter, TypeOK, CountTypeOK, SupTypeOK, SupKnows,
           WakeLabels, HandlerIsolation, Busy
  <2>4. QueueLocals' /\ CpuKnows' /\ IoKnows' /\ NoLostIdleWakeup'
    BY <1>b, <1>c, <1>d, <1>e, <1>9 DEF WakeEnter
  <2>5. QED
    BY <2>1, <2>2, <2>3, <2>4 DEF IInv, TypeOK
<1>10. CASE WakeReady
  <2>1. CountTypeOK' /\ SupTypeOK'
    BY <1>a, <1>10 DEF WakeReady, TypeOK, CountTypeOK, SupTypeOK, SupKnows,
           WakeLabels, SupLabels
  <2>2. QueueTypeOK' /\ SharedTypeOK' /\ CpuTypeOK'
    BY <1>a, <1>10 DEF WakeReady, TypeOK, QueueTypeOK, SharedTypeOK, CpuTypeOK,
           ProcessStates
  <2>3. SupKnows' /\ HandlerIsolation'
    BY <1>a, <1>10 DEF WakeReady, TypeOK, CountTypeOK, SupTypeOK, SupKnows,
           WakeLabels, HandlerIsolation, Busy
  <2>4. QueueLocals' /\ CpuKnows' /\ IoKnows' /\ NoLostIdleWakeup'
    BY <1>b, <1>c, <1>d, <1>e, <1>10 DEF WakeReady
  <2>5. QED
    BY <2>1, <2>2, <2>3, <2>4 DEF IInv, TypeOK
<1>11. CASE WakeLeave
  <2>1. CountTypeOK' /\ SupTypeOK'
    BY <1>a, <1>11 DEF WakeLeave, TypeOK, CountTypeOK, SupTypeOK, SupKnows,
           WakeLabels, SupLabels
  <2>2. QueueTypeOK' /\ SharedTypeOK' /\ CpuTypeOK'
    BY <1>a, <1>11 DEF WakeLeave, TypeOK, QueueTypeOK, SharedTypeOK, CpuTypeOK,
           ProcessStates
  <2>3. SupKnows' /\ HandlerIsolation'
    BY <1>a, <1>11 DEF WakeLeave, TypeOK, CountTypeOK, SupTypeOK, SupKnows,
           WakeLabels, HandlerIsolation, Busy
  <2>4. QueueLocals' /\ CpuKnows' /\ IoKnows' /\ NoLostIdleWakeup'
    BY <1>b, <1>c, <1>d, <1>e, <1>11 DEF WakeLeave
  <2>5. QED
    BY <2>1, <2>2, <2>3, <2>4 DEF IInv, TypeOK
<1>12. CASE WakeReturn
  <2>1. CountTypeOK' /\ SupTypeOK'
    BY <1>a, <1>12 DEF WakeReturn, TypeOK, CountTypeOK, SupTypeOK, SupKnows,
           WakeLabels, SupLabels
  <2>2. QueueTypeOK' /\ SharedTypeOK' /\ CpuTypeOK'
    BY <1>a, <1>12 DEF WakeReturn, TypeOK, QueueTypeOK, SharedTypeOK,
           CpuTypeOK, ProcessStates
  <2>3. SupKnows' /\ HandlerIsolation'
    BY <1>a, <1>12 DEF WakeReturn, TypeOK, CountTypeOK, SupTypeOK, SupKnows,
           WakeLabels, HandlerIsolation, Busy
  <2>4. QueueLocals' /\ CpuKnows' /\ IoKnows' /\ NoLostIdleWakeup'
    BY <1>b, <1>c, <1>d, <1>e, <1>12 DEF WakeReturn
  <2>5. QED
    BY <2>1, <2>2, <2>3, <2>4 DEF IInv, TypeOK
<1>13. CASE ScanTest
  <2>1. CountTypeOK' /\ SupTypeOK'
    BY <1>a, <1>13 DEF ScanTest, TypeOK, CountTypeOK, SupTypeOK, SupKnows,
           WakeLabels, SupLabels
  <2>2. QueueTypeOK' /\ SharedTypeOK' /\ CpuTypeOK'
    BY <1>a, <1>13 DEF ScanTest, TypeOK, QueueTypeOK, SharedTypeOK, CpuTypeOK,
           ProcessStates
  <2>3. SupKnows' /\ HandlerIsolation'
    BY <1>a, <1>13 DEF ScanTest, TypeOK, CountTypeOK, SupTypeOK, SupKnows,
           WakeLabels, HandlerIsolation, Busy
  <2>4. QueueLocals' /\ CpuKnows' /\ IoKnows' /\ NoLostIdleWakeup'
    BY <1>b, <1>c, <1>d, <1>e, <1>13 DEF ScanTest
  <2>5. QED
    BY <2>1, <2>2, <2>3, <2>4 DEF IInv, TypeOK
<1>14. CASE ScanCompare
  <2>1. CountTypeOK' /\ SupTypeOK'
    BY <1>a, <1>14, PrioritiesAreNumbers
       DEF ScanCompare, PriorityRead, TypeOK, CountTypeOK, SupTypeOK, SupKnows,
           WakeLabels, SupLabels
  <2>2. QueueTypeOK' /\ SharedTypeOK' /\ CpuTypeOK'
    BY <1>a, <1>14 DEF ScanCompare, PriorityRead, TypeOK,
           QueueTypeOK, SharedTypeOK,
           CpuTypeOK, ProcessStates
  <2>3. SupKnows' /\ HandlerIsolation'
    BY <1>a, <1>14 DEF ScanCompare, PriorityRead, TypeOK,
           CountTypeOK, SupTypeOK, SupKnows,
           WakeLabels, HandlerIsolation, Busy
  <2>4. QueueLocals' /\ CpuKnows' /\ IoKnows' /\ NoLostIdleWakeup'
    BY <1>b, <1>c, <1>d, <1>e, <1>14 DEF ScanCompare
  <2>5. QED
    BY <2>1, <2>2, <2>3, <2>4 DEF IInv, TypeOK
<1>15. CASE ScanDone
  <2>1. CountTypeOK' /\ SupTypeOK'
    BY <1>a, <1>15 DEF ScanDone, TypeOK, CountTypeOK, SupTypeOK, SupKnows,
           WakeLabels, SupLabels
  <2>2. QueueTypeOK' /\ SharedTypeOK' /\ CpuTypeOK'
    BY <1>a, <1>15 DEF ScanDone, TypeOK, QueueTypeOK, SharedTypeOK, CpuTypeOK,
           ProcessStates
  <2>3. SupKnows' /\ HandlerIsolation'
    BY <1>a, <1>15 DEF ScanDone, TypeOK, CountTypeOK, SupTypeOK, SupKnows,
           WakeLabels, HandlerIsolation, Busy
  <2>4. QueueLocals' /\ CpuKnows' /\ IoKnows' /\ NoLostIdleWakeup'
    BY <1>b, <1>c, <1>d, <1>e, <1>15 DEF ScanDone
  <2>5. QED
    BY <2>1, <2>2, <2>3, <2>4 DEF IInv, TypeOK
<1>16. CASE ForceUnlock
  <2>1. CountTypeOK' /\ SupTypeOK'
    BY <1>a, <1>16 DEF ForceUnlock, TypeOK, CountTypeOK, SupTypeOK, SupKnows,
           WakeLabels, SupLabels
  <2>2. QueueTypeOK' /\ SharedTypeOK' /\ CpuTypeOK'
    BY <1>a, <1>16 DEF ForceUnlock, TypeOK, QueueTypeOK, SharedTypeOK,
           CpuTypeOK, ProcessStates
  <2>3. SupKnows' /\ HandlerIsolation'
    BY <1>a, <1>16 DEF ForceUnlock, TypeOK, CountTypeOK, SupTypeOK, SupKnows,
           WakeLabels, HandlerIsolation, Busy
  <2>4. QueueLocals' /\ CpuKnows' /\ IoKnows' /\ NoLostIdleWakeup'
    BY <1>b, <1>c, <1>d, <1>e, <1>16 DEF ForceUnlock
  <2>5. QED
    BY <2>1, <2>2, <2>3, <2>4 DEF IInv, TypeOK
<1>17. CASE ForceResume
  <2>1. CountTypeOK' /\ SupTypeOK'
    BY <1>a, <1>17 DEF ForceResume, TypeOK, CountTypeOK, SupTypeOK, SupKnows,
           WakeLabels, SupLabels
  <2>2. QueueTypeOK' /\ SharedTypeOK' /\ CpuTypeOK'
    BY <1>a, <1>17 DEF ForceResume, TypeOK, QueueTypeOK, SharedTypeOK,
           CpuTypeOK, ProcessStates
  <2>3. SupKnows' /\ HandlerIsolation'
    BY <1>a, <1>17 DEF ForceResume, TypeOK, CountTypeOK, SupTypeOK, SupKnows,
           WakeLabels, HandlerIsolation, Busy
  <2>4. QueueLocals' /\ CpuKnows' /\ IoKnows' /\ NoLostIdleWakeup'
    BY <1>b, <1>c, <1>d, <1>e, <1>17 DEF ForceResume
  <2>5. QED
    BY <2>1, <2>2, <2>3, <2>4 DEF IInv, TypeOK
<1>18. CASE ForceRelock
  <2>1. CountTypeOK' /\ SupTypeOK'
    BY <1>a, <1>18 DEF ForceRelock, TypeOK, CountTypeOK, SupTypeOK, SupKnows,
           WakeLabels, SupLabels
  <2>2. QueueTypeOK' /\ SharedTypeOK' /\ CpuTypeOK'
    BY <1>a, <1>18 DEF ForceRelock, TypeOK, QueueTypeOK, SharedTypeOK,
           CpuTypeOK, ProcessStates
  <2>3. SupKnows' /\ HandlerIsolation'
    BY <1>a, <1>18 DEF ForceRelock, TypeOK, CountTypeOK, SupTypeOK, SupKnows,
           WakeLabels, HandlerIsolation, Busy
  <2>4. QueueLocals' /\ CpuKnows' /\ IoKnows' /\ NoLostIdleWakeup'
    BY <1>b, <1>c, <1>d, <1>e, <1>18 DEF ForceRelock
  <2>5. QED
    BY <2>1, <2>2, <2>3, <2>4 DEF IInv, TypeOK
<1>19. ASSUME NEW p \in Procs, Burst(p) PROVE IInv'
  <2>0. left \in [Procs -> Nat] /\ left[p] > 0
    BY <1>a, <1>19 DEF Burst, TypeOK, SharedTypeOK
  <2>a. left' = [left EXCEPT ![p] = left[p] - 1]
    BY <1>19 DEF Burst
  <2>b. left[p] - 1 \in Nat
    BY <2>0
  <2>1. left' \in [Procs -> Nat]
    BY <2>0, <2>a, <2>b
  <2>2. n \in CPUs
    BY <1>a, <1>19 DEF Burst, TypeOK, SupTypeOK
  <2>3. timer' = [timer EXCEPT ![n] = CountDown(timer[n])]
    BY <1>19 DEF Burst
  <2>4. timer \in [CPUs -> Int] /\ CountDown(timer[n]) \in Int
    BY <1>a, <2>2 DEF CountDown, TypeOK, SharedTypeOK
  <2>5. timer' \in [CPUs -> Int]
    BY <2>3, <2>4
  <2>6. simState' \in [CPUs -> CpuStates]
    BY <1>a, <1>19 DEF Burst, TypeOK, SharedTypeOK, CpuStates, Events
  <2>7. SharedTypeOK'
    BY <1>a, <1>19, <2>1, <2>5, <2>6 DEF Burst, TypeOK, SharedTypeOK
  <2>8. SupTypeOK'
    <3>1. missed' \in BOOLEAN
      BY <1>a, <1>19 DEF Burst, TypeOK, SupTypeOK
    <3>2. UNCHANGED <<hurried, waking, after, lows, stop>>
      BY <1>19 DEF Burst
    <3>3. spc' \in SupLabels /\ n' \in 0 .. cpu_count
      BY <1>a, <1>19 DEF Burst, TypeOK, SupTypeOK, SupLabels
    <3>4. QED
      BY <1>a, <3>1, <3>2, <3>3 DEF TypeOK, SupTypeOK
  <2>9. QueueTypeOK' /\ CpuTypeOK' /\ CountTypeOK'
    BY <1>a, <1>19 DEF Burst, TypeOK, QueueTypeOK, CpuTypeOK, CountTypeOK
  <2>10. SupKnows' /\ HandlerIsolation'
    <3>1. n \in CPUs
      BY <1>a, <1>19 DEF Burst, TypeOK, SupTypeOK
    <3>2. /\ spc = "cpus" /\ UNCHANGED <<waking, after, created, event, cpc>>
          /\ \/ spc' = "cpus" /\ simState' = simState
             \/ /\ spc' = "await" /\ n' = n
                /\ simState' = [simState EXCEPT ![n] = "CPU_PREEMPT"]
      BY <1>19 DEF Burst
    <3>3. SupKnows'
      BY <3>1, <3>2 DEF SupKnows, WakeLabels
    <3>4. HandlerIsolation'
      BY <1>a, <3>2 DEF TypeOK, SharedTypeOK, HandlerIsolation, Busy
    <3>5. QED
      BY <3>3, <3>4
  <2>11. CpuKnows'
    BY <1>a, <1>19 DEF Burst, TypeOK, SharedTypeOK, CpuKnows
  <2>12. QueueLocals' /\ IoKnows' /\ NoLostIdleWakeup'
    BY <1>b, <1>d, <1>e, <1>19 DEF Burst
  <2>13. QED
    BY <2>7, <2>8, <2>9, <2>10, <2>11, <2>12 DEF IInv, TypeOK
<1>20. ASSUME NEW p \in Procs, NotRunnable(p) PROVE IInv'
  <2>1. SupTypeOK'
    BY <1>a, <1>20 DEF NotRunnable, TypeOK, SupTypeOK, SupLabels
  <2>2. QueueTypeOK' /\ SharedTypeOK' /\ CpuTypeOK' /\ CountTypeOK'
    BY <1>a, <1>20 DEF NotRunnable, TypeOK, QueueTypeOK, SharedTypeOK,
           CpuTypeOK, CountTypeOK
  <2>3. SupKnows' /\ HandlerIsolation'
    BY <1>a, <1>20 DEF NotRunnable, SupKnows, WakeLabels, HandlerIsolation,
           Busy
  <2>4. QueueLocals' /\ CpuKnows' /\ IoKnows' /\ NoLostIdleWakeup'
    BY <1>b, <1>c, <1>d, <1>e, <1>20 DEF NotRunnable
  <2>5. QED
    BY <2>1, <2>2, <2>3, <2>4 DEF IInv, TypeOK
<1>21. ASSUME NEW p \in Procs, BurstToIo(p) PROVE IInv'
  <2> DEFINE request == [pcb |-> p, time |-> ops[p][pc[p] + 1].time]
  <2>1. /\ UNCHANGED ops /\ MoveOn(p) /\ Op(p).type = "OP_CPU"
        /\ ops[p][pc[p] + 1].type = "OP_IO"
        /\ ioQueue' = Append(ioQueue, request)
    BY <1>21 DEF BurstToIo
  <2>2. /\ pc' \in [Procs -> Nat] /\ left' \in [Procs -> Nat]
        /\ \A q \in Procs : pc'[q] \in 1 .. Len(ops[q])
        /\ Blocked' = Blocked \cup {p}
        /\ request \in Request /\ request.pcb = p
    BY <2>1, MoveOnKnows DEF IInv, Request
  <2> HIDE DEF request
  <2>3. ioQueue' \in Seq(Request) /\ OneRequestEach(ioQueue', Blocked')
    <3>1. Blocked \in SUBSET Procs /\ p \notin Blocked
      BY <2>1 DEF Blocked
    <3>2. ioQueue \in Seq(Request) /\ OneRequestEach(ioQueue, Blocked)
      BY DEF IInv, TypeOK, SharedTypeOK, IoKnows, Request
    <3>3. QED
      BY <2>1, <2>2, <3>1, <3>2, AppendRequest
  <2>4. IoKnows'
    BY <2>1, <2>2, <2>3 DEF IoKnows
  <2>5. simState' \in [CPUs -> CpuStates]
    BY <1>a, <1>21 DEF BurstToIo, TypeOK, SharedTypeOK, CpuStates, Events
  <2>6. SharedTypeOK'
    BY <1>a, <1>21, <2>2, <2>3, <2>5 DEF BurstToIo, TypeOK, SharedTypeOK,
           Request
  <2>7. SupTypeOK'
    BY <1>a, <1>21 DEF BurstToIo, TypeOK, SupTypeOK, SupLabels
  <2>8. QueueTypeOK' /\ CpuTypeOK' /\ CountTypeOK'
    BY <1>a, <1>21 DEF BurstToIo, TypeOK, QueueTypeOK, CpuTypeOK, CountTypeOK
  <2>9. SupKnows' /\ HandlerIsolation'
    <3>1. n \in CPUs
      BY <1>a, <1>21 DEF BurstToIo, TypeOK, SupTypeOK
    <3>2. /\ spc = "cpus" /\ UNCHANGED <<waking, after, created, event, cpc>>
          /\ spc' = "await" /\ n' = n
          /\ simState' = [simState EXCEPT ![n] = "CPU_YIELD"]
      BY <1>21 DEF BurstToIo
    <3>3. SupKnows'
      BY <3>1, <3>2 DEF SupKnows, WakeLabels
    <3>4. HandlerIsolation'
      BY <1>a, <3>2 DEF TypeOK, SharedTypeOK, HandlerIsolation, Busy
    <3>5. QED
      BY <3>3, <3>4
  <2>10. CpuKnows'
    BY <1>a, <1>21 DEF BurstToIo, TypeOK, SharedTypeOK, CpuKnows
  <2>11. QueueLocals' /\ NoLostIdleWakeup'
    BY <1>b, <1>e, <1>21 DEF BurstToIo
  <2>12. QED
    BY <2>4, <2>6, <2>7, <2>8, <2>9, <2>10, <2>11 DEF IInv, TypeOK
<1>22. ASSUME NEW p \in Procs, BurstToEnd(p) PROVE IInv'
  <2>1. /\ UNCHANGED <<ops, ioQueue>> /\ MoveOn(p) /\ Op(p).type = "OP_CPU"
        /\ ops[p][pc[p] + 1].type = "OP_TERMINATE"
    BY <1>22 DEF BurstToEnd
  <2>2. /\ pc' \in [Procs -> Nat] /\ left' \in [Procs -> Nat]
        /\ \A q \in Procs : pc'[q] \in 1 .. Len(ops[q])
        /\ Blocked' = Blocked \ {p}
    BY <2>1, MoveOnKnows DEF IInv
  <2>3. Blocked' = Blocked
    BY <2>1, <2>2 DEF Blocked
  <2>4. IoKnows'
    BY <2>1, <2>2, <2>3 DEF IInv, IoKnows
  <2>5. simState' \in [CPUs -> CpuStates]
    BY <1>a, <1>22 DEF BurstToEnd, TypeOK, SharedTypeOK, CpuStates, Events
  <2>6. SharedTypeOK'
    BY <1>a, <1>22, <2>2, <2>5 DEF BurstToEnd, TypeOK, SharedTypeOK
  <2>7. SupTypeOK'
    BY <1>a, <1>22 DEF BurstToEnd, TypeOK, SupTypeOK, SupLabels
  <2>8. QueueTypeOK' /\ CpuTypeOK' /\ CountTypeOK'
    BY <1>a, <1>22 DEF BurstToEnd, TypeOK, QueueTypeOK, CpuTypeOK, CountTypeOK
  <2>9. SupKnows' /\ HandlerIsolation'
    <3>1. n \in CPUs
      BY <1>a, <1>22 DEF BurstToEnd, TypeOK, SupTypeOK
    <3>2. /\ spc = "cpus" /\ UNCHANGED <<waking, after, created, event, cpc>>
          /\ spc' = "await" /\ n' = n
          /\ simState' = [simState EXCEPT ![n] = "CPU_TERMINATE"]
      BY <1>22 DEF BurstToEnd
    <3>3. SupKnows'
      BY <3>1, <3>2 DEF SupKnows, WakeLabels
    <3>4. HandlerIsolation'
      BY <1>a, <3>2 DEF TypeOK, SharedTypeOK, HandlerIsolation, Busy
    <3>5. QED
      BY <3>3, <3>4
  <2>10. CpuKnows'
    BY <1>a, <1>22 DEF BurstToEnd, TypeOK, SharedTypeOK, CpuKnows
  <2>11. QueueLocals' /\ NoLostIdleWakeup'
    BY <1>b, <1>e, <1>22 DEF BurstToEnd
  <2>12. QED
    BY <2>4, <2>6, <2>7, <2>8, <2>9, <2>10, <2>11 DEF IInv, TypeOK
<1>23. CASE IoTick
  <2>1. ioQueue \in Seq(Request) /\ OneRequestEach(ioQueue, Blocked)
    BY DEF IInv, TypeOK, SharedTypeOK, IoKnows, Request
  <2>2. ioQueue' \in Seq(Request) /\ OneRequestEach(ioQueue', Blocked)
    BY <1>23, <2>1, TickRequest DEF IoTick, Blocked
  <2>3. IoKnows'
    BY <1>23, <2>2 DEF IInv, IoKnows, IoTick, Blocked, Op
  <2>4. SharedTypeOK'
    BY <1>a, <1>23, <2>2 DEF IoTick, TypeOK, SharedTypeOK, Request
  <2>5. QueueTypeOK' /\ CountTypeOK' /\ CpuTypeOK' /\ SupTypeOK'
    BY <1>a, <1>23 DEF IoTick, TypeOK, QueueTypeOK, CountTypeOK, CpuTypeOK,
           SupTypeOK, SupLabels
  <2>6. SupKnows' /\ HandlerIsolation'
    BY <1>a, <1>23 DEF IoTick, SupKnows, WakeLabels, HandlerIsolation, Busy
  <2>7. QueueLocals' /\ CpuKnows' /\ NoLostIdleWakeup'
    BY <1>b, <1>c, <1>e, <1>23 DEF IoTick
  <2>8. QED
    BY <2>3, <2>4, <2>5, <2>6, <2>7 DEF IInv, TypeOK
<1>24. CASE IoComplete
  <2> DEFINE p == Head(ioQueue).pcb
  <2>1. /\ UNCHANGED ops /\ MoveOn(p)
        /\ ioQueue # <<>> /\ ioQueue' = Tail(ioQueue)
    BY <1>24 DEF IoComplete
  <2>2. /\ p \in Procs /\ Op(p).type = "OP_IO"
        /\ ioQueue' \in Seq(Request)
        /\ OneRequestEach(ioQueue', Blocked \ {p})
    <3>1. Blocked \in SUBSET Procs
      BY DEF Blocked
    <3>2. ioQueue \in Seq(Request) /\ OneRequestEach(ioQueue, Blocked)
      BY DEF IInv, TypeOK, SharedTypeOK, IoKnows, Request
    <3>3. QED
      BY <2>1, <3>1, <3>2, TailRequest DEF Blocked
  <2>3. waking' = p
    BY <1>24 DEF IoComplete
  <2> HIDE DEF p
  <2>4. /\ pc' \in [Procs -> Nat] /\ left' \in [Procs -> Nat]
        /\ \A q \in Procs : pc'[q] \in 1 .. Len(ops[q])
        /\ Blocked' = Blocked \ {p}
    BY <2>1, <2>2, MoveOnKnows DEF IInv
  <2>5. IoKnows'
    BY <2>1, <2>2, <2>4 DEF IoKnows
  <2>6. SharedTypeOK'
    BY <1>a, <1>24, <2>2, <2>4 DEF IoComplete, TypeOK, SharedTypeOK, Request
  <2>7. QueueTypeOK' /\ CountTypeOK' /\ CpuTypeOK' /\ SupTypeOK'
    BY <1>a, <1>24, <2>2, <2>3 DEF IoComplete, TypeOK, QueueTypeOK,
           CountTypeOK, CpuTypeOK, SupTypeOK, SupLabels
  <2>8. SupKnows' /\ HandlerIsolation'
    BY <1>a, <1>24, <2>2, <2>3 DEF IoComplete, SupKnows, WakeLabels,
           HandlerIsolation, Busy
  <2>9. QueueLocals' /\ CpuKnows' /\ NoLostIdleWakeup'
    BY <1>b, <1>c, <1>e, <1>24 DEF IoComplete
  <2>10. QED
    BY <2>5, <2>6, <2>7, <2>8, <2>9 DEF IInv, TypeOK
<1>25. CASE WakeAdd
  <2>1. waking \in Procs
    BY <1>a, <1>25 DEF WakeAdd, SupKnows, WakeLabels
  <2>2. q_head' \in Pointers /\ next' \in [Procs -> Pointers]
    BY <1>a, <1>25, <2>1, AddQueueTyped DEF WakeAdd, TypeOK, QueueTypeOK
  <2>3. cpc \in [CPUs -> CpuLabels]
    BY <1>a DEF TypeOK, CpuTypeOK
  <2>4. \/ /\ AddQueueSpins(waking) /\ spc' = "spin"
           /\ UNCHANGED <<cpc, q_head>>
        \/ /\ ~AddQueueSpins(waking) /\ cpc' = Broadcast(cpc)
           /\ spc' = "wake_leave"
    BY <1>25 DEF WakeAdd
  <2>5. /\ cpc' \in [CPUs -> CpuLabels]
        /\ \A c \in CPUs : \/ cpc'[c] = cpc[c]
                           \/ cpc[c] = "idle_wait" /\ cpc'[c] = "idle"
    BY <2>3, <2>4, BroadcastWakes
  <2>6. ~AddQueueSpins(waking) => \A c \in CPUs : cpc'[c] # "idle_wait"
    BY <2>3, <2>4, BroadcastWakes
  <2>7. QueueTypeOK' /\ CpuTypeOK'
    BY <1>a, <1>25, <2>2, <2>5 DEF WakeAdd, TypeOK, QueueTypeOK, CpuTypeOK
  <2>8. SharedTypeOK' /\ CountTypeOK'
    BY <1>a, <1>25 DEF WakeAdd, TypeOK, SharedTypeOK, CountTypeOK
  <2>9. SupTypeOK'
    BY <1>a, <1>25, <2>4 DEF WakeAdd, TypeOK, SupTypeOK, SupLabels
  <2>10. CpuKnows'
    BY <1>a, <1>25, <2>5 DEF WakeAdd, CpuKnows
  <2>11. SupKnows'
    BY <1>a, <1>25, <2>1, <2>4 DEF WakeAdd, SupKnows, WakeLabels
  <2>12. HandlerIsolation'
    BY <1>a, <1>25, <2>5 DEF WakeAdd, HandlerIsolation, Busy
  <2>13. NoLostIdleWakeup'
    BY <1>a, <1>25, <2>4, <2>6 DEF WakeAdd, NoLostIdleWakeup
  <2>14. QueueLocals' /\ IoKnows'
    BY <1>b, <1>d, <1>25 DEF WakeAdd
  <2>15. QED
    BY <2>7, <2>8, <2>9, <2>10, <2>11, <2>12, <2>13, <2>14 DEF IInv, TypeOK
<1>26. CASE ForcePost
  <2>1. n \in CPUs
    BY <1>a, <1>26 DEF ForcePost, SupKnows
  <2>2. simState' \in [CPUs -> CpuStates]
    BY <1>a, <1>26, <2>1 DEF ForcePost, TypeOK, SharedTypeOK, CpuStates, Events
  <2>3. SharedTypeOK'
    BY <1>a, <1>26, <2>2 DEF ForcePost, TypeOK, SharedTypeOK
  <2>4. QueueTypeOK' /\ CountTypeOK' /\ CpuTypeOK' /\ SupTypeOK'
    BY <1>a, <1>26 DEF ForcePost, TypeOK, QueueTypeOK, CountTypeOK, CpuTypeOK,
           SupTypeOK, SupLabels
  <2>5. SupKnows' /\ HandlerIsolation'
    BY <1>a, <1>26, <2>1 DEF ForcePost, TypeOK, SharedTypeOK, SupKnows,
           WakeLabels, HandlerIsolation, Busy
  <2>6. CpuKnows'
    BY <1>a, <1>26 DEF ForcePost, TypeOK, SharedTypeOK, CpuKnows
  <2>7. QueueLocals' /\ IoKnows' /\ NoLostIdleWakeup'
    BY <1>b, <1>d, <1>e, <1>26 DEF ForcePost
  <2>8. QED
    BY <2>3, <2>4, <2>5, <2>6, <2>7 DEF IInv, TypeOK
<1>27. CASE WakeAddBesideGh
  <2>1. /\ waking \in Procs /\ spc \in {"wake_add", "wake_adding"}
        /\ static_prior
    BY <1>a, <1>27 DEF WakeAddBesideGh, SupKnows, WakeLabels
  <2>2. QueueTypeOK' /\ QueueLocals'
    <3>1. /\ QueueTypeOK /\ AddLocals /\ GhLocals /\ UNCHANGED ghVars
          /\ AddCall \/ AddStep(waking)
      BY <1>27 DEF WakeAddBesideGh, IInv, TypeOK, QueueLocals
    <3>2. QueueTypeOK' /\ AddLocals'
      BY <2>1, <3>1, AddStepTyped
    <3>3. GhLocals'
      BY <3>1 DEF GhLocals
    <3>4. QED
      BY <3>2, <3>3 DEF QueueLocals
  <2>3. cpc \in [CPUs -> CpuLabels]
    BY <1>a DEF TypeOK, CpuTypeOK
  <2>4. /\ cpc' = cpc \/ cpc' = Broadcast(cpc)
        /\ spc' \in {"wake_adding", "scan"} /\ n' = 0 /\ lows' = 10
    BY <1>27 DEF WakeAddBesideGh
  <2>5. /\ cpc' \in [CPUs -> CpuLabels]
        /\ \A c \in CPUs : \/ cpc'[c] = cpc[c]
                           \/ cpc[c] = "idle_wait" /\ cpc'[c] = "idle"
    BY <2>3, <2>4, BroadcastWakes
  <2>6. UNCHANGED <<gpc, configVars, current, simCurrent, event, pcb, missed,
                    hurried, waking, after, stop, state, simState, timer,
                    programVars, countVars, writers>>
    BY <1>27 DEF WakeAddBesideGh
  <2>7. SharedTypeOK' /\ CountTypeOK' /\ CpuTypeOK'
    BY <1>a, <2>5, <2>6 DEF TypeOK, SharedTypeOK, CountTypeOK, CpuTypeOK
  <2>8. SupTypeOK'
    BY <1>a, <2>4, <2>6 DEF TypeOK, SupTypeOK, SupLabels
  <2>9. CpuKnows'
    BY <1>a, <2>5, <2>6 DEF CpuKnows
  <2>10. SupKnows' /\ HandlerIsolation'
    BY <1>a, <2>1, <2>4, <2>5, <2>6 DEF SupKnows, WakeLabels, HandlerIsolation,
           Busy
  <2>11. NoLostIdleWakeup' /\ IoKnows'
    BY <1>d, <2>1, <2>6 DEF NoLostIdleWakeup
  <2>12. QED
    BY <2>2, <2>7, <2>8, <2>9, <2>10, <2>11 DEF IInv, TypeOK
<1>28. CASE ScanTake
  <2>1. n \in CPUs /\ waking \in Procs /\ spc = "scan_take"
    BY <1>a, <1>28 DEF ScanTake, SupKnows, WakeLabels
  <2>2. lows' \in Nat /\ stop' \in CPUs /\ n' \in 0 .. cpu_count
    BY <1>a, <1>28, <2>1, PrioritiesAreNumbers
       DEF ScanTake, PriorityRead, TypeOK, SupTypeOK
  <2>3. CountTypeOK' /\ SupTypeOK'
    BY <1>a, <1>28, <2>2 DEF ScanTake, TypeOK, CountTypeOK, SupTypeOK, SupLabels
  <2>4. QueueTypeOK' /\ SharedTypeOK' /\ CpuTypeOK'
    BY <1>a, <1>28 DEF ScanTake, TypeOK, QueueTypeOK, SharedTypeOK, CpuTypeOK
  <2>5. SupKnows' /\ HandlerIsolation'
    BY <1>a, <1>28, <2>1 DEF ScanTake, SupKnows, WakeLabels, HandlerIsolation,
           Busy
  <2>6. QueueLocals' /\ CpuKnows' /\ IoKnows' /\ NoLostIdleWakeup'
    BY <1>b, <1>c, <1>d, <1>e, <1>28 DEF ScanTake
  <2>7. QED
    BY <2>3, <2>4, <2>5, <2>6 DEF IInv, TypeOK
<1>29. QED
  BY <1>1, <1>2, <1>3, <1>4, <1>5, <1>6, <1>7, <1>8, <1>9, <1>10, <1>11, <1>12,
     <1>13, <1>14, <1>15, <1>16, <1>17, <1>18, <1>19, <1>20, <1>21, <1>22,
     <1>23, <1>24, <1>25, <1>26, <1>27, <1>28
     DEF SupStep

-----------------------------------------------------------------------------
(* Every step of Next, and a stutter, keeps IInv.                           *)
LEMMA IInvStep == IInv /\ [Next]_vars => IInv'
<1> SUFFICES ASSUME IInv, [Next]_vars PROVE IInv'
  OBVIOUS
<1>1. CASE CpuNext
  BY <1>1, CpuKeepsIInv DEF CpuNext
<1>2. CASE SupNext
  BY <1>2, SupKeepsIInv DEF SupNext
<1>3. CASE UNCHANGED vars
  <2>1. UNCHANGED <<queueVars, configVars, studentVars, simCpuVars, programVars,
                    countVars, writers, cpuVars, supVars>>
    BY <1>3 DEF vars
  <2>2. QueueTypeOK' /\ QueueLocals'
    BY <2>1 DEF IInv, queueVars, ghVars, addVars, TypeOK, QueueTypeOK,
           QueueLocals, GhLocals, AddLocals
  <2>3. SharedTypeOK'
    BY <2>1 DEF IInv, configVars, studentVars, simCpuVars, programVars, TypeOK,
           SharedTypeOK
  <2>4. CountTypeOK' /\ CpuTypeOK'
    BY <2>1 DEF IInv, countVars, cpuVars, TypeOK, CountTypeOK, CpuTypeOK
  <2>5. SupTypeOK' /\ SupKnows'
    BY <2>1 DEF IInv, supVars, countVars, TypeOK, SupTypeOK, SupKnows
  <2>6. CpuKnows'
    BY <2>1 DEF IInv, queueVars, ghVars, studentVars, simCpuVars, cpuVars,
           CpuKnows
  <2>7. IoKnows'
    BY <2>1 DEF IInv, configVars, programVars, IoKnows, Blocked, Op
  <2>8. HandlerIsolation' /\ NoLostIdleWakeup'
    BY <2>1 DEF IInv, queueVars, configVars, simCpuVars, cpuVars, supVars,
           HandlerIsolation, Busy, NoLostIdleWakeup
  <2>9. QED
    BY <2>2, <2>3, <2>4, <2>5, <2>6, <2>7, <2>8 DEF IInv, TypeOK
<1>4. QED
  BY <1>1, <1>2, <1>3 DEF Next, Stopped

(* The inductive invariant holds in every state the threads can reach.      *)
THEOREM IInvHolds == Spec => []IInv
BY IInvInit, IInvStep, PTL DEF Spec

(* Every variable of the three kinds of threads keeps its type.             *)
THEOREM TypeCorrect == Spec => []TypeOK
<1>1. IInv => TypeOK
  BY DEF IInv
<1>2. QED
  BY <1>1, IInvHolds, PTL

(* Scheduling a CPU excludes every other handler, wake_up() and the printer,*)
(* for any number of CPUs, any policy and any speed of the supervisor.      *)
THEOREM HandlersAreIsolated == Spec => []HandlerIsolation
<1>1. IInv => HandlerIsolation
  BY DEF IInv
<1>2. QED
  BY <1>1, IInvHolds, PTL

(* addqueue()'s broadcast is never missed by idle().                        *)
THEOREM IdleWakeupsAreNotLost == Spec => []NoLostIdleWakeup
<1>1. IInv => NoLostIdleWakeup
  BY DEF IInv
<1>2. QED
  BY <1>1, IInvHolds, PTL

(* A handler finds in current[] the process that the simulator ran there.   *)
THEOREM HandlersFindTheirProcess == Spec => []HandlerFindsItsProcess
<1>1. IInv => HandlerFindsItsProcess
  BY DEF IInv, CpuKnows, HandlerFindsItsProcess
<1>2. QED
  BY <1>1, IInvHolds, PTL

(* The I/O queue and the pcs fit, whatever the programs: simulate_io() and  *)
(* simulate_process() never advance the same pc.                            *)
THEOREM OneIoRequestPerBlockedProcess == Spec => []IoRequestPerBlockedProcess
<1>1. ASSUME IInv PROVE IoRequestPerBlockedProcess
  <2>1. ioQueue \in Seq(Request) /\ DOMAIN ioQueue = 1 .. Len(ioQueue)
    BY <1>1, LenProperties DEF IInv, TypeOK, SharedTypeOK, Request
  <2> SUFFICES ASSUME NEW p \in Procs
               PROVE  /\ pc[p] \in DOMAIN ops[p]
                      /\ p \in Blocked => \E i \in DOMAIN ioQueue :
                                              IoRequests(p) = {i}
                      /\ p \notin Blocked => IoRequests(p) = {}
    BY DEF IoRequestPerBlockedProcess, Blocked
  <2>2. ops[p] \in Seq([type : OpTypes, time : Nat])
    BY <1>1, ProgramsAlternate DEF IInv, TypeOK, SharedTypeOK, LegalProgram
  <2>3. pc[p] \in DOMAIN ops[p]
    BY <1>1, <2>2, LenProperties DEF IInv, IoKnows
  <2>4. ASSUME p \in Blocked
        PROVE  \E i \in DOMAIN ioQueue : IoRequests(p) = {i}
    <3>1. PICK i \in 1 .. Len(ioQueue) : ioQueue[i].pcb = p
      BY <1>1, <2>4 DEF IInv, IoKnows, OneRequestEach
    <3>2. IoRequests(p) = {i}
      BY <1>1, <2>1, <3>1 DEF IInv, IoKnows, OneRequestEach, IoRequests
    <3>3. QED
      BY <2>1, <3>2
  <2>5. p \notin Blocked => IoRequests(p) = {}
    BY <1>1, <2>1 DEF IInv, IoKnows, OneRequestEach, IoRequests
  <2>6. QED
    BY <2>3, <2>4, <2>5
<1>2. QED
  BY <1>1, IInvHolds, PTL

-----------------------------------------------------------------------------
(* Which way a CPU thread came to schedule(): by idle() with no event, or   *)
(* by a handler with one.                                                   *)
WayKnows ==
    \A c \in CPUs :
        /\ cpc[c] \in {"idle", "idle_wait", "parked"} => event[c] = "CPU_IDLE"
        /\ cpc[c] \in {"requeue", "adding", "leave", "spin"}
              => event[c] # "CPU_IDLE"

(* student_lock.writers, thread by thread.  A handler holds the lock except *)
(* inside context_switch(); idle() never takes it, so its context_switch()  *)
(* gives back one lock too many for a while; wake_up() holds it except      *)
(* inside force_preempt().                                                  *)
Locked ==
    {c \in CPUs : /\ event[c] # "CPU_IDLE"
                  /\ cpc[c] \in {"handler", "requeue", "adding", "spin",
                                 "select", "gh", "setrun", "cs_unlock",
                                 "leave"}}

Released ==
    {c \in CPUs : event[c] = "CPU_IDLE" /\ cpc[c] \in {"cs_set", "cs_lock"}}

WakeUpHolds ==
    spc \in {"wake_ready", "wake_add", "wake_adding", "spin", "scan",
             "scan_cmp", "scan_take", "fault", "fp_unlock", "wake_leave"}

WritersAre ==
    writers = Cardinality(Locked) - Cardinality(Released)
                + (IF WakeUpHolds THEN 1 ELSE 0)

(* The processes at the end of their program, and the CPU threads that have *)
(* been told of such an end and have not counted it.                        *)
AtEnd == {p \in Procs : Op(p).type = "OP_TERMINATE"}

Uncounted ==
    {c \in CPUs : \/ cpc[c] = "count"
                  \/ cpc[c] = "parked" /\ simState[c] = "CPU_TERMINATE"}

CountKnows ==
    /\ terminated + Cardinality(Uncounted) <= Cardinality(AtEnd)
    /\ spc = "exit" => terminated >= PROCESS_COUNT

SupInv == IInv /\ WayKnows /\ WritersAre /\ CountKnows

-----------------------------------------------------------------------------
(* Every set of CPUs, and every set of processes, can be counted.           *)
LEMMA Countable ==
    /\ IsFiniteSet(CPUs) /\ IsFiniteSet(Procs)
    /\ \A S \in SUBSET CPUs : IsFiniteSet(S) /\ Cardinality(S) \in Nat
    /\ \A S \in SUBSET Procs : IsFiniteSet(S) /\ Cardinality(S) \in Nat
    /\ \A S \in SUBSET Procs : Cardinality(S) >= PROCESS_COUNT => S = Procs
<1>1. IsFiniteSet(CPUs)
  BY CpusAreNumbered, FS_Interval
<1>2. IsFiniteSet(Procs) /\ Cardinality(Procs) = PROCESS_COUNT
  BY ProcsAreNumbered, FS_Interval
<1>3. \A S \in SUBSET CPUs : IsFiniteSet(S) /\ Cardinality(S) \in Nat
  BY <1>1, FS_Subset, FS_CardinalityType
<1>4. \A S \in SUBSET Procs : IsFiniteSet(S) /\ Cardinality(S) \in Nat
  BY <1>2, FS_Subset, FS_CardinalityType
<1>5. ASSUME NEW S \in SUBSET Procs, Cardinality(S) >= PROCESS_COUNT
      PROVE  S = Procs
  <2>1. /\ Cardinality(S) <= Cardinality(Procs)
        /\ Cardinality(Procs) = Cardinality(S) => S = Procs
    BY <1>2, FS_Subset
  <2>2. Cardinality(S) \in Nat /\ PROCESS_COUNT \in Nat
    BY <1>4, ProcsAreNumbered
  <2>3. QED
    BY <1>2, <1>5, <2>1, <2>2
<1>6. QED
  BY <1>1, <1>2, <1>3, <1>4, <1>5

(* How the sizes of two sets compare that agree but for one element.        *)
LEMMA OneDiffers ==
    ASSUME NEW C, IsFiniteSet(C), NEW S \in SUBSET C, NEW T \in SUBSET C,
           NEW c \in C, \A d \in C \ {c} : d \in T <=> d \in S
    PROVE  /\ Cardinality(S) \in Nat /\ Cardinality(T) \in Nat
           /\ (c \in T <=> c \in S) => Cardinality(T) = Cardinality(S)
           /\ c \in T /\ c \notin S => Cardinality(T) = Cardinality(S) + 1
           /\ c \notin T /\ c \in S => Cardinality(T) = Cardinality(S) - 1
<1>1. \A d : d # c => (d \in T <=> d \in S)
  OBVIOUS
<1>2. IsFiniteSet(S) /\ IsFiniteSet(T)
  BY FS_Subset
<1>3. Cardinality(S) \in Nat /\ Cardinality(T) \in Nat
  BY <1>2, FS_CardinalityType
<1>4. ASSUME c \in T <=> c \in S PROVE Cardinality(T) = Cardinality(S)
  <2>1. T = S
    BY <1>1, <1>4
  <2>2. QED
    BY <2>1
<1>5. ASSUME c \in T, c \notin S PROVE Cardinality(T) = Cardinality(S) + 1
  <2>1. T = S \cup {c}
    BY <1>1, <1>5
  <2>2. QED
    BY <1>2, <1>5, <2>1, FS_AddElement
<1>6. ASSUME c \notin T, c \in S PROVE Cardinality(T) = Cardinality(S) - 1
  <2>1. T = S \ {c}
    BY <1>1, <1>6
  <2>2. QED
    BY <1>2, <1>6, <2>1, FS_RemoveElement
<1>7. QED
  BY <1>3, <1>4, <1>5, <1>6

(* What a step of CPU thread c leaves to another CPU thread d: everything,  *)
(* but that addqueue() wakes it in idle().                                  *)
LEMMA OthersKeep ==
    ASSUME IInv, NEW c \in CPUs, CpuStep(c), NEW d \in CPUs, d # c
    PROVE  /\ event'[d] = event[d] /\ simState'[d] = simState[d]
           /\ current'[d] = current[d]
           /\ \/ cpc'[d] = cpc[d]
              \/ cpc[d] = "idle_wait" /\ cpc'[d] = "idle"
<1> USE DEF Step, supVars, queueVars, ghVars, addVars, configVars, studentVars,
        simCpuVars, programVars, countVars
<1>1. /\ cpc \in [CPUs -> CpuLabels] /\ event \in [CPUs -> CpuStates]
      /\ simState \in [CPUs -> CpuStates]
      /\ current \in [CPUs -> Pointers \cup {WILD}]
  BY DEF IInv, TypeOK, CpuTypeOK, SharedTypeOK
<1>2. CASE LoopTop(c)
  BY <1>1, <1>2 DEF LoopTop
<1>3. CASE Requeue(c)
  <2> DEFINE g == [cpc EXCEPT ![c] = "select"]
  <2>1. g \in [CPUs -> CpuLabels] /\ g[d] = cpc[d]
    BY <1>1 DEF CpuLabels
  <2>2. cpc' = Broadcast(g) \/ cpc' = [cpc EXCEPT ![c] = "spin"]
    BY <1>3 DEF Requeue
  <2>3. \/ cpc'[d] = cpc[d]
        \/ cpc[d] = "idle_wait" /\ cpc'[d] = "idle"
    BY <1>1, <2>1, <2>2, BroadcastWakes
  <2>4. QED
    BY <1>3, <2>3 DEF Requeue
<1>4. CASE SetRunning(c)
  BY <1>1, <1>4 DEF SetRunning
<1>5. CASE SelectFirst(c) \/ SelectHighest(c)
  BY <1>1, <1>5 DEF SelectFirst, SelectHighest
<1>6. CASE \/ Dispatch(c) \/ CountTerminated(c) \/ EnterHandler(c)
           \/ Handler(c) \/ Idle(c) \/ SwitchUnlock(c) \/ SwitchSet(c)
           \/ SwitchLock(c) \/ LeaveHandler(c)
  BY <1>1, <1>6 DEF Dispatch, CountTerminated, EnterHandler, Handler, Idle,
     SwitchUnlock, SwitchSet, SwitchLock, LeaveHandler
<1>7. CASE RequeueBesideGh(c)
  <2> DEFINE g == [cpc EXCEPT ![c] = "select"]
  <2>1. g \in [CPUs -> CpuLabels] /\ g[d] = cpc[d]
    BY <1>1 DEF CpuLabels
  <2>2. \/ cpc' = [cpc EXCEPT ![c] = "adding"]
        \/ cpc' = Broadcast(g) \/ cpc' = cpc
    BY <1>7 DEF RequeueBesideGh
  <2>3. \/ cpc'[d] = cpc[d]
        \/ cpc[d] = "idle_wait" /\ cpc'[d] = "idle"
    BY <1>1, <2>1, <2>2, BroadcastWakes
  <2>4. QED
    BY <1>7, <2>3 DEF RequeueBesideGh
<1>8. QED
  BY <1>2, <1>3, <1>4, <1>5, <1>6, <1>7 DEF CpuStep

(* What a step of CPU thread c does to c: along which edge of its control   *)
(* it goes, and what becomes of its event, of its current[] and of the      *)
(* variables that are counted here.                                         *)
Along(c, from, to) ==
    cpc[c] = from /\ cpc'[c] = to /\ event'[c] = event[c]

CpuEdge(c) ==
    \/ /\ cpc[c] = "top" /\ event'[c] = "CPU_IDLE"
       /\ \/ cpc'[c] = "parked" /\ simState'[c] = "CPU_RUNNING"
          \/ cpc'[c] = "idle" /\ simCurrent[c] = NULL
       /\ UNCHANGED <<writers, terminated, current>>
    \/ /\ cpc[c] = "parked" /\ event'[c] \in Events
       /\ cpc'[c] = IF simState[c] = "CPU_TERMINATE" THEN "count" ELSE "enter"
       /\ UNCHANGED <<writers, terminated, current, simState>>
    \/ /\ Along(c, "count", "enter") /\ terminated' = terminated + 1
       /\ UNCHANGED <<writers, current, simState>>
    \/ /\ Along(c, "enter", "handler") /\ writers' = writers + 1
       /\ UNCHANGED <<terminated, current, simState>>
    \/ /\ Along(c, "idle", "idle_wait") \/ Along(c, "idle", "select")
       /\ UNCHANGED <<writers, terminated, current, simState>>
    \/ /\ \/ Along(c, "handler", "select") \/ Along(c, "select", "setrun")
          \/ Along(c, "handler", "requeue") /\ event[c] = "CPU_PREEMPT"
          \/ Along(c, "requeue", "spin") \/ Along(c, "requeue", "select")
          \/ Along(c, "requeue", "adding") \/ Along(c, "adding", "adding")
          \/ Along(c, "adding", "select")
          \/ Along(c, "select", "gh") \/ Along(c, "gh", "setrun")
          \/ Along(c, "gh", "gh") \/ Along(c, "cs_set", "cs_lock")
       /\ UNCHANGED <<writers, terminated, current, simState>>
    \/ /\ Along(c, "setrun", "cs_unlock") /\ current'[c] \in Pointers
       /\ UNCHANGED <<writers, terminated, simState>>
    \/ /\ Along(c, "cs_unlock", "cs_set") /\ writers' = writers - 1
       /\ UNCHANGED <<terminated, current, simState>>
    \/ /\ \/ Along(c, "cs_lock", "top") /\ event[c] = "CPU_IDLE"
          \/ Along(c, "cs_lock", "leave") /\ event[c] # "CPU_IDLE"
       /\ writers' = writers + 1
       /\ UNCHANGED <<terminated, current, simState>>
    \/ /\ Along(c, "leave", "top") /\ writers' = writers - 1
       /\ UNCHANGED <<terminated, current, simState>>

(* Every step of a CPU thread goes along one of these edges.                *)
LEMMA CpuEdges ==
    ASSUME IInv, NEW c \in CPUs, CpuStep(c)
    PROVE  CpuEdge(c)
<1> USE DEF Step, supVars, queueVars, ghVars, addVars, configVars, studentVars,
        simCpuVars, programVars, countVars, WriterLock, WriterUnlock
<1>1. /\ cpc \in [CPUs -> CpuLabels] /\ event \in [CPUs -> CpuStates]
      /\ simState \in [CPUs -> CpuStates]
      /\ current \in [CPUs -> Pointers \cup {WILD}]
      /\ pcb \in [CPUs -> Pointers]
      /\ cpc[c] = "parked" => simState[c] # "CPU_IDLE"
  BY DEF IInv, TypeOK, CpuTypeOK, SharedTypeOK, CpuKnows
<1>2. CASE LoopTop(c)
  BY <1>1, <1>2 DEF LoopTop, CpuEdge
<1>3. CASE Dispatch(c)
  BY <1>1, <1>3 DEF Dispatch, CpuEdge, CpuStates
<1>4. CASE CountTerminated(c)
  BY <1>1, <1>4 DEF CountTerminated, CpuEdge, Along
<1>5. CASE EnterHandler(c)
  BY <1>1, <1>5 DEF EnterHandler, CpuEdge, Along
<1>6. CASE Handler(c)
  BY <1>1, <1>6 DEF Handler, CpuEdge, Along
<1>7. CASE Requeue(c)
  <2> DEFINE g == [cpc EXCEPT ![c] = "select"]
  <2>1. g \in [CPUs -> CpuLabels] /\ g[c] = "select"
    BY <1>1 DEF CpuLabels
  <2>2. cpc' = Broadcast(g) \/ cpc' = [cpc EXCEPT ![c] = "spin"]
    BY <1>7 DEF Requeue
  <2>3. cpc'[c] = "select" \/ cpc'[c] = "spin"
    BY <1>1, <2>1, <2>2, BroadcastWakes
  <2>4. QED
    BY <1>7, <2>3 DEF Requeue, CpuEdge, Along
<1>8. CASE Idle(c)
  BY <1>1, <1>8 DEF Idle, CpuEdge, Along
<1>9. CASE SelectFirst(c)
  BY <1>1, <1>9 DEF SelectFirst, CpuEdge, Along
<1>10. CASE SelectHighest(c)
  BY <1>1, <1>10 DEF SelectHighest, CpuEdge, Along
<1>11. CASE SetRunning(c)
  BY <1>1, <1>11 DEF SetRunning, CpuEdge, Along
<1>12. CASE SwitchUnlock(c)
  BY <1>1, <1>12 DEF SwitchUnlock, CpuEdge, Along
<1>13. CASE SwitchSet(c)
  BY <1>1, <1>13 DEF SwitchSet, CpuEdge, Along
<1>14. CASE SwitchLock(c)
  BY <1>1, <1>14 DEF SwitchLock, CpuEdge, Along
<1>15. CASE LeaveHandler(c)
  BY <1>1, <1>15 DEF LeaveHandler, CpuEdge, Along
<1>16. CASE RequeueBesideGh(c)
  <2> DEFINE g == [cpc EXCEPT ![c] = "select"]
  <2>1. g \in [CPUs -> CpuLabels] /\ g[c] = "select"
    BY <1>1 DEF CpuLabels
  <2>2. \/ cpc[c] = "requeue" /\ cpc' = [cpc EXCEPT ![c] = "adding"]
        \/ cpc[c] = "adding" /\ (cpc' = Broadcast(g) \/ cpc' = cpc)
    BY <1>16 DEF RequeueBesideGh
  <2>3. \/ cpc[c] = "requeue" /\ cpc'[c] = "adding"
        \/ cpc[c] = "adding" /\ cpc'[c] \in {"adding", "select"}
    BY <1>1, <2>1, <2>2, BroadcastWakes
  <2>4. QED
    BY <1>16, <2>3 DEF RequeueBesideGh, CpuEdge, Along
<1>17. QED
  BY <1>2, <1>3, <1>4, <1>5, <1>6, <1>7, <1>8, <1>9, <1>10, <1>11, <1>12,
     <1>13, <1>14, <1>15, <1>16 DEF CpuStep

(* A CPU thread moves the supervisor only out of a wait, and no program.    *)
LEMMA CpuLeavesSupervisor ==
    ASSUME NEW c \in CPUs, CpuStep(c)
    PROVE  /\ UNCHANGED <<n, ops, pc, static_prior>>
           /\ \/ spc' = spc
              \/ spc = "await" /\ spc' = "resume"
              \/ spc = "fp_await" /\ spc' = "fp_resume"
BY DEF CpuStep, LoopTop, Dispatch, CountTerminated, EnterHandler, Handler,
   Requeue, RequeueBesideGh, Idle, SelectFirst, SelectHighest, SetRunning,
   SwitchUnlock, SwitchSet, SwitchLock, LeaveHandler, configVars, programVars,
   supVars

-----------------------------------------------------------------------------
(* idle() is entered without an event, a handler with one.                  *)
LEMMA CpuKeepsWay ==
    ASSUME IInv, WayKnows, NEW c \in CPUs, CpuStep(c)
    PROVE  WayKnows'
<1>1. \A d \in CPUs \ {c} : /\ event'[d] = event[d]
                            /\ \/ cpc'[d] = cpc[d]
                               \/ cpc[d] = "idle_wait" /\ cpc'[d] = "idle"
  BY OthersKeep
<1>2. CpuEdge(c)
  BY CpuEdges
<1>3. ASSUME NEW d \in CPUs
      PROVE  /\ cpc'[d] \in {"idle", "idle_wait", "parked"}
                   => event'[d] = "CPU_IDLE"
             /\ cpc'[d] \in {"requeue", "adding", "leave", "spin"}
                   => event'[d] # "CPU_IDLE"
  BY <1>1, <1>2 DEF CpuEdge, Along, WayKnows
<1>4. QED
  BY <1>3 DEF WayKnows

(* student_lock is counted right across every edge of a CPU thread.         *)
LEMMA CpuKeepsWriters ==
    ASSUME IInv, WayKnows, WritersAre, NEW c \in CPUs, CpuStep(c)
    PROVE  WritersAre'
<1>1. \A d \in CPUs \ {c} : /\ event'[d] = event[d]
                            /\ \/ cpc'[d] = cpc[d]
                               \/ cpc[d] = "idle_wait" /\ cpc'[d] = "idle"
  BY OthersKeep
<1>2. CpuEdge(c)
  BY CpuEdges
<1>3. WakeUpHolds' <=> WakeUpHolds
  BY CpuLeavesSupervisor DEF WakeUpHolds
<1>4. cpc[c] \in {"count", "enter", "handler"} => event[c] \in Events
  BY DEF IInv, CpuKnows
<1>5. \A d \in CPUs \ {c} : /\ d \in Locked' <=> d \in Locked
                            /\ d \in Released' <=> d \in Released
  BY <1>1 DEF Locked, Released
<1>6. \/ /\ writers' = writers
         /\ c \in Locked' <=> c \in Locked
         /\ c \in Released' <=> c \in Released
      \/ /\ writers' = writers + 1 /\ c \notin Locked /\ c \in Locked'
         /\ c \in Released' <=> c \in Released
      \/ /\ writers' = writers - 1 /\ c \in Locked /\ c \notin Locked'
         /\ c \in Released' <=> c \in Released
      \/ /\ writers' = writers - 1 /\ c \notin Released /\ c \in Released'
         /\ c \in Locked' <=> c \in Locked
      \/ /\ writers' = writers + 1 /\ c \in Released /\ c \notin Released'
         /\ c \in Locked' <=> c \in Locked
  BY <1>2, <1>4 DEF CpuEdge, Along, Locked, Released, WayKnows, Events
<1>7. /\ Locked \in SUBSET CPUs /\ Released \in SUBSET CPUs
      /\ Locked' \in SUBSET CPUs /\ Released' \in SUBSET CPUs
      /\ IsFiniteSet(CPUs)
  BY Countable DEF Locked, Released
<1> DEFINE l == Cardinality(Locked)
           r == Cardinality(Released)
           u == IF WakeUpHolds THEN 1 ELSE 0
<1>8. /\ l \in Nat /\ l' \in Nat
      /\ (c \in Locked' <=> c \in Locked) => l' = l
      /\ c \in Locked' /\ c \notin Locked => l' = l + 1
      /\ c \notin Locked' /\ c \in Locked => l' = l - 1
  BY <1>5, <1>7, OneDiffers
<1>9. /\ r \in Nat /\ r' \in Nat
      /\ (c \in Released' <=> c \in Released) => r' = r
      /\ c \in Released' /\ c \notin Released => r' = r + 1
      /\ c \notin Released' /\ c \in Released => r' = r - 1
  BY <1>5, <1>7, OneDiffers
<1>10. u \in Int /\ u' = u /\ writers \in Int
  BY <1>3 DEF IInv, TypeOK, CountTypeOK
<1>11. writers = l - r + u
  BY DEF WritersAre
<1> HIDE DEF l, r, u
<1>12. writers' = l' - r' + u'
  BY <1>6, <1>8, <1>9, <1>10, <1>11
<1>13. QED
  BY <1>12 DEF WritersAre, l, r, u

(* A CPU thread counts each end of a program at most once.                  *)
LEMMA CpuKeepsCount ==
    ASSUME IInv, CountKnows, NEW c \in CPUs, CpuStep(c)
    PROVE  CountKnows'
<1>1. \A d \in CPUs \ {c} : /\ simState'[d] = simState[d]
                            /\ \/ cpc'[d] = cpc[d]
                               \/ cpc[d] = "idle_wait" /\ cpc'[d] = "idle"
  BY OthersKeep
<1>2. CpuEdge(c)
  BY CpuEdges
<1>3. AtEnd' = AtEnd /\ (spc' = "exit" <=> spc = "exit")
  BY CpuLeavesSupervisor DEF AtEnd, Op
<1>4. \A d \in CPUs \ {c} : d \in Uncounted' <=> d \in Uncounted
  BY <1>1 DEF Uncounted
<1>5. \/ terminated' = terminated /\ (c \in Uncounted' <=> c \in Uncounted)
      \/ /\ terminated' = terminated + 1
         /\ c \in Uncounted /\ c \notin Uncounted'
  BY <1>2 DEF CpuEdge, Along, Uncounted
<1>6. /\ Uncounted \in SUBSET CPUs /\ Uncounted' \in SUBSET CPUs
      /\ IsFiniteSet(CPUs)
  BY Countable DEF Uncounted
<1> DEFINE u == Cardinality(Uncounted)
           e == Cardinality(AtEnd)
<1>7. /\ u \in Nat /\ u' \in Nat
      /\ (c \in Uncounted' <=> c \in Uncounted) => u' = u
      /\ c \notin Uncounted' /\ c \in Uncounted => u' = u - 1
  BY <1>4, <1>6, OneDiffers
<1>8. /\ e' = e /\ e \in Nat
      /\ terminated \in Nat /\ PROCESS_COUNT \in Nat
  BY <1>3, Countable, ProcsAreNumbered
     DEF IInv, TypeOK, CountTypeOK, AtEnd
<1>9. /\ terminated + u <= e
      /\ spc = "exit" => terminated >= PROCESS_COUNT
  BY DEF CountKnows
<1> HIDE DEF u, e
<1>10. terminated' + u' <= e' /\ terminated' >= terminated
  BY <1>5, <1>7, <1>8, <1>9
<1>11. spc' = "exit" => terminated' >= PROCESS_COUNT
  BY <1>3, <1>5, <1>8, <1>9
<1>12. QED
  BY <1>10, <1>11 DEF CountKnows, u, e

-----------------------------------------------------------------------------
(* What a step of the supervisor leaves to the CPU threads: everything, but *)
(* that it posts events and that its addqueue() wakes those in idle().      *)
LEMMA SupervisorLeavesCpus ==
    ASSUME IInv, SupStep
    PROVE  /\ UNCHANGED <<event, current, ops>>
           /\ \A d \in CPUs : \/ cpc'[d] = cpc[d]
                              \/ cpc[d] = "idle_wait" /\ cpc'[d] = "idle"
<1> USE DEF outsideSup, aside, supLocals, sharedVars, configVars, SupGoto,
            Simulate
<1>1. CASE WakeAdd \/ WakeAddBesideGh
  <2>1. cpc \in [CPUs -> CpuLabels]
    BY DEF IInv, TypeOK, CpuTypeOK
  <2>2. cpc' = cpc \/ cpc' = Broadcast(cpc)
    BY <1>1 DEF WakeAdd, WakeAddBesideGh
  <2>3. \A d \in CPUs : Broadcast(cpc)[d] = IF cpc[d] = "idle_wait"
                                           THEN "idle" ELSE cpc[d]
    BY <2>1, BroadcastWakes
  <2>4. \A d \in CPUs : \/ cpc'[d] = cpc[d]
                        \/ cpc[d] = "idle_wait" /\ cpc'[d] = "idle"
    BY <2>2, <2>3
  <2>5. QED
    BY <1>1, <2>4 DEF WakeAdd, WakeAddBesideGh
<1>2. CASE Tick \/ PrintGantt \/ EndTick \/ SkipCpu \/ Resume \/ CpusDone
  BY <1>2 DEF Tick, PrintGantt, EndTick, SkipCpu, Resume, CpusDone
<1>3. CASE \E p \in Procs : Burst(p) \/ BurstToIo(p) \/ BurstToEnd(p)
                           \/ NotRunnable(p)
  BY <1>3 DEF Burst, BurstToIo, BurstToEnd, NotRunnable
<1>4. CASE IoIdle \/ IoTick \/ IoComplete \/ Creat
  BY <1>4 DEF IoIdle, IoTick, IoComplete, Creat
<1>5. CASE WakeEnter \/ WakeReady \/ WakeLeave \/ WakeReturn
  BY <1>5 DEF WakeEnter, WakeReady, WakeLeave, WakeReturn
<1>6. CASE ScanTest \/ ScanCompare \/ ScanTake \/ ScanDone
  BY <1>6 DEF ScanTest, ScanCompare, ScanTake, ScanDone
<1>7. CASE ForceUnlock \/ ForcePost \/ ForceResume \/ ForceRelock
  BY <1>7 DEF ForceUnlock, ForcePost, ForceResume, ForceRelock
<1>8. QED
  BY <1>1, <1>2, <1>3, <1>4, <1>5, <1>6, <1>7 DEF SupStep

(* Where wake_up() and force_preempt() take and give back student_lock.     *)
LEMMA SupervisorLocks ==
    ASSUME SupStep
    PROVE  \/ writers' = writers /\ (WakeUpHolds' <=> WakeUpHolds)
           \/ writers' = writers + 1 /\ WakeUpHolds' /\ ~WakeUpHolds
           \/ writers' = writers - 1 /\ ~WakeUpHolds' /\ WakeUpHolds
<1> USE DEF outsideSup, aside, supLocals, sharedVars, SupGoto, Simulate,
            WriterLock, WriterUnlock, WakeUpHolds, NextCpu, Post, Signal
<1>1. CASE \/ WakeEnter \/ WakeReady \/ WakeAdd \/ WakeAddBesideGh
           \/ WakeLeave \/ WakeReturn
  BY <1>1 DEF WakeEnter, WakeReady, WakeAdd, WakeAddBesideGh, WakeLeave,
     WakeReturn
<1>2. CASE Tick \/ PrintGantt \/ EndTick \/ SkipCpu \/ Resume \/ CpusDone
  BY <1>2 DEF Tick, PrintGantt, EndTick, SkipCpu, Resume, CpusDone
<1>3. CASE \E p \in Procs : Burst(p) \/ BurstToIo(p) \/ BurstToEnd(p)
                           \/ NotRunnable(p)
  BY <1>3 DEF Burst, BurstToIo, BurstToEnd, NotRunnable
<1>4. CASE IoIdle \/ IoTick \/ IoComplete \/ Creat
  BY <1>4 DEF IoIdle, IoTick, IoComplete, Creat
<1>5. CASE ScanTest \/ ScanCompare \/ ScanTake \/ ScanDone
  BY <1>5 DEF ScanTest, ScanCompare, ScanTake, ScanDone
<1>6. CASE ForceUnlock \/ ForcePost \/ ForceResume \/ ForceRelock
  BY <1>6 DEF ForceUnlock, ForcePost, ForceResume, ForceRelock
<1>7. QED
  BY <1>1, <1>2, <1>3, <1>4, <1>5, <1>6 DEF SupStep

(* A program ends only by its burst, which posts the end to one CPU.  Every *)
(* other step of the supervisor ends none, and tells no CPU that one has.   *)
LEMMA SupervisorEnds ==
    ASSUME IInv, SupStep
    PROVE  /\ terminated' = terminated
           /\ spc' = "exit" => terminated >= PROCESS_COUNT
           /\ \/ AtEnd' = AtEnd /\ Uncounted' \subseteq Uncounted
              \/ \E p \in Procs \ AtEnd :
                    /\ AtEnd' = AtEnd \cup {p}
                    /\ Uncounted' \subseteq Uncounted \cup {n}
<1> USE DEF outsideSup, aside, supLocals, sharedVars, SupGoto, Simulate,
            NextCpu, Post, Signal, countVars, configVars, programVars
<1>a. /\ event' = event /\ current' = current /\ ops' = ops
      /\ \A d \in CPUs : \/ cpc'[d] = cpc[d]
                         \/ cpc[d] = "idle_wait" /\ cpc'[d] = "idle"
  BY SupervisorLeavesCpus
<1>b. simState \in [CPUs -> CpuStates]
  BY DEF IInv, TypeOK, SharedTypeOK
<1>c. UNCHANGED simState => Uncounted' \subseteq Uncounted
  BY <1>a DEF Uncounted
<1>d. UNCHANGED pc => AtEnd' = AtEnd
  BY <1>a DEF AtEnd, Op
<1>e. \A e : simState' = [simState EXCEPT ![n] = e]
                 => /\ Uncounted' \subseteq Uncounted \cup {n}
                    /\ e # "CPU_TERMINATE" => Uncounted' \subseteq Uncounted
  BY <1>a, <1>b DEF Uncounted
<1>f. ASSUME NEW p \in Procs, MoveOn(p), Op(p).type # "OP_TERMINATE"
      PROVE  AtEnd' = IF ops[p][pc[p] + 1].type = "OP_TERMINATE"
                      THEN AtEnd \cup {p} ELSE AtEnd
  <2>1. /\ pc \in [Procs -> Nat]
        /\ pc'[p] = pc[p] + 1 /\ \A q \in Procs \ {p} : pc'[q] = pc[q]
    BY <1>f DEF MoveOn, IInv, TypeOK, SharedTypeOK
  <2>2. QED
    BY <1>a, <1>f, <2>1 DEF AtEnd, Op
<1>1. CASE Tick
  BY <1>1, <1>c, <1>d DEF Tick
<1>2. CASE PrintGantt \/ EndTick \/ SkipCpu \/ Resume \/ CpusDone
  BY <1>2, <1>c, <1>d DEF PrintGantt, EndTick, SkipCpu, Resume, CpusDone
<1>3. ASSUME NEW p \in Procs, Burst(p) \/ NotRunnable(p)
      PROVE  /\ UNCHANGED terminated /\ spc' # "exit"
             /\ AtEnd' = AtEnd /\ Uncounted' \subseteq Uncounted
  BY <1>3, <1>c, <1>d, <1>e DEF Burst, NotRunnable
<1>4. ASSUME NEW p \in Procs, BurstToIo(p)
      PROVE  /\ UNCHANGED terminated /\ spc' # "exit"
             /\ AtEnd' = AtEnd /\ Uncounted' \subseteq Uncounted
  <2>1. /\ MoveOn(p) /\ Op(p).type = "OP_CPU"
        /\ ops[p][pc[p] + 1].type = "OP_IO"
        /\ simState' = [simState EXCEPT ![n] = "CPU_YIELD"]
        /\ UNCHANGED terminated /\ spc' = "await"
    BY <1>4 DEF BurstToIo
  <2>2. AtEnd' = AtEnd
    BY <1>f, <2>1
  <2>3. Uncounted' \subseteq Uncounted
    BY <1>a, <1>b, <2>1 DEF Uncounted
  <2>4. QED
    BY <2>1, <2>2, <2>3
<1>5. ASSUME NEW p \in Procs, BurstToEnd(p)
      PROVE  /\ UNCHANGED terminated /\ spc' # "exit"
             /\ p \in Procs \ AtEnd /\ AtEnd' = AtEnd \cup {p}
             /\ Uncounted' \subseteq Uncounted \cup {n}
  BY <1>5, <1>e, <1>f DEF BurstToEnd, AtEnd
<1>6. CASE IoIdle \/ IoTick \/ Creat
  BY <1>6, <1>c, <1>d DEF IoIdle, IoTick, Creat
<1>7. CASE IoComplete
  <2> DEFINE p == Head(ioQueue).pcb
  <2>1. MoveOn(p) /\ ioQueue # <<>> /\ UNCHANGED <<terminated, simState>>
        /\ spc' = "wake"
    BY <1>7 DEF IoComplete
  <2>2. p \in Procs /\ Op(p).type = "OP_IO"
    <3>1. Blocked \in SUBSET Procs
      BY DEF Blocked
    <3>2. ioQueue \in Seq(Request) /\ OneRequestEach(ioQueue, Blocked)
      BY DEF IInv, TypeOK, SharedTypeOK, IoKnows, Request
    <3>3. QED
      BY <2>1, <3>1, <3>2, TailRequest DEF Blocked
  <2> HIDE DEF p
  <2>3. ops[p][pc[p] + 1].type = "OP_CPU"
    BY <1>a, <2>1, <2>2, MoveOnKnows DEF IInv
  <2>4. AtEnd' = AtEnd
    BY <1>f, <2>1, <2>2, <2>3
  <2>5. QED
    BY <1>c, <2>1, <2>4
<1>8. CASE \/ WakeEnter \/ WakeReady \/ WakeAdd \/ WakeAddBesideGh
           \/ WakeLeave \/ WakeReturn
  BY <1>8, <1>c, <1>d DEF WakeEnter, WakeReady, WakeAdd, WakeAddBesideGh,
     WakeLeave, WakeReturn
<1>9. CASE ScanTest \/ ScanCompare \/ ScanTake \/ ScanDone
  BY <1>9, <1>c, <1>d DEF ScanTest, ScanCompare, ScanTake, ScanDone
<1>10. CASE ForceUnlock \/ ForceResume \/ ForceRelock
  BY <1>10, <1>c, <1>d DEF ForceUnlock, ForceResume, ForceRelock
<1>11. CASE ForcePost
  BY <1>11, <1>c, <1>d, <1>e DEF ForcePost
<1>12. QED
  BY <1>1, <1>2, <1>3, <1>4, <1>5, <1>6, <1>7, <1>8, <1>9, <1>10, <1>11
     DEF SupStep

(* The supervisor keeps WayKnows: it posts to simState, never to event.     *)
LEMMA SupKeepsWay ==
    ASSUME IInv, WayKnows, SupStep
    PROVE  WayKnows'
<1>1. /\ event' = event
      /\ \A d \in CPUs : \/ cpc'[d] = cpc[d]
                         \/ cpc[d] = "idle_wait" /\ cpc'[d] = "idle"
  BY SupervisorLeavesCpus
<1>2. QED
  BY <1>1 DEF WayKnows

(* The supervisor takes and gives back student_lock for itself alone.       *)
LEMMA SupKeepsWriters ==
    ASSUME IInv, WritersAre, SupStep
    PROVE  WritersAre'
<1>1. /\ event' = event
      /\ \A d \in CPUs : \/ cpc'[d] = cpc[d]
                         \/ cpc[d] = "idle_wait" /\ cpc'[d] = "idle"
  BY SupervisorLeavesCpus
<1>2. Locked \in SUBSET CPUs /\ Released \in SUBSET CPUs
  BY DEF Locked, Released
<1>3. Locked' = Locked
  <2>1. \A d : d \in Locked' <=> d \in Locked
    BY <1>1 DEF Locked
  <2>2. QED
    BY <2>1
<1>4. Released' = Released
  <2>1. \A d : d \in Released' <=> d \in Released
    BY <1>1 DEF Released
  <2>2. QED
    BY <2>1
<1> DEFINE l == Cardinality(Locked)
           r == Cardinality(Released)
           u == IF WakeUpHolds THEN 1 ELSE 0
<1>5. l' = l /\ r' = r /\ l \in Nat /\ r \in Nat /\ writers \in Int
  BY <1>2, <1>3, <1>4, Countable DEF IInv, TypeOK, CountTypeOK
<1>6. /\ u \in Int
      /\ \/ writers' = writers /\ u' = u
         \/ writers' = writers + 1 /\ u' = u + 1
         \/ writers' = writers - 1 /\ u' = u - 1
  BY SupervisorLocks
<1>7. writers = l - r + u
  BY DEF WritersAre
<1> HIDE DEF l, r, u
<1>8. writers' = l' - r' + u'
  BY <1>5, <1>6, <1>7
<1>9. QED
  BY <1>8 DEF WritersAre, l, r, u

(* The supervisor tells at most one CPU thread of each end of a program.    *)
LEMMA SupKeepsCount ==
    ASSUME IInv, CountKnows, SupStep
    PROVE  CountKnows'
<1> DEFINE u == Cardinality(Uncounted)
           e == Cardinality(AtEnd)
<1>1. /\ terminated' = terminated
      /\ spc' = "exit" => terminated >= PROCESS_COUNT
  BY SupervisorEnds
<1>2. /\ Uncounted \in SUBSET CPUs /\ Uncounted' \in SUBSET CPUs
      /\ AtEnd \in SUBSET Procs /\ AtEnd' \in SUBSET Procs
  BY SupervisorLeavesCpus DEF Uncounted, AtEnd
<1>3. IsFiniteSet(Uncounted) /\ IsFiniteSet(AtEnd)
  BY <1>2, Countable
<1>4. /\ u \in Nat /\ u' \in Nat /\ e \in Nat /\ e' \in Nat
      /\ terminated \in Nat
  BY <1>2, Countable DEF IInv, TypeOK, CountTypeOK
<1>5. \/ u' <= u /\ e' = e
      \/ u' <= u + 1 /\ e' = e + 1
  <2>1. CASE AtEnd' = AtEnd /\ Uncounted' \subseteq Uncounted
    BY <1>3, <2>1, FS_Subset
  <2>2. CASE \E p \in Procs \ AtEnd :
                 /\ AtEnd' = AtEnd \cup {p}
                 /\ Uncounted' \subseteq Uncounted \cup {n}
    <3>1. PICK p \in Procs \ AtEnd :
                 /\ AtEnd' = AtEnd \cup {p}
                 /\ Uncounted' \subseteq Uncounted \cup {n}
      BY <2>2
    <3>2. e' = e + 1
      BY <1>3, <3>1, FS_AddElement
    <3> DEFINE w == Cardinality(Uncounted \cup {n})
    <3>3. IsFiniteSet(Uncounted \cup {n}) /\ (w = u \/ w = u + 1)
      BY <1>3, FS_AddElement
    <3>4. u' <= w
      BY <3>1, <3>3, FS_Subset
    <3> HIDE DEF u, e, w
    <3>5. u' <= u + 1
      BY <1>4, <3>3, <3>4
    <3>6. QED
      BY <3>2, <3>5
  <2>3. QED
    BY <2>1, <2>2, SupervisorEnds
<1>6. terminated + u <= e
  BY DEF CountKnows
<1> HIDE DEF u, e
<1>7. \A t, a, b, k, m \in Nat : /\ t + a <= k
                              /\ \/ b <= a /\ m = k
                                 \/ b <= a + 1 /\ m = k + 1
                              => t + b <= m
  OBVIOUS
<1>8. terminated' + u' <= e'
  BY <1>1, <1>4, <1>5, <1>6, <1>7
<1>9. QED
  BY <1>1, <1>8 DEF CountKnows, u, e

-----------------------------------------------------------------------------
(* Before any thread has run no lock is held and no program has ended.      *)
LEMMA SupInvInit == Init => SupInv
<1> SUFFICES ASSUME Init PROVE SupInv
  OBVIOUS
<1>1. /\ \A c \in CPUs : cpc[c] = "top" /\ event[c] = "CPU_IDLE"
      /\ spc = "tick" /\ writers = 0 /\ terminated = 0
  BY DEF Init
<1>2. WayKnows
  BY <1>1 DEF WayKnows
<1>3. Locked = {} /\ Released = {} /\ Uncounted = {}
  BY <1>1 DEF Locked, Released, Uncounted
<1>4. Cardinality({}) = 0
  BY FS_EmptySet
<1>5. WritersAre
  BY <1>1, <1>3, <1>4 DEF WritersAre, WakeUpHolds
<1>6. CountKnows
  <2>1. Cardinality(AtEnd) \in Nat
    BY Countable DEF AtEnd
  <2>2. QED
    BY <1>1, <1>3, <1>4, <2>1 DEF CountKnows
<1>7. QED
  BY <1>2, <1>5, <1>6, IInvInit DEF SupInv

(* Every step of either kind of thread, and a stutter, keeps SupInv.        *)
LEMMA SupInvStep == SupInv /\ [Next]_vars => SupInv'
<1> SUFFICES ASSUME SupInv, [Next]_vars PROVE SupInv'
  OBVIOUS
<1>1. IInv'
  BY IInvStep DEF SupInv
<1>2. ASSUME NEW c \in CPUs, CpuStep(c)
      PROVE  WayKnows' /\ WritersAre' /\ CountKnows'
  BY <1>2, CpuKeepsWay, CpuKeepsWriters, CpuKeepsCount DEF SupInv
<1>3. ASSUME SupStep
      PROVE  WayKnows' /\ WritersAre' /\ CountKnows'
  BY <1>3, SupKeepsWay, SupKeepsWriters, SupKeepsCount DEF SupInv
<1>4. ASSUME UNCHANGED vars
      PROVE  WayKnows' /\ WritersAre' /\ CountKnows'
  <2>1. UNCHANGED <<ops, pc, terminated, writers, cpc, event, simState, spc, n>>
    BY <1>4 DEF vars, configVars, studentVars, simCpuVars, programVars,
       countVars, cpuVars, supVars
  <2>2. /\ Locked' = Locked /\ Released' = Released
        /\ Uncounted' = Uncounted /\ AtEnd' = AtEnd
        /\ WakeUpHolds' = WakeUpHolds
    BY <2>1 DEF Locked, Released, Uncounted, AtEnd, Op, WakeUpHolds
  <2>3. WayKnows'
    BY <2>1 DEF SupInv, WayKnows
  <2>4. WritersAre' /\ CountKnows'
    BY <2>1, <2>2 DEF SupInv, WritersAre, CountKnows
  <2>5. QED
    BY <2>3, <2>4
<1>5. QED
  BY <1>1, <1>2, <1>3, <1>4
     DEF Next, CpuNext, SupNext, Stopped, SupInv

(* The invariant that the supervisor relies on holds in every state.        *)
THEOREM SupInvHolds == Spec => []SupInv
BY SupInvInit, SupInvStep, PTL DEF Spec

(* print_gantt_line() never finds a writer, although idle() gives back      *)
(* student_lock without having taken it.                                    *)
THEOREM ReadersNeverWait == Spec => []ReaderNeverWaits
<1>1. ASSUME SupInv PROVE ReaderNeverWaits
  <2> SUFFICES ASSUME spc = "print" PROVE writers <= 0
    BY DEF ReaderNeverWaits
  <2>1. Locked = {}
    BY <1>1 DEF SupInv, IInv, HandlerIsolation, Busy, Locked
  <2>2. Cardinality(Locked) = 0
    BY <2>1, FS_EmptySet
  <2>3. Cardinality(Released) \in Nat
    BY Countable DEF Released
  <2>4. writers = Cardinality(Locked) - Cardinality(Released) + 0
    BY <1>1 DEF SupInv, WritersAre, WakeUpHolds
  <2>5. QED
    BY <2>2, <2>3, <2>4
<1>2. QED
  BY <1>1, SupInvHolds, PTL

(* exit(0) is called only when every process is at the end of its program,  *)
(* though the counter it tests is written by CPU threads, which may miss a  *)
(* termination but never count one twice.                                   *)
THEOREM TheSimulatorExitsOnlyAtTheEnd == Spec => []ExitsOnlyAtTheEnd
<1>1. ASSUME SupInv PROVE ExitsOnlyAtTheEnd
  <2> SUFFICES ASSUME spc = "exit" PROVE AtEnd = Procs
    BY DEF ExitsOnlyAtTheEnd, AtEnd
  <2>1. /\ terminated >= PROCESS_COUNT
        /\ terminated + Cardinality(Uncounted) <= Cardinality(AtEnd)
    BY <1>1 DEF SupInv, CountKnows
  <2>2. /\ Cardinality(Uncounted) \in Nat /\ Cardinality(AtEnd) \in Nat
        /\ AtEnd \in SUBSET Procs /\ terminated \in Nat
        /\ PROCESS_COUNT \in Nat
    BY <1>1, Countable, ProcsAreNumbered
       DEF SupInv, IInv, TypeOK, CountTypeOK, Uncounted, AtEnd
  <2>3. Cardinality(AtEnd) >= PROCESS_COUNT
    BY <2>1, <2>2
  <2>4. QED
    BY <2>2, <2>3, Countable
<1>2. QED
  BY <1>1, SupInvHolds, PTL

=============================================================================
