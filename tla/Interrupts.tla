------------------------------ MODULE Interrupts ------------------------------
(***************************************************************************)
(* Project 2: the LC-2200 program of prj2.s, which computes a factorial     *)
(* while a timer and a keyboard interrupt it.  The hardware takes an        *)
(* interrupt between two instructions when interrupts are enabled: it puts  *)
(* the program counter in $k0, disables interrupts and jumps through the    *)
(* vector table.  A handler's instructions that a nested interrupt cannot   *)
(* tell apart, because it saves and restores every register but $k0, are    *)
(* one step.  regs stands for the registers a handler saves; the stack      *)
(* pointer counts in the handlers' frames of 100 words.                     *)
(***************************************************************************)
EXTENDS Integers, Sequences

CONSTANTS
    UserSteps,      \* interruptible steps of main and factorial
    LIMIT,          \* seconds in a minute and minutes in an hour: 60
    MaxInterrupts,  \* bound on the interrupts of a run
    MaxDepth        \* frames of the stack, either side of main's, modelled

ASSUME IntAssumption ==
    /\ UserSteps \in Nat /\ LIMIT \in Nat \ {0}
    /\ MaxInterrupts \in Nat /\ MaxDepth \in Nat

Levels == -MaxDepth .. MaxDepth

Devices == {"timer", "keyboard"}

(* Program points: the user's step n; a handler's, with the unit it counts. *)
User(n) == [code |-> "user", at |-> "step", unit |-> n]
In(dev, at, unit) == [code |-> dev, at |-> at, unit |-> unit]

VARIABLES
    pc, k0, sp, regs,
    enabled,    \* interrupts are enabled
    frames,     \* what each frame of the stack holds: registers and $k0
    clock,      \* the words seconds, minutes and hours
    keyboard,   \* the word keyboard, an offset into the buffer
    buffer,     \* the keys stored, by offset
    ticks, keys,    \* interrupts taken from each device
    active,     \* the points the active handlers have interrupted
    late,       \* one came after a handler had loaded $k0 back
    raced       \* a tick came while a handler held a count it had to store

regVars == <<pc, k0, sp, regs, enabled>>
memVars == <<frames, clock, keyboard, buffer>>
logVars == <<ticks, keys, active, late, raced>>
intVars == <<regVars, memVars, logVars>>

(* main has set the stack pointer and the vectors, and executed ei.         *)
IntInit ==
    /\ pc = User(0) /\ k0 = User(0) /\ sp = 0 /\ regs = 0 /\ enabled = TRUE
    /\ frames = [l \in Levels |-> [regs |-> 0, k0 |-> User(0)]]
    /\ clock = <<0, 0, 0>> /\ keyboard = 0
    /\ buffer = [n \in 0 .. MaxInterrupts |-> 0]
    /\ ticks = 0 /\ keys = 0 /\ active = <<>> /\ late = FALSE /\ raced = FALSE

At(code, at) == pc.code = code /\ pc.at = at

-----------------------------------------------------------------------------
(* A step of main and factorial, whose registers it changes.                *)
UserStep ==
    /\ pc.code = "user" /\ pc.unit < UserSteps
    /\ pc' = User(pc.unit + 1)
    /\ regs' = pc.unit + 1
    /\ UNCHANGED <<k0, sp, enabled, memVars, logVars>>

(* A handler among those at these points has read a count and not stored it. *)
Counting(points) ==
    \E i \in DOMAIN points : points[i].code = "timer" /\ points[i].at = "store"

(* The microcode of FETCH0 to FETCH3; main halts after its last step.       *)
Interrupt(dev) ==
    /\ enabled
    /\ pc # User(UserSteps)
    /\ k0' = pc
    /\ enabled' = FALSE
    /\ pc' = In(dev, "save", 1)
    /\ ticks + keys < MaxInterrupts
    /\ ticks' = IF dev = "timer" THEN ticks + 1 ELSE ticks
    /\ keys' = IF dev = "keyboard" THEN keys + 1 ELSE keys
    /\ active' = Append(active, pc)
    /\ late' = (late \/ pc.at \in {"pop", "di"})
    /\ raced' = (raced \/ (dev = "timer" /\ Counting(Append(active, pc))))
    /\ UNCHANGED <<sp, regs, memVars>>

(* Mutant of SavedFrame: $k0 is not saved.                                  *)
FrameWithoutK0(l) == [regs |-> regs, k0 |-> frames[l].k0]

SavedFrame(l) == [regs |-> regs, k0 |-> k0]

(* Mutant of Frame: the handlers share one save area.                       *)
SaveArea(l) == 0

(* The registers are saved at the stack pointer, just moved by 100 words.   *)
Frame(l) == l

(* Mutant of EnablesFirst: the keyboard handler enables interrupts too.     *)
AlwaysEnables(dev) == TRUE

(* The timer handler enables interrupts before it counts.                   *)
EnablesFirst(dev) == dev = "timer"

(* A handler's first instructions; interrupts are disabled.                 *)
Save(dev) ==
    /\ At(dev, "save")
    /\ sp + 1 \in Levels
    /\ sp' = sp + 1
    /\ frames' = [frames EXCEPT ![Frame(sp')] = SavedFrame(sp')]
    /\ enabled' = EnablesFirst(dev)
    /\ pc' = In(dev, "load", 1)
    /\ UNCHANGED <<k0, regs, clock, keyboard, buffer, logVars>>

(* ti_keyhandler: a key is stored where keyboard points, which advances.    *)
LoadKeyboard ==
    /\ At("keyboard", "load")
    /\ regs' = keyboard
    /\ pc' = In("keyboard", "store", 1)
    /\ UNCHANGED <<k0, sp, enabled, memVars, logVars>>

StoreKey ==
    /\ At("keyboard", "store")
    /\ buffer' = [buffer EXCEPT ![regs] = keys]
    /\ keyboard' = regs + 1
    /\ enabled' = TRUE
    /\ pc' = In("keyboard", "restore", 1)
    /\ UNCHANGED <<k0, sp, regs, frames, clock, logVars>>

(* ti_inthandler: seconds, minutes and hours in turn.                       *)
LoadUnit ==
    /\ At("timer", "load")
    /\ regs' = clock[pc.unit] + 1
    /\ pc' = In("timer", "store", pc.unit)
    /\ UNCHANGED <<k0, sp, enabled, memVars, logVars>>

(* Mutant of Carries: the unit overflows one too late.                      *)
CarriesLate == pc.unit < 3 /\ regs = LIMIT + 1

Carries == pc.unit < 3 /\ regs = LIMIT

StoreUnit ==
    /\ At("timer", "store")
    /\ clock' = [clock EXCEPT ![pc.unit] = IF Carries THEN 0 ELSE regs]
    /\ pc' = IF Carries THEN In("timer", "load", pc.unit + 1)
             ELSE In("timer", "restore", 1)
    /\ UNCHANGED <<k0, sp, regs, enabled, frames, keyboard, buffer, logVars>>

(* The registers and $k0 are loaded back, interrupts being enabled.         *)
Restore(dev) ==
    /\ At(dev, "restore")
    /\ regs' = frames[Frame(sp)].regs
    /\ k0' = frames[Frame(sp)].k0
    /\ pc' = In(dev, "pop", 1)
    /\ UNCHANGED <<sp, enabled, memVars, logVars>>

Pop(dev) ==
    /\ At(dev, "pop")
    /\ sp - 1 \in Levels
    /\ sp' = sp - 1
    /\ pc' = In(dev, "di", 1)
    /\ UNCHANGED <<k0, regs, enabled, memVars, logVars>>

Di(dev) ==
    /\ At(dev, "di")
    /\ enabled' = FALSE
    /\ pc' = In(dev, "reti", 1)
    /\ UNCHANGED <<k0, sp, regs, memVars, logVars>>

(* The microcode of RETI: jump to $k0 and enable interrupts.                *)
Reti(dev) ==
    /\ At(dev, "reti")
    /\ pc' = k0
    /\ enabled' = TRUE
    /\ active' = IF active = <<>> THEN <<>>
                 ELSE SubSeq(active, 1, Len(active) - 1)
    /\ UNCHANGED <<k0, sp, regs, memVars, ticks, keys, late, raced>>

Machine ==
    \/ UserStep
    \/ LoadKeyboard \/ StoreKey \/ LoadUnit \/ StoreUnit
    \/ \E dev \in Devices :
          Save(dev) \/ Restore(dev) \/ Pop(dev) \/ Di(dev) \/ Reti(dev)

IntNext == Machine \/ \E dev \in Devices : Interrupt(dev)

(* The processor never stops.                                               *)
IntSpec == IntInit /\ [][IntNext]_intVars /\ WF_intVars(Machine)

-----------------------------------------------------------------------------
(* A handler returns to the point it interrupted.                           *)
Resumes ==
    [][\A dev \in Devices : Reti(dev) /\ active # <<>> =>
          pc' = active[Len(active)]]_intVars

(* Nested to any depth, handlers return to the point they interrupted, with *)
(* its registers and stack, as long as no interrupt comes between the load  *)
(* of $k0 and the di that follows it.                                       *)
ResumesUnlessLate ==
    [][\A dev \in Devices : Reti(dev) /\ ~late =>
          /\ pc' = active[Len(active)]
          /\ sp = Len(active) - 1
          /\ pc'.code = "user" => regs = pc'.unit]_intVars

(* Every key is stored, once and in the order of arrival, however handlers  *)
(* nest: ti_keyhandler advances its pointer before it enables interrupts.   *)
KeysInOrder ==
    pc.code = "user" =>
        /\ keyboard = keys
        /\ \A n \in 1 .. keys : buffer[n - 1] = n

Seconds == clock[1] + LIMIT * (clock[2] + LIMIT * clock[3])

(* The clock has counted every tick when no handler runs, unless a tick     *)
(* came while the handler of another was counting.                          *)
ClockCounts ==
    pc.code = "user" /\ ~raced => Seconds = ticks

(* The program ends, unless an interrupt came late in a handler.            *)
Halts == <>(pc = User(UserSteps) \/ late)
=============================================================================
