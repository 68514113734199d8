---------------------------- MODULE VirtualMemory ----------------------------
(***************************************************************************)
(* Project 4: the simulator of a paged virtual memory.  sim_readdata()     *)
(* executes a trace line by line; an access goes through the TLB, the page *)
(* table of the running process, the page fault handler with its clock     *)
(* sweep, and the swap file.  The program is sequential: pc is the         *)
(* function it is in, and one action is one function body.                 *)
(* The dirty bits of the TLB are written and never read, and are left out. *)
(***************************************************************************)
EXTENDS Naturals, Sequences

CONSTANTS
    Pids,           \* the pids below max_jobs
    Addresses,      \* the virtual addresses a trace uses
    page_size,      \* bytes in a page
    CPU_NUM_FRAMES, \* mem_size / page_size
    tlb_size,       \* entries of the TLB, possibly none
    WORD,           \* number of values of a byte: 256
    Args,           \* numbers a trace stores
    NULL            \* a NULL pcb, and no line being executed

VADDR_PAGENUM(addr) == addr \div page_size

VADDR_OFFSET(addr) == addr % page_size

Vpns == {VADDR_PAGENUM(a) : a \in Addresses}
Offsets == 0 .. page_size - 1
Frames == 0 .. CPU_NUM_FRAMES - 1
TlbIndex == 0 .. tlb_size - 1
Words == 0 .. WORD - 1
Pages == [Offsets -> Words]
ZeroPage == [o \in Offsets |-> 0]

PTEs == [pfn : Frames, valid : BOOLEAN, used : BOOLEAN, dirty : BOOLEAN]
TlbEntries == [vpn : Vpns, pfn : Frames, valid : BOOLEAN, used : BOOLEAN]
Lines == [cmd : {"l", "s"}, pid : Pids, addr : Addresses, val : Words]

ASSUME VmAssumption ==
    /\ page_size \in Nat \ {0} /\ CPU_NUM_FRAMES \in Nat \ {0}
    /\ tlb_size \in Nat /\ WORD \in Nat \ {0}
    /\ Addresses \subseteq Nat /\ 0 \in Addresses /\ Args \subseteq Nat
    /\ NULL \notin Pids \cup Lines

(* vaddr_t, vpn_t and pfn_t are of 16 bits: a page table has 2^16 divided   *)
(* by page_size entries, at least one, and get_free_frame()'s int is a      *)
(* pfn_t without loss.                                                      *)
ASSUME SixteenBits ==
    /\ page_size <= 65536 /\ CPU_NUM_FRAMES <= 65536
    /\ \A a \in Addresses : a < 65536

VARIABLES
    forked,     \* the pids that have a page table
    pagetable,  \* of each process
    current,    \* the running process
    rlt,        \* the reverse lookup table: the page each frame holds
    tlb,
    memory,     \* the page in each frame
    swapfile,   \* saved copies of each page, the newest first
    line,       \* the trace line being executed
    pc,         \* the function that executes it
    pfn,        \* the frame the lookup has found
    loaded      \* what the last load returned

vmVars == <<forked, pagetable, current, rlt, tlb, memory, swapfile,
            line, pc, pfn, loaded>>

VmTypeOK ==
    /\ forked \subseteq Pids
    /\ pagetable \in [Pids -> [Vpns -> PTEs]]
    /\ current \in forked \cup {NULL}
    /\ rlt \in [Frames -> [pcb : Pids \cup {NULL}, vpn : Vpns]]
    /\ tlb \in [TlbIndex -> TlbEntries]
    /\ memory \in [Frames -> Pages]
    /\ swapfile \in [Pids -> [Vpns -> Seq(Pages)]]
    /\ line \in Lines \cup {NULL}
    /\ pc \in {"read", "tlb_lookup", "page_from_disk", "tlb_fill", "access"}
    /\ pfn \in Frames
    /\ loaded \in Words

(* calloc() leaves every table zero.                                        *)
ZeroPte == [pfn |-> 0, valid |-> FALSE, used |-> FALSE, dirty |-> FALSE]

VmInit ==
    /\ forked = {}
    /\ pagetable = [p \in Pids |-> [v \in Vpns |-> ZeroPte]]
    /\ current = NULL
    /\ rlt = [f \in Frames |-> [pcb |-> NULL, vpn |-> 0]]
    /\ tlb = [i \in TlbIndex |->
                 [vpn |-> 0, pfn |-> 0, valid |-> FALSE, used |-> FALSE]]
    /\ memory = [f \in Frames |-> ZeroPage]
    /\ swapfile = [p \in Pids |-> [v \in Vpns |-> <<>>]]
    /\ line = NULL /\ pc = "read" /\ pfn = 0 /\ loaded = 0

Vpn == VADDR_PAGENUM(line.addr)
Write == line.cmd = "s"

-----------------------------------------------------------------------------
(* '@': a trace creates each of its processes once.                         *)
proc_fork(p) ==
    /\ pc = "read" /\ p \notin forked
    /\ forked' = forked \cup {p}
    /\ pagetable' = [pagetable EXCEPT ![p] = [v \in Vpns |-> ZeroPte]]
    /\ UNCHANGED <<current, rlt, tlb, memory, swapfile, line, pc, pfn, loaded>>

Clear(e) == [e EXCEPT !.valid = FALSE, !.used = FALSE]

tlb_clearall == [i \in TlbIndex |-> Clear(tlb[i])]

(* The entries of a page number, whatever process they belong to.           *)
tlb_clearone(v) ==
    [i \in TlbIndex |-> IF tlb[i].vpn = v THEN Clear(tlb[i]) ELSE tlb[i]]

(* Mutant of proc_switch: the TLB is not cleared.                           *)
SwitchOnly(p) == current' = p /\ UNCHANGED tlb

proc_switch(p) == current' = p /\ tlb' = tlb_clearall

(* Mutant of Word: the argument is not reduced to a byte.                   *)
Unreduced(n) == n

Word(n) == n % WORD

(* 'l' and 's': the simulator switches to the process of the line first.    *)
ReadLine(cmd, p, a, n) ==
    /\ pc = "read" /\ p \in forked
    /\ IF current = NULL \/ current # p
       THEN proc_switch(p)
       ELSE UNCHANGED <<current, tlb>>
    /\ line' = [cmd |-> cmd, pid |-> p, addr |-> a, val |-> Word(n)]
    /\ pc' = "tlb_lookup"
    /\ UNCHANGED <<forked, pagetable, rlt, memory, swapfile, pfn, loaded>>

-----------------------------------------------------------------------------
Hits(v) == {i \in TlbIndex : tlb[i].valid /\ tlb[i].vpn = v}

(* tlb_lookup() returns the frame of the first entry that matches.          *)
TlbHit ==
    /\ pc = "tlb_lookup"
    /\ \E i \in Hits(Vpn) :
          /\ \A j \in Hits(Vpn) : i <= j
          /\ pfn' = tlb[i].pfn
    /\ pc' = "access"
    /\ UNCHANGED <<forked, pagetable, current, rlt, tlb, memory, swapfile,
                   line, loaded>>

pagetable_lookup ==
    /\ pc = "tlb_lookup" /\ Hits(Vpn) = {}
    /\ pagetable[current][Vpn].valid
    /\ pfn' = pagetable[current][Vpn].pfn
    /\ pc' = "tlb_fill"
    /\ UNCHANGED <<forked, pagetable, current, rlt, tlb, memory, swapfile,
                   line, loaded>>

FreeFrames == {f \in Frames : rlt[f].pcb = NULL}
Used(f) == pagetable[rlt[f].pcb][rlt[f].vpn].used
Unused == {f \in Frames : ~Used(f)}

(* get_free_frame(): the first free frame, or the first that has not been   *)
(* used since the sweep last passed it, or frame 0.                         *)
get_free_frame(f) ==
    IF FreeFrames # {} THEN f \in FreeFrames /\ \A g \in FreeFrames : f <= g
    ELSE IF Unused # {} THEN f \in Unused /\ \A g \in Unused : f <= g
    ELSE f = 0

(* The pages whose used bit the sweep clears on its way.                    *)
Swept(p, v) ==
    /\ FreeFrames = {}
    /\ \E f \in Frames : /\ rlt[f] = [pcb |-> p, vpn |-> v]
                         /\ \A g \in Unused : f < g

(* Mutant of Victim: the page's entry stays valid.                          *)
NoVictim(f, p, v) == FALSE

(* Frame f holds this page, whose mapping must go.                          *)
Victim(f, p, v) ==
    /\ rlt[f] = [pcb |-> p, vpn |-> v]
    /\ pagetable[p][v].valid

(* A dirty victim is saved.                                                 *)
page_to_disk(f) ==
    [p \in Pids |-> [v \in Vpns |->
        IF Victim(f, p, v) /\ pagetable[p][v].dirty
        THEN <<memory[f]>> \o swapfile[p][v]
        ELSE swapfile[p][v]]]

(* The page table entries after the eviction of f and the new mapping.      *)
Remap(f) ==
    [p \in Pids |-> [v \in Vpns |->
        IF p = current /\ v = Vpn
        THEN [pfn |-> f, valid |-> TRUE, used |-> TRUE, dirty |-> Write]
        ELSE [pagetable[p][v] EXCEPT
                 !.used = @ /\ ~Swept(p, v),
                 !.valid = @ /\ ~Victim(f, p, v)]]]

pagefault_handler ==
    /\ pc = "tlb_lookup" /\ Hits(Vpn) = {}
    /\ ~pagetable[current][Vpn].valid
    /\ \E f \in Frames :
          /\ get_free_frame(f)
          /\ swapfile' = page_to_disk(f)
          /\ tlb' = IF \E p \in Pids : Victim(f, p, rlt[f].vpn)
                    THEN tlb_clearone(rlt[f].vpn)
                    ELSE tlb
          /\ rlt' = [rlt EXCEPT ![f] = [pcb |-> current, vpn |-> Vpn]]
          /\ pagetable' = Remap(f)
          /\ pfn' = f
    /\ pc' = "page_from_disk"
    /\ UNCHANGED <<forked, current, memory, line, loaded>>

Saved == swapfile[current][Vpn]

(* Mutant of DiskPage: a page that was never saved is not zeroed.           *)
UnzeroedPage == IF Saved = <<>> THEN memory[pfn] ELSE Head(Saved)

DiskPage == IF Saved = <<>> THEN ZeroPage ELSE Head(Saved)

(* Mutant of Unlinked: the copy that was read stays in the swap file.       *)
Linked == Saved

Unlinked == IF Saved = <<>> THEN Saved ELSE Tail(Saved)

(* The newest copy is read and unlinked; a page never saved is zero.        *)
page_from_disk ==
    /\ pc = "page_from_disk"
    /\ memory' = [memory EXCEPT ![pfn] = DiskPage]
    /\ swapfile' = [swapfile EXCEPT ![current][Vpn] = Unlinked]
    /\ pc' = "tlb_fill"
    /\ UNCHANGED <<forked, pagetable, current, rlt, tlb, line, pfn, loaded>>

Invalid == {i \in TlbIndex : ~tlb[i].valid}
Slots == IF Invalid # {} THEN Invalid
         ELSE {i \in TlbIndex : ~tlb[i].used}

(* The rest of tlb_lookup(): an invalid entry is filled, or the first one   *)
(* the sweep finds unused, or none.                                         *)
TlbFill ==
    /\ pc = "tlb_fill"
    /\ tlb' = [i \in TlbIndex |->
         IF i \in Slots /\ \A j \in Slots : i <= j
         THEN [vpn |-> Vpn, pfn |-> pfn, valid |-> TRUE, used |-> TRUE]
         ELSE IF Invalid = {} /\ \A j \in Slots : i < j
         THEN [tlb[i] EXCEPT !.used = FALSE]
         ELSE tlb[i]]
    /\ pc' = "access"
    /\ UNCHANGED <<forked, pagetable, current, rlt, memory, swapfile, line,
                   pfn, loaded>>

-----------------------------------------------------------------------------
mem_load ==
    /\ pc = "access" /\ ~Write
    /\ loaded' = memory[pfn][VADDR_OFFSET(line.addr)]
    /\ line' = NULL /\ pc' = "read" /\ pfn' = 0
    /\ UNCHANGED <<forked, pagetable, current, rlt, tlb, memory, swapfile>>

mem_store ==
    /\ pc = "access" /\ Write
    /\ memory' = [memory EXCEPT ![pfn][VADDR_OFFSET(line.addr)] = line.val]
    /\ line' = NULL /\ pc' = "read" /\ pfn' = 0
    /\ UNCHANGED <<forked, pagetable, current, rlt, tlb, swapfile, loaded>>

sim_readdata ==
    \/ \E p \in Pids : proc_fork(p)
    \/ \E cmd \in {"l", "s"}, p \in Pids, a \in Addresses, n \in Args :
          ReadLine(cmd, p, a, n)

VmNext ==
    \/ sim_readdata
    \/ TlbHit \/ pagetable_lookup \/ pagefault_handler \/ page_from_disk
    \/ TlbFill \/ mem_load \/ mem_store

VmSpec == VmInit /\ [][VmNext]_vmVars

-----------------------------------------------------------------------------
(* The page tables and the reverse lookup table are inverses: a frame       *)
(* belongs to the page whose valid entry names it, and to no other.  The    *)
(* victim's entry, the reverse table and the new entry are updated in turn, *)
(* in two processes' tables.                                                *)
FramesAreOwned ==
    /\ \A p \in Pids, v \in Vpns : pagetable[p][v].valid =>
          rlt[pagetable[p][v].pfn] = [pcb |-> p, vpn |-> v]
    /\ \A f \in Frames : rlt[f].pcb # NULL =>
          /\ pagetable[rlt[f].pcb][rlt[f].vpn].valid
          /\ pagetable[rlt[f].pcb][rlt[f].vpn].pfn = f

(* A valid TLB entry is a copy of a valid page table entry of the running   *)
(* process: neither an eviction, which clears by page number alone, nor a   *)
(* switch between processes that use the same page numbers leaves a stale   *)
(* translation to another page's frame.                                     *)
TlbIsCoherent ==
    \A i \in TlbIndex : tlb[i].valid =>
        /\ current # NULL
        /\ pagetable[current][tlb[i].vpn].valid
        /\ pagetable[current][tlb[i].vpn].pfn = tlb[i].pfn

(* A page has one home: a copy in the swap file is the only one, and there  *)
(* is none of a page in memory, except while page_from_disk() reads it.     *)
OneHome ==
    \A p \in Pids, v \in Vpns :
        /\ Len(swapfile[p][v]) <= 1
        /\ pagetable[p][v].valid /\ swapfile[p][v] # <<>> =>
              pc = "page_from_disk" /\ p = current /\ v = Vpn

(* What an address of a process holds, wherever its page is.                *)
Contents ==
    [p \in Pids |-> [a \in Addresses |->
        LET v == VADDR_PAGENUM(a)
            arriving == pc = "page_from_disk" /\ p = current /\ v = Vpn
            page == IF pagetable[p][v].valid /\ ~arriving
                    THEN memory[pagetable[p][v].pfn]
                    ELSE IF swapfile[p][v] # <<>> THEN Head(swapfile[p][v])
                    ELSE ZeroPage
        IN  page[VADDR_OFFSET(a)]]]

Flat == INSTANCE FlatMemory WITH contents <- Contents, request <- line

(* The machinery of TLB, page tables, frames and swap file implements a     *)
(* memory per process in which the only thing that can go wrong is that a   *)
(* page turns to zero when it is evicted: a load never returns a byte of    *)
(* another page, of another process or of an older copy.                    *)
ImplementsLossyMemory == Flat!LossySpec
=============================================================================
