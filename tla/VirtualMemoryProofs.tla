------------------------- MODULE VirtualMemoryProofs -------------------------
(***************************************************************************)
(* The tables of the virtual memory agree with each other, for any number  *)
(* of processes, frames and TLB entries, any page size and any trace; and  *)
(* each step of the simulator is a step of the flat memory of FlatMemory, in*)
(* which a page may turn to zero, or none.                                  *)
(***************************************************************************)
EXTENDS VirtualMemory, TLAPS

(* What the functions on the way of an access may rely on: the line is the  *)
(* running process's, and the frame found is the one its page table names.  *)
AccessState ==
    /\ line = NULL <=> pc = "read"
    /\ pc # "read" => line.pid = current /\ current \in Pids
    /\ pc \in {"page_from_disk", "tlb_fill", "access"} =>
          /\ pagetable[current][Vpn].valid
          /\ pagetable[current][Vpn].pfn = pfn

(* Only a process that exists has pages in memory.                          *)
OnlyForked == \A p \in Pids \ forked, v \in Vpns : ~pagetable[p][v].valid

VmInv ==
    /\ VmTypeOK /\ AccessState /\ OnlyForked
    /\ FramesAreOwned /\ TlbIsCoherent /\ OneHome

-----------------------------------------------------------------------------
(* The sequences of saved copies: a copy added in front of none, and the    *)
(* one copy taken away.                                                     *)
LEMMA SwapSequences ==
    /\ \A m \in Pages : <<m>> \o <<>> = <<m>> /\ <<m>> \in Seq(Pages)
    /\ \A m \in Pages : Len(<<m>>) = 1
    /\ \A s \in Seq(Pages) : s # <<>> =>
          Head(s) \in Pages /\ Tail(s) \in Seq(Pages)
    /\ \A s \in Seq(Pages) : s # <<>> /\ Len(s) <= 1 => Tail(s) = <<>>
    /\ Len(<<>>) = 0 /\ <<>> \in Seq(Pages)
  OBVIOUS

(* A byte's place in its page, and the page number of an address, exist;    *)
(* an argument is reduced to a byte.                                        *)
LEMMA Splitting ==
    /\ \A a \in Addresses : VADDR_OFFSET(a) \in Offsets
    /\ \A a \in Addresses : VADDR_PAGENUM(a) \in Vpns
    /\ 0 \in Vpns /\ 0 \in Frames /\ 0 \in Words
    /\ \A n \in Args : Word(n) \in Words
    /\ ZeroPage \in Pages
  <1>1. \A a \in Addresses : VADDR_PAGENUM(a) \in Vpns
    BY DEF Vpns
  <1>2. 0 \in Vpns
    <2>1. VADDR_PAGENUM(0) = 0
      BY VmAssumption DEF VADDR_PAGENUM
    <2> QED BY <1>1, <2>1, VmAssumption
  <1>3. \A n \in Nat, m \in Nat \ {0} : n % m \in 0 .. m - 1
    OBVIOUS
  <1>4. \A a \in Addresses : VADDR_OFFSET(a) \in Offsets
    BY <1>3, VmAssumption DEF VADDR_OFFSET, Offsets
  <1>5. \A n \in Args : Word(n) \in Words
    BY <1>3, VmAssumption DEF Word, Words
  <1>6. 0 \in Frames /\ 0 \in Words
    BY VmAssumption DEF Frames, Words
  <1>7. ZeroPage \in Pages
    BY <1>6 DEF ZeroPage, Pages
  <1> QED BY <1>1, <1>2, <1>4, <1>5, <1>6, <1>7

(* Clearing an entry keeps its translation, and makes it invalid.           *)
LEMMA ClearedEntry ==
    ASSUME NEW e \in TlbEntries
    PROVE  /\ Clear(e) \in TlbEntries
           /\ Clear(e).valid = FALSE
           /\ Clear(e).vpn = e.vpn /\ Clear(e).pfn = e.pfn
  BY DEF Clear, TlbEntries

(* The tables are empty at the start.                                       *)
LEMMA VmInitially == VmInit => VmInv
  <1> SUFFICES ASSUME VmInit PROVE VmInv
    OBVIOUS
  <1> USE VmAssumption, Splitting DEF VmInit
  <1>1. VmTypeOK
    BY SwapSequences DEF VmTypeOK, PTEs, TlbEntries, ZeroPte
  <1>2. AccessState /\ OnlyForked
    BY DEF AccessState, OnlyForked, ZeroPte
  <1>3. FramesAreOwned /\ TlbIsCoherent
    BY DEF FramesAreOwned, TlbIsCoherent, ZeroPte
  <1>4. OneHome
    BY DEF OneHome, ZeroPte
  <1> QED BY <1>1, <1>2, <1>3, <1>4 DEF VmInv

(* Creating a process: it had no pages.                                     *)
LEMMA ForkStep ==
    ASSUME VmInv, NEW p \in Pids, proc_fork(p)
    PROVE  VmInv'
  <1> USE DEF VmInv, proc_fork
  <1>1. VmTypeOK'
    BY Splitting DEF VmTypeOK, PTEs, ZeroPte
  <1>2. \A q \in Pids, v \in Vpns :
           /\ q # p => pagetable'[q][v] = pagetable[q][v]
           /\ ~pagetable[p][v].valid /\ ~pagetable'[p][v].valid
    BY DEF VmTypeOK, OnlyForked, ZeroPte
  <1>3. current # p
    BY VmAssumption DEF VmTypeOK
  <1>4. AccessState' /\ OnlyForked'
    BY <1>2, <1>3 DEF VmTypeOK, AccessState, OnlyForked, Vpn
  <1>5. FramesAreOwned'
    BY <1>2 DEF VmTypeOK, FramesAreOwned
  <1>6. TlbIsCoherent'
    BY <1>2, <1>3 DEF VmTypeOK, TlbIsCoherent
  <1>7. OneHome'
    BY <1>2, <1>3 DEF VmTypeOK, OneHome, Vpn
  <1> QED BY <1>1, <1>4, <1>5, <1>6, <1>7

(* The next line: a switch of process leaves no valid TLB entry.            *)
LEMMA ReadLineStep ==
    ASSUME VmInv, NEW cmd \in {"l", "s"}, NEW p \in Pids,
           NEW a \in Addresses, NEW n \in Args, ReadLine(cmd, p, a, n)
    PROVE  VmInv'
  <1> USE DEF VmInv, ReadLine
  <1>1. /\ current' = p
        /\ \/ current = p /\ tlb' = tlb
           \/ tlb' = tlb_clearall
    BY DEF proc_switch
  <1>2. VmTypeOK'
    <2>1. tlb' \in [TlbIndex -> TlbEntries]
      BY <1>1, ClearedEntry DEF VmTypeOK, tlb_clearall
    <2>2. line' \in Lines
      BY Splitting DEF Lines
    <2> QED BY <1>1, <2>1, <2>2 DEF VmTypeOK
  <1>3. AccessState' /\ OnlyForked'
    <2>1. line'.pid = p /\ line' # NULL
      BY Splitting, VmAssumption DEF Lines
    <2> QED BY <1>1, <2>1 DEF VmTypeOK, AccessState, OnlyForked
  <1>4. FramesAreOwned'
    BY DEF FramesAreOwned
  <1>5. TlbIsCoherent'
    <2>1. CASE current = p /\ tlb' = tlb
      BY <2>1, <1>1 DEF TlbIsCoherent
    <2>2. CASE tlb' = tlb_clearall
      <3>1. \A i \in TlbIndex : tlb'[i].valid = FALSE
        BY <2>2, ClearedEntry DEF VmTypeOK, tlb_clearall
      <3> QED BY <3>1 DEF TlbIsCoherent
    <2> QED BY <1>1, <2>1, <2>2
  <1>6. OneHome'
    BY DEF OneHome
  <1> QED BY <1>2, <1>3, <1>4, <1>5, <1>6

(* A lookup that does not fault finds the frame of the page.                *)
LEMMA LookupStep ==
    ASSUME VmInv, TlbHit \/ pagetable_lookup
    PROVE  VmInv'
  <1> USE DEF VmInv
  <1>1. /\ UNCHANGED <<forked, pagetable, current, rlt, tlb, memory, swapfile,
                       line, loaded>>
        /\ pc = "tlb_lookup" /\ pc' \in {"tlb_fill", "access"}
    BY DEF TlbHit, pagetable_lookup
  <1>2. line \in Lines /\ current \in Pids /\ Vpn \in Vpns /\ Vpn' = Vpn
    BY <1>1 DEF VmTypeOK, AccessState, Vpn, Lines, Vpns
  <1>3. /\ pagetable[current][Vpn].valid
        /\ pfn' = pagetable[current][Vpn].pfn
    <2>1. CASE TlbHit
      BY <2>1, <1>2 DEF TlbHit, Hits, TlbIsCoherent
    <2>2. CASE pagetable_lookup
      BY <2>2 DEF pagetable_lookup
    <2> QED BY <2>1, <2>2
  <1>4. VmTypeOK'
    <2>1. pfn' \in Frames
      BY <1>2, <1>3 DEF VmTypeOK, PTEs
    <2> QED BY <1>1, <2>1 DEF VmTypeOK
  <1>5. AccessState' /\ OnlyForked'
    BY <1>1, <1>2, <1>3 DEF AccessState, OnlyForked
  <1>6. FramesAreOwned' /\ TlbIsCoherent'
    BY <1>1 DEF FramesAreOwned, TlbIsCoherent
  <1>7. OneHome'
    BY <1>1, <1>2 DEF OneHome
  <1> QED BY <1>4, <1>5, <1>6, <1>7

(* Reading the page from disk takes its last copy away.                     *)
LEMMA DiskStep ==
    ASSUME VmInv, page_from_disk
    PROVE  VmInv'
  <1> USE DEF VmInv, page_from_disk
  <1>1. /\ UNCHANGED <<forked, pagetable, current, rlt, tlb, line, pfn, loaded>>
        /\ pc = "page_from_disk" /\ pc' = "tlb_fill"
    OBVIOUS
  <1>2. line \in Lines /\ current \in Pids /\ Vpn \in Vpns /\ Vpn' = Vpn
    BY <1>1 DEF VmTypeOK, AccessState, Vpn, Lines, Vpns
  <1>3. /\ swapfile' \in [Pids -> [Vpns -> Seq(Pages)]]
        /\ swapfile'[current][Vpn] = <<>>
        /\ \A p \in Pids, v \in Vpns : p # current \/ v # Vpn =>
              swapfile'[p][v] = swapfile[p][v]
    <2>1. swapfile[current][Vpn] \in Seq(Pages)
      BY <1>2 DEF VmTypeOK
    <2>2. Len(swapfile[current][Vpn]) <= 1
      BY <1>2 DEF OneHome
    <2>3. Unlinked = <<>>
      BY <2>1, <2>2, SwapSequences DEF Unlinked, Saved
    <2>4. swapfile' = [swapfile EXCEPT ![current][Vpn] = <<>>]
      BY <2>3
    <2>5. <<>> \in Seq(Pages)
      BY SwapSequences
    <2>6. swapfile \in [Pids -> [Vpns -> Seq(Pages)]]
      BY DEF VmTypeOK
    <2> HIDE DEF VmInv, page_from_disk
    <2>7. swapfile' \in [Pids -> [Vpns -> Seq(Pages)]]
      BY <1>2, <2>4, <2>5, <2>6
    <2>8. swapfile'[current][Vpn] = <<>>
      BY <1>2, <2>4, <2>6
    <2>9. \A p \in Pids, v \in Vpns : p # current \/ v # Vpn =>
             swapfile'[p][v] = swapfile[p][v]
      BY <1>2, <2>4, <2>6
    <2> QED BY <2>7, <2>8, <2>9
  <1>4. memory' \in [Frames -> Pages]
    <2>1. swapfile[current][Vpn] \in Seq(Pages)
      BY <1>2 DEF VmTypeOK
    <2>2. DiskPage \in Pages
      BY <2>1, SwapSequences, Splitting DEF DiskPage, Saved
    <2> QED BY <2>2 DEF VmTypeOK
  <1>5. VmTypeOK'
    BY <1>1, <1>3, <1>4 DEF VmTypeOK
  <1>6. AccessState' /\ OnlyForked'
    BY <1>1, <1>2 DEF AccessState, OnlyForked
  <1>7. FramesAreOwned' /\ TlbIsCoherent'
    BY <1>1 DEF FramesAreOwned, TlbIsCoherent
  <1>8. OneHome'
    BY <1>1, <1>2, <1>3, SwapSequences DEF OneHome
  <1> QED BY <1>5, <1>6, <1>7, <1>8

(* The TLB is filled with the translation just found, or not at all.        *)
LEMMA FillStep ==
    ASSUME VmInv, TlbFill
    PROVE  VmInv'
  <1> USE DEF VmInv
  <1>1. /\ UNCHANGED <<forked, pagetable, current, rlt, memory, swapfile,
                       line, pfn, loaded>>
        /\ pc = "tlb_fill" /\ pc' = "access"
    BY DEF TlbFill
  <1>2. line \in Lines /\ current \in Pids /\ Vpn \in Vpns /\ Vpn' = Vpn
    BY <1>1 DEF VmTypeOK, AccessState, Vpn, Lines, Vpns
  <1>3. /\ tlb' \in [TlbIndex -> TlbEntries]
        /\ \A i \in TlbIndex :
              \/ tlb'[i].vpn = Vpn /\ tlb'[i].pfn = pfn
              \/ /\ tlb'[i].vpn = tlb[i].vpn /\ tlb'[i].pfn = tlb[i].pfn
                 /\ tlb'[i].valid = tlb[i].valid
    BY <1>2 DEF VmTypeOK, TlbEntries, TlbFill
  <1>4. VmTypeOK'
    BY <1>1, <1>3 DEF VmTypeOK
  <1>5. AccessState' /\ OnlyForked'
    BY <1>1, <1>2 DEF AccessState, OnlyForked
  <1>6. FramesAreOwned'
    BY <1>1 DEF FramesAreOwned
  <1>7. TlbIsCoherent'
    BY <1>1, <1>2, <1>3, VmAssumption DEF TlbIsCoherent, AccessState
  <1>8. OneHome'
    BY <1>1, <1>2 DEF OneHome
  <1> QED BY <1>4, <1>5, <1>6, <1>7, <1>8

(* The access itself changes one byte, or nothing.                          *)
LEMMA AccessStep ==
    ASSUME VmInv, mem_load \/ mem_store
    PROVE  VmInv'
  <1> USE DEF VmInv
  <1>1. /\ UNCHANGED <<forked, pagetable, current, rlt, tlb, swapfile>>
        /\ pc = "access" /\ pc' = "read" /\ line' = NULL /\ pfn' = 0
    BY DEF mem_load, mem_store
  <1>2. line \in Lines
    BY <1>1 DEF VmTypeOK, AccessState
  <1>3. memory' \in [Frames -> Pages] /\ loaded' \in Words
    <2>1. /\ VADDR_OFFSET(line.addr) \in Offsets
          /\ line.val \in Words
      BY <1>2, Splitting DEF Lines
    <2>2. CASE mem_load
      BY <2>1, <2>2 DEF VmTypeOK, mem_load, Pages
    <2>3. CASE mem_store
      BY <2>1, <2>3 DEF VmTypeOK, mem_store, Pages
    <2> QED BY <2>2, <2>3
  <1>4. VmTypeOK'
    BY <1>1, <1>3, Splitting DEF VmTypeOK
  <1>5. AccessState' /\ OnlyForked'
    BY <1>1 DEF AccessState, OnlyForked
  <1>6. FramesAreOwned' /\ TlbIsCoherent'
    BY <1>1 DEF FramesAreOwned, TlbIsCoherent
  <1>7. OneHome'
    BY <1>1 DEF OneHome
  <1> QED BY <1>4, <1>5, <1>6, <1>7

(* A page fault: the victim's mapping goes, its TLB entries go, its only    *)
(* copy goes to the swap file if it is dirty, and the new mapping is the    *)
(* only one of the frame.                                                   *)
LEMMA FaultStep ==
    ASSUME VmInv, pagefault_handler
    PROVE  VmInv'
  <1> USE DEF VmInv
  <1>1. /\ UNCHANGED <<forked, current, memory, line, loaded>>
        /\ pc = "tlb_lookup" /\ pc' = "page_from_disk"
        /\ ~pagetable[current][Vpn].valid
    BY DEF pagefault_handler
  <1>2. line \in Lines /\ current \in Pids /\ Vpn \in Vpns /\ Vpn' = Vpn
    BY <1>1 DEF VmTypeOK, AccessState, Vpn, Lines, Vpns
  <1>3. PICK f \in Frames :
          /\ swapfile' = page_to_disk(f)
          /\ tlb' = IF \E p \in Pids : Victim(f, p, rlt[f].vpn)
                    THEN tlb_clearone(rlt[f].vpn)
                    ELSE tlb
          /\ rlt' = [rlt EXCEPT ![f] = [pcb |-> current, vpn |-> Vpn]]
          /\ pagetable' = Remap(f)
          /\ pfn' = f
    BY DEF pagefault_handler
  <1>4. /\ pagetable' \in [Pids -> [Vpns -> PTEs]]
        /\ pagetable'[current][Vpn].valid
        /\ pagetable'[current][Vpn].pfn = f
        /\ \A p \in Pids, v \in Vpns : p # current \/ v # Vpn =>
              /\ pagetable'[p][v].pfn = pagetable[p][v].pfn
              /\ pagetable'[p][v].valid <=>
                    pagetable[p][v].valid /\ ~Victim(f, p, v)
    <2>1. Write \in BOOLEAN
      BY DEF Write
    <2>2. [pfn |-> f, valid |-> TRUE, used |-> TRUE, dirty |-> Write] \in PTEs
      BY <2>1 DEF PTEs
    <2>3. ASSUME NEW p \in Pids, NEW v \in Vpns
          PROVE  LET e == [pagetable[p][v] EXCEPT
                              !.used = @ /\ ~Swept(p, v),
                              !.valid = @ /\ ~Victim(f, p, v)]
                 IN  /\ e \in PTEs
                     /\ e.pfn = pagetable[p][v].pfn
                     /\ e.valid <=> pagetable[p][v].valid /\ ~Victim(f, p, v)
      <3> HIDE DEF VmInv
      <3>1. pagetable[p][v] \in PTEs
        BY DEF VmInv, VmTypeOK
      <3> QED BY <3>1 DEF PTEs
    <2> QED BY <1>2, <1>3, <2>2, <2>3 DEF Remap
  <1>5. \A p \in Pids, v \in Vpns :
          /\ Victim(f, p, v) <=> /\ rlt[f] = [pcb |-> p, vpn |-> v]
                                 /\ pagetable[p][v].valid
          /\ Victim(f, p, v) => rlt[f].vpn = v /\ rlt[f].pcb = p
    BY DEF Victim
  <1>6. /\ rlt' \in [Frames -> [pcb : Pids \cup {NULL}, vpn : Vpns]]
        /\ rlt'[f] = [pcb |-> current, vpn |-> Vpn]
        /\ \A g \in Frames : g # f => rlt'[g] = rlt[g]
    BY <1>2, <1>3 DEF VmTypeOK
  <1>7. /\ tlb' \in [TlbIndex -> TlbEntries]
        /\ \A i \in TlbIndex : tlb'[i].valid =>
              /\ tlb[i].valid
              /\ tlb'[i].vpn = tlb[i].vpn /\ tlb'[i].pfn = tlb[i].pfn
              /\ ~Victim(f, current, tlb[i].vpn)
    <2>1. CASE \E p \in Pids : Victim(f, p, rlt[f].vpn)
      <3>1. tlb' = tlb_clearone(rlt[f].vpn)
        BY <1>3, <2>1
      <3>2. tlb' \in [TlbIndex -> TlbEntries]
        BY <3>1, ClearedEntry DEF VmTypeOK, tlb_clearone
      <3>3. \A i \in TlbIndex : tlb'[i].valid =>
               tlb[i].vpn # rlt[f].vpn /\ tlb'[i] = tlb[i]
        BY <3>1, ClearedEntry DEF VmTypeOK, tlb_clearone
      <3>4. \A i \in TlbIndex : tlb[i].vpn \in Vpns
        BY DEF VmTypeOK, TlbEntries
      <3>5. ASSUME NEW i \in TlbIndex, tlb'[i].valid
            PROVE  /\ tlb[i].valid
                   /\ tlb'[i].vpn = tlb[i].vpn /\ tlb'[i].pfn = tlb[i].pfn
                   /\ ~Victim(f, current, tlb[i].vpn)
        <4>1. tlb[i].vpn # rlt[f].vpn /\ tlb'[i] = tlb[i]
          BY <3>3, <3>5
        <4>2. ~Victim(f, current, tlb[i].vpn)
          BY <1>2, <1>5, <3>4, <4>1
        <4> QED BY <3>5, <4>1, <4>2
      <3> QED BY <3>2, <3>5
    <2>2. CASE ~\E p \in Pids : Victim(f, p, rlt[f].vpn)
      <3>1. tlb' = tlb
        BY <1>3, <2>2
      <3>2. \A i \in TlbIndex : tlb[i].vpn \in Vpns
        BY DEF VmTypeOK, TlbEntries
      <3> QED BY <1>2, <1>5, <2>2, <3>1, <3>2 DEF VmTypeOK
    <2> QED BY <2>1, <2>2
  <1>8. /\ swapfile' \in [Pids -> [Vpns -> Seq(Pages)]]
        /\ \A p \in Pids, v \in Vpns :
              /\ Len(swapfile'[p][v]) <= 1
              /\ ~Victim(f, p, v) => swapfile'[p][v] = swapfile[p][v]
    <2>1. memory[f] \in Pages
      BY DEF VmTypeOK
    <2>2. ASSUME NEW p \in Pids, NEW v \in Vpns
          PROVE  LET s == IF Victim(f, p, v) /\ pagetable[p][v].dirty
                          THEN <<memory[f]>> \o swapfile[p][v]
                          ELSE swapfile[p][v]
                 IN  s \in Seq(Pages) /\ Len(s) <= 1
      <3>1. swapfile[p][v] \in Seq(Pages) /\ Len(swapfile[p][v]) <= 1
        BY DEF VmTypeOK, OneHome
      <3>2. CASE Victim(f, p, v) /\ pagetable[p][v].dirty
        <4>1. swapfile[p][v] = <<>>
          <5>1. pagetable[p][v].valid
            BY <1>5, <3>2
          <5>2. pc # "page_from_disk"
            BY <1>1
          <5> QED BY <5>1, <5>2 DEF OneHome
        <4> QED BY <2>1, <3>2, <4>1, SwapSequences
      <3> QED BY <3>1, <3>2
    <2> QED BY <1>3, <2>2 DEF page_to_disk
  <1>9. VmTypeOK'
    BY <1>1, <1>3, <1>4, <1>6, <1>7, <1>8 DEF VmTypeOK
  <1>10. AccessState'
    BY <1>1, <1>2, <1>3, <1>4 DEF AccessState
  <1>11. OnlyForked'
    <2>1. current \in forked
      BY <1>2, VmAssumption DEF VmTypeOK
    <2> QED BY <1>1, <1>4, <2>1 DEF OnlyForked
  <1>12. FramesAreOwned'
    <2>1. ASSUME NEW p \in Pids, NEW v \in Vpns, pagetable'[p][v].valid
          PROVE  rlt'[pagetable'[p][v].pfn] = [pcb |-> p, vpn |-> v]
      <3>1. CASE p = current /\ v = Vpn
        BY <3>1, <1>4, <1>6
      <3>2. CASE p # current \/ v # Vpn
        <4>1. /\ pagetable[p][v].valid /\ ~Victim(f, p, v)
              /\ pagetable'[p][v].pfn = pagetable[p][v].pfn
          BY <2>1, <3>2, <1>4
        <4>2. rlt[pagetable[p][v].pfn] = [pcb |-> p, vpn |-> v]
          BY <4>1 DEF FramesAreOwned
        <4>3. pagetable[p][v].pfn # f
          BY <4>1, <4>2, <1>5
        <4>4. pagetable[p][v].pfn \in Frames
          BY DEF VmTypeOK, PTEs
        <4> QED BY <4>1, <4>2, <4>3, <4>4, <1>6
      <3> QED BY <3>1, <3>2
    <2>2. ASSUME NEW g \in Frames, rlt'[g].pcb # NULL
          PROVE  /\ pagetable'[rlt'[g].pcb][rlt'[g].vpn].valid
                 /\ pagetable'[rlt'[g].pcb][rlt'[g].vpn].pfn = g
      <3>1. CASE g = f
        BY <3>1, <1>4, <1>6
      <3>2. CASE g # f
        <4>1. rlt'[g] = rlt[g]
          BY <3>2, <1>6
        <4>2. /\ rlt[g].pcb \in Pids /\ rlt[g].vpn \in Vpns
              /\ pagetable[rlt[g].pcb][rlt[g].vpn].valid
              /\ pagetable[rlt[g].pcb][rlt[g].vpn].pfn = g
          BY <2>2, <4>1 DEF VmTypeOK, FramesAreOwned
        <4>3. ~Victim(f, rlt[g].pcb, rlt[g].vpn)
          <5>1. SUFFICES ASSUME rlt[f] = [pcb |-> rlt[g].pcb,
                                          vpn |-> rlt[g].vpn]
                         PROVE  FALSE
            BY <1>5, <4>2
          <5>2. rlt[f].pcb = rlt[g].pcb /\ rlt[f].vpn = rlt[g].vpn
            BY <5>1
          <5>3. rlt[f].pcb # NULL
            BY <2>2, <4>1, <5>2
          <5>4. pagetable[rlt[f].pcb][rlt[f].vpn].pfn = f
            BY <5>3 DEF FramesAreOwned
          <5> QED BY <3>2, <4>2, <5>2, <5>4
        <4>4. rlt[g].pcb # current \/ rlt[g].vpn # Vpn
          BY <1>1, <4>2
        <4> QED BY <1>4, <4>1, <4>2, <4>3, <4>4
      <3> QED BY <3>1, <3>2
    <2> QED BY <2>1, <2>2 DEF FramesAreOwned
  <1>13. TlbIsCoherent'
    <2>1. \A i \in TlbIndex : tlb[i].vpn \in Vpns
      BY DEF VmTypeOK, TlbEntries
    <2> QED BY <1>1, <1>2, <1>4, <1>7, <2>1 DEF TlbIsCoherent
  <1>14. OneHome'
    <2>1. ASSUME NEW p \in Pids, NEW v \in Vpns,
                 pagetable'[p][v].valid, swapfile'[p][v] # <<>>
          PROVE  p = current /\ v = Vpn
      <3> SUFFICES ASSUME p # current \/ v # Vpn PROVE FALSE
        OBVIOUS
      <3>1. pagetable[p][v].valid /\ ~Victim(f, p, v)
        BY <2>1, <1>4
      <3>2. swapfile[p][v] # <<>>
        BY <3>1, <2>1, <1>8
      <3> QED BY <1>1, <3>1, <3>2 DEF OneHome
    <2> QED BY <1>1, <1>2, <1>8, <2>1 DEF OneHome
  <1> QED BY <1>9, <1>10, <1>11, <1>12, <1>13, <1>14

(* The invariant is preserved by every step of the simulator.               *)
LEMMA VmStep == VmInv /\ [VmNext]_vmVars => VmInv'
  <1> SUFFICES ASSUME VmInv, [VmNext]_vmVars PROVE VmInv'
    OBVIOUS
  <1>1. CASE sim_readdata
    BY <1>1, ForkStep, ReadLineStep DEF sim_readdata
  <1>2. CASE TlbHit \/ pagetable_lookup
    BY <1>2, LookupStep
  <1>3. CASE pagefault_handler
    BY <1>3, FaultStep
  <1>4. CASE page_from_disk
    BY <1>4, DiskStep
  <1>5. CASE TlbFill
    BY <1>5, FillStep
  <1>6. CASE mem_load \/ mem_store
    BY <1>6, AccessStep
  <1>7. CASE UNCHANGED vmVars
    BY <1>7 DEF VmInv, VmTypeOK, AccessState, OnlyForked, FramesAreOwned,
                TlbIsCoherent, OneHome, vmVars, Vpn
  <1> QED BY <1>1, <1>2, <1>3, <1>4, <1>5, <1>6, <1>7 DEF VmNext

(* The inductive invariant holds in every reachable state.                  *)
THEOREM VmInvHolds == VmSpec => []VmInv
  BY VmInitially, VmStep, PTL DEF VmSpec

(* Every table keeps its type: no frame, page or byte is out of range.      *)
THEOREM VmTypeCorrect == VmSpec => []VmTypeOK
  <1>1. VmInv => VmTypeOK
    BY DEF VmInv
  <1> QED BY <1>1, VmInvHolds, PTL

(* pagefault_handler() keeps page tables and reverse lookup table inverse.  *)
THEOREM FramesAreAlwaysOwned == VmSpec => []FramesAreOwned
  <1>1. VmInv => FramesAreOwned
    BY DEF VmInv
  <1> QED BY <1>1, VmInvHolds, PTL

(* proc_switch() and tlb_clearone() leave no stale translation.             *)
THEOREM TlbIsAlwaysCoherent == VmSpec => []TlbIsCoherent
  <1>1. VmInv => TlbIsCoherent
    BY DEF VmInv
  <1> QED BY <1>1, VmInvHolds, PTL

(* page_to_disk() and page_from_disk() keep one copy of a page.             *)
THEOREM PagesHaveOneHome == VmSpec => []OneHome
  <1>1. VmInv => OneHome
    BY DEF VmInv
  <1> QED BY <1>1, VmInvHolds, PTL

-----------------------------------------------------------------------------
(* The refinement of FlatMemory.                                            *)

(* The page being read from disk: mapped, but not yet in its frame.         *)
Arriving(p, v) == pc = "page_from_disk" /\ p = current /\ v = Vpn

(* The contents of each page, wherever it is.                               *)
Home ==
    [p \in Pids |-> [v \in Vpns |->
        IF pagetable[p][v].valid /\ ~Arriving(p, v)
        THEN memory[pagetable[p][v].pfn]
        ELSE IF swapfile[p][v] # <<>> THEN Head(swapfile[p][v])
        ELSE ZeroPage]]

-----------------------------------------------------------------------------
(* Contents reads each address from the home of its page.                   *)
LEMMA ContentsFromHome ==
    /\ Contents = [p \in Pids |-> [a \in Addresses |->
                      Home[p][VADDR_PAGENUM(a)][VADDR_OFFSET(a)]]]
    /\ Contents' = [p \in Pids |-> [a \in Addresses |->
                      Home'[p][VADDR_PAGENUM(a)][VADDR_OFFSET(a)]]]
  BY Splitting DEF Contents, Home, Arriving

(* One process's memory at a time: two memories that hold the same bytes    *)
(* are the same.                                                            *)
LEMMA SameBytes ==
    ASSUME NEW new,
           \A p \in Pids, a \in Addresses : Contents'[p][a] = new[p][a],
           new = [p \in Pids |-> new[p]],
           \A p \in Pids : new[p] = [a \in Addresses |-> new[p][a]]
    PROVE  Contents' = new
  <1>1. \A p \in Pids :
           Contents'[p] = [a \in Addresses |-> Contents'[p][a]]
    BY ContentsFromHome
  <1>2. \A p \in Pids : Contents'[p] = new[p]
    BY <1>1
  <1>3. Contents' = [p \in Pids |-> Contents'[p]]
    BY ContentsFromHome
  <1> QED BY <1>2, <1>3

(* What the flat memory sees of a step that leaves every page alone.        *)
LEMMA SameContents ==
    ASSUME Home' = Home
    PROVE  Contents' = Contents
  BY ContentsFromHome

(* Page number and offset determine the address.                            *)
LEMMA AddressIsSplit ==
    ASSUME NEW a \in Addresses, NEW b \in Addresses,
           VADDR_PAGENUM(a) = VADDR_PAGENUM(b),
           VADDR_OFFSET(a) = VADDR_OFFSET(b)
    PROVE  a = b
  <1>1. \A m \in Nat, n \in Nat \ {0} : m = n * (m \div n) + (m % n)
    OBVIOUS
  <1>2. a \in Nat /\ b \in Nat /\ page_size \in Nat \ {0}
    BY VmAssumption
  <1>3. /\ a = page_size * (a \div page_size) + (a % page_size)
        /\ b = page_size * (b \div page_size) + (b % page_size)
    BY <1>1, <1>2
  <1> QED BY <1>3 DEF VADDR_PAGENUM, VADDR_OFFSET

(* The home of a mapped page is its frame, once it has arrived.             *)
LEMMA HomeOfMapped ==
    ASSUME NEW p \in Pids, NEW v \in Vpns
    PROVE  /\ pagetable[p][v].valid /\ ~Arriving(p, v) =>
                Home[p][v] = memory[pagetable[p][v].pfn]
           /\ ~pagetable[p][v].valid \/ Arriving(p, v) =>
                Home[p][v] = IF swapfile[p][v] # <<>>
                             THEN Head(swapfile[p][v])
                             ELSE ZeroPage
  BY DEF Home

-----------------------------------------------------------------------------
(* The empty tables are an empty memory.                                    *)
LEMMA FlatInitially == VmInit => Flat!FlatInit
  <1> SUFFICES ASSUME VmInit PROVE Flat!FlatInit
    OBVIOUS
  <1>1. ASSUME NEW p \in Pids, NEW v \in Vpns PROVE Home[p][v] = ZeroPage
    BY <1>1 DEF VmInit, ZeroPte, Home
  <1>2. \A p \in Pids, a \in Addresses :
           Home[p][VADDR_PAGENUM(a)][VADDR_OFFSET(a)] = 0
    BY <1>1, Splitting DEF ZeroPage
  <1>3. Contents = [p \in Pids |-> [a \in Addresses |-> 0]]
    BY <1>2, ContentsFromHome
  <1> QED BY <1>3 DEF Flat!FlatInit, VmInit

(* Creating a process: it had no pages and has none.                        *)
LEMMA ForkIsHidden ==
    ASSUME VmInv, NEW p \in Pids, proc_fork(p)
    PROVE  UNCHANGED Flat!flatVars
  <1>1. \A v \in Vpns : ~pagetable[p][v].valid /\ ~pagetable'[p][v].valid
    BY DEF VmInv, VmTypeOK, OnlyForked, proc_fork, ZeroPte
  <1>2. \A q \in Pids : q # p => pagetable'[q] = pagetable[q]
    BY DEF VmInv, VmTypeOK, proc_fork
  <1>3. /\ pc = "read"
        /\ UNCHANGED <<current, memory, swapfile, line, pc, loaded>>
    BY DEF proc_fork
  <1>4. Home' = Home
    BY <1>1, <1>2, <1>3 DEF Home, Arriving
  <1> QED BY <1>3, <1>4, SameContents DEF Flat!flatVars

(* A line of the trace begins a request.                                    *)
LEMMA ReadLineBegins ==
    ASSUME VmInv, VmInv', NEW cmd \in {"l", "s"}, NEW p \in Pids,
           NEW a \in Addresses, NEW n \in Args, ReadLine(cmd, p, a, n)
    PROVE  Flat!Begin
  <1>1. /\ pc = "read" /\ pc' = "tlb_lookup"
        /\ UNCHANGED <<pagetable, memory, swapfile, loaded>>
    BY DEF ReadLine
  <1>2. line = NULL
    BY <1>1 DEF VmInv, AccessState
  <1>3. line' \in Flat!Requests
    <2>1. line' \in Lines
      BY <1>1 DEF VmInv, VmTypeOK, AccessState
    <2> QED BY <2>1 DEF Lines, Words, Flat!Requests
  <1>4. Home' = Home
    BY <1>1 DEF Home, Arriving
  <1> QED BY <1>1, <1>2, <1>3, <1>4, SameContents DEF Flat!Begin

(* Neither a lookup nor the filling of the TLB touches a page.              *)
LEMMA LookupIsHidden ==
    ASSUME VmInv, TlbHit \/ pagetable_lookup \/ TlbFill
    PROVE  UNCHANGED Flat!flatVars
  <1>1. /\ pc # "page_from_disk" /\ pc' # "page_from_disk"
        /\ UNCHANGED <<pagetable, memory, swapfile, line, loaded>>
    BY DEF TlbHit, pagetable_lookup, TlbFill
  <1>2. Home' = Home
    BY <1>1 DEF Home, Arriving
  <1> QED BY <1>1, <1>2, SameContents DEF Flat!flatVars

(* Reading a page from disk moves it into its frame, where no other page is. *)
LEMMA DiskIsHidden ==
    ASSUME VmInv, page_from_disk
    PROVE  UNCHANGED Flat!flatVars
  <1>1. /\ pc = "page_from_disk" /\ pc' = "tlb_fill"
        /\ UNCHANGED <<pagetable, current, line, pfn, loaded>>
        /\ memory' = [memory EXCEPT ![pfn] = DiskPage]
        /\ swapfile' = [swapfile EXCEPT ![current][Vpn] = Unlinked]
    BY DEF page_from_disk
  <1>2. line \in Lines /\ current \in Pids /\ Vpn \in Vpns
    BY <1>1 DEF VmInv, VmTypeOK, AccessState, Vpn, Lines, Vpns
  <1>3. /\ pagetable[current][Vpn].valid
        /\ pagetable[current][Vpn].pfn = pfn
        /\ pfn \in Frames /\ memory \in [Frames -> Pages]
        /\ swapfile \in [Pids -> [Vpns -> Seq(Pages)]]
        /\ pagetable \in [Pids -> [Vpns -> PTEs]]
    BY <1>1 DEF VmInv, AccessState, VmTypeOK
  <1>4. ASSUME NEW p \in Pids, NEW v \in Vpns
        PROVE  Home'[p][v] = Home[p][v]
    <2>1. Home'[p][v] = IF pagetable[p][v].valid
                        THEN memory'[pagetable[p][v].pfn]
                        ELSE IF swapfile'[p][v] # <<>>
                        THEN Head(swapfile'[p][v])
                        ELSE ZeroPage
      BY <1>1 DEF Home, Arriving
    <2>2. CASE p = current /\ v = Vpn
      <3>1. memory'[pfn] = DiskPage
        BY <1>1, <1>3
      <3>2. Home[p][v] = DiskPage
        BY <1>1, <2>2, HomeOfMapped DEF DiskPage, Saved, Arriving
      <3> QED BY <1>3, <2>1, <2>2, <3>1, <3>2
    <2>3. CASE p # current \/ v # Vpn
      <3>1. swapfile'[p][v] = swapfile[p][v]
        BY <1>1, <1>2, <1>3, <2>3
      <3>2. ~Arriving(p, v)
        BY <2>3 DEF Arriving
      <3>3. ASSUME pagetable[p][v].valid
            PROVE  memory'[pagetable[p][v].pfn] = memory[pagetable[p][v].pfn]
        <4>1. /\ rlt[pagetable[p][v].pfn] = [pcb |-> p, vpn |-> v]
              /\ rlt[pfn] = [pcb |-> current, vpn |-> Vpn]
          BY <1>2, <1>3, <3>3 DEF VmInv, FramesAreOwned
        <4>2. pagetable[p][v].pfn # pfn
          BY <2>3, <4>1
        <4>3. pagetable[p][v].pfn \in Frames
          BY <1>3 DEF PTEs
        <4> QED BY <1>1, <1>3, <4>2, <4>3
      <3> QED BY <2>1, <3>1, <3>2, <3>3, HomeOfMapped
    <2> QED BY <2>2, <2>3
  <1>5. Home' = Home
    BY <1>4 DEF Home
  <1> QED BY <1>1, <1>5, SameContents DEF Flat!flatVars

-----------------------------------------------------------------------------
(* What the running process accesses is the home of the page.               *)
LEMMA Accessed ==
    ASSUME VmInv, pc = "access"
    PROVE  /\ line \in Lines /\ line # NULL
           /\ current \in Pids /\ Vpn \in Vpns /\ pfn \in Frames
           /\ line.pid = current
           /\ pagetable[current][Vpn].valid
           /\ pagetable[current][Vpn].pfn = pfn
           /\ Home[current][Vpn] = memory[pfn]
  <1>1. line \in Lines /\ line # NULL
    BY DEF VmInv, VmTypeOK, AccessState
  <1>2. current \in Pids /\ Vpn \in Vpns
    BY <1>1 DEF VmInv, VmTypeOK, AccessState, Vpn, Lines, Vpns
  <1>3. /\ pagetable[current][Vpn].valid
        /\ pagetable[current][Vpn].pfn = pfn
        /\ pfn \in Frames /\ line.pid = current
    BY DEF VmInv, VmTypeOK, AccessState
  <1>4. Home[current][Vpn] = memory[pfn]
    BY <1>2, <1>3, HomeOfMapped DEF Arriving
  <1> QED BY <1>1, <1>2, <1>3, <1>4

(* A load returns the byte of its address.                                  *)
LEMMA LoadLoads ==
    ASSUME VmInv, mem_load
    PROVE  Flat!Load
  <1>1. /\ pc = "access" /\ pc' = "read" /\ line.cmd # "s"
        /\ loaded' = memory[pfn][VADDR_OFFSET(line.addr)]
        /\ line' = NULL
        /\ UNCHANGED <<pagetable, memory, swapfile>>
    BY DEF mem_load, Write
  <1>2. line.cmd = "l" /\ line.addr \in Addresses
    BY <1>1, Accessed DEF Lines
  <1>3. Contents[line.pid][line.addr] = memory[pfn][VADDR_OFFSET(line.addr)]
    BY <1>1, <1>2, Accessed, ContentsFromHome DEF Vpn
  <1>4. Home' = Home
    BY <1>1 DEF Home, Arriving
  <1> QED BY <1>1, <1>2, <1>3, <1>4, Accessed, SameContents DEF Flat!Load

(* A store changes the byte of its address and no other: no other page is   *)
(* in the frame, and no other address of the page has the offset.           *)
LEMMA StoreStores ==
    ASSUME VmInv, mem_store
    PROVE  Flat!Store
  <1> DEFINE off == VADDR_OFFSET(line.addr)
  <1>1. /\ pc = "access" /\ pc' = "read" /\ line.cmd = "s"
        /\ memory' = [memory EXCEPT ![pfn][off] = line.val]
        /\ line' = NULL
        /\ UNCHANGED <<pagetable, swapfile, loaded>>
    BY DEF mem_store, Write
  <1>2. line.addr \in Addresses /\ off \in Offsets
    BY <1>1, Accessed, Splitting DEF Lines
  <1>3. /\ memory \in [Frames -> Pages]
        /\ pagetable \in [Pids -> [Vpns -> PTEs]]
    BY DEF VmInv, VmTypeOK
  <1> HIDE DEF off
  <1>4. ASSUME NEW p \in Pids, NEW v \in Vpns, p # current \/ v # Vpn
        PROVE  Home'[p][v] = Home[p][v]
    <2>1. ASSUME pagetable[p][v].valid
          PROVE  memory'[pagetable[p][v].pfn] = memory[pagetable[p][v].pfn]
      <3>1. /\ rlt[pagetable[p][v].pfn] = [pcb |-> p, vpn |-> v]
            /\ rlt[pfn] = [pcb |-> current, vpn |-> Vpn]
        BY <1>1, <2>1, Accessed DEF VmInv, FramesAreOwned
      <3>2. pagetable[p][v].pfn # pfn
        BY <1>4, <3>1
      <3>3. pagetable[p][v].pfn \in Frames
        BY <1>3 DEF PTEs
      <3> QED BY <1>1, <1>3, <3>2, <3>3, Accessed
    <2> QED BY <1>1, <2>1 DEF Home, Arriving
  <1>5. Home'[current][Vpn] = [memory[pfn] EXCEPT ![off] = line.val]
    <2>1. memory'[pfn] = [memory[pfn] EXCEPT ![off] = line.val]
      BY <1>1, <1>3, Accessed
    <2>2. Home'[current][Vpn] = memory'[pfn]
      BY <1>1, Accessed DEF Home, Arriving
    <2> QED BY <2>1, <2>2
  <1>6. ASSUME NEW p \in Pids, NEW a \in Addresses
        PROVE  Contents'[p][a] = IF p = line.pid /\ a = line.addr
                                 THEN line.val ELSE Contents[p][a]
    <2>1. VADDR_PAGENUM(a) \in Vpns /\ VADDR_OFFSET(a) \in Offsets
      BY Splitting
    <2>2. /\ Contents'[p][a] = Home'[p][VADDR_PAGENUM(a)][VADDR_OFFSET(a)]
          /\ Contents[p][a] = Home[p][VADDR_PAGENUM(a)][VADDR_OFFSET(a)]
      BY ContentsFromHome
    <2>3. CASE p # current \/ VADDR_PAGENUM(a) # Vpn
      BY <1>1, <1>4, <2>1, <2>2, <2>3, Accessed DEF Vpn
    <2>4. CASE p = current /\ VADDR_PAGENUM(a) = Vpn
      <3>1. memory[pfn] \in [Offsets -> Words]
        BY <1>1, <1>3, Accessed DEF Pages
      <3>2. Contents'[p][a] = IF VADDR_OFFSET(a) = off THEN line.val
                              ELSE memory[pfn][VADDR_OFFSET(a)]
        BY <1>2, <1>5, <2>1, <2>2, <2>4, <3>1
      <3>3. VADDR_OFFSET(a) = off <=> a = line.addr
        BY <1>2, <2>4, AddressIsSplit DEF Vpn, off
      <3> QED BY <1>1, <2>2, <2>4, <3>2, <3>3, Accessed
    <2> QED BY <2>3, <2>4
  <1>7. Contents' = [Contents EXCEPT ![line.pid][line.addr] = line.val]
    <2> DEFINE new == [Contents EXCEPT ![line.pid][line.addr] = line.val]
    <2>1. new = [p \in Pids |-> new[p]]
      BY ContentsFromHome
    <2>2. \A p \in Pids : new[p] = [a \in Addresses |-> new[p][a]]
      BY ContentsFromHome
    <2>3. \A p \in Pids, a \in Addresses :
             new[p][a] = IF p = line.pid /\ a = line.addr
                         THEN line.val ELSE Contents[p][a]
      BY ContentsFromHome
    <2> HIDE DEF new
    <2>4. Contents' = new
      BY <1>6, <2>1, <2>2, <2>3, SameBytes
    <2> QED BY <2>4 DEF new
  <1> QED BY <1>1, <1>7, Accessed DEF Flat!Store

-----------------------------------------------------------------------------
(* What a page fault does to the pages: the mapped page keeps its contents, *)
(* on disk, and so does every other; the victim keeps its own if they are   *)
(* saved, and turns to zero if its entry is clean.                          *)
LEMMA Evicted ==
    ASSUME VmInv, pagefault_handler
    PROVE  \E f \in Frames : \A p \in Pids, v \in Vpns :
              Home'[p][v] = IF Victim(f, p, v) /\ ~pagetable[p][v].dirty
                            THEN ZeroPage ELSE Home[p][v]
  <1>1. /\ UNCHANGED <<current, memory, line>>
        /\ pc = "tlb_lookup" /\ pc' = "page_from_disk"
        /\ ~pagetable[current][Vpn].valid
    BY DEF pagefault_handler
  <1>2. PICK f \in Frames : /\ swapfile' = page_to_disk(f)
                            /\ pagetable' = Remap(f)
    BY DEF pagefault_handler
  <1>3. Vpn' = Vpn
    BY <1>1 DEF Vpn
  <1>4. /\ memory \in [Frames -> Pages]
        /\ swapfile \in [Pids -> [Vpns -> Seq(Pages)]]
        /\ pagetable \in [Pids -> [Vpns -> PTEs]]
    BY DEF VmInv, VmTypeOK
  <1>5. ASSUME NEW p \in Pids, NEW v \in Vpns
        PROVE  Home'[p][v] = IF Victim(f, p, v) /\ ~pagetable[p][v].dirty
                             THEN ZeroPage ELSE Home[p][v]
    <2>1. swapfile'[p][v] = IF Victim(f, p, v) /\ pagetable[p][v].dirty
                            THEN <<memory[f]>> \o swapfile[p][v]
                            ELSE swapfile[p][v]
      BY <1>2 DEF page_to_disk
    <2>2. ~Arriving(p, v)
      BY <1>1 DEF Arriving
    <2>3. pagetable[p][v] \in PTEs
      BY <1>4
    <2>4. CASE p = current /\ v = Vpn
      <3>1. ~Victim(f, p, v)
        BY <1>1, <2>4 DEF Victim
      <3>2. swapfile'[p][v] = swapfile[p][v]
        BY <2>1, <3>1
      <3>3. Home'[p][v] = IF swapfile'[p][v] # <<>> THEN Head(swapfile'[p][v])
                          ELSE ZeroPage
        BY <1>1, <1>3, <2>4 DEF Home, Arriving
      <3>4. Home[p][v] = IF swapfile[p][v] # <<>> THEN Head(swapfile[p][v])
                         ELSE ZeroPage
        BY <1>1, <2>4, HomeOfMapped
      <3> QED BY <3>1, <3>2, <3>3, <3>4
    <2>5. CASE p # current \/ v # Vpn
      <3>1. pagetable'[p][v] = [pagetable[p][v] EXCEPT
                                   !.used = @ /\ ~Swept(p, v),
                                   !.valid = @ /\ ~Victim(f, p, v)]
        BY <1>2, <2>5 DEF Remap
      <3>2. /\ pagetable'[p][v].pfn = pagetable[p][v].pfn
            /\ pagetable'[p][v].valid <=>
                  pagetable[p][v].valid /\ ~Victim(f, p, v)
        BY <2>3, <3>1 DEF PTEs
      <3>3. Home'[p][v] = IF pagetable'[p][v].valid
                          THEN memory[pagetable'[p][v].pfn]
                          ELSE IF swapfile'[p][v] # <<>>
                          THEN Head(swapfile'[p][v])
                          ELSE ZeroPage
        BY <1>1, <1>3, <2>5 DEF Home, Arriving
      <3>4. CASE ~Victim(f, p, v)
        BY <2>1, <2>2, <3>2, <3>3, <3>4, HomeOfMapped
      <3>5. CASE Victim(f, p, v)
        <4>1. /\ rlt[f] = [pcb |-> p, vpn |-> v]
              /\ pagetable[p][v].valid
          BY <3>5 DEF Victim
        <4>2. pagetable[p][v].pfn = f
          BY <4>1, VmAssumption DEF VmInv, FramesAreOwned
        <4>3. swapfile[p][v] = <<>>
          BY <1>1, <4>1 DEF VmInv, OneHome
        <4>4. Home[p][v] = memory[f]
          BY <2>2, <4>1, <4>2, HomeOfMapped
        <4>5. memory[f] \in Pages
          BY <1>4
        <4>6. <<memory[f]>> \o <<>> = <<memory[f]>>
          BY <4>5, SwapSequences
        <4>7. Head(<<memory[f]>>) = memory[f] /\ <<memory[f]>> # <<>>
          OBVIOUS
        <4> QED BY <2>1, <3>2, <3>3, <3>5, <4>3, <4>4, <4>6, <4>7
      <3> QED BY <3>4, <3>5
    <2> QED BY <2>4, <2>5
  <1> QED BY <1>5

(* A fault is hidden, unless it evicts a clean page: then that page is lost. *)
LEMMA FaultLosesOnePage ==
    ASSUME VmInv, pagefault_handler
    PROVE  \/ UNCHANGED Flat!flatVars
           \/ \E p \in Pids, b \in Addresses : Flat!Lose(p, b \div page_size)
  <1>1. UNCHANGED <<line, loaded>> /\ line # NULL
    BY DEF pagefault_handler, VmInv, AccessState
  <1>2. PICK f \in Frames : \A p \in Pids, v \in Vpns :
              Home'[p][v] = IF Victim(f, p, v) /\ ~pagetable[p][v].dirty
                            THEN ZeroPage ELSE Home[p][v]
    BY Evicted
  <1>3. CASE \A p \in Pids, v \in Vpns :
                ~Victim(f, p, v) \/ pagetable[p][v].dirty
    <2>1. \A p \in Pids, v \in Vpns : Home'[p][v] = Home[p][v]
      BY <1>2, <1>3
    <2>2. Home' = Home
      BY <2>1 DEF Home
    <2> QED BY <1>1, <2>2, SameContents DEF Flat!flatVars
  <1>4. CASE \E p \in Pids, v \in Vpns :
                Victim(f, p, v) /\ ~pagetable[p][v].dirty
    <2>1. PICK p \in Pids, v \in Vpns :
              Victim(f, p, v) /\ ~pagetable[p][v].dirty
      BY <1>4
    <2>2. \A q \in Pids, w \in Vpns : Victim(f, q, w) => q = p /\ w = v
      <3>1. rlt[f].pcb = p /\ rlt[f].vpn = v
        BY <2>1 DEF Victim
      <3>2. \A q \in Pids, w \in Vpns :
               Victim(f, q, w) => rlt[f].pcb = q /\ rlt[f].vpn = w
        BY DEF Victim
      <3> QED BY <3>1, <3>2
    <2>3. PICK b \in Addresses : v = b \div page_size
      BY DEF Vpns, VADDR_PAGENUM
    <2>4. ASSUME NEW q \in Pids, NEW a \in Addresses
          PROVE  Contents'[q][a] = IF q = p /\ a \div page_size = v
                                   THEN 0 ELSE Contents[q][a]
      <3>1. VADDR_PAGENUM(a) \in Vpns /\ ZeroPage[VADDR_OFFSET(a)] = 0
        BY Splitting DEF ZeroPage
      <3>2. /\ Contents'[q][a] = Home'[q][VADDR_PAGENUM(a)][VADDR_OFFSET(a)]
            /\ Contents[q][a] = Home[q][VADDR_PAGENUM(a)][VADDR_OFFSET(a)]
        BY ContentsFromHome
      <3>3. Home'[q][VADDR_PAGENUM(a)] =
               IF q = p /\ VADDR_PAGENUM(a) = v
               THEN ZeroPage ELSE Home[q][VADDR_PAGENUM(a)]
        BY <1>2, <2>1, <2>2, <3>1
      <3> QED BY <3>1, <3>2, <3>3 DEF VADDR_PAGENUM
    <2>5. Contents' = [Contents EXCEPT ![p] = [a \in Addresses |->
              IF a \div page_size = v THEN 0 ELSE Contents[p][a]]]
      <3> DEFINE lost == [a \in Addresses |->
                             IF a \div page_size = v THEN 0
                             ELSE Contents[p][a]]
                 new == [Contents EXCEPT ![p] = lost]
      <3>1. new = [q \in Pids |-> new[q]]
        BY ContentsFromHome
      <3>2. \A q \in Pids : new[q] = [a \in Addresses |-> new[q][a]]
        BY ContentsFromHome
      <3>3. \A q \in Pids, a \in Addresses :
               new[q][a] = IF q = p /\ a \div page_size = v
                           THEN 0 ELSE Contents[q][a]
        BY ContentsFromHome
      <3> HIDE DEF new
      <3>4. Contents' = new
        BY <2>4, <3>1, <3>2, <3>3, SameBytes
      <3> QED BY <3>4 DEF new
    <2>6. Flat!Lose(p, v)
      BY <1>1, <2>5 DEF Flat!Lose
    <2> QED BY <2>3, <2>6
  <1> QED BY <1>3, <1>4

-----------------------------------------------------------------------------
(* Every step of the simulator is a step of the flat memory, or none.       *)
LEMMA FlatStep ==
    VmInv /\ VmInv' /\ [VmNext]_vmVars => [Flat!LossyNext]_(Flat!flatVars)
  <1> SUFFICES ASSUME VmInv, VmInv', [VmNext]_vmVars
               PROVE  Flat!LossyNext \/ UNCHANGED Flat!flatVars
    OBVIOUS
  <1>1. CASE \E p \in Pids : proc_fork(p)
    BY <1>1, ForkIsHidden
  <1>2. CASE \E cmd \in {"l", "s"}, p \in Pids, a \in Addresses, n \in Args :
                ReadLine(cmd, p, a, n)
    BY <1>2, ReadLineBegins DEF Flat!LossyNext, Flat!FlatNext
  <1>3. CASE TlbHit \/ pagetable_lookup \/ TlbFill
    BY <1>3, LookupIsHidden
  <1>4. CASE pagefault_handler
    BY <1>4, FaultLosesOnePage DEF Flat!LossyNext
  <1>5. CASE page_from_disk
    BY <1>5, DiskIsHidden
  <1>6. CASE mem_load
    BY <1>6, LoadLoads DEF Flat!LossyNext, Flat!FlatNext
  <1>7. CASE mem_store
    BY <1>7, StoreStores DEF Flat!LossyNext, Flat!FlatNext
  <1>8. CASE UNCHANGED vmVars
    <2>1. UNCHANGED <<pagetable, current, memory, swapfile, line, pc, loaded>>
      BY <1>8 DEF vmVars
    <2>2. Contents' = Contents
      BY <2>1 DEF Contents, Vpn
    <2> QED BY <2>1, <2>2 DEF Flat!flatVars
  <1> QED BY <1>1, <1>2, <1>3, <1>4, <1>5, <1>6, <1>7, <1>8
          DEF VmNext, sim_readdata

(* sim_readdata() with TLB, page tables, frames and swap file implements a  *)
(* memory per process in which a byte changes only by a store to its        *)
(* address or by the loss of its whole page, and a load returns the byte of *)
(* its address: never one of another page, process or older copy.           *)
THEOREM VmImplementsLossyMemory == VmSpec => ImplementsLossyMemory
  <1>1. VmInit => Flat!FlatInit
    BY FlatInitially
  <1>2. VmInv /\ VmInv' /\ [VmNext]_vmVars => [Flat!LossyNext]_(Flat!flatVars)
    BY FlatStep
  <1> QED BY <1>1, <1>2, VmInvHolds, PTL
          DEF VmSpec, ImplementsLossyMemory, Flat!LossySpec
=============================================================================
