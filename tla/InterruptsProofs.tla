--------------------------- MODULE InterruptsProofs ---------------------------
(***************************************************************************)
(* The handlers of Interrupts return to the point they interrupted, at any  *)
(* depth of nesting, as long as no interrupt comes late; and what they      *)
(* count, the keys stored and the seconds of the clock, is right for any    *)
(* number of interrupts.                                                    *)
(***************************************************************************)
EXTENDS Interrupts, SequenceTheorems, TLAPS

(* The points a program counter can be at.                                  *)
Places == {"step", "save", "load", "store", "restore", "pop", "di", "reti"}

Points ==
    {p \in [code : {"user"} \cup Devices, at : Places, unit : Nat] :
        /\ p.code = "user" <=> p.at = "step"
        /\ p.code = "timer" => p.unit \in 1 .. 3}

IntTypeOK ==
    /\ pc \in Points /\ k0 \in Points
    /\ sp \in Levels
    /\ regs \in Int /\ keyboard \in Int /\ clock \in [1 .. 3 -> Int]
    /\ frames \in [Levels -> [regs : Int, k0 : Points]]
    /\ active \in Seq(Points)

(* A handler whose frame is not on the stack: not yet, or not any more.     *)
Unsaved == pc.at \in {"save", "di", "reti"}

(* $k0 is the return address of the handler that runs.                      *)
HoldsReturn == pc.at \in {"save", "pop", "di", "reti"}

(* Below the running code is a stack of interrupted points: the program and *)
(* above it handlers that have saved their return address.                  *)
Nesting ==
    /\ pc.code = "user" <=> active = <<>>
    /\ sp = IF Unsaved THEN Len(active) - 1 ELSE Len(active)
    /\ \A i \in 1 .. Len(active) :
          /\ active[i].code = "user" <=> i = 1
          /\ active[i].at \notin {"save", "pop", "di", "reti"}

(* Each frame holds the return address of its handler, the lowest one the   *)
(* registers of the program.                                                *)
FramesHold ==
    /\ \A i \in 1 .. Len(active) : i <= sp => frames[i].k0 = active[i]
    /\ active # <<>> /\ 1 <= sp => frames[1].regs = active[1].unit

(* The registers hold what the running code expects.                        *)
RegistersHold ==
    /\ HoldsReturn => active # <<>> /\ k0 = active[Len(active)]
    /\ pc.code = "user" => regs = pc.unit
    /\ Len(active) = 1 /\ HoldsReturn => regs = active[1].unit
    /\ enabled => pc.at \notin {"save", "reti"}

IntInv ==
    /\ IntTypeOK
    /\ ~late => Nesting /\ FramesHold /\ RegistersHold

-----------------------------------------------------------------------------
(* User points and handler points are points.                               *)
LEMMA PointsTyped ==
    /\ \A n \in Nat : User(n) \in Points
    /\ \A dev \in Devices, at \in Places \ {"step"}, u \in 1 .. 3 :
          In(dev, at, u) \in Points
  BY DEF User, In, Points, Places, Devices

(* Pushing and popping a sequence of points.                                *)
LEMMA PointStacks ==
    ASSUME NEW s \in Seq(Points)
    PROVE  /\ Len(s) \in Nat
           /\ s = <<>> <=> Len(s) = 0
           /\ \A i \in 1 .. Len(s) : s[i] \in Points
           /\ \A p \in Points :
                 /\ Append(s, p) \in Seq(Points)
                 /\ Len(Append(s, p)) = Len(s) + 1
                 /\ Append(s, p)[Len(s) + 1] = p
                 /\ \A i \in 1 .. Len(s) : Append(s, p)[i] = s[i]
           /\ s # <<>> =>
                 /\ SubSeq(s, 1, Len(s) - 1) \in Seq(Points)
                 /\ Len(SubSeq(s, 1, Len(s) - 1)) = Len(s) - 1
                 /\ \A i \in 1 .. Len(s) - 1 :
                       SubSeq(s, 1, Len(s) - 1)[i] = s[i]
  <1>1. Len(s) \in Nat /\ \A i \in 1 .. Len(s) : s[i] \in Points
    BY ElementOfSeq
  <1>2. s = <<>> <=> Len(s) = 0
    BY EmptySeq
  <1>3. ASSUME NEW p \in Points
        PROVE  /\ Append(s, p) \in Seq(Points)
               /\ Len(Append(s, p)) = Len(s) + 1
               /\ Append(s, p)[Len(s) + 1] = p
               /\ \A i \in 1 .. Len(s) : Append(s, p)[i] = s[i]
    BY AppendProperties
  <1>4. ASSUME s # <<>>
        PROVE  /\ SubSeq(s, 1, Len(s) - 1) \in Seq(Points)
               /\ Len(SubSeq(s, 1, Len(s) - 1)) = Len(s) - 1
               /\ \A i \in 1 .. Len(s) - 1 :
                     SubSeq(s, 1, Len(s) - 1)[i] = s[i]
    <2>1. Len(s) - 1 \in Nat /\ \A i \in 1 .. Len(s) - 1 : s[i] \in Points
      BY <1>1, <1>2, <1>4
    <2>2. /\ SubSeq(s, 1, Len(s) - 1) \in Seq(Points)
          /\ Len(SubSeq(s, 1, Len(s) - 1)) =
                IF 1 <= Len(s) - 1 THEN (Len(s) - 1) - 1 + 1 ELSE 0
          /\ \A i \in 1 .. (Len(s) - 1) - 1 + 1 :
                SubSeq(s, 1, Len(s) - 1)[i] = s[1 + i - 1]
      BY <2>1, SubSeqProperties
    <2>3. Len(SubSeq(s, 1, Len(s) - 1)) = Len(s) - 1
      <3>1. \A n \in Nat : n - 1 \in Nat =>
               (IF 1 <= n - 1 THEN (n - 1) - 1 + 1 ELSE 0) = n - 1
        OBVIOUS
      <3>2. (IF 1 <= Len(s) - 1 THEN (Len(s) - 1) - 1 + 1 ELSE 0) = Len(s) - 1
        BY <1>1, <2>1, <3>1
      <3> QED BY <2>2, <3>2
    <2>4. ASSUME NEW i \in 1 .. Len(s) - 1
          PROVE  SubSeq(s, 1, Len(s) - 1)[i] = s[i]
      <3>1. i \in 1 .. (Len(s) - 1) - 1 + 1 /\ 1 + i - 1 = i
        BY <1>1
      <3> QED BY <2>2, <3>1
    <2> QED BY <2>2, <2>3, <2>4
  <1> QED BY <1>1, <1>2, <1>3, <1>4

(* The program starts with no handler below it.                             *)
LEMMA IntStarts == IntInit => IntInv
  <1> SUFFICES ASSUME IntInit PROVE IntInv
    OBVIOUS
  <1> USE DEF IntInit
  <1>1. pc = User(0) /\ User(0) \in Points
    BY PointsTyped
  <1>2. clock \in [1 .. 3 -> Int]
    OBVIOUS
  <1>3. 0 \in Levels
    BY IntAssumption DEF Levels
  <1>4. frames \in [Levels -> [regs : Int, k0 : Points]]
    BY <1>1
  <1>5. IntTypeOK
    BY <1>1, <1>2, <1>3, <1>4 DEF IntTypeOK
  <1>6. pc.code = "user" /\ pc.at = "step" /\ pc.unit = 0
    BY <1>1 DEF User
  <1>7. Nesting /\ FramesHold /\ RegistersHold
    BY <1>6 DEF Nesting, FramesHold, RegistersHold, Unsaved, HoldsReturn
  <1> QED BY <1>5, <1>7 DEF IntInv

(* A step of the program, and of the device that interrupts.                *)
LEMMA UserStepKeeps ==
    ASSUME IntInv, UserStep
    PROVE  IntInv'
  <1>1. /\ pc \in Points /\ pc.code = "user" /\ pc.unit \in Nat
        /\ pc' = User(pc.unit + 1) /\ regs' = pc.unit + 1
        /\ UNCHANGED <<k0, sp, enabled, frames, clock, keyboard, active, late>>
    BY DEF IntInv, IntTypeOK, UserStep, Points, memVars, logVars
  <1>2. pc' \in Points /\ regs' \in Int
    BY <1>1, PointsTyped
  <1>3. pc'.code = "user" /\ pc'.at = "step" /\ pc'.unit = pc.unit + 1
    BY <1>1 DEF User
  <1>4. IntTypeOK'
    BY <1>1, <1>2 DEF IntInv, IntTypeOK
  <1>5. ASSUME ~late' PROVE Nesting' /\ FramesHold' /\ RegistersHold'
    <2>1. Nesting /\ FramesHold
      BY <1>1, <1>5 DEF IntInv
    <2>2. pc.at = "step"
      BY <1>1 DEF Points
    <2>3. Nesting' /\ FramesHold'
      BY <1>1, <1>3, <2>1, <2>2 DEF Nesting, FramesHold, Unsaved
    <2>4. RegistersHold'
      BY <1>1, <1>3 DEF RegistersHold, HoldsReturn
    <2> QED BY <2>3, <2>4
  <1> QED BY <1>4, <1>5 DEF IntInv

(* An interrupt that does not come late finds a point that can be resumed.  *)
LEMMA InterruptKeeps ==
    ASSUME IntInv, NEW dev \in Devices, Interrupt(dev)
    PROVE  IntInv'
  <1>1. /\ enabled /\ k0' = pc /\ pc' = In(dev, "save", 1)
        /\ active' = Append(active, pc)
        /\ late' = (late \/ pc.at \in {"pop", "di"})
        /\ enabled' = FALSE
        /\ UNCHANGED <<sp, regs, frames, clock, keyboard>>
    BY DEF Interrupt, memVars
  <1>2. pc \in Points /\ active \in Seq(Points)
    BY DEF IntInv, IntTypeOK
  <1>3. pc' \in Points
    BY <1>1, PointsTyped DEF Places
  <1>4. pc'.code = dev /\ pc'.at = "save"
    BY <1>1 DEF In
  <1>5. IntTypeOK'
    BY <1>1, <1>2, <1>3, PointStacks DEF IntInv, IntTypeOK
  <1>6. ASSUME ~late' PROVE Nesting' /\ FramesHold' /\ RegistersHold'
    <2>1. /\ Nesting /\ FramesHold /\ RegistersHold
          /\ pc.at \notin {"pop", "di", "save", "reti"}
      BY <1>1, <1>6 DEF IntInv, RegistersHold
    <2>2. /\ Len(active) \in Nat /\ Len(active') = Len(active) + 1
          /\ active'[Len(active) + 1] = pc
          /\ \A i \in 1 .. Len(active) : active'[i] = active[i]
          /\ active = <<>> <=> Len(active) = 0
          /\ active' # <<>>
      BY <1>1, <1>2, PointStacks
    <2>3. sp = Len(active) /\ sp' = sp
      BY <1>1, <2>1 DEF Nesting, Unsaved
    <2>4. Nesting'
      <3>1. pc'.code # "user"
        BY <1>4 DEF Devices
      <3>2. sp' = Len(active') - 1
        BY <2>2, <2>3
      <3>3. ASSUME NEW i \in 1 .. Len(active')
            PROVE  /\ active'[i].code = "user" <=> i = 1
                   /\ active'[i].at \notin {"save", "pop", "di", "reti"}
        <4>1. CASE i = Len(active) + 1
          BY <4>1, <2>1, <2>2 DEF Nesting
        <4>2. CASE i # Len(active) + 1
          BY <4>2, <2>1, <2>2 DEF Nesting
        <4> QED BY <4>1, <4>2
      <3> QED BY <1>4, <2>2, <3>1, <3>2, <3>3 DEF Nesting, Unsaved
    <2>5. FramesHold'
      BY <1>1, <2>1, <2>2, <2>3 DEF FramesHold
    <2>6. RegistersHold'
      <3>1. k0' = active'[Len(active')]
        BY <1>1, <2>2
      <3>2. Len(active') = 1 => regs' = active'[1].unit
        BY <1>1, <2>1, <2>2 DEF RegistersHold, Nesting
      <3> QED BY <1>1, <1>4, <2>2, <3>1, <3>2
              DEF RegistersHold, HoldsReturn, Devices
    <2> QED BY <2>4, <2>5, <2>6
  <1> QED BY <1>5, <1>6 DEF IntInv

(* A handler saves its return address and the interrupted registers.        *)
LEMMA SaveKeeps ==
    ASSUME IntInv, NEW dev \in Devices, Save(dev)
    PROVE  IntInv'
  <1>1. /\ pc.code = dev /\ pc.at = "save" /\ pc' = In(dev, "load", 1)
        /\ sp + 1 \in Levels /\ sp' = sp + 1
        /\ frames' = [frames EXCEPT ![sp + 1] = [regs |-> regs, k0 |-> k0]]
        /\ UNCHANGED <<k0, regs, clock, keyboard, active, late>>
    BY DEF Save, At, Frame, SavedFrame, logVars
  <1>2. pc' \in Points
    BY <1>1, PointsTyped DEF Places
  <1>3. pc'.code = dev /\ pc'.at = "load"
    BY <1>1 DEF In
  <1>4. /\ frames \in [Levels -> [regs : Int, k0 : Points]]
        /\ [regs |-> regs, k0 |-> k0] \in [regs : Int, k0 : Points]
        /\ sp \in Int
    BY IntAssumption DEF IntInv, IntTypeOK, Levels
  <1>5. /\ frames' \in [Levels -> [regs : Int, k0 : Points]]
        /\ frames'[sp + 1] = [regs |-> regs, k0 |-> k0]
        /\ \A l \in Levels : l # sp + 1 => frames'[l] = frames[l]
    BY <1>1, <1>4
  <1>6. IntTypeOK'
    BY <1>1, <1>2, <1>5 DEF IntInv, IntTypeOK
  <1>7. ASSUME ~late' PROVE Nesting' /\ FramesHold' /\ RegistersHold'
    <2>1. Nesting /\ FramesHold /\ RegistersHold
      BY <1>1, <1>7 DEF IntInv
    <2>2. Len(active) \in Nat /\ (active = <<>> <=> Len(active) = 0)
      BY PointStacks DEF IntInv, IntTypeOK
    <2>3. /\ active # <<>> /\ sp = Len(active) - 1
          /\ k0 = active[Len(active)]
          /\ Len(active) = 1 => regs = active[1].unit
      BY <1>1, <2>1 DEF Nesting, RegistersHold, Unsaved, HoldsReturn
    <2>4. Nesting'
      BY <1>1, <1>3, <2>1, <2>2, <2>3 DEF Nesting, Unsaved, Devices
    <2>5. ASSUME NEW i \in 1 .. Len(active'), i <= sp'
          PROVE  frames'[i].k0 = active'[i]
      <3>1. CASE i = sp + 1
        BY <3>1, <1>1, <1>5, <2>2, <2>3
      <3>2. CASE i # sp + 1
        <4>1. i \in 1 .. Len(active) /\ i <= sp /\ i \in Levels
          BY <3>2, <2>5, <1>1, <1>4, <2>2, <2>3, IntAssumption DEF Levels
        <4> QED BY <4>1, <3>2, <1>1, <1>5, <2>1 DEF FramesHold
      <3> QED BY <3>1, <3>2
    <2>6. frames'[1].regs = active'[1].unit
      <3>1. CASE sp = 0
        BY <3>1, <1>1, <1>5, <2>2, <2>3
      <3>2. CASE sp # 0
        <4>1. 1 <= sp /\ 1 \in Levels /\ 1 # sp + 1
          BY <3>2, <1>1, <1>4, <2>2, <2>3, IntAssumption DEF Levels
        <4> QED BY <4>1, <1>1, <1>5, <2>1, <2>3 DEF FramesHold
      <3> QED BY <3>1, <3>2
    <2>7. FramesHold'
      BY <2>5, <2>6 DEF FramesHold
    <2>8. RegistersHold'
      BY <1>3 DEF RegistersHold, HoldsReturn, Devices
    <2> QED BY <2>4, <2>7, <2>8
  <1> QED BY <1>6, <1>7 DEF IntInv

(* Storing a key or a count touches no frame.                               *)
LEMMA CountKeeps ==
    ASSUME IntInv, LoadKeyboard \/ StoreKey \/ LoadUnit \/ StoreUnit
    PROVE  IntInv'
  <1>1. /\ pc \in Points /\ pc.code \in Devices /\ pc.at \in {"load", "store"}
        /\ UNCHANGED <<k0, sp, frames, active, late>>
        /\ pc.code = "timer" => pc.unit \in 1 .. 3
        /\ regs \in Int /\ keyboard \in Int /\ clock \in [1 .. 3 -> Int]
    <2>1. /\ pc \in Points
          /\ regs \in Int /\ keyboard \in Int /\ clock \in [1 .. 3 -> Int]
      BY DEF IntInv, IntTypeOK
    <2>2. pc.code = "timer" => pc.unit \in 1 .. 3
      BY <2>1 DEF Points
    <2>3. pc.code \in Devices /\ pc.at \in {"load", "store"}
      BY DEF LoadKeyboard, StoreKey, LoadUnit, StoreUnit, At, Devices
    <2>4. UNCHANGED <<k0, sp, frames, active, late>>
      BY DEF LoadKeyboard, StoreKey, LoadUnit, StoreUnit, memVars, logVars
    <2> QED BY <2>1, <2>2, <2>3, <2>4
  <1>2. \E dev \in Devices, at \in {"load", "store", "restore"}, u \in 1 .. 3 :
           pc' = In(dev, at, u)
    <2>1. CASE LoadKeyboard \/ StoreKey
      BY <2>1 DEF LoadKeyboard, StoreKey, Devices
    <2>2. CASE LoadUnit
      BY <2>2, <1>1 DEF LoadUnit, At, Devices
    <2>3. CASE StoreUnit
      BY <2>3, <1>1 DEF StoreUnit, Carries, At, Devices
    <2> QED BY <2>1, <2>2, <2>3
  <1>3. /\ pc' \in Points /\ pc'.code \in Devices
        /\ pc'.at \in {"load", "store", "restore"}
    <2>1. PICK dev \in Devices, at \in {"load", "store", "restore"},
               u \in 1 .. 3 : pc' = In(dev, at, u)
      BY <1>2
    <2>2. at \in Places \ {"step"}
      BY DEF Places
    <2>3. pc' \in Points
      BY <2>1, <2>2, PointsTyped
    <2> QED BY <2>1, <2>3 DEF In
  <1>4. regs' \in Int /\ keyboard' \in Int /\ clock' \in [1 .. 3 -> Int]
    <2>1. CASE LoadKeyboard
      BY <2>1, <1>1 DEF LoadKeyboard, memVars
    <2>2. CASE StoreKey
      BY <2>2, <1>1 DEF StoreKey
    <2>3. CASE LoadUnit
      BY <2>3, <1>1 DEF LoadUnit, At, memVars
    <2>4. CASE StoreUnit
      BY <2>4, <1>1 DEF StoreUnit, At
    <2> QED BY <2>1, <2>2, <2>3, <2>4
  <1>5. IntTypeOK'
    BY <1>1, <1>3, <1>4 DEF IntInv, IntTypeOK
  <1>6. ASSUME ~late' PROVE Nesting' /\ FramesHold' /\ RegistersHold'
    <2>1. Nesting /\ FramesHold
      BY <1>1, <1>6 DEF IntInv
    <2>2. Nesting'
      BY <1>1, <1>3, <2>1 DEF Nesting, Unsaved, Devices
    <2>3. FramesHold'
      BY <1>1, <2>1 DEF FramesHold
    <2>4. RegistersHold'
      BY <1>3 DEF RegistersHold, HoldsReturn, Devices
    <2> QED BY <2>2, <2>3, <2>4
  <1> QED BY <1>5, <1>6 DEF IntInv

(* The registers and the return address come back from the frame.           *)
LEMMA RestoreKeeps ==
    ASSUME IntInv, NEW dev \in Devices, Restore(dev)
    PROVE  IntInv'
  <1>1. /\ pc.code = dev /\ pc.at = "restore" /\ pc' = In(dev, "pop", 1)
        /\ regs' = frames[sp].regs /\ k0' = frames[sp].k0
        /\ UNCHANGED <<sp, frames, clock, keyboard, active, late>>
    BY DEF Restore, At, Frame, memVars, logVars
  <1>2. pc' \in Points
    BY <1>1, PointsTyped DEF Places
  <1>3. pc'.code = dev /\ pc'.at = "pop"
    BY <1>1 DEF In
  <1>4. regs' \in Int /\ k0' \in Points
    BY <1>1 DEF IntInv, IntTypeOK
  <1>5. IntTypeOK'
    BY <1>1, <1>2, <1>4 DEF IntInv, IntTypeOK
  <1>6. ASSUME ~late' PROVE Nesting' /\ FramesHold' /\ RegistersHold'
    <2>1. Nesting /\ FramesHold
      BY <1>1, <1>6 DEF IntInv
    <2>2. Len(active) \in Nat /\ (active = <<>> <=> Len(active) = 0)
      BY PointStacks DEF IntInv, IntTypeOK
    <2>3. active # <<>> /\ sp = Len(active)
      BY <1>1, <2>1 DEF Nesting, Unsaved, Devices
    <2>4. Nesting'
      BY <1>1, <1>3, <2>1, <2>3 DEF Nesting, Unsaved, Devices
    <2>5. FramesHold'
      BY <1>1, <2>1 DEF FramesHold
    <2>6. k0' = active[Len(active)]
      <3>1. Len(active) \in 1 .. Len(active) /\ Len(active) <= sp
        BY <2>2, <2>3
      <3> QED BY <3>1, <1>1, <2>1, <2>3 DEF FramesHold
    <2>7. Len(active) = 1 => regs' = active[1].unit
      BY <1>1, <2>1, <2>3 DEF FramesHold
    <2>8. RegistersHold'
      BY <1>1, <1>3, <2>3, <2>6, <2>7 DEF RegistersHold, HoldsReturn, Devices
    <2> QED BY <2>4, <2>5, <2>8
  <1> QED BY <1>5, <1>6 DEF IntInv

(* The frame is popped and interrupts are disabled.                         *)
LEMMA PopKeeps ==
    ASSUME IntInv, NEW dev \in Devices, Pop(dev) \/ Di(dev)
    PROVE  IntInv'
  <1>1. /\ pc.code = dev /\ pc.at \in {"pop", "di"}
        /\ pc' = In(dev, IF pc.at = "pop" THEN "di" ELSE "reti", 1)
        /\ sp' = IF pc.at = "pop" THEN sp - 1 ELSE sp
        /\ sp' \in Levels
        /\ pc.at = "di" => enabled' = FALSE
        /\ UNCHANGED <<k0, regs, frames, clock, keyboard, active, late>>
    <2>1. CASE Pop(dev)
      BY <2>1 DEF Pop, At, memVars, logVars
    <2>2. CASE Di(dev)
      BY <2>2 DEF Di, At, memVars, logVars, IntInv, IntTypeOK
    <2> QED BY <2>1, <2>2
  <1>2. pc' \in Points
    BY <1>1, PointsTyped DEF Places
  <1>3. pc'.code = dev /\ pc'.at = IF pc.at = "pop" THEN "di" ELSE "reti"
    BY <1>1 DEF In
  <1>4. IntTypeOK'
    BY <1>1, <1>2 DEF IntInv, IntTypeOK
  <1>5. ASSUME ~late' PROVE Nesting' /\ FramesHold' /\ RegistersHold'
    <2>1. Nesting /\ FramesHold /\ RegistersHold
      BY <1>1, <1>5 DEF IntInv
    <2>2. Len(active) \in Nat /\ sp \in Int
      BY PointStacks, IntAssumption DEF IntInv, IntTypeOK, Levels
    <2>3. sp' = Len(active) - 1 /\ sp' <= sp
      BY <1>1, <2>1, <2>2 DEF Nesting, Unsaved
    <2>4. Nesting'
      BY <1>1, <1>3, <2>1, <2>3 DEF Nesting, Unsaved, Devices
    <2>5. FramesHold'
      BY <1>1, <2>1, <2>2, <2>3 DEF FramesHold
    <2>6. RegistersHold'
      BY <1>1, <1>3, <2>1 DEF RegistersHold, HoldsReturn, Devices
    <2> QED BY <2>4, <2>5, <2>6
  <1> QED BY <1>4, <1>5 DEF IntInv

(* RETI resumes the point the handler interrupted.                          *)
LEMMA RetiResumes ==
    ASSUME IntInv, NEW dev \in Devices, Reti(dev), ~late
    PROVE  /\ active # <<>> /\ pc' = active[Len(active)]
           /\ sp = Len(active) - 1
           /\ pc'.code = "user" => Len(active) = 1 /\ regs = pc'.unit
  <1>1. pc.code = dev /\ pc.at = "reti" /\ pc' = k0
    BY DEF Reti, At
  <1>2. Nesting /\ RegistersHold
    BY DEF IntInv
  <1>3. active # <<>> /\ k0 = active[Len(active)] /\ sp = Len(active) - 1
    BY <1>1, <1>2 DEF Nesting, RegistersHold, Unsaved, HoldsReturn
  <1>4. Len(active) \in 1 .. Len(active)
    <2>1. Len(active) \in Nat /\ (active = <<>> <=> Len(active) = 0)
      BY PointStacks DEF IntInv, IntTypeOK
    <2> QED BY <2>1, <1>3
  <1>5. pc'.code = "user" => Len(active) = 1
    BY <1>1, <1>2, <1>3, <1>4 DEF Nesting
  <1>6. Len(active) = 1 => regs = active[1].unit
    BY <1>1, <1>2 DEF RegistersHold, HoldsReturn
  <1> QED BY <1>1, <1>3, <1>5, <1>6

(* The point resumed is again the top of the nest.                          *)
LEMMA RetiKeeps ==
    ASSUME IntInv, NEW dev \in Devices, Reti(dev)
    PROVE  IntInv'
  <1>1. /\ pc' = k0
        /\ active' = IF active = <<>> THEN <<>>
                     ELSE SubSeq(active, 1, Len(active) - 1)
        /\ UNCHANGED <<k0, sp, regs, frames, clock, keyboard, late>>
    BY DEF Reti, memVars
  <1>2. active \in Seq(Points) /\ k0 \in Points
    BY DEF IntInv, IntTypeOK
  <1>3. active' \in Seq(Points)
    BY <1>1, <1>2, PointStacks
  <1>4. IntTypeOK'
    BY <1>1, <1>2, <1>3 DEF IntInv, IntTypeOK
  <1>5. ASSUME ~late' PROVE Nesting' /\ FramesHold' /\ RegistersHold'
    <2>1. /\ active # <<>> /\ pc' = active[Len(active)]
          /\ sp = Len(active) - 1
          /\ pc'.code = "user" => Len(active) = 1 /\ regs = pc'.unit
      BY <1>1, <1>5, RetiResumes
    <2>2. Nesting /\ FramesHold
      BY <1>1, <1>5 DEF IntInv
    <2>3. /\ Len(active) \in Nat \ {0} /\ Len(active') = Len(active) - 1
          /\ \A i \in 1 .. Len(active') : active'[i] = active[i]
      BY <1>1, <1>2, <2>1, PointStacks
    <2>4. active' = <<>> <=> Len(active') = 0
      BY <1>3, PointStacks
    <2>5. /\ pc'.at \notin {"save", "pop", "di", "reti"}
          /\ pc'.code = "user" <=> Len(active) = 1
      <3>1. Len(active) \in 1 .. Len(active)
        BY <2>3
      <3> QED BY <3>1, <2>1, <2>2 DEF Nesting
    <2>6. Nesting'
      <3>1. sp' = Len(active') /\ ~Unsaved'
        BY <1>1, <2>1, <2>3, <2>5 DEF Unsaved
      <3>2. pc'.code = "user" <=> active' = <<>>
        BY <2>3, <2>4, <2>5
      <3>3. ASSUME NEW i \in 1 .. Len(active')
            PROVE  /\ active'[i].code = "user" <=> i = 1
                   /\ active'[i].at \notin {"save", "pop", "di", "reti"}
        BY <2>2, <2>3 DEF Nesting
      <3> QED BY <3>1, <3>2, <3>3 DEF Nesting
    <2>7. FramesHold'
      BY <1>1, <2>1, <2>2, <2>3, <2>4 DEF FramesHold
    <2>8. RegistersHold'
      BY <1>1, <2>1, <2>5 DEF RegistersHold, HoldsReturn
    <2> QED BY <2>6, <2>7, <2>8
  <1> QED BY <1>4, <1>5 DEF IntInv

-----------------------------------------------------------------------------
(* The nest of interrupted points, the frames and $k0 agree for any number  *)
(* of interrupts at any depth, until one comes late.                        *)
THEOREM IntInvHolds == IntSpec => []IntInv
  <1>1. IntInv /\ [IntNext]_intVars => IntInv'
    <2> SUFFICES ASSUME IntInv, [IntNext]_intVars PROVE IntInv'
      OBVIOUS
    <2>1. CASE UserStep
      BY <2>1, UserStepKeeps
    <2>2. CASE LoadKeyboard \/ StoreKey \/ LoadUnit \/ StoreUnit
      BY <2>2, CountKeeps
    <2>3. CASE \E dev \in Devices : Interrupt(dev) \/ Save(dev)
      BY <2>3, InterruptKeeps, SaveKeeps
    <2>4. CASE \E dev \in Devices : Restore(dev) \/ Pop(dev) \/ Di(dev)
      BY <2>4, RestoreKeeps, PopKeeps
    <2>5. CASE \E dev \in Devices : Reti(dev)
      BY <2>5, RetiKeeps
    <2>6. CASE UNCHANGED intVars
      BY <2>6 DEF IntInv, IntTypeOK, Nesting, FramesHold, RegistersHold,
                  Unsaved, HoldsReturn, intVars, regVars, memVars, logVars
    <2> QED BY <2>1, <2>2, <2>3, <2>4, <2>5, <2>6 DEF IntNext, Machine
  <1> QED BY <1>1, IntStarts, PTL DEF IntSpec

(* Every handler returns to the point it interrupted, the program with its  *)
(* registers, at any depth of nesting, unless an interrupt came late.       *)
THEOREM HandlersResume == IntSpec => ResumesUnlessLate
  <1>1. ASSUME IntInv, [IntNext]_intVars
        PROVE  [\A dev \in Devices : Reti(dev) /\ ~late =>
                   /\ pc' = active[Len(active)]
                   /\ sp = Len(active) - 1
                   /\ pc'.code = "user" => regs = pc'.unit]_intVars
    BY <1>1, RetiResumes
  <1> QED BY <1>1, IntInvHolds, PTL DEF IntSpec, ResumesUnlessLate

-----------------------------------------------------------------------------
(* The keys stored and the seconds of the clock.                            *)

(* A point that can be interrupted, so that a handler returns to it: the    *)
(* keyboard handler's none before it has stored its key.                    *)
Resumable(p) ==
    /\ p.at \notin {"save", "reti"}
    /\ p.code = "keyboard" => p.at \notin {"load", "store"}

(* The key that has come and is not stored yet.                             *)
Holding == pc.code = "keyboard" /\ pc.at \in {"save", "load", "store"}

(* No point is ever returned to, not even by a late interrupt, at which a   *)
(* key is held: keys are stored one at a time.                              *)
OneKeyAtATime ==
    /\ enabled => Resumable(pc)
    /\ Resumable(k0) /\ \A l \in Levels : Resumable(frames[l].k0)

KeysStored ==
    /\ ticks \in Nat /\ keys \in Nat /\ ticks + keys <= MaxInterrupts
    /\ buffer \in [0 .. MaxInterrupts -> Int]
    /\ keyboard \in Nat
    /\ keyboard = IF Holding THEN keys - 1 ELSE keys
    /\ At("keyboard", "store") => regs = keyboard
    /\ \A n \in 1 .. keyboard : buffer[n - 1] = n

KeysInv == IntInv /\ OneKeyAtATime /\ KeysStored

-----------------------------------------------------------------------------
(* Nothing has come at the start.                                           *)
LEMMA KeysInitially == IntInit => OneKeyAtATime /\ KeysStored
  <1> SUFFICES ASSUME IntInit PROVE OneKeyAtATime /\ KeysStored
    OBVIOUS
  <1>1. pc.code = "user" /\ pc.at = "step" /\ k0 = pc
        /\ \A l \in Levels : frames[l].k0 = pc
    BY DEF IntInit, User
  <1>2. OneKeyAtATime
    BY <1>1 DEF OneKeyAtATime, Resumable
  <1>3. KeysStored
    BY <1>1, IntAssumption DEF KeysStored, Holding, At, IntInit
  <1> QED BY <1>2, <1>3

(* Every return address is a point that was interrupted.                    *)
LEMMA OneKeyStep ==
    ASSUME IntInv, OneKeyAtATime, IntNext
    PROVE  OneKeyAtATime'
  <1> USE DEF OneKeyAtATime
  <1>1. CASE UserStep
    BY <1>1 DEF UserStep, User, Resumable, memVars
  <1>2. CASE LoadKeyboard \/ LoadUnit \/ StoreUnit
    <2>1. UNCHANGED <<k0, frames, enabled>>
      BY <1>2 DEF LoadKeyboard, LoadUnit, StoreUnit, memVars
    <2>2. enabled => Resumable(pc')
      BY <1>2, <2>1
         DEF LoadKeyboard, LoadUnit, StoreUnit, At, In, Resumable
    <2> QED BY <2>1, <2>2
  <1>3. CASE StoreKey
    <2>1. UNCHANGED <<k0, frames>> /\ pc' = In("keyboard", "restore", 1)
      BY <1>3 DEF StoreKey
    <2> QED BY <2>1 DEF In, Resumable
  <1>4. CASE \E dev \in Devices : Interrupt(dev)
    <2>1. enabled /\ k0' = pc /\ enabled' = FALSE /\ UNCHANGED frames
      BY <1>4 DEF Interrupt, memVars
    <2> QED BY <2>1
  <1>5. ASSUME NEW dev \in Devices, Save(dev) PROVE OneKeyAtATime'
    <2>1. /\ UNCHANGED k0 /\ pc' = In(dev, "load", 1)
          /\ enabled' = (dev = "timer")
          /\ frames' = [frames EXCEPT ![sp + 1] = [regs |-> regs, k0 |-> k0]]
      BY <1>5 DEF Save, Frame, SavedFrame, EnablesFirst
    <2>2. frames \in [Levels -> [regs : Int, k0 : Points]]
      BY DEF IntInv, IntTypeOK
    <2>3. \A l \in Levels :
             frames'[l].k0 = k0 \/ frames'[l].k0 = frames[l].k0
      BY <2>1, <2>2
    <2> QED BY <2>1, <2>3 DEF In, Resumable
  <1>6. ASSUME NEW dev \in Devices, Restore(dev) PROVE OneKeyAtATime'
    <2>1. /\ k0' = frames[sp].k0 /\ pc' = In(dev, "pop", 1)
          /\ UNCHANGED frames
      BY <1>6 DEF Restore, Frame, memVars
    <2>2. sp \in Levels
      BY DEF IntInv, IntTypeOK
    <2> QED BY <2>1, <2>2 DEF In, Resumable
  <1>7. ASSUME NEW dev \in Devices, Pop(dev) \/ Di(dev) PROVE OneKeyAtATime'
    <2>1. /\ UNCHANGED <<k0, frames>>
          /\ pc' = In(dev, "di", 1) \/ enabled' = FALSE
      BY <1>7 DEF Pop, Di, memVars
    <2> QED BY <2>1 DEF In, Resumable
  <1>8. CASE \E dev \in Devices : Reti(dev)
    BY <1>8 DEF Reti, memVars
  <1> QED BY <1>1, <1>2, <1>3, <1>4, <1>5, <1>6, <1>7, <1>8
          DEF IntNext, Machine

(* The key that has come is stored at the offset keyboard.                  *)
LEMMA KeysStep ==
    ASSUME IntInv, OneKeyAtATime, KeysStored, IntNext
    PROVE  KeysStored'
  <1> USE DEF KeysStored
  <1>1. CASE UserStep
    <2>1. /\ pc.code = "user" /\ pc'.code = "user"
          /\ UNCHANGED <<keyboard, keys, ticks, buffer>>
      BY <1>1 DEF UserStep, User, memVars, logVars
    <2> QED BY <2>1 DEF Holding, At
  <1>2. CASE LoadKeyboard
    <2>1. /\ pc.code = "keyboard" /\ pc.at = "load" /\ regs' = keyboard
          /\ pc'.code = "keyboard" /\ pc'.at = "store"
          /\ UNCHANGED <<keyboard, keys, ticks, buffer>>
      BY <1>2 DEF LoadKeyboard, At, In, memVars, logVars
    <2> QED BY <2>1 DEF Holding
  <1>3. CASE StoreKey
    <2>1. /\ pc.code = "keyboard" /\ pc.at = "store"
          /\ pc'.code = "keyboard" /\ pc'.at = "restore"
          /\ buffer' = [buffer EXCEPT ![regs] = keys]
          /\ keyboard' = regs + 1
          /\ UNCHANGED <<keys, ticks>>
      BY <1>3 DEF StoreKey, At, In, logVars
    <2>2. regs = keyboard /\ keyboard = keys - 1
      BY <2>1 DEF At, Holding
    <2>3. keyboard \in 0 .. MaxInterrupts /\ keyboard' = keys
      BY <2>1, <2>2, IntAssumption
    <2>4. buffer' \in [0 .. MaxInterrupts -> Int]
      BY <2>1, <2>2, <2>3
    <2>5. ASSUME NEW n \in 1 .. keyboard' PROVE buffer'[n - 1] = n
      <3>1. n - 1 \in 0 .. MaxInterrupts
        BY <2>2, <2>3, IntAssumption
      <3>2. CASE n = keys
        BY <2>1, <2>2, <2>3, <3>2
      <3>3. CASE n # keys
        BY <2>1, <2>2, <2>3, <3>1, <3>3
      <3> QED BY <3>2, <3>3
    <2> QED BY <2>1, <2>3, <2>4, <2>5 DEF Holding, At
  <1>4. CASE LoadUnit \/ StoreUnit
    <2>1. /\ pc.code = "timer" /\ pc'.code = "timer"
          /\ UNCHANGED <<keyboard, keys, ticks, buffer>>
      BY <1>4 DEF LoadUnit, StoreUnit, At, In, memVars, logVars
    <2> QED BY <2>1 DEF Holding, At
  <1>5. ASSUME NEW dev \in Devices, Interrupt(dev) PROVE KeysStored'
    <2>1. /\ enabled /\ ticks + keys < MaxInterrupts
          /\ ticks' = IF dev = "timer" THEN ticks + 1 ELSE ticks
          /\ keys' = IF dev = "keyboard" THEN keys + 1 ELSE keys
          /\ pc'.code = dev /\ pc'.at = "save"
          /\ UNCHANGED <<keyboard, buffer>>
      BY <1>5 DEF Interrupt, In, memVars
    <2>2. ~Holding
      BY <2>1 DEF OneKeyAtATime, Resumable, Holding
    <2>3. keyboard' = IF Holding' THEN keys' - 1 ELSE keys'
      BY <2>1, <2>2 DEF Holding, Devices
    <2>4. ticks' \in Nat /\ keys' \in Nat /\ ticks' + keys' <= MaxInterrupts
      BY <2>1, IntAssumption DEF Devices
    <2> QED BY <2>1, <2>3, <2>4 DEF At
  <1>6. ASSUME NEW dev \in Devices, Save(dev) PROVE KeysStored'
    <2>1. /\ pc.code = dev /\ pc.at = "save"
          /\ pc'.code = dev /\ pc'.at = "load"
          /\ UNCHANGED <<keyboard, keys, ticks, buffer>>
      BY <1>6 DEF Save, At, In, logVars
    <2> QED BY <2>1 DEF Holding, At
  <1>7. ASSUME NEW dev \in Devices, Restore(dev) \/ Pop(dev) \/ Di(dev)
        PROVE  KeysStored'
    <2>1. /\ pc.at \in {"restore", "pop", "di"}
          /\ pc'.at \in {"pop", "di", "reti"}
          /\ UNCHANGED <<keyboard, keys, ticks, buffer>>
      BY <1>7 DEF Restore, Pop, Di, At, In, memVars, logVars
    <2> QED BY <2>1 DEF Holding, At
  <1>8. ASSUME NEW dev \in Devices, Reti(dev) PROVE KeysStored'
    <2>1. /\ pc.at = "reti" /\ pc' = k0
          /\ UNCHANGED <<keyboard, keys, ticks, buffer>>
      BY <1>8 DEF Reti, At, memVars
    <2> QED BY <2>1 DEF OneKeyAtATime, Resumable, Holding, At
  <1> QED BY <1>1, <1>2, <1>3, <1>4, <1>5, <1>6, <1>7, <1>8
          DEF IntNext, Machine

(* The keys' invariant holds in every reachable state.                      *)
THEOREM KeysInvHolds == IntSpec => []KeysInv
  <1>1. IntInit => OneKeyAtATime /\ KeysStored
    BY KeysInitially
  <1>2. IntInv /\ OneKeyAtATime /\ KeysStored /\ [IntNext]_intVars
        => OneKeyAtATime' /\ KeysStored'
    <2> SUFFICES ASSUME IntInv, OneKeyAtATime, KeysStored, [IntNext]_intVars
                 PROVE  OneKeyAtATime' /\ KeysStored'
      OBVIOUS
    <2>1. CASE IntNext
      BY <2>1, OneKeyStep, KeysStep
    <2>2. CASE UNCHANGED intVars
      BY <2>2 DEF OneKeyAtATime, KeysStored, Holding, At,
                  intVars, regVars, memVars, logVars
    <2> QED BY <2>1, <2>2
  <1>3. IntSpec => [](OneKeyAtATime /\ KeysStored)
    BY <1>1, <1>2, IntInvHolds, PTL DEF IntSpec
  <1> QED BY <1>3, IntInvHolds, PTL DEF KeysInv

(* ti_keyhandler stores every key, once and in the order of arrival, at any *)
(* depth of nesting and even if an interrupt comes late.                    *)
THEOREM KeysAreInOrder == IntSpec => []KeysInOrder
  <1>1. KeysInv => KeysInOrder
    BY DEF KeysInv, KeysStored, Holding, KeysInOrder
  <1> QED BY <1>1, KeysInvHolds, PTL
-----------------------------------------------------------------------------
(* Points at which a handler's frame is the one at the stack pointer.       *)
Working == {"load", "store", "restore"}

(* A point of a handler that can be resumed with the stack at level l, if   *)
(* the frames above level b are those of the handlers that came since.      *)
ResumesAt(p, l, b) ==
    /\ p.code # "user" /\ p.at \notin {"save", "reti"}
    /\ p.at \in Working => b < l

(* Every return address in use is a handler's: of the handlers that came    *)
(* after the late one, or of the one it interrupted, which then returns to  *)
(* itself for ever.                                                         *)
NeverReturns(b) ==
    /\ pc.code # "user"
    /\ pc.at \in Working => b < sp
    /\ pc.at = "save" => b <= sp
    /\ pc.at \in {"save", "di", "reti"} => ResumesAt(k0, sp, b)
    /\ pc.at = "pop" => ResumesAt(k0, sp - 1, b)
    /\ \A l \in Levels : b < l /\ l <= sp => ResumesAt(frames[l].k0, l - 1, b)

LateInv == late => \E b \in Int : NeverReturns(b)

(* The step of a handler, or of an interrupt, after a late one.             *)
LEMMA StaysLate ==
    ASSUME KeysInv, NEW b \in Int, NeverReturns(b), IntNext,
           \A dev \in Devices : ~(Interrupt(dev) /\ pc.at \in {"pop", "di"})
    PROVE  NeverReturns(b)'
  <1> USE DEF NeverReturns
  <1>1. /\ sp \in Int /\ sp \in Levels /\ pc \in Points /\ k0 \in Points
        /\ frames \in [Levels -> [regs : Int, k0 : Points]]
    BY IntAssumption DEF KeysInv, IntInv, IntTypeOK, Levels
  <1>2. /\ \A l \in Levels : l \in Int
        /\ \A dev \in Devices : dev # "user"
    BY IntAssumption DEF Levels, Devices
  <1>3. CASE UserStep
    BY <1>3 DEF UserStep
  <1>4. CASE LoadKeyboard \/ StoreKey \/ LoadUnit \/ StoreUnit
    <2>1. /\ pc.at \in Working /\ pc'.at \in Working /\ pc'.code # "user"
          /\ UNCHANGED <<k0, sp, frames>>
      BY <1>4 DEF LoadKeyboard, StoreKey, LoadUnit, StoreUnit, At, In, Working,
                  memVars
    <2> QED BY <2>1 DEF Working
  <1>5. ASSUME NEW dev \in Devices, Interrupt(dev) PROVE NeverReturns(b)'
    <2>1. /\ pc'.at = "save" /\ pc'.code = dev /\ k0' = pc
          /\ enabled /\ pc.at \notin {"pop", "di"}
          /\ UNCHANGED <<sp, frames>>
      BY <1>5 DEF Interrupt, In, memVars
    <2>2. pc.at \in Working
      BY <1>1, <2>1 DEF KeysInv, OneKeyAtATime, Resumable,
                       Points, Places, Working
    <2> QED BY <1>1, <1>2, <2>1, <2>2 DEF ResumesAt, Working
  <1>6. ASSUME NEW dev \in Devices, Save(dev) PROVE NeverReturns(b)'
    <2>1. /\ pc.at = "save" /\ pc'.at = "load" /\ pc'.code = dev
          /\ sp' = sp + 1 /\ sp' \in Levels
          /\ frames' = [frames EXCEPT ![sp + 1] = [regs |-> regs, k0 |-> k0]]
      BY <1>6 DEF Save, At, In, Frame, SavedFrame
    <2>2. /\ frames'[sp + 1].k0 = k0
          /\ \A l \in Levels : l # sp + 1 => frames'[l] = frames[l]
      BY <1>1, <2>1
    <2>3. ASSUME NEW l \in Levels, b < l, l <= sp'
          PROVE  ResumesAt(frames'[l].k0, l - 1, b)
      <3>1. CASE l = sp + 1
        BY <3>1, <1>1, <2>1, <2>2
      <3>2. CASE l # sp + 1
        BY <3>2, <1>1, <1>2, <2>1, <2>2, <2>3
      <3> QED BY <3>1, <3>2
    <2>4. ResumesAt(k0, sp, b) /\ b < sp'
      BY <1>1, <2>1
    <2> QED BY <1>2, <2>1, <2>3, <2>4 DEF Working, ResumesAt
  <1>7. ASSUME NEW dev \in Devices, Restore(dev) PROVE NeverReturns(b)'
    <2>1. /\ pc.at = "restore" /\ pc'.at = "pop" /\ pc'.code = dev
          /\ k0' = frames[sp].k0
          /\ UNCHANGED <<sp, frames>>
      BY <1>7 DEF Restore, At, In, Frame, memVars
    <2> QED BY <1>1, <1>2, <2>1 DEF Working
  <1>8. ASSUME NEW dev \in Devices, Pop(dev) PROVE NeverReturns(b)'
    <2>1. /\ pc.at = "pop" /\ pc'.at = "di" /\ pc'.code = dev /\ sp' = sp - 1
          /\ UNCHANGED <<k0, frames>>
      BY <1>8 DEF Pop, At, In, memVars
    <2> QED BY <1>1, <1>2, <2>1 DEF Working
  <1>9. ASSUME NEW dev \in Devices, Di(dev) PROVE NeverReturns(b)'
    <2>1. /\ pc.at = "di" /\ pc'.at = "reti" /\ pc'.code = dev
          /\ UNCHANGED <<k0, sp, frames>>
      BY <1>9 DEF Di, At, In, memVars
    <2> QED BY <1>2, <2>1 DEF Working
  <1>10. ASSUME NEW dev \in Devices, Reti(dev) PROVE NeverReturns(b)'
    <2>1. pc.at = "reti" /\ pc' = k0 /\ UNCHANGED <<k0, sp, frames>>
      BY <1>10 DEF Reti, At, memVars
    <2> QED BY <2>1 DEF ResumesAt, Working
  <1> QED BY <1>3, <1>4, <1>5, <1>6, <1>7, <1>8, <1>9, <1>10
          DEF IntNext, Machine

(* An interrupt that comes late: the stack it finds is the new bottom.      *)
LEMMA BecomesLate ==
    ASSUME IntInv, NEW dev \in Devices, Interrupt(dev),
           pc.at \in {"pop", "di"}, NEW b \in Int, b = sp
    PROVE  NeverReturns(b)'
  <1>1. /\ pc \in Points
        /\ \A l \in Levels : l \in Int
    BY IntAssumption DEF IntInv, IntTypeOK, Levels
  <1>2. pc.code # "user" /\ dev # "user"
    BY <1>1 DEF Points, Devices
  <1>3. /\ pc'.at = "save" /\ pc'.code = dev /\ k0' = pc /\ sp' = sp
    BY DEF Interrupt, In
  <1> QED BY <1>1, <1>2, <1>3 DEF NeverReturns, ResumesAt, Working

(* After a late interrupt no handler returns to the program.                *)
THEOREM LateInvHolds == IntSpec => []LateInv
  <1>1. IntInit => LateInv
    BY DEF IntInit, LateInv
  <1>2. KeysInv /\ LateInv /\ [IntNext]_intVars => LateInv'
    <2> SUFFICES ASSUME KeysInv, LateInv, [IntNext]_intVars, late'
                 PROVE  \E b \in Int : NeverReturns(b)'
      BY DEF LateInv
    <2>1. PICK b \in Int : b = sp
      BY IntAssumption DEF KeysInv, IntInv, IntTypeOK, Levels
    <2>2. CASE \E dev \in Devices : Interrupt(dev) /\ pc.at \in {"pop", "di"}
      BY <2>1, <2>2, BecomesLate DEF KeysInv
    <2>3. CASE /\ IntNext
               /\ \A dev \in Devices :
                     ~(Interrupt(dev) /\ pc.at \in {"pop", "di"})
      <3>1. late
        BY <2>3 DEF IntNext, Machine, UserStep, LoadKeyboard, StoreKey,
                    LoadUnit, StoreUnit, Save, Restore, Pop, Di, Reti,
                    Interrupt, logVars
      <3> QED BY <2>3, <3>1, StaysLate DEF LateInv
    <2>4. CASE UNCHANGED intVars
      BY <2>4 DEF LateInv, NeverReturns, intVars, regVars, memVars, logVars
    <2> QED BY <2>2, <2>3, <2>4
  <1> QED BY <1>1, <1>2, KeysInvHolds, PTL DEF IntSpec

(* One interrupt between the load of $k0 and di is enough: the program,     *)
(* which waits for the handlers to return, never runs again.                *)
THEOREM LateIsForEver == IntSpec => [](late => pc.code # "user")
  <1>1. LateInv => (late => pc.code # "user")
    BY DEF LateInv, NeverReturns
  <1> QED BY <1>1, LateInvHolds, PTL

-----------------------------------------------------------------------------
(* The seconds that the handler at a point has still to count.              *)
Weight(p) ==
    IF p.code # "timer" THEN 0
    ELSE IF p.at = "save" THEN 1
    ELSE IF p.at \notin {"load", "store"} THEN 0
    ELSE IF p.unit = 1 THEN 1
    ELSE IF p.unit = 2 THEN LIMIT
    ELSE LIMIT * LIMIT

(* A timer handler that has read a count and not stored it.                 *)
HasRead(p) == p.code = "timer" /\ p.at = "store"

(* A count that has been read is still the one in memory, wherever the      *)
(* register is: only keyboard handlers have come since.                     *)
CountsHeld ==
    /\ HasRead(pc) => regs = clock[pc.unit] + 1
    /\ \A i \in 1 .. Len(active) : HasRead(active[i]) =>
          /\ pc.code = "keyboard"
          /\ \A j \in i + 1 .. Len(active) : active[j].code = "keyboard"
          /\ i <= sp => frames[i].regs = clock[active[i].unit] + 1
          /\ HoldsReturn /\ i = Len(active) =>
                regs = clock[active[i].unit] + 1

(* The clock and what the active handlers owe it, summed from the lowest    *)
(* one up, are the ticks that have come.                                    *)
Owed ==
    \E due \in [0 .. Len(active) -> Int] :
        /\ due[0] = 0
        /\ \A i \in 1 .. Len(active) : due[i] = due[i - 1] + Weight(active[i])
        /\ Seconds + due[Len(active)] + Weight(pc) = ticks

CountInv == ~late /\ ~raced => CountsHeld /\ Owed

-----------------------------------------------------------------------------
(* Weights are integers, and so is the clock.                               *)
LEMMA Weights ==
    /\ \A p : Weight(p) \in Int
    /\ IntTypeOK => Seconds \in Int
  BY IntAssumption DEF Weight, IntTypeOK, Seconds

(* No handler that has read a count is below the timer's or the program.    *)
LEMMA NoneHasRead ==
    ASSUME CountsHeld, pc.code # "keyboard", NEW i \in 1 .. Len(active)
    PROVE  ~HasRead(active[i])
  BY DEF CountsHeld

(* A step that neither counts nor nests owes what it owed.                  *)
LEMMA OwesTheSame ==
    ASSUME Owed, UNCHANGED <<active, clock, ticks>>, NEW w,
           w = Weight(pc), Weight(pc)' = w
    PROVE  Owed'
  <1>1. Seconds' = Seconds
    BY DEF Seconds
  <1> QED BY <1>1 DEF Owed

(* A step of the program, with no handler active.                           *)
LEMMA UserCounts ==
    ASSUME KeysInv, ~late, CountsHeld, Owed, UserStep
    PROVE  CountsHeld' /\ Owed'
  <1>1. /\ pc.code = "user" /\ pc'.code = "user" /\ active = <<>>
        /\ UNCHANGED <<active, clock, ticks>>
    BY DEF UserStep, User, KeysInv, IntInv, Nesting, memVars, logVars
  <1>2. CountsHeld'
    BY <1>1 DEF CountsHeld, HasRead
  <1>3. Weight(pc) = 0 /\ Weight(pc)' = 0
    BY <1>1 DEF Weight
  <1> QED BY <1>1, <1>2, <1>3, OwesTheSame

(* The keyboard handler changes registers that are saved.                   *)
LEMMA KeyboardCounts ==
    ASSUME CountsHeld, Owed, LoadKeyboard \/ StoreKey
    PROVE  CountsHeld' /\ Owed'
  <1>1. /\ pc.code = "keyboard" /\ pc'.code = "keyboard"
        /\ pc'.at \in {"store", "restore"}
        /\ UNCHANGED <<active, clock, ticks, frames, sp>>
    BY DEF LoadKeyboard, StoreKey, At, In, memVars, logVars
  <1>2. CountsHeld'
    BY <1>1 DEF CountsHeld, HasRead, HoldsReturn
  <1>3. Weight(pc) = 0 /\ Weight(pc)' = 0
    BY <1>1 DEF Weight
  <1> QED BY <1>1, <1>2, <1>3, OwesTheSame

(* The timer handler reads a count that no other has read.                  *)
LEMMA LoadUnitCounts ==
    ASSUME CountsHeld, Owed, LoadUnit
    PROVE  CountsHeld' /\ Owed'
  <1>1. /\ pc.code = "timer" /\ pc.at = "load"
        /\ pc'.code = "timer" /\ pc'.at = "store" /\ pc'.unit = pc.unit
        /\ regs' = clock[pc.unit] + 1
        /\ UNCHANGED <<active, clock, ticks, frames, sp>>
    BY DEF LoadUnit, At, In, memVars, logVars
  <1>2. CountsHeld'
    BY <1>1, NoneHasRead DEF CountsHeld
  <1>3. Weight(pc)' = Weight(pc)
    BY <1>1 DEF Weight
  <1> QED BY <1>1, <1>2, <1>3, OwesTheSame

(* Storing the count adds what the handler owed, or what it owes when it    *)
(* carries is the next unit.                                                *)
LEMMA StoreUnitAdds ==
    ASSUME IntTypeOK, CountsHeld, StoreUnit
    PROVE  Seconds' + Weight(pc)' = Seconds + Weight(pc)
  <1> DEFINE u == pc.unit
             h == LIMIT * clock[3]
  <1>1. /\ pc.code = "timer" /\ pc.at = "store"
        /\ regs = clock[u] + 1
        /\ clock' = [clock EXCEPT ![u] = IF Carries THEN 0 ELSE regs]
        /\ pc' = IF Carries THEN In("timer", "load", u + 1)
                 ELSE In("timer", "restore", 1)
        /\ Carries <=> u < 3 /\ regs = LIMIT
    BY DEF StoreUnit, At, CountsHeld, HasRead, Carries
  <1>2. /\ clock[1] \in Int /\ clock[2] \in Int /\ clock[3] \in Int
        /\ LIMIT \in Int /\ u \in 1 .. 3 /\ clock \in [1 .. 3 -> Int]
    BY <1>1, IntAssumption DEF IntTypeOK, Points
  <1>3. /\ \A a, b \in Int : LIMIT * (a + b) = LIMIT * a + LIMIT * b
        /\ \A a, b \in Int : a + b \in Int /\ LIMIT * a \in Int
        /\ LIMIT * 1 = LIMIT /\ LIMIT * 0 = 0
    BY <1>2
  <1>4. h \in Int
    BY <1>2, <1>3
  <1>5. /\ Weight(pc) = IF u = 1 THEN 1 ELSE IF u = 2 THEN LIMIT
                        ELSE LIMIT * LIMIT
        /\ Weight(pc)' = IF ~Carries THEN 0 ELSE IF u = 1 THEN LIMIT
                         ELSE LIMIT * LIMIT
    BY <1>1, <1>2 DEF Weight, In
  <1> HIDE DEF u, h
  <1>6. CASE u = 1
    <2>1. /\ clock'[1] = IF Carries THEN 0 ELSE clock[1] + 1
          /\ clock'[2] = clock[2] /\ clock'[3] = clock[3]
      BY <1>1, <1>2, <1>6
    <2>2. Carries => clock[1] + 1 = LIMIT
      BY <1>1, <1>6
    <2> DEFINE m == LIMIT * (clock[2] + LIMIT * clock[3])
    <2>3. m \in Int
      BY <1>2, <1>3
    <2>4. Seconds = clock[1] + m /\ Seconds' = clock'[1] + m
      BY <2>1 DEF Seconds
    <2> HIDE DEF m
    <2> QED BY <1>2, <1>5, <1>6, <2>1, <2>2, <2>3, <2>4
  <1>7. CASE u = 2
    <2>1. /\ clock'[2] = IF Carries THEN 0 ELSE clock[2] + 1
          /\ clock'[1] = clock[1] /\ clock'[3] = clock[3]
      BY <1>1, <1>2, <1>7
    <2>2. Carries => clock[2] + 1 = LIMIT
      BY <1>1, <1>7
    <2>3. Seconds = clock[1] + (LIMIT * clock[2] + LIMIT * h)
      BY <1>2, <1>3, <1>4 DEF Seconds, h
    <2>4. Seconds' = clock[1] + (LIMIT * clock'[2] + LIMIT * h)
      <3>1. clock'[2] \in Int
        BY <1>2, <2>1
      <3> QED BY <1>2, <1>3, <1>4, <2>1, <3>1 DEF Seconds, h
    <2>5. LIMIT * (clock[2] + 1) = LIMIT * clock[2] + LIMIT
      BY <1>2, <1>3
    <2>6. /\ LIMIT * h \in Int /\ LIMIT * LIMIT \in Int
          /\ LIMIT * clock[2] \in Int
      BY <1>2, <1>3, <1>4
    <2>7. CASE Carries
      <3>1. LIMIT * clock[2] + LIMIT = LIMIT * LIMIT
        BY <2>2, <2>5, <2>7
      <3>2. LIMIT * clock'[2] = 0
        BY <1>3, <2>1, <2>7
      <3>3. Weight(pc) = LIMIT /\ Weight(pc)' = LIMIT * LIMIT
        BY <1>5, <1>7, <2>7
      <3> QED BY <1>2, <2>3, <2>4, <2>6, <3>1, <3>2, <3>3
    <2>8. CASE ~Carries
      <3>1. LIMIT * clock'[2] = LIMIT * clock[2] + LIMIT
        BY <2>1, <2>5, <2>8
      <3>2. Weight(pc) = LIMIT /\ Weight(pc)' = 0
        BY <1>5, <1>7, <2>8
      <3> QED BY <1>2, <2>3, <2>4, <2>6, <3>1, <3>2
    <2> QED BY <2>7, <2>8
  <1>8. CASE u = 3
    <2>1. /\ clock'[3] = clock[3] + 1 /\ ~Carries
          /\ clock'[1] = clock[1] /\ clock'[2] = clock[2]
      BY <1>1, <1>2, <1>8
    <2>2. LIMIT * clock'[3] = h + LIMIT
      BY <1>2, <1>3, <2>1 DEF h
    <2> DEFINE m == LIMIT * (clock[2] + h)
    <2>3. Seconds = clock[1] + m
      BY DEF Seconds, h
    <2>4. LIMIT * (clock[2] + (h + LIMIT)) = m + LIMIT * LIMIT
      <3>1. clock[2] + (h + LIMIT) = (clock[2] + h) + LIMIT
        BY <1>2, <1>4
      <3>2. clock[2] + h \in Int
        BY <1>2, <1>4
      <3> QED BY <1>2, <1>3, <3>1, <3>2
    <2>5. Seconds' = clock[1] + (m + LIMIT * LIMIT)
      BY <2>1, <2>2, <2>4 DEF Seconds
    <2>6. m \in Int /\ LIMIT * LIMIT \in Int
      BY <1>2, <1>3, <1>4
    <2>7. Weight(pc) = LIMIT * LIMIT /\ Weight(pc)' = 0
      BY <1>5, <1>8, <2>1
    <2> HIDE DEF m
    <2> QED BY <1>2, <2>3, <2>5, <2>6, <2>7
  <1> QED BY <1>2, <1>6, <1>7, <1>8

(* So the clock and what is owed are still the ticks.                       *)
LEMMA StoreUnitCounts ==
    ASSUME KeysInv, CountsHeld, Owed, StoreUnit
    PROVE  CountsHeld' /\ Owed'
  <1>1. /\ pc.code = "timer" /\ pc'.code = "timer"
        /\ pc'.at \in {"load", "restore"}
        /\ UNCHANGED <<active, ticks, frames, sp, regs>>
    BY DEF StoreUnit, At, In, logVars
  <1>2. CountsHeld'
    BY <1>1, NoneHasRead DEF CountsHeld, HasRead
  <1>3. IntTypeOK /\ IntTypeOK'
    BY CountKeeps DEF KeysInv, IntInv
  <1>4. Seconds' + Weight(pc)' = Seconds + Weight(pc)
    BY <1>3, StoreUnitAdds
  <1>5. /\ Seconds \in Int /\ Seconds' \in Int
        /\ Weight(pc) \in Int /\ Weight(pc)' \in Int
    <2>1. Seconds' \in Int
      BY <1>3, IntAssumption DEF Seconds, IntTypeOK
    <2>2. Weight(pc)' \in Int
      BY IntAssumption DEF Weight
    <2> QED BY <1>3, <2>1, <2>2, Weights
  <1>6. PICK due \in [0 .. Len(active) -> Int] :
        /\ due[0] = 0
        /\ \A i \in 1 .. Len(active) : due[i] = due[i - 1] + Weight(active[i])
        /\ Seconds + due[Len(active)] + Weight(pc) = ticks
    BY DEF Owed
  <1>7. Len(active) \in Nat
    BY <1>3 DEF IntTypeOK
  <1>8. Seconds' + due[Len(active)] + Weight(pc)' = ticks
    <2>1. due[Len(active)] \in Int
      BY <1>6, <1>7
    <2>2. PICK s \in Int, t \in Int, v \in Int, w \in Int :
             s = Seconds /\ t = Seconds' /\ v = Weight(pc) /\ w = Weight(pc)'
      BY <1>5
    <2>3. t + w = s + v /\ s + due[Len(active)] + v = ticks
      BY <1>4, <1>6, <2>2
    <2>4. t + due[Len(active)] + w = ticks
      BY <2>1, <2>3
    <2> QED BY <2>2, <2>4
  <1> QED BY <1>1, <1>2, <1>6, <1>8 DEF Owed

(* A tick finds no handler that has read a count, and is owed; a key is not. *)
LEMMA InterruptCounts ==
    ASSUME KeysInv, ~late, ~raced', CountsHeld, Owed,
           NEW dev \in Devices, Interrupt(dev), pc.at \notin {"pop", "di"}
    PROVE  CountsHeld' /\ Owed'
  <1> DEFINE n == Len(active)
  <1>1. /\ enabled /\ active' = Append(active, pc)
        /\ pc'.code = dev /\ pc'.at = "save"
        /\ ticks' = IF dev = "timer" THEN ticks + 1 ELSE ticks
        /\ dev = "timer" => ~Counting(Append(active, pc))
        /\ UNCHANGED <<sp, regs, frames, clock>>
    BY DEF Interrupt, In, memVars
  <1>2. /\ n \in Nat /\ Len(active') = n + 1
        /\ active'[n + 1] = pc
        /\ \A i \in 1 .. n : active'[i] = active[i]
        /\ DOMAIN active' = 1 .. n + 1
    <2>1. active \in Seq(Points) /\ pc \in Points
      BY DEF KeysInv, IntInv, IntTypeOK
    <2>2. active' \in Seq(Points)
      BY <1>1, <2>1, PointStacks
    <2> QED BY <1>1, <2>1, <2>2, PointStacks, LenProperties
  <1>3. sp = n
    <2>1. pc.at \notin {"save", "pop", "di", "reti"}
      BY <1>1 DEF KeysInv, OneKeyAtATime, Resumable
    <2> QED BY <2>1 DEF KeysInv, IntInv, Nesting, Unsaved
  <1> HIDE DEF n
  <1>4. ASSUME dev = "timer", NEW i \in 1 .. n + 1 PROVE ~HasRead(active'[i])
    BY <1>1, <1>2, <1>4 DEF Counting, HasRead
  <1>5. ASSUME NEW i \in 1 .. n + 1, HasRead(active'[i])
        PROVE  /\ pc'.code = "keyboard"
               /\ \A j \in i + 1 .. n + 1 : active'[j].code = "keyboard"
               /\ i <= sp => frames[i].regs = clock[active'[i].unit] + 1
               /\ i = n + 1 => regs = clock[active'[i].unit] + 1
    <2>1. pc'.code = "keyboard"
      BY <1>1, <1>4, <1>5 DEF Devices
    <2>2. CASE i = n + 1
      BY <1>2, <1>3, <1>5, <2>1, <2>2 DEF CountsHeld
    <2>3. CASE i # n + 1
      <3>1. i \in 1 .. n /\ HasRead(active[i])
        BY <1>2, <1>5, <2>3
      <3>2. /\ pc.code = "keyboard"
            /\ \A j \in i + 1 .. n : active[j].code = "keyboard"
            /\ i <= sp => frames[i].regs = clock[active[i].unit] + 1
        BY <3>1 DEF CountsHeld, n
      <3>3. \A j \in i + 1 .. n + 1 : j = n + 1 \/ j \in i + 1 .. n
        BY <1>2
      <3>4. \A j \in i + 1 .. n : j \in 1 .. n
        BY <1>2
      <3> QED BY <1>2, <2>1, <2>3, <3>1, <3>2, <3>3, <3>4
    <2> QED BY <2>2, <2>3
  <1>6. CountsHeld'
    BY <1>1, <1>2, <1>5 DEF CountsHeld, HasRead
  <1>7. PICK due \in [0 .. n -> Int] :
        /\ due[0] = 0
        /\ \A i \in 1 .. n : due[i] = due[i - 1] + Weight(active[i])
        /\ Seconds + due[n] + Weight(pc) = ticks
    BY DEF Owed, n
  <1> DEFINE due2 == [i \in 0 .. n + 1 |->
                         IF i = n + 1 THEN due[n] + Weight(pc) ELSE due[i]]
  <1>8. due2 \in [0 .. n + 1 -> Int] /\ due2[0] = 0
    BY <1>2, <1>7, Weights
  <1>9. ASSUME NEW i \in 1 .. n + 1
        PROVE  due2[i] = due2[i - 1] + Weight(active'[i])
    <2>1. CASE i = n + 1
      <3>1. due2[i] = due[n] + Weight(pc) /\ due2[i - 1] = due[n]
        BY <1>2, <2>1
      <3> QED BY <1>2, <2>1, <3>1
    <2>2. CASE i # n + 1
      <3>1. i \in 1 .. n /\ due2[i] = due[i] /\ due2[i - 1] = due[i - 1]
        BY <1>2, <2>2
      <3> QED BY <1>2, <1>7, <3>1
    <2> QED BY <2>1, <2>2
  <1>10. Seconds' + due2[n + 1] + Weight(pc)' = ticks'
    <2>1. Seconds' = Seconds /\ Seconds \in Int
      BY <1>1, Weights DEF Seconds, KeysInv, IntInv
    <2>2. due2[n + 1] = due[n] + Weight(pc)
      BY <1>2
    <2>3. Weight(pc) \in Int /\ due[n] \in Int
      BY <1>2, <1>7, Weights
    <2>4. Weight(pc)' = IF dev = "timer" THEN 1 ELSE 0
      BY <1>1 DEF Weight
    <2> HIDE DEF due2
    <2> QED BY <1>1, <1>7, <2>1, <2>2, <2>3, <2>4
  <1> HIDE DEF due2
  <1>11. Owed'
    BY <1>2, <1>8, <1>9, <1>10 DEF Owed
  <1> QED BY <1>6, <1>11

(* A handler's registers go to its frame; its count has not begun.          *)
LEMMA SaveCounts ==
    ASSUME KeysInv, ~late, CountsHeld, Owed, NEW dev \in Devices, Save(dev)
    PROVE  CountsHeld' /\ Owed'
  <1>1. /\ pc.code = dev /\ pc.at = "save"
        /\ pc'.code = dev /\ pc'.at = "load" /\ pc'.unit = 1
        /\ sp' = sp + 1 /\ sp' \in Levels
        /\ frames' = [frames EXCEPT ![sp + 1] = [regs |-> regs, k0 |-> k0]]
        /\ UNCHANGED <<active, clock, ticks, regs>>
    BY DEF Save, At, In, Frame, SavedFrame, logVars
  <1>2. /\ frames \in [Levels -> [regs : Int, k0 : Points]]
        /\ Len(active) \in Nat /\ sp = Len(active) - 1
        /\ sp \in Levels
    BY <1>1 DEF KeysInv, IntInv, IntTypeOK, Nesting, Unsaved
  <1>3. /\ frames'[sp + 1].regs = regs
        /\ \A l \in Levels : l # sp + 1 => frames'[l] = frames[l]
    BY <1>1, <1>2
  <1>4. ASSUME NEW i \in 1 .. Len(active), HasRead(active[i])
        PROVE  /\ pc.code = "keyboard"
               /\ \A j \in i + 1 .. Len(active) : active[j].code = "keyboard"
               /\ frames'[i].regs = clock[active[i].unit] + 1
    <2>1. CASE i = Len(active)
      BY <1>1, <1>2, <1>3, <1>4, <2>1 DEF CountsHeld, HoldsReturn
    <2>2. CASE i # Len(active)
      <3>1. i <= sp /\ i # sp + 1 /\ i \in Levels
        BY <1>1, <1>2, <2>2, IntAssumption DEF Levels
      <3> QED BY <1>3, <1>4, <3>1 DEF CountsHeld
    <2> QED BY <2>1, <2>2
  <1>5. CountsHeld'
    BY <1>1, <1>4 DEF CountsHeld, HasRead, HoldsReturn
  <1>6. Weight(pc) = IF dev = "timer" THEN 1 ELSE 0
    BY <1>1 DEF Weight
  <1>7. Weight(pc)' = IF dev = "timer" THEN 1 ELSE 0
    BY <1>1 DEF Weight
  <1> QED BY <1>1, <1>5, <1>6, <1>7, OwesTheSame

(* The registers come back from the frame; nothing is owed any more.        *)
LEMMA ReturnCounts ==
    ASSUME KeysInv, ~late, CountsHeld, Owed,
           NEW dev \in Devices, Restore(dev) \/ Pop(dev) \/ Di(dev)
    PROVE  CountsHeld' /\ Owed'
  <1>1. /\ pc.code = dev /\ pc.at \in {"restore", "pop", "di"}
        /\ pc'.code = dev /\ pc'.at \in {"pop", "di", "reti"}
        /\ \/ pc.at = "restore" /\ regs' = frames[sp].regs
           \/ HoldsReturn /\ regs' = regs
        /\ sp' = sp \/ sp' = sp - 1
        /\ UNCHANGED <<active, clock, ticks, frames>>
    BY DEF Restore, Pop, Di, At, In, Frame, HoldsReturn, memVars, logVars
  <1>2. Len(active) \in Nat /\ sp \in Int
    BY IntAssumption DEF KeysInv, IntInv, IntTypeOK, Levels
  <1>3. pc.at = "restore" => sp = Len(active)
    BY DEF KeysInv, IntInv, Nesting, Unsaved
  <1>4. ASSUME NEW i \in 1 .. Len(active), HasRead(active[i])
        PROVE  /\ pc'.code = "keyboard"
               /\ \A j \in i + 1 .. Len(active) : active[j].code = "keyboard"
               /\ i <= sp' => frames[i].regs = clock[active[i].unit] + 1
               /\ i = Len(active) => regs' = clock[active[i].unit] + 1
    BY <1>1, <1>2, <1>3, <1>4 DEF CountsHeld
  <1>5. CountsHeld'
    BY <1>1, <1>4 DEF CountsHeld, HasRead
  <1>6. Weight(pc) = 0 /\ Weight(pc)' = 0
    BY <1>1 DEF Weight
  <1> QED BY <1>1, <1>5, <1>6, OwesTheSame

(* The point resumed owes what it owed when it was interrupted.             *)
LEMMA RetiCounts ==
    ASSUME KeysInv, ~late, CountsHeld, Owed, NEW dev \in Devices, Reti(dev)
    PROVE  CountsHeld' /\ Owed'
  <1> DEFINE n == Len(active)
  <1>1. /\ pc.code = dev /\ pc.at = "reti"
        /\ active # <<>> /\ pc' = active[n]
        /\ active' = SubSeq(active, 1, n - 1)
        /\ UNCHANGED <<sp, regs, frames, clock, ticks>>
    BY RetiResumes DEF Reti, At, memVars, KeysInv
  <1>2. /\ n \in Nat \ {0} /\ Len(active') = n - 1
        /\ \A i \in 1 .. n - 1 : active'[i] = active[i]
    BY <1>1, PointStacks DEF KeysInv, IntInv, IntTypeOK
  <1>3. pc'.at \notin {"save", "pop", "di", "reti"}
    BY <1>1, <1>2 DEF KeysInv, IntInv, Nesting
  <1>4. n \in 1 .. n /\ HoldsReturn
    BY <1>1, <1>2 DEF HoldsReturn
  <1>5. HasRead(pc') => regs = clock[pc'.unit] + 1
    BY <1>1, <1>4 DEF CountsHeld, n
  <1> HIDE DEF n
  <1>6. ASSUME NEW i \in 1 .. n - 1, HasRead(active[i])
        PROVE  /\ pc'.code = "keyboard"
               /\ \A j \in i + 1 .. n - 1 : active[j].code = "keyboard"
               /\ i <= sp => frames[i].regs = clock[active[i].unit] + 1
    <2>1. i \in 1 .. n /\ n \in i + 1 .. n
      BY <1>2
    <2>2. /\ \A j \in i + 1 .. n : active[j].code = "keyboard"
          /\ i <= sp => frames[i].regs = clock[active[i].unit] + 1
      BY <1>6, <2>1 DEF CountsHeld, n
    <2>3. \A j \in i + 1 .. n - 1 : j \in i + 1 .. n
      BY <1>2
    <2> QED BY <1>1, <2>1, <2>2, <2>3
  <1>7. CountsHeld'
    <2>1. \A i \in 1 .. n - 1 : \A j \in i + 1 .. n - 1 : j \in 1 .. n - 1
      BY <1>2
    <2> QED BY <1>1, <1>2, <1>3, <1>5, <1>6, <2>1
            DEF CountsHeld, HasRead, HoldsReturn
  <1>8. PICK due \in [0 .. n -> Int] :
        /\ due[0] = 0
        /\ \A i \in 1 .. n : due[i] = due[i - 1] + Weight(active[i])
        /\ Seconds + due[n] + Weight(pc) = ticks
    BY DEF Owed, n
  <1> DEFINE due2 == [i \in 0 .. n - 1 |-> due[i]]
  <1>9. due2 \in [0 .. n - 1 -> Int] /\ due2[0] = 0
    BY <1>2, <1>8
  <1>10. ASSUME NEW i \in 1 .. n - 1
         PROVE  due2[i] = due2[i - 1] + Weight(active'[i])
    BY <1>2, <1>8
  <1>11. Seconds' + due2[n - 1] + Weight(pc)' = ticks'
    <2>1. Seconds' = Seconds /\ Seconds \in Int
      BY <1>1, Weights DEF Seconds, KeysInv, IntInv
    <2>2. due2[n - 1] = due[n - 1] /\ due[n - 1] \in Int
      BY <1>2, <1>8
    <2>3. due[n] = due[n - 1] + Weight(active[n])
      BY <1>2, <1>8
    <2>4. Weight(pc)' = Weight(active[n]) /\ Weight(pc)' \in Int
      BY <1>1, Weights DEF Weight
    <2>5. Weight(pc) = 0
      BY <1>1 DEF Weight
    <2> HIDE DEF due2
    <2> QED BY <1>1, <1>8, <2>1, <2>2, <2>3, <2>4, <2>5
  <1> HIDE DEF due2
  <1>12. Owed'
    BY <1>2, <1>9, <1>10, <1>11 DEF Owed
  <1> QED BY <1>7, <1>12

-----------------------------------------------------------------------------
(* The clock's invariant holds in every reachable state.                    *)
THEOREM CountInvHolds == IntSpec => []CountInv
  <1>1. IntInit => CountInv
    <2> SUFFICES ASSUME IntInit PROVE CountsHeld /\ Owed
      BY DEF CountInv
    <2>1. /\ pc.code = "user" /\ active = <<>> /\ ticks = 0
          /\ clock[1] = 0 /\ clock[2] = 0 /\ clock[3] = 0
      BY DEF IntInit, User
    <2>2. CountsHeld
      BY <2>1 DEF CountsHeld, HasRead
    <2>3. Weight(pc) = 0 /\ Seconds = 0
      BY <2>1, IntAssumption DEF Weight, Seconds
    <2>4. Len(active) = 0
      BY <2>1
    <2> DEFINE due == [i \in 0 .. 0 |-> 0]
    <2>5. due \in [0 .. Len(active) -> Int] /\ due[0] = 0
      BY <2>4
    <2>6. Seconds + due[Len(active)] + Weight(pc) = ticks
      BY <2>1, <2>3, <2>4
    <2> HIDE DEF due
    <2>7. Owed
      BY <2>4, <2>5, <2>6 DEF Owed
    <2> QED BY <2>2, <2>7
  <1>2. KeysInv /\ CountInv /\ [IntNext]_intVars => CountInv'
    <2> SUFFICES ASSUME KeysInv, CountInv, [IntNext]_intVars, ~late', ~raced'
                 PROVE  CountsHeld' /\ Owed'
      BY DEF CountInv
    <2>1. CASE UNCHANGED intVars
      BY <2>1 DEF CountInv, CountsHeld, Owed, HoldsReturn, Seconds,
                  intVars, regVars, memVars, logVars
    <2>2. ASSUME NEW dev \in Devices, Interrupt(dev)
          PROVE  CountsHeld' /\ Owed'
      <3>1. ~late /\ ~raced /\ pc.at \notin {"pop", "di"}
        BY <2>2 DEF Interrupt
      <3> QED BY <2>2, <3>1, InterruptCounts DEF CountInv
    <2>3. CASE Machine
      <3>1. UNCHANGED <<late, raced>>
        BY <2>3 DEF Machine, UserStep, LoadKeyboard, StoreKey, LoadUnit,
                    StoreUnit, Save, Restore, Pop, Di, Reti, logVars
      <3>2. ~late /\ CountsHeld /\ Owed
        BY <3>1 DEF CountInv
      <3> QED BY <2>3, <3>2, UserCounts, KeyboardCounts, LoadUnitCounts,
                 StoreUnitCounts, SaveCounts, ReturnCounts, RetiCounts
              DEF Machine
    <2> QED BY <2>1, <2>2, <2>3 DEF IntNext
  <1> QED BY <1>1, <1>2, KeysInvHolds, PTL DEF IntSpec

(* ti_inthandler loses no tick and counts none twice, however handlers nest *)
(* and wherever the clock carries, unless a tick came between the load of a *)
(* count and its store.                                                     *)
THEOREM ClockAlwaysCounts == IntSpec => []ClockCounts
  <1>1. KeysInv /\ LateInv /\ CountInv => ClockCounts
    <2> SUFFICES ASSUME KeysInv, LateInv, CountInv, pc.code = "user", ~raced
                 PROVE  Seconds = ticks
      BY DEF ClockCounts
    <2>1. ~late
      BY DEF LateInv, NeverReturns
    <2>2. active = <<>> /\ Weight(pc) = 0
      BY <2>1 DEF KeysInv, IntInv, Nesting, Weight
    <2>3. Seconds \in Int /\ Len(active) = 0
      BY <2>2, Weights DEF KeysInv, IntInv
    <2>4. Owed
      BY <2>1 DEF CountInv
    <2> QED BY <2>2, <2>3, <2>4 DEF Owed
  <1> QED BY <1>1, KeysInvHolds, LateInvHolds, CountInvHolds, PTL
=============================================================================
