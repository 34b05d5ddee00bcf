----------------------------- MODULE BootProofs -----------------------------
(***************************************************************************)
(* Interrupts while the kernel boots: everything is ready for them when    *)
(* they are enabled, none stays in service and every tick of the timer is  *)
(* counted once, for every set of devices and exceptions, every mask the   *)
(* firmware leaves behind and any number of ticks and spurious interrupts. *)
(***************************************************************************)
EXTENDS Boot, FiniteSetTheorems, TLAPS

Chips == {"master", "slave"}

PicState ==
  [offset : Nat, icw : {0, 2, 3, 4}, mask : Nat, irr : SUBSET Nat, isr : SUBSET Nat]

PicType == [Chips -> PicState]

FrameOf(n, d) == [vector |-> n, regs |-> Registers(n), done |-> d]

-----------------------------------------------------------------------------
(***************************************************************************)
(* The steps of kernel_main.                                               *)
(***************************************************************************)

LEMMA FirstSteps ==
  /\ Len(kernel_main) = 17
  /\ kernel_main[1].op = "init_gdt" /\ kernel_main[2].op = "init_idt"
  /\ kernel_main[3].op = "init_timer" /\ kernel_main[4].op = "sti"
  /\ \A k \in 5 .. 17 :
       kernel_main[k].op \notin {"init_gdt", "init_idt", "init_timer", "sti"}
<1>1. Len(kernel_main) = 17
  BY DEF kernel_main
<1>2. /\ kernel_main[1].op = "init_gdt" /\ kernel_main[2].op = "init_idt"
      /\ kernel_main[3].op = "init_timer" /\ kernel_main[4].op = "sti"
      /\ kernel_main[5].op = "modules" /\ kernel_main[6].op = "print_time"
      /\ kernel_main[7].op = "init_paging" /\ kernel_main[8].op = "print_time"
      /\ kernel_main[9].op = "file_count" /\ kernel_main[10].op = "print_time"
      /\ kernel_main[11].op = "init_ps2" /\ kernel_main[12].op = "print_time"
      /\ kernel_main[13].op = "drive" /\ kernel_main[14].op = "print_time"
      /\ kernel_main[15].op = "signature" /\ kernel_main[16].op = "lines"
      /\ kernel_main[17].op = "merged"
  BY DEF kernel_main, Call, Message, PrintTime
<1>3. \A k \in 5 .. 17 :
        \/ k = 5 \/ k = 6 \/ k = 7 \/ k = 8 \/ k = 9 \/ k = 10 \/ k = 11
        \/ k = 12 \/ k = 13 \/ k = 14 \/ k = 15 \/ k = 16 \/ k = 17
  OBVIOUS
<1>4. QED
  BY <1>1, <1>2, <1>3

LEMMA StepNumbers ==
  ASSUME pc \in Nat \ {0}
  PROVE  /\ Op = "init_gdt" => pc = 1
         /\ Op = "init_idt" => pc = 2
         /\ Op = "init_timer" => pc = 3
         /\ Op = "sti" => pc = 4
         /\ Op \notin {"init_gdt", "init_idt", "init_timer", "sti"} => pc > 4
<1>1. pc = 1 \/ pc = 2 \/ pc = 3 \/ pc = 4 \/ pc \in 5 .. 17 \/ pc > 17
  OBVIOUS
<1>2. QED
  BY <1>1, FirstSteps DEF Op

\* A step that leaves the interrupts alone, of kernel_main or of a message.
Idle ==
  /\ UNCHANGED <<intVars, ticks, lost>>
  /\ \/ pc' = pc
     \/ pc > 4 /\ pc' = pc + 1

Changes ==
  \/ Init1 \/ Init2 \/ Init3 \/ Sti
  \/ Registering("init_paging", 14, "page_fault")
  \/ Registering("init_ps2", IRQ1, "keyboard")
  \/ Halt \/ Tick \/ Handler \/ Delivery
  \/ \E l \in Lines \ {0} : RaiseLine(l)
  \/ \E c \in Chips : Spurious(c)
  \/ \E n \in Exceptions : Fault(n)

LEMMA Steps ==
  ASSUME pc \in Nat \ {0}, [Next]_vars
  PROVE  Idle \/ Changes
<1>1. CASE UNCHANGED vars
  BY <1>1 DEF vars, history, Idle
<1>2. ASSUME NEW f, NEW holds, NEW line, ASSERT(f, holds, line),
             f \in {"modules", "signature", "merged"}
      PROVE  Idle
  <2>1. Op = f /\ (pc' = pc \/ pc' = pc + 1) /\ UNCHANGED <<intVars, ticks, lost>>
    BY <1>2 DEF ASSERT, history
  <2>2. pc > 4
    BY <1>2, <2>1, StepNumbers
  <2>3. QED
    BY <2>1, <2>2 DEF Idle
<1>3. ASSUME NEW f, NEW n, Prints(f, n), f \in {"print_time", "file_count", "drive"}
      PROVE  Idle
  <2>1. Op = f /\ pc' = pc + 1 /\ UNCHANGED <<intVars, ticks, lost>>
    BY <1>3 DEF Prints, Step
  <2>2. pc > 4
    BY <1>3, <2>1, StepNumbers
  <2>3. QED
    BY <2>1, <2>2 DEF Idle
<1>4. ASSUME NEW f, Silently(f), f \in {"drive", "lines"} PROVE Idle
  <2>1. Op = f /\ pc' = pc + 1 /\ UNCHANGED <<intVars, ticks, lost>>
    BY <1>4 DEF Silently, Step
  <2>2. pc > 4
    BY <1>4, <2>1, StepNumbers
  <2>3. QED
    BY <2>1, <2>2 DEF Idle
<1>5. ASSUME NEW f, NEW n, PrintLine(f, n) PROVE Idle
  BY <1>5 DEF PrintLine, Idle, history
<1>6. CASE Main
  BY <1>2, <1>3, <1>4, <1>5, <1>6 DEF Main, Changes
<1>7. CASE IsrHandler \/ FaultPanics \/ Printing
  BY <1>7 DEF IsrHandler, FaultPanics, Printing, Idle, history
<1>8. QED
  BY <1>1, <1>6, <1>7 DEF Next, Kernel, Environment, Changes, Chips

-----------------------------------------------------------------------------
(***************************************************************************)
(* The controllers and the frames.                                         *)
(***************************************************************************)

LEMMA SameState ==
  ASSUME NEW r \in PicState, NEW s \in PicState,
         r.offset = s.offset, r.icw = s.icw, r.mask = s.mask, r.irr = s.irr,
         r.isr = s.isr
  PROVE  r = s
  BY DEF PicState

LEMMA Both ==
  ASSUME NEW p \in PicType, NEW port, NEW m, NEW s
  PROVE  OutbBoth(p, port, m, s) =
           [c \in Chips |-> Written(p[c], port, IF c = "master" THEN m ELSE s)]
  BY DEF OutbBoth, outb, PicType, Chips

Cleared(o, w, k) == [offset |-> o, icw |-> w, mask |-> k, irr |-> {}, isr |-> {}]

LEMMA WrittenWords ==
  ASSUME NEW o \in Nat, NEW k \in Nat, NEW v \in Nat
  PROVE  /\ Written(Cleared(o, 2, k), "data", v) = Cleared(v, 3, k)
         /\ Written(Cleared(o, 3, k), "data", v) = Cleared(o, 4, k)
         /\ Written(Cleared(o, 4, k), "data", v) = Cleared(o, 0, k)
         /\ Written(Cleared(o, 0, k), "data", v) = Cleared(o, 0, v)
<1>1. ASSUME NEW c, c.icw = 2
      PROVE  Written(c, "data", v) = [c EXCEPT !.offset = v, !.icw = 3]
  BY <1>1 DEF Written
<1>2. ASSUME NEW c, c.icw = 3 PROVE Written(c, "data", v) = [c EXCEPT !.icw = 4]
  BY <1>2 DEF Written
<1>3. ASSUME NEW c, c.icw = 4 PROVE Written(c, "data", v) = [c EXCEPT !.icw = 0]
  BY <1>3 DEF Written
<1>4. ASSUME NEW c, c.icw = 0 PROVE Written(c, "data", v) = [c EXCEPT !.mask = v]
  BY <1>4 DEF Written
<1>5. \A j \in {0, 2, 3, 4} : Cleared(o, j, k).icw = j
  BY DEF Cleared
<1>6. /\ Written(Cleared(o, 2, k), "data", v)
           = [Cleared(o, 2, k) EXCEPT !.offset = v, !.icw = 3]
      /\ Written(Cleared(o, 3, k), "data", v) = [Cleared(o, 3, k) EXCEPT !.icw = 4]
      /\ Written(Cleared(o, 4, k), "data", v) = [Cleared(o, 4, k) EXCEPT !.icw = 0]
      /\ Written(Cleared(o, 0, k), "data", v) = [Cleared(o, 0, k) EXCEPT !.mask = v]
  BY <1>1, <1>2, <1>3, <1>4, <1>5
<1>7. QED
  BY <1>6, ZenonT(60) DEF Cleared

LEMMA Remaps ==
  ASSUME NEW p \in PicType
  PROVE  remap_irq(p) =
           [c \in Chips |-> Cleared(IF c = "master" THEN 32 ELSE 40, 0, 0)]
<1> DEFINE icw1 == OutbBoth(p, "cmd", 17, 17)
           icw2 == OutbBoth(icw1, "data", 32, 40)
           icw3 == OutbBoth(icw2, "data", 4, 2)
           icw4 == OutbBoth(icw3, "data", 1, 1)
           offset == [c \in Chips |-> IF c = "master" THEN 32 ELSE 40]
<1>1. \A o \in [Chips -> Nat], k \in [Chips -> Nat], w \in {0, 2, 3, 4} :
        [c \in Chips |-> Cleared(o[c], w, k[c])] \in PicType
  BY DEF PicType, PicState, Cleared
<1>2. PICK k \in [Chips -> Nat], o \in [Chips -> Nat] :
        icw1 = [c \in Chips |-> Cleared(o[c], 2, k[c])]
  <2> DEFINE k == [c \in Chips |-> p[c].mask]
             o == [c \in Chips |-> p[c].offset]
  <2>1. k \in [Chips -> Nat] /\ o \in [Chips -> Nat]
    BY DEF PicType, PicState
  <2>2. \A c \in Chips : Written(p[c], "cmd", 17) = Cleared(o[c], 2, k[c])
    <3>1. ASSUME NEW c
          PROVE  Written(c, "cmd", 17) = [c EXCEPT !.icw = 2, !.irr = {}, !.isr = {}]
      BY DEF Written
    <3>2. ASSUME NEW c \in Chips
          PROVE  [p[c] EXCEPT !.icw = 2, !.irr = {}, !.isr = {}]
                   = Cleared(o[c], 2, k[c])
      <4>1. p[c] \in PicState
        BY DEF PicType
      <4>2. ASSUME NEW r \in PicState
            PROVE  [r EXCEPT !.icw = 2, !.irr = {}, !.isr = {}]
                     = Cleared(r.offset, 2, r.mask)
        <5> DEFINE e == [r EXCEPT !.icw = 2, !.irr = {}, !.isr = {}]
                   d == Cleared(r.offset, 2, r.mask)
        <5>1. e \in PicState /\ d \in PicState
          BY DEF PicState, Cleared
        <5>2. /\ e.offset = r.offset /\ e.icw = 2 /\ e.mask = r.mask
              /\ e.irr = {} /\ e.isr = {}
          BY DEF PicState
        <5>3. /\ d.offset = r.offset /\ d.icw = 2 /\ d.mask = r.mask
              /\ d.irr = {} /\ d.isr = {}
          BY DEF Cleared
        <5> HIDE DEF e, d
        <5>4. e = d
          BY <5>1, <5>2, <5>3, SameState
        <5>5. QED
          BY <5>4 DEF e, d
      <4>3. o[c] = p[c].offset /\ k[c] = p[c].mask
        OBVIOUS
      <4>4. QED
        BY <4>1, <4>2, <4>3
    <3>3. QED
      BY <3>1, <3>2
  <2>3. icw1 = [c \in Chips |-> Written(p[c], "cmd", 17)]
    BY Both
  <2>4. QED
    BY <2>1, <2>2, <2>3
<1>3. offset \in [Chips -> Nat]
  OBVIOUS
<1> HIDE DEF icw1
<1>4. icw2 = [c \in Chips |-> Cleared(offset[c], 3, k[c])]
  <2>1. icw2 = [c \in Chips |-> Written(icw1[c], "data", IF c = "master" THEN 32 ELSE 40)]
    <3>1. icw1 \in PicType
      BY <1>1, <1>2
    <3>2. QED
      BY <3>1, Both
  <2>2. QED
    <3>1. ASSUME NEW c \in Chips
          PROVE  Written(icw1[c], "data", IF c = "master" THEN 32 ELSE 40) = Cleared(offset[c], 3, k[c])
      <4>1. icw1[c] = Cleared(o[c], 2, k[c])
        BY <1>2
      <4>2. /\ o[c] \in Nat /\ k[c] \in Nat
        BY <1>2, <1>3
      <4>3. QED
        BY <4>1, <4>2, WrittenWords
    <3>2. QED
      BY <2>1, <3>1
<1> HIDE DEF icw2
<1>5. icw3 = [c \in Chips |-> Cleared(offset[c], 4, k[c])]
  <2>1. icw3 = [c \in Chips |-> Written(icw2[c], "data", IF c = "master" THEN 4 ELSE 2)]
    <3>1. icw2 \in PicType
      BY <1>1, <1>2, <1>3, <1>4
    <3>2. QED
      BY <3>1, Both
  <2>2. QED
    <3>1. ASSUME NEW c \in Chips
          PROVE  Written(icw2[c], "data", IF c = "master" THEN 4 ELSE 2) = Cleared(offset[c], 4, k[c])
      <4>1. icw2[c] = Cleared(offset[c], 3, k[c])
        BY <1>4
      <4>2. /\ offset[c] \in Nat /\ k[c] \in Nat
        BY <1>2, <1>3
      <4>3. QED
        BY <4>1, <4>2, WrittenWords
    <3>2. QED
      BY <2>1, <3>1
<1> HIDE DEF icw3
<1>6. icw4 = [c \in Chips |-> Cleared(offset[c], 0, k[c])]
  <2>1. icw4 = [c \in Chips |-> Written(icw3[c], "data", IF c = "master" THEN 1 ELSE 1)]
    <3>1. icw3 \in PicType
      BY <1>1, <1>2, <1>3, <1>5
    <3>2. QED
      BY <3>1, Both
  <2>2. QED
    <3>1. ASSUME NEW c \in Chips
          PROVE  Written(icw3[c], "data", IF c = "master" THEN 1 ELSE 1) = Cleared(offset[c], 0, k[c])
      <4>1. icw3[c] = Cleared(offset[c], 4, k[c])
        BY <1>5
      <4>2. /\ offset[c] \in Nat /\ k[c] \in Nat
        BY <1>2, <1>3
      <4>3. QED
        BY <4>1, <4>2, WrittenWords
    <3>2. QED
      BY <2>1, <3>1
<1> HIDE DEF icw4
<1>7. OutbBoth(icw4, "data", 0, 0) = [c \in Chips |-> Cleared(offset[c], 0, 0)]
  <2>1. OutbBoth(icw4, "data", 0, 0)
          = [c \in Chips |-> Written(icw4[c], "data", IF c = "master" THEN 0 ELSE 0)]
    <3>1. icw4 \in PicType
      BY <1>1, <1>2, <1>3, <1>6
    <3>2. QED
      BY <3>1, Both
  <2>2. QED
    <3>1. ASSUME NEW c \in Chips
          PROVE  Written(icw4[c], "data", IF c = "master" THEN 0 ELSE 0) = Cleared(offset[c], 0, 0)
      <4>1. icw4[c] = Cleared(offset[c], 0, k[c])
        BY <1>6
      <4>2. /\ offset[c] \in Nat /\ k[c] \in Nat
        BY <1>2, <1>3
      <4>3. QED
        BY <4>1, <4>2, WrittenWords
    <3>2. QED
      BY <2>1, <3>1
<1>8. remap_irq(p) = OutbBoth(icw4, "data", 0, 0)
  BY DEF remap_irq, icw1, icw2, icw3, icw4
<1>9. QED
  BY <1>7, <1>8

\* A reset leaves nothing in service where at most one interrupt was.
LEMMA Resets ==
  ASSUME NEW p \in PicType, NEW n \in Nat, NEW k \in Nat, NEW m \in Nat,
         p["master"].isr \subseteq {k}, p["slave"].isr \subseteq {m},
         n < IRQ8 => p["slave"].isr = {}
  PROVE  /\ Eoi(p, n) = [c \in Chips |-> [p[c] EXCEPT !.isr = {}]]
         /\ Eoi(p, n) \in PicType
<1>1. ASSUME NEW j \in Nat, NEW S \in SUBSET {j} PROVE S \ Lowest(S) = {}
  <2>1. S = {} \/ S = {j}
    OBVIOUS
  <2>2. Lowest({j}) = {j}
    BY DEF Lowest
  <2>3. QED
    BY <2>1, <2>2
<1>2. /\ p["master"].isr \ Lowest(p["master"].isr) = {}
      /\ p["slave"].isr \ Lowest(p["slave"].isr) = {}
  BY <1>1
<1>3. \A c \in Chips : Written(p[c], "cmd", 32) = [p[c] EXCEPT !.isr = {}]
  BY <1>2, SMTT(30) DEF Written, Chips, PicType, PicState
<1>4. CASE n >= IRQ8
  <2>1. Eoi(p, n) = [c \in Chips |-> Written(p[c], "cmd", 32)]
    BY <1>4 DEF Eoi, outb, PicType, Chips
  <2>2. QED
    BY <1>3, <2>1 DEF PicType, PicState
<1>5. CASE n < IRQ8
  <2>1. p["slave"] = [p["slave"] EXCEPT !.isr = {}]
    BY <1>5 DEF PicType, PicState, Chips
  <2>2. Eoi(p, n) = [c \in Chips |-> IF c = "master" THEN Written(p[c], "cmd", 32)
                                                    ELSE p[c]]
    <3>1. Eoi(p, n) = outb(p, "master", "cmd", 32)
      BY <1>5 DEF Eoi, IRQ8
    <3>2. QED
      BY <3>1 DEF outb, PicType, Chips
  <2>3. \A c \in Chips : (IF c = "master" THEN Written(p[c], "cmd", 32) ELSE p[c])
                          = [p[c] EXCEPT !.isr = {}]
    BY <1>3, <2>1 DEF Chips
  <2>4. Eoi(p, n) = [c \in Chips |-> [p[c] EXCEPT !.isr = {}]]
    BY <2>2, <2>3
  <2>5. QED
    BY <2>4 DEF PicType, PicState
<1>6. QED
  BY <1>4, <1>5 DEF IRQ8

\* regs.int_no is the vector, whatever the stub and the CPU pushed below it.
LEMMA InterruptNumber == ASSUME NEW n \in Nat PROVE Registers(n)[10] = n
<1> DEFINE saved == <<"ds", "edi", "esi", "ebp", "esp", "ebx", "edx", "ecx", "eax">>
           rest  == (IF n \in ErrorCode THEN <<"error">> ELSE <<>>)
                    \o <<"eip", "cs", "eflags">>
<1>1. CASE n \in ErrorCode
  BY <1>1 DEF Registers, StubPushes, ErrorCode
<1>2. CASE n \notin ErrorCode
  BY <1>2 DEF Registers, StubPushes, ErrorCode
<1>3. QED
  BY <1>1, <1>2

LEMMA VectorsAre ==
  /\ Vectors \subseteq 0 .. 47 /\ IRQ0 \in Vectors /\ Exceptions \subseteq Vectors
  /\ \A l \in Lines : IRQ0 + l \in Vectors
  /\ IRQ0 + 7 \in Vectors /\ IRQ0 + 15 \in Vectors
<1>1. \A l \in Lines \cup {7, 15} : IRQ0 + l \in 32 .. 47
  BY LineAssumption DEF IRQ0
<1>2. \A n \in Vectors : n \in Exceptions \/ \E l \in Lines \cup {7, 15} : n = IRQ0 + l
  BY Zenon DEF Vectors
<1>3. Vectors \subseteq 0 .. 47
  <2>1. ASSUME NEW n \in Vectors PROVE n \in 0 .. 47
    <3>1. CASE n \in Exceptions
      BY <3>1, LineAssumption
    <3>2. CASE n \notin Exceptions
      <4>1. PICK l \in Lines \cup {7, 15} : n = IRQ0 + l
        BY <1>2, <3>2
      <4>2. QED
        BY <1>1, <4>1
    <3>3. QED
      BY <3>1, <3>2
  <2>2. QED
    BY <2>1
<1>4. \A l \in Lines \cup {7, 15} : IRQ0 + l \in Vectors
  BY Zenon DEF Vectors
<1>5. IRQ0 \in Vectors
  BY <1>4, LineAssumption DEF IRQ0
<1>6. QED
  BY <1>3, <1>4, <1>5 DEF Vectors

-----------------------------------------------------------------------------
(***************************************************************************)
(* The invariant.                                                          *)
(***************************************************************************)

\* What kernel_main has set up by the step it is at; interrupts are off before.
TablesInv ==
  /\ pc \in Nat \ {0} /\ intr \in BOOLEAN /\ pic \in PicType
  /\ handlers \in [Vectors -> {"none", "timer", "page_fault", "keyboard"}]
  /\ \A n \in Vectors : handlers[n] = "timer" => n = IRQ0
  /\ pc > 1 => gdt = <<0, 154, 146, 250, 242>>
  /\ pc > 2 => /\ idt = [n \in Vectors |-> IdtEntry(Stub(n))]
               /\ pic["master"].offset = IRQ0 /\ pic["slave"].offset = IRQ8
               /\ pic["master"].mask = 0 /\ pic["slave"].mask = 0
  /\ pc > 3 => handlers[IRQ0] = "timer" /\ pit = <<169, 4>>
  /\ intr => pc > 4

\* At most one interrupt is being handled, with interrupts off; until its handler
\* is through, each controller has at most one in service, and the slave none if
\* irq_handler will not reset it.
FrameInv(n, d) ==
  /\ frames = <<FrameOf(n, d)>> /\ ~ intr
  /\ n >= IRQ0 => pc > 4
  /\ n < IRQ0 => ~ d
  /\ d => pic["master"].isr = {} /\ pic["slave"].isr = {}
  /\ n >= IRQ0 /\ ~ d =>
       /\ \E k \in Nat : pic["master"].isr \subseteq {k}
       /\ \E m \in Nat : pic["slave"].isr \subseteq {m}
       /\ n < IRQ8 => pic["slave"].isr = {}

ServiceInv ==
  \/ frames = <<>> /\ pic["master"].isr = {} /\ pic["slave"].isr = {}
  \/ \E n \in Vectors, d \in BOOLEAN : FrameInv(n, d)

BootInv == TablesInv /\ ServiceInv

LEMMA Ready == TablesInv => ReadyForInterrupts
<1> SUFFICES ASSUME TablesInv, intr PROVE ReadyForInterrupts
  BY DEF ReadyForInterrupts
<1>1. /\ gdt = <<0, 154, 146, 250, 242>>
      /\ idt = [n \in Vectors |-> IdtEntry(Stub(n))]
      /\ pic["master"].offset = 32 /\ pic["slave"].offset = 40
      /\ pic["master"].mask = 0 /\ pic["slave"].mask = 0
      /\ handlers[IRQ0] = "timer" /\ pit = <<169, 4>>
  BY DEF TablesInv, IRQ0, IRQ8
<1>2. ASSUME NEW n \in Vectors PROVE GateWorks(n)
  <2>1. n \in Nat /\ n \in DOMAIN idt /\ idt[n] = IdtEntry(Stub(n))
    BY <1>1, VectorsAre
  <2>2. 2 \in DOMAIN gdt /\ IsCode(gdt[2])
    BY <1>1 DEF IsCode
  <2>3. (Stub(n) % 65536) + 65536 * (Stub(n) \div 65536) = Stub(n)
    BY <2>1 DEF Stub
  <2>4. 8 \div 8 + 1 = 2
    OBVIOUS
  <2>5. QED
    BY <2>1, <2>2, <2>3, <2>4 DEF GateWorks, IdtEntry
<1>3. ASSUME NEW l \in Lines
      PROVE  Vector(l) = IRQ0 + l /\ GateWorks(Vector(l)) /\ ~ Masked(l)
  <2>1. l \in 0 .. 15
    BY LineAssumption
  <2>2. Vector(l) = IRQ0 + l
    BY <1>1, <2>1 DEF Vector, Chip, IRQ0
  <2>3. ~ Masked(l)
    <3>1. pic[Chip(l)].mask = 0
      BY <1>1 DEF Chip
    <3>2. l % 8 \in 0 .. 7
      BY <2>1
    <3>3. ASSUME NEW k \in 0 .. 7 PROVE (0 \div 2 ^ k) % 2 = 0
      <4>1. k = 0 \/ k = 1 \/ k = 2 \/ k = 3 \/ k = 4 \/ k = 5 \/ k = 6 \/ k = 7
        OBVIOUS
      <4>2. /\ (0 \div 2 ^ 0) % 2 = 0 /\ (0 \div 2 ^ 1) % 2 = 0
            /\ (0 \div 2 ^ 2) % 2 = 0 /\ (0 \div 2 ^ 3) % 2 = 0
            /\ (0 \div 2 ^ 4) % 2 = 0 /\ (0 \div 2 ^ 5) % 2 = 0
            /\ (0 \div 2 ^ 6) % 2 = 0 /\ (0 \div 2 ^ 7) % 2 = 0
        OBVIOUS
      <4>3. QED
        BY <4>1, <4>2
    <3>4. (0 \div 2 ^ (l % 8)) % 2 = 0
      BY <3>2, <3>3, Zenon
    <3>5. (0 \div 2 ^ (l % 8)) % 2 # 1
      BY <3>4
    <3>6. QED
      BY <3>1, <3>5, Zenon DEF Masked
  <2>4. QED
    BY <1>2, <2>2, <2>3, VectorsAre
<1>4. \A n \in Exceptions : GateWorks(n)
  BY <1>2, VectorsAre
<1>5. (pit[1] + 256 * pit[2]) * 1000 \in 1193180 - 999 .. 1193180
  BY <1>1
<1>6. QED
  BY <1>1, <1>3, <1>4, <1>5 DEF ReadyForInterrupts

LEMMA BootInit == Init => BootInv
<1> SUFFICES ASSUME Init PROVE BootInv
  OBVIOUS
<1>1. pic \in PicType
  BY LineAssumption DEF Init, IntInit, PicType, PicState, Chips
<1>2. pic["master"].isr = {} /\ pic["slave"].isr = {}
  BY DEF Init, IntInit
<1>3. pc = 1 /\ ~ intr /\ intr \in BOOLEAN /\ frames = <<>>
  BY DEF Init, IntInit
<1>4. /\ handlers \in [Vectors -> {"none", "timer", "page_fault", "keyboard"}]
      /\ \A n \in Vectors : handlers[n] # "timer"
  <2>1. handlers = [n \in Vectors |-> "none"]
    BY DEF Init, IntInit
  <2>2. handlers \in [Vectors -> {"none", "timer", "page_fault", "keyboard"}]
    BY <2>1, Zenon
  <2>3. \A n \in Vectors : handlers[n] # "timer"
    BY <2>1
  <2>4. QED
    BY <2>2, <2>3
<1>5. QED
  BY <1>1, <1>2, <1>3, <1>4 DEF BootInv, TablesInv, ServiceInv

-----------------------------------------------------------------------------
(***************************************************************************)
(* What steps keep.                                                        *)
(***************************************************************************)

SetUpKept ==
  /\ pic' \in PicType
  /\ pic'["master"].offset = pic["master"].offset
  /\ pic'["slave"].offset = pic["slave"].offset
  /\ pic'["master"].mask = pic["master"].mask
  /\ pic'["slave"].mask = pic["slave"].mask

IsrKept ==
  pic'["master"].isr = pic["master"].isr /\ pic'["slave"].isr = pic["slave"].isr

LEMMA TablesKept ==
  ASSUME TablesInv, UNCHANGED <<gdt, idt, pit, handlers>>, SetUpKept,
         pc' = pc \/ (pc > 4 /\ pc' = pc + 1),
         intr' \in BOOLEAN, intr' => pc > 4
  PROVE  TablesInv'
  BY DEF TablesInv, SetUpKept

LEMMA ServiceKept ==
  ASSUME BootInv, frames' = frames, intr' = intr \/ ~ intr',
         pc' = pc \/ pc' = pc + 1, IsrKept
  PROVE  ServiceInv'
<1>1. CASE frames = <<>>
  <2>1. pic["master"].isr = {} /\ pic["slave"].isr = {}
    BY <1>1 DEF BootInv, ServiceInv, FrameInv
  <2>2. QED
    BY <1>1, <2>1 DEF ServiceInv, IsrKept
<1>2. CASE frames # <<>>
  <2>1. PICK n \in Vectors, d \in BOOLEAN : FrameInv(n, d)
    BY <1>2 DEF BootInv, ServiceInv
  <2>2. frames' = <<FrameOf(n, d)>>
    BY <2>1 DEF FrameInv
  <2>3. FrameInv(n, d)'
    BY <2>1, <2>2 DEF FrameInv, BootInv, TablesInv, IsrKept
  <2>4. QED
    BY <2>3 DEF ServiceInv
<1>3. QED
  BY <1>1, <1>2

\* With interrupts on, no interrupt is being handled.
LEMMA NoFrames ==
  ASSUME BootInv, intr
  PROVE  /\ frames = <<>> /\ pc > 4
         /\ pic["master"].isr = {} /\ pic["slave"].isr = {}
  BY DEF BootInv, TablesInv, ServiceInv, FrameInv

LEMMA FirstFrame ==
  ASSUME NEW n, frames = <<>>, Interrupt(n)
  PROVE  frames' = <<FrameOf(n, FALSE)>> /\ intr' = FALSE
<1>1. <<FrameOf(n, FALSE)>> \o <<>> = <<FrameOf(n, FALSE)>>
  OBVIOUS
<1>2. QED
  BY <1>1 DEF Interrupt, FrameOf

LEMMA Raises ==
  ASSUME pic \in PicType, NEW l \in Lines, Raise(l)
  PROVE  /\ SetUpKept /\ IsrKept
         /\ 0 \in pic'["master"].irr <=> (l = 0 \/ 0 \in pic["master"].irr)
<1>1. l \in 0 .. 15 /\ l % 8 \in Nat /\ (l < 8 => l % 8 = l)
  BY LineAssumption
<1>2. CASE l < 8
  <2>1. pic' = [pic EXCEPT !["master"].irr = @ \cup {l % 8}]
    BY <1>2 DEF Raise, Chip
  <2>2. QED
    BY <1>1, <1>2, <2>1 DEF PicType, PicState, Chips, SetUpKept, IsrKept
<1>3. CASE l >= 8
  <2>1. pic' = [pic EXCEPT !["slave"].irr = @ \cup {l % 8}]
    <3>1. Chip(l) = "slave"
      BY <1>1, <1>3 DEF Chip
    <3>2. QED
      BY <3>1, Zenon DEF Raise
  <2>2. QED
    BY <1>1, <1>3, <2>1 DEF PicType, PicState, Chips, SetUpKept, IsrKept
<1>4. QED
  BY <1>1, <1>2, <1>3

LEMMA Acknowledges ==
  ASSUME pic \in PicType, NEW l \in Lines, pic' = Acknowledged(l),
         pic["master"].isr = {}, pic["slave"].isr = {}
  PROVE  /\ SetUpKept
         /\ \E k \in Nat : pic'["master"].isr \subseteq {k}
         /\ \E m \in Nat : pic'["slave"].isr \subseteq {m}
         /\ l < 8 => pic'["slave"].isr = {}
         /\ 0 \in pic'["master"].irr <=> (l # 0 /\ 0 \in pic["master"].irr)
<1>1. l \in 0 .. 15 /\ l % 8 \in Nat /\ (l < 8 => l % 8 = l)
  BY LineAssumption
<1>2. CASE l < 8
  <2>1. pic' = [pic EXCEPT !["master"].irr = @ \ {l % 8}, !["master"].isr = @ \cup {l % 8}]
    BY <1>2 DEF Acknowledged, Chip
  <2>2. /\ pic' \in PicType /\ pic'["slave"] = pic["slave"]
        /\ pic'["master"].offset = pic["master"].offset
        /\ pic'["master"].mask = pic["master"].mask
        /\ pic'["master"].isr = {l % 8}
        /\ pic'["master"].irr = pic["master"].irr \ {l % 8}
    BY <1>1, <2>1 DEF PicType, PicState, Chips
  <2>3. QED
    BY <1>1, <1>2, <2>2 DEF SetUpKept
<1>3. CASE l >= 8
  <2>1. pic' = [[pic EXCEPT !["slave"].irr = @ \ {l % 8}, !["slave"].isr = @ \cup {l % 8}]
                  EXCEPT !["master"].isr = @ \cup {2}]
    <3>1. Chip(l) = "slave" /\ ~ (l < 8)
      BY <1>1, <1>3 DEF Chip
    <3>2. QED
      BY <3>1, Zenon DEF Acknowledged
  <2>2. /\ pic' \in PicType
        /\ pic'["slave"].offset = pic["slave"].offset
        /\ pic'["slave"].mask = pic["slave"].mask
        /\ pic'["slave"].isr = {l % 8}
        /\ pic'["master"].offset = pic["master"].offset
        /\ pic'["master"].mask = pic["master"].mask
        /\ pic'["master"].isr = {2}
        /\ pic'["master"].irr = pic["master"].irr
    BY <1>1, <2>1, SMTT(30) DEF PicType, PicState, Chips
  <2>3. QED
    BY <1>1, <1>3, <2>2 DEF SetUpKept
<1>4. QED
  BY <1>1, <1>2, <1>3

\* Nothing, or line 2 of the master, is in service after a spurious interrupt.
LEMMA Spuriously ==
  ASSUME pic \in PicType, NEW c \in Chips,
         pic' = IF c = "master" THEN pic
                ELSE [pic EXCEPT !["master"].isr = @ \cup {2}],
         pic["master"].isr = {}, pic["slave"].isr = {}
  PROVE  /\ SetUpKept
         /\ pic'["master"].isr \subseteq {2} /\ pic'["slave"].isr = {}
         /\ pic'["master"].irr = pic["master"].irr
<1>1. CASE c = "master"
  BY <1>1 DEF SetUpKept
<1>2. CASE c # "master"
  BY <1>2 DEF PicType, PicState, Chips, SetUpKept
<1>3. QED
  BY <1>1, <1>2

-----------------------------------------------------------------------------
(***************************************************************************)
(* Every step keeps the invariant.                                         *)
(***************************************************************************)

LEMMA IdleStep == ASSUME BootInv, Idle PROVE BootInv'
<1>1. SetUpKept /\ IsrKept
  BY DEF BootInv, TablesInv, Idle, intVars, SetUpKept, IsrKept
<1>2. TablesInv'
  BY <1>1, TablesKept DEF BootInv, TablesInv, Idle, intVars
<1>3. ServiceInv'
  BY <1>1, ServiceKept DEF BootInv, Idle, intVars
<1>4. QED
  BY <1>2, <1>3 DEF BootInv

LEMMA InitGdtStep == ASSUME BootInv, Init1 PROVE BootInv'
<1>1. pc = 1 /\ pc' = 2
  BY StepNumbers DEF BootInv, TablesInv, Init1, Step
<1>2. UNCHANGED <<idt, pic, pit, handlers, intr, frames>>
  BY DEF Init1, InitGdt
<1>3. TablesInv'
  BY <1>1, <1>2 DEF BootInv, TablesInv, Init1, InitGdt
<1>4. ServiceInv'
  BY <1>1, <1>2, ServiceKept DEF IsrKept
<1>5. QED
  BY <1>3, <1>4 DEF BootInv

LEMMA InitIdtStep == ASSUME BootInv, Init2 PROVE BootInv'
<1>1. pc = 2 /\ pc' = 3 /\ frames = <<>>
  BY StepNumbers DEF BootInv, TablesInv, Init2, Step, Thread
<1>2. /\ pic' = [c \in Chips |-> Cleared(IF c = "master" THEN 32 ELSE 40, 0, 0)]
      /\ idt' = [n \in Vectors |-> IdtEntry(Stub(n))]
      /\ UNCHANGED <<gdt, pit, handlers, intr, frames>>
  BY Remaps DEF BootInv, TablesInv, Init2, InitIdt
<1>3. /\ pic' \in PicType
      /\ pic'["master"].offset = IRQ0 /\ pic'["slave"].offset = IRQ8
      /\ pic'["master"].mask = 0 /\ pic'["slave"].mask = 0
      /\ pic'["master"].isr = {} /\ pic'["slave"].isr = {}
  BY <1>2 DEF PicType, PicState, Chips, Cleared, IRQ0, IRQ8
<1>4. TablesInv'
  BY <1>1, <1>2, <1>3 DEF BootInv, TablesInv
<1>5. ServiceInv'
  BY <1>1, <1>2, <1>3 DEF ServiceInv
<1>6. QED
  BY <1>4, <1>5 DEF BootInv

LEMMA InitTimerStep == ASSUME BootInv, Init3 PROVE BootInv'
<1>1. pc = 3 /\ pc' = 4
  BY StepNumbers DEF BootInv, TablesInv, Init3, Step
<1>2. /\ handlers' = [handlers EXCEPT ![IRQ0] = "timer"] /\ pit' = <<169, 4>>
      /\ UNCHANGED <<gdt, idt, pic, intr, frames>>
  BY DEF Init3, InitTimer, Register
<1>3. /\ handlers' \in [Vectors -> {"none", "timer", "page_fault", "keyboard"}]
      /\ handlers'[IRQ0] = "timer"
      /\ \A n \in Vectors : handlers'[n] = "timer" => n = IRQ0
  BY <1>2, VectorsAre DEF BootInv, TablesInv
<1>4. TablesInv'
  <2>1. /\ ~ intr /\ intr \in BOOLEAN /\ pic \in PicType
        /\ gdt = <<0, 154, 146, 250, 242>>
        /\ idt = [n \in Vectors |-> IdtEntry(Stub(n))]
        /\ pic["master"].offset = IRQ0 /\ pic["slave"].offset = IRQ8
        /\ pic["master"].mask = 0 /\ pic["slave"].mask = 0
    BY <1>1 DEF BootInv, TablesInv
  <2>2. QED
    BY <1>1, <1>2, <1>3, <2>1 DEF TablesInv
<1>5. ServiceInv'
  BY <1>1, <1>2, ServiceKept DEF IsrKept
<1>6. QED
  BY <1>4, <1>5 DEF BootInv

LEMMA StiStep == ASSUME BootInv, Sti PROVE BootInv'
<1>1. pc = 4 /\ pc' = 5 /\ frames = <<>>
  BY StepNumbers DEF BootInv, TablesInv, Sti, Step, Thread
<1>2. intr' = TRUE /\ UNCHANGED <<gdt, idt, pic, pit, handlers, frames>>
  BY DEF Sti
<1>3. TablesInv'
  BY <1>1, <1>2 DEF BootInv, TablesInv
<1>4. ServiceInv'
  BY <1>1, <1>2 DEF BootInv, ServiceInv, FrameInv
<1>5. QED
  BY <1>3, <1>4 DEF BootInv

LEMMA RegisteringStep ==
  ASSUME BootInv, NEW f \in {"init_paging", "init_ps2"}, NEW n \in Nat \ {IRQ0},
         NEW h \in {"page_fault", "keyboard"}, Registering(f, n, h)
  PROVE  BootInv'
<1>1. pc > 4 /\ pc' = pc + 1
  BY StepNumbers DEF BootInv, TablesInv, Registering, Step
<1>2. /\ handlers' = [handlers EXCEPT ![n] = h]
      /\ UNCHANGED <<gdt, idt, pic, pit, intr, frames>>
  BY DEF Registering, Register
<1>3. /\ handlers' \in [Vectors -> {"none", "timer", "page_fault", "keyboard"}]
      /\ handlers'[IRQ0] = "timer"
      /\ \A m \in Vectors : handlers'[m] = "timer" => m = IRQ0
  <2>1. /\ handlers \in [Vectors -> {"none", "timer", "page_fault", "keyboard"}]
        /\ handlers[IRQ0] = "timer"
        /\ \A m \in Vectors : handlers[m] = "timer" => m = IRQ0
    BY <1>1 DEF BootInv, TablesInv
  <2>2. IRQ0 \in Vectors /\ n # IRQ0
    BY VectorsAre
  <2>3. \A m \in Vectors : handlers'[m] = IF m = n THEN h ELSE handlers[m]
    BY <1>2, <2>1
  <2>4. handlers' \in [Vectors -> {"none", "timer", "page_fault", "keyboard"}]
    BY <1>2, <2>1
  <2>5. h # "timer"
    OBVIOUS
  <2>6. QED
    BY <2>1, <2>2, <2>3, <2>4, <2>5
<1>4. TablesInv'
  <2>1. /\ pc \in Nat /\ intr \in BOOLEAN /\ pic \in PicType
        /\ gdt = <<0, 154, 146, 250, 242>>
        /\ idt = [m \in Vectors |-> IdtEntry(Stub(m))]
        /\ pic["master"].offset = IRQ0 /\ pic["slave"].offset = IRQ8
        /\ pic["master"].mask = 0 /\ pic["slave"].mask = 0 /\ pit = <<169, 4>>
    BY <1>1 DEF BootInv, TablesInv
  <2>2. QED
    BY <1>1, <1>2, <1>3, <2>1 DEF TablesInv
<1>5. ServiceInv'
  BY <1>1, <1>2, ServiceKept DEF IsrKept
<1>6. QED
  BY <1>4, <1>5 DEF BootInv

LEMMA HaltStep == ASSUME BootInv, Halt PROVE BootInv'
<1>1. ~ intr' /\ intr' \in BOOLEAN /\ UNCHANGED <<gdt, idt, pic, pit, handlers, frames, pc>>
  BY DEF Halt
<1>2. SetUpKept /\ IsrKept
  BY <1>1 DEF BootInv, TablesInv, SetUpKept, IsrKept
<1>3. QED
  BY <1>1, <1>2, TablesKept, ServiceKept DEF BootInv

LEMMA RaiseStep ==
  ASSUME BootInv, NEW l \in Lines, Raise(l),
         UNCHANGED <<gdt, idt, pit, handlers, intr, frames, pc>>
  PROVE  BootInv'
<1>1. SetUpKept /\ IsrKept
  BY Raises DEF BootInv, TablesInv
<1>2. intr' \in BOOLEAN /\ (intr' => pc > 4)
  BY DEF BootInv, TablesInv
<1>3. QED
  BY <1>1, <1>2, TablesKept, ServiceKept DEF BootInv

\* An interrupt is delivered, of line l.
LEMMA DeliverStep == ASSUME BootInv, NEW l \in Lines, Deliver(l), pc' = pc PROVE BootInv'
<1>1. /\ intr /\ frames = <<>> /\ pc > 4
      /\ pic["master"].isr = {} /\ pic["slave"].isr = {}
  BY NoFrames DEF Deliver
<1>2. Vector(l) = IRQ0 + l /\ l \in 0 .. 15
  BY <1>1, Ready, LineAssumption DEF BootInv, ReadyForInterrupts
<1>3. frames' = <<FrameOf(IRQ0 + l, FALSE)>> /\ intr' = FALSE
  BY <1>1, <1>2, FirstFrame DEF Deliver
<1>4. /\ SetUpKept
      /\ \E k \in Nat : pic'["master"].isr \subseteq {k}
      /\ \E m \in Nat : pic'["slave"].isr \subseteq {m}
      /\ l < 8 => pic'["slave"].isr = {}
  BY <1>1, Acknowledges DEF BootInv, TablesInv, Deliver
<1>5. TablesInv'
  BY <1>1, <1>3, <1>4, TablesKept DEF BootInv, Deliver, tableVars
<1>6. FrameInv(IRQ0 + l, FALSE)'
  BY <1>1, <1>2, <1>3, <1>4 DEF FrameInv, IRQ0, IRQ8
<1>7. QED
  BY <1>5, <1>6, VectorsAre DEF BootInv, ServiceInv

LEMMA SpuriousStep ==
  ASSUME BootInv, NEW c \in Chips, DeliverSpurious(c), pc' = pc
  PROVE  BootInv'
<1>1. /\ intr /\ frames = <<>> /\ pc > 4
      /\ pic["master"].isr = {} /\ pic["slave"].isr = {}
  BY NoFrames DEF DeliverSpurious
<1>2. PICK n \in {IRQ0 + 7, IRQ0 + 15} : n = pic[c].offset + 7
  BY <1>1 DEF BootInv, TablesInv, Chips, IRQ0, IRQ8
<1>3. frames' = <<FrameOf(n, FALSE)>> /\ intr' = FALSE
  BY <1>1, <1>2, FirstFrame DEF DeliverSpurious
<1>4. /\ SetUpKept
      /\ pic'["master"].isr \subseteq {2} /\ pic'["slave"].isr = {}
  BY <1>1, Spuriously DEF BootInv, TablesInv, DeliverSpurious
<1>5. TablesInv'
  BY <1>1, <1>3, <1>4, TablesKept DEF BootInv, DeliverSpurious, tableVars
<1>6. FrameInv(n, FALSE)'
  BY <1>1, <1>2, <1>3, <1>4 DEF FrameInv, IRQ0, IRQ8
<1>7. n \in Vectors
  BY <1>2, VectorsAre
<1>8. QED
  BY <1>5, <1>6, <1>7 DEF BootInv, ServiceInv

LEMMA ExceptionStep ==
  ASSUME BootInv, NEW n \in Exceptions, frames = <<>>, Exception(n), pc' = pc
  PROVE  BootInv'
<1>1. n \in 0 .. 31 /\ n \in Vectors
  BY LineAssumption, VectorsAre
<1>2. frames' = <<FrameOf(n, FALSE)>> /\ intr' = FALSE
  BY FirstFrame DEF Exception
<1>3. SetUpKept
  BY DEF BootInv, TablesInv, Exception, SetUpKept
<1>4. TablesInv'
  BY <1>2, <1>3, TablesKept DEF BootInv, Exception, tableVars
<1>5. FrameInv(n, FALSE)'
  BY <1>1, <1>2 DEF FrameInv, IRQ0
<1>6. QED
  BY <1>1, <1>4, <1>5 DEF BootInv, ServiceInv

\* The frame irq_handler works on.
LEMMA HandledFrame ==
  ASSUME BootInv, frames # <<>>
  PROVE  \E n \in Vectors, d \in BOOLEAN :
           /\ FrameInv(n, d) /\ Top = FrameOf(n, d)
           /\ Top.vector = n /\ Top.done = d /\ IntNo(Top) = n
<1>1. PICK n \in Vectors, d \in BOOLEAN : FrameInv(n, d)
  BY DEF BootInv, ServiceInv
<1>2. Top = FrameOf(n, d)
  BY <1>1 DEF FrameInv, Top
<1>3. Registers(n)[10] = n
  BY InterruptNumber, VectorsAre
<1>4. Top.vector = n /\ Top.done = d /\ Top.regs = Registers(n)
  BY <1>2 DEF FrameOf
<1>5. QED
  BY <1>1, <1>2, <1>3, <1>4 DEF IntNo

LEMMA HandlerFrame ==
  ASSUME NEW n, NEW d \in BOOLEAN, FrameInv(n, d), IrqHandler
  PROVE  frames' = <<FrameOf(n, TRUE)>> /\ UNCHANGED intr
<1>1. frames' = [frames EXCEPT ![1].done = TRUE] /\ UNCHANGED intr
  BY DEF IrqHandler
<1>2. [FrameOf(n, d) EXCEPT !.done = TRUE] = FrameOf(n, TRUE)
  <2> DEFINE e == [FrameOf(n, d) EXCEPT !.done = TRUE]
             F == [vector : {n}, regs : {Registers(n)}, done : {TRUE, d}]
  <2>1. ASSUME NEW r \in F, r.done = TRUE PROVE r = FrameOf(n, TRUE)
    BY <2>1 DEF FrameOf
  <2>2. FrameOf(n, d) \in F
    BY DEF FrameOf
  <2>3. e \in F /\ e.done = TRUE
    BY <2>2
  <2>4. QED
    BY <2>1, <2>3
<1>3. frames' = <<[FrameOf(n, d) EXCEPT !.done = TRUE]>>
  <2>1. frames = <<FrameOf(n, d)>>
    BY DEF FrameInv
  <2>2. ASSUME NEW r, NEW fs, fs = <<r>>
        PROVE  [fs EXCEPT ![1].done = TRUE] = [fs EXCEPT ![1] = [r EXCEPT !.done = TRUE]]
    BY <2>2
  <2>3. ASSUME NEW r, NEW e PROVE [<<r>> EXCEPT ![1] = e] = <<e>>
    OBVIOUS
  <2>4. QED
    BY <1>1, <2>1, <2>2, <2>3
<1>4. QED
  BY <1>1, <1>2, <1>3

LEMMA IrqHandlerStep == ASSUME BootInv, IrqHandler, pc' = pc PROVE BootInv'
<1>1. PICK n \in Vectors, d \in BOOLEAN :
        /\ FrameInv(n, d) /\ Top = FrameOf(n, d)
        /\ Top.vector = n /\ Top.done = d /\ IntNo(Top) = n
  BY HandledFrame DEF IrqHandler, InIrq
<1>2. n \in Nat /\ n >= IRQ0 /\ ~ d /\ pc > 4
  BY <1>1, VectorsAre DEF IrqHandler, InIrq, FrameInv
<1>3. PICK k \in Nat, m \in Nat :
        /\ pic["master"].isr \subseteq {k} /\ pic["slave"].isr \subseteq {m}
        /\ n < IRQ8 => pic["slave"].isr = {}
  BY <1>1, <1>2 DEF FrameInv
<1>4. pic' = Eoi(pic, n)
  BY <1>1 DEF IrqHandler
<1>5. /\ pic' = [c \in Chips |-> [pic[c] EXCEPT !.isr = {}]] /\ pic' \in PicType
  BY <1>2, <1>3, <1>4, Resets DEF BootInv, TablesInv
<1>6. /\ SetUpKept
      /\ pic'["master"].isr = {} /\ pic'["slave"].isr = {}
  BY <1>5 DEF BootInv, TablesInv, PicType, PicState, Chips, SetUpKept
<1>7. frames' = <<FrameOf(n, TRUE)>> /\ UNCHANGED intr
  BY <1>1, HandlerFrame
<1>8. TablesInv'
  BY <1>2, <1>6, <1>7, TablesKept DEF BootInv, TablesInv, IrqHandler, tableVars
<1>9. FrameInv(n, TRUE)'
  BY <1>1, <1>2, <1>6, <1>7 DEF FrameInv, IRQ0
<1>10. QED
  BY <1>8, <1>9 DEF BootInv, ServiceInv

LEMMA IretStep == ASSUME BootInv, Iret, pc' = pc PROVE BootInv'
<1>1. PICK n \in Vectors, d \in BOOLEAN :
        /\ FrameInv(n, d) /\ Top = FrameOf(n, d)
        /\ Top.vector = n /\ Top.done = d /\ IntNo(Top) = n
  BY HandledFrame DEF Iret
<1>2. n \in Nat /\ d /\ n >= IRQ0 /\ pc > 4
  <2>1. Top.done /\ n \in Nat
    BY VectorsAre DEF Iret
  <2>2. d
    BY <1>1, <2>1
  <2>3. n >= IRQ0 => pc > 4
    BY <1>1 DEF FrameInv
  <2>4. n < IRQ0 => ~ d
    BY <1>1 DEF FrameInv
  <2>5. n >= IRQ0
    BY <2>1, <2>2, <2>4 DEF IRQ0
  <2>6. QED
    BY <2>1, <2>2, <2>3, <2>5
<1>3. frames' = <<>> /\ intr' = TRUE /\ UNCHANGED <<gdt, idt, pit, handlers, pic>>
  BY <1>1 DEF FrameInv, Iret, tableVars
<1>4. SetUpKept /\ pic'["master"].isr = {} /\ pic'["slave"].isr = {}
  BY <1>1, <1>2, <1>3 DEF FrameInv, BootInv, TablesInv, SetUpKept
<1>5. TablesInv'
  BY <1>2, <1>3, <1>4, TablesKept DEF BootInv
<1>6. ServiceInv'
  BY <1>3, <1>4 DEF ServiceInv
<1>7. QED
  BY <1>5, <1>6 DEF BootInv

LEMMA BootStep == BootInv /\ [Next]_vars => BootInv'
<1> SUFFICES ASSUME BootInv, [Next]_vars PROVE BootInv'
  OBVIOUS
<1>1. Idle \/ Changes
  BY Steps DEF BootInv, TablesInv
<1>2. CASE Registering("init_paging", 14, "page_fault")
  BY <1>2, RegisteringStep DEF IRQ0
<1>3. CASE Registering("init_ps2", IRQ1, "keyboard")
  BY <1>3, RegisteringStep DEF IRQ0, IRQ1
<1>4. CASE Tick
  BY <1>4, RaiseStep, LineAssumption DEF Tick
<1>5. ASSUME NEW l \in Lines \ {0}, RaiseLine(l) PROVE BootInv'
  BY <1>5, RaiseStep DEF RaiseLine
<1>6. CASE Handler
  BY <1>6, IrqHandlerStep, IretStep DEF Handler
<1>7. CASE Delivery
  BY <1>7, DeliverStep DEF Delivery
<1>8. ASSUME NEW c \in Chips, Spurious(c) PROVE BootInv'
  BY <1>8, SpuriousStep DEF Spurious
<1>9. ASSUME NEW n \in Exceptions, Fault(n) PROVE BootInv'
  BY <1>9, ExceptionStep DEF Fault, Thread
<1>10. QED
  BY <1>1, <1>2, <1>3, <1>4, <1>5, <1>6, <1>7, <1>8, <1>9, IdleStep, InitGdtStep,
     InitIdtStep, InitTimerStep, StiStep, HaltStep DEF Changes

LEMMA BootInvariant == Spec => []BootInv
  BY BootInit, BootStep, PTL DEF Spec

\* When kernel_main enables interrupts every line and exception has its gate, the
\* controllers are remapped and unmasked, and the timer has its handler and rate.
THEOREM KernelIsReady == Spec => []ReadyForInterrupts
<1>1. BootInv => ReadyForInterrupts
  BY Ready DEF BootInv
<1>2. QED
  BY <1>1, BootInvariant, PTL

\* irq_handler resets the right controllers: between interrupts none has one in
\* service, so none blocks the lines of lower priority.
THEOREM ControllersAreReset == Spec => []NothingInService
<1>1. BootInv => NothingInService
  BY DEF BootInv, ServiceInv, FrameInv, NothingInService
<1>2. QED
  BY <1>1, BootInvariant, PTL

-----------------------------------------------------------------------------
(***************************************************************************)
(* milli_uptime.                                                           *)
(***************************************************************************)

LEMMA Division ==
  ASSUME NEW M \in Nat \ {0}, NEW X \in Int
  PROVE  X = M * (X \div M) + (X % M) /\ X % M \in 0 .. M - 1 /\ X \div M \in Int
  OBVIOUS

LEMMA SameQuotient ==
  ASSUME NEW M \in Nat \ {0}, NEW q \in Int, NEW p \in Int,
         NEW r \in 0 .. M - 1, NEW s \in 0 .. M - 1, M * q + r = M * p + s
  PROVE  q = p
<1>1. M * (q - p) = s - r
  OBVIOUS
<1>2. CASE q > p
  <2>1. M * (q - p) >= M
    BY <1>2
  <2>2. QED
    BY <1>1, <2>1
<1>3. CASE p > q
  <2>1. M * (p - q) >= M
    BY <1>3
  <2>2. M * (q - p) = - (M * (p - q))
    OBVIOUS
  <2>3. QED
    BY <1>1, <2>1, <2>2
<1>4. QED
  BY <1>2, <1>3

LEMMA Remainder ==
  ASSUME NEW M \in Nat \ {0}, NEW q \in Int, NEW r \in 0 .. M - 1, NEW X \in Int,
         X = M * q + r
  PROVE  X % M = r
<1>1. X = M * (X \div M) + (X % M) /\ X % M \in 0 .. M - 1 /\ X \div M \in Int
  BY Division
<1>2. X \div M = q
  BY <1>1, SameQuotient
<1>3. QED
  BY <1>1, <1>2

\* A counter that wraps counts on.
LEMMA NextRemainder ==
  ASSUME NEW X \in Int, NEW M \in Nat \ {0}
  PROVE  ((X % M) + 1) % M = (X + 1) % M
<1> DEFINE q == X \div M
           r == X % M
<1>1. X = M * q + r /\ r \in 0 .. M - 1 /\ q \in Int
  BY Division
<1> HIDE DEF q, r
<1>2. CASE r + 1 < M
  <2>1. X + 1 = M * q + (r + 1) /\ r + 1 \in 0 .. M - 1
    BY <1>1, <1>2
  <2>2. (X + 1) % M = r + 1
    BY <1>1, <2>1, Remainder
  <2>3. r + 1 = M * 0 + (r + 1)
    BY <1>1
  <2>4. (r + 1) % M = r + 1
    BY <2>1, <2>3, Remainder
  <2>5. QED
    BY <2>2, <2>4 DEF r
<1>3. CASE r + 1 = M
  <2>1. X + 1 = M * (q + 1) + 0 /\ 0 \in 0 .. M - 1
    BY <1>1, <1>3
  <2>2. (X + 1) % M = 0
    BY <1>1, <2>1, Remainder
  <2>3. r + 1 = M * 1 + 0
    BY <1>1, <1>3
  <2>4. (r + 1) % M = 0
    BY <2>1, <2>3, Remainder
  <2>5. QED
    BY <2>2, <2>4 DEF r
<1>4. QED
  BY <1>1, <1>2, <1>3

\* Timer interrupts that are being handled and not counted yet.
TicksIn(fs) ==
  Cardinality({k \in DOMAIN fs : fs[k].vector = IRQ0 /\ ~ fs[k].done})

Waiting(p) == IF 0 \in p["master"].irr THEN 1 ELSE 0

LEMMA TicksInFrames ==
  /\ TicksIn(<<>>) = 0
  /\ \A n : \A d \in BOOLEAN :
       TicksIn(<<FrameOf(n, d)>>) = IF n = IRQ0 /\ ~ d THEN 1 ELSE 0
<1>1. TicksIn(<<>>) = 0
  <2>1. {k \in DOMAIN <<>> : <<>>[k].vector = IRQ0 /\ ~ <<>>[k].done} = {}
    OBVIOUS
  <2>2. QED
    BY <2>1, FS_EmptySet DEF TicksIn
<1>2. ASSUME NEW n, NEW d \in BOOLEAN
      PROVE  TicksIn(<<FrameOf(n, d)>>) = IF n = IRQ0 /\ ~ d THEN 1 ELSE 0
  <2> DEFINE fs == <<FrameOf(n, d)>>
             T  == {k \in DOMAIN fs : fs[k].vector = IRQ0 /\ ~ fs[k].done}
  <2>1. /\ DOMAIN fs = {1} /\ fs[1] = FrameOf(n, d)
        /\ FrameOf(n, d).vector = n /\ FrameOf(n, d).done = d
    BY DEF FrameOf
  <2> HIDE DEF fs
  <2>2. CASE n = IRQ0 /\ ~ d
    <3>1. T = {1}
      BY <2>1, <2>2
    <3>2. QED
      BY <2>2, <3>1, FS_Singleton DEF TicksIn, fs
  <2>3. CASE ~ (n = IRQ0 /\ ~ d)
    <3>1. T = {}
      BY <2>1, <2>3
    <3>2. QED
      BY <2>3, <3>1, FS_EmptySet DEF TicksIn, fs
  <2>4. QED
    BY <2>2, <2>3
<1>3. QED
  BY <1>1, <1>2

\* The ticks that milli_uptime should have counted.
Counted == ticks - lost - Waiting(pic) - TicksIn(frames)

TickInv ==
  /\ ticks \in Nat /\ lost \in Nat
  /\ milli_uptime = Counted % UptimeMod

LEMMA CountedIsInt ==
  ASSUME BootInv, TickInv
  PROVE  TicksIn(frames) \in {0, 1} /\ Waiting(pic) \in {0, 1} /\ Counted \in Int
<1>1. TicksIn(frames) \in {0, 1}
  BY TicksInFrames DEF BootInv, ServiceInv, FrameInv
<1>2. QED
  BY <1>1 DEF TickInv, Counted, Waiting

LEMMA DeliveredTick ==
  ASSUME BootInv, TickInv, NEW l \in Lines, Deliver(l), UNCHANGED <<ticks, lost>>
  PROVE  TickInv'
<1>1. /\ intr /\ frames = <<>> /\ pc > 4
      /\ pic["master"].isr = {} /\ pic["slave"].isr = {}
  BY NoFrames DEF Deliver
<1>2. Vector(l) = IRQ0 + l /\ l \in 0 .. 15
  BY <1>1, Ready, LineAssumption DEF BootInv, ReadyForInterrupts
<1>3. frames' = <<FrameOf(IRQ0 + l, FALSE)>>
  BY <1>1, <1>2, FirstFrame DEF Deliver
<1>4. 0 \in pic'["master"].irr <=> (l # 0 /\ 0 \in pic["master"].irr)
  BY <1>1, Acknowledges DEF BootInv, TablesInv, Deliver
<1>5. l = 0 => 0 \in pic["master"].irr
  BY DEF Deliver, Granted, Requests, Chip
<1>6. TicksIn(frames) = 0 /\ TicksIn(frames') = (IF l = 0 THEN 1 ELSE 0)
  <2>1. IRQ0 + l = IRQ0 <=> l = 0
    BY <1>2 DEF IRQ0
  <2>2. QED
    BY <1>1, <1>3, <2>1, TicksInFrames
<1>7. Waiting(pic') + TicksIn(frames') = Waiting(pic) + TicksIn(frames)
  BY <1>4, <1>5, <1>6 DEF Waiting
<1>8. /\ TicksIn(frames) \in Int /\ TicksIn(frames') \in Int
      /\ Waiting(pic) \in Int /\ Waiting(pic') \in Int
  BY <1>6 DEF Waiting
<1>9. Counted' = Counted
  BY <1>7, <1>8 DEF Counted, TickInv
<1>10. QED
  BY <1>9 DEF TickInv, Deliver

LEMMA HandledTick ==
  ASSUME BootInv, TickInv, IrqHandler, UNCHANGED <<ticks, lost, pc>>
  PROVE  TickInv'
<1>1. PICK n \in Vectors, d \in BOOLEAN :
        /\ FrameInv(n, d) /\ Top = FrameOf(n, d)
        /\ Top.vector = n /\ Top.done = d /\ IntNo(Top) = n
  BY HandledFrame DEF IrqHandler, InIrq
<1>2. n \in Nat /\ n >= IRQ0 /\ ~ d /\ pc > 4
  BY <1>1, VectorsAre DEF IrqHandler, InIrq, FrameInv
<1>3. PICK k \in Nat, m \in Nat :
        /\ pic["master"].isr \subseteq {k} /\ pic["slave"].isr \subseteq {m}
        /\ n < IRQ8 => pic["slave"].isr = {}
  BY <1>1, <1>2 DEF FrameInv
<1>4. pic' = [c \in Chips |-> [pic[c] EXCEPT !.isr = {}]]
  BY <1>1, <1>2, <1>3, Resets DEF BootInv, TablesInv, IrqHandler
<1>5. Waiting(pic') = Waiting(pic)
  <2>1. pic'["master"].irr = pic["master"].irr
    BY <1>4 DEF BootInv, TablesInv, PicType, PicState, Chips
  <2>2. QED
    BY <2>1 DEF Waiting
<1>6. frames' = <<FrameOf(n, TRUE)>>
  BY <1>1, <1>2, HandlerFrame
<1>7. TicksIn(frames) = (IF n = IRQ0 THEN 1 ELSE 0) /\ TicksIn(frames') = 0
  BY <1>1, <1>2, <1>6, TicksInFrames DEF FrameInv
<1>8. handlers[n] = "timer" <=> n = IRQ0
  BY <1>2 DEF BootInv, TablesInv
<1>9. milli_uptime' = IF n = IRQ0 THEN (milli_uptime + 1) % UptimeMod ELSE milli_uptime
  BY <1>1, <1>8 DEF IrqHandler
<1>10. Counted \in Int
  BY CountedIsInt
<1>11. Counted' = IF n = IRQ0 THEN Counted + 1 ELSE Counted
  <2>1. Waiting(pic) \in Int
    BY DEF Waiting
  <2>2. QED
    BY <1>5, <1>7, <2>1 DEF Counted, TickInv
<1>12. QED
  BY <1>9, <1>10, <1>11, NextRemainder, LineAssumption DEF TickInv

LEMMA TickStep == BootInv /\ TickInv /\ [Next]_vars => TickInv'
<1> SUFFICES ASSUME BootInv, TickInv, [Next]_vars PROVE TickInv'
  OBVIOUS
<1>1. ASSUME UNCHANGED <<ticks, lost, milli_uptime>>,
             Waiting(pic') = Waiting(pic), TicksIn(frames') = TicksIn(frames)
      PROVE  TickInv'
  BY <1>1 DEF TickInv, Counted
<1>2. Idle \/ Changes
  BY Steps DEF BootInv, TablesInv
<1>3. CASE Idle
  BY <1>1, <1>3 DEF Idle, intVars
<1>4. CASE Init1 \/ Init3
  BY <1>1, <1>4 DEF Init1, Init3, InitGdt, InitTimer, Quiet
<1>5. CASE Init2
  <2>1. pic' = [c \in Chips |-> Cleared(IF c = "master" THEN 32 ELSE 40, 0, 0)]
    BY <1>5, Remaps DEF BootInv, TablesInv, Init2, InitIdt
  <2>2. Waiting(pic') = 0
    BY <2>1 DEF Cleared, Chips, Waiting
  <2>3. UNCHANGED <<frames, milli_uptime, ticks>> /\ lost' = lost + Waiting(pic)
    BY <1>5 DEF Init2, InitIdt, Quiet, Waiting, TickInv
  <2>4. TicksIn(frames) \in {0, 1} /\ Waiting(pic) \in {0, 1}
    BY CountedIsInt
  <2>5. Counted' = Counted
    BY <2>2, <2>3, <2>4 DEF Counted, TickInv
  <2>6. QED
    BY <2>3, <2>4, <2>5 DEF TickInv
<1>6. CASE Sti
  BY <1>1, <1>6 DEF Sti, Quiet
<1>7. ASSUME NEW f, NEW n, NEW h, Registering(f, n, h) PROVE TickInv'
  BY <1>1, <1>7 DEF Registering, Quiet
<1>8. CASE Halt
  BY <1>1, <1>8 DEF Halt, history
<1>9. CASE Tick
  <2>1. /\ ticks' = ticks + 1 /\ lost' = lost + Waiting(pic)
        /\ UNCHANGED <<frames, milli_uptime>> /\ Raise(0)
    BY <1>9 DEF Tick, Waiting, TickInv
  <2>2. Waiting(pic') = 1
    BY <2>1, Raises, LineAssumption DEF BootInv, TablesInv, Waiting
  <2>3. TicksIn(frames) \in {0, 1} /\ Waiting(pic) \in {0, 1}
    BY CountedIsInt
  <2>4. Counted' = Counted
    BY <2>1, <2>2, <2>3 DEF Counted, TickInv
  <2>5. QED
    BY <2>1, <2>3, <2>4 DEF TickInv
<1>10. ASSUME NEW l \in Lines \ {0}, RaiseLine(l) PROVE TickInv'
  <2>1. Waiting(pic') = Waiting(pic)
    BY <1>10, Raises DEF BootInv, TablesInv, RaiseLine, Waiting
  <2>2. QED
    BY <1>1, <1>10, <2>1 DEF RaiseLine
<1>11. CASE Handler
  <2>1. UNCHANGED <<ticks, lost, pc>>
    BY <1>11 DEF Handler, history
  <2>2. CASE IrqHandler
    BY <2>1, <2>2, HandledTick
  <2>3. CASE Iret
    <3>1. PICK n \in Vectors, d \in BOOLEAN : FrameInv(n, d) /\ Top.done = d
      BY <2>3, HandledFrame DEF Iret
    <3>2. frames = <<FrameOf(n, TRUE)>> /\ frames' = <<>>
      <4>1. d = TRUE
        BY <2>3, <3>1, Zenon DEF Iret
      <4>2. frames = <<FrameOf(n, d)>> /\ frames' = Tail(frames)
        BY <2>3, <3>1 DEF FrameInv, Iret
      <4>3. Tail(<<FrameOf(n, d)>>) = <<>>
        OBVIOUS
      <4>4. QED
        BY <4>1, <4>2, <4>3, Zenon
    <3>3. TicksIn(frames) = 0 /\ TicksIn(frames') = 0
      BY <3>2, TicksInFrames
    <3>4. QED
      BY <1>1, <2>1, <2>3, <3>3 DEF Iret
  <2>4. QED
    BY <1>11, <2>2, <2>3 DEF Handler
<1>12. CASE Delivery
  BY <1>12, DeliveredTick DEF Delivery, history
<1>13. ASSUME NEW c \in Chips, Spurious(c) PROVE TickInv'
  <2>1. /\ intr /\ frames = <<>> /\ pc > 4
        /\ pic["master"].isr = {} /\ pic["slave"].isr = {}
    BY <1>13, NoFrames DEF Spurious, DeliverSpurious
  <2>2. pic[c].offset + 7 # IRQ0
    BY <2>1 DEF BootInv, TablesInv, Chips, IRQ0, IRQ8
  <2>3. frames' = <<FrameOf(pic[c].offset + 7, FALSE)>>
    BY <1>13, <2>1, FirstFrame DEF Spurious, DeliverSpurious
  <2>4. TicksIn(frames') = TicksIn(frames)
    BY <2>1, <2>2, <2>3, TicksInFrames
  <2>5. Waiting(pic') = Waiting(pic)
    BY <1>13, <2>1, Spuriously DEF BootInv, TablesInv, Spurious, DeliverSpurious, Waiting
  <2>6. QED
    BY <1>1, <1>13, <2>4, <2>5 DEF Spurious, DeliverSpurious
<1>14. ASSUME NEW n \in Exceptions, Fault(n) PROVE TickInv'
  <2>1. frames = <<>> /\ n # IRQ0
    BY <1>14, LineAssumption DEF Fault, Thread, IRQ0
  <2>2. frames' = <<FrameOf(n, FALSE)>>
    BY <1>14, <2>1, FirstFrame DEF Fault, Exception
  <2>3. TicksIn(frames') = TicksIn(frames)
    BY <2>1, <2>2, TicksInFrames
  <2>4. QED
    BY <1>1, <1>14, <2>3 DEF Fault, Exception, history
<1>15. QED
  BY <1>2, <1>3, <1>4, <1>5, <1>6, <1>7, <1>8, <1>9, <1>10, <1>11, <1>12, <1>13,
     <1>14 DEF Changes

\* Every tick of the timer is counted once by milli_uptime, but for the ones that
\* were lost at the controller and the one that is still on its way.
THEOREM EveryTickIsCounted == Spec => []TicksCounted
<1>1. Init => TickInv
  <2> SUFFICES ASSUME Init PROVE TickInv
    OBVIOUS
  <2>1. ticks = 0 /\ lost = 0 /\ frames = <<>> /\ milli_uptime = 0
    BY DEF Init, IntInit
  <2>2. Waiting(pic) = 0
    BY DEF Init, IntInit, Waiting
  <2>3. Counted = 0
    BY <2>1, <2>2, TicksInFrames DEF Counted
  <2>4. 0 % UptimeMod = 0
    BY LineAssumption
  <2>5. QED
    BY <2>1, <2>3, <2>4 DEF TickInv
<1>2. TickInv => TicksCounted
  BY DEF TickInv, TicksCounted, Counted, Waiting, TicksIn
<1>3. QED
  BY <1>1, <1>2, TickStep, BootInvariant, PTL DEF Spec

=============================================================================
