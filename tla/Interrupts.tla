----------------------------- MODULE Interrupts -----------------------------
(***************************************************************************)
(* Interrupts: the descriptor tables of src/cpu_setup/gdt.c and idt.c, the *)
(* stubs of isrs.s, the dispatch of interrupt.c and the timer of           *)
(* src/devices/timer.c, on two cascaded interrupt controllers (8259).      *)
(*                                                                         *)
(* Vectors, port values and addresses are those of the code.  The CPU, the *)
(* controllers and the interval timer are external.                        *)
(***************************************************************************)
EXTENDS Integers, Sequences

CONSTANTS
  Lines,       \* interrupt lines of devices, from 0 .. 15; 0 is the timer
  Exceptions,  \* vectors the CPU raises itself
  BiosMasks,   \* interrupt masks the firmware may leave behind
  UptimeMod    \* 2^32, what milli_uptime wraps at

ASSUME LineAssumption ==
  /\ Lines \subseteq 0 .. 15 /\ {0, 1} \subseteq Lines /\ Exceptions \subseteq 0 .. 31
  /\ BiosMasks \subseteq 0 .. 255
  /\ UptimeMod \in Nat \ {0}

IRQ0 == 32
IRQ1 == 33
IRQ8 == 40

\* The entries of the tables that are looked at, of 48: the other ones are like
\* these.
Vectors == Exceptions \cup {IRQ0 + l : l \in Lines \cup {7, 15}}

VARIABLES
  gdt,           \* access bytes of the segments, empty before init_gdt
  idt,           \* the table flush_idt loaded, empty before
  pic,           \* the interrupt controllers
  pit,           \* bytes of the timer's reload register, low one first
  handlers,      \* handlers
  milli_uptime,  \* milli_uptime
  intr,          \* the interrupt flag
  frames         \* interrupts being handled, the innermost first

tableVars == <<gdt, idt, pit, handlers>>
intVars   == <<gdt, idt, pic, pit, handlers, milli_uptime, intr, frames>>

-----------------------------------------------------------------------------
(***************************************************************************)
(* The controllers.                                                        *)
(***************************************************************************)

Chip(l) == IF l < 8 THEN "master" ELSE "slave"

\* In fixed priority mode the lines of the slave come in at line 2.
Rank(l) == IF l < 8 THEN 8 * l ELSE 16 + (l - 8)

Lowest(S) == {n \in S : \A m \in S : n <= m}

\* A write to one of the four ports: 0x11 to the command port begins the
\* initialisation, which takes three words from the data port; 0x20 ends the
\* interrupt of the highest priority in service.
Written(c, port, value) ==
  CASE port = "cmd" /\ value = 17 -> [c EXCEPT !.icw = 2, !.irr = {}, !.isr = {}]
    [] port = "cmd" /\ value = 32 -> [c EXCEPT !.isr = @ \ Lowest(@)]
    [] port = "data" /\ c.icw = 2 -> [c EXCEPT !.offset = value, !.icw = 3]
    [] port = "data" /\ c.icw = 3 -> [c EXCEPT !.icw = 4]
    [] port = "data" /\ c.icw = 4 -> [c EXCEPT !.icw = 0]
    [] port = "data" /\ c.icw = 0 -> [c EXCEPT !.mask = value]

\* The controllers p after the kernel's outb to a port of c.
outb(p, c, port, value) == [p EXCEPT ![c] = Written(@, port, value)]

Masked(l) == (pic[Chip(l)].mask \div 2 ^ (l % 8)) % 2 = 1

Requests == {l \in Lines : l % 8 \in pic[Chip(l)].irr /\ ~ Masked(l)}

Vector(l) == pic[Chip(l)].offset + (l % 8)

\* The controllers have a request for the CPU: none of higher priority waits
\* or is in service.
Granted(l) ==
  /\ l \in Requests
  /\ \A k \in Requests : Rank(l) <= Rank(k)
  /\ \A k \in pic[Chip(l)].isr : k > l % 8
  /\ \A k \in pic["master"].isr : k > (IF l < 8 THEN l ELSE 2)

\* A device raises its line; an edge on a line already requested is lost.
Raise(l) == pic' = [pic EXCEPT ![Chip(l)].irr = @ \cup {l % 8}]

\* The CPU acknowledges the request.
Acknowledged(l) ==
  LET p == [pic EXCEPT ![Chip(l)].irr = @ \ {l % 8},
                       ![Chip(l)].isr = @ \cup {l % 8}]
  IN  IF l < 8 THEN p ELSE [p EXCEPT !["master"].isr = @ \cup {2}]

-----------------------------------------------------------------------------
(***************************************************************************)
(* The tables.                                                             *)
(***************************************************************************)

\* init_gdt: null, code and data segments.
InitGdt ==
  /\ gdt' = <<0, 154, 146, 250, 242>>
  /\ UNCHANGED <<idt, pic, pit, handlers, milli_uptime, intr, frames>>

IsCode(access) == access >= 128 /\ (access \div 8) % 2 = 1

\* The same port of the master and then of the slave.
OutbBoth(p, port, m, s) == outb(outb(p, "master", port, m), "slave", port, s)

\* remap_irq
remap_irq(p) ==
  LET icw1 == OutbBoth(p, "cmd", 17, 17)
      icw2 == OutbBoth(icw1, "data", 32, 40)
      icw3 == OutbBoth(icw2, "data", 4, 2)
      icw4 == OutbBoth(icw3, "data", 1, 1)
  IN  OutbBoth(icw4, "data", 0, 0)

\* Where the linker puts stub n.
Stub(n) == 1048576 + 4096 * n

\* Fault: the upper half of the address is lost.
IdtEntryNear(base) ==
  [base_low |-> base % 65536, base_high |-> 0, selector |-> 8, flags |-> 142]

\* set_idt_entry
IdtEntry(base) ==
  [base_low |-> base % 65536, base_high |-> base \div 65536,
   selector |-> 8, flags |-> 142]

\* init_idt: interrupt gates for the exceptions and the remapped lines.
InitIdt ==
  /\ pic' = remap_irq(pic)
  /\ idt' = [n \in Vectors |-> IdtEntry(Stub(n))]
  /\ UNCHANGED <<gdt, pit, handlers, milli_uptime, intr, frames>>

\* Vector n leads, with interrupts off, to stub n.
GateWorks(n) ==
  /\ n \in DOMAIN idt
  /\ LET g == idt[n] IN
     /\ g.base_low + 65536 * g.base_high = Stub(n)
     /\ g.flags = 142
     /\ g.selector \div 8 + 1 \in DOMAIN gdt
     /\ IsCode(gdt[g.selector \div 8 + 1])

\* register_interrupt_handler
Register(n, h) == handlers' = [handlers EXCEPT ![n] = h]

\* Fault: the handler is registered for the keyboard's line.
InitTimerNext ==
  /\ Register(IRQ1, "timer")
  /\ pit' = <<169, 4>>
  /\ UNCHANGED <<gdt, idt, pic, milli_uptime, intr, frames>>

\* init_timer: 1193180 Hz divided down to 1000 Hz.
InitTimer ==
  /\ Register(IRQ0, "timer")
  /\ LET divisor == (1193180 \div 1000) % 65536
     IN  pit' = <<divisor % 256, divisor \div 256>>
  /\ UNCHANGED <<gdt, idt, pic, milli_uptime, intr, frames>>

-----------------------------------------------------------------------------
(***************************************************************************)
(* An interrupt.                                                           *)
(***************************************************************************)

\* The exceptions for which the CPU pushes an error code.
ErrorCode == {8} \cup 10 .. 14

\* What stub n pushes, top first: ISR_ERR, ISR_NO_ERR and IRQ.
StubPushes(n) == IF n \in {8} \cup 10 .. 14 THEN <<n>> ELSE <<n, 0>>

\* The stack when the C function is called: struct Registers, as isr_common and
\* irq_common complete what the CPU and the stub pushed.
Registers(n) ==
  <<"ds", "edi", "esi", "ebp", "esp", "ebx", "edx", "ecx", "eax">>
  \o StubPushes(n)
  \o (IF n \in ErrorCode THEN <<"error">> ELSE <<>>)
  \o <<"eip", "cs", "eflags">>

\* regs.int_no
IntNo(f) == f.regs[10]

\* The CPU goes to vector n.
Interrupt(n) ==
  /\ frames' = <<[vector |-> n, regs |-> Registers(n), done |-> FALSE]>> \o frames
  /\ intr' = FALSE

Deliver(l) ==
  /\ intr /\ Granted(l) /\ GateWorks(Vector(l))
  /\ pic' = Acknowledged(l)
  /\ Interrupt(Vector(l))
  /\ UNCHANGED <<tableVars, milli_uptime>>

\* A request that is gone when the CPU acknowledges it: line 7 of the chip is
\* reported and no bit is set in its service register.
DeliverSpurious(c) ==
  /\ intr /\ frames = <<>>
  /\ GateWorks(pic[c].offset + 7)
  /\ pic' = IF c = "master" THEN pic
            ELSE [pic EXCEPT !["master"].isr = @ \cup {2}]
  /\ Interrupt(pic[c].offset + 7)
  /\ UNCHANGED <<tableVars, milli_uptime>>

Exception(n) ==
  /\ GateWorks(n)
  /\ Interrupt(n)
  /\ UNCHANGED <<tableVars, pic, milli_uptime>>

\* Fault: only the controller of the line is told that the interrupt is over.
EoiOne(p, n) == outb(p, IF n >= IRQ8 THEN "slave" ELSE "master", "cmd", 32)

\* The resets irq_handler sends.
Eoi(p, n) ==
  outb(IF n >= IRQ8 THEN outb(p, "slave", "cmd", 32) ELSE p, "master", "cmd", 32)

Top == Head(frames)

\* irq_common is being executed.
InIrq == frames # <<>> /\ Top.vector >= IRQ0

\* irq_handler with the handler it calls.
IrqHandler ==
  /\ InIrq /\ ~ Top.done
  /\ pic' = Eoi(pic, IntNo(Top))
  /\ milli_uptime' = IF handlers[IntNo(Top)] = "timer"
                     THEN (milli_uptime + 1) % UptimeMod ELSE milli_uptime
  /\ frames' = [frames EXCEPT ![1].done = TRUE]
  /\ UNCHANGED <<tableVars, intr>>

\* "sti; iret": the stub pops its two words, iret what the CPU pushed.
Iret ==
  /\ frames # <<>> /\ Top.done
  /\ SubSeq(Top.regs, 12, Len(Top.regs)) = <<"eip", "cs", "eflags">>
  /\ frames' = Tail(frames) /\ intr' = TRUE
  /\ UNCHANGED <<tableVars, pic, milli_uptime>>

IntInit ==
  /\ gdt = <<>> /\ idt = <<>> /\ pit = <<0, 0>>
  /\ \E m \in BiosMasks :
       pic = [c \in {"master", "slave"} |->
                [offset |-> IF c = "master" THEN 8 ELSE 112, icw |-> 0,
                 mask |-> m, irr |-> {}, isr |-> {}]]
  /\ handlers = [n \in Vectors |-> "none"]
  /\ milli_uptime = 0 /\ intr = FALSE /\ frames = <<>>

=============================================================================
