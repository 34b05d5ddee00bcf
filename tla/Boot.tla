-------------------------------- MODULE Boot --------------------------------
(***************************************************************************)
(* kernel_main of src/main.c: the parts of the kernel are initialised one  *)
(* after the other, with messages and the time in between, while devices   *)
(* interrupt (Interrupts) each step of each message (Printf).  A failed    *)
(* assertion or an exception ends in assert or panic of src/misc.          *)
(*                                                                         *)
(* What the parts do inside is in their own modules; here each is the      *)
(* interrupt handler it registers and what it prints.                      *)
(***************************************************************************)
EXTENDS Interrupts, Printf, FiniteSets

CONSTANTS
  ModuleCounts,  \* what the boot loader may pass as module_count
  FileCounts,    \* results of file_count
  DiskValues,    \* numbers read from the disk
  MaxTicks,      \* bound on timer ticks
  MaxSpurious    \* bound on spurious interrupts

VARIABLES
  pc,        \* the step of kernel_main
  stage,     \* "run"; "fault" and "dying" until a last message is out; "halted"
  ticks,     \* ticks of the timer so far
  lost,      \* those that found the one before still waiting, or were cleared
  raised,    \* other lines that have been raised
  spurious   \* spurious interrupts so far

history == <<ticks, lost, raised, spurious>>
vars    == <<intVars, printVars, pc, stage, history>>

-----------------------------------------------------------------------------

Call(f)       == [op |-> f, fmt |-> <<>>]
Message(f, m) == [op |-> f, fmt |-> m]
PrintTime     == Message("print_time", <<"[", "%l", "ms] ">>)

\* kernel_main; "drive" is the message of init_ata, and "lines" are those of
\* load_superblock and ext2_init_fs.
kernel_main ==
  <<Call("init_gdt"), Call("init_idt"), Call("init_timer"), Call("sti"),
    Call("modules"),
    PrintTime, Call("init_paging"),
    PrintTime, Message("file_count", <<"%u", " file(s)">>),
    PrintTime, Call("init_ps2"),
    PrintTime, Message("drive", <<"%d">>),
    PrintTime, Call("signature"), Call("lines"),
    Call("merged")>>

Op == IF pc <= Len(kernel_main) THEN kernel_main[pc].op ELSE "return"

\* The thread of kernel_main is running and has nothing left to print.
Thread == frames = <<>> /\ conv = "idle" /\ stage = "run"

Step(f) == Thread /\ Op = f /\ pc' = pc + 1 /\ UNCHANGED <<stage, raised, spurious>>

Quiet == UNCHANGED <<printVars, ticks>>

\* ICW1 of remap_irq clears the requests that wait.
Init1 == Step("init_gdt") /\ InitGdt /\ Quiet /\ UNCHANGED lost
Init2 == Step("init_idt") /\ InitIdt /\ Quiet
         /\ lost' = IF 0 \in pic["master"].irr THEN lost + 1 ELSE lost
Init3 == Step("init_timer") /\ InitTimer /\ Quiet /\ UNCHANGED lost

\* enable_interrupts
Sti ==
  /\ Step("sti") /\ intr' = TRUE
  /\ Quiet /\ UNCHANGED <<gdt, idt, pic, pit, handlers, milli_uptime, frames, lost>>

\* init_paging and init_ps2 register their handlers.
Registering(f, n, h) ==
  /\ Step(f) /\ Register(n, h)
  /\ Quiet /\ UNCHANGED <<gdt, idt, pic, pit, milli_uptime, intr, frames, lost>>

\* assert and panic print, with the line number (its last two digits here), and
\* stop for good.
Die(line) ==
  /\ stage' = "dying"
  /\ Printf(<<"%d", "message">>, <<line>>)

\* ASSERT in kernel_main or in what it calls
ASSERT(f, holds, line) ==
  /\ Thread /\ Op = f
  /\ IF holds THEN pc' = pc + 1 /\ UNCHANGED <<printVars, stage>>
              ELSE Die(line) /\ UNCHANGED pc
  /\ UNCHANGED <<intVars, history>>

\* An int of WordBits bits
Signed(n) == IF n < WordMod \div 2 THEN n ELSE n - WordMod

Prints(f, n) ==
  /\ Step(f)
  /\ Printf(kernel_main[pc].fmt, <<n>>)
  /\ UNCHANGED <<intVars, ticks, lost>>

\* One of the lines about the volume or the root directory; the number of lines
\* depends on the directory.
PrintLine(f, n) ==
  /\ Thread /\ Op = "lines"
  /\ Printf(<<f>>, <<n>>)
  /\ UNCHANGED <<intVars, pc, stage, history>>

\* Nothing, or no number, is printed: no drive was found, all lines are done.
Silently(f) == Step(f) /\ UNCHANGED <<intVars, printVars, ticks, lost>>

\* The thread of kernel_main.  Its assertions may hold or not: the first depends
\* on the boot loader, the second on the disk, and the third on the heap (Heap).
Main ==
  \/ Init1 \/ Init2 \/ Init3 \/ Sti
  \/ \E n \in ModuleCounts : ASSERT("modules", n > 0, 61)
  \/ Prints("print_time", milli_uptime)
  \/ Registering("init_paging", 14, "page_fault")
  \/ \E n \in FileCounts : Prints("file_count", n)
  \/ Registering("init_ps2", IRQ1, "keyboard")
  \/ \E n \in DiskValues : Prints("drive", Signed(n))
  \/ Silently("drive")
  \/ \E ok \in BOOLEAN : ASSERT("signature", ok, 97)
  \/ \E n \in DiskValues :
       PrintLine("%d", Signed(n)) \/ PrintLine("%X", n) \/ PrintLine("%b", n)
  \/ Silently("lines")
  \/ \E ok \in BOOLEAN : ASSERT("merged", ok, 86)

-----------------------------------------------------------------------------
(***************************************************************************)
(* Exceptions and the end.                                                 *)
(***************************************************************************)

\* The thread causes an exception, in anything but term_printf.
Fault(n) ==
  /\ Thread /\ Exception(n)
  /\ UNCHANGED <<printVars, pc, stage, history>>

\* isr_handler: a page fault is reported once paging is there; everything ends
\* in a panic.
IsrHandler ==
  /\ stage = "run" /\ frames # <<>> /\ ~ InIrq
  /\ IF handlers[IntNo(Top)] = "page_fault"
     THEN stage' = "fault" /\ Printf(<<"%p">>, <<WordMod - 1>>)
     ELSE Die(66)
  /\ UNCHANGED <<intVars, pc, history>>

\* The end of page_fault_handler.
FaultPanics ==
  /\ stage = "fault" /\ conv = "idle"
  /\ Die(68)
  /\ UNCHANGED <<intVars, pc, history>>

\* disable_interrupts and the endless loop of assert and panic.
Halt ==
  /\ stage = "dying" /\ conv = "idle"
  /\ ~ InIrq
  /\ stage' = "halted" /\ intr' = FALSE
  /\ UNCHANGED <<gdt, idt, pic, pit, handlers, milli_uptime, frames>>
  /\ UNCHANGED <<printVars, pc, history>>

-----------------------------------------------------------------------------

\* term_printf goes on, in the thread or in the panic of an exception.
Printing ==
  /\ ~ InIrq /\ (stage = "run" => frames = <<>>)
  /\ PrintStep
  /\ UNCHANGED <<intVars, pc, stage, history>>

Tick ==
  /\ ticks < MaxTicks
  /\ ticks' = ticks + 1
  /\ lost' = IF 0 \in pic["master"].irr THEN lost + 1 ELSE lost
  /\ Raise(0)
  /\ UNCHANGED <<gdt, idt, pit, handlers, milli_uptime, intr, frames>>
  /\ UNCHANGED <<printVars, pc, stage, raised, spurious>>

RaiseLine(l) ==
  /\ l \notin raised
  /\ Raise(l) /\ raised' = raised \cup {l}
  /\ UNCHANGED <<gdt, idt, pit, handlers, milli_uptime, intr, frames>>
  /\ UNCHANGED <<printVars, pc, stage, ticks, lost, spurious>>

Spurious(c) ==
  /\ spurious < MaxSpurious /\ spurious' = spurious + 1
  /\ DeliverSpurious(c)
  /\ UNCHANGED <<printVars, pc, stage, ticks, lost, raised>>

Handler ==
  /\ (IrqHandler \/ Iret)
  /\ UNCHANGED <<printVars, pc, stage, history>>

Delivery ==
  /\ \E l \in Lines : Deliver(l)
  /\ UNCHANGED <<printVars, pc, stage, history>>

Kernel == Main \/ IsrHandler \/ FaultPanics \/ Halt \/ Printing \/ Handler

Environment ==
  \/ Tick
  \/ \E l \in Lines \ {0} : RaiseLine(l)
  \/ \E c \in {"master", "slave"} : Spurious(c)
  \/ \E n \in Exceptions : Fault(n)

Init ==
  /\ IntInit /\ PrintInit
  /\ pc = 1 /\ stage = "run"
  /\ ticks = 0 /\ lost = 0 /\ raised = {} /\ spurious = 0

Next == Kernel \/ Delivery \/ Environment

\* The CPU executes the kernel and takes the interrupts it is offered; no
\* device need ever do anything.
Spec == Init /\ [][Next]_vars /\ WF_vars(Kernel) /\ WF_vars(Delivery)

-----------------------------------------------------------------------------
(***************************************************************************)
(* Properties.                                                             *)
(***************************************************************************)

\* kernel_main turns interrupts on only when every line and every exception
\* has a vector of its own with a gate to its stub, the timer has its handler
\* and its rate is 1 ms (within the rounding of the divisor).
ReadyForInterrupts ==
  intr =>
    /\ \A l \in Lines : Vector(l) = IRQ0 + l /\ GateWorks(Vector(l)) /\ ~ Masked(l)
    /\ \A n \in Exceptions : GateWorks(n)
    /\ handlers[IRQ0] = "timer"
    /\ (pit[1] + 256 * pit[2]) * 1000 \in 1193180 - 999 .. 1193180

\* Between interrupts neither controller has one in service: irq_handler resets
\* the right ones, after a spurious interrupt too.
NothingInService ==
  frames = <<>> => pic["master"].isr = {} /\ pic["slave"].isr = {}

\* milli_uptime counts each tick once, except those that were lost while another
\* one waited and the ones that still wait.
TicksCounted ==
  milli_uptime =
    (ticks - lost - (IF 0 \in pic["master"].irr THEN 1 ELSE 0)
                  - Cardinality({k \in DOMAIN frames :
                                   frames[k].vector = IRQ0 /\ ~ frames[k].done}))
    % UptimeMod

\* A message of term_printf is, however often it was interrupted, the one its
\* format and its numbers mean, if the numbers are not too long.
TextRight == Complete /\ WithinDigits => out = ExpectedOut

\* Whatever waits at the controllers reaches the CPU, unless the kernel stopped.
IrqServed ==
  \A l \in Lines : (l % 8 \in pic[Chip(l)].irr) ~>
                   (l % 8 \notin pic[Chip(l)].irr \/ stage # "run")

\* term_printf returns, for numbers that are not too long.
PrintReturns == (conv # "idle" /\ WithinDigits) ~> (conv = "idle")

=============================================================================
