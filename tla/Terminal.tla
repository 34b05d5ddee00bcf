------------------------------ MODULE Terminal ------------------------------
(***************************************************************************)
(* The screen and the keyboard: term_putchar and update_cursor of          *)
(* src/term/vga.c, run by the kernel's thread while it boots and by the    *)
(* keyboard handler of src/devices/ps2.c that interrupts it, with the      *)
(* dispatch of src/cpu_setup/interrupt.c and isrs.s between them.          *)
(*                                                                         *)
(* Both execute the same code on the same variables, so there is one set   *)
(* of actions and a stack of contexts: the thread, and above it the        *)
(* interrupt handler if it runs.  The handler runs with interrupts         *)
(* disabled.  A step is a load or a store of curr_x or curr_y, one row of  *)
(* the screen, or one outb; the compiler does not optimise, so every use   *)
(* of a variable loads it again.                                           *)
(*                                                                         *)
(* What a context still has to do is a sequence of characters and of the   *)
(* calls "cursor" (update_cursor), "sti" (enable_interrupts) and           *)
(* "init_ps2".  Colours are left out.                                      *)
(***************************************************************************)
EXTENDS Integers, Sequences

CONSTANTS
  Width,        \* VGA_WIDTH
  Height,       \* VGA_HEIGHT
  ByteMod,      \* 2^8, what a register of the CRTC holds
  BootText,     \* what the kernel's thread prints and calls, in order
  Keys,         \* scancodes the user causes
  MaxKeys,      \* bound on the number of scancodes
  Unspecified   \* characters in the memory around the tables of ps2.c

\* The last thing kernel_main prints is the end of a line.
ASSUME TerminalAssumption ==
  /\ Width \in Nat \ {0} /\ Height \in Nat \ {0} /\ ByteMod \in Nat \ {0}
  /\ MaxKeys \in Nat
  /\ Keys \subseteq [key : STRING, down : BOOLEAN] /\ Unspecified \subseteq STRING
  /\ BootText \in Seq(STRING)
  /\ BootText # <<>> => BootText[Len(BootText)] = "nl"

Shifts == {"lshift", "rshift"}

\* The scancodes: a key goes down or up.
Down(k) == [key |-> k, down |-> TRUE]
Up(k)   == [key |-> k, down |-> FALSE]

NoCode == [key |-> "none", down |-> FALSE]

VARIABLES
  curr_x, curr_y,
  screen,      \* the character of each cell of the screen
  stray,       \* a character was written outside of the screen
  index,       \* CRTC: the register that is selected
  cursor,      \* CRTC: the registers, "lsb" and "msb" of the cursor position
  stack,       \* the contexts, the running one last
  interrupts,  \* IF, outside of the handler
  handler,     \* handlers[IRQ1] is ps2_handler
  irq,         \* the PIC has an IRQ 1 for the CPU
  code,        \* the scancode in the keyboard controller
  held,        \* the shift keys the user holds down
  shift_down,
  typed,       \* number of scancodes so far
  sheet,       \* what the characters printed so far should show
  mixed,       \* a key was echoed while the thread was drawing
  torn         \* a key was echoed while the thread was sending the cursor

screenVars   == <<curr_x, curr_y, screen, stray>>
crtc         == <<index, cursor>>
keyboard     == <<irq, code, held, typed>>
handlerVars  == <<interrupts, handler, shift_down>>
history      == <<sheet, mixed, torn>>
vars == <<screenVars, crtc, stack, keyboard, handlerVars, history>>

Cells == 0 .. Width * Height - 1

\* A context: where it is, what it has to do (the item it is at first), and two
\* registers.
Context(todo) == [at |-> "ready", todo |-> todo, a |-> 0, b |-> 0]

Running == stack[Len(stack)]

At(loc) == Running.at = loc

\* The running context goes to loc, its registers being a and b.
GoWith(loc, a, b) ==
  stack' = [stack EXCEPT ![Len(stack)].at = loc,
                         ![Len(stack)].a = a, ![Len(stack)].b = b]

Go(loc) == GoWith(loc, Running.a, Running.b)

-----------------------------------------------------------------------------
(***************************************************************************)
(* What a terminal shows: the cells in reading order, a position in them,  *)
(* and the cells move up by a row when the position leaves them.           *)
(***************************************************************************)

Advanced(s) ==
  IF s.pos < Width * Height THEN s
  ELSE [cells |-> [i \in Cells |-> IF i + Width \in Cells THEN s.cells[i + Width]
                                   ELSE " "],
        pos   |-> s.pos - Width]

Typed(s, c) ==
  CASE c = "nl" -> Advanced([s EXCEPT !.pos = (@ \div Width + 1) * Width])
    [] c = "cr" -> [s EXCEPT !.pos = @ - (@ % Width)]
    [] c = "bs" -> [s EXCEPT !.pos = @ - 1]
    [] OTHER    -> Advanced([cells |-> [s.cells EXCEPT ![s.pos] = c],
                             pos   |-> s.pos + 1])

\* The running context is through with its first item, a character or a call.
Finish == stack' = [stack EXCEPT ![Len(stack)] = Context(Tail(@.todo))]

\* The character that is its first item is on the screen now.
Draw ==
  /\ sheet' = IF sheet.pos \in Cells THEN Typed(sheet, Head(Running.todo)) ELSE sheet
  /\ UNCHANGED <<mixed, torn>>

\* The locations inside update_cursor once it has loaded curr_y, and those where
\* the character the context is at is not drawn in part.
Sending == {"cur_x", "cur_lsb", "cur_lsb_data", "cur_msb", "cur_msb_data"}

Settled == {"ready", "cur_y"} \cup Sending

-----------------------------------------------------------------------------
(***************************************************************************)
(* term_putchar, term_scroll and update_cursor.                            *)
(***************************************************************************)

Item(c) ==
  /\ At("ready")
  /\ Running.todo # <<>>
  /\ Head(Running.todo) = c

\* case '\n': curr_x = 0
NewLine ==
  /\ Item("nl") \/ At("newline")
  /\ curr_x' = 0
  /\ Go("nl_load")
  /\ UNCHANGED <<curr_y, screen, stray, crtc, keyboard, handlerVars, history>>

NewLineLoad ==
  /\ At("nl_load")
  /\ GoWith("nl_store", curr_y, Running.b)
  /\ UNCHANGED <<screenVars, crtc, keyboard, handlerVars, history>>

NewLineStore ==
  /\ At("nl_store")
  /\ curr_y' = Running.a + 1
  /\ Go("nl_test")
  /\ UNCHANGED <<curr_x, screen, stray, crtc, keyboard, handlerVars, history>>

\* Fault: the last row is taken to be full one row late.
AtBottomLate == curr_y = Height + 1

\* ++curr_y == VGA_HEIGHT, curr_y being loaded again.
AtBottom == curr_y = Height

NewLineTest ==
  /\ At("nl_test")
  /\ \/ AtBottom /\ GoWith("scroll", 0, 0) /\ UNCHANGED history
     \/ ~ AtBottom /\ Go("cur_y") /\ Draw
  /\ UNCHANGED <<screenVars, crtc, keyboard, handlerVars>>

\* Row y of the screen becomes row y + 1, the last one becomes blank.
RowUp(y) == [i \in Cells |->
  IF i \div Width # y THEN screen[i]
  ELSE IF y = Height - 1 THEN " " ELSE screen[i + Width]]

ScrollRow ==
  /\ At("scroll")
  /\ screen' = RowUp(Running.a)
  /\ IF Running.a < Height - 1 THEN GoWith("scroll", Running.a + 1, 0)
                               ELSE Go("scroll_x")
  /\ UNCHANGED <<curr_x, curr_y, stray, crtc, keyboard, handlerVars, history>>

ScrollX ==
  /\ At("scroll_x")
  /\ curr_x' = 0
  /\ Go("scroll_y")
  /\ UNCHANGED <<curr_y, screen, stray, crtc, keyboard, handlerVars, history>>

ScrollY ==
  /\ At("scroll_y")
  /\ curr_y' = Height - 1
  /\ Go("cur_y")
  /\ Draw
  /\ UNCHANGED <<curr_x, screen, stray, crtc, keyboard, handlerVars>>

\* update_cursor: pos is calculated from two loads, and sent as two bytes, each
\* after the number of its register.
CursorLoadY ==
  /\ Item("cursor") \/ At("cur_y")
  /\ GoWith("cur_x", curr_y, Running.b)
  /\ torn' = (Len(stack) = 2 /\ stack[1].at \in Sending)
  /\ UNCHANGED <<screenVars, crtc, keyboard, handlerVars, sheet, mixed>>

CursorLoadX ==
  /\ At("cur_x")
  /\ GoWith("cur_lsb", Running.a * Width + curr_x, Running.b)
  /\ UNCHANGED <<screenVars, crtc, keyboard, handlerVars, history>>

SelectLsb ==
  /\ At("cur_lsb")
  /\ index' = "lsb"
  /\ Go("cur_lsb_data")
  /\ UNCHANGED <<screenVars, cursor, keyboard, handlerVars, history>>

SendLsb ==
  /\ At("cur_lsb_data")
  /\ cursor' = [cursor EXCEPT ![index] = Running.a % ByteMod]
  /\ Go("cur_msb")
  /\ UNCHANGED <<screenVars, index, keyboard, handlerVars, history>>

SelectMsb ==
  /\ At("cur_msb")
  /\ index' = "msb"
  /\ Go("cur_msb_data")
  /\ UNCHANGED <<screenVars, cursor, keyboard, handlerVars, history>>

SendMsb ==
  /\ At("cur_msb_data")
  /\ cursor' = [cursor EXCEPT ![index] = (Running.a \div ByteMod) % ByteMod]
  /\ Finish
  /\ UNCHANGED <<screenVars, index, keyboard, handlerVars, history>>

\* case '\r'
CarriageReturn ==
  /\ Item("cr")
  /\ curr_x' = 0
  /\ Finish
  /\ Draw
  /\ UNCHANGED <<curr_y, screen, stray, crtc, keyboard, handlerVars>>

\* The column and the row one to the left, at the end of the row above if the
\* cursor is at the start of one.
Back == IF curr_x = 0 THEN <<Width - 1, curr_y - 1>> ELSE <<curr_x - 1, curr_y>>

\* case '\b': only the handler prints it, so it is not interrupted.
Backspace ==
  /\ Item("bs")
  /\ curr_x' = Back[1] /\ curr_y' = Back[2]
  /\ Finish
  /\ Draw
  /\ UNCHANGED <<screen, stray, crtc, keyboard, handlerVars>>

Printable(c) == c \notin {"nl", "cr", "bs", "cursor", "sti", "init_ps2"}

\* The arguments of term_put_entry are loaded, the last one first.
PutLoadY ==
  /\ At("ready") /\ Running.todo # <<>> /\ Printable(Head(Running.todo))
  /\ GoWith("put_x", curr_y, Running.b)
  /\ UNCHANGED <<screenVars, crtc, keyboard, handlerVars, history>>

PutLoadX ==
  /\ At("put_x")
  /\ GoWith("put", Running.a, curr_x)
  /\ UNCHANGED <<screenVars, crtc, keyboard, handlerVars, history>>

PutEntry ==
  LET cell == Running.a * Width + Running.b IN
  /\ At("put")
  /\ \/ /\ cell \in Cells
        /\ screen' = [screen EXCEPT ![cell] = Head(Running.todo)]
        /\ UNCHANGED stray
     \/ /\ cell \notin Cells
        /\ stray' = TRUE
        /\ UNCHANGED screen
  /\ Go("x_load")
  /\ UNCHANGED <<curr_x, curr_y, crtc, keyboard, handlerVars, history>>

\* ++curr_x == VGA_WIDTH
IncLoad ==
  /\ At("x_load")
  /\ GoWith("x_store", curr_x, Running.b)
  /\ UNCHANGED <<screenVars, crtc, keyboard, handlerVars, history>>

IncStore ==
  /\ At("x_store")
  /\ curr_x' = Running.a + 1
  /\ Go("x_test")
  /\ UNCHANGED <<curr_y, screen, stray, crtc, keyboard, handlerVars, history>>

IncTest ==
  /\ At("x_test")
  /\ \/ curr_x = Width /\ Go("newline") /\ UNCHANGED history
     \/ curr_x # Width /\ Finish /\ Draw
  /\ UNCHANGED <<screenVars, crtc, keyboard, handlerVars>>

PutChar ==
  \/ NewLine \/ NewLineLoad \/ NewLineStore \/ NewLineTest
  \/ ScrollRow \/ ScrollX \/ ScrollY
  \/ CursorLoadY \/ CursorLoadX \/ SelectLsb \/ SendLsb \/ SelectMsb \/ SendMsb
  \/ CarriageReturn \/ Backspace
  \/ PutLoadY \/ PutLoadX \/ PutEntry \/ IncLoad \/ IncStore \/ IncTest

-----------------------------------------------------------------------------
(***************************************************************************)
(* The thread's other calls, the keyboard and its interrupt.               *)
(***************************************************************************)

EnableInterrupts ==
  /\ Item("sti")
  /\ interrupts' = TRUE
  /\ Finish
  /\ UNCHANGED <<screenVars, crtc, keyboard, handler, shift_down, history>>

\* init_ps2: register_interrupt_handler(IRQ1, ps2_handler)
InitPs2 ==
  /\ Item("init_ps2")
  /\ handler' = TRUE
  /\ Finish
  /\ UNCHANGED <<screenVars, crtc, keyboard, interrupts, shift_down, history>>

\* kernel_main has returned to the endless loop of boot.s.
Booted == stack[1].at = "ready" /\ stack[1].todo = <<>>

\* The user pushes or releases a key, at any time.  The controller has room for one scancode
\* and raises IRQ 1 for it.
Key ==
  /\ typed < MaxKeys /\ code = NoCode
  /\ \E k \in Keys :
       /\ k.key \in Shifts => k.down = (k.key \notin held)
       /\ code' = k
       /\ held' = IF k.key \notin Shifts THEN held
                  ELSE IF k.down THEN held \cup {k.key} ELSE held \ {k.key}
  /\ irq' = TRUE
  /\ typed' = typed + 1
  /\ UNCHANGED <<screenVars, crtc, stack, handlerVars, history>>

\* SCANCODE_SET1 and UPPERCASE_SYMBOLS, for a letter, a digit and a key whose
\* character lies before the first symbol of the table.
GetChar(k) == k

Capitalize(c) == CASE c = "a" -> {"A"} [] c = "1" -> {"!"} [] OTHER -> Unspecified

\* Fault: the cursor is not updated after a backspace.
EchoNoCursor(s) ==
  IF ~ s.down \/ s.key \in Shifts THEN {<<>>}
  ELSE CASE s.key = "enter" -> {<<"nl">>}
         [] s.key = "backspace" -> {<<"bs", " ", "bs">>}
         [] OTHER -> {<<GetChar(s.key), "cursor">>}

\* What ps2_handler prints for a scancode: nothing for a release.
Echo(s) ==
  IF ~ s.down \/ s.key \in Shifts THEN {<<>>}
  ELSE CASE s.key = "enter" -> {<<"nl">>}
         [] s.key = "backspace" -> {<<"bs", " ", "bs", "cursor">>}
         [] OTHER -> {<<c, "cursor">> :
                        c \in IF shift_down THEN Capitalize(GetChar(s.key))
                                            ELSE {GetChar(s.key)}}

\* Fault: only the release of the left shift key is recognised.
ShiftStuck(s) == IF s.key = "lshift" THEN s.down
                 ELSE shift_down \/ s = Down("rshift")

\* shift_down after a scancode.
ShiftAfter(s) == IF s.key \in Shifts THEN s.down ELSE shift_down

\* Fault: the scancode is not read from the controller.
CodeKept == code

CodeRead == NoCode

\* The CPU takes an interrupt before the next instruction.
Pending == irq /\ interrupts /\ Len(stack) = 1

\* IRQ 1 is taken: irq_handler acknowledges it and calls ps2_handler, which
\* reads the scancode and has something to print, or nothing.
Interrupt ==
  /\ Pending
  /\ irq' = FALSE
  /\ \/ /\ handler
        /\ code' = CodeRead
        /\ shift_down' = ShiftAfter(code)
        /\ \E todo \in Echo(code) :
             /\ stack' = Append(stack, Context(todo))
             /\ mixed' = (mixed \/ (todo # <<>> /\ stack[1].at \notin Settled))
             /\ torn' = (torn \/ (todo # <<>> /\ stack[1].at \in Sending))
     \/ /\ ~ handler
        /\ UNCHANGED <<code, shift_down, stack, mixed, torn>>
  /\ UNCHANGED <<screenVars, crtc, held, typed, interrupts, handler, sheet>>

\* iret
InterruptReturn ==
  /\ Len(stack) = 2 /\ At("ready") /\ Running.todo = <<>>
  /\ stack' = SubSeq(stack, 1, 1)
  /\ UNCHANGED <<screenVars, crtc, keyboard, handlerVars, history>>

\* The thread spins in the loop of boot.s.
Spin == Booted /\ Len(stack) = 1 /\ ~ irq /\ UNCHANGED vars

Init ==
  /\ curr_x = 0 /\ curr_y = 0
  /\ screen = [i \in Cells |-> " "]    \* init_term
  /\ stray = FALSE
  /\ index = "lsb" /\ cursor = [r \in {"lsb", "msb"} |-> 0]
  /\ stack = <<Context(BootText)>>
  /\ interrupts = FALSE /\ handler = FALSE
  /\ irq = FALSE /\ code = NoCode /\ held = {} /\ typed = 0
  /\ shift_down = FALSE
  /\ sheet = [cells |-> screen, pos |-> 0] /\ mixed = FALSE /\ torn = FALSE

Step ==
  /\ ~ Pending
  /\ PutChar \/ EnableInterrupts \/ InitPs2 \/ InterruptReturn

Next == Step \/ Key \/ Interrupt \/ Spin

\* The CPU executes, and takes an interrupt that is pending.
Fairness == WF_vars(Step) /\ WF_vars(Interrupt)

Spec == Init /\ [][Next]_vars /\ Fairness

-----------------------------------------------------------------------------
(***************************************************************************)
(* Properties.                                                             *)
(***************************************************************************)

\* No character is drawn in part.
Quiet == \A k \in DOMAIN stack : stack[k].at \in Settled

\* The screen shows what was printed and typed: in reading order, wrapped at
\* the width, with the oldest rows gone, and curr_x and curr_y behind it; and
\* nothing was written to memory beyond the screen's.  A key may be echoed
\* between any two characters the thread prints and while the thread is in
\* update_cursor.  Nothing is promised once a key was echoed while the thread
\* was drawing a character, nor after a backspace at the first cell.
ScreenShowsText ==
  Quiet /\ ~ mixed /\ sheet.pos \in Cells =>
    /\ screen = sheet.cells
    /\ curr_y * Width + curr_x = sheet.pos
    /\ ~ stray

\* When the kernel is idle the cursor of the screen is where the next character
\* goes, to the 16 bits of pos: the end of a line and every path through the
\* handler update it, wherever the handler interrupted the thread.  The exception
\* is a key echoed between the thread's own outb calls, up to the next update.
CursorShown ==
  Booted /\ Len(stack) = 1 /\ ~ torn =>
    cursor["msb"] * ByteMod + cursor["lsb"]
      = (curr_y * Width + curr_x) % (ByteMod * ByteMod)

\* A scancode that finds ps2_handler registered is read, at whatever instruction
\* of term_putchar or update_cursor it interrupts the thread, and so the next one
\* can arrive.
KeysRead == (irq /\ handler) ~> code = NoCode

\* Shift does not stick: when the user holds neither shift key and every
\* scancode is read, letters are small again, in whatever order the two keys were
\* pushed and released.
ShiftReleased == held = {} /\ code = NoCode => ~ shift_down

=============================================================================
