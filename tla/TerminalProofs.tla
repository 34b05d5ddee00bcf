--------------------------- MODULE TerminalProofs ---------------------------
(***************************************************************************)
(* The shift keys do not stick, for every text printed meanwhile, every    *)
(* set of keys and every moment at which they are pushed and released.     *)
(* The screen shows what was printed and typed, and the cursor is where    *)
(* the next character goes, for every text, every size of the screen,      *)
(* every sequence of keys and every moment at which they interrupt the     *)
(* thread.                                                                 *)
(***************************************************************************)
EXTENDS Terminal, TLAPS

\* shift_down is what the last scancode of a shift key that was read said.  While
\* one waits to be read shift_down is behind, and the key is held if it was pushed.
ShiftInv ==
  /\ code.key \notin Shifts => (shift_down => held # {})
  /\ code.key \in Shifts /\ code.down => code.key \in held

LEMMA ShiftInit == Init => ShiftInv
<1> SUFFICES ASSUME Init PROVE ShiftInv
  OBVIOUS
<1>1. code = NoCode /\ shift_down = FALSE
  BY DEF Init
<1>2. NoCode.key \notin Shifts
  BY DEF NoCode, Shifts
<1>3. QED
  BY <1>1, <1>2, Zenon DEF ShiftInv

LEMMA KeyStep == ASSUME ShiftInv, Key PROVE ShiftInv'
<1>1. code.key \notin Shifts /\ UNCHANGED shift_down
  BY DEF Key, NoCode, Shifts, handlerVars
<1>2. PICK k \in Keys :
        /\ code' = k
        /\ held' = IF k.key \notin Shifts THEN held
                   ELSE IF k.down THEN held \cup {k.key} ELSE held \ {k.key}
  BY DEF Key
<1>3. CASE k.key \in Shifts
  BY <1>2, <1>3 DEF ShiftInv
<1>4. CASE k.key \notin Shifts
  BY <1>1, <1>2, <1>4 DEF ShiftInv
<1>5. QED
  BY <1>3, <1>4

LEMMA InterruptStep == ASSUME ShiftInv, Interrupt PROVE ShiftInv'
<1>1. CASE handler
  <2>1. code' = NoCode /\ shift_down' = ShiftAfter(code) /\ UNCHANGED held
    BY <1>1 DEF Interrupt, CodeRead
  <2>2. NoCode.key \notin Shifts
    BY DEF NoCode, Shifts
  <2>3. CASE code.key \in Shifts
    BY <2>1, <2>2, <2>3 DEF ShiftInv, ShiftAfter
  <2>4. CASE code.key \notin Shifts
    BY <2>1, <2>2, <2>4 DEF ShiftInv, ShiftAfter
  <2>5. QED
    BY <2>3, <2>4
<1>2. CASE ~ handler
  BY <1>2 DEF Interrupt, ShiftInv
<1>3. QED
  BY <1>1, <1>2

LEMMA ShiftStep == ShiftInv /\ [Next]_vars => ShiftInv'
<1> SUFFICES ASSUME ShiftInv, [Next]_vars PROVE ShiftInv'
  OBVIOUS
<1>1. ASSUME UNCHANGED <<code, held, shift_down>> PROVE ShiftInv'
  BY <1>1 DEF ShiftInv
<1>2. CASE PutChar
  <2>1. UNCHANGED <<keyboard, handlerVars>>
    BY <1>2
    DEF PutChar, NewLine, NewLineLoad, NewLineStore, NewLineTest, ScrollRow, ScrollX,
        ScrollY, CursorLoadY, CursorLoadX, SelectLsb, SendLsb, SelectMsb, SendMsb,
        CarriageReturn, Backspace, PutLoadY, PutLoadX, PutEntry, IncLoad, IncStore,
        IncTest
  <2>2. QED
    BY <1>1, <2>1 DEF keyboard, handlerVars
<1>3. CASE EnableInterrupts \/ InitPs2 \/ InterruptReturn
  BY <1>1, <1>3 DEF EnableInterrupts, InitPs2, InterruptReturn, keyboard, handlerVars
<1>4. CASE Spin \/ UNCHANGED vars
  BY <1>1, <1>4 DEF Spin, vars, keyboard, handlerVars
<1>5. QED
  BY <1>2, <1>3, <1>4, KeyStep, InterruptStep DEF Next, Step

\* When no shift key is held and every scancode is read, ps2_handler takes
\* letters to be small again.
THEOREM ShiftIsReleased == Spec => []ShiftReleased
<1>1. ShiftInv => ShiftReleased
  BY DEF ShiftInv, ShiftReleased, NoCode, Shifts
<1>2. QED
  BY <1>1, ShiftInit, ShiftStep, PTL DEF Spec

-----------------------------------------------------------------------------
(***************************************************************************)
(* The inductive invariant of the screen and the cursor.                   *)
(***************************************************************************)

Locations ==
  {"ready", "put_x", "put", "x_load", "x_store", "x_test", "newline",
   "nl_load", "nl_store", "nl_test", "scroll", "scroll_x", "scroll_y",
   "cur_y", "cur_x", "cur_lsb", "cur_lsb_data", "cur_msb", "cur_msb_data"}

\* Everything that is ever printed or called.
Items ==
  {BootText[k] : k \in DOMAIN BootText} \cup {k.key : k \in Keys} \cup Unspecified
    \cup {"A", "!", "none", "nl", "bs", " ", "cursor"}

Contexts == [at : Locations, todo : Seq(Items), a : Int, b : Int]

Sheets == [cells : [Cells -> Items], pos : Int]

TypeInv ==
  /\ curr_x \in Int /\ curr_y \in Int
  /\ screen \in [Cells -> Items] /\ sheet \in Sheets
  /\ index \in {"lsb", "msb"} /\ cursor \in [{"lsb", "msb"} -> Int]
  /\ stack \in Seq(Contexts) /\ Len(stack) \in {1, 2}
  /\ mixed \in BOOLEAN /\ torn \in BOOLEAN
  /\ code \in [key : Items, down : BOOLEAN]

\* The locations of term_putchar with a character that is not '\n', '\r' or '\b'.
Putting == {"put_x", "put", "x_load", "x_store", "x_test", "newline"}

\* What a context is at fits its location, and whatever it prints ends with
\* something that moves the cursor along.
Proper(c) ==
  /\ c.at # "ready" => c.todo # <<>> /\ Head(c.todo) \notin {"sti", "init_ps2"}
  /\ c.at \in Putting => Printable(Head(c.todo))
  /\ c.todo # <<>> => c.todo[Len(c.todo)] \in {"nl", "cursor"}

\* A handler that has something to print found the thread between two characters
\* and outside of update_cursor, or this was recorded.
StackInv ==
  /\ Proper(stack[1]) /\ Proper(Running)
  /\ Len(stack) = 2 /\ Running.todo # <<>> =>
       /\ ~ mixed => stack[1].at \in Settled
       /\ ~ torn => stack[1].at \notin Sending

\* The context whose step is the next one to draw or to send: the thread if the
\* handler has nothing to print any more.
Drawer == IF Running.todo = <<>> THEN stack[1] ELSE Running

\* Column x and row y are those of cell q.
OnCell(q, x, y) == x \in 0 .. Width - 1 /\ y \in Nat /\ y * Width + x = q

\* Row y is the one of cell q, and q is its last cell if a character led to its
\* end.
OnRow(q, y, c) ==
  /\ y \in Nat /\ y * Width <= q /\ q < y * Width + Width
  /\ c = "nl" \/ (Printable(c) /\ q + 1 = y * Width + Width)

\* The cells with the item c in its place.
Shown(s, c) == IF Printable(c) THEN [s.cells EXCEPT ![s.pos] = c] ELSE s.cells

\* The first n rows moved up.
Moved(cells, n) ==
  [i \in Cells |-> IF i \div Width < n
                   THEN IF i + Width \in Cells THEN cells[i + Width] ELSE " "
                   ELSE cells[i]]

\* Where the screen scr, column x and row y are on their way from s to
\* Typed(s, c), for a context at l with registers a and b.
Drawn(l, a, b, c, x, y, scr, s) ==
  /\ l \in Settled => scr = s.cells /\ OnCell(s.pos, x, y)
  /\ l \in {"put_x", "put"} =>
       scr = s.cells /\ OnCell(s.pos, x, y) /\ a = y /\ (l = "put" => b = x)
  /\ l \in {"x_load", "x_store"} =>
       scr = Shown(s, c) /\ OnCell(s.pos, x, y) /\ (l = "x_store" => a = x)
  /\ l \in {"x_test", "newline"} =>
       scr = Shown(s, c) /\ OnCell(s.pos, x - 1, y) /\ (l = "newline" => x = Width)
  /\ l \in Putting => Printable(c)
  /\ l \in {"nl_load", "nl_store"} =>
       scr = Shown(s, c) /\ x = 0 /\ OnRow(s.pos, y, c) /\ (l = "nl_store" => a = y)
  /\ l \in {"nl_test", "scroll", "scroll_x", "scroll_y"} =>
       x = 0 /\ OnRow(s.pos, y - 1, c)
  /\ l = "nl_test" => scr = Shown(s, c)
  /\ l = "scroll" => y = Height /\ a \in 0 .. Height - 1 /\ scr = Moved(Shown(s, c), a)
  /\ l \in {"scroll_x", "scroll_y"} => y = Height /\ scr = Moved(Shown(s, c), Height)

\* How far update_cursor is, for the cursor at column x and row y.
Sent(l, a, x, y, reg, cur) ==
  /\ l = "cur_x" => a = y
  /\ l \in {"cur_lsb", "cur_lsb_data", "cur_msb", "cur_msb_data"} => a = y * Width + x
  /\ l = "cur_lsb_data" => reg = "lsb"
  /\ l \in {"cur_msb", "cur_msb_data"} => cur["lsb"] = a % ByteMod
  /\ l = "cur_msb_data" => reg = "msb"

\* The CRTC has column x and row y, to the width of pos.
Shows(cur, x, y) == cur["msb"] * ByteMod + cur["lsb"] = (y * Width + x) % (ByteMod * ByteMod)

ScreenInv ==
  ~ mixed /\ sheet.pos \in Cells =>
    /\ ~ stray
    /\ Drawn(Drawer.at, Drawer.a, Drawer.b, Head(Drawer.todo),
             curr_x, curr_y, screen, sheet)

CursorInv ==
  ~ torn =>
    /\ Sent(Drawer.at, Drawer.a, curr_x, curr_y, index, cursor)
    /\ Drawer.todo = <<>> => Shows(cursor, curr_x, curr_y)

TerminalInv == TypeInv /\ StackInv /\ ScreenInv /\ CursorInv

-----------------------------------------------------------------------------
(***************************************************************************)
(* Cells, rows and columns.                                                *)
(***************************************************************************)

\* The row and the column of a cell.
LEMMA RowOf ==
  ASSUME NEW w \in Nat \ {0}, NEW q \in Nat, NEW y \in Nat, y * w <= q, q < y * w + w
  PROVE  q \div w = y /\ q - (q % w) = y * w
<1>1. PICK x \in Nat : q = y * w + x /\ x < w
  <2>1. y * w \in Nat
    OBVIOUS
  <2>2. q - y * w \in Nat /\ q = y * w + (q - y * w) /\ q - y * w < w
    BY <2>1
  <2>3. QED
    BY <2>2
<1>2. (y * w + x) \div w = y /\ (y * w + x) % w = x
  BY <1>1
<1>3. q \div w = y /\ q % w = x
  BY <1>1, <1>2, Zenon
<1>4. q - x = y * w
  BY <1>1
<1>5. QED
  BY <1>3, <1>4, Zenon

\* A cell lies in one of the rows, and the next row a width further.
LEMMA CellRow ==
  ASSUME NEW i \in Cells
  PROVE  /\ i \div Width \in 0 .. Height - 1
         /\ (i + Width) \div Width = i \div Width + 1
         /\ i + Width \in Cells <=> i \div Width # Height - 1
<1> DEFINE y == i \div Width
<1>1. i \in Nat /\ Width \in Nat \ {0} /\ Height \in Nat \ {0} /\ i < Width * Height
  BY TerminalAssumption DEF Cells
<1>2. y \in Nat /\ y * Width <= i /\ i < y * Width + Width
  BY <1>1
<1>3. (i + Width) \div Width = y + 1
  BY <1>1, <1>2
<1> HIDE DEF y
<1>4. y < Height
  <2>1. SUFFICES ASSUME Height <= y PROVE FALSE
    BY <1>1, <1>2
  <2>2. Width * Height <= y * Width
    BY <1>1, <1>2, <2>1
  <2>3. QED
    BY <1>1, <1>2, <2>2
<1>5. y # Height - 1 => i + Width < Width * Height
  <2>1. SUFFICES ASSUME y + 2 <= Height PROVE i + Width < Width * Height
    BY <1>1, <1>2, <1>4
  <2>2. (y + 2) * Width <= Width * Height
    BY <1>1, <1>2, <2>1
  <2>3. QED
    BY <1>1, <1>2, <2>2
<1>6. y = Height - 1 => i + Width >= Width * Height
  <2>1. SUFFICES ASSUME y + 1 = Height PROVE i + Width >= Width * Height
    BY <1>1, <1>2
  <2>2. (y + 1) * Width = Width * Height
    BY <1>1, <1>2, <2>1
  <2>3. QED
    BY <1>1, <1>2, <2>2
<1>7. QED
  BY <1>1, <1>2, <1>3, <1>4, <1>5, <1>6 DEF Cells, y

\* A row is moved up when the rows above it are.
RowUpIn(scr, n) ==
  [i \in Cells |-> IF i \div Width # n THEN scr[i]
                   ELSE IF n = Height - 1 THEN " " ELSE scr[i + Width]]

LEMMA RowMoved ==
  ASSUME NEW cells \in [Cells -> Items], NEW n \in 0 .. Height - 1,
         NEW scr, scr = Moved(cells, n)
  PROVE  RowUpIn(scr, n) = Moved(cells, n + 1)
<1> DEFINE up == RowUpIn(scr, n)
<1>1. SUFFICES ASSUME NEW i \in Cells PROVE up[i] = Moved(cells, n + 1)[i]
  BY Zenon DEF Moved, RowUpIn
<1>2. PICK y \in 0 .. Height - 1, z \in Int :
        /\ y = i \div Width /\ z = (i + Width) \div Width /\ z = y + 1
        /\ i + Width \in Cells <=> y # Height - 1
  BY CellRow, TerminalAssumption
<1>3. up[i] = IF y # n THEN scr[i] ELSE IF n = Height - 1 THEN " " ELSE scr[i + Width]
  BY <1>2, Zenon DEF RowUpIn
<1>4. scr[i] = IF y < n THEN IF i + Width \in Cells THEN cells[i + Width] ELSE " "
               ELSE cells[i]
  BY <1>2, Zenon DEF Moved
<1>5. Moved(cells, n + 1)[i]
        = IF y < n + 1 THEN IF i + Width \in Cells THEN cells[i + Width] ELSE " "
          ELSE cells[i]
  BY <1>2, Zenon DEF Moved
<1>6. i + Width \in Cells =>
        scr[i + Width] = IF z < n
                         THEN IF i + Width + Width \in Cells
                              THEN cells[i + Width + Width] ELSE " "
                         ELSE cells[i + Width]
  BY <1>2, Zenon DEF Moved
<1> HIDE DEF up
<1>7. CASE y = n
  <2>1. y < n + 1 /\ ~ (z < n)
    BY <1>2, <1>7
  <2>2. QED
    BY <1>2, <1>3, <1>5, <1>6, <1>7, <2>1, Zenon
<1>8. CASE y # n
  <2>1. y < n <=> y < n + 1
    BY <1>2, <1>8
  <2>2. QED
    BY <1>3, <1>4, <1>5, <1>8, <2>1, Zenon
<1>9. QED
  BY <1>7, <1>8

\* No row is moved, or every row is.
LEMMA NoneMoved ==
  ASSUME NEW cells \in [Cells -> Items]
  PROVE  Moved(cells, 0) = cells
<1>1. ASSUME NEW i \in Cells PROVE ~ (i \div Width < 0)
  BY CellRow
<1>2. ASSUME NEW i \in Cells PROVE Moved(cells, 0)[i] = cells[i]
  BY <1>1, Zenon DEF Moved
<1>3. QED
  BY <1>2, Zenon DEF Moved

Scrolled(cells) ==
  [i \in Cells |-> IF i + Width \in Cells THEN cells[i + Width] ELSE " "]

LEMMA AllMoved ==
  ASSUME NEW cells \in [Cells -> Items]
  PROVE  Moved(cells, Height) = Scrolled(cells)
<1>1. ASSUME NEW i \in Cells PROVE i \div Width < Height
  BY CellRow, TerminalAssumption
<1>2. QED
  BY <1>1, Zenon DEF Moved, Scrolled

\* The cells stay characters.
LEMMA MovedType ==
  ASSUME NEW cells \in [Cells -> Items], NEW n
  PROVE  Moved(cells, n) \in [Cells -> Items]
<1>1. " " \in Items
  BY DEF Items
<1>2. QED
  BY <1>1, Zenon DEF Moved

LEMMA ShownType ==
  ASSUME NEW s \in Sheets, NEW c \in Items
  PROVE  Shown(s, c) \in [Cells -> Items]
  BY DEF Shown, Sheets

-----------------------------------------------------------------------------
(***************************************************************************)
(* The contexts.                                                           *)
(***************************************************************************)

\* The last of one or two contexts, and the sequence with another one instead.
Replaced(q, v) == [q EXCEPT ![Len(q)] = v]

LEMMA LastReplaced ==
  ASSUME NEW S, NEW q \in Seq(S), Len(q) = 1 \/ Len(q) = 2, NEW v \in S,
         NEW r, r = Replaced(q, v)
  PROVE  /\ r \in Seq(S) /\ Len(r) = Len(q) /\ r[Len(q)] = v
         /\ Len(q) = 2 => r[1] = q[1]
  BY DEF Replaced

LEMMA LastIn ==
  ASSUME NEW S, NEW q \in Seq(S), Len(q) = 1 \/ Len(q) = 2
  PROVE  q[Len(q)] \in S /\ q[1] \in S
  OBVIOUS

ContextAt(c, l, a, b) == [c EXCEPT !.at = l, !.a = a, !.b = b]

LEMMA ContextReplaced ==
  ASSUME NEW c \in Contexts, NEW l \in Locations, NEW a \in Int, NEW b \in Int,
         NEW d, d = ContextAt(c, l, a, b)
  PROVE  d \in Contexts /\ d.at = l /\ d.todo = c.todo /\ d.a = a /\ d.b = b
  BY DEF Contexts, ContextAt

\* The running context goes on.
LEMMA Goes ==
  ASSUME TypeInv, NEW l \in Locations, NEW a \in Int, NEW b \in Int, GoWith(l, a, b)
  PROVE  /\ stack' \in Seq(Contexts) /\ Len(stack') = Len(stack)
         /\ Running'.at = l /\ Running'.a = a /\ Running'.b = b
         /\ Running'.todo = Running.todo
         /\ stack'[1].todo = stack[1].todo
         /\ Len(stack) = 2 => stack'[1] = stack[1]
<1> DEFINE n   == Len(stack)
           new == ContextAt(stack[n], l, a, b)
<1>1. stack \in Seq(Contexts) /\ (n = 1 \/ n = 2)
  BY DEF TypeInv
<1>2. stack[n] \in Contexts
  BY <1>1, LastIn, Zenon
<1>3. stack' = Replaced(stack, new)
  BY <1>1 DEF GoWith, Replaced, ContextAt
<1>4. /\ new \in Contexts /\ new.at = l /\ new.todo = stack[n].todo
      /\ new.a = a /\ new.b = b
  BY <1>2, ContextReplaced
<1> HIDE DEF new
<1>5. /\ stack' \in Seq(Contexts) /\ Len(stack') = n /\ stack'[n] = new
      /\ n = 2 => stack'[1] = stack[1]
  BY <1>1, <1>3, <1>4, LastReplaced
<1>6. QED
  BY <1>1, <1>4, <1>5, Zenon DEF Running

\* The running context is through with its item.
LEMMA Finishes ==
  ASSUME TypeInv, Running.todo # <<>>, Finish
  PROVE  /\ stack' \in Seq(Contexts) /\ Len(stack') = Len(stack)
         /\ Running'.at = "ready" /\ Running'.todo = Tail(Running.todo)
         /\ Running'.todo \in Seq(Items)
         /\ Len(stack) = 1 => stack'[1].todo = Tail(stack[1].todo)
         /\ Len(stack) = 2 => stack'[1] = stack[1]
<1> DEFINE n == Len(stack)
           new == [at |-> "ready", todo |-> Tail(stack[n].todo), a |-> 0, b |-> 0]
<1>1. stack \in Seq(Contexts) /\ (n = 1 \/ n = 2)
  BY DEF TypeInv
<1>0. stack[n] \in Contexts
  BY <1>1, LastIn, Zenon
<1>2. stack' = Replaced(stack, new)
  BY <1>1 DEF Finish, Context, Replaced
<1>3. Tail(stack[n].todo) \in Seq(Items)
  BY <1>0 DEF Contexts, Running
<1>4. new \in Contexts /\ new.at = "ready" /\ new.todo = Tail(stack[n].todo)
  BY <1>3 DEF Contexts, Locations
<1> HIDE DEF new
<1>5. /\ stack' \in Seq(Contexts) /\ Len(stack') = n
      /\ stack'[n] = new
      /\ n = 2 => stack'[1] = stack[1]
  BY <1>1, <1>2, <1>4, LastReplaced
<1>6. QED
  BY <1>1, <1>3, <1>4, <1>5, Zenon DEF Running

-----------------------------------------------------------------------------
(***************************************************************************)
(* What each step of term_putchar and update_cursor makes of the screen.   *)
(***************************************************************************)

\* The sheet, the item and the rest of what Drawn relates.
Drawing(c, s, x, y) == s \in Sheets /\ s.pos \in Cells /\ c \in Items /\ x \in Int /\ y \in Int

LEMMA CellsFacts ==
  /\ Width \in Nat /\ Width > 0 /\ Height \in Nat /\ Height > 0 /\ Width * Height \in Nat
  /\ Cells = 0 .. Width * Height - 1
  BY TerminalAssumption DEF Cells

\* The position behind the last row is Width * Height, and a row before it ends
\* on the screen.
LEMMA RowStart ==
  ASSUME NEW y \in Nat, NEW q \in Cells, (y - 1) * Width <= q
  PROVE  /\ y <= Height /\ y * Width \in Nat /\ (y - 1) * Width = y * Width - Width
         /\ y = Height => y * Width = Width * Height
         /\ y # Height => y * Width + Width <= Width * Height
<1>1. y * Width \in Nat /\ (y - 1) * Width = y * Width - Width
  BY CellsFacts
<1>2. y <= Height
  <2>1. SUFFICES ASSUME Height + 1 <= y PROVE FALSE
    BY CellsFacts
  <2>2. (Height + 1) * Width <= y * Width
    BY <2>1, CellsFacts
  <2>3. (Height + 1) * Width = Width * Height + Width
    BY CellsFacts
  <2>4. QED
    BY <1>1, <2>2, <2>3, CellsFacts
<1>3. y = Height => y * Width = Width * Height
  BY CellsFacts
<1>4. y # Height => y * Width + Width <= Width * Height
  <2>1. SUFFICES ASSUME y + 1 <= Height PROVE y * Width + Width <= Width * Height
    BY <1>2, CellsFacts
  <2>2. (y + 1) * Width <= Width * Height
    BY <2>1, CellsFacts
  <2>3. (y + 1) * Width = y * Width + Width
    BY CellsFacts
  <2>4. QED
    BY <2>2, <2>3
<1>5. QED
  BY <1>1, <1>2, <1>3, <1>4

\* Advanced, for a position on the screen and for the one behind it.
LEMMA AdvancedOn ==
  ASSUME NEW cells, NEW q, q < Width * Height
  PROVE  Advanced([cells |-> cells, pos |-> q]) = [cells |-> cells, pos |-> q]
  BY DEF Advanced

LEMMA AdvancedOff ==
  ASSUME NEW cells, NEW q, ~ (q < Width * Height)
  PROVE  /\ Advanced([cells |-> cells, pos |-> q]).cells = Scrolled(cells)
         /\ Advanced([cells |-> cells, pos |-> q]).pos = q - Width
  BY DEF Advanced, Scrolled

\* At the end of a line the character or the line break leads to the start of
\* row y, which may be the one behind the screen.
LEMMA LineResult ==
  ASSUME NEW c, NEW s, NEW x, NEW y, Drawing(c, s, x, y), OnRow(s.pos, y - 1, c)
  PROVE  Typed(s, c) = Advanced([cells |-> Shown(s, c), pos |-> y * Width])
<1>1. /\ y - 1 \in Nat /\ s.pos \in Nat /\ (y - 1) * Width <= s.pos
      /\ s.pos < (y - 1) * Width + Width
      /\ c = "nl" \/ (Printable(c) /\ s.pos + 1 = (y - 1) * Width + Width)
  BY CellsFacts DEF OnRow, Drawing
<1>2. (y - 1) * Width + Width = y * Width
  BY <1>1, CellsFacts DEF Drawing
<1>3. CASE c = "nl"
  <2>0. Width \in Nat \ {0}
    BY TerminalAssumption
  <2>1. s.pos \div Width = y - 1
    BY <1>1, <2>0, RowOf
  <2>2. (s.pos \div Width + 1) * Width = y * Width
    BY <2>1 DEF Drawing
  <2>3. [s EXCEPT !.pos = (@ \div Width + 1) * Width]
          = [cells |-> s.cells, pos |-> y * Width]
    BY <2>2 DEF Drawing, Sheets
  <2>4. Typed(s, c) = Advanced([s EXCEPT !.pos = (@ \div Width + 1) * Width])
    BY <1>3 DEF Typed
  <2>5. Shown(s, c) = s.cells
    BY <1>3 DEF Shown, Printable
  <2>6. QED
    BY <2>3, <2>4, <2>5
<1>4. CASE Printable(c) /\ s.pos + 1 = (y - 1) * Width + Width
  <2>1. Typed(s, c)
          = Advanced([cells |-> [s.cells EXCEPT ![s.pos] = c], pos |-> s.pos + 1])
    BY <1>4 DEF Typed, Printable
  <2>2. QED
    BY <1>2, <1>4, <2>1 DEF Shown
<1>5. QED
  BY <1>1, <1>3, <1>4

\* A line break, from the text or at the end of a row.
LEMMA DrawLine ==
  ASSUME NEW c, NEW s, NEW x, NEW y, Drawing(c, s, x, y), NEW scr,
         NEW a, NEW b, NEW a1, NEW b1,
         \/ c = "nl" /\ Drawn("ready", a, b, c, x, y, scr, s)
         \/ Drawn("newline", a, b, c, x, y, scr, s)
  PROVE  Drawn("nl_load", a1, b1, c, 0, y, scr, s)
<1>1. CASE c = "nl" /\ Drawn("ready", a, b, c, x, y, scr, s)
  <2>1. scr = s.cells /\ OnCell(s.pos, x, y)
    BY <1>1 DEF Drawn, Settled, Sending, Putting
  <2>2. Shown(s, c) = s.cells
    BY <1>1 DEF Shown, Printable
  <2>3. OnRow(s.pos, y, c)
    BY <1>1, <2>1, CellsFacts DEF OnCell, OnRow
  <2>4. QED
    BY <2>1, <2>2, <2>3 DEF Drawn, Settled, Sending, Putting
<1>2. CASE Drawn("newline", a, b, c, x, y, scr, s)
  <2>1. scr = Shown(s, c) /\ OnCell(s.pos, x - 1, y) /\ x = Width /\ Printable(c)
    BY <1>2 DEF Drawn, Settled, Sending, Putting
  <2>2. OnRow(s.pos, y, c)
    <3>1. y \in Nat /\ y * Width + (Width - 1) = s.pos /\ y * Width \in Nat
      BY <2>1, CellsFacts DEF OnCell
    <3>2. QED
      BY <3>1, <2>1, CellsFacts DEF OnRow
  <2>3. QED
    BY <2>1, <2>2 DEF Drawn, Settled, Sending, Putting
<1>3. QED
  BY <1>1, <1>2

LEMMA DrawLineLoad ==
  ASSUME NEW c, NEW s, NEW x, NEW y, NEW scr, NEW a, NEW b, NEW b1,
         Drawn("nl_load", a, b, c, x, y, scr, s)
  PROVE  Drawn("nl_store", y, b1, c, x, y, scr, s)
  BY DEF Drawn, Settled, Sending, Putting

LEMMA DrawLineStore ==
  ASSUME NEW c, NEW s, NEW x, NEW y, Drawing(c, s, x, y), NEW scr,
         NEW a, NEW b, NEW a1, NEW b1,
         Drawn("nl_store", a, b, c, x, y, scr, s)
  PROVE  Drawn("nl_test", a1, b1, c, x, a + 1, scr, s)
<1>1. scr = Shown(s, c) /\ x = 0 /\ OnRow(s.pos, y, c) /\ a = y
  BY DEF Drawn, Settled, Sending, Putting
<1>2. (a + 1) - 1 = y
  BY <1>1 DEF Drawing
<1>3. QED
  BY <1>1, <1>2 DEF Drawn, Settled, Sending, Putting

LEMMA DrawLineTest ==
  ASSUME NEW c, NEW s, NEW x, NEW y, Drawing(c, s, x, y), NEW scr,
         NEW a, NEW b, NEW a1, NEW b1,
         Drawn("nl_test", a, b, c, x, y, scr, s)
  PROVE  /\ y = Height => Drawn("scroll", 0, b1, c, x, y, scr, s)
         /\ y # Height => Drawn("cur_y", a1, b1, c, x, y, scr, Typed(s, c))
<1>1. scr = Shown(s, c) /\ x = 0 /\ OnRow(s.pos, y - 1, c)
  BY DEF Drawn, Settled, Sending, Putting
<1>2. Shown(s, c) \in [Cells -> Items]
  BY ShownType DEF Drawing
<1>3. ASSUME y = Height PROVE Drawn("scroll", 0, b1, c, x, y, scr, s)
  <2>1. scr = Moved(Shown(s, c), 0) /\ 0 \in 0 .. Height - 1
    BY <1>1, <1>2, NoneMoved, CellsFacts
  <2>2. QED
    BY <1>1, <1>3, <2>1 DEF Drawn, Settled, Sending, Putting
<1>4. ASSUME y # Height PROVE Drawn("cur_y", a1, b1, c, x, y, scr, Typed(s, c))
  <2>1. y \in Nat /\ s.pos \in Cells /\ (y - 1) * Width <= s.pos
    BY <1>1 DEF OnRow, Drawing
  <2>2. y * Width \in Nat /\ y * Width + Width <= Width * Height
    BY <2>1, <1>4, RowStart
  <2>3. Typed(s, c) = Advanced([cells |-> Shown(s, c), pos |-> y * Width])
    BY <1>1, LineResult
  <2>4. Typed(s, c) = [cells |-> Shown(s, c), pos |-> y * Width]
    <3>1. y * Width < Width * Height
      BY <2>2, CellsFacts
    <3>2. QED
      BY <2>3, <3>1, AdvancedOn
  <2>5. Typed(s, c).cells = Shown(s, c) /\ OnCell(Typed(s, c).pos, x, y)
    BY <1>1, <2>1, <2>2, <2>4, CellsFacts DEF OnCell
  <2>6. QED
    BY <1>1, <2>5 DEF Drawn, Settled, Sending, Putting
<1>5. QED
  BY <1>3, <1>4

LEMMA DrawScroll ==
  ASSUME NEW c, NEW s, NEW x, NEW y, Drawing(c, s, x, y), NEW scr, NEW scr1,
         NEW a, NEW b, NEW a1, NEW b1,
         Drawn("scroll", a, b, c, x, y, scr, s), scr1 = Moved(Shown(s, c), a + 1)
  PROVE  /\ a < Height - 1 => Drawn("scroll", a + 1, b1, c, x, y, scr1, s)
         /\ ~ (a < Height - 1) => Drawn("scroll_x", a1, b1, c, x, y, scr1, s)
<1>1. /\ x = 0 /\ OnRow(s.pos, y - 1, c) /\ y = Height /\ a \in 0 .. Height - 1
      /\ scr = Moved(Shown(s, c), a)
  BY DEF Drawn, Settled, Sending, Putting
<1>3. a + 1 \in 0 .. Height /\ (~ (a < Height - 1) => a + 1 = Height)
  BY <1>1, CellsFacts
<1>4. ASSUME a < Height - 1 PROVE Drawn("scroll", a + 1, b1, c, x, y, scr1, s)
  <2>1. a + 1 \in 0 .. Height - 1
    BY <1>1, <1>4, CellsFacts
  <2>2. QED
    BY <1>1, <2>1 DEF Drawn, Settled, Sending, Putting
<1>5. ASSUME ~ (a < Height - 1) PROVE Drawn("scroll_x", a1, b1, c, x, y, scr1, s)
  <2>1. a + 1 = Height
    BY <1>3, <1>5
  <2>2. QED
    BY <1>1, <2>1 DEF Drawn, Settled, Sending, Putting
<1>6. QED
  BY <1>4, <1>5

LEMMA DrawScrollX ==
  ASSUME NEW c, NEW s, NEW x, NEW y, NEW scr, NEW a, NEW b, NEW a1, NEW b1,
         Drawn("scroll_x", a, b, c, x, y, scr, s)
  PROVE  Drawn("scroll_y", a1, b1, c, 0, y, scr, s)
  BY DEF Drawn, Settled, Sending, Putting

LEMMA DrawScrollY ==
  ASSUME NEW c, NEW s, NEW x, NEW y, Drawing(c, s, x, y), NEW scr,
         NEW a, NEW b, NEW a1, NEW b1,
         Drawn("scroll_y", a, b, c, x, y, scr, s)
  PROVE  Drawn("cur_y", a1, b1, c, x, Height - 1, scr, Typed(s, c))
<1>1. /\ x = 0 /\ OnRow(s.pos, y - 1, c) /\ y = Height
      /\ scr = Moved(Shown(s, c), Height)
  BY DEF Drawn, Settled, Sending, Putting
<1>2. Shown(s, c) \in [Cells -> Items]
  BY ShownType DEF Drawing
<1>3. Height * Width = Width * Height /\ (Height - 1) * Width = Width * Height - Width
  BY CellsFacts
<1>4. Typed(s, c) = Advanced([cells |-> Shown(s, c), pos |-> Height * Width])
  BY <1>1, LineResult
<1>5. ~ (Height * Width < Width * Height)
  BY <1>3, CellsFacts
<1>6. Typed(s, c).cells = scr
  <2>1. Typed(s, c).cells = Scrolled(Shown(s, c))
    BY <1>4, <1>5, AdvancedOff, Zenon
  <2>2. QED
    BY <1>1, <1>2, <2>1, AllMoved, Zenon
<1>7. OnCell(Typed(s, c).pos, x, Height - 1)
  <2>1. Typed(s, c).pos = Height * Width - Width
    BY <1>4, <1>5, AdvancedOff, Zenon
  <2>2. QED
    BY <1>1, <1>3, <2>1, CellsFacts DEF OnCell
<1>8. QED
  BY <1>6, <1>7 DEF Drawn, Settled, Sending, Putting

\* Nothing is drawn between two characters and in update_cursor.
LEMMA DrawSettled ==
  ASSUME NEW c, NEW s, NEW x, NEW y, NEW scr, NEW a, NEW b, NEW a1, NEW b1, NEW c1,
         NEW l \in Settled, NEW m \in Settled, Drawn(l, a, b, c, x, y, scr, s)
  PROVE  Drawn(m, a1, b1, c1, x, y, scr, s)
<1>1. scr = s.cells /\ OnCell(s.pos, x, y)
  BY DEF Drawn
<1>2. QED
  BY <1>1 DEF Drawn, Settled, Sending, Putting

\* '\r' and '\b'
LEMMA DrawReturn ==
  ASSUME NEW s, NEW x, NEW y, Drawing("cr", s, x, y), NEW scr,
         NEW a, NEW b, NEW a1, NEW b1, NEW c1,
         Drawn("ready", a, b, "cr", x, y, scr, s)
  PROVE  Drawn("ready", a1, b1, c1, 0, y, scr, Typed(s, "cr"))
<1>1. scr = s.cells /\ OnCell(s.pos, x, y)
  BY DEF Drawn, Settled, Sending, Putting
<1>2. y \in Nat /\ y * Width \in Nat /\ s.pos \in Nat
  BY <1>1, CellsFacts DEF OnCell, Drawing
<1>3. s.pos - (s.pos % Width) = y * Width
  <2>1. y * Width <= s.pos /\ s.pos < y * Width + Width /\ Width \in Nat \ {0}
    BY <1>1, <1>2, CellsFacts DEF OnCell
  <2>2. QED
    BY <1>2, <2>1, RowOf
<1>4. Typed(s, "cr") = [s EXCEPT !.pos = @ - (@ % Width)]
  BY DEF Typed
<1>5. Typed(s, "cr").cells = s.cells /\ Typed(s, "cr").pos = y * Width
  BY <1>3, <1>4 DEF Drawing, Sheets
<1>6. OnCell(y * Width, 0, y)
  BY <1>2, CellsFacts DEF OnCell
<1>7. QED
  BY <1>1, <1>5, <1>6 DEF Drawn, Settled, Sending, Putting

LEMMA DrawBack ==
  ASSUME NEW s, NEW x, NEW y, Drawing("bs", s, x, y), NEW scr, NEW x1, NEW y1,
         NEW a, NEW b, NEW a1, NEW b1, NEW c1,
         Drawn("ready", a, b, "bs", x, y, scr, s),
         x = 0 => x1 = Width - 1 /\ y1 = y - 1,
         x # 0 => x1 = x - 1 /\ y1 = y,
         Typed(s, "bs").pos \in Cells
  PROVE  Drawn("ready", a1, b1, c1, x1, y1, scr, Typed(s, "bs"))
<1>1. scr = s.cells /\ OnCell(s.pos, x, y)
  BY DEF Drawn, Settled, Sending, Putting
<1>2. Typed(s, "bs").cells = s.cells /\ Typed(s, "bs").pos = s.pos - 1
  BY DEF Typed, Drawing, Sheets
<1>3. OnCell(s.pos - 1, x1, y1)
  <2>1. y \in Nat /\ x \in 0 .. Width - 1 /\ s.pos = y * Width + x /\ s.pos >= 1
    BY <1>1, <1>2, CellsFacts DEF OnCell, Drawing
  <2>2. CASE x = 0
    <3>1. y # 0
      BY <2>1, <2>2, CellsFacts
    <3>2. y - 1 \in Nat /\ (y - 1) * Width = y * Width - Width /\ y * Width \in Nat
      BY <2>1, <3>1, CellsFacts
    <3>3. QED
      BY <2>1, <2>2, <3>2, CellsFacts DEF OnCell
  <2>3. CASE x # 0
    BY <2>1, <2>3, CellsFacts DEF OnCell
  <2>4. QED
    BY <2>2, <2>3
<1>4. QED
  BY <1>1, <1>2, <1>3 DEF Drawn, Settled, Sending, Putting

\* A character.
LEMMA DrawPut ==
  ASSUME NEW c, NEW s, NEW x, NEW y, NEW scr, NEW a, NEW b, NEW b1, Printable(c),
         Drawn("ready", a, b, c, x, y, scr, s)
  PROVE  Drawn("put_x", y, b1, c, x, y, scr, s)
  BY DEF Drawn, Settled, Sending, Putting

LEMMA DrawPutX ==
  ASSUME NEW c, NEW s, NEW x, NEW y, NEW scr, NEW a, NEW b,
         Drawn("put_x", a, b, c, x, y, scr, s)
  PROVE  Drawn("put", a, x, c, x, y, scr, s)
  BY DEF Drawn, Settled, Sending, Putting

LEMMA DrawEntry ==
  ASSUME NEW c, NEW s, NEW x, NEW y, NEW scr, NEW a, NEW b, NEW a1, NEW b1,
         Drawn("put", a, b, c, x, y, scr, s)
  PROVE  /\ a * Width + b = s.pos
         /\ Drawn("x_load", a1, b1, c, x, y, [scr EXCEPT ![a * Width + b] = c], s)
<1>1. scr = s.cells /\ OnCell(s.pos, x, y) /\ a = y /\ b = x /\ Printable(c)
  BY DEF Drawn, Settled, Sending, Putting
<1>2. a * Width + b = s.pos
  BY <1>1 DEF OnCell
<1>3. [scr EXCEPT ![a * Width + b] = c] = Shown(s, c)
  BY <1>1, <1>2 DEF Shown
<1>4. QED
  BY <1>1, <1>2, <1>3 DEF Drawn, Settled, Sending, Putting

LEMMA DrawIncLoad ==
  ASSUME NEW c, NEW s, NEW x, NEW y, NEW scr, NEW a, NEW b, NEW b1,
         Drawn("x_load", a, b, c, x, y, scr, s)
  PROVE  Drawn("x_store", x, b1, c, x, y, scr, s)
  BY DEF Drawn, Settled, Sending, Putting

LEMMA DrawIncStore ==
  ASSUME NEW c, NEW s, NEW x, NEW y, Drawing(c, s, x, y), NEW scr,
         NEW a, NEW b, NEW a1, NEW b1,
         Drawn("x_store", a, b, c, x, y, scr, s)
  PROVE  Drawn("x_test", a1, b1, c, a + 1, y, scr, s)
<1>1. scr = Shown(s, c) /\ OnCell(s.pos, x, y) /\ a = x /\ Printable(c)
  BY DEF Drawn, Settled, Sending, Putting
<1>2. (a + 1) - 1 = x
  BY <1>1 DEF Drawing
<1>3. QED
  BY <1>1, <1>2 DEF Drawn, Settled, Sending, Putting

LEMMA DrawIncTest ==
  ASSUME NEW c, NEW s, NEW x, NEW y, Drawing(c, s, x, y), NEW scr,
         NEW a, NEW b, NEW a1, NEW b1, NEW c1,
         Drawn("x_test", a, b, c, x, y, scr, s)
  PROVE  /\ x = Width => Drawn("newline", a1, b1, c, x, y, scr, s)
         /\ x # Width => Drawn("ready", a1, b1, c1, x, y, scr, Typed(s, c))
<1>1. scr = Shown(s, c) /\ OnCell(s.pos, x - 1, y) /\ Printable(c)
  BY DEF Drawn, Settled, Sending, Putting
<1>2. ASSUME x = Width PROVE Drawn("newline", a1, b1, c, x, y, scr, s)
  BY <1>1, <1>2 DEF Drawn, Settled, Sending, Putting
<1>3. ASSUME x # Width PROVE Drawn("ready", a1, b1, c1, x, y, scr, Typed(s, c))
  <2>1. /\ x \in 1 .. Width - 1 /\ y \in Nat /\ y * Width \in Nat
        /\ s.pos \in Nat /\ s.pos + 1 = y * Width + x
    BY <1>1, <1>3, CellsFacts DEF OnCell, Drawing
  <2>2. (y + 1) * Width = y * Width + Width
    BY <2>1, CellsFacts
  <2>3. s.pos + 1 < Width * Height
    <3>0. (y + 1) - 1 = y /\ y * Width <= s.pos
      BY <2>1, CellsFacts
    <3>1. ((y + 1) - 1) * Width <= s.pos
      BY <3>0, Zenon
    <3>2. y + 1 \in Nat /\ s.pos \in Cells
      BY <2>1 DEF Drawing
    <3>3. (y + 1) * Width <= Width * Height
      BY <3>1, <3>2, RowStart, CellsFacts
    <3>4. QED
      BY <2>1, <2>2, <3>3, CellsFacts
  <2>4. Typed(s, c)
          = Advanced([cells |-> [s.cells EXCEPT ![s.pos] = c], pos |-> s.pos + 1])
    BY <1>1 DEF Typed, Printable
  <2>5. Typed(s, c) = [cells |-> Shown(s, c), pos |-> s.pos + 1]
    BY <1>1, <2>3, <2>4, AdvancedOn DEF Shown
  <2>6. OnCell(s.pos + 1, x, y)
    BY <2>1, CellsFacts DEF OnCell
  <2>7. QED
    BY <1>1, <2>5, <2>6 DEF Drawn, Settled, Sending, Putting
<1>4. QED
  BY <1>2, <1>3

-----------------------------------------------------------------------------
(***************************************************************************)
(* A step of the running context keeps the invariant if it keeps Drawn and *)
(* Sent.                                                                   *)
(***************************************************************************)

item == Head(Running.todo)

\* The running context is at a character or at update_cursor.
Prints == Running.todo # <<>> /\ item \notin {"sti", "init_ps2"}

\* The values of the screen and of the CRTC after a step.
Painted ==
  /\ curr_x' \in Int /\ curr_y' \in Int /\ screen' \in [Cells -> Items]
  /\ index' \in {"lsb", "msb"} /\ cursor' \in [{"lsb", "msb"} -> Int]
  /\ sheet' \in Sheets
  /\ UNCHANGED <<code, mixed>>

\* The context goes to l, in the middle of its item.
MoveTo(l, a, b) ==
  /\ l \in Locations /\ a \in Int /\ b \in Int
  /\ l \in Putting => Printable(item)
  /\ GoWith(l, a, b)
  /\ Painted
  /\ torn' \in BOOLEAN
  /\ ~ torn' => ~ torn \/ (Len(stack) = 2 => stack[1].at \notin Sending)
  /\ ~ mixed /\ sheet'.pos \in Cells =>
       /\ ~ stray'
       /\ Drawn(l, a, b, item, curr_x', curr_y', screen', sheet')
  /\ ~ torn' => Sent(l, a, curr_x', curr_y', index', cursor')

LEMMA Moves ==
  ASSUME TerminalInv, Prints, NEW l, NEW a, NEW b, MoveTo(l, a, b)
  PROVE  TerminalInv'
<1>1. /\ stack' \in Seq(Contexts) /\ Len(stack') = Len(stack)
      /\ Running'.at = l /\ Running'.a = a /\ Running'.b = b
      /\ Running'.todo = Running.todo
      /\ Len(stack) = 2 => stack'[1] = stack[1]
  BY Goes DEF MoveTo, TerminalInv
<1>2. TypeInv'
  BY <1>1 DEF TypeInv, TerminalInv, MoveTo, Painted
<1>3. Drawer' = Running'
  BY <1>1 DEF Drawer, Prints
<1>4. StackInv'
  <2>1. Proper(Running')
    BY <1>1 DEF StackInv, TerminalInv, MoveTo, Prints, item, Proper
  <2>2. Proper(stack'[1])
    <3>1. CASE Len(stack) = 2
      BY <1>1, <3>1 DEF StackInv, TerminalInv
    <3>2. CASE Len(stack) = 1
      BY <1>1, <2>1, <3>2 DEF Running
    <3>3. QED
      BY <3>1, <3>2 DEF TerminalInv, TypeInv
  <2>3. QED
    BY <1>1, <2>1, <2>2 DEF StackInv, TerminalInv, MoveTo, Painted
<1>5. ScreenInv'
  BY <1>1, <1>3 DEF ScreenInv, MoveTo, Painted, item
<1>6. CursorInv'
  BY <1>1, <1>3 DEF CursorInv, TerminalInv, MoveTo, Prints
<1>7. QED
  BY <1>2, <1>4, <1>5, <1>6 DEF TerminalInv

\* The context is through with its item.
Through ==
  /\ Finish
  /\ Painted
  /\ UNCHANGED torn
  /\ ~ mixed /\ sheet'.pos \in Cells =>
       /\ ~ stray'
       /\ Drawn("ready", 0, 0, item, curr_x', curr_y', screen', sheet')
  /\ ~ torn /\ item \in {"nl", "cursor"} => Shows(cursor', curr_x', curr_y')

LEMMA LastTail ==
  ASSUME NEW todo \in Seq(Items), todo # <<>>
  PROVE  /\ Tail(todo) # <<>> => Tail(todo)[Len(Tail(todo))] = todo[Len(todo)]
         /\ Tail(todo) = <<>> => todo[Len(todo)] = Head(todo)
<1>1. /\ Len(todo) \in Nat /\ Len(todo) > 0 /\ todo[1] = Head(todo)
      /\ Tail(todo) \in Seq(Items) /\ Len(Tail(todo)) = Len(todo) - 1
      /\ \A k \in 1 .. Len(todo) - 1 : Tail(todo)[k] = todo[k + 1]
  OBVIOUS
<1>2. ASSUME Tail(todo) # <<>> PROVE Tail(todo)[Len(Tail(todo))] = todo[Len(todo)]
  <2>1. Len(todo) - 1 \in 1 .. Len(todo) - 1 /\ (Len(todo) - 1) + 1 = Len(todo)
    BY <1>1, <1>2
  <2>2. QED
    BY <1>1, <2>1
<1>3. ASSUME Tail(todo) = <<>> PROVE todo[Len(todo)] = Head(todo)
  <2>1. Len(todo) = 1
    BY <1>1, <1>3
  <2>2. QED
    BY <1>1, <2>1
<1>4. QED
  BY <1>2, <1>3

LEMMA AdvancedType ==
  ASSUME NEW s \in Sheets
  PROVE  Advanced(s) \in Sheets
<1>0. " " \in Items
  BY DEF Items
<1>1. s.cells \in [Cells -> Items] /\ s.pos \in Int
  BY DEF Sheets
<1>2. Scrolled(s.cells) \in [Cells -> Items]
  BY <1>0, <1>1, Zenon DEF Scrolled
<1>3. [cells |-> Scrolled(s.cells), pos |-> s.pos - Width] \in Sheets
  <2>1. s.pos - Width \in Int
    BY <1>1, CellsFacts
  <2>2. QED
    BY <1>2, <2>1, Zenon DEF Sheets
<1>4. QED
  BY <1>3 DEF Advanced, Scrolled

LEMMA TypedType ==
  ASSUME NEW s \in Sheets, s.pos \in Cells, NEW c \in Items
  PROVE  Typed(s, c) \in Sheets
<1>1. s.cells \in [Cells -> Items] /\ s.pos \in Int /\ s.pos \in Nat /\ Width \in Nat \ {0}
  BY TerminalAssumption DEF Sheets, Cells
<1>2. ASSUME NEW q \in Int PROVE [s EXCEPT !.pos = q] \in Sheets
  BY DEF Sheets
<1>3. CASE c = "nl"
  <2>1. (s.pos \div Width + 1) * Width \in Int
    BY <1>1
  <2>2. QED
    BY <1>2, <1>3, <2>1, AdvancedType DEF Typed
<1>4. CASE c = "cr"
  <2>1. s.pos - (s.pos % Width) \in Int
    BY <1>1
  <2>2. QED
    BY <1>2, <1>4, <2>1 DEF Typed
<1>5. CASE c = "bs"
  BY <1>1, <1>2, <1>5 DEF Typed
<1>7. CASE c \notin {"nl", "cr", "bs"}
  <2>1. [s.cells EXCEPT ![s.pos] = c] \in [Cells -> Items] /\ s.pos + 1 \in Int
    BY <1>1
  <2>2. [cells |-> [s.cells EXCEPT ![s.pos] = c], pos |-> s.pos + 1] \in Sheets
    BY <2>1 DEF Sheets
  <2>3. QED
    BY <1>7, <2>2, AdvancedType DEF Typed
<1>8. QED
  BY <1>3, <1>4, <1>5, <1>7

\* The sheet after a character.
LEMMA Draws ==
  ASSUME TerminalInv, Running.todo # <<>>, Draw
  PROVE  /\ sheet' \in Sheets /\ UNCHANGED <<mixed, torn>>
         /\ sheet'.pos \in Cells => sheet.pos \in Cells /\ sheet' = Typed(sheet, item)
<1>1. stack \in Seq(Contexts) /\ (Len(stack) = 1 \/ Len(stack) = 2) /\ sheet \in Sheets
  BY DEF TypeInv, TerminalInv
<1>2. Running \in Contexts
  BY <1>1, LastIn, Zenon DEF Running
<1>3. item \in Items
  BY <1>2 DEF item, Contexts
<1>4. QED
  BY <1>1, <1>3, TypedType DEF Draw, item

LEMMA Ends ==
  ASSUME TerminalInv, Running.todo # <<>>, Through
  PROVE  TerminalInv'
<1>1. /\ stack' \in Seq(Contexts) /\ Len(stack') = Len(stack)
      /\ Running'.at = "ready" /\ Running'.todo = Tail(Running.todo)
      /\ Len(stack) = 2 => stack'[1] = stack[1]
  BY Finishes DEF Through, TerminalInv
<1>2. stack \in Seq(Contexts) /\ (Len(stack) = 1 \/ Len(stack) = 2)
  BY DEF TypeInv, TerminalInv
<1>3. Running.todo \in Seq(Items)
  <2>1. Running \in Contexts
    BY <1>2, LastIn, Zenon DEF Running
  <2>2. QED
    BY <2>1 DEF Contexts
<1>4. Running.todo[Len(Running.todo)] \in {"nl", "cursor"}
  BY DEF TerminalInv, StackInv, Proper
<1>5. TypeInv'
  BY <1>1 DEF TypeInv, TerminalInv, Through, Painted
<1>6. StackInv'
  <2>1. Proper(Running')
    BY <1>1, <1>3, <1>4, LastTail DEF Proper, Putting
  <2>2. Proper(stack'[1])
    <3>1. CASE Len(stack) = 2
      BY <1>1, <3>1 DEF StackInv, TerminalInv
    <3>2. CASE Len(stack) = 1
      BY <1>1, <2>1, <3>2 DEF Running
    <3>3. QED
      BY <1>2, <3>1, <3>2
  <2>3. QED
    BY <1>1, <2>1, <2>2 DEF StackInv, TerminalInv, Through, Painted
<1>7. Drawer' = Running' \/ (Len(stack) = 2 /\ Drawer' = stack[1])
  BY <1>1, <1>2 DEF Drawer, Running
<1>8. ScreenInv'
  <2>1. SUFFICES ASSUME ~ mixed, sheet'.pos \in Cells
                 PROVE  /\ ~ stray'
                        /\ Drawn(Drawer'.at, Drawer'.a, Drawer'.b, Head(Drawer'.todo),
                                 curr_x', curr_y', screen', sheet')
    BY DEF ScreenInv, Through, Painted
  <2>2. Drawer'.at \in Settled /\ "ready" \in Settled
    BY <1>1, <1>7, <2>1 DEF TerminalInv, StackInv, Settled
  <2>3. QED
    BY <2>1, <2>2, DrawSettled DEF Through
<1>9. CursorInv'
  <2>1. SUFFICES ASSUME ~ torn
                 PROVE  /\ Sent(Drawer'.at, Drawer'.a, curr_x', curr_y', index', cursor')
                        /\ Drawer'.todo = <<>> => Shows(cursor', curr_x', curr_y')
    BY DEF CursorInv, Through
  <2>2. Drawer'.at \notin Sending
    BY <1>1, <1>7, <2>1 DEF TerminalInv, StackInv, Sending
  <2>3. Drawer'.todo = <<>> => Running'.todo = <<>>
    BY DEF Drawer
  <2>4. Running'.todo = <<>> => item \in {"nl", "cursor"}
    BY <1>1, <1>3, <1>4, LastTail DEF item
  <2>5. QED
    BY <2>1, <2>2, <2>3, <2>4 DEF Through, Sent, Sending
<1>10. QED
  BY <1>5, <1>6, <1>8, <1>9 DEF TerminalInv

-----------------------------------------------------------------------------
(***************************************************************************)
(* Every step keeps the invariant.                                         *)
(***************************************************************************)

\* The running context is not through.
LEMMA Busy ==
  ASSUME TerminalInv, NEW l, At(l), l # "ready"
  PROVE  Prints /\ Running.todo # <<>>
  BY DEF TerminalInv, StackInv, Proper, At, Prints, item

\* What the invariant says of the context, by its values.
LEMMA Now ==
  ASSUME TerminalInv, Running.todo # <<>>
  PROVE  /\ Running.a \in Int /\ Running.b \in Int /\ item \in Items
         /\ curr_x \in Int /\ curr_y \in Int /\ screen \in [Cells -> Items]
         /\ index \in {"lsb", "msb"} /\ cursor \in [{"lsb", "msb"} -> Int]
         /\ sheet \in Sheets /\ torn \in BOOLEAN
         /\ Running.at \in Putting => Printable(item)
         /\ ~ mixed /\ sheet.pos \in Cells =>
              /\ Drawing(item, sheet, curr_x, curr_y) /\ ~ stray
              /\ Drawn(Running.at, Running.a, Running.b, item, curr_x, curr_y, screen,
                       sheet)
         /\ ~ torn => Sent(Running.at, Running.a, curr_x, curr_y, index, cursor)
<1>1. /\ stack \in Seq(Contexts) /\ (Len(stack) = 1 \/ Len(stack) = 2)
      /\ sheet \in Sheets
  BY DEF TypeInv, TerminalInv
<1>2. Running \in Contexts
  BY <1>1, LastIn, Zenon DEF Running
<1>3. Running.todo \in Seq(Items) /\ Running.a \in Int /\ Running.b \in Int
  BY <1>2 DEF Contexts
<1>4. item \in Items
  BY <1>3 DEF item
<1>5. Drawer = Running
  BY DEF Drawer
<1>6. Running.at \in Putting => Printable(item)
  BY DEF TerminalInv, StackInv, Proper, item
<1>7. QED
  BY <1>1, <1>3, <1>4, <1>5, <1>6
  DEF TerminalInv, TypeInv, ScreenInv, CursorInv, Drawing, item

LEMMA NewLineKeeps == ASSUME TerminalInv, NewLine PROVE TerminalInv'
<1>1. Prints /\ Running.todo # <<>>
  BY Busy DEF NewLine, Item, Prints, item
<1>2. MoveTo("nl_load", Running.a, Running.b)
  <2>1. /\ GoWith("nl_load", Running.a, Running.b) /\ curr_x' = 0
        /\ UNCHANGED <<curr_y, screen, stray, index, cursor, code, history>>
    BY DEF NewLine, Go, crtc, keyboard, handlerVars
  <2>2. (Running.at = "ready" /\ item = "nl") \/ Running.at = "newline"
    BY DEF NewLine, Item, At, item
  <2>3. ~ mixed /\ sheet.pos \in Cells =>
          Drawn("nl_load", Running.a, Running.b, item, 0, curr_y, screen, sheet)
    BY <1>1, <2>2, Now, DrawLine
  <2>4. QED
    BY <1>1, <2>1, <2>3, Now DEF MoveTo, Painted, Locations, history, Putting, Sent
<1>3. QED
  BY <1>1, <1>2, Moves

LEMMA NewLineLoadKeeps == ASSUME TerminalInv, NewLineLoad PROVE TerminalInv'
<1>1. Prints /\ Running.todo # <<>> /\ Running.at = "nl_load"
  BY Busy DEF NewLineLoad, At
<1>2. MoveTo("nl_store", curr_y, Running.b)
  <2>1. /\ GoWith("nl_store", curr_y, Running.b)
        /\ UNCHANGED <<curr_x, curr_y, screen, stray, index, cursor, code, history>>
    BY DEF NewLineLoad, screenVars, crtc, keyboard, handlerVars
  <2>2. ~ mixed /\ sheet.pos \in Cells =>
          Drawn("nl_store", curr_y, Running.b, item, curr_x, curr_y, screen, sheet)
    BY <1>1, Now, DrawLineLoad
  <2>3. QED
    BY <1>1, <2>1, <2>2, Now DEF MoveTo, Painted, Locations, history, Putting, Sent
<1>3. QED
  BY <1>1, <1>2, Moves

LEMMA NewLineStoreKeeps == ASSUME TerminalInv, NewLineStore PROVE TerminalInv'
<1>1. Prints /\ Running.todo # <<>> /\ Running.at = "nl_store"
  BY Busy DEF NewLineStore, At
<1>2. MoveTo("nl_test", Running.a, Running.b)
  <2>1. /\ GoWith("nl_test", Running.a, Running.b) /\ curr_y' = Running.a + 1
        /\ UNCHANGED <<curr_x, screen, stray, index, cursor, code, history>>
    BY DEF NewLineStore, Go, crtc, keyboard, handlerVars
  <2>2. ~ mixed /\ sheet.pos \in Cells =>
          Drawn("nl_test", Running.a, Running.b, item, curr_x, Running.a + 1, screen, sheet)
    BY <1>1, Now, DrawLineStore
  <2>3. QED
    BY <1>1, <2>1, <2>2, Now DEF MoveTo, Painted, Locations, history, Putting, Sent
<1>3. QED
  BY <1>1, <1>2, Moves

LEMMA NewLineTestKeeps == ASSUME TerminalInv, NewLineTest PROVE TerminalInv'
<1>1. Prints /\ Running.todo # <<>> /\ Running.at = "nl_test"
  BY Busy DEF NewLineTest, At
<1>2. UNCHANGED <<curr_x, curr_y, screen, stray, index, cursor, code>>
  BY DEF NewLineTest, screenVars, crtc, keyboard, handlerVars
<1>3. CASE curr_y = Height /\ GoWith("scroll", 0, 0) /\ UNCHANGED history
  <2>1. ~ mixed /\ sheet.pos \in Cells =>
          Drawn("scroll", 0, 0, item, curr_x, curr_y, screen, sheet)
    BY <1>1, <1>3, Now, DrawLineTest
  <2>2. MoveTo("scroll", 0, 0)
    BY <1>1, <1>2, <1>3, <2>1, Now DEF MoveTo, Painted, Locations, history, Putting, Sent
  <2>3. QED
    BY <1>1, <2>2, Moves
<1>4. CASE curr_y # Height /\ GoWith("cur_y", Running.a, Running.b) /\ Draw
  <2>1. ~ mixed /\ sheet.pos \in Cells =>
          Drawn("cur_y", Running.a, Running.b, item, curr_x, curr_y, screen,
                Typed(sheet, item))
    BY <1>1, <1>4, Now, DrawLineTest
  <2>2. /\ sheet' \in Sheets /\ UNCHANGED <<mixed, torn>>
        /\ sheet'.pos \in Cells => sheet.pos \in Cells /\ sheet' = Typed(sheet, item)
    BY <1>1, <1>4, Draws
  <2>3. MoveTo("cur_y", Running.a, Running.b)
    BY <1>1, <1>2, <1>4, <2>1, <2>2, Now DEF MoveTo, Painted, Locations, Putting, Sent
  <2>4. QED
    BY <1>1, <2>3, Moves
<1>5. QED
  BY <1>3, <1>4 DEF NewLineTest, AtBottom, Go

LEMMA RowUpType ==
  ASSUME screen \in [Cells -> Items], NEW n
  PROVE  RowUp(n) \in [Cells -> Items]
<1>1. " " \in Items
  BY DEF Items
<1>2. ASSUME NEW i \in Cells, ~ (i \div Width # n), n # Height - 1
      PROVE  i + Width \in Cells
  BY <1>2, CellRow
<1>3. ASSUME NEW i \in Cells
      PROVE  (IF i \div Width # n THEN screen[i]
              ELSE IF n = Height - 1 THEN " " ELSE screen[i + Width]) \in Items
  BY <1>1, <1>2, Zenon
<1>4. QED
  BY <1>3, Zenon DEF RowUp

LEMMA ScrollRowKeeps == ASSUME TerminalInv, ScrollRow PROVE TerminalInv'
<1>1. Prints /\ Running.todo # <<>> /\ Running.at = "scroll"
  BY Busy DEF ScrollRow, At
<1>2. /\ screen' = RowUp(Running.a)
      /\ UNCHANGED <<curr_x, curr_y, stray, index, cursor, code, history>>
  BY DEF ScrollRow, crtc, keyboard, handlerVars
<1>3. screen' \in [Cells -> Items]
  BY <1>1, <1>2, Now, RowUpType
<1>4. ASSUME ~ mixed, sheet.pos \in Cells
      PROVE  /\ Running.a < Height - 1 =>
                  Drawn("scroll", Running.a + 1, 0, item, curr_x, curr_y, screen', sheet)
             /\ ~ (Running.a < Height - 1) =>
                  Drawn("scroll_x", Running.a, Running.b, item, curr_x, curr_y, screen',
                        sheet)
  <2>1. /\ Drawing(item, sheet, curr_x, curr_y)
        /\ Drawn("scroll", Running.a, Running.b, item, curr_x, curr_y, screen, sheet)
    BY <1>1, <1>4, Now
  <2>2. Running.a \in 0 .. Height - 1 /\ screen = Moved(Shown(sheet, item), Running.a)
    BY <2>1 DEF Drawn, Settled, Sending, Putting
  <2>3. Shown(sheet, item) \in [Cells -> Items]
    BY <2>1, ShownType DEF Drawing
  <2>4. screen' = Moved(Shown(sheet, item), Running.a + 1)
    <3>1. RowUp(Running.a) = RowUpIn(screen, Running.a)
      BY DEF RowUp, RowUpIn
    <3>2. QED
      BY <1>2, <2>2, <2>3, <3>1, RowMoved
  <2>5. QED
    BY <2>1, <2>4, DrawScroll
<1>5. CASE Running.a < Height - 1 /\ GoWith("scroll", Running.a + 1, 0)
  <2>1. MoveTo("scroll", Running.a + 1, 0)
    BY <1>1, <1>2, <1>3, <1>4, <1>5, Now DEF MoveTo, Painted, Locations, history, Putting, Sent
  <2>2. QED
    BY <1>1, <2>1, Moves
<1>6. CASE ~ (Running.a < Height - 1) /\ GoWith("scroll_x", Running.a, Running.b)
  <2>1. MoveTo("scroll_x", Running.a, Running.b)
    BY <1>1, <1>2, <1>3, <1>4, <1>6, Now DEF MoveTo, Painted, Locations, history, Putting, Sent
  <2>2. QED
    BY <1>1, <2>1, Moves
<1>7. QED
  BY <1>5, <1>6 DEF ScrollRow, Go

LEMMA ScrollXKeeps == ASSUME TerminalInv, ScrollX PROVE TerminalInv'
<1>1. Prints /\ Running.todo # <<>> /\ Running.at = "scroll_x"
  BY Busy DEF ScrollX, At
<1>2. MoveTo("scroll_y", Running.a, Running.b)
  <2>1. /\ GoWith("scroll_y", Running.a, Running.b) /\ curr_x' = 0
        /\ UNCHANGED <<curr_y, screen, stray, index, cursor, code, history>>
    BY DEF ScrollX, Go, crtc, keyboard, handlerVars
  <2>2. ~ mixed /\ sheet.pos \in Cells =>
          Drawn("scroll_y", Running.a, Running.b, item, 0, curr_y, screen, sheet)
    BY <1>1, Now, DrawScrollX
  <2>3. QED
    BY <1>1, <2>1, <2>2, Now DEF MoveTo, Painted, Locations, history, Putting, Sent
<1>3. QED
  BY <1>1, <1>2, Moves

LEMMA ScrollYKeeps == ASSUME TerminalInv, ScrollY PROVE TerminalInv'
<1>1. Prints /\ Running.todo # <<>> /\ Running.at = "scroll_y"
  BY Busy DEF ScrollY, At
<1>2. MoveTo("cur_y", Running.a, Running.b)
  <2>1. /\ GoWith("cur_y", Running.a, Running.b) /\ curr_y' = Height - 1 /\ Draw
        /\ UNCHANGED <<curr_x, screen, stray, index, cursor, code>>
    BY DEF ScrollY, Go, crtc, keyboard, handlerVars
  <2>2. ~ mixed /\ sheet.pos \in Cells =>
          Drawn("cur_y", Running.a, Running.b, item, curr_x, Height - 1, screen,
                Typed(sheet, item))
    BY <1>1, Now, DrawScrollY
  <2>3. /\ sheet' \in Sheets /\ UNCHANGED <<mixed, torn>>
        /\ sheet'.pos \in Cells => sheet.pos \in Cells /\ sheet' = Typed(sheet, item)
    BY <1>1, <2>1, Draws
  <2>4. QED
    BY <1>1, <2>1, <2>2, <2>3, Now, CellsFacts
    DEF MoveTo, Painted, Locations, Putting, Sent
<1>3. QED
  BY <1>1, <1>2, Moves

LEMMA PutLoadXKeeps == ASSUME TerminalInv, PutLoadX PROVE TerminalInv'
<1>1. Prints /\ Running.todo # <<>> /\ Running.at = "put_x"
  BY Busy DEF PutLoadX, At
<1>2. MoveTo("put", Running.a, curr_x)
  <2>1. /\ GoWith("put", Running.a, curr_x)
        /\ UNCHANGED <<curr_x, curr_y, screen, stray, index, cursor, code, history>>
    BY DEF PutLoadX, screenVars, crtc, keyboard, handlerVars
  <2>2. ~ mixed /\ sheet.pos \in Cells =>
          Drawn("put", Running.a, curr_x, item, curr_x, curr_y, screen, sheet)
    BY <1>1, Now, DrawPutX
  <2>3. QED
    BY <1>1, <2>1, <2>2, Now DEF MoveTo, Painted, Locations, history, Putting, Sent
<1>3. QED
  BY <1>1, <1>2, Moves

LEMMA IncLoadKeeps == ASSUME TerminalInv, IncLoad PROVE TerminalInv'
<1>1. Prints /\ Running.todo # <<>> /\ Running.at = "x_load"
  BY Busy DEF IncLoad, At
<1>2. MoveTo("x_store", curr_x, Running.b)
  <2>1. /\ GoWith("x_store", curr_x, Running.b)
        /\ UNCHANGED <<curr_x, curr_y, screen, stray, index, cursor, code, history>>
    BY DEF IncLoad, screenVars, crtc, keyboard, handlerVars
  <2>2. ~ mixed /\ sheet.pos \in Cells =>
          Drawn("x_store", curr_x, Running.b, item, curr_x, curr_y, screen, sheet)
    BY <1>1, Now, DrawIncLoad
  <2>3. QED
    BY <1>1, <2>1, <2>2, Now DEF MoveTo, Painted, Locations, history, Putting, Sent
<1>3. QED
  BY <1>1, <1>2, Moves

LEMMA IncStoreKeeps == ASSUME TerminalInv, IncStore PROVE TerminalInv'
<1>1. Prints /\ Running.todo # <<>> /\ Running.at = "x_store"
  BY Busy DEF IncStore, At
<1>2. MoveTo("x_test", Running.a, Running.b)
  <2>1. /\ GoWith("x_test", Running.a, Running.b) /\ curr_x' = Running.a + 1
        /\ UNCHANGED <<curr_y, screen, stray, index, cursor, code, history>>
    BY DEF IncStore, Go, crtc, keyboard, handlerVars
  <2>2. ~ mixed /\ sheet.pos \in Cells =>
          Drawn("x_test", Running.a, Running.b, item, Running.a + 1, curr_y, screen, sheet)
    BY <1>1, Now, DrawIncStore
  <2>3. QED
    BY <1>1, <2>1, <2>2, Now DEF MoveTo, Painted, Locations, history, Putting, Sent
<1>3. QED
  BY <1>1, <1>2, Moves

LEMMA PutLoadYKeeps == ASSUME TerminalInv, PutLoadY PROVE TerminalInv'
<1>1. Prints /\ Running.todo # <<>> /\ Running.at = "ready" /\ Printable(item)
  BY DEF PutLoadY, At, item, Prints, Printable
<1>2. MoveTo("put_x", curr_y, Running.b)
  <2>1. /\ GoWith("put_x", curr_y, Running.b)
        /\ UNCHANGED <<curr_x, curr_y, screen, stray, index, cursor, code, history>>
    BY DEF PutLoadY, screenVars, crtc, keyboard, handlerVars
  <2>2. ~ mixed /\ sheet.pos \in Cells =>
          Drawn("put_x", curr_y, Running.b, item, curr_x, curr_y, screen, sheet)
    BY <1>1, Now, DrawPut
  <2>3. QED
    BY <1>1, <2>1, <2>2, Now DEF MoveTo, Painted, Locations, history, Putting, Sent
<1>3. QED
  BY <1>1, <1>2, Moves

LEMMA PutEntryKeeps == ASSUME TerminalInv, PutEntry PROVE TerminalInv'
<1> DEFINE cell == Running.a * Width + Running.b
<1>1. Prints /\ Running.todo # <<>> /\ Running.at = "put"
  BY Busy DEF PutEntry, At
<1>2. /\ GoWith("x_load", Running.a, Running.b)
      /\ UNCHANGED <<curr_x, curr_y, index, cursor, code, history>>
      /\ \/ cell \in Cells /\ screen' = [screen EXCEPT ![cell] = item] /\ stray' = stray
         \/ cell \notin Cells /\ screen' = screen
  BY DEF PutEntry, Go, crtc, keyboard, handlerVars, item
<1>3. screen' \in [Cells -> Items]
  BY <1>1, <1>2, Now
<1>4. ASSUME ~ mixed, sheet.pos \in Cells
      PROVE  /\ cell = sheet.pos
             /\ Drawn("x_load", Running.a, Running.b, item, curr_x, curr_y,
                      [screen EXCEPT ![cell] = item], sheet)
  <2>1. Drawn("put", Running.a, Running.b, item, curr_x, curr_y, screen, sheet)
    BY <1>1, <1>4, Now
  <2>2. QED
    BY <2>1, DrawEntry, Zenon
<1> HIDE DEF cell
<1>5. ~ mixed /\ sheet.pos \in Cells =>
        /\ ~ stray'
        /\ Drawn("x_load", Running.a, Running.b, item, curr_x, curr_y, screen', sheet)
  BY <1>1, <1>2, <1>4, Now
<1>6. MoveTo("x_load", Running.a, Running.b)
  BY <1>1, <1>2, <1>3, <1>5, Now DEF MoveTo, Painted, Locations, history, Putting, Sent
<1>7. QED
  BY <1>1, <1>6, Moves

LEMMA IncTestKeeps == ASSUME TerminalInv, IncTest PROVE TerminalInv'
<1>1. Prints /\ Running.todo # <<>> /\ Running.at = "x_test"
  BY Busy DEF IncTest, At
<1>2. UNCHANGED <<curr_x, curr_y, screen, stray, index, cursor, code>>
  BY DEF IncTest, screenVars, crtc, keyboard, handlerVars
<1>3. CASE curr_x = Width /\ GoWith("newline", Running.a, Running.b) /\ UNCHANGED history
  <2>1. ~ mixed /\ sheet.pos \in Cells =>
          Drawn("newline", Running.a, Running.b, item, curr_x, curr_y, screen, sheet)
    BY <1>1, <1>3, Now, DrawIncTest
  <2>2. MoveTo("newline", Running.a, Running.b)
    BY <1>1, <1>2, <1>3, <2>1, Now DEF MoveTo, Painted, Locations, history, Putting, Sent
  <2>3. QED
    BY <1>1, <2>2, Moves
<1>4. CASE curr_x # Width /\ Finish /\ Draw
  <2>1. ~ mixed /\ sheet.pos \in Cells =>
          Drawn("ready", 0, 0, item, curr_x, curr_y, screen, Typed(sheet, item))
    BY <1>1, <1>4, Now, DrawIncTest
  <2>2. item \notin {"nl", "cursor"}
    BY <1>1, Now DEF Putting, Printable
  <2>3. /\ sheet' \in Sheets /\ UNCHANGED <<mixed, torn>>
        /\ sheet'.pos \in Cells => sheet.pos \in Cells /\ sheet' = Typed(sheet, item)
    BY <1>1, <1>4, Draws
  <2>4. Through
    BY <1>1, <1>2, <1>4, <2>1, <2>2, <2>3, Now DEF Through, Painted
  <2>5. QED
    BY <1>1, <2>4, Ends
<1>5. QED
  BY <1>3, <1>4 DEF IncTest, Go

\* The remainder is the only one.
LEMMA OneRemainder ==
  ASSUME NEW m \in Nat \ {0}, NEW g \in Int, NEW l \in 0 .. m - 1, NEW q \in Int,
         q = g * m + l
  PROVE  q % m = l
<1>1. PICK d \in Int, e \in 0 .. m - 1 : d = q \div m /\ e = q % m /\ q = d * m + e
  OBVIOUS
<1>2. (g - d) * m = e - l
  BY <1>1
<1>3. ~ (g - d >= 1)
  <2>1. SUFFICES ASSUME g - d >= 1 PROVE FALSE
    OBVIOUS
  <2>2. (g - d) * m >= m
    BY <2>1
  <2>3. QED
    BY <1>1, <1>2, <2>2
<1>4. ~ (d - g >= 1)
  <2>1. SUFFICES ASSUME d - g >= 1 PROVE FALSE
    OBVIOUS
  <2>2. (d - g) * m >= m /\ (d - g) * m = l - e
    BY <1>2, <2>1
  <2>3. QED
    BY <1>1, <2>2
<1>5. g = d
  BY <1>3, <1>4
<1>6. QED
  BY <1>1, <1>5

\* A position is what its two bytes say, to the width of two bytes.
LEMMA TwoBytes ==
  ASSUME NEW m \in Nat \ {0}, NEW q \in Int
  PROVE  ((q \div m) % m) * m + (q % m) = q % (m * m)
<1>1. PICK h \in Int, l \in 0 .. m - 1 : h = q \div m /\ l = q % m /\ q = h * m + l
  OBVIOUS
<1>2. PICK g \in Int, u \in 0 .. m - 1 : g = h \div m /\ u = h % m /\ h = g * m + u
  OBVIOUS
<1>3. u * m \in Nat /\ m * m \in Nat \ {0} /\ g * (m * m) \in Int /\ g * m \in Int
  OBVIOUS
<1>4. u * m + l \in 0 .. m * m - 1
  <2>1. (m - 1) * m = m * m - m
    OBVIOUS
  <2>2. u * m <= (m - 1) * m
    OBVIOUS
  <2>3. QED
    BY <1>3, <2>1, <2>2
<1>5. q = g * (m * m) + (u * m + l)
  <2>1. h * m = (g * m) * m + u * m
    BY <1>2, <1>3
  <2>2. (g * m) * m = g * (m * m)
    OBVIOUS
  <2>3. QED
    BY <1>1, <1>3, <2>1, <2>2
<1>6. q % (m * m) = u * m + l
  <2>1. PICK mm \in Nat \ {0}, v \in Int : mm = m * m /\ v = u * m + l
    BY <1>3
  <2>2. v \in 0 .. mm - 1 /\ q = g * mm + v
    BY <1>4, <1>5, <2>1, Zenon
  <2>3. q % mm = v
    BY <2>2, OneRemainder
  <2>4. QED
    BY <2>1, <2>3, Zenon
<1>7. QED
  BY <1>1, <1>2, <1>6, Zenon

LEMMA CursorLoadYKeeps == ASSUME TerminalInv, CursorLoadY PROVE TerminalInv'
<1>1. /\ Prints /\ Running.todo # <<>>
      /\ (Running.at = "ready" /\ item = "cursor") \/ Running.at = "cur_y"
  BY Busy DEF CursorLoadY, Item, At, Prints, item
<1>2. /\ GoWith("cur_x", curr_y, Running.b)
      /\ torn' = (Len(stack) = 2 /\ stack[1].at \in Sending)
      /\ UNCHANGED <<curr_x, curr_y, screen, stray, index, cursor, code, sheet, mixed>>
  BY DEF CursorLoadY, screenVars, crtc, keyboard, handlerVars
<1>3. ~ mixed /\ sheet.pos \in Cells =>
        Drawn("cur_x", curr_y, Running.b, item, curr_x, curr_y, screen, sheet)
  <2>1. "cur_x" \in Settled /\ Running.at \in Settled
    BY <1>1 DEF Settled, Sending
  <2>2. QED
    BY <1>1, <2>1, Now, DrawSettled
<1>4. MoveTo("cur_x", curr_y, Running.b)
  BY <1>1, <1>2, <1>3, Now DEF MoveTo, Painted, Locations, history, Putting, Sent
<1>5. QED
  BY <1>1, <1>4, Moves

LEMMA CursorLoadXKeeps == ASSUME TerminalInv, CursorLoadX PROVE TerminalInv'
<1>1. Prints /\ Running.todo # <<>> /\ Running.at = "cur_x"
  BY Busy DEF CursorLoadX, At
<1>2. /\ GoWith("cur_lsb", Running.a * Width + curr_x, Running.b)
      /\ UNCHANGED <<curr_x, curr_y, screen, stray, index, cursor, code, history>>
  BY DEF CursorLoadX, screenVars, crtc, keyboard, handlerVars
<1>3. ~ mixed /\ sheet.pos \in Cells =>
        Drawn("cur_lsb", Running.a * Width + curr_x, Running.b, item, curr_x, curr_y, screen, sheet)
  <2>1. "cur_lsb" \in Settled /\ Running.at \in Settled
    BY <1>1 DEF Settled, Sending
  <2>2. QED
    BY <1>1, <2>1, Now, DrawSettled
<1>4. MoveTo("cur_lsb", Running.a * Width + curr_x, Running.b)
  <2>1. Running.a * Width + curr_x \in Int
    BY <1>1, Now, CellsFacts
  <2>2. ~ torn => Running.a = curr_y
    BY <1>1, Now DEF Sent
  <2>3. ~ torn =>
          Sent("cur_lsb", Running.a * Width + curr_x, curr_x, curr_y, index, cursor)
    BY <2>2 DEF Sent
  <2>4. QED
    BY <1>1, <1>2, <1>3, <2>1, <2>3, Now DEF MoveTo, Painted, Locations, history, Putting
<1>5. QED
  BY <1>1, <1>4, Moves

LEMMA SelectLsbKeeps == ASSUME TerminalInv, SelectLsb PROVE TerminalInv'
<1>1. Prints /\ Running.todo # <<>> /\ Running.at = "cur_lsb"
  BY Busy DEF SelectLsb, At
<1>2. /\ GoWith("cur_lsb_data", Running.a, Running.b) /\ index' = "lsb"
      /\ UNCHANGED <<curr_x, curr_y, screen, stray, cursor, code, history>>
  BY DEF SelectLsb, Go, screenVars, crtc, keyboard, handlerVars
<1>3. ~ mixed /\ sheet.pos \in Cells =>
        Drawn("cur_lsb_data", Running.a, Running.b, item, curr_x, curr_y, screen, sheet)
  <2>1. "cur_lsb_data" \in Settled /\ Running.at \in Settled
    BY <1>1 DEF Settled, Sending
  <2>2. QED
    BY <1>1, <2>1, Now, DrawSettled
<1>4. MoveTo("cur_lsb_data", Running.a, Running.b)
  <2>1. ~ torn =>
          Sent("cur_lsb_data", Running.a, curr_x, curr_y, index', cursor)
    BY <1>1, <1>2, Now DEF Sent
  <2>2. QED
    BY <1>1, <1>2, <1>3, <2>1, Now DEF MoveTo, Painted, Locations, history, Putting
<1>5. QED
  BY <1>1, <1>4, Moves

LEMMA SendLsbKeeps == ASSUME TerminalInv, SendLsb PROVE TerminalInv'
<1>1. Prints /\ Running.todo # <<>> /\ Running.at = "cur_lsb_data"
  BY Busy DEF SendLsb, At
<1>2. /\ GoWith("cur_msb", Running.a, Running.b) /\ cursor' = [cursor EXCEPT ![index] = Running.a % ByteMod]
      /\ UNCHANGED <<curr_x, curr_y, screen, stray, index, code, history>>
  BY DEF SendLsb, Go, screenVars, crtc, keyboard, handlerVars
<1>3. ~ mixed /\ sheet.pos \in Cells =>
        Drawn("cur_msb", Running.a, Running.b, item, curr_x, curr_y, screen, sheet)
  <2>1. "cur_msb" \in Settled /\ Running.at \in Settled
    BY <1>1 DEF Settled, Sending
  <2>2. QED
    BY <1>1, <2>1, Now, DrawSettled
<1>4. MoveTo("cur_msb", Running.a, Running.b)
  <2>1. Running.a % ByteMod \in Int
    BY <1>1, Now, TerminalAssumption
  <2>2. cursor' \in [{"lsb", "msb"} -> Int] /\ cursor'[index] = Running.a % ByteMod
    BY <1>1, <1>2, <2>1, Now
  <2>3. ~ torn =>
          Sent("cur_msb", Running.a, curr_x, curr_y, index, cursor')
    BY <1>1, <2>2, Now DEF Sent
  <2>4. QED
    BY <1>1, <1>2, <1>3, <2>2, <2>3, Now DEF MoveTo, Painted, Locations, history, Putting
<1>5. QED
  BY <1>1, <1>4, Moves

LEMMA SelectMsbKeeps == ASSUME TerminalInv, SelectMsb PROVE TerminalInv'
<1>1. Prints /\ Running.todo # <<>> /\ Running.at = "cur_msb"
  BY Busy DEF SelectMsb, At
<1>2. /\ GoWith("cur_msb_data", Running.a, Running.b) /\ index' = "msb"
      /\ UNCHANGED <<curr_x, curr_y, screen, stray, cursor, code, history>>
  BY DEF SelectMsb, Go, screenVars, crtc, keyboard, handlerVars
<1>3. ~ mixed /\ sheet.pos \in Cells =>
        Drawn("cur_msb_data", Running.a, Running.b, item, curr_x, curr_y, screen, sheet)
  <2>1. "cur_msb_data" \in Settled /\ Running.at \in Settled
    BY <1>1 DEF Settled, Sending
  <2>2. QED
    BY <1>1, <2>1, Now, DrawSettled
<1>4. MoveTo("cur_msb_data", Running.a, Running.b)
  <2>1. ~ torn =>
          Sent("cur_msb_data", Running.a, curr_x, curr_y, index', cursor)
    BY <1>1, <1>2, Now DEF Sent
  <2>2. QED
    BY <1>1, <1>2, <1>3, <2>1, Now DEF MoveTo, Painted, Locations, history, Putting
<1>5. QED
  BY <1>1, <1>4, Moves

LEMMA SendMsbKeeps == ASSUME TerminalInv, SendMsb PROVE TerminalInv'
<1>1. Prints /\ Running.todo # <<>> /\ Running.at = "cur_msb_data"
  BY Busy DEF SendMsb, At
<1>2. /\ Finish /\ cursor' = [cursor EXCEPT ![index] = (Running.a \div ByteMod) % ByteMod]
      /\ UNCHANGED <<curr_x, curr_y, screen, stray, index, code, history>>
  BY DEF SendMsb, screenVars, keyboard, handlerVars
<1>3. Running.a \div ByteMod \in Int /\ (Running.a \div ByteMod) % ByteMod \in Int
  BY <1>1, Now, TerminalAssumption
<1>4. /\ cursor' \in [{"lsb", "msb"} -> Int]
      /\ cursor'[index] = (Running.a \div ByteMod) % ByteMod
      /\ index = "msb" => cursor'["lsb"] = cursor["lsb"]
  BY <1>1, <1>2, <1>3, Now
<1>5. ~ mixed /\ sheet.pos \in Cells =>
        ~ stray /\ Drawn("ready", 0, 0, item, curr_x, curr_y, screen, sheet)
  <2>1. "ready" \in Settled /\ Running.at \in Settled
    BY <1>1 DEF Settled, Sending
  <2>2. QED
    BY <1>1, <2>1, Now, DrawSettled
<1>6. ASSUME ~ torn PROVE Shows(cursor', curr_x, curr_y)
  <2>1. /\ Running.a = curr_y * Width + curr_x /\ index = "msb"
        /\ cursor["lsb"] = Running.a % ByteMod
    BY <1>1, <1>6, Now DEF Sent
  <2>2. Running.a \in Int /\ ByteMod \in Nat \ {0}
    BY <1>1, Now, TerminalAssumption
  <2>3. ((Running.a \div ByteMod) % ByteMod) * ByteMod + (Running.a % ByteMod)
          = Running.a % (ByteMod * ByteMod)
    BY <2>2, TwoBytes
  <2>4. QED
    BY <1>4, <2>1, <2>3, Zenon DEF Shows
<1>7. Through
  BY <1>1, <1>2, <1>4, <1>5, <1>6, Now DEF Through, Painted, history
<1>8. QED
  BY <1>1, <1>7, Ends

LEMMA CarriageReturnKeeps == ASSUME TerminalInv, CarriageReturn PROVE TerminalInv'
<1>1. Running.todo # <<>> /\ Running.at = "ready" /\ item = "cr"
  BY DEF CarriageReturn, Item, At, item
<1>2. /\ Finish /\ Draw /\ curr_x' = 0
      /\ UNCHANGED <<curr_y, screen, stray, index, cursor, code>>
  BY DEF CarriageReturn, crtc, keyboard, handlerVars
<1>3. ~ mixed /\ sheet.pos \in Cells =>
        /\ ~ stray
        /\ Drawn("ready", 0, 0, item, 0, curr_y, screen, Typed(sheet, item))
  BY <1>1, Now, DrawReturn
<1>4. /\ sheet' \in Sheets /\ UNCHANGED <<mixed, torn>>
      /\ sheet'.pos \in Cells => sheet.pos \in Cells /\ sheet' = Typed(sheet, item)
  BY <1>1, <1>2, Draws
<1>5. Through
  BY <1>1, <1>2, <1>3, <1>4, Now DEF Through, Painted
<1>6. QED
  BY <1>1, <1>5, Ends

LEMMA BackspaceKeeps == ASSUME TerminalInv, Backspace PROVE TerminalInv'
<1>1. Running.todo # <<>> /\ Running.at = "ready" /\ item = "bs"
  BY DEF Backspace, Item, At, item
<1>2. /\ Finish /\ Draw
      /\ curr_x = 0 => curr_x' = Width - 1 /\ curr_y' = curr_y - 1
      /\ curr_x # 0 => curr_x' = curr_x - 1 /\ curr_y' = curr_y
      /\ UNCHANGED <<screen, stray, index, cursor, code>>
  BY DEF Backspace, Back, crtc, keyboard, handlerVars
<1>3. ~ mixed /\ sheet.pos \in Cells /\ Typed(sheet, item).pos \in Cells =>
        /\ ~ stray
        /\ Drawn("ready", 0, 0, item, curr_x', curr_y', screen, Typed(sheet, item))
  BY <1>1, <1>2, Now, DrawBack
<1>4. curr_x' \in Int /\ curr_y' \in Int
  BY <1>1, <1>2, Now, CellsFacts
<1>5. /\ sheet' \in Sheets /\ UNCHANGED <<mixed, torn>>
      /\ sheet'.pos \in Cells => sheet.pos \in Cells /\ sheet' = Typed(sheet, item)
  BY <1>1, <1>2, Draws
<1>6. Through
  BY <1>1, <1>2, <1>3, <1>4, <1>5, Now DEF Through, Painted
<1>7. QED
  BY <1>1, <1>6, Ends

\* sti and init_ps2
LEMMA CallKeeps == ASSUME TerminalInv, EnableInterrupts \/ InitPs2 PROVE TerminalInv'
<1>1. /\ Running.todo # <<>> /\ Running.at = "ready" /\ item \notin {"nl", "cursor"}
  BY DEF EnableInterrupts, InitPs2, Item, At, item
<1>2. /\ Finish
      /\ UNCHANGED <<curr_x, curr_y, screen, stray, index, cursor, code, history>>
  BY DEF EnableInterrupts, InitPs2, screenVars, crtc, keyboard
<1>3. ~ mixed /\ sheet.pos \in Cells =>
        ~ stray /\ Drawn("ready", 0, 0, item, curr_x, curr_y, screen, sheet)
  <2>1. "ready" \in Settled
    BY DEF Settled
  <2>2. QED
    BY <1>1, <2>1, Now, DrawSettled
<1>4. Through
  BY <1>1, <1>2, <1>3, Now DEF Through, Painted, history
<1>5. QED
  BY <1>1, <1>4, Ends

\* Short sequences.
LEMMA OneItem ==
  ASSUME NEW S, NEW v \in S, NEW q, q = <<v>>
  PROVE  q \in Seq(S) /\ Len(q) = 1 /\ q[1] = v
  OBVIOUS

LEMMA TwoItems ==
  ASSUME NEW S, NEW u \in S, NEW v \in S, NEW q, q = <<u, v>>
  PROVE  q \in Seq(S) /\ Len(q) = 2 /\ q[2] = v
  OBVIOUS

LEMMA FourItems ==
  ASSUME NEW S, NEW u \in S, NEW v \in S, NEW w \in S, NEW z \in S, NEW q,
         q = <<u, v, w, z>>
  PROVE  q \in Seq(S) /\ Len(q) = 4 /\ q[4] = z
  OBVIOUS

LEMMA Appended ==
  ASSUME NEW S, NEW q \in Seq(S), NEW v \in S
  PROVE  Append(q, v) \in Seq(S) /\ Len(Append(q, v)) = Len(q) + 1
<1>1. Append(q, v) \in Seq(S)
  OBVIOUS
<1>2. Len(Append(q, v)) = Len(q) + 1
  OBVIOUS
<1>3. QED
  BY <1>1, <1>2

LEMMA OneMore ==
  ASSUME NEW S, NEW q \in Seq(S), Len(q) = 1, NEW v \in S, NEW r, r = Append(q, v)
  PROVE  r \in Seq(S) /\ Len(r) = 2 /\ r[1] = q[1] /\ r[2] = v
<1>1. Append(q, v) \in Seq(S) /\ Len(Append(q, v)) = Len(q) + 1
  BY Appended, Zenon
<1>2. Append(q, v)[1] = q[1] /\ Append(q, v)[2] = v
  OBVIOUS
<1>3. QED
  BY <1>1, <1>2

LEMMA FirstOnly ==
  ASSUME NEW S, NEW q \in Seq(S), Len(q) = 2, NEW r, r = SubSeq(q, 1, 1)
  PROVE  r \in Seq(S) /\ Len(r) = 1 /\ r[1] = q[1]
  OBVIOUS

\* What the handler prints ends with an update of the cursor.
LEMMA EchoEnds ==
  ASSUME code \in [key : Items, down : BOOLEAN], NEW todo \in Echo(code)
  PROVE  todo \in Seq(Items) /\ (todo # <<>> => todo[Len(todo)] \in {"nl", "cursor"})
<1>1. {"nl", "bs", " ", "cursor", "A", "!"} \subseteq Items /\ Unspecified \subseteq Items
  BY DEF Items
<1>2. \/ todo = <<>> \/ todo = <<"nl">> \/ todo = <<"bs", " ", "bs", "cursor">>
      \/ \E c \in Items : todo = <<c, "cursor">>
  <2>1. GetChar(code.key) \in Items
    BY DEF GetChar
  <2>2. Capitalize(GetChar(code.key)) \subseteq Items
    BY <1>1 DEF Capitalize
  <2>3. QED
    BY <2>1, <2>2 DEF Echo
<1>3. ASSUME NEW c \in Items, todo = <<c, "cursor">>
      PROVE  todo \in Seq(Items) /\ todo[Len(todo)] = "cursor"
  <2>1. "cursor" \in Items
    BY <1>1
  <2>2. todo \in Seq(Items) /\ Len(todo) = 2 /\ todo[2] = "cursor"
    BY <1>3, <2>1, TwoItems, Zenon
  <2>3. QED
    BY <2>2, Zenon
<1>4. ASSUME todo = <<"bs", " ", "bs", "cursor">>
      PROVE  todo \in Seq(Items) /\ todo[Len(todo)] = "cursor"
  <2>1. "bs" \in Items /\ " " \in Items /\ "cursor" \in Items
    BY <1>1
  <2>2. PICK u \in Items, v \in Items, z \in Items :
          todo = <<u, v, u, z>> /\ z = "cursor"
    BY <1>4, <2>1, Zenon
  <2>3. todo \in Seq(Items) /\ Len(todo) = 4 /\ todo[4] = z
    BY <2>2, FourItems, Zenon
  <2>4. QED
    BY <2>2, <2>3, Zenon
<1>5. ASSUME todo = <<"nl">>
      PROVE  todo \in Seq(Items) /\ todo[Len(todo)] = "nl"
  <2>1. "nl" \in Items
    BY <1>1
  <2>2. todo \in Seq(Items) /\ Len(todo) = 1 /\ todo[1] = "nl"
    BY <1>5, <2>1, OneItem, Zenon
  <2>3. QED
    BY <2>2, Zenon
<1>6. <<>> \in Seq(Items)
  OBVIOUS
<1>7. QED
  BY <1>2, <1>3, <1>4, <1>5, <1>6, Zenon

LEMMA InterruptKeeps == ASSUME TerminalInv, Interrupt PROVE TerminalInv'
<1>1. /\ stack \in Seq(Contexts) /\ Len(stack) = 1 /\ Running = stack[1]
      /\ Drawer = stack[1]
      /\ UNCHANGED <<curr_x, curr_y, screen, stray, index, cursor, sheet>>
  BY DEF Interrupt, Pending, TerminalInv, TypeInv, Running, Drawer, screenVars, crtc
<1>2. CASE ~ handler
  <2>1. UNCHANGED <<code, stack, mixed, torn>>
    BY <1>2 DEF Interrupt
  <2>2. Running' = Running /\ Drawer' = Drawer
    BY <2>1 DEF Running, Drawer
  <2>3. QED
    BY <1>1, <2>1, <2>2 DEF TerminalInv, TypeInv, StackInv, ScreenInv, CursorInv
<1>3. CASE handler
  <2>1. PICK todo \in Echo(code) :
          /\ stack' = Append(stack, Context(todo)) /\ code' = NoCode
          /\ mixed' = (mixed \/ (todo # <<>> /\ stack[1].at \notin Settled))
          /\ torn' = (torn \/ (todo # <<>> /\ stack[1].at \in Sending))
    BY <1>3 DEF Interrupt, CodeRead
  <2>2. todo \in Seq(Items) /\ (todo # <<>> => todo[Len(todo)] \in {"nl", "cursor"})
    BY EchoEnds DEF TerminalInv, TypeInv
  <2>3. /\ Context(todo) \in Contexts /\ Context(todo).at = "ready"
        /\ Context(todo).todo = todo
    BY <2>2 DEF Context, Contexts, Locations
  <2>4. /\ stack' \in Seq(Contexts) /\ Len(stack') = 2 /\ stack'[1] = stack[1]
        /\ stack'[2] = Context(todo)
    BY <1>1, <2>1, <2>3, OneMore
  <2>5. Running'.at = "ready" /\ Running'.todo = todo
    BY <2>3, <2>4 DEF Running
  <2>6. TypeInv'
    <3>1. code' \in [key : Items, down : BOOLEAN]
      BY <2>1 DEF NoCode, Items
    <3>2. QED
      BY <1>1, <2>1, <2>4, <3>1 DEF TerminalInv, TypeInv
  <2>7. StackInv'
    <3>1. Proper(Running')
      BY <2>2, <2>5 DEF Proper, Putting
    <3>2. Proper(stack'[1])
      BY <2>4 DEF TerminalInv, StackInv
    <3>3. QED
      BY <2>1, <2>4, <2>5, <3>1, <3>2 DEF StackInv
  <2>8. CASE todo = <<>>
    <3>1. Drawer' = Drawer /\ mixed' = mixed /\ torn' = torn
      BY <1>1, <2>1, <2>4, <2>5, <2>8 DEF Drawer, TerminalInv, TypeInv
    <3>2. QED
      BY <1>1, <2>6, <2>7, <3>1 DEF TerminalInv, ScreenInv, CursorInv
  <2>9. CASE todo # <<>>
    <3>1. Drawer' = Running'
      BY <2>5, <2>9 DEF Drawer
    <3>2. ScreenInv'
      <4>1. SUFFICES ASSUME ~ mixed', sheet.pos \in Cells
                     PROVE  /\ ~ stray
                            /\ Drawn("ready", Running'.a, Running'.b, Head(Running'.todo),
                                     curr_x, curr_y, screen, sheet)
        BY <1>1, <2>5, <3>1 DEF ScreenInv
      <4>2. ~ mixed /\ stack[1].at \in Settled /\ "ready" \in Settled
        BY <2>1, <2>9, <4>1 DEF Settled
      <4>3. QED
        BY <1>1, <4>1, <4>2, DrawSettled DEF TerminalInv, ScreenInv
    <3>3. CursorInv'
      BY <2>5, <2>9, <3>1 DEF CursorInv, Sent
    <3>4. QED
      BY <2>6, <2>7, <3>2, <3>3 DEF TerminalInv
  <2>10. QED
    BY <2>8, <2>9
<1>4. QED
  BY <1>2, <1>3

LEMMA InterruptReturnKeeps == ASSUME TerminalInv, InterruptReturn PROVE TerminalInv'
<1>1. /\ stack \in Seq(Contexts) /\ Len(stack) = 2 /\ Running.todo = <<>>
      /\ stack' = SubSeq(stack, 1, 1)
      /\ UNCHANGED <<curr_x, curr_y, screen, stray, index, cursor, code, history>>
  BY DEF InterruptReturn, TerminalInv, TypeInv, screenVars, crtc, keyboard
<1>2. stack' \in Seq(Contexts) /\ Len(stack') = 1 /\ stack'[1] = stack[1]
  BY <1>1, FirstOnly, Zenon
<1>3. Running' = stack[1] /\ Drawer = stack[1] /\ Drawer' = stack[1]
  BY <1>1, <1>2 DEF Running, Drawer
<1>4. TypeInv' /\ StackInv'
  BY <1>1, <1>2, <1>3 DEF TerminalInv, TypeInv, StackInv, history
<1>5. ScreenInv' /\ CursorInv'
  BY <1>1, <1>3 DEF TerminalInv, ScreenInv, CursorInv, history
<1>6. QED
  BY <1>4, <1>5 DEF TerminalInv

LEMMA KeyKeeps == ASSUME TerminalInv, Key PROVE TerminalInv'
<1>1. UNCHANGED <<curr_x, curr_y, screen, stray, index, cursor, stack, history>>
  BY DEF Key, screenVars, crtc
<1>2. code' \in [key : Items, down : BOOLEAN]
  <2>1. PICK k \in Keys : code' = k
    BY DEF Key
  <2>2. k.key \in Items /\ k \in [key : STRING, down : BOOLEAN]
    BY TerminalAssumption DEF Items
  <2>3. QED
    BY <2>1, <2>2
<1>3. Running' = Running /\ Drawer' = Drawer
  BY <1>1 DEF Running, Drawer
<1>4. QED
  BY <1>1, <1>2, <1>3 DEF TerminalInv, TypeInv, StackInv, ScreenInv, CursorInv, history

LEMMA TerminalInit == Init => TerminalInv
<1> SUFFICES ASSUME Init PROVE TerminalInv
  OBVIOUS
<1>1. /\ curr_x = 0 /\ curr_y = 0 /\ stray = FALSE /\ screen = [i \in Cells |-> " "]
      /\ index = "lsb" /\ cursor = [r \in {"lsb", "msb"} |-> 0]
      /\ stack = <<Context(BootText)>> /\ code = NoCode
      /\ sheet = [cells |-> screen, pos |-> 0] /\ mixed = FALSE /\ torn = FALSE
  BY DEF Init
<1>2. screen \in [Cells -> Items] /\ sheet \in Sheets
  <2>1. " " \in Items
    BY DEF Items
  <2>2. screen \in [Cells -> Items]
    BY <1>1, <2>1, Zenon
  <2>3. 0 \in Int
    OBVIOUS
  <2>4. QED
    BY <1>1, <2>2, <2>3, Zenon DEF Sheets
<1>3. code \in [key : Items, down : BOOLEAN]
  BY <1>1 DEF NoCode, Items
<1>4. BootText \in Seq(Items)
  <2>1. BootText \in Seq(STRING)
    BY TerminalAssumption
  <2>2. \A k \in 1 .. Len(BootText) : BootText[k] \in Items
    <3>1. DOMAIN BootText = 1 .. Len(BootText)
      BY <2>1
    <3>2. QED
      BY <3>1, Zenon DEF Items
  <2>3. QED
    BY <2>1, <2>2
<1>5. /\ Context(BootText) \in Contexts /\ Context(BootText).at = "ready"
      /\ Context(BootText).todo = BootText
  BY <1>4 DEF Context, Contexts, Locations
<1>6. /\ stack \in Seq(Contexts) /\ Len(stack) = 1 /\ stack[1] = Context(BootText)
      /\ Running.at = "ready" /\ Running.todo = BootText
  <2>1. stack \in Seq(Contexts) /\ Len(stack) = 1 /\ stack[1] = Context(BootText)
    BY <1>1, <1>5, OneItem, Zenon
  <2>2. QED
    BY <1>5, <2>1, Zenon DEF Running
<1>7. TypeInv
  <2>1. cursor \in [{"lsb", "msb"} -> Int]
    <3>1. 0 \in Int
      OBVIOUS
    <3>2. QED
      BY <1>1, <3>1, Zenon
  <2>2. QED
    BY <1>1, <1>2, <1>3, <1>6, <2>1 DEF TypeInv
<1>8. StackInv
  <2>1. BootText # <<>> => BootText[Len(BootText)] = "nl"
    BY TerminalAssumption
  <2>2. Proper(Running) /\ Running = stack[1]
    BY <1>6, <2>1 DEF Proper, Putting, Running
  <2>3. Len(stack) # 2
    BY <1>6
  <2>4. QED
    BY <2>2, <2>3, Zenon DEF StackInv
<1>9. Drawer = Running
  BY <1>6 DEF Drawer, Running
<1>10. ScreenInv
  <2>1. OnCell(0, 0, 0)
    BY CellsFacts DEF OnCell
  <2>2. QED
    BY <1>1, <1>6, <1>9, <2>1 DEF ScreenInv, Drawn, Settled, Sending, Putting
<1>12. CursorInv
  <2>1. Shows(cursor, curr_x, curr_y)
    <3>1. cursor["msb"] = 0 /\ cursor["lsb"] = 0 /\ curr_y = 0 /\ curr_x = 0
      BY <1>1, Zenon
    <3>2. ByteMod * ByteMod \in Nat \ {0} /\ 0 * ByteMod + 0 = 0 /\ 0 * Width + 0 = 0
      BY TerminalAssumption
    <3>3. 0 % (ByteMod * ByteMod) = 0
      BY <3>2
    <3>4. QED
      BY <3>1, <3>2, <3>3, Zenon DEF Shows
  <2>2. QED
    BY <1>6, <1>9, <2>1 DEF CursorInv, Sent
<1>13. QED
  BY <1>7, <1>8, <1>10, <1>12 DEF TerminalInv

LEMMA TerminalStep == TerminalInv /\ [Next]_vars => TerminalInv'
<1> SUFFICES ASSUME TerminalInv, [Next]_vars PROVE TerminalInv'
  OBVIOUS
<1>1. CASE PutChar
  BY <1>1, NewLineKeeps, NewLineLoadKeeps, NewLineStoreKeeps, NewLineTestKeeps,
     ScrollRowKeeps, ScrollXKeeps, ScrollYKeeps, CursorLoadYKeeps, CursorLoadXKeeps,
     SelectLsbKeeps, SendLsbKeeps, SelectMsbKeeps, SendMsbKeeps, CarriageReturnKeeps,
     BackspaceKeeps, PutLoadYKeeps, PutLoadXKeeps, PutEntryKeeps, IncLoadKeeps,
     IncStoreKeeps, IncTestKeeps, Zenon
  DEF PutChar
<1>2. CASE UNCHANGED vars
  <2>1. UNCHANGED <<curr_x, curr_y, screen, stray, index, cursor, stack, code, sheet,
                    mixed, torn>>
    BY <1>2 DEF vars, screenVars, crtc, keyboard, history
  <2>2. Running' = Running /\ Drawer' = Drawer
    BY <2>1 DEF Running, Drawer
  <2>3. QED
    BY <2>1, <2>2 DEF TerminalInv, TypeInv, StackInv, ScreenInv, CursorInv
<1>3. QED
  BY <1>1, <1>2, CallKeeps, InterruptReturnKeeps, KeyKeeps, InterruptKeeps, Zenon
  DEF Next, Step, Spin

\* Whatever is printed and typed, on a screen of any size and wherever the keys
\* interrupt the thread: as long as no key was echoed while the thread was drawing
\* a character, the screen shows it and nothing is written beyond the screen.
THEOREM ScreenIsRight == Spec => []ScreenShowsText
<1>1. TerminalInv => ScreenShowsText
  <2>1. SUFFICES ASSUME TerminalInv, Quiet, ~ mixed, sheet.pos \in Cells
                 PROVE  /\ screen = sheet.cells /\ curr_y * Width + curr_x = sheet.pos
                        /\ ~ stray
    BY DEF ScreenShowsText
  <2>2. Drawer.at \in Settled
    <3>1. stack \in Seq(Contexts) /\ Len(stack) \in {1, 2}
      BY <2>1 DEF TerminalInv, TypeInv
    <3>2. Len(stack) \in DOMAIN stack /\ 1 \in DOMAIN stack
      <4>1. DOMAIN stack = 1 .. Len(stack)
        BY <3>1
      <4>2. QED
        BY <3>1, <4>1
    <3>3. QED
      BY <2>1, <3>2, Zenon DEF Quiet, Running, Drawer
  <2>3. QED
    BY <2>1, <2>2 DEF TerminalInv, ScreenInv, Drawn, OnCell
<1>2. QED
  BY <1>1, TerminalInit, TerminalStep, PTL DEF Spec

\* The cursor of the screen of the idle kernel is where the next character goes,
\* unless a key came between the thread's own outb calls and nothing updated the
\* cursor since.
THEOREM CursorIsRight == Spec => []CursorShown
<1>1. TerminalInv => CursorShown
  BY DEF TerminalInv, CursorInv, CursorShown, Booted, Running, Drawer, Shows
<1>2. QED
  BY <1>1, TerminalInit, TerminalStep, PTL DEF Spec

=============================================================================
