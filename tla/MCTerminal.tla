----------------------------- MODULE MCTerminal -----------------------------
(***************************************************************************)
(* Instances of Terminal for TLC: a screen of 2 rows of 3 cells.           *)
(***************************************************************************)
EXTENDS Terminal

\* Fills the screen, wraps, scrolls and ends at the start of the last row.
MCBootText ==
  <<"b", "cr", "o", "nl", "sti", "o", "t", "e", "d", "x", "init_ps2", "y", "nl">>

MCKeys ==
  {Down("lshift"), Up("lshift"), Down("rshift"), Up("rshift"), Down("a"),
   Down("1"), Down("enter"), Down("backspace"), Down(" ")}

MCUnspecified == {"?"}

=============================================================================
