------------------------------- MODULE Printf -------------------------------
(***************************************************************************)
(* Formatted printing: term_printf of src/term/term_printf.c and the       *)
(* conversions it calls, one step per iteration of their loops.            *)
(*                                                                         *)
(* A format is a sequence of items, a conversion such as "%d" or a piece   *)
(* of text, which a string or a character argument is too; the output is a *)
(* sequence of pieces of text and digits.                                  *)
(* unsigned int and unsigned long have WordBits bits each.                 *)
(***************************************************************************)
EXTENDS Integers, Sequences, SequencesExt

CONSTANTS
  WordBits,  \* 32
  LogKib     \* LOG2_KIB, 10

ASSUME PrintAssumption == WordBits \in Nat /\ WordBits >= 4 /\ LogKib \in Nat \ {0}

WordMod == 2 ^ WordBits
Kib     == 2 ^ LogKib

VARIABLES
  conv,     \* "idle", "item" (the loop of term_printf), or a loop of a conversion
  call,     \* the format and the arguments of the call
  args,     \* the arguments not used yet: the va_list
  i,        \* the item the format loop is at
  x,        \* the number printed
  divisor,  \* divisor of term_print_decu
  shift,    \* shift of term_print_hex, i of term_print_size
  suffix,   \* what term_print_size prints behind the number
  out       \* what has been printed by this call

printVars == <<conv, call, args, i, x, divisor, shift, suffix, out>>

Silent == [fmt |-> <<>>, args |-> <<>>]

PrintInit ==
  /\ conv = "idle" /\ call = Silent /\ args = <<>>
  /\ i = 1 /\ x = 0 /\ divisor = 0 /\ shift = 0 /\ suffix = <<>>
  /\ out = <<>>

LowerDigits == <<"0", "1", "2", "3", "4", "5", "6", "7", "8", "9",
                 "a", "b", "c", "d", "e", "f">>
UpperDigits == <<"0", "1", "2", "3", "4", "5", "6", "7", "8", "9",
                 "A", "B", "C", "D", "E", "F">>

prefixes == <<"K", "M", "G", "T", "P">>

Word(n) == n % WordMod

\* x >> n
Shr(n) == x \div 2 ^ n

Item == call.fmt[i]

Decimal == {"%d", "%u", "%l"}
Hex     == {"%x", "%X", "%p"}

Numeric(f) == f \in Decimal \cup Hex \cup {"%b"}

-----------------------------------------------------------------------------

\* term_printf is called.
Printf(f, a) ==
  /\ conv' = "item" /\ call' = [fmt |-> f, args |-> a] /\ args' = a
  /\ i' = 1 /\ out' = <<>>
  /\ UNCHANGED <<x, divisor, shift, suffix>>

\* term_putchar of the characters of s.
Put(s) == out' = out \o s

\* An item without a number: text, "%%", "%s" or "%c"; "%" with any other letter,
\* here "%?", prints nothing.
PutItem ==
  /\ conv = "item" /\ i <= Len(call.fmt)
  /\ ~ Numeric(Item)
  /\ Put(IF Item = "%?" THEN <<>> ELSE <<Item>>)
  /\ i' = i + 1
  /\ UNCHANGED <<conv, call, args, x, divisor, shift, suffix>>

\* A loop of a conversion begins.
Begin(loop) == conv = "item" /\ i <= Len(call.fmt) /\ conv' = loop

\* Fault: the divisor starts at 0.
DivisorZero == 0

\* unsigned int divisor = 1
FirstDivisor == 1

\* term_print_dec and term_print_decu up to the loop.  -x is unsigned then, and
\* the least int becomes its own magnitude.
PrintDecimal ==
  /\ Begin("grow") /\ Item \in Decimal
  /\ LET n == Head(args) IN
     IF Item = "%d" /\ n < 0 THEN Put(<<"-">>) /\ x' = Word(-n)
                             ELSE UNCHANGED out /\ x' = Word(n)
  /\ args' = Tail(args) /\ divisor' = FirstDivisor /\ suffix' = <<>>
  /\ UNCHANGED <<call, i, shift>>

\* Fault: the divisor stops at the number itself.
GrowsShort == divisor < x

\* The condition of "for (; divisor <= x; divisor *= 10)".
Grows == divisor <= x

Grow ==
  /\ conv = "grow" /\ Grows
  /\ divisor' = Word(divisor * 10)
  /\ UNCHANGED <<conv, call, args, i, x, shift, suffix, out>>

\* "Always print at least one char"
Grown ==
  /\ conv = "grow" /\ ~ Grows
  /\ divisor' = IF divisor \div 10 = 0 THEN 1 ELSE divisor \div 10
  /\ conv' = "digits"
  /\ UNCHANGED <<call, args, i, x, shift, suffix, out>>

PutDigit ==
  /\ conv = "digits" /\ divisor > 0
  /\ Put(<<UpperDigits[((x \div divisor) % 10) + 1]>>)
  /\ divisor' = divisor \div 10
  /\ UNCHANGED <<conv, call, args, i, x, shift, suffix>>

EndDecimal ==
  /\ conv = "digits" /\ divisor = 0
  /\ Put(suffix)
  /\ conv' = "item" /\ i' = i + 1
  /\ UNCHANGED <<call, args, x, divisor, shift, suffix>>

\* term_print_size
PrintSize ==
  /\ Begin("scale") /\ Item = "%b"
  /\ x' = Word(Head(args)) /\ args' = Tail(args) /\ shift' = 0
  /\ UNCHANGED <<call, i, divisor, suffix, out>>

Scale ==
  /\ conv = "scale" /\ Shr(LogKib * shift) > Kib
  /\ shift' = shift + 1
  /\ UNCHANGED <<conv, call, args, i, x, divisor, suffix, out>>

Scaled ==
  /\ conv = "scale" /\ Shr(LogKib * shift) <= Kib
  /\ conv' = "grow" /\ divisor' = FirstDivisor
  /\ x' = Shr(LogKib * shift)
  /\ suffix' = IF shift > 0 THEN <<prefixes[shift], "i", "B">> ELSE <<"B">>
  /\ UNCHANGED <<call, args, i, shift, out>>

\* term_print_hex, behind the "0x" of "%p"
PrintHex ==
  /\ Begin("skip") /\ Item \in Hex
  /\ Put(IF Item = "%p" THEN <<"0x">> ELSE <<>>)
  /\ x' = Word(Head(args)) /\ args' = Tail(args)
  /\ shift' = WordBits - 4
  /\ UNCHANGED <<call, i, divisor, suffix>>

\* The leading zeros are skipped, but never the last digit.
Skips == Shr(shift) % 16 = 0 /\ shift > 0

Skip ==
  /\ conv = "skip"
  /\ IF Skips THEN shift' = shift - 4 /\ UNCHANGED conv
              ELSE conv' = "hex" /\ UNCHANGED shift
  /\ UNCHANGED <<call, args, i, x, divisor, suffix, out>>

PutHexDigit ==
  /\ conv = "hex" /\ shift >= 0
  /\ LET digits == IF Item = "%X" THEN UpperDigits ELSE LowerDigits
     IN  Put(<<digits[(Shr(shift) % 16) + 1]>>)
  /\ shift' = shift - 4
  /\ UNCHANGED <<conv, call, args, i, x, divisor, suffix>>

EndHex ==
  /\ conv = "hex" /\ shift < 0
  /\ conv' = "item" /\ i' = i + 1
  /\ UNCHANGED <<call, args, x, divisor, shift, suffix, out>>

\* All of the format is printed.
Complete == conv = "item" /\ i > Len(call.fmt)

\* The local variables are gone.
PrintReturn ==
  /\ Complete
  /\ conv' = "idle" /\ call' = Silent /\ args' = <<>>
  /\ i' = 1 /\ x' = 0 /\ divisor' = 0 /\ shift' = 0 /\ suffix' = <<>>
  /\ out' = <<>>

\* A step of term_printf while it runs.
PrintStep ==
  \/ PutItem \/ PrintDecimal \/ Grow \/ Grown \/ PutDigit \/ EndDecimal
  \/ PrintSize \/ Scale \/ Scaled
  \/ PrintHex \/ Skip \/ PutHexDigit \/ EndHex
  \/ PrintReturn

-----------------------------------------------------------------------------
(***************************************************************************)
(* What should be printed.                                                 *)
(***************************************************************************)

\* The digits of n in a base, without leading zeros.
Digits(n, base) ==
  LET len == CHOOSE k \in 1 .. WordBits :
               n < base ^ k /\ \A j \in 1 .. k - 1 : n >= base ^ j
  IN  [j \in 1 .. len |-> (n \div base ^ (len - j)) % base]

Text(digits, chars) == [j \in DOMAIN digits |-> chars[digits[j] + 1]]

\* The unit of a size: the least in which it is at most 1024.
Unit(n) == CHOOSE k \in 0 .. Len(prefixes) :
             /\ n \div Kib ^ k <= Kib
             /\ \A j \in 0 .. k - 1 : n \div Kib ^ j > Kib

Expected(f, a) ==
  CASE f = "%d" /\ a < 0   -> <<"-">> \o Text(Digits(-a, 10), UpperDigits)
    [] f \in Decimal /\ ~ (f = "%d" /\ a < 0) -> Text(Digits(a, 10), UpperDigits)
    [] f = "%X"            -> Text(Digits(a, 16), UpperDigits)
    [] f = "%x"            -> Text(Digits(a, 16), LowerDigits)
    [] f = "%p"            -> <<"0x">> \o Text(Digits(a, 16), LowerDigits)
    [] f = "%b"            -> Text(Digits(a \div Kib ^ Unit(a), 10), UpperDigits)
                              \o (IF Unit(a) = 0 THEN <<"B">>
                                  ELSE <<prefixes[Unit(a)], "i", "B">>)

\* The output of a call.
ExpectedOut ==
  FoldLeft(LAMBDA acc, f :
             IF Numeric(f)
             THEN [text |-> acc.text \o Expected(f, Head(acc.args)),
                   args |-> Tail(acc.args)]
             ELSE [acc EXCEPT !.text = IF f = "%?" THEN @ ELSE Append(@, f)],
           [text |-> <<>>, args |-> call.args], call.fmt).text

\* term_print_decu is right for numbers below the greatest power of ten that a
\* word can hold; above it the divisor overflows.
Printable(n) ==
  \E k \in 0 .. WordBits \div 3 : 10 ^ k < WordMod /\ n < 10 ^ k /\ -n < 10 ^ k

\* ext2_init_fs does not keep to it: a creation time has ten digits since 2001.
WithinDigits ==
  LET numbers == SelectSeq(call.fmt, Numeric)
  IN  \A j \in DOMAIN numbers : numbers[j] \in Decimal => Printable(call.args[j])

=============================================================================
