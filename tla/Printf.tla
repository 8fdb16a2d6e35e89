------------------------------- MODULE Printf -------------------------------
(***************************************************************************)
(* printf of lib.c, with itoa, puts and putc.  A format is a sequence of   *)
(* items: conversions, "newline", and "text" for a piece of other          *)
(* characters, printed here as one.  A word is a number below WORD.        *)
(***************************************************************************)
EXTENDS Strings, SequencesExt

CONSTANTS
  HEX_DIGITS,         \* 8: the hexadecimal digits of a word
  NUM_COLS, NUM_ROWS, \* 80 and 25
  PAGE                \* 2048: the cells of the video page

ASSUME PrintfAssumption ==
  /\ HEX_DIGITS \in Nat \ {0} /\ NUM_COLS \in Nat \ {0} /\ NUM_ROWS \in Nat \ {0}
  /\ PAGE \in Nat /\ PAGE > NUM_COLS * NUM_ROWS

power(radix, n) ==
  LET p[k \in 0 .. n] == IF k = 0 THEN 1 ELSE radix * p[k - 1]
  IN  p[n]

WORD    == power(16, HEX_DIGITS)
Newline == 10
Minus   == 45
Percent == 37
Letter  == 97

\* "0123456789ABCDEF...", from 0.
lookup(d) == IF d < 10 THEN 48 + d ELSE 55 + d

\* Faulty: the digits are left as they were made.
strrevForgotten(s) == s

strrev(s) == Reverse(s)

\* What k divisions leave of the value, until nothing is left of it; the digits
\* are made from the lowest place up, and reversed.
itoa(value, radix) ==
  LET newval[k \in 0 .. 2 * HEX_DIGITS] == IF k = 0 THEN value ELSE newval[k - 1] \div radix
      n == Min({k \in 0 .. 2 * HEX_DIGITS : newval[k] = 0})
  IN  IF value = 0 THEN <<lookup(0)>>
      ELSE strrev([k \in 1 .. n |-> lookup(newval[k - 1] % radix)])

\* %#x: itoa leaves the digits and a Nul from index HEX_DIGITS of conv_buf on, zeros
\* go before them, and puts starts at the index that is the number of the digits.
Padded(digits) ==
  LET starting_index == Len(digits)
      conv_buf == [k \in starting_index .. HEX_DIGITS + Len(digits) |->
                     IF k < HEX_DIGITS THEN lookup(0)
                     ELSE IF k < HEX_DIGITS + Len(digits) THEN digits[k - HEX_DIGITS + 1]
                     ELSE Nul]
  IN  Text([i \in 1 .. HEX_DIGITS + 1 |-> conv_buf[starting_index + i - 1]])

\* The conversions that take an argument.
Converted(conversion, arg) ==
  CASE conversion = "%x"  -> itoa(arg, 16)
    [] conversion = "%#x" -> Padded(itoa(arg, 16))
    [] conversion = "%u"  -> itoa(arg, 10)
    [] conversion = "%d"  -> IF 2 * arg >= WORD THEN <<Minus>> \o itoa(WORD - arg, 10)
                                                ELSE itoa(arg, 10)
    [] conversion = "%c"  -> <<arg>>
    [] conversion = "%s"  -> Text(arg)

Conversions == {"%x", "%#x", "%u", "%d", "%c", "%s"}

Literal(item) ==
  CASE item = "newline" -> <<Newline>> [] item = "text" -> <<Letter>> [] item = "%%" -> <<Percent>>

\* What printf has handed to putc after another item, and which argument is next.
Converting(done, item, args) ==
  IF item \in Conversions
  THEN [text |-> done.text \o Converted(item, args[done.esp]), esp |-> done.esp + 1]
  ELSE [done EXCEPT !.text = @ \o Literal(item)]

Output(format, args) ==
  LET done[j \in 0 .. Len(format)] ==
        IF j = 0 THEN [text |-> <<>>, esp |-> 1] ELSE Converting(done[j - 1], format[j], args)
  IN  done[Len(format)].text

\* Faulty: the row is not taken modulo the rows.
RowKept(y) == y

\* The row after a character.  The carry of a full row is lost: it is computed
\* from screen_x after that was reduced.
RowAfter(y) == y % NUM_ROWS

\* A cursor is the position and, as history, the last cell written so far.
putc(cursor, c) ==
  IF c = Newline
  THEN [x |-> 0, y |-> cursor.y + 1, last |-> cursor.last]
  ELSE [x |-> (cursor.x + 1) % NUM_COLS, y |-> RowAfter(cursor.y),
        last |-> Max({cursor.last, NUM_COLS * cursor.y + cursor.x})]

puts(cursor, text) ==
  LET after[i \in 0 .. Len(text)] == IF i = 0 THEN cursor ELSE putc(after[i - 1], text[i])
  IN  after[Len(text)]
-----------------------------------------------------------------------------
(* The comment on printf and the value of digits, for reference. *)

\* The numeral: its n places, the least number of them that will do.
Numeral(value, radix) ==
  LET n == Min({k \in 1 .. 2 * HEX_DIGITS : power(radix, k) > value})
  IN  [i \in 1 .. n |-> lookup((value \div power(radix, n - i)) % radix)]

Documented(conversion, arg) ==
  CASE conversion = "%x"  -> Numeral(arg, 16)
    [] conversion = "%#x" -> [i \in 1 .. HEX_DIGITS |->
                                lookup((arg \div power(16, HEX_DIGITS - i)) % 16)]
    [] conversion = "%u"  -> Numeral(arg, 10)
    [] conversion = "%d"  -> IF arg < WORD - arg THEN Numeral(arg, 10)
                             ELSE <<Minus>> \o Numeral(WORD - arg, 10)
    [] conversion = "%c"  -> <<arg>>
    [] conversion = "%s"  -> SubSeq(arg, 1, Len(arg) - 1)

\* The j-th item of a format with the argument of its own.
DocumentedItem(format, args, j) ==
  IF format[j] \in Conversions
  THEN Documented(format[j], args[Cardinality({i \in 1 .. j : format[i] \in Conversions})])
  ELSE Literal(format[j])

DocumentedOutput(format, args) ==
  FlattenSeq([j \in 1 .. Len(format) |-> DocumentedItem(format, args, j)])
=============================================================================
