------------------------------- MODULE Format -------------------------------
(***************************************************************************)
(* hc_format of src/runtime/hcrt.c: what Print and its relatives make of a *)
(* format string and its arguments.  A text is a sequence of characters;   *)
(* an argument is one machine word, which a code reads as a number (n), a  *)
(* string (s, NULL if the word is 0), a list of strings (z), up to 8       *)
(* packed characters (c) or a date (day, frac).                            *)
(*                                                                         *)
(* %f %e %g are rendered by the C library's snprintf and left out.         *)
(***************************************************************************)
EXTENDS Integers, Sequences, SequencesExt

CONSTANTS
    Width,      \* bits of a machine word (64)
    FracBits    \* bits of the fraction of a day in a date (32)

ASSUME WidthAssumption == Width \in 8 .. 30 /\ FracBits \in 4 .. 14

NULL == <<"NULL">>
NoText == <<>>
FlagChars == {"-", "0", ",", "+"}
DigitChars == <<"0", "1", "2", "3", "4", "5", "6", "7", "8", "9">>
HexChars == DigitChars \o <<"a", "b", "c", "d", "e", "f">>
UpperChars == DigitChars \o <<"A", "B", "C", "D", "E", "F">>
Codes == {"d", "i", "u", "x", "X", "p", "P", "c", "s", "q", "Q", "z", "D", "T"}

\* The value of NEXT_ARG when the arguments are used up: the word 0.
Missing == [n |-> 0, s |-> NULL, z |-> NULL, c |-> NoText, day |-> 0, frac |-> 0]

Fill(c, n) == [i \in 1 .. (IF n > 0 THEN n ELSE 0) |-> c]
DigitVal(c) == (CHOOSE i \in 1 .. 16 : c \in {HexChars[i], UpperChars[i]}) - 1

-----------------------------------------------------------------------------
(* The digits of v, most significant first; 0 has one. *)
DigitsOf(v, base, hex) ==
    LET D[u \in Nat] == IF u < base THEN <<hex[u + 1]>>
                                       ELSE Append(D[u \div base], hex[(u % base) + 1])
    IN  D[v]

\* Mutant: a comma is also put before the first digit of a full group.
int_body_LeadingComma(v, base, upper, commas, neg) ==
    LET digits == DigitsOf(v, base, IF upper THEN UpperChars ELSE HexChars)
        n == Len(digits)
    IN  (IF neg THEN <<"-">> ELSE <<>>) \o
        FlattenSeq([k \in 1 .. n |->
            IF commas /\ base = 10 /\ n - k + 1 > 0 /\ (n - k + 1) % 3 = 0
            THEN <<",", digits[k]>> ELSE <<digits[k]>>])

int_body(v, base, upper, commas, neg) ==
    LET digits == DigitsOf(v, base, IF upper THEN UpperChars ELSE HexChars)
        n == Len(digits)
    IN  (IF neg THEN <<"-">> ELSE <<>>) \o
        FlattenSeq([k \in 1 .. n |->
            IF commas /\ base = 10 /\ n - k > 0 /\ (n - k) % 3 = 0
            THEN <<digits[k], ",">> ELSE <<digits[k]>>])

\* The sign stays before the zeros.
fmt_field(body, width, left, zero) ==
    LET pad == width - Len(body)
        signed == body # <<>> /\ body[1] \in {"-", "+"}
    IN  CASE pad <= 0 -> body
          [] pad > 0 /\ left -> body \o Fill(" ", pad)
          [] pad > 0 /\ ~left /\ zero /\ signed -> <<body[1]>> \o Fill("0", pad) \o Tail(body)
          [] pad > 0 /\ ~left /\ zero /\ ~signed -> Fill("0", pad) \o body
          [] OTHER -> Fill(" ", pad) \o body

\* Zero bytes of the word are not characters.
emit_packed_chars(c) == SelectSeq(c, LAMBDA ch : ch # "nul")

\* The word as an unsigned number; the negation of the least number does not overflow.
Unsigned(n) == IF n < 0 THEN n + 2 ^ Width ELSE n
Magnitude(n) == IF n < 0 THEN (-(n + 1)) + 1 ELSE n

-----------------------------------------------------------------------------
(* CDate: a day number counted from 1/1/0, and a fraction of a day. *)
Quot(a, b) == IF a >= 0 THEN a \div b ELSE -((-a) \div b)   \* C's division

CivilFromDays(days) ==
    LET z == (days - 719528) + 719468
        era == Quot(IF z >= 0 THEN z ELSE z - 146096, 146097)
        doe == z - era * 146097
        yoe == (doe - doe \div 1460 + doe \div 36524 - doe \div 146096) \div 365
        doy == doe - (365 * yoe + yoe \div 4 - yoe \div 100)
        mp == (5 * doy + 2) \div 153
        m == IF mp < 10 THEN mp + 3 ELSE mp - 9
        y == yoe + era * 400
    IN  [m |-> m, d |-> doy - (153 * mp + 2) \div 5 + 1, y |-> IF m <= 2 THEN y + 1 ELSE y]

SecondsOf(frac) == (frac * 86400) \div 2 ^ FracBits

\* snprintf's %0wlld of a number.
ZeroPadded(n, w) == fmt_field(int_body(Magnitude(n), 10, FALSE, FALSE, n < 0), w, FALSE, TRUE)

fmt_date(arg, timePart) ==
    LET secs == SecondsOf(arg.frac)
        date == CivilFromDays(arg.day)
    IN  IF timePart
        THEN ZeroPadded(secs \div 3600, 2) \o <<":">> \o ZeroPadded((secs \div 60) % 60, 2)
                \o <<":">> \o ZeroPadded(secs % 60, 2)
        ELSE ZeroPadded(date.m, 2) \o <<"/">> \o ZeroPadded(date.d, 2)
                \o <<"/">> \o ZeroPadded(date.y, 4)

-----------------------------------------------------------------------------
(* A directive: flags, width, precision and code, from position p on, the  *)
(* one after the percent sign; "at" is the position of the code.           *)
SpanEnd(f, p, S) ==
    CHOOSE j \in p .. (Len(f) + 1) :
        /\ j = Len(f) + 1 \/ f[j] \notin S
        /\ \A i \in p .. (j - 1) : f[i] \in S

NumberIn(f, from, to) ==
    FoldLeft(LAMBDA acc, c : acc * 10 + DigitVal(c), 0, SubSeq(f, from, to - 1))

DirectiveAt(f, p) ==
    LET w == SpanEnd(f, p, FlagChars)
        dot == SpanEnd(f, w, Range(DigitChars))
        hasPrec == dot <= Len(f) /\ f[dot] = "."
        at == IF hasPrec THEN SpanEnd(f, dot + 1, Range(DigitChars)) ELSE dot
        flags == {f[i] : i \in p .. (w - 1)}
    IN  [left |-> "-" \in flags, zero |-> "0" \in flags,
         commas |-> "," \in flags, plus |-> "+" \in flags,
         width |-> NumberIn(f, w, dot),
         prec |-> IF hasPrec THEN NumberIn(f, dot + 1, at) ELSE -1,
         at |-> at,
         code |-> IF at <= Len(f) THEN f[at] ELSE "nul"]

\* How many arguments a code takes.
Takes(code) == CASE code = "z" -> 2 [] code \in Codes \ {"z"} -> 1 [] OTHER -> 0

\* The entry of a %z list: the last place reached is the empty entry at its end.
ListEntry(list, idx) ==
    CASE idx <= 0 -> IF list = <<>> THEN <<>> ELSE list[1]
      [] idx > 0 -> IF idx < Len(list) THEN list[idx + 1] ELSE <<>>

Escaped(ch) == CASE ch \in {"\"", "\\"} -> <<"\\", ch>>
                 [] ch = "newline" -> <<"\\", "n">>
                 [] OTHER -> <<ch>>

\* The codes whose text is first put together in a buffer of its own, and the
\* pieces it is put together from.
Buffered == {"c", "q", "Q"}
Pieces(code, a) ==
    CASE code = "c" -> [i \in 1 .. Len(emit_packed_chars(a.c)) |-> <<emit_packed_chars(a.c)[i]>>]
      [] code \in {"q", "Q"} ->
           LET s == IF a.s = NULL THEN <<>> ELSE a.s
           IN  [i \in 1 .. Len(s) |-> Escaped(s[i])]
      [] OTHER -> <<>>

Signed(d, n) ==
    LET body == int_body(Magnitude(n), 10, FALSE, d.commas, n < 0)
    IN  IF d.plus /\ n >= 0 THEN <<"+">> \o body ELSE body

\* What one directive d adds, for its argument a and the one after it; text is
\* what a code of Buffered has in its buffer.
Rendered(d, a, b, text) ==
    CASE d.code \in {"d", "i"} -> fmt_field(Signed(d, a.n), d.width, d.left, d.zero)
      [] d.code = "u" ->
           fmt_field(int_body(Unsigned(a.n), 10, FALSE, d.commas, FALSE), d.width, d.left, d.zero)
      [] d.code \in {"x", "X"} ->
           fmt_field(int_body(Unsigned(a.n), 16, d.code = "X", FALSE, FALSE), d.width, d.left, d.zero)
      [] d.code \in {"p", "P"} ->
           LET digits == int_body(Unsigned(a.n), 16, TRUE, FALSE, FALSE)
           IN  fmt_field(fmt_field(digits, Width \div 4, FALSE, TRUE), d.width, d.left, d.zero)
      [] d.code \in Buffered -> fmt_field(text, d.width, d.left, FALSE)
      [] d.code = "s" ->
           LET s == IF a.s = NULL THEN <<"(", "n", "u", "l", "l", ")">> ELSE a.s
               shown == IF d.prec >= 0 /\ Len(s) > d.prec THEN SubSeq(s, 1, d.prec) ELSE s
           IN  fmt_field(shown, d.width, d.left, FALSE)
      [] d.code = "z" ->
           IF b.z = NULL THEN <<>> ELSE fmt_field(ListEntry(b.z, a.n), d.width, d.left, FALSE)
      [] d.code \in {"D", "T"} -> fmt_date(a, d.code = "T")
      [] OTHER -> <<"%", d.code>>

-----------------------------------------------------------------------------
(* What a rendered number must be, said without the steps that make it.    *)
Trimmed(t) == SelectSeq(t, LAMBDA c : c # " ")
NumberRead(t, base) ==
    FoldLeft(LAMBDA acc, c : IF c \in {"-", "+", ","} THEN acc ELSE acc * base + DigitVal(c), 0, Trimmed(t))
DigitCount(v, base) == CHOOSE n \in 1 .. 16 : base ^ n > v /\ (n = 1 \/ base ^ (n - 1) <= v)

NumberField(d, n, t) ==
    LET base == IF d.code \in {"x", "X", "p", "P"} THEN 16 ELSE 10
        signed == d.code \in {"d", "i"}
        v == IF signed THEN Magnitude(n) ELSE Unsigned(n)
        sign == signed /\ (n < 0 \/ d.plus)
        digits == IF d.code \in {"p", "P"} THEN Width \div 4 ELSE DigitCount(v, base)
        groups == IF d.commas /\ base = 10 THEN (digits - 1) \div 3 ELSE 0
        natural == digits + groups + (IF sign THEN 1 ELSE 0)
        body == Trimmed(t)
    IN  /\ NumberRead(t, base) = v
        /\ Len(t) = IF natural < d.width THEN d.width ELSE natural
        /\ sign <=> body[1] \in {"-", "+"}
        /\ sign => (body[1] = "-" <=> n < 0)
        /\ \A i \in 2 .. Len(body) : body[i] \notin {"-", "+"}
        /\ \A i \in 1 .. Len(body) :
              body[i] = "," <=> \E g \in 1 .. groups : i = Len(body) + 1 - 4 * g
        /\ d.left => t = body \o Fill(" ", Len(t) - Len(body))
        /\ ~d.left => t = Fill(" ", Len(t) - Len(body)) \o body
        /\ (d.zero /\ ~d.left) \/ Len(body) = natural

\* A quoted text read back: a backslash takes the character after it.
Unquoted(t) ==
    FoldLeft(LAMBDA acc, c :
        CASE acc.escaped -> [escaped |-> FALSE,
                             text |-> Append(acc.text, IF c = "n" THEN "newline" ELSE c)]
          [] ~acc.escaped /\ c = "\\" -> [acc EXCEPT !.escaped = TRUE]
          [] OTHER -> [acc EXCEPT !.text = Append(@, c)],
        [escaped |-> FALSE, text |-> <<>>], t)

\* What the field of a text must be: the text of n characters, on the side the
\* flags say, and blanks up to the width.
TextField(d, a, t) ==
    \E n \in 0 .. Len(t) :
        LET shown == SubSeq(t, IF d.left THEN 1 ELSE Len(t) - n + 1, IF d.left THEN n ELSE Len(t))
            s == IF a.s = NULL THEN <<>> ELSE a.s
        IN  /\ Len(t) = IF n < d.width THEN d.width ELSE n
            /\ t = IF d.left THEN shown \o Fill(" ", Len(t) - n) ELSE Fill(" ", Len(t) - n) \o shown
            /\ d.code = "s" /\ a.s # NULL =>
                  /\ IsPrefix(shown, s)
                  /\ n = IF d.prec \in 0 .. Len(s) THEN d.prec ELSE Len(s)
            /\ d.code \in {"q", "Q"} =>
                  /\ Unquoted(shown) = [escaped |-> FALSE, text |-> s]
                  /\ \A i \in 1 .. n : shown[i] # "newline"

Leap(y) == y % 4 = 0 /\ (y % 100 # 0 \/ y % 400 = 0)
MonthDays(m, y) == CASE m = 2 -> IF Leap(y) THEN 29 ELSE 28
                     [] m \in {4, 6, 9, 11} -> 30
                     [] OTHER -> 31
\* Days from 1/1/0 to the first of January of year y.
YearStart(y) == 365 * y + ((y + 3) \div 4) - ((y + 99) \div 100) + ((y + 399) \div 400)
DayNumber(m, d, y) ==
    YearStart(y) + d - 1
      + FoldLeft(LAMBDA acc, k : acc + MonthDays(k, y), 0, [i \in 1 .. (m - 1) |-> i])

\* A date field t read back: MM/DD/YYYY names the day, HH:MM:SS the second of
\* the day the fraction falls in.
DateField(code, a, t) ==
    LET first == NumberIn(t, 1, 3)
        second == NumberIn(t, 4, 6)
        year == IF t[7] = "-" THEN -NumberIn(t, 8, Len(t) + 1) ELSE NumberIn(t, 7, Len(t) + 1)
        secs == first * 3600 + second * 60 + NumberIn(t, 7, 9)
    IN  IF code = "D"
        THEN /\ first \in 1 .. 12
             /\ second \in 1 .. MonthDays(first, year)
             /\ DayNumber(first, second, year) = a.day
        ELSE /\ Len(t) = 8
             /\ second < 60 /\ NumberIn(t, 7, 9) < 60
             /\ secs * 2 ^ FracBits <= a.frac * 86400
             /\ a.frac * 86400 < (secs + 1) * 2 ^ FracBits
=============================================================================
