----------------------------- MODULE MiddleOut ------------------------------
(***************************************************************************)
(* middle_out_text() (compression.py): how much of the beginning and the   *)
(* end of a long text is kept, and the marker that says how much is not.   *)
(* A text is its length and one run of blanks in it; the marker is known   *)
(* by the number it shows, whose digits count towards the limit.           *)
(***************************************************************************)
EXTENDS Integers

CONSTANTS
  Limits   \* [max, omit, percent, short]: max_chars, min_omission_chars,
           \* head_fraction in percent, and the budgets whose product with
           \* it is rounded to just below a whole number

\* No text is longer; a number has at most nine digits.
MaxLength == 999999999

\* load_settings() checks the head fraction, nothing the output limit or the
\* omission; a negative omission is not considered.
ASSUME MiddleOutAssumption ==
  \A o \in Limits :
    /\ o.max \in Int /\ o.omit \in Nat
    /\ o.percent \in 5..95

Larger(a, b) == IF a > b THEN a ELSE b

\* Of a number that is not negative, which what is omitted never is.
Digits(k) ==
  IF k < 10 THEN 1
  ELSE IF k < 100 THEN 2
  ELSE IF k < 1000 THEN 3
  ELSE IF k < 10000 THEN 4
  ELSE IF k < 100000 THEN 5
  ELSE IF k < 1000000 THEN 6
  ELSE IF k < 10000000 THEN 7
  ELSE IF k < 100000000 THEN 8
  ELSE 9

\* The template with its digest, but without its two numbers.
MarkerWords == 130

MarkerLength(shown, n) == MarkerWords + Digits(shown) + Digits(n)

\* Mutant: the marker is not paid for.
BudgetWithoutMarker(shown, n, o) == Larger(128, o.max)

Budget(shown, n, o) == Larger(128, o.max - MarkerLength(shown, n))

\* int(budget * head_fraction)
HeadShare(b, o) == (b * o.percent - (IF b \in o.short THEN 1 ELSE 0)) \div 100

\* The marker shows a number, and head and tail are cut to fit beside it.
Shared(shown, n, o) ==
  LET b    == Budget(shown, n, o)
      head == Larger(64, HeadShare(b, o))
  IN [shown |-> shown, head |-> head, tail |-> Larger(64, b - head), settled |-> FALSE]

First(n, o) == Shared(n - o.max, n, o)

\* One turn of the loop: a new number, and new shares when it is longer or
\* shorter than the last one.
Round(c, n, o) ==
  LET omitted == n - c.head - c.tail
  IN IF c.settled THEN c
     ELSE IF Digits(omitted) = Digits(c.shown)
       THEN [c EXCEPT !.shown = omitted, !.settled = TRUE]
       ELSE Shared(omitted, n, o)

\* Mutant: the loop is one turn shorter.
StabilisedTwice(n, o) == Round(Round(First(n, o), n, o), n, o)

Stabilised(n, o) == Round(Round(Round(First(n, o), n, o), n, o), n, o)

\* The early returns.
LeftAlone(n, o) ==
  \/ n <= o.max
  \/ First(n, o).head + First(n, o).tail >= n - o.omit

\* What is kept of a text [length, from, to] whose characters from..to are
\* blank: 1..upto and onwards..length, stripped towards the marker.
MiddleOutText(text, o) ==
  LET c     == Stabilised(text.length, o)
      blank == text.from..text.to
      start == text.length - c.tail + 1
  IN IF LeftAlone(text.length, o) THEN [cut |-> FALSE]
     ELSE [cut |-> TRUE, shown |-> c.shown, head |-> c.head, tail |-> c.tail,
           upto |-> IF c.head \in blank THEN text.from - 1 ELSE c.head,
           onwards |-> IF start \in blank THEN text.to + 1 ELSE start]

ResultLength(text, r) ==
  IF r.cut THEN r.upto + MarkerLength(r.shown, text.length) + text.length - r.onwards + 1
  ELSE text.length
=============================================================================
