------------------------------ MODULE Normalizer ------------------------------
(***************************************************************************)
(* How package normalizer reads one cell of a bank statement: an amount,   *)
(* a debit/credit pair, a date.                                            *)
(*                                                                         *)
(* A cell is the record [word, neg, nums, seps].  nums is the sequence of  *)
(* the digit runs of its text, each a number n written with w digits, and  *)
(* seps the character between each two of them; neg says that the text     *)
(* starts with a minus sign and word is the rest of it ("" if none): a     *)
(* header, a description, a currency sign.  "-1.234,56" is                 *)
(*   neg, nums << <1,1>, <234,3>, <56,2> >>, seps <<".", ",">>             *)
(* and "15/02/2024 09:30" has five numbers and the separators "/", "/",    *)
(* " " and ":".                                                            *)
(***************************************************************************)
EXTENDS Integers, Sequences, SequencesExt

Cell(word, neg, nums, seps) ==
  [word |-> word, neg |-> neg, nums |-> nums, seps |-> seps]
Word(w) == Cell(w, FALSE, <<>>, <<>>)
EmptyCell == Word("")

\* strings.TrimSpace(cell) == "".
IsBlank(c) == c = EmptyCell

Read(v) == [ok |-> TRUE, val |-> v]
Unreadable == [ok |-> FALSE, val |-> 0]

-------------------------------------------------------------------------------
(* Amounts, in cents.                                                      *)

\* The digits of a sequence of runs, read as one number; how many they are.
Digits(nums) == FoldLeft(LAMBDA acc, g : acc * 10^g.w + g.n, 0, nums)
Width(nums) == FoldLeft(LAMBDA acc, g : acc + g.w, 0, nums)

\* math.Round(n / d) for n >= 0, d > 0.
RoundDiv(n, d) == (2 * n + d) \div (2 * d)

\* The separators strconv.ParseFloat sees as a point once ParseAmount has
\* removed the thousands separator of the format, and the digit runs after.
DecimalPoint(european) == IF european THEN "," ELSE "."
Points(c, european) == {i \in DOMAIN c.seps : c.seps[i] = DecimalPoint(european)}

\* Everything but digits, comma, period and minus is dropped first; a text
\* with none of them is worth 0; no digits, an inner minus and a second decimal
\* point are errors.  The code rounds a float64: of amounts with two decimals
\* below 2^50 cents that gives the cents they say, as here.
ParseAmount(c, european) ==
  LET points == Points(c, european)
      fraction == IF points = {} THEN <<>>
                  ELSE SubSeq(c.nums, (CHOOSE i \in points : TRUE) + 1, Len(c.nums))
      cents == RoundDiv(Digits(c.nums) * 100, 10^Width(fraction))
  IN  IF c.nums = <<>> /\ c.seps = <<>> /\ ~c.neg THEN Read(0)
      ELSE IF \/ c.nums = <<>>
              \/ Cardinality(points) > 1
              \/ \E i \in DOMAIN c.seps : c.seps[i] = "-"
           THEN Unreadable
           ELSE Read(IF c.neg THEN -cents ELSE cents)

Magnitude(n) == IF n < 0 THEN -n ELSE n

\* A debit cell that is not blank decides, whatever it is worth.
UsesDebit(debit) == ~IsBlank(debit)
NormalizeDebitCredit(debit, credit, european) ==
  LET side == ParseAmount(IF UsesDebit(debit) THEN debit ELSE credit, european)
      amount == Magnitude(side.val)
  IN  [side EXCEPT !.val = IF UsesDebit(debit) THEN -amount ELSE amount]

-------------------------------------------------------------------------------
(* Dates.  A layout is the order of its parts, their separator, whether    *)
(* day and month must have two digits ("02") and its clock: 0 for none, 2  *)
(* for 15:04, 3 for 15:04:05.                                              *)

Layout(order, sep, padded, clock) ==
  [order |-> order, sep |-> sep, padded |-> padded, clock |-> clock]

\* Mutant: month-first layouts are tried first.
MonthFirstFormats ==
  << Layout("MDY", "-", TRUE, 0), Layout("MDY", "/", TRUE, 0), Layout("DMY", "-", TRUE, 0),
     Layout("DMY", "/", TRUE, 0), Layout("YMD", "-", TRUE, 0) >>

dateFormats ==
  << Layout("DMY", "-", TRUE, 0), Layout("DMY", "/", TRUE, 0), Layout("DMY", ".", TRUE, 0),
     Layout("DMY", "-", FALSE, 0), Layout("DMY", "/", FALSE, 0),
     Layout("MDY", "-", TRUE, 0), Layout("MDY", "/", TRUE, 0), Layout("MDY", "/", FALSE, 0),
     Layout("YMD", "-", TRUE, 0), Layout("YMD", "/", TRUE, 0),
     Layout("DMY", "-", TRUE, 2), Layout("DMY", "/", TRUE, 2), Layout("MDY", "/", TRUE, 2),
     Layout("YMD", "-", TRUE, 3) >>

LayoutSeps(l) == <<l.sep, l.sep>> \o SubSeq(<<" ", ":", ":">>, 1, l.clock)

\* Where a layout has the day, the month and the year.
DayPart(l) == CASE l.order = "DMY" -> 1 [] l.order = "MDY" -> 2 [] OTHER -> 3
MonthPart(l) == IF l.order = "MDY" THEN 1 ELSE 2
YearPart(l) == IF l.order = "YMD" THEN 1 ELSE 3

\* convertDateFormat ranges over a map, so "YY" may be replaced before
\* "YYYY": the layout is then "0606", which reads the year two digits at a
\* time and keeps the last two, 69..99 in the 1900s.
YearRead(y, shortFirst) ==
  IF ~shortFirst THEN y
  ELSE IF y % 100 >= 69 THEN 1900 + (y % 100) ELSE 2000 + (y % 100)

DaysIn(m, y) ==
  CASE m \in {4, 6, 9, 11} -> 30
    [] m = 2 -> IF y % 4 = 0 /\ (y % 100 # 0 \/ y % 400 = 0) THEN 29 ELSE 28
    [] OTHER -> 31

\* time.ParseInLocation succeeds; the time of day and the zone are left out.
Fits(c, l) ==
  /\ ~c.neg /\ c.word = ""
  /\ Len(c.nums) = Len(LayoutSeps(l)) + 1
  /\ c.seps = LayoutSeps(l)
  /\ LET d == c.nums[DayPart(l)]  m == c.nums[MonthPart(l)]  y == c.nums[YearPart(l)]
     IN  /\ y.w = 4
         /\ {d.w, m.w} \subseteq (IF l.padded THEN {2} ELSE {1, 2})
         /\ m.n \in 1..12
         /\ d.n \in 1..DaysIn(m.n, y.n)

DateBy(c, l, shortFirst) ==
  << YearRead(c.nums[YearPart(l)].n, shortFirst),
     c.nums[MonthPart(l)].n, c.nums[DayPart(l)].n >>

NoFormat == <<>>

\* The preferred layout (a sequence of at most one) first, then the list.
ParseFlexibleDate(c, preferred, shortFirst) ==
  LET fitting(ls) == {i \in DOMAIN ls : Fits(c, ls[i])}
  IN  IF fitting(preferred) # {}
      THEN Read(DateBy(c, preferred[1], shortFirst))
      ELSE IF fitting(dateFormats) # {}
           THEN Read(DateBy(c, dateFormats[Min(fitting(dateFormats))], FALSE))
           ELSE Unreadable

\* The layout guessed from the first sample alone: ISO if the four digits
\* come first, day first for everything else.
DetectDateFormat(sample) ==
  LET three == Len(sample.nums) = 3 /\ sample.word = "" /\ ~sample.neg
      sep == IF three /\ "/" \in ToSet(sample.seps) THEN "/" ELSE "-"
      short(i) == sample.nums[i].w \in {1, 2}
      dashed == ToSet(sample.seps) \subseteq {"-", "/"}
  IN  IF three /\ dashed /\ sample.nums[1].w = 4 /\ short(2) /\ short(3)
      THEN Layout("YMD", sep, TRUE, 0)
      ELSE IF three /\ dashed /\ short(1) /\ short(2) /\ sample.nums[3].w = 4
           THEN Layout("DMY", sep, TRUE, 0)
           ELSE Layout("DMY", "-", TRUE, 0)

===============================================================================
