--------------------------- MODULE MCImportAnalysis ---------------------------
(***************************************************************************)
(* Statements as banks write them.  A bank is a style (delimiter, decimal  *)
(* convention, date order and separator, one amount column or two, what an *)
(* unused cell of the two holds, whether cents are shown); a statement is  *)
(* a style, lines above the header, and transactions.  Written out, not    *)
(* detected: what the analysis should find is known by construction.       *)
(***************************************************************************)
EXTENDS ImportAnalysis

Txn(y, m, d, cents, desc) == [date |-> <<y, m, d>>, cents |-> cents, desc |-> desc]

\* Days below and above 12, amounts below and above a thousand, both signs.
Books ==
  { << Txn(2024, 2, 1, -123400, "shop"), Txn(2024, 2, 25, 250000, "salary"), Txn(2024, 3, 3, -500, "bar") >>,
    << Txn(2024, 2, 25, -123456, "shop"), Txn(2024, 4, 5, 1050, "refund") >>,
    << Txn(2024, 12, 11, 100000, "salary") >> }
\* A million and a row without a description.
Rich == << Txn(2024, 5, 6, 123456700, "house"), Txn(2024, 5, 7, -300, "") >>

WidthOf(n) == IF n < 10 THEN 1 ELSE IF n < 100 THEN 2 ELSE IF n < 1000 THEN 3 ELSE 4

\* The text of an amount: thousands and decimals set apart the bank's way.
WriteAmount(cents, style) ==
  LET units == Magnitude(cents) \div 100
      runs == CASE units < 1000 -> << Run(units, WidthOf(units)) >>
                [] units < Million -> << Run(units \div 1000, WidthOf(units \div 1000)), Run(units % 1000, 3) >>
                [] OTHER -> << Run(units \div Million, WidthOf(units \div Million)),
                               Run((units \div 1000) % 1000, 3), Run(units % 1000, 3) >>
      commas == [i \in 1..(Len(runs) - 1) |-> Thousands(style)]
  IN  Cell("", cents < 0,
           runs \o (IF style.cents THEN << Run(Magnitude(cents) % 100, 2) >> ELSE <<>>),
           commas \o (IF style.cents THEN << DecimalPoint(style.european) >> ELSE <<>>))

WriteDate(date, style) ==
  LET y == Run(date[1], 4)  m == Run(date[2], 2)  d == Run(date[3], 2)
  IN  Cell("", FALSE,
           CASE style.order = "DMY" -> <<d, m, y>> [] style.order = "MDY" -> <<m, d, y>> [] OTHER -> <<y, m, d>>,
           <<style.sep, style.sep>>)

Unused(style) ==
  CASE style.fill = "zero" -> Cell("", FALSE, <<Run(0, 1), Run(0, 2)>>, <<DecimalPoint(style.european)>>)
    [] style.fill = "dash" -> Cell("", TRUE, <<>>, <<>>)
    [] OTHER -> EmptyCell

\* Money out in the debit column without its sign, money in in the other.
WriteRow(t, style) ==
  LET amount == WriteAmount(t.cents, style)
      unsigned == [amount EXCEPT !.neg = FALSE]
  IN  Line(style.delim,
        << WriteDate(t.date, style), Word(t.desc) >>
        \o (IF ~style.double THEN <<amount>>
            ELSE IF t.cents < 0 THEN <<unsigned, Unused(style)>> ELSE <<Unused(style), unsigned>>)
        \o (IF style.mark = "" THEN <<>> ELSE << Word(style.mark) >>))

HeaderLine(style) ==
  Line(style.delim,
    (IF style.double THEN << Word("data mov."), Word("descricao"), Word("debito"), Word("credito") >>
     ELSE << Word("date"), Word("description"), Word("amount") >>)
    \o (IF style.mark = "" THEN <<>> ELSE << Word("currency") >>))

MCColumns == {-1, 2, 7}
MCWordsInside ==
  { <<"data mov.", "data mov">>, <<"descricao", "descri">>, <<"description", "descri">>,
    <<"debito", "debit">>, <<"credito", "credit">>,
    <<"card debit credit", "debit">>, <<"card debit credit", "credit">>,
    <<"Branch at the zoo", "zoo">>, <<"Account 1 - EUR", "EUR">>, <<"Account 1 - EUR", "-">>,
    <<"Period 01-JAN-2024", "JAN">>, <<"Period 01-JAN-2024", "-">>,
    <<"Balance", "balance">>, <<"Currency: EUR", "EUR">>, <<"Currency: EUR", "currency">>,
    <<"Saldo em R$", "R$">>, <<"Saldo em R$", "saldo">>, <<"Saldo em R$", "$">>, <<"R$", "$">> }

Account == Line(";", << Word("Account 1 - EUR") >>)
Continued == [Line(";", << Word("of the bank") >>) EXCEPT !.cont = TRUE]
Preambles ==
  { << Account >>,
    << Account, BlankLine >>,
    << Line(";", << Word("Branch at the zoo") >>), Account >>,
    << Account, Continued, BlankLine >>,
    << Line(";", << Word("Period 01-JAN-2024") >>), Account >>,
    << Line(";", << Word("Currency: EUR") >>), Line(";", << Word("Balance"), Word("total") >>) >>,
    << Line(";", << Word("Saldo em R$") >>) >> }

Style(delim, european, order, sep, double, fill, cents, mark) ==
  [delim |-> delim, european |-> european, order |-> order, sep |-> sep, double |-> double,
   fill |-> fill, cents |-> cents, mark |-> mark]
Styles ==
  { Style(delim, e, d[1], d[2], f # "none", f, c, "") :
      delim \in {";", ","}, e \in BOOLEAN, d \in {<<"DMY", "/">>, <<"DMY", "-">>, <<"MDY", "/">>, <<"YMD", "-">>},
      f \in {"none", "blank", "zero", "dash"}, c \in {TRUE} }
  \cup { Style(delim, e, d, "/", FALSE, "none", FALSE, "") :
      delim \in {";", ","}, e \in BOOLEAN, d \in {"DMY", "MDY"} }

\* A bank that shows no cents books whole units.
Shown(t, style) ==
  IF style.cents THEN t
  ELSE [t EXCEPT !.cents = (IF @ < 0 THEN -100 ELSE 100) * (Magnitude(@) \div 100)]

Statement(style, above, txns) ==
  style @@
  [lines |-> above \o << HeaderLine(style) >> \o [i \in DOMAIN txns |-> WriteRow(txns[i], style)],
   header |-> Len(above), rows |-> [i \in DOMAIN txns |-> Shown(txns[i], style)],
   currency |-> IF style.mark = "$" THEN "USD" ELSE "EUR",
   columns |-> [date |-> 0, desc |-> 1, amount |-> 2, debit |-> 2, credit |-> 3]]

\* Every style with every book under one line, a few styles under every
\* preamble, and statements with a currency column and no line above.
Plain == { Statement(s, << Account >>, b) : s \in Styles, b \in Books }
Topped ==
  { Statement(s, p, b) : p \in Preambles, b \in Books,
      s \in {x \in Styles : x.cents /\ x.fill \in {"none", "blank"} /\ x.sep = "/" /\ x.european = (x.delim = ";")} }
Marked ==
  { Statement([s EXCEPT !.mark = mark], <<>>, b) : mark \in {"EUR", "$"}, b \in Books,
      s \in {x \in Styles : x.cents /\ x.fill \in {"none", "blank"} /\ x.order = "DMY" /\ x.sep = "/"} }
\* A data row whose description holds two keywords, under a header of as
\* many columns.
Decoys ==
  { Statement(s, << Account >>, << Txn(2024, 2, 1, -123400, "card debit credit"), Txn(2024, 2, 25, -700, "bar") >>) :
      s \in {x \in Styles : x.cents /\ x.fill = "none" /\ x.order = "DMY" /\ x.sep = "/"} }

\* Millions, dates with dots, and a file cut off within its last line.
Large ==
  { Statement(s, << Account >>, Rich) : s \in {x \in Styles : ~x.cents} }
Dotted ==
  { Statement([s EXCEPT !.sep = "."], << Account >>, b) : b \in Books,
      s \in {x \in Styles : x.cents /\ x.fill \in {"none", "blank"} /\ x.order = "DMY" /\ x.sep = "/"} }
CutOff(s) == [s EXCEPT !.lines[Len(s.lines)] = Line(s.delim, SubSeq(@.cells, 1, 2))]
Cut == { CutOff(Statement(s, << Account >>, b)) : b \in Books,
           s \in {x \in Styles : x.cents /\ x.fill = "none" /\ x.order = "DMY" /\ x.sep = "/"} }

WrittenStatements == Plain \cup Topped \cup Marked \cup Decoys \cup Large \cup Dotted
ASSUME AsBanksWrite == \A s \in WrittenStatements : Written(s) /\ OneCurrency(s)
MCStatements == WrittenStatements \cup Cut
MCAccountCurrency == [a \in {"own", "foreign"} |-> IF a = "own" THEN "EUR" ELSE ""]
MCThreeLetterWords == {"EUR", "USD", "JAN", "zoo", "bar"}
\* A global template and another user's mapping for the banks with two
\* amount columns.
DoubleEntryBank ==
  generateFingerprint(HeaderLine(Style(";", TRUE, "DMY", "/", TRUE, "blank", TRUE, "")).cells)
MCLearned ==
  { BankMapping(owner, DoubleEntryBank, protoMappingToService(NoProto, NoFormat)) :
      owner \in {"global", "rui"} }

===============================================================================
