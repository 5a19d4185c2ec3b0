---------------------------- MODULE ImportAnalysis ----------------------------
(***************************************************************************)
(* One bank statement from AnalyzeCsvFile to the rows ImportTransactionsCsv *)
(* takes from it: what the analysis tells the client, what the client      *)
(* sends back, the bank_mappings table, and how ImportWithOptions decides  *)
(* on the header row, the delimiter, the columns, the formats and the      *)
(* currency before its goroutines start (those are ImportPipeline's).      *)
(***************************************************************************)
EXTENDS Sniffer

CONSTANTS
  Users,
  Statements,        \* what banks write: see IsStatement
  AccountCurrency,   \* account -> currency_code, "" for one not the caller's or not active
  ThreeLetterWords,  \* the words of three letters that occur in statements
  Learned,           \* the rows bank_mappings starts with: global and other users'
  Columns            \* the column numbers a client may ask for

VARIABLES
  statement,   \* the statement the users have at hand
  mappings,    \* the rows of bank_mappings
  reply,       \* the last AnalyzeCsvFileResponse of each user
  result       \* what the last import made of the statement

vars == <<statement, mappings, reply, result>>

\* The bank's side: the lines it wrote, the row (from 0) of the header, and
\* for every data line below it what it stands for.
Cells == [word : STRING, neg : BOOLEAN, nums : Seq([n : Nat, w : Nat]), seps : Seq(STRING)]
Lines == [delim : STRING, cells : Seq(Cells), cont : BOOLEAN]
IsStatement(s) ==
  /\ s.lines \in Seq(Lines) /\ s.header \in 0..(Len(s.lines) - 1)
  /\ Len(s.rows) = Len(s.lines) - s.header - 1
ASSUME StatementsAssumption == \A s \in Statements : IsStatement(s)
ASSUME ColumnsAssumption == Columns \subseteq Int
ASSUME AccountsAssumption == \A a \in DOMAIN AccountCurrency : AccountCurrency[a] \in STRING

Nothing == [ok |-> FALSE]

-------------------------------------------------------------------------------
(* The mapping a request carries, and what the import makes of it.         *)

\* A CsvMapping on the wire: column numbers, delimiter "" when not set.
Proto(date, desc, amount, debit, credit, european, delim, skipLines) ==
  [date |-> date, desc |-> desc, amount |-> amount, debit |-> debit, credit |-> credit,
   isEuropean |-> european, delim |-> delim, skipLines |-> skipLines]
Bare(date, amount, debit) == Proto(date, None, amount, debit, None, TRUE, "", 0)
NoProto == Bare(None, None, None)

\* Text that is no number becomes -1; a category column is never sent.
protoMappingToService(p, dateFormat) ==
  [date |-> p.date, desc |-> p.desc, amount |-> p.amount, debit |-> p.debit, credit |-> p.credit,
   category |-> None, isDoubleEntry |-> p.debit >= 0 /\ p.credit >= 0,
   isEuropean |-> p.isEuropean, dateFormat |-> dateFormat,
   delim |-> p.delim, skipLines |-> p.skipLines]

\* The client sends back what the analysis suggested.
Echo(r) ==
  LET c == r.suggestions
  IN  Proto(c.date, c.desc, c.amount, c.debit, c.credit,
            r.dialect.isEuropeanFormat, r.config.delim, r.config.skipLines)

Or(col, suggested) == IF col < 0 THEN suggested ELSE col

\* Columns the request leaves open are taken from the header texts; one of
\* debit and credit, or a file with both and no amount, makes double entry.
DoubleEntry(m, s) ==
  \/ m.isDoubleEntry \/ m.debit >= 0 \/ m.credit >= 0
  \/ m.amount < 0 /\ s.amount < 0 /\ s.isDoubleEntry
Filled(m, s, double) ==
  [m EXCEPT !.date = Or(@, s.date), !.desc = Or(@, s.desc), !.category = Or(@, s.category),
            !.debit = IF double THEN Or(@, s.debit) ELSE @,
            !.credit = IF double THEN Or(@, s.credit) ELSE @,
            !.amount = IF double THEN @ ELSE Or(@, s.amount),
            !.isDoubleEntry = double]
FillColumns(m, s) == Filled(m, s, DoubleEntry(m, s))

\* The columns parseRow goes to.
Used(m) == {m.date, m.desc} \cup (IF m.isDoubleEntry THEN {m.debit, m.credit} ELSE {m.amount})

\* Mutant: a column found nowhere is let through.
BelowHeaderEnd(config, col) == col <= Len(config.headers) - 1

\* resolveMapping refuses missing columns and columns beyond the header.
InHeader(config, col) == col >= 0 /\ col <= Len(config.headers) - 1
Checked(config, m) ==
  IF \A col \in Used(m) : InHeader(config, col) THEN [ok |-> TRUE, mapping |-> m] ELSE Nothing
resolveMapping(config, m) == Checked(config, FillColumns(m, SuggestColumns(config.headers)))

Samples(rows, cols) == UNION {WrittenAt(rows, col) \X {col} : col \in cols}

\* Mutant: the first separator is taken for the decimal one.
FirstSeparatorVote(c) ==
  IF SepsIn(c) = {} THEN 0 ELSE IF c.seps[1] = "," THEN 1 ELSE -1

\* As the sniffer votes, but one kind of separator needs digits behind it.
SampleVote(c) ==
  IF Cardinality(SepsIn(c)) = 2 \/ Len(c.nums) > Len(c.seps) THEN analyzeAmountFormat(c) ELSE 0

\* detectEuropeanFormat: 1, -1, or 0 when the samples do not decide.
detectEuropeanFormat(rows, m) ==
  LET cols == IF m.isDoubleEntry THEN {m.debit, m.credit} ELSE {m.amount}
      votes(v) == Cardinality({p \in Samples(rows, cols) : SampleVote(p[1][2]) = v})
  IN  IF votes(1) = votes(-1) THEN 0 ELSE IF votes(1) > votes(-1) THEN 1 ELSE -1

\* The first non-blank date sample, as a sequence of at most one.
FirstDate(rows, col) ==
  LET written == WrittenAt(rows, col)
  IN  IF written = {} THEN <<>> ELSE << (CHOOSE p \in written : \A q \in written : p[1] <= q[1])[2] >>

FormatByDelimiter(delim, asked) ==
  CASE delim = ";" -> TRUE [] delim = "," -> FALSE [] OTHER -> asked

WithDefaults(config, m, dates, vote) ==
  [m EXCEPT !.dateFormat = IF @ = NoFormat /\ dates # <<>>
                           THEN <<DetectDateFormat(dates[1])>> ELSE @,
            !.isEuropean = IF vote # 0 THEN vote = 1 ELSE FormatByDelimiter(config.delim, @)]
applyFormatDefaults(config, m) ==
  WithDefaults(config, m, FirstDate(config.sampleRows, m.date),
               detectEuropeanFormat(config.sampleRows, m))

\* Mutant: SkipLines taken for a count that includes the header.
SkipIncludesHeader(m, headerRows) ==
  IF m.skipLines > 0 THEN m.skipLines - 1 ELSE headerRows - 1

\* mapping.SkipLines when it is not 0, else HeaderRows, else detection.
HeaderRowIndex(m, headerRows) ==
  IF m.skipLines > 0 THEN m.skipLines ELSE headerRows - 1

-------------------------------------------------------------------------------
(* The currency of the rows.                                               *)

currencySymbols ==
  << <<"EUR sign", "EUR">>, <<"GBP sign", "GBP">>, <<"JPY sign", "JPY">>, <<"INR sign", "INR">>,
     <<"RUB sign", "RUB">>, <<"KRW sign", "KRW">>, <<"TRY sign", "TRY">>, <<"VND sign", "VND">>,
     <<"ILS sign", "ILS">>, <<"$", "USD">> >>
currencyKeywords == {"currency", "moeda", "moneda", "divisa", "devise", "valuta"}

\* The first symbol of the list that the cells hold.
detectCurrencyFromSymbols(cells) ==
  FoldLeft(LAMBDA code, s : IF code = "" /\ \E c \in ToSet(cells) : Holds(c, s[1]) THEN s[2] ELSE code,
           "", currencySymbols)

\* The one token of three letters the cells hold; none if there are two.  A
\* cell is taken to hold each at most once.
CodesIn(c) == {w \in ThreeLetterWords : Holds(c, w)}
TheToken(tokens) == IF Cardinality(tokens) = 1 THEN (CHOOSE t \in tokens : TRUE)[2] ELSE ""
extractSingleCurrencyToken(cells) ==
  TheToken(UNION {{i} \X CodesIn(cells[i]) : i \in DOMAIN cells})

\* Mutant: any line may name the currency.
AlwaysHinted(line) == TRUE

\* The line speaks of the currency, or has a hyphen.
Hinted(line) == \E c \in ToSet(line.cells), w \in currencyKeywords \cup {"-"} : Holds(c, w)

Else(code, other) == IF code # "" THEN code ELSE other

\* A symbol, or the one token of a line with a hint.
detectCurrencyFromLine(line) ==
  Else(detectCurrencyFromSymbols(line.cells),
       IF Hinted(line) THEN extractSingleCurrencyToken(line.cells) ELSE "")

CurrencyOfCell(c) ==
  Else(extractSingleCurrencyToken(<<c>>), detectCurrencyFromSymbols(<<c>>))

FirstFound(codes) == FoldLeft(Else, "", codes)

\* The lines above the header first, then the currency column of the samples.
detectCurrencyFromFile(lines, config) ==
  LET col == FirstOf(config.headers, currencyKeywords, {})
      above == [i \in 1..config.skipLines |-> detectCurrencyFromLine(lines[i])]
      below == [i \in DOMAIN config.sampleRows |->
                  LET row == config.sampleRows[i]
                  IN  IF col >= 0 /\ col < Len(row) THEN CurrencyOfCell(row[col + 1]) ELSE ""]
  IN  FirstFound(above \o below)

\* The account decides when one is named, even if it is unknown.
resolveCurrencyCode(account, lines, config) ==
  IF account # "none" THEN AccountCurrency[account] ELSE detectCurrencyFromFile(lines, config)

-------------------------------------------------------------------------------
(* Rows.                                                                   *)

Refused == [outcome |-> "refused"]
Panic == [outcome |-> "panic"]

\* The amount of a record; a debit or credit column that is none reads blank.
AmountOf(record, m) ==
  LET at(col) == IF col < 0 THEN EmptyCell ELSE record[col + 1]
  IN  IF m.isDoubleEntry THEN NormalizeDebitCredit(at(m.debit), at(m.credit), m.isEuropean)
      ELSE ParseAmount(at(m.amount), m.isEuropean)

\* In the order of the code: columns are checked against the end of the record
\* only, and a negative one is indexed as it is: record[-1], in a worker.
parseRow(record, m, shortFirst) ==
  LET Beyond(cols) == \E col \in cols : col > Len(record) - 1
      date == ParseFlexibleDate(record[m.date + 1], m.dateFormat, shortFirst)
      amount == AmountOf(record, m)
  IN  IF Beyond({m.date, m.desc}) THEN Refused
      ELSE IF m.date < 0 THEN Panic
      ELSE IF ~date.ok THEN Refused
      ELSE IF m.desc < 0 THEN Panic
      ELSE IF IsBlank(record[m.desc + 1]) \/ Beyond(Used(m)) THEN Refused
      ELSE IF ~m.isDoubleEntry /\ m.amount < 0 THEN Panic
      ELSE IF ~amount.ok THEN Refused
      ELSE [outcome |-> "parsed", date |-> date.val, cents |-> amount.val,
            desc |-> record[m.desc + 1].word]

\* Mutant: only the lines above the header are dropped.
HeaderAsData(lines, config) ==
  LET records == Records(lines, config.delim)
  IN  SubSeq(records, config.skipLines + 1, Len(records))

\* parseTransactionsStream drops SkipLines + 1 records to get past the header.
DataRecords(lines, config) ==
  LET records == Records(lines, config.delim)
  IN  SubSeq(records, config.skipLines + 2, Len(records))

-------------------------------------------------------------------------------
(* The mapping table.                                                      *)

\* Own rows come before global ones (ORDER BY user_id NULLS LAST LIMIT 1).
GetMappingByFingerprint(fingerprint, u) ==
  LET rows(owner) == {m \in mappings : m.user = owner /\ m.fingerprint = fingerprint}
  IN  IF rows(u) # {} THEN CHOOSE m \in rows(u) : TRUE
      ELSE IF rows("global") # {} THEN CHOOSE m \in rows("global") : TRUE ELSE Nothing

\* Mutant: no such constraint.
NeverTaken(u, fingerprint) == FALSE

\* UNIQUE (fingerprint, user_id).
Taken(u, fingerprint) == \E m \in mappings : m.user = u /\ m.fingerprint = fingerprint

\* SaveMapping writes ";" and 0 for every file; an absent column is NULL.
BankMapping(u, fingerprint, m) ==
  [ok |-> TRUE, user |-> u, fingerprint |-> fingerprint, delim |-> ";", skipLines |-> 0,
   dateFormat |-> m.dateFormat, date |-> m.date, desc |-> m.desc, category |-> m.category,
   amount |-> IF m.isDoubleEntry THEN None ELSE m.amount,
   debit |-> IF m.isDoubleEntry THEN m.debit ELSE None,
   credit |-> IF m.isDoubleEntry THEN m.credit ELSE None,
   isEuropean |-> m.isEuropean]

-------------------------------------------------------------------------------
(* Requests.                                                               *)

Init ==
  /\ statement \in Statements
  /\ mappings = Learned
  /\ reply = [u \in Users |-> Nothing]
  /\ result = Nothing

\* The bound of the model: one import, as the last step of a behaviour.
BeforeImport == result = Nothing

\* The cells probed for the amount format.
ProbedColumn(s) == IF s.isDoubleEntry /\ s.amount < 0 THEN s.debit ELSE s.amount

Analysis(u, config, s) ==
  [ok |-> TRUE, config |-> config, suggestions |-> s,
   dialect |-> ProbeDialect(config.sampleRows, ProbedColumn(s), s.date),
   mapping |-> GetMappingByFingerprint(config.fingerprint, u)]
AnalyzeConfig(u, config) ==
  IF config.ok THEN Analysis(u, config, SuggestColumns(config.headers)) ELSE Nothing
AnalyzeFile(u) == AnalyzeConfig(u, DetectConfig(statement.lines, None, ""))

AnalyzeCsvFile(u) ==
  /\ BeforeImport
  /\ reply' = [reply EXCEPT ![u] = AnalyzeFile(u)]
  /\ UNCHANGED <<statement, mappings, result>>

\* What a user saves: the suggestions, in the analysis's format or the other.
SaveMapping(u) ==
  /\ BeforeImport
  /\ reply[u].ok
  /\ ~Taken(u, reply[u].config.fingerprint)        \* else the INSERT fails
  /\ \E european \in BOOLEAN :
       LET m == [protoMappingToService(Echo(reply[u]), <<reply[u].dialect.dateFormat>>)
                   EXCEPT !.category = reply[u].suggestions.category,
                          !.isDoubleEntry = reply[u].suggestions.isDoubleEntry,
                          !.isEuropean = european]
       IN  mappings' = mappings \cup {BankMapping(u, reply[u].config.fingerprint, m)}
  /\ UNCHANGED <<statement, reply, result>>

\* ImportWithOptions up to the rows: Nothing for an error before the job.
ParseRows(records, m, shortFirst) ==
  [i \in DOMAIN records |-> parseRow(records[i], m, shortFirst)]
Import(config, m, currency, shortFirst) ==
  IF currency = "" THEN Nothing
  ELSE [ok |-> TRUE, config |-> config, mapping |-> m, currency |-> currency,
        rows |-> ParseRows(DataRecords(statement.lines, config), m, shortFirst)]
ImportResolved(config, resolved, account, shortFirst) ==
  IF ~resolved.ok THEN Nothing
  ELSE Import(config, applyFormatDefaults(config, resolved.mapping),
              resolveCurrencyCode(account, statement.lines, config), shortFirst)
ImportConfigured(config, m, account, shortFirst) ==
  IF ~config.ok THEN Nothing
  ELSE ImportResolved(config, resolveMapping(config, m), account, shortFirst)
ImportWithOptions(m, headerRows, account, shortFirst) ==
  ImportConfigured(DetectConfig(statement.lines, HeaderRowIndex(m, headerRows), m.delim),
                   m, account, shortFirst)

\* No mapping at all, what the analysis said, or columns of the client's.
Heard(u) == IF reply[u].ok THEN {reply[u]} ELSE {}
Requests(u) ==
  { NoProto } \cup { Echo(r) : r \in Heard(u) }
  \cup { Bare(d, None, None) : d \in Columns }
  \cup { Bare(None, a, b) : a, b \in Columns }
Formats(u) == { NoFormat } \cup { <<r.dialect.dateFormat>> : r \in Heard(u) }

\* An import that got as far as rows is kept with what it was asked.
Remembered(asked, headerRows, account, imported) ==
  IF ~imported.ok THEN Nothing
  ELSE [ok |-> TRUE, asked |-> asked, headerRows |-> headerRows, account |-> account,
        config |-> imported.config, mapping |-> imported.mapping,
        currency |-> imported.currency, rows |-> imported.rows]

ImportTransactionsCsv(u) ==
  \E p \in Requests(u), format \in Formats(u), headerRows \in {0, statement.header + 1},
     account \in {"none"} \cup DOMAIN AccountCurrency, shortFirst \in BOOLEAN :
    /\ BeforeImport
    /\ result' = Remembered(protoMappingToService(p, format), headerRows, account,
                            ImportWithOptions(protoMappingToService(p, format), headerRows,
                                              account, shortFirst))
    /\ UNCHANGED <<statement, mappings, reply>>

Next == \E u \in Users : AnalyzeCsvFile(u) \/ SaveMapping(u) \/ ImportTransactionsCsv(u)

Spec == Init /\ [][Next]_vars

-------------------------------------------------------------------------------
(* What a bank writes.  A statement also says how: its delimiter, columns, *)
(* date order and separator, decimal convention, whether amounts show      *)
(* cents, what an unused debit or credit cell holds, the currency.  Only   *)
(* the properties read this.                                               *)

Run(n, w) == [n |-> n, w |-> w]
Million == 1000 * 1000

\* The digit runs and separators of a number of units: in one run, or its
\* thousands set apart.  The leading run may have zeros in front.
Grouped(units, comma) ==
  { << <<Run(units, w)>>, <<>> >> : w \in 1..9 }
  \cup (IF units < 1000 THEN {}
        ELSE { << <<Run(units \div 1000, w), Run(units % 1000, 3)>>, <<comma>> >> : w \in 1..6 })
  \cup (IF units < Million THEN {}
        ELSE { << <<Run(units \div Million, w), Run((units \div 1000) % 1000, 3), Run(units % 1000, 3)>>,
                  <<comma, comma>> >> : w \in 1..3 })

\* The texts of an amount of so many cents.
Thousands(s) == DecimalPoint(~s.european)
AmountTexts(cents, s) ==
  LET whole == Grouped(Magnitude(cents) \div 100, Thousands(s))
  IN  IF s.cents
      THEN { Cell("", cents < 0, Append(g[1], Run(Magnitude(cents) % 100, 2)),
                  Append(g[2], DecimalPoint(s.european))) : g \in whole }
      ELSE { Cell("", cents < 0, g[1], g[2]) : g \in whole }

UnusedTexts(s) ==
  CASE s.fill = "zero" -> AmountTexts(0, s)
    [] s.fill = "dash" -> {Cell("", TRUE, <<>>, <<>>)}
    [] OTHER -> {EmptyCell}

DateParts(date, order) ==
  LET y == Run(date[1], 4)  m == Run(date[2], 2)  d == Run(date[3], 2)
  IN  CASE order = "DMY" -> <<d, m, y>> [] order = "MDY" -> <<m, d, y>> [] OTHER -> <<y, m, d>>
DateText(date, s) == Cell("", FALSE, DateParts(date, s.order), <<s.sep, s.sep>>)

AmountColumns(s) == IF s.double THEN {s.columns["debit"], s.columns["credit"]} ELSE {s.columns["amount"]}

\* Money out in the debit column without its sign, money in in the other.
SaysAmount(cells, cents, s) ==
  LET at(col) == cells[s.columns[col] + 1]
  IN  IF ~s.double THEN at("amount") \in AmountTexts(cents, s)
      ELSE IF cents < 0 THEN at("debit") \in AmountTexts(-cents, s) /\ at("credit") \in UnusedTexts(s)
      ELSE at("debit") \in UnusedTexts(s) /\ at("credit") \in AmountTexts(cents, s)

\* A line of the statement and what it stands for; other columns may hold
\* anything.
IsRow(line, row, s) ==
  /\ line.delim = s.delim /\ ~line.cont
  /\ ({s.columns["date"], s.columns["desc"]} \cup AmountColumns(s)) \subseteq 0..(Len(line.cells) - 1)
  /\ line.cells[s.columns["date"] + 1] = DateText(row.date, s)
  /\ line.cells[s.columns["desc"] + 1] = Word(row.desc)
  /\ SaysAmount(line.cells, row.cents, s)

\* A day two digits of a year can say.
IsDate(date) ==
  date \in (1969..2068) \X (1..12) \X (1..31) /\ date[3] <= DaysIn(date[2], date[1])

\* Less than a billion, and whole units where no cents are shown.
IsTransaction(row, s) ==
  /\ IsDate(row.date)
  /\ row.cents \in Int /\ Magnitude(row.cents) \div 100 < 1000 * Million
  /\ s.cents \/ Magnitude(row.cents) % 100 = 0
  /\ row.desc \in STRING

DateStyles == ({"DMY"} \X {"/", "-", "."}) \cup ({"MDY", "YMD"} \X {"/", "-"})
Written(s) ==
  /\ <<s.order, s.sep>> \in DateStyles
  /\ s.european \in BOOLEAN /\ s.cents \in BOOLEAN /\ s.double \in BOOLEAN
  /\ LET headerLine == s.lines[s.header + 1]
     IN  headerLine.delim = s.delim /\ headerLine.cells # <<>> /\ ~headerLine.cont
  /\ \A k \in 1..Len(s.rows) :
       IsTransaction(s.rows[k], s) /\ IsRow(s.lines[s.header + 1 + k], s.rows[k], s)

\* No sign or word names another currency than the statement's: above the
\* header where the line speaks of the currency, below it in its column.
NamesOnly(c, s) ==
  \A i \in DOMAIN currencySymbols :
    Holds(c, currencySymbols[i][1]) => currencySymbols[i][2] = s.currency \/ Holds(c, "R$")
Coded(c, s) == CodesIn(c) \subseteq {s.currency}
SpeaksOfCurrency(cells) == \E c \in ToSet(cells), w \in currencyKeywords : Holds(c, w)
OneCurrency(s) ==
  /\ \A i \in 1..s.header : \A c \in ToSet(s.lines[i].cells) :
       NamesOnly(c, s) /\ (SpeaksOfCurrency(s.lines[i].cells) => Coded(c, s))
  /\ \A i \in (s.header + 2)..Len(s.lines), col \in DOMAIN s.lines[s.header + 1].cells :
       /\ SpeaksOfCurrency(<<s.lines[s.header + 1].cells[col]>>)
       /\ col \in DOMAIN s.lines[i].cells
       => NamesOnly(s.lines[i].cells[col], s) /\ Coded(s.lines[i].cells[col], s)

-------------------------------------------------------------------------------
(* Properties.                                                             *)

\* Lines up to the header that are no records: SkipLines counts them, the
\* record reader does not.
Unrecorded(i) == statement.lines[i].cells = <<>> \/ statement.lines[i].cont
Hidden == Cardinality({i \in 1..(statement.header + 1) : Unrecorded(i)})

HeaderSeen(config) == config.skipLines = statement.header /\ config.delim = statement.delim
ColumnsSeen(m) ==
  /\ m.isDoubleEntry = statement.double
  /\ \A col \in {"date", "desc"} \cup (IF statement.double THEN {"debit", "credit"} ELSE {"amount"}) :
       m[col] = statement.columns[col]
Understood ==
  Written(statement) /\ result.ok /\ HeaderSeen(result.config) /\ ColumnsSeen(result.mapping)

Truth(j) == statement.rows[j + Hidden]
Parsed == {j \in DOMAIN result.rows : result.rows[j].outcome = "parsed"}

\* The analysis finds the bank's header row and delimiter if it is among
\* the first 21 lines, has three columns and a keyword, and no other line
\* has a keyword and as many delimiters, or a dozen keywords (findHeaderRow:
\* a delimiter counts ten, a keyword one).
HeaderColumns(i) == detectDelimiter(statement.lines[i]).count
NoDecoy ==
  \A i \in 1..Len(statement.lines) :
    (i # statement.header + 1 /\ KeywordsIn(statement.lines[i]) # {})
      => /\ HeaderColumns(i) < HeaderColumns(statement.header + 1)
         /\ Cardinality(KeywordsIn(statement.lines[i])) < 12
PlainHeader ==
  LET line == statement.lines[statement.header + 1]
  IN  /\ statement.header <= 20 /\ KeywordsIn(line) # {}
      /\ detectDelimiter(line).delim = statement.delim /\ HeaderColumns(statement.header + 1) >= 2
HeaderFound ==
  \A u \in Users : reply[u].ok /\ PlainHeader /\ NoDecoy => HeaderSeen(reply[u].config)

\* An import that sends the analysis back works on the same header row,
\* delimiter and samples, although it takes another path through
\* DetectConfigWithOptions.
IsEcho(u) ==
  /\ reply[u].ok /\ result.ok /\ result.headerRows = 0
  /\ result.asked = protoMappingToService(Echo(reply[u]), result.asked.dateFormat)
EchoAgrees == \A u \in Users : IsEcho(u) => result.config = reply[u].config

\* Where a probed amount shows its cents and no currency sign votes, the
\* analysis and an import that sends it back both settle on the bank's
\* format, although they count the votes in two ways.
SignsSampled(config) ==
  \E i \in DOMAIN config.sampleRows :
    \E j \in DOMAIN config.sampleRows[i] : SymbolVote(config.sampleRows[i][j]) # 0
FormatsAgree ==
  \A u \in Users : IsEcho(u) /\ Understood /\ statement.cents =>
    \/ SignsSampled(result.config)
    \/ ProbedColumn(reply[u].suggestions) \notin AmountColumns(statement)
    \/ \A p \in WrittenAt(result.config.sampleRows, ProbedColumn(reply[u].suggestions)) :
         SepsIn(p[2]) = {}
    \/ /\ reply[u].dialect.isEuropeanFormat = statement.european
       /\ result.mapping.isEuropean = statement.european

\* The rows an import reads are the data lines in order, but for as many at
\* the top as lines above the header are no records (they are not even
\* counted).  It refuses only rows without a description, credits and empty
\* rows beside a lone dash in the debit cell, and whole amounts from one
\* million on that are read in the other convention.
Refusable(row) ==
  \/ row.desc = ""
  \/ statement.double /\ statement.fill = "dash" /\ row.cents >= 0
  \/ /\ ~statement.cents /\ result.mapping.isEuropean # statement.european
     /\ Magnitude(row.cents) \div 100 >= Million
RowsAligned ==
  Understood =>
    /\ Len(result.rows) = Max({0, Len(statement.rows) - Hidden})
    /\ \A j \in DOMAIN result.rows :
         IF j \in Parsed THEN result.rows[j].desc = Truth(j).desc ELSE Refusable(Truth(j))

\* Amounts are read as the bank meant them, whatever format the client
\* asked for, if they show cents; a credit is lost when the debit cell
\* beside it spells out a zero, and whole amounts depend on the format.
AmountsTrue ==
  Understood =>
    /\ statement.cents /\ result.rows # <<>> => result.mapping.isEuropean = statement.european
    /\ \A j \in Parsed : result.rows[j].cents # Truth(j).cents =>
         \/ statement.double /\ statement.fill = "zero" /\ Truth(j).cents > 0
         \/ ~statement.cents /\ result.mapping.isEuropean # statement.european

\* A date comes out wrong exactly when day and month could be swapped and
\* the layout tried first has them in the other order than the bank: the
\* rows of one statement are then read in different orders.
OrderTried ==
  LET format == result.mapping.dateFormat
  IN  IF format # NoFormat /\ format[1].sep = statement.sep THEN format[1].order ELSE "DMY"
Swappable(date) == date[2] # date[3] /\ date[2] <= 12 /\ date[3] <= 12
DatesTrue ==
  Understood => \A j \in Parsed :
    result.rows[j].date # Truth(j).date
      <=> /\ statement.order # "YMD" /\ OrderTried # statement.order
          /\ Swappable(Truth(j).date)

\* No choice of columns makes a worker index a record out of range: the
\* goroutines of parseTransactionsStream have no recover.
NoPanic == result.ok => \A j \in DOMAIN result.rows : result.rows[j] # Panic

\* Without an account the rows get the currency the statement names, unless
\* it writes R$ or a line above the header has a hyphen and another word of
\* three letters.
Stray(line) ==
  /\ \E c \in ToSet(line.cells) : Holds(c, "-")
  /\ \E c \in ToSet(line.cells), w \in ThreeLetterWords \ {statement.currency} : Holds(c, w)
CurrencyTrue ==
  Written(statement) /\ OneCurrency(statement)
  /\ result.ok /\ result.account = "none" /\ HeaderSeen(result.config) =>
    \/ result.currency = statement.currency
    \/ \E i \in DOMAIN statement.lines : \E c \in ToSet(statement.lines[i].cells) : Holds(c, "R$")
    \/ \E i \in 1..statement.header : Stray(statement.lines[i])

\* Once an analysis has offered a user's own mapping, every later one offers
\* that very row: neither another user nor the user can replace it.
LearnedMappingStays ==
  [][\A u \in Users :
       reply[u].ok /\ reply[u].mapping.ok /\ reply[u].mapping.user = u
         => reply'[u].mapping = reply[u].mapping]_vars

===============================================================================
