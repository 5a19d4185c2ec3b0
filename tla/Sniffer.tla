-------------------------------- MODULE Sniffer --------------------------------
(***************************************************************************)
(* What package sniffer concludes from the text of a CSV file: the header  *)
(* row and the delimiter, the columns, the regional dialect, the           *)
(* fingerprint of the bank.                                                *)
(*                                                                         *)
(* A file is a sequence of raw lines.  A line is the record [delim, cells, *)
(* cont]: the cells it holds between delimiters delim, and whether it      *)
(* continues a quoted field opened on the line above (such a line is no    *)
(* record of its own).  A blank line has no cells.  A cell is what         *)
(* Normalizer makes of it.                                                 *)
(***************************************************************************)
EXTENDS Normalizer

CONSTANT WordsInside   \* the pairs <<text, word>> of a text and a word inside it

ASSUME WordsInsideAssumption == \A p \in WordsInside : p \in STRING \X STRING

Line(delim, cells) == [delim |-> delim, cells |-> cells, cont |-> FALSE]
BlankLine == Line(";", <<>>)

Delimiters == <<";", "\t", ",", "|">>
None == -1           \* no such column, no such row

-------------------------------------------------------------------------------
(* Words.  The keywords that make a line look like a header; one written   *)
(* with accents and the same without stand as one, since a text holds one  *)
(* of them only.  A text holds the words it is or contains.                *)

headerKeywords ==
  { "data mov", "data mov.", "descricao", "debito", "credito", "data valor", "saldo", "categoria",
    "date", "description", "amount", "debit", "credit", "balance", "category", "merchant",
    "fecha", "descripcion", "importe", "cargo", "abono" }

Holds(c, word) == c.word = word \/ <<c.word, word>> \in WordsInside
KeywordsOf(c) == {word \in headerKeywords : Holds(c, word)}
KeywordsIn(line) == UNION {KeywordsOf(line.cells[i]) : i \in DOMAIN line.cells}

-------------------------------------------------------------------------------
(* Raw lines.                                                              *)

\* strings.Count(line, d): the delimiters between cells and the separators
\* inside numbers (a quoted "1,234.56" holds a comma).
CountIn(line, d) ==
  LET inside(c) == Cardinality({i \in DOMAIN c.seps : c.seps[i] = d})
  IN  FoldLeft(LAMBDA acc, c : acc + inside(c),
               IF line.delim = d /\ line.cells # <<>> THEN Len(line.cells) - 1 ELSE 0,
               line.cells)

\* The delimiter that occurs most, the first of the list on a tie.
detectDelimiter(line) ==
  FoldLeft(LAMBDA best, d : IF CountIn(line, d) > best.count
                            THEN [delim |-> d, count |-> CountIn(line, d)] ELSE best,
           [delim |-> "", count |-> 0], Delimiters)

NoRow == [row |-> None, delim |-> "", count |-> 0]
Found(i, best) == [row |-> i - 1, delim |-> best.delim, count |-> best.count]

\* Mutant: the first keyword line is kept.
FirstKeywordLine(best, count, matches) == best.row = None

\* A keyword line beats the best one so far by its score; the score of the
\* best one is only approximated (one keyword).
BeatsKeyword(best, count, matches) ==
  \/ best.row = None
  \/ count * 10 + matches > best.count * 10 + 1

\* The loop over the first 21 lines (rows count from 0): the best keyword
\* line and the best other line.
Better(best, here, matches) ==
  IF here.count < 1 THEN best
  ELSE IF matches > 0
       THEN IF BeatsKeyword(best.keyword, here.count, matches)
            THEN [best EXCEPT !.keyword = here] ELSE best
       ELSE IF here.count > best.fallback.count
            THEN [best EXCEPT !.fallback = here] ELSE best
Candidates(lines) ==
  FoldLeft(LAMBDA best, i : Better(best, Found(i, detectDelimiter(lines[i])),
                                   Cardinality(KeywordsIn(lines[i]))),
           [keyword |-> NoRow, fallback |-> NoRow],
           [i \in 1..(IF Len(lines) > 21 THEN 21 ELSE Len(lines)) |-> i])

\* At least three columns, keyword lines preferred; NoRow is ErrNoHeadersFound.
Preferred(best) ==
  IF best.keyword.count >= 2 THEN best.keyword
  ELSE IF best.fallback.count >= 2 THEN best.fallback ELSE NoRow
findHeaderRow(lines) == Preferred(Candidates(lines))

-------------------------------------------------------------------------------
(* Records, as encoding/csv reads them: blank lines are skipped and a      *)
(* quoted field may run over lines.                                        *)

\* A line cut at another delimiter than its own is cut inside its numbers,
\* into pieces nothing recognises.
Opaque == Word("?")
Split(line, d) ==
  IF line.delim = d \/ (Len(line.cells) = 1 /\ CountIn(line, d) = 0)
  THEN line.cells
  ELSE [i \in 1..(CountIn(line, d) + 1) |-> Opaque]

\* The lines that start a record, the k-th of them, and what is read there.
Recorded(lines) == {i \in DOMAIN lines : lines[i].cells # <<>> /\ ~lines[i].cont}
Nth(at, k) == CHOOSE i \in at : Cardinality({j \in at : j <= i}) = k
Records(lines, d) ==
  LET at == Recorded(lines)
  IN  [k \in 1..Cardinality(at) |-> Split(lines[Nth(at, k)], d)]

\* generateFingerprint: the header texts, blank ones dropped, hashed.
generateFingerprint(headers) ==
  LET written(h) == h.word # "" IN SelectSeq(headers, written)

\* Up to five records after the header: startLine counts records here,
\* where findHeaderRow counted lines.
SampleLimit == 5
getSampleRows(lines, d, startLine) ==
  LET rows == Records(lines, d)
      last == startLine + SampleLimit
  IN  SubSeq(rows, startLine + 1, IF Len(rows) < last THEN Len(rows) ELSE last)

NoConfig == [ok |-> FALSE]

\* DetectConfigWithOptions.  A row given by the caller is taken as it is,
\* with the caller's delimiter if any; without a row the caller's delimiter
\* is not looked at.
GivenRow(lines, headerRow, delimiter) ==
  IF headerRow >= Len(lines) THEN NoRow
  ELSE [row |-> headerRow, count |-> 0,
        delim |-> IF delimiter # "" THEN delimiter
                  ELSE detectDelimiter(lines[headerRow + 1]).delim]

ConfigWith(lines, found, headers) ==
  IF headers = <<>> THEN NoConfig      \* io.EOF from an empty header line
  ELSE [ok |-> TRUE, delim |-> found.delim, skipLines |-> found.row, headers |-> headers,
        fingerprint |-> generateFingerprint(headers),
        sampleRows |-> getSampleRows(lines, found.delim, found.row + 1)]

\* ErrNoHeadersFound, ErrInvalidDelimiter, or what the header line says.
ConfigAt(lines, found) ==
  IF found.row = None \/ found.delim = "" THEN NoConfig
  ELSE ConfigWith(lines, found, Split(lines[found.row + 1], found.delim))

DetectConfig(lines, headerRow, delimiter) ==
  ConfigAt(lines, IF headerRow >= 0 THEN GivenRow(lines, headerRow, delimiter)
                  ELSE findHeaderRow(lines))

-------------------------------------------------------------------------------
(* Columns (counted from 0) and dialect.                                   *)

\* The first header that holds one of the parts or is one of the texts.
FirstOf(headers, parts, texts) ==
  LET named(h) == h.word \in texts \/ \E word \in parts : Holds(h, word)
      at == {i \in DOMAIN headers : named(headers[i])}
  IN  IF at = {} THEN None ELSE Min(at) - 1

Suggested(headers, debit, credit) ==
  [date |-> FirstOf(headers, {"data mov", "date", "fecha"}, {"data"}),
   desc |-> FirstOf(headers, {"descri", "merchant"}, {"nome", "name"}),
   amount |-> FirstOf(headers, {}, {"amount", "valor", "importe", "montante"}),
   category |-> FirstOf(headers, {"categ", "tipo", "type"}, {}),
   debit |-> debit, credit |-> credit,
   isDoubleEntry |-> debit # None /\ credit # None]
SuggestColumns(headers) ==
  Suggested(headers, FirstOf(headers, {"debito", "debit", "cargo"}, {}),
            FirstOf(headers, {"credito", "credit", "abono"}, {}))

SepsIn(c) == ToSet(c.seps) \cap {",", "."}

\* > 0 European, < 0 American: with both separators the last one is the
\* decimal one, a single one counts with at most two digits behind it.
analyzeAmountFormat(c) ==
  LET last == Max({i \in DOMAIN c.seps : c.seps[i] \in SepsIn(c)})
      vote == IF c.seps[last] = "," THEN 1 ELSE -1
  IN  IF SepsIn(c) = {} THEN 0
      ELSE IF Cardinality(SepsIn(c)) = 2 \/ Width(SubSeq(c.nums, last + 1, Len(c.nums))) <= 2
           THEN vote ELSE 0

\* "definitely DD-first": the first number is a day and no month.
analyzeDateFormat(c) ==
  /\ Len(c.nums) >= 2 /\ c.word = ""
  /\ c.nums[1].n \in 13..31

\* What the currency signs of one cell vote for.
SymbolVote(c) ==
  IF \E sign \in {"EUR sign", "EUR", "R$", "BRL"} : Holds(c, sign) THEN 1
  ELSE IF Holds(c, "$") THEN -1 ELSE 0

\* Probed rows may be shorter than the columns asked for.
CellsAt(rows, col) ==
  {<<i, rows[i][col + 1]>> : i \in {j \in DOMAIN rows : col >= 0 /\ col < Len(rows[j])}}
WrittenAt(rows, col) == {p \in CellsAt(rows, col) : ~IsBlank(p[2])}

\* Each sample row votes with its amount and with every currency sign; a
\* tie is American, and so are dates unless all samples are day first, or
\* some are and the amounts are European.
ProbeDialect(rows, amountIdx, dateIdx) ==
  LET allCells == UNION {{<<i, j>> : j \in DOMAIN rows[i]} : i \in DOMAIN rows}
      votes(v) == Cardinality({p \in WrittenAt(rows, amountIdx) : analyzeAmountFormat(p[2]) = v})
                  + Cardinality({p \in allCells : SymbolVote(rows[p[1]][p[2]]) = v})
      dates == {analyzeDateFormat(p[2]) : p \in WrittenAt(rows, dateIdx)}
      european == votes(1) > votes(-1)
      dayFirst == \/ dates = {TRUE}
                  \/ dates \in {{}, BOOLEAN} /\ european
  IN  [isEuropeanFormat |-> european,
       dateFormat |-> Layout(IF dayFirst THEN "DMY" ELSE "MDY", "/", TRUE, 0)]

===============================================================================
