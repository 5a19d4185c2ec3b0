-------------------------------- MODULE Ledger --------------------------------
(***************************************************************************)
(* A client walks through the pages of ListTransactions while imports,     *)
(* rules and batch deletions change the table below it (Categorization).   *)
(* One page is two queries, the count and the page, and the token of the   *)
(* next page is an offset.                                                 *)
(***************************************************************************)
EXTENDS Categorization, Integers, SequencesExt

CONSTANTS
  DayOf,       \* row -> posted_at
  PageSizes,   \* what a client may send as page_size
  Filters,     \* the filters it may send: a category and an import batch, each
               \* perhaps Anything, and the first and last day
  MaxLimit,    \* 100 in the code
  DefaultLimit \* 50 in the code

ASSUME RowsAssumption == IsFiniteSet(Rows)
ASSUME DaysAssumption == DayOf \in [Rows -> Int]
ASSUME PageSizesAssumption == PageSizes \subseteq Int
ASSUME LimitsAssumption == MaxLimit \in Nat \ {0} /\ DefaultLimit \in 1..MaxLimit

VARIABLES
  phase,      \* of the walk: "off", "asking", "counted", "ended"
  size, filter,
  offset,     \* what the page token says
  total,      \* the COUNT of the page under way
  seen,       \* the rows the client has got, in order
  \* Ghosts.
  before,     \* the rows of the view when the walk began
  changed     \* what happened to the view since: "grew", "shrank", and "inside"
              \* for a change between a count and its page

walkVars == <<phase, size, filter, offset, total, seen, before, changed>>
vars == <<bookVars, walkVars>>

Anything == "any"

\* The WHERE clause: one conjunct for each filter that was sent.
View(rows, categories, jobs) ==
  {r \in rows : /\ filter.category \in {Anything, categories[r]}
                /\ filter.job \in {Anything, jobs[r]}
                /\ filter.from <= DayOf[r] /\ DayOf[r] <= filter.to}
view == View(stored, category, jobOf)

\* ORDER BY posted_at DESC and nothing else: rows of one day come in any
\* order, another one for each query.
Listings(rows) ==
  {s \in SetToSeqs(rows) : \A j, k \in DOMAIN s : j < k => DayOf[s[j]] >= DayOf[s[k]]}

\* The handler hands page_size on; the repository replaces what it does not
\* allow by its default.
Limit == IF size <= 0 \/ size > MaxLimit THEN DefaultLimit ELSE size

\* The token adds what the client asked for, not what the repository used.
NextOffset == offset + size

\* Mutant: off by one.
StopsEarly == NextOffset + 1 < total

HasNext == NextOffset < total

\* Mutant: the token is taken as it is.
AnyOffset(token) == token

\* A token that is no positive number counts as the first page.
OffsetOf(token) == IF token > 0 THEN token ELSE 0

\* OFFSET and LIMIT of the listing.
Slice(listing, from, rows) ==
  SubSeq(listing, from + 1, IF from + rows < Len(listing) THEN from + rows ELSE Len(listing))

\* Mutant: one row more, to see whether there is a next page.
OneMore(listing, from) == Slice(listing, IF from < 0 THEN 0 ELSE from, Limit + 1)

Page(listing, from) == Slice(listing, IF from < 0 THEN 0 ELSE from, Limit)

-------------------------------------------------------------------------------

Init ==
  /\ BookInit
  /\ phase = "off" /\ size \in PageSizes /\ filter \in Filters
  /\ offset = 0 /\ total = 0 /\ seen = <<>> /\ before = {} /\ changed = {}

StartWalk ==
  /\ phase = "off"
  /\ phase' = "asking"
  /\ before' = view
  /\ UNCHANGED <<bookVars, size, filter, offset, total, seen, changed>>

CountRows ==
  /\ phase = "asking"
  /\ phase' = "counted"
  /\ total' = Cardinality(view)
  /\ UNCHANGED <<bookVars, size, filter, offset, seen, before, changed>>

\* The bound of the model: a client that is sent back to the first page
\* again and again is watched until it has had as many rows as there are.
MaxSeen == Cardinality(Rows)

GetPage ==
  /\ phase = "counted" /\ Len(seen) <= MaxSeen
  /\ \E listing \in Listings(view) : seen' = seen \o Page(listing, offset)
  /\ IF HasNext THEN phase' = "asking" /\ offset' = OffsetOf(NextOffset)
     ELSE phase' = "ended" /\ UNCHANGED offset
  /\ UNCHANGED <<bookVars, size, filter, total, before, changed>>

\* A step of the table, as the walk sees it.
Disturb ==
  LET now == View(stored', category', jobOf')
      what == (IF view \subseteq now THEN {} ELSE {"shrank"}) \cup (IF now \subseteq view THEN {} ELSE {"grew"})
  IN  changed' = IF phase \in {"off", "ended"} \/ what = {} THEN changed
                 ELSE changed \cup what \cup (IF phase = "counted" THEN {"inside"} ELSE {})

BookStep ==
  /\ BookNext
  /\ Disturb
  /\ UNCHANGED <<phase, size, filter, offset, total, seen, before>>

Walk == StartWalk \/ CountRows \/ GetPage
Next == BookStep \/ Walk

Spec == Init /\ [][Next]_vars

-------------------------------------------------------------------------------
(* Properties.                                                             *)

\* The sizes the token is right for, and a view whose order is determined.
Allowed == size \in 1..MaxLimit
Ordered == \A r, s \in before \cup view \cup Known(seen) : DayOf[r] = DayOf[s] => r = s

\* A walk with an allowed page size over days that differ misses no row that
\* was in the view from its beginning, unless rows left the view meanwhile
\* or it changed between the two queries of a page: growth alone costs
\* nothing.
NothingMissed ==
  phase = "ended" /\ Allowed /\ Ordered /\ changed \cap {"shrank", "inside"} = {} =>
    before \subseteq Known(seen)

\* Such a walk repeats a row only if rows came into the view meanwhile.
NothingTwice ==
  Allowed /\ Ordered /\ changed \cap {"grew", "inside"} = {} =>
    \A j, k \in DOMAIN seen : seen[j] = seen[k] => j = k

\* A page size the repository replaces breaks the walk although the table
\* rests: above the maximum it ends and has left out rows, unless the first
\* page held them all; at zero or below it never gets past the first page.
OddSizes ==
  /\ size <= 0 => offset = 0 /\ (phase = "ended" => total = 0)
  /\ size > MaxLimit /\ phase = "ended" /\ changed = {} /\ Cardinality(before) > DefaultLimit =>
       ~(before \subseteq Known(seen))

===============================================================================
