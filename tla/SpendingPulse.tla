----------------------------- MODULE SpendingPulse -----------------------------
(***************************************************************************)
(* GetSpendingPulse and GetDashboardBlocks: six queries, one after the     *)
(* other and in no transaction, over a table of transactions that changes  *)
(* meanwhile, and the alert a pulse may start (PaceAlerts).                *)
(*                                                                         *)
(* Time is counted in thirds of a day: the midnight that begins it, which  *)
(* is when imported transactions are posted, some hour of it, and its last *)
(* second.                                                                 *)
(***************************************************************************)
EXTENDS PaceAlerts, Sequences, FiniteSetsExt

CONSTANTS
  Txs,          \* transactions
  Moving,       \* those of them that come into the table and go, the others rest
  Posted,       \* tx -> posted_at, an instant
  Amount,       \* tx -> amount_minor
  Merchant,     \* tx -> merchant_name, or the description
  Category,     \* tx -> category
  MonthStart,   \* the days that begin the months, of which the first two are past
  AsOfs,        \* instants a client may ask about
  TopLimit,     \* 5 in the code
  NewLimit      \* 3 in the code

ASSUME TxsAssumption == IsFiniteSet(Txs) /\ Moving \subseteq Txs
ASSUME AmountAssumption == Amount \in [Txs -> Int]
ASSUME TopLimitAssumption == TopLimit \in Nat
ASSUME MonthStartAssumption ==
  /\ MonthStart \in Seq(Nat) /\ Len(MonthStart) >= 3 /\ MonthStart[1] = 0
  /\ \A m \in 2..Len(MonthStart) : MonthStart[m-1] < MonthStart[m]
ASSUME LastDayAssumption == MonthStart[2] < LastDay /\ LastDay < MonthStart[Len(MonthStart)]

VARIABLES
  ledger,       \* the rows of transactions
  pulsePc,      \* where each request is
  kind,         \* "pulse" or "dashboard"
  asOf,         \* its instant
  pulse,        \* what it has read so far
  reply,        \* what it told the client
  \* Ghosts.
  moved,        \* the rows that came or went between a request's queries
  partial       \* requests that left out what a failed query was to give

pulseVars == <<ledger, pulsePc, kind, asOf, pulse, reply, moved, partial>>
vars == <<alertVars, pulseVars>>

-------------------------------------------------------------------------------
(* The calendar.                                                           *)

DayAt(t) == t \div 3
TimeOfDay(t) == t % 3
Midnight(d) == 3 * d
LastSecond(d) == 3 * d + 2
MonthOf(d) == CHOOSE m \in 1..(Len(MonthStart) - 1) : MonthStart[m] <= d /\ d < MonthStart[m+1]
Month(t) == MonthOf(DayAt(t))
DayOfMonth(t) == DayAt(t) - MonthStart[Month(t)] + 1

\* Instants of the calendar, from the m-th month on.
Instants(m) == {t \in Nat : MonthStart[m] <= DayAt(t) /\ DayAt(t) < MonthStart[Len(MonthStart)]}
ASSUME PostedAssumption == \A x \in Txs : Posted[x] \in Instants(1)
ASSUME AsOfsAssumption == \A t \in AsOfs : t \in Instants(2)

currentMonthStart(t) == Midnight(MonthStart[Month(t)])
lastMonthStart(t) == Midnight(MonthStart[Month(t) - 1])
lastMonthLastDay(t) == MonthStart[Month(t)] - MonthStart[Month(t) - 1]

\* Mutant: the window ends with the month.
MonthsEnd(t) == Midnight(MonthStart[Month(t) + 1])

\* AddDate(0, 0, 1): the same time on the next day, not the end of this one.
currentMonthEnd(t) == t + 3

\* Mutant: no clamp; time.Date carries what is too many days into the month.
SameDayCarried(t) == LastSecond(MonthStart[Month(t) - 1] + DayOfMonth(t) - 1)

\* The same day of last month, or its last one.
lastMonthSameDay(t) ==
  LET day == IF DayOfMonth(t) > lastMonthLastDay(t) THEN lastMonthLastDay(t) ELSE DayOfMonth(t)
  IN  LastSecond(MonthStart[Month(t) - 1] + day - 1)

-------------------------------------------------------------------------------
(* The queries.                                                            *)

Expenses(rows) == {x \in rows : Amount[x] < 0}
Cents(rows) == MapThenSumSet(LAMBDA x : -Amount[x], rows)

InCurrent(rows, t) == {x \in rows : currentMonthStart(t) <= Posted[x] /\ Posted[x] < currentMonthEnd(t)}
InLast(rows, t) == {x \in rows : lastMonthStart(t) <= Posted[x] /\ Posted[x] <= lastMonthSameDay(t)}

\* Mutant: a window that ends at the call.
UpToNow(t) == {x \in ledger : currentMonthStart(t) <= Posted[x] /\ Posted[x] <= t}

CategoryWindow(t) == InCurrent(ledger, t)

\* The parts of S, at most n of them, that come first by size.
Largest(S, n, size(_)) ==
  {T \in SUBSET S : /\ Cardinality(T) = (IF Cardinality(S) < n THEN Cardinality(S) ELSE n)
                    /\ \A a \in T, b \in S \ T : size(a) >= size(b)}

\* GROUP BY category ORDER BY total LIMIT: ties fall either way.
TopCategories(t) ==
  LET rows == Expenses(CategoryWindow(t))
      group(c) == {x \in rows : Category[x] = c}
      groups == {[name |-> c, cents |-> Cents(group(c)), count |-> Cardinality(group(c))] :
                  c \in {Category[x] : x \in rows}}
  IN  Largest(groups, TopLimit, LAMBDA g : g.cents)

\* Expenses whose merchant has no transaction in all of last month.
SurpriseExpenses(t) ==
  LET known == {Merchant[x] : x \in {y \in ledger : lastMonthStart(t) <= Posted[y] /\ Posted[y] < currentMonthStart(t)}}
  IN  Largest({x \in Expenses(InCurrent(ledger, t)) : Merchant[x] \notin known}, NewLimit, LAMBDA x : -Amount[x])

-------------------------------------------------------------------------------
(* What is made of them.                                                   *)

\* The pace in percent is 0 or 100 without a baseline.
OverPace(q, percent) == q.last > 0 /\ OverBy(percent, q.current, q.last)

PaceMessage(q) ==
  CASE q.last = 0 /\ q.current = 0 -> "No spending yet"
    [] q.last = 0 /\ q.current # 0 -> "First month tracking"
    [] q.last # 0 /\ q.current > q.last -> "Spending ahead"
    [] q.last # 0 /\ q.current < q.last -> "Under budget"
    [] OTHER -> "On track"

Color(q) == IF OverPace(q, 125) THEN "red" ELSE IF OverPace(q, 110) THEN "yellow" ELSE "green"

\* The second block of the dashboard, less its numbers.
Hook(q) ==
  IF q.surprises # {} THEN "New This Month" ELSE IF q.categories # {} THEN "Top Category" ELSE "none"

-------------------------------------------------------------------------------
(* The requests.                                                           *)

NoPulse == [current |-> 0, last |-> 0, count |-> 0, categories |-> {}, surprises |-> {}]
NoReply == [notify |-> FALSE, message |-> "", color |-> "", hook |-> ""]

Init ==
  /\ AlertInit(LastDay - 1)
  /\ ledger = Txs \ Moving
  /\ pulsePc = [p \in Pulses |-> "idle"] /\ kind = [p \in Pulses |-> "pulse"]
  /\ asOf = [p \in Pulses |-> 0] /\ pulse = [p \in Pulses |-> NoPulse]
  /\ reply = [p \in Pulses |-> NoReply]
  /\ moved = [p \in Pulses |-> {}] /\ partial = {}

\* The dashboard is always as of now; a pulse may be asked for any instant.
Begin(p) ==
  /\ pulsePc[p] = "idle"
  /\ pulsePc' = [pulsePc EXCEPT ![p] = "current"]
  /\ \E k \in {"pulse", "dashboard"} : kind' = [kind EXCEPT ![p] = k]
  /\ \E t \in {Midnight(today) + 1} \cup (IF kind'[p] = "pulse" THEN AsOfs ELSE {}) :
       asOf' = [asOf EXCEPT ![p] = t]
  /\ UNCHANGED <<alertVars, ledger, pulse, reply, moved, partial>>

Read(p, here, next) == pulsePc[p] = here /\ pulsePc' = [pulsePc EXCEPT ![p] = next]

ReadCurrent(p) ==
  /\ Read(p, "current", "last")
  /\ pulse' = [pulse EXCEPT ![p].current = Cents(Expenses(InCurrent(ledger, asOf[p])))]
  /\ UNCHANGED <<alertVars, ledger, kind, asOf, reply, moved, partial>>

ReadLast(p) ==
  /\ Read(p, "last", "count")
  /\ pulse' = [pulse EXCEPT ![p].last = Cents(Expenses(InLast(ledger, asOf[p])))]
  /\ UNCHANGED <<alertVars, ledger, kind, asOf, reply, moved, partial>>

\* The two sums are needed; without them the request ends in an error.
ReadSumsFails(p) ==
  /\ pulsePc[p] \in {"current", "last"} /\ QueryFails
  /\ pulsePc' = [pulsePc EXCEPT ![p] = "failed"]
  /\ UNCHANGED <<ledger, kind, asOf, pulse, reply, moved, partial>>

ReadCount(p) ==
  /\ Read(p, "count", "categories")
  /\ pulse' = [pulse EXCEPT ![p].count = Cardinality(InCurrent(ledger, asOf[p]))]
  /\ UNCHANGED <<alertVars, ledger, kind, asOf, reply, moved, partial>>

ReadCategories(p) ==
  /\ Read(p, "categories", "surprises")
  /\ \E top \in TopCategories(asOf[p]) : pulse' = [pulse EXCEPT ![p].categories = top]
  /\ UNCHANGED <<alertVars, ledger, kind, asOf, reply, moved, partial>>

\* Count and categories are left out when their query fails.
ReadExtraFails(p) ==
  /\ \/ Read(p, "count", "categories")
     \/ Read(p, "categories", "surprises")
     \/ Read(p, "surprises", "reply")
  /\ QueryFails
  /\ partial' = partial \cup {p}
  /\ UNCHANGED <<ledger, kind, asOf, pulse, reply, moved>>

ReadSurprises(p) ==
  /\ Read(p, "surprises", "reply")
  /\ \E new \in SurpriseExpenses(asOf[p]) : pulse' = [pulse EXCEPT ![p].surprises = new]
  /\ UNCHANGED <<alertVars, ledger, kind, asOf, reply, moved, partial>>

Told(p) ==
  LET q == pulse[p]
  IN  IF kind[p] = "pulse"
      THEN [NoReply EXCEPT !.notify = ShouldNotify(q.current, q.last), !.message = PaceMessage(q)]
      ELSE [NoReply EXCEPT !.message = PaceMessage(q), !.color = Color(q), !.hook = Hook(q)]

\* The request and its locals end; only the RPC for the pulse starts the
\* alert.
Answer(p) ==
  /\ Read(p, "reply", "answered")
  /\ reply' = [reply EXCEPT ![p] = Told(p)]
  /\ IF Told(p).notify THEN Trigger(p, pulse[p].current, pulse[p].last) ELSE UNCHANGED alertVars
  /\ pulse' = [pulse EXCEPT ![p] = NoPulse]
  /\ kind' = [kind EXCEPT ![p] = "pulse"] /\ asOf' = [asOf EXCEPT ![p] = 0]
  /\ moved' = [moved EXCEPT ![p] = {}] /\ partial' = partial \ {p}
  /\ UNCHANGED ledger

\* Imports and deletions of batches, as these queries see them.
UnderWay(p) == pulsePc[p] \notin {"idle", "current", "answered", "failed", "lost"}
ChangeLedger ==
  /\ \E x \in Moving :
       /\ ledger' \in {ledger \cup {x}, ledger \ {x}} \ {ledger}
       /\ moved' = [p \in Pulses |-> IF UnderWay(p) THEN moved[p] \cup {x} ELSE moved[p]]
  /\ UNCHANGED <<alertVars, pulsePc, kind, asOf, pulse, reply, partial>>

\* The process and every request in it end.
Panic(p) ==
  /\ PanicPush(p)
  /\ pulsePc' = [q \in Pulses |-> IF pulsePc[q] \in {"idle", "answered", "failed"} THEN pulsePc[q] ELSE "lost"]
  /\ UNCHANGED <<ledger, kind, asOf, pulse, reply, moved, partial>>

PulseStep(p) ==
  \/ ReadCurrent(p) \/ ReadLast(p) \/ ReadSumsFails(p) \/ ReadCount(p) \/ ReadCategories(p)
  \/ ReadExtraFails(p) \/ ReadSurprises(p) \/ Answer(p)

Alerting(p) == AlertStep(p) /\ UNCHANGED pulseVars

Next ==
  \/ \E p \in Pulses : Begin(p) \/ PulseStep(p) \/ Alerting(p) \/ Panic(p)
  \/ \E p \in Pulses : (MarkAlertRead(p) \/ DismissAlert(p)) /\ UNCHANGED pulseVars
  \/ (UpdatePushToken \/ NextDay) /\ UNCHANGED pulseVars
  \/ ChangeLedger

Spec == Init /\ [][Next]_vars

-------------------------------------------------------------------------------
(* Properties.                                                             *)

\* The parts of an answer come from separate queries with the same window, on
\* a table that changes between them.  Unless a query failed, they differ by no
\* more than the rows that moved meanwhile: the categories add up to the sum of
\* the month, and neither they nor the new expenses show more than was counted,
\* give or take what those rows cost and how many they are.
PulseAddsUp ==
  \A p \in Pulses : pulsePc[p] = "reply" /\ p \notin partial =>
    LET q == pulse[p]
        shown == MapThenSumSet(LAMBDA g : g.cents, q.categories)
        between == InCurrent(moved[p], asOf[p])
        slack == Cents(Expenses(between))
    IN  /\ shown <= q.current + slack
        /\ Cardinality(q.categories) < TopLimit => q.current <= shown + slack
        /\ MapThenSumSet(LAMBDA g : g.count, q.categories) <= q.count + Cardinality(between)
        /\ Cents(q.surprises) <= q.current + slack

\* For every instant asked about: no row counts in both sums; the sum of last
\* month is over exactly its days up to the same day, or all of them; that of
\* this month over exactly its days up to the instant's own, and, where "end of
\* asOf day" is meant, over the next day's rows too up to the time of the
\* instant: at any hour but midnight what is posted at the next midnight counts.
WindowsTrue ==
  \A p \in Pulses : pulsePc[p] = "current" =>
    LET t == asOf[p]
        current == InCurrent(Txs, t)
        last == InLast(Txs, t)
    IN  /\ current \cap last = {}
        /\ last = {x \in Txs : Month(Posted[x]) = Month(t) - 1 /\ DayOfMonth(Posted[x]) <= DayOfMonth(t)}
        /\ current = {x \in Txs :
             \/ Month(Posted[x]) = Month(t) /\ DayAt(Posted[x]) <= DayAt(t)
             \/ DayAt(Posted[x]) = DayAt(t) + 1 /\ TimeOfDay(Posted[x]) < TimeOfDay(t)}

\* A caller that was told of a notification gets one: when the trigger of
\* its pulse has ended, the day it ran on has an alert, unless one of the
\* trigger's own queries failed or the server went down under it.
NotifiedIsAlerted ==
  \A p \in Pulses : reply[p].notify =>
    /\ reply[p].message = "Spending ahead"
    /\ \/ Interrupted(p)
       \/ alertPc[p] = "done" /\ (p \in excused \/ AlertOf(dated[p]) # {})
       \/ alertPc[p] = "lost"

===============================================================================
