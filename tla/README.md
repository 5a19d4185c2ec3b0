# Verification of the Echo finance tracker backend

This directory holds TLA+ specifications of the Go backend in `src/`, the TLC
configurations that model-check them on small instances, and theorems checked
by TLAPS. Paths below are relative to the repository root.

## 1. Inventory

| part | state it keeps | operations | interacts with |
|---|---|---|---|
| **Import service** `src/internal/domain/import/service` | per call: context, two channels, batch, counters | AnalyzeFile, SaveMapping, ImportWithOptions | repository, sniffer, normalizer, categorization |
| **Import repository** `.../import/repository` | tables `user_files`, `import_jobs`, `transactions`, `bank_mappings` | create and finish jobs, bulk insert, list, delete batch | PostgreSQL |
| **Finance handler** `.../finance/handler` | none | ImportTransactionsCsv, ListTransactions, DeleteImportBatch, CreateCategoryRule, ListCategoryRules | import service, repository, categorization |
| **Sniffer, normalizer** `.../import/sniffer`, `.../import/normalizer` | none (pure) | dialect, header row, columns; amounts and dates | import service |
| **Auth service and repository** `.../auth` | tables `users`, `user_sessions`, `user_tokens`, `user_oauth_identities` | register, login, refresh, logout, change and reset password, verify e-mail, OAuth and phone login | PostgreSQL, e-mail |
| **Interceptors, router** `src/pkg/interceptors`, `src/cmd/api` | request context | authentication, rate limit, recovery, logging | every handler |
| **User repository** `.../user` | tables `users`, legacy `sessions`, `refresh_tokens` | profile, deactivate, reactivate | PostgreSQL |
| **Categorization** `.../categorization` | process-wide caches of rules and merchants | Categorize, CategorizeBatch, CreateRule | import service, finance handler |
| **Insights** `.../insights` | table `alerts` | spending pulse, dashboard, pace alert, mark alerts | push service |
| **Push** `src/pkg/push` | none | Send, SendBatch | Expo |
| **Balance** `.../balance` | none | read-only aggregates | PostgreSQL |
| **Database, server, config, observability** | pool, listener | start, migrate, shut down | everything |

Requests run concurrently, each in a goroutine of net/http, with a context
that is cancelled when the client goes away. No operation uses a database
transaction across statements except the user repository; so every pair of
statements of one request may have statements of other requests between them,
and a failure between two statements leaves the first one applied. One import
call is itself concurrent: a producer, GOMAXPROCS workers, a closer and the
caller, joined by two bounded channels and a context.

What must hold, part by part:

* *import*: no row lost, none handled twice; the job row never overstates and
  a success is complete; the call returns and leaks no goroutine; importing a
  file again stores nothing twice;
* *auth*: one account per e-mail; revoked sessions stay revoked; a password
  change ends the sessions that existed before it; one-time tokens work once;
* *categorization*: a rule is used once it is created; one rule per pattern;
* *insights*: at most one pace alert and one push per user and day;
* *listing*: a walk through the pages shows every transaction once;
* *analysis*: the header row, the columns, the formats and the currency are
  found as the bank meant them; the first data row is the row after the header.

## 2. Modules

| module | what it is |
|---|---|
| `ImportJob` | abstract specification: what a row of `import_jobs` promises its readers |
| `ImportPipeline` | one import call, all its goroutines and SQL statements; implements `ImportJob` |
| `ImportPipelineProofs` | theorems about `ImportPipeline`, among them that it implements `ImportJob` |
| `Normalizer` | how one CSV cell is read as an amount, a debit/credit pair or a date (operators) |
| `Sniffer` | how delimiter, header row, columns and dialect are found (operators, extends `Normalizer`) |
| `ImportAnalysis` | one statement from its analysis to the rows of its import, and the table `bank_mappings` |
| `ImportAnalysisProofs` | theorems about `ImportAnalysis` |
| `Categorization` | rules, their cache, batches that are given rules and `CreateRule` |
| `CategorizationProofs` | theorems about `Categorization` |
| `Ledger` | a client walking through the pages of the listing while `Categorization` runs; implements it |
| `LedgerProofs` | that refinement, what it carries over, and what a walk misses or repeats |
| `PaceAlerts` | the goroutines that raise the alert of the day and push it |
| `PaceAlertsProofs` | theorems about `PaceAlerts` |
| `SpendingPulse` | the two insight requests query by query, composed with `PaceAlerts`; implements it |
| `SpendingPulseProofs` | that refinement, what it carries over, and the parts of an answer |
| `AuthSessions` | requests of the auth service on accounts that exist |
| `AuthSessionsProofs` | theorems about `AuthSessions` |
| `Accounts` | registration, OAuth and phone login: how accounts come to exist |
| `AccountsProofs` | theorems about `Accounts` |
| `MC...` | instances for TLC |

Conventions. Every SQL statement is a step of its own, because the code uses no
transactions there: other requests run between any two of them. `Exec(kind,
applied, ok)` says how a statement can end: applied and answered, not applied
with an error, or applied with its answer lost. A constant (`Disturbances`,
`Failing`, `Offered`) names what the environment does in an instance. A crash
of the process is a behaviour, or a request, that stops: safety is checked in
every prefix, and no specification but `FairSpec` assumes that anything
continues. Variables marked *history* record what happened for the sake of the
properties; no guard reads them. Operators whose comment says "Mutant" are
variants with a plausible bug, used to see that each property can fail.

### ImportPipeline

| model | code |
|---|---|
| `pc`, `inLoop`, `batch`, `rowsImported`, `rowsFailed`, `insertErr` | locals of `ImportWithOptions`, `service.go:264-371` |
| `producer`, `sent`; `ProducerRead/Send/Abort` | the goroutine at `service.go:428-455` |
| `hand`, `exited`, `taken`; `WorkerTake/Send/Abort/Exit` | the workers at `service.go:410-426` |
| `CloseResults` | the closer, `service.go:457-460` |
| `results`, `resultsClosed`; `sent - taken` | the channels `results` and `jobs`; `jobs` has one sender, so it holds records `taken+1..sent` |
| `CreateUserFile`, `CreateImportJob`, `UpdateProgress`, `FinishImport` | the statements on `user_files` and `import_jobs` |
| `InsertStatement`, `ApplyInsert` | `BulkInsertTransactions`, one INSERT of a batch per step, with ON CONFLICT DO NOTHING on the external id |
| `ctxDone`, `cancelled` | the request context and its child `parseCtx` |
| `Answer` | `ImportTransactionsCsv`, `finance_handler.go:74-101` |
| `CancelRequest`, `OtherImport`, `DeleteBatch` | the client, another import of the user, `DeleteImportBatch` |

A record of the file is reduced to the external id its fields hash to, or
`BadRow`: the properties tell records apart by nothing else. The branches for a
read error of the CSV reader (`service.go:396-398`, `439-445`) are left out:
with `LazyQuotes`, `FieldsPerRecord = -1` and a delimiter that the sniffer has
already read the header with, `Read` on a byte slice in memory returns a record
or `io.EOF`. `enrichBatch` changes no field this module keeps; what it does to a
row is in `Categorization`.

### Normalizer, Sniffer, ImportAnalysis

A cell is a record of a word, a sign, the digit runs of its text with their
widths, and the separators between them: as much as `ParseAmount`,
`ParseFlexibleDate` and the detectors look at. A line is a sequence of cells
with the delimiter it was written with; cut by another delimiter it falls into
pieces that mean nothing. A record is the k-th line that starts one (`Nth`):
blank lines and the continuations of quoted cells are none. A word is abstract,
and a table in `Sniffer` says which keywords, currency signs and codes it
contains. `DetectConfig` is `DetectConfigWithOptions` with both ways through it
(the header row given, or searched for); `findHeaderRow`, `SuggestColumns` and
`ProbeDialect` keep the names of the code. Of `convertDateFormat`, which ranges
over a map, either order may happen.

`ImportAnalysis` has the requests as actions. `AnalyzeCsvFile` answers what the
client may send back (`Echo`); `SaveMapping` inserts into `bank_mappings`;
`ImportTransactionsCsv` makes of a request and the statement what
`ImportWithOptions` has made of them before its goroutines start
(`resolveMapping`, `applyFormatDefaults`, `resolveCurrencyCode`), and with
`parseRow` the rows they take from it. The same client may send no mapping, the
echo, or columns of its own, below zero and beyond the header included. A
statement also carries what its bank meant (`rows`, `header`, `columns`,
`order`, `european`, ...): only the properties read that. `Written` says how the
lines follow from it: which texts stand for an amount (its thousands set apart
or not, leading zeros allowed), a date, an unused debit or credit cell; what
other columns and the lines above the header hold is left open. `OneCurrency`
says that no sign or word where the code looks names another currency. The run
assumes that its statements are so written (`AsBanksWrite` in
`MCImportAnalysis`), and the properties about reading speak of such statements.

### Categorization, Ledger

| model | code |
|---|---|
| `rules`, `stored`, `jobOf`, `category` | tables `category_rules` and `transactions` of one user |
| `cached`, `cache` | `ruleCache[userID]` |
| `CacheHit`, `CacheMiss`, `ReadRules`, `FillCache` | `GetUserRules`: the look under `RLock`, the query, the fill under `Lock` |
| `InsertBatch` | `CategorizeBatch` and `BulkInsertTransactions` |
| `FindRule`, `InsertRule`, `CreateRuleFails`, `InvalidateCache`, `Backfill` | `CreateRule`, statement by statement; a look-up or INSERT that fails, or an INSERT whose answer is lost |
| `CountRows`, `GetPage` | the two queries of `ListTransactions`, the page token of the handler |

A rule is named after the request that inserts it. Containment, by which
`matchPattern` decides, and ILIKE, by which the backfill does, are two
relations between rules and rows that the instance chooses. `misled`, `unread`
and `exposed` are history: how a batch can come to miss a rule. `Ledger` adds one
client whose page size, filter and tokens are those of the handler; rows of one
day have no order in the code, and none here.

### PaceAlerts, SpendingPulse

`alertPc` follows one `TriggerPaceAlert` and the goroutine of its push;
`raised` is the table `alerts` with its unique index on user, type and day.
`rivals` and `excused` are history. `PaceAlerts` alone lets any call begin at
any time. In `SpendingPulse` a call begins when a `GetSpendingPulse` answers
`notify`, after `ReadCurrent`, `ReadLast`, `ReadCount`, `ReadCategories`,
`ReadSurprises`: one action per query, with the table changing in between.
Time is counted in thirds of a day, because the code compares midnights, the
instant of the request and the last second of a day. The pace, a float in the
code, is the fraction it stands for. A panic in a push goroutine ends the
process: every call and request under way becomes `lost`.

### AuthSessions

`password`, `active` and `verified` are columns of `users`; `issued` and `live`
are the rows of `user_sessions` and `user_tokens`, ever inserted and still
valid; `req` holds the requests in flight. A request is admitted by a read
(`BeginLogin`, `BeginRefresh`, ...), which decides what it acts on, and then
takes the statements of its `Plan` one by one, in the order of
`auth_service.go`. A password is the number of changes before it, and a session
carries the password its chain of logins and refreshes goes back to (`basis`).
`during` collects what happened to a request's account or token since it was
admitted: exactly the interference the code cannot see. Deactivation and
reactivation come from `user_repository.go:469-618`; expiry is an action that
may take any live token.

### Accounts

`users` is the table in order of insertion, `linked` the user of each row of
`user_oauth_identities`, `req` what each request is doing or what it answered.
Each request looks for an identity, an e-mail or a phone number, inserts, links,
opens a session, issues a verification token. `Free` is the pair of UNIQUE
constraints of `0002_create_users.up.sql:5-6`; `Link` is the upsert that keeps
`user_id`. The session row itself belongs to `AuthSessions`. A request may occur
once: the set `Requests` is the bound.

## 3. Runs

| run | instance | states | shows |
|---|---|---|---|
| `import_safety` | files of 0 to 5 records with repeated ids and bad rows, 2 workers, channels of 2, batches of 3 in statements of 2; any statement failing, cancellation, another import, deletion of the batch | 970 k | nothing lost or handled twice, no send on a closed channel, counters and answer truthful, a succeeded job complete; `ImportPipeline` implements `ImportJob` |
| `import_liveness` | batches of 1, channels of 1, files up to 6 records, another import storing the same ids, under `FairSpec` | 255 k | the call returns and every goroutine ends; a job stays running only when the request's context died; nobody deletes here, so a succeeded job has every parsed row in the table |
| `import_duplicates` | files up to 3 records | violated | see section 6 |
| `analysis` | statements in both decimal conventions, three date orders, two delimiters, with lines, blanks and quoted breaks above the header, single and double amounts, amounts of millions, dates with dots, a file cut off within its last line; 1 user, a global mapping and another user's | 114 k | header, columns, rows, amounts, dates and currency come out as the bank meant them, but for the cases the properties name |
| `rules` | 2 batches, 3 rules of which 2 share a pattern, 1 query that fails or whose answer is lost, 1 deletion | 1.8 M | one rule per pattern, when the cache is behind the table, that a rule reaches its rows |
| `walk` | 4 rows, 2 of one day, in 2 overlapping batches, 1 rule, page sizes -1 to 3 with a maximum of 2 and a default of 1, 3 filters | 2.5 M | what a walk through the pages can miss or repeat |
| `insights` | 2 requests, months of 4, 2 and 4 days, the clock on a day last month lacks, 7 transactions of which one comes and goes, 1 failing query | 530 k | one alert a day, second pushes only by a race, sums that agree, windows of the right days |
| `auth_sessions` | 1 user, 3 requests in flight, 3 tokens, 1 password change, deactivation, every statement of these requests failing | 1.2 M | what survives a password change, rotation of refresh tokens, sessions of inactive accounts |
| `auth_tokens` | 1 user, 2 requests in flight, 3 tokens, 2 resets, refreshes, expiry, the DELETEs of tokens failing | 840 k | refresh, reset and verification tokens work once, for their purpose and account |
| `auth_deactivate` | 1 user | violated | see section 6 |
| `accounts_safety` | 3 requests, 2 e-mails, 2 names, 1 identity, every statement failing | 900 k | one registration wins, answers are for the caller's account, identities stay |
| `accounts_names` | 2 requests | violated | see section 6 |

Why these bounds are enough to be interesting. The import instances are chosen
so that channels fill up, a batch is split over two INSERTs, a duplicate falls
inside one statement, across statements and across batches, and the last batch
is partial; `LongFiles` is long enough that an insert fails while both channels
are full, both workers hold a record and so does the producer, the state the
drain loop exists for. In the auth instances three tokens allow a login, its
refresh and a second refresh or login; three requests allow a change to overlap
two others. Two resets may overlap each other. In `Accounts` three requests
allow two to race while a third comes before, between or after, and an
identity's e-mail to change between logins.

In `analysis` a behaviour holds one import, its last step (`BeforeImport`):
imports do not influence each other before they reach the table. Every
statement is an initial state, so the statements are what bounds the run; years
are 1969 to 2068, which is what two digits can say. In `rules` three creators
allow two to race for a pattern while a third, with another, has dropped the
cache; two batches, one to fill the cache with an old list and one to be given
it. In `walk` four rows on pages of one or two give walks of up to four pages,
and the maximum and default of the limit are small enough that sizes lie below,
between and above them; a client sent back to the first page for ever is
watched until it has seen as many rows as there are (`MaxSeen`). In `insights`
two requests are a race; the third month has days that the second lacks, and
the amounts put the pace on both sides of each threshold.

Symmetry is used for workers, requests, users, e-mails and pulses in runs of
invariants and action properties only; no definition of the specifications
distinguishes the members of these sets, and the runs with a temporal property
use none.

Deadlock is checked in the runs of the pipeline, of `AuthSessions` and of
`Accounts`: the only states without a step of the system are those named by
`Terminated`, `AtRest`, which allow stuttering there. In the other four runs
the requests of an instance are finitely many, each is made once, and then the
system rests: these configurations say `CHECK_DEADLOCK FALSE`.

Fairness. Only `import_liveness` assumes any: weak fairness of the caller, the
producer, each worker and the closer, because the Go scheduler runs every
goroutine that can run and statements on the pool return. Nothing is assumed
about clients or other requests. The goroutines of the alert would deserve the
same; there everything a fair run would add, that a call ends, follows from its
having no loop, and is stated of ended calls instead (`NotifiedIsAlerted`).
Where a `select` has both a ready channel and a done context, either case may be
taken.

## 4. Properties that carry exceptions

Some properties name the cases in which the code does less than one would like;
the exceptions are as narrow as the model allows, so that each states exactly
what may go wrong:

* `SessionsProvePassword`: a session opened with an older password survives a
  change only while the change is still running, or if the request that opened
  it overlapped the change, or if a statement of the change failed
  (`DeleteAllUserSessions` errors are dropped).
* `RefreshRotates`, `SpentOnce`: a token is used twice only by requests that
  held it at the same time, or after its DELETE failed unnoticed.
* `NoSessionWhileInactive`: only a request already past the check.
* `AnswersOwnAccount`: an OAuth login may be served another account than its
  identity is linked to only if another login linked that identity meanwhile.
* `SucceededRowsStored` holds as long as no batch is deleted.
* `CountersNeverOverstate`, `JobContract` count what an import stored (`fate`), not
  what a deletion of its batch left in the table: no code corrects a job row
  after one, and nothing is promised about rows inserted behind the deletion.
* `HeaderFound`: only for a header among the first 21 lines with three columns
  and a keyword, and not if another line with a keyword has as many delimiters,
  or a dozen keywords: `findHeaderRow` scores ten for a delimiter and one for a
  keyword. No statement of the run has a dozen; the proof found that case.
* `RowsAligned`, `AmountsTrue`, `DatesTrue`, `FormatsAgree` speak of a statement
  that is `Written` and of an import that works on the header row, the delimiter
  and the columns the bank meant (`Understood`); `CurrencyTrue` of one that is
  `Written`, names `OneCurrency` and whose header row is seen.
* `RowsAligned`: as many rows are lost at the top as lines up to the header are
  blank or continue a quoted cell, and they are in no counter. Refused are rows
  without a description, credits and empty rows beside a lone dash in the debit
  cell, and whole amounts from one million on in the other convention, where the
  two separators count as two decimal points (a case the proof found).
* `AmountsTrue`: a zero spelled out in the debit cell hides the credit beside
  it; a file of whole amounts is read by its delimiter.
* `FormatsAgree`: analysis and import settle on one decimal convention only where
  an amount that was probed shows its cents and no currency sign votes. That they
  work on the same header row, delimiter and samples (`EchoAgrees`) has no
  exception.
* `DatesTrue`: a date is misread exactly if day and month can be swapped and
  the layout tried first has them the other way round than the bank, so that
  one file can be read in two orders.
* `CurrencyTrue`: `R$` is read as dollars, and a word of three letters on a line
  with a hyphen above the header may be taken for the currency.
* `CacheTrails`: a list read before a rule was inserted and put into the cache
  after the rule dropped it stays there until the next rule (`overtaken`). Any
  other cache is the table less its newest rules, whose `CreateRule` is about to
  drop it or got no answer to its INSERT (`unheard`): `CreateRule` then returns
  before it drops the cache (`service.go:138-145`), and asked again it finds the
  rule and returns as well.
* `RuleReaches`: a rule whose `CreateRule` went through may miss the batches under
  way when it dropped the cache, those given the overtaken list, and those whose
  query of the rules failed.
* `NothingMissed`, `NothingTwice`: for page sizes the repository accepts, rows of
  different days, and a table that only grows, or only shrinks. The ordered views
  of the run hold two rows at most; longer walks over a table that changes are
  covered by the theorems. `OddSizes` says
  what the other sizes do: above the maximum a walk leaves out rows unless the
  first page held them all, at zero or below it never leaves the first page.
* `SecondPushOnlyByRace`: both calls looked before either had inserted.
* `PulseAddsUp`: the parts of an answer may differ by what the rows that came or
  went between its queries cost and how many they are (`moved`), not by more; it
  says nothing of an answer that lacks a part (`partial`).
* `WindowsTrue`: the current window ends 24 hours after the instant asked for, so
  that it holds the days up to the instant's and exactly those rows of the next
  day that were posted before that time of day.
* `NotifiedIsAlerted`: not if a query of the call failed or the process ended.

## 5. What is proved

All theorems hold for every value of the constants that satisfies the module's
assumptions, whatever the bounds of the runs: any file, number of workers,
channel capacity, batch and statement size, any choice of disturbances; any
users, requests, e-mails, names and identities; any batches, rules, rows and
relations between them; any table, calendar and number of calls; any lines a
file may consist of and any columns a client may ask for.

The assumptions are named in the modules and say what the code's types and
tables say: requests, workers and rows are finitely many, bounds are numbers, a
row has a day and an amount, the months of a calendar follow each other, a page
size is a number and the maximum and default of `ListTransactions` are positive,
a line is a sequence of cells (`Lines`, `Cells`), a column a number. No
assumption speaks of what the program does.

### Import

`ImportPipelineProofs`: `TypeCorrect`, `ClosedChannelSafe`, `NoRecordTwice`,
`NoRecordLost`, `SucceededComplete`, `NoOverstatement`, `AnswerTrue`,
`SucceededStored`, `StuckOnlyAfterCancel`, `ImplementsJob`. They rest on one
inductive invariant, `IInv`. The properties alone are not inductive: that a
succeeded job is complete depends on why the results loop ended. `CallerInv`
says what the caller's locals hold at each point (after the loop without an
insert error, the results channel is empty and closed); `StreamInv` says why
goroutines may have ended (the producer, because everything was sent or the
context is done; a worker, because `jobs` is closed and drained or the context
is done; the closer, because all workers returned); `FutureOpen` says that
records not yet received have no fate; `CountsInv` ties the counters to the
fates. Together: a loop that ended without cancellation has seen every record.
There is one lemma per action, split by the part of the invariant it can
disturb; `Inductive` puts them together.

Four results add a part of their own to it. `AnswerInv` says what the call
finished with, and `AllSettled` that a caller that finishes without an error or
a cancellation leaves no record pending. `StoredInv`: a record the database was
given left its external id in the table, because within a statement the first
row of an id goes in unless it is there. `StatusInv` follows the status of the
job row. `ImplementsJob` is the refinement of `ImportJob`: with `RowInv` (the
row's counters are never ahead of the caller's) creating, finishing and
counting the job map to its `Create`, `Succeed` or `Fail` and `Progress`, what
decides the fate of records to `Settle`, and every other step is not seen by a
reader of the row (`UnseenStep`, `ContractStep`).

`ImportAnalysisProofs` has two parts. `HeaderIsFound`, `EchoTakesSameConfig`,
`NeverOutOfRange` and `MappingStays` hold of any lines whatever. `findHeaderRow`
is a fold over the lines; `FoldExists` and `FoldRuns` say that such a fold
passes through a value per line (`Search`), and `FindsHeader` follows the best
line through them: before the header it is nothing that scores as much, from the
header on it is the header. The other three follow from the invariant
`AnalysisInv`: a reply is the analysis of the statement, a result was read at
the header row it was asked for and has no panic in it, has the mapping, the
currency and the rows that the request and the statement come to (`WorkedOut`),
for a date format the client can have heard of (`Asked`), and a mapping of the
user's own is still in the table (`OwnFirst`). `DetectedAgain` says that the
path with a given header row finds what the search found; `ResolvedInside` that
`resolveMapping` lets no negative column through, whatever was asked.

`RowsAreAligned`, `AmountsAreTrue`, `DatesAreTrue`, `FormatsDoAgree` and
`CurrencyIsTrue` speak of statements that are `Written`, with any number of
lines, any dates and any amounts below a billion. From the header on every line
is a record, so a record of the data is the line as many below as lines up to
the header are none (`RecordsAligned`, by counting; `RowsRead`). The digit runs
of a text that `Grouped` allows add up to the amount (`DigitsAdd`, `AmountShape`),
so that it is read back in the bank's convention (`AmountReadBack`);
`UnitsReadable` says when a whole amount can be read in the other.
`FitsWhen` says which layouts fit a written date, `FirstFits` which of the list
does first, and `DateReadBack` that the day read is the one written or the one
with day and month exchanged. `RowRead` puts this together for `parseRow`. For
the convention, every amount with cents votes for the bank's and no cell for the
other (`RowVotes`), so the samples decide (`SamplesDecide` for
`applyFormatDefaults`, `ProbeDecides` for the analysis, which also counts the
currency signs). For the currency, both folds stay among the name and nothing
(`SymbolsName`, `FirstNamed`), the lines above the header and the cells of the
currency column give nothing else (`LineNames`, `CellNames`), and an import that
finds nothing does not begin.

### Accounts and sessions

`AccountsProofs`: `TypeCorrect`, `OneWinner`, `OwnAccount`, `IdentityStays`.
The invariant has a part per request, `Local`, stated of a record and the two
tables so that a step of one request can be seen not to disturb another: a new
row leaves it true (`LocalGrows`), an event it does not see leaves it true
(`LocalNotices`), and a link leaves it true for every request that notices it
(`LocalLinks`). `OneAccountEach` (the UNIQUE constraints) and
`OneRegistrationEach` (an account has one registration) give `OneWinner`.

`AuthSessionsProofs`: `TypeCorrect`, `NoNewSessions`, `Rotation`,
`PasswordChangeEndsSessions`, `TokensServeOnce`. What is left of a request's plan
is one of a few suffixes (`Staged`); every step moves one request along its plan,
admits one, or is the environment's, and the others at most note what happened
to their account or token (`Noticed`). The types need counts: the tables have
room for what the requests in flight will still insert (`RoomInv`), the
passwords for what they will change (`ChangesInv`). On these:

* `ActiveInv`: a request past its look at `is_active` has an active account, or
  overlapped its deactivation.
* `RotateInv`, `ParentInv`: a refresh past its DELETE has no session any more, or
  the DELETE failed; a session's parent is older than it.
* `PasswordInv`: a request that will open a session proves the current password,
  or overlapped a change, or the change still runs, or a statement of it failed.
  A step either leaves a user `Steady`, where what proved the password still
  does, or is the DELETE of all sessions, after which there is nothing to prove.
* `SpentInv`: whoever deleted a token shares it only with requests that noticed;
  whoever holds a spent token noticed; a spent token is gone. Each part unless
  the DELETE failed.

### Categorization and the listing

`CategorizationProofs`: `TypeCorrect`, `PatternsDiffer`, `CacheStale`,
`RulesReach`. `PatternsDiffer` and `CacheStale` are inductive with the types.
`RulesReach` follows a rule from its INSERT on: it is in the table (`InTable`),
in every cache that was not overtaken once it has dropped the cache
(`CacheKnows`), and in the list of every batch on its way that is not excused
(`BatchKnows`); a row that is inserted gets a rule of that list if one matches
(`ListDecides`, which rests on the existence of a last matching position), and
one that is there already gets the rule from the UPDATE.

`LedgerProofs`: every step of `Ledger` is a step of `Categorization` or leaves
it alone (`ImplementsBook`), so `RulesReach` holds beside any walk.
`WalkMissesNothing`, `WalkRepeatsNothing` and `OddSizesBreakWalks` hold for any
table and maximum. They compare the offset with the `Rank` of a row, the number
of rows of later days, which is its place in the listing if no other row has its
day (`RankIsPlace`). As long as nothing left the view, a row still to come has a
rank of at least the offset (`Ahead`); as long as nothing came, a row that was
seen has a smaller one (`Behind`). With a size above the maximum the token skips
more than the page held, and what was seen falls short of the offset (`Short`);
with a size below one the token never moves (`NoSizeNoWalk`).

### Insights

`PaceAlertsProofs`: `TypeCorrect`, `OneAlert`, `SecondPush`. A call that found no
alert of its day and another such call of that day had one of them between look
and INSERT when the other looked (`WentByRace`): otherwise the first would have
left a row, which is never dated anew (`InsertedBefore`, `SendsForAlert`).

`SpendingPulseProofs`: a request starts its call once, when it answers
(`StartsOnce`); every step is a step of `PaceAlerts` or leaves its variables
alone (`ImplementsAlerts`), so both theorems hold of the composition
(`PulsesAlertOnce`, `PulsesPushOnce`). `AlertsFollowNotices`: an answer announces
an alert only when its call has begun (`Announced`), and a call that ends
undisturbed leaves an alert (`EndsWithAlert` in `PaceAlertsProofs`). `PartsAddUp`:
what a request has read is what its query gave on a table that differs from the
one as it is by rows that moved since (`Near`, `Fresh`), the groups of the
categories add up to the sum of their rows (`GroupsAddUp`), and two such tables
differ in sum and number by no more than the rows that moved. `WindowsAreTrue`:
the instants asked for stay within the calendar (`Asked`), each of its days lies
in one month (`EveryDayHasAMonth`), and the bounds of the windows are compared
row by row (`RowInWindows`).

### Sums and folds

The induction theorems of the library take an operator as a parameter, which the
installed provers cannot instantiate. Where a proof needs induction over a
number or a finite set it goes by a smallest counterexample: `LeastNatural`, from
the well-foundedness of `<` on the naturals, gives the least number, or a set of
least size, of which the claim fails, and one element less contradicts it. This
is how the sums of `SpendingPulse` (`SumsExist`, `SumOfBoth`) and the folds of
`Sniffer`, `Normalizer` and `ImportAnalysis` (`FoldExists`, `FoldRuns`) are
evaluated for sets, files and texts of any size.

### Only model-checked

* `ReturnsWithoutLeak`: liveness under fairness, which the prover does not do.
* The three properties of section 6, which the code violates.

## 6. Where code and documentation disagree

* `import_duplicates`: the answer's duplicate count is always 0.
  `finance_handler.go:89-91` expects `RowsTotal` to be the parsed rows;
  `service.go:366` sets it to imported plus failed.
* `auth_deactivate`: `user_repository.go:46` says deactivation invalidates all
  sessions; `DeactivateUser` touches only the legacy tables (also recorded in
  `docs/tickets.md`, AUTH-003).
* `accounts_names`: usernames are optional (`0002_create_users.up.sql:6`), but a
  missing one is stored as `""` under UNIQUE, so only one account can lack one.

Others are visible in the models and have no run of their own:

* an OAuth sign-up whose generated username is taken always fails
  (`auth_service.go:452`), and `CreateUserWithPhone` names a column that does not
  exist (`auth_repository.go:356`); nothing in `src/cmd` calls either yet;
* a registration that fails after its INSERT leaves the account behind: the
  retry is told that it exists (`auth_service.go:133`);
* a date that is not "definitely DD-first" (`sniffer.go:211`) counts as month
  first (`:101-106`): with one early day and American amounts the analysis
  answers MM/DD although it has seen a date that must be DD/MM;
* `SaveMapping` stores the delimiter `;` and zero lines to skip, "Will be updated
  based on actual file" (`service.go:182-183`); nothing updates them;
* the caches of rules and merchants are "refreshed periodically"
  (`categorization/service.go:14`); nothing refreshes them;
* the pulse is "through asOf day" (`insights/repository.go:13`, `:72`), but its
  window, commented "End of asOf day" (`:73`), ends 24 hours after `asOf` and
  takes in the next morning. `WindowsTrue` states the window as it is: a row
  posted at the next midnight counts unless `asOf` is a midnight itself;
* `Send` indexes the tickets of an answer that may have none, in a goroutine
  without recover (`push/service.go:128`).

## 7. Not modelled

* Contents of passwords, JWTs and hashes; mails; `last_login_at`: single
  statements whose outcome nothing modelled reads.
* The conversion between protobuf and Go types; wording, logging, metrics,
  tracing; interceptors and router, which keep no state but the context of a
  request and a token bucket per process.
* Balance queries, which only read. `ListCategoryRules` reads the rules through
  the cache and fills it on a miss: a batch without rows, which `Categorization`
  allows, does just that. The profile of the
  user repository (single UPDATEs) and its handler, which `cmd/api` never builds.
* Pool, migrations, start and shutdown: I/O and wiring.
* Procedures that answer unimplemented, and functions without a caller
  (`Categorize`, `UpdateMapping`, `ListUserMappings`, `SendBatch`).
* In `ImportAnalysis` the confidence of the dialect and the currency hint, shown
  and read by nothing; in `Categorization` the clean name and recurrence of a
  rule, which travel with its category, and the merchants cache, which is filled
  from a table that nothing here writes.

## 8. Plan

1. `UserLifecycle`: the transactions of the user repository (profile, password,
   deactivation) next to `AuthSessions`.
2. `TransactionStore`: several imports, re-imports and deletions against one
   table, built from the promise `ImportJob` makes instead of the pipeline.
3. `Startup`: waiting for the database and graceful shutdown.
