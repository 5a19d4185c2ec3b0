------------------------------ MODULE PaceAlerts ------------------------------
(***************************************************************************)
(* The goroutines that turn a spending pulse into an alert and a push      *)
(* notification, for one user.  GetSpendingPulse starts TriggerPaceAlert   *)
(* and does not wait for it; TriggerPaceAlert looks for an alert of the    *)
(* day, inserts one, and starts the goroutine that sends the push.         *)
(***************************************************************************)
EXTENDS Integers, FiniteSets

CONSTANTS
  Pulses,       \* calls of TriggerPaceAlert, each named after its pulse
  LastDay,      \* the bound of the model on the clock
  MaxFailures   \* queries that may fail

ASSUME DaysAssumption == LastDay \in Nat \ {0}
ASSUME FailuresAssumption == MaxFailures \in Nat

VARIABLES
  today,        \* the day on the server's clock
  alertPc,      \* where each call is; "sending" and "posting" are the goroutine of the push
  dated,        \* alert_date: the day each call took when it began
  severity,     \* of its alert
  raised,       \* alerts: the calls that inserted a row, with date and severity above
  handled,      \* those marked read or dismissed
  pushable,     \* whether users.expo_push_token is a token Send accepts
  pushed,       \* calls whose push reached Expo
  failures,
  \* Ghosts.
  excused,      \* calls of which a query failed
  rivals        \* per call, those between their look and their INSERT at its look

alertVars == <<today, alertPc, dated, severity, raised, handled, pushable, pushed,
               failures, excused, rivals>>

Severities == {"info", "warning", "critical"}
AlertSteps == {"idle", "checking", "creating", "sending", "posting", "done", "lost"}

-------------------------------------------------------------------------------
(* Conditions.  A pace is a fraction: spent over last, in percent.         *)

OverBy(percent, spent, last) == spent * 100 > percent * last

\* The handler's own condition for starting the call.
ShouldNotify(spent, last) == OverBy(120, spent, last) /\ last > 0

\* NotificationThreshold.
Below120(spent, last) == spent * 100 < 120 * last

\* Mutant: PaceThreshold instead.
Below125(spent, last) == ~OverBy(125, spent, last)

\* The early return of TriggerPaceAlert.
TooLow(spent, last) == Below120(spent, last)

SeverityOf(spent, last) ==
  CASE spent * 100 >= 150 * last -> "critical"
    [] spent * 100 < 130 * last -> "info"
    [] OTHER -> "warning"

AlertOf(d) == {p \in raised : dated[p] = d}

-------------------------------------------------------------------------------
(* Steps.                                                                  *)

\* What the handler's go statement begins, as far as it needs no query.
Trigger(p, spent, last) ==
  /\ alertPc' = [alertPc EXCEPT ![p] = IF TooLow(spent, last) THEN "done" ELSE "checking"]
  /\ severity' = [severity EXCEPT ![p] = SeverityOf(spent, last)]
  /\ UNCHANGED <<today, dated, raised, handled, pushable, pushed, failures, excused, rivals>>

\* Mutant: no look at the table.
AlwaysNew(d) == TRUE

\* HasAlertToday, for the day it is now; the INSERT uses the same day.
NewToday(d) == AlertOf(d) = {}
CheckAlert(p) ==
  /\ alertPc[p] = "checking"
  /\ alertPc' = [alertPc EXCEPT ![p] = IF NewToday(today) THEN "creating" ELSE "done"]
  /\ dated' = [dated EXCEPT ![p] = today]
  /\ rivals' = [rivals EXCEPT ![p] = {q \in Pulses : alertPc[q] = "creating"}]
  /\ UNCHANGED <<today, severity, raised, handled, pushable, pushed, failures, excused>>

CheckAlertFails(p) ==
  /\ alertPc[p] = "checking" /\ failures < MaxFailures
  /\ failures' = failures + 1
  /\ excused' = excused \cup {p}
  /\ alertPc' = [alertPc EXCEPT ![p] = "done"]
  /\ dated' = [dated EXCEPT ![p] = today]
  /\ UNCHANGED <<today, severity, raised, handled, pushable, pushed, rivals>>

\* Mutant: no unique index.
AlwaysInserted(p) == raised \cup {p}

\* ON CONFLICT DO NOTHING; that no row comes back is no error, and the push
\* is sent all the same.
Inserted(p) == IF AlertOf(dated[p]) = {} THEN raised \cup {p} ELSE raised
CreateAlert(p) ==
  /\ alertPc[p] = "creating"
  /\ alertPc' = [alertPc EXCEPT ![p] = "sending"]
  /\ raised' = Inserted(p)
  /\ UNCHANGED <<today, dated, severity, handled, pushable, pushed, failures, excused, rivals>>

\* The statement fails, or is applied and its answer lost.
CreateAlertFails(p) ==
  /\ alertPc[p] = "creating" /\ failures < MaxFailures
  /\ failures' = failures + 1
  /\ excused' = excused \cup {p}
  /\ alertPc' = [alertPc EXCEPT ![p] = "done"]
  /\ raised' \in {raised, Inserted(p)}
  /\ UNCHANGED <<today, dated, severity, handled, pushable, pushed, rivals>>

\* GetExpoPushToken, and the checks Send makes before its request.
GetToken(p) ==
  /\ alertPc[p] = "sending"
  /\ alertPc' = [alertPc EXCEPT ![p] = IF pushable THEN "posting" ELSE "done"]
  /\ UNCHANGED <<today, dated, severity, raised, handled, pushable, pushed, failures, excused, rivals>>

\* The request to Expo ends: delivered or not, the error is only logged.
PostPush(p) ==
  /\ alertPc[p] = "posting"
  /\ alertPc' = [alertPc EXCEPT ![p] = "done"]
  /\ pushed' \in {pushed, pushed \cup {p}}
  /\ UNCHANGED <<today, dated, severity, raised, handled, pushable, failures, excused, rivals>>

\* An answer without a ticket: Send takes pushResp.Data[0] of an empty list,
\* and a panic in a goroutine ends the process, with every call under way; the
\* push may have gone out all the same.
Interrupted(p) == alertPc[p] \notin {"idle", "done", "lost"}
PanicPush(p) ==
  /\ alertPc[p] = "posting"
  /\ alertPc' = [q \in Pulses |-> IF Interrupted(q) THEN "lost" ELSE alertPc[q]]
  /\ pushed' \in {pushed, pushed \cup {p}}
  /\ UNCHANGED <<today, dated, severity, raised, handled, pushable, failures, excused, rivals>>

Handle(p) ==
  /\ p \in raised
  /\ handled' = handled \cup {p}
  /\ UNCHANGED <<today, alertPc, dated, severity, raised, pushable, pushed, failures, excused, rivals>>
MarkAlertRead(p) == Handle(p)
DismissAlert(p) == Handle(p)

GetUnreadAlerts == raised \ handled

\* UpdateExpoPushToken stores any string.
UpdatePushToken ==
  /\ pushable' \in BOOLEAN
  /\ UNCHANGED <<today, alertPc, dated, severity, raised, handled, pushed, failures, excused, rivals>>

NextDay ==
  /\ today < LastDay
  /\ today' = today + 1
  /\ UNCHANGED <<alertPc, dated, severity, raised, handled, pushable, pushed, failures, excused, rivals>>

\* A query of the pulse itself fails.
QueryFails ==
  /\ failures < MaxFailures
  /\ failures' = failures + 1
  /\ UNCHANGED <<today, alertPc, dated, severity, raised, handled, pushable, pushed, excused, rivals>>

AlertStep(p) ==
  \/ CheckAlert(p) \/ CheckAlertFails(p) \/ CreateAlert(p) \/ CreateAlertFails(p)
  \/ GetToken(p) \/ PostPush(p)

AlertInit(first) ==
  /\ today = first
  /\ alertPc = [p \in Pulses |-> "idle"]
  /\ dated = [p \in Pulses |-> first] /\ severity = [p \in Pulses |-> "info"]
  /\ raised = {} /\ handled = {} /\ pushable = FALSE /\ pushed = {}
  /\ failures = 0 /\ excused = {} /\ rivals = [p \in Pulses |-> {}]

\* The pulses themselves are not in this module: any call may begin, with
\* any spending that asks for it.
AlertNext ==
  \/ \E p \in Pulses :
       \/ alertPc[p] = "idle" /\ \E spent, last \in Int : ShouldNotify(spent, last) /\ Trigger(p, spent, last)
       \/ AlertStep(p) \/ PanicPush(p) \/ MarkAlertRead(p) \/ DismissAlert(p)
  \/ UpdatePushToken \/ NextDay \/ QueryFails

AlertSpec == (\E first \in 0..LastDay : AlertInit(first)) /\ [][AlertNext]_alertVars

-------------------------------------------------------------------------------
(* Properties.                                                             *)

AlertTypeOK ==
  /\ today \in 0..LastDay /\ failures \in 0..MaxFailures
  /\ alertPc \in [Pulses -> AlertSteps]
  /\ dated \in [Pulses -> 0..LastDay] /\ severity \in [Pulses -> Severities]
  /\ handled \subseteq raised /\ raised \subseteq Pulses /\ pushed \subseteq Pulses
  /\ pushable \in BOOLEAN /\ excused \subseteq Pulses
  /\ rivals \in [Pulses -> SUBSET Pulses]

\* One alert per day, whichever of the calls that raced for it inserted it:
\* a day of which a push went out has one, and once the user has handled it
\* the list shows no other.
OneAlertPerDay ==
  /\ \A p, q \in raised : dated[p] = dated[q] => p = q
  /\ \A p \in pushed : AlertOf(dated[p]) # {}
  /\ \A p \in handled, q \in GetUnreadAlerts : dated[p] # dated[q]

\* Two pushes of one day come only from calls that raced: one of them had
\* looked for the day's alert and not yet inserted its own when the other
\* looked.
SecondPushOnlyByRace ==
  \A p, q \in pushed : p # q /\ dated[p] = dated[q] => p \in rivals[q] \/ q \in rivals[p]

===============================================================================
