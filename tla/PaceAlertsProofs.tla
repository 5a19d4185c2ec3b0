--------------------------- MODULE PaceAlertsProofs ---------------------------
(***************************************************************************)
(* Proofs about PaceAlerts, for any number of calls, days and failures.    *)
(***************************************************************************)
EXTENDS PaceAlerts, TLAPS

(* The inductive invariant.                                                *)

\* The calls that looked and found no alert of their day.
Went(p) == alertPc[p] \in {"creating", "sending", "posting"} \/ p \in pushed

\* A row is in the table only after its INSERT, and a push is out only after
\* the request to Expo: from then on a call takes no other date.
InsertedBefore == \A p \in raised : alertPc[p] \in {"sending", "posting", "done", "lost"}
PushedBefore == \A p \in pushed : alertPc[p] \in {"done", "lost"}

\* A call on its way to Expo, or there, has an alert of its day.
SendsForAlert == \A p \in Pulses : alertPc[p] \in {"sending", "posting"} \/ p \in pushed => AlertOf(dated[p]) # {}

\* A call that ended without a failed query has, too.
EndsWithAlert == \A p \in Pulses : alertPc[p] = "done" => p \in excused \/ AlertOf(dated[p]) # {}

OneRowPerDay == \A p, q \in raised : dated[p] = dated[q] => p = q

\* Two calls of one day that both went on raced.
WentByRace ==
  \A p, q \in Pulses :
    p # q /\ Went(p) /\ Went(q) /\ dated[p] = dated[q] => p \in rivals[q] \/ q \in rivals[p]

AlertInv ==
  /\ AlertTypeOK /\ InsertedBefore /\ PushedBefore
  /\ SendsForAlert /\ EndsWithAlert /\ OneRowPerDay /\ WentByRace

-------------------------------------------------------------------------------

LEMMA InitAlert == ASSUME NEW first \in 0..LastDay, AlertInit(first) PROVE AlertInv
<1>1. AlertTypeOK
  <2>1. today \in 0..LastDay /\ failures \in 0..MaxFailures
    BY FailuresAssumption DEF AlertInit
  <2>2. pushable \in BOOLEAN
    BY Zenon DEF AlertInit
  <2>3. QED
    BY <2>1, <2>2 DEF AlertInit, AlertTypeOK, AlertSteps, Severities
<1>2. InsertedBefore /\ PushedBefore /\ SendsForAlert /\ EndsWithAlert /\ OneRowPerDay /\ WentByRace
  BY DEF AlertInit, InsertedBefore, PushedBefore, SendsForAlert, EndsWithAlert, OneRowPerDay, WentByRace, Went
<1>3. QED
  BY <1>1, <1>2 DEF AlertInv

\* What is inserted is the call's own row, and only where its day has none.
LEMMA InsertedRows ==
  ASSUME NEW p \in Pulses
  PROVE  \/ Inserted(p) = raised /\ AlertOf(dated[p]) # {}
         \/ Inserted(p) = raised \cup {p} /\ AlertOf(dated[p]) = {}
  BY DEF Inserted

LEMMA AlertTypesKept == AlertInv /\ [AlertNext]_alertVars => AlertTypeOK'
<1> SUFFICES ASSUME AlertInv, [AlertNext]_alertVars PROVE AlertTypeOK'
  OBVIOUS
<1>0. AlertTypeOK
  BY DEF AlertInv
<1> USE DEF AlertTypeOK, AlertSteps
<1>1. ASSUME NEW p \in Pulses, alertPc[p] = "idle", NEW spent, NEW last, Trigger(p, spent, last)
      PROVE  AlertTypeOK'
  <2>1. SeverityOf(spent, last) \in Severities
    BY DEF SeverityOf, Severities
  <2>2. QED
    BY <1>0, <1>1, <2>1 DEF Trigger
<1>2. ASSUME NEW p \in Pulses, CheckAlert(p) PROVE AlertTypeOK'
  BY <1>0, <1>2, DaysAssumption, FailuresAssumption DEF CheckAlert
<1>3. ASSUME NEW p \in Pulses, CheckAlertFails(p) PROVE AlertTypeOK'
  BY <1>0, <1>3, DaysAssumption, FailuresAssumption DEF CheckAlertFails
<1>4. ASSUME NEW p \in Pulses, CreateAlert(p) PROVE AlertTypeOK'
  BY <1>0, <1>4, InsertedRows DEF CreateAlert
<1>5. ASSUME NEW p \in Pulses, CreateAlertFails(p) PROVE AlertTypeOK'
  BY <1>0, <1>5, DaysAssumption, FailuresAssumption, InsertedRows DEF CreateAlertFails
<1>6. ASSUME NEW p \in Pulses, GetToken(p) PROVE AlertTypeOK'
  BY <1>0, <1>6 DEF GetToken
<1>7. ASSUME NEW p \in Pulses, PostPush(p) PROVE AlertTypeOK'
  BY <1>0, <1>7 DEF PostPush
<1>8. ASSUME NEW p \in Pulses, PanicPush(p) PROVE AlertTypeOK'
  BY <1>0, <1>8 DEF PanicPush
<1>9. ASSUME NEW p \in Pulses, Handle(p) PROVE AlertTypeOK'
  BY <1>0, <1>9 DEF Handle
<1>10. ASSUME UpdatePushToken PROVE AlertTypeOK'
  BY <1>0, <1>10 DEF UpdatePushToken
<1>11. ASSUME NextDay PROVE AlertTypeOK'
  BY <1>0, <1>11, DaysAssumption, FailuresAssumption DEF NextDay
<1>12. ASSUME QueryFails PROVE AlertTypeOK'
  BY <1>0, <1>12, DaysAssumption, FailuresAssumption DEF QueryFails
<1>13. CASE UNCHANGED alertVars
  BY <1>0, <1>13 DEF alertVars
<1>14. QED
  BY <1>1, <1>2, <1>3, <1>4, <1>5, <1>6, <1>7, <1>8, <1>9, <1>10, <1>11, <1>12, <1>13
     DEF AlertNext, AlertStep, MarkAlertRead, DismissAlert

LEMMA BeforeKept == AlertInv /\ [AlertNext]_alertVars => (InsertedBefore /\ PushedBefore)'
<1> SUFFICES ASSUME AlertInv, [AlertNext]_alertVars PROVE (InsertedBefore /\ PushedBefore)'
  OBVIOUS
<1>0. AlertTypeOK /\ InsertedBefore /\ PushedBefore
  BY DEF AlertInv
<1> USE DEF AlertTypeOK, InsertedBefore, PushedBefore
<1>1. ASSUME NEW p \in Pulses, alertPc[p] = "idle", NEW spent, NEW last, Trigger(p, spent, last)
      PROVE  (InsertedBefore /\ PushedBefore)'
  BY <1>0, <1>1 DEF Trigger
<1>2. ASSUME NEW p \in Pulses, CheckAlert(p) PROVE (InsertedBefore /\ PushedBefore)'
  BY <1>0, <1>2 DEF CheckAlert
<1>3. ASSUME NEW p \in Pulses, CheckAlertFails(p) PROVE (InsertedBefore /\ PushedBefore)'
  BY <1>0, <1>3 DEF CheckAlertFails
<1>4. ASSUME NEW p \in Pulses, CreateAlert(p) PROVE (InsertedBefore /\ PushedBefore)'
  BY <1>0, <1>4, InsertedRows DEF CreateAlert
<1>5. ASSUME NEW p \in Pulses, CreateAlertFails(p) PROVE (InsertedBefore /\ PushedBefore)'
  BY <1>0, <1>5, InsertedRows DEF CreateAlertFails
<1>6. ASSUME NEW p \in Pulses, GetToken(p) PROVE (InsertedBefore /\ PushedBefore)'
  BY <1>0, <1>6 DEF GetToken
<1>7. ASSUME NEW p \in Pulses, PostPush(p) PROVE (InsertedBefore /\ PushedBefore)'
  BY <1>0, <1>7 DEF PostPush
<1>8. ASSUME NEW p \in Pulses, PanicPush(p) PROVE (InsertedBefore /\ PushedBefore)'
  BY <1>0, <1>8 DEF PanicPush, Interrupted
<1>9. ASSUME NEW p \in Pulses, Handle(p) PROVE (InsertedBefore /\ PushedBefore)'
  BY <1>0, <1>9 DEF Handle
<1>10. ASSUME UpdatePushToken PROVE (InsertedBefore /\ PushedBefore)'
  BY <1>0, <1>10 DEF UpdatePushToken
<1>11. ASSUME NextDay PROVE (InsertedBefore /\ PushedBefore)'
  BY <1>0, <1>11 DEF NextDay
<1>12. ASSUME QueryFails PROVE (InsertedBefore /\ PushedBefore)'
  BY <1>0, <1>12 DEF QueryFails
<1>13. CASE UNCHANGED alertVars
  BY <1>0, <1>13 DEF alertVars
<1>14. QED
  BY <1>1, <1>2, <1>3, <1>4, <1>5, <1>6, <1>7, <1>8, <1>9, <1>10, <1>11, <1>12, <1>13
     DEF AlertNext, AlertStep, MarkAlertRead, DismissAlert

\* The INSERT that conflicts leaves the row it conflicts with.
LEMMA SendsForAlertKept == AlertInv /\ [AlertNext]_alertVars => SendsForAlert'
<1> SUFFICES ASSUME AlertInv, [AlertNext]_alertVars PROVE SendsForAlert'
  OBVIOUS
<1>0. AlertTypeOK /\ InsertedBefore /\ PushedBefore /\ SendsForAlert
  BY DEF AlertInv
<1> USE DEF AlertTypeOK, InsertedBefore, PushedBefore, SendsForAlert, AlertOf
<1>1. ASSUME NEW p \in Pulses, alertPc[p] = "idle", NEW spent, NEW last, Trigger(p, spent, last)
      PROVE  SendsForAlert'
  BY <1>0, <1>1 DEF Trigger
<1>2. ASSUME NEW p \in Pulses, CheckAlert(p) PROVE SendsForAlert'
  BY <1>0, <1>2 DEF CheckAlert
<1>3. ASSUME NEW p \in Pulses, CheckAlertFails(p) PROVE SendsForAlert'
  BY <1>0, <1>3 DEF CheckAlertFails
<1>4. ASSUME NEW p \in Pulses, CreateAlert(p) PROVE SendsForAlert'
  BY <1>0, <1>4 DEF CreateAlert, Inserted
<1>5. ASSUME NEW p \in Pulses, CreateAlertFails(p) PROVE SendsForAlert'
  BY <1>0, <1>5 DEF CreateAlertFails, Inserted
<1>6. ASSUME NEW p \in Pulses, GetToken(p) PROVE SendsForAlert'
  BY <1>0, <1>6 DEF GetToken
<1>7. ASSUME NEW p \in Pulses, PostPush(p) PROVE SendsForAlert'
  BY <1>0, <1>7 DEF PostPush
<1>8. ASSUME NEW p \in Pulses, PanicPush(p) PROVE SendsForAlert'
  BY <1>0, <1>8 DEF PanicPush, Interrupted
<1>9. ASSUME NEW p \in Pulses, Handle(p) PROVE SendsForAlert'
  BY <1>0, <1>9 DEF Handle
<1>10. ASSUME UpdatePushToken PROVE SendsForAlert'
  BY <1>0, <1>10 DEF UpdatePushToken
<1>11. ASSUME NextDay PROVE SendsForAlert'
  BY <1>0, <1>11 DEF NextDay
<1>12. ASSUME QueryFails PROVE SendsForAlert'
  BY <1>0, <1>12 DEF QueryFails
<1>13. CASE UNCHANGED alertVars
  BY <1>0, <1>13 DEF alertVars
<1>14. QED
  BY <1>1, <1>2, <1>3, <1>4, <1>5, <1>6, <1>7, <1>8, <1>9, <1>10, <1>11, <1>12, <1>13
     DEF AlertNext, AlertStep, MarkAlertRead, DismissAlert

\* A call is begun only for a pace that the call takes for one, too: it does
\* not turn back before it has looked.
LEMMA EndsWithAlertKept == AlertInv /\ [AlertNext]_alertVars => EndsWithAlert'
<1> SUFFICES ASSUME AlertInv, [AlertNext]_alertVars PROVE EndsWithAlert'
  OBVIOUS
<1>0. AlertTypeOK /\ InsertedBefore /\ SendsForAlert /\ EndsWithAlert
  BY DEF AlertInv
<1> USE DEF AlertTypeOK, InsertedBefore, SendsForAlert, EndsWithAlert, AlertOf
<1>1. ASSUME NEW p \in Pulses, NEW spent \in Int, NEW last \in Int, ShouldNotify(spent, last), Trigger(p, spent, last)
      PROVE  EndsWithAlert'
  <2>1. ~ TooLow(spent, last)
    BY <1>1 DEF ShouldNotify, OverBy, TooLow, Below120
  <2>2. QED
    BY <1>0, <1>1, <2>1 DEF Trigger
<1>2. ASSUME NEW p \in Pulses, CheckAlert(p) PROVE EndsWithAlert'
  BY <1>0, <1>2 DEF CheckAlert, NewToday
<1>3. ASSUME NEW p \in Pulses, CheckAlertFails(p) PROVE EndsWithAlert'
  BY <1>0, <1>3 DEF CheckAlertFails
<1>4. ASSUME NEW p \in Pulses, CreateAlert(p) PROVE EndsWithAlert'
  BY <1>0, <1>4 DEF CreateAlert, Inserted
<1>5. ASSUME NEW p \in Pulses, CreateAlertFails(p) PROVE EndsWithAlert'
  BY <1>0, <1>5 DEF CreateAlertFails, Inserted
<1>6. ASSUME NEW p \in Pulses, GetToken(p) PROVE EndsWithAlert'
  BY <1>0, <1>6 DEF GetToken
<1>7. ASSUME NEW p \in Pulses, PostPush(p) PROVE EndsWithAlert'
  BY <1>0, <1>7 DEF PostPush
<1>8. ASSUME NEW p \in Pulses, PanicPush(p) PROVE EndsWithAlert'
  BY <1>0, <1>8 DEF PanicPush, Interrupted
<1>9. ASSUME NEW p \in Pulses, Handle(p) PROVE EndsWithAlert'
  BY <1>0, <1>9 DEF Handle
<1>10. ASSUME UpdatePushToken PROVE EndsWithAlert'
  BY <1>0, <1>10 DEF UpdatePushToken
<1>11. ASSUME NextDay PROVE EndsWithAlert'
  BY <1>0, <1>11 DEF NextDay
<1>12. ASSUME QueryFails PROVE EndsWithAlert'
  BY <1>0, <1>12 DEF QueryFails
<1>13. CASE UNCHANGED alertVars
  BY <1>0, <1>13 DEF alertVars
<1>14. QED
  BY <1>1, <1>2, <1>3, <1>4, <1>5, <1>6, <1>7, <1>8, <1>9, <1>10, <1>11, <1>12, <1>13
     DEF AlertNext, AlertStep, MarkAlertRead, DismissAlert

LEMMA OneRowKept == AlertInv /\ [AlertNext]_alertVars => OneRowPerDay'
<1> SUFFICES ASSUME AlertInv, [AlertNext]_alertVars PROVE OneRowPerDay'
  OBVIOUS
<1>0. AlertTypeOK /\ InsertedBefore /\ OneRowPerDay
  BY DEF AlertInv
<1> USE DEF AlertTypeOK, InsertedBefore, OneRowPerDay, AlertOf
<1>1. ASSUME NEW p \in Pulses, alertPc[p] = "idle", NEW spent, NEW last, Trigger(p, spent, last)
      PROVE  OneRowPerDay'
  BY <1>0, <1>1 DEF Trigger
<1>2. ASSUME NEW p \in Pulses, CheckAlert(p) PROVE OneRowPerDay'
  BY <1>0, <1>2 DEF CheckAlert
<1>3. ASSUME NEW p \in Pulses, CheckAlertFails(p) PROVE OneRowPerDay'
  BY <1>0, <1>3 DEF CheckAlertFails
<1>4. ASSUME NEW p \in Pulses, CreateAlert(p) PROVE OneRowPerDay'
  BY <1>0, <1>4 DEF CreateAlert, Inserted
<1>5. ASSUME NEW p \in Pulses, CreateAlertFails(p) PROVE OneRowPerDay'
  BY <1>0, <1>5 DEF CreateAlertFails, Inserted
<1>6. ASSUME NEW p \in Pulses, GetToken(p) PROVE OneRowPerDay'
  BY <1>0, <1>6 DEF GetToken
<1>7. ASSUME NEW p \in Pulses, PostPush(p) PROVE OneRowPerDay'
  BY <1>0, <1>7 DEF PostPush
<1>8. ASSUME NEW p \in Pulses, PanicPush(p) PROVE OneRowPerDay'
  BY <1>0, <1>8 DEF PanicPush
<1>9. ASSUME NEW p \in Pulses, Handle(p) PROVE OneRowPerDay'
  BY <1>0, <1>9 DEF Handle
<1>10. ASSUME UpdatePushToken PROVE OneRowPerDay'
  BY <1>0, <1>10 DEF UpdatePushToken
<1>11. ASSUME NextDay PROVE OneRowPerDay'
  BY <1>0, <1>11 DEF NextDay
<1>12. ASSUME QueryFails PROVE OneRowPerDay'
  BY <1>0, <1>12 DEF QueryFails
<1>13. CASE UNCHANGED alertVars
  BY <1>0, <1>13 DEF alertVars
<1>14. QED
  BY <1>1, <1>2, <1>3, <1>4, <1>5, <1>6, <1>7, <1>8, <1>9, <1>10, <1>11, <1>12, <1>13
     DEF AlertNext, AlertStep, MarkAlertRead, DismissAlert

\* A call that looks and finds nothing while another went on for the same day
\* finds that one between its own look and its INSERT.
LEMMA RacesKept == AlertInv /\ [AlertNext]_alertVars => WentByRace'
<1> SUFFICES ASSUME AlertInv, [AlertNext]_alertVars PROVE WentByRace'
  OBVIOUS
<1>0. AlertTypeOK /\ PushedBefore /\ SendsForAlert /\ WentByRace
  BY DEF AlertInv
<1> USE DEF AlertTypeOK, PushedBefore, WentByRace, Went
<1>1. ASSUME NEW p \in Pulses, alertPc[p] = "idle", NEW spent, NEW last, Trigger(p, spent, last)
      PROVE  WentByRace'
  BY <1>0, <1>1 DEF Trigger
<1>2. ASSUME NEW p \in Pulses, CheckAlert(p) PROVE WentByRace'
  <2>1. \A q \in Pulses : q # p => /\ Went(q)' <=> Went(q)
                                  /\ dated'[q] = dated[q] /\ rivals'[q] = rivals[q]
    BY <1>0, <1>2 DEF CheckAlert
  <2>2. ~ Went(p)
    BY <1>0, <1>2 DEF CheckAlert
  <2>3. Went(p)' => NewToday(today) /\ dated'[p] = today /\ rivals'[p] = {q \in Pulses : alertPc[q] = "creating"}
    BY <1>0, <1>2, <2>2 DEF CheckAlert
  <2>4. \A q \in Pulses : Went(q) /\ dated[q] = today /\ NewToday(today) => alertPc[q] = "creating"
    BY <1>0 DEF SendsForAlert, NewToday
  <2>5. \A q \in Pulses : q # p /\ Went(p)' /\ Went(q)' /\ dated'[q] = dated'[p] => q \in rivals'[p]
    BY <2>1, <2>3, <2>4
  <2>6. \A q, r \in Pulses : q # p /\ r # p /\ q # r /\ Went(q)' /\ Went(r)' /\ dated'[q] = dated'[r]
          => q \in rivals'[r] \/ r \in rivals'[q]
    BY <1>0, <2>1
  <2>7. QED
    BY <2>5, <2>6
<1>3. ASSUME NEW p \in Pulses, CheckAlertFails(p) PROVE WentByRace'
  BY <1>0, <1>3 DEF CheckAlertFails
<1>4. ASSUME NEW p \in Pulses, CreateAlert(p) PROVE WentByRace'
  BY <1>0, <1>4 DEF CreateAlert
<1>5. ASSUME NEW p \in Pulses, CreateAlertFails(p) PROVE WentByRace'
  BY <1>0, <1>5 DEF CreateAlertFails
<1>6. ASSUME NEW p \in Pulses, GetToken(p) PROVE WentByRace'
  BY <1>0, <1>6 DEF GetToken
<1>7. ASSUME NEW p \in Pulses, PostPush(p) PROVE WentByRace'
  BY <1>0, <1>7 DEF PostPush
<1>8. ASSUME NEW p \in Pulses, PanicPush(p) PROVE WentByRace'
  BY <1>0, <1>8 DEF PanicPush, Interrupted
<1>9. ASSUME NEW p \in Pulses, Handle(p) PROVE WentByRace'
  BY <1>0, <1>9 DEF Handle
<1>10. ASSUME UpdatePushToken PROVE WentByRace'
  BY <1>0, <1>10 DEF UpdatePushToken
<1>11. ASSUME NextDay PROVE WentByRace'
  BY <1>0, <1>11 DEF NextDay
<1>12. ASSUME QueryFails PROVE WentByRace'
  BY <1>0, <1>12 DEF QueryFails
<1>13. CASE UNCHANGED alertVars
  BY <1>0, <1>13 DEF alertVars
<1>14. QED
  BY <1>1, <1>2, <1>3, <1>4, <1>5, <1>6, <1>7, <1>8, <1>9, <1>10, <1>11, <1>12, <1>13
     DEF AlertNext, AlertStep, MarkAlertRead, DismissAlert

LEMMA StepAlert == AlertInv /\ [AlertNext]_alertVars => AlertInv'
  BY AlertTypesKept, BeforeKept, SendsForAlertKept, EndsWithAlertKept, OneRowKept, RacesKept DEF AlertInv

LEMMA InvOneAlert == AlertInv => OneAlertPerDay
<1> SUFFICES ASSUME AlertInv PROVE OneAlertPerDay
  OBVIOUS
<1>1. AlertTypeOK /\ SendsForAlert /\ OneRowPerDay
  BY DEF AlertInv
<1>2. \A p \in handled, q \in GetUnreadAlerts : p \in raised /\ q \in raised /\ p # q
  BY <1>1 DEF AlertTypeOK, GetUnreadAlerts
<1>3. \A p \in handled, q \in GetUnreadAlerts : dated[p] # dated[q]
  BY <1>1, <1>2 DEF OneRowPerDay
<1>4. \A p \in pushed : AlertOf(dated[p]) # {}
  BY <1>1 DEF AlertTypeOK, SendsForAlert
<1>5. QED
  BY <1>1, <1>3, <1>4 DEF OneRowPerDay, OneAlertPerDay

LEMMA InvRaces == AlertInv => SecondPushOnlyByRace
  BY DEF AlertInv, AlertTypeOK, WentByRace, Went, SecondPushOnlyByRace

-------------------------------------------------------------------------------
(* The theorems.                                                           *)

\* The inductive invariant holds in every reachable state.
THEOREM Inductive == AlertSpec => []AlertInv
<1>1. (\E first \in 0..LastDay : AlertInit(first)) => AlertInv
  BY InitAlert
<1>2. AlertInv /\ [AlertNext]_alertVars => AlertInv'
  BY StepAlert
<1>3. QED
  BY <1>1, <1>2, PTL DEF AlertSpec

\* Type correctness of the alerts, the calls and the clock.
THEOREM TypeCorrect == AlertSpec => []AlertTypeOK
<1>1. AlertInv => AlertTypeOK
  BY DEF AlertInv
<1>2. QED
  BY <1>1, Inductive, PTL

\* Any number of calls that race leave one alert for a day, and every push
\* has one behind it.
THEOREM OneAlert == AlertSpec => []OneAlertPerDay
  BY InvOneAlert, Inductive, PTL

\* Two pushes of one day come only from calls that overlapped between look
\* and INSERT.
THEOREM SecondPush == AlertSpec => []SecondPushOnlyByRace
  BY InvRaces, Inductive, PTL

===============================================================================
