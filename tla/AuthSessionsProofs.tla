-------------------------- MODULE AuthSessionsProofs --------------------------
(***************************************************************************)
(* Proofs about AuthSessions, for any users, any number of requests in     *)
(* flight, any bounds and any choice of statements that fail.              *)
(***************************************************************************)
EXTENDS AuthSessions, FiniteSetTheorems, TLAPS

(* What a request in flight can be. *)

RequestRecord ==
  [op : Operations, left : Seq(Statements), user : Users, token : Nat,
   basis : 0..MaxChanges, during : SUBSET {"password", "deactivated", "taken"}]

\* What is left of a request's plan.
Staged(q) ==
  \/ q.op = "login" /\ q.left = <<"create">>
  \/ q.op = "refresh" /\ \/ q.left = <<"load", "unlink", "create">>
                         \/ q.left = <<"unlink", "create">>
                         \/ q.left = <<"create">>
  \/ q.op = "change" /\ (q.left = <<"update", "purge">> \/ q.left = <<"purge">>)
  \/ q.op = "reset" /\ \/ q.left = <<"update", "spend", "purge">>
                       \/ q.left = <<"spend", "purge">>
                       \/ q.left = <<"purge">>
  \/ q.op = "verify" /\ (q.left = <<"mark", "spend">> \/ q.left = <<"spend">>)
  \/ q.op = "request_reset" /\ q.left = <<"issue">>
  \/ q.op = "resend" /\ q.left = <<"issue">>

InFlight == {q \in RequestRecord : Staged(q)}
Request  == InFlight \cup {Idle}

-----------------------------------------------------------------------------
(* Facts about requests.                                                   *)

LEMMA IdleFacts ==
  /\ Idle.op = "none" /\ Idle.left = <<>> /\ Idle.user = 0 /\ Idle.token = 0
  /\ Idle \notin InFlight
  /\ ~Inserts(Idle.left)
BY SessionsAssumption DEF Idle, NoUser, InFlight, Staged, Inserts

\* What is left of a plan, taken apart.
LEMMA ListFacts ==
  /\ Len(<<"create">>) = 1 /\ Head(<<"create">>) = "create" /\ <<"create">>[1] = "create"
  /\ Len(<<"load", "unlink", "create">>) = 3 /\ Head(<<"load", "unlink", "create">>) = "load" /\ <<"load", "unlink", "create">>[3] = "create"
  /\ Tail(<<"load", "unlink", "create">>) = <<"unlink", "create">>
  /\ Len(<<"unlink", "create">>) = 2 /\ Head(<<"unlink", "create">>) = "unlink" /\ <<"unlink", "create">>[2] = "create"
  /\ Tail(<<"unlink", "create">>) = <<"create">>
  /\ Len(<<"update", "purge">>) = 2 /\ Head(<<"update", "purge">>) = "update" /\ <<"update", "purge">>[2] = "purge"
  /\ Tail(<<"update", "purge">>) = <<"purge">>
  /\ Len(<<"purge">>) = 1 /\ Head(<<"purge">>) = "purge" /\ <<"purge">>[1] = "purge"
  /\ Len(<<"update", "spend", "purge">>) = 3 /\ Head(<<"update", "spend", "purge">>) = "update" /\ <<"update", "spend", "purge">>[3] = "purge"
  /\ Tail(<<"update", "spend", "purge">>) = <<"spend", "purge">>
  /\ Len(<<"spend", "purge">>) = 2 /\ Head(<<"spend", "purge">>) = "spend" /\ <<"spend", "purge">>[2] = "purge"
  /\ Tail(<<"spend", "purge">>) = <<"purge">>
  /\ Len(<<"mark", "spend">>) = 2 /\ Head(<<"mark", "spend">>) = "mark" /\ <<"mark", "spend">>[2] = "spend"
  /\ Tail(<<"mark", "spend">>) = <<"spend">>
  /\ Len(<<"spend">>) = 1 /\ Head(<<"spend">>) = "spend" /\ <<"spend">>[1] = "spend"
  /\ Len(<<"issue">>) = 1 /\ Head(<<"issue">>) = "issue" /\ <<"issue">>[1] = "issue"
OBVIOUS

LEMMA ListTypes ==
  /\ <<"create">> \in Seq(Statements) /\ <<"create">> # <<>>
  /\ <<"load", "unlink", "create">> \in Seq(Statements) /\ <<"load", "unlink", "create">> # <<>>
  /\ <<"unlink", "create">> \in Seq(Statements) /\ <<"unlink", "create">> # <<>>
  /\ <<"update", "purge">> \in Seq(Statements) /\ <<"update", "purge">> # <<>>
  /\ <<"purge">> \in Seq(Statements) /\ <<"purge">> # <<>>
  /\ <<"update", "spend", "purge">> \in Seq(Statements) /\ <<"update", "spend", "purge">> # <<>>
  /\ <<"spend", "purge">> \in Seq(Statements) /\ <<"spend", "purge">> # <<>>
  /\ <<"mark", "spend">> \in Seq(Statements) /\ <<"mark", "spend">> # <<>>
  /\ <<"spend">> \in Seq(Statements) /\ <<"spend">> # <<>>
  /\ <<"issue">> \in Seq(Statements) /\ <<"issue">> # <<>>
BY DEF Statements

\* Where a request is, what it is and where it goes next.
LEMMA StageFacts ==
  ASSUME NEW q \in InFlight
  PROVE  /\ q.left # <<>> /\ q.op # "none" /\ Head(q.left) \in Statements
         /\ Head(q.left) = "load" =>
              q.op = "refresh" /\ Step(q) = [q EXCEPT !.left = <<"unlink", "create">>]
         /\ Head(q.left) = "unlink" =>
              q.op = "refresh" /\ Step(q) = [q EXCEPT !.left = <<"create">>]
         /\ Head(q.left) = "create" => q.op \in {"login", "refresh"} /\ Step(q) = Idle
         /\ Head(q.left) = "issue" => q.op \in {"request_reset", "resend"} /\ Step(q) = Idle
         /\ Head(q.left) = "update" =>
              \/ q.op = "change" /\ Step(q) = [q EXCEPT !.left = <<"purge">>]
              \/ q.op = "reset" /\ Step(q) = [q EXCEPT !.left = <<"spend", "purge">>]
         /\ Head(q.left) = "purge" => q.op \in {"change", "reset"} /\ Step(q) = Idle
         /\ Head(q.left) = "spend" =>
              \/ q.op = "reset" /\ Step(q) = [q EXCEPT !.left = <<"purge">>]
              \/ q.op = "verify" /\ Step(q) = Idle
         /\ Head(q.left) = "mark" =>
              q.op = "verify" /\ Step(q) = [q EXCEPT !.left = <<"spend">>]
         /\ Inserts(q.left) <=> q.op \in {"login", "refresh", "request_reset", "resend"}
         /\ Step(q) = Idle \/ Staged(Step(q))
<1> USE DEF Step, Inserts, Statements
<1>1. Staged(q) /\ \A left : [q EXCEPT !.left = left].left = left /\ [q EXCEPT !.left = left].op = q.op
  BY DEF InFlight, RequestRecord
<1>2. CASE q.op = "login" /\ q.left = <<"create">>
  BY <1>1, <1>2, ListFacts, ListTypes DEF Staged
<1>3. CASE q.op = "refresh" /\ q.left = <<"load", "unlink", "create">>
  BY <1>1, <1>3, ListFacts, ListTypes DEF Staged
<1>4. CASE q.op = "refresh" /\ q.left = <<"unlink", "create">>
  BY <1>1, <1>4, ListFacts, ListTypes DEF Staged
<1>5. CASE q.op = "refresh" /\ q.left = <<"create">>
  BY <1>1, <1>5, ListFacts, ListTypes DEF Staged
<1>6. CASE q.op = "change" /\ q.left = <<"update", "purge">>
  BY <1>1, <1>6, ListFacts, ListTypes DEF Staged
<1>7. CASE q.op = "change" /\ q.left = <<"purge">>
  BY <1>1, <1>7, ListFacts, ListTypes DEF Staged
<1>8. CASE q.op = "reset" /\ q.left = <<"update", "spend", "purge">>
  BY <1>1, <1>8, ListFacts, ListTypes DEF Staged
<1>9. CASE q.op = "reset" /\ q.left = <<"spend", "purge">>
  BY <1>1, <1>9, ListFacts, ListTypes DEF Staged
<1>10. CASE q.op = "reset" /\ q.left = <<"purge">>
  BY <1>1, <1>10, ListFacts, ListTypes DEF Staged
<1>11. CASE q.op = "verify" /\ q.left = <<"mark", "spend">>
  BY <1>1, <1>11, ListFacts, ListTypes DEF Staged
<1>12. CASE q.op = "verify" /\ q.left = <<"spend">>
  BY <1>1, <1>12, ListFacts, ListTypes DEF Staged
<1>13. CASE q.op = "request_reset" /\ q.left = <<"issue">>
  BY <1>1, <1>13, ListFacts, ListTypes DEF Staged
<1>14. CASE q.op = "resend" /\ q.left = <<"issue">>
  BY <1>1, <1>14, ListFacts, ListTypes DEF Staged
<1>15. QED
  BY <1>1, <1>2, <1>3, <1>4, <1>5, <1>6, <1>7, <1>8, <1>9, <1>10, <1>11, <1>12, <1>13, <1>14 DEF Staged

\* A step of a request leaves it in flight or ends it.
LEMMA StepType ==
  ASSUME NEW q \in InFlight
  PROVE  /\ Step(q) \in Request
         /\ Step(q) # Idle =>
              /\ Step(q).op = q.op /\ Step(q).user = q.user /\ Step(q).token = q.token
              /\ Step(q).basis = q.basis /\ Step(q).during = q.during
              /\ Step(q).left \in {<<"unlink", "create">>, <<"create">>, <<"spend", "purge">>,
                                  <<"purge">>, <<"spend">>}
<1>1. CASE Step(q) = Idle
  BY <1>1 DEF Request
<1>2. CASE Step(q) # Idle
  <2>1. Staged(q) /\ q \in RequestRecord
    BY DEF InFlight
  <2>2. PICK left \in {<<"unlink", "create">>, <<"create">>, <<"spend", "purge">>,
                        <<"purge">>, <<"spend">>} : Step(q) = [q EXCEPT !.left = left]
    BY <1>2, StageFacts DEF Statements
  <2>3. left \in Seq(Statements)
    BY <2>2, ListTypes
  <2>4. Step(q) \in RequestRecord
    BY <2>1, <2>2, <2>3 DEF RequestRecord
  <2>5. /\ Step(q).op = q.op /\ Step(q).user = q.user /\ Step(q).token = q.token
        /\ Step(q).basis = q.basis /\ Step(q).during = q.during /\ Step(q).left = left
    BY <2>1, <2>2 DEF RequestRecord
  <2>6. Staged(Step(q))
    BY <1>2, StageFacts
  <2>7. QED
    BY <2>4, <2>5, <2>6 DEF InFlight, Request
<1>3. QED
  BY <1>1, <1>2

-----------------------------------------------------------------------------
(* What a step does to the requests.                                       *)

\* p is q, which may have been interfered with.
Noticed(q, p) ==
  /\ p.op = q.op /\ p.left = q.left /\ p.user = q.user
  /\ p.token = q.token /\ p.basis = q.basis
  /\ q.during \subseteq p.during

\* Requests and the tokens they hold.
RequestInv ==
  /\ req \in [Requests -> Request]
  /\ \A r \in Requests : req[r] # Idle => HoldsRightToken(req[r])

\* r took a step of its plan; others may have noticed.
Moves(r) ==
  /\ req' \in [Requests -> Request]
  /\ req[r] \in InFlight
  /\ req'[r] = Step(req[r]) \/ req'[r] = Idle
  /\ \A q \in Requests \ {r} : Noticed(req[q], req'[q])

\* A request was admitted, with a token that was still alive.
Admitted(r) ==
  LET q == req'[r] IN
  /\ req[r] = Idle
  /\ req' \in [Requests -> Request]
  /\ \A p \in Requests \ {r} : req'[p] = req[p]
  /\ q \in InFlight /\ q.left = Plan[q.op] /\ q.during = {}
  /\ HoldsRightToken(q) /\ (q.token # 0 => q.token \in live)
  /\ q.op = "login" => active[q.user] /\ q.basis = password[q.user]
  /\ q.op = "refresh" => q.basis = Token(q.token).basis
  /\ Inserts(q.left) => RowLeft
  /\ IF q.op \in {"change", "reset"} THEN changes < MaxChanges /\ changes' = changes + 1
                                     ELSE UNCHANGED changes
  /\ UNCHANGED <<accounts, tokens, history>>

LEMMA NoticedRequest ==
  ASSUME NEW q \in InFlight, NEW during \in SUBSET {"password", "deactivated", "taken"},
         q.during \subseteq during
  PROVE  /\ [q EXCEPT !.during = during] \in InFlight
         /\ Noticed(q, [q EXCEPT !.during = during])
         /\ [q EXCEPT !.during = during].during = during
BY DEF InFlight, RequestRecord, Staged, Noticed

LEMMA SameIsNoticed == \A q : Noticed(q, q)
BY DEF Noticed

LEMMA NoteFacts ==
  ASSUME NEW q \in Request, NEW u, NEW what \in {"password", "deactivated"}
  PROVE  /\ Note(q, u, what) \in Request /\ Noticed(q, Note(q, u, what))
         /\ Note(q, u, what) = Idle <=> q = Idle
         /\ q # Idle /\ q.user = u => what \in Note(q, u, what).during
         /\ Note(q, u, what).during \subseteq q.during \cup {what}
<1>1. CASE q = Idle
  BY <1>1, IdleFacts, SameIsNoticed DEF Note
<1>2. CASE q \in InFlight /\ q.user = u
  <2>1. q.op # "none" /\ q.during \in SUBSET {"password", "deactivated", "taken"}
    BY <1>2, StageFacts DEF InFlight, RequestRecord
  <2>2. Note(q, u, what) = [q EXCEPT !.during = q.during \cup {what}]
    BY <1>2, <2>1 DEF Note
  <2>3. q.during \cup {what} \in SUBSET {"password", "deactivated", "taken"}
    BY <2>1
  <2>4. /\ Note(q, u, what) \in InFlight /\ Noticed(q, Note(q, u, what))
        /\ Note(q, u, what).during = q.during \cup {what}
    BY <1>2, <2>2, <2>3, NoticedRequest
  <2>5. QED
    BY <1>2, <2>4, IdleFacts DEF Request
<1>3. CASE q \in InFlight /\ q.user # u
  BY <1>3, SameIsNoticed, IdleFacts DEF Note, Request
<1>4. QED
  BY <1>1, <1>2, <1>3 DEF Request

LEMMA TakenFacts ==
  ASSUME NEW q \in Request, NEW ts, 0 \notin ts
  PROVE  /\ NoteTaken(q, ts) \in Request /\ Noticed(q, NoteTaken(q, ts))
         /\ NoteTaken(q, ts) = Idle <=> q = Idle
         /\ q.token \in ts => "taken" \in NoteTaken(q, ts).during
         /\ NoteTaken(q, ts).during \subseteq q.during \cup {"taken"}
<1>1. CASE q = Idle
  BY <1>1, IdleFacts, SameIsNoticed DEF NoteTaken
<1>2. CASE q \in InFlight /\ q.token \in ts
  <2>1. q.during \in SUBSET {"password", "deactivated", "taken"}
    BY <1>2 DEF InFlight, RequestRecord
  <2>2. NoteTaken(q, ts) = [q EXCEPT !.during = q.during \cup {"taken"}]
    BY <1>2 DEF NoteTaken
  <2>3. q.during \cup {"taken"} \in SUBSET {"password", "deactivated", "taken"}
    BY <2>1
  <2>4. /\ NoteTaken(q, ts) \in InFlight /\ Noticed(q, NoteTaken(q, ts))
        /\ NoteTaken(q, ts).during = q.during \cup {"taken"}
    BY <1>2, <2>2, <2>3, NoticedRequest
  <2>5. QED
    BY <1>2, <2>4, IdleFacts DEF Request
<1>3. CASE q \in InFlight /\ q.token \notin ts
  BY <1>3, SameIsNoticed, IdleFacts DEF NoteTaken, Request
<1>4. QED
  BY <1>1, <1>2, <1>3 DEF Request

\* A request at a statement is in flight and goes on or ends.
LEMMA AtFacts ==
  ASSUME RequestInv, NEW r \in Requests, NEW statement, At(r, statement)
  PROVE  req[r] \in InFlight /\ Head(req[r].left) = statement /\ HoldsRightToken(req[r])
BY IdleFacts DEF RequestInv, At, Request

LEMMA AdvanceMoves ==
  ASSUME RequestInv, NEW r \in Requests, NEW statement, At(r, statement),
         Advance(r) \/ Abandon(r)
  PROVE  /\ Moves(r)
         /\ \A q \in Requests \ {r} : req'[q] = req[q]
         /\ Abandon(r) => req'[r] = Idle
<1>1. req[r] \in InFlight /\ req \in [Requests -> Request]
  BY AtFacts DEF RequestInv
<1>2. Step(req[r]) \in Request /\ Idle \in Request
  BY <1>1, StepType DEF Request
<1>3. QED
  BY <1>1, <1>2, SameIsNoticed DEF Advance, Abandon, Moves

\* r goes on while the others see the tokens ts taken.
LEMMA TakingMoves ==
  ASSUME RequestInv, NEW r \in Requests, NEW statement, At(r, statement),
         NEW ts, 0 \notin ts,
         req' = [Others(r, LAMBDA q : NoteTaken(q, ts)) EXCEPT ![r] = Step(@)]
  PROVE  /\ Moves(r) /\ req'[r] = Step(req[r])
         /\ \A q \in Requests \ {r} : req[q].token \in ts => "taken" \in req'[q].during
<1>1. req[r] \in InFlight /\ \A q \in Requests : req[q] \in Request
  BY AtFacts DEF RequestInv
<1>2. Step(req[r]) \in Request
  BY <1>1, StepType
<1>3. req' = [q \in Requests |-> IF q = r THEN Step(req[r]) ELSE NoteTaken(req[q], ts)]
  BY DEF Others
<1>4. \A q \in Requests : NoteTaken(req[q], ts) \in Request /\ Noticed(req[q], NoteTaken(req[q], ts))
                          /\ (req[q].token \in ts => "taken" \in NoteTaken(req[q], ts).during)
  BY <1>1, TakenFacts
<1>5. req' \in [Requests -> Request]
  BY <1>2, <1>3, <1>4
<1>6. \A q \in Requests \ {r} : req'[q] = NoteTaken(req[q], ts)
  BY <1>3
<1>7. QED
  BY <1>1, <1>3, <1>4, <1>5, <1>6 DEF Moves

LEMMA UpdateEffect ==
  ASSUME RequestInv, NEW r \in Requests, UpdatePassword(r)
  PROVE  /\ Moves(r) /\ Head(req[r].left) = "update"
         /\ \/ /\ password' = [password EXCEPT ![req[r].user] = @ + 1]
               /\ \/ req'[r] = Step(req[r]) /\ UNCHANGED unpurged
                  \/ unpurged' = unpurged \cup {req[r].user}
               /\ \A q \in Requests \ {r} : req[q] # Idle /\ req[q].user = req[r].user =>
                    "password" \in req'[q].during
            \/ UNCHANGED <<password, unpurged>> /\ req'[r] = Idle
<1>1. At(r, "update") /\ req[r] \in InFlight /\ \A q \in Requests : req[q] \in Request
  BY AtFacts DEF RequestInv, UpdatePassword
<1>2. PICK applied \in BOOLEAN, ok \in BOOLEAN :
       /\ Exec("update", applied, ok)
       /\ password' = IF applied THEN [password EXCEPT ![req[r].user] = @ + 1]
                                 ELSE password
       /\ unpurged' = IF applied /\ ~ok THEN unpurged \cup {req[r].user} ELSE unpurged
       /\ req' = [(IF applied THEN Others(r, LAMBDA q : Note(q, req[r].user, "password"))
                              ELSE req)
                    EXCEPT ![r] = IF ok THEN Step(@) ELSE Idle]
  BY DEF UpdatePassword
<1>3. Step(req[r]) \in Request /\ Idle \in Request
  BY <1>1, StepType DEF Request
<1>4. \A q \in Requests :
        /\ Note(req[q], req[r].user, "password") \in Request
        /\ Noticed(req[q], Note(req[q], req[r].user, "password"))
        /\ req[q] # Idle /\ req[q].user = req[r].user =>
             "password" \in Note(req[q], req[r].user, "password").during
  BY <1>1, NoteFacts
<1>5. CASE applied
  <2>1. req' = [q \in Requests |-> IF q = r THEN IF ok THEN Step(req[r]) ELSE Idle
                                   ELSE Note(req[q], req[r].user, "password")]
    BY <1>2, <1>5 DEF Others
  <2>2. req' \in [Requests -> Request]
    BY <1>3, <1>4, <2>1
  <2>3. req'[r] = (IF ok THEN Step(req[r]) ELSE Idle)
        /\ \A q \in Requests \ {r} : req'[q] = Note(req[q], req[r].user, "password")
    BY <2>1
  <2>4. Moves(r) /\ Head(req[r].left) = "update"
    BY <1>1, <1>4, <2>2, <2>3 DEF Moves, At
  <2>5. QED
    BY <1>2, <1>4, <1>5, <2>3, <2>4
<1>6. CASE ~applied
  <2>1. ~ok /\ req' = [req EXCEPT ![r] = Idle]
    BY <1>2, <1>6 DEF Exec
  <2>2. Moves(r)
    BY <1>1, <2>1, AdvanceMoves DEF Abandon
  <2>3. QED
    BY <1>1, <1>2, <1>6, <2>1, <2>2 DEF RequestInv, At
<1>7. QED
  BY <1>5, <1>6

LEMMA PurgeEffect ==
  ASSUME RequestInv, NEW r \in Requests, Purge(r), 0 \notin live
  PROVE  /\ Moves(r) /\ Head(req[r].left) = "purge" /\ req'[r] = Idle
         /\ live' \subseteq live
         /\ \/ /\ unpurged' = unpurged \ {req[r].user}
               /\ live' = live \ {t \in live : Token(t).user = req[r].user
                                                /\ Token(t).kind = "session"}
               /\ \A q \in Requests \ {r} : req[q] # Idle /\ req[q].user = req[r].user =>
                    "password" \in req'[q].during
            \/ unpurged' = unpurged \cup {req[r].user} /\ UNCHANGED live
<1> DEFINE gone == {t \in live : Token(t).user = req[r].user /\ Token(t).kind = "session"}
           Saw(q) == NoteTaken(Note(q, req[r].user, "password"), gone)
<1>1. At(r, "purge") /\ req[r] \in InFlight /\ \A q \in Requests : req[q] \in Request
  BY AtFacts DEF RequestInv, Purge
<1>2. Step(req[r]) = Idle /\ Idle \in Request /\ Head(req[r].left) = "purge"
  BY <1>1, StageFacts DEF At, Request
<1>3. PICK applied \in BOOLEAN :
        IF applied
          THEN /\ live' = live \ gone
               /\ unpurged' = unpurged \ {req[r].user}
               /\ req' = [Others(r, LAMBDA q : NoteTaken(Note(q, req[r].user, "password"), gone))
                            EXCEPT ![r] = Step(@)]
          ELSE /\ unpurged' = unpurged \cup {req[r].user}
               /\ Advance(r)
               /\ UNCHANGED live
  BY DEF Purge
<1>4. CASE applied
  <2>1. \A q \in Requests :
          /\ Saw(req[q]) \in Request /\ Noticed(req[q], Saw(req[q]))
          /\ req[q] # Idle /\ req[q].user = req[r].user => "password" \in Saw(req[q]).during
    <3> SUFFICES ASSUME NEW q \in Requests
                 PROVE  /\ Saw(req[q]) \in Request /\ Noticed(req[q], Saw(req[q]))
                        /\ req[q] # Idle /\ req[q].user = req[r].user =>
                             "password" \in Saw(req[q]).during
      OBVIOUS
    <3> DEFINE p == Note(req[q], req[r].user, "password")
    <3>1. p \in Request /\ Noticed(req[q], p)
          /\ (req[q] # Idle /\ req[q].user = req[r].user => "password" \in p.during)
      BY <1>1, NoteFacts
    <3>2. NoteTaken(p, gone) \in Request /\ Noticed(p, NoteTaken(p, gone))
      <4>1. 0 \notin gone
        OBVIOUS
      <4> HIDE DEF p, gone
      <4>2. QED
        BY <3>1, <4>1, TakenFacts
    <3>3. Saw(req[q]) = NoteTaken(p, gone)
      OBVIOUS
    <3> HIDE DEF p, Saw, gone
    <3>4. QED
      BY <3>1, <3>2, <3>3 DEF Noticed
  <2>2. req' = [q \in Requests |-> IF q = r THEN Step(req[r]) ELSE Saw(req[q])]
    BY <1>3, <1>4 DEF Others
  <2>3. live' = live \ gone /\ unpurged' = unpurged \ {req[r].user}
    BY <1>3, <1>4
  <2> HIDE DEF Saw
  <2>4. req' \in [Requests -> Request]
    BY <1>2, <2>1, <2>2
  <2>5. req'[r] = Idle /\ \A q \in Requests \ {r} : req'[q] = Saw(req[q])
    BY <1>2, <2>2
  <2>6. Moves(r)
    BY <1>1, <2>1, <2>4, <2>5 DEF Moves
  <2>7. QED
    BY <1>2, <2>1, <2>3, <2>5, <2>6
<1>5. CASE ~applied
  BY <1>1, <1>2, <1>3, <1>5, AdvanceMoves DEF Advance, RequestInv
<1>6. QED
  BY <1>4, <1>5

\* r deletes its token, or the DELETE fails unnoticed.
Deletes(r) ==
  \/ /\ live' = live \ {req[r].token}
     /\ UNCHANGED undeleted
     /\ \A q \in Requests \ {r} : req[q].token = req[r].token => "taken" \in req'[q].during
  \/ undeleted' = undeleted \cup {req[r].token} /\ UNCHANGED live

LEMMA DeleteEffect ==
  ASSUME RequestInv, 0 \notin Tokens, NEW r \in Requests, Unlink(r) \/ SpendToken(r)
  PROVE  /\ Moves(r) /\ req'[r] = Step(req[r]) /\ Deletes(r)
         /\ req[r].token \in Tokens
         /\ Unlink(r) => Head(req[r].left) = "unlink"
         /\ SpendToken(r) => Head(req[r].left) = "spend"
<1> DEFINE t == req[r].token
<1>1. PICK statement \in {"unlink", "spend"} :
        /\ At(r, statement)
        /\ \E applied \in BOOLEAN :
             IF applied
               THEN /\ live' = live \ {t}
                    /\ req' = [Others(r, LAMBDA q : NoteTaken(q, {t})) EXCEPT ![r] = Step(@)]
                    /\ UNCHANGED undeleted
               ELSE /\ undeleted' = undeleted \cup {t}
                    /\ Advance(r)
                    /\ UNCHANGED live
  BY DEF Unlink, SpendToken
<1>2. req[r] \in InFlight /\ HoldsRightToken(req[r]) /\ Head(req[r].left) \in {"unlink", "spend"}
  BY <1>1, AtFacts
<1>3. t \in Tokens
  BY <1>2, StageFacts DEF HoldsRightToken
<1>4. /\ Unlink(r) => Head(req[r].left) = "unlink"
      /\ SpendToken(r) => Head(req[r].left) = "spend"
  BY DEF Unlink, SpendToken, At
<1>5. CASE /\ live' = live \ {t} /\ UNCHANGED undeleted
           /\ req' = [Others(r, LAMBDA q : NoteTaken(q, {t})) EXCEPT ![r] = Step(@)]
  <2>1. 0 \notin {t}
    BY <1>3
  <2> HIDE DEF t
  <2>2. /\ Moves(r) /\ req'[r] = Step(req[r])
        /\ \A q \in Requests \ {r} : req[q].token \in {t} => "taken" \in req'[q].during
    BY <1>1, <1>5, <2>1, TakingMoves
  <2>3. QED
    BY <1>3, <1>4, <1>5, <2>2 DEF Deletes, t
<1>6. CASE undeleted' = undeleted \cup {t} /\ Advance(r) /\ UNCHANGED live
  <2>1. Moves(r)
    BY <1>1, <1>6, AdvanceMoves
  <2>2. req'[r] = Step(req[r])
    BY <1>6 DEF Advance, RequestInv
  <2>3. QED
    BY <1>3, <1>4, <1>6, <2>1, <2>2 DEF Deletes
<1>7. QED
  BY <1>1, <1>5, <1>6

\* The statements that change no other request.
LEMMA AloneEffect ==
  ASSUME RequestInv, NEW r \in Requests,
         LoadUser(r) \/ MarkVerified(r) \/ CreateSession(r) \/ IssueToken(r)
  PROVE  /\ Moves(r)
         /\ LoadUser(r) => Head(req[r].left) = "load" /\ (req'[r] # Idle => active[req[r].user])
         /\ MarkVerified(r) => Head(req[r].left) = "mark"
         /\ CreateSession(r) => Head(req[r].left) = "create" /\ req'[r] = Idle
         /\ IssueToken(r) => Head(req[r].left) = "issue" /\ req'[r] = Idle
<1>1. CASE LoadUser(r)
  <2>1. At(r, "load") /\ ((Admits(req[r].user) /\ Advance(r)) \/ Abandon(r))
    BY <1>1 DEF LoadUser
  <2>2. QED
    BY <2>1, AdvanceMoves DEF LoadUser, MarkVerified, CreateSession, IssueToken, At, Admits
<1>2. CASE MarkVerified(r)
  <2>1. At(r, "mark") /\ (Advance(r) \/ Abandon(r))
    BY <1>2 DEF MarkVerified
  <2>2. QED
    BY <2>1, AdvanceMoves DEF LoadUser, MarkVerified, CreateSession, IssueToken, At
<1>3. CASE CreateSession(r)
  <2>1. At(r, "create") /\ Abandon(r)
    BY <1>3 DEF CreateSession
  <2>2. QED
    BY <2>1, AdvanceMoves DEF LoadUser, MarkVerified, CreateSession, IssueToken, At
<1>4. CASE IssueToken(r)
  <2>1. At(r, "issue") /\ Abandon(r)
    BY <1>4 DEF IssueToken
  <2>2. QED
    BY <2>1, AdvanceMoves DEF LoadUser, MarkVerified, CreateSession, IssueToken, At
<1>5. QED
  BY <1>1, <1>2, <1>3, <1>4

\* What the types say of a token that exists.
LEMMA TokenFacts ==
  ASSUME TypeOK, NEW t \in Tokens
  PROVE  /\ t \in Nat /\ t # 0 /\ t <= MaxTokens
         /\ Token(t) \in TokenType
         /\ Token(t).user \in Users /\ Token(t).basis \in 0..MaxChanges
<1>1. issued \in Seq(TokenType) /\ t \in 1..Len(issued) /\ Len(issued) <= MaxTokens
  BY DEF TypeOK, Tokens
<1>2. Token(t) \in TokenType
  BY <1>1 DEF Token
<1>3. QED
  BY <1>1, <1>2, SessionsAssumption DEF TokenType

LEMMA AdmitFacts ==
  ASSUME RequestInv, NEW r \in Requests, NEW op \in Operations, NEW u \in Users,
         NEW t \in Nat, NEW basis \in 0..MaxChanges, Admit(r, op, u, t, basis)
  PROVE  /\ req[r] = Idle /\ req' \in [Requests -> Request] /\ req'[r] \in InFlight
         /\ \A p \in Requests \ {r} : req'[p] = req[p]
         /\ req'[r].op = op /\ req'[r].left = Plan[op] /\ req'[r].during = {}
         /\ req'[r].user = u /\ req'[r].token = t /\ req'[r].basis = basis
         /\ Inserts(Plan[op]) => RowLeft
         /\ UNCHANGED <<accounts, tokens, history>>
<1>0. Plan[op] \in {<<"create">>, <<"load", "unlink", "create">>, <<"update", "purge">>,
                     <<"update", "spend", "purge">>, <<"mark", "spend">>, <<"issue">>}
  BY DEF Plan, Operations
<1> DEFINE q == [op |-> op, left |-> Plan[op], user |-> u, token |-> t,
                 basis |-> basis, during |-> {}]
<1>1. Plan[op] \in Seq(Statements)
  BY <1>0, ListTypes
<1>2. q \in RequestRecord
  BY <1>1 DEF RequestRecord
<1>3. Staged(q)
  BY DEF Staged, Plan, Operations
<1>4. q \in InFlight /\ q \in Request
  BY <1>2, <1>3 DEF InFlight, Request
<1>5. req' = [req EXCEPT ![r] = q] /\ req[r] = Idle
  BY DEF Admit
<1>6. req' \in [Requests -> Request] /\ req'[r] = q /\ \A p \in Requests \ {r} : req'[p] = req[p]
  BY <1>4, <1>5 DEF RequestInv
<1>7. QED
  BY <1>4, <1>5, <1>6 DEF Admit

LEMMA BeginAdmits ==
  ASSUME RequestInv, TypeOK, NEW r \in Requests, Begin(r)
  PROVE  Admitted(r)
<1> USE DEF Admitted
<1>0. /\ \A u \in Users : password[u] \in 0..MaxChanges
      /\ known \subseteq Tokens /\ 0 \in 0..MaxChanges /\ 0 \in Nat
      /\ {"login", "refresh", "change", "reset", "verify", "request_reset", "resend"}
           \subseteq Operations
  BY SessionsAssumption DEF TypeOK, Operations, Plan
<1>1. ASSUME NEW u \in Users, BeginLogin(r, u) PROVE Admitted(r)
  BY <1>0, <1>1, AdmitFacts DEF BeginLogin, Admits, HoldsRightToken
<1>2. ASSUME NEW u \in Users, BeginChangePassword(r, u) PROVE Admitted(r)
  BY <1>0, <1>2, AdmitFacts DEF BeginChangePassword, HoldsRightToken
<1>3. ASSUME NEW u \in Users, BeginRequestReset(r, u) PROVE Admitted(r)
  BY <1>0, <1>3, AdmitFacts DEF BeginRequestReset, HoldsRightToken
<1>4. ASSUME NEW u \in Users, BeginResendVerification(r, u) PROVE Admitted(r)
  BY <1>0, <1>4, AdmitFacts DEF BeginResendVerification, HoldsRightToken
<1>5. ASSUME NEW t \in known, BeginRefresh(r, t) PROVE Admitted(r)
  BY <1>0, <1>5, AdmitFacts, TokenFacts DEF BeginRefresh, HoldsRightToken
<1>6. ASSUME NEW t \in known, BeginResetPassword(r, t) PROVE Admitted(r)
  BY <1>0, <1>6, AdmitFacts, TokenFacts DEF BeginResetPassword, Found, HoldsRightToken
<1>7. ASSUME NEW t \in known, BeginVerifyEmail(r, t) PROVE Admitted(r)
  BY <1>0, <1>7, AdmitFacts, TokenFacts DEF BeginVerifyEmail, Found, HoldsRightToken
<1>8. QED
  BY <1>1, <1>2, <1>3, <1>4, <1>5, <1>6, <1>7 DEF Begin

-----------------------------------------------------------------------------
(* Type correctness. The two tables have room for what the requests in     *)
(* flight will still insert, and the passwords for what they will change.  *)

Inserting == {r \in Requests : Inserts(req[r].left)}
Updating  == {r \in Requests : req[r].left # <<>> /\ Head(req[r].left) = "update"}

RoomInv    == Len(issued) + Cardinality(Inserting) <= MaxTokens
ChangesInv == \A u \in Users : password[u] + Cardinality(Updating) <= changes

TableOK ==
  /\ password \in [Users -> Nat] /\ changes \in 0..MaxChanges
  /\ active \in [Users -> BOOLEAN] /\ verified \in [Users -> BOOLEAN]
  /\ issued \in Seq(TokenType)
  /\ live \subseteq Tokens /\ known \subseteq Tokens
  /\ undeleted \subseteq Tokens /\ spent \subseteq Tokens
  /\ respent \subseteq spent
  /\ unpurged \subseteq Users

TypeInv == TableOK /\ RequestInv /\ RoomInv /\ ChangesInv

LEMMA CountFacts ==
  /\ \A S \in SUBSET Requests : IsFiniteSet(S) /\ Cardinality(S) \in Nat
  /\ \A T \in SUBSET Requests : \A S \in SUBSET T : Cardinality(S) <= Cardinality(T)
  /\ \A S \in SUBSET Requests : \A r \in S : Cardinality(S \ {r}) = Cardinality(S) - 1
  /\ \A S \in SUBSET Requests : \A r \in Requests : Cardinality(S \cup {r}) <= Cardinality(S) + 1
<1>1. \A S \in SUBSET Requests : IsFiniteSet(S) /\ Cardinality(S) \in Nat
  BY SessionsAssumption, FS_Subset, FS_CardinalityType
<1>2. \A T \in SUBSET Requests : \A S \in SUBSET T : Cardinality(S) <= Cardinality(T)
  BY <1>1, FS_Subset
<1>3. \A S \in SUBSET Requests : \A r \in S : Cardinality(S \ {r}) = Cardinality(S) - 1
  BY <1>1, FS_RemoveElement
<1>4. \A S \in SUBSET Requests : \A r \in Requests : Cardinality(S \cup {r}) <= Cardinality(S) + 1
  <2> SUFFICES ASSUME NEW S \in SUBSET Requests, NEW r \in Requests
               PROVE  Cardinality(S \cup {r}) <= Cardinality(S) + 1
    OBVIOUS
  <2>1. Cardinality(S \cup {r}) = IF r \in S THEN Cardinality(S) ELSE Cardinality(S) + 1
    BY <1>1, FS_AddElement
  <2>2. QED
    BY <1>1, <2>1
<1>5. QED
  BY <1>1, <1>2, <1>3, <1>4

LEMMA TypeInvGivesTypeOK == TypeInv => TypeOK
<1> SUFFICES ASSUME TypeInv PROVE TypeOK
  OBVIOUS
<1> USE DEF TypeInv
<1>1. Len(issued) \in Nat /\ Inserting \in SUBSET Requests /\ Updating \in SUBSET Requests
  BY DEF TableOK, Inserting, Updating
<1>2. Cardinality(Inserting) \in Nat /\ Cardinality(Updating) \in Nat
  BY <1>1, CountFacts
<1>3. Len(issued) <= MaxTokens
  BY <1>1, <1>2, SessionsAssumption DEF RoomInv
<1>4. \A u \in Users : password[u] \in 0..MaxChanges
  BY <1>2, SessionsAssumption DEF ChangesInv, TableOK
<1>5. password \in [Users -> 0..MaxChanges]
  BY <1>4 DEF TableOK
<1>6. \A r \in Requests : req[r] # Idle =>
        /\ req[r].user \in Users /\ req[r].basis \in 0..MaxChanges
        /\ req[r].left # <<>>
        /\ HoldsRightToken(req[r])
  BY StageFacts DEF RequestInv, Request, InFlight, RequestRecord
<1>7. QED
  BY <1>3, <1>5, <1>6 DEF TypeOK, TableOK

\* The tables of tokens only grow.
Keeps == \A t \in Tokens : t \in Tokens' /\ Token(t)' = Token(t)

LEMMA MovesKeepRequests ==
  ASSUME RequestInv, NEW r \in Requests, Moves(r), Keeps
  PROVE  RequestInv'
<1>1. req' \in [Requests -> Request]
  BY DEF Moves
<1>2. ASSUME NEW q \in Requests, req'[q] # Idle
      PROVE  /\ req[q] # Idle /\ req'[q].op = req[q].op
             /\ req'[q].token = req[q].token /\ req'[q].user = req[q].user
  <2>1. CASE q = r
    BY <1>2, <2>1, StepType, IdleFacts DEF Moves
  <2>2. CASE q # r
    <3>1. Noticed(req[q], req'[q]) /\ req'[q] \in InFlight
      BY <1>1, <1>2, <2>2 DEF Moves, Request
    <3>2. req'[q].op # "none"
      BY <3>1, StageFacts
    <3>3. QED
      BY <3>1, <3>2, IdleFacts DEF Noticed
  <2>3. QED
    BY <2>1, <2>2
<1>3. ASSUME NEW q \in Requests, req'[q] # Idle
      PROVE  HoldsRightToken(req[q])'
  <2>1. HoldsRightToken(req[q])
    BY <1>2, <1>3 DEF RequestInv
  <2>2. QED
    BY <1>2, <1>3, <2>1 DEF HoldsRightToken, Keeps
<1>4. QED
  BY <1>1, <1>3 DEF RequestInv

LEMMA NoticedKeepRequests ==
  ASSUME RequestInv, req' \in [Requests -> Request], Keeps,
         \A q \in Requests : Noticed(req[q], req'[q])
  PROVE  RequestInv'
<1>1. ASSUME NEW q \in Requests, req'[q] # Idle
      PROVE  HoldsRightToken(req[q])'
  <2>1. Noticed(req[q], req'[q]) /\ req'[q] \in InFlight
    BY <1>1 DEF Request
  <2>2. req[q] # Idle
    BY <2>1, StageFacts, IdleFacts DEF Noticed
  <2>3. HoldsRightToken(req[q])
    BY <2>2 DEF RequestInv
  <2>4. QED
    BY <2>1, <2>3 DEF HoldsRightToken, Keeps, Noticed
<1>2. QED
  BY <1>1 DEF RequestInv

\* No statement makes more of the requests insert or change a password.
LEMMA MovesCounts ==
  ASSUME RequestInv, NEW r \in Requests, Moves(r)
  PROVE  /\ Inserting' \subseteq Inserting /\ Updating' \subseteq Updating
         /\ r \notin Updating'
         /\ req'[r] = Idle => r \notin Inserting'
         /\ Head(req[r].left) = "update" => r \in Updating
         /\ Head(req[r].left) \in {"create", "issue"} => r \in Inserting
<1>1. \A q \in Requests \ {r} : req'[q].left = req[q].left
  BY DEF Moves, Noticed
<1>2. req[r] \in InFlight
  BY DEF Moves
<1>3. req'[r] = Idle \/ (req'[r] \in InFlight /\ req'[r].op = req[r].op)
  BY <1>2, StepType DEF Moves, Request
<1>4. Inserts(req'[r].left) => Inserts(req[r].left)
  BY <1>2, <1>3, StageFacts, IdleFacts
<1>5. req'[r].left = <<>> \/ Head(req'[r].left) # "update"
  <2>1. CASE req'[r] = Idle
    BY <2>1, IdleFacts
  <2>2. CASE req'[r] # Idle
    <3>1. req'[r] = Step(req[r])
      BY <2>2 DEF Moves
    <3>2. req'[r].left \in {<<"unlink", "create">>, <<"create">>, <<"spend", "purge">>,
                            <<"purge">>, <<"spend">>}
      BY <1>2, <2>2, <3>1, StepType
    <3>3. QED
      BY <3>2, ListFacts
  <2>3. QED
    BY <2>1, <2>2
<1>6. req[r].left # <<>> /\ (Head(req[r].left) \in {"create", "issue"} => Inserts(req[r].left))
  BY <1>2, StageFacts
<1>7. QED
  BY <1>1, <1>4, <1>5, <1>6, IdleFacts DEF Inserting, Updating

LEMMA NoticedCounts ==
  ASSUME \A q \in Requests : Noticed(req[q], req'[q])
  PROVE  Inserting' = Inserting /\ Updating' = Updating
BY DEF Noticed, Inserting, Updating

LEMMA KeepsSame == UNCHANGED issued => Keeps /\ Tokens' = Tokens
BY DEF Keeps, Token, Tokens

LEMMA KeepsMore ==
  ASSUME TableOK, NEW m \in TokenType, issued' = Append(issued, m)
  PROVE  /\ issued' \in Seq(TokenType) /\ Len(issued') = Len(issued) + 1
         /\ Keeps /\ Tokens' = Tokens \cup {Len(issued) + 1}
         /\ Len(issued) + 1 \notin Tokens /\ issued'[Len(issued) + 1] = m
<1>1. issued \in Seq(TokenType)
  BY DEF TableOK
<1>2. /\ issued' \in Seq(TokenType) /\ Len(issued') = Len(issued) + 1 /\ Len(issued) \in Nat
      /\ Tokens = 1..Len(issued) /\ Tokens' = 1..(Len(issued) + 1)
      /\ issued'[Len(issued) + 1] = m
      /\ \A t \in 1..Len(issued) : issued'[t] = issued[t]
  BY <1>1 DEF Tokens
<1>3. QED
  BY <1>2 DEF Keeps, Token

\* The numbers of requests about to insert or to change a password.
LEMMA CountTypes ==
  /\ Inserting \in SUBSET Requests /\ Updating \in SUBSET Requests
  /\ Cardinality(Inserting) \in Nat /\ Cardinality(Updating) \in Nat
  /\ Inserting' \in SUBSET Requests /\ Updating' \in SUBSET Requests
  /\ Cardinality(Inserting)' \in Nat /\ Cardinality(Updating)' \in Nat
<1>1. /\ Inserting \in SUBSET Requests /\ Updating \in SUBSET Requests
      /\ Inserting' \in SUBSET Requests /\ Updating' \in SUBSET Requests
  BY DEF Inserting, Updating
<1>2. QED
  BY <1>1, CountFacts

\* Steps that neither insert a token nor change a password.
LEMMA CountsKept ==
  ASSUME TypeInv, Inserting' \subseteq Inserting, Updating' \subseteq Updating,
         UNCHANGED <<issued, password, changes>>
  PROVE  RoomInv' /\ ChangesInv'
<1>1. /\ Cardinality(Inserting)' <= Cardinality(Inserting)
      /\ Cardinality(Updating)' <= Cardinality(Updating)
  BY CountTypes, CountFacts
<1>2. Len(issued) \in Nat /\ \A u \in Users : password[u] \in Nat /\ changes \in Nat
  BY SessionsAssumption DEF TypeInv, TableOK
<1>3. QED
  BY <1>1, <1>2, CountTypes, SessionsAssumption DEF TypeInv, RoomInv, ChangesInv

LEMMA BeginTypes ==
  ASSUME TypeInv, NEW r \in Requests, Admitted(r)
  PROVE  TypeInv'
<1>0. TypeOK /\ TableOK /\ RequestInv /\ Keeps /\ Tokens' = Tokens
  BY TypeInvGivesTypeOK, KeepsSame DEF TypeInv, Admitted, tokens
<1>1. TableOK'
  BY <1>0, SessionsAssumption DEF TableOK, Admitted, accounts, tokens, history
<1>2. RequestInv'
  <2>1. ASSUME NEW q \in Requests, req'[q] # Idle PROVE HoldsRightToken(req[q])'
    <3>1. HoldsRightToken(req'[q])
      BY <2>1, <1>0 DEF Admitted, RequestInv
    <3>2. QED
      BY <1>0, <3>1 DEF HoldsRightToken, Keeps
  <2>2. QED
    BY <2>1 DEF RequestInv, Admitted
<1> DEFINE q == req'[r]
<1>3. q \in InFlight /\ q.left = Plan[q.op] /\ req[r] = Idle
      /\ \A p \in Requests \ {r} : req'[p].left = req[p].left
  BY DEF Admitted
<1>4. RoomInv'
  <2>1. Len(issued) \in Nat /\ issued' = issued
    BY <1>0 DEF TableOK, Admitted, tokens
  <2>2. CASE Inserts(q.left)
    <3>1. Len(issued) + Cardinality(Inserting) < MaxTokens
      BY <2>2 DEF Admitted, RowLeft, Inserting
    <3>2. Inserting' \subseteq Inserting \cup {r}
      BY <1>3 DEF Inserting
    <3>3. Cardinality(Inserting)' <= Cardinality(Inserting) + 1
      <4>1. Inserting \cup {r} \in SUBSET Requests
        BY CountTypes
      <4>2. Cardinality(Inserting)' <= Cardinality(Inserting \cup {r})
        BY <3>2, <4>1, CountFacts
      <4>3. Cardinality(Inserting \cup {r}) <= Cardinality(Inserting) + 1
        BY CountTypes, CountFacts
      <4>4. QED
        BY <4>1, <4>2, <4>3, CountTypes, CountFacts
    <3>4. QED
      BY <2>1, <3>1, <3>3, CountTypes, SessionsAssumption DEF RoomInv
  <2>3. CASE ~Inserts(q.left)
    <3>1. Inserting' \subseteq Inserting
      BY <1>3, <2>3 DEF Inserting
    <3>2. Cardinality(Inserting)' <= Cardinality(Inserting)
      BY <3>1, CountTypes, CountFacts
    <3>3. QED
      BY <2>1, <3>2, CountTypes, SessionsAssumption DEF RoomInv, TypeInv
  <2>4. QED
    BY <2>2, <2>3
<1>5. ChangesInv'
  <2>1. password' = password /\ changes \in Nat /\ \A u \in Users : password[u] \in Nat
    BY <1>0, SessionsAssumption DEF TableOK, Admitted, accounts
  <2>2. CASE q.op \in {"change", "reset"}
    <3>1. changes' = changes + 1
      BY <2>2 DEF Admitted
    <3>2. Updating' \subseteq Updating \cup {r}
      BY <1>3 DEF Updating
    <3>3. Cardinality(Updating)' <= Cardinality(Updating) + 1
      <4>1. Updating \cup {r} \in SUBSET Requests
        BY CountTypes
      <4>2. Cardinality(Updating)' <= Cardinality(Updating \cup {r})
        BY <3>2, <4>1, CountFacts
      <4>3. Cardinality(Updating \cup {r}) <= Cardinality(Updating) + 1
        BY CountTypes, CountFacts
      <4>4. QED
        BY <4>1, <4>2, <4>3, CountTypes, CountFacts
    <3>4. QED
      BY <2>1, <3>1, <3>3, CountTypes DEF ChangesInv, TypeInv
  <2>3. CASE q.op \notin {"change", "reset"}
    <3>1. changes' = changes
      BY <2>3 DEF Admitted
    <3>2. Head(q.left) # "update"
      <4>1. q.op \in {"login", "refresh", "verify", "request_reset", "resend"}
        BY <1>3, <2>3 DEF InFlight, Staged
      <4>2. QED
        BY <1>3, <4>1, ListFacts DEF Plan
    <3>3. Updating' \subseteq Updating
      BY <1>3, <3>2 DEF Updating
    <3>4. Cardinality(Updating)' <= Cardinality(Updating)
      BY <3>3, CountTypes, CountFacts
    <3>5. QED
      BY <2>1, <3>1, <3>4, CountTypes DEF ChangesInv, TypeInv
  <2>4. QED
    BY <2>2, <2>3
<1>6. QED
  BY <1>1, <1>2, <1>4, <1>5 DEF TypeInv

\* What CreateSession and IssueToken insert is a token.
LEMMA MintedType ==
  ASSUME TypeInv, NEW r \in Requests, req[r] \in InFlight, NEW kind \in Kinds
  PROVE  Minted(r, kind) \in TokenType
<1>1. /\ req[r].user \in Users /\ req[r].basis \in 0..MaxChanges
      /\ req[r].during \subseteq {"password", "deactivated", "taken"}
      /\ HoldsRightToken(req[r])
  BY IdleFacts DEF TypeInv, RequestInv, InFlight, RequestRecord
<1>2. req[r].token \in Tokens \/ req[r].token = 0
  BY <1>1 DEF HoldsRightToken
<1>3. req[r].token \in 0..MaxTokens
  BY <1>2, TokenFacts, TypeInvGivesTypeOK, SessionsAssumption
<1>4. req[r].token # 0 => Token(req[r].token).during \subseteq {"password", "deactivated"}
  BY <1>2, TokenFacts, TypeInvGivesTypeOK DEF TokenType
<1>5. (req[r].during \ {"taken"}) \cup
        (IF req[r].token = 0 THEN {} ELSE Token(req[r].token).during \ {"deactivated"})
          \in SUBSET {"password", "deactivated"}
  BY <1>1, <1>4
<1>6. (~active[req[r].user]) \in BOOLEAN
  OBVIOUS
<1>7. QED
  BY <1>1, <1>3, <1>5, <1>6 DEF Minted, TokenType

\* CreateSession and IssueToken insert at most one token, for a request that
\* was counted.
LEMMA InsertTypes ==
  ASSUME TypeInv, NEW r \in Requests, NEW kind \in Kinds, NEW ok \in BOOLEAN,
         req[r] \in InFlight, Head(req[r].left) \in {"create", "issue"},
         Moves(r), req'[r] = Idle,
         Insert(r, kind, ok) \/ UNCHANGED tokens,
         UNCHANGED <<accounts, changes, unpurged, undeleted>>,
         spent' \subseteq spent \cup {req[r].token}, respent' \subseteq spent',
         spent \subseteq spent', spent' # spent => req[r].token \in Tokens
  PROVE  TypeInv' /\ Keeps
<1>0. TableOK /\ RequestInv /\ issued \in Seq(TokenType) /\ Len(issued) \in Nat
  BY DEF TypeInv, TableOK
<1>1. /\ Inserting' \subseteq Inserting \ {r} /\ Updating' \subseteq Updating /\ r \in Inserting
  BY <1>0, MovesCounts
<1>2. CASE UNCHANGED tokens
  <2>1. Keeps /\ Tokens' = Tokens
    BY <1>2, KeepsSame DEF tokens
  <2>2. TableOK'
    BY <1>0, <1>2, <2>1 DEF TableOK, accounts, tokens
  <2>3. RequestInv'
    BY <1>0, <2>1, MovesKeepRequests
  <2>4. RoomInv' /\ ChangesInv'
    BY <1>1, <1>2, CountsKept DEF accounts, tokens
  <2>5. QED
    BY <2>1, <2>2, <2>3, <2>4 DEF TypeInv
<1>3. CASE Insert(r, kind, ok)
  <2>1. Minted(r, kind) \in TokenType
    BY MintedType
  <2>2. issued' = Append(issued, Minted(r, kind))
    BY <1>3 DEF Insert
  <2>3. /\ issued' \in Seq(TokenType) /\ Len(issued') = Len(issued) + 1
        /\ Keeps /\ Tokens' = Tokens \cup {Len(issued) + 1}
    BY <1>0, <2>1, <2>2, KeepsMore
  <2>4. TableOK'
    BY <1>0, <1>3, <2>3 DEF TableOK, accounts, Insert
  <2>5. RequestInv'
    BY <1>0, <2>3, MovesKeepRequests
  <2>6. Cardinality(Inserting)' <= Cardinality(Inserting) - 1
    <3>1. Inserting \ {r} \in SUBSET Requests
      BY CountTypes
    <3>2. Cardinality(Inserting)' <= Cardinality(Inserting \ {r})
      BY <1>1, <3>1, CountFacts
    <3>3. QED
      BY <1>1, <3>1, <3>2, CountTypes, CountFacts
  <2>7. RoomInv'
    BY <1>0, <2>3, <2>6, CountTypes, SessionsAssumption DEF TypeInv, RoomInv
  <2>8. ChangesInv'
    <3>1. Cardinality(Updating)' <= Cardinality(Updating)
      BY <1>1, CountTypes, CountFacts
    <3>2. UNCHANGED <<password, changes>> /\ changes \in Nat /\ \A u \in Users : password[u] \in Nat
      BY <1>0, SessionsAssumption DEF accounts, TableOK
    <3>3. QED
      BY <3>1, <3>2, CountTypes DEF TypeInv, ChangesInv
  <2>9. QED
    BY <2>3, <2>4, <2>5, <2>7, <2>8 DEF TypeInv
<1>4. QED
  BY <1>2, <1>3

\* A request that goes on its own way spends its token at most.
LEMMA SpendFacts ==
  ASSUME TypeInv, NEW r \in Requests, Spend(r) \/ UNCHANGED <<spent, respent>>,
         req[r].token \in Tokens
  PROVE  /\ spent \subseteq spent' /\ spent' \subseteq spent \cup {req[r].token}
         /\ respent' \subseteq spent'
BY DEF Spend, TypeInv, TableOK

LEMMA CreateTypes ==
  ASSUME TypeInv, NEW r \in Requests, CreateSession(r)
  PROVE  TypeInv' /\ Keeps
<1>0. RequestInv /\ At(r, "create")
  BY DEF TypeInv, CreateSession
<1>1. Moves(r) /\ req'[r] = Idle /\ req[r] \in InFlight /\ Head(req[r].left) = "create"
  BY <1>0, AloneEffect, AtFacts
<1>2. PICK applied \in BOOLEAN, ok \in BOOLEAN :
       /\ IF applied THEN Insert(r, "session", ok) ELSE UNCHANGED tokens
       /\ IF applied /\ req[r].op = "refresh"
            THEN Spend(r) ELSE UNCHANGED <<spent, respent>>
  BY DEF CreateSession
<1>3. /\ spent \subseteq spent' /\ spent' \subseteq spent \cup {req[r].token}
      /\ respent' \subseteq spent' /\ (spent' # spent => req[r].token \in Tokens)
  <2>1. CASE UNCHANGED <<spent, respent>>
    BY <2>1 DEF TypeInv, TableOK
  <2>2. CASE req[r].op = "refresh" /\ Spend(r)
    <3>1. req[r].token \in Tokens
      BY <1>0, <2>2, AtFacts DEF HoldsRightToken
    <3>2. QED
      BY <2>2, <3>1, SpendFacts
  <2>3. QED
    BY <1>2, <2>1, <2>2
<1>4. Insert(r, "session", ok) \/ UNCHANGED tokens
  BY <1>2
<1>5. UNCHANGED <<accounts, changes, unpurged, undeleted>> /\ "session" \in Kinds
  BY DEF CreateSession, Kinds
<1>6. QED
  BY <1>1, <1>3, <1>4, <1>5, InsertTypes

LEMMA IssueTypes ==
  ASSUME TypeInv, NEW r \in Requests, IssueToken(r)
  PROVE  TypeInv' /\ Keeps
<1>0. RequestInv /\ At(r, "issue")
  BY DEF TypeInv, IssueToken
<1>1. Moves(r) /\ req'[r] = Idle /\ req[r] \in InFlight /\ Head(req[r].left) = "issue"
  BY <1>0, AloneEffect, AtFacts
<1>2. PICK kind \in Kinds, ok \in BOOLEAN : Insert(r, kind, ok) \/ UNCHANGED tokens
  BY DEF IssueToken, Kinds
<1>3. UNCHANGED <<accounts, changes, history>>
  BY DEF IssueToken
<1>4. respent \subseteq spent
  BY DEF TypeInv, TableOK
<1>5. QED
  BY <1>1, <1>2, <1>3, <1>4, InsertTypes DEF history

\* Statements that insert nothing and change no password.
LEMMA PlainTypes ==
  ASSUME TypeInv, NEW r \in Requests,
         LoadUser(r) \/ MarkVerified(r) \/ Unlink(r) \/ SpendToken(r) \/ Purge(r)
  PROVE  TypeInv' /\ Keeps
<1>0. TableOK /\ RequestInv /\ 0 \notin Tokens /\ 0 \notin live
  BY TokenFacts, TypeInvGivesTypeOK DEF TypeInv, TableOK
<1>1. Moves(r) /\ UNCHANGED <<password, active, issued, known, changes>>
  BY <1>0, AloneEffect, DeleteEffect, PurgeEffect
     DEF LoadUser, MarkVerified, Unlink, SpendToken, Purge, accounts, tokens
<1>2. Keeps /\ Tokens' = Tokens
  BY <1>1, KeepsSame
<1>3. RequestInv'
  BY <1>0, <1>1, <1>2, MovesKeepRequests
<1>4. RoomInv' /\ ChangesInv'
  BY <1>0, <1>1, MovesCounts, CountsKept
<1>5. req[r] \in InFlight /\ req[r].user \in Users
  BY <1>1 DEF Moves, InFlight, RequestRecord
<1>6. TableOK'
  <2>1. CASE LoadUser(r)
    BY <1>0, <1>2, <2>1 DEF LoadUser, TableOK, accounts, tokens, history
  <2>2. CASE MarkVerified(r)
    BY <1>0, <1>2, <1>5, <2>2 DEF MarkVerified, TableOK, tokens, history
  <2>3. CASE Unlink(r)
    BY <1>0, <1>2, <2>3, DeleteEffect DEF Deletes, Unlink, TableOK, accounts
  <2>4. CASE SpendToken(r)
    <3>1. req[r].token \in Tokens /\ Deletes(r)
      BY <1>0, <2>4, DeleteEffect
    <3>2. Spend(r) \/ UNCHANGED <<spent, respent>>
      BY <2>4 DEF SpendToken
    <3>3. QED
      BY <1>0, <1>2, <2>4, <3>1, <3>2, SpendFacts DEF Deletes, SpendToken, TableOK, accounts
  <2>5. CASE Purge(r)
    <3>1. /\ live' \subseteq live
          /\ unpurged' \in {unpurged \ {req[r].user}, unpurged \cup {req[r].user}}
      BY <1>0, <2>5, PurgeEffect
    <3>2. spent' \subseteq Tokens /\ respent' \subseteq spent'
      <4>1. CASE UNCHANGED <<spent, respent>>
        BY <1>0, <4>1 DEF TableOK
      <4>2. CASE req[r].op = "reset" /\ Spend(r)
        <5>1. HoldsRightToken(req[r])
          BY <1>5, IdleFacts DEF TypeInv, RequestInv
        <5>2. req[r].token \in Tokens
          BY <4>2, <5>1 DEF HoldsRightToken
        <5>3. QED
          BY <1>0, <4>2, <5>2, SpendFacts DEF TableOK
      <4>3. QED
        BY <2>5, <4>1, <4>2 DEF Purge
    <3>3. QED
      BY <1>0, <1>2, <1>5, <2>5, <3>1, <3>2 DEF Purge, TableOK, accounts
  <2>6. QED
    BY <2>1, <2>2, <2>3, <2>4, <2>5
<1>7. QED
  BY <1>2, <1>3, <1>4, <1>6 DEF TypeInv

LEMMA UpdateTypes ==
  ASSUME TypeInv, NEW r \in Requests, UpdatePassword(r)
  PROVE  TypeInv' /\ Keeps
<1>0. TableOK /\ RequestInv
  BY DEF TypeInv
<1>1. /\ Moves(r) /\ Head(req[r].left) = "update"
      /\ UNCHANGED <<active, verified, tokens, changes, undeleted, spent, respent>>
  BY <1>0, UpdateEffect DEF UpdatePassword
<1>2. Keeps /\ Tokens' = Tokens
  BY <1>1, KeepsSame DEF tokens
<1>3. RequestInv'
  BY <1>0, <1>1, <1>2, MovesKeepRequests
<1>4. req[r].user \in Users
  BY <1>1 DEF Moves, InFlight, RequestRecord
<1>5. /\ password' \in {password, [password EXCEPT ![req[r].user] = @ + 1]}
      /\ unpurged' \subseteq unpurged \cup {req[r].user}
  BY <1>0, UpdateEffect
<1>6. TableOK'
  BY <1>0, <1>1, <1>2, <1>4, <1>5 DEF TableOK, tokens
<1>7. Inserting' \subseteq Inserting /\ Updating' \subseteq Updating \ {r} /\ r \in Updating
  BY <1>0, <1>1, MovesCounts
<1>8. RoomInv'
  <2>1. Cardinality(Inserting)' <= Cardinality(Inserting)
    BY <1>7, CountTypes, CountFacts
  <2>2. issued' = issued /\ Len(issued) \in Nat
    BY <1>0, <1>1 DEF tokens, TableOK
  <2>3. QED
    BY <2>1, <2>2, CountTypes, SessionsAssumption DEF TypeInv, RoomInv
<1>9. ChangesInv'
  <2>1. Cardinality(Updating)' <= Cardinality(Updating) - 1
    <3>1. Updating \ {r} \in SUBSET Requests
      BY CountTypes
    <3>2. Cardinality(Updating)' <= Cardinality(Updating \ {r})
      BY <1>7, <3>1, CountFacts
    <3>3. QED
      BY <1>7, <3>1, <3>2, CountTypes, CountFacts
  <2>2. \A u \in Users : password[u] \in Nat /\ password'[u] \in Nat /\ password'[u] <= password[u] + 1
    BY <1>0, <1>5 DEF TableOK
  <2>3. changes' = changes /\ changes \in Nat
    BY <1>0, <1>1, SessionsAssumption DEF TableOK
  <2>4. QED
    BY <2>1, <2>2, <2>3, CountTypes DEF TypeInv, ChangesInv
<1>10. QED
  BY <1>2, <1>3, <1>6, <1>8, <1>9 DEF TypeInv

\* What everybody else does: tokens end, accounts are switched, requests notice.
Environs ==
  /\ UNCHANGED <<password, verified, issued, known, changes, history>>
  /\ live' \subseteq live
  /\ active' \in [Users -> BOOLEAN]
  /\ req' \in [Requests -> Request]
  /\ \A q \in Requests : Noticed(req[q], req'[q])
  /\ \A q \in Requests : req[q] # Idle /\ active[req[q].user] =>
       active'[req[q].user] \/ "deactivated" \in req'[q].during

LEMMA EnvironsEffect ==
  ASSUME TypeInv,
         \/ \E t \in known : Logout(t)
         \/ \E t \in live : Expire(t)
         \/ \E u \in Users : Deactivate(u) \/ Reactivate(u)
         \/ UNCHANGED vars
  PROVE  Environs
<1>0. TableOK /\ req \in [Requests -> Request] /\ 0 \notin Tokens
  BY TokenFacts, TypeInvGivesTypeOK DEF TypeInv, RequestInv
<1>1. CASE UNCHANGED vars \/ \E t \in live : Expire(t)
  BY <1>0, <1>1, SameIsNoticed DEF vars, Expire, Environs, accounts, tokens, history, TableOK
<1>2. CASE \E u \in Users : Reactivate(u)
  <2>1. PICK u \in Users : Reactivate(u)
    BY <1>2
  <2>2. active' = [active EXCEPT ![u] = TRUE] /\ active' \in [Users -> BOOLEAN]
    BY <1>0, <2>1 DEF Reactivate, TableOK
  <2>3. \A q \in Requests : req[q] # Idle => req[q].user \in Users
    BY <1>0 DEF Request, InFlight, RequestRecord
  <2>4. QED
    BY <1>0, <2>1, <2>2, <2>3, SameIsNoticed DEF Environs, Reactivate, tokens, TableOK
<1>3. CASE \E t \in known : Logout(t)
  <2>1. PICK t \in known : Logout(t)
    BY <1>3
  <2>2. 0 \notin {t}
    BY <1>0, <2>1 DEF TableOK
  <2>3. \A q \in Requests : NoteTaken(req[q], {t}) \in Request
                            /\ Noticed(req[q], NoteTaken(req[q], {t}))
    BY <1>0, <2>2, TakenFacts
  <2>4. req' = [q \in Requests |-> NoteTaken(req[q], {t})]
    BY <2>1 DEF Logout
  <2>5. QED
    BY <1>0, <2>1, <2>3, <2>4 DEF Environs, Logout, accounts, TableOK
<1>4. CASE \E u \in Users : Deactivate(u)
  <2>1. PICK u \in Users : Deactivate(u)
    BY <1>4
  <2>2. active' = [active EXCEPT ![u] = FALSE] /\ active' \in [Users -> BOOLEAN]
    BY <1>0, <2>1 DEF Deactivate, TableOK
  <2>3. \A q \in Requests :
          /\ Note(req[q], u, "deactivated") \in Request
          /\ Noticed(req[q], Note(req[q], u, "deactivated"))
          /\ req[q] # Idle /\ req[q].user = u => "deactivated" \in Note(req[q], u, "deactivated").during
    BY <1>0, NoteFacts
  <2>4. req' = [q \in Requests |-> Note(req[q], u, "deactivated")]
    BY <2>1 DEF Deactivate
  <2>5. \A q \in Requests : req[q] # Idle => req[q].user \in Users
    BY <1>0 DEF Request, InFlight, RequestRecord
  <2>6. \A q \in Requests : req[q] # Idle /\ active[req[q].user] =>
          active'[req[q].user] \/ "deactivated" \in req'[q].during
    BY <1>0, <2>2, <2>3, <2>4, <2>5 DEF TableOK
  <2>7. QED
    BY <1>0, <2>1, <2>2, <2>3, <2>4, <2>6 DEF Environs, Deactivate, tokens, TableOK
<1>5. QED
  BY <1>1, <1>2, <1>3, <1>4

LEMMA EnvironsTypes ==
  ASSUME TypeInv, Environs
  PROVE  TypeInv' /\ Keeps
<1>1. Keeps /\ Tokens' = Tokens
  BY KeepsSame DEF Environs
<1>2. TableOK'
  BY <1>1 DEF Environs, TypeInv, TableOK, history
<1>3. RequestInv'
  BY <1>1, NoticedKeepRequests DEF Environs, TypeInv
<1>4. RoomInv' /\ ChangesInv'
  BY NoticedCounts, CountsKept DEF Environs
<1>5. QED
  BY <1>1, <1>2, <1>3, <1>4 DEF TypeInv

\* A step admits a request, continues one, or is somebody else's.
LEMMA StepCases ==
  ASSUME TypeInv, [Next]_vars
  PROVE  Environs \/ \E r \in Requests : Admitted(r) \/ Continue(r)
BY EnvironsEffect, BeginAdmits, TypeInvGivesTypeOK DEF Next, AtRest, TypeInv

LEMMA TypeInit == Init => TypeInv
<1> SUFFICES ASSUME Init PROVE TypeInv
  OBVIOUS
<1> USE DEF Init
<1>1. issued \in Seq(TokenType) /\ Len(issued) = 0 /\ Tokens = {}
  BY DEF Tokens
<1>2. TableOK
  BY <1>1, SessionsAssumption DEF TableOK
<1>3. RequestInv
  BY DEF RequestInv, Request
<1>4. Inserting = {} /\ Updating = {}
  BY IdleFacts DEF Inserting, Updating
<1>5. Cardinality({}) = 0
  BY FS_EmptySet
<1>6. RoomInv /\ ChangesInv
  BY <1>1, <1>4, <1>5, SessionsAssumption DEF RoomInv, ChangesInv
<1>7. QED
  BY <1>2, <1>3, <1>6 DEF TypeInv

LEMMA ContinueTypes ==
  ASSUME TypeInv, NEW r \in Requests, Continue(r)
  PROVE  TypeInv' /\ Keeps
BY CreateTypes, IssueTypes, PlainTypes, UpdateTypes DEF Continue

LEMMA TypeStep ==
  ASSUME TypeInv, [Next]_vars
  PROVE  TypeInv' /\ Keeps
<1>1. CASE Environs
  BY <1>1, EnvironsTypes
<1>2. ASSUME NEW r \in Requests, Admitted(r) PROVE TypeInv' /\ Keeps
  BY <1>2, BeginTypes, KeepsSame DEF Admitted, tokens
<1>3. ASSUME NEW r \in Requests, Continue(r) PROVE TypeInv' /\ Keeps
  BY <1>3, ContinueTypes
<1>4. QED
  BY <1>1, <1>2, <1>3, StepCases

THEOREM TypeInvariant == Spec => []TypeInv
<1>1. TypeInv /\ [Next]_vars => TypeInv'
  BY TypeStep
<1>2. QED
  BY <1>1, TypeInit, PTL DEF Spec

\* The tables keep to their types and to the bounds, and no request ever acts
\* on a token of another kind or of another account.
THEOREM TypeCorrect == Spec => []TypeOK
BY TypeInvariant, TypeInvGivesTypeOK, PTL

-----------------------------------------------------------------------------
(* What a step does to the requests in flight and to the tokens.           *)

\* A request in flight was in flight before the step.
Persists(q) ==
  /\ req[q] \in InFlight /\ req'[q] \in InFlight
  /\ req'[q].op = req[q].op /\ req'[q].user = req[q].user
  /\ req'[q].token = req[q].token /\ req'[q].basis = req[q].basis
  /\ req[q].during \subseteq req'[q].during

LEMMA NoticedPersists ==
  ASSUME NEW q \in Requests, RequestInv, req' \in [Requests -> Request],
         Noticed(req[q], req'[q])
  PROVE  /\ req'[q].left = req[q].left /\ (req'[q] = Idle <=> req[q] = Idle)
         /\ req'[q] # Idle => Persists(q)
<1>1. req[q] \in Request /\ req'[q] \in Request
  BY DEF RequestInv
<1>2. req'[q] = Idle <=> req[q] = Idle
  BY <1>1, StageFacts, IdleFacts DEF Noticed, Request
<1>3. QED
  BY <1>1, <1>2 DEF Noticed, Persists, Request

LEMMA MovesFacts ==
  ASSUME RequestInv, NEW r \in Requests, Moves(r)
  PROVE  /\ \A q \in Requests : req'[q] # Idle => Persists(q)
         /\ \A q \in Requests \ {r} :
              req'[q].left = req[q].left /\ (req'[q] = Idle <=> req[q] = Idle)
         /\ req'[r] # Idle =>
              /\ req'[r] = Step(req[r])
              /\ Head(req'[r].left) = "unlink" => Head(req[r].left) = "load"
              /\ Head(req'[r].left) = "create" => Head(req[r].left) = "unlink"
              /\ Head(req'[r].left) = "purge" =>
                   \/ req[r].op = "change" /\ Head(req[r].left) = "update"
                   \/ req[r].op = "reset" /\ Head(req[r].left) = "spend"
              /\ Head(req'[r].left) # "update"
<1>1. \A q \in Requests \ {r} :
        /\ req'[q].left = req[q].left /\ (req'[q] = Idle <=> req[q] = Idle)
        /\ req'[q] # Idle => Persists(q)
  BY NoticedPersists DEF Moves
<1>2. ASSUME req'[r] # Idle
      PROVE  /\ Persists(r)
             /\ req'[r] = Step(req[r])
             /\ Head(req'[r].left) = "unlink" => Head(req[r].left) = "load"
             /\ Head(req'[r].left) = "create" => Head(req[r].left) = "unlink"
             /\ Head(req'[r].left) = "purge" =>
                  \/ req[r].op = "change" /\ Head(req[r].left) = "update"
                  \/ req[r].op = "reset" /\ Head(req[r].left) = "spend"
             /\ Head(req'[r].left) # "update"
  <2>1. req[r] \in InFlight /\ req'[r] = Step(req[r]) /\ req'[r] \in InFlight
    BY <1>2 DEF Moves, Request
  <2>2. Persists(r)
    BY <1>2, <2>1, StepType DEF Persists
  <2>3. \A left : [req[r] EXCEPT !.left = left].left = left
    BY <2>1 DEF InFlight, RequestRecord
  <2>4. \/ Head(req[r].left) = "load" /\ req'[r] = [req[r] EXCEPT !.left = <<"unlink", "create">>]
        \/ Head(req[r].left) = "unlink" /\ req'[r] = [req[r] EXCEPT !.left = <<"create">>]
        \/ Head(req[r].left) = "update" /\ req[r].op = "change"
              /\ req'[r] = [req[r] EXCEPT !.left = <<"purge">>]
        \/ Head(req[r].left) = "update" /\ req[r].op = "reset"
              /\ req'[r] = [req[r] EXCEPT !.left = <<"spend", "purge">>]
        \/ Head(req[r].left) = "spend" /\ req[r].op = "reset"
              /\ req'[r] = [req[r] EXCEPT !.left = <<"purge">>]
        \/ Head(req[r].left) = "mark" /\ req'[r] = [req[r] EXCEPT !.left = <<"spend">>]
    <3>1. req[r] \in InFlight /\ Step(req[r]) # Idle
      BY <1>2, <2>1
    <3>2. Head(req[r].left) \in Statements
      BY <3>1, StageFacts
    <3>3. QED
      BY <2>1, <3>1, <3>2, StageFacts DEF Statements
  <2>5. \/ Head(req[r].left) = "load" /\ req'[r].left = <<"unlink", "create">>
        \/ Head(req[r].left) = "unlink" /\ req'[r].left = <<"create">>
        \/ Head(req[r].left) = "update" /\ req[r].op = "change" /\ req'[r].left = <<"purge">>
        \/ Head(req[r].left) = "update" /\ req[r].op = "reset"
              /\ req'[r].left = <<"spend", "purge">>
        \/ Head(req[r].left) = "spend" /\ req[r].op = "reset" /\ req'[r].left = <<"purge">>
        \/ Head(req[r].left) = "mark" /\ req'[r].left = <<"spend">>
    BY <2>3, <2>4
  <2>6. QED
    BY <2>1, <2>2, <2>5, ListFacts
<1>3. QED
  BY <1>1, <1>2

\* What CreateSession and IssueToken do to the tables of tokens.
Inserted(r, kind) ==
  /\ Tokens' = Tokens \cup {Len(issued) + 1} /\ Len(issued) + 1 \notin Tokens
  /\ live' = live \cup {Len(issued) + 1}
  /\ issued'[Len(issued) + 1] = Minted(r, kind)
  /\ UNCHANGED <<password, unpurged, undeleted>>

LEMMA InsertedFacts ==
  ASSUME TypeInv, NEW r \in Requests, req[r] \in InFlight, NEW kind \in Kinds,
         NEW ok \in BOOLEAN, Insert(r, kind, ok), UNCHANGED <<accounts, unpurged, undeleted>>
  PROVE  Inserted(r, kind)
<1>1. Minted(r, kind) \in TokenType /\ TableOK
  BY MintedType DEF TypeInv
<1>2. issued' = Append(issued, Minted(r, kind)) /\ live' = live \cup {Len(issued) + 1}
  BY DEF Insert
<1>3. Len(issued)' = Len(issued) + 1
  BY <1>1, <1>2, KeepsMore
<1>4. QED
  BY <1>1, <1>2, KeepsMore DEF Inserted, Token, accounts

LEMMA ContinueTables ==
  ASSUME TypeInv, NEW r \in Requests, Continue(r)
  PROVE  /\ Moves(r) /\ UNCHANGED active /\ undeleted \subseteq undeleted'
         /\ \/ UNCHANGED issued /\ live' \subseteq live
            \/ CreateSession(r) /\ Inserted(r, "session")
            \/ IssueToken(r) /\ \E kind \in {"password_reset", "email_verification"} :
                                  Inserted(r, kind)
<1>0. RequestInv /\ 0 \notin Tokens /\ 0 \notin live
  BY TokenFacts, TypeInvGivesTypeOK DEF TypeInv, TableOK
<1>1. CASE LoadUser(r) \/ MarkVerified(r)
  BY <1>0, <1>1, AloneEffect DEF LoadUser, MarkVerified, accounts, tokens, history
<1>2. CASE Unlink(r) \/ SpendToken(r)
  BY <1>0, <1>2, DeleteEffect DEF Unlink, SpendToken, Deletes, accounts
<1>3. CASE Purge(r)
  BY <1>0, <1>3, PurgeEffect DEF Purge, accounts
<1>4. CASE UpdatePassword(r)
  BY <1>0, <1>4, UpdateEffect DEF UpdatePassword, tokens
<1>5. CASE CreateSession(r)
  <2>1. Moves(r) /\ req[r] \in InFlight
    BY <1>0, <1>5, AloneEffect DEF Moves
  <2>2. UNCHANGED <<accounts, changes, unpurged, undeleted>> /\ "session" \in Kinds
    BY <1>5 DEF CreateSession, Kinds
  <2>3. UNCHANGED tokens \/ \E ok \in BOOLEAN : Insert(r, "session", ok)
    BY <1>5 DEF CreateSession
  <2>4. QED
    BY <1>5, <2>1, <2>2, <2>3, InsertedFacts DEF accounts, tokens
<1>6. CASE IssueToken(r)
  <2>1. Moves(r) /\ req[r] \in InFlight
    BY <1>0, <1>6, AloneEffect DEF Moves
  <2>2. UNCHANGED <<accounts, changes, history>>
    BY <1>6 DEF IssueToken
  <2>3. \/ UNCHANGED tokens
        \/ \E ok \in BOOLEAN, kind \in {"password_reset", "email_verification"} : Insert(r, kind, ok)
    BY <1>6 DEF IssueToken
  <2>4. {"password_reset", "email_verification"} \subseteq Kinds
    BY DEF Kinds
  <2>5. QED
    BY <1>6, <2>1, <2>2, <2>3, <2>4, InsertedFacts DEF accounts, tokens, history
<1>7. QED
  BY <1>1, <1>2, <1>3, <1>4, <1>5, <1>6 DEF Continue

\* Where a request stands that was just admitted.
LEMMA AdmittedStage ==
  ASSUME NEW r \in Requests, Admitted(r)
  PROVE  /\ req'[r] \in InFlight
         /\ req'[r].op = "refresh" => Head(req'[r].left) = "load"
         /\ req'[r].op \in {"change", "reset"} => Head(req'[r].left) = "update"
         /\ req'[r].op = "login" \/ req'[r].op = "refresh" \/ Head(req'[r].left) # "create"
<1>1. req'[r] \in InFlight /\ req'[r].left = Plan[req'[r].op] /\ Staged(req'[r])
  BY DEF Admitted, InFlight
<1>2. QED
  BY <1>1, ListFacts DEF Plan, Staged

-----------------------------------------------------------------------------
(* A deactivated account gets no new session.                              *)

\* A request past its look at is_active overlapped the deactivation.
ActiveInv ==
  \A r \in Requests :
    \/ req[r].op = "login"
    \/ req[r].op = "refresh" /\ Head(req[r].left) \in {"unlink", "create"}
    => active[req[r].user] \/ "deactivated" \in req[r].during

LEMMA ActiveStep ==
  ASSUME TypeInv, ActiveInv, [Next]_vars
  PROVE  ActiveInv'
<1> SUFFICES ASSUME NEW q \in Requests,
                    \/ req'[q].op = "login"
                    \/ req'[q].op = "refresh" /\ Head(req'[q].left) \in {"unlink", "create"}
             PROVE  active'[req'[q].user] \/ "deactivated" \in req'[q].during
  BY DEF ActiveInv
<1>1. RequestInv /\ req'[q] # Idle
  BY IdleFacts DEF TypeInv
<1>2. CASE Environs
  <2>1. Persists(q) /\ req'[q].left = req[q].left
    BY <1>1, <1>2, NoticedPersists DEF Environs
  <2>2. active[req[q].user] \/ "deactivated" \in req[q].during
    BY <2>1 DEF ActiveInv, Persists
  <2>3. req[q] # Idle
    BY <2>1, IdleFacts DEF Persists
  <2>4. QED
    BY <1>2, <2>1, <2>2, <2>3 DEF Environs, Persists
<1>3. ASSUME NEW r \in Requests, Admitted(r)
      PROVE  active'[req'[q].user] \/ "deactivated" \in req'[q].during
  <2>1. active' = active
    BY <1>3 DEF Admitted, accounts
  <2>2. CASE q = r
    BY <1>3, <2>1, <2>2, AdmittedStage DEF Admitted
  <2>3. CASE q # r
    BY <1>3, <2>1, <2>3 DEF Admitted, ActiveInv
  <2>4. QED
    BY <2>2, <2>3
<1>4. ASSUME NEW r \in Requests, Continue(r)
      PROVE  active'[req'[q].user] \/ "deactivated" \in req'[q].during
  <2>1. active' = active /\ Moves(r)
    BY <1>4, ContinueTables
  <2>2. Persists(q)
    BY <1>1, <2>1, MovesFacts
  <2>3. CASE q # r
    <3>1. req'[q].left = req[q].left
      BY <1>1, <2>1, <2>3, MovesFacts
    <3>2. QED
      BY <2>1, <2>2, <3>1 DEF ActiveInv, Persists
  <2>4. CASE q = r /\ Head(req[r].left) = "load"
    <3>1. LoadUser(r)
      BY <1>1, <1>4, <2>4, AloneEffect, DeleteEffect, PurgeEffect, UpdateEffect
         DEF Continue, MarkVerified, CreateSession, IssueToken, Unlink, SpendToken, Purge, UpdatePassword, At
    <3>2. QED
      BY <1>1, <2>1, <2>2, <2>4, <3>1, AloneEffect DEF Persists
  <2>5. CASE q = r /\ Head(req[r].left) # "load"
    <3>1. /\ req'[r] = Step(req[r])
          /\ Head(req'[r].left) = "unlink" => Head(req[r].left) = "load"
          /\ Head(req'[r].left) = "create" => Head(req[r].left) = "unlink"
      BY <1>1, <2>1, <2>5, MovesFacts
    <3>2. Head(req[r].left) # "create"
      BY <1>1, <2>2, <2>5, <3>1, StageFacts DEF Persists
    <3>3. req[r].op = "refresh" /\ Head(req[r].left) = "unlink"
      BY <2>2, <2>5, <3>1, <3>2, StageFacts DEF Persists, Statements
    <3>4. QED
      BY <2>1, <2>2, <2>5, <3>3 DEF ActiveInv, Persists
  <2>6. QED
    BY <2>3, <2>4, <2>5
<1>5. QED
  BY <1>2, <1>3, <1>4, StepCases

LEMMA InactiveStep ==
  ASSUME TypeInv, ActiveInv, NoSessionWhileInactive, [Next]_vars
  PROVE  NoSessionWhileInactive'
<1>1. Keeps
  BY TypeStep
<1>2. CASE Tokens' = Tokens
  BY <1>1, <1>2 DEF NoSessionWhileInactive, Keeps
<1>3. ASSUME NEW r \in Requests, NEW kind, Inserted(r, kind), kind # "session"
      PROVE  NoSessionWhileInactive'
  BY <1>1, <1>3 DEF NoSessionWhileInactive, Keeps, Inserted, Minted, Token
<1>4. ASSUME NEW r \in Requests, CreateSession(r), Inserted(r, "session")
      PROVE  NoSessionWhileInactive'
  <2>1. req[r] \in InFlight /\ Head(req[r].left) = "create"
    BY <1>4, AtFacts DEF CreateSession, TypeInv
  <2>2. active[req[r].user] \/ "deactivated" \in req[r].during
    BY <2>1, StageFacts DEF ActiveInv
  <2>3. Minted(r, "session").whileInactive => "deactivated" \in Minted(r, "session").during
    BY <2>2 DEF Minted
  <2>4. QED
    BY <1>1, <1>4, <2>3 DEF NoSessionWhileInactive, Keeps, Inserted, Token
<1>5. CASE UNCHANGED issued
  BY <1>2, <1>5, KeepsSame
<1>6. QED
  BY <1>3, <1>4, <1>5, StepCases, ContinueTables DEF Environs, Admitted, tokens

\* A deactivated account gets no new session, except from a request that was
\* already past the check when the account was deactivated.
THEOREM NoNewSessions == Spec => []NoSessionWhileInactive
<1>1. Init => ActiveInv /\ NoSessionWhileInactive
  BY IdleFacts DEF Init, ActiveInv, NoSessionWhileInactive, Tokens
<1>2. TypeInv /\ ActiveInv /\ NoSessionWhileInactive /\ [Next]_vars
        => (ActiveInv /\ NoSessionWhileInactive)'
  BY ActiveStep, InactiveStep
<1>3. QED
  BY <1>1, <1>2, TypeInvariant, PTL DEF Spec

-----------------------------------------------------------------------------
(* A refresh leaves one of the two sessions.                               *)

\* A token names a token that was there before it.
ParentInv == \A t \in Tokens : Token(t).parent \in Tokens \cup {0}

\* A refresh that is past its DELETE finds its session gone, or the DELETE
\* failed.
RotateInv ==
  \A r \in Requests : req[r].op = "refresh" /\ Head(req[r].left) = "create" =>
    (req[r].token \in live => req[r].token \in undeleted)

\* A token that a request holds was there before, and lives only if it did.
LEMMA OldTokens ==
  ASSUME TypeInv, [Next]_vars
  PROVE  /\ \A t \in Tokens : t \in live' => t \in live
         /\ undeleted \subseteq undeleted'
         /\ 0 \notin live'
         /\ \A q \in Requests : req[q] # Idle => req[q].token \in Tokens \cup {0}
<1>1. TypeInv' /\ TypeInv
  BY TypeStep
<1>2. 0 \notin live'
  <2>1. live' \subseteq Tokens'
    BY <1>1 DEF TypeInv, TableOK
  <2>2. issued' \in Seq(TokenType)
    BY <1>1 DEF TypeInv, TableOK
  <2>3. QED
    BY <2>1, <2>2 DEF Tokens
<1>3. \A q \in Requests : req[q] # Idle => req[q].token \in Tokens \cup {0}
  <2> SUFFICES ASSUME NEW q \in Requests, req[q] # Idle
               PROVE  req[q].token \in Tokens \cup {0}
    OBVIOUS
  <2>1. HoldsRightToken(req[q])
    BY DEF TypeInv, RequestInv
  <2>2. QED
    BY <2>1 DEF HoldsRightToken
<1>4. /\ \A t \in Tokens : t \in live' => t \in live
      /\ undeleted \subseteq undeleted'
  <2>1. CASE Environs
    BY <2>1 DEF Environs, history
  <2>2. ASSUME NEW r \in Requests, Admitted(r)
        PROVE  (\A t \in Tokens : t \in live' => t \in live) /\ undeleted \subseteq undeleted'
    BY <2>2 DEF Admitted, tokens, history
  <2>3. ASSUME NEW r \in Requests, Continue(r)
        PROVE  (\A t \in Tokens : t \in live' => t \in live) /\ undeleted \subseteq undeleted'
    BY <2>3, ContinueTables DEF Inserted
  <2>4. QED
    BY <2>1, <2>2, <2>3, StepCases
<1>5. QED
  BY <1>2, <1>3, <1>4

LEMMA RotateStep ==
  ASSUME TypeInv, RotateInv, [Next]_vars
  PROVE  RotateInv'
<1> SUFFICES ASSUME NEW q \in Requests, req'[q].op = "refresh",
                    Head(req'[q].left) = "create",
                    req'[q].token \in live'
             PROVE  req'[q].token \in undeleted'
  BY DEF RotateInv
<1>1. RequestInv /\ req'[q] # Idle
  BY IdleFacts DEF TypeInv
<1>2. ASSUME Persists(q), Head(req[q].left) = "create"
      PROVE  req'[q].token \in undeleted'
  <2>1. req[q].token \in Tokens /\ req[q].op = "refresh"
    BY <1>2, OldTokens, IdleFacts DEF Persists
  <2>2. QED
    BY <1>2, <2>1, OldTokens DEF RotateInv, Persists
<1>3. CASE Environs
  BY <1>1, <1>2, <1>3, NoticedPersists DEF Environs
<1>4. ASSUME NEW r \in Requests, Admitted(r)
      PROVE  req'[q].token \in undeleted'
  <2>1. q # r
    BY <1>4, AdmittedStage
  <2>2. QED
    BY <1>4, <2>1 DEF Admitted, RotateInv, tokens, history
<1>5. ASSUME NEW r \in Requests, Continue(r)
      PROVE  req'[q].token \in undeleted'
  <2>1. Moves(r) /\ Persists(q)
    BY <1>1, <1>5, ContinueTables, MovesFacts
  <2>2. CASE q # r
    BY <1>1, <1>2, <2>1, <2>2, MovesFacts
  <2>3. CASE q = r
    <3>1. Head(req[r].left) = "unlink"
      BY <1>1, <2>1, <2>3, MovesFacts
    <3>2. Unlink(r)
      BY <1>1, <1>5, <3>1 DEF Continue, LoadUser, MarkVerified, CreateSession, IssueToken,
                              SpendToken, Purge, UpdatePassword, At
    <3>3. Deletes(r) /\ req'[r].token = req[r].token
      <4>1. 0 \notin Tokens
        BY TokenFacts, TypeInvGivesTypeOK
      <4>2. QED
        BY <1>1, <2>1, <2>3, <3>2, <4>1, DeleteEffect DEF Persists
    <3>4. QED
      BY <2>3, <3>3 DEF Deletes
  <2>4. QED
    BY <2>2, <2>3
<1>6. QED
  BY <1>3, <1>4, <1>5, StepCases

LEMMA RefreshStep ==
  ASSUME TypeInv, ParentInv, RotateInv, RefreshRotates, [Next]_vars
  PROVE  ParentInv' /\ RefreshRotates'
<1>1. Keeps /\ \A t \in Tokens : t \in live' => t \in live
  BY TypeStep, OldTokens
<1>2. \A t \in Tokens : Token(t)' = Token(t)
  BY <1>1 DEF Keeps
<1>3. ASSUME NEW t \in Tokens
      PROVE  /\ Token(t).parent \in Tokens' \cup {0}
             /\ Token(t).parent \in live' => Token(t).parent \in undeleted'
  <2>1. Token(t).parent \in Tokens \/ Token(t).parent = 0
    BY DEF ParentInv
  <2>2. Token(t).parent \in Tokens' \cup {0}
    BY <1>1, <2>1 DEF Keeps
  <2>3. QED
    BY <1>1, <2>1, <2>2, OldTokens DEF RefreshRotates
<1>4. CASE Tokens' = Tokens
  BY <1>2, <1>3, <1>4 DEF ParentInv, RefreshRotates
<1>5. ASSUME NEW r \in Requests, NEW kind, Inserted(r, kind), Continue(r),
             (kind = "session" /\ CreateSession(r)) \/ IssueToken(r)
      PROVE  ParentInv' /\ RefreshRotates'
  <2> DEFINE n == Len(issued) + 1
  <2>1. req[r] \in InFlight /\ Head(req[r].left) \in {"create", "issue"}
    BY <1>5, AtFacts DEF CreateSession, IssueToken, TypeInv
  <2>2. req[r].token \in Tokens \cup {0} /\ RequestInv
    BY <2>1, OldTokens, IdleFacts DEF TypeInv
  <2>3. req[r].token \in live' => req[r].token \in undeleted'
    <3>1. CASE req[r].op = "refresh"
      <4>1. Head(req[r].left) = "create"
        BY <2>1, <3>1, StageFacts
      <4>2. req[r].token \in live => req[r].token \in undeleted
        BY <3>1, <4>1 DEF RotateInv
      <4>3. QED
        BY <2>2, <4>2, OldTokens
    <3>2. CASE req[r].op # "refresh"
      <4>1. req[r].op \in {"login", "request_reset", "resend"}
        BY <2>1, <3>2, StageFacts
      <4>2. HoldsRightToken(req[r])
        BY <2>1, IdleFacts DEF TypeInv, RequestInv
      <4>3. req[r].token = 0
        BY <4>1, <4>2 DEF HoldsRightToken
      <4>4. QED
        BY <4>3, OldTokens
    <3>3. QED
      BY <3>1, <3>2
  <2>4. Tokens' = Tokens \cup {n}  /\ issued'[n].parent = req[r].token
    BY <1>5 DEF Inserted, Minted, Token
  <2>5. QED
    BY <1>2, <1>3, <2>2, <2>3, <2>4 DEF ParentInv, RefreshRotates, Token
<1>6. QED
  BY <1>4, <1>5, KeepsSame, StepCases, ContinueTables DEF Environs, Admitted, tokens

\* A refresh leaves one of the two sessions: the old one stays only if its
\* DELETE failed.
THEOREM Rotation == Spec => []RefreshRotates
<1>1. Init => RotateInv /\ ParentInv /\ RefreshRotates
  BY IdleFacts DEF Init, RotateInv, ParentInv, RefreshRotates, Tokens
<1>2. TypeInv /\ RotateInv /\ ParentInv /\ RefreshRotates /\ [Next]_vars
        => (RotateInv /\ ParentInv /\ RefreshRotates)'
  BY RotateStep, RefreshStep
<1>3. QED
  BY <1>1, <1>2, TypeInvariant, PTL DEF Spec

-----------------------------------------------------------------------------
(* A password change ends the sessions of the older password.              *)

\* The password proved is the current one, or it changed meanwhile, or the
\* change is not over.
Proves(basis, u, during) ==
  \/ basis = password[u] \/ "password" \in during \/ Changing(u) \/ u \in unpurged

PasswordInv ==
  \A r \in Requests :
    /\ req[r].op = "login" => Proves(req[r].basis, req[r].user, req[r].during)
    /\ req[r].op = "refresh" =>
         Proves(req[r].basis, req[r].user, req[r].during \cup Token(req[r].token).during)

\* The same, of the state after the step.
StillChanging(u) ==
  \E r \in Requests :
    /\ req'[r].op \in {"change", "reset"} /\ req'[r].user = u
    /\ Head(req'[r].left) # "update"

ProvesAfter(basis, u, during) ==
  \/ basis = password'[u] \/ "password" \in during \/ StillChanging(u) \/ u \in unpurged'

\* A user whose sessions prove as much after the step as before.
Steady(u) ==
  /\ password'[u] = password[u] \/ StillChanging(u) \/ u \in unpurged'
  /\ Changing(u) => StillChanging(u) \/ u \in unpurged'
  /\ u \in unpurged => u \in unpurged'

LEMMA SteadyProves ==
  ASSUME NEW u, Steady(u), NEW basis, NEW during, NEW during2, during \subseteq during2,
         Proves(basis, u, during)
  PROVE  ProvesAfter(basis, u, during2)
BY DEF Steady, Proves, ProvesAfter, Changing, StillChanging

\* A request of r's that is past its first write goes on, or is a Purge.
LEMMA ChangingKept ==
  ASSUME RequestInv, NEW r \in Requests, Moves(r), NEW u, Changing(u),
         \/ ~(req[r].user = u)
         \/ req'[r] = Step(req[r]) /\ Head(req[r].left) # "purge"
         \/ req[r].op \notin {"change", "reset"}
         \/ Head(req[r].left) = "update"
  PROVE  StillChanging(u)
<1>1. PICK q \in Requests : /\ req[q].op \in {"change", "reset"} /\ req[q].user = u
                            /\ Head(req[q].left) # "update"
  BY DEF Changing
<1>2. CASE q # r
  BY <1>1, <1>2 DEF Changing, StillChanging, Moves, Noticed
<1>3. CASE q = r
  <2>1. req[r] \in InFlight /\ Head(req[r].left) # "purge" /\ req'[r] = Step(req[r])
    BY <1>1, <1>3 DEF Moves
  <2>2. req[r].op = "reset" /\ Step(req[r]) = [req[r] EXCEPT !.left = <<"purge">>]
    BY <1>1, <1>3, <2>1, StageFacts DEF Statements
  <2>3. req'[r].op = req[r].op /\ req'[r].user = u /\ req'[r].left = <<"purge">>
    BY <1>1, <1>3, <2>1, <2>2 DEF InFlight, RequestRecord
  <2>4. QED
    BY <1>1, <1>3, <2>3, ListFacts DEF Changing, StillChanging
<1>4. QED
  BY <1>2, <1>3

LEMMA SameChanging ==
  ASSUME \A q \in Requests : Noticed(req[q], req'[q])
  PROVE  \A u : Changing(u) => StillChanging(u)
BY DEF Changing, StillChanging, Noticed

\* Every statement but the last of a change keeps what a user's sessions prove.
LEMMA StepSteady ==
  ASSUME TypeInv, [Next]_vars, NEW u \in Users
  PROVE  Steady(u) \/ \E r \in Requests : Purge(r) /\ req[r].user = u
<1>0. RequestInv /\ TableOK
  BY DEF TypeInv
<1>1. CASE Environs
  BY <1>1, SameChanging DEF Environs, history, Steady
<1>2. ASSUME NEW r \in Requests, Admitted(r) PROVE Steady(u)
  <2>1. Changing(u) => StillChanging(u)
    BY <1>2, IdleFacts DEF Admitted, Changing, StillChanging
  <2>2. QED
    BY <1>2, <2>1 DEF Admitted, accounts, history, Steady
<1>3. ASSUME NEW r \in Requests, Continue(r), ~(Purge(r) /\ req[r].user = u) PROVE Steady(u)
  <2>1. Moves(r) /\ req[r] \in InFlight
    BY <1>3, ContinueTables DEF Moves
  <2>2. CASE LoadUser(r) \/ MarkVerified(r) \/ CreateSession(r) \/ IssueToken(r)
    <3>1. req[r].op \notin {"change", "reset"}
      BY <1>0, <2>1, <2>2, AloneEffect, StageFacts
    <3>2. Changing(u) => StillChanging(u)
      BY <1>0, <2>1, <3>1, ChangingKept
    <3>3. UNCHANGED <<password, unpurged>>
      BY <2>2 DEF LoadUser, MarkVerified, CreateSession, IssueToken, accounts, history
    <3>4. QED
      BY <3>2, <3>3 DEF Steady
  <2>3. CASE Unlink(r) \/ SpendToken(r)
    <3>1. req'[r] = Step(req[r]) /\ Head(req[r].left) # "purge"
      <4>1. 0 \notin Tokens
        BY TokenFacts, TypeInvGivesTypeOK
      <4>2. QED
        BY <1>0, <2>3, <4>1, DeleteEffect
    <3>2. Changing(u) => StillChanging(u)
      BY <1>0, <2>1, <3>1, ChangingKept
    <3>3. UNCHANGED <<password, unpurged>>
      BY <2>3 DEF Unlink, SpendToken, accounts
    <3>4. QED
      BY <3>2, <3>3 DEF Steady
  <2>4. CASE Purge(r) /\ req[r].user # u
    <3>1. Changing(u) => StillChanging(u)
      <4>1. ~(req[r].user = u)
        BY <2>4
      <4>2. QED
        BY <1>0, <2>1, <4>1, ChangingKept
    <3>2. u \in unpurged => u \in unpurged'
      <4>1. 0 \notin live
        BY <1>0, TokenFacts, TypeInvGivesTypeOK DEF TableOK
      <4>2. QED
        BY <1>0, <2>4, <4>1, PurgeEffect
    <3>3. password' = password
      BY <2>4 DEF Purge, accounts
    <3>4. QED
      BY <3>1, <3>2, <3>3 DEF Steady
  <2>5. CASE UpdatePassword(r)
    <3>1. Head(req[r].left) = "update" /\ unpurged \subseteq unpurged'
      BY <1>0, <2>5, UpdateEffect
    <3>2. Changing(u) => StillChanging(u)
      BY <1>0, <2>1, <3>1, ChangingKept
    <3>3. CASE req[r].user = u /\ req'[r] = Step(req[r])
      <4>1. req[r].op \in {"change", "reset"} /\ req'[r] # Idle
        <5>1. \/ req[r].op = "change" /\ req'[r] = [req[r] EXCEPT !.left = <<"purge">>]
              \/ req[r].op = "reset" /\ req'[r] = [req[r] EXCEPT !.left = <<"spend", "purge">>]
          BY <2>1, <3>1, <3>3, StageFacts
        <5>2. req'[r].op = req[r].op
          BY <2>1, <5>1 DEF InFlight, RequestRecord
        <5>3. QED
          BY <5>1, <5>2, IdleFacts
      <4>2. Persists(r) /\ Head(req'[r].left) # "update"
        BY <1>0, <2>1, <4>1, MovesFacts
      <4>3. StillChanging(u)
        BY <3>3, <4>1, <4>2 DEF Changing, StillChanging, Persists
      <4>4. QED
        BY <3>1, <4>3 DEF Steady
    <3>4. CASE u \in unpurged' \/ UNCHANGED password
      BY <3>1, <3>2, <3>4 DEF Steady
    <3>5. CASE req[r].user # u
      BY <1>0, <2>5, <3>1, <3>2, <3>5, UpdateEffect DEF Steady, TableOK
    <3>6. QED
      BY <1>0, <2>5, <3>3, <3>4, <3>5, UpdateEffect
  <2>6. QED
    BY <1>3, <2>2, <2>3, <2>4, <2>5 DEF Continue
<1>4. QED
  BY <1>1, <1>2, <1>3, StepCases

LEMMA PurgeProves ==
  ASSUME TypeInv, NEW r \in Requests, Purge(r)
  PROVE  /\ \A q \in Requests : req'[q] # Idle /\ req[q].user = req[r].user =>
              "password" \in req'[q].during \/ req[q].user \in unpurged'
         /\ \A t \in Tokens : t \in live' /\ Token(t).kind = "session"
                              /\ Token(t).user = req[r].user =>
              Token(t).user \in unpurged'
<1>1. RequestInv /\ 0 \notin live
  BY TokenFacts, TypeInvGivesTypeOK DEF TypeInv, TableOK
<1>2. \A q \in Requests : req'[q] # Idle => req[q] # Idle
  BY <1>1, PurgeEffect, MovesFacts, IdleFacts DEF Persists
<1>3. QED
  BY <1>1, <1>2, PurgeEffect

LEMMA PasswordStep ==
  ASSUME TypeInv, PasswordInv, SessionsProvePassword, [Next]_vars
  PROVE  PasswordInv'
<1> SUFFICES ASSUME NEW q \in Requests, req'[q].op \in {"login", "refresh"}
             PROVE  /\ req'[q].op = "login" =>
                         ProvesAfter(req'[q].basis, req'[q].user, req'[q].during)
                    /\ req'[q].op = "refresh" =>
                         ProvesAfter(req'[q].basis, req'[q].user,
                                     req'[q].during \cup issued'[req'[q].token].during)
  BY DEF PasswordInv, Proves, ProvesAfter, Changing, StillChanging, Token
<1>1. RequestInv /\ req'[q] # Idle /\ Keeps
  BY TypeStep, IdleFacts DEF TypeInv
<1> DEFINE Seen  == req[q].during \cup
                      (IF req[q].op = "refresh" THEN Token(req[q].token).during ELSE {})
           Later == req'[q].during \cup
                      (IF req'[q].op = "refresh" THEN issued'[req'[q].token].during ELSE {})
<1>2. ASSUME Persists(q)
      PROVE  ProvesAfter(req'[q].basis, req'[q].user, Later)
  <2>1. Proves(req[q].basis, req[q].user, Seen) /\ req[q].user \in Users
    BY <1>2 DEF PasswordInv, Persists, InFlight, RequestRecord
  <2>2. Seen \subseteq Later
    <3>1. req[q].op = "refresh" => req[q].token \in Tokens
      <4>1. HoldsRightToken(req[q])
        BY <1>2, IdleFacts DEF Persists, TypeInv, RequestInv
      <4>2. QED
        BY <4>1 DEF HoldsRightToken
    <3>2. QED
      BY <1>1, <1>2, <3>1 DEF Persists, Keeps, Token
  <2>3. req'[q].basis = req[q].basis /\ req'[q].user = req[q].user
    BY <1>2 DEF Persists
  <2>4. CASE Steady(req[q].user)
    <3> HIDE DEF Seen, Later
    <3>1. ProvesAfter(req[q].basis, req[q].user, Later)
      BY <2>1, <2>2, <2>4 DEF Steady, Proves, ProvesAfter
    <3>2. QED
      BY <2>3, <3>1
  <2>5. ASSUME NEW r \in Requests, Purge(r), req[r].user = req[q].user
        PROVE  ProvesAfter(req'[q].basis, req'[q].user, Later)
    <3>1. "password" \in req'[q].during \/ req[q].user \in unpurged'
      BY <1>1, <2>5, PurgeProves
    <3>2. QED
      BY <2>3, <3>1 DEF ProvesAfter
  <2>6. QED
    BY <2>1, <2>4, <2>5, StepSteady
<1>3. ASSUME NEW r \in Requests, Admitted(r)
      PROVE  Persists(q) \/ ProvesAfter(req'[q].basis, req'[q].user, Later)
  <2>1. UNCHANGED <<password, issued, unpurged>>
    BY <1>3 DEF Admitted, accounts, tokens, history
  <2>2. \A u : Changing(u) => StillChanging(u)
    BY <1>3, IdleFacts DEF Admitted, Changing, StillChanging
  <2>3. CASE q # r
    BY <1>1, <1>3, <2>3 DEF Admitted, Persists, RequestInv, Request
  <2>4. CASE q = r /\ req'[q].op = "login"
    BY <1>3, <2>1, <2>4 DEF Admitted, ProvesAfter
  <2>5. CASE q = r /\ req'[q].op = "refresh"
    <3> DEFINE t == req'[q].token
    <3>1. /\ t \in Tokens /\ Token(t).kind = "session" /\ Token(t).user = req'[q].user
          /\ (t # 0 => t \in live) /\ req'[q].basis = Token(t).basis
      BY <1>3, <2>5 DEF Admitted, HoldsRightToken
    <3>2. t \in Sessions
      <4>1. t # 0
        BY <3>1, TokenFacts, TypeInvGivesTypeOK
      <4>2. QED
        BY <3>1, <4>1 DEF Sessions
    <3>3. Proves(req'[q].basis, req'[q].user, Token(t).during)
      BY <3>1, <3>2 DEF SessionsProvePassword, Proves
    <3>4. QED
      BY <2>1, <2>2, <2>5, <3>3 DEF Proves, ProvesAfter, Token
  <2>6. QED
    BY <2>3, <2>4, <2>5
<1>4. CASE Environs
  BY <1>1, <1>2, <1>4, NoticedPersists DEF Environs, Token
<1>5. ASSUME NEW r \in Requests, Continue(r)
      PROVE  Persists(q)
  BY <1>1, <1>5, ContinueTables, MovesFacts
<1>6. ProvesAfter(req'[q].basis, req'[q].user, Later)
  BY <1>1, <1>2, <1>3, <1>4, <1>5, StepCases, NoticedPersists DEF Environs
<1>7. QED
  BY <1>6 DEF Token

LEMMA SessionsStep ==
  ASSUME TypeInv, PasswordInv, SessionsProvePassword, [Next]_vars
  PROVE  SessionsProvePassword'
<1>1. Keeps /\ RequestInv /\ \A t \in Tokens : t \in live' => t \in live
  BY TypeStep, OldTokens DEF TypeInv
<1>2. \A t \in Tokens : issued'[t] = issued[t]
  BY <1>1 DEF Keeps, Token
<1>3. ASSUME NEW t \in Tokens, t \in live', Token(t).kind = "session"
      PROVE  ProvesAfter(Token(t).basis, Token(t).user, Token(t).during)
  <2>1. Proves(Token(t).basis, Token(t).user, Token(t).during) /\ Token(t).user \in Users
    BY <1>1, <1>3, TokenFacts, TypeInvGivesTypeOK DEF Sessions, SessionsProvePassword, Proves
  <2>2. CASE Steady(Token(t).user)
    BY <1>2, <2>1, <2>2 DEF Steady, Proves, ProvesAfter, Token
  <2>3. CASE \E r \in Requests : Purge(r) /\ req[r].user = Token(t).user
    <3>1. Token(t).user \in unpurged'
      BY <1>3, <2>3, PurgeProves
    <3>2. QED
      BY <1>2, <3>1 DEF ProvesAfter, Token
  <2>4. QED
    BY <2>1, <2>2, <2>3, StepSteady
<1>4. ASSUME Tokens' = Tokens \/ \E r \in Requests, kind \in Kinds \ {"session"} : Inserted(r, kind)
      PROVE  SessionsProvePassword'
  <2>1. \A t \in Tokens' : issued'[t].kind = "session" => t \in Tokens
    <3>1. CASE Tokens' = Tokens
      BY <3>1
    <3>2. ASSUME NEW r \in Requests, NEW kind \in Kinds \ {"session"}, Inserted(r, kind)
          PROVE  \A t \in Tokens' : issued'[t].kind = "session" => t \in Tokens
      <4>1. Minted(r, kind).kind = kind
        BY DEF Minted
      <4>2. QED
        BY <3>2, <4>1 DEF Inserted
    <3>3. QED
      BY <1>4, <3>1, <3>2
  <2>2. live' \subseteq Tokens'
    BY TypeStep DEF TypeInv, TableOK
  <2>3. QED
    BY <1>2, <1>3, <2>1, <2>2 DEF SessionsProvePassword, Sessions, ProvesAfter, Changing, StillChanging, Token
<1>5. ASSUME NEW r \in Requests, Continue(r), CreateSession(r), Inserted(r, "session")
      PROVE  SessionsProvePassword'
  <2> DEFINE n == Len(issued) + 1
             m == Minted(r, "session")
  <2>1. req[r] \in InFlight /\ Head(req[r].left) = "create" /\ Moves(r)
    BY <1>1, <1>5, AtFacts, ContinueTables DEF CreateSession
  <2>2. req[r].op \in {"login", "refresh"} /\ HoldsRightToken(req[r])
    BY <1>1, <2>1, StageFacts, IdleFacts DEF RequestInv
  <2>3. Proves(m.basis, m.user, m.during)
    <3>1. CASE req[r].op = "login"
      <4>1. req[r].token = 0 /\ Proves(req[r].basis, req[r].user, req[r].during)
        BY <2>2, <3>1 DEF HoldsRightToken, PasswordInv
      <4>2. m.basis = req[r].basis /\ m.user = req[r].user /\ m.during = req[r].during \ {"taken"}
        BY <4>1 DEF Minted
      <4> HIDE DEF m
      <4>3. QED
        BY <4>1, <4>2 DEF Proves
    <3>2. CASE req[r].op = "refresh"
      <4>1. /\ req[r].token \in Tokens
            /\ Proves(req[r].basis, req[r].user, req[r].during \cup Token(req[r].token).during)
        BY <2>2, <3>2 DEF HoldsRightToken, PasswordInv
      <4>2. req[r].token # 0
        BY <4>1, TokenFacts, TypeInvGivesTypeOK
      <4>3. /\ m.basis = req[r].basis /\ m.user = req[r].user
            /\ m.during = (req[r].during \ {"taken"}) \cup (Token(req[r].token).during \ {"deactivated"})
        BY <4>2 DEF Minted
      <4> HIDE DEF m
      <4>4. QED
        BY <4>1, <4>3 DEF Proves
    <3>3. QED
      BY <2>2, <3>1, <3>2
  <2>4. UNCHANGED <<password, unpurged>> /\ \A u : Changing(u) => StillChanging(u)
    <3>1. \A u : Changing(u) => StillChanging(u)
      BY <1>1, <2>1, <2>2, ChangingKept
    <3>2. QED
      BY <1>5, <3>1 DEF Inserted
  <2>5. ProvesAfter(m.basis, m.user, m.during)
    <3> HIDE DEF m
    <3>1. QED
      BY <2>3, <2>4 DEF Proves, ProvesAfter
  <2>6. issued'[n] = m /\ Tokens' = Tokens \cup {n} /\ live' \subseteq Tokens'
    BY <1>5, TypeStep DEF Inserted, TypeInv, TableOK
  <2>7. QED
    BY <1>2, <1>3, <2>5, <2>6 DEF SessionsProvePassword, Sessions, ProvesAfter, Changing, StillChanging, Token
<1>6. Tokens' = Tokens \/ \E r \in Requests :
        \/ \E kind \in Kinds \ {"session"} : Inserted(r, kind)
        \/ Continue(r) /\ CreateSession(r) /\ Inserted(r, "session")
  BY KeepsSame, StepCases, ContinueTables DEF Environs, Admitted, tokens, Kinds
<1>7. QED
  BY <1>4, <1>5, <1>6

\* A password change ends the sessions opened with an older password, unless
\* it is still running, or overlapped the opening of the session, or one of
\* its statements failed.
THEOREM PasswordChangeEndsSessions == Spec => []SessionsProvePassword
<1>1. Init => PasswordInv /\ SessionsProvePassword
  BY IdleFacts DEF Init, PasswordInv, SessionsProvePassword, Sessions
<1>2. TypeInv /\ PasswordInv /\ SessionsProvePassword /\ [Next]_vars
        => (PasswordInv /\ SessionsProvePassword)'
  BY PasswordStep, SessionsStep
<1>3. QED
  BY <1>1, <1>2, TypeInvariant, PTL DEF Spec

-----------------------------------------------------------------------------
(* A token serves one request.                                             *)

\* The request is past the DELETE of its token.
Past(q) == \/ q.op = "refresh" /\ Head(q.left) = "create"
           \/ q.op = "reset" /\ Head(q.left) = "purge"

\* Whoever deleted a token shares it only with requests that noticed.
PastInv ==
  \A r \in Requests : Past(req[r]) /\ req[r].token \notin undeleted =>
    /\ req[r].token \notin live
    /\ \A q \in Requests \ {r} :
         req[q].token = req[r].token => "taken" \in req[q].during

\* Whoever holds a spent token noticed, unless its DELETE failed.
HeldInv ==
  \A r \in Requests : req[r].token \in spent =>
    req[r].token \in undeleted \/ "taken" \in req[r].during

\* A spent token is gone, unless its DELETE failed.
GoneInv == spent \cap live \subseteq undeleted

SpentInv == PastInv /\ HeldInv /\ GoneInv /\ SpentOnce

\* Every step keeps the others' requests apart from the tokens they lost.
LEMMA PersistsOrNew ==
  ASSUME TypeInv, [Next]_vars, NEW q \in Requests, req'[q] # Idle
  PROVE  \/ Persists(q)
         \/ Admitted(q) /\ (req'[q].token # 0 => req'[q].token \in live)
<1>1. RequestInv
  BY DEF TypeInv
<1>2. CASE Environs
  BY <1>1, <1>2, NoticedPersists DEF Environs
<1>3. ASSUME NEW r \in Requests, Admitted(r) PROVE Persists(q) \/ Admitted(q)
  BY <1>1, <1>3 DEF Admitted, Persists, RequestInv, Request
<1>4. ASSUME NEW r \in Requests, Continue(r) PROVE Persists(q)
  BY <1>1, <1>4, ContinueTables, MovesFacts
<1>5. QED
  BY <1>2, <1>3, <1>4, StepCases DEF Admitted

\* Who deletes a token here is past its DELETE after the step, or spends the
\* token in the same step.
LEMMA DeletedTogether ==
  ASSUME TypeInv, NEW r \in Requests, Unlink(r) \/ SpendToken(r)
  PROVE  /\ req[r].token \in Tokens /\ Moves(r)
         /\ req[r].token \notin undeleted' =>
              /\ req[r].token \notin live'
              /\ \A q \in Requests \ {r} :
                   req[q].token = req[r].token => "taken" \in req'[q].during
<1>1. RequestInv /\ 0 \notin Tokens
  BY TokenFacts, TypeInvGivesTypeOK DEF TypeInv
<1>2. Deletes(r) /\ req[r].token \in Tokens /\ Moves(r)
  BY <1>1, DeleteEffect
<1>3. QED
  BY <1>2 DEF Deletes

LEMMA PastStep ==
  ASSUME TypeInv, PastInv, [Next]_vars
  PROVE  PastInv'
<1> SUFFICES ASSUME NEW r \in Requests, Past(req'[r]), req'[r].token \notin undeleted'
             PROVE  /\ req'[r].token \notin live'
                    /\ \A q \in Requests \ {r} :
                         req'[q].token = req'[r].token => "taken" \in req'[q].during
  BY DEF PastInv
<1>0. RequestInv /\ req'[r] # Idle
  BY IdleFacts DEF TypeInv, Past
<1>1. Persists(r)
  BY <1>0, PersistsOrNew, AdmittedStage DEF Past
<1>2. req[r].token \in Tokens /\ req[r].token # 0 /\ req[r].op \in {"refresh", "reset"}
  <2>1. req[r].op \in {"refresh", "reset"} /\ HoldsRightToken(req[r])
    BY <1>1, IdleFacts DEF Past, Persists, TypeInv, RequestInv
  <2>2. req[r].token \in Tokens
    BY <2>1 DEF HoldsRightToken
  <2>3. QED
    BY <2>1, <2>2, TokenFacts, TypeInvGivesTypeOK
<1>3. CASE Past(req[r])
  <2>1. req[r].token \notin undeleted
    BY <1>1, OldTokens DEF Persists
  <2>2. req[r].token \notin live /\ req[r].token \notin live'
    BY <1>2, <1>3, <2>1, OldTokens DEF PastInv
  <2>3. ASSUME NEW q \in Requests \ {r}, req'[q].token = req'[r].token
        PROVE  "taken" \in req'[q].during
    <3>1. req'[q].token = req[r].token /\ req'[q].token # 0
      BY <1>1, <1>2, <2>3 DEF Persists
    <3>2. req'[q] # Idle
      BY <3>1, IdleFacts
    <3>3. Persists(q)
      BY <2>2, <3>1, <3>2, PersistsOrNew
    <3>4. QED
      BY <1>3, <2>1, <3>1, <3>3 DEF PastInv, Persists
  <2>4. QED
    BY <1>1, <2>2, <2>3 DEF Persists
<1>4. CASE ~Past(req[r])
  <2>1. PICK p \in Requests : Continue(p)
    <3>1. ~Environs
      BY <1>0, <1>1, <1>4, NoticedPersists DEF Environs, Past, Persists
    <3>2. ASSUME NEW p \in Requests, Admitted(p) PROVE FALSE
      <4>1. p = r
        BY <1>4, <3>2 DEF Admitted
      <4>2. QED
        BY <1>1, <3>2, <4>1, IdleFacts DEF Admitted, Persists
    <3>3. QED
      BY <3>1, <3>2, StepCases
  <2>2. Moves(p) /\ p = r
    <3>1. Moves(p)
      BY <2>1, ContinueTables
    <3>2. QED
      BY <1>0, <1>1, <1>4, <3>1, MovesFacts DEF Past, Persists
  <2>3. \/ req[r].op = "refresh" /\ Head(req[r].left) = "unlink"
        \/ req[r].op = "reset" /\ Head(req[r].left) = "spend"
    BY <1>0, <1>1, <1>2, <2>2, MovesFacts DEF Past, Persists
  <2>4. Unlink(r) \/ SpendToken(r)
    BY <2>1, <2>2, <2>3 DEF Continue, LoadUser, MarkVerified, CreateSession, IssueToken,
                           Purge, UpdatePassword, At
  <2>5. /\ req[r].token \notin live'
        /\ \A q \in Requests \ {r} :
             req[q].token = req[r].token => "taken" \in req'[q].during
    BY <1>1, <2>4, DeletedTogether DEF Persists
  <2>6. \A q \in Requests \ {r} : req'[q].token = req[q].token
    BY <2>2 DEF Moves, Noticed
  <2>7. QED
    BY <1>1, <2>5, <2>6 DEF Persists
<1>5. QED
  BY <1>3, <1>4

\* A token is spent by a request past its DELETE, or with it, or not at all.
LEMMA SpendCases ==
  ASSUME TypeInv, [Next]_vars
  PROVE  \/ UNCHANGED <<spent, respent>>
         \/ \E r \in Requests : /\ Spend(r) /\ Moves(r)
                                /\ Past(req[r]) \/ (SpendToken(r) /\ req'[r] = Idle)
<1>1. RequestInv /\ 0 \notin live
  BY TokenFacts, TypeInvGivesTypeOK DEF TypeInv, TableOK
<1>2. ASSUME NEW r \in Requests, Continue(r)
      PROVE  \/ UNCHANGED <<spent, respent>>
             \/ Spend(r) /\ Moves(r) /\ (Past(req[r]) \/ (SpendToken(r) /\ req'[r] = Idle))
  <2>0. Moves(r) /\ req[r] \in InFlight
    BY <1>2, ContinueTables DEF Moves
  <2>1. CASE LoadUser(r) \/ MarkVerified(r) \/ IssueToken(r) \/ Unlink(r) \/ UpdatePassword(r)
    BY <2>1 DEF LoadUser, MarkVerified, IssueToken, Unlink, UpdatePassword, history
  <2>2. CASE CreateSession(r)
    <3>1. Head(req[r].left) = "create"
      BY <2>2 DEF CreateSession, At
    <3>2. UNCHANGED <<spent, respent>> \/ (req[r].op = "refresh" /\ Spend(r))
      BY <2>2 DEF CreateSession
    <3>3. QED
      BY <2>0, <3>1, <3>2 DEF Past
  <2>3. CASE Purge(r)
    <3>1. Head(req[r].left) = "purge"
      BY <2>3 DEF Purge, At
    <3>2. UNCHANGED <<spent, respent>> \/ (req[r].op = "reset" /\ Spend(r))
      BY <2>3 DEF Purge
    <3>3. QED
      BY <2>0, <3>1, <3>2 DEF Past
  <2>4. CASE SpendToken(r) /\ req[r].op # "verify"
    BY <2>4 DEF SpendToken
  <2>5. CASE SpendToken(r) /\ req[r].op = "verify"
    <3>1. Head(req[r].left) = "spend" /\ req'[r] = Step(req[r])
      <4>1. 0 \notin Tokens
        BY TokenFacts, TypeInvGivesTypeOK
      <4>2. QED
        BY <1>1, <2>5, <4>1, DeleteEffect
    <3>2. req'[r] = Idle
      BY <2>0, <2>5, <3>1, StageFacts
    <3>3. QED
      BY <2>0, <2>5, <3>2 DEF SpendToken
  <2>6. QED
    BY <1>2, <2>1, <2>2, <2>3, <2>4, <2>5 DEF Continue
<1>3. QED
  BY <1>2, StepCases DEF Environs, Admitted, history

LEMMA SpentStep ==
  ASSUME TypeInv, SpentInv, [Next]_vars
  PROVE  HeldInv' /\ GoneInv' /\ SpentOnce'
<1> USE DEF SpentInv
<1>0. spent \subseteq Tokens /\ spent' \subseteq Tokens' /\ 0 \notin Tokens /\ 0 \notin Tokens'
  <2>1. TypeInv'
    BY TypeStep
  <2>2. issued' \in Seq(TokenType) /\ spent' \subseteq Tokens'
    BY <2>1 DEF TypeInv, TableOK
  <2>3. 0 \notin Tokens'
    BY <2>2 DEF Tokens
  <2>4. QED
    BY <2>2, <2>3, TokenFacts, TypeInvGivesTypeOK DEF TypeInv, TableOK
<1>1. \A q \in Requests : req'[q].token \in spent =>
        req'[q].token \in undeleted' \/ "taken" \in req'[q].during
  <2> SUFFICES ASSUME NEW q \in Requests, req'[q].token \in spent
               PROVE  req'[q].token \in undeleted' \/ "taken" \in req'[q].during
    OBVIOUS
  <2>1. req'[q] # Idle /\ req'[q].token # 0
    BY <1>0, IdleFacts
  <2>2. CASE Persists(q)
    BY <2>2, OldTokens DEF HeldInv, Persists
  <2>3. CASE req'[q].token \in live
    BY <2>3, OldTokens DEF GoneInv
  <2>4. QED
    BY <2>1, <2>2, <2>3, PersistsOrNew
<1>2. spent \cap live' \subseteq undeleted'
  BY <1>0, OldTokens DEF GoneInv
<1>3. CASE UNCHANGED <<spent, respent>>
  BY <1>1, <1>2, <1>3, OldTokens DEF HeldInv, GoneInv, SpentOnce
<1>4. ASSUME NEW r \in Requests, Spend(r), Moves(r),
             Past(req[r]) \/ (SpendToken(r) /\ req'[r] = Idle)
      PROVE  HeldInv' /\ GoneInv' /\ SpentOnce'
  <2> DEFINE t == req[r].token
  <2>1. CASE "taken" \in req[r].during
    BY <1>3, <1>4, <2>1 DEF Spend
  <2>2. CASE "taken" \notin req[r].during
    <3>1. spent' = spent \cup {t} /\ respent' = respent \cup (spent \cap {t})
      BY <1>4, <2>2 DEF Spend
    <3>2. t \in spent => t \in undeleted
      BY <2>2 DEF HeldInv
    <3>3. t \notin undeleted' =>
            /\ t \notin live'
            /\ \A q \in Requests \ {r} : req[q].token = t => "taken" \in req'[q].during
      <4>1. CASE SpendToken(r)
        BY <4>1, DeletedTogether
      <4>2. CASE Past(req[r]) /\ t \notin undeleted'
        <5>1. t \notin live /\ \A q \in Requests \ {r} : req[q].token = t => "taken" \in req[q].during
          BY <4>2, OldTokens DEF PastInv
        <5>2. t \in Tokens
          <6>1. req[r] \in InFlight /\ HoldsRightToken(req[r])
            BY <1>4, IdleFacts DEF Moves, TypeInv, RequestInv
          <6>2. QED
            BY <4>2, <6>1 DEF Past, HoldsRightToken
        <5>3. t \notin live'
          BY <5>1, <5>2, OldTokens
        <5>4. QED
          BY <1>4, <5>1, <5>3 DEF Moves, Noticed
      <4>3. QED
        BY <1>4, <4>1, <4>2
    <3>4. ASSUME NEW q \in Requests, req'[q].token = t
          PROVE  t \in undeleted' \/ "taken" \in req'[q].during
      <4>1. CASE q # r
        BY <1>4, <3>3, <3>4, <4>1 DEF Moves, Noticed
      <4>2. CASE q = r
        <5>1. req'[r] = Idle
          <6>1. CASE Past(req[r])
            BY <1>4, <6>1, StageFacts DEF Past, Moves
          <6>2. QED
            BY <1>4, <6>1
        <5>2. t = 0
          BY <3>4, <4>2, <5>1, IdleFacts
        <5>3. t \in spent'
          BY <3>1
        <5>4. QED
          BY <1>0, <5>2, <5>3
      <4>3. QED
        BY <4>1, <4>2
    <3>5. HeldInv'
      BY <1>1, <3>1, <3>4 DEF HeldInv
    <3>6. GoneInv'
      BY <1>2, <3>1, <3>3 DEF GoneInv
    <3>7. SpentOnce'
      BY <3>1, <3>2, OldTokens DEF SpentOnce
    <3>8. QED
      BY <3>5, <3>6, <3>7
  <2>3. QED
    BY <2>1, <2>2
<1>5. QED
  BY <1>3, <1>4, SpendCases

\* A session, a reset token or a verification token serves one request,
\* unless two requests held it at the same time or its DELETE failed.
THEOREM TokensServeOnce == Spec => []SpentOnce
<1>1. Init => SpentInv
  BY IdleFacts DEF Init, SpentInv, PastInv, HeldInv, GoneInv, SpentOnce, Past
<1>2. TypeInv /\ SpentInv /\ [Next]_vars => SpentInv'
  BY PastStep, SpentStep DEF SpentInv
<1>3. SpentInv => SpentOnce
  BY DEF SpentInv
<1>4. QED
  BY <1>1, <1>2, <1>3, TypeInvariant, PTL DEF Spec

===============================================================================
