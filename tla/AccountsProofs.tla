--------------------------- MODULE AccountsProofs ---------------------------
(***************************************************************************)
(* Proofs about Accounts, for any number of requests, e-mails, usernames   *)
(* and identities and any choice of failing statements.                    *)
(***************************************************************************)
EXTENDS Accounts, TLAPS

(* The inductive invariant.                                                *)

\* What one request may hold while the tables are us and lk: it has an account
\* from the INSERT or the lookup on, and an identity nobody else linked
\* meanwhile is unlinked until the request links it to its account.
Local(q, us, lk) ==
  /\ q \in RequestType
  /\ q.user <= Len(us)
  /\ q.op = "none" => q.at = "idle"
  /\ q.at # "idle" /\ q.op # "phone" => q.email \in Emails
  /\ q.op = "oauth" => q.identity \in Identities
  /\ q.at \in {"identity", "link"} => q.op = "oauth"
  /\ q.at = "token" => q.op = "register"
  /\ q.at \in {"link", "session", "token"} \/ q.answer = "ok" => q.user # 0
  /\ q.at \in {"idle", "identity", "find", "insert"} => q.user = 0
  /\ q.answer # "none" => q.at = "done"
  /\ q.op = "register" /\ q.user # 0 =>
       us[q.user] = [email |-> q.email, name |-> q.name]
  /\ q.op = "oauth" /\ q.identity \notin q.during =>
       /\ q.at \in {"find", "insert", "link"} => lk[q.identity] = 0
       /\ q.at = "session" \/ q.answer = "ok" => lk[q.identity] = q.user

Rows == [email : Emails, name : Names]

TablesInv ==
  /\ users \in Seq(Rows)
  /\ inactive \subseteq Ids /\ phoned \subseteq Ids
  /\ linked \in [Identities -> 0..Len(users)]
  /\ req \in [Requests -> RequestType]

\* The UNIQUE constraints.
OneAccountEach ==
  \A u, v \in Ids :
    users[u].email = users[v].email \/ users[u].name = users[v].name => u = v

\* An account has one registration.
OneRegistrationEach ==
  \A r, s \in Requests :
    Registered(r) /\ Registered(s) /\ req[r].user = req[s].user => r = s

IInv ==
  /\ TablesInv /\ OneAccountEach /\ OneRegistrationEach
  /\ \A r \in Requests : Local(req[r], users, linked)

-----------------------------------------------------------------------------
(* What keeps Local.                                                       *)

\* A new row leaves the accounts of the other requests alone.
LEMMA LocalGrows ==
  ASSUME NEW us \in Seq(Rows), NEW lk, NEW q, NEW row \in Rows,
         Local(q, us, lk)
  PROVE  Local(q, Append(us, row), lk)
<1>1. Len(Append(us, row)) = Len(us) + 1 /\ Len(us) \in Nat
  OBVIOUS
<1>2. \A u \in 1..Len(us) : Append(us, row)[u] = us[u]
  OBVIOUS
<1>3. q.user \in Nat /\ q.user <= Len(us)
  BY DEF Local, RequestType
<1>4. q.user # 0 => q.user \in 1..Len(us)
  BY <1>1, <1>3
<1>5. QED
  BY <1>1, <1>2, <1>3, <1>4 DEF Local

\* What a request does not see does not matter to it.
LEMMA LocalNotices ==
  ASSUME NEW us, NEW lk, NEW q, NEW what \in Identities \cup {"account"},
         Local(q, us, lk)
  PROVE  Local([q EXCEPT !.during = @ \cup {what}], us, lk)
<1> DEFINE p == [q EXCEPT !.during = @ \cup {what}]
<1>1. q \in RequestType
  BY DEF Local
<1>2. p \in RequestType /\ p.during = q.during \cup {what}
  BY <1>1 DEF RequestType
<1>3. /\ p.op = q.op /\ p.at = q.at /\ p.email = q.email /\ p.name = q.name
      /\ p.identity = q.identity /\ p.user = q.user /\ p.answer = q.answer
  BY <1>1 DEF RequestType
<1> SUFFICES Local(p, us, lk)
  OBVIOUS
<1> HIDE DEF p
<1>4. QED
  BY <1>2, <1>3 DEF Local

\* Linking identity i disturbs only requests for i, which notice it, or have
\* answered and keep the account they were given.
LEMMA LocalLinks ==
  ASSUME NEW us, NEW lk \in [Identities -> Nat], NEW q, NEW i \in Identities,
         NEW u, Local(q, us, lk),
         i \in q.during \/ q.at = "done"
  PROVE  Local(q, us, [lk EXCEPT ![i] = Link(@, u)])
<1> DEFINE mk == [lk EXCEPT ![i] = Link(@, u)]
<1>a. mk[i] = Link(lk[i], u) /\ \A j \in Identities \ {i} : mk[j] = lk[j]
  OBVIOUS
<1> SUFFICES Local(q, us, mk)
  OBVIOUS
<1> HIDE DEF mk
<1>1. CASE q.identity = i /\ q.op = "oauth"
  <2>1. lk[i] # 0 => mk[i] = lk[i]
    BY <1>a DEF Link
  <2>2. i \notin q.during => q.at = "done"
    OBVIOUS
  <2>3. q.answer = "ok" => q.user # 0
    BY DEF Local
  <2>4. q.answer = "ok" /\ i \notin q.during => mk[i] = q.user
    BY <1>1, <2>1, <2>3 DEF Local
  <2>5. QED
    BY <1>1, <2>2, <2>4 DEF Local
<1>2. CASE ~(q.identity = i /\ q.op = "oauth")
  <2>1. q.op = "oauth" => mk[q.identity] = lk[q.identity]
    BY <1>2, <1>a DEF Local
  <2>2. QED
    BY <2>1 DEF Local
<1>3. QED
  BY <1>1, <1>2

-----------------------------------------------------------------------------
(* Steps that change nothing but the request that takes them.              *)

LEMMA LocalStep ==
  ASSUME IInv, NEW r \in Requests, NEW q,
         UNCHANGED <<users, inactive, phoned, linked>>,
         req' = [req EXCEPT ![r] = q],
         Local(q, users, linked),
         q.op = "register" /\ q.user # 0 =>
           req[r].op = "register" /\ req[r].user = q.user
  PROVE  IInv'
<1>1. q \in RequestType
  BY DEF Local
<1>2. req \in [Requests -> RequestType] /\ req' \in [Requests -> RequestType]
  BY <1>1 DEF IInv, TablesInv
<1>3. req'[r] = q /\ \A s \in Requests \ {r} : req'[s] = req[s]
  BY <1>2
<1>4. TablesInv'
  BY <1>2 DEF IInv, TablesInv, Ids
<1>5. OneAccountEach'
  BY DEF IInv, OneAccountEach, Ids
<1>6. OneRegistrationEach'
  BY <1>3 DEF IInv, OneRegistrationEach, Registered
<1>7. \A s \in Requests : Local(req'[s], users', linked')
  BY <1>3 DEF IInv
<1>8. QED
  BY <1>4, <1>5, <1>6, <1>7 DEF IInv

LEMMA ReplyInv ==
  ASSUME IInv, NEW r \in Requests, NEW a \in Answers,
         UNCHANGED <<users, inactive, phoned, linked>>,
         Reply(r, a), a # "none", req[r].at # "idle",
         a = "ok" => req[r].at \in {"session", "token"}
  PROVE  IInv'
<1> DEFINE q == req[r]
           p == [q EXCEPT !.at = "done", !.answer = a]
<1>1. req \in [Requests -> RequestType] /\ Local(q, users, linked)
  BY DEF IInv, TablesInv
<1>2. req' = [req EXCEPT ![r] = p]
  BY <1>1 DEF Reply
<1>3. /\ p \in RequestType /\ p.at = "done" /\ p.answer = a
      /\ p.op = q.op /\ p.email = q.email /\ p.name = q.name
      /\ p.identity = q.identity /\ p.user = q.user /\ p.during = q.during
  BY <1>1 DEF RequestType, Steps
<1> HIDE DEF p
<1>4. Local(p, users, linked)
  BY <1>1, <1>3 DEF Local
<1>5. QED
  BY <1>2, <1>3, <1>4, LocalStep

LEMMA GotoInv ==
  ASSUME IInv, NEW r \in Requests, NEW step \in Steps,
         UNCHANGED <<users, inactive, phoned, linked>>,
         Goto(r, step),
         \/ At(r, "identity") /\ step = "find" /\ linked[req[r].identity] = 0
         \/ At(r, "find") /\ step = "insert"
         \/ At(r, "session") /\ step = "token" /\ req[r].op = "register"
  PROVE  IInv'
<1> DEFINE q == req[r]
           p == [q EXCEPT !.at = step]
<1>1. req \in [Requests -> RequestType] /\ Local(q, users, linked)
  BY DEF IInv, TablesInv
<1>2. req' = [req EXCEPT ![r] = p]
  BY <1>1 DEF Goto
<1>3. /\ p \in RequestType /\ p.at = step /\ p.answer = q.answer
      /\ p.op = q.op /\ p.email = q.email /\ p.name = q.name
      /\ p.identity = q.identity /\ p.user = q.user /\ p.during = q.during
  BY <1>1 DEF RequestType
<1> HIDE DEF p
<1>4. Local(p, users, linked)
  BY <1>1, <1>3 DEF Local, At
<1>5. QED
  BY <1>2, <1>3, <1>4, LocalStep

LEMMA ServeInv ==
  ASSUME IInv, NEW r \in Requests, NEW u \in Ids, NEW off \in BOOLEAN,
         UNCHANGED <<users, inactive, phoned, linked>>,
         Serve(r, u, off),
         \/ At(r, "identity") /\ linked[req[r].identity] = u
         \/ At(r, "find") /\ req[r].op = "phone"
  PROVE  IInv'
<1> DEFINE q == req[r]
           p == [q EXCEPT !.at = IF off THEN "done" ELSE "session",
                          !.answer = IF off THEN "inactive" ELSE @,
                          !.user = u, !.off = off]
<1>1. req \in [Requests -> RequestType] /\ Local(q, users, linked)
  BY DEF IInv, TablesInv
<1>2. req' = [req EXCEPT ![r] = p]
  BY <1>1 DEF Serve
<1>3. u \in Nat /\ u <= Len(users) /\ u # 0
  BY DEF Ids, IInv, TablesInv
<1>4. q.answer = "none" /\ (At(r, "identity") => q.op = "oauth")
  BY <1>1 DEF Local, At
<1>5. /\ p \in RequestType
      /\ p.at \in {"done", "session"} /\ p.answer \in {"none", "inactive"}
      /\ p.answer = "inactive" => p.at = "done"
      /\ p.op = q.op /\ p.email = q.email /\ p.name = q.name
      /\ p.identity = q.identity /\ p.user = u /\ p.during = q.during
  BY <1>1, <1>3, <1>4 DEF RequestType, Steps, Answers
<1> HIDE DEF p
<1>6. q.op # "register"
  BY <1>4
<1>7. Local(p, users, linked)
  BY <1>1, <1>3, <1>4, <1>5, <1>6 DEF Local, At
<1>8. QED
  BY <1>2, <1>5, <1>6, <1>7, LocalStep

-----------------------------------------------------------------------------
(* One lemma per action.                                                   *)

LEMMA BeginInv ==
  ASSUME IInv, NEW r \in Requests, NEW op \in {"register", "oauth", "phone"},
         NEW e \in Emails \cup {NoEmail}, NEW n \in Names,
         NEW i \in Identities \cup {NoIdentity},
         NEW step \in {"identity", "find"},
         Begin(r, op, e, n, i, step),
         op # "phone" => e \in Emails,
         op = "oauth" <=> step = "identity",
         op = "oauth" => i \in Identities
  PROVE  IInv'
<1> DEFINE p == [Idle EXCEPT !.op = op, !.at = step, !.email = e,
                             !.name = n, !.identity = i]
<1>1. req' = [req EXCEPT ![r] = p] /\ UNCHANGED <<users, inactive, phoned, linked>>
  BY DEF Begin
<1>2. /\ p \in RequestType /\ p.at = step /\ p.answer = "none"
      /\ p.op = op /\ p.email = e /\ p.name = n /\ p.identity = i
      /\ p.user = 0
  BY AccountsAssumption DEF Idle, RequestType, Steps, Answers
<1> HIDE DEF p
<1>3. Len(users) \in Nat
  BY DEF IInv, TablesInv
<1>4. Local(p, users, linked)
  BY <1>2, <1>3 DEF Local
<1>5. QED
  BY <1>1, <1>2, <1>4, LocalStep

LEMMA ArriveInv ==
  ASSUME IInv, NEW r \in Requests, Arrive(r)
  PROVE  IInv'
<1>1. CASE \E e \in Emails, n \in Names :
             Begin(r, "register", e, n, NoIdentity, "find")
  BY <1>1, BeginInv
<1>2. CASE \E e \in Emails, i \in Identities :
             Begin(r, "oauth", e, NameFor[i][e], i, "identity")
  <2>1. PICK e \in Emails, i \in Identities :
               Begin(r, "oauth", e, NameFor[i][e], i, "identity")
    BY <1>2
  <2>2. NameFor[i][e] \in Names
    BY AccountsAssumption
  <2>3. QED
    BY <2>1, <2>2, BeginInv
<1>3. CASE Begin(r, "phone", NoEmail, NoName, NoIdentity, "find")
  BY <1>3, BeginInv, AccountsAssumption
<1>4. QED
  BY <1>1, <1>2, <1>3 DEF Arrive

LEMMA FindIdentityInv ==
  ASSUME IInv, NEW r \in Requests, FindIdentity(r)
  PROVE  IInv'
<1> DEFINE u == linked[req[r].identity]
<1>1. UNCHANGED <<users, inactive, phoned, linked>> /\ At(r, "identity")
  BY DEF FindIdentity
<1>2. u \in 0..Len(users) /\ Len(users) \in Nat
  <2>1. req[r].identity \in Identities
    BY <1>1 DEF IInv, Local, At
  <2>2. QED
    BY <2>1 DEF IInv, TablesInv
<1>3. CASE u # 0 /\ Serve(r, u, u \in inactive)
  <2>1. u \in Ids
    BY <1>2, <1>3 DEF Ids, IInv, TablesInv
  <2>2. (u \in inactive) \in BOOLEAN
    OBVIOUS
  <2>3. QED
    BY <1>1, <1>3, <2>1, <2>2, ServeInv
<1>4. CASE u = 0 /\ Goto(r, "find")
  BY <1>1, <1>4, GotoInv DEF Steps
<1>5. CASE Reply(r, "error")
  BY <1>1, <1>5, ReplyInv DEF Answers, At
<1>6. QED
  BY <1>3, <1>4, <1>5 DEF FindIdentity

LEMMA FindEmailInv ==
  ASSUME IInv, NEW r \in Requests, FindEmail(r)
  PROVE  IInv'
<1> DEFINE q == req[r]
           u == TheUser(q.email)
           off == u \in inactive
           p == [q EXCEPT !.at = "link", !.user = u, !.off = off]
<1>1. UNCHANGED <<users, inactive, phoned, linked>> /\ At(r, "find")
      /\ q.op # "phone"
  BY DEF FindEmail
<1>2. req \in [Requests -> RequestType] /\ Local(q, users, linked)
  BY DEF IInv, TablesInv
<1>3. CASE Goto(r, "insert")
  BY <1>1, <1>3, GotoInv DEF Steps
<1>4. CASE Reply(r, "exists") \/ Reply(r, "error")
  BY <1>1, <1>4, ReplyInv DEF Answers, At
<1>5. CASE /\ WithEmail(q.email) # {} /\ q.op # "register"
           /\ req' = [req EXCEPT ![r].at = "link", ![r].user = u,
                                 ![r].off = u \in inactive]
  <2>1. u \in Ids
    BY <1>5 DEF TheUser, WithEmail
  <2>2. u \in Nat /\ u # 0 /\ u <= Len(users)
    BY <2>1 DEF Ids, IInv, TablesInv
  <2>3. req' = [req EXCEPT ![r] = p]
    BY <1>2, <1>5
  <2>a. off \in BOOLEAN
    OBVIOUS
  <2> HIDE DEF off, u
  <2>4. /\ p \in RequestType /\ p.at = "link" /\ p.answer = q.answer
        /\ p.op = q.op /\ p.email = q.email /\ p.name = q.name
        /\ p.identity = q.identity /\ p.user = u /\ p.during = q.during
    BY <1>2, <2>2, <2>a DEF RequestType, Steps, Local
  <2> HIDE DEF p
  <2>5. q.op = "oauth"
    BY <1>1, <1>2, <1>5 DEF RequestType, Local, At
  <2>6. Local(p, users, linked)
    BY <1>1, <1>2, <2>2, <2>4, <2>5 DEF Local, At
  <2>7. QED
    BY <1>1, <2>3, <2>4, <2>5, <2>6, LocalStep
<1>6. QED
  BY <1>3, <1>4, <1>5 DEF FindEmail

LEMMA FindPhoneInv ==
  ASSUME IInv, NEW r \in Requests, FindPhone(r)
  PROVE  IInv'
<1>1. UNCHANGED <<users, inactive, phoned, linked>> /\ At(r, "find")
      /\ req[r].op = "phone"
  BY DEF FindPhone
<1>2. CASE Goto(r, "insert")
  BY <1>1, <1>2, GotoInv DEF Steps
<1>3. CASE \E u \in phoned : Serve(r, u, u \in inactive)
  <2>1. PICK u \in phoned : Serve(r, u, u \in inactive)
    BY <1>3
  <2>2. u \in Ids /\ (u \in inactive) \in BOOLEAN
    BY DEF IInv, TablesInv
  <2>3. QED
    BY <1>1, <2>1, <2>2, ServeInv
<1>4. CASE Reply(r, "error")
  BY <1>1, <1>4, ReplyInv DEF Answers, At
<1>5. QED
  BY <1>2, <1>3, <1>4 DEF FindPhone

LEMMA SessionInv ==
  ASSUME IInv, NEW r \in Requests, CreateSession(r)
  PROVE  IInv'
<1>1. UNCHANGED <<users, inactive, phoned, linked>> /\ At(r, "session")
  BY DEF CreateSession
<1>2. CASE Reply(r, "error") \/ Reply(r, "ok")
  BY <1>1, <1>2, ReplyInv DEF Answers, At
<1>3. CASE req[r].op = "register" /\ Goto(r, "token")
  BY <1>1, <1>3, GotoInv DEF Steps
<1>4. QED
  BY <1>2, <1>3 DEF CreateSession

LEMMA VerificationInv ==
  ASSUME IInv, NEW r \in Requests, IssueVerification(r)
  PROVE  IInv'
<1>1. UNCHANGED <<users, inactive, phoned, linked>> /\ At(r, "token")
  BY DEF IssueVerification
<1>2. Reply(r, "error") \/ Reply(r, "ok")
  BY DEF IssueVerification
<1>3. QED
  BY <1>1, <1>2, ReplyInv DEF Answers, At

LEMMA OutsideInv ==
  ASSUME IInv, NEW u \in Ids, SetPhone(u) \/ Deactivate(u)
  PROVE  IInv'
<1>1. UNCHANGED <<users, linked, req>>
  BY DEF SetPhone, Deactivate
<1>2. inactive' \subseteq Ids /\ phoned' \subseteq Ids
  BY DEF SetPhone, Deactivate, IInv, TablesInv
<1>3. QED
  BY <1>1, <1>2 DEF IInv, TablesInv, Ids, OneAccountEach,
                    OneRegistrationEach, Registered

\* What the requests hold after one of them noticed the others: only during
\* grew, for those that are still in flight.
LEMMA NoticedFacts ==
  ASSUME IInv, NEW r \in Requests, NEW what \in Identities \cup {"account"},
         NEW s \in Requests \ {r}
  PROVE  LET q == Noticed(r, what)[s] IN
         /\ Local(q, users, linked)
         /\ q.op = req[s].op /\ q.user = req[s].user
         /\ what \in q.during \/ q.at = "done"
<1> DEFINE q == req[s]
           p == [q EXCEPT !.during = @ \cup {what}]
<1>1. Local(q, users, linked) /\ q \in RequestType
  BY DEF IInv, TablesInv
<1>2. Local(p, users, linked)
  BY <1>1, LocalNotices
<1>3. p.op = q.op /\ p.user = q.user /\ what \in p.during
  BY <1>1 DEF RequestType
<1>4. Noticed(r, what)[s] = IF At(s, "done") THEN q ELSE p
  BY DEF Noticed
<1> HIDE DEF p
<1>5. QED
  BY <1>1, <1>2, <1>3, <1>4 DEF At

\* The INSERT that finds e-mail and username free: its account is new.
LEMMA InsertedInv ==
  ASSUME IInv, NEW r \in Requests, At(r, "insert"), Insertable(req[r]),
         UNCHANGED <<inactive, phoned, linked>>,
         users' = Append(users, [email |-> req[r].email, name |-> req[r].name]),
         NEW p, req' = [Noticed(r, "account") EXCEPT ![r] = p],
         \/ p = [req[r] EXCEPT !.at = "done", !.answer = "error"]
         \/ p = [req[r] EXCEPT !.user = Len(users) + 1,
                   !.at = IF req[r].op = "oauth" THEN "link" ELSE "session"]
  PROVE  IInv'
<1> DEFINE q   == req[r]
           row == [email |-> q.email, name |-> q.name]
<1>1. users \in Seq(Rows) /\ Len(users) \in Nat
  BY DEF IInv, TablesInv
<1>2. Local(q, users, linked) /\ q \in RequestType
  BY DEF IInv, TablesInv
<1>3. row \in Rows
  BY <1>2 DEF At, Insertable, Local, RequestType, Rows
<1>4. /\ users' \in Seq(Rows) /\ Len(users') = Len(users) + 1
      /\ users'[Len(users) + 1] = row
      /\ \A u \in Ids : users'[u] = users[u]
  BY <1>1, <1>3 DEF Ids
<1>5. Ids' = Ids \cup {Len(users) + 1} /\ Len(users) + 1 \notin Ids
  BY <1>1, <1>4 DEF Ids
<1>6. /\ p \in RequestType /\ p.op = q.op
      /\ p.email = q.email /\ p.name = q.name
      /\ p.identity = q.identity /\ p.during = q.during
      /\ \/ p.at = "done" /\ p.answer = "error" /\ p.user = q.user
         \/ /\ p.user = Len(users) + 1 /\ p.answer = q.answer
            /\ p.at = IF q.op = "oauth" THEN "link" ELSE "session"
  <2>1. CASE p = [q EXCEPT !.at = "done", !.answer = "error"]
    BY <1>2, <2>1 DEF RequestType, Steps, Answers
  <2>2. CASE p = [q EXCEPT !.user = Len(users) + 1,
                    !.at = IF q.op = "oauth" THEN "link" ELSE "session"]
    <3> DEFINE u    == Len(users) + 1
               step == IF q.op = "oauth" THEN "link" ELSE "session"
    <3>1. u \in Nat /\ step \in Steps
      BY <1>1 DEF Steps
    <3>2. p = [q EXCEPT !.user = u, !.at = step]
      BY <2>2
    <3> HIDE DEF u, step
    <3>3. /\ p \in RequestType /\ p.op = q.op
          /\ p.email = q.email /\ p.name = q.name
          /\ p.identity = q.identity /\ p.during = q.during
          /\ p.user = u /\ p.answer = q.answer /\ p.at = step
      BY <1>2, <3>1, <3>2 DEF RequestType
    <3>4. QED
      BY <3>3 DEF u, step
  <2>3. QED
    BY <2>1, <2>2
<1>7. q.user = 0 /\ q.answer = "none" /\ q.op \in {"register", "oauth"}
  BY <1>2 DEF Local, At, Insertable, RequestType
<1>8. Local(p, users', linked)
  <2>1. Local(q, users', linked)
    BY <1>1, <1>2, <1>3, LocalGrows
  <2>2. QED
    BY <2>1, <1>1, <1>4, <1>6, <1>7 DEF Local, At
<1>9. ASSUME NEW s \in Requests \ {r}
      PROVE  /\ Local(req'[s], users', linked)
             /\ req'[s].op = req[s].op /\ req'[s].user = req[s].user
  <2>1. req'[s] = Noticed(r, "account")[s]
    BY DEF Noticed
  <2>2. QED
    BY <2>1, <1>1, <1>3, NoticedFacts, LocalGrows
<1>10. req'[r] = p
  BY DEF Noticed
<1>11. TablesInv'
  <2>1. req' \in [Requests -> RequestType]
    <3>1. ASSUME NEW s \in Requests PROVE req'[s] \in RequestType
      <4>1. CASE s = r
        BY <1>6, <1>10, <4>1
      <4>2. CASE s # r
        <5>1. Local(req'[s], users', linked)
          BY <1>9, <4>2
        <5>2. QED
          BY <5>1 DEF Local
      <4>3. QED
        BY <4>1, <4>2
    <3>2. QED
      BY <3>1 DEF Noticed
  <2>2. linked' \in [Identities -> 0..Len(users')]
    <3>1. 0..Len(users) \subseteq 0..Len(users')
      BY <1>1, <1>4
    <3>2. QED
      BY <3>1 DEF IInv, TablesInv
  <2>3. QED
    BY <1>4, <1>5, <2>1, <2>2 DEF IInv, TablesInv
<1>12. OneAccountEach'
  <2>1. \A u \in Ids : users'[u].email # row.email /\ users'[u].name # row.name
    BY <1>4 DEF Insertable, Free
  <2>2. ASSUME NEW u \in Ids', NEW v \in Ids',
               users'[u].email = users'[v].email \/ users'[u].name = users'[v].name
        PROVE  u = v
    <3>1. CASE u \in Ids /\ v \in Ids
      BY <1>4, <2>2, <3>1 DEF IInv, OneAccountEach
    <3>2. CASE u \notin Ids \/ v \notin Ids
      BY <1>4, <1>5, <2>1, <2>2, <3>2
    <3>3. QED
      BY <3>1, <3>2
  <2>3. QED
    BY <2>2 DEF OneAccountEach
<1>13. OneRegistrationEach'
  <2>1. \A s \in Requests : req[s].user \in Nat /\ req[s].user <= Len(users)
    BY DEF IInv, TablesInv, Local, RequestType
  <2>2. \A s \in Requests \ {r} : Registered(s)' <=> Registered(s)
    BY <1>9 DEF Registered
  <2>3. Registered(r)' => p.user = Len(users) + 1
    BY <1>6, <1>7, <1>10 DEF Registered
  <2>4. QED
    BY <1>1, <1>9, <1>10, <2>1, <2>2, <2>3 DEF IInv, OneRegistrationEach
<1>14. QED
  BY <1>8, <1>9, <1>10, <1>11, <1>12, <1>13 DEF IInv

LEMMA InsertUserInv ==
  ASSUME IInv, NEW r \in Requests, InsertUser(r)
  PROVE  IInv'
<1> DEFINE q == req[r]
<1>1. At(r, "insert") /\ UNCHANGED <<inactive, phoned, linked>>
  BY DEF InsertUser
<1>2. CASE Reply(r, "error") /\ UNCHANGED users
  BY <1>1, <1>2, ReplyInv DEF Answers, At
<1>3. CASE /\ Insertable(q)
           /\ \E applied, ok \in BOOLEAN :
                /\ Exec("insert", applied, ok)
                /\ users' = IF applied
                     THEN Append(users, [email |-> q.email, name |-> q.name])
                     ELSE users
                /\ req' = [(IF applied THEN Noticed(r, "account") ELSE req)
                     EXCEPT ![r] =
                       IF ~ok THEN [q EXCEPT !.at = "done", !.answer = "error"]
                       ELSE [q EXCEPT !.user = Len(users) + 1,
                               !.at = IF q.op = "oauth" THEN "link"
                                                        ELSE "session"]]
  <2>1. PICK applied \in BOOLEAN, ok \in BOOLEAN :
                /\ Exec("insert", applied, ok)
                /\ users' = IF applied
                     THEN Append(users, [email |-> q.email, name |-> q.name])
                     ELSE users
                /\ req' = [(IF applied THEN Noticed(r, "account") ELSE req)
                     EXCEPT ![r] =
                       IF ~ok THEN [q EXCEPT !.at = "done", !.answer = "error"]
                       ELSE [q EXCEPT !.user = Len(users) + 1,
                               !.at = IF q.op = "oauth" THEN "link"
                                                        ELSE "session"]]
    BY <1>3
  <2>2. CASE applied
    <3> DEFINE p == IF ~ok THEN [q EXCEPT !.at = "done", !.answer = "error"]
                    ELSE [q EXCEPT !.user = Len(users) + 1,
                            !.at = IF q.op = "oauth" THEN "link"
                                                     ELSE "session"]
    <3>1. req' = [Noticed(r, "account") EXCEPT ![r] = p]
      BY <2>1, <2>2
    <3>2. \/ p = [q EXCEPT !.at = "done", !.answer = "error"]
          \/ p = [q EXCEPT !.user = Len(users) + 1,
                    !.at = IF q.op = "oauth" THEN "link" ELSE "session"]
      OBVIOUS
    <3>3. users' = Append(users, [email |-> q.email, name |-> q.name])
      BY <2>1, <2>2
    <3> HIDE DEF p
    <3>4. QED
      BY <1>1, <1>3, <3>1, <3>2, <3>3, InsertedInv
  <2>3. CASE ~applied
    <3>1. ~ok
      BY <2>1, <2>3 DEF Exec
    <3>2. Reply(r, "error") /\ UNCHANGED users
      BY <2>1, <2>3, <3>1 DEF Reply, IInv, TablesInv
    <3>3. QED
      BY <3>2, <1>2
  <2>4. QED
    BY <2>2, <2>3
<1>4. QED
  BY <1>2, <1>3 DEF InsertUser

\* The upsert: the identity keeps an account it has, and whoever else was
\* about to link it notices.
LEMMA LinkedInv ==
  ASSUME IInv, NEW r \in Requests, At(r, "link"),
         UNCHANGED <<users, inactive, phoned>>,
         linked' = [linked EXCEPT
                      ![req[r].identity] = Link(@, req[r].user)],
         NEW step \in {"done", "session"}, NEW a \in {"none", "error", "inactive"},
         a # "none" => step = "done",
         req' = [Noticed(r, req[r].identity) EXCEPT
                   ![r] = [req[r] EXCEPT !.at = step, !.answer = a]]
  PROVE  IInv'
<1> DEFINE q == req[r]
           i == q.identity
           p == [q EXCEPT !.at = step, !.answer = a]
<1>1. Local(q, users, linked) /\ q \in RequestType /\ Len(users) \in Nat
      /\ linked \in [Identities -> 0..Len(users)]
  BY DEF IInv, TablesInv
<1>2. q.op = "oauth" /\ i \in Identities /\ q.user # 0 /\ q.user \in 1..Len(users)
      /\ q.answer = "none"
  BY <1>1 DEF Local, At, RequestType
<1>3. /\ p \in RequestType /\ p.at = step /\ p.answer = a
      /\ p.op = q.op /\ p.email = q.email /\ p.name = q.name
      /\ p.identity = i /\ p.user = q.user /\ p.during = q.during
  BY <1>1 DEF RequestType, Steps, Answers
<1>4. /\ linked'[i] = IF linked[i] = 0 THEN q.user ELSE linked[i]
      /\ \A j \in Identities \ {i} : linked'[j] = linked[j]
      /\ linked' \in [Identities -> 0..Len(users)]
  BY <1>1, <1>2 DEF Link
<1>5. req' = [Noticed(r, i) EXCEPT ![r] = p]
  OBVIOUS
<1> HIDE DEF p
<1>6. i \notin q.during => linked[i] = 0
  BY <1>1, <1>2 DEF Local, At
<1>7. Local(p, users, linked')
  BY <1>1, <1>2, <1>3, <1>4, <1>6 DEF Local
<1>8. ASSUME NEW s \in Requests \ {r}
      PROVE  /\ Local(req'[s], users, linked')
             /\ req'[s].op = req[s].op /\ req'[s].user = req[s].user
  <2>1. req'[s] = Noticed(r, i)[s]
    BY <1>5 DEF Noticed
  <2>2. /\ Local(req'[s], users, linked)
        /\ req'[s].op = req[s].op /\ req'[s].user = req[s].user
        /\ i \in req'[s].during \/ req'[s].at = "done"
    BY <1>2, <2>1, NoticedFacts
  <2>3. linked \in [Identities -> Nat]
    BY <1>1
  <2>4. Local(req'[s], users, [linked EXCEPT ![i] = Link(@, q.user)])
    BY <1>2, <2>2, <2>3, LocalLinks
  <2>5. QED
    BY <2>2, <2>4
<1>9. req'[r] = p
  BY <1>5 DEF Noticed
<1>10. req' \in [Requests -> RequestType]
  <2>a. \A s \in Requests \ {r} : Local(req'[s], users, linked')
    BY <1>8
  <2>b. \A s \in Requests \ {r} : req'[s] \in RequestType
    BY <2>a DEF Local
  <2>1. \A s \in Requests : req'[s] \in RequestType
    BY <1>3, <1>9, <2>b
  <2>2. QED
    BY <1>5, <2>1 DEF Noticed
<1>11. TablesInv' /\ OneAccountEach'
  BY <1>4, <1>10 DEF IInv, TablesInv, OneAccountEach, Ids
<1>12. OneRegistrationEach'
  <2>1. \A s \in Requests : Registered(s)' => Registered(s)
    BY <1>2, <1>3, <1>8, <1>9 DEF Registered
  <2>2. \A s \in Requests : req'[s].user = req[s].user
    BY <1>3, <1>8, <1>9
  <2>3. QED
    BY <2>1, <2>2 DEF IInv, OneRegistrationEach
<1>13. QED
  BY <1>7, <1>8, <1>9, <1>11, <1>12 DEF IInv

LEMMA LinkIdentityInv ==
  ASSUME IInv, NEW r \in Requests, LinkIdentity(r)
  PROVE  IInv'
<1> DEFINE q       == req[r]
           next(ok) == IF ~ok        THEN [q EXCEPT !.at = "done", !.answer = "error"]
                       ELSE IF q.off THEN [q EXCEPT !.at = "done", !.answer = "inactive"]
                       ELSE               [q EXCEPT !.at = "session"]
<1>1. At(r, "link") /\ UNCHANGED <<users, inactive, phoned>>
  BY DEF LinkIdentity
<1>2. req \in [Requests -> RequestType] /\ q \in RequestType /\ q.answer = "none"
  BY <1>1 DEF IInv, TablesInv, Local, At
<1>3. PICK applied \in BOOLEAN, ok \in BOOLEAN :
        /\ Exec("link", applied, ok)
        /\ linked' = IF applied
             THEN [linked EXCEPT ![q.identity] = Link(@, q.user)] ELSE linked
        /\ req' = [(IF applied THEN Noticed(r, q.identity) ELSE req)
                     EXCEPT ![r] = next(ok)]
  BY DEF LinkIdentity
<1>4. CASE applied
  <2>1. /\ linked' = [linked EXCEPT ![q.identity] = Link(@, q.user)]
        /\ req' = [Noticed(r, q.identity) EXCEPT ![r] = next(ok)]
    BY <1>3, <1>4
  <2>2. CASE ~ok
    BY <1>1, <2>1, <2>2, LinkedInv
  <2>3. CASE ok /\ q.off
    BY <1>1, <2>1, <2>3, LinkedInv
  <2>4. CASE ok /\ ~q.off
    <3>1. next(ok) = [q EXCEPT !.at = "session", !.answer = "none"]
      BY <1>2, <2>4 DEF RequestType
    <3>2. QED
      BY <1>1, <2>1, <3>1, LinkedInv
  <2>5. QED
    BY <2>2, <2>3, <2>4
<1>5. CASE ~applied
  <2>1. ~ok
    BY <1>3, <1>5 DEF Exec
  <2>2. Reply(r, "error") /\ UNCHANGED <<users, inactive, phoned, linked>>
    BY <1>1, <1>2, <1>3, <1>5, <2>1 DEF Reply
  <2>3. QED
    BY <1>1, <2>2, ReplyInv DEF Answers, At
<1>6. QED
  BY <1>4, <1>5

-----------------------------------------------------------------------------
(* The induction.                                                          *)

LEMMA InitIInv == Init => IInv
<1> SUFFICES ASSUME Init PROVE IInv
  OBVIOUS
<1> USE DEF Init
<1>1. Idle \in RequestType
  BY AccountsAssumption DEF Idle, RequestType, Steps, Answers
<1>2. users \in Seq(Rows) /\ Len(users) = 0 /\ Ids = {}
  BY DEF Ids
<1>3. TablesInv
  BY <1>1, <1>2 DEF TablesInv
<1>4. OneAccountEach /\ OneRegistrationEach
  BY <1>2 DEF OneAccountEach, OneRegistrationEach, Registered, Idle
<1>5. \A r \in Requests : Local(req[r], users, linked)
  BY <1>1, <1>2 DEF Local, Idle
<1>6. QED
  BY <1>3, <1>4, <1>5 DEF IInv

LEMMA NextIInv == IInv /\ [Next]_vars => IInv'
<1> SUFFICES ASSUME IInv, [Next]_vars PROVE IInv'
  OBVIOUS
<1>1. CASE UNCHANGED vars
  BY <1>1 DEF vars, IInv, TablesInv, Ids, OneAccountEach,
              OneRegistrationEach, Registered
<1>2. CASE \E r \in Requests : Arrive(r)
  BY <1>2, ArriveInv
<1>3. CASE \E r \in Requests : Continue(r)
  BY <1>3, FindIdentityInv, FindEmailInv, FindPhoneInv, InsertUserInv,
     LinkIdentityInv, SessionInv, VerificationInv DEF Continue
<1>4. CASE \E u \in Ids : SetPhone(u) \/ Deactivate(u)
  BY <1>4, OutsideInv
<1>5. QED
  BY <1>1, <1>2, <1>3, <1>4 DEF Next, AtRest

-----------------------------------------------------------------------------
(* The theorems.                                                           *)

\* The inductive invariant holds in every reachable state.
THEOREM Inductive == Spec => []IInv
<1>1. Init => IInv
  BY InitIInv
<1>2. IInv /\ [Next]_vars => IInv'
  BY NextIInv
<1>3. QED
  BY <1>1, <1>2, PTL DEF Spec

\* Type correctness, with what a request holds at each step.
THEOREM TypeCorrect == Spec => []TypeOK
<1>1. IInv => TypeOK
  <2> SUFFICES ASSUME IInv PROVE TypeOK
    OBVIOUS
  <2>1. TablesInv
    BY DEF IInv
  <2>2. ASSUME NEW r \in Requests
        PROVE  /\ At(r, "link") \/ At(r, "session") \/ At(r, "token") =>
                    req[r].user \in Ids
               /\ At(r, "link") \/ At(r, "identity") =>
                    req[r].identity \in Identities
               /\ At(r, "insert") /\ req[r].op # "phone" =>
                    req[r].email \in Emails
    <3>1. Local(req[r], users, linked) /\ req[r].user \in Nat
          /\ Len(users) \in Nat /\ Ids = 1..Len(users)
      BY DEF IInv, TablesInv, Ids, RequestType
    <3>2. req[r].user # 0 => req[r].user \in Ids
      BY <3>1 DEF Local
    <3>3. QED
      BY <3>1, <3>2 DEF Local, At
  <2>3. QED
    BY <2>1, <2>2 DEF TypeOK, TablesInv, Rows
<1>2. QED
  BY <1>1, Inductive, PTL

\* Of any number of overlapping registrations one per e-mail and username
\* gets an account, and the one it asked for.
THEOREM OneWinner == Spec => []OneRegistrationWins
<1>1. IInv => OneRegistrationWins
  <2> SUFFICES ASSUME IInv, NEW r \in Requests, NEW s \in Requests,
                      Registered(r), Registered(s)
               PROVE  /\ users[req[r].user] =
                           [email |-> req[r].email, name |-> req[r].name]
                      /\ req[r].email = req[s].email
                           \/ req[r].name = req[s].name => r = s
    BY DEF OneRegistrationWins
  <2>1. \A q \in {r, s} :
          /\ users[req[q].user] = [email |-> req[q].email, name |-> req[q].name]
          /\ req[q].user \in Ids
    BY DEF IInv, Registered, Local, RequestType, TablesInv, Ids
  <2>2. req[r].email = req[s].email \/ req[r].name = req[s].name =>
          req[r].user = req[s].user
    BY <2>1 DEF IInv, OneAccountEach
  <2>3. QED
    BY <2>1, <2>2 DEF IInv, OneRegistrationEach
<1>2. QED
  BY <1>1, Inductive, PTL

\* Whoever is told "ok" has an account, and the right one.
THEOREM OwnAccount == Spec => []AnswersOwnAccount
<1>1. IInv => AnswersOwnAccount
  <2> SUFFICES ASSUME IInv, NEW r \in Requests, req[r].answer = "ok"
               PROVE  /\ req[r].user \in Ids
                      /\ req[r].op = "register" =>
                           users[req[r].user].email = req[r].email
                      /\ req[r].op = "oauth"
                         /\ req[r].identity \notin req[r].during =>
                           linked[req[r].identity] = req[r].user
    BY DEF AnswersOwnAccount
  <2>1. Local(req[r], users, linked) /\ req[r] \in RequestType
        /\ Len(users) \in Nat /\ Ids = 1..Len(users)
    BY DEF IInv, TablesInv, Ids
  <2>2. req[r].user \in Ids
    BY <2>1 DEF Local, RequestType
  <2>3. QED
    BY <2>1, <2>2 DEF Local
<1>2. QED
  BY <1>1, Inductive, PTL

\* An identity never moves to another account.
THEOREM IdentityStays == Spec => IdentityKeepsAccount
<1>1. IInv /\ [Next]_vars =>
        [\A i \in Identities : linked[i] # 0 => linked'[i] = linked[i]]_vars
  <2> SUFFICES ASSUME IInv, Next, NEW i \in Identities, linked[i] # 0
               PROVE  linked'[i] = linked[i]
    OBVIOUS
  <2>1. linked \in [Identities -> 0..Len(users)]
    BY DEF IInv, TablesInv
  <2>2. linked' = linked \/ \E r \in Requests : LinkIdentity(r)
    BY DEF Next, Arrive, Begin, Continue, FindIdentity, FindEmail, FindPhone,
           InsertUser, CreateSession, IssueVerification, SetPhone, Deactivate,
           AtRest, vars
  <2>3. ASSUME NEW r \in Requests, LinkIdentity(r)
        PROVE  linked'[i] = linked[i]
    <3>1. linked' = linked
          \/ linked' = [linked EXCEPT ![req[r].identity] = Link(@, req[r].user)]
      BY <2>3 DEF LinkIdentity
    <3>2. QED
      BY <2>1, <3>1 DEF Link
  <2>4. QED
    BY <2>2, <2>3
<1>2. QED
  BY <1>1, Inductive, PTL DEF Spec, IdentityKeepsAccount
=============================================================================
