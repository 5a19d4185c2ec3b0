------------------------------ MODULE Accounts ------------------------------
(***************************************************************************)
(* How accounts come into being: AuthService.RegisterUser,                 *)
(* LoginOrRegisterOAuth and LoginOrRegisterPhone as concurrent requests on *)
(* the tables users and user_oauth_identities. Each looks for an account   *)
(* first and inserts one later, in another statement and without a         *)
(* transaction; only the constraints of the tables stand between two       *)
(* requests for the same person.                                           *)
(***************************************************************************)
EXTENDS Naturals, Sequences, FiniteSets

CONSTANTS
  Emails,       \* compared without case, as CITEXT does
  Names,        \* usernames
  NoName,       \* the empty username of a client that sends none
  Identities,   \* users of an OAuth provider
  NameFor,      \* generateUsername: the name made of a nickname or an e-mail
  Requests,     \* bound: the requests there ever are; all may be in flight
  Failing       \* the statements the database may fail

ASSUME AccountsAssumption ==
  /\ NoName \in Names
  /\ NameFor \in [Identities -> [Emails -> Names]]
  /\ Failing \subseteq {"find", "insert", "link", "session", "token"}

VARIABLES
  users,      \* the rows of users, in the order of their creation
  inactive,   \* the users switched off
  phoned,     \* the users whose profile holds the phone number
  linked,     \* user_oauth_identities.user_id of each identity, 0 for no row
  req         \* what each request is doing, or what it answered

vars == <<users, inactive, phoned, linked, req>>

NoEmail    == "no e-mail"
NoIdentity == "no identity"

\* user and off: the account a request found or made, and whether it read the
\* account as inactive. during is history, see Noticed.
Idle == [op |-> "none", at |-> "idle", email |-> NoEmail, name |-> NoName,
         identity |-> NoIdentity, user |-> 0, off |-> FALSE,
         answer |-> "none", during |-> {}]

Ids == DOMAIN users

WithEmail(e) == {u \in Ids : users[u].email = e}
TheUser(e)   == CHOOSE u \in WithEmail(e) : TRUE

At(r, step) == req[r].at = step

Goto(r, step) == req' = [req EXCEPT ![r].at = step]

Reply(r, answer) ==
  req' = [req EXCEPT ![r].at = "done", ![r].answer = answer]

\* createSession follows, if the account was read as active.
Serve(r, u, off) ==
  req' = [req EXCEPT ![r].at = IF off THEN "done" ELSE "session",
                     ![r].answer = IF off THEN "inactive" ELSE @,
                     ![r].user = u, ![r].off = off]

\* How a statement that does not violate a constraint can end.
Exec(statement, applied, ok) ==
  \/ applied /\ ok
  \/ statement \in Failing /\ ~ok

-----------------------------------------------------------------------------
(* Requests.                                                               *)

Begin(r, op, e, n, i, step) ==
  /\ At(r, "idle")
  /\ req' = [req EXCEPT ![r] = [Idle EXCEPT !.op = op, !.at = step,
                                  !.email = e, !.name = n, !.identity = i]]
  /\ UNCHANGED <<users, inactive, phoned, linked>>

\* There is one phone number.
Arrive(r) ==
  \/ \E e \in Emails, n \in Names :
       Begin(r, "register", e, n, NoIdentity, "find")
  \/ \E e \in Emails, i \in Identities :
       Begin(r, "oauth", e, NameFor[i][e], i, "identity")
  \/ Begin(r, "phone", NoEmail, NoName, NoIdentity, "find")

\* GetUserByOAuthIdentity.
FindIdentity(r) ==
  /\ At(r, "identity")
  /\ LET u == linked[req[r].identity] IN
       \/ u # 0 /\ Serve(r, u, u \in inactive)
       \/ u = 0 /\ Goto(r, "find")
       \/ "find" \in Failing /\ Reply(r, "error")
  /\ UNCHANGED <<users, inactive, phoned, linked>>

\* GetUserByEmail: a registration wants no account, an OAuth login takes one.
FindEmail(r) ==
  /\ At(r, "find") /\ req[r].op # "phone"
  /\ LET q == req[r] IN
       \/ /\ WithEmail(q.email) = {}
          /\ Goto(r, "insert")
       \/ /\ WithEmail(q.email) # {}
          /\ IF q.op = "register"
               THEN Reply(r, "exists")
               ELSE LET u == TheUser(q.email) IN
                    req' = [req EXCEPT ![r].at = "link", ![r].user = u,
                                       ![r].off = u \in inactive]
       \/ "find" \in Failing /\ Reply(r, "error")
  /\ UNCHANGED <<users, inactive, phoned, linked>>

\* GetUserByPhone takes the first of its rows; users.phone is not UNIQUE.
FindPhone(r) ==
  /\ At(r, "find") /\ req[r].op = "phone"
  /\ \/ phoned = {} /\ Goto(r, "insert")
     \/ \E u \in phoned : Serve(r, u, u \in inactive)
     \/ "find" \in Failing /\ Reply(r, "error")
  /\ UNCHANGED <<users, inactive, phoned, linked>>

\* users.email and users.username are UNIQUE; two empty usernames are equal.
\* Mutant: the constraints are not there.
AlwaysFree(q) == TRUE
Free(q) == \A u \in Ids : users[u].email # q.email /\ users[u].name # q.name

\* CreateUser. CreateUserWithPhone names a column that users does not have
\* and leaves out the e-mail that must not be NULL: it always fails.
\* Mutant: the e-mail may be missing.
NullEmail(q)  == Free(q)
Insertable(q) == q.op # "phone" /\ Free(q)

\* What the other requests in flight meet, without seeing it.
Noticed(r, what) ==
  [q \in Requests |-> IF q = r \/ At(q, "done") THEN req[q]
                      ELSE [req[q] EXCEPT !.during = @ \cup {what}]]

InsertUser(r) ==
  /\ At(r, "insert")
  /\ LET q == req[r] IN
       \/ /\ ~Insertable(q)
          /\ Reply(r, "error")
          /\ UNCHANGED users
       \/ /\ Insertable(q)
          /\ \E applied, ok \in BOOLEAN :
               /\ Exec("insert", applied, ok)
               /\ users' = IF applied
                    THEN Append(users, [email |-> q.email, name |-> q.name])
                    ELSE users
               /\ req' = [(IF applied THEN Noticed(r, "account") ELSE req)
                    EXCEPT ![r] =
                      IF ~ok THEN [q EXCEPT !.at = "done", !.answer = "error"]
                      ELSE [q EXCEPT !.user = Len(users) + 1,
                              !.at = IF q.op = "oauth" THEN "link"
                                                       ELSE "session"]]
  /\ UNCHANGED <<inactive, phoned, linked>>

\* CreateOrUpdateOAuthIdentity: ON CONFLICT leaves user_id alone.
\* Mutant: it is updated too.
Relinked(old, u) == u
Link(old, u)     == IF old = 0 THEN u ELSE old

LinkIdentity(r) ==
  /\ At(r, "link")
  /\ LET q == req[r] IN
     \E applied, ok \in BOOLEAN :
       /\ Exec("link", applied, ok)
       /\ linked' = IF applied
            THEN [linked EXCEPT ![q.identity] = Link(@, q.user)] ELSE linked
       /\ req' = [(IF applied THEN Noticed(r, q.identity) ELSE req)
            EXCEPT ![r] =
              IF ~ok        THEN [q EXCEPT !.at = "done", !.answer = "error"]
              ELSE IF q.off THEN [q EXCEPT !.at = "done", !.answer = "inactive"]
              ELSE               [q EXCEPT !.at = "session"]]
  /\ UNCHANGED <<users, inactive, phoned>>

\* createSession; a registration goes on to the verification token. The
\* session row itself is the subject of AuthSessions.
CreateSession(r) ==
  /\ At(r, "session")
  /\ \/ "session" \in Failing /\ Reply(r, "error")
     \/ IF req[r].op = "register" THEN Goto(r, "token") ELSE Reply(r, "ok")
  /\ UNCHANGED <<users, inactive, phoned, linked>>

\* sendEmailVerification.
IssueVerification(r) ==
  /\ At(r, "token")
  /\ Reply(r, "ok") \/ ("token" \in Failing /\ Reply(r, "error"))
  /\ UNCHANGED <<users, inactive, phoned, linked>>

\* Changes of an account outside the auth service.
SetPhone(u) ==
  /\ phoned' = phoned \cup {u}
  /\ UNCHANGED <<users, inactive, linked, req>>

Deactivate(u) ==
  /\ inactive' = inactive \cup {u}
  /\ UNCHANGED <<users, phoned, linked, req>>

-----------------------------------------------------------------------------
Init ==
  /\ users = <<>>
  /\ inactive = {} /\ phoned = {}
  /\ linked = [i \in Identities |-> 0]
  /\ req = [r \in Requests |-> Idle]

Continue(r) ==
  \/ FindIdentity(r) \/ FindEmail(r) \/ FindPhone(r) \/ InsertUser(r)
  \/ LinkIdentity(r) \/ CreateSession(r) \/ IssueVerification(r)

\* Every request has answered.
AtRest == (\A r \in Requests : At(r, "done")) /\ UNCHANGED vars

Next ==
  \/ \E r \in Requests : Arrive(r) \/ Continue(r)
  \/ \E u \in Ids \ phoned : SetPhone(u)
  \/ \E u \in Ids \ inactive : Deactivate(u)
  \/ AtRest

Spec == Init /\ [][Next]_vars

-----------------------------------------------------------------------------
(* Properties.                                                             *)

Steps   == {"idle", "identity", "find", "insert", "link", "session", "token",
            "done"}
Answers == {"none", "ok", "exists", "inactive", "error"}

RequestType ==
  [op : {"none", "register", "oauth", "phone"}, at : Steps,
   email : Emails \cup {NoEmail}, name : Names,
   identity : Identities \cup {NoIdentity}, user : Nat, off : BOOLEAN,
   answer : Answers, during : SUBSET (Identities \cup {"account"})]

\* The values of the variables; a request that got past the lookup holds an
\* account that exists, and only OAuth requests link identities.
TypeOK ==
  /\ users \in Seq([email : Emails, name : Names])
  /\ inactive \subseteq Ids /\ phoned \subseteq Ids
  /\ linked \in [Identities -> 0..Len(users)]
  /\ req \in [Requests -> RequestType]
  /\ \A r \in Requests :
       /\ At(r, "link") \/ At(r, "session") \/ At(r, "token") =>
            req[r].user \in Ids
       /\ At(r, "link") \/ At(r, "identity") => req[r].identity \in Identities
       /\ At(r, "insert") /\ req[r].op # "phone" => req[r].email \in Emails

Registered(r) == req[r].op = "register" /\ req[r].user # 0

\* However many registrations overlap, all of which found the e-mail free, one
\* per e-mail and per username gets beyond the INSERT, and the account it goes
\* on with is the one it asked for.
OneRegistrationWins ==
  \A r, s \in Requests : Registered(r) /\ Registered(s) =>
    /\ users[req[r].user] = [email |-> req[r].email, name |-> req[r].name]
    /\ req[r].email = req[s].email \/ req[r].name = req[s].name => r = s

\* An identity of the provider never moves to another account, also when two
\* first logins with it overlap and its e-mail changed in between.
IdentityKeepsAccount ==
  [][\A i \in Identities : linked[i] # 0 => linked'[i] = linked[i]]_vars

\* Whoever is told "ok" has an account: after a registration the one with
\* this e-mail, after an OAuth login the one its identity is linked to. Only
\* an overlapping login with the same identity may end elsewhere: when the
\* e-mail of the identity changed in between, both find or make an account,
\* and the identity belongs to the first that links it.
AnswersOwnAccount ==
  \A r \in Requests :
    req[r].answer = "ok" =>
      /\ req[r].user \in Ids
      /\ req[r].op = "register" => users[req[r].user].email = req[r].email
      /\ req[r].op = "oauth" /\ req[r].identity \notin req[r].during =>
           linked[req[r].identity] = req[r].user

Undisturbed(r) == req[r].during = {}

\* "username ... -- Optional display name" (0002_create_users.up.sql:6): a
\* registration without a username and with a new e-mail succeeds.
NameIsOptional ==
  \A r \in Requests :
    req[r].op = "register" /\ req[r].name = NoName /\ Undisturbed(r) =>
      req[r].answer # "error"
=============================================================================
