---------------------------- MODULE AuthSessions ----------------------------
(***************************************************************************)
(* AuthService on accounts that exist: login, refresh, logout, password    *)
(* change and reset, e-mail verification, and the deactivation of an       *)
(* account by an administrator, as concurrent requests.                    *)
(*                                                                         *)
(* No request uses a transaction. A request is a read that admits it,      *)
(* followed by the statements of its plan; between any two of them other   *)
(* requests run. A statement may fail before or after the server applied   *)
(* it. A crash is a request that never takes its next step.                *)
(*                                                                         *)
(* Tokens are numbered in the order their rows are inserted; the rows of   *)
(* user_sessions and user_tokens are the live ones. Every new password is  *)
(* new, so a password is the number of changes before it.                  *)
(***************************************************************************)
EXTENDS Naturals, Sequences, FiniteSets

CONSTANTS
  Users,
  Requests,     \* requests that may be in flight at the same time
  MaxTokens,    \* bound: rows ever inserted into the two token tables
  MaxChanges,   \* bound: password changes ever begun
  Failing,      \* the statements the database may fail
  Offered       \* what clients, time and administrators do here

Kinds == {"session", "password_reset", "email_verification"}

\* What a request does after the read that admits it.
\* Mutants: all sessions are deleted before the password is written; the new
\* session is created without deleting the old one; the reset token is kept.
PlanPurgesFirst ==
  [login |-> <<"create">>, refresh |-> <<"load", "unlink", "create">>,
   change |-> <<"purge", "update">>, reset |-> <<"purge", "update", "spend">>,
   verify |-> <<"mark", "spend">>, request_reset |-> <<"issue">>,
   resend |-> <<"issue">>]
PlanKeepsSession ==
  [login |-> <<"create">>, refresh |-> <<"load", "create">>,
   change |-> <<"update", "purge">>, reset |-> <<"update", "spend", "purge">>,
   verify |-> <<"mark", "spend">>, request_reset |-> <<"issue">>,
   resend |-> <<"issue">>]
PlanKeepsToken ==
  [login |-> <<"create">>, refresh |-> <<"load", "unlink", "create">>,
   change |-> <<"update", "purge">>, reset |-> <<"update", "purge">>,
   verify |-> <<"mark", "spend">>, request_reset |-> <<"issue">>,
   resend |-> <<"issue">>]
Plan ==
  [login |-> <<"create">>, refresh |-> <<"load", "unlink", "create">>,
   change |-> <<"update", "purge">>, reset |-> <<"update", "spend", "purge">>,
   verify |-> <<"mark", "spend">>, request_reset |-> <<"issue">>,
   resend |-> <<"issue">>]

Operations == DOMAIN Plan
Statements == {"load", "unlink", "create", "update", "purge", "spend", "mark",
               "issue"}

ASSUME SessionsAssumption ==
  /\ IsFiniteSet(Requests)
  /\ MaxTokens \in Nat /\ MaxChanges \in Nat
  /\ Failing \subseteq Statements
  /\ Offered \subseteq Operations \cup {"logout", "expire", "deactivate"}
  /\ 0 \notin Users

VARIABLES
  password,   \* users.password_hash
  active,     \* users.is_active
  verified,   \* users.email_verified_at is set
  issued,     \* the tokens ever inserted: owner, kind and history
  live,       \* the tokens whose row exists and has not expired
  known,      \* the tokens a client or a mailbox received
  req,        \* the requests in flight
  changes,    \* password changes and resets begun so far
  unpurged,   \* history: users whose sessions outlived a change by a failure
  undeleted,  \* history: tokens whose DELETE failed
  spent,      \* history: tokens used by a request nobody interfered with
  respent     \* history: tokens so used twice

accounts == <<password, active, verified>>
tokens   == <<issued, live, known>>
history  == <<unpurged, undeleted, spent, respent>>
vars     == <<accounts, tokens, req, changes, history>>

NoUser == 0
Idle == [op |-> "none", left |-> <<>>, user |-> NoUser, token |-> 0,
         basis |-> 0, during |-> {}]

Token(t) == issued[t]
Tokens   == DOMAIN issued

-----------------------------------------------------------------------------
(* What requests notice of each other. "during" collects, for a request in *)
(* flight, what happened to its account or its token since it was          *)
(* admitted; no request of the code can see it.                            *)

Note(q, u, what) ==
  IF q.user = u /\ q.op # "none"
    THEN [q EXCEPT !.during = @ \cup {what}] ELSE q

NoteTaken(q, ts) ==
  IF q.token \in ts THEN [q EXCEPT !.during = @ \cup {"taken"}] ELSE q

\* r goes on to its next statement, or ends after the last.
Step(q)     == IF Len(q.left) = 1 THEN Idle ELSE [q EXCEPT !.left = Tail(@)]
Advance(r)  == req' = [req EXCEPT ![r] = Step(@)]
Abandon(r)  == req' = [req EXCEPT ![r] = Idle]
Others(r, f(_)) == [q \in Requests |-> IF q = r THEN req[q] ELSE f(req[q])]

At(r, statement) == req[r].op # "none" /\ Head(req[r].left) = statement

\* How a statement can end.
Exec(statement, applied, ok) ==
  \/ applied /\ ok
  \/ statement \in Failing /\ ~ok

\* r used its token without anyone else taking it meanwhile.
Spend(r) ==
  IF "taken" \in req[r].during
    THEN UNCHANGED <<spent, respent>>
    ELSE /\ spent' = spent \cup {req[r].token}
         /\ respent' = respent \cup (spent \cap {req[r].token})

-----------------------------------------------------------------------------
(* The reads that admit requests. A request that is not admitted answers   *)
(* with an error and changes nothing.                                      *)

\* Bound: requests that will insert a row need one left.
Inserts(plan) == plan # <<>> /\ plan[Len(plan)] \in {"create", "issue"}
RowLeft       == Len(issued) + Cardinality({r \in Requests : Inserts(req[r].left)})
                   < MaxTokens

Admit(r, op, u, t, basis) ==
  /\ op \in Offered
  /\ req[r] = Idle
  /\ Inserts(Plan[op]) => RowLeft
  /\ req' = [req EXCEPT ![r] =
               [op |-> op, left |-> Plan[op], user |-> u, token |-> t,
                basis |-> basis, during |-> {}]]
  /\ UNCHANGED <<accounts, tokens, history>>

\* Mutant: nobody looks at is_active.
AdmitsAll(u) == TRUE
Admits(u)    == active[u]

\* Mutant: the query does not filter on the type of the token.
AnyToken(t, kind) == t \in live
Found(t, kind)    == t \in live /\ Token(t).kind = kind

\* GetUserByEmail, and the password typed is the current one.
BeginLogin(r, u) ==
  /\ Admits(u)
  /\ Admit(r, "login", u, 0, password[u])
  /\ UNCHANGED changes

\* The refresh token is a JWT that names its user.
BeginRefresh(r, t) ==
  /\ Token(t).kind = "session"
  /\ t \in live
  /\ Admit(r, "refresh", Token(t).user, t, Token(t).basis)
  /\ UNCHANGED changes

BeginChangePassword(r, u) ==
  /\ changes < MaxChanges
  /\ changes' = changes + 1
  /\ Admit(r, "change", u, 0, password[u])

BeginResetPassword(r, t) ==
  /\ Found(t, "password_reset")
  /\ changes < MaxChanges
  /\ changes' = changes + 1
  /\ Admit(r, "reset", Token(t).user, t, 0)

BeginVerifyEmail(r, t) ==
  /\ Found(t, "email_verification")
  /\ Admit(r, "verify", Token(t).user, t, 0)
  /\ UNCHANGED changes

BeginRequestReset(r, u) ==
  /\ Admit(r, "request_reset", u, 0, 0)
  /\ UNCHANGED changes

BeginResendVerification(r, u) ==
  /\ ~verified[u]
  /\ Admit(r, "resend", u, 0, 0)
  /\ UNCHANGED changes

-----------------------------------------------------------------------------
(* The statements.                                                         *)

\* RefreshTokens loads the user of the session.
LoadUser(r) ==
  /\ At(r, "load")
  /\ \/ Admits(req[r].user) /\ Advance(r)
     \/ ~Admits(req[r].user) /\ Abandon(r)
     \/ "load" \in Failing /\ Abandon(r)
  /\ UNCHANGED <<accounts, tokens, changes, history>>

\* RefreshTokens deletes the old session and ignores the error. Deleting no
\* row is no error either.
Unlink(r) ==
  /\ At(r, "unlink")
  /\ \E applied, ok \in BOOLEAN :
       /\ Exec("unlink", applied, ok)
       /\ IF applied
            THEN /\ live' = live \ {req[r].token}
                 /\ req' = [Others(r, LAMBDA q : NoteTaken(q, {req[r].token}))
                              EXCEPT ![r] = Step(@)]
                 /\ UNCHANGED undeleted
            ELSE /\ undeleted' = undeleted \cup {req[r].token}
                 /\ Advance(r)
                 /\ UNCHANGED live
  /\ UNCHANGED <<accounts, issued, known, changes, unpurged, spent, respent>>

\* What the history keeps of a new token.
Minted(r, kind) ==
  [user |-> req[r].user, kind |-> kind, parent |-> req[r].token,
   basis |-> req[r].basis, whileInactive |-> ~active[req[r].user],
   during |-> (req[r].during \ {"taken"}) \cup
                (IF req[r].token = 0 THEN {}
                 ELSE Token(req[r].token).during \ {"deactivated"})]

Insert(r, kind, ok) ==
  /\ issued' = Append(issued, Minted(r, kind))
  /\ live' = live \cup {Len(issued) + 1}
  /\ known' = IF ok THEN known \cup {Len(issued) + 1} ELSE known

\* createSession, the end of Login and RefreshTokens; a client that gets an
\* error never learns the token.
CreateSession(r) ==
  /\ At(r, "create")
  /\ \E applied, ok \in BOOLEAN :
       /\ Exec("create", applied, ok)
       /\ IF applied THEN Insert(r, "session", ok) ELSE UNCHANGED tokens
       /\ IF applied /\ req[r].op = "refresh"
            THEN Spend(r) ELSE UNCHANGED <<spent, respent>>
  /\ Abandon(r)
  /\ UNCHANGED <<accounts, changes, unpurged, undeleted>>

\* CreateUserToken, then a mail with the token.
IssueToken(r) ==
  /\ At(r, "issue")
  /\ \E applied, ok \in BOOLEAN :
       /\ Exec("issue", applied, ok)
       /\ IF applied
            THEN Insert(r, IF req[r].op = "resend" THEN "email_verification"
                                                   ELSE "password_reset", ok)
            ELSE UNCHANGED tokens
  /\ Abandon(r)
  /\ UNCHANGED <<accounts, changes, history>>

\* UPDATE users SET password_hash. An error ends the request, also when only
\* the answer was lost: then the sessions are not deleted.
UpdatePassword(r) ==
  /\ At(r, "update")
  /\ LET u == req[r].user IN
     \E applied, ok \in BOOLEAN :
       /\ Exec("update", applied, ok)
       /\ password' = IF applied THEN [password EXCEPT ![u] = @ + 1]
                                 ELSE password
       /\ unpurged' = IF applied /\ ~ok THEN unpurged \cup {u} ELSE unpurged
       /\ req' = [(IF applied THEN Others(r, LAMBDA q : Note(q, u, "password"))
                              ELSE req)
                    EXCEPT ![r] = IF ok THEN Step(@) ELSE Idle]
  /\ UNCHANGED <<active, verified, tokens, changes, undeleted, spent, respent>>

\* DeleteAllUserSessions, the end of a change or a reset; its error is
\* ignored.
Purge(r) ==
  /\ At(r, "purge")
  /\ LET u    == req[r].user
         gone == {t \in live : Token(t).user = u /\ Token(t).kind = "session"}
     IN \E applied, ok \in BOOLEAN :
          /\ Exec("purge", applied, ok)
          /\ IF applied
               THEN /\ live' = live \ gone
                    /\ unpurged' = unpurged \ {u}
                    /\ req' = [Others(r, LAMBDA q :
                                 NoteTaken(Note(q, u, "password"), gone))
                                 EXCEPT ![r] = Step(@)]
               ELSE /\ unpurged' = unpurged \cup {u}
                    /\ Advance(r)
                    /\ UNCHANGED live
  /\ IF req[r].op = "reset" THEN Spend(r) ELSE UNCHANGED <<spent, respent>>
  /\ UNCHANGED <<accounts, issued, known, changes, undeleted>>

\* DeleteUserToken, by ResetPassword and VerifyEmail; its error is ignored.
SpendToken(r) ==
  /\ At(r, "spend")
  /\ \E applied, ok \in BOOLEAN :
       /\ Exec("spend", applied, ok)
       /\ IF applied
            THEN /\ live' = live \ {req[r].token}
                 /\ req' = [Others(r, LAMBDA q : NoteTaken(q, {req[r].token}))
                              EXCEPT ![r] = Step(@)]
                 /\ UNCHANGED undeleted
            ELSE /\ undeleted' = undeleted \cup {req[r].token}
                 /\ Advance(r)
                 /\ UNCHANGED live
  /\ IF req[r].op = "verify" THEN Spend(r) ELSE UNCHANGED <<spent, respent>>
  /\ UNCHANGED <<accounts, issued, known, changes, unpurged>>

\* VerifyEmail.
MarkVerified(r) ==
  /\ At(r, "mark")
  /\ \E applied, ok \in BOOLEAN :
       /\ Exec("mark", applied, ok)
       /\ verified' = IF applied THEN [verified EXCEPT ![req[r].user] = TRUE]
                                 ELSE verified
       /\ IF ok THEN Advance(r) ELSE Abandon(r)
  /\ UNCHANGED <<password, active, tokens, changes, history>>

\* Logout is a single statement.
Logout(t) ==
  /\ "logout" \in Offered
  /\ Token(t).kind = "session"
  /\ t \in live
  /\ live' = live \ {t}
  /\ req' = [q \in Requests |-> NoteTaken(req[q], {t})]
  /\ UNCHANGED <<accounts, issued, known, changes, history>>

-----------------------------------------------------------------------------
(* Everybody else.                                                         *)

\* A row passes its expires_at, on which every query filters.
Expire(t) ==
  /\ "expire" \in Offered
  /\ t \in live
  /\ live' = live \ {t}
  /\ UNCHANGED <<accounts, issued, known, req, changes, history>>

\* An account is switched off or on again, outside the auth service.
Deactivate(u) ==
  /\ "deactivate" \in Offered
  /\ active[u]
  /\ active' = [active EXCEPT ![u] = FALSE]
  /\ req' = [q \in Requests |-> Note(req[q], u, "deactivated")]
  /\ UNCHANGED <<password, verified, tokens, changes, history>>

Reactivate(u) ==
  /\ ~active[u]
  /\ active' = [active EXCEPT ![u] = TRUE]
  /\ UNCHANGED <<password, verified, tokens, req, changes, history>>

-----------------------------------------------------------------------------
Init ==
  /\ password = [u \in Users |-> 0]
  /\ active = [u \in Users |-> TRUE]
  /\ verified = [u \in Users |-> FALSE]
  /\ issued = <<>> /\ live = {} /\ known = {}
  /\ req = [r \in Requests |-> Idle]
  /\ changes = 0
  /\ unpurged = {} /\ undeleted = {} /\ spent = {} /\ respent = {}

Begin(r) ==
  \/ \E u \in Users :
       \/ BeginLogin(r, u) \/ BeginChangePassword(r, u)
       \/ BeginRequestReset(r, u) \/ BeginResendVerification(r, u)
  \/ \E t \in known :
       BeginRefresh(r, t) \/ BeginResetPassword(r, t) \/ BeginVerifyEmail(r, t)

Continue(r) ==
  \/ LoadUser(r) \/ Unlink(r) \/ CreateSession(r) \/ IssueToken(r)
  \/ UpdatePassword(r) \/ Purge(r) \/ SpendToken(r) \/ MarkVerified(r)

\* The server waits for requests: stopping here is no deadlock.
AtRest == (\A r \in Requests : req[r] = Idle) /\ UNCHANGED vars

Next ==
  \/ \E r \in Requests : Begin(r) \/ Continue(r)
  \/ \E t \in known : Logout(t)
  \/ \E t \in live : Expire(t)
  \/ \E u \in Users : Deactivate(u) \/ Reactivate(u)
  \/ AtRest

Spec == Init /\ [][Next]_vars

-----------------------------------------------------------------------------
(* Properties.                                                             *)

Sessions == {t \in live : Token(t).kind = "session"}

TokenType ==
  [user : Users, kind : Kinds, parent : 0..MaxTokens, basis : 0..MaxChanges,
   whileInactive : BOOLEAN,
   during : SUBSET {"password", "deactivated"}]

\* What a request may hold: a token of the account it acts on and of the kind
\* its operation takes.
HoldsRightToken(q) ==
  LET Holds(kind) == /\ q.token \in Tokens
                     /\ Token(q.token).kind = kind
                     /\ Token(q.token).user = q.user
  IN CASE q.op = "refresh" -> Holds("session")
       [] q.op = "reset"   -> Holds("password_reset")
       [] q.op = "verify"  -> Holds("email_verification")
       [] OTHER            -> q.token = 0

\* The values of the variables; a request never acts on a token of another
\* kind or of another account.
TypeOK ==
  /\ password \in [Users -> 0..MaxChanges] /\ changes \in 0..MaxChanges
  /\ active \in [Users -> BOOLEAN] /\ verified \in [Users -> BOOLEAN]
  /\ issued \in Seq(TokenType) /\ Len(issued) <= MaxTokens
  /\ live \subseteq Tokens /\ known \subseteq Tokens
  /\ undeleted \subseteq Tokens /\ spent \subseteq Tokens
  /\ respent \subseteq spent
  /\ unpurged \subseteq Users
  /\ \A r \in Requests : req[r] # Idle =>
       /\ req[r].user \in Users /\ req[r].basis \in 0..MaxChanges
       /\ req[r].left # <<>>
       /\ HoldsRightToken(req[r])

\* A change of u's password is between its two writes.
Changing(u) ==
  \E r \in Requests :
    /\ req[r].op \in {"change", "reset"} /\ req[r].user = u
    /\ Head(req[r].left) # "update"

\* A password change ends the sessions opened with an older password,
\* directly or through refreshes. Only three things keep such a session
\* alive: the change is still running; the request that opened it overlapped
\* the change; or a statement of the change failed.
SessionsProvePassword ==
  \A t \in Sessions :
    \/ Token(t).basis = password[Token(t).user]
    \/ "password" \in Token(t).during
    \/ Changing(Token(t).user)
    \/ Token(t).user \in unpurged

\* A refresh leaves one of the two sessions: the old one stays only if its
\* DELETE failed.
RefreshRotates ==
  \A t \in Tokens : Token(t).parent \in live => Token(t).parent \in undeleted

\* A session, a reset token or a verification token serves one request,
\* unless two requests held it at the same time or its DELETE failed.
SpentOnce == respent \subseteq undeleted

\* A deactivated account gets no new session, except from a request that was
\* already past the check when the account was deactivated.
NoSessionWhileInactive ==
  \A t \in Tokens :
    Token(t).kind = "session" /\ Token(t).whileInactive =>
      "deactivated" \in Token(t).during

\* "This also invalidates all active sessions/tokens" (user_repository.go:46):
\* an inactive account has no session but from a request that overlapped the
\* deactivation. DeactivateUser revokes rows of refresh_tokens and sessions
\* only, tables the auth service never uses.
DeactivationEndsSessions ==
  \A t \in Sessions :
    active[Token(t).user] \/ "deactivated" \in Token(t).during
=============================================================================
