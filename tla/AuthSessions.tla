------------------------------ MODULE AuthSessions -----------------------------
(***************************************************************************)
(* Accounts and sessions: internal/auth/auth.go over the users and         *)
(* sessions tables of internal/storage, behind the handlers and the        *)
(* RequireLogin middleware of internal/web.                                *)
(*                                                                         *)
(* A request is one HTTP request.  Each of its steps is one SQL statement, *)
(* which the database executes atomically and which may fail, before or    *)
(* after it has taken effect.  Usernames are normalised and valid          *)
(* (validateUsername, validatePassword); session tokens stand for their    *)
(* hashes, and a generated token is one never generated before.            *)
(***************************************************************************)
EXTENDS Integers, FiniteSets

CONSTANTS
    Request, Username, Password, Token,
    NoUser,        \* no row with that username
    NoSession,     \* no row with that token hash
    TTL,           \* Service.sessionTTL
    MaxTime,       \* bound: the clock stops there
    MaxRestarts,   \* bound on the restarts of the program
    WipeOnStart    \* the values SQLiteConfig.WipeOnStart has in one start or another

ASSUME AuthAssumption ==
    /\ TTL \in Nat \ {0}
    /\ MaxTime \in Nat
    /\ MaxRestarts \in Nat
    /\ WipeOnStart \subseteq BOOLEAN
    /\ NoUser \notin Password

Session == [user : Username, expiresAt : Nat]

ASSUME SessionAssumption == NoSession \notin Session

VARIABLES
    users,        \* users table: Username -> password (its hash) or NoUser
    sessions,     \* sessions table: Token -> row or NoSession
    issued,       \* the tokens generated so far
    now,          \* the clock, in the seconds the tables store
    restarts,
    wipes,        \* how many of them wiped the tables
    pc,           \* the next statement of each request
    kind,         \* which handler serves it
    name, password,  \* its form
    token,        \* its cookie, or the token it has generated
    answer        \* its response

dbVars == <<users, sessions>>
formVars == <<kind, name, password>>
startVars == <<restarts, wipes>>
vars == <<dbVars, formVars, issued, now, startVars, pc, token, answer>>

Kind == {"signup", "login", "logout", "visit"}
PC == {"idle", "create_user", "find_user", "purge", "create_session",
       "authenticate", "delete_session", "done"}

\* "welcome" is the redirect with a new session cookie, "page" a protected page,
\* "sign_in" the redirect to /login with the cookie cleared.
Answer == {"none", "welcome", "taken", "denied", "error", "page", "sign_in",
           "signed_out", "not_signed_out"}

TypeOK ==
    /\ users \in [Username -> Password \cup {NoUser}]
    /\ sessions \in [Token -> Session \cup {NoSession}]
    /\ issued \subseteq Token
    /\ now \in 0..MaxTime
    /\ restarts \in 0..MaxRestarts
    /\ wipes \in 0..restarts
    /\ pc \in [Request -> PC]
    /\ kind \in [Request -> Kind]
    /\ name \in [Request -> Username]
    /\ password \in [Request -> Password]
    /\ token \in [Request -> Token]
    /\ answer \in [Request -> Answer]

Init ==
    /\ users = [u \in Username |-> NoUser]
    /\ sessions = [t \in Token |-> NoSession]
    /\ issued = {}
    /\ now = 0
    /\ restarts = 0
    /\ wipes = 0
    /\ pc = [q \in Request |-> "idle"]
    /\ kind = [q \in Request |-> "visit"]
    /\ name \in {[q \in Request |-> u] : u \in Username}
    /\ password \in {[q \in Request |-> p] : p \in Password}
    /\ token \in {[q \in Request |-> t] : t \in Token}
    /\ answer = [q \in Request |-> "none"]

--------------------------------------------------------------------------------
(* Helpers *)

Goto(q, to) == pc' = [pc EXCEPT ![q] = to]

Respond(q, a) == Goto(q, "done") /\ answer' = [answer EXCEPT ![q] = a]

\* findSessionByTokenHashSQL: expires_at > now.
Live(t) == sessions[t] # NoSession /\ sessions[t].expiresAt > now

\* (slip: the comparison of the purge is the wrong way round)
ExpiredReversed(t) == sessions[t] # NoSession /\ sessions[t].expiresAt >= now

\* deleteExpiredSessionsSQL: expires_at <= now.
Expired(t) == sessions[t] # NoSession /\ sessions[t].expiresAt <= now

\* The tokens browsers have been given in a cookie.
Delivered == {token[q] : q \in {r \in Request : answer[r] = "welcome"}}

--------------------------------------------------------------------------------
(* A request arrives: a form, or a cookie that some earlier response set. *)

SubmitForm(q, k, u, p) ==
    /\ pc[q] = "idle"
    /\ kind' = [kind EXCEPT ![q] = k]
    /\ name' = [name EXCEPT ![q] = u]
    /\ password' = [password EXCEPT ![q] = p]
    /\ Goto(q, IF k = "signup" THEN "create_user" ELSE "find_user")
    /\ UNCHANGED <<dbVars, issued, now, startVars, token, answer>>

\* Both pages and logout are behind RequireLogin.
Visit(q, k, t) ==
    /\ pc[q] = "idle"
    /\ t \in Delivered
    /\ kind' = [kind EXCEPT ![q] = k]
    /\ token' = [token EXCEPT ![q] = t]
    /\ Goto(q, "authenticate")
    /\ UNCHANGED <<dbVars, name, password, issued, now, startVars, answer>>

--------------------------------------------------------------------------------
(* Signup and Login *)

\* (slip: no UNIQUE constraint, or an upsert)
CreateUserUnchecked(q) ==
    /\ pc[q] = "create_user"
    /\ users' = [users EXCEPT ![name[q]] = password[q]]
    /\ Goto(q, "purge")
    /\ UNCHANGED <<sessions, formVars, issued, now, startVars, token, answer>>

\* The INSERT: the UNIQUE constraint decides between concurrent signups.
CreateUser(q) ==
    /\ pc[q] = "create_user"
    /\ users[name[q]] = NoUser
    /\ users' = [users EXCEPT ![name[q]] = password[q]]
    /\ Goto(q, "purge")
    /\ UNCHANGED <<sessions, formVars, issued, now, startVars, token, answer>>

UsernameTaken(q) ==
    /\ pc[q] = "create_user"
    /\ users[name[q]] # NoUser
    /\ Respond(q, "taken")
    /\ UNCHANGED <<dbVars, formVars, issued, now, startVars, token>>

\* (slip: ErrUserNotFound is not told apart)
FindUserUnchecked(q) ==
    /\ pc[q] = "find_user"
    /\ users[name[q]] \in {password[q], NoUser}
    /\ Goto(q, "purge")
    /\ UNCHANGED <<dbVars, formVars, issued, now, startVars, token, answer>>

\* FindUserByUsername, and the comparison of the password with its hash.
FindUser(q) ==
    /\ pc[q] = "find_user"
    /\ users[name[q]] = password[q]
    /\ Goto(q, "purge")
    /\ UNCHANGED <<dbVars, formVars, issued, now, startVars, token, answer>>

InvalidCredentials(q) ==
    /\ pc[q] = "find_user"
    /\ users[name[q]] # password[q]
    /\ Respond(q, "denied")
    /\ UNCHANGED <<dbVars, formVars, issued, now, startVars, token>>

\* (slip: a generated token is compared with the rows, not with all there ever were)
DeleteExpiredReissuing(q, t) ==
    /\ pc[q] = "purge"
    /\ sessions[t] = NoSession
    /\ issued' = issued \cup {t}
    /\ token' = [token EXCEPT ![q] = t]
    /\ sessions' = [s \in Token |-> IF Expired(s) THEN NoSession ELSE sessions[s]]
    /\ Goto(q, "create_session")
    /\ UNCHANGED <<users, formVars, now, startVars, answer>>

\* createSession: generate a token, delete the expired rows, insert the new one.
DeleteExpiredSessions(q, t) ==
    /\ pc[q] = "purge"
    /\ t \notin issued
    /\ issued' = issued \cup {t}
    /\ token' = [token EXCEPT ![q] = t]
    /\ sessions' = [s \in Token |-> IF Expired(s) THEN NoSession ELSE sessions[s]]
    /\ Goto(q, "create_session")
    /\ UNCHANGED <<users, formVars, now, startVars, answer>>

\* (slip: the TTL is taken off)
InsertSessionExpired(q) ==
    sessions' = [sessions EXCEPT ![token[q]] = [user |-> name[q], expiresAt |-> now - TTL]]

InsertSession(q) ==
    sessions' = [sessions EXCEPT ![token[q]] = [user |-> name[q], expiresAt |-> now + TTL]]

CreateSession(q) ==
    /\ pc[q] = "create_session"
    /\ InsertSession(q)
    /\ Respond(q, "welcome")
    /\ UNCHANGED <<users, formVars, issued, now, startVars, token>>

\* A statement of Signup or Login fails, or generating the token does: the
\* request ends, what it has done so far stays.
FormFails(q) ==
    /\ pc[q] \in {"create_user", "find_user", "purge", "create_session"}
    /\ Respond(q, "error")
    /\ UNCHANGED <<dbVars, formVars, issued, now, startVars, token>>

\* The same, but the database has executed the INSERT when its reply is lost.
CreateUserReplyLost(q) ==
    /\ pc[q] = "create_user"
    /\ users[name[q]] = NoUser
    /\ users' = [users EXCEPT ![name[q]] = password[q]]
    /\ Respond(q, "error")
    /\ UNCHANGED <<sessions, formVars, issued, now, startVars, token>>

CreateSessionReplyLost(q) ==
    /\ pc[q] = "create_session"
    /\ InsertSession(q)
    /\ Respond(q, "error")
    /\ UNCHANGED <<users, formVars, issued, now, startVars, token>>

--------------------------------------------------------------------------------
(* RequireLogin, and Logout behind it *)

Authenticated(q) ==
    /\ pc[q] = "authenticate"
    /\ Live(token[q])
    /\ IF kind[q] = "logout" THEN Goto(q, "delete_session") /\ UNCHANGED answer
                             ELSE Respond(q, "page")
    /\ UNCHANGED <<dbVars, formVars, issued, now, startVars, token>>

\* No such session, or the statement failed: the middleware does not tell them
\* apart.
Rejected(q) ==
    /\ pc[q] = "authenticate"
    /\ Respond(q, "sign_in")
    /\ UNCHANGED <<dbVars, formVars, issued, now, startVars, token>>

\* (slip: the DELETE keeps the sessions in force)
DeleteSessionExpired(q) ==
    /\ pc[q] = "delete_session"
    /\ sessions' = [sessions EXCEPT ![token[q]] = IF Expired(token[q]) THEN NoSession ELSE @]
    /\ Respond(q, "signed_out")
    /\ UNCHANGED <<users, formVars, issued, now, startVars, token>>

DeleteSession(q) ==
    /\ pc[q] = "delete_session"
    /\ sessions' = [sessions EXCEPT ![token[q]] = NoSession]
    /\ Respond(q, "signed_out")
    /\ UNCHANGED <<users, formVars, issued, now, startVars, token>>

\* The failure is logged; the browser is answered as if it had signed out.
DeleteSessionFails(q) ==
    /\ pc[q] = "delete_session"
    /\ Respond(q, "not_signed_out")
    /\ UNCHANGED <<dbVars, formVars, issued, now, startVars, token>>

\* The same, but the database has executed the DELETE when its reply is lost.
DeleteSessionReplyLost(q) ==
    /\ pc[q] = "delete_session"
    /\ sessions' = [sessions EXCEPT ![token[q]] = NoSession]
    /\ Respond(q, "not_signed_out")
    /\ UNCHANGED <<users, formVars, issued, now, startVars, token>>

--------------------------------------------------------------------------------
(* The clock, and a crash and restart of the program *)

Tick ==
    /\ now < MaxTime
    /\ now' = now + 1
    /\ UNCHANGED <<dbVars, formVars, issued, startVars, pc, token, answer>>

\* What NewSQLite leaves of a table: its file is removed, or kept.
AfterStart(wipe, table, empty) == IF wipe THEN empty ELSE table

CountStart(wipe) ==
    /\ restarts < MaxRestarts
    /\ restarts' = restarts + 1
    /\ wipes' = IF wipe THEN wipes + 1 ELSE wipes

\* The requests in flight are lost; the tables survive unless they are wiped.
Restart(wipe) ==
    /\ CountStart(wipe)
    /\ pc' = [q \in Request |-> IF pc[q] = "idle" THEN "idle" ELSE "done"]
    /\ users' = AfterStart(wipe, users, [u \in Username |-> NoUser])
    /\ sessions' = AfterStart(wipe, sessions, [t \in Token |-> NoSession])
    /\ UNCHANGED <<formVars, issued, now, token, answer>>

Form(q) ==
    \/ CreateUser(q) \/ UsernameTaken(q) \/ CreateUserReplyLost(q)
    \/ FindUser(q) \/ InvalidCredentials(q)
    \/ \E t \in Token : DeleteExpiredSessions(q, t)
    \/ CreateSession(q) \/ CreateSessionReplyLost(q)
    \/ FormFails(q)

Protected(q) ==
    \/ Authenticated(q) \/ Rejected(q)
    \/ DeleteSession(q) \/ DeleteSessionFails(q) \/ DeleteSessionReplyLost(q)

Arrive(q) ==
    \/ \E k \in {"signup", "login"}, u \in Username, p \in Password : SubmitForm(q, k, u, p)
    \/ \E k \in {"visit", "logout"}, t \in Token : Visit(q, k, t)

Next ==
    \/ Tick
    \/ \E wipe \in WipeOnStart : Restart(wipe)
    \/ \E q \in Request : Arrive(q) \/ Form(q) \/ Protected(q)

\* Every statement returns: the database answers or its connection fails.
Spec == Init /\ [][Next]_vars /\ \A q \in Request : WF_vars(Form(q) \/ Protected(q))

--------------------------------------------------------------------------------
(* Properties *)

\* Of concurrent signups for a username one at most is welcomed, and an account
\* that a half-failed signup or a crash has left behind is as good as any, as long
\* as no start has wiped the accounts.
OneSignupWins ==
    wipes = 0 =>
        \A q1, q2 \in Request :
            /\ kind[q1] = "signup" /\ answer[q1] = "welcome"
            /\ kind[q2] = "signup" /\ answer[q2] = "welcome"
            /\ name[q1] = name[q2]
            => q1 = q2

\* A session in force is removed by its own sign-out or by a wipe only; another
\* request's purge of expired sessions never takes it.
LiveSessionStays ==
    [][\A t \in Token : Live(t) /\ sessions'[t] = NoSession =>
          \/ \E q \in Request : pc[q] = "delete_session" /\ token[q] = t
          \/ wipes' # wipes]_vars

\* A token that was signed out never opens a page again, whatever requests,
\* purges and restarts follow.
SignedOutStaysOut ==
    [][\A q, out \in Request :
          /\ answer[out] = "signed_out" /\ token[out] = token[q]
          /\ pc[q] = "authenticate"
          => answer'[q] # "page"]_vars

\* An account keeps the password it was made with: no signup takes it over.
AccountsKept ==
    [][\A u \in Username : users[u] # NoUser =>
          users'[u] = users[u] \/ wipes' # wipes]_vars

--------------------------------------------------------------------------------
(* Sessions as their holders see them *)

\* Some request is about to insert the session of token t.
Pending(t) == \E q \in Request : pc[q] = "create_session" /\ token[q] = t

LifeOf(t) ==
    IF Live(t) THEN "live" ELSE IF t \notin issued \/ Pending(t) THEN "fresh" ELSE "dead"

Life == INSTANCE SessionLife WITH life <- [t \in Token |-> LifeOf(t)]

\* The life of a session token only goes forward, one sign-in at a time: expiry,
\* sign-out, another sign-in's purge, a lost reply, a restart or a wipe never
\* bring a session back (createSession, DeleteExpiredSessions, NewSQLite).
TokenLivesOnce == Life!LifeSpec
================================================================================
