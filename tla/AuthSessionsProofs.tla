--------------------------- MODULE AuthSessionsProofs --------------------------
(***************************************************************************)
(* Theorems about AuthSessions for any requests, usernames, passwords,     *)
(* tokens, session lifetime and number of restarts, with and without       *)
(* WipeOnStart.                                                            *)
(***************************************************************************)
EXTENDS AuthSessions, TLAPS

\* The requests past the point where the account is known.
SigningIn(q) == pc[q] \in {"purge", "create_session"}

\* Every session is one of an existing account: the foreign key, which SQLite
\* enforces only on connections that ran the PRAGMA, is never needed.
SessionsHaveUsers ==
    \A t \in Token : sessions[t] # NoSession => users[sessions[t].user] # NoUser

\* A signed-in request's account is in the table.
AccountInv ==
    /\ \A q \in Request : SigningIn(q) => users[name[q]] # NoUser
    /\ SessionsHaveUsers

\* The requests that bring a token some browser has.
Holds(q) == pc[q] \in {"authenticate", "delete_session"} \/ answer[q] \in {"welcome", "signed_out"}

\* A token about to be inserted was issued once, and is in nobody's cookie.
TokenInv ==
    /\ \A q \in Request : answer[q] # "none" => pc[q] = "done"
    /\ \A q \in Request : Holds(q) \/ pc[q] = "create_session" => token[q] \in issued
    /\ \A q, o \in Request : pc[q] = "create_session" /\ Holds(o) => token[o] # token[q]
    /\ \A q, o \in Request :
          pc[q] = "create_session" /\ pc[o] = "create_session" /\ q # o => token[o] # token[q]

\* A token that was signed out has no row.
SignedOutInv == \A q \in Request : answer[q] = "signed_out" => sessions[token[q]] = NoSession

\* A signup that has inserted its account, and is the one welcomed if it succeeds.
Won(q) == kind[q] = "signup" /\ (SigningIn(q) \/ answer[q] = "welcome")

SignupInv ==
    wipes = 0 =>
        /\ \A q \in Request : pc[q] = "find_user" => kind[q] = "login"
        /\ \A q \in Request : Won(q) => users[name[q]] # NoUser
        /\ \A q, o \in Request : Won(q) /\ Won(o) /\ name[q] = name[o] => q = o

--------------------------------------------------------------------------------
(* Types *)

LEMMA InitType == Init => TypeOK
BY AuthAssumption DEF Init, TypeOK, PC, Kind, Answer, Session

\* What is inserted is a row.
LEMMA InsertType ==
    ASSUME TypeOK, NEW q \in Request, InsertSession(q)
    PROVE  sessions' \in [Token -> Session \cup {NoSession}]
<1>1. [user |-> name[q], expiresAt |-> now + TTL] \in Session
  BY AuthAssumption DEF TypeOK, Session
<1> QED
  BY <1>1 DEF TypeOK, InsertSession

LEMMA NextType == TypeOK /\ [Next]_vars => TypeOK'
<1> SUFFICES ASSUME TypeOK, [Next]_vars PROVE TypeOK'
  OBVIOUS
<1> USE AuthAssumption DEF TypeOK, PC, Kind, Answer, Goto, Respond, dbVars, formVars, startVars
<1>1. CASE Tick
  BY <1>1 DEF Tick
<1>2. ASSUME NEW wipe \in WipeOnStart, Restart(wipe) PROVE TypeOK'
  BY <1>2 DEF Restart, CountStart, AfterStart
<1>3. ASSUME NEW q \in Request, Arrive(q) PROVE TypeOK'
  BY <1>3 DEF Arrive, SubmitForm, Visit
<1>4. ASSUME NEW q \in Request, CreateUser(q) \/ CreateUserReplyLost(q) PROVE TypeOK'
  BY <1>4 DEF CreateUser, CreateUserReplyLost
<1>5. ASSUME NEW q \in Request,
             UsernameTaken(q) \/ FindUser(q) \/ InvalidCredentials(q) \/ FormFails(q)
      PROVE  TypeOK'
  BY <1>5 DEF UsernameTaken, FindUser, InvalidCredentials, FormFails
<1>6. ASSUME NEW q \in Request, NEW t \in Token, DeleteExpiredSessions(q, t) PROVE TypeOK'
  BY <1>6 DEF DeleteExpiredSessions
<1>7. ASSUME NEW q \in Request, CreateSession(q) \/ CreateSessionReplyLost(q) PROVE TypeOK'
  BY <1>7, InsertType DEF CreateSession, CreateSessionReplyLost
<1>8. ASSUME NEW q \in Request, Protected(q) PROVE TypeOK'
  BY <1>8 DEF Protected, Authenticated, Rejected, DeleteSession, DeleteSessionFails,
              DeleteSessionReplyLost
<1>9. CASE UNCHANGED vars
  BY <1>9 DEF vars
<1> QED
  BY <1>1, <1>2, <1>3, <1>4, <1>5, <1>6, <1>7, <1>8, <1>9 DEF Next, Form

LEMMA TypeInvariance == Spec => []TypeOK
BY InitType, NextType, PTL DEF Spec

\* Every variable keeps its type.
THEOREM TypeCorrect == Spec => []TypeOK
BY TypeInvariance

--------------------------------------------------------------------------------
(* Accounts and sessions *)

LEMMA NextAccount == TypeOK /\ AccountInv /\ [Next]_vars => AccountInv'
<1> SUFFICES ASSUME TypeOK, AccountInv, [Next]_vars PROVE AccountInv'
  OBVIOUS
<1> USE AuthAssumption, SessionAssumption
    DEF TypeOK, AccountInv, SigningIn, SessionsHaveUsers, Goto, Respond, dbVars, formVars, startVars
<1>1. CASE Tick
  BY <1>1 DEF Tick
<1>2. ASSUME NEW wipe \in WipeOnStart, Restart(wipe) PROVE AccountInv'
  BY <1>2 DEF Restart, CountStart, AfterStart
<1>3. ASSUME NEW q \in Request, Arrive(q) PROVE AccountInv'
  BY <1>3 DEF Arrive, SubmitForm, Visit
<1>4. ASSUME NEW q \in Request, CreateUser(q) \/ CreateUserReplyLost(q) PROVE AccountInv'
  <2>1. users' = [users EXCEPT ![name[q]] = password[q]] /\ UNCHANGED <<sessions, name>>
    BY <1>4 DEF CreateUser, CreateUserReplyLost
  <2>2. \A p \in Request : SigningIn(p)' => SigningIn(p) \/ p = q
    BY <1>4 DEF CreateUser, CreateUserReplyLost
  <2>3. users'[name[q]] # NoUser
    BY <2>1
  <2>4. \A u \in Username : users[u] # NoUser => users'[u] # NoUser
    BY <2>1, <2>3
  <2>5. \A t \in Token : sessions[t] # NoSession => sessions[t].user \in Username
    BY DEF Session
  <2> QED
    BY <2>1, <2>2, <2>3, <2>4, <2>5
<1>5. ASSUME NEW q \in Request,
             UsernameTaken(q) \/ FindUser(q) \/ InvalidCredentials(q) \/ FormFails(q)
      PROVE  AccountInv'
  BY <1>5 DEF UsernameTaken, FindUser, InvalidCredentials, FormFails
<1>6. ASSUME NEW q \in Request, NEW t \in Token, DeleteExpiredSessions(q, t)
      PROVE  AccountInv'
  BY <1>6 DEF DeleteExpiredSessions
<1>7. ASSUME NEW q \in Request, CreateSession(q) \/ CreateSessionReplyLost(q)
      PROVE  AccountInv'
  <2>1. \A t \in Token : sessions'[t] # NoSession =>
            sessions'[t].user = name[q] \/ sessions'[t] = sessions[t]
    BY <1>7 DEF CreateSession, CreateSessionReplyLost, InsertSession
  <2>2. users[name[q]] # NoUser /\ UNCHANGED <<users, name>>
    BY <1>7 DEF CreateSession, CreateSessionReplyLost
  <2>3. \A p \in Request : SigningIn(p)' => SigningIn(p)
    BY <1>7 DEF CreateSession, CreateSessionReplyLost
  <2> QED
    BY <2>1, <2>2, <2>3
<1>8. ASSUME NEW q \in Request, Protected(q) PROVE AccountInv'
  BY <1>8 DEF Protected, Authenticated, Rejected, DeleteSession, DeleteSessionFails,
              DeleteSessionReplyLost
<1>9. CASE UNCHANGED vars
  BY <1>9 DEF vars
<1> QED
  BY <1>1, <1>2, <1>3, <1>4, <1>5, <1>6, <1>7, <1>8, <1>9 DEF Next, Form

\* No session is ever left without its account: a row is inserted only for an
\* account that was found or made, and nothing deletes an account alone.
THEOREM SessionsSafe == Spec => []SessionsHaveUsers
<1>1. Init => AccountInv
  BY DEF Init, AccountInv, SigningIn, SessionsHaveUsers
<1> QED
  BY <1>1, NextAccount, TypeInvariance, PTL DEF Spec, AccountInv

--------------------------------------------------------------------------------
(* Tokens *)

LEMMA NextToken == TypeOK /\ TokenInv /\ [Next]_vars => TokenInv'
<1> SUFFICES ASSUME TypeOK, TokenInv, [Next]_vars PROVE TokenInv'
  OBVIOUS
<1> USE DEF TypeOK, TokenInv, Holds, Goto, Respond, dbVars, formVars, startVars
<1>1. CASE Tick
  BY <1>1 DEF Tick
<1>2. ASSUME NEW wipe \in WipeOnStart, Restart(wipe) PROVE TokenInv'
  BY <1>2 DEF Restart, CountStart
<1>3. ASSUME NEW q \in Request, Arrive(q) PROVE TokenInv'
  BY <1>3 DEF Arrive, SubmitForm, Visit, Delivered
<1>4. ASSUME NEW q \in Request, CreateUser(q) \/ CreateUserReplyLost(q) PROVE TokenInv'
  BY <1>4 DEF CreateUser, CreateUserReplyLost
<1>5. ASSUME NEW q \in Request,
             UsernameTaken(q) \/ FindUser(q) \/ InvalidCredentials(q) \/ FormFails(q)
      PROVE  TokenInv'
  BY <1>5 DEF UsernameTaken, FindUser, InvalidCredentials, FormFails
<1>6. ASSUME NEW q \in Request, NEW t \in Token, DeleteExpiredSessions(q, t) PROVE TokenInv'
  BY <1>6 DEF DeleteExpiredSessions
<1>7. ASSUME NEW q \in Request, CreateSession(q) \/ CreateSessionReplyLost(q) PROVE TokenInv'
  BY <1>7 DEF CreateSession, CreateSessionReplyLost
<1>8. ASSUME NEW q \in Request, Protected(q) PROVE TokenInv'
  BY <1>8 DEF Protected, Authenticated, Rejected, DeleteSession, DeleteSessionFails,
              DeleteSessionReplyLost
<1>9. CASE UNCHANGED vars
  BY <1>9 DEF vars
<1> QED
  BY <1>1, <1>2, <1>3, <1>4, <1>5, <1>6, <1>7, <1>8, <1>9 DEF Next, Form

LEMMA NextSignedOut == TypeOK /\ TokenInv /\ SignedOutInv /\ [Next]_vars => SignedOutInv'
<1> SUFFICES ASSUME TypeOK, TokenInv, SignedOutInv, [Next]_vars PROVE SignedOutInv'
  OBVIOUS
<1> USE DEF TypeOK, TokenInv, Holds, SignedOutInv, Goto, Respond, dbVars, formVars, startVars
<1>1. CASE Tick
  BY <1>1 DEF Tick
<1>2. ASSUME NEW wipe \in WipeOnStart, Restart(wipe) PROVE SignedOutInv'
  BY <1>2 DEF Restart, CountStart, AfterStart
<1>3. ASSUME NEW q \in Request, Arrive(q) PROVE SignedOutInv'
  BY <1>3 DEF Arrive, SubmitForm, Visit
<1>4. ASSUME NEW q \in Request, CreateUser(q) \/ CreateUserReplyLost(q) PROVE SignedOutInv'
  BY <1>4 DEF CreateUser, CreateUserReplyLost
<1>5. ASSUME NEW q \in Request,
             UsernameTaken(q) \/ FindUser(q) \/ InvalidCredentials(q) \/ FormFails(q)
      PROVE  SignedOutInv'
  BY <1>5 DEF UsernameTaken, FindUser, InvalidCredentials, FormFails
<1>6. ASSUME NEW q \in Request, NEW t \in Token, DeleteExpiredSessions(q, t)
      PROVE  SignedOutInv'
  BY <1>6 DEF DeleteExpiredSessions
<1>7. ASSUME NEW q \in Request, CreateSession(q) \/ CreateSessionReplyLost(q)
      PROVE  SignedOutInv'
  BY <1>7 DEF CreateSession, CreateSessionReplyLost, InsertSession
<1>8. ASSUME NEW q \in Request, Protected(q) PROVE SignedOutInv'
  BY <1>8 DEF Protected, Authenticated, Rejected, DeleteSession, DeleteSessionFails,
              DeleteSessionReplyLost
<1>9. CASE UNCHANGED vars
  BY <1>9 DEF vars
<1> QED
  BY <1>1, <1>2, <1>3, <1>4, <1>5, <1>6, <1>7, <1>8, <1>9 DEF Next, Form

LEMMA TokenInvariance == Spec => [](TokenInv /\ SignedOutInv)
<1>1. Init => TokenInv /\ SignedOutInv
  BY DEF Init, TokenInv, SignedOutInv, Holds
<1> QED
  BY <1>1, NextToken, NextSignedOut, TypeInvariance, PTL DEF Spec

\* Signing out is final: no request that brings the token opens a page again,
\* also one that arrived before the sign-out, and also after a restart.
THEOREM SignOutFinal == Spec => SignedOutStaysOut
<1> DEFINE StaysOut ==
        \A q, out \in Request :
            /\ answer[out] = "signed_out" /\ token[out] = token[q]
            /\ pc[q] = "authenticate"
            => answer'[q] # "page"
<1>1. TypeOK /\ TokenInv /\ SignedOutInv /\ [Next]_vars => [StaysOut]_vars
  <2> SUFFICES ASSUME TypeOK, TokenInv, SignedOutInv, Next,
                      NEW q \in Request, NEW out \in Request,
                      answer[out] = "signed_out", token[out] = token[q],
                      pc[q] = "authenticate"
               PROVE  answer'[q] # "page"
    OBVIOUS
  <2> USE DEF TypeOK, TokenInv, Respond, Goto
  <2>1. answer[q] = "none" /\ ~Live(token[q])
    BY DEF SignedOutInv, Live, Answer
  <2>2. ASSUME NEW r \in Request, Authenticated(r) PROVE answer'[q] # "page"
    BY <2>1, <2>2 DEF Authenticated
  <2>3. ASSUME NEW r \in Request, Arrive(r) \/ Form(r) PROVE answer'[q] # "page"
    BY <2>1, <2>3
    DEF Arrive, SubmitForm, Visit, Form, CreateUser, UsernameTaken, CreateUserReplyLost,
        FindUser, InvalidCredentials, DeleteExpiredSessions, CreateSession,
        CreateSessionReplyLost, FormFails
  <2>4. ASSUME NEW r \in Request,
               \/ Rejected(r)
               \/ DeleteSession(r) \/ DeleteSessionFails(r) \/ DeleteSessionReplyLost(r)
        PROVE  answer'[q] # "page"
    BY <2>1, <2>4 DEF Rejected, DeleteSession, DeleteSessionFails, DeleteSessionReplyLost
  <2>5. CASE Tick \/ \E wipe \in WipeOnStart : Restart(wipe)
    BY <2>1, <2>5 DEF Tick, Restart
  <2> QED
    BY <2>2, <2>3, <2>4, <2>5 DEF Next, Protected
<1> QED
  BY <1>1, TypeInvariance, TokenInvariance, PTL DEF Spec, SignedOutStaysOut

--------------------------------------------------------------------------------
(* Signups *)

LEMMA NextSignup == TypeOK /\ TokenInv /\ SignupInv /\ [Next]_vars => SignupInv'
<1> SUFFICES ASSUME TypeOK, TokenInv, SignupInv, [Next]_vars, wipes' = 0 PROVE SignupInv'
  BY DEF SignupInv
<1> USE AuthAssumption DEF TypeOK, SignupInv, Won, SigningIn, Goto, Respond, dbVars, formVars, startVars
<1>1. CASE Tick
  BY <1>1 DEF Tick
<1>2. ASSUME NEW wipe \in WipeOnStart, Restart(wipe) PROVE SignupInv'
  BY <1>2 DEF Restart, CountStart, AfterStart
<1>3. ASSUME NEW q \in Request, Arrive(q) PROVE SignupInv'
  BY <1>3 DEF Arrive, SubmitForm, Visit, TokenInv
<1>4. ASSUME NEW q \in Request, CreateUser(q) \/ CreateUserReplyLost(q) PROVE SignupInv'
  BY <1>4 DEF CreateUser, CreateUserReplyLost
<1>5. ASSUME NEW q \in Request,
             UsernameTaken(q) \/ FindUser(q) \/ InvalidCredentials(q) \/ FormFails(q)
      PROVE  SignupInv'
  BY <1>5 DEF UsernameTaken, FindUser, InvalidCredentials, FormFails
<1>6. ASSUME NEW q \in Request, NEW t \in Token, DeleteExpiredSessions(q, t) PROVE SignupInv'
  BY <1>6 DEF DeleteExpiredSessions
<1>7. ASSUME NEW q \in Request, CreateSession(q) \/ CreateSessionReplyLost(q) PROVE SignupInv'
  BY <1>7 DEF CreateSession, CreateSessionReplyLost
<1>8. ASSUME NEW q \in Request, Protected(q) PROVE SignupInv'
  BY <1>8 DEF Protected, Authenticated, Rejected, DeleteSession, DeleteSessionFails,
              DeleteSessionReplyLost
<1>9. CASE UNCHANGED vars
  BY <1>9 DEF vars
<1> QED
  BY <1>1, <1>2, <1>3, <1>4, <1>5, <1>6, <1>7, <1>8, <1>9 DEF Next, Form

\* However many signups for a username run at once, one at most is welcomed.
THEOREM SignupSafe == Spec => []OneSignupWins
<1>1. Init => SignupInv
  BY DEF Init, SignupInv, Won, SigningIn
<1>2. SignupInv => OneSignupWins
  BY DEF SignupInv, Won, OneSignupWins
<1> QED
  BY <1>1, <1>2, NextSignup, TypeInvariance, TokenInvariance, PTL DEF Spec

--------------------------------------------------------------------------------
(* What a step never takes away *)

\* An account's password is never replaced.
THEOREM AccountsSafe == Spec => AccountsKept
<1>1. TypeOK /\ [Next]_vars =>
        [\A u \in Username : users[u] # NoUser =>
            users'[u] = users[u] \/ wipes' # wipes]_vars
  BY AuthAssumption
  DEF TypeOK, Next, Tick, Restart, CountStart, AfterStart, Arrive, SubmitForm, Visit, Form, CreateUser,
      UsernameTaken, CreateUserReplyLost, FindUser, InvalidCredentials, DeleteExpiredSessions,
      CreateSession, CreateSessionReplyLost, FormFails, Protected, Authenticated, Rejected,
      DeleteSession, DeleteSessionFails, DeleteSessionReplyLost, Goto, Respond, vars, dbVars,
      formVars, startVars
<1> QED
  BY <1>1, TypeInvariance, PTL DEF Spec, AccountsKept

\* A session in force is only ended by its own sign-out or by a wipe.
THEOREM LiveSessionsSafe == Spec => LiveSessionStays
<1> DEFINE Ends(t) ==
        \/ \E q \in Request : pc[q] = "delete_session" /\ token[q] = t
        \/ wipes' # wipes
<1>1. TypeOK /\ [Next]_vars =>
        [\A t \in Token : Live(t) /\ sessions'[t] = NoSession => Ends(t)]_vars
  <2> SUFFICES ASSUME TypeOK, Next, NEW t \in Token, Live(t), sessions'[t] = NoSession
               PROVE  Ends(t)
    OBVIOUS
  <2> USE AuthAssumption, SessionAssumption DEF TypeOK
  <2>1. sessions'[t] # sessions[t]
    BY DEF Live
  <2>2. ASSUME NEW wipe \in WipeOnStart, Restart(wipe) PROVE Ends(t)
    BY <2>1, <2>2 DEF Restart, CountStart, AfterStart
  <2>3. ASSUME NEW q \in Request, NEW s \in Token, DeleteExpiredSessions(q, s) PROVE FALSE
    <3>1. ~Expired(t)
      BY DEF Live, Expired, Session
    <3> QED
      BY <2>1, <2>3, <3>1 DEF DeleteExpiredSessions
  <2>4. ASSUME NEW q \in Request, InsertSession(q) PROVE FALSE
    <3>1. [user |-> name[q], expiresAt |-> now + TTL] \in Session
      BY DEF Session
    <3> QED
      BY <2>1, <2>4, <3>1 DEF InsertSession
  <2>5. ASSUME NEW q \in Request, DeleteSession(q) \/ DeleteSessionReplyLost(q) PROVE Ends(t)
    BY <2>1, <2>5 DEF DeleteSession, DeleteSessionReplyLost
  <2>6. CASE UNCHANGED sessions
    BY <2>1, <2>6
  <2> QED
    BY <2>2, <2>3, <2>4, <2>5, <2>6
    DEF Next, Tick, Arrive, SubmitForm, Visit, Form, CreateUser, UsernameTaken,
        CreateUserReplyLost, FindUser, InvalidCredentials, CreateSession,
        CreateSessionReplyLost, FormFails, Protected, Authenticated, Rejected,
        DeleteSessionFails, dbVars
<1> QED
  BY <1>1, TypeInvariance, PTL DEF Spec, LiveSessionStays

--------------------------------------------------------------------------------
(* The life of a session token *)

\* Before a session is inserted its token has no row.
RowInv ==
    /\ \A t \in Token : t \notin issued => sessions[t] = NoSession
    /\ \A q \in Request : pc[q] = "create_session" => sessions[token[q]] = NoSession

LEMMA NextRow == TypeOK /\ TokenInv /\ RowInv /\ [Next]_vars => RowInv'
<1> SUFFICES ASSUME TypeOK, TokenInv, RowInv, [Next]_vars PROVE RowInv'
  OBVIOUS
<1> USE DEF TypeOK, TokenInv, RowInv, Goto, Respond, dbVars, formVars
<1>1. CASE Tick
  BY <1>1 DEF Tick
<1>2. ASSUME NEW wipe \in WipeOnStart, Restart(wipe) PROVE RowInv'
  BY <1>2 DEF Restart, AfterStart
<1>3. ASSUME NEW q \in Request, Arrive(q) PROVE RowInv'
  BY <1>3 DEF Arrive, SubmitForm, Visit
<1>4. ASSUME NEW q \in Request, CreateUser(q) \/ CreateUserReplyLost(q) PROVE RowInv'
  BY <1>4 DEF CreateUser, CreateUserReplyLost
<1>5. ASSUME NEW q \in Request,
             UsernameTaken(q) \/ FindUser(q) \/ InvalidCredentials(q) \/ FormFails(q)
      PROVE  RowInv'
  BY <1>5 DEF UsernameTaken, FindUser, InvalidCredentials, FormFails
<1>6. ASSUME NEW q \in Request, NEW t \in Token, DeleteExpiredSessions(q, t) PROVE RowInv'
  BY <1>6 DEF DeleteExpiredSessions
<1>7. ASSUME NEW q \in Request, CreateSession(q) \/ CreateSessionReplyLost(q) PROVE RowInv'
  BY <1>7 DEF CreateSession, CreateSessionReplyLost, InsertSession
<1>8. ASSUME NEW q \in Request, Protected(q) PROVE RowInv'
  BY <1>8 DEF Protected, Authenticated, Rejected, DeleteSession, DeleteSessionFails,
              DeleteSessionReplyLost
<1>9. CASE UNCHANGED vars
  BY <1>9 DEF vars
<1> QED
  BY <1>1, <1>2, <1>3, <1>4, <1>5, <1>6, <1>7, <1>8, <1>9 DEF Next, Form

LEMMA RowInvariance == Spec => []RowInv
<1>1. Init => RowInv
  BY DEF Init, RowInv
<1> QED
  BY <1>1, NextRow, TypeInvariance, TokenInvariance, PTL DEF Spec

\* The life of each token, as SessionLife sees it.
Lives == [t \in Token |-> LifeOf(t)]

\* A step in which tokens only die, if anything, is one of SessionLife.
LEMMA Dying ==
    ASSUME \A t \in Token : LifeOf(t)' = LifeOf(t) \/ LifeOf(t)' = "dead"
    PROVE  Life!LifeNext \/ Lives' = Lives
<1> DEFINE T == {t \in Token : LifeOf(t)' # LifeOf(t)}
<1>1. Lives' = [t \in Token |-> IF t \in T THEN "dead" ELSE Lives[t]]
  BY DEF Lives
<1>2. CASE T = {}
  BY <1>2 DEF Lives
<1>3. CASE T # {}
  <2>1. PICK t \in T : LifeOf(t)' # LifeOf(t)
    BY <1>3
  <2>2. Lives[t] # "dead"
    BY <2>1 DEF Lives
  <2>3. Life!End(T)
    BY <1>1, <2>2 DEF Life!End, Lives
  <2> QED
    BY <2>3 DEF Life!LifeNext
<1> QED
  BY <1>2, <1>3

\* Steps that change no row, no token and no clock, and let no request start or stop
\* waiting to insert, change nobody's life.
LEMMA Same ==
    ASSUME UNCHANGED <<sessions, issued, now>>, \A t \in Token : Pending(t)' = Pending(t)
    PROVE  \A t \in Token : LifeOf(t)' = LifeOf(t)
BY DEF LifeOf, Live

LEMMA LifeStep == TypeOK /\ TokenInv /\ RowInv /\ [Next]_vars => Life!LifeNext \/ Lives' = Lives
<1> SUFFICES ASSUME TypeOK, TokenInv, RowInv, [Next]_vars
             PROVE  Life!LifeNext \/ Lives' = Lives
  OBVIOUS
<1> DEFINE Dies == \A t \in Token : LifeOf(t)' = LifeOf(t) \/ LifeOf(t)' = "dead"
<1> USE AuthAssumption, SessionAssumption
    DEF TypeOK, TokenInv, RowInv, Holds, Goto, Respond, dbVars, formVars
<1>1. CASE Tick
  <2>1. ASSUME NEW t \in Token PROVE Live(t)' => Live(t)
    BY <1>1 DEF Tick, Live, Session
  <2>2. ASSUME NEW t \in Token PROVE Pending(t)' = Pending(t)
    BY <1>1 DEF Tick, Pending
  <2>3. ASSUME NEW t \in Token PROVE Live(t) => t \in issued /\ ~Pending(t)
    BY DEF Live, Pending
  <2>4. Dies
    BY <1>1, <2>1, <2>2, <2>3 DEF Tick, LifeOf
  <2> QED
    BY <2>4, Dying
<1>2. ASSUME NEW wipe \in WipeOnStart, Restart(wipe) PROVE Life!LifeNext \/ Lives' = Lives
  <2>1. ASSUME NEW t \in Token PROVE Live(t)' => Live(t)
    BY <1>2 DEF Restart, AfterStart, Live
  <2>2. ASSUME NEW t \in Token PROVE ~Pending(t)'
    BY <1>2 DEF Restart, Pending
  <2>3. ASSUME NEW t \in Token PROVE Live(t) => t \in issued
    BY DEF Live
  <2>4. Dies
    BY <1>2, <2>1, <2>2, <2>3 DEF Restart, LifeOf
  <2> QED
    BY <2>4, Dying
<1>3. ASSUME NEW q \in Request, Arrive(q) PROVE Life!LifeNext \/ Lives' = Lives
  <2>1. UNCHANGED <<sessions, issued, now>> /\ \A t \in Token : Pending(t)' = Pending(t)
    BY <1>3 DEF Arrive, SubmitForm, Visit, Pending
  <2> QED
    BY <2>1, Same, Dying
<1>4. ASSUME NEW q \in Request,
             \/ CreateUser(q) \/ CreateUserReplyLost(q) \/ UsernameTaken(q) \/ FindUser(q)
             \/ InvalidCredentials(q) \/ Authenticated(q) \/ Rejected(q) \/ DeleteSessionFails(q)
      PROVE  Life!LifeNext \/ Lives' = Lives
  <2>1. UNCHANGED <<sessions, issued, now>> /\ \A t \in Token : Pending(t)' = Pending(t)
    BY <1>4
    DEF CreateUser, CreateUserReplyLost, UsernameTaken, FindUser, InvalidCredentials,
        Authenticated, Rejected, DeleteSessionFails, Pending
  <2> QED
    BY <2>1, Same, Dying
<1>5. ASSUME NEW q \in Request, FormFails(q) PROVE Life!LifeNext \/ Lives' = Lives
  <2>1. UNCHANGED <<sessions, issued, now>>
    BY <1>5 DEF FormFails
  <2>2. ASSUME NEW t \in Token PROVE Pending(t)' => Pending(t)
    BY <1>5 DEF FormFails, Pending
  <2>3. ASSUME NEW t \in Token PROVE Pending(t) => t \in issued
    BY DEF Pending
  <2>4. Dies
    BY <2>1, <2>2, <2>3 DEF LifeOf, Live
  <2> QED
    BY <2>4, Dying
<1>6. ASSUME NEW q \in Request, NEW s \in Token, DeleteExpiredSessions(q, s)
      PROVE  Life!LifeNext \/ Lives' = Lives
  <2>1. ASSUME NEW t \in Token PROVE Live(t)' = Live(t)
    BY <1>6 DEF DeleteExpiredSessions, Live, Expired, Session
  <2>2. ASSUME NEW t \in Token, t # s PROVE Pending(t)' = Pending(t) /\ (t \in issued' <=> t \in issued)
    BY <1>6, <2>2 DEF DeleteExpiredSessions, Pending
  <2>3. s \notin issued /\ Pending(s)'
    BY <1>6 DEF DeleteExpiredSessions, Pending
  <2>4. Dies
    BY <2>1, <2>2, <2>3 DEF LifeOf
  <2> QED
    BY <2>4, Dying
<1>7. ASSUME NEW q \in Request, CreateSession(q) \/ CreateSessionReplyLost(q)
      PROVE  Life!LifeNext \/ Lives' = Lives
  <2>1. pc[q] = "create_session" /\ InsertSession(q) /\ UNCHANGED <<issued, now, token>>
    BY <1>7 DEF CreateSession, CreateSessionReplyLost
  <2>2. LifeOf(token[q]) = "fresh"
    BY <2>1 DEF LifeOf, Live, Pending
  <2>3. LifeOf(token[q])' = "live"
    <3>1. [user |-> name[q], expiresAt |-> now + TTL] \in Session
      BY DEF Session
    <3>2. sessions'[token[q]] = [user |-> name[q], expiresAt |-> now + TTL]
      BY <2>1 DEF InsertSession
    <3>3. now + TTL > now
      OBVIOUS
    <3>4. Live(token[q])'
      BY <2>1, <3>1, <3>2, <3>3 DEF Live
    <3> QED
      BY <3>4 DEF LifeOf
  <2>4. ASSUME NEW t \in Token, t # token[q] PROVE Pending(t)' = Pending(t)
    BY <1>7, <2>1, <2>4 DEF CreateSession, CreateSessionReplyLost, Pending
  <2>5. ASSUME NEW t \in Token, t # token[q] PROVE LifeOf(t)' = LifeOf(t)
    BY <2>1, <2>4, <2>5 DEF InsertSession, LifeOf, Live
  <2>6. Lives' = [Lives EXCEPT ![token[q]] = "live"]
    <3>1. Lives' = [t \in Token |-> LifeOf(t)']
      BY DEF Lives
    <3>2. \A t \in Token : LifeOf(t)' = IF t = token[q] THEN "live" ELSE Lives[t]
      BY <2>1, <2>3, <2>5 DEF Lives
    <3> QED
      BY <3>1, <3>2 DEF Lives
  <2>7. Life!Open(token[q])
    BY <2>2, <2>6 DEF Life!Open, Lives
  <2> QED
    BY <2>7 DEF Life!LifeNext
<1>8. ASSUME NEW q \in Request, DeleteSession(q) \/ DeleteSessionReplyLost(q)
      PROVE  Life!LifeNext \/ Lives' = Lives
  <2>1. ASSUME NEW t \in Token PROVE Live(t)' <=> Live(t) /\ t # token[q]
    BY <1>8 DEF DeleteSession, DeleteSessionReplyLost, Live
  <2>2. ASSUME NEW t \in Token PROVE Pending(t)' = Pending(t)
    BY <1>8 DEF DeleteSession, DeleteSessionReplyLost, Pending
  <2>3. token[q] \in issued /\ ~Pending(token[q])
    BY <1>8 DEF DeleteSession, DeleteSessionReplyLost, Pending
  <2>4. Dies
    BY <1>8, <2>1, <2>2, <2>3 DEF DeleteSession, DeleteSessionReplyLost, LifeOf
  <2> QED
    BY <2>4, Dying
<1>9. CASE UNCHANGED vars
  <2>1. UNCHANGED <<sessions, issued, now>> /\ \A t \in Token : Pending(t)' = Pending(t)
    BY <1>9 DEF vars, Pending
  <2> QED
    BY <2>1, Same, Dying
<1>10. ASSUME NEW q \in Request, Form(q) \/ Protected(q)
       PROVE  Life!LifeNext \/ Lives' = Lives
  BY <1>4, <1>5, <1>6, <1>7, <1>8, <1>10, Zenon DEF Form, Protected
<1> QED
  BY <1>1, <1>2, <1>3, <1>9, <1>10 DEF Next

\* AuthSessions implements SessionLife: for the holder of a token its session begins
\* once and ends once, whatever requests, failures, expiries and restarts do.
THEOREM TokensLiveOnce == Spec => TokenLivesOnce
<1>1. Init => Life!LifeInit
  BY DEF Init, Life!LifeInit, LifeOf, Live, Pending
<1>2. TypeOK /\ TokenInv /\ RowInv /\ [Next]_vars => [Life!LifeNext]_Lives
  BY LifeStep
<1> QED
  BY <1>1, <1>2, TypeInvariance, TokenInvariance, RowInvariance, PTL
  DEF Spec, TokenLivesOnce, Life!LifeSpec, Lives
================================================================================
