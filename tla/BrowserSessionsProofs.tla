------------------------- MODULE BrowserSessionsProofs -------------------------
(***************************************************************************)
(* Theorems about BrowserSessions for any number of tabs and sessions.     *)
(***************************************************************************)
EXTENDS BrowserSessions, TLAPS

\* Every cookie the browser has or is about to get was set by a sign-in.
Issued(c) == c = NoCookie \/ life[c] # "fresh"

CookiesIssued ==
    /\ Issued(jar)
    /\ \A b \in Tab : Issued(carried[b]) /\ Issued(reply[b].cookie)

\* A response that clears the cookie, and does not owe it to a failed statement,
\* answers a request that brought a cookie whose session has ended.
ClearedIsDead ==
    \A b \in Tab :
        /\ at[b] = "response" /\ reply[b].sets /\ reply[b].cookie = NoCookie
        /\ ~reply[b].failed
        => carried[b] # NoCookie /\ life[carried[b]] = "dead"

Inv == TypeOK /\ CookiesIssued /\ ClearedIsDead

LEMMA InitInv == Init => Inv
BY BrowserAssumption
DEF Init, Inv, TypeOK, CookiesIssued, ClearedIsDead, Issued, LifeInit, Phases, KeepCookie, Reply, URL

--------------------------------------------------------------------------------
(* Steps of SessionLife *)

\* Sessions only go forward, so nothing that is issued or dead stops being so.
LEMMA LifeForward ==
    ASSUME TypeOK, UNCHANGED life \/ (\E t \in Token : Open(t)) \/ (\E t \in Token : End({t}))
    PROVE  /\ life' \in [Token -> Phases]
           /\ \A t \in Token : life[t] # "fresh" => life'[t] # "fresh"
           /\ \A t \in Token : life[t] = "dead" => life'[t] = "dead"
BY DEF TypeOK, Phases, Open, End

--------------------------------------------------------------------------------
LEMMA NextInv == Inv /\ [Next]_vars => Inv'
<1> SUFFICES ASSUME Inv, [Next]_vars PROVE Inv'
  OBVIOUS
<1> USE BrowserAssumption DEF Inv, TypeOK, CookiesIssued, ClearedIsDead, Issued, Move
<1>1. CASE DropExpired
  BY <1>1 DEF DropExpired
<1>2. ASSUME NEW t \in Token, SessionEnds(t) PROVE Inv'
  <2>1. /\ life' \in [Token -> Phases]
        /\ \A s \in Token : life[s] # "fresh" => life'[s] # "fresh"
        /\ \A s \in Token : life[s] = "dead" => life'[s] = "dead"
    BY <1>2, LifeForward DEF SessionEnds
  <2>2. UNCHANGED <<jar, at, url, carried, reply>>
    BY <1>2 DEF SessionEnds
  <2>3. TypeOK'
    BY <2>1, <2>2
  <2>4. CookiesIssued'
    <3>1. \A c \in Tab : reply[c].cookie \in Token \cup {NoCookie}
      BY DEF Reply
    <3> QED
      BY <2>1, <2>2, <3>1
  <2>5. ClearedIsDead'
    BY <2>1, <2>2
  <2> QED
    BY <2>3, <2>4, <2>5
<1>3. ASSUME NEW b \in Tab, NEW u \in URL, Navigate(b, u) PROVE Inv'
  BY <1>3 DEF Navigate
<1>4. ASSUME NEW b \in Tab, Send(b) PROVE Inv'
  BY <1>4 DEF Send
<1>5. ASSUME NEW b \in Tab, Lose(b) PROVE Inv'
  BY <1>5 DEF Lose, Forget, KeepCookie, Reply, URL
<1>6. ASSUME NEW b \in Tab, Deliver(b) PROVE Inv'
  <2>1. reply[b] \in Reply
    OBVIOUS
  <2>2. url' \in [Tab -> URL]
    BY <1>6, <2>1 DEF Deliver, Reply
  <2>3. jar' \in Token \cup {NoCookie} /\ Issued(jar)'
    BY <1>6, <2>1 DEF Deliver, Reply
  <2>4. KeepCookie("page") \in Reply /\ KeepCookie("page").cookie = NoCookie
    BY DEF KeepCookie, Reply
  <2> QED
    BY <1>6, <2>2, <2>3, <2>4 DEF Deliver, Forget
\* What is left to show when the server responds to b with r.
<1>7. ASSUME NEW b \in Tab, NEW r \in Reply, Respond(b, r),
             UNCHANGED life \/ (\E t \in Token : Open(t)) \/ (\E t \in Token : End({t})),
             Issued(r.cookie)',
             r.sets /\ r.cookie = NoCookie /\ ~r.failed =>
                carried[b] # NoCookie /\ life'[carried[b]] = "dead"
      PROVE  Inv'
  <2>1. /\ life' \in [Token -> Phases]
        /\ \A s \in Token : life[s] # "fresh" => life'[s] # "fresh"
        /\ \A s \in Token : life[s] = "dead" => life'[s] = "dead"
    BY <1>7, LifeForward
  <2>2. /\ UNCHANGED <<jar, url, carried>>
        /\ at[b] = "request" /\ at' = [at EXCEPT ![b] = "response"]
        /\ reply' = [reply EXCEPT ![b] = r]
    BY <1>7 DEF Respond
  <2>3. TypeOK'
    BY <1>7, <2>1, <2>2
  <2>4. CookiesIssued'
    <3>1. r.cookie \in Token \cup {NoCookie}
      BY <1>7 DEF Reply
    <3>2. \A c \in Tab : reply[c].cookie \in Token \cup {NoCookie}
      BY DEF Reply
    <3> QED
      BY <1>7, <2>1, <2>2, <3>1, <3>2
  <2>5. ClearedIsDead'
    BY <1>7, <2>1, <2>2
  <2> QED
    BY <2>3, <2>4, <2>5
<1>8. ASSUME NEW b \in Tab, Serve(b) PROVE Inv'
  <2>1. CASE ServeAnonymous(b)
    BY <1>7, <2>1 DEF ServeAnonymous, KeepCookie, Reply, URL
  <2>2. CASE ServeRejected(b)
    <3>1. life[carried[b]] = "dead" \/ SignedIn(b)
      BY <2>2 DEF ServeRejected, SignedIn, Phases
    <3> QED
      BY <1>7, <2>2, <3>1 DEF ServeRejected, SignedIn, KeepCookie, Reply, URL
  <2>3. CASE ServePage(b)
    BY <1>7, <2>3 DEF ServePage, KeepCookie, Reply, URL
  <2>4. CASE ServeLogout(b)
    <3>1. carried[b] \in Token
      BY <2>4 DEF ServeLogout, SignedIn
    <3>2. CASE End({carried[b]})
               /\ Respond(b, [KeepCookie("entry") EXCEPT !.sets = TRUE])
      BY <1>7, <3>1, <3>2 DEF End, KeepCookie, Reply, URL
    <3>3. CASE /\ Respond(b, [KeepCookie("entry") EXCEPT !.sets = TRUE, !.failed = TRUE])
               /\ End({carried[b]}) \/ UNCHANGED life
      BY <1>7, <3>1, <3>3 DEF KeepCookie, Reply, URL
    <3> QED
      BY <2>4, <3>2, <3>3 DEF ServeLogout
  <2>5. CASE ServeEntry(b)
    BY <1>7, <2>5 DEF ServeEntry, KeepCookie, Reply, URL
  <2>6. CASE ServeSignInFails(b)
    BY <1>7, <2>6 DEF ServeSignInFails, KeepCookie, Reply, URL
  <2>7. ASSUME NEW t \in Token, ServeSignIn(b, t) PROVE Inv'
    <3>1. life'[t] # "fresh"
      BY <2>7 DEF ServeSignIn, Open
    <3> QED
      BY <1>7, <2>7, <3>1 DEF ServeSignIn, KeepCookie, Reply, URL
  <2> QED
    BY <1>8, <2>1, <2>2, <2>3, <2>4, <2>5, <2>6, <2>7 DEF Serve
<1>9. CASE UNCHANGED vars
  BY <1>9 DEF vars
<1> QED
  BY <1>1, <1>2, <1>3, <1>4, <1>5, <1>6, <1>8, <1>9 DEF Next, Follow

LEMMA Invariance == Spec => []Inv
BY InitInv, NextInv, PTL DEF Spec

\* Every redirect goes to a route and every cookie is one that was set.
THEOREM TypeCorrect == Spec => []TypeOK
BY Invariance, PTL DEF Inv

\* A sign-in is undone by a later sign-in, a failed statement or the answer to a
\* request sent with an older cookie, by nothing else, whatever the order in which
\* responses arrive.
THEOREM CookieKept == Spec => KeptUnlessOvertaken
<1> DEFINE Explained ==
        \E b \in Tab :
            /\ at[b] = "response" /\ at'[b] # "response"
            /\ \/ reply[b].cookie # NoCookie
               \/ reply[b].failed
               \/ carried[b] \notin {NoCookie, jar}
<1>1. Inv /\ [Next]_vars => [jar # NoCookie /\ life[jar] = "live" /\ jar' # jar => Explained]_vars
  <2> SUFFICES ASSUME Inv, Next, jar # NoCookie, life[jar] = "live", jar' # jar
               PROVE  Explained
    OBVIOUS
  <2>1. PICK b \in Tab : Deliver(b)
    BY DEF Next, DropExpired, SessionEnds, Lose, Follow, Send, Serve, Navigate, ServeAnonymous,
           ServeRejected, ServePage, ServeLogout, ServeEntry, ServeSignIn, ServeSignInFails,
           Respond
  <2>2. at[b] = "response" /\ at'[b] # "response" /\ reply[b].sets
    BY <2>1 DEF Deliver, Move, Inv, TypeOK
  <2>3. CASE reply[b].cookie = NoCookie /\ ~reply[b].failed
    <3>1. carried[b] # NoCookie /\ life[carried[b]] = "dead"
      BY <2>2, <2>3 DEF Inv, ClearedIsDead
    <3> QED
      BY <2>2, <3>1
  <2> QED
    BY <2>2, <2>3
<1> QED
  BY <1>1, Invariance, PTL DEF Spec, KeptUnlessOvertaken

--------------------------------------------------------------------------------
(* Signing out *)

\* A cookie on its way to the browser is in no other place: no other answer brings
\* it, and neither the jar nor a request has it yet.
OnItsWayOnce ==
    \A b \in Tab : reply[b].cookie # NoCookie =>
        /\ jar # reply[b].cookie
        /\ \A c \in Tab : /\ carried[c] # reply[b].cookie
                          /\ reply[c].cookie = reply[b].cookie => c = b

LEMMA OnItsWayInit == Init => OnItsWayOnce
BY DEF Init, OnItsWayOnce, KeepCookie

\* A step of the server but a sign-in brings no cookie.
LEMMA ServeBringsNothing ==
    ASSUME TypeOK, NEW b \in Tab, Serve(b), \A t \in Token : ~ServeSignIn(b, t)
    PROVE  /\ UNCHANGED <<jar, carried>>
           /\ \A c \in Tab : reply'[c].cookie \in {reply[c].cookie, NoCookie}
<1>1. ASSUME NEW r, Respond(b, r), r.cookie = NoCookie
      PROVE  /\ UNCHANGED <<jar, carried>>
             /\ \A c \in Tab : reply'[c].cookie \in {reply[c].cookie, NoCookie}
  BY <1>1 DEF TypeOK, Respond
<1>2. CASE ServeAnonymous(b)
  BY <1>1, <1>2 DEF ServeAnonymous, KeepCookie
<1>3. CASE ServeRejected(b)
  BY <1>1, <1>3 DEF ServeRejected, KeepCookie
<1>4. CASE ServePage(b)
  BY <1>1, <1>4 DEF ServePage, KeepCookie
<1>5. CASE ServeLogout(b)
  BY <1>1, <1>5 DEF ServeLogout, KeepCookie
<1>6. CASE ServeEntry(b) \/ ServeSignInFails(b)
  BY <1>1, <1>6 DEF ServeEntry, ServeSignInFails, KeepCookie
<1> QED
  BY <1>2, <1>3, <1>4, <1>5, <1>6 DEF Serve

LEMMA OnItsWayStep == Inv /\ OnItsWayOnce /\ [Next]_vars => OnItsWayOnce'
<1> SUFFICES ASSUME Inv, OnItsWayOnce, [Next]_vars PROVE OnItsWayOnce'
  OBVIOUS
<1> USE BrowserAssumption DEF Inv, TypeOK, OnItsWayOnce, Move
<1>1. CASE DropExpired
  <2>1. jar' = NoCookie /\ UNCHANGED <<carried, reply>>
    BY <1>1 DEF DropExpired
  <2> QED
    BY <2>1
<1>2. ASSUME NEW t \in Token, SessionEnds(t) PROVE OnItsWayOnce'
  BY <1>2 DEF SessionEnds
<1>3. ASSUME NEW b \in Tab, NEW u \in URL, Navigate(b, u) PROVE OnItsWayOnce'
  BY <1>3 DEF Navigate
<1>4. ASSUME NEW b \in Tab, Send(b) PROVE OnItsWayOnce'
  BY <1>4 DEF Send
<1>5. ASSUME NEW b \in Tab, Lose(b) PROVE OnItsWayOnce'
  BY <1>5 DEF Lose, Forget, KeepCookie
<1>6. ASSUME NEW b \in Tab, Deliver(b) PROVE OnItsWayOnce'
  <2>1. /\ jar' \in {jar, reply[b].cookie}
        /\ carried' = [carried EXCEPT ![b] = NoCookie]
        /\ reply'[b].cookie = NoCookie
        /\ \A c \in Tab \ {b} : reply'[c] = reply[c]
    BY <1>6 DEF Deliver, Forget, KeepCookie
  <2> SUFFICES ASSUME NEW c \in Tab, reply'[c].cookie # NoCookie
               PROVE  /\ jar' # reply'[c].cookie
                      /\ \A d \in Tab : /\ carried'[d] # reply'[c].cookie
                                        /\ reply'[d].cookie = reply'[c].cookie => d = c
    OBVIOUS
  <2>2. c # b /\ reply'[c] = reply[c]
    BY <2>1
  <2> QED
    BY <2>1, <2>2
<1>7. ASSUME NEW b \in Tab, NEW t \in Token, ServeSignIn(b, t) PROVE OnItsWayOnce'
  <2>1. /\ life[t] = "fresh"
        /\ UNCHANGED <<jar, carried>>
        /\ reply'[b].cookie = t
        /\ \A c \in Tab \ {b} : reply'[c] = reply[c]
    BY <1>7 DEF ServeSignIn, Open, Respond, KeepCookie
  <2>2. jar # t /\ \A c \in Tab : carried[c] # t /\ reply[c].cookie # t
    BY <2>1 DEF CookiesIssued, Issued
  <2> QED
    BY <2>1, <2>2
<1>8. ASSUME NEW b \in Tab, Serve(b), \A t \in Token : ~ServeSignIn(b, t)
      PROVE  OnItsWayOnce'
  BY <1>8, ServeBringsNothing
<1>9. CASE UNCHANGED vars
  BY <1>9 DEF vars
<1> QED
  BY <1>1, <1>2, <1>3, <1>4, <1>5, <1>6, <1>7, <1>8, <1>9 DEF Next, Follow

\* A session's cookie that is gone stays away: only a sign-in sends a cookie, and
\* that of a fresh session.
LEMMA GoneStep == Inv /\ [Next]_vars => \A t \in Token : Gone(t) => Gone(t)'
<1> SUFFICES ASSUME Inv, [Next]_vars, NEW t \in Token, Gone(t) PROVE Gone(t)'
  OBVIOUS
<1> USE BrowserAssumption DEF Inv, TypeOK, Gone, Move
<1>1. life'[t] # "fresh"
  BY DEF Next, vars, DropExpired, SessionEnds, Navigate, Lose, Follow, Send, Deliver, Serve,
         ServeAnonymous, ServeRejected, ServePage, ServeLogout, ServeEntry, ServeSignIn,
         ServeSignInFails, Open, End
<1>2. CASE DropExpired \/ (\E s \in Token : SessionEnds(s)) \/ UNCHANGED vars
  BY <1>1, <1>2 DEF DropExpired, SessionEnds, vars
<1>3. ASSUME NEW b \in Tab, NEW u \in URL, Navigate(b, u) PROVE Gone(t)'
  BY <1>1, <1>3 DEF Navigate
<1>4. ASSUME NEW b \in Tab, Send(b) PROVE Gone(t)'
  BY <1>1, <1>4 DEF Send
<1>5. ASSUME NEW b \in Tab, Lose(b) PROVE Gone(t)'
  BY <1>1, <1>5 DEF Lose, Forget, KeepCookie
<1>6. ASSUME NEW b \in Tab, Deliver(b) PROVE Gone(t)'
  BY <1>1, <1>6 DEF Deliver, Forget, KeepCookie
<1>7. ASSUME NEW b \in Tab, NEW s \in Token, ServeSignIn(b, s) PROVE Gone(t)'
  BY <1>1, <1>7 DEF ServeSignIn, Open, Respond, KeepCookie
<1>8. ASSUME NEW b \in Tab, Serve(b), \A s \in Token : ~ServeSignIn(b, s)
      PROVE  Gone(t)'
  BY <1>1, <1>8, ServeBringsNothing
<1> QED
  BY <1>2, <1>3, <1>4, <1>5, <1>6, <1>7, <1>8 DEF Next, Follow

\* The answer to a sign-out clears the cookie, whatever happened to the session.
LogoutClears ==
    \A b \in Tab :
        at[b] = "response" /\ url[b] = "logout" /\ carried[b] # NoCookie
        => reply[b].sets /\ reply[b].cookie = NoCookie

LEMMA LogoutClearsStep == Inv /\ LogoutClears /\ [Next]_vars => LogoutClears'
<1> SUFFICES ASSUME Inv, LogoutClears, [Next]_vars PROVE LogoutClears'
  OBVIOUS
<1> USE BrowserAssumption DEF Inv, TypeOK, LogoutClears, Move
<1>1. CASE DropExpired \/ (\E s \in Token : SessionEnds(s)) \/ UNCHANGED vars
  BY <1>1 DEF DropExpired, SessionEnds, vars
<1>2. ASSUME NEW b \in Tab, NEW u \in URL, Navigate(b, u) PROVE LogoutClears'
  BY <1>2 DEF Navigate
<1>3. ASSUME NEW b \in Tab, Send(b) \/ Lose(b) \/ Deliver(b) PROVE LogoutClears'
  BY <1>3 DEF Send, Lose, Deliver, Forget, KeepCookie
<1>4. ASSUME NEW b \in Tab, NEW r, Respond(b, r),
             url[b] = "logout" /\ carried[b] # NoCookie => r.sets /\ r.cookie = NoCookie
      PROVE  LogoutClears'
  BY <1>4 DEF Respond
<1>5. ASSUME NEW b \in Tab, Serve(b) PROVE LogoutClears'
  <2>1. CASE ServeAnonymous(b)
    BY <1>4, <2>1 DEF ServeAnonymous
  <2>2. CASE ServeRejected(b)
    BY <1>4, <2>2 DEF ServeRejected, KeepCookie
  <2>3. CASE ServeLogout(b)
    BY <1>4, <2>3 DEF ServeLogout, KeepCookie
  <2>4. CASE url[b] # "logout" /\ \E r : Respond(b, r)
    BY <1>4, <2>4
  <2> QED
    BY <1>5, <2>1, <2>2, <2>3, <2>4
    DEF Serve, ServePage, ServeEntry, ServeSignIn, ServeSignInFails
<1> QED
  BY <1>1, <1>2, <1>3, <1>5 DEF Next, Follow

\* Whoever is told to be signed out has lost the cookie for good, also where the
\* DELETE failed, whatever answers to other tabs are still under way.
THEOREM SignOutSticks == Spec => SignedOutHere
<1>1. Init => OnItsWayOnce /\ LogoutClears
  BY OnItsWayInit DEF Init, LogoutClears
<1>2. ASSUME Inv, OnItsWayOnce, LogoutClears, Next,
             NEW t \in Token, NEW b \in Tab,
             at[b] = "response", at'[b] = "send", url[b] = "logout", carried[b] = t
      PROVE  Gone(t)'
  <2> USE BrowserAssumption DEF Inv, TypeOK, Move
  <2>1. Deliver(b)
    BY <1>2 DEF Next, DropExpired, SessionEnds, Lose, Follow, Send, Serve, Navigate,
           Deliver, ServeAnonymous, ServeRejected, ServePage, ServeLogout, ServeEntry,
           ServeSignIn, ServeSignInFails, Respond
  <2>2. reply[b].sets /\ reply[b].cookie = NoCookie
    BY <1>2 DEF LogoutClears
  <2>3. \A c \in Tab : reply[c].cookie # t
    BY <1>2 DEF OnItsWayOnce
  <2>4. life[t] # "fresh"
    BY <1>2 DEF CookiesIssued, Issued
  <2>5. life'[t] # "fresh" /\ jar' # t /\ \A c \in Tab : reply'[c].cookie # t
    BY <2>1, <2>2, <2>3, <2>4 DEF Deliver, Forget, KeepCookie
  <2> QED
    BY <2>5 DEF Gone
<1>3. Inv /\ OnItsWayOnce /\ LogoutClears /\ [Next]_vars
      => [\A t \in Token :
             /\ Gone(t) => Gone(t)'
             /\ \A b \in Tab :
                   /\ at[b] = "response" /\ at'[b] = "send"
                   /\ url[b] = "logout" /\ carried[b] = t
                   => Gone(t)']_vars
  BY <1>2, GoneStep
<1> QED
  BY <1>1, <1>3, OnItsWayStep, LogoutClearsStep, Invariance, PTL DEF Spec, SignedOutHere
================================================================================
