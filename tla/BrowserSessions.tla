----------------------------- MODULE BrowserSessions ---------------------------
(***************************************************************************)
(* One browser signed in to the program: RequireLogin of                   *)
(* web/middleware.go, the sign-in, signup and sign-out handlers of         *)
(* web/handlers.go, and the session cookie they set and clear.             *)
(*                                                                         *)
(* The browser has several tabs and one cookie jar.  A tab's request takes *)
(* the cookie from the jar as it is sent; by the time the response has     *)
(* come back and is applied to the jar, other tabs may have changed it.    *)
(* What a session token is worth is SessionLife, which AuthSessions        *)
(* implements; a statement of the database may fail.                       *)
(***************************************************************************)
EXTENDS SessionLife

CONSTANTS
    Tab,
    NoCookie    \* no session cookie, or a response that clears it

ASSUME BrowserAssumption == NoCookie \notin Token

VARIABLES
    jar,        \* the session cookie in the jar
    at,         \* where each tab is
    url,        \* what it asks for
    carried,    \* the cookie its request was sent with
    reply       \* the response to it

vars == <<life, jar, at, url, carried, reply>>

\* "home" is a protected page, "act" a protected request that may redirect to one
\* (/vehicles, the refreshes), "entry" GET /login and /signup, "submit" their forms.
URL == {"home", "act", "logout", "entry", "submit"}

\* A page or a redirect; whether and how it sets the cookie; and whether a failed
\* statement has had a part in it.
Reply == [to : URL \cup {"page"}, sets : BOOLEAN, cookie : Token \cup {NoCookie},
          failed : BOOLEAN]

KeepCookie(to) == [to |-> to, sets |-> FALSE, cookie |-> NoCookie, failed |-> FALSE]

TypeOK ==
    /\ life \in [Token -> Phases]
    /\ jar \in Token \cup {NoCookie}
    /\ at \in [Tab -> {"page", "send", "request", "response"}]
    /\ url \in [Tab -> URL]
    /\ carried \in [Tab -> Token \cup {NoCookie}]
    /\ reply \in [Tab -> Reply]

Init ==
    /\ LifeInit
    /\ jar = NoCookie
    /\ at = [b \in Tab |-> "page"]
    /\ url = [b \in Tab |-> "home"]
    /\ carried = [b \in Tab |-> NoCookie]
    /\ reply = [b \in Tab |-> KeepCookie("page")]

--------------------------------------------------------------------------------
(* The browser *)

Move(b, from, to) == at[b] = from /\ at' = [at EXCEPT ![b] = to]

\* The user follows a link or submits a form.
Navigate(b, u) ==
    /\ Move(b, "page", "send")
    /\ url' = [url EXCEPT ![b] = u]
    /\ UNCHANGED <<life, jar, carried, reply>>

Send(b) ==
    /\ Move(b, "send", "request")
    /\ carried' = [carried EXCEPT ![b] = jar]
    /\ UNCHANGED <<life, jar, url, reply>>

\* The tab is done with its request.
Forget(b) ==
    /\ carried' = [carried EXCEPT ![b] = NoCookie]
    /\ reply' = [reply EXCEPT ![b] = KeepCookie("page")]

\* The response arrives: the cookie goes into the jar, the redirect is followed.
Deliver(b) ==
    /\ at[b] = "response"
    /\ jar' = IF reply[b].sets THEN reply[b].cookie ELSE jar
    /\ IF reply[b].to = "page"
       THEN Move(b, "response", "page") /\ UNCHANGED url
       ELSE Move(b, "response", "send") /\ url' = [url EXCEPT ![b] = reply[b].to]
    /\ Forget(b)
    /\ UNCHANGED life

\* The connection breaks, before or after the request was served.
Lose(b) ==
    /\ Move(b, "request", "page") \/ Move(b, "response", "page")
    /\ Forget(b)
    /\ UNCHANGED <<life, jar, url>>

\* The cookie's Expires has come.
DropExpired ==
    /\ jar # NoCookie /\ life[jar] = "dead"
    /\ jar' = NoCookie
    /\ UNCHANGED <<life, at, url, carried, reply>>

--------------------------------------------------------------------------------
(* The server *)

Respond(b, r) ==
    /\ Move(b, "request", "response")
    /\ reply' = [reply EXCEPT ![b] = r]
    /\ UNCHANGED <<jar, url, carried>>

SignedIn(b) == carried[b] # NoCookie /\ life[carried[b]] = "live"

Protected(b) == at[b] = "request" /\ url[b] \in {"home", "act", "logout"}

\* (slip: the cookie is cleared on this path too)
ServeAnonymousClearing(b) ==
    /\ Protected(b)
    /\ carried[b] = NoCookie
    /\ Respond(b, [KeepCookie("entry") EXCEPT !.sets = TRUE])
    /\ UNCHANGED life

\* RequireLogin, of a request without the cookie.
ServeAnonymous(b) ==
    /\ Protected(b)
    /\ carried[b] = NoCookie
    /\ Respond(b, KeepCookie("entry"))
    /\ UNCHANGED life

\* (slip: the redirect goes to a route that is not there)
ServeRejectedElsewhere(b) ==
    /\ Protected(b)
    /\ carried[b] # NoCookie
    /\ Respond(b, [KeepCookie("signin") EXCEPT !.sets = TRUE, !.failed = SignedIn(b)])
    /\ UNCHANGED life

\* (slip: redirect without clearing the cookie)
ServeRejectedKeeping(b) ==
    /\ Protected(b)
    /\ carried[b] # NoCookie
    /\ Respond(b, [KeepCookie("entry") EXCEPT !.failed = SignedIn(b)])
    /\ UNCHANGED life

\* RequireLogin, of a request whose session is not there, or was not found because
\* the statement failed: both clear the cookie.
ServeRejected(b) ==
    /\ Protected(b)
    /\ carried[b] # NoCookie
    /\ Respond(b, [KeepCookie("entry") EXCEPT !.sets = TRUE, !.failed = SignedIn(b)])
    /\ UNCHANGED life

\* The page, or what RefreshAll, RefreshVehicle and VehiclesAlias redirect to.
ServePage(b) ==
    /\ Protected(b) /\ url[b] # "logout"
    /\ SignedIn(b)
    /\ Respond(b, KeepCookie("page")) \/ (url[b] = "act" /\ Respond(b, KeepCookie("home")))
    /\ UNCHANGED life

\* (slip: an early return when the DELETE fails, which leaves the cookie alone)
ServeLogoutKeeping(b) ==
    /\ Protected(b) /\ url[b] = "logout"
    /\ SignedIn(b)
    /\ \/ End({carried[b]}) /\ Respond(b, [KeepCookie("entry") EXCEPT !.sets = TRUE])
       \/ (End({carried[b]}) \/ UNCHANGED life)
          /\ Respond(b, [KeepCookie("entry") EXCEPT !.failed = TRUE])

\* Logout: the DELETE may fail, with its effect or without; the cookie is cleared
\* all the same.
ServeLogout(b) ==
    /\ Protected(b) /\ url[b] = "logout"
    /\ SignedIn(b)
    /\ \/ End({carried[b]}) /\ Respond(b, [KeepCookie("entry") EXCEPT !.sets = TRUE])
       \/ (End({carried[b]}) \/ UNCHANGED life)
          /\ Respond(b, [KeepCookie("entry") EXCEPT !.sets = TRUE, !.failed = TRUE])

\* LoginPage and SignupPage: a browser whose session is found goes home; a failed
\* statement counts as none, and leaves the cookie alone.
ServeEntry(b) ==
    /\ at[b] = "request" /\ url[b] = "entry"
    /\ \/ SignedIn(b) /\ Respond(b, KeepCookie("home"))
       \/ Respond(b, KeepCookie("page"))
    /\ UNCHANGED life

\* Login and Signup succeed, whatever cookie the request carried.
ServeSignIn(b, t) ==
    /\ at[b] = "request" /\ url[b] = "submit"
    /\ Open(t)
    /\ Respond(b, [KeepCookie("home") EXCEPT !.sets = TRUE, !.cookie = t])

\* They do not, or the reply of their last statement is lost.
ServeSignInFails(b) ==
    /\ at[b] = "request" /\ url[b] = "submit"
    /\ Respond(b, KeepCookie("page"))
    /\ (\E t \in Token : Open(t)) \/ UNCHANGED life

\* Sessions end by themselves, with the tables, or through another browser.
SessionEnds(t) ==
    /\ life[t] = "live"
    /\ End({t})
    /\ UNCHANGED <<jar, at, url, carried, reply>>

--------------------------------------------------------------------------------
Serve(b) ==
    \/ ServeAnonymous(b) \/ ServeRejected(b) \/ ServePage(b) \/ ServeLogout(b)
    \/ ServeEntry(b) \/ ServeSignInFails(b) \/ \E t \in Token : ServeSignIn(b, t)

Follow(b) == Send(b) \/ Serve(b) \/ Deliver(b)

Next ==
    \/ DropExpired
    \/ \E t \in Token : SessionEnds(t)
    \/ \E b \in Tab : Lose(b) \/ Follow(b) \/ \E u \in URL : Navigate(b, u)

\* The browser sends what it is asked to and follows redirects; the server
\* answers every request (AuthSessions, RefreshService); responses arrive.
Spec == Init /\ [][Next]_vars /\ \A b \in Tab : WF_vars(Follow(b))

--------------------------------------------------------------------------------
(* Properties *)

\* Following redirects ends at a page.  RequireLogin and LoginPage redirect to each
\* other and each asks the database anew, which may fail one and answer the other
\* any number of times: it is the cleared cookie that breaks the loop.
EveryNavigationEnds == \A b \in Tab : at[b] # "page" ~> at[b] = "page"

\* A response takes the cookie of a session in force out of the jar only if it
\* brings the cookie of another sign-in, if a statement failed, or if its request
\* was sent with another cookie and so was overtaken by the sign-in.  In
\* particular a request sent before any sign-in never undoes one.
KeptUnlessOvertaken ==
    [][jar # NoCookie /\ life[jar] = "live" /\ jar' # jar =>
          \E b \in Tab :
              /\ at[b] = "response" /\ at'[b] # "response"
              /\ \/ reply[b].cookie # NoCookie
                 \/ reply[b].failed
                 \/ carried[b] \notin {NoCookie, jar}]_vars

\* The browser has had the cookie of this session, and has it no more.
Gone(t) == life[t] # "fresh" /\ jar # t /\ \A b \in Tab : reply[b].cookie # t

\* Who has been told to be signed out is so in this browser, also where the DELETE
\* failed and the session is still in force: the answer takes the cookie away, and
\* no answer to another tab that is still under way ever brings it back.
SignedOutHere ==
    [][\A t \in Token :
          /\ Gone(t) => Gone(t)'
          /\ \A b \in Tab :
                /\ at[b] = "response" /\ at'[b] = "send"
                /\ url[b] = "logout" /\ carried[b] = t
                => Gone(t)']_vars
================================================================================
