----------------------------- MODULE SmartcarClient ----------------------------
(***************************************************************************)
(* The Smartcar API client: internal/smartcar/client.go and token.go.      *)
(*                                                                         *)
(* A caller is a goroutine that makes one API call after the other:        *)
(* ListConnections (page after page), GetVehicle or GetSignal.  Each call  *)
(* takes the cached access token or, holding tokenMu all the while,        *)
(* requests a new one; then it sends its request.  Both requests go        *)
(* through do, the retry loop, which sleeps between attempts.              *)
(*                                                                         *)
(* Time is kept as the time that remains, of the cached token and of each  *)
(* sleep, and Tick lets all of it run down.                                *)
(***************************************************************************)
EXTENDS Integers, Sequences

CONSTANTS
    Caller,          \* the goroutines
    NoCaller,        \* owner of tokenMu when it is free
    MaxRetries,      \* Client.maxRetries
    Margin,          \* how long before it expires a token is no longer used
    Lifetimes,       \* expires_in of the tokens the IAM service grants
    Delays,          \* lengths of a sleep: backoff or Retry-After
    MaxPages,        \* next links of one listing at most
    Outcomes,        \* how an HTTP request may fail
    VehicleBasePath  \* path of Client.vehicleBaseURL, split at the slashes

ASSUME ClientAssumption ==
    /\ NoCaller \notin Caller
    /\ MaxRetries \in Nat
    /\ Margin \in Nat
    /\ Lifetimes \subseteq Nat
    /\ Delays \subseteq Nat
    /\ MaxPages \in Nat
    /\ "ok" \notin Outcomes

VARIABLES
    tokenMu,      \* the caller that holds Client.tokenMu, or NoCaller
    tokenCache,   \* Client.tokenCache: set if it has a value, and its time left
    pc,           \* where each caller is
    op,           \* the API call it makes
    sending,      \* which request its do loop sends: "token" or "call"
    captured,     \* time left of the token that its call sends with every attempt
    attempt,      \* attempt of the do loop
    delay,        \* what is left of its sleep
    pages,        \* next links its listing has still to follow
    cancelled     \* whether its context is cancelled

vars == <<tokenMu, tokenCache, pc, op, sending, captured, attempt, delay, pages, cancelled>>

Op == {"list_connections", "next_page", "get_vehicle", "get_signal"}
Token == [set : BOOLEAN, left : Nat]

InCall(p) == pc[p] \in {"lock", "send", "sleep"}

ClientTypeOK ==
    /\ tokenMu \in Caller \cup {NoCaller}
    /\ tokenCache \in Token
    /\ pc \in [Caller -> {"idle", "lock", "send", "sleep"}]
    /\ op \in [Caller -> Op]
    /\ sending \in [Caller -> {"token", "call"}]
    /\ captured \in [Caller -> Nat]
    /\ attempt \in [Caller -> 0..MaxRetries]
    /\ delay \in [Caller -> Nat]
    /\ pages \in [Caller -> 0..MaxPages]
    /\ cancelled \in [Caller -> BOOLEAN]

Init ==
    /\ tokenMu = NoCaller
    /\ tokenCache = [set |-> FALSE, left |-> 0]
    /\ pc = [p \in Caller |-> "idle"]
    /\ op = [p \in Caller |-> "get_vehicle"]
    /\ sending = [p \in Caller |-> "call"]
    /\ captured = [p \in Caller |-> 0]
    /\ attempt = [p \in Caller |-> 0]
    /\ delay = [p \in Caller |-> 0]
    /\ pages = [p \in Caller |-> 0]
    /\ cancelled = [p \in Caller |-> FALSE]

--------------------------------------------------------------------------------
(* Helpers *)

\* accessToken.valid: not yet within Margin of its end.
Valid(token) == token.set /\ token.left > Margin

\* (slip: one attempt too many)
CanRetryOnceMore(p) == attempt[p] <= MaxRetries

CanRetry(p) == attempt[p] < MaxRetries

\* shouldRetryStatus and shouldRetryError: overload and gateway statuses, and
\* network errors other than a timeout or a cancelled context.
ShouldRetry(o) == o \in {"429", "502", "503", "504", "network"}

\* A request whose context is cancelled fails as such, and only such a request.
MayFail(p, o) == IF cancelled[p] THEN o = "cancelled" ELSE o \in Outcomes

Goto(p, to) == pc' = [pc EXCEPT ![p] = to]

\* The call returns, and its locals with it.
Return(p) ==
    /\ Goto(p, "idle")
    /\ op' = [op EXCEPT ![p] = "get_vehicle"]
    /\ sending' = [sending EXCEPT ![p] = "call"]
    /\ captured' = [captured EXCEPT ![p] = 0]
    /\ attempt' = [attempt EXCEPT ![p] = 0]
    /\ delay' = [delay EXCEPT ![p] = 0]
    /\ pages' = [pages EXCEPT ![p] = 0]

\* (slip: the error path of a token request keeps the mutex)
ReturnErrorLocked(p) == Return(p) /\ UNCHANGED tokenMu

\* do fails and so does the call; accessToken's deferred Unlock runs.
ReturnError(p) ==
    /\ Return(p)
    /\ tokenMu' = IF sending[p] = "token" THEN NoCaller ELSE tokenMu

--------------------------------------------------------------------------------
(* A call *)

\* The next call, of the same request (whose context may be cancelled) or of a
\* new one.
Call(p, o) ==
    /\ pc[p] = "idle"
    /\ op' = [op EXCEPT ![p] = o]
    /\ \E c \in {cancelled[p], FALSE} : cancelled' = [cancelled EXCEPT ![p] = c]
    /\ Goto(p, "lock")
    /\ UNCHANGED <<tokenMu, tokenCache, sending, captured, attempt, delay, pages>>

Cancel(p) ==
    /\ InCall(p)
    /\ ~cancelled[p]
    /\ cancelled' = [cancelled EXCEPT ![p] = TRUE]
    /\ UNCHANGED <<tokenMu, tokenCache, pc, op, sending, captured, attempt, delay, pages>>

\* accessToken finds a valid token under the lock, which it gives up at once; all
\* attempts of the call are made with this token.
UseCachedToken(p) ==
    /\ pc[p] = "lock"
    /\ tokenMu = NoCaller
    /\ Valid(tokenCache)
    /\ captured' = [captured EXCEPT ![p] = tokenCache.left]
    /\ sending' = [sending EXCEPT ![p] = "call"]
    /\ attempt' = [attempt EXCEPT ![p] = 0]
    /\ Goto(p, "send")
    /\ UNCHANGED <<tokenMu, tokenCache, op, delay, pages, cancelled>>

\* (slip: the token is requested without the lock)
RequestTokenUnlocked(p) ==
    /\ pc[p] = "lock"
    /\ ~Valid(tokenCache)
    /\ tokenMu' = p
    /\ sending' = [sending EXCEPT ![p] = "token"]
    /\ attempt' = [attempt EXCEPT ![p] = 0]
    /\ Goto(p, "send")
    /\ UNCHANGED <<tokenCache, op, captured, delay, pages, cancelled>>

\* accessToken finds none: it keeps the lock and requests one.
RequestToken(p) ==
    /\ pc[p] = "lock"
    /\ tokenMu = NoCaller
    /\ ~Valid(tokenCache)
    /\ tokenMu' = p
    /\ sending' = [sending EXCEPT ![p] = "token"]
    /\ attempt' = [attempt EXCEPT ![p] = 0]
    /\ Goto(p, "send")
    /\ UNCHANGED <<tokenCache, op, captured, delay, pages, cancelled>>

GetToken(p) == UseCachedToken(p) \/ RequestToken(p)

\* requestAccessToken's reply: the token is cached and used, whatever its value
\* and lifetime are, and tokenMu is released.
TokenGranted(p, hasValue, lifetime) ==
    /\ pc[p] = "send" /\ sending[p] = "token"
    /\ ~cancelled[p]
    /\ tokenCache' = [set |-> hasValue, left |-> lifetime]
    /\ captured' = [captured EXCEPT ![p] = lifetime]
    /\ tokenMu' = NoCaller
    /\ sending' = [sending EXCEPT ![p] = "call"]
    /\ attempt' = [attempt EXCEPT ![p] = 0]
    /\ UNCHANGED <<pc, op, delay, pages, cancelled>>

\* The call's reply; a listing may link to a next page, up to MaxPages of them.
CallReplied(p) ==
    /\ pc[p] = "send" /\ sending[p] = "call"
    /\ ~cancelled[p]
    /\ Return(p)
    /\ UNCHANGED <<tokenMu, tokenCache, cancelled>>

\* (slip: the token of the first page is kept for the others)
NextPageKeepingToken(p) ==
    /\ pc[p] = "send" /\ sending[p] = "call"
    /\ ~cancelled[p]
    /\ op[p] \in {"list_connections", "next_page"}
    /\ pages[p] < MaxPages
    /\ op' = [op EXCEPT ![p] = "next_page"]
    /\ pages' = [pages EXCEPT ![p] = @ + 1]
    /\ attempt' = [attempt EXCEPT ![p] = 0]
    /\ UNCHANGED <<tokenMu, tokenCache, pc, sending, captured, delay, cancelled>>

\* Each page is a call of its own, which gets its token anew.
NextPage(p) ==
    /\ pc[p] = "send" /\ sending[p] = "call"
    /\ ~cancelled[p]
    /\ op[p] \in {"list_connections", "next_page"}
    /\ pages[p] < MaxPages
    /\ op' = [op EXCEPT ![p] = "next_page"]
    /\ pages' = [pages EXCEPT ![p] = @ + 1]
    /\ captured' = [captured EXCEPT ![p] = 0]
    /\ attempt' = [attempt EXCEPT ![p] = 0]
    /\ Goto(p, "lock")
    /\ UNCHANGED <<tokenMu, tokenCache, sending, delay, cancelled>>

\* A failure that do retries: sleep first, still holding tokenMu if it is the
\* token that is requested.
SleepToRetry(p, o, d) ==
    /\ pc[p] = "send"
    /\ MayFail(p, o) /\ ShouldRetry(o) /\ CanRetry(p)
    /\ delay' = [delay EXCEPT ![p] = d]
    /\ Goto(p, "sleep")
    /\ UNCHANGED <<tokenMu, tokenCache, op, sending, captured, attempt, pages, cancelled>>

\* A failure do does not retry, or not again; also a reply that does not decode.
Fail(p, o) ==
    /\ pc[p] = "send"
    /\ MayFail(p, o) /\ ~(ShouldRetry(o) /\ CanRetry(p))
    /\ ReturnError(p)
    /\ UNCHANGED <<tokenCache, cancelled>>

\* sleepContext: the timer fires, or the context is done first.
Wake(p) ==
    /\ pc[p] = "sleep"
    /\ delay[p] = 0
    /\ attempt' = [attempt EXCEPT ![p] = @ + 1]
    /\ Goto(p, "send")
    /\ UNCHANGED <<tokenMu, tokenCache, op, sending, captured, delay, pages, cancelled>>

WakeCancelled(p) ==
    /\ pc[p] = "sleep"
    /\ cancelled[p]
    /\ ReturnError(p)
    /\ UNCHANGED <<tokenCache, cancelled>>

Less(n) == IF n > 0 THEN n - 1 ELSE 0

Tick ==
    /\ tokenCache' = [tokenCache EXCEPT !.left = Less(@)]
    /\ captured' = [p \in Caller |-> Less(captured[p])]
    /\ delay' = [p \in Caller |-> Less(delay[p])]
    /\ <<tokenCache', captured', delay'>> # <<tokenCache, captured, delay>>
    /\ UNCHANGED <<tokenMu, pc, op, sending, attempt, pages, cancelled>>

--------------------------------------------------------------------------------
Answered(p) ==
    \/ \E hasValue \in BOOLEAN, lifetime \in Lifetimes : TokenGranted(p, hasValue, lifetime)
    \/ CallReplied(p) \/ NextPage(p)
    \/ \E o \in Outcomes \cup {"cancelled"} :
         Fail(p, o) \/ \E d \in Delays : SleepToRetry(p, o, d)

Awake(p) == Wake(p) \/ WakeCancelled(p)

Next ==
    \/ Tick
    \/ \E p \in Caller :
         \/ \E o \in Op \ {"next_page"} : Call(p, o)
         \/ Cancel(p) \/ GetToken(p) \/ Answered(p) \/ Awake(p)

\* Time passes; an HTTP request is answered or times out (cfg.Timeout, the
\* transport's timeouts); a timer that has fired is noticed; sync.Mutex starves
\* no waiter.
Fairness ==
    /\ WF_vars(Tick)
    /\ \A p \in Caller : WF_vars(Answered(p)) /\ WF_vars(Awake(p)) /\ SF_vars(GetToken(p))

Spec == Init /\ [][Next]_vars /\ Fairness

--------------------------------------------------------------------------------
(* Properties *)

\* p is inside accessToken, waiting for the IAM service or sleeping before it
\* asks again.
RequestingToken(p) == pc[p] \in {"send", "sleep"} /\ sending[p] = "token"

\* tokenMu is held exactly while its owner requests a token: no error path, no
\* cancelled sleep and no exhausted retry leaves it locked, and no two callers
\* request a token at a time.
LockHeldWhileRequesting ==
    \A p \in Caller : RequestingToken(p) <=> tokenMu = p

\* No token stampede: a caller that waited for tokenMu sees the token that its
\* owner obtained, so a token is only ever requested while none is valid.
NoNeedlessTokenRequest ==
    \A p \in Caller : RequestingToken(p) => ~Valid(tokenCache)

\* p's call has its token, and sends it with every attempt.
Calling(p) == pc[p] \in {"send", "sleep"} /\ sending[p] = "call"

\* Whatever callers overlap, wait, retry, fail or are cancelled, they get their tokens
\* as if from one place in one step: a token in use is never replaced or dropped, a
\* call has either the shared one or the one it has just renewed, and keeps it.
Source == INSTANCE TokenSource WITH
    token   <- tokenCache,
    calling <- {p \in Caller : Calling(p)},
    held    <- captured

SharedTokenSource == Source!Spec

\* An attempt of p's call begins.
Attempts(p) ==
    /\ pc'[p] = "send" /\ sending'[p] = "call"
    /\ <<pc[p], sending[p], pages[p]>> # <<pc'[p], sending'[p], pages'[p]>>

\* The token is captured before the retry loop and never looked at again, so an
\* attempt may be made with one that has expired meanwhile: but only a retry, or the
\* call for which a token that short has just been granted; never the first
\* attempt of a later page or of another call.
StaleTokenOnlyRetried ==
    [][\A p \in Caller :
          Attempts(p) /\ captured'[p] <= Margin
              => attempt'[p] > 0 \/ sending[p] = "token"]_vars

\* Every API call returns, also those that wait behind a token request that
\* sleeps and retries.
EveryCallReturns == \A p \in Caller : InCall(p) ~> pc[p] = "idle"

--------------------------------------------------------------------------------
(* The URLs of the calls *)

\* The reference each call resolves: its path starts with a slash.  A next link is
\* whatever the API sends, in any form.
Endpoint(o) == [form |-> "rooted", path |->
    CASE o = "list_connections" -> <<"connections">>
      [] o = "get_vehicle" -> <<"vehicles", "id">>
      [] o = "get_signal" -> <<"vehicles", "id", "signals", "code">>]

\* net/url URL.ResolveReference: a rooted path replaces the whole path of the
\* base, any other path its last segment.
ResolveReference(base, ref) ==
    IF ref.form = "rooted" THEN ref.path ELSE SubSeq(base, 1, Len(base) - 1) \o ref.path

\* The path of the URL: a reference with a scheme stands as it is, and one that
\* url.Parse refuses leaves the base URL.
ResolveVehicleURL(ref) ==
    CASE ref.form = "absolute"  -> ref.path
      [] ref.form = "malformed" -> VehicleBasePath
      [] ref.form \in {"rooted", "relative"} -> ResolveReference(VehicleBasePath, ref)

\* config.go:24 "https://vehicle.api.smartcar.com/v3": the Vehicle API lives under
\* the path of the configured base URL.  Every request but a next link, which the
\* API itself provides, is sent to a URL under that path.
RequestsUnderBaseURL ==
    \A p \in Caller : pc[p] = "send" /\ sending[p] = "call" /\ op[p] # "next_page" =>
        LET url == ResolveVehicleURL(Endpoint(op[p])) IN
        /\ Len(url) >= Len(VehicleBasePath)
        /\ \A i \in 1..Len(VehicleBasePath) : url[i] = VehicleBasePath[i]
================================================================================
