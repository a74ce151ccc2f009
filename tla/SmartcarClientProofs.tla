-------------------------- MODULE SmartcarClientProofs -------------------------
(***************************************************************************)
(* Theorems about SmartcarClient for any number of callers and retries and *)
(* any lifetimes, delays and margin.                                       *)
(***************************************************************************)
EXTENDS SmartcarClient, TLAPS

\* do only sleeps before an attempt it has left.
SleepersHaveAttempts == \A p \in Caller : pc[p] = "sleep" => attempt[p] < MaxRetries

\* That no token is requested needlessly rests on two facts at once: whoever
\* requests one holds tokenMu, so that nobody else writes tokenCache, and time
\* only makes a token less valid.
Inv == ClientTypeOK /\ SleepersHaveAttempts /\ LockHeldWhileRequesting /\ NoNeedlessTokenRequest

\* Time does not make a token valid.
LEMMA TickKeepsInvalid ==
    ASSUME ClientTypeOK, Tick, ~Valid(tokenCache)
    PROVE  ~Valid(tokenCache)'
BY ClientAssumption DEF ClientTypeOK, Tick, Valid, Token, Less

\* Init establishes the invariant.
LEMMA InitInv == Init => Inv
BY ClientAssumption
DEF Init, Inv, ClientTypeOK, SleepersHaveAttempts, LockHeldWhileRequesting, NoNeedlessTokenRequest, RequestingToken,
    Token, Op

\* Each step keeps it.
LEMMA NextInv == Inv /\ [Next]_vars => Inv'
<1> SUFFICES ASSUME Inv, [Next]_vars PROVE Inv'
  OBVIOUS
<1> USE ClientAssumption
    DEF Inv, ClientTypeOK, SleepersHaveAttempts, LockHeldWhileRequesting, NoNeedlessTokenRequest,
        RequestingToken, Goto
<1>1. CASE Tick
  <2>1. ClientTypeOK'
    BY <1>1 DEF Tick, Token, Less
  <2>2. \A p \in Caller : RequestingToken(p) => ~Valid(tokenCache)'
    BY <1>1, TickKeepsInvalid
  <2> QED
    BY <1>1, <2>1, <2>2 DEF Tick
<1>2. ASSUME NEW p \in Caller, NEW o \in Op \ {"next_page"}, Call(p, o) PROVE Inv'
  BY <1>2 DEF Call
<1>3. ASSUME NEW p \in Caller, Cancel(p) PROVE Inv'
  BY <1>3 DEF Cancel
<1>4. ASSUME NEW p \in Caller, UseCachedToken(p) PROVE Inv'
  BY <1>4 DEF UseCachedToken, Token
<1>5. ASSUME NEW p \in Caller, RequestToken(p) PROVE Inv'
  BY <1>5 DEF RequestToken
<1>6. ASSUME NEW p \in Caller, NEW hasValue \in BOOLEAN, NEW lifetime \in Lifetimes,
             TokenGranted(p, hasValue, lifetime)
      PROVE  Inv'
  <2>1. tokenMu = p
    BY <1>6 DEF TokenGranted
  <2>2. tokenCache' \in Token
    BY <1>6 DEF TokenGranted, Token
  <2>3. \A q \in Caller : ~RequestingToken(q)'
    BY <1>6, <2>1 DEF TokenGranted
  <2>4. ClientTypeOK' /\ SleepersHaveAttempts' /\ tokenMu' = NoCaller
    BY <1>6, <2>2 DEF TokenGranted
  <2> QED
    BY <2>3, <2>4
<1>7. ASSUME NEW p \in Caller, CallReplied(p) PROVE Inv'
  BY <1>7 DEF CallReplied, Return, Op
<1>8. ASSUME NEW p \in Caller, NextPage(p) PROVE Inv'
  BY <1>8 DEF NextPage, Op
<1>9. ASSUME NEW p \in Caller, NEW o, NEW d \in Delays, SleepToRetry(p, o, d) PROVE Inv'
  BY <1>9 DEF SleepToRetry, CanRetry
<1>10. ASSUME NEW p \in Caller, pc[p] \in {"send", "sleep"}, ReturnError(p),
              UNCHANGED <<tokenCache, cancelled>>
       PROVE  Inv'
  <2>1. ClientTypeOK' /\ SleepersHaveAttempts'
    BY <1>10 DEF ReturnError, Return, Op
  <2>2. ASSUME NEW q \in Caller PROVE (RequestingToken(q) <=> tokenMu = q)'
    <3>1. CASE q = p
      BY <1>10, <3>1 DEF ReturnError, Return
    <3>2. CASE q # p
      BY <1>10, <3>2 DEF ReturnError, Return
    <3> QED
      BY <3>1, <3>2
  <2>3. ASSUME NEW q \in Caller PROVE (RequestingToken(q) => ~Valid(tokenCache))'
    BY <1>10 DEF ReturnError, Return
  <2> QED
    BY <2>1, <2>2, <2>3
<1>11. ASSUME NEW p \in Caller, Wake(p) PROVE Inv'
  BY <1>11 DEF Wake
<1>12. CASE UNCHANGED vars
  BY <1>12 DEF vars
<1> QED
  BY <1>1, <1>2, <1>3, <1>4, <1>5, <1>6, <1>7, <1>8, <1>9, <1>10, <1>11, <1>12
  DEF Next, GetToken, Answered, Awake, Fail, WakeCancelled

\* The invariant holds of every reachable state.
LEMMA Invariance == Spec => []Inv
BY InitInv, NextInv, PTL DEF Spec

\* Types, and with them the retry bound: attempt never exceeds MaxRetries, so do
\* sends no request more than MaxRetries + 1 times.
THEOREM TypeCorrect == Spec => []ClientTypeOK
BY Invariance, PTL DEF Inv

\* tokenMu is held exactly while its owner requests a token, on every path.
THEOREM LockSafe == Spec => []LockHeldWhileRequesting
BY Invariance, PTL DEF Inv

\* Only one token is ever requested at a time, and none while one is valid.
THEOREM NoStampede == Spec => []NoNeedlessTokenRequest
BY Invariance, PTL DEF Inv

\* The first attempt of a call is made with a token outside its margin, unless that
\* token has just been granted: an older one is only ever used to try again.
THEOREM StaleSafe == Spec => StaleTokenOnlyRetried
<1> DEFINE Fresh(p) == Attempts(p) /\ captured'[p] <= Margin
                          => attempt'[p] > 0 \/ sending[p] = "token"
<1>1. ASSUME Inv, [Next]_vars, NEW p \in Caller PROVE Fresh(p)
  <2> SUFFICES ASSUME Attempts(p), captured'[p] <= Margin, sending[p] # "token"
               PROVE  attempt'[p] > 0
    OBVIOUS
  <2> USE <1>1, ClientAssumption DEF Inv, ClientTypeOK, Goto
  <2>1. CASE UNCHANGED <<pc, sending, pages>>
    BY <2>1 DEF Attempts
  <2>2. ASSUME NEW q \in Caller, UseCachedToken(q) PROVE attempt'[p] > 0
    BY <2>2 DEF Attempts, UseCachedToken, Valid, Token
  <2>3. ASSUME NEW q \in Caller, Wake(q) PROVE attempt'[p] > 0
    BY <2>3 DEF Attempts, Wake
  <2>4. ASSUME NEW q \in Caller,
               RequestToken(q) \/ CallReplied(q) \/ NextPage(q) \/ WakeCancelled(q)
               \/ (\E o \in Op : Call(q, o)) \/ (\E o : Fail(q, o))
               \/ (\E o, d : SleepToRetry(q, o, d))
        PROVE  attempt'[p] > 0
    BY <2>4 DEF Attempts, RequestToken, CallReplied, NextPage, WakeCancelled, Call, Fail,
                SleepToRetry, ReturnError, Return
  <2>5. ASSUME NEW q \in Caller, NEW h, NEW l, TokenGranted(q, h, l) PROVE attempt'[p] > 0
    BY <2>5 DEF Attempts, TokenGranted
  <2> QED
    BY <2>1, <2>2, <2>3, <2>4, <2>5
    DEF Next, Tick, Cancel, GetToken, Answered, Awake, vars
<1>2. Inv /\ [Next]_vars => [\A p \in Caller : Fresh(p)]_vars
  BY <1>1
<1> QED
  BY <1>2, Invariance, PTL DEF Spec, StaleTokenOnlyRetried

--------------------------------------------------------------------------------
(* SmartcarClient implements TokenSource *)

\* A caller has a token only while its call is made.
HeldInv == \A p \in Caller : ~Calling(p) => captured[p] = 0

LEMMA HeldStep == ClientTypeOK /\ HeldInv /\ [Next]_vars => HeldInv'
<1> SUFFICES ASSUME ClientTypeOK, HeldInv, [Next]_vars PROVE HeldInv'
  OBVIOUS
<1> USE DEF ClientTypeOK, HeldInv, Calling, Goto
<1>1. CASE Tick
  BY <1>1 DEF Tick, Less
<1>2. ASSUME NEW p \in Caller, NEW o, Call(p, o) PROVE HeldInv'
  BY <1>2 DEF Call
<1>3. ASSUME NEW p \in Caller, Cancel(p) PROVE HeldInv'
  BY <1>3 DEF Cancel
<1>4. ASSUME NEW p \in Caller, GetToken(p) PROVE HeldInv'
  BY <1>4 DEF GetToken, UseCachedToken, RequestToken
<1>5. ASSUME NEW p \in Caller, NEW hasValue, NEW lifetime, TokenGranted(p, hasValue, lifetime)
      PROVE  HeldInv'
  BY <1>5 DEF TokenGranted
<1>6. ASSUME NEW p \in Caller, CallReplied(p) \/ NextPage(p) PROVE HeldInv'
  BY <1>6 DEF CallReplied, NextPage, Return
<1>7. ASSUME NEW p \in Caller, NEW o, NEW d, SleepToRetry(p, o, d) PROVE HeldInv'
  BY <1>7 DEF SleepToRetry
<1>8. ASSUME NEW p \in Caller, ReturnError(p) PROVE HeldInv'
  BY <1>8 DEF ReturnError, Return
<1>9. ASSUME NEW p \in Caller, Wake(p) PROVE HeldInv'
  BY <1>9 DEF Wake
<1>10. CASE UNCHANGED vars
  BY <1>10 DEF vars
<1> QED
  BY <1>1, <1>2, <1>3, <1>4, <1>5, <1>6, <1>7, <1>8, <1>9, <1>10
  DEF Next, Answered, Awake, Fail, WakeCancelled

Calls == {p \in Caller : Calling(p)}

\* A call that ends, whatever it ends with, gives its token up.
LEMMA ReturnOver ==
    ASSUME Inv, HeldInv, NEW p \in Caller, pc[p] \in {"send", "sleep"}, Return(p),
           UNCHANGED tokenCache
    PROVE  Source!Over(p) \/ UNCHANGED <<tokenCache, Calls, captured>>
<1> USE DEF Inv, ClientTypeOK, Return, Goto, Calls, Calling
<1>1. CASE sending[p] = "call"
  <2>1. p \in Calls /\ Calls' = Calls \ {p}
    BY <1>1
  <2> QED
    BY <2>1 DEF Source!Over
<1>2. CASE sending[p] = "token"
  <2>1. captured[p] = 0
    BY <1>2 DEF HeldInv
  <2> QED
    BY <1>2, <2>1
<1> QED
  BY <1>1, <1>2

\* Each step is one of TokenSource, or shows in none of its variables.
LEMMA SourceStep == Inv /\ HeldInv /\ [Next]_vars => [Source!Next]_(Source!vars)
<1> SUFFICES ASSUME Inv, HeldInv, [Next]_vars
    PROVE  Source!Next \/ UNCHANGED <<tokenCache, Calls, captured>>
  BY DEF Source!vars, Calls
<1> USE DEF Inv, ClientTypeOK, Goto, Calls, Calling
<1>1. CASE Tick
  <2>1. Source!Tick
    BY <1>1 DEF Tick, Less, Source!Tick, Source!Less
  <2> QED
    BY <2>1 DEF Source!Next
<1>2. ASSUME NEW p \in Caller, NEW o, Call(p, o) \/ Cancel(p) \/ RequestToken(p) \/ Wake(p)
      PROVE  UNCHANGED <<tokenCache, Calls, captured>>
  BY <1>2 DEF Call, Cancel, RequestToken, Wake
<1>3. ASSUME NEW p \in Caller, UseCachedToken(p) PROVE Source!Get(p)
  <2>1. p \notin Calls /\ Calls' = Calls \cup {p}
    BY <1>3 DEF UseCachedToken
  <2> QED
    BY <1>3, <2>1 DEF UseCachedToken, Valid, Source!Get, Source!Usable
<1>4. ASSUME NEW p \in Caller, NEW hasValue \in BOOLEAN, NEW lifetime \in Lifetimes,
             TokenGranted(p, hasValue, lifetime)
      PROVE  Source!Renew(p, hasValue, lifetime)
  <2>1. p \notin Calls /\ Calls' = Calls \cup {p}
    BY <1>4 DEF TokenGranted
  <2>2. ~Valid(tokenCache)
    BY <1>4 DEF TokenGranted, NoNeedlessTokenRequest, RequestingToken
  <2> QED
    BY <1>4, <2>1, <2>2 DEF TokenGranted, Valid, Source!Renew, Source!Usable
<1>5. ASSUME NEW p \in Caller, NextPage(p) PROVE Source!Over(p)
  <2>1. p \in Calls /\ Calls' = Calls \ {p}
    BY <1>5 DEF NextPage
  <2> QED
    BY <1>5, <2>1 DEF NextPage, Source!Over
<1>6. ASSUME NEW p \in Caller, NEW o, CallReplied(p) \/ Fail(p, o) \/ WakeCancelled(p)
      PROVE  Source!Over(p) \/ UNCHANGED <<tokenCache, Calls, captured>>
  <2>1. Return(p) /\ UNCHANGED tokenCache /\ pc[p] \in {"send", "sleep"}
    BY <1>6 DEF CallReplied, Fail, WakeCancelled, ReturnError
  <2> QED
    BY <2>1, ReturnOver
<1>7. ASSUME NEW p \in Caller, NEW o, NEW d, SleepToRetry(p, o, d)
      PROVE  UNCHANGED <<tokenCache, Calls, captured>>
  BY <1>7 DEF SleepToRetry
<1>8. CASE UNCHANGED vars
  BY <1>8 DEF vars
<1> QED
  BY <1>1, <1>2, <1>3, <1>4, <1>5, <1>6, <1>7, <1>8
  DEF Next, GetToken, Answered, Awake, Source!Next

\* However callers overlap, wait, retry, fail or are cancelled, they get their tokens
\* as if from one place in one step: the shared token is replaced only once it can no
\* longer be used, and a call keeps the one it was given.
THEOREM TokenShared == Spec => SharedTokenSource
<1>1. Init => HeldInv /\ Source!Init
  BY DEF Init, HeldInv, Calling, Source!Init
<1>2. Inv => ClientTypeOK
  BY DEF Inv
<1> QED
  BY <1>1, <1>2, HeldStep, SourceStep, Invariance, PTL DEF Spec, SharedTokenSource, Source!Spec
================================================================================
