CONSTANTS
    Request = {q1, q2, q3, q4}
    Username = {u1}
    Password = {p1, p2}
    Token = {t1, t2}
    NoUser = NoUser
    NoSession = NoSession
    TTL = 1
    MaxTime = 2
    MaxRestarts = 1
    WipeOnStart = {TRUE, FALSE}
SYMMETRY Symmetry
SPECIFICATION Spec
CHECK_DEADLOCK FALSE
INVARIANTS
    TypeOK
    OneSignupWins
PROPERTIES
    LiveSessionStays
    SignedOutStaysOut
    AccountsKept
    TokenLivesOnce
