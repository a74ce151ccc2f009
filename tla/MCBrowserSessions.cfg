CONSTANTS
    Token = {t1, t2, t3}
    Tab = {b1, b2}
    NoCookie = NoCookie
SPECIFICATION Spec
INVARIANTS
    TypeOK
PROPERTIES
    EveryNavigationEnds
    KeptUnlessOvertaken
    SignedOutHere
