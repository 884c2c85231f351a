SPECIFICATION FairSpec
CONSTANTS
    StartAttempts = 5
    StartDelay = 10
    ReadyAttempts = 10
    ReadyDelay = 1
    ReadyMaxDelay = 20
    Patience = 100
    Lags <- MCLags
    Subtest = {s1, s2}
INVARIANTS
    TypeOK
    UsedWhileUp
    PoolClosedFirst
    OwnedIsReaped
    PatientEnough
PROPERTIES
    EndsOrHangsInACall
\* a test is over
CHECK_DEADLOCK FALSE
