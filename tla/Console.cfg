SPECIFICATION FairSpec
CONSTANTS
    Chars = {"a", "b"}
    LineEnd = LineEnd
    IAC = IAC
    Negotiations = {WILL}
    SB = SB
    SE = SE
    Others = {}
    ClientBytes = {"a", "b", LineEnd, IAC, WILL}
    Password <- MCPassword
    PassSize = 3
    BufSize = 4
    ReadSize = 2
    FailureSteps <- MCFailureSteps
    LockoutTimes <- MCLockoutTimes
    AuthTimeout = 1
    MaxBytes = 5
INVARIANTS
    TypeOK
    CommandsAreLines
PROPERTIES
    LockoutHeld
    ListensAgain
