SPECIFICATION Spec
CONSTANTS
    Chars = {"a"}
    LineEnd = LineEnd
    IAC = IAC
    Negotiations = {WILL}
    SB = SB
    SE = SE
    Others = {NOP}
    ClientBytes = {"a", LineEnd, IAC, SB, SE, NOP}
    Password <- MCPassword
    PassSize = 3
    BufSize = 4
    ReadSize = 2
    FailureSteps <- MCFailureSteps
    LockoutTimes <- MCLockoutTimes
    AuthTimeout = 1
    MaxBytes = 5
INVARIANTS
    TelnetIsLeftOut
