CONSTANTS
    Timer = {t1, t2}
    UsPerMs = 2
    MsPerSec = 2
    MaxDelay = 5
SPECIFICATION Spec
INVARIANTS
    NeverOversleeps
    NeverSpins
PROPERTIES
    TimersFire
    SocketServed
