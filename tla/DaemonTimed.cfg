\* One tick stands for about 500 ms of the code's 250 ms, 1 s and 2 s; the
\* interval is longer than a turn of the loop and a stop together.
CONSTANTS
    Pids = {p1, p2}
    NoPid = NoPid
    SleepTicks = 3
    MarginTicks = 2
    TermTicks = 3
    Interval = 8
    LoopTicks = 2
    PollTicks = 1
    MinLock = 8
SYMMETRY PidSymmetry
SPECIFICATION TimedSpec
INVARIANTS
    CountIsCalm
    LockTakesEffect
    ReminderInTime
PROPERTIES
    GraceBeforeKill
    NotCutShort
