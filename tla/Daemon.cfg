\* Two process ids: while an overlay that was killed is not yet reaped, the next
\* one runs under the other id; when both are taken, fork fails.
CONSTANTS
    Pids = {p1, p2}
    NoPid = NoPid
    SleepTicks = 1
    MarginTicks = 1
    TermTicks = 1
    Interval = 1
    LoopTicks = 1
    PollTicks = 1
SPECIFICATION Spec
INVARIANTS
    Supervised
    SignalTargets
    Inv
PROPERTIES
    ImplementsPolicy
    ReminderEnds
    StopHonoured
    LockHonoured
    DueIsServed
