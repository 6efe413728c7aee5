\* Three process ids: the one of an overlay that was terminated and is not yet
\* reaped, the one of the next overlay, and one for a stranger.
CONSTANTS
    Pids = {p1, p2, p3}
    NoProcess = NoProcess
    OverlayTicks = 1
    CloseTicks = 1
    WaitTicks = 1
SPECIFICATION Spec
INVARIANTS
    StrangersUntouched
PROPERTIES
    ImplementsPolicy
