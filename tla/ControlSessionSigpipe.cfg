\* start.sh runs the daemon under nohup, which ignores SIGHUP and nothing else.
CONSTANTS
    Clients = {c1}
    Backlog = 8
    SigpipeIgnored = {FALSE}
    TurnTicks = 4
    PollTicks = 1
    PatienceTicks = 12
SPECIFICATION Spec
CHECK_DEADLOCK FALSE
INVARIANTS
    RefusedStartIsHarmless
