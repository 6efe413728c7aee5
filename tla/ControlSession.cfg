\* A tick is a second: a turn of the loop, a poll (250 ms, rounded up), and three
\* for the patience of a client.  With a backlog of one, the second client blocks in
\* connect.  systemd ignores SIGPIPE for the daemon, start.sh does not.  After a quit
\* everybody is done and the system stops.
CONSTANTS
    Clients = {c1, c2}
    Backlog = 1
    SigpipeIgnored = {TRUE, FALSE}
    TurnTicks = 1
    PollTicks = 1
    PatienceTicks = 3
SPECIFICATION Spec
CHECK_DEADLOCK FALSE
INVARIANTS
    OkMeansExecuted
    ExecutedAtMostOnce
    GivesUpOnlyDuringStop
PROPERTIES
    ImplementsService
    EveryoneIsAnswered
