\* Two daemons and two clients.  When every client has left and every daemon
\* crashed, a daemon may still be started.
CONSTANTS
    Daemons = {d1, d2}
    Clients = {c1, c2}
    Nobody = Nobody
SPECIFICATION Spec
INVARIANTS
    OkIsKept
    ExecutedAtMostOnce
PROPERTIES
    PipeIsFreed
    PromiseIsKept
