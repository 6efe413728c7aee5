\* The daemon of the unit and one started by hand, a session of every kind, and a
\* crash: with the file that is there at first, a stale one is met twice.
CONSTANTS
    Daemons = {d1, d2}
    NoFile = NoFile
    Service = d1
    Sessions = {s1, s2, s3}
    Seat0 = {s1}
    Remote = {s2}
    NoSession = NoSession
    MaxKills = 1
SPECIFICATION DeploymentSpec
INVARIANTS
    ReachableUnlessContested
    LoopIsExclusive
PROPERTIES
    RefusedByServer
    SomebodyServes
    EndsWithSession
