\* Daemons that are started at the same time.
CONSTANTS
    Daemons = {d1, d2, d3}
    NoFile = NoFile
SPECIFICATION StartSpec
INVARIANTS
    SomebodyIsThere
PROPERTIES
    StartRaceHasWinner
\* When all daemons serve there is none left to start.
CHECK_DEADLOCK FALSE
