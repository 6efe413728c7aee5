\* Daemons that come and go at the same time.
CONSTANTS
    Daemons = {d1, d2}
    NoFile = NoFile
SYMMETRY DaemonSymmetry
SPECIFICATION Spec
INVARIANT
    Reachable
