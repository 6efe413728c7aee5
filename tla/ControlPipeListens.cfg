\* A second daemon is started while the first one resets the pipe.
CONSTANTS
    Daemons = {d1, d2}
    Clients = {c1}
    Nobody = Nobody
SYMMETRY PipeSymmetry
SPECIFICATION Spec
INVARIANT
    KeepsListening
