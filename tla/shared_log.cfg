\* Two server processes that append to one log at any time.
SPECIFICATION SharedSpec
CONSTANTS
    Process = {p1, p2}
    Lengths = {1, 2}
    MaxAppends = 3
SYMMETRY Symmetry
INVARIANTS
    OnlyOverlapsLose
\* The bound on records stops it.
CHECK_DEADLOCK FALSE
