\* Two desktops launched at once, two callers; kubectl may fail and replicas stop.  When
\* every launch has failed nothing more happens.
SPECIFICATION Spec
CONSTANTS
    Launches = {l1, l2}
    Callers = {c1, c2}
    Apps = {a1}
    KubectlMayFail = TRUE
    NoPair = NoPair
    NoDesktop = NoDesktop
SYMMETRY Symmetry
CHECK_DEADLOCK FALSE
INVARIANTS
    RefusedOnlyFirst
PROPERTIES
    AcceptedStays
    AppsDwindle
