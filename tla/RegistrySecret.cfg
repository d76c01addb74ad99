\* Three POSTs of one user for images of two registries; kubectl calls fail and
\* replicas stop.  The POSTs of a burst end, and with them the behaviour.
SPECIFICATION FairSpec
CONSTANTS
    Requests = {r1, r2, r3}
    Registries = {harborA, harborB}
    KubectlMayFail = TRUE
    MayCrash = TRUE
    NoSecret = NoSecret
CHECK_DEADLOCK FALSE
INVARIANTS
    TypeOK
    MissingOnlyInRefresh
    PulledAtRest
PROPERTIES
    NeverOlder
    PullsNeverOlder
    LaunchedPulls
