\* Two renewals of a desktop with one desktop-app, two ticks of the clock; kubectl
\* may fail and replicas may stop.  When everything is answered, gone and the clock
\* is at its bound, nothing is left to do.
SPECIFICATION Spec
CONSTANTS
    Requests = {r1, r2}
    desktop = desktop
    app = app
    Jobs = {desktop, app}
    Expiry = 1
    LaunchDeadline <- MCLaunchDeadline
    KubectlMayFail = TRUE
    MaxTime = 2
    NoJob = NoJob
SYMMETRY Symmetry
CHECK_DEADLOCK FALSE
INVARIANTS
    TypeOK
    RenewalHolds
PROPERTIES
    KeepsPromises
