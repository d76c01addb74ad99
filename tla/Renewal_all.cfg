\* One renewal of a desktop with one desktop-app, one of which has lost its pod; kubectl
\* is reliable.
SPECIFICATION Spec
CONSTANTS
    Requests = {r1}
    desktop = desktop
    app = app
    Jobs = {desktop, app}
    Expiry = 1
    LaunchDeadline <- MCLaunchDeadline
    KubectlMayFail = FALSE
    MaxTime = 1
    NoJob = NoJob
SYMMETRY Symmetry
CHECK_DEADLOCK FALSE
INVARIANTS
    RenewsAll
