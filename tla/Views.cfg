\* A session of one job, one renewal, one listing and a sidecar, two ticks of the clock;
\* kubectl may fail and replicas may stop.
SPECIFICATION ViewsSpec
CONSTANTS
    Requests = {r1}
    Jobs = {j1}
    Expiry = 1
    LaunchDeadline <- MCLaunchDeadline
    KubectlMayFail = TRUE
    MaxTime = 2
    NoJob = NoJob
    Readers = {l1}
    NONE = NONE
    MaxLeftover = 1
    TTL = 1
INVARIANTS
    ViewsTypeOK
    RenewedIsShown
    RefusedOnlyWithoutOwner
PROPERTIES
    EndsAsShown
    NotServedLong
