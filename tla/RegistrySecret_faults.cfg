\* One POST whose kubectl calls may fail.
SPECIFICATION FairSpec
CONSTANTS
    Requests = {r1}
    Registries = {harborA}
    KubectlMayFail = TRUE
    MayCrash = FALSE
    NoSecret = NoSecret
CHECK_DEADLOCK FALSE
PROPERTIES
    EnsuredOrThrown
