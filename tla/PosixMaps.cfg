\* Two POSTs of a new user, over and over; scripts may break, replicas may stop, the
\* mapper and Redis may fail.  A user and a group that the mapper knows and forgets.
SPECIFICATION MapsFairSpec
CONSTANTS
    Requests = {r1, r2}
    MayBreak = TRUE
    UserEntries = {u}
    GroupEntries = {g}
INVARIANTS
    MapsTypeOK
    OneScriptPastSsl
    MadeOrBeingMade
    SessionsFindTheirEntries
    PurgeResets
PROPERTIES
    HomeFinished
    CertificateMissedOnlyEarly
