\* Every session ends, though any kubectl call of a handler may fail and any handler
\* may crash; the templates are the shipped ones, without ownerReferences.  No symmetry:
\* SessionEnds is a liveness property.
SPECIFICATION FairSpec
CONSTANTS
    Users = {u1}
    Requests = {r1, r2}
    Sessions = {s1}
    Types = {"desktop"}
    QueuedTypes = {"desktop"}
    MaxUserSessions = 1
    IngressObjects <- MCIngressObjects
    OwnedKinds = {}
    KubectlMayFail = TRUE
    Preemption = FALSE
    NoUser = NoUser
    NoType = NoType
    NoSession = NoSession
INVARIANTS
    ConnectableUnlessFailed
    DeleteSticksUnlessFailed
    LeavesOnlyStray
PROPERTIES
    SessionEnds
    KeepsContract
