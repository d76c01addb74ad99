\* Two concurrent POSTs of one user who may hold one session.
SPECIFICATION Spec
CONSTANTS
    Users = {u1}
    Requests = {r1, r2}
    Sessions = {s1, s2}
    Types = {"notebook"}
    QueuedTypes = {}
    MaxUserSessions = 1
    IngressObjects <- MCIngressObjects
    OwnedKinds = {}
    KubectlMayFail = FALSE
    Preemption = FALSE
    NoUser = NoUser
    NoType = NoType
    NoSession = NoSession
SYMMETRY Symmetry
INVARIANTS
    MaxSessions
