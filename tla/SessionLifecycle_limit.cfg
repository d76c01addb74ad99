\* The session limit: one user who may hold one session, two session IDs and two
\* handlers, jobs that Kueue suspends, admits and preempts.
SPECIFICATION Spec
CONSTANTS
    Users = {u1}
    Requests = {r1, r2}
    Sessions = {s1, s2}
    Types = {"notebook"}
    QueuedTypes = {"notebook"}
    MaxUserSessions = 1
    IngressObjects <- MCIngressObjects
    OwnedKinds = {}
    KubectlMayFail = FALSE
    Preemption = TRUE
    NoUser = NoUser
    NoType = NoType
    NoSession = NoSession
SYMMETRY Symmetry
INVARIANTS
    LimitUnlessBlind
