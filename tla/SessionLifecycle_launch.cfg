\* Launches and deletes of one session by two users, three handlers at once,
\* kubectl reliable: an interactive type with and without a queue, and headless.  The
\* service template has an ownerReference here, as in the test resources of skaha.
SPECIFICATION Spec
CONSTANTS
    Users = {u1, u2}
    Requests = {r1, r2, r3}
    Sessions = {s1}
    Types = {"desktop", "carta", "headless"}
    QueuedTypes = {"desktop"}
    MaxUserSessions = 1
    IngressObjects <- MCIngressObjects
    OwnedKinds = {"service"}
    KubectlMayFail = FALSE
    Preemption = TRUE
    NoUser = NoUser
    NoType = NoType
    NoSession = NoSession
SYMMETRY Symmetry
INVARIANTS
    OkMeansConnectable
    DeleteSticks
PROPERTIES
    KeepsContract
