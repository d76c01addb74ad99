---------------------------- MODULE SessionLifecycle ----------------------------
(***************************************************************************)
(* Launching and deleting sessions: the POST and DELETE handlers of skaha, *)
(* run by any number of threads on any number of replicas, against the     *)
(* Kubernetes objects they drive through kubectl.  A handler keeps no      *)
(* state between requests: what it knows it read from a list of pods or    *)
(* from one job, and what it did is in Kubernetes.  Each kubectl call is   *)
(* one step, and any other handler or controller may run between two.      *)
(*                                                                         *)
(* A request slot r is one handler invocation, reused after its answer.    *)
(* A session slot s stands for a session ID, which the code draws at       *)
(* random and which is taken to be fresh; the slot is reused once nothing  *)
(* more can happen to that session.                                        *)
(***************************************************************************)
EXTENDS Naturals, FiniteSets

CONSTANTS
    Users,           \* the users that send requests
    Requests,        \* request slots: how many handlers run at once
    Sessions,        \* session slots: how many sessions exist at once
    Types,           \* the session types users ask for
    MaxUserSessions, \* skaha.maxusersessions
    QueuedTypes,     \* the types with a Kueue queue: their jobs start suspended
    IngressObjects,  \* IngressObjects[t]: the kinds of object in ingress-<t>.yaml
    OwnedKinds,      \* the kinds whose template carries an ownerReference
    KubectlMayFail,  \* may a kubectl call fail
    Preemption,      \* may Kueue suspend a job it has admitted
    NoUser, NoType, NoSession

\* "middleware" is the one whose name DELETE computes; "otherMiddleware" is one a
\* template names differently, as ingress-carta.yaml does.
Kinds == {"service", "ingressroute", "middleware", "otherMiddleware"}

ASSUME ConstantsAssumption ==
    /\ IsFiniteSet(Sessions)
    /\ NoUser \notin Users
    /\ NoType \notin Types
    /\ NoSession \notin Sessions
    /\ MaxUserSessions \in Nat
    /\ QueuedTypes \subseteq Types
    /\ IngressObjects \in [Types -> SUBSET Kinds]
    /\ OwnedKinds \subseteq Kinds
    /\ KubectlMayFail \in BOOLEAN
    /\ Preemption \in BOOLEAN

VARIABLES
    op,     \* op[r]: "post" or "delete"
    pc,     \* pc[r]: the next step of the handler, or its answer
    usr,    \* usr[r]: the user that sent the request
    typ,    \* typ[r]: the type a POST asks for
    sid,    \* sid[r]: the session a POST creates or a DELETE names
    owner,  \* owner[s]: the userid label of the session
    type,   \* type[s]: the sessionType label of the session
    job,    \* job[s]: the state of its Kubernetes job
    pods,   \* pods[s]: the phases its pods are listed with, one pod per phase
    objs,   \* objs[s]: its service, ingress route and middlewares
    blind,  \* history: was s admitted by a check that missed a held session
    failed, \* history: failed[s]: the harmful steps whose call about s failed unseen
    stray   \* history: stray[s]: the kinds of object that were made when the job was
            \*     gone already, or whose last deletion failed

reqVars == <<op, pc, usr, typ, sid>>
k8sVars == <<job, pods, objs>>
history == <<blind, failed, stray>>
vars == <<op, pc, usr, typ, sid, owner, type, job, pods, objs, blind, failed, stray>>

Answers == {"ok", "refused"}
PostSteps == {"check", "createJob", "getJob", "createService", "getJobAgain", "createIngress"}
DeleteSteps == {"list", "deleteJob", "deleteIngress", "deleteService", "deleteMiddleware"}
\* The steps whose unseen failure can show in a session; that of the others cannot,
\* which is a part of what the properties say, as they are not recorded.
Harmful == {"createService", "createIngress", "deleteJob"}
JobStates == {"none", "suspended", "active", "finished"}
LivePhases == {"Pending", "Running"}
\* The statuses checkExistingSessions counts: all but Terminating and Succeeded.
CountedPhases == {"Pending", "Running", "Failed"}
Phases == CountedPhases \cup {"Succeeded", "Terminating"}

TypeOK ==
    /\ op \in [Requests -> {"post", "delete"}]
    /\ pc \in [Requests -> {"idle"} \cup PostSteps \cup DeleteSteps \cup Answers]
    /\ usr \in [Requests -> Users \cup {NoUser}]
    /\ typ \in [Requests -> Types \cup {NoType}]
    /\ sid \in [Requests -> Sessions \cup {NoSession}]
    /\ owner \in [Sessions -> Users \cup {NoUser}]
    /\ type \in [Sessions -> Types \cup {NoType}]
    /\ job \in [Sessions -> JobStates]
    /\ pods \in [Sessions -> SUBSET Phases]
    /\ objs \in [Sessions -> SUBSET Kinds]
    /\ blind \in [Sessions -> BOOLEAN]
    /\ failed \in [Sessions -> SUBSET Harmful]
    /\ stray \in [Sessions -> SUBSET Kinds]

Init ==
    /\ op = [r \in Requests |-> "post"]
    /\ pc = [r \in Requests |-> "idle"]
    /\ usr = [r \in Requests |-> NoUser]
    /\ typ = [r \in Requests |-> NoType]
    /\ sid = [r \in Requests |-> NoSession]
    /\ owner = [s \in Sessions |-> NoUser]
    /\ type = [s \in Sessions |-> NoType]
    /\ job = [s \in Sessions |-> "none"]
    /\ pods = [s \in Sessions |-> {}]
    /\ objs = [s \in Sessions |-> {}]
    /\ blind = [s \in Sessions |-> FALSE]
    /\ failed = [s \in Sessions |-> {}]
    /\ stray = [s \in Sessions |-> {}]

-----------------------------------------------------------------------------
(* What the handlers and the properties read.                              *)

Interactive(t) == t # "headless"

\* The sessions that have, or are about to have, a job that can still run.
Launching(s) == \E r \in Requests : op[r] = "post" /\ pc[r] = "createJob" /\ sid[r] = s
Held(u) == {s \in Sessions : /\ owner[s] = u
                             /\ Interactive(type[s])
                             /\ job[s] \in {"suspended", "active"} \/ Launching(s)}

\* The pods checkExistingSessions counts against a user: pods, not jobs.
CountedPods(u) == {c \in Sessions \X CountedPhases :
                      /\ owner[c[1]] = u
                      /\ Interactive(type[c[1]])
                      /\ c[2] \in pods[c[1]]}

\* kubectl may fail; CommandExecutioner.execute(command) then returns its stderr.
Failure == KubectlMayFail

\* The call of handler r's step fails, and the handler goes on all the same.
FailsUnseen(r) ==
    /\ Failure
    /\ failed' = [failed EXCEPT ![sid[r]] = @ \cup ({pc[r]} \cap Harmful)]

\* The next step, or the answer, of handler r is p.
Goto(r, p) ==
    /\ pc' = [pc EXCEPT ![r] = p]
    /\ UNCHANGED <<op, usr, typ, sid>>

\* Handler r is over: it threw, its replica stopped, or its answer was read.
\* Nothing in a handler catches an exception to undo what it did.
End(r) ==
    /\ op' = [op EXCEPT ![r] = "post"]
    /\ pc' = [pc EXCEPT ![r] = "idle"]
    /\ usr' = [usr EXCEPT ![r] = NoUser]
    /\ typ' = [typ EXCEPT ![r] = NoType]
    /\ sid' = [sid EXCEPT ![r] = NoSession]

-----------------------------------------------------------------------------
(* POST: launch a session.                                                 *)

StartPost(r, u, t) ==
    /\ pc[r] = "idle"
    /\ op' = [op EXCEPT ![r] = "post"]
    /\ usr' = [usr EXCEPT ![r] = u]
    /\ typ' = [typ EXCEPT ![r] = t]
    /\ pc' = [pc EXCEPT ![r] = "check"]
    /\ UNCHANGED <<sid, owner, type, k8sVars, history>>

\* Mutant of WithinLimit: one session too many passes.
UpToLimit(r) == Interactive(typ[r]) => Cardinality(CountedPods(usr[r])) <= MaxUserSessions

WithinLimit(r) == Interactive(typ[r]) => Cardinality(CountedPods(usr[r])) < MaxUserSessions

\* checkExistingSessions passed: draw a session ID.
Admit(r, s) ==
    /\ pc[r] = "check"
    /\ WithinLimit(r)
    /\ owner[s] = NoUser
    /\ sid' = [sid EXCEPT ![r] = s]
    /\ owner' = [owner EXCEPT ![s] = usr[r]]
    /\ type' = [type EXCEPT ![s] = typ[r]]
    /\ blind' = [blind EXCEPT ![s] = \E h \in Held(usr[r]) : pods[h] \cap LivePhases = {}]
    /\ pc' = [pc EXCEPT ![r] = "createJob"]
    /\ UNCHANGED <<op, usr, typ, k8sVars, failed, stray>>

\* checkExistingSessions throws, or the error text of kubectl is no list of pods.
Refuse(r) ==
    /\ pc[r] = "check"
    /\ \/ ~WithinLimit(r) /\ Goto(r, "refused")
       \/ Failure /\ End(r)
    /\ UNCHANGED <<owner, type, k8sVars, history>>

\* Home directory, registry secret, credentials or POSIX entries: any may throw.
PrepareFails(r) ==
    /\ op[r] = "post" /\ pc[r] = "createJob"
    /\ End(r)
    /\ UNCHANGED <<owner, type, k8sVars, history>>

\* kubectl create -f of the job; a failure is not seen.
CreateJob(r) ==
    LET s == sid[r] IN
    /\ op[r] = "post" /\ pc[r] = "createJob"
    /\ \/ job' = [job EXCEPT ![s] = IF typ[r] \in QueuedTypes THEN "suspended" ELSE "active"]
          /\ UNCHANGED failed
       \/ FailsUnseen(r) /\ UNCHANGED job
    /\ Goto(r, IF Interactive(typ[r]) THEN "getJob" ELSE "ok")
    /\ UNCHANGED <<owner, type, pods, objs, blind, stray>>

\* CommandExecutioner.getJob, called before the service and before the ingress.
\* When there is no such job, the error text does not split into the job's parts.
GetJob(r, here, next) ==
    /\ op[r] = "post" /\ pc[r] = here
    /\ \/ job[sid[r]] # "none" /\ Goto(r, next)
       \/ (job[sid[r]] = "none" \/ Failure) /\ End(r)
    /\ UNCHANGED <<owner, type, k8sVars, history>>

\* What is made when its job is gone is nobody's to delete.
Astray(s, made) ==
    stray' = IF job[s] = "none" THEN [stray EXCEPT ![s] = @ \cup made] ELSE stray

CreateService(r) ==
    LET s == sid[r] IN
    /\ op[r] = "post" /\ pc[r] = "createService"
    /\ \/ objs' = [objs EXCEPT ![s] = @ \cup {"service"}] /\ UNCHANGED failed
       \/ FailsUnseen(r) /\ UNCHANGED objs
    /\ Astray(s, {"service"})
    /\ Goto(r, "getJobAgain")
    /\ UNCHANGED <<owner, type, job, pods, blind>>

\* One kubectl create -f of a file with several documents: when it fails, any
\* part of them may have been created.
CreateIngress(r) ==
    LET s == sid[r] IN
    /\ op[r] = "post" /\ pc[r] = "createIngress"
    /\ \E made \in SUBSET IngressObjects[typ[r]] :
          /\ \/ made = IngressObjects[typ[r]] /\ UNCHANGED failed
             \/ FailsUnseen(r)
          /\ objs' = [objs EXCEPT ![s] = @ \cup made]
          /\ Astray(s, made)
    /\ Goto(r, "ok")
    /\ UNCHANGED <<owner, type, job, pods, blind>>

Post(r) ==
    \/ \E u \in Users, t \in Types : StartPost(r, u, t)
    \/ \E s \in Sessions : Admit(r, s)
    \/ Refuse(r)
    \/ PrepareFails(r)
    \/ CreateJob(r)
    \/ GetJob(r, "getJob", "createService")
    \/ CreateService(r)
    \/ GetJob(r, "getJobAgain", "createIngress")
    \/ CreateIngress(r)

-----------------------------------------------------------------------------
(* DELETE: stop a session.                                                 *)

StartDelete(r, u, s) ==
    /\ pc[r] = "idle"
    /\ owner[s] # NoUser
    /\ op' = [op EXCEPT ![r] = "delete"]
    /\ usr' = [usr EXCEPT ![r] = u]
    /\ sid' = [sid EXCEPT ![r] = s]
    /\ pc' = [pc EXCEPT ![r] = "list"]
    /\ UNCHANGED <<typ, owner, type, k8sVars, history>>

\* Mutant of ListForDelete: a session with no pod is deleted all the same.
ListOnlyForOwner(r) ==
    LET s == sid[r] IN
    /\ op[r] = "delete" /\ pc[r] = "list"
    /\ IF owner[s] = usr[r] THEN Goto(r, "deleteJob") ELSE End(r)
    /\ UNCHANGED <<owner, type, k8sVars, history>>

\* The session's owner and type are read from its pods, whatever their phase: no
\* pod, not found; somebody else's pod, forbidden.
ListForDelete(r) ==
    LET s == sid[r] IN
    /\ op[r] = "delete" /\ pc[r] = "list"
    /\ \/ pods[s] = {} /\ End(r)
       \/ pods[s] # {} /\ owner[s] # usr[r] /\ End(r)
       \/ pods[s] # {} /\ owner[s] = usr[r] /\ Goto(r, "deleteJob")
       \/ Failure /\ End(r)
    /\ UNCHANGED <<owner, type, k8sVars, history>>

\* Mutant of DeleteJob: the name of the job is not the one POST gave it.
DeleteOtherJob(r) ==
    /\ op[r] = "delete" /\ pc[r] = "deleteJob"
    /\ Goto(r, IF Interactive(type[sid[r]]) THEN "deleteIngress" ELSE "ok")
    /\ UNCHANGED <<owner, type, k8sVars, history>>

DeleteJob(r) ==
    LET s == sid[r] IN
    /\ op[r] = "delete" /\ pc[r] = "deleteJob"
    /\ \/ job' = [job EXCEPT ![s] = "none"] /\ UNCHANGED failed
       \/ FailsUnseen(r) /\ UNCHANGED job
    /\ Goto(r, IF Interactive(type[s]) THEN "deleteIngress" ELSE "ok")
    /\ UNCHANGED <<owner, type, pods, objs, blind, stray>>

\* DeleteAction.delete of one object: a missing object and a failure are ignored.
DeleteObject(r, here, kind, next) ==
    LET s == sid[r] IN
    /\ op[r] = "delete" /\ pc[r] = here
    /\ \/ /\ objs' = [objs EXCEPT ![s] = @ \ {kind}]
          /\ stray' = [stray EXCEPT ![s] = @ \ {kind}]
          /\ UNCHANGED failed
       \/ /\ FailsUnseen(r)
          /\ stray' = [stray EXCEPT ![s] = @ \cup {kind}]
          /\ UNCHANGED objs
    /\ Goto(r, next)
    /\ UNCHANGED <<owner, type, job, pods, blind>>

\* Mutant of Delete: the network objects go first and the job last.
DeleteJobLast(r) ==
    \/ \E u \in Users, s \in Sessions : StartDelete(r, u, s)
    \/ ListForDelete(r)
    \/ DeleteObject(r, "deleteJob", "ingressroute", "deleteIngress")
    \/ DeleteObject(r, "deleteIngress", "service", "deleteService")
    \/ DeleteObject(r, "deleteService", "middleware", "deleteMiddleware")
    \/ /\ op[r] = "delete" /\ pc[r] = "deleteMiddleware"
       /\ job' = [job EXCEPT ![sid[r]] = "none"]
       /\ Goto(r, "ok")
       /\ UNCHANGED <<owner, type, pods, objs, history>>

Delete(r) ==
    \/ \E u \in Users, s \in Sessions : StartDelete(r, u, s)
    \/ ListForDelete(r)
    \/ DeleteJob(r)
    \/ DeleteObject(r, "deleteIngress", "ingressroute", "deleteService")
    \/ DeleteObject(r, "deleteService", "service", "deleteMiddleware")
    \/ DeleteObject(r, "deleteMiddleware", "middleware", "ok")

-----------------------------------------------------------------------------
(* The replica of a handler stops before the answer; a slot is reused.     *)

Crash(r) ==
    /\ pc[r] \in PostSteps \cup DeleteSteps
    /\ End(r)
    /\ UNCHANGED <<owner, type, k8sVars, history>>

Forget(r) ==
    /\ pc[r] \in Answers
    /\ End(r)
    /\ UNCHANGED <<owner, type, k8sVars, history>>

\* Nothing of s can change any more.  The objects that nobody owns are left where
\* they are: the slot stands for another ID from now on.
ForgetSession(s) ==
    /\ owner[s] # NoUser
    /\ job[s] = "none" /\ pods[s] = {} /\ objs[s] \cap OwnedKinds = {}
    /\ \A r \in Requests : sid[r] # s
    /\ owner' = [owner EXCEPT ![s] = NoUser]
    /\ type' = [type EXCEPT ![s] = NoType]
    /\ blind' = [blind EXCEPT ![s] = FALSE]
    /\ failed' = [failed EXCEPT ![s] = {}]
    /\ stray' = [stray EXCEPT ![s] = {}]
    /\ objs' = [objs EXCEPT ![s] = {}]
    /\ UNCHANGED <<reqVars, job, pods>>

-----------------------------------------------------------------------------
(* Kubernetes and Kueue, as the handlers see them.                         *)

SetJob(s, j) == job' = [job EXCEPT ![s] = j]
SetPods(s, P) == pods' = [pods EXCEPT ![s] = P]
\* The live pod of s is told to stop: it is listed with a deletionTimestamp.
StopLive(s) == SetPods(s, IF pods[s] \cap LivePhases = {} THEN pods[s]
                          ELSE (pods[s] \ LivePhases) \cup {"Terminating"})

Unsuspend(s) ==
    /\ job[s] = "suspended"
    /\ SetJob(s, "active")
    /\ UNCHANGED <<reqVars, owner, type, pods, objs, history>>

Preempt(s) ==
    /\ Preemption
    /\ job[s] = "active" /\ type[s] \in QueuedTypes
    /\ SetJob(s, "suspended")
    /\ StopLive(s)
    /\ UNCHANGED <<reqVars, owner, type, objs, history>>

\* The job controller keeps one live pod per active job.
StartPod(s) ==
    /\ job[s] = "active" /\ pods[s] \cap LivePhases = {}
    /\ SetPods(s, pods[s] \cup {"Pending"})
    /\ UNCHANGED <<reqVars, owner, type, job, objs, history>>

RunPod(s) ==
    /\ "Pending" \in pods[s]
    /\ SetPods(s, (pods[s] \ {"Pending"}) \cup {"Running"})
    /\ UNCHANGED <<reqVars, owner, type, job, objs, history>>

\* The node evicts the pod (Failed, kept in the list) or is drained (Terminating).
Evict(s) ==
    /\ job[s] = "active" /\ pods[s] \cap LivePhases # {}
    /\ \/ SetPods(s, (pods[s] \ LivePhases) \cup {"Failed"})
       \/ StopLive(s)
    /\ UNCHANGED <<reqVars, owner, type, job, objs, history>>

Succeed(s) ==
    /\ job[s] = "active" /\ "Running" \in pods[s]
    /\ SetJob(s, "finished")
    /\ SetPods(s, (pods[s] \ {"Running"}) \cup {"Succeeded"})
    /\ UNCHANGED <<reqVars, owner, type, objs, history>>

\* Mutant of Expire: the deadline is the pod's, not the job's.
ExpirePod(s) ==
    /\ job[s] = "active" /\ "Running" \in pods[s]
    /\ SetJob(s, "finished")
    /\ StopLive(s)
    /\ UNCHANGED <<reqVars, owner, type, objs, history>>

\* activeDeadlineSeconds has passed, or the job ran out of retries.
Expire(s) ==
    /\ job[s] = "active"
    /\ SetJob(s, "finished")
    /\ StopLive(s)
    /\ UNCHANGED <<reqVars, owner, type, objs, history>>

\* ttlSecondsAfterFinished has passed.
RemoveFinished(s) ==
    /\ job[s] = "finished"
    /\ SetJob(s, "none")
    /\ UNCHANGED <<reqVars, owner, type, pods, objs, history>>

\* Garbage collection of a deleted job's pods, and of the objects it owns.
CollectPods(s) ==
    /\ job[s] = "none" /\ pods[s] \ {"Terminating"} # {}
    /\ SetPods(s, {"Terminating"})
    /\ UNCHANGED <<reqVars, owner, type, job, objs, history>>

PodGone(s) ==
    /\ "Terminating" \in pods[s]
    /\ SetPods(s, pods[s] \ {"Terminating"})
    /\ UNCHANGED <<reqVars, owner, type, job, objs, history>>

CollectObjects(s) ==
    /\ job[s] = "none" /\ objs[s] \cap OwnedKinds # {}
    /\ objs' = [objs EXCEPT ![s] = @ \ OwnedKinds]
    /\ UNCHANGED <<reqVars, owner, type, job, pods, history>>

Kubernetes(s) ==
    \/ Unsuspend(s) \/ Preempt(s)
    \/ StartPod(s) \/ RunPod(s) \/ Evict(s) \/ Succeed(s) \/ Expire(s)
    \/ RemoveFinished(s) \/ CollectPods(s) \/ PodGone(s) \/ CollectObjects(s)

-----------------------------------------------------------------------------

Next ==
    \/ \E r \in Requests : Post(r) \/ Delete(r) \/ Crash(r) \/ Forget(r)
    \/ \E s \in Sessions : ForgetSession(s) \/ Kubernetes(s)

Spec == Init /\ [][Next]_vars

\* What the end of a session needs: a handler that has started runs on or
\* crashes, Kueue admits every job at some time, and the deadline, the TTL, the
\* kubelets and the garbage collector do their work.  Requests need not come,
\* nothing needs to be forgotten, and a pod need not start, run or succeed.
HandlerStep(r) == Crash(r) \/ (pc[r] # "idle" /\ (Post(r) \/ Delete(r)))

FairSpec ==
    /\ Spec
    /\ \A r \in Requests : WF_vars(HandlerStep(r))
    /\ \A s \in Sessions :
          /\ WF_vars(Unsuspend(s)) /\ WF_vars(Expire(s)) /\ WF_vars(RemoveFinished(s))
          /\ WF_vars(CollectPods(s)) /\ WF_vars(PodGone(s)) /\ WF_vars(CollectObjects(s))

-----------------------------------------------------------------------------
(* Safety.                                                                 *)

\* What README.md of the Helm chart says of deployment.skaha.sessions.maxCount:
\* "Max number of sessions per user".  The check of PostAction reads pods, and
\* many handlers may have read them before any has created its job.
MaxSessions == \A u \in Users : Cardinality(Held(u)) <= MaxUserSessions

\* What checkExistingSessions does promise: the sessions beyond the limit were all
\* admitted blind, by a check made while some other held session of the user had no
\* pending or running pod (its POST had not created the job yet, Kueue held the job,
\* or its pod was not there yet).  The sessions admitted by a check that saw every
\* held session never exceed the limit, whatever runs in between, fails or restarts.
LimitUnlessBlind ==
    \A u \in Users : Cardinality({s \in Held(u) : ~blind[s]}) <= MaxUserSessions

\* service.yaml says that a POST that returns an ID launched the session: as long
\* as the job of such a session exists, so do its service, its ingress route and
\* its middlewares.  The interleavings with a DELETE of the same session are those
\* that matter: DELETE takes the job away first, createSession asks for the job
\* before each object.
OkMeansConnectable ==
    \A r \in Requests :
        op[r] = "post" /\ pc[r] = "ok" /\ Interactive(typ[r]) /\ job[sid[r]] # "none"
            => {"service"} \cup IngressObjects[typ[r]] \subseteq objs[sid[r]]

\* A DELETE that was answered with success is final: no POST still under way for
\* that session brings its job back.
DeleteSticks ==
    \A r \in Requests : op[r] = "delete" /\ pc[r] = "ok" => job[sid[r]] = "none"

\* What a DELETE that was answered with success has left behind of the service, the
\* ingress route and the middleware it deletes, though a POST of the session may have
\* been at work all the time: only what the POST made when the job was gone already
\* (it had asked for the job just before), and what the DELETE failed to delete.  Nobody
\* ever deletes those, as a DELETE of a session without pods is refused.  It is the
\* order of the four deletes that keeps everything else from being left behind.
LeavesOnlyStray ==
    \A r \in Requests :
        op[r] = "delete" /\ pc[r] = "ok" /\ "deleteJob" \notin failed[sid[r]]
            => objs[sid[r]] \subseteq stray[sid[r]] \cup {"otherMiddleware"}

\* What is left of the two when kubectl fails unseen: an ID that POST answered may
\* stand for a session nobody can connect to only if the call that creates the
\* service or the ingress failed, or the deletion of the job did (the rest of that
\* DELETE then takes the service and the ingress from under a job that runs on).  A
\* failure to create the job, or to delete another object, does no such harm.
ConnectableUnlessFailed ==
    \A r \in Requests :
        /\ op[r] = "post" /\ pc[r] = "ok" /\ Interactive(typ[r]) /\ job[sid[r]] # "none"
        /\ failed[sid[r]] = {}
        => {"service"} \cup IngressObjects[typ[r]] \subseteq objs[sid[r]]

\* The job of a session whose DELETE was answered is there still, or again, only if
\* the call that deletes it failed in some DELETE of that session.
DeleteSticksUnlessFailed ==
    \A r \in Requests :
        op[r] = "delete" /\ pc[r] = "ok" /\ "deleteJob" \notin failed[sid[r]]
            => job[sid[r]] = "none"

(* The contract.                                                           *)

\* What a user needs of a session of type t, besides its job, to connect to it.
Wanted(t) == IF Interactive(t) THEN {"service"} \cup IngressObjects[t] ELSE {}

\* The stage of each session, as the contract sees it.  A session whose DELETE could
\* not delete the job is over: its user is told so, whatever runs on.
Stage == [s \in Sessions |->
    IF owner[s] = NoUser THEN "unused"
    ELSE IF "deleteJob" \in failed[s] THEN "over"
    ELSE IF job[s] \in {"suspended", "active"}
    THEN IF Wanted(type[s]) \subseteq objs[s] THEN "connectable" ELSE "starting"
    ELSE IF Launching(s) THEN "starting" ELSE "over"]

Contract == INSTANCE SessionContract WITH stage <- Stage

\* The handlers keep the contract of a session: it never changes hands, it does not
\* lose its service or ingress before its job, and once over it does not come back,
\* although POST and DELETE of one session interleave call by call and neither knows
\* of the other, handlers crash, and any kubectl call may fail unseen.  Of all these
\* failures only that of deleteJob shows in the stage.
KeepsContract == Contract!Spec

(* Liveness.                                                               *)

\* Every session ID drawn comes to a state where its job and its pods are gone, and
\* those of its network objects whose template has an ownerReference, also when its
\* POST crashed half way, when a DELETE crashed or failed half way, or when the user
\* never deletes it.  The shipped templates have no ownerReference: as shipped
\* (OwnedKinds = {}) this says nothing of the service, the ingress route and the
\* middlewares, which stay for ever when nobody deletes the session while it has pods.
SessionEnds ==
    \A s \in Sessions :
        owner[s] # NoUser ~> job[s] = "none" /\ pods[s] = {} /\ objs[s] \cap OwnedKinds = {}
=============================================================================
