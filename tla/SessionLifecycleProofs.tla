------------------------- MODULE SessionLifecycleProofs -------------------------
(* Theorems about SessionLifecycle, for any number of users, sessions and  *)
(* handlers at once.                                                       *)
EXTENDS SessionLifecycle, FiniteSetTheorems, TLAPS

-----------------------------------------------------------------------------
(* The inductive invariant behind the properties.                          *)

\* A handler that runs has a user and, from the step that draws or receives its ID,
\* a session.
Named ==
    \A r \in Requests :
        /\ pc[r] \in {"idle", "check", "refused"} => sid[r] = NoSession
        /\ pc[r] \notin {"idle", "check", "refused"} => sid[r] \in Sessions
        /\ pc[r] \in PostSteps \cup DeleteSteps => usr[r] \in Users
        /\ pc[r] \in PostSteps \cup {"refused"} => op[r] = "post" /\ typ[r] \in Types
        /\ pc[r] = "ok" /\ op[r] = "post" => typ[r] \in Types
        /\ pc[r] \in DeleteSteps => op[r] = "delete"

\* Nothing is left of a session ID that is not in use.
Unused ==
    \A s \in Sessions : owner[s] = NoUser =>
        /\ job[s] = "none" /\ pods[s] = {} /\ failed[s] = {}
        /\ \A r \in Requests : sid[r] # s

\* Until its POST creates the job a session has no pod, so no DELETE of it can
\* have got past its list of pods, and no other POST works on it.
Fresh ==
    \A r \in Requests : op[r] = "post" /\ pc[r] = "createJob" =>
        /\ job[sid[r]] = "none" /\ pods[sid[r]] = {} /\ failed[sid[r]] = {}
        /\ \A q \in Requests \ {r} : sid[q] = sid[r] => op[q] = "delete" /\ pc[q] = "list"

\* A DELETE that is past its first kubectl delete has no job any more, unless that
\* delete failed, in this DELETE or in another of the session.
JobGone ==
    \A r \in Requests :
        /\ op[r] = "delete" /\ pc[r] \in {"deleteIngress", "deleteService", "deleteMiddleware", "ok"}
        /\ "deleteJob" \notin failed[sid[r]]
        => job[sid[r]] = "none"

\* As long as its job exists, a session about which no call failed unseen has the
\* objects its POST has created so far.
Wired ==
    \A r \in Requests :
        /\ op[r] = "post" /\ pc[r] \in {"getJobAgain", "createIngress", "ok"}
        /\ Interactive(typ[r]) /\ job[sid[r]] # "none" /\ failed[sid[r]] = {}
        => /\ "service" \in objs[sid[r]]
           /\ pc[r] = "ok" => IngressObjects[typ[r]] \subseteq objs[sid[r]]
-----------------------------------------------------------------------------
(* Type correctness.                                                       *)

\* At the start no handler runs and no session exists.
LEMMA TypeInit == Init => TypeOK /\ Named
BY ConstantsAssumption DEF Init, TypeOK, Named, JobStates, PostSteps, DeleteSteps

\* Every step keeps every variable in its type.
LEMMA TypeStep == TypeOK /\ Named /\ [Next]_vars => TypeOK' /\ Named'
<1> SUFFICES ASSUME TypeOK, Named, [Next]_vars PROVE TypeOK' /\ Named'
  OBVIOUS
<1> USE ConstantsAssumption DEF TypeOK, Named, PostSteps, DeleteSteps, Answers,
        JobStates, Phases, CountedPhases, LivePhases, Kinds, Harmful, FailsUnseen, Astray,
        k8sVars, reqVars, history, Goto, End, SetJob, SetPods, StopLive
<1>1. ASSUME NEW r \in Requests, NEW u \in Users, NEW t \in Types, StartPost(r, u, t)
      PROVE TypeOK' /\ Named'
  BY <1>1 DEF StartPost
<1>2. ASSUME NEW r \in Requests, NEW s \in Sessions, Admit(r, s) PROVE TypeOK' /\ Named'
  BY <1>2 DEF Admit
<1>3. ASSUME NEW r \in Requests, Refuse(r) PROVE TypeOK' /\ Named'
  BY <1>3 DEF Refuse
<1>4. ASSUME NEW r \in Requests, PrepareFails(r) PROVE TypeOK' /\ Named'
  BY <1>4 DEF PrepareFails
<1>5. ASSUME NEW r \in Requests, CreateJob(r) PROVE TypeOK' /\ Named'
  BY <1>5 DEF CreateJob
<1>6. ASSUME NEW r \in Requests, GetJob(r, "getJob", "createService")
      PROVE TypeOK' /\ Named'
  BY <1>6 DEF GetJob
<1>7. ASSUME NEW r \in Requests, CreateService(r) PROVE TypeOK' /\ Named'
  <2>1. sid[r] \in Sessions
    BY <1>7 DEF CreateService
  <2>2. stray' \in [Sessions -> SUBSET Kinds]
    <3>1. stray' = stray \/ stray' = [stray EXCEPT ![sid[r]] = @ \cup {"service"}]
      BY <1>7 DEF CreateService
    <3> QED
      BY <2>1, <3>1
  <2>3. objs' \in [Sessions -> SUBSET Kinds]
    BY <1>7, <2>1 DEF CreateService
  <2>4. failed' \in [Sessions -> SUBSET Harmful]
    BY <1>7, <2>1 DEF CreateService
  <2> QED
    BY <1>7, <2>1, <2>2, <2>3, <2>4 DEF CreateService
<1>8. ASSUME NEW r \in Requests, GetJob(r, "getJobAgain", "createIngress")
      PROVE TypeOK' /\ Named'
  BY <1>8 DEF GetJob
<1>9. ASSUME NEW r \in Requests, CreateIngress(r) PROVE TypeOK' /\ Named'
  <2>1. sid[r] \in Sessions /\ typ[r] \in Types
    BY <1>9 DEF CreateIngress
  <2>2. PICK made \in SUBSET IngressObjects[typ[r]] :
           /\ objs' = [objs EXCEPT ![sid[r]] = @ \cup made]
           /\ stray' = stray \/ stray' = [stray EXCEPT ![sid[r]] = @ \cup made]
    BY <1>9 DEF CreateIngress
  <2>3. made \subseteq Kinds
    BY <2>1
  <2>4. objs' \in [Sessions -> SUBSET Kinds]
    BY <2>1, <2>2, <2>3
  <2>5. stray' \in [Sessions -> SUBSET Kinds]
    <3>1. CASE stray' = stray
      BY <3>1
    <3>2. CASE stray' = [stray EXCEPT ![sid[r]] = @ \cup made]
      BY <2>1, <2>3, <3>2
    <3> QED
      BY <2>2, <3>1, <3>2
  <2> QED
    BY <1>9, <2>1, <2>4, <2>5 DEF CreateIngress
<1>10. ASSUME NEW r \in Requests, NEW u \in Users, NEW s \in Sessions, StartDelete(r, u, s)
      PROVE TypeOK' /\ Named'
  BY <1>10 DEF StartDelete
<1>11. ASSUME NEW r \in Requests, ListForDelete(r) PROVE TypeOK' /\ Named'
  BY <1>11 DEF ListForDelete
<1>12. ASSUME NEW r \in Requests, DeleteJob(r) PROVE TypeOK' /\ Named'
  BY <1>12 DEF DeleteJob
<1>13. ASSUME NEW r \in Requests, DeleteObject(r, "deleteIngress", "ingressroute",
        "deleteService") PROVE TypeOK' /\ Named'
  BY <1>13 DEF DeleteObject
<1>14. ASSUME NEW r \in Requests, DeleteObject(r, "deleteService", "service",
        "deleteMiddleware") PROVE TypeOK' /\ Named'
  BY <1>14 DEF DeleteObject
<1>15. ASSUME NEW r \in Requests, DeleteObject(r, "deleteMiddleware", "middleware", "ok")
      PROVE TypeOK' /\ Named'
  BY <1>15 DEF DeleteObject
<1>16. ASSUME NEW r \in Requests, Crash(r) PROVE TypeOK' /\ Named'
  BY <1>16 DEF Crash
<1>17. ASSUME NEW r \in Requests, Forget(r) PROVE TypeOK' /\ Named'
  BY <1>17 DEF Forget
<1>18. ASSUME NEW s \in Sessions, ForgetSession(s) PROVE TypeOK' /\ Named'
  BY <1>18 DEF ForgetSession
<1>19. ASSUME NEW s \in Sessions, Unsuspend(s) PROVE TypeOK' /\ Named'
  BY <1>19 DEF Unsuspend
<1>20. ASSUME NEW s \in Sessions, Preempt(s) PROVE TypeOK' /\ Named'
  BY <1>20 DEF Preempt
<1>21. ASSUME NEW s \in Sessions, StartPod(s) PROVE TypeOK' /\ Named'
  BY <1>21 DEF StartPod
<1>22. ASSUME NEW s \in Sessions, RunPod(s) PROVE TypeOK' /\ Named'
  BY <1>22 DEF RunPod
<1>23. ASSUME NEW s \in Sessions, Evict(s) PROVE TypeOK' /\ Named'
  BY <1>23 DEF Evict
<1>24. ASSUME NEW s \in Sessions, Succeed(s) PROVE TypeOK' /\ Named'
  BY <1>24 DEF Succeed
<1>25. ASSUME NEW s \in Sessions, Expire(s) PROVE TypeOK' /\ Named'
  BY <1>25 DEF Expire
<1>26. ASSUME NEW s \in Sessions, RemoveFinished(s) PROVE TypeOK' /\ Named'
  BY <1>26 DEF RemoveFinished
<1>27. ASSUME NEW s \in Sessions, CollectPods(s) PROVE TypeOK' /\ Named'
  BY <1>27 DEF CollectPods
<1>28. ASSUME NEW s \in Sessions, PodGone(s) PROVE TypeOK' /\ Named'
  BY <1>28 DEF PodGone
<1>29. ASSUME NEW s \in Sessions, CollectObjects(s) PROVE TypeOK' /\ Named'
  BY <1>29 DEF CollectObjects
<1>30. CASE UNCHANGED vars
  BY <1>30 DEF vars
<1> QED
  BY <1>1, <1>2, <1>3, <1>4, <1>5, <1>6, <1>7, <1>8, <1>9, <1>10, <1>11, <1>12, <1>13,
     <1>14, <1>15, <1>16, <1>17, <1>18, <1>19, <1>20, <1>21, <1>22, <1>23, <1>24,
     <1>25, <1>26, <1>27, <1>28, <1>29, <1>30
  DEF Next, Post, Delete, Kubernetes

\* Every variable keeps its type, whatever fails or restarts.
THEOREM TypeCorrect == Spec => []TypeOK
<1>1. Init => TypeOK /\ Named
  BY TypeInit
<1>2. TypeOK /\ Named /\ [Next]_vars => (TypeOK /\ Named)'
  BY TypeStep
<1> QED
  BY <1>1, <1>2, PTL DEF Spec

-----------------------------------------------------------------------------
(* A session before its job exists.                                   *)

\* At the start no session ID has been drawn.
LEMMA FreshInit == Init => Unused /\ Fresh
BY ConstantsAssumption DEF Init, Unused, Fresh

\* A session ID that is drawn is new, and stays without a job, without pods and
\* without a DELETE that has seen it until its own POST creates the job.
LEMMA FreshStep == TypeOK /\ Named /\ Unused /\ Fresh /\ [Next]_vars => Unused' /\ Fresh'
<1> SUFFICES ASSUME TypeOK, Named, Unused, Fresh, [Next]_vars PROVE Unused' /\ Fresh'
  OBVIOUS
<1> USE ConstantsAssumption DEF TypeOK, Named, Unused, Fresh, PostSteps, DeleteSteps,
        Answers, LivePhases, Harmful, FailsUnseen, Astray, k8sVars, reqVars, history, Goto,
        End, SetJob, SetPods, StopLive
<1>1. ASSUME NEW r \in Requests, NEW u \in Users, NEW t \in Types, StartPost(r, u, t)
      PROVE Unused' /\ Fresh'
  BY <1>1 DEF StartPost
<1>2. ASSUME NEW r \in Requests, NEW s \in Sessions, Admit(r, s) PROVE Unused' /\ Fresh'
  <2>1. /\ owner[s] = NoUser /\ job[s] = "none" /\ pods[s] = {} /\ failed[s] = {}
        /\ \A q \in Requests : sid[q] # s
    BY <1>2 DEF Admit
  <2>2. owner' = [owner EXCEPT ![s] = usr[r]] /\ sid' = [sid EXCEPT ![r] = s]
    BY <1>2 DEF Admit
  <2>3. op' = op /\ pc' = [pc EXCEPT ![r] = "createJob"] /\ job' = job /\ pods' = pods
        /\ failed' = failed
    BY <1>2 DEF Admit
  <2>4. usr[r] # NoUser
    BY <1>2 DEF Admit
  <2>5. Unused'
    BY <2>1, <2>2, <2>3, <2>4
  <2>6. Fresh'
    BY <2>1, <2>2, <2>3
  <2> QED
    BY <2>5, <2>6
<1>3. ASSUME NEW r \in Requests, Refuse(r) PROVE Unused' /\ Fresh'
  BY <1>3 DEF Refuse
<1>4. ASSUME NEW r \in Requests, PrepareFails(r) PROVE Unused' /\ Fresh'
  BY <1>4 DEF PrepareFails
<1>5. ASSUME NEW r \in Requests, CreateJob(r) PROVE Unused' /\ Fresh'
  BY <1>5 DEF CreateJob
<1>6. ASSUME NEW r \in Requests, GetJob(r, "getJob", "createService")
      PROVE Unused' /\ Fresh'
  BY <1>6 DEF GetJob
<1>7. ASSUME NEW r \in Requests, CreateService(r) PROVE Unused' /\ Fresh'
  BY <1>7 DEF CreateService
<1>8. ASSUME NEW r \in Requests, GetJob(r, "getJobAgain", "createIngress")
      PROVE Unused' /\ Fresh'
  BY <1>8 DEF GetJob
<1>9. ASSUME NEW r \in Requests, CreateIngress(r) PROVE Unused' /\ Fresh'
  BY <1>9 DEF CreateIngress
<1>10. ASSUME NEW r \in Requests, NEW u \in Users, NEW s \in Sessions, StartDelete(r, u, s)
      PROVE Unused' /\ Fresh'
  BY <1>10 DEF StartDelete
<1>11. ASSUME NEW r \in Requests, ListForDelete(r) PROVE Unused' /\ Fresh'
  BY <1>11 DEF ListForDelete
<1>12. ASSUME NEW r \in Requests, DeleteJob(r) PROVE Unused' /\ Fresh'
  BY <1>12 DEF DeleteJob
<1>13. ASSUME NEW r \in Requests, DeleteObject(r, "deleteIngress", "ingressroute",
        "deleteService") PROVE Unused' /\ Fresh'
  BY <1>13 DEF DeleteObject
<1>14. ASSUME NEW r \in Requests, DeleteObject(r, "deleteService", "service",
        "deleteMiddleware") PROVE Unused' /\ Fresh'
  BY <1>14 DEF DeleteObject
<1>15. ASSUME NEW r \in Requests, DeleteObject(r, "deleteMiddleware", "middleware", "ok")
      PROVE Unused' /\ Fresh'
  BY <1>15 DEF DeleteObject
<1>16. ASSUME NEW r \in Requests, Crash(r) PROVE Unused' /\ Fresh'
  BY <1>16 DEF Crash
<1>17. ASSUME NEW r \in Requests, Forget(r) PROVE Unused' /\ Fresh'
  BY <1>17 DEF Forget
<1>18. ASSUME NEW s \in Sessions, ForgetSession(s) PROVE Unused' /\ Fresh'
  BY <1>18 DEF ForgetSession
<1>19. ASSUME NEW s \in Sessions, Unsuspend(s) PROVE Unused' /\ Fresh'
  BY <1>19 DEF Unsuspend
<1>20. ASSUME NEW s \in Sessions, Preempt(s) PROVE Unused' /\ Fresh'
  BY <1>20 DEF Preempt
<1>21. ASSUME NEW s \in Sessions, StartPod(s) PROVE Unused' /\ Fresh'
  BY <1>21 DEF StartPod
<1>22. ASSUME NEW s \in Sessions, RunPod(s) PROVE Unused' /\ Fresh'
  BY <1>22 DEF RunPod
<1>23. ASSUME NEW s \in Sessions, Evict(s) PROVE Unused' /\ Fresh'
  BY <1>23 DEF Evict
<1>24. ASSUME NEW s \in Sessions, Succeed(s) PROVE Unused' /\ Fresh'
  BY <1>24 DEF Succeed
<1>25. ASSUME NEW s \in Sessions, Expire(s) PROVE Unused' /\ Fresh'
  BY <1>25 DEF Expire
<1>26. ASSUME NEW s \in Sessions, RemoveFinished(s) PROVE Unused' /\ Fresh'
  BY <1>26 DEF RemoveFinished
<1>27. ASSUME NEW s \in Sessions, CollectPods(s) PROVE Unused' /\ Fresh'
  BY <1>27 DEF CollectPods
<1>28. ASSUME NEW s \in Sessions, PodGone(s) PROVE Unused' /\ Fresh'
  BY <1>28 DEF PodGone
<1>29. ASSUME NEW s \in Sessions, CollectObjects(s) PROVE Unused' /\ Fresh'
  BY <1>29 DEF CollectObjects
<1>30. CASE UNCHANGED vars
  BY <1>30 DEF vars
<1> QED
  BY <1>1, <1>2, <1>3, <1>4, <1>5, <1>6, <1>7, <1>8, <1>9, <1>10, <1>11, <1>12, <1>13,
     <1>14, <1>15, <1>16, <1>17, <1>18, <1>19, <1>20, <1>21, <1>22, <1>23, <1>24,
     <1>25, <1>26, <1>27, <1>28, <1>29, <1>30
  DEF Next, Post, Delete, Kubernetes

-----------------------------------------------------------------------------
(* The session limit.                                                      *)

\* A user's held sessions that all have a live pod are no more than the pods that
\* checkExistingSessions counts.
LEMMA CountedCoversHeld ==
    ASSUME TypeOK, NEW u \in Users,
           \A h \in Held(u) : pods[h] \cap LivePhases # {}
    PROVE  /\ IsFiniteSet(Held(u))
           /\ Cardinality(CountedPods(u)) \in Nat
           /\ Cardinality(Held(u)) <= Cardinality(CountedPods(u))
<1> DEFINE f == [h \in Held(u) |-> <<h, CHOOSE p \in LivePhases : p \in pods[h]>>]
<1>1. IsFiniteSet(CountedPhases)
  <2>1. CountedPhases = ({"Pending"} \cup {"Running"}) \cup {"Failed"}
    BY DEF CountedPhases
  <2> QED
    BY <2>1, FS_Singleton, FS_AddElement
<1>2. IsFiniteSet(Sessions \X CountedPhases)
  BY <1>1, FS_Product, ConstantsAssumption
<1>3. CountedPods(u) \in SUBSET (Sessions \X CountedPhases)
  BY DEF CountedPods
<1>4. IsFiniteSet(CountedPods(u)) /\ Cardinality(CountedPods(u)) \in Nat
  BY <1>2, <1>3, FS_Subset, FS_CardinalityType
<1>5. ASSUME NEW h \in Held(u) PROVE f[h] \in CountedPods(u)
  <2>1. PICK p \in LivePhases : p \in pods[h]
    OBVIOUS
  <2>2. (CHOOSE q \in LivePhases : q \in pods[h]) \in LivePhases \cap pods[h]
    BY <2>1
  <2> QED
    BY <2>2 DEF Held, CountedPods, CountedPhases, LivePhases
<1>6. f \in Injection(Held(u), CountedPods(u))
  <2>1. f \in [Held(u) -> CountedPods(u)]
    BY <1>5
  <2>2. \A a, b \in Held(u) : f[a] = f[b] => a = b
    OBVIOUS
  <2> QED
    BY <2>1, <2>2 DEF Injection, IsInjective
<1> QED
  BY <1>4, <1>6, FS_Injection

\* The sessions of u that were admitted by a check that saw all the held ones.
Seen(u) == {s \in Held(u) : ~blind[s]}

\* A step that adds no session to those does not endanger the limit.
LEMMA SeenShrinks ==
    ASSUME TypeOK, LimitUnlessBlind, NEW u \in Users, Seen(u)' \subseteq Seen(u)
    PROVE  Cardinality(Seen(u)') <= MaxUserSessions
<1>1. Seen(u) \in SUBSET Sessions
  BY DEF Seen, Held
<1>2. IsFiniteSet(Seen(u))
  BY <1>1, FS_Subset, ConstantsAssumption
<1>3. Cardinality(Seen(u)') <= Cardinality(Seen(u))
  BY <1>2, FS_Subset
<1>4. Cardinality(Seen(u)') \in Nat /\ Cardinality(Seen(u)) \in Nat
  BY <1>2, FS_Subset, FS_CardinalityType
<1>5. Cardinality(Seen(u)) <= MaxUserSessions
  BY DEF LimitUnlessBlind, Seen
<1> QED
  BY <1>3, <1>4, <1>5, ConstantsAssumption


\* An admission that saw every held session leaves room for one more; an admission
\* that did not is marked blind; and nothing else adds to the held sessions.
LEMMA LimitStep ==
    TypeOK /\ Named /\ Unused /\ Fresh /\ LimitUnlessBlind /\ [Next]_vars => LimitUnlessBlind'
<1> SUFFICES ASSUME TypeOK, Named, Unused, Fresh, LimitUnlessBlind, [Next]_vars,
                    NEW u \in Users
             PROVE  Cardinality(Seen(u)') <= MaxUserSessions
  BY DEF LimitUnlessBlind, Seen
<1> DEFINE Shrinks == Seen(u)' \subseteq Seen(u)
<1>1. ASSUME NEW r \in Requests, NEW v \in Users, NEW t \in Types, StartPost(r, v, t)
      PROVE Shrinks
  BY <1>1, ConstantsAssumption DEF StartPost, TypeOK, Named, Unused, Fresh, Seen, Held,
     Launching, PostSteps, DeleteSteps, Answers, LivePhases, Harmful, FailsUnseen, Astray,
     k8sVars, reqVars, history, Goto,
     End, SetJob, SetPods, StopLive
<1>2. ASSUME NEW r \in Requests, NEW s \in Sessions, Admit(r, s)
      PROVE  Cardinality(Seen(u)') <= MaxUserSessions
  <2> USE <1>2, ConstantsAssumption
  <2>1. Held(u)' \subseteq Held(u) \cup {s} /\ s \notin Held(u)
    BY DEF Admit, TypeOK, Named, Unused, Fresh, Held, Launching, k8sVars, PostSteps,
       DeleteSteps
  <2>2. \A h \in Sessions \ {s} : blind'[h] = blind[h]
    BY DEF Admit, TypeOK
  <2>3. CASE usr[r] = u /\ Interactive(typ[r]) /\ ~blind'[s]
    <3>1. \A h \in Held(u) : pods[h] \cap LivePhases # {}
      BY <2>3 DEF Admit, TypeOK
    <3>2. Cardinality(CountedPods(u)) < MaxUserSessions
      BY <2>3 DEF Admit, WithinLimit
    <3>3. /\ IsFiniteSet(Held(u)) /\ Cardinality(Held(u)) \in Nat
          /\ Cardinality(CountedPods(u)) \in Nat
          /\ Cardinality(Held(u)) <= Cardinality(CountedPods(u))
      BY <3>1, CountedCoversHeld, FS_CardinalityType
    <3>4. /\ IsFiniteSet(Held(u) \cup {s})
          /\ Cardinality(Held(u) \cup {s}) = Cardinality(Held(u)) + 1
      BY <2>1, <3>3, FS_AddElement
    <3>5. Seen(u)' \subseteq Held(u) \cup {s}
      BY <2>1 DEF Seen
    <3>6. /\ Cardinality(Seen(u)') \in Nat
          /\ Cardinality(Seen(u)') <= Cardinality(Held(u) \cup {s})
      BY <3>4, <3>5, FS_Subset, FS_CardinalityType
    <3> QED
      BY <3>2, <3>3, <3>4, <3>6
  <2>4. CASE ~(usr[r] = u /\ Interactive(typ[r]) /\ ~blind'[s])
    <3>1. s \notin Seen(u)'
      BY <2>4 DEF Admit, Seen, Held, TypeOK
    <3>2. Shrinks
      BY <2>1, <2>2, <3>1 DEF Seen, Held
    <3> QED
      BY <3>2, SeenShrinks
  <2> QED
    BY <2>3, <2>4
<1>3. ASSUME NEW r \in Requests, Refuse(r) PROVE Shrinks
  BY <1>3, ConstantsAssumption DEF Refuse, TypeOK, Named, Unused, Fresh, Seen, Held,
     Launching, PostSteps, DeleteSteps, Answers, LivePhases, Harmful, FailsUnseen, Astray,
     k8sVars, reqVars, history, Goto,
     End, SetJob, SetPods, StopLive
<1>4. ASSUME NEW r \in Requests, PrepareFails(r) PROVE Shrinks
  BY <1>4, ConstantsAssumption DEF PrepareFails, TypeOK, Named, Unused, Fresh, Seen,
     Held, Launching, PostSteps, DeleteSteps, Answers, LivePhases, Harmful, FailsUnseen,
     Astray, k8sVars, reqVars, history,
     Goto, End, SetJob, SetPods, StopLive
<1>5. ASSUME NEW r \in Requests, CreateJob(r) PROVE Shrinks
  BY <1>5, ConstantsAssumption DEF CreateJob, TypeOK, Named, Unused, Fresh, Seen, Held,
     Launching, PostSteps, DeleteSteps, Answers, LivePhases, Harmful, FailsUnseen, Astray,
     k8sVars, reqVars, history, Goto,
     End, SetJob, SetPods, StopLive
<1>6. ASSUME NEW r \in Requests, GetJob(r, "getJob", "createService") PROVE Shrinks
  BY <1>6, ConstantsAssumption DEF GetJob, TypeOK, Named, Unused, Fresh, Seen, Held,
     Launching, PostSteps, DeleteSteps, Answers, LivePhases, Harmful, FailsUnseen, Astray,
     k8sVars, reqVars, history, Goto,
     End, SetJob, SetPods, StopLive
<1>7. ASSUME NEW r \in Requests, CreateService(r) PROVE Shrinks
  BY <1>7, ConstantsAssumption DEF CreateService, TypeOK, Named, Unused, Fresh, Seen,
     Held, Launching, PostSteps, DeleteSteps, Answers, LivePhases, Harmful, FailsUnseen,
     Astray, k8sVars, reqVars, history,
     Goto, End, SetJob, SetPods, StopLive
<1>8. ASSUME NEW r \in Requests, GetJob(r, "getJobAgain", "createIngress") PROVE Shrinks
  BY <1>8, ConstantsAssumption DEF GetJob, TypeOK, Named, Unused, Fresh, Seen, Held,
     Launching, PostSteps, DeleteSteps, Answers, LivePhases, Harmful, FailsUnseen, Astray,
     k8sVars, reqVars, history, Goto,
     End, SetJob, SetPods, StopLive
<1>9. ASSUME NEW r \in Requests, CreateIngress(r) PROVE Shrinks
  BY <1>9, ConstantsAssumption DEF CreateIngress, TypeOK, Named, Unused, Fresh, Seen,
     Held, Launching, PostSteps, DeleteSteps, Answers, LivePhases, Harmful, FailsUnseen,
     Astray, k8sVars, reqVars, history,
     Goto, End, SetJob, SetPods, StopLive
<1>10. ASSUME NEW r \in Requests, NEW v \in Users, NEW s \in Sessions, StartDelete(r, v, s)
      PROVE Shrinks
  BY <1>10, ConstantsAssumption DEF StartDelete, TypeOK, Named, Unused, Fresh, Seen,
     Held, Launching, PostSteps, DeleteSteps, Answers, LivePhases, Harmful, FailsUnseen,
     Astray, k8sVars, reqVars, history,
     Goto, End, SetJob, SetPods, StopLive
<1>11. ASSUME NEW r \in Requests, ListForDelete(r) PROVE Shrinks
  BY <1>11, ConstantsAssumption DEF ListForDelete, TypeOK, Named, Unused, Fresh, Seen,
     Held, Launching, PostSteps, DeleteSteps, Answers, LivePhases, Harmful, FailsUnseen,
     Astray, k8sVars, reqVars, history,
     Goto, End, SetJob, SetPods, StopLive
<1>12. ASSUME NEW r \in Requests, DeleteJob(r) PROVE Shrinks
  BY <1>12, ConstantsAssumption DEF DeleteJob, TypeOK, Named, Unused, Fresh, Seen,
     Held, Launching, PostSteps, DeleteSteps, Answers, LivePhases, Harmful, FailsUnseen,
     Astray, k8sVars, reqVars, history,
     Goto, End, SetJob, SetPods, StopLive
<1>13. ASSUME NEW r \in Requests, DeleteObject(r, "deleteIngress", "ingressroute",
        "deleteService") PROVE Shrinks
  BY <1>13, ConstantsAssumption DEF DeleteObject, TypeOK, Named, Unused, Fresh, Seen,
     Held, Launching, PostSteps, DeleteSteps, Answers, LivePhases, Harmful, FailsUnseen,
     Astray, k8sVars, reqVars, history,
     Goto, End, SetJob, SetPods, StopLive
<1>14. ASSUME NEW r \in Requests, DeleteObject(r, "deleteService", "service",
        "deleteMiddleware") PROVE Shrinks
  BY <1>14, ConstantsAssumption DEF DeleteObject, TypeOK, Named, Unused, Fresh, Seen,
     Held, Launching, PostSteps, DeleteSteps, Answers, LivePhases, Harmful, FailsUnseen,
     Astray, k8sVars, reqVars, history,
     Goto, End, SetJob, SetPods, StopLive
<1>15. ASSUME NEW r \in Requests, DeleteObject(r, "deleteMiddleware", "middleware", "ok")
      PROVE Shrinks
  BY <1>15, ConstantsAssumption DEF DeleteObject, TypeOK, Named, Unused, Fresh, Seen,
     Held, Launching, PostSteps, DeleteSteps, Answers, LivePhases, Harmful, FailsUnseen,
     Astray, k8sVars, reqVars, history,
     Goto, End, SetJob, SetPods, StopLive
<1>16. ASSUME NEW r \in Requests, Crash(r) PROVE Shrinks
  BY <1>16, ConstantsAssumption DEF Crash, TypeOK, Named, Unused, Fresh, Seen, Held,
     Launching, PostSteps, DeleteSteps, Answers, LivePhases, Harmful, FailsUnseen, Astray,
     k8sVars, reqVars, history, Goto,
     End, SetJob, SetPods, StopLive
<1>17. ASSUME NEW r \in Requests, Forget(r) PROVE Shrinks
  BY <1>17, ConstantsAssumption DEF Forget, TypeOK, Named, Unused, Fresh, Seen, Held,
     Launching, PostSteps, DeleteSteps, Answers, LivePhases, Harmful, FailsUnseen, Astray,
     k8sVars, reqVars, history, Goto,
     End, SetJob, SetPods, StopLive
<1>18. ASSUME NEW s \in Sessions, ForgetSession(s) PROVE Shrinks
  BY <1>18, ConstantsAssumption DEF ForgetSession, TypeOK, Named, Unused, Fresh, Seen,
     Held, Launching, PostSteps, DeleteSteps, Answers, LivePhases, Harmful, FailsUnseen,
     Astray, k8sVars, reqVars, history,
     Goto, End, SetJob, SetPods, StopLive
<1>19. ASSUME NEW s \in Sessions, Unsuspend(s) PROVE Shrinks
  BY <1>19, ConstantsAssumption DEF Unsuspend, TypeOK, Named, Unused, Fresh, Seen,
     Held, Launching, PostSteps, DeleteSteps, Answers, LivePhases, Harmful, FailsUnseen,
     Astray, k8sVars, reqVars, history,
     Goto, End, SetJob, SetPods, StopLive
<1>20. ASSUME NEW s \in Sessions, Preempt(s) PROVE Shrinks
  BY <1>20, ConstantsAssumption DEF Preempt, TypeOK, Named, Unused, Fresh, Seen, Held,
     Launching, PostSteps, DeleteSteps, Answers, LivePhases, Harmful, FailsUnseen, Astray,
     k8sVars, reqVars, history, Goto,
     End, SetJob, SetPods, StopLive
<1>21. ASSUME NEW s \in Sessions, StartPod(s) PROVE Shrinks
  BY <1>21, ConstantsAssumption DEF StartPod, TypeOK, Named, Unused, Fresh, Seen, Held,
     Launching, PostSteps, DeleteSteps, Answers, LivePhases, Harmful, FailsUnseen, Astray,
     k8sVars, reqVars, history, Goto,
     End, SetJob, SetPods, StopLive
<1>22. ASSUME NEW s \in Sessions, RunPod(s) PROVE Shrinks
  BY <1>22, ConstantsAssumption DEF RunPod, TypeOK, Named, Unused, Fresh, Seen, Held,
     Launching, PostSteps, DeleteSteps, Answers, LivePhases, Harmful, FailsUnseen, Astray,
     k8sVars, reqVars, history, Goto,
     End, SetJob, SetPods, StopLive
<1>23. ASSUME NEW s \in Sessions, Evict(s) PROVE Shrinks
  BY <1>23, ConstantsAssumption DEF Evict, TypeOK, Named, Unused, Fresh, Seen, Held,
     Launching, PostSteps, DeleteSteps, Answers, LivePhases, Harmful, FailsUnseen, Astray,
     k8sVars, reqVars, history, Goto,
     End, SetJob, SetPods, StopLive
<1>24. ASSUME NEW s \in Sessions, Succeed(s) PROVE Shrinks
  BY <1>24, ConstantsAssumption DEF Succeed, TypeOK, Named, Unused, Fresh, Seen, Held,
     Launching, PostSteps, DeleteSteps, Answers, LivePhases, Harmful, FailsUnseen, Astray,
     k8sVars, reqVars, history, Goto,
     End, SetJob, SetPods, StopLive
<1>25. ASSUME NEW s \in Sessions, Expire(s) PROVE Shrinks
  BY <1>25, ConstantsAssumption DEF Expire, TypeOK, Named, Unused, Fresh, Seen, Held,
     Launching, PostSteps, DeleteSteps, Answers, LivePhases, Harmful, FailsUnseen, Astray,
     k8sVars, reqVars, history, Goto,
     End, SetJob, SetPods, StopLive
<1>26. ASSUME NEW s \in Sessions, RemoveFinished(s) PROVE Shrinks
  BY <1>26, ConstantsAssumption DEF RemoveFinished, TypeOK, Named, Unused, Fresh, Seen,
     Held, Launching, PostSteps, DeleteSteps, Answers, LivePhases, Harmful, FailsUnseen,
     Astray, k8sVars, reqVars, history,
     Goto, End, SetJob, SetPods, StopLive
<1>27. ASSUME NEW s \in Sessions, CollectPods(s) PROVE Shrinks
  BY <1>27, ConstantsAssumption DEF CollectPods, TypeOK, Named, Unused, Fresh, Seen,
     Held, Launching, PostSteps, DeleteSteps, Answers, LivePhases, Harmful, FailsUnseen,
     Astray, k8sVars, reqVars, history,
     Goto, End, SetJob, SetPods, StopLive
<1>28. ASSUME NEW s \in Sessions, PodGone(s) PROVE Shrinks
  BY <1>28, ConstantsAssumption DEF PodGone, TypeOK, Named, Unused, Fresh, Seen, Held,
     Launching, PostSteps, DeleteSteps, Answers, LivePhases, Harmful, FailsUnseen, Astray,
     k8sVars, reqVars, history, Goto,
     End, SetJob, SetPods, StopLive
<1>29. ASSUME NEW s \in Sessions, CollectObjects(s) PROVE Shrinks
  BY <1>29, ConstantsAssumption DEF CollectObjects, TypeOK, Named, Unused, Fresh, Seen,
     Held, Launching, PostSteps, DeleteSteps, Answers, LivePhases, Harmful, FailsUnseen,
     Astray, k8sVars, reqVars, history,
     Goto, End, SetJob, SetPods, StopLive
<1>30. CASE UNCHANGED vars
  <2>1. Shrinks
    BY <1>30 DEF vars, Seen, Held, Launching
  <2> QED
    BY <2>1, SeenShrinks
<1> QED
  BY <1>1, <1>2, <1>3, <1>4, <1>5, <1>6, <1>7, <1>8, <1>9, <1>10, <1>11, <1>12, <1>13,
     <1>14, <1>15, <1>16, <1>17, <1>18, <1>19, <1>20, <1>21, <1>22, <1>23, <1>24,
     <1>25, <1>26, <1>27, <1>28, <1>29, <1>30, SeenShrinks
  DEF Next, Post, Delete, Kubernetes

-----------------------------------------------------------------------------
(* What a session keeps until a call about it fails.                       *)

\* At the start no session has an object and no answer has been given.
LEMMA WiredInit == Init => JobGone /\ Wired
BY DEF Init, JobGone, Wired

\* But for the failures that are recorded, no step brings back a job that a DELETE has
\* taken away, or takes away an object of a session whose job exists.
LEMMA WiredStep ==
    TypeOK /\ Named /\ Unused /\ Fresh /\ JobGone /\ Wired /\ [Next]_vars => JobGone' /\ Wired'
<1> SUFFICES ASSUME TypeOK, Named, Unused, Fresh, JobGone, Wired,
        [Next]_vars PROVE JobGone' /\ Wired'
  OBVIOUS
<1> USE ConstantsAssumption DEF TypeOK, Named, Unused, Fresh, JobGone, Wired,
        PostSteps, DeleteSteps, Answers, LivePhases, Harmful, FailsUnseen, Astray, k8sVars,
        reqVars, history, Goto, End,
        SetJob, SetPods, StopLive
<1>1. ASSUME NEW r \in Requests, NEW u \in Users, NEW t \in Types, StartPost(r, u, t)
      PROVE JobGone' /\ Wired'
  BY <1>1 DEF StartPost
<1>2. ASSUME NEW r \in Requests, NEW s \in Sessions, Admit(r, s)
      PROVE JobGone' /\ Wired'
  BY <1>2 DEF Admit
<1>3. ASSUME NEW r \in Requests, Refuse(r) PROVE JobGone' /\ Wired'
  BY <1>3 DEF Refuse
<1>4. ASSUME NEW r \in Requests, PrepareFails(r) PROVE JobGone' /\ Wired'
  BY <1>4 DEF PrepareFails
<1>5. ASSUME NEW r \in Requests, CreateJob(r) PROVE JobGone' /\ Wired'
  BY <1>5 DEF CreateJob
<1>6. ASSUME NEW r \in Requests, GetJob(r, "getJob", "createService")
      PROVE JobGone' /\ Wired'
  BY <1>6 DEF GetJob
<1>7. ASSUME NEW r \in Requests, CreateService(r) PROVE JobGone' /\ Wired'
  <2>1. /\ \A s \in Sessions : failed[s] \subseteq failed'[s] /\ objs[s] \subseteq objs'[s]
        /\ job' = job /\ op' = op /\ typ' = typ /\ sid' = sid
        /\ pc' = [pc EXCEPT ![r] = "getJobAgain"] /\ op[r] = "post" /\ sid[r] \in Sessions
    BY <1>7 DEF CreateService
  <2>2. "createService" \in failed'[sid[r]] \/ "service" \in objs'[sid[r]]
    BY <1>7 DEF CreateService
  <2>3. JobGone'
    BY <2>1
  <2>4. Wired'
    BY <2>1, <2>2
  <2> QED
    BY <2>3, <2>4
<1>8. ASSUME NEW r \in Requests, GetJob(r, "getJobAgain", "createIngress")
      PROVE JobGone' /\ Wired'
  BY <1>8 DEF GetJob
<1>9. ASSUME NEW r \in Requests, CreateIngress(r) PROVE JobGone' /\ Wired'
  <2>1. /\ \A s \in Sessions : failed[s] \subseteq failed'[s] /\ objs[s] \subseteq objs'[s]
        /\ job' = job /\ op' = op /\ typ' = typ /\ sid' = sid
        /\ pc' = [pc EXCEPT ![r] = "ok"] /\ pc[r] = "createIngress"
        /\ op[r] = "post" /\ sid[r] \in Sessions
    BY <1>9 DEF CreateIngress
  <2>2. \/ "createIngress" \in failed'[sid[r]]
        \/ IngressObjects[typ[r]] \subseteq objs'[sid[r]]
    BY <1>9 DEF CreateIngress
  <2>3. JobGone'
    BY <2>1
  <2>4. Wired'
    BY <2>1, <2>2
  <2> QED
    BY <2>3, <2>4
<1>10. ASSUME NEW r \in Requests, NEW u \in Users, NEW s \in Sessions, StartDelete(r, u, s)
      PROVE JobGone' /\ Wired'
  BY <1>10 DEF StartDelete
<1>11. ASSUME NEW r \in Requests, ListForDelete(r) PROVE JobGone' /\ Wired'
  BY <1>11 DEF ListForDelete
<1>12. ASSUME NEW r \in Requests, DeleteJob(r) PROVE JobGone' /\ Wired'
  BY <1>12 DEF DeleteJob
<1>13. ASSUME NEW r \in Requests, DeleteObject(r, "deleteIngress", "ingressroute",
        "deleteService") PROVE JobGone' /\ Wired'
  BY <1>13 DEF DeleteObject
<1>14. ASSUME NEW r \in Requests, DeleteObject(r, "deleteService", "service",
        "deleteMiddleware") PROVE JobGone' /\ Wired'
  BY <1>14 DEF DeleteObject
<1>15. ASSUME NEW r \in Requests, DeleteObject(r, "deleteMiddleware", "middleware", "ok")
      PROVE JobGone' /\ Wired'
  BY <1>15 DEF DeleteObject
<1>16. ASSUME NEW r \in Requests, Crash(r) PROVE JobGone' /\ Wired'
  BY <1>16 DEF Crash
<1>17. ASSUME NEW r \in Requests, Forget(r) PROVE JobGone' /\ Wired'
  BY <1>17 DEF Forget
<1>18. ASSUME NEW s \in Sessions, ForgetSession(s) PROVE JobGone' /\ Wired'
  BY <1>18 DEF ForgetSession
<1>19. ASSUME NEW s \in Sessions, Unsuspend(s) PROVE JobGone' /\ Wired'
  BY <1>19 DEF Unsuspend
<1>20. ASSUME NEW s \in Sessions, Preempt(s) PROVE JobGone' /\ Wired'
  BY <1>20 DEF Preempt
<1>21. ASSUME NEW s \in Sessions, StartPod(s) PROVE JobGone' /\ Wired'
  BY <1>21 DEF StartPod
<1>22. ASSUME NEW s \in Sessions, RunPod(s) PROVE JobGone' /\ Wired'
  BY <1>22 DEF RunPod
<1>23. ASSUME NEW s \in Sessions, Evict(s) PROVE JobGone' /\ Wired'
  BY <1>23 DEF Evict
<1>24. ASSUME NEW s \in Sessions, Succeed(s) PROVE JobGone' /\ Wired'
  BY <1>24 DEF Succeed
<1>25. ASSUME NEW s \in Sessions, Expire(s) PROVE JobGone' /\ Wired'
  BY <1>25 DEF Expire
<1>26. ASSUME NEW s \in Sessions, RemoveFinished(s) PROVE JobGone' /\ Wired'
  BY <1>26 DEF RemoveFinished
<1>27. ASSUME NEW s \in Sessions, CollectPods(s) PROVE JobGone' /\ Wired'
  BY <1>27 DEF CollectPods
<1>28. ASSUME NEW s \in Sessions, PodGone(s) PROVE JobGone' /\ Wired'
  BY <1>28 DEF PodGone
<1>29. ASSUME NEW s \in Sessions, CollectObjects(s) PROVE JobGone' /\ Wired'
  BY <1>29 DEF CollectObjects
<1>30. CASE UNCHANGED vars
  BY <1>30 DEF vars
<1> QED
  BY <1>1, <1>2, <1>3, <1>4, <1>5, <1>6, <1>7, <1>8, <1>9, <1>10, <1>11, <1>12, <1>13,
     <1>14, <1>15, <1>16, <1>17, <1>18, <1>19, <1>20, <1>21, <1>22, <1>23, <1>24,
     <1>25, <1>26, <1>27, <1>28, <1>29, <1>30
  DEF Next, Post, Delete, Kubernetes

-----------------------------------------------------------------------------
(* What a DELETE leaves behind.                                            *)

\* A POST works on a session of the type it was asked for, and makes network objects
\* for interactive types only; a session that is not in use has none.
Bare ==
    /\ \A r \in Requests : op[r] = "post" /\ sid[r] \in Sessions =>
          /\ type[sid[r]] = typ[r]
          /\ pc[r] \in {"getJob", "createService", "getJobAgain", "createIngress"}
                => Interactive(typ[r])
    /\ \A s \in Sessions : owner[s] = NoUser \/ ~Interactive(type[s]) => objs[s] = {}

\* The kinds of object that a DELETE at step p has tried to delete.
Swept(p) ==
    (IF p \in {"deleteService", "deleteMiddleware", "ok"} THEN {"ingressroute"} ELSE {})
        \cup (IF p \in {"deleteMiddleware", "ok"} THEN {"service"} ELSE {})
        \cup (IF p = "ok" THEN {"middleware"} ELSE {})

\* What a DELETE has tried to delete is there only when its deletion failed, or when it
\* was made with the job gone.
Cleaned ==
    \A r \in Requests :
        op[r] = "delete" /\ sid[r] \in Sessions /\ "deleteJob" \notin failed[sid[r]]
            => objs[sid[r]] \cap Swept(pc[r]) \subseteq stray[sid[r]]

\* Every step keeps the types of POSTs and sessions together.
LEMMA BareStep == TypeOK /\ Named /\ Unused /\ Bare /\ [Next]_vars => Bare'
<1> SUFFICES ASSUME TypeOK, Named, Unused, Bare, [Next]_vars PROVE Bare'
  OBVIOUS
<1> USE ConstantsAssumption DEF TypeOK, Named, Unused, Bare, PostSteps, DeleteSteps, Answers,
        FailsUnseen, Astray, k8sVars, reqVars, history, Goto, End, SetJob, SetPods, StopLive
<1>1. ASSUME NEW r \in Requests, NEW u \in Users, NEW t \in Types, StartPost(r, u, t)
      PROVE Bare'
  BY <1>1 DEF StartPost
<1>2. ASSUME NEW r \in Requests, NEW s \in Sessions, Admit(r, s)
      PROVE Bare'
  BY <1>2 DEF Admit
<1>3. ASSUME NEW r \in Requests, Refuse(r)
      PROVE Bare'
  BY <1>3 DEF Refuse
<1>4. ASSUME NEW r \in Requests, PrepareFails(r)
      PROVE Bare'
  BY <1>4 DEF PrepareFails
<1>5. ASSUME NEW r \in Requests, CreateJob(r)
      PROVE Bare'
  BY <1>5 DEF CreateJob
<1>6. ASSUME NEW r \in Requests, GetJob(r, "getJob", "createService")
      PROVE Bare'
  BY <1>6 DEF GetJob
<1>7. ASSUME NEW r \in Requests, CreateService(r)
      PROVE Bare'
  BY <1>7 DEF CreateService
<1>8. ASSUME NEW r \in Requests, GetJob(r, "getJobAgain", "createIngress")
      PROVE Bare'
  BY <1>8 DEF GetJob
<1>9. ASSUME NEW r \in Requests, CreateIngress(r)
      PROVE Bare'
  BY <1>9 DEF CreateIngress
<1>10. ASSUME NEW r \in Requests, NEW u \in Users, NEW s \in Sessions, StartDelete(r, u, s)
      PROVE Bare'
  BY <1>10 DEF StartDelete
<1>11. ASSUME NEW r \in Requests, ListForDelete(r)
      PROVE Bare'
  BY <1>11 DEF ListForDelete
<1>12. ASSUME NEW r \in Requests, DeleteJob(r)
      PROVE Bare'
  BY <1>12 DEF DeleteJob
<1>13. ASSUME NEW r \in Requests,
        DeleteObject(r, "deleteIngress", "ingressroute", "deleteService")
      PROVE Bare'
  BY <1>13 DEF DeleteObject
<1>14. ASSUME NEW r \in Requests,
        DeleteObject(r, "deleteService", "service", "deleteMiddleware")
      PROVE Bare'
  BY <1>14 DEF DeleteObject
<1>15. ASSUME NEW r \in Requests,
        DeleteObject(r, "deleteMiddleware", "middleware", "ok")
      PROVE Bare'
  BY <1>15 DEF DeleteObject
<1>16. ASSUME NEW r \in Requests, Crash(r)
      PROVE Bare'
  BY <1>16 DEF Crash
<1>17. ASSUME NEW r \in Requests, Forget(r)
      PROVE Bare'
  BY <1>17 DEF Forget
<1>18. ASSUME NEW s \in Sessions, ForgetSession(s)
      PROVE Bare'
  BY <1>18 DEF ForgetSession
<1>19. ASSUME NEW s \in Sessions, Unsuspend(s)
      PROVE Bare'
  BY <1>19 DEF Unsuspend
<1>20. ASSUME NEW s \in Sessions, Preempt(s)
      PROVE Bare'
  BY <1>20 DEF Preempt
<1>21. ASSUME NEW s \in Sessions, StartPod(s)
      PROVE Bare'
  BY <1>21 DEF StartPod
<1>22. ASSUME NEW s \in Sessions, RunPod(s)
      PROVE Bare'
  BY <1>22 DEF RunPod
<1>23. ASSUME NEW s \in Sessions, Evict(s)
      PROVE Bare'
  BY <1>23 DEF Evict
<1>24. ASSUME NEW s \in Sessions, Succeed(s)
      PROVE Bare'
  BY <1>24 DEF Succeed
<1>25. ASSUME NEW s \in Sessions, Expire(s)
      PROVE Bare'
  BY <1>25 DEF Expire
<1>26. ASSUME NEW s \in Sessions, RemoveFinished(s)
      PROVE Bare'
  BY <1>26 DEF RemoveFinished
<1>27. ASSUME NEW s \in Sessions, CollectPods(s)
      PROVE Bare'
  BY <1>27 DEF CollectPods
<1>28. ASSUME NEW s \in Sessions, PodGone(s)
      PROVE Bare'
  BY <1>28 DEF PodGone
<1>29. ASSUME NEW s \in Sessions, CollectObjects(s)
      PROVE Bare'
  BY <1>29 DEF CollectObjects
<1>30. CASE UNCHANGED vars
  BY <1>30 DEF vars
<1> QED
  BY <1>1, <1>2, <1>3, <1>4, <1>5, <1>6, <1>7, <1>8, <1>9, <1>10, <1>11, <1>12, <1>13,
     <1>14, <1>15, <1>16, <1>17, <1>18, <1>19, <1>20, <1>21, <1>22, <1>23, <1>24,
     <1>25, <1>26, <1>27, <1>28, <1>29, <1>30
  DEF Next, Post, Delete, Kubernetes

\* No step leaves an object behind a DELETE but those that stray.
LEMMA CleanedStep ==
    TypeOK /\ Named /\ Unused /\ JobGone /\ Bare /\ Cleaned /\ [Next]_vars => Cleaned'
<1> SUFFICES ASSUME TypeOK, Named, Unused, JobGone, Bare, Cleaned, [Next]_vars PROVE Cleaned'
  OBVIOUS
<1> USE ConstantsAssumption DEF TypeOK, Named, Unused, JobGone, Bare, Cleaned, Swept, PostSteps,
        DeleteSteps, Answers, Harmful, FailsUnseen, Astray, k8sVars, reqVars, history, Goto, End,
        SetJob, SetPods, StopLive
<1>1. ASSUME NEW r \in Requests, NEW u \in Users, NEW t \in Types, StartPost(r, u, t)
      PROVE Cleaned'
  BY <1>1 DEF StartPost
<1>2. ASSUME NEW r \in Requests, NEW s \in Sessions, Admit(r, s)
      PROVE Cleaned'
  BY <1>2 DEF Admit
<1>3. ASSUME NEW r \in Requests, Refuse(r)
      PROVE Cleaned'
  BY <1>3 DEF Refuse
<1>4. ASSUME NEW r \in Requests, PrepareFails(r)
      PROVE Cleaned'
  BY <1>4 DEF PrepareFails
<1>5. ASSUME NEW r \in Requests, CreateJob(r)
      PROVE Cleaned'
  BY <1>5 DEF CreateJob
<1>6. ASSUME NEW r \in Requests, GetJob(r, "getJob", "createService")
      PROVE Cleaned'
  BY <1>6 DEF GetJob
<1>7. ASSUME NEW r \in Requests, CreateService(r)
      PROVE Cleaned'
  BY <1>7 DEF CreateService
<1>8. ASSUME NEW r \in Requests, GetJob(r, "getJobAgain", "createIngress")
      PROVE Cleaned'
  BY <1>8 DEF GetJob
<1>9. ASSUME NEW r \in Requests, CreateIngress(r)
      PROVE Cleaned'
  BY <1>9 DEF CreateIngress
<1>10. ASSUME NEW r \in Requests, NEW u \in Users, NEW s \in Sessions, StartDelete(r, u, s)
      PROVE Cleaned'
  BY <1>10 DEF StartDelete
<1>11. ASSUME NEW r \in Requests, ListForDelete(r)
      PROVE Cleaned'
  BY <1>11 DEF ListForDelete
<1>12. ASSUME NEW r \in Requests, DeleteJob(r)
      PROVE Cleaned'
  BY <1>12 DEF DeleteJob
<1>13. ASSUME NEW r \in Requests,
        DeleteObject(r, "deleteIngress", "ingressroute", "deleteService")
      PROVE Cleaned'
  BY <1>13 DEF DeleteObject
<1>14. ASSUME NEW r \in Requests,
        DeleteObject(r, "deleteService", "service", "deleteMiddleware")
      PROVE Cleaned'
  BY <1>14 DEF DeleteObject
<1>15. ASSUME NEW r \in Requests,
        DeleteObject(r, "deleteMiddleware", "middleware", "ok")
      PROVE Cleaned'
  BY <1>15 DEF DeleteObject
<1>16. ASSUME NEW r \in Requests, Crash(r)
      PROVE Cleaned'
  BY <1>16 DEF Crash
<1>17. ASSUME NEW r \in Requests, Forget(r)
      PROVE Cleaned'
  BY <1>17 DEF Forget
<1>18. ASSUME NEW s \in Sessions, ForgetSession(s)
      PROVE Cleaned'
  BY <1>18 DEF ForgetSession
<1>19. ASSUME NEW s \in Sessions, Unsuspend(s)
      PROVE Cleaned'
  BY <1>19 DEF Unsuspend
<1>20. ASSUME NEW s \in Sessions, Preempt(s)
      PROVE Cleaned'
  BY <1>20 DEF Preempt
<1>21. ASSUME NEW s \in Sessions, StartPod(s)
      PROVE Cleaned'
  BY <1>21 DEF StartPod
<1>22. ASSUME NEW s \in Sessions, RunPod(s)
      PROVE Cleaned'
  BY <1>22 DEF RunPod
<1>23. ASSUME NEW s \in Sessions, Evict(s)
      PROVE Cleaned'
  BY <1>23 DEF Evict
<1>24. ASSUME NEW s \in Sessions, Succeed(s)
      PROVE Cleaned'
  BY <1>24 DEF Succeed
<1>25. ASSUME NEW s \in Sessions, Expire(s)
      PROVE Cleaned'
  BY <1>25 DEF Expire
<1>26. ASSUME NEW s \in Sessions, RemoveFinished(s)
      PROVE Cleaned'
  BY <1>26 DEF RemoveFinished
<1>27. ASSUME NEW s \in Sessions, CollectPods(s)
      PROVE Cleaned'
  BY <1>27 DEF CollectPods
<1>28. ASSUME NEW s \in Sessions, PodGone(s)
      PROVE Cleaned'
  BY <1>28 DEF PodGone
<1>29. ASSUME NEW s \in Sessions, CollectObjects(s)
      PROVE Cleaned'
  BY <1>29 DEF CollectObjects
<1>30. CASE UNCHANGED vars
  BY <1>30 DEF vars
<1> QED
  BY <1>1, <1>2, <1>3, <1>4, <1>5, <1>6, <1>7, <1>8, <1>9, <1>10, <1>11, <1>12, <1>13,
     <1>14, <1>15, <1>16, <1>17, <1>18, <1>19, <1>20, <1>21, <1>22, <1>23, <1>24,
     <1>25, <1>26, <1>27, <1>28, <1>29, <1>30
  DEF Next, Post, Delete, Kubernetes

-----------------------------------------------------------------------------
(* The theorems.                                                           *)

\* The session limit: whatever handlers, Kueue, evictions, failures and crashes do
\* between the check of a POST and its job, the sessions admitted by checks that saw
\* every held session stay within skaha.maxusersessions.
THEOREM SessionLimit == Spec => []LimitUnlessBlind
<1>1. Init => TypeOK /\ Named /\ Unused /\ Fresh /\ LimitUnlessBlind
  <2> SUFFICES ASSUME Init PROVE LimitUnlessBlind
    BY TypeInit, FreshInit
  <2>1. \A u \in Users : Seen(u) = {}
    BY ConstantsAssumption DEF Init, Seen, Held
  <2>2. \A u \in Users : Cardinality(Seen(u)) = 0
    BY <2>1, FS_EmptySet
  <2> QED
    BY <2>2, ConstantsAssumption DEF LimitUnlessBlind, Seen
<1>2. TypeOK /\ Named /\ Unused /\ Fresh /\ LimitUnlessBlind /\ [Next]_vars
         => (TypeOK /\ Named /\ Unused /\ Fresh /\ LimitUnlessBlind)'
  BY TypeStep, FreshStep, LimitStep
<1> QED
  BY <1>1, <1>2, PTL DEF Spec

\* The inductive invariant, and that every step keeps it.
IInv == TypeOK /\ Named /\ Unused /\ Fresh /\ JobGone /\ Wired

LEMMA Invariance == Spec => []IInv
<1>1. Init => IInv
  BY TypeInit, FreshInit, WiredInit DEF IInv
<1>2. IInv /\ [Next]_vars => IInv'
  BY TypeStep, FreshStep, WiredStep DEF IInv
<1> QED
  BY <1>1, <1>2, PTL DEF Spec

\* An ID that POST has answered stands for a session that can be connected to while
\* its job exists, unless the creation of its service or ingress or the deletion of
\* its job failed unseen, however POST, DELETE, crashes and Kubernetes interleave.
THEOREM Connectable == Spec => []ConnectableUnlessFailed
<1>1. IInv => ConnectableUnlessFailed
  BY DEF IInv, ConnectableUnlessFailed, Wired
<1> QED
  BY <1>1, Invariance, PTL

\* A DELETE that was answered is final unless kubectl failed to delete the job.
THEOREM DeleteFinal == Spec => []DeleteSticksUnlessFailed
<1>1. IInv => DeleteSticksUnlessFailed
  BY DEF IInv, DeleteSticksUnlessFailed, JobGone
<1> QED
  BY <1>1, Invariance, PTL

\* A DELETE that was answered leaves nothing behind of what it deletes, unless it was made
\* with the job gone already, or its deletion or that of the job failed, however POST,
\* DELETE, crashes and Kubernetes interleave.
THEOREM LeftBehind == Spec => []LeavesOnlyStray
<1>1. Init => Bare /\ Cleaned
  BY ConstantsAssumption DEF Init, Bare, Cleaned
<1>2. IInv /\ Bare /\ Cleaned /\ [Next]_vars => (Bare /\ Cleaned)'
  BY BareStep, CleanedStep DEF IInv
<1>3. IInv /\ Cleaned => LeavesOnlyStray
  BY DEF IInv, TypeOK, Named, Cleaned, Swept, LeavesOnlyStray, Kinds, DeleteSteps
<1> QED
  BY <1>1, <1>2, <1>3, Invariance, PTL DEF Spec

\* With a reliable kubectl nothing is recorded as failed.
LEMMA NothingFails ==
    ASSUME ~KubectlMayFail
    PROVE  Spec => [](\A s \in Sessions : failed[s] = {})
<1> DEFINE None == failed = [s \in Sessions |-> {}]
<1>1. Init => None
  BY DEF Init
<1>2. None /\ [Next]_vars => None'
  BY DEF Next, vars, Post, Delete, Kubernetes, StartPost, Admit, Refuse, PrepareFails,
     CreateJob, GetJob, CreateService, CreateIngress, StartDelete, ListForDelete,
     DeleteJob, DeleteObject, Crash, Forget, ForgetSession, Unsuspend, Preempt, StartPod,
     RunPod, Evict, Succeed, Expire, RemoveFinished, CollectPods, PodGone,
     CollectObjects, FailsUnseen, Astray, Failure, history
<1>3. None => \A s \in Sessions : failed[s] = {}
  OBVIOUS
<1> QED
  BY <1>1, <1>2, <1>3, PTL DEF Spec

\* With a reliable kubectl, a session whose POST was answered with its ID is
\* connectable as long as its job exists, and a session whose DELETE was answered
\* stays deleted, however the two handlers, their crashes and Kubernetes interleave.
THEOREM ReliableAnswers ==
    ASSUME ~KubectlMayFail
    PROVE  Spec => [](OkMeansConnectable /\ DeleteSticks)
<1>1. IInv /\ (\A s \in Sessions : failed[s] = {}) => OkMeansConnectable /\ DeleteSticks
  BY DEF IInv, TypeOK, Named, Wired, JobGone, OkMeansConnectable, DeleteSticks
<1> QED
  BY <1>1, Invariance, NothingFails, PTL

\* The half of it about POST by itself: who was answered an ID can connect while the
\* session's job exists.
THEOREM ConnectableAlways ==
    ASSUME ~KubectlMayFail
    PROVE  Spec => []OkMeansConnectable
BY ReliableAnswers, PTL

-----------------------------------------------------------------------------
(* The contract.                                                           *)

\* The two ways a step shows in the contract: not at all, or one session moves on.
Same == owner' = owner /\ Stage' = Stage
Forward(s) ==
    /\ owner' = owner
    /\ \A q \in Sessions \ {s} : Stage'[q] = Stage[q]
    /\ \/ Stage'[s] = Stage[s]
       \/ Stage[s] = "starting" /\ Stage'[s] = "connectable"
       \/ Stage[s] \in {"starting", "connectable"} /\ Stage'[s] = "over"

\* The contract describes a change of one session as an update of a function.
LEMMA OneChanges ==
    ASSUME NEW s \in Sessions, NEW x, Stage'[s] = x,
           \A q \in Sessions \ {s} : Stage'[q] = Stage[q]
    PROVE  Stage' = [Stage EXCEPT ![s] = x]
<1>1. Stage = [q \in Sessions |-> Stage[q]]
  BY DEF Stage
<1>2. Stage' = [q \in Sessions |-> Stage'[q]]
  BY DEF Stage
<1>3. [Stage EXCEPT ![s] = x] = [q \in Sessions |-> IF q = s THEN x ELSE Stage[q]]
  BY <1>1
<1>4. \A q \in Sessions : Stage'[q] = IF q = s THEN x ELSE Stage[q]
  OBVIOUS
<1> QED
  BY <1>2, <1>3, <1>4

\* A session that moves on takes a step of the contract.
LEMMA ForwardStep ==
    ASSUME NEW s \in Sessions, Forward(s)
    PROVE  [Contract!Next]_<<owner, Stage>>
<1>1. CASE Stage'[s] = Stage[s]
  <2>1. \A q \in Sessions : Stage'[q] = Stage[q]
    BY <1>1 DEF Forward
  <2>2. Stage' = Stage
    BY <2>1 DEF Stage
  <2> QED
    BY <2>2 DEF Forward
<1>2. CASE Stage[s] = "starting" /\ Stage'[s] = "connectable"
  <2>1. Stage' = [Stage EXCEPT ![s] = "connectable"]
    BY <1>2, OneChanges DEF Forward
  <2> QED
    BY <1>2, <2>1 DEF Forward, Contract!Next, Contract!Connect, Contract!Become
<1>3. CASE Stage[s] \in {"starting", "connectable"} /\ Stage'[s] = "over"
  <2>1. Stage' = [Stage EXCEPT ![s] = "over"]
    BY <1>3, OneChanges DEF Forward
  <2> QED
    BY <1>3, <2>1 DEF Forward, Contract!Next, Contract!Finish, Contract!Become
<1> QED
  BY <1>1, <1>2, <1>3 DEF Forward

\* A POST that is abandoned before its job exists leaves a session that is over.
LEMMA AbandonedIsOver ==
    ASSUME TypeOK, Named, Unused, Fresh, NEW r \in Requests, NEW s \in Sessions,
           s = sid[r], op[r] = "post", pc[r] = "createJob", End(r),
           UNCHANGED <<owner, type, k8sVars, failed>>
    PROVE  Forward(s)
<1>1. owner[s] # NoUser /\ job[s] = "none" /\ failed[s] = {}
  BY DEF Unused, Fresh
<1>2. \A q \in Requests \ {r} : sid[q] = s => op[q] = "delete"
  BY DEF Fresh
<1>3. \A q \in Requests \ {r} : op'[q] = op[q] /\ pc'[q] = pc[q] /\ sid'[q] = sid[q]
  BY DEF End, TypeOK
<1>4. pc'[r] = "idle" /\ sid'[r] = NoSession
  BY DEF End, TypeOK
<1>5. Launching(s) /\ ~Launching(s)'
  BY <1>2, <1>3, <1>4 DEF Launching
<1>6. \A q \in Sessions \ {s} : Launching(q)' <=> Launching(q)
  BY <1>3, <1>4 DEF Launching
<1>7. Stage[s] = "starting" /\ Stage'[s] = "over"
  BY <1>1, <1>5 DEF Stage, k8sVars
<1>8. \A q \in Sessions \ {s} : Stage'[q] = Stage[q]
  BY <1>6 DEF Stage, Launching, Wanted, k8sVars
<1> QED
  BY <1>7, <1>8 DEF Forward

\* Every step of the handlers and of Kubernetes is a step of the contract or does
\* not show in it.
LEMMA ContractStep ==
    TypeOK /\ Named /\ Unused /\ Fresh /\ JobGone /\ [Next]_vars
        => [Contract!Next]_<<owner, Stage>>
<1> SUFFICES ASSUME TypeOK, Named, Unused, Fresh, JobGone, [Next]_vars
             PROVE  [Contract!Next]_<<owner, Stage>>
  OBVIOUS
<1> USE ConstantsAssumption DEF TypeOK, Named, Unused, Fresh, JobGone,
        PostSteps, DeleteSteps, Answers, LivePhases, Harmful, FailsUnseen, Astray, k8sVars,
        reqVars, history, Goto, End,
        SetJob, SetPods, StopLive, Launching
<1>1. ASSUME NEW r \in Requests, NEW v \in Users, NEW t \in Types, StartPost(r, v, t)
      PROVE  Same
  BY <1>1 DEF StartPost, Same, Stage, Wanted
<1>2. ASSUME NEW r \in Requests, NEW s \in Sessions, Admit(r, s)
      PROVE  [Contract!Next]_<<owner, Stage>>
  <2>1. owner[s] = NoUser /\ Stage[s] = "unused"
    BY <1>2 DEF Admit, Stage
  <2>2. usr[r] \in Users /\ owner' = [owner EXCEPT ![s] = usr[r]]
    BY <1>2 DEF Admit
  <2>3. Stage'[s] = "starting"
    BY <1>2 DEF Admit, Stage
  <2>4. \A q \in Sessions \ {s} : Stage'[q] = Stage[q]
    BY <1>2 DEF Admit, Stage, Wanted
  <2>5. Stage' = [Stage EXCEPT ![s] = "starting"]
    BY <2>3, <2>4, OneChanges
  <2>6. Contract!Begin(s, usr[r])
    BY <2>1, <2>2, <2>5 DEF Stage, Contract!Begin, Contract!Become
  <2> QED
    BY <2>2, <2>6 DEF Contract!Next
<1>3. ASSUME NEW r \in Requests, Refuse(r)
      PROVE  Same
  BY <1>3 DEF Refuse, Same, Stage, Wanted
<1>4. ASSUME NEW r \in Requests, PrepareFails(r)
      PROVE  \E s \in Sessions : Forward(s)
  <2>1. op[r] = "post" /\ pc[r] = "createJob" /\ sid[r] \in Sessions /\ owner' = owner
    BY <1>4 DEF PrepareFails
  <2>2. Forward(sid[r])
    BY <1>4, <2>1, AbandonedIsOver DEF PrepareFails
  <2> QED
    BY <2>1, <2>2
<1>5. ASSUME NEW r \in Requests, CreateJob(r)
      PROVE  \E s \in Sessions : Forward(s)
  <2>1. PICK s \in Sessions : s = sid[r]
    BY <1>5 DEF CreateJob
  <2>2. Forward(s)
    BY <1>5, <2>1 DEF CreateJob, Forward, Stage, Wanted
  <2> QED
    BY <2>2
<1>6. ASSUME NEW r \in Requests, GetJob(r, "getJob", "createService")
      PROVE  Same
  BY <1>6 DEF GetJob, Same, Stage, Wanted
<1>7. ASSUME NEW r \in Requests, CreateService(r)
      PROVE  \E s \in Sessions : Forward(s)
  <2>1. PICK s \in Sessions : s = sid[r]
    BY <1>7 DEF CreateService
  <2>2. Forward(s)
    BY <1>7, <2>1 DEF CreateService, Forward, Stage, Wanted
  <2> QED
    BY <2>2
<1>8. ASSUME NEW r \in Requests, GetJob(r, "getJobAgain", "createIngress")
      PROVE  Same
  BY <1>8 DEF GetJob, Same, Stage, Wanted
<1>9. ASSUME NEW r \in Requests, CreateIngress(r)
      PROVE  \E s \in Sessions : Forward(s)
  <2>1. PICK s \in Sessions : s = sid[r]
    BY <1>9 DEF CreateIngress
  <2>2. Forward(s)
    BY <1>9, <2>1 DEF CreateIngress, Forward, Stage, Wanted
  <2> QED
    BY <2>2
<1>10. ASSUME NEW r \in Requests, NEW v \in Users, NEW s \in Sessions, StartDelete(r, v, s)
      PROVE  Same
  BY <1>10 DEF StartDelete, Same, Stage, Wanted
<1>11. ASSUME NEW r \in Requests, ListForDelete(r)
      PROVE  Same
  BY <1>11 DEF ListForDelete, Same, Stage, Wanted
<1>12. ASSUME NEW r \in Requests, DeleteJob(r)
      PROVE  \E s \in Sessions : Forward(s)
  <2>1. PICK s \in Sessions : s = sid[r]
    BY <1>12 DEF DeleteJob
  <2>2. Forward(s)
    BY <1>12, <2>1 DEF DeleteJob, Forward, Stage, Wanted
  <2> QED
    BY <2>2
<1>13. ASSUME NEW r \in Requests, DeleteObject(r, "deleteIngress", "ingressroute", "deleteService")
      PROVE  Same
  BY <1>13 DEF DeleteObject, Same, Stage, Wanted
<1>14. ASSUME NEW r \in Requests, DeleteObject(r, "deleteService", "service", "deleteMiddleware")
      PROVE  Same
  BY <1>14 DEF DeleteObject, Same, Stage, Wanted
<1>15. ASSUME NEW r \in Requests, DeleteObject(r, "deleteMiddleware", "middleware", "ok")
      PROVE  Same
  BY <1>15 DEF DeleteObject, Same, Stage, Wanted
<1>16. ASSUME NEW r \in Requests, Crash(r)
      PROVE  Same \/ \E s \in Sessions : Forward(s)
  <2>1. CASE op[r] = "post" /\ pc[r] = "createJob"
    <3>1. sid[r] \in Sessions
      BY <2>1
    <3>2. Forward(sid[r])
      BY <1>16, <2>1, AbandonedIsOver DEF Crash
    <3> QED
      BY <3>1, <3>2
  <2>2. CASE ~(op[r] = "post" /\ pc[r] = "createJob")
    BY <1>16, <2>2 DEF Crash, Same, Stage, Wanted
  <2> QED
    BY <2>1, <2>2
<1>17. ASSUME NEW r \in Requests, Forget(r)
      PROVE  Same
  BY <1>17 DEF Forget, Same, Stage, Wanted
<1>18. ASSUME NEW s \in Sessions, ForgetSession(s)
      PROVE  [Contract!Next]_<<owner, Stage>>
  <2>1. Stage[s] = "over" /\ Stage'[s] = "unused"
    BY <1>18 DEF ForgetSession, Stage
  <2>2. \A q \in Sessions \ {s} : Stage'[q] = Stage[q]
    BY <1>18 DEF ForgetSession, Stage, Wanted
  <2>3. Stage' = [Stage EXCEPT ![s] = "unused"]
    BY <2>1, <2>2, OneChanges
  <2>4. owner' = [owner EXCEPT ![s] = NoUser]
    BY <1>18 DEF ForgetSession
  <2>5. Contract!Release(s)
    BY <2>1, <2>3, <2>4 DEF Stage, Contract!Release, Contract!Become
  <2> QED
    BY <2>5 DEF Contract!Next
<1>19. ASSUME NEW s \in Sessions, Unsuspend(s)
      PROVE  Same
  BY <1>19 DEF Unsuspend, Same, Stage, Wanted
<1>20. ASSUME NEW s \in Sessions, Preempt(s)
      PROVE  Same
  BY <1>20 DEF Preempt, Same, Stage, Wanted
<1>21. ASSUME NEW s \in Sessions, StartPod(s)
      PROVE  Same
  BY <1>21 DEF StartPod, Same, Stage, Wanted
<1>22. ASSUME NEW s \in Sessions, RunPod(s)
      PROVE  Same
  BY <1>22 DEF RunPod, Same, Stage, Wanted
<1>23. ASSUME NEW s \in Sessions, Evict(s)
      PROVE  Same
  BY <1>23 DEF Evict, Same, Stage, Wanted
<1>24. ASSUME NEW s \in Sessions, Succeed(s)
      PROVE  Forward(s)
  BY <1>24 DEF Succeed, Forward, Stage, Wanted
<1>25. ASSUME NEW s \in Sessions, Expire(s)
      PROVE  Forward(s)
  BY <1>25 DEF Expire, Forward, Stage, Wanted
<1>26. ASSUME NEW s \in Sessions, RemoveFinished(s)
      PROVE  Same
  BY <1>26 DEF RemoveFinished, Same, Stage, Wanted
<1>27. ASSUME NEW s \in Sessions, CollectPods(s)
      PROVE  Same
  BY <1>27 DEF CollectPods, Same, Stage, Wanted
<1>28. ASSUME NEW s \in Sessions, PodGone(s)
      PROVE  Same
  BY <1>28 DEF PodGone, Same, Stage, Wanted
<1>29. ASSUME NEW s \in Sessions, CollectObjects(s)
      PROVE  Same
  BY <1>29 DEF CollectObjects, Same, Stage, Wanted
<1>30. CASE UNCHANGED vars
  BY <1>30 DEF vars, Stage
<1> QED
  BY <1>1, <1>2, <1>3, <1>4, <1>5, <1>6, <1>7, <1>8, <1>9, <1>10, <1>11, <1>12, <1>13,
  <1>14, <1>15, <1>16, <1>17, <1>18, <1>19, <1>20, <1>21, <1>22, <1>23, <1>24, <1>25,
  <1>26, <1>27, <1>28, <1>29, <1>30, ForwardStep
  DEF Same, Next, Post, Delete, Kubernetes

\* The handlers implement the contract: a session never changes hands, is connectable
\* from when it has its service and ingress until it is over, and does not come back,
\* whatever crashes and whichever calls fail; a session is over, too, when a DELETE
\* could not delete its job.
THEOREM Implementation == Spec => KeepsContract
<1>1. Init => Contract!Init
  BY DEF Init, Contract!Init, Stage
<1>2. IInv /\ [Next]_vars => [Contract!Next]_<<owner, Stage>>
  BY ContractStep DEF IInv
<1> QED
  BY <1>1, <1>2, Invariance, PTL DEF Spec, KeepsContract, Contract!Spec
=============================================================================
