------------------------------ MODULE RenewalProofs ------------------------------
(* What a renewal gives, for any number of renewals, jobs and seconds.  *)
EXTENDS Renewal, TLAPS

\* Nothing comes from the future.
Past ==
    /\ \A r \in Requests : since[r] <= now /\ floor[r] <= since[r]
    /\ \A j \in Jobs : start[j] <= now
    /\ \A r \in Requests, j \in Jobs : listed[r][j] <= now

\* Every deadline covers the configured expiry, the launched and the patched ones.
LongEnough == \A j \in Jobs : deadline[j] >= Expiry

\* No renewal that is running came before the floor of any other.
Floors == \A r, q \in Requests :
            pc[r] # "idle" /\ pc[q] \in Running => floor[r] <= since[q]

\* A job's time runs from the start a renewal was told, or, once suspended and
\* resumed, from a later one.
Listed == \A r \in Requests : \A j \in todo[r] :
            pc[r] \in {"read", "patch"} /\ job[j] \in Live => listed[r][j] <= start[j]

\* The deadline about to be set ends the job no sooner than the renewal promises.
Offer == \A r \in Requests :
            pc[r] = "patch" => /\ cur[r] \in todo[r]
                               /\ new[r] >= Expiry
                               /\ new[r] + listed[r][cur[r]] >= since[r] + Expiry

\* What RenewalHolds says of an answered renewal holds of a running one for the jobs
\* it is done with.
Done == \A r \in Requests \ lost : \A j \in covered[r] \ todo[r] :
            pc[r] \in {"read", "patch", "ok"} /\ job[j] \in Live
                => start[j] + deadline[j] >= floor[r] + Expiry

Over == \A r \in Requests : pc[r] = "ok" => todo[r] = {}

Inv == TypeOK /\ Past /\ LongEnough /\ Floors /\ Listed /\ Offer /\ Done /\ Over

\* Nothing has been listed, offered or done.
LEMMA InvInit == Init => Inv
BY RenewalAssumption
DEF Init, Inv, TypeOK, Past, LongEnough, Floors, Listed, Offer, Done, Over, Running, Live

\* The handler's steps keep the invariant.
LEMMA HandlerStep == ASSUME Inv, NEW r \in Requests, Handler(r) PROVE Inv'
<1> USE RenewalAssumption
    DEF Inv, TypeOK, Past, LongEnough, Floors, Listed, Offer, Done, Over, Running, Live,
        Goto, jobVars, handlerVars
<1>1. CASE StartRenew(r)
  BY <1>1 DEF StartRenew, Others
<1>2. ASSUME pc[r] \in Running, Fail(r) PROVE Inv'
  <2>1. TypeOK'
    BY <1>2 DEF Fail
  <2>2. Past'
    BY <1>2 DEF Fail
  <2>3. LongEnough'
    BY <1>2 DEF Fail
  <2>4. Floors'
    BY <1>2 DEF Fail
  <2>5. Listed'
    BY <1>2 DEF Fail
  <2>6. Offer'
    BY <1>2 DEF Fail
  <2>7. Done'
    BY <1>2 DEF Fail
  <2>8. Over'
    BY <1>2 DEF Fail
  <2> QED
    BY <2>1, <2>2, <2>3, <2>4, <2>5, <2>6, <2>7, <2>8
<1> DEFINE active == {j \in Jobs : job[j] = "active"}
<1> DEFINE Told == /\ pc[r] = "list" /\ active # {}
                   /\ todo' = [todo EXCEPT ![r] = active]
                   /\ covered' = [covered EXCEPT ![r] = active]
                   /\ listed' = [listed EXCEPT ![r] = [j \in Jobs |-> IF j \in active THEN start[j] ELSE 0]]
                   /\ Goto(r, "read")
                   /\ UNCHANGED <<now, jobVars, cur, new, since, floor, lost>>
<1>3. ASSUME Told PROVE Inv'
  <2>1. TypeOK'
    BY <1>3 DEF Running
  <2>2. Past'
    BY <1>3 DEF Running
  <2>3. LongEnough'
    BY <1>3 DEF Running
  <2>4. Floors'
    BY <1>3 DEF Running
  <2>5. Listed'
    BY <1>3 DEF Running
  <2>6. Offer'
    BY <1>3 DEF Running
  <2>7. Done'
    BY <1>3 DEF Running
  <2>8. Over'
    BY <1>3 DEF Running
  <2> QED
    BY <2>1, <2>2, <2>3, <2>4, <2>5, <2>6, <2>7, <2>8
<1>9. CASE List(r)
  <2>1. Told \/ (pc[r] \in Running /\ Fail(r))
    BY <1>9 DEF List
  <2> QED
    BY <2>1, <1>2, <1>3
<1>4. ASSUME NEW j \in Jobs, Compute(r, j) PROVE Inv'
  BY <1>4 DEF Compute, NeedsMore, Remaining
<1>5. ASSUME NEW j \in Jobs, Skip(r, j) PROVE Inv'
  BY <1>5 DEF Skip, NeedsMore, Remaining, NextJob
<1>6. ASSUME NEW j \in Jobs, ComputeFails(r, j) PROVE Inv'
  BY <1>2, <1>6 DEF ComputeFails
<1>7. CASE Patch(r)
  <2>1. TypeOK'
    BY <1>7 DEF Patch, NextJob
  <2>2. Past'
    BY <1>7 DEF Patch, NextJob
  <2>3. LongEnough'
    BY <1>7 DEF Patch, NextJob
  <2>4. Floors'
    BY <1>7 DEF Patch, NextJob
  <2>5. Listed'
    BY <1>7 DEF Patch, NextJob
  <2>6. Offer'
    BY <1>7 DEF Patch, NextJob
  <2>7. Done'
    <3> SUFFICES ASSUME NEW q \in Requests \ lost', NEW j \in covered'[q] \ todo'[q],
                        pc'[q] \in {"read", "patch", "ok"}, job'[j] \in Live
                 PROVE  start'[j] + deadline'[j] >= floor'[q] + Expiry
      OBVIOUS
    <3>1. CASE deadline'[j] = deadline[j] /\ (q # r \/ j # cur[r])
      BY <1>7, <3>1 DEF Patch, NextJob
    <3>2. CASE j = cur[r] /\ deadline'[j] = new[r]
      <4>1. start[j] >= listed[r][j] /\ new[r] + listed[r][j] >= since[r] + Expiry
        BY <1>7, <3>2 DEF Patch
      <4>2. floor[q] <= since[r]
        BY <1>7 DEF Patch, NextJob
      <4>3. start'[j] = start[j] /\ floor'[q] = floor[q]
        BY <1>7 DEF Patch
      <4>4. j \in Jobs
        BY <1>7, <3>2 DEF Patch
      <4>5. /\ start[j] \in Nat /\ listed[r][j] \in Nat /\ new[r] \in Nat
            /\ since[r] \in Nat /\ floor[q] \in Nat
        BY <4>4
      <4> QED
        BY <3>2, <4>1, <4>2, <4>3, <4>5
    <3> QED
      BY <1>7, <3>1, <3>2 DEF Patch, NextJob
  <2>8. Over'
    BY <1>7 DEF Patch, NextJob
  <2> QED
    BY <2>1, <2>2, <2>3, <2>4, <2>5, <2>6, <2>7, <2>8
<1>8. CASE Crash(r)
  BY <1>2, <1>8 DEF Crash
<1> QED
  BY <1>1, <1>9, <1>4, <1>5, <1>6, <1>7, <1>8 DEF Handler

\* The clock, the job controller and Kueue keep the invariant.
LEMMA EnvironmentStep == Inv /\ Environment => Inv'
<1> SUFFICES ASSUME Inv, Environment PROVE Inv'
  OBVIOUS
<1> USE RenewalAssumption
    DEF Inv, TypeOK, Past, LongEnough, Floors, Listed, Offer, Done, Over, Running, Live,
        jobVars, handlerVars
<1>1. CASE Tick
  BY <1>1 DEF Tick
<1>2. ASSUME NEW j \in Jobs, Resume(j) PROVE Inv'
  BY <1>2 DEF Resume
<1>3. ASSUME NEW j \in Jobs, Suspend(j) PROVE Inv'
  <2>1. TypeOK'
    BY <1>3 DEF Suspend
  <2>2. Past'
    BY <1>3 DEF Suspend
  <2>3. LongEnough'
    BY <1>3 DEF Suspend
  <2>4. Floors'
    BY <1>3 DEF Suspend
  <2>5. Listed'
    BY <1>3 DEF Suspend
  <2>6. Offer'
    BY <1>3 DEF Suspend
  <2>7. Done'
    BY <1>3 DEF Suspend
  <2>8. Over'
    BY <1>3 DEF Suspend
  <2> QED
    BY <2>1, <2>2, <2>3, <2>4, <2>5, <2>6, <2>7, <2>8
<1>5. ASSUME NEW j \in Jobs, Expire(j) PROVE Inv'
  <2>1. TypeOK'
    BY <1>5 DEF Expire
  <2>2. Past'
    BY <1>5 DEF Expire
  <2>3. LongEnough'
    BY <1>5 DEF Expire
  <2>4. Floors'
    BY <1>5 DEF Expire
  <2>5. Listed'
    BY <1>5 DEF Expire
  <2>6. Offer'
    BY <1>5 DEF Expire
  <2>7. Done'
    BY <1>5 DEF Expire
  <2>8. Over'
    BY <1>5 DEF Expire
  <2> QED
    BY <2>1, <2>2, <2>3, <2>4, <2>5, <2>6, <2>7, <2>8
<1>6. ASSUME NEW j \in Jobs, Remove(j) PROVE Inv'
  <2>1. TypeOK'
    BY <1>6 DEF Remove
  <2>2. Past'
    BY <1>6 DEF Remove
  <2>3. LongEnough'
    BY <1>6 DEF Remove
  <2>4. Floors'
    BY <1>6 DEF Remove
  <2>5. Listed'
    BY <1>6 DEF Remove
  <2>6. Offer'
    BY <1>6 DEF Remove
  <2>7. Done'
    BY <1>6 DEF Remove
  <2>8. Over'
    BY <1>6 DEF Remove
  <2> QED
    BY <2>1, <2>2, <2>3, <2>4, <2>5, <2>6, <2>7, <2>8
<1>4. ASSUME NEW j \in Jobs, LosePod(j) \/ NewPod(j) PROVE Inv'
  <2>1. TypeOK'
    BY <1>4 DEF LosePod, NewPod
  <2>2. Past'
    BY <1>4 DEF LosePod, NewPod
  <2>3. LongEnough'
    BY <1>4 DEF LosePod, NewPod
  <2>4. Floors'
    BY <1>4 DEF LosePod, NewPod
  <2>5. Listed'
    BY <1>4 DEF LosePod, NewPod
  <2>6. Offer'
    BY <1>4 DEF LosePod, NewPod
  <2>7. Done'
    BY <1>4 DEF LosePod, NewPod
  <2>8. Over'
    BY <1>4 DEF LosePod, NewPod
  <2> QED
    BY <2>1, <2>2, <2>3, <2>4, <2>5, <2>6, <2>7, <2>8
<1> QED
  BY <1>1, <1>2, <1>3, <1>4, <1>5, <1>6 DEF Environment

\* No step of a renewal or of its surroundings disturbs the invariant.
LEMMA InvStep == Inv /\ [Next]_vars => Inv'
<1> SUFFICES ASSUME Inv, [Next]_vars PROVE Inv'
  OBVIOUS
<1>1. CASE UNCHANGED vars
  BY <1>1 DEF vars, Inv, TypeOK, Past, LongEnough, Floors, Listed, Offer, Done, Over,
              Running, Live
<1> QED
  BY HandlerStep, EnvironmentStep, <1>1 DEF Next

\* A renewal answered with success keeps each job it was told for Expiry seconds from
\* the time the earliest renewal running with it came, whatever happens afterwards.
THEOREM RenewalHoldsAlways == Spec => []RenewalHolds
<1>1. Inv => RenewalHolds
  BY DEF Inv, Done, Over, RenewalHolds
<1> QED
  BY InvInit, InvStep, <1>1, PTL DEF Spec

\* The variables have the values that the module says.
THEOREM TypeCorrect == Spec => []TypeOK
<1>1. Inv => TypeOK
  BY DEF Inv
<1> QED
  BY InvInit, InvStep, <1>1, PTL DEF Spec

-----------------------------------------------------------------------------
(* The lease.                                                              *)

\* What is promised changes only with the answers of renewals.
LEMMA PromisedSame ==
    ASSUME Granted' = Granted,
           \A r \in Granted : floor'[r] = floor[r] /\ covered'[r] = covered[r]
    PROVE  Promised' = Promised
<1>1. ASSUME NEW j \in Jobs
      PROVE  {floor'[r] + Expiry : r \in {q \in Granted' : j \in covered'[q]}}
                 = {floor[r] + Expiry : r \in {q \in Granted : j \in covered[q]}}
  OBVIOUS
<1> QED
  BY <1>1 DEF Promised

\* An answer adds one time to what the jobs it covers were promised.
LEMMA PromisedMore ==
    ASSUME NEW r \in Requests, Granted' = Granted \cup {r},
           UNCHANGED <<floor, covered>>
    PROVE  Promised' = [j \in Jobs |-> IF j \in covered[r]
                                       THEN Promised[j] \cup {floor[r] + Expiry}
                                       ELSE Promised[j]]
<1>1. ASSUME NEW j \in Jobs
      PROVE  {floor'[q] + Expiry : q \in {p \in Granted' : j \in covered'[p]}}
                 = IF j \in covered[r] THEN Promised[j] \cup {floor[r] + Expiry} ELSE Promised[j]
  <2>1. Promised[j] = {floor[q] + Expiry : q \in {p \in Granted : j \in covered[p]}}
    BY DEF Promised
  <2> QED
    BY <2>1
<1> QED
  BY <1>1 DEF Promised

\* The last step of a renewal is a promise, and the others do not show.
LEMMA NextJobPromises ==
    ASSUME Inv, NEW r \in Requests, NEW j \in Jobs, pc[r] \in {"read", "patch"}, j \in todo[r],
           NextJob(r, j), \/ lost' = lost \/ lost' = lost \cup {r},
           UNCHANGED <<now, job, covered, floor>>
    PROVE  [Lease!Next]_<<now, LeaseState, Promised>>
<1>1. LeaseState' = LeaseState
  BY DEF LeaseState
<1>2. r \notin Granted
  BY DEF Granted
<1>3. \A q \in Requests \ {r} : pc'[q] = pc[q] /\ (q \in lost' <=> q \in lost)
  BY DEF NextJob, Goto, Inv, TypeOK
<1>4. CASE r \notin Granted'
  <2>1. Granted' = Granted
    BY <1>2, <1>3, <1>4 DEF Granted
  <2>2. Promised' = Promised
    BY <2>1, PromisedSame
  <2> QED
    BY <1>1, <2>2
<1>5. CASE r \in Granted'
  <2>1. Granted' = Granted \cup {r}
    BY <1>2, <1>3, <1>5 DEF Granted
  <2>2. covered[r] \in SUBSET Jobs /\ floor[r] + Expiry \in 0..(now + Expiry)
    BY RenewalAssumption DEF Inv, TypeOK, Past
  <2>3. Lease!Promise(covered[r], floor[r] + Expiry)
    BY <1>1, <2>1, PromisedMore DEF Lease!Promise
  <2> QED
    BY <2>2, <2>3 DEF Lease!Next
<1> QED
  BY <1>4, <1>5

\* Every step of a renewal is a promise or does not show in the lease.
LEMMA HandlerLease ==
    ASSUME Inv, NEW r \in Requests, Handler(r)
    PROVE  [Lease!Next]_<<now, LeaseState, Promised>>
<1> DEFINE Same == now' = now /\ LeaseState' = LeaseState /\ Promised' = Promised
<1>1. CASE StartRenew(r)
  <2>1. Granted' = Granted /\ \A q \in Granted : floor'[q] = floor[q] /\ covered'[q] = covered[q]
    BY <1>1 DEF StartRenew, Granted, Goto, handlerVars, Inv, TypeOK
  <2>2. now' = now /\ LeaseState' = LeaseState
    BY <1>1 DEF StartRenew, jobVars, LeaseState
  <2> QED
    BY <2>1, <2>2, PromisedSame
<1>2. ASSUME pc[r] \in Running, Fail(r) PROVE Same
  <2>1. Granted' = Granted /\ \A q \in Granted : floor'[q] = floor[q] /\ covered'[q] = covered[q]
    BY <1>2 DEF Fail, Granted, Goto, Running, Inv, TypeOK
  <2>2. now' = now /\ LeaseState' = LeaseState
    BY <1>2 DEF Fail, jobVars, LeaseState
  <2> QED
    BY <2>1, <2>2, PromisedSame
<1>3. ASSUME NEW S, pc[r] = "list", covered' = [covered EXCEPT ![r] = S], Goto(r, "read"),
             UNCHANGED <<now, jobVars, floor, lost>>
      PROVE  Same
  <2>1. Granted' = Granted /\ \A q \in Granted : floor'[q] = floor[q] /\ covered'[q] = covered[q]
    BY <1>3 DEF Granted, Goto, Inv, TypeOK
  <2>2. now' = now /\ LeaseState' = LeaseState
    BY <1>3 DEF jobVars, LeaseState
  <2> QED
    BY <2>1, <2>2, PromisedSame
<1>4. CASE List(r)
  BY <1>2, <1>3, <1>4 DEF List, Running
<1>5. ASSUME NEW j \in Jobs, Compute(r, j) PROVE Same
  <2>1. Granted' = Granted /\ UNCHANGED <<now, job, floor, covered>>
    BY <1>5 DEF Compute, Granted, Goto, jobVars, Inv, TypeOK
  <2> QED
    BY <2>1, PromisedSame DEF LeaseState
<1>6. ASSUME NEW j \in Jobs, Skip(r, j) PROVE [Lease!Next]_<<now, LeaseState, Promised>>
  BY <1>6, NextJobPromises DEF Skip, jobVars
<1>7. ASSUME NEW j \in Jobs, ComputeFails(r, j) PROVE Same
  BY <1>2, <1>7 DEF ComputeFails, Running
<1>8. CASE Patch(r)
  <2>1. cur[r] \in todo[r] /\ cur[r] \in Jobs
    BY <1>8 DEF Patch, Inv, Offer, TypeOK
  <2> QED
    BY <1>8, <2>1, NextJobPromises DEF Patch
<1>9. CASE Crash(r)
  BY <1>2, <1>9 DEF Crash
<1> QED
  BY <1>1, <1>4, <1>5, <1>6, <1>7, <1>8, <1>9 DEF Handler

\* A change of one job is a change of one job in the lease.
LEMMA OneJob ==
    ASSUME NEW j \in Jobs, NEW k, NEW x, TypeOK, job' = [job EXCEPT ![j] = k],
           LeaseState'[j] = x
    PROVE  LeaseState' = [LeaseState EXCEPT ![j] = x]
<1>1. \A i \in Jobs \ {j} : LeaseState'[i] = LeaseState[i]
  BY DEF LeaseState, TypeOK
<1>2. LeaseState = [i \in Jobs |-> LeaseState[i]]
  BY DEF LeaseState
<1>3. LeaseState' = [i \in Jobs |-> LeaseState'[i]]
  BY DEF LeaseState
<1>4. [LeaseState EXCEPT ![j] = x] = [i \in Jobs |-> IF i = j THEN x ELSE LeaseState[i]]
  BY <1>2
<1> QED
  BY <1>1, <1>3, <1>4

\* A job ends by its deadline after all that was promised, and whatever else happens to
\* it takes no promise back.
LEMMA EnvironmentLease ==
    ASSUME Inv, Environment
    PROVE  [Lease!Next]_<<now, LeaseState, Promised>>
<1>1. UNCHANGED <<pc, floor, covered, lost>>
  BY DEF Environment, Tick, Resume, Suspend, LosePod, NewPod, Expire, Remove, handlerVars
<1>2. Promised' = Promised
  BY <1>1, PromisedSame DEF Granted
<1>3. TypeOK
  BY DEF Inv
<1>4. CASE Tick
  BY <1>2, <1>4 DEF Tick, jobVars, LeaseState, Lease!Next, Lease!Tick
<1>5. ASSUME NEW j \in Jobs, NEW x, LeaseState' = [LeaseState EXCEPT ![j] = x], now' = now
      PROVE  Lease!Become(j, x)
  BY <1>2, <1>5 DEF Lease!Become
<1>6. ASSUME NEW j \in Jobs, Resume(j) PROVE Lease!Run(j)
  <2>1. LeaseState[j] = "waiting" /\ LeaseState'[j] = "running"
    BY <1>3, <1>6 DEF Resume, LeaseState, Live, TypeOK
  <2> QED
    BY <1>3, <1>5, <1>6, <2>1, OneJob DEF Resume, Lease!Run
<1>7. ASSUME NEW j \in Jobs, Suspend(j) PROVE Lease!Suspend(j)
  <2>1. LeaseState[j] = "running" /\ LeaseState'[j] = "waiting"
    BY <1>3, <1>7 DEF Suspend, LeaseState, Live, TypeOK
  <2> QED
    BY <1>3, <1>5, <1>7, <2>1, OneJob DEF Suspend, Lease!Suspend
<1>8. ASSUME NEW j \in Jobs, LosePod(j) \/ NewPod(j) PROVE now' = now /\ LeaseState' = LeaseState
  BY <1>3, <1>8 DEF LosePod, NewPod, LeaseState, Live, TypeOK
<1>9. ASSUME NEW j \in Jobs, Expire(j) PROVE Lease!End(j)
  <2>1. LeaseState[j] = "running" /\ LeaseState'[j] = "ended"
    BY <1>3, <1>9 DEF Expire, LeaseState, Live, TypeOK
  <2>2. ASSUME NEW r \in Granted, j \in covered[r] PROVE floor[r] + Expiry <= now
    <3>1. start[j] + deadline[j] >= floor[r] + Expiry /\ start[j] + deadline[j] <= now
      BY <1>9, <2>2 DEF Inv, Done, Over, Granted, Expire
    <3>2. /\ start[j] \in Nat /\ deadline[j] \in Nat /\ floor[r] \in Nat /\ now \in Nat
          /\ Expiry \in Nat
      BY RenewalAssumption DEF Inv, TypeOK, Granted
    <3> QED
      BY <3>1, <3>2
  <2>3. \A t \in Promised[j] : t <= now
    BY <2>2 DEF Promised
  <2> QED
    BY <1>3, <1>5, <1>9, <2>1, <2>3, OneJob DEF Expire, Lease!End
<1>10. ASSUME NEW j \in Jobs, Remove(j) PROVE Lease!Delete(j)
  <2>1. LeaseState[j] # "deleted" /\ LeaseState'[j] = "deleted"
    BY <1>3, <1>10 DEF Remove, LeaseState, Live, Inv, TypeOK
  <2>2. LeaseState' = [LeaseState EXCEPT ![j] = "deleted"]
    BY <1>3, <1>10, <2>1, OneJob DEF Remove
  <2>3. Lease!Become(j, "deleted")
    BY <1>5, <1>10, <2>2 DEF Remove
  <2> QED
    BY <2>1, <2>3 DEF Lease!Delete
<1> QED
  BY <1>2, <1>4, <1>6, <1>7, <1>8, <1>9, <1>10 DEF Environment, Lease!Next

\* For any number of renewals, jobs and seconds, the handlers implement the lease: no
\* job ends by its deadline before a time it was promised, and no promise is taken back.
THEOREM LeaseImplemented == Spec => KeepsPromises
<1>1. Init => Lease!Init
  <2> SUFFICES ASSUME Init PROVE Lease!Init
    OBVIOUS
  <2>1. Granted = {}
    BY DEF Init, Granted
  <2>2. Promised = [j \in Jobs |-> {}]
    BY <2>1 DEF Promised
  <2>3. LeaseState = [j \in Jobs |-> "waiting"]
    BY DEF Init, LeaseState
  <2> QED
    BY <2>2, <2>3 DEF Init, Lease!Init
<1>2. Inv /\ [Next]_vars => [Lease!Next]_<<now, LeaseState, Promised>>
  <2> SUFFICES ASSUME Inv, [Next]_vars PROVE [Lease!Next]_<<now, LeaseState, Promised>>
    OBVIOUS
  <2>1. CASE UNCHANGED vars
    BY <2>1 DEF vars, jobVars, handlerVars, LeaseState, Promised, Granted
  <2> QED
    BY <2>1, HandlerLease, EnvironmentLease DEF Next
<1> QED
  BY <1>1, <1>2, InvInit, InvStep, PTL DEF Spec, KeepsPromises, Lease!Spec
=============================================================================
