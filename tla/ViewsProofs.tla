------------------------------- MODULE ViewsProofs -------------------------------
(* What listings and the sidecar of CARTA show of a session, for any number of  *)
(* renewals, jobs, listings and seconds.                                        *)
EXTENDS CartaSidecar, RenewalProofs

-----------------------------------------------------------------------------
(* Listings: the invariant.                                                *)

\* A live pod belongs to an active job, and has started no sooner than it.
Pods == \A j \in Jobs : podStart[j] # NONE => job[j] = "active" /\ podStart[j] >= start[j]

\* Renewals that were answered stay so.
Answered == \A l \in Readers : \A r \in before[l] : pc[r] = "ok" /\ r \notin lost

\* A listing has nothing before its first call, and deadlines after its second.
Told == \A l \in Readers :
    /\ view[l] = "idle" => before[l] = {} /\ \A j \in Jobs : row[l][j] = {}
    /\ \A j \in Jobs : jobExpiryTimes[l][j] # NONE => view[l] = "shown"

\* What the rows of j in listing l that count and the deadline d add up to is no less
\* than what renewals gave that were answered before l came.
Enough(l, j, d) ==
    \A t \in (row[l][j] \ {NONE}) \ stale[l][j], r \in before[l] :
        j \in covered[r] => t + d >= floor[r] + Expiry

\* The present deadline is enough, and so is one about to be set, by any renewal.
Owed == \A l \in Readers, j \in Jobs :
    /\ Enough(l, j, deadline[j])
    /\ \A q \in Requests : pc[q] = "patch" /\ cur[q] = j => Enough(l, j, new[q])

\* Until renewals have overlapped, one runs at a time; it does not lower a deadline;
\* and no shown deadline is taken back.
Alone == ~overlapped =>
    /\ \A r, q \in Requests : pc[r] \in Running /\ pc[q] \in Running => r = q
    /\ \A q \in Requests : pc[q] = "patch" => new[q] >= deadline[cur[q]]
    /\ \A l \in Readers, j \in Jobs :
          jobExpiryTimes[l][j] # NONE => jobExpiryTimes[l][j] <= deadline[j]

ListInv == ListTypeOK /\ Pods /\ Answered /\ Told /\ Owed /\ Alone /\ RenewedIsShown

\* Nothing is listed, promised or overlapped at first.
LEMMA ListInvInit == ListInit => ListInv
<1> SUFFICES ASSUME ListInit PROVE ListInv
  OBVIOUS
<1> USE ListAssumption DEF ListInit, Init
<1>1. ListTypeOK /\ Pods
  BY DEF ListTypeOK, Pods, Time
<1>2. Answered /\ Told
  BY DEF Answered, Told
<1>3. Owed /\ RenewedIsShown
  BY DEF Owed, Enough, RenewedIsShown
<1>4. Alone
  BY DEF Alone, Running
<1> QED
  BY <1>1, <1>2, <1>3, <1>4 DEF ListInv

\* A listing that fails shows nothing.
LEMMA ListFailsStep ==
    ASSUME ListInv, NEW l \in Readers, ListFails(l), view[l] # "shown",
           UNCHANGED <<renewVars, podVars, overlapped>>
    PROVE  ListInv'
<1> USE DEF ListInv, ListTypeOK, ListFails, renewVars, vars, podVars
<1>1. ListTypeOK'
  OBVIOUS
<1>2. Pods' /\ Answered' /\ Told'
  BY DEF Pods, Answered, Told
<1>3. Owed' /\ Alone'
  BY DEF Owed, Enough, Alone, Running
<1>4. RenewedIsShown'
  BY DEF RenewedIsShown, Rows, ExpiryTime
<1> QED
  BY <1>1, <1>2, <1>3, <1>4

\* A listing's own steps keep the invariant.
LEMMA ListPodsStep == ASSUME Inv, ListInv, NEW l \in Readers, ListPods(l) PROVE ListInv'
<1> USE ListAssumption, RenewalAssumption DEF ListInv, ListTypeOK, Time
<1>0. /\ view[l] = "idle" /\ UNCHANGED <<renewVars, podVars, overlapped>>
      /\ jobExpiryTimes' = jobExpiryTimes
  BY DEF ListPods, ListFails
<1>1. CASE /\ view' = [view EXCEPT ![l] = "deadlines"]
           /\ row' = [row EXCEPT ![l] = [j \in Jobs |-> PodStarts(j)]]
           /\ before' = [before EXCEPT ![l] = {r \in Requests \ lost : pc[r] = "ok"}]
           /\ stale' = [stale EXCEPT ![l] = [j \in Jobs |-> OldStarts(j)]]
  <2> USE <1>0, <1>1 DEF renewVars, vars, podVars
  <2>0. \A j \in Jobs : PodStarts(j) \in SUBSET Time /\ OldStarts(j) \in SUBSET Nat
    BY DEF PodStarts, OldStarts
  <2>1. ListTypeOK'
    BY <2>0
  <2>2. Pods' /\ Answered' /\ Told'
    BY DEF Pods, Answered, Told
  <2>3. Owed'
    <3> SUFFICES ASSUME NEW k \in Readers, NEW j \in Jobs,
                        NEW t \in (row'[k][j] \ {NONE}) \ stale'[k][j],
                        NEW r \in before'[k], j \in covered[r]
                 PROVE  /\ t + deadline[j] >= floor[r] + Expiry
                        /\ \A q \in Requests : pc[q] = "patch" /\ cur[q] = j =>
                              t + new[q] >= floor[r] + Expiry
      BY DEF Owed, Enough
    <3>1. CASE k # l
      BY <3>1 DEF Owed, Enough
    <3>2. CASE k = l
      <4>0. t \in (PodStarts(j) \ {NONE}) \ OldStarts(j) /\ t \in Nat
        BY <2>0, <3>2
      <4>1. t >= start[j] /\ job[j] \in Live /\ pc[r] = "ok" /\ r \in Requests \ lost
        <5>1. CASE t \in leftover[j]
          BY <3>2, <4>0, <5>1 DEF OldStarts, Inv, TypeOK
        <5>2. CASE job[j] = "active" /\ t = podStart[j]
          BY <3>2, <4>0, <5>2 DEF Pods, Live
        <5> QED
          BY <4>0, <5>1, <5>2 DEF PodStarts
      <4>2. start[j] + deadline[j] >= floor[r] + Expiry
        BY <4>1 DEF Inv, Done, Over, Live
      <4>3. ASSUME NEW q \in Requests, pc[q] = "patch", cur[q] = j
            PROVE  start[j] + new[q] >= floor[r] + Expiry
        <5>1. /\ j \in todo[q] /\ new[q] + listed[q][j] >= since[q] + Expiry
          BY <4>3 DEF Inv, Offer
        <5>2. listed[q][j] <= start[j]
          BY <4>1, <4>3, <5>1 DEF Inv, Listed, Live
        <5>3. floor[r] <= since[q]
          BY <4>1, <4>3 DEF Inv, Floors, Running
        <5> QED
          BY <5>1, <5>2, <5>3, <4>1 DEF Inv, TypeOK
      <4>4. /\ deadline[j] \in Nat /\ start[j] \in Nat /\ floor[r] \in Nat
            /\ \A q \in Requests : new[q] \in Nat
        BY <4>1 DEF Inv, TypeOK
      <4> QED
        BY <4>0, <4>1, <4>2, <4>3, <4>4
    <3> QED
      BY <3>1, <3>2
  <2>4. Alone'
    BY DEF Alone, Running
  <2>5. RenewedIsShown'
    <3>1. \A j \in Jobs : jobExpiryTimes[l][j] = NONE
      BY DEF Told
    <3>2. ASSUME NEW k \in Readers \ {l}, NEW j \in Jobs
          PROVE  row'[k] = row[k] /\ stale'[k] = stale[k] /\ before'[k] = before[k]
      OBVIOUS
    <3> QED
      BY <3>1, <3>2 DEF RenewedIsShown, Rows, ExpiryTime
  <2> QED
    BY <2>1, <2>2, <2>3, <2>4, <2>5
<1>2. CASE ListFails(l)
  BY <1>0, <1>2, ListFailsStep
<1> QED
  BY <1>1, <1>2 DEF ListPods

\* Its second call shows a sum that is enough by Owed.
LEMMA ShowExpiryStep == ASSUME Inv, ListInv, NEW l \in Readers, ShowExpiry(l) PROVE ListInv'
<1> USE ListAssumption, RenewalAssumption DEF ListInv, ListTypeOK, Time
<1>0. view[l] = "deadlines" /\ UNCHANGED <<renewVars, podVars, overlapped>>
  BY DEF ShowExpiry, ListFails
<1>1. CASE /\ view' = [view EXCEPT ![l] = "shown"]
           /\ jobExpiryTimes' = [jobExpiryTimes EXCEPT ![l] = [j \in Jobs |-> ExpiryOfJob(j)]]
           /\ UNCHANGED <<row, before, stale>>
  <2>1. \A j \in Jobs : ExpiryOfJob(j) # NONE => ExpiryOfJob(j) = deadline[j]
    BY DEF ExpiryOfJob
  <2>2. \A j \in Jobs : deadline[j] \in Nat /\ ExpiryOfJob(j) \in Time
    BY DEF ExpiryOfJob, Inv, TypeOK
  <2> USE <1>0, <1>1, <2>1, <2>2 DEF renewVars, vars, podVars
  <2>3. ListTypeOK'
    OBVIOUS
  <2>4. Pods' /\ Answered' /\ Told' /\ Owed'
    BY DEF Pods, Answered, Told, Owed, Enough
  <2>5. Alone'
    BY DEF Alone, Running
  <2>6. RenewedIsShown'
    BY DEF RenewedIsShown, Rows, ExpiryTime, Owed, Enough
  <2> QED
    BY <2>3, <2>4, <2>5, <2>6
<1>2. CASE view' = [view EXCEPT ![l] = "shown"] /\ UNCHANGED <<row, jobExpiryTimes, before, stale>>
  BY <1>0, <1>2
  DEF renewVars, vars, podVars, Pods, Answered, Told, Owed, Enough, Alone,
      RenewedIsShown, Rows, ExpiryTime, Running
<1>3. CASE ListFails(l)
  BY <1>0, <1>3, ListFailsStep
<1> QED
  BY <1>1, <1>2, <1>3 DEF ShowExpiry

\* So do the steps of jobs, pods and the clock: no row, deadline or renewal changes.
LEMMA PodsStep ==
    ASSUME Inv, ListInv,
           \/ \E j \in Jobs : JobStep(j) \/ StartPod(j) \/ RemovePod(j)
           \/ Tick /\ UNCHANGED listVars
    PROVE  ListInv'
<1> USE ListAssumption DEF ListInv, ListTypeOK, Time
<1>1. /\ UNCHANGED <<deadline, pc, handlerVars, since, floor, lost>>
      /\ UNCHANGED <<readerVars, overlapped>>
  BY DEF JobStep, StartPod, RemovePod, Tick, Suspend, LosePod, Expire, Remove, Resume, NewPod,
         renewVars, vars, jobVars, handlerVars, listVars
<1>2. Answered' /\ Told' /\ Owed' /\ Alone' /\ RenewedIsShown'
  BY <1>1 DEF readerVars, handlerVars, Answered, Told, Rows, ExpiryTime, Owed, Enough, Alone,
             Running, RenewedIsShown
<1>3. ListTypeOK' /\ Pods'
  <2> USE DEF Pods, readerVars
  <2>1. ASSUME NEW j \in Jobs, JobStep(j) PROVE ListTypeOK' /\ Pods'
    <3>1. CASE (Suspend(j) \/ LosePod(j) \/ Expire(j) \/ Remove(j)) /\ PodEnds(j)
      <4>1. PodStarts(j) \in SUBSET Time
        BY DEF PodStarts
      <4> QED
        BY <3>1, <4>1, <1>1 DEF PodEnds, Suspend, LosePod, Expire, Remove, Inv, TypeOK
    <3>2. CASE (Resume(j) \/ NewPod(j)) /\ UNCHANGED podVars
      BY <3>2, <1>1 DEF Resume, NewPod, podVars, Inv, TypeOK
    <3> QED
      BY <2>1, <3>1, <3>2 DEF JobStep
  <2>2. ASSUME NEW j \in Jobs, StartPod(j) PROVE ListTypeOK' /\ Pods'
    BY <2>2, <1>1 DEF StartPod, renewVars, vars, Inv, TypeOK, Past
  <2>3. ASSUME NEW j \in Jobs, RemovePod(j) PROVE ListTypeOK' /\ Pods'
    BY <2>3, <1>1 DEF RemovePod, renewVars, vars
  <2>4. CASE Tick /\ UNCHANGED listVars
    BY <2>4, <1>1 DEF Tick, listVars, podVars, jobVars
  <2> QED
    BY <2>1, <2>2, <2>3, <2>4
<1> QED
  BY <1>2, <1>3

\* What the steps of a renewal do to an invariant about listings: they change no row,
\* and of the renewals that were answered nothing.
LEMMA RenewalSteps ==
    ASSUME Inv, ListInv, NEW r \in Requests, RenewStep(r)
    PROVE  ListInv'
<1> USE ListAssumption DEF ListInv, ListTypeOK, Time
<1>1. /\ Handler(r) /\ UNCHANGED <<podVars, readerVars>>
      /\ overlapped' = (overlapped \/ (pc[r] = "idle" /\ Others(r) # {}))
  BY DEF RenewStep
<1>2. UNCHANGED <<row, jobExpiryTimes, before, stale, view, podStart, leftover>>
  BY <1>1 DEF podVars, readerVars
<1>3. Inv'
  BY <1>1, HandlerStep
<1>4. ListTypeOK'
  BY <1>1, <1>2
<1>5. UNCHANGED <<job, start>>
  BY <1>1 DEF Handler, StartRenew, List, Patch, Crash, Compute, Skip, ComputeFails, Fail, jobVars
<1>6. Pods' /\ Told'
  BY <1>2, <1>5 DEF Pods, Told
<1>7. pc[r] # "ok" /\ \A q \in Requests \ {r} : pc'[q] = pc[q] /\ (q \in lost' <=> q \in lost)
                                  /\ covered'[q] = covered[q] /\ floor'[q] = floor[q]
                                  /\ cur'[q] = cur[q] /\ new'[q] = new[q]
  BY <1>1 DEF Handler, StartRenew, List, Patch, Crash, Compute, Skip, ComputeFails, Fail,
              Goto, NextJob, handlerVars, Inv, TypeOK, Running
<1>9. ASSUME NEW l \in Readers, NEW q \in before[l]
      PROVE  q \in Requests \ {r} /\ covered'[q] = covered[q] /\ floor'[q] = floor[q]
  BY <1>7 DEF Answered
<1>8. Answered' /\ RenewedIsShown'
  <2>1. Answered'
    BY <1>2, <1>7, <1>9 DEF Answered
  <2>2. RenewedIsShown'
    <3> SUFFICES ASSUME NEW l \in Readers, NEW j \in Jobs, NEW t \in Rows(l, j) \ stale[l][j],
                        NEW q \in before[l], j \in covered'[q]
                 PROVE  ExpiryTime(l, j, t) >= floor'[q] + Expiry
      BY <1>2 DEF RenewedIsShown, Rows, ExpiryTime
    <3> QED
      BY <1>9 DEF RenewedIsShown
  <2> QED
    BY <2>1, <2>2
\* The deadline that r sets or is about to set.
<1> DEFINE New(j) == pc'[r] = "patch" /\ cur'[r] = j
<1>10. \/ UNCHANGED deadline
       \/ /\ pc[r] = "patch" /\ pc'[r] # "patch"
          /\ deadline' = [deadline EXCEPT ![cur[r]] = new[r]]
  BY <1>1 DEF Handler, StartRenew, List, Patch, Crash, Compute, Skip, ComputeFails, Fail,
              Goto, NextJob, jobVars, Inv, TypeOK, Running
<1>11. ASSUME pc'[r] = "patch"
       PROVE  /\ pc[r] = "read" /\ cur'[r] \in Jobs /\ UNCHANGED deadline
              /\ new'[r] > deadline[cur'[r]]
  <2>1. PICK j \in Jobs : Compute(r, j)
    BY <1>1, <1>11
    DEF Handler, StartRenew, List, Patch, Crash, Skip, ComputeFails, Fail, Goto, NextJob, Inv, TypeOK
  <2> QED
    BY <1>11, <2>1, RenewalAssumption DEF Compute, NeedsMore, Remaining, Goto, jobVars, Inv, TypeOK
<1>12. /\ deadline \in [Jobs -> Nat] /\ deadline' \in [Jobs -> Nat]
       /\ new \in [Requests -> Nat] /\ new' \in [Requests -> Nat]
       /\ floor \in [Requests -> Nat] /\ Expiry \in Nat
  BY <1>3, RenewalAssumption DEF Inv, TypeOK
<1>13. Owed'
  <2> SUFFICES ASSUME NEW l \in Readers, NEW j \in Jobs,
                      NEW t \in (row[l][j] \ {NONE}) \ stale[l][j],
                      NEW q \in before[l], j \in covered'[q]
               PROVE  /\ t + deadline'[j] >= floor'[q] + Expiry
                      /\ \A p \in Requests : pc'[p] = "patch" /\ cur'[p] = j =>
                            t + new'[p] >= floor'[q] + Expiry
    BY <1>2 DEF Owed, Enough
  <2>0. j \in covered[q] /\ floor'[q] = floor[q]
    BY <1>9
  <2>1. /\ t + deadline[j] >= floor[q] + Expiry
        /\ \A p \in Requests : pc[p] = "patch" /\ cur[p] = j => t + new[p] >= floor[q] + Expiry
    BY <2>0 DEF Owed, Enough
  <2>2. t \in Nat /\ floor[q] \in Nat
    BY <1>9, <1>12
  <2>3. t + deadline'[j] >= floor[q] + Expiry
    BY <1>10, <1>12, <2>1, <2>2
  <2>4. ASSUME NEW p \in Requests, pc'[p] = "patch", cur'[p] = j
        PROVE  t + new'[p] >= floor[q] + Expiry
    <3>1. CASE p = r
      BY <1>11, <1>12, <2>1, <2>2, <2>4, <3>1
    <3>2. CASE p # r
      BY <1>7, <2>1, <2>4, <3>2
    <3> QED
      BY <3>1, <3>2
  <2> QED
    BY <2>0, <2>3, <2>4
<1>14. Alone'
  <2> SUFFICES ASSUME ~overlapped'
               PROVE  /\ \A p, q \in Requests : pc'[p] \in Running /\ pc'[q] \in Running => p = q
                      /\ \A q \in Requests : pc'[q] = "patch" => new'[q] >= deadline'[cur'[q]]
                      /\ \A l \in Readers, j \in Jobs : jobExpiryTimes[l][j] # NONE =>
                            jobExpiryTimes[l][j] <= deadline'[j]
    BY <1>2 DEF Alone
  <2>1. ~overlapped /\ (pc[r] = "idle" => \A q \in Requests \ {r} : pc[q] \notin Running)
    BY <1>1 DEF Others
  <2>2. pc[r] # "idle" => pc[r] \in Running
    BY <1>1 DEF Handler, StartRenew, List, Patch, Crash, Compute, Skip, ComputeFails, Running
  <2>3. \A q \in Requests \ {r} : pc'[q] \notin Running
    BY <1>7, <2>1, <2>2 DEF Alone
  <2>4. pc'[r] = "patch" => new'[r] >= deadline'[cur'[r]]
    BY <1>11, <1>12
  <2>5. \A j \in Jobs : deadline'[j] >= deadline[j]
    <3>1. pc[r] = "patch" => new[r] >= deadline[cur[r]]
      BY <2>1 DEF Alone
    <3> QED
      BY ONLY <1>10, <1>12, <3>1
  <2>6. ASSUME NEW l \in Readers, NEW j \in Jobs, jobExpiryTimes[l][j] # NONE
        PROVE  jobExpiryTimes[l][j] <= deadline'[j]
    BY <1>12, <2>1, <2>5, <2>6 DEF Alone
  <2> QED
    BY <2>3, <2>4, <2>6 DEF Running
<1> QED
  BY <1>4, <1>6, <1>8, <1>13, <1>14

\* No step disturbs what is said of listings.
LEMMA ListInvStep == Inv /\ ListInv /\ [ListNext]_sessionVars => ListInv'
<1> SUFFICES ASSUME Inv, ListInv, [ListNext]_sessionVars PROVE ListInv'
  OBVIOUS
<1>1. CASE UNCHANGED sessionVars
  BY <1>1
  DEF sessionVars, renewVars, vars, listVars, podVars, readerVars, ListInv, ListTypeOK, Time,
      Pods, Answered, Told, Owed, Enough, Alone, RenewedIsShown, Rows, ExpiryTime, Running
<1> QED
  BY <1>1, ListPodsStep, ShowExpiryStep, PodsStep, RenewalSteps DEF ListNext

-----------------------------------------------------------------------------
(* The sidecar: the invariant.                                             *)

\* An entry expires soon after the session was last seen with pods.
SidecarInv ==
    /\ SidecarTypeOK
    /\ seen <= now
    /\ Found # {} => seen = now
    /\ step = "store" => listedAt <= seen
    /\ step # "idle" => answer = "none"
    /\ expires # NONE => expires <= seen + TTL + took
    /\ RefusedOnlyWithoutOwner

\* Renewals, pods and listings go on as they would without the sidecar.
LEMMA SessionStep == ASSUME [ViewsNext]_viewVars PROVE [ListNext]_sessionVars
BY DEF ViewsNext, viewVars

\* And renewals as they would without pods and listings.
LEMMA RenewalStep == ASSUME [ListNext]_sessionVars PROVE [Next]_vars
<1>1. CASE ListNext
  BY <1>1
  DEF ListNext, RenewStep, ListPods, ShowExpiry, JobStep, StartPod, RemovePod, renewVars,
      Next, Environment
<1>2. CASE UNCHANGED sessionVars
  BY <1>2 DEF sessionVars, renewVars
<1> QED
  BY <1>1, <1>2

\* The clock does not go back.
LEMMA Clock == ASSUME Inv, [Next]_vars PROVE now' >= now
BY DEF Next, Environment, Tick, Handler, StartRenew, List, Patch, Crash, Compute, Skip, ComputeFails,
       Fail, Resume, Suspend, LosePod, NewPod, Expire, Remove, vars, Inv, TypeOK

\* The cache is empty and no request has come.
LEMMA SidecarInvInit == ViewsInit => SidecarInv
<1> SUFFICES ASSUME ViewsInit PROVE SidecarInv
  OBVIOUS
<1>1. now = 0 /\ seen = 0 /\ answer = "none" /\ expires = NONE /\ step = "idle"
  BY DEF ViewsInit, ListInit, Init
<1>2. listedAt = 0 /\ took = 0 /\ missing = FALSE /\ owned \subseteq Jobs
  BY DEF ViewsInit
<1>3. SidecarTypeOK
  BY <1>1, <1>2 DEF SidecarTypeOK, Time
<1> QED
  BY <1>1, <1>3 DEF SidecarInv, RefusedOnlyWithoutOwner

\* What is in time for one moment is in time for a later one.
LEMMA Later ==
    ASSUME NEW e \in Nat, NEW a \in Nat, NEW b \in Nat, NEW ttl \in Nat, NEW d \in Nat,
           e <= a + ttl + d, a <= b
    PROVE  e <= b + ttl + d
OBVIOUS

\* The sidecar's steps keep the invariant, and so do those it does not see.
LEMMA SidecarInvStep == ASSUME Inv, Inv', SidecarInv, [ViewsNext]_viewVars PROVE SidecarInv'
<1> USE ListAssumption, SidecarAssumption
    DEF SidecarInv, SidecarTypeOK, RefusedOnlyWithoutOwner, Time
<1>0. now \in Nat /\ now' \in Nat /\ now' >= now
  BY SessionStep, RenewalStep, Clock DEF Inv, TypeOK
<1>1. CASE UNCHANGED viewVars
  BY <1>1
  DEF viewVars, sessionVars, renewVars, vars, listVars, podVars, sidecarVars, podTimeVars, Labelled,
      Found, PodStarts
<1>2. CASE ViewsNext
  <2>1. /\ seen' = IF Found' # {} THEN now' ELSE seen
        /\ missing' = (~Labelled' \/ (missing /\ ~(step = "idle" /\ step' = "check")))
    BY <1>2 DEF ViewsNext
  <2>2. CASE ListNext /\ UNCHANGED sidecarVars
    <3>1. /\ step' = step /\ answer' = answer /\ expires' = expires
          /\ listedAt' = listedAt /\ took' = took /\ owned' = owned
      BY <2>2 DEF sidecarVars
    <3>2. seen' \in Nat /\ seen <= seen' /\ seen' <= now' /\ (Found' # {} => seen' = now')
      BY <1>0, <2>1
    <3>3. missing' \in BOOLEAN /\ (answer = "forbidden" => missing')
      BY <2>1, <3>1
    <3>4. SidecarTypeOK' /\ (answer' = "forbidden" => missing')
      BY <3>1, <3>2, <3>3
    <3>5. ASSUME expires # NONE PROVE expires <= seen' + TTL + took
      <4>1. expires \in Nat /\ expires <= seen + TTL + took
        BY <3>5
      <4>2. seen \in Nat /\ took \in Nat /\ TTL \in Nat
        OBVIOUS
      <4>3. seen' \in Nat /\ seen <= seen'
        BY <3>2
      <4> QED
        BY ONLY <4>1, <4>2, <4>3, Later
    <3>6. step = "store" => listedAt <= seen'
      BY <3>2
    <3> QED
      BY <3>1, <3>2, <3>4, <3>5, <3>6
  <2>3. CASE Sidecar /\ UNCHANGED sessionVars
    <3>0. owned' = owned
      BY <2>3 DEF Sidecar, Request, CheckCache, GetCache, LookupPods, Store, Forget
    <3>1. now' = now /\ Found' = Found /\ (Labelled' <=> Labelled)
      BY <2>3, <3>0 DEF sessionVars, renewVars, vars, listVars, podVars, Labelled, Found, PodStarts
    <3>2. CASE Request
      BY <1>0, <2>1, <3>0, <3>1, <3>2 DEF Request
    <3>3. CASE CheckCache
      BY <1>0, <2>1, <3>0, <3>1, <3>3 DEF CheckCache
    <3>4. CASE GetCache
      BY <1>0, <2>1, <3>0, <3>1, <3>4 DEF GetCache, Answer
    <3>5. CASE LookupPods
      BY <1>0, <2>1, <3>0, <3>1, <3>5 DEF LookupPods, Answer, Labelled
    <3>6. CASE Store
      BY <1>0, <2>1, <3>0, <3>1, <3>6 DEF Store, Answer
    <3>7. CASE Forget
      BY <1>0, <2>1, <3>0, <3>1, <3>7 DEF Forget
    <3> QED
      BY <2>3, <3>2, <3>3, <3>4, <3>5, <3>6, <3>7 DEF Sidecar
  <2> QED
    BY <1>2, <2>2, <2>3 DEF ViewsNext
<1> QED
  BY <1>1, <1>2

-----------------------------------------------------------------------------

\* All invariants together, from the lemmas of this module and of RenewalProofs.
LEMMA AllInvs == ViewsSpec => [](Inv /\ ListInv /\ SidecarInv)
<1>1. ViewsInit => Inv /\ ListInv /\ SidecarInv
  BY InvInit, ListInvInit, SidecarInvInit DEF ViewsInit, ListInit
<1>2. Inv /\ ListInv /\ SidecarInv /\ [ViewsNext]_viewVars => (Inv /\ ListInv /\ SidecarInv)'
  BY SessionStep, RenewalStep, InvStep, ListInvStep, SidecarInvStep
<1> QED
  BY <1>1, <1>2, PTL DEF ViewsSpec

\* Pods, listings and the sidecar only look on: renewals are those of Renewal, and what
\* is proved of them holds here too.
THEOREM RenewalUnchanged == ViewsSpec => Spec
<1>1. ViewsInit => Init
  BY DEF ViewsInit, ListInit
<1>2. [ViewsNext]_viewVars => [Next]_vars
  BY SessionStep, RenewalStep
<1> QED
  BY <1>1, <1>2, PTL DEF ViewsSpec, Spec

\* Who renews and then looks sees it at every pod of the session's present run, whatever
\* else runs.
THEOREM RenewedIsShownAlways == ViewsSpec => []RenewedIsShown
<1>1. ListInv => RenewedIsShown
  BY DEF ListInv
<1> QED
  BY AllInvs, <1>1, PTL

\* Until renewals overlap, a session ends as shown, but for the delay of its pod.
THEOREM EndsAsShownAlways == ViewsSpec => EndsAsShown
<1>1. ASSUME Inv, ListInv, [ViewsNext]_viewVars,
             NEW l \in Readers, NEW j \in Jobs, NEW t \in Rows(l, j),
             job[j] \in Live, job'[j] = "ended", ~overlapped
      PROVE  ExpiryTime(l, j, t) - now <= t - start[j]
  <2>1. [Next]_vars
    BY <1>1, SessionStep, RenewalStep
  <2>2. now >= start[j] + deadline[j]
    BY <1>1, <2>1
    DEF Next, Environment, Tick, Handler, StartRenew, List, Patch, Crash, Compute, Skip,
        ComputeFails, Fail, Resume, Suspend, LosePod, NewPod, Expire, Remove, vars, jobVars,
        Live, Inv, TypeOK
  <2>3. jobExpiryTimes[l][j] # NONE /\ jobExpiryTimes[l][j] <= deadline[j]
    BY <1>1 DEF ListInv, Alone, Rows
  <2>4. t \in Nat /\ jobExpiryTimes[l][j] \in Nat
    BY <1>1, <2>3 DEF ListInv, ListTypeOK, Rows, Time
  <2>5. now \in Nat /\ start[j] \in Nat /\ deadline[j] \in Nat
    BY <1>1 DEF Inv, TypeOK
  <2> QED
    BY <2>2, <2>3, <2>4, <2>5 DEF ExpiryTime
<1>2. Inv /\ ListInv /\ [ViewsNext]_viewVars
        => [\A l \in Readers, j \in Jobs :
              job[j] \in Live /\ job'[j] = "ended" /\ ~overlapped
                  => \A t \in Rows(l, j) : ExpiryTime(l, j, t) - now <= t - start[j]]_sessionVars
  BY <1>1
<1> QED
  BY AllInvs, <1>2, PTL DEF ViewsSpec, EndsAsShown

\* Nobody is served for longer than the TTL after a session's last pod is gone.
THEOREM NotServedLongAlways == ViewsSpec => NotServedLong
<1>1. ASSUME Inv, SidecarInv, [ViewsNext]_viewVars, step # "idle", answer' = "ok",
             ~UNCHANGED viewVars
      PROVE  now < seen + TTL + took'
  <2> USE SidecarAssumption, ListAssumption DEF SidecarInv, SidecarTypeOK, Inv, TypeOK, Time
  <2>1. Sidecar /\ UNCHANGED sessionVars
    BY <1>1 DEF ViewsNext, sidecarVars
  <2>2. CASE GetCache
    BY <1>1, <2>2 DEF GetCache, Answer, InCache
  <2>3. CASE Store
    BY <1>1, <2>3 DEF Store, Answer
  <2>4. CASE Request \/ CheckCache \/ LookupPods \/ Forget
    BY <1>1, <2>4 DEF Request, CheckCache, LookupPods, Forget, Answer
  <2> QED
    BY <2>1, <2>2, <2>3, <2>4 DEF Sidecar
<1> QED
  BY AllInvs, <1>1, PTL DEF ViewsSpec, NotServedLong

\* A session with pods that tell its owner is never refused.
THEOREM RefusedOnlyWithoutOwnerAlways == ViewsSpec => []RefusedOnlyWithoutOwner
<1>1. SidecarInv => RefusedOnlyWithoutOwner
  BY DEF SidecarInv
<1> QED
  BY AllInvs, <1>1, PTL

\* The variables have the values that the modules say.
THEOREM ViewsTypeCorrect == ViewsSpec => []ViewsTypeOK
<1>1. Inv /\ ListInv /\ SidecarInv => ViewsTypeOK
  BY DEF Inv, ListInv, SidecarInv, ViewsTypeOK
<1> QED
  BY AllInvs, <1>1, PTL

\* Beside the readers of its answers, Skaha still keeps the lease that it promises.
THEOREM ViewsKeepPromises == ViewsSpec => KeepsPromises
BY RenewalUnchanged, LeaseImplemented
=============================================================================
