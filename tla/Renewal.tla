--------------------------------- MODULE Renewal ---------------------------------
(***************************************************************************)
(* Renewing a session: POST session/<id>?action=renew.  The handler lists  *)
(* the active jobs of the session with their start times (a desktop shares *)
(* its ID with its desktop-apps), and for each of them reads the deadlines *)
(* again, computes a new activeDeadlineSeconds from the clock, and patches *)
(* the job.  Time passes, jobs end and Kueue suspends and resumes them     *)
(* between any two of these steps, and other renewals of the same session  *)
(* run at the same time.                                                   *)
(***************************************************************************)
EXTENDS Integers

CONSTANTS
    Requests,        \* the renewals of one session
    Jobs,            \* the jobs that carry its session ID
    Expiry,          \* skaha.sessionexpiry
    LaunchDeadline,  \* LaunchDeadline[j]: activeDeadlineSeconds in the job's template
    KubectlMayFail,  \* may a kubectl call fail
    MaxTime,         \* bound on the clock
    NoJob

\* The templates have ${skaha.sessionexpiry}, and launch-headless.yaml two weeks.
ASSUME RenewalAssumption ==
    /\ Expiry \in Nat
    /\ MaxTime \in Nat
    /\ LaunchDeadline \in [Jobs -> Nat]
    /\ \A j \in Jobs : LaunchDeadline[j] >= Expiry
    /\ KubectlMayFail \in BOOLEAN
    /\ NoJob \notin Jobs

VARIABLES
    now,       \* the clock, in seconds
    job,       \* job[j]: "suspended", "active", "replacing" (its pod was lost and
               \*     the next is not there yet), "ended", or "gone" once removed
    start,     \* start[j]: its status.startTime while its time runs, else 0
    deadline,  \* deadline[j]: its activeDeadlineSeconds
    pc,        \* pc[r]: the next step of the handler, or its answer
    todo,      \* todo[r]: the listed jobs it has still to renew
    listed,    \* listed[r][j]: the start time it was told
    covered,   \* covered[r]: the jobs it was told
    cur,       \* cur[r]: the job it is about to patch
    new,       \* new[r]: the activeDeadlineSeconds it is about to set
    since,     \* history: since[r] is the time the request came
    floor,     \* history: the earliest since of the renewals that ran when r came
    lost       \* history: the renewals one of whose patches failed unseen

jobVars == <<job, start, deadline>>
handlerVars == <<todo, listed, covered, cur, new>>
vars == <<now, job, start, deadline, pc, todo, listed, covered, cur, new, since, floor, lost>>

Running == {"list", "read", "patch"}
Live == {"active", "replacing"}

TypeOK ==
    /\ now \in Nat
    /\ job \in [Jobs -> {"suspended", "ended", "gone"} \cup Live]
    /\ start \in [Jobs -> Nat]
    /\ deadline \in [Jobs -> Nat]
    /\ pc \in [Requests -> {"idle", "ok", "failed"} \cup Running]
    /\ todo \in [Requests -> SUBSET Jobs]
    /\ listed \in [Requests -> [Jobs -> Nat]]
    /\ covered \in [Requests -> SUBSET Jobs]
    /\ cur \in [Requests -> Jobs \cup {NoJob}]
    /\ new \in [Requests -> Nat]
    /\ since \in [Requests -> Nat]
    /\ floor \in [Requests -> Nat]
    /\ lost \subseteq Requests

Init ==
    /\ now = 0
    /\ job = [j \in Jobs |-> "suspended"]
    /\ start = [j \in Jobs |-> 0]
    /\ deadline = LaunchDeadline
    /\ pc = [r \in Requests |-> "idle"]
    /\ todo = [r \in Requests |-> {}]
    /\ listed = [r \in Requests |-> [j \in Jobs |-> 0]]
    /\ covered = [r \in Requests |-> {}]
    /\ cur = [r \in Requests |-> NoJob]
    /\ new = [r \in Requests |-> 0]
    /\ since = [r \in Requests |-> 0]
    /\ floor = [r \in Requests |-> 0]
    /\ lost = {}

Goto(r, p) == pc' = [pc EXCEPT ![r] = p]

-----------------------------------------------------------------------------
(* The handler.                                                            *)

Others(r) == {q \in Requests \ {r} : pc[q] \in Running}

StartRenew(r) ==
    /\ pc[r] = "idle"
    /\ Goto(r, "list")
    /\ since' = [since EXCEPT ![r] = now]
    /\ \E m \in {now} \cup {since[q] : q \in Others(r)} :
          /\ \A q \in Others(r) : m <= since[q]
          /\ floor' = [floor EXCEPT ![r] = m]
    /\ UNCHANGED <<now, jobVars, handlerVars, lost>>

\* An exception, or the replica stops: what was patched stays patched.
Fail(r) ==
    /\ Goto(r, "failed")
    /\ todo' = [todo EXCEPT ![r] = {}]
    /\ covered' = [covered EXCEPT ![r] = {}]
    /\ cur' = [cur EXCEPT ![r] = NoJob]
    /\ listed' = [listed EXCEPT ![r] = [j \in Jobs |-> 0]]
    /\ new' = [new EXCEPT ![r] = 0]
    /\ lost' = lost \ {r}
    /\ UNCHANGED <<now, jobVars, since, floor>>

\* getJobsToRenew: the jobs whose status.active is 1.  The error text of a failed kubectl
\* has no job to parse.
List(r) ==
    LET active == {j \in Jobs : job[j] = "active"} IN
    /\ pc[r] = "list"
    /\ \/ /\ active # {}
          /\ todo' = [todo EXCEPT ![r] = active]
          /\ covered' = [covered EXCEPT ![r] = active]
          /\ listed' = [listed EXCEPT ![r] = [j \in Jobs |-> IF j \in active THEN start[j] ELSE 0]]
          /\ Goto(r, "read")
          /\ UNCHANGED <<now, jobVars, cur, new, since, floor, lost>>
       \/ (active = {} \/ KubectlMayFail) /\ Fail(r)

Remaining(r, j) == deadline[j] - (now - listed[r][j])

\* Mutant of NeedsMore: the whole deadline is compared, not what is left of it.
NeedsMoreDeadline(r, j) == Expiry > deadline[j]

\* Mutant of NeedsMore: a renewal never leaves a deadline alone.
RenewsAlways(r, j) == TRUE

NeedsMore(r, j) == Expiry > Remaining(r, j)

\* Mutant of Compute: the time used is taken from now back to the start.
ComputeBackwards(r, j) ==
    /\ pc[r] = "read" /\ j \in todo[r]
    /\ job[j] # "gone" /\ NeedsMore(r, j)
    /\ cur' = [cur EXCEPT ![r] = j]
    /\ new' = [new EXCEPT ![r] = (listed[r][j] - now) + Expiry]
    /\ Goto(r, "patch")
    /\ UNCHANGED <<now, jobVars, todo, listed, covered, since, floor, lost>>

\* calculateExpiryTime: read the deadlines of all the user's jobs again, and
\* compute the deadline that ends the job Expiry seconds from now.
Compute(r, j) ==
    /\ pc[r] = "read" /\ j \in todo[r]
    /\ job[j] # "gone" /\ NeedsMore(r, j)
    /\ cur' = [cur EXCEPT ![r] = j]
    /\ new' = [new EXCEPT ![r] = (now - listed[r][j]) + Expiry]
    /\ Goto(r, "patch")
    /\ UNCHANGED <<now, jobVars, todo, listed, covered, since, floor, lost>>

\* The next job of the loop, or the answer after the last one.
NextJob(r, j) ==
    /\ todo' = [todo EXCEPT ![r] = @ \ {j}]
    /\ cur' = [cur EXCEPT ![r] = NoJob]
    /\ new' = [new EXCEPT ![r] = 0]
    /\ listed' = [listed EXCEPT ![r][j] = 0]
    /\ Goto(r, IF todo[r] = {j} THEN "ok" ELSE "read")

Skip(r, j) ==
    /\ pc[r] = "read" /\ j \in todo[r]
    /\ job[j] # "gone" /\ ~NeedsMore(r, j)
    /\ NextJob(r, j)
    /\ UNCHANGED <<now, jobVars, covered, since, floor, lost>>

\* The job is not in the second list, or there is no second list.
ComputeFails(r, j) ==
    /\ pc[r] = "read" /\ j \in todo[r]
    /\ job[j] = "gone" \/ KubectlMayFail
    /\ Fail(r)

\* kubectl patch of the job; a failure is not seen.
Patch(r) ==
    LET j == cur[r] IN
    /\ pc[r] = "patch"
    /\ \/ /\ job[j] # "gone"
          /\ deadline' = [deadline EXCEPT ![j] = new[r]]
          /\ UNCHANGED lost
       \/ job[j] = "gone" /\ UNCHANGED <<deadline, lost>>
       \/ KubectlMayFail /\ lost' = lost \cup {r} /\ UNCHANGED deadline
    /\ NextJob(r, j)
    /\ UNCHANGED <<now, job, start, covered, since, floor>>

Crash(r) == pc[r] \in Running /\ Fail(r)

Handler(r) ==
    \/ StartRenew(r) \/ List(r) \/ Patch(r) \/ Crash(r)
    \/ \E j \in Jobs : Compute(r, j) \/ Skip(r, j) \/ ComputeFails(r, j)

-----------------------------------------------------------------------------
(* Time, the job controller and Kueue.                                     *)

Tick ==
    /\ now < MaxTime
    /\ now' = now + 1
    /\ UNCHANGED <<jobVars, pc, handlerVars, since, floor, lost>>

\* The job starts, or Kueue lets it run again: its start time is set anew.
Resume(j) ==
    /\ job[j] = "suspended"
    /\ job' = [job EXCEPT ![j] = "active"]
    /\ start' = [start EXCEPT ![j] = now]
    /\ UNCHANGED <<now, deadline, pc, handlerVars, since, floor, lost>>

Suspend(j) ==
    /\ job[j] \in Live
    /\ job' = [job EXCEPT ![j] = "suspended"]
    /\ start' = [start EXCEPT ![j] = 0]
    /\ UNCHANGED <<now, deadline, pc, handlerVars, since, floor, lost>>

\* The pod is evicted, or its node is lost; the job's time runs on.
LosePod(j) ==
    /\ job[j] = "active"
    /\ job' = [job EXCEPT ![j] = "replacing"]
    /\ UNCHANGED <<now, start, deadline, pc, handlerVars, since, floor, lost>>

NewPod(j) ==
    /\ job[j] = "replacing"
    /\ job' = [job EXCEPT ![j] = "active"]
    /\ UNCHANGED <<now, start, deadline, pc, handlerVars, since, floor, lost>>

Expire(j) ==
    /\ job[j] \in Live
    /\ now >= start[j] + deadline[j]
    /\ job' = [job EXCEPT ![j] = "ended"]
    /\ start' = [start EXCEPT ![j] = 0]
    /\ UNCHANGED <<now, deadline, pc, handlerVars, since, floor, lost>>

\* A DELETE, or the TTL of an ended job.
Remove(j) ==
    /\ job[j] # "gone"
    /\ job' = [job EXCEPT ![j] = "gone"]
    /\ start' = [start EXCEPT ![j] = 0]
    /\ UNCHANGED <<now, deadline, pc, handlerVars, since, floor, lost>>

Environment ==
    \/ Tick
    \/ \E j \in Jobs : Resume(j) \/ Suspend(j) \/ LosePod(j) \/ NewPod(j) \/ Expire(j) \/ Remove(j)

Next == Environment \/ \E r \in Requests : Handler(r)

Spec == Init /\ [][Next]_vars

-----------------------------------------------------------------------------

\* What service.yaml says: a renewal applies "to the 'desktop' session as well as all of
\* the 'desktop-app' that share the same sessionID".  So once it is answered with
\* success no running job of the session ends within Expiry seconds of the time it came,
\* or, when other renewals ran at that time, of the time the first of those came.
RenewsAll ==
    \A r \in Requests \ lost : \A j \in Jobs :
        pc[r] = "ok" /\ job[j] \in Live => start[j] + deadline[j] >= floor[r] + Expiry

\* What the code keeps of that.  A job whose pod was lost and is not replaced yet has an
\* active count other than 1 and is passed over in silence (the success is answered all
\* the same, against RenewsAll).  The jobs that were told as active keep what they were
\* given, whatever else runs: renewals that come later, suspensions, lost pods and
\* renewals that stop half way take nothing of it away.
RenewalHolds ==
    \A r \in Requests \ lost : \A j \in covered[r] :
        pc[r] = "ok" /\ job[j] \in Live => start[j] + deadline[j] >= floor[r] + Expiry

(* The lease.                                                              *)

\* The renewals that were answered with success and lost no patch.
Granted == {r \in Requests \ lost : pc[r] = "ok"}

\* What they have promised each job, and what the lease sees of it.
Promised == [j \in Jobs |-> {floor[r] + Expiry : r \in {q \in Granted : j \in covered[q]}}]
LeaseState == [j \in Jobs |-> IF job[j] = "suspended" THEN "waiting"
                              ELSE IF job[j] \in Live THEN "running"
                              ELSE IF job[j] = "gone" THEN "deleted" ELSE "ended"]

Lease == INSTANCE SessionLease WITH state <- LeaseState, promised <- Promised

\* Renewals implement the lease: no job ends by its deadline before the last of the
\* times it was promised, by whichever renewals, although each of them sets the
\* deadline from what it listed a while ago and none knows of the others.
KeepsPromises == Lease!Spec
=============================================================================
