------------------------------- MODULE SessionList -------------------------------
(***************************************************************************)
(* Listing one's sessions: GET session.  The handler lists pods, which     *)
(* have a start time, and then jobs, which have a deadline, and shows the  *)
(* sum as the session's expiry time.  But the deadline counts from the     *)
(* start of the job; its pod starts later, and may be another by then; and *)
(* between the two lists the job may be renewed, suspended or removed.     *)
(* Pods that are being deleted, failed or are done have rows of their own, *)
(* with the times they started.                                            *)
(*                                                                         *)
(* A job of Renewal that is active has one live pod.                       *)
(***************************************************************************)
EXTENDS Renewal, FiniteSets

CONSTANTS
    Readers,      \* the listings of the sessions' user
    MaxLeftover,  \* bound on the pods of a job that are not live and still listed
    NONE          \* "<none>"

ASSUME ListAssumption == NONE \notin Nat /\ MaxLeftover \in Nat

VARIABLES
    podStart,        \* podStart[j]: status.startTime of the live pod of j, if it has one
    leftover,        \* leftover[j]: those of its pods that are not live and still listed
    view,            \* view[l]: the next step of the listing, or its answer
    row,             \* row[l][j]: the start times it was told for the pods of j
    jobExpiryTimes,  \* jobExpiryTimes[l][j]: the deadline of j that it was told
    before,          \* history: before[l] are the renewals that were answered when l came
    stale,           \* history: stale[l][j] are its rows of pods of an earlier run of j
    overlapped       \* history: have two renewals run at the same time

podVars == <<podStart, leftover>>
readerVars == <<view, row, jobExpiryTimes, before, stale>>
listVars == <<podVars, readerVars, overlapped>>
renewVars == vars
sessionVars == <<renewVars, listVars>>

Time == Nat \cup {NONE}

ListTypeOK ==
    /\ podStart \in [Jobs -> Time]
    /\ leftover \in [Jobs -> SUBSET Time]
    /\ view \in [Readers -> {"idle", "deadlines", "shown", "failed"}]
    /\ row \in [Readers -> [Jobs -> SUBSET Time]]
    /\ jobExpiryTimes \in [Readers -> [Jobs -> Time]]
    /\ before \in [Readers -> SUBSET Requests]
    /\ stale \in [Readers -> [Jobs -> SUBSET Nat]]
    /\ overlapped \in BOOLEAN

ListInit ==
    /\ Init
    /\ podStart = [j \in Jobs |-> NONE]
    /\ leftover = [j \in Jobs |-> {}]
    /\ view = [l \in Readers |-> "idle"]
    /\ row = [l \in Readers |-> [j \in Jobs |-> {}]]
    /\ jobExpiryTimes = [l \in Readers |-> [j \in Jobs |-> NONE]]
    /\ before = [l \in Readers |-> {}]
    /\ stale = [l \in Readers |-> [j \in Jobs |-> {}]]
    /\ overlapped = FALSE

-----------------------------------------------------------------------------
(* getSessions.                                                            *)

\* An exception; what was told is gone.
ListFails(l) ==
    /\ view' = [view EXCEPT ![l] = "failed"]
    /\ row' = [row EXCEPT ![l] = [j \in Jobs |-> {}]]
    /\ before' = [before EXCEPT ![l] = {}]
    /\ stale' = [stale EXCEPT ![l] = [j \in Jobs |-> {}]]
    /\ UNCHANGED jobExpiryTimes

\* Pods are listed in any phase, with "<none>" where they have not started.
PodStarts(j) == leftover[j] \cup (IF job[j] = "active" THEN {podStart[j]} ELSE {})

\* Those that started before the job did: it was suspended and resumed since.  A job that
\* is not running has none but those.
OldStarts(j) == {t \in leftover[j] \ {NONE} : job[j] \in Live => t < start[j]}

\* The error text of a failed kubectl has no row to parse.
ListPods(l) ==
    /\ view[l] = "idle"
    /\ \/ /\ view' = [view EXCEPT ![l] = "deadlines"]
          /\ row' = [row EXCEPT ![l] = [j \in Jobs |-> PodStarts(j)]]
          /\ before' = [before EXCEPT ![l] = {r \in Requests \ lost : pc[r] = "ok"}]
          /\ stale' = [stale EXCEPT ![l] = [j \in Jobs |-> OldStarts(j)]]
          /\ UNCHANGED jobExpiryTimes
       \/ KubectlMayFail /\ ListFails(l)
    /\ UNCHANGED <<renewVars, podVars, overlapped>>

\* Mutant of ExpiryOfJob: the deadline is the one of the template.
ExpiryOfTemplate(j) == IF job[j] = "gone" THEN NONE ELSE LaunchDeadline[j]

ExpiryOfJob(j) == IF job[j] = "gone" THEN NONE ELSE deadline[j]

\* getJobExpiryTimes, and then the rows are answered.  The error text of a failed
\* kubectl may be taken for a list that lacks the job, or not be parsed at all.
ShowExpiry(l) ==
    /\ view[l] = "deadlines"
    /\ \/ /\ view' = [view EXCEPT ![l] = "shown"]
          /\ jobExpiryTimes' = [jobExpiryTimes EXCEPT ![l] = [j \in Jobs |-> ExpiryOfJob(j)]]
          /\ UNCHANGED <<row, before, stale>>
       \/ /\ KubectlMayFail
          /\ view' = [view EXCEPT ![l] = "shown"]
          /\ UNCHANGED <<row, jobExpiryTimes, before, stale>>
       \/ KubectlMayFail /\ ListFails(l)
    /\ UNCHANGED <<renewVars, podVars, overlapped>>

\* The rows that are shown with an expiry time, and that time.
Rows(l, j) == IF jobExpiryTimes[l][j] = NONE THEN {} ELSE row[l][j] \ {NONE}
ExpiryTime(l, j, t) == t + jobExpiryTimes[l][j]

-----------------------------------------------------------------------------
(* The pods of the jobs of Renewal.                                        *)

\* The pod of j stops being live, and is listed on until it is removed.
PodEnds(j) ==
    /\ podStart' = [podStart EXCEPT ![j] = NONE]
    /\ leftover' = [leftover EXCEPT ![j] = PodStarts(j)]
    /\ Cardinality(leftover'[j]) <= MaxLeftover

JobStep(j) ==
    /\ \/ (Suspend(j) \/ LosePod(j) \/ Expire(j) \/ Remove(j)) /\ PodEnds(j)
       \/ (Resume(j) \/ NewPod(j)) /\ UNCHANGED podVars
    /\ UNCHANGED <<readerVars, overlapped>>

\* The kubelet takes the pod.
StartPod(j) ==
    /\ job[j] = "active" /\ podStart[j] = NONE
    /\ podStart' = [podStart EXCEPT ![j] = now]
    /\ UNCHANGED <<renewVars, leftover, readerVars, overlapped>>

RemovePod(j) ==
    /\ \E t \in leftover[j] : leftover' = [leftover EXCEPT ![j] = @ \ {t}]
    /\ UNCHANGED <<renewVars, podStart, readerVars, overlapped>>

RenewStep(r) ==
    /\ Handler(r)
    /\ overlapped' = (overlapped \/ (pc[r] = "idle" /\ Others(r) # {}))
    /\ UNCHANGED <<podVars, readerVars>>

ListNext ==
    \/ \E r \in Requests : RenewStep(r)
    \/ \E l \in Readers : ListPods(l) \/ ShowExpiry(l)
    \/ \E j \in Jobs : JobStep(j) \/ StartPod(j) \/ RemovePod(j)
    \/ Tick /\ UNCHANGED listVars

ListSpec == ListInit /\ [][ListNext]_sessionVars

-----------------------------------------------------------------------------

\* Who renews and then looks sees it: a list asked for after the answer shows the pods of
\* a renewed job, those that were lost since it started too, with no expiry time short of
\* what that renewal gave, although the renewal counts from the job's start and the list
\* from the pod's, and whatever other renewals, suspensions and lost pods come between
\* the two.  Not so the rows of pods that a suspended and resumed job has left behind:
\* those add the new deadline to a start that no longer counts.
RenewedIsShown ==
    \A l \in Readers, j \in Jobs : \A t \in Rows(l, j) \ stale[l][j] :
        \A r \in before[l] : j \in covered[r] => ExpiryTime(l, j, t) >= floor[r] + Expiry

\* The time shown for a pod is later than the end of the session by what the pod's start
\* is later than the job's, but by no more: no renewal takes anything of it back, unless
\* renewals overlapped.  A suspension puts the end off.
EndsAsShown ==
    [][\A l \in Readers, j \in Jobs :
          job[j] \in Live /\ job'[j] = "ended" /\ ~overlapped
              => \A t \in Rows(l, j) : ExpiryTime(l, j, t) - now <= t - start[j]]_sessionVars
=============================================================================
