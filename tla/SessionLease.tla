------------------------------ MODULE SessionLease ------------------------------
(***************************************************************************)
(* What renewing promises, seen from outside.  A session is one or more    *)
(* jobs that wait, run, end by their deadline, or are deleted.  Renewing   *)
(* promises some of them a time before which they do not end by deadline.  *)
(* A promise stands for good: nothing that happens later, to the job or in *)
(* other renewals, takes it back.                                          *)
(***************************************************************************)
EXTENDS Naturals

CONSTANTS Jobs, Expiry

VARIABLES
    now,       \* the clock
    state,     \* state[j]: "waiting", "running", "ended" or "deleted"
    promised   \* promised[j]: the times that j was promised not to end before

Init ==
    /\ now = 0
    /\ state = [j \in Jobs |-> "waiting"]
    /\ promised = [j \in Jobs |-> {}]

Tick ==
    /\ now' = now + 1
    /\ UNCHANGED <<state, promised>>

Become(j, new) ==
    /\ state' = [state EXCEPT ![j] = new]
    /\ UNCHANGED <<now, promised>>

Run(j) == state[j] = "waiting" /\ Become(j, "running")
Suspend(j) == state[j] = "running" /\ Become(j, "waiting")
Delete(j) == state[j] # "deleted" /\ Become(j, "deleted")

\* The deadline has passed, and with it all that was promised.
End(j) ==
    /\ state[j] = "running"
    /\ \A t \in promised[j] : t <= now
    /\ Become(j, "ended")

\* A renewal of the jobs in S succeeds; no more than Expiry is promised at once.
Promise(S, t) ==
    /\ promised' = [j \in Jobs |-> IF j \in S THEN promised[j] \cup {t} ELSE promised[j]]
    /\ UNCHANGED <<now, state>>

Next ==
    \/ Tick
    \/ \E j \in Jobs : Run(j) \/ Suspend(j) \/ Delete(j) \/ End(j)
    \/ \E S \in SUBSET Jobs, t \in 0..(now + Expiry) : Promise(S, t)

Spec == Init /\ [][Next]_<<now, state, promised>>
=============================================================================
