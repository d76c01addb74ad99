----------------------------- MODULE SessionContract -----------------------------
(***************************************************************************)
(* What skaha promises of a session, seen from outside.  A session belongs *)
(* to the user who asked for it, and it only moves forward: it is being    *)
(* started, then it can be connected to, and then it is over, however it   *)
(* ended.  It may be over before anybody could connect.  One that can be   *)
(* connected to stays so until it is over, and one that is over does not   *)
(* come back.                                                              *)
(***************************************************************************)
CONSTANTS Users, Sessions, NoUser

VARIABLES
    owner,  \* owner[s]: whose session s is, or NoUser
    stage   \* stage[s]: "unused", "starting", "connectable" or "over"

Init ==
    /\ owner = [s \in Sessions |-> NoUser]
    /\ stage = [s \in Sessions |-> "unused"]

Become(s, new) == stage' = [stage EXCEPT ![s] = new]

Begin(s, u) ==
    /\ stage[s] = "unused"
    /\ Become(s, "starting")
    /\ owner' = [owner EXCEPT ![s] = u]

Connect(s) ==
    /\ stage[s] = "starting"
    /\ Become(s, "connectable")
    /\ UNCHANGED owner

Finish(s) ==
    /\ stage[s] \in {"starting", "connectable"}
    /\ Become(s, "over")
    /\ UNCHANGED owner

\* The session ID may be drawn again.
Release(s) ==
    /\ stage[s] = "over"
    /\ Become(s, "unused")
    /\ owner' = [owner EXCEPT ![s] = NoUser]

Next ==
    \E s \in Sessions :
        \/ \E u \in Users : Begin(s, u)
        \/ Connect(s) \/ Finish(s) \/ Release(s)

Spec == Init /\ [][Next]_<<owner, stage>>
=============================================================================
