------------------------------- MODULE MCRenewal --------------------------------
(* Values of the constants of Renewal for model checking.  *)
EXTENDS Renewal, TLC

CONSTANTS desktop, app

\* The desktop has the configured deadline, the other job a longer one.
MCLaunchDeadline == [j \in Jobs |-> IF j = app THEN Expiry + 1 ELSE Expiry]

Symmetry == Permutations(Requests)
=============================================================================
