--------------------------------- MODULE MCViews ---------------------------------
(* Values of the constants of CartaSidecar for model checking.  *)
EXTENDS CartaSidecar

\* Longer than a renewal would give, as headless jobs have it.
MCLaunchDeadline == [j \in Jobs |-> Expiry + 1]
=============================================================================
