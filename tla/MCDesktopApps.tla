------------------------------ MODULE MCDesktopApps ------------------------------
(* Values of the constants of DesktopApps for model checking.  *)
EXTENDS DesktopApps, TLC

\* Only safety is checked, and no definition tells launches, or callers, apart.
Symmetry == Permutations(Launches) \cup Permutations(Callers)
=============================================================================
