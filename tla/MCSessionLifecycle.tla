--------------------------- MODULE MCSessionLifecycle ---------------------------
(* Values of the constants of SessionLifecycle for model checking.  *)
EXTENDS SessionLifecycle, TLC

\* What the ingress file of each type holds: the shipped files of carta name their
\* two middlewares otherwise than DELETE does, and notebook has no middleware.
MCIngressObjects == [t \in Types |->
    CASE t = "carta" -> {"ingressroute", "otherMiddleware"}
      [] t \in {"desktop", "contributed"} -> {"ingressroute", "middleware"}
      [] t = "notebook" -> {"ingressroute"}
      [] OTHER -> {}]

Symmetry == Permutations(Users) \cup Permutations(Requests) \cup Permutations(Sessions)
=============================================================================
