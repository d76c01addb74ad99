------------------------------ MODULE CartaSidecar ------------------------------
(***************************************************************************)
(* The authentication sidecar of CARTA sessions.  For every request to a   *)
(* session Traefik asks it for the session's owner, which it reads from a  *)
(* label of one of the session's pods and keeps in a TTL cache.  Pods come *)
(* and go as in SessionList; the sidecar is never told.                    *)
(*                                                                         *)
(* One session, all the jobs of Renewal being its jobs, and one process of *)
(* the sidecar: lookup is called from a coroutine and does not await, so a *)
(* process answers one request after the other.                            *)
(***************************************************************************)
EXTENDS SessionList

CONSTANT TTL    \* CACHE_TTL_SECONDS

ASSUME SidecarAssumption == TTL \in Nat \ {0}

VARIABLES
    owned,      \* the jobs whose template gives the owner's label to their pods
    expires,    \* when the entry of the session in the cache expires, if it has one
    step,       \* the next step of the request that is being answered
    answer,     \* the answer to the last request: 200, 403, or 500 for an exception
    listedAt,   \* history: when the pods were listed for what is being looked up
    took,       \* history: the time from the list to the store of the entry
    seen,       \* history: the last time the session was known to have pods
    missing     \* history: was there a moment in the present request when it had no pods,
                \*     or some without the owner's label

sidecarVars == <<owned, expires, step, answer, listedAt, took>>
podTimeVars == <<seen, missing>>
viewVars == <<sessionVars, sidecarVars, podTimeVars>>

SidecarTypeOK ==
    /\ owned \subseteq Jobs
    /\ expires \in Time
    /\ step \in {"idle", "check", "get", "list", "store"}
    /\ answer \in {"none", "ok", "forbidden", "error"}
    /\ listedAt \in Nat
    /\ took \in Nat
    /\ seen \in Nat
    /\ missing \in BOOLEAN

ViewsTypeOK == TypeOK /\ ListTypeOK /\ SidecarTypeOK

ViewsInit ==
    /\ ListInit
    /\ owned \in SUBSET Jobs
    /\ expires = NONE
    /\ step = "idle"
    /\ answer = "none"
    /\ listedAt = 0
    /\ took = 0
    /\ seen = 0
    /\ missing = FALSE

\* The jobs of which list_namespaced_pod, with the label of the session, finds pods; it
\* finds them in any phase.
Found == {j \in Jobs : PodStarts(j) # {}}

\* The session has pods, and they all tell the owner.
Labelled == Found # {} /\ Found \subseteq owned

-----------------------------------------------------------------------------
(* auth_any and lookup.                                                    *)

Answer(a) == step' = "idle" /\ answer' = a

Request ==
    /\ step = "idle"
    /\ step' = "check"
    /\ answer' = "none"
    /\ UNCHANGED <<owned, expires, listedAt, took>>

InCache == expires # NONE /\ now < expires

CheckCache ==
    /\ step = "check"
    /\ step' = IF InCache THEN "get" ELSE "list"
    /\ UNCHANGED <<owned, expires, answer, listedAt, took>>

\* Mutant of GetCache: what was in the cache a moment ago is there still.
GetUnchecked ==
    /\ step = "get"
    /\ Answer("ok")
    /\ UNCHANGED <<owned, expires, listedAt, took>>

\* Mutant of GetCache: cache.get, which is None for an entry that has expired.
GetOrRefuse ==
    /\ step = "get"
    /\ Answer(IF InCache THEN "ok" ELSE "forbidden")
    /\ UNCHANGED <<owned, expires, listedAt, took>>

\* The entry may have expired since the check: cache[session_id] is a KeyError then.
GetCache ==
    /\ step = "get"
    /\ Answer(IF InCache THEN "ok" ELSE "error")
    /\ UNCHANGED <<owned, expires, listedAt, took>>

\* The owner is the label of the first pod found.  No pod, or no label, is refused and not
\* kept in the cache.  The call may fail.
LookupPods ==
    /\ step = "list"
    /\ \/ /\ Found \cap owned # {}
          /\ step' = "store"
          /\ listedAt' = now
          /\ UNCHANGED answer
       \/ (Found = {} \/ Found \ owned # {}) /\ Answer("forbidden") /\ UNCHANGED listedAt
       \/ Answer("error") /\ UNCHANGED listedAt
    /\ UNCHANGED <<owned, expires, took>>

Store ==
    /\ step = "store"
    /\ expires' = now + TTL
    /\ took' = now - listedAt
    /\ listedAt' = 0
    /\ Answer("ok")
    /\ UNCHANGED owned

\* The sidecar restarts, or, between requests, the cache is full and another session's
\* entry takes the place of this one.
Forget ==
    /\ expires' = NONE
    /\ step' = "idle"
    /\ answer' = "none"
    /\ listedAt' = 0
    /\ took' = 0
    /\ UNCHANGED owned

Sidecar == Request \/ CheckCache \/ GetCache \/ LookupPods \/ Store \/ Forget

ViewsNext ==
    /\ \/ ListNext /\ UNCHANGED sidecarVars
       \/ Sidecar /\ UNCHANGED sessionVars
    /\ seen' = IF Found' # {} THEN now' ELSE seen
    /\ missing' = (~Labelled' \/ (missing /\ ~(step = "idle" /\ step' = "check")))

ViewsSpec == ViewsInit /\ [][ViewsNext]_viewVars

-----------------------------------------------------------------------------

\* Deleting a session does not reach the sidecar, but nobody is served long after it:
\* no request is answered with the owner of a session whose last pod was gone for the
\* TTL of the cache, and the time the sidecar once took between its list and its store.
NotServedLong ==
    [][step # "idle" /\ answer' = "ok" => now < seen + TTL + took']_viewVars

\* A session is refused only if at some moment of the request it had no pod, or one
\* without the owner's label: neither the cache nor an old refusal ever turns away who
\* has a running session that tells its owner.  The documentation of lookup promises
\* more, that the session's Services are asked first; the code asks pods alone, so that a
\* session whose pod is lost and not replaced yet is refused although its Service is
\* there.
RefusedOnlyWithoutOwner == answer = "forbidden" => missing
=============================================================================
