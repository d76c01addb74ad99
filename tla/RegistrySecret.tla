----------------------------- MODULE RegistrySecret -----------------------------
(***************************************************************************)
(* The image pull secret of one user.  Every POST of a private image runs  *)
(* CommandExecutioner.ensureRegistrySecret before it creates its job: it   *)
(* deletes the secret registry-auth-<user> and creates it again with the   *)
(* credentials of the request.  All the sessions of the user, whatever     *)
(* their registry, share that one name, and kubelets read the secret when  *)
(* they pull, long after the POST was answered.                            *)
(*                                                                         *)
(* Each request r runs once; a finite set of them is a burst of launches.  *)
(***************************************************************************)
EXTENDS Naturals, FiniteSets

CONSTANTS
    Requests,        \* the POSTs of one user
    Registries,      \* the hosts their images come from
    KubectlMayFail,  \* may a kubectl call fail
    MayCrash,        \* may a replica stop in the middle of a POST
    NoSecret

ASSUME SecretAssumption ==
    /\ IsFiniteSet(Requests)
    /\ NoSecret \notin Requests
    /\ KubectlMayFail \in BOOLEAN
    /\ MayCrash \in BOOLEAN

VARIABLES
    pc,      \* pc[r]: the next step of the POST
    reg,     \* reg[r]: the registry of its image and of its credentials
    pod,     \* pod[r]: the pod of the job it created
    secret,  \* the request whose credentials the secret holds, or NoSecret
    late,    \* history: the requests that had tried to delete the secret before it was created
    kept,    \* history: the requests whose delete failed
    lost     \* history: the requests whose create failed, or that stopped before it

vars == <<pc, reg, pod, secret, late, kept, lost>>

TypeOK ==
    /\ pc \in [Requests -> {"idle", "delete", "create", "launch", "done", "crashed"}]
    /\ reg \in [Requests -> Registries]
    /\ pod \in [Requests -> {"none", "pulling", "running"}]
    /\ secret \in Requests \cup {NoSecret}
    /\ late \subseteq Requests
    /\ kept \subseteq Requests
    /\ lost \subseteq Requests

Init ==
    /\ pc = [r \in Requests |-> "idle"]
    /\ reg \in [Requests -> Registries]
    /\ pod = [r \in Requests |-> "none"]
    /\ secret = NoSecret
    /\ late = {}
    /\ kept = {}
    /\ lost = {}

Goto(r, p) == pc' = [pc EXCEPT ![r] = p]

Start(r) ==
    /\ pc[r] = "idle"
    /\ Goto(r, "delete")
    /\ UNCHANGED <<reg, pod, secret, late, kept, lost>>

\* Mutant of DeleteSecret: a secret that exists is good enough.
DeleteNothing(r) ==
    /\ pc[r] = "delete"
    /\ Goto(r, "create")
    /\ UNCHANGED <<reg, pod, secret, late, kept, lost>>

\* Mutant of DeleteSecret: the secret is only deleted.
DeleteOnly(r) ==
    /\ pc[r] = "delete"
    /\ secret' = NoSecret
    /\ Goto(r, "launch")
    /\ UNCHANGED <<reg, pod, late, kept, lost>>

\* kubectl delete secret: an absent secret and a failure are only logged.
DeleteSecret(r) ==
    /\ pc[r] = "delete"
    /\ \/ secret' = NoSecret /\ UNCHANGED kept
       \/ KubectlMayFail /\ kept' = kept \cup {r} /\ UNCHANGED secret
    /\ Goto(r, "create")
    /\ UNCHANGED <<reg, pod, late, lost>>

\* Mutant of CreateSecret: what is stored is the registry's host only.
CreateWithHost(r) ==
    /\ pc[r] = "create"
    /\ secret' = IF secret = NoSecret THEN reg[r] ELSE secret
    /\ Goto(r, "launch")
    /\ UNCHANGED <<reg, pod, late, kept, lost>>

\* kubectl create secret: execute returns the error text when the secret exists
\* already, or when the call fails otherwise, and it is only logged.  It throws no
\* exception when kubectl fails, so that neither catch branch of the code is reached.
CreateSecret(r) ==
    /\ pc[r] = "create"
    /\ \/ /\ secret = NoSecret
          /\ secret' = r
          /\ late' = {q \in Requests : pc[q] \notin {"idle", "delete"}}
          /\ UNCHANGED lost
       \/ secret # NoSecret /\ UNCHANGED <<secret, late, lost>>
       \/ KubectlMayFail /\ lost' = lost \cup {r} /\ UNCHANGED <<secret, late>>
    /\ Goto(r, "launch")
    /\ UNCHANGED <<reg, pod, kept>>

\* The job that names the secret is created.
Launch(r) ==
    /\ pc[r] = "launch"
    /\ pod' = [pod EXCEPT ![r] = "pulling"]
    /\ Goto(r, "done")
    /\ UNCHANGED <<reg, secret, late, kept, lost>>

Crash(r) ==
    /\ MayCrash
    /\ pc[r] \in {"delete", "create", "launch"}
    /\ lost' = IF pc[r] = "create" THEN lost \cup {r} ELSE lost
    /\ Goto(r, "crashed")
    /\ UNCHANGED <<reg, pod, secret, late, kept>>

\* The kubelet pulls the image with the secret as it is now; when it cannot, it
\* tries again later.
Pull(r) ==
    /\ pod[r] = "pulling"
    /\ secret # NoSecret
    /\ reg[secret] = reg[r]
    /\ pod' = [pod EXCEPT ![r] = "running"]
    /\ UNCHANGED <<pc, reg, secret, late, kept, lost>>

Handler(r) == DeleteSecret(r) \/ CreateSecret(r) \/ Launch(r)

Next == \E r \in Requests : Start(r) \/ Handler(r) \/ Crash(r) \/ Pull(r)

Spec == Init /\ [][Next]_vars

\* A POST that has started runs on, and a kubelet tries again.
FairSpec == Spec /\ \A r \in Requests : WF_vars(Handler(r)) /\ WF_vars(Pull(r))

-----------------------------------------------------------------------------

Launched == \E r \in Requests : pc[r] \in {"launch", "done"}

\* What the documentation of ensureRegistrySecret says of the second call: "@throws
\* Exception If there is an error creating the secret".  So a POST that goes on to its
\* launch has a secret, its own or one that was there already.
EnsuredOrThrown ==
    [][\A r \in Requests :
          pc[r] = "create" /\ pc'[r] = "launch" => secret' # NoSecret]_vars

\* What the code does keep.  Whether a user's pods find a secret at all depends on other
\* POSTs, each of which takes it away for a while.  After a launch the secret is missing
\* only while some POST is between its delete and its create, or when such a POST failed
\* there: then it goes on all the same, against EnsuredOrThrown.
MissingOnlyInRefresh ==
    Launched /\ secret = NoSecret => lost # {} \/ \E q \in Requests : pc[q] = "create"

\* The comment in ensureRegistrySecret accepts that another POST's secret is in
\* place when this one's create finds it exists.  It is never an older one: the
\* secret a POST goes on with was created after that POST had deleted the one before,
\* unless its delete failed.
NeverOlder ==
    [][\A r \in Requests :
          pc[r] = "create" /\ pc'[r] = "launch" /\ secret' # NoSecret
              => r \in late' \cup kept']_vars

\* The same for the kubelet, which reads the secret long after the POST was answered,
\* when other POSTs may have replaced it any number of times: it never pulls with
\* credentials that were there before the launch, unless the delete of that launch failed.
PullsNeverOlder ==
    [][\A r \in Requests :
          pod[r] = "pulling" /\ pod'[r] = "running" => r \in late \cup kept]_vars

\* The steps a request still has before it: of its POST, and the pull of its pod.
Left(r) == (CASE pc[r] = "idle" -> 5
              [] pc[r] = "delete" -> 4
              [] pc[r] = "create" -> 3
              [] pc[r] = "launch" -> 2
              [] pc[r] \in {"done", "crashed"} -> 0)
           + (IF pod[r] = "pulling" THEN 1 ELSE 0)
Before == {step \in Requests \X (1..5) : step[2] <= Left(step[1])}

\* A burst comes to rest: every step, also that of a POST which finds another's secret
\* in place or whose calls fail, leaves less to do.  Nothing is tried again but the
\* pull, and that only until it succeeds.
BurstEnds == [][Cardinality(Before') < Cardinality(Before)]_vars

\* No POST is under way and no pod can pull.
AtRest ==
    \A r \in Requests :
        /\ pc[r] \in {"idle", "done", "crashed"}
        /\ ~(pod[r] = "pulling" /\ secret # NoSecret /\ reg[secret] = reg[r])

\* When it has come to rest, every pod of the burst has pulled its image, or what keeps
\* it from that is the secret of another registry, or a create that failed or was cut off.
PulledAtRest ==
    AtRest => \A r \in Requests :
        pod[r] = "pulling" => lost # {} \/ (secret # NoSecret /\ reg[secret] # reg[r])

\* The same as a property of time.  A launched pod gets its image in the end, although
\* the other POSTs of a burst keep taking away the secret that its kubelet needs: unless
\* one of them was for another registry and left its own secret there, or failed.
LaunchedPulls ==
    \A r \in Requests :
        pod[r] = "pulling" ~> \/ pod[r] = "running"
                              \/ lost # {}
                              \/ secret # NoSecret /\ reg[secret] # reg[r]
=============================================================================
