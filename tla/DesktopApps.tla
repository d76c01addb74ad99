------------------------------- MODULE DesktopApps -------------------------------
(***************************************************************************)
(* Desktops and the apps they start.  A launch signs a token for its       *)
(* desktop with a key pair that all replicas share through one secret,     *)
(* which the first request that needs it creates.  The desktop attaches an *)
(* app by calling skaha back with that token; its user may attach one too. *)
(* The app is a job of its own that shares the desktop's session ID.       *)
(*                                                                         *)
(* A launch l is one POST of a desktop, and stands for that desktop too.   *)
(* A caller c is one POST of an app, reused after its answer.  A request   *)
(* that finds no secret makes a key pair of its own, called by its name.   *)
(***************************************************************************)
CONSTANTS
    Launches,        \* the POSTs of desktops, each run once
    Callers,         \* the POSTs of apps: how many run at once
    Apps,            \* app slots: how many apps exist at once
    KubectlMayFail,  \* may a kubectl call fail
    NoPair, NoDesktop

Pairs == Launches \cup Callers

ASSUME DesktopAssumption ==
    /\ Launches \cap Callers = {}
    /\ NoPair \notin Pairs
    /\ NoDesktop \notin Pairs
    /\ KubectlMayFail \in BOOLEAN

VARIABLES
    stored,    \* the key pair in the secret, or NoPair
    pc,        \* pc[p]: the next step of a request, or its answer
    token,     \* token[l]: the pair that signed the token of desktop l, or NoPair
    desktop,   \* desktop[l]: "none"; "waiting": a job without a pod, or whose pod was lost;
               \*     "live"; "dying": its pods are still listed; "gone"
    remains,   \* the desktops that have evicted or completed pods, which are listed and
               \*     not being deleted
    target,    \* target[c]: the desktop caller c attaches an app to, or NoDesktop
    pair,      \* pair[c]: the pair caller c checks the token with, or NoPair
    app,       \* app[a]: the desktop that app a belongs to, or NoDesktop
    early,     \* history: the launches that had found no secret when it was created
    lost,      \* history: the launches whose kubectl create of the secret failed, and
               \*     the requests that took a read that failed for a missing secret
    accepted   \* history: the desktops whose token was accepted

vars == <<stored, pc, token, desktop, remains, target, pair, app, early, lost, accepted>>
desktopVars == <<desktop, remains>>
launchVars == <<token, early, lost>>
callVars == <<target, pair, accepted>>

LaunchSteps == {"read", "create", "job"}
CallSteps == {"read", "create", "validate", "find", "list", "job"}
Answers == {"ok", "refused", "failed"}

TypeOK ==
    /\ stored \in Pairs \cup {NoPair}
    /\ pc \in [Pairs -> {"idle"} \cup LaunchSteps \cup CallSteps \cup Answers]
    /\ token \in [Launches -> Pairs \cup {NoPair}]
    /\ desktop \in [Launches -> {"none", "waiting", "live", "dying", "gone"}]
    /\ remains \subseteq Launches
    /\ target \in [Callers -> Launches \cup {NoDesktop}]
    /\ pair \in [Callers -> Pairs \cup {NoPair}]
    /\ app \in [Apps -> Launches \cup {NoDesktop}]
    /\ early \subseteq Launches
    /\ lost \subseteq Pairs
    /\ accepted \subseteq Launches

Init ==
    /\ stored = NoPair
    /\ pc = [p \in Pairs |-> "idle"]
    /\ token = [l \in Launches |-> NoPair]
    /\ desktop = [l \in Launches |-> "none"]
    /\ remains = {}
    /\ target = [c \in Callers |-> NoDesktop]
    /\ pair = [c \in Callers |-> NoPair]
    /\ app = [a \in Apps |-> NoDesktop]
    /\ early = {}
    /\ lost = {}
    /\ accepted = {}

Goto(p, step) == pc' = [pc EXCEPT ![p] = step]

-----------------------------------------------------------------------------
(* The key pair: getPreAuthorizedTokenSecret.                              *)

\* Mutant of CreateSecret: the secret is replaced when it exists.
ReplaceSecret(p) ==
    /\ stored' = p
    /\ early' = {l \in Launches : l # p /\ pc[l] = "create"}
    /\ UNCHANGED lost

\* kubectl create secret by request p.  It does nothing when the secret exists; that,
\* like any failure, is only logged, and p goes on with the pair it has made.
CreateSecret(p) ==
    \/ /\ stored = NoPair
       /\ stored' = p
       /\ early' = {l \in Launches : l # p /\ pc[l] = "create"}
       /\ UNCHANGED lost
    \/ stored # NoPair /\ UNCHANGED <<stored, early, lost>>
    \/ KubectlMayFail /\ lost' = lost \cup ({p} \cap Launches) /\ UNCHANGED <<stored, early>>

-----------------------------------------------------------------------------
(* POST session: launch a desktop.                                         *)

StartLaunch(l) ==
    /\ pc[l] = "idle"
    /\ Goto(l, "read")
    /\ UNCHANGED <<stored, desktopVars, app, launchVars, callVars>>

\* Mutant of ReadForLaunch: every launch makes a pair of its own.
ReadNothing(l) ==
    /\ pc[l] = "read"
    /\ Goto(l, "create")
    /\ UNCHANGED <<stored, desktopVars, app, launchVars, callVars>>

\* getSecretData by request p when it is not told what is in the secret, and goes on as
\* if there were none: there is none, or kubectl fails without a message.
NoSecretRead(p) ==
    \/ stored = NoPair /\ UNCHANGED lost
    \/ stored # NoPair /\ KubectlMayFail /\ lost' = lost \cup {p}

\* The token of the desktop is signed with the pair that was read, if there is one.  The
\* message of a failed kubectl cannot be parsed.
ReadForLaunch(l) ==
    /\ pc[l] = "read"
    /\ \/ NoSecretRead(l) /\ Goto(l, "create") /\ UNCHANGED token
       \/ /\ stored # NoPair
          /\ Goto(l, "job")
          /\ token' = [token EXCEPT ![l] = stored]
          /\ UNCHANGED lost
       \/ KubectlMayFail /\ Goto(l, "failed") /\ UNCHANGED <<token, lost>>
    /\ UNCHANGED <<stored, desktopVars, app, early, callVars>>

CreateForLaunch(l) ==
    /\ pc[l] = "create"
    /\ CreateSecret(l)
    /\ token' = [token EXCEPT ![l] = l]
    /\ Goto(l, "job")
    /\ UNCHANGED <<desktopVars, app, callVars>>

CreateDesktop(l) ==
    /\ pc[l] = "job"
    /\ \/ desktop' = [desktop EXCEPT ![l] = "waiting"]
       \/ KubectlMayFail /\ UNCHANGED desktop
    /\ Goto(l, "ok")
    /\ UNCHANGED <<stored, remains, app, launchVars, callVars>>

Launch(l) == StartLaunch(l) \/ ReadForLaunch(l) \/ CreateForLaunch(l) \/ CreateDesktop(l)

-----------------------------------------------------------------------------
(* POST app: attach an app to a desktop.                                   *)

\* A running desktop calls back with its token.
StartCallback(c, l) ==
    /\ pc[c] \in {"idle"} \cup Answers
    /\ desktop[l] = "live"
    /\ target' = [target EXCEPT ![c] = l]
    /\ pair' = [pair EXCEPT ![c] = NoPair]
    /\ Goto(c, "read")
    /\ lost' = lost \ {c}
    /\ UNCHANGED <<stored, desktopVars, app, accepted, token, early>>

\* The user asks, with credentials of the user's own.
StartByUser(c, l) ==
    /\ pc[c] \in {"idle"} \cup Answers
    /\ desktop[l] # "none"
    /\ target' = [target EXCEPT ![c] = l]
    /\ pair' = [pair EXCEPT ![c] = NoPair]
    /\ Goto(c, "list")
    /\ lost' = lost \ {c}
    /\ UNCHANGED <<stored, desktopVars, app, accepted, token, early>>

ReadForCall(c) ==
    /\ pc[c] = "read"
    /\ \/ NoSecretRead(c) /\ Goto(c, "create") /\ UNCHANGED pair
       \/ /\ stored # NoPair
          /\ Goto(c, "validate")
          /\ pair' = [pair EXCEPT ![c] = stored]
          /\ UNCHANGED lost
       \/ KubectlMayFail /\ Goto(c, "failed") /\ UNCHANGED <<pair, lost>>
    /\ UNCHANGED <<stored, desktopVars, app, target, accepted, token, early>>

CreateForCall(c) ==
    /\ pc[c] = "create"
    /\ CreateSecret(c)
    /\ pair' = [pair EXCEPT ![c] = c]
    /\ Goto(c, "validate")
    /\ UNCHANGED <<token, desktopVars, app, target, accepted>>

\* The signature must be of the pair the caller has.
Validate(c) ==
    LET l == target[c] IN
    /\ pc[c] = "validate"
    /\ IF token[l] = pair[c]
       THEN Goto(c, "find") /\ accepted' = accepted \cup {l}
       ELSE Goto(c, "refused") /\ UNCHANGED accepted
    /\ UNCHANGED <<stored, desktopVars, app, target, pair, launchVars>>

\* SessionDAO.getSession: a pod of the session, in any phase, that is not an app's.
FindSession(c) ==
    LET listed == desktop[target[c]] \in {"live", "dying"} \/ target[c] \in remains IN
    /\ pc[c] = "find"
    /\ \/ listed /\ Goto(c, "list")
       \/ (~listed \/ KubectlMayFail) /\ Goto(c, "failed")
    /\ UNCHANGED <<stored, desktopVars, app, launchVars, callVars>>

\* Mutant of ListPods: pods that are being deleted are taken too.
ListAllPods(c) ==
    LET listed == desktop[target[c]] \in {"live", "dying"} \/ target[c] \in remains IN
    /\ pc[c] = "list"
    /\ \/ listed /\ Goto(c, "job")
       \/ (~listed \/ KubectlMayFail) /\ Goto(c, "failed")
    /\ UNCHANGED <<stored, desktopVars, app, launchVars, callVars>>

\* The pods of the desktop that are not being deleted, in any phase; the address of the
\* last one goes into the job.
ListPods(c) ==
    LET listed == desktop[target[c]] = "live" \/ target[c] \in remains IN
    /\ pc[c] = "list"
    /\ \/ listed /\ Goto(c, "job")
       \/ (~listed \/ KubectlMayFail) /\ Goto(c, "failed")
    /\ UNCHANGED <<stored, desktopVars, app, launchVars, callVars>>

\* kubectl create of the app's job, whose failure is not seen, then injectCredentials,
\* which may throw.
CreateApp(c) ==
    /\ pc[c] = "job"
    /\ \/ \E a \in Apps :
             /\ app[a] = NoDesktop
             /\ app' = [app EXCEPT ![a] = target[c]]
       \/ KubectlMayFail /\ UNCHANGED app
    /\ Goto(c, "ok") \/ Goto(c, "failed")
    /\ UNCHANGED <<stored, desktopVars, launchVars, callVars>>

Call(c) ==
    \/ \E l \in Launches : StartCallback(c, l) \/ StartByUser(c, l)
    \/ ReadForCall(c) \/ CreateForCall(c) \/ Validate(c)
    \/ FindSession(c) \/ ListPods(c) \/ CreateApp(c)

\* A replica stops in the middle of a request.
Crash(p) ==
    /\ pc[p] \in LaunchSteps \cup CallSteps
    /\ Goto(p, "failed")
    /\ UNCHANGED <<stored, desktopVars, app, launchVars, callVars>>

-----------------------------------------------------------------------------
(* DELETE, and Kubernetes.                                                 *)

SetDesktop(l, state) ==
    /\ desktop' = [desktop EXCEPT ![l] = state]
    /\ UNCHANGED <<stored, pc, app, launchVars, callVars>>

PodUp(l) == desktop[l] = "waiting" /\ SetDesktop(l, "live") /\ UNCHANGED remains

\* The node is lost and its pods are removed, or the pod is evicted and stays.
PodLost(l) ==
    /\ desktop[l] = "live" /\ SetDesktop(l, "waiting")
    /\ remains' \in {remains, remains \cup {l}}

\* The desktop's program ends, and its pod is completed.
Complete(l) ==
    /\ desktop[l] = "live" /\ SetDesktop(l, "gone")
    /\ remains' = remains \cup {l}

\* The job is deleted with all its pods, or its deadline has passed, which ends those that
\* run.  The apps of the desktop stay.
EndDesktop(l) ==
    /\ \/ desktop[l] = "live" /\ SetDesktop(l, "dying")
       \/ desktop[l] = "waiting" /\ SetDesktop(l, "gone")
    /\ remains' \in {remains, remains \ {l}}

PodsGone(l) == desktop[l] = "dying" /\ SetDesktop(l, "gone") /\ UNCHANGED remains

\* The TTL of the ended job, a DELETE, or the collection of old pods.
RemoveRemains(l) ==
    /\ l \in remains
    /\ remains' = remains \ {l}
    /\ UNCHANGED <<stored, pc, desktop, app, launchVars, callVars>>

EndApp(a) ==
    /\ app[a] # NoDesktop
    /\ app' = [app EXCEPT ![a] = NoDesktop]
    /\ UNCHANGED <<stored, pc, desktopVars, launchVars, callVars>>

\* DELETE of an app: the job's name is looked up by the labels, then deleted.  Without
\* a name, or when a call fails, nothing happens.
DeleteApp(a) == EndApp(a)

\* activeDeadlineSeconds of the app's own job has passed.
ExpireApp(a) == EndApp(a)

-----------------------------------------------------------------------------

Next ==
    \/ \E l \in Launches :
          \/ Launch(l) \/ PodUp(l) \/ PodLost(l) \/ Complete(l)
          \/ EndDesktop(l) \/ PodsGone(l) \/ RemoveRemains(l)
    \/ \E c \in Callers : Call(c)
    \/ \E p \in Pairs : Crash(p)
    \/ \E a \in Apps : DeleteApp(a) \/ ExpireApp(a)

Spec == Init /\ [][Next]_vars

-----------------------------------------------------------------------------

\* A desktop's token is refused only when its launch was among the first: it had read
\* that there is no secret before the secret was created, or its create failed.  Besides
\* there are the reads that fail without a message, of the launch or of the call.
RefusedOnlyFirst ==
    \A c \in Callers : pc[c] = "refused" => {c, target[c]} \cap (early \cup lost) # {}

\* A token that was accepted once is not refused later, by any replica, although every
\* request may make a key pair and store it: callbacks of a desktop do not stop working.
\* Only a call whose own read fails without a message may be refused.
AcceptedStays ==
    [][\A c \in Callers \ lost :
          pc[c] = "validate" /\ pc'[c] = "refused" => target[c] \notin accepted]_vars

\* Desktop l has ended, its pods are gone or being deleted, and the calls that had listed
\* one of them before have been answered.
Closed(l) ==
    /\ desktop[l] \in {"dying", "gone"} /\ l \notin remains
    /\ \A c \in Callers : ~(pc[c] = "job" /\ target[c] = l)

\* Calls that race with the end of a desktop may attach apps to it that find no desktop;
\* and nothing ends those, or the ones it had, before their own deadline or DELETE.  But
\* that comes to an end: a desktop once closed is closed for good, and the apps it has
\* left behind only become fewer, however many callbacks and users ask for more.
AppsDwindle ==
    [][\A l \in Launches : Closed(l) =>
          /\ Closed(l)'
          /\ {a \in Apps : app'[a] = l} \subseteq {a \in Apps : app[a] = l}]_vars
=============================================================================
