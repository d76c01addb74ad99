--------------------------- MODULE DesktopAppsProofs ---------------------------
(* Tokens and key pairs, for any number of launches, callers and apps.  *)
EXTENDS DesktopApps, TLAPS

\* Nobody has been overtaken by a secret that is not there.
NoEarly == stored = NoPair => early = {}

\* A launch that is about to create the secret, when there is one, was overtaken.
Overtaken == \A l \in Launches : stored # NoPair /\ pc[l] = "create" => l \in early \cup lost

\* A launch signs once, before its desktop exists.
Once ==
    /\ \A l \in Launches : pc[l] \in {"idle", "read", "create"} => token[l] = NoPair
    /\ \A l \in Launches : pc[l] = "job" \/ desktop[l] # "none" => token[l] # NoPair
    /\ \A l \in Launches : pc[l] \in {"idle", "read"} => l \notin early \cup lost
    /\ \A l \in Launches : pc[l] \in {"idle", "read", "create"} => stored # l
    /\ \A l \in Launches : pc[l] \in {"idle", "read", "create", "job"} => desktop[l] = "none"

\* A token is of the pair in the secret, or its launch was overtaken or lost its pair,
\* and then its pair is in no secret.
Signed ==
    \A l \in Launches :
        /\ token[l] # NoPair => token[l] = stored \/ l \in early \cup lost
        /\ l \in early \cup lost => token[l] \in {NoPair, l} /\ stored # l
        /\ l \in lost /\ pc[l] = "create" => stored # NoPair

\* A caller has the stored pair, unless its read failed or it calls for a desktop whose
\* pair is lost.
Held ==
    \A c \in Callers :
        /\ pc[c] \in CallSteps => target[c] \in Launches /\ token[target[c]] # NoPair
        /\ pc[c] = "create" => target[c] \in lost \/ (c \in lost /\ stored # NoPair)
        /\ pc[c] = "validate" => \/ stored # NoPair /\ pair[c] = stored
                                 \/ pair[c] = c /\ {c, target[c]} \cap lost # {}

\* What was accepted was signed with the pair in the secret.
Kept == \A l \in accepted : stored # NoPair /\ token[l] = stored

Inv == TypeOK /\ NoEarly /\ Overtaken /\ Once /\ Signed /\ Held /\ Kept /\ RefusedOnlyFirst

\* No request has run.
LEMMA InvInit == Init => Inv
BY DesktopAssumption
DEF Init, Inv, TypeOK, NoEarly, Overtaken, Once, Signed, Held, Kept, RefusedOnlyFirst,
    Pairs, LaunchSteps, CallSteps, Answers

\* Caller c starts anew for desktop l at some step.
Restarts(c, l, step) ==
    /\ target' = [target EXCEPT ![c] = l]
    /\ pair' = [pair EXCEPT ![c] = NoPair]
    /\ Goto(c, step)
    /\ lost' = lost \ {c}
    /\ UNCHANGED <<stored, desktop, remains, app, accepted, token, early>>

\* A new call for a desktop that exists keeps the invariant.
LEMMA RestartKeeps ==
    ASSUME Inv, NEW c \in Callers, NEW l \in Launches, desktop[l] # "none",
           NEW step \in CallSteps, step # "create", step # "validate", Restarts(c, l, step)
    PROVE  Inv'
<1> USE DesktopAssumption DEF Inv, TypeOK, Restarts, Pairs, CallSteps, Goto
<1>1. \A k \in Launches : (k \in lost' <=> k \in lost) /\ pc'[k] = pc[k]
  OBVIOUS
<1>2. \A d \in Callers : d # c => (d \in lost' <=> d \in lost) /\ pc'[d] = pc[d]
                                /\ pair'[d] = pair[d] /\ target'[d] = target[d]
  OBVIOUS
<1>3. pc'[c] = step /\ target'[c] = l
  OBVIOUS
<1>4. TypeOK'
  BY DEF LaunchSteps, Answers
<1>5. NoEarly' /\ Kept'
  BY DEF NoEarly, Kept
<1>6. Overtaken' /\ Once' /\ Signed'
  BY <1>1 DEF Overtaken, Once, Signed
<1>7. Held'
  <2> SUFFICES ASSUME NEW d \in Callers
               PROVE  /\ pc'[d] \in CallSteps => target'[d] \in Launches /\ token'[target'[d]] # NoPair
                      /\ pc'[d] = "create"
                            => target'[d] \in lost' \/ (d \in lost' /\ stored' # NoPair)
                      /\ pc'[d] = "validate"
                            => \/ stored' # NoPair /\ pair'[d] = stored'
                               \/ pair'[d] = d /\ {d, target'[d]} \cap lost' # {}
    BY DEF Held
  <2>1. CASE d = c
    BY <1>3, <2>1 DEF Once
  <2>2. CASE d # c
    BY <1>1, <1>2, <2>2 DEF Held
  <2> QED
    BY <2>1, <2>2
<1>8. RefusedOnlyFirst'
  <2> SUFFICES ASSUME NEW d \in Callers, pc'[d] = "refused"
               PROVE  {d, target'[d]} \cap (early \cup lost') # {}
    BY DEF RefusedOnlyFirst
  <2>1. d # c
    BY <1>3
  <2>2. {d, target[d]} \cap (early \cup lost) # {}
    BY <1>2, <2>1 DEF RefusedOnlyFirst
  <2>3. early \subseteq Launches /\ d # c /\ (target[d] \in Launches \/ target[d] = NoDesktop)
    BY <2>1
  <2>4. CASE d \in early \cup lost
    BY <1>2, <2>1, <2>4
  <2>5. CASE target[d] \in early \cup lost
    BY <1>1, <1>2, <2>1, <2>3, <2>5
  <2> QED
    BY <2>2, <2>4, <2>5
<1> QED
  BY <1>4, <1>5, <1>6, <1>7, <1>8

\* Every step keeps the invariant.
LEMMA InvStep == Inv /\ [Next]_vars => Inv'
<1> SUFFICES ASSUME Inv, [Next]_vars PROVE Inv'
  OBVIOUS
<1>5. ASSUME NEW c \in Callers, NEW l \in Launches, StartCallback(c, l) PROVE Inv'
  <2>1. Restarts(c, l, "read") /\ desktop[l] # "none"
    BY <1>5 DEF StartCallback, Restarts, desktopVars
  <2>2. "read" \in CallSteps
    BY DEF CallSteps
  <2> QED
    BY <2>1, <2>2, RestartKeeps
<1>6. ASSUME NEW c \in Callers, NEW l \in Launches, StartByUser(c, l) PROVE Inv'
  <2>1. Restarts(c, l, "list") /\ desktop[l] # "none"
    BY <1>6 DEF StartByUser, Restarts, desktopVars
  <2>2. "list" \in CallSteps
    BY DEF CallSteps
  <2> QED
    BY <2>1, <2>2, RestartKeeps
<1> USE DesktopAssumption DEF Inv, TypeOK, NoEarly, Overtaken, Once, Signed, Held, Kept,
        RefusedOnlyFirst, Pairs, LaunchSteps, CallSteps, Answers, Goto, desktopVars, launchVars, callVars
<1>1. ASSUME NEW l \in Launches, StartLaunch(l) PROVE Inv'
  BY <1>1 DEF StartLaunch
<1>2. ASSUME NEW l \in Launches, ReadForLaunch(l) PROVE Inv'
  BY <1>2 DEF ReadForLaunch, NoSecretRead
<1>3. ASSUME NEW l \in Launches, CreateForLaunch(l) PROVE Inv'
  BY <1>3 DEF CreateForLaunch, CreateSecret
<1>4. ASSUME NEW l \in Launches, CreateDesktop(l) PROVE Inv'
  BY <1>4 DEF CreateDesktop
<1>7. ASSUME NEW c \in Callers, ReadForCall(c) PROVE Inv'
  <2>1. pc[c] = "read" /\ UNCHANGED <<stored, desktop, remains, app, target, accepted, token, early>>
    BY <1>7 DEF ReadForCall
  <2>2. CASE KubectlMayFail /\ Goto(c, "failed") /\ UNCHANGED <<pair, lost>>
    BY <2>1, <2>2
  <2>3. CASE stored # NoPair /\ Goto(c, "validate") /\ pair' = [pair EXCEPT ![c] = stored]
             /\ UNCHANGED lost
    BY <2>1, <2>3
  <2>4. CASE stored = NoPair /\ UNCHANGED <<lost, pair>> /\ Goto(c, "create")
    BY <2>1, <2>4
  <2>5. CASE stored # NoPair /\ lost' = lost \cup {c} /\ UNCHANGED pair /\ Goto(c, "create")
    <3>1. \A l \in Launches : l \in lost' <=> l \in lost
      BY <2>5
    <3>2. TypeOK' /\ NoEarly'
      BY <2>1, <2>5
    <3>3. Overtaken' /\ Once' /\ Signed' /\ Kept'
      BY <2>1, <2>5, <3>1
    <3>4. Held' /\ RefusedOnlyFirst'
      BY <2>1, <2>5, <3>1
    <3> QED
      BY <3>2, <3>3, <3>4
  <2> QED
    BY <1>7, <2>1, <2>2, <2>3, <2>4, <2>5 DEF ReadForCall, NoSecretRead
<1>8. ASSUME NEW c \in Callers, CreateForCall(c) PROVE Inv'
  BY <1>8 DEF CreateForCall, CreateSecret
<1>9. ASSUME NEW c \in Callers, Validate(c) PROVE Inv'
  BY <1>9 DEF Validate
<1>10. ASSUME NEW c \in Callers, FindSession(c) PROVE Inv'
  BY <1>10 DEF FindSession
<1>11. ASSUME NEW c \in Callers, ListPods(c) PROVE Inv'
  BY <1>11 DEF ListPods
<1>12. ASSUME NEW c \in Callers, CreateApp(c) PROVE Inv'
  BY <1>12 DEF CreateApp
<1>13. ASSUME NEW p \in Pairs, Crash(p) PROVE Inv'
  BY <1>13 DEF Crash
<1>14. ASSUME NEW l \in Launches, PodUp(l) PROVE Inv'
  BY <1>14 DEF PodUp, SetDesktop
<1>15. ASSUME NEW l \in Launches, PodLost(l) PROVE Inv'
  BY <1>15 DEF PodLost, SetDesktop
<1>16. ASSUME NEW l \in Launches, EndDesktop(l) PROVE Inv'
  BY <1>16 DEF EndDesktop, SetDesktop
<1>17. ASSUME NEW l \in Launches, PodsGone(l) PROVE Inv'
  BY <1>17 DEF PodsGone, SetDesktop
<1>18. ASSUME NEW a \in Apps, EndApp(a) PROVE Inv'
  BY <1>18 DEF EndApp
<1>19. ASSUME NEW l \in Launches, Complete(l) \/ RemoveRemains(l) PROVE Inv'
  BY <1>19 DEF Complete, RemoveRemains, SetDesktop
<1>20. CASE UNCHANGED vars
  BY <1>20 DEF vars
<1> QED
  BY <1>1, <1>2, <1>3, <1>4, <1>5, <1>6, <1>7, <1>8, <1>9, <1>10, <1>11, <1>12, <1>13, <1>14, <1>15,
     <1>16, <1>17, <1>18, <1>19, <1>20
  DEF Next, Launch, Call, DeleteApp, ExpireApp

\* For any number of launches and callbacks at once, a desktop's token is refused only
\* when its launch had found no secret before the secret was created, or failed to
\* create it, or when its launch or its call could not read it.
THEOREM RefusedOnlyFirstAlways == Spec => []RefusedOnlyFirst
<1>1. Inv => RefusedOnlyFirst
  BY DEF Inv
<1> QED
  BY InvInit, InvStep, <1>1, PTL DEF Spec

\* For any number of launches and callbacks at once, a token that was accepted is not
\* refused later to a call that can read the key pair.
THEOREM AcceptedStaysAlways == Spec => AcceptedStays
<1>1. Inv /\ [Next]_vars
        => [\A c \in Callers \ lost :
               pc[c] = "validate" /\ pc'[c] = "refused" => target[c] \notin accepted]_vars
  <2> SUFFICES ASSUME Inv, [Next]_vars, NEW c \in Callers, c \notin lost,
                      pc[c] = "validate", pc'[c] = "refused", target[c] \in accepted
               PROVE  FALSE
    OBVIOUS
  <2>1. Inv'
    BY InvStep
  <2>2. target[c] \in Launches /\ token[target[c]] = stored /\ stored # NoPair
    BY DEF Inv, TypeOK, Kept
  <2>3. target[c] \notin early \cup lost
    BY <2>2 DEF Inv, Signed
  <2>4. pair[c] = stored
    BY <2>3 DEF Inv, Held
  <2>5. ~Validate(c)
    BY <2>2, <2>4 DEF Validate, Goto, Inv, TypeOK, Pairs
  <2>6. pc \in [Pairs -> {"idle"} \cup LaunchSteps \cup CallSteps \cup Answers]
    BY DEF Inv, TypeOK
  <2>7. ASSUME NEW q \in Pairs, NEW step, Goto(q, step), q # c \/ step # "refused" PROVE FALSE
    BY <2>6, <2>7 DEF Goto, Pairs
  <2>8. ASSUME NEW l \in Launches, Launch(l) PROVE FALSE
    <3>1. l \in Pairs /\ l # c
      BY DesktopAssumption DEF Pairs
    <3>2. \E step : Goto(l, step)
      BY <2>8 DEF Launch, StartLaunch, ReadForLaunch, CreateForLaunch, CreateDesktop
    <3> QED
      BY <3>1, <3>2, <2>7
  <2>9. ASSUME NEW q \in Callers, Call(q) PROVE FALSE
    <3>1. q \in Pairs
      BY DEF Pairs
    <3>2. CASE q # c
      <4>1. \E step : Goto(q, step)
        BY <2>9 DEF Call, StartCallback, StartByUser, ReadForCall, CreateForCall, Validate,
           FindSession, ListPods, CreateApp
      <4> QED
        BY <3>1, <3>2, <4>1, <2>7
    <3>3. CASE q = c
      BY <3>3, <2>5, <2>9
      DEF Call, StartCallback, StartByUser, ReadForCall, CreateForCall, FindSession,
          ListPods, CreateApp, Answers
    <3> QED
      BY <3>2, <3>3
  <2>10. ASSUME NEW p \in Pairs, Crash(p) PROVE FALSE
    BY <2>10, <2>7 DEF Crash
  <2>11. UNCHANGED pc => FALSE
    OBVIOUS
  <2> QED
    BY <2>8, <2>9, <2>10, <2>11
    DEF Next, PodUp, PodLost, Complete, EndDesktop, PodsGone, RemoveRemains, SetDesktop,
        DeleteApp, ExpireApp, EndApp, vars
<1> QED
  BY InvInit, InvStep, <1>1, PTL DEF Spec, AcceptedStays

\* A request that goes on to attach an app has listed a pod that is not being deleted.
LEMMA StaysClosed ==
    ASSUME Inv, [Next]_vars, NEW l \in Launches, Closed(l)
    PROVE  Closed(l)'
<1> USE DesktopAssumption DEF Closed, Inv, TypeOK, Pairs, Goto, desktopVars, launchVars, callVars
<1>1. ASSUME NEW k \in Launches, Launch(k) PROVE Closed(l)'
  <2>1. CASE StartLaunch(k) \/ ReadForLaunch(k) \/ CreateForLaunch(k)
    BY <2>1 DEF StartLaunch, ReadForLaunch, CreateForLaunch
  <2>2. CASE CreateDesktop(k)
    BY <2>2 DEF CreateDesktop, Once
  <2> QED
    BY <1>1, <2>1, <2>2 DEF Launch
<1>2. ASSUME NEW c \in Callers, Call(c) PROVE Closed(l)'
  <2>1. CASE \E k \in Launches : StartCallback(c, k) \/ StartByUser(c, k)
    BY <2>1 DEF StartCallback, StartByUser
  <2>2. CASE ReadForCall(c) \/ CreateForCall(c) \/ Validate(c) \/ FindSession(c)
    BY <2>2 DEF ReadForCall, CreateForCall, Validate, FindSession
  <2>3. CASE ListPods(c)
    BY <2>3 DEF ListPods
  <2>4. CASE CreateApp(c)
    BY <2>4 DEF CreateApp
  <2> QED
    BY <1>2, <2>1, <2>2, <2>3, <2>4 DEF Call
<1>3. ASSUME NEW p \in Pairs, Crash(p) PROVE Closed(l)'
  BY <1>3 DEF Crash
<1>4. ASSUME NEW k \in Launches,
             \/ PodUp(k) \/ PodLost(k) \/ Complete(k)
             \/ EndDesktop(k) \/ PodsGone(k) \/ RemoveRemains(k)
      PROVE  Closed(l)'
  BY <1>4 DEF PodUp, PodLost, Complete, EndDesktop, PodsGone, RemoveRemains, SetDesktop
<1>5. ASSUME NEW a \in Apps, DeleteApp(a) \/ ExpireApp(a) PROVE Closed(l)'
  BY <1>5 DEF DeleteApp, ExpireApp, EndApp
<1>6. CASE UNCHANGED vars
  BY <1>6 DEF vars
<1> QED
  BY <1>1, <1>2, <1>3, <1>4, <1>5, <1>6 DEF Next

\* An app is attached by a request at its last step only.
LEMMA NoMoreApps ==
    ASSUME Inv, [Next]_vars, NEW l \in Launches, Closed(l), NEW a \in Apps, app'[a] = l
    PROVE  app[a] = l
<1> USE DesktopAssumption DEF Inv, TypeOK, Pairs, launchVars, callVars, desktopVars
<1>1. CASE UNCHANGED app
  BY <1>1
<1>2. ASSUME NEW c \in Callers, CreateApp(c) PROVE app[a] = l
  BY <1>2 DEF CreateApp, Closed
<1>3. ASSUME NEW b \in Apps, EndApp(b) PROVE app[a] = l
  BY <1>3 DEF EndApp
<1> QED
  BY <1>1, <1>2, <1>3
  DEF Next, Launch, StartLaunch, ReadForLaunch, CreateForLaunch, CreateDesktop, Call, StartCallback,
      StartByUser, ReadForCall, CreateForCall, Validate, FindSession, ListPods, Crash, PodUp,
      PodLost, Complete, EndDesktop, PodsGone, RemoveRemains, SetDesktop, DeleteApp, ExpireApp, vars

\* For any number of desktops, callbacks and apps, a desktop once closed is closed for
\* good, and its apps only become fewer.
THEOREM AppsDwindleAlways == Spec => AppsDwindle
<1>1. ASSUME Inv, [Next]_vars, NEW l \in Launches, Closed(l)
      PROVE  Closed(l)' /\ {a \in Apps : app'[a] = l} \subseteq {a \in Apps : app[a] = l}
  BY <1>1, StaysClosed, NoMoreApps
<1>2. Inv /\ [Next]_vars
        => [\A l \in Launches : Closed(l) =>
               /\ Closed(l)'
               /\ {a \in Apps : app'[a] = l} \subseteq {a \in Apps : app[a] = l}]_vars
  BY <1>1
<1> QED
  BY InvInit, InvStep, <1>2, PTL DEF Spec, AppsDwindle

\* The variables have the values that the module says.
THEOREM TypeCorrect == Spec => []TypeOK
<1>1. Inv => TypeOK
  BY DEF Inv
<1> QED
  BY InvInit, InvStep, <1>1, PTL DEF Spec
=============================================================================
