-------------------------- MODULE RegistrySecretProofs --------------------------
(* Safety of the image pull secret for any number of concurrent POSTs.  *)
EXTENDS RegistrySecret, FiniteSetTheorems, TLAPS

\* A POST about to create the secret, or past that, tried to delete it before the
\* secret that is there was created.
Waiting ==
    \A r \in Requests :
        secret # NoSecret /\ pc[r] \in {"create", "launch", "done"} => r \in late \cup kept

\* Only a POST that has done its work has a pod.
Launching == \A r \in Requests : pod[r] # "none" => pc[r] = "done"

Inv == TypeOK /\ MissingOnlyInRefresh /\ Waiting /\ Launching

\* No POST has run.
LEMMA InvInit == Init => Inv
BY SecretAssumption DEF Init, Inv, TypeOK, MissingOnlyInRefresh, Launched, Waiting,
   Launching

\* Every step of every POST and kubelet keeps the invariant.
LEMMA InvStep == Inv /\ [Next]_vars => Inv'
<1> SUFFICES ASSUME Inv, [Next]_vars PROVE Inv'
  OBVIOUS
<1> USE SecretAssumption DEF Inv, TypeOK, MissingOnlyInRefresh, Launched, Waiting,
           Launching, Goto
<1>1. ASSUME NEW r \in Requests, Start(r) PROVE Inv'
  BY <1>1 DEF Start
<1>2. ASSUME NEW r \in Requests, DeleteSecret(r) PROVE Inv'
  BY <1>2 DEF DeleteSecret
<1>3. ASSUME NEW r \in Requests, CreateSecret(r) PROVE Inv'
  BY <1>3 DEF CreateSecret
<1>4. ASSUME NEW r \in Requests, Launch(r) PROVE Inv'
  BY <1>4 DEF Launch
<1>5. ASSUME NEW r \in Requests, Crash(r) PROVE Inv'
  BY <1>5 DEF Crash
<1>6. ASSUME NEW r \in Requests, Pull(r) PROVE Inv'
  BY <1>6 DEF Pull
<1>7. CASE UNCHANGED vars
  BY <1>7 DEF vars
<1> QED
  BY <1>1, <1>2, <1>3, <1>4, <1>5, <1>6, <1>7 DEF Next, Handler

\* However many POSTs of a user overlap, fail or crash, the secret is missing after
\* a launch only while one of them is replacing it or because one failed there.
THEOREM MissingOnlyInRefreshAlways == Spec => []MissingOnlyInRefresh
<1>1. Inv => MissingOnlyInRefresh
  BY DEF Inv
<1> QED
  BY InvInit, InvStep, <1>1, PTL DEF Spec

\* No POST goes on with credentials that were stored before it began, unless its own
\* delete failed.
THEOREM NeverOlderAlways == Spec => NeverOlder
<1> DEFINE Step == \A r \in Requests :
                      pc[r] = "create" /\ pc'[r] = "launch" /\ secret' # NoSecret
                          => r \in late' \cup kept'
<1>1. Inv /\ [Next]_vars => Step
  <2> SUFFICES ASSUME Inv, [Next]_vars, NEW r \in Requests,
                      pc[r] = "create", pc'[r] = "launch", secret' # NoSecret
               PROVE  r \in late' \cup kept'
    OBVIOUS
  <2> USE DEF Inv, TypeOK, Waiting, Goto
  <2>1. ASSUME NEW q \in Requests, Start(q) PROVE FALSE
    BY <2>1 DEF Start
  <2>2. ASSUME NEW q \in Requests, DeleteSecret(q) PROVE FALSE
    BY <2>2 DEF DeleteSecret
  <2>3. ASSUME NEW q \in Requests, CreateSecret(q) PROVE r \in late' \cup kept'
    BY <2>3 DEF CreateSecret
  <2>4. ASSUME NEW q \in Requests, Launch(q) \/ Crash(q) \/ Pull(q) PROVE FALSE
    BY <2>4 DEF Launch, Crash, Pull
  <2>5. CASE UNCHANGED vars
    BY <2>5 DEF vars
  <2> QED
    BY <2>1, <2>2, <2>3, <2>4, <2>5 DEF Next, Handler
<1>2. Inv /\ [Next]_vars => [Step]_vars
  BY <1>1
<1> QED
  BY InvInit, InvStep, <1>2, PTL DEF Spec, NeverOlder

\* A kubelet never pulls with credentials that were stored before the launch of the
\* session began, unless that launch's own delete failed.
THEOREM PullsNeverOlderAlways == Spec => PullsNeverOlder
<1> DEFINE Step == \A r \in Requests :
                      pod[r] = "pulling" /\ pod'[r] = "running" => r \in late \cup kept
<1>1. Inv /\ [Next]_vars => Step
  <2> SUFFICES ASSUME Inv, [Next]_vars, NEW r \in Requests,
                      pod[r] = "pulling", pod'[r] = "running"
               PROVE  r \in late \cup kept
    OBVIOUS
  <2>1. secret # NoSecret
    BY DEF Next, Handler, Start, DeleteSecret, CreateSecret, Launch, Crash, Pull, vars,
       Inv, TypeOK
  <2>2. pc[r] = "done"
    BY DEF Inv, Launching
  <2> QED
    BY <2>1, <2>2 DEF Inv, Waiting
<1>2. Inv /\ [Next]_vars => [Step]_vars
  BY <1>1
<1> QED
  BY InvInit, InvStep, <1>2, PTL DEF Spec, PullsNeverOlder

-----------------------------------------------------------------------------
(* A burst of launches comes to rest.                                      *)

\* When every POST is over, the secret is missing only because a create failed.
THEOREM PulledAtRestAlways == Spec => []PulledAtRest
<1>1. Inv => PulledAtRest
  <2> SUFFICES ASSUME Inv, AtRest, NEW r \in Requests, pod[r] = "pulling", lost = {}
               PROVE  secret # NoSecret /\ reg[secret] # reg[r]
    BY DEF PulledAtRest
  <2>1. Launched /\ \A q \in Requests : pc[q] # "create"
    BY DEF Inv, Launching, Launched, AtRest
  <2>2. secret # NoSecret
    BY <2>1 DEF Inv, MissingOnlyInRefresh
  <2> QED
    BY <2>2 DEF AtRest
<1> QED
  BY InvInit, InvStep, <1>1, PTL DEF Spec

\* The number of steps before a request: five at most, but for one that is not begun
\* and has a pod, of which TypeOK alone says nothing.
LEMMA LeftBound == ASSUME TypeOK, NEW r \in Requests PROVE Left(r) \in 0..6
BY DEF TypeOK, Left

\* A step of one request takes something away from what is before it, and leaves the
\* others as they are.
LEMMA OneDoesLess ==
    ASSUME TypeOK, Launching, NEW r \in Requests,
           Start(r) \/ Handler(r) \/ Crash(r) \/ Pull(r)
    PROVE  /\ Left(r)' < Left(r) /\ Left(r) <= 5
           /\ \A q \in Requests \ {r} : Left(q)' = Left(q)
<1> USE DEF TypeOK, Launching, Left, Goto
<1>1. CASE Start(r)
  BY <1>1 DEF Start
<1>2. CASE DeleteSecret(r)
  BY <1>2 DEF DeleteSecret
<1>3. CASE CreateSecret(r)
  BY <1>3 DEF CreateSecret
<1>4. CASE Launch(r)
  BY <1>4 DEF Launch
<1>5. CASE Crash(r)
  BY <1>5 DEF Crash
<1>6. CASE Pull(r)
  BY <1>6 DEF Pull
<1> QED
  BY <1>1, <1>2, <1>3, <1>4, <1>5, <1>6 DEF Handler

\* A burst is a finite number of steps, for any number of requests: each step leaves
\* fewer before it than there were.
THEOREM BurstEndsAlways == Spec => BurstEnds
<1>1. Inv /\ [Next]_vars => [Cardinality(Before') < Cardinality(Before)]_vars
  <2> SUFFICES ASSUME Inv, Next PROVE Cardinality(Before') < Cardinality(Before)
    OBVIOUS
  <2>1. PICK r \in Requests : Start(r) \/ Handler(r) \/ Crash(r) \/ Pull(r)
    BY DEF Next
  <2>2. TypeOK'
    BY InvStep DEF Inv
  <2>3. /\ Left(r)' < Left(r) /\ Left(r) <= 5
        /\ \A q \in Requests \ {r} : Left(q)' = Left(q)
    BY <2>1, OneDoesLess DEF Inv
  <2>4. Left(r) \in Nat /\ Left(r)' \in Nat
    BY <2>2, LeftBound DEF Inv, TypeOK, Left
  <2>5. Before' \subseteq Before
    BY <2>3, <2>4 DEF Before
  <2>6. <<r, Left(r)>> \in Before \ Before'
    BY <2>3, <2>4 DEF Before
  <2>7. IsFiniteSet(Requests \X (1..5))
    <3>1. IsFiniteSet(1..5)
      BY FS_Interval, 1 \in Int, 5 \in Int
    <3> QED
      BY <3>1, SecretAssumption, FS_Product
  <2>8. IsFiniteSet(Before)
    BY <2>7, FS_Subset DEF Before
  <2>9. /\ Cardinality(Before') <= Cardinality(Before)
        /\ Cardinality(Before) = Cardinality(Before') => Before = Before'
    BY <2>5, <2>8, FS_Subset
  <2>10. Cardinality(Before) \in Nat /\ Cardinality(Before') \in Nat
    BY <2>5, <2>8, FS_Subset, FS_CardinalityType
  <2> QED
    BY <2>6, <2>9, <2>10
<1> QED
  BY InvInit, InvStep, <1>1, PTL DEF Spec, BurstEnds

\* The variables have the values that the module says.
THEOREM TypeCorrect == Spec => []TypeOK
<1>1. Inv => TypeOK
  BY DEF Inv
<1> QED
  BY InvInit, InvStep, <1>1, PTL DEF Spec
=============================================================================
