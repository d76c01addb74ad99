----------------------------- MODULE UserHomeProofs -----------------------------
(* The home directory under any number of concurrent POSTs.  *)
EXTENDS UserHome, TLAPS

\* A script past the mkdir of .ssl has made .ssl, and nobody else gets past it.
Past == \A r \in Requests : pc[r] \in {".casa", "quota"} => ".ssl" \in home

\* What is missing of a home is what the steps of the scripts under way still make.
Before == ~broken /\ "directory" \in home /\ ".ssl" \notin home
            => \E r \in Requests : pc[r] \in {"config", ".ssl"}
After == ~broken /\ ".ssl" \in home /\ ~(Made \subseteq home)
            => \E r \in Requests : /\ pc[r] \in {".casa", "quota"}
                                   /\ pc[r] = "quota" => ".casa" \in home
                                   /\ {"directory", "config"} \subseteq home
Ready ==
    /\ ".casa" \in home => ".ssl" \in home
    /\ \A r \in Requests :
          /\ pc[r] = "config" => "directory" \in home
          /\ pc[r] = ".ssl" => {"directory", "config"} \subseteq home
          /\ pc[r] = ".casa" => ".casa" \notin home
          /\ pc[r] \in {".casa", "quota"} => "directory" \in home
          /\ pc[r] = "cert" /\ ~broken /\ r \notin unseen => "directory" \in home

Inv == TypeOK /\ Past /\ OneScriptPastSsl /\ Before /\ After /\ Ready

\* There is no home.
LEMMA InvInit == Init => Inv
BY HomeAssumption
DEF Init, Inv, TypeOK, Past, OneScriptPastSsl, Before, After, Ready, Made, Script

\* Every step of every POST and script keeps the invariant.
LEMMA InvStep == Inv /\ [Next]_vars => Inv'
<1> SUFFICES ASSUME Inv, [Next]_vars PROVE Inv'
  OBVIOUS
<1> USE HomeAssumption
    DEF Inv, TypeOK, Past, OneScriptPastSsl, Before, After, Ready, Made, Script, Goto
<1>1. ASSUME NEW r \in Requests, Start(r) PROVE Inv'
  BY <1>1 DEF Start
<1>2. ASSUME NEW r \in Requests, EnsureUserBase(r) PROVE Inv'
  BY <1>2 DEF EnsureUserBase
<1>3. ASSUME NEW r \in Requests, Make(r, "mkdir", "directory", "config") PROVE Inv'
  BY <1>3 DEF Make
<1>4. ASSUME NEW r \in Requests, Make(r, "config", "config", ".ssl") PROVE Inv'
  BY <1>4 DEF Make
<1>5. ASSUME NEW r \in Requests, MakeDir(r, ".ssl", ".casa") PROVE Inv'
  BY <1>5 DEF MakeDir
<1>6. ASSUME NEW r \in Requests, MakeDir(r, ".casa", "quota") PROVE Inv'
  BY <1>6 DEF MakeDir
<1>7. ASSUME NEW r \in Requests, Make(r, "quota", "quota", "cert") PROVE Inv'
  BY <1>7 DEF Make
<1>8. ASSUME NEW r \in Requests, InjectCertificate(r) \/ Launch(r) PROVE Inv'
  BY <1>8 DEF InjectCertificate, Launch
<1>9. ASSUME NEW r \in Requests, Break(r) PROVE Inv'
  BY <1>9 DEF Break
<1>10. ASSUME NEW r \in Requests, BreakUnseen(r) PROVE Inv'
  BY <1>10 DEF BreakUnseen
<1>11. ASSUME NEW r \in Requests, Decline(r) PROVE Inv'
  BY <1>11 DEF Decline
<1>12. CASE UNCHANGED vars
  BY <1>12 DEF vars
<1> QED
  BY <1>1, <1>2, <1>3, <1>4, <1>5, <1>6, <1>7, <1>8, <1>9, <1>10, <1>11, <1>12
  DEF Next, Handler, AddUser

\* Whatever breaks, no two scripts ever make the part of a home that comes after .ssl
\* at the same time.
THEOREM OneScriptAlways == Spec => []OneScriptPastSsl
<1>1. Inv => OneScriptPastSsl
  BY DEF Inv
<1> QED
  BY InvInit, InvStep, <1>1, PTL DEF Spec

\* As long as no script breaks, a home that is not complete is being completed.
THEOREM MadeOrBeingMadeAlways == Spec => []MadeOrBeingMade
<1>1. Inv => MadeOrBeingMade
  BY DEF Inv, Before, After, MadeOrBeingMade, Script
<1> QED
  BY InvInit, InvStep, <1>1, PTL DEF Spec

\* A certificate that could be injected is missed only while .ssl is still to be made, or
\* after a script declined or broke.
THEOREM CertificateMissedOnlyEarlyAlways == Spec => CertificateMissedOnlyEarly
<1> DEFINE A == \A r \in Requests : pc[r] = "cert" /\ pc'[r] = "launch" =>
                   \/ "cert" \in home'
                   \/ r \in unseen'
                   \/ broken
                   \/ \E q \in Requests : pc[q] \in {"config", ".ssl"}
<1>1. ASSUME Inv, Next PROVE A
  <2> SUFFICES ASSUME NEW r \in Requests, pc[r] = "cert", pc'[r] = "launch",
                      "cert" \notin home', r \notin unseen', ~broken
               PROVE  \E q \in Requests : pc[q] \in {"config", ".ssl"}
    OBVIOUS
  <2>1. InjectCertificate(r)
    BY <1>1 DEF Inv, TypeOK, Next, Handler, Start, EnsureUserBase, AddUser, Make, MakeDir,
                InjectCertificate, Launch, Break, BreakUnseen, Decline, Goto
  <2>2. ".ssl" \notin home /\ r \notin unseen
    BY <2>1 DEF InjectCertificate
  <2>3. "directory" \in home
    BY <1>1, <2>2 DEF Inv, Ready
  <2> QED
    BY <1>1, <2>2, <2>3 DEF Inv, Before
<1>2. ASSUME UNCHANGED vars PROVE A
  BY <1>2 DEF vars
<1>3. Inv /\ [Next]_vars => [A]_vars
  BY <1>1, <1>2
<1> QED
  BY InvInit, InvStep, <1>3, PTL DEF Spec, CertificateMissedOnlyEarly

\* The variables have the values that the module says.
THEOREM TypeCorrect == Spec => []TypeOK
<1>1. Inv => TypeOK
  BY DEF Inv
<1> QED
  BY InvInit, InvStep, <1>1, PTL DEF Spec
=============================================================================
