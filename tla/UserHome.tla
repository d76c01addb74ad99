-------------------------------- MODULE UserHome --------------------------------
(***************************************************************************)
(* The home directory of one user.  A POST that finds no home runs the     *)
(* script add-user to make it; every POST then puts a proxy certificate    *)
(* into it and creates its job, whose init containers and sessions use the *)
(* home.  Any number of POSTs of the user do this at the same time, on any *)
(* replica; they share nothing but the file system.                        *)
(*                                                                         *)
(* A request slot r is one POST, reused after its answer.                  *)
(***************************************************************************)
CONSTANTS
    Requests,
    MayBreak    \* may a command or service fail, or a replica stop

ASSUME HomeAssumption == MayBreak \in BOOLEAN

VARIABLES
    pc,      \* pc[r]: the next step of the POST or of the script it waits for
    home,    \* what there is of the home directory
    broken,  \* history: has a script stopped half way, other than for another script
    unseen   \* history: the POSTs that went on after a failure of their own which they
             \*     did not see: the script would not begin, or the certificate failed

vars == <<pc, home, broken, unseen>>

\* What the script makes, in its order; "cert" is the certificate a POST adds.
Made == {"directory", "config", ".ssl", ".casa", "quota"}
Script == {"mkdir", "config", ".ssl", ".casa", "quota"}

TypeOK ==
    /\ pc \in [Requests -> {"idle", "check", "cert", "launch", "ok", "failed"} \cup Script]
    /\ home \subseteq Made \cup {"cert"}
    /\ broken \in BOOLEAN
    /\ unseen \subseteq Requests

Init ==
    /\ pc = [r \in Requests |-> "idle"]
    /\ home = {}
    /\ broken = FALSE
    /\ unseen = {}

Goto(r, p) == pc' = [pc EXCEPT ![r] = p]

Start(r) ==
    /\ pc[r] \in {"idle", "ok", "failed"}
    /\ Goto(r, "check")
    /\ unseen' = unseen \ {r}
    /\ UNCHANGED <<home, broken>>

\* ensureUserBase: Files.notExists of the home directory.
EnsureUserBase(r) ==
    /\ pc[r] = "check"
    /\ Goto(r, IF "directory" \in home THEN "cert" ELSE "mkdir")
    /\ UNCHANGED <<home, broken, unseen>>

\* mkdir -p and cp: they do not mind what is there already.
Make(r, step, what, next) ==
    /\ pc[r] = step
    /\ home' = home \cup {what}
    /\ Goto(r, next)
    /\ UNCHANGED <<broken, unseen>>

\* Mutant of MakeDir: mkdir -p, as for the home directory.
MakeDirAnyway(r, dir, next) ==
    /\ pc[r] = dir
    /\ home' = home \cup {dir}
    /\ Goto(r, next)
    /\ UNCHANGED <<broken, unseen>>

\* mkdir of a directory that is there fails, and set -e ends the script; its error
\* output makes allocateUser throw.
MakeDir(r, dir, next) ==
    /\ pc[r] = dir
    /\ IF dir \in home THEN Goto(r, "failed") ELSE Goto(r, next)
    /\ home' = home \cup {dir}
    /\ UNCHANGED <<broken, unseen>>

\* The script finds an argument or one of its configuration files missing and exits
\* with 2.  It says so on stdout; the code looks at stderr, and goes on.
Decline(r) ==
    /\ MayBreak
    /\ pc[r] = "mkdir"
    /\ Goto(r, "cert")
    /\ unseen' = unseen \cup {r}
    /\ UNCHANGED <<home, broken>>

\* Mutant of AddUser: the script has no quota to set.
AddUserWithoutQuota(r) ==
    \/ Make(r, "mkdir", "directory", "config")
    \/ Make(r, "config", "config", ".ssl")
    \/ MakeDir(r, ".ssl", ".casa")
    \/ MakeDir(r, ".casa", "cert")

AddUser(r) ==
    \/ Decline(r)
    \/ Make(r, "mkdir", "directory", "config")
    \/ Make(r, "config", "config", ".ssl")
    \/ MakeDir(r, ".ssl", ".casa")
    \/ MakeDir(r, ".casa", "quota")
    \/ Make(r, "quota", "quota", "cert")

\* Mutant of InjectCertificate: mv into the home itself, under the name of the
\* temporary file.
InjectUnderOwnName(r) ==
    /\ pc[r] = "cert"
    /\ home' = home \cup {"tmp"}
    /\ Goto(r, "launch")
    /\ UNCHANGED <<broken, unseen>>

\* injectProxyCertificate: mv of the certificate into .ssl; that it fails when there
\* is no .ssl is not seen.  Nor is it when there is no credential service, when the
\* service fails, or when chown or mv does: .ssl then holds what it held, or, after a
\* failed chown, a certificate that is not the user's own.
InjectCertificate(r) ==
    /\ pc[r] = "cert"
    /\ \/ /\ home' = IF ".ssl" \in home THEN home \cup {"cert"} ELSE home
          /\ UNCHANGED unseen
       \/ /\ MayBreak
          /\ home' \in {home, home \ {"cert"}}
          /\ unseen' = unseen \cup {r}
    /\ Goto(r, "launch")
    /\ UNCHANGED broken

Launch(r) ==
    /\ pc[r] = "launch"
    /\ Goto(r, "ok")
    /\ UNCHANGED <<home, broken, unseen>>

\* A command of the script fails (a full disk, attributes that the file system does
\* not know), or the replica stops, and the script with it.  Nothing is undone.
Break(r) ==
    /\ MayBreak
    /\ pc[r] \in {"check", "cert", "launch"} \cup Script
    /\ Goto(r, "failed")
    /\ broken' = (broken \/ pc[r] \in Script)
    /\ UNCHANGED <<home, unseen>>

\* The script is killed: it stops half way with nothing on stderr, and allocateUser
\* takes it for a success.
BreakUnseen(r) ==
    /\ MayBreak
    /\ pc[r] \in Script
    /\ Goto(r, "cert")
    /\ broken' = TRUE
    /\ UNCHANGED <<home, unseen>>

Handler(r) == EnsureUserBase(r) \/ AddUser(r) \/ InjectCertificate(r) \/ Launch(r)

Next == \E r \in Requests : Start(r) \/ Handler(r) \/ Break(r) \/ BreakUnseen(r)

Spec == Init /\ [][Next]_vars

\* A POST that has started runs on, and its script with it.
FairSpec == Spec /\ \A r \in Requests : WF_vars(Handler(r))

-----------------------------------------------------------------------------

\* POSTs that all found no home all run the script.  The mkdir of .ssl lets one of
\* them past: the rest of the home, an archive unpacked in place and the quota, is
\* never made by two scripts at once.
OneScriptPastSsl ==
    \A r, q \in Requests : pc[r] \in {".casa", "quota"} /\ pc[q] \in {".casa", "quota"} => r = q

\* A POST looks only at the directory itself, so what it takes for a home may be a
\* part of one.  But it is a part only while a script that will finish it is under
\* way, or when a script broke; the scripts that lose the race do no harm.
MadeOrBeingMade ==
    "directory" \in home /\ ~(Made \subseteq home) /\ ~broken
        => \E r \in Requests : pc[r] \in Script \ {"mkdir"}

\* A POST may launch without a certificate, unseen.  When neither the certificate nor
\* its own script is to blame it is because .ssl is not there, and that is so only while
\* another POST's script has yet to make it, or when a script broke: a POST that did
\* find a home in place, or made it, finds the directory too.
CertificateMissedOnlyEarly ==
    [][\A r \in Requests : pc[r] = "cert" /\ pc'[r] = "launch" =>
          \/ "cert" \in home'
          \/ r \in unseen'
          \/ broken
          \/ \E q \in Requests : pc[q] \in {"config", ".ssl"}]_vars

\* A home that is begun is finished, although the scripts that make it may fail at
\* each other's directories, unless a script breaks.
HomeFinished == "directory" \in home ~> Made \subseteq home \/ broken
=============================================================================
