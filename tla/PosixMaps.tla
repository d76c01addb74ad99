-------------------------------- MODULE PosixMaps --------------------------------
(***************************************************************************)
(* A POST of UserHome, with the step it takes between the certificate and  *)
(* the job: writing what the POSIX mapper knows of users and groups into   *)
(* two sets in Redis, which the containers of the sessions read.  Each set *)
(* is written by one transaction of adds, out of a list that was read      *)
(* before; nothing is ever removed but by a purge of the administrator.    *)
(***************************************************************************)
EXTENDS UserHome

CONSTANTS
    UserEntries,    \* lines the mapper may have for users
    GroupEntries    \* and for groups

ASSUME EntriesAssumption == UserEntries \cap GroupEntries = {}

VARIABLES
    mapper,    \* the entries the POSIX mapper has
    redis,     \* the members of users:posix and of groups:posix
    at,        \* at[r]: the next step of writePOSIXEntries in a POST at "launch"
    queued,    \* queued[r]: the adds of the transaction it is about to execute
    owed,      \* history: owed[r] is what the mapper has had since r came, but for
               \*     what a purge took away after r had written it
    excused    \* history: the entries changed since the last purge, or before it while
               \*     a POST was writing the list they were in

mapVars == <<mapper, redis, at, queued, owed, excused>>
allVars == <<vars, mapVars>>

Entries == UserEntries \cup GroupEntries

MapsTypeOK ==
    /\ TypeOK
    /\ mapper \subseteq Entries
    /\ redis \subseteq Entries
    /\ at \in [Requests -> {"users", "execUsers", "groups", "execGroups", "written"}]
    /\ queued \in [Requests -> SUBSET Entries]
    /\ owed \in [Requests -> SUBSET Entries]
    /\ excused \subseteq Entries

MapsInit ==
    /\ Init
    /\ mapper \in SUBSET Entries
    /\ redis = {}
    /\ at = [r \in Requests |-> "users"]
    /\ queued = [r \in Requests |-> {}]
    /\ owed = [r \in Requests |-> {}]
    /\ excused = {}

-----------------------------------------------------------------------------
(* writePOSIXEntries.                                                      *)

\* Mutant of Read: groups are queued along with the users.
ReadBoth(r, step, kind, next) ==
    /\ pc[r] = "launch" /\ at[r] = step
    /\ queued' = [queued EXCEPT ![r] = mapper]
    /\ at' = [at EXCEPT ![r] = next]
    /\ UNCHANGED <<vars, mapper, redis, owed, excused>>

\* getUserMap or getGroupMap: what the mapper has is read, and then queued.
Read(r, step, kind, next) ==
    /\ pc[r] = "launch" /\ at[r] = step
    /\ queued' = [queued EXCEPT ![r] = mapper \cap kind]
    /\ at' = [at EXCEPT ![r] = next]
    /\ UNCHANGED <<vars, mapper, redis, owed, excused>>

\* exec of the transaction: all of its SADDs at once.
Exec(r, step, kind, next) ==
    /\ pc[r] = "launch" /\ at[r] = step
    /\ redis' = redis \cup queued[r]
    /\ queued' = [queued EXCEPT ![r] = {}]
    /\ at' = [at EXCEPT ![r] = next]
    /\ UNCHANGED <<vars, mapper, owed, excused>>

WritePOSIXEntries(r) ==
    \/ Read(r, "users", UserEntries, "execUsers")
    \/ Exec(r, "execUsers", UserEntries, "groups")
    \/ Read(r, "groups", GroupEntries, "execGroups")
    \/ Exec(r, "execGroups", GroupEntries, "written")

-----------------------------------------------------------------------------
(* The other steps of the POST.                                            *)

\* A request slot starts anew.
MapsStart(r) ==
    /\ Start(r)
    /\ at' = [at EXCEPT ![r] = "users"]
    /\ queued' = [queued EXCEPT ![r] = {}]
    /\ owed' = [owed EXCEPT ![r] = mapper]
    /\ UNCHANGED <<mapper, redis, excused>>

MapsPrepare(r) ==
    /\ EnsureUserBase(r) \/ AddUser(r) \/ InjectCertificate(r)
    /\ UNCHANGED mapVars

\* Mutant of MapsLaunch: an exception of the cache is logged like one of the certificate.
MapsLaunchAnyway(r) == Launch(r) /\ UNCHANGED mapVars

\* The job is created when both sets are written.
MapsLaunch(r) == Launch(r) /\ at[r] = "written" /\ UNCHANGED mapVars

\* The script stops half way, and allocateUser does not see it.
MapsBreakUnseen(r) == BreakUnseen(r) /\ UNCHANGED mapVars

\* The replica stops, or the mapper or Redis fails: a transaction that was not
\* executed is dropped.
MapsBreak(r) ==
    /\ Break(r)
    /\ at' = [at EXCEPT ![r] = "users"]
    /\ queued' = [queued EXCEPT ![r] = {}]
    /\ owed' = [owed EXCEPT ![r] = {}]
    /\ UNCHANGED <<mapper, redis, excused>>

MapsHandler(r) == MapsPrepare(r) \/ WritePOSIXEntries(r) \/ MapsLaunch(r)

-----------------------------------------------------------------------------
(* The mapper and the administrator.                                       *)

\* A user or group comes into being, or gets another line.
NewEntry(e) ==
    /\ e \notin mapper
    /\ mapper' = mapper \cup {e}
    /\ excused' = excused \ {e}
    /\ UNCHANGED <<vars, redis, at, queued, owed>>

\* A line is no longer true.
DropEntry(e) ==
    /\ e \in mapper
    /\ mapper' = mapper \ {e}
    /\ owed' = [r \in Requests |-> owed[r] \ {e}]
    /\ excused' = excused \cup {e}
    /\ UNCHANGED <<vars, redis, at, queued>>

\* What r has written already, and a purge takes away.
Written(r) == {e \in Entries : \/ at[r] = "written"
                               \/ at[r] \in {"groups", "execGroups"} /\ e \in UserEntries}

\* Is r between reading the list that has e and writing it?
Writing(r, e) == \/ at[r] = "execUsers" /\ e \in UserEntries
                 \/ at[r] = "execGroups" /\ e \in GroupEntries

\* The purge that a change of entries requires.
Purge ==
    /\ redis' = {}
    /\ owed' = [r \in Requests |-> owed[r] \ Written(r)]
    /\ excused' = {e \in excused : \E r \in Requests : Writing(r, e)}
    /\ UNCHANGED <<vars, mapper, at, queued>>

MapsNext ==
    \/ \E r \in Requests : MapsStart(r) \/ MapsHandler(r) \/ MapsBreak(r) \/ MapsBreakUnseen(r)
    \/ \E e \in Entries : NewEntry(e) \/ DropEntry(e)
    \/ Purge

MapsSpec == MapsInit /\ [][MapsNext]_allVars

\* A POST that has started runs on, and its script with it.
MapsFairSpec == MapsSpec /\ \A r \in Requests : WF_allVars(MapsHandler(r))

-----------------------------------------------------------------------------

\* The two transactions of one POST are apart, and another POST's session may start
\* between them; but a session whose own POST went through starts with every user and
\* group in Redis that was known when the POST came and has not changed since.
SessionsFindTheirEntries ==
    \A r \in Requests : pc[r] = "ok" => owed[r] \subseteq redis

\* Adding never removes, so a changed entry stays until the purge that the comment on
\* PosixCache requires; after a purge it is back only through a POST that was, when the
\* purge came, between reading the list that had it and writing that list.
PurgeResets == redis \ mapper \subseteq excused
=============================================================================
