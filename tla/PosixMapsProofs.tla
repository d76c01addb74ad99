----------------------------- MODULE PosixMapsProofs -----------------------------
(* The POSIX entries in Redis under any number of POSTs and entries.  *)
EXTENDS PosixMaps, UserHomeProofs

\* Only a POST that is writing entries or has its job has got beyond the first step.
Started == \A r \in Requests : pc[r] \notin {"launch", "ok"} => at[r] = "users"

\* What is queued was read for the set it goes into.
Kinds == \A r \in Requests : \A e \in queued[r] : Writing(r, e)

\* A queued entry is one the mapper has, or one that changed since.
QueuedExcused == \A r \in Requests : queued[r] \subseteq mapper \cup excused

\* What is owed is known to the mapper still, and on its way: yet to be read, queued,
\* or written.
Known == \A r \in Requests : owed[r] \subseteq mapper
UsersCovered == \A r \in Requests : \A e \in owed[r] \cap UserEntries :
    /\ at[r] = "execUsers" => e \in queued[r]
    /\ at[r] \in {"groups", "execGroups", "written"} => e \in redis
GroupsCovered == \A r \in Requests : \A e \in owed[r] \cap GroupEntries :
    /\ at[r] = "execGroups" => e \in queued[r]
    /\ at[r] = "written" => e \in redis
Launched == \A r \in Requests : pc[r] = "ok" => at[r] = "written"

MapsInv ==
    /\ MapsTypeOK /\ Started /\ Kinds /\ QueuedExcused
    /\ Known /\ UsersCovered /\ GroupsCovered /\ Launched /\ PurgeResets

\* Redis is empty and no POST has come.
LEMMA MapsInvInit == MapsInit => MapsInv
BY InvInit, HomeAssumption, EntriesAssumption
DEF MapsInit, MapsInv, MapsTypeOK, Inv, Started, Kinds, QueuedExcused, Known, UsersCovered,
    GroupsCovered, Launched, PurgeResets, Entries, Writing, Init

\* The steps of a POST that are not about entries are steps of UserHome.
LEMMA HomeStep == ASSUME [MapsNext]_allVars PROVE [Next]_vars
BY DEF MapsNext, allVars, MapsStart, MapsHandler, MapsPrepare, WritePOSIXEntries, MapsLaunch,
       MapsBreak, MapsBreakUnseen, Read, Exec, NewEntry, DropEntry, Purge, Next, Handler

\* Every step keeps the invariant.
LEMMA MapsInvStep == MapsInv /\ Inv /\ [MapsNext]_allVars => MapsInv'
<1> SUFFICES ASSUME MapsInv, Inv, [MapsNext]_allVars PROVE MapsInv'
  OBVIOUS
<1>0. TypeOK'
  BY HomeStep, InvStep DEF Inv
<1> USE EntriesAssumption, <1>0
    DEF MapsInv, MapsTypeOK, Started, Kinds, QueuedExcused, Known, UsersCovered,
        GroupsCovered, Launched, PurgeResets, Entries, Writing, TypeOK, Script, Goto
<1>1. ASSUME NEW r \in Requests, MapsStart(r) PROVE MapsInv'
  BY <1>1 DEF MapsStart, Start
<1>2. ASSUME NEW r \in Requests, MapsPrepare(r) PROVE MapsInv'
  <2>1. CASE EnsureUserBase(r)
    BY <1>2, <2>1 DEF MapsPrepare, mapVars, EnsureUserBase
  <2>2. CASE AddUser(r)
    BY <1>2, <2>2 DEF MapsPrepare, mapVars, AddUser, Make, MakeDir, Decline
  <2>3. CASE InjectCertificate(r)
    BY <1>2, <2>3 DEF MapsPrepare, mapVars, InjectCertificate
  <2> QED
    BY <1>2, <2>1, <2>2, <2>3 DEF MapsPrepare
<1>3. ASSUME NEW r \in Requests, Read(r, "users", UserEntries, "execUsers") PROVE MapsInv'
  BY <1>3 DEF Read, vars
<1>4. ASSUME NEW r \in Requests, Exec(r, "execUsers", UserEntries, "groups") PROVE MapsInv'
  BY <1>4 DEF Exec, vars
<1>5. ASSUME NEW r \in Requests, Read(r, "groups", GroupEntries, "execGroups") PROVE MapsInv'
  BY <1>5 DEF Read, vars
<1>6. ASSUME NEW r \in Requests, Exec(r, "execGroups", GroupEntries, "written") PROVE MapsInv'
  BY <1>6 DEF Exec, vars
<1>7. ASSUME NEW r \in Requests, MapsLaunch(r) PROVE MapsInv'
  BY <1>7 DEF MapsLaunch, Launch, mapVars
<1>8. ASSUME NEW r \in Requests, MapsBreak(r) PROVE MapsInv'
  BY <1>8 DEF MapsBreak, Break
<1>9. ASSUME NEW e \in Entries, NewEntry(e) PROVE MapsInv'
  BY <1>9 DEF NewEntry, vars
<1>10. ASSUME NEW e \in Entries, DropEntry(e) PROVE MapsInv'
  BY <1>10 DEF DropEntry, vars
<1>11. ASSUME Purge PROVE MapsInv'
  BY <1>11 DEF Purge, Written, vars
<1>12. ASSUME NEW r \in Requests, MapsBreakUnseen(r) PROVE MapsInv'
  BY <1>12 DEF MapsBreakUnseen, BreakUnseen, mapVars
<1>13. CASE UNCHANGED allVars
  BY <1>13 DEF allVars, mapVars, vars
<1> QED
  BY <1>1, <1>2, <1>3, <1>4, <1>5, <1>6, <1>7, <1>8, <1>9, <1>10, <1>11, <1>12, <1>13
  DEF MapsNext, MapsHandler, WritePOSIXEntries

\* With the step that writes the entries in it, a POST still does with the home what
\* UserHome says, so all that is proved of the home holds here too.
THEOREM HomeUnchanged == MapsSpec => Spec
<1>1. MapsInit => Init
  BY DEF MapsInit
<1> QED
  BY <1>1, HomeStep, PTL DEF MapsSpec, Spec

\* A session starts with all entries that were known when its POST came and that have
\* not changed since, whatever other POSTs, failures and purges do.
THEOREM SessionsFindTheirEntriesAlways == MapsSpec => []SessionsFindTheirEntries
<1>1. MapsInv => SessionsFindTheirEntries
  BY DEF MapsInv, MapsTypeOK, Launched, UsersCovered, GroupsCovered,
         SessionsFindTheirEntries, Entries
<1>2. Init /\ [][Next]_vars => []Inv
  BY InvInit, InvStep, PTL
<1> QED
  BY MapsInvInit, MapsInvStep, HomeUnchanged, <1>1, <1>2, PTL DEF MapsSpec, Spec

\* After a purge an outdated entry is back only through a POST that was writing its list.
THEOREM PurgeResetsAlways == MapsSpec => []PurgeResets
<1>1. MapsInv => PurgeResets
  BY DEF MapsInv
<1>2. Init /\ [][Next]_vars => []Inv
  BY InvInit, InvStep, PTL
<1> QED
  BY MapsInvInit, MapsInvStep, HomeUnchanged, <1>1, <1>2, PTL DEF MapsSpec, Spec

\* The variables have the values that the module says.
THEOREM MapsTypeCorrect == MapsSpec => []MapsTypeOK
<1>1. MapsInv => MapsTypeOK
  BY DEF MapsInv
<1>2. Init /\ [][Next]_vars => []Inv
  BY InvInit, InvStep, PTL
<1> QED
  BY MapsInvInit, MapsInvStep, HomeUnchanged, <1>1, <1>2, PTL DEF MapsSpec, Spec
=============================================================================
