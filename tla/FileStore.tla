------------------------------ MODULE FileStore ------------------------------
(***************************************************************************)
(* FileStore of internal/canary/store.go: Save writes a report to a        *)
(* temporary file, syncs it and renames it to its final name, with a       *)
(* deferred removal of the temporary name on every path; Get reads the     *)
(* final name.  Saves and reads run side by side, operations of the file   *)
(* system fail, the process dies, and the power fails.                     *)
(*                                                                         *)
(* Each Save has a report id of its own, and a file is named here after    *)
(* the Save that created it.  The stage of a Save is the last operation    *)
(* that succeeded,                                                         *)
(*   idle, created, secured, written, synced, closed, renamed,             *)
(* or aborting, when one failed; from renamed and aborting only the        *)
(* deferred removal is left, and then the Save has ended,                  *)
(*   saved (nil) or refused (an error).                                    *)
(* dead is a Save whose process died.                                      *)
(*                                                                         *)
(* External: the file system.  A name is removed whatever file it names,   *)
(* and os.CreateTemp takes any name that does not exist; see FreshName.    *)
(***************************************************************************)
CONSTANTS
  Reports,    \* report ids; also the Saves and the files they create
  Readers,    \* calls of Get
  TempNames,  \* names os.CreateTemp may draw
  None

ASSUME StoreAssumption == None \notin Reports /\ None \notin TempNames

VARIABLES
  save,     \* save[i].stage, and save[i].temp: the temporary name it drew, or None
  temps,    \* the temporary names: the file each one names, or None
  final,    \* the final names: the file under the name of each report, or None
  whole,    \* the files that hold their report and nothing less
  synced,   \* the files whose content is on the disk
  flushed,  \* the final names that are on the disk
  get       \* each reader's stage, the id it asks for, and the file it has open

vars == <<save, temps, final, whole, synced, flushed, get>>

Writing == {"created", "secured", "written", "synced", "closed"}
RemovalDue == Writing \cup {"renamed", "aborting"}
SaveStages == RemovalDue \cup {"idle", "saved", "refused", "dead"}
GetStages == {"idle", "reading", "found", "absent", "error", "garbled"}

NoSave == [stage |-> "idle", temp |-> None]
NoGet == [stage |-> "idle", id |-> None, file |-> None]

TypeOK ==
  /\ save \in [Reports -> [stage : SaveStages, temp : TempNames \cup {None}]]
  /\ \A i \in Reports : save[i].stage \in RemovalDue => save[i].temp # None
  /\ temps \in [TempNames -> Reports \cup {None}]
  /\ final \in [Reports -> Reports \cup {None}]
  /\ whole \subseteq Reports
  /\ synced \subseteq Reports
  /\ flushed \subseteq Reports
  /\ get \in [Readers -> [stage : GetStages, id : Reports \cup {None}, file : Reports \cup {None}]]

Init ==
  /\ save = [i \in Reports |-> NoSave]
  /\ temps = [n \in TempNames |-> None]
  /\ final = [i \in Reports |-> None]
  /\ whole = {}
  /\ synced = {}
  /\ flushed = {}
  /\ get = [r \in Readers |-> NoGet]

Reach(i, stage) == save' = [save EXCEPT ![i].stage = stage]

-----------------------------------------------------------------------------
(* Save *)

\* The report cannot be encoded, or no temporary file created: nothing to remove.
SaveFailsEarly(i) ==
  /\ save[i].stage = "idle"
  /\ Reach(i, "refused")
  /\ UNCHANGED <<temps, final, whole, synced, flushed, get>>

\* os.CreateTemp draws 32 random bits and takes the name if it does not exist.
\* That no Save draws the bits of another one whose removal is still due is an
\* assumption: a name is free from the rename on, and the deferred removal that
\* follows would take the file of the other one.
\*
\* Mutation: the name is not drawn at random, only one that does not exist.
AnyName(n) == TRUE

FreshName(n) == \A j \in Reports : save[j].stage \in RemovalDue => save[j].temp # n

CreateTemp(i) ==
  /\ save[i].stage = "idle"
  /\ \E n \in TempNames :
       /\ temps[n] = None
       /\ FreshName(n)
       /\ temps' = [temps EXCEPT ![n] = i]
       /\ save' = [save EXCEPT ![i] = [stage |-> "created", temp |-> n]]
  /\ UNCHANGED <<final, whole, synced, flushed, get>>

Chmod(i) ==
  /\ save[i].stage = "created"
  /\ Reach(i, "secured")
  /\ UNCHANGED <<temps, final, whole, synced, flushed, get>>

Write(i) ==
  /\ save[i].stage = "secured"
  /\ whole' = whole \cup {i}
  /\ Reach(i, "written")
  /\ UNCHANGED <<temps, final, synced, flushed, get>>

\* Mutation: Sync is called for its error alone and does not reach the disk.
SyncNothing(i) ==
  /\ save[i].stage = "written"
  /\ Reach(i, "synced")
  /\ UNCHANGED <<temps, final, whole, synced, flushed, get>>

Sync(i) ==
  /\ save[i].stage = "written"
  /\ synced' = synced \cup {i}
  /\ Reach(i, "synced")
  /\ UNCHANGED <<temps, final, whole, flushed, get>>

Close(i) ==
  /\ save[i].stage = "synced"
  /\ Reach(i, "closed")
  /\ UNCHANGED <<temps, final, whole, synced, flushed, get>>

\* The final name now means the file that the temporary name meant, whichever
\* that is; it fails when the temporary name is gone.
Rename(i) ==
  LET n == save[i].temp IN
  /\ save[i].stage = "closed"
  /\ temps[n] # None
  /\ final' = [final EXCEPT ![i] = temps[n]]
  /\ temps' = [temps EXCEPT ![n] = None]
  /\ Reach(i, "renamed")
  /\ UNCHANGED <<whole, synced, flushed, get>>

\* Mutation: an error leaves at once, before the removal is deferred.
OperationFailsUndeferred(i) ==
  /\ save[i].stage \in Writing
  /\ save' = [save EXCEPT ![i] = [stage |-> "aborting", temp |-> None]]
  /\ UNCHANGED <<temps, final, whole, synced, flushed, get>>

\* Any operation after CreateTemp may fail; a write may fail half-way, and the
\* file then is not whole.
OperationFails(i) ==
  /\ save[i].stage \in Writing
  /\ Reach(i, "aborting")
  /\ UNCHANGED <<temps, final, whole, synced, flushed, get>>

Ended(stage) == IF stage = "renamed" THEN "saved" ELSE "refused"

\* defer os.Remove(tempName), whose own error is not looked at.
RemoveTemp(i) ==
  LET n == save[i].temp IN
  /\ save[i].stage \in {"renamed", "aborting"}
  /\ temps' \in {temps, [temps EXCEPT ![n] = None]}
  /\ Reach(i, Ended(save[i].stage))
  /\ UNCHANGED <<final, whole, synced, flushed, get>>

SaveStep(i) ==
  \/ SaveFailsEarly(i) \/ CreateTemp(i) \/ Chmod(i) \/ Write(i) \/ Sync(i)
  \/ Close(i) \/ Rename(i) \/ OperationFails(i) \/ RemoveTemp(i)

-----------------------------------------------------------------------------
(* Get *)

\* os.ReadFile opens the file.  An id that no report can have is not found
\* without a look at the directory, as one that no report has.
Open(r, i) ==
  /\ get[r].stage # "reading"
  /\ get' = [get EXCEPT ![r] =
       [stage |-> IF final[i] = None THEN "absent" ELSE "reading",
        id |-> i, file |-> final[i]]]
  /\ UNCHANGED <<save, temps, final, whole, synced, flushed>>

OpenFails(r, i) ==
  /\ get[r].stage # "reading"
  /\ get' = [get EXCEPT ![r] = [stage |-> "error", id |-> i, file |-> None]]
  /\ UNCHANGED <<save, temps, final, whole, synced, flushed>>

\* json.Unmarshal takes a whole report; what is less does not parse, and the
\* report of another id is not what was asked for.
Read(r) ==
  /\ get[r].stage = "reading"
  /\ get' = [get EXCEPT ![r].stage =
       IF get[r].file \in whole /\ get[r].file = get[r].id THEN "found" ELSE "garbled"]
  /\ UNCHANGED <<save, temps, final, whole, synced, flushed>>

ReadFails(r) ==
  /\ get[r].stage = "reading"
  /\ get' = [get EXCEPT ![r].stage = "error"]
  /\ UNCHANGED <<save, temps, final, whole, synced, flushed>>

GetStep(r) ==
  \/ \E i \in Reports : Open(r, i) \/ OpenFails(r, i)
  \/ Read(r) \/ ReadFails(r)

-----------------------------------------------------------------------------
(* The system *)

\* A process that dies leaves its temporary files where they are; NewFileStore
\* of the next one does not look for them.
KillSaves ==
  /\ save' = [i \in Reports |->
       IF save[i].stage \in RemovalDue THEN [save[i] EXCEPT !.stage = "dead"] ELSE save[i]]
  /\ get' = [r \in Readers |-> NoGet]

Kill == KillSaves /\ UNCHANGED <<temps, final, whole, synced, flushed>>

\* The kernel writes the directory to disk when it likes; Save does not ask for it.
Flush ==
  /\ flushed' = {i \in Reports : final[i] # None}
  /\ UNCHANGED <<save, temps, final, whole, synced, get>>

\* What survives: synced content, whatever else happened to be written, final
\* names that were flushed, any of the others, any of the temporary names, and
\* any of those whose removal or renaming had not reached the disk.
PowerLoss ==
  /\ KillSaves
  /\ \E written \in SUBSET (whole \ synced) : whole' = synced \cup written
  /\ \E lost \in SUBSET (Reports \ flushed) :
       final' = [i \in Reports |-> IF i \in lost THEN None ELSE final[i]]
  /\ temps' \in {t \in [TempNames -> Reports \cup {None}] :
       \A n \in TempNames : t[n] # None => save[t[n]].temp = n}
  /\ UNCHANGED <<synced, flushed>>

Next ==
  \/ \E i \in Reports : SaveStep(i)
  \/ \E r \in Readers : GetStep(r)
  \/ Kill \/ Flush \/ PowerLoss

Spec == Init /\ [][Next]_vars

-----------------------------------------------------------------------------
(* The promise *)

Kept == {i \in Reports : final[i] # None}

\* FileStore is a ReportStore: whatever fails and whenever, a report is found
\* whole or not at all, and a Save that said so has kept it (store.go:31-83).
Promise == INSTANCE ReportStore WITH
  kept    <- Kept,
  safe    <- flushed,
  outcome <- [i \in Reports |->
               IF save[i].stage \in {"saved", "refused"} THEN save[i].stage ELSE "pending"],
  reply   <- [r \in Readers |->
               IF get[r].stage \in {"idle", "reading"} THEN None
               ELSE [id |-> get[r].id, answer |-> get[r].stage]]

WholeOrAbsent == Promise!Spec

\* The deferred removal of a Save never takes the file of another one, although
\* it goes by a name that has been free since the rename (store.go:45).
RemovesOnlyItsOwn ==
  [][\A i \in Reports, n \in TempNames :
       RemoveTemp(i) /\ temps[n] # None /\ temps'[n] = None => temps[n] = i]_vars

=============================================================================
