--------------------------- MODULE FileStoreProofs ---------------------------
(* FileStore implements ReportStore, for any number of Saves and readers.    *)
EXTENDS FileStore, TLAPS

Made == {"written", "synced", "closed", "renamed"}
OnDisk == {"synced", "closed", "renamed"}

\* Saves that still have a removal to do own different names, and up to the
\* rename the name means the file of its owner, and no other one after it.
NamesOwned ==
  /\ \A i, j \in Reports :
       i # j /\ save[i].stage \in RemovalDue /\ save[j].stage \in RemovalDue
         => save[i].temp # save[j].temp
  /\ \A i \in Reports : save[i].stage \in Writing => temps[save[i].temp] = i
  /\ \A i \in Reports : save[i].stage \in RemovalDue => temps[save[i].temp] \in {i, None}

\* Content is complete before it is synced, and synced before it gets its name.
ContentFirst ==
  /\ \A i \in Reports : /\ save[i].stage \in Made => i \in whole
                        /\ save[i].stage \in OnDisk => i \in synced
  /\ synced \subseteq whole
  /\ \A i \in Reports : final[i] # None => final[i] = i /\ i \in synced

\* A final name is there once the rename is done, and never when a Save has
\* failed or has not come so far.
NamedOnRename ==
  /\ \A i \in Reports :
       /\ save[i].stage = "renamed" => final[i] = i
       /\ save[i].stage \in Writing \cup {"idle", "aborting", "refused"} => final[i] = None
  /\ flushed \subseteq Kept

\* Who has a file open has the one that was asked for, and it is still named.
ReadersHold ==
  \A r \in Readers :
    /\ get[r].stage = "reading" => /\ get[r].id \in Reports
                                   /\ get[r].file = get[r].id
                                   /\ final[get[r].id] = get[r].id
    /\ get[r].stage # "garbled"

StoreInv == TypeOK /\ NamesOwned /\ ContentFirst /\ NamedOnRename /\ ReadersHold

\* Nothing is saved, named or read at first.
LEMMA InitStoreInv == Init => StoreInv
<1>. SUFFICES ASSUME Init PROVE StoreInv
  OBVIOUS
<1>1. TypeOK
  BY StoreAssumption DEF Init, TypeOK, NoSave, NoGet, SaveStages, GetStages, RemovalDue, Writing
<1>2. NamesOwned
  BY DEF Init, NamesOwned, NoSave, RemovalDue, Writing
<1>3. ContentFirst
  BY DEF Init, ContentFirst, NoSave, Made, OnDisk
<1>4. NamedOnRename
  BY DEF Init, NamedOnRename, NoSave, Kept
<1>5. ReadersHold
  BY DEF Init, ReadersHold, NoGet
<1>. QED  BY <1>1, <1>2, <1>3, <1>4, <1>5 DEF StoreInv

\* The steps of a Save that only move its stage on and leave files and names alone.
StageOnly(i) ==
  /\ save[i].stage \in Writing
  /\ \/ save' = [save EXCEPT ![i].stage = "aborting"]
     \/ save[i].stage = "created" /\ save' = [save EXCEPT ![i].stage = "secured"]
     \/ save[i].stage = "synced" /\ save' = [save EXCEPT ![i].stage = "closed"]
  /\ UNCHANGED <<temps, final, whole, synced, flushed, get>>

\* A step that moves a save on and touches no file keeps the invariant.
LEMMA StageOnlyInv ==
  ASSUME StoreInv, NEW i \in Reports, StageOnly(i)
  PROVE  StoreInv'
<1>. USE DEF StageOnly, StoreInv, Writing, RemovalDue
<1>1. TypeOK'
  <2>1. PICK to \in {"aborting", "secured", "closed"} : save' = [save EXCEPT ![i].stage = to]
    OBVIOUS
  <2>2. save' \in [Reports -> [stage : SaveStages, temp : TempNames \cup {None}]]
    BY <2>1 DEF TypeOK, SaveStages
  <2>3. \A j \in Reports : save'[j].stage \in RemovalDue => save'[j].temp # None
    BY <2>1 DEF TypeOK
  <2>4. UNCHANGED <<temps, final, whole, synced, flushed, get>>
    OBVIOUS
  <2>. QED  BY <2>2, <2>3, <2>4 DEF TypeOK
<1>2. NamesOwned'
  <2>1. \A j \in Reports : /\ save'[j].temp = save[j].temp
                           /\ save'[j].stage \in Writing => save[j].stage \in Writing
                           /\ save'[j].stage \in RemovalDue => save[j].stage \in RemovalDue
    BY DEF TypeOK
  <2>2. temps' = temps
    OBVIOUS
  <2>. HIDE DEF Writing, RemovalDue
  <2>. QED  BY <2>1, <2>2 DEF NamesOwned
<1>3. ContentFirst'
  BY DEF TypeOK, ContentFirst, Made, OnDisk
<1>4. NamedOnRename'
  BY DEF TypeOK, NamedOnRename, Kept
<1>5. ReadersHold'
  BY DEF ReadersHold
<1>. QED  BY <1>1, <1>2, <1>3, <1>4, <1>5

\* os.CreateTemp takes a free name, for an empty file, or the save fails before it.
LEMMA CreateInv ==
  ASSUME StoreInv, NEW i \in Reports, CreateTemp(i) \/ SaveFailsEarly(i)
  PROVE  StoreInv'
<1>. USE DEF StoreInv, RemovalDue, Writing
<1>1. CASE SaveFailsEarly(i)
  <2>1. TypeOK'
    BY <1>1 DEF SaveFailsEarly, Reach, TypeOK, SaveStages
  <2>2. NamesOwned'
    BY <1>1 DEF SaveFailsEarly, Reach, TypeOK, NamesOwned
  <2>3. ContentFirst' /\ NamedOnRename' /\ ReadersHold'
    BY <1>1 DEF SaveFailsEarly, Reach, TypeOK, ContentFirst, NamedOnRename, ReadersHold,
                Made, OnDisk, Kept
  <2>. QED  BY <2>1, <2>2, <2>3
<1>2. CASE CreateTemp(i)
  <2>1. PICK n \in TempNames :
          /\ temps[n] = None /\ FreshName(n)
          /\ temps' = [temps EXCEPT ![n] = i]
          /\ save' = [save EXCEPT ![i] = [stage |-> "created", temp |-> n]]
    BY <1>2 DEF CreateTemp
  <2>2. UNCHANGED <<final, whole, synced, flushed, get>> /\ save[i].stage = "idle"
    BY <1>2 DEF CreateTemp
  <2>3. TypeOK'
    BY <2>1, <2>2, StoreAssumption DEF TypeOK, SaveStages
  <2>4. NamesOwned'
    BY <2>1, <2>2 DEF TypeOK, NamesOwned, FreshName
  <2>5. ContentFirst' /\ NamedOnRename' /\ ReadersHold'
    BY <2>1, <2>2 DEF TypeOK, ContentFirst, NamedOnRename, ReadersHold, Made, OnDisk, Kept
  <2>. QED  BY <2>3, <2>4, <2>5
<1>. QED  BY <1>1, <1>2

\* Writing and syncing touch a file that has its temporary name only.
LEMMA ContentInv ==
  ASSUME StoreInv, NEW i \in Reports, Write(i) \/ Sync(i)
  PROVE  StoreInv'
<1>. USE DEF StoreInv, RemovalDue, Writing
<1>1. UNCHANGED <<temps, final, flushed, get>>
  BY DEF Write, Sync
<1>2. CASE Write(i)
  <2>1. /\ save[i].stage = "secured" /\ save' = [save EXCEPT ![i].stage = "written"]
        /\ whole' = whole \cup {i} /\ synced' = synced
    BY <1>2 DEF Write, Reach
  <2>2. TypeOK'
    BY <1>1, <2>1 DEF TypeOK, SaveStages
  <2>3. NamesOwned'
    BY <1>1, <2>1 DEF TypeOK, NamesOwned
  <2>4. ContentFirst' /\ NamedOnRename' /\ ReadersHold'
    BY <1>1, <2>1 DEF TypeOK, ContentFirst, NamedOnRename, ReadersHold, Made, OnDisk, Kept
  <2>. QED  BY <2>2, <2>3, <2>4
<1>3. CASE Sync(i)
  <2>1. /\ save[i].stage = "written" /\ save' = [save EXCEPT ![i].stage = "synced"]
        /\ whole' = whole /\ synced' = synced \cup {i}
    BY <1>3 DEF Sync, Reach
  <2>2. TypeOK'
    BY <1>1, <2>1 DEF TypeOK, SaveStages
  <2>3. NamesOwned'
    BY <1>1, <2>1 DEF TypeOK, NamesOwned
  <2>4. ContentFirst' /\ NamedOnRename' /\ ReadersHold'
    BY <1>1, <2>1 DEF TypeOK, ContentFirst, NamedOnRename, ReadersHold, Made, OnDisk, Kept
  <2>. QED  BY <2>2, <2>3, <2>4
<1>. QED  BY <1>2, <1>3

\* The rename gives a synced file its final name.
LEMMA RenameInv ==
  ASSUME StoreInv, NEW i \in Reports, Rename(i)
  PROVE  StoreInv'
<1>. DEFINE n == save[i].temp
<1>. USE DEF StoreInv, RemovalDue, Writing
<1>1. /\ save[i].stage = "closed" /\ n \in TempNames /\ temps[n] = i
      /\ final' = [final EXCEPT ![i] = i]
      /\ temps' = [temps EXCEPT ![n] = None]
      /\ save' = [save EXCEPT ![i].stage = "renamed"]
      /\ UNCHANGED <<whole, synced, flushed, get>>
  BY DEF Rename, Reach, TypeOK, NamesOwned
<1>2. TypeOK'
  BY <1>1 DEF TypeOK, SaveStages
<1>3. NamesOwned'
  BY <1>1 DEF TypeOK, NamesOwned
<1>4. ContentFirst'
  BY <1>1 DEF TypeOK, ContentFirst, Made, OnDisk
<1>5. NamedOnRename'
  BY <1>1, StoreAssumption DEF TypeOK, NamedOnRename, Kept
<1>6. ReadersHold'
  BY <1>1 DEF TypeOK, ReadersHold
<1>. QED  BY <1>2, <1>3, <1>4, <1>5, <1>6

\* The deferred removal takes a name that is its own save's or means nothing.
LEMMA RemoveInv ==
  ASSUME StoreInv, NEW i \in Reports, RemoveTemp(i)
  PROVE  StoreInv'
<1>. DEFINE n == save[i].temp
<1>. USE DEF StoreInv, RemovalDue, Writing
<1>1. /\ save[i].stage \in {"renamed", "aborting"} /\ n \in TempNames
      /\ temps' \in {temps, [temps EXCEPT ![n] = None]}
      /\ \/ save[i].stage = "renamed" /\ save' = [save EXCEPT ![i].stage = "saved"]
         \/ save[i].stage = "aborting" /\ save' = [save EXCEPT ![i].stage = "refused"]
      /\ UNCHANGED <<final, whole, synced, flushed, get>>
  BY DEF RemoveTemp, Reach, Ended, TypeOK
<1>2. TypeOK'
  BY <1>1 DEF TypeOK, SaveStages
<1>3. NamesOwned'
  <2>1. /\ save'[i].stage \notin RemovalDue
        /\ \A j \in Reports : j # i => save'[j] = save[j]
    BY <1>1 DEF TypeOK
  <2>2. ASSUME NEW j \in Reports, save'[j].stage \in Writing
        PROVE  temps'[save'[j].temp] = j
    <3>1. j # i /\ save[j].stage \in Writing /\ temps[save[j].temp] = j
      BY <2>1, <2>2 DEF NamesOwned
    <3>2. save[j].temp # n
      BY <1>1, <3>1 DEF NamesOwned
    <3>. QED  BY <1>1, <2>1, <3>1, <3>2 DEF TypeOK
  <2>3. ASSUME NEW j \in Reports, save'[j].stage \in RemovalDue
        PROVE  temps'[save'[j].temp] \in {j, None}
    <3>1. j # i /\ save[j].stage \in RemovalDue /\ temps[save[j].temp] \in {j, None}
      BY <2>1, <2>3 DEF NamesOwned
    <3>2. save[j].temp # n
      BY <1>1, <3>1 DEF NamesOwned
    <3>. QED  BY <1>1, <2>1, <3>1, <3>2 DEF TypeOK
  <2>. QED  BY <2>1, <2>2, <2>3 DEF NamesOwned
<1>4. ContentFirst' /\ NamedOnRename' /\ ReadersHold'
  BY <1>1 DEF TypeOK, ContentFirst, NamedOnRename, ReadersHold, Made, OnDisk, Kept
<1>. QED  BY <1>2, <1>3, <1>4

\* A look-up opens what is named and reads what is whole.
LEMMA GetInv ==
  ASSUME StoreInv, NEW r \in Readers, GetStep(r)
  PROVE  StoreInv'
<1>. USE DEF StoreInv
<1>1. UNCHANGED <<save, temps, final, whole, synced, flushed>>
  BY DEF GetStep, Open, OpenFails, Read, ReadFails
<1>2. TypeOK'
  BY <1>1 DEF TypeOK, GetStep, Open, OpenFails, Read, ReadFails, GetStages
<1>3. NamesOwned' /\ ContentFirst' /\ NamedOnRename'
  BY <1>1 DEF NamesOwned, ContentFirst, NamedOnRename, Kept
<1>4. ReadersHold'
  BY <1>1, StoreAssumption
     DEF TypeOK, ReadersHold, ContentFirst, GetStep, Open, OpenFails, Read, ReadFails
<1>. QED  BY <1>2, <1>3, <1>4

\* A kill ends the saves under way; a power loss also takes what was not safe.
LEMMA DeathInv ==
  ASSUME StoreInv, Kill \/ PowerLoss
  PROVE  StoreInv'
<1>. USE DEF StoreInv
<1>1. /\ \A i \in Reports : save'[i].stage \in {"idle", "saved", "refused", "dead"}
      /\ \A i \in Reports : save[i].stage \notin RemovalDue => save'[i] = save[i]
      /\ \A i \in Reports : save[i].stage \in RemovalDue => save'[i].stage = "dead"
      /\ save' \in [Reports -> [stage : SaveStages, temp : TempNames \cup {None}]]
      /\ get' = [r \in Readers |-> NoGet]
  BY DEF Kill, PowerLoss, KillSaves, TypeOK, RemovalDue, Writing, SaveStages
<1>2. /\ whole' \subseteq whole /\ synced \subseteq whole'
      /\ \A i \in Reports : final'[i] \in {None, final[i]}
      /\ \A i \in flushed : final'[i] = final[i]
      /\ final' \in [Reports -> Reports \cup {None}]
      /\ temps' \in [TempNames -> Reports \cup {None}]
      /\ synced' = synced /\ flushed' = flushed
  <2>1. CASE Kill
    BY <2>1 DEF Kill, TypeOK, ContentFirst
  <2>2. CASE PowerLoss
    BY <2>2 DEF PowerLoss, TypeOK, ContentFirst
  <2>. QED  BY <2>1, <2>2
<1>3. TypeOK'
  BY <1>1, <1>2 DEF TypeOK, NoGet, GetStages, RemovalDue, Writing
<1>4. NamesOwned'
  BY <1>1 DEF NamesOwned, RemovalDue, Writing
<1>5. ContentFirst'
  BY <1>1, <1>2 DEF ContentFirst, Made, OnDisk
<1>6. NamedOnRename'
  BY <1>1, <1>2 DEF TypeOK, NamedOnRename, Writing, RemovalDue, Kept
<1>7. ReadersHold'
  BY <1>1 DEF ReadersHold, NoGet
<1>. QED  BY <1>3, <1>4, <1>5, <1>6, <1>7

\* Every step keeps the invariant.
LEMMA NextStoreInv == StoreInv /\ [Next]_vars => StoreInv'
<1>. SUFFICES ASSUME StoreInv, [Next]_vars PROVE StoreInv'
  OBVIOUS
<1>1. ASSUME NEW i \in Reports, SaveStep(i) PROVE StoreInv'
  <2>1. CASE Chmod(i) \/ Close(i) \/ OperationFails(i)
    <3>. StageOnly(i)
      BY <2>1 DEF StageOnly, Chmod, Close, OperationFails, Reach, Writing
    <3>. QED  BY StageOnlyInv
  <2>. QED  BY <1>1, <2>1, CreateInv, ContentInv, RenameInv, RemoveInv DEF SaveStep
<1>2. ASSUME NEW r \in Readers, GetStep(r) PROVE StoreInv'
  BY <1>2, GetInv
<1>3. CASE Kill \/ PowerLoss
  BY <1>3, DeathInv
<1>4. CASE Flush
  BY <1>4 DEF Flush, StoreInv, TypeOK, NamesOwned, ContentFirst, NamedOnRename, ReadersHold, Kept
<1>5. CASE UNCHANGED vars
  BY <1>5 DEF vars, StoreInv, TypeOK, NamesOwned, ContentFirst, NamedOnRename, ReadersHold, Kept
<1>. QED  BY <1>1, <1>2, <1>3, <1>4, <1>5 DEF Next

\* So it holds for ever.
LEMMA StoreInvariant == Spec => []StoreInv
<1>. QED  BY InitStoreInv, NextStoreInv, PTL DEF Spec

-----------------------------------------------------------------------------
(* The refinement *)

\* Initial states map to initial states.
LEMMA InitPromise == Init => Promise!Init
<1>. SUFFICES ASSUME Init PROVE Promise!Init
  OBVIOUS
<1>1. Kept = {}
  BY DEF Init, Kept
<1>. QED  BY <1>1 DEF Init, Promise!Init, NoSave, NoGet

\* What the steps of a Save do to the promise.
LEMMA SavePromise ==
  ASSUME StoreInv, NEW i \in Reports, SaveStep(i)
  PROVE  [Promise!Next]_(Promise!vars)
<1>. USE DEF StoreInv
<1>. DEFINE OutcomeOf(s) == IF s.stage \in {"saved", "refused"} THEN s.stage ELSE "pending"
            outcome == [j \in Reports |-> OutcomeOf(save[j])]
<1>0. UNCHANGED <<flushed, get>>
  BY DEF SaveStep, SaveFailsEarly, CreateTemp, Chmod, Write, Sync, Close, Rename,
         OperationFails, RemoveTemp
<1>1. CASE CreateTemp(i) \/ Chmod(i) \/ Write(i) \/ Sync(i) \/ Close(i) \/ OperationFails(i)
  <2>1. final' = final
    BY <1>1 DEF CreateTemp, Chmod, Write, Sync, Close, OperationFails
  <2>2. \A j \in Reports : OutcomeOf(save'[j]) = OutcomeOf(save[j])
    BY <1>1 DEF TypeOK, CreateTemp, Chmod, Write, Sync, Close, OperationFails, Reach, Writing
  <2>. QED  BY <1>0, <2>1, <2>2 DEF Promise!vars, Kept
<1>2. CASE SaveFailsEarly(i)
  <2>1. /\ final' = final /\ final[i] = None /\ save[i].stage = "idle"
        /\ save' = [save EXCEPT ![i].stage = "refused"]
    BY <1>2 DEF SaveFailsEarly, Reach, NamedOnRename
  <2>2. outcome' = [outcome EXCEPT ![i] = "refused"] /\ outcome[i] = "pending"
    BY <2>1 DEF TypeOK
  <2>3. Promise!Refuse(i)
    BY <1>0, <2>1, <2>2 DEF Promise!Refuse, Kept
  <2>. QED  BY <2>3 DEF Promise!Next
<1>3. CASE Rename(i)
  <2>1. /\ save[i].stage = "closed" /\ save' = [save EXCEPT ![i].stage = "renamed"]
        /\ final' = [final EXCEPT ![i] = i]
    BY <1>3 DEF Rename, Reach, NamesOwned, Writing
  <2>2. Kept' = Kept \cup {i}
    BY <2>1, StoreAssumption DEF TypeOK, Kept
  <2>3. outcome' = outcome /\ outcome[i] = "pending"
    BY <2>1 DEF TypeOK
  <2>4. Promise!Keep(i)
    BY <1>0, <2>2, <2>3 DEF Promise!Keep
  <2>. QED  BY <2>4 DEF Promise!Next
<1>4. CASE RemoveTemp(i)
  <2>1. final' = final /\ Kept' = Kept
    BY <1>4 DEF RemoveTemp, Kept
  <2>2. CASE save[i].stage = "renamed"
    <3>1. i \in Kept
      BY <2>2, StoreAssumption DEF NamedOnRename, Kept
    <3>2. outcome' = [outcome EXCEPT ![i] = "saved"] /\ outcome[i] = "pending"
      BY <1>4, <2>2 DEF TypeOK, RemoveTemp, Reach, Ended
    <3>3. Promise!Acknowledge(i)
      BY <1>0, <2>1, <3>1, <3>2 DEF Promise!Acknowledge
    <3>. QED  BY <3>3 DEF Promise!Next
  <2>3. CASE save[i].stage = "aborting"
    <3>1. i \notin Kept
      BY <2>3 DEF NamedOnRename, Kept
    <3>2. outcome' = [outcome EXCEPT ![i] = "refused"] /\ outcome[i] = "pending"
      BY <1>4, <2>3 DEF TypeOK, RemoveTemp, Reach, Ended
    <3>3. Promise!Refuse(i)
      BY <1>0, <2>1, <3>1, <3>2 DEF Promise!Refuse
    <3>. QED  BY <3>3 DEF Promise!Next
  <2>. QED  BY <1>4, <2>2, <2>3 DEF RemoveTemp
<1>. QED  BY <1>1, <1>2, <1>3, <1>4 DEF SaveStep

\* What the steps of a reader do to it.
LEMMA GetPromise ==
  ASSUME StoreInv, NEW r \in Readers, GetStep(r)
  PROVE  [Promise!Next]_(Promise!vars)
<1>. USE DEF StoreInv
<1>. DEFINE ReplyOf(g) == IF g.stage \in {"idle", "reading"} THEN None
                          ELSE [id |-> g.id, answer |-> g.stage]
            reply == [q \in Readers |-> ReplyOf(get[q])]
<1>0. UNCHANGED <<save, final, flushed>> /\ Kept' = Kept
  BY DEF GetStep, Open, OpenFails, Read, ReadFails, Kept
<1>1. ASSUME NEW i \in Reports, Open(r, i) PROVE Promise!Next
  <2>1. CASE final[i] = None
    <3>1. i \notin Kept
      BY <2>1 DEF Kept
    <3>2. reply' = [reply EXCEPT ![r] = [id |-> i, answer |-> "absent"]]
      BY <1>1, <2>1 DEF TypeOK, Open
    <3>3. Promise!LookUp(r, i)
      BY <1>0, <3>1, <3>2 DEF Promise!LookUp, Promise!Answer
    <3>. QED  BY <3>3 DEF Promise!Next
  <2>2. CASE final[i] # None
    <3>1. reply' = [reply EXCEPT ![r] = None]
      BY <1>1, <2>2 DEF TypeOK, Open
    <3>2. Promise!Ask(r)
      BY <1>0, <3>1 DEF Promise!Ask
    <3>. QED  BY <3>2 DEF Promise!Next
  <2>. QED  BY <2>1, <2>2
<1>2. ASSUME NEW i \in Reports, OpenFails(r, i) PROVE Promise!Next
  <2>1. reply' = [reply EXCEPT ![r] = [id |-> i, answer |-> "error"]]
    BY <1>2 DEF TypeOK, OpenFails
  <2>2. Promise!LookUp(r, i)
    BY <1>0, <2>1 DEF Promise!LookUp, Promise!Answer
  <2>. QED  BY <2>2 DEF Promise!Next
<1>3. CASE Read(r) \/ ReadFails(r)
  <2>. DEFINE i == get[r].id
  <2>1. i \in Reports /\ i \in Kept
    BY <1>3, StoreAssumption DEF Read, ReadFails, ReadersHold, Kept
  <2>2. CASE Read(r)
    <3>1. get[r].file \in whole /\ get[r].file = i
      BY <2>1, <2>2, StoreAssumption DEF Read, ReadersHold, ContentFirst
    <3>2. reply' = [reply EXCEPT ![r] = [id |-> i, answer |-> "found"]]
      BY <2>2, <3>1 DEF TypeOK, Read
    <3>. QED  BY <1>0, <2>1, <3>2 DEF Promise!LookUp, Promise!Answer, Promise!Next
  <2>3. CASE ReadFails(r)
    <3>1. reply' = [reply EXCEPT ![r] = [id |-> i, answer |-> "error"]]
      BY <2>3 DEF TypeOK, ReadFails
    <3>. QED  BY <1>0, <2>1, <3>1 DEF Promise!LookUp, Promise!Answer, Promise!Next
  <2>. QED  BY <1>3, <2>2, <2>3
<1>. QED  BY <1>1, <1>2, <1>3 DEF GetStep

\* What the death of the process and a power loss do to it.
LEMMA DeathPromise ==
  ASSUME StoreInv, Kill \/ PowerLoss
  PROVE  Promise!Die
<1>. USE DEF StoreInv
<1>1. /\ \A i \in Reports : save[i].stage \in {"saved", "refused"}
                               \/ save'[i].stage \in {"saved", "refused"}
           => save'[i].stage = save[i].stage
      /\ get' = [r \in Readers |-> NoGet]
  BY DEF Kill, PowerLoss, KillSaves, TypeOK, RemovalDue, Writing
<1>2. Kept' \subseteq Kept /\ flushed \subseteq Kept' /\ flushed' = flushed
  <2>1. CASE Kill
    BY <2>1 DEF Kill, Kept, NamedOnRename
  <2>2. CASE PowerLoss
    <3>1. /\ \A i \in Reports : final'[i] \in {None, final[i]}
          /\ \A i \in flushed : final'[i] = final[i]
          /\ flushed' = flushed
      BY <2>2 DEF PowerLoss, TypeOK
    <3>. QED  BY <3>1 DEF Kept, NamedOnRename, TypeOK
  <2>. QED  BY <2>1, <2>2
<1>3. [r \in Readers |-> IF get'[r].stage \in {"idle", "reading"} THEN None
                         ELSE [id |-> get'[r].id, answer |-> get'[r].stage]]
        = [r \in Readers |-> None]
  BY <1>1 DEF NoGet
<1>4. [i \in Reports |-> IF save'[i].stage \in {"saved", "refused"}
                         THEN save'[i].stage ELSE "pending"]
        = [i \in Reports |-> IF save[i].stage \in {"saved", "refused"}
                             THEN save[i].stage ELSE "pending"]
  BY <1>1
<1>. QED  BY <1>2, <1>3, <1>4 DEF Promise!Die

\* Every step is a step of ReportStore, or none.
LEMMA NextPromise == StoreInv /\ [Next]_vars => [Promise!Next]_(Promise!vars)
<1>. SUFFICES ASSUME StoreInv, [Next]_vars PROVE [Promise!Next]_(Promise!vars)
  OBVIOUS
<1>1. CASE Flush
  BY <1>1 DEF Flush, Kept, Promise!Settle, Promise!Next
<1>2. CASE Kill \/ PowerLoss
  BY <1>2, DeathPromise DEF Promise!Next
<1>3. CASE UNCHANGED vars
  BY <1>3 DEF vars, Promise!vars, Kept
<1>. QED  BY <1>1, <1>2, <1>3, SavePromise, GetPromise DEF Next

\* FileStore implements ReportStore: a report is found whole or not at all, a Save
\* that returns nil has kept it, and only a power loss takes any away
\* (store.go:31-83).
THEOREM StoreKeepsPromise == Spec => WholeOrAbsent
<1>1. Init => Promise!Init
  BY InitPromise
<1>2. StoreInv /\ [Next]_vars => [Promise!Next]_(Promise!vars)
  BY NextPromise
<1>. QED  BY <1>1, <1>2, StoreInvariant, PTL DEF Spec, WholeOrAbsent, Promise!Spec

\* A deferred removal takes no other file (store.go:45).
THEOREM RemovalIsOwn == Spec => RemovesOnlyItsOwn
<1>1. ASSUME StoreInv, NEW i \in Reports, NEW n \in TempNames,
             RemoveTemp(i), temps[n] # None, temps'[n] = None
      PROVE  temps[n] = i
  <2>1. n = save[i].temp
    BY <1>1 DEF RemoveTemp, StoreInv, TypeOK
  <2>2. temps[save[i].temp] \in {i, None}
    BY <1>1 DEF RemoveTemp, StoreInv, NamesOwned, RemovalDue
  <2>. QED  BY <1>1, <2>1, <2>2
<1>2. StoreInv =>
        [\A i \in Reports, n \in TempNames :
           RemoveTemp(i) /\ temps[n] # None /\ temps'[n] = None => temps[n] = i]_vars
  BY <1>1
<1>. QED  BY <1>2, StoreInvariant, PTL DEF Spec, RemovesOnlyItsOwn

\* The types of FileStore.
THEOREM StoreTypeCorrect == Spec => []TypeOK
<1>. QED  BY StoreInvariant, PTL DEF StoreInv

=============================================================================
