----------------------- MODULE OutputTransactionProofs -----------------------
(***************************************************************************)
(* Theorems about OutputTransaction, for every bundle, every set of runs,  *)
(* every assignment of process identifiers and every bound.                *)
(***************************************************************************)
EXTENDS OutputTransaction, TLAPS

(* The phases that work on an entry: at[p] is one.                         *)
EntryPhases ==
  {"preflight", "probe", "probing", "stage", "write", "identify", "displace", "publish"}

(* TypeOK in parts, and what it needs to be inductive.                     *)
FileSystemType ==
  /\ link \in [Names -> Inodes \cup {NoInode}]
  /\ file \in [Inodes -> Files]

ControlType ==
  /\ pc \in [Processes -> {"idle", "open", "parents", "preflight", "probe", "probing", "stage",
                           "write", "identify", "displace", "publish", "abort", "cleanup",
                           "settle", "sync", "done", "crashed"}]
  /\ at \in [Processes -> 0 .. N]
  /\ \A p \in Processes : pc[p] \in EntryPhases => at[p] \in Entries

LedgerType ==
  /\ had \in [Processes -> SUBSET Entries]
  /\ temp \in [Processes -> [Entries -> Inodes \cup {NoInode}]]
  /\ known \in [Processes -> SUBSET Entries]
  /\ original \in [Processes -> [Entries -> Inodes \cup {NoInode}]]
  /\ backed \in [Processes -> SUBSET Entries]
  /\ published \in [Processes -> SUBSET Entries]

ReportType ==
  /\ todo \in [Processes -> SUBSET Tasks]
  /\ outcome \in [Processes -> {"none", "failed", "committed"}]
  /\ clean \in [Processes -> BOOLEAN]
  /\ quarantine \in SUBSET Processes
  /\ pinned \in [Processes -> Nat]

EnvironmentType ==
  /\ capacity \in Capacities /\ existed \in SUBSET Entries
  /\ faults \in Nat /\ edits \in Nat

TypeInv == FileSystemType /\ ControlType /\ LedgerType /\ ReportType /\ EnvironmentType

LEMMA TypeInvImpliesTypeOK == TypeInv => TypeOK
  BY DEF TypeInv, FileSystemType, ControlType, LedgerType, ReportType, EnvironmentType, TypeOK

(* The names of an entry are names.                                        *)
LEMMA NamesType ==
  ASSUME NEW p \in Processes, NEW e \in Entries
  PROVE  /\ Target(e) \in Names
         /\ Temporary(p, e) \in Names /\ Backup(p, e) \in Names /\ Probe(p, e) \in Names
         /\ \A k \in ClaimKinds : Claim(p, k, e) \in Names
  BY PidAssumption
     DEF Target, Temporary, Backup, Probe, Claim, Names, StagingKinds

(* So are the two names of a task.                                         *)
LEMMA TaskNamesType ==
  ASSUME NEW p \in Processes, NEW t \in Tasks
  PROVE  Source(p, t) \in Names /\ ClaimOf(p, t) \in Names
  <1>1. t.entry \in Entries
    BY DEF Tasks
  <1>2. QED
    BY <1>1, NamesType DEF Source, ClaimOf, ClaimKinds

(* The name table stays a name table.                                      *)
LEMMA LinkType ==
  ASSUME link \in [Names -> Inodes \cup {NoInode}], NEW a \in Names, NEW b \in Names
  PROVE  /\ Move(a, b) \in [Names -> Inodes \cup {NoInode}]
         /\ Unlink(a) \in [Names -> Inodes \cup {NoInode}]
  BY DEF Move, Unlink

(* An inode entered in a register of inodes.                               *)
LEMMA RegisterType ==
  ASSUME NEW f \in [Processes -> [Entries -> Inodes \cup {NoInode}]],
         NEW p \in Processes, NEW e \in Entries, NEW i \in Inodes \cup {NoInode}
  PROVE  [f EXCEPT ![p][e] = i] \in [Processes -> [Entries -> Inodes \cup {NoInode}]]
  OBVIOUS

(* What runs and other actors write are files.                             *)
LEMMA FileType ==
  ASSUME NEW p \in Processes, NEW e \in Entries
  PROVE  /\ \A k \in {"probe", "partial", "staged"} : File(k, p, e) \in Files
         /\ \A k \in {"original", "edited", "irregular"} : File(k, Nobody, e) \in Files
         /\ Nothing \in Files
  BY DEF File, Files, Nothing

LEMMA InitType == Init => TypeInv
  <1> SUFFICES ASSUME Init PROVE TypeInv
    OBVIOUS
  <1> USE SizeAssumption DEF Entries
  <1>1. PICK home \in [existed -> Inodes] :
          /\ link = [n \in Names |->
                       IF n[1] = "target" /\ n[3] \in existed THEN home[n[3]] ELSE NoInode]
          /\ file = [i \in Inodes |->
                       IF \E e \in existed : home[e] = i
                       THEN File("original", Nobody, CHOOSE e \in existed : home[e] = i)
                       ELSE Nothing]
    BY DEF Init
  <1>2. link \in [Names -> Inodes \cup {NoInode}]
    BY <1>1
  <1>3. file \in [Inodes -> Files]
    <2> SUFFICES ASSUME NEW i \in Inodes
                 PROVE  (IF \E e \in existed : home[e] = i
                         THEN File("original", Nobody, CHOOSE e \in existed : home[e] = i)
                         ELSE Nothing) \in Files
      BY <1>1
    <2>1. CASE \E e \in existed : home[e] = i
      <3>1. (CHOOSE e \in existed : home[e] = i) \in existed
        BY <2>1
      <3>2. QED
        BY <2>1, <3>1 DEF Init, File, Files
    <2>2. CASE ~ \E e \in existed : home[e] = i
      BY <2>2 DEF Nothing, File, Files
    <2>3. QED
      BY <2>1, <2>2
  <1>4. QED
    BY <1>2, <1>3, BoundAssumption
       DEF Init, TypeInv, FileSystemType, ControlType, LedgerType, ReportType,
           EnvironmentType, EntryPhases

LEMMA FileSystemStep ==
  ASSUME TypeInv, NEW p \in Processes, Step(p) \/ Crash(p)
  PROVE  FileSystemType'
  <1> USE DEF TypeInv, FileSystemType
  <1>1. CASE ProbeOut(p)
    BY <1>1, NamesType, FileType DEF ProbeOut, At, ControlType, EntryPhases, Allocatable
  <1>2. CASE ProbeOutFails(p)
    <2>1. Claim(p, "probe-claim", at[p]) \in Names /\ File("probe", p, at[p]) \in Files
      BY <1>2, NamesType, FileType DEF ProbeOutFails, At, ControlType, EntryPhases, ClaimKinds
    <2>2. CASE UNCHANGED fs
      BY <2>2 DEF fs
    <2>3. CASE \E i \in Allocatable :
                 /\ link' = [link EXCEPT ![Claim(p, "probe-claim", at[p])] = i]
                 /\ file' = [file EXCEPT ![i] = File("probe", p, at[p])]
      BY <2>1, <2>3 DEF Allocatable
    <2>4. QED
      BY <1>2, <2>2, <2>3 DEF ProbeOutFails
  <1>3. CASE ProbeBack(p)
    BY <1>3, NamesType, LinkType DEF ProbeBack, At, ControlType, EntryPhases
  <1>4. CASE ProbeBackFails(p)
    BY <1>4, NamesType, LinkType DEF ProbeBackFails, At, ControlType, EntryPhases, ClaimKinds
  <1>5. CASE StageCreate(p)
    BY <1>5, NamesType, FileType DEF StageCreate, At, ControlType, EntryPhases, Allocatable
  <1>6. CASE StageWrite(p)
    BY <1>6, FileType DEF StageWrite, At, ControlType, EntryPhases
  <1>7. CASE Displace(p)
    BY <1>7, NamesType, LinkType DEF Displace, At, ControlType, EntryPhases
  <1>8. CASE Publish(p)
    BY <1>8, NamesType, LinkType DEF Publish, At, ControlType, EntryPhases
  <1>9. CASE ClaimFile(p)
    BY <1>9, TaskNamesType, LinkType DEF ClaimFile, ReportType
  <1>10. CASE Discard(p)
    BY <1>10, TaskNamesType, LinkType DEF Discard, ReportType
  <1>11. CASE Restore(p)
    BY <1>11, TaskNamesType, LinkType, NamesType DEF Restore, ReportType, Tasks
  <1>12. CASE PutBack(p)
    BY <1>12, TaskNamesType, LinkType DEF PutBack, ReportType
  <1>13. CASE UNCHANGED fs
    BY <1>13 DEF fs
  <1>14. QED
    BY <1>1, <1>2, <1>3, <1>4, <1>5, <1>6, <1>7, <1>8, <1>9, <1>10, <1>11, <1>12, <1>13
       DEF Step, Prepare, Stage, Install, Finish, Crash,
           Begin, OpenQuarantine, OpenQuarantineFails, OpenParents, OpenParentsFails,
           Preflight, PreflightFails, StageCreateFails, StageWriteFails, IdentifyAbsent,
           Identify, IdentifyFails, DisplaceFails, PublishFails, Abort, ClaimFileFails, Strand,
           RemoveQuarantine, SyncDirectories

LEMMA ControlStep ==
  ASSUME TypeInv, NEW p \in Processes, Step(p) \/ Crash(p)
  PROVE  ControlType'
  <1> USE SizeAssumption DEF TypeInv, ControlType, EntryPhases, Entries, At, Goto, Advance, Fail
  <1>1. CASE Begin(p)
    BY <1>1 DEF Begin
  <1>2. CASE OpenQuarantine(p)
    BY <1>2 DEF OpenQuarantine
  <1>3. CASE OpenQuarantineFails(p)
    BY <1>3 DEF OpenQuarantineFails
  <1>3a. CASE OpenParents(p)
    BY <1>3a DEF OpenParents
  <1>3b. CASE OpenParentsFails(p)
    BY <1>3b DEF OpenParentsFails
  <1>4. CASE Preflight(p)
    BY <1>4 DEF Preflight
  <1>5. CASE PreflightFails(p)
    BY <1>5 DEF PreflightFails
  <1>6. CASE ProbeOut(p)
    BY <1>6 DEF ProbeOut
  <1>7. CASE ProbeOutFails(p)
    BY <1>7 DEF ProbeOutFails
  <1>8. CASE ProbeBack(p)
    BY <1>8 DEF ProbeBack
  <1>9. CASE ProbeBackFails(p)
    BY <1>9 DEF ProbeBackFails
  <1>10. CASE StageCreate(p)
    BY <1>10 DEF StageCreate
  <1>11. CASE StageCreateFails(p)
    BY <1>11 DEF StageCreateFails
  <1>12. CASE StageWrite(p)
    BY <1>12 DEF StageWrite
  <1>13. CASE StageWriteFails(p)
    BY <1>13 DEF StageWriteFails
  <1>14. CASE IdentifyAbsent(p)
    BY <1>14 DEF IdentifyAbsent
  <1>15. CASE Identify(p)
    BY <1>15 DEF Identify
  <1>16. CASE IdentifyFails(p)
    BY <1>16 DEF IdentifyFails
  <1>17. CASE Displace(p)
    BY <1>17 DEF Displace
  <1>18. CASE DisplaceFails(p)
    BY <1>18 DEF DisplaceFails
  <1>19. CASE Publish(p)
    BY <1>19 DEF Publish
  <1>20. CASE PublishFails(p)
    BY <1>20 DEF PublishFails
  <1>21. CASE Abort(p)
    BY <1>21 DEF Abort
  <1>22. CASE ClaimFile(p)
    BY <1>22 DEF ClaimFile
  <1>23. CASE ClaimFileFails(p)
    BY <1>23 DEF ClaimFileFails
  <1>24. CASE Discard(p)
    BY <1>24 DEF Discard
  <1>25. CASE Restore(p)
    BY <1>25 DEF Restore
  <1>26. CASE PutBack(p)
    BY <1>26 DEF PutBack
  <1>27. CASE Strand(p)
    BY <1>27 DEF Strand
  <1>28. CASE RemoveQuarantine(p)
    BY <1>28 DEF RemoveQuarantine
  <1>29. CASE SyncDirectories(p)
    BY <1>29 DEF SyncDirectories
  <1>30. CASE Crash(p)
    BY <1>30 DEF Crash
  <1>31. QED
    BY <1>1, <1>2, <1>3, <1>3a, <1>3b, <1>4, <1>5, <1>6, <1>7, <1>8, <1>9, <1>10, <1>11, <1>12,
       <1>13, <1>14, <1>15, <1>16, <1>17, <1>18, <1>19, <1>20, <1>21, <1>22, <1>23, <1>24,
       <1>25, <1>26, <1>27, <1>28, <1>29, <1>30
       DEF Step, Prepare, Stage, Install, Finish

LEMMA LedgerStep ==
  ASSUME TypeInv, NEW p \in Processes, Step(p) \/ Crash(p)
  PROVE  LedgerType'
  <1> USE DEF TypeInv, LedgerType, ledger, At, ControlType, EntryPhases
  <1>1. CASE Begin(p)
    BY <1>1 DEF Begin
  <1>2. CASE OpenQuarantine(p)
    BY <1>2 DEF OpenQuarantine
  <1>3. CASE OpenQuarantineFails(p)
    BY <1>3 DEF OpenQuarantineFails
  <1>3a. CASE OpenParents(p)
    BY <1>3a DEF OpenParents
  <1>3b. CASE OpenParentsFails(p)
    BY <1>3b DEF OpenParentsFails
  <1>4. CASE Preflight(p)
    BY <1>4 DEF Preflight
  <1>5. CASE PreflightFails(p)
    BY <1>5 DEF PreflightFails
  <1>6. CASE ProbeOut(p)
    BY <1>6 DEF ProbeOut
  <1>7. CASE ProbeOutFails(p)
    BY <1>7 DEF ProbeOutFails
  <1>8. CASE ProbeBack(p)
    BY <1>8 DEF ProbeBack
  <1>9. CASE ProbeBackFails(p)
    BY <1>9 DEF ProbeBackFails
  <1>10. CASE StageCreate(p)
    <2>1. PICK i \in Inodes : temp' = [temp EXCEPT ![p][at[p]] = i]
      BY <1>10 DEF StageCreate, Allocatable
    <2>2. at[p] \in Entries
      BY <1>10 DEF StageCreate
    <2>3. QED
      BY <1>10, <2>1, <2>2, RegisterType DEF StageCreate
  <1>11. CASE StageCreateFails(p)
    BY <1>11 DEF StageCreateFails
  <1>12. CASE StageWrite(p)
    BY <1>12 DEF StageWrite
  <1>13. CASE StageWriteFails(p)
    <2>1. at[p] \in Entries
      BY <1>13 DEF StageWriteFails
    <2>2. known' \in [Processes -> SUBSET Entries]
      <3>1. known' = known \/ known' = [known EXCEPT ![p] = @ \cup {at[p]}]
        BY <1>13 DEF StageWriteFails
      <3>2. CASE known' = known
        BY <3>2
      <3>3. CASE known' = [known EXCEPT ![p] = @ \cup {at[p]}]
        BY <2>1, <3>3
      <3>4. QED
        BY <3>1, <3>2, <3>3
    <2>3. QED
      BY <1>13, <2>2 DEF StageWriteFails
  <1>14. CASE IdentifyAbsent(p)
    BY <1>14 DEF IdentifyAbsent
  <1>15. CASE Identify(p)
    <2>1. at[p] \in Entries
      BY <1>15 DEF Identify
    <2>2. link[Target(at[p])] \in Inodes \cup {NoInode}
      BY <2>1, NamesType DEF FileSystemType
    <2>3. QED
      BY <1>15, <2>1, <2>2, RegisterType DEF Identify
  <1>16. CASE IdentifyFails(p)
    BY <1>16 DEF IdentifyFails
  <1>17. CASE Displace(p)
    BY <1>17 DEF Displace
  <1>18. CASE DisplaceFails(p)
    BY <1>18 DEF DisplaceFails
  <1>19. CASE Publish(p)
    BY <1>19 DEF Publish
  <1>20. CASE PublishFails(p)
    BY <1>20 DEF PublishFails
  <1>21. CASE Abort(p)
    BY <1>21 DEF Abort
  <1>22. CASE ClaimFile(p)
    BY <1>22 DEF ClaimFile
  <1>23. CASE ClaimFileFails(p)
    BY <1>23 DEF ClaimFileFails
  <1>24. CASE Discard(p)
    BY <1>24 DEF Discard
  <1>25. CASE Restore(p)
    BY <1>25 DEF Restore
  <1>26. CASE PutBack(p)
    BY <1>26 DEF PutBack
  <1>27. CASE Strand(p)
    BY <1>27 DEF Strand
  <1>28. CASE RemoveQuarantine(p)
    BY <1>28 DEF RemoveQuarantine
  <1>29. CASE SyncDirectories(p)
    BY <1>29 DEF SyncDirectories
  <1>30. CASE Crash(p)
    BY <1>30 DEF Crash
  <1>31. QED
    BY <1>1, <1>2, <1>3, <1>3a, <1>3b, <1>4, <1>5, <1>6, <1>7, <1>8, <1>9, <1>10, <1>11, <1>12,
       <1>13, <1>14, <1>15, <1>16, <1>17, <1>18, <1>19, <1>20, <1>21, <1>22, <1>23, <1>24,
       <1>25, <1>26, <1>27, <1>28, <1>29, <1>30
       DEF Step, Prepare, Stage, Install, Finish

LEMMA ReportStep ==
  ASSUME TypeInv, NEW p \in Processes, Step(p) \/ Crash(p)
  PROVE  ReportType'
  <1> USE DEF TypeInv, ReportType, Blame
  <1>1. CASE Begin(p)
    BY <1>1 DEF Begin, RootDescriptors
  <1>2. CASE OpenQuarantine(p)
    BY <1>2 DEF OpenQuarantine, RootDescriptors, QuarantineDescriptors, ReservedDescriptors,
                PinnedDescriptors
  <1>3. CASE OpenQuarantineFails(p)
    <2>1. /\ UNCHANGED todo
          /\ quarantine' = quarantine \/ quarantine' = quarantine \cup {p}
          /\ UNCHANGED outcome \/ outcome' = [outcome EXCEPT ![p] = "failed"]
          /\ UNCHANGED clean \/ clean' = [clean EXCEPT ![p] = FALSE]
          /\ \E n \in {0, 2} : pinned' = [pinned EXCEPT ![p] = n]
      BY <1>3 DEF OpenQuarantineFails, QuarantineDescriptors
    <2>2. pinned' \in [Processes -> Nat]
      <3>1. PICK n \in {0, 2} : pinned' = [pinned EXCEPT ![p] = n]
        BY <2>1
      <3>2. QED
        BY <3>1
    <2>3. /\ clean' \in [Processes -> BOOLEAN]
          /\ outcome' \in [Processes -> {"none", "failed", "committed"}]
      BY <2>1
    <2>4. QED
      BY <2>1, <2>2, <2>3
  <1>3a. CASE OpenParents(p)
    BY <1>3a, SizeAssumption DEF OpenParents
  <1>3b. CASE OpenParentsFails(p)
    BY <1>3b DEF OpenParentsFails
  <1>4. CASE Preflight(p)
    BY <1>4 DEF Preflight
  <1>5. CASE PreflightFails(p)
    BY <1>5 DEF PreflightFails
  <1>6. CASE ProbeOut(p)
    BY <1>6 DEF ProbeOut
  <1>7. CASE ProbeOutFails(p)
    BY <1>7 DEF ProbeOutFails
  <1>8. CASE ProbeBack(p)
    BY <1>8 DEF ProbeBack
  <1>9. CASE ProbeBackFails(p)
    BY <1>9 DEF ProbeBackFails
  <1>10. CASE StageCreate(p)
    BY <1>10 DEF StageCreate
  <1>11. CASE StageCreateFails(p)
    BY <1>11 DEF StageCreateFails
  <1>12. CASE StageWrite(p)
    BY <1>12 DEF StageWrite
  <1>13. CASE StageWriteFails(p)
    BY <1>13 DEF StageWriteFails
  <1>14. CASE IdentifyAbsent(p)
    BY <1>14 DEF IdentifyAbsent
  <1>15. CASE Identify(p)
    BY <1>15 DEF Identify
  <1>16. CASE IdentifyFails(p)
    BY <1>16 DEF IdentifyFails
  <1>17. CASE Displace(p)
    BY <1>17 DEF Displace
  <1>18. CASE DisplaceFails(p)
    BY <1>18 DEF DisplaceFails
  <1>19. CASE Publish(p)
    <2>1. {Task("retire", b) : b \in backed[p]} \in SUBSET Tasks
      BY DEF LedgerType, Task, Tasks, TaskKinds
    <2>2. CASE at[p] = N
      BY <1>19, <2>1, <2>2 DEF Publish, ReleaseReserve, RootDescriptors, QuarantineDescriptors,
                               ReservedDescriptors, PinnedDescriptors
    <2>3. CASE at[p] # N
      BY <1>19, <2>3 DEF Publish
    <2>4. QED
      BY <2>2, <2>3
  <1>20. CASE PublishFails(p)
    BY <1>20 DEF PublishFails
  <1>21. CASE Abort(p)
    BY <1>21 DEF Abort, ReleaseReserve, RootDescriptors, QuarantineDescriptors,
                 ReservedDescriptors, PinnedDescriptors,
           RollbackTasks, Task, Tasks, TaskKinds, LedgerType
  <1>22. CASE ClaimFile(p)
    BY <1>22 DEF ClaimFile, Drop
  <1>23. CASE ClaimFileFails(p)
    BY <1>23 DEF ClaimFileFails, Drop
  <1>24. CASE Discard(p)
    BY <1>24 DEF Discard, Drop
  <1>25. CASE Restore(p)
    BY <1>25 DEF Restore, Drop
  <1>26. CASE PutBack(p)
    BY <1>26 DEF PutBack, Drop
  <1>27. CASE Strand(p)
    BY <1>27 DEF Strand, Drop
  <1>28. CASE RemoveQuarantine(p)
    BY <1>28 DEF RemoveQuarantine
  <1>29. CASE SyncDirectories(p)
    BY <1>29 DEF SyncDirectories
  <1>30. CASE Crash(p)
    BY <1>30 DEF Crash
  <1>31. QED
    BY <1>1, <1>2, <1>3, <1>3a, <1>3b, <1>4, <1>5, <1>6, <1>7, <1>8, <1>9, <1>10, <1>11, <1>12,
       <1>13, <1>14, <1>15, <1>16, <1>17, <1>18, <1>19, <1>20, <1>21, <1>22, <1>23, <1>24,
       <1>25, <1>26, <1>27, <1>28, <1>29, <1>30
       DEF Step, Prepare, Stage, Install, Finish

LEMMA EnvironmentStep ==
  ASSUME TypeInv, NEW p \in Processes, Step(p) \/ Crash(p)
  PROVE  EnvironmentType'
  <1> USE DEF TypeInv, EnvironmentType, Because, Charge, env
  <1>1. CASE Begin(p)
    BY <1>1 DEF Begin
  <1>2. CASE OpenQuarantine(p)
    BY <1>2 DEF OpenQuarantine
  <1>3. CASE OpenQuarantineFails(p)
    BY <1>3 DEF OpenQuarantineFails
  <1>3a. CASE OpenParents(p)
    BY <1>3a DEF OpenParents
  <1>3b. CASE OpenParentsFails(p)
    BY <1>3b DEF OpenParentsFails
  <1>4. CASE Preflight(p)
    BY <1>4 DEF Preflight
  <1>5. CASE PreflightFails(p)
    BY <1>5 DEF PreflightFails
  <1>6. CASE ProbeOut(p)
    BY <1>6 DEF ProbeOut
  <1>7. CASE ProbeOutFails(p)
    BY <1>7 DEF ProbeOutFails
  <1>8. CASE ProbeBack(p)
    BY <1>8 DEF ProbeBack
  <1>9. CASE ProbeBackFails(p)
    BY <1>9 DEF ProbeBackFails
  <1>10. CASE StageCreate(p)
    BY <1>10 DEF StageCreate
  <1>11. CASE StageCreateFails(p)
    BY <1>11 DEF StageCreateFails
  <1>12. CASE StageWrite(p)
    BY <1>12 DEF StageWrite
  <1>13. CASE StageWriteFails(p)
    BY <1>13 DEF StageWriteFails
  <1>14. CASE IdentifyAbsent(p)
    BY <1>14 DEF IdentifyAbsent
  <1>15. CASE Identify(p)
    BY <1>15 DEF Identify
  <1>16. CASE IdentifyFails(p)
    BY <1>16 DEF IdentifyFails
  <1>17. CASE Displace(p)
    BY <1>17 DEF Displace
  <1>18. CASE DisplaceFails(p)
    BY <1>18 DEF DisplaceFails
  <1>19. CASE Publish(p)
    BY <1>19 DEF Publish
  <1>20. CASE PublishFails(p)
    BY <1>20 DEF PublishFails
  <1>21. CASE Abort(p)
    BY <1>21 DEF Abort
  <1>22. CASE ClaimFile(p)
    BY <1>22 DEF ClaimFile
  <1>23. CASE ClaimFileFails(p)
    BY <1>23 DEF ClaimFileFails
  <1>24. CASE Discard(p)
    BY <1>24 DEF Discard
  <1>25. CASE Restore(p)
    BY <1>25 DEF Restore
  <1>26. CASE PutBack(p)
    BY <1>26 DEF PutBack
  <1>27. CASE Strand(p)
    BY <1>27 DEF Strand
  <1>28. CASE RemoveQuarantine(p)
    BY <1>28 DEF RemoveQuarantine
  <1>29. CASE SyncDirectories(p)
    BY <1>29 DEF SyncDirectories
  <1>30. CASE Crash(p)
    BY <1>30 DEF Crash
  <1>31. QED
    BY <1>1, <1>2, <1>3, <1>3a, <1>3b, <1>4, <1>5, <1>6, <1>7, <1>8, <1>9, <1>10, <1>11, <1>12,
       <1>13, <1>14, <1>15, <1>16, <1>17, <1>18, <1>19, <1>20, <1>21, <1>22, <1>23, <1>24,
       <1>25, <1>26, <1>27, <1>28, <1>29, <1>30
       DEF Step, Prepare, Stage, Install, Finish

LEMMA EditStep ==
  ASSUME TypeInv, NEW e \in Entries, Edit(e)
  PROVE  TypeInv'
  <1> USE DEF TypeInv
  <1>1. FileSystemType'
    <2>. Target(e) \in Names
      BY DEF Target, Names
    <2>1. CASE link' = Unlink(Target(e)) /\ UNCHANGED file
      BY <2>1, LinkType DEF FileSystemType
    <2>2. CASE \E i \in Allocatable, k \in {"edited", "irregular"} :
                 /\ link' = [link EXCEPT ![Target(e)] = i]
                 /\ file' = [file EXCEPT ![i] = File(k, Nobody, e)]
      BY <2>2 DEF FileSystemType, Allocatable, File, Files
    <2>3. QED
      BY <2>1, <2>2 DEF Edit
  <1>2. ControlType' /\ LedgerType' /\ ReportType' /\ EnvironmentType'
    BY DEF Edit, ControlType, LedgerType, ledger, ReportType, EnvironmentType
  <1>3. QED
    BY <1>1, <1>2

LEMMA TypeStep == TypeInv /\ [Next]_vars => TypeInv'
  <1> SUFFICES ASSUME TypeInv, [Next]_vars PROVE TypeInv'
    OBVIOUS
  <1>1. ASSUME NEW p \in Processes, Step(p) \/ Crash(p)
        PROVE  TypeInv'
    BY <1>1, FileSystemStep, ControlStep, LedgerStep, ReportStep, EnvironmentStep DEF TypeInv
  <1>2. ASSUME NEW e \in Entries, Edit(e)
        PROVE  TypeInv'
    BY <1>2, EditStep
  <1>3. CASE UNCHANGED vars
    BY <1>3 DEF vars, fs, ledger, env, TypeInv, FileSystemType, ControlType, LedgerType,
                ReportType, EnvironmentType
  <1>4. QED
    BY <1>1, <1>2, <1>3 DEF Next

(* Every variable has its type in every state (TypeOK).                    *)
THEOREM TypeCorrect == Spec => []TypeOK
  <1>1. Spec => []TypeInv
    BY InitType, TypeStep, PTL DEF Spec
  <1>2. QED
    BY <1>1, TypeInvImpliesTypeOK, PTL

-----------------------------------------------------------------------------
(* What makes removal safe.                                                *)

Unreported == EntryPhases \cup {"idle", "open", "parents", "abort"}

(* The inode a live run holds for an entry it stages was made by that run: *)
(* the descriptor keeps it from being handed out again.                    *)
StagedIsOwn ==
  \A p \in Processes, e \in Entries :
    temp[p][e] # NoInode => ~At(p, "idle") /\ (Live(p) => file[temp[p][e]].owner = p)

(* The file under the probe name of a run that probes was made by that run. *)
ProbeIsOwn ==
  \A p \in Processes :
    At(p, "probing") /\ ~Free(Probe(p, at[p])) => file[link[Probe(p, at[p])]].owner = p

(* Live runs do not share staging names.                                   *)
PidsApart ==
  \A p, q \in Processes : Live(p) /\ Live(q) /\ Pid[p] = Pid[q] => p = q

(* A run that has no result yet has nothing to clean up; what is published *)
(* are the entries before the one the run is at.                           *)
ProgressOK ==
  \A p \in Processes :
    /\ pc[p] \in Unreported => outcome[p] = "none" /\ todo[p] = {}
    /\ pc[p] \in Unreported \ {"publish", "abort"} => published[p] = {}
    /\ At(p, "publish") => published[p] = 1 .. (at[p] - 1)

(* Backups are retired only for a bundle that is completely published, and *)
(* everything else is done only by a run that failed.                      *)
TasksOK ==
  \A p \in Processes : \A t \in todo[p] :
    IF t.kind = "retire"
      THEN published[p] = Entries /\ t.entry \in backed[p]
      ELSE outcome[p] = "failed"

SafeInv == TypeInv /\ StagedIsOwn /\ ProbeIsOwn /\ PidsApart /\ ProgressOK /\ TasksOK

LEMMA InitSafe == Init => SafeInv
  <1> SUFFICES ASSUME Init PROVE SafeInv
    OBVIOUS
  <1>1. \A p \in Processes : At(p, "idle") /\ ~Live(p) /\ todo[p] = {} /\ published[p] = {}
    BY DEF Init, At, Live
  <1>2. StagedIsOwn
    BY DEF Init, StagedIsOwn
  <1>3. ProbeIsOwn /\ PidsApart /\ TasksOK
    BY <1>1 DEF ProbeIsOwn, PidsApart, TasksOK, At
  <1>4. ProgressOK
    BY <1>1 DEF Init, ProgressOK, At, Unreported
  <1>5. QED
    BY <1>2, <1>3, <1>4, InitType DEF SafeInv

(* An inode that can be handed out is not the staged inode of a live run.  *)
LEMMA HeldIsKept ==
  ASSUME NEW i \in Allocatable, NEW q \in Processes, Live(q), NEW e \in Entries
  PROVE  temp[q][e] # i
  BY NameAssumption DEF Allocatable, Held

(* A step of a run moves that run only, from idle or live.                 *)
LEMMA PhaseStep ==
  ASSUME TypeInv, NEW p \in Processes, Step(p) \/ Crash(p)
  PROVE  /\ \A q \in Processes \ {p} : pc'[q] = pc[q]
         /\ Live(p) \/ Begin(p)
         /\ pc'[p] # "idle"
  <1> USE DEF TypeInv, ControlType, At, Goto, Advance, Fail, Live
  <1>1. CASE Prepare(p)
    BY <1>1 DEF Prepare, Begin, OpenQuarantine, OpenQuarantineFails, OpenParents,
                OpenParentsFails, Preflight, PreflightFails,
                ProbeOut, ProbeOutFails, ProbeBack, ProbeBackFails
  <1>2. CASE Stage(p)
    BY <1>2 DEF Stage, StageCreate, StageCreateFails, StageWrite, StageWriteFails
  <1>3. CASE Install(p)
    BY <1>3 DEF Install, IdentifyAbsent, Identify, IdentifyFails, Displace, DisplaceFails,
                Publish, PublishFails
  <1>4. CASE Finish(p)
    BY <1>4 DEF Finish, Abort, ClaimFile, ClaimFileFails, Discard, Restore, PutBack, Strand,
                RemoveQuarantine, SyncDirectories
  <1>5. CASE Crash(p)
    BY <1>5 DEF Crash
  <1>6. QED
    BY <1>1, <1>2, <1>3, <1>4, <1>5 DEF Step

(* What a step of a run writes, and where.                                 *)
LEMMA WriteStep ==
  ASSUME TypeInv, NEW p \in Processes, Step(p) \/ Crash(p)
  PROVE  \/ UNCHANGED <<file, temp>>
         \/ \E i \in Allocatable :
              /\ file' = [file EXCEPT ![i] = File("probe", p, at[p])]
              /\ UNCHANGED temp
         \/ \E i \in Allocatable :
              /\ at[p] \in Entries
              /\ file' = [file EXCEPT ![i] = File("partial", p, at[p])]
              /\ temp' = [temp EXCEPT ![p][at[p]] = i]
         \/ /\ At(p, "write") /\ at[p] \in Entries
            /\ file' = [file EXCEPT ![temp[p][at[p]]] = File("staged", p, at[p])]
            /\ UNCHANGED temp
  <1>1. CASE ProbeOut(p)
    BY <1>1 DEF ProbeOut, ledger
  <1>2. CASE ProbeOutFails(p)
    BY <1>2 DEF ProbeOutFails, ledger, fs
  <1>3. CASE StageCreate(p)
    BY <1>3 DEF StageCreate, TypeInv, ControlType, EntryPhases, At
  <1>4. CASE StageWrite(p)
    BY <1>4 DEF StageWrite, TypeInv, ControlType, EntryPhases, At
  <1>5. CASE UNCHANGED <<file, temp>>
    BY <1>5
  <1>6. QED
    BY <1>1, <1>2, <1>3, <1>4, <1>5
       DEF Step, Prepare, Stage, Install, Finish, fs, ledger,
           Begin, OpenQuarantine, OpenQuarantineFails, OpenParents, OpenParentsFails,
           Preflight, PreflightFails, ProbeBack,
           ProbeBackFails, StageCreateFails, StageWriteFails, IdentifyAbsent, Identify,
           IdentifyFails, Displace, DisplaceFails, Publish, PublishFails, Abort, ClaimFile,
           ClaimFileFails, Discard, Restore, PutBack, Strand, RemoveQuarantine,
           SyncDirectories, Crash

LEMMA StagedStep ==
  ASSUME SafeInv, NEW p \in Processes, Step(p) \/ Crash(p)
  PROVE  StagedIsOwn'
  <1> SUFFICES ASSUME NEW q \in Processes, NEW e \in Entries, temp'[q][e] # NoInode
               PROVE  pc'[q] # "idle" /\ (Live(q)' => file'[temp'[q][e]].owner = q)
    BY DEF StagedIsOwn, At
  <1> USE DEF SafeInv, TypeInv, FileSystemType, LedgerType, StagedIsOwn, At
  <1>1. ASSUME temp[q][e] # NoInode
        PROVE  pc'[q] # "idle" /\ (Live(q)' => Live(q))
    BY <1>1, PhaseStep DEF Live, Begin
  <1>2. CASE UNCHANGED <<file, temp>>
    BY <1>1, <1>2
  <1>3. ASSUME NEW i \in Allocatable, UNCHANGED temp,
               file' = [file EXCEPT ![i] = File("probe", p, at[p])]
        PROVE  pc'[q] # "idle" /\ (Live(q)' => file'[temp'[q][e]].owner = q)
    <2>1. temp[q][e] = temp'[q][e]
      BY <1>3
    <2>2. ASSUME Live(q) PROVE temp[q][e] # i
      BY <2>2, HeldIsKept
    <2>3. QED
      BY <1>1, <1>3, <2>1, <2>2 DEF Allocatable
  <1>4. ASSUME NEW i \in Allocatable, at[p] \in Entries,
               file' = [file EXCEPT ![i] = File("partial", p, at[p])],
               temp' = [temp EXCEPT ![p][at[p]] = i]
        PROVE  pc'[q] # "idle" /\ (Live(q)' => file'[temp'[q][e]].owner = q)
    <2>1. CASE q = p /\ e = at[p]
      BY <1>4, <2>1, PhaseStep DEF Allocatable, File
    <2>2. CASE ~(q = p /\ e = at[p])
      <3>1. temp'[q][e] = temp[q][e]
        BY <1>4, <2>2
      <3>2. pc'[q] # "idle" /\ (Live(q)' => Live(q) /\ file[temp[q][e]].owner = q)
        BY <1>1, <3>1
      <3>3. ASSUME Live(q) PROVE temp[q][e] # i
        BY <3>3, HeldIsKept
      <3>4. file'[temp[q][e]] = IF temp[q][e] = i THEN File("partial", p, at[p])
                                ELSE file[temp[q][e]]
        BY <1>4 DEF Allocatable
      <3>5. QED
        BY <3>1, <3>2, <3>3, <3>4
    <2>3. QED
      BY <2>1, <2>2
  <1>5. ASSUME At(p, "write"), at[p] \in Entries, UNCHANGED temp,
               file' = [file EXCEPT ![temp[p][at[p]]] = File("staged", p, at[p])]
        PROVE  pc'[q] # "idle" /\ (Live(q)' => file'[temp'[q][e]].owner = q)
    <2>1. CASE temp[q][e] = temp[p][at[p]]
      <3>1. Live(q)' => p = q
        <4>1. temp[q][e] = temp'[q][e] /\ Live(p)
          BY <1>5 DEF Live
        <4>2. Live(q)' => file[temp[q][e]].owner = q
          BY <1>1, <4>1
        <4>3. file[temp[q][e]].owner = p
          BY <1>5, <2>1, <4>1
        <4>4. QED
          BY <4>2, <4>3
      <3>2. QED
        BY <1>1, <1>5, <2>1, <3>1, NameAssumption DEF File
    <2>2. CASE temp[q][e] # temp[p][at[p]]
      BY <1>1, <1>5, <2>2
    <2>3. QED
      BY <2>1, <2>2
  <1>6. QED
    BY <1>2, <1>3, <1>4, <1>5, WriteStep

(* The registers of a run are written by that run only.                    *)
LEMMA FrameStep ==
  ASSUME TypeInv, NEW p \in Processes, Step(p) \/ Crash(p), NEW q \in Processes, q # p
  PROVE  /\ at'[q] = at[q] /\ todo'[q] = todo[q] /\ outcome'[q] = outcome[q]
         /\ published'[q] = published[q] /\ backed'[q] = backed[q]
  <1> USE DEF TypeInv, ControlType, LedgerType, ReportType, ledger, Advance, Fail
  <1>1. CASE Prepare(p)
    BY <1>1 DEF Prepare, Begin, OpenQuarantine, OpenQuarantineFails, OpenParents,
                OpenParentsFails, Preflight, PreflightFails,
                ProbeOut, ProbeOutFails, ProbeBack, ProbeBackFails
  <1>2. CASE Stage(p)
    BY <1>2 DEF Stage, StageCreate, StageCreateFails, StageWrite, StageWriteFails
  <1>3. CASE Install(p)
    BY <1>3 DEF Install, IdentifyAbsent, Identify, IdentifyFails, Displace, DisplaceFails,
                Publish, PublishFails
  <1>4. CASE Finish(p)
    BY <1>4 DEF Finish, Abort, ClaimFile, ClaimFileFails, Discard, Restore, PutBack, Strand,
                RemoveQuarantine, SyncDirectories, Drop
  <1>5. CASE Crash(p)
    BY <1>5 DEF Crash
  <1>6. QED
    BY <1>1, <1>2, <1>3, <1>4, <1>5 DEF Step

LEMMA PidsStep ==
  ASSUME SafeInv, NEW p \in Processes, Step(p) \/ Crash(p)
  PROVE  PidsApart'
  <1> SUFFICES ASSUME NEW q \in Processes, NEW r \in Processes,
                      Live(q)', Live(r)', Pid[q] = Pid[r], q # r
               PROVE  FALSE
    BY DEF PidsApart
  <1> USE DEF SafeInv, PidsApart
  <1>1. \A d \in Processes \ {p} : Live(d)' => Live(d)
    BY PhaseStep DEF Live
  <1>2. CASE Live(p)
    BY <1>1, <1>2
  <1>3. CASE Begin(p)
    BY <1>1, <1>3 DEF Begin
  <1>4. QED
    BY <1>2, <1>3, PhaseStep

(* The names a step of a run may link or unlink.                           *)
Reach(p) ==
  {Target(e) : e \in Entries} \cup {Temporary(p, e) : e \in Entries}
    \cup {Backup(p, e) : e \in Entries} \cup {Probe(p, e) : e \in Entries}
    \cup {Claim(p, k, e) : k \in ClaimKinds, e \in Entries}

LEMMA OthersNamesKept ==
  ASSUME TypeInv, NEW p \in Processes, Step(p) \/ Crash(p), NEW n \in Names, n \notin Reach(p)
  PROVE  link'[n] = link[n]
  <1>2. ASSUME NEW d \in Entries
        PROVE  /\ n # Target(d) /\ n # Temporary(p, d) /\ n # Backup(p, d) /\ n # Probe(p, d)
               /\ \A k \in ClaimKinds : n # Claim(p, k, d)
    BY DEF Reach
  <1>3. ASSUME NEW t \in Tasks PROVE n # Source(p, t) /\ n # ClaimOf(p, t)
    <2>1. t.entry \in Entries
      BY DEF Tasks
    <2>2. QED
      BY <1>2, <2>1 DEF Source, ClaimOf, ClaimKinds
  <1>4. ASSUME NEW a \in Names, NEW b \in Names, n # a, n # b
        PROVE  Move(a, b)[n] = link[n] /\ Unlink(a)[n] = link[n]
    BY <1>4 DEF Move, Unlink, TypeInv, FileSystemType
  <1> USE DEF TypeInv, FileSystemType, ControlType, ReportType, EntryPhases, At
  <1>5. CASE ProbeOut(p)
    BY <1>2, <1>5 DEF ProbeOut
  <1>6. CASE ProbeOutFails(p)
    BY <1>2, <1>6 DEF ProbeOutFails, fs, ClaimKinds
  <1>7. CASE ProbeBack(p)
    BY <1>2, <1>4, <1>7, NamesType DEF ProbeBack
  <1>8. CASE ProbeBackFails(p)
    <2>1. at[p] \in Entries
      BY <1>8 DEF ProbeBackFails
    <2>2. \/ UNCHANGED link
          \/ link' = Unlink(Probe(p, at[p]))
          \/ link' = Move(Probe(p, at[p]), Claim(p, "probe-claim", at[p]))
      BY <1>8 DEF ProbeBackFails
    <2>3. n # Probe(p, at[p]) /\ n # Claim(p, "probe-claim", at[p])
      BY <1>2, <2>1 DEF ClaimKinds
    <2>4. Probe(p, at[p]) \in Names /\ Claim(p, "probe-claim", at[p]) \in Names
      BY <2>1, NamesType DEF ClaimKinds
    <2>5. QED
      BY <1>4, <2>2, <2>3, <2>4
  <1>9. CASE StageCreate(p)
    BY <1>2, <1>9 DEF StageCreate
  <1>10. CASE Displace(p)
    BY <1>2, <1>4, <1>10, NamesType DEF Displace
  <1>11. CASE Publish(p)
    BY <1>2, <1>4, <1>11, NamesType DEF Publish
  <1>12. CASE ClaimFile(p)
    BY <1>3, <1>4, <1>12, TaskNamesType DEF ClaimFile
  <1>13. CASE Discard(p)
    BY <1>3, <1>4, <1>13, TaskNamesType DEF Discard
  <1>14. CASE Restore(p)
    <2>1. PICK t \in Tasks : link' = Move(ClaimOf(p, t), Target(t.entry)) /\ t.entry \in Entries
      BY <1>14 DEF Restore, Tasks
    <2>2. QED
      BY <1>2, <1>3, <1>4, <2>1, NamesType, TaskNamesType
  <1>15. CASE PutBack(p)
    BY <1>3, <1>4, <1>15, TaskNamesType DEF PutBack
  <1>16. CASE UNCHANGED link
    BY <1>16
  <1>17. QED
    BY <1>5, <1>6, <1>7, <1>8, <1>9, <1>10, <1>11, <1>12, <1>13, <1>14, <1>15, <1>16
       DEF Step, Prepare, Stage, Install, Finish, fs,
           Begin, OpenQuarantine, OpenQuarantineFails, OpenParents, OpenParentsFails,
           Preflight, PreflightFails,
           StageCreateFails, StageWrite, StageWriteFails, IdentifyAbsent, Identify,
           IdentifyFails, DisplaceFails, PublishFails, Abort, ClaimFileFails, Strand,
           RemoveQuarantine, SyncDirectories, Crash

(* A step of a run does not touch the probe names of a live other run.     *)
LEMMA OthersProbesKept ==
  ASSUME TypeInv, NEW p \in Processes, Step(p) \/ Crash(p),
         NEW q \in Processes, Pid[q] # Pid[p], NEW e \in Entries
  PROVE  link'[Probe(q, e)] = link[Probe(q, e)]
  <1>1. Probe(q, e) \in Names
    BY NamesType
  <1>2. Probe(q, e) \notin Reach(p)
    BY DEF Reach, Target, Temporary, Backup, Probe, Claim, ClaimKinds
  <1>3. QED
    BY <1>1, <1>2, OthersNamesKept

(* A step of a run rewrites no linked file but its own.                    *)
LEMMA OthersFilesKept ==
  ASSUME SafeInv, NEW p \in Processes, Step(p) \/ Crash(p),
         NEW i \in Inodes, Linked(i), file[i].owner # p
  PROVE  file'[i] = file[i]
  <1> USE DEF SafeInv, TypeInv, FileSystemType, LedgerType, At
  <1>1. ASSUME NEW j \in Allocatable PROVE j # i
    BY DEF Allocatable
  <1>2. CASE At(p, "write") /\ at[p] \in Entries
    <2>1. temp[p][at[p]] # i
      BY <1>2, NameAssumption DEF StagedIsOwn, Live
    <2>2. QED
      BY <1>1, <2>1, WriteStep DEF Allocatable
  <1>3. CASE ~(At(p, "write") /\ at[p] \in Entries)
    BY <1>1, <1>3, WriteStep DEF Allocatable
  <1>4. QED
    BY <1>2, <1>3

LEMMA ProbeStep ==
  ASSUME SafeInv, NEW p \in Processes, Step(p) \/ Crash(p)
  PROVE  ProbeIsOwn'
  <1> SUFFICES ASSUME NEW q \in Processes, pc'[q] = "probing",
                      link'[Probe(q, at'[q])] # NoInode
               PROVE  file'[link'[Probe(q, at'[q])]].owner = q
    BY DEF ProbeIsOwn, At, Free
  <1> USE DEF SafeInv, TypeInv
  <1>1. CASE q = p
    <2>1. ProbeOut(p)
      BY <1>1 DEF Step, Prepare, Stage, Install, Finish, ControlType, At, Goto, Advance, Fail,
           Begin, OpenQuarantine, OpenQuarantineFails, OpenParents, OpenParentsFails,
           Preflight, PreflightFails, ProbeOutFails,
           ProbeBack, ProbeBackFails, StageCreate, StageCreateFails, StageWrite,
           StageWriteFails, IdentifyAbsent, Identify, IdentifyFails, Displace, DisplaceFails,
           Publish, PublishFails, Abort, ClaimFile, ClaimFileFails, Discard, Restore, PutBack,
           Strand, RemoveQuarantine, SyncDirectories, Crash
    <2>2. at[p] \in Entries /\ at'[p] = at[p]
      BY <2>1 DEF ProbeOut, ControlType, EntryPhases, At
    <2>3. QED
      BY <1>1, <2>1, <2>2, NamesType DEF ProbeOut, File, FileSystemType, Allocatable
  <1>2. CASE q # p
    <2>1. pc[q] = "probing" /\ at'[q] = at[q] /\ at[q] \in Entries
      BY <1>2, PhaseStep, FrameStep DEF ControlType, EntryPhases
    <2>2. CASE Begin(p)
      BY <2>1, <2>2 DEF Begin, fs, ProbeIsOwn, At, Free
    <2>3. CASE Live(p)
      <3>1. Pid[q] # Pid[p]
        BY <1>2, <2>1, <2>3 DEF PidsApart, Live
      <3>2. link'[Probe(q, at[q])] = link[Probe(q, at[q])]
        BY <2>1, <3>1, OthersProbesKept
      <3>3. link[Probe(q, at[q])] \in Inodes /\ Linked(link[Probe(q, at[q])])
        BY <2>1, <3>2, NamesType DEF FileSystemType, Linked
      <3>4. file[link[Probe(q, at[q])]].owner = q
        BY <2>1, <3>2 DEF ProbeIsOwn, At, Free
      <3>5. QED
        BY <1>2, <2>1, <3>2, <3>3, <3>4, OthersFilesKept
    <2>4. QED
      BY <2>2, <2>3, PhaseStep
  <1>3. QED
    BY <1>1, <1>2

LEMMA ProgressStep ==
  ASSUME SafeInv, NEW p \in Processes, Step(p) \/ Crash(p)
  PROVE  ProgressOK'
  <1> DEFINE Own ==
        /\ pc'[p] \in Unreported => outcome'[p] = "none" /\ todo'[p] = {}
        /\ pc'[p] \in Unreported \ {"publish", "abort"} => published'[p] = {}
        /\ pc'[p] = "publish" => published'[p] = 1 .. (at'[p] - 1)
  <1>0. /\ TypeInv /\ ControlType /\ LedgerType /\ ReportType
        /\ \A q \in Processes :
             /\ pc[q] \in Unreported => outcome[q] = "none" /\ todo[q] = {}
             /\ pc[q] \in Unreported \ {"publish", "abort"} => published[q] = {}
             /\ pc[q] = "publish" => published[q] = 1 .. (at[q] - 1)
    BY DEF SafeInv, TypeInv, ProgressOK, At
  <1>1. ASSUME Prepare(p) PROVE Own
    BY <1>0, <1>1, SizeAssumption
       DEF ControlType, LedgerType, ReportType, Unreported, EntryPhases, Entries, At, Goto,
           Advance, Fail, ledger, Prepare, Begin, OpenQuarantine, OpenQuarantineFails,
           OpenParents, OpenParentsFails, Preflight,
           PreflightFails, ProbeOut, ProbeOutFails, ProbeBack, ProbeBackFails
  <1>2. ASSUME Stage(p) PROVE Own
    BY <1>0, <1>2, SizeAssumption
       DEF ControlType, LedgerType, ReportType, Unreported, EntryPhases, Entries, At, Goto,
           Advance, Fail, ledger, Stage, StageCreate, StageCreateFails, StageWrite,
           StageWriteFails
  <1>3. ASSUME Install(p) PROVE Own
    <2>1. CASE Publish(p)
      <3>1. /\ at[p] \in Entries
            /\ published[p] = 1 .. (at[p] - 1)
            /\ outcome[p] = "none" /\ todo[p] = {}
        BY <1>0, <2>1 DEF Publish, ControlType, At, Unreported, EntryPhases
      <3>2. published'[p] = 1 .. at[p]
        BY <1>0, <2>1, <3>1, SizeAssumption DEF Publish, LedgerType, Entries
      <3>3. CASE at[p] = N
        BY <1>0, <2>1, <3>3 DEF Publish, ControlType, Goto, Unreported, EntryPhases
      <3>4. CASE at[p] # N
        <4>1. pc'[p] = "publish" /\ at'[p] = at[p] + 1 /\ UNCHANGED <<outcome, todo>>
          BY <1>0, <2>1, <3>4 DEF Publish, Advance, ControlType, Goto
        <4>2. 1 .. at[p] = 1 .. (at'[p] - 1)
          BY <3>1, <4>1, SizeAssumption DEF Entries
        <4>3. QED
          BY <3>1, <3>2, <4>1, <4>2
      <3>5. QED
        BY <3>3, <3>4
    <2>2. ASSUME pc[p] \in {"identify", "displace"}, UNCHANGED <<outcome, todo, published>>,
                 pc'[p] = "publish" => at'[p] = 1
          PROVE  Own
      <3>1. published[p] = {} /\ outcome[p] = "none" /\ todo[p] = {}
        BY <1>0, <2>2 DEF Unreported, EntryPhases
      <3>2. 1 .. (1 - 1) = {}
        OBVIOUS
      <3>3. QED
        BY <2>2, <3>1, <3>2
    <2>3. CASE IdentifyAbsent(p)
      BY <1>0, <2>2, <2>3 DEF IdentifyAbsent, ControlType, Advance, Goto, At, ledger
    <2>4. CASE Displace(p)
      <3>1. /\ pc[p] = "displace" /\ UNCHANGED <<outcome, todo, published>>
            /\ Advance(p, "identify", "publish") \/ Fail(p)
        BY <2>4 DEF Displace, At
      <3>2. pc'[p] = "publish" => at'[p] = 1
        BY <1>0, <3>1 DEF ControlType, Advance, Fail, Goto
      <3>3. QED
        BY <2>2, <3>1, <3>2
    <2>5. CASE Identify(p)
      BY <1>0, <2>2, <2>5 DEF Identify, ControlType, Goto, At
    <2>6. CASE IdentifyFails(p) \/ DisplaceFails(p)
      BY <1>0, <2>2, <2>6 DEF IdentifyFails, DisplaceFails, ControlType, Fail, Goto, At, ledger
    <2>7. CASE PublishFails(p)
      BY <1>0, <2>7
         DEF PublishFails, ControlType, Fail, Goto, At, ledger, Unreported, EntryPhases
    <2>8. QED
      BY <1>3, <2>1, <2>3, <2>4, <2>5, <2>6, <2>7 DEF Install
  <1>4. ASSUME Finish(p) PROVE Own
    BY <1>0, <1>4, SizeAssumption
       DEF ControlType, LedgerType, ReportType, Unreported, EntryPhases, Entries, At, Goto,
           ledger, Finish, Abort, ClaimFile, ClaimFileFails, Discard, Restore, PutBack, Strand,
           RemoveQuarantine, SyncDirectories, Drop
  <1>5. ASSUME Crash(p) PROVE Own
    BY <1>0, <1>5 DEF Crash, ControlType, Goto, Unreported, EntryPhases
  <1>6. Own
    BY <1>1, <1>2, <1>3, <1>4, <1>5 DEF Step
  <1> SUFFICES ASSUME NEW q \in Processes
               PROVE  /\ pc'[q] \in Unreported => outcome'[q] = "none" /\ todo'[q] = {}
                      /\ pc'[q] \in Unreported \ {"publish", "abort"} => published'[q] = {}
                      /\ pc'[q] = "publish" => published'[q] = 1 .. (at'[q] - 1)
    BY DEF ProgressOK, At, Unreported
  <1>7. CASE q = p
    BY <1>6, <1>7
  <1>8. CASE q # p
    <2>1. /\ at'[q] = at[q] /\ todo'[q] = todo[q] /\ outcome'[q] = outcome[q]
          /\ published'[q] = published[q]
      BY <1>0, <1>8, FrameStep
    <2>2. pc'[q] = pc[q]
      BY <1>0, <1>8, PhaseStep
    <2>3. QED
      BY <1>0, <2>1, <2>2
  <1>9. QED
    BY <1>7, <1>8

LEMMA TasksStep ==
  ASSUME SafeInv, NEW p \in Processes, Step(p) \/ Crash(p)
  PROVE  TasksOK'
  <1> SUFFICES ASSUME NEW q \in Processes, NEW t \in todo'[q]
               PROVE  IF t.kind = "retire"
                        THEN published'[q] = Entries /\ t.entry \in backed'[q]
                        ELSE outcome'[q] = "failed"
    BY DEF TasksOK
  <1> USE DEF SafeInv, TypeInv, TasksOK
  <1>1. CASE q # p
    BY <1>1, FrameStep
  <1>2. CASE q = p
    <2>1. CASE Publish(p)
      <3>1. CASE at[p] = N
        BY <1>2, <2>1, <3>1, SizeAssumption
           DEF Publish, Task, ControlType, LedgerType, ReportType, ProgressOK, Entries, At
      <3>2. CASE at[p] # N
        BY <1>2, <2>1, <3>2
           DEF Publish, ProgressOK, At, Unreported, EntryPhases
      <3>3. QED
        BY <3>1, <3>2
    <2>2. CASE Abort(p)
      BY <1>2, <2>2 DEF Abort, RollbackTasks, Task, ReportType
    <2>3. CASE Displace(p)
      BY <1>2, <2>3 DEF Displace, ProgressOK, At, Unreported, EntryPhases
    <2>4. ASSUME todo'[p] \subseteq todo[p], UNCHANGED <<published, backed>>,
                 outcome'[p] = outcome[p] \/ todo[p] = {}
          PROVE  IF t.kind = "retire"
                   THEN published'[p] = Entries /\ t.entry \in backed'[p]
                   ELSE outcome'[p] = "failed"
      BY <1>2, <2>4
    <2>5. CASE Prepare(p)
      BY <1>2, <2>4, <2>5
         DEF Prepare, Begin, OpenQuarantine, OpenQuarantineFails, OpenParents,
             OpenParentsFails, Preflight, PreflightFails,
             ProbeOut, ProbeOutFails, ProbeBack, ProbeBackFails, ledger, ProgressOK, At,
             Unreported, EntryPhases
    <2>6. CASE Stage(p)
      BY <1>2, <2>4, <2>6
         DEF Stage, StageCreate, StageCreateFails, StageWrite, StageWriteFails, ledger
    <2>7. CASE Install(p)
      BY <1>2, <2>1, <2>3, <2>4, <2>7
         DEF Install, IdentifyAbsent, Identify, IdentifyFails, DisplaceFails, PublishFails,
             ledger
    <2>8. CASE Finish(p)
      BY <1>2, <2>2, <2>4, <2>8
         DEF Finish, ClaimFile, ClaimFileFails, Discard, Restore, PutBack, Strand,
             RemoveQuarantine, SyncDirectories, Drop, ledger, ReportType
    <2>9. CASE Crash(p)
      BY <1>2, <2>4, <2>9 DEF Crash, ledger
    <2>10. QED
      BY <2>5, <2>6, <2>7, <2>8, <2>9 DEF Step
  <1>3. QED
    BY <1>1, <1>2

(* The other actor touches the targets only, and no inode a run holds.     *)
LEMMA EditSafe ==
  ASSUME SafeInv, NEW e \in Entries, Edit(e)
  PROVE  SafeInv'
  <1> USE DEF SafeInv, TypeInv, At, Live
  <1>1. UNCHANGED <<pc, at, temp, backed, published, todo, outcome>>
    BY DEF Edit, ledger
  <1>2. PidsApart' /\ ProgressOK' /\ TasksOK'
    BY <1>1 DEF PidsApart, ProgressOK, TasksOK
  <1>3. ASSUME NEW i \in Inodes, ~(\E j \in Allocatable : j = i)
        PROVE  file'[i] = file[i]
    BY <1>3 DEF Edit, Allocatable, FileSystemType
  <1>4. StagedIsOwn'
    <2> SUFFICES ASSUME NEW p \in Processes, NEW d \in Entries, temp[p][d] # NoInode
                 PROVE  ~At(p, "idle") /\ (Live(p) => file'[temp[p][d]].owner = p)
      BY <1>1 DEF StagedIsOwn
    <2>1. temp[p][d] \in Inodes
      BY DEF LedgerType
    <2>2. ~At(p, "idle") /\ (Live(p) => file[temp[p][d]].owner = p)
      BY DEF StagedIsOwn
    <2>3. ASSUME Live(p)
          PROVE  file'[temp[p][d]] = file[temp[p][d]]
      <3>1. \A j \in Allocatable : j # temp[p][d]
        BY <2>3, HeldIsKept
      <3>2. QED
        BY <1>3, <2>1, <3>1
    <2>4. QED
      BY <2>2, <2>3
  <1>5. ASSUME NEW p \in Processes, NEW d \in Entries
        PROVE  link'[Probe(p, d)] = link[Probe(p, d)]
    <2>1. Probe(p, d) \in Names /\ Probe(p, d) # Target(e)
      BY NamesType DEF Probe, Target
    <2>2. QED
      BY <2>1 DEF Edit, Unlink, FileSystemType
  <1>6. ProbeIsOwn'
    <2> SUFFICES ASSUME NEW p \in Processes, pc[p] = "probing", link[Probe(p, at[p])] # NoInode
                 PROVE  file'[link[Probe(p, at[p])]].owner = p
      BY <1>1, <1>5 DEF ProbeIsOwn, ControlType, EntryPhases, Free
    <2>1. at[p] \in Entries /\ Probe(p, at[p]) \in Names
      BY NamesType DEF ControlType, EntryPhases
    <2>2. link[Probe(p, at[p])] \in Inodes /\ Linked(link[Probe(p, at[p])])
      BY <2>1 DEF FileSystemType, Linked
    <2>3. file'[link[Probe(p, at[p])]] = file[link[Probe(p, at[p])]]
      BY <1>3, <2>2 DEF Allocatable
    <2>4. QED
      BY <2>3 DEF ProbeIsOwn, Free
  <1>7. QED
    BY <1>2, <1>4, <1>6, EditStep

LEMMA SafeStep == SafeInv /\ [Next]_vars => SafeInv'
  <1> SUFFICES ASSUME SafeInv, [Next]_vars PROVE SafeInv'
    OBVIOUS
  <1>1. TypeInv'
    BY TypeStep DEF SafeInv
  <1>2. ASSUME NEW p \in Processes, Step(p) \/ Crash(p)
        PROVE  SafeInv'
    BY <1>1, <1>2, StagedStep, ProbeStep, PidsStep, ProgressStep, TasksStep DEF SafeInv
  <1>3. ASSUME NEW e \in Entries, Edit(e)
        PROVE  SafeInv'
    BY <1>3, EditSafe
  <1>4. CASE UNCHANGED vars
    BY <1>1, <1>4 DEF vars, ledger, SafeInv, StagedIsOwn, ProbeIsOwn, PidsApart, ProgressOK,
                      TasksOK, At, Live, Free
  <1>5. QED
    BY <1>2, <1>3, <1>4 DEF Next

LEMMA SafeInvariant == Spec => []SafeInv
  BY InitSafe, SafeStep, PTL DEF Spec

-----------------------------------------------------------------------------
(* Removal.  A rename to a free name loses nothing, whatever it moves.     *)
LEMMA MoveKeeps ==
  ASSUME FileSystemType, NEW a \in Names, NEW b \in Names, Free(b), link' = Move(a, b),
         NEW i \in Inodes
  PROVE  ~Dropped(i)
  <1> SUFFICES ASSUME NEW n \in Names, link[n] = i
               PROVE  \E m \in Names : link'[m] = i
    BY DEF Dropped, Linked
  <1>1. link[b] # i
    BY NameAssumption DEF Free
  <1>2. CASE n = a
    BY <1>1, <1>2 DEF Move, FileSystemType
  <1>3. CASE n # a
    BY <1>1, <1>3 DEF Move, FileSystemType
  <1>4. QED
    BY <1>2, <1>3

(* So does the creation of a file under a free name.                       *)
LEMMA CreateKeeps ==
  ASSUME FileSystemType, NEW a \in Names, NEW j, Free(a), link' = [link EXCEPT ![a] = j],
         NEW i \in Inodes
  PROVE  ~Dropped(i)
  BY NameAssumption DEF Dropped, Linked, Free, FileSystemType

(* A removal loses what the name led to, and nothing else.                 *)
LEMMA UnlinkDrops ==
  ASSUME FileSystemType, NEW a \in Names, link' = Unlink(a), NEW i \in Inodes, Dropped(i)
  PROVE  link[a] = i
  BY DEF Dropped, Linked, Unlink, FileSystemType

(* What a step of a run loses, that run may remove.                        *)
LEMMA NoLoss ==
  ASSUME SafeInv, NEW p \in Processes, Step(p) \/ Crash(p), NEW i \in Inodes, Dropped(i)
  PROVE  Moves(p) /\ MayRemove(p, i)
  <1>0. /\ TypeInv /\ FileSystemType /\ NoInode # i
        /\ pc \in [Processes -> {"idle", "open", "parents", "preflight", "probe", "probing", "stage",
                           "write", "identify", "displace", "publish", "abort", "cleanup",
                           "settle", "sync", "done", "crashed"}]
        /\ pc[p] \in EntryPhases => at[p] \in Entries
        /\ todo[p] \subseteq Tasks
    BY NameAssumption DEF SafeInv, TypeInv, ControlType, ReportType
  <1>1. CASE ProbeBack(p) \/ ProbeBackFails(p)
    <2>1. At(p, "probing") /\ at[p] \in Entries
      BY <1>0, <1>1 DEF ProbeBack, ProbeBackFails, At, EntryPhases
    <2>2. /\ Probe(p, at[p]) \in Names
          /\ Claim(p, "probe-claim", at[p]) \in Names
      BY <2>1, NamesType DEF ClaimKinds
    <2>3. link' = Unlink(Probe(p, at[p]))
      BY <1>0, <1>1, <2>2, MoveKeeps
         DEF ProbeBack, ProbeBackFails, CanMove, Dropped, Linked
    <2>4. link[Probe(p, at[p])] = i
      BY <1>0, <2>2, <2>3, UnlinkDrops
    <2>5. file[i].owner = p
      BY <1>0, <2>1, <2>4 DEF SafeInv, ProbeIsOwn, Free
    <2>6. outcome[p] = "none"
      BY <2>1 DEF SafeInv, ProgressOK, Unreported, EntryPhases, At
    <2>7. pc'[p] # pc[p]
      BY <1>0, <1>1, <2>1 DEF ProbeBack, ProbeBackFails, Advance, Fail, Goto, At
    <2>8. QED
      BY <2>5, <2>6, <2>7 DEF Moves, MayRemove
  <1>2. CASE Discard(p)
    <2>1. PICK t \in todo[p] : /\ t.kind # "restore"
                               /\ link[ClaimOf(p, t)] = Expected(p, t)
                               /\ link' = Unlink(ClaimOf(p, t))
      BY <1>2 DEF Discard, Verified
    <2>2. t \in Tasks /\ t.entry \in Entries /\ ClaimOf(p, t) \in Names
      BY <1>0, <2>1, TaskNamesType DEF Tasks
    <2>3. Expected(p, t) = i
      BY <1>0, <2>1, <2>2, UnlinkDrops
    <2>4. pc[p] = "settle" /\ pc'[p] = "cleanup"
      BY <1>0, <1>2 DEF Discard, Goto, At
    <2>5. Moves(p)
      BY <2>4 DEF Moves
    <2>6. CASE t.kind = "retire"
      BY <2>1, <2>3, <2>5, <2>6 DEF SafeInv, TasksOK, MayRemove, Expected
    <2>7. CASE t.kind # "retire"
      <3>1. temp[p][t.entry] = i /\ outcome[p] = "failed"
        BY <2>1, <2>3, <2>7 DEF SafeInv, TasksOK, Expected
      <3>2. file[i].owner = p
        BY <1>0, <2>2, <2>4, <3>1 DEF SafeInv, StagedIsOwn, Live
      <3>3. QED
        BY <2>5, <3>1, <3>2 DEF MayRemove
    <2>8. QED
      BY <2>6, <2>7
  <1>3. CASE ProbeOut(p) \/ StageCreate(p)
    <2>1. at[p] \in Entries
      BY <1>0, <1>3 DEF ProbeOut, StageCreate, At, EntryPhases
    <2>2. QED
      BY <1>0, <1>3, <2>1, NamesType, CreateKeeps DEF ProbeOut, StageCreate
  <1>4. CASE ProbeOutFails(p)
    <2>1. at[p] \in Entries
      BY <1>0, <1>4 DEF ProbeOutFails, At, EntryPhases
    <2>2. Claim(p, "probe-claim", at[p]) \in Names
      BY <2>1, NamesType DEF ClaimKinds
    <2>3. QED
      BY <1>0, <1>4, <2>2, CreateKeeps DEF ProbeOutFails, fs, Dropped, Linked
  <1>5. CASE Displace(p) \/ Publish(p)
    <2>1. at[p] \in Entries
      BY <1>0, <1>5 DEF Displace, Publish, At, EntryPhases
    <2>2. QED
      BY <1>0, <1>5, <2>1, NamesType, MoveKeeps DEF Displace, Publish, CanMove
  <1>6. CASE ClaimFile(p)
    BY <1>0, <1>6, TaskNamesType, MoveKeeps DEF ClaimFile, CanMove
  <1>7. CASE Restore(p)
    <2>1. PICK t \in todo[p] : Free(Target(t.entry)) /\ link' = Move(ClaimOf(p, t),
    Target(t.entry))
      BY <1>7 DEF Restore
    <2>2. Target(t.entry) \in Names /\ ClaimOf(p, t) \in Names
      BY <1>0, <2>1, NamesType, TaskNamesType DEF Tasks
    <2>3. QED
      BY <1>0, <2>1, <2>2, MoveKeeps
  <1>8. CASE PutBack(p)
    BY <1>0, <1>8, TaskNamesType, MoveKeeps DEF PutBack
  <1>9. CASE UNCHANGED link
    BY <1>9 DEF Dropped, Linked
  <1>10. QED
    BY <1>1, <1>2, <1>3, <1>4, <1>5, <1>6, <1>7, <1>8, <1>9
       DEF Step, Prepare, Stage, Install, Finish, fs,
           Begin, OpenQuarantine, OpenQuarantineFails, OpenParents, OpenParentsFails,
           Preflight, PreflightFails,
           StageCreateFails, StageWrite, StageWriteFails, IdentifyAbsent, Identify,
           IdentifyFails, DisplaceFails, PublishFails, Abort, ClaimFileFails, Strand,
           RemoveQuarantine, SyncDirectories, Crash

(* No run removes or overwrites a file that is neither its own nor an      *)
(* original which its complete publication replaces (RemovesOnlyItsOwn):   *)
(* for every number of runs, identifiers given anew, failures, crashes and *)
(* edits of the targets by another actor.                                  *)
THEOREM RemovalIsSafe == Spec => RemovesOnlyItsOwn
  <1> DEFINE Removal == \A i \in Inodes : Dropped(i) /\ edits' = edits =>
                           \E p \in Processes : Moves(p) /\ MayRemove(p, i)
  <1>1. SafeInv /\ [Next]_vars => [Removal]_vars
    <2> SUFFICES ASSUME SafeInv, Next, NEW i \in Inodes, Dropped(i), edits' = edits
                 PROVE  \E p \in Processes : Moves(p) /\ MayRemove(p, i)
      OBVIOUS
    <2>1. ASSUME NEW p \in Processes, Step(p) \/ Crash(p)
          PROVE  \E q \in Processes : Moves(q) /\ MayRemove(q, i)
      BY <2>1, NoLoss
    <2>2. ASSUME NEW e \in Entries, Edit(e) PROVE FALSE
      BY <2>2 DEF Edit, SafeInv, TypeInv, EnvironmentType
    <2>3. QED
      BY <2>1, <2>2 DEF Next
  <1>2. QED
    BY <1>1, SafeInvariant, PTL DEF Spec, RemovesOnlyItsOwn

-----------------------------------------------------------------------------
(* The originals.  What is published grows, and what existed is fixed.     *)
LEMMA PublishedGrows ==
  ASSUME TypeInv, NEW p \in Processes, Step(p) \/ Crash(p)
  PROVE  existed' = existed /\ \A q \in Processes : published[q] \subseteq published'[q]
  <1>1. CASE Publish(p)
    BY <1>1 DEF Publish, env, TypeInv, LedgerType
  <1>2. CASE UNCHANGED <<published, existed>>
    BY <1>2
  <1>3. QED
    BY <1>1, <1>2
       DEF Step, Prepare, Stage, Install, Finish, ledger, env,
           Begin, OpenQuarantine, OpenQuarantineFails, OpenParents, OpenParentsFails,
           Preflight, PreflightFails, ProbeOut,
           ProbeOutFails, ProbeBack, ProbeBackFails, StageCreate, StageCreateFails, StageWrite,
           StageWriteFails, IdentifyAbsent, Identify, IdentifyFails, Displace, DisplaceFails,
           PublishFails, Abort, ClaimFile, ClaimFileFails, Discard, Restore, PutBack, Strand,
           RemoveQuarantine, SyncDirectories, Crash

LEMMA OriginalsInit == Init => OriginalsSurvive
  <1> SUFFICES ASSUME Init, NEW e \in existed
               PROVE  \E n \in Names : OriginalAt(n, e)
    BY DEF OriginalsSurvive
  <1>1. PICK home \in [existed -> Inodes] :
          /\ \A c, d \in existed : home[c] = home[d] => c = d
          /\ link = [n \in Names |->
                       IF n[1] = "target" /\ n[3] \in existed THEN home[n[3]] ELSE NoInode]
          /\ file = [i \in Inodes |->
                       IF \E d \in existed : home[d] = i
                       THEN File("original", Nobody, CHOOSE d \in existed : home[d] = i)
                       ELSE Nothing]
    BY DEF Init
  <1>2. Target(e) \in Names /\ Target(e)[1] = "target" /\ Target(e)[3] = e
    BY DEF Init, Target, Names
  <1>3. link[Target(e)] = home[e] /\ home[e] \in Inodes
    BY <1>1, <1>2
  <1>4. (CHOOSE d \in existed : home[d] = home[e]) = e
    BY <1>1
  <1>5. file[home[e]] = File("original", Nobody, e)
    BY <1>1, <1>3, <1>4
  <1>6. QED
    BY <1>2, <1>3, <1>5, NameAssumption DEF OriginalAt, Free

LEMMA OriginalsStep ==
  ASSUME MaxEdits = 0, SafeInv, OriginalsSurvive, [Next]_vars
  PROVE  OriginalsSurvive'
  <1> SUFFICES ASSUME \A q \in Processes : published'[q] # Entries, NEW e \in existed'
               PROVE  \E n \in Names : /\ link'[n] # NoInode
                                       /\ file'[link'[n]] = File("original", Nobody, e)
    BY DEF OriginalsSurvive, OriginalAt, Free
  <1>0. TypeInv
    BY DEF SafeInv
  <1>1. ASSUME NEW p \in Processes, Step(p) \/ Crash(p)
        PROVE  \E n \in Names : /\ link'[n] # NoInode
                                /\ file'[link'[n]] = File("original", Nobody, e)
    <2>1. e \in existed /\ \A q \in Processes : published[q] \subseteq published'[q]
      BY <1>0, <1>1, PublishedGrows
    <2>2. \A q \in Processes : published'[q] \subseteq Entries
      BY <1>0, <1>1, TypeStep DEF TypeInv, LedgerType, Next
    <2>3. \A q \in Processes : published[q] # Entries
      BY <2>1, <2>2
    <2>4. PICK n \in Names : link[n] # NoInode /\ file[link[n]] = File("original", Nobody, e)
      BY <2>1, <2>3 DEF OriginalsSurvive, OriginalAt, Free
    <2> PICK i \in Inodes : i = link[n]
      BY <1>0, <2>4 DEF TypeInv, FileSystemType
    <2>5. Linked(i) /\ file[i].owner = Nobody /\ Nobody # p
      BY <2>4, NameAssumption DEF Linked, File
    <2>6. file'[i] = file[i]
      BY <1>1, <2>5, OthersFilesKept
    <2>7. ~Dropped(i)
      BY <1>1, <2>3, <2>5, NoLoss DEF MayRemove
    <2>8. PICK m \in Names : link'[m] = i
      BY <2>5, <2>7 DEF Dropped, Linked
    <2>9. QED
      BY <2>4, <2>6, <2>8
  <1>2. ASSUME NEW d \in Entries, Edit(d) PROVE FALSE
    BY <1>0, <1>2 DEF Edit, TypeInv, EnvironmentType
  <1>3. CASE UNCHANGED vars
    BY <1>3 DEF vars, ledger, env, OriginalsSurvive, OriginalAt, Free
  <1>4. QED
    BY <1>1, <1>2, <1>3 DEF Next

(* When nobody else edits the targets, every original is somewhere on disk *)
(* until a run has published all its entries (OriginalsSurvive): for every *)
(* number of runs that fail, are killed, or are given a used identifier.   *)
THEOREM OriginalsAreKept ==
  ASSUME MaxEdits = 0
  PROVE  Spec => []OriginalsSurvive
  <1>1. SafeInv /\ OriginalsSurvive /\ [Next]_vars => OriginalsSurvive'
    BY OriginalsStep
  <1>2. QED
    BY <1>1, OriginalsInit, SafeInvariant, PTL DEF Spec

=============================================================================
