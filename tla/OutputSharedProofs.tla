-------------------------- MODULE OutputSharedProofs ---------------------------
(***************************************************************************)
(* Two theorems about every set of runs of OutputTransaction on the same   *)
(* targets: a run that reports no cleanup error has left nothing behind,   *)
(* whatever another actor does to the targets; and when nobody else edits  *)
(* them, all runs have ended and none reports a cleanup error, the targets *)
(* hold the bundle of one run that succeeded, or no run succeeded.         *)
(***************************************************************************)
EXTENDS OutputSoloProofs

(* The run has an identifier of its own, and so its staging names.         *)
Alone(p) == \A q \in Processes \ {p} : Pid[q] # Pid[p]

(* What is under a staging name of the run is in its ledger, and then is   *)
(* the subject of a task.                                                  *)
StagingAt(p, e) ==
  /\ ~Free(Probe(p, e)) => At(p, "probing") /\ e = at[p]
  /\ ~Free(Temporary(p, e)) =>
       IF pc[p] \in Unreported THEN temp[p][e] # NoInode /\ e \notin published[p]
       ELSE \E t \in todo[p] : Source(p, t) = Temporary(p, e)
  /\ ~Free(Backup(p, e)) =>
       IF pc[p] \in Unreported THEN e \in backed[p]
       ELSE \E t \in todo[p] : Source(p, t) = Backup(p, e)

(* What a task has taken away is not under its staging name any more.      *)
TakenAt(p) ==
  At(p, "settle") => \A t \in todo[p] :
    First(p, t) /\ t.kind # "unpublish" => Free(Source(p, t))

TidyAt(p) ==
  /\ pc[p] \in {"idle", "open"} =>
       backed[p] = {} /\ \A e \in Entries : temp[p][e] = NoInode
  /\ pc[p] \in {"idle", "open"} \/ (pc[p] \in {"sync", "done"} /\ clean[p]) =>
       p \notin quarantine /\ QuarantineEmpty(p)
  /\ pc[p] \in {"sync", "done"} => todo[p] = {}
  /\ \A t, u \in todo[p] : t.kind = "retire" => u.kind = "retire"
  /\ Alone(p) => TakenAt(p)
  /\ Alone(p) /\ clean[p] /\ ~At(p, "crashed") => \A e \in Entries : StagingAt(p, e)

(* Staging names carry the identifier of a run.                            *)
StagingNames ==
  \A n \in Names : n[1] \in StagingKinds /\ ~Free(n) => \E q \in Processes : n[2] = Pid[q]

ResidueInv == StagingNames /\ \A p \in Processes : TidyAt(p)

-----------------------------------------------------------------------------
(* What the other runs and another actor leave alone.                      *)

(* The rest of the frame of a step: see FrameStep.                         *)
LEMMA FrameRest ==
  ASSUME TypeInv, NEW p \in Processes, Step(p) \/ Crash(p), NEW q \in Processes, q # p
  PROVE  temp'[q] = temp[q] /\ clean'[q] = clean[q] /\ (q \in quarantine' <=> q \in quarantine)
  <1> USE DEF TypeInv, ControlType, LedgerType, ReportType, ledger, Advance, Fail, Blame
  <1>1. CASE Prepare(p)
    BY <1>1 DEF Prepare, Begin, OpenQuarantine, OpenQuarantineFails, OpenParents,
                OpenParentsFails, Preflight, PreflightFails,
                ProbeOut, ProbeOutFails, ProbeBack, ProbeBackFails
  <1>2. CASE Stage(p)
    BY <1>2 DEF Stage, StageCreate, StageCreateFails, StageWrite, StageWriteFails
  <1>3. CASE Install(p)
    BY <1>3 DEF Install, IdentifyAbsent, Identify, IdentifyFails, Displace, DisplaceFails,
                Publish, PublishFails
  <1>4. CASE Finish(p)
    BY <1>4 DEF Finish, Abort, ClaimFile, ClaimFileFails, Discard, Restore, PutBack, Strand,
                RemoveQuarantine, SyncDirectories
  <1>5. CASE Crash(p)
    BY <1>5 DEF Crash
  <1>6. QED
    BY <1>1, <1>2, <1>3, <1>4, <1>5 DEF Step

(* No other run reaches the names of a run with its own identifier, nor    *)
(* any quarantine but its own.                                             *)
LEMMA OutOfReach ==
  ASSUME NEW p \in Processes, NEW q \in Processes, q # p, NEW e \in Entries
  PROVE  /\ \A k \in ClaimKinds : Claim(p, k, e) \notin Reach(q)
         /\ Alone(p) => /\ Probe(p, e) \notin Reach(q) /\ Temporary(p, e) \notin Reach(q)
                        /\ Backup(p, e) \notin Reach(q)
  <1>1. ASSUME NEW k \in ClaimKinds PROVE Claim(p, k, e) \notin Reach(q)
    BY DEF Reach, Target, Temporary, Backup, Probe, Claim, ClaimKinds
  <1>2. ASSUME Pid[q] # Pid[p] PROVE Probe(p, e) \notin Reach(q)
    BY <1>2 DEF Reach, Target, Temporary, Backup, Probe, Claim, ClaimKinds
  <1>3. ASSUME Pid[q] # Pid[p] PROVE Temporary(p, e) \notin Reach(q)
    BY <1>3 DEF Reach, Target, Temporary, Backup, Probe, Claim, ClaimKinds
  <1>4. ASSUME Pid[q] # Pid[p] PROVE Backup(p, e) \notin Reach(q)
    BY <1>4 DEF Reach, Target, Temporary, Backup, Probe, Claim, ClaimKinds
  <1>5. QED
    BY <1>1, <1>2, <1>3, <1>4 DEF Alone

(* A step that changes neither the state of a run nor its names.           *)
LEMMA TidyFrame ==
  ASSUME TypeInv, NEW p \in Processes, TidyAt(p),
         pc'[p] = pc[p], at'[p] = at[p], temp'[p] = temp[p], published'[p] = published[p],
         backed'[p] = backed[p], todo'[p] = todo[p], clean'[p] = clean[p],
         p \in quarantine' <=> p \in quarantine,
         \A e \in Entries, k \in ClaimKinds : link'[Claim(p, k, e)] = link[Claim(p, k, e)],
         Alone(p) => \A e \in Entries :
           /\ link'[Probe(p, e)] = link[Probe(p, e)]
           /\ link'[Temporary(p, e)] = link[Temporary(p, e)]
           /\ link'[Backup(p, e)] = link[Backup(p, e)]
  PROVE  TidyAt(p)'
  <1>1. QuarantineEmpty(p)' <=> QuarantineEmpty(p)
    BY DEF QuarantineEmpty, Free
  <1>2. ASSUME Alone(p), TakenAt(p) PROVE TakenAt(p)'
    <2> SUFFICES ASSUME At(p, "settle"), NEW t \in todo[p], First(p, t), t.kind # "unpublish"
                 PROVE  link'[Source(p, t)] = NoInode
      BY DEF TakenAt, At, First, Free
    <2>1. t.entry \in Entries /\ link[Source(p, t)] = NoInode
      BY <1>2 DEF TakenAt, Free, TypeInv, ReportType, Tasks
    <2>2. Source(p, t) = Backup(p, t.entry) \/ Source(p, t) = Temporary(p, t.entry)
      BY DEF Source
    <2>3. QED
      BY <1>2, <2>1, <2>2
  <1>3. ASSUME Alone(p), NEW e \in Entries, StagingAt(p, e) PROVE StagingAt(p, e)'
    BY <1>3 DEF StagingAt, Free, At
  <1>4. Alone(p)' <=> Alone(p)
    BY DEF Alone
  <1>5. QED
    BY <1>1, <1>2, <1>3, <1>4 DEF TidyAt, At

LEMMA OthersTidy ==
  ASSUME TypeInv, NEW p \in Processes, NEW q \in Processes, q # p, Step(q) \/ Crash(q), TidyAt(p)
  PROVE  TidyAt(p)'
  <1>1. pc'[p] = pc[p]
    BY PhaseStep
  <1>2. /\ at'[p] = at[p] /\ todo'[p] = todo[p]
        /\ published'[p] = published[p] /\ backed'[p] = backed[p]
    BY FrameStep
  <1>3. temp'[p] = temp[p] /\ clean'[p] = clean[p] /\ (p \in quarantine' <=> p \in quarantine)
    BY FrameRest
  <1>4. \A e \in Entries, k \in ClaimKinds : link'[Claim(p, k, e)] = link[Claim(p, k, e)]
    BY OutOfReach, OthersNamesKept, NamesType
  <1>5. Alone(p) => \A e \in Entries :
          /\ link'[Probe(p, e)] = link[Probe(p, e)]
          /\ link'[Temporary(p, e)] = link[Temporary(p, e)]
          /\ link'[Backup(p, e)] = link[Backup(p, e)]
    BY OutOfReach, OthersNamesKept, NamesType
  <1>6. QED
    BY <1>1, <1>2, <1>3, <1>4, <1>5, TidyFrame

LEMMA EditTidy ==
  ASSUME TypeInv, NEW p \in Processes, NEW d \in Entries, Edit(d), TidyAt(p)
  PROVE  TidyAt(p)'
  <1>1. UNCHANGED <<pc, at, temp, published, backed, todo, clean, quarantine>>
    BY DEF Edit, ledger
  <1>2. \A n \in Names : n # Target(d) => link'[n] = link[n]
    BY DEF Edit, Unlink, TypeInv, FileSystemType
  <1>3. ASSUME NEW e \in Entries
        PROVE  /\ \A k \in ClaimKinds : link'[Claim(p, k, e)] = link[Claim(p, k, e)]
               /\ link'[Probe(p, e)] = link[Probe(p, e)]
               /\ link'[Temporary(p, e)] = link[Temporary(p, e)]
               /\ link'[Backup(p, e)] = link[Backup(p, e)]
    BY <1>2, NamesType, NamesApart
  <1>4. QED
    BY <1>1, <1>3, TidyFrame

LEMMA StagingNamesStep ==
  ASSUME TypeInv, StagingNames, [Next]_vars
  PROVE  StagingNames'
  <1> SUFFICES ASSUME NEW n \in Names, n[1] \in StagingKinds, link'[n] # NoInode
               PROVE  \E q \in Processes : n[2] = Pid[q]
    BY DEF StagingNames, Free
  <1>1. CASE link'[n] = link[n]
    BY <1>1 DEF StagingNames, Free
  <1>2. CASE \E p \in Processes : Step(p) \/ Crash(p)
    <2>1. PICK p \in Processes : Step(p) \/ Crash(p)
      BY <1>2
    <2>2. CASE n \notin Reach(p)
      BY <1>1, <2>1, <2>2, OthersNamesKept
    <2>3. CASE n \in Reach(p)
      BY <2>3 DEF Reach, Target, Temporary, Backup, Probe, Claim, StagingKinds, ClaimKinds
    <2>4. QED
      BY <2>2, <2>3
  <1>3. CASE \E e \in Entries : Edit(e)
    <2>1. PICK e \in Entries : Edit(e)
      BY <1>3
    <2>2. n # Target(e)
      BY DEF Target, StagingKinds
    <2>3. link'[n] = link[n]
      BY <2>1, <2>2 DEF Edit, Unlink, TypeInv, FileSystemType
    <2>4. QED
      BY <1>1, <2>3
  <1>4. CASE UNCHANGED vars
    BY <1>1, <1>4 DEF vars, fs
  <1>5. QED
    BY <1>2, <1>3, <1>4 DEF Next

-----------------------------------------------------------------------------
(* What the run does itself.                                               *)

(* No step takes a recorded error back.                                    *)
LEMMA BlameStays ==
  ASSUME TypeInv, NEW p \in Processes, Step(p) \/ Crash(p), clean'[p]
  PROVE  clean[p]
  <1> USE DEF TypeInv, ReportType, Blame
  <1>1. CASE Prepare(p)
    BY <1>1 DEF Prepare, Begin, OpenQuarantine, OpenQuarantineFails, OpenParents,
                OpenParentsFails, Preflight, PreflightFails,
                ProbeOut, ProbeOutFails, ProbeBack, ProbeBackFails
  <1>2. CASE Stage(p)
    BY <1>2 DEF Stage, StageCreate, StageCreateFails, StageWrite, StageWriteFails
  <1>3. CASE Install(p)
    BY <1>3 DEF Install, IdentifyAbsent, Identify, IdentifyFails, Displace, DisplaceFails,
                Publish, PublishFails
  <1>4. CASE Finish(p)
    BY <1>4 DEF Finish, Abort, ClaimFile, ClaimFileFails, Discard, Restore, PutBack, Strand,
                RemoveQuarantine, SyncDirectories
  <1>5. CASE Crash(p)
    BY <1>5 DEF Crash
  <1>6. QED
    BY <1>1, <1>2, <1>3, <1>4, <1>5 DEF Step

(* The work of a run at the staging names of an entry.                     *)
LEMMA WorkAtProbe ==
  ASSUME TypeInv, NEW p \in Processes, Prepare(p) \/ Stage(p) \/ Install(p), clean'[p],
         NEW e \in Entries, ~Free(Probe(p, e)) => At(p, "probing") /\ e = at[p],
         link'[Probe(p, e)] # NoInode
  PROVE  pc'[p] = "probing" /\ e = at'[p]
  <1>0. /\ link \in [Names -> Inodes \cup {NoInode}] /\ DOMAIN pc = Processes
        /\ clean \in [Processes -> BOOLEAN]
        /\ pc[p] \in EntryPhases => at[p] \in Entries
    BY DEF TypeInv, FileSystemType, ControlType, ReportType
  <1>1. ASSUME NEW d \in Entries
        PROVE  /\ Probe(p, e) # Target(d) /\ Probe(p, e) # Temporary(p, d)
               /\ Probe(p, e) # Backup(p, d) /\ (d # e => Probe(p, e) # Probe(p, d))
               /\ Probe(p, e) # Claim(p, "probe-claim", d)
               /\ Probe(p, d) \in Names /\ Target(d) \in Names /\ Temporary(p, d) \in Names
               /\ Backup(p, d) \in Names /\ Claim(p, "probe-claim", d) \in Names
    BY NamesApart, NamesType DEF ClaimKinds, Probe
  <1>2. CASE ProbeOut(p)
    BY <1>0, <1>1, <1>2 DEF ProbeOut, At, EntryPhases, Goto, Free
  <1>3. CASE ProbeBack(p)
    BY <1>0, <1>1, <1>3 DEF ProbeBack, At, EntryPhases, Unlink, Free
  <1>4. CASE ProbeBackFails(p)
    <2>1. at[p] \in Entries /\ pc[p] = "probing"
      BY <1>0, <1>4 DEF ProbeBackFails, At, EntryPhases
    <2>2. \/ link' = Unlink(Probe(p, at[p]))
          \/ link' = Move(Probe(p, at[p]), Claim(p, "probe-claim", at[p]))
      BY <1>0, <1>4 DEF ProbeBackFails, Blame
    <2>3. link'[Probe(p, at[p])] = NoInode /\ (e # at[p] => link'[Probe(p, e)] = link[Probe(p, e)])
      BY <1>0, <1>1, <2>1, <2>2 DEF Unlink, Move
    <2>4. QED
      BY <2>3 DEF Free
  <1>5. CASE ~ProbeOut(p) /\ ~ProbeBack(p) /\ ~ProbeBackFails(p)
    <2>1. pc[p] # "probing"
      BY <1>5 DEF Prepare, Stage, Install, Begin, OpenQuarantine, OpenQuarantineFails, OpenParents,
         OpenParentsFails, Preflight, PreflightFails, ProbeOutFails, StageCreate,
         StageCreateFails, StageWrite, StageWriteFails, IdentifyAbsent, Identify, IdentifyFails,
         Displace, DisplaceFails, Publish, PublishFails, At
    <2>2. \/ link' = link
          \/ /\ at[p] \in Entries
             /\ \/ \E i : link' = [link EXCEPT ![Claim(p, "probe-claim", at[p])] = i]
                \/ \E i : link' = [link EXCEPT ![Temporary(p, at[p])] = i]
                \/ link' = Move(Target(at[p]), Backup(p, at[p]))
                \/ link' = Move(Temporary(p, at[p]), Target(at[p]))
      BY <1>0, <1>5 DEF Prepare, Stage, Install, Begin, OpenQuarantine, OpenQuarantineFails,
         OpenParents, OpenParentsFails, Preflight, PreflightFails, ProbeOutFails, StageCreate,
         StageCreateFails, StageWrite, StageWriteFails, IdentifyAbsent, Identify, IdentifyFails,
         Displace, DisplaceFails, Publish, PublishFails, At, EntryPhases, fs
    <2>3. link'[Probe(p, e)] = link[Probe(p, e)]
      BY <1>0, <1>1, <2>2 DEF Move
    <2>4. QED
      BY <2>1, <2>3 DEF Free, At
  <1>6. QED
    BY <1>2, <1>3, <1>4, <1>5

LEMMA WorkAtTemporary ==
  ASSUME TypeInv, ProgressOK, NEW p \in Processes, Prepare(p) \/ Stage(p) \/ Install(p),
         NEW e \in Entries,
         ~Free(Temporary(p, e)) => temp[p][e] # NoInode /\ e \notin published[p],
         link'[Temporary(p, e)] # NoInode
  PROVE  temp'[p][e] # NoInode /\ e \notin published'[p]
  <1>0. /\ link \in [Names -> Inodes \cup {NoInode}]
        /\ pc[p] \in EntryPhases => at[p] \in Entries
    BY DEF TypeInv, FileSystemType, ControlType
  <1>1. ASSUME NEW d \in Entries
        PROVE  /\ Temporary(p, e) # Target(d) /\ Temporary(p, e) # Backup(p, d)
               /\ Temporary(p, e) # Probe(p, d) /\ (d # e => Temporary(p, e) # Temporary(p, d))
               /\ Temporary(p, e) # Claim(p, "probe-claim", d)
               /\ Probe(p, d) \in Names /\ Target(d) \in Names /\ Temporary(p, d) \in Names
               /\ Backup(p, d) \in Names /\ Claim(p, "probe-claim", d) \in Names
    BY NamesApart, NamesType DEF ClaimKinds, Temporary
  <1>2. CASE StageCreate(p)
    <2>1. PICK i \in Inodes : /\ link' = [link EXCEPT ![Temporary(p, at[p])] = i]
                              /\ temp' = [temp EXCEPT ![p][at[p]] = i]
      BY <1>2 DEF StageCreate, Allocatable
    <2>2. pc[p] = "stage" /\ at[p] \in Entries /\ published' = published
      BY <1>0, <1>2 DEF StageCreate, At, EntryPhases
    <2>3. published[p] = {}
      BY <2>2 DEF ProgressOK, Unreported, EntryPhases
    <2>4. CASE e = at[p]
      <3>1. temp'[p][e] = i
        BY <2>1, <2>4 DEF TypeInv, LedgerType
      <3>2. QED
        BY <2>2, <2>3, <3>1, NameAssumption
    <2>5. CASE e # at[p]
      <3>1. link'[Temporary(p, e)] = link[Temporary(p, e)]
        BY <1>0, <1>1, <2>1, <2>2, <2>5
      <3>2. temp'[p][e] = temp[p][e]
        BY <2>1, <2>5 DEF TypeInv, LedgerType
      <3>3. QED
        BY <2>2, <3>1, <3>2 DEF Free
    <2>6. QED
      BY <2>4, <2>5
  <1>3. CASE Publish(p)
    <2>1. /\ at[p] \in Entries /\ link' = Move(Temporary(p, at[p]), Target(at[p]))
          /\ temp' = temp /\ published' = [published EXCEPT ![p] = @ \cup {at[p]}]
      BY <1>0, <1>3 DEF Publish, At, EntryPhases
    <2>2. link'[Temporary(p, at[p])] = NoInode
      BY <1>0, <1>1, <2>1 DEF Move
    <2>3. e # at[p] => link'[Temporary(p, e)] = link[Temporary(p, e)]
      BY <1>0, <1>1, <2>1 DEF Move
    <2>4. published'[p] = published[p] \cup {at[p]}
      BY <2>1 DEF TypeInv, LedgerType
    <2>5. QED
      BY <2>1, <2>2, <2>3, <2>4 DEF Free
  <1>4. CASE ~StageCreate(p) /\ ~Publish(p)
    <2>1. temp' = temp /\ published' = published
      BY <1>4 DEF Prepare, Stage, Install, Begin, OpenQuarantine, OpenQuarantineFails, OpenParents,
         OpenParentsFails, Preflight, PreflightFails, ProbeOut, ProbeOutFails, ProbeBack,
         ProbeBackFails, StageCreateFails, StageWrite, StageWriteFails, IdentifyAbsent, Identify,
         IdentifyFails, Displace, DisplaceFails, PublishFails, ledger
    <2>2. \/ link' = link
          \/ /\ at[p] \in Entries
             /\ \/ \E i : link' = [link EXCEPT ![Claim(p, "probe-claim", at[p])] = i]
                \/ \E i : link' = [link EXCEPT ![Probe(p, at[p])] = i]
                \/ link' = Unlink(Probe(p, at[p]))
                \/ link' = Move(Probe(p, at[p]), Claim(p, "probe-claim", at[p]))
                \/ link' = Move(Target(at[p]), Backup(p, at[p]))
      BY <1>0, <1>4 DEF Prepare, Stage, Install, Begin, OpenQuarantine, OpenQuarantineFails,
         OpenParents, OpenParentsFails, Preflight, PreflightFails, ProbeOut, ProbeOutFails,
         ProbeBack, ProbeBackFails, StageCreateFails, StageWrite, StageWriteFails,
         IdentifyAbsent, Identify, IdentifyFails, Displace, DisplaceFails, PublishFails, At,
         EntryPhases, fs
    <2>3. link'[Temporary(p, e)] = link[Temporary(p, e)]
      BY <1>0, <1>1, <2>2 DEF Move, Unlink
    <2>4. QED
      BY <2>1, <2>3 DEF Free
  <1>5. QED
    BY <1>2, <1>3, <1>4

LEMMA WorkAtBackup ==
  ASSUME TypeInv, NEW p \in Processes, Prepare(p) \/ Stage(p) \/ Install(p), NEW e \in Entries,
         ~Free(Backup(p, e)) => e \in backed[p], link'[Backup(p, e)] # NoInode
  PROVE  e \in backed'[p]
  <1>0. /\ link \in [Names -> Inodes \cup {NoInode}]
        /\ pc[p] \in EntryPhases => at[p] \in Entries
    BY DEF TypeInv, FileSystemType, ControlType
  <1>1. ASSUME NEW d \in Entries
        PROVE  /\ Backup(p, e) # Target(d) /\ Backup(p, e) # Temporary(p, d)
               /\ Backup(p, e) # Probe(p, d) /\ (d # e => Backup(p, e) # Backup(p, d))
               /\ Backup(p, e) # Claim(p, "probe-claim", d)
               /\ Probe(p, d) \in Names /\ Target(d) \in Names /\ Temporary(p, d) \in Names
               /\ Backup(p, d) \in Names /\ Claim(p, "probe-claim", d) \in Names
    BY NamesApart, NamesType DEF ClaimKinds, Backup
  <1>2. CASE Displace(p)
    <2>1. /\ at[p] \in Entries /\ link' = Move(Target(at[p]), Backup(p, at[p]))
          /\ backed' = [backed EXCEPT ![p] = @ \cup {at[p]}]
      BY <1>0, <1>2 DEF Displace, At, EntryPhases
    <2>2. e # at[p] => link'[Backup(p, e)] = link[Backup(p, e)]
      BY <1>0, <1>1, <2>1 DEF Move
    <2>3. backed'[p] = backed[p] \cup {at[p]}
      BY <2>1 DEF TypeInv, LedgerType
    <2>4. QED
      BY <2>2, <2>3 DEF Free
  <1>3. CASE ~Displace(p)
    <2>1. backed' = backed
      BY <1>3 DEF Prepare, Stage, Install, Begin, OpenQuarantine, OpenQuarantineFails, OpenParents,
         OpenParentsFails, Preflight, PreflightFails, ProbeOut, ProbeOutFails, ProbeBack,
         ProbeBackFails, StageCreate, StageCreateFails, StageWrite, StageWriteFails,
         IdentifyAbsent, Identify, IdentifyFails, DisplaceFails, Publish, PublishFails, ledger
    <2>2. \/ link' = link
          \/ /\ at[p] \in Entries
             /\ \/ \E i : link' = [link EXCEPT ![Claim(p, "probe-claim", at[p])] = i]
                \/ \E i : link' = [link EXCEPT ![Probe(p, at[p])] = i]
                \/ \E i : link' = [link EXCEPT ![Temporary(p, at[p])] = i]
                \/ link' = Unlink(Probe(p, at[p]))
                \/ link' = Move(Probe(p, at[p]), Claim(p, "probe-claim", at[p]))
                \/ link' = Move(Temporary(p, at[p]), Target(at[p]))
      BY <1>0, <1>3 DEF Prepare, Stage, Install, Begin, OpenQuarantine, OpenQuarantineFails,
         OpenParents, OpenParentsFails, Preflight, PreflightFails, ProbeOut, ProbeOutFails,
         ProbeBack, ProbeBackFails, StageCreate, StageCreateFails, StageWrite, StageWriteFails,
         IdentifyAbsent, Identify, IdentifyFails, DisplaceFails, Publish, PublishFails, At,
         EntryPhases, fs
    <2>3. link'[Backup(p, e)] = link[Backup(p, e)]
      BY <1>0, <1>1, <2>2 DEF Move, Unlink
    <2>4. QED
      BY <2>1, <2>3 DEF Free
  <1>4. QED
    BY <1>2, <1>3

-----------------------------------------------------------------------------
(* Rollback and cleanup, when others may interfere.                        *)

(* The ways a step of rollback or cleanup can end without an error.        *)
Quietly(p, t) ==
  \/ /\ At(p, "cleanup") /\ pc'[p] = "settle"
     /\ link' = Move(Source(p, t), ClaimOf(p, t)) /\ todo'[p] = todo[p]
  \/ /\ At(p, "cleanup") /\ pc'[p] = "cleanup" /\ link' = link
     /\ Free(Source(p, t)) /\ todo'[p] = todo[p] \ {t}
  \/ /\ At(p, "settle") /\ pc'[p] = "cleanup" /\ todo'[p] = todo[p] \ {t}
     /\ link' = Unlink(ClaimOf(p, t)) \/ link' = Move(ClaimOf(p, t), Target(t.entry))

LEMMA SettlesQuietly ==
  ASSUME TypeInv, NEW p \in Processes, Settles(p)
  PROVE  \E t \in Tasks :
           /\ First(p, t) /\ (~clean'[p] \/ Quietly(p, t))
           /\ pc[p] \in {"cleanup", "settle"} /\ pc'[p] \in {"cleanup", "settle"}
           /\ todo'[p] \subseteq todo[p] /\ (pc'[p] = "settle" => Quietly(p, t))
  <1> USE DEF At, Goto, Drop, Blame
  <1>0. /\ todo \in [Processes -> SUBSET Tasks] /\ clean \in [Processes -> BOOLEAN]
        /\ DOMAIN pc = Processes
    BY DEF TypeInv, ReportType, ControlType
  <1>1. CASE ClaimFile(p)
    <2>1. PICK t \in todo[p] :
            /\ First(p, t) /\ link' = Move(Source(p, t), ClaimOf(p, t))
            /\ \/ Drop(p, t) /\ Blame(p) /\ UNCHANGED pc
               \/ Goto(p, "settle") /\ UNCHANGED <<todo, clean>>
      BY <1>1 DEF ClaimFile
    <2>2. t \in Tasks /\ pc[p] = "cleanup"
      BY <1>0, <1>1 DEF ClaimFile
    <2>3. QED
      BY <1>0, <2>1, <2>2 DEF Quietly
  <1>2. CASE ClaimFileFails(p)
    <2>1. PICK t \in todo[p] :
            /\ First(p, t) /\ Drop(p, t) /\ (Free(Source(p, t)) \/ Blame(p))
      BY <1>2 DEF ClaimFileFails
    <2>2. t \in Tasks /\ pc[p] = "cleanup" /\ pc' = pc /\ link' = link
      BY <1>0, <1>2 DEF ClaimFileFails, fs
    <2>3. QED
      BY <1>0, <2>1, <2>2 DEF Quietly
  <1>3. CASE Discard(p)
    <2>1. PICK t \in todo[p] :
            /\ First(p, t) /\ Drop(p, t) /\ link' = Unlink(ClaimOf(p, t))
      BY <1>3 DEF Discard
    <2>2. t \in Tasks /\ pc[p] = "settle" /\ pc'[p] = "cleanup"
      BY <1>0, <1>3 DEF Discard
    <2>3. QED
      BY <1>0, <2>1, <2>2 DEF Quietly
  <1>4. CASE Restore(p)
    <2>1. PICK t \in todo[p] :
            /\ First(p, t) /\ Drop(p, t) /\ link' = Move(ClaimOf(p, t), Target(t.entry))
      BY <1>4 DEF Restore
    <2>2. t \in Tasks /\ pc[p] = "settle" /\ pc'[p] = "cleanup"
      BY <1>0, <1>4 DEF Restore
    <2>3. QED
      BY <1>0, <2>1, <2>2 DEF Quietly
  <1>5. CASE PutBack(p) \/ Strand(p)
    <2>1. PICK t \in todo[p] : First(p, t) /\ Drop(p, t)
      BY <1>5 DEF PutBack, Strand
    <2>2. t \in Tasks /\ pc[p] = "settle" /\ pc'[p] = "cleanup" /\ ~clean'[p]
      BY <1>0, <1>5 DEF PutBack, Strand
    <2>3. QED
      BY <1>0, <2>1, <2>2
  <1>6. QED
    BY <1>1, <1>2, <1>3, <1>4, <1>5 DEF Settles

(* Two tasks at their turn are about the same name.                        *)
LEMMA FirstSource ==
  ASSUME TypeInv, NEW p \in Processes, NEW t, NEW u, First(p, t), First(p, u),
         \A v, w \in todo[p] : v.kind = "retire" => w.kind = "retire"
  PROVE  Source(p, t) = Source(p, u)
  <1>1. t \in todo[p] /\ u \in todo[p] /\ t \in Tasks /\ u \in Tasks
    BY DEF First, TypeInv, ReportType
  <1>2. /\ t.entry \in 1 .. N /\ u.entry \in 1 .. N
        /\ t.kind \in TaskKinds /\ u.kind \in TaskKinds
    BY <1>1 DEF Tasks, Entries
  <1>3. Rank(t) \in Int /\ Rank(u) \in Int /\ Rank(t) = Rank(u)
    <2>1. Rank(t) \in Int /\ Rank(u) \in Int
      BY <1>2, SizeAssumption DEF Rank
    <2>2. Rank(t) <= Rank(u) /\ Rank(u) <= Rank(t)
      BY <1>1 DEF First
    <2>3. QED
      BY <2>1, <2>2
  <1>4. t.kind = "retire" <=> u.kind = "retire"
    BY <1>1
  <1>5. /\ t.entry = u.entry
        /\ t.kind = "unpublish" <=> u.kind = "unpublish"
        /\ t.kind = "restore" <=> u.kind = "restore"
    BY <1>2, <1>3, <1>4, SizeAssumption DEF Rank, TaskKinds
  <1>6. QED
    BY <1>2, <1>4, <1>5 DEF Source, TaskKinds

LEMMA SettlesTidy ==
  ASSUME TypeInv, NEW p \in Processes, TidyAt(p), Settles(p)
  PROVE  TidyAt(p)'
  <1>1. PICK t \in Tasks :
          /\ First(p, t) /\ (~clean'[p] \/ Quietly(p, t))
          /\ pc[p] \in {"cleanup", "settle"} /\ pc'[p] \in {"cleanup", "settle"}
          /\ todo'[p] \subseteq todo[p] /\ (pc'[p] = "settle" => Quietly(p, t))
    BY SettlesQuietly
  <1>2. /\ link \in [Names -> Inodes \cup {NoInode}]
        /\ Source(p, t) \in Names /\ ClaimOf(p, t) \in Names /\ ClaimOf(p, t) # Source(p, t)
        /\ t.entry \in Entries /\ Target(t.entry) \in Names
    BY NamesType, TaskNamesType, TasksApart DEF TypeInv, FileSystemType, Tasks
  <1>3. \A v, w \in todo[p] : v.kind = "retire" => w.kind = "retire"
    BY DEF TidyAt
  <1>4. ASSUME Alone(p) PROVE TakenAt(p)'
    <2> SUFFICES ASSUME pc'[p] = "settle", NEW u \in todo'[p], First(p, u)'
                 PROVE  link'[Source(p, u)] = NoInode
      BY DEF TakenAt, At, Free
    <2>1. pc[p] = "cleanup" /\ link' = Move(Source(p, t), ClaimOf(p, t)) /\ todo'[p] = todo[p]
      BY <1>1 DEF Quietly, At
    <2>2. First(p, u)
      BY <2>1 DEF First
    <2>3. Source(p, t) = Source(p, u)
      BY <1>1, <1>3, <2>2, FirstSource
    <2>4. link'[Source(p, t)] = NoInode
      BY <1>2, <2>1 DEF Move
    <2>5. QED
      BY <2>3, <2>4
  <1>5. ASSUME Alone(p), clean'[p], NEW e \in Entries PROVE StagingAt(p, e)'
    <2>0. Quietly(p, t) /\ Step(p)
      BY <1>1, <1>5 DEF Settles, Step, Finish
    <2>1. clean[p] /\ StagingAt(p, e) /\ TakenAt(p)
      BY <1>1, <1>5, <2>0, BlameStays DEF TidyAt, At
    <2>2. ASSUME NEW n \in {Probe(p, e), Temporary(p, e), Backup(p, e)}, link'[n] # NoInode
          PROVE  ~Free(n) /\ (n = Source(p, t) => t \in todo'[p])
      <3>1. n \in Names /\ n # ClaimOf(p, t) /\ n # Target(t.entry)
        <4>1. n \in Names /\ n # Target(t.entry)
          BY <1>2, NamesType, NamesApart
        <4>2. n # ClaimOf(p, t)
          BY NamesApart DEF ClaimOf, ClaimKinds
        <4>3. QED
          BY <4>1, <4>2
      <3>2. CASE /\ At(p, "cleanup") /\ link' = Move(Source(p, t), ClaimOf(p, t))
                 /\ todo'[p] = todo[p]
        BY <1>1, <1>2, <2>2, <3>1, <3>2 DEF Move, Free, First
      <3>3. CASE link' = link /\ Free(Source(p, t))
        BY <2>2, <3>3 DEF Free
      <3>4. CASE /\ At(p, "settle")
                 /\ link' = Unlink(ClaimOf(p, t)) \/ link' = Move(ClaimOf(p, t), Target(t.entry))
        <4>1. link'[n] = link[n]
          BY <1>2, <3>1, <3>4 DEF Unlink, Move
        <4>2. n # Source(p, t)
          <5>1. t.kind = "unpublish" => n # Source(p, t)
            BY <3>1 DEF Source
          <5>2. t.kind # "unpublish" => Free(Source(p, t))
            BY <1>1, <2>1, <3>4 DEF TakenAt, First
          <5>3. QED
            BY <2>2, <4>1, <5>1, <5>2 DEF Free
        <4>3. QED
          BY <2>2, <4>1, <4>2 DEF Free
      <3>5. QED
        BY <2>0, <3>2, <3>3, <3>4 DEF Quietly
    <2>3. pc[p] \notin Unreported /\ pc'[p] \notin Unreported /\ todo[p] \ {t} \subseteq todo'[p]
      BY <1>1, <2>0 DEF Unreported, EntryPhases, Quietly
    <2>4. link'[Probe(p, e)] # NoInode => FALSE
      BY <1>1, <2>1, <2>2 DEF StagingAt, At
    <2>5. link'[Temporary(p, e)] # NoInode => \E u \in todo'[p] : Source(p, u) = Temporary(p, e)
      BY <2>1, <2>2, <2>3 DEF StagingAt
    <2>6. link'[Backup(p, e)] # NoInode => \E u \in todo'[p] : Source(p, u) = Backup(p, e)
      BY <2>1, <2>2, <2>3 DEF StagingAt
    <2>7. QED
      BY <2>3, <2>4, <2>5, <2>6 DEF StagingAt, Free
  <1>6. Alone(p)' <=> Alone(p)
    BY DEF Alone
  <1>7. QED
    BY <1>1, <1>3, <1>4, <1>5, <1>6 DEF TidyAt

-----------------------------------------------------------------------------
(* The other steps of a run.                                               *)

LEMMA WorkTidy ==
  ASSUME SafeInv, NEW p \in Processes, TidyAt(p), Prepare(p) \/ Stage(p) \/ Install(p),
         pc[p] \in Unreported, pc'[p] \in Unreported
  PROVE  TidyAt(p)'
  <1>0. /\ TypeInv /\ ProgressOK /\ (Step(p) \/ Crash(p)) /\ todo[p] = {}
        /\ pc[p] # "settle" /\ pc'[p] # "settle"
    BY DEF SafeInv, ProgressOK, Step, Unreported, EntryPhases
  <1>1. todo'[p] = {}
    BY <1>0, ProgressStep DEF ProgressOK
  <1>2. pc'[p] \in {"idle", "open"} =>
          /\ backed'[p] = {} /\ (\A e \in Entries : temp'[p][e] = NoInode)
          /\ p \notin quarantine' /\ QuarantineEmpty(p)'
    <2>1. pc'[p] \in {"idle", "open"} => Begin(p) /\ pc[p] = "idle"
      BY <1>0 DEF Prepare, Stage, Install, Begin, OpenQuarantine, OpenQuarantineFails,
         OpenParents, OpenParentsFails, Preflight, PreflightFails, ProbeOut, ProbeOutFails,
         ProbeBack, ProbeBackFails, StageCreate, StageCreateFails, StageWrite, StageWriteFails,
         IdentifyAbsent, Identify, IdentifyFails, Displace, DisplaceFails, Publish,
         PublishFails, At, Goto, Advance, Fail, TypeInv, ControlType
    <2>2. Begin(p) => UNCHANGED <<link, temp, backed, quarantine>>
      BY DEF Begin, fs, ledger
    <2>3. QED
      BY <2>1, <2>2 DEF TidyAt, QuarantineEmpty, Free
  <1>3. ASSUME Alone(p), clean'[p], NEW e \in Entries PROVE StagingAt(p, e)'
    <2>1. clean[p] /\ StagingAt(p, e)
      BY <1>0, <1>3, BlameStays DEF TidyAt, At, Unreported, EntryPhases
    <2>2. link'[Probe(p, e)] # NoInode => pc'[p] = "probing" /\ e = at'[p]
      BY <1>0, <1>3, <2>1, WorkAtProbe DEF StagingAt
    <2>3. link'[Temporary(p, e)] # NoInode => temp'[p][e] # NoInode /\ e \notin published'[p]
      BY <1>0, <2>1, WorkAtTemporary DEF StagingAt
    <2>4. link'[Backup(p, e)] # NoInode => e \in backed'[p]
      BY <1>0, <2>1, WorkAtBackup DEF StagingAt
    <2>5. QED
      BY <2>2, <2>3, <2>4 DEF StagingAt, Free, At
  <1>4. TakenAt(p)'
    BY <1>0 DEF TakenAt, At
  <1>5. Alone(p)' <=> Alone(p)
    BY DEF Alone
  <1>6. QED
    BY <1>0, <1>1, <1>2, <1>3, <1>4, <1>5 DEF TidyAt, Unreported, EntryPhases

(* The last entry is published: what is left are the backups.              *)
LEMMA PublishTidy ==
  ASSUME SafeInv, NEW p \in Processes, TidyAt(p), Publish(p), pc'[p] = "cleanup", at[p] = N
  PROVE  TidyAt(p)'
  <1>0. /\ TypeInv /\ ProgressOK /\ Install(p) /\ (Step(p) \/ Crash(p)) /\ pc[p] = "publish"
        /\ pc[p] \in Unreported
    BY DEF SafeInv, Step, Install, Publish, At, Unreported, EntryPhases
  <1>1. todo'[p] = {Task("retire", b) : b \in backed[p]} /\ backed' = backed
    BY <1>0 DEF Publish, TypeInv, ReportType
  <1>2. ASSUME Alone(p), clean'[p], NEW e \in Entries PROVE StagingAt(p, e)'
    <2>1. clean[p] /\ StagingAt(p, e)
      BY <1>0, <1>2, BlameStays DEF TidyAt, At
    <2>2. link'[Probe(p, e)] # NoInode => FALSE
      BY <1>0, <1>2, <2>1, WorkAtProbe DEF StagingAt
    <2>3. link'[Temporary(p, e)] # NoInode => FALSE
      <3>1. e \in published'[p]
        <4>1. published' = [published EXCEPT ![p] = @ \cup {N}] /\ published[p] = 1 .. (N - 1)
          BY <1>0 DEF Publish, ProgressOK, At
        <4>2. QED
          BY <4>1, SizeAssumption DEF Entries, TypeInv, LedgerType, SafeInv
      <3>2. QED
        BY <1>0, <2>1, <3>1, WorkAtTemporary DEF StagingAt
    <2>4. link'[Backup(p, e)] # NoInode => \E u \in todo'[p] : Source(p, u) = Backup(p, e)
      <3>1. link'[Backup(p, e)] # NoInode => e \in backed[p]
        BY <1>0, <1>1, <2>1, WorkAtBackup DEF StagingAt
      <3>2. Source(p, Task("retire", e)) = Backup(p, e)
        BY DEF Source, Task
      <3>3. QED
        BY <1>1, <3>1, <3>2
    <2>5. QED
      BY <2>2, <2>3, <2>4 DEF StagingAt, Free, Unreported, EntryPhases
  <1>3. \A t, u \in todo'[p] : t.kind = "retire" => u.kind = "retire"
    BY <1>1 DEF Task
  <1>4. TakenAt(p)'
    BY DEF TakenAt, At
  <1>5. Alone(p)' <=> Alone(p)
    BY DEF Alone
  <1>6. QED
    BY <1>2, <1>3, <1>4, <1>5 DEF TidyAt

(* Everything in the ledger of a run that fails becomes a task.            *)
LEMMA AbortTidy ==
  ASSUME SafeInv, NEW p \in Processes, TidyAt(p), Abort(p)
  PROVE  TidyAt(p)'
  <1>0. /\ TypeInv /\ (Step(p) \/ Crash(p)) /\ pc[p] = "abort" /\ pc'[p] = "cleanup"
        /\ link' = link /\ todo'[p] = RollbackTasks(p) /\ pc[p] \in Unreported
    BY DEF SafeInv, TypeInv, ControlType, ReportType, Abort, Step, Finish, At, Goto, fs, Unreported
  <1>1. ASSUME Alone(p), clean'[p], NEW e \in Entries PROVE StagingAt(p, e)'
    <2>1. clean[p] /\ StagingAt(p, e)
      BY <1>0, <1>1, BlameStays DEF TidyAt, At
    <2>2. link'[Probe(p, e)] # NoInode => FALSE
      BY <1>0, <2>1 DEF StagingAt, At, Free
    <2>3. ASSUME link'[Temporary(p, e)] # NoInode
          PROVE  \E u \in todo'[p] : Source(p, u) = Temporary(p, e)
      <3>1. temp[p][e] # NoInode /\ e \notin published[p]
        BY <1>0, <2>1, <2>3 DEF StagingAt, Free
      <3>2. Task("unstage", e) \in RollbackTasks(p) \/ Task("preserve", e) \in RollbackTasks(p)
        BY <3>1 DEF RollbackTasks
      <3>3. /\ Source(p, Task("unstage", e)) = Temporary(p, e)
            /\ Source(p, Task("preserve", e)) = Temporary(p, e)
        BY DEF Source, Task
      <3>4. QED
        BY <1>0, <3>2, <3>3
    <2>4. ASSUME link'[Backup(p, e)] # NoInode
          PROVE  \E u \in todo'[p] : Source(p, u) = Backup(p, e)
      <3>1. e \in backed[p]
        BY <1>0, <2>1, <2>4 DEF StagingAt, Free
      <3>2. Task("restore", e) \in RollbackTasks(p)
        BY <3>1 DEF RollbackTasks
      <3>3. Source(p, Task("restore", e)) = Backup(p, e)
        BY DEF Source, Task
      <3>4. QED
        BY <1>0, <3>2, <3>3
    <2>5. QED
      BY <1>0, <2>2, <2>3, <2>4 DEF StagingAt, Free, Unreported, EntryPhases
  <1>2. \A t \in todo'[p] : t.kind # "retire"
    BY <1>0, RollbackPieces
  <1>3. TakenAt(p)'
    BY <1>0 DEF TakenAt, At
  <1>4. Alone(p)' <=> Alone(p)
    BY DEF Alone
  <1>5. QED
    BY <1>0, <1>1, <1>2, <1>3, <1>4 DEF TidyAt

(* A run that ends without an error has an empty ledger, or nothing left   *)
(* to do.                                                                  *)
LEMMA ReportsTidy ==
  ASSUME SafeInv, NEW p \in Processes, TidyAt(p), Reports(p)
  PROVE  TidyAt(p)'
  <1>0. /\ TypeInv /\ (Step(p) \/ Crash(p)) /\ todo' = todo /\ link' = link
        /\ pc'[p] \in {"sync", "done"} /\ pc[p] \in {"idle", "open", "cleanup", "sync"}
        /\ clean'[p] => clean[p]
    <2>1. TypeInv /\ Step(p)
      BY DEF SafeInv, Reports, Step, Prepare, Finish
    <2>2. QED
      BY <2>1, ReportFrame
  <1>1. todo[p] = {}
    BY <1>0, ReportFrame DEF SafeInv, ProgressOK, Unreported, TidyAt
  <1>2. ASSUME clean'[p] PROVE p \notin quarantine' /\ QuarantineEmpty(p)'
    <2>1. CASE pc[p] \in {"idle", "open", "sync"}
      <3>1. p \notin quarantine /\ QuarantineEmpty(p)
        BY <1>0, <1>2, <2>1 DEF TidyAt
      <3>2. quarantine' = quarantine
        BY <1>0, <1>2, <2>1 DEF Reports, Begin, OpenQuarantineFails, RemoveQuarantine,
           SyncDirectories, At, Goto, Blame, TypeInv, ControlType, ReportType
      <3>3. QED
        BY <1>0, <3>1, <3>2 DEF QuarantineEmpty, Free
    <2>2. CASE pc[p] = "cleanup"
      <3>1. RemoveQuarantine(p)
        BY <2>2 DEF Reports, Begin, OpenQuarantineFails, SyncDirectories, At
      <3>2. QuarantineEmpty(p) /\ quarantine' = quarantine \ {p}
        BY <1>0, <1>2, <3>1 DEF RemoveQuarantine, Blame, TypeInv, ReportType
      <3>3. QED
        BY <1>0, <3>2 DEF QuarantineEmpty, Free
    <2>3. QED
      BY <1>0, <2>1, <2>2
  <1>3. ASSUME Alone(p), clean'[p], NEW e \in Entries PROVE StagingAt(p, e)'
    <2>1. StagingAt(p, e) /\ pc[p] # "probing"
      BY <1>0, <1>3 DEF TidyAt, At
    <2>2. Free(Probe(p, e))
      BY <2>1 DEF StagingAt, At
    <2>3. Free(Temporary(p, e)) /\ Free(Backup(p, e))
      <3>1. CASE pc[p] \in {"idle", "open"}
        BY <2>1, <3>1 DEF StagingAt, TidyAt, Unreported
      <3>2. CASE pc[p] \in {"cleanup", "sync"}
        BY <1>1, <2>1, <3>2 DEF StagingAt, Unreported, EntryPhases
      <3>3. QED
        BY <1>0, <3>1, <3>2
    <2>4. QED
      BY <1>0, <2>2, <2>3 DEF StagingAt, Free
  <1>4. TakenAt(p)'
    BY <1>0 DEF TakenAt, At
  <1>5. Alone(p)' <=> Alone(p)
    BY DEF Alone
  <1>6. QED
    BY <1>0, <1>1, <1>2, <1>3, <1>4, <1>5 DEF TidyAt, At

LEMMA OwnTidy ==
  ASSUME SafeInv, NEW p \in Processes, TidyAt(p), Step(p) \/ Crash(p)
  PROVE  TidyAt(p)'
  <1>1. CASE Crash(p)
    <2>1. pc'[p] = "crashed" /\ todo' = todo
      BY <1>1 DEF Crash, Goto, SafeInv, TypeInv, ControlType
    <2>2. QED
      BY <2>1 DEF TidyAt, TakenAt, At
  <1>2. QED
    BY <1>1, StepKinds, WorkTidy, PublishTidy, AbortTidy, SettlesTidy, ReportsTidy DEF SafeInv

LEMMA ResidueInit == Init => ResidueInv
  <1> SUFFICES ASSUME Init PROVE ResidueInv
    OBVIOUS
  <1>1. StagingNames
    BY InitUntouched DEF StagingNames, StagingKinds
  <1>2. ASSUME NEW p \in Processes PROVE TidyAt(p)
    <2>1. /\ pc[p] = "idle" /\ todo[p] = {} /\ backed[p] = {} /\ p \notin quarantine
          /\ \A e \in Entries : temp[p][e] = NoInode
      BY DEF Init
    <2>2. ASSUME NEW e \in Entries
          PROVE  /\ \A k \in ClaimKinds : Free(Claim(p, k, e))
                 /\ Free(Probe(p, e)) /\ Free(Temporary(p, e)) /\ Free(Backup(p, e))
      <3>1. \A k \in ClaimKinds : Claim(p, k, e) \in Names /\ Claim(p, k, e)[1] # "target"
        BY NamesType DEF Claim, ClaimKinds
      <3>2. /\ Probe(p, e) \in Names /\ Probe(p, e)[1] # "target"
            /\ Temporary(p, e) \in Names /\ Temporary(p, e)[1] # "target"
            /\ Backup(p, e) \in Names /\ Backup(p, e)[1] # "target"
        BY NamesType DEF Probe, Temporary, Backup
      <3>3. QED
        BY <3>1, <3>2, InitUntouched
    <2>3. QED
      BY <2>1, <2>2 DEF TidyAt, TakenAt, StagingAt, QuarantineEmpty, At
  <1>3. QED
    BY <1>1, <1>2 DEF ResidueInv

LEMMA ResidueStep ==
  ASSUME SafeInv, ResidueInv, [Next]_vars
  PROVE  ResidueInv'
  <1>1. TypeInv /\ StagingNames /\ \A p \in Processes : TidyAt(p)
    BY DEF SafeInv, ResidueInv
  <1>2. StagingNames'
    BY <1>1, StagingNamesStep
  <1>3. ASSUME NEW p \in Processes PROVE TidyAt(p)'
    <2>1. ASSUME NEW q \in Processes, Step(q) \/ Crash(q) PROVE TidyAt(p)'
      BY <1>1, <2>1, OwnTidy, OthersTidy
    <2>2. ASSUME NEW e \in Entries, Edit(e) PROVE TidyAt(p)'
      BY <1>1, <2>2, EditTidy
    <2>3. CASE UNCHANGED vars
      BY <1>1, <2>3, TidyFrame DEF vars, fs, ledger
    <2>4. QED
      BY <2>1, <2>2, <2>3 DEF Next
  <1>4. QED
    BY <1>2, <1>3 DEF ResidueInv

LEMMA TidyIsClean == ResidueInv => CleanLeavesNoResidue
  <1> SUFFICES ASSUME ResidueInv, NEW p \in Processes, At(p, "done"), clean[p]
               PROVE  /\ p \notin quarantine /\ QuarantineEmpty(p)
                      /\ \A n \in Names : ~Free(n) /\ n[1] \in StagingKinds =>
                           \E q \in Processes \ {p} : n[2] = Pid[q]
    BY DEF CleanLeavesNoResidue
  <1>1. TidyAt(p) /\ StagingNames
    BY DEF ResidueInv
  <1>2. p \notin quarantine /\ QuarantineEmpty(p) /\ todo[p] = {}
    BY <1>1 DEF TidyAt, At
  <1>3. ASSUME NEW n \in Names, ~Free(n), n[1] \in StagingKinds
        PROVE  \E q \in Processes \ {p} : n[2] = Pid[q]
    <2> SUFFICES ASSUME Alone(p), n[2] = Pid[p] PROVE FALSE
      <3>1. PICK r \in Processes : n[2] = Pid[r]
        BY <1>1, <1>3 DEF StagingNames
      <3>2. QED
        BY <3>1 DEF Alone
    <2>1. PICK e \in Entries : n \in {Probe(p, e), Temporary(p, e), Backup(p, e)}
      <3>1. \E e \in Entries : n = <<n[1], Pid[p], e>>
        BY <1>3 DEF Names, StagingKinds, ClaimKinds
      <3>2. QED
        BY <1>3, <3>1 DEF StagingKinds, Probe, Temporary, Backup
    <2>2. StagingAt(p, e)
      BY <1>1 DEF TidyAt, At
    <2>3. Free(Probe(p, e)) /\ Free(Temporary(p, e)) /\ Free(Backup(p, e))
      BY <1>2, <2>2 DEF StagingAt, At, Unreported, EntryPhases
    <2>4. QED
      BY <1>3, <2>1, <2>3
  <1>4. QED
    BY <1>2, <1>3

(* However many runs there are, whatever fails and whatever another actor  *)
(* does to the targets: a run that reports no cleanup error has left no    *)
(* quarantine, nothing in it, and none of its files under a staging name   *)
(* (CleanLeavesNoResidue).                                                 *)
THEOREM ResidueIsReported == Spec => []CleanLeavesNoResidue
  <1>1. SafeInv /\ ResidueInv /\ [Next]_vars => ResidueInv'
    BY ResidueStep
  <1>2. QED
    BY <1>1, ResidueInit, TidyIsClean, SafeInvariant, PTL DEF Spec

-----------------------------------------------------------------------------
(* Publications that do not mix.                                           *)

(* The run has taken away, to withdraw what it published, a file that is   *)
(* not its own: whatever it does about it, it will report an error.        *)
Misled(p) ==
  At(p, "settle") /\ \E e \in Entries :
    First(p, Task("unpublish", e)) /\ link[Claim(p, "published-claim", e)] # temp[p][e]

(* Nothing has happened that some run will have to report.                 *)
Quiet == \A p \in Processes : clean[p] /\ ~At(p, "crashed") /\ ~Misled(p)

(* What the run has displaced is to be put back if the run fails.          *)
Owes(p, e) ==
  \/ pc[p] \in {"identify", "displace", "publish", "abort"} /\ e \in backed[p]
  \/ pc[p] \in {"cleanup", "settle"} /\ Task("restore", e) \in todo[p]

KeptAt(p, e) ==
  IF At(p, "settle") /\ First(p, Task("restore", e)) THEN Claim(p, "backup-claim", e)
                                                     ELSE Backup(p, e)

(* It has displaced the file that run z published.                         *)
Keeps(p, z, e) == Owes(p, e) /\ StagedAt(KeptAt(p, e), z, e)

(* Runs are ranked by the moment they are done with displacing: whoever    *)
(* displaces what another has published comes after it.                    *)
Ranked(p) == At(p, "publish") \/ outcome[p] = "committed"

Located(rank, z, e) ==
  \/ StagedAt(Target(e), z, e)
  \/ \E y \in Processes : Keeps(y, z, e) /\ (At(y, "publish") => rank[z] < rank[y])

(* What a run has published is where it was put or with a run that owes    *)
(* it, or that is so of what a later run has published that succeeded.     *)
Lasts(rank, x, e) ==
  \E z \in Processes :
    (z = x \/ outcome[z] = "committed") /\ rank[x] <= rank[z] /\ Located(rank, z, e)

Ordered(rank, top) ==
  /\ \A p \in Processes : Ranked(p) => rank[p] < top
  /\ \A p, q \in Processes : Ranked(p) /\ Ranked(q) /\ rank[p] = rank[q] => p = q
  /\ \A x \in Processes : Ranked(x) => \A e \in published[x] : Lasts(rank, x, e)
  /\ (\E c \in Processes : outcome[c] = "committed") =>
       \E m \in Processes : outcome[m] = "committed"
         /\ \A c \in Processes : outcome[c] = "committed" => rank[c] <= rank[m]

OrderInv == Quiet => \E rank \in [Processes -> Nat], top \in Nat : Ordered(rank, top)

(* What is under the temporary name of an entry that was staged is staged. *)
WrittenAt(p) ==
  /\ At(p, "write") =>
       /\ temp[p][at[p]] # NoInode /\ link[Temporary(p, at[p])] = temp[p][at[p]]
       /\ file[temp[p][at[p]]].kind = "partial"
  /\ \A e \in Entries :
       pc[p] \in {"identify", "displace", "publish"} \/ (pc[p] \in {"stage", "write"} /\ e < at[p])
         => Free(Temporary(p, e)) \/ StagedAt(Temporary(p, e), p, e)

(* A run that has succeeded has published all entries.                     *)
CommittedAt(p) ==
  outcome[p] = "committed" =>
    published[p] = Entries /\ pc[p] \in {"cleanup", "settle", "sync", "done", "crashed"}

StagingInv == \A p \in Processes : WrittenAt(p) /\ CommittedAt(p)

-----------------------------------------------------------------------------
(* What a step leaves alone.                                               *)

(* The staging names and the quarantine of another live run.               *)
LEMMA OthersPlaces ==
  ASSUME SafeInv, NEW p \in Processes, Step(p) \/ Crash(p),
         NEW y \in Processes, y # p, Live(y), NEW e \in Entries
  PROVE  /\ link'[Temporary(y, e)] = link[Temporary(y, e)]
         /\ link'[Backup(y, e)] = link[Backup(y, e)]
         /\ \A k \in ClaimKinds : link'[Claim(y, k, e)] = link[Claim(y, k, e)]
  <1>0. TypeInv
    BY DEF SafeInv
  <1>1. CASE Begin(p)
    BY <1>1 DEF Begin, fs
  <1>2. CASE Live(p)
    <2>1. Pid[p] # Pid[y]
      BY <1>2 DEF SafeInv, PidsApart
    <2>2. Temporary(y, e) \notin Reach(p)
      BY <2>1 DEF Reach, Target, Temporary, Backup, Probe, Claim, ClaimKinds
    <2>3. Backup(y, e) \notin Reach(p)
      BY <2>1 DEF Reach, Target, Temporary, Backup, Probe, Claim, ClaimKinds
    <2>4. \A k \in ClaimKinds : Claim(y, k, e) \notin Reach(p)
      BY OutOfReach
    <2>5. QED
      BY <1>0, <2>2, <2>3, <2>4, OthersNamesKept, NamesType
  <1>3. QED
    BY <1>0, <1>1, <1>2, PhaseStep

(* A staged file stays one, wherever a step moves it to.                   *)
LEMMA StagedStays ==
  ASSUME SafeInv, NEW p \in Processes, Step(p) \/ Crash(p), NEW z \in Processes,
         z # p \/ ~At(p, "write"), NEW n \in Names, NEW m, NEW e, StagedAt(n, z, e), link'[m] = link[n]
  PROVE  StagedAt(m, z, e)'
  <1>0. TypeInv /\ FileSystemType
    BY DEF SafeInv, TypeInv
  <1>1. link[n] \in Inodes /\ link[n] # NoInode /\ file[link[n]] = File("staged", z, e)
    BY <1>0 DEF StagedAt, Free, FileSystemType
  <1>2. Linked(link[n]) /\ file[link[n]].owner = z
    BY <1>1 DEF Linked, File
  <1>3. file'[link[n]] = file[link[n]]
    <2>1. CASE z # p
      BY <1>1, <1>2, <2>1, OthersFilesKept
    <2>2. CASE z = p
      <3>1. \A j \in Allocatable : j # link[n]
        BY <1>2 DEF Allocatable
      <3>2. QED
        BY <1>0, <1>1, <2>2, <3>1, WriteStep DEF FileSystemType, Allocatable
    <2>3. QED
      BY <2>1, <2>2
  <1>4. QED
    BY <1>1, <1>3 DEF StagedAt, Free

(* A run withdraws and restores one entry at a time.                       *)
LEMMA FirstAlone ==
  ASSUME TypeInv, NEW p \in Processes, NEW e \in Entries, NEW k \in {"unpublish", "restore"},
         First(p, Task(k, e)), NEW u, First(p, u)
  PROVE  u = Task(k, e)
  <1>1. u \in todo[p] /\ u \in Tasks /\ Task(k, e) \in todo[p]
    BY DEF First, TypeInv, ReportType
  <1>2. /\ u.entry \in 1 .. N /\ u.kind \in TaskKinds /\ e \in 1 .. N
        /\ u = Task(u.kind, u.entry)
    BY <1>1 DEF Tasks, Entries, Task
  <1>3. Rank(u) <= Rank(Task(k, e)) /\ Rank(Task(k, e)) <= Rank(u)
    BY <1>1 DEF First
  <1>4. Task(k, e).kind = k /\ Task(k, e).entry = e
    BY DEF Task
  <1>5. u.entry = e /\ u.kind = k
    BY <1>2, <1>3, <1>4, SizeAssumption DEF Rank, TaskKinds
  <1>6. QED
    BY <1>2, <1>5

(* While something is to be restored, a task about another name precedes.  *)
LEMMA FirstRestores ==
  ASSUME TypeInv, NEW p \in Processes, NEW e \in Entries, Task("restore", e) \in todo[p],
         NEW t, First(p, t)
  PROVE  t \in Tasks /\ t.entry \in Entries /\ t.kind \in {"unpublish", "restore"}
  <1>1. t \in todo[p] /\ t \in Tasks
    BY DEF First, TypeInv, ReportType
  <1>2. t.entry \in 1 .. N /\ t.kind \in TaskKinds /\ e \in 1 .. N
    BY <1>1 DEF Tasks, Entries
  <1>3. Rank(t) <= Rank(Task("restore", e))
    BY DEF First
  <1>4. Task("restore", e).kind = "restore" /\ Task("restore", e).entry = e
    BY DEF Task
  <1>5. t.kind \in {"unpublish", "restore"}
    BY <1>2, <1>3, <1>4, SizeAssumption DEF Rank, TaskKinds
  <1>6. QED
    BY <1>1, <1>2, <1>5 DEF Entries

-----------------------------------------------------------------------------
(* Errors.                                                                 *)

(* A run that is misled reports an error, or is killed.                    *)
LEMMA MisledReports ==
  ASSUME SafeInv, NEW p \in Processes, Misled(p), Step(p)
  PROVE  ~clean'[p]
  <1>0. TypeInv /\ clean \in [Processes -> BOOLEAN]
    BY DEF SafeInv, TypeInv, ReportType
  <1>1. PICK e \in Entries : /\ First(p, Task("unpublish", e))
                             /\ link[Claim(p, "published-claim", e)] # temp[p][e]
    BY DEF Misled
  <1>2. pc[p] = "settle"
    BY DEF Misled, At
  <1>3. \A u : First(p, u) => u = Task("unpublish", e)
    BY <1>0, <1>1, FirstAlone
  <1>4. /\ Task("unpublish", e).kind = "unpublish"
        /\ ~Verified(p, Task("unpublish", e))
    BY <1>1 DEF Task, Verified, ClaimOf, Expected
  <1>5. CASE Discard(p) \/ Restore(p)
    BY <1>3, <1>4, <1>5 DEF Discard, Restore
  <1>6. CASE PutBack(p) \/ Strand(p)
    BY <1>0, <1>6 DEF PutBack, Strand, Blame
  <1>7. QED
    BY <1>2, <1>5, <1>6
       DEF Step, Prepare, Stage, Install, Finish, At, Begin, OpenQuarantine, OpenQuarantineFails,
           OpenParents, OpenParentsFails, Preflight, PreflightFails, ProbeOut, ProbeOutFails,
           ProbeBack, ProbeBackFails, StageCreate, StageCreateFails, StageWrite,
           StageWriteFails, IdentifyAbsent, Identify, IdentifyFails, Displace, DisplaceFails,
           Publish, PublishFails, Abort, ClaimFile, ClaimFileFails, RemoveQuarantine,
           SyncDirectories

(* What must be reported has not been undone.                              *)
LEMMA QuietBefore ==
  ASSUME SafeInv, NEW p \in Processes, Step(p) \/ Crash(p), Quiet'
  PROVE  Quiet
  <1> SUFFICES ASSUME NEW q \in Processes
               PROVE  clean[q] /\ ~At(q, "crashed") /\ ~Misled(q)
    BY DEF Quiet
  <1>0. TypeInv
    BY DEF SafeInv
  <1>1. clean'[q] /\ pc'[q] # "crashed" /\ ~Misled(q)'
    BY DEF Quiet, At
  <1>2. CASE q = p
    <2>1. clean[p]
      BY <1>0, <1>1, <1>2, BlameStays
    <2>2. ~At(p, "crashed")
      BY <1>0, PhaseStep DEF Live, Begin, At
    <2>3. ~Crash(p)
      BY <1>0, <1>1, <1>2 DEF Crash, Goto, TypeInv, ControlType
    <2>4. ~Misled(p)
      BY <1>1, <1>2, <2>3, MisledReports
    <2>5. QED
      BY <1>2, <2>1, <2>2, <2>4
  <1>3. CASE q # p
    <2>1. pc'[q] = pc[q] /\ clean'[q] = clean[q] /\ temp'[q] = temp[q] /\ todo'[q] = todo[q]
      BY <1>0, <1>3, PhaseStep, FrameStep, FrameRest
    <2>2. ASSUME Misled(q) PROVE FALSE
      <3>1. PICK e \in Entries : /\ First(q, Task("unpublish", e))
                                 /\ link[Claim(q, "published-claim", e)] # temp[q][e]
        BY <2>2 DEF Misled
      <3>2. pc[q] = "settle" /\ Live(q)
        BY <2>2 DEF Misled, At, Live
      <3>3. link'[Claim(q, "published-claim", e)] = link[Claim(q, "published-claim", e)]
        BY <1>3, <3>2, OthersPlaces DEF ClaimKinds
      <3>4. First(q, Task("unpublish", e))'
        BY <2>1, <3>1 DEF First
      <3>5. Misled(q)'
        BY <2>1, <3>1, <3>2, <3>3, <3>4 DEF Misled, At
      <3>6. QED
        BY <1>1, <3>5
    <2>3. QED
      BY <1>1, <2>1, <2>2 DEF At
  <1>4. QED
    BY <1>2, <1>3

-----------------------------------------------------------------------------
(* What is staged, and what success means.                                 *)

LEMMA WrittenOthers ==
  ASSUME SafeInv, NEW p \in Processes, Step(p) \/ Crash(p), NEW q \in Processes, q # p,
         WrittenAt(q)
  PROVE  WrittenAt(q)'
  <1>0. TypeInv
    BY DEF SafeInv
  <1>1. pc'[q] = pc[q] /\ at'[q] = at[q] /\ temp'[q] = temp[q]
    BY <1>0, PhaseStep, FrameStep, FrameRest
  <1>2. ASSUME At(q, "write")
        PROVE  /\ temp[q][at[q]] # NoInode /\ link'[Temporary(q, at[q])] = temp[q][at[q]]
               /\ file'[temp[q][at[q]]].kind = "partial"
    <2>1. at[q] \in Entries /\ Live(q)
      BY <1>0, <1>2 DEF TypeInv, ControlType, EntryPhases, At, Live
    <2>2. /\ temp[q][at[q]] # NoInode /\ link[Temporary(q, at[q])] = temp[q][at[q]]
          /\ file[temp[q][at[q]]].kind = "partial"
      BY <1>2 DEF WrittenAt
    <2>3. link'[Temporary(q, at[q])] = link[Temporary(q, at[q])]
      BY <2>1, OthersPlaces
    <2>4. temp[q][at[q]] \in Inodes /\ Temporary(q, at[q]) \in Names
      BY <1>0, <2>1, <2>2, NamesType DEF TypeInv, LedgerType
    <2>5. Linked(temp[q][at[q]]) /\ file[temp[q][at[q]]].owner = q
      BY <2>1, <2>2, <2>4 DEF Linked, SafeInv, StagedIsOwn
    <2>6. file'[temp[q][at[q]]] = file[temp[q][at[q]]]
      BY <2>4, <2>5, OthersFilesKept
    <2>7. QED
      BY <2>2, <2>3, <2>6
  <1>3. ASSUME NEW e \in Entries,
               pc[q] \in {"identify", "displace", "publish"}
                 \/ (pc[q] \in {"stage", "write"} /\ e < at[q])
        PROVE  link'[Temporary(q, e)] = NoInode \/ StagedAt(Temporary(q, e), q, e)'
    <2>1. Live(q) /\ Temporary(q, e) \in Names
      BY <1>3, NamesType DEF Live
    <2>2. link'[Temporary(q, e)] = link[Temporary(q, e)]
      BY <2>1, OthersPlaces
    <2>3. Free(Temporary(q, e)) \/ StagedAt(Temporary(q, e), q, e)
      BY <1>3 DEF WrittenAt
    <2>4. QED
      BY <2>1, <2>2, <2>3, StagedStays DEF Free
  <1>4. QED
    BY <1>1, <1>2, <1>3 DEF WrittenAt, At, Free

LEMMA WrittenOwn ==
  ASSUME SafeInv, NEW p \in Processes, Step(p) \/ Crash(p), WrittenAt(p)
  PROVE  WrittenAt(p)'
  <1> USE DEF EntryPhases, At, Goto
  <1>0. /\ TypeInv /\ link \in [Names -> Inodes \cup {NoInode}] /\ file \in [Inodes -> Files]
        /\ DOMAIN pc = Processes /\ at \in [Processes -> 0 .. N]
        /\ pc[p] \in EntryPhases => at[p] \in Entries
        /\ temp \in [Processes -> [Entries -> Inodes \cup {NoInode}]]
    BY DEF SafeInv, TypeInv, ControlType, FileSystemType, LedgerType
  <1>1. ASSUME NEW e \in Entries, Free(Temporary(p, e)) \/ StagedAt(Temporary(p, e), p, e),
               link'[Temporary(p, e)] = link[Temporary(p, e)], pc[p] # "write"
        PROVE  link'[Temporary(p, e)] = NoInode \/ StagedAt(Temporary(p, e), p, e)'
    BY <1>1, NamesType, StagedStays DEF Free
  <1>2. CASE StageCreate(p)
    <2>1. PICK d \in Entries : d = at[p]
      BY <1>0, <1>2 DEF StageCreate
    <2>2. PICK i \in Allocatable :
            /\ link' = [link EXCEPT ![Temporary(p, d)] = i]
            /\ file' = [file EXCEPT ![i] = File("partial", p, d)]
            /\ temp' = [temp EXCEPT ![p][d] = i]
      BY <1>2, <2>1 DEF StageCreate
    <2>3. /\ pc[p] = "stage" /\ pc'[p] = "write" /\ at'[p] = d
          /\ i \in Inodes /\ i # NoInode
      BY <1>0, <1>2, <2>1, NameAssumption DEF StageCreate, Allocatable
    <2>4. temp'[p][d] = i /\ link'[Temporary(p, d)] = i /\ file'[i].kind = "partial"
      BY <1>0, <2>2, <2>3, NamesType DEF File
    <2>5. ASSUME NEW e \in Entries, e < d
          PROVE  link'[Temporary(p, e)] = NoInode \/ StagedAt(Temporary(p, e), p, e)'
      <3>1. Temporary(p, e) # Temporary(p, d)
        BY <2>5, NamesApart DEF Entries
      <3>2. link'[Temporary(p, e)] = link[Temporary(p, e)]
        BY <1>0, <2>2, <3>1, NamesType
      <3>3. Free(Temporary(p, e)) \/ StagedAt(Temporary(p, e), p, e)
        BY <2>1, <2>3, <2>5 DEF WrittenAt
      <3>4. QED
        BY <1>1, <2>3, <3>2, <3>3
    <2>6. QED
      BY <2>3, <2>4, <2>5 DEF WrittenAt, Free
  <1>3. CASE StageWrite(p)
    <2>1. PICK d \in Entries : d = at[p]
      BY <1>0, <1>3 DEF StageWrite
    <2>2. /\ pc[p] = "write" /\ link' = link
          /\ file' = [file EXCEPT ![temp[p][d]] = File("staged", p, d)]
      BY <1>0, <1>3, <2>1 DEF StageWrite
    <2>3. /\ temp[p][d] \in Inodes /\ temp[p][d] # NoInode /\ link[Temporary(p, d)] = temp[p][d]
          /\ file[temp[p][d]].kind = "partial"
      BY <1>0, <2>1, <2>2 DEF WrittenAt
    <2>4. /\ pc'[p] \in {"stage", "identify"}
          /\ pc'[p] = "stage" => at'[p] = d + 1
          /\ pc'[p] = "identify" => d = N
      BY <1>0, <1>3, <2>1 DEF StageWrite, Advance
    <2>5. ASSUME NEW e \in Entries, e < d
          PROVE  link'[Temporary(p, e)] = NoInode \/ StagedAt(Temporary(p, e), p, e)'
      <3>1. Free(Temporary(p, e)) \/ StagedAt(Temporary(p, e), p, e)
        BY <2>1, <2>2, <2>5 DEF WrittenAt
      <3>2. StagedAt(Temporary(p, e), p, e) => link[Temporary(p, e)] # temp[p][d]
        BY <2>3 DEF StagedAt, File
      <3>3. QED
        BY <1>0, <2>2, <3>1, <3>2, NamesType DEF StagedAt, Free
    <2>6. StagedAt(Temporary(p, d), p, d)'
      BY <1>0, <2>2, <2>3 DEF StagedAt, Free
    <2>7. ASSUME NEW e \in Entries, pc'[p] = "identify" \/ e < at'[p]
          PROVE  e < d \/ e = d
      BY <2>4, <2>7, SizeAssumption DEF Entries
    <2>8. QED
      BY <2>4, <2>5, <2>6, <2>7 DEF WrittenAt, Free
  <1>4. CASE IdentifyAbsent(p) \/ Identify(p) \/ Displace(p) \/ Publish(p)
    <2>1. PICK d \in Entries : d = at[p]
      BY <1>0, <1>4 DEF IdentifyAbsent, Identify, Displace, Publish
    <2>2. pc[p] \in {"identify", "displace", "publish"}
      BY <1>4 DEF IdentifyAbsent, Identify, Displace, Publish
    <2>3. \/ link' = link
          \/ link' = Move(Target(d), Backup(p, d))
          \/ link' = Move(Temporary(p, d), Target(d))
      BY <1>4, <2>1 DEF IdentifyAbsent, Identify, Displace, Publish, fs
    <2>4. pc'[p] # "stage" /\ pc'[p] # "write"
      BY <1>0, <1>4 DEF IdentifyAbsent, Identify, Displace, Publish, Advance, Fail
    <2>5. ASSUME NEW e \in Entries
          PROVE  link'[Temporary(p, e)] = NoInode \/ StagedAt(Temporary(p, e), p, e)'
      <3>1. /\ Temporary(p, e) # Target(d) /\ Temporary(p, e) # Backup(p, d)
            /\ Temporary(p, e) \in Names /\ Temporary(p, d) \in Names
        BY NamesApart, NamesType
      <3>2. \/ link'[Temporary(p, e)] = link[Temporary(p, e)]
            \/ link'[Temporary(p, e)] = NoInode
        BY <1>0, <2>3, <3>1 DEF Move
      <3>3. Free(Temporary(p, e)) \/ StagedAt(Temporary(p, e), p, e)
        BY <2>2 DEF WrittenAt
      <3>4. QED
        BY <1>1, <2>2, <3>2, <3>3
    <2>6. QED
      BY <2>4, <2>5 DEF WrittenAt, Free
  <1>5. CASE ProbeBack(p)
    <2>1. pc'[p] \in {"probe", "stage"} /\ (pc'[p] = "stage" => at'[p] = 1)
      BY <1>0, <1>5 DEF ProbeBack, Advance
    <2>2. \A e \in Entries : ~(e < 1)
      BY SizeAssumption DEF Entries
    <2>3. QED
      BY <2>1, <2>2 DEF WrittenAt
  <1>6. CASE pc'[p] \notin {"stage", "write", "identify", "displace", "publish"}
    BY <1>6 DEF WrittenAt
  <1>7. QED
    BY <1>0, <1>2, <1>3, <1>4, <1>5, <1>6
       DEF Step, Prepare, Stage, Install, Finish, Begin, OpenQuarantine, OpenQuarantineFails,
           OpenParents, OpenParentsFails, Preflight, PreflightFails, ProbeOut, ProbeOutFails,
           ProbeBackFails, StageCreateFails, StageWriteFails, IdentifyFails, DisplaceFails,
           PublishFails, Abort, ClaimFile, ClaimFileFails, Discard, Restore, PutBack, Strand,
           RemoveQuarantine, SyncDirectories, Crash, Advance, Fail

(* What a step that is no publication changes of who has succeeded.        *)
LEMMA Unpublished ==
  ASSUME SafeInv, NEW p \in Processes, Step(p) \/ Crash(p), ~Publish(p)
  PROVE  /\ published'[p] = published[p]
         /\ outcome'[p] = outcome[p] \/ (outcome[p] = "none" /\ outcome'[p] = "failed")
         /\ pc'[p] = "publish" /\ pc[p] # "publish" => published[p] = {} /\ outcome[p] = "none"
         /\ pc[p] \in {"cleanup", "settle", "sync", "done", "crashed"} =>
              pc'[p] \in {"cleanup", "settle", "sync", "done", "crashed"}
  <1> USE DEF At, Goto, Advance, Fail, ledger
  <1>0. /\ DOMAIN pc = Processes /\ DOMAIN outcome = Processes
        /\ pc[p] \in Unreported => outcome[p] = "none"
        /\ pc[p] \in Unreported \ {"publish", "abort"} => published[p] = {}
    BY DEF SafeInv, TypeInv, ControlType, ReportType, ProgressOK
  <1>1. CASE Prepare(p)
    BY <1>0, <1>1
       DEF Prepare, Begin, OpenQuarantine, OpenQuarantineFails, OpenParents,
           OpenParentsFails, Preflight, PreflightFails,
           ProbeOut, ProbeOutFails, ProbeBack, ProbeBackFails, Unreported, EntryPhases
  <1>2. CASE Stage(p)
    BY <1>0, <1>2
       DEF Stage, StageCreate, StageCreateFails, StageWrite, StageWriteFails
  <1>3. CASE Install(p)
    BY <1>0, <1>3
       DEF Install, IdentifyAbsent, Identify, IdentifyFails, Displace, DisplaceFails,
           PublishFails, Unreported, EntryPhases
  <1>4. CASE Finish(p)
    BY <1>0, <1>4
       DEF Finish, Abort, ClaimFile, ClaimFileFails, Discard, Restore, PutBack, Strand,
           RemoveQuarantine, SyncDirectories, Unreported, EntryPhases
  <1>5. CASE Crash(p)
    BY <1>0, <1>5 DEF Crash
  <1>6. QED
    BY <1>1, <1>2, <1>3, <1>4, <1>5 DEF Step

(* The last publication completes the bundle.                              *)
LEMMA PublishesAll ==
  ASSUME SafeInv, NEW p \in Processes, Publish(p)
  PROVE  /\ at[p] \in Entries /\ published'[p] = published[p] \cup {at[p]} /\ outcome[p] = "none"
         /\ at[p] = N => published'[p] = Entries /\ outcome'[p] = "committed" /\ pc'[p] = "cleanup"
         /\ at[p] # N => outcome' = outcome /\ pc'[p] = "publish"
  <1>0. /\ at[p] \in Entries /\ published[p] = 1 .. (at[p] - 1) /\ outcome[p] = "none"
        /\ DOMAIN pc = Processes /\ DOMAIN outcome = Processes /\ DOMAIN published = Processes
    BY DEF Publish, SafeInv, TypeInv, ControlType, ReportType, LedgerType, ProgressOK, At,
           Unreported, EntryPhases
  <1>1. published'[p] = published[p] \cup {at[p]}
    BY <1>0 DEF Publish
  <1>2. at[p] = N => published'[p] = Entries
    BY <1>0, <1>1, SizeAssumption DEF Entries
  <1>3. QED
    BY <1>0, <1>1, <1>2 DEF Publish, Goto, Advance

LEMMA StagingStep ==
  ASSUME SafeInv, StagingInv, NEW p \in Processes, Step(p) \/ Crash(p)
  PROVE  StagingInv'
  <1>0. TypeInv
    BY DEF SafeInv
  <1> SUFFICES ASSUME NEW q \in Processes PROVE WrittenAt(q)' /\ CommittedAt(q)'
    BY DEF StagingInv
  <1>1. WrittenAt(q) /\ CommittedAt(q)
    BY DEF StagingInv
  <1>2. WrittenAt(q)'
    BY <1>1, WrittenOwn, WrittenOthers
  <1>3. CommittedAt(q)'
    <2>1. CASE q # p
      BY <1>0, <1>1, <2>1, PhaseStep, FrameStep DEF CommittedAt
    <2>2. CASE q = p /\ Publish(p)
      BY <2>2, PublishesAll DEF CommittedAt
    <2>3. CASE q = p /\ ~Publish(p)
      BY <1>1, <2>3, Unpublished DEF CommittedAt
    <2>4. QED
      BY <2>1, <2>2, <2>3
  <1>4. QED
    BY <1>2, <1>3

-----------------------------------------------------------------------------
(* What is displaced stays with the run that owes it, or goes back.        *)

LEMMA KeptType ==
  ASSUME NEW p \in Processes, NEW e \in Entries
  PROVE  KeptAt(p, e) \in Names /\ Target(e) \in Names
  BY NamesType DEF KeptAt, ClaimKinds

(* What is under the backup name, when the run is not about to return it.  *)
LEMMA KeptInPlace ==
  ASSUME NEW p \in Processes, NEW z \in Processes, NEW e \in Entries, Owes(p, e)',
         StagedAt(Backup(p, e), z, e)', pc'[p] = "settle" => ~First(p, Task("restore", e))'
  PROVE  Keeps(p, z, e)'
  BY DEF Keeps, KeptAt, StagedAt, Free, At, Backup

LEMMA KeepsOthers ==
  ASSUME SafeInv, NEW p \in Processes, Step(p), NEW y \in Processes, y # p,
         NEW z \in Processes, z # p \/ ~At(p, "write"), NEW e \in Entries, Keeps(y, z, e)
  PROVE  Keeps(y, z, e)'
  <1>0. TypeInv
    BY DEF SafeInv
  <1>1. pc'[y] = pc[y] /\ todo'[y] = todo[y] /\ backed'[y] = backed[y]
    BY <1>0, PhaseStep, FrameStep
  <1>2. Owes(y, e) /\ Live(y)
    BY DEF Keeps, Owes, Live
  <1>3. Owes(y, e)'
    BY <1>1, <1>2 DEF Owes
  <1>4. First(y, Task("restore", e))' <=> First(y, Task("restore", e))
    BY <1>1 DEF First
  <1>5. PICK n \in Names : n = KeptAt(y, e)
    BY KeptType
  <1>6. link'[n] = link[n]
    BY <1>2, <1>5, OthersPlaces DEF KeptAt, ClaimKinds
  <1>7. StagedAt(n, z, e)'
    BY <1>5, <1>6, StagedStays DEF Keeps
  <1>8. KeptAt(y, e)' = n
    BY <1>1, <1>4, <1>5 DEF KeptAt, At, Claim, Backup
  <1>9. QED
    BY <1>3, <1>7, <1>8 DEF Keeps, StagedAt, Free

(* The run itself, while it installs.                                      *)
LEMMA KeepsInstall ==
  ASSUME SafeInv, NEW p \in Processes, Install(p), NEW z \in Processes, NEW e \in Entries,
         Keeps(p, z, e), ~(Publish(p) /\ at[p] = N)
  PROVE  Keeps(p, z, e)'
  <1> USE DEF At, Goto, Advance, Fail, ledger
  <1>0. /\ TypeInv /\ link \in [Names -> Inodes \cup {NoInode}] /\ DOMAIN pc = Processes
        /\ backed \in [Processes -> SUBSET Entries] /\ Step(p)
        /\ pc[p] \in EntryPhases => at[p] \in Entries
    BY DEF SafeInv, TypeInv, ControlType, FileSystemType, LedgerType, Step
  <1>1. pc[p] \in {"identify", "displace", "publish"}
    BY DEF Install, IdentifyAbsent, Identify, IdentifyFails, Displace, DisplaceFails, Publish,
           PublishFails
  <1>2. e \in backed[p] /\ StagedAt(Backup(p, e), z, e)
    BY <1>1 DEF Keeps, Owes, KeptAt
  <1>3. PICK d \in Entries : d = at[p]
    BY <1>0, <1>1 DEF EntryPhases
  <1>4. \/ link' = link
        \/ Free(Backup(p, d)) /\ link' = Move(Target(d), Backup(p, d))
        \/ link' = Move(Temporary(p, d), Target(d))
    BY <1>3 DEF Install, IdentifyAbsent, Identify, IdentifyFails, Displace, DisplaceFails,
                Publish, PublishFails, fs, CanMove
  <1>5. /\ Backup(p, e) # Target(d) /\ Backup(p, e) # Temporary(p, d)
        /\ Backup(p, e) \in Names /\ (d # e => Backup(p, e) # Backup(p, d))
    BY NamesApart, NamesType
  <1>6. link'[Backup(p, e)] = link[Backup(p, e)]
    BY <1>0, <1>2, <1>4, <1>5 DEF Move, StagedAt
  <1>7. StagedAt(Backup(p, e), z, e)'
    BY <1>1, <1>2, <1>5, <1>6, <1>0, StagedStays
  <1>8. /\ pc'[p] \in {"identify", "displace", "publish", "abort"} /\ e \in backed'[p]
    BY <1>0, <1>1, <1>2
       DEF Install, IdentifyAbsent, Identify, IdentifyFails, Displace, DisplaceFails, Publish,
           PublishFails
  <1>9. QED
    BY <1>7, <1>8, KeptInPlace DEF Owes

LEMMA KeepsAbort ==
  ASSUME SafeInv, NEW p \in Processes, Abort(p), NEW z \in Processes, NEW e \in Entries,
         Keeps(p, z, e)
  PROVE  Keeps(p, z, e)'
  <1>0. DOMAIN pc = Processes /\ DOMAIN todo = Processes
    BY DEF SafeInv, TypeInv, ControlType, ReportType
  <1>1. /\ pc[p] = "abort" /\ pc'[p] = "cleanup" /\ todo'[p] = RollbackTasks(p)
        /\ link' = link /\ file' = file
    BY <1>0 DEF Abort, At, Goto, fs
  <1>2. e \in backed[p] /\ StagedAt(Backup(p, e), z, e)
    BY <1>1 DEF Keeps, Owes, KeptAt, At
  <1>3. Task("restore", e) \in todo'[p]
    BY <1>1, <1>2 DEF RollbackTasks
  <1>4. QED
    BY <1>1, <1>2, <1>3, KeptInPlace DEF Owes, StagedAt, Free

(* The run itself, while it rolls back.                                    *)
LEMMA KeepsRollback ==
  ASSUME SafeInv, NEW p \in Processes, Step(p), clean'[p], pc[p] \in {"cleanup", "settle"},
         NEW z \in Processes, NEW e \in Entries, Keeps(p, z, e)
  PROVE  Keeps(p, z, e)' \/ StagedAt(Target(e), z, e)'
  <1> DEFINE r == Task("restore", e)
  <1>0. /\ TypeInv /\ link \in [Names -> Inodes \cup {NoInode}]
        /\ DOMAIN pc = Processes /\ DOMAIN todo = Processes /\ DOMAIN clean = Processes
        /\ todo[p] \in SUBSET Tasks
    BY DEF SafeInv, TypeInv, ControlType, FileSystemType, ReportType
  <1>1. /\ r \in todo[p] /\ r \in Tasks /\ r.kind = "restore" /\ r.entry = e
        /\ ~At(p, "write") /\ StagedAt(KeptAt(p, e), z, e)
    BY <1>0 DEF Keeps, Owes, At, Task
  <1>2. \A t : First(p, t) => t \in Tasks /\ t.entry \in Entries /\ t.kind \in {"unpublish", "restore"}
    BY <1>0, <1>1, FirstRestores
  <1>3. \A t : First(p, t) /\ First(p, r) => t = r
    BY <1>0, FirstAlone
  <1>4. \A t \in Tasks : t.kind = "restore" /\ t.entry = e => t = r
    BY DEF Tasks, Task
  <1>5. /\ Backup(p, e) \in Names /\ Target(e) \in Names /\ Claim(p, "backup-claim", e) \in Names
        /\ Backup(p, e) # Target(e) /\ Backup(p, e) # Claim(p, "backup-claim", e)
    BY NamesType, NamesApart DEF ClaimKinds
  <1>6. \A t \in Tasks : /\ ClaimOf(p, t) # Backup(p, e) /\ Target(t.entry) # Backup(p, e)
                         /\ t # r => Source(p, t) # Backup(p, e) \/ t.kind = "retire"
    BY <1>4, TaskNames, NamesApart
  <1>7. /\ Source(p, r) = Backup(p, e) /\ ClaimOf(p, r) = Claim(p, "backup-claim", e)
    BY <1>1 DEF Source, ClaimOf
  <1>8. CASE ClaimFile(p)
    <2>1. PICK t : /\ First(p, t) /\ link' = Move(Source(p, t), ClaimOf(p, t))
                   /\ t.kind # "preserve" => pc' = [pc EXCEPT ![p] = "settle"] /\ todo' = todo
      BY <1>8 DEF ClaimFile, Goto
    <2>2. pc[p] = "cleanup" /\ pc'[p] = "settle" /\ todo'[p] = todo[p]
      BY <1>0, <1>2, <1>8, <2>1 DEF ClaimFile, At
    <2>3. StagedAt(Backup(p, e), z, e)
      BY <1>1, <2>2 DEF KeptAt, At
    <2>4. Owes(p, e)' /\ (First(p, r)' <=> First(p, r))
      BY <1>1, <2>2 DEF Owes, First
    <2>5. CASE t = r
      <3>1. link'[Claim(p, "backup-claim", e)] = link[Backup(p, e)]
        BY <1>0, <1>5, <1>7, <2>1, <2>5 DEF Move
      <3>2. StagedAt(Claim(p, "backup-claim", e), z, e)'
        BY <1>1, <1>5, <2>3, <3>1, StagedStays
      <3>3. KeptAt(p, e)' = Claim(p, "backup-claim", e)
        BY <2>1, <2>2, <2>4, <2>5 DEF KeptAt, At, Claim
      <3>4. QED
        BY <2>4, <3>2, <3>3 DEF Keeps, StagedAt, Free, Claim
    <2>6. CASE t # r
      <3>1. link'[Backup(p, e)] = link[Backup(p, e)]
        BY <1>0, <1>2, <1>5, <1>6, <2>1, <2>6 DEF Move
      <3>2. StagedAt(Backup(p, e), z, e)'
        BY <1>1, <1>5, <2>3, <3>1, StagedStays
      <3>3. ~First(p, r)'
        BY <1>3, <2>1, <2>4, <2>6
      <3>4. QED
        BY <2>4, <3>2, <3>3, KeptInPlace
    <2>7. QED
      BY <2>5, <2>6
  <1>9. CASE ClaimFileFails(p)
    <2>1. PICK t : /\ First(p, t) /\ Drop(p, t)
                   /\ MissingIsClean(t) \/ Blame(p)
      BY <1>9 DEF ClaimFileFails
    <2>2. t # r
      BY <1>0, <1>1, <2>1 DEF MissingIsClean, Blame
    <2>3. pc[p] = "cleanup" /\ pc'[p] = "cleanup" /\ link' = link /\ r \in todo'[p]
      BY <1>0, <1>1, <1>9, <2>1, <2>2 DEF ClaimFileFails, At, fs, Drop
    <2>4. StagedAt(Backup(p, e), z, e)
      BY <1>1, <2>3 DEF KeptAt, At
    <2>5. StagedAt(Backup(p, e), z, e)'
      BY <1>1, <1>5, <2>3, <2>4, StagedStays
    <2>6. QED
      BY <2>3, <2>5, KeptInPlace DEF Owes
  <1>10. CASE Discard(p)
    <2>1. PICK t : /\ First(p, t) /\ t.kind # "restore"
                   /\ link' = Unlink(ClaimOf(p, t)) /\ Drop(p, t)
      BY <1>10 DEF Discard
    <2>2. t # r /\ ~First(p, r)
      BY <1>1, <1>3, <2>1
    <2>3. pc'[p] = "cleanup" /\ r \in todo'[p]
      BY <1>0, <1>1, <1>10, <2>1, <2>2 DEF Discard, Goto, Drop
    <2>4. StagedAt(Backup(p, e), z, e)
      BY <1>1, <2>2 DEF KeptAt
    <2>5. link'[Backup(p, e)] = link[Backup(p, e)]
      BY <1>0, <1>2, <1>5, <1>6, <2>1 DEF Unlink
    <2>6. StagedAt(Backup(p, e), z, e)'
      BY <1>1, <1>5, <2>4, <2>5, StagedStays
    <2>7. QED
      BY <2>3, <2>6, KeptInPlace DEF Owes
  <1>11. CASE Restore(p)
    <2>1. PICK t : /\ First(p, t) /\ t.kind = "restore"
                   /\ link' = Move(ClaimOf(p, t), Target(t.entry)) /\ Drop(p, t)
      BY <1>11 DEF Restore
    <2>2. CASE t = r
      <3>1. KeptAt(p, e) = Claim(p, "backup-claim", e)
        BY <1>11, <2>1, <2>2 DEF Restore, KeptAt
      <3>2. link' = Move(Claim(p, "backup-claim", e), Target(e))
        BY <1>1, <1>7, <2>1, <2>2
      <3>3. Claim(p, "backup-claim", e) # Target(e)
        BY NamesApart DEF ClaimKinds
      <3>4. link'[Target(e)] = link[Claim(p, "backup-claim", e)]
        BY <1>0, <1>5, <3>2, <3>3 DEF Move
      <3>5. QED
        BY <1>1, <1>5, <3>1, <3>4, StagedStays
    <2>3. CASE t # r
      <3>1. ~First(p, r)
        BY <1>3, <2>1, <2>3
      <3>2. pc'[p] = "cleanup" /\ r \in todo'[p]
        BY <1>0, <1>1, <1>11, <2>1, <2>3 DEF Restore, Goto, Drop
      <3>3. StagedAt(Backup(p, e), z, e)
        BY <1>1, <3>1 DEF KeptAt
      <3>4. link'[Backup(p, e)] = link[Backup(p, e)]
        BY <1>0, <1>2, <1>5, <1>6, <2>1 DEF Move
      <3>5. StagedAt(Backup(p, e), z, e)'
        BY <1>1, <1>5, <3>3, <3>4, StagedStays
      <3>6. QED
        BY <3>2, <3>5, KeptInPlace DEF Owes
    <2>4. QED
      BY <2>2, <2>3
  <1>12. CASE PutBack(p) \/ Strand(p)
    BY <1>0, <1>12 DEF PutBack, Strand, Blame
  <1>13. CASE RemoveQuarantine(p)
    BY <1>1, <1>13 DEF RemoveQuarantine
  <1>14. QED
    BY <1>8, <1>9, <1>10, <1>11, <1>12, <1>13
       DEF Step, Prepare, Stage, Install, Finish, At, Begin, OpenQuarantine, OpenQuarantineFails,
           OpenParents, OpenParentsFails, Preflight, PreflightFails, ProbeOut, ProbeOutFails,
           ProbeBack, ProbeBackFails, StageCreate, StageCreateFails, StageWrite,
           StageWriteFails, IdentifyAbsent, Identify, IdentifyFails, Displace, DisplaceFails,
           Publish, PublishFails, Abort, SyncDirectories

(* What a run has displaced stays with it or returns to the target, until  *)
(* the run succeeds.                                                       *)
LEMMA KeepsOwn ==
  ASSUME SafeInv, NEW p \in Processes, Step(p), clean'[p], NEW z \in Processes,
         NEW e \in Entries, Keeps(p, z, e), ~(Publish(p) /\ at[p] = N)
  PROVE  Keeps(p, z, e)' \/ StagedAt(Target(e), z, e)'
  <1>1. pc[p] \in {"identify", "displace", "publish", "abort", "cleanup", "settle"}
    BY DEF Keeps, Owes
  <1>2. CASE pc[p] \in {"cleanup", "settle"}
    BY <1>2, KeepsRollback
  <1>3. Install(p) \/ Abort(p) \/ pc[p] \in {"cleanup", "settle"}
    BY <1>1 DEF Step, Prepare, Stage, Finish, At, Begin, OpenQuarantine, OpenQuarantineFails,
           OpenParents, OpenParentsFails, Preflight, PreflightFails, ProbeOut, ProbeOutFails,
           ProbeBack, ProbeBackFails, StageCreate, StageCreateFails, StageWrite,
           StageWriteFails, ClaimFile, ClaimFileFails, Discard, Restore, PutBack, Strand,
           RemoveQuarantine, SyncDirectories
  <1>4. QED
    BY <1>2, <1>3, KeepsInstall, KeepsAbort

(* A claim of what the run has published that is another's misleads it.    *)
LEMMA ClaimMisleads ==
  ASSUME SafeInv, NEW p \in Processes, ClaimFile(p), ~Misled(p)', NEW e \in Entries,
         First(p, Task("unpublish", e))
  PROVE  link[Target(e)] = temp[p][e] \/ ~clean'[p]
  <1> DEFINE u == Task("unpublish", e)
  <1>0. /\ TypeInv /\ link \in [Names -> Inodes \cup {NoInode}] /\ DOMAIN pc = Processes
        /\ DOMAIN clean = Processes
        /\ Claim(p, "published-claim", e) \in Names /\ Target(e) \in Names
        /\ Claim(p, "published-claim", e) # Target(e)
    BY NamesType, NamesApart
       DEF SafeInv, TypeInv, ControlType, FileSystemType, ReportType, ClaimKinds
  <1>1. PICK t : /\ First(p, t) /\ link' = Move(Source(p, t), ClaimOf(p, t))
                 /\ t.kind # "preserve" => pc' = [pc EXCEPT ![p] = "settle"] /\ todo' = todo
    BY DEF ClaimFile, Goto
  <1>2. t = u
    BY <1>0, <1>1, FirstAlone
  <1>3. u.kind = "unpublish" /\ u.entry = e
    BY DEF Task
  <1>4. /\ link' = Move(Target(e), Claim(p, "published-claim", e))
        /\ pc'[p] = "settle" /\ todo' = todo /\ temp' = temp
    BY <1>0, <1>1, <1>2, <1>3 DEF Source, ClaimOf, ClaimFile, ledger
  <1>5. link'[Claim(p, "published-claim", e)] = link[Target(e)]
    BY <1>0, <1>4 DEF Move
  <1>6. First(p, u)'
    BY <1>4 DEF First
  <1>7. link'[Claim(p, "published-claim", e)] = temp'[p][e]
    BY <1>4, <1>6 DEF Misled, At
  <1>8. QED
    BY <1>4, <1>5, <1>7

(* What a run has published and nobody undoes stays at the target, or is   *)
(* displaced.                                                              *)
LEMMA TargetStep ==
  ASSUME SafeInv, StagingInv, Quiet', NEW p \in Processes, Step(p), NEW z \in Processes, Ranked(z),
         NEW e \in Entries, StagedAt(Target(e), z, e)
  PROVE  StagedAt(Target(e), z, e)' \/ (Keeps(p, z, e)' /\ At(p, "displace"))
  <1>0. /\ TypeInv /\ link \in [Names -> Inodes \cup {NoInode}] /\ DOMAIN pc = Processes
        /\ backed \in [Processes -> SUBSET Entries] /\ todo[p] \in SUBSET Tasks
        /\ DOMAIN clean = Processes
        /\ pc[p] \in EntryPhases => at[p] \in Entries
    BY DEF SafeInv, TypeInv, ControlType, FileSystemType, LedgerType, ReportType
  <1>1. clean'[p] /\ ~Misled(p)'
    BY DEF Quiet
  <1>2. ~At(z, "write")
    BY DEF Ranked, At, StagingInv, CommittedAt
  <1>3. Target(e) \in Names /\ link[Target(e)] # NoInode
    BY NamesType DEF StagedAt, Free
  <1>4. SUFFICES ASSUME link'[Target(e)] # link[Target(e)]
                 PROVE  Keeps(p, z, e)' /\ At(p, "displace")
    BY <1>2, <1>3, StagedStays
  <1>5. CASE Displace(p)
    <2>1. PICK d \in Entries : d = at[p]
      BY <1>0, <1>5 DEF Displace, At, EntryPhases
    <2>2. /\ link' = Move(Target(d), Backup(p, d)) /\ pc[p] = "displace"
          /\ backed' = [backed EXCEPT ![p] = @ \cup {d}]
      BY <1>5, <2>1 DEF Displace, At
    <2>3. /\ Backup(p, d) \in Names /\ Target(d) # Backup(p, d) /\ Target(e) # Backup(p, d)
          /\ d # e => Target(d) # Target(e)
      BY NamesType, NamesApart
    <2>4. d = e
      BY <1>0, <1>3, <1>4, <2>2, <2>3 DEF Move
    <2>5. link'[Backup(p, e)] = link[Target(e)]
      BY <1>0, <2>2, <2>3, <2>4 DEF Move
    <2>6. StagedAt(Backup(p, e), z, e)'
      BY <1>2, <1>3, <2>5, StagedStays
    <2>7. e \in backed'[p] /\ pc'[p] \in {"identify", "publish", "abort"}
      BY <1>0, <1>5, <2>2, <2>4 DEF Displace, Advance, Fail, Goto
    <2>8. QED
      BY <2>2, <2>6, <2>7, KeptInPlace DEF Owes, At
  <1>6. CASE Publish(p)
    <2>1. PICK d \in Entries : d = at[p]
      BY <1>0, <1>6 DEF Publish, At, EntryPhases
    <2>2. Free(Target(d)) /\ link' = Move(Temporary(p, d), Target(d))
      BY <1>6, <2>1 DEF Publish, CanMove
    <2>3. Target(e) # Temporary(p, d) /\ (d # e => Target(d) # Target(e))
      BY NamesApart
    <2>4. QED
      BY <1>0, <1>3, <1>4, <2>2, <2>3 DEF Move, Free
  <1>7. CASE ClaimFile(p)
    <2>1. PICK t : First(p, t) /\ link' = Move(Source(p, t), ClaimOf(p, t))
      BY <1>7 DEF ClaimFile
    <2>2. t \in Tasks
      BY <1>0, <2>1 DEF First
    <2>3. t = Task("unpublish", e)
      BY <1>0, <1>3, <1>4, <2>1, <2>2, TaskNames DEF Move
    <2>4. link[Target(e)] = temp[p][e] /\ pc[p] = "cleanup"
      BY <1>1, <1>7, <2>1, <2>3, ClaimMisleads DEF ClaimFile, At
    <2>5. z = p
      <3>1. file[link[Target(e)]].owner = z
        BY DEF StagedAt, File
      <3>2. file[temp[p][e]].owner = p
        BY <1>3, <2>4 DEF SafeInv, StagedIsOwn, Live
      <3>3. QED
        BY <2>4, <3>1, <3>2
    <2>6. outcome[p] = "failed"
      BY <2>1, <2>3 DEF SafeInv, TasksOK, First, Task
    <2>7. QED
      BY <2>4, <2>5, <2>6 DEF Ranked, At
  <1>8. CASE Discard(p) \/ Restore(p) \/ PutBack(p)
    <2>1. ~PutBack(p)
      BY <1>0, <1>1 DEF PutBack, Blame
    <2>2. PICK t : /\ First(p, t)
                   /\ \/ link' = Unlink(ClaimOf(p, t))
                      \/ /\ link' = Move(ClaimOf(p, t), Target(t.entry))
                         /\ Free(Target(t.entry))
      BY <1>8, <2>1 DEF Discard, Restore
    <2>3. t \in Tasks
      BY <1>0, <2>2 DEF First
    <2>4. ClaimOf(p, t) # Target(e) /\ (Free(Target(t.entry)) => Target(t.entry) # Target(e))
      BY <1>3, <2>3, TaskNames DEF Free
    <2>5. QED
      BY <1>0, <1>3, <1>4, <2>2, <2>4 DEF Move, Unlink
  <1>9. CASE ProbeOut(p) \/ ProbeOutFails(p) \/ ProbeBack(p) \/ ProbeBackFails(p) \/ StageCreate(p)
    <2>1. PICK d \in Entries : d = at[p]
      BY <1>0, <1>9
         DEF ProbeOut, ProbeOutFails, ProbeBack, ProbeBackFails, StageCreate, At, EntryPhases
    <2>2. /\ Target(e) # Temporary(p, d) /\ Target(e) # Probe(p, d)
          /\ Target(e) # Claim(p, "probe-claim", d)
      BY NamesApart DEF ClaimKinds
    <2>3. QED
      BY <1>0, <1>3, <1>4, <1>9, <2>1, <2>2
         DEF ProbeOut, ProbeOutFails, ProbeBack, ProbeBackFails, StageCreate, Move, Unlink, fs
  <1>10. CASE link' = link
    BY <1>4, <1>10
  <1>11. QED
    BY <1>5, <1>6, <1>7, <1>8, <1>9, <1>10
       DEF Step, Prepare, Stage, Install, Finish, Begin, OpenQuarantine, OpenQuarantineFails,
           OpenParents, OpenParentsFails, Preflight, PreflightFails, StageCreateFails, StageWrite,
           StageWriteFails, IdentifyAbsent, Identify, IdentifyFails, DisplaceFails,
           PublishFails, Abort, ClaimFileFails, Strand, RemoveQuarantine, SyncDirectories, fs

(* What a run publishes is its staged file.                                *)
LEMMA PublishedIsStaged ==
  ASSUME SafeInv, StagingInv, NEW p \in Processes, Publish(p), NEW e \in Entries, e = at[p]
  PROVE  StagedAt(Target(e), p, e)'
  <1>0. link \in [Names -> Inodes \cup {NoInode}] /\ Step(p)
    BY DEF SafeInv, TypeInv, FileSystemType, Step, Install
  <1>1. /\ pc[p] = "publish" /\ ~Free(Temporary(p, e))
        /\ link' = Move(Temporary(p, e), Target(e))
    BY DEF Publish, At, CanMove
  <1>2. /\ Temporary(p, e) # Target(e)
        /\ Temporary(p, e) \in Names /\ Target(e) \in Names
    BY NamesApart, NamesType
  <1>3. link'[Target(e)] = link[Temporary(p, e)]
    BY <1>0, <1>1, <1>2 DEF Move
  <1>4. StagedAt(Temporary(p, e), p, e)
    BY <1>1 DEF StagingInv, WrittenAt
  <1>5. ~At(p, "write")
    BY <1>1 DEF At
  <1>6. QED
    BY <1>0, <1>2, <1>3, <1>4, <1>5, StagedStays

(* A file stays located, under any ranking that leaves the others alone    *)
(* and puts a run that is done with displacing after it, until the run     *)
(* that keeps it succeeds.                                                 *)
LEMMA LocatedStep ==
  ASSUME SafeInv, StagingInv, Quiet', NEW p \in Processes, Step(p), NEW r, NEW s,
         NEW z \in Processes, Ranked(z), NEW e \in Entries, Located(r, z, e),
         s[z] = r[z], \A y \in Processes : y # p => s[y] = r[y],
         pc'[p] = "publish" /\ pc[p] # "publish" => s[z] < s[p],
         pc[p] = "publish" => s[p] = r[p]
  PROVE  \/ Located(s, z, e)'
         \/ Publish(p) /\ at[p] = N /\ r[z] < r[p]
  <1>0. TypeInv
    BY DEF SafeInv
  <1>1. ~At(z, "write")
    BY DEF Ranked, At, StagingInv, CommittedAt
  <1>2. CASE StagedAt(Target(e), z, e)
    <2>1. StagedAt(Target(e), z, e)' \/ (Keeps(p, z, e)' /\ At(p, "displace"))
      BY <1>2, TargetStep
    <2>2. QED
      BY <2>1 DEF Located, At
  <1>3. CASE ~StagedAt(Target(e), z, e)
    <2>1. PICK y \in Processes : Keeps(y, z, e) /\ (At(y, "publish") => r[z] < r[y])
      BY <1>3 DEF Located
    <2>2. CASE y # p
      <3>1. Keeps(y, z, e)'
        BY <1>1, <2>1, <2>2, KeepsOthers
      <3>2. pc'[y] = pc[y]
        BY <1>0, <2>2, PhaseStep
      <3>3. QED
        BY <2>1, <2>2, <3>1, <3>2 DEF Located, At
    <2>3. CASE y = p /\ ~(Publish(p) /\ at[p] = N)
      <3>1. Keeps(p, z, e)' \/ StagedAt(Target(e), z, e)'
        BY <2>1, <2>3, KeepsOwn DEF Quiet
      <3>2. pc'[p] = "publish" => s[z] < s[p]
        BY <2>1, <2>3 DEF At
      <3>3. QED
        BY <3>1, <3>2 DEF Located, At
    <2>4. CASE y = p /\ Publish(p) /\ at[p] = N
      BY <2>1, <2>4 DEF Publish
    <2>5. QED
      BY <2>2, <2>3, <2>4
  <1>4. QED
    BY <1>2, <1>3

-----------------------------------------------------------------------------
(* The order of the runs.                                                  *)

(* A run that is done with displacing comes after all others.              *)
LEMMA OrderEnters ==
  ASSUME SafeInv, StagingInv, Quiet', NEW p \in Processes, Step(p),
         pc'[p] = "publish", pc[p] # "publish",
         NEW rank \in [Processes -> Nat], NEW top \in Nat, Ordered(rank, top)
  PROVE  Ordered([rank EXCEPT ![p] = top], top + 1)'
  <1> DEFINE s == [rank EXCEPT ![p] = top]
  <1>0. TypeInv /\ ~Publish(p)
    BY DEF SafeInv, Publish, At
  <1>1. s \in [Processes -> Nat] /\ s[p] = top /\ \A q \in Processes : q # p => s[q] = rank[q]
    OBVIOUS
  <1>2. /\ published'[p] = {} /\ outcome[p] = "none" /\ outcome'[p] # "committed"
    BY <1>0, Unpublished
  <1>3. \A q \in Processes : q # p =>
          /\ outcome'[q] = outcome[q] /\ published'[q] = published[q]
          /\ Ranked(q)' <=> Ranked(q)
    BY <1>0, PhaseStep, FrameStep DEF Ranked, At
  <1> HIDE DEF s
  <1>4. ASSUME NEW q \in Processes, Ranked(q)' PROVE s[q] < top + 1
    <2>1. q # p => rank[q] < top /\ rank[q] \in Nat
      BY <1>3, <1>4 DEF Ordered
    <2>2. QED
      BY <1>1, <2>1
  <1>5. ASSUME NEW q \in Processes, NEW u \in Processes, Ranked(q)', Ranked(u)', s[q] = s[u]
        PROVE  q = u
    <2>1. \A v \in {q, u} : v # p => Ranked(v) /\ rank[v] < top /\ rank[v] \in Nat /\ s[v] = rank[v]
      BY <1>1, <1>3, <1>5 DEF Ordered
    <2>2. QED
      BY <1>1, <1>5, <2>1 DEF Ordered
  <1>6. ASSUME NEW x \in Processes, Ranked(x)', NEW e \in published'[x] PROVE Lasts(s, x, e)'
    <2>1. x # p /\ Ranked(x) /\ e \in published[x] /\ e \in Entries
      BY <1>0, <1>2, <1>3, <1>6 DEF TypeInv, LedgerType
    <2>2. PICK z \in Processes : /\ z = x \/ outcome[z] = "committed"
                                 /\ rank[x] <= rank[z] /\ Located(rank, z, e)
      BY <2>1 DEF Ordered, Lasts
    <2>3. z # p /\ Ranked(z) /\ (z = x \/ outcome'[z] = "committed")
      BY <1>2, <1>3, <2>1, <2>2 DEF Ranked
    <2>4. s[z] = rank[z] /\ s[x] = rank[x] /\ s[z] < s[p]
      BY <1>1, <2>1, <2>3 DEF Ordered
    <2>5. Located(s, z, e)'
      BY <1>0, <1>1, <2>1, <2>2, <2>3, <2>4, LocatedStep
    <2>6. QED
      BY <2>2, <2>3, <2>4, <2>5 DEF Lasts
  <1>7. ASSUME NEW c \in Processes, outcome'[c] = "committed"
        PROVE  \E m \in Processes : outcome'[m] = "committed"
                 /\ \A d \in Processes : outcome'[d] = "committed" => s[d] <= s[m]
    <2>1. c # p /\ outcome[c] = "committed"
      BY <1>2, <1>3, <1>7
    <2>2. PICK m \in Processes : /\ outcome[m] = "committed"
                                 /\ \A d \in Processes : outcome[d] = "committed" => rank[d] <= rank[m]
      BY <2>1 DEF Ordered
    <2>3. m # p /\ outcome'[m] = "committed" /\ s[m] = rank[m]
      BY <1>1, <1>2, <1>3, <2>2
    <2>4. \A d \in Processes : outcome'[d] = "committed" =>
            outcome[d] = "committed" /\ s[d] = rank[d]
      BY <1>1, <1>2, <1>3
    <2>5. QED
      BY <2>2, <2>3, <2>4
  <1>8. Ordered(s, top + 1)'
    BY <1>4, <1>5, <1>6, <1>7 DEF Ordered
  <1>9. QED
    BY <1>8 DEF s

(* Otherwise the order stays, also when a run succeeds: what it had        *)
(* displaced, it has replaced.                                             *)
LEMMA OrderStays ==
  ASSUME SafeInv, StagingInv, Quiet', NEW p \in Processes, Step(p),
         pc'[p] = "publish" => pc[p] = "publish",
         NEW rank \in [Processes -> Nat], NEW top \in Nat, Ordered(rank, top)
  PROVE  Ordered(rank, top)'
  <1> DEFINE Succeeds == Publish(p) /\ at[p] = N
  <1>0. TypeInv
    BY DEF SafeInv
  <1>1. \A q \in Processes : q # p =>
          pc'[q] = pc[q] /\ outcome'[q] = outcome[q] /\ published'[q] = published[q]
    BY <1>0, PhaseStep, FrameStep
  <1>2. /\ ~Succeeds => outcome'[p] = "committed" <=> outcome[p] = "committed"
        /\ ~Publish(p) => published'[p] = published[p]
        /\ Publish(p) => /\ at[p] \in Entries /\ published'[p] = published[p] \cup {at[p]}
                         /\ pc[p] = "publish" /\ outcome[p] = "none"
        /\ Succeeds => published'[p] = Entries /\ outcome'[p] = "committed"
    BY Unpublished, PublishesAll DEF Publish, At
  <1>3. \A q \in Processes : outcome[q] = "committed" => outcome'[q] = "committed"
    BY <1>1, <1>2
  <1>4. \A q \in Processes : Ranked(q)' => Ranked(q)
    BY <1>1, <1>2 DEF Ranked, At
  <1>5. \A z \in Processes, e \in Entries : Ranked(z) /\ Located(rank, z, e) =>
          Located(rank, z, e)' \/ (Succeeds /\ rank[z] < rank[p])
    BY LocatedStep
  <1>6. ASSUME NEW x \in Processes, Ranked(x)', NEW e \in published'[x] PROVE Lasts(rank, x, e)'
    <2>1. Ranked(x) /\ (e \in published[x] \/ (x = p /\ Publish(p) /\ e = at[p])) /\ e \in Entries
      BY <1>0, <1>1, <1>2, <1>4, <1>6 DEF TypeInv, LedgerType
    <2>2. rank[x] \in Nat /\ rank[p] \in Nat
      OBVIOUS
    <2>3. ASSUME Publish(p), e = at[p]
          PROVE  Located(rank, p, e)'
      BY <2>1, <2>3, PublishedIsStaged DEF Located
    <2>4. CASE e \notin published[x]
      BY <2>1, <2>2, <2>3, <2>4 DEF Lasts
    <2>5. CASE e \in published[x]
      <3>1. PICK z \in Processes : /\ z = x \/ outcome[z] = "committed"
                                   /\ rank[x] <= rank[z] /\ Located(rank, z, e)
        BY <2>1, <2>5 DEF Ordered, Lasts
      <3>2. Ranked(z) /\ (z = x \/ outcome'[z] = "committed") /\ rank[z] \in Nat
        BY <1>3, <2>1, <3>1 DEF Ranked
      <3>3. CASE Located(rank, z, e)'
        BY <3>1, <3>2, <3>3 DEF Lasts
      <3>4. CASE Succeeds /\ rank[z] < rank[p]
        <4>1. outcome'[p] = "committed" /\ rank[x] <= rank[p] /\ Ranked(p)
          BY <1>2, <2>2, <3>1, <3>2, <3>4 DEF Ranked, At
        <4>2. CASE e = at[p]
          BY <2>3, <3>4, <4>1, <4>2 DEF Lasts
        <4>3. CASE e # at[p]
          <5>1. e \in published[p]
            BY <1>2, <2>1, <3>4, <4>3
          <5>2. PICK y \in Processes : /\ y = p \/ outcome[y] = "committed"
                                       /\ rank[p] <= rank[y] /\ Located(rank, y, e)
            BY <4>1, <5>1 DEF Ordered, Lasts
          <5>3. Ranked(y) /\ outcome'[y] = "committed" /\ rank[y] \in Nat
            BY <1>3, <4>1, <5>2 DEF Ranked
          <5>4. Located(rank, y, e)' /\ rank[x] <= rank[y]
            BY <1>5, <2>1, <2>2, <4>1, <5>2, <5>3
          <5>5. QED
            BY <5>3, <5>4 DEF Lasts
        <4>4. QED
          BY <4>2, <4>3
      <3>5. QED
        BY <1>5, <2>1, <3>1, <3>2, <3>3, <3>4
    <2>6. QED
      BY <2>4, <2>5
  <1>7. ASSUME NEW c \in Processes, outcome'[c] = "committed"
        PROVE  \E m \in Processes : outcome'[m] = "committed"
                 /\ \A d \in Processes : outcome'[d] = "committed" => rank[d] <= rank[m]
    <2>1. \A d \in Processes : outcome'[d] = "committed" => outcome[d] = "committed" \/ d = p
      BY <1>1
    <2>2. CASE \E d \in Processes : outcome[d] = "committed"
      <3>1. PICK m \in Processes : /\ outcome[m] = "committed"
                                   /\ \A d \in Processes : outcome[d] = "committed" => rank[d] <= rank[m]
        BY <2>2 DEF Ordered
      <3>2. rank[m] \in Nat /\ rank[p] \in Nat /\ outcome'[m] = "committed"
        BY <1>3, <3>1
      <3>3. CASE rank[p] <= rank[m]
        BY <2>1, <3>1, <3>2, <3>3
      <3>4. CASE outcome'[p] # "committed"
        BY <2>1, <3>1, <3>2, <3>4
      <3>5. CASE outcome'[p] = "committed" /\ ~(rank[p] <= rank[m])
        <4>1. \A d \in Processes : outcome'[d] = "committed" => rank[d] <= rank[p]
          <5>1. \A d \in Processes : rank[d] \in Nat
            OBVIOUS
          <5>2. QED
            BY <2>1, <3>1, <3>2, <3>5, <5>1
        <4>2. QED
          BY <3>5, <4>1
      <3>6. QED
        BY <3>3, <3>4, <3>5
    <2>3. CASE \A d \in Processes : outcome[d] # "committed"
      <3>1. \A d \in Processes : outcome'[d] = "committed" => d = p
        BY <2>1, <2>3
      <3>2. c = p /\ rank[p] <= rank[p]
        BY <1>7, <3>1
      <3>3. QED
        BY <1>7, <3>1, <3>2
    <2>4. QED
      BY <2>2, <2>3
  <1>8. QED
    BY <1>4, <1>6, <1>7 DEF Ordered

LEMMA OrderStep ==
  ASSUME SafeInv, StagingInv, OrderInv, NEW p \in Processes, Step(p) \/ Crash(p)
  PROVE  OrderInv'
  <1> SUFFICES ASSUME Quiet'
               PROVE  \E rank \in [Processes -> Nat], top \in Nat : Ordered(rank, top)'
    BY DEF OrderInv
  <1>1. Quiet
    BY QuietBefore
  <1>2. PICK rank \in [Processes -> Nat], top \in Nat : Ordered(rank, top)
    BY <1>1 DEF OrderInv
  <1>3. Step(p)
    <2>1. ~Crash(p)
      BY DEF Quiet, Crash, At, Goto, SafeInv, TypeInv, ControlType
    <2>2. QED
      BY <2>1
  <1>4. CASE pc'[p] = "publish" /\ pc[p] # "publish"
    <2>1. PICK s \in [Processes -> Nat] : s = [rank EXCEPT ![p] = top]
      OBVIOUS
    <2>2. Ordered(s, top + 1)'
      BY <1>2, <1>3, <1>4, <2>1, OrderEnters
    <2>3. QED
      BY <2>2
  <1>5. CASE ~(pc'[p] = "publish" /\ pc[p] # "publish")
    BY <1>2, <1>3, <1>5, OrderStays
  <1>6. QED
    BY <1>4, <1>5

-----------------------------------------------------------------------------
(* The theorem.                                                            *)

LEMMA BundlesInit == Init => StagingInv /\ OrderInv
  <1> SUFFICES ASSUME Init PROVE StagingInv /\ OrderInv
    OBVIOUS
  <1>1. \A p \in Processes : pc[p] = "idle" /\ outcome[p] = "none"
    BY DEF Init
  <1>2. StagingInv
    BY <1>1 DEF StagingInv, WrittenAt, CommittedAt, At
  <1>3. PICK rank \in [Processes -> Nat] : rank = [p \in Processes |-> 0]
    OBVIOUS
  <1>4. \A p \in Processes : ~Ranked(p)
    BY <1>1 DEF Ranked, At
  <1>5. Ordered(rank, 0)
    BY <1>1, <1>4 DEF Ordered
  <1>6. QED
    BY <1>2, <1>3, <1>5 DEF OrderInv

(* What depends on the files, the ledger and the control alone.            *)
LEMMA BundlesFrame ==
  ASSUME UNCHANGED <<link, file, pc, at, temp, backed, published, todo, outcome, clean>>,
         StagingInv, OrderInv
  PROVE  StagingInv' /\ OrderInv'
  <1>1. StagingInv'
    BY DEF StagingInv, WrittenAt, CommittedAt, StagedAt, Free, At, Temporary
  <1>2. Quiet' => Quiet
    BY DEF Quiet, Misled, First, At, Claim
  <1>3. ASSUME NEW rank, NEW z \in Processes, NEW e, Located(rank, z, e)
        PROVE  Located(rank, z, e)'
    <2>1. StagedAt(Target(e), z, e) => StagedAt(Target(e), z, e)'
      BY DEF StagedAt, Free, Target
    <2>2. ASSUME NEW y \in Processes, Keeps(y, z, e)
          PROVE  Keeps(y, z, e)' /\ (At(y, "publish")' => At(y, "publish"))
      BY <2>2 DEF Keeps, Owes, KeptAt, StagedAt, Free, First, At, Claim, Backup
    <2>3. QED
      BY <1>3, <2>1, <2>2 DEF Located
  <1>4. ASSUME NEW rank, NEW top, Ordered(rank, top)
        PROVE  Ordered(rank, top)'
    <2>1. \A p \in Processes : Ranked(p)' <=> Ranked(p)
      BY DEF Ranked, At
    <2>2. ASSUME NEW x \in Processes, NEW e, Lasts(rank, x, e)
          PROVE  Lasts(rank, x, e)'
      BY <1>3, <2>2 DEF Lasts
    <2>3. QED
      BY <1>4, <2>1, <2>2 DEF Ordered
  <1>5. QED
    BY <1>1, <1>2, <1>4 DEF OrderInv

(* A run does not edit.                                                    *)
LEMMA RunsDoNotEdit ==
  ASSUME NEW p \in Processes, Step(p) \/ Crash(p)
  PROVE  edits' = edits
  BY DEF Step, Prepare, Stage, Install, Finish, env,
         Begin, OpenQuarantine, OpenQuarantineFails, OpenParents, OpenParentsFails,
         Preflight, PreflightFails, ProbeOut,
         ProbeOutFails, ProbeBack, ProbeBackFails, StageCreate, StageCreateFails, StageWrite,
         StageWriteFails, IdentifyAbsent, Identify, IdentifyFails, Displace, DisplaceFails,
         Publish, PublishFails, Abort, ClaimFile, ClaimFileFails, Discard, Restore, PutBack,
         Strand, RemoveQuarantine, SyncDirectories, Crash

(* All of it, until another actor edits a target.                          *)
BundlesInv == edits = 0 => StagingInv /\ OrderInv

LEMMA BundlesNext ==
  ASSUME SafeInv, BundlesInv, [Next]_vars
  PROVE  BundlesInv'
  <1> SUFFICES ASSUME edits' = 0 PROVE StagingInv' /\ OrderInv'
    BY DEF BundlesInv
  <1>1. ASSUME NEW p \in Processes, Step(p) \/ Crash(p)
        PROVE  StagingInv' /\ OrderInv'
    BY <1>1, RunsDoNotEdit, StagingStep, OrderStep DEF BundlesInv
  <1>2. ASSUME NEW e \in Entries, Edit(e) PROVE FALSE
    BY <1>2 DEF Edit, SafeInv, TypeInv, EnvironmentType
  <1>3. CASE UNCHANGED vars
    BY <1>3, BundlesFrame DEF vars, fs, ledger, env, BundlesInv
  <1>4. QED
    BY <1>1, <1>2, <1>3 DEF Next

LEMMA OrderSuffices ==
  ASSUME SafeInv, StagingInv, OrderInv
  PROVE  BundlesDoNotMix
  <1> SUFFICES ASSUME \A p \in Processes : At(p, "done") /\ clean[p],
                      NEW c \in Processes, outcome[c] = "committed"
               PROVE  \E p \in Processes : /\ outcome[p] = "committed"
                                           /\ \A e \in Entries : StagedAt(Target(e), p, e)
    BY DEF BundlesDoNotMix
  <1>1. Quiet
    BY DEF Quiet, Misled, At
  <1>2. PICK rank \in [Processes -> Nat], top \in Nat : Ordered(rank, top)
    BY <1>1 DEF OrderInv
  <1>3. PICK m \in Processes : /\ outcome[m] = "committed"
                               /\ \A d \in Processes : outcome[d] = "committed" => rank[d] <= rank[m]
    BY <1>2 DEF Ordered
  <1>4. ASSUME NEW e \in Entries PROVE StagedAt(Target(e), m, e)
    <2>1. e \in published[m] /\ Ranked(m)
      BY <1>3 DEF StagingInv, CommittedAt, Ranked
    <2>2. PICK z \in Processes : /\ z = m \/ outcome[z] = "committed"
                                 /\ rank[m] <= rank[z] /\ Located(rank, z, e)
      BY <1>2, <2>1 DEF Ordered, Lasts
    <2>3. Ranked(z) /\ rank[z] = rank[m]
      <3>1. rank[z] \in Nat /\ rank[m] \in Nat
        OBVIOUS
      <3>2. QED
        BY <1>3, <2>2, <3>1 DEF Ranked
    <2>4. z = m
      BY <1>2, <2>1, <2>3 DEF Ordered
    <2>5. \A y \in Processes : ~Keeps(y, z, e)
      BY DEF Keeps, Owes, At
    <2>6. QED
      BY <2>2, <2>4, <2>5 DEF Located
  <1>5. QED
    BY <1>3, <1>4

(* Any number of runs may publish the same bundle at once and fail at any  *)
(* point: while nobody else has edited a target, when all have ended and   *)
(* none reports a cleanup error, the targets hold the bundle of one run    *)
(* that succeeded, or no run succeeded (write_outputs_with_hooks,          *)
(* rollback).                                                              *)
THEOREM BundlesHold == Spec => [](edits = 0 => BundlesDoNotMix)
  <1>1. Init => SafeInv /\ BundlesInv
    BY InitSafe, BundlesInit DEF BundlesInv
  <1>2. SafeInv /\ BundlesInv /\ [Next]_vars => (SafeInv /\ BundlesInv)'
    BY SafeStep, BundlesNext
  <1>3. SafeInv /\ BundlesInv => (edits = 0 => BundlesDoNotMix)
    BY OrderSuffices DEF BundlesInv
  <1>4. QED
    BY <1>1, <1>2, <1>3, PTL DEF Spec
=============================================================================
