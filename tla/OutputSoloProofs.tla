--------------------------- MODULE OutputSoloProofs ---------------------------
(***************************************************************************)
(* Theorems about a run of OutputTransaction that has the targets to       *)
(* itself: whatever fails, and whenever it is killed, its publication is   *)
(* all or nothing, for every bundle and every number of descriptors.       *)
(***************************************************************************)
EXTENDS OutputTransactionProofs, FiniteSetTheorems

(* The places an original may be at until the bundle is complete.          *)
Somewhere(p, e) ==
  \E n \in {Target(e), Backup(p, e), Claim(p, "backup-claim", e)} : OriginalAt(n, e)

RecoverableAt(p) == outcome[p] # "committed" => \A e \in existed : Somewhere(p, e)

(* Until the run reports something, the ledger says where everything is.   *)
PlacedAt(p, e) ==
  /\ e \in published[p] =>
       /\ e \in known[p] /\ (e \in existed => e \in backed[p])
       /\ link[Target(e)] = temp[p][e] /\ temp[p][e] # NoInode
  /\ e \notin published[p] =>
       /\ e \in backed[p] => Free(Target(e))
       /\ e \notin backed[p] => Untouched(e)
       /\ temp[p][e] # NoInode => link[Temporary(p, e)] = temp[p][e]
       /\ e \in known[p] => temp[p][e] # NoInode
  /\ e \in backed[p] =>
       /\ e \in existed /\ original[p][e] # NoInode
       /\ link[Backup(p, e)] = original[p][e] /\ OriginalAt(Backup(p, e), e)
  /\ \A k \in ClaimKinds \ {"probe-claim"} : Free(Claim(p, k, e))
LedgerAt(p) == pc[p] \in Unreported => \A e \in Entries : PlacedAt(p, e)

(* The entries up to k are staged completely.                              *)
StagedUpTo(p, k) == \A e \in 1 .. k : e \in known[p] /\ file[temp[p][e]] = File("staged", p, e)

(* What the entries before the one the run is at have been through.        *)
PhaseAt(p) ==
  /\ pc[p] \in {"idle", "open", "parents"} =>
       \A e \in Entries : temp[p][e] = NoInode /\ original[p][e] = NoInode
  /\ pc[p] \in Unreported \ {"identify", "displace", "publish", "abort"} => backed[p] = {}
  /\ At(p, "preflight") => existed \cap (1 .. at[p] - 1) \subseteq had[p]
  /\ pc[p] \in {"probe", "probing", "stage", "write", "identify", "displace"} => existed \subseteq had[p]
  /\ pc[p] \in {"stage", "write"} => StagedUpTo(p, at[p] - 1)
  /\ At(p, "write") =>
       temp[p][at[p]] # NoInode /\ \A d \in known[p] \ {at[p]} : temp[p][d] # temp[p][at[p]]
  /\ pc[p] \in {"identify", "displace", "publish"} => StagedUpTo(p, N)
  /\ pc[p] \in {"identify", "displace"} =>
       backed[p] \subseteq 1 .. at[p] - 1 /\ existed \cap (1 .. at[p] - 1) \subseteq backed[p]
  /\ At(p, "displace") =>
       at[p] \in existed /\ original[p][at[p]] = link[Target(at[p])]
  /\ At(p, "publish") => existed \subseteq backed[p]

(* The file a task is about is where it was, or in the quarantine if the   *)
(* task is being settled.                                                  *)
Settling(p, t) == At(p, "settle") /\ First(p, t)
Place(p, t) == IF Settling(p, t) THEN ClaimOf(p, t) ELSE Source(p, t)
TaskAt(p, t) ==
  /\ Expected(p, t) # NoInode /\ link[Place(p, t)] = Expected(p, t)
  /\ t.kind = "restore" => OriginalAt(Place(p, t), t.entry)
  /\ Settling(p, t) => Free(Source(p, t))
  /\ IF outcome[p] = "committed" THEN t.kind = "retire" ELSE t.kind # "retire"
  /\ \A u \in todo[p] : Source(p, t) = Source(p, u) => t = u
TasksAt(p) ==
  /\ pc[p] \in {"cleanup", "settle", "sync", "done"} => outcome[p] # "none"
  /\ pc[p] \in {"cleanup", "settle"} => \A t \in todo[p] : TaskAt(p, t)
  /\ pc[p] \in {"sync", "done"} => todo[p] = {}

(* What a rollback has come to: a target is free for its original, and     *)
(* then it is as it was.                                                   *)
UndoAt(p) ==
  outcome[p] = "failed" /\ ~At(p, "crashed") => \A e \in Entries :
    /\ Task("restore", e) \in todo[p] => e \in existed
    /\ Task("unpublish", e) \in todo[p] /\ e \in existed => Task("restore", e) \in todo[p]
    /\ clean[p] /\ Task("unpublish", e) \notin todo[p] =>
         IF Task("restore", e) \in todo[p] THEN Free(Target(e)) ELSE Untouched(e)

(* There is a descriptor for every step of a rollback.                     *)
BudgetAt(p) ==
  /\ Live(p) => RootDescriptors + QuarantineDescriptors <= capacity
  /\ pc[p] \in EntryPhases \cup {"parents"} =>
       pinned[p] >= PinnedDescriptors /\ Used(p) <= capacity
  /\ At(p, "abort") => IF pinned[p] >= PinnedDescriptors THEN Used(p) <= capacity ELSE CanOpen(p)
  /\ pc[p] \in {"cleanup", "settle"} => CanOpen(p)

(* Without a failed call there is nothing to blame.                        *)
FaultlessAt(p) ==
  faults = 0 =>
    /\ clean[p]
    /\ pc[p] \in Unreported => \A e \in Entries :
         /\ Free(Claim(p, "probe-claim", e))
         /\ temp[p][e] # NoInode => e \in known[p] \/ (At(p, "write") /\ e = at[p])
    /\ pc[p] \in {"cleanup", "settle"} =>
         /\ \A t \in todo[p] : t.kind # "preserve"
         /\ \A k \in ClaimKinds, e \in Entries :
              \/ Free(Claim(p, k, e))
              \/ \E t \in todo[p] : Settling(p, t) /\ Claim(p, k, e) = ClaimOf(p, t)

SoloAt(p) ==
  /\ RecoverableAt(p) /\ LedgerAt(p) /\ PhaseAt(p) /\ TasksAt(p) /\ UndoAt(p)
  /\ BudgetAt(p) /\ FaultlessAt(p)
SoloInv == edits = 0 => \A p \in Processes : SoloAt(p)

-----------------------------------------------------------------------------
(* Names.                                                                  *)

(* The names of a run are apart from one another.                          *)
LEMMA NamesApart ==
  ASSUME NEW p, NEW d, NEW e
  PROVE  /\ d # e => /\ Target(d) # Target(e) /\ Temporary(p, d) # Temporary(p, e)
                     /\ Backup(p, d) # Backup(p, e)
         /\ Target(d) # Temporary(p, e) /\ Target(d) # Backup(p, e) /\ Target(d) # Probe(p, e)
         /\ Temporary(p, d) # Backup(p, e) /\ Temporary(p, d) # Probe(p, e)
         /\ Backup(p, d) # Probe(p, e)
         /\ \A k \in ClaimKinds :
              /\ Claim(p, k, d) # Target(e) /\ Claim(p, k, d) # Temporary(p, e)
              /\ Claim(p, k, d) # Backup(p, e) /\ Claim(p, k, d) # Probe(p, e)
         /\ \A k, l \in ClaimKinds : Claim(p, k, d) = Claim(p, l, e) => k = l /\ d = e
  <1>1. /\ d # e => /\ Target(d) # Target(e) /\ Temporary(p, d) # Temporary(p, e)
                    /\ Backup(p, d) # Backup(p, e)
        /\ Target(d) # Temporary(p, e) /\ Target(d) # Backup(p, e) /\ Target(d) # Probe(p, e)
        /\ Temporary(p, d) # Backup(p, e) /\ Temporary(p, d) # Probe(p, e)
        /\ Backup(p, d) # Probe(p, e)
    BY DEF Target, Temporary, Backup, Probe
  <1>2. ASSUME NEW k \in ClaimKinds
        PROVE  /\ Claim(p, k, d) # Target(e) /\ Claim(p, k, d) # Temporary(p, e)
               /\ Claim(p, k, d) # Backup(p, e) /\ Claim(p, k, d) # Probe(p, e)
    BY DEF Target, Temporary, Backup, Probe, Claim, ClaimKinds
  <1>3. \A k, l \in ClaimKinds : Claim(p, k, d) = Claim(p, l, e) => k = l /\ d = e
    BY DEF Claim
  <1>4. QED
    BY <1>1, <1>2, <1>3

(* What task a name is the source of, and where its file is claimed.       *)
LEMMA TaskNames ==
  ASSUME NEW p, NEW t \in Tasks, NEW e
  PROVE  /\ Source(p, t) = Target(e) <=> t = Task("unpublish", e)
         /\ Source(p, t) = Backup(p, e) <=> t.kind \in {"restore", "retire"} /\ t.entry = e
         /\ Source(p, t) = Temporary(p, e) <=> t.kind \in {"unstage", "preserve"} /\ t.entry = e
         /\ ClaimOf(p, t) # Target(e) /\ ClaimOf(p, t) # Backup(p, e)
         /\ ClaimOf(p, t) # Temporary(p, e)
         /\ ClaimOf(p, t) = Claim(p, "backup-claim", e)
              <=> t.kind \in {"restore", "retire"} /\ t.entry = e
         /\ \A k \in ClaimKinds : Source(p, t) # Claim(p, k, e)
  <1>1. t.kind \in TaskKinds /\ t = Task(t.kind, t.entry)
    BY DEF Tasks, Task
  <1>2. t = Task("unpublish", e) <=> t.kind = "unpublish" /\ t.entry = e
    BY <1>1 DEF Task
  <1>3. CASE t.kind = "unpublish"
    BY <1>2, <1>3, NamesApart DEF Source, ClaimOf, ClaimKinds
  <1>4. CASE t.kind \in {"restore", "retire"}
    BY <1>2, <1>4, NamesApart DEF Source, ClaimOf, ClaimKinds
  <1>5. CASE t.kind \in {"unstage", "preserve"}
    BY <1>2, <1>5, NamesApart DEF Source, ClaimOf, ClaimKinds
  <1>6. QED
    BY <1>1, <1>3, <1>4, <1>5 DEF TaskKinds

(* The names of two tasks.                                                 *)
LEMMA TasksApart ==
  ASSUME NEW p, NEW t \in Tasks, NEW u \in Tasks
  PROVE  /\ ClaimOf(p, t) # Source(p, u)
         /\ ClaimOf(p, t) = ClaimOf(p, u) <=> Source(p, t) = Source(p, u)
         /\ ClaimOf(p, t) # Target(t.entry)
  <1>1. t.kind \in TaskKinds /\ u.kind \in TaskKinds
    BY DEF Tasks
  <1>2. ClaimOf(p, t) # Target(t.entry)
    BY TaskNames
  <1>3. ClaimOf(p, t) # Source(p, u)
    BY TaskNames DEF Source
  <1>4. CASE u.kind = "unpublish"
    BY <1>1, <1>4, NamesApart DEF Source, ClaimOf, ClaimKinds, TaskKinds
  <1>5. CASE u.kind \in {"restore", "retire"}
    BY <1>1, <1>5, NamesApart DEF Source, ClaimOf, ClaimKinds, TaskKinds
  <1>6. CASE u.kind \in {"unstage", "preserve"}
    BY <1>1, <1>6, NamesApart DEF Source, ClaimOf, ClaimKinds, TaskKinds
  <1>7. QED
    BY <1>1, <1>2, <1>3, <1>4, <1>5, <1>6 DEF TaskKinds

-----------------------------------------------------------------------------
(* Tasks.                                                                  *)

(* A run settles one task at a time.                                       *)
LEMMA FirstIsOne ==
  ASSUME TypeInv, NEW p \in Processes, TasksAt(p), pc[p] \in {"cleanup", "settle"},
         NEW t, NEW u, First(p, t), First(p, u)
  PROVE  t = u
  <1>1. t \in todo[p] /\ u \in todo[p] /\ t \in Tasks /\ u \in Tasks
    BY DEF First, TypeInv, ReportType
  <1>2. /\ t.entry \in 1 .. N /\ u.entry \in 1 .. N
        /\ t.kind \in TaskKinds /\ u.kind \in TaskKinds
    BY <1>1 DEF Tasks, Entries
  <1>3. Rank(t) \in Int /\ Rank(u) \in Int /\ Rank(t) = Rank(u)
    <2>1. Rank(t) \in Int /\ Rank(u) \in Int
      BY <1>2, SizeAssumption DEF Rank
    <2>2. Rank(t) <= Rank(u) /\ Rank(u) <= Rank(t)
      BY <1>1 DEF First
    <2>3. QED
      BY <2>1, <2>2
  <1>4. t.kind = "retire" <=> u.kind = "retire"
    BY <1>1 DEF TasksAt, TaskAt
  <1>5. /\ t.entry = u.entry
        /\ t.kind = "unpublish" <=> u.kind = "unpublish"
        /\ t.kind = "restore" <=> u.kind = "restore"
    BY <1>2, <1>3, <1>4, SizeAssumption DEF Rank, TaskKinds
  <1>6. Source(p, t) = Source(p, u)
    BY <1>2, <1>4, <1>5 DEF Source, TaskKinds
  <1>7. QED
    BY <1>1, <1>6 DEF TasksAt, TaskAt

(* The new file of an entry is withdrawn before its original is restored.  *)
LEMMA UnpublishedFirst ==
  ASSUME TypeInv, NEW p \in Processes, NEW e \in Entries, First(p, Task("restore", e))
  PROVE  Task("unpublish", e) \notin todo[p]
  BY SizeAssumption DEF First, Rank, Task, Entries

-----------------------------------------------------------------------------
(* What a step leaves where it is.                                         *)

(* An original stays an original, wherever a step moves it to.             *)
LEMMA OriginalKept ==
  ASSUME SafeInv, NEW p \in Processes, Step(p) \/ Crash(p),
         NEW n \in Names, NEW m, NEW e, OriginalAt(n, e), link'[m] = link[n]
  PROVE  OriginalAt(m, e)'
  <1>1. link[n] \in Inodes /\ link[n] # NoInode /\ file[link[n]] = File("original", Nobody, e)
    BY DEF OriginalAt, Free, SafeInv, TypeInv, FileSystemType
  <1>2. Linked(link[n]) /\ file[link[n]].owner # p
    BY <1>1, NameAssumption DEF Linked, File
  <1>3. file'[link[n]] = file[link[n]]
    BY <1>1, <1>2, OthersFilesKept
  <1>4. QED
    BY <1>1, <1>3 DEF OriginalAt, Free

(* A file of the run is not an original.                                   *)
LEMMA StagedIsNoOriginal ==
  ASSUME SafeInv, NEW p \in Processes, Live(p), NEW e \in Entries, temp[p][e] # NoInode,
         NEW n, NEW d, link[n] = temp[p][e]
  PROVE  ~OriginalAt(n, d)
  <1>1. file[temp[p][e]].owner = p
    BY DEF SafeInv, StagedIsOwn
  <1>2. QED
    BY <1>1, NameAssumption DEF OriginalAt, File

LEMMA UntouchedKept ==
  ASSUME SafeInv, NEW p \in Processes, Step(p) \/ Crash(p), NEW e \in Entries,
         Untouched(e), link'[Target(e)] = link[Target(e)]
  PROVE  Untouched(e)'
  <1>1. existed' = existed /\ Target(e) \in Names
    BY PublishedGrows, NamesType DEF SafeInv
  <1>2. CASE e \in existed
    BY <1>1, <1>2, OriginalKept DEF Untouched
  <1>3. CASE e \notin existed
    BY <1>1, <1>3 DEF Untouched, Free
  <1>4. QED
    BY <1>2, <1>3

(* The names that matter to the ledger of an entry.                        *)
Near(p, e) ==
  {Target(e), Temporary(p, e), Backup(p, e)}
    \cup {Claim(p, k, e) : k \in ClaimKinds \ {"probe-claim"}}

LEMMA PlacedKept ==
  ASSUME SafeInv, NEW p \in Processes, Step(p) \/ Crash(p), NEW e \in Entries, PlacedAt(p, e),
         \A n \in Near(p, e) : link'[n] = link[n],
         temp'[p][e] = temp[p][e],
         e \in backed'[p] <=> e \in backed[p],
         e \in backed[p] => original'[p][e] = original[p][e],
         e \in published'[p] <=> e \in published[p],
         e \in known[p] => e \in known'[p],
         e \in known'[p] => e \in known[p] \/ temp[p][e] # NoInode
  PROVE  PlacedAt(p, e)'
  <1>1. /\ existed' = existed
        /\ Target(e) \in Names /\ Backup(p, e) \in Names
    BY PublishedGrows, NamesType DEF SafeInv
  <1>2. /\ link'[Target(e)] = link[Target(e)] /\ link'[Backup(p, e)] = link[Backup(p, e)]
        /\ link'[Temporary(p, e)] = link[Temporary(p, e)]
        /\ \A k \in ClaimKinds \ {"probe-claim"} : link'[Claim(p, k, e)] = link[Claim(p, k, e)]
    BY DEF Near
  <1>3. Untouched(e) => Untouched(e)'
    BY <1>2, UntouchedKept
  <1>4. OriginalAt(Backup(p, e), e) => OriginalAt(Backup(p, e), e)'
    BY <1>1, <1>2, OriginalKept
  <1>5. e \in published'[p] => /\ e \in known'[p] /\ (e \in existed' => e \in backed'[p])
                               /\ link'[Target(e)] = temp'[p][e] /\ temp'[p][e] # NoInode
    BY <1>1, <1>2 DEF PlacedAt
  <1>6. e \notin published'[p] =>
          /\ e \in backed'[p] => link'[Target(e)] = NoInode
          /\ e \notin backed'[p] => Untouched(e)'
          /\ temp'[p][e] # NoInode => link'[Temporary(p, e)] = temp'[p][e]
          /\ e \in known'[p] => temp'[p][e] # NoInode
    BY <1>2, <1>3 DEF PlacedAt, Free
  <1>7. e \in backed'[p] =>
          /\ e \in existed' /\ original'[p][e] # NoInode
          /\ link'[Backup(p, e)] = original'[p][e] /\ OriginalAt(Backup(p, e), e)'
    BY <1>1, <1>2, <1>4 DEF PlacedAt
  <1>8. \A k \in ClaimKinds \ {"probe-claim"} : link'[Claim(p, k, e)] = NoInode
    BY <1>2 DEF PlacedAt, Free
  <1>9. QED
    BY <1>5, <1>6, <1>7, <1>8 DEF PlacedAt, Free

(* While the run reports nothing, the ledger is where the originals are.   *)
LEMMA LedgerRecovers ==
  ASSUME TypeInv, NEW p, \A e \in Entries : PlacedAt(p, e)
  PROVE  RecoverableAt(p)
  <1> SUFFICES ASSUME NEW e \in existed PROVE Somewhere(p, e)
    BY DEF RecoverableAt
  <1>1. e \in Entries /\ PlacedAt(p, e)
    BY DEF TypeInv, EnvironmentType
  <1>2. CASE e \in backed[p]
    BY <1>1, <1>2 DEF PlacedAt, Somewhere
  <1>3. CASE e \notin backed[p]
    BY <1>1, <1>3 DEF PlacedAt, Somewhere, Untouched
  <1>4. QED
    BY <1>2, <1>3

(* The preparation links and unlinks probes only.                          *)
LEMMA ProbesOnly ==
  ASSUME TypeInv, NEW p \in Processes, NEW e \in Entries, NEW n \in Near(p, e), Prepare(p)
  PROVE  link'[n] = link[n]
  <1>1. n \in Names
    BY NamesType DEF Near
  <1>2. ASSUME NEW d \in Entries PROVE n # Probe(p, d) /\ n # Claim(p, "probe-claim", d)
    BY NamesApart DEF Near, ClaimKinds
  <1>3. /\ link \in [Names -> Inodes \cup {NoInode}]
        /\ pc[p] \in EntryPhases => at[p] \in Entries
    BY DEF TypeInv, FileSystemType, ControlType
  <1>4. CASE ProbeOut(p)
    BY <1>1, <1>2, <1>3, <1>4 DEF ProbeOut, At, EntryPhases
  <1>5. CASE ProbeOutFails(p)
    <2>1. at[p] \in Entries
      BY <1>3, <1>5 DEF ProbeOutFails, At, EntryPhases
    <2>2. UNCHANGED link \/ \E i : link' = [link EXCEPT ![Claim(p, "probe-claim", at[p])] = i]
      BY <1>5 DEF ProbeOutFails, fs
    <2>3. QED
      BY <1>1, <1>2, <1>3, <2>1, <2>2
  <1>6. CASE ProbeBack(p)
    BY <1>1, <1>2, <1>3, <1>6 DEF ProbeBack, At, EntryPhases, Unlink
  <1>7. CASE ProbeBackFails(p)
    <2>1. at[p] \in Entries
      BY <1>3, <1>7 DEF ProbeBackFails, At, EntryPhases
    <2>2. \/ UNCHANGED link
          \/ link' = Unlink(Probe(p, at[p]))
          \/ link' = Move(Probe(p, at[p]), Claim(p, "probe-claim", at[p]))
      BY <1>7 DEF ProbeBackFails
    <2>3. QED
      BY <1>1, <1>2, <1>3, <2>1, <2>2 DEF Unlink, Move
  <1>8. CASE UNCHANGED link
    BY <1>8
  <1>9. QED
    BY <1>4, <1>5, <1>6, <1>7, <1>8
       DEF Prepare, Begin, OpenQuarantine, OpenQuarantineFails, OpenParents, OpenParentsFails,
           Preflight, PreflightFails, fs

-----------------------------------------------------------------------------
(* The ledger.                                                             *)

(* The name that a step links anew is at another entry than the one that   *)
(* is at the turn.                                                         *)
LEMMA OtherEntries ==
  ASSUME TypeInv, NEW p \in Processes, NEW d \in Entries, NEW e \in Entries, d # e,
         NEW n \in Near(p, d)
  PROVE  /\ n \in Names /\ n # Target(e) /\ n # Temporary(p, e) /\ n # Backup(p, e)
         /\ \A k \in ClaimKinds : n # Claim(p, k, e)
  BY NamesApart, NamesType DEF Near

LEMMA LedgerCreate ==
  ASSUME SafeInv, NEW p \in Processes, LedgerAt(p), PhaseAt(p), StageCreate(p),
         NEW d \in Entries
  PROVE  PlacedAt(p, d)'
  <1> DEFINE e == at[p]
  <1>0. Step(p)
    BY DEF Step, Stage
  <1>1. TypeInv /\ e \in Entries /\ PlacedAt(p, d) /\ pc[p] = "stage"
    BY DEF SafeInv, StageCreate, At, LedgerAt, Unreported, EntryPhases, TypeInv, ControlType
  <1>2. PICK i \in Inodes :
          link' = [link EXCEPT ![Temporary(p, e)] = i] /\ temp' = [temp EXCEPT ![p][e] = i]
    BY DEF StageCreate, Allocatable
  <1>3. UNCHANGED <<known, original, backed, published>>
    BY DEF StageCreate
  <1> HIDE DEF e
  <1>4. CASE d # e
    <2>1. \A n \in Near(p, d) : link'[n] = link[n]
      BY <1>1, <1>2, <1>4, OtherEntries DEF TypeInv, FileSystemType
    <2>2. temp'[p][d] = temp[p][d]
      BY <1>1, <1>2, <1>4 DEF TypeInv, LedgerType
    <2>3. QED
      BY <1>0, <1>1, <1>3, <2>1, <2>2, PlacedKept
  <1>5. CASE d = e
    <2>1. d \notin published[p] /\ d \notin backed[p]
      BY <1>1 DEF SafeInv, ProgressOK, PhaseAt, Unreported, EntryPhases
    <2>2. Untouched(d) /\ \A k \in ClaimKinds \ {"probe-claim"} : Free(Claim(p, k, d))
      BY <1>1, <2>1 DEF PlacedAt
    <2>3. /\ link'[Target(d)] = link[Target(d)]
          /\ \A k \in ClaimKinds : link'[Claim(p, k, d)] = link[Claim(p, k, d)]
      BY <1>1, <1>2, NamesApart, NamesType DEF TypeInv, FileSystemType
    <2>4. Untouched(d)'
      BY <1>0, <2>2, <2>3, UntouchedKept
    <2>5. temp'[p][d] = i /\ link'[Temporary(p, d)] = i /\ i # NoInode
      BY <1>1, <1>2, <1>5, NamesType, NameAssumption DEF TypeInv, FileSystemType, LedgerType
    <2>6. QED
      BY <1>3, <2>1, <2>2, <2>3, <2>4, <2>5 DEF PlacedAt, Free
  <1>6. QED
    BY <1>4, <1>5

LEMMA LedgerDisplace ==
  ASSUME SafeInv, NEW p \in Processes, LedgerAt(p), PhaseAt(p), Displace(p),
         NEW d \in Entries
  PROVE  PlacedAt(p, d)'
  <1> DEFINE e == at[p]
  <1>0. Step(p)
    BY DEF Step, Install
  <1>1. TypeInv /\ e \in Entries /\ PlacedAt(p, d) /\ pc[p] = "displace"
    BY DEF SafeInv, Displace, At, LedgerAt, Unreported, EntryPhases, TypeInv, ControlType
  <1>2. /\ link' = Move(Target(e), Backup(p, e)) /\ backed' = [backed EXCEPT ![p] = @ \cup {e}]
        /\ UNCHANGED <<temp, known, original, published>> /\ ~Free(Target(e))
    BY DEF Displace, CanMove
  <1>3. \A n \in Names : n # Target(e) /\ n # Backup(p, e) => link'[n] = link[n]
    BY <1>1, <1>2, NamesType DEF Move, TypeInv, FileSystemType
  <1>4. backed'[p] = backed[p] \cup {e}
    BY <1>1, <1>2 DEF TypeInv, LedgerType
  <1>5. backed[p] \subseteq 1 .. e - 1 /\ e \in existed /\ original[p][e] = link[Target(e)]
    BY <1>1 DEF PhaseAt, At
  <1>5a. link'[Backup(p, e)] = link[Target(e)] /\ link'[Target(e)] = NoInode
    BY <1>1, <1>2, NamesType, NamesApart DEF Move, TypeInv, FileSystemType
  <1> HIDE DEF e
  <1>6. CASE d # e
    <2>1. \A n \in Near(p, d) : link'[n] = link[n]
      BY <1>1, <1>3, <1>6, OtherEntries
    <2>2. QED
      BY <1>0, <1>1, <1>2, <1>4, <1>6, <2>1, PlacedKept
  <1>7. CASE d = e
    <2>1. d \notin published[p] /\ d \notin backed[p]
      BY <1>1, <1>5, <1>7, SizeAssumption
         DEF SafeInv, ProgressOK, Unreported, EntryPhases, Entries
    <2>2. OriginalAt(Target(d), d)
      BY <1>1, <1>5, <1>7, <2>1 DEF PlacedAt, Untouched
    <2>3. /\ link'[Temporary(p, d)] = link[Temporary(p, d)]
          /\ \A k \in ClaimKinds : link'[Claim(p, k, d)] = link[Claim(p, k, d)]
      BY <1>1, <1>3, NamesApart, NamesType
    <2>4. OriginalAt(Backup(p, d), d)'
      BY <1>0, <1>1, <1>5a, <1>7, <2>2, OriginalKept, NamesType
    <2>5. existed' = existed
      BY <1>0, <1>1, PublishedGrows
    <2>6. d \notin published'[p] /\ d \in backed'[p] /\ link'[Target(d)] = NoInode
      BY <1>2, <1>4, <1>5a, <1>7, <2>1
    <2>7. original'[p][d] # NoInode /\ link'[Backup(p, d)] = original'[p][d]
      BY <1>2, <1>5, <1>5a, <1>7 DEF Free
    <2>8. /\ temp'[p][d] # NoInode => link'[Temporary(p, d)] = temp'[p][d]
          /\ d \in known'[p] => temp'[p][d] # NoInode
          /\ \A k \in ClaimKinds \ {"probe-claim"} : link'[Claim(p, k, d)] = NoInode
      BY <1>1, <1>2, <2>1, <2>3 DEF PlacedAt, Free
    <2>9. QED
      BY <1>5, <1>7, <2>4, <2>5, <2>6, <2>7, <2>8 DEF PlacedAt, Free
  <1>8. QED
    BY <1>6, <1>7

(* An entry that is published, also the last.                              *)
LEMMA LedgerPublish ==
  ASSUME SafeInv, NEW p \in Processes, LedgerAt(p), PhaseAt(p), Publish(p),
         NEW d \in Entries
  PROVE  PlacedAt(p, d)'
  <1> DEFINE e == at[p]
  <1>0. Step(p)
    BY DEF Step, Install
  <1>1. TypeInv /\ e \in Entries /\ PlacedAt(p, d) /\ pc[p] = "publish"
    BY DEF SafeInv, Publish, At, LedgerAt, Unreported, EntryPhases, TypeInv, ControlType
  <1>2. /\ link' = Move(Temporary(p, e), Target(e))
        /\ published' = [published EXCEPT ![p] = @ \cup {e}]
        /\ UNCHANGED <<temp, known, original, backed>>
    BY DEF Publish
  <1>3. \A n \in Names : n # Target(e) /\ n # Temporary(p, e) => link'[n] = link[n]
    BY <1>1, <1>2, NamesType DEF Move, TypeInv, FileSystemType
  <1>4. published'[p] = published[p] \cup {e}
    BY <1>1, <1>2 DEF TypeInv, LedgerType
  <1>5. published[p] = 1 .. e - 1 /\ existed \subseteq backed[p] /\ StagedUpTo(p, N)
    BY <1>1 DEF PhaseAt, At, SafeInv, ProgressOK
  <1>6. link'[Target(e)] = link[Temporary(p, e)]
    BY <1>1, <1>2, NamesType, NamesApart DEF Move, TypeInv, FileSystemType
  <1>7. existed' = existed
    BY <1>0, <1>1, PublishedGrows
  <1> HIDE DEF e
  <1>8. CASE d # e
    <2>1. \A n \in Near(p, d) : link'[n] = link[n]
      BY <1>1, <1>3, <1>8, OtherEntries
    <2>2. QED
      BY <1>0, <1>1, <1>2, <1>4, <1>8, <2>1, PlacedKept
  <1>9. CASE d = e
    <2>1. d \notin published[p] /\ d \in known[p]
      BY <1>1, <1>5, <1>9, SizeAssumption DEF Entries, StagedUpTo
    <2>2. temp[p][d] # NoInode /\ link[Temporary(p, d)] = temp[p][d]
      BY <1>1, <2>1 DEF PlacedAt
    <2>3. /\ link'[Backup(p, d)] = link[Backup(p, d)]
          /\ \A k \in ClaimKinds : link'[Claim(p, k, d)] = link[Claim(p, k, d)]
      BY <1>1, <1>3, NamesApart, NamesType
    <2>4. OriginalAt(Backup(p, d), d) => OriginalAt(Backup(p, d), d)'
      BY <1>0, <2>3, OriginalKept, NamesType
    <2>5. d \in published'[p] /\ link'[Target(d)] = temp'[p][d]
      BY <1>2, <1>4, <1>6, <1>9, <2>2
    <2>6. d \in backed'[p] =>
            /\ d \in existed' /\ original'[p][d] # NoInode
            /\ link'[Backup(p, d)] = original'[p][d] /\ OriginalAt(Backup(p, d), d)'
      BY <1>1, <1>2, <1>7, <2>3, <2>4 DEF PlacedAt
    <2>7. \A k \in ClaimKinds \ {"probe-claim"} : link'[Claim(p, k, d)] = NoInode
      BY <1>1, <2>3 DEF PlacedAt, Free
    <2>8. QED
      BY <1>2, <1>5, <1>7, <2>1, <2>2, <2>5, <2>6, <2>7 DEF PlacedAt, Free
  <1>10. QED
    BY <1>8, <1>9

(* The steps that leave the names near the entries as they are.            *)
LEMMA LedgerQuiet ==
  ASSUME SafeInv, NEW p \in Processes, LedgerAt(p), PhaseAt(p), Step(p) \/ Crash(p),
         pc[p] \in Unreported, pc'[p] \in Unreported,
         ~StageCreate(p), ~Displace(p), ~Publish(p), NEW d \in Entries
  PROVE  PlacedAt(p, d)'
  <1>1. TypeInv /\ PlacedAt(p, d)
    BY DEF SafeInv, LedgerAt
  <1>2. Prepare(p) \/ Stage(p) \/ Install(p)
    BY <1>1 DEF Step, Finish, Abort, ClaimFile, ClaimFileFails, Discard, Restore, PutBack, Strand,
           RemoveQuarantine, SyncDirectories, Crash, At, Goto, Unreported, EntryPhases,
           TypeInv, ControlType
  <1>3. ASSUME NEW n \in Near(p, d) PROVE link'[n] = link[n]
    <2>1. CASE Prepare(p)
      BY <1>1, <1>3, <2>1, ProbesOnly
    <2>2. CASE Stage(p)
      BY <2>2 DEF Stage, StageCreateFails, StageWrite, StageWriteFails, fs
    <2>3. CASE Install(p)
      BY <2>3 DEF Install, IdentifyAbsent, Identify, IdentifyFails, DisplaceFails, PublishFails,
                  fs
    <2>4. QED
      BY <1>2, <2>1, <2>2, <2>3
  <1>4. CASE Identify(p)
    <2>1. UNCHANGED <<temp, known, backed, published>>
      BY <1>4 DEF Identify
    <2>2. d \in backed[p] => original'[p][d] = original[p][d]
      <3>1. pc[p] = "identify" /\ at[p] \in Entries
        BY <1>1, <1>4 DEF Identify, At, TypeInv, ControlType, EntryPhases
      <3>2. d \in backed[p] => d # at[p]
        BY <3>1, SizeAssumption DEF PhaseAt, Entries
      <3>3. original' = [original EXCEPT ![p][at[p]] = link[Target(at[p])]]
        BY <1>4 DEF Identify
      <3>4. QED
        BY <1>1, <3>1, <3>2, <3>3 DEF TypeInv, LedgerType
    <2>3. QED
      BY <1>1, <1>3, <2>1, <2>2, PlacedKept
  <1>5. CASE StageWrite(p) \/ StageWriteFails(p)
    <2>1. UNCHANGED <<temp, original, backed, published>>
      BY <1>5 DEF StageWrite, StageWriteFails
    <2>2. temp[p][at[p]] # NoInode /\ (known'[p] = known[p] \/ known'[p] = known[p] \cup {at[p]})
      BY <1>1, <1>5 DEF StageWrite, StageWriteFails, TypeInv, LedgerType, PhaseAt, At
    <2>3. QED
      BY <1>1, <1>3, <2>1, <2>2, PlacedKept
  <1>6. CASE UNCHANGED <<temp, known, original, backed, published>>
    BY <1>1, <1>3, <1>6, PlacedKept
  <1>7. QED
    BY <1>2, <1>4, <1>5, <1>6
       DEF Prepare, Stage, Install, Begin, OpenQuarantine, OpenQuarantineFails, OpenParents,
           OpenParentsFails, Preflight, PreflightFails, ProbeOut, ProbeOutFails, ProbeBack,
           ProbeBackFails, StageCreateFails, IdentifyAbsent, IdentifyFails, DisplaceFails,
           PublishFails, ledger

LEMMA LedgerKept ==
  ASSUME SafeInv, NEW p \in Processes, LedgerAt(p), PhaseAt(p), Step(p) \/ Crash(p)
  PROVE  LedgerAt(p)'
  <1> SUFFICES ASSUME pc'[p] \in Unreported, NEW d \in Entries PROVE PlacedAt(p, d)'
    BY DEF LedgerAt, Unreported
  <1>1. CASE pc[p] \in Unreported
    BY <1>1, LedgerCreate, LedgerDisplace, LedgerPublish, LedgerQuiet
  <1>2. CASE pc[p] \notin Unreported
    <2>1. ~Prepare(p) /\ ~Stage(p) /\ ~Install(p)
      BY <1>2 DEF Prepare, Stage, Install, Begin, OpenQuarantine, OpenQuarantineFails, OpenParents,
           OpenParentsFails, Preflight, PreflightFails, ProbeOut, ProbeOutFails, ProbeBack,
           ProbeBackFails, StageCreate, StageCreateFails, StageWrite, StageWriteFails,
           IdentifyAbsent, Identify, IdentifyFails, Displace, DisplaceFails, Publish,
           PublishFails, At, Unreported, EntryPhases
    <2>2. QED
      BY <1>2, <2>1
         DEF Step, Finish, Abort, ClaimFile, ClaimFileFails, Discard, Restore, PutBack, Strand,
             RemoveQuarantine, SyncDirectories, Crash, At, Goto, Unreported, EntryPhases,
             SafeInv, TypeInv, ControlType
  <1>3. QED
    BY <1>1, <1>2

-----------------------------------------------------------------------------
(* The phases.                                                             *)

(* Once the run has failed or has published everything, the phases that    *)
(* lead there are over.                                                    *)
LEMMA PhaseOver ==
  ASSUME NEW p, pc'[p] \in {"abort", "cleanup", "settle", "sync", "done", "crashed"}
  PROVE  PhaseAt(p)'
  BY DEF PhaseAt, Unreported, EntryPhases, At

(* A target at its turn is as it was, unless it has been displaced.        *)
LEMMA TargetAtTurn ==
  ASSUME SafeInv, NEW p \in Processes, LedgerAt(p), PhaseAt(p),
         pc[p] \in {"preflight", "identify", "displace"}
  PROVE  at[p] \in Entries /\ at[p] \notin backed[p] /\ Untouched(at[p])
  <1>1. at[p] \in Entries /\ PlacedAt(p, at[p])
    BY DEF SafeInv, TypeInv, ControlType, LedgerAt, Unreported, EntryPhases
  <1>2. at[p] \notin published[p]
    BY DEF SafeInv, ProgressOK, Unreported, EntryPhases
  <1>3. at[p] \notin backed[p]
    BY <1>1, SizeAssumption DEF PhaseAt, Unreported, EntryPhases, Entries
  <1>4. QED
    BY <1>1, <1>2, <1>3 DEF PlacedAt

LEMMA PhasePrepare ==
  ASSUME SafeInv, NEW p \in Processes, LedgerAt(p), PhaseAt(p), Prepare(p)
  PROVE  PhaseAt(p)'
  <1> USE DEF At, Unreported, EntryPhases
  <1>0. /\ TypeInv /\ existed \subseteq Entries /\ DOMAIN pc = Processes
        /\ at \in [Processes -> 0 .. N]
        /\ pc[p] \in EntryPhases => at[p] \in Entries
    BY DEF SafeInv, TypeInv, ControlType, EnvironmentType
  <1>1. CASE Begin(p)
    <2>1. pc'[p] \in {"open", "done"} /\ UNCHANGED <<temp, original, backed>>
      BY <1>0, <1>1 DEF Begin, ledger, Goto
    <2>2. pc[p] = "idle"
      BY <1>1 DEF Begin
    <2>3. QED
      BY <2>1, <2>2 DEF PhaseAt
  <1>2. CASE OpenQuarantine(p)
    <2>1. pc'[p] = "parents" /\ UNCHANGED <<temp, original, backed>>
      BY <1>0, <1>2 DEF OpenQuarantine, ledger, Goto
    <2>2. pc[p] = "open"
      BY <1>2 DEF OpenQuarantine
    <2>3. QED
      BY <2>1, <2>2 DEF PhaseAt
  <1>3. CASE OpenParents(p)
    <2>1. pc'[p] = "preflight" /\ at'[p] = 1 /\ UNCHANGED backed
      BY <1>0, <1>3 DEF OpenParents, ledger, Goto
    <2>2. pc[p] = "parents" /\ 1 .. (1 - 1) = {}
      BY <1>3 DEF OpenParents
    <2>3. QED
      BY <2>1, <2>2 DEF PhaseAt
  <1>4. CASE Preflight(p)
    <2>1. /\ pc[p] = "preflight" /\ UNCHANGED <<existed, backed>>
          /\ had' = [had EXCEPT ![p] = IF Free(Target(at[p])) THEN @ ELSE @ \cup {at[p]}]
          /\ Advance(p, "preflight", "probe")
      BY <1>4 DEF Preflight, env
    <2>2. backed[p] = {} /\ existed \cap (1 .. at[p] - 1) \subseteq had[p]
      BY <2>1 DEF PhaseAt
    <2>3. at[p] \in existed => ~Free(Target(at[p]))
      BY <2>1, TargetAtTurn DEF Untouched, OriginalAt
    <2>4. existed \cap (1 .. at[p]) \subseteq had'[p]
      <3> SUFFICES ASSUME NEW d \in existed, d \in 1 .. at[p] PROVE d \in had'[p]
        OBVIOUS
      <3>1. at[p] \in Int /\ (d = at[p] \/ d \in 1 .. at[p] - 1)
        BY <1>0, SizeAssumption
      <3>2. had'[p] = IF Free(Target(at[p])) THEN had[p] ELSE had[p] \cup {at[p]}
        BY <1>0, <2>1 DEF TypeInv, LedgerType
      <3>3. QED
        BY <2>2, <2>3, <3>1, <3>2
    <2>5. CASE at[p] = N
      <3>1. pc'[p] = "probe"
        BY <1>0, <2>1, <2>5 DEF Advance, Goto
      <3>2. QED
        BY <1>0, <2>1, <2>2, <2>4, <2>5, <3>1 DEF PhaseAt, Entries
    <2>6. CASE at[p] # N
      <3>1. pc'[p] = "preflight" /\ at'[p] = at[p] + 1
        BY <1>0, <2>1, <2>6 DEF Advance, Goto
      <3>2. at'[p] - 1 = at[p]
        BY <1>0, <3>1, SizeAssumption
      <3>3. QED
        BY <2>1, <2>2, <2>4, <3>1, <3>2 DEF PhaseAt
    <2>7. QED
      BY <2>5, <2>6
  <1>5. CASE ProbeOut(p)
    <2>1. pc'[p] = "probing" /\ UNCHANGED <<existed, had, backed>>
      BY <1>0, <1>5 DEF ProbeOut, ledger, env, Goto
    <2>2. pc[p] = "probe"
      BY <1>5 DEF ProbeOut
    <2>3. QED
      BY <2>1, <2>2 DEF PhaseAt
  <1>6. CASE ProbeBack(p)
    <2>1. /\ UNCHANGED <<existed, had, backed>>
          /\ pc'[p] = "probe" \/ (pc'[p] = "stage" /\ at'[p] = 1)
      BY <1>0, <1>6 DEF ProbeBack, ledger, env, Goto, Advance
    <2>2. pc[p] = "probing" /\ 1 .. (1 - 1) = {}
      BY <1>6 DEF ProbeBack
    <2>3. QED
      BY <2>1, <2>2 DEF PhaseAt, StagedUpTo
  <1>7. CASE pc'[p] \in {"abort", "done"}
    BY <1>7, PhaseOver
  <1>8. QED
    BY <1>0, <1>1, <1>2, <1>3, <1>4, <1>5, <1>6, <1>7
       DEF Prepare, OpenQuarantineFails, OpenParentsFails, PreflightFails, ProbeOutFails,
           ProbeBackFails, Fail, Goto

LEMMA PhaseStage ==
  ASSUME SafeInv, NEW p \in Processes, LedgerAt(p), PhaseAt(p), Stage(p)
  PROVE  PhaseAt(p)'
  <1> USE DEF At, Unreported, EntryPhases
  <1>0. /\ TypeInv /\ existed \subseteq Entries /\ DOMAIN pc = Processes
        /\ at \in [Processes -> 0 .. N]
        /\ pc[p] \in EntryPhases => at[p] \in Entries
    BY DEF SafeInv, TypeInv, ControlType, EnvironmentType
  <1>1. CASE StageCreate(p)
    <2>1. /\ pc[p] = "stage" /\ pc'[p] = "write" /\ UNCHANGED <<existed, had, known, backed, at>>
          /\ at[p] \in Entries
      BY <1>0, <1>1 DEF StageCreate, ledger, env, Goto
    <2>2. PICK i \in Allocatable :
            /\ file' = [file EXCEPT ![i] = File("partial", p, at[p])]
            /\ temp' = [temp EXCEPT ![p][at[p]] = i]
      BY <1>1 DEF StageCreate
    <2>3. i \in Inodes /\ i # NoInode /\ \A d \in Entries : temp[p][d] # i
      <3>1. Live(p)
        BY <2>1 DEF Live
      <3>2. QED
        BY <2>2, <3>1, HeldIsKept, NameAssumption DEF Allocatable
    <2>4. \A d \in Entries : temp'[p][d] = IF d = at[p] THEN i ELSE temp[p][d]
      BY <1>0, <2>1, <2>2 DEF TypeInv, LedgerType
    <2>5. \A d \in 1 .. at[p] - 1 : d \in known[p] /\ file[temp[p][d]] = File("staged", p, d)
      BY <2>1 DEF PhaseAt, StagedUpTo
    <2>6. ASSUME NEW d \in 1 .. at[p] - 1
          PROVE  d \in known'[p] /\ file'[temp'[p][d]] = File("staged", p, d)
      <3>1. d \in Entries /\ d # at[p]
        BY <1>0, <2>1, SizeAssumption DEF Entries
      <3>2. temp'[p][d] = temp[p][d] /\ temp[p][d] # i
        BY <2>3, <2>4, <3>1
      <3>3. temp[p][d] \in Inodes
        <4>1. PlacedAt(p, d) /\ d \notin published[p]
          BY <2>1, <3>1 DEF LedgerAt, SafeInv, ProgressOK
        <4>2. QED
          BY <1>0, <2>5, <3>1, <4>1 DEF PlacedAt, TypeInv, LedgerType
      <3>4. QED
        BY <1>0, <2>1, <2>2, <2>5, <3>2, <3>3 DEF TypeInv, FileSystemType
    <2>7. ASSUME NEW d \in known[p] \ {at[p]} PROVE temp'[p][d] # i
      BY <1>0, <2>3, <2>4 DEF TypeInv, LedgerType
    <2>8. temp'[p][at[p]] = i /\ backed[p] = {} /\ existed \subseteq had[p]
      BY <2>1, <2>4 DEF PhaseAt
    <2>9. QED
      BY <2>1, <2>3, <2>6, <2>7, <2>8 DEF PhaseAt, StagedUpTo
  <1>2. CASE StageWrite(p)
    <2>1. /\ pc[p] = "write" /\ UNCHANGED <<existed, had, temp, backed>>
          /\ known' = [known EXCEPT ![p] = @ \cup {at[p]}]
          /\ file' = [file EXCEPT ![temp[p][at[p]]] = File("staged", p, at[p])]
          /\ Advance(p, "stage", "identify") /\ at[p] \in Entries
      BY <1>0, <1>2 DEF StageWrite, env
    <2>2. /\ temp[p][at[p]] \in Inodes /\ at[p] \in Nat
          /\ \A d \in known[p] \ {at[p]} : temp[p][d] # temp[p][at[p]]
          /\ StagedUpTo(p, at[p] - 1) /\ backed[p] = {} /\ existed \subseteq had[p]
      BY <1>0, <2>1 DEF PhaseAt, TypeInv, LedgerType
    <2>3. known'[p] = known[p] \cup {at[p]}
      BY <1>0, <2>1 DEF TypeInv, LedgerType
    <2>4. ASSUME NEW d \in 1 .. at[p]
          PROVE  d \in known'[p] /\ file'[temp'[p][d]] = File("staged", p, d)
      <3>1. CASE d = at[p]
        BY <1>0, <2>1, <2>2, <2>3, <3>1 DEF TypeInv, FileSystemType
      <3>2. CASE d # at[p]
        <4>1. d \in 1 .. at[p] - 1
          BY <2>2, <3>2
        <4>2. d \in known[p] /\ file[temp[p][d]] = File("staged", p, d)
          BY <2>2, <4>1 DEF StagedUpTo
        <4>3. temp[p][d] # temp[p][at[p]]
          BY <2>2, <3>2, <4>2
        <4>4. temp[p][d] \in Inodes
          <5>1. d \in Entries
            BY <1>0, <4>2 DEF TypeInv, LedgerType
          <5>2. PlacedAt(p, d) /\ d \notin published[p]
            BY <2>1, <5>1 DEF LedgerAt, SafeInv, ProgressOK
          <5>3. QED
            BY <1>0, <4>2, <5>1, <5>2 DEF PlacedAt, TypeInv, LedgerType
        <4>5. QED
          BY <1>0, <2>1, <2>3, <4>2, <4>3, <4>4 DEF TypeInv, FileSystemType
      <3>3. QED
        BY <3>1, <3>2
    <2>5. CASE at[p] = N
      <3>1. pc'[p] = "identify" /\ at'[p] = 1
        BY <1>0, <2>1, <2>5 DEF Advance, Goto
      <3>2. 1 .. (1 - 1) = {}
        OBVIOUS
      <3>3. QED
        BY <2>1, <2>2, <2>4, <2>5, <3>1, <3>2 DEF PhaseAt, StagedUpTo
    <2>6. CASE at[p] # N
      <3>1. pc'[p] = "stage" /\ at'[p] = at[p] + 1
        BY <1>0, <2>1, <2>6 DEF Advance, Goto
      <3>2. at'[p] - 1 = at[p]
        BY <2>2, <3>1
      <3>3. QED
        BY <2>1, <2>2, <2>4, <3>1, <3>2 DEF PhaseAt, StagedUpTo
    <2>7. QED
      BY <2>5, <2>6
  <1>3. CASE pc'[p] = "abort"
    BY <1>3, PhaseOver
  <1>4. QED
    BY <1>0, <1>1, <1>2, <1>3 DEF Stage, StageCreateFails, StageWriteFails, Fail, Goto

LEMMA PhaseInstall ==
  ASSUME SafeInv, NEW p \in Processes, LedgerAt(p), PhaseAt(p), Install(p)
  PROVE  PhaseAt(p)'
  <1> USE DEF At, Unreported, EntryPhases
  <1>0. /\ TypeInv /\ existed \subseteq Entries /\ DOMAIN pc = Processes
        /\ at \in [Processes -> 0 .. N]
        /\ pc[p] \in EntryPhases => at[p] \in Entries
    BY DEF SafeInv, TypeInv, ControlType, EnvironmentType
  <1>1. UNCHANGED <<file, temp, known, had, existed>>
    BY DEF Install, IdentifyAbsent, Identify, IdentifyFails, Displace, DisplaceFails, Publish,
           PublishFails, fs, ledger, env
  <1>2. StagedUpTo(p, N) /\ (pc[p] \in {"identify", "displace"} => existed \subseteq had[p])
    BY DEF Install, IdentifyAbsent, Identify, IdentifyFails, Displace, DisplaceFails, Publish,
           PublishFails, PhaseAt
  <1>3. StagedUpTo(p, N)' /\ (existed \subseteq had[p] => existed' \subseteq had'[p])
    BY <1>1, <1>2 DEF StagedUpTo
  (* The turn of an entry that is now displaced, or never existed. *)
  <1>4. ASSUME pc[p] \in {"identify", "displace"}, Advance(p, "identify", "publish"),
               backed'[p] = backed[p] \/ backed'[p] = backed[p] \cup {at[p]},
               at[p] \in existed => at[p] \in backed'[p]
        PROVE  PhaseAt(p)'
    <2>1. /\ at[p] \in Entries /\ at[p] \in Nat
          /\ backed[p] \subseteq 1 .. at[p] - 1
          /\ existed \cap (1 .. at[p] - 1) \subseteq backed[p]
      BY <1>0, <1>4 DEF PhaseAt, Entries
    <2>2. backed'[p] \subseteq 1 .. at[p] /\ existed \cap (1 .. at[p]) \subseteq backed'[p]
      <3>1. 1 .. at[p] = (1 .. at[p] - 1) \cup {at[p]}
        BY <2>1 DEF Entries
      <3>2. QED
        BY <1>4, <2>1, <3>1
    <2>3. CASE at[p] = N
      <3>1. pc'[p] = "publish"
        BY <1>0, <1>4, <2>3 DEF Advance, Goto
      <3>2. existed \subseteq backed'[p]
        BY <1>0, <2>2, <2>3 DEF Entries
      <3>3. QED
        BY <1>1, <1>3, <3>1, <3>2 DEF PhaseAt
    <2>4. CASE at[p] # N
      <3>1. pc'[p] = "identify" /\ at'[p] = at[p] + 1
        BY <1>0, <1>4, <2>4 DEF Advance, Goto
      <3>2. at'[p] - 1 = at[p]
        BY <2>1, <3>1
      <3>3. QED
        BY <1>1, <1>2, <1>3, <1>4, <2>2, <3>1, <3>2 DEF PhaseAt
    <2>5. QED
      BY <2>3, <2>4
  <1>5. CASE IdentifyAbsent(p)
    <2>1. pc[p] = "identify" /\ at[p] \notin had[p] /\ Advance(p, "identify", "publish")
      BY <1>5 DEF IdentifyAbsent
    <2>2. backed'[p] = backed[p] /\ at[p] \notin existed
      BY <1>2, <1>5, <2>1 DEF IdentifyAbsent, ledger
    <2>3. QED
      BY <1>4, <2>1, <2>2
  <1>6. CASE Identify(p)
    <2>1. /\ pc[p] = "identify" /\ pc'[p] = "displace" /\ UNCHANGED <<link, at, backed>>
          /\ original' = [original EXCEPT ![p][at[p]] = link[Target(at[p])]]
          /\ ~Free(Target(at[p]))
      BY <1>0, <1>6 DEF Identify, Goto, fs
    <2>2. at[p] \in Entries /\ at[p] \in existed
      BY <2>1, TargetAtTurn DEF Untouched
    <2>3. original'[p][at[p]] = link[Target(at[p])]
      BY <1>0, <2>1, <2>2 DEF TypeInv, LedgerType
    <2>4. /\ backed[p] \subseteq 1 .. at[p] - 1
          /\ existed \cap (1 .. at[p] - 1) \subseteq backed[p]
      BY <2>1 DEF PhaseAt
    <2>5. QED
      BY <1>1, <1>2, <1>3, <2>1, <2>2, <2>3, <2>4 DEF PhaseAt
  <1>7. CASE Displace(p)
    <2>1. pc[p] = "displace" /\ backed'[p] = backed[p] \cup {at[p]}
      BY <1>0, <1>7 DEF Displace, TypeInv, LedgerType
    <2>2. Advance(p, "identify", "publish") \/ Fail(p)
      BY <1>7 DEF Displace
    <2>3. CASE Fail(p)
      BY <1>0, <2>3, PhaseOver DEF Fail, Goto
    <2>4. QED
      BY <1>4, <2>1, <2>2, <2>3
  <1>8. CASE Publish(p)
    <2>1. pc[p] = "publish" /\ UNCHANGED backed /\ pc'[p] \in {"publish", "cleanup"}
      BY <1>0, <1>8 DEF Publish, Advance, Goto
    <2>2. existed \subseteq backed[p]
      BY <2>1 DEF PhaseAt
    <2>3. QED
      BY <1>1, <1>3, <2>1, <2>2, PhaseOver DEF PhaseAt
  <1>9. CASE IdentifyFails(p) \/ DisplaceFails(p) \/ PublishFails(p)
    BY <1>0, <1>9, PhaseOver DEF IdentifyFails, DisplaceFails, PublishFails, Fail, Goto
  <1>10. QED
    BY <1>5, <1>6, <1>7, <1>8, <1>9 DEF Install

LEMMA PhaseKept ==
  ASSUME SafeInv, NEW p \in Processes, LedgerAt(p), PhaseAt(p), Step(p) \/ Crash(p)
  PROVE  PhaseAt(p)'
  <1>1. CASE Finish(p) \/ Crash(p)
    <2>1. pc'[p] \in {"cleanup", "settle", "sync", "done", "crashed"}
      BY <1>1 DEF Finish, Abort, ClaimFile, ClaimFileFails, Discard, Restore, PutBack, Strand,
                  RemoveQuarantine, SyncDirectories, Crash, At, Goto, SafeInv, TypeInv, ControlType
    <2>2. QED
      BY <2>1, PhaseOver
  <1>2. QED
    BY <1>1, PhasePrepare, PhaseStage, PhaseInstall DEF Step

-----------------------------------------------------------------------------
(* Descriptors.                                                            *)

(* A register that has one more entry.                                     *)
LEMMA RegisterGrows ==
  ASSUME NEW f, NEW g, NEW e \in Entries, \A d \in Entries \ {e} : g[d] = f[d]
  PROVE  LET S == {d \in Entries : f[d] # NoInode}
             T == {d \in Entries : g[d] # NoInode}
         IN  /\ Cardinality(S) \in Nat /\ Cardinality(T) \in Nat
             /\ Cardinality(T) <= Cardinality(S) + 1
  <1> DEFINE S == {d \in Entries : f[d] # NoInode}
             T == {d \in Entries : g[d] # NoInode}
  <1>1. IsFiniteSet(Entries)
    BY SizeAssumption, FS_Interval DEF Entries
  <1>2. S \in SUBSET Entries /\ T \in SUBSET Entries /\ T \in SUBSET (S \cup {e})
    OBVIOUS
  <1> HIDE DEF S, T
  <1>3. IsFiniteSet(S) /\ IsFiniteSet(T)
    BY <1>1, <1>2, FS_Subset
  <1>4. Cardinality(S) \in Nat /\ Cardinality(T) \in Nat
    BY <1>3, FS_CardinalityType
  <1>5. /\ IsFiniteSet(S \cup {e})
        /\ Cardinality(S \cup {e}) = IF e \in S THEN Cardinality(S) ELSE Cardinality(S) + 1
    BY <1>3, FS_AddElement
  <1>6. Cardinality(T) <= Cardinality(S \cup {e})
    BY <1>2, <1>5, FS_Subset
  <1>7. Cardinality(T) <= Cardinality(S) + 1
    BY <1>4, <1>5, <1>6
  <1>8. QED
    BY <1>4, <1>7 DEF S, T

(* The two registers of a run, counted.                                    *)
Holding(p) ==
  Cardinality({e \in Entries : temp[p][e] # NoInode})
    + Cardinality({e \in Entries : original[p][e] # NoInode})

LEMMA HoldingType ==
  ASSUME NEW p \in Processes, pinned[p] \in Nat
  PROVE  Holding(p) \in Nat /\ Used(p) = pinned[p] + Holding(p)
  <1>1. 1 \in Entries
    BY SizeAssumption DEF Entries
  <1>2. /\ Cardinality({e \in Entries : temp[p][e] # NoInode}) \in Nat
        /\ Cardinality({e \in Entries : original[p][e] # NoInode}) \in Nat
    BY <1>1, RegisterGrows
  <1>3. QED
    BY <1>2 DEF Used, Holding

LEMMA HoldingNothing ==
  ASSUME NEW p \in Processes,
         \A e \in Entries : temp[p][e] = NoInode /\ original[p][e] = NoInode
  PROVE  Holding(p) = 0
  <1>1. /\ {e \in Entries : temp[p][e] # NoInode} = {}
        /\ {e \in Entries : original[p][e] # NoInode} = {}
    OBVIOUS
  <1>2. QED
    BY <1>1, FS_EmptySet DEF Holding

(* Only the creation of a staged file and the identification of a target   *)
(* keep one more descriptor.                                               *)
LEMMA HoldingStep ==
  ASSUME TypeInv, NEW p \in Processes, Step(p) \/ Crash(p)
  PROVE  \/ Holding(p)' = Holding(p)
         \/ /\ Holding(p)' <= Holding(p) + 1 /\ Holding(p) \in Nat
            /\ pc[p] \in EntryPhases /\ Used(p) < capacity /\ pinned'[p] = pinned[p]
            /\ pc'[p] \in EntryPhases /\ Holding(p)' \in Nat
  <1>1. CASE UNCHANGED <<temp, original>>
    BY <1>1 DEF Holding
  <1>2. CASE StageCreate(p)
    <2>1. /\ at[p] \in Entries /\ pc[p] = "stage" /\ pc'[p] = "write" /\ CanOpen(p)
          /\ UNCHANGED <<original, pinned>>
      BY <1>2 DEF StageCreate, TypeInv, ControlType, At, EntryPhases, Goto
    <2>2. \A d \in Entries \ {at[p]} : temp'[p][d] = temp[p][d]
      BY <1>2 DEF StageCreate, TypeInv, LedgerType
    <2>3. /\ Cardinality({d \in Entries : temp[p][d] # NoInode}) \in Nat
          /\ Cardinality({d \in Entries : temp'[p][d] # NoInode}) \in Nat
          /\ Cardinality({d \in Entries : temp'[p][d] # NoInode})
               <= Cardinality({d \in Entries : temp[p][d] # NoInode}) + 1
      BY <2>1, <2>2, RegisterGrows
    <2>4. Cardinality({d \in Entries : original[p][d] # NoInode}) \in Nat
      BY <2>1, RegisterGrows
    <2>5. QED
      BY <2>1, <2>3, <2>4 DEF Holding, EntryPhases, CanOpen
  <1>3. CASE Identify(p)
    <2>1. /\ at[p] \in Entries /\ pc[p] = "identify" /\ pc'[p] = "displace" /\ CanOpen(p)
          /\ UNCHANGED <<temp, pinned>>
      BY <1>3 DEF Identify, TypeInv, ControlType, At, EntryPhases, Goto
    <2>2. \A d \in Entries \ {at[p]} : original'[p][d] = original[p][d]
      BY <1>3 DEF Identify, TypeInv, LedgerType
    <2>3. /\ Cardinality({d \in Entries : original[p][d] # NoInode}) \in Nat
          /\ Cardinality({d \in Entries : original'[p][d] # NoInode}) \in Nat
          /\ Cardinality({d \in Entries : original'[p][d] # NoInode})
               <= Cardinality({d \in Entries : original[p][d] # NoInode}) + 1
      BY <2>1, <2>2, RegisterGrows
    <2>4. Cardinality({d \in Entries : temp[p][d] # NoInode}) \in Nat
      BY <2>1, RegisterGrows
    <2>5. QED
      BY <2>1, <2>3, <2>4 DEF Holding, EntryPhases, CanOpen
  <1>4. QED
    BY <1>1, <1>2, <1>3
       DEF Step, Prepare, Stage, Install, Finish, ledger,
           Begin, OpenQuarantine, OpenQuarantineFails, OpenParents, OpenParentsFails,
           Preflight, PreflightFails, ProbeOut,
           ProbeOutFails, ProbeBack, ProbeBackFails, StageCreateFails, StageWrite,
           StageWriteFails, IdentifyAbsent, IdentifyFails, Displace, DisplaceFails,
           Publish, PublishFails, Abort, ClaimFile, ClaimFileFails, Discard, Restore, PutBack,
           Strand, RemoveQuarantine, SyncDirectories, Crash

(* How a step changes the descriptors that are pinned, and the phase.      *)
LEMMA PinnedStep ==
  ASSUME TypeInv, NEW p \in Processes, Step(p) \/ Crash(p)
  PROVE  /\ capacity' = capacity /\ pinned'[p] \in Nat
         /\ \/ pc'[p] \in {"done", "crashed"} \/ (pc[p] = "cleanup" /\ pc'[p] = "sync")
            \/ pc[p] = "idle" /\ pc'[p] = "open" /\ 3 <= capacity
            \/ pc[p] = "open" /\ pc'[p] = "parents" /\ pinned'[p] = 7 /\ 7 <= capacity
            \/ pc[p] = "open" /\ pc'[p] = "abort" /\ pinned'[p] = 2
            \/ pc[p] = "parents" /\ pc'[p] = "preflight" /\ pinned[p] + N <= capacity
                 /\ pinned'[p] = pinned[p] + N
            \/ pc[p] \in EntryPhases \cup {"parents"} /\ pc'[p] \in EntryPhases \cup {"abort"}
                 /\ pinned'[p] = pinned[p]
            \/ pc[p] \in {"publish", "abort"} /\ pc'[p] = "cleanup"
                 /\ pinned'[p] = IF pinned[p] >= 7 THEN pinned[p] - 4 ELSE pinned[p]
            \/ pc[p] \in {"cleanup", "settle"} /\ pc'[p] \in {"cleanup", "settle"}
                 /\ pinned'[p] = pinned[p]
  <1> USE DEF At, Goto, RootDescriptors, QuarantineDescriptors, ReservedDescriptors,
              PinnedDescriptors
  <1>1. /\ DOMAIN pc = Processes /\ pinned \in [Processes -> Nat]
        /\ capacity' = capacity /\ pinned'[p] \in Nat
    BY TypeStep, ReportStep, PublishedGrows DEF TypeInv, ControlType, ReportType, Next,
       Step, Prepare, Stage, Install, Finish, env,
       Begin, OpenQuarantine, OpenQuarantineFails, OpenParents, OpenParentsFails,
       Preflight, PreflightFails, ProbeOut,
       ProbeOutFails, ProbeBack, ProbeBackFails, StageCreate, StageCreateFails, StageWrite,
       StageWriteFails, IdentifyAbsent, Identify, IdentifyFails, Displace, DisplaceFails,
       Publish, PublishFails, Abort, ClaimFile, ClaimFileFails, Discard, Restore, PutBack, Strand,
       RemoveQuarantine, SyncDirectories, Crash
  <1>2. CASE Begin(p)
    BY <1>1, <1>2 DEF Begin
  <1>3. CASE OpenQuarantine(p)
    BY <1>1, <1>3 DEF OpenQuarantine
  <1>4. CASE OpenQuarantineFails(p)
    BY <1>1, <1>4 DEF OpenQuarantineFails
  <1>5. CASE OpenParents(p)
    BY <1>1, <1>5 DEF OpenParents
  <1>6. CASE OpenParentsFails(p)
    BY <1>1, <1>6 DEF OpenParentsFails, Fail
  <1>7. CASE Preflight(p) \/ PreflightFails(p)
    BY <1>1, <1>7 DEF Preflight, PreflightFails, Advance, Fail, EntryPhases
  <1>8. CASE ProbeOut(p) \/ ProbeOutFails(p) \/ ProbeBack(p) \/ ProbeBackFails(p)
    BY <1>1, <1>8
       DEF ProbeOut, ProbeOutFails, ProbeBack, ProbeBackFails, Advance, Fail, EntryPhases
  <1>9. CASE Stage(p)
    BY <1>1, <1>9 DEF Stage, StageCreate, StageCreateFails, StageWrite, StageWriteFails,
       Advance, Fail, EntryPhases
  <1>10. CASE IdentifyAbsent(p) \/ Identify(p) \/ IdentifyFails(p) \/ DisplaceFails(p)
    BY <1>1, <1>10 DEF IdentifyAbsent, Identify, IdentifyFails, DisplaceFails, Advance, Fail,
       EntryPhases
  <1>11. CASE Displace(p) \/ PublishFails(p)
    BY <1>1, <1>11 DEF Displace, PublishFails, Advance, Fail, EntryPhases
  <1>12. CASE Publish(p)
    BY <1>1, <1>12 DEF Publish, Advance, EntryPhases, ReleaseReserve
  <1>13. CASE Abort(p)
    BY <1>1, <1>13 DEF Abort, ReleaseReserve
  <1>14. CASE ClaimFile(p) \/ ClaimFileFails(p)
    BY <1>1, <1>14 DEF ClaimFile, ClaimFileFails
  <1>15. CASE Discard(p) \/ Restore(p) \/ PutBack(p) \/ Strand(p)
    BY <1>1, <1>15 DEF Discard, Restore, PutBack, Strand
  <1>16. CASE RemoveQuarantine(p) \/ SyncDirectories(p) \/ Crash(p)
    BY <1>1, <1>16 DEF RemoveQuarantine, SyncDirectories, Crash
  <1>17. QED
    BY <1>1, <1>2, <1>3, <1>4, <1>5, <1>6, <1>7, <1>8, <1>9, <1>10, <1>11, <1>12, <1>13,
       <1>14, <1>15, <1>16 DEF Step, Prepare, Install, Finish

LEMMA BudgetKept ==
  ASSUME TypeInv, NEW p \in Processes, PhaseAt(p), BudgetAt(p), Step(p) \/ Crash(p)
  PROVE  BudgetAt(p)'
  <1> USE DEF At, RootDescriptors, QuarantineDescriptors, ReservedDescriptors,
              PinnedDescriptors, EntryPhases
  <1>1. /\ capacity \in Nat /\ capacity' = capacity
        /\ pinned[p] \in Nat /\ pinned'[p] \in Nat /\ N \in Nat
    BY PinnedStep, BoundAssumption, SizeAssumption DEF TypeInv, ReportType, EnvironmentType
  <1>2. Holding(p) \in Nat /\ Used(p) = pinned[p] + Holding(p)
    BY <1>1, HoldingType
  <1>3. Used(p)' = pinned'[p] + Holding(p)' /\ Holding(p)' \in Nat
    <2>1. /\ Cardinality({e \in Entries : temp'[p][e] # NoInode}) \in Nat
          /\ Cardinality({e \in Entries : original'[p][e] # NoInode}) \in Nat
      <3>1. 1 \in Entries
        BY SizeAssumption DEF Entries
      <3>2. QED
        BY <3>1, RegisterGrows
    <2>2. QED
      BY <1>1, <2>1 DEF Used, Holding
  <1>4. pc[p] # "idle" /\ pc'[p] \notin {"done", "crashed"} => 3 <= capacity
    <2>1. Live(p) \/ pc[p] = "idle"
      BY PhaseStep DEF Begin
    <2>2. QED
      BY <2>1 DEF BudgetAt
  <1>5. pc[p] \in {"idle", "open", "parents"} => Holding(p) = 0
    BY HoldingNothing DEF PhaseAt
  <1>6. /\ pc[p] \in EntryPhases \cup {"parents"} => pinned[p] >= 7 /\ Used(p) <= capacity
        /\ pc[p] = "abort" => IF pinned[p] >= 7 THEN Used(p) <= capacity ELSE Used(p) < capacity
        /\ pc[p] \in {"cleanup", "settle"} => Used(p) < capacity
    BY DEF BudgetAt, CanOpen
  <1>7. \/ Holding(p)' = Holding(p)
        \/ /\ Holding(p)' <= Holding(p) + 1 /\ Used(p) < capacity /\ pinned'[p] = pinned[p]
           /\ pc[p] \in EntryPhases /\ pc'[p] \in EntryPhases
    BY HoldingStep
  <1>8. /\ pc'[p] \notin {"idle", "done", "crashed"} => 3 <= capacity
        /\ pc'[p] \in EntryPhases \cup {"parents"} => pinned'[p] >= 7 /\ Used(p)' <= capacity
        /\ pc'[p] = "abort" =>
             IF pinned'[p] >= 7 THEN Used(p)' <= capacity ELSE Used(p)' < capacity
        /\ pc'[p] \in {"cleanup", "settle"} => Used(p)' < capacity
    <2>1. pc'[p] # "idle"
      BY PhaseStep
    <2>2. CASE pc'[p] \in {"done", "crashed"} \/ (pc[p] = "cleanup" /\ pc'[p] = "sync")
      BY <1>4, <2>1, <2>2
    <2>3. CASE pc[p] = "idle" /\ pc'[p] = "open" /\ 3 <= capacity
      BY <2>3
    <2>4. CASE pc[p] = "open" /\ pc'[p] = "parents" /\ pinned'[p] = 7 /\ 7 <= capacity
      BY <1>1, <1>2, <1>3, <1>4, <1>5, <1>7, <2>4
    <2>5. CASE pc[p] = "open" /\ pc'[p] = "abort" /\ pinned'[p] = 2
      BY <1>1, <1>2, <1>3, <1>4, <1>5, <1>7, <2>5
    <2>6. CASE pc[p] = "parents" /\ pc'[p] = "preflight" /\ pinned[p] + N <= capacity
                 /\ pinned'[p] = pinned[p] + N
      BY <1>1, <1>2, <1>3, <1>4, <1>5, <1>6, <1>7, <2>6
    <2>7. CASE pc[p] \in EntryPhases \cup {"parents"} /\ pc'[p] \in EntryPhases \cup {"abort"}
                 /\ pinned'[p] = pinned[p]
      BY <1>1, <1>2, <1>3, <1>4, <1>6, <1>7, <2>7
    <2>8. CASE pc[p] \in {"publish", "abort"} /\ pc'[p] = "cleanup"
                 /\ pinned'[p] = IF pinned[p] >= 7 THEN pinned[p] - 4 ELSE pinned[p]
      BY <1>1, <1>2, <1>3, <1>4, <1>6, <1>7, <2>8
    <2>9. CASE pc[p] \in {"cleanup", "settle"} /\ pc'[p] \in {"cleanup", "settle"}
                 /\ pinned'[p] = pinned[p]
      BY <1>1, <1>2, <1>3, <1>4, <1>6, <1>7, <2>9
    <2>10. QED
      BY <2>2, <2>3, <2>4, <2>5, <2>6, <2>7, <2>8, <2>9, PinnedStep
  <1>9. QED
    BY <1>1, <1>8 DEF BudgetAt, CanOpen, Live

-----------------------------------------------------------------------------
(* Rollback and cleanup.                                                   *)

(* What the steps of rollback and cleanup do with the task they are at.    *)
Dropping(p, t) == todo'[p] = todo[p] \ {t}
Claims(p, t) ==
  /\ At(p, "cleanup") /\ pc'[p] = "settle" /\ CanMove(Source(p, t), ClaimOf(p, t))
  /\ link' = Move(Source(p, t), ClaimOf(p, t))
  /\ todo'[p] = todo[p] /\ clean'[p] = clean[p] /\ faults' = faults
Preserves(p, t) ==
  /\ At(p, "cleanup") /\ pc'[p] = "cleanup" /\ CanMove(Source(p, t), ClaimOf(p, t))
  /\ t.kind = "preserve"
  /\ link' = Move(Source(p, t), ClaimOf(p, t))
  /\ Dropping(p, t) /\ ~clean'[p]
Misses(p, t) ==
  /\ At(p, "cleanup") /\ pc'[p] = "cleanup" /\ link' = link
  /\ Dropping(p, t) /\ ~clean'[p]
  /\ faults' # faults \/ ~CanMove(Source(p, t), ClaimOf(p, t))
Discards(p, t) ==
  /\ At(p, "settle") /\ pc'[p] = "cleanup" /\ t.kind # "restore"
  /\ link' = Unlink(ClaimOf(p, t))
  /\ Dropping(p, t) /\ clean'[p] = clean[p] /\ faults' = faults
Restores(p, t) ==
  /\ At(p, "settle") /\ pc'[p] = "cleanup" /\ t.kind = "restore" /\ Free(Target(t.entry))
  /\ link' = Move(ClaimOf(p, t), Target(t.entry))
  /\ Dropping(p, t) /\ clean'[p] = clean[p] /\ faults' = faults
PutsBack(p, t) ==
  /\ At(p, "settle") /\ pc'[p] = "cleanup" /\ Free(Source(p, t))
  /\ link' = Move(ClaimOf(p, t), Source(p, t))
  /\ Dropping(p, t) /\ ~clean'[p]
  /\ faults' # faults \/ Unsettled(p, t)
Strands(p, t) ==
  /\ At(p, "settle") /\ pc'[p] = "cleanup" /\ link' = link
  /\ Dropping(p, t) /\ ~clean'[p]
  /\ faults' # faults \/ ~Free(Source(p, t))

TaskStep(p, t) ==
  \/ Claims(p, t) \/ Preserves(p, t) \/ Misses(p, t)
  \/ Discards(p, t) \/ Restores(p, t) \/ PutsBack(p, t) \/ Strands(p, t)

Settles(p) ==
  ClaimFile(p) \/ ClaimFileFails(p) \/ Discard(p) \/ Restore(p) \/ PutBack(p) \/ Strand(p)

LEMMA SettlesTask ==
  ASSUME TypeInv, NEW p \in Processes, TasksAt(p), Settles(p)
  PROVE  /\ \E t \in Tasks : First(p, t) /\ TaskStep(p, t)
         /\ pc[p] \in {"cleanup", "settle"}
         /\ UNCHANGED <<file, at, ledger, outcome, quarantine, pinned, capacity, existed, edits>>
  <1> USE DEF At, Goto, Dropping
  <1>1. /\ todo \in [Processes -> SUBSET Tasks] /\ clean \in [Processes -> BOOLEAN]
        /\ DOMAIN pc = Processes /\ faults \in Nat
    BY DEF TypeInv, ReportType, ControlType, EnvironmentType
  <1>2. \A t \in todo[p] : t \in Tasks
    BY <1>1
  <1>3. CASE ClaimFile(p)
    <2>1. PICK t \in todo[p] :
            /\ First(p, t) /\ CanMove(Source(p, t), ClaimOf(p, t))
            /\ link' = Move(Source(p, t), ClaimOf(p, t))
            /\ IF t.kind = "preserve" THEN Drop(p, t) /\ Blame(p) /\ UNCHANGED pc
               ELSE Goto(p, "settle") /\ UNCHANGED <<todo, clean>>
      BY <1>3 DEF ClaimFile
    <2>2. CASE t.kind = "preserve"
      <3>1. Preserves(p, t)
        BY <1>1, <1>3, <2>1, <2>2 DEF ClaimFile, Preserves, Drop, Blame
      <3>2. QED
        BY <1>2, <1>3, <2>1, <3>1 DEF ClaimFile, TaskStep, env
    <2>3. CASE t.kind # "preserve"
      <3>1. Claims(p, t)
        BY <1>1, <1>3, <2>1, <2>3 DEF ClaimFile, Claims, env
      <3>2. QED
        BY <1>2, <1>3, <2>1, <3>1 DEF ClaimFile, TaskStep, env
    <2>4. QED
      BY <2>2, <2>3
  <1>4. CASE ClaimFileFails(p)
    <2>1. PICK t \in todo[p] :
            /\ First(p, t) /\ Drop(p, t)
            /\ \/ Free(Source(p, t))
               \/ /\ Because(~CanMove(Source(p, t), ClaimOf(p, t))
                               /\ ~(Free(Source(p, t)) /\ MissingIsClean(t)))
                  /\ Blame(p)
      BY <1>4 DEF ClaimFileFails
    <2>2. ~Free(Source(p, t))
      BY <1>4, <2>1 DEF ClaimFileFails, TasksAt, TaskAt, Place, Settling, Free
    <2>3. faults' # faults \/ ~CanMove(Source(p, t), ClaimOf(p, t))
      BY <1>1, <2>1, <2>2 DEF Because, Charge
    <2>4. Misses(p, t)
      BY <1>1, <1>4, <2>1, <2>2, <2>3 DEF ClaimFileFails, Misses, Drop, Blame, fs
    <2>5. QED
      BY <1>2, <1>4, <2>1, <2>4 DEF ClaimFileFails, TaskStep, fs
  <1>5. CASE Discard(p)
    <2>1. PICK t \in todo[p] :
            /\ First(p, t) /\ t.kind # "restore"
            /\ link' = Unlink(ClaimOf(p, t)) /\ Drop(p, t)
      BY <1>5 DEF Discard
    <2>2. Discards(p, t)
      BY <1>1, <1>5, <2>1 DEF Discard, Discards, Drop, env
    <2>3. QED
      BY <1>2, <1>5, <2>1, <2>2 DEF Discard, TaskStep, env
  <1>6. CASE Restore(p)
    <2>1. PICK t \in todo[p] :
            /\ First(p, t) /\ t.kind = "restore" /\ Free(Target(t.entry))
            /\ link' = Move(ClaimOf(p, t), Target(t.entry)) /\ Drop(p, t)
      BY <1>6 DEF Restore
    <2>2. Restores(p, t)
      BY <1>1, <1>6, <2>1 DEF Restore, Restores, Drop, env
    <2>3. QED
      BY <1>2, <1>6, <2>1, <2>2 DEF Restore, TaskStep, env
  <1>7. CASE PutBack(p)
    <2>1. PICK t \in todo[p] :
            /\ First(p, t) /\ Because(Unsettled(p, t)) /\ Free(Source(p, t))
            /\ link' = Move(ClaimOf(p, t), Source(p, t)) /\ Drop(p, t)
      BY <1>7 DEF PutBack
    <2>2. faults' # faults \/ Unsettled(p, t)
      BY <1>1, <2>1 DEF Because, Charge
    <2>3. PutsBack(p, t)
      BY <1>1, <1>7, <2>1, <2>2 DEF PutBack, PutsBack, Drop, Blame
    <2>4. QED
      BY <1>2, <1>7, <2>1, <2>3 DEF PutBack, TaskStep
  <1>8. CASE Strand(p)
    <2>1. PICK t \in todo[p] :
            /\ First(p, t) /\ Drop(p, t)
            /\ \/ Verified(p, t) /\ t.kind # "restore" /\ Charge(1)
               \/ ~Free(Source(p, t)) /\ Because(Unsettled(p, t))
               \/ Free(Source(p, t)) /\ IF Unsettled(p, t) THEN Charge(1) ELSE Charge(2)
      BY <1>8 DEF Strand
    <2>2. faults' # faults \/ ~Free(Source(p, t))
      BY <1>1, <2>1 DEF Because, Charge
    <2>3. Strands(p, t)
      BY <1>1, <1>8, <2>1, <2>2 DEF Strand, Strands, Drop, Blame, fs
    <2>4. QED
      BY <1>2, <1>8, <2>1, <2>3 DEF Strand, TaskStep, fs
  <1>9. QED
    BY <1>3, <1>4, <1>5, <1>6, <1>7, <1>8 DEF Settles

(* The other tasks are not being settled, and have names of their own.     *)
LEMMA OtherTasks ==
  ASSUME TypeInv, NEW p \in Processes, TasksAt(p), pc[p] \in {"cleanup", "settle"},
         NEW t \in Tasks, First(p, t), NEW u \in todo[p], u # t
  PROVE  /\ u \in Tasks /\ ~First(p, u)
         /\ link[Source(p, u)] = Expected(p, u) /\ Expected(p, u) # NoInode
         /\ u.kind = "restore" => OriginalAt(Source(p, u), u.entry)
         /\ Source(p, u) # Source(p, t) /\ Source(p, u) # ClaimOf(p, t)
         /\ t.kind = "restore" => Source(p, u) # Target(t.entry)
  <1>1. u \in Tasks /\ t \in todo[p]
    BY DEF First, TypeInv, ReportType
  <1>2. ~First(p, u)
    BY FirstIsOne
  <1>3. TaskAt(p, u)
    BY DEF TasksAt
  <1>4. /\ link[Source(p, u)] = Expected(p, u) /\ Expected(p, u) # NoInode
        /\ u.kind = "restore" => OriginalAt(Source(p, u), u.entry)
    BY <1>2, <1>3 DEF TaskAt, Place, Settling
  <1>5. Source(p, u) # Source(p, t)
    BY <1>1, <1>3 DEF TaskAt
  <1>6. Source(p, u) # ClaimOf(p, t)
    BY <1>1, TasksApart
  <1>7. t.kind = "restore" => Source(p, u) # Target(t.entry)
    <2> SUFFICES ASSUME t.kind = "restore", Source(p, u) = Target(t.entry) PROVE FALSE
      OBVIOUS
    <2>1. t = Task("restore", t.entry) /\ t.entry \in Entries
      BY DEF Tasks, Task
    <2>2. u = Task("unpublish", t.entry)
      BY <1>1, TaskNames
    <2>3. QED
      BY <2>1, <2>2, UnpublishedFirst
  <1>8. QED
    BY <1>1, <1>2, <1>4, <1>5, <1>6, <1>7

(* A step on a task leaves the names of the other tasks as they are.       *)
LEMMA OtherSources ==
  ASSUME TypeInv, NEW p \in Processes, TasksAt(p), pc[p] \in {"cleanup", "settle"},
         NEW t \in Tasks, First(p, t), TaskStep(p, t), NEW u \in todo[p], u # t
  PROVE  link'[Source(p, u)] = link[Source(p, u)]
  <1>1. /\ u \in Tasks
        /\ Source(p, u) # Source(p, t) /\ Source(p, u) # ClaimOf(p, t)
        /\ t.kind = "restore" => Source(p, u) # Target(t.entry)
    BY OtherTasks
  <1>2. /\ Source(p, u) \in Names /\ Source(p, t) \in Names /\ ClaimOf(p, t) \in Names
        /\ Target(t.entry) \in Names
    BY <1>1, TaskNamesType, NamesType DEF Tasks
  <1>3. QED
    BY <1>1, <1>2 DEF TaskStep, Claims, Preserves, Misses, Discards, Restores, PutsBack, Strands,
       Move, Unlink, TypeInv, FileSystemType

LEMMA TasksSettled ==
  ASSUME SafeInv, NEW p \in Processes, TasksAt(p), Settles(p)
  PROVE  TasksAt(p)'
  <1>0. TypeInv /\ Step(p)
    BY DEF SafeInv, Settles, Step, Finish
  <1>1. PICK t \in Tasks : First(p, t) /\ TaskStep(p, t)
    BY <1>0, SettlesTask
  <1>2. /\ pc[p] \in {"cleanup", "settle"}
        /\ UNCHANGED <<file, temp, original, outcome>>
    BY <1>0, SettlesTask DEF ledger
  <1>3. t \in todo[p] /\ TaskAt(p, t) /\ outcome[p] # "none"
    BY <1>1, <1>2 DEF First, TasksAt
  <1>4. /\ todo'[p] \subseteq todo[p] /\ pc'[p] \in {"cleanup", "settle"}
        /\ pc'[p] = "settle" => Claims(p, t)
        /\ t \in todo'[p] => Claims(p, t)
    BY <1>1 DEF TaskStep, Claims, Preserves, Misses, Discards, Restores, PutsBack, Strands,
       Dropping
  <1>5. \A u : Expected(p, u)' = Expected(p, u)
    BY <1>2 DEF Expected
  (* A task that is not at its turn. *)
  <1>6. ASSUME NEW u \in todo'[p], u # t PROVE TaskAt(p, u)'
    <2>1. /\ u \in Tasks /\ ~First(p, u)
          /\ link[Source(p, u)] = Expected(p, u) /\ Expected(p, u) # NoInode
          /\ u.kind = "restore" => OriginalAt(Source(p, u), u.entry)
      BY <1>0, <1>1, <1>2, <1>4, <1>6, OtherTasks
    <2>2. link'[Source(p, u)] = link[Source(p, u)]
      BY <1>0, <1>1, <1>2, <1>4, <1>6, OtherSources
    <2>3. ~Settling(p, u)'
      <3>1. CASE pc'[p] = "settle"
        BY <1>4, <2>1, <3>1 DEF Settling, First, Claims
      <3>2. CASE pc'[p] # "settle"
        BY <3>2 DEF Settling, At
      <3>3. QED
        BY <3>1, <3>2
    <2>4. Place(p, u)' = Source(p, u)
      BY <2>3 DEF Place
    <2>5. u.kind = "restore" => OriginalAt(Source(p, u), u.entry)'
      BY <1>0, <2>1, <2>2, OriginalKept, TaskNamesType
    <2>6. /\ IF outcome[p] = "committed" THEN u.kind = "retire" ELSE u.kind # "retire"
          /\ \A v \in todo'[p] : Source(p, u) = Source(p, v) => u = v
      BY <1>2, <1>4, <1>6 DEF TasksAt, TaskAt
    <2>7. u.kind = "restore" => OriginalAt(Place(p, u), u.entry)'
      BY <2>4, <2>5 DEF OriginalAt, Free
    <2>8. QED
      BY <1>2, <1>5, <2>1, <2>2, <2>3, <2>4, <2>6, <2>7 DEF TaskAt
  (* The task at its turn is claimed. *)
  <1>7. ASSUME t \in todo'[p] PROVE TaskAt(p, t)'
    <2>1. Claims(p, t) /\ ~Settling(p, t)
      BY <1>4, <1>7 DEF Claims, Settling, At
    <2>2. /\ link[Source(p, t)] = Expected(p, t) /\ Expected(p, t) # NoInode
          /\ t.kind = "restore" => OriginalAt(Source(p, t), t.entry)
      BY <1>3, <2>1 DEF TaskAt, Place
    <2>3. /\ Source(p, t) \in Names /\ ClaimOf(p, t) \in Names
          /\ ClaimOf(p, t) # Source(p, t)
      BY TaskNamesType, TasksApart
    <2>4. link'[ClaimOf(p, t)] = link[Source(p, t)] /\ link'[Source(p, t)] = NoInode
      BY <1>0, <2>1, <2>3 DEF Claims, Move, TypeInv, FileSystemType
    <2>5. Settling(p, t)'
      BY <1>1, <2>1 DEF Settling, First, Claims, At
    <2>6. Place(p, t)' = ClaimOf(p, t)
      BY <2>5 DEF Place
    <2>7. t.kind = "restore" => OriginalAt(ClaimOf(p, t), t.entry)'
      BY <1>0, <2>2, <2>3, <2>4, OriginalKept
    <2>8. t.kind = "restore" => OriginalAt(Place(p, t), t.entry)'
      BY <2>6, <2>7 DEF OriginalAt, Free
    <2>9. /\ IF outcome[p] = "committed" THEN t.kind = "retire" ELSE t.kind # "retire"
          /\ \A v \in todo'[p] : Source(p, t) = Source(p, v) => t = v
      BY <1>3, <1>4 DEF TaskAt
    <2>10. QED
      BY <1>2, <1>5, <2>2, <2>4, <2>6, <2>8, <2>9 DEF TaskAt, Free
  <1>8. QED
    BY <1>2, <1>3, <1>4, <1>6, <1>7 DEF TasksAt

(* What the settling of a task does to the targets and to the other names  *)
(* an original may be under.                                               *)
LEMMA SettledNames ==
  ASSUME TypeInv, NEW p \in Processes, TasksAt(p), pc[p] \in {"cleanup", "settle"},
         NEW t \in Tasks, First(p, t), TaskStep(p, t), outcome[p] # "committed"
  PROVE  /\ \A n \in Names :
              n # Source(p, t) /\ n # ClaimOf(p, t)
                  /\ (Restores(p, t) => n # Target(t.entry)) =>
                link'[n] = link[n]
         /\ Claims(p, t) \/ Preserves(p, t) =>
              link'[ClaimOf(p, t)] = link[Source(p, t)] /\ link'[Source(p, t)] = NoInode
         /\ PutsBack(p, t) => link'[Source(p, t)] = link[ClaimOf(p, t)] /\ Free(Source(p, t))
         /\ Restores(p, t) => /\ link'[Target(t.entry)] = link[ClaimOf(p, t)]
                              /\ Free(Target(t.entry)) /\ t.kind = "restore"
                              /\ link'[Source(p, t)] = link[Source(p, t)]
         /\ Discards(p, t) => link'[Source(p, t)] = link[Source(p, t)] /\ t.kind # "restore"
         /\ Misses(p, t) \/ Strands(p, t) => link' = link
         /\ t.kind # "retire"
  <1>1. t \in todo[p] /\ t.entry \in Entries
    BY DEF First, Tasks
  <1>2. t.kind # "retire"
    BY <1>1 DEF TasksAt, TaskAt
  <1>3. /\ Source(p, t) \in Names /\ ClaimOf(p, t) \in Names /\ Target(t.entry) \in Names
        /\ ClaimOf(p, t) # Source(p, t) /\ ClaimOf(p, t) # Target(t.entry)
    BY <1>1, TaskNamesType, NamesType, TasksApart
  <1>4. t.kind = "restore" => Source(p, t) # Target(t.entry)
    BY NamesApart DEF Source
  <1> USE DEF TypeInv, FileSystemType, Move, Unlink
  <1>5. CASE Claims(p, t) \/ Preserves(p, t)
    BY <1>2, <1>3, <1>5
       DEF Claims, Preserves, Misses, Discards, Restores, PutsBack, Strands, At
  <1>6. CASE Discards(p, t)
    BY <1>2, <1>3, <1>6
       DEF Claims, Preserves, Misses, Discards, Restores, PutsBack, Strands, At, Free, Dropping
  <1>7. CASE Restores(p, t)
    BY <1>2, <1>3, <1>4, <1>7
       DEF Claims, Preserves, Misses, Discards, Restores, PutsBack, Strands, At, Free
  <1>8. CASE PutsBack(p, t)
    BY <1>2, <1>3, <1>4, <1>8
       DEF Claims, Preserves, Misses, Discards, Restores, PutsBack, Strands, At, Free
  <1>9. CASE Misses(p, t) \/ Strands(p, t)
    BY <1>2, <1>3, <1>4, <1>9
       DEF Claims, Preserves, Misses, Discards, Restores, PutsBack, Strands, At, Free
  <1>10. QED
    BY <1>5, <1>6, <1>7, <1>8, <1>9 DEF TaskStep

LEMMA RecoverableSettled ==
  ASSUME SafeInv, NEW p \in Processes, TasksAt(p), RecoverableAt(p), Settles(p)
  PROVE  RecoverableAt(p)'
  <1>0. TypeInv /\ Step(p)
    BY DEF SafeInv, Settles, Step, Finish
  <1>1. PICK t \in Tasks : First(p, t) /\ TaskStep(p, t)
    BY <1>0, SettlesTask
  <1>2. /\ pc[p] \in {"cleanup", "settle"} /\ outcome' = outcome /\ existed' = existed
    BY <1>0, SettlesTask
  <1> SUFFICES ASSUME outcome[p] # "committed", NEW e \in existed
               PROVE  \E m \in {Target(e), Backup(p, e), Claim(p, "backup-claim", e)} :
                        OriginalAt(m, e)'
    BY <1>2 DEF RecoverableAt, Somewhere
  <1>3. PICK n \in {Target(e), Backup(p, e), Claim(p, "backup-claim", e)} : OriginalAt(n, e)
    BY DEF RecoverableAt, Somewhere
  <1>4. e \in Entries /\ n \in Names
    BY <1>0, NamesType DEF TypeInv, EnvironmentType, ClaimKinds
  <1>5. t.kind # "retire" /\ t \in todo[p] /\ TaskAt(p, t)
    BY <1>0, <1>1, <1>2, SettledNames DEF First, TasksAt
  <1> SUFFICES \E m \in {Target(e), Backup(p, e), Claim(p, "backup-claim", e)} :
                 link'[m] = link[n]
    BY <1>0, <1>3, <1>4, OriginalKept
  <1>6. CASE n = Source(p, t) /\ (Claims(p, t) \/ Preserves(p, t))
    <2>1. link[n] = Expected(p, t)
      BY <1>5, <1>6 DEF TaskAt, Place, Settling, Claims, Preserves, At
    <2>2. t.kind = "restore" /\ t.entry = e
      <3>1. CASE n = Target(e)
        <4>0. Source(p, t) = Target(e)
          BY <1>6, <3>1
        <4>1. t = Task("unpublish", e)
          BY <4>0, TaskNames
        <4>2. link[n] = temp[p][e] /\ temp[p][e] # NoInode
          BY <1>3, <2>1, <4>1 DEF Expected, Task, OriginalAt, Free
        <4>3. Live(p)
          BY <1>2 DEF Live
        <4>4. QED
          BY <1>3, <1>4, <4>2, <4>3, StagedIsNoOriginal
      <3>2. CASE n = Backup(p, e)
        <4>1. Source(p, t) = Backup(p, e)
          BY <1>6, <3>2
        <4>2. QED
          BY <1>5, <4>1, TaskNames
      <3>3. CASE n = Claim(p, "backup-claim", e)
        <4>1. Source(p, t) = Claim(p, "backup-claim", e)
          BY <1>6, <3>3
        <4>2. QED
          BY <4>1, TaskNames DEF ClaimKinds
      <3>4. QED
        BY <3>1, <3>2, <3>3
    <2>3. ClaimOf(p, t) = Claim(p, "backup-claim", e)
      BY <2>2, TaskNames
    <2>4. QED
      BY <1>0, <1>1, <1>2, <1>6, <2>3, SettledNames
  <1>7. CASE n = ClaimOf(p, t)
    <2>1. n = Claim(p, "backup-claim", e)
      BY <1>7, TaskNames
    <2>1a. ClaimOf(p, t) = Claim(p, "backup-claim", e)
      BY <1>7, <2>1
    <2>2. t.kind = "restore" /\ t.entry = e
      BY <1>5, <2>1a, TaskNames
    <2>3. Source(p, t) = Backup(p, e)
      BY <2>2, TaskNames
    <2>4. ~Claims(p, t) /\ ~Preserves(p, t)
      BY <1>3, <1>7 DEF Claims, Preserves, CanMove, OriginalAt
    <2>5. QED
      BY <1>0, <1>1, <1>2, <1>7, <2>2, <2>3, <2>4, SettledNames DEF TaskStep
  <1>8. CASE n # ClaimOf(p, t) /\ ~(n = Source(p, t) /\ (Claims(p, t) \/ Preserves(p, t)))
    <2>1. ~Free(n)
      BY <1>3 DEF OriginalAt
    <2>2. link'[n] = link[n]
      BY <1>0, <1>1, <1>2, <1>4, <1>8, <2>1, SettledNames DEF TaskStep
    <2>3. QED
      BY <2>2
  <1>9. QED
    BY <1>6, <1>7, <1>8

LEMMA UndoSettled ==
  ASSUME SafeInv, NEW p \in Processes, TasksAt(p), UndoAt(p), Settles(p)
  PROVE  UndoAt(p)'
  <1>0. TypeInv /\ Step(p)
    BY DEF SafeInv, Settles, Step, Finish
  <1>1. PICK t \in Tasks : First(p, t) /\ TaskStep(p, t)
    BY <1>0, SettlesTask
  <1>2. /\ pc[p] \in {"cleanup", "settle"} /\ outcome' = outcome /\ existed' = existed
    BY <1>0, SettlesTask
  <1> SUFFICES ASSUME outcome[p] = "failed", NEW e \in Entries
               PROVE  /\ Task("restore", e) \in todo'[p] => e \in existed
                      /\ Task("unpublish", e) \in todo'[p] /\ e \in existed =>
                           Task("restore", e) \in todo'[p]
                      /\ clean'[p] /\ Task("unpublish", e) \notin todo'[p] =>
                           IF Task("restore", e) \in todo'[p] THEN Free(Target(e))'
                                                              ELSE Untouched(e)'
    BY <1>2 DEF UndoAt, Free
  <1> DEFINE unpublish == Task("unpublish", e)
             restore == Task("restore", e)
  <1>3. /\ restore \in todo[p] => e \in existed
        /\ unpublish \in todo[p] /\ e \in existed => restore \in todo[p]
        /\ clean[p] /\ unpublish \notin todo[p] =>
             IF restore \in todo[p] THEN Free(Target(e)) ELSE Untouched(e)
    BY <1>2 DEF UndoAt, At
  <1>4. /\ t.kind # "retire" /\ t \in todo[p] /\ TaskAt(p, t)
        /\ todo'[p] = todo[p] \/ Dropping(p, t)
    BY <1>0, <1>1, <1>2, SettledNames DEF First, TasksAt,
       TaskStep, Claims, Preserves, Misses, Discards, Restores, PutsBack, Strands
  <1>5. t = restore => unpublish \notin todo[p]
    BY <1>0, <1>1, UnpublishedFirst
  <1>6. unpublish # restore
    BY DEF Task
  <1>7. /\ restore \in todo'[p] => e \in existed
        /\ unpublish \in todo'[p] /\ e \in existed => restore \in todo'[p]
    BY <1>3, <1>4, <1>5, <1>6 DEF Dropping
  <1>8. ASSUME clean'[p], unpublish \notin todo'[p]
        PROVE  IF restore \in todo'[p] THEN Free(Target(e))' ELSE Untouched(e)'
    <2>1. clean[p] /\ (Claims(p, t) \/ Discards(p, t) \/ Restores(p, t))
      BY <1>1, <1>8 DEF TaskStep, Claims, Preserves, Misses, Discards, Restores, PutsBack, Strands
    <2>2. Target(e) \in Names /\ ClaimOf(p, t) # Target(e)
      BY NamesType, TaskNames
    <2>3. ASSUME link'[Target(e)] = link[Target(e)], t # unpublish, t # restore
          PROVE  IF restore \in todo'[p] THEN Free(Target(e))' ELSE Untouched(e)'
      <3>1. restore \in todo'[p] <=> restore \in todo[p]
        BY <1>4, <2>3 DEF Dropping
      <3>2. unpublish \notin todo[p]
        BY <1>4, <1>8, <2>3 DEF Dropping
      <3>3. QED
        BY <1>0, <1>3, <2>1, <2>3, <3>1, <3>2, UntouchedKept DEF Free
    <2>4. CASE t # unpublish /\ t # restore
      <3>1. Source(p, t) # Target(e)
        BY <2>4, TaskNames
      <3>2. Restores(p, t) => Target(t.entry) # Target(e)
        <4>1. Restores(p, t) => t.entry # e
          BY <2>4 DEF Restores, Task, Tasks
        <4>2. QED
          BY <4>1, NamesApart
      <3>3. link'[Target(e)] = link[Target(e)]
        BY <1>0, <1>1, <1>2, <2>2, <3>1, <3>2, SettledNames
      <3>4. QED
        BY <2>3, <2>4, <3>3
    <2>5. CASE t = unpublish
      <3>1. Source(p, t) = Target(e) /\ t.kind = "unpublish"
        BY <2>5, TaskNames DEF Task
      <3>2. Discards(p, t)
        BY <1>4, <1>8, <2>1, <2>5, <3>1 DEF Claims, Restores
      <3>3. link'[Target(e)] = link[Target(e)]
        BY <1>0, <1>1, <1>2, <3>1, <3>2, SettledNames
      <3>4. Free(Target(e))
        BY <1>1, <1>4, <3>1, <3>2 DEF TaskAt, Settling, Discards, Strands
      <3>5. restore \in todo'[p] <=> restore \in todo[p]
        BY <1>4, <1>6, <2>5 DEF Dropping
      <3>6. CASE restore \in todo[p]
        BY <3>3, <3>4, <3>5, <3>6 DEF Free
      <3>7. CASE restore \notin todo[p]
        <4>1. e \notin existed
          BY <1>3, <1>4, <2>5, <3>7
        <4>2. QED
          BY <1>2, <3>3, <3>4, <3>5, <3>7, <4>1 DEF Untouched, Free
      <3>8. QED
        BY <3>6, <3>7
    <2>6. CASE t = restore
      <3>1. /\ t.kind = "restore" /\ t.entry = e /\ unpublish \notin todo[p] /\ e \in existed
            /\ Source(p, t) # Target(e)
        BY <1>3, <1>4, <1>5, <2>6, TaskNames, <1>6 DEF Task
      <3>2. CASE Claims(p, t)
        <4>1. link'[Target(e)] = link[Target(e)]
          BY <1>0, <1>1, <1>2, <2>2, <3>1, <3>2, SettledNames DEF Claims, Restores, At
        <4>2. restore \in todo'[p] /\ Free(Target(e))
          BY <1>3, <1>4, <2>1, <2>6, <3>1, <3>2 DEF Claims
        <4>3. QED
          BY <4>1, <4>2 DEF Free
      <3>3. CASE Restores(p, t)
        <4>1. link'[Target(e)] = link[ClaimOf(p, t)] /\ ClaimOf(p, t) \in Names
          BY <1>0, <1>1, <1>2, <3>1, <3>3, SettledNames, TaskNamesType
        <4>2. OriginalAt(ClaimOf(p, t), e)
          BY <1>1, <1>4, <3>1, <3>3 DEF TaskAt, Place, Settling, Restores
        <4>3. OriginalAt(Target(e), e)'
          BY <1>0, <4>1, <4>2, OriginalKept
        <4>4. restore \notin todo'[p]
          BY <2>6, <3>3 DEF Restores, Dropping
        <4>5. QED
          BY <1>2, <3>1, <4>3, <4>4 DEF Untouched
      <3>4. QED
        BY <2>1, <3>1, <3>2, <3>3 DEF Discards
    <2>7. QED
      BY <2>4, <2>5, <2>6
  <1>9. QED
    BY <1>7, <1>8

LEMMA FaultlessSettled ==
  ASSUME SafeInv, NEW p \in Processes, TasksAt(p), UndoAt(p), BudgetAt(p), FaultlessAt(p),
         Settles(p)
  PROVE  FaultlessAt(p)'
  <1>0. TypeInv /\ Step(p)
    BY DEF SafeInv, Settles, Step, Finish
  <1>1. PICK t \in Tasks : First(p, t) /\ TaskStep(p, t)
    BY <1>0, SettlesTask
  <1>2. pc[p] \in {"cleanup", "settle"} /\ outcome' = outcome
    BY <1>0, SettlesTask
  <1> SUFFICES ASSUME faults' = 0
               PROVE  /\ clean'[p] /\ pc'[p] \notin Unreported
                      /\ \A u \in todo'[p] : u.kind # "preserve"
                      /\ \A k \in ClaimKinds, e \in Entries :
                           \/ link'[Claim(p, k, e)] = NoInode
                           \/ \E u \in todo'[p] : Settling(p, u)' /\ Claim(p, k, e) = ClaimOf(p, u)
    BY DEF FaultlessAt, Unreported, EntryPhases, Free
  <1>3. t \in todo[p] /\ TaskAt(p, t) /\ t.entry \in Entries
    BY <1>1, <1>2 DEF First, TasksAt, Tasks
  <1>4. faults = 0
    <2>1. faults' = faults
      BY <1>0, <1>2 DEF Settles, ClaimFile, ClaimFileFails, Discard, Restore, PutBack, Strand, env,
         Because, Charge, TypeInv, EnvironmentType
    <2>2. QED
      BY <2>1
  <1>5. /\ clean[p] /\ (\A u \in todo[p] : u.kind # "preserve")
        /\ \A k \in ClaimKinds, e \in Entries :
             \/ Free(Claim(p, k, e))
             \/ \E u \in todo[p] : Settling(p, u) /\ Claim(p, k, e) = ClaimOf(p, u)
    BY <1>2, <1>4 DEF FaultlessAt
  <1>6. PICK k \in ClaimKinds : ClaimOf(p, t) = Claim(p, k, t.entry)
    BY DEF ClaimOf, ClaimKinds
  (* The task at its turn is the only one whose claim is taken. *)
  <1>7. /\ pc[p] = "cleanup" => \A l \in ClaimKinds, e \in Entries : Free(Claim(p, l, e))
        /\ \A l \in ClaimKinds, e \in Entries :
             Claim(p, l, e) # ClaimOf(p, t) => Free(Claim(p, l, e))
    BY <1>0, <1>1, <1>2, <1>5, FirstIsOne DEF Settling, At
  <1>8. ~Preserves(p, t)
    BY <1>3, <1>5 DEF Preserves
  <1>9. ~Misses(p, t)
    <2> SUFFICES ASSUME Misses(p, t) PROVE FALSE
      OBVIOUS
    <2>1. Free(ClaimOf(p, t))
      BY <1>3, <1>6, <1>7 DEF Misses, At
    <2>2. ~Free(Source(p, t))
      BY <1>3 DEF Misses, TaskAt, Place, Settling, At, Free
    <2>3. QED
      BY <1>4, <2>1, <2>2 DEF Misses, CanMove
  <1>10. At(p, "settle") => Free(Source(p, t)) /\ link[ClaimOf(p, t)] = Expected(p, t)
    BY <1>1, <1>3 DEF TaskAt, Place, Settling
  <1>11. ~Strands(p, t)
    BY <1>4, <1>10 DEF Strands
  <1>12. ~PutsBack(p, t)
    <2> SUFFICES ASSUME PutsBack(p, t) PROVE FALSE
      OBVIOUS
    <2>1. Unsettled(p, t) /\ At(p, "settle")
      BY <1>4 DEF PutsBack
    <2>2. Verified(p, t)
      BY <1>10, <2>1 DEF Verified, BudgetAt, At
    <2>3. t.kind = "restore" /\ ~Free(Target(t.entry))
      BY <2>1, <2>2 DEF Unsettled
    <2>4. t = Task("restore", t.entry)
      BY <2>3 DEF Tasks, Task
    <2>5. Task("unpublish", t.entry) \notin todo[p]
      BY <1>0, <1>1, <1>3, <2>4, UnpublishedFirst
    <2>6. outcome[p] = "failed"
      BY <1>2, <1>3, <2>3 DEF TaskAt, TasksAt, SafeInv, TasksOK
    <2>7. QED
      BY <1>2, <1>3, <1>5, <2>3, <2>4, <2>5, <2>6 DEF UndoAt, At
  <1>13. Claims(p, t) \/ Discards(p, t) \/ Restores(p, t)
    BY <1>1, <1>8, <1>9, <1>11, <1>12 DEF TaskStep
  <1>14. /\ clean'[p] /\ pc'[p] \notin Unreported /\ \A u \in todo'[p] : u.kind # "preserve"
    BY <1>5, <1>13 DEF Claims, Discards, Restores, Dropping, Unreported, EntryPhases
  <1>15. ASSUME NEW l \in ClaimKinds, NEW e \in Entries
         PROVE  \/ link'[Claim(p, l, e)] = NoInode
                \/ \E u \in todo'[p] : Settling(p, u)' /\ Claim(p, l, e) = ClaimOf(p, u)
    <2>0. /\ Claim(p, l, e) \in Names /\ Claim(p, l, e) # Target(t.entry)
          /\ Claim(p, l, e) # Source(p, t)
          /\ Source(p, t) \in Names /\ ClaimOf(p, t) \in Names /\ Target(t.entry) \in Names
      BY <1>3, NamesType, TaskNamesType, NamesApart, TaskNames
    <2>1. CASE Claim(p, l, e) # ClaimOf(p, t)
      <3>1. link[Claim(p, l, e)] = NoInode
        BY <1>7, <2>1 DEF Free
      <3>2. QED
        BY <1>0, <1>13, <2>0, <2>1, <3>1
           DEF Claims, Discards, Restores, Move, Unlink, TypeInv, FileSystemType
    <2>2. CASE Claim(p, l, e) = ClaimOf(p, t) /\ Claims(p, t)
      BY <1>1, <1>3, <2>2 DEF Settling, First, Claims, At
    <2>3. CASE Claim(p, l, e) = ClaimOf(p, t) /\ (Discards(p, t) \/ Restores(p, t))
      <3>1. link'[ClaimOf(p, t)] = NoInode
        BY <1>0, <2>0, <2>3, TasksApart
           DEF Discards, Restores, Move, Unlink, TypeInv, FileSystemType
      <3>2. QED
        BY <2>3, <3>1
    <2>4. QED
      BY <1>13, <2>1, <2>2, <2>3
  <1>16. QED
    BY <1>14, <1>15

-----------------------------------------------------------------------------
(* The steps that end a run's work, or decide what becomes of it.          *)

(* The steps by which a run reports its result, other than publication.    *)
Reports(p) ==
  \/ (Begin(p) \/ OpenQuarantineFails(p)) /\ pc'[p] = "done"
  \/ RemoveQuarantine(p) \/ SyncDirectories(p)

(* Every step of a run is one of these.                                    *)
LEMMA StepKinds ==
  ASSUME TypeInv, NEW p \in Processes, Step(p) \/ Crash(p)
  PROVE  \/ /\ Prepare(p) \/ Stage(p) \/ Install(p)
            /\ pc[p] \in Unreported /\ pc'[p] \in Unreported
         \/ Publish(p) /\ pc[p] = "publish" /\ pc'[p] = "cleanup" /\ at[p] = N
         \/ Abort(p) \/ Settles(p) \/ Reports(p) \/ Crash(p)
  <1> USE DEF At, Goto, Advance, Fail, Unreported, EntryPhases
  <1>0. DOMAIN pc = Processes
    BY DEF TypeInv, ControlType
  <1>1. CASE Prepare(p)
    BY <1>0, <1>1 DEF Prepare, Begin, OpenQuarantine, OpenQuarantineFails, OpenParents,
       OpenParentsFails, Preflight, PreflightFails, ProbeOut, ProbeOutFails, ProbeBack,
       ProbeBackFails, Reports
  <1>2. CASE Stage(p)
    BY <1>0, <1>2 DEF Stage, StageCreate, StageCreateFails, StageWrite, StageWriteFails
  <1>3. CASE Install(p)
    BY <1>0, <1>3 DEF Install, IdentifyAbsent, Identify, IdentifyFails, Displace, DisplaceFails,
       Publish, PublishFails
  <1>4. CASE Finish(p)
    BY <1>4 DEF Finish, Settles, Reports
  <1>5. QED
    BY <1>1, <1>2, <1>3, <1>4 DEF Step

LEMMA ReportFrame ==
  ASSUME TypeInv, NEW p \in Processes, Reports(p)
  PROVE  /\ link' = link /\ file' = file /\ todo' = todo /\ existed' = existed
         /\ clean'[p] => clean[p]
         /\ \/ pc[p] \in {"idle", "open"} /\ pc'[p] = "done" /\ outcome'[p] = "failed"
            \/ /\ pc[p] \in {"cleanup", "sync"} /\ pc'[p] \in {"sync", "done"}
               /\ outcome' = outcome /\ (pc[p] = "cleanup" => todo[p] = {})
  BY DEF Reports, Begin, OpenQuarantineFails, RemoveQuarantine, SyncDirectories, TypeInv,
     ControlType, ReportType, At, Goto, Blame, fs, env

LEMMA TasksReported ==
  ASSUME SafeInv, NEW p \in Processes, TasksAt(p), Reports(p)
  PROVE  TasksAt(p)'
  <1>1. /\ todo' = todo /\ pc'[p] \in {"sync", "done"}
        /\ \/ pc[p] \in {"idle", "open"} /\ outcome'[p] = "failed"
           \/ /\ pc[p] \in {"cleanup", "sync"} /\ outcome' = outcome
              /\ (pc[p] = "cleanup" => todo[p] = {})
    BY ReportFrame DEF SafeInv
  <1>2. pc[p] \in {"idle", "open"} => todo[p] = {}
    BY DEF SafeInv, ProgressOK, Unreported
  <1>3. QED
    BY <1>1, <1>2 DEF TasksAt

LEMMA UndoReported ==
  ASSUME SafeInv, NEW p \in Processes, LedgerAt(p), PhaseAt(p), UndoAt(p), Reports(p)
  PROVE  UndoAt(p)'
  <1>1. /\ link' = link /\ todo' = todo /\ existed' = existed
        /\ clean'[p] => clean[p]
        /\ \/ pc[p] \in {"idle", "open"} /\ outcome'[p] = "failed"
           \/ pc[p] \in {"cleanup", "sync"} /\ outcome' = outcome
    BY ReportFrame DEF SafeInv
  <1>2. Step(p)
    BY DEF Reports, Step, Prepare, Finish
  <1>3. \A e \in Entries : Untouched(e) => Untouched(e)'
    BY <1>1, <1>2, UntouchedKept
  <1>4. CASE pc[p] \in {"idle", "open"}
    <2>1. todo[p] = {} /\ published[p] = {} /\ backed[p] = {}
      BY <1>4 DEF SafeInv, ProgressOK, PhaseAt, Unreported, EntryPhases
    <2>2. \A e \in Entries : Untouched(e)
      BY <1>4, <2>1 DEF LedgerAt, PlacedAt, Unreported
    <2>3. QED
      BY <1>1, <1>3, <2>1, <2>2 DEF UndoAt
  <1>5. CASE pc[p] \in {"cleanup", "sync"} /\ outcome' = outcome
    BY <1>1, <1>3, <1>5 DEF UndoAt, At, Free
  <1>6. QED
    BY <1>1, <1>4, <1>5

(* The pieces of a rollback, from the ledger.                              *)
LEMMA RollbackPieces ==
  ASSUME NEW p, NEW t \in RollbackTasks(p)
  PROVE  \/ t.kind = "unpublish" /\ t.entry \in published[p]
         \/ t.kind = "restore" /\ t.entry \in backed[p]
         \/ t.kind = "unstage" /\ t.entry \in known[p] \ published[p]
         \/ /\ t.kind = "preserve" /\ t.entry \in Entries \ known[p]
            /\ temp[p][t.entry] # NoInode
  BY DEF RollbackTasks, Task

LEMMA TasksAborted ==
  ASSUME SafeInv, NEW p \in Processes, LedgerAt(p), Abort(p)
  PROVE  TasksAt(p)'
  <1>0. /\ TypeInv /\ Step(p) /\ TypeInv'
        /\ UNCHANGED <<link, file, temp, original>> /\ pc[p] = "abort"
        /\ pc'[p] = "cleanup" /\ outcome'[p] = "failed" /\ todo'[p] = RollbackTasks(p)
    BY TypeStep DEF SafeInv, TypeInv, ControlType, ReportType, Abort, Step, Finish, At, Goto, fs,
       ledger, Next
  <1> SUFFICES ASSUME NEW t \in RollbackTasks(p) PROVE TaskAt(p, t)'
    BY <1>0 DEF TasksAt
  <1>1. \A e \in Entries : PlacedAt(p, e)
    BY <1>0 DEF LedgerAt, Unreported
  <1>2. /\ t \in Tasks /\ t.entry \in Entries
        /\ published[p] \subseteq Entries /\ backed[p] \subseteq Entries /\ known[p] \subseteq Entries
    BY <1>0 DEF TypeInv, ReportType, LedgerType, Tasks
  <1>3. Expected(p, t) # NoInode /\ link[Source(p, t)] = Expected(p, t)
    BY <1>1, <1>2, RollbackPieces DEF PlacedAt, Expected, Source
  <1>4. t.kind = "restore" => OriginalAt(Source(p, t), t.entry)
    BY <1>1, <1>2, RollbackPieces DEF PlacedAt, Source
  <1>5. ~Settling(p, t)' /\ Place(p, t)' = Source(p, t) /\ Expected(p, t)' = Expected(p, t)
    BY <1>0 DEF Settling, At, Place, Expected
  <1>6. t.kind # "retire"
    BY RollbackPieces
  <1>7. ASSUME NEW u \in RollbackTasks(p), Source(p, t) = Source(p, u) PROVE t = u
    <2>1. u \in Tasks /\ u.entry \in Entries
      BY <1>0 DEF TypeInv, ReportType, Tasks
    <2>2. /\ t.kind = "unpublish" => u = Task("unpublish", t.entry)
          /\ t.kind = "restore" => u.kind \in {"restore", "retire"} /\ u.entry = t.entry
          /\ t.kind \in {"unstage", "preserve"} =>
               u.kind \in {"unstage", "preserve"} /\ u.entry = t.entry
      <3>1. CASE t.kind = "unpublish"
        <4>1. Source(p, u) = Target(t.entry)
          BY <1>7, <3>1 DEF Source
        <4>2. QED
          BY <2>1, <3>1, <4>1, TaskNames
      <3>2. CASE t.kind = "restore"
        <4>1. Source(p, u) = Backup(p, t.entry)
          BY <1>7, <3>2 DEF Source
        <4>2. QED
          BY <2>1, <3>2, <4>1, TaskNames
      <3>3. CASE t.kind \in {"unstage", "preserve"}
        <4>1. Source(p, u) = Temporary(p, t.entry)
          BY <1>7, <3>3 DEF Source
        <4>2. QED
          BY <2>1, <3>3, <4>1, TaskNames
      <3>4. QED
        BY <3>1, <3>2, <3>3
    <2>3. t.kind = u.kind /\ t.entry = u.entry
      BY <2>2, RollbackPieces DEF Task
    <2>4. QED
      BY <1>2, <2>1, <2>3 DEF Tasks
  <1>8. t.kind = "restore" => OriginalAt(Place(p, t), t.entry)'
    BY <1>0, <1>4, <1>5 DEF OriginalAt, Free
  <1>9. QED
    BY <1>0, <1>3, <1>5, <1>6, <1>7, <1>8 DEF TaskAt

LEMMA UndoAborted ==
  ASSUME SafeInv, NEW p \in Processes, LedgerAt(p), Abort(p)
  PROVE  UndoAt(p)'
  <1>0. /\ TypeInv /\ Step(p) /\ link' = link /\ existed' = existed
        /\ pc[p] = "abort" /\ todo'[p] = RollbackTasks(p)
    BY DEF SafeInv, TypeInv, ReportType, Abort, Step, Finish, At, fs, env
  <1> SUFFICES ASSUME NEW e \in Entries
               PROVE  /\ Task("restore", e) \in todo'[p] => e \in existed
                      /\ Task("unpublish", e) \in todo'[p] /\ e \in existed =>
                           Task("restore", e) \in todo'[p]
                      /\ Task("unpublish", e) \notin todo'[p] =>
                           IF Task("restore", e) \in todo'[p] THEN Free(Target(e))'
                                                              ELSE Untouched(e)'
    BY <1>0 DEF UndoAt
  <1>1. /\ Task("unpublish", e) \in todo'[p] <=> e \in published[p]
        /\ Task("restore", e) \in todo'[p] <=> e \in backed[p]
    BY <1>0 DEF RollbackTasks, Task
  <1>2. PlacedAt(p, e)
    BY <1>0 DEF LedgerAt, Unreported
  <1>3. Untouched(e) => Untouched(e)'
    BY <1>0, UntouchedKept
  <1>4. QED
    BY <1>0, <1>1, <1>2, <1>3 DEF PlacedAt, Free

LEMMA TasksPublished ==
  ASSUME SafeInv, NEW p \in Processes, LedgerAt(p), PhaseAt(p), Publish(p),
         pc'[p] = "cleanup"
  PROVE  TasksAt(p)' /\ outcome'[p] = "committed"
  <1>0. TypeInv /\ at[p] = N
    BY DEF SafeInv, TypeInv, ControlType, Publish, Advance, Goto
  <1>1. /\ Step(p) /\ pc[p] = "publish" /\ UNCHANGED <<original, temp, backed>>
        /\ outcome'[p] = "committed" /\ todo'[p] = {Task("retire", b) : b \in backed[p]}
    BY <1>0 DEF Publish, Step, Install, At, TypeInv, ReportType
  <1> SUFFICES ASSUME NEW t \in todo'[p] PROVE TaskAt(p, t)'
    BY <1>1 DEF TasksAt
  <1>2. PICK b \in backed[p] : t = Task("retire", b)
    BY <1>1
  <1>3. b \in Entries /\ t.kind = "retire" /\ t.entry = b
    BY <1>0, <1>2 DEF TypeInv, LedgerType, Task
  <1>4. PlacedAt(p, b)'
    BY <1>3, LedgerPublish
  <1>5. original'[p][b] # NoInode /\ link'[Backup(p, b)] = original'[p][b]
    BY <1>1, <1>4 DEF PlacedAt
  <1>6. ~Settling(p, t)' /\ Place(p, t)' = Backup(p, b) /\ Expected(p, t)' = original'[p][b]
    BY <1>1, <1>3 DEF Settling, At, Place, Expected, Source
  <1>7. ASSUME NEW u \in todo'[p], Source(p, t) = Source(p, u) PROVE t = u
    <2>1. PICK c \in backed[p] : u = Task("retire", c)
      BY <1>1
    <2>2. Backup(p, b) = Backup(p, c)
      BY <1>2, <1>7, <2>1 DEF Source, Task
    <2>3. QED
      BY <1>2, <2>1, <2>2, NamesApart
  <1>8. QED
    BY <1>1, <1>3, <1>5, <1>6, <1>7 DEF TaskAt

LEMMA TasksKept ==
  ASSUME SafeInv, NEW p \in Processes, LedgerAt(p), PhaseAt(p), TasksAt(p), Step(p) \/ Crash(p)
  PROVE  TasksAt(p)'
  <1>1. CASE pc'[p] \in Unreported \/ pc'[p] = "crashed"
    BY <1>1 DEF TasksAt, Unreported, EntryPhases
  <1>2. CASE Crash(p)
    BY <1>1, <1>2 DEF Crash, Goto, SafeInv, TypeInv, ControlType
  <1>3. QED
    BY <1>1, <1>2, StepKinds, TasksPublished, TasksAborted, TasksSettled, TasksReported
       DEF SafeInv

LEMMA UndoKept ==
  ASSUME SafeInv, NEW p \in Processes, LedgerAt(p), PhaseAt(p), TasksAt(p), UndoAt(p),
         Step(p) \/ Crash(p)
  PROVE  UndoAt(p)'
  <1>1. CASE pc'[p] \in Unreported
    <2>1. outcome'[p] = "none"
      BY <1>1, ProgressStep DEF ProgressOK
    <2>2. QED
      BY <2>1 DEF UndoAt
  <1>2. CASE Crash(p)
    BY <1>2 DEF Crash, Goto, SafeInv, TypeInv, ControlType, UndoAt, At
  <1>3. CASE Publish(p) /\ pc'[p] = "cleanup"
    <2>1. outcome'[p] = "committed"
      BY <1>3, TasksPublished
    <2>2. QED
      BY <2>1 DEF UndoAt
  <1>4. QED
    BY <1>1, <1>2, <1>3, StepKinds, UndoAborted, UndoSettled, UndoReported DEF SafeInv

LEMMA RecoverableKept ==
  ASSUME SafeInv, NEW p \in Processes, RecoverableAt(p), LedgerAt(p), PhaseAt(p), TasksAt(p),
         Step(p) \/ Crash(p)
  PROVE  RecoverableAt(p)'
  <1>0. TypeInv /\ existed' = existed /\ existed \subseteq Entries
    BY PublishedGrows DEF SafeInv, TypeInv, EnvironmentType
  <1>1. CASE pc'[p] \in Unreported
    <2> SUFFICES ASSUME NEW e \in existed
                 PROVE  \E m \in {Target(e), Backup(p, e), Claim(p, "backup-claim", e)} :
                          OriginalAt(m, e)'
      BY <1>0 DEF RecoverableAt, Somewhere
    <2>1. PlacedAt(p, e)'
      BY <1>0, <1>1, LedgerKept DEF LedgerAt
    <2>2. OriginalAt(Target(e), e)' \/ OriginalAt(Backup(p, e), e)'
      BY <1>0, <2>1 DEF PlacedAt, Untouched
    <2>3. QED
      BY <2>2
  <1>2. ASSUME link' = link, outcome'[p] # "committed" => outcome[p] # "committed"
        PROVE  RecoverableAt(p)'
    <2> SUFFICES ASSUME outcome[p] # "committed", NEW e \in existed
                 PROVE  \E m \in {Target(e), Backup(p, e), Claim(p, "backup-claim", e)} :
                          OriginalAt(m, e)'
      BY <1>0, <1>2 DEF RecoverableAt, Somewhere
    <2>1. PICK n \in {Target(e), Backup(p, e), Claim(p, "backup-claim", e)} : OriginalAt(n, e)
      BY DEF RecoverableAt, Somewhere
    <2>2. n \in Names
      BY <1>0, NamesType DEF ClaimKinds
    <2>3. OriginalAt(n, e)'
      BY <1>2, <2>1, <2>2, OriginalKept
    <2>4. QED
      BY <2>3
  <1>3. CASE Publish(p) /\ pc'[p] = "cleanup"
    <2>1. outcome'[p] = "committed"
      BY <1>3, TasksPublished
    <2>2. QED
      BY <2>1 DEF RecoverableAt
  <1>4. CASE Abort(p)
    <2>1. outcome[p] = "none"
      BY <1>4 DEF Abort, SafeInv, ProgressOK, At, Unreported
    <2>2. QED
      BY <1>2, <1>4, <2>1 DEF Abort, fs
  <1>5. CASE Reports(p)
    <2>1. pc[p] \in {"idle", "open"} => outcome[p] = "none"
      BY DEF SafeInv, ProgressOK, Unreported
    <2>2. QED
      BY <1>0, <1>2, <1>5, <2>1, ReportFrame
  <1>6. CASE Crash(p)
    BY <1>2, <1>6 DEF Crash, fs
  <1>7. QED
    BY <1>0, <1>1, <1>3, <1>4, <1>5, <1>6, StepKinds, RecoverableSettled

-----------------------------------------------------------------------------
(* A run in which no call fails has nothing to blame.                      *)

LEMMA FaultsGrow ==
  ASSUME TypeInv, NEW p \in Processes, Step(p) \/ Crash(p)
  PROVE  faults' \in Nat /\ faults <= faults'
  <1> USE DEF Because, Charge
  <1>0. faults \in Nat /\ MaxFaults \in Nat
    BY BoundAssumption DEF TypeInv, EnvironmentType
  <1>1. CASE Prepare(p)
    BY <1>0, <1>1 DEF Prepare, Begin, OpenQuarantine, OpenQuarantineFails, OpenParents,
       OpenParentsFails, Preflight, PreflightFails, ProbeOut, ProbeOutFails, ProbeBack,
       ProbeBackFails, env
  <1>2. CASE Stage(p)
    BY <1>0, <1>2 DEF Stage, StageCreate, StageCreateFails, StageWrite, StageWriteFails, env
  <1>3. CASE Install(p)
    BY <1>0, <1>3 DEF Install, IdentifyAbsent, Identify, IdentifyFails, Displace, DisplaceFails,
       Publish, PublishFails, env
  <1>4. CASE Finish(p)
    BY <1>0, <1>4 DEF Finish, Abort, ClaimFile, ClaimFileFails, Discard, Restore, PutBack, Strand,
       RemoveQuarantine, SyncDirectories, env
  <1>5. CASE Crash(p)
    BY <1>0, <1>5 DEF Crash, env
  <1>6. QED
    BY <1>1, <1>2, <1>3, <1>4, <1>5 DEF Step

(* The work of a run records an error only when a call has failed.         *)
LEMMA BlameIsCharged ==
  ASSUME TypeInv, NEW p \in Processes, Prepare(p) \/ Stage(p) \/ Install(p),
         pc'[p] \in Unreported \/ Publish(p), faults' = 0
  PROVE  clean'[p] = clean[p]
  <1> USE DEF Because, Charge
  <1>0. faults \in Nat /\ DOMAIN pc = Processes
    BY DEF TypeInv, ControlType, EnvironmentType
  <1>1. CASE Prepare(p)
    BY <1>0, <1>1 DEF Prepare, Begin, OpenQuarantine, OpenQuarantineFails, OpenParents,
       OpenParentsFails, Preflight, PreflightFails, ProbeOut, ProbeOutFails, ProbeBack,
       ProbeBackFails, Goto, Unreported, EntryPhases, Publish, At
  <1>2. CASE Stage(p)
    BY <1>2 DEF Stage, StageCreate, StageCreateFails, StageWrite, StageWriteFails
  <1>3. CASE Install(p)
    BY <1>3 DEF Install, IdentifyAbsent, Identify, IdentifyFails, Displace, DisplaceFails,
       Publish, PublishFails
  <1>4. QED
    BY <1>1, <1>2, <1>3

(* A probe that is left in the quarantine is one that a failed call left.  *)
LEMMA ProbesCharged ==
  ASSUME TypeInv, NEW p \in Processes, Prepare(p) \/ Stage(p) \/ Install(p), faults' = 0,
         NEW e \in Entries
  PROVE  link'[Claim(p, "probe-claim", e)] = link[Claim(p, "probe-claim", e)]
  <1> DEFINE n == Claim(p, "probe-claim", e)
  <1>0. /\ link \in [Names -> Inodes \cup {NoInode}] /\ faults \in Nat
        /\ pc[p] \in EntryPhases => at[p] \in Entries
    BY DEF TypeInv, FileSystemType, ControlType, EnvironmentType
  <1>1. n \in Names
    BY NamesType DEF ClaimKinds
  <1>2. ASSUME NEW d \in Entries
        PROVE  /\ n # Target(d) /\ n # Temporary(p, d) /\ n # Backup(p, d) /\ n # Probe(p, d)
               /\ Target(d) \in Names /\ Temporary(p, d) \in Names
               /\ Backup(p, d) \in Names /\ Probe(p, d) \in Names
    BY NamesApart, NamesType DEF ClaimKinds
  <1>3. \/ link' = link
        \/ /\ at[p] \in Entries
           /\ \/ \E i : link' = [link EXCEPT ![Probe(p, at[p])] = i]
              \/ \E i : link' = [link EXCEPT ![Temporary(p, at[p])] = i]
              \/ link' = Unlink(Probe(p, at[p]))
              \/ link' = Move(Target(at[p]), Backup(p, at[p]))
              \/ link' = Move(Temporary(p, at[p]), Target(at[p]))
    <2> USE DEF At, EntryPhases, Because, Charge, fs
    <2>1. CASE Prepare(p)
      BY <1>0, <2>1 DEF Prepare, Begin, OpenQuarantine, OpenQuarantineFails, OpenParents,
         OpenParentsFails, Preflight, PreflightFails, ProbeOut, ProbeOutFails, ProbeBack,
         ProbeBackFails
    <2>2. CASE Stage(p)
      BY <1>0, <2>2 DEF Stage, StageCreate, StageCreateFails, StageWrite, StageWriteFails
    <2>3. CASE Install(p)
      BY <1>0, <2>3 DEF Install, IdentifyAbsent, Identify, IdentifyFails, Displace, DisplaceFails,
         Publish, PublishFails
    <2>4. QED
      BY <2>1, <2>2, <2>3
  <1> HIDE DEF n
  <1>4. link'[n] = link[n]
    BY <1>0, <1>1, <1>2, <1>3 DEF Move, Unlink
  <1>5. QED
    BY <1>4 DEF n

(* A staged file is identified before anything else is done.               *)
LEMMA StagedIsKnown ==
  ASSUME TypeInv, NEW p \in Processes, Prepare(p) \/ Stage(p) \/ Install(p), faults' = 0,
         NEW e \in Entries,
         temp[p][e] # NoInode => e \in known[p] \/ (At(p, "write") /\ e = at[p])
  PROVE  temp'[p][e] # NoInode => e \in known'[p] \/ (pc'[p] = "write" /\ e = at'[p])
  <1>1. CASE StageCreate(p)
    <2>1. PICK i \in Inodes : temp' = [temp EXCEPT ![p][at[p]] = i]
      BY <1>1 DEF StageCreate, Allocatable
    <2>2. pc[p] = "stage" /\ pc'[p] = "write" /\ at' = at /\ known' = known
      BY <1>1 DEF StageCreate, At, Goto, TypeInv, ControlType
    <2>3. QED
      BY <2>1, <2>2 DEF TypeInv, LedgerType, At
  <1>2. CASE StageWrite(p)
    <2>1. temp' = temp /\ known' = [known EXCEPT ![p] = @ \cup {at[p]}]
      BY <1>2 DEF StageWrite
    <2>2. QED
      BY <2>1 DEF TypeInv, LedgerType
  <1>3. ~StageWriteFails(p)
    BY DEF StageWriteFails, Charge, TypeInv, EnvironmentType
  <1>4. CASE UNCHANGED <<temp, known>> /\ pc[p] # "write"
    BY <1>4 DEF At
  <1>5. QED
    BY <1>1, <1>2, <1>3, <1>4
       DEF Prepare, Stage, Install, Begin, OpenQuarantine, OpenQuarantineFails, OpenParents,
           OpenParentsFails, Preflight, PreflightFails, ProbeOut, ProbeOutFails, ProbeBack,
           ProbeBackFails, StageCreateFails, IdentifyAbsent, Identify, IdentifyFails, Displace,
           DisplaceFails, Publish, PublishFails, ledger, At

LEMMA FaultlessKept ==
  ASSUME SafeInv, NEW p \in Processes, LedgerAt(p), PhaseAt(p), TasksAt(p), UndoAt(p),
         BudgetAt(p), FaultlessAt(p), Step(p) \/ Crash(p)
  PROVE  FaultlessAt(p)'
  <1> SUFFICES ASSUME faults' = 0
               PROVE  /\ clean'[p]
                      /\ pc'[p] \in Unreported => \A e \in Entries :
                           /\ link'[Claim(p, "probe-claim", e)] = NoInode
                           /\ temp'[p][e] # NoInode =>
                                e \in known'[p] \/ (pc'[p] = "write" /\ e = at'[p])
                      /\ pc'[p] \in {"cleanup", "settle"} =>
                           /\ \A t \in todo'[p] : t.kind # "preserve"
                           /\ \A k \in ClaimKinds, e \in Entries :
                                \/ link'[Claim(p, k, e)] = NoInode
                                \/ \E t \in todo'[p] :
                                     Settling(p, t)' /\ Claim(p, k, e) = ClaimOf(p, t)
    BY DEF FaultlessAt, Free, At, Unreported, EntryPhases
  <1>0. TypeInv /\ faults = 0
    BY FaultsGrow DEF SafeInv, TypeInv, EnvironmentType
  <1>1. /\ clean[p]
        /\ pc[p] \in Unreported => \A e \in Entries :
             /\ Free(Claim(p, "probe-claim", e))
             /\ temp[p][e] # NoInode => e \in known[p] \/ (At(p, "write") /\ e = at[p])
        /\ pc[p] \in {"cleanup", "settle"} =>
             /\ \A t \in todo[p] : t.kind # "preserve"
             /\ \A k \in ClaimKinds, e \in Entries :
                  \/ Free(Claim(p, k, e))
                  \/ \E t \in todo[p] : Settling(p, t) /\ Claim(p, k, e) = ClaimOf(p, t)
    BY <1>0 DEF FaultlessAt
  <1>2. CASE /\ Prepare(p) \/ Stage(p) \/ Install(p)
             /\ pc[p] \in Unreported /\ pc'[p] \in Unreported
    <2>1. clean'[p]
      BY <1>0, <1>1, <1>2, BlameIsCharged
    <2>2. ASSUME NEW e \in Entries
          PROVE  /\ link'[Claim(p, "probe-claim", e)] = NoInode
                 /\ temp'[p][e] # NoInode => e \in known'[p] \/ (pc'[p] = "write" /\ e = at'[p])
      BY <1>0, <1>1, <1>2, ProbesCharged, StagedIsKnown DEF Free
    <2>3. QED
      BY <1>2, <2>1, <2>2 DEF Unreported, EntryPhases
  <1>3. CASE Publish(p) /\ pc[p] = "publish" /\ pc'[p] = "cleanup" /\ at[p] = N
    <2>1. clean'[p]
      BY <1>0, <1>1, <1>3, BlameIsCharged DEF Install
    <2>2. ASSUME NEW t \in todo'[p] PROVE t.kind # "preserve"
      <3>1. todo'[p] = {Task("retire", b) : b \in backed[p]}
        BY <1>0, <1>3 DEF Publish, TypeInv, ReportType
      <3>2. QED
        BY <3>1 DEF Task
    <2>3. ASSUME NEW k \in ClaimKinds, NEW e \in Entries
          PROVE  link'[Claim(p, k, e)] = NoInode
      <3>1. CASE k = "probe-claim"
        BY <1>0, <1>1, <1>3, <3>1, ProbesCharged DEF Install, Free, Unreported, EntryPhases
      <3>2. CASE k # "probe-claim"
        <4>1. PlacedAt(p, e)'
          BY <1>3, LedgerPublish
        <4>2. QED
          BY <3>2, <4>1 DEF PlacedAt, Free
      <3>3. QED
        BY <3>1, <3>2
    <2>4. QED
      BY <1>3, <2>1, <2>2, <2>3 DEF Unreported, EntryPhases
  <1>4. CASE Abort(p)
    <2>1. /\ pc[p] = "abort" /\ pc'[p] = "cleanup" /\ link' = link /\ clean' = clean
          /\ todo'[p] = RollbackTasks(p)
      BY <1>0, <1>4 DEF Abort, At, Goto, TypeInv, ControlType, ReportType, fs
    <2>2. ASSUME NEW e \in Entries
          PROVE  /\ PlacedAt(p, e) /\ Free(Claim(p, "probe-claim", e))
                 /\ temp[p][e] # NoInode => e \in known[p]
      BY <1>1, <2>1 DEF LedgerAt, Unreported, At
    <2>3. ASSUME NEW t \in todo'[p] PROVE t.kind # "preserve"
      BY <2>1, <2>2, RollbackPieces
    <2>4. ASSUME NEW k \in ClaimKinds, NEW e \in Entries
          PROVE  link'[Claim(p, k, e)] = NoInode
      BY <2>1, <2>2 DEF PlacedAt, Free
    <2>5. QED
      BY <1>1, <2>1, <2>3, <2>4 DEF Unreported, EntryPhases
  <1>5. CASE Settles(p)
    <2>1. FaultlessAt(p)'
      BY <1>5, FaultlessSettled
    <2>2. QED
      BY <2>1 DEF FaultlessAt, Free, At, Unreported, EntryPhases
  <1>6. CASE Reports(p)
    <2>1. pc'[p] \in {"done", "sync"}
      BY <1>0, <1>6, ReportFrame
    <2>2. CASE Begin(p)
      BY <1>1, <2>1, <2>2 DEF Begin, Unreported, EntryPhases
    <2>3. CASE OpenQuarantineFails(p) /\ pc'[p] = "done"
      <3>1. clean' = clean
        <4>1. pc[p] = "open" /\ pc'[p] # "abort" /\ DOMAIN pc = Processes
          BY <1>0, <2>3 DEF OpenQuarantineFails, At, TypeInv, ControlType
        <4>2. RootDescriptors + QuarantineDescriptors <= capacity /\ capacity \in Nat
          BY <1>0, <4>1, BoundAssumption DEF BudgetAt, Live, TypeInv, EnvironmentType
        <4>3. ~(RootDescriptors + QuarantineDescriptors > capacity)
          BY <4>2 DEF RootDescriptors, QuarantineDescriptors
        <4>4. \/ Because(RootDescriptors + QuarantineDescriptors > capacity)
              \/ Goto(p, "abort") /\ UNCHANGED clean
          BY <2>3 DEF OpenQuarantineFails
        <4>5. UNCHANGED clean \/ Charge(1)
          BY <4>3, <4>4 DEF Because
        <4>6. QED
          BY <1>0, <4>5 DEF Charge
      <3>2. QED
        BY <1>1, <2>1, <3>1 DEF Unreported, EntryPhases
    <2>4. CASE RemoveQuarantine(p)
      <3>1. pc[p] = "cleanup" /\ todo[p] = {}
        BY <2>4 DEF RemoveQuarantine, At
      <3>2. QuarantineEmpty(p) /\ CanOpen(p)
        BY <1>1, <3>1 DEF QuarantineEmpty, BudgetAt
      <3>3. clean' = clean
        BY <1>0, <2>4, <3>2 DEF RemoveQuarantine, Because, Charge
      <3>4. QED
        BY <1>1, <2>1, <3>3 DEF Unreported, EntryPhases
    <2>5. CASE SyncDirectories(p)
      <3>1. clean' = clean
        BY <1>0, <2>5 DEF SyncDirectories, Charge
      <3>2. QED
        BY <1>1, <2>1, <3>1 DEF Unreported, EntryPhases
    <2>6. QED
      BY <1>6, <2>2, <2>3, <2>4, <2>5 DEF Reports
  <1>7. CASE Crash(p)
    BY <1>0, <1>1, <1>7 DEF Crash, Goto, TypeInv, ControlType, Unreported, EntryPhases
  <1>8. QED
    BY <1>0, <1>2, <1>3, <1>4, <1>5, <1>6, <1>7, StepKinds

-----------------------------------------------------------------------------
(* The invariant of a run that has the targets to itself.                  *)

(* At first every target is as it was, and no other name is taken.         *)
LEMMA InitUntouched ==
  ASSUME Init
  PROVE  /\ \A e \in Entries : Untouched(e)
         /\ \A n \in Names : n[1] # "target" => Free(n)
  <1>1. PICK home \in [existed -> Inodes] :
          /\ \A c, d \in existed : home[c] = home[d] => c = d
          /\ link = [n \in Names |->
                       IF n[1] = "target" /\ n[3] \in existed THEN home[n[3]] ELSE NoInode]
          /\ file = [i \in Inodes |->
                       IF \E d \in existed : home[d] = i
                       THEN File("original", Nobody, CHOOSE d \in existed : home[d] = i)
                       ELSE Nothing]
    BY DEF Init
  <1>2. ASSUME NEW e \in Entries PROVE Untouched(e)
    <2>1. Target(e) \in Names /\ Target(e)[1] = "target" /\ Target(e)[3] = e
      BY <1>2 DEF Target, Names
    <2>2. CASE e \in existed
      <3>1. link[Target(e)] = home[e] /\ home[e] \in Inodes
        BY <1>1, <2>1, <2>2
      <3>2. (CHOOSE d \in existed : home[d] = home[e]) = e
        BY <1>1, <2>2
      <3>3. file[home[e]] = File("original", Nobody, e)
        BY <1>1, <2>2, <3>1, <3>2
      <3>4. QED
        BY <2>2, <3>1, <3>3, NameAssumption DEF Untouched, OriginalAt, Free
    <2>3. CASE e \notin existed
      BY <1>1, <2>1, <2>3 DEF Untouched, Free
    <2>4. QED
      BY <2>2, <2>3
  <1>3. ASSUME NEW n \in Names, n[1] # "target" PROVE Free(n)
    BY <1>1, <1>3 DEF Free
  <1>4. QED
    BY <1>2, <1>3

LEMMA SoloInit == Init => SoloInv
  <1> SUFFICES ASSUME Init, NEW p \in Processes PROVE SoloAt(p)
    BY DEF SoloInv
  <1>1. /\ pc[p] = "idle" /\ outcome[p] = "none" /\ clean[p] /\ ~Live(p)
        /\ todo[p] = {} /\ backed[p] = {} /\ published[p] = {} /\ known[p] = {}
        /\ \A e \in Entries : temp[p][e] = NoInode /\ original[p][e] = NoInode
    BY DEF Init, Live
  <1>2. ASSUME NEW e \in Entries
        PROVE  Untouched(e) /\ \A k \in ClaimKinds : Free(Claim(p, k, e))
    <2>1. \A k \in ClaimKinds : Claim(p, k, e) \in Names /\ Claim(p, k, e)[1] # "target"
      BY NamesType DEF Claim, ClaimKinds
    <2>2. QED
      BY <2>1, InitUntouched
  <1>3. \A e \in Entries : PlacedAt(p, e)
    BY <1>1, <1>2 DEF PlacedAt
  <1>4. RecoverableAt(p)
    BY <1>3, InitType, LedgerRecovers
  <1>5. LedgerAt(p) /\ PhaseAt(p)
    BY <1>1, <1>3 DEF LedgerAt, PhaseAt, At, Unreported, EntryPhases
  <1>6. TasksAt(p) /\ UndoAt(p) /\ BudgetAt(p)
    BY <1>1 DEF TasksAt, UndoAt, BudgetAt, At, EntryPhases
  <1>7. FaultlessAt(p)
    BY <1>1, <1>2 DEF FaultlessAt, ClaimKinds
  <1>8. QED
    BY <1>4, <1>5, <1>6, <1>7 DEF SoloAt

(* A run does not edit.                                                    *)
LEMMA NoEdit ==
  ASSUME TypeInv, NEW p, Processes = {p}, Next
  PROVE  edits' \in Nat /\ (edits' = 0 => edits = 0 /\ (Step(p) \/ Crash(p)))
  <1>0. edits \in Nat
    BY DEF TypeInv, EnvironmentType
  <1>1. CASE Step(p) \/ Crash(p)
    <2>1. edits' = edits
      BY <1>1
         DEF Step, Prepare, Stage, Install, Finish, env,
             Begin, OpenQuarantine, OpenQuarantineFails, OpenParents, OpenParentsFails,
             Preflight, PreflightFails, ProbeOut,
             ProbeOutFails, ProbeBack, ProbeBackFails, StageCreate, StageCreateFails, StageWrite,
             StageWriteFails, IdentifyAbsent, Identify, IdentifyFails, Displace, DisplaceFails,
             Publish, PublishFails, Abort, ClaimFile, ClaimFileFails, Discard, Restore, PutBack,
             Strand, RemoveQuarantine, SyncDirectories, Crash
    <2>2. QED
      BY <1>0, <1>1, <2>1
  <1>2. CASE \E e \in Entries : Edit(e)
    BY <1>0, <1>2 DEF Edit
  <1>3. QED
    BY <1>1, <1>2 DEF Next

LEMMA SoloStep ==
  ASSUME NEW p, Processes = {p}, SafeInv, SoloInv, [Next]_vars
  PROVE  SoloInv'
  <1>1. CASE UNCHANGED vars
    <2> USE DEF vars, fs, ledger, env
    <2>1. SoloAt(p) => SoloAt(p)'
      <3>1. RecoverableAt(p) => RecoverableAt(p)'
        BY <1>1 DEF RecoverableAt, Somewhere, OriginalAt, Free
      <3>2. LedgerAt(p) => LedgerAt(p)'
        BY <1>1 DEF LedgerAt, PlacedAt, Untouched, OriginalAt, Free
      <3>3. PhaseAt(p) => PhaseAt(p)'
        BY <1>1 DEF PhaseAt, At, StagedUpTo
      <3>4. TasksAt(p) => TasksAt(p)'
        BY <1>1 DEF TasksAt, TaskAt, Place, Settling, At, First, Expected, OriginalAt, Free
      <3>5. UndoAt(p) => UndoAt(p)'
        BY <1>1 DEF UndoAt, At, Untouched, OriginalAt, Free
      <3>6. BudgetAt(p) => BudgetAt(p)'
        BY <1>1 DEF BudgetAt, Live, CanOpen, Used, At
      <3>7. FaultlessAt(p) => FaultlessAt(p)'
        BY <1>1 DEF FaultlessAt, Settling, At, First, Free
      <3>8. QED
        BY <3>1, <3>2, <3>3, <3>4, <3>5, <3>6, <3>7 DEF SoloAt
    <2>2. QED
      BY <1>1, <2>1 DEF SoloInv
  <1>2. CASE Next
    <2> SUFFICES ASSUME edits' = 0 PROVE SoloAt(p)'
      BY <1>2 DEF SoloInv
    <2>1. edits = 0 /\ (Step(p) \/ Crash(p)) /\ p \in Processes
      BY <1>2, NoEdit DEF SafeInv
    <2>2. SoloAt(p)
      BY <2>1 DEF SoloInv
    <2>3. BudgetAt(p)'
      BY <2>1, <2>2, BudgetKept DEF SafeInv, SoloAt
    <2>4. QED
      BY <2>1, <2>2, <2>3, LedgerKept, PhaseKept, TasksKept, UndoKept, RecoverableKept,
         FaultlessKept DEF SoloAt
  <1>3. QED
    BY <1>1, <1>2

LEMMA SoloInvariant ==
  ASSUME NEW p, Processes = {p}
  PROVE  Spec => [](SafeInv /\ SoloInv)
  <1>1. SafeInv /\ SoloInv /\ [Next]_vars => SoloInv'
    BY SoloStep
  <1>2. QED
    BY <1>1, SoloInit, SafeInvariant, PTL DEF Spec

(* A run that has the targets to itself can be killed, and any of its      *)
(* calls can fail, at any point: as long as nobody else edits the targets, *)
(* every original is at its target, at its backup name or in the           *)
(* quarantine until the new bundle is complete (OriginalsRecoverable).     *)
THEOREM RecoveryHolds ==
  ASSUME NEW p, Processes = {p}
  PROVE  Spec => []OriginalsRecoverable
  <1>1. SoloInv => OriginalsRecoverable
    BY DEF SoloInv, SoloAt, RecoverableAt, Somewhere, OriginalsRecoverable
  <1>2. QED
    BY <1>1, SoloInvariant, PTL

(* Whatever number of descriptors a run has: if none of its calls fails,   *)
(* it reports no cleanup error, wherever the descriptors run out, and      *)
(* however many entries the bundle has (ExhaustionIsClean).                *)
THEOREM ExhaustionHolds ==
  ASSUME NEW p, Processes = {p}
  PROVE  Spec => []ExhaustionIsClean
  <1>1. SoloInv => ExhaustionIsClean
    BY DEF SoloInv, SoloAt, FaultlessAt, ExhaustionIsClean
  <1>2. QED
    BY <1>1, SoloInvariant, PTL

-----------------------------------------------------------------------------
(* The refinement of BundlePublication.                                    *)

LEMMA Pending ==
  ASSUME NEW p, outcome[p] # "committed", pc[p] \notin {"done", "crashed"}
  PROVE  Result(p) = "pending"
  BY DEF Result, At

LEMMA ResultType ==
  ASSUME NEW p
  PROVE  /\ Result(p) \in {"pending", "published", "kept", "damaged"}
         /\ \A e : View(p, e) \in {"old", "new", "gone"}
         /\ outcome[p] = "committed" <=> Result(p) = "published"
         /\ outcome[p] # "committed" /\ pc[p] \in {"done", "crashed"} =>
              \/ Result(p) = "kept" /\ clean[p] /\ pc[p] = "done"
              \/ Result(p) = "damaged"
  <1>1. Result(p) \in {"pending", "published", "kept", "damaged"}
    BY DEF Result
  <1>2. ASSUME NEW e PROVE View(p, e) \in {"old", "new", "gone"}
    BY DEF View
  <1>3. outcome[p] = "committed" <=> Result(p) = "published"
    BY DEF Result
  <1>4. outcome[p] # "committed" /\ pc[p] \in {"done", "crashed"} =>
          \/ Result(p) = "kept" /\ clean[p] /\ pc[p] = "done"
          \/ Result(p) = "damaged"
    BY DEF Result, At
  <1>5. QED
    BY <1>1, <1>2, <1>3, <1>4

(* The same of the state after a step.                                     *)
LEMMA ResultNext ==
  ASSUME NEW p
  PROVE  /\ outcome'[p] # "committed" /\ pc'[p] \notin {"done", "crashed"} =>
              Result(p)' = "pending"
         /\ Result(p)' \in {"pending", "published", "kept", "damaged"}
         /\ \A e : View(p, e)' \in {"old", "new", "gone"}
         /\ outcome'[p] = "committed" <=> Result(p)' = "published"
         /\ outcome'[p] # "committed" /\ pc'[p] \in {"done", "crashed"} =>
              \/ Result(p)' = "kept" /\ clean'[p] /\ pc'[p] = "done"
              \/ Result(p)' = "damaged"
         /\ \A e : Result(p)' = "pending" \/ Untouched(e)' => View(p, e)' = "old"
         /\ \A e : Result(p)' # "pending" /\ ~Untouched(e)' /\ StagedAt(Target(e), p, e)' =>
              View(p, e)' = "new"
  <1>1. /\ Result(p)' \in {"pending", "published", "kept", "damaged"}
        /\ outcome'[p] # "committed" /\ pc'[p] \notin {"done", "crashed"} =>
              Result(p)' = "pending"
    BY DEF Result, At
  <1>2. ASSUME NEW e
        PROVE  /\ View(p, e)' \in {"old", "new", "gone"}
               /\ Result(p)' = "pending" \/ Untouched(e)' => View(p, e)' = "old"
               /\ Result(p)' # "pending" /\ ~Untouched(e)' /\ StagedAt(Target(e), p, e)' =>
                    View(p, e)' = "new"
    BY DEF View
  <1>3. outcome'[p] = "committed" <=> Result(p)' = "published"
    BY DEF Result
  <1>4. outcome'[p] # "committed" /\ pc'[p] \in {"done", "crashed"} =>
          \/ Result(p)' = "kept" /\ clean'[p] /\ pc'[p] = "done"
          \/ Result(p)' = "damaged"
    BY DEF Result, At
  <1>5. QED
    BY <1>1, <1>2, <1>3, <1>4

(* A step that leaves the targets as they are and publishes nothing new is *)
(* not seen.                                                               *)
LEMMA Unseen ==
  ASSUME SafeInv, NEW p \in Processes, Step(p) \/ Crash(p), NEW e \in Entries,
         outcome[p] = "committed", outcome'[p] = "committed",
         link'[Target(e)] = link[Target(e)], file' = file
  PROVE  View(p, e)' = View(p, e)
  <1>1. existed' = existed
    BY PublishedGrows DEF SafeInv
  <1>2. Untouched(e)' <=> Untouched(e)
    BY <1>1 DEF Untouched, OriginalAt, Free
  <1>3. StagedAt(Target(e), p, e)' <=> StagedAt(Target(e), p, e)
    BY DEF StagedAt, Free
  <1>4. Result(p) # "pending" /\ Result(p)' # "pending"
    BY DEF Result
  <1>5. View(p, e)' = IF Untouched(e)' THEN "old"
                      ELSE IF StagedAt(Target(e), p, e)' THEN "new" ELSE "gone"
    BY <1>4 DEF View
  <1>6. View(p, e) = IF Untouched(e) THEN "old"
                     ELSE IF StagedAt(Target(e), p, e) THEN "new" ELSE "gone"
    BY <1>4 DEF View
  <1>7. QED
    BY <1>2, <1>3, <1>5, <1>6

(* After complete publication only backups and their claims move.          *)
LEMMA RetiresBackups ==
  ASSUME SafeInv, NEW p \in Processes, TasksAt(p), Settles(p), outcome[p] = "committed",
         NEW e \in Entries
  PROVE  link'[Target(e)] = link[Target(e)] /\ file' = file /\ outcome' = outcome
  <1>0. TypeInv
    BY DEF SafeInv
  <1>1. PICK t \in Tasks : First(p, t) /\ TaskStep(p, t)
    BY <1>0, SettlesTask
  <1>2. pc[p] \in {"cleanup", "settle"} /\ file' = file /\ outcome' = outcome
    BY <1>0, SettlesTask
  <1>3. t.kind = "retire"
    BY <1>1, <1>2 DEF First, TasksAt, TaskAt
  <1>4. /\ Target(e) # Source(p, t) /\ Target(e) # ClaimOf(p, t)
        /\ Target(e) \in Names /\ Source(p, t) \in Names /\ ClaimOf(p, t) \in Names
    BY <1>3, TaskNames, NamesApart, NamesType, TaskNamesType DEF Source
  <1>5. link'[Target(e)] = link[Target(e)]
    BY <1>0, <1>1, <1>3, <1>4
       DEF TaskStep, Claims, Preserves, Misses, Discards, Restores, PutsBack, Strands, Move,
           Unlink, TypeInv, FileSystemType
  <1>6. QED
    BY <1>2, <1>5

(* The step that completes the publication is seen at every target.        *)
LEMMA PublicationSeen ==
  ASSUME SafeInv, NEW p \in Processes, LedgerAt(p), PhaseAt(p), Publish(p),
         pc'[p] = "cleanup", NEW e \in Entries
  PROVE  Result(p)' = "published" /\ View(p, e)' = "new"
  <1>0. TypeInv /\ at[p] = N /\ Step(p)
    BY DEF SafeInv, TypeInv, ControlType, Publish, Advance, Goto, Step, Install
  <1>1. outcome'[p] = "committed" /\ Result(p)' = "published"
    BY TasksPublished, ResultNext
  <1>2. /\ pc[p] = "publish" /\ file' = file /\ temp' = temp
        /\ published' = [published EXCEPT ![p] = @ \cup {at[p]}]
    BY DEF Publish, At
  <1>3. published[p] = 1 .. (N - 1)
    BY <1>0, <1>2 DEF SafeInv, ProgressOK, At
  <1>4. e \in published'[p]
    BY <1>0, <1>2, <1>3, SizeAssumption DEF Entries, TypeInv, LedgerType
  <1>5. file[temp[p][e]] = File("staged", p, e)
    BY <1>2 DEF PhaseAt, StagedUpTo, Entries
  <1>6. PlacedAt(p, e)'
    BY LedgerPublish
  <1>7. link'[Target(e)] = temp[p][e] /\ temp[p][e] # NoInode
    BY <1>2, <1>4, <1>6 DEF PlacedAt
  <1>8. StagedAt(Target(e), p, e)'
    BY <1>2, <1>5, <1>7 DEF StagedAt, Free
  <1>9. ~Untouched(e)'
    BY <1>2, <1>5, <1>7, NameAssumption DEF Untouched, OriginalAt, Free, File
  <1>10. QED
    BY <1>1, <1>8, <1>9, ResultNext

(* What a step of the run is to those who wait for its result.             *)
LEMMA PromiseStep ==
  ASSUME SafeInv, NEW p \in Processes, SoloAt(p), SoloAt(p)', Step(p) \/ Crash(p)
  PROVE  \/ Result(p)' = Result(p) /\ \A e \in Entries : View(p, e)' = View(p, e)
         \/ /\ Result(p) = "pending" /\ Result(p)' = "published"
            /\ \A e \in Entries : View(p, e)' = "new"
         \/ /\ Result(p) = "pending" /\ Result(p)' = "kept"
            /\ \A e \in Entries : View(p, e)' = View(p, e)
         \/ Result(p) = "pending" /\ Result(p)' = "damaged"
  <1>0. /\ TypeInv /\ LedgerAt(p) /\ PhaseAt(p) /\ TasksAt(p)
        /\ TasksAt(p)' /\ UndoAt(p)'
    BY DEF SafeInv, SoloAt
  <1>1. ASSUME Result(p) = "pending", Result(p)' = "pending" \/ \A e \in Entries : Untouched(e)'
        PROVE  \A e \in Entries : View(p, e)' = View(p, e)
    <2>1. \A e \in Entries : View(p, e) = "old"
      BY <1>1 DEF View
    <2>2. QED
      BY <1>1, <2>1, ResultNext
  <1>2. CASE /\ Prepare(p) \/ Stage(p) \/ Install(p)
             /\ pc[p] \in Unreported /\ pc'[p] \in Unreported
    <2>1. outcome[p] = "none" /\ outcome'[p] = "none"
      BY <1>2, ProgressStep DEF SafeInv, ProgressOK
    <2>2. Result(p) = "pending" /\ Result(p)' = "pending"
      BY <1>2, <2>1, Pending, ResultNext DEF Unreported, EntryPhases
    <2>3. QED
      BY <1>1, <2>2
  <1>3. CASE Publish(p) /\ pc[p] = "publish" /\ pc'[p] = "cleanup"
    <2>1. outcome[p] = "none"
      BY <1>3 DEF SafeInv, ProgressOK, Unreported, EntryPhases
    <2>2. Result(p) = "pending"
      BY <1>3, <2>1, Pending
    <2>3. Result(p)' = "published"
      BY <1>0, <1>3, TasksPublished, ResultNext
    <2>4. \A e \in Entries : View(p, e)' = "new"
      BY <1>0, <1>3, PublicationSeen
    <2>5. QED
      BY <2>2, <2>3, <2>4
  <1>4. CASE Abort(p)
    <2>1. /\ pc[p] = "abort" /\ outcome[p] = "none"
          /\ pc'[p] = "cleanup" /\ outcome'[p] = "failed"
      BY <1>0, <1>4 DEF Abort, At, Goto, SafeInv, ProgressOK, Unreported, TypeInv, ControlType,
         ReportType
    <2>2. Result(p) = "pending" /\ Result(p)' = "pending"
      BY <2>1, Pending, ResultNext
    <2>3. QED
      BY <1>1, <2>2
  <1>5. CASE Settles(p)
    <2>1. pc[p] \in {"cleanup", "settle"} /\ pc'[p] \in {"cleanup", "settle"} /\ outcome' = outcome
      <3>1. pc[p] \in {"cleanup", "settle"} /\ outcome' = outcome
        BY <1>0, <1>5, SettlesTask
      <3>2. PICK t \in Tasks : TaskStep(p, t)
        BY <1>0, <1>5, SettlesTask
      <3>3. pc'[p] \in {"cleanup", "settle"}
        BY <3>2 DEF TaskStep, Claims, Preserves, Misses, Discards, Restores, PutsBack, Strands
      <3>4. QED
        BY <3>1, <3>3
    <2>2. CASE outcome[p] = "committed"
      <3>1. \A e \in Entries : View(p, e)' = View(p, e)
        BY <1>0, <1>5, <2>2, RetiresBackups, Unseen
      <3>2. Result(p) = "published" /\ Result(p)' = "published"
        BY <2>1, <2>2, ResultType, ResultNext
      <3>3. QED
        BY <3>1, <3>2
    <2>3. CASE outcome[p] # "committed"
      <3>1. Result(p) = "pending" /\ Result(p)' = "pending"
        BY <2>1, <2>3, Pending, ResultNext
      <3>2. QED
        BY <1>1, <3>1
    <2>4. QED
      BY <2>2, <2>3
  <1>6. CASE Reports(p)
    <2>1. /\ link' = link /\ file' = file /\ pc[p] \in {"idle", "open", "cleanup", "sync"}
          /\ \/ pc[p] \in {"idle", "open"} /\ pc'[p] = "done" /\ outcome'[p] = "failed"
             \/ pc'[p] \in {"sync", "done"} /\ outcome' = outcome
      BY <1>0, <1>6, ReportFrame
    <2>2. CASE outcome'[p] = "committed"
      <3>1. outcome[p] = "committed"
        BY <2>1, <2>2
      <3>2. \A e \in Entries : View(p, e)' = View(p, e)
        BY <2>1, <2>2, <3>1, Unseen
      <3>3. Result(p) = "published" /\ Result(p)' = "published"
        BY <2>2, <3>1, ResultType, ResultNext
      <3>4. QED
        BY <3>2, <3>3
    <2>3. CASE outcome'[p] # "committed"
      <3>1. outcome[p] # "committed"
        BY <2>1, <2>3 DEF SafeInv, ProgressOK, Unreported
      <3>2. Result(p) = "pending"
        BY <2>1, <3>1, Pending
      <3>3. CASE pc'[p] = "sync"
        <4>1. Result(p)' = "pending"
          BY <2>3, <3>3, ResultNext
        <4>2. QED
          BY <1>1, <3>2, <4>1
      <3>4. CASE pc'[p] = "done" /\ clean'[p] /\ Result(p)' = "kept"
        <4>1. outcome'[p] = "failed" /\ todo'[p] = {}
          <5>1. TypeInv'
            BY <1>0, TypeStep DEF Next
          <5>2. QED
            BY <1>0, <2>3, <3>4, <5>1 DEF TasksAt, TypeInv, ReportType
        <4>2. \A e \in Entries : Untouched(e)'
          BY <1>0, <3>4, <4>1 DEF UndoAt, At
        <4>3. QED
          BY <1>1, <3>2, <3>4, <4>2
      <3>5. CASE pc'[p] = "done" /\ Result(p)' = "damaged"
        BY <3>2, <3>5
      <3>6. QED
        BY <2>1, <2>3, <3>3, <3>4, <3>5, ResultNext
    <2>4. QED
      BY <2>2, <2>3
  <1>7. CASE Crash(p)
    <2>1. /\ link' = link /\ file' = file /\ outcome' = outcome
          /\ pc[p] \notin {"done", "crashed"} /\ pc'[p] = "crashed"
      BY <1>0, <1>7 DEF Crash, Live, Goto, fs, TypeInv, ControlType
    <2>2. CASE outcome[p] = "committed"
      <3>1. \A e \in Entries : View(p, e)' = View(p, e)
        BY <2>1, <2>2, Unseen
      <3>2. Result(p) = "published" /\ Result(p)' = "published"
        BY <2>1, <2>2, ResultType, ResultNext
      <3>3. QED
        BY <3>1, <3>2
    <2>3. CASE outcome[p] # "committed"
      BY <2>1, <2>3, Pending, ResultNext
    <2>4. QED
      BY <2>2, <2>3
  <1>8. QED
    BY <1>0, <1>2, <1>3, <1>4, <1>5, <1>6, <1>7, StepKinds

LEMMA PromiseInit ==
  ASSUME NEW p, Processes = {p}, Init
  PROVE  Promise!Init
  <1>1. Solo = p
    BY DEF Solo
  <1>2. Result(p) = "pending"
    BY Pending DEF Init
  <1>3. \A e \in Entries : View(p, e) = "old"
    BY <1>2 DEF View
  <1>4. ~(edits > 0)
    BY DEF Init
  <1>5. QED
    BY <1>1, <1>2, <1>3, <1>4 DEF Promise!Init

LEMMA PromiseNext ==
  ASSUME NEW p, Processes = {p}, SafeInv, SoloInv, SoloInv', [Next]_vars
  PROVE  [Promise!Next]_<<Result(Solo), [e \in Entries |-> View(Solo, e)], edits > 0>>
  <1>0. Solo = p
    BY DEF Solo
  <1>1. CASE UNCHANGED vars
    <2>1. Result(p)' = Result(p)
      BY <1>1 DEF vars, Result, At
    <2>2. \A e : View(p, e)' = View(p, e)
      BY <1>1, <2>1 DEF vars, fs, env, View, Untouched, StagedAt, OriginalAt, Free
    <2>3. (edits > 0)' = (edits > 0)
      BY <1>1 DEF vars, env
    <2>4. QED
      BY <1>0, <2>1, <2>2, <2>3
  <1>2. CASE Next /\ edits' # 0
    <2>1. edits' > 0
      BY <1>2, NoEdit DEF SafeInv
    <2>2. Result(p)' \in Promise!Results
      BY ResultNext DEF Promise!Results
    <2>3. \A e \in Entries : View(p, e)' \in Promise!Views
      BY ResultNext DEF Promise!Views
    <2>4. QED
      BY <1>0, <2>1, <2>2, <2>3 DEF Promise!Next, Promise!Disturb
  <1>3. CASE Next /\ edits' = 0
    <2>1. edits = 0 /\ (Step(p) \/ Crash(p)) /\ p \in Processes
      BY <1>3, NoEdit DEF SafeInv
    <2>2. SoloAt(p) /\ SoloAt(p)'
      BY <1>3, <2>1 DEF SoloInv
    <2>3. ~(edits > 0) /\ ~(edits' > 0)
      BY <1>3, <2>1
    <2>4. CASE Result(p)' = Result(p) /\ \A e \in Entries : View(p, e)' = View(p, e)
      BY <1>0, <2>3, <2>4
    <2>5. CASE /\ Result(p) = "pending" /\ Result(p)' = "published"
               /\ \A e \in Entries : View(p, e)' = "new"
      BY <1>0, <2>3, <2>5 DEF Promise!Next, Promise!Publish
    <2>6. CASE /\ Result(p) = "pending" /\ Result(p)' = "kept"
               /\ \A e \in Entries : View(p, e)' = View(p, e)
      BY <1>0, <2>3, <2>6 DEF Promise!Next, Promise!Keep
    <2>7. CASE Result(p) = "pending" /\ Result(p)' = "damaged"
      <3>1. \A e \in Entries : View(p, e)' \in Promise!Views
        BY ResultNext DEF Promise!Views
      <3>2. [e \in Entries |-> View(Solo, e)]' \in [Entries -> Promise!Views]
        BY <1>0, <3>1
      <3>3. Result(Solo) = "pending" /\ Result(Solo)' = "damaged" /\ ~(edits > 0)'
        BY <1>0, <2>3, <2>7
      <3>4. Promise!Damage
        BY <3>2, <3>3 DEF Promise!Damage
      <3>5. QED
        BY <3>4 DEF Promise!Next
    <2>8. QED
      BY <2>1, <2>2, <2>4, <2>5, <2>6, <2>7, PromiseStep
  <1>4. QED
    BY <1>1, <1>2, <1>3

(* The publication of a run that has the targets to itself implements the  *)
(* publication in one step of BundlePublication (KeepsPromise): for every  *)
(* number of entries, of descriptors and of failing calls, and wherever it *)
(* is killed.                                                              *)
THEOREM PublicationIsOneStep ==
  ASSUME NEW p, Processes = {p}
  PROVE  Spec => KeepsPromise
  <1>1. Init => Promise!Init
    BY PromiseInit
  <1>2. SafeInv /\ SoloInv /\ SoloInv' /\ [Next]_vars =>
          [Promise!Next]_<<Result(Solo), [e \in Entries |-> View(Solo, e)], edits > 0>>
    BY PromiseNext
  <1>3. QED
    BY <1>1, <1>2, SoloInvariant, PTL DEF Spec, KeepsPromise, Promise!Spec

=============================================================================
