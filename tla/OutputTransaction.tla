-------------------------- MODULE OutputTransaction --------------------------
(***************************************************************************)
(* The transaction with which the circuitc command publishes a bundle of   *)
(* files into an output directory (anchored_output::write_outputs_with_    *)
(* hooks, cmd/circuitc/main.rs).  Several processes may publish the same   *)
(* bundle into the same directory, another actor may edit the targets,     *)
(* any call of the file system may fail, and a process may be killed.      *)
(*                                                                         *)
(* The output directory and the parents of the targets exist: making and   *)
(* removing them is the subject of OutputDirectories.                      *)
(* An inode is an identity (st_dev, st_ino): it may be handed out again as *)
(* soon as no name and no open descriptor keeps it.                        *)
(***************************************************************************)
EXTENDS Naturals, FiniteSets

CONSTANTS
  N,            \* entries of the bundle, published in the order 1 .. N
  Processes,    \* runs of the command on this bundle
  Pids,         \* process identifiers
  Pid,          \* Pid[p]: the identifier the kernel gives to run p
  Inodes,       \* inode numbers of the file system
  NoInode,      \* what a free name leads to
  Nobody,       \* owner of the names and files no process made
  Capacities,   \* descriptors a run may find available
  MaxFaults,    \* bound: file system calls that fail
  MaxEdits,     \* bound: changes another actor makes to the targets
  MayCrash      \* runs that may be killed

Entries == 1 .. N

(* Descriptors: of the root, of the quarantine (its parent and itself), and *)
(* those opened on /dev/null to be given back for the cleanup.             *)
RootDescriptors == 1
QuarantineDescriptors == 2
ReservedDescriptors == 4
PinnedDescriptors == RootDescriptors + QuarantineDescriptors + ReservedDescriptors

ASSUME SizeAssumption == N \in Nat \ {0}
ASSUME PidAssumption == Pid \in [Processes -> Pids]
ASSUME BoundAssumption ==
  /\ MaxFaults \in Nat /\ MaxEdits \in Nat
  /\ Capacities \subseteq Nat /\ MayCrash \subseteq Processes
ASSUME NameAssumption ==
  /\ NoInode \notin Inodes
  /\ Nobody \notin Processes /\ Nobody \notin Pids

-----------------------------------------------------------------------------
(* Names.  The staging names carry the process identifier, the names in    *)
(* the quarantine are private to the run: its directory has a random name. *)

StagingKinds == {"temporary", "backup", "probe"}
ClaimKinds == {"published-claim", "temporary-claim", "backup-claim", "probe-claim"}

Target(e) == <<"target", Nobody, e>>
Temporary(p, e) == <<"temporary", Pid[p], e>>
Backup(p, e) == <<"backup", Pid[p], e>>
Probe(p, e) == <<"probe", Pid[p], e>>
Claim(p, k, e) == <<k, p, e>>

Names ==
  ({"target"} \X {Nobody} \X Entries)
    \cup (StagingKinds \X Pids \X Entries)
    \cup (ClaimKinds \X Processes \X Entries)

(* What a file holds, and who put it there.                                *)
Files ==
  [kind : {"original", "edited", "irregular"}, owner : {Nobody}, entry : Entries]
    \cup [kind : {"probe", "partial", "staged"}, owner : Processes, entry : Entries]
    \cup [kind : {"nothing"}, owner : {Nobody}, entry : {0}]

File(k, o, e) == [kind |-> k, owner |-> o, entry |-> e]
Nothing == File("nothing", Nobody, 0)

(* A piece of rollback or of cleanup: what to do with which entry.         *)
TaskKinds == {"unpublish", "restore", "unstage", "preserve", "retire"}
Tasks == [kind : TaskKinds, entry : Entries]

VARIABLES
  link,       \* link[n]: the inode the name n leads to
  file,       \* file[i]: what inode i holds
  pc,         \* pc[p]: the phase of run p
  at,         \* at[p]: the entry the phase is at
  had,        \* had[p]: entries whose target existed at the pinned preflight
  temp,       \* temp[p][e]: inode staged for e, its descriptor retained
  known,      \* known[p]: staged entries whose identity was recorded
  original,   \* original[p][e]: inode found at the target, its descriptor retained
  backed,     \* backed[p]: entries registered as backed up
  published,  \* published[p]: entries registered as published
  todo,       \* todo[p]: what rollback or backup cleanup has left to do
  outcome,    \* outcome[p]: what the run reports
  clean,      \* clean[p]: no cleanup error was recorded
  quarantine, \* runs whose quarantine directory exists
  pinned,     \* pinned[p]: descriptors of directories and of the reserve
  capacity,   \* descriptors each run has
  existed,    \* targets that existed before anything ran
  faults,     \* calls that have failed
  edits       \* changes made by the other actor

fs == <<link, file>>
ledger == <<had, temp, known, original, backed, published>>
env == <<capacity, existed, faults, edits>>
vars == <<link, file, pc, at, ledger, todo, outcome, clean, quarantine, pinned, env>>

-----------------------------------------------------------------------------
(* The file system.                                                        *)

Free(n) == link[n] = NoInode
Linked(i) == \E n \in Names : link[n] = i
Irregular(n) == ~Free(n) /\ file[link[n]].kind = "irregular"

(* A mutant: rename(2), which replaces.                                    *)
CanMoveOver(a, b) == ~Free(a)

(* rename with RENAME_NOREPLACE and unlink, as the name table they leave.  *)
CanMove(a, b) == ~Free(a) /\ Free(b)
Move(a, b) == [link EXCEPT ![b] = link[a], ![a] = NoInode]
Unlink(a) == [link EXCEPT ![a] = NoInode]

Live(p) == pc[p] \notin {"idle", "done", "crashed"}

(* Inodes that a run keeps alive: the descriptors of the staged files and  *)
(* of the displaced originals, closed when the transaction returns.        *)
Held(p) ==
  IF Live(p) THEN ({temp[p][e] : e \in Entries} \cup {original[p][e] : e \in Entries}) \ {NoInode}
             ELSE {}

Allocatable == {i \in Inodes : ~Linked(i) /\ \A p \in Processes : i \notin Held(p)}

(* One more descriptor can be opened.                                      *)
Used(p) ==
  pinned[p] + Cardinality({e \in Entries : temp[p][e] # NoInode})
            + Cardinality({e \in Entries : original[p][e] # NoInode})
CanOpen(p) == Used(p) < capacity

(* n calls fail: the only bound on failures.                               *)
Charge(n) == faults + n <= MaxFaults /\ faults' = faults + n

TypeOK ==
  /\ link \in [Names -> Inodes \cup {NoInode}]
  /\ file \in [Inodes -> Files]
  /\ pc \in [Processes -> {"idle", "open", "parents", "preflight", "probe", "probing",
                           "stage", "write", "identify", "displace", "publish", "abort",
                           "cleanup", "settle", "sync", "done", "crashed"}]
  /\ at \in [Processes -> 0 .. N]
  /\ had \in [Processes -> SUBSET Entries]
  /\ temp \in [Processes -> [Entries -> Inodes \cup {NoInode}]]
  /\ known \in [Processes -> SUBSET Entries]
  /\ original \in [Processes -> [Entries -> Inodes \cup {NoInode}]]
  /\ backed \in [Processes -> SUBSET Entries]
  /\ published \in [Processes -> SUBSET Entries]
  /\ todo \in [Processes -> SUBSET Tasks]
  /\ outcome \in [Processes -> {"none", "failed", "committed"}]
  /\ clean \in [Processes -> BOOLEAN]
  /\ quarantine \in SUBSET Processes
  /\ pinned \in [Processes -> Nat]
  /\ capacity \in Capacities /\ existed \in SUBSET Entries
  /\ faults \in Nat /\ edits \in Nat

Init ==
  /\ existed \in SUBSET Entries
  /\ capacity \in Capacities
  /\ \E home \in [existed -> Inodes] :
       /\ \A d, e \in existed : home[d] = home[e] => d = e
       /\ link = [n \in Names |->
                    IF n[1] = "target" /\ n[3] \in existed THEN home[n[3]] ELSE NoInode]
       /\ file = [i \in Inodes |->
                    IF \E e \in existed : home[e] = i
                    THEN File("original", Nobody, CHOOSE e \in existed : home[e] = i)
                    ELSE Nothing]
  /\ pc = [p \in Processes |-> "idle"]
  /\ at = [p \in Processes |-> 0]
  /\ had = [p \in Processes |-> {}]
  /\ temp = [p \in Processes |-> [e \in Entries |-> NoInode]]
  /\ known = [p \in Processes |-> {}]
  /\ original = [p \in Processes |-> [e \in Entries |-> NoInode]]
  /\ backed = [p \in Processes |-> {}]
  /\ published = [p \in Processes |-> {}]
  /\ todo = [p \in Processes |-> {}]
  /\ outcome = [p \in Processes |-> "none"]
  /\ clean = [p \in Processes |-> TRUE]
  /\ quarantine = {}
  /\ pinned = [p \in Processes |-> 0]
  /\ faults = 0
  /\ edits = 0

-----------------------------------------------------------------------------
(* Control.                                                                *)

At(p, phase) == pc[p] = phase
Goto(p, phase) == pc' = [pc EXCEPT ![p] = phase]

(* The next turn of a loop over the entries, or the phase after the loop.  *)
Advance(p, loop, after) ==
  /\ Goto(p, IF at[p] = N THEN after ELSE loop)
  /\ at' = [at EXCEPT ![p] = IF at[p] = N THEN 1 ELSE at[p] + 1]

Blame(p) == clean' = [clean EXCEPT ![p] = FALSE]

(* The reserve is given back, if there is one.                             *)
ReleaseReserve(p) ==
  pinned' = [pinned EXCEPT ![p] = IF @ >= PinnedDescriptors THEN @ - ReservedDescriptors ELSE @]

(* Every error before complete publication ends in rollback.               *)
Fail(p) == Goto(p, "abort") /\ UNCHANGED at

(* The error is the environment's: a condition that holds, or a failed call. *)
Because(condition) == (condition /\ UNCHANGED faults) \/ Charge(1)

-----------------------------------------------------------------------------
(* Preparation.                                                            *)

(* A run starts when the kernel gives it an identifier no live run has,    *)
(* pins the root and inspects every target without changing anything: with *)
(* the root, a parent and a target open at once.                           *)
Begin(p) ==
  /\ At(p, "idle")
  /\ \A q \in Processes : Pid[q] = Pid[p] => ~Live(q)
  /\ \/ /\ RootDescriptors + 2 <= capacity
        /\ \A e \in Entries : ~Irregular(Target(e))
        /\ Goto(p, "open")
        /\ pinned' = [pinned EXCEPT ![p] = RootDescriptors]
        /\ UNCHANGED <<outcome, faults>>
     \/ /\ Because(RootDescriptors + 2 > capacity \/ \E e \in Entries : Irregular(Target(e)))
        /\ Goto(p, "done")
        /\ outcome' = [outcome EXCEPT ![p] = "failed"]
        /\ UNCHANGED pinned
  /\ UNCHANGED <<fs, at, ledger, todo, clean, quarantine, capacity, existed, edits>>

OpenQuarantine(p) ==
  /\ At(p, "open")
  /\ PinnedDescriptors <= capacity
  /\ pinned' = [pinned EXCEPT ![p] = PinnedDescriptors]
  /\ quarantine' = quarantine \cup {p}
  /\ Goto(p, "parents")
  /\ UNCHANGED <<fs, at, ledger, todo, outcome, clean, env>>

(* Without a quarantine there is nothing to roll back; one that was made   *)
(* and cannot be opened stays.  Without a reserve the root's descriptor is *)
(* given up, so that the quarantine can be opened again to be removed.     *)
OpenQuarantineFails(p) ==
  /\ At(p, "open")
  /\ \/ /\ Because(RootDescriptors + QuarantineDescriptors > capacity)
        /\ Goto(p, "done")
        /\ outcome' = [outcome EXCEPT ![p] = "failed"]
        /\ pinned' = [pinned EXCEPT ![p] = 0]
        /\ \/ UNCHANGED <<quarantine, clean>>
           \/ quarantine' = quarantine \cup {p} /\ Blame(p)
     \/ /\ RootDescriptors + QuarantineDescriptors <= capacity
        /\ Because(PinnedDescriptors > capacity)
        /\ Goto(p, "abort")
        /\ pinned' = [pinned EXCEPT ![p] = QuarantineDescriptors]
        /\ quarantine' = quarantine \cup {p}
        /\ UNCHANGED <<outcome, clean>>
  /\ UNCHANGED <<fs, at, ledger, todo, capacity, existed, edits>>

(* A descriptor of the parent of every entry.                              *)
OpenParents(p) ==
  /\ At(p, "parents")
  /\ pinned[p] + N <= capacity
  /\ pinned' = [pinned EXCEPT ![p] = @ + N]
  /\ at' = [at EXCEPT ![p] = 1]
  /\ Goto(p, "preflight")
  /\ UNCHANGED <<fs, ledger, todo, outcome, clean, quarantine, env>>

OpenParentsFails(p) ==
  /\ At(p, "parents")
  /\ Because(pinned[p] + N > capacity)
  /\ Fail(p)
  /\ UNCHANGED <<fs, ledger, todo, outcome, clean, quarantine, pinned, capacity, existed, edits>>

StagingNamesFree(p, e) ==
  Free(Temporary(p, e)) /\ Free(Backup(p, e)) /\ Free(Probe(p, e))

Preflight(p) ==
  LET e == at[p] IN
  /\ At(p, "preflight")
  /\ CanOpen(p) /\ ~Irregular(Target(e)) /\ StagingNamesFree(p, e)
  /\ had' = [had EXCEPT ![p] = IF Free(Target(e)) THEN @ ELSE @ \cup {e}]
  /\ Advance(p, "preflight", "probe")
  /\ UNCHANGED <<fs, temp, known, original, backed, published,
                 todo, outcome, clean, quarantine, pinned, env>>

PreflightFails(p) ==
  LET e == at[p] IN
  /\ At(p, "preflight")
  /\ Because(~CanOpen(p) \/ Irregular(Target(e)) \/ ~StagingNamesFree(p, e))
  /\ Fail(p)
  /\ UNCHANGED <<fs, ledger, todo, outcome, clean, quarantine, pinned, capacity, existed, edits>>

(* The rename probe: a file made in the quarantine is renamed to the       *)
(* parent of the target and back, then removed.  Its descriptor is closed  *)
(* at once, so it can be opened again whenever it could be created.        *)
ProbeOut(p) ==
  LET e == at[p] IN
  /\ At(p, "probe")
  /\ CanOpen(p) /\ Free(Probe(p, e))
  /\ \E i \in Allocatable :
       /\ link' = [link EXCEPT ![Probe(p, e)] = i]
       /\ file' = [file EXCEPT ![i] = File("probe", p, e)]
  /\ Goto(p, "probing")
  /\ UNCHANGED <<at, ledger, todo, outcome, clean, quarantine, pinned, env>>

ProbeOutFails(p) ==
  LET e == at[p] IN
  /\ At(p, "probe")
  /\ \/ /\ Because(~CanOpen(p) \/ ~Free(Probe(p, e)) \/ Allocatable = {})
        /\ UNCHANGED <<fs, clean>>
     \/ /\ CanOpen(p) /\ Charge(2)
        /\ Blame(p)
        /\ Free(Claim(p, "probe-claim", e))
        /\ \E i \in Allocatable :
             /\ link' = [link EXCEPT ![Claim(p, "probe-claim", e)] = i]
             /\ file' = [file EXCEPT ![i] = File("probe", p, e)]
  /\ Fail(p)
  /\ UNCHANGED <<ledger, todo, outcome, quarantine, pinned, capacity, existed, edits>>

ProbeBack(p) ==
  /\ At(p, "probing")
  /\ link' = Unlink(Probe(p, at[p]))
  /\ Advance(p, "probe", "stage")
  /\ UNCHANGED <<file, ledger, todo, outcome, clean, quarantine, pinned, env>>

(* The way back fails and the probe is removed where it is, or stays there *)
(* when that fails too; or it is back and its removal fails.               *)
ProbeBackFails(p) ==
  LET e == at[p] IN
  /\ At(p, "probing")
  /\ \/ Charge(1) /\ link' = Unlink(Probe(p, e)) /\ UNCHANGED clean
     \/ Charge(2) /\ UNCHANGED link /\ Blame(p)
     \/ /\ Charge(1) /\ UNCHANGED clean
        /\ CanMove(Probe(p, e), Claim(p, "probe-claim", e))
        /\ link' = Move(Probe(p, e), Claim(p, "probe-claim", e))
  /\ Fail(p)
  /\ UNCHANGED <<file, ledger, todo, outcome, quarantine, pinned, capacity, existed, edits>>

-----------------------------------------------------------------------------
(* Staging.                                                                *)

(* The exclusive creation registers the file before it is identified.      *)
StageCreate(p) ==
  LET e == at[p] IN
  /\ At(p, "stage")
  /\ CanOpen(p) /\ Free(Temporary(p, e))
  /\ \E i \in Allocatable :
       /\ link' = [link EXCEPT ![Temporary(p, e)] = i]
       /\ file' = [file EXCEPT ![i] = File("partial", p, e)]
       /\ temp' = [temp EXCEPT ![p][e] = i]
  /\ Goto(p, "write")
  /\ UNCHANGED <<at, had, known, original, backed, published,
                 todo, outcome, clean, quarantine, pinned, env>>

StageCreateFails(p) ==
  /\ At(p, "stage")
  /\ Because(~CanOpen(p) \/ ~Free(Temporary(p, at[p])) \/ Allocatable = {})
  /\ Fail(p)
  /\ UNCHANGED <<fs, ledger, todo, outcome, clean, quarantine, pinned, capacity, existed, edits>>

(* Identify, write and synchronize the staged file.                        *)
StageWrite(p) ==
  LET e == at[p] IN
  /\ At(p, "write")
  /\ known' = [known EXCEPT ![p] = @ \cup {e}]
  /\ file' = [file EXCEPT ![temp[p][e]] = File("staged", p, e)]
  /\ Advance(p, "stage", "identify")
  /\ UNCHANGED <<link, had, temp, original, backed, published,
                 todo, outcome, clean, quarantine, pinned, env>>

StageWriteFails(p) ==
  /\ At(p, "write")
  /\ Charge(1)
  /\ known' \in {known, [known EXCEPT ![p] = @ \cup {at[p]}]}
  /\ Fail(p)
  /\ UNCHANGED <<fs, had, temp, original, backed, published,
                 todo, outcome, clean, quarantine, pinned, capacity, existed, edits>>

-----------------------------------------------------------------------------
(* Displacing what exists, and publication.                                *)

(* A target that was absent at the preflight is not looked at again.       *)
IdentifyAbsent(p) ==
  /\ At(p, "identify")
  /\ at[p] \notin had[p]
  /\ Advance(p, "identify", "publish")
  /\ UNCHANGED <<fs, ledger, todo, outcome, clean, quarantine, pinned, env>>

Identify(p) ==
  LET e == at[p] IN
  /\ At(p, "identify")
  /\ e \in had[p]
  /\ CanOpen(p) /\ ~Free(Target(e)) /\ ~Irregular(Target(e))
  /\ original' = [original EXCEPT ![p][e] = link[Target(e)]]
  /\ Goto(p, "displace")
  /\ UNCHANGED <<fs, at, had, temp, known, backed, published,
                 todo, outcome, clean, quarantine, pinned, env>>

IdentifyFails(p) ==
  LET e == at[p] IN
  /\ At(p, "identify")
  /\ e \in had[p]
  /\ Because(~CanOpen(p) \/ Free(Target(e)) \/ Irregular(Target(e)))
  /\ Fail(p)
  /\ UNCHANGED <<fs, ledger, todo, outcome, clean, quarantine, pinned, capacity, existed, edits>>

(* A mutant: the original is removed instead of being moved aside.         *)
DisplaceByRemoval(p) ==
  /\ At(p, "displace")
  /\ ~Free(Target(at[p]))
  /\ link' = Unlink(Target(at[p]))
  /\ Advance(p, "identify", "publish")
  /\ UNCHANGED <<file, ledger, todo, outcome, clean, quarantine, pinned, env>>

(* The rename registers the backup; only then is what was moved compared   *)
(* with what had been identified.                                          *)
Displace(p) ==
  LET e == at[p]
      moved == link[Target(e)]
  IN
  /\ At(p, "displace")
  /\ CanMove(Target(e), Backup(p, e))
  /\ link' = Move(Target(e), Backup(p, e))
  /\ backed' = [backed EXCEPT ![p] = @ \cup {e}]
  /\ \/ /\ moved = original[p][e] /\ CanOpen(p)
        /\ Advance(p, "identify", "publish")
        /\ UNCHANGED faults
     \/ /\ Because(moved # original[p][e] \/ ~CanOpen(p))
        /\ Fail(p)
  /\ UNCHANGED <<file, had, temp, known, original, published,
                 todo, outcome, clean, quarantine, pinned, capacity, existed, edits>>

DisplaceFails(p) ==
  /\ At(p, "displace")
  /\ Because(~CanMove(Target(at[p]), Backup(p, at[p])))
  /\ Fail(p)
  /\ UNCHANGED <<fs, ledger, todo, outcome, clean, quarantine, pinned, capacity, existed, edits>>

Task(k, e) == [kind |-> k, entry |-> e]

(* A mutant: success is reported with the first entry.                     *)
PublishOne(p) ==
  LET e == at[p] IN
  /\ At(p, "publish")
  /\ CanMove(Temporary(p, e), Target(e))
  /\ link' = Move(Temporary(p, e), Target(e))
  /\ published' = [published EXCEPT ![p] = @ \cup {e}]
  /\ outcome' = [outcome EXCEPT ![p] = "committed"]
  /\ Goto(p, "sync")
  /\ UNCHANGED <<file, at, had, temp, known, original, backed,
                 todo, clean, quarantine, pinned, env>>

(* Publication is complete with the last entry: from there on the run      *)
(* succeeds, and what is left is to retire the backups.                    *)
Publish(p) ==
  LET e == at[p] IN
  /\ At(p, "publish")
  /\ CanMove(Temporary(p, e), Target(e))
  /\ link' = Move(Temporary(p, e), Target(e))
  /\ published' = [published EXCEPT ![p] = @ \cup {e}]
  /\ IF e = N
       THEN /\ Goto(p, "cleanup")
            /\ outcome' = [outcome EXCEPT ![p] = "committed"]
            /\ todo' = [todo EXCEPT ![p] = {Task("retire", b) : b \in backed[p]}]
            /\ ReleaseReserve(p)
            /\ UNCHANGED at
       ELSE Advance(p, "publish", "publish") /\ UNCHANGED <<outcome, todo, pinned>>
  /\ UNCHANGED <<file, had, temp, known, original, backed, clean, quarantine, env>>

PublishFails(p) ==
  /\ At(p, "publish")
  /\ Because(~CanMove(Temporary(p, at[p]), Target(at[p])))
  /\ Fail(p)
  /\ UNCHANGED <<fs, ledger, todo, outcome, clean, quarantine, pinned, capacity, existed, edits>>

-----------------------------------------------------------------------------
(* Rollback, and the cleanup after complete publication.                   *)

(* Mutants: backups are removed, not restored; what is still staged stays. *)
RollbackRetires(p) ==
  {Task("unpublish", e) : e \in published[p]}
    \cup {Task("retire", e) : e \in backed[p]}
    \cup {Task("unstage", e) : e \in known[p] \ published[p]}
    \cup {Task("preserve", e) : e \in {d \in Entries : temp[p][d] # NoInode} \ known[p]}
RollbackKeepsStaged(p) ==
  {Task("unpublish", e) : e \in published[p]}
    \cup {Task("restore", e) : e \in backed[p]}

RollbackTasks(p) ==
  {Task("unpublish", e) : e \in published[p]}
    \cup {Task("restore", e) : e \in backed[p]}
    \cup {Task("unstage", e) : e \in known[p] \ published[p]}
    \cup {Task("preserve", e) : e \in {d \in Entries : temp[p][d] # NoInode} \ known[p]}

(* A mutant: the reserve is not given back.                                *)
AbortKeepsReserve(p) ==
  /\ At(p, "abort")
  /\ Goto(p, "cleanup")
  /\ outcome' = [outcome EXCEPT ![p] = "failed"]
  /\ todo' = [todo EXCEPT ![p] = RollbackTasks(p)]
  /\ UNCHANGED <<fs, at, ledger, clean, quarantine, pinned, env>>

Abort(p) ==
  /\ At(p, "abort")
  /\ Goto(p, "cleanup")
  /\ outcome' = [outcome EXCEPT ![p] = "failed"]
  /\ todo' = [todo EXCEPT ![p] = RollbackTasks(p)]
  /\ ReleaseReserve(p)
  /\ UNCHANGED <<fs, at, ledger, clean, quarantine, env>>

(* Published entries from the last to the first, then the backups from the *)
(* last to the first, then what is still staged from the first to the last. *)
Rank(t) ==
  CASE t.kind = "unpublish" -> N - t.entry
    [] t.kind = "restore"   -> 2 * N - t.entry
    [] OTHER                -> 2 * N + t.entry

First(p, t) == t \in todo[p] /\ \A u \in todo[p] : Rank(t) <= Rank(u)

Source(p, t) ==
  IF t.kind = "unpublish" THEN Target(t.entry)
  ELSE IF t.kind \in {"restore", "retire"} THEN Backup(p, t.entry)
  ELSE Temporary(p, t.entry)

ClaimOf(p, t) ==
  LET k == IF t.kind = "unpublish" THEN "published-claim"
           ELSE IF t.kind \in {"restore", "retire"} THEN "backup-claim"
           ELSE "temporary-claim"
  IN  Claim(p, k, t.entry)

(* The identity recorded for the file the task is about.                   *)
Expected(p, t) ==
  IF t.kind \in {"restore", "retire"} THEN original[p][t.entry] ELSE temp[p][t.entry]

MissingIsClean(t) == t.kind \notin {"restore", "retire"}

(* A mutant: what could not be done is tried again.                        *)
DropNothing(p, t) == todo' = todo

Drop(p, t) == todo' = [todo EXCEPT ![p] = @ \ {t}]

(* Move the file into the quarantine before looking at what it is.  A file *)
(* that was never identified stays there, and that is an error.            *)
ClaimFile(p) ==
  /\ At(p, "cleanup")
  /\ \E t \in todo[p] :
       /\ First(p, t)
       /\ CanMove(Source(p, t), ClaimOf(p, t))
       /\ link' = Move(Source(p, t), ClaimOf(p, t))
       /\ IF t.kind = "preserve"
            THEN Drop(p, t) /\ Blame(p) /\ UNCHANGED pc
            ELSE Goto(p, "settle") /\ UNCHANGED <<todo, clean>>
  /\ UNCHANGED <<file, at, ledger, outcome, quarantine, pinned, env>>

ClaimFileFails(p) ==
  /\ At(p, "cleanup")
  /\ \E t \in todo[p] :
       /\ First(p, t)
       /\ Drop(p, t)
       /\ \/ /\ Free(Source(p, t)) /\ MissingIsClean(t)
             /\ UNCHANGED <<clean, faults>>
          \/ /\ Because(~CanMove(Source(p, t), ClaimOf(p, t))
                          /\ ~(Free(Source(p, t)) /\ MissingIsClean(t)))
             /\ Blame(p)
  /\ UNCHANGED <<fs, pc, at, ledger, outcome, quarantine, pinned, capacity, existed, edits>>

(* A mutant: the identity of what was claimed is not compared.             *)
VerifiedByName(p, t) == CanOpen(p)

Verified(p, t) == CanOpen(p) /\ link[ClaimOf(p, t)] = Expected(p, t)

(* What was claimed is what was recorded: a file of this run is removed, a *)
(* displaced original goes back to its target (rollback) or is removed     *)
(* (after complete publication).                                           *)
Discard(p) ==
  /\ At(p, "settle")
  /\ \E t \in todo[p] :
       /\ First(p, t) /\ t.kind # "restore"
       /\ Verified(p, t)
       /\ link' = Unlink(ClaimOf(p, t))
       /\ Drop(p, t)
  /\ Goto(p, "cleanup")
  /\ UNCHANGED <<file, at, ledger, outcome, clean, quarantine, pinned, env>>

Restore(p) ==
  /\ At(p, "settle")
  /\ \E t \in todo[p] :
       /\ First(p, t) /\ t.kind = "restore"
       /\ Verified(p, t) /\ Free(Target(t.entry))
       /\ link' = Move(ClaimOf(p, t), Target(t.entry))
       /\ Drop(p, t)
  /\ Goto(p, "cleanup")
  /\ UNCHANGED <<file, at, ledger, outcome, clean, quarantine, pinned, env>>

(* A claim that cannot be identified, is something else, or cannot be      *)
(* restored goes back to the name it was taken from.                       *)
Unsettled(p, t) ==
  ~Verified(p, t) \/ (t.kind = "restore" /\ ~Free(Target(t.entry)))

PutBack(p) ==
  /\ At(p, "settle")
  /\ \E t \in todo[p] :
       /\ First(p, t)
       /\ Because(Unsettled(p, t))
       /\ Free(Source(p, t))
       /\ link' = Move(ClaimOf(p, t), Source(p, t))
       /\ Drop(p, t)
  /\ Blame(p)
  /\ Goto(p, "cleanup")
  /\ UNCHANGED <<file, at, ledger, outcome, quarantine, pinned, capacity, existed, edits>>

(* The removal fails, or the way back is taken or fails: the claim stays.  *)
Strand(p) ==
  /\ At(p, "settle")
  /\ \E t \in todo[p] :
       /\ First(p, t)
       /\ \/ Verified(p, t) /\ t.kind # "restore" /\ Charge(1)
          \/ ~Free(Source(p, t)) /\ Because(Unsettled(p, t))
          \/ Free(Source(p, t)) /\ IF Unsettled(p, t) THEN Charge(1) ELSE Charge(2)
       /\ Drop(p, t)
  /\ Blame(p)
  /\ Goto(p, "cleanup")
  /\ UNCHANGED <<fs, at, ledger, outcome, quarantine, pinned, capacity, existed, edits>>

QuarantineEmpty(p) == \A k \in ClaimKinds, e \in Entries : Free(Claim(p, k, e))

(* The quarantine is removed if it is empty, and kept otherwise.           *)
RemoveQuarantine(p) ==
  /\ At(p, "cleanup") /\ todo[p] = {}
  /\ \/ /\ QuarantineEmpty(p) /\ CanOpen(p)
        /\ quarantine' = quarantine \ {p}
        /\ UNCHANGED <<clean, faults>>
     \/ /\ Because(~QuarantineEmpty(p) \/ ~CanOpen(p))
        /\ Blame(p)
        /\ UNCHANGED quarantine
  /\ Goto(p, IF outcome[p] = "committed" THEN "sync" ELSE "done")
  /\ UNCHANGED <<fs, at, ledger, todo, outcome, pinned, capacity, existed, edits>>

(* Every directory that was changed is synchronized; a failure is reported *)
(* as a warning, like every failure since complete publication.            *)
SyncDirectories(p) ==
  /\ At(p, "sync")
  /\ \/ UNCHANGED <<clean, faults>>
     \/ Charge(1) /\ Blame(p)
  /\ Goto(p, "done")
  /\ UNCHANGED <<fs, at, ledger, todo, outcome, quarantine, pinned, capacity, existed, edits>>

-----------------------------------------------------------------------------
(* The environment.                                                        *)

Crash(p) ==
  /\ p \in MayCrash /\ Live(p)
  /\ Goto(p, "crashed")
  /\ UNCHANGED <<fs, at, ledger, todo, outcome, clean, quarantine, pinned, env>>

(* Another actor removes a target, or puts a new file or something that is *)
(* not a regular file there, replacing what there is.                      *)
Edit(e) ==
  /\ edits < MaxEdits
  /\ edits' = edits + 1
  /\ \/ ~Free(Target(e)) /\ link' = Unlink(Target(e)) /\ UNCHANGED file
     \/ \E i \in Allocatable, k \in {"edited", "irregular"} :
          /\ link' = [link EXCEPT ![Target(e)] = i]
          /\ file' = [file EXCEPT ![i] = File(k, Nobody, e)]
  /\ UNCHANGED <<pc, at, ledger, todo, outcome, clean, quarantine, pinned,
                 capacity, existed, faults>>

Prepare(p) ==
  \/ Begin(p) \/ OpenQuarantine(p) \/ OpenQuarantineFails(p)
  \/ OpenParents(p) \/ OpenParentsFails(p)
  \/ Preflight(p) \/ PreflightFails(p)
  \/ ProbeOut(p) \/ ProbeOutFails(p) \/ ProbeBack(p) \/ ProbeBackFails(p)

Stage(p) ==
  \/ StageCreate(p) \/ StageCreateFails(p) \/ StageWrite(p) \/ StageWriteFails(p)

Install(p) ==
  \/ IdentifyAbsent(p) \/ Identify(p) \/ IdentifyFails(p)
  \/ Displace(p) \/ DisplaceFails(p) \/ Publish(p) \/ PublishFails(p)

Finish(p) ==
  \/ Abort(p) \/ ClaimFile(p) \/ ClaimFileFails(p)
  \/ Discard(p) \/ Restore(p) \/ PutBack(p) \/ Strand(p)
  \/ RemoveQuarantine(p) \/ SyncDirectories(p)

Step(p) == Prepare(p) \/ Stage(p) \/ Install(p) \/ Finish(p)

Next ==
  \/ \E p \in Processes : Step(p) \/ Crash(p)
  \/ \E e \in Entries : Edit(e)

Spec == Init /\ [][Next]_vars

(* A run that is not killed goes on: it waits for nobody.                  *)
FairSpec == Spec /\ \A p \in Processes : WF_vars(Step(p))

-----------------------------------------------------------------------------
(* Properties of every run, whatever else happens.                         *)

OriginalAt(n, e) == ~Free(n) /\ file[link[n]] = File("original", Nobody, e)
StagedAt(n, p, e) == ~Free(n) /\ file[link[n]] = File("staged", p, e)

(* What a step takes out of the file system.                               *)
Dropped(i) == Linked(i) /\ ~Linked(i)'

Moves(p) == <<pc[p], at[p], todo[p]>>' # <<pc[p], at[p], todo[p]>>

(* The files that run p may remove: those it made, while it prepares or    *)
(* rolls back, and the originals it displaced, once all its entries are    *)
(* published.                                                              *)
MayRemove(p, i) ==
  \/ file[i].owner = p /\ outcome[p] # "committed"
  \/ published[p] = Entries /\ \E e \in backed[p] : original[p][e] = i

(* No run ever removes or overwrites a file that is neither its own nor an *)
(* original that its complete publication replaces: not the file another   *)
(* run or another actor put at a target in the meantime, not an original   *)
(* before the new bundle is complete (claim_owned_file moves a file out of *)
(* reach before it looks at it, and compares identities that the retained  *)
(* descriptors keep from being handed out again).                          *)
RemovesOnlyItsOwn ==
  [][\A i \in Inodes : Dropped(i) /\ edits' = edits =>
       \E p \in Processes : Moves(p) /\ MayRemove(p, i)]_vars

(* However many runs work on the bundle, fail or are killed, and whichever *)
(* of them is given the identifier of an earlier one: until one of them    *)
(* has published all its entries, every original is somewhere on disk.     *)
OriginalsSurvive ==
  (\A p \in Processes : published[p] # Entries) =>
    \A e \in existed : \E n \in Names : OriginalAt(n, e)

(* A run that reports no cleanup error leaves none of its files under a    *)
(* staging name or in its quarantine, and no quarantine: not even after    *)
(* another actor or another run has changed the targets under it           *)
(* (rollback, remove_private_quarantine).                                  *)
CleanLeavesNoResidue ==
  \A p \in Processes : At(p, "done") /\ clean[p] =>
    /\ p \notin quarantine
    /\ QuarantineEmpty(p)
    /\ \A n \in Names : ~Free(n) /\ n[1] \in StagingKinds /\ file[link[n]].owner = p =>
         \E q \in Processes \ {p} : n[2] = Pid[q]

(* When every run has ended and none reports a cleanup error, concurrent   *)
(* publications are not interleaved: the targets hold the bundle of one    *)
(* run that succeeded, or no run succeeded.                                *)
BundlesDoNotMix ==
  (\A p \in Processes : At(p, "done") /\ clean[p]) =>
    \/ \A p \in Processes : outcome[p] # "committed"
    \/ \E p \in Processes : outcome[p] = "committed"
                              /\ \A e \in Entries : StagedAt(Target(e), p, e)

(* A run that was started ends: rollback and cleanup attempt every task    *)
(* once, whatever happens to it.                                           *)
Terminates ==
  \A p \in Processes : At(p, "open") ~> (At(p, "done") \/ At(p, "crashed"))

-----------------------------------------------------------------------------
(* Properties of a run that has the targets to itself, and no other actor  *)
(* edits them.                                                             *)

Untouched(e) == IF e \in existed THEN OriginalAt(Target(e), e) ELSE Free(Target(e))

(* Whatever fails, and whenever the run is killed, every original is at    *)
(* its target, at its backup name or in the quarantine until the new       *)
(* bundle is complete.                                                     *)
OriginalsRecoverable ==
  edits = 0 => \A p \in Processes, e \in existed : outcome[p] # "committed" =>
    \E n \in {Target(e), Backup(p, e), Claim(p, "backup-claim", e)} : OriginalAt(n, e)

(* When descriptors run out, at whatever point, and nothing else fails,    *)
(* the rollback is complete: the reserve given back is enough to           *)
(* authenticate and undo every step (acquire_cleanup_descriptor_reserve).  *)
ExhaustionIsClean ==
  faults = 0 /\ edits = 0 => \A p \in Processes : clean[p]

(* What those who wait for the result of run p see of its publication: the *)
(* state of BundlePublication.                                             *)
Result(p) ==
  IF outcome[p] = "committed" THEN "published"
  ELSE IF pc[p] \notin {"done", "crashed"} THEN "pending"
  ELSE IF At(p, "done") /\ clean[p] THEN "kept" ELSE "damaged"

View(p, e) ==
  IF Result(p) = "pending" \/ Untouched(e) THEN "old"
  ELSE IF StagedAt(Target(e), p, e) THEN "new" ELSE "gone"

(* The run that has the targets to itself.                                 *)
Solo == CHOOSE p \in Processes : TRUE

Promise == INSTANCE BundlePublication
  WITH result <- Result(Solo), view <- [e \in Entries |-> View(Solo, e)],
       disturbed <- edits > 0

(* To those who wait for its result, the publication of a run that has the *)
(* targets to itself is one step (docs/language.md: all-or-rollback for    *)
(* the emitted paths).                                                     *)
KeepsPromise == Promise!Spec

=============================================================================
