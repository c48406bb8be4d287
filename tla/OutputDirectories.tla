-------------------------- MODULE OutputDirectories --------------------------
(***************************************************************************)
(* The directories of a publication (prepare_output_directory,             *)
(* create_relative_parent and remove_created_directories, cmd/circuitc/    *)
(* main.rs).  A run walks to its output directory and, once that is        *)
(* pinned, to the parent of a generated file below it; it makes what is    *)
(* missing, and takes away what it has made when it fails: each directory  *)
(* is renamed to a claim name, authenticated, and removed or given back.   *)
(*                                                                         *)
(* All runs use one path of Depth segments below Base; RootLevel of them   *)
(* lead to the output directory.  Of files only their presence in a        *)
(* directory is modelled: OutputTransaction has them in detail.            *)
(***************************************************************************)
EXTENDS Naturals, Sequences, FiniteSetsExt

CONSTANTS
  Processes,   \* runs of the program, each with an identifier of its own
  Dirs,        \* inode numbers of directories
  Base,        \* the one that always exists
  NoDir,       \* what a free name leads to
  Somebody,    \* whoever is not a run
  RootLevel,   \* segments to the output directory
  Depth,       \* segments to the parent of the generated file
  Capacities,  \* descriptors a run may have
  MaxFaults,   \* bound: calls that fail
  MaxEdits,    \* bound: changes made by another actor
  MayCrash     \* runs that may be killed

ASSUME DirectoryAssumption ==
  /\ Base \in Dirs /\ NoDir \notin Dirs /\ Somebody \notin Processes
  /\ RootLevel \in Nat /\ Depth \in Nat /\ RootLevel < Depth
  /\ Capacities \subseteq Nat /\ MaxFaults \in Nat /\ MaxEdits \in Nat
  /\ MayCrash \subseteq Processes

VARIABLES
  next,      \* next[d]: where the path goes on in d
  claim,     \* claim[d][p]: what the claim name of p in d leads to
  stuff,     \* stuff[d]: who has files in d
  maker,     \* maker[d]: who made d
  pc,
  cur,       \* cur[p]: the directory p has open
  rest,      \* rest[p]: what else p has open for the segment it is at
  level,     \* level[p]: how many segments p has walked
  root,      \* root[p]: the output directory, once p has pinned it
  made,      \* made[p]: p's created directories: parent, identity, still to be removed
  mistaken,  \* runs that know another directory by the identity of one they have made
  outcome, clean,
  slip,      \* a call of some cleanup has failed
  capacity,  \* descriptors of every run
  faults, edits

names == <<next, claim>>
walk == <<cur, level, root, rest>>
report == <<outcome, clean, slip>>
env == <<capacity, edits>>
vars == <<names, stuff, maker, pc, walk, made, mistaken, report, env, faults>>

TypeOK ==
  /\ next \in [Dirs -> Dirs \cup {NoDir}]
  /\ claim \in [Dirs -> [Processes -> Dirs \cup {NoDir}]]
  /\ stuff \in [Dirs -> SUBSET (Processes \cup {Somebody})]
  /\ maker \in [Dirs -> Processes \cup {Somebody}]
  /\ pc \in [Processes -> {"idle", "walk", "make", "open", "publish", "withdraw", "undo",
                           "claimed", "return", "done", "crashed"}]
  /\ cur \in [Processes -> Dirs] /\ level \in [Processes -> 0 .. Depth]
  /\ root \in [Processes -> Dirs \cup {NoDir}] /\ rest \in [Processes -> SUBSET Dirs]
  /\ \A p \in Processes :
       /\ made[p] \in Seq([parent : Dirs, id : Dirs \cup {NoDir}, todo : BOOLEAN])
       /\ Len(made[p]) <= Depth
  /\ mistaken \in SUBSET Processes
  /\ outcome \in [Processes -> {"none", "failed", "committed"}]
  /\ clean \in [Processes -> BOOLEAN] /\ slip \in BOOLEAN
  /\ capacity \in Capacities /\ faults \in Nat /\ edits \in Nat

(* Some segments exist, and at the last of them a directory that a run     *)
(* with the same identifier has left under its claim name.                 *)
Init ==
  /\ \E k \in 0 .. Depth : \E chain \in [0 .. k -> Dirs] :
       /\ chain[0] = Base /\ \A i, j \in 0 .. k : chain[i] = chain[j] => i = j
       /\ next = [d \in Dirs |-> IF \E i \in 1 .. k : chain[i - 1] = d
                                 THEN chain[1 + CHOOSE i \in 0 .. k - 1 : chain[i] = d]
                                 ELSE NoDir]
       /\ \E stale \in SUBSET Processes, d \in Dirs \ {chain[i] : i \in 0 .. k} :
            /\ \A p, q \in stale : p = q
            /\ claim = [c \in Dirs |-> [p \in Processes |->
                          IF c = chain[k] /\ p \in stale THEN d ELSE NoDir]]
  /\ stuff = [d \in Dirs |-> {}] /\ maker = [d \in Dirs |-> Somebody]
  /\ pc = [p \in Processes |-> "idle"]
  /\ cur = [p \in Processes |-> Base] /\ level = [p \in Processes |-> 0]
  /\ root = [p \in Processes |-> NoDir] /\ rest = [p \in Processes |-> {}]
  /\ made = [p \in Processes |-> <<>>]
  /\ mistaken = {}
  /\ outcome = [p \in Processes |-> "none"] /\ clean = [p \in Processes |-> TRUE] /\ slip = FALSE
  /\ capacity \in Capacities /\ faults = 0 /\ edits = 0

-----------------------------------------------------------------------------
(* The file system.                                                        *)

Linked(d) == d = Base \/ \E c \in Dirs : next[c] = d \/ \E p \in Processes : claim[c][p] = d
Empty(d) == stuff[d] = {} /\ next[d] = NoDir /\ \A p \in Processes : claim[d][p] = NoDir

Live(p) == pc[p] \notin {"idle", "done", "crashed"}

Todo(p) == {i \in DOMAIN made[p] : made[p][i].todo}

(* Directories that are kept alive by a descriptor.                        *)
Held(p) ==
  IF Live(p)
  THEN {cur[p], root[p]} \cup rest[p] \cup {made[p][i].parent : i \in 1 .. Len(made[p])}
  ELSE {}

(* An inode number is used again when nobody holds the directory open,     *)
(* even if a run still knows its directory by it.                          *)
Allocatable == {d \in Dirs : ~Linked(d) /\ \A p \in Processes : d \notin Held(p)}

Allocate(d, actor) ==
  /\ maker' = [maker EXCEPT ![d] = actor]
  /\ mistaken' = mistaken \cup {p \in Processes : Live(p) /\ \E i \in Todo(p) : made[p][i].id = d}

(* The directory open, the parents of the created ones, and, when the      *)
(* output directory is pinned, it, the quarantine with its parent and the  *)
(* reserve.                                                                *)
TransactionDescriptors == 7
Used(p) == 1 + Len(made[p]) + IF root[p] = NoDir THEN 0 ELSE TransactionDescriptors
CanOpen(p) == Used(p) + Cardinality(rest[p]) < capacity

Charge == faults < MaxFaults /\ faults' = faults + 1
Because(condition) == (condition /\ UNCHANGED faults) \/ Charge

(* The same for a call of a cleanup.                                       *)
Slip == Charge /\ slip' = TRUE
Failing(condition) == (condition /\ UNCHANGED faults /\ UNCHANGED slip) \/ Slip

-----------------------------------------------------------------------------
(* The walk.                                                               *)

At(p, phase) == pc[p] = phase
Goto(p, phase) == pc' = [pc EXCEPT ![p] = phase]
Blame(p) == clean' = [clean EXCEPT ![p] = FALSE]
Goal(p) == IF root[p] = NoDir THEN RootLevel ELSE Depth

Short(p) == level[p] < Goal(p)

(* Errors before the output directory is pinned undo what was created, and *)
(* what the walk has open at that segment is open meanwhile; later ones    *)
(* return from create_relative_parent and roll the transaction back first. *)
Fail(p, open) ==
  /\ Goto(p, IF root[p] = NoDir THEN "undo" ELSE "withdraw")
  /\ rest' = [rest EXCEPT ![p] = IF root[p] = NoDir THEN open ELSE {}]

Start(p) ==
  /\ At(p, "idle") /\ Goto(p, "walk")
  /\ UNCHANGED <<names, stuff, maker, walk, made, mistaken, report, env, faults>>

Enter(p, d) ==
  /\ cur' = [cur EXCEPT ![p] = d]
  /\ level' = [level EXCEPT ![p] = @ + 1]
  /\ rest' = [rest EXCEPT ![p] = {}]
  /\ UNCHANGED root

Descend(p) ==
  /\ At(p, "walk") /\ Short(p) /\ CanOpen(p)
  /\ next[cur[p]] # NoDir
  /\ Enter(p, next[cur[p]])
  /\ UNCHANGED <<names, stuff, maker, pc, made, mistaken, report, env, faults>>

(* The segment is missing and the claim name is free: its parent is opened *)
(* once more, for the record of a directory that is to be made.            *)
Miss(p) ==
  /\ At(p, "walk") /\ Short(p) /\ CanOpen(p)
  /\ next[cur[p]] = NoDir /\ claim[cur[p]][p] = NoDir
  /\ Goto(p, "make") /\ rest' = [rest EXCEPT ![p] = {cur[p]}]
  /\ UNCHANGED <<names, stuff, maker, cur, level, root, made, mistaken, report, env, faults>>

(* Or a directory on the way is opened and refused.                        *)
WalkFails(p) ==
  /\ At(p, "walk") /\ Short(p)
  /\ \/ /\ Because(~CanOpen(p) \/ (next[cur[p]] = NoDir /\ claim[cur[p]][p] # NoDir))
        /\ Fail(p, {})
     \/ /\ CanOpen(p) /\ next[cur[p]] # NoDir /\ level[p] + 1 < Goal(p) /\ Charge
        /\ Fail(p, {next[cur[p]]})
  /\ UNCHANGED <<names, stuff, maker, cur, level, root, made, mistaken, report, env>>

(* "Register ownership before opening or inspecting the new directory so   *)
(* every subsequent failure preserves it."                                 *)
Register(p) == made' = [made EXCEPT ![p] = Append(@, [parent |-> cur[p], id |-> NoDir, todo |-> TRUE])]

Make(p) ==
  /\ At(p, "make") /\ Goto(p, "open")
  /\ \/ /\ next[cur[p]] = NoDir /\ Linked(cur[p])
        /\ \E d \in Allocatable :
             /\ next' = [next EXCEPT ![cur[p]] = d]
             /\ Allocate(d, p)
        /\ Register(p) /\ rest' = [rest EXCEPT ![p] = {}]
     \/ next[cur[p]] # NoDir /\ UNCHANGED <<next, maker, mistaken, made, rest>>
  /\ UNCHANGED <<claim, stuff, cur, level, root, report, env, faults>>

MakeFails(p) ==
  /\ At(p, "make") /\ Fail(p, rest[p])
  /\ Because(next[cur[p]] = NoDir /\ (~Linked(cur[p]) \/ Allocatable = {}))
  /\ UNCHANGED <<names, stuff, maker, cur, level, root, made, mistaken, report, env>>

(* The directory that is to be opened was made by this run, as far as it   *)
(* knows; if not, its parent is still open once more.                      *)
Mine(p) == made[p] # <<>> /\ made[p][Len(made[p])].id = NoDir

Identify(p, d) ==
  /\ made' = IF Mine(p) THEN [made EXCEPT ![p][Len(made[p])].id = d] ELSE made
  /\ mistaken' = IF Mine(p) /\ maker[d] # p THEN mistaken \cup {p} ELSE mistaken

Open(p) ==
  /\ At(p, "open") /\ Goto(p, "walk")
  /\ CanOpen(p) /\ next[cur[p]] # NoDir
  /\ Enter(p, next[cur[p]])
  /\ Identify(p, next[cur[p]])
  /\ UNCHANGED <<names, stuff, maker, report, env, faults>>

(* It is not opened; or it is opened and not identified, or identified and *)
(* refused.                                                                *)
OpenFails(p) ==
  /\ At(p, "open")
  /\ \/ /\ Because(~CanOpen(p) \/ next[cur[p]] = NoDir)
        /\ Fail(p, rest[p]) /\ UNCHANGED <<made, mistaken>>
     \/ /\ CanOpen(p) /\ next[cur[p]] # NoDir /\ Charge
        /\ Fail(p, rest[p] \cup {next[cur[p]]})
        /\ \/ Mine(p) /\ UNCHANGED <<made, mistaken>>
           \/ Identify(p, next[cur[p]])
  /\ UNCHANGED <<names, stuff, maker, cur, level, root, report, env>>

-----------------------------------------------------------------------------
(* The transaction.                                                        *)

(* The targets are inspected, the quarantine is made in the output         *)
(* directory and the reserve is acquired; without a reserve the            *)
(* transaction is rolled back.  The inspection opens a clone of the root   *)
(* and below it a directory or the target, two at a time, and closes them  *)
(* (open_existing_parent, inspect_target): a run that cannot open two      *)
(* fails there and makes no quarantine.                                    *)
Pin(p) ==
  /\ At(p, "walk") /\ level[p] = RootLevel /\ root[p] = NoDir
  /\ Used(p) + 2 <= capacity /\ Linked(cur[p])
  /\ root' = [root EXCEPT ![p] = cur[p]]
  /\ stuff' = [stuff EXCEPT ![cur[p]] = @ \cup {p}]
  /\ Goto(p, IF Used(p) + TransactionDescriptors <= capacity THEN "walk" ELSE "withdraw")
  /\ UNCHANGED <<names, maker, cur, level, rest, made, mistaken, report, env, faults>>

(* A quarantine that was made and could not be opened stays.               *)
PinFails(p) ==
  /\ At(p, "walk") /\ level[p] = RootLevel /\ root[p] = NoDir
  /\ \/ /\ Because(Used(p) + 2 > capacity \/ ~Linked(cur[p]))
        /\ UNCHANGED <<stuff, clean>>
     \/ /\ Used(p) + 2 <= capacity /\ Linked(cur[p]) /\ Charge
        /\ stuff' = [stuff EXCEPT ![cur[p]] = @ \cup {p}] /\ Blame(p)
  /\ Fail(p, {})
  /\ UNCHANGED <<names, maker, cur, level, root, made, mistaken, outcome, slip, env>>

Stage(p) ==
  /\ At(p, "walk") /\ level[p] = Depth /\ root[p] # NoDir
  /\ CanOpen(p) /\ Linked(cur[p]) /\ Goto(p, "publish")
  /\ stuff' = [stuff EXCEPT ![cur[p]] = @ \cup {p}]
  /\ UNCHANGED <<names, maker, walk, made, mistaken, report, env, faults>>

StageFails(p) ==
  /\ At(p, "walk") /\ level[p] = Depth /\ root[p] # NoDir
  /\ Because(~CanOpen(p) \/ ~Linked(cur[p])) /\ Fail(p, {})
  /\ UNCHANGED <<names, stuff, maker, cur, level, root, made, mistaken, report, env>>

Commit(p) ==
  /\ At(p, "publish") /\ Goto(p, "done")
  /\ outcome' = [outcome EXCEPT ![p] = "committed"]
  /\ UNCHANGED <<names, stuff, maker, walk, made, mistaken, clean, slip, env, faults>>

CommitFails(p) ==
  /\ At(p, "publish") /\ Charge /\ Fail(p, {})
  /\ UNCHANGED <<names, stuff, maker, cur, level, root, made, mistaken, report, env>>

(* The rollback of the files and the quarantine; what cannot be removed is *)
(* reported.  The reserve is given back, and only the root is still open.  *)
Withdraw(p) ==
  /\ At(p, "withdraw") /\ Goto(p, "undo")
  /\ cur' = [cur EXCEPT ![p] = root[p]]
  /\ \/ stuff' = [d \in Dirs |-> stuff[d] \ {p}] /\ UNCHANGED <<clean, slip, faults>>
     \/ Slip /\ Blame(p) /\ UNCHANGED stuff
  /\ UNCHANGED <<names, maker, level, root, rest, made, mistaken, outcome, env>>

-----------------------------------------------------------------------------
(* Created directories are removed in the reverse order.                   *)

(* A mutant: in the order of their creation.                               *)
TurnFirst(p) == Min(Todo(p))

Turn(p) == Max(Todo(p))
Record(p) == made[p][Turn(p)]
Claimed(p) == claim[Record(p).parent][p]
Drop(p) == made' = [made EXCEPT ![p][Turn(p)].todo = FALSE]

(* The claim is authenticated by opening it; before the transaction has a  *)
(* reserve to give back, nothing may be left to open it with.              *)
CanAuthenticate(p) == root[p] # NoDir \/ CanOpen(p)

(* A mutant: the claim is taken for the directory that was made.           *)
AuthenticByName(p) == CanAuthenticate(p) /\ Record(p).id # NoDir

Authentic(p) == CanAuthenticate(p) /\ Record(p).id = Claimed(p)

Undoing(p, phase) == At(p, phase) /\ Todo(p) # {}

Claim(p) ==
  /\ Undoing(p, "undo") /\ Goto(p, "claimed")
  /\ LET c == Record(p).parent IN
     /\ next[c] # NoDir /\ claim[c][p] = NoDir
     /\ claim' = [claim EXCEPT ![c][p] = next[c]]
     /\ next' = [next EXCEPT ![c] = NoDir]
  /\ UNCHANGED <<stuff, maker, walk, made, mistaken, report, env, faults>>

(* What is no longer there needs no removal.                               *)
ClaimNothing(p) ==
  /\ Undoing(p, "undo") /\ next[Record(p).parent] = NoDir
  /\ Drop(p)
  /\ UNCHANGED <<names, stuff, maker, pc, walk, mistaken, report, env, faults>>

ClaimFails(p) ==
  /\ Undoing(p, "undo") /\ next[Record(p).parent] # NoDir
  /\ Failing(claim[Record(p).parent][p] # NoDir)
  /\ Blame(p) /\ Drop(p)
  /\ UNCHANGED <<names, stuff, maker, pc, walk, mistaken, outcome, env>>

Remove(p) ==
  /\ Undoing(p, "claimed") /\ Goto(p, "undo")
  /\ Authentic(p) /\ Empty(Claimed(p))
  /\ claim' = [claim EXCEPT ![Record(p).parent][p] = NoDir]
  /\ Drop(p)
  /\ UNCHANGED <<next, stuff, maker, walk, mistaken, report, env, faults>>

RemoveFails(p) ==
  /\ Undoing(p, "claimed") /\ Goto(p, "return")
  /\ Failing(~Authentic(p) \/ ~Empty(Claimed(p)))
  /\ Blame(p)
  /\ UNCHANGED <<names, stuff, maker, walk, made, mistaken, outcome, env>>

(* A mutant: what could not be removed stays under the claim name.         *)
GiveBackNothing(p) ==
  /\ Undoing(p, "return") /\ Goto(p, "undo") /\ Drop(p)
  /\ UNCHANGED <<names, stuff, maker, walk, mistaken, report, env, faults>>

GiveBack(p) ==
  /\ Undoing(p, "return") /\ Goto(p, "undo") /\ Drop(p)
  /\ LET c == Record(p).parent IN
     /\ next[c] = NoDir
     /\ next' = [next EXCEPT ![c] = claim[c][p]]
     /\ claim' = [claim EXCEPT ![c][p] = NoDir]
  /\ UNCHANGED <<stuff, maker, walk, mistaken, report, env, faults>>

GiveBackFails(p) ==
  /\ Undoing(p, "return") /\ Goto(p, "undo") /\ Drop(p)
  /\ Failing(next[Record(p).parent] # NoDir)
  /\ UNCHANGED <<names, stuff, maker, walk, mistaken, outcome, clean, env>>

Finish(p) ==
  /\ At(p, "undo") /\ Todo(p) = {} /\ Goto(p, "done")
  /\ outcome' = [outcome EXCEPT ![p] = "failed"]
  /\ UNCHANGED <<names, stuff, maker, walk, made, mistaken, clean, slip, env, faults>>

-----------------------------------------------------------------------------
(* Another actor makes a directory that is missing, removes one that is    *)
(* empty, or puts a file into one.                                         *)
Edit ==
  /\ edits < MaxEdits /\ edits' = edits + 1
  /\ \/ \E c \in Dirs, d \in Allocatable :
          /\ Linked(c) /\ next[c] = NoDir
          /\ next' = [next EXCEPT ![c] = d] /\ Allocate(d, Somebody)
          /\ UNCHANGED stuff
     \/ \E c \in Dirs :
          /\ next[c] # NoDir /\ Empty(next[c])
          /\ next' = [next EXCEPT ![c] = NoDir] /\ UNCHANGED <<stuff, maker, mistaken>>
     \/ \E d \in Dirs \ {Base} :
          /\ Linked(d) /\ stuff' = [stuff EXCEPT ![d] = @ \cup {Somebody}]
          /\ UNCHANGED <<next, maker, mistaken>>
  /\ UNCHANGED <<claim, pc, walk, made, report, capacity, faults>>

Crash(p) ==
  /\ p \in MayCrash /\ Live(p) /\ Goto(p, "crashed")
  /\ UNCHANGED <<names, stuff, maker, walk, made, mistaken, report, env, faults>>

Prepare(p) ==
  \/ Start(p) \/ Descend(p) \/ Miss(p) \/ WalkFails(p)
  \/ Make(p) \/ MakeFails(p) \/ Open(p) \/ OpenFails(p)

Publish(p) ==
  \/ Pin(p) \/ PinFails(p) \/ Stage(p) \/ StageFails(p)
  \/ Commit(p) \/ CommitFails(p) \/ Withdraw(p)

Undo(p) ==
  \/ Claim(p) \/ ClaimNothing(p) \/ ClaimFails(p) \/ Remove(p) \/ RemoveFails(p)
  \/ GiveBack(p) \/ GiveBackFails(p) \/ Finish(p)

Next == Edit \/ \E p \in Processes : Prepare(p) \/ Publish(p) \/ Undo(p) \/ Crash(p)

Spec == Init /\ [][Next]_vars

-----------------------------------------------------------------------------
(* Properties.                                                             *)

Alone(p) == \A q \in Processes \ {p} : At(q, "idle")

(* A run removes only directories that it made: whatever takes their place *)
(* after they were identified is given back (remove_owned_directory).      *)
RemovesOnlyMade ==
  [][ \A p \in Processes \ mistaken, d \in Dirs :
        Linked(d) /\ ~Linked(d)' /\ pc'[p] # pc[p] => maker[d] = p ]_vars

(* A run that fails and reports no cleanup error has left no directory     *)
(* that it made, neither under its name nor under a claim name, whatever   *)
(* other runs, or else another actor, did meanwhile                        *)
(* (remove_created_directories).  A run that fails although nobody else    *)
(* uses the path and no call of its cleanup fails leaves nothing it made   *)
(* under a claim name, even when it has no descriptor left to authenticate *)
(* with; and when it has one, it takes away every directory it made and    *)
(* says nothing else, wherever it failed, unless a new directory was not   *)
(* identified or the quarantine could not be opened.                       *)
FailureIsUndone ==
  \A p \in Processes : outcome[p] = "failed" =>
    /\ clean[p] /\ (edits = 0 \/ Alone(p)) =>
         \A d \in Dirs : maker[d] = p => ~Linked(d)
    /\ Alone(p) /\ edits = 0 /\ ~slip =>
         /\ \A c \in Dirs, d \in Dirs : maker[d] = p => claim[c][p] # d
         /\ /\ \A i \in DOMAIN made[p] : made[p][i].id # NoDir
            /\ \A d \in Dirs : p \notin stuff[d]
            /\ CanAuthenticate(p)
            => clean[p] /\ \A d \in Dirs : maker[d] = p => ~Linked(d)

(* Where the path leads.                                                   *)
Path[i \in 0 .. Depth] ==
  IF i = 0 THEN Base ELSE IF Path[i - 1] = NoDir THEN NoDir ELSE next[Path[i - 1]]

(* When both runs have ended, a bundle that was published is where its     *)
(* path leads, although the other run failed and has had the directories   *)
(* it made, which the bundle is in, under a claim name meanwhile.          *)
PublishedIsFound ==
  edits = 0 /\ ~slip /\ (\A p \in Processes : pc[p] \in {"idle", "done"}) =>
    \A p \in Processes : outcome[p] = "committed" => Path[RootLevel] = root[p]

=============================================================================
