-------------------------- MODULE ReleasePublication --------------------------
(***************************************************************************)
(* The publication of a verified release (publish_release, src/release/    *)
(* publish.rs): a private tree is written beside the final name, made      *)
(* read-only and synchronized, and becomes visible by one rename that      *)
(* replaces nothing.  Several publishers may publish the same release into *)
(* the same destination; calls may fail, a rename may take effect and      *)
(* still report an error, a lookup may answer from a stale cache, and the  *)
(* power may fail.                                                         *)
(*                                                                         *)
(* The tree has the nodes 1 .. Size in the order of their creation: first  *)
(* the directories, a parent before its children, then the files from      *)
(* request.json to manifest.json.  0 is the root of the tree.              *)
(* Every release has a final name of its own: one of them is modelled.     *)
(***************************************************************************)
EXTENDS Naturals, FiniteSets

CONSTANTS
  Publishers,   \* calls of publish_release for the release
  NoOne,        \* what a free name leads to
  Stranger,     \* whoever is not a publisher
  Size,         \* nodes of the tree
  Depth,        \* how many of them are directories
  Holder,       \* Holder[n]: the directory that node n is in
  Settings      \* who publishes, and what may go wrong then

Nodes == 1 .. Size
Directories == 1 .. Depth
Folders == 0 .. Depth
Makers == Publishers \cup {Stranger}

ASSUME TreeAssumption ==
  /\ Size \in Nat /\ Depth \in Nat /\ Depth <= Size
  /\ Holder \in [Nodes -> Folders] /\ \A n \in Nodes : Holder[n] < n
ASSUME ActorAssumption ==
  NoOne \notin Makers /\ Stranger \notin Publishers

(* The publishers there are, those that may have to remove a container     *)
(* they made and those that may be killed; bounds: the calls that fail and *)
(* the changes made by another actor; whether the power may fail.          *)
ASSUME SettingAssumption ==
  \A s \in Settings :
    /\ s.publishers \subseteq Publishers
    /\ s.mayExpel \subseteq Publishers /\ s.mayCrash \subseteq Publishers
    /\ s.maxFaults \in Nat /\ s.maxEdits \in Nat /\ s.powerMayFail \in BOOLEAN

VARIABLES
  container,   \* who made the directory the name "release" leads to
  hidden,      \* hidden[p]: the container p has moved to its cleanup claim
  visible,     \* visible[c]: whose tree the final name in container c leads to
  parent,      \* parent[p]: the container p holds open
  root,        \* root[p]: where the root of p's tree is
  swapped,     \* publishers whose staging name leads to something else
  node,        \* node[p][n]: what the name of node n in p's tree leads to
  sealed,      \* sealed[p]: directories of p's tree with mode 0500
  extra,       \* extra[p]: directories of p's tree with an unknown entry
  made,        \* made[p]: nodes whose identity p has recorded
  pc, at,      \* the phase of p, and the node or directory it is at
  unsupported, \* publishers whose rename was rejected before it was executed
  seen,        \* seen[p]: what the probe of the final name found
  verdict,     \* verdict[p]: what p is about to return
  clean,       \* clean[p]: no cleanup of p was incomplete
  written,     \* written[p]: nodes of p's tree whose contents are on disk
  listed,      \* listed[p]: nodes of p's tree whose names are on disk
  anchored,    \* the container whose name is on disk
  durable,     \* durable[c]: what the final name leads to on disk
  lost,        \* the power has failed
  faults, edits,
  setting      \* one of Settings

namespace == <<container, hidden, visible>>
tree == <<root, swapped, node, sealed, extra>>
private == <<parent, made, unsupported, seen>>
result == <<verdict, clean>>
disk == <<written, listed, anchored, durable>>
budget == <<lost, faults, edits>>
vars == <<namespace, tree, private, pc, at, result, disk, budget, setting>>

Phases == {"idle", "own", "other", "expel", "anchor", "stage", "create", "write", "seal",
           "parent", "check", "rename", "probe", "reconcile", "sync", "verify",
           "clean", "remove", "done", "crashed"}

TypeOK ==
  /\ container \in Makers \cup {NoOne}
  /\ hidden \in [Publishers -> Makers \cup {NoOne}]
  /\ visible \in [Makers -> Makers \cup {NoOne}]
  /\ parent \in [Publishers -> Makers \cup {NoOne}]
  /\ root \in [Publishers -> {"none", "staging", "visible", "claimed", "away"}]
  /\ swapped \in SUBSET Publishers
  /\ node \in [Publishers -> [Nodes -> {"absent", "partial", "complete", "stranger"}]]
  /\ sealed \in [Publishers -> SUBSET Folders]
  /\ extra \in [Publishers -> SUBSET Folders]
  /\ made \in [Publishers -> SUBSET Nodes]
  /\ pc \in [Publishers -> Phases]
  /\ at \in [Publishers -> 0 .. Size + 1]
  /\ unsupported \in SUBSET Publishers
  /\ seen \in [Publishers -> {"own", "other", "error"}]
  /\ verdict \in [Publishers -> {"good", "warned", "indeterminate", "failed"}]
  /\ clean \in [Publishers -> BOOLEAN]
  /\ written \in [Publishers -> SUBSET Nodes]
  /\ listed \in [Publishers -> SUBSET Nodes]
  /\ anchored \in Makers \cup {NoOne}
  /\ durable \in [Makers -> Makers \cup {NoOne}]
  /\ lost \in BOOLEAN /\ faults \in Nat /\ edits \in Nat /\ setting \in Settings

(* A container and a release may be there already.                         *)
Init ==
  /\ container \in {NoOne, Stranger} /\ anchored = container
  /\ \E v \in {NoOne, Stranger} :
       visible = [c \in Makers |-> IF c = container THEN v ELSE NoOne]
  /\ durable = visible
  /\ hidden = [p \in Publishers |-> NoOne]
  /\ parent = [p \in Publishers |-> NoOne]
  /\ root = [p \in Publishers |-> "none"]
  /\ swapped = {} /\ unsupported = {}
  /\ node = [p \in Publishers |-> [n \in Nodes |-> "absent"]]
  /\ sealed = [p \in Publishers |-> {}]
  /\ extra = [p \in Publishers |-> {}]
  /\ made = [p \in Publishers |-> {}]
  /\ pc = [p \in Publishers |-> "idle"]
  /\ at = [p \in Publishers |-> 0]
  /\ seen = [p \in Publishers |-> "error"]
  /\ verdict = [p \in Publishers |-> "good"]
  /\ clean = [p \in Publishers |-> TRUE]
  /\ written = [p \in Publishers |-> {}]
  /\ listed = [p \in Publishers |-> {}]
  /\ lost = FALSE /\ faults = 0 /\ edits = 0
  /\ setting \in Settings

-----------------------------------------------------------------------------
At(p, phase) == pc[p] = phase
Goto(p, phase) == pc' = [pc EXCEPT ![p] = phase]
Running(p) == pc[p] \notin {"idle", "done", "crashed"}

(* n calls fail: the only bound on failures.                               *)
Charge(n) == faults + n <= setting.maxFaults /\ faults' = faults + n /\ UNCHANGED <<lost, edits>>
Because(condition) == (condition /\ UNCHANGED budget) \/ Charge(1)

Blame(p) == clean' = [clean EXCEPT ![p] = FALSE]

(* The error is returned as it is: nothing was staged.                     *)
Return(p) == Goto(p, "done") /\ verdict' = [verdict EXCEPT ![p] = "failed"]

(* The error is returned after the staged tree has been cleaned up.        *)
Fail(p) == Goto(p, "clean") /\ verdict' = [verdict EXCEPT ![p] = "failed"]

(* What happens after visibility is a warning.                             *)
Warn(p) == verdict' = [verdict EXCEPT ![p] = IF @ = "good" THEN "warned" ELSE @]

(* Some name leads to the container.                                       *)
Linked(c) == container = c \/ \E p \in Publishers : hidden[p] = c

(* The container has no entries.                                           *)
Vacant(c) ==
  /\ visible[c] = NoOne
  /\ \A p \in Publishers : parent[p] = c =>
       root[p] \notin {"staging", "claimed"} /\ p \notin swapped

(* The tree of p is what was verified: inventory, identities, modes, bytes. *)
Exact(p) ==
  /\ \A n \in Nodes : node[p][n] = "complete"
  /\ extra[p] = {} /\ sealed[p] = Folders

-----------------------------------------------------------------------------
(* The container (ensure_private_child).                                   *)

Enter(p) ==
  /\ At(p, "idle")
  /\ IF container = NoOne THEN container' = p /\ Goto(p, "own")
                          ELSE Goto(p, "other") /\ UNCHANGED container
  /\ UNCHANGED <<hidden, visible, tree, private, at, result, disk, budget>>

EnterFails(p) ==
  /\ At(p, "idle") /\ Charge(1)
  /\ Return(p)
  /\ UNCHANGED <<namespace, tree, private, at, clean, disk>>

OpenContainer(p) ==
  /\ pc[p] \in {"own", "other"} /\ container # NoOne
  /\ parent' = [parent EXCEPT ![p] = container]
  /\ Goto(p, "anchor")
  /\ UNCHANGED <<namespace, tree, made, unsupported, seen, at, result, disk, budget>>

(* A container that was just made and cannot be opened is removed by name. *)
OpenContainerFails(p) ==
  /\ pc[p] \in {"own", "other"}
  /\ \/ /\ At(p, "other") /\ Because(container = NoOne)
        /\ UNCHANGED <<container, clean>>
     \/ /\ At(p, "own") /\ container # NoOne /\ Vacant(container)
        /\ Charge(1)
        /\ container' = NoOne /\ UNCHANGED clean
     \/ /\ At(p, "own")
        /\ IF container # NoOne /\ Vacant(container) THEN Charge(2) ELSE Charge(1)
        /\ Blame(p) /\ UNCHANGED container
  /\ Return(p)
  /\ UNCHANGED <<hidden, visible, tree, private, at, disk>>

(* A container that was just made and is not private is moved to a cleanup *)
(* claim before it is removed.                                             *)
HideContainer(p) ==
  /\ At(p, "own") /\ p \in setting.mayExpel /\ container # NoOne
  /\ Charge(1)
  /\ hidden' = [hidden EXCEPT ![p] = container]
  /\ container' = NoOne
  /\ Goto(p, "expel")
  /\ UNCHANGED <<visible, tree, private, at, result, disk>>

(* Others may have entered it in the meantime: then it goes back, unless   *)
(* the name has been taken.                                                *)
ExpelContainer(p) ==
  /\ At(p, "expel")
  /\ \/ /\ Vacant(hidden[p]) /\ hidden' = [hidden EXCEPT ![p] = NoOne]
        /\ UNCHANGED <<container, clean, budget>>
     \/ /\ Because(~Vacant(hidden[p])) /\ container = NoOne
        /\ container' = hidden[p] /\ hidden' = [hidden EXCEPT ![p] = NoOne]
        /\ Blame(p)
     \/ /\ IF Vacant(hidden[p]) \/ container = NoOne THEN Charge(1) ELSE UNCHANGED budget
        /\ Blame(p) /\ UNCHANGED <<container, hidden>>
  /\ Return(p)
  /\ UNCHANGED <<visible, tree, private, at, disk>>

(* A mutant: only the publisher that made the container synchronizes it.   *)
SyncOwnDestination(p) ==
  /\ At(p, "anchor")
  /\ anchored' = IF parent[p] = p THEN container ELSE anchored
  /\ Goto(p, "stage")
  /\ UNCHANGED <<namespace, tree, private, at, result, written, listed, durable, budget>>

(* The destination is synchronized: the name of the container is on disk.  *)
SyncDestination(p) ==
  /\ At(p, "anchor")
  /\ anchored' = container
  /\ Goto(p, "stage")
  /\ UNCHANGED <<namespace, tree, private, at, result, written, listed, durable, budget>>

SyncDestinationFails(p) ==
  /\ At(p, "anchor") /\ Charge(1)
  /\ Return(p)
  /\ UNCHANGED <<namespace, tree, private, at, clean, disk>>

-----------------------------------------------------------------------------
(* The staged tree (StagingTransaction).                                   *)

CreateStaging(p) ==
  /\ At(p, "stage") /\ Linked(parent[p])
  /\ root' = [root EXCEPT ![p] = "staging"]
  /\ at' = [at EXCEPT ![p] = 1]
  /\ Goto(p, IF Size = 0 THEN "seal" ELSE "create")
  /\ UNCHANGED <<namespace, swapped, node, sealed, extra, private, result, disk, budget>>

(* Nothing is made, or what was made is removed again, or it stays under   *)
(* its name or under a cleanup claim.                                      *)
CreateStagingFails(p) ==
  /\ At(p, "stage")
  /\ \/ Because(~Linked(parent[p])) /\ UNCHANGED <<root, clean>>
     \/ /\ Linked(parent[p]) /\ Blame(p)
        /\ \/ Charge(2) /\ root' = [root EXCEPT ![p] = "staging"]
           \/ Charge(3) /\ root' = [root EXCEPT ![p] = "claimed"]
  /\ Return(p)
  /\ UNCHANGED <<namespace, swapped, node, sealed, extra, private, at, disk>>

Becomes(p, n, s) == node' = [node EXCEPT ![p][n] = s]

(* Directories are made and checked, files are made to be written.         *)
CreateNode(p) ==
  LET n == at[p] IN
  /\ At(p, "create") /\ node[p][n] = "absent"
  /\ Becomes(p, n, IF n \in Directories THEN "complete" ELSE "partial")
  /\ made' = [made EXCEPT ![p] = @ \cup {n}]
  /\ written' = [written EXCEPT ![p] = IF n \in Directories THEN @ \cup {n} ELSE @]
  /\ IF n \notin Directories THEN Goto(p, "write") /\ UNCHANGED at
     ELSE /\ Goto(p, IF n = Size THEN "seal" ELSE "create")
          /\ at' = [at EXCEPT ![p] = n + 1]
  /\ UNCHANGED <<namespace, root, swapped, sealed, extra, parent, unsupported, seen,
                 result, listed, anchored, durable, budget>>

(* Nothing is made; or a directory or file is made whose identity is never *)
(* recorded; or the new directory is recorded and then refused.            *)
CreateNodeFails(p) ==
  LET n == at[p] IN
  /\ At(p, "create")
  /\ \/ Because(node[p][n] # "absent") /\ UNCHANGED <<node, made>>
     \/ /\ node[p][n] = "absent"
        /\ IF n \in Directories THEN Charge(1) ELSE Charge(2)
        /\ Becomes(p, n, IF n \in Directories THEN "complete" ELSE "partial")
        /\ \/ UNCHANGED made
           \/ n \in Directories /\ made' = [made EXCEPT ![p] = @ \cup {n}]
  /\ Fail(p)
  /\ UNCHANGED <<namespace, root, swapped, sealed, extra, parent, unsupported, seen,
                 at, clean, disk>>

(* Through the descriptor of the new file: written, made read-only,        *)
(* synchronized.                                                           *)
WriteFile(p) ==
  LET n == at[p] IN
  /\ At(p, "write")
  /\ Becomes(p, n, IF node[p][n] = "partial" THEN "complete" ELSE node[p][n])
  /\ written' = [written EXCEPT ![p] = @ \cup {n}]
  /\ Goto(p, IF n = Size THEN "seal" ELSE "create")
  /\ at' = [at EXCEPT ![p] = n + 1]
  /\ UNCHANGED <<namespace, root, swapped, sealed, extra, private, result,
                 listed, anchored, durable, budget>>

WriteFileFails(p) ==
  /\ At(p, "write") /\ Charge(1)
  /\ Fail(p)
  /\ UNCHANGED <<namespace, tree, private, at, clean, disk>>

(* The directories from the last to the first, then the root: read-only,   *)
(* then synchronized.  The turn of directory d is at[p] = d.               *)
NextFolder(p) == IF at[p] > Depth THEN Depth ELSE at[p]

Seal(p) ==
  LET d == NextFolder(p) IN
  /\ At(p, "seal")
  /\ sealed' = [sealed EXCEPT ![p] = @ \cup {d}]
  /\ listed' = [listed EXCEPT ![p] = @ \cup {n \in Nodes : Holder[n] = d}]
  /\ at' = [at EXCEPT ![p] = IF d = 0 THEN 0 ELSE d - 1]
  /\ Goto(p, IF d = 0 THEN "parent" ELSE "seal")
  /\ UNCHANGED <<namespace, root, swapped, node, extra, private, result,
                 written, anchored, durable, budget>>

SealFails(p) ==
  /\ At(p, "seal") /\ Charge(1)
  /\ sealed' \in {sealed, [sealed EXCEPT ![p] = @ \cup {NextFolder(p)}]}
  /\ Fail(p)
  /\ UNCHANGED <<namespace, root, swapped, node, extra, private, at, clean, disk>>

SyncParent(p) ==
  /\ At(p, "parent")
  /\ durable' = [durable EXCEPT ![parent[p]] = visible[parent[p]]]
  /\ Goto(p, "check")
  /\ UNCHANGED <<namespace, tree, private, at, result, written, listed, anchored, budget>>

SyncParentFails(p) ==
  /\ At(p, "parent") /\ Charge(1)
  /\ Fail(p)
  /\ UNCHANGED <<namespace, tree, private, at, clean, disk>>

(* The staging name still leads to the tree, and the tree is exact.        *)
Staged(p) == root[p] = "staging" /\ Exact(p)

Check(p) ==
  /\ At(p, "check") /\ Staged(p)
  /\ Goto(p, "rename")
  /\ UNCHANGED <<namespace, tree, private, at, result, disk, budget>>

CheckFails(p) ==
  /\ At(p, "check") /\ Because(~Staged(p))
  /\ Fail(p)
  /\ UNCHANGED <<namespace, tree, private, at, clean, disk>>

-----------------------------------------------------------------------------
(* Visibility.                                                             *)

(* A mutant: rename(2), which replaces.                                    *)
CanRenameOver(p) == root[p] = "staging" \/ p \in swapped

CanRename(p) ==
  visible[parent[p]] = NoOne /\ (root[p] = "staging" \/ p \in swapped)

(* What the staging name leads to is now what the final name leads to.     *)
Show(p) ==
  /\ visible' = [visible EXCEPT ![parent[p]] = IF p \in swapped THEN Stranger ELSE p]
  /\ root' = IF p \in swapped THEN root ELSE [root EXCEPT ![p] = "visible"]
  /\ swapped' = swapped \ {p}
  /\ UNCHANGED <<container, hidden, node, sealed, extra>>

Rename(p) ==
  /\ At(p, "rename") /\ CanRename(p)
  /\ Show(p)
  /\ Goto(p, "sync")
  /\ UNCHANGED <<private, at, result, disk, budget>>

(* The rename takes effect and reports an error; or it has no effect, and  *)
(* may have been rejected as unsupported before it was executed.           *)
RenameFails(p) ==
  /\ At(p, "rename")
  /\ \/ CanRename(p) /\ Charge(1) /\ Show(p) /\ UNCHANGED unsupported
     \/ /\ Because(~CanRename(p)) /\ UNCHANGED <<namespace, tree, unsupported>>
     \/ /\ Charge(1) /\ UNCHANGED <<namespace, tree>>
        /\ unsupported' = unsupported \cup {p}
  /\ Goto(p, "probe")
  /\ UNCHANGED <<parent, made, seen, at, result, disk>>

(* A probe that fails is an error, also when it fails because a cached     *)
(* answer says that there is nothing.                                      *)
ProbeFinal(p) ==
  LET v == visible[parent[p]] IN
  /\ At(p, "probe")
  /\ \/ /\ seen' = [seen EXCEPT ![p] =
                      IF v = NoOne THEN "error" ELSE IF v = p THEN "own" ELSE "other"]
        /\ UNCHANGED budget
     \/ Charge(1) /\ seen' = [seen EXCEPT ![p] = "error"]
  /\ Goto(p, "reconcile")
  /\ UNCHANGED <<namespace, tree, parent, made, unsupported, at, result, disk>>

(* What was found says that the final name does not lead to p's tree.      *)
Excludes(p) == seen[p] = "other" \/ p \in unsupported

(* The staging name is looked up: truly, with an error, or from a stale    *)
(* cache that still finds the tree there.                                  *)
SourceAnswers(p) ==
  IF root[p] = "staging" THEN {"own"} ELSE IF p \in swapped THEN {"other"} ELSE {"missing"}

Reconcile(p) ==
  /\ At(p, "reconcile")
  /\ \E source \in {"own", "other", "missing", "error"} :
       /\ IF source \in SourceAnswers(p) THEN UNCHANGED budget
          ELSE Charge(1) /\ (source = "error" \/ (source = "own" /\ root[p] = "visible"))
       /\ IF seen[p] = "own" /\ source = "missing"
            THEN Warn(p) /\ Goto(p, "sync")
          ELSE IF Excludes(p) /\ source = "own" THEN Fail(p)
          ELSE Goto(p, "sync") /\ verdict' = [verdict EXCEPT ![p] = "indeterminate"]
  /\ UNCHANGED <<namespace, tree, private, at, clean, disk>>

SyncVisible(p) ==
  /\ At(p, "sync")
  /\ durable' = [durable EXCEPT ![parent[p]] = visible[parent[p]]]
  /\ Goto(p, "verify")
  /\ UNCHANGED <<namespace, tree, private, at, result, written, listed, anchored, budget>>

SyncVisibleFails(p) ==
  /\ At(p, "sync") /\ Charge(1)
  /\ Warn(p)
  /\ Goto(p, "verify")
  /\ UNCHANGED <<namespace, tree, private, at, clean, disk>>

(* A mutant: what is visible is not verified again.                        *)
VerifyNothing(p) ==
  /\ At(p, "verify")
  /\ Goto(p, "done")
  /\ UNCHANGED <<namespace, tree, private, at, result, disk, budget>>

(* The final name leads to p's tree and the tree is exact, or there is a   *)
(* warning.                                                                *)
Verify(p) ==
  /\ At(p, "verify")
  /\ \/ /\ visible[parent[p]] = p /\ Exact(p)
        /\ UNCHANGED <<verdict, budget>>
     \/ /\ Because(visible[parent[p]] # p \/ ~Exact(p))
        /\ Warn(p)
  /\ Goto(p, "done")
  /\ UNCHANGED <<namespace, tree, private, at, clean, disk>>

-----------------------------------------------------------------------------
(* Cleanup of the staged tree (cleanup_with).                              *)

(* The staging name is opened again and must lead to the tree: truly, or   *)
(* from a stale cache.  The directories are made writable; one may fail.   *)
Reacquire(p) ==
  /\ At(p, "clean")
  /\ \E stuck \in {{}} \cup {{d} : d \in sealed[p]} :
       /\ IF root[p] = "staging"
            THEN IF stuck = {} THEN UNCHANGED budget ELSE Charge(1)
            ELSE root[p] = "visible" /\ stuck = {} /\ Charge(1)
       /\ sealed' = [sealed EXCEPT ![p] = @ \ ((made[p] \cup {0}) \ stuck)]
       /\ IF stuck = {} THEN UNCHANGED clean ELSE Blame(p)
  /\ Goto(p, "remove")
  /\ UNCHANGED <<namespace, root, swapped, node, extra, private, at, verdict, disk>>

ReacquireFails(p) ==
  /\ At(p, "clean") /\ Because(root[p] # "staging")
  /\ Blame(p)
  /\ Goto(p, "done")
  /\ UNCHANGED <<namespace, tree, private, at, verdict, disk>>

(* What was recorded last is removed first, through the descriptor of the  *)
(* tree: the files from the last to the first, then the directories.       *)
Last(p, n) == n \in made[p] /\ \A m \in made[p] : m <= n

(* A mutant: the entry is removed whatever it is.                          *)
RemovableByName(p, n) ==
  /\ node[p][n] # "absent" /\ Holder[n] \notin sealed[p]
  /\ n \in Directories =>
       n \notin extra[p] /\ \A m \in Nodes : Holder[m] = n => node[p][m] = "absent"

Removable(p, n) ==
  /\ node[p][n] \in {"partial", "complete"} /\ Holder[n] \notin sealed[p]
  /\ n \in Directories =>
       n \notin extra[p] /\ \A m \in Nodes : Holder[m] = n => node[p][m] = "absent"

(* A mutant: an entry that could not be removed is tried again.            *)
ForgetNothing(p, n) == made' = made

Forget(p, n) == made' = [made EXCEPT ![p] = @ \ {n}]

RemoveNode(p) ==
  /\ At(p, "remove")
  /\ \E n \in made[p] :
       /\ Last(p, n) /\ Removable(p, n)
       /\ Becomes(p, n, "absent")
       /\ Forget(p, n)
  /\ UNCHANGED <<namespace, root, swapped, sealed, extra, parent, unsupported, seen,
                 pc, at, result, disk, budget>>

(* It stays, or goes back, under its name; or it stays under the cleanup   *)
(* claim, because it cannot be restored either.                            *)
RemoveNodeFails(p) ==
  /\ At(p, "remove")
  /\ \E n \in made[p] :
       /\ Last(p, n)
       /\ \/ Because(~Removable(p, n)) /\ UNCHANGED <<node, extra>>
          \/ /\ node[p][n] # "absent" /\ Holder[n] \notin sealed[p]
             /\ IF Removable(p, n) THEN Charge(2) ELSE Charge(1)
             /\ Becomes(p, n, "absent")
             /\ extra' = [extra EXCEPT ![p] = @ \cup {Holder[n]}]
       /\ Forget(p, n)
  /\ Blame(p)
  /\ UNCHANGED <<namespace, root, swapped, sealed, parent, unsupported, seen,
                 pc, at, verdict, disk>>

Bare(p) == 0 \notin extra[p] /\ \A n \in Nodes : Holder[n] = 0 => node[p][n] = "absent"

RemoveRoot(p) ==
  /\ At(p, "remove") /\ made[p] = {}
  /\ root[p] = "staging" /\ Bare(p)
  /\ root' = [root EXCEPT ![p] = "none"]
  /\ Goto(p, "done")
  /\ UNCHANGED <<namespace, swapped, node, sealed, extra, private, at, result, disk, budget>>

RemoveRootFails(p) ==
  /\ At(p, "remove") /\ made[p] = {}
  /\ \/ Because(root[p] # "staging" \/ ~Bare(p)) /\ UNCHANGED root
     \/ /\ root[p] = "staging"
        /\ IF Bare(p) THEN Charge(2) ELSE Charge(1)
        /\ root' = [root EXCEPT ![p] = "claimed"]
  /\ Blame(p)
  /\ Goto(p, "done")
  /\ UNCHANGED <<namespace, swapped, node, sealed, extra, private, at, verdict, disk>>

-----------------------------------------------------------------------------
(* The environment.                                                        *)

Crash(p) ==
  /\ p \in setting.mayCrash /\ Running(p) /\ ~lost
  /\ Goto(p, "crashed")
  /\ UNCHANGED <<namespace, tree, private, at, result, disk, budget>>

(* Another actor replaces a file of a tree, adds an entry to a directory,  *)
(* replaces a staging name, or takes the final name.                       *)
Edit ==
  /\ edits < setting.maxEdits /\ edits' = edits + 1 /\ UNCHANGED <<lost, faults>>
  /\ \/ \E p \in Publishers, n \in Nodes \ Directories :
          /\ root[p] # "none" /\ node[p][n] \in {"partial", "complete"}
          /\ Becomes(p, n, "stranger")
          /\ UNCHANGED <<visible, root, swapped, extra>>
     \/ \E p \in Publishers, d \in Folders :
          /\ root[p] # "none" /\ (d # 0 => node[p][d] # "absent")
          /\ extra' = [extra EXCEPT ![p] = @ \cup {d}]
          /\ UNCHANGED <<visible, root, swapped, node>>
     \/ \E p \in Publishers :
          /\ root[p] = "staging"
          /\ root' = [root EXCEPT ![p] = "away"] /\ swapped' = swapped \cup {p}
          /\ UNCHANGED <<visible, node, extra>>
     \/ \E c \in Makers :
          /\ Linked(c) /\ visible[c] = NoOne
          /\ visible' = [visible EXCEPT ![c] = Stranger]
          /\ UNCHANGED <<root, swapped, node, extra>>
  /\ UNCHANGED <<container, hidden, sealed, private, pc, at, result, disk>>

(* The names that need not be on disk, and the contents.                   *)
Unlisted ==
  {e \in Publishers \X Nodes : e[2] \notin listed[e[1]] /\ node[e[1]][e[2]] # "absent"}
Unwritten ==
  {e \in Publishers \X Nodes : e[2] \notin written[e[1]] /\ node[e[1]][e[2]] = "complete"}

(* The power fails: everything not yet on disk may have reached it or not. *)
PowerFails ==
  /\ setting.powerMayFail /\ ~lost /\ lost' = TRUE
  /\ container' \in {container, anchored}
  /\ \E old \in SUBSET {c \in Makers : visible[c] # durable[c]} :
       visible' = [c \in Makers |-> IF c \in old THEN durable[c] ELSE visible[c]]
  /\ \E gone \in SUBSET Unlisted, torn \in SUBSET Unwritten :
       node' = [p \in Publishers |-> [n \in Nodes |->
                  IF <<p, n>> \in gone THEN "absent"
                  ELSE IF <<p, n>> \in torn THEN "partial" ELSE node[p][n]]]
  /\ pc' = [p \in Publishers |-> IF Running(p) THEN "crashed" ELSE pc[p]]
  /\ UNCHANGED <<hidden, root, swapped, sealed, extra, private, at, result, disk, faults, edits>>

Prepare(p) ==
  \/ Enter(p) \/ EnterFails(p) \/ OpenContainer(p) \/ OpenContainerFails(p)
  \/ HideContainer(p) \/ ExpelContainer(p)
  \/ SyncDestination(p) \/ SyncDestinationFails(p)

Stage(p) ==
  \/ CreateStaging(p) \/ CreateStagingFails(p)
  \/ CreateNode(p) \/ CreateNodeFails(p) \/ WriteFile(p) \/ WriteFileFails(p)
  \/ Seal(p) \/ SealFails(p) \/ SyncParent(p) \/ SyncParentFails(p)
  \/ Check(p) \/ CheckFails(p)

Publish(p) ==
  \/ Rename(p) \/ RenameFails(p) \/ ProbeFinal(p) \/ Reconcile(p)
  \/ SyncVisible(p) \/ SyncVisibleFails(p) \/ Verify(p)

CleanUp(p) ==
  \/ Reacquire(p) \/ ReacquireFails(p) \/ RemoveNode(p) \/ RemoveNodeFails(p)
  \/ RemoveRoot(p) \/ RemoveRootFails(p)

Step(p) == ~lost /\ (Prepare(p) \/ Stage(p) \/ Publish(p) \/ CleanUp(p))

Next ==
  /\ \/ \E p \in setting.publishers : Step(p) \/ Crash(p)
     \/ Edit
     \/ PowerFails
  /\ UNCHANGED setting

Spec == Init /\ [][Next]_vars

(* A publisher that is not killed goes on: it waits for nobody.            *)
FairSpec == Spec /\ \A p \in Publishers : WF_vars(Step(p) /\ UNCHANGED setting)

-----------------------------------------------------------------------------
(* Properties.                                                             *)

Outcome(p) == IF At(p, "done") THEN verdict[p] ELSE "none"

(* An error means that nothing became visible, and a result without        *)
(* warnings that the release is (publish_release: "errors are returned     *)
(* only before visibility").  A publisher that fails and does not report   *)
(* an incomplete cleanup has left nothing behind, not even under a cleanup *)
(* claim.                                                                  *)
ResultsAreTruthful ==
  \A p \in Publishers :
    /\ Outcome(p) = "failed" =>
         /\ root[p] # "visible"
         /\ clean[p] => root[p] = "none" /\ p \notin swapped /\ hidden[p] = NoOne
    /\ Outcome(p) = "good" /\ ~lost => visible[parent[p]] = p

(* Atomic visibility (ADR-0013, one visibility point): whenever the final  *)
(* name leads to the tree of a publisher and nobody else has touched the   *)
(* tree, it is the complete release, manifest and modes included; and      *)
(* whenever the power fails, the release is there completely or not at     *)
(* all, and it is there under its name if a publisher has reported it as   *)
(* durable.                                                                *)
SurvivesPowerLoss ==
  edits = 0 =>
    /\ \A c \in Makers : visible[c] \in Publishers => Exact(visible[c])
    /\ lost => \A p \in Publishers : Outcome(p) = "good" =>
         container = parent[p] /\ visible[parent[p]] = p

(* What is not the publisher's own is never removed: a file that another   *)
(* actor put in the place of a staged one stays in the tree.               *)
StrangersArePreserved ==
  [][ \A p \in Publishers, n \in Nodes : node[p][n] = "stranger" =>
        \/ node'[p][n] = "stranger"
        \/ Holder[n] \in extra'[p]
        \/ lost' # lost ]_vars

(* The final name, when it leads to the complete tree of a publisher.      *)
Shown ==
  LET v == IF container = NoOne THEN NoOne ELSE visible[container] IN
  IF v \in Publishers /\ ~Exact(v) THEN Stranger ELSE v

Namespace == INSTANCE ReleaseNamespace
  WITH shown <- Shown, result <- [p \in Publishers |-> Outcome(p)],
       disturbed <- edits > 0

(* Publishers of one release see one name that is taken once, completely,  *)
(* and report truthfully who took it (ADR-0013).                           *)
ImplementsNamespace == Namespace!Spec

(* A publisher that has started ends, unless it is killed or the power     *)
(* fails: every entry of the cleanup is attempted once.                    *)
Terminates ==
  \A p \in Publishers : Running(p) ~> (pc[p] \in {"done", "crashed"} \/ lost)

=============================================================================
