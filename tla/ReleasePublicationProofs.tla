---------------------- MODULE ReleasePublicationProofs ----------------------
(***************************************************************************)
(* Theorems about ReleasePublication: types, what a publisher reports, what*)
(* it leaves alone, for every setting; what a loss of power leaves, and that*)
(* the publication implements ReleaseNamespace, when a publisher that may  *)
(* have to take back its container is alone (SoleExpeller). The invariants *)
(* follow one publisher (PublisherInv), its contents (ContentsInv), the    *)
(* names of containers (FreshInv), and where a tree is (KeptInv).          *)
(***************************************************************************)
EXTENDS ReleasePublication, TLAPS

-----------------------------------------------------------------------------
(* Type correctness.                                                       *)

NamesType ==
  /\ container \in Makers \cup {NoOne}
  /\ hidden \in [Publishers -> Makers \cup {NoOne}]
  /\ visible \in [Makers -> Makers \cup {NoOne}]
  /\ anchored \in Makers \cup {NoOne}
  /\ durable \in [Makers -> Makers \cup {NoOne}]

TreeType ==
  /\ root \in [Publishers -> {"none", "staging", "visible", "claimed", "away"}]
  /\ swapped \in SUBSET Publishers
  /\ node \in [Publishers -> [Nodes -> {"absent", "partial", "complete", "stranger"}]]
  /\ sealed \in [Publishers -> SUBSET Folders]
  /\ extra \in [Publishers -> SUBSET Folders]

RecordType ==
  /\ parent \in [Publishers -> Makers \cup {NoOne}]
  /\ made \in [Publishers -> SUBSET Nodes]
  /\ unsupported \in SUBSET Publishers
  /\ seen \in [Publishers -> {"own", "other", "error"}]
  /\ verdict \in [Publishers -> {"good", "warned", "indeterminate", "failed"}]
  /\ clean \in [Publishers -> BOOLEAN]
  /\ written \in [Publishers -> SUBSET Nodes]
  /\ listed \in [Publishers -> SUBSET Nodes]

PhaseType ==
  /\ pc \in [Publishers -> Phases]
  /\ at \in [Publishers -> 0 .. Size + 1]
  /\ \A p \in Publishers : pc[p] \in {"create", "write"} => at[p] \in Nodes

BudgetType == lost \in BOOLEAN /\ faults \in Nat /\ edits \in Nat /\ setting \in Settings

TypeInv == NamesType /\ TreeType /\ RecordType /\ PhaseType /\ BudgetType

(* One entry of a tree is changed, or one element is added to a set.       *)
LEMMA NodeType ==
  ASSUME TreeType,
         \/ node' = node
         \/ \E p \in Publishers, n \in Nodes, s \in {"absent", "partial", "complete", "stranger"} :
              node' = [node EXCEPT ![p][n] = s]
  PROVE  node' \in [Publishers -> [Nodes -> {"absent", "partial", "complete", "stranger"}]]
  <1> DEFINE Kinds == {"absent", "partial", "complete", "stranger"}
  <1>1. node \in [Publishers -> [Nodes -> Kinds]]
    BY DEF TreeType
  <1> HIDE DEF Kinds
  <1>2. ASSUME NEW p \in Publishers, NEW n \in Nodes, NEW s \in Kinds,
               node' = [node EXCEPT ![p][n] = s]
        PROVE  node' \in [Publishers -> [Nodes -> Kinds]]
    BY <1>1, <1>2
  <1>3. QED
    BY <1>1, <1>2 DEF Kinds

(* A folder of one tree is added to a set of folders per publisher.        *)
LEMMA FolderType ==
  ASSUME NEW f, f \in [Publishers -> SUBSET Folders], NEW g,
         \/ g = f
         \/ \E p \in Publishers, d \in Folders : g = [f EXCEPT ![p] = @ \cup {d}]
  PROVE  g \in [Publishers -> SUBSET Folders]
  OBVIOUS

(* A node of one tree is added to a set of nodes per publisher.            *)
LEMMA NodesType ==
  ASSUME NEW f, f \in [Publishers -> SUBSET Nodes], NEW g,
         \/ g = f
         \/ \E p \in Publishers, n \in Nodes :
              g = [f EXCEPT ![p] = @ \cup {n}] \/ g = [f EXCEPT ![p] = @ \ {n}]
  PROVE  g \in [Publishers -> SUBSET Nodes]
  OBVIOUS

(* A step of a publisher keeps the types.                                  *)
LEMMA StepType ==
  ASSUME TypeInv, NEW p \in Publishers, Step(p), UNCHANGED setting
  PROVE  TypeInv'
  <1> USE TreeAssumption DEF TypeInv, NamesType, TreeType, RecordType, PhaseType,
          BudgetType,
        Nodes, Directories, Folders, Phases, Makers,
        At, Goto, Charge, Because, Blame, namespace, tree, private, result, disk, budget
  <1>0. Prepare(p) \/ Stage(p) \/ Publish(p) \/ CleanUp(p)
    BY DEF Step
  <1>1. CASE Prepare(p)
    <2>1. CASE Enter(p)
      <3>1. NamesType'
        BY <2>1 DEF Enter
      <3>2. TreeType'
        BY <2>1 DEF Enter
      <3>3. RecordType'
        BY <2>1 DEF Enter
      <3>4. PhaseType'
        <4>1. \/ pc' = [pc EXCEPT ![p] = "own"] /\ at' = at
              \/ pc' = [pc EXCEPT ![p] = "other"] /\ at' = at
          BY <2>1 DEF Enter
        <4>2. pc' \in [Publishers -> Phases] /\ at' = at
          BY <4>1
        <4>3. \A q \in Publishers : pc'[q] \in {"create", "write"} => pc[q] = pc'[q]
          BY <4>1
        <4>4. QED
          BY <4>2, <4>3
      <3>5. BudgetType'
        BY <2>1 DEF Enter
      <3>6. QED
        BY <3>1, <3>2, <3>3, <3>4, <3>5
    <2>2. CASE EnterFails(p)
      <3>1. NamesType'
        BY <2>2 DEF EnterFails
      <3>2. TreeType'
        BY <2>2 DEF EnterFails
      <3>3. RecordType'
        BY <2>2 DEF EnterFails, Return
      <3>4. PhaseType'
        BY <2>2 DEF EnterFails, Return
      <3>5. BudgetType'
        BY <2>2 DEF EnterFails
      <3>6. QED
        BY <3>1, <3>2, <3>3, <3>4, <3>5
    <2>3. CASE OpenContainer(p)
      <3>1. NamesType'
        BY <2>3 DEF OpenContainer
      <3>2. TreeType'
        BY <2>3 DEF OpenContainer
      <3>3. RecordType'
        BY <2>3 DEF OpenContainer
      <3>4. PhaseType'
        BY <2>3 DEF OpenContainer
      <3>5. BudgetType'
        BY <2>3 DEF OpenContainer
      <3>6. QED
        BY <3>1, <3>2, <3>3, <3>4, <3>5
    <2>4. CASE OpenContainerFails(p)
      <3>1. NamesType'
        BY <2>4 DEF OpenContainerFails
      <3>2. TreeType'
        BY <2>4 DEF OpenContainerFails
      <3>3. RecordType'
        BY <2>4 DEF OpenContainerFails, Return
      <3>4. PhaseType'
        BY <2>4 DEF OpenContainerFails, Return
      <3>5. BudgetType'
        BY <2>4 DEF OpenContainerFails
      <3>6. QED
        BY <3>1, <3>2, <3>3, <3>4, <3>5
    <2>5. CASE HideContainer(p)
      <3>1. NamesType'
        BY <2>5 DEF HideContainer
      <3>2. TreeType'
        BY <2>5 DEF HideContainer
      <3>3. RecordType'
        BY <2>5 DEF HideContainer
      <3>4. PhaseType'
        BY <2>5 DEF HideContainer
      <3>5. BudgetType'
        BY <2>5 DEF HideContainer
      <3>6. QED
        BY <3>1, <3>2, <3>3, <3>4, <3>5
    <2>6. CASE ExpelContainer(p)
      <3>1. NamesType'
        BY <2>6 DEF ExpelContainer
      <3>2. TreeType'
        BY <2>6 DEF ExpelContainer
      <3>3. RecordType'
        BY <2>6 DEF ExpelContainer, Return
      <3>4. PhaseType'
        BY <2>6 DEF ExpelContainer, Return
      <3>5. BudgetType'
        BY <2>6 DEF ExpelContainer
      <3>6. QED
        BY <3>1, <3>2, <3>3, <3>4, <3>5
    <2>7. CASE SyncDestination(p)
      BY <2>7 DEF SyncDestination
    <2>8. CASE SyncDestinationFails(p)
      <3>1. NamesType'
        BY <2>8 DEF SyncDestinationFails
      <3>2. TreeType'
        BY <2>8 DEF SyncDestinationFails
      <3>3. RecordType'
        BY <2>8 DEF SyncDestinationFails, Return
      <3>4. PhaseType'
        BY <2>8 DEF SyncDestinationFails, Return
      <3>5. BudgetType'
        BY <2>8 DEF SyncDestinationFails
      <3>6. QED
        BY <3>1, <3>2, <3>3, <3>4, <3>5
    <2>9. QED
      BY <1>1, <2>1, <2>2, <2>3, <2>4, <2>5, <2>6, <2>7, <2>8 DEF Prepare
  <1>2. CASE Stage(p)
    <2>1. CASE CreateStaging(p)
      <3>1. NamesType'
        BY <2>1 DEF CreateStaging
      <3>2. TreeType'
        BY <2>1 DEF CreateStaging
      <3>3. RecordType'
        BY <2>1 DEF CreateStaging
      <3>4. PhaseType'
        BY <2>1 DEF CreateStaging
      <3>5. BudgetType'
        BY <2>1 DEF CreateStaging
      <3>6. QED
        BY <3>1, <3>2, <3>3, <3>4, <3>5
    <2>2. CASE CreateStagingFails(p)
      <3>1. NamesType'
        BY <2>2 DEF CreateStagingFails
      <3>2. TreeType'
        BY <2>2 DEF CreateStagingFails
      <3>3. RecordType'
        BY <2>2 DEF CreateStagingFails, Return
      <3>4. PhaseType'
        BY <2>2 DEF CreateStagingFails, Return
      <3>5. BudgetType'
        BY <2>2 DEF CreateStagingFails
      <3>6. QED
        BY <3>1, <3>2, <3>3, <3>4, <3>5
    <2>3. CASE CreateNode(p)
      <3>1. NamesType'
        BY <2>3 DEF CreateNode
      <3>2. TreeType'
        BY <2>3 DEF CreateNode, Becomes
      <3>3. RecordType'
        <4>1. at[p] \in Nodes
          BY <2>3 DEF CreateNode
        <4>2. made' = [made EXCEPT ![p] = @ \cup {at[p]}]
          BY <2>3 DEF CreateNode
        <4>3. written' = written \/ written' = [written EXCEPT ![p] = @ \cup {at[p]}]
          BY <2>3 DEF CreateNode
        <4>4. made' \in [Publishers -> SUBSET Nodes]
          BY <4>1, <4>2, NodesType
        <4>5. written' \in [Publishers -> SUBSET Nodes]
          BY <4>1, <4>3, NodesType
        <4>6. UNCHANGED <<parent, unsupported, seen, verdict, clean, listed>>
          BY <2>3 DEF CreateNode
        <4>7. QED
          BY <4>4, <4>5, <4>6
      <3>4. PhaseType'
        <4>1. at[p] \in Nodes
          BY <2>3 DEF CreateNode
        <4>2. \/ pc' = [pc EXCEPT ![p] = "write"] /\ at' = at
              \/ pc' = [pc EXCEPT ![p] = "seal"] /\ at' = [at EXCEPT ![p] = @ + 1]
              \/ /\ pc' = [pc EXCEPT ![p] = "create"] /\ at' = [at EXCEPT ![p] = @ + 1]
                 /\ at[p] # Size
          BY <2>3 DEF CreateNode
        <4>3. at' \in [Publishers -> 0 .. Size + 1]
          <5>1. at[p] + 1 \in 0 .. Size + 1
            BY <4>1
          <5>2. QED
            BY <4>2, <5>1
        <4>4. pc' \in [Publishers -> Phases]
          BY <4>2
        <4>5. pc'[p] = "write" => at'[p] \in Nodes
          BY <4>1, <4>2
        <4>6. pc'[p] = "create" => at'[p] \in Nodes
          BY <4>1, <4>2
        <4>7. \A q \in Publishers : q # p => pc'[q] = pc[q] /\ at'[q] = at[q]
          BY <4>2
        <4>8. QED
          BY <4>3, <4>4, <4>5, <4>6, <4>7
      <3>5. BudgetType'
        BY <2>3 DEF CreateNode
      <3>6. QED
        BY <3>1, <3>2, <3>3, <3>4, <3>5
    <2>4. CASE CreateNodeFails(p)
      <3>1. NamesType'
        BY <2>4 DEF CreateNodeFails
      <3>2. TreeType'
        <4>1. at[p] \in Nodes
          BY <2>4 DEF CreateNodeFails
        <4>2. \/ node' = node
              \/ node' = [node EXCEPT ![p][at[p]] = "complete"]
              \/ node' = [node EXCEPT ![p][at[p]] = "partial"]
          BY <2>4 DEF CreateNodeFails, Becomes
        <4>3. node' \in [Publishers -> [Nodes -> {"absent", "partial", "complete", "stranger"}]]
          BY <4>1, <4>2, NodeType
        <4>4. UNCHANGED <<root, swapped, sealed, extra>>
          BY <2>4 DEF CreateNodeFails
        <4>5. QED
          BY <4>3, <4>4
      <3>3. RecordType'
        <4>1. at[p] \in Nodes
          BY <2>4 DEF CreateNodeFails
        <4>2. made' = made \/ made' = [made EXCEPT ![p] = @ \cup {at[p]}]
          BY <2>4 DEF CreateNodeFails
        <4>3. made' \in [Publishers -> SUBSET Nodes]
          BY <4>1, <4>2, NodesType
        <4>4. verdict' \in [Publishers -> {"good", "warned", "indeterminate", "failed"}]
          BY <2>4 DEF CreateNodeFails, Fail
        <4>5. UNCHANGED <<parent, unsupported, seen, clean, written, listed>>
          BY <2>4 DEF CreateNodeFails
        <4>6. QED
          BY <4>3, <4>4, <4>5
      <3>4. PhaseType'
        BY <2>4 DEF CreateNodeFails, Fail
      <3>5. BudgetType'
        BY <2>4 DEF CreateNodeFails
      <3>6. QED
        BY <3>1, <3>2, <3>3, <3>4, <3>5
    <2>5. CASE WriteFile(p)
      <3>1. NamesType'
        BY <2>5 DEF WriteFile
      <3>2. TreeType'
        BY <2>5 DEF WriteFile, Becomes
      <3>3. RecordType'
        <4>1. at[p] \in Nodes
          BY <2>5 DEF WriteFile
        <4>2. written' = [written EXCEPT ![p] = @ \cup {at[p]}]
          BY <2>5 DEF WriteFile
        <4>3. written' \in [Publishers -> SUBSET Nodes]
          BY <4>1, <4>2, NodesType
        <4>4. UNCHANGED <<parent, made, unsupported, seen, verdict, clean, listed>>
          BY <2>5 DEF WriteFile
        <4>5. QED
          BY <4>3, <4>4
      <3>4. PhaseType'
        BY <2>5 DEF WriteFile
      <3>5. BudgetType'
        BY <2>5 DEF WriteFile
      <3>6. QED
        BY <3>1, <3>2, <3>3, <3>4, <3>5
    <2>6. CASE WriteFileFails(p)
      <3>1. NamesType'
        BY <2>6 DEF WriteFileFails
      <3>2. TreeType'
        BY <2>6 DEF WriteFileFails
      <3>3. RecordType'
        BY <2>6 DEF WriteFileFails, Fail
      <3>4. PhaseType'
        BY <2>6 DEF WriteFileFails, Fail
      <3>5. BudgetType'
        BY <2>6 DEF WriteFileFails
      <3>6. QED
        BY <3>1, <3>2, <3>3, <3>4, <3>5
    <2>7. CASE Seal(p)
      <3>1. NamesType'
        BY <2>7 DEF Seal
      <3>2. TreeType'
        BY <2>7 DEF Seal, NextFolder
      <3>3. RecordType'
        BY <2>7 DEF Seal
      <3>4. PhaseType'
        BY <2>7 DEF Seal, NextFolder
      <3>5. BudgetType'
        BY <2>7 DEF Seal
      <3>6. QED
        BY <3>1, <3>2, <3>3, <3>4, <3>5
    <2>8. CASE SealFails(p)
      <3>1. NamesType'
        BY <2>8 DEF SealFails
      <3>2. TreeType'
        <4>1. NextFolder(p) \in Folders
          BY DEF NextFolder
        <4>2. sealed' = sealed \/ sealed' = [sealed EXCEPT ![p] = @ \cup {NextFolder(p)}]
          BY <2>8 DEF SealFails
        <4>3. sealed' \in [Publishers -> SUBSET Folders]
          BY <4>1, <4>2, FolderType
        <4>4. UNCHANGED <<root, swapped, node, extra>>
          BY <2>8 DEF SealFails
        <4>5. QED
          BY <4>3, <4>4
      <3>3. RecordType'
        BY <2>8 DEF SealFails, Fail
      <3>4. PhaseType'
        BY <2>8 DEF SealFails, NextFolder, Fail
      <3>5. BudgetType'
        BY <2>8 DEF SealFails
      <3>6. QED
        BY <3>1, <3>2, <3>3, <3>4, <3>5
    <2>9. CASE SyncParent(p)
      <3>1. NamesType'
        BY <2>9 DEF SyncParent
      <3>2. TreeType'
        BY <2>9 DEF SyncParent
      <3>3. RecordType'
        BY <2>9 DEF SyncParent
      <3>4. PhaseType'
        BY <2>9 DEF SyncParent
      <3>5. BudgetType'
        BY <2>9 DEF SyncParent
      <3>6. QED
        BY <3>1, <3>2, <3>3, <3>4, <3>5
    <2>10. CASE SyncParentFails(p)
      <3>1. NamesType'
        BY <2>10 DEF SyncParentFails
      <3>2. TreeType'
        BY <2>10 DEF SyncParentFails
      <3>3. RecordType'
        BY <2>10 DEF SyncParentFails, Fail
      <3>4. PhaseType'
        BY <2>10 DEF SyncParentFails, Fail
      <3>5. BudgetType'
        BY <2>10 DEF SyncParentFails
      <3>6. QED
        BY <3>1, <3>2, <3>3, <3>4, <3>5
    <2>11. CASE Check(p)
      BY <2>11 DEF Check
    <2>12. CASE CheckFails(p)
      <3>1. NamesType'
        BY <2>12 DEF CheckFails
      <3>2. TreeType'
        BY <2>12 DEF CheckFails
      <3>3. RecordType'
        BY <2>12 DEF CheckFails, Fail
      <3>4. PhaseType'
        BY <2>12 DEF CheckFails, Fail
      <3>5. BudgetType'
        BY <2>12 DEF CheckFails
      <3>6. QED
        BY <3>1, <3>2, <3>3, <3>4, <3>5
    <2>13. QED
      BY <1>2, <2>1, <2>2, <2>3, <2>4, <2>5, <2>6, <2>7, <2>8, <2>9, <2>10, <2>11,
         <2>12 DEF Stage
  <1>3. CASE Publish(p)
    <2>1. CASE Rename(p)
      <3>1. NamesType'
        BY <2>1 DEF Rename, Show
      <3>2. TreeType'
        BY <2>1 DEF Rename, Show
      <3>3. RecordType'
        BY <2>1 DEF Rename
      <3>4. PhaseType'
        BY <2>1 DEF Rename
      <3>5. BudgetType'
        BY <2>1 DEF Rename
      <3>6. QED
        BY <3>1, <3>2, <3>3, <3>4, <3>5
    <2>2. CASE RenameFails(p)
      <3>1. NamesType'
        <4>1. \/ visible' = visible
              \/ visible' = [visible EXCEPT ![parent[p]] = Stranger]
              \/ visible' = [visible EXCEPT ![parent[p]] = p]
          BY <2>2 DEF RenameFails, Show
        <4>2. container' = container /\ hidden' = hidden /\ anchored' = anchored /\ durable' = durable
          BY <2>2 DEF RenameFails, Show
        <4>3. QED
          BY <4>1, <4>2
      <3>2. TreeType'
        <4>1. root' = root \/ root' = [root EXCEPT ![p] = "visible"]
          BY <2>2 DEF RenameFails, Show
        <4>2. swapped' = swapped \/ swapped' = swapped \ {p}
          BY <2>2 DEF RenameFails, Show
        <4>3. UNCHANGED <<node, sealed, extra>>
          BY <2>2 DEF RenameFails, Show
        <4>4. root' \in [Publishers -> {"none", "staging", "visible", "claimed", "away"}]
          BY <4>1
        <4>5. QED
          BY <4>2, <4>3, <4>4
      <3>3. RecordType'
        BY <2>2 DEF RenameFails
      <3>4. PhaseType'
        BY <2>2 DEF RenameFails
      <3>5. BudgetType'
        BY <2>2 DEF RenameFails
      <3>6. QED
        BY <3>1, <3>2, <3>3, <3>4, <3>5
    <2>3. CASE ProbeFinal(p)
      <3>1. NamesType'
        BY <2>3 DEF ProbeFinal
      <3>2. TreeType'
        BY <2>3 DEF ProbeFinal
      <3>3. RecordType'
        BY <2>3 DEF ProbeFinal
      <3>4. PhaseType'
        BY <2>3 DEF ProbeFinal
      <3>5. BudgetType'
        BY <2>3 DEF ProbeFinal
      <3>6. QED
        BY <3>1, <3>2, <3>3, <3>4, <3>5
    <2>4. CASE Reconcile(p)
      <3>1. NamesType'
        BY <2>4 DEF Reconcile
      <3>2. TreeType'
        BY <2>4 DEF Reconcile
      <3>3. RecordType'
        BY <2>4 DEF Reconcile, Warn, Fail
      <3>4. PhaseType'
        <4>1. /\ \E x \in {"sync", "clean"} : pc' = [pc EXCEPT ![p] = x]
              /\ at' = at
          BY <2>4 DEF Reconcile, Fail
        <4>2. QED
          BY <4>1
      <3>5. BudgetType'
        BY <2>4 DEF Reconcile
      <3>6. QED
        BY <3>1, <3>2, <3>3, <3>4, <3>5
    <2>5. CASE SyncVisible(p)
      <3>1. NamesType'
        BY <2>5 DEF SyncVisible
      <3>2. TreeType'
        BY <2>5 DEF SyncVisible
      <3>3. RecordType'
        BY <2>5 DEF SyncVisible
      <3>4. PhaseType'
        BY <2>5 DEF SyncVisible
      <3>5. BudgetType'
        BY <2>5 DEF SyncVisible
      <3>6. QED
        BY <3>1, <3>2, <3>3, <3>4, <3>5
    <2>6. CASE SyncVisibleFails(p)
      <3>1. NamesType'
        BY <2>6 DEF SyncVisibleFails
      <3>2. TreeType'
        BY <2>6 DEF SyncVisibleFails
      <3>3. RecordType'
        BY <2>6 DEF SyncVisibleFails, Warn
      <3>4. PhaseType'
        BY <2>6 DEF SyncVisibleFails
      <3>5. BudgetType'
        BY <2>6 DEF SyncVisibleFails
      <3>6. QED
        BY <3>1, <3>2, <3>3, <3>4, <3>5
    <2>7. CASE Verify(p)
      <3>1. NamesType'
        BY <2>7 DEF Verify
      <3>2. TreeType'
        BY <2>7 DEF Verify
      <3>3. RecordType'
        BY <2>7 DEF Verify, Warn
      <3>4. PhaseType'
        BY <2>7 DEF Verify
      <3>5. BudgetType'
        BY <2>7 DEF Verify
      <3>6. QED
        BY <3>1, <3>2, <3>3, <3>4, <3>5
    <2>8. QED
      BY <1>3, <2>1, <2>2, <2>3, <2>4, <2>5, <2>6, <2>7 DEF Publish
  <1>4. CASE CleanUp(p)
    <2>1. CASE Reacquire(p)
      <3>1. NamesType'
        BY <2>1 DEF Reacquire
      <3>2. TreeType'
        BY <2>1 DEF Reacquire
      <3>3. RecordType'
        BY <2>1 DEF Reacquire
      <3>4. PhaseType'
        BY <2>1 DEF Reacquire
      <3>5. BudgetType'
        BY <2>1 DEF Reacquire
      <3>6. QED
        BY <3>1, <3>2, <3>3, <3>4, <3>5
    <2>2. CASE ReacquireFails(p)
      <3>1. NamesType'
        BY <2>2 DEF ReacquireFails
      <3>2. TreeType'
        BY <2>2 DEF ReacquireFails
      <3>3. RecordType'
        BY <2>2 DEF ReacquireFails
      <3>4. PhaseType'
        BY <2>2 DEF ReacquireFails
      <3>5. BudgetType'
        BY <2>2 DEF ReacquireFails
      <3>6. QED
        BY <3>1, <3>2, <3>3, <3>4, <3>5
    <2>3. CASE RemoveNode(p)
      <3>1. NamesType'
        BY <2>3 DEF RemoveNode
      <3>2. TreeType'
        BY <2>3 DEF RemoveNode, Becomes
      <3>3. RecordType'
        BY <2>3 DEF RemoveNode, Forget
      <3>4. PhaseType'
        BY <2>3 DEF RemoveNode
      <3>5. BudgetType'
        BY <2>3 DEF RemoveNode
      <3>6. QED
        BY <3>1, <3>2, <3>3, <3>4, <3>5
    <2>4. CASE RemoveNodeFails(p)
      <3>1. NamesType'
        BY <2>4 DEF RemoveNodeFails
      <3>2. TreeType'
        <4>1. PICK n \in Nodes :
                \/ node' = node /\ extra' = extra
                \/ /\ node' = [node EXCEPT ![p][n] = "absent"]
                   /\ extra' = [extra EXCEPT ![p] = @ \cup {Holder[n]}]
          BY <2>4 DEF RemoveNodeFails, Becomes
        <4>2. extra' \in [Publishers -> SUBSET Folders]
          BY <4>1, FolderType, TreeAssumption
        <4>3. node' \in [Publishers -> [Nodes -> {"absent", "partial", "complete", "stranger"}]]
          BY <4>1, NodeType
        <4>4. UNCHANGED <<root, swapped, sealed>>
          BY <2>4 DEF RemoveNodeFails
        <4>5. QED
          BY <4>2, <4>3, <4>4
      <3>3. RecordType'
        <4>1. \E n \in Nodes : made' = [made EXCEPT ![p] = @ \ {n}]
          BY <2>4 DEF RemoveNodeFails, Forget
        <4>2. made' \in [Publishers -> SUBSET Nodes]
          BY <4>1, NodesType
        <4>3. /\ clean' = [clean EXCEPT ![p] = FALSE]
              /\ UNCHANGED <<parent, unsupported, seen, verdict, written, listed>>
          BY <2>4 DEF RemoveNodeFails
        <4>4. QED
          BY <4>2, <4>3
      <3>4. PhaseType'
        BY <2>4 DEF RemoveNodeFails
      <3>5. BudgetType'
        <4>1. \/ UNCHANGED <<lost, faults, edits>>
              \/ Charge(1)
              \/ Charge(2)
          BY <2>4 DEF RemoveNodeFails
        <4>2. UNCHANGED <<lost, edits>> /\ faults' \in {faults, faults + 1, faults + 2}
          BY <4>1
        <4>3. QED
          BY <4>2
      <3>6. QED
        BY <3>1, <3>2, <3>3, <3>4, <3>5
    <2>5. CASE RemoveRoot(p)
      <3>1. NamesType'
        BY <2>5 DEF RemoveRoot
      <3>2. TreeType'
        BY <2>5 DEF RemoveRoot
      <3>3. RecordType'
        BY <2>5 DEF RemoveRoot
      <3>4. PhaseType'
        BY <2>5 DEF RemoveRoot
      <3>5. BudgetType'
        BY <2>5 DEF RemoveRoot
      <3>6. QED
        BY <3>1, <3>2, <3>3, <3>4, <3>5
    <2>6. CASE RemoveRootFails(p)
      <3>1. NamesType'
        BY <2>6 DEF RemoveRootFails
      <3>2. TreeType'
        BY <2>6 DEF RemoveRootFails
      <3>3. RecordType'
        BY <2>6 DEF RemoveRootFails
      <3>4. PhaseType'
        BY <2>6 DEF RemoveRootFails
      <3>5. BudgetType'
        BY <2>6 DEF RemoveRootFails
      <3>6. QED
        BY <3>1, <3>2, <3>3, <3>4, <3>5
    <2>7. QED
      BY <1>4, <2>1, <2>2, <2>3, <2>4, <2>5, <2>6 DEF CleanUp
  <1>5. QED
    BY <1>0, <1>1, <1>2, <1>3, <1>4

(* Nor do the environment and a crash break them.                          *)
LEMMA EnvironmentType ==
  ASSUME TypeInv, Edit \/ PowerFails \/ (\E p \in Publishers : Crash(p)), UNCHANGED setting
  PROVE  TypeInv'
  <1> USE TreeAssumption DEF TypeInv, NamesType, TreeType, RecordType, PhaseType,
          BudgetType,
        Nodes, Folders, Phases, Makers, namespace, tree, private, result, disk, budget
  <1>1. CASE Edit
    <2>1. NamesType'
      BY <1>1 DEF Edit
    <2>2. TreeType'
      <3>1. \/ node' = node
            \/ \E p \in Publishers, n \in Nodes : node' = [node EXCEPT ![p][n] = "stranger"]
        BY <1>1 DEF Edit, Becomes, Directories
      <3>2. extra' = extra \/ \E p \in Publishers, d \in Folders : extra' = [extra EXCEPT ![p] = @ \cup {d}]
        BY <1>1 DEF Edit
      <3>3. \/ root' = root /\ swapped' = swapped
            \/ \E p \in Publishers : root' = [root EXCEPT ![p] = "away"] /\ swapped' = swapped \cup {p}
        BY <1>1 DEF Edit
      <3>4. sealed' = sealed
        BY <1>1 DEF Edit
      <3>5. node' \in [Publishers -> [Nodes -> {"absent", "partial", "complete", "stranger"}]]
        BY <3>1, NodeType
      <3>6. extra' \in [Publishers -> SUBSET Folders]
        BY <3>2, FolderType
      <3>7. root' \in [Publishers -> {"none", "staging", "visible", "claimed", "away"}]
        BY <3>3
      <3>8. QED
        BY <3>3, <3>4, <3>5, <3>6, <3>7
    <2>3. RecordType'
      BY <1>1 DEF Edit
    <2>4. PhaseType'
      BY <1>1 DEF Edit
    <2>5. BudgetType'
      BY <1>1 DEF Edit
    <2>6. QED
      BY <2>1, <2>2, <2>3, <2>4, <2>5
  <1>2. CASE PowerFails
    <2>1. NamesType'
      <3>1. \A c \in Makers : visible'[c] \in {visible[c], durable[c]}
        BY <1>2 DEF PowerFails
      <3>2. DOMAIN visible' = Makers /\ visible' = [c \in Makers |-> visible'[c]]
        BY <1>2 DEF PowerFails
      <3>3. QED
        BY <1>2, <3>1, <3>2 DEF PowerFails
    <2>2. TreeType'
      <3>1. node' \in [Publishers -> [Nodes -> {"absent", "partial", "complete", "stranger"}]]
        BY <1>2 DEF PowerFails
      <3>2. QED
        BY <1>2, <3>1 DEF PowerFails
    <2>3. RecordType' /\ BudgetType'
      BY <1>2 DEF PowerFails
    <2>4. PhaseType'
      BY <1>2 DEF PowerFails
    <2>5. QED
      BY <2>1, <2>2, <2>3, <2>4
  <1>3. CASE \E p \in Publishers : Crash(p)
    BY <1>3 DEF Crash, Goto
  <1>4. QED
    BY <1>1, <1>2, <1>3

(* The parts of TypeOK, as they are used below.                            *)
LEMMA TypeInvariant == Spec => []TypeInv
  <1>1. Init => TypeInv
    <2> SUFFICES ASSUME Init PROVE TypeInv
      OBVIOUS
    <2>1. NamesType
      BY DEF Init, NamesType, Makers
    <2>2. TreeType
      BY DEF Init, TreeType
    <2>3. RecordType
      BY DEF Init, RecordType
    <2>4. PhaseType
      <3>1. 0 \in 0 .. Size + 1
        BY TreeAssumption
      <3>2. QED
        BY <3>1 DEF Init, PhaseType, Phases
    <2>5. BudgetType
      BY DEF Init, BudgetType
    <2>6. QED
      BY <2>1, <2>2, <2>3, <2>4, <2>5 DEF TypeInv
  <1>2. TypeInv /\ [Next]_vars => TypeInv'
    <2> SUFFICES ASSUME TypeInv, [Next]_vars PROVE TypeInv'
      OBVIOUS
    <2>1. CASE UNCHANGED vars
      BY <2>1 DEF TypeInv, NamesType, TreeType, RecordType, PhaseType, BudgetType,
         vars, namespace, tree, private, result, disk, budget
    <2>2. CASE Next
      <3>1. \/ \E p \in Publishers : Step(p)
            \/ Edit \/ PowerFails \/ \E p \in Publishers : Crash(p)
        BY <2>2, SettingAssumption DEF Next, TypeInv, BudgetType
      <3>2. UNCHANGED setting
        BY <2>2 DEF Next
      <3>3. QED
        BY <3>1, <3>2, StepType, EnvironmentType
    <2>3. QED
      BY <2>1, <2>2
  <1>3. QED
    BY <1>1, <1>2, PTL DEF Spec

(* Whoever publishes and whatever goes wrong, every variable has its type. *)
THEOREM TypeCorrect == Spec => []TypeOK
  <1>1. TypeInv => TypeOK
    BY DEF TypeInv, NamesType, TreeType, RecordType, PhaseType, BudgetType, TypeOK
  <1>2. QED
    BY <1>1, TypeInvariant, PTL

-----------------------------------------------------------------------------
(* What a step leaves alone.                                               *)

(* A publisher changes nothing that belongs to another.                    *)
LEMMA OthersKept ==
  ASSUME TypeInv, NEW p \in Publishers, Step(p), NEW q \in Publishers, q # p
  PROVE  /\ pc'[q] = pc[q] /\ at'[q] = at[q] /\ verdict'[q] = verdict[q] /\ clean'[q] = clean[q]
         /\ parent'[q] = parent[q] /\ seen'[q] = seen[q] /\ (q \in unsupported' <=> q \in unsupported)
         /\ root'[q] = root[q] /\ node'[q] = node[q] /\ sealed'[q] = sealed[q]
         /\ extra'[q] = extra[q] /\ (q \in swapped' <=> q \in swapped)
         /\ made'[q] = made[q] /\ hidden'[q] = hidden[q]
         /\ written'[q] = written[q] /\ listed'[q] = listed[q]
  <1> USE DEF TypeInv, NamesType, TreeType, RecordType, PhaseType,
        Goto, Blame, namespace, tree, private, result, disk
  <1>0. Prepare(p) \/ Stage(p) \/ Publish(p) \/ CleanUp(p)
    BY DEF Step
  <1>1. CASE Prepare(p)
    <2>1. CASE Enter(p)
      BY <2>1 DEF Enter
    <2>2. CASE EnterFails(p)
      BY <2>2 DEF EnterFails, Return
    <2>3. CASE OpenContainer(p)
      BY <2>3 DEF OpenContainer
    <2>4. CASE OpenContainerFails(p)
      BY <2>4 DEF OpenContainerFails, Return
    <2>5. CASE HideContainer(p)
      BY <2>5 DEF HideContainer
    <2>6. CASE ExpelContainer(p)
      BY <2>6 DEF ExpelContainer, Return
    <2>7. CASE SyncDestination(p)
      BY <2>7 DEF SyncDestination
    <2>8. CASE SyncDestinationFails(p)
      BY <2>8 DEF SyncDestinationFails, Return
    <2>9. QED
      BY <1>1, <2>1, <2>2, <2>3, <2>4, <2>5, <2>6, <2>7, <2>8 DEF Prepare
  <1>2. CASE Stage(p)
    <2>1. CASE CreateStaging(p)
      BY <2>1 DEF CreateStaging
    <2>2. CASE CreateStagingFails(p)
      BY <2>2 DEF CreateStagingFails, Return
    <2>3. CASE CreateNode(p)
      BY <2>3 DEF CreateNode, Becomes
    <2>4. CASE CreateNodeFails(p)
      BY <2>4 DEF CreateNodeFails, Becomes, Fail
    <2>5. CASE WriteFile(p)
      BY <2>5 DEF WriteFile, Becomes
    <2>6. CASE WriteFileFails(p)
      BY <2>6 DEF WriteFileFails, Fail
    <2>7. CASE Seal(p)
      BY <2>7 DEF Seal, NextFolder
    <2>8. CASE SealFails(p)
      BY <2>8 DEF SealFails, NextFolder, Fail
    <2>9. CASE SyncParent(p)
      BY <2>9 DEF SyncParent
    <2>10. CASE SyncParentFails(p)
      BY <2>10 DEF SyncParentFails, Fail
    <2>11. CASE Check(p)
      BY <2>11 DEF Check
    <2>12. CASE CheckFails(p)
      BY <2>12 DEF CheckFails, Fail
    <2>13. QED
      BY <1>2, <2>1, <2>2, <2>3, <2>4, <2>5, <2>6, <2>7, <2>8, <2>9, <2>10, <2>11,
         <2>12 DEF Stage
  <1>3. CASE Publish(p)
    <2>1. CASE Rename(p)
      BY <2>1 DEF Rename, Show
    <2>2. CASE RenameFails(p)
      BY <2>2 DEF RenameFails, Show
    <2>3. CASE ProbeFinal(p)
      BY <2>3 DEF ProbeFinal
    <2>4. CASE Reconcile(p)
      BY <2>4 DEF Reconcile, Warn, Fail, SourceAnswers
    <2>5. CASE SyncVisible(p)
      BY <2>5 DEF SyncVisible
    <2>6. CASE SyncVisibleFails(p)
      BY <2>6 DEF SyncVisibleFails, Warn
    <2>7. CASE Verify(p)
      BY <2>7 DEF Verify, Warn
    <2>8. QED
      BY <1>3, <2>1, <2>2, <2>3, <2>4, <2>5, <2>6, <2>7 DEF Publish
  <1>4. CASE CleanUp(p)
    <2>1. CASE Reacquire(p)
      BY <2>1 DEF Reacquire
    <2>2. CASE ReacquireFails(p)
      BY <2>2 DEF ReacquireFails
    <2>3. CASE RemoveNode(p)
      BY <2>3 DEF RemoveNode, Becomes, Forget
    <2>4. CASE RemoveNodeFails(p)
      BY <2>4 DEF RemoveNodeFails, Becomes, Forget
    <2>5. CASE RemoveRoot(p)
      BY <2>5 DEF RemoveRoot
    <2>6. CASE RemoveRootFails(p)
      BY <2>6 DEF RemoveRootFails
    <2>7. QED
      BY <1>4, <2>1, <2>2, <2>3, <2>4, <2>5, <2>6 DEF CleanUp
  <1>5. QED
    BY <1>0, <1>1, <1>2, <1>3, <1>4

-----------------------------------------------------------------------------
(* The invariant.                                                          *)

Early == {"idle", "own", "other", "expel", "anchor", "stage"}
Building == {"create", "write", "seal", "parent", "check", "rename"}
Showing == {"probe", "reconcile", "sync", "verify"}
Cleaning == {"clean", "remove"}

(* Where the root of the tree is in each phase.                            *)
RootAt(p) ==
  /\ pc[p] \in Early => root[p] = "none" /\ sealed[p] = {} /\ extra[p] = {}
  /\ pc[p] \in Building => root[p] \in {"staging", "away"}
  /\ pc[p] \in Showing => root[p] \in {"staging", "away", "visible"}
  /\ pc[p] \in Cleaning => root[p] \in {"staging", "away"}
  /\ p \in swapped => root[p] = "away"
  /\ edits = 0 => root[p] # "away"

(* Which container the publisher holds, or has moved away.                 *)
ParentAt(p) ==
  /\ pc[p] \in {"idle", "own", "other", "expel"} => parent[p] = NoOne
  /\ pc[p] \in {"anchor", "stage"} \/ root[p] # "none" => parent[p] # NoOne
  /\ hidden[p] # NoOne => pc[p] \in {"expel", "done", "crashed"} /\ p \in setting.mayExpel
  /\ pc[p] = "expel" => hidden[p] # NoOne

(* The final name leads to a tree that has been renamed to it.             *)
NamesAt(p) ==
  /\ \A c \in Makers : visible[c] = p => root[p] = "visible" /\ parent[p] = c
  /\ root[p] = "visible" => lost \/ visible[parent[p]] = p

(* A final name on disk is the final name.                                 *)
DiskOK == \A c \in Makers : durable[c] \in {NoOne, visible[c]}

(* What a publisher has found out and is about to report.                  *)
ReportAt(p) ==
  /\ p \in unsupported => root[p] # "visible" /\ pc[p] \notin Early \cup Building
  /\ pc[p] = "reconcile" /\ seen[p] = "own" => visible[parent[p]] = p
  /\ pc[p] = "reconcile" /\ seen[p] = "other" => visible[parent[p]] \notin {NoOne, p}
  /\ pc[p] \in Early \cup Building \cup {"probe", "reconcile"} => verdict[p] = "good"
  /\ pc[p] \in {"sync", "verify"} => verdict[p] # "failed"
  /\ pc[p] \in Cleaning => verdict[p] = "failed"
  /\ pc[p] \in {"sync", "verify"} /\ verdict[p] = "good" => visible[parent[p]] # NoOne
  /\ pc[p] \in {"sync", "verify"} /\ verdict[p] # "indeterminate" /\ edits = 0 =>
       root[p] = "visible"
  /\ pc[p] = "verify" /\ verdict[p] = "good" => durable[parent[p]] = visible[parent[p]]
  /\ pc[p] = "done" /\ verdict[p] = "good" => parent[p] # NoOne /\ durable[parent[p]] = p
  /\ pc[p] = "done" /\ verdict[p] \in {"good", "warned"} /\ edits = 0 => root[p] = "visible"
  /\ pc[p] = "done" /\ verdict[p] = "failed" =>
       /\ root[p] # "visible"
       /\ clean[p] => root[p] = "none" /\ hidden[p] = NoOne

PublisherAt(p) == RootAt(p) /\ ParentAt(p) /\ NamesAt(p) /\ ReportAt(p)
PublisherInv == DiskOK /\ \A p \in Publishers : PublisherAt(p)

(* A publisher shows a tree only where there is none, and synchronizes     *)
(* what is there.                                                          *)
LEMMA NamesChange ==
  ASSUME TypeInv, NEW p \in Publishers, Step(p)
  PROVE  /\ lost' = lost /\ edits' = edits
         /\ \A c \in Makers :
              \/ visible'[c] = visible[c]
              \/ /\ At(p, "rename") /\ visible[c] = NoOne /\ c = parent[p]
                 /\ visible'[c] = IF p \in swapped THEN Stranger ELSE p
         /\ \A c \in Makers : durable'[c] = durable[c] \/ (c = parent[p] /\ durable'[c] = visible'[c])
  <1> USE DEF TypeInv, NamesType, TreeType, RecordType, PhaseType, At, CanRename,
          Charge, Because,
        namespace, tree, private, result, disk, budget
  <1>0. Prepare(p) \/ Stage(p) \/ Publish(p) \/ CleanUp(p)
    BY DEF Step
  <1>1. CASE Prepare(p)
    <2>1. CASE Enter(p)
      BY <2>1 DEF Enter
    <2>2. CASE EnterFails(p)
      BY <2>2 DEF EnterFails, Return
    <2>3. CASE OpenContainer(p)
      BY <2>3 DEF OpenContainer
    <2>4. CASE OpenContainerFails(p)
      BY <2>4 DEF OpenContainerFails, Return
    <2>5. CASE HideContainer(p)
      BY <2>5 DEF HideContainer
    <2>6. CASE ExpelContainer(p)
      BY <2>6 DEF ExpelContainer, Return
    <2>7. CASE SyncDestination(p)
      BY <2>7 DEF SyncDestination
    <2>8. CASE SyncDestinationFails(p)
      BY <2>8 DEF SyncDestinationFails, Return
    <2>9. QED
      BY <1>1, <2>1, <2>2, <2>3, <2>4, <2>5, <2>6, <2>7, <2>8 DEF Prepare
  <1>2. CASE Stage(p)
    <2>1. CASE CreateStaging(p)
      BY <2>1 DEF CreateStaging
    <2>2. CASE CreateStagingFails(p)
      BY <2>2 DEF CreateStagingFails, Return
    <2>3. CASE CreateNode(p)
      BY <2>3 DEF CreateNode, Becomes
    <2>4. CASE CreateNodeFails(p)
      BY <2>4 DEF CreateNodeFails, Becomes, Fail
    <2>5. CASE WriteFile(p)
      BY <2>5 DEF WriteFile, Becomes
    <2>6. CASE WriteFileFails(p)
      BY <2>6 DEF WriteFileFails, Fail
    <2>7. CASE Seal(p)
      BY <2>7 DEF Seal, NextFolder
    <2>8. CASE SealFails(p)
      BY <2>8 DEF SealFails, NextFolder, Fail
    <2>9. CASE SyncParent(p)
      BY <2>9 DEF SyncParent
    <2>10. CASE SyncParentFails(p)
      BY <2>10 DEF SyncParentFails, Fail
    <2>11. CASE Check(p)
      BY <2>11 DEF Check
    <2>12. CASE CheckFails(p)
      BY <2>12 DEF CheckFails, Fail
    <2>13. QED
      BY <1>2, <2>1, <2>2, <2>3, <2>4, <2>5, <2>6, <2>7, <2>8, <2>9, <2>10, <2>11,
         <2>12 DEF Stage
  <1>3. CASE Publish(p)
    <2>1. CASE Rename(p)
      BY <2>1 DEF Rename, Show
    <2>2. CASE RenameFails(p)
      BY <2>2 DEF RenameFails, Show
    <2>3. CASE ProbeFinal(p)
      BY <2>3 DEF ProbeFinal
    <2>4. CASE Reconcile(p)
      BY <2>4 DEF Reconcile, Warn, Fail, SourceAnswers
    <2>5. CASE SyncVisible(p)
      BY <2>5 DEF SyncVisible
    <2>6. CASE SyncVisibleFails(p)
      BY <2>6 DEF SyncVisibleFails, Warn
    <2>7. CASE Verify(p)
      BY <2>7 DEF Verify, Warn
    <2>8. QED
      BY <1>3, <2>1, <2>2, <2>3, <2>4, <2>5, <2>6, <2>7 DEF Publish
  <1>4. CASE CleanUp(p)
    <2>1. CASE Reacquire(p)
      BY <2>1 DEF Reacquire
    <2>2. CASE ReacquireFails(p)
      BY <2>2 DEF ReacquireFails
    <2>3. CASE RemoveNode(p)
      BY <2>3 DEF RemoveNode, Becomes, Forget
    <2>4. CASE RemoveNodeFails(p)
      BY <2>4 DEF RemoveNodeFails, Becomes, Forget
    <2>5. CASE RemoveRoot(p)
      BY <2>5 DEF RemoveRoot
    <2>6. CASE RemoveRootFails(p)
      BY <2>6 DEF RemoveRootFails
    <2>7. QED
      BY <1>4, <2>1, <2>2, <2>3, <2>4, <2>5, <2>6 DEF CleanUp
  <1>5. QED
    BY <1>0, <1>1, <1>2, <1>3, <1>4

(* A step of a publisher keeps what its phase says of its staging directory.*)
LEMMA RootStep ==
  ASSUME TypeInv, NEW p \in Publishers, Step(p), UNCHANGED setting,
         RootAt(p), ParentAt(p), NamesAt(p), ReportAt(p)
  PROVE  RootAt(p)' /\ ParentAt(p)'
  <1> USE DEF TypeInv, NamesType, TreeType, RecordType, PhaseType, RootAt, ParentAt,
        Early, Building, Showing, Cleaning, Phases, At, Goto, Charge, Because, budget,
        Blame, namespace, tree, private, result, disk
  <1>0. ~lost /\ (Prepare(p) \/ Stage(p) \/ Publish(p) \/ CleanUp(p))
    BY DEF Step
  <1>1. CASE Prepare(p)
    <2>1. CASE Enter(p)
      BY <2>1 DEF Enter
    <2>2. CASE EnterFails(p)
      BY <2>2 DEF EnterFails, Return
    <2>3. CASE OpenContainer(p)
      BY <2>3 DEF OpenContainer
    <2>4. CASE OpenContainerFails(p)
      BY <2>4 DEF OpenContainerFails, Return
    <2>5. CASE HideContainer(p)
      BY <2>5 DEF HideContainer
    <2>6. CASE ExpelContainer(p)
      BY <2>6 DEF ExpelContainer, Return
    <2>7. CASE SyncDestination(p)
      BY <2>7 DEF SyncDestination
    <2>8. CASE SyncDestinationFails(p)
      BY <2>8 DEF SyncDestinationFails, Return
    <2>9. QED
      BY <1>1, <2>1, <2>2, <2>3, <2>4, <2>5, <2>6, <2>7, <2>8 DEF Prepare
  <1>2. CASE Stage(p)
    <2>1. CASE CreateStaging(p)
      BY <2>1 DEF CreateStaging
    <2>2. CASE CreateStagingFails(p)
      BY <2>2 DEF CreateStagingFails, Return
    <2>3. CASE CreateNode(p)
      BY <2>3 DEF CreateNode, Becomes
    <2>4. CASE CreateNodeFails(p)
      BY <2>4 DEF CreateNodeFails, Becomes, Fail
    <2>5. CASE WriteFile(p)
      BY <2>5 DEF WriteFile, Becomes
    <2>6. CASE WriteFileFails(p)
      BY <2>6 DEF WriteFileFails, Fail
    <2>7. CASE Seal(p)
      BY <2>7 DEF Seal, NextFolder
    <2>8. CASE SealFails(p)
      BY <2>8 DEF SealFails, NextFolder, Fail
    <2>9. CASE SyncParent(p)
      BY <2>9 DEF SyncParent
    <2>10. CASE SyncParentFails(p)
      BY <2>10 DEF SyncParentFails, Fail
    <2>11. CASE Check(p)
      BY <2>11 DEF Check
    <2>12. CASE CheckFails(p)
      BY <2>12 DEF CheckFails, Fail
    <2>13. QED
      BY <1>2, <2>1, <2>2, <2>3, <2>4, <2>5, <2>6, <2>7, <2>8, <2>9, <2>10, <2>11,
         <2>12 DEF Stage
  <1>3. CASE Publish(p)
    <2>1. CASE Rename(p)
      BY <2>1 DEF Rename, Show
    <2>2. CASE RenameFails(p)
      BY <2>2 DEF RenameFails, Show
    <2>3. CASE ProbeFinal(p)
      BY <2>3 DEF ProbeFinal
    <2>4. CASE Reconcile(p)
      <3>1. \/ pc' = [pc EXCEPT ![p] = "sync"]
            \/ /\ pc' = [pc EXCEPT ![p] = "clean"] /\ At(p, "reconcile")
               /\ root[p] \in {"staging", "visible"}
               /\ Excludes(p)
        BY <2>4 DEF Reconcile, Fail, SourceAnswers
      <3>2. Excludes(p) /\ At(p, "reconcile") => root[p] # "visible"
        BY <1>0, ActorAssumption DEF Excludes, ReportAt, NamesAt, Makers
      <3>3. QED
        BY <2>4, <3>1, <3>2 DEF Reconcile
    <2>5. CASE SyncVisible(p)
      BY <2>5 DEF SyncVisible
    <2>6. CASE SyncVisibleFails(p)
      BY <2>6 DEF SyncVisibleFails, Warn
    <2>7. CASE Verify(p)
      BY <2>7 DEF Verify, Warn
    <2>8. QED
      BY <1>3, <2>1, <2>2, <2>3, <2>4, <2>5, <2>6, <2>7 DEF Publish
  <1>4. CASE CleanUp(p)
    <2>1. CASE Reacquire(p)
      BY <2>1 DEF Reacquire
    <2>2. CASE ReacquireFails(p)
      BY <2>2 DEF ReacquireFails
    <2>3. CASE RemoveNode(p)
      BY <2>3 DEF RemoveNode, Becomes, Forget
    <2>4. CASE RemoveNodeFails(p)
      BY <2>4 DEF RemoveNodeFails, Becomes, Forget
    <2>5. CASE RemoveRoot(p)
      BY <2>5 DEF RemoveRoot
    <2>6. CASE RemoveRootFails(p)
      BY <2>6 DEF RemoveRootFails
    <2>7. QED
      BY <1>4, <2>1, <2>2, <2>3, <2>4, <2>5, <2>6 DEF CleanUp
  <1>5. QED
    BY <1>0, <1>1, <1>2, <1>3, <1>4

(* It keeps what its phase says of its report.                             *)
LEMMA ReportStep ==
  ASSUME TypeInv, NEW p \in Publishers, Step(p), UNCHANGED setting,
         DiskOK, RootAt(p), ParentAt(p), NamesAt(p), ReportAt(p)
  PROVE  NamesAt(p)' /\ ReportAt(p)'
  <1> USE ActorAssumption DEF TypeInv, NamesType, TreeType, RecordType, PhaseType, 
        DiskOK, RootAt, ParentAt, NamesAt, ReportAt, Makers, CanRename, Excludes,
        Vacant, Early, Building, Showing, Cleaning, Phases,
        At, Goto, Charge, Because, Blame, namespace, tree, private, result, disk, budget
  <1>0. Prepare(p) \/ Stage(p) \/ Publish(p) \/ CleanUp(p)
    BY DEF Step
  <1>1. CASE Prepare(p)
    <2>1. CASE Enter(p)
      BY <2>1 DEF Enter
    <2>2. CASE EnterFails(p)
      BY <2>2 DEF EnterFails, Return
    <2>3. CASE OpenContainer(p)
      BY <2>3 DEF OpenContainer
    <2>4. CASE OpenContainerFails(p)
      BY <2>4 DEF OpenContainerFails, Return
    <2>5. CASE HideContainer(p)
      BY <2>5 DEF HideContainer
    <2>6. CASE ExpelContainer(p)
      BY <2>6 DEF ExpelContainer, Return
    <2>7. CASE SyncDestination(p)
      BY <2>7 DEF SyncDestination
    <2>8. CASE SyncDestinationFails(p)
      BY <2>8 DEF SyncDestinationFails, Return
    <2>9. QED
      BY <1>1, <2>1, <2>2, <2>3, <2>4, <2>5, <2>6, <2>7, <2>8 DEF Prepare
  <1>2. CASE Stage(p)
    <2>1. CASE CreateStaging(p)
      BY <2>1 DEF CreateStaging
    <2>2. CASE CreateStagingFails(p)
      BY <2>2 DEF CreateStagingFails, Return
    <2>3. CASE CreateNode(p)
      BY <2>3 DEF CreateNode, Becomes
    <2>4. CASE CreateNodeFails(p)
      BY <2>4 DEF CreateNodeFails, Becomes, Fail
    <2>5. CASE WriteFile(p)
      BY <2>5 DEF WriteFile, Becomes
    <2>6. CASE WriteFileFails(p)
      BY <2>6 DEF WriteFileFails, Fail
    <2>7. CASE Seal(p)
      BY <2>7 DEF Seal, NextFolder
    <2>8. CASE SealFails(p)
      BY <2>8 DEF SealFails, NextFolder, Fail
    <2>9. CASE SyncParent(p)
      BY <2>9 DEF SyncParent
    <2>10. CASE SyncParentFails(p)
      BY <2>10 DEF SyncParentFails, Fail
    <2>11. CASE Check(p)
      BY <2>11 DEF Check
    <2>12. CASE CheckFails(p)
      BY <2>12 DEF CheckFails, Fail
    <2>13. QED
      BY <1>2, <2>1, <2>2, <2>3, <2>4, <2>5, <2>6, <2>7, <2>8, <2>9, <2>10, <2>11,
         <2>12 DEF Stage
  <1>3. CASE Publish(p)
    <2>1. CASE Rename(p)
      BY <2>1 DEF Rename, Show
    <2>2. CASE RenameFails(p)
      BY <2>2 DEF RenameFails, Show
    <2>3. CASE ProbeFinal(p)
      BY <2>3 DEF ProbeFinal
    <2>4. CASE Reconcile(p)
      BY <2>4 DEF Reconcile, Warn, Fail, SourceAnswers
    <2>5. CASE SyncVisible(p)
      BY <2>5 DEF SyncVisible
    <2>6. CASE SyncVisibleFails(p)
      BY <2>6 DEF SyncVisibleFails, Warn
    <2>7. CASE Verify(p)
      BY <2>7 DEF Verify, Warn
    <2>8. QED
      BY <1>3, <2>1, <2>2, <2>3, <2>4, <2>5, <2>6, <2>7 DEF Publish
  <1>4. CASE CleanUp(p)
    <2>1. CASE Reacquire(p)
      BY <2>1 DEF Reacquire
    <2>2. CASE ReacquireFails(p)
      BY <2>2 DEF ReacquireFails
    <2>3. CASE RemoveNode(p)
      BY <2>3 DEF RemoveNode, Becomes, Forget
    <2>4. CASE RemoveNodeFails(p)
      BY <2>4 DEF RemoveNodeFails, Becomes, Forget
    <2>5. CASE RemoveRoot(p)
      BY <2>5 DEF RemoveRoot
    <2>6. CASE RemoveRootFails(p)
      BY <2>6 DEF RemoveRootFails
    <2>7. QED
      BY <1>4, <2>1, <2>2, <2>3, <2>4, <2>5, <2>6 DEF CleanUp
  <1>5. QED
    BY <1>0, <1>1, <1>2, <1>3, <1>4

(* A step of a publisher keeps what the disk knows of the container.       *)
LEMMA DiskStep ==
  ASSUME TypeInv, NEW p \in Publishers, Step(p), DiskOK
  PROVE  DiskOK'
  BY NamesChange DEF DiskOK

(* What is known of a publisher survives the steps of the others.          *)
LEMMA PublisherOthers ==
  ASSUME TypeInv, NEW p \in Publishers, Step(p), UNCHANGED setting,
         DiskOK, NEW q \in Publishers, q # p, PublisherAt(q)
  PROVE  PublisherAt(q)'
  <1> USE DEF PublisherAt
  <1>1. RootAt(q)' /\ ParentAt(q)'
    BY OthersKept, NamesChange DEF RootAt, ParentAt, Early, Building, Showing, Cleaning
  <1>2. NamesAt(q)'
    <2>1. \A c \in Makers : visible'[c] = q <=> visible[c] = q
      BY NamesChange, ActorAssumption DEF Makers
    <2>2. root[q] = "visible" => parent[q] \in Makers
      BY DEF ParentAt, TypeInv, RecordType
    <2>3. QED
      BY <2>1, <2>2, OthersKept, NamesChange DEF NamesAt
  <1>3. parent[q] # NoOne => parent[q] \in Makers
    BY DEF TypeInv, RecordType
  <1>4. parent[q] # NoOne =>
          /\ visible'[parent[q]] # visible[parent[q]] =>
               visible[parent[q]] = NoOne /\ visible'[parent[q]] \notin {NoOne, q}
          /\ durable'[parent[q]] # durable[parent[q]] =>
               durable'[parent[q]] = visible'[parent[q]]
    BY <1>3, NamesChange, ActorAssumption DEF Makers
  <1>5. durable[parent[q]] # NoOne /\ parent[q] # NoOne => durable[parent[q]] = visible[parent[q]]
    BY <1>3 DEF DiskOK
  <1>6. ReportAt(q)'
    BY <1>4, <1>5, OthersKept, NamesChange, ActorAssumption
       DEF ReportAt, RootAt, ParentAt, Early, Building, Showing, Cleaning, Makers
  <1>7. QED
    BY <1>1, <1>2, <1>6

(* It survives edits, a crash and a failure of power.                      *)
LEMMA PublisherEnvironment ==
  ASSUME TypeInv, PublisherInv, UNCHANGED setting,
         Edit \/ PowerFails \/ (\E p \in Publishers : Crash(p))
  PROVE  PublisherInv'
  <1>1. CASE Edit
    <2>1. edits \in Nat /\ edits' = edits + 1 /\ lost' = lost
      BY <1>1 DEF Edit, TypeInv, BudgetType
    <2>2. /\ UNCHANGED <<hidden, sealed, parent, unsupported, seen, pc, verdict, clean, durable>>
      BY <1>1 DEF Edit, private, result, disk
    <2>3. \A c \in Makers : visible'[c] = visible[c] \/ (visible[c] = NoOne /\ visible'[c] = Stranger)
      BY <1>1 DEF Edit, TypeInv, NamesType
    <2>4. \A q \in Publishers :
            \/ root'[q] = root[q] /\ (q \in swapped' <=> q \in swapped)
            \/ root[q] = "staging" /\ root'[q] = "away"
      BY <1>1 DEF Edit, TypeInv, TreeType
    <2>5. \A q \in Publishers : root[q] = "none" => extra'[q] = extra[q]
      BY <1>1 DEF Edit, TypeInv, TreeType
    <2>6. DiskOK'
      BY <2>2, <2>3 DEF PublisherInv, DiskOK
    <2>7. ASSUME NEW q \in Publishers PROVE PublisherAt(q)'
      <3>1. PublisherAt(q)
        BY DEF PublisherInv
      <3>2. RootAt(q)' /\ ParentAt(q)'
        BY <2>1, <2>2, <2>4, <2>5, <3>1
           DEF PublisherAt, RootAt, ParentAt, Early, Building, Showing, Cleaning
      <3>3. parent[q] # NoOne => parent[q] \in Makers
        BY DEF TypeInv, RecordType
      <3>4. NamesAt(q)'
        BY <2>1, <2>2, <2>3, <2>4, <3>1, <3>3, ActorAssumption DEF PublisherAt,
           NamesAt, ParentAt, Makers
      <3>5. durable[parent[q]] # NoOne /\ parent[q] # NoOne => durable[parent[q]] = visible[parent[q]]
        BY <3>3 DEF PublisherInv, DiskOK
      <3>6. parent[q] # NoOne /\ visible'[parent[q]] # visible[parent[q]] =>
              visible[parent[q]] = NoOne /\ visible'[parent[q]] \notin {NoOne, q}
        BY <2>3, <3>3, ActorAssumption DEF Makers
      <3>7. ReportAt(q)'
        BY <2>1, <2>2, <2>4, <3>1, <3>5, <3>6, ActorAssumption
           DEF PublisherAt, ReportAt, RootAt, ParentAt, Early, Building, Showing, Cleaning, Makers
      <3>8. QED
        BY <3>2, <3>4, <3>7 DEF PublisherAt
    <2>8. QED
      BY <2>6, <2>7 DEF PublisherInv
  <1>2. CASE PowerFails
    <2>1. lost' /\ UNCHANGED <<edits, hidden, root, swapped, sealed, extra, parent, unsupported,
                              seen, verdict, clean, durable>>
      BY <1>2 DEF PowerFails, private, result, disk
    <2>2. \A c \in Makers : visible'[c] \in {visible[c], durable[c]}
      BY <1>2 DEF PowerFails
    <2>3. \A q \in Publishers : (pc'[q] = pc[q] /\ ~Running(q)) \/ pc'[q] = "crashed"
      BY <1>2 DEF PowerFails, TypeInv, PhaseType
    <2>4. DiskOK'
      BY <2>1, <2>2 DEF PublisherInv, DiskOK
    <2>5. ASSUME NEW q \in Publishers PROVE PublisherAt(q)'
      <3>1. PublisherAt(q) /\ DiskOK
        BY DEF PublisherInv
      <3>2. RootAt(q)' /\ ParentAt(q)'
        BY <2>1, <2>3, <3>1
           DEF PublisherAt, RootAt, ParentAt, Early, Building, Showing, Cleaning, Running
      <3>3. NamesAt(q)'
        BY <2>1, <2>2, <3>1, ActorAssumption DEF PublisherAt, NamesAt, DiskOK, Makers
      <3>4. ReportAt(q)'
        BY <2>1, <2>3, <3>1
           DEF PublisherAt, ReportAt, Early, Building, Showing, Cleaning, Running
      <3>5. QED
        BY <3>2, <3>3, <3>4 DEF PublisherAt
    <2>6. QED
      BY <2>4, <2>5 DEF PublisherInv
  <1>3. CASE \E p \in Publishers : Crash(p)
    <2>1. PICK p \in Publishers : Crash(p)
      BY <1>3
    <2>2. /\ pc'[p] = "crashed" /\ \A q \in Publishers : q # p => pc'[q] = pc[q]
      BY <2>1 DEF Crash, Goto, TypeInv, PhaseType
    <2>3. UNCHANGED <<edits, hidden, root, swapped, sealed, extra, parent, unsupported,
                      seen, verdict, clean, durable, visible, lost>>
      BY <2>1 DEF Crash, namespace, tree, private, result, disk, budget
    <2>4. ASSUME NEW q \in Publishers PROVE PublisherAt(q)'
      BY <2>2, <2>3 DEF PublisherInv, PublisherAt, RootAt, ParentAt, NamesAt, ReportAt,
         Early, Building, Showing, Cleaning
    <2>5. DiskOK'
      BY <2>3 DEF PublisherInv, DiskOK
    <2>6. QED
      BY <2>4, <2>5 DEF PublisherInv
  <1>4. QED
    BY <1>1, <1>2, <1>3

(* What is known of every publisher is an invariant.                       *)
LEMMA PublisherInvariant == Spec => []PublisherInv
  <1>1. Init => PublisherInv
    <2> SUFFICES ASSUME Init PROVE PublisherInv
      OBVIOUS
    <2>1. \A c \in Makers : visible[c] \in {NoOne, Stranger} /\ durable[c] = visible[c]
      BY DEF Init
    <2>2. QED
      BY <2>1, ActorAssumption DEF Init, PublisherInv, DiskOK, PublisherAt, RootAt,
         ParentAt,
         NamesAt, ReportAt, Early, Building, Showing, Cleaning, Makers
  <1>2. TypeInv /\ PublisherInv /\ [Next]_vars => PublisherInv'
    <2> SUFFICES ASSUME TypeInv, PublisherInv, [Next]_vars PROVE PublisherInv'
      OBVIOUS
    <2>1. CASE UNCHANGED vars
      BY <2>1 DEF PublisherInv, DiskOK, PublisherAt, RootAt, ParentAt, NamesAt, ReportAt,
         vars, namespace, tree, private, result, disk, budget
    <2>2. CASE Next
      <3>1. \/ \E p \in Publishers : Step(p)
            \/ Edit \/ PowerFails \/ \E p \in Publishers : Crash(p)
        BY <2>2, SettingAssumption DEF Next, TypeInv, BudgetType
      <3>2. UNCHANGED setting
        BY <2>2 DEF Next
      <3>3. ASSUME NEW p \in Publishers, Step(p) PROVE PublisherInv'
        <4>1. PublisherAt(p)'
          BY <3>2, <3>3, RootStep, ReportStep DEF PublisherInv, PublisherAt
        <4>2. QED
          BY <3>2, <3>3, <4>1, DiskStep, PublisherOthers DEF PublisherInv
      <3>4. QED
        BY <3>1, <3>2, <3>3, PublisherEnvironment
    <2>3. QED
      BY <2>1, <2>2
  <1>3. QED
    BY <1>1, <1>2, TypeInvariant, PTL DEF Spec

(* An error means that nothing of the publisher's became visible, a result *)
(* without warnings that its release is, and a failure without an          *)
(* incomplete cleanup that nothing is left (ResultsAreTruthful): for every *)
(* number of publishers, whatever fails, is lost, or is changed by others. *)
THEOREM ReportsHold == Spec => []ResultsAreTruthful
  <1>1. TypeInv /\ PublisherInv => ResultsAreTruthful
    <2> SUFFICES ASSUME TypeInv, PublisherInv, NEW p \in Publishers
                 PROVE  /\ Outcome(p) = "failed" =>
                             /\ root[p] # "visible"
                             /\ clean[p] => root[p] = "none" /\ p \notin swapped /\ hidden[p] = NoOne
                        /\ Outcome(p) = "good" /\ ~lost => visible[parent[p]] = p
      BY DEF ResultsAreTruthful
    <2>1. PublisherAt(p) /\ DiskOK
      BY DEF PublisherInv
    <2>2. parent[p] # NoOne => parent[p] \in Makers
      BY DEF TypeInv, RecordType
    <2>3. QED
      BY <2>1, <2>2, ActorAssumption
         DEF PublisherAt, ReportAt, RootAt, Outcome, At, DiskOK, Makers
  <1>2. QED
    BY <1>1, TypeInvariant, PublisherInvariant, PTL

-----------------------------------------------------------------------------
(* The tree of a publisher.                                                *)

(* A node has its contents, and they are on disk; the tree is complete,    *)
(* and it is on disk with all its names.                                   *)
Filled(p, n) == node[p][n] = "complete" /\ n \in written[p]
Whole(p) == Exact(p) /\ written[p] = Nodes /\ listed[p] = Nodes

(* How far the tree has come, as long as no other actor has touched it.    *)
ContentsAt(p) == edits = 0 =>
  /\ pc[p] \in {"create", "write", "seal"} => extra[p] = {}
  /\ pc[p] \in {"create", "write"} =>
       sealed[p] = {} /\ \A n \in Nodes : n < at[p] => Filled(p, n)
  /\ pc[p] = "write" => at[p] \notin Directories /\ node[p][at[p]] = "partial"
  /\ pc[p] = "seal" =>
       /\ \A n \in Nodes : Filled(p, n)
       /\ sealed[p] = {d \in Folders : d > NextFolder(p)}
       /\ \A n \in Nodes : Holder[n] > NextFolder(p) => n \in listed[p]
  /\ pc[p] \in {"parent", "check", "rename"} => Whole(p)
  /\ root[p] = "visible" => Whole(p)
ContentsInv == \A p \in Publishers : ContentsAt(p)

(* Nothing is sealed when the last node has been made.                     *)
Unsealed(p) ==
  /\ sealed[p] = {d \in Folders : d > NextFolder(p)}
  /\ \A n \in Nodes : Holder[n] > NextFolder(p) => n \in listed[p]

(* Sealing starts with every folder unsealed.                              *)
LEMMA UnsealedAtEnd ==
  ASSUME NEW p, sealed'[p] = {}, at'[p] = Size + 1
  PROVE  Unsealed(p)'
  <1>1. NextFolder(p)' = Depth
    BY TreeAssumption DEF NextFolder
  <1>2. \A d \in Folders : ~(d > Depth)
    BY TreeAssumption DEF Folders
  <1>3. \A n \in Nodes : ~(Holder[n] > Depth)
    BY <1>2, TreeAssumption
  <1>4. QED
    BY <1>1, <1>2, <1>3 DEF Unsealed

(* A step of a publisher keeps what its phase says of the contents.        *)
LEMMA ContentsStep ==
  ASSUME TypeInv, NEW p \in Publishers, Step(p), RootAt(p), ContentsAt(p)
  PROVE  ContentsAt(p)'
  <1> USE TreeAssumption DEF TypeInv, TreeType, RecordType, PhaseType, BudgetType,
        RootAt, ContentsAt, Filled, Whole, Exact, Nodes, Folders, Directories,
        Early, Building, Showing, Cleaning, At, Goto, Charge, Because, Blame,
        namespace, tree, private, result, disk, budget
  <1>0. Prepare(p) \/ Stage(p) \/ Publish(p) \/ CleanUp(p)
    BY DEF Step
  <1>1. CASE Prepare(p)
    <2>1. CASE Enter(p)
      BY <2>1 DEF Enter
    <2>2. CASE EnterFails(p)
      BY <2>2 DEF EnterFails, Return
    <2>3. CASE OpenContainer(p)
      BY <2>3 DEF OpenContainer
    <2>4. CASE OpenContainerFails(p)
      BY <2>4 DEF OpenContainerFails, Return
    <2>5. CASE HideContainer(p)
      BY <2>5 DEF HideContainer
    <2>6. CASE ExpelContainer(p)
      BY <2>6 DEF ExpelContainer, Return
    <2>7. CASE SyncDestination(p)
      BY <2>7 DEF SyncDestination
    <2>8. CASE SyncDestinationFails(p)
      BY <2>8 DEF SyncDestinationFails, Return
    <2>9. QED
      BY <1>1, <2>1, <2>2, <2>3, <2>4, <2>5, <2>6, <2>7, <2>8 DEF Prepare
  <1>2. CASE Stage(p)
    <2>1. CASE CreateStaging(p)
      <3>1. /\ sealed'[p] = {} /\ extra'[p] = {} /\ at'[p] = 1 /\ edits' = edits
            /\ pc'[p] = IF Size = 0 THEN "seal" ELSE "create"
            /\ root'[p] = "staging"
        BY <2>1 DEF CreateStaging
      <3>2. Size = 0 => Nodes = {} /\ NextFolder(p)' = Depth
        BY <3>1 DEF NextFolder
      <3>3. Size = 0 => {d \in Folders : d > NextFolder(p)'} = {}
        BY <3>2
      <3>4. \A n \in Nodes : ~(n < 1)
        OBVIOUS
      <3>5. QED
        BY <3>1, <3>2, <3>3, <3>4
    <2>2. CASE CreateStagingFails(p)
      BY <2>2 DEF CreateStagingFails, Return
    <2>3. CASE CreateNode(p)
      <3> SUFFICES ASSUME edits = 0 PROVE ContentsAt(p)'
        BY <2>3 DEF CreateNode
      <3>1. /\ At(p, "create") /\ at[p] \in Nodes
            /\ UNCHANGED <<root, sealed, extra, listed, edits>>
        BY <2>3 DEF CreateNode
      <3>2. /\ node'[p][at[p]] = IF at[p] \in Directories THEN "complete" ELSE "partial"
            /\ \A n \in Nodes : n # at[p] => node'[p][n] = node[p][n]
        BY <2>3, <3>1 DEF CreateNode, Becomes
      <3>3. written'[p] = IF at[p] \in Directories THEN written[p] \cup {at[p]} ELSE written[p]
        BY <2>3 DEF CreateNode
      <3>4. \A n \in Nodes : n < at[p] => node'[p][n] = "complete" /\ n \in written'[p]
        <4>1. \A n \in Nodes : n < at[p] => node[p][n] = "complete" /\ n \in written[p] /\ n # at[p]
          BY <3>1
        <4>2. \A n \in written[p] : n \in written'[p]
          BY <3>3
        <4>3. ASSUME NEW n \in Nodes, n < at[p] PROVE node'[p][n] = "complete" /\ n \in written'[p]
          <5>1. node[p][n] = "complete" /\ n \in written[p] /\ n # at[p]
            BY <4>1, <4>3
          <5>2. node'[p][n] = "complete"
            BY <3>2, <5>1
          <5>3. QED
            BY <4>2, <5>1, <5>2
        <4>4. QED
          BY <4>3
      <3>5. \A n \in Nodes : n <= at[p] /\ at[p] \in Directories =>
              node'[p][n] = "complete" /\ n \in written'[p]
        <4>1. \A n \in Nodes : n <= at[p] => n < at[p] \/ n = at[p]
          BY <3>1
        <4>2. QED
          BY <3>2, <3>3, <3>4, <4>1
      <3>6. CASE at[p] \notin Directories
        <4>1. pc'[p] = "write" /\ at'[p] = at[p]
          BY <2>3, <3>6 DEF CreateNode
        <4>2. QED
          BY <3>1, <3>2, <3>4, <3>6, <4>1
      <3>7. CASE at[p] \in Directories /\ at[p] # Size
        <4>1. pc'[p] = "create" /\ at'[p] = at[p] + 1
          BY <2>3, <3>7 DEF CreateNode
        <4>2. \A n \in Nodes : n < at'[p] => n <= at[p]
          BY <3>1, <4>1
        <4>3. QED
          BY <3>1, <3>5, <3>7, <4>1, <4>2
      <3>8. CASE at[p] \in Directories /\ at[p] = Size
        <4>1. pc'[p] = "seal" /\ at'[p] = Size + 1
          BY <2>3, <3>8 DEF CreateNode
        <4>2. \A n \in Nodes : n <= at[p]
          BY <3>8
        <4>3. Unsealed(p)'
          BY <3>1, <4>1, UnsealedAtEnd
        <4>4. QED
          BY <3>1, <3>5, <3>8, <4>1, <4>2, <4>3 DEF Unsealed
      <3>9. QED
        BY <3>6, <3>7, <3>8
    <2>4. CASE CreateNodeFails(p)
      BY <2>4 DEF CreateNodeFails, Becomes, Fail
    <2>5. CASE WriteFile(p)
      <3> SUFFICES ASSUME edits = 0 PROVE ContentsAt(p)'
        BY <2>5 DEF WriteFile
      <3>1. /\ At(p, "write") /\ at[p] \in Nodes
            /\ UNCHANGED <<root, sealed, extra, listed, edits>>
        BY <2>5 DEF WriteFile
      <3>2. /\ node'[p][at[p]] = "complete"
            /\ \A n \in Nodes : n # at[p] => node'[p][n] = node[p][n]
        BY <2>5, <3>1 DEF WriteFile, Becomes
      <3>3. written'[p] = written[p] \cup {at[p]} /\ at'[p] = at[p] + 1
        BY <2>5 DEF WriteFile
      <3>4. \A n \in Nodes : n < at'[p] => Filled(p, n)'
        <4>1. \A n \in Nodes : n < at'[p] => n < at[p] \/ n = at[p]
          BY <3>1, <3>3
        <4>2. \A n \in Nodes : n < at[p] => node[p][n] = "complete" /\ n \in written[p]
          BY <3>1
        <4>3. QED
          BY <3>2, <3>3, <4>1, <4>2
      <3>5. CASE at[p] # Size
        <4>1. pc'[p] = "create"
          BY <2>5, <3>5 DEF WriteFile
        <4>2. QED
          BY <3>1, <3>4, <4>1
      <3>6. CASE at[p] = Size
        <4>1. pc'[p] = "seal"
          BY <2>5, <3>6 DEF WriteFile
        <4>2. \A n \in Nodes : Filled(p, n)'
          BY <3>3, <3>4, <3>6
        <4>3. Unsealed(p)'
          BY <3>1, <3>3, <3>6, UnsealedAtEnd
        <4>4. QED
          BY <3>1, <4>1, <4>2, <4>3 DEF Unsealed
      <3>7. QED
        BY <3>5, <3>6
    <2>6. CASE WriteFileFails(p)
      BY <2>6 DEF WriteFileFails, Fail
    <2>7. CASE Seal(p)
      <3> SUFFICES ASSUME edits = 0 PROVE ContentsAt(p)'
        BY <2>7 DEF Seal
      <3> DEFINE d == NextFolder(p)
      <3>1. /\ At(p, "seal") /\ d \in Folders
            /\ UNCHANGED <<root, node, extra, written, edits>>
            /\ sealed'[p] = sealed[p] \cup {d}
            /\ listed'[p] = listed[p] \cup {n \in Nodes : Holder[n] = d}
        BY <2>7 DEF Seal, NextFolder
      <3>2. /\ \A n \in Nodes : Filled(p, n)
            /\ sealed[p] = {f \in Folders : f > d}
            /\ \A n \in Nodes : Holder[n] > d => n \in listed[p]
        BY <3>1
      <3>3. /\ sealed'[p] = {f \in Folders : f >= d}
            /\ \A n \in Nodes : Holder[n] >= d => n \in listed'[p]
        <4> HIDE DEF d
        <4>1. \A n \in Nodes : Holder[n] \in Folders
          OBVIOUS
        <4>2. QED
          BY <3>1, <3>2, <4>1
      <3>4. CASE d = 0
        <4>1. pc'[p] = "parent"
          BY <2>7, <3>4 DEF Seal
        <4>2. sealed'[p] = Folders /\ listed'[p] = Nodes /\ written[p] = Nodes
          <5>1. \A n \in Nodes : Holder[n] >= d
            BY <3>4
          <5>2. listed[p] \in SUBSET Nodes /\ written[p] \in SUBSET Nodes
            OBVIOUS
          <5>3. listed'[p] = Nodes
            BY <3>1, <3>3, <5>1, <5>2
          <5>4. written[p] = Nodes
            BY <3>2, <5>2
          <5>5. {f \in Folders : f >= d} = Folders
            BY <3>4
          <5>6. QED
            BY <3>3, <5>3, <5>4, <5>5
        <4>3. QED
          BY <3>1, <3>2, <4>1, <4>2
      <3>5. CASE d # 0
        <4>1. pc'[p] = "seal" /\ at'[p] = d - 1
          BY <2>7, <3>5 DEF Seal
        <4>2. NextFolder(p)' = d - 1
          BY <3>1, <4>1 DEF NextFolder
        <4>3. /\ sealed'[p] = {f \in Folders : f > d - 1}
              /\ \A n \in Nodes : Holder[n] > d - 1 => n \in listed'[p]
          <5> HIDE DEF d
          <5>1. \A n \in Nodes : Holder[n] \in Folders
            OBVIOUS
          <5>2. QED
            BY <3>1, <3>3, <5>1
        <4>4. QED
          BY <3>1, <3>2, <4>1, <4>2, <4>3
      <3>6. QED
        BY <3>4, <3>5
    <2>8. CASE SealFails(p)
      BY <2>8 DEF SealFails, NextFolder, Fail
    <2>9. CASE SyncParent(p)
      BY <2>9 DEF SyncParent
    <2>10. CASE SyncParentFails(p)
      BY <2>10 DEF SyncParentFails, Fail
    <2>11. CASE Check(p)
      BY <2>11 DEF Check
    <2>12. CASE CheckFails(p)
      BY <2>12 DEF CheckFails, Fail
    <2>13. QED
      BY <1>2, <2>1, <2>2, <2>3, <2>4, <2>5, <2>6, <2>7, <2>8, <2>9, <2>10, <2>11,
         <2>12 DEF Stage
  <1>3. CASE Publish(p)
    <2>1. CASE Rename(p)
      BY <2>1 DEF Rename, Show
    <2>2. CASE RenameFails(p)
      BY <2>2 DEF RenameFails, Show
    <2>3. CASE ProbeFinal(p)
      BY <2>3 DEF ProbeFinal
    <2>4. CASE Reconcile(p)
      BY <2>4 DEF Reconcile, Warn, Fail, SourceAnswers
    <2>5. CASE SyncVisible(p)
      BY <2>5 DEF SyncVisible
    <2>6. CASE SyncVisibleFails(p)
      BY <2>6 DEF SyncVisibleFails, Warn
    <2>7. CASE Verify(p)
      BY <2>7 DEF Verify, Warn
    <2>8. QED
      BY <1>3, <2>1, <2>2, <2>3, <2>4, <2>5, <2>6, <2>7 DEF Publish
  <1>4. CASE CleanUp(p)
    <2>1. CASE Reacquire(p)
      BY <2>1 DEF Reacquire
    <2>2. CASE ReacquireFails(p)
      BY <2>2 DEF ReacquireFails
    <2>3. CASE RemoveNode(p)
      BY <2>3 DEF RemoveNode, Becomes, Forget
    <2>4. CASE RemoveNodeFails(p)
      BY <2>4 DEF RemoveNodeFails, Becomes, Forget
    <2>5. CASE RemoveRoot(p)
      BY <2>5 DEF RemoveRoot
    <2>6. CASE RemoveRootFails(p)
      BY <2>6 DEF RemoveRootFails
    <2>7. QED
      BY <1>4, <2>1, <2>2, <2>3, <2>4, <2>5, <2>6 DEF CleanUp
  <1>5. QED
    BY <1>0, <1>1, <1>2, <1>3, <1>4

(* So do the steps of the others.                                          *)
LEMMA ContentsOthers ==
  ASSUME TypeInv, NEW p \in Publishers, Step(p), NEW q \in Publishers, q # p, ContentsAt(q)
  PROVE  ContentsAt(q)'
  <1>1. /\ pc'[q] = pc[q] /\ at'[q] = at[q] /\ root'[q] = root[q] /\ node'[q] = node[q]
        /\ sealed'[q] = sealed[q] /\ extra'[q] = extra[q]
        /\ written'[q] = written[q] /\ listed'[q] = listed[q] /\ edits' = edits
    BY OthersKept, NamesChange
  <1>2. QED
    BY <1>1 DEF ContentsAt, Filled, Whole, Exact, NextFolder

(* What is on disk with its name and contents is not lost.                 *)
LEMMA WholeSurvives ==
  ASSUME TypeInv, PowerFails, NEW p \in Publishers, Whole(p)
  PROVE  Whole(p)'
  <1>1. \A n \in Nodes : <<p, n>> \notin Unlisted /\ <<p, n>> \notin Unwritten
    BY DEF Whole, Unlisted, Unwritten
  <1>2. \A n \in Nodes : node'[p][n] = node[p][n]
    BY <1>1 DEF PowerFails
  <1>3. UNCHANGED <<sealed, extra, written, listed>>
    BY DEF PowerFails, disk
  <1>4. QED
    BY <1>2, <1>3 DEF Whole, Exact

(* So do edits, a crash and a failure of power.                            *)
LEMMA ContentsEnvironment ==
  ASSUME TypeInv, ContentsInv, Edit \/ PowerFails \/ \E p \in Publishers : Crash(p)
  PROVE  ContentsInv'
  <1>1. CASE Edit
    <2>1. edits' # 0
      BY <1>1 DEF Edit, TypeInv, BudgetType
    <2>2. QED
      BY <2>1 DEF ContentsInv, ContentsAt
  <1>2. CASE PowerFails
    <2>1. UNCHANGED <<edits, root>>
      BY <1>2 DEF PowerFails
    <2>2. \A q \in Publishers :
            pc'[q] \notin {"create", "write", "seal", "parent", "check", "rename"}
      BY <1>2 DEF PowerFails, Running, TypeInv, PhaseType
    <2>3. QED
      BY <1>2, <2>1, <2>2, WholeSurvives DEF ContentsInv, ContentsAt
  <1>3. CASE \E p \in Publishers : Crash(p)
    <2>1. \A q \in Publishers : pc'[q] \in {pc[q], "crashed"}
      BY <1>3 DEF Crash, Goto, TypeInv, PhaseType
    <2>2. UNCHANGED <<edits, at, root, node, sealed, extra, written, listed>>
      BY <1>3 DEF Crash, tree, disk, budget
    <2>3. QED
      BY <2>1, <2>2 DEF ContentsInv, ContentsAt, Filled, Whole, Exact, NextFolder
  <1>4. QED
    BY <1>1, <1>2, <1>3

(* What is known of the contents of every tree is an invariant.            *)
LEMMA ContentsInvariant == Spec => []ContentsInv
  <1>1. Init => ContentsInv
    BY DEF Init, ContentsInv, ContentsAt
  <1>2. TypeInv /\ PublisherInv /\ ContentsInv /\ [Next]_vars => ContentsInv'
    <2> SUFFICES ASSUME TypeInv, PublisherInv, ContentsInv, [Next]_vars PROVE ContentsInv'
      OBVIOUS
    <2>1. CASE UNCHANGED vars
      BY <2>1 DEF ContentsInv, ContentsAt, Filled, Whole, Exact, NextFolder,
         vars, tree, disk, budget
    <2>2. CASE Next
      <3>1. ASSUME NEW p \in Publishers, Step(p) PROVE ContentsInv'
        BY <3>1, ContentsStep, ContentsOthers DEF ContentsInv, PublisherInv, PublisherAt
      <3>2. QED
        BY <2>2, <3>1, ContentsEnvironment, SettingAssumption DEF Next, TypeInv,
           BudgetType
    <2>3. QED
      BY <2>1, <2>2
  <1>3. QED
    BY <1>1, <1>2, TypeInvariant, PublisherInvariant, PTL DEF Spec

-----------------------------------------------------------------------------
(* What is not the publisher's own.                                        *)

(* A node another actor has put there stays in its folder.                 *)
LEMMA StrangerStep ==
  ASSUME TypeInv, NEW p \in Publishers, Step(p), NEW n \in Nodes, node[p][n] = "stranger"
  PROVE  node'[p][n] = "stranger" \/ Holder[n] \in extra'[p]
  <1> USE DEF TypeInv, TreeType, PhaseType, tree, Removable
  <1>0. Prepare(p) \/ Stage(p) \/ Publish(p) \/ CleanUp(p)
    BY DEF Step
  <1>1. CASE Prepare(p)
    <2>1. CASE Enter(p)
      BY <2>1 DEF Enter
    <2>2. CASE EnterFails(p)
      BY <2>2 DEF EnterFails, Return
    <2>3. CASE OpenContainer(p)
      BY <2>3 DEF OpenContainer
    <2>4. CASE OpenContainerFails(p)
      BY <2>4 DEF OpenContainerFails, Return
    <2>5. CASE HideContainer(p)
      BY <2>5 DEF HideContainer
    <2>6. CASE ExpelContainer(p)
      BY <2>6 DEF ExpelContainer, Return
    <2>7. CASE SyncDestination(p)
      BY <2>7 DEF SyncDestination
    <2>8. CASE SyncDestinationFails(p)
      BY <2>8 DEF SyncDestinationFails, Return
    <2>9. QED
      BY <1>1, <2>1, <2>2, <2>3, <2>4, <2>5, <2>6, <2>7, <2>8 DEF Prepare
  <1>2. CASE Stage(p)
    <2>1. CASE CreateStaging(p)
      BY <2>1 DEF CreateStaging
    <2>2. CASE CreateStagingFails(p)
      BY <2>2 DEF CreateStagingFails, Return
    <2>3. CASE CreateNode(p)
      BY <2>3 DEF CreateNode, Becomes
    <2>4. CASE CreateNodeFails(p)
      BY <2>4 DEF CreateNodeFails, Becomes, Fail
    <2>5. CASE WriteFile(p)
      BY <2>5 DEF WriteFile, Becomes
    <2>6. CASE WriteFileFails(p)
      BY <2>6 DEF WriteFileFails, Fail
    <2>7. CASE Seal(p)
      BY <2>7 DEF Seal, NextFolder
    <2>8. CASE SealFails(p)
      BY <2>8 DEF SealFails, NextFolder, Fail
    <2>9. CASE SyncParent(p)
      BY <2>9 DEF SyncParent
    <2>10. CASE SyncParentFails(p)
      BY <2>10 DEF SyncParentFails, Fail
    <2>11. CASE Check(p)
      BY <2>11 DEF Check
    <2>12. CASE CheckFails(p)
      BY <2>12 DEF CheckFails, Fail
    <2>13. QED
      BY <1>2, <2>1, <2>2, <2>3, <2>4, <2>5, <2>6, <2>7, <2>8, <2>9, <2>10, <2>11,
         <2>12 DEF Stage
  <1>3. CASE Publish(p)
    <2>1. CASE Rename(p)
      BY <2>1 DEF Rename, Show
    <2>2. CASE RenameFails(p)
      BY <2>2 DEF RenameFails, Show
    <2>3. CASE ProbeFinal(p)
      BY <2>3 DEF ProbeFinal
    <2>4. CASE Reconcile(p)
      BY <2>4 DEF Reconcile, Warn, Fail, SourceAnswers
    <2>5. CASE SyncVisible(p)
      BY <2>5 DEF SyncVisible
    <2>6. CASE SyncVisibleFails(p)
      BY <2>6 DEF SyncVisibleFails, Warn
    <2>7. CASE Verify(p)
      BY <2>7 DEF Verify, Warn
    <2>8. QED
      BY <1>3, <2>1, <2>2, <2>3, <2>4, <2>5, <2>6, <2>7 DEF Publish
  <1>4. CASE CleanUp(p)
    <2>1. CASE Reacquire(p)
      BY <2>1 DEF Reacquire
    <2>2. CASE ReacquireFails(p)
      BY <2>2 DEF ReacquireFails
    <2>3. CASE RemoveNode(p)
      BY <2>3 DEF RemoveNode, Becomes, Forget
    <2>4. CASE RemoveNodeFails(p)
      BY <2>4 DEF RemoveNodeFails, Becomes, Forget
    <2>5. CASE RemoveRoot(p)
      BY <2>5 DEF RemoveRoot
    <2>6. CASE RemoveRootFails(p)
      BY <2>6 DEF RemoveRootFails
    <2>7. QED
      BY <1>4, <2>1, <2>2, <2>3, <2>4, <2>5, <2>6 DEF CleanUp
  <1>5. QED
    BY <1>0, <1>1, <1>2, <1>3, <1>4

(* Whatever fails: a file that another actor has put in the place of a     *)
(* staged one stays in the tree (StrangersArePreserved).                   *)
THEOREM StrangersHold == Spec => StrangersArePreserved
  <1> DEFINE Preserved == \A p \in Publishers, n \in Nodes : node[p][n] = "stranger" =>
               \/ node'[p][n] = "stranger"
               \/ Holder[n] \in extra'[p]
               \/ lost' # lost
  <1>1. TypeInv /\ [Next]_vars => [Preserved]_vars
    <2> SUFFICES ASSUME TypeInv, Next, NEW q \in Publishers, NEW n \in Nodes, node[q][n] = "stranger"
                 PROVE  \/ node'[q][n] = "stranger"
                        \/ Holder[n] \in extra'[q]
                        \/ lost' # lost
      OBVIOUS
    <2>1. ASSUME NEW p \in Publishers, Step(p) PROVE node'[q][n] = "stranger" \/ Holder[n] \in extra'[q]
      BY <2>1, StrangerStep, OthersKept
    <2>2. ASSUME NEW p \in Publishers, Crash(p) PROVE node'[q][n] = "stranger"
      BY <2>2 DEF Crash, tree
    <2>3. ASSUME Edit PROVE node'[q][n] = "stranger"
      BY <2>3 DEF Edit, Becomes, Directories, TypeInv, TreeType
    <2>4. ASSUME PowerFails PROVE lost' # lost
      BY <2>4 DEF PowerFails
    <2>5. QED
      BY <2>1, <2>2, <2>3, <2>4, SettingAssumption DEF Next, TypeInv, BudgetType
  <1>2. QED
    BY <1>1, TypeInvariant, PTL DEF Spec, StrangersArePreserved

-----------------------------------------------------------------------------
(* Containers.                                                             *)

(* The container of a release is made once by each publisher, and is moved *)
(* away or removed by the one that made it, or put back.                   *)
LEMMA ContainerChange ==
  ASSUME TypeInv, NEW p \in Publishers, Step(p)
  PROVE  /\ \/ container' = container
            \/ At(p, "idle") /\ container = NoOne /\ container' = p
            \/ /\ At(p, "own") /\ container # NoOne /\ container' = NoOne
               /\ Vacant(container) \/ p \in setting.mayExpel
            \/ At(p, "expel") /\ container = NoOne /\ container' = hidden[p]
         /\ \/ anchored' = anchored
            \/ At(p, "anchor") /\ container' = container /\ anchored' = container
         /\ \/ parent'[p] = parent[p]
            \/ pc[p] \in {"own", "other"} /\ container' = container /\ parent'[p] = container
         /\ \/ hidden'[p] \in {hidden[p], NoOne}
            \/ At(p, "own") /\ hidden'[p] = container
         /\ pc'[p] # "idle"
         /\ pc'[p] = "own" => container' = p
         /\ pc'[p] = "stage" => anchored' = container'
         /\ root'[p] = "staging" => root[p] = "staging" \/ (At(p, "stage") /\ Linked(parent[p]))
         /\ root'[p] = "visible" => root[p] \in {"staging", "visible"}
  <1> USE DEF TypeInv, NamesType, TreeType, RecordType, PhaseType, Phases, Early, At,
          Goto, Charge, Because,
        CanRename, namespace, tree, private, result, disk, budget
  <1>0. Prepare(p) \/ Stage(p) \/ Publish(p) \/ CleanUp(p)
    BY DEF Step
  <1>1. CASE Prepare(p)
    <2>1. CASE Enter(p)
      BY <2>1 DEF Enter
    <2>2. CASE EnterFails(p)
      BY <2>2 DEF EnterFails, Return
    <2>3. CASE OpenContainer(p)
      BY <2>3 DEF OpenContainer
    <2>4. CASE OpenContainerFails(p)
      BY <2>4 DEF OpenContainerFails, Return
    <2>5. CASE HideContainer(p)
      BY <2>5 DEF HideContainer
    <2>6. CASE ExpelContainer(p)
      BY <2>6 DEF ExpelContainer, Return
    <2>7. CASE SyncDestination(p)
      BY <2>7 DEF SyncDestination
    <2>8. CASE SyncDestinationFails(p)
      BY <2>8 DEF SyncDestinationFails, Return
    <2>9. QED
      BY <1>1, <2>1, <2>2, <2>3, <2>4, <2>5, <2>6, <2>7, <2>8 DEF Prepare
  <1>2. CASE Stage(p)
    <2>1. CASE CreateStaging(p)
      BY <2>1 DEF CreateStaging
    <2>2. CASE CreateStagingFails(p)
      BY <2>2 DEF CreateStagingFails, Return
    <2>3. CASE CreateNode(p)
      BY <2>3 DEF CreateNode, Becomes
    <2>4. CASE CreateNodeFails(p)
      BY <2>4 DEF CreateNodeFails, Becomes, Fail
    <2>5. CASE WriteFile(p)
      BY <2>5 DEF WriteFile, Becomes
    <2>6. CASE WriteFileFails(p)
      BY <2>6 DEF WriteFileFails, Fail
    <2>7. CASE Seal(p)
      BY <2>7 DEF Seal, NextFolder
    <2>8. CASE SealFails(p)
      BY <2>8 DEF SealFails, NextFolder, Fail
    <2>9. CASE SyncParent(p)
      BY <2>9 DEF SyncParent
    <2>10. CASE SyncParentFails(p)
      BY <2>10 DEF SyncParentFails, Fail
    <2>11. CASE Check(p)
      BY <2>11 DEF Check
    <2>12. CASE CheckFails(p)
      BY <2>12 DEF CheckFails, Fail
    <2>13. QED
      BY <1>2, <2>1, <2>2, <2>3, <2>4, <2>5, <2>6, <2>7, <2>8, <2>9, <2>10, <2>11,
         <2>12 DEF Stage
  <1>3. CASE Publish(p)
    <2>1. CASE Rename(p)
      BY <2>1 DEF Rename, Show
    <2>2. CASE RenameFails(p)
      BY <2>2 DEF RenameFails, Show
    <2>3. CASE ProbeFinal(p)
      BY <2>3 DEF ProbeFinal
    <2>4. CASE Reconcile(p)
      BY <2>4 DEF Reconcile, Warn, Fail, SourceAnswers
    <2>5. CASE SyncVisible(p)
      BY <2>5 DEF SyncVisible
    <2>6. CASE SyncVisibleFails(p)
      BY <2>6 DEF SyncVisibleFails, Warn
    <2>7. CASE Verify(p)
      BY <2>7 DEF Verify, Warn
    <2>8. QED
      BY <1>3, <2>1, <2>2, <2>3, <2>4, <2>5, <2>6, <2>7 DEF Publish
  <1>4. CASE CleanUp(p)
    <2>1. CASE Reacquire(p)
      BY <2>1 DEF Reacquire
    <2>2. CASE ReacquireFails(p)
      BY <2>2 DEF ReacquireFails
    <2>3. CASE RemoveNode(p)
      BY <2>3 DEF RemoveNode, Becomes, Forget
    <2>4. CASE RemoveNodeFails(p)
      BY <2>4 DEF RemoveNodeFails, Becomes, Forget
    <2>5. CASE RemoveRoot(p)
      BY <2>5 DEF RemoveRoot
    <2>6. CASE RemoveRootFails(p)
      BY <2>6 DEF RemoveRootFails
    <2>7. QED
      BY <1>4, <2>1, <2>2, <2>3, <2>4, <2>5, <2>6 DEF CleanUp
  <1>5. QED
    BY <1>0, <1>1, <1>2, <1>3, <1>4

(* A name that a publisher would give its container is free until it       *)
(* starts, and then is its own until it opens or removes the container.    *)
FreshAt(p) ==
  /\ pc[p] = "idle" =>
      /\ container # p /\ anchored # p /\ visible[p] = NoOne
      /\ \A q \in Publishers : hidden[q] # p /\ parent[q] # p
  /\ pc[p] = "own" => container = p
FreshInv == \A p \in Publishers : FreshAt(p)

(* A step of a publisher touches no name of one that has not started.      *)
LEMMA FreshStep ==
  ASSUME TypeInv, FreshInv, NEW p \in Publishers, Step(p)
  PROVE  FreshInv'
  <1> USE DEF FreshInv
  <1>1. ASSUME NEW q \in Publishers, pc'[q] = "idle"
        PROVE  /\ container' # q /\ anchored' # q /\ visible'[q] = NoOne
               /\ \A r \in Publishers : hidden'[r] # q /\ parent'[r] # q
    <2>1. q # p /\ pc[q] = "idle"
      BY <1>1, OthersKept, ContainerChange
    <2>2. /\ container # q /\ anchored # q /\ visible[q] = NoOne
          /\ \A r \in Publishers : hidden[r] # q /\ parent[r] # q
      BY <2>1 DEF FreshAt
    <2>3. q # NoOne /\ q \in Makers
      BY ActorAssumption DEF Makers
    <2>4. container' # q /\ anchored' # q /\ visible'[q] = NoOne
      BY <2>1, <2>2, <2>3, ContainerChange, NamesChange
    <2>5. \A r \in Publishers : hidden'[r] # q /\ parent'[r] # q
      BY <2>2, <2>3, ContainerChange, OthersKept
    <2>6. QED
      BY <2>4, <2>5
  <1>2. ASSUME NEW q \in Publishers, pc'[q] = "own" PROVE container' = q
    <2>1. CASE q = p
      BY <1>2, <2>1, ContainerChange
    <2>2. CASE q # p
      <3>1. pc[q] = "own" /\ container = q
        BY <1>2, <2>2, OthersKept DEF FreshAt
      <3>2. At(p, "own") => container = p
        BY DEF FreshAt, At
      <3>3. QED
        BY <2>2, <3>1, <3>2, ContainerChange, ActorAssumption DEF Makers
    <2>3. QED
      BY <2>1, <2>2
  <1>3. QED
    BY <1>1, <1>2 DEF FreshAt

(* Nor do edits, a crash and a failure of power.                           *)
LEMMA FreshEnvironment ==
  ASSUME TypeInv, FreshInv, DiskOK, Edit \/ PowerFails \/ \E p \in Publishers : Crash(p)
  PROVE  FreshInv'
  <1> SUFFICES ASSUME NEW q \in Publishers PROVE FreshAt(q)'
    BY DEF FreshInv
  <1>0. FreshAt(q) /\ q \in Makers
    BY DEF FreshInv, Makers
  <1>1. CASE Edit
    <2>1. UNCHANGED <<container, anchored, hidden, parent, pc>>
      BY <1>1 DEF Edit, private, disk
    <2>2. \A c \in Makers : visible'[c] # visible[c] => Linked(c)
      BY <1>1 DEF Edit, TypeInv, NamesType
    <2>3. QED
      BY <1>0, <2>1, <2>2 DEF FreshAt, Linked
  <1>2. CASE PowerFails
    <2>1. /\ container' \in {container, anchored}
          /\ UNCHANGED <<anchored, hidden, parent>>
      BY <1>2 DEF PowerFails, private, disk
    <2>2. visible'[q] \in {visible[q], durable[q]} /\ durable[q] \in {NoOne, visible[q]}
      BY <1>0, <1>2 DEF PowerFails, DiskOK
    <2>3. (pc'[q] = pc[q] /\ pc[q] # "own") \/ pc'[q] = "crashed"
      BY <1>2 DEF PowerFails, Running
    <2>4. QED
      BY <1>0, <2>1, <2>2, <2>3 DEF FreshAt
  <1>3. CASE \E p \in Publishers : Crash(p)
    <2>1. UNCHANGED <<container, anchored, hidden, parent, visible>>
      BY <1>3 DEF Crash, namespace, private, disk
    <2>2. pc'[q] \in {pc[q], "crashed"}
      BY <1>3 DEF Crash, Goto, TypeInv, PhaseType
    <2>3. QED
      BY <1>0, <2>1, <2>2 DEF FreshAt
  <1>4. QED
    BY <1>1, <1>2, <1>3

(* The container of one that has not started is nowhere.                   *)
LEMMA FreshInvariant == Spec => []FreshInv
  <1>1. Init => FreshInv
    BY ActorAssumption DEF Init, FreshInv, FreshAt, Makers
  <1>2. TypeInv /\ PublisherInv /\ FreshInv /\ [Next]_vars => FreshInv'
    <2> SUFFICES ASSUME TypeInv, PublisherInv, FreshInv, [Next]_vars PROVE FreshInv'
      OBVIOUS
    <2>1. CASE UNCHANGED vars
      BY <2>1 DEF FreshInv, FreshAt, vars, namespace, private, disk
    <2>2. CASE Next
      BY <2>2, FreshStep, FreshEnvironment, SettingAssumption
         DEF Next, TypeInv, BudgetType, PublisherInv
    <2>3. QED
      BY <2>1, <2>2
  <1>3. QED
    BY <1>1, <1>2, TypeInvariant, PublisherInvariant, PTL DEF Spec

(* Only those who publish do anything.                                     *)
IdleInv == \A p \in Publishers : p \notin setting.publishers => pc[p] = "idle"

(* Steps are taken by publishers of the setting only.                      *)
LEMMA IdleInvariant == Spec => []IdleInv
  <1>1. Init => IdleInv
    BY DEF Init, IdleInv
  <1>2. TypeInv /\ IdleInv /\ [Next]_vars => IdleInv'
    <2> SUFFICES ASSUME TypeInv, IdleInv, [Next]_vars PROVE IdleInv'
      OBVIOUS
    <2>1. CASE UNCHANGED vars
      BY <2>1 DEF IdleInv, vars
    <2>2. CASE Next
      <3>1. UNCHANGED setting
        BY <2>2 DEF Next
      <3>2. ASSUME NEW p \in setting.publishers, Step(p) PROVE IdleInv'
        <4>1. p \in Publishers
          BY SettingAssumption DEF TypeInv, BudgetType
        <4>2. QED
          BY <3>1, <3>2, <4>1, OthersKept DEF IdleInv
      <3>3. ASSUME NEW p \in setting.publishers, Crash(p) PROVE IdleInv'
        BY <3>1, <3>3 DEF IdleInv, Crash, Goto, TypeInv, PhaseType
      <3>4. ASSUME Edit PROVE IdleInv'
        BY <3>1, <3>4 DEF IdleInv, Edit
      <3>5. ASSUME PowerFails PROVE IdleInv'
        BY <3>1, <3>5 DEF IdleInv, PowerFails, Running
      <3>6. QED
        BY <2>2, <3>2, <3>3, <3>4, <3>5 DEF Next
    <2>3. QED
      BY <2>1, <2>2
  <1>3. QED
    BY <1>1, <1>2, TypeInvariant, PTL DEF Spec

-----------------------------------------------------------------------------
(* The container of a visible release.                                     *)

(* Nobody who may have to remove a container it made has company.          *)
SoleExpeller ==
  \A s \in Settings : s.mayExpel = {} \/ \E p \in Publishers : s.publishers = {p}

(* Where a tree is staged or visible is where the name of the container    *)
(* leads to, and that name is on disk.                                     *)
KeptAt(p) ==
  /\ root[p] \in {"staging", "visible"} => container = parent[p] /\ anchored = parent[p]
  /\ pc[p] = "stage" /\ container = parent[p] => anchored = container
StrangerKept ==
  edits = 0 => \A c \in Makers : visible[c] = Stranger =>
                 c = Stranger /\ container = c /\ anchored = c /\ durable[c] = c
KeptInv == StrangerKept /\ \A p \in Publishers : KeptAt(p)

AllInv == TypeInv /\ PublisherInv /\ FreshInv /\ IdleInv

(* Whoever removes a container or puts it back is alone.                   *)
LEMMA ExpellerIsAlone ==
  ASSUME SoleExpeller, TypeInv, IdleInv, NEW p \in setting.mayExpel,
         NEW q \in Publishers, pc[q] # "idle", pc[p] # "idle"
  PROVE  q = p
  <1>1. p \in Publishers /\ setting \in Settings
    BY SettingAssumption DEF TypeInv, BudgetType
  <1>2. p \in setting.publishers /\ q \in setting.publishers
    BY <1>1 DEF IdleInv
  <1>3. QED
    BY <1>1, <1>2 DEF SoleExpeller

(* A container that a tree is in does not lose its name.                   *)
LEMMA ContainerStays ==
  ASSUME SoleExpeller, AllInv, NEW p \in Publishers, Step(p),
         NEW q \in Publishers, q # p, pc[q] # "idle", container # NoOne,
         ~Vacant(container)
  PROVE  container' = container /\ anchored' \in {anchored, container}
  <1>1. ~(At(p, "own") /\ p \in setting.mayExpel)
    BY ExpellerIsAlone DEF AllInv, At
  <1>2. QED
    BY <1>1, ContainerChange DEF AllInv

(* A tree stays where it is under the steps of the others.                 *)
LEMMA KeptOthers ==
  ASSUME SoleExpeller, AllInv, NEW p \in Publishers, Step(p), NEW q \in Publishers, q # p, KeptAt(q)
  PROVE  KeptAt(q)'
  <1>0. TypeInv /\ PublisherAt(q) /\ FreshAt(p) /\ ~lost
    BY NamesChange DEF AllInv, PublisherInv, FreshInv, Step
  <1>1. /\ root'[q] = root[q] /\ parent'[q] = parent[q] /\ pc'[q] = pc[q]
    BY <1>0, OthersKept
  <1>2. ASSUME root[q] \in {"staging", "visible"} PROVE container' = parent[q] /\ anchored' = parent[q]
    <2>1. container = parent[q] /\ anchored = parent[q] /\ parent[q] # NoOne /\ pc[q] # "idle"
      BY <1>0, <1>2 DEF KeptAt, PublisherAt, ParentAt, RootAt, Early
    <2>2. ~Vacant(container)
      BY <1>0, <1>2, <2>1, ActorAssumption DEF Vacant, PublisherAt, NamesAt, Makers
    <2>3. QED
      BY <2>1, <2>2, ContainerStays
  <1>3. ASSUME pc[q] = "stage", container' = parent[q] PROVE anchored' = container'
    <2>1. parent[q] # NoOne
      BY <1>0, <1>3 DEF PublisherAt, ParentAt
    <2>2. ~At(p, "expel")
      BY <1>3, ExpellerIsAlone DEF AllInv, PublisherInv, PublisherAt, ParentAt, At
    <2>3. At(p, "idle") => parent[q] # p
      BY <1>0 DEF FreshAt, At
    <2>4. container' = container
      BY <1>0, <1>3, <2>1, <2>2, <2>3, ContainerChange
    <2>5. anchored = container
      BY <1>3, <2>4 DEF KeptAt
    <2>6. QED
      BY <1>0, <2>4, <2>5, ContainerChange
  <1>4. QED
    BY <1>1, <1>2, <1>3 DEF KeptAt

(* It stays there under the steps of its own publisher.                    *)
LEMMA KeptOwn ==
  ASSUME SoleExpeller, AllInv, NEW p \in Publishers, Step(p), KeptAt(p)
  PROVE  KeptAt(p)'
  <1>0. TypeInv /\ PublisherAt(p)
    BY DEF AllInv, PublisherInv
  <1>1. ASSUME root'[p] \in {"staging", "visible"}
        PROVE  container' = parent'[p] /\ anchored' = parent'[p]
    <2>1. CASE root[p] \in {"staging", "visible"}
      <3>1. pc[p] \notin Early
        BY <1>0, <2>1 DEF PublisherAt, RootAt
      <3>2. container' = container /\ anchored' = anchored /\ parent'[p] = parent[p]
        BY <1>0, <3>1, ContainerChange DEF Early, At
      <3>3. QED
        BY <2>1, <3>2 DEF KeptAt
    <2>2. CASE root[p] \notin {"staging", "visible"}
      <3>1. At(p, "stage") /\ Linked(parent[p])
        BY <1>0, <1>1, <2>2, ContainerChange
      <3>2. parent[p] # NoOne
        BY <1>0, <3>1 DEF PublisherAt, ParentAt, At
      <3>3. \A r \in Publishers : hidden[r] # parent[p]
        <4>1. SUFFICES ASSUME NEW r \in Publishers, hidden[r] = parent[p] PROVE FALSE
          OBVIOUS
        <4>2. r \in setting.mayExpel /\ pc[r] \in {"expel", "done", "crashed"}
          BY <3>2, <4>1 DEF AllInv, PublisherInv, PublisherAt, ParentAt
        <4>3. p = r
          BY <3>1, <4>2, ExpellerIsAlone DEF AllInv, At
        <4>4. QED
          BY <3>1, <4>2, <4>3 DEF At
      <3>4. container = parent[p] /\ anchored = parent[p]
        BY <3>1, <3>3 DEF Linked, KeptAt, At
      <3>5. QED
        BY <1>0, <3>1, <3>4, ContainerChange DEF At
    <2>3. QED
      BY <2>1, <2>2
  <1>2. pc'[p] = "stage" => anchored' = container'
    BY <1>0, ContainerChange
  <1>3. QED
    BY <1>1, <1>2 DEF KeptAt

(* So does a final name that another actor has taken.                      *)
LEMMA StrangerKeptStep ==
  ASSUME AllInv, StrangerKept, NEW p \in Publishers, Step(p)
  PROVE  StrangerKept'
  <1> SUFFICES ASSUME edits' = 0, NEW c \in Makers, visible'[c] = Stranger
               PROVE  c = Stranger /\ container' = c /\ anchored' = c /\ durable'[c] = c
    BY DEF StrangerKept
  <1>0. TypeInv /\ PublisherAt(p) /\ FreshAt(p)
    BY DEF AllInv, PublisherInv, FreshInv
  <1>1. edits = 0
    BY <1>0, NamesChange
  <1>2. p \notin swapped /\ p # Stranger /\ Stranger # NoOne
    BY <1>0, <1>1, ActorAssumption DEF PublisherAt, RootAt, Makers
  <1>3. visible[c] = Stranger
    BY <1>0, <1>2, NamesChange
  <1>4. c = Stranger /\ container = c /\ anchored = c /\ durable[c] = c
    BY <1>1, <1>3 DEF StrangerKept
  <1>5. ~At(p, "own")
    BY <1>0, <1>2, <1>4 DEF FreshAt, At
  <1>6. QED
    BY <1>0, <1>2, <1>4, <1>5, ContainerChange, NamesChange

(* Both survive edits, a crash and a failure of power.                     *)
LEMMA KeptEnvironment ==
  ASSUME TypeInv, DiskOK, KeptInv, Edit \/ PowerFails \/ \E p \in Publishers : Crash(p)
  PROVE  KeptInv'
  <1>1. CASE Edit
    <2>1. UNCHANGED <<container, anchored, parent, pc>> /\ edits' # 0
      BY <1>1 DEF Edit, private, disk, TypeInv, BudgetType
    <2>2. \A q \in Publishers : root'[q] \in {root[q], "away"}
      BY <1>1 DEF Edit, TypeInv, TreeType
    <2>3. QED
      BY <2>1, <2>2 DEF KeptInv, KeptAt, StrangerKept
  <1>2. CASE PowerFails
    <2>1. UNCHANGED <<anchored, durable, parent, root, edits>> /\ container' \in {container, anchored}
      BY <1>2 DEF PowerFails, private, disk
    <2>2. \A c \in Makers : visible'[c] \in {visible[c], durable[c]} /\ durable[c] \in {NoOne, visible[c]}
      BY <1>2 DEF PowerFails, DiskOK
    <2>3. \A q \in Publishers : pc'[q] # "stage"
      BY <1>2 DEF PowerFails, Running
    <2>4. \A c \in Makers : visible'[c] = Stranger => visible[c] = Stranger
      BY <2>2, ActorAssumption DEF Makers
    <2>5. QED
      BY <2>1, <2>3, <2>4 DEF KeptInv, KeptAt, StrangerKept
  <1>3. CASE \E p \in Publishers : Crash(p)
    <2>1. UNCHANGED <<container, anchored, durable, parent, root, visible, edits>>
      BY <1>3 DEF Crash, namespace, tree, private, disk, budget
    <2>2. \A q \in Publishers : pc'[q] \in {pc[q], "crashed"}
      BY <1>3 DEF Crash, Goto, TypeInv, PhaseType
    <2>3. QED
      BY <2>1, <2>2 DEF KeptInv, KeptAt, StrangerKept
  <1>4. QED
    BY <1>1, <1>2, <1>3

(* The invariants that need no premise, together.                          *)
LEMMA AllInvariant == Spec => []AllInv
  BY TypeInvariant, PublisherInvariant, FreshInvariant, IdleInvariant, PTL DEF AllInv

(* If who may expel is alone, no tree loses its container.                 *)
LEMMA KeptInvariant ==
  ASSUME SoleExpeller
  PROVE  Spec => []KeptInv
  <1>1. Init => KeptInv
    <2> SUFFICES ASSUME Init PROVE KeptInv
      OBVIOUS
    <2>1. \A c \in Makers : visible[c] = Stranger => c = container
      BY ActorAssumption DEF Init, Makers
    <2>2. container \in {NoOne, Stranger} /\ anchored = container
      BY DEF Init
    <2>3. StrangerKept
      BY <2>1, <2>2, ActorAssumption DEF Init, StrangerKept, Makers
    <2>4. \A p \in Publishers : KeptAt(p)
      BY DEF Init, KeptAt
    <2>5. QED
      BY <2>3, <2>4 DEF KeptInv
  <1>2. AllInv /\ KeptInv /\ [Next]_vars => KeptInv'
    <2> SUFFICES ASSUME AllInv, KeptInv, [Next]_vars PROVE KeptInv'
      OBVIOUS
    <2>1. CASE UNCHANGED vars
      BY <2>1 DEF KeptInv, KeptAt, StrangerKept, vars, namespace, tree, private, disk,
         budget
    <2>2. CASE Next
      <3>1. ASSUME NEW p \in Publishers, Step(p) PROVE KeptInv'
        BY <3>1, KeptOwn, KeptOthers, StrangerKeptStep DEF KeptInv
      <3>2. QED
        BY <2>2, <3>1, KeptEnvironment, SettingAssumption
           DEF Next, AllInv, TypeInv, BudgetType, PublisherInv
    <2>3. QED
      BY <2>1, <2>2
  <1>3. QED
    BY <1>1, <1>2, AllInvariant, PTL DEF Spec

(* The final name never leads to an incomplete tree, and a publisher that  *)
(* has reported success without warnings finds its release under its name  *)
(* after a loss of power (SurvivesPowerLoss): for every tree, every number *)
(* of publishers and of failing calls, unless a publisher may have to take *)
(* back a container it made for others.                                    *)
THEOREM PowerLossHolds ==
  ASSUME SoleExpeller
  PROVE  Spec => []SurvivesPowerLoss
  <1>1. AllInv /\ ContentsInv /\ KeptInv => SurvivesPowerLoss
    <2> SUFFICES ASSUME AllInv, ContentsInv, KeptInv, edits = 0
                 PROVE  /\ \A c \in Makers : visible[c] \in Publishers => Exact(visible[c])
                        /\ lost => \A p \in Publishers : Outcome(p) = "good" =>
                             container = parent[p] /\ visible[parent[p]] = p
      BY DEF SurvivesPowerLoss
    <2>1. ASSUME NEW c \in Makers, visible[c] \in Publishers PROVE Exact(visible[c])
      <3>1. root[visible[c]] = "visible"
        BY <2>1 DEF AllInv, PublisherInv, PublisherAt, NamesAt
      <3>2. QED
        BY <2>1, <3>1 DEF ContentsInv, ContentsAt, Whole
    <2>2. ASSUME NEW p \in Publishers, Outcome(p) = "good"
          PROVE  container = parent[p] /\ visible[parent[p]] = p
      <3>1. parent[p] # NoOne /\ durable[parent[p]] = p
        BY <2>2 DEF Outcome, At, AllInv, PublisherInv, PublisherAt, ReportAt
      <3>2. parent[p] \in Makers /\ p # NoOne
        BY <3>1, ActorAssumption DEF AllInv, TypeInv, RecordType, Makers
      <3>3. visible[parent[p]] = p
        BY <3>1, <3>2 DEF AllInv, PublisherInv, DiskOK
      <3>4. root[p] = "visible"
        BY <3>2, <3>3 DEF AllInv, PublisherInv, PublisherAt, NamesAt
      <3>5. QED
        BY <3>3, <3>4 DEF KeptInv, KeptAt
    <2>3. QED
      BY <2>1, <2>2
  <1>2. QED
    BY <1>1, AllInvariant, ContentsInvariant, KeptInvariant, PTL

(* A publisher that does something has not reported yet; what it renames   *)
(* it verifies before it reports.                                          *)
LEMMA StepRuns ==
  ASSUME TypeInv, NEW p \in Publishers, Step(p)
  PROVE  /\ pc[p] # "done" /\ (At(p, "rename") => pc'[p] # "done")
  <1> USE DEF TypeInv, PhaseType, At, Goto
  <1>0. Prepare(p) \/ Stage(p) \/ Publish(p) \/ CleanUp(p)
    BY DEF Step
  <1>1. CASE Prepare(p)
    <2>1. CASE Enter(p)
      BY <2>1 DEF Enter
    <2>2. CASE EnterFails(p)
      BY <2>2 DEF EnterFails, Return
    <2>3. CASE OpenContainer(p)
      BY <2>3 DEF OpenContainer
    <2>4. CASE OpenContainerFails(p)
      BY <2>4 DEF OpenContainerFails, Return
    <2>5. CASE HideContainer(p)
      BY <2>5 DEF HideContainer
    <2>6. CASE ExpelContainer(p)
      BY <2>6 DEF ExpelContainer, Return
    <2>7. CASE SyncDestination(p)
      BY <2>7 DEF SyncDestination
    <2>8. CASE SyncDestinationFails(p)
      BY <2>8 DEF SyncDestinationFails, Return
    <2>9. QED
      BY <1>1, <2>1, <2>2, <2>3, <2>4, <2>5, <2>6, <2>7, <2>8 DEF Prepare
  <1>2. CASE Stage(p)
    <2>1. CASE CreateStaging(p)
      BY <2>1 DEF CreateStaging
    <2>2. CASE CreateStagingFails(p)
      BY <2>2 DEF CreateStagingFails, Return
    <2>3. CASE CreateNode(p)
      BY <2>3 DEF CreateNode, Becomes
    <2>4. CASE CreateNodeFails(p)
      BY <2>4 DEF CreateNodeFails, Becomes, Fail
    <2>5. CASE WriteFile(p)
      BY <2>5 DEF WriteFile, Becomes
    <2>6. CASE WriteFileFails(p)
      BY <2>6 DEF WriteFileFails, Fail
    <2>7. CASE Seal(p)
      BY <2>7 DEF Seal, NextFolder
    <2>8. CASE SealFails(p)
      BY <2>8 DEF SealFails, NextFolder, Fail
    <2>9. CASE SyncParent(p)
      BY <2>9 DEF SyncParent
    <2>10. CASE SyncParentFails(p)
      BY <2>10 DEF SyncParentFails, Fail
    <2>11. CASE Check(p)
      BY <2>11 DEF Check
    <2>12. CASE CheckFails(p)
      BY <2>12 DEF CheckFails, Fail
    <2>13. QED
      BY <1>2, <2>1, <2>2, <2>3, <2>4, <2>5, <2>6, <2>7, <2>8, <2>9, <2>10, <2>11,
         <2>12 DEF Stage
  <1>3. CASE Publish(p)
    <2>1. CASE Rename(p)
      BY <2>1 DEF Rename, Show
    <2>2. CASE RenameFails(p)
      BY <2>2 DEF RenameFails, Show
    <2>3. CASE ProbeFinal(p)
      BY <2>3 DEF ProbeFinal
    <2>4. CASE Reconcile(p)
      BY <2>4 DEF Reconcile, Warn, Fail, SourceAnswers
    <2>5. CASE SyncVisible(p)
      BY <2>5 DEF SyncVisible
    <2>6. CASE SyncVisibleFails(p)
      BY <2>6 DEF SyncVisibleFails, Warn
    <2>7. CASE Verify(p)
      BY <2>7 DEF Verify, Warn
    <2>8. QED
      BY <1>3, <2>1, <2>2, <2>3, <2>4, <2>5, <2>6, <2>7 DEF Publish
  <1>4. CASE CleanUp(p)
    <2>1. CASE Reacquire(p)
      BY <2>1 DEF Reacquire
    <2>2. CASE ReacquireFails(p)
      BY <2>2 DEF ReacquireFails
    <2>3. CASE RemoveNode(p)
      BY <2>3 DEF RemoveNode, Becomes, Forget
    <2>4. CASE RemoveNodeFails(p)
      BY <2>4 DEF RemoveNodeFails, Becomes, Forget
    <2>5. CASE RemoveRoot(p)
      BY <2>5 DEF RemoveRoot
    <2>6. CASE RemoveRootFails(p)
      BY <2>6 DEF RemoveRootFails
    <2>7. QED
      BY <1>4, <2>1, <2>2, <2>3, <2>4, <2>5, <2>6 DEF CleanUp
  <1>5. QED
    BY <1>0, <1>1, <1>2, <1>3, <1>4

-----------------------------------------------------------------------------
(* The namespace.                                                          *)

(* Of all final names only that in the container is taken, and by a        *)
(* complete tree.                                                          *)
ShownInv == edits = 0 =>
  /\ \A c \in Makers : visible[c] # NoOne => Shown = visible[c] /\ container = c
  /\ (\A c \in Makers : visible[c] = NoOne) => Shown = NoOne

(* What is visible in a container is what the final name leads to.         *)
LEMMA ShownIsVisible ==
  ASSUME AllInv, ContentsInv, KeptInv
  PROVE  ShownInv
  <1> SUFFICES ASSUME edits = 0 PROVE ShownInv
    BY DEF ShownInv
  <1>1. container \in Makers \cup {NoOne}
    BY DEF AllInv, TypeInv, NamesType
  <1>2. ASSUME NEW c \in Makers, visible[c] # NoOne PROVE Shown = visible[c] /\ container = c
    <2>1. CASE visible[c] \in Publishers
      <3>1. root[visible[c]] = "visible" /\ parent[visible[c]] = c
        BY <2>1 DEF AllInv, PublisherInv, PublisherAt, NamesAt
      <3>2. container = c /\ Exact(visible[c])
        BY <2>1, <3>1 DEF KeptInv, KeptAt, ContentsInv, ContentsAt, Whole
      <3>3. c # NoOne
        BY ActorAssumption
      <3>4. QED
        BY <3>2, <3>3 DEF Shown
    <2>2. CASE visible[c] \notin Publishers
      <3>1. visible[c] = Stranger
        BY <1>2, <2>2 DEF AllInv, TypeInv, NamesType, Makers
      <3>2. container = c /\ c # NoOne
        BY <3>1, ActorAssumption DEF KeptInv, StrangerKept
      <3>3. QED
        BY <2>2, <3>2 DEF Shown
    <2>3. QED
      BY <2>1, <2>2
  <1>3. ASSUME \A c \in Makers : visible[c] = NoOne PROVE Shown = NoOne
    BY <1>1, <1>3, ActorAssumption DEF Shown, Makers
  <1>4. QED
    BY <1>2, <1>3 DEF ShownInv

(* So it is in every state.                                                *)
LEMMA ShownInvariant ==
  ASSUME SoleExpeller
  PROVE  Spec => []ShownInv
  BY ShownIsVisible, AllInvariant, ContentsInvariant, KeptInvariant, PTL

(* A step of a publisher takes the name, for a complete tree, or leaves it *)
(* alone.                                                                  *)
LEMMA ShownStep ==
  ASSUME AllInv, KeptInv, ShownInv, ShownInv', edits = 0, NEW p \in Publishers, Step(p)
  PROVE  \/ Shown' = Shown
         \/ At(p, "rename") /\ Shown = NoOne /\ Shown' = p
  <1>0. TypeInv /\ PublisherAt(p) /\ KeptAt(p)
    BY DEF AllInv, PublisherInv, KeptInv
  <1>1. edits' = 0 /\ ~lost
    BY <1>0, NamesChange DEF Step
  <1>2. CASE \A c \in Makers : visible'[c] = visible[c]
    BY <1>1, <1>2 DEF ShownInv
  <1>3. CASE \E c \in Makers : visible'[c] # visible[c]
    <2>1. PICK c \in Makers : visible'[c] # visible[c]
      BY <1>3
    <2>2. /\ At(p, "rename") /\ visible[c] = NoOne /\ c = parent[p]
          /\ visible'[c] = IF p \in swapped THEN Stranger ELSE p
      BY <1>0, <2>1, NamesChange
    <2>3. root[p] = "staging" /\ p \notin swapped
      BY <1>0, <2>2 DEF PublisherAt, RootAt, Building, At
    <2>4. Shown' = p
      BY <1>1, <2>2, <2>3, ActorAssumption DEF ShownInv, Makers
    <2>5. \A d \in Makers : visible[d] = NoOne
      BY <1>0, <2>2, <2>3 DEF KeptAt, ShownInv
    <2>6. QED
      BY <2>2, <2>4, <2>5 DEF ShownInv
  <1>4. QED
    BY <1>2, <1>3

Reports == {"none", "good", "warned", "indeterminate", "failed"}

(* Every step is a step of ReleaseNamespace, or changes nothing of it.     *)
LEMMA NamespaceStep ==
  ASSUME AllInv, AllInv', KeptInv, ShownInv, ShownInv', Next
  PROVE  Namespace!Next \/ UNCHANGED <<Shown, [p \in Publishers |-> Outcome(p)], lost, edits > 0>>
  <1> DEFINE R == [q \in Publishers |-> Outcome(q)]
  <1>0. /\ TypeInv /\ TypeInv' /\ edits \in Nat /\ edits' \in Nat /\ lost \in BOOLEAN /\ lost' \in BOOLEAN
        /\ UNCHANGED setting
    BY DEF AllInv, TypeInv, BudgetType, Next
  <1>1. ASSUME edits' > 0 PROVE Namespace!Next
    <2>1. Shown' \in Publishers \cup {NoOne, Stranger}
      BY <1>0 DEF Shown, TypeInv, NamesType, Makers
    <2>2. R' = [q \in Publishers |-> Outcome(q)']
      OBVIOUS
    <2>3. \A q \in Publishers : Outcome(q)' \in Reports
      BY <1>0 DEF Outcome, Reports, TypeInv, RecordType
    <2>4. R' \in [Publishers -> Reports]
      BY <2>2, <2>3
    <2>5. Namespace!Disturb
      BY <1>0, <1>1, <2>1, <2>4 DEF Namespace!Disturb, Reports
    <2>6. QED
      BY <2>5 DEF Namespace!Next
  <1>2. ASSUME edits' = 0, NEW p \in Publishers, Step(p)
        PROVE  Namespace!Next \/ UNCHANGED <<Shown, R, lost, edits > 0>>
    <2>1. edits = 0 /\ lost' = lost /\ ~lost /\ PublisherAt(p) /\ PublisherAt(p)'
      BY <1>0, <1>2, NamesChange DEF Step, AllInv, PublisherInv
    <2>2. \A q \in Publishers : q # p => Outcome(q)' = Outcome(q)
      BY <1>0, <1>2, OthersKept DEF Outcome, At
    <2>3. Outcome(p) = "none"
      BY <1>0, <1>2, StepRuns DEF Outcome, At
    <2>4. Shown' = Shown \/ (At(p, "rename") /\ Shown = NoOne /\ Shown' = p)
      BY <1>2, <2>1, ShownStep
    <2>5. CASE pc'[p] # "done"
      <3>1. Outcome(p)' = "none"
        BY <2>5 DEF Outcome, At
      <3>2. R' = R
        BY <2>2, <2>3, <3>1
      <3>3. CASE Shown' = Shown
        BY <1>2, <2>1, <3>2, <3>3
      <3>4. CASE Shown = NoOne /\ Shown' = p
        <4>1. R[p] = "none"
          BY <2>3
        <4>2. Namespace!Show(p)
          BY <1>2, <2>1, <3>2, <3>4, <4>1 DEF Namespace!Show
        <4>3. QED
          BY <4>2 DEF Namespace!Next
      <3>5. QED
        BY <2>4, <3>3, <3>4
    <2>6. CASE pc'[p] = "done"
      <3>1. Shown' = Shown
        BY <1>0, <1>2, <2>4, <2>6, StepRuns DEF At
      <3>2. Outcome(p)' = verdict'[p] /\ verdict'[p] \in {"good", "warned", "indeterminate", "failed"}
        BY <1>0, <2>6 DEF Outcome, At, TypeInv, RecordType
      <3>3. parent'[p] # NoOne => parent'[p] \in Makers
        BY <1>0 DEF TypeInv, RecordType
      <3>4. Shown = p <=> root'[p] = "visible"
        <4>1. ASSUME root'[p] = "visible" PROVE Shown' = p
          <5>1. visible'[parent'[p]] = p /\ parent'[p] # NoOne /\ p # NoOne
            BY <2>1, <4>1, ActorAssumption DEF PublisherAt, NamesAt, ParentAt, Makers
          <5>2. QED
            BY <1>2, <3>3, <5>1 DEF ShownInv
        <4>2. ASSUME Shown' = p PROVE root'[p] = "visible"
          <5>1. p # NoOne
            BY ActorAssumption DEF Makers
          <5>2. PICK c \in Makers : visible'[c] # NoOne
            BY <1>2, <4>2, <5>1 DEF ShownInv
          <5>3. visible'[c] = p
            BY <1>2, <4>2, <5>2 DEF ShownInv
          <5>4. QED
            BY <2>1, <5>3 DEF PublisherAt, NamesAt
        <4>3. QED
          BY <3>1, <4>1, <4>2
      <3>5. verdict'[p] \in Namespace!Allowed(p)
        BY <1>2, <2>1, <2>6, <3>2, <3>4 DEF Namespace!Allowed, PublisherAt, ReportAt
      <3>6. R' = [R EXCEPT ![p] = verdict'[p]]
        BY <2>2, <3>2
      <3>7. R[p] = "none"
        BY <2>3
      <3>8. \E r \in Namespace!Allowed(p) : R' = [R EXCEPT ![p] = r]
        BY <3>5, <3>6
      <3>9. ~(edits' > 0) /\ Shown' = Shown /\ lost' = lost
        BY <1>2, <2>1, <3>1
      <3>10. Namespace!Report(p)
        BY <2>1, <3>7, <3>8, <3>9 DEF Namespace!Report
      <3>11. QED
        BY <3>10 DEF Namespace!Next
    <2>7. QED
      BY <2>5, <2>6
  <1>3. ASSUME edits' = 0, NEW p \in Publishers, Crash(p)
        PROVE  UNCHANGED <<Shown, R, lost, edits > 0>>
    <2>1. UNCHANGED <<namespace, tree, verdict, lost, edits>>
      BY <1>3 DEF Crash, result, budget
    <2>2. Shown' = Shown
      BY <2>1 DEF Shown, Exact, namespace, tree
    <2>3. \A q \in Publishers : Outcome(q)' = Outcome(q)
      BY <1>0, <1>3, <2>1 DEF Crash, Running, Goto, Outcome, At, TypeInv, PhaseType
    <2>4. QED
      BY <2>1, <2>2, <2>3
  <1>4. ASSUME edits' = 0, Edit PROVE FALSE
    BY <1>0, <1>4 DEF Edit
  <1>5. ASSUME edits' = 0, PowerFails PROVE Namespace!Next
    <2>1. ~lost /\ lost' = TRUE /\ edits = 0 /\ UNCHANGED verdict
      BY <1>5 DEF PowerFails, result
    <2>2. \A q \in Publishers : Outcome(q)' = Outcome(q)
      BY <1>0, <1>5, <2>1 DEF PowerFails, Running, Outcome, At, TypeInv, PhaseType
    <2>3. R' = R
      BY <2>2
    <2>4. \A c \in Makers : visible'[c] \in {visible[c], durable[c]} /\ durable[c] \in {NoOne, visible[c]}
      BY <1>5 DEF PowerFails, AllInv, PublisherInv, DiskOK
    <2>5. Shown' = Shown \/ (Shown \in Publishers /\ R[Shown] # "good" /\ Shown' = NoOne)
      <3>1. CASE \A c \in Makers : visible'[c] = visible[c]
        BY <1>5, <2>1, <3>1 DEF ShownInv
      <3>2. CASE \E c \in Makers : visible'[c] # visible[c]
        <4>1. PICK c \in Makers : visible'[c] # visible[c]
          BY <3>2
        <4>2. visible'[c] = NoOne /\ visible[c] # NoOne /\ durable[c] = NoOne
          BY <2>4, <4>1
        <4>3. Shown = visible[c] /\ container = c
          BY <2>1, <4>2 DEF ShownInv
        <4>4. \A d \in Makers : visible'[d] = NoOne
          BY <2>1, <2>4, <4>2, <4>3 DEF ShownInv
        <4>5. Shown' = NoOne
          BY <1>5, <4>4 DEF ShownInv
        <4>6. visible[c] # Stranger
          BY <2>1, <4>2, ActorAssumption DEF KeptInv, StrangerKept, Makers
        <4>7. visible[c] \in Publishers
          BY <1>0, <4>2, <4>6 DEF TypeInv, NamesType, Makers
        <4>8. parent[visible[c]] = c
          BY <4>7 DEF AllInv, PublisherInv, PublisherAt, NamesAt
        <4>9. Outcome(visible[c]) # "good"
          BY <4>2, <4>7, <4>8 DEF Outcome, At, AllInv, PublisherInv, PublisherAt, ReportAt
        <4>10. QED
          BY <4>3, <4>5, <4>7, <4>9
      <3>3. QED
        BY <3>1, <3>2
    <2>6. Namespace!LosePower
      BY <1>5, <2>1, <2>3, <2>5 DEF Namespace!LosePower
    <2>7. QED
      BY <2>6 DEF Namespace!Next
  <1>6. \/ \E p \in Publishers : Step(p) \/ Crash(p)
        \/ Edit \/ PowerFails
    BY <1>0, SettingAssumption DEF Next, TypeInv, BudgetType
  <1>7. QED
    BY <1>0, <1>1, <1>2, <1>3, <1>4, <1>5, <1>6

(* Publishers of one release see one final name that is taken once, by a   *)
(* complete tree, and report truthfully who took it: the publication       *)
(* implements ReleaseNamespace (ImplementsNamespace), for every number of  *)
(* publishers, failing calls and nodes, under the premise of               *)
(* PowerLossHolds.                                                         *)
THEOREM NamespaceHolds ==
  ASSUME SoleExpeller
  PROVE  Spec => ImplementsNamespace
  <1>1. Init => Namespace!Init
    <2> SUFFICES ASSUME Init PROVE Namespace!Init
      OBVIOUS
    <2>1. Shown \in {NoOne, Stranger}
      BY ActorAssumption DEF Init, Shown, Makers
    <2>2. [p \in Publishers |-> Outcome(p)] = [p \in Publishers |-> "none"]
      BY DEF Init, Outcome, At
    <2>3. ~lost /\ ~(edits > 0)
      BY DEF Init
    <2>4. QED
      BY <2>1, <2>2, <2>3 DEF Namespace!Init
  <1>2. AllInv /\ AllInv' /\ KeptInv /\ ShownInv /\ ShownInv' /\ [Next]_vars =>
          [Namespace!Next]_<<Shown, [p \in Publishers |-> Outcome(p)], lost, edits > 0>>
    <2> SUFFICES ASSUME AllInv, AllInv', KeptInv, ShownInv, ShownInv', [Next]_vars
                 PROVE  Namespace!Next \/ UNCHANGED <<Shown, [p \in Publishers |-> Outcome(p)], lost, edits > 0>>
      OBVIOUS
    <2>1. CASE Next
      BY <2>1, NamespaceStep
    <2>2. CASE UNCHANGED vars
      BY <2>2 DEF vars, namespace, tree, result, budget, Shown, Exact, Outcome, At
    <2>3. QED
      BY <2>1, <2>2
  <1>3. QED
    BY <1>1, <1>2, AllInvariant, KeptInvariant, ShownInvariant, PTL
       DEF Spec, ImplementsNamespace, Namespace!Spec

=============================================================================
