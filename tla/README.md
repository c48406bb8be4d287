# CircuitC in TLA+

A model of CircuitC, the compiler of electronic designs in this repository. It
has two halves. In the first, order, failure and concurrency decide whether a
run of the compiler can be trusted: publishing a bundle, publishing a release,
making and removing directories, supervising an external tool, the checked
compilation around them. In the second, the compiler is a chain of functions
without state (source text, tree, design, netlist and project, requests to
tools and their answers), and the question is whether what one of them accepts,
the next one can be trusted to carry over. The modules are translated from the
source; `PROJECT.json` gives the lines of every definition. This file describes
the system, the modules, what TLC checks and what TLAPS proves, what was
observed on the way, and what is left to do.

## 1. The system

| Component | State it keeps | Operations | What must hold |
|---|---|---|---|
| Output transaction (`cmd/circuitc/main.rs`, `write_outputs`) | names and inodes of the output directory, temporaries, backups, a private quarantine, reserved descriptors | preflight, stage, displace, publish, roll back, clean up | all files or none; originals never lost; only own files removed |
| Output directories, work root (`main.rs`) | directories this run made, with their identities | create, claim, remove, restore | an undone run leaves no directory; directories of others stay |
| Release publication (`src/release/publish.rs`) | staging tree, container and final name of a content-addressed release | create the container, stage, sync, rename, probe, clean up | a visible release is complete, durable and immutable |
| Process runner (`src/simulation/runner.rs`, same form in `src/routing/runner.rs`) | child, process group, two reader threads, a writer thread, flag of the output limit, deadline | spawn, poll, receive, kill, reap | output is whole or refused; no thread or process forgotten |
| Checked compilation (`src/compile.rs`, `main.rs`) | results, spent and reserved bytes, exhausted flag | route, execute every analysis, evaluate, publish bundle or evidence | success only if everything was checked; evidence is complete |
| Tool boundaries (`src/simulation/runner.rs`, `src/routing/runner.rs`) | private directory, staged executable, receipt | authenticate, stage, handshake, run, authenticate again, normalize | what answered is what was authenticated |
| Design IR (`src/design.rs`), quantities (`src/quantity.rs`) | none | validate, normalize, compare | names unique, references resolved, exact arithmetic |
| Frontend (`src/frontend`) | none between calls | lex, parse with recovery, elaborate | terminates, finds cycles, one IR for one source |
| Backends (`src/kicad.rs`, `src/spice.rs`, `src/library.rs`) | none | name and write | names do not collide, output is deterministic |
| Simulation and routing contracts, lowering, import (`src/simulation`, `src/routing`) | none | lower, parse strictly, join, project | a result belongs to its request; the route connects what was asked |
| Product, manufacturing, board analysis (`src/product`, `src/manufacturing`, `src/product_analysis`) | none | resolve, normalize, bind | each intent resolves once; evidence joins the design |
| Release closure (`src/release/bind.rs`, `identity.rs`) | none | verify | the inventory is closed and is what it says |
| Host tools, lint, schemas, examples (`tools`, `bazel`, `schemas`) | - | - | not part of the compiler |

How they interact. The command line reads a source, makes a private work root and
calls the checked compilation. That calls the frontend, the validator, lowering
and the backends one after another, then the routing adapter and the simulator as
external processes through the process runner, with files in the work root. When
the work root is gone the command publishes either the bundle or the evidence of
the failure as one output transaction. A release is a second command: it verifies
a closed inventory and hands it to the release publication. There are no locks
and no daemon. Runs meet each other, and anything else on the machine, only in
the file system and in the process table.

Hard behaviour, in order of importance:

1. two runs, or a run and an editor, on the same directory, with identities read
   before they are used and inode numbers that come back;
2. any system call failing, including those of the rollback, and descriptors
   running out while the rollback needs one for each step;
3. the process killed or the power lost between two calls; process identifiers
   that come back;
4. a rename that takes effect and still reports an error, and probes that answer
   from a cache;
5. threads that read and write the pipes of a child, a deadline, and descendants
   that keep the pipes open;
6. budgets that run out in the middle of a sequence of analyses.

The parts without state between calls (frontend, validator, contracts, backends,
closure) are deterministic functions. What is hard in them: numbers at the edge
of their width, recovery after an error, duplicates of what may be declared
once, names that meet after they were mangled, and joins of documents that are
each valid by themselves.

## 2. The modules

Publication, processes and the command:

| Module | Models |
|---|---|
| `OutputTransaction` | `write_outputs` and the functions it calls on files, for several runs at once |
| `BundlePublication` | what it promises: untouched, or the whole bundle visible, in one step |
| `OutputDirectories` | the directories a run makes on its path and takes away again, for two runs on one path |
| `WorkRoot` | the private work root of a compilation and the directories of the tool runs in it |
| `ReleasePublication` | `publish_release` and its helpers, for several publishers, with caches, lost replies and loss of power |
| `ReleaseNamespace` | what it promises: a release appears once, complete, and stays |
| `ProcessRunner` | `run_process` of both tool adapters: the runner, its three threads, the leader and its descendants, the pipes |
| `CheckedRun` | the command and `compile_checked`: budget, results, work root, what is published |
| `...Proofs` | theorems about the module of that name; `OutputSoloProofs` and `OutputSharedProofs` are about `OutputTransaction`, of one run and of several |
| `MC...` | constants and properties of the runs |

The functions, each a module of operators; a module extends the one it builds on:

| Module | Models |
|---|---|
| `Quantities`, `SimulationGrid` | exact quantities in a small width: normal form, order, conversion; sample grids in digit strings |
| `DesignRules`, `DesignIntent`, `DesignCanonical` | the Design, the rules it is validated by, its canonical form |
| `SourceText`, `Elaboration`, `SourceMap` | the grammar and the recovery of the parser, elaboration of a tree to a Design, the locations of identities |
| `SpiceDeck`, `KicadProject` | the netlist with its names; the drawing, the board and every identity |
| `StaticCompilation` | `compile`: what a Design is refused for, or all that is made of it |
| `SimulationContract`, `SimulationLowering`, `SimulationNormalization` | the documents of a simulation, the request of a Design, and what is read from the table the simulator prints |
| `RoutingContract`, `RoutingLowering`, `RouteImport` | the same for the router, with the projection of its geometry onto the board |
| `CheckedSimulation`, `CheckedRouting` | state machines again: the steps of an adapter around its tool, while tools and copies are replaced, the deadline passes and calls fail |

### OutputTransaction

`link` says which inode a name leads to, `file` what an inode holds and who made
it. A run walks the entries of its bundle through the phases of
`write_outputs_with_hooks`: `open` and `parents` (quarantine, descriptor
reserve), `preflight`, `probe`/`probing` (does the file system have a no-replace
rename), `stage`/`write`/`identify` (temporaries, and the identity of each
existing target), `displace` (targets to backups), `publish` (temporaries to
targets), then `abort` or `cleanup`, `settle`, `sync`. One action is one system
call, or a group of calls between which nothing else can be seen; a `...Fails`
action is the same call returning an error, with all the code does about it.
Rollback and cleanup are a set `todo` of tasks (one for each file to claim,
verify, and remove, restore or give back), which the code performs one after
another without ever giving up; the model lets them run in any order, which
includes the order of the code. A removal is *claim by rename into the private
quarantine, compare the identity, then unlink or give back*, as in the code,
never one step. Anything else on the machine is `Edit...`: it removes or replaces
a target between any two calls. Inode numbers are reused when no name and no
descriptor holds them (`Allocatable`, `Held`). `Crash` kills a run at any point.

### OutputDirectories

`next[d]` is where the path goes on in directory `d`, `claim[d][p]` what the claim
name of run `p` leads to in it, `made[p]` the records of `remove_created_directories`
(parent, identity, still to be removed). A run walks (`Descend`, `Miss`, `Make`,
`Open`), pins the output directory (`Pin`), walks on to the parent of a generated
file, publishes, or fails and undoes what it made, last first: `Claim` renames the
directory to its claim name, then it is authenticated and removed (`Remove`) or
given back (`RemoveFails`, `GiveBack`). Files count only as the reason why a directory is
not empty; the transaction itself is `OutputTransaction`. Descriptors are counted
(`Used`, and `rest` for what a step has open besides at its segment: a second
descriptor of the parent before its directory is registered, or a directory that was opened
and is refused; both are open while a failing step undoes): before the transaction
reserves some, one has to be free to authenticate
a claim, and who has none gives the directory back. The quarantine is made only
by a run that could open two directories at a time just before, in the inspection of its
targets (`Pin`): one that has a single descriptor left fails there. The ghost `mistaken` names runs that know another directory by
the identity of one they made; `slip` says that a call of some cleanup failed.

### WorkRoot

`entry[d][n]` is a tree of directories. The walk of the output path records the
identities it passes (`ids`), the work root is made beside the output or beside
what is missing of its path, the output is walked again, and `Overlaps` compares.
The directories of the tool runs are made and removed *by path*
(`PrepareBase`, `OpenScope`, `CloseScope`), the work root by a name whose identity
is compared first (`Compare`, `RemoveRoot`). Making a path may fail halfway
(`OpenScopeFails`), and so may removing a directory with all that is in it
(`CloseScopeFails`). Another process makes, removes and renames anything. `Trail(path)`
is what a path passes, `Below(d)` the least set closed under the links with `d` in it. Only what
the code holds open keeps its inode number (`Held`): of a walk the last directory, or the last
two when it is complete (the code keeps the descriptor of a parent then), the parent of
the work root, and the work root.

### ReleasePublication

A publisher resolves the root, creates or opens the container, creates a staging
directory, writes, syncs and seals the members, renames staging to the final name
and decides, from probes of both names, what has happened. Objects of the file
system carry what is on disk and what is only in memory, `PowerFails` keeps any
combination of the entries that were not synced. A rename may take effect and
report an error; a lookup may be stale.

### ProcessRunner

The runner polls the child, the flag of the output limit and the deadline; then
receives from the two readers and the writer, kills the group and reaps. Readers
read chunk by chunk and stop at a limit; a descendant may leave the group or keep
the pipes open; the identifier of a reaped process may be handed out again.

### CheckedRun, CheckedSimulation, CheckedRouting

`CheckedRun` is one run of the command; only the length of a result and its
verdict are kept of it. Each analysis is executed even after the budget of result
bytes is exhausted; the failures of those to come are reserved from the start.
`CheckedSimulation` and `CheckedRouting` look into one execution: the design, the
request lowered from it, the tool authenticated, copied, run and compared again,
the answer read and joined with the request. What a tool may print is a constant
of the instance, an operator (`Answers`, `Results`): right answers, and right
answers with one thing wrong and everything that depends on it made to agree.

### The functions

Names, texts and paths are strings that stand for themselves; the order of
strings, hexadecimal forms and hashes are constants. A hash is the text it is
of, except where the code treats a collision (`IdOf`). Numbers have the width of
the instance, with the overflow of the code. A result is a record of a value or
an error; a validation is the set of the codes of its diagnostics. The grammar of
`SourceText` is data, one parser reads it, and its recovery is the one of the
code.

## 3. The runs

Every run of `PROJECT.json` ends in less than five minutes with two workers.

| Run | Instance | What it shows |
|---|---|---|
| `output_solo` | one run, two files, every set of existing targets, eleven numbers of descriptors from too few to enough, 2 faults, killed anywhere; or 2 edits by another actor | the one-step publication is implemented (`KeepsPromise`), originals can be recovered, exhaustion is undone, no residue without a report |
| `output_pair` | two runs, two files, 1 fault | bundles do not mix; neither removes the other's files |
| `output_restart` | a run killed anywhere, the next has its process identifier; no failing call and no edit, with which the temporal check takes too long | originals survive; every run ends |
| `directories` | two runs on one path, three numbers of descriptors, 1 fault, 1 edit, crashes, a claim name left by an earlier run | a failed run takes away what it made, or says so; nothing of others is removed; what was published stays where its path leads |
| `work_root` | an output path of two names that exists, exists in part or is cut off by a file; a run of the router and one of the simulator; 2 faults, 2 changes, or one of each | an accepted work root is apart from the output; a removal takes what was made and nothing else |
| `release` | two publishers, 2 faults, crashes, loss of power; or one, 3 faults, 2 edits | the one-step namespace is implemented, a visible release survives the loss of power, reports are true, strangers stay, it ends |
| `runner` | both adapters; leader and one descendant, chunks up to the limit and one past it | output is whole; nothing is left; it ends |
| `checked_run` | three analyses, results shorter and longer than their failures, 2 faults | the budget is kept, evidence is complete, only what was checked is published |
| `source` | three trees and their texts; up to two tokens lost, doubled or replaced; every node dropped, doubled, every text changed; numbers of every form | what is accepted is what its tree is written as, one error hides no other, nothing declared is dropped, identities are located in their declarations, numbers are exact |
| `compile` | a voltage divider, bare or simulated, after every two of 32 edits | what is accepted can be emitted, nothing lowered loses its identity, drawings keep nets, the order of declaration means nothing |
| `simulation` | four designs, tables right and wrong by one thing, one replacement or failing call | success means that every assertion holds of what the authentic tool printed; right answers are taken; evidence is bound |
| `routing` | designs with a routing request, right and wrong routes, 2 replacements, upgrades or failing calls | a routed design connects its terminals; right routes come through; the request is the board; evidence is bound |

Why the bounds are enough. Entries of a bundle are treated alike and in order, so
two give every relation between an earlier and a later one (first published and
second not, and so on). A second run or publisher gives every race for a name
between two. `PublishedIsFound` is claimed for two runs only: a third one may make
the path anew while the directory has its claim name, and then it cannot be given
back. Two faults give a failing step and a failing step of its rollback; the third
one of `release` makes the report of that fail as well. Two edits replace a file
after it was identified and again after it was claimed. One inode more than can be
live lets a number come back. Three analyses are one before, one at and one after
the one that exhausts the budget. Two edits of a design are a change and one that
hides it or meets it. Every counter that bounds a run (`MaxFaults`, `MaxEdits`,
`MaxTrouble`, `MaxDamage`) is a constant and occurs only in guards of failures,
edits and replacements, never in a guard of the code. The `CONSTRAINT` of
`output_solo` leaves out edits together with few descriptors or two failing calls.
The small widths (`MaxCoefficient`, `MaxExponent`, `MaxIndex`, ...) keep the
relations of the code's: a coefficient is narrower than what conversions
calculate in, and every limit is exceeded by some input.

Fairness. A run is one thread that never waits for another (`output_restart`,
`release`): weak fairness of its own steps says that the scheduler lets it
go on, and holds of nothing else; editors and crashes have none. In `runner` the
runner's thread, its helper threads and the kernel delivering what is in a pipe
are weakly fair; the *tool* is not: it may hang, and the deadline has to do the
work. The deadline itself passes.

`CHECK_DEADLOCK FALSE` is in every configuration because a run of a command ends.

## 4. What is proved

Every theorem is proved from the named assumptions of the modules on their
constants (that a bound is a number, that "nobody" is not a process, ...), which
TLC evaluates in every run. The instance of a run is one value of the constants;
a theorem is about all of them.

`OutputTransactionProofs`, for every length of bundle, every set of runs and
process identifiers, every number of descriptors, faults and edits:

* `TypeCorrect`: `Spec => []TypeOK`.
* `RemovalIsSafe`: `Spec => RemovesOnlyItsOwn`. A step that removes a file removes
  one its run staged or displaced. The invariant that makes it inductive
  (`SafeInv`) relates a run's ledger to the file system: an inode named in the
  ledger is one the run holds open until the task about it is done, hence it
  is not allocated to anyone else, hence comparing identities is comparing files.
  Its parts beside the types: `StagedIsOwn` and `ProbeIsOwn` (what the ledger
  names is held, and was made by the run), `PidsApart` (live runs have different
  identifiers), `ProgressOK` (what each phase implies of the ledger) and
  `TasksOK` (what each task of a rollback or cleanup is about). Without the
  descriptors that the code keeps open for exactly that purpose the induction
  fails; when the claim is verified by its name instead (`VerifiedByName`), TLC finds
  a step that removes the file of another.
* `OriginalsAreKept`: `Spec => []OriginalsSurvive` when no other actor edits the
  targets (`MaxEdits = 0`): until some run has published all its entries, every
  original is somewhere on disk, under its name, a backup name or in a quarantine.

`OutputSoloProofs`, for a run that has the targets to itself (`Processes = {p}`), with
every length of bundle, every number of descriptors and of faults, killed anywhere:

* `RecoveryHolds`: `Spec => []OriginalsRecoverable`. Until the bundle is committed, every
  original is at its target, at its backup name or in the quarantine.
* `ExhaustionHolds`: `Spec => []ExhaustionIsClean`. If nothing fails but the supply of
  descriptors, no cleanup error is reported, wherever it runs out.
* `PublicationIsOneStep`: `Spec => KeepsPromise`. The transaction implements
  `BundlePublication`. `PromiseStep` says what one step is to those who wait for the
  result: a stutter until the outcome is known, then `Publish`, `Keep` or `Damage`.

  The invariant (`SoloInv`) follows one entry at a time and speaks of states nobody has
  edited. `LedgerAt` and `PlacedAt`: while the run goes forward, its ledger says where
  the original and the temporary of an entry are. `PhaseAt`: which entries have
  been staged, identified and displaced in each phase. `TasksAt` and `TaskAt`: during rollback and
  cleanup, what an open task is about is where the task will look for it, and no two
  tasks are about one name. `UndoAt`: an entry without a task is undone. `BudgetAt`: one
  descriptor is free for every step of a rollback, which is why exhaustion cannot stop
  it. `FaultlessAt`: without a fault no task fails. The parts need each other: between the
  claim of a file and its return neither the ledger nor the target says where it
  is, only the task does, and that the place it came from is still free follows from `PlacedAt`.

`OutputSharedProofs`, for every set of runs on the same targets, with faults, crashes and edits:

* `ResidueIsReported`: `Spec => []CleanLeavesNoResidue`. A run that reports no cleanup error
  has left no quarantine and none of its files under a staging name. `ResidueInv`
  says that what is under a staging name of a run whose identifier no other run has
  (`Alone`) is in the ledger of the run, and later the subject of one of its tasks
  (`StagingAt`, `TakenAt`, `TidyAt`), and that such names carry the identifier of a
  run (`StagingNames`).

* `BundlesHold`: `Spec => [](edits = 0 => BundlesDoNotMix)`. Until another actor edits a target
  (`OutputPair.cfg` has none), concurrent publications of a bundle that all end without
  a cleanup error are not interleaved. `OrderInv` holds of states in which nothing has happened that a
  run will have to report (`Quiet`; `Misled` is the case in which the error is certain but
  not yet recorded: the run has claimed, as its own, a file of another). It says that
  the runs that are done with displacing have an order, the one in which they entered
  the publishing loop, and that what a run has published (`Lasts`) is at the target or with a
  run that will put it back and comes later in the order (`Keeps`, `Located`), or that the same is
  true of what a later run that succeeded has published. The order is needed because a run may
  displace a half published bundle, and be displaced in its turn: when a run succeeds
  (`OrderStays`), what it had displaced is given up, and what it has published itself must
  stand in for it. When all have ended nobody keeps anything, so the bundle of the last
  run that succeeded is at the targets. `StagingInv` says what is under a temporary name.

`ReleasePublicationProofs`, for every tree, every set of publishers and every number of
failing calls, with crashes, failures of power and edits as the settings allow:

* `TypeCorrect`: `Spec => []TypeOK`.
* `ReportsHold`: `Spec => []ResultsAreTruthful`. An error means that nothing of the publisher's
  is visible, an error without an incomplete cleanup that nothing is left, and success
  without warnings that its release is there.
* `StrangersHold`: `Spec => StrangersArePreserved`. A node that another actor has put in the
  place of a staged one stays in its directory, under its name or another, until the power
  fails. Entries that were added, and take no staged node's place, are not judged.
* `PowerLossHolds`: `Spec => []SurvivesPowerLoss`, and
* `NamespaceHolds`: `Spec => ImplementsNamespace`, both when a publisher that may have to
  take back the container it made is alone (`SoleExpeller`). With company it is false, as
  section 5 describes; the settings of `Release.cfg` satisfy the premise.

  `PublisherInv` is about one publisher and its phase: where its staging directory is
  (`RootAt`), which container it holds (`ParentAt`), that a visible tree and the name
  that leads to it agree (`NamesAt`), and what may have been reported (`ReportAt`).
  `ContentsInv` says how much of the tree is written, listed and sealed in each phase, and
  that what is visible is complete and on disk (`Whole`): this is why a loss of power
  finds nothing half written. `FreshInv` keeps the container of a publisher that has not started
  apart from all others. `KeptInv` is the part that needs the premise: a container
  with a tree in it is under its name, and the name is on disk, because nobody else can rename
  it away after `SyncDestination`. `ShownInv` turns this into what the final name
  leads to, and `NamespaceStep` says what one step is to those who look at the final name: `Show` for the
  rename of a complete tree to a free name, `Report`, `LosePower` or `Disturb`, else a stutter.

`OutputDirectoriesProofs`, for every set of runs, every path and every number of
descriptors, faults and edits:

* `TypeCorrect`: `Spec => []TypeOK`.
* `RemovalHolds`: `Spec => RemovesOnlyMade`. No step takes away a directory the run
  did not make, or one in which something is.
* `FailureHolds`: `Spec => []FailureIsUndone`. A run that failed and reports no cleanup error
  has left none of its directories linked; one that is alone and meets no further
  failure leaves none under a claim name, even if it has no descriptor to authenticate a
  claim with, and if it has one it takes all of them away and reports nothing.
  The invariant (`IInv`) has a part for everything a record can be wrong about, for
  each run: where the walk stands (`WalkAt`); whose directory an identity is (`KnownAt`);
  that the claim name is free where a directory is made, and which identity may still be
  unknown (`FreshAt`); that every record is about a directory which is where the record
  says, and about another one than the rest (`PlacedAt`); that every directory the run made
  and that is still linked has a record (`RecordedAt`); that what is in them is the run's own
  if it is alone (`OwnAt`), so that it can remove them without a complaint (`OutcomeAt`, `CleanAt`); and that
  of its directories only the one whose turn it is has a claim name, and finds its own name free (`AsideAt`).
  `NamesInv` says of the file system that a directory has one name at most, and
  that one without a name is empty. Without `PlacedAt` it cannot be excluded that a claim
  finds a child of the directory it is about, and the removal of the last one first
  is what keeps it true.
* `FoundHolds`: `Spec => [](TwoRuns => PublishedIsFound)`. Of two runs, one that has published is
  where its path leads when both have ended, whatever the other took back.
  The invariant (`Found`) has a witness, the route of directories that the run went through
  (`Route`): each leads on to the next by its name or, as long as the other run holds it, by
  that run's claim name (`Leads`). Its last directory may be taken away while it is empty, but
  not the output directory, in which the run has files. No directory occurs twice on it, so that
  what the run makes in the last one breaks no link. With three runs it is false: while one run
  holds a directory under its claim name, and another publishes in it, a third one makes a
  directory under the free name, and the first cannot give its own back (section 5).

`WorkRootProofs`, for every set of directories and names, every output path, sequence of
runs and number of failures and changes by others:

* `TypeCorrect`: `Spec => []TypeOK`.
* `ApartHolds`: `Spec => []WorkRootIsApart`.
* `CleanupHolds`: `Spec => []CleanupIsExact`, with `InvariantHolds` (`Spec => []IInv`) behind all three.

  The code finds a directory again in two ways: by its number, while it is open, and by a
  path from "/". The invariant says what each is worth. `Tree`: the directories are a
  forest, whoever makes, removes or renames them. `Anchors`: the directories
  that are open and still linked lie along the output path below the last of them that somebody has
  renamed, so an open directory that lost its link never comes back under its number.
  `Kept`: while no directory above the work root was renamed, what the compilation made
  and did not remove is below the name of the work root, because every path it
  makes directories on goes through that name (`PathBelow`, `MakingOwn`); that is also
  true of a second work root that a tool adapter makes when the first one has been moved away.
  `Walked`: the second walk passed what the path passes, until somebody changes it, so the
  overlap check decides for the path itself; afterwards the runs cannot put the work root on the
  output path, since it is open and they only link new directories (`ChainNext`). `Removal`: the
  comparison holds until the removal, and the name is free after it. `Quiet`: while nobody
  else changes anything a walk that went well goes well again, the overlap check cannot fail, and
  the work root is empty when it is dropped after a refusal; so it takes a second
  failure to leave it behind. Every change of the file system is of one of three kinds (`Grown`,
  `Pruned`, `Shifted`), and each part is shown for the kinds, not for the actions.

  The lemmas about `Trail` are inductions over the length of a path, done with sets of numbers
  (`SetInduction`, from `WFMin` and `NatLessThanWellFounded`) because the induction
  theorems take an operator. TLC checks all parts of `IInv` on the instance of `WorkRoot.cfg`.

`ProcessRunnerProofs`, for every number of descendants, every limit, pipe and input:

* `TypeCorrect`: `Spec => []TypeOK`: no reader keeps more than the limit.
* `CaptureHolds`: `Spec => []CaptureIsWhole`. What the caller is given is all that was
  written, within the limit, of a tool that ended in time. The invariant relates what was
  written to what is in the pipe, with the reader and in the channel, and the flag of the limit to what
  was dropped.
* `NothingIsLeftHolds`: `Spec => []NothingIsLeft`. When the runner returns, the leader has been
  reaped, and when it refuses with a verdict that kills the group (`Kills`), no process of the
  group is left. Refusals that do not (a tool that does not start, a reader that fails) are not
  judged.

`CheckedRunProofs`, for every number of analyses and every length of result:

* `TypeCorrect`: `Spec => []TypeOK`.
* `BudgetHolds`: `Spec => []BudgetIsKept`. The strengthening says that between
  execution and evaluation both the held result and the resource failure of the
  same analysis fit beside what is reserved for those to come; the second is what
  `Replace` needs, when a result that fitted is exchanged for a failure.
* `ExhaustionHolds`: a resource failure in what is kept implies `exhausted`, and under
  `exhausted` what is held is one.
* `EvidenceHolds`: `Spec => []EvidenceIsComplete`: evidence has a result for every
  declared analysis, each of them executed, and a private directory that is left
  prevents the publication.
* `SuccessHolds`: `Spec => []SuccessIsChecked`.

Only model-checked. Liveness (`Terminates`) and whatever needs ENABLED are out of reach of
the prover. The properties of `source`, `compile`, `simulation` and `routing` are about
recursive functions on the texts, designs and tables of an instance; what they compute for every input
is an induction over data, and the library's induction theorems take an operator, which
the installed provers cannot instantiate. (What `Path` and `Trail` compute is proved by an
induction over a set of numbers, `SetInduction`, which needs no operator.)
What `ImplementsNamespace` and `SurvivesPowerLoss` say of settings outside `SoleExpeller`
is not claimed at all.

## 5. Observations

What the models showed of the code. Each is modelled as the code has it, and the
properties above say what holds besides.

*Two runs that both fail.* `docs/language.md:408` says "Transactional publication is
all-or-rollback for those emitted bytes". When two runs overlap, one may displace as
its backup what the other has just published. The first to roll back finds its file
gone from under the name, which counts as clean (`main.rs:2712`); the second puts its
backup back. Both report a complete rollback, and the target holds a file of a run
that failed. `OriginalsSurvive` and `RemovesOnlyItsOwn` hold nevertheless.

*A container that is taken away in use.* ADR-0013 (line 161) says the publisher "remains
correct under cooperating concurrent publisher calls". A publisher that has made the
container and then fails renames it away and removes it (`release/publish.rs:1320`).
Another publisher that holds it open may publish into it meanwhile, synchronize it and
report success, while the final name leads nowhere. The removal then fails, because the
directory is not empty, and it is put back under its name, unless that call fails or the
power does. With a third publisher that has made another container under the free name,
it cannot be put back, and the release that was reported stays out of sight. The runs
and theorems about the final name therefore let a publisher take back its container only
when it is alone (`SoleExpeller`).

*A published bundle out of sight.* The same can happen to a bundle: a run that fails renames
each directory it made to a claim name, finds that another run has published in it, and
gives it back without replacing anything (`main.rs:2818`). If a third run has made the
directory anew meanwhile, the published one stays under the claim name. The failing run reports
it, the one that has published does not. `PublishedIsFound` is therefore about two runs.

*A number that is used again.* The comment before `simulation/runner.rs:1092` says that a
negative identifier "targets only the process group created for this child". Once the
leader was reaped and the last descendant has ended, the number may belong to another
group when the runner sends its signal (`:1096`).

Output and directories:

* a file another actor puts at a target between identification and displacement
  stays under the hidden backup name after a failure, and is reported;
* before the transaction reserves descriptors, exhaustion leaves every directory
  the run has made, because no claim can be authenticated (reported), although
  `docs/language.md:426-429` says of the transaction that exhaustion cannot strand
  residue; it is the last premise of `FailureIsUndone`;
* the descriptor a created directory is identified by is not kept, as that of a file is:
  the identity may come back with another directory (`mistaken`);
* a run whose directory is under the claim name of another run at that moment
  takes it for gone; with an edit in between it comes back. `FailureIsUndone`
  therefore allows other runs, or an edit, but not both;
* the overlap of output and work root is decided from recorded identities: when a
  directory above either is renamed before the acceptance, the work root may be below
  the output (the premise `moved = {}` of `WorkRootIsApart`; `docs/language.md:395-397`
  promises "device/inode checks reject direct aliases and races");
* the directories of tool runs are made and removed by path, and a work root that
  somebody has moved away is made again; for the base of the simulator's runs only
  owner and mode are compared; a failed removal is tried once more by `Drop`, and
  reported as failed even if that succeeds;
* the private directories of a tool run are removed with the error ignored on one
  path (`simulation/runner.rs:253`), but what they leave makes the removal of the
  work root fail, and that is reported (`EvidenceIsComplete`);
* descendants of a tool that closed the pipes survive a successful run.

Designs, simulation and routing:

* an assertion about a ground net, or a net no simulated device is connected to, is
  accepted, but no answer of the simulator satisfies it;
* lengths may reach 10^12 nm, the database units of the router half of it: a valid
  design is refused when it is lowered (LOWER-001); a pad or track beyond the outline,
  two routed pads at one point, or more than 10,000 pads end there as well (LOWER-003);
* a valid design with a routing request can fail after the tool has run
  (IMPORT-009, PROJECTION-001);
* the import does not compare the geometry with the obstacles: that the route is
  admitted is believed of the authenticated tool. Signature and checksum of the
  geometry do not cover the width of its lines, and `bind_segments` does not compare nets;
* the router is authenticated by a provenance file that names its digest, and
  `authenticate_checked_compilation` takes the digest of the tool from the result itself;
* a replacement of the private copy that is undone before it is compared again is not
  modelled;
* `authenticate_checked_compilation` compares analysis paths in the order of
  declaration with bundles that are sorted; it refuses what it could accept, never
  the other way round.

Frontend:

* a variant, a manufacturability check or an assertion called `design.board.outline`
  takes the location of the outline, and a routing request whose path is a beginning of
  an identity's path takes that one's (compare EPIC-0002 line 131, CC-REQ-KICAD-006 line
  22); `design.schematic` never has a location. `IdentitiesAreLocated` says what does hold;
* a lost semicolon takes the next statement with it, with its block.

## 6. Not modelled, and the plan

Not modelled is listed component by component in `PROJECT.json`, with the
reason: the command line, the product catalog, product artifacts, manufacturing,
board analysis, the verification of a release before it is published, host tools,
schemas. Text formats, layout, hashes as such and third-party tools stay out.

Done: the modules of section 2, their runs, and the theorems of section 4: of the modules that
have proofs, every safety invariant, action property and refinement that a run checks is proved, and
liveness is left to TLC. What would come next is the verification of a release before it is published
(`release/bind.rs`), and the product catalog.
