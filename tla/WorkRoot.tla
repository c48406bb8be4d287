------------------------------- MODULE WorkRoot -------------------------------
(***************************************************************************)
(* The private directories of a compilation: the work root                 *)
(* (CompilerWorkRoot, cmd/circuitc/main.rs), made beside the output        *)
(* directory and removed before anything is published, and in it the       *)
(* directories of the runs of the router and the simulator                 *)
(* (ScopedWorkDirectory, src/routing/runner.rs, src/simulation/runner.rs). *)
(*                                                                         *)
(* The work root is known by descriptors, the directories of the runs by   *)
(* their paths.  Meanwhile another process of the user makes, removes and  *)
(* renames directories.  Files in a private directory count as an entry    *)
(* of it; the directories home and tmp of a run are a part of it.          *)
(***************************************************************************)
EXTENDS Naturals, SequencesExt

CONSTANTS
  Dirs,        \* inode numbers of directories
  Top,         \* the directory "/"
  NoDir,       \* what a free name leads to
  Thing,       \* what is no directory: a file or a symbolic link
  Names,
  OutputPath,  \* the names from "/" to the output directory
  WorkNames,   \* the names that may be drawn for the work root
  RunnerName,  \* circuitc-ohmnivore-work
  ScopeNames,  \* ScopeNames[k]: the k-th name for the directory of a run
  Runs,        \* the runs of tools, in their order
  MaxTries,    \* draws of a name
  MaxFaults,   \* bound: calls that fail
  MaxTrouble   \* bound: these and the changes made by the other process, together

\* ("/" itself has no place beside it and is refused.)
ASSUME WorkRootAssumption ==
  /\ Top \in Dirs /\ NoDir \notin Dirs /\ Thing \notin Dirs /\ Thing # NoDir
  /\ OutputPath \in Seq(Names) /\ Len(OutputPath) > 0
  /\ WorkNames \subseteq Names /\ RunnerName \in Names /\ ScopeNames \in Seq(Names)
  /\ Runs \in Seq({"route", "simulate"})
  /\ MaxTries \in Nat /\ MaxFaults \in Nat /\ MaxTrouble \in Nat

VARIABLES
  entry,     \* entry[d][n]: what the name n in d leads to
  mode,      \* mode[d]: of the caller alone, readable by others, or not to be trusted
  pc,
  ids,       \* the walk: the identities from "/" to the directory held open
  ancestry,  \* the identities from "/" to the parent of the work root
  name,      \* its name
  root,      \* the directory that is known as the work root
  tries,
  runs,      \* runs that have begun
  drawn,     \* names for directories of runs that have been drawn
  attempt,   \* 1: cleanup, 2: what Drop does
  outcome,
  mine,      \* directories this compilation has made
  moved,     \* directories the other process has renamed
  late,      \* it has changed something since the last comparison began
  faults, edits
files == <<entry, mode, mine, moved>>
own == <<ancestry, name, root, tries>>
env == <<late, edits>>
vars == <<files, pc, ids, own, runs, drawn, attempt, outcome, env, faults>>

Modes == {"private", "shared", "unsafe"}
TypeOK ==
  /\ entry \in [Dirs -> [Names -> Dirs \cup {NoDir, Thing}]] /\ mode \in [Dirs -> Modes]
  /\ pc \in {"walk", "make", "open", "validate", "again", "overlap", "ready", "scope", "run",
             "runner", "emptied", "compare", "remove", "done"}
  /\ ids \in Seq(Dirs) /\ ancestry \in Seq(Dirs)
  /\ name \in Names /\ root \in Dirs \cup {NoDir} /\ tries \in 0 .. MaxTries
  /\ runs \in 0 .. Len(Runs) /\ drawn \in 0 .. Len(ScopeNames)
  /\ attempt \in 1 .. 2 /\ outcome \in {"none", "refused", "removed", "failed"}
  /\ mine \subseteq Dirs /\ moved \subseteq Dirs
  /\ late \in BOOLEAN /\ faults \in Nat /\ edits \in Nat

(* A part of the output path exists, and one of its directories may be     *)
(* writable by anybody; what comes next may be a file.                     *)
Init ==
  /\ \E k \in 0 .. Len(OutputPath) : \E chain \in [0 .. k -> Dirs] :
       /\ chain[0] = Top /\ IsInjective(chain)
       /\ \E next \in {NoDir, Thing} :
            entry = [d \in Dirs |-> [n \in Names |->
                       IF \E i \in 0 .. k - 1 : chain[i] = d /\ OutputPath[i + 1] = n
                       THEN chain[1 + CHOOSE i \in 0 .. k - 1 : chain[i] = d]
                       ELSE IF k < Len(OutputPath) /\ d = chain[k] /\ n = OutputPath[k + 1]
                            THEN next ELSE NoDir]]
       /\ \E weak \in SUBSET {chain[i] : i \in 0 .. k} :
            /\ Cardinality(weak) <= 1
            /\ mode = [d \in Dirs |-> IF d \in weak THEN "unsafe" ELSE "shared"]
  /\ pc = "walk" /\ ids = <<Top>>
  /\ ancestry = <<>> /\ name = RunnerName /\ root = NoDir /\ tries = 0
  /\ runs = 0 /\ drawn = 0 /\ attempt = 1 /\ outcome = "none"
  /\ mine = {} /\ moved = {} /\ late = FALSE /\ faults = 0 /\ edits = 0

-----------------------------------------------------------------------------
(* The file system.                                                        *)

(* While a path is walked, the last directory of it is held open.          *)
Walking == pc \in {"walk", "again"}
Depth == Len(ids) - 1
Complete == Depth = Len(OutputPath)
Here == Last(ids)

Linked(d) == d = Top \/ \E c \in Dirs, n \in Names : entry[c][n] = d
Empty(d) == \A n \in Names : entry[d][n] = NoDir
(* What is below a directory, itself included: what is in every set that   *)
(* it is in and that has the directories in its directories.               *)
Closed(S) == \A c \in S, n \in Names : entry[c][n] \in Dirs => entry[c][n] \in S
Below(d) ==
  LET closed == {S \in SUBSET Dirs : d \in S /\ Closed(S)}
  IN  {e \in Dirs : \A S \in closed : e \in S}

(* A path is followed name by name, and leads to what is at its end.       *)
Follow(d, n) == IF d \in Dirs THEN entry[d][n] ELSE d
Trail(path) ==
  LET at[k \in 0 .. Len(path)] == IF k = 0 THEN Top ELSE Follow(at[k - 1], path[k])
  IN  at
Lookup(path) == Trail(path)[Len(path)]

(* A directory that is held open keeps its inode number: of a path only    *)
(* the last that was opened, and the one before it when it is the last; the *)
(* parent of the work root, and the work root.                             *)
Held ==
  {root} \cup (IF Walking THEN {Here} ELSE {})
         \cup (IF Walking /\ Complete THEN {ids[Depth]} ELSE {})
         \cup (IF ancestry # <<>> THEN {Last(ancestry)} ELSE {})
Free == {d \in Dirs : ~Linked(d) /\ d \notin Held}

Failing(calls) ==
  faults + calls <= MaxFaults /\ faults + calls + edits <= MaxTrouble /\ faults' = faults + calls
Charge == Failing(1)
Because(condition) == (condition /\ UNCHANGED faults) \/ Charge

Link(d, n, e) == entry' = [entry EXCEPT ![d][n] = e]
Forget(d) == moved' = moved \ {d}
Mkdir(d, n, e) ==
  /\ Linked(d) /\ entry[d][n] = NoDir /\ e \in Free
  /\ Link(d, n, e) /\ mine' = mine \cup {e} /\ Forget(e)
  /\ mode' = [mode EXCEPT ![e] = "private"]
CanRmdir(d, n) == entry[d][n] \in Dirs /\ Empty(entry[d][n])
Release(gone) ==
  /\ mode' = [d \in Dirs |-> IF d \in gone \ Held THEN "shared" ELSE mode[d]]
  /\ mine' = mine \ gone /\ moved' = moved \ gone
Rmdir(d, n) == Link(d, n, NoDir) /\ Release({entry[d][n]})
RemoveAll(gone) ==
  /\ entry' = [d \in Dirs |-> [n \in Names |->
                 IF d \in gone \/ entry[d][n] \in gone THEN NoDir ELSE entry[d][n]]]
  /\ Release(gone)

-----------------------------------------------------------------------------
(* The walk (validate_existing_output_directory), before and after the     *)
(* work root is made.                                                      *)

Trusted(d) == mode[d] # "unsafe"
Ahead == entry[Here][OutputPath[Depth + 1]]
AtEnd == Complete \/ Ahead = NoDir

End(code) == pc' = "done" /\ outcome' = code
(* Once the work root is known, an error drops it, which removes it if     *)
(* that can be done.                                                       *)
Refuse ==
  IF pc = "walk" THEN End("refused") /\ UNCHANGED attempt
  ELSE pc' = "runner" /\ outcome' = "refused" /\ attempt' = 2

Descend ==
  /\ Walking /\ ~Complete /\ Trusted(Here) /\ Ahead \in Dirs
  /\ ids' = Append(ids, Ahead)
  /\ UNCHANGED <<files, pc, own, runs, drawn, attempt, outcome, env, faults>>

WalkFails ==
  /\ Walking
  /\ Because(~Trusted(Here) \/ (~Complete /\ Ahead = Thing))
  /\ Refuse
  /\ UNCHANGED <<files, ids, own, runs, drawn, env>>

(* The work root is made beside the output directory, or beside what is    *)
(* missing of its path.                                                    *)
Siblings == IF Complete THEN Front(ids) ELSE ids

FindParent ==
  /\ pc = "walk" /\ Trusted(Here) /\ AtEnd = TRUE
  /\ ancestry' = Siblings /\ ids' = <<Top>>
  /\ pc' = "make"
  /\ UNCHANGED <<files, name, root, tries, runs, drawn, attempt, outcome, env, faults>>

-----------------------------------------------------------------------------
(* The work root (create_with_parent).                                     *)

Parent == Last(ancestry)
WorkPath(n) == Append(SubSeq(OutputPath, 1, Len(ancestry) - 1), n)

(* A name that cannot be told from the output directory is refused, one    *)
(* that is taken is drawn again.                                           *)
Draw(n) ==
  /\ pc = "make" /\ ~IsPrefix(WorkPath(n), OutputPath) /\ ~IsPrefix(OutputPath, WorkPath(n))
  /\ tries < MaxTries /\ name' = n
  /\ \/ /\ entry[Parent][n] = NoDir
        /\ \E d \in Free : Mkdir(Parent, n, d)
        /\ pc' = "open" /\ UNCHANGED tries
     \/ /\ entry[Parent][n] # NoDir
        /\ tries' = tries + 1 /\ UNCHANGED <<files, pc>>
  /\ UNCHANGED <<ids, ancestry, root, runs, drawn, attempt, outcome, env, faults>>

DrawFails ==
  /\ pc = "make"
  /\ Because(\/ tries = MaxTries \/ ~Linked(Parent)
             \/ \E n \in WorkNames : IsPrefix(WorkPath(n), OutputPath)
                                       \/ IsPrefix(OutputPath, WorkPath(n)))
  /\ End("refused")
  /\ UNCHANGED <<files, ids, own, runs, drawn, attempt, env>>

Made == entry[Parent][name]

Open ==
  /\ pc = "open" /\ Made \in Dirs
  /\ root' = Made /\ pc' = "validate"
  /\ UNCHANGED <<files, ids, ancestry, name, tries, runs, drawn, attempt, outcome, env, faults>>

(* What was made is removed by its name.                                   *)
OpenFails ==
  /\ pc = "open" /\ End("refused")
  /\ \/ CanRmdir(Parent, name) /\ Charge /\ Rmdir(Parent, name)
     \/ /\ ~CanRmdir(Parent, name) /\ Because(Made \notin Dirs) /\ UNCHANGED files
     \/ Failing(2) /\ UNCHANGED files
  /\ UNCHANGED <<ids, own, runs, drawn, attempt, env>>

Validate ==
  /\ pc = "validate" /\ mode[root] = "private" /\ pc' = "again"
  /\ late' = FALSE
  /\ UNCHANGED <<files, ids, own, runs, drawn, attempt, outcome, edits, faults>>

ValidateFails ==
  /\ pc = "validate" /\ Because(mode[root] # "private")
  /\ Refuse
  /\ UNCHANGED <<files, ids, own, runs, drawn, env>>

(* The output has been walked again.                                       *)
WalkEnds ==
  /\ pc = "again" /\ Trusted(Here) /\ AtEnd = TRUE
  /\ pc' = "overlap"
  /\ UNCHANGED <<files, ids, own, runs, drawn, attempt, outcome, env, faults>>

(* A mutant: only an output around the work root is an overlap.            *)
OverlapsAround == Complete /\ Here \in ToSet(ancestry)

Overlaps == root \in ToSet(ids) \/ (Complete /\ Here \in {root} \cup ToSet(ancestry))

Accept ==
  /\ pc = "overlap" /\ ~Overlaps /\ pc' = "ready" /\ ids' = <<Top>>
  /\ UNCHANGED <<files, own, runs, drawn, attempt, outcome, env, faults>>

Reject ==
  /\ pc = "overlap" /\ Overlaps /\ Refuse /\ ids' = <<Top>>
  /\ UNCHANGED <<files, own, runs, drawn, env, faults>>

-----------------------------------------------------------------------------
(* The directories of the runs.                                            *)

Base == IF Runs[runs] = "route" THEN WorkPath(name) ELSE Append(WorkPath(name), RunnerName)
Scope == Append(Base, ScopeNames[drawn])

BeginRun ==
  /\ pc = "ready" /\ runs < Len(Runs)
  /\ runs' = runs + 1 /\ pc' = "scope"
  /\ UNCHANGED <<files, ids, own, drawn, attempt, outcome, env, faults>>

(* A route that fails ends the compilation, an analysis does not.          *)
EndRun == pc' = "ready"
FailRun == pc' = IF Runs[runs] = "route" THEN "runner" ELSE "ready"

(* The directories of a path that are missing are made.                    *)
MakeAll(path) ==
  \E known \in 0 .. Len(path) - 1 : \E fresh \in [known + 1 .. Len(path) -> Free] :
    LET from == Trail(path)[known]
        holder(k) == IF k = known + 1 THEN from ELSE fresh[k - 1]
        new == {fresh[k] : k \in DOMAIN fresh}
    IN  /\ from \in Dirs /\ Trail(path)[known + 1] = NoDir
        /\ IsInjective(fresh)
        /\ entry' = [d \in Dirs |-> [n \in Names |->
                       IF \E k \in DOMAIN fresh : holder(k) = d /\ path[k] = n
                       THEN fresh[CHOOSE k \in DOMAIN fresh : holder(k) = d] ELSE entry[d][n]]]
        /\ mine' = mine \cup new /\ moved' = moved \ new
        /\ mode' = [d \in Dirs |-> IF d \in new THEN "private" ELSE mode[d]]

(* What is found where the directories of the runs belong; that is made if *)
(* it is missing.                                                          *)
PrepareBase ==
  /\ pc = "scope" /\ Lookup(Base) = NoDir
  /\ MakeAll(Base)
  /\ UNCHANGED <<pc, ids, own, runs, drawn, attempt, outcome, env, faults>>

OpenScope ==
  LET base == Lookup(Base) IN
  /\ pc = "scope" /\ drawn < Len(ScopeNames) /\ base \in Dirs /\ mode[base] = "private"
  /\ drawn' = drawn + 1
  /\ IF entry[base][ScopeNames[drawn']] # NoDir THEN UNCHANGED <<files, pc>>
     ELSE pc' = "run" /\ \E d \in Free : Mkdir(base, ScopeNames[drawn'], d)
  /\ UNCHANGED <<ids, own, runs, attempt, outcome, env, faults>>

(* A part of the path may have been made, and the directory may be left    *)
(* behind, when its directories home and tmp cannot be made and it cannot  *)
(* be removed.                                                             *)
OpenScopeFails ==
  LET base == Lookup(Base) IN
  /\ pc = "scope"
  /\ \/ /\ Because(base = Thing \/ (base \in Dirs /\ mode[base] # "private"))
        /\ UNCHANGED <<files, drawn>>
     \/ /\ base = NoDir /\ Charge /\ UNCHANGED drawn
        /\ \E k \in 0 .. Len(Base) - 1 : MakeAll(SubSeq(Base, 1, k))
     \/ /\ base \in Dirs /\ drawn < Len(ScopeNames) /\ entry[base][ScopeNames[drawn + 1]] = NoDir
        /\ Failing(2) /\ drawn' = drawn + 1
        /\ \E d \in Free : Mkdir(base, ScopeNames[drawn'], d)
  /\ FailRun
  /\ UNCHANGED <<ids, own, runs, attempt, outcome, env>>

(* The tool is run, and the directory removed with all that is in it.      *)
CloseScope ==
  LET scope == Lookup(Scope) IN
  /\ pc = "run" /\ scope \in Dirs
  /\ RemoveAll(Below(scope))
  /\ EndRun \/ FailRun
  /\ UNCHANGED <<ids, own, runs, drawn, attempt, outcome, env, faults>>

(* Some of it may have been removed.                                       *)
CloseScopeFails ==
  LET scope == Lookup(Scope) IN
  /\ pc = "run"
  /\ \/ Because(scope \notin Dirs) /\ UNCHANGED files
     \/ /\ scope \in Dirs /\ Charge
        /\ \E gone \in SUBSET (Below(scope) \ {scope}) : Closed(gone) /\ RemoveAll(gone)
  /\ FailRun
  /\ UNCHANGED <<ids, own, runs, drawn, attempt, outcome, env>>

-----------------------------------------------------------------------------
(* The removal (remove_owned_directory).  An error of it is reported, and  *)
(* the work root dropped, so that everything is tried once more.           *)

Finish ==
  /\ pc = "ready" /\ pc' = "runner"
  /\ UNCHANGED <<files, ids, own, runs, drawn, attempt, outcome, env, faults>>

Stuck ==
  IF attempt = 1 THEN pc' = "runner" /\ attempt' = 2 /\ outcome' = "failed"
  ELSE pc' = "done" /\ UNCHANGED <<attempt, outcome>>

Runner == entry[root][RunnerName]

CheckRunner ==
  /\ pc = "runner"
  /\ \/ Runner = NoDir /\ pc' = "compare"
     \/ Runner \in Dirs /\ mode[Runner] = "private" /\ pc' = "emptied"
  /\ UNCHANGED <<files, ids, own, runs, drawn, attempt, outcome, env, faults>>

CheckRunnerFails ==
  /\ pc = "runner"
  /\ Because(Runner = Thing \/ (Runner \in Dirs /\ mode[Runner] # "private"))
  /\ Stuck
  /\ UNCHANGED <<files, ids, own, runs, drawn, env>>

RemoveRunner ==
  /\ pc = "emptied" /\ CanRmdir(root, RunnerName)
  /\ Rmdir(root, RunnerName) /\ pc' = "compare"
  /\ UNCHANGED <<ids, own, runs, drawn, attempt, outcome, env, faults>>

RemoveRunnerFails ==
  /\ pc = "emptied" /\ Because(~CanRmdir(root, RunnerName))
  /\ Stuck
  /\ UNCHANGED <<files, ids, own, runs, drawn, env>>

(* A mutant: the name may lead to any directory.                           *)
IsDirectory == Made \in Dirs
IsWorkRoot == Made \in Dirs /\ Made = root

Compare ==
  /\ pc = "compare" /\ IsWorkRoot /\ pc' = "remove" /\ late' = FALSE
  /\ UNCHANGED <<files, ids, own, runs, drawn, attempt, outcome, edits, faults>>

CompareFails ==
  /\ pc = "compare" /\ Because(~IsWorkRoot)
  /\ Stuck
  /\ UNCHANGED <<files, ids, own, runs, drawn, env>>

RemoveRoot ==
  /\ pc = "remove" /\ CanRmdir(Parent, name)
  /\ Rmdir(Parent, name)
  /\ pc' = "done" /\ outcome' = IF attempt = 1 THEN "removed" ELSE outcome
  /\ UNCHANGED <<ids, own, runs, drawn, attempt, env, faults>>

RemoveRootFails ==
  /\ pc = "remove" /\ Because(~CanRmdir(Parent, name))
  /\ Stuck
  /\ UNCHANGED <<files, ids, own, runs, drawn, env>>

-----------------------------------------------------------------------------
(* The other process.                                                      *)

OtherMakes(d, n) ==
  /\ entry[d][n] = NoDir
  /\ \/ Link(d, n, Thing) /\ UNCHANGED <<mode, mine, moved>>
     \/ \E e \in Free, m \in {"private", "unsafe"} :
          Link(d, n, e) /\ mode' = [mode EXCEPT ![e] = m] /\ mine' = mine \ {e} /\ Forget(e)
OtherRemoves(d, n) == (CanRmdir(d, n) \/ entry[d][n] = Thing) /\ Rmdir(d, n)
OtherMoves(d, n) ==
  LET e == entry[d][n] IN
  /\ e \in Dirs
  /\ \E to \in Dirs \ Below(e), m \in Names :
       /\ Linked(to) /\ entry[to][m] = NoDir
       /\ entry' = [c \in Dirs |-> [k \in Names |->
                      IF c = d /\ k = n THEN NoDir ELSE IF c = to /\ k = m THEN e ELSE entry[c][k]]]
  /\ moved' = moved \cup {e}
  /\ UNCHANGED <<mode, mine>>

Interfere ==
  /\ pc # "done" /\ faults + edits < MaxTrouble /\ edits' = edits + 1 /\ late' = TRUE
  /\ \E d \in Dirs, n \in Names :
       Linked(d) /\ (OtherMakes(d, n) \/ OtherRemoves(d, n) \/ OtherMoves(d, n))
  /\ UNCHANGED <<pc, ids, own, runs, drawn, attempt, outcome, faults>>

Walk == Descend \/ WalkFails \/ FindParent \/ WalkEnds
Create ==
  \/ \E n \in WorkNames : Draw(n)
  \/ DrawFails \/ Open \/ OpenFails \/ Validate \/ ValidateFails \/ Accept \/ Reject
Run ==
  \/ BeginRun \/ PrepareBase \/ OpenScope \/ OpenScopeFails \/ CloseScope \/ CloseScopeFails
CleanUp ==
  \/ Finish \/ CheckRunner \/ CheckRunnerFails \/ RemoveRunner \/ RemoveRunnerFails
  \/ Compare \/ CompareFails \/ RemoveRoot \/ RemoveRootFails

Next == Walk \/ Create \/ Run \/ CleanUp \/ Interfere
Spec == Init /\ [][Next]_vars

-----------------------------------------------------------------------------
(* Properties.                                                             *)

(* What the output path leads through.                                     *)
OutputChain == {Trail(OutputPath)[k] : k \in 0 .. Len(OutputPath)}

(* "Post-creation lexical and device/inode checks reject direct aliases    *)
(* and races" (docs/language.md): once the work root is accepted, and      *)
(* until the other process changes something, the output path does not     *)
(* lead to it or through it, even if the work root was renamed to the name *)
(* of the output before; and unless a directory has been renamed it is not *)
(* below the output directory.                                             *)
WorkRootIsApart ==
  pc = "ready" /\ ~late =>
    /\ root \notin OutputChain
    /\ moved = {} /\ Lookup(OutputPath) \in Dirs => root \notin Below(Lookup(OutputPath))

(* Directories of the compilation that are where it has put them.          *)
Leftover == {d \in mine : Linked(d) /\ \A m \in moved : d \notin Below(m)}

(* "Cleanup ... verifies the created identity instead of recursively       *)
(* deleting an unbound pathname, and removes the empty runner root and     *)
(* compiler root before publication.  Unexpected contents fail cleanup":   *)
(* what is about to be removed as the work root is the directory that was  *)
(* accepted, unless it was replaced since the comparison; a removal that   *)
(* succeeds has left nothing of the compilation, unless somebody has       *)
(* renamed a directory above; and a creation in which one call fails       *)
(* leaves nothing.                                                         *)
CleanupIsExact ==
  /\ pc = "remove" /\ ~late => Made = root
  /\ outcome = "removed" /\ moved \cap ToSet(ancestry) = {} => Leftover = {}
  /\ pc = "done" /\ outcome = "refused" /\ edits = 0 /\ faults <= 1 => Leftover = {}

=============================================================================
