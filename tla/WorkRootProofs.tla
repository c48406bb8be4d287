--------------------------- MODULE WorkRootProofs ---------------------------
(***************************************************************************)
(* Theorems about WorkRoot, for any file system, output path, number of    *)
(* runs, failures and changes by others.                                   *)
(*                                                                         *)
(* The proofs follow the directories the compilation holds open (Anchors), *)
(* since the code goes by their numbers where it can and by names where it *)
(* cannot; the rest says what the names are worth.                         *)
(***************************************************************************)
EXTENDS WorkRoot, TLAPS, WellFoundedInduction

-----------------------------------------------------------------------------
(* Naturals.                                                               *)

(* A set of naturals that is not empty has a least element.                *)
LEMMA LeastNatural ==
  ASSUME NEW T, T \subseteq Nat, T # {}
  PROVE  \E x \in T : \A y \in T : x <= y
<1>1. IsWellFoundedOn(OpToRel(<,Nat), Nat)
  BY NatLessThanWellFounded
<1>2. \E x \in T : \A y \in T : ~ (<<y, x>> \in OpToRel(<,Nat))
  BY <1>1, WFMin
<1>3. ASSUME NEW x \in Nat, NEW y \in Nat, ~ (<<y, x>> \in OpToRel(<,Nat))
      PROVE  x <= y
  <2>1. ~(y < x)
    BY <1>3, Zenon DEF OpToRel
  <2> QED BY <2>1
<1> QED BY <1>2, <1>3

(* A set of naturals with 0 and the successor of each of its elements has  *)
(* them all. The library states induction for a predicate; this form needs *)
(* none.                                                                   *)
LEMMA SetInduction ==
  ASSUME NEW S, 0 \in S, \A n \in Nat : n \in S => n + 1 \in S
  PROVE  Nat \subseteq S
<1>1. SUFFICES ASSUME Nat \ S # {} PROVE FALSE
  OBVIOUS
<1>2. PICK x \in Nat \ S : \A y \in Nat \ S : x <= y
  BY <1>1, LeastNatural
<1>3. x # 0 /\ x - 1 \in Nat
  BY <1>2
<1>4. x - 1 \in S
  BY <1>2, <1>3
<1>5. (x - 1) + 1 = x
  BY <1>3
<1> QED BY <1>2, <1>3, <1>4, <1>5

-----------------------------------------------------------------------------
(* The state.                                                              *)

(* What a name may lead to, and the directories as they are at every step. *)
Targets == Dirs \cup {NoDir, Thing}
Links == entry \in [Dirs -> [Names -> Targets]]
(* The phases in which the work root is open (main.rs, WorkRoot).          *)
Late == {"validate", "again", "overlap", "ready", "scope", "run",
         "runner", "emptied", "compare", "remove"}

(* The type, and which variables go with which phase: the parent is known  *)
(* after the first walk, the work root once it is open, and its name is    *)
(* not the one by which the output path goes on.                           *)
Shape ==
  /\ TypeOK
  /\ ids # <<>> /\ Len(ids) <= Len(OutputPath) + 1 /\ ids[1] = Top
  /\ ancestry # <<>> => ancestry[1] = Top /\ Len(ancestry) <= Len(OutputPath)
  /\ pc \notin {"walk", "done"} => ancestry # <<>>
  /\ pc = "walk" => ancestry = <<>>
  /\ pc \in Late => root \in Dirs
  /\ root \in Dirs \/ pc = "open" => ancestry # <<>> /\ name # OutputPath[Len(ancestry)]
  /\ pc \in {"walk", "make"} => mine = {} /\ root = NoDir
  /\ pc \in {"make", "open", "validate"} => ids = <<Top>>
  /\ ancestry = <<>> => mine = {}
  /\ pc \in {"scope", "run"} => runs \in 1 .. Len(Runs)
  /\ pc = "run" => drawn \in 1 .. Len(ScopeNames)
  /\ pc \in {"walk", "make", "open", "validate", "again", "overlap", "ready", "scope", "run"} =>
       outcome = "none"

(* The file system is a forest under "/": a directory has one link and is  *)
(* not below itself, and what has no link is empty.                        *)
Tree ==
  /\ \A c \in Dirs, d \in Dirs, m \in Names, n \in Names :
       entry[c][m] = entry[d][n] /\ entry[c][m] \in Dirs => c = d /\ m = n
  /\ \A c \in Dirs, n \in Names : entry[c][n] # Top
  /\ \A c \in Dirs, n \in Names : entry[c][n] \in Dirs => c \notin Below(entry[c][n])
  /\ \A d \in Dirs : ~Linked(d) => Empty(d)

(* The directories s[j], s[j+1], ... follow each other along the output    *)
(* path.                                                                   *)
InPlace(s, j) == \A i \in j .. Len(s) - 1 : entry[s[i]][OutputPath[i]] = s[i + 1]
(* A chain of open directories, as long as its last one has a link: what   *)
(* is below the last of them that somebody renamed is still in its place.  *)
Anchored(s) ==
  Linked(Last(s)) => \E j \in 1 .. Len(s) : (j = 1 \/ s[j] \in moved) /\ InPlace(s, j)

(* What the compilation holds open: the walk, the parent of the work root, *)
(* and the work root, which has its name until it is renamed.              *)
Anchors ==
  /\ pc = "walk" => Anchored(ids) /\ (Complete => Anchored(Front(ids)))
  /\ ancestry # <<>> => Anchored(ancestry)
  /\ root \in Dirs /\ Linked(root) => root \in moved \/ Made = root

(* No directory above the work root was renamed or removed.                *)
Undisturbed == ancestry # <<>> /\ Linked(Parent) /\ moved \cap ToSet(ancestry) = {}
(* Then all that the compilation made and did not remove is below the name *)
(* of the work root.                                                       *)
Kept ==
  Undisturbed => \A d \in Leftover : Made \in Dirs /\ d \in Below(Made)

(* What the second walk found is still there when nobody has changed       *)
(* anything since, and so is the result of the overlap check.              *)
Walked ==
  /\ pc \in {"again", "overlap"} /\ ~late =>
       /\ \A k \in 0 .. Len(ids) - 1 : ids[k + 1] = Trail(OutputPath)[k]
       /\ pc = "overlap" /\ ~Complete => Trail(OutputPath)[Len(ids)] = NoDir
  /\ pc \in {"ready", "scope", "run"} /\ ~late => root \notin OutputChain

(* The comparison before the removal holds as long as nobody else changed  *)
(* anything; after it the name is free.                                    *)
Removal ==
  /\ pc = "remove" /\ ~late => Made = root
  /\ outcome = "removed" =>
       pc = "done" /\ ancestry # <<>> /\ Linked(Parent) /\ Made = NoDir

(* Nobody else has changed anything: the output path passes directories    *)
(* that can be trusted,                                                    *)
Clear ==
  \A k \in 0 .. Len(OutputPath) :
    LET d == Trail(OutputPath)[k] IN d = NoDir \/ (d \in Dirs /\ Trusted(d))
(* and the parent of the work root is on it.                               *)
Placed == Clear /\ \A k \in 0 .. Len(ancestry) - 1 : ancestry[k + 1] = Trail(OutputPath)[k]
(* The walk has passed directories that can be trusted, those of the       *)
(* output path.                                                            *)
Passed ==
  \A k \in 0 .. Len(ids) - 1 :
    ids[k + 1] = Trail(OutputPath)[k] /\ (k < Depth => Trusted(ids[k + 1]))
(* A directory that was made for the work root and not used yet.           *)
Fresh(d) == d \in Dirs /\ Made = d /\ mode[d] = "private" /\ Empty(d) /\ mine = {d}
(* The work root is being removed after a refusal.                         *)
Dropping == outcome = "refused" /\ pc # "done"
(* While nobody else has changed anything, a walk that went well goes well *)
(* again, and the work root is all that was made when the compilation      *)
(* refuses.                                                                *)
Quiet ==
  edits = 0 =>
    /\ moved = {} /\ ~late
    /\ pc = "walk" => Passed
    /\ pc \in {"make", "open", "validate", "again", "overlap"} => Placed
    /\ pc = "open" => Fresh(Made)
    /\ pc \in {"validate", "again", "overlap"} \/ Dropping => Fresh(root)
    /\ Dropping => faults >= 1 /\ attempt = 2 /\ pc \in {"runner", "compare", "remove"}
    /\ outcome = "refused" /\ pc = "done" /\ faults <= 1 => mine = {}

(* The inductive invariant.                                                *)
IInv == Shape /\ Tree /\ Anchors /\ Kept /\ Walked /\ Removal /\ Quiet

-----------------------------------------------------------------------------
(* Paths.                                                                  *)

(* The recursive function Trail satisfies its equation: it follows a path  *)
(* from "/" one name at a time, as every open by path does.                *)
LEMMA TrailSteps ==
  Links =>
    \A path \in Seq(Names) :
      /\ Trail(path)[0] = Top
      /\ \A k \in 1 .. Len(path) : Trail(path)[k] = Follow(Trail(path)[k - 1], path[k])
<1> SUFFICES ASSUME Links, NEW path \in Seq(Names)
             PROVE  /\ Trail(path)[0] = Top
                    /\ \A k \in 1 .. Len(path) :
                         Trail(path)[k] = Follow(Trail(path)[k - 1], path[k])
  OBVIOUS
<1> DEFINE S == {n \in Nat : n <= Len(path) =>
                   \E f \in [0 .. n -> Targets] :
                     f[0] = Top /\ \A k \in 1 .. n : f[k] = Follow(f[k - 1], path[k])}
<1> DEFINE Len0 == Len(path)
<1>0. Len0 \in Nat /\ Top \in Targets
  BY WorkRootAssumption DEF Targets
<1>1. 0 \in S
  <2> DEFINE f == [k \in 0 .. 0 |-> Top]
  <2>1. f \in [0 .. 0 -> Targets] /\ f[0] = Top
    BY <1>0
  <2> HIDE DEF f
  <2> QED BY <2>1
<1>2. ASSUME NEW n \in Nat, n \in S PROVE n + 1 \in S
  <2> SUFFICES ASSUME n + 1 <= Len(path)
               PROVE  \E f \in [0 .. n + 1 -> Targets] :
                        f[0] = Top /\ \A k \in 1 .. n + 1 : f[k] = Follow(f[k - 1], path[k])
    OBVIOUS
  <2>1. PICK f \in [0 .. n -> Targets] :
          f[0] = Top /\ \A k \in 1 .. n : f[k] = Follow(f[k - 1], path[k])
    BY <1>0, <1>2
  <2> DEFINE g == [k \in 0 .. n + 1 |-> IF k <= n THEN f[k] ELSE Follow(f[n], path[n + 1])]
  <2>2. path[n + 1] \in Names
    BY <1>0
  <2>3. Follow(f[n], path[n + 1]) \in Targets
    BY <2>1, <2>2 DEF Follow, Targets, Links
  <2>4. g \in [0 .. n + 1 -> Targets]
    BY <2>1, <2>3
  <2>5. g[0] = Top /\ g[n + 1] = Follow(f[n], path[n + 1]) /\ \A k \in 0 .. n : g[k] = f[k]
    BY <2>1
  <2> HIDE DEF g
  <2>6. ASSUME NEW k \in 1 .. n + 1 PROVE g[k] = Follow(g[k - 1], path[k])
    <3>1. CASE k <= n
      BY <3>1, <2>1, <2>5
    <3>2. CASE k = n + 1
      BY <3>2, <2>5
    <3> QED BY <3>1, <3>2
  <2> QED BY <2>4, <2>5, <2>6
<1>3. Len0 \in S
  <2> HIDE DEF S
  <2> QED BY <1>0, <1>1, <1>2, SetInduction
<1>4. PICK f \in [0 .. Len0 -> Targets] :
        f[0] = Top /\ \A k \in 1 .. Len0 : f[k] = Follow(f[k - 1], path[k])
  BY <1>0, <1>3
<1>5. f = [k \in 0 .. Len(path) |-> IF k = 0 THEN Top ELSE Follow(f[k - 1], path[k])]
  BY <1>4, <1>0
<1>6. Trail(path) =
        [k \in 0 .. Len(path) |->
           IF k = 0 THEN Top ELSE Follow(Trail(path)[k - 1], path[k])]
  BY <1>5, Zenon DEF Trail
<1> HIDE DEF Len0
<1>7. 0 \in 0 .. Len(path) /\ \A k \in 1 .. Len(path) : k \in 0 .. Len(path) /\ k # 0
  BY <1>0 DEF Len0
<1>8. \A k \in 0 .. Len(path) : Trail(path)[k] = IF k = 0 THEN Top ELSE Follow(Trail(path)[k - 1], path[k])
  BY <1>6, Zenon
<1> QED BY <1>7, <1>8

(* What a path leads to is a directory, a file or nothing.                 *)
LEMMA TrailTyped ==
  Links => \A path \in Seq(Names) : \A k \in 0 .. Len(path) : Trail(path)[k] \in Targets
<1> SUFFICES ASSUME Links, NEW path \in Seq(Names)
             PROVE  \A k \in 0 .. Len(path) : Trail(path)[k] \in Targets
  OBVIOUS
<1> DEFINE S == {k \in Nat : k <= Len(path) => Trail(path)[k] \in Targets}
<1>1. 0 \in S
  BY TrailSteps, WorkRootAssumption DEF Targets
<1>2. ASSUME NEW k \in Nat, k \in S PROVE k + 1 \in S
  <2> SUFFICES ASSUME k + 1 <= Len(path) PROVE Trail(path)[k + 1] \in Targets
    OBVIOUS
  <2>1. k + 1 \in 1 .. Len(path) /\ (k + 1) - 1 = k
    OBVIOUS
  <2>2. Trail(path)[k + 1] = Follow(Trail(path)[k], path[k + 1])
    BY <2>1, TrailSteps
  <2>3. path[k + 1] \in Names /\ Trail(path)[k] \in Targets
    BY <1>2, <2>1
  <2> QED BY <2>2, <2>3 DEF Follow, Targets, Links
<1> HIDE DEF S
<1>3. Nat \subseteq S
  BY <1>1, <1>2, SetInduction
<1> QED BY <1>3 DEF S

(* One step of a trail, in the form the proofs use it.                     *)
TrailLaw ==
  Links => \A path \in Seq(Names) :
    /\ Trail(path)[0] = Top
    /\ \A k \in Nat : k < Len(path) =>
         /\ Trail(path)[k] \in Targets /\ Trail(path)[k + 1] \in Targets
         /\ path[k + 1] \in Names
         /\ Trail(path)[k] \in Dirs => Trail(path)[k + 1] = entry[Trail(path)[k]][path[k + 1]]
         /\ Trail(path)[k] \notin Dirs => Trail(path)[k + 1] = Trail(path)[k]
(* The law of one step holds.                                              *)
LEMMA TrailNext == TrailLaw
<1> SUFFICES ASSUME Links, NEW path \in Seq(Names), NEW k \in Nat, k < Len(path)
             PROVE  /\ Trail(path)[k] \in Targets /\ Trail(path)[k + 1] \in Targets
                    /\ path[k + 1] \in Names
                    /\ Trail(path)[k] \in Dirs =>
                         Trail(path)[k + 1] = entry[Trail(path)[k]][path[k + 1]]
                    /\ Trail(path)[k] \notin Dirs => Trail(path)[k + 1] = Trail(path)[k]
  BY TrailSteps DEF TrailLaw
<1>1. k \in 0 .. Len(path) /\ k + 1 \in 0 .. Len(path) /\ k + 1 \in 1 .. Len(path) /\ (k + 1) - 1 = k
  OBVIOUS
<1>2. Trail(path)[k + 1] = Follow(Trail(path)[k], path[k + 1])
  BY <1>1, TrailSteps
<1>3. path[k + 1] \in Names
  BY <1>1
<1> QED BY <1>1, <1>2, <1>3, TrailTyped DEF Follow

(* A chain of links from "/" is the trail of the path it spells: this ties *)
(* the directories a walk has open to the path it walked.                  *)
LEMMA TrailFollows ==
  Links => \A path \in Seq(Names), s \in Seq(Dirs) :
    /\ s # <<>> /\ s[1] = Top
    /\ \A i \in 1 .. Len(s) - 1 : i <= Len(path) => entry[s[i]][path[i]] = s[i + 1]
    => \A k \in 0 .. Len(s) - 1 : k <= Len(path) => Trail(path)[k] = s[k + 1]
<1> SUFFICES ASSUME Links, NEW path \in Seq(Names), NEW s \in Seq(Dirs),
                    s # <<>>, s[1] = Top,
                    \A i \in 1 .. Len(s) - 1 : i <= Len(path) => entry[s[i]][path[i]] = s[i + 1]
             PROVE  \A k \in 0 .. Len(s) - 1 : k <= Len(path) => Trail(path)[k] = s[k + 1]
  OBVIOUS
<1> DEFINE S == {k \in Nat : k < Len(s) /\ k <= Len(path) => Trail(path)[k] = s[k + 1]}
<1>1. 0 \in S
  BY TrailNext DEF TrailLaw
<1>2. ASSUME NEW k \in Nat, k \in S PROVE k + 1 \in S
  <2> SUFFICES ASSUME k + 1 < Len(s), k + 1 <= Len(path) PROVE Trail(path)[k + 1] = s[(k + 1) + 1]
    OBVIOUS
  <2>1. Trail(path)[k] = s[k + 1] /\ s[k + 1] \in Dirs /\ k < Len(path)
    BY <1>2
  <2>2. Trail(path)[k + 1] = entry[s[k + 1]][path[k + 1]]
    BY <2>1, TrailNext DEF TrailLaw
  <2>3. k + 1 \in 1 .. Len(s) - 1
    OBVIOUS
  <2> QED BY <2>2, <2>3
<1> HIDE DEF S
<1>3. Nat \subseteq S
  BY <1>1, <1>2, SetInduction
<1> QED BY <1>3 DEF S

-----------------------------------------------------------------------------
(* What is below a directory.                                              *)

BelowLaw ==
  \A d \in Dirs :
    /\ d \in Below(d) /\ Below(d) \subseteq Dirs /\ Closed(Below(d))
    /\ \A S \in SUBSET Dirs : d \in S /\ Closed(S) => Below(d) \subseteq S
(* Below(d) is the least closed set with d in it.                          *)
LEMMA BelowFacts == BelowLaw
<1> SUFFICES ASSUME NEW d \in Dirs
             PROVE  /\ d \in Below(d) /\ Below(d) \subseteq Dirs /\ Closed(Below(d))
                    /\ \A S \in SUBSET Dirs : d \in S /\ Closed(S) => Below(d) \subseteq S
  BY DEF BelowLaw
<1>1. Below(d) \subseteq Dirs /\ d \in Below(d)
  BY DEF Below
<1>2. \A S \in SUBSET Dirs : d \in S /\ Closed(S) => Below(d) \subseteq S
  BY DEF Below
<1>3. ASSUME NEW c \in Below(d), NEW n \in Names, entry[c][n] \in Dirs
      PROVE  entry[c][n] \in Below(d)
  <2> SUFFICES ASSUME NEW S \in SUBSET Dirs, d \in S, Closed(S) PROVE entry[c][n] \in S
    BY <1>3 DEF Below
  <2>1. c \in S
    BY <1>2
  <2> QED BY <2>1, <1>3 DEF Closed
<1> QED BY <1>1, <1>2, <1>3 DEF Closed

(* What is below something below d is below d.                             *)
LEMMA BelowBelow ==
  \A d \in Dirs : \A e \in Below(d) : Below(e) \subseteq Below(d)
BY BelowFacts DEF BelowLaw

(* Every directory below another one has a link from there.                *)
LEMMA BelowLinked ==
  \A d \in Dirs : \A e \in Below(d) :
    e = d \/ \E c \in Below(d), n \in Names : entry[c][n] = e
<1> SUFFICES ASSUME NEW d \in Dirs
             PROVE  \A e \in Below(d) :
                      e = d \/ \E c \in Below(d), n \in Names : entry[c][n] = e
  OBVIOUS
<1> DEFINE S == {e \in Below(d) : e = d \/ \E c \in Below(d), n \in Names : entry[c][n] = e}
<1>1. S \in SUBSET Dirs /\ d \in S
  BY BelowFacts DEF BelowLaw
<1>2. Closed(S)
  BY BelowFacts DEF Closed, BelowLaw
<1> HIDE DEF S
<1>3. Below(d) \subseteq S
  BY <1>1, <1>2, BelowFacts DEF BelowLaw
<1> QED BY <1>3 DEF S

(* What a path leads to is below all that it passes.                       *)
LEMMA TrailBelow ==
  Links => \A path \in Seq(Names) : \A i, j \in 0 .. Len(path) :
    i <= j /\ Trail(path)[j] \in Dirs =>
      Trail(path)[i] \in Dirs /\ Trail(path)[j] \in Below(Trail(path)[i])
<1> SUFFICES ASSUME Links, NEW path \in Seq(Names), NEW i \in 0 .. Len(path)
             PROVE  \A j \in 0 .. Len(path) : i <= j /\ Trail(path)[j] \in Dirs =>
                      Trail(path)[i] \in Dirs /\ Trail(path)[j] \in Below(Trail(path)[i])
  OBVIOUS
<1> DEFINE S == {j \in Nat : j <= Len(path) /\ i <= j /\ Trail(path)[j] \in Dirs =>
                   Trail(path)[i] \in Dirs /\ Trail(path)[j] \in Below(Trail(path)[i])}
<1>1. 0 \in S
  BY BelowFacts DEF BelowLaw
<1>2. ASSUME NEW j \in Nat, j \in S PROVE j + 1 \in S
  <2> SUFFICES ASSUME j + 1 <= Len(path), i <= j + 1, Trail(path)[j + 1] \in Dirs
               PROVE  /\ Trail(path)[i] \in Dirs
                      /\ Trail(path)[j + 1] \in Below(Trail(path)[i])
    OBVIOUS
  <2>1. CASE i = j + 1
    BY <2>1, BelowFacts DEF BelowLaw
  <2>2. CASE i <= j
    <3>1. j < Len(path)
      OBVIOUS
    <3>2. /\ Trail(path)[j] \in Dirs /\ path[j + 1] \in Names
          /\ Trail(path)[j + 1] = entry[Trail(path)[j]][path[j + 1]]
      BY <3>1, TrailNext DEF TrailLaw
    <3>3. Trail(path)[i] \in Dirs /\ Trail(path)[j] \in Below(Trail(path)[i])
      BY <1>2, <2>2, <3>1, <3>2
    <3> QED BY <3>2, <3>3, BelowFacts DEF Closed, BelowLaw
  <2> QED BY <2>1, <2>2
<1> HIDE DEF S
<1>3. Nat \subseteq S
  BY <1>1, <1>2, SetInduction
<1> QED BY <1>3 DEF S

(* A path never passes a directory twice.                                  *)
LEMMA TrailInjective ==
  Links /\ Tree => \A path \in Seq(Names) : \A i, j \in 0 .. Len(path) :
    i < j /\ Trail(path)[j] \in Dirs => Trail(path)[i] # Trail(path)[j]
<1> SUFFICES ASSUME Links, Tree, NEW path \in Seq(Names), NEW i \in 0 .. Len(path),
                    NEW j \in 0 .. Len(path), i < j, Trail(path)[j] \in Dirs
             PROVE  Trail(path)[i] # Trail(path)[j]
  OBVIOUS
<1>1. i + 1 \in 0 .. Len(path) /\ i + 1 <= j /\ i <= j /\ i \in Nat /\ i < Len(path)
  OBVIOUS
<1>2. Trail(path)[i] \in Dirs /\ Trail(path)[i + 1] \in Dirs
  BY <1>1, TrailBelow
<1>3. Trail(path)[j] \in Below(Trail(path)[i + 1])
  BY <1>1, TrailBelow
<1>4. path[i + 1] \in Names /\ Trail(path)[i + 1] = entry[Trail(path)[i]][path[i + 1]]
  BY <1>1, <1>2, TrailNext DEF TrailLaw
<1>5. Trail(path)[i] \notin Below(Trail(path)[i + 1])
  BY <1>2, <1>4 DEF Tree
<1> QED BY <1>3, <1>5

(* What a path leads to has a link.                                        *)
LEMMA TrailLinked ==
  Links => \A path \in Seq(Names) : \A k \in 0 .. Len(path) :
    Trail(path)[k] \in Dirs => Linked(Trail(path)[k])
<1> SUFFICES ASSUME Links, NEW path \in Seq(Names), NEW k \in 0 .. Len(path), k # 0,
                    Trail(path)[k] \in Dirs
             PROVE  Linked(Trail(path)[k])
  BY TrailNext DEF TrailLaw, Linked
<1>1. k - 1 \in 0 .. Len(path) /\ k - 1 \in Nat /\ k - 1 < Len(path) /\ k - 1 <= k /\ (k - 1) + 1 = k
  OBVIOUS
<1>2. Trail(path)[k - 1] \in Dirs
  BY <1>1, TrailBelow
<1> QED BY <1>1, <1>2, TrailNext DEF TrailLaw, Linked

-----------------------------------------------------------------------------
(* What a step leaves of trails.                                           *)

(* Without a change of the links every path leads where it led.            *)
LEMMA TrailSame == entry' = entry => \A path \in Seq(Names) : Trail(path)' = Trail(path)
BY DEF Trail, Follow

(* Without a change of the links the same directories are below each.      *)
LEMMA BelowSame == entry' = entry => \A d : Below(d)' = Below(d)
BY DEF Below, Closed

(* When the only new links lead to directories that are empty, a path      *)
(* leads where it led, or to one of them.                                  *)
LEMMA TrailSub ==
  ASSUME Links, Links', NEW F, \A f \in F, n \in Names : f \in Dirs /\ entry[f][n] \notin Dirs,
         \A c \in Dirs, n \in Names :
           entry'[c][n] \in Dirs => entry'[c][n] = entry[c][n] \/ entry'[c][n] \in F,
         NEW path \in Seq(Names)
  PROVE  \A k \in 0 .. Len(path) :
           Trail(path)'[k] \in Dirs => Trail(path)'[k] = Trail(path)[k] \/ Trail(path)'[k] \in F
<1> DEFINE S == {k \in Nat : k <= Len(path) /\ Trail(path)'[k] \in Dirs =>
                   Trail(path)'[k] = Trail(path)[k] \/ Trail(path)'[k] \in F}
<1>0. TrailLaw'
  BY TrailNext, PTL
<1>1. 0 \in S
  BY <1>0, TrailNext DEF TrailLaw
<1>2. ASSUME NEW k \in Nat, k \in S PROVE k + 1 \in S
  <2> SUFFICES ASSUME k + 1 <= Len(path), Trail(path)'[k + 1] \in Dirs
               PROVE  Trail(path)'[k + 1] = Trail(path)[k + 1] \/ Trail(path)'[k + 1] \in F
    OBVIOUS
  <2>1. k < Len(path) /\ path[k + 1] \in Names
    OBVIOUS
  <2>2. /\ Trail(path)'[k] \in Dirs
        /\ Trail(path)'[k + 1] = entry'[Trail(path)'[k]][path[k + 1]]
    BY <1>0, <2>1 DEF TrailLaw
  <2>3. Trail(path)'[k] = Trail(path)[k] \/ Trail(path)'[k] \in F
    BY <1>2, <2>1, <2>2
  <2>4. Trail(path)[k] \in Dirs => Trail(path)[k + 1] = entry[Trail(path)[k]][path[k + 1]]
    BY <2>1, TrailNext DEF TrailLaw
  <2> QED BY <2>1, <2>2, <2>3, <2>4
<1> HIDE DEF S
<1>3. Nat \subseteq S
  BY <1>1, <1>2, SetInduction
<1> QED BY <1>3 DEF S

(* When no link to a directory is lost, a path leads where it led.         *)
LEMMA TrailKept ==
  ASSUME Links, Links',
         \A c \in Dirs, n \in Names : entry[c][n] \in Dirs => entry'[c][n] = entry[c][n],
         NEW path \in Seq(Names)
  PROVE  \A k \in 0 .. Len(path) : Trail(path)[k] \in Dirs => Trail(path)'[k] = Trail(path)[k]
<1> DEFINE S == {k \in Nat : k <= Len(path) /\ Trail(path)[k] \in Dirs =>
                   Trail(path)'[k] = Trail(path)[k]}
<1>0. TrailLaw'
  BY TrailNext, PTL
<1>1. 0 \in S
  BY <1>0, TrailNext DEF TrailLaw
<1>2. ASSUME NEW k \in Nat, k \in S PROVE k + 1 \in S
  <2> SUFFICES ASSUME k + 1 <= Len(path), Trail(path)[k + 1] \in Dirs
               PROVE  Trail(path)'[k + 1] = Trail(path)[k + 1]
    OBVIOUS
  <2>1. k < Len(path) /\ path[k + 1] \in Names
    OBVIOUS
  <2>2. Trail(path)[k] \in Dirs /\ Trail(path)[k + 1] = entry[Trail(path)[k]][path[k + 1]]
    BY <2>1, TrailNext DEF TrailLaw
  <2>3. Trail(path)'[k] = Trail(path)[k]
    BY <1>2, <2>1, <2>2
  <2>4. Trail(path)'[k + 1] = entry'[Trail(path)'[k]][path[k + 1]]
    BY <1>0, <2>1, <2>2, <2>3 DEF TrailLaw
  <2> QED BY <2>1, <2>2, <2>3, <2>4
<1> HIDE DEF S
<1>3. Nat \subseteq S
  BY <1>1, <1>2, SetInduction
<1> QED BY <1>3 DEF S

-----------------------------------------------------------------------------
(* The kinds of changes the actions make: directories F that nothing led   *)
(* to are linked, those in S are removed, or e is renamed.                 *)

(* The kinds of changes the actions make: directories F that nothing led   *)
(* to are linked (mkdir),                                                  *)
Grown(F) ==
  /\ F \subseteq Free
  /\ \A c \in Dirs, n \in Names : entry[c][n] \in Dirs => entry'[c][n] = entry[c][n]
  /\ \A c \in Dirs, n \in Names :
       entry'[c][n] \in Dirs => entry'[c][n] = entry[c][n] \/ entry'[c][n] \in F
  /\ moved' = moved \ F

(* those in S are removed with all that is below them (rmdir,              *)
(* remove_dir_all),                                                        *)
Pruned(S) ==
  /\ S \subseteq Dirs /\ Closed(S) /\ Top \notin S
  /\ \A c \in Dirs, n \in Names :
       entry'[c][n] = IF c \in S \/ entry[c][n] \in S THEN NoDir ELSE entry[c][n]
  /\ moved' = moved \ S /\ mine' = mine \ S

(* or a directory e is renamed (by another process).                       *)
ShiftedLink(e, d, n, to, m) ==
  /\ d \in Dirs /\ n \in Names /\ to \in Dirs /\ m \in Names
  /\ e \in Dirs /\ entry[d][n] = e /\ to \notin Below(e) /\ Linked(to) /\ entry[to][m] = NoDir
  /\ \A c \in Dirs, k \in Names :
       entry'[c][k] = IF c = d /\ k = n THEN NoDir
                      ELSE IF c = to /\ k = m THEN e ELSE entry[c][k]
  /\ moved' = moved \cup {e} /\ mine' = mine
Shifted(e) == \E d, n, to, m : ShiftedLink(e, d, n, to, m)

(* What is below a directory after a step is in every set that is closed   *)
(* then.                                                                   *)
LEMMA BelowNext ==
  ASSUME NEW x \in Dirs, NEW S \in SUBSET Dirs, x \in S,
         \A a \in S, b \in Names : entry'[a][b] \in Dirs => entry'[a][b] \in S
  PROVE  Below(x)' \subseteq S
<1>1. BelowLaw'
  BY BelowFacts, PTL
<1> QED BY <1>1 DEF BelowLaw, Closed

(* A directory nothing leads to is empty, not "/" and not the work root.   *)
LEMMA FreeFacts ==
  Links /\ Tree => \A e \in Free :
    /\ e \in Dirs /\ e # Top /\ e # root
    /\ \A n \in Names : entry[e][n] = NoDir
    /\ \A c \in Dirs, n \in Names : entry[c][n] # e
BY DEF Free, Tree, Linked, Empty, Held

(* A directory that is made keeps the forest.                              *)
LEMMA TreeAdd ==
  ASSUME Links, Links', Tree, NEW d \in Dirs, NEW n \in Names, NEW e \in Free,
         Linked(d), entry[d][n] = NoDir,
         entry' = [entry EXCEPT ![d][n] = e]
  PROVE  Tree'
<1>0. BelowLaw' /\ BelowLaw /\ NoDir \notin Dirs
  BY BelowFacts, PTL, WorkRootAssumption
<1>1. /\ e \in Dirs /\ e # Top /\ e # d
      /\ \A k \in Names : entry[e][k] = NoDir
      /\ \A c \in Dirs, k \in Names : entry[c][k] # e
  BY FreeFacts DEF Linked
<1>2. \A c \in Dirs, k \in Names : entry'[c][k] = IF c = d /\ k = n THEN e ELSE entry[c][k]
  BY DEF Links
<1>3. \A c1 \in Dirs, c2 \in Dirs, k1 \in Names, k2 \in Names :
        entry'[c1][k1] = entry'[c2][k2] /\ entry'[c1][k1] \in Dirs => c1 = c2 /\ k1 = k2
  BY <1>1, <1>2 DEF Tree
<1>4. \A c \in Dirs, k \in Names : entry'[c][k] # Top
  BY <1>1, <1>2 DEF Tree
<1>5. ASSUME NEW c \in Dirs, NEW k \in Names, entry'[c][k] \in Dirs
      PROVE  c \notin Below(entry[c][k])'
  <2>1. CASE c = d /\ k = n
    <3>1. \A b \in Names : entry'[e][b] \notin Dirs
      BY <1>0, <1>1, <1>2
    <3>2. {e} \in SUBSET Dirs /\ \A a \in {e}, b \in Names : entry'[a][b] \in Dirs => entry'[a][b] \in {e}
      BY <3>1, <1>1
    <3>3. Below(e)' \subseteq {e}
      BY <3>2, <1>1, BelowNext
    <3> QED BY <3>3, <2>1, <1>1, <1>2
  <2>2. CASE ~(c = d /\ k = n)
    <3>1. PICK x \in Dirs, B \in SUBSET Dirs :
            x = entry[c][k] /\ entry'[c][k] = x /\ B = Below(x)
      BY <2>2, <1>0, <1>2, <1>5 DEF BelowLaw
    <3>2. c \notin B /\ c # e /\ x \in B
      BY <3>1, <1>0, <1>1 DEF Tree, BelowLaw
    <3>3. \A a \in B \cup {e}, b \in Names :
            entry'[a][b] \in Dirs => entry'[a][b] \in B \cup {e}
      BY <3>1, <1>0, <1>1, <1>2 DEF Closed, BelowLaw
    <3>4. B \cup {e} \in SUBSET Dirs /\ x \in B \cup {e}
      BY <3>2, <1>1
    <3>5. Below(x)' \subseteq B \cup {e}
      BY <3>3, <3>4, BelowNext
    <3> QED BY <3>1, <3>2, <3>5
  <2> QED BY <2>1, <2>2
<1>6. ASSUME NEW y \in Dirs, ~Linked(y)' PROVE Empty(y)'
  <2>1. ~Linked(y)
    BY <1>0, <1>2, <1>6 DEF Linked
  <2>2. Empty(y) /\ y # d
    BY <2>1 DEF Tree
  <2> QED BY <2>2, <1>2 DEF Empty
<1> QED BY <1>3, <1>4, <1>5, <1>6 DEF Tree

(* A file that is made or removed keeps the forest.                        *)
LEMMA TreePlain ==
  ASSUME Links, Links', Tree, NEW d \in Dirs, NEW n \in Names, Linked(d),
         entry[d][n] \notin Dirs, entry'[d][n] \notin Dirs,
         \A c \in Dirs, k \in Names : ~(c = d /\ k = n) => entry'[c][k] = entry[c][k]
  PROVE  Tree'
<1>0. BelowLaw' /\ BelowLaw /\ NoDir \notin Dirs /\ Top \in Dirs
  BY BelowFacts, PTL, WorkRootAssumption
<1>1. \A c \in Dirs, k \in Names :
        /\ entry'[c][k] \in Dirs => entry'[c][k] = entry[c][k]
        /\ entry[c][k] \in Dirs => entry'[c][k] = entry[c][k]
  OBVIOUS
<1>2. \A c1 \in Dirs, c2 \in Dirs, k1 \in Names, k2 \in Names :
        entry'[c1][k1] = entry'[c2][k2] /\ entry'[c1][k1] \in Dirs => c1 = c2 /\ k1 = k2
  BY <1>1 DEF Tree
<1>3. \A c \in Dirs, k \in Names : entry'[c][k] # Top
  BY <1>0, <1>1 DEF Tree
<1>4. ASSUME NEW c \in Dirs, NEW k \in Names, entry'[c][k] \in Dirs
      PROVE  c \notin Below(entry[c][k])'
  <2>1. PICK x \in Dirs, B \in SUBSET Dirs :
          x = entry[c][k] /\ entry'[c][k] = x /\ B = Below(x)
    BY <1>0, <1>1, <1>4 DEF BelowLaw
  <2>2. c \notin B /\ x \in B
    BY <2>1, <1>0 DEF Tree, BelowLaw
  <2>3. \A a \in B, b \in Names : entry'[a][b] \in Dirs => entry'[a][b] \in B
    BY <2>1, <1>0, <1>1 DEF Closed, BelowLaw
  <2>4. Below(x)' \subseteq B
    BY <2>2, <2>3, BelowNext
  <2> QED BY <2>1, <2>2, <2>4
<1>5. ASSUME NEW y \in Dirs, ~Linked(y)' PROVE Empty(y)'
  <2>1. ~Linked(y)
    BY <1>1, <1>5 DEF Linked
  <2>2. Empty(y) /\ y # d
    BY <2>1 DEF Tree
  <2> QED BY <2>2 DEF Empty
<1> QED BY <1>2, <1>3, <1>4, <1>5 DEF Tree

(* A removal keeps the forest.                                             *)
LEMMA TreePruned ==
  ASSUME Links, Links', Tree, NEW S, Pruned(S)
  PROVE  Tree'
<1>0. BelowLaw' /\ BelowLaw /\ NoDir \notin Dirs /\ Top \in Dirs
  BY BelowFacts, PTL, WorkRootAssumption
<1>1. \A c \in Dirs, k \in Names :
        /\ entry'[c][k] \in Dirs => entry'[c][k] = entry[c][k]
        /\ entry'[c][k] \in {entry[c][k], NoDir}
  BY <1>0 DEF Pruned
<1>2. \A c1 \in Dirs, c2 \in Dirs, k1 \in Names, k2 \in Names :
        entry'[c1][k1] = entry'[c2][k2] /\ entry'[c1][k1] \in Dirs => c1 = c2 /\ k1 = k2
  BY <1>1 DEF Tree
<1>3. \A c \in Dirs, k \in Names : entry'[c][k] # Top
  BY <1>0, <1>1 DEF Tree
<1>4. ASSUME NEW c \in Dirs, NEW k \in Names, entry'[c][k] \in Dirs
      PROVE  c \notin Below(entry[c][k])'
  <2>1. PICK x \in Dirs, B \in SUBSET Dirs :
          x = entry[c][k] /\ entry'[c][k] = x /\ B = Below(x)
    BY <1>0, <1>1, <1>4 DEF BelowLaw
  <2>2. c \notin B /\ x \in B
    BY <2>1, <1>0 DEF Tree, BelowLaw
  <2>3. \A a \in B, b \in Names : entry'[a][b] \in Dirs => entry'[a][b] \in B
    BY <2>1, <1>0, <1>1 DEF Closed, BelowLaw
  <2>4. Below(x)' \subseteq B
    BY <2>2, <2>3, BelowNext
  <2> QED BY <2>1, <2>2, <2>4
<1>5. ASSUME NEW y \in Dirs, ~Linked(y)' PROVE Empty(y)'
  <2>1. CASE y \in S
    BY <2>1 DEF Empty, Pruned
  <2>2. CASE y \notin S
    <3>1. y # Top
      BY <1>5 DEF Linked
    <3>2. ASSUME NEW c \in Dirs, NEW k \in Names, entry[c][k] = y PROVE FALSE
      <4>1. c \notin S
        BY <3>2, <2>2 DEF Pruned, Closed
      <4>2. entry'[c][k] = y
        BY <4>1, <3>2, <2>2 DEF Pruned
      <4> QED BY <4>2, <1>5 DEF Linked
    <3>3. Empty(y)
      BY <3>1, <3>2 DEF Tree, Linked
    <3> QED BY <3>3, <1>1 DEF Empty
  <2> QED BY <2>1, <2>2
<1> QED BY <1>2, <1>3, <1>4, <1>5 DEF Tree

(* An empty directory is removed as a set of one.                          *)
LEMMA RmdirPrunes ==
  ASSUME Links, Tree, mine \subseteq Dirs, moved \subseteq Dirs,
         NEW d \in Dirs, NEW n \in Names, CanRmdir(d, n), Rmdir(d, n)
  PROVE  Pruned({entry[d][n]})
<1>1. entry[d][n] \in Dirs /\ entry[d][n] # Top /\ NoDir \notin Dirs
      /\ \A k \in Names : entry[entry[d][n]][k] = NoDir
  BY WorkRootAssumption DEF CanRmdir, Empty, Tree
<1>2. PICK e \in Dirs : e = entry[d][n]
  BY <1>1
<1>3. \A c \in Dirs, k \in Names : entry[c][k] = e => c = d /\ k = n
  BY <1>2 DEF Tree
<1>4. \A c \in Dirs, k \in Names :
        entry'[c][k] = IF c = d /\ k = n THEN NoDir ELSE entry[c][k]
  BY DEF Rmdir, Link, Links
<1>5. \A c \in Dirs, k \in Names :
        entry'[c][k] = IF c \in {e} \/ entry[c][k] \in {e} THEN NoDir ELSE entry[c][k]
  BY <1>1, <1>2, <1>3, <1>4
<1>6. Closed({e})
  BY <1>1, <1>2 DEF Closed
<1> QED BY <1>1, <1>2, <1>5, <1>6 DEF Pruned, Rmdir, Release

(* A rename keeps the forest: nothing is moved below itself.               *)
LEMMA TreeShifted ==
  ASSUME Links, Links', Tree, NEW e, Shifted(e)
  PROVE  Tree'
<1>0. BelowLaw' /\ BelowLaw /\ NoDir \notin Dirs /\ Top \in Dirs
  BY BelowFacts, PTL, WorkRootAssumption
<1>1. PICK d, n, to, m : ShiftedLink(e, d, n, to, m)
  BY DEF Shifted
<1>2. /\ d \in Dirs /\ n \in Names /\ to \in Dirs /\ m \in Names /\ e \in Dirs
      /\ entry[d][n] = e /\ entry[to][m] = NoDir /\ to \notin Below(e) /\ Linked(to)
      /\ \A c \in Dirs, k \in Names :
           entry'[c][k] = IF c = d /\ k = n THEN NoDir
                          ELSE IF c = to /\ k = m THEN e ELSE entry[c][k]
  BY <1>1 DEF ShiftedLink
<1>3. /\ e # Top /\ entry'[to][m] = e /\ ~(to = d /\ m = n)
      /\ \A c \in Dirs, k \in Names : entry[c][k] = e => c = d /\ k = n
      /\ \A c \in Dirs, k \in Names : entry'[c][k] = e => c = to /\ k = m
  BY <1>0, <1>2 DEF Tree
<1>4. \A c \in Dirs, k \in Names :
        /\ entry'[c][k] \in Dirs => entry'[c][k] = entry[c][k] \/ (c = to /\ k = m)
        /\ entry'[c][k] \in {entry[c][k], NoDir, e}
  BY <1>0, <1>2
<1>5. \A c1 \in Dirs, c2 \in Dirs, k1 \in Names, k2 \in Names :
        entry'[c1][k1] = entry'[c2][k2] /\ entry'[c1][k1] \in Dirs => c1 = c2 /\ k1 = k2
  BY <1>3, <1>4, <1>2 DEF Tree
<1>6. \A c \in Dirs, k \in Names : entry'[c][k] # Top
  BY <1>0, <1>3, <1>4 DEF Tree
<1>7. PICK E \in SUBSET Dirs : E = Below(e)
  BY <1>0, <1>2 DEF BelowLaw
<1>8. /\ e \in E /\ to \notin E
      /\ \A a \in E, b \in Names : entry[a][b] \in Dirs => entry[a][b] \in E
  BY <1>0, <1>2, <1>7 DEF BelowLaw, Closed
<1>9. \A a \in E, b \in Names : entry'[a][b] \in Dirs => entry'[a][b] \in E
  BY <1>4, <1>8
<1>10. ASSUME NEW c \in Dirs, NEW k \in Names, entry'[c][k] \in Dirs
       PROVE  c \notin Below(entry[c][k])'
  <2>1. CASE c = to /\ k = m
    <3>1. Below(e)' \subseteq E
      BY <1>2, <1>8, <1>9, BelowNext
    <3> QED BY <3>1, <2>1, <1>2, <1>3, <1>8
  <2>2. CASE ~(c = to /\ k = m)
    <3>1. PICK x \in Dirs, B \in SUBSET Dirs :
            x = entry[c][k] /\ entry'[c][k] = x /\ B = Below(x)
      BY <2>2, <1>0, <1>4, <1>10 DEF BelowLaw
    <3>2. /\ c \notin B /\ x \in B
          /\ \A a \in B, b \in Names : entry[a][b] \in Dirs => entry[a][b] \in B
          /\ \A S \in SUBSET Dirs :
               /\ x \in S
               /\ \A a \in S, b \in Names : entry[a][b] \in Dirs => entry[a][b] \in S
               => B \subseteq S
      BY <3>1, <1>0 DEF Tree, BelowLaw, Closed
    <3>3. CASE to \in B
      <4>1. \A a \in B \cup E, b \in Names : entry'[a][b] \in Dirs => entry'[a][b] \in B \cup E
        BY <1>4, <1>8, <1>3, <3>2
      <4>2. B \cup E \in SUBSET Dirs /\ x \in B \cup E
        BY <3>2
      <4>3. Below(x)' \subseteq B \cup E
        BY <4>1, <4>2, BelowNext
      <4>4. c \notin E
        <5>1. SUFFICES ASSUME c \in E PROVE FALSE
          OBVIOUS
        <5>2. x \in E
          BY <5>1, <1>8, <3>1
        <5>3. B \subseteq E
          BY <5>2, <1>8, <3>2
        <5> QED BY <5>3, <3>3, <1>8
      <4> QED BY <4>3, <4>4, <3>1, <3>2
    <3>4. CASE to \notin B
      <4>1. \A a \in B, b \in Names : entry'[a][b] \in Dirs => entry'[a][b] \in B
        BY <1>4, <3>2, <3>4
      <4>2. Below(x)' \subseteq B
        BY <4>1, <3>2, BelowNext
      <4> QED BY <4>2, <3>1, <3>2
    <3> QED BY <3>3, <3>4
  <2> QED BY <2>1, <2>2
<1>11. ASSUME NEW y \in Dirs, ~Linked(y)' PROVE Empty(y)'
  <2>1. ~Linked(y)
    <3>1. ASSUME NEW c \in Dirs, NEW k \in Names, entry[c][k] = y
          PROVE  \E a \in Dirs, b \in Names : entry'[a][b] = y
      BY <1>2, <1>3, <3>1, <1>0
    <3> QED BY <3>1, <1>11 DEF Linked
  <2>2. Empty(y) /\ y # to
    BY <2>1, <1>2 DEF Tree
  <2> QED BY <2>2, <1>2 DEF Empty
<1> QED BY <1>5, <1>6, <1>10, <1>11 DEF Tree

-----------------------------------------------------------------------------
(* Paths that are made.                                                    *)

(* The type of the files.                                                  *)
FilesOK ==
  /\ Links /\ mode \in [Dirs -> Modes]
  /\ mine \subseteq Dirs /\ moved \subseteq Dirs

(* The directories of a path that is made (create_dir_all): the k-th is    *)
(* made in Holder, the first in what was known.                            *)
Holder(path, known, fresh, k) == IF k = known + 1 THEN Trail(path)[known] ELSE fresh[k - 1]
Making(path, known, fresh) ==
  /\ known \in Nat /\ known < Len(path)
  /\ fresh \in [known + 1 .. Len(path) -> Free] /\ IsInjective(fresh)
  /\ Trail(path)[known] \in Dirs /\ Trail(path)[known + 1] = NoDir
  /\ \A k \in known + 1 .. Len(path) : entry'[Holder(path, known, fresh, k)][path[k]] = fresh[k]
  /\ \A c \in Dirs, n \in Names :
       \/ entry'[c][n] = entry[c][n]
       \/ \E k \in known + 1 .. Len(path) : Holder(path, known, fresh, k) = c /\ path[k] = n
NewOf(path, known, fresh) == {fresh[k] : k \in known + 1 .. Len(path)}

(* Each of the new directories is made in a directory of its own, under a  *)
(* name that is free.                                                      *)
LEMMA HolderFacts ==
  ASSUME Links, Tree, NEW path \in Seq(Names), NEW known \in Nat, known < Len(path),
         NEW fresh \in [known + 1 .. Len(path) -> Free], IsInjective(fresh),
         Trail(path)[known] \in Dirs, Trail(path)[known + 1] = NoDir
  PROVE  \A k \in known + 1 .. Len(path) :
           /\ Holder(path, known, fresh, k) \in Dirs /\ path[k] \in Names
           /\ fresh[k] \in Free
           /\ entry[Holder(path, known, fresh, k)][path[k]] = NoDir
           /\ \A i \in known + 1 .. Len(path) :
                Holder(path, known, fresh, i) = Holder(path, known, fresh, k) => i = k
<1>0. Len(path) \in Nat
  OBVIOUS
<1>1. \A k \in known + 1 .. Len(path) :
        /\ k # known + 1 => k - 1 \in known + 1 .. Len(path)
        /\ fresh[k] \in Free /\ path[k] \in Names
        /\ k # known + 1 => fresh[k - 1] \in Free
  OBVIOUS
<1>2. Linked(Trail(path)[known])
  BY TrailLinked
<1>3. entry[Trail(path)[known]][path[known + 1]] = NoDir
  BY TrailNext DEF TrailLaw
<1>4. \A k \in known + 1 .. Len(path) :
        k # known + 1 => fresh[k - 1] # Trail(path)[known]
  BY <1>1, <1>2 DEF Free
<1>5. \A i, k \in known + 1 .. Len(path) : i # known + 1 /\ k # known + 1 /\ fresh[i - 1] = fresh[k - 1] => i = k
  <2> TAKE i, k \in known + 1 .. Len(path)
  <2> HAVE i # known + 1 /\ k # known + 1 /\ fresh[i - 1] = fresh[k - 1]
  <2>1. i - 1 \in DOMAIN fresh /\ k - 1 \in DOMAIN fresh
    BY <1>1
  <2>2. i - 1 = k - 1
    BY <2>1 DEF IsInjective
  <2> QED BY <2>2
<1> QED BY <1>1, <1>3, <1>4, <1>5, FreeFacts DEF Holder

(* MakeAll, whose links are chosen by where they are, is such a step and   *)
(* keeps the type.                                                         *)
LEMMA MakeAllMakes ==
  ASSUME FilesOK, Tree, NEW path \in Seq(Names), MakeAll(path)
  PROVE  /\ FilesOK'
         /\ \E known, fresh :
              /\ Making(path, known, fresh)
              /\ mine' = mine \cup NewOf(path, known, fresh)
              /\ moved' = moved \ NewOf(path, known, fresh)
<1>0. Links
  BY DEF FilesOK
<1>1. PICK known \in 0 .. Len(path) - 1 : \E fresh \in [known + 1 .. Len(path) -> Free] :
        /\ Trail(path)[known] \in Dirs /\ Trail(path)[known + 1] = NoDir
        /\ IsInjective(fresh)
        /\ entry' = [d \in Dirs |-> [n \in Names |->
             IF \E k \in DOMAIN fresh : Holder(path, known, fresh, k) = d /\ path[k] = n
             THEN fresh[CHOOSE k \in DOMAIN fresh : Holder(path, known, fresh, k) = d] ELSE entry[d][n]]]
        /\ mine' = mine \cup {fresh[k] : k \in DOMAIN fresh}
        /\ moved' = moved \ {fresh[k] : k \in DOMAIN fresh}
        /\ mode' = [d \in Dirs |-> IF d \in {fresh[k] : k \in DOMAIN fresh} THEN "private" ELSE mode[d]]
  BY DEF MakeAll, Holder
<1>2. PICK fresh \in [known + 1 .. Len(path) -> Free] :
        /\ Trail(path)[known] \in Dirs /\ Trail(path)[known + 1] = NoDir
        /\ IsInjective(fresh)
        /\ entry' = [d \in Dirs |-> [n \in Names |->
             IF \E k \in DOMAIN fresh : Holder(path, known, fresh, k) = d /\ path[k] = n
             THEN fresh[CHOOSE k \in DOMAIN fresh : Holder(path, known, fresh, k) = d] ELSE entry[d][n]]]
        /\ mine' = mine \cup {fresh[k] : k \in DOMAIN fresh}
        /\ moved' = moved \ {fresh[k] : k \in DOMAIN fresh}
        /\ mode' = [d \in Dirs |-> IF d \in {fresh[k] : k \in DOMAIN fresh} THEN "private" ELSE mode[d]]
  BY <1>1
<1>3. known \in Nat /\ known < Len(path) /\ DOMAIN fresh = known + 1 .. Len(path)
  OBVIOUS
<1>4. \A k \in DOMAIN fresh :
        /\ Holder(path, known, fresh, k) \in Dirs /\ path[k] \in Names
        /\ fresh[k] \in Free
        /\ \A i \in DOMAIN fresh :
             Holder(path, known, fresh, i) = Holder(path, known, fresh, k) => i = k
  BY <1>0, <1>2, <1>3, HolderFacts
<1>5. ASSUME NEW k \in DOMAIN fresh
      PROVE  entry'[Holder(path, known, fresh, k)][path[k]] = fresh[k]
  <2>1. PICK d \in Dirs, n \in Names : d = Holder(path, known, fresh, k) /\ n = path[k]
    BY <1>4
  <2>2. entry'[d][n] = fresh[CHOOSE i \in DOMAIN fresh : Holder(path, known, fresh, i) = d]
    BY <1>2, <2>1
  <2>3. (CHOOSE i \in DOMAIN fresh : Holder(path, known, fresh, i) = d) = k
    BY <1>4, <2>1
  <2> QED BY <2>1, <2>2, <2>3
<1>6. ASSUME NEW c \in Dirs, NEW n \in Names,
             ~ \E k \in DOMAIN fresh : Holder(path, known, fresh, k) = c /\ path[k] = n
      PROVE  entry'[c][n] = entry[c][n]
  BY <1>2, <1>6
<1>7. Making(path, known, fresh)
  BY <1>2, <1>3, <1>5, <1>6 DEF Making
<1>8. \A c \in Dirs, n \in Names : entry'[c][n] \in Targets
  <2> TAKE c \in Dirs, n \in Names
  <2>1. CASE \E k \in DOMAIN fresh : Holder(path, known, fresh, k) = c /\ path[k] = n
    <3>1. PICK k \in DOMAIN fresh : Holder(path, known, fresh, k) = c /\ path[k] = n
      BY <2>1
    <3>2. entry'[c][n] = fresh[k]
      BY <3>1, <1>5
    <3> QED BY <3>2, <1>4 DEF Free, Targets
  <2>2. CASE ~ \E k \in DOMAIN fresh : Holder(path, known, fresh, k) = c /\ path[k] = n
    BY <2>2, <1>6, <1>0 DEF Links
  <2> QED BY <2>1, <2>2
<1>9. Links'
  <2>1. entry' = [d \in Dirs |-> [n \in Names |-> entry'[d][n]]]
    BY <1>2
  <2> QED BY <1>8, <2>1 DEF Links, Targets
<1>10. {fresh[k] : k \in DOMAIN fresh} \subseteq Dirs
  BY <1>4 DEF Free
<1>11. FilesOK'
  <2>1. mode' \in [Dirs -> Modes] /\ mine' \subseteq Dirs /\ moved' \subseteq Dirs
    BY <1>2, <1>10 DEF FilesOK, Modes
  <2> QED BY <1>9, <2>1 DEF FilesOK
<1> QED BY <1>2, <1>3, <1>7, <1>11 DEF NewOf

(* What is made is linked to what was there, and nothing else changes.     *)
LEMMA MakingGrows ==
  ASSUME Links, Tree, NEW path \in Seq(Names), NEW known, NEW fresh, Making(path, known, fresh)
  PROVE  /\ NewOf(path, known, fresh) \subseteq Free
         /\ \A c \in Dirs, n \in Names : entry[c][n] \in Dirs => entry'[c][n] = entry[c][n]
         /\ \A c \in Dirs, n \in Names :
              entry'[c][n] = entry[c][n]
              \/ \E k \in known + 1 .. Len(path) :
                    /\ c = Holder(path, known, fresh, k) /\ n = path[k] /\ entry'[c][n] = fresh[k]
<1>1. \A k \in known + 1 .. Len(path) :
        /\ Holder(path, known, fresh, k) \in Dirs /\ path[k] \in Names /\ fresh[k] \in Free
        /\ entry[Holder(path, known, fresh, k)][path[k]] = NoDir
  BY HolderFacts DEF Making
<1>2. NewOf(path, known, fresh) \subseteq Free
  BY <1>1 DEF NewOf
<1>3. ASSUME NEW c \in Dirs, NEW n \in Names, entry'[c][n] # entry[c][n]
      PROVE  /\ entry[c][n] = NoDir
             /\ \E k \in known + 1 .. Len(path) :
                  c = Holder(path, known, fresh, k) /\ n = path[k] /\ entry'[c][n] = fresh[k]
  <2>1. PICK k \in known + 1 .. Len(path) : Holder(path, known, fresh, k) = c /\ path[k] = n
    BY <1>3 DEF Making
  <2>2. entry'[c][n] = fresh[k]
    BY <2>1 DEF Making
  <2> QED BY <1>1, <2>1, <2>2
<1> QED BY <1>2, <1>3, WorkRootAssumption

(* Below a new directory are the new ones after it.                        *)
LEMMA MakingBelow ==
  ASSUME Links, Tree, NEW path \in Seq(Names), NEW known, NEW fresh, Making(path, known, fresh),
         NEW i \in known + 1 .. Len(path)
  PROVE  Below(fresh[i])' \subseteq {fresh[k] : k \in i .. Len(path)}
<1>0. known \in Nat /\ Len(path) \in Nat /\ fresh \in [known + 1 .. Len(path) -> Free]
  BY DEF Making
<1>1. \A k \in known + 1 .. Len(path) : fresh[k] \in Free
  BY <1>0
<1> DEFINE T == {fresh[k] : k \in i .. Len(path)}
<1>2. T \in SUBSET Dirs /\ fresh[i] \in T /\ fresh[i] \in Dirs
  BY <1>0, <1>1 DEF Free
<1>3. ASSUME NEW a \in T, NEW b \in Names, entry'[a][b] \in Dirs PROVE entry'[a][b] \in T
  <2>1. PICK j \in i .. Len(path) : a = fresh[j]
    OBVIOUS
  <2>2. j \in known + 1 .. Len(path) /\ a \in Free /\ a \in Dirs
    BY <1>0, <1>1, <2>1 DEF Free
  <2>3. entry[a][b] = NoDir
    BY <2>2, FreeFacts
  <2>4. PICK k \in known + 1 .. Len(path) :
          a = Holder(path, known, fresh, k) /\ entry'[a][b] = fresh[k]
    <3>1. entry'[a][b] # entry[a][b] /\ a \in Dirs
      BY <2>2, <2>3, <1>3, WorkRootAssumption
    <3> QED BY <3>1, MakingGrows
  <2>5. k # known + 1
    <3>1. Linked(Trail(path)[known])
      BY TrailLinked, <1>0 DEF Making
    <3> QED BY <3>1, <2>2, <2>4 DEF Holder, Free
  <2>6. a = fresh[k - 1] /\ k - 1 \in known + 1 .. Len(path)
    BY <2>4, <2>5, <1>0 DEF Holder
  <2>7. k - 1 = j
    <3>1. k - 1 \in DOMAIN fresh /\ j \in DOMAIN fresh /\ fresh[k - 1] = fresh[j]
      BY <2>1, <2>2, <2>6, <1>0
    <3> QED BY <3>1 DEF Making, IsInjective
  <2>8. k \in i .. Len(path)
    BY <2>7, <2>1, <1>0
  <2> QED BY <2>4, <2>8
<1> HIDE DEF T
<1>4. Below(fresh[i])' \subseteq T
  BY <1>2, <1>3, BelowNext
<1> QED BY <1>4 DEF T

(* A path that is made keeps the forest.                                   *)
LEMMA TreeMade ==
  ASSUME Links, Links', Tree, NEW path \in Seq(Names), NEW known, NEW fresh,
         Making(path, known, fresh)
  PROVE  Tree'
<1>0. BelowLaw' /\ BelowLaw /\ NoDir \notin Dirs /\ Top \in Dirs
  BY BelowFacts, PTL, WorkRootAssumption
<1>1. PICK F \in SUBSET Dirs : F = NewOf(path, known, fresh)
  BY MakingGrows DEF Free
<1>2. /\ F \subseteq Free
      /\ \A c \in Dirs, n \in Names : entry[c][n] \in Dirs => entry'[c][n] = entry[c][n]
      /\ \A c \in Dirs, n \in Names :
           entry'[c][n] = entry[c][n]
           \/ \E k \in known + 1 .. Len(path) :
                 c = Holder(path, known, fresh, k) /\ n = path[k] /\ entry'[c][n] = fresh[k]
  BY <1>1, MakingGrows
<1>3. \A e \in F : /\ e # Top /\ \A n \in Names : entry[e][n] = NoDir
                   /\ \A c \in Dirs, n \in Names : entry[c][n] # e
  BY <1>2, FreeFacts
<1>4. \A k \in known + 1 .. Len(path) : fresh[k] \in F
  BY <1>1 DEF NewOf
<1>5. \A c \in Dirs, n \in Names : entry'[c][n] = entry[c][n] \/ entry'[c][n] \in F
  BY <1>2, <1>4
<1>6. ASSUME NEW c \in Dirs, NEW d \in Dirs, NEW m \in Names, NEW n \in Names,
             entry'[c][m] = entry'[d][n], entry'[c][m] \in Dirs
      PROVE  c = d /\ m = n
  <2>1. CASE entry'[c][m] \in F
    <3>1. PICK k \in known + 1 .. Len(path) :
            c = Holder(path, known, fresh, k) /\ m = path[k] /\ entry'[c][m] = fresh[k]
      BY <2>1, <1>2, <1>3
    <3>2. PICK i \in known + 1 .. Len(path) :
            d = Holder(path, known, fresh, i) /\ n = path[i] /\ entry'[d][n] = fresh[i]
      BY <2>1, <1>2, <1>3, <1>6
    <3>3. i = k
      BY <3>1, <3>2, <1>6 DEF Making, IsInjective
    <3> QED BY <3>1, <3>2, <3>3
  <2>2. CASE entry'[c][m] \notin F
    BY <2>2, <1>5, <1>6 DEF Tree
  <2> QED BY <2>1, <2>2
<1>7. \A c \in Dirs, n \in Names : entry'[c][n] # Top
  BY <1>3, <1>5 DEF Tree
<1>8. ASSUME NEW c \in Dirs, NEW n \in Names, entry'[c][n] \in Dirs
      PROVE  c \notin Below(entry[c][n])'
  <2>1. CASE entry'[c][n] \in F
    <3>1. PICK k \in known + 1 .. Len(path) :
            c = Holder(path, known, fresh, k) /\ n = path[k] /\ entry'[c][n] = fresh[k]
      BY <2>1, <1>2, <1>3
    <3>2. Below(fresh[k])' \subseteq {fresh[j] : j \in k .. Len(path)}
      BY MakingBelow
    <3>3. ASSUME NEW j \in k .. Len(path) PROVE c # fresh[j]
      <4>1. /\ known \in Nat /\ Len(path) \in Nat /\ fresh \in [known + 1 .. Len(path) -> Free]
            /\ j \in known + 1 .. Len(path) /\ k - 1 < j
        BY DEF Making
      <4>2. CASE k = known + 1
        <5>1. Linked(Trail(path)[known])
          BY TrailLinked, <4>1 DEF Making
        <5> QED BY <5>1, <4>1, <4>2, <3>1 DEF Holder, Free
      <4>3. CASE k # known + 1
        <5>1. c = fresh[k - 1] /\ k - 1 \in known + 1 .. Len(path)
          BY <4>1, <4>3, <3>1 DEF Holder
        <5> QED BY <5>1, <4>1 DEF Making, IsInjective
      <4> QED BY <4>2, <4>3
    <3> QED BY <3>1, <3>2, <3>3
  <2>2. CASE entry'[c][n] \notin F
    <3>1. PICK x \in Dirs, B \in SUBSET Dirs :
            x = entry[c][n] /\ entry'[c][n] = x /\ B = Below(x)
      BY <2>2, <1>0, <1>5, <1>8 DEF BelowLaw
    <3>2. c \notin B /\ c \notin F /\ x \in B
      BY <3>1, <1>0, <1>3 DEF Tree, BelowLaw
    <3>3. \A a \in B \cup F, b \in Names :
            entry'[a][b] \in Dirs => entry'[a][b] \in B \cup F
      BY <3>1, <1>0, <1>1, <1>3, <1>5 DEF Closed, BelowLaw
    <3>4. B \cup F \in SUBSET Dirs /\ x \in B \cup F
      BY <3>2, <1>1
    <3>5. Below(x)' \subseteq B \cup F
      BY <3>3, <3>4, BelowNext
    <3> QED BY <3>1, <3>2, <3>5
  <2> QED BY <2>1, <2>2
<1>9. ASSUME NEW y \in Dirs, ~Linked(y)' PROVE Empty(y)'
  <2>1. ~Linked(y) /\ y \notin F
    <3>1. \A k \in known + 1 .. Len(path) :
            /\ Holder(path, known, fresh, k) \in Dirs /\ path[k] \in Names
            /\ entry'[Holder(path, known, fresh, k)][path[k]] = fresh[k]
      BY HolderFacts DEF Making
    <3>2. \A e \in F : Linked(e)'
      BY <3>1, <1>1 DEF NewOf, Linked
    <3>3. ~Linked(y)
      BY <1>2, <1>9 DEF Linked
    <3> QED BY <3>2, <3>3, <1>9
  <2>2. Empty(y)
    BY <2>1 DEF Tree
  <2>3. ASSUME NEW n \in Names, entry'[y][n] # NoDir PROVE FALSE
    <3>1. PICK k \in known + 1 .. Len(path) : y = Holder(path, known, fresh, k)
      BY <2>2, <2>3, <1>2 DEF Empty
    <3>2. y = Trail(path)[known] \/ (k # known + 1 /\ y = fresh[k - 1])
      BY <3>1 DEF Holder
    <3>3. y # Trail(path)[known]
      BY TrailLinked, <2>1 DEF Making
    <3>4. k # known + 1 => k - 1 \in known + 1 .. Len(path)
      BY DEF Making
    <3> QED BY <3>2, <3>3, <3>4, <1>4, <2>1
  <2> QED BY <2>3 DEF Empty
<1> QED BY <1>6, <1>7, <1>8, <1>9 DEF Tree

-----------------------------------------------------------------------------
(* Every change of the files keeps their shape, and is one of these kinds. *)

(* Every change of the files keeps their shape and is of one of these      *)
(* kinds. Mild is a change of the compilation alone; a Tame one leaves     *)
(* what the compilation makes below the work root.                         *)
Own(F) == Undisturbed' => \A d \in mine' \cap F : Made' \in Dirs /\ d \in Below(Made)'
Change == (\E F : Grown(F)) \/ (\E S : Pruned(S)) \/ (\E e : Shifted(e))
Mild == (\E F : Grown(F)) \/ (\E S : Pruned(S))
Tame ==
  \/ \E F : Grown(F) /\ mine' \subseteq mine \cup F /\ Own(F)
  \/ \E S : Pruned(S)
  \/ \E e : Shifted(e)
Files == FilesOK /\ Tree

(* A step that changes no file.                                            *)
LEMMA KeepFiles ==
  ASSUME Files, UNCHANGED files
  PROVE  Files' /\ Grown({}) /\ mine' = mine
<1>1. entry' = entry /\ mode' = mode /\ mine' = mine /\ moved' = moved
  BY DEF files
<1>2. FilesOK'
  BY <1>1 DEF Files, FilesOK, Links, Targets
<1>3. Tree'
  BY <1>1 DEF Files, Tree, Linked, Empty, Below, Closed
<1> QED BY <1>1, <1>2, <1>3 DEF Grown, Files

(* A directory that is made.                                               *)
LEMMA MkdirFiles ==
  ASSUME Files, NEW d \in Dirs, NEW n \in Names, NEW e, Mkdir(d, n, e)
  PROVE  /\ Files' /\ Grown({e}) /\ mine' = mine \cup {e} /\ e \in Free /\ e \in Dirs
         /\ entry' = [entry EXCEPT ![d][n] = e] /\ entry'[d][n] = e
         /\ mode' = [mode EXCEPT ![e] = "private"]
<1>0. Links /\ Tree
  BY DEF Files, FilesOK
<1>1. /\ entry' = [entry EXCEPT ![d][n] = e] /\ mode' = [mode EXCEPT ![e] = "private"]
      /\ mine' = mine \cup {e} /\ moved' = moved \ {e}
      /\ e \in Free /\ e \in Dirs /\ Linked(d) /\ entry[d][n] = NoDir
  BY DEF Mkdir, Link, Forget, Free
<1>2. FilesOK'
  BY <1>1 DEF Files, FilesOK, Links, Targets, Modes
<1>3. Tree'
  <2>1. Links'
    BY <1>2 DEF FilesOK
  <2> QED BY <2>1, <1>0, <1>1, TreeAdd
<1>4. \A c \in Dirs, k \in Names : entry'[c][k] = IF c = d /\ k = n THEN e ELSE entry[c][k]
  BY <1>0, <1>1 DEF Links
<1>5. Grown({e})
  BY <1>1, <1>4, WorkRootAssumption DEF Grown
<1> QED BY <1>1, <1>2, <1>3, <1>4, <1>5 DEF Files

(* A directory that is removed by its name.                                *)
LEMMA RmdirFiles ==
  ASSUME Files, NEW d \in Dirs, NEW n \in Names, CanRmdir(d, n), Rmdir(d, n)
  PROVE  Files' /\ Pruned({entry[d][n]})
<1>0. Links /\ Tree /\ mine \subseteq Dirs /\ moved \subseteq Dirs
  BY DEF Files, FilesOK
<1>1. Pruned({entry[d][n]})
  BY <1>0, RmdirPrunes
<1>2. FilesOK'
  BY DEF Files, FilesOK, Links, Targets, Modes, Rmdir, Release, Link
<1>3. Tree'
  <2>1. Links'
    BY <1>2 DEF FilesOK
  <2> QED BY <2>1, <1>0, <1>1, TreePruned
<1> QED BY <1>1, <1>2, <1>3 DEF Files

(* A directory that is removed with all that is in it, or a part of it.    *)
LEMMA RemoveAllFiles ==
  ASSUME Files, NEW gone \in SUBSET Dirs, Closed(gone), Top \notin gone, RemoveAll(gone)
  PROVE  Files' /\ Pruned(gone)
<1>0. Links /\ Tree
  BY DEF Files, FilesOK
<1>1. Pruned(gone)
  BY DEF Pruned, RemoveAll, Release
<1>2. FilesOK'
  BY DEF Files, FilesOK, Links, Targets, Modes, RemoveAll, Release
<1>3. Tree'
  <2>1. Links'
    BY <1>2 DEF FilesOK
  <2> QED BY <2>1, <1>0, <1>1, TreePruned
<1> QED BY <1>1, <1>2, <1>3 DEF Files

(* What another process makes is not the compilation's.                    *)
LEMMA OtherMakesFiles ==
  ASSUME Files, NEW d \in Dirs, NEW n \in Names, Linked(d), OtherMakes(d, n)
  PROVE  Files' /\ \E F : Grown(F) /\ mine' \subseteq mine /\ mine' \cap F = {}
<1>0. Links /\ Tree /\ entry[d][n] = NoDir /\ NoDir \notin Dirs /\ Thing \notin Dirs
  BY WorkRootAssumption DEF Files, FilesOK, OtherMakes
<1>1. CASE Link(d, n, Thing) /\ UNCHANGED <<mode, mine, moved>>
  <2>1. \A c \in Dirs, k \in Names :
          entry'[c][k] = IF c = d /\ k = n THEN Thing ELSE entry[c][k]
    BY <1>0, <1>1 DEF Links, Link
  <2>2. FilesOK'
    BY <1>1 DEF Files, FilesOK, Links, Targets, Link
  <2>3. Tree'
    <3>1. Links'
      BY <2>2 DEF FilesOK
    <3> QED BY <3>1, <1>0, <2>1, TreePlain
  <2>4. Grown({})
    BY <1>0, <1>1, <2>1 DEF Grown
  <2> QED BY <1>1, <2>2, <2>3, <2>4 DEF Files
<1>2. CASE \E e \in Free, m \in {"private", "unsafe"} :
             Link(d, n, e) /\ mode' = [mode EXCEPT ![e] = m] /\ mine' = mine \ {e} /\ Forget(e)
  <2>1. PICK e \in Free, m \in {"private", "unsafe"} :
          /\ entry' = [entry EXCEPT ![d][n] = e] /\ mode' = [mode EXCEPT ![e] = m]
          /\ mine' = mine \ {e} /\ moved' = moved \ {e}
    BY <1>2 DEF Link, Forget
  <2>2. e \in Dirs
    BY DEF Free
  <2>3. FilesOK'
    BY <2>1, <2>2 DEF Files, FilesOK, Links, Targets, Modes
  <2>4. Tree'
    <3>1. Links'
      BY <2>3 DEF FilesOK
    <3> QED BY <3>1, <1>0, <2>1, TreeAdd
  <2>5. \A c \in Dirs, k \in Names : entry'[c][k] = IF c = d /\ k = n THEN e ELSE entry[c][k]
    BY <1>0, <2>1 DEF Links
  <2>6. Grown({e})
    BY <2>1, <2>5, <1>0 DEF Grown
  <2> QED BY <2>1, <2>3, <2>4, <2>6 DEF Files
<1> QED BY <1>1, <1>2 DEF OtherMakes

(* What another process removes is a file or an empty directory.           *)
LEMMA OtherRemovesFiles ==
  ASSUME Files, NEW d \in Dirs, NEW n \in Names, Linked(d), OtherRemoves(d, n)
  PROVE  Files' /\ ((Grown({}) /\ mine' = mine) \/ \E S : Pruned(S))
<1>1. CASE CanRmdir(d, n)
  BY <1>1, RmdirFiles DEF OtherRemoves
<1>2. CASE entry[d][n] = Thing
  <2>0. Links /\ Tree /\ NoDir \notin Dirs /\ Thing \notin Dirs
    BY WorkRootAssumption DEF Files, FilesOK
  <2>1. /\ \A c \in Dirs, k \in Names :
             entry'[c][k] = IF c = d /\ k = n THEN NoDir ELSE entry[c][k]
        /\ mine' = mine /\ moved' = moved
    BY <1>2, <2>0 DEF Files, FilesOK, Links, Link, OtherRemoves, Rmdir, Release
  <2>2. FilesOK'
    BY DEF Files, FilesOK, Links, Targets, Modes, Rmdir, Release, Link, OtherRemoves
  <2>3. Tree'
    <3>1. Links'
      BY <2>2 DEF FilesOK
    <3> QED BY <3>1, <1>2, <2>0, <2>1, TreePlain
  <2>4. Grown({})
    BY <1>2, <2>0, <2>1 DEF Grown
  <2> QED BY <2>1, <2>2, <2>3, <2>4 DEF Files
<1> QED BY <1>1, <1>2 DEF OtherRemoves

(* What another process renames keeps what is in it.                       *)
LEMMA OtherMovesFiles ==
  ASSUME Files, NEW d \in Dirs, NEW n \in Names, OtherMoves(d, n)
  PROVE  Files' /\ \E e : Shifted(e)
<1>0. Links /\ Tree
  BY DEF Files, FilesOK
<1>1. PICK e \in Dirs, to \in Dirs, m \in Names :
        /\ e = entry[d][n] /\ to \notin Below(e) /\ Linked(to) /\ entry[to][m] = NoDir
        /\ entry' = [c \in Dirs |-> [k \in Names |->
             IF c = d /\ k = n THEN NoDir ELSE IF c = to /\ k = m THEN e ELSE entry[c][k]]]
        /\ moved' = moved \cup {e} /\ mode' = mode /\ mine' = mine
  BY DEF OtherMoves
<1>2. ShiftedLink(e, d, n, to, m)
  BY <1>1 DEF ShiftedLink
<1>3. Shifted(e)
  BY <1>2 DEF Shifted
<1>4. FilesOK'
  BY <1>1 DEF Files, FilesOK, Links, Targets
<1>5. Tree'
  <2>1. Links'
    BY <1>4 DEF FilesOK
  <2> QED BY <2>1, <1>0, <1>3, TreeShifted
<1> QED BY <1>3, <1>4, <1>5 DEF Files

-----------------------------------------------------------------------------
(* What a change leaves of what is known of the parent and the work root.  *)

(* A closed set with one directory of a chain has the rest of it: nothing  *)
(* below what is removed is left.                                          *)
LEMMA ChainStays ==
  ASSUME NEW s \in Seq(Dirs), NEW i \in 1 .. Len(s), InPlace(s, i),
         Len(s) <= Len(OutputPath) + 1, NEW S, Closed(S), s[i] \in S
  PROVE  \A k \in i .. Len(s) : s[k] \in S
<1> DEFINE T == {j \in Nat : i + j <= Len(s) => s[i + j] \in S}
<1>1. 0 \in T
  OBVIOUS
<1>2. ASSUME NEW j \in Nat, j \in T PROVE j + 1 \in T
  <2> SUFFICES ASSUME i + (j + 1) <= Len(s) PROVE s[i + (j + 1)] \in S
    OBVIOUS
  <2>1. PICK k \in i .. Len(s) - 1 : k = i + j
    OBVIOUS
  <2>2. s[k] \in S /\ k + 1 = i + (j + 1) /\ s[k + 1] \in Dirs
    BY <1>2, <2>1
  <2>3. OutputPath[k] \in Names /\ entry[s[k]][OutputPath[k]] = s[k + 1]
    <3>1. OutputPath \in Seq(Names) /\ Len(OutputPath) \in Nat
      BY WorkRootAssumption
    <3>2. k \in 1 .. Len(OutputPath)
      BY <3>1
    <3> QED BY <3>1, <3>2 DEF InPlace
  <2> QED BY <2>2, <2>3 DEF Closed
<1> HIDE DEF T
<1>3. Nat \subseteq T
  BY <1>1, <1>2, SetInduction
<1>4. ASSUME NEW k \in i .. Len(s) PROVE s[k] \in S
  <2>1. k - i \in Nat /\ i + (k - i) = k
    OBVIOUS
  <2> QED BY <1>3, <2>1 DEF T
<1> QED BY <1>4

(* The directories of a chain that is in place have links.                 *)
LEMMA ChainLinked ==
  ASSUME NEW s \in Seq(Dirs), s # <<>>, s[1] = Top, InPlace(s, 1), Len(s) <= Len(OutputPath) + 1
  PROVE  \A k \in 1 .. Len(s) : Linked(s[k])
<1> SUFFICES ASSUME NEW k \in 1 .. Len(s), k # 1 PROVE Linked(s[k])
  BY DEF Linked
<1>1. k - 1 \in 1 .. Len(s) - 1 /\ (k - 1) + 1 = k
  OBVIOUS
<1>2. OutputPath[k - 1] \in Names /\ s[k - 1] \in Dirs
  BY <1>1, WorkRootAssumption
<1>3. entry[s[k - 1]][OutputPath[k - 1]] = s[(k - 1) + 1]
  BY <1>1 DEF InPlace
<1> QED BY <1>1, <1>2, <1>3 DEF Linked

(* What a change does to the links: none is new but those to what is made, *)
LEMMA LinkedGrown ==
  ASSUME NEW F, Grown(F), NEW x \in Dirs, x \notin F, Linked(x)' PROVE Linked(x)
BY DEF Grown, Linked

(* none is left to what is removed,                                        *)
LEMMA LinkedPruned ==
  ASSUME NEW S, Pruned(S), NEW x \in Dirs, Linked(x)' PROVE Linked(x) /\ x \notin S
<1>1. CASE x = Top
  BY <1>1 DEF Pruned, Linked
<1>2. CASE x # Top
  <2>1. PICK c \in Dirs, n \in Names : entry'[c][n] = x
    BY <1>2 DEF Linked
  <2>2. entry[c][n] = x /\ x \notin S
    BY <2>1, WorkRootAssumption DEF Pruned
  <2> QED BY <2>2 DEF Linked
<1> QED BY <1>1, <1>2

(* and a rename gives none to what had none.                               *)
LEMMA LinkedShifted ==
  ASSUME NEW e, Shifted(e), NEW x \in Dirs, Linked(x)' PROVE Linked(x)
BY WorkRootAssumption DEF Shifted, ShiftedLink, Linked

(* A chain of open directories stays anchored in every step, whoever makes *)
(* it: while the last one is open its number is not used again, so a link  *)
(* to it is the one it had, or somebody renamed it.                        *)
LEMMA AnchoredNext ==
  ASSUME Files, NEW s \in Seq(Dirs), s # <<>>, s[1] = Top, Len(s) <= Len(OutputPath) + 1,
         Last(s) \in Held, Anchored(s), Change
  PROVE  Anchored(s)'
<1> DEFINE L == Len(s)
<1>0. L \in Nat /\ L > 0 /\ Last(s) = s[L] /\ s[L] \in Dirs /\ \A k \in 1 .. L : s[k] \in Dirs
  BY DEF Last
<1>1. \A k \in 1 .. L - 1 : OutputPath[k] \in Names
  BY WorkRootAssumption
<1>2. Tree /\ Links
  BY DEF Files, FilesOK
<1> SUFFICES ASSUME Linked(s[L])'
             PROVE  \E j \in 1 .. L : (j = 1 \/ s[j] \in moved') /\ InPlace(s, j)'
  BY <1>0 DEF Anchored
<1>3. ASSUME NEW F, Grown(F) PROVE \E j \in 1 .. L : (j = 1 \/ s[j] \in moved') /\ InPlace(s, j)'
  <2>1. s[L] \notin F /\ F \subseteq Free
    BY <1>0, <1>3 DEF Grown, Free
  <2>2. Linked(s[L])
    BY <1>0, <1>3, <2>1, LinkedGrown
  <2>3. PICK j \in 1 .. L : (j = 1 \/ s[j] \in moved) /\ InPlace(s, j)
    BY <1>0, <2>2 DEF Anchored
  <2>4. InPlace(s, j)'
    BY <1>0, <1>1, <1>3, <2>3 DEF InPlace, Grown
  <2>5. s[j] \notin F
    <3>1. SUFFICES ASSUME j < L, s[j] \in F PROVE FALSE
      BY <2>1
    <3>2. entry[s[j]][OutputPath[j]] = s[j + 1] /\ s[j + 1] \in Dirs /\ OutputPath[j] \in Names
      BY <1>0, <1>1, <2>3, <3>1 DEF InPlace
    <3> QED BY <1>2, <2>1, <3>1, <3>2, FreeFacts, WorkRootAssumption
  <2> QED BY <2>3, <2>4, <2>5, <1>3 DEF Grown
<1>4. ASSUME NEW S, Pruned(S) PROVE \E j \in 1 .. L : (j = 1 \/ s[j] \in moved') /\ InPlace(s, j)'
  <2>1. Linked(s[L]) /\ s[L] \notin S
    BY <1>0, <1>4, LinkedPruned
  <2>2. PICK j \in 1 .. L : (j = 1 \/ s[j] \in moved) /\ InPlace(s, j)
    BY <1>0, <2>1 DEF Anchored
  <2>3. ASSUME NEW i \in j .. L PROVE s[i] \notin S
    <3>0. i \in 1 .. Len(s) /\ i .. Len(s) - 1 \subseteq j .. Len(s) - 1
      BY <1>0
    <3>1. i \in 1 .. Len(s) /\ InPlace(s, i)
      BY <2>2, <3>0 DEF InPlace
    <3>2. L \in i .. Len(s) /\ Closed(S)
      BY <1>4 DEF Pruned
    <3> QED BY <2>1, <3>1, <3>2, ChainStays
  <2>4. \A i \in j .. L - 1 : s[i] \notin S /\ s[i + 1] \notin S /\ s[i] \in Dirs /\ OutputPath[i] \in Names
    BY <1>0, <1>1, <2>3
  <2>5. InPlace(s, j)'
    BY <1>4, <2>2, <2>4 DEF InPlace, Pruned
  <2>6. s[j] \notin S
    BY <2>3
  <2> QED BY <2>2, <2>5, <2>6, <1>4 DEF Pruned
<1>5. ASSUME NEW e, Shifted(e) PROVE \E j \in 1 .. L : (j = 1 \/ s[j] \in moved') /\ InPlace(s, j)'
  <2>1. Linked(s[L])
    BY <1>0, <1>5, LinkedShifted
  <2>2. PICK j \in 1 .. L : (j = 1 \/ s[j] \in moved) /\ InPlace(s, j)
    BY <1>0, <2>1 DEF Anchored
  <2>3. PICK d, n, to, m : ShiftedLink(e, d, n, to, m)
    BY <1>5 DEF Shifted
  <2>4. \A i \in j .. L - 1 :
          /\ s[i] \in Dirs /\ s[i + 1] \in Dirs /\ OutputPath[i] \in Names
          /\ entry[s[i]][OutputPath[i]] = s[i + 1]
    BY <1>0, <1>1, <2>2 DEF InPlace
  <2>5. \A i \in j .. L - 1 : s[i] # d => entry'[s[i]][OutputPath[i]] = s[i + 1]
    <3>1. \A i \in j .. L - 1 : s[i + 1] # NoDir
      BY <2>4, WorkRootAssumption
    <3> QED BY <2>3, <2>4, <3>1 DEF ShiftedLink
  <2>6. CASE \E i \in j .. L - 1 : s[i] = d /\ OutputPath[i] = n
    <3>1. PICK i \in j .. L - 1 : s[i] = d /\ OutputPath[i] = n
      BY <2>6
    <3>2. s[i + 1] = e /\ i + 1 \in 1 .. L /\ i + 1 .. L - 1 \subseteq j .. L - 1
      <4>1. i + 1 \in 1 .. L /\ i + 1 .. L - 1 \subseteq j .. L - 1
        BY <1>0
      <4>2. s[i + 1] = e
        BY <2>3, <2>4, <3>1 DEF ShiftedLink
      <4> QED BY <4>1, <4>2
    <3>3. d \notin Below(e) /\ e \in Below(e) /\ Closed(Below(e))
      BY <1>2, <2>3, BelowFacts DEF Tree, ShiftedLink, BelowLaw
    <3>4. InPlace(s, i + 1)
      BY <2>2, <3>2 DEF InPlace
    <3>5. \A k \in i + 1 .. L : s[k] # d
      BY <3>2, <3>3, <3>4, ChainStays
    <3>6. InPlace(s, i + 1)'
      <4>1. \A k \in i + 1 .. L - 1 : k \in i + 1 .. L /\ k \in j .. L - 1
        BY <1>0, <3>2
      <4>2. \A k \in i + 1 .. L - 1 : entry'[s[k]][OutputPath[k]] = s[k + 1]
        BY <2>5, <3>5, <4>1
      <4> QED BY <4>2 DEF InPlace
    <3>7. e \in moved'
      BY <2>3 DEF ShiftedLink
    <3> QED BY <3>2, <3>6, <3>7
  <2>7. CASE ~ \E i \in j .. L - 1 : s[i] = d /\ OutputPath[i] = n
    <3>1. \A i \in j .. L - 1 : entry'[s[i]][OutputPath[i]] = s[i + 1]
      <4> SUFFICES ASSUME NEW i \in j .. L - 1 PROVE entry'[s[i]][OutputPath[i]] = s[i + 1]
        OBVIOUS
      <4>1. PICK a \in Dirs, b \in Names : a = s[i] /\ b = OutputPath[i]
        BY <2>4
      <4>2. ~(a = d /\ b = n) /\ entry[a][b] = s[i + 1] /\ entry[a][b] \in Dirs
        BY <2>4, <2>7, <4>1
      <4>3. ~(a = to /\ b = m)
        BY <2>3, <4>2, WorkRootAssumption DEF ShiftedLink
      <4>4. entry'[a][b] = entry[a][b]
        BY <2>3, <4>2, <4>3 DEF ShiftedLink
      <4> QED BY <4>1, <4>2, <4>4
    <3>2. InPlace(s, j)'
      BY <3>1 DEF InPlace
    <3> QED BY <2>2, <2>3, <3>2 DEF ShiftedLink
  <2> QED BY <2>6, <2>7
<1> QED BY <1>3, <1>4, <1>5 DEF Change

(* The part of Anchors about the work root.                                *)
RootAnchored == root \in Dirs /\ Linked(root) => root \in moved \/ Made = root

(* The work root keeps its name until somebody renames it: what is found   *)
(* under the name is the work root or somebody else's.                     *)
LEMMA RootAnchoredNext ==
  ASSUME Files, root \in Dirs => ancestry \in Seq(Dirs) /\ ancestry # <<>> /\ name \in Names,
         RootAnchored, Change, UNCHANGED <<root, ancestry, name>>
  PROVE  RootAnchored'
<1> SUFFICES ASSUME root \in Dirs, Linked(root)' PROVE root \in moved' \/ Made' = root
  BY DEF RootAnchored
<1>0. Tree /\ Links /\ root \in Held /\ NoDir \notin Dirs
  BY WorkRootAssumption DEF Files, FilesOK, Held
<1>1. PICK r \in Dirs, p \in Dirs, n \in Names :
        r = root /\ p = Parent /\ n = name /\ Made' = entry'[p][n] /\ Made = entry[p][n]
  BY DEF Parent, Last, Made
<1>2. Linked(r)'
  BY <1>1
<1>3. ASSUME NEW F, Grown(F) PROVE r \in moved' \/ entry'[p][n] = r
  <2>1. r \notin F
    BY <1>0, <1>1, <1>3 DEF Grown, Free
  <2>2. Linked(r)
    BY <1>2, <1>3, <2>1, LinkedGrown
  <2> QED BY <1>1, <1>3, <2>1, <2>2 DEF RootAnchored, Grown
<1>4. ASSUME NEW S, Pruned(S) PROVE r \in moved' \/ entry'[p][n] = r
  <2>1. Linked(r) /\ r \notin S
    BY <1>2, <1>4, LinkedPruned
  <2>2. r \in moved \/ entry[p][n] = r
    BY <1>1, <2>1 DEF RootAnchored
  <2>3. entry[p][n] = r => p \notin S
    BY <1>1, <1>4, <2>1 DEF Pruned, Closed
  <2> QED BY <1>4, <2>1, <2>2, <2>3 DEF Pruned
<1>5. ASSUME NEW e, Shifted(e) PROVE r \in moved' \/ entry'[p][n] = r
  <2>1. Linked(r)
    BY <1>2, <1>5, LinkedShifted
  <2>2. r \in moved \/ entry[p][n] = r
    BY <1>1, <2>1 DEF RootAnchored
  <2> QED BY <1>0, <1>5, <2>2 DEF Shifted, ShiftedLink
<1> QED BY <1>1, <1>3, <1>4, <1>5 DEF Change

(* What is below a directory stays there when something is made,           *)
LEMMA BelowGrown ==
  ASSUME NEW F, Grown(F), NEW x \in Dirs PROVE Below(x) \subseteq Below(x)'
<1>0. BelowLaw' /\ BelowLaw
  BY BelowFacts, PTL
<1>1. PICK B \in SUBSET Dirs : B = Below(x)'
  BY <1>0 DEF BelowLaw
<1>2. x \in B /\ \A a \in B, b \in Names : entry'[a][b] \in Dirs => entry'[a][b] \in B
  BY <1>0, <1>1 DEF BelowLaw, Closed
<1>3. Closed(B)
  BY <1>2 DEF Closed, Grown
<1> QED BY <1>0, <1>1, <1>2, <1>3 DEF BelowLaw

(* unless it is removed,                                                   *)
LEMMA BelowPruned ==
  ASSUME NEW S, Pruned(S), NEW x \in Dirs PROVE Below(x) \subseteq S \cup Below(x)'
<1>0. BelowLaw' /\ BelowLaw
  BY BelowFacts, PTL
<1>1. PICK B \in SUBSET Dirs : B = Below(x)'
  BY <1>0 DEF BelowLaw
<1>2. x \in B /\ \A a \in B, b \in Names : entry'[a][b] \in Dirs => entry'[a][b] \in B
  BY <1>0, <1>1 DEF BelowLaw, Closed
<1>3. Closed(S \cup B)
  BY <1>2 DEF Closed, Pruned
<1>4. S \cup B \in SUBSET Dirs /\ x \in S \cup B
  BY <1>2 DEF Pruned
<1> QED BY <1>0, <1>1, <1>3, <1>4 DEF BelowLaw

(* or is renamed: then it is below what was renamed.                       *)
LEMMA BelowShifted ==
  ASSUME NEW e, Shifted(e), NEW x \in Dirs
  PROVE  e \in Dirs /\ e \in Below(e)' /\ Below(x) \subseteq Below(x)' \cup Below(e)'
<1>0. BelowLaw' /\ BelowLaw
  BY BelowFacts, PTL
<1>1. PICK d, n, to, m : ShiftedLink(e, d, n, to, m)
  BY DEF Shifted
<1>2. e \in Dirs
  BY <1>1 DEF ShiftedLink
<1>3. PICK B \in SUBSET Dirs, E \in SUBSET Dirs : B = Below(x)' /\ E = Below(e)'
  BY <1>0, <1>2 DEF BelowLaw
<1>4. /\ x \in B /\ \A a \in B, b \in Names : entry'[a][b] \in Dirs => entry'[a][b] \in B
      /\ e \in E /\ \A a \in E, b \in Names : entry'[a][b] \in Dirs => entry'[a][b] \in E
  BY <1>0, <1>2, <1>3 DEF BelowLaw, Closed
<1>5. ASSUME NEW a \in B \cup E, NEW b \in Names, entry[a][b] \in Dirs
      PROVE  entry[a][b] \in B \cup E
  BY <1>1, <1>4, <1>5, WorkRootAssumption DEF ShiftedLink
<1>6. Closed(B \cup E)
  BY <1>5 DEF Closed
<1>7. B \cup E \in SUBSET Dirs /\ x \in B \cup E
  BY <1>4
<1>8. Below(x) \subseteq B \cup E
  BY <1>0, <1>6, <1>7 DEF BelowLaw
<1> QED BY <1>2, <1>3, <1>4, <1>8

-----------------------------------------------------------------------------
(* What the compilation has made stays below the work root.                *)

(* An anchored chain of which no directory was renamed is in place from    *)
(* "/".                                                                    *)
LEMMA UndisturbedInPlace ==
  Undisturbed /\ Anchored(ancestry) => InPlace(ancestry, 1)
BY DEF Undisturbed, Anchored, Parent, ToSet

(* What is undisturbed after a step was so before it: a renamed directory  *)
(* does not become the compilation's again.                                *)
LEMMA UndisturbedBefore ==
  ASSUME Files, ancestry \in Seq(Dirs), ancestry # <<>> => ancestry[1] = Top,
         Len(ancestry) <= Len(OutputPath) + 1, ancestry # <<>> => Anchored(ancestry),
         Change, ancestry' = ancestry, Undisturbed'
  PROVE  Undisturbed
<1>0. Links /\ Tree
  BY DEF Files, FilesOK
<1>1. PICK s \in Seq(Dirs), p \in Dirs :
        s = ancestry /\ s # <<>> /\ p = Last(s) /\ p = s[Len(s)] /\ p = Parent
  BY DEF Undisturbed, Parent, Last
<1>2. Linked(p)' /\ moved' \cap ToSet(s) = {}
  BY <1>1 DEF Undisturbed, Parent
<1>3. p \in Held
  BY <1>1 DEF Held
<1>4. s[1] = Top /\ Anchored(s) /\ Len(s) <= Len(OutputPath) + 1 /\ Len(s) \in Nat /\ Len(s) > 0
  BY <1>1
<1> SUFFICES Linked(p) /\ moved \cap ToSet(s) = {}
  BY <1>1 DEF Undisturbed
<1>5. ASSUME NEW F, Grown(F) PROVE Linked(p) /\ moved \cap ToSet(s) = {}
  <2>1. p \notin F
    BY <1>3, <1>5 DEF Grown, Free
  <2>2. Linked(p)
    BY <1>1, <1>2, <1>5, <2>1, LinkedGrown
  <2>3. PICK j \in 1 .. Len(s) : (j = 1 \/ s[j] \in moved) /\ InPlace(s, j)
    BY <1>1, <1>4, <2>2 DEF Anchored
  <2>4. s[j] \notin F
    <3>0. s[Len(s)] \notin F
      BY <1>1, <2>1
    <3>1. SUFFICES ASSUME j < Len(s), s[j] \in F PROVE FALSE
      BY <1>4, <3>0
    <3>2. entry[s[j]][OutputPath[j]] = s[j + 1] /\ s[j + 1] \in Dirs /\ OutputPath[j] \in Names
      <4>1. j \in j .. Len(s) - 1 /\ j + 1 \in 1 .. Len(s) /\ j \in 1 .. Len(OutputPath)
        BY <1>4, <3>1, WorkRootAssumption
      <4>2. entry[s[j]][OutputPath[j]] = s[j + 1]
        BY <2>3, <4>1 DEF InPlace
      <4>3. s \in Seq(Dirs) /\ OutputPath \in Seq(Names)
        BY <1>1, WorkRootAssumption
      <4> QED BY <4>1, <4>2, <4>3
    <3>3. s[j] \in Free
      BY <1>5, <3>1 DEF Grown
    <3>4. entry[s[j]][OutputPath[j]] = NoDir
      BY <1>0, <3>2, <3>3, FreeFacts
    <3> QED BY <3>2, <3>4, WorkRootAssumption
  <2>5. s[j] \in ToSet(s)
    BY DEF ToSet
  <2>6. j = 1
    BY <1>2, <1>5, <2>3, <2>4, <2>5 DEF Grown
  <2>7. \A k \in 1 .. Len(s) : Linked(s[k])
    BY <1>1, <1>4, <2>3, <2>6, ChainLinked
  <2>8. \A k \in 1 .. Len(s) : s[k] \notin F
    BY <1>5, <2>7 DEF Grown, Free
  <2> QED BY <1>2, <1>5, <2>2, <2>8 DEF Grown, ToSet
<1>6. ASSUME NEW S, Pruned(S) PROVE Linked(p) /\ moved \cap ToSet(s) = {}
  <2>1. Linked(p) /\ p \notin S
    BY <1>1, <1>2, <1>6, LinkedPruned
  <2>2. PICK j \in 1 .. Len(s) : (j = 1 \/ s[j] \in moved) /\ InPlace(s, j)
    BY <1>1, <1>4, <2>1 DEF Anchored
  <2>3. ASSUME NEW i \in j .. Len(s) PROVE s[i] \notin S
    <3>0. i \in 1 .. Len(s) /\ i .. Len(s) - 1 \subseteq j .. Len(s) - 1
      BY <1>4
    <3>1. i \in 1 .. Len(s) /\ InPlace(s, i)
      BY <2>2, <3>0 DEF InPlace
    <3>2. Len(s) \in i .. Len(s) /\ Closed(S) /\ s[Len(s)] \notin S
      BY <1>1, <1>4, <1>6, <2>1 DEF Pruned
    <3>3. s[i] \in S => \A k \in i .. Len(s) : s[k] \in S
      BY <1>4, <3>1, <3>2, ChainStays
    <3> QED BY <3>2, <3>3
  <2>4. s[j] \notin S /\ s[j] \in ToSet(s)
    BY <1>4, <2>3 DEF ToSet
  <2>5. j = 1
    BY <1>2, <1>6, <2>2, <2>4 DEF Pruned
  <2> QED BY <1>2, <1>6, <2>1, <2>3, <2>5 DEF Pruned, ToSet
<1>7. ASSUME NEW e, Shifted(e) PROVE Linked(p) /\ moved \cap ToSet(s) = {}
  <2>1. Linked(p)
    BY <1>1, <1>2, <1>7, LinkedShifted
  <2> QED BY <1>2, <1>7, <2>1 DEF Shifted, ShiftedLink
<1> QED BY <1>5, <1>6, <1>7 DEF Change

(* What the compilation made stays below the work root in every change     *)
(* that is tame.                                                           *)
LEMMA KeptNext ==
  ASSUME Files, ancestry \in Seq(Dirs), ancestry # <<>> => ancestry[1] = Top,
         Len(ancestry) <= Len(OutputPath) + 1, ancestry # <<>> => Anchored(ancestry), name \in Names,
         Tame, ancestry' = ancestry, name' = name \/ mine = {}, Kept
  PROVE  Kept'
<1> SUFFICES ASSUME Undisturbed', NEW d \in Leftover' PROVE Made' \in Dirs /\ d \in Below(Made)'
  BY DEF Kept
<1>0. Links /\ Tree /\ NoDir \notin Dirs /\ mine \subseteq Dirs /\ moved \subseteq Dirs
  BY WorkRootAssumption DEF Files, FilesOK
<1>1. Undisturbed
  <2>1. Change
    BY DEF Tame, Change
  <2> QED BY <2>1, UndisturbedBefore
<1>2. d \in mine' /\ Linked(d)' /\ \A m \in moved' : d \notin Below(m)'
  BY DEF Leftover
<1>3. PICK p \in Dirs, n \in Names : p = Parent /\ n = name /\ Made = entry[p][n]
  BY <1>1 DEF Undisturbed, Parent, Last, Made
<1>4. name' = name => Made' = entry'[p][n] /\ Below(Made)' = Below(entry[p][n])'
  BY <1>3 DEF Made, Parent
<1>5. ASSUME NEW F, Grown(F), mine' \subseteq mine \cup F, Own(F)
      PROVE  Made' \in Dirs /\ d \in Below(Made)'
  <2>1. CASE d \in F
    BY <1>2, <1>5, <2>1 DEF Own
  <2>2. CASE d \notin F
    <3>1. d \in mine /\ d \in Dirs /\ Linked(d) /\ name' = name
      BY <1>0, <1>2, <1>5, <2>2, LinkedGrown
    <3>2. ASSUME NEW m \in moved PROVE d \notin Below(m)
      <4>1. CASE m \in moved'
        BY <1>0, <1>2, <1>5, <4>1, BelowGrown
      <4>2. CASE m \notin moved'
        <5>1. m \in F /\ m \in Dirs
          BY <1>0, <1>5, <4>2 DEF Grown
        <5>2. \A b \in Names : entry[m][b] = NoDir
          BY <1>0, <1>5, <5>1, FreeFacts DEF Grown
        <5>3. Closed({m})
          BY <1>0, <5>2 DEF Closed
        <5>4. Below(m) \subseteq {m}
          BY <5>1, <5>3, BelowFacts DEF BelowLaw
        <5> QED BY <5>1, <5>4, <2>2
      <4> QED BY <4>1, <4>2
    <3>3. d \in Leftover
      BY <3>1, <3>2 DEF Leftover
    <3>4. PICK r \in Dirs : r = entry[p][n] /\ d \in Below(r)
      BY <1>1, <1>3, <3>3 DEF Kept
    <3>5. Made' = r /\ Below(Made)' = Below(r)'
      BY <1>4, <1>5, <3>1, <3>4 DEF Grown
    <3>6. d \in Below(r)'
      BY <1>5, <3>4, BelowGrown
    <3> QED BY <3>5, <3>6
  <2> QED BY <2>1, <2>2
<1>6. ASSUME NEW S, Pruned(S) PROVE Made' \in Dirs /\ d \in Below(Made)'
  <2>1. d \in mine /\ d \notin S /\ d \in Dirs /\ Linked(d) /\ name' = name
    BY <1>0, <1>2, <1>6, LinkedPruned DEF Pruned
  <2>2. ASSUME NEW m \in moved PROVE d \notin Below(m)
    <3>1. CASE m \in S
      <4>1. Below(m) \subseteq S
        BY <1>0, <1>6, <3>1, BelowFacts DEF BelowLaw, Pruned
      <4> QED BY <4>1, <2>1
    <3>2. CASE m \notin S
      <4>1. m \in moved' /\ m \in Dirs
        BY <1>0, <1>6, <3>2 DEF Pruned
      <4> QED BY <1>2, <1>6, <2>1, <4>1, BelowPruned
    <3> QED BY <3>1, <3>2
  <2>3. d \in Leftover
    BY <2>1, <2>2 DEF Leftover
  <2>4. PICK r \in Dirs : r = entry[p][n] /\ d \in Below(r)
    BY <1>1, <1>3, <2>3 DEF Kept
  <2>5. r \notin S
    <3>1. r \in S => Below(r) \subseteq S
      BY <1>6, BelowFacts DEF BelowLaw, Pruned
    <3> QED BY <3>1, <2>1, <2>4
  <2>6. p \notin S
    BY <1>6, <2>4, <2>5 DEF Pruned, Closed
  <2>7. entry'[p][n] = r
    BY <1>6, <2>4, <2>5, <2>6 DEF Pruned
  <2>8. Made' = r /\ Below(Made)' = Below(r)'
    BY <1>4, <2>1, <2>4, <2>7
  <2>9. d \in Below(r)'
    BY <1>6, <2>1, <2>4, BelowPruned
  <2> QED BY <2>8, <2>9
<1>7. ASSUME NEW e, Shifted(e) PROVE Made' \in Dirs /\ d \in Below(Made)'
  <2>1. PICK c, k, to, l : ShiftedLink(e, c, k, to, l)
    BY <1>7 DEF Shifted
  <2>2. /\ mine' = mine /\ moved' = moved \cup {e}
        /\ \A a \in Dirs, b \in Names :
             entry'[a][b] = IF a = c /\ b = k THEN NoDir
                            ELSE IF a = to /\ b = l THEN e ELSE entry[a][b]
        /\ e \in Dirs /\ entry[c][k] = e /\ entry[to][l] = NoDir
    BY <2>1 DEF ShiftedLink
  <2>3. d \in mine /\ d \in Dirs /\ Linked(d) /\ name' = name /\ d \notin Below(e)'
    BY <1>0, <1>2, <1>7, <2>2, LinkedShifted
  <2>4. ASSUME NEW m \in moved PROVE d \notin Below(m)
    BY <1>0, <1>2, <1>7, <2>2, <2>3, BelowShifted
  <2>5. d \in Leftover
    BY <2>3, <2>4 DEF Leftover
  <2>6. PICK r \in Dirs : r = entry[p][n] /\ d \in Below(r)
    BY <1>1, <1>3, <2>5 DEF Kept
  <2>7. d \in Below(r)'
    BY <1>7, <2>3, <2>6, BelowShifted
  <2>8. r # e
    BY <2>3, <2>7
  <2>9. entry'[p][n] = r
    BY <1>0, <2>2, <2>6, <2>8
  <2>10. Made' = r /\ Below(Made)' = Below(r)'
    BY <1>4, <2>3, <2>6, <2>9
  <2> QED BY <2>7, <2>10
<1> QED BY <1>5, <1>6, <1>7 DEF Tame

-----------------------------------------------------------------------------
(* The paths of the compilation.                                           *)

(* The path of the work root goes with the output path up to its parent.   *)
LEMMA WorkPathFacts ==
  ASSUME Len(ancestry) \in 1 .. Len(OutputPath), NEW n \in Names
  PROVE  /\ WorkPath(n) \in Seq(Names) /\ Len(WorkPath(n)) = Len(ancestry)
         /\ \A i \in 1 .. Len(ancestry) - 1 : WorkPath(n)[i] = OutputPath[i]
         /\ WorkPath(n)[Len(ancestry)] = n
<1>1. PICK L \in 1 .. Len(OutputPath) : L = Len(ancestry)
  OBVIOUS
<1>2. OutputPath \in Seq(Names) /\ Len(OutputPath) \in Nat
  BY WorkRootAssumption
<1>3. SubSeq(OutputPath, 1, L - 1) \in Seq(Names) /\ Len(SubSeq(OutputPath, 1, L - 1)) = L - 1
      /\ \A i \in 1 .. L - 1 : SubSeq(OutputPath, 1, L - 1)[i] = OutputPath[i]
  BY <1>1, <1>2
<1>4. PICK q \in Seq(Names) : q = SubSeq(OutputPath, 1, L - 1) /\ Len(q) = L - 1
                              /\ \A i \in 1 .. L - 1 : q[i] = OutputPath[i]
  BY <1>3
<1>5. WorkPath(n) = Append(q, n)
  BY <1>1, <1>4 DEF WorkPath
<1>6. Append(q, n) \in Seq(Names) /\ Len(Append(q, n)) = L /\ Append(q, n)[L] = n
      /\ \A i \in 1 .. L - 1 : Append(q, n)[i] = q[i]
  BY <1>1, <1>4
<1> QED BY <1>1, <1>4, <1>5, <1>6

(* The directory of the runs is the work root or one in it (SessionScope). *)
LEMMA BaseFacts ==
  ASSUME Len(ancestry) \in 1 .. Len(OutputPath), name \in Names
  PROVE  /\ Base \in Seq(Names) /\ Len(Base) \in {Len(ancestry), Len(ancestry) + 1}
         /\ \A i \in 1 .. Len(ancestry) - 1 : Base[i] = OutputPath[i]
         /\ Base[Len(ancestry)] = name
<1>1. PICK w \in Seq(Names), L \in Nat :
        /\ w = WorkPath(name) /\ L = Len(ancestry) /\ Len(w) = L /\ L > 0 /\ w[L] = name
        /\ \A i \in 1 .. L - 1 : w[i] = OutputPath[i]
  BY WorkPathFacts
<1>2. RunnerName \in Names
  BY WorkRootAssumption
<1>3. /\ Append(w, RunnerName) \in Seq(Names) /\ Len(Append(w, RunnerName)) = L + 1
      /\ \A i \in 1 .. L : Append(w, RunnerName)[i] = w[i]
  BY <1>1, <1>2
<1>4. Base \in {w, Append(w, RunnerName)}
  BY <1>1 DEF Base
<1>5. CASE Base = w
  BY <1>1, <1>5
<1>6. CASE Base = Append(w, RunnerName)
  <2>1. \A i \in 1 .. L - 1 : i \in 1 .. L /\ L \in 1 .. L
    BY <1>1
  <2> QED BY <1>1, <1>3, <1>6, <2>1
<1> QED BY <1>4, <1>5, <1>6

(* The path of a run is one that can be followed.                          *)
LEMMA ScopeFacts ==
  ASSUME Len(ancestry) \in 1 .. Len(OutputPath), name \in Names, drawn \in 1 .. Len(ScopeNames)
  PROVE  Scope \in Seq(Names) /\ Len(Scope) > 0
<1>1. Base \in Seq(Names) /\ ScopeNames[drawn] \in Names
  BY BaseFacts, WorkRootAssumption
<1> QED BY <1>1 DEF Scope

(* A path through the name of the work root.                               *)
Ours(path) ==
  /\ path \in Seq(Names)
  /\ \A i \in 1 .. Len(ancestry) - 1 : i <= Len(path) => path[i] = OutputPath[i]
  /\ Len(ancestry) <= Len(path) => path[Len(ancestry)] = name

(* While nobody has renamed a directory above, such a path passes the      *)
(* parent, and what it leads to is below the work root, although the code  *)
(* follows it from "/" each time.                                          *)
LEMMA PathBelow ==
  ASSUME Shape, Tree, Anchors, Undisturbed, NEW path, Ours(path)
  PROVE  /\ \A k \in 0 .. Len(ancestry) - 1 : k <= Len(path) => Trail(path)[k] = ancestry[k + 1]
         /\ Len(ancestry) <= Len(path) =>
              Trail(path)[Len(ancestry) - 1] = Parent /\ Trail(path)[Len(ancestry)] = Made
         /\ \A k \in Len(ancestry) .. Len(path) :
              Trail(path)[k] \in Dirs => Made \in Dirs /\ Trail(path)[k] \in Below(Made)
<1>1. Links /\ path \in Seq(Names) /\ Len(path) \in Nat
  BY DEF Shape, TypeOK, Links, Targets, Ours
<1>2. PICK s \in Seq(Dirs), L \in Nat :
        /\ s = ancestry /\ s # <<>> /\ L = Len(s) /\ L > 0 /\ L <= Len(OutputPath)
        /\ s[1] = Top /\ s[L] = Parent
  BY DEF Shape, TypeOK, Undisturbed, Parent, Last
<1>3. InPlace(s, 1)
  BY <1>2, UndisturbedInPlace DEF Anchors, Undisturbed
<1>4. \A i \in 1 .. Len(s) - 1 : i <= Len(path) => entry[s[i]][path[i]] = s[i + 1]
  BY <1>2, <1>3 DEF InPlace, Ours
<1>5. \A k \in 0 .. Len(s) - 1 : k <= Len(path) => Trail(path)[k] = s[k + 1]
  BY <1>1, <1>2, <1>4, TrailFollows
<1>6. ASSUME L <= Len(path)
      PROVE  Trail(path)[L - 1] = s[L] /\ Trail(path)[L] = entry[s[L]][name]
  <2>1. L - 1 \in 0 .. Len(s) - 1 /\ L - 1 \in Nat /\ L - 1 < Len(path) /\ (L - 1) + 1 = L
    BY <1>1, <1>2, <1>6
  <2>2. Trail(path)[L - 1] = s[L] /\ s[L] \in Dirs
    BY <1>2, <1>5, <2>1
  <2>3. Trail(path)[(L - 1) + 1] = entry[s[L]][path[(L - 1) + 1]]
    BY <1>1, <2>1, <2>2, TrailNext DEF TrailLaw
  <2> QED BY <1>2, <1>6, <2>1, <2>2, <2>3 DEF Ours
<1>7. L <= Len(path) => Trail(path)[L] = Made
  BY <1>2, <1>6 DEF Made
<1>8. ASSUME NEW k \in L .. Len(path), Trail(path)[k] \in Dirs
      PROVE  Made \in Dirs /\ Trail(path)[k] \in Below(Made)
  <2>1. k \in 0 .. Len(path) /\ L \in 0 .. Len(path) /\ L <= k /\ L <= Len(path)
    BY <1>1
  <2>2. Trail(path)[L] \in Dirs /\ Trail(path)[k] \in Below(Trail(path)[L])
    BY <1>1, <1>8, <2>1, TrailBelow
  <2> QED BY <1>7, <2>1, <2>2
<1> QED BY <1>2, <1>5, <1>6, <1>7, <1>8

(* Directories that are made along such a path are below the work root.    *)
LEMMA MakingOwn ==
  ASSUME Shape, Tree, Anchors, ancestry # <<>>, NEW path, Ours(path),
         NEW known, NEW fresh, Making(path, known, fresh), Grown(NewOf(path, known, fresh)),
         UNCHANGED <<ancestry, name>>
  PROVE  Own(NewOf(path, known, fresh))
<1> SUFFICES ASSUME Undisturbed'
             PROVE  Made' \in Dirs /\ \A d \in NewOf(path, known, fresh) : d \in Below(Made)'
  BY DEF Own
<1>0. BelowLaw'
  BY BelowFacts, PTL
<1>1. Links /\ path \in Seq(Names) /\ Len(path) \in Nat /\ BelowLaw'
  BY <1>0 DEF Shape, TypeOK, Links, Targets, Ours
<1>2. Undisturbed
  BY UndisturbedBefore DEF Shape, Tree, TypeOK, Anchors, Change, Files, FilesOK, Links, Targets
<1>3. PICK s \in Seq(Dirs), L \in Nat, p \in Dirs, n \in Names :
        /\ s = ancestry /\ s # <<>> /\ L = Len(s) /\ L > 0 /\ L <= Len(OutputPath)
        /\ p = Parent /\ n = name /\ Made = entry[p][n] /\ Made' = entry'[p][n]
        /\ Below(Made)' = Below(entry[p][n])'
  <2>1. ancestry \in Seq(Dirs) /\ name \in Names /\ Len(ancestry) \in Nat /\ Len(ancestry) > 0
        /\ Len(ancestry) <= Len(OutputPath) /\ Parent \in Dirs
    BY DEF Shape, TypeOK, Parent, Last
  <2>2. Made = entry[Parent][name] /\ Made' = entry'[Parent][name]
        /\ Below(Made)' = Below(entry[Parent][name])'
    BY DEF Made, Parent
  <2> QED BY <2>1, <2>2
<1>4. /\ \A k \in 0 .. L - 1 : k <= Len(path) => Trail(path)[k] = s[k + 1]
      /\ L <= Len(path) => Trail(path)[L - 1] = p /\ Trail(path)[L] = Made
      /\ \A k \in L .. Len(path) :
           Trail(path)[k] \in Dirs => Made \in Dirs /\ Trail(path)[k] \in Below(Made)
  BY <1>2, <1>3, PathBelow
<1>5. /\ known \in Nat /\ known < Len(path) /\ fresh \in [known + 1 .. Len(path) -> Free]
      /\ Trail(path)[known] \in Dirs /\ Trail(path)[known + 1] = NoDir
      /\ \A k \in known + 1 .. Len(path) : entry'[Holder(path, known, fresh, k)][path[k]] = fresh[k]
  BY DEF Making
<1>6. known + 1 >= L
  <2>1. SUFFICES ASSUME known + 1 <= L - 1 PROVE FALSE
    BY <1>3, <1>5
  <2>2. known + 1 \in 0 .. L - 1 /\ known + 1 <= Len(path) /\ known + 2 \in 1 .. Len(s)
        /\ (known + 1) + 1 = known + 2
    BY <1>1, <1>3, <1>5, <2>1
  <2>3. Trail(path)[known + 1] = s[known + 2]
    BY <1>4, <2>2
  <2> QED BY <1>5, <2>2, <2>3, WorkRootAssumption
<1>7. known + 1 \in known + 1 .. Len(path) /\ path[known + 1] \in Names /\ L <= Len(path)
      /\ fresh[known + 1] \in Dirs /\ \A k \in known + 1 .. Len(path) : fresh[k] \in Dirs
  <2>1. known + 1 \in known + 1 .. Len(path) /\ known + 1 \in 1 .. Len(path) /\ L <= Len(path)
    BY <1>3, <1>5, <1>6
  <2>2. path \in Seq(Names)
    BY DEF Ours
  <2>3. path[known + 1] \in Names
    BY <2>1, <2>2
  <2>4. Free \subseteq Dirs
    BY DEF Free
  <2>5. \A k \in known + 1 .. Len(path) : fresh[k] \in Dirs
    BY <1>5, <2>4
  <2> QED BY <2>1, <2>3, <2>5
<1>8. entry'[Trail(path)[known]][path[known + 1]] = fresh[known + 1]
  BY <1>5, <1>7 DEF Holder
<1>9. PICK r \in Dirs : r = entry'[p][n] /\ fresh[known + 1] \in Below(r)'
  <2>1. CASE known + 1 = L
    <3>0. known = L - 1
      BY <1>3, <1>5, <2>1
    <3>1. Trail(path)[known] = p /\ path[known + 1] = n
      BY <1>3, <1>4, <1>7, <2>1, <3>0 DEF Ours
    <3> QED BY <3>1, <1>1, <1>7, <1>8 DEF BelowLaw
  <2>2. CASE known + 1 # L
    <3>1. known \in L .. Len(path)
      BY <1>1, <1>3, <1>5, <1>6, <2>2
    <3>2. PICK r \in Dirs : r = entry[p][n] /\ Trail(path)[known] \in Below(r)
      BY <1>3, <1>4, <1>5, <3>1
    <3>3. entry'[p][n] = r
      BY <3>2 DEF Grown
    <3>4. Trail(path)[known] \in Below(r)'
      BY <3>2, BelowGrown
    <3>5. fresh[known + 1] \in Below(r)'
      BY <1>1, <1>7, <1>8, <3>4 DEF BelowLaw, Closed
    <3> QED BY <3>3, <3>5
  <2> QED BY <2>1, <2>2
<1>10. PICK B \in SUBSET Dirs : B = Below(r)'
  BY <1>1 DEF BelowLaw
<1>11. \A a \in B, b \in Names : entry'[a][b] \in Dirs => entry'[a][b] \in B
  BY <1>1, <1>10 DEF BelowLaw, Closed
<1> DEFINE T == {j \in Nat : known + 1 + j <= Len(path) => fresh[known + 1 + j] \in B}
<1>12. 0 \in T
  BY <1>5, <1>9, <1>10
<1>13. ASSUME NEW j \in Nat, j \in T PROVE j + 1 \in T
  <2> SUFFICES ASSUME known + 1 + (j + 1) <= Len(path) PROVE fresh[known + 1 + (j + 1)] \in B
    OBVIOUS
  <2>1. PICK k \in known + 1 .. Len(path) : k = known + 1 + (j + 1)
    BY <1>5
  <2>2. k # known + 1 /\ k - 1 = known + 1 + j /\ k - 1 <= Len(path)
    BY <1>1, <1>5, <2>1
  <2>3. fresh[k - 1] \in B
    BY <1>13, <2>2
  <2>4. entry'[fresh[k - 1]][path[k]] = fresh[k]
    BY <1>5, <2>2 DEF Holder
  <2>5. path[k] \in Names
    BY <1>1, <1>5
  <2> QED BY <1>7, <1>11, <2>1, <2>3, <2>4, <2>5
<1> HIDE DEF T
<1>14. Nat \subseteq T
  BY <1>12, <1>13, SetInduction
<1>15. ASSUME NEW k \in known + 1 .. Len(path) PROVE fresh[k] \in B
  <2>1. k - (known + 1) \in Nat /\ known + 1 + (k - (known + 1)) = k /\ k <= Len(path)
    BY <1>1, <1>5
  <2> QED BY <1>14, <2>1 DEF T
<1> QED BY <1>3, <1>9, <1>10, <1>15 DEF NewOf

(* So is a directory that is made at its end.                              *)
LEMMA MkdirOwn ==
  ASSUME Shape, Tree, Anchors, ancestry # <<>>, NEW path, Ours(path), Len(ancestry) <= Len(path),
         Lookup(path) \in Dirs, NEW k \in Names, NEW e, Mkdir(Lookup(path), k, e),
         UNCHANGED <<ancestry, name>>
  PROVE  Own({e})
<1> SUFFICES ASSUME Undisturbed' PROVE Made' \in Dirs /\ e \in Below(Made)'
  BY DEF Own
<1>0. BelowLaw'
  BY BelowFacts, PTL
<1>1. PICK base \in Dirs : base = Lookup(path) /\ base = Trail(path)[Len(path)]
  BY DEF Lookup
<1>2. Files
  BY DEF Shape, TypeOK, Files, FilesOK, Links, Targets
<1>3. Grown({e}) /\ entry'[base][k] = e /\ e \in Dirs
  <2>1. Mkdir(base, k, e)
    BY <1>1
  <2> QED BY <1>2, <2>1, MkdirFiles
<1>4. Undisturbed
  BY <1>2, <1>3, UndisturbedBefore DEF Shape, TypeOK, Anchors, Change
<1>5. PICK p \in Dirs, n \in Names :
        /\ Made = entry[p][n] /\ Made' = entry'[p][n] /\ Below(Made)' = Below(entry[p][n])'
  <2>1. Parent \in Dirs /\ name \in Names
    BY DEF Shape, TypeOK, Parent, Last
  <2>2. Made = entry[Parent][name] /\ Made' = entry'[Parent][name]
        /\ Below(Made)' = Below(entry[Parent][name])'
    BY DEF Made, Parent
  <2> QED BY <2>1, <2>2
<1>6. PICK r \in Dirs : r = entry[p][n] /\ base \in Below(r)
  <2>1. Len(path) \in Len(ancestry) .. Len(path)
    BY DEF Ours, Shape, TypeOK
  <2> QED BY <1>1, <1>4, <1>5, <2>1, PathBelow
<1>7. entry'[p][n] = r
  BY <1>3, <1>6 DEF Grown
<1>8. base \in Below(r)'
  BY <1>3, <1>6, BelowGrown
<1>9. e \in Below(r)'
  BY <1>0, <1>3, <1>8 DEF BelowLaw, Closed
<1> QED BY <1>5, <1>7, <1>9

-----------------------------------------------------------------------------
(* What every action does to the files.                                    *)

(* The invariant gives the type of the files and of what is held.          *)
LEMMA ShapeFiles ==
  ASSUME Shape, Tree
  PROVE  /\ Files /\ Links /\ BelowLaw
         /\ ancestry \in Seq(Dirs) /\ Len(ancestry) <= Len(OutputPath) + 1
         /\ ancestry # <<>> => Parent \in Dirs /\ Len(ancestry) \in 1 .. Len(OutputPath)
         /\ name \in Names /\ root \in Dirs \cup {NoDir}
<1>1. ancestry \in Seq(Dirs) /\ name \in Names /\ root \in Dirs \cup {NoDir} /\ Len(ancestry) \in Nat
      /\ (ancestry # <<>> => Len(ancestry) <= Len(OutputPath)) /\ Len(OutputPath) \in Nat
  BY WorkRootAssumption DEF Shape, TypeOK
<1>2. ancestry # <<>> => Parent \in Dirs /\ Len(ancestry) \in 1 .. Len(OutputPath)
  BY <1>1 DEF Parent, Last
<1>3. Files /\ Links
  BY DEF Shape, TypeOK, Files, FilesOK, Links, Targets
<1> QED BY <1>1, <1>2, <1>3, BelowFacts

(* A step that changes no file is tame.                                    *)
LEMMA StillFiles ==
  ASSUME Shape, Tree, UNCHANGED files
  PROVE  Files' /\ Tame /\ Mild
BY ShapeFiles, KeepFiles DEF Tame, Mild, Own

(* The directory of the runs, and every part of its path, is reached       *)
(* through the work root.                                                  *)
LEMMA BaseOurs ==
  ASSUME Shape, Tree, ancestry # <<>>
  PROVE  Ours(Base) /\ Len(ancestry) <= Len(Base)
         /\ \A k \in 0 .. Len(Base) : Ours(SubSeq(Base, 1, k)) /\ Len(SubSeq(Base, 1, k)) = k
<1>1. PICK L \in Nat, b \in Seq(Names) :
        /\ L = Len(ancestry) /\ b = Base /\ Len(b) \in {L, L + 1} /\ b[L] = name /\ L > 0
        /\ \A i \in 1 .. L - 1 : b[i] = OutputPath[i]
  BY ShapeFiles, BaseFacts
<1>2. Ours(b) /\ L <= Len(b)
  BY <1>1 DEF Ours
<1>3. ASSUME NEW k \in 0 .. Len(b)
      PROVE  Ours(SubSeq(b, 1, k)) /\ Len(SubSeq(b, 1, k)) = k
  <2>0. Len(b) \in Nat
    BY <1>1
  <2>1. PICK c \in Seq(Names) : c = SubSeq(b, 1, k) /\ Len(c) = k /\ \A i \in 1 .. k : c[i] = b[i]
    <3>1. /\ SubSeq(b, 1, k) \in Seq(Names) /\ Len(SubSeq(b, 1, k)) = k
          /\ \A i \in 1 .. k : SubSeq(b, 1, k)[i] = b[i]
      BY <2>0
    <3> QED BY <3>1
  <2>2. Ours(c)
    BY <1>1, <2>1 DEF Ours
  <2> QED BY <2>1, <2>2
<1> QED BY <1>1, <1>2, <1>3

(* PrepareBase and OpenScopeFails make directories below the work root     *)
(* only.                                                                   *)
LEMMA MakeAllFiles ==
  ASSUME Shape, Tree, Anchors, ancestry # <<>>, NEW path, Ours(path), MakeAll(path),
         UNCHANGED <<ancestry, name>>
  PROVE  Files' /\ Tame /\ \E F : Grown(F)
<1>0. Files /\ FilesOK /\ Links /\ path \in Seq(Names)
  BY ShapeFiles DEF Files, Ours
<1>1. FilesOK'
  BY <1>0, MakeAllMakes
<1>2. PICK known, fresh :
        /\ Making(path, known, fresh)
        /\ mine' = mine \cup NewOf(path, known, fresh)
        /\ moved' = moved \ NewOf(path, known, fresh)
  BY <1>0, MakeAllMakes
<1>3. Tree'
  BY <1>0, <1>1, <1>2, TreeMade DEF FilesOK
<1>4. \A k \in known + 1 .. Len(path) : fresh[k] \in NewOf(path, known, fresh)
  BY DEF NewOf
<1>5. Grown(NewOf(path, known, fresh))
  <2>1. NewOf(path, known, fresh) \subseteq Free
    BY <1>0, <1>2, MakingGrows
  <2>2. \A c \in Dirs, n \in Names : entry[c][n] \in Dirs => entry'[c][n] = entry[c][n]
    BY <1>0, <1>2, MakingGrows
  <2>3. \A c \in Dirs, n \in Names :
          entry'[c][n] = entry[c][n] \/ \E k \in known + 1 .. Len(path) : entry'[c][n] = fresh[k]
    BY <1>0, <1>2, MakingGrows
  <2> QED BY <1>2, <1>4, <2>1, <2>2, <2>3 DEF Grown
<1>6. Own(NewOf(path, known, fresh))
  BY <1>2, <1>5, MakingOwn
<1> QED BY <1>1, <1>2, <1>3, <1>5, <1>6 DEF Files, Tame

(* Draw makes the work root, the first directory of the compilation, or    *)
(* nothing.                                                                *)
LEMMA DrawFiles ==
  ASSUME Shape, Tree, NEW n \in WorkNames, Draw(n)
  PROVE  /\ Files' /\ Tame
         /\ \/ UNCHANGED <<files, pc>>
            \/ pc' = "open" /\ \E d \in Dirs : Mkdir(Parent, n, d) /\ Grown({d}) /\ mine' = {d}
<1>0. Files /\ BelowLaw' /\ ancestry # <<>> /\ mine = {} /\ n \in Names /\ Parent \in Dirs
  <2>1. BelowLaw'
    BY BelowFacts, PTL
  <2> QED BY <2>1, ShapeFiles, WorkRootAssumption DEF Shape, Draw
<1>1. CASE UNCHANGED <<files, pc>>
  BY <1>1, StillFiles DEF files
<1>2. CASE pc' = "open" /\ \E d \in Free : Mkdir(Parent, n, d)
  <2>1. PICK d \in Free : Mkdir(Parent, n, d)
    BY <1>2
  <2>2. PICK p \in Dirs : p = Parent
    BY <1>0
  <2>3. Files' /\ Grown({d}) /\ mine' = {d} /\ d \in Dirs /\ entry'[p][n] = d
    BY <1>0, <2>1, <2>2, MkdirFiles
  <2>4. Made' = d
    BY <2>2, <2>3 DEF Made, Parent, Draw
  <2>5. d \in Below(Made)'
    <3>1. Below(Made)' = Below(d)'
      BY <2>4
    <3> QED BY <3>1, <1>0, <2>3 DEF BelowLaw
  <2>6. Own({d})
    BY <2>3, <2>4, <2>5 DEF Own
  <2> QED BY <1>0, <1>2, <2>1, <2>3, <2>6 DEF Tame
<1> QED BY <1>1, <1>2 DEF Draw

(* What the compilation removes by a path does not have "/" below it.      *)
LEMMA BelowNotTop ==
  ASSUME Shape, Tree, NEW path \in Seq(Names), Len(path) > 0, Lookup(path) \in Dirs
  PROVE  Top \notin Below(Lookup(path))
<1>0. Links /\ BelowLaw
  BY ShapeFiles
<1>1. PICK k \in Nat : k + 1 = Len(path) /\ k < Len(path)
  <2>1. Len(path) - 1 \in Nat /\ (Len(path) - 1) + 1 = Len(path) /\ Len(path) - 1 < Len(path)
    OBVIOUS
  <2> QED BY <2>1
<1>2. PICK d \in Dirs : d = Lookup(path) /\ d = Trail(path)[k + 1]
  BY <1>1 DEF Lookup
<1>3. Trail(path)[k] \in Dirs
  BY <1>0, <1>1, <1>2, TrailNext DEF TrailLaw, Targets, Links
<1>4. d # Top
  BY <1>0, <1>1, <1>2, <1>3, TrailNext DEF TrailLaw, Tree
<1>5. \A c \in Below(d) : c \in Dirs
  BY <1>0, <1>2 DEF BelowLaw
<1>6. Top \notin Below(d)
  BY <1>2, <1>4, <1>5, BelowLinked DEF Tree
<1> QED BY <1>2, <1>6

(* OpenFails removes an empty directory, or nothing.                       *)
LEMMA OpenFailsFiles ==
  ASSUME Shape, Tree, OpenFails
  PROVE  Files' /\ Tame
<1>1. Files /\ Parent \in Dirs /\ name \in Names
  BY ShapeFiles DEF OpenFails, Shape
<1>2. CASE CanRmdir(Parent, name) /\ Rmdir(Parent, name)
  BY <1>1, <1>2, RmdirFiles DEF Tame
<1>3. CASE UNCHANGED files
  BY <1>3, StillFiles
<1> QED BY <1>2, <1>3 DEF OpenFails

(* OpenScope makes the directory of a run below the work root.             *)
LEMMA ScopeMkdirFiles ==
  ASSUME Shape, Tree, Anchors, pc = "scope", Lookup(Base) \in Dirs, drawn < Len(ScopeNames),
         NEW d \in Free, Mkdir(Lookup(Base), ScopeNames[drawn + 1], d), UNCHANGED <<ancestry, name>>
  PROVE  Files' /\ Tame /\ Mild
<1>1. Files /\ ScopeNames[drawn + 1] \in Names /\ ancestry # <<>>
  BY ShapeFiles, WorkRootAssumption DEF Shape, TypeOK
<1>2. Ours(Base) /\ Len(ancestry) <= Len(Base)
  BY <1>1, BaseOurs
<1>3. Files' /\ Grown({d}) /\ mine' = mine \cup {d}
  BY <1>1, MkdirFiles
<1>4. Own({d})
  BY <1>1, <1>2, MkdirOwn
<1> QED BY <1>3, <1>4 DEF Tame, Mild

(* The actions of the runs are tame, and change nothing of other           *)
(* processes.                                                              *)
LEMMA RunFiles ==
  ASSUME Shape, Tree, Anchors, Run
  PROVE  Files' /\ Tame /\ Mild
<1>0. ancestry # <<>>
  BY DEF Shape, Run, BeginRun, PrepareBase, OpenScope, OpenScopeFails, CloseScope, CloseScopeFails
<1>1. CASE BeginRun
  BY <1>1, StillFiles DEF BeginRun
<1>2. CASE PrepareBase
  BY <1>0, <1>2, BaseOurs, MakeAllFiles DEF PrepareBase, own, Mild
<1>3. CASE OpenScope
  <2>1. CASE UNCHANGED files
    BY <2>1, StillFiles
  <2>2. CASE ~UNCHANGED files
    <3>1. /\ pc = "scope" /\ Lookup(Base) \in Dirs /\ drawn < Len(ScopeNames) /\ drawn' = drawn + 1
          /\ UNCHANGED <<ancestry, name>>
      BY <1>3 DEF OpenScope, own
    <3>2. PICK d \in Free : Mkdir(Lookup(Base), ScopeNames[drawn'], d)
      BY <1>3, <2>2 DEF OpenScope
    <3> QED BY <3>1, <3>2, ScopeMkdirFiles
  <2> QED BY <2>1, <2>2
<1>4. CASE OpenScopeFails
  <2>0. pc = "scope" /\ UNCHANGED <<ancestry, name>>
    BY <1>4 DEF OpenScopeFails, own
  <2>1. CASE UNCHANGED files
    BY <2>1, StillFiles
  <2>2. CASE \E k \in 0 .. Len(Base) - 1 : MakeAll(SubSeq(Base, 1, k))
    <3>1. PICK k \in 0 .. Len(Base) - 1 : MakeAll(SubSeq(Base, 1, k))
      BY <2>2
    <3>2. k \in 0 .. Len(Base)
      OBVIOUS
    <3> QED BY <1>0, <2>0, <3>1, <3>2, BaseOurs, MakeAllFiles DEF Mild
  <2>3. CASE /\ Lookup(Base) \in Dirs /\ drawn < Len(ScopeNames) /\ drawn' = drawn + 1
             /\ \E d \in Free : Mkdir(Lookup(Base), ScopeNames[drawn'], d)
    BY <2>0, <2>3, ScopeMkdirFiles
  <2> QED BY <1>4, <2>1, <2>2, <2>3 DEF OpenScopeFails
<1>5. ASSUME NEW gone, pc = "run", Lookup(Scope) \in Dirs, gone \subseteq Below(Lookup(Scope)),
             Closed(gone), RemoveAll(gone)
      PROVE  Files' /\ Tame /\ Mild
  <2>1. Scope \in Seq(Names) /\ Len(Scope) > 0 /\ Files /\ BelowLaw
    BY <1>0, <1>5, ScopeFacts, ShapeFiles DEF Shape
  <2>2. gone \in SUBSET Dirs /\ Top \notin gone
    BY <1>5, <2>1, BelowNotTop DEF BelowLaw
  <2> QED BY <1>5, <2>1, <2>2, RemoveAllFiles DEF Tame, Mild
<1>6. CASE CloseScope
  <2>1. BelowLaw
    BY BelowFacts
  <2>2. pc = "run" /\ Lookup(Scope) \in Dirs /\ RemoveAll(Below(Lookup(Scope)))
    BY <1>6 DEF CloseScope
  <2>3. Closed(Below(Lookup(Scope)))
    BY <2>1, <2>2 DEF BelowLaw
  <2> QED BY <1>5, <2>2, <2>3
<1>7. CASE CloseScopeFails
  <2>1. CASE UNCHANGED files
    BY <2>1, StillFiles
  <2>2. CASE /\ Lookup(Scope) \in Dirs
             /\ \E gone \in SUBSET (Below(Lookup(Scope)) \ {Lookup(Scope)}) :
                  Closed(gone) /\ RemoveAll(gone)
    <3>1. PICK gone \in SUBSET (Below(Lookup(Scope)) \ {Lookup(Scope)}) :
            Closed(gone) /\ RemoveAll(gone)
      BY <2>2
    <3>2. gone \subseteq Below(Lookup(Scope)) /\ pc = "run"
      BY <1>7 DEF CloseScopeFails
    <3> QED BY <1>5, <2>2, <3>1, <3>2
  <2> QED BY <1>7, <2>1, <2>2 DEF CloseScopeFails
<1> QED BY <1>1, <1>2, <1>3, <1>4, <1>6, <1>7 DEF Run

(* The removal only removes.                                               *)
LEMMA CleanUpFiles ==
  ASSUME Shape, Tree, CleanUp
  PROVE  Files' /\ Tame
<1>1. CASE RemoveRunner
  <2>1. Files /\ root \in Dirs /\ RunnerName \in Names
    BY <1>1, ShapeFiles, WorkRootAssumption DEF RemoveRunner, Shape, Late
  <2> QED BY <1>1, <2>1, RmdirFiles DEF RemoveRunner, Tame
<1>2. CASE RemoveRoot
  <2>1. Files /\ Parent \in Dirs /\ name \in Names
    BY <1>2, ShapeFiles DEF RemoveRoot, Shape
  <2> QED BY <1>2, <2>1, RmdirFiles DEF RemoveRoot, Tame
<1>3. CASE ~RemoveRunner /\ ~RemoveRoot
  <2>1. UNCHANGED files
    BY <1>3 DEF CleanUp, Finish, CheckRunner, CheckRunnerFails, RemoveRunner, RemoveRunnerFails,
       Compare, CompareFails, RemoveRootFails
  <2> QED BY <2>1, StillFiles
<1> QED BY <1>1, <1>2, <1>3

(* Another process makes, removes or renames one thing.                    *)
LEMMA InterfereFiles ==
  ASSUME Shape, Tree, Interfere
  PROVE  Files' /\ Tame
<1>1. PICK d \in Dirs, n \in Names :
        Linked(d) /\ (OtherMakes(d, n) \/ OtherRemoves(d, n) \/ OtherMoves(d, n))
  BY DEF Interfere
<1>2. Files
  BY ShapeFiles
<1>3. CASE OtherMakes(d, n)
  <2>1. PICK F : Files' /\ Grown(F) /\ mine' \subseteq mine /\ mine' \cap F = {}
    BY <1>1, <1>2, <1>3, OtherMakesFiles
  <2> QED BY <2>1 DEF Tame, Own
<1>4. CASE OtherRemoves(d, n)
  <2>1. Files' /\ ((Grown({}) /\ mine' = mine) \/ \E S : Pruned(S))
    BY <1>1, <1>2, <1>4, OtherRemovesFiles
  <2> QED BY <2>1 DEF Tame, Own
<1>5. CASE OtherMoves(d, n)
  BY <1>2, <1>5, OtherMovesFiles DEF Tame
<1> QED BY <1>1, <1>3, <1>4, <1>5

(* Every step keeps the forest and is tame.                                *)
LEMMA StepFiles ==
  ASSUME Shape, Tree, Anchors, [Next]_vars
  PROVE  Files' /\ Tame
<1>1. CASE Walk \/ UNCHANGED vars
  <2>1. UNCHANGED files
    BY <1>1 DEF Walk, Descend, WalkFails, FindParent, WalkEnds, vars
  <2> QED BY <2>1, StillFiles
<1>2. CASE Create
  <2>1. CASE \E n \in WorkNames : Draw(n)
    BY <2>1, DrawFiles
  <2>2. CASE OpenFails
    BY <2>2, OpenFailsFiles
  <2>3. CASE DrawFails \/ Open \/ Validate \/ ValidateFails \/ Accept \/ Reject
    <3>1. UNCHANGED files
      BY <2>3 DEF DrawFails, Open, Validate, ValidateFails, Accept, Reject
    <3> QED BY <3>1, StillFiles
  <2> QED BY <1>2, <2>1, <2>2, <2>3 DEF Create
<1> QED BY <1>1, <1>2, RunFiles, CleanUpFiles, InterfereFiles DEF Next

-----------------------------------------------------------------------------
(* The shape of the state.                                                 *)

(* Sequences that agree are prefixes of one another.                       *)
LEMMA PrefixOf ==
  ASSUME NEW s \in Seq(Names), NEW t \in Seq(Names), Len(s) <= Len(t),
         \A i \in 1 .. Len(s) : s[i] = t[i]
  PROVE  IsPrefix(s, t)
<1>1. Len(s) \in Nat /\ Len(t) \in Nat
  OBVIOUS
<1>2. SubSeq(s, 1, Len(s)) \in Seq(Names) /\ Len(SubSeq(s, 1, Len(s))) = Len(s)
      /\ \A i \in 1 .. Len(s) : SubSeq(s, 1, Len(s))[i] = s[i]
  BY <1>1
<1>3. SubSeq(t, 1, Len(s)) \in Seq(Names) /\ Len(SubSeq(t, 1, Len(s))) = Len(s)
      /\ \A i \in 1 .. Len(s) : SubSeq(t, 1, Len(s))[i] = t[i]
  BY <1>1
<1>4. PICK a \in Seq(Names), b \in Seq(Names) : a = SubSeq(s, 1, Len(s)) /\ b = SubSeq(t, 1, Len(s))
  BY <1>2, <1>3
<1>5. Len(a) = Len(b) /\ \A i \in 1 .. Len(a) : a[i] = b[i]
  BY <1>2, <1>3, <1>4
<1>6. a = b
  BY <1>5
<1> QED BY <1>4, <1>6 DEF IsPrefix

(* A name that Draw takes is not the one by which the output path goes on  *)
(* from the parent (paths_overlap).                                        *)
LEMMA OtherName ==
  ASSUME Len(ancestry) \in 1 .. Len(OutputPath), NEW n \in Names, ~IsPrefix(WorkPath(n), OutputPath)
  PROVE  n # OutputPath[Len(ancestry)]
<1>1. PICK w \in Seq(Names), L \in 1 .. Len(OutputPath) :
        /\ w = WorkPath(n) /\ L = Len(ancestry) /\ Len(w) = L /\ w[L] = n
        /\ \A i \in 1 .. L - 1 : w[i] = OutputPath[i]
  BY WorkPathFacts
<1>2. OutputPath \in Seq(Names) /\ ~IsPrefix(w, OutputPath)
  BY <1>1, WorkRootAssumption
<1>3. n = OutputPath[L] => \A i \in 1 .. Len(w) : w[i] = OutputPath[i]
  BY <1>1
<1>4. n = OutputPath[L] => IsPrefix(w, OutputPath)
  BY <1>1, <1>2, <1>3, PrefixOf
<1> QED BY <1>1, <1>2, <1>4

(* Where a walk stands on the output path.                                 *)
LEMMA WalkFacts ==
  ASSUME Shape
  PROVE  /\ ids \in Seq(Dirs) /\ Len(ids) \in Nat /\ Len(ids) > 0 /\ Depth \in Nat
         /\ Here \in Dirs /\ Here = ids[Depth + 1] /\ Depth + 1 = Len(ids)
         /\ Depth <= Len(OutputPath) /\ (~Complete => Depth < Len(OutputPath))
         /\ ~Complete => OutputPath[Depth + 1] \in Names
         /\ Len(OutputPath) \in Nat /\ Len(OutputPath) > 0
<1>1. ids \in Seq(Dirs) /\ Len(ids) \in Nat /\ Len(ids) > 0 /\ Len(ids) <= Len(OutputPath) + 1
      /\ Len(OutputPath) \in Nat /\ Len(OutputPath) > 0
  BY WorkRootAssumption DEF Shape, TypeOK
<1>2. Depth \in Nat /\ Depth + 1 = Len(ids) /\ Depth <= Len(OutputPath)
      /\ (~Complete => Depth < Len(OutputPath))
  BY <1>1 DEF Depth, Complete
<1>3. Here \in Dirs /\ Here = ids[Depth + 1]
  BY <1>1, <1>2 DEF Here, Last
<1>4. ~Complete => OutputPath[Depth + 1] \in Names
  BY <1>1, <1>2, WorkRootAssumption
<1> QED BY <1>1, <1>2, <1>3, <1>4

(* The directories from "/" to the parent of the work root, as FindParent  *)
(* keeps them.                                                             *)
LEMMA SiblingsFacts ==
  ASSUME Shape
  PROVE  /\ Siblings \in Seq(Dirs) /\ Siblings # <<>> /\ Siblings[1] = Top
         /\ Len(Siblings) <= Len(OutputPath) /\ Len(Siblings) <= Len(ids)
         /\ \A k \in 1 .. Len(Siblings) : Siblings[k] = ids[k]
<1>1. PICK s \in Seq(Dirs) : s = ids /\ Len(s) \in Nat /\ Len(s) > 0 /\ s[1] = Top
  BY WalkFacts DEF Shape
<1>2. CASE Complete
  <2>1. Len(s) > 1 /\ Len(s) - 1 = Len(OutputPath)
    BY <1>1, <1>2, WalkFacts DEF Complete, Depth
  <2>2. /\ SubSeq(s, 1, Len(s) - 1) \in Seq(Dirs) /\ Len(SubSeq(s, 1, Len(s) - 1)) = Len(s) - 1
        /\ \A i \in 1 .. Len(s) - 1 : SubSeq(s, 1, Len(s) - 1)[i] = s[i]
    BY <1>1, <2>1
  <2>3. Siblings = SubSeq(s, 1, Len(s) - 1)
    BY <1>1, <1>2 DEF Siblings, Front
  <2>4. PICK q \in Seq(Dirs) : q = SubSeq(s, 1, Len(s) - 1) /\ Len(q) = Len(s) - 1
                                /\ \A i \in 1 .. Len(s) - 1 : q[i] = s[i]
    BY <2>2
  <2>5. q # <<>> /\ q[1] = Top /\ Len(q) = Len(s) - 1 /\ \A k \in 1 .. Len(q) : q[k] = s[k]
    <3>1. 1 \in 1 .. Len(s) - 1 /\ Len(q) > 0
      BY <1>1, <2>1, <2>4
    <3>2. q # <<>>
      BY <3>1
    <3>3. \A k \in 1 .. Len(q) : q[k] = s[k]
      BY <2>4
    <3> QED BY <1>1, <2>4, <3>1, <3>2, <3>3
  <2>6. Siblings = q
    BY <2>3, <2>4
  <2> QED BY <1>1, <2>1, <2>5, <2>6
<1>3. CASE ~Complete
  BY <1>1, <1>3, WalkFacts DEF Siblings
<1> QED BY <1>2, <1>3

(* The actions of the walks keep Shape.                                    *)
LEMMA ShapeWalk ==
  ASSUME Shape, Tree, Files', Walk
  PROVE  Shape'
<1>0. FilesOK'
  BY DEF Files
<1>1. CASE Descend
  <2>1. PICK s \in Seq(Dirs), d \in Dirs :
          /\ s = ids /\ d = Ahead /\ ids' = Append(s, d) /\ s # <<>> /\ s[1] = Top
          /\ Len(s) \in Nat /\ Len(s) <= Len(OutputPath)
    BY <1>1, WalkFacts DEF Descend, Shape
  <2>2. PICK t \in Seq(Dirs) : t = Append(s, d) /\ Len(t) = Len(s) + 1 /\ t[1] = s[1]
    BY <2>1
  <2>3. ids' \in Seq(Dirs) /\ ids' # <<>> /\ Len(ids') <= Len(OutputPath) + 1 /\ ids'[1] = Top
    BY <2>1, <2>2, WalkFacts
  <2>4. pc' = pc /\ pc \in {"walk", "again"}
    BY <1>1 DEF Descend, Walking
  <2> QED BY <1>0, <1>1, <2>3, <2>4
      DEF Descend, Shape, TypeOK, FilesOK, Links, Targets, files, own, env, Late
<1>2. CASE WalkFails
  <2>1. faults' \in Nat
    BY <1>2 DEF WalkFails, Because, Charge, Failing, Shape, TypeOK
  <2>2. UNCHANGED <<mine, ids, ancestry, name, root, tries, runs, drawn, late, edits>>
        /\ pc \in {"walk", "again"}
    BY <1>2 DEF WalkFails, Walking, files, own, env
  <2>3. CASE pc = "walk"
    <3>1. pc' = "done" /\ outcome' = "refused" /\ attempt' = attempt
      BY <1>2, <2>3 DEF WalkFails, Refuse, End
    <3> QED BY <1>0, <2>1, <2>2, <2>3, <3>1 DEF Shape, TypeOK, FilesOK, Links, Targets, Late
  <2>4. CASE pc # "walk"
    <3>1. pc' = "runner" /\ outcome' = "refused" /\ attempt' = 2
      BY <1>2, <2>4 DEF WalkFails, Refuse
    <3> QED BY <1>0, <2>1, <2>2, <2>4, <3>1 DEF Shape, TypeOK, FilesOK, Links, Targets, Late
  <2> QED BY <2>3, <2>4
<1>3. CASE FindParent
  <2>1. ancestry' \in Seq(Dirs) /\ ancestry' # <<>> /\ ancestry'[1] = Top
        /\ Len(ancestry') <= Len(OutputPath)
    BY <1>3, SiblingsFacts DEF FindParent
  <2>2. <<Top>> \in Seq(Dirs) /\ <<Top>> # <<>> /\ Len(<<Top>>) <= Len(OutputPath) + 1
        /\ <<Top>>[1] = Top
    BY WorkRootAssumption
  <2>3. root \notin Dirs
    BY <1>3, WorkRootAssumption DEF FindParent, Shape
  <2> QED BY <1>0, <1>3, <2>1, <2>2, <2>3
      DEF FindParent, Shape, TypeOK, FilesOK, Links, Targets, files, env, Late
<1>4. CASE WalkEnds
  BY <1>0, <1>4 DEF WalkEnds, Shape, TypeOK, FilesOK, Links, Targets, files, own, env, Late
<1> QED BY <1>1, <1>2, <1>3, <1>4 DEF Walk

(* The actions that make the work root keep Shape.                         *)
LEMMA ShapeCreate ==
  ASSUME Shape, Tree, Files', Create
  PROVE  Shape'
<1>0. FilesOK' /\ NoDir \notin Dirs /\ Top \in Dirs
  BY WorkRootAssumption DEF Files
<1>1. ASSUME NEW n \in WorkNames, Draw(n) PROVE Shape'
  <2>1. /\ n \in Names /\ Len(ancestry) \in 1 .. Len(OutputPath) /\ ancestry # <<>>
        /\ n # OutputPath[Len(ancestry)] /\ root = NoDir /\ mine = {} /\ ids = <<Top>>
    BY <1>1, OtherName, ShapeFiles, WorkRootAssumption DEF Draw, Shape
  <2>2. /\ UNCHANGED <<ids, ancestry, root, runs, drawn, attempt, outcome, late, faults, edits>>
        /\ name' = n /\ tries < MaxTries /\ pc = "make"
        /\ (tries' = tries /\ pc' = "open") \/ (tries' = tries + 1 /\ pc' = pc /\ mine' = mine)
    BY <1>1 DEF Draw, env, files
  <2>3. tries' \in 0 .. MaxTries
    BY <2>2, WorkRootAssumption DEF Shape, TypeOK
  <2> QED BY <1>0, <2>1, <2>2, <2>3 DEF Shape, TypeOK, FilesOK, Links, Targets, Late
<1>2. CASE DrawFails
  <2>1. faults' \in Nat
    BY <1>2 DEF DrawFails, Because, Charge, Failing, Shape, TypeOK
  <2> QED BY <1>0, <1>2, <2>1
      DEF DrawFails, End, Shape, TypeOK, FilesOK, Links, Targets, files, own, env, Late
<1>3. CASE Open
  BY <1>0, <1>3 DEF Open, Shape, TypeOK, FilesOK, Links, Targets, files, env, Late
<1>4. CASE OpenFails
  <2>1. faults' \in Nat
    BY <1>4 DEF OpenFails, Because, Charge, Failing, Shape, TypeOK
  <2> QED BY <1>0, <1>4, <2>1
      DEF OpenFails, End, Shape, TypeOK, FilesOK, Links, Targets, own, env, Late
<1>5. CASE Validate
  BY <1>0, <1>5 DEF Validate, Shape, TypeOK, FilesOK, Links, Targets, files, own, Late
<1>6. CASE ValidateFails
  <2>1. faults' \in Nat /\ pc' = "runner" /\ outcome' = "refused" /\ attempt' = 2
    BY <1>6 DEF ValidateFails, Refuse, Because, Charge, Failing, Shape, TypeOK
  <2> QED BY <1>0, <1>6, <2>1
      DEF ValidateFails, Shape, TypeOK, FilesOK, Links, Targets, files, own, env, Late
<1>7. <<Top>> \in Seq(Dirs) /\ <<Top>> # <<>> /\ Len(<<Top>>) <= Len(OutputPath) + 1
      /\ <<Top>>[1] = Top
  BY WorkRootAssumption
<1>8. CASE Accept
  BY <1>0, <1>7, <1>8 DEF Accept, Shape, TypeOK, FilesOK, Links, Targets, files, own, env, Late
<1>9. CASE Reject
  <2>1. pc' = "runner" /\ outcome' = "refused" /\ attempt' = 2
    BY <1>9 DEF Reject, Refuse
  <2> QED BY <1>0, <1>7, <1>9, <2>1
      DEF Reject, Shape, TypeOK, FilesOK, Links, Targets, files, own, env, Late
<1> QED BY <1>1, <1>2, <1>3, <1>4, <1>5, <1>6, <1>8, <1>9 DEF Create

(* The actions of the runs keep Shape.                                     *)
LEMMA ShapeRun ==
  ASSUME Shape, Tree, Files', Run
  PROVE  Shape'
<1>0. FilesOK' /\ Len(Runs) \in Nat /\ Len(ScopeNames) \in Nat
  BY WorkRootAssumption DEF Files
<1>1. CASE BeginRun
  <2>1. runs' \in 0 .. Len(Runs) /\ runs' \in 1 .. Len(Runs)
    BY <1>0, <1>1 DEF BeginRun, Shape, TypeOK
  <2> QED BY <1>0, <1>1, <2>1
      DEF BeginRun, Shape, TypeOK, FilesOK, Links, Targets, files, own, env, Late
<1>2. CASE PrepareBase
  BY <1>0, <1>2 DEF PrepareBase, Shape, TypeOK, FilesOK, Links, Targets, own, env, Late
<1>3. CASE OpenScope
  <2>1. /\ UNCHANGED <<ids, ancestry, name, root, tries, runs, attempt, outcome, late, edits, faults>>
        /\ pc = "scope" /\ drawn < Len(ScopeNames) /\ drawn' = drawn + 1 /\ pc' \in {"scope", "run"}
    BY <1>3 DEF OpenScope, own, env
  <2>2. drawn' \in 0 .. Len(ScopeNames) /\ drawn' \in 1 .. Len(ScopeNames)
    BY <1>0, <2>1 DEF Shape, TypeOK
  <2> QED BY <1>0, <2>1, <2>2 DEF Shape, TypeOK, FilesOK, Links, Targets, Late
<1>4. CASE OpenScopeFails
  <2>1. /\ UNCHANGED <<ids, ancestry, name, root, tries, runs, attempt, outcome, late, edits>>
        /\ pc = "scope" /\ pc' \in {"runner", "ready"}
    BY <1>4 DEF OpenScopeFails, FailRun, own, env
  <2>2. faults' \in Nat /\ drawn' \in 0 .. Len(ScopeNames)
    <3>1. drawn' = drawn \/ (drawn < Len(ScopeNames) /\ drawn' = drawn + 1)
      BY <1>4 DEF OpenScopeFails
    <3>2. faults' \in {faults, faults + 1, faults + 2}
      BY <1>4 DEF OpenScopeFails, Because, Charge, Failing
    <3> QED BY <1>0, <3>1, <3>2 DEF Shape, TypeOK
  <2> QED BY <1>0, <2>1, <2>2 DEF Shape, TypeOK, FilesOK, Links, Targets, Late
<1>5. CASE CloseScope
  <2>1. /\ UNCHANGED <<ids, ancestry, name, root, tries, runs, drawn, attempt, outcome, late, edits, faults>>
        /\ pc = "run" /\ pc' \in {"runner", "ready"}
    BY <1>5 DEF CloseScope, EndRun, FailRun, own, env
  <2> QED BY <1>0, <2>1 DEF Shape, TypeOK, FilesOK, Links, Targets, Late
<1>6. CASE CloseScopeFails
  <2>1. /\ UNCHANGED <<ids, ancestry, name, root, tries, runs, drawn, attempt, outcome, late, edits>>
        /\ pc = "run" /\ pc' \in {"runner", "ready"}
    BY <1>6 DEF CloseScopeFails, FailRun, own, env
  <2>2. faults' \in Nat
    BY <1>6 DEF CloseScopeFails, Because, Charge, Failing, Shape, TypeOK
  <2> QED BY <1>0, <2>1, <2>2 DEF Shape, TypeOK, FilesOK, Links, Targets, Late
<1> QED BY <1>1, <1>2, <1>3, <1>4, <1>5, <1>6 DEF Run

(* What the actions of the removal leave alone.                            *)
LEMMA CleanUpFrame ==
  ASSUME CleanUp
  PROVE  /\ UNCHANGED <<ids, ancestry, name, root, tries, runs, drawn, edits>>
         /\ pc \in {"ready", "runner", "emptied", "compare", "remove"}
         /\ pc' \in {"runner", "emptied", "compare", "remove", "done"}
         /\ attempt' \in {attempt, 2}
         /\ late' = late \/ late' = FALSE
         /\ faults' = faults \/ faults' = faults + 1
         /\ outcome' \in {outcome, "failed", "removed"}
BY DEF CleanUp, Finish, CheckRunner, CheckRunnerFails, RemoveRunner, RemoveRunnerFails, Compare,
   CompareFails, RemoveRoot, RemoveRootFails, Stuck, Because, Charge, Failing, own, env

(* The actions of the removal keep Shape.                                  *)
LEMMA ShapeCleanUp ==
  ASSUME Shape, Tree, Files', CleanUp
  PROVE  Shape'
<1>1. FilesOK'
  BY DEF Files
<1>2. /\ faults' \in Nat /\ late' \in BOOLEAN /\ attempt' \in 1 .. 2
      /\ outcome' \in {"none", "refused", "removed", "failed"}
  <2>1. faults' \in Nat
    BY CleanUpFrame DEF Shape, TypeOK
  <2>2. late' \in BOOLEAN
    BY CleanUpFrame, Zenon DEF Shape, TypeOK
  <2>3. attempt' \in 1 .. 2
    BY CleanUpFrame DEF Shape, TypeOK
  <2>4. outcome' \in {"none", "refused", "removed", "failed"}
    BY CleanUpFrame DEF Shape, TypeOK
  <2> QED BY <2>1, <2>2, <2>3, <2>4
<1> QED BY <1>1, <1>2, CleanUpFrame DEF Shape, TypeOK, FilesOK, Links, Targets, Late

(* Another process makes nothing the compilation's.                        *)
LEMMA InterfereMine ==
  ASSUME Interfere
  PROVE  mine' \subseteq mine
BY DEF Interfere, OtherMakes, OtherRemoves, OtherMoves, Rmdir, Release

(* Every step keeps Shape.                                                 *)
LEMMA ShapeNext ==
  ASSUME Shape, Tree, Files', [Next]_vars
  PROVE  Shape'
<1>1. CASE Interfere
  <2>1. UNCHANGED <<pc, ids, ancestry, name, root, tries, runs, drawn, attempt, outcome, faults>>
        /\ late' = TRUE /\ edits' = edits + 1
    BY <1>1 DEF Interfere, own
  <2> QED BY <1>1, <2>1, InterfereMine DEF Shape, TypeOK, Files, FilesOK, Links, Targets, Late
<1>2. CASE UNCHANGED vars
  BY <1>2 DEF vars, files, own, env, Shape, TypeOK, Files, FilesOK, Links, Targets, Late
<1> QED BY <1>1, <1>2, ShapeWalk, ShapeCreate, ShapeRun, ShapeCleanUp DEF Next

-----------------------------------------------------------------------------
(* What is known of the parent and the work root is kept by every step.    *)

(* The parent, the name and the work root are set once each.               *)
LEMMA OwnFrame ==
  ASSUME [Next]_vars
  PROVE  FindParent \/ (\E n \in WorkNames : Draw(n)) \/ Open \/ UNCHANGED <<ancestry, name, root>>
<1>1. CASE Walk
  BY <1>1 DEF Walk, Descend, WalkFails, WalkEnds, own
<1>2. CASE Create
  BY <1>2 DEF Create, DrawFails, OpenFails, Validate, ValidateFails, Accept, Reject, own
<1>3. CASE Run
  BY <1>3 DEF Run, BeginRun, PrepareBase, OpenScope, OpenScopeFails, CloseScope, CloseScopeFails, own
<1>4. CASE CleanUp
  BY <1>4, CleanUpFrame
<1>5. CASE Interfere
  BY <1>5 DEF Interfere, own
<1>6. CASE UNCHANGED vars
  BY <1>6 DEF vars, own
<1> QED BY <1>1, <1>2, <1>3, <1>4, <1>5, <1>6 DEF Next

(* The first walk goes down, or its directories stay.                      *)
LEMMA WalkFrame ==
  ASSUME [Next]_vars, Shape, pc' = "walk"
  PROVE  pc = "walk" /\ (Descend \/ UNCHANGED ids)
<1>1. CASE Walk
  BY <1>1 DEF Walk, Descend, WalkFails, FindParent, WalkEnds, Refuse, End, Walking
<1>2. CASE Create
  BY <1>2 DEF Create, Draw, DrawFails, Open, OpenFails, Validate, ValidateFails, Accept, Reject,
     End, Refuse
<1>3. CASE Run
  BY <1>3 DEF Run, BeginRun, PrepareBase, OpenScope, OpenScopeFails, CloseScope, CloseScopeFails,
     EndRun, FailRun
<1>4. CASE CleanUp
  BY <1>4, CleanUpFrame
<1>5. CASE Interfere
  BY <1>5 DEF Interfere
<1>6. CASE UNCHANGED vars
  BY <1>6 DEF vars
<1> QED BY <1>1, <1>2, <1>3, <1>4, <1>5, <1>6 DEF Next

(* The walk without its last directory.                                    *)
LEMMA FrontFacts ==
  ASSUME Shape, Complete
  PROVE  /\ Front(ids) \in Seq(Dirs) /\ Front(ids) # <<>> /\ Front(ids)[1] = Top
         /\ Len(Front(ids)) <= Len(OutputPath) + 1 /\ Last(Front(ids)) = ids[Depth]
         /\ Len(Front(ids)) = Depth /\ \A k \in 1 .. Depth : Front(ids)[k] = ids[k]
<1>1. PICK s \in Seq(Dirs) : s = ids /\ Len(s) \in Nat /\ s[1] = Top /\ Len(s) - 1 = Depth
                             /\ Depth \in Nat /\ Depth > 0 /\ Depth = Len(OutputPath)
  BY WalkFacts DEF Shape, Complete, Depth
<1>2. PICK q \in Seq(Dirs) : q = SubSeq(s, 1, Len(s) - 1) /\ Len(q) = Len(s) - 1
                             /\ \A i \in 1 .. Len(s) - 1 : q[i] = s[i]
  <2>1. /\ SubSeq(s, 1, Len(s) - 1) \in Seq(Dirs) /\ Len(SubSeq(s, 1, Len(s) - 1)) = Len(s) - 1
        /\ \A i \in 1 .. Len(s) - 1 : SubSeq(s, 1, Len(s) - 1)[i] = s[i]
    BY <1>1
  <2> QED BY <2>1
<1>3. q = Front(ids)
  BY <1>1, <1>2 DEF Front
<1>4. 1 \in 1 .. Len(s) - 1 /\ Len(s) - 1 \in 1 .. Len(s) - 1 /\ Len(q) > 0
  BY <1>1, <1>2
<1>5. q # <<>> /\ q[1] = Top /\ Last(q) = s[Len(s) - 1]
  <2>1. q # <<>>
    BY <1>4
  <2>2. q[1] = Top /\ q[Len(q)] = s[Len(s) - 1]
    BY <1>1, <1>2, <1>4
  <2> QED BY <2>1, <2>2 DEF Last
<1> QED BY <1>1, <1>2, <1>3, <1>5

(* Every step keeps Anchors: what is open stays where it is until it is    *)
(* renamed.                                                                *)
LEMMA AnchorsNext ==
  ASSUME Shape, Tree, Anchors, [Next]_vars
  PROVE  Anchors'
<1>0. Files /\ Tame /\ Change /\ NoDir \notin Dirs
  BY StepFiles, ShapeFiles, WorkRootAssumption DEF Tame, Change
<1>1. ASSUME pc' = "walk" PROVE Anchored(ids)' /\ (Complete' => Anchored(Front(ids))')
  <2>0. pc = "walk" /\ (Descend \/ UNCHANGED ids)
    BY <1>1, WalkFrame
  <2>1. PICK s \in Seq(Dirs) : s = ids /\ s # <<>> /\ s[1] = Top /\ Len(s) <= Len(OutputPath) + 1
                               /\ Last(s) = Here /\ Len(s) \in Nat /\ Len(s) > 0 /\ s[Len(s)] = Here
    BY WalkFacts DEF Shape, Here, Last
  <2>2. Anchored(s)
    BY <2>0, <2>1 DEF Anchors
  <2>3. CASE Descend
    <3>1. PICK d \in Dirs : d = Ahead /\ ids' = Append(s, d) /\ entry' = entry /\ moved' = moved
                            /\ ~Complete /\ d = entry[s[Len(s)]][OutputPath[Len(s)]]
      BY <2>1, <2>3, WalkFacts DEF Descend, files, Ahead
    <3>2. PICK t \in Seq(Dirs) : /\ t = Append(s, d) /\ Len(t) = Len(s) + 1 /\ t[Len(t)] = d
                                 /\ \A k \in 1 .. Len(s) : t[k] = s[k]
      <4>1. /\ Append(s, d) \in Seq(Dirs) /\ Len(Append(s, d)) = Len(s) + 1
            /\ Append(s, d)[Len(s) + 1] = d /\ \A k \in 1 .. Len(s) : Append(s, d)[k] = s[k]
        BY <2>1
      <4> QED BY <4>1
    <3>3. Linked(s[Len(s)])
      <4>1. OutputPath[Len(s)] \in Names /\ s[Len(s)] \in Dirs
        BY <2>1, <3>1, WalkFacts
      <4> QED BY <1>0, <3>1, <4>1 DEF Tree, Empty
    <3>4. PICK j \in 1 .. Len(s) : (j = 1 \/ s[j] \in moved) /\ InPlace(s, j)
      BY <2>1, <2>2, <3>3 DEF Anchored, Last
    <3>5. \A i \in j .. Len(t) - 1 : entry[t[i]][OutputPath[i]] = t[i + 1]
      <4> TAKE i \in j .. Len(t) - 1
      <4>1. CASE i = Len(s)
        BY <2>1, <3>1, <3>2, <4>1
      <4>2. CASE i # Len(s)
        <5>1. i \in j .. Len(s) - 1 /\ i \in 1 .. Len(s) /\ i + 1 \in 1 .. Len(s)
          BY <2>1, <3>2, <4>2
        <5> QED BY <3>2, <3>4, <5>1 DEF InPlace
      <4> QED BY <4>1, <4>2
    <3>6. j \in 1 .. Len(t) /\ (j = 1 \/ t[j] \in moved)
      BY <2>1, <3>2, <3>4
    <3>7. ids' = t
      BY <3>1, <3>2
    <3>8. Anchored(ids)'
      BY <3>1, <3>5, <3>6, <3>7 DEF Anchored, InPlace
    <3>9. Front(ids)' = s
      <4>1. Front(ids)' = SubSeq(t, 1, Len(t) - 1)
        BY <3>7 DEF Front
      <4>2. SubSeq(t, 1, Len(t) - 1) \in Seq(Dirs) /\ Len(SubSeq(t, 1, Len(t) - 1)) = Len(s)
            /\ \A k \in 1 .. Len(s) : SubSeq(t, 1, Len(t) - 1)[k] = t[k]
        BY <2>1, <3>2
      <4>3. PICK q \in Seq(Dirs) : q = SubSeq(t, 1, Len(t) - 1) /\ Len(q) = Len(s)
                                   /\ \A k \in 1 .. Len(s) : q[k] = t[k]
        BY <4>2
      <4>4. q = s
        BY <3>2, <4>3
      <4> QED BY <4>1, <4>3, <4>4
    <3>10. Anchored(Front(ids))'
      BY <2>2, <3>1, <3>9 DEF Anchored, InPlace, Linked
    <3> QED BY <3>8, <3>10
  <2>4. CASE UNCHANGED ids
    <3>1. Last(s) \in Held
      BY <2>0, <2>1 DEF Held, Walking
    <3>2. Anchored(s)'
      BY <1>0, <2>1, <2>2, <3>1, AnchoredNext
    <3>3. Anchored(ids)'
      BY <2>1, <2>4, <3>2 DEF Anchored, InPlace
    <3>4. ASSUME Complete PROVE Anchored(Front(ids))'
      <4>1. PICK q \in Seq(Dirs) : q = Front(ids) /\ q # <<>> /\ q[1] = Top
                                   /\ Len(q) <= Len(OutputPath) + 1 /\ Last(q) = ids[Depth]
        BY <3>4, FrontFacts
      <4>2. Last(q) \in Held
        BY <2>0, <3>4, <4>1 DEF Held, Walking
      <4>3. Anchored(q)
        BY <2>0, <3>4, <4>1 DEF Anchors
      <4>4. Anchored(q)'
        BY <1>0, <4>1, <4>2, <4>3, AnchoredNext
      <4>5. Front(ids)' = q
        BY <2>4, <4>1 DEF Front
      <4> QED BY <4>4, <4>5 DEF Anchored, InPlace
    <3>5. Complete' = Complete
      BY <2>4 DEF Complete, Depth
    <3> QED BY <3>3, <3>4, <3>5
  <2> QED BY <2>0, <2>3, <2>4
<1>2. ASSUME ancestry' # <<>> PROVE Anchored(ancestry)'
  <2>1. CASE ancestry' = ancestry
    <3>1. PICK s \in Seq(Dirs) : s = ancestry /\ s # <<>> /\ s[1] = Top
                                 /\ Len(s) <= Len(OutputPath) + 1
      BY <1>2, <2>1, ShapeFiles DEF Shape
    <3>2. Last(s) \in Held /\ Anchored(s)
      BY <3>1 DEF Held, Anchors
    <3>3. Anchored(s)'
      BY <1>0, <3>1, <3>2, AnchoredNext
    <3> QED BY <2>1, <3>1, <3>3 DEF Anchored, InPlace
  <2>2. CASE FindParent
    <3>1. pc = "walk" /\ ancestry' = Siblings /\ entry' = entry /\ moved' = moved
      BY <2>2 DEF FindParent, files
    <3>2. PICK s \in Seq(Dirs) : s = Siblings
      BY SiblingsFacts
    <3>3. Anchored(s)
      BY <3>1, <3>2 DEF Anchors, Siblings
    <3> QED BY <3>1, <3>2, <3>3 DEF Anchored, InPlace, Linked
  <2>3. CASE ~FindParent
    <3>1. ancestry' = ancestry
      BY <2>3, OwnFrame DEF Draw, Open
    <3> QED BY <2>1, <3>1
  <2> QED BY <2>2, <2>3
<1>3. RootAnchored'
  <2>1. CASE FindParent
    BY <1>0, <2>1 DEF FindParent, Shape, RootAnchored
  <2>2. CASE \E n \in WorkNames : Draw(n)
    BY <1>0, <2>2 DEF Draw, Shape, RootAnchored
  <2>3. CASE Open
    BY <2>3 DEF Open, RootAnchored, Made, Parent, files
  <2>4. CASE UNCHANGED <<ancestry, name, root>>
    <3>1. root \in Dirs => ancestry \in Seq(Dirs) /\ ancestry # <<>> /\ name \in Names
      BY ShapeFiles DEF Shape
    <3>2. RootAnchored
      BY DEF Anchors, RootAnchored
    <3> QED BY <1>0, <2>4, <3>1, <3>2, RootAnchoredNext
  <2> QED BY <2>1, <2>2, <2>3, <2>4, OwnFrame
<1> QED BY <1>1, <1>2, <1>3 DEF Anchors, RootAnchored

(* Every step keeps Kept.                                                  *)
LEMMA KeptStep ==
  ASSUME Shape, Tree, Anchors, Kept, [Next]_vars
  PROVE  Kept'
<1>0. Files /\ Tame /\ ancestry \in Seq(Dirs) /\ name \in Names /\ Len(ancestry) <= Len(OutputPath) + 1
      /\ (ancestry # <<>> => ancestry[1] = Top) /\ (ancestry # <<>> => Anchored(ancestry))
  BY StepFiles, ShapeFiles DEF Shape, Anchors
<1>1. CASE FindParent
  <2>1. mine' = {}
    BY <1>1 DEF FindParent, Shape, files
  <2> QED BY <2>1 DEF Kept, Leftover
<1>2. CASE \E n \in WorkNames : Draw(n)
  <2>1. mine = {} /\ ancestry' = ancestry
    BY <1>2 DEF Draw, Shape
  <2> QED BY <1>0, <2>1, KeptNext
<1>3. CASE UNCHANGED <<ancestry, name>>
  BY <1>0, <1>3, KeptNext
<1> QED BY <1>1, <1>2, <1>3, OwnFrame DEF Open

-----------------------------------------------------------------------------
(* The second walk, and what it shows of the output directory.             *)

(* How the second walk gets on without a change by others.                 *)
LEMMA AgainFrame ==
  ASSUME [Next]_vars, pc' \in {"again", "overlap"}, ~late'
  PROVE  Validate \/ (Descend /\ pc = "again") \/ WalkEnds \/ UNCHANGED <<pc, ids, entry, late>>
<1>1. CASE Walk
  BY <1>1 DEF Walk, Descend, WalkFails, FindParent, Refuse, End, Walking
<1>2. CASE Create
  BY <1>2 DEF Create, Draw, DrawFails, Open, OpenFails, ValidateFails, Accept, Reject, End, Refuse
<1>3. CASE Run
  BY <1>3 DEF Run, BeginRun, PrepareBase, OpenScope, OpenScopeFails, CloseScope, CloseScopeFails,
     EndRun, FailRun
<1>4. CASE CleanUp
  BY <1>4, CleanUpFrame
<1>5. CASE Interfere
  BY <1>5 DEF Interfere
<1>6. CASE UNCHANGED vars
  BY <1>6 DEF vars, files, env
<1> QED BY <1>1, <1>2, <1>3, <1>4, <1>5, <1>6 DEF Next

(* How the runs begin and get on without one.                              *)
LEMMA ReadyFrame ==
  ASSUME [Next]_vars, pc' \in {"ready", "scope", "run"}, ~late'
  PROVE  \/ Accept
         \/ /\ pc \in {"ready", "scope", "run"} /\ ~late /\ root' = root
            /\ Run \/ UNCHANGED vars
<1>1. CASE Walk
  BY <1>1 DEF Walk, Descend, WalkFails, FindParent, WalkEnds, Refuse, End, Walking
<1>2. CASE Create
  BY <1>2 DEF Create, Draw, DrawFails, Open, OpenFails, Validate, ValidateFails, Reject, End, Refuse
<1>3. CASE Run
  <2>1. UNCHANGED <<root, late>>
    BY <1>3 DEF Run, BeginRun, PrepareBase, OpenScope, OpenScopeFails, CloseScope, CloseScopeFails,
       own, env
  <2>2. pc \in {"ready", "scope", "run"}
    BY <1>3 DEF Run, BeginRun, PrepareBase, OpenScope, OpenScopeFails, CloseScope, CloseScopeFails
  <2> QED BY <1>3, <2>1, <2>2
<1>4. CASE CleanUp
  BY <1>4, CleanUpFrame
<1>5. CASE Interfere
  BY <1>5 DEF Interfere
<1>6. CASE UNCHANGED vars
  BY <1>6 DEF vars, own, env
<1> QED BY <1>1, <1>2, <1>3, <1>4, <1>5, <1>6 DEF Next

(* An open directory that is not on the output path does not come to be on *)
(* it by a change of the compilation.                                      *)
LEMMA ChainNext ==
  ASSUME Files, Files', Mild, NEW r \in Dirs, r \in Held, r \notin OutputChain
  PROVE  r \notin OutputChain'
<1>0. Links /\ Links' /\ Tree /\ NoDir \notin Dirs /\ OutputPath \in Seq(Names)
  BY WorkRootAssumption DEF Files, FilesOK
<1>1. PICK F : /\ \A f \in F, n \in Names : f \in Dirs /\ entry[f][n] \notin Dirs
               /\ r \notin F
               /\ \A c \in Dirs, n \in Names :
                    entry'[c][n] \in Dirs => entry'[c][n] = entry[c][n] \/ entry'[c][n] \in F
  <2>1. CASE \E F : Grown(F)
    <3>1. PICK F : Grown(F)
      BY <2>1
    <3>2. \A f \in F, n \in Names : f \in Dirs /\ entry[f][n] \notin Dirs
      BY <1>0, <3>1, FreeFacts DEF Grown
    <3>3. r \notin F
      BY <3>1 DEF Grown, Free
    <3> QED BY <3>1, <3>2, <3>3 DEF Grown
  <2>2. CASE \E S : Pruned(S)
    <3>1. \A c \in Dirs, n \in Names : entry'[c][n] \in Dirs => entry'[c][n] = entry[c][n]
      BY <1>0, <2>2 DEF Pruned
    <3>2. \A f \in {}, n \in Names : f \in Dirs /\ entry[f][n] \notin Dirs
      OBVIOUS
    <3>3. r \notin {}
      OBVIOUS
    <3> QED BY <3>1, <3>2, <3>3
  <2> QED BY <2>1, <2>2 DEF Mild
<1>2. \A k \in 0 .. Len(OutputPath) :
        Trail(OutputPath)'[k] \in Dirs =>
          Trail(OutputPath)'[k] = Trail(OutputPath)[k] \/ Trail(OutputPath)'[k] \in F
  BY <1>0, <1>1, TrailSub
<1>3. ASSUME NEW k \in 0 .. Len(OutputPath), Trail(OutputPath)'[k] = r PROVE FALSE
  <2>1. Trail(OutputPath)[k] = r
    BY <1>1, <1>2, <1>3
  <2> QED BY <2>1 DEF OutputChain
<1>4. OutputChain' = {Trail(OutputPath)'[k] : k \in 0 .. Len(OutputPath)}
  BY DEF OutputChain
<1> QED BY <1>3, <1>4

(* The overlap check (paths_overlap) sees all that the output path passes, *)
(* or what is missing of it.                                               *)
LEMMA AcceptApart ==
  ASSUME Shape, Tree, Walked, Accept, ~late
  PROVE  root \notin OutputChain
<1>0. Links /\ OutputPath \in Seq(Names) /\ NoDir \notin Dirs /\ root \in Dirs /\ pc = "overlap"
  BY ShapeFiles, WorkRootAssumption DEF Accept, Shape, Late
<1>1. ids \in Seq(Dirs) /\ Len(ids) \in Nat /\ Depth + 1 = Len(ids)
      /\ Depth <= Len(OutputPath) /\ Len(OutputPath) \in Nat
  BY WalkFacts
<1>2. \A k \in 0 .. Len(ids) - 1 : ids[k + 1] = Trail(OutputPath)[k]
  BY <1>0 DEF Walked
<1>3. root \notin ToSet(ids)
  BY DEF Accept, Overlaps
<1> SUFFICES ASSUME NEW k \in 0 .. Len(OutputPath), Trail(OutputPath)[k] = root PROVE FALSE
  BY DEF OutputChain
<1>4. CASE k <= Len(ids) - 1
  <2>1. ids[k + 1] = root /\ k + 1 \in 1 .. Len(ids)
    BY <1>1, <1>2, <1>4
  <2> QED BY <1>1, <1>3, <2>1 DEF ToSet
<1>5. CASE k > Len(ids) - 1
  <2>1. ~Complete /\ Len(ids) <= k /\ Len(ids) \in 0 .. Len(OutputPath)
    BY <1>1, <1>5 DEF Complete
  <2>2. Trail(OutputPath)[Len(ids)] = NoDir
    BY <1>0, <2>1 DEF Walked
  <2>3. Trail(OutputPath)[Len(ids)] \in Dirs
    BY <1>0, <2>1, TrailBelow
  <2> QED BY <1>0, <2>2, <2>3
<1> QED BY <1>1, <1>4, <1>5

(* Every step keeps Walked.                                                *)
LEMMA WalkedNext ==
  ASSUME Shape, Tree, Anchors, Walked, [Next]_vars
  PROVE  Walked'
<1>0. Files /\ Files' /\ Links /\ OutputPath \in Seq(Names)
  BY StepFiles, ShapeFiles, WorkRootAssumption
<1>1. ASSUME pc' \in {"again", "overlap"}, ~late'
      PROVE  /\ \A k \in 0 .. Len(ids') - 1 : ids'[k + 1] = Trail(OutputPath)'[k]
             /\ pc' = "overlap" /\ ~Complete' => Trail(OutputPath)'[Len(ids')] = NoDir
  <2>0. entry' = entry => Trail(OutputPath)' = Trail(OutputPath)
    BY <1>0, TrailSame
  <2>1. CASE Validate
    <3>1. ids' = <<Top>> /\ pc' = "again" /\ Trail(OutputPath)' = Trail(OutputPath)
      BY <2>0, <2>1 DEF Validate, Shape, files
    <3>2. Trail(OutputPath)[0] = Top
      BY <1>0, TrailNext DEF TrailLaw
    <3> QED BY <3>1, <3>2
  <2>2. CASE Descend /\ pc = "again"
    <3>1. /\ Trail(OutputPath)' = Trail(OutputPath) /\ ids' = Append(ids, Ahead) /\ pc' = "again"
          /\ Ahead \in Dirs /\ ~late /\ ~Complete
      BY <1>1, <2>0, <2>2 DEF Descend, files, env
    <3>2. \A k \in 0 .. Len(ids) - 1 : ids[k + 1] = Trail(OutputPath)[k]
      BY <2>2, <3>1 DEF Walked
    <3>3. PICK s \in Seq(Dirs), n \in Nat : s = ids /\ Len(s) = n + 1 /\ n = Depth
                                            /\ n < Len(OutputPath) /\ s[n + 1] = Here
      BY <3>1, WalkFacts
    <3>4. Trail(OutputPath)[n] = Here /\ Here \in Dirs
      BY <3>2, <3>3, WalkFacts
    <3>5. Trail(OutputPath)[n + 1] = Ahead
      BY <1>0, <3>3, <3>4, TrailNext DEF TrailLaw, Ahead
    <3>6. PICK t \in Seq(Dirs) : /\ t = Append(s, Ahead) /\ Len(t) = n + 2 /\ t[n + 2] = Ahead
                                 /\ \A k \in 1 .. n + 1 : t[k] = s[k]
      <4>1. /\ Append(s, Ahead) \in Seq(Dirs) /\ Len(Append(s, Ahead)) = Len(s) + 1
            /\ Append(s, Ahead)[Len(s) + 1] = Ahead
            /\ \A k \in 1 .. Len(s) : Append(s, Ahead)[k] = s[k]
        BY <3>1
      <4>2. Len(s) + 1 = n + 2 /\ Len(s) = n + 1
        BY <3>3
      <4> QED BY <4>1, <4>2, Zenon
    <3>7. ASSUME NEW k \in 0 .. n + 1 PROVE t[k + 1] = Trail(OutputPath)[k]
      <4>1. CASE k = n + 1
        BY <3>5, <3>6, <4>1
      <4>2. CASE k # n + 1
        <5>1. k \in 0 .. Len(s) - 1 /\ k + 1 \in 1 .. n + 1
          BY <3>3, <4>2
        <5> QED BY <3>2, <3>3, <3>6, <5>1
      <4> QED BY <4>1, <4>2
    <3>8. ids' = t
      BY <3>1, <3>3, <3>6
    <3>9. Len(ids') - 1 = n + 1
      BY <3>6, <3>8
    <3> QED BY <3>1, <3>7, <3>8, <3>9
  <2>3. CASE WalkEnds
    <3>1. /\ Trail(OutputPath)' = Trail(OutputPath) /\ ids' = ids /\ pc = "again" /\ ~late
          /\ pc' = "overlap" /\ (Complete \/ Ahead = NoDir)
      BY <1>1, <2>0, <2>3 DEF WalkEnds, files, env, AtEnd
    <3>2. \A k \in 0 .. Len(ids) - 1 : ids[k + 1] = Trail(OutputPath)[k]
      BY <3>1 DEF Walked
    <3>3. ASSUME ~Complete PROVE Trail(OutputPath)[Len(ids)] = NoDir
      <4>1. PICK n \in Nat : Len(ids) = n + 1 /\ n < Len(OutputPath) /\ Here = ids[n + 1] /\ n = Depth
        BY <3>3, WalkFacts
      <4>2. Trail(OutputPath)[n] = Here /\ Here \in Dirs
        BY <3>2, <4>1, WalkFacts
      <4>3. Trail(OutputPath)[n + 1] = Ahead
        BY <1>0, <4>1, <4>2, TrailNext DEF TrailLaw, Ahead
      <4> QED BY <3>1, <3>3, <4>1, <4>3
    <3>4. Complete' = Complete
      BY <3>1 DEF Complete, Depth
    <3> QED BY <3>1, <3>2, <3>3, <3>4
  <2>4. CASE UNCHANGED <<pc, ids, entry, late>>
    <3>1. Trail(OutputPath)' = Trail(OutputPath) /\ Complete' = Complete
      BY <2>0, <2>4 DEF Complete, Depth
    <3> QED BY <1>1, <2>4, <3>1 DEF Walked
  <2> QED BY <1>1, <2>1, <2>2, <2>3, <2>4, AgainFrame
<1>2. ASSUME pc' \in {"ready", "scope", "run"}, ~late'
      PROVE  root' \notin OutputChain'
  <2>1. CASE Accept
    <3>1. entry' = entry /\ root' = root /\ ~late
      BY <1>2, <2>1 DEF Accept, files, own, env
    <3>2. root \notin OutputChain
      BY <2>1, <3>1, AcceptApart
    <3>3. Trail(OutputPath)' = Trail(OutputPath)
      BY <1>0, <3>1, TrailSame
    <3> QED BY <3>1, <3>2, <3>3 DEF OutputChain
  <2>2. CASE /\ pc \in {"ready", "scope", "run"} /\ ~late /\ root' = root
             /\ Run \/ UNCHANGED vars
    <3>1. Mild
      BY <2>2, RunFiles, StillFiles DEF vars
    <3>2. root \in Dirs /\ root \in Held /\ root \notin OutputChain
      BY <2>2 DEF Shape, Late, Held, Walked
    <3> QED BY <1>0, <2>2, <3>1, <3>2, ChainNext
  <2> QED BY <1>2, <2>1, <2>2, ReadyFrame
<1> QED BY <1>1, <1>2 DEF Walked

(* The invariant implies that an accepted work root is apart from the      *)
(* output directory.                                                       *)
LEMMA ApartFollows ==
  ASSUME Shape, Tree, Anchors, Walked
  PROVE  WorkRootIsApart
<1> SUFFICES ASSUME pc = "ready", ~late
             PROVE  /\ root \notin OutputChain
                    /\ moved = {} /\ Lookup(OutputPath) \in Dirs => root \notin Below(Lookup(OutputPath))
  BY DEF WorkRootIsApart
<1>0. Links /\ BelowLaw /\ OutputPath \in Seq(Names) /\ NoDir \notin Dirs /\ root \in Dirs
      /\ ancestry # <<>> /\ Parent \in Dirs /\ name \in Names /\ Len(OutputPath) \in Nat
  BY ShapeFiles, WorkRootAssumption DEF Shape, Late
<1>1. root \notin OutputChain
  BY DEF Walked
<1>2. ASSUME moved = {}, Lookup(OutputPath) \in Dirs, root \in Below(Lookup(OutputPath)) PROVE FALSE
  <2>1. PICK c \in Dirs : c = Lookup(OutputPath) /\ c = Trail(OutputPath)[Len(OutputPath)]
    BY <1>2 DEF Lookup
  <2>2. root # c
    BY <1>0, <1>1, <2>1 DEF OutputChain
  <2>3. PICK a \in Below(c), n \in Names : entry[a][n] = root
    BY <1>2, <2>1, <2>2, BelowLinked
  <2>4. a \in Dirs
    BY <1>0, <2>1, <2>3 DEF BelowLaw
  <2>5. Made = root
    BY <1>0, <1>2, <2>3, <2>4 DEF Anchors, Linked
  <2>6. a = Parent
    BY <1>0, <2>3, <2>4, <2>5 DEF Made, Tree
  <2>7. Linked(Parent)
    BY <1>0, <2>3, <2>4, <2>6 DEF Tree, Empty
  <2>8. PICK s \in Seq(Dirs), L \in Nat :
          s = ancestry /\ L = Len(s) /\ L > 0 /\ L <= Len(OutputPath) /\ s # <<>> /\ s[1] = Top
          /\ s[L] = Parent
    BY <1>0, ShapeFiles DEF Shape, Parent, Last
  <2>9. InPlace(s, 1)
    BY <1>0, <1>2, <2>7, <2>8 DEF Anchors, Anchored, Parent
  <2>10. \A k \in 0 .. Len(s) - 1 : k <= Len(OutputPath) => Trail(OutputPath)[k] = s[k + 1]
    BY <1>0, <2>8, <2>9, TrailFollows DEF InPlace
  <2>11. PICK k \in Nat : k + 1 = L /\ k < Len(OutputPath) /\ k + 1 \in 0 .. Len(OutputPath)
    <3>1. L - 1 \in Nat /\ (L - 1) + 1 = L /\ L - 1 < Len(OutputPath)
      BY <1>0, <2>8
    <3> QED BY <1>0, <2>8, <3>1
  <2>12. Trail(OutputPath)[k] = Parent
    BY <2>8, <2>10, <2>11
  <2>13. OutputPath[k + 1] \in Names
         /\ Trail(OutputPath)[k + 1] = entry[Parent][OutputPath[k + 1]]
    BY <1>0, <2>11, <2>12, TrailNext DEF TrailLaw
  <2>14. Trail(OutputPath)[k + 1] \in Dirs /\ c \in Below(Trail(OutputPath)[k + 1])
    <3>1. Len(OutputPath) \in 0 .. Len(OutputPath) /\ k + 1 <= Len(OutputPath)
      BY <1>0, <2>11
    <3> QED BY <1>0, <2>1, <2>11, <3>1, TrailBelow
  <2>15. Parent \in Below(Trail(OutputPath)[k + 1])
    BY <2>3, <2>6, <2>14, BelowBelow
  <2> QED BY <1>0, <2>13, <2>14, <2>15 DEF Tree
<1> QED BY <1>1, <1>2

-----------------------------------------------------------------------------
(* The removal.                                                            *)

(* Every step keeps Removal.                                               *)
LEMMA RemovalNext ==
  ASSUME Shape, Tree, Removal, [Next]_vars
  PROVE  Removal'
<1>0. NoDir \notin Dirs /\ Links /\ BelowLaw /\ Files
  BY ShapeFiles, WorkRootAssumption
<1>1. ASSUME pc' = "remove", ~late' PROVE Made' = root'
  <2>1. CASE Compare
    BY <2>1 DEF Compare, IsWorkRoot, Made, Parent, own, files
  <2>2. CASE ~Compare
    <3>1. UNCHANGED <<pc, late, entry, ancestry, name, root>>
      <4>1. CASE Walk
        BY <1>1, <4>1 DEF Walk, Descend, WalkFails, FindParent, WalkEnds, Refuse, End, Walking
      <4>2. CASE Create
        BY <1>1, <4>2 DEF Create, Draw, DrawFails, Open, OpenFails, Validate, ValidateFails, Accept,
           Reject, End, Refuse
      <4>3. CASE Run
        BY <1>1, <4>3 DEF Run, BeginRun, PrepareBase, OpenScope, OpenScopeFails, CloseScope,
           CloseScopeFails, EndRun, FailRun
      <4>4. CASE CleanUp
        BY <1>1, <2>2, <4>4 DEF CleanUp, Finish, CheckRunner, CheckRunnerFails, RemoveRunner,
           RemoveRunnerFails, CompareFails, RemoveRoot, RemoveRootFails, Stuck
      <4>5. CASE Interfere
        BY <1>1, <4>5 DEF Interfere
      <4>6. CASE UNCHANGED vars
        BY <4>6 DEF vars, own, env, files
      <4> QED BY <4>1, <4>2, <4>3, <4>4, <4>5, <4>6 DEF Next
    <3> QED BY <1>1, <3>1 DEF Removal, Made, Parent
  <2> QED BY <2>1, <2>2
<1>2. ASSUME outcome' = "removed"
      PROVE  pc' = "done" /\ ancestry' # <<>> /\ Linked(Parent)' /\ Made' = NoDir
  <2>1. CASE RemoveRoot
    <3>1. PICK p \in Dirs, n \in Names : p = Parent /\ n = name /\ Made = entry[p][n]
                                         /\ ancestry # <<>> /\ pc = "remove"
      BY <1>0, <2>1, ShapeFiles DEF RemoveRoot, Shape, Made
    <3>2. /\ pc' = "done" /\ ancestry' = ancestry /\ name' = name
          /\ CanRmdir(p, n) /\ entry' = [entry EXCEPT ![p][n] = NoDir]
      BY <1>0, <2>1, <3>1 DEF RemoveRoot, Removal, Rmdir, Link, own
    <3>3. PICK e \in Dirs : e = entry[p][n] /\ \A m \in Names : entry[e][m] = NoDir
      BY <3>2 DEF CanRmdir, Empty
    <3>4. p # e
      BY <1>0, <3>3 DEF Tree, BelowLaw
    <3>5. Linked(p)
      BY <1>0, <3>3 DEF Tree, Empty
    <3>6. \A c \in Dirs, m \in Names : entry'[c][m] = IF c = p /\ m = n THEN NoDir ELSE entry[c][m]
      BY <1>0, <3>2 DEF Links
    <3>7. Linked(p)' /\ entry'[p][n] = NoDir
      BY <1>0, <3>3, <3>4, <3>5, <3>6 DEF Linked
    <3> QED BY <3>1, <3>2, <3>7 DEF Made, Parent
  <2>2. CASE ~RemoveRoot
    <3>1. outcome = "removed"
      <4>1. CASE Walk
        BY <1>2, <4>1 DEF Walk, Descend, WalkFails, FindParent, WalkEnds, Refuse, End
      <4>2. CASE Create
        BY <1>2, <4>2 DEF Create, Draw, DrawFails, Open, OpenFails, Validate, ValidateFails, Accept,
           Reject, End, Refuse
      <4>3. CASE Run
        BY <1>2, <4>3 DEF Run, BeginRun, PrepareBase, OpenScope, OpenScopeFails, CloseScope,
           CloseScopeFails
      <4>4. CASE CleanUp
        BY <1>2, <2>2, <4>4 DEF CleanUp, Finish, CheckRunner, CheckRunnerFails, RemoveRunner,
           RemoveRunnerFails, Compare, CompareFails, RemoveRootFails, Stuck
      <4>5. CASE Interfere
        BY <1>2, <4>5 DEF Interfere
      <4>6. CASE UNCHANGED vars
        BY <1>2, <4>6 DEF vars
      <4> QED BY <4>1, <4>2, <4>3, <4>4, <4>5, <4>6 DEF Next
    <3>2. pc = "done"
      BY <3>1 DEF Removal
    <3>3. UNCHANGED vars
      BY <3>2 DEF Next, Walk, Descend, WalkFails, FindParent, WalkEnds, Walking, Create, Draw,
         DrawFails, Open, OpenFails, Validate, ValidateFails, Accept, Reject, Run, BeginRun,
         PrepareBase, OpenScope, OpenScopeFails, CloseScope, CloseScopeFails, CleanUp, Finish,
         CheckRunner, CheckRunnerFails, RemoveRunner, RemoveRunnerFails, Compare, CompareFails,
         RemoveRoot, RemoveRootFails, Interfere
    <3> QED BY <3>1, <3>3 DEF Removal, vars, files, own, Linked, Parent, Made
  <2> QED BY <2>1, <2>2
<1> QED BY <1>1, <1>2 DEF Removal

-----------------------------------------------------------------------------
(* While nobody else changes anything.                                     *)

(* Behind a name that leads nowhere a path leads nowhere.                  *)
LEMMA TrailStops ==
  Links => \A path \in Seq(Names) : \A i, j \in 0 .. Len(path) :
    i <= j /\ Trail(path)[i] = NoDir => Trail(path)[j] = NoDir
<1> SUFFICES ASSUME Links, NEW path \in Seq(Names), NEW i \in 0 .. Len(path), Trail(path)[i] = NoDir
             PROVE  \A j \in 0 .. Len(path) : i <= j => Trail(path)[j] = NoDir
  OBVIOUS
<1> DEFINE S == {j \in Nat : i <= j /\ j <= Len(path) => Trail(path)[j] = NoDir}
<1>0. NoDir \notin Dirs /\ Len(path) \in Nat /\ i \in Nat
  BY WorkRootAssumption
<1>1. 0 \in S
  BY <1>0
<1>2. ASSUME NEW j \in Nat, j \in S PROVE j + 1 \in S
  <2> SUFFICES ASSUME i <= j + 1, j + 1 <= Len(path), i # j + 1 PROVE Trail(path)[j + 1] = NoDir
    OBVIOUS
  <2>1. Trail(path)[j] = NoDir /\ j < Len(path)
    BY <1>0, <1>2
  <2> QED BY <1>0, <2>1, TrailNext DEF TrailLaw
<1> HIDE DEF S
<1>3. Nat \subseteq S
  BY <1>1, <1>2, SetInduction
<1> QED BY <1>0, <1>3 DEF S

(* A change at no step of a path leaves its trail.                         *)
LEMMA TrailStill ==
  ASSUME Links, Links', NEW path \in Seq(Names),
         \A k \in Nat : k < Len(path) /\ Trail(path)[k] \in Dirs =>
           entry'[Trail(path)[k]][path[k + 1]] = entry[Trail(path)[k]][path[k + 1]]
  PROVE  \A k \in 0 .. Len(path) : Trail(path)'[k] = Trail(path)[k]
<1> DEFINE S == {k \in Nat : k <= Len(path) => Trail(path)'[k] = Trail(path)[k]}
<1>0. TrailLaw' /\ TrailLaw
  BY TrailNext, PTL
<1>1. 0 \in S
  BY <1>0 DEF TrailLaw
<1>2. ASSUME NEW k \in Nat, k \in S PROVE k + 1 \in S
  <2> SUFFICES ASSUME k + 1 <= Len(path) PROVE Trail(path)'[k + 1] = Trail(path)[k + 1]
    OBVIOUS
  <2>1. k < Len(path) /\ Trail(path)'[k] = Trail(path)[k]
    BY <1>2
  <2>2. CASE Trail(path)[k] \in Dirs
    <3>1. Trail(path)[k + 1] = entry[Trail(path)[k]][path[k + 1]]
      BY <1>0, <2>1, <2>2 DEF TrailLaw
    <3>2. Trail(path)'[k + 1] = entry'[Trail(path)[k]][path[k + 1]]
      BY <1>0, <2>1, <2>2 DEF TrailLaw
    <3> QED BY <2>1, <2>2, <3>1, <3>2
  <2>3. CASE Trail(path)[k] \notin Dirs
    BY <1>0, <2>1, <2>3 DEF TrailLaw
  <2> QED BY <2>2, <2>3
<1> HIDE DEF S
<1>3. Nat \subseteq S
  BY <1>1, <1>2, SetInduction
<1> QED BY <1>3 DEF S

(* A step that changes no file keeps the parts of Quiet.                   *)
LEMMA QuietSame ==
  ASSUME UNCHANGED files
  PROVE  /\ ancestry' = ancestry /\ Placed => Placed'
         /\ ids' = ids /\ Passed => Passed'
         /\ UNCHANGED <<ancestry, name>> => Made' = Made /\ \A d : Fresh(d) => Fresh(d)'
<1>1. entry' = entry /\ mode' = mode /\ mine' = mine
  BY DEF files
<1>2. Trail(OutputPath)' = Trail(OutputPath)
  BY <1>1, WorkRootAssumption, TrailSame
<1>3. ancestry' = ancestry /\ Placed => Placed'
  BY <1>1, <1>2 DEF Placed, Clear, Trusted
<1>4. ids' = ids /\ Passed => Passed'
  BY <1>1, <1>2 DEF Passed, Trusted, Depth
<1>5. UNCHANGED <<ancestry, name>> => Made' = Made /\ \A d : Fresh(d) => Fresh(d)'
  BY <1>1 DEF Made, Parent, Fresh, Empty
<1> QED BY <1>3, <1>4, <1>5

(* The parent is at one place of the output path.                          *)
LEMMA ParentPlaced ==
  ASSUME Shape, Tree, Placed, ancestry # <<>>
  PROVE  \E k \in Nat : /\ k + 1 = Len(ancestry) /\ k < Len(OutputPath) /\ Trail(OutputPath)[k] = Parent
                        /\ \A i \in Nat : i <= Len(OutputPath) /\ Trail(OutputPath)[i] = Parent => i = k
<1>0. Links /\ OutputPath \in Seq(Names) /\ Len(OutputPath) \in Nat /\ Parent \in Dirs
      /\ Len(ancestry) \in 1 .. Len(OutputPath)
  BY ShapeFiles, WorkRootAssumption
<1>1. PICK k \in Nat : k + 1 = Len(ancestry) /\ k < Len(OutputPath) /\ k \in 0 .. Len(ancestry) - 1
  <2>1. Len(ancestry) - 1 \in Nat /\ (Len(ancestry) - 1) + 1 = Len(ancestry)
        /\ Len(ancestry) - 1 < Len(OutputPath) /\ Len(ancestry) - 1 \in 0 .. Len(ancestry) - 1
    BY <1>0
  <2> QED BY <2>1
<1>2. Trail(OutputPath)[k] = Parent
  BY <1>1 DEF Placed, Parent, Last
<1>3. ASSUME NEW i \in Nat, i <= Len(OutputPath), Trail(OutputPath)[i] = Parent PROVE i = k
  <2>1. i \in 0 .. Len(OutputPath) /\ k \in 0 .. Len(OutputPath)
    BY <1>0, <1>1, <1>3
  <2>2. ~(i < k) /\ ~(k < i)
    BY <1>0, <1>2, <1>3, <2>1, TrailInjective
  <2> QED BY <2>2
<1> QED BY <1>1, <1>2, <1>3

(* Then the overlap check does not refuse a new work root,                 *)
LEMMA QuietOverlap ==
  ASSUME Shape, Tree, Walked, pc = "overlap", ~late, Placed, Fresh(root)
  PROVE  ~Overlaps
<1>0. Links /\ OutputPath \in Seq(Names) /\ Len(OutputPath) \in Nat /\ Parent \in Dirs
      /\ ancestry # <<>> /\ ancestry \in Seq(Dirs) /\ Len(ancestry) \in 1 .. Len(OutputPath)
      /\ root \in Dirs /\ Made = root /\ name \in Names /\ name # OutputPath[Len(ancestry)]
  BY ShapeFiles, WorkRootAssumption DEF Shape, Late, Fresh
<1>1. PICK l \in Nat : /\ l + 1 = Len(ancestry) /\ l < Len(OutputPath)
                       /\ Trail(OutputPath)[l] = Parent
                       /\ \A i \in Nat : i <= Len(OutputPath) /\ Trail(OutputPath)[i] = Parent => i = l
  BY <1>0, ParentPlaced
<1>2. ids \in Seq(Dirs) /\ Len(ids) \in Nat /\ Len(ids) > 0 /\ Depth + 1 = Len(ids)
      /\ Depth <= Len(OutputPath) /\ Here = ids[Depth + 1] /\ Depth \in Nat /\ Here \in Dirs
  BY WalkFacts
<1>3. \A k \in 0 .. Len(ids) - 1 : ids[k + 1] = Trail(OutputPath)[k]
  BY DEF Walked
<1>4. ASSUME NEW k \in 0 .. Len(OutputPath), Trail(OutputPath)[k] = root PROVE FALSE
  <2>1. root # Top
    BY <1>0 DEF Made, Tree
  <2>2. k # 0
    BY <1>0, <1>4, <2>1, TrailNext DEF TrailLaw
  <2>3. PICK i \in Nat : i + 1 = k /\ i < Len(OutputPath) /\ i \in 0 .. Len(OutputPath) /\ i <= k
    <3>1. k - 1 \in Nat /\ (k - 1) + 1 = k /\ k - 1 < Len(OutputPath) /\ k - 1 \in 0 .. Len(OutputPath)
          /\ k - 1 <= k
      BY <1>0, <2>2
    <3> QED BY <3>1
  <2>4. Trail(OutputPath)[i] \in Dirs
    BY <1>0, <1>4, <2>3, TrailBelow
  <2>5. OutputPath[k] \in Names /\ entry[Trail(OutputPath)[i]][OutputPath[k]] = root
    BY <1>0, <1>4, <2>3, <2>4, TrailNext DEF TrailLaw
  <2>6. Trail(OutputPath)[i] = Parent /\ OutputPath[k] = name
    BY <1>0, <2>4, <2>5 DEF Made, Tree
  <2>7. i = l
    BY <1>1, <2>3, <2>6
  <2> QED BY <1>0, <1>1, <2>3, <2>6, <2>7
<1>5. ASSUME NEW j \in 1 .. Len(ids) PROVE ids[j] # root
  <2>1. j - 1 \in 0 .. Len(ids) - 1 /\ (j - 1) + 1 = j /\ j - 1 \in 0 .. Len(OutputPath)
    BY <1>0, <1>2
  <2> QED BY <1>3, <1>4, <2>1
<1>6. ASSUME Complete, NEW j \in 1 .. Len(ancestry) PROVE Here # ancestry[j]
  <2>1. Depth = Len(OutputPath) /\ Depth \in 0 .. Len(ids) - 1
    BY <1>2, <1>6 DEF Complete
  <2>2. Trail(OutputPath)[Len(OutputPath)] = Here
    BY <1>2, <1>3, <2>1
  <2>3. j - 1 \in 0 .. Len(ancestry) - 1 /\ (j - 1) + 1 = j /\ j - 1 < Len(OutputPath)
        /\ j - 1 \in 0 .. Len(OutputPath) /\ Len(OutputPath) \in 0 .. Len(OutputPath)
    BY <1>0
  <2>4. ancestry[j] = Trail(OutputPath)[j - 1]
    BY <2>3 DEF Placed
  <2> QED BY <1>0, <1>2, <2>2, <2>3, <2>4, TrailInjective
<1>7. Here # root
  BY <1>2, <1>5
<1> QED BY <1>0, <1>2, <1>5, <1>6, <1>7 DEF Overlaps, ToSet

(* the second walk fails only when a call does,                            *)
LEMMA QuietAgain ==
  ASSUME Shape, Tree, Walked, pc = "again", ~late, Placed
  PROVE  Trusted(Here) /\ (~Complete => Ahead # Thing)
<1>0. Links /\ OutputPath \in Seq(Names) /\ NoDir \notin Dirs /\ Thing \notin Dirs /\ Thing # NoDir
  BY ShapeFiles, WorkRootAssumption
<1>1. ids \in Seq(Dirs) /\ Depth \in Nat /\ Depth + 1 = Len(ids) /\ Depth <= Len(OutputPath)
      /\ Here = ids[Depth + 1] /\ Here \in Dirs /\ (~Complete => Depth < Len(OutputPath))
      /\ Len(OutputPath) \in Nat
  BY WalkFacts
<1>2. Trail(OutputPath)[Depth] = Here
  <2>1. Depth \in 0 .. Len(ids) - 1
    BY <1>1
  <2> QED BY <1>1, <2>1 DEF Walked
<1>3. Trusted(Here)
  <2>1. Depth \in 0 .. Len(OutputPath)
    BY <1>1
  <2> QED BY <1>0, <1>1, <1>2, <2>1 DEF Placed, Clear
<1>4. ASSUME ~Complete PROVE Ahead # Thing
  <2>1. Depth + 1 \in 0 .. Len(OutputPath) /\ Depth < Len(OutputPath)
    BY <1>1, <1>4
  <2>2. Trail(OutputPath)[Depth + 1] = Ahead
    BY <1>0, <1>1, <1>2, <2>1, TrailNext DEF TrailLaw, Ahead
  <2> QED BY <1>0, <2>1, <2>2 DEF Placed, Clear
<1> QED BY <1>3, <1>4

(* the first walk ends with the parent on the output path,                 *)
LEMMA QuietFind ==
  ASSUME Shape, Tree, Passed, FindParent
  PROVE  Placed'
<1>0. Links /\ OutputPath \in Seq(Names) /\ Len(OutputPath) \in Nat
  BY ShapeFiles, WorkRootAssumption
<1>1. entry' = entry /\ mode' = mode /\ ancestry' = Siblings /\ Trusted(Here)
      /\ (Complete \/ Ahead = NoDir)
  BY DEF FindParent, files, AtEnd
<1>2. Trail(OutputPath)' = Trail(OutputPath)
  BY <1>0, <1>1, TrailSame
<1>3. ids \in Seq(Dirs) /\ Depth \in Nat /\ Depth + 1 = Len(ids) /\ Depth <= Len(OutputPath)
      /\ Here = ids[Depth + 1] /\ Here \in Dirs /\ (~Complete => Depth < Len(OutputPath))
  BY WalkFacts
<1>4. \A k \in 0 .. Depth : Trail(OutputPath)[k] = ids[k + 1] /\ ids[k + 1] \in Dirs
                            /\ Trusted(Trail(OutputPath)[k])
  <2> TAKE k \in 0 .. Depth
  <2>1. k \in 0 .. Len(ids) - 1 /\ k + 1 \in 1 .. Len(ids)
    BY <1>3
  <2>2. Trail(OutputPath)[k] = ids[k + 1] /\ ids[k + 1] \in Dirs
    BY <1>3, <2>1 DEF Passed
  <2>3. k # Depth => Trusted(ids[k + 1])
    BY <1>3, <2>1 DEF Passed
  <2> QED BY <1>1, <1>3, <2>2, <2>3
<1>5. ASSUME NEW k \in 0 .. Len(OutputPath), k > Depth PROVE Trail(OutputPath)[k] = NoDir
  <2>1. ~Complete /\ Depth < Len(OutputPath) /\ Depth + 1 \in 0 .. Len(OutputPath) /\ Depth + 1 <= k
    BY <1>0, <1>3, <1>5 DEF Complete
  <2>2. Trail(OutputPath)[Depth] = Here
    BY <1>3, <1>4
  <2>3. Trail(OutputPath)[Depth + 1] = NoDir
    BY <1>0, <1>1, <1>3, <2>1, <2>2, TrailNext DEF TrailLaw, Ahead
  <2> QED BY <1>0, <2>1, <2>3, TrailStops
<1>6. ASSUME NEW k \in 0 .. Len(OutputPath)
      PROVE  Trail(OutputPath)[k] = NoDir
             \/ (Trail(OutputPath)[k] \in Dirs /\ Trusted(Trail(OutputPath)[k]))
  <2>1. CASE k > Depth
    BY <1>5, <2>1
  <2>2. CASE ~(k > Depth)
    <3>1. k \in 0 .. Depth
      BY <1>0, <1>3, <2>2
    <3> QED BY <1>4, <3>1
  <2> QED BY <2>1, <2>2
<1>7. ASSUME NEW k \in 0 .. Len(Siblings) - 1 PROVE Siblings[k + 1] = Trail(OutputPath)[k]
  <2>1. k \in 0 .. Depth /\ k + 1 \in 1 .. Len(Siblings)
    BY <1>3, SiblingsFacts
  <2> QED BY <1>4, <2>1, SiblingsFacts
<1> QED BY <1>1, <1>2, <1>6, <1>7 DEF Placed, Clear, Trusted

(* and making the work root changes no trail of it.                        *)
LEMMA QuietDraw ==
  ASSUME Shape, Tree, Placed, NEW n \in WorkNames, Draw(n)
  PROVE  \/ UNCHANGED <<files, pc>> /\ Placed'
         \/ pc' = "open" /\ Placed' /\ Fresh(Made)'
<1>0. Links /\ OutputPath \in Seq(Names) /\ Len(OutputPath) \in Nat /\ ancestry # <<>>
      /\ Len(ancestry) \in 1 .. Len(OutputPath) /\ Parent \in Dirs /\ n \in Names /\ Files /\ Files'
      /\ ancestry' = ancestry /\ name' = n
  BY DrawFiles, ShapeFiles, WorkRootAssumption DEF Draw, Shape
<1>1. CASE UNCHANGED <<files, pc>>
  BY <1>0, <1>1, QuietSame DEF files
<1>2. CASE pc' = "open" /\ \E d \in Dirs : Mkdir(Parent, n, d) /\ Grown({d}) /\ mine' = {d}
  <2>1. PICK d \in Dirs : Mkdir(Parent, n, d) /\ Grown({d}) /\ mine' = {d}
    BY <1>2
  <2>2. PICK p \in Dirs : p = Parent
    BY <1>0
  <2>3. /\ entry' = [entry EXCEPT ![p][n] = d] /\ entry'[p][n] = d /\ d \in Free
        /\ mode' = [mode EXCEPT ![d] = "private"]
    <3>1. Mkdir(p, n, d)
      BY <2>1, <2>2
    <3>2. Files
      BY <1>0
    <3> QED BY <1>0, <3>1, <3>2, MkdirFiles
  <2>4. mode \in [Dirs -> Modes]
    BY DEF Shape, TypeOK
  <2>5. \A c \in Dirs, k \in Names : entry'[c][k] = IF c = p /\ k = n THEN d ELSE entry[c][k]
    <3>1. entry \in [Dirs -> [Names -> Targets]] /\ entry' = [entry EXCEPT ![p][n] = d]
      BY <1>0, <2>3 DEF Links
    <3> QED BY <1>0, <2>2, <3>1
  <2>6. n # OutputPath[Len(ancestry)]
    BY <1>0, OtherName DEF Draw
  <2>7. PICK l \in Nat : /\ l + 1 = Len(ancestry) /\ l < Len(OutputPath)
                         /\ Trail(OutputPath)[l] = p
                         /\ \A i \in Nat : i <= Len(OutputPath) /\ Trail(OutputPath)[i] = p => i = l
    BY <1>0, <2>2, ParentPlaced
  <2>8. ASSUME NEW k \in Nat, k < Len(OutputPath), Trail(OutputPath)[k] \in Dirs
        PROVE  entry'[Trail(OutputPath)[k]][OutputPath[k + 1]]
                 = entry[Trail(OutputPath)[k]][OutputPath[k + 1]]
    <3>1. OutputPath[k + 1] \in Names /\ k <= Len(OutputPath)
      BY <1>0, <2>8
    <3>2. Trail(OutputPath)[k] = p => k = l
      BY <2>7, <3>1
    <3> QED BY <2>5, <2>6, <2>7, <2>8, <3>1, <3>2
  <2>9. \A k \in 0 .. Len(OutputPath) : Trail(OutputPath)'[k] = Trail(OutputPath)[k]
    <3>1. Links'
      BY <1>0 DEF Files, FilesOK
    <3> QED BY <1>0, <2>8, <3>1, TrailStill
  <2>10. \A x \in Dirs : Trusted(x) => Trusted(x)'
    BY <2>3, <2>4 DEF Trusted
  <2>11. Clear'
    BY <2>9, <2>10 DEF Placed, Clear
  <2>12. Placed'
    <3>1. \A k \in 0 .. Len(ancestry) - 1 : k \in 0 .. Len(OutputPath)
      BY <1>0
    <3> QED BY <1>0, <2>9, <2>11, <3>1 DEF Placed
  <2>13. Made' = d
    BY <1>0, <2>2, <2>3 DEF Made, Parent
  <2>14. \A k \in Names : entry[d][k] = NoDir /\ d # p
    <3>1. Linked(p) /\ d \in Free
      BY <2>1, <2>2, <2>3 DEF Mkdir
    <3> QED BY <1>0, <3>1, FreeFacts DEF Free
  <2>15. Fresh(Made)'
    <3>1. mode'[d] = "private" /\ \A k \in Names : entry'[d][k] = NoDir
      BY <2>3, <2>4, <2>5, <2>14
    <3> QED BY <2>1, <2>13, <3>1 DEF Fresh, Empty
  <2> QED BY <1>2, <2>12, <2>15
<1> QED BY <1>1, <1>2, DrawFiles

(* The actions of the walks keep Quiet.                                    *)
LEMMA QuietWalk ==
  ASSUME Shape, Tree, Walked, Quiet, edits = 0, Walk
  PROVE  Quiet'
<1>0. moved = {} /\ ~late /\ Links /\ OutputPath \in Seq(Names)
  BY ShapeFiles, WorkRootAssumption DEF Quiet
<1>1. CASE Descend
  <2>0. /\ UNCHANGED <<files, pc, outcome, attempt, faults, late, ancestry, name, root>>
        /\ ids' = Append(ids, Ahead) /\ Ahead \in Dirs /\ ~Complete /\ Trusted(Here)
        /\ pc \in {"walk", "again"}
    BY <1>1 DEF Descend, Walking, own, env
  <2>1. moved' = {} /\ mine' = mine
    BY <1>0, <2>0 DEF files
  <2>2. outcome = "none"
    BY <2>0 DEF Shape
  <2>3. CASE pc = "walk"
    <3>1. Passed
      BY <2>3 DEF Quiet
    <3>2. PICK s \in Seq(Dirs), n \in Nat, d \in Dirs :
            /\ s = ids /\ Len(s) = n + 1 /\ n = Depth /\ d = Ahead
            /\ n < Len(OutputPath) /\ s[n + 1] = Here
      BY <2>0, WalkFacts
    <3>3. Trail(OutputPath)[n] = Here /\ Here \in Dirs
      BY <3>1, <3>2, WalkFacts DEF Passed
    <3>4. Trail(OutputPath)[n + 1] = d
      BY <1>0, <3>2, <3>3, TrailNext DEF TrailLaw, Ahead
    <3>5. PICK t \in Seq(Dirs) : /\ t = Append(s, d) /\ Len(t) = n + 2 /\ t[n + 2] = d
                                 /\ \A k \in 1 .. n + 1 : t[k] = s[k]
      <4>1. /\ Append(s, d) \in Seq(Dirs) /\ Len(Append(s, d)) = Len(s) + 1
            /\ Append(s, d)[Len(s) + 1] = d
            /\ \A k \in 1 .. Len(s) : Append(s, d)[k] = s[k]
        OBVIOUS
      <4>2. Len(s) + 1 = n + 2 /\ Len(s) = n + 1
        BY <3>2
      <4> QED BY <4>1, <4>2, Zenon
    <3>6. ASSUME NEW k \in 0 .. n + 1
          PROVE  t[k + 1] = Trail(OutputPath)[k] /\ (k < n + 1 => Trusted(t[k + 1]))
      <4>1. CASE k = n + 1
        BY <3>4, <3>5, <4>1
      <4>2. CASE k # n + 1
        <5>1. k \in 0 .. Len(s) - 1 /\ k + 1 \in 1 .. n + 1 /\ (k # n => k < n)
          BY <3>2, <4>2
        <5>2. s[k + 1] = Trail(OutputPath)[k] /\ (k # n => Trusted(s[k + 1]))
          BY <3>1, <3>2, <5>1 DEF Passed
        <5>3. k = n => Trusted(s[k + 1])
          BY <2>0, <3>2
        <5> QED BY <3>5, <5>1, <5>2, <5>3
      <4> QED BY <4>1, <4>2
    <3>7. ids' = t /\ Len(t) - 1 = n + 1
      BY <2>0, <3>2, <3>5
    <3>8. Trail(OutputPath)' = Trail(OutputPath) /\ mode' = mode
      BY <1>0, <2>0, TrailSame DEF files
    <3>9. Passed'
      BY <3>6, <3>7, <3>8 DEF Passed, Depth, Trusted
    <3> QED BY <1>0, <2>0, <2>1, <2>2, <2>3, <3>9 DEF Quiet, Dropping
  <2>4. CASE pc = "again"
    <3>1. Placed /\ Fresh(root)
      BY <2>4 DEF Quiet
    <3>2. Placed' /\ Fresh(root)'
      BY <2>0, <3>1, QuietSame DEF Fresh
    <3> QED BY <1>0, <2>0, <2>1, <2>2, <2>4, <3>2 DEF Quiet, Dropping
  <2> QED BY <2>0, <2>3, <2>4
<1>2. CASE WalkFails
  <2>0. /\ UNCHANGED <<files, late, ancestry, name, root>> /\ pc \in {"walk", "again"}
        /\ Because(~Trusted(Here) \/ (~Complete /\ Ahead = Thing)) /\ Refuse
    BY <1>2 DEF WalkFails, Walking, own, env
  <2>1. moved' = {} /\ mine' = mine
    BY <1>0, <2>0 DEF files
  <2>2. CASE pc = "walk"
    <3>1. pc' = "done" /\ mine = {}
      BY <2>0, <2>2 DEF Refuse, End, Shape
    <3> QED BY <1>0, <2>0, <2>1, <3>1 DEF Quiet, Dropping
  <2>3. CASE pc = "again"
    <3>1. Placed /\ Fresh(root)
      BY <2>3 DEF Quiet
    <3>2. Trusted(Here) /\ (~Complete => Ahead # Thing)
      BY <1>0, <2>3, <3>1, QuietAgain
    <3>3. faults' = faults + 1 /\ faults \in Nat
      BY <2>0, <3>2 DEF Because, Charge, Failing, Shape, TypeOK
    <3>4. pc' = "runner" /\ outcome' = "refused" /\ attempt' = 2
      BY <2>0, <2>3 DEF Refuse
    <3>5. Fresh(root)'
      BY <2>0, <3>1, QuietSame DEF Fresh
    <3> QED BY <1>0, <2>0, <2>1, <3>3, <3>4, <3>5 DEF Quiet, Dropping
  <2> QED BY <2>0, <2>2, <2>3
<1>3. CASE FindParent
  <2>1. Passed
    BY <1>3 DEF Quiet, FindParent
  <2>2. Placed'
    BY <1>3, <2>1, QuietFind
  <2>3. pc' = "make" /\ outcome' = "none" /\ moved' = {} /\ ~late'
    BY <1>0, <1>3 DEF FindParent, Shape, files, env
  <2> QED BY <2>2, <2>3 DEF Quiet, Dropping
<1>4. CASE WalkEnds
  <2>0. UNCHANGED <<files, late, ancestry, name, root, outcome, attempt, faults>>
        /\ pc = "again" /\ pc' = "overlap"
    BY <1>4 DEF WalkEnds, own, env
  <2>1. outcome = "none" /\ Placed /\ Fresh(root)
    BY <2>0 DEF Quiet, Shape
  <2>2. Placed' /\ Fresh(root)' /\ moved' = {}
    BY <1>0, <2>0, <2>1, QuietSame DEF Fresh, files
  <2> QED BY <1>0, <2>0, <2>1, <2>2 DEF Quiet, Dropping
<1> QED BY <1>1, <1>2, <1>3, <1>4 DEF Walk

(* The actions that make the work root keep Quiet.                         *)
LEMMA QuietCreate ==
  ASSUME Shape, Tree, Walked, Quiet, edits = 0, Create
  PROVE  Quiet'
<1>0. moved = {} /\ ~late /\ faults \in Nat
  BY DEF Quiet, Shape, TypeOK
<1>1. ASSUME NEW n \in WorkNames, Draw(n) PROVE Quiet'
  <2>1. Placed /\ outcome' = "none" /\ late' = late
    BY <1>1 DEF Draw, Quiet, Shape, env
  <2>2. moved' = {}
    <3>1. moved' = moved \/ \E d : moved' = moved \ {d}
      BY <1>1 DEF Draw, Mkdir, Forget, files
    <3> QED BY <1>0, <3>1
  <2>3. CASE UNCHANGED <<files, pc>> /\ Placed'
    <3>1. pc' = "make"
      BY <1>1, <2>3 DEF Draw
    <3> QED BY <1>0, <2>1, <2>2, <2>3, <3>1 DEF Quiet, Dropping
  <2>4. CASE pc' = "open" /\ Placed' /\ Fresh(Made)'
    BY <1>0, <2>1, <2>2, <2>4 DEF Quiet, Dropping
  <2> QED BY <1>1, <2>1, <2>3, <2>4, QuietDraw
<1>2. CASE DrawFails
  <2>1. pc' = "done" /\ mine' = {} /\ moved' = {} /\ late' = late
    BY <1>0, <1>2 DEF DrawFails, End, Shape, files, env
  <2> QED BY <1>0, <2>1 DEF Quiet, Dropping
<1>3. CASE Open
  <2>1. UNCHANGED <<files, ancestry, name, outcome, late>> /\ root' = Made
        /\ pc = "open" /\ pc' = "validate"
    BY <1>3 DEF Open, env
  <2>2. Placed /\ Fresh(Made) /\ outcome = "none"
    BY <2>1 DEF Quiet, Shape
  <2>3. Placed' /\ Fresh(Made)' /\ Made' = Made /\ moved' = {}
    BY <1>0, <2>1, <2>2, QuietSame DEF files, Fresh
  <2>4. Fresh(root)'
    BY <2>1, <2>3 DEF Fresh
  <2> QED BY <1>0, <2>1, <2>2, <2>3, <2>4 DEF Quiet, Dropping
<1>4. CASE OpenFails
  <2>1. pc = "open" /\ pc' = "done" /\ late' = late
    BY <1>4 DEF OpenFails, End, env
  <2>2. Fresh(Made)
    BY <2>1 DEF Quiet
  <2>3. CanRmdir(Parent, name)
    BY <2>2 DEF Fresh, CanRmdir, Made, Empty
  <2>4. CASE Rmdir(Parent, name)
    <3>1. moved' = {} /\ mine' = {}
      BY <1>0, <2>2, <2>4 DEF Rmdir, Release, Fresh, Made
    <3> QED BY <1>0, <2>1, <3>1 DEF Quiet, Dropping
  <2>5. CASE Failing(2) /\ UNCHANGED files
    <3>1. moved' = {} /\ faults' = faults + 2
      BY <1>0, <2>5 DEF Failing, files
    <3> QED BY <1>0, <2>1, <3>1 DEF Quiet, Dropping
  <2> QED BY <1>4, <2>3, <2>4, <2>5 DEF OpenFails
<1>5. CASE Validate
  <2>1. UNCHANGED <<files, ancestry, name, root, outcome>> /\ ~late'
        /\ pc = "validate" /\ pc' = "again"
    BY <1>5 DEF Validate, own
  <2>2. Placed /\ Fresh(root) /\ outcome = "none"
    BY <2>1 DEF Quiet, Shape
  <2>3. Placed' /\ Fresh(root)' /\ moved' = {}
    BY <1>0, <2>1, <2>2, QuietSame DEF files, Fresh
  <2> QED BY <2>1, <2>2, <2>3 DEF Quiet, Dropping
<1>6. CASE ValidateFails
  <2>1. UNCHANGED <<files, ancestry, name, root, late>> /\ pc = "validate"
        /\ pc' = "runner" /\ outcome' = "refused" /\ attempt' = 2
        /\ Because(mode[root] # "private")
    BY <1>6 DEF ValidateFails, Refuse, own, env
  <2>2. Fresh(root)
    BY <2>1 DEF Quiet
  <2>3. Fresh(root)' /\ moved' = {}
    BY <1>0, <2>1, <2>2, QuietSame DEF files, Fresh
  <2>4. faults' = faults + 1
    BY <2>1, <2>2 DEF Because, Charge, Failing, Fresh
  <2> QED BY <1>0, <2>1, <2>3, <2>4 DEF Quiet, Dropping
<1>7. CASE Accept
  <2>1. pc' = "ready" /\ outcome' = "none" /\ moved' = {} /\ ~late'
    BY <1>0, <1>7 DEF Accept, Shape, files, env
  <2> QED BY <2>1 DEF Quiet, Dropping
<1>8. CASE Reject
  <2>1. pc = "overlap" /\ Overlaps
    BY <1>8 DEF Reject
  <2>2. Placed /\ Fresh(root)
    BY <2>1 DEF Quiet
  <2> QED BY <1>0, <2>1, <2>2, QuietOverlap
<1> QED BY <1>1, <1>2, <1>3, <1>4, <1>5, <1>6, <1>7, <1>8 DEF Create

(* The actions of the runs keep Quiet.                                     *)
LEMMA QuietRun ==
  ASSUME Shape, Tree, Anchors, Quiet, edits = 0, Run
  PROVE  Quiet'
<1>1. moved = {} /\ ~late
  BY DEF Quiet
<1>2. moved' = {}
  BY <1>1, RunFiles DEF Mild, Grown, Pruned
<1>3. pc' \in {"ready", "scope", "run", "runner"} /\ outcome' = "none" /\ late' = late
  BY DEF Run, BeginRun, PrepareBase, OpenScope, OpenScopeFails, CloseScope, CloseScopeFails, EndRun,
     FailRun, Shape, env
<1> QED BY <1>1, <1>2, <1>3 DEF Quiet, Dropping

(* The actions of the removal keep Quiet: one failure is not enough for a  *)
(* new work root to be left behind.                                        *)
LEMMA QuietCleanUp ==
  ASSUME Shape, Tree, Quiet, edits = 0, CleanUp
  PROVE  Quiet'
<1>0. moved = {} /\ ~late /\ faults \in Nat /\ NoDir \notin Dirs /\ Thing # NoDir
      /\ RunnerName \in Names
  BY WorkRootAssumption DEF Quiet, Shape, TypeOK
<1>1. moved' = {}
  BY <1>0 DEF CleanUp, Finish, CheckRunner, CheckRunnerFails, RemoveRunner, RemoveRunnerFails,
     Compare, CompareFails, RemoveRoot, RemoveRootFails, Rmdir, Release, files
<1>2. late' = FALSE /\ pc # "done"
  <2>1. late = FALSE
    BY <1>0 DEF Shape, TypeOK
  <2>2. (late' = late \/ late' = FALSE) /\ pc \in {"ready", "runner", "emptied", "compare", "remove"}
    BY CleanUpFrame
  <2> QED BY <2>1, <2>2
<1>3. CASE outcome = "refused"
  <2>1. Dropping
    BY <1>2, <1>3 DEF Dropping
  <2>2. Fresh(root) /\ faults >= 1 /\ attempt = 2 /\ pc \in {"runner", "compare", "remove"}
    BY <2>1 DEF Quiet
  <2>3. Runner = NoDir /\ IsWorkRoot /\ CanRmdir(Parent, name)
    BY <1>0, <2>2 DEF Runner, Fresh, Empty, IsWorkRoot, CanRmdir, Made
  <2>4. UNCHANGED <<ancestry, name, root>>
    BY CleanUpFrame
  <2>5. UNCHANGED files => Fresh(root)'
    BY <2>2, <2>4, QuietSame DEF Fresh
  <2>6. CASE CheckRunner
    <3>1. pc' = "compare" /\ UNCHANGED <<files, outcome, attempt, faults>>
      BY <1>0, <2>3, <2>6 DEF CheckRunner
    <3> QED BY <1>1, <1>2, <1>3, <2>2, <2>5, <3>1 DEF Quiet, Dropping
  <2>7. CASE CheckRunnerFails
    <3>1. pc' = "done" /\ faults' = faults + 1
      BY <1>0, <2>2, <2>3, <2>7 DEF CheckRunnerFails, Because, Charge, Failing, Stuck
    <3> QED BY <1>0, <1>1, <1>2, <2>2, <3>1 DEF Quiet, Dropping
  <2>8. CASE Compare
    <3>1. pc' = "remove" /\ UNCHANGED <<files, outcome, attempt, faults>>
      BY <2>8 DEF Compare
    <3> QED BY <1>1, <1>2, <1>3, <2>2, <2>5, <3>1 DEF Quiet, Dropping
  <2>9. CASE CompareFails
    <3>1. pc' = "done" /\ faults' = faults + 1
      BY <2>2, <2>3, <2>9 DEF CompareFails, Because, Charge, Failing, Stuck
    <3> QED BY <1>0, <1>1, <1>2, <2>2, <3>1 DEF Quiet, Dropping
  <2>10. CASE RemoveRoot
    <3>1. pc' = "done" /\ mine' = mine \ {Made}
      BY <2>10 DEF RemoveRoot, Rmdir, Release, Made
    <3>2. mine' = {}
      BY <2>2, <3>1 DEF Fresh
    <3> QED BY <1>1, <1>2, <3>1, <3>2 DEF Quiet, Dropping
  <2>11. CASE RemoveRootFails
    <3>1. pc' = "done" /\ faults' = faults + 1
      BY <2>2, <2>3, <2>11 DEF RemoveRootFails, Because, Charge, Failing, Stuck
    <3> QED BY <1>0, <1>1, <1>2, <2>2, <3>1 DEF Quiet, Dropping
  <2> QED BY <2>2, <2>6, <2>7, <2>8, <2>9, <2>10, <2>11
      DEF CleanUp, Finish, RemoveRunner, RemoveRunnerFails
<1>4. CASE outcome # "refused"
  <2>1. outcome' # "refused" /\ pc' \in {"runner", "emptied", "compare", "remove", "done"}
    BY <1>4, CleanUpFrame
  <2> QED BY <1>1, <1>2, <2>1 DEF Quiet, Dropping
<1> QED BY <1>3, <1>4

(* Every step keeps Quiet.                                                 *)
LEMMA QuietNext ==
  ASSUME Shape, Tree, Anchors, Walked, Quiet, [Next]_vars
  PROVE  Quiet'
<1>1. CASE Interfere
  BY <1>1 DEF Interfere, Quiet, Shape, TypeOK
<1>2. CASE UNCHANGED vars
  <2>1. UNCHANGED <<files, pc, ids, ancestry, name, root, outcome, attempt, faults, late, edits>>
    BY <1>2 DEF vars, own, env
  <2>2. moved' = moved /\ mine' = mine
    BY <2>1 DEF files
  <2> SUFFICES ASSUME edits = 0 PROVE Quiet'
    BY <2>1 DEF Quiet
  <2>3. /\ pc = "walk" => Passed'
        /\ pc \in {"make", "open", "validate", "again", "overlap"} => Placed'
    BY <2>1, QuietSame DEF Quiet
  <2>4. Made' = Made /\ \A d : Fresh(d) => Fresh(d)'
    BY <2>1, QuietSame
  <2>5. /\ pc = "open" => Fresh(Made)'
        /\ pc \in {"validate", "again", "overlap"} \/ Dropping => Fresh(root)'
    BY <2>1, <2>4 DEF Quiet, Fresh
  <2> QED BY <2>1, <2>2, <2>3, <2>5 DEF Quiet, Dropping
<1>3. ASSUME Walk \/ Create \/ Run \/ CleanUp PROVE Quiet'
  <2>1. edits' = edits
    <3>1. CASE Walk
      BY <3>1 DEF Walk, Descend, WalkFails, FindParent, WalkEnds, env
    <3>2. CASE Create
      BY <3>2 DEF Create, Draw, DrawFails, Open, OpenFails, Validate, ValidateFails, Accept, Reject, env
    <3>3. CASE Run
      BY <3>3 DEF Run, BeginRun, PrepareBase, OpenScope, OpenScopeFails, CloseScope, CloseScopeFails,
         env
    <3>4. CASE CleanUp
      BY <3>4, CleanUpFrame
    <3> QED BY <1>3, <3>1, <3>2, <3>3, <3>4
  <2>2. CASE edits = 0
    BY <1>3, <2>2, QuietWalk, QuietCreate, QuietRun, QuietCleanUp
  <2>3. CASE edits # 0
    BY <2>1, <2>3 DEF Quiet
  <2> QED BY <2>2, <2>3
<1> QED BY <1>1, <1>2, <1>3 DEF Next

-----------------------------------------------------------------------------
(* The invariant, and what follows from it.                                *)

(* A part of the output path that exists is a forest.                      *)
LEMMA InitTree ==
  ASSUME Init
  PROVE  Shape /\ Tree
<1>0. Top \in Dirs /\ NoDir \notin Dirs /\ Thing \notin Dirs /\ OutputPath \in Seq(Names)
      /\ Len(OutputPath) \in Nat /\ RunnerName \in Names /\ Len(Runs) \in Nat /\ Len(ScopeNames) \in Nat
      /\ MaxTries \in Nat
  BY WorkRootAssumption
<1>1. PICK k \in 0 .. Len(OutputPath) : \E chain \in [0 .. k -> Dirs] :
        /\ chain[0] = Top /\ IsInjective(chain)
        /\ \E next \in {NoDir, Thing} :
             entry = [d \in Dirs |-> [n \in Names |->
                        IF \E i \in 0 .. k - 1 : chain[i] = d /\ OutputPath[i + 1] = n
                        THEN chain[1 + CHOOSE i \in 0 .. k - 1 : chain[i] = d]
                        ELSE IF k < Len(OutputPath) /\ d = chain[k] /\ n = OutputPath[k + 1]
                             THEN next ELSE NoDir]]
        /\ \E weak \in SUBSET {chain[i] : i \in 0 .. k} :
             /\ Cardinality(weak) <= 1
             /\ mode = [d \in Dirs |-> IF d \in weak THEN "unsafe" ELSE "shared"]
  BY DEF Init
<1>16. PICK chain \in [0 .. k -> Dirs] :
        /\ chain[0] = Top /\ IsInjective(chain)
        /\ \E next \in {NoDir, Thing} :
             entry = [d \in Dirs |-> [n \in Names |->
                        IF \E i \in 0 .. k - 1 : chain[i] = d /\ OutputPath[i + 1] = n
                        THEN chain[1 + CHOOSE i \in 0 .. k - 1 : chain[i] = d]
                        ELSE IF k < Len(OutputPath) /\ d = chain[k] /\ n = OutputPath[k + 1]
                             THEN next ELSE NoDir]]
        /\ \E weak \in SUBSET {chain[i] : i \in 0 .. k} :
             /\ Cardinality(weak) <= 1
             /\ mode = [d \in Dirs |-> IF d \in weak THEN "unsafe" ELSE "shared"]
  BY <1>1
<1>2. PICK next \in {NoDir, Thing} :
        entry = [d \in Dirs |-> [n \in Names |->
                   IF \E i \in 0 .. k - 1 : chain[i] = d /\ OutputPath[i + 1] = n
                   THEN chain[1 + CHOOSE i \in 0 .. k - 1 : chain[i] = d]
                   ELSE IF k < Len(OutputPath) /\ d = chain[k] /\ n = OutputPath[k + 1]
                        THEN next ELSE NoDir]]
  BY <1>16
<1>3. \A i, j \in 0 .. k : chain[i] = chain[j] => i = j
  <2>1. DOMAIN chain = 0 .. k
    BY <1>16
  <2> QED BY <1>16, <2>1 DEF IsInjective
<1>4. \A i \in 0 .. k : chain[i] \in Dirs
  BY <1>16
<1>5. \A i \in 0 .. k - 1 : i \in 0 .. k /\ i + 1 \in 0 .. k /\ 1 + i = i + 1 /\ OutputPath[i + 1] \in Names
  BY <1>0
<1>6. ASSUME NEW i \in 0 .. k - 1 PROVE entry[chain[i]][OutputPath[i + 1]] = chain[i + 1]
  <2>1. (CHOOSE j \in 0 .. k - 1 : chain[j] = chain[i]) = i
    <3>1. \A j \in 0 .. k - 1 : chain[j] = chain[i] => j = i
      BY <1>3, <1>5
    <3> QED BY <3>1
  <2>2. PICK d \in Dirs, n \in Names : d = chain[i] /\ n = OutputPath[i + 1]
    BY <1>4, <1>5
  <2>3. entry[d][n] = chain[1 + CHOOSE j \in 0 .. k - 1 : chain[j] = d]
    BY <1>2, <2>2
  <2> QED BY <1>5, <2>1, <2>2, <2>3
<1>7. ASSUME NEW d \in Dirs, NEW n \in Names,
             ~ \E i \in 0 .. k - 1 : chain[i] = d /\ OutputPath[i + 1] = n
      PROVE  entry[d][n] \in {NoDir, Thing} /\ (entry[d][n] # NoDir => d = chain[k])
  BY <1>2, <1>7
<1>8. \A d \in Dirs, n \in Names : entry[d][n] \in Dirs =>
        \E i \in 0 .. k - 1 : chain[i] = d /\ OutputPath[i + 1] = n /\ entry[d][n] = chain[i + 1]
  BY <1>0, <1>6, <1>7
<1>9. Links
  <2>1. \A d \in Dirs, n \in Names : entry[d][n] \in Targets
    <3> TAKE d \in Dirs, n \in Names
    <3>1. CASE \E i \in 0 .. k - 1 : chain[i] = d /\ OutputPath[i + 1] = n
      BY <1>4, <1>5, <1>6, <3>1 DEF Targets
    <3>2. CASE ~ \E i \in 0 .. k - 1 : chain[i] = d /\ OutputPath[i + 1] = n
      BY <1>7, <3>2 DEF Targets
    <3> QED BY <3>1, <3>2
  <2>2. entry = [d \in Dirs |-> [n \in Names |-> entry[d][n]]]
    BY <1>2
  <2> QED BY <2>1, <2>2 DEF Links
<1>10. mode \in [Dirs -> Modes]
  BY <1>16 DEF Modes
<1>11. Shape
  <2>1. <<Top>> \in Seq(Dirs) /\ <<Top>> # <<>> /\ Len(<<Top>>) <= Len(OutputPath) + 1
        /\ <<Top>>[1] = Top /\ <<>> \in Seq(Dirs)
    BY <1>0
  <2>2. entry \in [Dirs -> [Names -> Dirs \cup {NoDir, Thing}]]
    BY <1>9 DEF Links, Targets
  <2>3. /\ pc = "walk" /\ ids = <<Top>>
        /\ ancestry = <<>> /\ name = RunnerName /\ root = NoDir /\ tries = 0
        /\ runs = 0 /\ drawn = 0 /\ attempt = 1 /\ outcome = "none"
        /\ mine = {} /\ moved = {} /\ late = FALSE /\ faults = 0 /\ edits = 0
    BY DEF Init
  <2>4. TypeOK
    <3>1. pc \in {"walk", "make", "open", "validate", "again", "overlap", "ready", "scope", "run",
                  "runner", "emptied", "compare", "remove", "done"}
      BY <2>3
    <3>2. ids \in Seq(Dirs) /\ ancestry \in Seq(Dirs)
      BY <2>1, <2>3
    <3>3. name \in Names /\ root \in Dirs \cup {NoDir} /\ tries \in 0 .. MaxTries
      BY <1>0, <2>3
    <3>4. runs \in 0 .. Len(Runs) /\ drawn \in 0 .. Len(ScopeNames)
      BY <1>0, <2>3
    <3>5. attempt \in 1 .. 2 /\ outcome \in {"none", "refused", "removed", "failed"}
      BY <2>3
    <3>6. mine \subseteq Dirs /\ moved \subseteq Dirs /\ late \in BOOLEAN /\ faults \in Nat /\ edits \in Nat
      BY <2>3
    <3> QED BY <1>10, <2>2, <3>1, <3>2, <3>3, <3>4, <3>5, <3>6 DEF TypeOK
  <2> QED BY <1>0, <2>1, <2>3, <2>4 DEF Shape, Late
<1>12. ASSUME NEW c \in Dirs, NEW d \in Dirs, NEW m \in Names, NEW n \in Names,
              entry[c][m] = entry[d][n], entry[c][m] \in Dirs
       PROVE  c = d /\ m = n
  <2>1. PICK i \in 0 .. k - 1 : chain[i] = c /\ OutputPath[i + 1] = m /\ entry[c][m] = chain[i + 1]
    BY <1>8, <1>12
  <2>2. PICK j \in 0 .. k - 1 : chain[j] = d /\ OutputPath[j + 1] = n /\ entry[d][n] = chain[j + 1]
    BY <1>8, <1>12
  <2>3. i + 1 = j + 1
    BY <1>3, <1>5, <1>12, <2>1, <2>2
  <2>4. i = j
    BY <2>3
  <2> QED BY <2>1, <2>2, <2>4
<1>13. ASSUME NEW c \in Dirs, NEW n \in Names, entry[c][n] = Top PROVE FALSE
  <2>1. PICK i \in 0 .. k - 1 : entry[c][n] = chain[i + 1]
    BY <1>0, <1>8, <1>13
  <2>2. 0 \in 0 .. k /\ i + 1 # 0
    OBVIOUS
  <2> QED BY <1>16, <1>3, <1>5, <1>13, <2>1, <2>2
<1>14. ASSUME NEW c \in Dirs, NEW n \in Names, entry[c][n] \in Dirs PROVE c \notin Below(entry[c][n])
  <2>1. PICK i \in 0 .. k - 1 : chain[i] = c /\ entry[c][n] = chain[i + 1]
    BY <1>8, <1>14
  <2> DEFINE S == {chain[j] : j \in i + 1 .. k}
  <2>2. S \in SUBSET Dirs
    BY <1>4
  <2>3. i + 1 \in i + 1 .. k
    OBVIOUS
  <2>4. chain[i + 1] \in S
    BY <2>3
  <2>5. Closed(S)
    <3>1. ASSUME NEW a \in S, NEW b \in Names, entry[a][b] \in Dirs PROVE entry[a][b] \in S
      <4>1. PICK j \in i + 1 .. k : a = chain[j]
        OBVIOUS
      <4>2. PICK l \in 0 .. k - 1 : chain[l] = a /\ entry[a][b] = chain[l + 1]
        BY <1>8, <2>2, <3>1
      <4>3. l = j
        <5>1. l \in 0 .. k /\ j \in 0 .. k
          OBVIOUS
        <5> QED BY <1>3, <4>1, <4>2, <5>1
      <4>4. l + 1 \in i + 1 .. k
        BY <4>3
      <4> QED BY <4>2, <4>4
    <3> QED BY <3>1 DEF Closed
  <2>6. c \notin S
    <3>1. ASSUME NEW j \in i + 1 .. k PROVE chain[j] # c
      <4>1. i \in 0 .. k /\ j \in 0 .. k /\ i # j
        OBVIOUS
      <4> QED BY <1>3, <2>1, <4>1
    <3> QED BY <3>1
  <2> HIDE DEF S
  <2>7. Below(entry[c][n]) \subseteq S
    BY <1>14, <2>1, <2>2, <2>4, <2>5, BelowFacts DEF BelowLaw
  <2> QED BY <2>6, <2>7
<1>15. ASSUME NEW d \in Dirs, ~Linked(d) PROVE Empty(d)
  <2>1. SUFFICES ASSUME NEW n \in Names, entry[d][n] # NoDir PROVE Linked(d)
    BY <1>15 DEF Empty
  <2>2. \E i \in 0 .. k : d = chain[i]
    <3>1. k \in 0 .. k
      OBVIOUS
    <3> QED BY <1>5, <1>7, <2>1, <3>1
  <2>3. PICK i \in 0 .. k : d = chain[i]
    BY <2>2
  <2>4. CASE i = 0
    BY <1>16, <2>3, <2>4 DEF Linked
  <2>5. CASE i # 0
    <3>1. i - 1 \in 0 .. k - 1 /\ (i - 1) + 1 = i
      BY <2>5
    <3>2. PICK h \in 0 .. k - 1 : h = i - 1 /\ h + 1 = i
      BY <3>1
    <3>3. PICK a \in Dirs, b \in Names : a = chain[h] /\ b = OutputPath[h + 1]
      <4>1. h \in 0 .. k /\ OutputPath[h + 1] \in Names
        BY <1>5
      <4> QED BY <1>4, <4>1
    <3>4. entry[a][b] = d
      BY <1>6, <2>3, <3>2, <3>3
    <3> QED BY <3>4 DEF Linked
  <2> QED BY <2>4, <2>5
<1> QED BY <1>11, <1>12, <1>13, <1>14, <1>15 DEF Tree

(* The invariant holds initially.                                          *)
LEMMA InitInvariant ==
  ASSUME Init
  PROVE  IInv
<1>0. Shape /\ Tree /\ Links /\ OutputPath \in Seq(Names) /\ Len(OutputPath) \in Nat /\ Len(OutputPath) > 0
      /\ NoDir \notin Dirs
  BY InitTree, ShapeFiles, WorkRootAssumption
<1>1. ids = <<Top>> /\ Len(ids) = 1 /\ ids[1] = Top /\ pc = "walk" /\ ancestry = <<>> /\ root = NoDir
      /\ moved = {} /\ late = FALSE /\ outcome = "none" /\ mine = {}
  BY DEF Init
<1>2. ~Complete /\ Depth = 0
  BY <1>0, <1>1 DEF Complete, Depth
<1>3. Anchored(ids)
  <2>1. InPlace(ids, 1)
    BY <1>1 DEF InPlace
  <2> QED BY <1>1, <2>1 DEF Anchored
<1>4. Anchors
  BY <1>0, <1>1, <1>2, <1>3 DEF Anchors
<1>5. Passed
  <2>1. Trail(OutputPath)[0] = Top
    BY <1>0, TrailNext DEF TrailLaw
  <2> QED BY <1>1, <1>2, <2>1 DEF Passed
<1>6. Kept /\ Walked /\ Removal
  BY <1>1 DEF Kept, Undisturbed, Walked, Removal
<1>7. Quiet
  BY <1>1, <1>5 DEF Quiet, Dropping
<1> QED BY <1>0, <1>4, <1>6, <1>7 DEF IInv

(* Every step keeps the invariant.                                         *)
LEMMA InvariantNext ==
  ASSUME IInv, [Next]_vars
  PROVE  IInv'
<1>1. Files'
  BY StepFiles DEF IInv
<1>2. Shape'
  BY <1>1, ShapeNext DEF IInv
<1>3. Tree'
  BY <1>1 DEF Files
<1>4. Anchors'
  BY AnchorsNext DEF IInv
<1>5. Kept'
  BY KeptStep DEF IInv
<1>6. Walked'
  BY WalkedNext DEF IInv
<1>7. Removal'
  BY RemovalNext DEF IInv
<1>8. Quiet'
  BY QuietNext DEF IInv
<1> QED BY <1>2, <1>3, <1>4, <1>5, <1>6, <1>7, <1>8 DEF IInv

(* The invariant holds for all file systems, paths, runs, failures and     *)
(* changes by others.                                                      *)
THEOREM InvariantHolds == Spec => []IInv
<1>1. Init => IInv
  BY InitInvariant
<1>2. IInv /\ [Next]_vars => IInv'
  BY InvariantNext
<1> QED BY <1>1, <1>2, PTL DEF Spec

(* Every variable keeps its type.                                          *)
THEOREM TypeCorrect == Spec => []TypeOK
<1>1. IInv => TypeOK
  BY DEF IInv, Shape
<1> QED BY <1>1, InvariantHolds, PTL

(* The work root that was accepted is never the output directory, above it *)
(* or below it, unless another process has moved directories since the     *)
(* check (main.rs, WorkRoot::create_with_parent and paths_overlap).        *)
THEOREM ApartHolds == Spec => []WorkRootIsApart
<1>1. IInv => WorkRootIsApart
  BY ApartFollows DEF IInv
<1> QED BY <1>1, InvariantHolds, PTL

(* The invariant implies CleanupIsExact.                                   *)
LEMMA CleanupFollows ==
  ASSUME IInv
  PROVE  CleanupIsExact
<1>1. pc = "remove" /\ ~late => Made = root
  BY DEF IInv, Removal
<1>2. ASSUME outcome = "removed", moved \cap ToSet(ancestry) = {} PROVE Leftover = {}
  <2>1. ancestry # <<>> /\ Linked(Parent) /\ Made = NoDir
    BY <1>2 DEF IInv, Removal
  <2>2. Undisturbed
    BY <1>2, <2>1 DEF Undisturbed
  <2> QED BY <2>1, <2>2, WorkRootAssumption DEF IInv, Kept
<1>3. ASSUME pc = "done", outcome = "refused", edits = 0, faults <= 1 PROVE Leftover = {}
  BY <1>3 DEF IInv, Quiet, Leftover
<1> QED BY <1>1, <1>2, <1>3 DEF CleanupIsExact

(* The removal by name removes the work root that was compared, a removal  *)
(* that succeeds leaves nothing of the compilation behind while nobody has *)
(* renamed a directory above it, and a refusal leaves nothing behind when  *)
(* at most one call failed (main.rs, remove_owned_directory and the drop   *)
(* of WorkRoot).                                                           *)
THEOREM CleanupHolds == Spec => []CleanupIsExact
<1>1. IInv => CleanupIsExact
  BY CleanupFollows
<1> QED BY <1>1, InvariantHolds, PTL

=============================================================================
