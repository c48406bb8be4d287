----------------------- MODULE OutputDirectoriesProofs -----------------------
(***************************************************************************)
(* Theorems about OutputDirectories, for any number of runs, directories,  *)
(* segments of the path, failures and changes by others.                   *)
(***************************************************************************)
EXTENDS OutputDirectories, TLAPS, WellFoundedInduction

Phases == {"idle", "walk", "make", "open", "publish", "withdraw", "undo", "claimed", "return",
           "done", "crashed"}
Entry == [parent : Dirs, id : Dirs \cup {NoDir}, todo : BOOLEAN]

(* TypeOK in parts.                                                        *)
NameType ==
  /\ next \in [Dirs -> Dirs \cup {NoDir}]
  /\ claim \in [Dirs -> [Processes -> Dirs \cup {NoDir}]]
  /\ stuff \in [Dirs -> SUBSET (Processes \cup {Somebody})]
  /\ maker \in [Dirs -> Processes \cup {Somebody}]

RunType ==
  /\ pc \in [Processes -> Phases]
  /\ cur \in [Processes -> Dirs]
  /\ level \in [Processes -> 0 .. Depth]
  /\ root \in [Processes -> Dirs \cup {NoDir}]
  /\ made \in [Processes -> Seq(Entry)]

RestType == rest \in [Processes -> SUBSET Dirs]

ReportType ==
  /\ mistaken \in SUBSET Processes
  /\ outcome \in [Processes -> {"none", "failed", "committed"}]
  /\ clean \in [Processes -> BOOLEAN] /\ slip \in BOOLEAN
  /\ capacity \in Capacities /\ faults \in Nat /\ edits \in Nat

(* Where a run is: it goes no further than it wants to, has made at most a *)
(* directory for each segment, and removes from the last one on.           *)
WalkAt(p) ==
  /\ pc[p] \in {"make", "open"} => level[p] < Goal(p)
  /\ pc[p] \in {"idle", "walk", "make"} => Len(made[p]) <= level[p]
  /\ pc[p] = "open" => Len(made[p]) <= level[p] + 1
  /\ Len(made[p]) <= Depth
  /\ pc[p] = "idle" => made[p] = <<>>
  /\ pc[p] \in {"idle", "walk", "make", "open"} => Todo(p) = 1 .. Len(made[p])
  /\ pc[p] = "withdraw" => root[p] # NoDir
  /\ pc[p] \in {"claimed", "return"} => Todo(p) # {}
  /\ \E k \in 0 .. Len(made[p]) : Todo(p) = 1 .. k

TypeInv == NameType /\ RunType /\ RestType /\ ReportType /\ \A p \in Processes : WalkAt(p)

(* A directory has one name at most, and one without a name is empty.      *)
OneName ==
  /\ maker[Base] = Somebody
  /\ \A c \in Dirs : next[c] # Base /\ \A p \in Processes : claim[c][p] # Base
  /\ \A c, d \in Dirs : next[c] = next[d] /\ next[c] # NoDir => c = d
  /\ \A c, d \in Dirs, p \in Processes : next[c] = claim[d][p] => next[c] = NoDir
  /\ \A c, d \in Dirs, p, q \in Processes :
       claim[c][p] = claim[d][q] /\ claim[c][p] # NoDir => c = d /\ p = q

UnlinkedIsEmpty == \A d \in Dirs : ~Linked(d) => Empty(d)

NamesInv == OneName /\ UnlinkedIsEmpty

(* The directory that the i-th record of p is about is under its own name  *)
(* or, when it is its turn, under the claim name.                          *)
Parent(p, i) == made[p][i].parent
Holds(p, i) == pc[p] \in {"claimed", "return"} /\ i = Turn(p)
Child(p, i) == IF Holds(p, i) THEN claim[Parent(p, i)][p] ELSE next[Parent(p, i)]

(* What a run knows by an identity it made, unless it is mistaken.         *)
KnownAt(p) ==
  Live(p) /\ p \notin mistaken =>
    \A i \in Todo(p) : made[p][i].id # NoDir => maker[made[p][i].id] = p

(* Where a directory is made the claim name is free, and only of the last  *)
(* directory that was made the identity may be unknown.                    *)
FreshAt(p) ==
  /\ pc[p] = "make" => claim[cur[p]][p] = NoDir
  /\ pc[p] \in {"walk", "make"} => \A i \in DOMAIN made[p] : made[p][i].id # NoDir
  /\ pc[p] = "open" => \A i \in DOMAIN made[p] :
       made[p][i].id = NoDir => i = Len(made[p]) /\ Parent(p, i) = cur[p]

(* As long as nobody else changes anything, what a run has made is where   *)
(* its records say, and every record is about another directory, which is  *)
(* no parent of an earlier one.                                            *)
PlacedAt(p) ==
  Live(p) /\ edits = 0 =>
    \A i \in Todo(p) :
      /\ Child(p, i) \in Dirs
      /\ maker[Child(p, i)] = p
      /\ made[p][i].id \in {NoDir, Child(p, i)}
      /\ ~Holds(p, i) => claim[Parent(p, i)][p] = NoDir
      /\ \A j \in Todo(p) : (Parent(p, i) = Parent(p, j) => i = j)
                            /\ (i <= j => Parent(p, i) # Child(p, j))

(* A run that has complained of nothing has a record of every directory it *)
(* made that is still there, and had not gone before it began to undo.     *)
Accountable(p) ==
  clean[p] /\ pc[p] # "crashed" /\ outcome[p] # "committed" /\ (edits = 0 \/ Alone(p))
RecordedAt(p) ==
  Accountable(p) => \A d \in Dirs : maker[d] = p /\ Linked(d) => \E i \in Todo(p) : Child(p, i) = d

OutcomeAt(p) ==
  /\ outcome[p] # "none" <=> pc[p] = "done"
  /\ outcome[p] = "failed" => Todo(p) = {}
  /\ pc[p] = "return" => ~clean[p]
  /\ pc[p] \in {"idle", "walk", "make", "open", "publish", "withdraw"} => clean[p]

(* Of a run that is alone, everything in the directories it made is its    *)
(* own.                                                                    *)
OwnAt(p) ==
  Alone(p) /\ edits = 0 =>
    /\ \A d \in Dirs : stuff[d] \subseteq {p}
    /\ Accountable(p) => \A d \in Dirs : maker[d] = p =>
         /\ next[d] # NoDir => maker[next[d]] = p
         /\ \A q \in Processes : claim[d][q] # NoDir =>
              q = p /\ \E i \in Todo(p) : Holds(p, i) /\ d = Parent(p, i)

(* Such a run has nothing to complain of when it undoes.                   *)
Able(p) ==
  /\ Alone(p) /\ edits = 0 /\ ~slip
  /\ \A i \in DOMAIN made[p] : made[p][i].id # NoDir
  /\ \A d \in Dirs : p \notin stuff[d]
  /\ CanAuthenticate(p)
CleanAt(p) ==
  Able(p) /\ (pc[p] \in {"undo", "claimed", "return"} \/ outcome[p] = "failed") => clean[p]

(* A directory of such a run is under a claim name only while it is its    *)
(* turn, and its name is free then for giving it back.                     *)
Claiming(p) == pc[p] \in {"claimed", "return"}
AsideAt(p) ==
  Alone(p) /\ edits = 0 =>
    /\ Claiming(p) => next[Parent(p, Turn(p))] = NoDir
    /\ ~slip /\ pc[p] # "crashed" =>
         \A c, d \in Dirs : maker[d] = p /\ claim[c][p] = d => Claiming(p) /\ c = Parent(p, Turn(p))

IInv ==
  /\ TypeInv /\ NamesInv
  /\ \A p \in Processes :
       /\ KnownAt(p) /\ FreshAt(p) /\ PlacedAt(p) /\ OutcomeAt(p) /\ RecordedAt(p)
       /\ OwnAt(p) /\ CleanAt(p) /\ AsideAt(p)

-----------------------------------------------------------------------------
(* Lemmas about the records of a run.                                      *)

(* The greatest number up to k.                                            *)
LEMMA Greatest ==
  ASSUME NEW k \in Nat, k # 0
  PROVE  Max(1 .. k) = k
<1>1. \A y \in 1 .. k : k >= y OBVIOUS
<1>2. \A x \in 1 .. k : (\A y \in 1 .. k : x >= y) => x = k OBVIOUS
<1> QED BY <1>1, <1>2 DEF Max

(* The turn is that of the last record that is left.                       *)
LEMMA TurnIsLast ==
  ASSUME TypeInv, NEW p \in Processes, Todo(p) # {}
  PROVE  /\ Turn(p) \in 1 .. Len(made[p]) /\ Turn(p) \in DOMAIN made[p]
         /\ Todo(p) = 1 .. Turn(p)
         /\ \A i \in Todo(p) : i <= Turn(p)
<1>1. made[p] \in Seq(Entry) BY DEF TypeInv, RunType
<1>2. PICK k \in 0 .. Len(made[p]) : Todo(p) = 1 .. k BY DEF TypeInv, WalkAt
<1>3. Len(made[p]) \in Nat /\ DOMAIN made[p] = 1 .. Len(made[p]) BY <1>1
<1>4. k # 0 BY <1>2, <1>3
<1>5. Turn(p) = k BY <1>2, <1>3, <1>4, Greatest DEF Turn
<1> QED BY <1>2, <1>3, <1>4, <1>5

(* A record has a directory as its parent.                                 *)
LEMMA EntryIs ==
  ASSUME TypeInv, NEW p \in Processes, NEW i \in DOMAIN made[p]
  PROVE  /\ i \in 1 .. Len(made[p])
         /\ made[p][i].parent \in Dirs /\ made[p][i].id \in Dirs \cup {NoDir}
         /\ made[p][i].todo \in BOOLEAN
<1>1. made[p] \in Seq(Entry) BY DEF TypeInv, RunType
<1>2. made[p][i] \in Entry /\ i \in 1 .. Len(made[p]) BY <1>1
<1> QED BY <1>2 DEF Entry

(* A new directory is registered behind the others.                        *)
LEMMA Registered ==
  ASSUME TypeInv, NEW p \in Processes, Register(p)
  PROVE  /\ made' \in [Processes -> Seq(Entry)]
         /\ \A q \in Processes \ {p} : made'[q] = made[q]
         /\ Len(made'[p]) = Len(made[p]) + 1
         /\ \A i \in DOMAIN made[p] : made'[p][i] = made[p][i]
         /\ made'[p][Len(made[p]) + 1] = [parent |-> cur[p], id |-> NoDir, todo |-> TRUE]
         /\ Todo(p)' = Todo(p) \cup {Len(made[p]) + 1}
<1>1. made \in [Processes -> Seq(Entry)] /\ cur[p] \in Dirs BY DEF TypeInv, RunType
<1> DEFINE new == [parent |-> cur[p], id |-> NoDir, todo |-> TRUE]
<1>2. new \in Entry BY <1>1 DEF Entry
<1>3. made'[p] = Append(made[p], new) BY <1>1 DEF Register
<1>4. made' \in [Processes -> Seq(Entry)] BY <1>1, <1>2 DEF Register
<1>5. \A q \in Processes \ {p} : made'[q] = made[q] BY <1>1 DEF Register
<1>6. Len(made'[p]) = Len(made[p]) + 1 BY <1>1, <1>2, <1>3
<1>7. made[p] \in Seq(Entry) BY <1>1
<1>8. \A i \in 1 .. Len(made[p]) : made'[p][i] = made[p][i] BY <1>7, <1>2, <1>3
<1>9. made'[p][Len(made[p]) + 1] = new BY <1>7, <1>2, <1>3
<1>10. DOMAIN made[p] = 1 .. Len(made[p]) /\ DOMAIN made'[p] = 1 .. Len(made[p]) + 1
  BY <1>7, <1>4, <1>6
<1>11. Todo(p)' = Todo(p) \cup {Len(made[p]) + 1}
  <2>1. Len(made[p]) \in Nat BY <1>7
  <2>2. made'[p][Len(made[p]) + 1].todo BY <1>9
  <2> QED BY <2>1, <2>2, <1>8, <1>10 DEF Todo
<1> QED BY <1>4, <1>5, <1>6, <1>8, <1>9, <1>10, <1>11

(* The last one, if it is the run's, gets its identity.                    *)
LEMMA Identified ==
  ASSUME TypeInv, NEW p \in Processes, NEW d \in Dirs, Identify(p, d)
  PROVE  /\ made' \in [Processes -> Seq(Entry)]
         /\ \A q \in Processes \ {p} : made'[q] = made[q]
         /\ Len(made'[p]) = Len(made[p]) /\ DOMAIN made'[p] = DOMAIN made[p]
         /\ \A i \in DOMAIN made[p] :
              /\ made'[p][i].parent = made[p][i].parent
              /\ made'[p][i].todo = made[p][i].todo
              /\ made'[p][i].id = IF Mine(p) /\ i = Len(made[p]) THEN d ELSE made[p][i].id
         /\ Todo(p)' = Todo(p)
         /\ mistaken' \in SUBSET Processes /\ mistaken \subseteq mistaken'
<1>1. made \in [Processes -> Seq(Entry)] /\ mistaken \in SUBSET Processes
  BY DEF TypeInv, RunType, ReportType
<1>2. mistaken' \in SUBSET Processes /\ mistaken \subseteq mistaken' BY <1>1 DEF Identify
<1>3. CASE ~Mine(p)
  BY <1>1, <1>2, <1>3 DEF Identify, Todo
<1>4. CASE Mine(p)
  <2> DEFINE n == Len(made[p])
  <2>1. made' = [made EXCEPT ![p][n].id = d] BY <1>4 DEF Identify
  <2>2. made[p] \in Seq(Entry) /\ n \in Nat /\ DOMAIN made[p] = 1 .. n BY <1>1
  <2>3. n \in DOMAIN made[p] /\ made[p][n] \in Entry BY <2>2, <1>4 DEF Mine
  <2>4. [made[p][n] EXCEPT !.id = d] \in Entry BY <2>3 DEF Entry
  <2>5. made'[p] = [made[p] EXCEPT ![n] = [made[p][n] EXCEPT !.id = d]] BY <2>1, <1>1
  <2>6. made'[p] \in Seq(Entry) /\ Len(made'[p]) = n /\ DOMAIN made'[p] = DOMAIN made[p]
    BY <2>2, <2>3, <2>4, <2>5
  <2>7. \A q \in Processes \ {p} : made'[q] = made[q] BY <2>1, <1>1
  <2>8. made' \in [Processes -> Seq(Entry)] BY <2>1, <2>6, <2>7, <1>1
  <2>9. \A i \in DOMAIN made[p] : i # n => made'[p][i] = made[p][i] BY <2>5
  <2>10. /\ made'[p][n].parent = made[p][n].parent /\ made'[p][n].todo = made[p][n].todo
         /\ made'[p][n].id = d
    BY <2>3, <2>5 DEF Entry
  <2>11. \A i \in DOMAIN made[p] :
              /\ made'[p][i].parent = made[p][i].parent
              /\ made'[p][i].todo = made[p][i].todo
              /\ made'[p][i].id = IF Mine(p) /\ i = Len(made[p]) THEN d ELSE made[p][i].id
    BY <2>9, <2>10, <1>4
  <2>12. Todo(p)' = Todo(p) BY <2>6, <2>11 DEF Todo
  <2> QED BY <1>2, <2>6, <2>7, <2>8, <2>11, <2>12
<1> QED BY <1>3, <1>4

(* The record whose turn it is is over.                                    *)
LEMMA Dropped ==
  ASSUME TypeInv, NEW p \in Processes, Todo(p) # {}, Drop(p)
  PROVE  /\ made' \in [Processes -> Seq(Entry)]
         /\ \A q \in Processes \ {p} : made'[q] = made[q]
         /\ Len(made'[p]) = Len(made[p]) /\ DOMAIN made'[p] = DOMAIN made[p]
         /\ \A i \in DOMAIN made[p] :
              made'[p][i].parent = made[p][i].parent /\ made'[p][i].id = made[p][i].id
         /\ Todo(p)' = Todo(p) \ {Turn(p)}
<1>1. made \in [Processes -> Seq(Entry)] BY DEF TypeInv, RunType
<1> DEFINE n == Turn(p)
<1>2. n \in DOMAIN made[p] BY TurnIsLast
<1>3. made' = [made EXCEPT ![p][n].todo = FALSE] BY DEF Drop
<1>4. made[p] \in Seq(Entry) /\ made[p][n] \in Entry BY <1>1, <1>2
<1>5. [made[p][n] EXCEPT !.todo = FALSE] \in Entry BY <1>4 DEF Entry
<1>6. made'[p] = [made[p] EXCEPT ![n] = [made[p][n] EXCEPT !.todo = FALSE]] BY <1>1, <1>3
<1>7. made'[p] \in Seq(Entry) /\ Len(made'[p]) = Len(made[p]) /\ DOMAIN made'[p] = DOMAIN made[p]
  BY <1>2, <1>4, <1>5, <1>6
<1>8. \A q \in Processes \ {p} : made'[q] = made[q] BY <1>1, <1>3
<1>9. made' \in [Processes -> Seq(Entry)] BY <1>1, <1>3, <1>7, <1>8
<1>10. \A i \in DOMAIN made[p] : i # n => made'[p][i] = made[p][i] BY <1>6
<1>11. /\ made'[p][n].parent = made[p][n].parent /\ made'[p][n].id = made[p][n].id
       /\ made'[p][n].todo = FALSE
  BY <1>2, <1>4, <1>6 DEF Entry
<1>12. Todo(p)' = Todo(p) \ {n} BY <1>7, <1>10, <1>11 DEF Todo
<1> QED BY <1>7, <1>8, <1>9, <1>10, <1>11, <1>12

-----------------------------------------------------------------------------
(* What a step of a run leaves alone.                                      *)

RunStep(p) == Prepare(p) \/ Publish(p) \/ Undo(p) \/ Crash(p)

SameRun(q) ==
  /\ pc'[q] = pc[q] /\ cur'[q] = cur[q] /\ level'[q] = level[q] /\ root'[q] = root[q]
  /\ made'[q] = made[q] /\ outcome'[q] = outcome[q] /\ clean'[q] = clean[q]

(* The directory that is opened is one.                                    *)
LEMMA CurGoesOn ==
  ASSUME TypeInv, NEW p \in Processes
  PROVE  cur[p] \in Dirs /\ (next[cur[p]] # NoDir => next[cur[p]] \in Dirs)
BY DEF TypeInv, NameType, RunType

(* Of another run it leaves everything alone, and the changes by others.   *)
LEMMA OtherRuns ==
  ASSUME TypeInv, NEW p \in Processes, NEW q \in Processes \ {p}, RunStep(p)
  PROVE  /\ SameRun(q)
         /\ edits' = edits /\ capacity' = capacity /\ (slip => slip')
         /\ pc'[p] # "idle"
<1> USE DEF TypeInv, RunType, ReportType, SameRun, names, walk, report, env
<1>1. CASE Start(p)
  BY <1>1 DEF Start, At, Goto
<1>2. CASE Descend(p)
  BY <1>2 DEF Descend, At, Short, Enter, CanOpen, Goal
<1>3. CASE Miss(p)
  BY <1>3 DEF Miss, At, Goto, Short, CanOpen
<1>4. CASE WalkFails(p)
  BY <1>4 DEF WalkFails, At, Short, Because, Charge, Fail, Goto, CanOpen
<1>5. CASE MakeFails(p)
  BY <1>5 DEF MakeFails, At, Fail, Goto, Because, Charge
<1>6. CASE Make(p)
  BY <1>6, Registered DEF Make, At, Goto, Allocate
<1>7. CASE Open(p)
  BY <1>7, Identified, CurGoesOn DEF Open, At, Goto, Enter
<1>8. CASE OpenFails(p)
  BY <1>8, Identified, CurGoesOn DEF OpenFails, At, Fail, Goto, Because, Charge
<1>9. CASE Pin(p)
  BY <1>9 DEF Pin, At, Goto
<1>10. CASE PinFails(p)
  BY <1>10 DEF PinFails, At, Goto, Fail, Because, Charge, Blame
<1>11. CASE Stage(p)
  BY <1>11 DEF Stage, At, Goto
<1>12. CASE StageFails(p)
  BY <1>12 DEF StageFails, At, Goto, Because, Charge, Fail
<1>13. CASE Commit(p)
  BY <1>13 DEF Commit, At, Goto
<1>14. CASE CommitFails(p)
  BY <1>14 DEF CommitFails, At, Goto, Charge, Fail
<1>15. CASE Withdraw(p)
  BY <1>15 DEF Withdraw, At, Goto, Slip, Charge, Blame
<1>16. CASE Claim(p)
  BY <1>16 DEF Claim, Undoing, At, Goto
<1>17. CASE ClaimNothing(p)
  BY <1>17, Dropped DEF ClaimNothing, Undoing, At, Goto
<1>18. CASE ClaimFails(p)
  <2>1. slip => slip' BY <1>18 DEF ClaimFails, Failing, Slip
  <2>2. SameRun(q) /\ edits' = edits /\ capacity' = capacity /\ pc'[p] # "idle"
    BY <1>18, Dropped DEF ClaimFails, Undoing, At, Blame
  <2> QED BY <2>1, <2>2
<1>19. CASE Remove(p)
  BY <1>19, Dropped DEF Remove, Undoing, At, Goto
<1>20. CASE RemoveFails(p)
  <2>1. slip => slip' BY <1>20 DEF RemoveFails, Failing, Slip
  <2>2. SameRun(q) /\ edits' = edits /\ capacity' = capacity /\ pc'[p] # "idle"
    BY <1>20 DEF RemoveFails, Undoing, At, Goto, Blame
  <2> QED BY <2>1, <2>2
<1>21. CASE GiveBack(p)
  BY <1>21, Dropped DEF GiveBack, Undoing, At, Goto
<1>22. CASE GiveBackFails(p)
  <2>1. slip => slip' BY <1>22 DEF GiveBackFails, Failing, Slip
  <2>2. SameRun(q) /\ edits' = edits /\ capacity' = capacity /\ pc'[p] # "idle"
    BY <1>22, Dropped DEF GiveBackFails, Undoing, At, Goto
  <2> QED BY <2>1, <2>2
<1>23. CASE Finish(p)
  BY <1>23 DEF Finish, At, Goto
<1>24. CASE Crash(p)
  BY <1>24 DEF Crash, Live, Goto
<1> QED BY <1>1, <1>2, <1>3, <1>4, <1>5, <1>6, <1>7, <1>8, <1>9, <1>10, <1>11, <1>12, <1>13,
    <1>14, <1>15, <1>16, <1>17, <1>18, <1>19, <1>20, <1>21, <1>22, <1>23, <1>24 DEF RunStep,
    Prepare, Publish, Undo

-----------------------------------------------------------------------------
(* Types.                                                                  *)

(* What the record is about whose turn it is.                              *)
LEMMA RecordIs ==
  ASSUME TypeInv, NEW p \in Processes, Todo(p) # {}
  PROVE  /\ Record(p).parent \in Dirs /\ Record(p).parent = Parent(p, Turn(p))
         /\ Record(p).id \in Dirs \cup {NoDir} /\ Record(p).id = made[p][Turn(p)].id
         /\ Claimed(p) \in Dirs \cup {NoDir} /\ Turn(p) \in Todo(p)
<1>1. Turn(p) \in DOMAIN made[p] /\ Turn(p) \in Todo(p) BY TurnIsLast DEF TypeInv
<1> QED BY <1>1, EntryIs DEF Record, Claimed, Parent, TypeInv, NameType

(* The run's next position, when it walks, is one.                         *)
LEMMA RoomIs ==
  ASSUME TypeInv, NEW p \in Processes
  PROVE  /\ Len(made[p]) \in Nat /\ level[p] \in Nat /\ DOMAIN made[p] = 1 .. Len(made[p])
         /\ level[p] < Goal(p) => level[p] + 1 \in 0 .. Depth
         /\ Goal(p) \in Nat /\ Goal(p) <= Depth
<1>1. made[p] \in Seq(Entry) /\ level[p] \in 0 .. Depth BY DEF TypeInv, RunType
<1> QED BY <1>1, DirectoryAssumption DEF Goal

(* What is made is a directory, and who is mistaken a run.                 *)
LEMMA AllocateIs ==
  ASSUME TypeInv, NEW a \in Processes \cup {Somebody}, NEW d \in Allocatable, Allocate(d, a)
  PROVE  /\ d \in Dirs
         /\ maker' \in [Dirs -> Processes \cup {Somebody}]
         /\ mistaken' \in SUBSET Processes /\ mistaken \subseteq mistaken'
BY DEF TypeInv, NameType, ReportType, Allocate, Allocatable

LEMMA NameTypeStep ==
  ASSUME TypeInv, NEW p \in Processes, RunStep(p)
  PROVE  NameType'
<1> USE DEF TypeInv, NameType, RunType, names
<1>1. CASE Start(p)
  BY <1>1 DEF Start
<1>2. CASE Descend(p)
  BY <1>2 DEF Descend
<1>3. CASE Miss(p)
  BY <1>3 DEF Miss
<1>4. CASE WalkFails(p)
  BY <1>4 DEF WalkFails
<1>5. CASE MakeFails(p)
  BY <1>5 DEF MakeFails
<1>6. CASE Make(p)
  <2>1. CASE UNCHANGED <<next, maker>>
    BY <1>6, <2>1 DEF Make
  <2>2. ASSUME NEW d \in Allocatable, next' = [next EXCEPT ![cur[p]] = d], Allocate(d, p)
        PROVE  NameType'
    BY <1>6, <2>2, AllocateIs DEF Make
  <2> QED BY <1>6, <2>1, <2>2 DEF Make
<1>7. CASE Open(p)
  BY <1>7 DEF Open
<1>8. CASE OpenFails(p)
  BY <1>8 DEF OpenFails
<1>9. CASE Pin(p)
  BY <1>9 DEF Pin, At, Goto
<1>10. CASE PinFails(p)
  <2>1. UNCHANGED stuff \/ stuff' = [stuff EXCEPT ![cur[p]] = @ \cup {p}]
    BY <1>10 DEF PinFails
  <2>2. stuff[cur[p]] \cup {p} \in SUBSET (Processes \cup {Somebody}) BY CurGoesOn
  <2>3. stuff' \in [Dirs -> SUBSET (Processes \cup {Somebody})] BY <2>1, <2>2
  <2> QED BY <1>10, <2>3 DEF PinFails
<1>11. CASE Stage(p)
  BY <1>11 DEF Stage, At, Goto
<1>12. CASE StageFails(p)
  BY <1>12 DEF StageFails
<1>13. CASE Commit(p)
  BY <1>13 DEF Commit
<1>14. CASE CommitFails(p)
  BY <1>14 DEF CommitFails
<1>15. CASE Withdraw(p)
  BY <1>15 DEF Withdraw, At, Goto, Slip, Charge, Blame
<1>16. CASE Claim(p)
  BY <1>16, RecordIs DEF Claim, Undoing, At, Goto
<1>17. CASE ClaimNothing(p)
  BY <1>17 DEF ClaimNothing
<1>18. CASE ClaimFails(p)
  BY <1>18 DEF ClaimFails
<1>19. CASE Remove(p)
  BY <1>19, RecordIs DEF Remove, Undoing, At, Goto
<1>20. CASE RemoveFails(p)
  BY <1>20 DEF RemoveFails
<1>21. CASE GiveBack(p)
  BY <1>21, RecordIs DEF GiveBack, Undoing, At, Goto
<1>22. CASE GiveBackFails(p)
  BY <1>22 DEF GiveBackFails
<1>23. CASE Finish(p)
  BY <1>23 DEF Finish
<1>24. CASE Crash(p)
  BY <1>24 DEF Crash
<1> QED BY <1>1, <1>2, <1>3, <1>4, <1>5, <1>6, <1>7, <1>8, <1>9, <1>10, <1>11, <1>12, <1>13,
    <1>14, <1>15, <1>16, <1>17, <1>18, <1>19, <1>20, <1>21, <1>22, <1>23, <1>24 DEF RunStep,
    Prepare, Publish, Undo

LEMMA RunTypeStep ==
  ASSUME TypeInv, NEW p \in Processes, RunStep(p)
  PROVE  RunType' /\ WalkAt(p)'
<1> USE DEF TypeInv, RunType, Phases, walk
<1>0. WalkAt(p) BY DEF TypeInv
<1>1. CASE Start(p)
  <2>1. RunType' BY <1>0, <1>1, RoomIs DEF Start, At, Goto
  <2>2. WalkAt(p)' BY <1>0, <1>1, RoomIs DEF Start, At, Goto, WalkAt, Todo, Goal
  <2> QED BY <2>1, <2>2
<1>2. CASE Descend(p)
  <2>1. RunType' BY <1>0, <1>2, RoomIs, CurGoesOn DEF Descend, At, Short, Enter
  <2>2. pc[p] = "walk" /\ pc'[p] = "walk" /\ UNCHANGED root /\ level'[p] = level[p] + 1
    BY <1>2 DEF Descend, At, Short, Enter
  <2>3. made'[p] = made[p] /\ Todo(p)' = Todo(p) BY <1>2 DEF Descend, At, Short, Enter, Todo
  <2>4. WalkAt(p)' BY <1>0, <2>2, <2>3, RoomIs, DirectoryAssumption DEF WalkAt
  <2> QED BY <2>1, <2>4
<1>3. CASE Miss(p)
  <2>1. RunType' BY <1>0, <1>3, RoomIs DEF Miss, At, Goto, Short, CanOpen
  <2>2. WalkAt(p)' BY <1>0, <1>3, RoomIs DEF Miss, At, Goto, Short, CanOpen, WalkAt, Todo, Goal
  <2> QED BY <2>1, <2>2
<1>4. CASE WalkFails(p)
  <2>1. RunType' BY <1>0, <1>4, RoomIs DEF WalkFails, At, Short, Because, Charge, Fail, Goto,
      CanOpen
  <2>2. WalkAt(p)' BY <1>0, <1>4, RoomIs DEF WalkFails, At, Short, Because, Charge, Fail, Goto,
      CanOpen, WalkAt, Todo, Goal
  <2> QED BY <2>1, <2>2
<1>5. CASE MakeFails(p)
  <2>1. RunType' BY <1>0, <1>5, RoomIs DEF MakeFails, At, Fail, Goto, Because, Charge
  <2>2. WalkAt(p)' BY <1>0, <1>5, RoomIs DEF MakeFails, At, Fail, Goto, Because, Charge, WalkAt,
      Todo, Goal
  <2> QED BY <2>1, <2>2
<1>6. CASE Make(p)
  <2>1. pc[p] = "make" /\ pc'[p] = "open" /\ UNCHANGED <<cur, level, root>> BY <1>6 DEF Make, At, Goto
  <2>2. CASE UNCHANGED made
    <3>1. RunType' BY <1>6, <2>2 DEF Make, Goto
    <3>2. Todo(p)' = Todo(p) /\ Goal(p)' = Goal(p) BY <2>1, <2>2 DEF Todo, Goal
    <3>3. WalkAt(p)' BY <1>0, <2>1, <2>2, <3>2, RoomIs, DirectoryAssumption DEF WalkAt
    <3> QED BY <3>1, <3>3
  <2>3. CASE Register(p)
    <3>1. RunType' BY <1>6, <2>3, Registered DEF Make, Goto
    <3>2. Len(made'[p]) = Len(made[p]) + 1 /\ Todo(p)' = Todo(p) \cup {Len(made[p]) + 1}
      BY <2>3, Registered
    <3>3. Todo(p)' = 1 .. Len(made'[p]) BY <1>0, <2>1, <3>2, RoomIs DEF WalkAt
    <3>4. Len(made'[p]) <= level[p] + 1 /\ level[p] < Goal(p) /\ Len(made'[p]) <= Depth
      BY <1>0, <2>1, <3>2, RoomIs, DirectoryAssumption DEF WalkAt
    <3>5. Goal(p)' = Goal(p) BY <2>1 DEF Goal
    <3>6. Len(made'[p]) \in Nat BY <3>2, RoomIs
    <3>7. Len(made'[p]) \in 0 .. Len(made'[p]) BY <3>6
    <3>8. WalkAt(p)' BY <2>1, <3>3, <3>4, <3>5, <3>7 DEF WalkAt
    <3> QED BY <3>1, <3>8
  <2> QED BY <1>6, <2>2, <2>3 DEF Make
<1>7. CASE Open(p)
  <2>1. pc[p] = "open" /\ UNCHANGED root /\ pc'[p] = "walk"
    BY <1>7 DEF Open, At, Goto, Enter
  <2>2. \/ UNCHANGED made
        \/ Identify(p, next[cur[p]]) /\ next[cur[p]] \in Dirs
    BY <1>7, CurGoesOn DEF Open
  <2>3. /\ made' \in [Processes -> Seq(Entry)] /\ Len(made'[p]) = Len(made[p])
        /\ Todo(p)' = Todo(p)
    BY <2>2, Identified DEF Todo
  <2>4. level[p] < Goal(p) /\ Goal(p)' = Goal(p) BY <1>0, <2>1 DEF WalkAt, Goal
  <2>5. RunType' BY <1>7, <2>3, <2>4, RoomIs, CurGoesOn DEF Open, At, Goto, Enter
  <2>6. level'[p] = level[p] + 1 BY <1>7 DEF Open, At, Goto, Enter
  <2>7. WalkAt(p)' BY <1>0, <2>1, <2>3, <2>4, <2>6, RoomIs DEF WalkAt
  <2> QED BY <2>5, <2>7
<1>8. CASE OpenFails(p)
  <2>1. pc[p] = "open" /\ UNCHANGED root /\ pc'[p] = IF root[p] = NoDir THEN "undo" ELSE "withdraw"
    BY <1>8 DEF OpenFails, At, Fail, Goto, Because, Charge
  <2>2. \/ UNCHANGED made
        \/ Identify(p, next[cur[p]]) /\ next[cur[p]] \in Dirs
    BY <1>8, CurGoesOn DEF OpenFails
  <2>3. /\ made' \in [Processes -> Seq(Entry)] /\ Len(made'[p]) = Len(made[p])
        /\ Todo(p)' = Todo(p)
    BY <2>2, Identified DEF Todo
  <2>4. level[p] < Goal(p) /\ Goal(p)' = Goal(p) BY <1>0, <2>1 DEF WalkAt, Goal
  <2>5. RunType' BY <1>8, <2>3, <2>4, RoomIs, CurGoesOn DEF OpenFails, At, Fail, Goto, Because,
      Charge
  <2>6. level'[p] = level[p] BY <1>8 DEF OpenFails, At, Fail, Goto, Because, Charge
  <2>7. WalkAt(p)' BY <1>0, <2>1, <2>3, <2>4, <2>6, RoomIs DEF WalkAt
  <2> QED BY <2>5, <2>7
<1>9. CASE Pin(p)
  <2>1. RunType' BY <1>0, <1>9, RoomIs, CurGoesOn DEF Pin, At, Goto
  <2>2. pc[p] = "walk" /\ pc'[p] \in {"walk", "withdraw"} /\ root'[p] \in Dirs /\ level'[p] = level[p]
    BY <1>9 DEF Pin, At, Goto
  <2>3. made'[p] = made[p] /\ Todo(p)' = Todo(p) BY <1>9 DEF Pin, At, Goto, Todo
  <2>4. WalkAt(p)' BY <1>0, <2>2, <2>3, RoomIs, DirectoryAssumption DEF WalkAt
  <2> QED BY <2>1, <2>4
<1>10. CASE PinFails(p)
  <2>1. RunType' BY <1>0, <1>10, RoomIs DEF PinFails, At, Goto, Fail, Because, Charge, Blame
  <2>2. WalkAt(p)' BY <1>0, <1>10, RoomIs DEF PinFails, At, Goto, Fail, Because, Charge, Blame,
      WalkAt, Todo, Goal
  <2> QED BY <2>1, <2>2
<1>11. CASE Stage(p)
  <2>1. RunType' BY <1>0, <1>11, RoomIs DEF Stage, At, Goto
  <2>2. WalkAt(p)' BY <1>0, <1>11, RoomIs DEF Stage, At, Goto, WalkAt, Todo, Goal
  <2> QED BY <2>1, <2>2
<1>12. CASE StageFails(p)
  <2>1. RunType' BY <1>0, <1>12, RoomIs DEF StageFails, At, Goto, Because, Charge, Fail
  <2>2. WalkAt(p)' BY <1>0, <1>12, RoomIs DEF StageFails, At, Goto, Because, Charge, Fail,
      WalkAt, Todo, Goal
  <2> QED BY <2>1, <2>2
<1>13. CASE Commit(p)
  <2>1. RunType' BY <1>0, <1>13, RoomIs DEF Commit, At, Goto
  <2>2. WalkAt(p)' BY <1>0, <1>13, RoomIs DEF Commit, At, Goto, WalkAt, Todo, Goal
  <2> QED BY <2>1, <2>2
<1>14. CASE CommitFails(p)
  <2>1. RunType' BY <1>0, <1>14, RoomIs DEF CommitFails, At, Goto, Charge, Fail
  <2>2. WalkAt(p)' BY <1>0, <1>14, RoomIs DEF CommitFails, At, Goto, Charge, Fail, WalkAt, Todo,
      Goal
  <2> QED BY <2>1, <2>2
<1>15. CASE Withdraw(p)
  <2>1. RunType' BY <1>0, <1>15, RoomIs DEF Withdraw, At, Goto, Slip, Charge, Blame, WalkAt
  <2>2. WalkAt(p)' BY <1>0, <1>15, RoomIs DEF Withdraw, At, Goto, Slip, Charge, Blame, WalkAt,
      Todo, Goal
  <2> QED BY <2>1, <2>2
<1>16. CASE Claim(p)
  <2>1. RunType' BY <1>0, <1>16, RoomIs DEF Claim, Undoing, At, Goto
  <2>2. WalkAt(p)' BY <1>0, <1>16, RoomIs DEF Claim, Undoing, At, Goto, WalkAt, Todo, Goal
  <2> QED BY <2>1, <2>2
<1>17. CASE ClaimNothing(p)
  <2>1. Todo(p) # {} /\ Drop(p) BY <1>17 DEF ClaimNothing, Undoing
  <2>2. /\ RunType' /\ pc'[p] = "undo" /\ Len(made'[p]) = Len(made[p])
        /\ root'[p] = root[p] /\ level'[p] = level[p]
    BY <1>17, <2>1, Dropped DEF ClaimNothing, Undoing, At, Goto
  <2>3. \E k \in 0 .. Len(made[p]) : Todo(p)' = 1 .. k
    <3>1. Turn(p) \in 1 .. Len(made[p]) /\ Todo(p) = 1 .. Turn(p) BY <2>1, TurnIsLast
    <3>2. Todo(p)' = Todo(p) \ {Turn(p)} BY <2>1, Dropped
    <3>3. Turn(p) - 1 \in 0 .. Len(made[p]) /\ Todo(p)' = 1 .. (Turn(p) - 1) BY <3>1, <3>2, RoomIs
    <3> QED BY <3>3
  <2> QED BY <1>0, <2>2, <2>3 DEF WalkAt
<1>18. CASE ClaimFails(p)
  <2>1. Todo(p) # {} /\ Drop(p) BY <1>18 DEF ClaimFails, Undoing
  <2>2. /\ RunType' /\ pc'[p] = "undo" /\ Len(made'[p]) = Len(made[p])
        /\ root'[p] = root[p] /\ level'[p] = level[p]
    BY <1>18, <2>1, Dropped DEF ClaimFails, Undoing, At
  <2>3. \E k \in 0 .. Len(made[p]) : Todo(p)' = 1 .. k
    <3>1. Turn(p) \in 1 .. Len(made[p]) /\ Todo(p) = 1 .. Turn(p) BY <2>1, TurnIsLast
    <3>2. Todo(p)' = Todo(p) \ {Turn(p)} BY <2>1, Dropped
    <3>3. Turn(p) - 1 \in 0 .. Len(made[p]) /\ Todo(p)' = 1 .. (Turn(p) - 1) BY <3>1, <3>2, RoomIs
    <3> QED BY <3>3
  <2> QED BY <1>0, <2>2, <2>3 DEF WalkAt
<1>19. CASE Remove(p)
  <2>1. Todo(p) # {} /\ Drop(p) BY <1>19 DEF Remove, Undoing
  <2>2. /\ RunType' /\ pc'[p] = "undo" /\ Len(made'[p]) = Len(made[p])
        /\ root'[p] = root[p] /\ level'[p] = level[p]
    BY <1>19, <2>1, Dropped DEF Remove, Undoing, At, Goto
  <2>3. \E k \in 0 .. Len(made[p]) : Todo(p)' = 1 .. k
    <3>1. Turn(p) \in 1 .. Len(made[p]) /\ Todo(p) = 1 .. Turn(p) BY <2>1, TurnIsLast
    <3>2. Todo(p)' = Todo(p) \ {Turn(p)} BY <2>1, Dropped
    <3>3. Turn(p) - 1 \in 0 .. Len(made[p]) /\ Todo(p)' = 1 .. (Turn(p) - 1) BY <3>1, <3>2, RoomIs
    <3> QED BY <3>3
  <2> QED BY <1>0, <2>2, <2>3 DEF WalkAt
<1>20. CASE RemoveFails(p)
  <2>1. RunType' BY <1>0, <1>20, RoomIs DEF RemoveFails, Undoing, At, Goto, Failing, Slip,
      Charge, Blame
  <2>2. WalkAt(p)' BY <1>0, <1>20, RoomIs DEF RemoveFails, Undoing, At, Goto, Failing, Slip,
      Charge, Blame, WalkAt, Todo, Goal
  <2> QED BY <2>1, <2>2
<1>21. CASE GiveBack(p)
  <2>1. Todo(p) # {} /\ Drop(p) BY <1>21 DEF GiveBack, Undoing
  <2>2. /\ RunType' /\ pc'[p] = "undo" /\ Len(made'[p]) = Len(made[p])
        /\ root'[p] = root[p] /\ level'[p] = level[p]
    BY <1>21, <2>1, Dropped DEF GiveBack, Undoing, At, Goto
  <2>3. \E k \in 0 .. Len(made[p]) : Todo(p)' = 1 .. k
    <3>1. Turn(p) \in 1 .. Len(made[p]) /\ Todo(p) = 1 .. Turn(p) BY <2>1, TurnIsLast
    <3>2. Todo(p)' = Todo(p) \ {Turn(p)} BY <2>1, Dropped
    <3>3. Turn(p) - 1 \in 0 .. Len(made[p]) /\ Todo(p)' = 1 .. (Turn(p) - 1) BY <3>1, <3>2, RoomIs
    <3> QED BY <3>3
  <2> QED BY <1>0, <2>2, <2>3 DEF WalkAt
<1>22. CASE GiveBackFails(p)
  <2>1. Todo(p) # {} /\ Drop(p) BY <1>22 DEF GiveBackFails, Undoing
  <2>2. /\ RunType' /\ pc'[p] = "undo" /\ Len(made'[p]) = Len(made[p])
        /\ root'[p] = root[p] /\ level'[p] = level[p]
    BY <1>22, <2>1, Dropped DEF GiveBackFails, Undoing, At, Goto
  <2>3. \E k \in 0 .. Len(made[p]) : Todo(p)' = 1 .. k
    <3>1. Turn(p) \in 1 .. Len(made[p]) /\ Todo(p) = 1 .. Turn(p) BY <2>1, TurnIsLast
    <3>2. Todo(p)' = Todo(p) \ {Turn(p)} BY <2>1, Dropped
    <3>3. Turn(p) - 1 \in 0 .. Len(made[p]) /\ Todo(p)' = 1 .. (Turn(p) - 1) BY <3>1, <3>2, RoomIs
    <3> QED BY <3>3
  <2> QED BY <1>0, <2>2, <2>3 DEF WalkAt
<1>23. CASE Finish(p)
  <2>1. RunType' BY <1>0, <1>23, RoomIs DEF Finish, At, Goto
  <2>2. WalkAt(p)' BY <1>0, <1>23, RoomIs DEF Finish, At, Goto, WalkAt, Todo, Goal
  <2> QED BY <2>1, <2>2
<1>24. CASE Crash(p)
  <2>1. RunType' BY <1>0, <1>24, RoomIs DEF Crash, Live, Goto
  <2>2. WalkAt(p)' BY <1>0, <1>24, RoomIs DEF Crash, Live, Goto, WalkAt, Todo, Goal
  <2> QED BY <2>1, <2>2
<1> QED BY <1>1, <1>2, <1>3, <1>4, <1>5, <1>6, <1>7, <1>8, <1>9, <1>10, <1>11, <1>12, <1>13,
    <1>14, <1>15, <1>16, <1>17, <1>18, <1>19, <1>20, <1>21, <1>22, <1>23, <1>24 DEF RunStep,
    Prepare, Publish, Undo

LEMMA ReportTypeStep ==
  ASSUME TypeInv, NEW p \in Processes, RunStep(p)
  PROVE  ReportType'
<1> USE DEF TypeInv, ReportType, report, env
<1>1. CASE Start(p)
  BY <1>1 DEF Start
<1>2. CASE Descend(p)
  BY <1>2 DEF Descend
<1>3. CASE Miss(p)
  BY <1>3 DEF Miss
<1>4. CASE WalkFails(p)
  <2>1. faults' \in Nat BY <1>4 DEF WalkFails, Because, Failing, Slip, Charge
  <2>2. slip' \in BOOLEAN BY <1>4 DEF WalkFails, Failing, Slip
  <2>3. clean' \in [Processes -> BOOLEAN] BY <1>4 DEF WalkFails, Blame
  <2> QED BY <1>4, <2>1, <2>2, <2>3 DEF WalkFails
<1>5. CASE MakeFails(p)
  <2>1. faults' \in Nat BY <1>5 DEF MakeFails, Because, Failing, Slip, Charge
  <2>2. slip' \in BOOLEAN BY <1>5 DEF MakeFails, Failing, Slip
  <2>3. clean' \in [Processes -> BOOLEAN] BY <1>5 DEF MakeFails, Blame
  <2> QED BY <1>5, <2>1, <2>2, <2>3 DEF MakeFails
<1>6. CASE Make(p)
  <2>1. mistaken' \in SUBSET Processes
    BY <1>6, AllocateIs DEF Make
  <2> QED BY <1>6, <2>1 DEF Make
<1>7. CASE Open(p)
  <2>1. mistaken' \in SUBSET Processes
    BY <1>7, Identified, CurGoesOn DEF Open
  <2>2. faults' \in Nat BY <1>7 DEF Open, Because, Charge
  <2> QED BY <1>7, <2>1, <2>2 DEF Open
<1>8. CASE OpenFails(p)
  <2>1. mistaken' \in SUBSET Processes
    BY <1>8, Identified, CurGoesOn DEF OpenFails
  <2>2. faults' \in Nat BY <1>8 DEF OpenFails, Because, Charge
  <2> QED BY <1>8, <2>1, <2>2 DEF OpenFails
<1>9. CASE Pin(p)
  BY <1>9 DEF Pin
<1>10. CASE PinFails(p)
  <2>1. faults' \in Nat BY <1>10 DEF PinFails, Because, Failing, Slip, Charge
  <2>2. slip' \in BOOLEAN BY <1>10 DEF PinFails, Failing, Slip
  <2>3. clean' \in [Processes -> BOOLEAN] BY <1>10 DEF PinFails, Blame
  <2> QED BY <1>10, <2>1, <2>2, <2>3 DEF PinFails
<1>11. CASE Stage(p)
  BY <1>11 DEF Stage
<1>12. CASE StageFails(p)
  <2>1. faults' \in Nat BY <1>12 DEF StageFails, Because, Failing, Slip, Charge
  <2>2. slip' \in BOOLEAN BY <1>12 DEF StageFails, Failing, Slip
  <2>3. clean' \in [Processes -> BOOLEAN] BY <1>12 DEF StageFails, Blame
  <2> QED BY <1>12, <2>1, <2>2, <2>3 DEF StageFails
<1>13. CASE Commit(p)
  BY <1>13 DEF Commit
<1>14. CASE CommitFails(p)
  <2>1. faults' \in Nat BY <1>14 DEF CommitFails, Because, Failing, Slip, Charge
  <2>2. slip' \in BOOLEAN BY <1>14 DEF CommitFails, Failing, Slip
  <2>3. clean' \in [Processes -> BOOLEAN] BY <1>14 DEF CommitFails, Blame
  <2> QED BY <1>14, <2>1, <2>2, <2>3 DEF CommitFails
<1>15. CASE Withdraw(p)
  <2>1. faults' \in Nat BY <1>15 DEF Withdraw, Because, Failing, Slip, Charge
  <2>2. slip' \in BOOLEAN BY <1>15 DEF Withdraw, Failing, Slip
  <2>3. clean' \in [Processes -> BOOLEAN] BY <1>15 DEF Withdraw, Blame
  <2> QED BY <1>15, <2>1, <2>2, <2>3 DEF Withdraw
<1>16. CASE Claim(p)
  BY <1>16 DEF Claim
<1>17. CASE ClaimNothing(p)
  BY <1>17 DEF ClaimNothing
<1>18. CASE ClaimFails(p)
  <2>1. faults' \in Nat BY <1>18 DEF ClaimFails, Because, Failing, Slip, Charge
  <2>2. slip' \in BOOLEAN BY <1>18 DEF ClaimFails, Failing, Slip
  <2>3. clean' \in [Processes -> BOOLEAN] BY <1>18 DEF ClaimFails, Blame
  <2> QED BY <1>18, <2>1, <2>2, <2>3 DEF ClaimFails
<1>19. CASE Remove(p)
  BY <1>19 DEF Remove
<1>20. CASE RemoveFails(p)
  <2>1. faults' \in Nat BY <1>20 DEF RemoveFails, Because, Failing, Slip, Charge
  <2>2. slip' \in BOOLEAN BY <1>20 DEF RemoveFails, Failing, Slip
  <2>3. clean' \in [Processes -> BOOLEAN] BY <1>20 DEF RemoveFails, Blame
  <2> QED BY <1>20, <2>1, <2>2, <2>3 DEF RemoveFails
<1>21. CASE GiveBack(p)
  BY <1>21 DEF GiveBack
<1>22. CASE GiveBackFails(p)
  <2>1. faults' \in Nat BY <1>22 DEF GiveBackFails, Because, Failing, Slip, Charge
  <2>2. slip' \in BOOLEAN BY <1>22 DEF GiveBackFails, Failing, Slip
  <2>3. clean' \in [Processes -> BOOLEAN] BY <1>22 DEF GiveBackFails, Blame
  <2> QED BY <1>22, <2>1, <2>2, <2>3 DEF GiveBackFails
<1>23. CASE Finish(p)
  BY <1>23 DEF Finish
<1>24. CASE Crash(p)
  BY <1>24 DEF Crash
<1> QED BY <1>1, <1>2, <1>3, <1>4, <1>5, <1>6, <1>7, <1>8, <1>9, <1>10, <1>11, <1>12, <1>13,
    <1>14, <1>15, <1>16, <1>17, <1>18, <1>19, <1>20, <1>21, <1>22, <1>23, <1>24 DEF RunStep,
    Prepare, Publish, Undo

(* What a run has open at its segment are directories.                     *)
LEMMA RestTypeStep ==
  ASSUME TypeInv, NEW p \in Processes, RunStep(p)
  PROVE  RestType'
<1> USE DEF TypeInv, RestType, RunType, walk
<1>1. UNCHANGED rest \/ \E s \in SUBSET Dirs : rest' = [rest EXCEPT ![p] = s]
  <2>1. {} \in SUBSET Dirs /\ {cur[p]} \in SUBSET Dirs /\ rest[p] \in SUBSET Dirs
    OBVIOUS
  <2>2. ASSUME next[cur[p]] # NoDir
        PROVE  {next[cur[p]]} \in SUBSET Dirs /\ rest[p] \cup {next[cur[p]]} \in SUBSET Dirs
    BY <2>1, <2>2, CurGoesOn
  <2>3. ASSUME NEW s \in SUBSET Dirs, Fail(p, s)
        PROVE  \E t \in SUBSET Dirs : rest' = [rest EXCEPT ![p] = t]
    BY <2>1, <2>3 DEF Fail
  <2>4. CASE Descend(p) \/ Open(p)
    BY <2>1, <2>4 DEF Descend, Open, Enter
  <2>5. CASE Miss(p)
    BY <2>1, <2>5 DEF Miss
  <2>6. CASE Make(p)
    BY <2>1, <2>6 DEF Make
  <2>7. CASE WalkFails(p)
    BY <2>1, <2>2, <2>3, <2>7 DEF WalkFails
  <2>8. CASE MakeFails(p)
    BY <2>1, <2>3, <2>8 DEF MakeFails
  <2>9. CASE OpenFails(p)
    BY <2>1, <2>2, <2>3, <2>9 DEF OpenFails
  <2>10. CASE PinFails(p) \/ StageFails(p) \/ CommitFails(p)
    BY <2>1, <2>3, <2>10 DEF PinFails, StageFails, CommitFails
  <2>11. CASE Start(p) \/ Pin(p) \/ Stage(p) \/ Commit(p) \/ Withdraw(p) \/ Undo(p) \/ Crash(p)
    BY <2>11 DEF Start, Pin, Stage, Commit, Withdraw, Undo, Claim, ClaimNothing, ClaimFails,
         Remove, RemoveFails, GiveBack, GiveBackFails, Finish, Crash
  <2> QED BY <2>4, <2>5, <2>6, <2>7, <2>8, <2>9, <2>10, <2>11 DEF RunStep, Prepare, Publish
<1> QED BY <1>1

(* Another actor changes names and files, and touches no run.              *)
LEMMA EditFrame ==
  ASSUME TypeInv, Edit
  PROVE  /\ UNCHANGED <<claim, pc, walk, made, report, capacity, faults>>
         /\ edits' = edits + 1 /\ edits' # 0 /\ edits' \in Nat
         /\ \A q \in Processes : SameRun(q)
BY DEF TypeInv, ReportType, Edit, SameRun, walk, report

LEMMA EditType ==
  ASSUME TypeInv, Edit
  PROVE  NameType' /\ ReportType'
<1> USE DEF TypeInv, NameType, ReportType
<1>1. /\ next' \in [Dirs -> Dirs \cup {NoDir}] /\ mistaken' \in SUBSET Processes
      /\ maker' \in [Dirs -> Processes \cup {Somebody}]
  <2>1. ASSUME NEW c \in Dirs, NEW d \in Allocatable, next' = [next EXCEPT ![c] = d],
               Allocate(d, Somebody)
        PROVE  <1>1!:
    BY <2>1, AllocateIs
  <2>2. ASSUME NEW c \in Dirs, next' = [next EXCEPT ![c] = NoDir], UNCHANGED <<maker, mistaken>>
        PROVE  <1>1!:
    BY <2>2
  <2>3. CASE UNCHANGED <<next, maker, mistaken>>
    BY <2>3
  <2> QED BY <2>1, <2>2, <2>3 DEF Edit
<1>2. stuff' \in [Dirs -> SUBSET (Processes \cup {Somebody})]
  BY DEF Edit
<1>3. claim' = claim /\ capacity' = capacity /\ faults' = faults BY EditFrame
<1>4. edits' \in Nat /\ UNCHANGED report BY EditFrame
<1> QED BY <1>1, <1>2, <1>3, <1>4 DEF report

(* A run that is not touched is where it was.                              *)
LEMMA WalkKept ==
  ASSUME NEW q \in Processes, WalkAt(q), SameRun(q)
  PROVE  WalkAt(q)' /\ Todo(q)' = Todo(q) /\ Turn(q)' = Turn(q)
BY DEF WalkAt, SameRun, Todo, Turn, Goal

LEMMA TypeNext ==
  ASSUME TypeInv, [Next]_vars
  PROVE  TypeInv'
<1>1. CASE Edit
  <2>1. NameType' /\ ReportType' BY <1>1, EditType
  <2>2. \A q \in Processes : WalkAt(q)' BY <1>1, EditFrame, WalkKept DEF TypeInv
  <2>3. RunType' /\ RestType' BY <1>1, EditFrame DEF TypeInv, RunType, RestType, walk
  <2> QED BY <2>1, <2>2, <2>3 DEF TypeInv
<1>2. ASSUME NEW p \in Processes, RunStep(p) PROVE TypeInv'
  <2>1. NameType' /\ ReportType' /\ RunType' /\ RestType' /\ WalkAt(p)'
    BY <1>2, NameTypeStep, ReportTypeStep, RunTypeStep, RestTypeStep
  <2>2. \A q \in Processes \ {p} : WalkAt(q)' BY <1>2, OtherRuns, WalkKept DEF TypeInv
  <2> QED BY <2>1, <2>2 DEF TypeInv
<1>3. CASE UNCHANGED vars
  <2>1. NameType' /\ RunType' /\ RestType' /\ ReportType'
    BY <1>3 DEF vars, names, walk, report, env, TypeInv, NameType, RunType, RestType, ReportType
  <2>2. \A q \in Processes : WalkAt(q)'
    BY <1>3, WalkKept DEF vars, walk, report, TypeInv, SameRun
  <2> QED BY <2>1, <2>2 DEF TypeInv
<1> QED BY <1>1, <1>2, <1>3 DEF Next, RunStep

(* The directories that exist in the beginning, and the claim that was     *)
(* left at the last of them.                                               *)
PathIs(k, chain) ==
  /\ chain[0] = Base /\ \A i, j \in 0 .. k : chain[i] = chain[j] => i = j
  /\ next = [d \in Dirs |-> IF \E i \in 1 .. k : chain[i - 1] = d
                         THEN chain[1 + CHOOSE i \in 0 .. k - 1 : chain[i] = d]
                         ELSE NoDir]

StaleIs(k, chain, stale, d) ==
  /\ \A p, q \in stale : p = q
  /\ claim = [c \in Dirs |-> [p \in Processes |->
                IF c = chain[k] /\ p \in stale THEN d ELSE NoDir]]

LEMMA InitNames ==
  Init => \E k \in 0 .. Depth : \E chain \in [0 .. k -> Dirs] :
            /\ PathIs(k, chain)
            /\ \E stale \in SUBSET Processes, d \in Dirs \ {chain[i] : i \in 0 .. k} :
                 StaleIs(k, chain, stale, d)
BY ZenonT(60) DEF Init, PathIs, StaleIs

(* A segment that exists leads to the next one, and the last to nothing.   *)
LEMMA PathLeads ==
  ASSUME NEW k \in Nat, NEW chain \in [0 .. k -> Dirs], PathIs(k, chain)
  PROVE  /\ \A i \in 0 .. k - 1 : next[chain[i]] = chain[i + 1]
         /\ \A d \in Dirs : (\A i \in 0 .. k - 1 : d # chain[i]) => next[d] = NoDir
         /\ next \in [Dirs -> Dirs \cup {NoDir}]
<1> DEFINE at(d) == CHOOSE i \in 0 .. k - 1 : chain[i] = d
<1>1. ASSUME NEW i \in 0 .. k - 1 PROVE next[chain[i]] = chain[i + 1]
  <2>1. i \in 0 .. k /\ chain[i] \in Dirs BY <1>1
  <2>2. at(chain[i]) \in 0 .. k - 1 /\ chain[at(chain[i])] = chain[i] BY <1>1
  <2>3. at(chain[i]) = i BY <1>1, <2>1, <2>2 DEF PathIs
  <2>4. \E j \in 1 .. k : chain[j - 1] = chain[i]
    <3>1. i + 1 \in 1 .. k /\ (i + 1) - 1 = i BY <1>1
    <3> QED BY <3>1
  <2>5. next[chain[i]] = chain[1 + at(chain[i])] BY <2>1, <2>4 DEF PathIs
  <2>6. 1 + i = i + 1 BY <1>1
  <2> QED BY <2>3, <2>5, <2>6
<1>2. ASSUME NEW d \in Dirs, \A i \in 0 .. k - 1 : d # chain[i] PROVE next[d] = NoDir
  <2>1. ~ \E j \in 1 .. k : chain[j - 1] = d
    <3> SUFFICES ASSUME NEW j \in 1 .. k, chain[j - 1] = d PROVE FALSE OBVIOUS
    <3>1. j - 1 \in 0 .. k - 1 OBVIOUS
    <3> QED BY <1>2, <3>1
  <2> QED BY <2>1 DEF PathIs
<1>3. \A d \in Dirs : next[d] \in Dirs \cup {NoDir}
  <2>1. \A i \in 0 .. k - 1 : i + 1 \in 0 .. k OBVIOUS
  <2> QED BY <1>1, <1>2, <2>1
<1> QED BY <1>1, <1>2, <1>3 DEF PathIs

LEMMA TypeInit == Init => TypeInv
<1> SUFFICES ASSUME Init PROVE TypeInv OBVIOUS
<1> USE DirectoryAssumption
<1>1. NameType
  <2>1. PICK k \in 0 .. Depth : \E chain \in [0 .. k -> Dirs] :
            /\ PathIs(k, chain)
            /\ \E stale \in SUBSET Processes, d \in Dirs \ {chain[i] : i \in 0 .. k} :
                 StaleIs(k, chain, stale, d)
    BY InitNames
  <2>2. PICK chain \in [0 .. k -> Dirs] :
            /\ PathIs(k, chain)
            /\ \E stale \in SUBSET Processes, d \in Dirs \ {chain[i] : i \in 0 .. k} :
                 StaleIs(k, chain, stale, d)
    BY <2>1
  <2>3. next \in [Dirs -> Dirs \cup {NoDir}] BY <2>2, PathLeads
  <2>4. claim \in [Dirs -> [Processes -> Dirs \cup {NoDir}]] BY <2>2 DEF StaleIs
  <2> QED BY <2>3, <2>4 DEF Init, NameType
<1>2. RunType
  <2>1. <<>> \in Seq(Entry) OBVIOUS
  <2> QED BY <2>1 DEF Init, RunType, Phases
<1>3. RestType /\ ReportType BY DEF Init, RestType, ReportType
<1>4. ASSUME NEW p \in Processes PROVE WalkAt(p)
  <2>1. made[p] = <<>> /\ Len(made[p]) = 0 /\ level[p] = 0 /\ pc[p] = "idle" BY DEF Init
  <2>2. Todo(p) = {} /\ 1 .. 0 = {} BY <2>1 DEF Todo
  <2> QED BY <2>1, <2>2 DEF WalkAt
<1> QED BY <1>1, <1>2, <1>3, <1>4 DEF TypeInv

(* Every variable has its type.                                            *)
THEOREM TypeCorrect == Spec => []TypeOK
<1>1. TypeInv => TypeOK
  BY RoomIs DEF TypeInv, NameType, RunType, RestType, ReportType, WalkAt, TypeOK, Phases, Entry
<1> QED BY <1>1, TypeInit, TypeNext, PTL DEF Spec


-----------------------------------------------------------------------------
(* The names.                                                              *)

(* Somebody makes a directory in c.                                        *)
Fresh(c, d, a) ==
  /\ c \in Dirs /\ Linked(c) /\ next[c] = NoDir /\ d \in Allocatable
  /\ next' = [next EXCEPT ![c] = d] /\ UNCHANGED claim /\ Allocate(d, a)

(* What the name in c leads to is renamed to the claim name of p, back, or *)
(* removed.                                                                *)
Aside(c, p) ==
  /\ c \in Dirs /\ next[c] # NoDir /\ claim[c][p] = NoDir
  /\ claim' = [claim EXCEPT ![c][p] = next[c]] /\ next' = [next EXCEPT ![c] = NoDir]
  /\ UNCHANGED <<maker, stuff>>
Back(c, p) ==
  /\ c \in Dirs /\ next[c] = NoDir
  /\ next' = [next EXCEPT ![c] = claim[c][p]] /\ claim' = [claim EXCEPT ![c][p] = NoDir]
  /\ UNCHANGED <<maker, stuff>>
Gone(c, p) ==
  /\ c \in Dirs /\ (claim[c][p] # NoDir => Empty(claim[c][p]))
  /\ claim' = [claim EXCEPT ![c][p] = NoDir] /\ UNCHANGED <<next, maker, stuff>>
Taken(c) ==
  /\ c \in Dirs /\ next[c] # NoDir /\ Empty(next[c])
  /\ next' = [next EXCEPT ![c] = NoDir] /\ UNCHANGED <<claim, maker, stuff>>

(* How a step of a run changes the names.                                  *)
LEMMA NameShape ==
  ASSUME TypeInv, NEW p \in Processes, RunStep(p)
  PROVE  \/ UNCHANGED <<next, claim, maker>>
         \/ Make(p) /\ \E d \in Dirs : Fresh(cur[p], d, p)
         \/ Claim(p) /\ Aside(Parent(p, Turn(p)), p)
         \/ Remove(p) /\ Gone(Parent(p, Turn(p)), p)
         \/ GiveBack(p) /\ Back(Parent(p, Turn(p)), p)
<1> USE DEF names
<1>1. CASE Start(p)
  BY <1>1 DEF Start
<1>2. CASE Descend(p)
  BY <1>2 DEF Descend
<1>3. CASE Miss(p)
  BY <1>3 DEF Miss
<1>4. CASE WalkFails(p)
  BY <1>4 DEF WalkFails
<1>5. CASE MakeFails(p)
  BY <1>5 DEF MakeFails
<1>6. CASE Make(p)
  <2>1. cur[p] \in Dirs BY CurGoesOn
  <2>2. CASE UNCHANGED <<next, maker>> BY <1>6, <2>2 DEF Make
  <2>3. ASSUME NEW d \in Allocatable, next' = [next EXCEPT ![cur[p]] = d], Allocate(d, p),
               next[cur[p]] = NoDir, Linked(cur[p])
        PROVE  \E e \in Dirs : Fresh(cur[p], e, p)
    <3>1. d \in Dirs BY DEF Allocatable
    <3>2. UNCHANGED claim BY <1>6 DEF Make
    <3>3. Fresh(cur[p], d, p) BY <2>1, <2>3, <3>2 DEF Fresh
    <3> QED BY <3>1, <3>3
  <2> QED BY <1>6, <2>2, <2>3 DEF Make
<1>7. CASE Open(p)
  BY <1>7 DEF Open
<1>8. CASE OpenFails(p)
  BY <1>8 DEF OpenFails
<1>9. CASE Pin(p)
  BY <1>9 DEF Pin
<1>10. CASE PinFails(p)
  BY <1>10 DEF PinFails
<1>11. CASE Stage(p)
  BY <1>11 DEF Stage
<1>12. CASE StageFails(p)
  BY <1>12 DEF StageFails
<1>13. CASE Commit(p)
  BY <1>13 DEF Commit
<1>14. CASE CommitFails(p)
  BY <1>14 DEF CommitFails
<1>15. CASE Withdraw(p)
  BY <1>15 DEF Withdraw
<1>16. CASE Claim(p)
  <2>1. Todo(p) # {} BY <1>16 DEF Claim, Undoing
  <2>2. Record(p).parent \in Dirs /\ Record(p).parent = Parent(p, Turn(p)) BY <2>1, RecordIs
  <2>3. Aside(Parent(p, Turn(p)), p) BY <1>16, <2>2 DEF Claim, Aside, Claimed
  <2> QED BY <1>16, <2>3
<1>17. CASE ClaimNothing(p)
  BY <1>17 DEF ClaimNothing
<1>18. CASE ClaimFails(p)
  BY <1>18 DEF ClaimFails
<1>19. CASE Remove(p)
  <2>1. Todo(p) # {} BY <1>19 DEF Remove, Undoing
  <2>2. Record(p).parent \in Dirs /\ Record(p).parent = Parent(p, Turn(p)) BY <2>1, RecordIs
  <2>3. Gone(Parent(p, Turn(p)), p) BY <1>19, <2>2 DEF Remove, Gone, Claimed
  <2> QED BY <1>19, <2>3
<1>20. CASE RemoveFails(p)
  BY <1>20 DEF RemoveFails
<1>21. CASE GiveBack(p)
  <2>1. Todo(p) # {} BY <1>21 DEF GiveBack, Undoing
  <2>2. Record(p).parent \in Dirs /\ Record(p).parent = Parent(p, Turn(p)) BY <2>1, RecordIs
  <2>3. Back(Parent(p, Turn(p)), p) BY <1>21, <2>2 DEF GiveBack, Back, Claimed
  <2> QED BY <1>21, <2>3
<1>22. CASE GiveBackFails(p)
  BY <1>22 DEF GiveBackFails
<1>23. CASE Finish(p)
  BY <1>23 DEF Finish
<1>24. CASE Crash(p)
  BY <1>24 DEF Crash
<1> QED BY <1>1, <1>2, <1>3, <1>4, <1>5, <1>6, <1>7, <1>8, <1>9, <1>10, <1>11, <1>12, <1>13,
    <1>14, <1>15, <1>16, <1>17, <1>18, <1>19, <1>20, <1>21, <1>22, <1>23, <1>24 DEF RunStep,
    Prepare, Publish, Undo

(* Files are put into directories that have a name, and by the run.        *)
LEMMA StuffShape ==
  ASSUME TypeInv, NEW p \in Processes, RunStep(p)
  PROVE  \A d \in Dirs : /\ ~Linked(d) => stuff'[d] \subseteq stuff[d]
                         /\ stuff'[d] \subseteq stuff[d] \cup {p}
<1> USE DEF TypeInv, NameType
<1>1. UNCHANGED stuff \/ Pin(p) \/ PinFails(p) \/ Stage(p) \/ Withdraw(p)
  BY DEF RunStep, Prepare, Publish, Undo, Start, Descend, Miss, WalkFails, MakeFails, Make,
      Open, OpenFails, Pin, PinFails, Stage, StageFails, Commit, CommitFails, Withdraw, Claim,
      ClaimNothing, ClaimFails, Remove, RemoveFails, GiveBack, GiveBackFails, Finish, Crash
<1>2. CASE Linked(cur[p]) /\ stuff' = [stuff EXCEPT ![cur[p]] = @ \cup {p}]
  BY <1>2, CurGoesOn
<1>3. CASE Pin(p)
  BY <1>3, <1>2 DEF Pin
<1>4. CASE PinFails(p)
  BY <1>4, <1>2 DEF PinFails
<1>5. CASE Stage(p)
  BY <1>5, <1>2 DEF Stage
<1>6. CASE Withdraw(p)
  BY <1>6 DEF Withdraw
<1> QED BY <1>1, <1>3, <1>4, <1>5, <1>6

(* What has a name afterwards.                                             *)
LEMMA FreshLinks ==
  ASSUME TypeInv, NEW c, NEW d \in Dirs, NEW a, Fresh(c, d, a), NEW e \in Dirs
  PROVE  Linked(e)' <=> Linked(e) \/ e = d
<1>1. \A x \in Dirs : next'[x] = IF x = c THEN d ELSE next[x] BY DEF Fresh, TypeInv, NameType
<1>2. next[c] = NoDir /\ c \in Dirs /\ e # NoDir BY DirectoryAssumption DEF Fresh
<1>3. (\E x \in Dirs : next'[x] = e) <=> (\E x \in Dirs : next[x] = e) \/ e = d
  BY <1>1, <1>2
<1> QED BY <1>3 DEF Fresh, Linked

LEMMA AsideLinks ==
  ASSUME TypeInv, NEW c, NEW p \in Processes, Aside(c, p), NEW e \in Dirs
  PROVE  Linked(e)' <=> Linked(e)
<1>1. /\ \A x \in Dirs : next'[x] = IF x = c THEN NoDir ELSE next[x]
      /\ \A x \in Dirs, q \in Processes :
           claim'[x][q] = IF x = c /\ q = p THEN next[c] ELSE claim[x][q]
  BY DEF Aside, TypeInv, NameType
<1>2. claim[c][p] = NoDir /\ c \in Dirs /\ e # NoDir BY DirectoryAssumption DEF Aside
<1> QED BY <1>1, <1>2 DEF Linked

LEMMA BackLinks ==
  ASSUME TypeInv, NEW c, NEW p \in Processes, Back(c, p), NEW e \in Dirs
  PROVE  Linked(e)' <=> Linked(e)
<1>1. /\ \A x \in Dirs : next'[x] = IF x = c THEN claim[c][p] ELSE next[x]
      /\ \A x \in Dirs, q \in Processes :
           claim'[x][q] = IF x = c /\ q = p THEN NoDir ELSE claim[x][q]
  BY DEF Back, TypeInv, NameType
<1>2. next[c] = NoDir /\ c \in Dirs /\ e # NoDir BY DirectoryAssumption DEF Back
<1> QED BY <1>1, <1>2 DEF Linked

LEMMA GoneLinks ==
  ASSUME TypeInv, OneName, NEW c, NEW p \in Processes, Gone(c, p), NEW e \in Dirs
  PROVE  Linked(e)' <=> Linked(e) /\ e # claim[c][p]
<1>1. \A x \in Dirs, q \in Processes :
           claim'[x][q] = IF x = c /\ q = p THEN NoDir ELSE claim[x][q]
  BY DEF Gone, TypeInv, NameType
<1>2. c \in Dirs /\ e # NoDir /\ next' = next BY DirectoryAssumption DEF Gone
<1>3. CASE e = claim[c][p]
  <2>1. e # Base BY <1>2, <1>3 DEF OneName
  <2>2. \A x \in Dirs : next[x] # e BY <1>2, <1>3 DEF OneName
  <2>3. \A x \in Dirs, q \in Processes : claim'[x][q] # e BY <1>1, <1>2, <1>3 DEF OneName
  <2> QED BY <1>2, <1>3, <2>1, <2>2, <2>3 DEF Linked
<1>4. CASE e # claim[c][p]
  BY <1>1, <1>2, <1>4 DEF Linked
<1> QED BY <1>3, <1>4

LEMMA TakenLinks ==
  ASSUME TypeInv, OneName, NEW c, Taken(c), NEW e \in Dirs
  PROVE  Linked(e)' <=> Linked(e) /\ e # next[c]
<1>1. \A x \in Dirs : next'[x] = IF x = c THEN NoDir ELSE next[x]
  BY DEF Taken, TypeInv, NameType
<1>2. c \in Dirs /\ e # NoDir /\ claim' = claim BY DirectoryAssumption DEF Taken
<1>3. CASE e = next[c]
  <2>1. e # Base BY <1>2, <1>3 DEF OneName
  <2>2. \A x \in Dirs : next'[x] # e BY <1>1, <1>2, <1>3 DEF OneName
  <2>3. \A x \in Dirs, q \in Processes : claim[x][q] # e BY <1>2, <1>3 DEF OneName
  <2> QED BY <1>2, <1>3, <2>1, <2>2, <2>3 DEF Linked
<1>4. CASE e # next[c]
  BY <1>1, <1>2, <1>4 DEF Linked
<1> QED BY <1>3, <1>4


(* The names stay as they should.                                          *)
LEMMA FreshNames ==
  ASSUME TypeInv, NamesInv, NEW c, NEW d \in Dirs, NEW a, Fresh(c, d, a),
         \A e \in Dirs : ~Linked(e) => stuff'[e] \subseteq stuff[e]
  PROVE  NamesInv'
<1>1. \A x \in Dirs : next'[x] = IF x = c THEN d ELSE next[x] BY DEF Fresh, TypeInv, NameType
<1>2. next[c] = NoDir /\ c \in Dirs /\ claim' = claim /\ Linked(c) BY DEF Fresh
<1>3. ~Linked(d) /\ d # NoDir BY DirectoryAssumption DEF Fresh, Allocatable
<1>4. d # Base /\ (\A x \in Dirs : next[x] # d) /\ (\A x \in Dirs, p \in Processes : claim[x][p] # d)
  BY <1>3 DEF Linked
<1>5. \A x \in Dirs : x # d => maker'[x] = maker[x] BY DEF Fresh, Allocate, TypeInv, NameType
<1>6. OneName'
  BY <1>1, <1>2, <1>3, <1>4, <1>5, DirectoryAssumption DEF OneName, NamesInv
<1>7. UnlinkedIsEmpty'
  <2> SUFFICES ASSUME NEW e \in Dirs, ~Linked(e)' PROVE Empty(e)' BY DEF UnlinkedIsEmpty
  <2>1. ~Linked(e) /\ ~(c = e) BY FreshLinks, <1>2
  <2>2. Empty(e) BY <2>1 DEF NamesInv, UnlinkedIsEmpty
  <2>3. stuff'[e] = {} /\ next'[e] = NoDir BY <1>1, <2>1, <2>2 DEF Empty
  <2> QED BY <1>2, <2>2, <2>3 DEF Empty
<1> QED BY <1>6, <1>7 DEF NamesInv

LEMMA AsideNames ==
  ASSUME TypeInv, NamesInv, NEW c, NEW p \in Processes, Aside(c, p)
  PROVE  NamesInv'
<1>1. /\ \A x \in Dirs : next'[x] = IF x = c THEN NoDir ELSE next[x]
      /\ \A x \in Dirs, q \in Processes :
           claim'[x][q] = IF x = c /\ q = p THEN next[c] ELSE claim[x][q]
  BY DEF Aside, TypeInv, NameType
<1>2. next[c] # NoDir /\ claim[c][p] = NoDir /\ c \in Dirs /\ UNCHANGED <<maker,
    stuff>> BY DEF Aside
<1>3. OneName'
  <2> USE DEF NamesInv, OneName
  <2>1. maker'[Base] = Somebody BY <1>2
  <2>2. \A x \in Dirs : next'[x] # Base /\ \A q \in Processes : claim'[x][q] # Base
    BY <1>1, <1>2, DirectoryAssumption
  <2>3. \A x, y \in Dirs : next'[x] = next'[y] /\ next'[x] # NoDir => x = y BY <1>1
  <2>4. \A x, y \in Dirs, q \in Processes : next'[x] = claim'[y][q] => next'[x] = NoDir
    BY <1>1, <1>2
  <2>5. \A x, y \in Dirs, q, r \in Processes :
          claim'[x][q] = claim'[y][r] /\ claim'[x][q] # NoDir => x = y /\ q = r
    BY <1>1, <1>2
  <2> QED BY <2>1, <2>2, <2>3, <2>4, <2>5
<1>4. UnlinkedIsEmpty'
  <2> SUFFICES ASSUME NEW e \in Dirs, ~Linked(e)' PROVE Empty(e)' BY DEF UnlinkedIsEmpty
  <2>1. Empty(e) BY AsideLinks DEF NamesInv, UnlinkedIsEmpty
  <2>2. e # c BY <1>2, <2>1 DEF Empty
  <2> QED BY <1>1, <1>2, <2>1, <2>2 DEF Empty
<1> QED BY <1>3, <1>4 DEF NamesInv

LEMMA BackNames ==
  ASSUME TypeInv, NamesInv, NEW c, NEW p \in Processes, Back(c, p)
  PROVE  NamesInv'
<1>1. /\ \A x \in Dirs : next'[x] = IF x = c THEN claim[c][p] ELSE next[x]
      /\ \A x \in Dirs, q \in Processes :
           claim'[x][q] = IF x = c /\ q = p THEN NoDir ELSE claim[x][q]
  BY DEF Back, TypeInv, NameType
<1>2. next[c] = NoDir /\ c \in Dirs /\ UNCHANGED <<maker, stuff>> BY DEF Back
<1>3. OneName'
  <2> USE DEF NamesInv, OneName
  <2>1. maker'[Base] = Somebody BY <1>2
  <2>2. \A x \in Dirs : next'[x] # Base /\ \A q \in Processes : claim'[x][q] # Base
    BY <1>1, <1>2, DirectoryAssumption
  <2>3. \A x, y \in Dirs : next'[x] = next'[y] /\ next'[x] # NoDir => x = y BY <1>1, <1>2
  <2>4. \A x, y \in Dirs, q \in Processes : next'[x] = claim'[y][q] => next'[x] = NoDir
    BY <1>1, <1>2
  <2>5. \A x, y \in Dirs, q, r \in Processes :
          claim'[x][q] = claim'[y][r] /\ claim'[x][q] # NoDir => x = y /\ q = r
    BY <1>1, <1>2
  <2> QED BY <2>1, <2>2, <2>3, <2>4, <2>5
<1>4. UnlinkedIsEmpty'
  <2> SUFFICES ASSUME NEW e \in Dirs, ~Linked(e)' PROVE Empty(e)' BY DEF UnlinkedIsEmpty
  <2>1. Empty(e) BY BackLinks DEF NamesInv, UnlinkedIsEmpty
  <2> QED BY <1>1, <1>2, <2>1 DEF Empty
<1> QED BY <1>3, <1>4 DEF NamesInv

LEMMA GoneNames ==
  ASSUME TypeInv, NamesInv, NEW c, NEW p \in Processes, Gone(c, p)
  PROVE  NamesInv'
<1>1. \A x \in Dirs, q \in Processes :
         claim'[x][q] = IF x = c /\ q = p THEN NoDir ELSE claim[x][q]
  BY DEF Gone, TypeInv, NameType
<1>2. c \in Dirs /\ UNCHANGED <<next, maker, stuff>> BY DEF Gone
<1>3. OneName' BY <1>1, <1>2, DirectoryAssumption DEF NamesInv, OneName
<1>4. UnlinkedIsEmpty'
  <2> SUFFICES ASSUME NEW e \in Dirs, ~Linked(e)' PROVE Empty(e)' BY DEF UnlinkedIsEmpty
  <2>1. ~Linked(e) \/ e = claim[c][p] BY GoneLinks DEF NamesInv
  <2>2. Empty(e) BY <2>1, DirectoryAssumption DEF NamesInv, UnlinkedIsEmpty, Gone
  <2> QED BY <1>1, <1>2, <2>2 DEF Empty
<1> QED BY <1>3, <1>4 DEF NamesInv

LEMMA TakenNames ==
  ASSUME TypeInv, NamesInv, NEW c, Taken(c)
  PROVE  NamesInv'
<1>1. \A x \in Dirs : next'[x] = IF x = c THEN NoDir ELSE next[x]
  BY DEF Taken, TypeInv, NameType
<1>2. c \in Dirs /\ UNCHANGED <<claim, maker, stuff>> BY DEF Taken
<1>3. OneName' BY <1>1, <1>2, DirectoryAssumption DEF NamesInv, OneName
<1>4. UnlinkedIsEmpty'
  <2> SUFFICES ASSUME NEW e \in Dirs, ~Linked(e)' PROVE Empty(e)' BY DEF UnlinkedIsEmpty
  <2>1. ~Linked(e) \/ e = next[c] BY TakenLinks DEF NamesInv
  <2>2. Empty(e) BY <2>1 DEF NamesInv, UnlinkedIsEmpty, Taken
  <2> QED BY <1>1, <1>2, <2>2 DEF Empty
<1> QED BY <1>3, <1>4 DEF NamesInv

LEMMA SameNames ==
  ASSUME NamesInv, UNCHANGED <<next, claim, maker>>,
         \A e \in Dirs : ~Linked(e) => stuff'[e] \subseteq stuff[e]
  PROVE  NamesInv'
<1>1. OneName' BY DEF NamesInv, OneName
<1>2. UnlinkedIsEmpty'
  <2> SUFFICES ASSUME NEW e \in Dirs, ~Linked(e)' PROVE Empty(e)' BY DEF UnlinkedIsEmpty
  <2>1. ~Linked(e) BY DEF Linked
  <2>2. Empty(e) BY <2>1 DEF NamesInv, UnlinkedIsEmpty
  <2>3. stuff'[e] = {} BY <2>1, <2>2 DEF Empty
  <2> QED BY <2>2, <2>3 DEF Empty
<1> QED BY <1>1, <1>2 DEF NamesInv

(* How another actor changes them.                                         *)
LEMMA EditShape ==
  ASSUME TypeInv, Edit
  PROVE  \/ \E c, d \in Dirs : Fresh(c, d, Somebody) /\ UNCHANGED stuff
         \/ \E c \in Dirs : Taken(c) /\ UNCHANGED mistaken
         \/ UNCHANGED <<next, claim, maker, mistaken>>
            /\ \A e \in Dirs : ~Linked(e) => stuff'[e] \subseteq stuff[e]
<1>1. UNCHANGED claim BY DEF Edit
<1>2. ASSUME NEW c \in Dirs, NEW d \in Allocatable, Linked(c), next[c] = NoDir,
             next' = [next EXCEPT ![c] = d], Allocate(d, Somebody), UNCHANGED stuff
      PROVE  \E x, y \in Dirs : Fresh(x, y, Somebody) /\ UNCHANGED stuff
  <2>1. d \in Dirs BY DEF Allocatable
  <2> QED BY <1>1, <1>2, <2>1 DEF Fresh
<1>3. ASSUME NEW c \in Dirs, next[c] # NoDir, Empty(next[c]), next' = [next EXCEPT ![c] = NoDir],
             UNCHANGED <<stuff, maker, mistaken>>
      PROVE  \E x \in Dirs : Taken(x) /\ UNCHANGED mistaken
  BY <1>1, <1>3 DEF Taken
<1>4. ASSUME NEW d \in Dirs \ {Base}, Linked(d), UNCHANGED <<next, maker, mistaken>>,
             stuff' = [stuff EXCEPT ![d] = @ \cup {Somebody}]
      PROVE  UNCHANGED <<next, claim, maker, mistaken>>
             /\ \A e \in Dirs : ~Linked(e) => stuff'[e] \subseteq stuff[e]
  BY <1>1, <1>4 DEF TypeInv, NameType
<1> QED BY <1>2, <1>3, <1>4 DEF Edit

LEMMA NamesNext ==
  ASSUME TypeInv, NamesInv, [Next]_vars
  PROVE  NamesInv'
<1>1. CASE Edit
  <2>1. ASSUME NEW c \in Dirs, NEW d \in Dirs, Fresh(c, d, Somebody), UNCHANGED stuff PROVE NamesInv'
    BY <2>1, FreshNames
  <2> QED BY <1>1, <2>1, EditShape, TakenNames, SameNames
<1>2. ASSUME NEW p \in Processes, RunStep(p) PROVE NamesInv'
  <2>1. \A e \in Dirs : ~Linked(e) => stuff'[e] \subseteq stuff[e] BY <1>2, StuffShape
  <2>2. ASSUME NEW d \in Dirs, Fresh(cur[p], d, p) PROVE NamesInv' BY <2>1, <2>2, FreshNames
  <2> QED BY <1>2, <2>1, <2>2, NameShape, SameNames, AsideNames, BackNames, GoneNames
<1>3. CASE UNCHANGED vars
  <2>1. UNCHANGED <<next, claim, maker, stuff>> BY <1>3 DEF vars, names
  <2> QED BY <2>1, SameNames
<1> QED BY <1>1, <1>2, <1>3 DEF Next, RunStep

LEMMA NamesInit == Init => NamesInv
<1> SUFFICES ASSUME Init PROVE NamesInv OBVIOUS
<1> USE DirectoryAssumption
<1>1. PICK k \in 0 .. Depth : \E chain \in [0 .. k -> Dirs] :
            /\ PathIs(k, chain)
            /\ \E stale \in SUBSET Processes, d \in Dirs \ {chain[i] : i \in 0 .. k} :
                 StaleIs(k, chain, stale, d)
  BY InitNames
<1>2. PICK chain \in [0 .. k -> Dirs] :
            /\ PathIs(k, chain)
            /\ \E stale \in SUBSET Processes, d \in Dirs \ {chain[i] : i \in 0 .. k} :
                 StaleIs(k, chain, stale, d)
  BY <1>1
<1>3. PICK stale \in SUBSET Processes, x \in Dirs \ {chain[i] : i \in 0 .. k} :
         StaleIs(k, chain, stale, x)
  BY <1>2
<1>4. chain[0] = Base /\ \A i, j \in 0 .. k : chain[i] = chain[j] => i = j BY <1>2 DEF PathIs
<1>5. \A i \in 0 .. k - 1 : next[chain[i]] = chain[i + 1] /\ i \in 0 .. k /\ i + 1 \in 1 .. k
  <2>1. k \in Nat /\ \A i \in 0 .. k - 1 : i \in 0 .. k /\ i + 1 \in 1 .. k OBVIOUS
  <2>2. \A i \in 0 .. k - 1 : next[chain[i]] = chain[i + 1]
    BY <1>2, <2>1, PathLeads, Zenon
  <2> QED BY <2>1, <2>2
<1>6. \A d \in Dirs : next[d] # NoDir => \E i \in 0 .. k - 1 : d = chain[i] BY <1>2, PathLeads
<1>7. \A c \in Dirs, p \in Processes :
        claim[c][p] # NoDir => c = chain[k] /\ p \in stale /\ claim[c][p] = x
  BY <1>3 DEF StaleIs
<1>8. \A d \in Dirs : next[d] # NoDir => \E i \in 1 .. k : next[d] = chain[i] BY <1>5, <1>6
<1>9. \A p, q \in stale : p = q BY <1>3 DEF StaleIs
<1>10. OneName
  <2>1. maker[Base] = Somebody BY DEF Init
  <2>2. \A c \in Dirs : next[c] # Base BY <1>4, <1>8
  <2>3. \A c \in Dirs, p \in Processes : claim[c][p] # Base BY <1>4, <1>7
  <2>4. \A c, d \in Dirs : next[c] = next[d] /\ next[c] # NoDir => c = d
    <3> SUFFICES ASSUME NEW c \in Dirs, NEW d \in Dirs, next[c] = next[d], next[c] # NoDir
                 PROVE  c = d
      OBVIOUS
    <3>1. PICK i \in 0 .. k - 1 : c = chain[i] BY <1>6
    <3>2. PICK j \in 0 .. k - 1 : d = chain[j] BY <1>6
    <3>3. i + 1 = j + 1 BY <1>4, <1>5, <3>1, <3>2
    <3> QED BY <3>1, <3>2, <3>3
  <2>5. \A c, d \in Dirs, p \in Processes : next[c] = claim[d][p] => next[c] = NoDir
    BY <1>7, <1>8
  <2>6. \A c, d \in Dirs, p, q \in Processes :
          claim[c][p] = claim[d][q] /\ claim[c][p] # NoDir => c = d /\ p = q
    BY <1>7, <1>9
  <2> QED BY <2>1, <2>2, <2>3, <2>4, <2>5, <2>6 DEF OneName
<1>11. UnlinkedIsEmpty
  <2> SUFFICES ASSUME NEW d \in Dirs, ~Empty(d) PROVE Linked(d) BY DEF UnlinkedIsEmpty
  <2>1. stuff[d] = {} BY DEF Init
  <2>2. PICK i \in 0 .. k : d = chain[i] BY <1>5, <1>6, <1>7, <2>1 DEF Empty
  <2>3. CASE i = 0 BY <1>4, <2>2, <2>3 DEF Linked
  <2>4. CASE i # 0
    <3>1. i - 1 \in 0 .. k - 1 /\ (i - 1) + 1 = i BY <2>4
    <3>2. next[chain[i - 1]] = d /\ chain[i - 1] \in Dirs BY <1>5, <2>2, <3>1
    <3> QED BY <3>2 DEF Linked
  <2> QED BY <2>3, <2>4
<1> QED BY <1>10, <1>11 DEF NamesInv

-----------------------------------------------------------------------------
(* What runs know.                                                         *)

(* How a step of a run changes its records.                                *)
LEMMA MadeShape ==
  ASSUME TypeInv, NEW p \in Processes, RunStep(p)
  PROVE  \/ UNCHANGED made
         \/ Make(p) /\ Register(p)
         \/ /\ Open(p) \/ OpenFails(p)
            /\ Identify(p, next[cur[p]]) /\ next[cur[p]] \in Dirs /\ UNCHANGED maker
         \/ /\ ClaimNothing(p) \/ ClaimFails(p) \/ Remove(p) \/ GiveBack(p) \/ GiveBackFails(p)
            /\ Todo(p) # {} /\ Drop(p)
<1>1. CASE Start(p)
  BY <1>1 DEF Start
<1>2. CASE Descend(p)
  BY <1>2 DEF Descend
<1>3. CASE Miss(p)
  BY <1>3 DEF Miss
<1>4. CASE WalkFails(p)
  BY <1>4 DEF WalkFails
<1>5. CASE MakeFails(p)
  BY <1>5 DEF MakeFails
<1>6. CASE Make(p)
  BY <1>6 DEF Make
<1>7. CASE Open(p)
  BY <1>7, CurGoesOn DEF Open
<1>8. CASE OpenFails(p)
  BY <1>8, CurGoesOn DEF OpenFails
<1>9. CASE Pin(p)
  BY <1>9 DEF Pin
<1>10. CASE PinFails(p)
  BY <1>10 DEF PinFails
<1>11. CASE Stage(p)
  BY <1>11 DEF Stage
<1>12. CASE StageFails(p)
  BY <1>12 DEF StageFails
<1>13. CASE Commit(p)
  BY <1>13 DEF Commit
<1>14. CASE CommitFails(p)
  BY <1>14 DEF CommitFails
<1>15. CASE Withdraw(p)
  BY <1>15 DEF Withdraw
<1>16. CASE Claim(p)
  BY <1>16 DEF Claim
<1>17. CASE ClaimNothing(p)
  BY <1>17 DEF ClaimNothing, Undoing
<1>18. CASE ClaimFails(p)
  BY <1>18 DEF ClaimFails, Undoing
<1>19. CASE Remove(p)
  BY <1>19 DEF Remove, Undoing
<1>20. CASE RemoveFails(p)
  BY <1>20 DEF RemoveFails
<1>21. CASE GiveBack(p)
  BY <1>21 DEF GiveBack, Undoing
<1>22. CASE GiveBackFails(p)
  BY <1>22 DEF GiveBackFails, Undoing
<1>23. CASE Finish(p)
  BY <1>23 DEF Finish
<1>24. CASE Crash(p)
  BY <1>24 DEF Crash
<1> QED BY <1>1, <1>2, <1>3, <1>4, <1>5, <1>6, <1>7, <1>8, <1>9, <1>10, <1>11, <1>12, <1>13,
    <1>14, <1>15, <1>16, <1>17, <1>18, <1>19, <1>20, <1>21, <1>22, <1>23, <1>24 DEF RunStep,
    Prepare, Publish, Undo

(* Who makes a directory takes the identities of it that others know.      *)
LEMMA MakerShape ==
  ASSUME TypeInv, Edit \/ \E p \in Processes : RunStep(p)
  PROVE  /\ mistaken \subseteq mistaken'
         /\ \A d \in Dirs, q \in Processes :
              maker'[d] # maker[d] /\ Live(q) /\ (\E i \in Todo(q) : made[q][i].id = d)
                => q \in mistaken'
<1>1. ASSUME NEW d \in Allocatable, NEW a, Allocate(d, a)
      PROVE  /\ mistaken \subseteq mistaken'
             /\ \A e \in Dirs, q \in Processes :
                  maker'[e] # maker[e] /\ Live(q) /\ (\E i \in Todo(q) : made[q][i].id = e)
                    => q \in mistaken'
  BY <1>1 DEF Allocate, TypeInv, NameType
<1>2. CASE Edit
  BY <1>1, <1>2, EditShape DEF Fresh, Taken
<1>3. ASSUME NEW p \in Processes, RunStep(p)
      PROVE  (\E d \in Allocatable : Allocate(d, p)) \/ (maker' = maker /\ mistaken \subseteq mistaken')
  <2> USE <1>3
  <2>1. CASE Start(p)
    BY <2>1 DEF Start
  <2>2. CASE Descend(p)
    BY <2>2 DEF Descend
  <2>3. CASE Miss(p)
    BY <2>3 DEF Miss
  <2>4. CASE WalkFails(p)
    BY <2>4 DEF WalkFails
  <2>5. CASE MakeFails(p)
    BY <2>5 DEF MakeFails
  <2>6. CASE Make(p)
    BY <2>6 DEF Make
  <2>7. CASE Open(p)
    BY <2>7, Identified, CurGoesOn DEF Open
  <2>8. CASE OpenFails(p)
    BY <2>8, Identified, CurGoesOn DEF OpenFails
  <2>9. CASE Pin(p)
    BY <2>9 DEF Pin
  <2>10. CASE PinFails(p)
    BY <2>10 DEF PinFails
  <2>11. CASE Stage(p)
    BY <2>11 DEF Stage
  <2>12. CASE StageFails(p)
    BY <2>12 DEF StageFails
  <2>13. CASE Commit(p)
    BY <2>13 DEF Commit
  <2>14. CASE CommitFails(p)
    BY <2>14 DEF CommitFails
  <2>15. CASE Withdraw(p)
    BY <2>15 DEF Withdraw
  <2>16. CASE Claim(p)
    BY <2>16 DEF Claim
  <2>17. CASE ClaimNothing(p)
    BY <2>17 DEF ClaimNothing
  <2>18. CASE ClaimFails(p)
    BY <2>18 DEF ClaimFails
  <2>19. CASE Remove(p)
    BY <2>19 DEF Remove
  <2>20. CASE RemoveFails(p)
    BY <2>20 DEF RemoveFails
  <2>21. CASE GiveBack(p)
    BY <2>21 DEF GiveBack
  <2>22. CASE GiveBackFails(p)
    BY <2>22 DEF GiveBackFails
  <2>23. CASE Finish(p)
    BY <2>23 DEF Finish
  <2>24. CASE Crash(p)
    BY <2>24 DEF Crash
  <2> QED BY <2>1, <2>2, <2>3, <2>4, <2>5, <2>6, <2>7, <2>8, <2>9, <2>10, <2>11, <2>12, <2>13,
      <2>14, <2>15, <2>16, <2>17, <2>18, <2>19, <2>20, <2>21, <2>22, <2>23, <2>24 DEF RunStep,
      Prepare, Publish, Undo
<1> QED BY <1>1, <1>2, <1>3

LEMMA KnownKept ==
  ASSUME TypeInv, NEW q \in Processes, KnownAt(q), SameRun(q),
         Edit \/ \E p \in Processes : RunStep(p)
  PROVE  KnownAt(q)'
<1>1. Todo(q)' = Todo(q) /\ Live(q)' = Live(q) BY DEF SameRun, Todo, Live
<1> SUFFICES ASSUME Live(q), q \notin mistaken', NEW i \in Todo(q), made[q][i].id # NoDir
             PROVE  maker'[made[q][i].id] = q
  BY <1>1 DEF KnownAt, SameRun
<1>2. q \notin mistaken /\ made[q][i].id \in Dirs BY MakerShape, EntryIs DEF Todo
<1>3. maker[made[q][i].id] = q BY <1>2 DEF KnownAt
<1> QED BY <1>2, <1>3, MakerShape

LEMMA KnownOwn ==
  ASSUME TypeInv, NEW p \in Processes, KnownAt(p), RunStep(p)
  PROVE  KnownAt(p)'
<1> SUFFICES ASSUME Live(p)', p \notin mistaken', NEW i \in Todo(p)', made'[p][i].id # NoDir
             PROVE  maker'[made'[p][i].id] = p
  BY DEF KnownAt
<1>1. p \notin mistaken BY MakerShape
<1>2. Live(p) \/ made[p] = <<>>
  <2>1. pc[p] \notin {"done", "crashed"}
    BY DEF RunStep, Prepare, Publish, Undo, Undoing, At, Live, Start, Descend, Miss, WalkFails,
        MakeFails, Make, Open, OpenFails, Pin, PinFails, Stage, StageFails, Commit, CommitFails,
        Withdraw, Claim, ClaimNothing, ClaimFails, Remove, RemoveFails, GiveBack, GiveBackFails,
        Finish, Crash
  <2> QED BY <2>1 DEF TypeInv, WalkAt, Live
<1>3. ASSUME NEW j \in Todo(p), made[p][j].id # NoDir
      PROVE  maker[made[p][j].id] = p /\ made[p][j].id \in Dirs /\ maker'[made[p][j].id] = p
  <2>1. Live(p) BY <1>2 DEF Todo
  <2>2. maker[made[p][j].id] = p /\ made[p][j].id \in Dirs BY <1>1, <1>3, <2>1,
      EntryIs DEF KnownAt, Todo
  <2> QED BY <1>3, <2>1, <2>2, MakerShape
<1>4. CASE UNCHANGED made
  BY <1>3, <1>4 DEF Todo
<1>5. CASE Register(p)
  <2>0. made'[p][Len(made[p]) + 1] = [parent |-> cur[p], id |-> NoDir, todo |-> TRUE]
    BY <1>5, Registered
  <2>1. i # Len(made[p]) + 1 BY <2>0
  <2>2. i \in Todo(p)
    <3>1. Todo(p)' = Todo(p) \cup {Len(made[p]) + 1} BY <1>5, Registered
    <3> QED BY <2>1, <3>1
  <2>3. i \in DOMAIN made[p] BY <2>2 DEF Todo
  <2>4. made'[p][i] = made[p][i] BY <1>5, <2>3, Registered
  <2> QED BY <1>3, <2>2, <2>4
<1>6. CASE Identify(p, next[cur[p]]) /\ next[cur[p]] \in Dirs /\ UNCHANGED maker
  <2>1. Todo(p)' = Todo(p) /\ i \in DOMAIN made[p] BY <1>6, Identified DEF Todo
  <2>2. CASE Mine(p) /\ i = Len(made[p])
    <3>1. made'[p][i].id = next[cur[p]] BY <1>6, <2>1, <2>2, Identified
    <3>2. maker[next[cur[p]]] = p
      BY <1>6, <2>2 DEF Identify, TypeInv, ReportType
    <3> QED BY <1>6, <3>1, <3>2
  <2>3. CASE ~(Mine(p) /\ i = Len(made[p]))
    BY <1>3, <1>6, <2>1, <2>3, Identified
  <2> QED BY <2>2, <2>3
<1>7. CASE Todo(p) # {} /\ Drop(p)
  BY <1>3, <1>7, Dropped DEF Todo
<1> QED BY <1>4, <1>5, <1>6, <1>7, MadeShape

LEMMA KnownNext ==
  ASSUME TypeInv, \A p \in Processes : KnownAt(p), [Next]_vars
  PROVE  \A p \in Processes : KnownAt(p)'
<1>1. CASE Edit
  BY <1>1, KnownKept, EditFrame
<1>2. ASSUME NEW p \in Processes, RunStep(p) PROVE \A q \in Processes : KnownAt(q)'
  BY <1>2, KnownOwn, KnownKept, OtherRuns
<1>3. CASE UNCHANGED vars
  BY <1>3 DEF vars, KnownAt, Live, Todo
<1> QED BY <1>1, <1>2, <1>3 DEF Next, RunStep

(* Only directories that the run made are removed by it.                   *)
LEMMA RemovesOwn ==
  ASSUME TypeInv, NamesInv, NEW p \in Processes, KnownAt(p), RunStep(p),
         p \notin mistaken, NEW d \in Dirs, Linked(d), ~Linked(d)'
  PROVE  maker[d] = p
<1>1. CASE UNCHANGED <<next, claim, maker>>
  BY <1>1 DEF Linked
<1>2. ASSUME NEW e \in Dirs, Fresh(cur[p], e, p) PROVE FALSE
  BY <1>2, FreshLinks
<1>3. CASE Aside(Parent(p, Turn(p)), p)
  BY <1>3, AsideLinks
<1>4. CASE Back(Parent(p, Turn(p)), p)
  BY <1>4, BackLinks
<1>5. CASE Remove(p) /\ Gone(Parent(p, Turn(p)), p)
  <2>1. Todo(p) # {} /\ Live(p) BY <1>5 DEF Remove, Undoing, At, Live
  <2>2. d = Claimed(p) BY <1>5, <2>1, GoneLinks, RecordIs DEF NamesInv, Claimed
  <2>3. Record(p).id = d BY <1>5, <2>2 DEF Remove, Authentic
  <2>4. made[p][Turn(p)].id = d /\ Turn(p) \in Todo(p) BY <2>1, <2>3, RecordIs
  <2> QED BY <2>1, <2>4, DirectoryAssumption DEF KnownAt
<1> QED BY <1>1, <1>2, <1>3, <1>4, <1>5, NameShape

(* A run removes only directories that it made: whatever took their place  *)
(* after they were identified is given back (remove_owned_directory).      *)
THEOREM RemovalHolds == Spec => RemovesOnlyMade
<1> DEFINE Known == TypeInv /\ NamesInv /\ \A p \in Processes : KnownAt(p)
<1>1. Init => Known
  <2>1. Init => \A p \in Processes : KnownAt(p) BY DEF Init, KnownAt, Live
  <2> QED BY <2>1, TypeInit, NamesInit
<1>2. Known /\ [Next]_vars => Known' BY TypeNext, NamesNext, KnownNext
<1>3. Known /\ [Next]_vars =>
        [ \A p \in Processes \ mistaken, d \in Dirs :
            Linked(d) /\ ~Linked(d)' /\ pc'[p] # pc[p] => maker[d] = p ]_vars
  <2> SUFFICES ASSUME Known, Next, NEW p \in Processes \ mistaken, NEW d \in Dirs,
                      Linked(d), ~Linked(d)', pc'[p] # pc[p]
               PROVE  maker[d] = p
    OBVIOUS
  <2>1. ~Edit BY EditFrame DEF SameRun
  <2>2. RunStep(p)
    <3>1. PICK q \in Processes : RunStep(q) BY <2>1 DEF Next, RunStep
    <3>2. q = p BY <3>1, OtherRuns DEF SameRun
    <3> QED BY <3>1, <3>2
  <2> QED BY <2>2, RemovesOwn
<1> QED BY <1>1, <1>2, <1>3, PTL DEF Spec, RemovesOnlyMade


-----------------------------------------------------------------------------
(* Where the directories are that a run has made.                          *)

(* Where a step of a run takes it.                                         *)
LEMMA PhaseShape ==
  ASSUME TypeInv, NEW p \in Processes, RunStep(p)
  PROVE  /\ pc[p] \notin {"done", "crashed"}
         /\ pc[p] # "idle" => Live(p)
         /\ pc[p] \notin {"claimed", "return"} /\ ~Claim(p) => pc'[p] \notin {"claimed", "return"}
         /\ pc[p] \in {"claimed", "return"} /\ UNCHANGED made /\ ~Crash(p)
              => RemoveFails(p) /\ pc'[p] = "return"

<1> USE DEF TypeInv, RunType, Live
<1>1. CASE Start(p)
  BY <1>1 DEF Start, At, Goto
<1>2. CASE Descend(p)
  BY <1>2 DEF Descend, At, Short
<1>3. CASE Miss(p)
  BY <1>3 DEF Miss, At, Goto, Short
<1>4. CASE WalkFails(p)
  BY <1>4 DEF WalkFails, At, Short, Fail, Goto
<1>5. CASE MakeFails(p)
  BY <1>5 DEF MakeFails, At, Fail, Goto
<1>6. CASE Make(p)
  BY <1>6 DEF Make, At, Goto
<1>7. CASE Open(p)
  BY <1>7 DEF Open, At, Goto
<1>8. CASE OpenFails(p)
  BY <1>8 DEF OpenFails, At, Fail, Goto
<1>9. CASE Pin(p)
  BY <1>9 DEF Pin, At, Goto
<1>10. CASE PinFails(p)
  BY <1>10 DEF PinFails, At, Goto, Fail
<1>11. CASE Stage(p)
  BY <1>11 DEF Stage, At, Goto
<1>12. CASE StageFails(p)
  BY <1>12 DEF StageFails, At, Goto, Fail
<1>13. CASE Commit(p)
  BY <1>13 DEF Commit, At, Goto
<1>14. CASE CommitFails(p)
  BY <1>14 DEF CommitFails, At, Goto, Charge, Fail
<1>15. CASE Withdraw(p)
  BY <1>15 DEF Withdraw, At, Goto
<1>16. CASE Claim(p)
  BY <1>16 DEF Claim, Undoing, At, Goto
<1>17. CASE ClaimNothing(p)
  <2>1. Todo(p) # {} /\ Drop(p) BY <1>17 DEF ClaimNothing, Undoing
  <2>2. ~UNCHANGED made
    <3>1. Turn(p) \in Todo(p) /\ Todo(p)' = Todo(p) \ {Turn(p)} BY <2>1, Dropped, RecordIs
    <3> QED BY <3>1 DEF Todo
  <2>3. pc[p] \in {"undo", "claimed", "return"} /\ pc'[p] = "undo"
    BY <1>17 DEF ClaimNothing, Undoing, At, Goto
  <2> QED BY <2>2, <2>3
<1>18. CASE ClaimFails(p)
  <2>1. Todo(p) # {} /\ Drop(p) BY <1>18 DEF ClaimFails, Undoing
  <2>2. ~UNCHANGED made
    <3>1. Turn(p) \in Todo(p) /\ Todo(p)' = Todo(p) \ {Turn(p)} BY <2>1, Dropped, RecordIs
    <3> QED BY <3>1 DEF Todo
  <2>3. pc[p] \in {"undo", "claimed", "return"} /\ pc'[p] = "undo"
    BY <1>18 DEF ClaimFails, Undoing, At, Goto
  <2> QED BY <2>2, <2>3
<1>19. CASE Remove(p)
  <2>1. Todo(p) # {} /\ Drop(p) BY <1>19 DEF Remove, Undoing
  <2>2. ~UNCHANGED made
    <3>1. Turn(p) \in Todo(p) /\ Todo(p)' = Todo(p) \ {Turn(p)} BY <2>1, Dropped, RecordIs
    <3> QED BY <3>1 DEF Todo
  <2>3. pc[p] \in {"undo", "claimed", "return"} /\ pc'[p] = "undo"
    BY <1>19 DEF Remove, Undoing, At, Goto
  <2> QED BY <2>2, <2>3
<1>20. CASE RemoveFails(p)
  BY <1>20 DEF RemoveFails, Undoing, At, Goto
<1>21. CASE GiveBack(p)
  <2>1. Todo(p) # {} /\ Drop(p) BY <1>21 DEF GiveBack, Undoing
  <2>2. ~UNCHANGED made
    <3>1. Turn(p) \in Todo(p) /\ Todo(p)' = Todo(p) \ {Turn(p)} BY <2>1, Dropped, RecordIs
    <3> QED BY <3>1 DEF Todo
  <2>3. pc[p] \in {"undo", "claimed", "return"} /\ pc'[p] = "undo"
    BY <1>21 DEF GiveBack, Undoing, At, Goto
  <2> QED BY <2>2, <2>3
<1>22. CASE GiveBackFails(p)
  <2>1. Todo(p) # {} /\ Drop(p) BY <1>22 DEF GiveBackFails, Undoing
  <2>2. ~UNCHANGED made
    <3>1. Turn(p) \in Todo(p) /\ Todo(p)' = Todo(p) \ {Turn(p)} BY <2>1, Dropped, RecordIs
    <3> QED BY <3>1 DEF Todo
  <2>3. pc[p] \in {"undo", "claimed", "return"} /\ pc'[p] = "undo"
    BY <1>22 DEF GiveBackFails, Undoing, At, Goto
  <2> QED BY <2>2, <2>3
<1>23. CASE Finish(p)
  BY <1>23 DEF Finish, At, Goto
<1>24. CASE Crash(p)
  BY <1>24 DEF Crash, Live, Goto
<1> QED BY <1>1, <1>2, <1>3, <1>4, <1>5, <1>6, <1>7, <1>8, <1>9, <1>10, <1>11, <1>12, <1>13,
    <1>14, <1>15, <1>16, <1>17, <1>18, <1>19, <1>20, <1>21, <1>22, <1>23, <1>24 DEF RunStep,
    Prepare, Publish, Undo

(* The claim names of others are not touched.                              *)
LEMMA ClaimsKept ==
  ASSUME TypeInv, NEW p \in Processes, RunStep(p), NEW q \in Processes \ {p}, NEW c \in Dirs
  PROVE  claim'[c][q] = claim[c][q]
BY NameShape DEF Fresh, Aside, Gone, Back, TypeInv, NameType

LEMMA FreshKept ==
  ASSUME TypeInv, NEW q \in Processes, FreshAt(q), SameRun(q), claim'[cur[q]][q] = claim[cur[q]][q]
  PROVE  FreshAt(q)'
BY DEF FreshAt, SameRun, Parent

LEMMA FreshOwn ==
  ASSUME TypeInv, NEW p \in Processes, FreshAt(p), RunStep(p)
  PROVE  FreshAt(p)'
<1>1. CASE Start(p)
  <2>1. made'[p] = <<>> /\ pc'[p] = "walk" BY <1>1 DEF Start, At, Goto, TypeInv, RunType, WalkAt
  <2> QED BY <2>1 DEF FreshAt
<1>2. CASE Descend(p) \/ Pin(p)
  <2>1. made' = made /\ pc[p] = "walk" /\ pc'[p] \in {"walk", "withdraw"}
    BY <1>2 DEF Descend, Pin, At, Goto, TypeInv, RunType
  <2> QED BY <2>1 DEF FreshAt
<1>3. CASE Miss(p)
  <2>1. made' = made /\ claim' = claim /\ cur' = cur /\ pc[p] = "walk" /\ pc'[p] = "make"
        /\ claim[cur[p]][p] = NoDir
    BY <1>3 DEF Miss, At, Goto, TypeInv, RunType, names, walk
  <2> QED BY <2>1 DEF FreshAt
<1>4. CASE Make(p)
  <2>1. pc[p] = "make" /\ pc'[p] = "open" /\ cur' = cur
    BY <1>4 DEF Make, At, Goto, TypeInv, RunType, walk
  <2>2. CASE UNCHANGED made
    BY <2>1, <2>2 DEF FreshAt
  <2>3. CASE Register(p)
    <3> SUFFICES ASSUME NEW i \in DOMAIN made'[p], made'[p][i].id = NoDir
                 PROVE  i = Len(made'[p]) /\ made'[p][i].parent = cur[p]
      BY <2>1 DEF FreshAt, Parent
    <3>1. made'[p] \in Seq(Entry) /\ Len(made'[p]) = Len(made[p]) + 1 BY <2>3, Registered
    <3>2. i \in 1 .. Len(made[p]) + 1 BY <3>1
    <3>3. i \notin DOMAIN made[p] BY <2>1, <2>3, Registered DEF FreshAt
    <3>4. i = Len(made[p]) + 1 BY <3>2, <3>3, RoomIs
    <3>5. made'[p][Len(made[p]) + 1] = [parent |-> cur[p], id |-> NoDir, todo |-> TRUE]
      BY <2>3, Registered
    <3> QED BY <3>1, <3>4, <3>5
  <2> QED BY <1>4, <2>2, <2>3 DEF Make
<1>5. CASE Open(p)
  <2>1. pc[p] = "open" /\ pc'[p] = "walk" /\ next[cur[p]] \in Dirs /\ Identify(p, next[cur[p]])
    BY <1>5, CurGoesOn DEF Open, At, Goto, TypeInv, RunType
  <2> SUFFICES ASSUME NEW i \in DOMAIN made'[p] PROVE made'[p][i].id # NoDir
    BY <2>1 DEF FreshAt
  <2>2. i \in DOMAIN made[p] /\ i \in 1 .. Len(made[p]) BY <2>1, Identified, EntryIs
  <2>3. CASE Mine(p) /\ i = Len(made[p])
    BY <2>1, <2>2, <2>3, Identified, DirectoryAssumption
  <2>4. CASE ~(Mine(p) /\ i = Len(made[p]))
    <3>1. made'[p][i].id = made[p][i].id BY <2>1, <2>2, <2>4, Identified
    <3>2. made[p] # <<>> BY <2>2, RoomIs
    <3>3. made[p][i].id = NoDir => i = Len(made[p]) /\ Mine(p) BY <2>1, <2>2, <3>2 DEF FreshAt,
        Mine
    <3> QED BY <2>4, <3>1, <3>3
  <2> QED BY <2>3, <2>4
<1>6. CASE pc'[p] \notin {"walk", "make", "open"}
  BY <1>6 DEF FreshAt
<1>7. CASE UNCHANGED <<pc, made, cur, claim>>
  BY <1>7 DEF FreshAt, Parent
<1> QED
  <2> USE DEF TypeInv, RunType

  <2>1. CASE WalkFails(p)
    BY <2>1, <1>6 DEF WalkFails, At, Short, Fail, Goto
  <2>2. CASE MakeFails(p)
    BY <2>2, <1>6 DEF MakeFails, At, Fail, Goto
  <2>3. CASE OpenFails(p)
    BY <2>3, <1>6 DEF OpenFails, At, Fail, Goto
  <2>4. CASE PinFails(p)
    BY <2>4, <1>6 DEF PinFails, At, Goto, Fail
  <2>5. CASE Stage(p)
    BY <2>5, <1>6 DEF Stage, At, Goto
  <2>6. CASE StageFails(p)
    BY <2>6, <1>6 DEF StageFails, At, Goto, Fail
  <2>7. CASE Commit(p)
    BY <2>7, <1>6 DEF Commit, At, Goto
  <2>8. CASE CommitFails(p)
    BY <2>8, <1>6 DEF CommitFails, At, Goto, Charge, Fail
  <2>9. CASE Withdraw(p)
    BY <2>9, <1>6 DEF Withdraw, At, Goto
  <2>10. CASE Claim(p)
    BY <2>10, <1>6 DEF Claim, Undoing, At, Goto
  <2>11. CASE ClaimNothing(p)
    BY <2>11, <1>6 DEF ClaimNothing, Undoing, At, Goto
  <2>12. CASE ClaimFails(p)
    BY <2>12, <1>6 DEF ClaimFails, Undoing, At
  <2>13. CASE Remove(p)
    BY <2>13, <1>6 DEF Remove, Undoing, At, Goto
  <2>14. CASE RemoveFails(p)
    BY <2>14, <1>6 DEF RemoveFails, Undoing, At, Goto
  <2>15. CASE GiveBack(p)
    BY <2>15, <1>6 DEF GiveBack, Undoing, At, Goto
  <2>16. CASE GiveBackFails(p)
    BY <2>16, <1>6 DEF GiveBackFails, Undoing, At, Goto
  <2>17. CASE Finish(p)
    BY <2>17, <1>6 DEF Finish, At, Goto
  <2>18. CASE Crash(p)
    BY <2>18, <1>6 DEF Crash, Live, Goto
  <2> QED BY <2>1, <2>2, <2>3, <2>4, <2>5, <2>6, <2>7, <2>8, <2>9, <2>10, <2>11, <2>12, <2>13,
      <2>14, <2>15, <2>16, <2>17, <2>18, <1>1, <1>2, <1>3, <1>4, <1>5 DEF RunStep, Prepare,
      Publish, Undo


(* What a record is about stays there when another run takes a step.       *)
LEMMA ChildKept ==
  ASSUME TypeInv, NamesInv, NEW p \in Processes, NEW q \in Processes \ {p}, RunStep(p),
         edits = 0, PlacedAt(p), PlacedAt(q), Live(q), NEW i \in Todo(q)
  PROVE  /\ Child(q, i)' = Child(q, i) /\ Parent(q, i)' = Parent(q, i)
         /\ Holds(q, i)' = Holds(q, i) /\ maker'[Child(q, i)] = q
<1> DEFINE c == Parent(q, i)
<1>1. SameRun(q) BY OtherRuns
<1>2. Todo(q)' = Todo(q) /\ Parent(q, i)' = Parent(q, i) /\ Holds(q, i)' = Holds(q, i)
  BY <1>1 DEF SameRun, Todo, Turn, Parent, Holds
<1>3. c \in Dirs BY EntryIs DEF Parent, Todo
<1>4. claim'[c][q] = claim[c][q] BY <1>3, ClaimsKept
<1>5. Child(q, i) \in Dirs /\ maker[Child(q, i)] = q BY DEF PlacedAt
<1>6. Linked(Child(q, i)) BY <1>3, <1>5 DEF Child, Linked
<1>7. ~Holds(q, i) => next'[c] = next[c]
  <2> SUFFICES ASSUME ~Holds(q, i) PROVE next'[c] = next[c] OBVIOUS
  <2>1. next[c] = Child(q, i) /\ next[c] # NoDir BY <1>5, DirectoryAssumption DEF Child
  <2>2. ASSUME NEW d \in Dirs, Fresh(cur[p], d, p) PROVE next'[c] = next[c]
    BY <1>3, <2>1, <2>2 DEF Fresh, TypeInv, NameType
  <2>3. CASE Claim(p) /\ Aside(Parent(p, Turn(p)), p)
    <3>1. Todo(p) # {} /\ pc[p] = "undo" /\ Live(p) BY <2>3 DEF Claim, Undoing, At, Live
    <3>2. Turn(p) \in Todo(p) /\ ~Holds(p, Turn(p)) BY <3>1, RecordIs DEF Holds
    <3>3. maker[next[Parent(p, Turn(p))]] = p BY <3>1, <3>2 DEF PlacedAt, Child
    <3>4. c # Parent(p, Turn(p)) BY <1>5, <2>1, <3>3
    <3> QED BY <1>3, <2>3, <3>4 DEF Aside, TypeInv, NameType
  <2>4. CASE Back(Parent(p, Turn(p)), p)
    BY <1>3, <2>1, <2>4 DEF Back, TypeInv, NameType
  <2>5. CASE Gone(Parent(p, Turn(p)), p)
    BY <2>5 DEF Gone
  <2> QED BY <2>2, <2>3, <2>4, <2>5, NameShape
<1>8. Child(q, i)' = Child(q, i)
  BY <1>2, <1>4, <1>7 DEF Child
<1>9. maker'[Child(q, i)] = maker[Child(q, i)]
  <2>1. ASSUME NEW d \in Dirs, Fresh(cur[p], d, p) PROVE maker'[Child(q, i)] = maker[Child(q, i)]
    BY <1>5, <1>6, <2>1 DEF Fresh, Allocate, Allocatable, TypeInv, NameType
  <2> QED BY <2>1, NameShape DEF Aside, Back, Gone
<1> QED BY <1>2, <1>5, <1>8, <1>9

LEMMA PlacedKept ==
  ASSUME TypeInv, NamesInv, NEW p \in Processes, NEW q \in Processes \ {p}, RunStep(p),
         PlacedAt(p), PlacedAt(q)
  PROVE  PlacedAt(q)'
<1>1. SameRun(q) /\ edits' = edits BY OtherRuns
<1>2. Todo(q)' = Todo(q) /\ Live(q)' = Live(q) /\ made'[q] = made[q]
  BY <1>1 DEF SameRun, Todo, Live
<1> SUFFICES ASSUME Live(q), edits = 0 PROVE PlacedAt(q)'
  BY <1>1, <1>2 DEF PlacedAt
<1>3. \A i \in Todo(q) :
        /\ Child(q, i)' = Child(q, i) /\ Parent(q, i)' = Parent(q, i)
        /\ Holds(q, i)' = Holds(q, i) /\ maker'[Child(q, i)] = q
  BY ChildKept
<1>4. \A i \in Todo(q) : Parent(q, i) \in Dirs BY EntryIs DEF Parent, Todo
<1>5. \A c \in Dirs : claim'[c][q] = claim[c][q] BY ClaimsKept
<1> QED BY <1>2, <1>3, <1>4, <1>5 DEF PlacedAt

(* What its own step moves is where the record says afterwards.            *)
LEMMA PlacedOwn ==
  ASSUME TypeInv, NamesInv, NEW p \in Processes, FreshAt(p), PlacedAt(p), RunStep(p)
  PROVE  PlacedAt(p)'
<1>1. edits' = edits
  BY DEF RunStep, Prepare, Publish, Undo, Start, Descend, Miss, WalkFails, MakeFails, Make, Open,
         OpenFails, Pin, PinFails, Stage, StageFails, Commit, CommitFails, Withdraw, Claim,
         ClaimNothing, ClaimFails, Remove, RemoveFails, GiveBack, GiveBackFails, Finish, Crash, env
<1> SUFFICES ASSUME Live(p)', edits = 0 PROVE PlacedAt(p)'
  BY <1>1 DEF PlacedAt
<1>2. CASE ~Live(p)
  <2>1. made[p] = <<>> /\ pc[p] = "idle" BY <1>2, PhaseShape DEF TypeInv, WalkAt
  <2>2. Start(p)
    BY <2>1 DEF RunStep, Prepare, Publish, Undo, Undoing, At, Descend, Miss, WalkFails, MakeFails,
                Make, Open, OpenFails, Pin, PinFails, Stage, StageFails, Commit, CommitFails,
                Withdraw, Claim, ClaimNothing, ClaimFails, Remove, RemoveFails, GiveBack,
                GiveBackFails, Finish, Crash, Live
  <2>3. made' = made BY <2>2 DEF Start
  <2>4. Todo(p)' = {} BY <2>1, <2>3 DEF Todo
  <2> QED BY <2>4 DEF PlacedAt
<1> SUFFICES ASSUME Live(p) PROVE PlacedAt(p)' BY <1>2
<1>3. \A i \in Todo(p) :
        /\ Parent(p, i) \in Dirs /\ Child(p, i) \in Dirs /\ i \in DOMAIN made[p] /\ i \in Nat
        /\ maker[Child(p, i)] = p /\ Linked(Child(p, i))
  <2>1. \A i \in Todo(p) : Parent(p, i) \in Dirs /\ i \in DOMAIN made[p] /\ i \in Nat
    BY EntryIs DEF Parent, Todo
  <2> QED BY <2>1 DEF PlacedAt, Linked, Child
<1>4. CASE UNCHANGED made
  <2>1. Todo(p)' = Todo(p) /\ \A i \in Todo(p) : Parent(p, i)' = Parent(p, i)
    BY <1>4 DEF Todo, Parent
  <2>2. CASE UNCHANGED <<next, claim, maker>> /\ ~Claim(p)
    <3>1. pc'[p] \in {"claimed", "return"} <=> pc[p] \in {"claimed", "return"}
      BY <1>4, <2>2, PhaseShape DEF Live, Crash, Goto, TypeInv, RunType
    <3>2. \A i \in Todo(p) : Child(p, i)' = Child(p, i) /\ (Holds(p, i)' <=> Holds(p, i))
      BY <1>4, <2>1, <2>2, <3>1 DEF Holds, Child, Turn
    <3> QED BY <1>4, <2>1, <2>2, <3>2 DEF PlacedAt
  <2>3. CASE Claim(p) /\ Aside(Parent(p, Turn(p)), p)
    <3>0. PICK t \in Todo(p) : t = Turn(p) BY <2>3, RecordIs DEF Claim, Undoing
    <3> DEFINE c == Parent(p, t)
    <3>1. pc[p] = "undo" /\ pc'[p] = "claimed"
      BY <2>3 DEF Claim, Undoing, At, Goto, TypeInv, RunType
    <3>2. Turn(p)' = t BY <1>4, <3>0 DEF Turn, Todo
    <3>3. /\ \A x \in Dirs : next'[x] = IF x = c THEN NoDir ELSE next[x]
          /\ \A x \in Dirs : claim'[x][p] = IF x = c THEN next[c] ELSE claim[x][p]
      BY <2>3, <3>0 DEF Aside, TypeInv, NameType
    <3>4. \A i \in Todo(p) : ~Holds(p, i) /\ (Holds(p, i)' <=> i = t)
      BY <3>1, <3>2 DEF Holds
    <3>5. Child(p, t)' = Child(p, t)
      BY <1>3, <2>1, <3>3, <3>4 DEF Child
    <3>6. ASSUME NEW i \in Todo(p), i # t
          PROVE  Child(p, i)' = Child(p, i) /\ claim'[Parent(p, i)][p] = claim[Parent(p, i)][p]
      <4>1. Parent(p, i) # c BY <3>6 DEF PlacedAt
      <4> QED BY <1>3, <2>1, <3>3, <3>4, <3>6, <4>1 DEF Child
    <3>7. maker' = maker BY <2>3 DEF Aside
    <3> QED BY <1>4, <2>1, <3>4, <3>5, <3>6, <3>7 DEF PlacedAt
  <2>4. ASSUME NEW d \in Dirs, Fresh(cur[p], d, p), Make(p) PROVE FALSE
    <3>1. UNCHANGED next \/ Register(p) BY <2>4 DEF Make
    <3>2. ~UNCHANGED next
      BY <2>4, DirectoryAssumption DEF Fresh, TypeInv, NameType
    <3>3. Len(made'[p]) = Len(made[p]) + 1 BY <3>1, <3>2, Registered
    <3> QED BY <1>4, <3>3, RoomIs
  <2>5. ~Remove(p) /\ ~GiveBack(p)
    <3> SUFFICES ASSUME Remove(p) \/ GiveBack(p) PROVE FALSE OBVIOUS
    <3>1. Todo(p) # {} /\ Drop(p) BY DEF Remove, GiveBack, Undoing
    <3>2. Turn(p) \in Todo(p) /\ Todo(p)' = Todo(p) \ {Turn(p)} BY <3>1, Dropped, RecordIs
    <3> QED BY <2>1, <3>2
  <2>6. Claim(p) => Aside(Parent(p, Turn(p)), p)
    <3> SUFFICES ASSUME Claim(p) PROVE Aside(Parent(p, Turn(p)), p) OBVIOUS
    <3>1. Todo(p) # {} BY DEF Claim, Undoing
    <3>2. Record(p).parent \in Dirs /\ Record(p).parent = Parent(p, Turn(p)) BY <3>1, RecordIs
    <3> QED BY <3>2 DEF Claim, Aside
  <2> QED BY <2>2, <2>3, <2>4, <2>5, <2>6, NameShape
<1>5. CASE Make(p) /\ Register(p)
  <2>0. PICK n \in Nat : n = Len(made[p]) + 1 BY RoomIs
  <2>1. /\ Todo(p)' = Todo(p) \cup {n}
        /\ \A i \in DOMAIN made[p] : made'[p][i] = made[p][i]
        /\ made'[p][n] = [parent |-> cur[p], id |-> NoDir, todo |-> TRUE]
    BY <1>5, <2>0, Registered
  <2>2. pc[p] = "make" /\ pc'[p] = "open" BY <1>5 DEF Make, At, Goto, TypeInv, RunType
  <2>3. \A i \in Todo(p)' : ~Holds(p, i)' BY <2>2 DEF Holds
  <2>4. \A i \in Todo(p) : ~Holds(p, i) BY <2>2 DEF Holds
  <2>5. PICK d \in Dirs : Fresh(cur[p], d, p)
    <3>1. ~UNCHANGED made
      <4>1. Len(made'[p]) = Len(made[p]) + 1 BY <1>5, Registered
      <4> QED BY <4>1, RoomIs
    <3>2. PICK e \in Allocatable : /\ next' = [next EXCEPT ![cur[p]] = e] /\ Allocate(e, p)
                                   /\ next[cur[p]] = NoDir /\ Linked(cur[p])
      BY <1>5, <3>1 DEF Make
    <3>3. e \in Dirs BY DEF Allocatable
    <3>4. UNCHANGED claim BY <1>5 DEF Make
    <3>5. Fresh(cur[p], e, p) BY <3>2, <3>4, CurGoesOn DEF Fresh
    <3> QED BY <3>3, <3>5
  <2>6. /\ \A x \in Dirs : next'[x] = IF x = cur[p] THEN d ELSE next[x]
        /\ claim' = claim /\ next[cur[p]] = NoDir /\ cur[p] \in Dirs
        /\ \A x \in Dirs : maker'[x] = IF x = d THEN p ELSE maker[x]
    BY <2>5 DEF Fresh, Allocate, TypeInv, NameType
  <2>7. ~Linked(d) /\ d # cur[p] /\ \A i \in Todo(p) : d # Parent(p, i)
    <3>1. ~Linked(d) /\ d \notin Held(p) BY <2>5 DEF Fresh, Allocatable
    <3>2. \A i \in Todo(p) : i \in 1 .. Len(made[p]) BY <1>3, RoomIs
    <3> QED BY <3>1, <3>2 DEF Held, Parent
  <2>8. ASSUME NEW i \in Todo(p)
        PROVE  /\ Parent(p, i)' = Parent(p, i) /\ Child(p, i)' = Child(p, i)
               /\ made'[p][i].id = made[p][i].id /\ Parent(p, i) # cur[p]
               /\ maker'[Child(p, i)] = p /\ claim'[Parent(p, i)][p] = NoDir
               /\ Child(p, i) # d
    <3>1. made'[p][i] = made[p][i] BY <1>3, <2>1, <2>8
    <3>2. Parent(p, i)' = Parent(p, i) BY <3>1 DEF Parent
    <3>3. next[Parent(p, i)] = Child(p, i) BY <2>4, <2>8 DEF Child
    <3>4. Parent(p, i) # cur[p] BY <1>3, <2>6, <3>3, <2>8, DirectoryAssumption
    <3>5. i \in Todo(p)' BY <2>1, <2>8
    <3>6. Child(p, i)' = Child(p, i) BY <1>3, <2>3, <2>6, <2>8, <3>2, <3>3, <3>4, <3>5 DEF Child
    <3>7. Child(p, i) # d BY <1>3, <2>7, <2>8
    <3>8. claim[Parent(p, i)][p] = NoDir BY <2>4, <2>8 DEF PlacedAt
    <3> QED BY <1>3, <2>6, <2>8, <3>1, <3>2, <3>4, <3>6, <3>7, <3>8
  <2>9. Parent(p, n)' = cur[p] /\ Child(p, n)' = d /\ made'[p][n].id = NoDir
    <3>1. n \in Todo(p)' BY <2>1
    <3>2. Parent(p, n)' = cur[p] BY <2>1 DEF Parent
    <3> QED BY <2>1, <2>3, <2>6, <3>1, <3>2 DEF Child
  <2>10. claim'[cur[p]][p] = NoDir BY <2>2, <2>6 DEF FreshAt
  <2>11. \A i \in Todo(p) : i < n
    <3>1. \A i \in Todo(p) : i \in 1 .. Len(made[p]) BY <1>3, RoomIs
    <3> QED BY <2>0, <3>1, RoomIs
  <2>12. \A i \in Todo(p)' :
          /\ Child(p, i)' \in Dirs
          /\ maker'[Child(p, i)'] = p
          /\ made'[p][i].id \in {NoDir, Child(p, i)'}
          /\ claim'[Parent(p, i)'][p] = NoDir
    BY <1>3, <2>1, <2>6, <2>8, <2>9, <2>10 DEF PlacedAt
  <2>13. ASSUME NEW i \in Todo(p)', NEW j \in Todo(p)'
         PROVE  /\ Parent(p, i)' = Parent(p, j)' => i = j
                /\ i <= j => Parent(p, i)' # Child(p, j)'
    <3>1. CASE i \in Todo(p) /\ j \in Todo(p) BY <2>8, <3>1 DEF PlacedAt
    <3>2. CASE i = n /\ j \in Todo(p)
      <4>1. ~(i <= j) BY <1>3, <2>11, <3>2, RoomIs
      <4> QED BY <2>8, <2>9, <3>2, <4>1
    <3>3. CASE i \in Todo(p) /\ j = n BY <2>7, <2>8, <2>9, <3>3
    <3>4. CASE i = n /\ j = n BY <2>7, <2>9, <3>4
    <3> QED BY <2>1, <3>1, <3>2, <3>3, <3>4
  <2> QED BY <2>12, <2>13 DEF PlacedAt
<1>6. CASE (Open(p) \/ OpenFails(p)) /\ Identify(p, next[cur[p]]) /\ next[cur[p]] \in Dirs
  <2>1. /\ Todo(p)' = Todo(p) /\ UNCHANGED <<next, claim, maker>>
        /\ \A i \in DOMAIN made[p] :
              /\ made'[p][i].parent = made[p][i].parent
              /\ made'[p][i].id = IF Mine(p) /\ i = Len(made[p]) THEN next[cur[p]]
                                  ELSE made[p][i].id
    BY <1>6, Identified DEF Open, OpenFails, names
  <2>2. pc[p] = "open" /\ pc'[p] \notin {"claimed", "return"}
    BY <1>6 DEF Open, OpenFails, At, Goto, Fail, TypeInv, RunType
  <2>3. \A i \in Todo(p) : ~Holds(p, i) /\ ~Holds(p, i)' BY <2>2 DEF Holds
  <2>4. \A i \in Todo(p) : Parent(p, i)' = Parent(p, i) BY <1>3, <2>1 DEF Parent
  <2>5. \A i \in Todo(p) : Child(p, i)' = Child(p, i) BY <2>1, <2>3, <2>4 DEF Child
  <2>6. ASSUME NEW i \in Todo(p) PROVE made'[p][i].id \in {NoDir, Child(p, i)}
    <3>1. CASE Mine(p) /\ i = Len(made[p])
      <4>1. made[p][i].id = NoDir BY <3>1 DEF Mine
      <4>2. Parent(p, i) = cur[p] BY <1>3, <2>2, <4>1 DEF FreshAt
      <4> QED BY <1>3, <2>1, <2>3, <3>1, <4>2 DEF Child
    <3>2. CASE ~(Mine(p) /\ i = Len(made[p])) BY <1>3, <2>1, <3>2 DEF PlacedAt
    <3> QED BY <3>1, <3>2
  <2> QED BY <2>1, <2>3, <2>4, <2>5, <2>6 DEF PlacedAt
<1>7. CASE /\ ClaimNothing(p) \/ ClaimFails(p) \/ Remove(p) \/ GiveBack(p) \/ GiveBackFails(p)
           /\ Todo(p) # {} /\ Drop(p)
  <2> DEFINE t == Turn(p)  c == Parent(p, t)
  <2>1. /\ Todo(p)' = Todo(p) \ {t}
        /\ \A i \in DOMAIN made[p] :
              made'[p][i].parent = made[p][i].parent /\ made'[p][i].id = made[p][i].id
    BY <1>7, Dropped
  <2>2. pc'[p] = "undo"
    BY <1>7 DEF ClaimNothing, ClaimFails, Remove, GiveBack, GiveBackFails, Undoing, At, Goto,
                TypeInv, RunType
  <2>3. t \in Todo(p) BY <1>7, RecordIs
  <2>4. \A i \in Todo(p)' : ~Holds(p, i) /\ ~Holds(p, i)' /\ i \in Todo(p)
    BY <2>1, <2>2 DEF Holds
  <2>5. \A i \in Todo(p)' : Parent(p, i)' = Parent(p, i) /\ Parent(p, i) # c /\ Parent(p, i) \in Dirs
    BY <1>3, <2>1, <2>3 DEF Parent, PlacedAt
  <2>6. \A x \in Dirs : x # c => next'[x] = next[x] /\ claim'[x][p] = claim[x][p]
    BY <1>7, NameShape, RecordIs DEF ClaimNothing, ClaimFails, GiveBackFails, Remove, GiveBack,
        names,
                    TypeInv, NameType
  <2>7. maker' = maker
    BY <1>7 DEF ClaimNothing, ClaimFails, Remove, GiveBack, GiveBackFails
  <2>8. \A i \in Todo(p)' : /\ Child(p, i)' = Child(p, i) /\ made'[p][i].id = made[p][i].id
                            /\ claim'[Parent(p, i)][p] = claim[Parent(p, i)][p]
    BY <1>3, <2>1, <2>4, <2>5, <2>6 DEF Child
  <2> QED BY <2>4, <2>5, <2>7, <2>8 DEF PlacedAt
<1> QED BY <1>4, <1>5, <1>6, <1>7, MadeShape

-----------------------------------------------------------------------------
(* What a run that fails leaves behind.                                    *)

(* A complaint stays, and how a run ended.                                 *)
LEMMA OutcomeOwn ==
  ASSUME TypeInv, NEW p \in Processes, OutcomeAt(p), RunStep(p)
  PROVE  /\ OutcomeAt(p)' /\ (clean'[p] => clean[p])
         /\ outcome[p] = "none"
         /\ edits' = edits /\ capacity' = capacity
         /\ pc'[p] # "idle"
<1>1. pc[p] # "done" /\ outcome[p] = "none"
  BY PhaseShape DEF OutcomeAt, TypeInv, ReportType
<1>2. edits' = edits /\ capacity' = capacity
  BY DEF RunStep, Prepare, Publish, Undo, Start, Descend, Miss, WalkFails, MakeFails, Make,
      Open, OpenFails, Pin, PinFails, Stage, StageFails, Commit, CommitFails, Withdraw, Claim,
      ClaimNothing, ClaimFails, Remove, RemoveFails, GiveBack, GiveBackFails, Finish, Crash, env
<1>3. clean'[p] => clean[p]
  BY DEF RunStep, Prepare, Publish, Undo, Start, Descend, Miss, WalkFails, MakeFails, Make,
      Open, OpenFails, Pin, PinFails, Stage, StageFails, Commit, CommitFails, Withdraw, Claim,
      ClaimNothing, ClaimFails, Remove, RemoveFails, GiveBack, GiveBackFails, Finish, Crash,
      report, Blame, TypeInv, ReportType
<1>4. pc'[p] # "idle" /\ OutcomeAt(p)'
  <2> USE <1>1 DEF TypeInv, RunType, ReportType, OutcomeAt

  <2>1. CASE Start(p)
    <3>1. outcome'[p] = "none" /\ clean'[p] = clean[p] BY <2>1 DEF Start, report
    <3>2. pc'[p] \in {"walk", "make", "open", "publish", "withdraw", "undo", "claimed", "crashed"}
          /\ (pc'[p] \in {"walk", "make", "open", "publish", "withdraw"} =>
                pc[p] \in {"idle", "walk", "make", "open", "publish"})
      BY <2>1 DEF Start, At, Goto
    <3> QED BY <3>1, <3>2
  <2>2. CASE Descend(p)
    <3>1. outcome'[p] = "none" /\ clean'[p] = clean[p] BY <2>2 DEF Descend, report
    <3>2. pc'[p] \in {"walk", "make", "open", "publish", "withdraw", "undo", "claimed", "crashed"}
          /\ (pc'[p] \in {"walk", "make", "open", "publish", "withdraw"} =>
                pc[p] \in {"idle", "walk", "make", "open", "publish"})
      BY <2>2 DEF Descend, At, Short
    <3> QED BY <3>1, <3>2
  <2>3. CASE Miss(p)
    <3>1. outcome'[p] = "none" /\ clean'[p] = clean[p] BY <2>3 DEF Miss, report
    <3>2. pc'[p] \in {"walk", "make", "open", "publish", "withdraw", "undo", "claimed", "crashed"}
          /\ (pc'[p] \in {"walk", "make", "open", "publish", "withdraw"} =>
                pc[p] \in {"idle", "walk", "make", "open", "publish"})
      BY <2>3 DEF Miss, At, Goto, Short
    <3> QED BY <3>1, <3>2
  <2>4. CASE WalkFails(p)
    <3>1. outcome'[p] = "none" /\ clean'[p] = clean[p] BY <2>4 DEF WalkFails, report
    <3>2. pc'[p] \in {"walk", "make", "open", "publish", "withdraw", "undo", "claimed", "crashed"}
          /\ (pc'[p] \in {"walk", "make", "open", "publish", "withdraw"} =>
                pc[p] \in {"idle", "walk", "make", "open", "publish"})
      BY <2>4 DEF WalkFails, At, Short, Fail, Goto
    <3> QED BY <3>1, <3>2
  <2>5. CASE MakeFails(p)
    <3>1. outcome'[p] = "none" /\ clean'[p] = clean[p] BY <2>5 DEF MakeFails, report
    <3>2. pc'[p] \in {"walk", "make", "open", "publish", "withdraw", "undo", "claimed", "crashed"}
          /\ (pc'[p] \in {"walk", "make", "open", "publish", "withdraw"} =>
                pc[p] \in {"idle", "walk", "make", "open", "publish"})
      BY <2>5 DEF MakeFails, At, Fail, Goto
    <3> QED BY <3>1, <3>2
  <2>6. CASE Make(p)
    <3>1. outcome'[p] = "none" /\ clean'[p] = clean[p] BY <2>6 DEF Make, report
    <3>2. pc'[p] \in {"walk", "make", "open", "publish", "withdraw", "undo", "claimed", "crashed"}
          /\ (pc'[p] \in {"walk", "make", "open", "publish", "withdraw"} =>
                pc[p] \in {"idle", "walk", "make", "open", "publish"})
      BY <2>6 DEF Make, At, Goto
    <3> QED BY <3>1, <3>2
  <2>7. CASE Open(p)
    <3>1. outcome'[p] = "none" /\ clean'[p] = clean[p] BY <2>7 DEF Open, report
    <3>2. pc'[p] \in {"walk", "make", "open", "publish", "withdraw", "undo", "claimed", "crashed"}
          /\ (pc'[p] \in {"walk", "make", "open", "publish", "withdraw"} =>
                pc[p] \in {"idle", "walk", "make", "open", "publish"})
      BY <2>7 DEF Open, At, Goto
    <3> QED BY <3>1, <3>2
  <2>8. CASE OpenFails(p)
    <3>1. outcome'[p] = "none" /\ clean'[p] = clean[p] BY <2>8 DEF OpenFails, report
    <3>2. pc'[p] \in {"walk", "make", "open", "publish", "withdraw", "undo", "claimed", "crashed"}
          /\ (pc'[p] \in {"walk", "make", "open", "publish", "withdraw"} =>
                pc[p] \in {"idle", "walk", "make", "open", "publish"})
      BY <2>8 DEF OpenFails, At, Fail, Goto
    <3> QED BY <3>1, <3>2
  <2>9. CASE Pin(p)
    <3>1. outcome'[p] = "none" /\ clean'[p] = clean[p] BY <2>9 DEF Pin, report
    <3>2. pc'[p] \in {"walk", "make", "open", "publish", "withdraw", "undo", "claimed", "crashed"}
          /\ (pc'[p] \in {"walk", "make", "open", "publish", "withdraw"} =>
                pc[p] \in {"idle", "walk", "make", "open", "publish"})
      BY <2>9 DEF Pin, At, Goto
    <3> QED BY <3>1, <3>2
  <2>10. CASE PinFails(p)
    <3>1. pc'[p] = "undo" BY <2>10 DEF PinFails, At, Goto, Fail, Blame
    <3>2. outcome'[p] = "none" BY <2>10 DEF PinFails, report
    <3> QED BY <3>1, <3>2
  <2>11. CASE Stage(p)
    <3>1. outcome'[p] = "none" /\ clean'[p] = clean[p] BY <2>11 DEF Stage, report
    <3>2. pc'[p] \in {"walk", "make", "open", "publish", "withdraw", "undo", "claimed", "crashed"}
          /\ (pc'[p] \in {"walk", "make", "open", "publish", "withdraw"} =>
                pc[p] \in {"idle", "walk", "make", "open", "publish"})
      BY <2>11 DEF Stage, At, Goto
    <3> QED BY <3>1, <3>2
  <2>12. CASE StageFails(p)
    <3>1. outcome'[p] = "none" /\ clean'[p] = clean[p] BY <2>12 DEF StageFails, report
    <3>2. pc'[p] \in {"walk", "make", "open", "publish", "withdraw", "undo", "claimed", "crashed"}
          /\ (pc'[p] \in {"walk", "make", "open", "publish", "withdraw"} =>
                pc[p] \in {"idle", "walk", "make", "open", "publish"})
      BY <2>12 DEF StageFails, At, Goto, Fail
    <3> QED BY <3>1, <3>2
  <2>13. CASE Commit(p)
    <3>1. pc'[p] = "done" BY <2>13 DEF Commit, At, Goto
    <3>2. outcome'[p] = "committed" BY <2>13 DEF Commit, report
    <3> QED BY <3>1, <3>2
  <2>14. CASE CommitFails(p)
    <3>1. outcome'[p] = "none" /\ clean'[p] = clean[p] BY <2>14 DEF CommitFails, report
    <3>2. pc'[p] \in {"walk", "make", "open", "publish", "withdraw", "undo", "claimed", "crashed"}
          /\ (pc'[p] \in {"walk", "make", "open", "publish", "withdraw"} =>
                pc[p] \in {"idle", "walk", "make", "open", "publish"})
      BY <2>14 DEF CommitFails, At, Goto, Charge, Fail
    <3> QED BY <3>1, <3>2
  <2>15. CASE Withdraw(p)
    <3>1. pc'[p] = "undo" BY <2>15 DEF Withdraw, At, Goto, Blame
    <3>2. outcome'[p] = "none" BY <2>15 DEF Withdraw, report
    <3> QED BY <3>1, <3>2
  <2>16. CASE Claim(p)
    <3>1. outcome'[p] = "none" /\ clean'[p] = clean[p] BY <2>16 DEF Claim, report
    <3>2. pc'[p] \in {"walk", "make", "open", "publish", "withdraw", "undo", "claimed", "crashed"}
          /\ (pc'[p] \in {"walk", "make", "open", "publish", "withdraw"} =>
                pc[p] \in {"idle", "walk", "make", "open", "publish"})
      BY <2>16 DEF Claim, Undoing, At, Goto
    <3> QED BY <3>1, <3>2
  <2>17. CASE ClaimNothing(p)
    <3>1. outcome'[p] = "none" /\ clean'[p] = clean[p] BY <2>17 DEF ClaimNothing, report
    <3>2. pc'[p] \in {"walk", "make", "open", "publish", "withdraw", "undo", "claimed", "crashed"}
          /\ (pc'[p] \in {"walk", "make", "open", "publish", "withdraw"} =>
                pc[p] \in {"idle", "walk", "make", "open", "publish"})
      BY <2>17 DEF ClaimNothing, Undoing, At, Goto
    <3> QED BY <3>1, <3>2
  <2>18. CASE ClaimFails(p)
    <3>1. pc'[p] = "undo" BY <2>18 DEF ClaimFails, Undoing, At, Blame
    <3>2. outcome'[p] = "none" BY <2>18 DEF ClaimFails, report
    <3> QED BY <3>1, <3>2
  <2>19. CASE Remove(p)
    <3>1. outcome'[p] = "none" /\ clean'[p] = clean[p] BY <2>19 DEF Remove, report
    <3>2. pc'[p] \in {"walk", "make", "open", "publish", "withdraw", "undo", "claimed", "crashed"}
          /\ (pc'[p] \in {"walk", "make", "open", "publish", "withdraw"} =>
                pc[p] \in {"idle", "walk", "make", "open", "publish"})
      BY <2>19 DEF Remove, Undoing, At, Goto
    <3> QED BY <3>1, <3>2
  <2>20. CASE RemoveFails(p)
    <3>1. pc'[p] = "return" BY <2>20 DEF RemoveFails, Undoing, At, Goto, Blame
    <3>2. outcome'[p] = "none" BY <2>20 DEF RemoveFails, report
    <3>3. clean'[p] = FALSE BY <2>20 DEF RemoveFails, Blame
    <3> QED BY <3>1, <3>2, <3>3
  <2>21. CASE GiveBack(p)
    <3>1. outcome'[p] = "none" /\ clean'[p] = clean[p] BY <2>21 DEF GiveBack, report
    <3>2. pc'[p] \in {"walk", "make", "open", "publish", "withdraw", "undo", "claimed", "crashed"}
          /\ (pc'[p] \in {"walk", "make", "open", "publish", "withdraw"} =>
                pc[p] \in {"idle", "walk", "make", "open", "publish"})
      BY <2>21 DEF GiveBack, Undoing, At, Goto
    <3> QED BY <3>1, <3>2
  <2>22. CASE GiveBackFails(p)
    <3>1. outcome'[p] = "none" /\ clean'[p] = clean[p] BY <2>22 DEF GiveBackFails, report
    <3>2. pc'[p] \in {"walk", "make", "open", "publish", "withdraw", "undo", "claimed", "crashed"}
          /\ (pc'[p] \in {"walk", "make", "open", "publish", "withdraw"} =>
                pc[p] \in {"idle", "walk", "make", "open", "publish"})
      BY <2>22 DEF GiveBackFails, Undoing, At, Goto
    <3> QED BY <3>1, <3>2
  <2>23. CASE Finish(p)
    <3>1. pc'[p] = "done" BY <2>23 DEF Finish, At, Goto
    <3>2. outcome'[p] = "failed" BY <2>23 DEF Finish, report
    <3>3. Todo(p)' = {} BY <2>23 DEF Finish, Todo
    <3> QED BY <3>1, <3>2, <3>3
  <2>24. CASE Crash(p)
    <3>1. outcome'[p] = "none" /\ clean'[p] = clean[p] BY <2>24 DEF Crash, report
    <3>2. pc'[p] \in {"walk", "make", "open", "publish", "withdraw", "undo", "claimed", "crashed"}
          /\ (pc'[p] \in {"walk", "make", "open", "publish", "withdraw"} =>
                pc[p] \in {"idle", "walk", "make", "open", "publish"})
      BY <2>24 DEF Crash, Live, Goto
    <3> QED BY <3>1, <3>2
  <2> QED BY <2>1, <2>2, <2>3, <2>4, <2>5, <2>6, <2>7, <2>8, <2>9, <2>10, <2>11, <2>12, <2>13,
      <2>14, <2>15, <2>16, <2>17, <2>18, <2>19, <2>20, <2>21, <2>22, <2>23, <2>24 DEF RunStep,
      Prepare, Publish, Undo
<1> QED BY <1>1, <1>2, <1>3, <1>4

LEMMA OutcomeKept ==
  ASSUME NEW q \in Processes, OutcomeAt(q), SameRun(q)
  PROVE  OutcomeAt(q)'
BY DEF OutcomeAt, SameRun, Todo

(* A run that is alone after its own step was alone before it, and none is *)
(* alone after the step of another.                                        *)
LEMMA AloneOwn ==
  ASSUME TypeInv, NEW p \in Processes, RunStep(p), Alone(p)'
  PROVE  Alone(p)
BY OtherRuns DEF Alone, At, SameRun

LEMMA AloneOther ==
  ASSUME TypeInv, NEW p \in Processes, NEW q \in Processes \ {p}, RunStep(p)
  PROVE  ~Alone(q)'
<1>1. PICK r \in Processes : r = q OBVIOUS
<1>2. pc'[p] # "idle" BY OtherRuns
<1> QED BY <1>2 DEF Alone, At

(* Who has nothing to do has ended, crashed or not begun.                  *)
LEMMA TodoIsLive ==
  ASSUME TypeInv, NEW q \in Processes, OutcomeAt(q), pc[q] # "crashed", outcome[q] # "committed",
         NEW i \in Todo(q)
  PROVE  Live(q)
<1>1. pc[q] # "idle" BY DEF TypeInv, WalkAt, Todo
<1>2. pc[q] # "done" BY DEF OutcomeAt, TypeInv, ReportType
<1> QED BY <1>1, <1>2 DEF Live

LEMMA RecordedKept ==
  ASSUME TypeInv, NamesInv, NEW p \in Processes, NEW q \in Processes \ {p}, RunStep(p),
         PlacedAt(p), PlacedAt(q), OutcomeAt(q), RecordedAt(q)
  PROVE  RecordedAt(q)'
<1>1. SameRun(q) /\ edits' = edits /\ ~Alone(q)' BY OtherRuns, AloneOther
<1> SUFFICES ASSUME Accountable(q)', NEW d \in Dirs, maker'[d] = q, Linked(d)'
             PROVE  \E i \in Todo(q)' : Child(q, i)' = d
  BY DEF RecordedAt
<1>2. edits = 0 /\ Accountable(q) BY <1>1 DEF Accountable, SameRun
<1>3. maker[d] = q /\ Linked(d)
  <2>1. CASE UNCHANGED <<next, claim, maker>> BY <2>1 DEF Linked
  <2>2. ASSUME NEW e \in Dirs, Fresh(cur[p], e, p) PROVE maker[d] = q /\ Linked(d)
    <3>1. \A x \in Dirs : maker'[x] = IF x = e THEN p ELSE maker[x]
      BY <2>2 DEF Fresh, Allocate, TypeInv, NameType
    <3> QED BY <2>2, <3>1, FreshLinks
  <2>3. ASSUME NEW c, Aside(c, p) PROVE maker[d] = q /\ Linked(d)
    BY <2>3, AsideLinks DEF Aside
  <2>4. ASSUME NEW c, Back(c, p) PROVE maker[d] = q /\ Linked(d)
    BY <2>4, BackLinks DEF Back
  <2>5. ASSUME NEW c, Gone(c, p) PROVE maker[d] = q /\ Linked(d)
    BY <2>5, GoneLinks DEF Gone, NamesInv
  <2> QED BY <2>1, <2>2, <2>3, <2>4, <2>5, NameShape
<1>4. PICK i \in Todo(q) : Child(q, i) = d BY <1>2, <1>3 DEF RecordedAt
<1>5. Live(q) BY <1>2, TodoIsLive DEF Accountable
<1>6. Child(q, i)' = Child(q, i) BY <1>2, <1>5, ChildKept
<1>7. i \in Todo(q)' BY <1>1 DEF SameRun, Todo
<1> QED BY <1>4, <1>6, <1>7

(* A change by another actor takes away no directory of a run that is left,*)
(* and adds none.                                                          *)
LEMMA RecordedEdit ==
  ASSUME TypeInv, NamesInv, NEW q \in Processes, Edit, RecordedAt(q)
  PROVE  RecordedAt(q)'
<1>1. SameRun(q) /\ claim' = claim /\ edits' # 0 BY EditFrame
<1>2. pc' = pc BY EditFrame
<1> SUFFICES ASSUME Accountable(q)', NEW d \in Dirs, maker'[d] = q, Linked(d)'
             PROVE  \E i \in Todo(q)' : Child(q, i)' = d
  BY DEF RecordedAt
<1>3. Accountable(q) BY <1>1, <1>2 DEF Accountable, SameRun, Alone, At
<1>4. Todo(q)' = Todo(q) /\ \A i \in Todo(q) : Parent(q, i)' = Parent(q, i) /\ (Holds(q, i)' <=> Holds(q, i))
  BY <1>1 DEF SameRun, Todo, Parent, Holds, Turn
<1>5. \A i \in Todo(q) : Parent(q, i) \in Dirs BY EntryIs DEF Parent, Todo
<1>6. ASSUME maker[d] = q, Linked(d), \A c \in Dirs : next[c] = d => next'[c] = d
      PROVE  \E i \in Todo(q)' : Child(q, i)' = d
  <2>1. PICK i \in Todo(q) : Child(q, i) = d BY <1>3, <1>6 DEF RecordedAt
  <2>2. Child(q, i)' = d BY <1>1, <1>4, <1>5, <1>6, <2>1 DEF Child
  <2> QED BY <1>4, <2>2
<1>7. ASSUME NEW c \in Dirs, NEW e \in Dirs, Fresh(c, e, Somebody)
      PROVE  maker[d] = q /\ Linked(d) /\ \A x \in Dirs : next[x] = d => next'[x] = d
  <2>1. \A x \in Dirs : maker'[x] = IF x = e THEN Somebody ELSE maker[x]
    BY <1>7 DEF Fresh, Allocate, TypeInv, NameType
  <2>2. d # e BY <2>1, DirectoryAssumption
  <2>3. \A x \in Dirs : next[x] = d => next'[x] = d
    BY <1>7, DirectoryAssumption DEF Fresh, TypeInv, NameType
  <2> QED BY <1>7, <2>1, <2>2, <2>3, FreshLinks
<1>8. ASSUME NEW c \in Dirs, Taken(c)
      PROVE  maker[d] = q /\ Linked(d) /\ \A x \in Dirs : next[x] = d => next'[x] = d
  <2>1. d # next[c] /\ Linked(d) BY <1>8, TakenLinks DEF NamesInv
  <2> QED BY <1>8, <2>1 DEF Taken, TypeInv, NameType
<1>9. CASE UNCHANGED <<next, claim, maker>>
  BY <1>6, <1>9 DEF Linked
<1> QED BY <1>6, <1>7, <1>8, <1>9, EditShape

LEMMA RecordedOwn ==
  ASSUME TypeInv, NamesInv, NEW p \in Processes, OutcomeAt(p), RecordedAt(p), RunStep(p)
  PROVE  RecordedAt(p)'
<1> SUFFICES ASSUME Accountable(p)', NEW d \in Dirs, maker'[d] = p, Linked(d)'
             PROVE  \E i \in Todo(p)' : Child(p, i)' = d
  BY DEF RecordedAt
<1>1. Accountable(p) /\ OutcomeAt(p)' /\ clean'[p]
  BY OutcomeOwn, PhaseShape, AloneOwn DEF Accountable
<1>2. pc[p] # "return" /\ pc'[p] # "return" BY <1>1 DEF OutcomeAt, Accountable
<1>3. \A i \in Todo(p) : Parent(p, i) \in Dirs /\ i \in DOMAIN made[p] BY EntryIs DEF Parent, Todo
<1>4. CASE UNCHANGED <<next, claim, maker>>
  <2>1. PICK j \in Todo(p) : Child(p, j) = d BY <1>1, <1>4 DEF RecordedAt, Linked
  <2>2. CASE UNCHANGED made /\ ~Claim(p)
    <3>1. pc'[p] \in {"claimed", "return"} <=> pc[p] \in {"claimed", "return"}
      <4>1. ~Crash(p)
        BY <1>1 DEF Crash, Goto, TypeInv, RunType, Accountable
      <4> QED BY <1>2, <2>2, <4>1, PhaseShape
    <3>2. Child(p, j)' = Child(p, j) /\ j \in Todo(p)'
      BY <1>4, <2>2, <3>1 DEF Holds, Child, Turn, Todo, Parent
    <3> QED BY <2>1, <3>2
  <2>3. CASE (Open(p) \/ OpenFails(p)) /\ Identify(p, next[cur[p]]) /\ next[cur[p]] \in Dirs
    <3>1. Todo(p)' = Todo(p) /\ Parent(p, j)' = Parent(p, j)
      BY <1>3, <2>3, Identified DEF Parent
    <3>2. ~Holds(p, j) /\ ~Holds(p, j)'
      BY <2>3 DEF Holds, Open, OpenFails, At, Goto, Fail, TypeInv, RunType
    <3> QED BY <1>4, <2>1, <3>1, <3>2 DEF Child
  <2>4. CASE ClaimNothing(p)
    <3>1. Todo(p) # {} /\ Drop(p) /\ pc[p] = "undo" /\ pc'[p] = "undo"
          /\ next[Record(p).parent] = NoDir
      BY <2>4 DEF ClaimNothing, Undoing, At
    <3>2. j # Turn(p)
      <4>1. next[Parent(p, j)] = d BY <2>1, <3>1 DEF Child, Holds
      <4> QED BY <3>1, <4>1, RecordIs, DirectoryAssumption
    <3>3. j \in Todo(p)' /\ Parent(p, j)' = Parent(p, j) BY <1>3, <3>1, <3>2, Dropped DEF Parent
    <3>4. ~Holds(p, j) /\ ~Holds(p, j)' BY <3>1 DEF Holds
    <3> QED BY <1>4, <2>1, <3>3, <3>4 DEF Child
  <2>5. ~ClaimFails(p)
    BY <1>1 DEF ClaimFails, Blame, TypeInv, ReportType
  <2>6. ~GiveBack(p) /\ ~GiveBackFails(p)
    BY <1>2 DEF GiveBack, GiveBackFails, Undoing, At
  <2>7. ~Make(p) \/ ~Register(p)
    <3> SUFFICES ASSUME Make(p), Register(p) PROVE FALSE OBVIOUS
    <3>1. ~UNCHANGED made
      <4>1. Len(made'[p]) = Len(made[p]) + 1 BY Registered
      <4> QED BY <4>1, RoomIs
    <3>2. \E e \in Dirs : next' = [next EXCEPT ![cur[p]] = e] /\ next[cur[p]] = NoDir
      BY <3>1 DEF Make, Allocatable
    <3> QED BY <1>4, <3>2, CurGoesOn, DirectoryAssumption DEF TypeInv, NameType
  <2>8. Claim(p) => FALSE
    <3> SUFFICES ASSUME Claim(p) PROVE FALSE OBVIOUS
    <3>1. Record(p).parent \in Dirs BY RecordIs DEF Claim, Undoing
    <3> QED BY <1>4, <3>1 DEF Claim, TypeInv, NameType
  <2>9. CASE Remove(p) /\ Todo(p) # {} /\ Drop(p)
    <3>1. pc[p] = "claimed" /\ pc'[p] = "undo" /\ claim' = [claim EXCEPT ![Record(p).parent][p] = NoDir]
      BY <2>9 DEF Remove, Undoing, At, Goto, TypeInv, RunType
    <3>2. claim[Parent(p, Turn(p))][p] = NoDir
      BY <1>4, <2>9, <3>1, RecordIs DEF TypeInv, NameType
    <3>3. j # Turn(p) BY <2>1, <3>1, <3>2, DirectoryAssumption DEF Child, Holds
    <3>4. j \in Todo(p)' /\ Parent(p, j)' = Parent(p, j) BY <1>3, <2>9, <3>3, Dropped DEF Parent
    <3>5. ~Holds(p, j) /\ ~Holds(p, j)' BY <3>1, <3>3 DEF Holds
    <3> QED BY <1>4, <2>1, <3>4, <3>5 DEF Child
  <2> QED BY <2>2, <2>3, <2>4, <2>5, <2>6, <2>7, <2>8, <2>9, MadeShape
<1>5. ASSUME NEW e \in Dirs, Fresh(cur[p], e, p), Make(p)
      PROVE  \E i \in Todo(p)' : Child(p, i)' = d
  <2>1. Register(p)
    <3>1. UNCHANGED next \/ Register(p) BY <1>5 DEF Make
    <3>2. ~UNCHANGED next BY <1>5, DirectoryAssumption DEF Fresh, TypeInv, NameType
    <3> QED BY <3>1, <3>2
  <2>2. PICK n \in Nat : n = Len(made[p]) + 1 BY RoomIs
  <2>3. /\ Todo(p)' = Todo(p) \cup {n}
        /\ \A i \in DOMAIN made[p] : made'[p][i] = made[p][i]
        /\ made'[p][n] = [parent |-> cur[p], id |-> NoDir, todo |-> TRUE]
    BY <2>1, <2>2, Registered
  <2>4. pc[p] = "make" /\ pc'[p] = "open" BY <1>5 DEF Make, At, Goto, TypeInv, RunType
  <2>5. \A i : ~Holds(p, i) /\ ~Holds(p, i)' BY <2>4 DEF Holds
  <2>6. /\ \A x \in Dirs : next'[x] = IF x = cur[p] THEN e ELSE next[x]
        /\ next[cur[p]] = NoDir /\ cur[p] \in Dirs
        /\ \A x \in Dirs : maker'[x] = IF x = e THEN p ELSE maker[x]
    BY <1>5 DEF Fresh, Allocate, TypeInv, NameType
  <2>7. CASE d = e
    <3>1. Child(p, n)' = e /\ n \in Todo(p)' BY <2>3, <2>5, <2>6 DEF Child, Parent
    <3> QED BY <2>7, <3>1
  <2>8. CASE d # e
    <3>1. maker[d] = p /\ Linked(d) BY <1>5, <2>6, <2>8, FreshLinks
    <3>2. PICK i \in Todo(p) : Child(p, i) = d BY <1>1, <3>1 DEF RecordedAt
    <3>3. next[Parent(p, i)] = d /\ Parent(p, i) # cur[p]
      BY <2>5, <2>6, <3>2, DirectoryAssumption DEF Child
    <3>4. Parent(p, i)' = Parent(p, i) /\ i \in Todo(p)' BY <1>3, <2>3 DEF Parent
    <3>5. Child(p, i)' = d BY <1>3, <2>5, <2>6, <3>3, <3>4 DEF Child
    <3> QED BY <3>4, <3>5
  <2> QED BY <2>7, <2>8
<1>6. CASE Claim(p) /\ Aside(Parent(p, Turn(p)), p)
  <2>1. PICK t \in Todo(p) : t = Turn(p) BY <1>6, RecordIs DEF Claim, Undoing
  <2>2. pc[p] = "undo" /\ pc'[p] = "claimed" /\ made' = made
    BY <1>6 DEF Claim, Undoing, At, Goto, TypeInv, RunType
  <2>3. Todo(p)' = Todo(p) /\ Turn(p)' = t /\ \A i \in Todo(p) : Parent(p, i)' = Parent(p, i)
    BY <2>1, <2>2 DEF Turn, Todo, Parent
  <2>4. maker[d] = p /\ Linked(d) BY <1>6, AsideLinks DEF Aside
  <2>5. PICK i \in Todo(p) : Child(p, i) = d BY <1>1, <2>4 DEF RecordedAt
  <2>6. next[Parent(p, i)] = d BY <2>2, <2>5 DEF Child, Holds
  <2>7. /\ \A x \in Dirs : next'[x] = IF x = Parent(p, t) THEN NoDir ELSE next[x]
        /\ claim'[Parent(p, t)][p] = next[Parent(p, t)]
    BY <1>6, <2>1 DEF Aside, TypeInv, NameType
  <2>8. CASE Parent(p, i) = Parent(p, t)
    <3>1. Holds(p, t)' BY <2>2, <2>3 DEF Holds
    <3>2. Child(p, t)' = d BY <2>3, <2>6, <2>7, <2>8, <3>1 DEF Child
    <3> QED BY <2>3, <3>2
  <2>9. CASE Parent(p, i) # Parent(p, t)
    <3>1. ~Holds(p, i)' BY <2>3, <2>9 DEF Holds
    <3>2. Child(p, i)' = d BY <1>3, <2>3, <2>6, <2>7, <2>9, <3>1 DEF Child
    <3> QED BY <2>3, <3>2
  <2> QED BY <2>8, <2>9
<1>7. CASE Remove(p) /\ Gone(Parent(p, Turn(p)), p)
  <2>1. Todo(p) # {} /\ Drop(p) /\ pc[p] = "claimed" /\ pc'[p] = "undo" /\ next' = next
    BY <1>7 DEF Remove, Undoing, At, Goto, TypeInv, RunType
  <2>2. maker[d] = p /\ Linked(d) /\ d # claim[Parent(p, Turn(p))][p]
    <3>1. Linked(d) /\ d # claim[Parent(p, Turn(p))][p] BY <1>7, GoneLinks DEF NamesInv
    <3>2. maker[d] = p BY <1>7 DEF Gone
    <3> QED BY <3>1, <3>2
  <2>3. PICK i \in Todo(p) : Child(p, i) = d BY <1>1, <2>2 DEF RecordedAt
  <2>4. i # Turn(p) BY <2>1, <2>2, <2>3 DEF Child, Holds
  <2>5. i \in Todo(p)' /\ Parent(p, i)' = Parent(p, i) BY <1>3, <2>1, <2>4, Dropped DEF Parent
  <2>6. ~Holds(p, i) /\ ~Holds(p, i)' BY <2>1, <2>4 DEF Holds
  <2> QED BY <2>1, <2>3, <2>5, <2>6 DEF Child
<1>8. ~GiveBack(p)
  BY <1>2 DEF GiveBack, Undoing, At
<1> QED BY <1>4, <1>5, <1>6, <1>7, <1>8, NameShape


(* Of a run that is alone only its own steps count.                        *)
LEMMA OwnKept ==
  ASSUME TypeInv, NEW q \in Processes, Edit \/ \E p \in Processes \ {q} : RunStep(p)
  PROVE  OwnAt(q)' /\ CleanAt(q)' /\ AsideAt(q)'
<1>1. CASE Edit
  BY <1>1, EditFrame DEF OwnAt, CleanAt, Able, AsideAt
<1>2. ASSUME NEW p \in Processes \ {q}, RunStep(p) PROVE ~Alone(q)'
  BY <1>2, AloneOther
<1> QED BY <1>1, <1>2 DEF OwnAt, CleanAt, Able, AsideAt

LEMMA OwnOwn ==
  ASSUME TypeInv, NamesInv, NEW p \in Processes, OutcomeAt(p), OwnAt(p), RunStep(p)
  PROVE  OwnAt(p)'
<1> SUFFICES ASSUME Alone(p)', edits' = 0 PROVE OwnAt(p)'
  BY DEF OwnAt
<1>1. Alone(p) /\ edits = 0 BY AloneOwn, OutcomeOwn
<1>2. \A d \in Dirs : stuff'[d] \subseteq {p}
  <2>1. \A d \in Dirs : stuff[d] \subseteq {p} BY <1>1 DEF OwnAt
  <2> QED BY <2>1, StuffShape
<1> SUFFICES ASSUME Accountable(p)', NEW d \in Dirs, maker'[d] = p
             PROVE  /\ next'[d] # NoDir => maker'[next'[d]] = p
                    /\ \A q \in Processes : claim'[d][q] # NoDir =>
                         q = p /\ \E i \in Todo(p)' : Holds(p, i)' /\ d = Parent(p, i)'
  BY <1>2 DEF OwnAt
<1>3. Accountable(p) /\ OutcomeAt(p)' /\ clean'[p]
  BY OutcomeOwn, PhaseShape, AloneOwn DEF Accountable
<1>4. pc[p] # "return" /\ pc'[p] # "return" BY <1>3 DEF OutcomeAt, Accountable
<1>5. \A x \in Dirs : maker[x] = p =>
         /\ next[x] # NoDir => maker[next[x]] = p
         /\ \A q \in Processes : claim[x][q] # NoDir =>
              q = p /\ \E i \in Todo(p) : Holds(p, i) /\ x = Parent(p, i)
  BY <1>1, <1>3 DEF OwnAt
<1>6. ASSUME pc[p] # "claimed" PROVE \A i : ~Holds(p, i) BY <1>4, <1>6 DEF Holds
<1>7. CASE UNCHANGED <<next, claim, maker>>
  <2>1. CASE pc[p] # "claimed"
    BY <1>5, <1>6, <1>7, <2>1
  <2>2. CASE pc[p] = "claimed"
    <3>1. ~RemoveFails(p) /\ ~Crash(p)
      BY <1>4, <1>3 DEF RemoveFails, Crash, Goto, TypeInv, RunType, Accountable
    <3>2. ~UNCHANGED made BY <2>2, <3>1, PhaseShape
    <3>3. Todo(p) # {} /\ pc[p] = "claimed" /\ Remove(p)
      <4>1. ~Make(p) /\ ~Open(p) /\ ~OpenFails(p) /\ ~ClaimNothing(p) /\ ~ClaimFails(p)
            /\ ~GiveBack(p) /\ ~GiveBackFails(p)
        BY <2>2 DEF Make, Open, OpenFails, ClaimNothing, ClaimFails, GiveBack, GiveBackFails,
                    Undoing, At
      <4> QED BY <2>2, <3>2, <4>1, MadeShape
    <3>4. claim[Parent(p, Turn(p))][p] = NoDir
      BY <1>7, <3>3, RecordIs DEF Remove, TypeInv, NameType
    <3>5. \A q \in Processes : claim[d][q] # NoDir => FALSE
      BY <1>5, <1>7, <3>4 DEF Holds
    <3> QED BY <1>5, <1>7, <3>5
  <2> QED BY <2>1, <2>2
<1>8. ASSUME NEW e \in Dirs, Fresh(cur[p], e, p), Make(p)
      PROVE  /\ next'[d] # NoDir => maker'[next'[d]] = p
             /\ \A q \in Processes : claim'[d][q] = NoDir
  <2>1. /\ \A x \in Dirs : next'[x] = IF x = cur[p] THEN e ELSE next[x]
        /\ claim' = claim /\ Linked(cur[p]) /\ ~Linked(e) /\ cur[p] \in Dirs
        /\ \A x \in Dirs : maker'[x] = IF x = e THEN p ELSE maker[x]
    BY <1>8 DEF Fresh, Allocate, Allocatable, TypeInv, NameType
  <2>2. Empty(e) /\ e # cur[p] BY <2>1 DEF NamesInv, UnlinkedIsEmpty
  <2>3. CASE d = e BY <2>1, <2>2, <2>3 DEF Empty
  <2>4. CASE d # e
    <3>1. maker[d] = p BY <2>1, <2>4
    <3>2. \A q \in Processes : claim[d][q] = NoDir
      <4>1. pc[p] # "claimed" BY <1>8 DEF Make, At
      <4> QED BY <1>5, <1>6, <3>1, <4>1
    <3>3. CASE d = cur[p] BY <2>1, <3>2, <3>3
    <3>4. CASE d # cur[p]
      <4>1. next[d] # NoDir => next[d] \in Dirs /\ maker[next[d]] = p
        BY <1>5, <3>1 DEF TypeInv, NameType
      <4> QED BY <2>1, <3>2, <3>4, <4>1
    <3> QED BY <3>3, <3>4
  <2> QED BY <2>3, <2>4
<1>9. CASE Claim(p) /\ Aside(Parent(p, Turn(p)), p)
  <2>1. PICK t \in Todo(p) : t = Turn(p) BY <1>9, RecordIs DEF Claim, Undoing
  <2>2. pc[p] = "undo" /\ pc'[p] = "claimed" /\ made' = made
    BY <1>9 DEF Claim, Undoing, At, Goto, TypeInv, RunType
  <2>3. t \in Todo(p)' /\ Parent(p, t)' = Parent(p, t) /\ Holds(p, t)'
    BY <2>1, <2>2 DEF Turn, Todo, Parent, Holds
  <2>4. /\ \A x \in Dirs : next'[x] = IF x = Parent(p, t) THEN NoDir ELSE next[x]
        /\ \A x \in Dirs, q \in Processes :
             claim'[x][q] = IF x = Parent(p, t) /\ q = p THEN next[x] ELSE claim[x][q]
        /\ maker' = maker
    BY <1>9, <2>1 DEF Aside, TypeInv, NameType
  <2>5. \A q \in Processes : claim[d][q] = NoDir BY <1>5, <1>6, <2>2, <2>4
  <2> QED BY <1>5, <2>3, <2>4, <2>5
<1>10. CASE Remove(p) /\ Gone(Parent(p, Turn(p)), p)
  <2>1. \A x \in Dirs, q \in Processes :
          claim'[x][q] = IF x = Parent(p, Turn(p)) /\ q = p THEN NoDir ELSE claim[x][q]
    BY <1>10 DEF Gone, TypeInv, NameType
  <2>2. UNCHANGED <<next, maker>> BY <1>10 DEF Gone
  <2>3. \A q \in Processes : claim'[d][q] = NoDir BY <1>5, <2>1, <2>2 DEF Holds
  <2> QED BY <1>5, <2>2, <2>3
<1>11. ~GiveBack(p)
  BY <1>4 DEF GiveBack, Undoing, At
<1> QED BY <1>7, <1>8, <1>9, <1>10, <1>11, NameShape

(* What may keep a run from undoing is decided before it begins to.        *)
LEMMA AbleOwn ==
  ASSUME TypeInv, NEW p \in Processes, RunStep(p), pc[p] \in {"undo", "claimed", "return"}, Able(p)'
  PROVE  Able(p)
<1> USE DEF TypeInv, ReportType
<1>1. /\ UNCHANGED <<stuff, root, rest>> /\ (slip => slip')
      /\ \/ UNCHANGED made
         \/ Todo(p) # {} /\ Drop(p)
  BY DEF RunStep, Prepare, Publish, Undo, Start, Descend, Miss, WalkFails, MakeFails, Make, Open,
         OpenFails, Pin, PinFails, Stage, StageFails, Commit, CommitFails, Withdraw, Undoing, At,
         Claim, ClaimNothing, ClaimFails, Remove, RemoveFails, GiveBack, GiveBackFails, Finish,
         Crash, walk, report, Failing, Slip
<1>2. /\ DOMAIN made'[p] = DOMAIN made[p] /\ Len(made'[p]) = Len(made[p])
      /\ \A i \in DOMAIN made[p] : made'[p][i].id = made[p][i].id
  BY <1>1, Dropped
<1>3. Alone(p) /\ edits = edits' /\ capacity' = capacity
  <2>1. Alone(p) BY AloneOwn DEF Able
  <2>2. edits' = edits /\ capacity' = capacity
    BY DEF RunStep, Prepare, Publish, Undo, Start, Descend, Miss, WalkFails, MakeFails, Make,
        Open,
         OpenFails, Pin, PinFails, Stage, StageFails, Commit, CommitFails, Withdraw, Claim,
         ClaimNothing, ClaimFails, Remove, RemoveFails, GiveBack, GiveBackFails, Finish, Crash, env
  <2> QED BY <2>1, <2>2
<1>4. CanAuthenticate(p)' => CanAuthenticate(p)
  BY <1>1, <1>2, <1>3 DEF CanAuthenticate, CanOpen, Used
<1>5. ~slip BY <1>1 DEF Able
<1>6. \A d \in Dirs : p \notin stuff[d] BY <1>1 DEF Able
<1>7. \A i \in DOMAIN made[p] : made[p][i].id # NoDir BY <1>2 DEF Able
<1> QED BY <1>3, <1>4, <1>5, <1>6, <1>7 DEF Able

(* The directory that such a run has under its claim name is the one it    *)
(* made, and nothing is in it.                                             *)
LEMMA ClaimedIsMine ==
  ASSUME TypeInv, NamesInv, NEW p \in Processes, PlacedAt(p), OutcomeAt(p), RecordedAt(p), OwnAt(p),
         Able(p), clean[p], pc[p] = "claimed", Todo(p) # {}
  PROVE  Authentic(p) /\ Empty(Claimed(p))
<1>1. PICK t \in Todo(p) : t = Turn(p) /\ Parent(p, t) = Record(p).parent /\ Record(p).id = made[p][t].id
  BY RecordIs
<1> DEFINE x == Child(p, t)
<1>2. Holds(p, t) /\ x = Claimed(p) BY <1>1 DEF Holds, Child, Claimed
<1>3. Live(p) /\ edits = 0 /\ Alone(p) BY DEF Live, Able
<1>4. x \in Dirs /\ maker[x] = p /\ made[p][t].id \in {NoDir, x} BY <1>3 DEF PlacedAt
<1>5. t \in DOMAIN made[p] /\ \A i \in Todo(p) : i \in Nat /\ i <= t /\ Parent(p, i) \in Dirs
  BY <1>1, TurnIsLast, EntryIs DEF Todo, Parent
<1>6. Authentic(p) BY <1>1, <1>2, <1>4, <1>5 DEF Authentic, Able
<1>7. Accountable(p)
  <2>1. outcome[p] # "committed" BY DEF OutcomeAt
  <2> QED BY <1>3, <2>1 DEF Accountable
<1>8. stuff[x] = {}
  <2>1. stuff[x] \subseteq {p} BY <1>3, <1>4 DEF OwnAt
  <2> QED BY <1>4, <2>1 DEF Able
<1>9. \A i \in Todo(p) : Parent(p, i) # x BY <1>3, <1>5 DEF PlacedAt
<1>10. next[x] = NoDir
  <2> SUFFICES ASSUME next[x] # NoDir PROVE FALSE OBVIOUS
  <2>1. next[x] \in Dirs /\ Linked(next[x]) /\ maker[next[x]] = p
    BY <1>3, <1>4, <1>7 DEF OwnAt, TypeInv, NameType, Linked
  <2>2. PICK i \in Todo(p) : Child(p, i) = next[x] BY <1>7, <2>1 DEF RecordedAt
  <2>3. CASE Holds(p, i)
    <3>1. claim[Parent(p, i)][p] = next[x] BY <2>2, <2>3 DEF Child
    <3> QED BY <1>4, <1>5, <3>1 DEF NamesInv, OneName
  <2>4. CASE ~Holds(p, i)
    <3>1. next[Parent(p, i)] = next[x] BY <2>2, <2>4 DEF Child
    <3>2. Parent(p, i) = x BY <1>4, <1>5, <3>1 DEF NamesInv, OneName
    <3> QED BY <1>9, <3>2
  <2> QED BY <2>3, <2>4
<1>11. \A q \in Processes : claim[x][q] = NoDir BY <1>3, <1>4, <1>7, <1>9 DEF OwnAt
<1> QED BY <1>2, <1>6, <1>8, <1>10, <1>11 DEF Empty

LEMMA CleanOwn ==
  ASSUME TypeInv, NamesInv, NEW p \in Processes, PlacedAt(p), OutcomeAt(p), RecordedAt(p), OwnAt(p),
         CleanAt(p), RunStep(p)
  PROVE  CleanAt(p)'
<1> SUFFICES ASSUME Able(p)', pc'[p] \in {"undo", "claimed", "return"} \/ outcome'[p] = "failed"
             PROVE  clean'[p]
  BY DEF CleanAt
<1>1. ~slip' BY DEF Able
<1>2. CASE pc[p] \in {"undo", "claimed", "return"}
  <2>1. Able(p) /\ clean[p] BY <1>2, AbleOwn DEF CleanAt
  <2>2. UNCHANGED clean \/ ClaimFails(p) \/ RemoveFails(p)
    BY <1>2 DEF RunStep, Prepare, Publish, Undo, Start, Descend, Miss, WalkFails, MakeFails, Make,
         Open, OpenFails, Pin, PinFails, Stage, StageFails, Commit, CommitFails, Withdraw, Undoing,
         At, Claim, ClaimNothing, Remove, GiveBack, GiveBackFails, Finish, Crash, report
  <2>3. ~ClaimFails(p)
    <3> SUFFICES ASSUME ClaimFails(p) PROVE FALSE OBVIOUS
    <3>1. Todo(p) # {} /\ pc[p] = "undo" BY DEF ClaimFails, Undoing, At
    <3>2. claim[Record(p).parent][p] # NoDir BY <1>1 DEF ClaimFails, Failing, Slip
    <3>3. Live(p) /\ edits = 0 /\ Turn(p) \in Todo(p) /\ ~Holds(p, Turn(p))
          /\ Record(p).parent = Parent(p, Turn(p))
      BY <2>1, <3>1, RecordIs DEF Live, Able, Holds
    <3> QED BY <3>2, <3>3 DEF PlacedAt
  <2>4. ~RemoveFails(p)
    <3> SUFFICES ASSUME RemoveFails(p) PROVE FALSE OBVIOUS
    <3>1. Todo(p) # {} /\ pc[p] = "claimed" BY DEF RemoveFails, Undoing, At
    <3>2. ~Authentic(p) \/ ~Empty(Claimed(p)) BY <1>1 DEF RemoveFails, Failing, Slip
    <3> QED BY <2>1, <3>1, <3>2, ClaimedIsMine
  <2> QED BY <2>1, <2>2, <2>3, <2>4
<1>3. CASE pc[p] \notin {"undo", "claimed", "return"}
  <2>1. pc[p] \in {"idle", "walk", "make", "open", "publish", "withdraw"}
    BY <1>3, PhaseShape DEF TypeInv, RunType, Phases
  <2>2. clean[p] BY <2>1 DEF OutcomeAt
  <2>3. ASSUME PinFails(p) PROVE UNCHANGED clean
    <3> SUFFICES ASSUME stuff' = [stuff EXCEPT ![cur[p]] = @ \cup {p}] PROVE FALSE
      BY <2>3 DEF PinFails
    <3>1. p \in stuff'[cur[p]] /\ cur[p] \in Dirs BY CurGoesOn DEF TypeInv, NameType
    <3> QED BY <3>1 DEF Able
  <2>4. ASSUME Withdraw(p) PROVE UNCHANGED clean
    BY <1>1, <2>4 DEF Withdraw, Slip
  <2>5. UNCHANGED clean
    BY <2>1, <2>3, <2>4 DEF RunStep, Prepare, Publish, Undo, Start, Descend, Miss, WalkFails,
         MakeFails, Make, Open, OpenFails, Pin, Stage, StageFails, Commit, CommitFails, Undoing,
         At, Claim, ClaimNothing, ClaimFails, Remove, RemoveFails, GiveBack, GiveBackFails, Finish,
         Crash, report
  <2> QED BY <2>2, <2>5
<1> QED BY <1>2, <1>3

(* What was claimed is removed or given back before the next turn.         *)
LEMMA AsideOwn ==
  ASSUME TypeInv, NamesInv, NEW p \in Processes, AsideAt(p), RunStep(p)
  PROVE  AsideAt(p)'
<1> SUFFICES ASSUME Alone(p)', edits' = 0 PROVE AsideAt(p)'
  BY DEF AsideAt
<1>1. /\ Alone(p) /\ edits = 0 /\ (~slip' => ~slip)
      /\ pc[p] \notin {"done", "crashed"}
  <2>1. edits' = edits /\ (slip => slip')
    BY DEF RunStep, Prepare, Publish, Undo, Start, Descend, Miss, WalkFails, MakeFails, Make,
         Open, OpenFails, Pin, PinFails, Stage, StageFails, Commit, CommitFails, Withdraw, Claim,
         ClaimNothing, ClaimFails, Remove, RemoveFails, GiveBack, GiveBackFails, Finish, Crash,
         env, report, Failing, Slip, TypeInv, ReportType
  <2> QED BY <2>1, AloneOwn, PhaseShape
<1>2. ASSUME Claiming(p)
      PROVE  \/ Crash(p) /\ pc'[p] = "crashed"
             \/ RemoveFails(p) /\ made' = made /\ UNCHANGED names /\ pc'[p] = "return"
             \/ (Remove(p) \/ GiveBack(p) \/ GiveBackFails(p)) /\ Todo(p) # {} /\ pc'[p] = "undo"
  <2>1. CASE Crash(p)
    BY <2>1 DEF Crash, Goto, TypeInv, RunType
  <2>2. CASE UNCHANGED made /\ ~Crash(p)
    BY <1>2, <2>2, PhaseShape DEF Claiming, RemoveFails
  <2>3. CASE ~UNCHANGED made
    <3>1. ~Make(p) /\ ~Open(p) /\ ~OpenFails(p) /\ ~ClaimNothing(p) /\ ~ClaimFails(p)
      BY <1>2 DEF Claiming, Make, Open, OpenFails, ClaimNothing, ClaimFails, Undoing, At
    <3> QED BY <2>3, <3>1, MadeShape
         DEF Remove, GiveBack, GiveBackFails, Undoing, Goto, TypeInv, RunType
  <2> QED BY <2>1, <2>2, <2>3
<1>3. ASSUME Claim(p)
      PROVE  /\ Todo(p) # {} /\ pc[p] = "undo" /\ Claiming(p)'
             /\ Parent(p, Turn(p)) \in Dirs /\ Parent(p, Turn(p))' = Parent(p, Turn(p))
             /\ next'[Parent(p, Turn(p))] = NoDir
  <2>1. Todo(p) # {} /\ pc[p] = "undo" /\ pc'[p] = "claimed" /\ made' = made
    BY <1>3 DEF Claim, Undoing, At, Goto, TypeInv, RunType
  <2>2. Parent(p, Turn(p)) = Record(p).parent /\ Record(p).parent \in Dirs BY <2>1, RecordIs
  <2>3. next'[Record(p).parent] = NoDir BY <1>3, <2>2 DEF Claim, TypeInv, NameType
  <2> QED BY <2>1, <2>2, <2>3 DEF Claiming, Parent, Turn, Todo
<1>4. ASSUME Claiming(p)' PROVE next'[Parent(p, Turn(p))'] = NoDir
  <2>1. CASE Claim(p) BY <2>1, <1>3
  <2>2. CASE ~Claim(p)
    <3>1. Claiming(p) BY <1>4, <2>2, PhaseShape DEF Claiming
    <3>2. made' = made /\ next' = next BY <1>2, <1>4, <3>1 DEF Claiming, names
    <3> QED BY <1>1, <3>1, <3>2 DEF AsideAt, Parent, Turn, Todo
  <2> QED BY <2>1, <2>2
<1> SUFFICES ASSUME ~slip', pc'[p] # "crashed", NEW c \in Dirs, NEW d \in Dirs,
                    maker'[d] = p, claim'[c][p] = d
             PROVE  Claiming(p)' /\ c = Parent(p, Turn(p))'
  BY <1>4 DEF AsideAt
<1>5. ASSUME maker[d] = p, claim[c][p] = d
      PROVE  Claiming(p) /\ c = Parent(p, Turn(p)) /\ next[c] = NoDir
  BY <1>1, <1>5 DEF AsideAt
<1>6. d # NoDir BY DirectoryAssumption
<1>7. CASE UNCHANGED <<next, claim, maker>>
  <2>1. Claiming(p) /\ c = Parent(p, Turn(p)) /\ next[c] = NoDir BY <1>5, <1>7
  <2>2. ASSUME Todo(p) # {}, pc'[p] = "undo", Remove(p) \/ GiveBack(p) PROVE FALSE
    <3>1. c = Record(p).parent BY <2>1, <2>2, RecordIs
    <3>2. claim'[c][p] = NoDir BY <2>2, <3>1 DEF Remove, GiveBack, TypeInv, NameType
    <3> QED BY <1>6, <3>2
  <2>3. ASSUME Todo(p) # {}, GiveBackFails(p) PROVE FALSE
    <3>1. c = Record(p).parent BY <2>1, <2>3, RecordIs
    <3> QED BY <2>1, <2>3, <3>1 DEF GiveBackFails, Failing, Slip
  <2>4. RemoveFails(p) /\ made' = made /\ pc'[p] = "return" BY <1>2, <2>1, <2>2, <2>3
  <2> QED BY <2>1, <2>4 DEF Claiming, Parent, Turn, Todo
<1>8. ASSUME NEW e \in Dirs, Fresh(cur[p], e, p), Make(p) PROVE FALSE
  <2>1. claim' = claim /\ ~Linked(e) /\ \A x \in Dirs : x # e => maker'[x] = maker[x]
    BY <1>8 DEF Fresh, Allocate, Allocatable, TypeInv, NameType
  <2>2. d # e BY <2>1 DEF Linked
  <2>3. Claiming(p) BY <1>5, <2>1, <2>2
  <2> QED BY <1>8, <2>3 DEF Make, At, Claiming
<1>9. CASE Claim(p) /\ Aside(Parent(p, Turn(p)), p)
  <2>1. c # Parent(p, Turn(p)) => claim[c][p] = d
    BY <1>9 DEF Aside, TypeInv, NameType
  <2>2. maker[d] = p BY <1>9 DEF Aside
  <2>3. c = Parent(p, Turn(p)) BY <1>5, <2>1, <2>2
  <2> QED BY <1>3, <1>9, <2>3
<1>10. ASSUME \/ Gone(Parent(p, Turn(p)), p)
              \/ Back(Parent(p, Turn(p)), p)
       PROVE  FALSE
  <2>1. c # Parent(p, Turn(p)) /\ claim[c][p] = d /\ maker[d] = p
    BY <1>6, <1>10 DEF Gone, Back, TypeInv, NameType
  <2> QED BY <1>5, <2>1
<1> QED BY <1>7, <1>8, <1>9, <1>10, NameShape

LEMMA IInvInit == Init => IInv
<1> SUFFICES ASSUME Init PROVE IInv OBVIOUS
<1>1. TypeInv /\ NamesInv BY TypeInit, NamesInit
<1>2. ASSUME NEW p \in Processes
      PROVE  /\ KnownAt(p) /\ FreshAt(p) /\ PlacedAt(p) /\ OutcomeAt(p) /\ RecordedAt(p)
             /\ OwnAt(p) /\ CleanAt(p) /\ AsideAt(p)
  <2>1. /\ pc[p] = "idle" /\ outcome[p] = "none" /\ clean[p] /\ ~Live(p)
        /\ \A d \in Dirs : stuff[d] = {} /\ maker[d] # p
    BY DirectoryAssumption DEF Init, Live
  <2>2. KnownAt(p) /\ FreshAt(p) /\ PlacedAt(p) BY <2>1 DEF KnownAt, FreshAt, PlacedAt
  <2>3. OutcomeAt(p) /\ RecordedAt(p) /\ OwnAt(p) /\ CleanAt(p) /\ AsideAt(p)
    BY <2>1 DEF OutcomeAt, RecordedAt, OwnAt, CleanAt, AsideAt, Claiming
  <2> QED BY <2>2, <2>3
<1> QED BY <1>1, <1>2 DEF IInv

LEMMA IInvNext == IInv /\ [Next]_vars => IInv'
<1> SUFFICES ASSUME IInv, [Next]_vars PROVE IInv' OBVIOUS
<1> USE DEF IInv
<1>1. TypeInv' /\ NamesInv' /\ \A p \in Processes : KnownAt(p)' BY TypeNext, NamesNext, KnownNext
<1>2. CASE Edit
  <2> SUFFICES ASSUME NEW q \in Processes
               PROVE  /\ FreshAt(q)' /\ PlacedAt(q)' /\ OutcomeAt(q)' /\ RecordedAt(q)'
                      /\ OwnAt(q)' /\ CleanAt(q)' /\ AsideAt(q)'
    BY <1>1
  <2>1. SameRun(q) /\ claim' = claim /\ edits' # 0 BY <1>2, EditFrame
  <2>2. FreshAt(q)' BY <2>1, FreshKept
  <2>3. PlacedAt(q)' BY <2>1 DEF PlacedAt
  <2>4. OutcomeAt(q)' BY <2>1, OutcomeKept
  <2> QED BY <1>2, <2>2, <2>3, <2>4, RecordedEdit, OwnKept
<1>3. ASSUME NEW p \in Processes, RunStep(p) PROVE IInv'
  <2>1. ASSUME NEW q \in Processes \ {p}
        PROVE  /\ FreshAt(q)' /\ PlacedAt(q)' /\ OutcomeAt(q)' /\ RecordedAt(q)'
               /\ OwnAt(q)' /\ CleanAt(q)' /\ AsideAt(q)'
    <3>1. SameRun(q) /\ claim'[cur[q]][q] = claim[cur[q]][q] BY <1>3, OtherRuns, ClaimsKept,
        CurGoesOn
    <3>2. FreshAt(q)' BY <3>1, FreshKept
    <3>3. PlacedAt(q)' BY <1>3, PlacedKept
    <3>4. OutcomeAt(q)' BY <3>1, OutcomeKept
    <3>5. RecordedAt(q)' BY <1>3, RecordedKept
    <3>6. OwnAt(q)' /\ CleanAt(q)' /\ AsideAt(q)' BY <1>3, OwnKept
    <3> QED BY <3>2, <3>3, <3>4, <3>5, <3>6
  <2>2. FreshAt(p)' BY <1>3, FreshOwn
  <2>3. PlacedAt(p)' BY <1>3, PlacedOwn
  <2>4. OutcomeAt(p)' BY <1>3, OutcomeOwn
  <2>5. RecordedAt(p)' BY <1>3, RecordedOwn
  <2>6. OwnAt(p)' BY <1>3, OwnOwn
  <2>7. CleanAt(p)' BY <1>3, CleanOwn
  <2>8. AsideAt(p)' BY <1>3, AsideOwn
  <2> QED BY <1>1, <2>1, <2>2, <2>3, <2>4, <2>5, <2>6, <2>7, <2>8
<1>4. CASE UNCHANGED vars
  <2>1. UNCHANGED <<next, claim, maker, stuff, pc, cur, level, root, rest, made, mistaken, outcome,
                    clean, slip, capacity, faults, edits>>
    BY <1>4 DEF vars, names, walk, report, env
  <2> SUFFICES ASSUME NEW q \in Processes
               PROVE  /\ FreshAt(q)' /\ PlacedAt(q)' /\ OutcomeAt(q)' /\ RecordedAt(q)'
                      /\ OwnAt(q)' /\ CleanAt(q)' /\ AsideAt(q)'
    BY <1>1
  <2>2. /\ Todo(q)' = Todo(q) /\ Turn(q)' = Turn(q) /\ Live(q)' = Live(q) /\ Alone(q)' = Alone(q)
        /\ CanAuthenticate(q)' = CanAuthenticate(q)
    BY <2>1 DEF Todo, Turn, Live, Alone, At, CanAuthenticate, CanOpen, Used
  <2>3. FreshAt(q)' BY <2>1 DEF FreshAt, Parent
  <2>4. \A i : /\ Parent(q, i)' = Parent(q, i) /\ (Holds(q, i)' <=> Holds(q, i))
                /\ Child(q, i)' = Child(q, i)
    BY <2>1, <2>2 DEF Child, Holds, Parent
  <2>9. PlacedAt(q)'
    <3>1. Live(q)' <=> Live(q) BY <2>2
    <3> SUFFICES ASSUME Live(q), edits = 0 PROVE PlacedAt(q)' BY <2>1, <3>1 DEF PlacedAt
    <3>2. PlacedAt(q) OBVIOUS
    <3> QED BY <2>1, <2>2, <2>4, <3>2 DEF PlacedAt
  <2>10. (Accountable(q)' <=> Accountable(q)) /\ \A d \in Dirs : Linked(d)' <=> Linked(d)
    BY <2>1, <2>2 DEF Accountable, Linked
  <2>5. OutcomeAt(q)' BY <2>1, <2>2 DEF OutcomeAt
  <2>6. RecordedAt(q)' BY <2>1, <2>2, <2>4, <2>10 DEF RecordedAt
  <2>7. OwnAt(q)'
    <3> SUFFICES ASSUME Alone(q), edits = 0 PROVE OwnAt(q)' BY <2>1, <2>2 DEF OwnAt
    <3>1. \A d \in Dirs : stuff[d] \subseteq {q} BY DEF OwnAt
    <3> SUFFICES ASSUME Accountable(q), NEW d \in Dirs, maker[d] = q
                 PROVE  /\ next[d] # NoDir => maker[next[d]] = q
                        /\ \A r \in Processes : claim[d][r] # NoDir =>
                             r = q /\ \E i \in Todo(q)' : Holds(q, i)' /\ d = Parent(q, i)'
      BY <2>1, <2>10, <3>1 DEF OwnAt
    <3> QED BY <2>2, <2>4 DEF OwnAt
  <2>8. CleanAt(q)' BY <2>1, <2>2 DEF CleanAt, Able
  <2>11. AsideAt(q)' BY <2>1, <2>2, <2>4 DEF AsideAt, Claiming
  <2> QED BY <2>3, <2>5, <2>6, <2>7, <2>8, <2>9, <2>11
<1> QED BY <1>2, <1>3, <1>4 DEF Next, RunStep

(* A run that fails and reports no cleanup error has left no directory     *)
(* that it made.  One that nobody disturbs leaves none under a claim name, *)
(* also when it has no descriptor left to authenticate a claim with, and   *)
(* when it has one it removes everything it made and reports nothing       *)
(* (remove_created_directories), however many directories and runs there   *)
(* are.                                                                    *)
THEOREM FailureHolds == Spec => []FailureIsUndone
<1>1. IInv => FailureIsUndone
  <2> SUFFICES ASSUME IInv, NEW p \in Processes, outcome[p] = "failed"
               PROVE  /\ clean[p] /\ (edits = 0 \/ Alone(p)) =>
                           \A d \in Dirs : maker[d] = p => ~Linked(d)
                      /\ Alone(p) /\ edits = 0 /\ ~slip =>
                           \A c, d \in Dirs : maker[d] = p => claim[c][p] # d
                      /\ Able(p) => clean[p]
    BY DEF FailureIsUndone, Able
  <2>1. Todo(p) = {} /\ pc[p] = "done" BY DEF IInv, OutcomeAt
  <2>2. clean[p] /\ (edits = 0 \/ Alone(p)) => \A d \in Dirs : maker[d] = p => ~Linked(d)
    BY <2>1 DEF IInv, RecordedAt, Accountable
  <2>3. Able(p) => clean[p] BY DEF IInv, CleanAt
  <2>4. Alone(p) /\ edits = 0 /\ ~slip => \A c, d \in Dirs : maker[d] = p => claim[c][p] # d
    BY <2>1 DEF IInv, AsideAt, Claiming
  <2> QED BY <2>2, <2>3, <2>4
<1> QED BY <1>1, IInvInit, IInvNext, PTL DEF Spec

-----------------------------------------------------------------------------
(* Where a published bundle is found, when there are two runs: a third one *)
(* can make a directory in the place of one that is to be given back.      *)

TwoRuns == \A p, q, r \in Processes : p = q \/ q = r \/ p = r

(* No change by others, no failed cleanup and no crash.                    *)
Quiet == edits = 0 /\ ~slip /\ \A q \in Processes : pc[q] # "crashed"

(* The path goes on from c to d, except while another run has d under its  *)
(* claim name.                                                             *)
Kept(q, c, d) == pc[q] \in {"claimed", "return"} /\ c = Parent(q, Turn(q)) /\ claim[c][q] = d
Leads(p, c, d) ==
  next[c] = d \/ (next[c] = NoDir /\ \E q \in Processes \ {p} : Kept(q, c, d))

Route(p, n, f) ==
  /\ f[0] = Base
  /\ \A i, j \in 0 .. n : f[i] = f[j] => i = j
  /\ \A i \in 0 .. n - 1 : Leads(p, f[i], f[i + 1])

(* The route of a run from the base reaches the directory it has open      *)
(* unless that was taken away, and the output directory in any case.       *)
Walking(p) == pc[p] \in {"idle", "walk", "make", "open"}
Going(p) == Walking(p) \/ pc[p] = "publish" \/ outcome[p] = "committed"
Reaches(p, n, f) ==
  /\ Route(p, n, f)
  /\ root[p] # NoDir => RootLevel <= n /\ f[RootLevel] = root[p]
  /\ Walking(p) /\ Linked(cur[p]) => n = level[p] /\ f[n] = cur[p]
FoundAt(p) ==
  Quiet /\ Going(p) =>
    /\ root[p] # NoDir => p \in stuff[root[p]]
    /\ ~Walking(p) => root[p] # NoDir
    /\ pc[p] = "idle" => cur[p] = Base /\ level[p] = 0
    /\ \E n \in 0 .. level[p] : \E f \in [0 .. n -> Dirs] : Reaches(p, n, f)

Found == \A p \in Processes : FoundAt(p)

(* Where the path goes on is not empty, and it goes on to a directory that *)
(* has a name and no other way to it.                                      *)
LEMMA LeadsIs ==
  ASSUME OneName, NEW p \in Processes, NEW c \in Dirs, NEW d \in Dirs, Leads(p, c, d)
  PROVE  /\ ~Empty(c) /\ Linked(d) /\ d # Base
         /\ \A e \in Dirs : Leads(p, e, d) => e = c
<1>1. d # NoDir BY DirectoryAssumption
<1>2. next[c] = d \/ \E q \in Processes : claim[c][q] = d BY DEF Leads, Kept
<1>3. ~Empty(c) /\ Linked(d) BY <1>1, <1>2 DEF Empty, Linked
<1>4. d # Base BY <1>2 DEF OneName
<1>5. ASSUME NEW e \in Dirs, Leads(p, e, d) PROVE e = c
  <2>1. next[e] = d \/ \E q \in Processes : claim[e][q] = d BY <1>5 DEF Leads, Kept
  <2>2. CASE next[c] = d BY <1>1, <2>1, <2>2 DEF OneName
  <2>3. ASSUME NEW q \in Processes, claim[c][q] = d PROVE e = c
    BY <1>1, <2>1, <2>3 DEF OneName
  <2> QED BY <1>2, <2>2, <2>3
<1> QED BY <1>3, <1>4, <1>5

(* What others did, and a failure of a cleanup, stay known.                *)
LEMMA QuietBefore ==
  ASSUME IInv, [Next]_vars, Quiet'
  PROVE  Quiet /\ ~Edit
<1> USE DEF IInv
<1>1. ~Edit
  <2> SUFFICES ASSUME Edit PROVE FALSE OBVIOUS
  <2>1. edits' = edits + 1 /\ edits \in Nat BY DEF Edit, TypeInv, ReportType
  <2> QED BY <2>1 DEF Quiet
<1>2. ASSUME NEW p \in Processes, RunStep(p) PROVE edits' = edits /\ (slip => slip')
  <2> USE <1>2 DEF env, report
  <2>1. CASE Start(p) \/ Descend(p) \/ Miss(p) \/ WalkFails(p) \/ Make(p) \/ MakeFails(p)
             \/ Open(p) \/ OpenFails(p)
    BY <2>1 DEF Start, Descend, Miss, WalkFails, Make, MakeFails, Open, OpenFails
  <2>2. CASE Pin(p) \/ PinFails(p) \/ Stage(p) \/ StageFails(p) \/ Commit(p) \/ CommitFails(p)
    BY <2>2 DEF Pin, PinFails, Stage, StageFails, Commit, CommitFails
  <2>3. CASE Withdraw(p) BY <2>3 DEF Withdraw, Slip
  <2>4. CASE ClaimFails(p) BY <2>4 DEF ClaimFails, Failing, Slip
  <2>5. CASE RemoveFails(p) BY <2>5 DEF RemoveFails, Failing, Slip
  <2>6. CASE GiveBackFails(p) BY <2>6 DEF GiveBackFails, Failing, Slip
  <2>7. CASE Claim(p) \/ ClaimNothing(p) \/ Remove(p) \/ GiveBack(p) \/ Finish(p) \/ Crash(p)
    BY <2>7 DEF Claim, ClaimNothing, Remove, GiveBack, Finish, Crash
  <2> QED BY <2>1, <2>2, <2>3, <2>4, <2>5, <2>6, <2>7 DEF RunStep, Prepare, Publish, Undo
<1>3. CASE UNCHANGED vars BY <1>3, <1>1 DEF vars, report, env, Quiet
<1>4. ASSUME NEW p \in Processes, RunStep(p) PROVE Quiet
  <2>1. pc[p] # "crashed" BY <1>4, PhaseShape
  <2>2. \A q \in Processes \ {p} : pc'[q] = pc[q] BY <1>4, OtherRuns DEF SameRun
  <2> QED BY <1>2, <1>4, <2>1, <2>2 DEF Quiet
<1> QED BY <1>1, <1>3, <1>4 DEF Next, RunStep

(* A run that has a directory under its claim name removes it, finds that  *)
(* it cannot, or gives it back.                                            *)
LEMMA HolderActs ==
  ASSUME TypeInv, NEW q \in Processes, RunStep(q), pc[q] \in {"claimed", "return"}, Quiet'
  PROVE  Remove(q) \/ RemoveFails(q) \/ GiveBack(q) \/ GiveBackFails(q)
<1>1. ~Crash(q) BY DEF Crash, Goto, Quiet, TypeInv, RunType
<1>2. ~Prepare(q) /\ ~Publish(q)
  BY DEF Prepare, Publish, Start, Descend, Miss, WalkFails, Make, MakeFails, Open, OpenFails, Pin,
      PinFails, Stage, StageFails, Commit, CommitFails, Withdraw, At
<1>3. ~Claim(q) /\ ~ClaimNothing(q) /\ ~ClaimFails(q) /\ ~Finish(q)
  BY DEF Claim, ClaimNothing, ClaimFails, Finish, Undoing, At
<1> QED BY <1>1, <1>2, <1>3 DEF RunStep, Undo

(* The other run keeps the links of the path, with a claim name for the    *)
(* name or back, but for one to an empty directory.                        *)
LEMMA LeadsOther ==
  ASSUME IInv, TwoRuns, NEW p \in Processes, NEW q \in Processes \ {p}, RunStep(q), Quiet',
         NEW c \in Dirs, NEW d \in Dirs, Leads(p, c, d)
  PROVE  Leads(p, c, d)' \/ (Empty(d) /\ ~Linked(d)')
<1> DEFINE u == Parent(q, Turn(q))
<1>1. TypeInv /\ OneName /\ d # NoDir BY DirectoryAssumption DEF IInv, NamesInv
<1>2. next[c] = d \/ (next[c] = NoDir /\ Kept(q, c, d)) BY DEF Leads, TwoRuns
<1>3. next'[c] = d => Leads(p, c, d)' BY DEF Leads
<1>4. next'[c] = NoDir /\ Kept(q, c, d)' => Leads(p, c, d)' BY DEF Leads
<1>5. CASE pc[q] \notin {"claimed", "return"}
  <2>1. next[c] = d BY <1>2, <1>5 DEF Kept
  <2>2. ~Remove(q) /\ ~GiveBack(q) BY <1>5 DEF Remove, GiveBack, Undoing, At
  <2>3. ASSUME NEW e \in Dirs, Fresh(cur[q], e, q) PROVE next'[c] = d
    BY <1>1, <2>1, <2>3 DEF Fresh, TypeInv, NameType
  <2>4. CASE Claim(q) /\ Aside(u, q)
    <3>1. pc'[q] = "claimed" /\ UNCHANGED made
      BY <1>1, <2>4 DEF Claim, Undoing, Goto, TypeInv, RunType
    <3>2. Parent(q, Turn(q))' = u BY <3>1 DEF Parent, Turn, Todo
    <3>3. c # u => next'[c] = d BY <1>1, <2>1, <2>4 DEF Aside, TypeInv, NameType
    <3>4. c = u => next'[c] = NoDir /\ claim'[c][q] = d
      BY <1>1, <2>1, <2>4 DEF Aside, TypeInv, NameType
    <3>5. c = u => Kept(q, c, d)' BY <3>1, <3>2, <3>4 DEF Kept
    <3> QED BY <1>3, <1>4, <3>3, <3>4, <3>5
  <2> QED BY <1>1, <1>3, <2>1, <2>2, <2>3, <2>4, NameShape
<1>6. CASE pc[q] \in {"claimed", "return"}
  <2>1. Remove(q) \/ RemoveFails(q) \/ GiveBack(q) \/ GiveBackFails(q) BY <1>1, <1>6, HolderActs
  <2>2. Todo(q) # {} BY <2>1 DEF Remove, RemoveFails, GiveBack, GiveBackFails, Undoing
  <2>3. Record(q).parent = u /\ u \in Dirs BY <1>1, <2>2, RecordIs
  <2>4. CASE Remove(q)
    <3>1. Gone(u, q) BY <2>3, <2>4 DEF Remove, Gone, Claimed
    <3>2. next' = next BY <3>1 DEF Gone
    <3>3. CASE next[c] = d BY <1>3, <3>2, <3>3
    <3>4. CASE Kept(q, c, d)
      <4>1. claim[u][q] = d BY <3>4 DEF Kept
      <4> QED BY <1>1, <3>1, <4>1, GoneLinks DEF Gone
    <3> QED BY <1>2, <3>3, <3>4
  <2>5. CASE RemoveFails(q)
    <3>1. UNCHANGED <<next, claim, made>> /\ pc'[q] = "return"
      BY <1>1, <2>5 DEF RemoveFails, Goto, names, TypeInv, RunType
    <3>2. Parent(q, Turn(q))' = u BY <3>1 DEF Parent, Turn, Todo
    <3>3. Kept(q, c, d) => Kept(q, c, d)' BY <3>1, <3>2 DEF Kept
    <3> QED BY <1>2, <1>3, <1>4, <3>1, <3>3
  <2>6. CASE GiveBack(q)
    <3>1. \A x \in Dirs : next'[x] = IF x = u THEN claim[u][q] ELSE next[x]
      BY <1>1, <2>3, <2>6 DEF GiveBack, TypeInv, NameType
    <3>2. next[u] = NoDir BY <2>3, <2>6 DEF GiveBack
    <3> QED BY <1>1, <1>2, <1>3, <3>1, <3>2 DEF Kept
  <2>7. CASE GiveBackFails(q)
    <3>1. next' = next /\ next[u] # NoDir
      BY <2>3, <2>7 DEF GiveBackFails, Failing, Slip, Quiet, names
    <3> QED BY <1>2, <1>3, <3>1 DEF Kept
  <2> QED BY <2>1, <2>4, <2>5, <2>6, <2>7
<1> QED BY <1>5, <1>6

(* A run that goes on changes no link of its own path.                     *)
LEMMA LeadsOwn ==
  ASSUME TypeInv, NEW p \in Processes, RunStep(p), Walking(p) \/ pc[p] = "publish",
         NEW c \in Dirs, NEW d \in Dirs, Leads(p, c, d), next'[c] = next[c]
  PROVE  Leads(p, c, d)'
<1>1. ~Claim(p) /\ ~Remove(p) /\ ~GiveBack(p)
  BY DEF Claim, Remove, GiveBack, Undoing, At, Walking
<1>2. claim' = claim BY <1>1, NameShape DEF Fresh
<1>3. ASSUME NEW q \in Processes \ {p}, Kept(q, c, d) PROVE Kept(q, c, d)'
  <2>1. pc'[q] = pc[q] /\ made'[q] = made[q] BY OtherRuns DEF SameRun
  <2>2. Parent(q, Turn(q))' = Parent(q, Turn(q)) BY <2>1 DEF Parent, Turn, Todo
  <2> QED BY <1>2, <1>3, <2>1, <2>2 DEF Kept
<1> QED BY <1>3 DEF Leads

(* A directory that a run has open and that was taken away stays away.     *)
LEMMA OpenStaysAway ==
  ASSUME IInv, NEW q \in Processes, RunStep(q), NEW p \in Processes, NEW e \in Held(p), e \in Dirs,
         Linked(e)'
  PROVE  Linked(e)
<1>1. TypeInv /\ OneName BY DEF IInv, NamesInv
<1>2. ASSUME NEW d \in Dirs, Fresh(cur[q], d, q) PROVE Linked(e)
  <2>1. e # d BY <1>2 DEF Fresh, Allocatable
  <2> QED BY <1>1, <1>2, <2>1, FreshLinks
<1>3. ASSUME NEW c \in Dirs, Aside(c, q) \/ Back(c, q) \/ Gone(c, q) PROVE Linked(e)
  BY <1>1, <1>3, AsideLinks, BackLinks, GoneLinks
<1>4. CASE UNCHANGED <<next, claim>> BY <1>4 DEF Linked
<1> QED BY <1>1, <1>2, <1>3, <1>4, NameShape DEF Aside, Back, Gone

(* Only its own rollback takes the files of a run away.                    *)
LEMMA FilesKept ==
  ASSUME TypeInv, NEW q \in Processes, RunStep(q), NEW p \in Processes, p = q => pc[p] # "withdraw",
         NEW d \in Dirs, p \in stuff[d]
  PROVE  p \in stuff'[d]
<1> USE DEF TypeInv, NameType
<1>1. UNCHANGED stuff \/ Pin(q) \/ PinFails(q) \/ Stage(q) \/ Withdraw(q)
  BY DEF RunStep, Prepare, Publish, Undo, Start, Descend, Miss, WalkFails, MakeFails, Make,
      Open, OpenFails, Pin, PinFails, Stage, StageFails, Commit, CommitFails, Withdraw, Claim,
      ClaimNothing, ClaimFails, Remove, RemoveFails, GiveBack, GiveBackFails, Finish, Crash
<1>2. CASE stuff' = [stuff EXCEPT ![cur[q]] = @ \cup {q}]
  BY <1>2, CurGoesOn
<1>3. CASE Pin(q)
  BY <1>3, <1>2 DEF Pin
<1>4. CASE PinFails(q)
  BY <1>4, <1>2 DEF PinFails
<1>5. CASE Stage(q)
  BY <1>5, <1>2 DEF Stage
<1>6. CASE Withdraw(q)
  BY <1>6 DEF Withdraw, At
<1> QED BY <1>1, <1>3, <1>4, <1>5, <1>6

(* What the other run does to a run that goes on.                          *)
LEMMA FoundOther ==
  ASSUME IInv, TwoRuns, NEW p \in Processes, NEW q \in Processes \ {p}, RunStep(q), Quiet, FoundAt(p)
  PROVE  FoundAt(p)'
<1> SUFFICES ASSUME Quiet', Going(p)' PROVE FoundAt(p)' BY DEF FoundAt
<1>1. TypeInv /\ OneName BY DEF IInv, NamesInv
<1>2. SameRun(p) BY <1>1, OtherRuns
<1>3. Going(p) /\ (Walking(p)' <=> Walking(p)) /\ level[p] \in Nat /\ cur[p] \in Dirs
  BY <1>1, <1>2, RoomIs DEF Going, Walking, SameRun, TypeInv, RunType
<1>4. root[p] # NoDir => p \in stuff[root[p]] /\ root[p] \in Dirs
  BY <1>1, <1>3 DEF FoundAt, TypeInv, RunType
<1>5. root[p] # NoDir => p \in stuff'[root[p]] BY <1>1, <1>4, FilesKept
<1>6. Walking(p) /\ Linked(cur[p])' => Linked(cur[p])
  <2>1. CASE pc[p] = "idle" BY <1>3, <2>1 DEF FoundAt, Linked
  <2>2. CASE Walking(p) /\ pc[p] # "idle"
    <3>1. cur[p] \in Held(p) BY <2>2 DEF Walking, Held, Live
    <3>2. \A e \in Dirs : e \in Held(p) /\ Linked(e)' => Linked(e) BY OpenStaysAway
    <3> QED BY <1>2, <1>3, <3>1, <3>2 DEF Linked, SameRun
  <2> QED BY <2>1, <2>2
<1>7. PICK n \in 0 .. level[p] : \E f \in [0 .. n -> Dirs] : Reaches(p, n, f) BY <1>3 DEF FoundAt
<1>8. PICK f \in [0 .. n -> Dirs] : Reaches(p, n, f) BY <1>7
<1>9. n \in Nat /\ \A i \in 0 .. n - 1 : /\ i \in 0 .. n /\ i + 1 \in 0 .. n
                                         /\ f[i] \in Dirs /\ f[i + 1] \in Dirs
  BY <1>3, <1>7, <1>8
<1>10. \A i \in 0 .. n - 1 :
         /\ Leads(p, f[i], f[i + 1])
         /\ Leads(p, f[i], f[i + 1])' \/ (Empty(f[i + 1]) /\ ~Linked(f[i + 1])')
  BY <1>8, <1>9, LeadsOther DEF Reaches, Route
<1>11. \E m \in 0 .. level[p] : \E g \in [0 .. m -> Dirs] : Reaches(p, m, g)'
  <2>1. CASE \A i \in 0 .. n - 1 : Leads(p, f[i], f[i + 1])'
    <3>1. Route(p, n, f)' BY <1>8, <2>1 DEF Reaches, Route
    <3>2. Reaches(p, n, f)' BY <1>2, <1>3, <1>6, <1>8, <3>1 DEF Reaches, SameRun
    <3> QED BY <3>2
  <2>2. ASSUME NEW i \in 0 .. n - 1, ~Leads(p, f[i], f[i + 1])'
        PROVE  \E m \in 0 .. level[p] : \E g \in [0 .. m -> Dirs] : Reaches(p, m, g)'
    <3>1. Empty(f[i + 1]) /\ ~Linked(f[i + 1])' BY <1>10, <2>2
    <3>2. i + 1 = n
      <4>1. ASSUME i + 1 \in 0 .. n - 1 PROVE FALSE
        BY <1>1, <1>9, <1>10, <3>1, <4>1, LeadsIs
      <4> QED BY <1>9, <4>1
    <3>3. ASSUME NEW j \in 0 .. n - 1, j # i PROVE Leads(p, f[j], f[j + 1])'
      <4>1. j + 1 \in 0 .. n - 1 BY <1>9, <3>2, <3>3
      <4>2. ~Empty(f[j + 1]) BY <1>1, <1>9, <1>10, <4>1, LeadsIs
      <4> QED BY <1>10, <3>3, <4>2
    <3> DEFINE g == [k \in 0 .. i |-> f[k]]
    <3>4. i \in 0 .. level[p] /\ g \in [0 .. i -> Dirs] /\ \A k \in 0 .. i : g[k] = f[k] /\ k \in 0 .. n
      BY <1>3, <1>7, <1>9
    <3> HIDE DEF g
    <3>5. Route(p, i, g)'
      <4>1. g[0] = Base BY <1>8, <1>9, <3>4 DEF Reaches, Route
      <4>2. \A j, k \in 0 .. i : g[j] = g[k] => j = k BY <1>8, <3>4 DEF Reaches, Route
      <4>3. \A j \in 0 .. i - 1 : j \in 0 .. n - 1 /\ j # i /\ j \in 0 .. i /\ j + 1 \in 0 .. i
        BY <1>9, <3>2
      <4>4. \A j \in 0 .. i - 1 : Leads(p, g[j], g[j + 1])' BY <3>3, <3>4, <4>3
      <4> QED BY <4>1, <4>2, <4>4 DEF Route
    <3>6. root[p] # NoDir => RootLevel <= i /\ g[RootLevel] = root[p]
      <4>1. SUFFICES ASSUME root[p] # NoDir PROVE RootLevel <= i /\ g[RootLevel] = root[p] OBVIOUS
      <4>2. RootLevel \in Nat /\ RootLevel <= n /\ f[RootLevel] = root[p]
        BY <1>8, <4>1, DirectoryAssumption DEF Reaches
      <4>3. f[n] # root[p] BY <1>4, <3>1, <3>2, <4>1 DEF Empty
      <4>4. RootLevel <= i BY <1>9, <3>2, <4>2, <4>3
      <4> QED BY <3>4, <4>2, <4>4
    <3>7. ~(Walking(p) /\ Linked(cur[p])')
      <4> SUFFICES ASSUME Walking(p), Linked(cur[p])' PROVE FALSE OBVIOUS
      <4>1. f[i + 1] = cur[p] BY <1>6, <1>8, <3>2 DEF Reaches
      <4> QED BY <1>2, <3>1, <4>1 DEF Linked, SameRun
    <3>8. Reaches(p, i, g)' BY <1>2, <1>3, <3>5, <3>6, <3>7 DEF Reaches, SameRun
    <3> QED BY <3>4, <3>8
  <2> QED BY <2>1, <2>2
<1>12. ~Walking(p) => root[p] # NoDir BY <1>3 DEF FoundAt
<1>13. pc[p] = "idle" => cur[p] = Base /\ level[p] = 0 BY <1>3 DEF FoundAt
<1> QED BY <1>2, <1>3, <1>5, <1>11, <1>12, <1>13 DEF FoundAt, SameRun

(* What a run does that goes on afterwards.                                *)
LEMMA GoingActs ==
  ASSUME TypeInv, NEW p \in Processes, OutcomeAt(p), RunStep(p), Going(p)'
  PROVE  /\ Walking(p) \/ pc[p] = "publish"
         /\ \/ Start(p) \/ Miss(p) \/ Stage(p) \/ Commit(p)
            \/ Descend(p) \/ Open(p) \/ Make(p) \/ (Pin(p) /\ pc'[p] = "walk")
<1>1. outcome[p] = "none"
  <2>1. pc[p] # "done" BY PhaseShape
  <2> QED BY <2>1 DEF OutcomeAt, TypeInv, ReportType
<1> USE <1>1 DEF TypeInv, RunType, ReportType, Going, Walking, At, Goto, report
<1>2. ~WalkFails(p) /\ ~MakeFails(p) /\ ~OpenFails(p) /\ ~PinFails(p) /\ ~StageFails(p) /\ ~CommitFails(p)
  BY DEF WalkFails, MakeFails, OpenFails, PinFails, StageFails, CommitFails, Fail
<1>3. ~Withdraw(p) /\ ~Finish(p) /\ ~Crash(p) BY DEF Withdraw, Finish, Crash
<1>4. ~Claim(p) /\ ~ClaimNothing(p) /\ ~ClaimFails(p) /\ ~Remove(p) /\ ~RemoveFails(p)
      /\ ~GiveBack(p) /\ ~GiveBackFails(p)
  BY DEF Claim, ClaimNothing, ClaimFails, Remove, RemoveFails, GiveBack, GiveBackFails, Undoing
<1>5. Pin(p) => pc'[p] = "walk" BY DEF Pin
<1>6. Start(p) \/ Miss(p) \/ Stage(p) \/ Commit(p) \/ Descend(p) \/ Open(p) \/ Make(p) \/ Pin(p)
  BY <1>2, <1>3, <1>4 DEF RunStep, Prepare, Publish, Undo
<1>7. Walking(p) \/ pc[p] = "publish"
  BY <1>6 DEF Start, Miss, Stage, Commit, Descend, Open, Make, Pin
<1> QED BY <1>5, <1>6, <1>7

(* A run extends its path, and changes no link of it.                      *)
LEMMA FoundOwn ==
  ASSUME IInv, NEW p \in Processes, RunStep(p), Quiet, FoundAt(p)
  PROVE  FoundAt(p)'
<1> SUFFICES ASSUME Quiet', Going(p)' PROVE FoundAt(p)' BY DEF FoundAt
<1>1. TypeInv /\ OneName /\ UnlinkedIsEmpty /\ OutcomeAt(p) BY DEF IInv, NamesInv
<1>2. /\ Walking(p) \/ pc[p] = "publish"
      /\ \/ Start(p) \/ Miss(p) \/ Stage(p) \/ Commit(p)
         \/ Descend(p) \/ Open(p) \/ Make(p) \/ (Pin(p) /\ pc'[p] = "walk")
  BY <1>1, GoingActs
<1>3. Going(p) /\ level[p] \in Nat /\ cur[p] \in Dirs /\ root[p] \in Dirs \cup {NoDir}
  BY <1>1, <1>2, RoomIs DEF Going, TypeInv, RunType
<1>4. pc'[p] # "idle"
  BY <1>1, <1>2 DEF Start, Miss, Stage, Commit, Descend, Open, Make, Pin, At, Goto, TypeInv, RunType
<1>5. ~Walking(p) => root[p] # NoDir BY <1>3 DEF FoundAt
<1>6. root[p] # NoDir => p \in stuff[root[p]] /\ p \in stuff'[root[p]]
  <2>1. pc[p] # "withdraw" BY <1>2 DEF Walking
  <2> QED BY <1>1, <1>3, <2>1, FilesKept DEF FoundAt
<1>7. PICK n \in 0 .. level[p] : \E f \in [0 .. n -> Dirs] : Reaches(p, n, f) BY <1>3 DEF FoundAt
<1>8. PICK f \in [0 .. n -> Dirs] : Reaches(p, n, f) BY <1>7
<1>9. n \in Nat /\ \A i \in 0 .. n - 1 : /\ i \in 0 .. n /\ i + 1 \in 0 .. n
                                         /\ f[i] \in Dirs /\ f[i + 1] \in Dirs
  BY <1>3, <1>7, <1>8
<1>10. \A i \in 0 .. n - 1 : next'[f[i]] = next[f[i]] => Leads(p, f[i], f[i + 1])'
  BY <1>1, <1>2, <1>8, <1>9, LeadsOwn DEF Reaches, Route
<1>11. (next[cur[p]] # NoDir \/ Linked(cur[p])) /\ Walking(p) => n = level[p] /\ f[n] = cur[p]
  <2>1. next[cur[p]] # NoDir => Linked(cur[p]) BY <1>1, <1>3 DEF UnlinkedIsEmpty, Empty
  <2> QED BY <1>8, <2>1 DEF Reaches
<1>13. CASE Start(p) \/ Miss(p) \/ Stage(p) \/ Commit(p)
  <2>1. UNCHANGED <<next, claim, cur, level, root>>
    BY <1>13 DEF Start, Miss, Stage, Commit, names, walk
  <2>2. Walking(p)' => Walking(p)
    BY <1>1, <1>13 DEF Start, Miss, Stage, Commit, At, Goto, Walking, TypeInv, RunType
  <2>3. ~Walking(p)' => root[p] # NoDir
    BY <1>1, <1>5, <1>13 DEF Start, Miss, Stage, Commit, At, Goto, Walking, TypeInv, RunType
  <2>4. Linked(cur[p])' <=> Linked(cur[p]) BY <2>1 DEF Linked
  <2>5. Route(p, n, f)' BY <1>8, <1>10, <2>1 DEF Reaches, Route
  <2>6. Reaches(p, n, f)' BY <1>8, <2>1, <2>2, <2>4, <2>5 DEF Reaches
  <2> QED BY <1>4, <1>6, <2>1, <2>3, <2>6 DEF FoundAt
<1>14. CASE Descend(p) \/ Open(p)
  <2>1. /\ next[cur[p]] # NoDir /\ UNCHANGED <<next, claim, root>>
        /\ cur'[p] = next[cur[p]] /\ level'[p] = level[p] + 1
        /\ Walking(p) /\ Walking(p)'
    BY <1>1, <1>14 DEF Descend, Open, Enter, At, Goto, names, Walking, TypeInv, RunType
  <2>2. n = level[p] /\ f[n] = cur[p] /\ next[cur[p]] \in Dirs BY <1>1, <1>3, <1>11, <2>1, CurGoesOn
  <2>3. PICK g \in [0 .. n + 1 -> Dirs] :
          g[n + 1] = next[cur[p]] /\ \A i \in 0 .. n : g[i] = f[i]
    <3> DEFINE h == [i \in 0 .. n + 1 |-> IF i <= n THEN f[i] ELSE next[cur[p]]]
    <3>1. /\ h \in [0 .. n + 1 -> Dirs] /\ h[n + 1] = next[cur[p]]
          /\ \A i \in 0 .. n : h[i] = f[i]
      BY <1>9, <2>2
    <3> QED BY <3>1
  <2>4. \A i \in 0 .. n - 1 : Leads(p, f[i], f[i + 1]) BY <1>8 DEF Reaches, Route
  <2>5. ASSUME NEW i \in 0 .. n PROVE f[i] # next[cur[p]]
    <3>1. CASE i = 0 BY <1>1, <1>3, <1>8, <3>1 DEF OneName, Reaches, Route
    <3>2. CASE i # 0
      <4>1. i - 1 \in 0 .. n - 1 /\ (i - 1) + 1 = i /\ i - 1 \in 0 .. n /\ n \in 0 .. n /\ i - 1 # n
        BY <1>9, <3>2
      <4>2. Leads(p, f[i - 1], f[i]) /\ f[i - 1] \in Dirs /\ f[i] \in Dirs BY <1>9, <2>4, <4>1
      <4>3. f[i - 1] # f[n] BY <1>8, <4>1 DEF Reaches, Route
      <4>4. ~Leads(p, cur[p], f[i]) BY <1>1, <1>3, <2>2, <4>2, <4>3, LeadsIs
      <4> QED BY <4>4 DEF Leads
    <3> QED BY <3>1, <3>2
  <2>6. \A i, j \in 0 .. n + 1 : g[i] = g[j] => i = j
    <3>1. \A i \in 0 .. n + 1 : i \in 0 .. n \/ i = n + 1 BY <1>9
    <3>2. \A i, j \in 0 .. n : f[i] = f[j] => i = j BY <1>8 DEF Reaches, Route
    <3> QED BY <2>3, <2>5, <3>1, <3>2
  <2>7. ASSUME NEW i \in 0 .. n PROVE Leads(p, g[i], g[i + 1])'
    <3>1. CASE i = n BY <2>1, <2>2, <2>3, <3>1 DEF Leads
    <3>2. CASE i # n
      <4>1. i \in 0 .. n - 1 /\ i + 1 \in 0 .. n BY <1>9, <3>2
      <4> QED BY <1>10, <2>1, <2>3, <4>1
    <3> QED BY <3>1, <3>2
  <2>8. Route(p, n + 1, g)'
    <3>1. g[0] = Base /\ (n + 1) - 1 = n BY <1>8, <1>9, <2>3 DEF Reaches, Route
    <3> QED BY <2>6, <2>7, <3>1 DEF Route
  <2>9. root[p] # NoDir => RootLevel <= n + 1 /\ g[RootLevel] = root[p]
    <3>1. root[p] # NoDir => RootLevel \in 0 .. n /\ f[RootLevel] = root[p]
      BY <1>8, <1>9, DirectoryAssumption DEF Reaches
    <3> QED BY <1>9, <2>3, <3>1
  <2>10. Reaches(p, n + 1, g)' BY <2>1, <2>2, <2>3, <2>8, <2>9 DEF Reaches
  <2>11. n + 1 \in 0 .. level'[p] BY <1>9, <2>1, <2>2
  <2> QED BY <1>4, <1>6, <2>1, <2>3, <2>10, <2>11 DEF FoundAt
<1>15. CASE Make(p)
  <2>1. UNCHANGED <<claim, cur, level, root>> /\ Walking(p) /\ Walking(p)'
    BY <1>1, <1>15 DEF Make, walk, At, Goto, Walking, TypeInv, RunType
  <2>2. cur[p] \in Held(p) BY <1>15 DEF Make, At, Held, Live
  <2>3. Linked(cur[p])' => Linked(cur[p])
    <3>1. \A e \in Dirs : e \in Held(p) /\ Linked(e)' => Linked(e) BY OpenStaysAway
    <3>2. Linked(cur[p])' => Linked(cur[p])' /\ cur'[p] = cur[p] BY <2>1
    <3> QED BY <1>3, <2>1, <2>2, <3>1 DEF Linked
  <2>4. ASSUME NEW i \in 0 .. n - 1 PROVE next'[f[i]] = next[f[i]]
    <3>1. CASE next' = next BY <3>1
    <3>2. CASE Linked(cur[p]) /\ \E d \in Dirs : next' = [next EXCEPT ![cur[p]] = d]
      <4>1. f[n] = cur[p] /\ n \in 0 .. n /\ i \in 0 .. n /\ i # n BY <1>9, <1>11, <2>1, <3>2
      <4>2. f[i] # cur[p] BY <1>8, <4>1 DEF Reaches, Route
      <4> QED BY <1>1, <1>9, <3>2, <4>2 DEF TypeInv, NameType
    <3> QED BY <1>15, <3>1, <3>2 DEF Make, Allocatable
  <2>5. Route(p, n, f)' BY <1>8, <1>10, <2>4 DEF Reaches, Route
  <2>6. Reaches(p, n, f)' BY <1>8, <2>1, <2>3, <2>5 DEF Reaches
  <2> QED BY <1>4, <1>6, <2>1, <2>6 DEF FoundAt
<1>16. CASE Pin(p) /\ pc'[p] = "walk"
  <2>1. /\ UNCHANGED <<next, claim, cur, level>> /\ Walking(p) /\ Walking(p)'
        /\ root'[p] = cur[p] /\ p \in stuff'[cur[p]] /\ Linked(cur[p]) /\ level[p] = RootLevel
    BY <1>1, <1>3, <1>16 DEF Pin, names, At, Walking, TypeInv, RunType, NameType
  <2>2. n = level[p] /\ f[n] = cur[p] BY <1>11, <2>1
  <2>3. Route(p, n, f)' BY <1>8, <1>10, <2>1 DEF Reaches, Route
  <2>4. RootLevel <= n /\ f[RootLevel] = cur[p] BY <1>9, <2>1, <2>2
  <2>5. Reaches(p, n, f)' BY <2>1, <2>2, <2>3, <2>4 DEF Reaches
  <2> QED BY <1>4, <2>1, <2>5 DEF FoundAt
<1> QED BY <1>2, <1>13, <1>14, <1>15, <1>16

-----------------------------------------------------------------------------
(* Naturals.                                                               *)

(* A set of naturals that is not empty has a least element.                *)
LEMMA LeastNatural ==
  ASSUME NEW T, T \subseteq Nat, T # {}
  PROVE  \E x \in T : \A y \in T : x <= y
<1>1. IsWellFoundedOn(OpToRel(<,Nat), Nat)
  BY NatLessThanWellFounded
<1>2. \E x \in T : \A y \in T : ~ (<<y, x>> \in OpToRel(<,Nat))
  BY <1>1, WFMin
<1>3. ASSUME NEW x \in Nat, NEW y \in Nat, ~ (<<y, x>> \in OpToRel(<,Nat))
      PROVE  x <= y
  <2>1. ~(y < x)
    BY <1>3, Zenon DEF OpToRel
  <2> QED BY <2>1
<1> QED BY <1>2, <1>3

(* A set of naturals with 0 and the successor of each of its elements has  *)
(* them all. The library states induction for a predicate; this form needs *)
(* none.                                                                   *)
LEMMA SetInduction ==
  ASSUME NEW S, 0 \in S, \A n \in Nat : n \in S => n + 1 \in S
  PROVE  Nat \subseteq S
<1>1. SUFFICES ASSUME Nat \ S # {} PROVE FALSE
  OBVIOUS
<1>2. PICK x \in Nat \ S : \A y \in Nat \ S : x <= y
  BY <1>1, LeastNatural
<1>3. x # 0 /\ x - 1 \in Nat
  BY <1>2
<1>4. x - 1 \in S
  BY <1>2, <1>3
<1>5. (x - 1) + 1 = x
  BY <1>3
<1> QED BY <1>2, <1>3, <1>4, <1>5

-----------------------------------------------------------------------------
(* Each segment of the path leads on from the one before.                  *)
Onward(d) == IF d = NoDir THEN NoDir ELSE next[d]
LEMMA PathSteps ==
  ASSUME TypeInv
  PROVE  Path[0] = Base /\ \A i \in 1 .. Depth : Path[i] = Onward(Path[i - 1])
<1> DEFINE Targets == Dirs \cup {NoDir}
<1> DEFINE S == {n \in Nat : n <= Depth =>
                   \E f \in [0 .. n -> Targets] :
                     f[0] = Base /\ \A i \in 1 .. n : f[i] = Onward(f[i - 1])}
<1>0. Depth \in Nat /\ Base \in Targets BY DirectoryAssumption
<1>1. 0 \in S
  <2> DEFINE f == [i \in 0 .. 0 |-> Base]
  <2>1. f \in [0 .. 0 -> Targets] /\ f[0] = Base BY <1>0
  <2> HIDE DEF f
  <2> QED BY <2>1
<1>2. ASSUME NEW n \in Nat, n \in S PROVE n + 1 \in S
  <2> SUFFICES ASSUME n + 1 <= Depth
               PROVE  \E f \in [0 .. n + 1 -> Targets] :
                        f[0] = Base /\ \A i \in 1 .. n + 1 : f[i] = Onward(f[i - 1])
    OBVIOUS
  <2>1. PICK f \in [0 .. n -> Targets] : f[0] = Base /\ \A i \in 1 .. n : f[i] = Onward(f[i - 1])
    BY <1>0, <1>2
  <2> DEFINE g == [i \in 0 .. n + 1 |-> IF i <= n THEN f[i] ELSE Onward(f[n])]
  <2>2. Onward(f[n]) \in Targets BY <2>1 DEF Onward, TypeInv, NameType
  <2>3. g \in [0 .. n + 1 -> Targets] BY <2>1, <2>2
  <2>4. g[0] = Base /\ g[n + 1] = Onward(f[n]) /\ \A i \in 0 .. n : g[i] = f[i] BY <2>1
  <2> HIDE DEF g
  <2>5. ASSUME NEW i \in 1 .. n + 1 PROVE g[i] = Onward(g[i - 1])
    <3>1. CASE i <= n BY <3>1, <2>1, <2>4
    <3>2. CASE i = n + 1 BY <3>2, <2>4
    <3> QED BY <3>1, <3>2
  <2> QED BY <2>3, <2>4, <2>5
<1>3. Depth \in S
  <2> HIDE DEF S
  <2> QED BY <1>0, <1>1, <1>2, SetInduction
<1>4. PICK f \in [0 .. Depth -> Targets] :
        f[0] = Base /\ \A i \in 1 .. Depth : f[i] = Onward(f[i - 1])
  BY <1>0, <1>3
<1>5. f = [i \in 0 .. Depth |->
             IF i = 0 THEN Base ELSE IF f[i - 1] = NoDir THEN NoDir ELSE next[f[i - 1]]]
  BY <1>0, <1>4 DEF Onward
<1>6. Path = [i \in 0 .. Depth |->
                IF i = 0 THEN Base ELSE IF Path[i - 1] = NoDir THEN NoDir ELSE next[Path[i - 1]]]
  BY <1>5, Zenon DEF Path
<1>7. 0 \in 0 .. Depth /\ \A i \in 1 .. Depth : i \in 0 .. Depth /\ i # 0 BY <1>0
<1>8. \A i \in 0 .. Depth :
        Path[i] = IF i = 0 THEN Base ELSE IF Path[i - 1] = NoDir THEN NoDir ELSE next[Path[i - 1]]
  BY <1>6, Zenon
<1> QED BY <1>7, <1>8 DEF Onward

(* When nobody has anything under a claim name, the path follows the route *)
(* of a run.                                                               *)
LEMMA PathFollows ==
  ASSUME TypeInv, NEW p \in Processes, \A q \in Processes : pc[q] \in {"idle", "done"},
         NEW n \in Nat, NEW f \in [0 .. n -> Dirs], Route(p, n, f), n <= Depth
  PROVE  \A i \in 0 .. n : Path[i] = f[i]
<1> DEFINE S == {i \in Nat : i <= n => Path[i] = f[i]}
<1>1. 0 \in S BY PathSteps DEF Route
<1>2. ASSUME NEW i \in Nat, i \in S PROVE i + 1 \in S
  <2> SUFFICES ASSUME i + 1 <= n PROVE Path[i + 1] = f[i + 1] OBVIOUS
  <2>1. i \in 0 .. n - 1 /\ i \in 0 .. n /\ i + 1 \in 1 .. Depth /\ (i + 1) - 1 = i /\ Path[i] = f[i]
    BY <1>2, DirectoryAssumption
  <2>2. Path[i + 1] = Onward(f[i]) BY <2>1, PathSteps
  <2>3. f[i] # NoDir BY <2>1, DirectoryAssumption
  <2>4. next[f[i]] = f[i + 1] BY <2>1 DEF Route, Leads, Kept
  <2> QED BY <2>2, <2>3, <2>4 DEF Onward
<1>3. Nat \subseteq S
  <2> HIDE DEF S
  <2> QED BY <1>1, <1>2, SetInduction
<1> QED BY <1>3

LEMMA FoundInit == Init => Found
<1> SUFFICES ASSUME Init, NEW p \in Processes PROVE FoundAt(p) BY DEF Found
<1>1. /\ pc[p] = "idle" /\ cur[p] = Base /\ level[p] = 0 /\ root[p] = NoDir
      /\ outcome[p] = "none"
  BY DEF Init
<1> DEFINE f == [i \in 0 .. 0 |-> Base]
<1>2. f \in [0 .. 0 -> Dirs] /\ f[0] = Base BY DirectoryAssumption
<1> HIDE DEF f
<1>3. Route(p, 0, f)
  <2>1. \A i, j \in 0 .. 0 : i = j OBVIOUS
  <2>2. 0 .. 0 - 1 = {} OBVIOUS
  <2> QED BY <1>2, <2>1, <2>2 DEF Route
<1>4. Reaches(p, 0, f) BY <1>1, <1>2, <1>3 DEF Reaches
<1>5. 0 \in 0 .. level[p] BY <1>1
<1> QED BY <1>1, <1>2, <1>4, <1>5 DEF FoundAt, Walking

LEMMA FoundNext == IInv /\ TwoRuns /\ Found /\ [Next]_vars => Found'
<1> SUFFICES ASSUME IInv, TwoRuns, Found, [Next]_vars, NEW p \in Processes PROVE FoundAt(p)'
  BY DEF Found
<1> SUFFICES ASSUME Quiet' PROVE FoundAt(p)' BY DEF FoundAt
<1>1. Quiet /\ ~Edit /\ FoundAt(p) BY QuietBefore DEF Found
<1>2. ASSUME NEW q \in Processes, RunStep(q) PROVE FoundAt(p)'
  <2>1. CASE q = p BY <1>1, <1>2, <2>1, FoundOwn
  <2>2. CASE q # p
    <3>1. q \in Processes \ {p} BY <2>2
    <3> QED BY <1>1, <1>2, <3>1, FoundOther
  <2> QED BY <2>1, <2>2
<1>3. CASE UNCHANGED vars
  <2>1. UNCHANGED <<next, claim, stuff, pc, cur, level, root, made, outcome>>
    BY <1>3 DEF vars, names, walk, report
  <2>2. \A q \in Processes, c, d \in Dirs : Kept(q, c, d)' <=> Kept(q, c, d)
    BY <2>1 DEF Kept, Parent, Turn, Todo
  <2>3. \A c, d \in Dirs : Leads(p, c, d)' <=> Leads(p, c, d) BY <2>1, <2>2 DEF Leads
  <2>4. (Walking(p)' <=> Walking(p)) /\ (Going(p)' <=> Going(p))
        /\ (Linked(cur[p])' <=> Linked(cur[p]))
    BY <2>1 DEF Walking, Going, Linked
  <2> SUFFICES ASSUME Going(p) PROVE FoundAt(p)' BY <2>4 DEF FoundAt
  <2>5. PICK n \in 0 .. level[p] : \E f \in [0 .. n -> Dirs] : Reaches(p, n, f)
    BY <1>1 DEF FoundAt
  <2>6. PICK f \in [0 .. n -> Dirs] : Reaches(p, n, f) BY <2>5
  <2>7. level[p] \in Nat BY RoomIs DEF IInv
  <2>8. \A i \in 0 .. n - 1 : i \in 0 .. n /\ i + 1 \in 0 .. n BY <2>5, <2>7
  <2>9. Route(p, n, f)' BY <2>3, <2>6, <2>8 DEF Reaches, Route
  <2>10. Reaches(p, n, f)' BY <2>1, <2>4, <2>6, <2>9 DEF Reaches
  <2> QED BY <1>1, <2>1, <2>4, <2>5, <2>10 DEF FoundAt
<1> QED BY <1>1, <1>2, <1>3 DEF Next, RunStep

(* When both runs have ended, a bundle that was published is where its     *)
(* path leads, although the other run has had the directories that it made *)
(* and that the bundle is in under a claim name meanwhile                  *)
(* (remove_owned_directory). With a third run it can fail: that one may    *)
(* make a directory where the one to be given back was.                    *)
THEOREM FoundHolds == Spec => [](TwoRuns => PublishedIsFound)
<1> DEFINE Inv == IInv /\ (TwoRuns => Found)
<1>1. Init => Inv BY IInvInit, FoundInit
<1>2. Inv /\ [Next]_vars => Inv' BY IInvNext, FoundNext DEF TwoRuns
<1>3. Inv => (TwoRuns => PublishedIsFound)
  <2> SUFFICES ASSUME IInv, TwoRuns, Found, edits = 0, ~slip,
                      \A q \in Processes : pc[q] \in {"idle", "done"},
                      NEW p \in Processes, outcome[p] = "committed"
               PROVE  Path[RootLevel] = root[p]
    BY DEF PublishedIsFound
  <2>1. TypeInv /\ pc[p] = "done" BY DEF IInv, OutcomeAt
  <2>2. Quiet /\ Going(p) /\ ~Walking(p) BY <2>1 DEF Quiet, Going, Walking
  <2>3. root[p] # NoDir BY <2>2 DEF Found, FoundAt
  <2>4. PICK n \in 0 .. level[p] : \E f \in [0 .. n -> Dirs] : Reaches(p, n, f)
    BY <2>2 DEF Found, FoundAt
  <2>5. PICK f \in [0 .. n -> Dirs] : Reaches(p, n, f) BY <2>4
  <2>6. n \in Nat /\ n <= Depth /\ RootLevel \in 0 .. n
    BY <2>1, <2>3, <2>4, <2>5, DirectoryAssumption DEF Reaches, TypeInv, RunType
  <2>7. \A i \in 0 .. n : Path[i] = f[i] BY <2>1, <2>5, <2>6, PathFollows DEF Reaches
  <2> QED BY <2>3, <2>5, <2>6, <2>7 DEF Reaches
<1> QED BY <1>1, <1>2, <1>3, PTL DEF Spec
=============================================================================
