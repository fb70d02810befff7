-------------------------- MODULE CreateFolderProofs --------------------------
(***************************************************************************)
(* Proofs about CreateFolder, for any number of callers, any path and any  *)
(* number of restarts.                                                     *)
(*                                                                         *)
(* FolderExistsAfterAll speaks of the end only.  What carries it is that   *)
(* whoever made a level does not return before the next one exists: a      *)
(* caller that finds its level made by another can leave the rest to it.   *)
(***************************************************************************)
EXTENDS CreateFolder, TLAPS

\* The levels that exist are the first ones, up to some level.
Prefix == \E d \in 0..Depth : dirs = 1..d

\* All levels above the one a caller is at exist.
Visited ==
  \A c \in Callers : pc[c] \in {"stat", "mkdir"} => \A k \in 1..(level[c] - 1) : k \in dirs

\* What exists from the level on that a caller found missing was made since, by
\* others.
SawMissing ==
  \A c \in Callers : pc[c] = "mkdir" =>
    \A k \in dirs : k >= level[c] => creator[k] # c /\ creator[k] # Nobody

\* Who made a level returns when the next one exists or may not be made.
MakersGoOn ==
  \A k \in Levels : \A c \in Callers : creator[k] = c =>
    k \in dirs /\ (pc[c] = "done" /\ k < limit => k + 1 \in dirs)

\* Nobody returns from a path that is incomplete and to which nobody added.
NobodyGaveUp ==
  \A d \in 0..Depth :
    dirs = 1..d /\ d < limit /\ (d \in dirs => creator[d] = Nobody) =>
      \A c \in Callers : pc[c] # "done"

IInv ==
  /\ CreateFolderAssumption
  /\ TypeOK /\ Prefix /\ Visited /\ SawMissing /\ MakersGoOn /\ NobodyGaveUp

USE DEF CreateFolderAssumption

\* Nothing was called yet.
LEMMA InitIInv == CreateFolderAssumption /\ Init => IInv
<1> SUFFICES ASSUME CreateFolderAssumption, Init PROVE IInv
  OBVIOUS
<1> USE DEF Init, Levels
<1>1. TypeOK
  BY DEF TypeOK
<1>2. Prefix /\ NobodyGaveUp
  BY DEF Prefix, NobodyGaveUp
<1>3. Visited /\ SawMissing /\ MakersGoOn
  BY DEF Visited, SawMissing, MakersGoOn
<1> QED
  BY <1>1, <1>2, <1>3 DEF IInv

\* stat(dir): the caller returns only if the path is complete.
LEMMA StatWholeIInv ==
  ASSUME IInv, NEW c \in Callers, StatWhole(c)
  PROVE  IInv'
<1> USE DEF IInv, StatWhole, At, Levels
<1>1. TypeOK'
  BY DEF TypeOK
<1>2. Prefix'
  BY DEF Prefix
<1>a. Visited'
  BY DEF TypeOK, Prefix, Visited
<1>b. SawMissing'
  BY DEF TypeOK, SawMissing
<1>3. MakersGoOn'
  BY DEF TypeOK, Prefix, MakersGoOn
<1>4. NobodyGaveUp'
  BY DEF TypeOK, NobodyGaveUp
<1> QED
  BY <1>1, <1>2, <1>a, <1>b, <1>3, <1>4

\* stat() of a level: on to the next level, or to mkdir() of this one.
LEMMA StatLevelIInv ==
  ASSUME IInv, NEW c \in Callers, StatLevel(c)
  PROVE  IInv'
<1> USE DEF IInv, StatLevel, At, Levels, After, NextLevel, More
<1>1. TypeOK'
  BY DEF TypeOK
<1>2. Prefix'
  BY DEF Prefix
<1>a. Visited'
  <2>1. pc[c] = "stat" /\ level[c] \in Levels /\ \A k \in 1..(level[c] - 1) : k \in dirs
    BY DEF TypeOK, Visited
  <2>2. level'[c] = level[c] \/ (level'[c] = level[c] + 1 /\ level[c] \in dirs)
    BY DEF TypeOK
  <2>3. \A k \in 1..(level'[c] - 1) : k \in dirs'
    BY <2>1, <2>2
  <2>4. \A d \in Callers \ {c} : pc'[d] = pc[d] /\ level'[d] = level[d]
    BY DEF TypeOK
  <2> QED
    BY <2>3, <2>4 DEF Visited
<1>b. SawMissing'
  BY DEF TypeOK, Prefix, SawMissing
<1>3. MakersGoOn'
  <2>1. CASE \A d \in Callers : pc'[d] = "done" => pc[d] = "done"
    BY <2>1 DEF MakersGoOn
  <2>2. CASE pc'[c] = "done" /\ pc[c] = "stat"
    <3>1. Depth \in dirs
      BY <2>2 DEF TypeOK
    <3>2. dirs = 1..Depth
      BY <3>1 DEF Prefix
    <3>3. \A k \in Levels : k \in dirs' /\ (k < limit' => k + 1 \in dirs')
      BY <3>2 DEF TypeOK
    <3> QED
      BY <3>3 DEF MakersGoOn
  <2> QED
    BY <2>1, <2>2 DEF TypeOK
<1>4. NobodyGaveUp'
  BY DEF TypeOK, NobodyGaveUp
<1> QED
  BY <1>1, <1>2, <1>a, <1>b, <1>3, <1>4

\* mkdir() of a level that is still missing: it becomes the last one, and its
\* maker goes on unless nothing is left to make.
LEMMA MakesIInv ==
  ASSUME IInv, NEW c \in Callers, MakeDir(c), CanMake(level[c])
  PROVE  IInv'
<1> DEFINE k == level[c]
<1> USE DEF IInv
<1>1. k \in Levels /\ k \notin dirs /\ k <= limit /\ pc[c] = "mkdir"
  BY DEF MakeDir, At, CanMake, TypeOK
<1>2. /\ dirs' = dirs \cup {k}
      /\ creator' = [creator EXCEPT ![k] = c]
      /\ pc' = [pc EXCEPT ![c] = After(k)]
      /\ level' = [level EXCEPT ![c] = NextLevel(k)]
      /\ limit' = limit
  BY DEF MakeDir, At
<1>3. dirs = 1..(k - 1)
  <2>1. PICK d \in 0..Depth : dirs = 1..d
    BY DEF Prefix
  <2>2. k - 1 = 0 \/ k - 1 \in dirs
    BY <1>1 DEF TypeOK, Visited, Levels
  <2> HIDE DEF k
  <2>3. d = k - 1
    BY <1>1, <2>1, <2>2 DEF Levels
  <2> QED
    BY <2>1, <2>3
<1>4. After(k) \in {"stat", "done"} /\ (After(k) = "done" => k = Depth)
  BY <1>1 DEF After, More, Levels
<1>5. NextLevel(k) \in Levels /\ (After(k) = "stat" => NextLevel(k) = k + 1)
  BY <1>1 DEF After, NextLevel, More, Levels
<1> HIDE DEF k
<1>6. TypeOK'
  BY <1>1, <1>2, <1>4, <1>5 DEF TypeOK, Levels
<1>7. Prefix'
  <2>1. dirs' = 1..k /\ k \in 0..Depth
    BY <1>1, <1>2, <1>3 DEF Levels
  <2> QED
    BY <2>1 DEF Prefix
<1>8. Visited'
  BY <1>1, <1>2, <1>3, <1>4, <1>5 DEF TypeOK, Visited, Levels
<1>9. SawMissing'
  BY <1>1, <1>2, <1>4 DEF TypeOK, SawMissing, Levels
<1>10. MakersGoOn'
  BY <1>1, <1>2, <1>3, <1>4 DEF TypeOK, MakersGoOn, Levels
<1>11. NobodyGaveUp'
  <2> SUFFICES ASSUME NEW d \in 0..Depth, dirs' = 1..d
               PROVE  d \in dirs' /\ creator'[d] # Nobody
    BY DEF NobodyGaveUp
  <2>1. k \in dirs' /\ \A j \in dirs' : j <= k
    BY <1>1, <1>2, <1>3 DEF Levels
  <2>2. d = k
    BY <1>1, <2>1 DEF Levels
  <2> QED
    BY <1>1, <1>2, <2>1, <2>2 DEF TypeOK
<1> QED
  BY <1>6, <1>7, <1>8, <1>9, <1>10, <1>11

\* mkdir() fails: others made the level, or nobody may.
LEMMA GivesUpIInv ==
  ASSUME IInv, NEW c \in Callers, MakeDir(c), ~CanMake(level[c])
  PROVE  IInv'
<1> USE DEF IInv, MakeDir, At, Levels, CanMake
<1>1. TypeOK'
  BY DEF TypeOK
<1>2. Prefix'
  BY DEF Prefix
<1>a. Visited'
  BY DEF TypeOK, Prefix, Visited
<1>b. SawMissing'
  BY DEF TypeOK, SawMissing
<1>3. MakersGoOn'
  BY DEF TypeOK, Prefix, Visited, SawMissing, MakersGoOn
<1>4. NobodyGaveUp'
  BY DEF TypeOK, Prefix, Visited, SawMissing, NobodyGaveUp
<1> QED
  BY <1>1, <1>2, <1>a, <1>b, <1>3, <1>4

\* A caller that ends begins again.
LEMMA RestartIInv ==
  ASSUME IInv, NEW c \in Callers, Restart(c)
  PROVE  IInv'
<1> USE DEF IInv, Restart, At, Levels
<1>1. TypeOK'
  BY DEF TypeOK
<1>2. Prefix'
  BY DEF Prefix
<1>3. Visited'
  BY DEF TypeOK, Visited
<1>4. SawMissing'
  BY DEF TypeOK, SawMissing
<1>5. MakersGoOn'
  BY DEF TypeOK, MakersGoOn
<1>6. NobodyGaveUp'
  BY DEF TypeOK, NobodyGaveUp
<1> QED
  BY <1>1, <1>2, <1>3, <1>4, <1>5, <1>6

\* Every step of every caller preserves the inductive invariant.
THEOREM Inductive == CreateFolderAssumption /\ Spec => []IInv
<1>1. IInv /\ [Next]_vars => IInv'
  <2> SUFFICES ASSUME IInv, [Next]_vars PROVE IInv'
    OBVIOUS
  <2>1. CASE UNCHANGED vars
    BY <2>1 DEF vars, IInv, TypeOK, Prefix, Visited, SawMissing, MakersGoOn, NobodyGaveUp, Levels
  <2>2. CASE Next
    BY <2>2, StatWholeIInv, StatLevelIInv, MakesIInv, GivesUpIInv, RestartIInv DEF Next, Step
  <2> QED
    BY <2>1, <2>2
<1> QED
  BY <1>1, InitIInv, PTL DEF Spec

\* No level is ever made before its parent.
THEOREM ParentsFirst == CreateFolderAssumption /\ Spec => []NoGaps
<1>1. IInv => NoGaps
  BY DEF IInv, TypeOK, Prefix, NoGaps, Levels
<1> QED
  BY <1>1, Inductive, PTL

\* When the last caller has returned, whatever may be made of the path exists.
THEOREM FolderExists == CreateFolderAssumption /\ Spec => []FolderExistsAfterAll
<1>1. IInv => FolderExistsAfterAll
  <2> SUFFICES ASSUME IInv, \A c \in Callers : pc[c] = "done", Callers # {}
               PROVE  1..limit \subseteq dirs
    BY DEF FolderExistsAfterAll
  <2>1. PICK d \in 0..Depth : dirs = 1..d
    BY DEF IInv, Prefix
  <2>2. CASE d \in dirs /\ creator[d] # Nobody
    BY <2>1, <2>2 DEF IInv, TypeOK, MakersGoOn, Levels
  <2>3. CASE d \in dirs => creator[d] = Nobody
    BY <2>1, <2>3 DEF IInv, TypeOK, NobodyGaveUp
  <2> QED
    BY <2>2, <2>3
<1> QED
  BY <1>1, Inductive, PTL

=============================================================================
