----------------------------- MODULE CreateFolder -----------------------------
(***************************************************************************)
(* CreateFolder(dir), called for one path by several processes at a time:  *)
(* it asks for each level of the path with stat() and makes it with        *)
(* mkdir(); when mkdir() fails it returns at once and reports nothing.  A  *)
(* process may be killed in between and its successor calls it again, as   *)
(* overlapping and restarted workers do when they construct their Config.  *)
(* Level k stands for the first k components of the path.                  *)
(*                                                                         *)
(* Code: src/Daemon/common_utils/filesystem.cpp                            *)
(***************************************************************************)
EXTENDS Naturals

CONSTANTS
  Callers,  \* processes that call CreateFolder()
  Nobody,   \* no caller
  Depth     \* components of the path

\* What is assumed of the constants, here by the theorems about this module.
CreateFolderAssumption == Depth \in Nat /\ Nobody \notin Callers

VARIABLES
  dirs,     \* the levels that exist
  limit,    \* mkdir() is refused beyond this level
  creator,  \* history: who made a level, Nobody if it was there or is missing
  pc,       \* the next call of each caller
  level     \* created_dir of each caller: the level it is at

vars == <<dirs, limit, creator, pc, level>>

Levels == 1..Depth

Init ==
  /\ \E e \in 0..Depth : dirs = 1..e
  /\ limit \in 0..Depth
  /\ creator = [k \in Levels |-> Nobody]
  /\ pc = [c \in Callers |-> "begin"]
  /\ level = [c \in Callers |-> 1]

-----------------------------------------------------------------------------
At(c, here, there, k) ==
  /\ pc[c] = here
  /\ pc' = [pc EXCEPT ![c] = there]
  /\ level' = [level EXCEPT ![c] = k]
  /\ UNCHANGED limit

\* The loop goes on to the component after level k, if there is one.
More_AllButLast(k) == k + 1 < Depth
More(k) == k < Depth
After(k) == IF More(k) THEN "stat" ELSE "done"
NextLevel(k) == IF More(k) THEN k + 1 ELSE k

\* The whole path is there, or is empty: nothing to do.
StatWhole(c) ==
  /\ At(c, "begin", IF Depth = 0 \/ Depth \in dirs THEN "done" ELSE "stat", 1)
  /\ UNCHANGED <<dirs, creator>>

StatLevel(c) ==
  /\ IF level[c] \in dirs
     THEN At(c, "stat", After(level[c]), NextLevel(level[c]))
     ELSE At(c, "stat", "mkdir", level[c])
  /\ UNCHANGED <<dirs, creator>>

\* mkdir() fails for a level that another caller has made since, and for one that
\* may not be made; either way CreateFolder() returns.
CanMake(k) == k \notin dirs /\ k <= limit

MakeDir(c) ==
  IF CanMake(level[c])
  THEN /\ At(c, "mkdir", After(level[c]), NextLevel(level[c]))
       /\ dirs' = dirs \cup {level[c]}
       /\ creator' = [creator EXCEPT ![level[c]] = c]
  ELSE At(c, "mkdir", "done", level[c]) /\ UNCHANGED <<dirs, creator>>

\* The caller ends; its successor calls CreateFolder() from the beginning.
Restart(c) ==
  /\ At(c, pc[c], "begin", 1)
  /\ UNCHANGED <<dirs, creator>>

Step(c) == StatWhole(c) \/ StatLevel(c) \/ MakeDir(c)

Next == \E c \in Callers : Step(c) \/ Restart(c)

Spec == Init /\ [][Next]_vars

-----------------------------------------------------------------------------
(* Properties. *)

\* The type of the state.
TypeOK ==
  /\ dirs \subseteq Levels
  /\ limit \in 0..Depth
  /\ creator \in [Levels -> Callers \cup {Nobody}]
  /\ pc \in [Callers -> {"begin", "stat", "mkdir", "done"}]
  /\ level \in [Callers -> Nat]
  /\ \A c \in Callers : pc[c] \in {"stat", "mkdir"} => level[c] \in Levels

\* The levels that exist are the first ones: mkdir() is never called for a level
\* whose parent is missing, whoever else is making the path.
NoGaps == \A k \in dirs : \A j \in 1..k : j \in dirs

\* A caller returns without an error when another made a level before it did, with
\* the rest of the path still missing.  But when the last of them has returned,
\* whatever may be made of the path exists: giving up is always on somebody who
\* goes on, or who is started again.
FolderExistsAfterAll ==
  (\A c \in Callers : pc[c] = "done") => Callers = {} \/ 1..limit \subseteq dirs

=============================================================================
