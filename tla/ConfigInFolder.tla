---------------------------- MODULE ConfigInFolder ----------------------------
(***************************************************************************)
(* Config and CreateFolder together: Config::Init() makes the folder of the*)
(* file before it reads it, and a folder that is not there makes the first *)
(* write fail and the worker with it.  The daemon passes ".", which is one *)
(* of the initial states; Config takes any folder.                         *)
(*                                                                         *)
(* Code: src/Daemon/config/config.cpp, common_utils/filesystem.cpp         *)
(***************************************************************************)
EXTENDS Config

CONSTANTS
  Depth,    \* components of the path of the folder
  Nobody    \* who made a component that no worker made

VARIABLES
  dirs, limit, creator,  \* the folder, as in CreateFolder
  making, level,         \* where each worker is in CreateFolder()
  killed                 \* history: a worker was killed while it was in there

folderVars == <<dirs, limit, creator, making, level>>
allVars == <<vars, folderVars, killed>>

Folder == INSTANCE CreateFolder WITH Callers <- Procs, pc <- making

FolderThere == Depth = 0 \/ Depth \in dirs

-----------------------------------------------------------------------------
\* A file has a folder around it, and a folder that is there may be there.
InitInFolder ==
  /\ Init /\ Folder!Init
  /\ file.is # "none" => FolderThere
  /\ FolderThere => limit = Depth
  /\ killed = FALSE

InFolder(p) == pc[p] = "read" /\ making[p] # "done"

\* A step of CreateFolder().
MakeFolder(p) ==
  /\ InFolder(p)
  /\ Folder!Step(p)
  /\ UNCHANGED <<vars, killed>>

\* write_json() cannot open the file; Write() makes a runtime_error of it, which
\* nothing catches.
CannotOpen(p) ==
  /\ pc[p] = "put" /\ ~FolderThere
  /\ Ends(p)
  /\ UNCHANGED <<file, given, starts>>

ReadInFolder(p) == making[p] = "done" /\ Read(p)
TruncateInFolder(p) == FolderThere /\ Truncate(p)

\* What a process does outside CreateFolder(); its next start calls it anew.
StepInFolder(p) ==
  /\ \/ ReadInFolder(p) \/ Get(p) \/ CannotOpen(p) \/ TruncateInFolder(p)
     \/ Write(p) \/ UseSymbols(p)
  /\ IF pc'[p] = "down" THEN Folder!Restart(p) ELSE UNCHANGED folderVars
  /\ UNCHANGED killed

StartInFolder(p) == Start(p) /\ UNCHANGED <<folderVars, killed>>

ExitInFolder(p) ==
  /\ Exit(p)
  /\ Folder!Restart(p)
  /\ killed' = (killed \/ InFolder(p))

RunInFolder(p) == MakeFolder(p) \/ StepInFolder(p)

NextInFolder == \E p \in Procs : StartInFolder(p) \/ RunInFolder(p) \/ ExitInFolder(p)

\* The processes are scheduled.
SpecInFolder ==
  /\ InitInFolder /\ [][NextInFolder]_allVars
  /\ \A p \in Procs : WF_allVars(RunInFolder(p))

-----------------------------------------------------------------------------
(* Properties; SettingsKept, StartEnds and UserSymbolsUsed are those of Config. *)

\* The type of the state of both; a file that is there is in a folder.
TypesOK ==
  /\ TypeOK /\ Folder!TypeOK
  /\ file.is # "none" => FolderThere
  /\ \A p \in Procs : pc[p] = "down" => making[p] = "begin"
  /\ \A p \in Procs : pc[p] \notin {"down", "read"} => making[p] = "done"

\* CreateFolder() returns without an error when another worker made a level before
\* it did, with the rest of the path still missing.  Such a worker then dies at its
\* first write, but only while the other one is making the rest: a folder that may
\* be made is never left to nobody, unless a worker is killed within CreateFolder().
FolderNotAbandoned ==
  \A p \in Procs :
    making[p] = "done" /\ limit = Depth /\ ~killed /\ ~FolderThere =>
      \E q \in Procs : InFolder(q) /\ making[q] # "begin"

=============================================================================
