-------------------------------- MODULE Config --------------------------------
(***************************************************************************)
(* The settings of the daemon: every worker reads daemon.cfg when its      *)
(* Controller is constructed, then config::Daemon::Init() writes each      *)
(* setting back, the default where there is none, and each of these writes *)
(* truncates the file and writes the whole tree anew.  Workers may overlap *)
(* (an orphan and its successor, two launches) and may be killed between   *)
(* any two steps.                                                          *)
(* The keys are found by KeyManager, which knows all of them; the folder   *)
(* is ".", so that CreateFolder() has nothing to do.                       *)
(*                                                                         *)
(* Code: src/Daemon/config                                                 *)
(***************************************************************************)
EXTENDS Naturals, Sequences

CONSTANTS
  Procs,      \* worker processes
  Given,      \* what daemon.cfg may hold at the first start: records of type Tree
  FirstStart, \* TRUE: there may be no file at first
  Crashes,    \* TRUE: a process may be killed
  MaxStarts   \* bound: starts of workers

VARIABLES
  file,       \* daemon.cfg: whether it is there and can be parsed, and its tree
  given,      \* history: the tree of the user
  pc,         \* what each process does
  root,       \* Config::root of each process
  locked,     \* Config::mtx is owned, by the one thread there is so far
  next,       \* the place in InitOrder of the setting to write next
  symbols,    \* the local variable symbols of UpdatePrices
  starts

vars == <<file, given, pc, root, locked, next, symbols, starts>>
local == <<root, locked, next, symbols>>

-----------------------------------------------------------------------------
(* Trees, and the order in which Init() writes settings. *)

Scalars == {"log_path", "db_path", "interface", "port", "url", "tocken",
            "update_price_timeout_sec"}
Symbols == "update_symbols"

\* The timeout is asked for as an int; "text" is a value that is none.
Value == {"absent", "default", "user", "text"}

\* arrays: the children called update_symbols, of which a path leads to the first.
Tree == [value : [Scalars -> Value], arrays : Seq({"default", "user"})]
Empty == [value |-> [k \in Scalars |-> "absent"], arrays |-> <<>>]

File == [is : {"none", "torn", "whole"}, tree : Tree]
NoFile == [is |-> "none", tree |-> Empty]
Torn == [is |-> "torn", tree |-> Empty]
Whole(t) == [is |-> "whole", tree |-> t]

\* What the length of the file depends on.
Size(t) == <<{k \in Scalars : t.value[k] # "absent"}, Len(t.arrays)>>
Longer(t, u) == Len(t.arrays) > Len(u.arrays) \/ \E k \in Size(t)[1] : k \notin Size(u)[1]

ASSUME ConfigAssumption ==
  /\ Given \subseteq Tree
  /\ FirstStart \in BOOLEAN /\ Crashes \in BOOLEAN /\ MaxStarts \in Nat

InitOrder_SymbolsFirst ==
  <<"log_path", "db_path", "interface", "port", "url", "tocken", Symbols,
    "update_price_timeout_sec">>
InitOrder ==
  <<"log_path", "db_path", "interface", "port", "url", "tocken",
    "update_price_timeout_sec", Symbols>>

\* The key GetIEXUpdateSymbols() asks GetArray() for.
SymbolsKey == "update_price_timeout_sec"

Init ==
  /\ \/ given = Empty /\ FirstStart /\ file = NoFile
     \/ given \in Given /\ file = Whole(given)
  /\ pc = [p \in Procs |-> "down"]
  /\ root = [p \in Procs |-> Empty]
  /\ locked = [p \in Procs |-> FALSE]
  /\ next = [p \in Procs |-> 1]
  /\ symbols = [p \in Procs |-> "absent"]
  /\ starts = 0

Goto(p, l) == pc' = [pc EXCEPT ![p] = l]

\* The process has ended, and what it had in memory with it.
Ends(p) ==
  /\ Goto(p, "down")
  /\ root' = [root EXCEPT ![p] = Empty]
  /\ locked' = [locked EXCEPT ![p] = FALSE]
  /\ next' = [next EXCEPT ![p] = 1]
  /\ symbols' = [symbols EXCEPT ![p] = "absent"]

-----------------------------------------------------------------------------
(* GetString and GetArray. *)

GetString(t, k) == IF t.value[k] = "absent" THEN "default" ELSE t.value[k]
GetThrows(t, k) == k = "update_price_timeout_sec" /\ GetString(t, k) = "text"

\* A scalar is there, but has no children.
GetArray(t, k) ==
  IF k = Symbols /\ t.arrays # <<>> THEN t.arrays[1] ELSE "default"
HasPath(t, k) == IF k = Symbols THEN t.arrays # <<>> ELSE t.value[k] # "absent"

\* GetArray() holds mtx when it finds no path and calls Write(), which locks mtx.
\* The processes that get there stay there.
GetSymbols(p, there) ==
  IF HasPath(root[p], SymbolsKey)
  THEN Goto(p, there) /\ UNCHANGED locked
  ELSE Goto(p, "self_lock") /\ locked' = [locked EXCEPT ![p] = TRUE]

-----------------------------------------------------------------------------
(* Config::Init, config::Daemon::Init. *)

Start(p) ==
  /\ pc[p] = "down" /\ starts < MaxStarts
  /\ starts' = starts + 1
  /\ Goto(p, "read")
  /\ UNCHANGED <<file, given, local>>

\* A file that cannot be parsed throws, and nothing catches it.
Readable_Ignored == TRUE
Readable == file.is # "torn"

Read(p) ==
  /\ pc[p] = "read"
  /\ IF Readable
     THEN /\ root' = [root EXCEPT ![p] = file.tree]
          /\ Goto(p, "get")
          /\ UNCHANGED <<locked, next, symbols>>
     ELSE Ends(p)
  /\ UNCHANGED <<file, given, starts>>

\* The value to write: what the tree has, or the default.
Get(p) ==
  LET k == InitOrder[next[p]] IN
  /\ pc[p] = "get"
  /\ IF k = Symbols THEN GetSymbols(p, "put") /\ UNCHANGED <<root, next, symbols>>
     ELSE IF GetThrows(root[p], k) THEN Ends(p)
     ELSE Goto(p, "put") /\ UNCHANGED local
  /\ UNCHANGED <<file, given, starts>>

\* root.find() looks for a child whose name is the whole path and never finds it.
Put(t, k) ==
  IF k = Symbols THEN [t EXCEPT !.arrays = Append(@, GetArray(t, SymbolsKey))]
  ELSE [t EXCEPT !.value[k] = GetString(t, k)]

\* What owning mtx is for p once it has entered WriteString() or Write().
Locked_Unguarded(p) == locked
Locked(p) == [locked EXCEPT ![p] = TRUE]

\* write_json(): the file is opened, which truncates it ...
Truncate(p) ==
  /\ pc[p] = "put"
  /\ root' = [root EXCEPT ![p] = Put(root[p], InitOrder[next[p]])]
  /\ file' = Torn
  /\ locked' = Locked(p)
  /\ Goto(p, "write")
  /\ UNCHANGED <<given, next, symbols, starts>>

\* ... and written from its beginning, over what another process wrote since: of
\* a longer text the end remains.
Write(p) ==
  /\ pc[p] = "write"
  /\ file' = IF Longer(file.tree, root[p]) THEN Torn ELSE Whole(root[p])
  /\ locked' = [locked EXCEPT ![p] = FALSE]
  /\ next' = [next EXCEPT ![p] = @ + 1]
  /\ Goto(p, IF next'[p] > Len(InitOrder) THEN "up" ELSE "get")
  /\ UNCHANGED <<given, root, symbols, starts>>

-----------------------------------------------------------------------------
(* Later on. *)

\* UpdatePrices asks for the symbols once.
UseSymbols(p) ==
  /\ pc[p] = "up"
  /\ GetSymbols(p, "running")
  /\ symbols' = [symbols EXCEPT ![p] = GetArray(root[p], SymbolsKey)]
  /\ UNCHANGED <<file, given, root, next, starts>>

\* A worker ends, one way or another; within a start, if it is killed.
Exit(p) ==
  /\ pc[p] = "running" \/ (Crashes /\ pc[p] # "down")
  /\ Ends(p)
  /\ UNCHANGED <<file, given, starts>>

Step(p) == Read(p) \/ Get(p) \/ Truncate(p) \/ Write(p) \/ UseSymbols(p)

Next == \E p \in Procs : Start(p) \/ Step(p) \/ Exit(p)

Spec == Init /\ [][Next]_vars

\* The processes are scheduled.
FairSpec == Spec /\ \A p \in Procs : WF_vars(Step(p))

-----------------------------------------------------------------------------
(* Properties. *)

\* The type of the state; mtx is owned while the file is being written.
TypeOK ==
  /\ file \in File /\ given \in Tree
  /\ pc \in [Procs -> {"down", "read", "get", "put", "write", "up", "running", "self_lock"}]
  /\ root \in [Procs -> Tree]
  /\ \A p \in Procs : locked[p] <=> pc[p] \in {"write", "self_lock"}
  /\ next \in [Procs -> 1..(Len(InitOrder) + 1)]
  /\ \A p \in Procs : pc[p] \in {"get", "put", "write"} => next[p] <= Len(InitOrder)
  /\ symbols \in [Procs -> {"absent", "default", "user"}]
  /\ starts \in 0..MaxStarts

\* What the user set is never replaced by a default, neither in a file that can
\* be parsed nor in a worker that is past reading it, though every start writes
\* the file eight times, workers overlap and are killed with the file truncated.
\* (A file that was torn like this stays torn: no worker starts until it is
\* removed.)
Keeps(t) ==
  /\ \A k \in Scalars : given.value[k] # "absent" => t.value[k] = given.value[k]
  /\ given.arrays # <<>> => t.arrays # <<>> /\ t.arrays[1] = given.arrays[1]

SettingsKept ==
  /\ file.is = "whole" => Keeps(file.tree)
  /\ \A p \in Procs : pc[p] \notin {"down", "read"} => Keeps(root[p])

\* Reading and writing the settings comes to an end: no worker waits for a mutex
\* it owns, because the timeout, whose key GetArray() is asked for, is written
\* before the symbols are asked for.
StartEnds == \A p \in Procs : pc[p] = "read" ~> pc[p] \in {"running", "down"}

\* The update list is the one of the file (config_daemon.cpp:53 writes it there).
UserSymbolsUsed ==
  \A p \in Procs : pc[p] = "running" /\ given.arrays # <<>> => symbols[p] = given.arrays[1]

=============================================================================
