------------------------- MODULE ConfigInFolderProofs -------------------------
(***************************************************************************)
(* Proofs about Config, for any number of workers that start, overlap and  *)
(* are killed, any number of times, and any file of the user; and about    *)
(* ConfigInFolder, for any folder, too.                                    *)
(*                                                                         *)
(* SettingsKept is inductive once it is known that there is no file only   *)
(* when there never was one.  That nobody waits for the mutex it owns rests*)
(* on the order in which Init() writes: the key by which GetArray() is     *)
(* asked for the symbols is then in the tree.                              *)
(*                                                                         *)
(* With the folder, every step is one of CreateFolder or one that preserves*)
(* the invariant of Config.  That nobody abandons the folder follows from  *)
(* whoever made its last level: by CreateFolderProofs it has not returned, *)
(* and it begins anew only when it is killed in there, or when it returned *)
(* before and the next level exists.                                       *)
(*                                                                         *)
(* That a start ends is a count of the calls and writes it has left.       *)
(***************************************************************************)
EXTENDS ConfigInFolder, TLAPS

(* Config. *)

Timeout == "update_price_timeout_sec"

\* The shape of the state.
Shape ==
  /\ file \in File /\ given \in Tree
  /\ pc \in [Procs -> {"down", "read", "get", "put", "write", "up", "running", "self_lock"}]
  /\ root \in [Procs -> Tree]
  /\ next \in [Procs -> 1..9]
  /\ \A p \in Procs : pc[p] \in {"get", "put", "write"} => next[p] \in 1..8
  /\ \A p \in Procs : pc[p] \in {"down", "read"} => next[p] = 1

\* No file means that there never was one.
NoneAtFirst == file.is = "none" => given = Empty

\* From the eighth setting on, and while the seventh is written, it is in the tree.
TimeoutThere ==
  \A p \in Procs :
    \/ pc[p] = "write" /\ next[p] >= 7
    \/ pc[p] \in {"get", "put"} /\ next[p] >= 8
    \/ pc[p] \in {"up", "running"}
    => root[p].value[Timeout] # "absent"

\* No process waits for the mutex it owns.
NeverLocksItself == \A p \in Procs : pc[p] # "self_lock"

IInv == Shape /\ SettingsKept /\ NoneAtFirst /\ TimeoutThere /\ NeverLocksItself

USE ConfigAssumption

-----------------------------------------------------------------------------
\* Eight settings, the timeout before the symbols.
LEMMA Order ==
  /\ Len(InitOrder) = 8
  /\ InitOrder[7] = Timeout /\ InitOrder[8] = Symbols
  /\ \A n \in 1..7 : InitOrder[n] \in Scalars
  /\ Symbols \notin Scalars /\ Timeout \in Scalars
  BY DEF InitOrder, Timeout, Symbols, Scalars

LEMMA EmptyTree == Empty \in Tree /\ Empty.arrays = <<>>
  BY DEF Empty, Tree, Value

\* Where there is nothing to keep everything is kept.
LEMMA NothingToKeep == ASSUME given = Empty, NEW t PROVE Keeps(t)
  BY EmptyTree DEF Keeps, Empty

\* A scalar that is written is the one there was, or the default.
LEMMA PutScalar ==
  ASSUME NEW t \in Tree, NEW k \in Scalars, given \in Tree
  PROVE  /\ Put(t, k) \in Tree
         /\ Put(t, k).value[k] # "absent"
         /\ \A l \in Scalars : t.value[l] # "absent" => Put(t, k).value[l] = t.value[l]
         /\ Keeps(t) => Keeps(Put(t, k))
<1>1. k # Symbols
  BY Order
<1>2. /\ t.value \in [Scalars -> Value] /\ t.arrays \in Seq({"default", "user"})
      /\ GetString(t, k) \in Value \ {"absent"}
  BY DEF Tree, GetString, Value
<1>3. /\ Put(t, k) \in Tree
      /\ Put(t, k).arrays = t.arrays
      /\ \A l \in Scalars : Put(t, k).value[l] = IF l = k THEN GetString(t, k) ELSE t.value[l]
  BY <1>1, <1>2 DEF Put, Tree
<1>4. \A l \in Scalars : t.value[l] # "absent" => Put(t, k).value[l] = t.value[l]
  BY <1>3 DEF GetString
<1>5. Keeps(t) => Keeps(Put(t, k))
  BY <1>3, <1>4 DEF Keeps
<1> QED
  BY <1>2, <1>3, <1>4, <1>5

\* The first element stays the first.
LEMMA AppendFirst ==
  ASSUME NEW S, NEW s \in Seq(S), NEW x \in S
  PROVE  /\ Append(s, x) \in Seq(S) /\ Append(s, x) # <<>>
         /\ s # <<>> => Append(s, x)[1] = s[1]
<1>1. Append(s, x) \in Seq(S) /\ Len(Append(s, x)) = Len(s) + 1 /\ Len(s) \in Nat
  OBVIOUS
<1>2. Append(s, x) # <<>>
  BY <1>1
<1>3. ASSUME s # <<>> PROVE Append(s, x)[1] = s[1]
  <2>1. 1 \in 1..Len(s)
    BY <1>1, <1>3
  <2> QED
    BY <2>1
<1> QED
  BY <1>1, <1>2, <1>3

\* Another array goes behind the first one.
LEMMA PutArray ==
  ASSUME NEW t \in Tree
  PROVE  /\ Put(t, Symbols) \in Tree
         /\ Put(t, Symbols).value = t.value
         /\ Keeps(t) => Keeps(Put(t, Symbols))
<1> DEFINE a == GetArray(t, SymbolsKey)
<1>1. a \in {"default", "user"} /\ t.arrays \in Seq({"default", "user"})
  BY DEF GetArray, SymbolsKey, Symbols, Tree
<1>2. /\ Append(t.arrays, a) \in Seq({"default", "user"})
      /\ Append(t.arrays, a) # <<>>
      /\ t.arrays # <<>> => Append(t.arrays, a)[1] = t.arrays[1]
  BY <1>1, AppendFirst
<1> HIDE DEF a
<1>3. Put(t, Symbols) \in Tree
  BY <1>2 DEF Put, Tree, a
<1>4. Put(t, Symbols).value = t.value /\ Put(t, Symbols).arrays = Append(t.arrays, a)
  BY DEF Put, Tree, a
<1>5. Keeps(t) => Keeps(Put(t, Symbols))
  BY <1>2, <1>4 DEF Keeps
<1> QED
  BY <1>3, <1>4, <1>5

-----------------------------------------------------------------------------
\* The initial state satisfies the inductive invariant: nobody runs.
LEMMA InitIInv == Init => IInv
<1> SUFFICES ASSUME Init PROVE IInv
  OBVIOUS
<1>1. given \in Tree /\ file \in File
  BY EmptyTree DEF Init, File, NoFile, Whole
<1>2. file.is = "whole" => Keeps(file.tree)
  BY <1>1, NothingToKeep DEF Init, NoFile, Whole, Keeps
<1>3. NoneAtFirst
  BY DEF Init, NoneAtFirst, Whole
<1> QED
  BY <1>1, <1>2, <1>3, EmptyTree DEF Init, IInv, Shape, SettingsKept, TimeoutThere, NeverLocksItself

\* A process begins, or ends with all it had in memory.
LEMMA StartIInv ==
  ASSUME IInv, NEW p \in Procs, Start(p)
  PROVE  IInv'
  BY DEF Start, Goto, local, IInv, Shape, SettingsKept, Keeps, NoneAtFirst, TimeoutThere,
         NeverLocksItself

LEMMA EndsIInv ==
  ASSUME IInv, NEW p \in Procs, Ends(p), UNCHANGED <<file, given>>
  PROVE  IInv'
  BY EmptyTree DEF Ends, Goto, IInv, Shape, SettingsKept, Keeps, NoneAtFirst, TimeoutThere,
                   NeverLocksItself

\* The tree of the file is kept in memory, or an empty one if there never was a file.
LEMMA ReadIInv ==
  ASSUME IInv, NEW p \in Procs, Read(p)
  PROVE  IInv'
<1>1. CASE Readable
  <2>1. /\ pc[p] = "read" /\ UNCHANGED <<file, given, next>>
        /\ root' = [root EXCEPT ![p] = file.tree] /\ pc' = [pc EXCEPT ![p] = "get"]
    BY <1>1 DEF Read, Goto
  <2>2. file.tree \in Tree /\ Keeps(file.tree)
    BY <1>1, NothingToKeep DEF Readable, IInv, Shape, File, SettingsKept, NoneAtFirst
  <2> QED
    BY <2>1, <2>2 DEF IInv, Shape, SettingsKept, NoneAtFirst, TimeoutThere, NeverLocksItself, Keeps
<1>2. CASE ~Readable
  BY <1>2, EndsIInv DEF Read
<1> QED
  BY <1>1, <1>2

\* The value to write: the symbols are asked for by a key that is there.
LEMMA GetIInv ==
  ASSUME IInv, NEW p \in Procs, Get(p)
  PROVE  IInv'
<1> DEFINE k == InitOrder[next[p]]
<1>1. pc[p] = "get" /\ next[p] \in 1..8 /\ UNCHANGED <<file, given>>
  BY DEF Get, IInv, Shape
<1>2. CASE Ends(p)
  BY <1>1, <1>2, EndsIInv
<1>3. CASE ~Ends(p)
  <2>1. k = Symbols => next[p] = 8
    BY <1>1, Order
  <2>2. k = Symbols => HasPath(root[p], SymbolsKey)
    BY <1>1, <2>1 DEF HasPath, SymbolsKey, Symbols, IInv, TimeoutThere, Timeout
  <2>3. pc' = [pc EXCEPT ![p] = "put"] /\ UNCHANGED <<root, next>>
    BY <1>3, <2>2 DEF Get, GetSymbols, Goto, local
  <2> QED
    BY <1>1, <2>3 DEF IInv, Shape, SettingsKept, Keeps, NoneAtFirst, TimeoutThere, NeverLocksItself
<1> QED
  BY <1>2, <1>3

\* The tree in memory gets the value; the file is empty for a moment.
LEMMA TruncateIInv ==
  ASSUME IInv, NEW p \in Procs, Truncate(p)
  PROVE  IInv'
<1> DEFINE k == InitOrder[next[p]]
           t == Put(root[p], k)
<1>1. /\ pc[p] = "put" /\ next[p] \in 1..8 /\ UNCHANGED <<given, next>>
      /\ root' = [root EXCEPT ![p] = t] /\ pc' = [pc EXCEPT ![p] = "write"] /\ file' = Torn
  BY DEF Truncate, Goto, IInv, Shape
<1>2. root[p] \in Tree /\ given \in Tree /\ Keeps(root[p])
  BY <1>1 DEF IInv, Shape, SettingsKept
<1>3. (next[p] <= 7 /\ k \in Scalars) \/ (next[p] = 8 /\ k = Symbols)
  BY <1>1, Order
<1>4. next[p] = 8 => root[p].value[Timeout] # "absent"
  BY <1>1 DEF IInv, TimeoutThere
<1>5. next[p] = 7 => k = Timeout
  BY Order
<1> HIDE DEF k
<1>6. t \in Tree /\ Keeps(t) /\ (next[p] >= 7 => t.value[Timeout] # "absent")
  BY <1>1, <1>2, <1>3, <1>4, <1>5, PutScalar, PutArray
<1> HIDE DEF t
<1>7. file' \in File /\ file'.is = "torn"
  BY <1>1, EmptyTree DEF Torn, File
<1>8. Shape' /\ NeverLocksItself'
  BY <1>1, <1>6, <1>7 DEF IInv, Shape, NeverLocksItself
<1>9. SettingsKept' /\ NoneAtFirst' /\ TimeoutThere'
  BY <1>1, <1>6, <1>7 DEF IInv, Shape, SettingsKept, Keeps, NoneAtFirst, TimeoutThere
<1> QED
  BY <1>8, <1>9 DEF IInv

\* The tree in memory is written, or what is left of a longer one spoils the file.
LEMMA WriteIInv ==
  ASSUME IInv, NEW p \in Procs, Write(p)
  PROVE  IInv'
<1>1. /\ pc[p] = "write" /\ next[p] \in 1..8 /\ UNCHANGED <<given, root>>
      /\ next' = [next EXCEPT ![p] = @ + 1]
      /\ pc' = [pc EXCEPT ![p] = IF next'[p] > 8 THEN "up" ELSE "get"]
      /\ file' \in {Torn, Whole(root[p])}
  BY Order DEF Write, Goto, IInv, Shape
<1>2. root[p] \in Tree /\ Keeps(root[p])
  BY <1>1 DEF IInv, Shape, SettingsKept
<1>3. file' \in File /\ file'.is # "none" /\ (file'.is = "whole" => file'.tree = root[p])
  BY <1>1, <1>2, EmptyTree DEF Torn, Whole, File
<1>4. next'[p] = next[p] + 1 /\ (next'[p] > 8 <=> next[p] = 8)
  BY <1>1 DEF IInv, Shape
<1>5. Shape' /\ NeverLocksItself'
  BY <1>1, <1>3, <1>4 DEF IInv, Shape, NeverLocksItself
<1>6. SettingsKept' /\ NoneAtFirst'
  BY <1>1, <1>2, <1>3 DEF IInv, Shape, SettingsKept, Keeps, NoneAtFirst
<1>7. TimeoutThere'
  BY <1>1, <1>4 DEF IInv, Shape, TimeoutThere
<1> QED
  BY <1>5, <1>6, <1>7 DEF IInv

\* The update thread asks for the symbols by the same key.
LEMMA UseSymbolsIInv ==
  ASSUME IInv, NEW p \in Procs, UseSymbols(p)
  PROVE  IInv'
<1>1. pc[p] = "up"
  BY DEF UseSymbols
<1>2. HasPath(root[p], SymbolsKey)
  BY <1>1 DEF HasPath, SymbolsKey, Symbols, IInv, TimeoutThere, Timeout
<1>3. pc' = [pc EXCEPT ![p] = "running"] /\ UNCHANGED <<file, given, root, next>>
  BY <1>2 DEF UseSymbols, GetSymbols, Goto
<1> QED
  BY <1>1, <1>3 DEF IInv, Shape, SettingsKept, Keeps, NoneAtFirst, TimeoutThere, NeverLocksItself

\* Every step preserves the inductive invariant.
LEMMA NextIInv == IInv /\ [Next]_vars => IInv'
<1>1. CASE UNCHANGED vars
  BY <1>1 DEF vars, local, IInv, Shape, SettingsKept, Keeps, NoneAtFirst, TimeoutThere, NeverLocksItself
<1>2. ASSUME IInv, NEW p \in Procs, Exit(p) PROVE IInv'
  BY <1>2, EndsIInv DEF Exit
<1>3. ASSUME IInv, Next PROVE IInv'
  BY <1>2, <1>3, StartIInv, ReadIInv, GetIInv, TruncateIInv, WriteIInv, UseSymbolsIInv DEF Next, Step
<1> QED
  BY <1>1, <1>3

-----------------------------------------------------------------------------
(* What else TypeOK says, beside the shape of the state. *)

Rest ==
  /\ locked \in [Procs -> BOOLEAN]
  /\ \A p \in Procs : locked[p] <=> pc[p] \in {"write", "self_lock"}
  /\ symbols \in [Procs -> {"absent", "default", "user"}]
  /\ starts \in 0..MaxStarts

\* The file a worker writes to is there, truncated by the worker or written since.
WritesToFile == \A p \in Procs : pc[p] = "write" => file.is # "none"

LEMMA InitRest == Init => Rest /\ WritesToFile
  BY DEF Init, Rest, WritesToFile

\* A process that ends owns nothing, and the file stays.
LEMMA EndsRest ==
  ASSUME IInv, Rest, WritesToFile, NEW p \in Procs, Ends(p), UNCHANGED <<file, given, starts>>
  PROVE  Rest' /\ WritesToFile'
  BY DEF Ends, Goto, IInv, Shape, Rest, WritesToFile

\* What GetArray() returns is a list of symbols.
LEMMA GetArrayType ==
  ASSUME NEW t \in Tree, NEW k PROVE GetArray(t, k) \in {"default", "user"}
<1>1. CASE t.arrays = <<>>
  BY <1>1 DEF GetArray
<1>2. CASE t.arrays # <<>>
  <2>1. t.arrays \in Seq({"default", "user"})
    BY DEF Tree
  <2>2. t.arrays[1] \in {"default", "user"}
    BY <1>2, <2>1
  <2> QED
    BY <2>2 DEF GetArray
<1> QED
  BY <1>1, <1>2

\* A worker that goes on to a place outside the mutex, or for good to its own.
LEMMA GoesOnRest ==
  ASSUME NEW S, pc \in [Procs -> S], Rest, WritesToFile, NEW p \in Procs, NEW l,
         pc[p] \notin {"write", "self_lock"}, pc' = [pc EXCEPT ![p] = l],
         \/ l \notin {"write", "self_lock"} /\ UNCHANGED locked
         \/ l = "self_lock" /\ locked' = [locked EXCEPT ![p] = TRUE],
         symbols' \in [Procs -> {"absent", "default", "user"}], UNCHANGED <<file, starts>>
  PROVE  Rest' /\ WritesToFile'
<1>1. pc'[p] = l /\ \A q \in Procs \ {p} : pc'[q] = pc[q]
  OBVIOUS
<1>2. locked \in [Procs -> BOOLEAN]
  BY DEF Rest
<1>3. /\ locked' \in [Procs -> BOOLEAN]
      /\ \A q \in Procs : locked'[q] <=> pc'[q] \in {"write", "self_lock"}
  <2>1. CASE l \notin {"write", "self_lock"} /\ UNCHANGED locked
    BY <1>1, <1>2, <2>1 DEF Rest
  <2>2. CASE l = "self_lock" /\ locked' = [locked EXCEPT ![p] = TRUE]
    BY <1>1, <1>2, <2>2 DEF Rest
  <2> QED
    BY <2>1, <2>2
<1>4. WritesToFile'
  BY <1>1 DEF WritesToFile
<1> QED
  BY <1>3, <1>4 DEF Rest

\* The mutex is owned while the file is written, by every worker but its own.
LEMMA StepRest ==
  ASSUME IInv, Rest, WritesToFile, NEW p \in Procs, Step(p)
  PROVE  Rest' /\ WritesToFile'
<1>0. /\ pc \in [Procs -> {"down", "read", "get", "put", "write", "up", "running", "self_lock"}]
      /\ symbols \in [Procs -> {"absent", "default", "user"}]
  BY DEF IInv, Shape, Rest
<1>1. CASE Read(p)
  <2>1. CASE Ends(p)
    BY <1>1, <2>1, EndsRest DEF Read
  <2>2. CASE ~Ends(p)
    <3>1. /\ pc[p] = "read" /\ pc' = [pc EXCEPT ![p] = "get"]
          /\ UNCHANGED <<file, starts, symbols, locked>>
      BY <1>1, <2>2 DEF Read, Goto
    <3> QED
      BY <1>0, <3>1, GoesOnRest
  <2> QED
    BY <2>1, <2>2
<1>2. CASE Get(p)
  <2>1. CASE Ends(p)
    BY <1>2, <2>1, EndsRest DEF Get
  <2>2. CASE ~Ends(p)
    <3>1. pc[p] = "get" /\ UNCHANGED <<file, starts, symbols>>
      BY <1>2, <2>2 DEF Get, local
    <3>2. \/ pc' = [pc EXCEPT ![p] = "put"] /\ UNCHANGED locked
          \/ /\ pc' = [pc EXCEPT ![p] = "self_lock"]
             /\ locked' = [locked EXCEPT ![p] = TRUE]
      BY <1>2, <2>2 DEF Get, GetSymbols, Goto, local
    <3> QED
      BY <1>0, <3>1, <3>2, GoesOnRest
  <2> QED
    BY <2>1, <2>2
<1>3. CASE Truncate(p)
  BY <1>0, <1>3 DEF Truncate, Locked, Torn, Goto, Rest, WritesToFile
<1>4. CASE Write(p)
  BY <1>0, <1>4 DEF Write, Torn, Whole, Goto, Rest, WritesToFile
<1>5. CASE UseSymbols(p)
  <2>1. GetArray(root[p], SymbolsKey) \in {"default", "user"}
    BY GetArrayType DEF IInv, Shape
  <2>2. /\ pc[p] = "up" /\ UNCHANGED <<file, starts>>
        /\ symbols' = [symbols EXCEPT ![p] = GetArray(root[p], SymbolsKey)]
    BY <1>5 DEF UseSymbols
  <2>3. \/ pc' = [pc EXCEPT ![p] = "running"] /\ UNCHANGED locked
        \/ pc' = [pc EXCEPT ![p] = "self_lock"] /\ locked' = [locked EXCEPT ![p] = TRUE]
    BY <1>5 DEF UseSymbols, GetSymbols, Goto
  <2>4. symbols' \in [Procs -> {"absent", "default", "user"}]
    BY <1>0, <2>1, <2>2
  <2> QED
    BY <1>0, <2>2, <2>3, <2>4, GoesOnRest
<1> QED
  BY <1>1, <1>2, <1>3, <1>4, <1>5 DEF Step

LEMMA StartRest ==
  ASSUME IInv, Rest, WritesToFile, NEW p \in Procs, Start(p)
  PROVE  Rest' /\ WritesToFile'
  BY DEF Start, Goto, local, IInv, Shape, Rest, WritesToFile

LEMMA NextRest == IInv /\ Rest /\ WritesToFile /\ [Next]_vars => Rest' /\ WritesToFile'
<1>1. CASE UNCHANGED vars
  BY <1>1 DEF vars, local, Rest, WritesToFile
<1>2. ASSUME IInv, Rest, WritesToFile, NEW p \in Procs, Exit(p) PROVE Rest' /\ WritesToFile'
  BY <1>2, EndsRest DEF Exit
<1>3. ASSUME IInv, Rest, WritesToFile, Next PROVE Rest' /\ WritesToFile'
  BY <1>2, <1>3, StartRest, StepRest DEF Next
<1> QED
  BY <1>1, <1>3

LEMMA TypeFromInv == IInv /\ Rest => TypeOK
  BY Order DEF IInv, Shape, Rest, TypeOK

-----------------------------------------------------------------------------
\* The inductive invariant holds in every state.
THEOREM Inductive == Spec => []IInv
  BY InitIInv, NextIInv, PTL DEF Spec

\* Every variable keeps its type, and mtx is owned exactly while the file is written.
THEOREM TypeCorrect == Spec => []TypeOK
  BY InitIInv, NextIInv, InitRest, NextRest, TypeFromInv, PTL DEF Spec

\* What the user set is never replaced by a default, however many workers start,
\* overlap and are killed while they write the file.
THEOREM UserSettingsKept == Spec => []SettingsKept
<1>1. IInv => SettingsKept
  BY DEF IInv
<1> QED
  BY <1>1, Inductive, PTL

\* GetArray() never calls Write() with the mutex locked.
THEOREM NoSelfDeadlock == Spec => []NeverLocksItself
<1>1. IInv => NeverLocksItself
  BY DEF IInv
<1> QED
  BY <1>1, Inductive, PTL

-----------------------------------------------------------------------------
(* ConfigInFolder. *)

F == INSTANCE CreateFolderProofs WITH Callers <- Procs, pc <- making

\* A worker has returned from CreateFolder() when it goes on.
Places ==
  /\ \A p \in Procs : pc[p] = "down" => making[p] = "begin"
  /\ \A p \in Procs : pc[p] \notin {"down", "read"} => making[p] = "done"

\* Whoever made a level and begins again has left the next one behind.
BeginsAfterAll ==
  ~killed => \A k \in Folder!Levels : \A p \in Procs :
    creator[k] = p /\ making[p] = "begin" /\ k < limit => k + 1 \in dirs

AllInv == IInv /\ F!IInv /\ Places /\ BeginsAfterAll

\* At first nothing was made by anybody.
LEMMA InitAllInv == F!CreateFolderAssumption /\ InitInFolder => AllInv
<1> SUFFICES ASSUME F!CreateFolderAssumption, InitInFolder PROVE AllInv
  OBVIOUS
<1>1. IInv
  BY InitIInv DEF InitInFolder
<1>2. F!Init
  BY DEF InitInFolder, Folder!Init, F!Init, Folder!Levels, F!Levels
<1>3. F!IInv
  BY <1>2, F!InitIInv
<1>4. Places /\ BeginsAfterAll
  BY DEF InitInFolder, Init, Folder!Init, Places, BeginsAfterAll, F!CreateFolderAssumption
<1> QED
  BY <1>1, <1>3, <1>4 DEF AllInv

\* A step in CreateFolder() leaves the file alone, and is no beginning.
LEMMA MakeFolderAllInv ==
  ASSUME AllInv, NEW p \in Procs, MakeFolder(p)
  PROVE  AllInv'
<1>1. IInv'
  BY NextIInv DEF AllInv, MakeFolder
<1>2. F!IInv'
  <2>1. F!StatWhole(p) \/ F!StatLevel(p) \/ F!MakeDir(p)
    BY DEF MakeFolder, Folder!Step, F!StatWhole, Folder!StatWhole, F!StatLevel, Folder!StatLevel,
           F!MakeDir, Folder!MakeDir, F!At, Folder!At, F!CanMake, Folder!CanMake,
           F!After, Folder!After, F!NextLevel, Folder!NextLevel, F!More, Folder!More
  <2> QED
    BY <2>1, F!StatWholeIInv, F!StatLevelIInv, F!MakesIInv, F!GivesUpIInv DEF AllInv
<1>3. /\ pc[p] = "read" /\ UNCHANGED <<pc, killed, limit>>
      /\ making \in [Procs -> {"begin", "stat", "mkdir", "done"}]
      /\ \E there \in {"stat", "mkdir", "done"} : making' = [making EXCEPT ![p] = there]
  BY DEF MakeFolder, InFolder, Folder!Step, Folder!StatWhole, Folder!StatLevel, Folder!MakeDir,
         Folder!At, Folder!After, vars, AllInv, F!IInv, F!TypeOK
<1>4. /\ dirs \subseteq dirs'
      /\ \A k \in Folder!Levels : creator'[k] \in {creator[k], p}
  BY DEF MakeFolder, Folder!Step, Folder!StatWhole, Folder!StatLevel, Folder!MakeDir,
         Folder!Levels, F!Levels, AllInv, F!IInv, F!TypeOK
<1>5. Places'
  BY <1>3 DEF Places, AllInv
<1>6. BeginsAfterAll'
  BY <1>3, <1>4 DEF BeginsAfterAll, AllInv, Folder!Levels
<1> QED
  BY <1>1, <1>2, <1>5, <1>6 DEF AllInv

\* A worker that had returned from CreateFolder() ends: who made a level leaves
\* the next one behind.
LEMMA RestartAllInv ==
  ASSUME AllInv, IInv', NEW p \in Procs, Folder!Restart(p), pc' = [pc EXCEPT ![p] = "down"],
         making[p] = "done" \/ pc[p] = "down" \/ killed', killed => killed'
  PROVE  AllInv'
<1>1. F!IInv'
  <2>1. F!Restart(p)
    BY DEF Folder!Restart, F!Restart, Folder!At, F!At
  <2> QED
    BY <2>1, F!RestartIInv DEF AllInv
<1>2. /\ making' = [making EXCEPT ![p] = "begin"] /\ UNCHANGED <<dirs, creator, limit>>
      /\ making \in [Procs -> {"begin", "stat", "mkdir", "done"}]
      /\ pc \in [Procs -> {"down", "read", "get", "put", "write", "up", "running", "self_lock"}]
  BY DEF Folder!Restart, Folder!At, AllInv, IInv, Shape, F!IInv, F!TypeOK
<1>3. Places'
  BY <1>2 DEF Places, AllInv
<1>4. BeginsAfterAll'
  BY <1>2 DEF BeginsAfterAll, Places, AllInv, F!IInv, F!MakersGoOn, Folder!Levels, F!Levels
<1> QED
  BY <1>1, <1>3, <1>4 DEF AllInv

\* A worker that has returned from CreateFolder() goes on; the folder stays as it is.
LEMMA GoesOnAllInv ==
  ASSUME AllInv, IInv', NEW p \in Procs, UNCHANGED <<folderVars, killed>>,
         \E there \in {"read", "get", "put", "write", "up", "running", "self_lock"} :
           /\ pc' = [pc EXCEPT ![p] = there]
           /\ there # "read" => making[p] = "done"
  PROVE  AllInv'
<1>1. F!IInv'
  BY DEF AllInv, folderVars, F!IInv, F!TypeOK, F!Prefix, F!Visited, F!SawMissing, F!MakersGoOn,
         F!NobodyGaveUp, F!CreateFolderAssumption, F!Levels
<1>2. pc \in [Procs -> {"down", "read", "get", "put", "write", "up", "running", "self_lock"}]
  BY DEF AllInv, IInv, Shape
<1>3. Places'
  BY <1>2 DEF Places, AllInv, folderVars
<1>4. BeginsAfterAll'
  BY DEF BeginsAfterAll, AllInv, folderVars, Folder!Levels
<1> QED
  BY <1>1, <1>3, <1>4 DEF AllInv

\* A step outside CreateFolder().
LEMMA StepAllInv ==
  ASSUME AllInv, NEW p \in Procs, StepInFolder(p)
  PROVE  AllInv'
<1>1. making[p] = "done"
  BY DEF StepInFolder, ReadInFolder, Get, CannotOpen, TruncateInFolder, Truncate, Write, UseSymbols,
         AllInv, Places
<1>2. IInv'
  BY ReadIInv, GetIInv, EndsIInv, TruncateIInv, WriteIInv, UseSymbolsIInv
  DEF StepInFolder, ReadInFolder, CannotOpen, TruncateInFolder, AllInv
<1>3. \E there \in {"down", "get", "put", "write", "up", "running", "self_lock"} :
        pc' = [pc EXCEPT ![p] = there]
  BY DEF StepInFolder, ReadInFolder, Read, Get, GetSymbols, CannotOpen, TruncateInFolder, Truncate,
         Write, UseSymbols, Ends, Goto
<1>4. PICK there \in {"down", "get", "put", "write", "up", "running", "self_lock"} :
        pc' = [pc EXCEPT ![p] = there]
  BY <1>3
<1>5. pc'[p] = there /\ UNCHANGED killed
  BY <1>4 DEF StepInFolder, AllInv, IInv, Shape
<1>6. CASE there = "down"
  <2>1. pc' = [pc EXCEPT ![p] = "down"]
    BY <1>4, <1>6
  <2>2. Folder!Restart(p)
    BY <1>5, <1>6 DEF StepInFolder
  <2>3. killed => killed'
    BY <1>5
  <2> QED
    BY <1>1, <1>2, <2>1, <2>2, <2>3, RestartAllInv
<1>7. CASE there # "down"
  <2>1. UNCHANGED <<folderVars, killed>>
    BY <1>5, <1>7 DEF StepInFolder
  <2> QED
    BY <1>1, <1>2, <1>4, <1>7, <2>1, GoesOnAllInv
<1> QED
  BY <1>6, <1>7

\* A worker starts; one that exits in CreateFolder() is remembered as killed.
LEMMA StartAllInv ==
  ASSUME AllInv, NEW p \in Procs, StartInFolder(p)
  PROVE  AllInv'
<1>1. IInv'
  BY StartIInv DEF StartInFolder, AllInv
<1>2. pc' = [pc EXCEPT ![p] = "read"] /\ UNCHANGED <<folderVars, killed>>
  BY DEF StartInFolder, Start, Goto
<1> QED
  BY <1>1, <1>2, GoesOnAllInv

LEMMA ExitAllInv ==
  ASSUME AllInv, NEW p \in Procs, ExitInFolder(p)
  PROVE  AllInv'
<1>1. IInv'
  <2>1. IInv /\ Ends(p) /\ UNCHANGED <<file, given>>
    BY DEF ExitInFolder, Exit, AllInv
  <2> QED
    BY <2>1, EndsIInv
<1>2. pc' = [pc EXCEPT ![p] = "down"]
  BY DEF ExitInFolder, Exit, Ends, Goto
<1>3. making[p] = "done" \/ pc[p] = "down" \/ killed'
  BY DEF ExitInFolder, InFolder, AllInv, Places
<1>4. Folder!Restart(p) /\ (killed => killed')
  BY DEF ExitInFolder
<1> QED
  BY <1>1, <1>2, <1>3, <1>4, RestartAllInv

\* Every step preserves the invariant of both.
LEMMA NextAllInv == AllInv /\ [NextInFolder]_allVars => AllInv'
<1> SUFFICES ASSUME AllInv, [NextInFolder]_allVars PROVE AllInv'
  OBVIOUS
<1>1. CASE UNCHANGED allVars
  <2>1. UNCHANGED <<vars, folderVars, killed>>
    BY <1>1 DEF allVars
  <2>2. IInv'
    BY <2>1, NextIInv DEF AllInv
  <2>3. F!IInv'
    BY <2>1 DEF AllInv, folderVars, F!IInv, F!TypeOK, F!Prefix, F!Visited, F!SawMissing,
                F!MakersGoOn, F!NobodyGaveUp, F!CreateFolderAssumption, F!Levels
  <2> QED
    BY <2>1, <2>2, <2>3 DEF AllInv, Places, BeginsAfterAll, vars, folderVars, Folder!Levels
<1>2. CASE NextInFolder
  BY <1>2, MakeFolderAllInv, StepAllInv, StartAllInv, ExitAllInv DEF NextInFolder, RunInFolder
<1> QED
  BY <1>1, <1>2

-----------------------------------------------------------------------------
\* The invariant of both holds in every state.
THEOREM BothInductive == F!CreateFolderAssumption /\ SpecInFolder => []AllInv
  BY InitAllInv, NextAllInv, PTL DEF SpecInFolder

\* What the user set is kept while the folder is made, too: workers that die at
\* their first write because the folder is missing included.
THEOREM SettingsKeptInFolder == F!CreateFolderAssumption /\ SpecInFolder => []SettingsKept
<1>1. AllInv => SettingsKept
  BY DEF AllInv, IInv
<1> QED
  BY <1>1, BothInductive, PTL

\* CreateFolder() returns to a worker whose folder is missing only while another
\* worker is making the rest of it.
THEOREM NobodyAbandonsFolder == F!CreateFolderAssumption /\ SpecInFolder => []FolderNotAbandoned
<1>1. AllInv => FolderNotAbandoned
  <2> SUFFICES ASSUME AllInv, NEW p \in Procs, making[p] = "done", limit = Depth, ~killed,
                      ~FolderThere
               PROVE  \E q \in Procs : InFolder(q) /\ making[q] # "begin"
    BY DEF FolderNotAbandoned
  <2>1. PICK d \in 0..Depth : dirs = 1..d
    BY DEF AllInv, F!IInv, F!Prefix
  <2>2. Depth \in Nat /\ d < limit
    BY <2>1 DEF AllInv, F!IInv, F!CreateFolderAssumption, FolderThere
  <2>3. d \in dirs /\ creator[d] # Nobody
    BY <2>1, <2>2 DEF AllInv, F!IInv, F!NobodyGaveUp
  <2>4. d \in F!Levels /\ d \in Folder!Levels /\ d + 1 \notin dirs
    BY <2>1, <2>2, <2>3 DEF F!Levels, Folder!Levels
  <2>5. PICK q \in Procs : creator[d] = q
    BY <2>3, <2>4 DEF AllInv, F!IInv, F!TypeOK
  <2>6. making[q] # "done"
    BY <2>2, <2>4, <2>5 DEF AllInv, F!IInv, F!MakersGoOn
  <2>7. making[q] # "begin"
    BY <2>2, <2>4, <2>5 DEF AllInv, BeginsAfterAll
  <2>8. pc[q] = "read"
    BY <2>6, <2>7 DEF AllInv, Places
  <2> QED
    BY <2>6, <2>7, <2>8 DEF InFolder
<1> QED
  BY <1>1, BothInductive, PTL

-----------------------------------------------------------------------------
(* The types of both. *)

\* A file that is there is in a folder: no worker truncates it before.
InItsFolder == file.is # "none" => FolderThere

LEMMA InitTypes == InitInFolder => Rest /\ WritesToFile /\ InItsFolder
  BY InitRest DEF InitInFolder, InItsFolder

\* The folder of a file never goes away, and no file comes to be without one.
LEMMA NextTypes ==
  ASSUME AllInv, Rest, WritesToFile, InItsFolder, [NextInFolder]_allVars
  PROVE  Rest' /\ WritesToFile' /\ InItsFolder'
<1> USE DEF InItsFolder, FolderThere
<1>1. ASSUME NEW p \in Procs, MakeFolder(p) PROVE Rest' /\ WritesToFile' /\ InItsFolder'
  <2>1. dirs \subseteq dirs' /\ UNCHANGED vars
    BY <1>1 DEF MakeFolder, Folder!Step, Folder!StatWhole, Folder!StatLevel, Folder!MakeDir
  <2> QED
    BY <2>1, NextRest DEF vars, AllInv
<1>2. ASSUME NEW p \in Procs, StepInFolder(p) PROVE Rest' /\ WritesToFile' /\ InItsFolder'
  <2>1. UNCHANGED dirs
    BY <1>2 DEF StepInFolder, Folder!Restart, folderVars
  <2>2. CASE ReadInFolder(p) \/ Get(p) \/ TruncateInFolder(p) \/ Write(p) \/ UseSymbols(p)
    <3>1. Step(p)
      BY <2>2 DEF ReadInFolder, TruncateInFolder, Step
    <3>2. Rest' /\ WritesToFile'
      BY <3>1, StepRest DEF AllInv
    <3>3. InItsFolder'
      BY <2>1, <2>2 DEF ReadInFolder, Read, Get, TruncateInFolder, Write, UseSymbols, WritesToFile
    <3> QED
      BY <3>2, <3>3
  <2>3. CASE CannotOpen(p)
    BY <2>1, <2>3, EndsRest DEF CannotOpen, AllInv
  <2> QED
    BY <1>2, <2>2, <2>3 DEF StepInFolder
<1>3. ASSUME NEW p \in Procs, StartInFolder(p) PROVE Rest' /\ WritesToFile' /\ InItsFolder'
  BY <1>3, StartRest DEF StartInFolder, Start, folderVars, AllInv
<1>4. ASSUME NEW p \in Procs, ExitInFolder(p) PROVE Rest' /\ WritesToFile' /\ InItsFolder'
  BY <1>4, EndsRest DEF ExitInFolder, Exit, Folder!Restart, AllInv
<1>5. CASE UNCHANGED allVars
  BY <1>5, NextRest DEF allVars, vars, folderVars, AllInv
<1> QED
  BY <1>1, <1>2, <1>3, <1>4, <1>5 DEF NextInFolder, RunInFolder

\* Every variable of both keeps its type; a worker is past CreateFolder() when it goes
\* on, and a file is always in a folder.
THEOREM TypesCorrect == F!CreateFolderAssumption /\ SpecInFolder => []TypesOK
<1>1. AllInv /\ Rest /\ InItsFolder => TypesOK
  <2> SUFFICES ASSUME AllInv, Rest, InItsFolder PROVE TypesOK
    OBVIOUS
  <2>1. TypeOK
    BY TypeFromInv DEF AllInv
  <2>2. Folder!TypeOK
    BY DEF AllInv, F!IInv, F!TypeOK, Folder!TypeOK, F!Levels, Folder!Levels
  <2> QED
    BY <2>1, <2>2 DEF TypesOK, AllInv, Places, InItsFolder
<1> QED
  BY <1>1, InitAllInv, NextAllInv, InitTypes, NextTypes, PTL DEF SpecInFolder

-----------------------------------------------------------------------------
(* Why a start ends: the part of StartEnds that needs no fairness. *)

\* The calls of stat() and mkdir() that are left at most.
FolderLeft(p) ==
  CASE making[p] = "begin" -> 2 * Depth + 1
    [] making[p] = "stat"  -> 2 * (Depth - level[p]) + 2
    [] making[p] = "mkdir" -> 2 * (Depth - level[p]) + 1
    [] OTHER               -> 0

\* With these, the steps that a start has left at most: three for each setting.
StartLeft(p) ==
  CASE pc[p] = "read"  -> FolderLeft(p) + 26
    [] pc[p] = "get"   -> 3 * (8 - next[p]) + 4
    [] pc[p] = "put"   -> 3 * (8 - next[p]) + 3
    [] pc[p] = "write" -> 3 * (8 - next[p]) + 2
    [] pc[p] = "up"    -> 1
    [] OTHER           -> 0

StartGoesOn ==
  \A p \in Procs :
    /\ RunInFolder(p) => StartLeft(p)' < StartLeft(p)
    /\ pc[p] # "down" => StartLeft(p)' <= StartLeft(p)

\* The numbers, and the types the steps below need.
Numbers ==
  /\ Depth \in Nat /\ next \in [Procs -> 1..9] /\ level \in [Procs -> Nat]
  /\ pc \in [Procs -> {"down", "read", "get", "put", "write", "up", "running", "self_lock"}]
  /\ making \in [Procs -> {"begin", "stat", "mkdir", "done"}]
  /\ \A p \in Procs : pc[p] \in {"get", "put", "write"} => next[p] \in 1..8
  /\ \A p \in Procs : making[p] \in {"stat", "mkdir"} => level[p] \in 1..Depth

LEMMA LeftIsNat ==
  ASSUME Numbers, NEW p \in Procs
  PROVE  FolderLeft(p) \in Nat /\ StartLeft(p) \in Nat
<1>1. FolderLeft(p) \in Nat
  BY DEF Numbers, FolderLeft
<1> QED
  BY <1>1 DEF Numbers, StartLeft

\* A call of stat() or mkdir() is one less, whether or not it succeeds.
LEMMA FolderNearer ==
  ASSUME Numbers, NEW p \in Procs, MakeFolder(p)
  PROVE  StartLeft(p)' < StartLeft(p)
<1> USE DEF Numbers
<1>1. FolderLeft(p) \in Nat /\ pc[p] = "read" /\ pc'[p] = "read"
  BY LeftIsNat DEF MakeFolder, InFolder, vars
<1>2. /\ making[p] = "begin" /\ FolderLeft(p) = 2 * Depth + 1
      /\ \/ making'[p] = "done"
         \/ making'[p] = "stat" /\ level'[p] = 1 /\ Depth # 0
      \/ making[p] \in {"stat", "mkdir"}
  BY DEF MakeFolder, Folder!Step, Folder!StatWhole, Folder!StatLevel, Folder!MakeDir,
         Folder!At, FolderLeft
<1>3. CASE making[p] = "begin"
  <2>1. CASE making'[p] = "done"
    <3>1. FolderLeft(p)' = 0
      BY <2>1 DEF FolderLeft
    <3> QED
      BY <1>1, <1>2, <1>3, <3>1 DEF StartLeft
  <2>2. CASE making'[p] = "stat" /\ level'[p] = 1 /\ Depth # 0
    <3>1. FolderLeft(p)' = 2 * (Depth - 1) + 2
      BY <2>2, <1>1 DEF FolderLeft, MakeFolder
    <3> QED
      BY <1>1, <1>2, <1>3, <3>1 DEF StartLeft
  <2> QED
    BY <1>2, <1>3, <2>1, <2>2
<1>4. CASE making[p] \in {"stat", "mkdir"}
  <2>1. /\ FolderLeft(p) >= 2 * (Depth - level[p]) + 1
        /\ making[p] = "stat" => FolderLeft(p) = 2 * (Depth - level[p]) + 2
    BY <1>4 DEF FolderLeft
  <2>2. \/ making'[p] = "done"
        \/ making'[p] = "stat" /\ level[p] < Depth /\ level'[p] = level[p] + 1
        \/ making[p] = "stat" /\ making'[p] = "mkdir" /\ level'[p] = level[p]
    BY <1>4 DEF MakeFolder, Folder!Step, Folder!StatWhole, Folder!StatLevel, Folder!MakeDir,
                Folder!At, Folder!After, Folder!NextLevel, Folder!More
  <2>3. CASE making'[p] = "done"
    <3>1. FolderLeft(p)' = 0
      BY <2>3 DEF FolderLeft
    <3> QED
      BY <1>1, <1>4, <2>1, <3>1 DEF StartLeft
  <2>4. CASE making'[p] = "stat" /\ level[p] < Depth /\ level'[p] = level[p] + 1
    <3>1. FolderLeft(p)' = 2 * (Depth - (level[p] + 1)) + 2
      BY <2>4 DEF FolderLeft
    <3> QED
      BY <1>1, <1>4, <2>1, <3>1 DEF StartLeft
  <2>5. CASE making[p] = "stat" /\ making'[p] = "mkdir" /\ level'[p] = level[p]
    <3>1. FolderLeft(p)' = 2 * (Depth - level[p]) + 1
      BY <2>5 DEF FolderLeft
    <3> QED
      BY <1>1, <1>4, <2>1, <2>5, <3>1 DEF StartLeft
  <2> QED
    BY <2>2, <2>3, <2>4, <2>5
<1> QED
  BY <1>2, <1>3, <1>4

\* So is a step on the settings.
LEMMA SettingsNearer ==
  ASSUME Numbers, NEW p \in Procs, StepInFolder(p)
  PROVE  StartLeft(p)' < StartLeft(p)
<1> USE DEF Numbers
<1>1. FolderLeft(p) \in Nat /\ StartLeft(p) \in Nat
  BY LeftIsNat
<1>2. CASE pc'[p] \in {"down", "running", "self_lock"}
  <2>1. StartLeft(p)' = 0
    BY <1>2 DEF StartLeft
  <2>2. pc[p] \in {"read", "get", "put", "write", "up"}
    BY DEF StepInFolder, ReadInFolder, Read, Get, CannotOpen, TruncateInFolder, Truncate, Write,
           UseSymbols
  <2>3. StartLeft(p) >= 1
    BY <1>1, <2>2 DEF StartLeft
  <2> QED
    BY <1>1, <2>1, <2>3
<1>3. CASE pc[p] = "read" /\ pc'[p] = "get" /\ next' = next
  <2>1. StartLeft(p)' = 3 * (8 - next[p]) + 4 /\ StartLeft(p) >= 26 /\ next[p] \in 1..9
    BY <1>1, <1>3 DEF StartLeft
  <2> QED
    BY <1>1, <2>1
<1>4. CASE pc[p] = "get" /\ pc'[p] = "put" /\ next' = next
  BY <1>4 DEF StartLeft
<1>5. CASE pc[p] = "put" /\ pc'[p] = "write" /\ next' = next
  BY <1>5 DEF StartLeft
<1>6. CASE pc[p] = "write" /\ pc'[p] = "get" /\ next'[p] = next[p] + 1
  BY <1>6 DEF StartLeft
<1>7. CASE pc[p] = "write" /\ pc'[p] = "up"
  BY <1>7 DEF StartLeft
<1> QED
  BY <1>2, <1>3, <1>4, <1>5, <1>6, <1>7, Order
  DEF StepInFolder, ReadInFolder, Read, Get, GetSymbols, CannotOpen, TruncateInFolder, Truncate,
      Write, UseSymbols, Ends, Goto, local

\* A start ends after 2 * Depth + 27 steps of its own at most, and no other worker makes
\* it longer, whatever it does to the folder and to the file meanwhile; and it never ends
\* by waiting for itself.
THEOREM StartProgress ==
  F!CreateFolderAssumption /\ SpecInFolder => [][NeverLocksItself' /\ StartGoesOn]_allVars
<1>1. ASSUME AllInv, NextInFolder PROVE StartGoesOn
  <2> SUFFICES ASSUME NEW p \in Procs
               PROVE  /\ RunInFolder(p) => StartLeft(p)' < StartLeft(p)
                      /\ pc[p] # "down" => StartLeft(p)' <= StartLeft(p)
    BY DEF StartGoesOn
  <2>1. Numbers /\ StartLeft(p) \in Nat /\ Numbers' /\ StartLeft(p)' \in Nat
    <3>1. Numbers /\ Numbers'
      <4>1. AllInv'
        BY <1>1, NextAllInv
      <4> QED
        BY <1>1, <4>1 DEF AllInv, IInv, Shape, F!IInv, F!TypeOK, F!Levels,
                          F!CreateFolderAssumption, Numbers
    <3>2. StartLeft(p)' \in Nat
      <4>1. FolderLeft(p)' \in Nat
        BY <3>1 DEF Numbers, FolderLeft
      <4> QED
        BY <3>1, <4>1 DEF Numbers, StartLeft
    <3> QED
      BY <3>1, <3>2, LeftIsNat
  <2>2. CASE RunInFolder(p)
    BY <2>1, <2>2, FolderNearer, SettingsNearer DEF RunInFolder
  <2>3. CASE ExitInFolder(p) \/ (StartInFolder(p) /\ pc[p] = "down")
    <3>1. CASE ExitInFolder(p)
      <4>1. StartLeft(p)' = 0
        BY <2>1, <3>1 DEF ExitInFolder, Exit, Ends, Goto, Numbers, StartLeft
      <4> QED
        BY <2>1, <4>1, <3>1, <2>2
    <3> QED
      BY <2>2, <2>3, <3>1
  <2>4. CASE \E q \in Procs \ {p} : StartInFolder(q) \/ RunInFolder(q) \/ ExitInFolder(q)
    <3>1. pc'[p] = pc[p] /\ next'[p] = next[p] /\ making'[p] = making[p] /\ level'[p] = level[p]
      <4>1. PICK q \in Procs \ {p} : StartInFolder(q) \/ RunInFolder(q) \/ ExitInFolder(q)
        BY <2>4
      <4> USE <2>1 DEF Numbers
      <4>2. CASE StartInFolder(q)
        BY <4>2 DEF StartInFolder, Start, Goto, local, folderVars
      <4>3. CASE MakeFolder(q)
        BY <4>3 DEF MakeFolder, Folder!Step, Folder!StatWhole, Folder!StatLevel, Folder!MakeDir,
                    Folder!At, vars
      <4>4. CASE StepInFolder(q)
        <5>1. making'[p] = making[p] /\ level'[p] = level[p]
          BY <4>4 DEF StepInFolder, Folder!Restart, Folder!At, folderVars
        <5>2. pc'[p] = pc[p] /\ next'[p] = next[p]
          BY <4>4 DEF StepInFolder, ReadInFolder, Read, Get, GetSymbols, CannotOpen,
                      TruncateInFolder, Truncate, Write, UseSymbols, Ends, Goto, local
        <5> QED
          BY <5>1, <5>2
      <4>5. CASE ExitInFolder(q)
        BY <4>5 DEF ExitInFolder, Exit, Ends, Goto, Folder!Restart, Folder!At
      <4> QED
        BY <4>1, <4>2, <4>3, <4>4, <4>5 DEF RunInFolder
    <3>2. StartLeft(p)' = StartLeft(p)
      BY <3>1 DEF StartLeft, FolderLeft
    <3> QED
      BY <2>1, <2>2, <3>2
  <2> QED
    BY <1>1, <2>2, <2>3, <2>4 DEF NextInFolder, StartInFolder, Start
<1>2. AllInv /\ [NextInFolder]_allVars => AllInv'
  BY NextAllInv
<1>3. AllInv' => NeverLocksItself'
  BY DEF AllInv, IInv
<1> QED
  BY <1>1, <1>2, <1>3, InitAllInv, PTL DEF SpecInFolder

=============================================================================
