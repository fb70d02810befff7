--------------------------- MODULE DBManagerProofs ---------------------------
(***************************************************************************)
(* Proofs about DBManager, for any number of processes and companies, any  *)
(* version of the file and any bound on the prices.                        *)
(*                                                                         *)
(* A file may be reset under two circumstances only in which anything is   *)
(* promised, and they are different: where no process finds a file of      *)
(* another version and none is locked out (Calm), no reset ever begins,    *)
(* because every check of the version finds the current one; where one     *)
(* process is alone with a file of any version, it may reset it, but then  *)
(* nobody else has it in use.  In both, a statement never fails.           *)
(*                                                                         *)
(* That the constructor does not go round in circles with its checks,      *)
(* creations and resets is a rank of its statements, at the end.           *)
(***************************************************************************)
EXTENDS DBManager, FiniteSetTheorems, TLAPS

Label == SetupLabel \cup WorkLabel \cup {"down"}

\* What comes after each of the statements that create something.
AfterPrices == {"exist", "read"} \cup WorkLabel
AfterCompanies == AfterPrices \cup {"p_create"}
AfterInsert == AfterCompanies \cup {"c_create"}
AfterVersion == AfterInsert \cup {"v_present", "v_insert"}
Drops == {"v_drop", "c_drop", "p_drop"}

\* Only the processes of the setting ever run.
Outside == \A p \in Procs \ setting.procs : pc[p] = "down"

\* From where each statement can have been reached.
Modes ==
  \A p \in Procs :
    /\ pc[p] \in {"down", "exist"} => mode[p] = "ctor"
    /\ pc[p] \in {"read", "update"} => mode[p] = "try"
    /\ pc[p] \in Drops => mode[p] # "ctor"

\* The processes that found no version; each adds one row at most.
Inserting == {p \in setting.procs : pc[p] = "v_insert"}

VersionInv ==
  /\ Len(version) + Cardinality(Inserting) <= Cardinality(setting.procs)
  /\ \A i, j \in DOMAIN version : version[i] = version[j]
  /\ Inserting # {} => \A i \in DOMAIN version : version[i] = DbVersion

-----------------------------------------------------------------------------
Calm == ~setting.contention /\ ~Foreign

\* What a process has created, or found, is there until it drops it.
Existing(p) ==
  /\ pc[p] \in AfterVersion => "db_version" \in tables
  /\ pc[p] \in AfterInsert => version # <<>>
  /\ pc[p] \in AfterCompanies => "companies" \in tables
  /\ pc[p] \in AfterPrices => "prices" \in tables

\* The company in hand has a row, the one whose id was read.
JobFits(p) ==
  /\ pc[p] = "c_rowid" => Ids(job[p]) # {}
  /\ pc[p] = "p_add" => rowId[p] \in Ids(job[p])

PricesFit ==
  \A i \in DOMAIN prices :
    prices[i].company \in DOMAIN companies /\ companies[prices[i].company] = prices[i].of

\* All that the file has is of this version.
Current ==
  /\ \A t \in tables : schema[t] = DbVersion
  /\ \A i \in DOMAIN version : version[i] = DbVersion

\* It is as another version left it.
Stale == tables = Tables /\ version # <<>> /\ version[1] # DbVersion

Progress == Calm \/ Alone => \A p \in Procs : Existing(p) /\ JobFits(p)

CalmInv ==
  Calm => /\ \A i \in DOMAIN version : version[i] = DbVersion
          /\ \A p \in Procs : pc[p] \notin Drops \cup {"update"}
          /\ PricesFit

AloneInv ==
  Alone => \A p \in setting.procs :
    /\ pc[p] = "c_drop" => "db_version" \notin tables
    /\ pc[p] = "p_drop" => tables \subseteq {"prices"}
    /\ pc[p] = "v_create" /\ mode[p] # "ctor" => tables = {}
    /\ pc[p] \notin {"c_drop", "p_drop"} =>
         Current \/ (Stale /\ (mode[p] = "ctor" \/ pc[p] \in {"read", "update", "v_drop"}))
    /\ pc[p] # "p_drop" => PricesFit

IInv == TypeOK /\ Outside /\ Modes /\ VersionInv /\ Progress /\ CalmInv /\ AloneInv

\* A step of process p.
Act(p) == Open(p) \/ Crash(p) \/ SetupStep(p) \/ WorkStep(p) \/ StatementFails(p)

USE DBManagerAssumption

-----------------------------------------------------------------------------
\* Another element of a sequence.
LEMMA Appended ==
  ASSUME NEW S, NEW s \in Seq(S), NEW x \in S
  PROVE  /\ Append(s, x) \in Seq(S) /\ Len(s) \in Nat
         /\ DOMAIN s = 1..Len(s) /\ Len(Append(s, x)) = Len(s) + 1
         /\ DOMAIN Append(s, x) = 1..(Len(s) + 1)
         /\ \A i \in DOMAIN s : Append(s, x)[i] = s[i]
         /\ Append(s, x)[Len(s) + 1] = x
  OBVIOUS

\* A sequence without elements.
LEMMA NoElements == ASSUME NEW S PROVE <<>> \in Seq(S) /\ DOMAIN <<>> = {} /\ Len(<<>>) = 0
  OBVIOUS

-----------------------------------------------------------------------------
(* The type. *)

\* A table is created with no rows, or stays as it is.
LEMMA CreateTableType ==
  ASSUME TypeOK, NEW t \in Tables, CreateTable(t)
  PROVE  /\ tables' \subseteq Tables /\ schema' \in [Tables -> Nat]
         /\ UNCHANGED <<version, companies, prices>>
         /\ "db_version" \notin tables' => version' = <<>>
         /\ "companies" \notin tables' => companies' = <<>>
         /\ "prices" \notin tables' => prices' = <<>>
  BY DEF CreateTable, TypeOK, Tables

\* The two halves of the type: the file, and the processes.
DiskType ==
  /\ setting \in Settings
  /\ tables \subseteq Tables
  /\ schema \in [Tables -> Nat]
  /\ version \in Seq(Nat) /\ companies \in Seq(Uuids)
  /\ prices \in Seq([company : Nat, of : Uuids])
  /\ \A i, j \in DOMAIN companies : companies[i] = companies[j] => i = j
  /\ "db_version" \notin tables => version = <<>>
  /\ "companies" \notin tables => companies = <<>>
  /\ "prices" \notin tables => prices = <<>>

PlaceType ==
  /\ pc \in [Procs -> Label] /\ mode \in [Procs -> Mode]
  /\ \A p \in Procs : pc[p] \in WorkLabel <=> mode[p] = "up"
  /\ job \in [Procs -> Uuids] /\ rowId \in [Procs -> Nat]

LEMMA Halves ==
  /\ TypeOK <=> DiskType /\ PlaceType
  /\ TypeOK' <=> DiskType' /\ PlaceType'
<1>1. TypeOK <=> DiskType /\ PlaceType
  BY DEF TypeOK, DiskType, PlaceType, Label, Running
<1>2. TypeOK' <=> DiskType' /\ PlaceType'
  BY DEF TypeOK, DiskType, PlaceType, Label, Running
<1> QED
  BY <1>1, <1>2

\* A process goes to another place, into UpdatePrices or out of it as its mode says.
LEMMA MoveType ==
  ASSUME PlaceType, NEW p \in Procs, NEW l \in Label, NEW m \in Mode,
         pc' = [pc EXCEPT ![p] = l], mode' = [mode EXCEPT ![p] = m],
         l \in WorkLabel <=> m = "up",
         job' \in [Procs -> Uuids], rowId' \in [Procs -> Nat]
  PROVE  PlaceType'
<1>1. pc' \in [Procs -> Label] /\ mode' \in [Procs -> Mode]
  BY DEF PlaceType
<1>2. \A q \in Procs : pc'[q] \in WorkLabel <=> mode'[q] = "up"
  <2>1. \A q \in Procs \ {p} : pc'[q] = pc[q] /\ mode'[q] = mode[q]
    BY DEF PlaceType
  <2>2. pc'[p] = l /\ mode'[p] = m
    BY DEF PlaceType
  <2> QED
    BY <2>1, <2>2 DEF PlaceType
<1> QED
  BY <1>1, <1>2 DEF PlaceType

\* As long as its tables are being created or dropped, its mode stays.
LEMMA SetupType ==
  ASSUME PlaceType, NEW p \in Procs, NEW here \in SetupLabel \cup {"down"},
         NEW there \in SetupLabel, Setup(p, here, there)
  PROVE  PlaceType'
<1>1. here \notin WorkLabel /\ there \notin WorkLabel /\ there \in Label
  BY DEF SetupLabel, WorkLabel, Label
<1>2. mode[p] \in Mode /\ mode[p] # "up"
  BY <1>1 DEF Setup, PlaceType
<1>3. mode' = [mode EXCEPT ![p] = mode[p]]
  BY DEF Setup, PlaceType
<1>4. pc' = [pc EXCEPT ![p] = there] /\ job' \in [Procs -> Uuids] /\ rowId' \in [Procs -> Nat]
  BY DEF Setup, Goto, PlaceType
<1> QED
  BY <1>1, <1>2, <1>3, <1>4, MoveType

\* What an exception or the end of the process does to its place in the program.
LEMMA ThrowType ==
  ASSUME TypeOK, NEW p \in Procs, Throw(p) \/ Dies(p)
  PROVE  /\ pc' \in [Procs -> Label] /\ mode' \in [Procs -> Mode]
         /\ job' \in [Procs -> Uuids] /\ rowId' \in [Procs -> Nat]
         /\ \A q \in Procs : pc'[q] \in WorkLabel <=> mode'[q] = "up"
<1>1. Unnamed \in Uuids /\ pc \in [Procs -> Label]
  BY DEF Uuids, TypeOK, Label
<1>2. \E l \in {"v_drop", "down"} : \E m \in {"catch", "ctor"} :
        pc' = [pc EXCEPT ![p] = l] /\ mode' = [mode EXCEPT ![p] = m]
  BY DEF Throw, Dies, Goto
<1>3. job' \in [Procs -> Uuids] /\ rowId' \in [Procs -> Nat]
  <2>1. \/ UNCHANGED <<job, rowId>>
        \/ job' = [job EXCEPT ![p] = Unnamed] /\ rowId' = [rowId EXCEPT ![p] = 0]
    BY DEF Throw, Dies, Goto
  <2>2. job \in [Procs -> Uuids] /\ rowId \in [Procs -> Nat]
    BY DEF TypeOK
  <2> QED
    BY <1>1, <2>1, <2>2
<1>4. \A q \in Procs : pc'[q] \in WorkLabel <=> mode'[q] = "up"
  BY <1>2 DEF TypeOK, Running, WorkLabel
<1>5. pc' \in [Procs -> Label] /\ mode' \in [Procs -> Mode]
  BY <1>1, <1>2 DEF TypeOK, Label, SetupLabel, Mode
<1> QED
  BY <1>3, <1>4, <1>5

\* Every action keeps the type.
LEMMA ActTypeOK ==
  ASSUME TypeOK, NEW p \in setting.procs, UNCHANGED setting, Act(p)
  PROVE  TypeOK'
<1>0. p \in Procs /\ setting' \in Settings
  BY DEF TypeOK, Setting
<1>a. DiskType /\ PlaceType
  BY Halves
<1> SUFFICES DiskType' /\ PlaceType'
  BY Halves
<1> USE <1>0, <1>a
<1>b. ASSUME UNCHANGED disk PROVE DiskType'
  BY <1>b DEF disk, DiskType
<1>c. ASSUME NEW t \in Tables, CreateTable(t) PROVE DiskType'
  BY <1>c, CreateTableType DEF DiskType
<1>d. job \in [Procs -> Uuids] /\ rowId \in [Procs -> Nat]
  BY DEF PlaceType
<1>1. CASE Open(p)
  BY <1>1, <1>b, SetupType DEF Open, SetupLabel
<1>2. CASE CreateVersion(p)
  BY <1>2, <1>c, SetupType DEF CreateVersion, SetupLabel, Tables
<1>3. CASE VersionPresent(p)
  BY <1>3, <1>b, SetupType DEF VersionPresent, SetupLabel
<1>4. CASE InsertVersion(p)
  <2>1. PlaceType'
    BY <1>4, SetupType DEF InsertVersion, SetupLabel
  <2>2. version' \in Seq(Nat) /\ "db_version" \in tables
    BY <1>4, Appended DEF InsertVersion, DiskType
  <2> QED
    BY <1>4, <2>1, <2>2 DEF InsertVersion, DiskType
<1>5. CASE CreateCompanies(p)
  BY <1>5, <1>c, SetupType DEF CreateCompanies, SetupLabel, Tables
<1>6. CASE CreatePrices(p)
  <2>1. DiskType'
    BY <1>6, <1>c DEF CreatePrices, Tables
  <2>2. \E l \in {"exist", "idle"} : \E m \in Mode :
          /\ pc' = [pc EXCEPT ![p] = l] /\ mode' = [mode EXCEPT ![p] = m]
          /\ l = "idle" <=> m = "up"
    BY <1>6 DEF CreatePrices, Goto, PlaceType, Mode
  <2>3. UNCHANGED <<job, rowId>>
    BY <1>6 DEF CreatePrices
  <2> QED
    BY <1>d, <2>1, <2>2, <2>3, MoveType DEF Label, SetupLabel, WorkLabel
<1>7. CASE IsExist(p)
  <2>1. \E l \in {"read", "v_drop"} : \E m \in {"try", "plain"} :
          pc' = [pc EXCEPT ![p] = l] /\ mode' = [mode EXCEPT ![p] = m]
    BY <1>7 DEF IsExist, Goto
  <2>2. UNCHANGED disk /\ UNCHANGED <<job, rowId>>
    BY <1>7 DEF IsExist
  <2> QED
    BY <1>b, <1>d, <2>1, <2>2, MoveType DEF Label, SetupLabel, WorkLabel, Mode
<1>8. CASE ReadVersion(p)
  <2>1. mode[p] \in Mode /\ mode[p] # "up" /\ mode = [mode EXCEPT ![p] = mode[p]]
    BY <1>8 DEF ReadVersion, PlaceType, WorkLabel
  <2>2. \/ pc' = [pc EXCEPT ![p] = "idle"] /\ mode' = [mode EXCEPT ![p] = "up"]
        \/ \E l \in {"v_drop", "update"} :
             pc' = [pc EXCEPT ![p] = l] /\ mode' = [mode EXCEPT ![p] = mode[p]]
    BY <1>8, <2>1 DEF ReadVersion, Goto
  <2>3. UNCHANGED disk /\ UNCHANGED <<job, rowId>>
    BY <1>8 DEF ReadVersion
  <2> QED
    BY <1>b, <1>d, <2>1, <2>2, <2>3, MoveType DEF Label, SetupLabel, WorkLabel, Mode
<1>9. CASE UpdateVersion(p)
  BY <1>9, <1>b, ThrowType DEF UpdateVersion, UpdateSucceeds, PlaceType
<1>10. CASE DropVersion(p)
  <2>1. PlaceType'
    BY <1>10, SetupType DEF DropVersion, SetupLabel
  <2> QED
    BY <1>10, <2>1, NoElements DEF DropVersion, DiskType
<1>11. CASE DropCompanies(p)
  <2>1. PlaceType'
    BY <1>11, SetupType DEF DropCompanies, SetupLabel
  <2> QED
    BY <1>11, <2>1, NoElements DEF DropCompanies, DiskType
<1>12. CASE DropPrices(p)
  <2>1. PlaceType'
    BY <1>12, SetupType DEF DropPrices, SetupLabel
  <2> QED
    BY <1>12, <2>1, NoElements DEF DropPrices, DiskType
<1>e. ASSUME pc[p] \in WorkLabel, NEW l \in WorkLabel, Goto(p, l), UNCHANGED mode,
             job' \in [Procs -> Uuids], rowId' \in [Procs -> Nat]
      PROVE  PlaceType'
  <2>1. mode[p] = "up" /\ mode = [mode EXCEPT ![p] = mode[p]]
    BY <1>e DEF PlaceType
  <2>2. pc' = [pc EXCEPT ![p] = l] /\ mode' = [mode EXCEPT ![p] = "up"]
    BY <1>e, <2>1 DEF Goto
  <2> QED
    BY <1>e, <2>2, MoveType DEF Label, Mode
<1>13. CASE Fetch(p)
  <2>1. setting.symbols \cup {Unnamed} \subseteq Uuids
    BY DEF DiskType, Setting, Uuids
  <2>2. job' \in [Procs -> Uuids]
    BY <1>13, <1>d, <2>1 DEF Fetch
  <2>3. PlaceType'
    BY <1>13, <1>d, <1>e, <2>2 DEF Fetch, WorkLabel
  <2> QED
    BY <1>13, <1>b, <2>3 DEF Fetch
<1>14. CASE AddCompany(p)
  <2>1. companies' \in Seq(Uuids) /\ "companies" \in tables
    BY <1>14, <1>d, Appended DEF AddCompany, DiskType
  <2>2. \A i, j \in DOMAIN companies' : companies'[i] = companies'[j] => i = j
    <3>0. \A i, j \in DOMAIN companies : companies[i] = companies[j] => i = j
      BY DEF DiskType
    <3>1. CASE Ids(job[p]) = {}
      <4>1. companies' = Append(companies, job[p]) /\ job[p] \in Uuids /\ companies \in Seq(Uuids)
        BY <1>14, <1>d, <3>1 DEF AddCompany, DiskType
      <4>2. \A i \in DOMAIN companies : companies[i] # job[p]
        BY <3>1 DEF Ids
      <4>3. /\ DOMAIN companies = 1..Len(companies)
            /\ DOMAIN companies' = 1..(Len(companies) + 1)
            /\ \A i \in DOMAIN companies : companies'[i] = companies[i]
            /\ companies'[Len(companies) + 1] = job[p] /\ Len(companies) \in Nat
        BY <4>1, Appended
      <4> QED
        BY <3>0, <4>2, <4>3
    <3>2. CASE Ids(job[p]) # {}
      BY <1>14, <3>0, <3>2 DEF AddCompany
    <3> QED
      BY <3>1, <3>2
  <2>3. PlaceType'
    BY <1>14, <1>d, <1>e DEF AddCompany, WorkLabel
  <2> QED
    BY <1>14, <2>1, <2>2, <2>3 DEF AddCompany, DiskType
<1>15. CASE GetRowID(p)
  <2>0. \A i \in DOMAIN companies : i \in Nat
    BY DEF DiskType
  <2>1. rowId' \in [Procs -> Nat]
    BY <1>15, <1>d, <2>0 DEF GetRowID, Ids
  <2>2. PlaceType'
    BY <1>15, <1>d, <1>e, <2>1 DEF GetRowID, WorkLabel
  <2> QED
    BY <1>15, <1>b, <2>2 DEF GetRowID
<1>16. CASE AddPrice(p)
  <2>1. [company |-> rowId[p], of |-> job[p]] \in [company : Nat, of : Uuids]
    BY <1>d
  <2>2. prices' \in Seq([company : Nat, of : Uuids]) /\ "prices" \in tables
    BY <1>16, <2>1, Appended DEF AddPrice, DiskType
  <2>3. PlaceType'
    BY <1>16, <1>d, <1>e DEF AddPrice, WorkLabel
  <2> QED
    BY <1>16, <2>2, <2>3 DEF AddPrice, DiskType
<1>17. CASE StatementFails(p)
  BY <1>17, <1>b, ThrowType DEF StatementFails, PlaceType
<1>18. CASE Crash(p)
  BY <1>18, <1>b, ThrowType DEF Crash, PlaceType
<1> QED
  BY <1>1, <1>2, <1>3, <1>4, <1>5, <1>6, <1>7, <1>8, <1>9, <1>10, <1>11, <1>12, <1>13, <1>14,
     <1>15, <1>16, <1>17, <1>18 DEF Act, SetupStep, WorkStep

-----------------------------------------------------------------------------
(* The places of the processes. *)

\* A step moves its own process, and no other one.
LEMMA ActMoves ==
  ASSUME TypeOK, NEW p \in Procs, Act(p)
  PROVE  \A q \in Procs \ {p} :
           pc'[q] = pc[q] /\ mode'[q] = mode[q] /\ job'[q] = job[q] /\ rowId'[q] = rowId[q]
<1>1. CASE Open(p)
  BY <1>1 DEF Open, Setup, Goto, TypeOK
<1>2. CASE Crash(p)
  BY <1>2 DEF Crash, Dies, Goto, TypeOK
<1>3. CASE SetupStep(p)
  BY <1>3 DEF SetupStep, CreateVersion, VersionPresent, InsertVersion, CreateCompanies, CreatePrices,
              IsExist, ReadVersion, UpdateVersion, UpdateSucceeds, DropVersion, DropCompanies,
              DropPrices, Setup, Throw, Dies, Goto, TypeOK
<1>4. CASE WorkStep(p)
  BY <1>4 DEF WorkStep, Fetch, AddCompany, GetRowID, AddPrice, Goto, disk, TypeOK
<1>5. CASE StatementFails(p)
  BY <1>5 DEF StatementFails, Throw, Dies, Goto, TypeOK
<1> QED
  BY <1>1, <1>2, <1>3, <1>4, <1>5 DEF Act

\* Each statement is reached from where it should be.
LEMMA ActModes ==
  ASSUME TypeOK, Modes, NEW p \in Procs, Act(p)
  PROVE  Modes'
<1>1. /\ pc'[p] \in {"down", "exist"} => mode'[p] = "ctor"
      /\ pc'[p] \in {"read", "update"} => mode'[p] = "try"
      /\ pc'[p] \in Drops => mode'[p] # "ctor"
  <2>1. CASE Open(p)
    BY <2>1 DEF Open, Setup, Goto, TypeOK, Drops
  <2>2. CASE Crash(p)
    BY <2>2 DEF Crash, Dies, Goto, TypeOK, Drops
  <2>3. CASE SetupStep(p)
    BY <2>3 DEF SetupStep, CreateVersion, VersionPresent, InsertVersion, CreateCompanies,
                CreatePrices, IsExist, ReadVersion, UpdateVersion, UpdateSucceeds, DropVersion,
                DropCompanies, DropPrices, Setup, Throw, Dies, Goto, TypeOK, Modes, Drops
  <2>4. CASE WorkStep(p)
    BY <2>4 DEF WorkStep, Fetch, AddCompany, GetRowID, AddPrice, Goto, disk, TypeOK, Drops
  <2>5. CASE StatementFails(p)
    BY <2>5 DEF StatementFails, Throw, Dies, Goto, TypeOK, Drops
  <2> QED
    BY <2>1, <2>2, <2>3, <2>4, <2>5 DEF Act
<1>2. \A q \in Procs \ {p} : pc'[q] = pc[q] /\ mode'[q] = mode[q]
  BY ActMoves
<1> QED
  BY <1>1, <1>2 DEF Modes

\* What a step does to the rows of db_version.
LEMMA ActVersion ==
  ASSUME TypeOK, NEW p \in Procs, Act(p)
  PROVE  \/ version' = version /\ pc'[p] # "v_insert"
         \/ version' = version /\ version = <<>> /\ pc[p] # "v_insert" /\ pc'[p] = "v_insert"
         \/ version' = Append(version, DbVersion) /\ pc[p] = "v_insert" /\ pc'[p] # "v_insert"
         \/ version' = <<>> /\ pc'[p] # "v_insert"
<1>1. CASE Open(p)
  BY <1>1 DEF Open, Setup, Goto, disk, TypeOK
<1>2. CASE Crash(p)
  BY <1>2 DEF Crash, Dies, Goto, disk, TypeOK
<1>3. CASE VersionPresent(p)
  BY <1>3 DEF VersionPresent, Setup, Goto, disk, TypeOK
<1>4. CASE InsertVersion(p)
  BY <1>4 DEF InsertVersion, Setup, Goto, TypeOK
<1>5. CASE CreateVersion(p) \/ CreateCompanies(p) \/ CreatePrices(p)
  BY <1>5 DEF CreateVersion, CreateCompanies, CreatePrices, CreateTable, Setup, Goto, TypeOK
<1>6. CASE IsExist(p) \/ ReadVersion(p) \/ UpdateVersion(p)
  BY <1>6 DEF IsExist, ReadVersion, UpdateVersion, UpdateSucceeds, Throw, Dies, Goto, disk, TypeOK
<1>7. CASE DropVersion(p) \/ DropCompanies(p) \/ DropPrices(p)
  BY <1>7 DEF DropVersion, DropCompanies, DropPrices, Setup, Goto, TypeOK
<1>8. CASE WorkStep(p)
  BY <1>8 DEF WorkStep, Fetch, AddCompany, GetRowID, AddPrice, Goto, disk, TypeOK
<1>9. CASE StatementFails(p)
  BY <1>9 DEF StatementFails, Throw, Dies, Goto, disk, TypeOK
<1> QED
  BY <1>1, <1>2, <1>3, <1>4, <1>5, <1>6, <1>7, <1>8, <1>9 DEF Act, SetupStep

\* Whoever inserts a row takes its place among those that may insert one.
LEMMA ActVersionInv ==
  ASSUME TypeOK, VersionInv, NEW p \in setting.procs, UNCHANGED setting, Act(p)
  PROVE  VersionInv'
<1> DEFINE S == setting.procs
<1>1. p \in Procs /\ S \subseteq Procs /\ IsFiniteSet(S)
  BY FS_Subset DEF TypeOK, Setting
<1>2. \A q \in Procs \ {p} : pc'[q] = pc[q]
  BY <1>1, ActMoves
<1>3. /\ IsFiniteSet(Inserting) /\ Inserting \subseteq S
      /\ Cardinality(Inserting) \in Nat /\ Cardinality(S) \in Nat
  BY <1>1, FS_Subset, FS_CardinalityType DEF Inserting
<1>4. /\ IsFiniteSet(Inserting') /\ Inserting' \subseteq S
      /\ Cardinality(Inserting') \in Nat /\ Cardinality(Inserting') <= Cardinality(S)
  BY <1>1, FS_Subset, FS_CardinalityType DEF Inserting
<1>5. version \in Seq(Nat) /\ Len(version) \in Nat
  BY DEF TypeOK
<1>6. CASE version' = version /\ pc'[p] # "v_insert"
  <2>1. Inserting' \subseteq Inserting
    BY <1>1, <1>2, <1>6 DEF Inserting
  <2>2. Cardinality(Inserting') <= Cardinality(Inserting)
    BY <1>3, <2>1, FS_Subset
  <2> QED
    BY <1>3, <1>4, <1>5, <1>6, <2>1, <2>2 DEF VersionInv
<1>7. CASE version' = <<>>
  BY <1>3, <1>4, <1>7, NoElements DEF VersionInv
<1>8. CASE version' = Append(version, DbVersion) /\ pc[p] = "v_insert" /\ pc'[p] # "v_insert"
  <2>1. Inserting' = Inserting \ {p} /\ p \in Inserting
    BY <1>1, <1>2, <1>8 DEF Inserting
  <2>2. Cardinality(Inserting') = Cardinality(Inserting) - 1
    BY <1>3, <2>1, FS_RemoveElement
  <2>3. \A i \in DOMAIN version : version[i] = DbVersion
    BY <2>1 DEF VersionInv
  <2>4. Len(version') = Len(version) + 1 /\ \A i \in DOMAIN version' : version'[i] = DbVersion
    BY <1>5, <1>8, <2>3, Appended
  <2> QED
    BY <1>3, <1>4, <1>5, <2>2, <2>4 DEF VersionInv
<1> QED
  BY <1>1, <1>6, <1>7, <1>8, ActVersion

-----------------------------------------------------------------------------
(* The rows of the other tables. *)

\* But for the statements of a reset, tables and rows only become more.
LEMMA ActGrows ==
  ASSUME TypeOK, NEW p \in Procs, Act(p), pc[p] \notin Drops
  PROVE  /\ tables \subseteq tables'
         /\ version # <<>> => version' # <<>>
         /\ \/ UNCHANGED <<companies, prices>>
            \/ companies' = Append(companies, job[p]) /\ prices' = prices
            \/ /\ companies' = companies /\ pc[p] = "p_add"
               /\ prices' = Append(prices, [company |-> rowId[p], of |-> job[p]])
<1>1. CASE Open(p) \/ Crash(p) \/ VersionPresent(p) \/ Fetch(p) \/ GetRowID(p)
  BY <1>1 DEF Open, Crash, VersionPresent, Fetch, GetRowID, disk
<1>2. CASE CreateVersion(p) \/ CreateCompanies(p) \/ CreatePrices(p)
  BY <1>2 DEF CreateVersion, CreateCompanies, CreatePrices, CreateTable
<1>3. CASE InsertVersion(p)
  <2>1. Len(version') = Len(version) + 1 /\ Len(version) \in Nat
    BY <1>3, Appended DEF InsertVersion, TypeOK
  <2> QED
    BY <1>3, <2>1, NoElements DEF InsertVersion
<1>4. CASE IsExist(p) \/ ReadVersion(p) \/ UpdateVersion(p)
  BY <1>4 DEF IsExist, ReadVersion, UpdateVersion, UpdateSucceeds, disk
<1>5. CASE DropVersion(p) \/ DropCompanies(p) \/ DropPrices(p)
  BY <1>5 DEF DropVersion, DropCompanies, DropPrices, Setup, Drops
<1>6. CASE AddCompany(p)
  BY <1>6 DEF AddCompany
<1>7. CASE AddPrice(p)
  BY <1>7 DEF AddPrice
<1>8. CASE StatementFails(p)
  BY <1>8 DEF StatementFails, disk
<1> QED
  BY <1>1, <1>2, <1>3, <1>4, <1>5, <1>6, <1>7, <1>8 DEF Act, SetupStep, WorkStep

\* The row of a company stays where it is.
LEMMA ActKeepsIds ==
  ASSUME TypeOK, NEW p \in Procs, Act(p), pc[p] \notin Drops
  PROVE  /\ \A i \in DOMAIN companies : i \in DOMAIN companies' /\ companies'[i] = companies[i]
         /\ \A c \in Uuids : Ids(c) \subseteq Ids(c)'
<1>1. companies \in Seq(Uuids) /\ job[p] \in Uuids
  BY DEF TypeOK
<1>2. companies' = companies \/ companies' = Append(companies, job[p])
  BY ActGrows
<1>3. \A i \in DOMAIN companies : i \in DOMAIN companies' /\ companies'[i] = companies[i]
  BY <1>1, <1>2, Appended
<1> QED
  BY <1>3 DEF Ids

\* Prices stay with their companies, as long as those are not dropped.
LEMMA ActPricesFit ==
  ASSUME TypeOK, NEW p \in Procs, Act(p), pc[p] \notin Drops, PricesFit, JobFits(p)
  PROVE  PricesFit'
<1>1. \A i \in DOMAIN companies : i \in DOMAIN companies' /\ companies'[i] = companies[i]
  BY ActKeepsIds
<1>2. CASE prices' = prices
  BY <1>1, <1>2 DEF PricesFit
<1>3. CASE /\ companies' = companies /\ pc[p] = "p_add"
           /\ prices' = Append(prices, [company |-> rowId[p], of |-> job[p]])
  <2> DEFINE r == [company |-> rowId[p], of |-> job[p]]
             n == Len(prices)
  <2>1. r \in [company : Nat, of : Uuids] /\ prices \in Seq([company : Nat, of : Uuids])
    BY DEF TypeOK
  <2>2. r.company \in DOMAIN companies /\ companies[r.company] = r.of
    BY <1>3 DEF JobFits, Ids
  <2>3. /\ DOMAIN prices' = DOMAIN prices \cup {n + 1} /\ prices'[n + 1] = r
        /\ \A i \in DOMAIN prices : prices'[i] = prices[i]
    BY <1>3, <2>1, Appended
  <2> QED
    BY <1>3, <2>2, <2>3 DEF PricesFit
<1> QED
  BY <1>2, <1>3, ActGrows

-----------------------------------------------------------------------------
(* Where something is promised. *)

\* No statement fails.
LEMMA NothingFails ==
  ASSUME IInv, Calm \/ Alone, NEW p \in setting.procs
  PROVE  ~StatementFails(p)
<1>1. p \in Procs
  BY DEF IInv, TypeOK, Setting
<1>2. Existing(p) /\ JobFits(p)
  BY <1>1 DEF IInv, Progress
<1>3. ~CannotRun(p)
  BY <1>2 DEF CannotRun, Existing, JobFits, AfterVersion, AfterInsert, AfterCompanies, AfterPrices,
              WorkLabel
<1>4. ~Busy(p)
  <2>1. CASE Calm
    BY <2>1 DEF Calm, Busy
  <2>2. CASE Alone
    BY <2>2 DEF Alone, Busy, IInv, Outside
  <2> QED
    BY <2>1, <2>2
<1> QED
  BY <1>3, <1>4 DEF StatementFails

\* A process gets on by its own steps.
LEMMA OwnProgress ==
  ASSUME IInv, Calm \/ Alone, NEW p \in setting.procs, Act(p)
  PROVE  Existing(p)' /\ JobFits(p)'
<1>1. p \in Procs /\ Existing(p) /\ JobFits(p) /\ TypeOK
  BY DEF IInv, TypeOK, Setting, Progress
<1> USE DEF AfterVersion, AfterInsert, AfterCompanies, AfterPrices, WorkLabel
<1>2. CASE Open(p) \/ Crash(p)
  BY <1>1, <1>2 DEF Open, Crash, Dies, Setup, Goto, Existing, JobFits, TypeOK
<1>3. CASE CreateVersion(p)
  BY <1>1, <1>3 DEF CreateVersion, CreateTable, Setup, Goto, Existing, JobFits, TypeOK
<1>4. CASE VersionPresent(p)
  BY <1>1, <1>4 DEF VersionPresent, Setup, Goto, disk, Existing, JobFits, TypeOK
<1>5. CASE InsertVersion(p)
  <2>1. version' # <<>>
    <3>1. Len(version') = Len(version) + 1 /\ Len(version) \in Nat
      BY <1>1, <1>5, Appended DEF InsertVersion, TypeOK
    <3> QED
      BY <3>1, NoElements
  <2> QED
    BY <1>1, <1>5, <2>1 DEF InsertVersion, Setup, Goto, Existing, JobFits, TypeOK
<1>6. CASE CreateCompanies(p)
  BY <1>1, <1>6 DEF CreateCompanies, CreateTable, Setup, Goto, Existing, JobFits, TypeOK
<1>7. CASE CreatePrices(p)
  BY <1>1, <1>7 DEF CreatePrices, CreateTable, Goto, Existing, JobFits, TypeOK
<1>8. CASE IsExist(p)
  BY <1>1, <1>8 DEF IsExist, Goto, disk, Existing, JobFits, TypeOK
<1>9. CASE ReadVersion(p)
  BY <1>1, <1>9 DEF ReadVersion, Goto, disk, Existing, JobFits, TypeOK
<1>10. CASE UpdateVersion(p)
  BY <1>1, <1>10 DEF UpdateVersion, UpdateSucceeds, Throw, Dies, Goto, disk, Existing, JobFits, TypeOK
<1>11. CASE DropVersion(p) \/ DropCompanies(p) \/ DropPrices(p)
  BY <1>1, <1>11 DEF DropVersion, DropCompanies, DropPrices, Setup, Goto, Existing, JobFits, TypeOK
<1>12. CASE Fetch(p)
  BY <1>1, <1>12 DEF Fetch, Goto, disk, Existing, JobFits, TypeOK
<1>13. CASE AddCompany(p)
  <2>1. Ids(job[p])' # {}
    <3>1. CASE Ids(job[p]) = {}
      <4>1. companies' = Append(companies, job[p]) /\ job[p] \in Uuids /\ companies \in Seq(Uuids)
        BY <1>1, <1>13, <3>1 DEF AddCompany, TypeOK
      <4>2. Len(companies) + 1 \in DOMAIN companies' /\ companies'[Len(companies) + 1] = job[p]
        BY <4>1, Appended
      <4> QED
        BY <1>13, <4>2 DEF AddCompany, Ids
    <3>2. CASE Ids(job[p]) # {}
      BY <1>13, <3>2 DEF AddCompany, Ids
    <3> QED
      BY <3>1, <3>2
  <2> QED
    BY <1>1, <1>13, <2>1 DEF AddCompany, Goto, Existing, JobFits, TypeOK
<1>14. CASE GetRowID(p)
  <2>1. rowId'[p] \in Ids(job[p])'
    BY <1>1, <1>14 DEF GetRowID, disk, Ids, TypeOK
  <2>2. pc[p] = "c_rowid" /\ pc'[p] \in {"idle", "p_add"}
    BY <1>1, <1>14 DEF GetRowID, Goto, TypeOK
  <2> QED
    BY <1>1, <1>14, <2>1, <2>2 DEF GetRowID, disk, Existing, JobFits
<1>15. CASE AddPrice(p)
  BY <1>1, <1>15 DEF AddPrice, Goto, Existing, JobFits, TypeOK
<1> QED
  BY <1>2, <1>3, <1>4, <1>5, <1>6, <1>7, <1>8, <1>9, <1>10, <1>11, <1>12, <1>13, <1>14, <1>15,
     NothingFails DEF Act, SetupStep, WorkStep

\* The circumstances do not change.
LEMMA SameSetting == UNCHANGED setting => (Calm' <=> Calm) /\ (Alone' <=> Alone)
  BY DEF Calm, Alone, Foreign

\* What other processes do takes nothing away from a process.
LEMMA ActProgress ==
  ASSUME IInv, NEW p \in setting.procs, UNCHANGED setting, Act(p)
  PROVE  Progress'
<1> SUFFICES ASSUME Calm \/ Alone, NEW q \in Procs PROVE Existing(q)' /\ JobFits(q)'
  BY SameSetting DEF Progress
<1>1. p \in Procs /\ TypeOK /\ Existing(q) /\ JobFits(q)
  BY DEF IInv, TypeOK, Setting, Progress
<1>2. CASE q = p
  BY <1>2, OwnProgress
<1>3. CASE q # p
  <2>1. pc'[q] = pc[q] /\ job'[q] = job[q] /\ rowId'[q] = rowId[q]
    BY <1>1, <1>3, ActMoves
  <2>2. CASE pc[q] = "down"
    BY <2>1, <2>2 DEF Existing, JobFits, AfterVersion, AfterInsert, AfterCompanies, AfterPrices,
                      WorkLabel
  <2>3. CASE pc[q] # "down"
    <3>1. Calm
      BY <1>1, <1>3, <2>3 DEF Alone, IInv, Outside
    <3>2. pc[p] \notin Drops
      BY <1>1, <3>1 DEF IInv, CalmInv
    <3>3. tables \subseteq tables' /\ (version # <<>> => version' # <<>>)
      BY <1>1, <3>2, ActGrows
    <3>4. job[q] \in Uuids /\ Ids(job[q]) \subseteq Ids(job[q])'
      <4>1. job[q] \in Uuids
        BY <1>1 DEF TypeOK
      <4>2. \A c \in Uuids : Ids(c) \subseteq Ids(c)'
        BY <1>1, <3>2, ActKeepsIds
      <4> QED
        BY <2>1, <4>1, <4>2 DEF Ids
    <3> QED
      BY <1>1, <2>1, <3>3, <3>4 DEF Existing, JobFits
  <2> QED
    BY <2>2, <2>3
<1> QED
  BY <1>2, <1>3

\* Where nobody finds a file of another version no reset begins.
LEMMA ActCalm ==
  ASSUME IInv, NEW p \in setting.procs, UNCHANGED setting, Act(p)
  PROVE  CalmInv'
<1> SUFFICES ASSUME Calm
             PROVE  /\ \A i \in DOMAIN version' : version'[i] = DbVersion
                    /\ \A q \in Procs : pc'[q] \notin Drops \cup {"update"}
                    /\ PricesFit'
  BY SameSetting DEF CalmInv
<1>1. p \in Procs /\ TypeOK /\ Existing(p) /\ JobFits(p)
  BY DEF IInv, TypeOK, Setting, Progress
<1>2. /\ \A i \in DOMAIN version : version[i] = DbVersion
      /\ \A q \in Procs : pc[q] \notin Drops \cup {"update"}
      /\ PricesFit
  BY DEF IInv, CalmInv
<1>3. \A i \in DOMAIN version' : version'[i] = DbVersion
  <2>1. version \in Seq(Nat)
    BY <1>1 DEF TypeOK
  <2>2. version' \in {version, <<>>, Append(version, DbVersion)}
    BY <1>1, ActVersion
  <2> QED
    BY <1>2, <2>1, <2>2, Appended, NoElements
<1>4. pc'[p] \notin Drops \cup {"update"}
  <2>1. CASE IsExist(p)
    BY <1>1, <2>1 DEF IsExist, Goto, Existing, AfterVersion, AfterInsert, AfterCompanies, AfterPrices,
                      TypeOK, Drops
  <2>2. CASE ReadVersion(p)
    <3>1. 1 \in DOMAIN version
      BY <1>1, <2>2 DEF ReadVersion, TypeOK
    <3> QED
      BY <1>1, <1>2, <2>2, <3>1 DEF ReadVersion, Goto, TypeOK, Drops
  <2>3. CASE UpdateVersion(p) \/ DropVersion(p) \/ DropCompanies(p) \/ DropPrices(p)
    BY <1>1, <1>2, <2>3 DEF UpdateVersion, DropVersion, DropCompanies, DropPrices, Setup, Drops
  <2>4. CASE Open(p) \/ Crash(p)
    BY <1>1, <2>4 DEF Open, Crash, Dies, Setup, Goto, TypeOK, Drops
  <2>5. CASE CreateVersion(p) \/ VersionPresent(p) \/ InsertVersion(p) \/ CreateCompanies(p)
               \/ CreatePrices(p)
    BY <1>1, <2>5 DEF CreateVersion, VersionPresent, InsertVersion, CreateCompanies, CreatePrices,
                      Setup, Goto, TypeOK, Drops
  <2>6. CASE WorkStep(p)
    BY <1>1, <2>6 DEF WorkStep, Fetch, AddCompany, GetRowID, AddPrice, Goto, TypeOK, Drops
  <2> QED
    BY <2>1, <2>2, <2>3, <2>4, <2>5, <2>6, NothingFails DEF Act, SetupStep
<1>5. PricesFit'
  BY <1>1, <1>2, ActPricesFit
<1>6. \A q \in Procs \ {p} : pc'[q] = pc[q]
  BY <1>1, ActMoves
<1> QED
  BY <1>2, <1>3, <1>4, <1>5, <1>6

\* A table that is created is of this version.
LEMMA CreateTableCurrent ==
  ASSUME TypeOK, NEW t \in Tables, CreateTable(t)
  PROVE  /\ Current => Current'
         /\ Stale => Stale'
         /\ version' = version
  BY DEF CreateTable, Current, Stale, TypeOK, Tables

\* Who is alone with a file uses it as it is, if it is of this version, or drops all
\* of it before anything of it is used.
LEMMA ActAlone ==
  ASSUME IInv, NEW p \in setting.procs, UNCHANGED setting, Act(p)
  PROVE  AloneInv'
<1> SUFFICES ASSUME Alone
             PROVE  /\ pc'[p] = "c_drop" => "db_version" \notin tables'
                    /\ pc'[p] = "p_drop" => tables' \subseteq {"prices"}
                    /\ pc'[p] = "v_create" /\ mode'[p] # "ctor" => tables' = {}
                    /\ pc'[p] \notin {"c_drop", "p_drop"} =>
                         \/ Current'
                         \/ Stale' /\ (mode'[p] = "ctor" \/ pc'[p] \in {"read", "update", "v_drop"})
                    /\ pc'[p] # "p_drop" => PricesFit'
  BY SameSetting DEF AloneInv, Alone
<1>1. p \in Procs /\ TypeOK /\ Existing(p) /\ JobFits(p) /\ Modes /\ VersionInv
  BY DEF IInv, TypeOK, Setting, Progress
<1>2. /\ pc[p] = "c_drop" => "db_version" \notin tables
      /\ pc[p] = "p_drop" => tables \subseteq {"prices"}
      /\ pc[p] = "v_create" /\ mode[p] # "ctor" => tables = {}
      /\ pc[p] \notin {"c_drop", "p_drop"} =>
           Current \/ (Stale /\ (mode[p] = "ctor" \/ pc[p] \in {"read", "update", "v_drop"}))
      /\ pc[p] # "p_drop" => PricesFit
  BY DEF IInv, AloneInv
<1>3. pc[p] \notin Drops => PricesFit'
  BY <1>1, <1>2, ActPricesFit DEF Drops
<1>4. UNCHANGED disk => (Current' <=> Current) /\ (Stale' <=> Stale) /\ (PricesFit' <=> PricesFit)
  BY DEF disk, Current, Stale, PricesFit
<1>5. CASE Open(p)
  BY <1>1, <1>2, <1>3, <1>4, <1>5 DEF Open, Setup, Goto, TypeOK, Modes, Drops
<1>6. CASE Crash(p)
  BY <1>6 DEF Crash, Alone
<1>7. CASE CreateVersion(p)
  BY <1>1, <1>2, <1>3, <1>7, CreateTableCurrent DEF CreateVersion, Setup, Goto, TypeOK, Drops, Tables
<1>8. CASE VersionPresent(p)
  BY <1>1, <1>2, <1>3, <1>4, <1>8 DEF VersionPresent, Setup, Goto, TypeOK, Drops
<1>9. CASE InsertVersion(p)
  <2>1. pc[p] = "v_insert" /\ pc'[p] = "c_create" /\ p \in Inserting /\ tables' = tables
    BY <1>1, <1>9 DEF InsertVersion, Setup, Goto, Inserting, TypeOK
  <2>2. \A i \in DOMAIN version : version[i] = DbVersion
    BY <1>1, <2>1 DEF VersionInv
  <2>3. \A i \in DOMAIN version' : version'[i] = DbVersion
    <3>1. version \in Seq(Nat) /\ DbVersion \in Nat /\ version' = Append(version, DbVersion)
      BY <1>1, <1>9 DEF InsertVersion, TypeOK
    <3> QED
      BY <2>2, <3>1, Appended
  <2>4. ~Stale
    BY <1>1, <2>2 DEF Stale, TypeOK
  <2>5. Current'
    BY <1>2, <1>9, <2>1, <2>3, <2>4 DEF InsertVersion, Current
  <2> QED
    BY <1>3, <2>1, <2>5 DEF Drops
<1>10. CASE CreateCompanies(p)
  BY <1>1, <1>2, <1>3, <1>10, CreateTableCurrent
  DEF CreateCompanies, Setup, Goto, TypeOK, Drops, Tables
<1>11. CASE CreatePrices(p)
  BY <1>1, <1>2, <1>3, <1>11, CreateTableCurrent DEF CreatePrices, Goto, TypeOK, Drops, Tables
<1>12. CASE IsExist(p)
  <2>1. pc[p] = "exist" /\ pc'[p] = "read"
    BY <1>1, <1>12 DEF IsExist, Goto, Existing, AfterVersion, AfterInsert, AfterCompanies, AfterPrices,
                       TypeOK
  <2> QED
    BY <1>2, <1>3, <1>4, <1>12, <2>1 DEF IsExist, Drops
<1>13. CASE ReadVersion(p)
  <2>1. /\ pc[p] = "read" /\ UNCHANGED disk /\ version # <<>>
        /\ pc'[p] \in {"idle", "v_drop", "update"} /\ (pc'[p] = "idle" => version[1] = DbVersion)
    BY <1>1, <1>13 DEF ReadVersion, Goto, TypeOK
  <2> QED
    BY <1>2, <1>3, <1>4, <2>1 DEF Stale, Drops
<1>14. CASE UpdateVersion(p)
  <2>1. pc[p] = "update" /\ mode[p] = "try" /\ pc'[p] = "v_drop" /\ UNCHANGED disk
    BY <1>1, <1>14 DEF UpdateVersion, UpdateSucceeds, Throw, Goto, TypeOK, Modes
  <2> QED
    BY <1>2, <1>3, <1>4, <2>1 DEF Drops
<1>15. CASE DropVersion(p)
  BY <1>1, <1>2, <1>15 DEF DropVersion, Setup, Goto, TypeOK, PricesFit
<1>16. CASE DropCompanies(p)
  BY <1>1, <1>2, <1>16 DEF DropCompanies, Setup, Goto, TypeOK, Tables
<1>17. CASE DropPrices(p)
  <2>1. tables' = {} /\ version' = version /\ prices' = <<>> /\ pc'[p] = "v_create" /\ pc[p] = "p_drop"
    BY <1>1, <1>2, <1>17 DEF DropPrices, Setup, Goto, TypeOK
  <2>2. version = <<>>
    BY <1>1, <1>2, <2>1 DEF TypeOK
  <2>3. Current' /\ PricesFit'
    BY <2>1, <2>2, NoElements DEF Current, PricesFit
  <2> QED
    BY <2>1, <2>3
<1>18. CASE WorkStep(p)
  <2>1. pc[p] \in WorkLabel /\ pc'[p] \in WorkLabel /\ mode[p] = "up"
    BY <1>1, <1>18 DEF WorkStep, Fetch, AddCompany, GetRowID, AddPrice, Goto, TypeOK, Running, WorkLabel
  <2>2. UNCHANGED <<tables, schema, version>>
    BY <1>18 DEF WorkStep, Fetch, AddCompany, GetRowID, AddPrice, disk
  <2>3. Current
    BY <1>2, <2>1 DEF WorkLabel
  <2> QED
    BY <1>3, <2>1, <2>2, <2>3 DEF Current, Drops, WorkLabel
<1> QED
  BY <1>5, <1>6, <1>7, <1>8, <1>9, <1>10, <1>11, <1>12, <1>13, <1>14, <1>15, <1>16, <1>17, <1>18,
     NothingFails DEF Act, SetupStep

-----------------------------------------------------------------------------
(* All states. *)

\* At first no process runs, and the file is all of one version.
LEMMA InitIInv == Init => IInv
<1> SUFFICES ASSUME Init PROVE IInv
  OBVIOUS
<1>1. /\ setting \in Setting /\ setting \in Settings /\ Unnamed \in Uuids
      /\ \A p \in Procs : pc[p] = "down" /\ mode[p] = "ctor"
  BY DEF Init, Uuids
<1>2. /\ \/ tables = {} /\ version = <<>> /\ companies = <<>> /\ prices = <<>>
            /\ schema = [t \in Tables |-> DbVersion]
         \/ \E v \in Nat, s \in Uuids :
              /\ tables = Tables /\ schema = [t \in Tables |-> v] /\ version = <<v>>
              /\ companies = <<s>> /\ prices = <<[company |-> 1, of |-> s]>>
              /\ setting.found = v
      /\ TypeOK
  <2>1. CASE setting.found = NoFile
    BY <1>1, <2>1, NoElements DEF Init, FileOf, TypeOK, Running, WorkLabel, Mode
  <2>2. CASE setting.found # NoFile
    <3>1. PICK s \in setting.symbols :
            /\ tables = Tables /\ schema = [t \in Tables |-> setting.found]
            /\ version = <<setting.found>> /\ companies = <<s>>
            /\ prices = <<[company |-> 1, of |-> s]>>
      BY <2>2 DEF Init, FileOf
    <3>2. s \in Uuids /\ setting.found \in Nat
      BY <1>1, <2>2 DEF Setting, Uuids
    <3>3. /\ version \in Seq(Nat) /\ companies \in Seq(Uuids)
          /\ prices \in Seq([company : Nat, of : Uuids])
          /\ \A i, j \in DOMAIN companies : companies[i] = companies[j] => i = j
      BY <3>1, <3>2
    <3>4. TypeOK
      BY <1>1, <3>1, <3>2, <3>3 DEF Init, TypeOK, Running, WorkLabel, Mode, Tables
    <3> QED
      BY <3>1, <3>2, <3>4
  <2> QED
    BY <2>1, <2>2
<1>3. VersionInv
  <2>1. Inserting = {} /\ Cardinality(Inserting) = 0
    BY <1>1, FS_EmptySet DEF Inserting, Setting
  <2>2. Cardinality(setting.procs) \in Nat \ {0}
    <3>1. setting.procs \in SUBSET Procs /\ setting.procs # {}
      BY <1>1 DEF Setting
    <3>2. IsFiniteSet(setting.procs)
      BY <3>1, FS_Subset
    <3> QED
      BY <3>1, <3>2, FS_CardinalityType, FS_EmptySet
  <2>3. Len(version) \in {0, 1} /\ \A i, j \in DOMAIN version : i = j
    BY <1>2, NoElements
  <2>4. \A i, j \in DOMAIN version : version[i] = version[j]
    BY <2>3, Zenon
  <2>5. Len(version) + Cardinality(Inserting) <= Cardinality(setting.procs)
    <3>1. \A l \in {0, 1} : \A m \in {0} : \A n \in Nat \ {0} : l + m <= n
      OBVIOUS
    <3>2. Len(version) \in {0, 1} /\ Cardinality(Inserting) \in {0}
      BY <2>1, <2>3
    <3> HIDE DEF Inserting
    <3> QED
      BY <2>2, <3>1, <3>2
  <2> QED
    BY <2>1, <2>4, <2>5 DEF VersionInv
<1>4. PricesFit
  BY <1>2, NoElements DEF PricesFit
<1>5. Calm => \A i \in DOMAIN version : version[i] = DbVersion
  BY <1>2, NoElements DEF Calm, Foreign
<1>6. Current \/ Stale
  BY <1>2, NoElements DEF Current, Stale, Tables
<1>7. Outside /\ Modes /\ Progress
  BY <1>1 DEF Outside, Modes, Progress, Existing, JobFits, Drops, AfterVersion, AfterInsert,
              AfterCompanies, AfterPrices, WorkLabel
<1>8. CalmInv /\ AloneInv
  BY <1>1, <1>4, <1>5, <1>6 DEF CalmInv, AloneInv, Drops, Setting
<1> QED
  BY <1>2, <1>3, <1>7, <1>8 DEF IInv

\* Every step preserves the inductive invariant.
LEMMA NextIInv == IInv /\ [Next]_vars => IInv'
<1> SUFFICES ASSUME IInv, [Next]_vars PROVE IInv'
  OBVIOUS
<1>1. CASE UNCHANGED vars
  <2> USE <1>1 DEF vars, IInv
  <2>1. TypeOK' /\ Outside' /\ Modes'
    BY DEF TypeOK, Running, Outside, Modes
  <2>2. VersionInv'
    BY DEF VersionInv, Inserting
  <2>3. (Calm' <=> Calm) /\ (Alone' <=> Alone) /\ (PricesFit' <=> PricesFit)
    BY DEF Calm, Foreign, Alone, PricesFit
  <2>4. Progress'
    BY <2>3 DEF Progress, Existing, JobFits, Ids
  <2>5. CalmInv' /\ AloneInv'
    BY <2>3 DEF CalmInv, AloneInv, Current, Stale
  <2> QED
    BY <2>1, <2>2, <2>4, <2>5
<1>2. ASSUME NEW p \in setting.procs, UNCHANGED setting, Act(p) PROVE IInv'
  <2>1. p \in Procs /\ TypeOK /\ Modes /\ VersionInv /\ Outside
    BY DEF IInv, TypeOK, Setting
  <2>2. TypeOK' /\ VersionInv'
    BY <1>2, <2>1, ActTypeOK, ActVersionInv
  <2>3. Outside' /\ Modes'
    BY <1>2, <2>1, ActMoves, ActModes DEF Outside
  <2>4. Progress' /\ CalmInv' /\ AloneInv'
    BY <1>2, ActProgress, ActCalm, ActAlone
  <2> QED
    BY <2>2, <2>3, <2>4 DEF IInv
<1> QED
  BY <1>1, <1>2 DEF Next, Run, Act

\* The inductive invariant holds in every state.
THEOREM Inductive == Spec => []IInv
  BY InitIInv, NextIInv, PTL DEF Spec

\* Every variable keeps its type: the rows of companies stay unique, however many
\* processes add, drop and create.
THEOREM TypeCorrect == Spec => []TypeOK
<1>1. IInv => TypeOK
  BY DEF IInv
<1> QED
  BY <1>1, Inductive, PTL

\* A price that is found belongs to the company it was fetched for, for any number of
\* processes that share a file, and for one that resets it.
THEOREM PricesOfCompany == Spec => []PricesOfTheirCompany
<1>1. IInv => PricesOfTheirCompany
  <2> SUFFICES ASSUME IInv, NEW p \in Procs, Orderly, Running(p) PROVE PricesFit
    BY DEF PricesOfTheirCompany, PricesFit
  <2>1. CASE Calm
    BY <2>1 DEF IInv, CalmInv
  <2>2. CASE Alone
    <3>1. p \in setting.procs /\ pc[p] # "p_drop"
      BY DEF IInv, Outside, Running, WorkLabel
    <3> QED
      BY <2>2, <3>1 DEF IInv, AloneInv
  <2> QED
    BY <2>1, <2>2 DEF Orderly, Calm
<1> QED
  BY <1>1, Inductive, PTL

\* There are never more rows of the version than processes, and all are equal.
THEOREM VersionRows == Spec => []VersionRowsBounded
<1>1. IInv => VersionRowsBounded
  <2> SUFFICES ASSUME IInv PROVE VersionRowsBounded
    OBVIOUS
  <2>1. IsFiniteSet(Inserting) /\ IsFiniteSet(setting.procs)
    BY FS_Subset DEF IInv, TypeOK, Setting, Inserting
  <2>2. Cardinality(Inserting) \in Nat /\ Cardinality(setting.procs) \in Nat
    BY <2>1, FS_CardinalityType
  <2>3. version \in Seq(Nat) /\ Len(version) \in Nat
    BY DEF IInv, TypeOK
  <2> QED
    BY <2>2, <2>3 DEF IInv, VersionInv, VersionRowsBounded
<1> QED
  BY <1>1, Inductive, PTL

\* A process that is alone never uses rows or tables of another version.
THEOREM FileIsCurrent == Spec => []UsedFileIsCurrent
<1>1. IInv => UsedFileIsCurrent
  <2> SUFFICES ASSUME IInv, Alone, NEW p \in Procs, Running(p)
               PROVE  /\ tables = Tables
                      /\ version # <<>> /\ version[1] = DbVersion
                      /\ \A t \in Tables : schema[t] = DbVersion
    BY DEF UsedFileIsCurrent
  <2>1. p \in setting.procs /\ mode[p] = "up" /\ pc[p] \in WorkLabel
    BY DEF IInv, TypeOK, Outside, Running, WorkLabel
  <2>2. Current
    BY <2>1 DEF IInv, AloneInv, WorkLabel
  <2>3. tables = Tables /\ version # <<>>
    <3>1. pc[p] \in AfterPrices /\ Existing(p)
      BY <2>1 DEF IInv, Progress, AfterPrices
    <3>2. pc[p] \in AfterVersion /\ pc[p] \in AfterInsert /\ pc[p] \in AfterCompanies
      BY <3>1 DEF AfterVersion, AfterInsert, AfterCompanies
    <3>3. version # <<>> /\ Tables \subseteq tables
      BY <3>1, <3>2 DEF Existing, Tables
    <3> QED
      BY <3>3 DEF IInv, TypeOK
  <2> QED
    BY <2>2, <2>3 DEF Current, IInv, TypeOK
<1> QED
  BY <1>1, Inductive, PTL

-----------------------------------------------------------------------------
(* The refinement. *)

Known == IF Orderly THEN {companies[i] : i \in DOMAIN companies} ELSE {}
Quotes == [c \in Uuids |-> IF Orderly THEN Cardinality(RowsOf(c)) ELSE 0]

\* The prices of a company are finitely many.
LEMMA RowsOfType ==
  ASSUME TypeOK, NEW c
  PROVE  IsFiniteSet(RowsOf(c)) /\ Cardinality(RowsOf(c)) \in Nat /\ Len(prices) \in Nat
<1>1. Len(prices) \in Nat /\ DOMAIN prices = 1..Len(prices)
  BY DEF TypeOK
<1>2. IsFiniteSet(1..Len(prices)) /\ RowsOf(c) \in SUBSET (1..Len(prices))
  BY <1>1, FS_Interval DEF RowsOf
<1>3. IsFiniteSet(RowsOf(c))
  BY <1>2, FS_Subset
<1> QED
  BY <1>1, <1>3, FS_CardinalityType

\* The store a step leaves behind, where the prices fit.
LEMMA ActStore ==
  ASSUME IInv, NEW p \in setting.procs, UNCHANGED setting, Act(p), Orderly, pc[p] \notin Drops
  PROVE  \/ UNCHANGED <<Known, Quotes>>
         \/ /\ Known' = Known \cup {job[p]} /\ Quotes' = Quotes
         \/ /\ job[p] \in Known /\ Known' = Known
            /\ Quotes' = [Quotes EXCEPT ![job[p]] = @ + 1]
<1>1. p \in Procs /\ TypeOK /\ JobFits(p) /\ PricesFit /\ job[p] \in Uuids
  <2>1. p \in Procs /\ TypeOK /\ job[p] \in Uuids /\ (Calm \/ Alone)
    BY DEF IInv, TypeOK, Setting, Orderly, Calm
  <2>2. PricesFit
    BY <2>1 DEF IInv, CalmInv, AloneInv, Drops
  <2> QED
    BY <2>1, <2>2 DEF IInv, Progress
<1>2. Orderly'
  BY SameSetting DEF Orderly, Foreign
<1>3. CASE UNCHANGED <<companies, prices>>
  BY <1>2, <1>3 DEF Known, Quotes, RowsOf
<1>4. CASE companies' = Append(companies, job[p]) /\ prices' = prices
  <2>1. companies \in Seq(Uuids) /\ Len(companies) \in Nat
    BY <1>1 DEF TypeOK
  <2>2. /\ DOMAIN companies = 1..Len(companies)
        /\ DOMAIN companies' = 1..(Len(companies) + 1)
        /\ \A i \in DOMAIN companies : companies'[i] = companies[i]
        /\ companies'[Len(companies) + 1] = job[p]
    BY <1>1, <1>4, <2>1, Appended
  <2>3. Known' = Known \cup {job[p]}
    <3>1. DOMAIN companies' = DOMAIN companies \cup {Len(companies) + 1}
      BY <2>1, <2>2
    <3> QED
      BY <1>2, <2>2, <3>1 DEF Known
  <2>4. \A c : RowsOf(c)' = RowsOf(c)
    <3>1. \A i \in DOMAIN prices : prices[i].company \in DOMAIN companies
      BY <1>1 DEF PricesFit
    <3>2. \A i \in DOMAIN companies : i \in DOMAIN companies'
      BY <2>1, <2>2
    <3> QED
      BY <1>4, <2>2, <3>1, <3>2 DEF RowsOf
  <2>5. Quotes' = Quotes
    BY <1>2, <2>4 DEF Quotes
  <2> QED
    BY <2>3, <2>5
<1>5. CASE /\ companies' = companies /\ pc[p] = "p_add"
           /\ prices' = Append(prices, [company |-> rowId[p], of |-> job[p]])
  <2> DEFINE r == [company |-> rowId[p], of |-> job[p]]
             n == Len(prices)
  <2>1. r \in [company : Nat, of : Uuids] /\ prices \in Seq([company : Nat, of : Uuids]) /\ n \in Nat
    BY <1>1 DEF TypeOK
  <2>2. rowId[p] \in DOMAIN companies /\ companies[rowId[p]] = job[p]
    BY <1>1, <1>5 DEF JobFits, Ids
  <2>3. /\ DOMAIN prices = 1..n /\ DOMAIN prices' = 1..(n + 1) /\ prices'[n + 1] = r
        /\ \A i \in DOMAIN prices : prices'[i] = prices[i]
    BY <1>5, <2>1, Appended
  <2>4. n + 1 \notin DOMAIN prices /\ DOMAIN prices' = DOMAIN prices \cup {n + 1}
    BY <2>1, <2>3
  <2>5. r.company = rowId[p] /\ companies' = companies
    BY <1>5
  <2> HIDE DEF n, r
  <2>6. \A c : \A i : i \in RowsOf(c)' <=> i \in RowsOf(c) \/ (i = n + 1 /\ c = job[p])
    BY <2>2, <2>3, <2>4, <2>5 DEF RowsOf
  <2>7. ASSUME NEW c, c = job[p] PROVE Cardinality(RowsOf(c)') = Cardinality(RowsOf(c)) + 1
    <3>1. IsFiniteSet(RowsOf(c))
      BY <1>1, RowsOfType
    <3>2. n + 1 \notin RowsOf(c)
      BY <2>4 DEF RowsOf
    <3>3. RowsOf(c)' = RowsOf(c) \cup {n + 1}
      BY <2>6, <2>7
    <3> QED
      BY <3>1, <3>2, <3>3, FS_AddElement
  <2>8. Known' = Known /\ job[p] \in Known
    BY <1>2, <1>5, <2>2 DEF Known
  <2>9. ASSUME NEW c, c # job[p] PROVE RowsOf(c)' = RowsOf(c)
    <3>1. \A i : i \in RowsOf(c)' <=> i \in RowsOf(c)
      BY <2>6, <2>9
    <3> QED
      BY <3>1, Zenon
  <2>10. Quotes' = [Quotes EXCEPT ![job[p]] = @ + 1]
    BY <1>1, <1>2, <2>7, <2>9 DEF Quotes
  <2> QED
    BY <2>8, <2>10
<1> QED
  BY <1>1, <1>3, <1>4, <1>5, ActGrows

\* A reset forgets everything in the step that drops the companies.
LEMMA DropStore ==
  ASSUME IInv, NEW p \in setting.procs, UNCHANGED setting, Act(p), Orderly, pc[p] \in Drops
  PROVE  \/ UNCHANGED <<Known, Quotes>>
         \/ Foreign /\ Known' = {} /\ Quotes' = [c \in Uuids |-> 0]
<1>1. p \in Procs /\ TypeOK
  BY DEF IInv, TypeOK, Setting
<1>2. Alone /\ Foreign
  BY <1>1 DEF IInv, CalmInv, Orderly, Calm
<1>3. Orderly'
  BY SameSetting DEF Orderly, Foreign
<1>4. DropVersion(p) \/ DropCompanies(p) \/ DropPrices(p)
  <2>1. ~StatementFails(p)
    BY <1>2, NothingFails
  <2> QED
    BY <1>2, <2>1
    DEF Drops, Act, Open, Crash, SetupStep, WorkStep, CreateVersion, VersionPresent, InsertVersion,
        CreateCompanies, CreatePrices, IsExist, ReadVersion, UpdateVersion, Fetch, AddCompany, GetRowID,
        AddPrice, Setup, Alone
<1>5. CASE DropVersion(p)
  BY <1>3, <1>5 DEF DropVersion, Known, Quotes, RowsOf
<1>6. companies = <<>> => \A c : RowsOf(c) = {}
  BY NoElements DEF RowsOf
<1>7. companies' = <<>> => \A c : RowsOf(c)' = {}
  BY NoElements DEF RowsOf
<1>8. CASE DropCompanies(p)
  <2>1. companies' = <<>> /\ \A c : Cardinality(RowsOf(c)') = 0
    BY <1>7, <1>8, FS_EmptySet DEF DropCompanies
  <2> QED
    BY <1>2, <1>3, <2>1, NoElements DEF Known, Quotes
<1>9. CASE DropPrices(p)
  <2>1. companies = <<>> /\ companies' = <<>>
    <3>1. pc[p] = "p_drop" /\ companies' = companies
      BY <1>9 DEF DropPrices, Setup
    <3> QED
      BY <1>1, <1>2, <3>1 DEF IInv, AloneInv, TypeOK
  <2>2. \A c : RowsOf(c)' = RowsOf(c)
    BY <1>6, <1>7, <2>1
  <2> QED
    BY <1>3, <2>1, <2>2 DEF Known, Quotes
<1> QED
  BY <1>4, <1>5, <1>8, <1>9

\* The database with its processes, resets and crashes implements PriceStore.
THEOREM Implements == Spec => StoreSpec
<1>1. Init => Store!StoreInit
  <2> SUFFICES ASSUME Init PROVE Store!StoreInit
    OBVIOUS
  <2>1. TypeOK
    BY InitIInv DEF IInv
  <2>2. Foreign \in BOOLEAN
    BY DEF Foreign
  <2>3. Known \subseteq Uuids
    BY <2>1 DEF Known, TypeOK
  <2>4. Quotes \in [Uuids -> Nat]
    BY <2>1, RowsOfType DEF Quotes
  <2> QED
    BY <2>2, <2>3, <2>4 DEF Store!StoreInit, Store!StoreType, Known, Quotes
<1>2. IInv /\ [Next]_vars => [Store!StoreNext]_(Store!storeVars)
  <2> SUFFICES ASSUME IInv, [Next]_vars
               PROVE  Store!StoreNext \/ UNCHANGED <<Foreign, Known, Quotes>>
    BY DEF Store!storeVars, Known, Quotes
  <2>1. CASE UNCHANGED vars
    BY <2>1 DEF vars, Foreign, Known, Quotes, Orderly, Alone, RowsOf
  <2>2. ASSUME NEW p \in setting.procs, UNCHANGED setting, Act(p)
        PROVE  Store!StoreNext \/ UNCHANGED <<Foreign, Known, Quotes>>
    <3>1. Foreign' = Foreign /\ (Orderly' <=> Orderly) /\ job[p] \in Uuids
      BY <2>2, SameSetting DEF Foreign, Orderly, IInv, TypeOK, Setting
    <3>2. CASE ~Orderly
      BY <3>1, <3>2 DEF Known, Quotes
    <3>3. CASE Known' = Known \cup {job[p]} /\ Quotes' = Quotes
      BY <3>1, <3>3 DEF Store!StoreNext, Store!Learn, Known, Quotes
    <3>4. CASE /\ job[p] \in Known /\ Known' = Known
               /\ Quotes' = [Quotes EXCEPT ![job[p]] = @ + 1]
      BY <3>1, <3>4 DEF Store!StoreNext, Store!Record, Known, Quotes
    <3>5. CASE Foreign /\ Known' = {} /\ Quotes' = [c \in Uuids |-> 0]
      BY <3>1, <3>5 DEF Store!StoreNext, Store!Wipe, Store!Empty, Known, Quotes
    <3>6. CASE UNCHANGED <<Known, Quotes>>
      BY <3>1, <3>6
    <3> QED
      BY <2>2, <3>2, <3>3, <3>4, <3>5, <3>6, ActStore, DropStore
  <2> QED
    BY <2>1, <2>2 DEF Next, Run, Act
<1> QED
  BY <1>1, <1>2, Inductive, PTL DEF Spec, StoreSpec, Store!StoreSpec

-----------------------------------------------------------------------------
(* How many statements the constructor executes. *)

\* The statements that are left, where a reset within the try block may be followed by
\* another one in its catch clause.
Place(l) ==
  CASE l = "read" -> 10      [] l = "update" -> 9   [] l = "v_drop" -> 8
    [] l = "c_drop" -> 7     [] l = "p_drop" -> 6   [] l = "v_create" -> 5
    [] l = "v_present" -> 4  [] l = "v_insert" -> 3 [] l = "c_create" -> 2
    [] l = "p_create" -> 1   [] OTHER -> 0
Turn(m) == CASE m = "ctor" -> 19 [] m = "try" -> 8 [] OTHER -> 0
Rank(p) == Turn(mode[p]) + Place(pc[p])

\* Each statement of a constructor brings it nearer to its end, and no other process
\* sends it back.
GetsNearer ==
  \A p \in Procs : pc[p] \in SetupLabel =>
    /\ Run(p) => pc'[p] \notin SetupLabel \/ Rank(p)' < Rank(p)
    /\ pc'[p] \in SetupLabel => Rank(p)' <= Rank(p)

LEMMA Places ==
  /\ \A l : Place(l) \in Nat
  /\ \A l \in SetupLabel \ {"exist"} : Place(l) > 0
<1>1. \A l : Place(l) \in Nat
  BY DEF Place
<1>2. ASSUME NEW l \in SetupLabel \ {"exist"} PROVE Place(l) > 0
  BY DEF Place, SetupLabel
<1> QED
  BY <1>1, <1>2

LEMMA RunGetsNearer ==
  ASSUME TypeOK, Modes, NEW p \in Procs, pc[p] \in SetupLabel, Act(p)
  PROVE  pc'[p] \notin SetupLabel \/ Rank(p)' < Rank(p)
<1>1. pc \in [Procs -> SetupLabel \cup WorkLabel \cup {"down"}] /\ mode \in [Procs -> Mode]
      /\ mode[p] # "up"
  BY DEF TypeOK, Running, SetupLabel, WorkLabel
<1> USE DEF SetupLabel, Setup, Goto
<1>2. CASE CreateVersion(p) \/ VersionPresent(p) \/ InsertVersion(p) \/ CreateCompanies(p)
           \/ DropVersion(p) \/ DropCompanies(p) \/ DropPrices(p)
  <2>1. UNCHANGED mode /\ Place(pc'[p]) < Place(pc[p]) /\ Place(pc'[p]) \in Nat /\ Place(pc[p]) \in Nat
    BY <1>1, <1>2 DEF CreateVersion, VersionPresent, InsertVersion, CreateCompanies,
                      DropVersion, DropCompanies, DropPrices, Place
  <2> QED
    BY <2>1 DEF Rank, Turn
<1>3. CASE CreatePrices(p)
  BY <1>1, <1>3 DEF CreatePrices, Rank, Place, Turn, Modes
<1>4. CASE IsExist(p)
  BY <1>1, <1>4 DEF IsExist, Rank, Place, Turn, Modes
<1>5. CASE ReadVersion(p)
  BY <1>1, <1>5 DEF ReadVersion, Rank, Place, Turn, Modes
<1>6. CASE Throw(p)
  <2>1. CASE mode[p] = "try"
    <3>1. pc'[p] = "v_drop" /\ mode'[p] = "catch"
      BY <1>1, <1>6, <2>1 DEF Throw
    <3>2. Rank(p)' = 8
      BY <3>1 DEF Rank, Turn, Place
    <3>3. pc[p] # "exist"
      BY <2>1 DEF Modes
    <3>4. Place(pc[p]) \in Nat /\ Place(pc[p]) > 0
      BY <3>3, Places
    <3>5. Rank(p) = 8 + Place(pc[p])
      BY <2>1 DEF Rank, Turn
    <3> QED
      BY <3>2, <3>4, <3>5
  <2>2. CASE mode[p] # "try"
    BY <1>1, <1>6, <2>2 DEF Throw, Dies
  <2> QED
    BY <2>1, <2>2
<1>7. CASE UpdateVersion(p)
  BY <1>6, <1>7 DEF UpdateVersion, UpdateSucceeds
<1>8. CASE StatementFails(p)
  BY <1>6, <1>8 DEF StatementFails
<1>9. CASE Open(p)
  BY <1>9 DEF Open
<1>10. CASE Crash(p)
  BY <1>1, <1>10 DEF Crash, Dies
<1>11. CASE WorkStep(p)
  BY <1>11 DEF WorkStep, Fetch, AddCompany, GetRowID, AddPrice
<1> QED
  BY <1>2, <1>3, <1>4, <1>5, <1>7, <1>8, <1>9, <1>10, <1>11 DEF Act, SetupStep

\* A constructor executes 25 statements at most, whatever fails and however many processes
\* create, drop and lock the same file: it resets the database twice at most.  (With the
\* fairness of Run(p) this is why StartsOrDies holds.)
THEOREM ConstructorProgress == Spec => [][GetsNearer]_vars
<1>1. ASSUME IInv, [Next]_vars PROVE GetsNearer \/ UNCHANGED vars
  <2> SUFFICES ASSUME ~UNCHANGED vars, NEW p \in Procs, pc[p] \in SetupLabel
               PROVE  /\ Run(p) => pc'[p] \notin SetupLabel \/ Rank(p)' < Rank(p)
                      /\ pc'[p] \in SetupLabel => Rank(p)' <= Rank(p)
    BY DEF GetsNearer
  <2>1. TypeOK /\ Modes
    BY <1>1 DEF IInv
  <2>2. Run(p) => pc'[p] \notin SetupLabel \/ Rank(p)' < Rank(p)
    BY <2>1, RunGetsNearer DEF Run, Act
  <2>3. ASSUME pc'[p] \in SetupLabel PROVE Rank(p)' <= Rank(p)
    <3>1. PICK q \in setting.procs : Act(q)
      BY <1>1 DEF Next, Run, Act
    <3>2. q \in Procs
      BY <2>1 DEF TypeOK, Setting
    <3>3. Rank(p) \in Nat
      BY Places DEF Rank, Turn
    <3>4. CASE q = p
      <4>1. Rank(p)' \in Nat
        BY Places DEF Rank, Turn
      <4> QED
        BY <2>1, <2>3, <3>1, <3>3, <3>4, <4>1, RunGetsNearer
    <3>5. CASE q # p
      <4>1. pc'[p] = pc[p] /\ mode'[p] = mode[p]
        BY <2>1, <3>1, <3>2, <3>5, ActMoves DEF Modes
      <4> QED
        BY <3>3, <4>1 DEF Rank
    <3> QED
      BY <3>4, <3>5
  <2> QED
    BY <2>2, <2>3
<1> QED
  BY <1>1, Inductive, PTL DEF Spec

=============================================================================
