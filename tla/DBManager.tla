------------------------------ MODULE DBManager ------------------------------
(***************************************************************************)
(* The SQLite file of the daemon and the worker processes that use it: the *)
(* constructor of DBManager, which creates the tables, checks their version*)
(* and drops and creates them again when it does not match, and then the   *)
(* transactions of Controller::UpdatePrices.  Every statement is one       *)
(* transaction (ITable::RunTransaction) and one step; between two of them  *)
(* the process may be killed, and another process may run: a worker that   *)
(* was orphaned by its supervisor, or that of an overlapping launch.       *)
(*                                                                         *)
(* Code: src/Daemon/db, UpdatePrices in src/Daemon/src/controller.cpp      *)
(***************************************************************************)
EXTENDS Naturals, Sequences, FiniteSets

CONSTANTS
  Procs,       \* worker processes that may have the file open
  Symbols,     \* symbols a company info can be about
  Unnamed,     \* the empty short name of the info returned when HTTP failed
  DbVersion,   \* DBManager::dbVersion
  NoFile,      \* the version of a file that is not there
  Settings     \* the circumstances the daemon may run in

\* The processes that share the file; the symbols they meet; the version of the
\* file at the first start; whether a statement may fail with SQLITE_BUSY; whether
\* a process may be killed between two statements; a bound on the rows of prices.
Setting == [procs : (SUBSET Procs) \ {{}}, symbols : SUBSET Symbols, found : Nat \cup {NoFile},
            contention : BOOLEAN, crashes : BOOLEAN, maxPrices : Nat]

ASSUME DBManagerAssumption ==
  /\ IsFiniteSet(Procs) /\ Unnamed \notin Symbols
  /\ DbVersion \in Nat /\ NoFile \notin Nat
  /\ Settings \subseteq Setting

VARIABLES
  setting,    \* the circumstances, which never change
  tables,     \* the tables that exist
  schema,     \* the version whose CREATE TABLE made each of them
  version,    \* rows of db_version: the values, by id
  companies,  \* rows of companies: the uuids, by id
  prices,     \* rows of prices: company_rowid and, as history, the symbol meant
  pc,         \* the next statement of each process
  mode,       \* from where the tables are being created
  job,        \* the short name of the company info in hand
  rowId       \* the local variable rowId of UpdatePrices

disk == <<tables, schema, version, companies, prices>>
vars == <<setting, tables, schema, version, companies, prices, pc, mode, job, rowId>>

-----------------------------------------------------------------------------
Tables == {"db_version", "companies", "prices"}
Uuids == Symbols \cup {Unnamed}

\* The statements of the constructor and those of UpdatePrices.
SetupLabel == {"v_create", "v_present", "v_insert", "c_create", "p_create",
               "exist", "read", "update", "v_drop", "c_drop", "p_drop"}
WorkLabel == {"idle", "c_add", "c_rowid", "p_add"}

\* "ctor": CreateAndInitAllTables of the constructor; "plain": the reset outside
\* the try block of UpgradeVersion; "try", "catch": within it; "up": none of them.
Mode == {"ctor", "plain", "try", "catch", "up"}

\* A file of version v holds a company and a price of it, in tables of schema v.
FileOf(v) ==
  IF v = NoFile
  THEN tables = {} /\ version = <<>> /\ companies = <<>> /\ prices = <<>>
         /\ schema = [t \in Tables |-> DbVersion]
  ELSE \E s \in setting.symbols :
         /\ tables = Tables
         /\ schema = [t \in Tables |-> v]
         /\ version = <<v>> /\ companies = <<s>>
         /\ prices = <<[company |-> 1, of |-> s]>>

Init ==
  /\ setting \in Settings /\ FileOf(setting.found)
  /\ pc = [p \in Procs |-> "down"]
  /\ mode = [p \in Procs |-> "ctor"]
  /\ job = [p \in Procs |-> Unnamed]
  /\ rowId = [p \in Procs |-> 0]

Goto(p, l) == pc' = [pc EXCEPT ![p] = l]
Setup(p, here, there) ==
  /\ pc[p] = here
  /\ Goto(p, there)
  /\ UNCHANGED <<mode, job, rowId>>

\* The process is gone, and its local variables with it.
Dies(p) ==
  /\ Goto(p, "down")
  /\ mode' = [mode EXCEPT ![p] = "ctor"]
  /\ job' = [job EXCEPT ![p] = Unnamed]
  /\ rowId' = [rowId EXCEPT ![p] = 0]

-----------------------------------------------------------------------------
(* CreateAndInitAllTables: the constructor, and the end of every reset. *)

\* A worker is started; DBManager::GetInstance() opens or creates the file.
Open(p) == Setup(p, "down", "v_create") /\ UNCHANGED disk

\* CREATE TABLE IF NOT EXISTS: a table of another version stays as it is.
CreateTable(t) ==
  /\ tables' = tables \cup {t}
  /\ schema' = IF t \in tables THEN schema ELSE [schema EXCEPT ![t] = DbVersion]
  /\ UNCHANGED <<version, companies, prices>>

CreateVersion(p) == Setup(p, "v_create", "v_present") /\ CreateTable("db_version")

\* IsVersionPresent(), a statement of its own before the INSERT it guards.
VersionPresent_Ignored(p) ==
  /\ "db_version" \in tables
  /\ Setup(p, "v_present", "v_insert")
  /\ UNCHANGED disk

VersionPresent(p) ==
  /\ "db_version" \in tables
  /\ Setup(p, "v_present", IF version = <<>> THEN "v_insert" ELSE "c_create")
  /\ UNCHANGED disk

InsertVersion(p) ==
  /\ "db_version" \in tables
  /\ Setup(p, "v_insert", "c_create")
  /\ version' = Append(version, DbVersion)
  /\ UNCHANGED <<tables, schema, companies, prices>>

CreateCompanies(p) == Setup(p, "c_create", "p_create") /\ CreateTable("companies")

\* The last table: on to UpgradeVersion(), or out of it.
CreatePrices(p) ==
  /\ pc[p] = "p_create"
  /\ CreateTable("prices")
  /\ IF mode[p] = "ctor"
     THEN Goto(p, "exist") /\ UNCHANGED mode
     ELSE Goto(p, "idle") /\ mode' = [mode EXCEPT ![p] = "up"]
  /\ UNCHANGED <<job, rowId>>

-----------------------------------------------------------------------------
(* UpgradeVersion and the reset of the database. *)

IsExist(p) ==
  /\ pc[p] = "exist"
  /\ IF "db_version" \in tables
     THEN Goto(p, "read") /\ mode' = [mode EXCEPT ![p] = "try"]
     ELSE Goto(p, "v_drop") /\ mode' = [mode EXCEPT ![p] = "plain"]
  /\ UNCHANGED <<disk, job, rowId>>

\* SELECT version FROM db_version: the first row.
ReadVersion(p) ==
  /\ pc[p] = "read"
  /\ "db_version" \in tables /\ version # <<>>
  /\ IF DbVersion = version[1]
     THEN Goto(p, "idle") /\ mode' = [mode EXCEPT ![p] = "up"]
     ELSE Goto(p, IF DbVersion < version[1] THEN "v_drop" ELSE "update") /\ UNCHANGED mode
  /\ UNCHANGED <<disk, job, rowId>>

DropVersion(p) ==
  /\ Setup(p, "v_drop", "c_drop")
  /\ tables' = tables \ {"db_version"} /\ version' = <<>>
  /\ UNCHANGED <<schema, companies, prices>>

\* AUTOINCREMENT starts again with the next table of that name.
DropCompanies(p) ==
  /\ Setup(p, "c_drop", "p_drop")
  /\ tables' = tables \ {"companies"} /\ companies' = <<>>
  /\ UNCHANGED <<schema, version, prices>>

DropPrices(p) ==
  /\ Setup(p, "p_drop", "v_create")
  /\ tables' = tables \ {"prices"} /\ prices' = <<>>
  /\ UNCHANGED <<schema, version, companies>>

-----------------------------------------------------------------------------
(* UpdatePrices, one company info at a time. *)

\* GetHTTPCompanyInfo returned.  An HTTP failure gives an info without a name
\* and without prices, anything else one with the latest price.
Fetch(p) ==
  /\ pc[p] = "idle"
  /\ \E c \in setting.symbols \cup {Unnamed} :
       /\ c # Unnamed => Len(prices) < setting.maxPrices
       /\ job' = [job EXCEPT ![p] = c]
  /\ Goto(p, "c_add")
  /\ UNCHANGED <<disk, mode, rowId>>

Ids(c) == {i \in DOMAIN companies : companies[i] = c}

\* A table without the UNIQUE constraint has nothing to ignore.
AddCompany_NotUnique(p) ==
  /\ pc[p] = "c_add" /\ "companies" \in tables
  /\ companies' = Append(companies, job[p])
  /\ Goto(p, "c_rowid")
  /\ UNCHANGED <<tables, schema, version, prices, mode, job, rowId>>

\* INSERT OR REPLACE deletes the row and inserts it with a new id.
AddCompany_OrReplace(p) ==
  /\ pc[p] = "c_add" /\ "companies" \in tables
  /\ companies' = Append([i \in DOMAIN companies |->
                    IF companies[i] = job[p] THEN Unnamed ELSE companies[i]], job[p])
  /\ Goto(p, "c_rowid")
  /\ UNCHANGED <<tables, schema, version, prices, mode, job, rowId>>

\* INSERT OR IGNORE, with uuid UNIQUE.
AddCompany(p) ==
  /\ pc[p] = "c_add" /\ "companies" \in tables
  /\ companies' = IF Ids(job[p]) = {} THEN Append(companies, job[p]) ELSE companies
  /\ Goto(p, "c_rowid")
  /\ UNCHANGED <<tables, schema, version, prices, mode, job, rowId>>

\* last_insert_rowid(), which an ignored INSERT does not set.
GetRowID_LastInsert(p) ==
  /\ pc[p] = "c_rowid" /\ companies # <<>>
  /\ rowId' = [rowId EXCEPT ![p] = Len(companies)]
  /\ Goto(p, IF job[p] = Unnamed THEN "idle" ELSE "p_add")
  /\ UNCHANGED <<disk, mode, job>>

\* The row id stays in a local variable until the price is added.
GetRowID(p) ==
  /\ pc[p] = "c_rowid"
  /\ \E i \in Ids(job[p]) : rowId' = [rowId EXCEPT ![p] = i]
  /\ Goto(p, IF job[p] = Unnamed THEN "idle" ELSE "p_add")
  /\ UNCHANGED <<disk, mode, job>>

\* PRAGMA foreign_keys is executed within a transaction, where it does nothing:
\* the row is inserted whether or not companies has that id.
AddPrice(p) ==
  /\ pc[p] = "p_add" /\ "prices" \in tables
  /\ prices' = Append(prices, [company |-> rowId[p], of |-> job[p]])
  /\ Goto(p, "idle")
  /\ UNCHANGED <<tables, schema, version, companies, mode, job, rowId>>

-----------------------------------------------------------------------------
(* Exceptions and crashes. *)

\* A statement that cannot succeed on the file as it is.
CannotRun(p) ==
  \/ pc[p] \in {"v_present", "v_insert"} /\ "db_version" \notin tables
  \/ pc[p] = "read" /\ version = <<>>
  \/ pc[p] = "c_add" /\ "companies" \notin tables
  \/ pc[p] = "c_rowid" /\ Ids(job[p]) = {}
  \/ pc[p] = "p_add" /\ "prices" \notin tables

\* No busy timeout is set: a lock held by another process is an error at once.
Busy(p) ==
  setting.contention /\ pc[p] \notin {"down", "idle"} /\ \E q \in Procs \ {p} : pc[q] # "down"

\* The catch clause of UpgradeVersion resets the database, whatever went wrong.
\* Elsewhere nothing catches: std::terminate, in the constructor or the thread.
Throw_Retries(p) ==
  IF mode[p] \in {"try", "catch"}
  THEN Goto(p, "v_drop") /\ mode' = [mode EXCEPT ![p] = "catch"] /\ UNCHANGED <<job, rowId>>
  ELSE Dies(p)

Throw(p) ==
  IF mode[p] = "try"
  THEN Goto(p, "v_drop") /\ mode' = [mode EXCEPT ![p] = "catch"] /\ UNCHANGED <<job, rowId>>
  ELSE Dies(p)

StatementFails(p) ==
  /\ CannotRun(p) \/ Busy(p)
  /\ Throw(p)
  /\ UNCHANGED disk

\* "UPDATE db_versionSET ...": the statement has no space and never succeeds.
UpdateSucceeds_WithSpace == TRUE
UpdateSucceeds == FALSE

\* Upgrade(): no more than the version row is changed.
UpdateVersion(p) ==
  /\ pc[p] = "update"
  /\ IF UpdateSucceeds
     THEN /\ Goto(p, "idle") /\ mode' = [mode EXCEPT ![p] = "up"]
          /\ version' = [i \in DOMAIN version |-> DbVersion]
          /\ UNCHANGED <<tables, schema, companies, prices, job, rowId>>
     ELSE Throw(p) /\ UNCHANGED disk

\* The other ends of a worker (module Worker), and SIGKILL.
Crash(p) ==
  /\ setting.crashes
  /\ pc[p] # "down"
  /\ Dies(p)
  /\ UNCHANGED disk

-----------------------------------------------------------------------------
SetupStep(p) ==
  \/ CreateVersion(p) \/ VersionPresent(p) \/ InsertVersion(p)
  \/ CreateCompanies(p) \/ CreatePrices(p)
  \/ IsExist(p) \/ ReadVersion(p) \/ UpdateVersion(p)
  \/ DropVersion(p) \/ DropCompanies(p) \/ DropPrices(p)

WorkStep(p) == Fetch(p) \/ AddCompany(p) \/ GetRowID(p) \/ AddPrice(p)

\* A running process executes its next statement, which succeeds or fails.
Run(p) == (SetupStep(p) \/ WorkStep(p) \/ StatementFails(p)) /\ UNCHANGED setting

Next ==
  \E p \in setting.procs :
    \/ Run(p)
    \/ /\ Open(p) \/ Crash(p)
       /\ UNCHANGED setting

Spec == Init /\ [][Next]_vars

\* Processes that run are scheduled.
FairSpec == Spec /\ \A p \in Procs : WF_vars(Run(p))

-----------------------------------------------------------------------------
(* Properties. *)

Running(p) == pc[p] \in WorkLabel

\* The type of the state: a company has one row, a table that does not exist has
\* none, and UpdatePrices is running exactly when no part of the constructor is.
TypeOK ==
  /\ setting \in Settings
  /\ tables \subseteq Tables
  /\ schema \in [Tables -> Nat]
  /\ version \in Seq(Nat) /\ companies \in Seq(Uuids)
  /\ prices \in Seq([company : Nat, of : Uuids])
  /\ \A i, j \in DOMAIN companies : companies[i] = companies[j] => i = j
  /\ "db_version" \notin tables => version = <<>>
  /\ "companies" \notin tables => companies = <<>>
  /\ "prices" \notin tables => prices = <<>>
  /\ pc \in [Procs -> SetupLabel \cup WorkLabel \cup {"down"}]
  /\ mode \in [Procs -> Mode]
  /\ \A p \in Procs : Running(p) <=> mode[p] = "up"
  /\ job \in [Procs -> Uuids]
  /\ rowId \in [Procs -> Nat]

\* A process that has the file for itself, and processes that find a file that
\* needs no reset, unless they lock each other out.
Alone == (\E p \in Procs : setting.procs = {p}) /\ ~setting.crashes
Foreign == setting.found \notin {DbVersion, NoFile}
Orderly == ~setting.contention /\ (Foreign => Alone)

\* Every price a running daemon finds belongs to the company it was fetched for:
\* the row id read by GetRowID() is still that company's when the prices are added,
\* though other processes add companies and processes are killed in between.
PricesOfTheirCompany ==
  \A p \in Procs : Orderly /\ Running(p) =>
    \A i \in DOMAIN prices :
      /\ prices[i].company \in DOMAIN companies
      /\ companies[prices[i].company] = prices[i].of

\* Two processes that create db_version together, or one that is killed between
\* CREATE, SELECT EXISTS and INSERT, leave a few equal rows at worst, however
\* often they are restarted.
VersionRowsBounded ==
  /\ Len(version) <= Cardinality(setting.procs)
  /\ \A i, j \in DOMAIN version : version[i] = version[j]

\* When the constructor of a process that is alone is done, the file is of this
\* version throughout: rows and tables made by another version were dropped before
\* it is used.
UsedFileIsCurrent ==
  Alone => \A p \in Procs : Running(p) =>
    /\ tables = Tables
    /\ version # <<>> /\ version[1] = DbVersion
    /\ \A t \in Tables : schema[t] = DbVersion

\* What "FOREIGN KEY(company_rowid) REFERENCES companies(id)" declares of the
\* rows a running daemon works with.
ForeignKeyHolds ==
  \A p \in Procs : Running(p) =>
    \A i \in DOMAIN prices : prices[i].company \in DOMAIN companies

\* The constructor comes to an end: it resets the database at most twice and
\* then is done or throws, whatever fails.
StartsOrDies == \A p \in Procs : pc[p] = "v_create" ~> (Running(p) \/ pc[p] = "down")

\* The database keeps what PriceStore promises: the prices a company has are the
\* rows of prices that a join with companies gives it.  (Where processes reset a
\* file that others use, nothing is promised.)
RowsOf(c) == {i \in DOMAIN prices :
  prices[i].company \in DOMAIN companies /\ companies[prices[i].company] = c}

Store == INSTANCE PriceStore WITH
  Companies <- Uuids,
  mayWipe <- Foreign,
  known <- IF Orderly THEN {companies[i] : i \in DOMAIN companies} ELSE {},
  quotes <- [c \in Uuids |-> IF Orderly THEN Cardinality(RowsOf(c)) ELSE 0]

StoreSpec == Store!StoreSpec

=============================================================================
