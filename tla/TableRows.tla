------------------------------ MODULE TableRows ------------------------------
(***************************************************************************)
(* The tables companies and prices without threads or transactions: what a *)
(* call of each operation does to the rows and what it returns, and as the *)
(* specification RowsSpec tables whose calls take effect one at a time.    *)
(* Module Tables implements it.                                            *)
(*                                                                         *)
(* Code: table_companies.cpp, table_prices.cpp and itable.h in             *)
(* src/Daemon/db                                                           *)
(***************************************************************************)
EXTENDS Naturals

CONSTANTS
  Threads,  \* threads that call the tables of the one connection
  Uuids,    \* uuids of companies
  Logos,    \* links to logos
  MaxIds    \* bound: ids ever given to companies

VARIABLES
  rows,     \* the rows of both tables
  last      \* what the last call of each thread returned, or that it threw

rowsVars == <<rows, last>>

-----------------------------------------------------------------------------
(* Rows and calls. *)

\* companies: uuid and logo, by id; ids: the last one that AUTOINCREMENT gave;
\* prices: company_rowid and, as history, the uuid that was meant.
Row == [uuid : Uuids, logo : Logos]
NoRows == [companies |-> [i \in {} |-> 0], ids |-> 0, prices |-> {}]

RowsType(r) ==
  /\ r.ids \in 0..MaxIds
  /\ DOMAIN r.companies \subseteq 1..r.ids
  /\ \A i \in DOMAIN r.companies : r.companies[i] \in Row
  /\ r.prices \subseteq [company : 1..MaxIds, of : Uuids]

\* An id is used for the company whose uuid it was asked for.
Calls ==
  [op : {"Add"}, of : Uuids, logo : Logos]
  \cup [op : {"GetRowID", "IsUUIDPresent"}, of : Uuids]
  \cup [op : {"SetLogoByID"}, id : 1..MaxIds, of : Uuids, logo : Logos]
  \cup [op : {"GetLogoByRowID", "RemoveByRowID"}, id : 1..MaxIds, of : Uuids]
  \cup [op : {"AddPrice", "RemoveAllByCompanyRowID"}, id : 1..MaxIds, of : Uuids]

Reads == {"GetRowID", "IsUUIDPresent", "GetLogoByRowID"}

Ids(r, u) == {i \in DOMAIN r.companies : r.companies[i].uuid = u}

-----------------------------------------------------------------------------
(* What calls do. *)

\* Without AUTOINCREMENT SQLite gives the id after the largest one in the table.
NextId_Largest(r) == 1 + (IF DOMAIN r.companies = {} THEN 0 ELSE
  CHOOSE i \in DOMAIN r.companies : \A j \in DOMAIN r.companies : j <= i)
NextId(r) == r.ids + 1

\* INSERT OR IGNORE: an id is taken even if the row is ignored.
Add(r, c) ==
  LET inserted == [i \in DOMAIN r.companies \cup {NextId(r)} |->
        IF i = NextId(r) THEN [uuid |-> c.of, logo |-> c.logo] ELSE r.companies[i]]
  IN [r EXCEPT !.ids = @ + 1,
               !.companies = IF Ids(r, c.of) = {} THEN inserted ELSE @]

SetLogoByID(r, c) ==
  IF c.id \in DOMAIN r.companies THEN [r EXCEPT !.companies[c.id].logo = c.logo] ELSE r

RemoveByRowID(r, c) ==
  [r EXCEPT !.companies = [i \in DOMAIN r.companies \ {c.id} |-> r.companies[i]]]

\* The foreign key is not enforced.
AddPrice(r, c) == [r EXCEPT !.prices = @ \cup {[company |-> c.id, of |-> c.of]}]

RemoveAllByCompanyRowID(r, c) ==
  [r EXCEPT !.prices = {p \in r.prices : p.company # c.id}]

Effect(r, c) ==
  CASE c.op = "Add"                     -> Add(r, c)
    [] c.op = "SetLogoByID"             -> SetLogoByID(r, c)
    [] c.op = "RemoveByRowID"           -> RemoveByRowID(r, c)
    [] c.op = "AddPrice"                -> AddPrice(r, c)
    [] c.op = "RemoveAllByCompanyRowID" -> RemoveAllByCompanyRowID(r, c)
    [] OTHER                            -> r

\* The rows a query finds; GetRowID() and GetLogoByRowID() throw without one.
Found(r, c) ==
  CASE c.op \in {"GetRowID", "IsUUIDPresent"} -> Ids(r, c.of)
    [] c.op = "GetLogoByRowID" -> {r.companies[i].logo : i \in DOMAIN r.companies \cap {c.id}}
    [] OTHER -> {}
MustThrow(r, c) == c.op \in {"GetRowID", "GetLogoByRowID"} /\ Found(r, c) = {}

Returned(v) == [ok |-> TRUE, value |-> v]
Thrown == [ok |-> FALSE, value |-> {}]

-----------------------------------------------------------------------------
(* One call at a time. *)

RowsInit == rows = NoRows /\ last = [t \in Threads |-> Returned({})]

Do(t, c) ==
  /\ ~MustThrow(rows, c)
  /\ rows' = Effect(rows, c)
  /\ last' = [last EXCEPT ![t] = Returned(Found(rows, c))]

Throw(t) ==
  /\ last' = [last EXCEPT ![t] = Thrown]
  /\ UNCHANGED rows

RowsNext == \E t \in Threads : Throw(t) \/ \E c \in Calls : Do(t, c)

RowsSpec == RowsInit /\ [][RowsNext]_rowsVars

=============================================================================
