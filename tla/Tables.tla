-------------------------------- MODULE Tables --------------------------------
(***************************************************************************)
(* Companies and Prices as several threads of one process use them: every  *)
(* operation is a query, or a transaction of its own, on the one SQLite    *)
(* connection, under ITable::mtx, a recursive mutex that all tables share. *)
(* Any statement may fail; the destructor of SQLite::Transaction then rolls*)
(* back what was not committed.                                            *)
(*                                                                         *)
(* Code: itable.h, itable.cpp, table_companies.cpp and table_prices.cpp in *)
(* src/Daemon/db; SQLite::Transaction and SQLite as the code uses them     *)
(***************************************************************************)
EXTENDS Naturals, FiniteSets

CONSTANTS
  Threads, Uuids, Logos, MaxIds,  \* as in TableRows
  NoThread,   \* no thread
  Failures    \* TRUE: a statement or a COMMIT may fail

ASSUME TablesAssumption ==
  NoThread \notin Threads /\ MaxIds \in Nat /\ Failures \in BOOLEAN

VARIABLES
  rows,       \* what the connection sees
  saved,      \* what is committed
  open,       \* the thread whose transaction is open, or NoThread
  owner,      \* for each mutex, the thread that has locked it, or NoThread
  depth,      \* and how many times it has
  pc,         \* what each thread does next
  call,       \* the call it is in
  held,       \* an id it was given, and for which company
  last        \* what its last call returned, or that it threw

vars == <<rows, saved, open, owner, depth, pc, call, held, last>>

At == INSTANCE TableRows WITH rows <- saved

-----------------------------------------------------------------------------
NoCall == [op |-> "none"]
NothingHeld == [id |-> 0]
Prices == {"AddPrice", "RemoveAllByCompanyRowID"}

\* The mutex is a static member of ITable.
MutexOf_PerTable(c) == IF c.op \in Prices THEN "prices" ELSE "static"
MutexOf(c) == "static"
Mutexes == {"static", "prices"}

Init ==
  /\ rows = At!NoRows /\ saved = At!NoRows
  /\ open = NoThread
  /\ owner = [m \in Mutexes |-> NoThread]
  /\ depth = [m \in Mutexes |-> 0]
  /\ pc = [t \in Threads |-> "idle"]
  /\ call = [t \in Threads |-> NoCall]
  /\ held = [t \in Threads |-> NothingHeld]
  /\ last = [t \in Threads |-> At!Returned({})]

Goto(t, l) == pc' = [pc EXCEPT ![t] = l]

\* What a thread may call: an id is one it got from GetRowID().
MayCall(t, c) ==
  /\ c.op = "Add" => rows.ids + Cardinality({u \in Threads : call[u].op = "Add"}) < MaxIds
  /\ "id" \in DOMAIN c => held[t] = [id |-> c.id, of |-> c.of]

\* Most operations lock mtx and once more within; Prices::Add() does not.
Call(t) ==
  /\ pc[t] = "idle"
  /\ \E c \in At!Calls :
       /\ MayCall(t, c)
       /\ call' = [call EXCEPT ![t] = c]
       /\ Goto(t, IF c.op = "AddPrice" THEN "lock_again" ELSE "lock")
  /\ UNCHANGED <<rows, saved, open, owner, depth, held, last>>

-----------------------------------------------------------------------------
(* The mutex. *)

\* It is recursive: whoever owns it may lock it again.
CanLock(t, m) == owner[m] \in {NoThread, t}

Acquire(t) ==
  LET m == MutexOf(call[t]) IN
  /\ CanLock(t, m)
  /\ owner' = [owner EXCEPT ![m] = t]
  /\ depth' = [depth EXCEPT ![m] = @ + 1]
  /\ UNCHANGED <<rows, saved, open, call, held, last>>

\* The operation, which prepares its statement.
Lock(t) ==
  /\ pc[t] = "lock"
  /\ Goto(t, "lock_again")
  /\ Acquire(t)

\* CreateGetFieldQuery() and RunTransaction().
LockAgain(t) ==
  /\ pc[t] = "lock_again"
  /\ Goto(t, IF call[t].op \in At!Reads THEN "query" ELSE "begin")
  /\ Acquire(t)

\* The guards go out of scope, one after the other, and the last one frees mtx.
Frees_First(m) == TRUE
Frees(m) == depth[m] = 1

Unlock(t) ==
  LET m == MutexOf(call[t]) IN
  /\ pc[t] = "unlock"
  /\ depth' = [depth EXCEPT ![m] = @ - 1]
  /\ IF Frees(m)
     THEN /\ owner' = [owner EXCEPT ![m] = NoThread]
          /\ Goto(t, "idle")
          /\ call' = [call EXCEPT ![t] = NoCall]
     ELSE UNCHANGED <<owner, pc, call>>
  /\ UNCHANGED <<rows, saved, open, held, last>>

-----------------------------------------------------------------------------
(* Queries and transactions. *)

Throw(t) ==
  /\ last' = [last EXCEPT ![t] = At!Thrown]
  /\ Goto(t, "unlock")

\* GetRowID(), IsCellPresent() and GetFieldValue().
Query(t) ==
  LET c == call[t]
      found == At!Found(rows, c)
  IN
  /\ pc[t] = "query"
  /\ \/ /\ ~At!MustThrow(rows, c)
        /\ last' = [last EXCEPT ![t] = At!Returned(found)]
        /\ held' = IF c.op = "GetRowID"
                   THEN [held EXCEPT ![t] = [id |-> CHOOSE i \in found : TRUE, of |-> c.of]]
                   ELSE held
        /\ Goto(t, "unlock")
     \/ /\ At!MustThrow(rows, c) \/ Failures
        /\ Throw(t)
        /\ UNCHANGED held
  /\ UNCHANGED <<rows, saved, open, owner, depth, call>>

\* BEGIN fails within a transaction.
Begin(t) ==
  /\ pc[t] = "begin"
  /\ IF open = NoThread
     THEN open' = t /\ Goto(t, "exec") /\ UNCHANGED last
     ELSE Throw(t) /\ UNCHANGED open
  /\ UNCHANGED <<rows, saved, owner, depth, call, held>>

\* ~Transaction() rolls back when there was no commit().
Rollback_Kept(t) == open' = NoThread /\ UNCHANGED rows
Rollback(t) == open' = NoThread /\ rows' = saved

Fail(t) ==
  /\ Failures
  /\ Rollback(t)
  /\ Throw(t)
  /\ UNCHANGED saved

Exec(t) ==
  /\ pc[t] = "exec"
  /\ \/ /\ rows' = At!Effect(rows, call[t])
        /\ Goto(t, "commit")
        /\ UNCHANGED <<saved, open, last>>
     \/ Fail(t)
  /\ UNCHANGED <<owner, depth, call, held>>

Commit(t) ==
  /\ pc[t] = "commit"
  /\ \/ /\ saved' = rows
        /\ open' = NoThread
        /\ last' = [last EXCEPT ![t] = At!Returned({})]
        /\ Goto(t, "unlock")
        /\ UNCHANGED rows
     \/ Fail(t)
  /\ UNCHANGED <<owner, depth, call, held>>

-----------------------------------------------------------------------------
Step(t) ==
  Lock(t) \/ LockAgain(t) \/ Query(t) \/ Begin(t) \/ Exec(t) \/ Commit(t) \/ Unlock(t)

Next == \E t \in Threads : Call(t) \/ Step(t)

Spec == Init /\ [][Next]_vars

-----------------------------------------------------------------------------
(* Properties. *)

Label == {"idle", "lock", "lock_again", "query", "begin", "exec", "commit", "unlock"}

\* The type of the state; a mutex is owned as long as it is locked.
TypeOK ==
  /\ At!RowsType(rows) /\ At!RowsType(saved)
  /\ open \in Threads \cup {NoThread}
  /\ owner \in [Mutexes -> Threads \cup {NoThread}]
  /\ depth \in [Mutexes -> 0..2]
  /\ \A m \in Mutexes : owner[m] = NoThread <=> depth[m] = 0
  /\ pc \in [Threads -> Label]
  /\ call \in [Threads -> At!Calls \cup {NoCall}]
  /\ \A t \in Threads : pc[t] = "idle" <=> call[t] = NoCall
  /\ held \in [Threads -> [id : 1..MaxIds, of : Uuids] \cup {NothingHeld}]
  /\ last \in [Threads -> [ok : BOOLEAN, value : SUBSET (1..MaxIds \cup Logos)]]

\* No transaction is begun within another: BEGIN never fails, though the tables
\* share the connection and each operation is several calls of SQLite.
TransactionsNeverNest == \A t \in Threads : pc[t] = "begin" => open = NoThread

\* A call takes effect at once or not at all, and no call ever sees a part of
\* another or what is rolled back later: the tables implement RowsSpec.
CallsAreAtomic == At!RowsSpec

\* A row id may be kept while other threads remove the company it is of and add
\* others: the price added with it then belongs to nobody, never to another
\* company.
PricesKeepTheirCompany ==
  \A p \in saved.prices :
    p.company \in DOMAIN saved.companies => saved.companies[p.company].uuid = p.of

=============================================================================
