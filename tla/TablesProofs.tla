----------------------------- MODULE TablesProofs -----------------------------
(***************************************************************************)
(* Proofs about Tables, for any number of threads and companies: Tables    *)
(* implements the specification of TableRows in which every call takes     *)
(* effect in one step.                                                     *)
(*                                                                         *)
(* The step in question is the commit of a transaction, the query or the   *)
(* failure.  It is the right one because a thread beyond its locks owns the*)
(* mutex: nobody else has a transaction open, so that what the connection  *)
(* sees is what is committed, or that with the one call in its transaction.*)
(* That prices keep their company needs no mutex, but that an id once given*)
(* is never given again: AUTOINCREMENT counts on after a row was removed.  *)
(*                                                                         *)
(* That the bound on the ids is enough for every call of Add() is a count: *)
(* ids given and calls that are yet to give one never exceed it.           *)
(***************************************************************************)
EXTENDS Tables, FiniteSetTheorems, TLAPS

InTransaction == {"exec", "commit"}

\* The points of a call at which the mutex is owned.
Inside(t) ==
  \/ pc[t] \in {"query", "begin", "exec", "commit", "unlock"}
  \/ pc[t] = "lock_again" /\ call[t].op # "AddPrice"

Shape ==
  /\ pc \in [Threads -> Label]
  /\ call \in [Threads -> At!Calls \cup {NoCall}]
  /\ owner \in [Mutexes -> Threads \cup {NoThread}]
  /\ DOMAIN last = Threads

\* A thread that is past its locks has a call, a query or a transaction as it says.
CallsInv ==
  \A t \in Threads :
    /\ pc[t] # "idle" => call[t] \in At!Calls
    /\ pc[t] = "query" => call[t].op \in At!Reads
    /\ pc[t] \in {"begin", "exec", "commit"} => call[t].op \notin At!Reads

\* Who is inside owns the mutex.
MutexInv == \A t \in Threads : Inside(t) => owner["static"] = t

\* The open transaction is that of the thread that executes or commits one.
OpenInv ==
  /\ open # NoThread => open \in Threads /\ pc[open] \in InTransaction
  /\ \A t \in Threads : pc[t] \in InTransaction => open = t

\* What the connection sees beyond what is committed is the call of the transaction.
RowsInv ==
  /\ open = NoThread => rows = saved
  /\ \A t \in Threads : pc[t] = "exec" => rows = saved
  /\ \A t \in Threads : pc[t] = "commit" => rows = At!Effect(saved, call[t])

IInv == Shape /\ CallsInv /\ MutexInv /\ OpenInv /\ RowsInv

USE TablesAssumption

\* The initial state satisfies the inductive invariant: no call was made.
LEMMA InitIInv == Init => IInv
  BY DEF Init, IInv, Shape, CallsInv, MutexInv, OpenInv, RowsInv, Inside, InTransaction,
         Label, Mutexes

\* A thread outside of transactions, but past its locks, sees what is committed.
LEMMA NobodyElse ==
  ASSUME IInv, NEW t \in Threads, Inside(t), pc[t] \notin InTransaction
  PROVE  open = NoThread /\ rows = saved
  BY DEF IInv, MutexInv, OpenInv, RowsInv, Inside, InTransaction

\* A call begins: nothing is locked yet.
LEMMA CallIInv ==
  ASSUME IInv, NEW t \in Threads, Call(t)
  PROVE  IInv'
<1> USE DEF IInv, Call, Goto
<1>1. Shape' /\ CallsInv'
  BY DEF Shape, CallsInv, Label
<1>2. MutexInv'
  BY DEF Shape, MutexInv, Inside
<1>3. OpenInv' /\ RowsInv'
  BY DEF Shape, OpenInv, RowsInv, InTransaction
<1> QED
  BY <1>1, <1>2, <1>3

\* The mutex is locked: it was free, or this thread's already.
LEMMA LockIInv ==
  ASSUME IInv, NEW t \in Threads, Lock(t) \/ LockAgain(t)
  PROVE  IInv'
<1> USE DEF IInv, Lock, LockAgain, Acquire, MutexOf, CanLock, Goto
<1>1. Shape' /\ CallsInv'
  BY DEF Shape, CallsInv, Label, Mutexes
<1>2. MutexInv'
  BY DEF Shape, MutexInv, Inside, Mutexes
<1>3. OpenInv' /\ RowsInv'
  BY DEF Shape, OpenInv, RowsInv, InTransaction
<1> QED
  BY <1>1, <1>2, <1>3

\* A guard goes out of scope; with the last one the mutex is free and the call over.
LEMMA UnlockIInv ==
  ASSUME IInv, NEW t \in Threads, Unlock(t)
  PROVE  IInv'
<1> USE DEF IInv, Unlock, MutexOf, Goto
<1>1. Shape' /\ CallsInv'
  BY DEF Shape, CallsInv, Label, Mutexes
<1>2. MutexInv'
  BY DEF Shape, MutexInv, Inside, Mutexes
<1>3. OpenInv' /\ RowsInv'
  BY DEF Shape, OpenInv, RowsInv, InTransaction
<1> QED
  BY <1>1, <1>2, <1>3

\* A query changes no row.
LEMMA QueryIInv ==
  ASSUME IInv, NEW t \in Threads, Query(t)
  PROVE  IInv'
<1>1. /\ pc[t] = "query" /\ pc' = [pc EXCEPT ![t] = "unlock"] /\ DOMAIN last' = DOMAIN last
      /\ UNCHANGED <<rows, saved, open, owner, call>>
  BY DEF Query, Throw, Goto, IInv, Shape
<1> USE <1>1 DEF IInv
<1>2. Shape' /\ CallsInv'
  BY DEF Shape, CallsInv, Label
<1>3. MutexInv'
  BY DEF Shape, MutexInv, Inside
<1>4. OpenInv' /\ RowsInv'
  BY DEF Shape, OpenInv, RowsInv, InTransaction
<1> QED
  BY <1>2, <1>3, <1>4

\* BEGIN: no other transaction is open.
LEMMA BeginIInv ==
  ASSUME IInv, NEW t \in Threads, Begin(t)
  PROVE  IInv'
<1>1. open = NoThread /\ rows = saved
  BY NobodyElse DEF Begin, Inside, InTransaction
<1> USE <1>1 DEF IInv, Begin, Goto
<1>2. Shape' /\ CallsInv'
  BY DEF Shape, CallsInv, Label
<1>3. MutexInv'
  BY DEF Shape, MutexInv, Inside
<1>4. OpenInv' /\ RowsInv'
  BY DEF Shape, OpenInv, RowsInv, InTransaction
<1> QED
  BY <1>2, <1>3, <1>4

\* A transaction that fails is rolled back.
LEMMA FailIInv ==
  ASSUME IInv, NEW t \in Threads, pc[t] \in InTransaction, Fail(t),
         UNCHANGED <<owner, call>>
  PROVE  IInv'
<1> USE DEF IInv, Fail, Rollback, Throw, Goto
<1>1. Shape' /\ CallsInv'
  BY DEF Shape, CallsInv, Label, InTransaction
<1>2. MutexInv'
  BY DEF Shape, MutexInv, Inside, InTransaction
<1>3. OpenInv' /\ RowsInv'
  BY DEF Shape, OpenInv, RowsInv, InTransaction
<1> QED
  BY <1>1, <1>2, <1>3

\* The statement is executed within the transaction.
LEMMA ExecIInv ==
  ASSUME IInv, NEW t \in Threads, Exec(t)
  PROVE  IInv'
<1>1. CASE Fail(t)
  BY <1>1, FailIInv DEF Exec, InTransaction
<1>2. CASE ~Fail(t)
  <2> USE <1>2 DEF IInv, Exec, Goto
  <2>1. Shape' /\ CallsInv'
    BY DEF Shape, CallsInv, Label
  <2>2. MutexInv'
    BY DEF Shape, MutexInv, Inside
  <2>3. OpenInv' /\ RowsInv'
    BY DEF Shape, OpenInv, RowsInv, InTransaction
  <2> QED
    BY <2>1, <2>2, <2>3
<1> QED
  BY <1>1, <1>2

\* The transaction is committed: nobody has one open.
LEMMA CommitIInv ==
  ASSUME IInv, NEW t \in Threads, Commit(t)
  PROVE  IInv'
<1>1. CASE Fail(t)
  BY <1>1, FailIInv DEF Commit, InTransaction
<1>2. CASE ~Fail(t)
  <2> USE <1>2 DEF IInv, Commit, Goto
  <2>1. Shape' /\ CallsInv'
    BY DEF Shape, CallsInv, Label
  <2>2. MutexInv'
    BY DEF Shape, MutexInv, Inside
  <2>3. OpenInv' /\ RowsInv'
    BY DEF Shape, OpenInv, RowsInv, InTransaction
  <2> QED
    BY <2>1, <2>2, <2>3
<1> QED
  BY <1>1, <1>2

\* Every step preserves the inductive invariant.
LEMMA NextIInv == IInv /\ [Next]_vars => IInv'
<1>1. CASE UNCHANGED vars
  BY <1>1 DEF vars, IInv, Shape, CallsInv, MutexInv, OpenInv, RowsInv, Inside, InTransaction
<1>2. CASE Next
  BY <1>2, CallIInv, LockIInv, UnlockIInv, QueryIInv, BeginIInv, ExecIInv, CommitIInv
     DEF Next, Step
<1> QED
  BY <1>1, <1>2

-----------------------------------------------------------------------------
\* The inductive invariant holds in every state.
THEOREM Inductive == Spec => []IInv
  BY InitIInv, NextIInv, PTL DEF Spec

\* No transaction is begun within another, whatever threads call the tables.
THEOREM NeverNest == Spec => []TransactionsNeverNest
<1>1. IInv => TransactionsNeverNest
  BY NobodyElse DEF TransactionsNeverNest, Inside, InTransaction
<1> QED
  BY <1>1, Inductive, PTL

-----------------------------------------------------------------------------
(* Refinement. *)

\* A query answers from the committed rows, or throws.
LEMMA QueryRefines ==
  ASSUME IInv, NEW t \in Threads, Query(t)
  PROVE  At!RowsNext
<1>1. rows = saved
  BY NobodyElse DEF Query, Inside, InTransaction
<1>2. pc[t] = "query" /\ UNCHANGED saved
  BY DEF Query
<1>3. call[t] \in At!Calls /\ call[t].op \in At!Reads
  BY <1>2 DEF IInv, CallsInv
<1>4. At!Effect(saved, call[t]) = saved
  BY <1>3 DEF At!Effect, At!Reads
<1>5. CASE ~At!MustThrow(rows, call[t]) /\ last' = [last EXCEPT ![t] = At!Returned(At!Found(rows, call[t]))]
  <2>1. At!Do(t, call[t])
    BY <1>1, <1>2, <1>4, <1>5 DEF At!Do
  <2> QED
    BY <1>3, <2>1 DEF At!RowsNext
<1>6. CASE Throw(t)
  <2>1. At!Throw(t)
    BY <1>2, <1>6 DEF Throw, At!Throw
  <2> QED
    BY <2>1 DEF At!RowsNext
<1> QED
  BY <1>5, <1>6 DEF Query

\* A transaction that is rolled back left the committed rows alone, and throws.
LEMMA FailRefines ==
  ASSUME NEW t \in Threads, Fail(t)
  PROVE  At!RowsNext
  BY DEF Fail, Throw, At!Throw, At!RowsNext

\* A commit makes the effect of the one call the committed rows.
LEMMA CommitRefines ==
  ASSUME IInv, NEW t \in Threads, Commit(t)
  PROVE  At!RowsNext
<1>1. CASE Fail(t)
  BY <1>1, FailRefines
<1>2. CASE ~Fail(t)
  <2>1. /\ pc[t] = "commit" /\ saved' = rows
        /\ last' = [last EXCEPT ![t] = At!Returned({})]
    BY <1>2 DEF Commit
  <2>2. /\ rows = At!Effect(saved, call[t])
        /\ call[t] \in At!Calls /\ call[t].op \notin At!Reads
    BY <2>1 DEF IInv, CallsInv, RowsInv
  <2>3. At!Found(saved, call[t]) = {} /\ ~At!MustThrow(saved, call[t])
    BY <2>2 DEF At!Found, At!MustThrow, At!Reads
  <2>4. At!Do(t, call[t])
    BY <2>1, <2>2, <2>3 DEF At!Do
  <2> QED
    BY <2>2, <2>4 DEF At!RowsNext
<1> QED
  BY <1>1, <1>2

\* BEGIN succeeds, and changes nothing another connection could see.
LEMMA BeginRefines ==
  ASSUME IInv, NEW t \in Threads, Begin(t)
  PROVE  UNCHANGED <<saved, last>>
<1>1. open = NoThread
  BY NobodyElse DEF Begin, Inside, InTransaction
<1> QED
  BY <1>1 DEF Begin

\* The tables implement RowsSpec: every call takes effect at once or not at all.
THEOREM Atomic == Spec => CallsAreAtomic
<1>1. Init => At!RowsInit
  BY DEF Init, At!RowsInit
<1>2. IInv /\ [Next]_vars => [At!RowsNext]_(At!rowsVars)
  <2> SUFFICES ASSUME IInv, [Next]_vars
               PROVE  At!RowsNext \/ UNCHANGED <<saved, last>>
    BY DEF At!rowsVars
  <2>1. CASE UNCHANGED vars
    BY <2>1 DEF vars
  <2>2. ASSUME NEW t \in Threads, Call(t) \/ Lock(t) \/ LockAgain(t) \/ Unlock(t)
        PROVE  UNCHANGED <<saved, last>>
    BY <2>2 DEF Call, Lock, LockAgain, Acquire, Unlock
  <2>3. ASSUME NEW t \in Threads, Exec(t)
        PROVE  At!RowsNext \/ UNCHANGED <<saved, last>>
    BY <2>3, FailRefines DEF Exec
  <2> QED
    BY <2>1, <2>2, <2>3, QueryRefines, BeginRefines, CommitRefines DEF Next, Step
<1> QED
  BY <1>1, <1>2, Inductive, PTL DEF Spec, CallsAreAtomic, At!RowsSpec

-----------------------------------------------------------------------------
(* Row ids. *)

\* What AUTOINCREMENT gives for the rows: no id is above the last one given.
Numbered(r) ==
  /\ r = [companies |-> r.companies, ids |-> r.ids, prices |-> r.prices]
  /\ r.companies = [i \in DOMAIN r.companies |-> r.companies[i]]
  /\ r.ids \in Nat
  /\ \A i \in DOMAIN r.companies : i \in 1..r.ids /\ r.companies[i] \in At!Row

\* The id i was given to the company u and to no other.
Given(r, i, u) ==
  i \in 1..r.ids /\ (i \in DOMAIN r.companies => r.companies[i].uuid = u)

WithId == {"SetLogoByID", "GetLogoByRowID", "RemoveByRowID", "AddPrice", "RemoveAllByCompanyRowID"}

IdsInv ==
  /\ Numbered(saved)
  /\ \A p \in saved.prices : Given(saved, p.company, p.of)
  /\ \A t \in Threads : held[t] # NothingHeld => Given(saved, held[t].id, held[t].of)
  /\ \A t \in Threads : call[t].op \in WithId => Given(saved, call[t].id, call[t].of)
  /\ DOMAIN held = Threads

\* Adding a company gives an id that nobody has yet.
LEMMA AddKeeps ==
  ASSUME NEW r, Numbered(r), NEW c \in At!Calls, c.op = "Add"
  PROVE  /\ Numbered(At!Add(r, c)) /\ At!Add(r, c).prices = r.prices
         /\ \A i, u : Given(r, i, u) => Given(At!Add(r, c), i, u)
<1> DEFINE n == r.ids + 1
           inserted == [i \in DOMAIN r.companies \cup {n} |->
             IF i = n THEN [uuid |-> c.of, logo |-> c.logo] ELSE r.companies[i]]
           s == At!Add(r, c)
<1>1. s = [companies |-> IF At!Ids(r, c.of) = {} THEN inserted ELSE r.companies,
           ids |-> n, prices |-> r.prices]
  <2>1. s = [r EXCEPT !.ids = @ + 1, !.companies = IF At!Ids(r, c.of) = {} THEN inserted ELSE @]
    BY DEF At!Add, At!NextId
  <2>2. PICK f, k, ps : r = [companies |-> f, ids |-> k, prices |-> ps]
    BY DEF Numbered
  <2> HIDE DEF inserted, s
  <2> QED
    BY <2>1, <2>2
<1>2. c.of \in Uuids /\ c.logo \in Logos
  BY DEF At!Calls
<1>3. \A i \in DOMAIN inserted : i \in 1..n /\ inserted[i] \in At!Row
  BY <1>2 DEF Numbered, At!Row
<1>4. \A i \in 1..r.ids : i \in DOMAIN inserted => i \in DOMAIN r.companies /\ inserted[i] = r.companies[i]
  BY DEF Numbered
<1> HIDE DEF inserted
<1>5. Numbered(s)
  <2>1. inserted = [i \in DOMAIN inserted |-> inserted[i]]
    BY DEF inserted
  <2> QED
    BY <1>1, <1>3, <2>1 DEF Numbered
<1>6. ASSUME NEW i, NEW u, Given(r, i, u) PROVE Given(s, i, u)
  BY <1>1, <1>4, <1>6 DEF Given, Numbered
<1> QED
  BY <1>1, <1>5, <1>6

\* No call makes an id that was given be another company's.
LEMMA EffectKeeps ==
  ASSUME NEW r, Numbered(r), NEW c \in At!Calls
  PROVE  /\ Numbered(At!Effect(r, c))
         /\ \A i, u : Given(r, i, u) => Given(At!Effect(r, c), i, u)
         /\ \A p \in At!Effect(r, c).prices :
              \/ p \in r.prices
              \/ c.op = "AddPrice" /\ p = [company |-> c.id, of |-> c.of]
<1>1. CASE c.op = "Add"
  <2>1. At!Effect(r, c) = At!Add(r, c)
    BY <1>1 DEF At!Effect
  <2>2. /\ Numbered(At!Add(r, c)) /\ At!Add(r, c).prices = r.prices
        /\ \A i, u : Given(r, i, u) => Given(At!Add(r, c), i, u)
    BY <1>1, AddKeeps
  <2> QED
    BY <2>1, <2>2
<1>2. CASE c.op = "SetLogoByID"
  <2>1. At!Effect(r, c) = At!SetLogoByID(r, c) /\ c.logo \in Logos
    BY <1>2 DEF At!Effect, At!Calls
  <2>2. CASE c.id \notin DOMAIN r.companies
    <3>1. At!Effect(r, c) = r
      BY <2>1, <2>2 DEF At!SetLogoByID
    <3> QED
      BY <3>1
  <2>3. CASE c.id \in DOMAIN r.companies
    <3> DEFINE f == [r.companies EXCEPT ![c.id].logo = c.logo]
    <3>1. At!Effect(r, c) = [companies |-> f, ids |-> r.ids, prices |-> r.prices]
      BY <2>1, <2>3 DEF At!SetLogoByID, Numbered
    <3>2. /\ DOMAIN f = DOMAIN r.companies /\ f = [i \in DOMAIN f |-> f[i]]
          /\ \A i \in DOMAIN f : f[i] \in At!Row /\ f[i].uuid = r.companies[i].uuid
      BY <2>1, <2>3 DEF Numbered, At!Row
    <3> HIDE DEF f
    <3> QED
      BY <3>1, <3>2, <1>2 DEF Numbered, Given
  <2> QED
    BY <2>2, <2>3
<1>3. CASE c.op = "RemoveByRowID"
  <2> DEFINE f == [i \in DOMAIN r.companies \ {c.id} |-> r.companies[i]]
  <2>1. At!Effect(r, c) = [companies |-> f, ids |-> r.ids, prices |-> r.prices]
    BY <1>3 DEF At!Effect, At!RemoveByRowID, Numbered
  <2>2. f = [i \in DOMAIN f |-> f[i]] /\ \A i \in DOMAIN f : i \in DOMAIN r.companies /\ f[i] = r.companies[i]
    OBVIOUS
  <2> HIDE DEF f
  <2> QED
    BY <2>1, <2>2, <1>3 DEF Numbered, Given
<1>4. CASE c.op = "AddPrice"
  <2>1. At!Effect(r, c) = [companies |-> r.companies, ids |-> r.ids,
                           prices |-> r.prices \cup {[company |-> c.id, of |-> c.of]}]
    BY <1>4 DEF At!Effect, At!AddPrice, Numbered
  <2> QED
    BY <2>1, <1>4 DEF Numbered, Given
<1>5. CASE c.op = "RemoveAllByCompanyRowID"
  <2>1. At!Effect(r, c) = [companies |-> r.companies, ids |-> r.ids,
                           prices |-> {p \in r.prices : p.company # c.id}]
    BY <1>5 DEF At!Effect, At!RemoveAllByCompanyRowID, Numbered
  <2> QED
    BY <2>1, <1>5 DEF Numbered, Given
<1>6. CASE c.op \notin {"Add", "SetLogoByID", "RemoveByRowID", "AddPrice", "RemoveAllByCompanyRowID"}
  BY <1>6 DEF At!Effect
<1> QED
  BY <1>1, <1>2, <1>3, <1>4, <1>5, <1>6

\* No row was inserted and no id handed out yet.
LEMMA InitIdsInv == Init => IdsInv
  BY DEF Init, IdsInv, Numbered, Given, At!NoRows, NoCall, NothingHeld, WithId

\* A call with an id has it from the thread, which has it from GetRowID().
LEMMA CallIdsInv ==
  ASSUME IInv, IdsInv, NEW t \in Threads, Call(t)
  PROVE  IdsInv'
<1>1. PICK c \in At!Calls : MayCall(t, c) /\ call' = [call EXCEPT ![t] = c]
  BY DEF Call
<1>2. UNCHANGED <<saved, held>>
  BY DEF Call
<1>3. c.op \in WithId => Given(saved, c.id, c.of)
  <2> SUFFICES ASSUME c.op \in WithId PROVE Given(saved, c.id, c.of)
    OBVIOUS
  <2>1. "id" \in DOMAIN c
    BY DEF At!Calls, WithId
  <2>2. held[t] = [id |-> c.id, of |-> c.of]
    BY <1>1, <2>1 DEF MayCall
  <2>3. held[t] # NothingHeld /\ held[t].id = c.id /\ held[t].of = c.of
    BY <2>2 DEF NothingHeld
  <2> QED
    BY <2>3 DEF IdsInv
<1> QED
  BY <1>1, <1>2, <1>3 DEF IdsInv, IInv, Shape

\* The id a query finds is that of the company asked for.
LEMMA QueryIdsInv ==
  ASSUME IInv, IdsInv, NEW t \in Threads, Query(t)
  PROVE  IdsInv'
<1> DEFINE c == call[t]
           found == At!Found(rows, c)
<1>1. rows = saved /\ UNCHANGED <<saved, call>>
  BY NobodyElse DEF Query, Inside, InTransaction
<1>2. CASE UNCHANGED held
  BY <1>1, <1>2 DEF IdsInv
<1>3. CASE held' # held
  <2>1. /\ c.op = "GetRowID" /\ found # {}
        /\ held' = [held EXCEPT ![t] = [id |-> CHOOSE i \in found : TRUE, of |-> c.of]]
    BY <1>3 DEF Query, At!MustThrow
  <2> DEFINE i == CHOOSE j \in found : TRUE
  <2>2. i \in found
    BY <2>1
  <2>3. found = At!Ids(saved, c.of)
    BY <1>1, <2>1 DEF At!Found
  <2> HIDE DEF i, found
  <2>4. Given(saved, i, c.of)
    BY <2>2, <2>3 DEF At!Ids, Given, IdsInv, Numbered
  <2>5. held' = [held EXCEPT ![t] = [id |-> i, of |-> c.of]]
    BY <2>1 DEF i
  <2> HIDE DEF c
  <2> QED
    BY <1>1, <2>4, <2>5 DEF IdsInv
<1> QED
  BY <1>2, <1>3

\* A commit keeps what was given, and adds a price only for the id of the call.
LEMMA CommitIdsInv ==
  ASSUME IInv, IdsInv, NEW t \in Threads, Commit(t)
  PROVE  IdsInv'
<1>1. UNCHANGED <<call, held>>
  BY DEF Commit
<1>2. CASE UNCHANGED saved
  BY <1>1, <1>2 DEF IdsInv
<1>3. CASE saved' # saved
  <2> DEFINE c == call[t]
  <2>1. saved' = rows /\ pc[t] = "commit"
    BY <1>3 DEF Commit, Fail
  <2>2. saved' = At!Effect(saved, c) /\ c \in At!Calls
    BY <2>1 DEF IInv, RowsInv, CallsInv
  <2>3. Numbered(saved)
    BY DEF IdsInv
  <2>4. /\ Numbered(saved')
        /\ \A i, u : Given(saved, i, u) => Given(saved', i, u)
        /\ \A p \in saved'.prices :
             p \in saved.prices \/ (c.op = "AddPrice" /\ p = [company |-> c.id, of |-> c.of])
    BY <2>2, <2>3, EffectKeeps
  <2>5. c.op = "AddPrice" => Given(saved, c.id, c.of)
    BY DEF IdsInv, WithId
  <2> HIDE DEF c
  <2>6. \A p \in saved'.prices : Given(saved', p.company, p.of)
    BY <2>4, <2>5 DEF IdsInv
  <2> QED
    BY <1>1, <2>4, <2>6 DEF IdsInv
<1> QED
  BY <1>2, <1>3

\* Every step preserves it.
LEMMA NextIdsInv == IInv /\ IdsInv /\ [Next]_vars => IdsInv'
<1> SUFFICES ASSUME IInv, IdsInv, [Next]_vars PROVE IdsInv'
  OBVIOUS
<1>1. ASSUME UNCHANGED <<saved, held, call>> PROVE IdsInv'
  BY <1>1 DEF IdsInv
<1>2. ASSUME NEW t \in Threads, Unlock(t) PROVE IdsInv'
  BY <1>2 DEF Unlock, NoCall, WithId, IdsInv, IInv, Shape
<1>3. ASSUME NEW t \in Threads, Lock(t) \/ LockAgain(t) \/ Begin(t) \/ Exec(t)
      PROVE  UNCHANGED <<saved, held, call>>
  BY <1>3 DEF Lock, LockAgain, Acquire, Begin, Exec, Fail
<1>4. CASE UNCHANGED vars
  BY <1>1, <1>4 DEF vars
<1> QED
  BY <1>1, <1>2, <1>3, <1>4, CallIdsInv, QueryIdsInv, CommitIdsInv DEF Next, Step

\* A price never comes to be another company's, whatever is added and removed while
\* threads keep ids they read before.
THEOREM IdsStay == Spec => []PricesKeepTheirCompany
<1>1. IInv /\ IdsInv /\ [Next]_vars => IInv' /\ IdsInv'
  BY NextIInv, NextIdsInv
<1>2. IdsInv => PricesKeepTheirCompany
  BY DEF IdsInv, Given, PricesKeepTheirCompany
<1> QED
  BY <1>1, <1>2, InitIInv, InitIdsInv, PTL DEF Spec

-----------------------------------------------------------------------------
(* The mutex. *)

\* How often a call locks the mutex.
Locks(t) == IF call[t].op = "AddPrice" THEN 1 ELSE 2

\* Who owns the mutex is inside, and has locked it as often as its label says.
DepthInv ==
  /\ depth = [m \in Mutexes |-> depth[m]]
  /\ depth["prices"] = 0 /\ owner["prices"] = NoThread
  /\ owner["static"] = NoThread => depth["static"] = 0
  /\ owner["static"] # NoThread =>
       LET t == owner["static"] IN
       /\ Inside(t)
       /\ pc[t] = "lock_again" => depth["static"] = 1
       /\ pc[t] \in {"query", "begin", "exec", "commit"} => depth["static"] = Locks(t)
       /\ pc[t] = "unlock" => depth["static"] \in 1..Locks(t)
  /\ \A t \in Threads : pc[t] = "idle" => call[t] = NoCall
  /\ \A t \in Threads : pc[t] = "lock" => call[t].op # "AddPrice"

LEMMA InitDepthInv == Init => DepthInv
  BY DEF Init, DepthInv, Mutexes

\* A first lock finds the mutex free, a second one finds it owned by the thread.
LEMMA LockDepthInv ==
  ASSUME IInv, DepthInv, NEW t \in Threads, Lock(t) \/ LockAgain(t)
  PROVE  DepthInv'
<1>1. /\ owner["static"] \in {NoThread, t}
      /\ owner' = [owner EXCEPT !["static"] = t]
      /\ depth' = [depth EXCEPT !["static"] = @ + 1]
      /\ UNCHANGED call
  BY DEF Lock, LockAgain, Acquire, CanLock, MutexOf
<1>2. owner \in [Mutexes -> Threads \cup {NoThread}] /\ pc \in [Threads -> Label]
  BY DEF IInv, Shape
<1>3. owner'["static"] = t /\ owner'["prices"] = NoThread /\ depth'["prices"] = 0
      /\ depth'["static"] = depth["static"] + 1 /\ depth' = [m \in Mutexes |-> depth'[m]]
  BY <1>1, <1>2 DEF DepthInv, Mutexes
<1>4. CASE Lock(t)
  <2>1. pc[t] = "lock" /\ pc' = [pc EXCEPT ![t] = "lock_again"]
    BY <1>4 DEF Lock, Goto
  <2>2. owner["static"] = NoThread /\ depth["static"] = 0
    BY <1>1, <2>1 DEF DepthInv, Inside
  <2>3. call[t].op # "AddPrice"
    BY <2>1 DEF DepthInv
  <2> QED
    BY <1>1, <1>2, <1>3, <2>1, <2>2, <2>3 DEF DepthInv, Inside
<1>5. CASE LockAgain(t)
  <2>1. pc[t] = "lock_again" /\ pc' = [pc EXCEPT ![t] = IF call[t].op \in At!Reads THEN "query" ELSE "begin"]
    BY <1>5 DEF LockAgain, Goto
  <2>2. depth'["static"] = Locks(t)
    BY <1>1, <1>3, <2>1 DEF DepthInv, Inside, Locks, IInv, MutexInv
  <2> QED
    BY <1>1, <1>2, <1>3, <2>1, <2>2 DEF DepthInv, Inside, Locks
<1> QED
  BY <1>4, <1>5

\* The last guard to go frees the mutex.
LEMMA UnlockDepthInv ==
  ASSUME IInv, DepthInv, NEW t \in Threads, Unlock(t)
  PROVE  DepthInv'
<1>1. /\ owner \in [Mutexes -> Threads \cup {NoThread}] /\ pc \in [Threads -> Label]
      /\ DOMAIN call = Threads /\ "static" \in Mutexes /\ "prices" \in Mutexes
  BY DEF IInv, Shape, Mutexes
<1>2. pc[t] = "unlock" /\ owner["static"] = t
  BY DEF Unlock, IInv, MutexInv, Inside
<1>3. depth' = [depth EXCEPT !["static"] = @ - 1] /\ depth["static"] \in 1..Locks(t)
  BY <1>2 DEF Unlock, MutexOf, DepthInv
<1>4. CASE depth["static"] = 1
  <2>1. /\ owner' = [owner EXCEPT !["static"] = NoThread]
        /\ pc' = [pc EXCEPT ![t] = "idle"] /\ call' = [call EXCEPT ![t] = NoCall]
    BY <1>4 DEF Unlock, MutexOf, Frees, Goto
  <2>2. owner'["static"] = NoThread /\ depth'["static"] = 0
    BY <1>1, <1>3, <1>4, <2>1 DEF DepthInv
  <2> QED
    BY <1>1, <1>3, <2>1, <2>2 DEF DepthInv
<1>5. CASE depth["static"] # 1
  <2>1. UNCHANGED <<owner, pc, call>>
    BY <1>5 DEF Unlock, MutexOf, Frees
  <2>2. depth["static"] = 2 /\ depth'["static"] = 1 /\ Locks(t) = 2
    BY <1>1, <1>3, <1>5 DEF Locks, DepthInv
  <2> QED
    BY <1>1, <1>2, <1>3, <2>1, <2>2 DEF DepthInv, Inside, Locks
<1> QED
  BY <1>4, <1>5

\* The other steps lock and unlock nothing.
LEMMA WithinDepthInv ==
  ASSUME IInv, DepthInv, NEW t \in Threads, Query(t) \/ Begin(t) \/ Exec(t) \/ Commit(t)
  PROVE  DepthInv'
<1>1. UNCHANGED <<owner, depth, call>>
  BY DEF Query, Begin, Exec, Commit
<1>2. pc[t] \in {"query", "begin", "exec", "commit"} /\ owner["static"] = t
  BY DEF Query, Begin, Exec, Commit, IInv, MutexInv, Inside
<1>3. PICK l \in {"exec", "commit", "unlock"} : pc' = [pc EXCEPT ![t] = l]
  BY DEF Query, Begin, Exec, Commit, Fail, Throw, Goto
<1>4. depth["static"] = Locks(t) /\ Locks(t) \in 1..Locks(t)
  BY <1>2 DEF DepthInv, Locks
<1>5. pc \in [Threads -> Label]
  BY DEF IInv, Shape
<1>6. pc'[t] = l /\ Inside(t)' /\ Locks(t)' = Locks(t)
  BY <1>1, <1>3, <1>5 DEF Inside, Locks
<1> QED
  BY <1>1, <1>2, <1>3, <1>4, <1>5, <1>6 DEF DepthInv

LEMMA NextDepthInv == IInv /\ DepthInv /\ [Next]_vars => DepthInv'
<1>1. ASSUME IInv, DepthInv, NEW t \in Threads, Call(t) PROVE DepthInv'
  <2>1. /\ pc[t] = "idle" /\ UNCHANGED <<owner, depth>>
        /\ pc \in [Threads -> Label] /\ DOMAIN call = Threads
    BY <1>1 DEF Call, IInv, Shape
  <2>2. PICK c \in At!Calls :
          /\ call' = [call EXCEPT ![t] = c]
          /\ pc' = [pc EXCEPT ![t] = IF c.op = "AddPrice" THEN "lock_again" ELSE "lock"]
    BY <1>1 DEF Call, Goto
  <2>3. owner["static"] # t
    BY <1>1, <2>1 DEF DepthInv, Inside
  <2>4. \A u \in Threads : u # t => pc'[u] = pc[u] /\ call'[u] = call[u]
    BY <2>1, <2>2
  <2>5. /\ pc'[t] = "lock" => call'[t].op # "AddPrice"
        /\ pc'[t] # "idle"
    BY <2>1, <2>2
  <2>6. owner["static"] \in Threads \cup {NoThread}
    BY <1>1 DEF IInv, Shape, Mutexes
  <2> QED
    BY <1>1, <2>1, <2>3, <2>4, <2>5, <2>6 DEF DepthInv, Inside, Locks
<1>2. DepthInv /\ UNCHANGED vars => DepthInv'
  BY DEF vars, DepthInv, Inside, Locks
<1> QED
  BY <1>1, <1>2, LockDepthInv, UnlockDepthInv, WithinDepthInv DEF Next, Step

\* Whoever keeps a thread from locking the mutex has locked it and can go on: it need
\* not lock it again, or may.
OwnersGoOn ==
  \A t \in Threads, m \in Mutexes :
    ~CanLock(t, m) =>
      /\ owner[m] \in Threads \ {t}
      /\ pc[owner[m]] \in {"lock_again", "query", "begin", "exec", "commit", "unlock"}
      /\ pc[owner[m]] = "lock_again" => CanLock(owner[m], MutexOf(call[owner[m]]))

\* No threads ever wait for each other, nor one for itself, though most operations lock
\* the mutex of their table and call what locks it again.
THEOREM MutexIsFreed == Spec => []OwnersGoOn
<1>1. IInv /\ DepthInv /\ [Next]_vars => IInv' /\ DepthInv'
  BY NextIInv, NextDepthInv
<1>2. IInv /\ DepthInv => OwnersGoOn
  BY DEF IInv, Shape, DepthInv, Inside, OwnersGoOn, CanLock, MutexOf, Mutexes
<1> QED
  BY <1>1, <1>2, InitIInv, InitDepthInv, PTL DEF Spec

\* The steps that are left to a call.
CallLeft(t) ==
  CASE pc[t] = "lock" -> 7
    [] pc[t] = "lock_again" -> 6
    [] pc[t] = "begin" -> 5
    [] pc[t] = "exec" -> 4
    [] pc[t] \in {"commit", "query"} -> 3
    [] pc[t] = "unlock" -> depth["static"]
    [] OTHER -> 0

CallGoesOn ==
  \A t \in Threads : pc[t] # "idle" =>
    /\ CallLeft(t) \in 1..7
    /\ CallLeft(t)' <= CallLeft(t)
    /\ Step(t) => CallLeft(t)' < CallLeft(t)

LEMMA CallLeftIsCount ==
  ASSUME IInv, DepthInv, NEW t \in Threads, pc[t] # "idle"
  PROVE  CallLeft(t) \in 1..7 /\ (Inside(t) => depth["static"] \in 1..2)
<1>1. Inside(t) => depth["static"] \in 1..2
  BY DEF IInv, MutexInv, DepthInv, Inside, Locks
<1>2. pc[t] \in Label
  BY DEF IInv, Shape
<1> QED
  BY <1>1, <1>2 DEF CallLeft, Label, Inside

\* A step brings the call of its thread nearer to the end.
LEMMA StepNearer ==
  ASSUME IInv, DepthInv, NEW t \in Threads, Step(t)
  PROVE  CallLeft(t)' \in Nat /\ CallLeft(t)' < CallLeft(t)
<1>1. pc \in [Threads -> Label] /\ "static" \in Mutexes
  BY DEF IInv, Shape, Mutexes
<1>2. CASE Lock(t)
  <2>1. pc[t] = "lock" /\ pc'[t] = "lock_again"
    BY <1>1, <1>2 DEF Lock, Goto
  <2> QED
    BY <2>1 DEF CallLeft
<1>3. CASE LockAgain(t)
  <2>1. pc[t] = "lock_again" /\ pc'[t] \in {"query", "begin"}
    BY <1>1, <1>3 DEF LockAgain, Goto
  <2> QED
    BY <2>1 DEF CallLeft
<1>4. CASE Query(t) \/ Begin(t) \/ Exec(t) \/ Commit(t)
  <2>1. \/ pc[t] = "begin" /\ pc'[t] = "exec"
        \/ pc[t] = "exec" /\ pc'[t] = "commit"
        \/ pc[t] \in {"query", "begin", "exec", "commit"} /\ pc'[t] = "unlock"
    BY <1>1, <1>4 DEF Query, Begin, Exec, Commit, Fail, Throw, Goto
  <2>2. depth'["static"] = depth["static"] /\ depth["static"] \in 1..2
    BY <1>4, <2>1, CallLeftIsCount DEF Query, Begin, Exec, Commit, Inside
  <2> QED
    BY <2>1, <2>2 DEF CallLeft
<1>5. CASE Unlock(t)
  <2>1. pc[t] = "unlock" /\ depth["static"] \in 1..2
    BY <1>5, CallLeftIsCount DEF Unlock, Inside
  <2>2. depth'["static"] = depth["static"] - 1
    BY <1>1, <1>5 DEF Unlock, MutexOf, DepthInv
  <2>3. pc'[t] \in {"idle", "unlock"}
    BY <1>1, <1>5, <2>1 DEF Unlock, Goto
  <2> QED
    BY <2>1, <2>2, <2>3 DEF CallLeft
<1> QED
  BY <1>2, <1>3, <1>4, <1>5 DEF Step

\* Other threads neither move it nor lock or unlock what it has locked.
LEMMA OthersNoFurther ==
  ASSUME IInv, DepthInv, NEW t \in Threads, pc[t] # "idle",
         NEW u \in Threads \ {t}, Call(u) \/ Step(u)
  PROVE  CallLeft(t)' = CallLeft(t)
<1>1. pc'[t] = pc[t]
  BY DEF IInv, Shape, Call, Step, Lock, LockAgain, Unlock, Query, Begin, Exec, Commit, Fail, Throw,
         Goto
<1>2. ASSUME pc[t] = "unlock" PROVE depth'["static"] = depth["static"]
  <2>1. owner["static"] = t /\ t # NoThread
    BY <1>2 DEF IInv, MutexInv, Inside
  <2>2. ~Lock(u) /\ ~LockAgain(u)
    BY <2>1 DEF Lock, LockAgain, Acquire, MutexOf, CanLock
  <2>3. ~Unlock(u)
    BY <2>1 DEF Unlock, IInv, MutexInv, Inside
  <2> QED
    BY <2>2, <2>3 DEF Call, Step, Query, Begin, Exec, Commit
<1> QED
  BY <1>1, <1>2 DEF CallLeft

\* A call takes seven steps at most, whether its statements succeed or fail, and no other
\* thread makes it longer.  With MutexIsFreed: the mutex is never locked for longer than
\* the rest of one call.
THEOREM CallProgress == Spec => [][CallGoesOn]_vars
<1>1. IInv /\ DepthInv /\ [Next]_vars => IInv' /\ DepthInv'
  BY NextIInv, NextDepthInv
<1>2. ASSUME IInv, DepthInv, Next PROVE CallGoesOn
  <2> SUFFICES ASSUME NEW t \in Threads, pc[t] # "idle"
               PROVE  /\ CallLeft(t) \in 1..7
                      /\ CallLeft(t)' <= CallLeft(t)
                      /\ Step(t) => CallLeft(t)' < CallLeft(t)
    BY DEF CallGoesOn
  <2>1. CallLeft(t) \in 1..7
    BY <1>2, CallLeftIsCount
  <2>2. CASE Step(t)
    <3>1. CallLeft(t)' \in Nat /\ CallLeft(t)' < CallLeft(t)
      BY <1>2, <2>2, StepNearer
    <3> QED
      BY <2>1, <3>1
  <2>3. CASE ~Step(t)
    <3>1. CallLeft(t)' = CallLeft(t)
      BY <1>2, <2>3, OthersNoFurther DEF Next, Call
    <3> QED
      BY <2>1, <2>3, <3>1
  <2> QED
    BY <2>2, <2>3
<1>3. IInv /\ DepthInv /\ [Next]_vars => [CallGoesOn]_vars
  BY <1>2
<1> QED
  BY <1>1, <1>3, InitIInv, InitDepthInv, PTL DEF Spec

-----------------------------------------------------------------------------
(* The types. *)

\* Threads that are in Add(), and those whose id is not committed yet.
Adders == {t \in Threads : call[t].op = "Add"}
Pending == {t \in Adders : pc[t] # "unlock"}

Held == [id : 1..MaxIds, of : Uuids] \cup {NothingHeld}
Result == [ok : BOOLEAN, value : SUBSET (1..MaxIds \cup Logos)]

\* Every Add() that was called has its id within the bound.
TypeInv ==
  /\ IsFiniteSet(Adders)
  /\ saved.ids + Cardinality(Pending) <= MaxIds
  /\ saved.prices \subseteq [company : 1..MaxIds, of : Uuids]
  /\ held \in [Threads -> Held]
  /\ last \in [Threads -> Result]

LEMMA ReturnedTyped ==
  ASSUME NEW v \in SUBSET (1..MaxIds \cup Logos)
  PROVE  At!Returned(v) \in Result /\ At!Thrown \in Result
  BY DEF At!Returned, At!Thrown, Result

LEMMA InitTypeInv == Init => TypeInv
<1> SUFFICES ASSUME Init PROVE TypeInv
  OBVIOUS
<1>1. Adders = {} /\ Pending = {}
  BY DEF Init, Adders, Pending, NoCall
<1>2. IsFiniteSet({}) /\ Cardinality({}) = 0
  BY FS_EmptySet
<1>3. At!Returned({}) \in Result
  BY ReturnedTyped
<1> QED
  BY <1>1, <1>2, <1>3 DEF Init, TypeInv, Held, At!NoRows

\* Add() takes the next id, the other calls none.
LEMMA EffectIds ==
  ASSUME NEW r, Numbered(r), NEW c \in At!Calls
  PROVE  At!Effect(r, c).ids = IF c.op = "Add" THEN r.ids + 1 ELSE r.ids
<1>1. PICK f, k, ps : r = [companies |-> f, ids |-> k, prices |-> ps]
  BY DEF Numbered
<1> USE <1>1 DEF At!Effect
<1>2. CASE c.op = "Add"
  BY <1>2 DEF At!Add
<1>3. CASE c.op = "SetLogoByID"
  BY <1>3 DEF At!SetLogoByID
<1>4. CASE c.op = "RemoveByRowID"
  BY <1>4 DEF At!RemoveByRowID
<1>5. CASE c.op = "AddPrice"
  BY <1>5 DEF At!AddPrice
<1>6. CASE c.op = "RemoveAllByCompanyRowID"
  BY <1>6 DEF At!RemoveAllByCompanyRowID
<1>7. CASE c.op \notin {"Add", "SetLogoByID", "RemoveByRowID", "AddPrice", "RemoveAllByCompanyRowID"}
  BY <1>7
<1> QED
  BY <1>2, <1>3, <1>4, <1>5, <1>6, <1>7

\* What the connection sees is committed, or that with the call of one thread that is
\* about to commit it.
LEMMA RowsAre ==
  ASSUME IInv
  PROVE  rows = saved \/ \E t \in Threads : pc[t] = "commit" /\ call[t] \in At!Calls
                                            /\ rows = At!Effect(saved, call[t])
  BY DEF IInv, OpenInv, RowsInv, CallsInv, InTransaction

LEMMA RowsTyped ==
  ASSUME IInv, IdsInv, TypeInv
  PROVE  At!RowsType(saved) /\ At!RowsType(rows)
<1>1. Numbered(saved) /\ saved.ids \in Nat
  BY DEF IdsInv, Numbered
<1>2. IsFiniteSet(Pending)
  BY FS_Subset DEF TypeInv, Pending
<1>3. Cardinality(Pending) \in Nat
  BY <1>2, FS_CardinalityType
<1>4. At!RowsType(saved)
  BY <1>1, <1>3 DEF TypeInv, At!RowsType, Numbered
<1>5. CASE rows = saved
  BY <1>4, <1>5
<1>6. CASE rows # saved
  <2>1. PICK t \in Threads : /\ pc[t] = "commit" /\ call[t] \in At!Calls
                             /\ rows = At!Effect(saved, call[t])
    BY <1>6, RowsAre
  <2> DEFINE c == call[t]
  <2>2. /\ Numbered(rows)
        /\ \A p \in rows.prices :
             p \in saved.prices \/ (c.op = "AddPrice" /\ p = [company |-> c.id, of |-> c.of])
    BY <1>1, <2>1, EffectKeeps
  <2>3. rows.ids = IF c.op = "Add" THEN saved.ids + 1 ELSE saved.ids
    BY <1>1, <2>1, EffectIds
  <2>4. rows.ids <= MaxIds
    <3>1. CASE c.op = "Add"
      <4>1. t \in Pending
        BY <2>1, <3>1 DEF Pending, Adders
      <4>2. Cardinality(Pending) # 0
        BY <1>2, <4>1, FS_EmptySet
      <4> QED
        BY <1>1, <1>3, <2>3, <3>1, <4>2 DEF TypeInv
    <3>2. CASE c.op # "Add"
      BY <1>1, <1>3, <2>3, <3>2 DEF TypeInv
    <3> QED
      BY <3>1, <3>2
  <2>5. c.op = "AddPrice" => [company |-> c.id, of |-> c.of] \in [company : 1..MaxIds, of : Uuids]
    BY <2>1 DEF At!Calls
  <2>6. rows.prices \subseteq [company : 1..MaxIds, of : Uuids]
    BY <2>2, <2>5 DEF TypeInv
  <2> QED
    BY <1>4, <2>2, <2>4, <2>6 DEF At!RowsType, Numbered
<1> QED
  BY <1>5, <1>6

\* Add() is only called when its id is within the bound.
LEMMA CallTypeInv ==
  ASSUME IInv, IdsInv, DepthInv, TypeInv, NEW t \in Threads, Call(t)
  PROVE  TypeInv'
<1>1. PICK c \in At!Calls :
        /\ MayCall(t, c) /\ call' = [call EXCEPT ![t] = c]
        /\ pc' = [pc EXCEPT ![t] = IF c.op = "AddPrice" THEN "lock_again" ELSE "lock"]
  BY DEF Call, Goto
<1>2. pc[t] = "idle" /\ UNCHANGED <<rows, saved, held, last>>
  BY DEF Call
<1>3. pc \in [Threads -> Label] /\ DOMAIN call = Threads
  BY DEF IInv, Shape
<1>4. t \notin Adders
  BY <1>2 DEF DepthInv, Adders, NoCall
<1>5. IsFiniteSet(Adders) /\ IsFiniteSet(Pending) /\ Cardinality(Pending) <= Cardinality(Adders)
  BY FS_Subset DEF TypeInv, Pending
<1>6. Cardinality(Adders) \in Nat /\ Cardinality(Pending) \in Nat
  BY <1>5, FS_CardinalityType
<1>7. CASE c.op = "Add"
  <2>1. Adders' = Adders \cup {t} /\ Pending' = Pending \cup {t}
    BY <1>1, <1>3, <1>7 DEF Adders, Pending
  <2>2. IsFiniteSet(Adders') /\ Cardinality(Pending') <= Cardinality(Pending) + 1
    <3>1. IsFiniteSet(Adders \cup {t})
      BY <1>5, FS_AddElement
    <3>2. Cardinality(Pending \cup {t}) \in {Cardinality(Pending), Cardinality(Pending) + 1}
      BY <1>5, FS_AddElement
    <3>3. \A n \in Nat : \A k \in {n, n + 1} : k <= n + 1
      OBVIOUS
    <3>4. Cardinality(Pending \cup {t}) <= Cardinality(Pending) + 1
      BY <1>6, <3>2, <3>3
    <3> QED
      BY <2>1, <3>1, <3>4
  <2>3. rows.ids + Cardinality(Adders) < MaxIds
    BY <1>1, <1>7 DEF MayCall, Adders
  <2>4. saved.ids \in Nat /\ rows.ids \in Nat /\ saved.ids <= rows.ids
    <3>1. Numbered(saved) /\ saved.ids \in Nat
      BY DEF IdsInv, Numbered
    <3> QED
      BY <3>1, RowsAre, EffectIds
  <2>5. Cardinality(Pending') \in Nat
    <3>1. IsFiniteSet(Pending')
      BY <1>5, <2>1, FS_AddElement
    <3> QED
      BY <3>1, FS_CardinalityType
  <2> QED
    BY <1>2, <1>5, <1>6, <2>2, <2>3, <2>4, <2>5 DEF TypeInv
<1>8. CASE c.op # "Add"
  <2>1. Adders' = Adders
    BY <1>1, <1>3, <1>4, <1>8 DEF Adders
  <2>2. Pending' = Pending
    BY <1>1, <1>3, <1>4, <2>1 DEF Pending
  <2> QED
    BY <1>2, <2>1, <2>2 DEF TypeInv
<1> QED
  BY <1>7, <1>8

\* The steps that leave the committed rows alone, and lead no thread that is unlocking
\* elsewhere but out of its call.
LEMMA SameTypeInv ==
  ASSUME IInv, IdsInv, TypeInv, UNCHANGED saved,
         Adders' \subseteq Adders, Pending' \subseteq Pending,
         held' \in [Threads -> Held], last' \in [Threads -> Result]
  PROVE  TypeInv'
<1>1. IsFiniteSet(Adders') /\ IsFiniteSet(Pending)
  BY FS_Subset DEF TypeInv, Pending
<1>2. IsFiniteSet(Pending') /\ Cardinality(Pending') <= Cardinality(Pending)
  BY <1>1, FS_Subset
<1>3. Cardinality(Pending) \in Nat /\ Cardinality(Pending') \in Nat /\ saved.ids \in Nat
  BY <1>1, <1>2, FS_CardinalityType DEF IdsInv, Numbered
<1> QED
  BY <1>1, <1>2, <1>3 DEF TypeInv

\* A query returns ids and logos of the committed rows.
LEMMA QueryTypeInv ==
  ASSUME IInv, IdsInv, TypeInv, NEW t \in Threads, Query(t)
  PROVE  TypeInv'
<1> DEFINE c == call[t]
           found == At!Found(rows, c)
<1>1. rows = saved /\ UNCHANGED <<saved, call>> /\ At!RowsType(saved)
  BY NobodyElse, RowsTyped DEF Query, Inside, InTransaction
<1>2. pc[t] = "query" /\ pc' = [pc EXCEPT ![t] = "unlock"]
  BY DEF Query, Throw, Goto
<1>3. c \in At!Calls
  BY <1>2 DEF IInv, CallsInv
<1>4. found \subseteq 1..MaxIds \cup Logos
  <2>1. DOMAIN saved.companies \subseteq 1..MaxIds
    BY <1>1 DEF At!RowsType
  <2>2. \A i \in DOMAIN saved.companies : saved.companies[i].logo \in Logos
    BY <1>1 DEF At!RowsType, At!Row
  <2>3. CASE c.op \in {"GetRowID", "IsUUIDPresent"}
    <3>1. found = At!Ids(saved, c.of)
      BY <1>1, <2>3 DEF At!Found
    <3> HIDE DEF found
    <3> QED
      BY <2>1, <3>1 DEF At!Ids
  <2>4. CASE c.op = "GetLogoByRowID"
    <3>1. found = {saved.companies[i].logo : i \in DOMAIN saved.companies \cap {c.id}}
      BY <1>1, <2>4 DEF At!Found
    <3> HIDE DEF found
    <3> QED
      BY <2>2, <3>1
  <2>5. CASE c.op \notin {"GetRowID", "IsUUIDPresent", "GetLogoByRowID"}
    <3>1. found = {}
      BY <2>5 DEF At!Found
    <3> QED
      BY <3>1
  <2> QED
    BY <2>3, <2>4, <2>5
<1>5. At!Returned(found) \in Result /\ At!Thrown \in Result
  BY <1>4, ReturnedTyped
<1>6. last' \in [Threads -> Result]
  <2>1. last' = [last EXCEPT ![t] = At!Returned(found)] \/ last' = [last EXCEPT ![t] = At!Thrown]
    BY DEF Query, Throw
  <2> HIDE DEF found
  <2> QED
    BY <1>5, <2>1 DEF TypeInv
<1>7. held' \in [Threads -> Held]
  <2>1. CASE held' = held
    BY <2>1 DEF TypeInv
  <2>2. CASE held' # held
    <3>1. /\ c.op = "GetRowID" /\ found # {}
          /\ held' = [held EXCEPT ![t] = [id |-> CHOOSE i \in found : TRUE, of |-> c.of]]
      BY <2>2 DEF Query, At!MustThrow
    <3> DEFINE i == CHOOSE j \in found : TRUE
    <3>2. i \in found
      BY <3>1
    <3>3. found = At!Ids(saved, c.of)
      BY <1>1, <3>1 DEF At!Found
    <3>4. c.of \in Uuids
      BY <1>3, <3>1 DEF At!Calls
    <3> HIDE DEF i, found
    <3>5. i \in 1..MaxIds
      BY <1>1, <3>2, <3>3 DEF At!Ids, At!RowsType
    <3>6. held' = [held EXCEPT ![t] = [id |-> i, of |-> c.of]]
      BY <3>1 DEF i
    <3> HIDE DEF c
    <3> QED
      BY <3>4, <3>5, <3>6 DEF TypeInv, Held
  <2> QED
    BY <2>1, <2>2
<1>8. Adders' = Adders /\ Pending' \subseteq Pending
  BY <1>1, <1>2 DEF Adders, Pending, IInv, Shape
<1> QED
  BY <1>1, <1>6, <1>7, <1>8, SameTypeInv

\* Locks and the beginning, execution and failure of a transaction.
LEMMA RestTypeInv ==
  ASSUME IInv, IdsInv, TypeInv, NEW t \in Threads,
         Lock(t) \/ LockAgain(t) \/ Unlock(t) \/ Begin(t) \/ Exec(t) \/ (Commit(t) /\ Fail(t))
  PROVE  TypeInv'
<1>1. UNCHANGED <<saved, held>>
  BY DEF Lock, LockAgain, Acquire, Unlock, Begin, Exec, Commit, Fail
<1>2. last' \in [Threads -> Result]
  <2>1. last' = last \/ last' = [last EXCEPT ![t] = At!Thrown]
    BY DEF Lock, LockAgain, Acquire, Unlock, Begin, Exec, Commit, Fail, Throw
  <2>2. At!Thrown \in Result
    BY ReturnedTyped
  <2> QED
    BY <2>1, <2>2 DEF TypeInv
<1>3. pc \in [Threads -> Label] /\ DOMAIN call = Threads
  BY DEF IInv, Shape
<1>4. CASE Unlock(t)
  <2>1. pc[t] = "unlock"
    BY <1>4 DEF Unlock
  <2>2. \/ UNCHANGED <<pc, call>>
        \/ pc' = [pc EXCEPT ![t] = "idle"] /\ call' = [call EXCEPT ![t] = NoCall]
    BY <1>4 DEF Unlock, Goto
  <2>3. Adders' \subseteq Adders /\ Pending' \subseteq Pending
    BY <1>3, <2>1, <2>2 DEF Adders, Pending, NoCall
  <2> QED
    BY <1>1, <1>2, <2>3, SameTypeInv DEF TypeInv
<1>5. CASE ~Unlock(t)
  <2>1. UNCHANGED call /\ pc[t] # "unlock" /\ \A u \in Threads : u # t => pc'[u] = pc[u]
    BY <1>3, <1>5 DEF Lock, LockAgain, Acquire, Begin, Exec, Commit, Fail, Throw, Goto
  <2>2. Adders' \subseteq Adders /\ Pending' \subseteq Pending
    BY <1>3, <2>1 DEF Adders, Pending
  <2> QED
    BY <1>1, <1>2, <2>2, SameTypeInv DEF TypeInv
<1> QED
  BY <1>4, <1>5

\* A commit of Add() takes one id, and the thread is no longer waiting for one.
LEMMA CommitTypeInv ==
  ASSUME IInv, IdsInv, TypeInv, NEW t \in Threads, Commit(t), ~Fail(t)
  PROVE  TypeInv'
<1> DEFINE c == call[t]
<1>1. /\ pc[t] = "commit" /\ saved' = rows /\ pc' = [pc EXCEPT ![t] = "unlock"]
      /\ last' = [last EXCEPT ![t] = At!Returned({})] /\ UNCHANGED <<call, held>>
  BY DEF Commit, Goto
<1>2. rows = At!Effect(saved, c) /\ c \in At!Calls /\ pc \in [Threads -> Label]
  BY <1>1 DEF IInv, RowsInv, CallsInv, Shape
<1>3. Numbered(saved) /\ saved.ids \in Nat
  BY DEF IdsInv, Numbered
<1>4. saved'.ids = IF c.op = "Add" THEN saved.ids + 1 ELSE saved.ids
  BY <1>1, <1>2, <1>3, EffectIds
<1>5. Adders' = Adders /\ Pending' = Pending \ {t}
  BY <1>1, <1>2 DEF Adders, Pending
<1>6. IsFiniteSet(Pending) /\ Cardinality(Pending) \in Nat
  <2>1. IsFiniteSet(Pending)
    BY FS_Subset DEF TypeInv, Pending
  <2> QED
    BY <2>1, FS_CardinalityType
<1>7. saved'.ids + Cardinality(Pending') <= MaxIds
  <2>1. Cardinality(Pending \ {t}) = IF t \in Pending THEN Cardinality(Pending) - 1
                                     ELSE Cardinality(Pending)
    BY <1>6, FS_RemoveElement
  <2>2. t \in Pending <=> c.op = "Add"
    BY <1>1 DEF Pending, Adders
  <2>3. saved.ids + Cardinality(Pending) <= MaxIds
    BY DEF TypeInv
  <2> HIDE DEF c
  <2>4. CASE c.op = "Add"
    BY <1>3, <1>4, <1>5, <1>6, <2>1, <2>2, <2>3, <2>4
  <2>5. CASE c.op # "Add"
    BY <1>3, <1>4, <1>5, <1>6, <2>1, <2>2, <2>3, <2>5
  <2> QED
    BY <2>4, <2>5
<1>8. saved'.prices \subseteq [company : 1..MaxIds, of : Uuids]
  BY <1>1, RowsTyped DEF At!RowsType
<1>9. last' \in [Threads -> Result]
  BY <1>1, ReturnedTyped DEF TypeInv
<1> QED
  BY <1>1, <1>5, <1>7, <1>8, <1>9 DEF TypeInv

LEMMA NextTypeInv == IInv /\ IdsInv /\ DepthInv /\ TypeInv /\ [Next]_vars => TypeInv'
<1>1. TypeInv /\ UNCHANGED vars => TypeInv'
  BY DEF vars, TypeInv, Adders, Pending
<1> QED
  BY <1>1, CallTypeInv, QueryTypeInv, RestTypeInv, CommitTypeInv DEF Next, Step

LEMMA TypeFromInv == IInv /\ IdsInv /\ DepthInv /\ TypeInv => TypeOK
<1> SUFFICES ASSUME IInv, IdsInv, DepthInv, TypeInv PROVE TypeOK
  OBVIOUS
<1>1. At!RowsType(rows) /\ At!RowsType(saved)
  BY RowsTyped
<1>2. open \in Threads \cup {NoThread}
  BY DEF IInv, OpenInv
<1>3. /\ owner \in [Mutexes -> Threads \cup {NoThread}] /\ pc \in [Threads -> Label]
      /\ call \in [Threads -> At!Calls \cup {NoCall}]
  BY DEF IInv, Shape
<1>4. depth["static"] \in 0..2 /\ (owner["static"] = NoThread <=> depth["static"] = 0)
  BY DEF DepthInv, Inside, Locks
<1>5. \A m \in Mutexes : depth[m] \in 0..2 /\ (owner[m] = NoThread <=> depth[m] = 0)
  BY <1>4 DEF DepthInv, Mutexes
<1>6. \A t \in Threads : pc[t] = "idle" <=> call[t] = NoCall
  <2>1. NoCall \notin At!Calls
    BY DEF NoCall, At!Calls
  <2> QED
    BY <2>1 DEF DepthInv, IInv, CallsInv
<1>7. depth \in [Mutexes -> 0..2]
  <2>1. depth = [m \in Mutexes |-> depth[m]]
    BY DEF DepthInv
  <2> QED
    BY <1>5, <2>1
<1> QED
  BY <1>1, <1>2, <1>3, <1>5, <1>6, <1>7 DEF TypeOK, TypeInv, Held, Result

\* Every variable keeps its type: no id exceeds those that were given, a mutex is owned as
\* long as it is locked, and it is locked twice at most.
THEOREM TypeCorrect == Spec => []TypeOK
<1>1. IInv /\ IdsInv /\ DepthInv /\ TypeInv /\ [Next]_vars
        => IInv' /\ IdsInv' /\ DepthInv' /\ TypeInv'
  BY NextIInv, NextIdsInv, NextDepthInv, NextTypeInv
<1> QED
  BY <1>1, InitIInv, InitIdsInv, InitDepthInv, InitTypeInv, TypeFromInv, PTL DEF Spec

=============================================================================
