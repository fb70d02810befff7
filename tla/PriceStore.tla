------------------------------ MODULE PriceStore ------------------------------
(***************************************************************************)
(* What the database of the daemon promises to whoever reads it: companies *)
(* that were seen and, for each, how many prices were recorded.  Nothing   *)
(* is ever forgotten, except that a file of another version is wiped.      *)
(* DBManager implements it (src/Daemon/db, Controller::UpdatePrices).      *)
(***************************************************************************)
EXTENDS Naturals

CONSTANTS
  Companies   \* the uuids a company can have

VARIABLES
  mayWipe,    \* whether the store may lose everything at once, which never changes
  known,      \* the companies of the store
  quotes      \* the number of prices of each company

storeVars == <<mayWipe, known, quotes>>

Empty == [c \in Companies |-> 0]

StoreType ==
  /\ mayWipe \in BOOLEAN
  /\ known \subseteq Companies
  /\ quotes \in [Companies -> Nat]

StoreInit == StoreType

\* A company is added once; adding it again changes nothing.
Learn(c) ==
  /\ known' = known \cup {c}
  /\ UNCHANGED quotes

\* A price is recorded for a company of the store.
Record(c) ==
  /\ c \in known
  /\ quotes' = [quotes EXCEPT ![c] = @ + 1]
  /\ UNCHANGED known

Wipe ==
  /\ mayWipe
  /\ known' = {}
  /\ quotes' = Empty

StoreNext ==
  /\ Wipe \/ \E c \in Companies : Learn(c) \/ Record(c)
  /\ UNCHANGED mayWipe

StoreSpec == StoreInit /\ [][StoreNext]_storeVars

=============================================================================
