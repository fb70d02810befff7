------------------------------- MODULE MCTables -------------------------------
(* Two threads and two companies.                                            *)
EXTENDS Tables, TLC

CONSTANTS t1, t2, aapl, fb, logo

TwoThreads == {t1, t2}
TwoUuids == {aapl, fb}
OneLogo == {logo}

AnyThread == Permutations(TwoThreads)

=============================================================================
