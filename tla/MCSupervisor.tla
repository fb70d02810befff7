---------------------------- MODULE MCSupervisor ----------------------------
(* Small instances of Supervisor: launches and process ids are model values. *)
EXTENDS Supervisor, TLC

CONSTANTS l1, l2, p1, p2, p3

OneLaunch == {l1}
TwoLaunches == {l1, l2}
TwoPids == {p1, p2}
ThreePids == {p1, p2, p3}

Stops == {"TERM", "INT"}
TermOnly == {"TERM"}

\* Launches and process ids are interchangeable in safety runs.
Symmetry == Permutations(Launches) \cup Permutations(Pids)

=============================================================================
