------------------------------ MODULE WorkerLife ------------------------------
(***************************************************************************)
(* What a supervisor may expect of the process that has a given id: a      *)
(* worker that is constructed, starts and waits, until it ends.  A worker  *)
(* that has not started yet can only die by a signal, and none ever exits  *)
(* with the status NeedToTerminate.                                        *)
(* Worker implements it with its threads, and Supervisor counts on it.     *)
(***************************************************************************)

VARIABLE life

Endings == {"fault", "signal"}

LifeInit == life \in {"free", "construct"}

Fork == life = "free" /\ life' = "construct"

Proceed ==
  \/ life = "construct" /\ life' = "start"
  \/ life = "start" /\ life' = "wait"

\* The end leaves a zombie; without a parent the process is gone at once.
End ==
  \/ life \in {"construct", "start"} /\ life' \in {"signal", "free"}
  \/ life = "wait" /\ life' \in Endings \cup {"free"}

Reaped == life \in Endings /\ life' = "free"

LifeNext == Fork \/ Proceed \/ End \/ Reaped

LifeSpec == LifeInit /\ [][LifeNext]_life

=============================================================================
