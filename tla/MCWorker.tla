------------------------------- MODULE MCWorker -------------------------------
(* A worker with two gRPC threads and two companies to update. *)
EXTENDS Worker

CONSTANTS h1, h2

TwoHandlers == {h1, h2}

=============================================================================
