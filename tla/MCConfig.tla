------------------------------- MODULE MCConfig -------------------------------
(* Files a user may have left: complete, of an earlier version without the   *)
(* symbols, and with a timeout that is no number.                            *)
EXTENDS ConfigInFolder

CONSTANTS p1, p2

OneProc == {p1}
TwoProcs == {p1, p2}

UserFile == [value |-> [k \in Scalars |-> "user"], arrays |-> <<"user">>]
UserFiles == {UserFile}
AnyFile ==
  {UserFile,
   [value |-> [k \in Scalars |-> IF k = "port" THEN "user" ELSE "absent"], arrays |-> <<>>],
   [UserFile EXCEPT !.value["update_price_timeout_sec"] = "text"]}

=============================================================================
