-------------------------- MODULE MCHTTPTransaction --------------------------
(* A GET as PerformGet makes it, one with each kind of bundle, and an upload  *)
(* of three blocks from a stream the caller left in the middle.               *)
EXTENDS HTTPTransaction

Plain == [GetRequest EXCEPT !.get = FALSE]
SomeRequests ==
  {GetRequest, [Plain EXCEPT !.upload = 3, !.position = 1, !.timeout = 400]}
    \cup {[Plain EXCEPT !.bundle = b, !.timeout = 10] : b \in Bundles}
SomeNames == {"Date", "Location"}
SomeStatuses == {200, 302, 404}

=============================================================================
