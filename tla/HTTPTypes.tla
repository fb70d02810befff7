------------------------------ MODULE HTTPTypes ------------------------------
(***************************************************************************)
(* What the HTTP layer of the daemon and its callers share: the exceptions *)
(* and which catch clause takes which of them, the verdict on a result of  *)
(* libcurl, the status codes that count as success and the timeouts.       *)
(*                                                                         *)
(* Code: http_types.h and the macros of http_transaction.cpp in            *)
(* src/Daemon/common_utils                                                 *)
(***************************************************************************)
EXTENDS Naturals

HTTPExceptions == {"HTTPException", "NetworkException", "SSLCertificateException"}

\* "json_parser_error" stands for whatever the parser of an answer throws.
Exceptions == HTTPExceptions \cup {"json_parser_error"}

\* The exception each one derives from.
Parent_AllHTTP(e) == IF e = "SSLCertificateException" THEN "HTTPException" ELSE "std::exception"
Parent(e) ==
  IF e \in {"HTTPException", "SSLCertificateException"}
  THEN "NetworkException" ELSE "std::exception"

\* A clause catch(const c &) takes the exception e.
Catches(c, e) == c \in {e, Parent(e), "std::exception"}

-----------------------------------------------------------------------------
(* What curl_easy_perform() returns, and what Perform() makes of it. *)

NetworkErrors == {"recv_error", "send_error", "couldnt_connect",
                  "couldnt_resolve_host", "operation_timedout"}
CertificateErrors == {"ssl_certproblem", "ssl_cipher", "ssl_cacert", "ssl_cacert_badfile"}

\* Only the errors the two macros list are taken for errors.
Verdict_OnlyListed(code) ==
  IF code \in NetworkErrors THEN "NetworkException"
  ELSE IF code \in CertificateErrors THEN "SSLCertificateException" ELSE "returned"

Verdict(code) ==
  IF code = "ok" THEN "returned"
  ELSE IF code \in NetworkErrors THEN "NetworkException"
  ELSE IF code \in CertificateErrors THEN "SSLCertificateException" ELSE "HTTPException"

\* The catch clauses of Perform(), of which the second rethrows what it caught.
Leaves(e) ==
  IF Catches("SSLCertificateException", e) THEN "SSLCertificateException"
  ELSE IF Catches("NetworkException", e) THEN e ELSE "HTTPException"

Succeeds(status) == 200 <= status /\ status < 300

\* Seconds; to libcurl 0 would mean that there is no limit.
ReadTimeout_AsGiven(seconds) == seconds
ReadTimeout(seconds) == IF seconds = 0 \/ seconds > 300 THEN 60 ELSE seconds

=============================================================================
