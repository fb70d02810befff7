--------------------------- MODULE HTTPTransaction ---------------------------
(***************************************************************************)
(* One object of the class HTTPTransaction: it is constructed with a       *)
(* request, Perform() runs a libcurl transfer that calls back for the CA   *)
(* bundle, the data to upload, and the header lines and the body of the    *)
(* answers, and PerformGet() is a construction, one Perform() and a look   *)
(* at the status.  The daemon only uses PerformGet(); uploads, bundles and *)
(* repeated calls of Perform() are what else the class offers.             *)
(* libcurl and the server are external: they follow redirects, answer once *)
(* they have the whole upload, and may fail at any point.                  *)
(*                                                                         *)
(* Code: src/Daemon/common_utils/http_transaction.cpp                      *)
(***************************************************************************)
EXTENDS HTTPTypes, Sequences

CONSTANTS
  Requests,     \* the transactions there are, records of type Request
  HeaderNames,  \* names of headers an answer may have
  Statuses,     \* status codes of the final answer
  MaxRead,      \* the most blocks libcurl asks for in one read callback
  BodySize,     \* blocks of the body of an answer
  MaxHops,      \* bound: answers of all transfers
  MaxPerforms   \* bound: calls of Perform()

VARIABLES
  request,    \* what the object was constructed with
  stage,      \* where construction, transfer or life of the object is
  pos,        \* tellg() of the stream to upload, in blocks
  bundleRead, \* the stream of the CA bundle is at its end
  sent,       \* blocks the server got in this transfer
  head,       \* responseHeadersData: for each answer its number and headers
  headers,    \* response.headers: the answer each value comes from
  hop,        \* number of the current answer, and of the answers so far
  last,       \* status and headers of the current answer
  body,       \* response.data: answer and block number of each block
  got,        \* blocks of the current answer's body
  status,     \* response.status_code
  completed,
  performs,
  code,       \* history: the result of the last transfer
  result      \* what the last call did: "none" while it runs, "returned" or thrown

response == <<headers, body, status, completed>>
transfer == <<sent, head, hop, last, got>>
vars == <<request, stage, pos, bundleRead, transfer, response, performs, code, result>>

-----------------------------------------------------------------------------
Bundles == {"none", "certificates", "empty", "unreadable"}

\* get: PerformGet() makes the transaction; position: of the caller's stream.
Request == [get : BOOLEAN, upload : Nat, position : Nat, bundle : Bundles, timeout : Nat]

GetRequest == [get |-> TRUE, upload |-> 0, position |-> 0, bundle |-> "none", timeout |-> 0]

ASSUME HTTPTransactionAssumption ==
  /\ Requests \subseteq Request
  /\ \A r \in Requests : r.position <= r.upload /\ (r.get => r = GetRequest)
  /\ {MaxRead, BodySize, MaxHops, MaxPerforms} \subseteq Nat \ {0}
  /\ Statuses \subseteq 200..599

NoAnswer == [status |-> 0, names |-> {}]

Performing == stage \in {"connect", "send", "await", "receive"}

Init ==
  /\ request \in Requests
  /\ stage = "new" /\ pos = request.position /\ bundleRead = FALSE
  /\ sent = <<>> /\ head = <<>> /\ hop = 0 /\ last = NoAnswer /\ got = 0
  /\ headers = [n \in {} |-> 0] /\ body = <<>> /\ status = 204 /\ completed = FALSE
  /\ performs = 0 /\ code = "ok" /\ result = "none"

\* The size is found by a seek to the end, and one back to the beginning.
CalculateUploadDataSize == pos' = 0

\* An option that cannot be set makes InitConnection() throw.
Construct ==
  /\ stage = "new"
  /\ CalculateUploadDataSize
  /\ \/ stage' = "idle" /\ UNCHANGED result
     \/ stage' = "gone" /\ result' = "HTTPException"
  /\ UNCHANGED <<request, bundleRead, transfer, response, performs, code>>

\* A failed transfer may be tried again: nothing is rewound or cleared.
Perform ==
  /\ stage = "idle" /\ performs < MaxPerforms
  /\ performs' = performs + 1
  /\ IF completed
     THEN result' = Leaves("HTTPException") /\ UNCHANGED <<stage, sent>>
     ELSE stage' = "connect" /\ sent' = <<>> /\ result' = "none"
  /\ UNCHANGED <<request, pos, bundleRead, head, hop, last, got, response, code>>

-----------------------------------------------------------------------------
(* The end of curl_easy_perform() and the rest of Perform(). *)

\* emplace() keeps a value that is there: the earliest answer wins.
ParseResponseHeaders ==
  headers' = [n \in UNION {head[i].names : i \in DOMAIN head} |->
                LET first == CHOOSE i \in DOMAIN head :
                               /\ n \in head[i].names
                               /\ \A j \in 1..(i - 1) : n \notin head[j].names
                IN head[first].hop]

\* PerformGet() destroys the transaction, and throws unless the status is 2xx.
EndTransfer(c) ==
  /\ code' = c
  /\ stage' = IF request.get THEN "gone" ELSE "idle"
  /\ IF Verdict(c) = "returned"
     THEN /\ ParseResponseHeaders
          /\ head' = <<>> /\ status' = last.status /\ completed' = TRUE
          /\ result' = IF request.get /\ ~Succeeds(last.status)
                       THEN "HTTPException" ELSE "returned"
     ELSE /\ result' = Leaves(Verdict(c))
          /\ UNCHANGED <<head, headers, status, completed>>

\* CURLOPT_TIMEOUT bounds the transfer as a whole, redirects included.
TimesOut ==
  /\ Performing /\ ReadTimeout(request.timeout) # 0
  /\ EndTransfer("operation_timedout")
  /\ UNCHANGED <<request, pos, bundleRead, sent, hop, last, body, got, performs>>

\* What else goes wrong on the way.  Without a bundle nothing is verified.
ErrorsOf(s) ==
  CASE s = "connect" -> {"couldnt_resolve_host", "couldnt_connect", "ssl_cipher"}
                          \cup (IF request.bundle = "none" THEN {} ELSE {"ssl_cacert"})
    [] s = "send"    -> {"send_error"}
    [] s = "await"   -> {"recv_error", "got_nothing", "send_fail_rewind"}
    [] s = "receive" -> {"recv_error", "partial_file"}

Breaks ==
  /\ Performing
  /\ \E c \in ErrorsOf(stage) : EndTransfer(c)
  /\ UNCHANGED <<request, pos, bundleRead, sent, hop, last, body, got, performs>>

-----------------------------------------------------------------------------
(* The transfer and its callbacks. *)

\* The stream is read from where the previous connection left it.
BundleAtBegin_NotRewound == ~bundleRead
BundleAtBegin == TRUE

\* Reading a broken stream throws, and a bundle without an entry is refused.
Process_SSL_CTX ==
  IF request.bundle = "unreadable" THEN "ssl_certproblem"
  ELSE IF request.bundle = "certificates" /\ BundleAtBegin THEN "ok"
  ELSE "ssl_cacert_badfile"

Begun == IF request.upload = 0 THEN "await" ELSE "send"

\* Every connection calls SSL_CTX_Callback; std::bad_alloc may end it as well.
Connect ==
  /\ stage = "connect"
  /\ IF request.bundle = "none"
     THEN stage' = Begun /\ UNCHANGED <<bundleRead, head, response, code, result>>
     ELSE /\ bundleRead' = TRUE
          /\ \E c \in {Process_SSL_CTX, "out_of_memory"} :
               IF c = "ok"
               THEN stage' = Begun /\ UNCHANGED <<head, response, code, result>>
               ELSE EndTransfer(c) /\ UNCHANGED body
  /\ UNCHANGED <<request, pos, sent, hop, last, got, performs>>

\* The last block is read past the end of the data.
Read_Whole == MaxRead
Read == IF request.upload - pos > MaxRead THEN MaxRead ELSE request.upload - pos

\* ReadCallback; an empty read ends the upload.
Send ==
  /\ stage = "send"
  /\ pos' = pos + Read
  /\ sent' = sent \o [i \in 1..Read |-> pos + i]
  /\ stage' = IF Read = 0 \/ Len(sent') >= request.upload THEN "await" ELSE "send"
  /\ UNCHANGED <<request, bundleRead, head, hop, last, got, response, performs, code, result>>

\* HeaderCallback for the lines of an answer.  The server was told the size of
\* the upload and waits for all of it, or refuses it before.
Answered(s, names) ==
  /\ \/ stage = "await" /\ Len(sent) >= request.upload
     \/ stage \in {"send", "await"} /\ s >= 400
  /\ hop < MaxHops
  /\ hop' = hop + 1
  /\ last' = [status |-> s, names |-> names]
  /\ head' = Append(head, [hop |-> hop', names |-> names])
  /\ got' = 0

AnswerBegins ==
  /\ \E s \in Statuses, names \in SUBSET HeaderNames : Answered(s, names)
  /\ stage' = "receive"
  /\ UNCHANGED <<request, pos, bundleRead, sent, response, performs, code, result>>

\* libcurl skips the body and connects again.  An upload is not sent again, for
\* libcurl was given no function to rewind it (send_fail_rewind).
Redirect ==
  /\ \E names \in SUBSET HeaderNames : Answered(302, names)
  /\ request.upload = 0
  /\ stage' = "connect"
  /\ UNCHANGED <<request, pos, bundleRead, sent, response, performs, code, result>>

\* WriteCallback.
Receive ==
  /\ stage = "receive" /\ got < BodySize
  /\ got' = got + 1
  /\ body' = Append(body, [hop |-> hop, block |-> got'])
  /\ UNCHANGED <<request, stage, pos, bundleRead, sent, head, hop, last, headers,
                 status, completed, performs, code, result>>

Finish ==
  /\ stage = "receive" /\ got = BodySize
  /\ EndTransfer("ok")
  /\ UNCHANGED <<request, pos, bundleRead, sent, hop, last, body, got, performs>>

-----------------------------------------------------------------------------
Next ==
  \/ Construct \/ Perform
  \/ Connect \/ Send \/ AnswerBegins \/ Redirect \/ Receive \/ Finish
  \/ TimesOut \/ Breaks

Spec == Init /\ [][Next]_vars

\* libcurl keeps its own time; of the server nothing is assumed.
FairSpec == Spec /\ WF_vars(TimesOut)

-----------------------------------------------------------------------------
(* Properties. *)

\* The type of the state.
TypeOK ==
  /\ request \in Requests
  /\ stage \in {"new", "idle", "connect", "send", "await", "receive", "gone"}
  /\ pos \in 0..request.upload /\ bundleRead \in BOOLEAN
  /\ hop \in 0..MaxHops /\ got \in 0..BodySize /\ performs \in 0..MaxPerforms
  /\ last.status \in Statuses \cup {0, 302} /\ last.names \subseteq HeaderNames
  /\ DOMAIN headers \subseteq HeaderNames
  /\ \A n \in DOMAIN headers : headers[n] \in 1..hop
  /\ completed \in BOOLEAN
  /\ result \in {"none", "returned"} \cup HTTPExceptions

\* PerformGet() returns the body of a final answer with status 2xx, all of it and
\* nothing else, whatever redirects came before and wherever the connection broke.
\* Of a transaction that was tried again, the answer is the end of the data: the
\* data of the failed attempt stays in front of it.  Every header of that answer is
\* among the reported ones, though with the value a redirect may have given it.
WholeBody == [i \in 1..BodySize |-> [hop |-> hop, block |-> i]]

AnswerIsWhole ==
  /\ completed => /\ Len(body) >= BodySize
                  /\ SubSeq(body, Len(body) - BodySize + 1, Len(body)) = WholeBody
                  /\ performs = 1 => body = WholeBody
                  /\ last.names \subseteq DOMAIN headers
  /\ request.get /\ result = "returned" => completed /\ Succeeds(status)

\* The server gets the blocks of the upload in order, each once, never past the
\* end of the data, and a transaction only succeeds when it got them all: after a
\* failed attempt the stream stands where that attempt left it, so the next one
\* sends too little and cannot succeed.
UploadInOrder ==
  /\ \A i \in DOMAIN sent : sent[i] <= request.upload
  /\ \A i \in DOMAIN sent : i > 1 => sent[i] = sent[i - 1] + 1
  /\ completed /\ Succeeds(status) => sent = [i \in 1..request.upload |-> i]

\* A bundle that has certificates is never reported as bad, on the second
\* connection of a redirect or of another attempt either.
GoodBundleIsAccepted == request.bundle = "certificates" => code # "ssl_cacert_badfile"

\* A call of Perform() comes to its end however silent the server is, and a loop
\* of redirects with it: no caller can ask for no timeout.
PerformEnds == Performing ~> ~Performing

=============================================================================
