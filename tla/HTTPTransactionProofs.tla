------------------------ MODULE HTTPTransactionProofs ------------------------
(***************************************************************************)
(* HTTPTransaction for all requests, headers, status codes, sizes and      *)
(* numbers of answers and of calls: its types, and what its callers count  *)
(* on about the answer, the upload and the CA bundle.                      *)
(*                                                                         *)
(* None of the three properties is inductive: at the end of a transfer     *)
(* they need what its callbacks kept while it ran.  IInv says, for every   *)
(* stage, which blocks are in the body, which were sent, and that the last *)
(* entry of the list of headers is that of the current answer.             *)
(***************************************************************************)
EXTENDS HTTPTransaction, SequenceTheorems, WellFoundedInduction, TLAPS

Answer == [status : Nat, names : SUBSET HeaderNames]
Entry  == [hop : Nat, names : SUBSET HeaderNames]
Block  == [hop : Nat, block : Nat]

Types ==
  /\ TypeOK
  /\ last \in Answer /\ status \in Nat
  /\ sent \in Seq(Nat) /\ head \in Seq(Entry) /\ body \in Seq(Block)

\* What was reported of an answer that never came, or before the first call.
NotBegun ==
  /\ stage = "new" => sent = <<>> /\ performs = 0
  /\ performs = 0 => ~Performing /\ ~completed /\ body = <<>>

\* The blocks the server has are those before the position of the stream.
SentIsRun ==
  /\ Len(sent) <= pos
  /\ \A i \in 1..Len(sent) : sent[i] = pos - Len(sent) + i

\* An answer that means success is only begun by a server that has the upload.
ServerHasAll ==
  (stage = "receive" \/ completed) /\ Succeeds(last.status) => Len(sent) >= request.upload

HeadInOrder ==
  /\ \A i \in 1..Len(head) : head[i].hop \in 1..hop
  /\ stage = "receive" => Len(head) > 0 /\ head[Len(head)].names = last.names

\* The data ends with the first n blocks of the current answer.
EndsWith(n) ==
  /\ Len(body) >= n
  /\ \A i \in 1..n : body[Len(body) - n + i] = [hop |-> hop, block |-> i]

BodyOfAnswer ==
  /\ stage = "receive" => EndsWith(got)
  /\ completed => EndsWith(BodySize)
  /\ performs = 1 => /\ stage \in {"connect", "send", "await"} => Len(body) = 0
                     /\ stage = "receive" => Len(body) = got
                     /\ completed => Len(body) = BodySize

Completion ==
  /\ completed => ~Performing /\ status = last.status /\ last.names \subseteq DOMAIN headers
  /\ request.get /\ result = "returned" => completed /\ Succeeds(status)

IInv ==
  /\ Types /\ NotBegun /\ SentIsRun /\ ServerHasAll
  /\ HeadInOrder /\ BodyOfAnswer /\ Completion /\ GoodBundleIsAccepted

USE HTTPTransactionAssumption

-----------------------------------------------------------------------------
(* Numbers, exceptions and headers. *)

Less == OpToRel(<, Nat)

LEMMA LessPairs ==
  ASSUME NEW m \in Nat, NEW n \in Nat, m < n
  PROVE  <<m, n>> \in Less
BY DEF Less, OpToRel

\* Each set of numbers has a least one.
LEMMA Least ==
  ASSUME NEW T \in SUBSET Nat, T # {}
  PROVE  \E n \in T : \A m \in T : n <= m
<1>1. IsWellFoundedOn(Less, Nat)  BY NatLessThanWellFounded, Zenon DEF Less
<1>w. ASSUME NEW R, IsWellFoundedOn(R, Nat) PROVE \E n \in T : \A m \in T : ~(<<m, n>> \in R)
  BY <1>w, WFMin, ZenonT(30)
<1>2. PICK n \in T : \A m \in T : ~(<<m, n>> \in Less)  BY <1>1, <1>w
<1>3. ASSUME NEW m \in T PROVE n <= m
  <2>0. m \in Nat /\ n \in Nat /\ <<m, n>> \notin Less  BY <1>2
  <2> HIDE DEF Less
  <2>1. ~(m < n)  BY <2>0, LessPairs
  <2> QED  BY <2>0, <2>1
<1> QED  BY <1>3

\* Whatever Perform() meets leaves it as one of the exceptions of HTTP.
LEMMA LeavesAsHTTP == \A e : Leaves(e) \in HTTPExceptions
BY DEF Leaves, HTTPExceptions, Catches, Parent

LEMMA LeavesNotReturned == \A e : Leaves(e) # "returned" /\ Leaves(e) # "none"
BY LeavesAsHTTP DEF HTTPExceptions

\* The sizes are numbers.
LEMMA Sizes ==
  ASSUME IInv
  PROVE  /\ request.upload \in Nat /\ pos \in 0..request.upload
         /\ hop \in Nat /\ got \in 0..BodySize /\ performs \in Nat
         /\ Len(sent) \in Nat /\ Len(head) \in Nat /\ Len(body) \in Nat
         /\ {MaxRead, BodySize, MaxHops, MaxPerforms} \subseteq Nat \ {0}
<1>1. request \in Requests /\ pos \in 0..request.upload  BY DEF IInv, Types, TypeOK
<1>2. request.upload \in Nat  BY <1>1 DEF Request
<1>3. Len(sent) \in Nat /\ Len(head) \in Nat /\ Len(body) \in Nat
  BY LenProperties DEF IInv, Types
<1> QED  BY <1>1, <1>2, <1>3 DEF IInv, Types, TypeOK

\* The headers reported are those of all answers, each with a value that one of
\* the answers so far gave it.
LEMMA ParsedHeaders ==
  ASSUME head \in Seq(Entry), hop \in Nat, HeadInOrder, ParseResponseHeaders
  PROVE  /\ DOMAIN headers' = UNION {head[i].names : i \in 1..Len(head)}
         /\ \A n \in DOMAIN headers' : headers'[n] \in 1..hop
<1> DEFINE Names == UNION {head[i].names : i \in DOMAIN head}
           First(n, i) == /\ n \in head[i].names
                          /\ \A j \in 1..(i - 1) : n \notin head[j].names
<1>1. DOMAIN head = 1..Len(head)  BY LenProperties
<1>2. headers' = [n \in Names |-> head[CHOOSE i \in DOMAIN head : First(n, i)].hop]
  BY Zenon DEF ParseResponseHeaders
<1>3. ASSUME NEW n \in Names PROVE \E i \in DOMAIN head : First(n, i)
  <2> DEFINE T == {i \in 1..Len(head) : n \in head[i].names}
  <2>1. Len(head) \in Nat  BY LenProperties
  <2>2. T \in SUBSET Nat /\ T # {}  BY <1>1, <2>1
  <2>3. \E i \in T : \A m \in T : i <= m
    <3> HIDE DEF T
    <3> QED  BY <2>2, Least
  <2>p. PICK i \in T : \A m \in T : i <= m  BY <2>3, Zenon
  <2>4. i \in DOMAIN head /\ n \in head[i].names  BY <1>1
  <2>5. ASSUME NEW j \in 1..(i - 1) PROVE n \notin head[j].names
    <3>1. j \in 1..Len(head) /\ ~(i <= j)  BY <2>1, <1>1, <2>4
    <3> QED  BY <3>1, <2>p
  <2> QED  BY <2>4, <2>5
<1>4. ASSUME NEW n \in Names PROVE headers'[n] \in 1..hop
  <2> DEFINE i == CHOOSE i \in DOMAIN head : First(n, i)
  <2>1. i \in DOMAIN head  BY <1>3, Zenon
  <2>2. headers'[n] = head[i].hop  BY <1>2, Zenon
  <2> HIDE DEF i
  <2> QED  BY <2>1, <2>2, <1>1 DEF HeadInOrder
<1>5. DOMAIN headers' = Names  BY <1>2, Zenon
<1>6. Names = UNION {head[i].names : i \in 1..Len(head)}  BY <1>1, Zenon
<1>7. \A n \in DOMAIN headers' : headers'[n] \in 1..hop
  <2> HIDE DEF Names
  <2> QED  BY <1>4, <1>5
<1> HIDE DEF Names
<1> QED  BY <1>5, <1>6, <1>7

-----------------------------------------------------------------------------
(* The initial states, and the end of a transfer. *)

LEMMA InitInv == Init => IInv
<1> SUFFICES ASSUME Init PROVE IInv  OBVIOUS
<1>1. request \in Request  BY DEF Init
<1>2. sent \in Seq(Nat) /\ head \in Seq(Entry) /\ body \in Seq(Block)  BY DEF Init
<1>3. Len(sent) = 0 /\ Len(head) = 0 /\ Len(body) = 0  BY DEF Init
<1>4. DOMAIN headers = {}  BY DEF Init
<1>5. NoAnswer \in Answer  BY DEF NoAnswer, Answer
<1>6. TypeOK
  <2>1. pos \in 0..request.upload  BY <1>1 DEF Init, Request
  <2>2. last.status = 0 /\ last.names = {}  BY DEF Init, NoAnswer
  <2>3. hop \in 0..MaxHops /\ got \in 0..BodySize /\ performs \in 0..MaxPerforms
    BY DEF Init
  <2>4. /\ request \in Requests /\ stage = "new" /\ bundleRead \in BOOLEAN
        /\ completed \in BOOLEAN /\ result = "none"
    BY DEF Init
  <2> QED  BY <2>1, <2>2, <2>3, <2>4, <1>4 DEF TypeOK
<1>7. Types  BY <1>2, <1>5, <1>6 DEF Types, Init
<1>8. SentIsRun  BY <1>1, <1>3 DEF SentIsRun, Init, Request
<1>9. HeadInOrder  BY <1>3 DEF HeadInOrder, Init
<1>10. NotBegun /\ ServerHasAll /\ BodyOfAnswer /\ Completion /\ GoodBundleIsAccepted
  BY DEF Init, NotBegun, Performing, ServerHasAll, BodyOfAnswer, Completion,
         GoodBundleIsAccepted
<1> QED  BY <1>7, <1>8, <1>9, <1>10 DEF IInv

\* However a transfer ends.  It only returns after all of a body was received.
LEMMA EndsInv ==
  ASSUME NEW c, IInv, Performing, EndTransfer(c),
         Verdict(c) = "returned" => stage = "receive" /\ got = BodySize,
         c = "ssl_cacert_badfile" => request.bundle # "certificates",
         UNCHANGED <<request, pos, sent, hop, last, body, got, performs>>,
         bundleRead' \in BOOLEAN
  PROVE  IInv'
<1>1. Types /\ TypeOK /\ HeadInOrder /\ ~completed /\ performs # 0
  BY DEF IInv, Types, Completion, NotBegun
<1>2. stage' \in {"gone", "idle"} /\ ~Performing'  BY DEF EndTransfer, Performing
<1>3. CASE Verdict(c) = "returned"
  <2>1. ParseResponseHeaders /\ head' = <<>> /\ status' = last.status /\ completed'
    BY <1>3 DEF EndTransfer
  <2>2. result' = IF request.get /\ ~Succeeds(last.status) THEN "HTTPException" ELSE "returned"
    BY <1>3 DEF EndTransfer
  <2>3. /\ DOMAIN headers' = UNION {head[i].names : i \in 1..Len(head)}
        /\ \A n \in DOMAIN headers' : headers'[n] \in 1..hop
    <3>1. head \in Seq(Entry) /\ hop \in Nat  BY <1>1 DEF Types, TypeOK
    <3> QED  BY <1>1, <2>1, <3>1, ParsedHeaders
  <2>4. Len(head) \in Nat /\ \A i \in 1..Len(head) : head[i].names \subseteq HeaderNames
    <3>1. Len(head) \in Nat  BY <1>1, LenProperties DEF Types
    <3>2. \A i \in 1..Len(head) : head[i] \in Entry  BY <1>1, ElementOfSeq DEF Types
    <3> QED  BY <3>1, <3>2 DEF Entry
  <2>5. last.names \subseteq DOMAIN headers'
    BY <1>3, <1>1, <2>3, <2>4 DEF HeadInOrder
  <2>6. TypeOK'
    <3>1. DOMAIN headers' \subseteq HeaderNames  BY <2>3, <2>4
    <3>2. result' \in {"none", "returned"} \cup HTTPExceptions  BY <2>2 DEF HTTPExceptions
    <3>3. UNCHANGED <<request, pos, hop, last, got, performs>>  OBVIOUS
    <3>4. completed' \in BOOLEAN /\ stage' \in {"gone", "idle"}  BY <1>2, <2>1
    <3>5. \A n \in DOMAIN headers' : headers'[n] \in 1..hop'  BY <2>3, <3>3
    <3> QED  BY <1>1, <3>1, <3>2, <3>3, <3>4, <3>5 DEF TypeOK
  <2>7. Types'
    <3>1. status' \in Nat  BY <1>1, <2>1 DEF Types, Answer
    <3>2. head' \in Seq(Entry)  BY <2>1
    <3> QED  BY <1>1, <2>6, <3>1, <3>2 DEF Types
  <2>8. HeadInOrder'
    <3>1. Len(head') = 0  BY <2>1
    <3> QED  BY <3>1, <1>2 DEF HeadInOrder
  <2>9. Completion'  BY <1>2, <2>1, <2>2, <2>5 DEF Completion
  <2>10. BodyOfAnswer'
    BY <1>2, <1>3, <1>1 DEF IInv, BodyOfAnswer, EndsWith
  <2>11. NotBegun' /\ SentIsRun' /\ ServerHasAll' /\ GoodBundleIsAccepted'
    BY <1>1, <1>2, <1>3, <2>1
       DEF IInv, NotBegun, SentIsRun, ServerHasAll, GoodBundleIsAccepted, EndTransfer, TypeOK
  <2> QED  BY <2>7, <2>8, <2>9, <2>10, <2>11 DEF IInv
<1>4. CASE Verdict(c) # "returned"
  <2>1. result' = Leaves(Verdict(c)) /\ UNCHANGED <<head, headers, status, completed>>
    BY <1>4 DEF EndTransfer
  <2>2. result' \in HTTPExceptions /\ result' # "returned"
    BY <2>1, LeavesAsHTTP, LeavesNotReturned
  <2>3. Types'  BY <1>1, <1>2, <2>1, <2>2 DEF Types, TypeOK
  <2>4. HeadInOrder' /\ Completion' /\ BodyOfAnswer'
    BY <1>1, <1>2, <2>1, <2>2 DEF HeadInOrder, Completion, BodyOfAnswer
  <2>5. NotBegun' /\ SentIsRun' /\ ServerHasAll' /\ GoodBundleIsAccepted'
    BY <1>1, <1>2, <2>1
       DEF IInv, NotBegun, SentIsRun, ServerHasAll, GoodBundleIsAccepted, EndTransfer
  <2> QED  BY <2>3, <2>4, <2>5 DEF IInv
<1> QED  BY <1>3, <1>4

-----------------------------------------------------------------------------
(* The object, and its transfers that end. *)

LEMMA ConstructInv == IInv /\ Construct => IInv'
<1> SUFFICES ASSUME IInv, Construct PROVE IInv'  OBVIOUS
<1>1. /\ UNCHANGED <<request, bundleRead, sent, head, hop, last, got>>
      /\ UNCHANGED <<headers, body, status, completed, performs, code>>
  BY DEF Construct, transfer, response
<1>2. stage = "new" /\ pos' = 0 /\ stage' \in {"idle", "gone"}
  BY DEF Construct, CalculateUploadDataSize
<1>3. result' = result \/ result' = "HTTPException"  BY DEF Construct
<1>4. sent = <<>> /\ Len(sent) = 0 /\ ~completed /\ ~Performing'
  BY <1>2 DEF IInv, NotBegun, Performing
<1>5. TypeOK'
  <2>1. 0 \in 0..request.upload  BY Sizes
  <2>2. result' \in {"none", "returned"} \cup HTTPExceptions
    BY <1>3 DEF IInv, Types, TypeOK, HTTPExceptions
  <2> QED  BY <1>1, <1>2, <2>1, <2>2 DEF IInv, Types, TypeOK
<1>6. Types'  BY <1>1, <1>5 DEF IInv, Types
<1>7. SentIsRun'  BY <1>1, <1>2, <1>4 DEF SentIsRun
<1>8. HeadInOrder' /\ ServerHasAll' /\ GoodBundleIsAccepted'
  BY <1>1, <1>2, <1>4 DEF IInv, HeadInOrder, ServerHasAll, GoodBundleIsAccepted
<1>9. NotBegun' /\ BodyOfAnswer' /\ Completion'
  BY <1>1, <1>2, <1>3, <1>4 DEF IInv, NotBegun, BodyOfAnswer, Completion
<1> QED  BY <1>6, <1>7, <1>8, <1>9 DEF IInv

\* A first call finds nothing in the data, and a completed transaction stays one.
LEMMA PerformInv == IInv /\ Perform => IInv'
<1> SUFFICES ASSUME IInv, Perform PROVE IInv'  OBVIOUS
<1>1. /\ UNCHANGED <<request, pos, bundleRead, head, hop, last, got>>
      /\ UNCHANGED <<headers, body, status, completed, code>>
  BY DEF Perform, response
<1>2. stage = "idle" /\ performs' = performs + 1 /\ performs \in Nat /\ performs < MaxPerforms
  BY DEF Perform, IInv, Types, TypeOK
<1>3. CASE completed
  <2>1. stage' = stage /\ sent' = sent /\ result' = Leaves("HTTPException")
    BY <1>3 DEF Perform
  <2>2. result' \in HTTPExceptions /\ result' # "returned"
    BY <2>1, LeavesAsHTTP, LeavesNotReturned
  <2>3. performs # 0  BY <1>3 DEF IInv, NotBegun
  <2>4. Types'  BY <1>1, <1>2, <2>1, <2>2 DEF IInv, Types, TypeOK
  <2>5. NotBegun' /\ SentIsRun' /\ ServerHasAll' /\ HeadInOrder'
    BY <1>1, <1>2, <2>1, <2>3 DEF IInv, NotBegun, SentIsRun, ServerHasAll, HeadInOrder
  <2>6. BodyOfAnswer'
    BY <1>1, <1>2, <2>1, <2>3 DEF IInv, BodyOfAnswer, EndsWith
  <2>7. Completion' /\ GoodBundleIsAccepted'
    BY <1>1, <2>1, <2>2, <1>2 DEF IInv, Completion, GoodBundleIsAccepted, Performing
  <2> QED  BY <2>4, <2>5, <2>6, <2>7 DEF IInv
<1>4. CASE ~completed
  <2>1. stage' = "connect" /\ sent' = <<>> /\ result' = "none"  BY <1>4 DEF Perform
  <2>2. sent' \in Seq(Nat) /\ Len(sent') = 0  BY <2>1
  <2>3. Types'  BY <1>1, <1>2, <2>1, <2>2 DEF IInv, Types, TypeOK
  <2>4. SentIsRun'  BY <1>1, <2>1, <2>2 DEF IInv, Types, TypeOK, SentIsRun
  <2>5. performs' # 0 /\ (performs' = 1 => body = <<>>)  BY <1>2 DEF IInv, NotBegun
  <2>6. BodyOfAnswer'
    <3>1. performs' = 1 => Len(body') = 0  BY <2>5, <1>1
    <3> QED  BY <1>1, <1>4, <2>1, <3>1 DEF BodyOfAnswer
  <2>7. NotBegun' /\ ServerHasAll' /\ HeadInOrder' /\ Completion' /\ GoodBundleIsAccepted'
    BY <1>1, <1>4, <2>1, <2>5
       DEF IInv, NotBegun, ServerHasAll, HeadInOrder, Completion, GoodBundleIsAccepted
  <2> QED  BY <2>3, <2>4, <2>6, <2>7 DEF IInv
<1> QED  BY <1>3, <1>4

LEMMA TimesOutInv == IInv /\ TimesOut => IInv'
<1> SUFFICES ASSUME IInv, TimesOut PROVE IInv'  OBVIOUS
<1>1. Verdict("operation_timedout") # "returned"  BY DEF Verdict, NetworkErrors
<1>2. bundleRead' \in BOOLEAN  BY DEF TimesOut, IInv, Types, TypeOK
<1> QED  BY <1>1, <1>2, EndsInv DEF TimesOut

LEMMA BreaksInv == IInv /\ Breaks => IInv'
<1> SUFFICES ASSUME IInv, Breaks PROVE IInv'  OBVIOUS
<1>1. PICK c \in ErrorsOf(stage) : EndTransfer(c)  BY DEF Breaks
<1>2. Performing /\ bundleRead' \in BOOLEAN  BY DEF Breaks, IInv, Types, TypeOK
<1>3. c \in {"couldnt_resolve_host", "couldnt_connect", "ssl_cipher", "ssl_cacert",
             "send_error", "recv_error", "got_nothing", "send_fail_rewind", "partial_file"}
  BY <1>1, <1>2 DEF ErrorsOf, Performing
<1>4. Verdict(c) # "returned" /\ c # "ssl_cacert_badfile"
  BY <1>3 DEF Verdict, NetworkErrors, CertificateErrors
<1> QED  BY <1>1, <1>2, <1>4, EndsInv DEF Breaks

LEMMA FinishInv == IInv /\ Finish => IInv'
<1> SUFFICES ASSUME IInv, Finish PROVE IInv'  OBVIOUS
<1>1. Performing /\ bundleRead' \in BOOLEAN  BY DEF Finish, Performing, IInv, Types, TypeOK
<1> QED  BY <1>1, EndsInv DEF Finish

-----------------------------------------------------------------------------
(* The callbacks of a transfer. *)

\* A bundle with certificates is taken on every connection.
LEMMA ConnectInv == IInv /\ Connect => IInv'
<1> SUFFICES ASSUME IInv, Connect PROVE IInv'  OBVIOUS
<1>1. /\ stage = "connect" /\ Performing /\ UNCHANGED <<sent, hop, last, got>>
      /\ UNCHANGED <<request, pos, performs>>
  BY DEF Connect, Performing
<1>2. Process_SSL_CTX = "ssl_cacert_badfile" => request.bundle # "certificates"
  BY DEF Process_SSL_CTX, BundleAtBegin
<1>3. CASE \E c \in {Process_SSL_CTX, "out_of_memory"} :
             c # "ok" /\ EndTransfer(c) /\ body' = body /\ bundleRead' = TRUE
  <2>1. PICK c \in {Process_SSL_CTX, "out_of_memory"} :
               c # "ok" /\ EndTransfer(c) /\ body' = body /\ bundleRead' = TRUE
    BY <1>3
  <2>2. c \in {"ssl_certproblem", "ssl_cacert_badfile", "out_of_memory"}
    BY <2>1 DEF Process_SSL_CTX
  <2>3. Verdict(c) # "returned"  BY <2>2 DEF Verdict, NetworkErrors, CertificateErrors
  <2>4. c = "ssl_cacert_badfile" => request.bundle # "certificates"  BY <1>2, <2>1
  <2> QED  BY <1>1, <2>1, <2>3, <2>4, EndsInv
<1>4. CASE /\ stage' = Begun /\ bundleRead' \in BOOLEAN
           /\ UNCHANGED <<head, headers, body, status, completed, code, result>>
  <2>1. stage' \in {"send", "await"}  BY <1>4 DEF Begun
  <2>2. Types'  BY <1>1, <1>4, <2>1 DEF IInv, Types, TypeOK
  <2>3. NotBegun' /\ SentIsRun' /\ HeadInOrder' /\ GoodBundleIsAccepted'
    BY <1>1, <1>4, <2>1
       DEF IInv, NotBegun, SentIsRun, HeadInOrder, GoodBundleIsAccepted
  <2>4. ServerHasAll' /\ BodyOfAnswer' /\ Completion'
    BY <1>1, <1>4, <2>1 DEF IInv, ServerHasAll, BodyOfAnswer, Completion
  <2> QED  BY <2>2, <2>3, <2>4 DEF IInv
<1>5. \/ stage' = Begun /\ UNCHANGED <<bundleRead, head, response, code, result>>
      \/ /\ bundleRead' = TRUE
         /\ \E c \in {Process_SSL_CTX, "out_of_memory"} :
              IF c = "ok"
              THEN stage' = Begun /\ UNCHANGED <<head, response, code, result>>
              ELSE EndTransfer(c) /\ UNCHANGED body
  BY DEF Connect
<1>6. bundleRead \in BOOLEAN  BY DEF IInv, Types, TypeOK
<1>7. CASE stage' = Begun /\ UNCHANGED <<bundleRead, head, response, code, result>>
  BY <1>4, <1>6, <1>7 DEF response
<1>8. ASSUME bundleRead' = TRUE, NEW c \in {Process_SSL_CTX, "out_of_memory"},
             IF c = "ok"
             THEN stage' = Begun /\ UNCHANGED <<head, response, code, result>>
             ELSE EndTransfer(c) /\ UNCHANGED body
      PROVE  IInv'
  <2>1. CASE c = "ok"  BY <1>4, <1>8, <2>1 DEF response
  <2>2. CASE c # "ok"
    <3>1. EndTransfer(c) /\ body' = body  BY <1>8, <2>2
    <3> QED  BY <1>3, <1>8, <2>2, <3>1
  <2> QED  BY <2>1, <2>2
<1> QED  BY <1>5, <1>7, <1>8

\* One more call of ReadCallback continues the run of blocks.
LEMMA SendInv == IInv /\ Send => IInv'
<1> SUFFICES ASSUME IInv, Send PROVE IInv'  OBVIOUS
<1>1. /\ stage = "send" /\ stage' \in {"send", "await"} /\ pos' = pos + Read
      /\ sent' = sent \o [i \in 1..Read |-> pos + i]
      /\ UNCHANGED <<request, bundleRead, head, hop, last, got>>
      /\ UNCHANGED <<headers, body, status, completed, performs, code, result>>
  BY DEF Send, response
<1>2. ~completed  BY <1>1 DEF IInv, Completion, Performing
<1>3. Read \in Nat /\ pos' \in 0..request.upload
  <2> DEFINE n == request.upload
  <2>1. n \in Nat /\ pos \in 0..n /\ MaxRead \in Nat  BY Sizes
  <2> HIDE DEF n
  <2>2. (IF n - pos > MaxRead THEN MaxRead ELSE n - pos) \in 0..(n - pos)  BY <2>1
  <2>3. Read \in 0..(n - pos)  BY <2>2 DEF Read, n
  <2>4. pos' \in 0..n  BY <1>1, <2>1, <2>3
  <2> QED  BY <2>1, <2>3, <2>4 DEF n
<1>4. /\ sent' \in Seq(Nat) /\ Len(sent') = Len(sent) + Read
      /\ \A i \in 1..Len(sent') :
           sent'[i] = IF i <= Len(sent) THEN sent[i] ELSE pos + (i - Len(sent))
  <2> DEFINE more == [i \in 1..Read |-> pos + i]
  <2>1. more \in Seq(Nat) /\ Len(more) = Read
    <3>1. pos \in Nat  BY Sizes
    <3> HIDE DEF Read
    <3> QED  BY <1>3, <3>1
  <2>0. \A i \in 1..Read : more[i] = pos + i  OBVIOUS
  <2>2. sent \in Seq(Nat) /\ Len(sent) \in Nat  BY Sizes DEF IInv, Types
  <2>3. /\ sent \o more \in Seq(Nat) /\ Len(sent \o more) = Len(sent) + Len(more)
        /\ \A i \in 1..(Len(sent) + Len(more)) :
             (sent \o more)[i] = IF i <= Len(sent) THEN sent[i] ELSE more[i - Len(sent)]
    <3> HIDE DEF more
    <3> QED  BY <2>1, <2>2, ConcatProperties
  <2>4. sent' = sent \o more  BY <1>1
  <2>5. \A i \in 1..(Len(sent) + Read) : i > Len(sent) => i - Len(sent) \in 1..Read
    BY <2>2, <1>3
  <2> HIDE DEF more
  <2> QED  BY <1>3, <2>0, <2>1, <2>2, <2>3, <2>4, <2>5
<1>5. Types'
  <2>1. TypeOK'  BY <1>1, <1>3 DEF IInv, Types, TypeOK
  <2> QED  BY <1>1, <1>4, <2>1 DEF IInv, Types
<1>6. SentIsRun'
  <2>1. Len(sent') <= pos'
    <3>1. Len(sent) \in Nat /\ pos \in Nat /\ Len(sent) <= pos  BY Sizes DEF IInv, SentIsRun
    <3> QED  BY <1>1, <1>3, <1>4, <3>1
  <2>2. ASSUME NEW i \in 1..Len(sent') PROVE sent'[i] = pos' - Len(sent') + i
    <3>1. \A k \in 1..Len(sent) : sent[k] = pos - Len(sent) + k  BY DEF IInv, SentIsRun
    <3>2. Len(sent) \in Nat /\ pos \in Nat /\ pos' = pos + Read  BY <1>1, Sizes
    <3>3. CASE i <= Len(sent)
      <4>1. i \in 1..Len(sent)  BY <3>2, <3>3
      <4>2. sent'[i] = pos - Len(sent) + i  BY <1>4, <3>1, <3>3, <4>1
      <4>3. Len(sent') = Len(sent) + Read /\ i \in Nat  BY <1>4, <4>1
      <4> QED  BY <1>3, <3>2, <4>2, <4>3
    <3>4. CASE ~(i <= Len(sent))
      <4>1. sent'[i] = pos + (i - Len(sent))  BY <1>4, <3>4
      <4>2. Len(sent') = Len(sent) + Read /\ i \in Nat  BY <1>3, <1>4, <3>2
      <4> QED  BY <1>3, <3>2, <4>1, <4>2
    <3> QED  BY <3>3, <3>4
  <2> QED  BY <2>1, <2>2 DEF SentIsRun
<1>7. NotBegun' /\ HeadInOrder' /\ GoodBundleIsAccepted'
  BY <1>1, <1>2 DEF IInv, NotBegun, HeadInOrder, GoodBundleIsAccepted, Performing
<1>8. ServerHasAll' /\ BodyOfAnswer' /\ Completion'
  BY <1>1, <1>2 DEF IInv, ServerHasAll, BodyOfAnswer, Completion
<1> QED  BY <1>5, <1>6, <1>7, <1>8 DEF IInv

\* The body of an answer starts empty, and an answer that is not an error only
\* comes once the upload was sent.
LEMMA AnsweredInv ==
  ASSUME NEW s \in Statuses \cup {302}, NEW names \in SUBSET HeaderNames,
         IInv, Answered(s, names),
         stage' = "receive" \/ (stage' = "connect" /\ s = 302),
         UNCHANGED <<request, pos, bundleRead, sent, headers, body, status, completed>>,
         UNCHANGED <<performs, code, result>>
  PROVE  IInv'
<1>1. /\ hop < MaxHops /\ hop' = hop + 1 /\ got' = 0
      /\ last' = [status |-> s, names |-> names]
      /\ head' = Append(head, [hop |-> hop', names |-> names])
  BY DEF Answered
<1>2. stage \in {"send", "await"} /\ (s < 400 => Len(sent) >= request.upload)
  <2>1. s \in Nat  OBVIOUS
  <2>2. stage = "await" => stage \in {"send", "await"}  OBVIOUS
  <2> QED  BY <2>1, <2>2 DEF Answered
<1>3. ~completed /\ performs # 0 /\ Performing'
  BY <1>2 DEF IInv, Completion, NotBegun, Performing
<1>4. hop \in Nat /\ hop' \in Nat /\ hop' \in 0..MaxHops /\ s \in Nat
  <2>1. hop \in Nat /\ MaxHops \in Nat  BY Sizes
  <2>2. s \in Nat  OBVIOUS
  <2> QED  BY <1>1, <2>1, <2>2
<1>5. last' \in Answer /\ [hop |-> hop', names |-> names] \in Entry
  BY <1>1, <1>4 DEF Answer, Entry
<1>6. /\ head' \in Seq(Entry) /\ Len(head') = Len(head) + 1
      /\ \A i \in 1..Len(head) : head'[i] = head[i]
      /\ head'[Len(head) + 1] = [hop |-> hop', names |-> names]
  BY <1>1, <1>5, AppendProperties DEF IInv, Types
<1>7. TypeOK'
  <2>1. last'.status \in Statuses \cup {0, 302} /\ last'.names \subseteq HeaderNames
    BY <1>1
  <2>2. \A n \in DOMAIN headers' : headers'[n] \in 1..hop'
    <3>1. \A n \in DOMAIN headers : headers[n] \in 1..hop  BY DEF IInv, Types, TypeOK
    <3> QED  BY <1>1, <1>4, <3>1
  <2>3. got' \in 0..BodySize  BY <1>1, Sizes
  <2>4. stage' \in {"connect", "receive"}  OBVIOUS
  <2>5. /\ request' \in Requests /\ pos' \in 0..request'.upload /\ bundleRead' \in BOOLEAN
        /\ performs' \in 0..MaxPerforms /\ DOMAIN headers' \subseteq HeaderNames
        /\ completed' \in BOOLEAN /\ result' \in {"none", "returned"} \cup HTTPExceptions
    BY DEF IInv, Types, TypeOK
  <2> QED  BY <1>4, <2>1, <2>2, <2>3, <2>4, <2>5 DEF TypeOK
<1>8. Types'  BY <1>5, <1>6, <1>7 DEF IInv, Types
<1>9. HeadInOrder'
  <2>1. Len(head) \in Nat  BY Sizes
  <2>2. ASSUME NEW i \in 1..Len(head') PROVE head'[i].hop \in 1..hop'
    <3>1. CASE i <= Len(head)
      <4>1. i \in 1..Len(head)  BY <2>1, <3>1
      <4>2. head[i].hop \in 1..hop  BY <4>1 DEF IInv, HeadInOrder
      <4> QED  BY <1>1, <1>4, <1>6, <4>1, <4>2
    <3>2. CASE ~(i <= Len(head))
      <4>1. i = Len(head) + 1  BY <1>6, <2>1, <3>2
      <4> QED  BY <1>1, <1>4, <1>6, <4>1
    <3> QED  BY <3>1, <3>2
  <2>3. Len(head') > 0 /\ head'[Len(head')].names = last'.names  BY <1>1, <1>6, <2>1
  <2> QED  BY <2>2, <2>3 DEF HeadInOrder
<1>10. BodyOfAnswer'
  <2>1. Len(body) \in Nat  BY Sizes
  <2>2. EndsWith(got)'  BY <1>1, <2>1 DEF EndsWith
  <2>3. performs = 1 => Len(body) = 0  BY <1>2 DEF IInv, BodyOfAnswer
  <2> QED  BY <1>1, <1>3, <2>2, <2>3 DEF BodyOfAnswer
<1>11. ServerHasAll'  BY <1>1, <1>2, <1>3, <1>4 DEF ServerHasAll, Succeeds
<1>12. NotBegun' /\ SentIsRun' /\ Completion' /\ GoodBundleIsAccepted'
  BY <1>3 DEF IInv, NotBegun, SentIsRun, Completion, GoodBundleIsAccepted
<1> QED  BY <1>8, <1>9, <1>10, <1>11, <1>12 DEF IInv

LEMMA AnswerBeginsInv == IInv /\ AnswerBegins => IInv'
BY AnsweredInv DEF AnswerBegins, response

LEMMA RedirectInv == IInv /\ Redirect => IInv'
BY AnsweredInv DEF Redirect, response

\* WriteCallback appends the next block of the answer.
LEMMA ReceiveInv == IInv /\ Receive => IInv'
<1> SUFFICES ASSUME IInv, Receive PROVE IInv'  OBVIOUS
<1>1. /\ stage = "receive" /\ got < BodySize /\ got' = got + 1
      /\ body' = Append(body, [hop |-> hop, block |-> got'])
      /\ UNCHANGED <<request, stage, pos, bundleRead, sent, head, hop, last>>
      /\ UNCHANGED <<headers, status, completed, performs, code, result>>
  BY DEF Receive
<1>2. ~completed  BY <1>1 DEF IInv, Completion, Performing
<1>3. hop \in Nat /\ got \in Nat /\ got' \in 0..BodySize /\ Len(body) \in Nat
  <2>1. hop \in Nat /\ got \in 0..BodySize /\ BodySize \in Nat /\ Len(body) \in Nat  BY Sizes
  <2> QED  BY <1>1, <2>1
<1>4. [hop |-> hop, block |-> got'] \in Block  BY <1>1, <1>3 DEF Block
<1>5. /\ body' \in Seq(Block) /\ Len(body') = Len(body) + 1
      /\ \A i \in 1..Len(body) : body'[i] = body[i]
      /\ body'[Len(body) + 1] = [hop |-> hop, block |-> got']
  BY <1>1, <1>4, AppendProperties DEF IInv, Types
<1>6. Types'  BY <1>1, <1>3, <1>5 DEF IInv, Types, TypeOK
<1>7. EndsWith(got)'
  <2>1. /\ Len(body) >= got
        /\ \A i \in 1..got : body[Len(body) - got + i] = [hop |-> hop, block |-> i]
    BY <1>1 DEF IInv, BodyOfAnswer, EndsWith
  <2>2. ASSUME NEW i \in 1..(got + 1)
        PROVE  body'[Len(body') - (got + 1) + i] = [hop |-> hop, block |-> i]
    <3>1. CASE i = got + 1  BY <1>1, <1>3, <1>5, <3>1
    <3>2. CASE i # got + 1
      <4>1. i \in 1..got  BY <1>3, <3>2
      <4>2. Len(body') - (got + 1) + i = Len(body) - got + i  BY <1>3, <1>5
      <4>3. Len(body) - got + i \in 1..Len(body)  BY <1>3, <2>1, <4>1
      <4> QED  BY <1>5, <2>1, <4>1, <4>2, <4>3
    <3> QED  BY <3>1, <3>2
  <2>3. Len(body') >= got + 1  BY <1>3, <1>5, <2>1
  <2> QED  BY <1>1, <2>2, <2>3 DEF EndsWith
<1>8. BodyOfAnswer'
  <2>1. performs = 1 => Len(body) = got  BY <1>1 DEF IInv, BodyOfAnswer
  <2> QED  BY <1>1, <1>2, <1>5, <1>7, <2>1 DEF BodyOfAnswer
<1>9. NotBegun' /\ SentIsRun' /\ ServerHasAll' /\ HeadInOrder' /\ GoodBundleIsAccepted'
  BY <1>1, <1>2 DEF IInv, NotBegun, SentIsRun, ServerHasAll, HeadInOrder,
                    GoodBundleIsAccepted, Performing
<1>10. Completion'  BY <1>1, <1>2 DEF IInv, Completion
<1> QED  BY <1>6, <1>8, <1>9, <1>10 DEF IInv

LEMMA StutterInv == IInv /\ UNCHANGED vars => IInv'
<1> SUFFICES ASSUME IInv, UNCHANGED vars PROVE IInv'  OBVIOUS
<1> USE DEF IInv, vars, transfer, response
<1>1. Types'  BY DEF Types, TypeOK
<1>2. NotBegun' /\ SentIsRun'  BY DEF NotBegun, Performing, SentIsRun
<1>3. ServerHasAll' /\ HeadInOrder'  BY DEF ServerHasAll, HeadInOrder
<1>4. BodyOfAnswer'  BY DEF BodyOfAnswer, EndsWith
<1>5. Completion' /\ GoodBundleIsAccepted'  BY DEF Completion, Performing, GoodBundleIsAccepted
<1> QED  BY <1>1, <1>2, <1>3, <1>4, <1>5

LEMMA NextInv == IInv /\ [Next]_vars => IInv'
<1> SUFFICES ASSUME IInv, [Next]_vars PROVE IInv'  OBVIOUS
<1>1. CASE Construct  BY <1>1, ConstructInv
<1>2. CASE Perform  BY <1>2, PerformInv
<1>3. CASE Connect  BY <1>3, ConnectInv
<1>4. CASE Send  BY <1>4, SendInv
<1>5. CASE AnswerBegins  BY <1>5, AnswerBeginsInv
<1>6. CASE Redirect  BY <1>6, RedirectInv
<1>7. CASE Receive  BY <1>7, ReceiveInv
<1>8. CASE Finish  BY <1>8, FinishInv
<1>9. CASE TimesOut  BY <1>9, TimesOutInv
<1>10. CASE Breaks  BY <1>10, BreaksInv
<1>11. CASE UNCHANGED vars  BY <1>11, StutterInv
<1> QED  BY <1>1, <1>2, <1>3, <1>4, <1>5, <1>6, <1>7, <1>8, <1>9, <1>10, <1>11 DEF Next

-----------------------------------------------------------------------------
(* What follows from the invariant. *)

LEMMA IInvImpliesAnswer == IInv => AnswerIsWhole
<1> SUFFICES ASSUME IInv PROVE AnswerIsWhole  OBVIOUS
<1>1. body \in Seq(Block) /\ hop \in Nat /\ BodySize \in Nat /\ Len(body) \in Nat
  BY Sizes DEF IInv, Types
<1>2. WholeBody \in Seq(Block) /\ Len(WholeBody) = BodySize
  BY <1>1 DEF WholeBody, Block
<1>3. \A i \in 1..BodySize : WholeBody[i] = [hop |-> hop, block |-> i]  BY DEF WholeBody
<1>4. ASSUME completed
      PROVE  /\ Len(body) >= BodySize
             /\ SubSeq(body, Len(body) - BodySize + 1, Len(body)) = WholeBody
  <2> DEFINE m == Len(body) - BodySize + 1
             tail == SubSeq(body, m, Len(body))
  <2>1. /\ Len(body) >= BodySize
        /\ \A i \in 1..BodySize : body[Len(body) - BodySize + i] = [hop |-> hop, block |-> i]
    BY <1>4 DEF IInv, BodyOfAnswer, EndsWith
  <2>2. m \in Int /\ Len(body) \in Int /\ \A i \in m..Len(body) : body[i] \in Block
    <3>1. \A i \in m..Len(body) : i \in 1..Len(body)  BY <1>1, <2>1
    <3> QED  BY <1>1, <3>1, ElementOfSeq
  <2>3. /\ tail \in Seq(Block)
        /\ Len(tail) = IF m <= Len(body) THEN Len(body) - m + 1 ELSE 0
        /\ \A i \in 1..(Len(body) - m + 1) : tail[i] = body[m + i - 1]
    <3> HIDE DEF m
    <3> QED  BY <2>2, SubSeqProperties
  <2>4. BodySize > 0  BY Sizes
  <2>5. Len(tail) = BodySize  BY <1>1, <2>1, <2>3, <2>4
  <2>6. ASSUME NEW i \in 1..BodySize PROVE tail[i] = WholeBody[i]
    <3>1. i \in 1..(Len(body) - m + 1) /\ m + i - 1 = Len(body) - BodySize + i  BY <1>1
    <3>2. tail[i] = body[Len(body) - BodySize + i]
      <4> HIDE DEF tail, m
      <4> QED  BY <2>3, <3>1
    <3>3. body[Len(body) - BodySize + i] = WholeBody[i]  BY <1>3, <2>1
    <3> HIDE DEF tail, m
    <3> QED  BY <3>2, <3>3
  <2>7. tail = WholeBody
    <3> HIDE DEF tail
    <3> QED  BY <1>2, <2>3, <2>5, <2>6, SeqEqual
  <2> QED  BY <2>1, <2>7
<1>5. ASSUME completed, performs = 1 PROVE body = WholeBody
  <2>1. Len(body) = BodySize  BY <1>5 DEF IInv, BodyOfAnswer
  <2>2. \A i \in 1..BodySize : body[Len(body) - BodySize + i] = [hop |-> hop, block |-> i]
    BY <1>5 DEF IInv, BodyOfAnswer, EndsWith
  <2>3. \A i \in 1..BodySize : body[i] = WholeBody[i]
    <3> SUFFICES ASSUME NEW i \in 1..BodySize PROVE body[i] = WholeBody[i]  OBVIOUS
    <3>1. Len(body) - BodySize + i = i  BY <1>1, <2>1
    <3>2. body[Len(body) - BodySize + i] = [hop |-> hop, block |-> i]  BY <2>2, Zenon
    <3>3. WholeBody[i] = [hop |-> hop, block |-> i]  BY <1>3, Zenon
    <3> QED  BY <3>1, <3>2, <3>3, Zenon
  <2> QED  BY <1>1, <1>2, <2>1, <2>3, SeqEqual
<1> QED  BY <1>4, <1>5 DEF AnswerIsWhole, IInv, Completion

LEMMA IInvImpliesUpload == IInv => UploadInOrder
<1> SUFFICES ASSUME IInv PROVE UploadInOrder  OBVIOUS
<1>1. /\ sent \in Seq(Nat) /\ Len(sent) \in Nat /\ DOMAIN sent = 1..Len(sent)
      /\ pos \in 0..request.upload /\ request.upload \in Nat
  BY Sizes, LenProperties DEF IInv, Types
<1>2. Len(sent) <= pos /\ \A i \in 1..Len(sent) : sent[i] = pos - Len(sent) + i
  BY DEF IInv, SentIsRun
<1>3. \A i \in DOMAIN sent : sent[i] <= request.upload  BY <1>1, <1>2
<1>4. ASSUME NEW i \in DOMAIN sent, i > 1 PROVE sent[i] = sent[i - 1] + 1
  <2>1. i \in 1..Len(sent) /\ i - 1 \in 1..Len(sent)  BY <1>1, <1>4
  <2> QED  BY <1>1, <1>2, <2>1
<1>5. ASSUME completed, Succeeds(status) PROVE sent = [i \in 1..request.upload |-> i]
  <2>1. Len(sent) >= request.upload
    BY <1>5 DEF IInv, Completion, ServerHasAll
  <2>2. Len(sent) = request.upload /\ pos = Len(sent)
    <3> DEFINE n == request.upload
    <3>1. n \in Nat /\ pos \in 0..n /\ Len(sent) \in Nat /\ Len(sent) <= pos /\ Len(sent) >= n
      BY <1>1, <1>2, <2>1
    <3> HIDE DEF n
    <3>2. Len(sent) = n /\ pos = Len(sent)  BY <3>1
    <3> QED  BY <3>2 DEF n
  <2>3. \A i \in 1..request.upload : sent[i] = i  BY <1>1, <1>2, <2>2
  <2>4. ASSUME NEW n \in Nat
        PROVE  [i \in 1..n |-> i] \in Seq(Nat) /\ Len([i \in 1..n |-> i]) = n
    OBVIOUS
  <2> QED  BY <1>1, <2>2, <2>3, <2>4, SeqEqual
<1> QED  BY <1>3, <1>4, <1>5 DEF UploadInOrder

THEOREM Invariant == Spec => []IInv
BY InitInv, NextInv, PTL DEF Spec

\* Every variable keeps its type: the position of the stream to upload never runs past
\* its end, and only exceptions of HTTP leave Perform().
THEOREM TypeCorrect == Spec => []TypeOK
<1>1. IInv => TypeOK  BY DEF IInv, Types
<1> QED  BY <1>1, Invariant, PTL

\* What PerformGet() returns is the body of a final answer with status 2xx, whole and
\* alone, whatever redirects came before; of a transaction that was tried again, the
\* answer is the end of the data.
THEOREM AnswersAreWhole == Spec => []AnswerIsWhole
BY Invariant, IInvImpliesAnswer, PTL

\* The server gets the blocks of the upload in order, each once, and a transaction only
\* succeeds when it got them all, however small the buffers and often it was tried.
THEOREM UploadsInOrder == Spec => []UploadInOrder
BY Invariant, IInvImpliesUpload, PTL

\* A CA bundle with certificates is never reported as bad, on whichever connection.
THEOREM GoodBundles == Spec => []GoodBundleIsAccepted
<1>1. IInv => GoodBundleIsAccepted  BY DEF IInv
<1> QED  BY <1>1, Invariant, PTL

-----------------------------------------------------------------------------
(* The length of a transfer. *)

UploadLeft == request.upload - pos

\* The steps that are left to a transfer, unless it is redirected.
TransferLeft ==
  CASE stage = "connect" -> UploadLeft + BodySize + 4
    [] stage = "send"    -> UploadLeft + BodySize + 3
    [] stage = "await"   -> BodySize + 2
    [] stage = "receive" -> BodySize - got + 1
    [] OTHER             -> 0

TransferGoesOn ==
  Performing => TransferLeft \in Nat /\ (Redirect \/ TransferLeft' < TransferLeft)

LEMMA LeftIsCount == ASSUME IInv, Performing PROVE TransferLeft \in Nat \ {0}
<1>1. UploadLeft \in Nat
  <2> DEFINE n == request.upload
  <2>1. n \in Nat /\ pos \in 0..n  BY Sizes
  <2> HIDE DEF n
  <2>2. n - pos \in Nat  BY <2>1
  <2> QED  BY <2>2 DEF UploadLeft, n
<1>2. got \in 0..BodySize /\ BodySize \in Nat  BY Sizes
<1>3. BodySize - got + 1 \in Nat \ {0}  BY <1>2
<1> QED  BY <1>1, <1>2, <1>3 DEF TransferLeft, Performing

LEMMA EndsNearer ==
  ASSUME IInv, Performing, NEW c, EndTransfer(c)
  PROVE  TransferLeft' < TransferLeft
<1>1. stage' \notin {"connect", "send", "await", "receive"}  BY DEF EndTransfer
<1>2. TransferLeft' = 0  BY <1>1 DEF TransferLeft
<1> QED  BY <1>2, LeftIsCount

\* Every callback, and whatever ends curl_easy_perform(), brings a transfer nearer to its
\* end, for any size of the data and of the buffers; an empty read too, which makes
\* libcurl wait for the answer.  Only a redirect makes it longer: with a server that
\* never is silent, loops of redirects are all that the timeout is needed for.
THEOREM TransferProgress == Spec => [][TransferGoesOn]_vars
<1>1. ASSUME IInv, Next PROVE TransferGoesOn
  <2> SUFFICES ASSUME Performing, ~Redirect PROVE TransferLeft' < TransferLeft
    BY <1>1, LeftIsCount DEF TransferGoesOn
  <2> DEFINE n == request.upload
  <2>1. /\ n \in Nat /\ pos \in 0..n /\ got \in 0..BodySize
        /\ {MaxRead, BodySize} \subseteq Nat \ {0}
    BY <1>1, Sizes
  <2>2. stage \notin {"new", "idle"}  BY DEF Performing
  <2>3. CASE Connect
    <3>1. CASE stage' = Begun /\ UNCHANGED <<request, pos>>
      <4>1. stage' \in {"send", "await"} /\ stage = "connect"  BY <2>3, <3>1 DEF Begun, Connect
      <4> HIDE DEF n
      <4>2. n - pos \in Nat  BY <2>1
      <4> QED  BY <2>1, <3>1, <4>1, <4>2 DEF TransferLeft, UploadLeft, n
    <3>2. ASSUME NEW c, EndTransfer(c) PROVE TransferLeft' < TransferLeft
      BY <1>1, <3>2, EndsNearer
    <3> QED  BY <2>3, <3>1, <3>2 DEF Connect
  <2>4. CASE Send
    <3>1. /\ stage = "send" /\ pos' = pos + Read /\ request' = request
          /\ stage' \in {"send", "await"} /\ (Read = 0 => stage' = "await")
      BY <2>4 DEF Send
    <3>2. Read \in 0..(n - pos)
      <4>1. Read = IF n - pos > MaxRead THEN MaxRead ELSE n - pos  BY DEF Read
      <4> HIDE DEF n
      <4> QED  BY <2>1, <4>1
    <3>3. UploadLeft = n - pos /\ UploadLeft' = n - (pos + Read)  BY <3>1 DEF UploadLeft
    <3> HIDE DEF n
    <3>4. UploadLeft \in Nat /\ UploadLeft' \in Nat /\ UploadLeft' = UploadLeft - Read
      BY <2>1, <3>2, <3>3
    <3>5. TransferLeft = UploadLeft + BodySize + 3  BY <3>1 DEF TransferLeft
    <3>6. CASE stage' = "await"
      BY <2>1, <3>4, <3>5, <3>6 DEF TransferLeft
    <3>7. CASE stage' = "send"
      BY <2>1, <3>1, <3>2, <3>4, <3>5, <3>7 DEF TransferLeft
    <3> QED  BY <3>1, <3>6, <3>7
  <2>5. CASE AnswerBegins
    <3>1. stage \in {"send", "await"} /\ stage' = "receive" /\ got' = 0
      BY <2>5 DEF AnswerBegins, Answered
    <3> HIDE DEF n
    <3>2. n - pos \in Nat  BY <2>1
    <3> QED  BY <2>1, <3>1, <3>2 DEF TransferLeft, UploadLeft, n
  <2>6. CASE Receive
    <3>1. stage = "receive" /\ stage' = "receive" /\ got < BodySize /\ got' = got + 1
      BY <2>6 DEF Receive
    <3> QED  BY <2>1, <3>1 DEF TransferLeft
  <2>7. CASE Finish \/ TimesOut \/ Breaks
    BY <1>1, <2>7, EndsNearer DEF Finish, TimesOut, Breaks
  <2> QED  BY <1>1, <2>2, <2>3, <2>4, <2>5, <2>6, <2>7 DEF Next, Construct, Perform
<1>2. IInv /\ [Next]_vars => [TransferGoesOn]_vars  BY <1>1
<1> QED  BY <1>2, Invariant, PTL DEF Spec

=============================================================================
