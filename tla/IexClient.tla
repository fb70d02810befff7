------------------------------ MODULE IexClient ------------------------------
(***************************************************************************)
(* From a request for company infos to its answer: PeakworkServiceImpl     *)
(* hands the companies to the Controller, which asks RPCService and with   *)
(* it IEX_Client for one after the other, each with a GET for its quote    *)
(* and one for its logo.  The thread of UpdatePrices uses the same client  *)
(* and stores what it gets.  A GET ends as module HTTPTransaction has it;  *)
(* an answer that is no JSON, or lacks a field, makes the parser throw.    *)
(* The three overloads of IEX_Client::GetCompanyInfo differ in the URL of  *)
(* the first GET only.                                                     *)
(*                                                                         *)
(* Code: src/Daemon/rpc, GetCompanyInfo and UpdatePrices of                *)
(* src/Daemon/src/controller.cpp, Companies::Add                           *)
(***************************************************************************)
EXTENDS HTTPTypes, Sequences

CONSTANTS
  Handlers,   \* threads that serve GetCompanyInfo
  Updater,    \* the thread of UpdatePrices
  Symbols,    \* companies one can ask for
  None,       \* the empty string
  Requests    \* lists of companies that clients ask for

ASSUME IexClientAssumption ==
  /\ Updater \notin Handlers
  /\ None \notin Symbols
  /\ Requests \subseteq Seq(Symbols)

VARIABLES
  running,    \* the process has not ended
  pc,         \* what each thread does
  job,        \* the request each thread works on
  answer,     \* what each handler answered last, until it is asked again
  logos       \* table companies: the logo in the row of each company

vars == <<running, pc, job, answer, logos>>

-----------------------------------------------------------------------------
Threads == Handlers \cup {Updater}

\* What the answer tells of a company; the position is all that says of which.
Info == [name : Symbols \cup {None}, priced : BOOLEAN, logo : Symbols \cup {None}]
Nothing == [name |-> None, priced |-> FALSE, logo |-> None]

\* asked: the companies; infos: what there is of the result; info: in hand while
\* its logo is fetched; and as history, failed: places in asked whose quote met an
\* HTTPException; met: all exceptions.
Job == [asked : Seq(Symbols), infos : Seq(Info), info : Info,
        failed : SUBSET Nat, met : SUBSET Exceptions]
JobFor(cs) == [asked |-> cs, infos |-> <<>>, info |-> Nothing, failed |-> {}, met |-> {}]
NoJob == JobFor(<<>>)

\* An answer is the job it was made of.
Answer == [ok : BOOLEAN, of : Job]
NoAnswer == [ok |-> TRUE, of |-> NoJob]

\* A GET and the parsing of what it returned.
Outcomes == {"ok"} \cup Exceptions

Init ==
  /\ running = TRUE
  /\ pc = [t \in Threads |-> "idle"]
  /\ job = [t \in Threads |-> NoJob]
  /\ answer = [h \in Handlers |-> NoAnswer]
  /\ logos = [c \in {} |-> None]

Ask(t, cs) ==
  /\ running /\ pc[t] = "idle"
  /\ job' = [job EXCEPT ![t] = JobFor(cs)]
  /\ pc' = [pc EXCEPT ![t] = IF cs = <<>> THEN "done" ELSE "quote"]
  /\ answer' = [h \in Handlers |-> IF h = t THEN NoAnswer ELSE answer[h]]
  /\ UNCHANGED <<running, logos>>

Request(h) == \E cs \in Requests : Ask(h, cs)
NextSymbol == \E c \in Symbols : Ask(Updater, <<c>>)

Company(j) == j.asked[Len(j.infos) + 1]

-----------------------------------------------------------------------------
(* What follows a GET: the job goes on, is done, or is given up. *)

\* The list goes on until there is an info for each company of the request.
AllDelivered_OffByOne(j) == Len(j.infos) > Len(j.asked)
AllDelivered(j) == Len(j.infos) = Len(j.asked)

GoOn(t, l, j) ==
  /\ pc' = [pc EXCEPT ![t] = l]
  /\ job' = [job EXCEPT ![t] = j]
  /\ UNCHANGED <<running, answer>>

\* The deque is filled from the other end.
WithInfo_PushFront(j, i) == [j EXCEPT !.infos = <<i>> \o @, !.info = Nothing]
WithInfo(j, i) == [j EXCEPT !.infos = Append(@, i), !.info = Nothing]

Deliver(t, j, i) ==
  LET k == WithInfo(j, i) IN GoOn(t, IF AllDelivered(k) THEN "done" ELSE "quote", k)

\* The exception leaves the client, RPCService and the Controller.  The service
\* catches it; the thread of UpdatePrices does not, and std::terminate follows.
Survives_Updater(t) == FALSE
Survives(t) == t # Updater

Escape(t, j) ==
  /\ pc' = [pc EXCEPT ![t] = "idle"]
  /\ job' = [job EXCEPT ![t] = NoJob]
  /\ running' = Survives(t)
  /\ answer' = [h \in Handlers |-> IF h = t THEN [ok |-> FALSE, of |-> j] ELSE answer[h]]

Meet(j, o) == [j EXCEPT !.met = @ \cup ({o} \ {"ok"})]

\* GetCompanyInfo: the first GET gives an info to complete, {} or an exception.
GetQuote(t) ==
  /\ running /\ pc[t] = "quote"
  /\ \E o \in Outcomes :
       LET j == Meet(job[t], o) IN
       IF o = "ok"
       THEN GoOn(t, "logo", [j EXCEPT !.info = [name |-> Company(j), priced |-> TRUE, logo |-> None]])
       ELSE IF Catches("HTTPException", o)
       THEN Deliver(t, [j EXCEPT !.failed = @ \cup {Len(j.infos) + 1}], Nothing)
       ELSE Escape(t, j)
  /\ UNCHANGED logos

\* An HTTPException while the logo is fetched: without a catch clause of its own
\* that of GetCompanyInfo would take it.
WithoutLogo_OuterCatch(i) == Nothing
WithoutLogo(i) == i

GetCompanyLogoLink(t) ==
  /\ running /\ pc[t] = "logo"
  /\ \E o \in Outcomes :
       LET j == Meet(job[t], o) IN
       IF o = "ok" THEN Deliver(t, j, [j.info EXCEPT !.logo = Company(j)])
       ELSE IF Catches("HTTPException", o) THEN Deliver(t, j, WithoutLogo(j.info))
       ELSE Escape(t, j)
  /\ UNCHANGED logos

Finish(t) ==
  /\ running /\ pc[t] = "done"
  /\ pc' = [pc EXCEPT ![t] = "idle"]
  /\ job' = [job EXCEPT ![t] = NoJob]

Reply(h) ==
  /\ Finish(h)
  /\ answer' = [answer EXCEPT ![h] = [ok |-> TRUE, of |-> job[h]]]
  /\ UNCHANGED <<running, logos>>

\* INSERT OR IGNORE by the short name; what the row holds is never updated.
Stored_OrReplace(i) ==
  [c \in DOMAIN logos \cup {i.name} |-> IF c = i.name THEN i.logo ELSE logos[c]]
Stored(i) ==
  [c \in DOMAIN logos \cup {i.name} |-> IF c \in DOMAIN logos THEN logos[c] ELSE i.logo]

StoreInfo ==
  /\ Finish(Updater)
  /\ logos' = Stored(job[Updater].infos[1])
  /\ UNCHANGED <<running, answer>>

-----------------------------------------------------------------------------
Next ==
  \/ \E h \in Handlers : Request(h) \/ Reply(h)
  \/ NextSymbol \/ StoreInfo
  \/ \E t \in Threads : GetQuote(t) \/ GetCompanyLogoLink(t)

Spec == Init /\ [][Next]_vars

-----------------------------------------------------------------------------
(* Properties. *)

\* The type of the state: a thread that fetches has a company to fetch.
TypeOK ==
  /\ running \in BOOLEAN
  /\ pc \in [Threads -> {"idle", "quote", "logo", "done"}]
  /\ job \in [Threads -> Job]
  /\ answer \in [Handlers -> Answer]
  /\ DOMAIN logos \subseteq Symbols \cup {None}
  /\ \A c \in DOMAIN logos : logos[c] \in {c, None}
  /\ \A t \in Threads : pc[t] \in {"quote", "logo"} => Len(job[t].infos) < Len(job[t].asked)

\* A client can tell whose data it got only by the position in the list: an
\* answer has one entry per company asked for, in that order, and each is about
\* its company or empty, whichever requests failed in between.
Fits(i, c) ==
  /\ i.name \in {c, None} /\ i.logo \in {i.name, None}
  /\ i.priced <=> i.name = c

AnswersMatchRequests ==
  \A h \in Handlers : answer[h].ok =>
    LET j == answer[h].of IN
    /\ Len(j.infos) = Len(j.asked)
    /\ \A n \in DOMAIN j.infos : Fits(j.infos[n], j.asked[n])

\* One company without data costs the others nothing, and a logo that cannot be
\* had does not cost the price: the empty entries are those whose quote failed.
OnlyFailedQuotesAreEmpty ==
  \A h \in Handlers : answer[h].ok =>
    LET j == answer[h].of IN j.failed = {n \in DOMAIN j.infos : j.infos[n] = Nothing}

\* Silence is kept about failures of HTTP only.  When a certificate was refused,
\* the network was down or an answer made no sense, the request is cancelled
\* (peakwork_server.cpp:79), and it is cancelled for no other reason.
CancelledWhenNotHTTP ==
  \A h \in Handlers : answer[h].ok <=> answer[h].of.met \subseteq {"HTTPException"}

\* No request ends the process: only the thread of UpdatePrices lets exceptions
\* out.  A handler in the middle of a request then never answers.
RequestsNeverEndProcess ==
  [][running /\ ~running' => pc[Updater] \in {"quote", "logo"} /\ pc'[Updater] = "idle"]_vars

\* A logo once stored is not lost to a later request for it that fails; nor is
\* an empty one ever filled in.
StoredLogosKept == [][\A c \in DOMAIN logos : c \in DOMAIN logos' /\ logos'[c] = logos[c]]_vars

=============================================================================
