---------------------------- MODULE IexClientProofs ----------------------------
(***************************************************************************)
(* Proofs about IexClient, for any number of threads that serve requests,  *)
(* any companies and lists of any length.                                  *)
(*                                                                         *)
(* What an answer promises must hold of the unfinished job already: the    *)
(* infos there are match the first companies asked for, the places without *)
(* an info are those whose quote failed, and only HTTPExceptions were met. *)
(***************************************************************************)
EXTENDS IexClient, TLAPS

\* The places of a result that say nothing.
EmptyPlaces(infos) == {n \in DOMAIN infos : infos[n] = Nothing}

\* The infos of a job match the first companies it was asked for.
Matches(j) ==
  /\ Len(j.infos) <= Len(j.asked)
  /\ \A n \in DOMAIN j.infos : Fits(j.infos[n], j.asked[n])

Sound(j) ==
  /\ j \in Job
  /\ Matches(j)
  /\ j.failed = EmptyPlaces(j.infos)
  /\ j.met \subseteq {"HTTPException"}

\* What each point of GetCompanyInfo adds to that.
JobsInv ==
  \A t \in Threads : LET j == job[t] IN
    /\ Sound(j)
    /\ pc[t] \in {"quote", "logo"} => Len(j.infos) < Len(j.asked)
    /\ pc[t] = "done" => Len(j.infos) = Len(j.asked)
    /\ pc[t] = "logo" => j.info = [name |-> Company(j), priced |-> TRUE, logo |-> None]

AnswersInv ==
  \A h \in Handlers :
    IF answer[h].ok
    THEN Sound(answer[h].of) /\ Len(answer[h].of.infos) = Len(answer[h].of.asked)
    ELSE answer[h].of \in Job /\ ~(answer[h].of.met \subseteq {"HTTPException"})

\* The shape of the state; the rest of TypeOK follows from what is above.
Shape ==
  /\ running \in BOOLEAN
  /\ pc \in [Threads -> {"idle", "quote", "logo", "done"}]
  /\ job \in [Threads -> Job]
  /\ answer \in [Handlers -> Answer]

\* A row has the logo of its company or none, and the update thread asks for one
\* company at a time.
LogosInv ==
  /\ DOMAIN logos \subseteq Symbols \cup {None}
  /\ \A c \in DOMAIN logos : logos[c] \in {c, None}
  /\ pc[Updater] # "idle" => Len(job[Updater].asked) = 1

IInv == Shape /\ JobsInv /\ AnswersInv /\ LogosInv

USE IexClientAssumption

-----------------------------------------------------------------------------
(* Jobs. *)

\* Of all exceptions only HTTPException is taken by the clauses of the client.
LEMMA OnlyHTTP ==
  ASSUME NEW e \in Exceptions
  PROVE  Catches("HTTPException", e) <=> e = "HTTPException"
  BY DEF Exceptions, HTTPExceptions, Catches, Parent

\* A job nothing was done for is sound.
LEMMA FreshJob ==
  ASSUME NEW cs \in Seq(Symbols)
  PROVE  Sound(JobFor(cs))
  BY DEF Sound, Job, Matches, JobFor, Nothing, Info, EmptyPlaces

\* The job of a thread that is idle.
LEMMA IdleJob ==
  Sound(NoJob) /\ NoJob \in Job /\ NoJob.asked = <<>> /\ NoJob.infos = <<>> /\ NoJob.met = {}
<1>1. <<>> \in Seq(Symbols)
  OBVIOUS
<1>2. Sound(NoJob)
  BY <1>1, FreshJob DEF NoJob
<1> QED
  BY <1>2 DEF Sound, NoJob, JobFor

\* Nothing fits every company.
LEMMA NothingFits ==
  ASSUME NEW c \in Symbols
  PROVE  Nothing \in Info /\ Fits(Nothing, c)
  BY DEF Nothing, Info, Fits

\* An info for the next company makes a sound job longer by one, provided that
\* its place is among the failed ones exactly when it says nothing.
LEMMA Delivered ==
  ASSUME NEW j \in Job, NEW i \in Info,
         Matches(j), Len(j.infos) < Len(j.asked), Fits(i, Company(j)),
         j.met \subseteq {"HTTPException"},
         j.failed = EmptyPlaces(j.infos) \cup
                    (IF i = Nothing THEN {Len(j.infos) + 1} ELSE {})
  PROVE  /\ Sound(WithInfo(j, i))
         /\ WithInfo(j, i).asked = j.asked
         /\ Len(WithInfo(j, i).infos) = Len(j.infos) + 1
<1> DEFINE k == WithInfo(j, i)
<1>1. /\ j.asked \in Seq(Symbols) /\ j.infos \in Seq(Info) /\ j.failed \in SUBSET Nat
      /\ j.met \in SUBSET Exceptions
  BY DEF Job
<1>2. Nothing \in Info
  BY DEF Nothing, Info
<1>3. k \in Job /\ k.asked = j.asked /\ k.infos = Append(j.infos, i)
      /\ k.failed = j.failed /\ k.met = j.met
  <2>1. Append(j.infos, i) \in Seq(Info)
    BY <1>1
  <2> QED
    BY <1>2, <2>1 DEF WithInfo, Job
<1> HIDE DEF k
<1>4. /\ Len(k.infos) = Len(j.infos) + 1
      /\ k.infos[Len(j.infos) + 1] = i
      /\ \A n \in DOMAIN j.infos : k.infos[n] = j.infos[n]
      /\ DOMAIN k.infos = DOMAIN j.infos \cup {Len(j.infos) + 1}
      /\ Len(j.infos) + 1 \notin DOMAIN j.infos
  BY <1>1, <1>3
<1>5. Matches(k)
  BY <1>1, <1>3, <1>4 DEF Matches, Company
<1>6. k.failed = EmptyPlaces(k.infos)
  BY <1>3, <1>4 DEF EmptyPlaces
<1> QED
  BY <1>3, <1>4, <1>5, <1>6 DEF Sound, k

-----------------------------------------------------------------------------
(* Steps. *)

\* The initial state satisfies the inductive invariant: nothing was asked.
LEMMA InitIInv == Init => IInv
<1> SUFFICES ASSUME Init PROVE IInv
  OBVIOUS
<1>1. Shape
  BY IdleJob DEF Init, Shape, NoAnswer, Answer
<1>2. JobsInv /\ LogosInv
  BY IdleJob DEF Init, JobsInv, LogosInv, Threads
<1>3. AnswersInv
  BY IdleJob DEF Init, AnswersInv, NoAnswer
<1> QED
  BY <1>1, <1>2, <1>3 DEF IInv

\* A thread goes on with a sound job.
LEMMA GoesOn ==
  ASSUME IInv, NEW t \in Threads, NEW l \in {"quote", "logo", "done"}, NEW j,
         GoOn(t, l, j), UNCHANGED logos,
         Sound(j), t = Updater => Len(j.asked) = 1,
         l \in {"quote", "logo"} => Len(j.infos) < Len(j.asked),
         l = "done" => Len(j.infos) = Len(j.asked),
         l = "logo" => j.info = [name |-> Company(j), priced |-> TRUE, logo |-> None]
  PROVE  IInv'
<1>1. j \in Job /\ \A u \in Threads : job'[u] = IF u = t THEN j ELSE job[u]
  BY DEF GoOn, IInv, Shape, Sound
<1>2. \A u \in Threads : pc'[u] = IF u = t THEN l ELSE pc[u]
  BY DEF GoOn, IInv, Shape
<1>3. Shape'
  BY <1>1 DEF GoOn, IInv, Shape
<1>4. JobsInv'
  <2>1. CASE l = "logo"
    BY <1>1, <1>2, <2>1 DEF IInv, JobsInv, Company
  <2>2. CASE l # "logo"
    BY <1>1, <1>2, <2>2 DEF IInv, JobsInv
  <2> QED
    BY <2>1, <2>2
<1>5. AnswersInv'
  BY DEF GoOn, IInv, AnswersInv
<1>6. LogosInv'
  BY <1>1, <1>2 DEF IInv, LogosInv, Threads
<1> QED
  BY <1>3, <1>4, <1>5, <1>6 DEF IInv

\* A request is taken on.
LEMMA AskIInv ==
  ASSUME IInv, NEW t \in Threads, NEW cs \in Seq(Symbols), t = Updater => Len(cs) = 1,
         Ask(t, cs)
  PROVE  IInv'
<1> DEFINE l == IF cs = <<>> THEN "done" ELSE "quote"
<1>1. Sound(JobFor(cs)) /\ JobFor(cs) \in Job /\ JobFor(cs).asked = cs /\ JobFor(cs).infos = <<>>
  BY FreshJob DEF JobFor, Sound
<1>3. \A u \in Threads : job'[u] = IF u = t THEN JobFor(cs) ELSE job[u]
  BY DEF Ask, IInv, Shape
<1>4. \A u \in Threads : pc'[u] = IF u = t THEN l ELSE pc[u]
  BY DEF Ask, IInv, Shape
<1>5. Shape'
  BY <1>1, IdleJob DEF Ask, IInv, Shape, NoAnswer, Answer
<1>6. JobsInv'
  <2> SUFFICES ASSUME NEW u \in Threads, u = t
               PROVE  /\ pc'[u] \in {"quote", "logo"} => Len(job'[u].infos) < Len(job'[u].asked)
                      /\ pc'[u] = "done" => Len(job'[u].infos) = Len(job'[u].asked)
                      /\ pc'[u] # "logo"
    BY <1>1, <1>3, <1>4 DEF IInv, JobsInv, Company
  <2> QED
    BY <1>1, <1>3, <1>4
<1>7. AnswersInv'
  BY IdleJob DEF Ask, IInv, AnswersInv, NoAnswer
<1>8. LogosInv'
  BY <1>1, <1>3, <1>4 DEF Ask, IInv, LogosInv, Threads
<1> QED
  BY <1>5, <1>6, <1>7, <1>8 DEF IInv

\* An exception the client does not take cancels the request.
LEMMA EscapeIInv ==
  ASSUME IInv, NEW t \in Threads, NEW j \in Job, ~(j.met \subseteq {"HTTPException"}),
         Escape(t, j), UNCHANGED logos
  PROVE  IInv'
<1>2. Shape'
  BY IdleJob DEF Escape, Survives, IInv, Shape, Answer
<1>3. JobsInv'
  BY IdleJob DEF Escape, IInv, Shape, JobsInv
<1>4. AnswersInv'
  BY DEF Escape, IInv, AnswersInv
<1>5. LogosInv'
  BY DEF Escape, IInv, Shape, LogosInv, Threads
<1> QED
  BY <1>2, <1>3, <1>4, <1>5 DEF IInv

\* An info is added to the result, and the list goes on or is complete.
LEMMA DeliverIInv ==
  ASSUME IInv, NEW t \in Threads, NEW j \in Job, NEW i \in Info,
         Matches(j), Len(j.infos) < Len(j.asked), Fits(i, Company(j)),
         j.met \subseteq {"HTTPException"},
         j.failed = EmptyPlaces(j.infos) \cup
                    (IF i = Nothing THEN {Len(j.infos) + 1} ELSE {}),
         t = Updater => Len(j.asked) = 1,
         Deliver(t, j, i), UNCHANGED logos
  PROVE  IInv'
<1> DEFINE k == WithInfo(j, i)
           l == IF AllDelivered(k) THEN "done" ELSE "quote"
<1>1. Sound(k) /\ k.asked = j.asked /\ Len(k.infos) = Len(j.infos) + 1
  BY Delivered
<1>2. GoOn(t, l, k)
  BY DEF Deliver
<1>3. Len(j.infos) \in Nat /\ Len(j.asked) \in Nat
  BY DEF Job
<1>4. l \in {"quote", "done"}
  OBVIOUS
<1>5. l = "quote" => Len(k.infos) < Len(k.asked)
  BY <1>1, <1>3 DEF AllDelivered
<1>6. l = "done" => Len(k.infos) = Len(k.asked)
  BY DEF AllDelivered
<1> HIDE DEF k, l
<1> QED
  BY <1>1, <1>2, <1>4, <1>5, <1>6, GoesOn

\* The quote: an info to complete, an empty one, or the end of the request.
LEMMA GetQuoteIInv ==
  ASSUME IInv, NEW t \in Threads, GetQuote(t)
  PROVE  IInv'
<1> DEFINE old == job[t]
<1>1. PICK o \in Outcomes :
        LET j == Meet(job[t], o) IN
        IF o = "ok"
        THEN GoOn(t, "logo", [j EXCEPT !.info = [name |-> Company(j), priced |-> TRUE, logo |-> None]])
        ELSE IF Catches("HTTPException", o)
        THEN Deliver(t, [j EXCEPT !.failed = @ \cup {Len(j.infos) + 1}], Nothing)
        ELSE Escape(t, j)
  BY DEF GetQuote
<1>2. /\ Sound(old) /\ old \in Job /\ Len(old.infos) < Len(old.asked)
      /\ pc[t] = "quote" /\ UNCHANGED logos
      /\ t = Updater => Len(old.asked) = 1
  BY DEF GetQuote, IInv, JobsInv, Shape, LogosInv
<1>3. /\ old.asked \in Seq(Symbols) /\ old.infos \in Seq(Info) /\ old.info \in Info
      /\ old.failed \in SUBSET Nat /\ old.met \in SUBSET Exceptions
      /\ Company(old) \in Symbols /\ Len(old.infos) + 1 \in Nat
  BY <1>2 DEF Job, Company
<1>4. Matches(old) /\ old.failed = EmptyPlaces(old.infos) /\ old.met \subseteq {"HTTPException"}
  BY <1>2 DEF Sound
<1>5. CASE o = "ok"
  <2> DEFINE i == [name |-> Company(old), priced |-> TRUE, logo |-> None]
             j == [old EXCEPT !.info = i]
  <2>1. Meet(old, o) = old
    BY <1>2, <1>5 DEF Meet, Job
  <2>2. i \in Info
    BY <1>3 DEF Info
  <2>3. /\ j \in Job /\ j.asked = old.asked /\ j.infos = old.infos /\ j.info = i
        /\ j.failed = old.failed /\ j.met = old.met
    BY <1>2, <2>2 DEF Job
  <2>4. Sound(j) /\ Company(j) = Company(old)
    BY <1>4, <2>3 DEF Sound, Matches, Company
  <2>5. GoOn(t, "logo", j)
    BY <1>1, <1>5, <2>1
  <2> HIDE DEF j
  <2> QED
    BY <1>2, <2>3, <2>4, <2>5, GoesOn
<1>6. CASE o # "ok" /\ Catches("HTTPException", o)
  <2> DEFINE j == [Meet(old, o) EXCEPT !.failed = @ \cup {Len(Meet(old, o).infos) + 1}]
  <2>1. o = "HTTPException"
    BY <1>6, OnlyHTTP DEF Outcomes
  <2>2. /\ j \in Job /\ j.asked = old.asked /\ j.infos = old.infos
        /\ j.failed = old.failed \cup {Len(old.infos) + 1}
        /\ j.met = old.met \cup {"HTTPException"}
    BY <1>2, <1>3, <2>1 DEF Meet, Job, Exceptions, HTTPExceptions
  <2>3. Matches(j) /\ Company(j) = Company(old) /\ j.met \subseteq {"HTTPException"}
    BY <1>4, <2>2 DEF Matches, Company
  <2>4. Deliver(t, j, Nothing)
    BY <1>1, <1>6
  <2>5. Nothing \in Info /\ Fits(Nothing, Company(j))
    BY <1>3, <2>3, NothingFits
  <2> HIDE DEF j
  <2> QED
    BY <1>2, <1>4, <2>2, <2>3, <2>4, <2>5, DeliverIInv
<1>7. CASE o # "ok" /\ ~Catches("HTTPException", o)
  <2>1. o \in Exceptions /\ o # "HTTPException"
    BY <1>7, OnlyHTTP DEF Outcomes
  <2>2. Meet(old, o) \in Job /\ o \in Meet(old, o).met
    BY <1>2, <1>3, <2>1, <1>7 DEF Meet, Job
  <2> QED
    BY <1>1, <1>2, <1>7, <2>1, <2>2, EscapeIInv
<1> QED
  BY <1>5, <1>6, <1>7

\* The logo: it completes the info, which is delivered without it otherwise.
LEMMA GetLogoIInv ==
  ASSUME IInv, NEW t \in Threads, GetCompanyLogoLink(t)
  PROVE  IInv'
<1> DEFINE old == job[t]
<1>1. PICK o \in Outcomes :
        LET j == Meet(job[t], o) IN
        IF o = "ok" THEN Deliver(t, j, [j.info EXCEPT !.logo = Company(j)])
        ELSE IF Catches("HTTPException", o) THEN Deliver(t, j, WithoutLogo(j.info))
        ELSE Escape(t, j)
  BY DEF GetCompanyLogoLink
<1>2. /\ Sound(old) /\ old \in Job /\ Len(old.infos) < Len(old.asked)
      /\ pc[t] = "logo" /\ UNCHANGED logos
      /\ t = Updater => Len(old.asked) = 1
      /\ old.info = [name |-> Company(old), priced |-> TRUE, logo |-> None]
  BY DEF GetCompanyLogoLink, IInv, JobsInv, Shape, LogosInv
<1>3. /\ old.asked \in Seq(Symbols) /\ old.infos \in Seq(Info) /\ old.info \in Info
      /\ old.failed \in SUBSET Nat /\ old.met \in SUBSET Exceptions
      /\ Company(old) \in Symbols
  BY <1>2 DEF Job, Company
<1>4. Matches(old) /\ old.failed = EmptyPlaces(old.infos) /\ old.met \subseteq {"HTTPException"}
  BY <1>2 DEF Sound
<1>5. CASE o = "ok" \/ Catches("HTTPException", o)
  <2> DEFINE j == Meet(old, o)
             i == IF o = "ok" THEN [j.info EXCEPT !.logo = Company(j)] ELSE WithoutLogo(j.info)
  <2>1. o \in {"ok", "HTTPException"}
    BY <1>5, OnlyHTTP DEF Outcomes
  <2>2. /\ j \in Job /\ j.asked = old.asked /\ j.infos = old.infos /\ j.info = old.info
        /\ j.failed = old.failed /\ j.met \subseteq {"HTTPException"}
    BY <1>2, <1>4, <2>1 DEF Meet, Job, Exceptions, HTTPExceptions
  <2>3. Matches(j) /\ Company(j) = Company(old)
    BY <1>4, <2>2 DEF Matches, Company
  <2>4. Deliver(t, j, i)
    BY <1>1, <1>5
  <2>5. i \in Info /\ Fits(i, Company(j)) /\ i # Nothing
    <3>1. i.name = Company(old) /\ i.priced = TRUE /\ i.logo \in {Company(old), None} /\ i \in Info
      <4>1. /\ j.info \in Info /\ j.info.name = Company(old) /\ j.info.priced = TRUE
            /\ j.info.logo = None
        BY <1>2, <1>3, <2>2
      <4> HIDE DEF j
      <4>2. CASE o = "ok"
        BY <1>3, <4>1, <4>2, <2>3 DEF Info
      <4>3. CASE o # "ok"
        BY <4>1, <4>3 DEF WithoutLogo
      <4> QED
        BY <4>2, <4>3
    <3> HIDE DEF i
    <3> QED
      BY <1>3, <2>3, <3>1 DEF Fits, Nothing
  <2> HIDE DEF i, j
  <2> QED
    BY <1>2, <1>4, <2>2, <2>3, <2>4, <2>5, DeliverIInv
<1>6. CASE o # "ok" /\ ~Catches("HTTPException", o)
  <2>1. o \in Exceptions /\ o # "HTTPException"
    BY <1>6, OnlyHTTP DEF Outcomes
  <2>2. Meet(old, o) \in Job /\ o \in Meet(old, o).met
    BY <1>2, <1>3, <2>1, <1>6 DEF Meet, Job
  <2> QED
    BY <1>1, <1>2, <1>6, <2>1, <2>2, EscapeIInv
<1> QED
  BY <1>5, <1>6

\* A job that is done was sound and complete, and so is the answer.
LEMMA ReplyIInv ==
  ASSUME IInv, NEW h \in Handlers, Reply(h)
  PROVE  IInv'
<1>1. Sound(job[h]) /\ job[h] \in Job /\ Len(job[h].infos) = Len(job[h].asked)
  BY DEF Reply, Finish, IInv, JobsInv, Shape, Threads
<1>2. Shape'
  BY <1>1, IdleJob DEF Reply, Finish, IInv, Shape, Answer, Threads
<1>3. JobsInv'
  BY IdleJob DEF Reply, Finish, IInv, Shape, JobsInv, Threads
<1>4. AnswersInv'
  BY <1>1 DEF Reply, Finish, IInv, Shape, AnswersInv
<1>5. LogosInv'
  BY DEF Reply, Finish, IInv, Shape, LogosInv, Threads
<1> QED
  BY <1>2, <1>3, <1>4, <1>5 DEF IInv

\* The update thread stores the one info it asked for.
LEMMA StoreInfoIInv ==
  ASSUME IInv, StoreInfo
  PROVE  IInv'
<1> DEFINE j == job[Updater]
<1>1. Sound(j) /\ j \in Job /\ Len(j.infos) = 1 /\ Len(j.asked) = 1
  BY DEF StoreInfo, Finish, IInv, JobsInv, Shape, LogosInv, Threads
<1>2. j.infos[1] \in Info /\ Fits(j.infos[1], j.asked[1]) /\ j.asked[1] \in Symbols
  BY <1>1 DEF Sound, Matches, Job
<1>3. j.infos[1].name \in Symbols \cup {None} /\ j.infos[1].logo \in {j.infos[1].name, None}
  BY <1>2 DEF Info, Fits
<1>4. Shape'
  BY IdleJob DEF StoreInfo, Finish, IInv, Shape, Threads
<1>5. JobsInv'
  BY IdleJob DEF StoreInfo, Finish, IInv, Shape, JobsInv, Threads
<1>6. AnswersInv'
  BY DEF StoreInfo, Finish, IInv, AnswersInv
<1>7. LogosInv'
  BY <1>3 DEF StoreInfo, Finish, Stored, IInv, Shape, LogosInv, Threads
<1> QED
  BY <1>4, <1>5, <1>6, <1>7 DEF IInv

\* Every step preserves the inductive invariant.
LEMMA NextIInv == IInv /\ [Next]_vars => IInv'
<1> SUFFICES ASSUME IInv, [Next]_vars PROVE IInv'
  OBVIOUS
<1>1. CASE UNCHANGED vars
  BY <1>1 DEF vars, IInv, Shape, JobsInv, AnswersInv, LogosInv
<1>2. ASSUME NEW h \in Handlers, Request(h) PROVE IInv'
  <2>1. PICK cs \in Requests : Ask(h, cs)
    BY <1>2 DEF Request
  <2> QED
    BY <2>1, AskIInv DEF Threads
<1>3. CASE NextSymbol
  <2>1. PICK c \in Symbols : Ask(Updater, <<c>>)
    BY <1>3 DEF NextSymbol
  <2>2. <<c>> \in Seq(Symbols) /\ Len(<<c>>) = 1 /\ Updater \in Threads
    BY DEF Threads
  <2> QED
    BY <2>1, <2>2, AskIInv
<1> QED
  BY <1>1, <1>2, <1>3, GetQuoteIInv, GetLogoIInv, ReplyIInv, StoreInfoIInv DEF Next

-----------------------------------------------------------------------------
(* Theorems. *)

\* The inductive invariant holds in every state.
THEOREM Inductive == Spec => []IInv
  BY InitIInv, NextIInv, PTL DEF Spec

\* Every state has its type; a thread that fetches has a company to fetch.
THEOREM TypeCorrect == Spec => []TypeOK
<1>1. IInv => TypeOK
  BY DEF IInv, Shape, JobsInv, LogosInv, TypeOK
<1> QED
  BY <1>1, Inductive, PTL

\* An answer lists the companies in the order they were asked for, for requests
\* of any length and whatever else is being asked at the same time.
THEOREM AnswersMatch == Spec => []AnswersMatchRequests
<1>1. IInv => AnswersMatchRequests
  BY DEF IInv, AnswersInv, AnswersMatchRequests, Sound, Matches
<1> QED
  BY <1>1, Inductive, PTL

\* What an answer leaves empty is what had no quote.
THEOREM OnlyFailedAreEmpty == Spec => []OnlyFailedQuotesAreEmpty
<1>1. IInv => OnlyFailedQuotesAreEmpty
  BY DEF IInv, AnswersInv, OnlyFailedQuotesAreEmpty, Sound, EmptyPlaces
<1> QED
  BY <1>1, Inductive, PTL

\* A request is cancelled exactly when something else than HTTP failed.
THEOREM Cancelled == Spec => []CancelledWhenNotHTTP
<1>1. IInv => CancelledWhenNotHTTP
  BY DEF IInv, Shape, Answer, AnswersInv, CancelledWhenNotHTTP, Sound
<1> QED
  BY <1>1, Inductive, PTL

\* No request ends the process; a fetch of the update thread can.
THEOREM RequestsAreHarmless == Spec => RequestsNeverEndProcess
<1> DEFINE Harmless ==
      running /\ ~running' => pc[Updater] \in {"quote", "logo"} /\ pc'[Updater] = "idle"
<1>1. ASSUME IInv, Next PROVE Harmless
  <2>1. ASSUME NEW t \in Threads, NEW j, Escape(t, j), pc[t] \in {"quote", "logo"}
        PROVE  Harmless
    BY <1>1, <2>1 DEF Escape, Survives, IInv, Shape
  <2>2. ASSUME NEW t \in Threads, NEW l, NEW j, GoOn(t, l, j)
        PROVE  Harmless
    BY <2>2 DEF GoOn
  <2>3. ASSUME NEW t \in Threads, GetQuote(t) PROVE Harmless
    BY <2>1, <2>2, <2>3 DEF GetQuote, Deliver
  <2>4. ASSUME NEW t \in Threads, GetCompanyLogoLink(t) PROVE Harmless
    BY <2>1, <2>2, <2>4 DEF GetCompanyLogoLink, Deliver
  <2>5. CASE running' = running
    BY <2>5
  <2> QED
    BY <1>1, <2>3, <2>4, <2>5 DEF Next, Request, NextSymbol, Ask, Reply, StoreInfo
<1>2. IInv /\ [Next]_vars => [Harmless]_vars
  BY <1>1
<1> QED
  BY <1>2, Inductive, PTL DEF Spec, RequestsNeverEndProcess

\* A logo once stored stays.
THEOREM LogosKept == Spec => StoredLogosKept
<1> DEFINE Kept == \A c \in DOMAIN logos : c \in DOMAIN logos' /\ logos'[c] = logos[c]
<1>1. ASSUME StoreInfo PROVE Kept
  BY <1>1 DEF StoreInfo, Stored
<1>2. ASSUME Next, ~StoreInfo PROVE UNCHANGED logos
  BY <1>2 DEF Next, Request, NextSymbol, Ask, Reply, GetQuote, GetCompanyLogoLink
<1>3. [Next]_vars => [Kept]_vars
  BY <1>1, <1>2 DEF vars
<1> QED
  BY <1>3, PTL DEF Spec, StoredLogosKept

-----------------------------------------------------------------------------
(* The length of a request. *)

\* The steps that are left to a thread: a GET for the quote and one for the logo of each
\* company, and the answer.
JobLeft(t) ==
  2 * (Len(job[t].asked) - Len(job[t].infos)) + (IF pc[t] \in {"quote", "done"} THEN 1 ELSE 0)

OwnStep(t) ==
  \/ GetQuote(t) \/ GetCompanyLogoLink(t)
  \/ t \in Handlers /\ Reply(t)
  \/ t = Updater /\ StoreInfo

JobGoesOn ==
  \A t \in Threads : pc[t] # "idle" =>
    /\ JobLeft(t) \in Nat
    /\ JobLeft(t)' < JobLeft(t) \/ UNCHANGED <<pc[t], job[t]>>
    /\ OwnStep(t) => JobLeft(t)' < JobLeft(t)

LEMMA Longer ==
  ASSUME NEW j \in Job, NEW i
  PROVE  WithInfo(j, i).asked = j.asked /\ Len(WithInfo(j, i).infos) = Len(j.infos) + 1
<1>1. j.infos \in Seq(Info \cup {i})
  BY DEF Job
<1>2. Len(Append(j.infos, i)) = Len(j.infos) + 1
  BY <1>1
<1> QED
  BY <1>2 DEF WithInfo, Job

\* What becomes of a thread and its job.
LEMMA OwnStepMoves ==
  ASSUME IInv, NEW t \in Threads, OwnStep(t)
  PROVE  \/ pc'[t] = "idle" /\ Len(job'[t].asked) = 0 /\ Len(job'[t].infos) = 0 /\ pc[t] # "idle"
         \/ /\ pc[t] = "quote" /\ pc'[t] = "logo" /\ job'[t].asked = job[t].asked
            /\ Len(job'[t].infos) = Len(job[t].infos)
         \/ /\ pc[t] \in {"quote", "logo"} /\ pc'[t] \in {"quote", "done"}
            /\ job'[t].asked = job[t].asked /\ Len(job'[t].infos) = Len(job[t].infos) + 1
<1> DEFINE old == job[t]
<1>1. DOMAIN pc = Threads /\ DOMAIN job = Threads /\ old \in Job
  BY DEF IInv, Shape
<1>2. Len(NoJob.asked) = 0 /\ Len(NoJob.infos) = 0
  BY IdleJob
<1>3. ASSUME NEW j, Escape(t, j) PROVE pc'[t] = "idle" /\ job'[t] = NoJob
  BY <1>1, <1>3 DEF Escape
<1>4. ASSUME NEW j, NEW l, GoOn(t, l, j) PROVE pc'[t] = l /\ job'[t] = j
  BY <1>1, <1>4 DEF GoOn
<1>5. ASSUME NEW j \in Job, NEW i, Deliver(t, j, i)
      PROVE  /\ pc'[t] \in {"quote", "done"} /\ job'[t].asked = j.asked
             /\ Len(job'[t].infos) = Len(j.infos) + 1
  BY <1>4, <1>5, Longer DEF Deliver
<1>6. ASSUME NEW o \in Outcomes
      PROVE  /\ Meet(old, o) \in Job /\ Meet(old, o).asked = old.asked
             /\ Meet(old, o).infos = old.infos
  BY <1>1 DEF Meet, Job, Outcomes
<1>7. CASE GetQuote(t)
  <2>1. PICK o \in Outcomes :
          LET j == Meet(old, o) IN
          IF o = "ok"
          THEN GoOn(t, "logo", [j EXCEPT !.info = [name |-> Company(j), priced |-> TRUE, logo |-> None]])
          ELSE IF Catches("HTTPException", o)
          THEN Deliver(t, [j EXCEPT !.failed = @ \cup {Len(j.infos) + 1}], Nothing)
          ELSE Escape(t, j)
    BY <1>7 DEF GetQuote
  <2> DEFINE j == Meet(old, o)
  <2>2. j \in Job /\ j.asked = old.asked /\ j.infos = old.infos /\ pc[t] = "quote"
    BY <1>6, <1>7 DEF GetQuote
  <2>3. CASE o = "ok"
    <3>1. PICK i : GoOn(t, "logo", [j EXCEPT !.info = i])
      BY <2>1, <2>3
    <3> HIDE DEF j
    <3>2. [j EXCEPT !.info = i].asked = j.asked /\ [j EXCEPT !.info = i].infos = j.infos
      BY <2>2 DEF Job
    <3> QED
      BY <1>4, <2>2, <3>1, <3>2
  <2>4. CASE o # "ok" /\ Catches("HTTPException", o)
    <3> DEFINE k == [j EXCEPT !.failed = @ \cup {Len(j.infos) + 1}]
    <3>1. Deliver(t, k, Nothing)
      BY <2>1, <2>4
    <3> HIDE DEF j
    <3>2. k \in Job /\ k.asked = j.asked /\ k.infos = j.infos
      BY <2>2 DEF Job
    <3> HIDE DEF k
    <3> QED
      BY <1>5, <2>2, <3>1, <3>2
  <2>5. CASE o # "ok" /\ ~Catches("HTTPException", o)
    BY <1>2, <1>3, <2>1, <2>2, <2>5
  <2> QED
    BY <2>3, <2>4, <2>5
<1>8. CASE GetCompanyLogoLink(t)
  <2>1. pc[t] = "logo"
    BY <1>8 DEF GetCompanyLogoLink
  <2>2. PICK o \in Outcomes : (\E i : Deliver(t, Meet(old, o), i)) \/ Escape(t, Meet(old, o))
    BY <1>8 DEF GetCompanyLogoLink
  <2> DEFINE j == Meet(old, o)
  <2>3. j \in Job /\ j.asked = old.asked /\ j.infos = old.infos
    BY <1>6
  <2>4. CASE Escape(t, j)
    BY <1>2, <1>3, <2>1, <2>4
  <2>5. ASSUME NEW i, Deliver(t, j, i)
        PROVE  /\ pc'[t] \in {"quote", "done"} /\ job'[t].asked = old.asked
               /\ Len(job'[t].infos) = Len(old.infos) + 1
    <3> HIDE DEF j
    <3> QED
      BY <1>5, <2>3, <2>5
  <2> QED
    BY <2>1, <2>2, <2>4, <2>5
<1>9. CASE (t \in Handlers /\ Reply(t)) \/ (t = Updater /\ StoreInfo)
  BY <1>1, <1>2, <1>9 DEF Reply, StoreInfo, Finish
<1> QED
  BY <1>7, <1>8, <1>9 DEF OwnStep

\* Nobody touches the job of another thread.
LEMMA OthersStay ==
  ASSUME IInv, Next, NEW t \in Threads, pc[t] # "idle", ~OwnStep(t)
  PROVE  pc'[t] = pc[t] /\ job'[t] = job[t]
<1>1. pc \in [Threads -> {"idle", "quote", "logo", "done"}] /\ job \in [Threads -> Job]
  BY DEF IInv, Shape
<1>2. ASSUME NEW u, NEW cs, Ask(u, cs) PROVE pc'[t] = pc[t] /\ job'[t] = job[t]
  BY <1>1, <1>2 DEF Ask
<1>3. ASSUME NEW u \in Threads \ {t}, Finish(u) PROVE pc'[t] = pc[t] /\ job'[t] = job[t]
  BY <1>1, <1>3 DEF Finish
<1>4. ASSUME NEW u \in Threads \ {t}, NEW l, NEW j, GoOn(u, l, j)
      PROVE  pc'[t] = pc[t] /\ job'[t] = job[t]
  BY <1>1, <1>4 DEF GoOn
<1>5. ASSUME NEW u \in Threads \ {t}, NEW j, Escape(u, j)
      PROVE  pc'[t] = pc[t] /\ job'[t] = job[t]
  BY <1>1, <1>5 DEF Escape
<1>6. ASSUME NEW u \in Threads \ {t}, GetQuote(u) PROVE pc'[t] = pc[t] /\ job'[t] = job[t]
  BY <1>4, <1>5, <1>6 DEF GetQuote, Deliver
<1>7. ASSUME NEW u \in Threads \ {t}, GetCompanyLogoLink(u)
      PROVE  pc'[t] = pc[t] /\ job'[t] = job[t]
  BY <1>4, <1>5, <1>7 DEF GetCompanyLogoLink, Deliver
<1>8. CASE (\E h \in Handlers : Request(h)) \/ NextSymbol
  BY <1>2, <1>8 DEF Request, NextSymbol
<1>9. ASSUME NEW h \in Handlers, Reply(h) PROVE pc'[t] = pc[t] /\ job'[t] = job[t]
  BY <1>3, <1>9 DEF OwnStep, Reply, Threads
<1>10. CASE StoreInfo
  BY <1>3, <1>10 DEF OwnStep, StoreInfo, Threads
<1> QED
  BY <1>6, <1>7, <1>8, <1>9, <1>10 DEF Next, OwnStep

\* A request for n companies is over after 2 * n GETs at most, those for the logos
\* included, whatever the GETs come to and whoever else is being served: the list of
\* companies left to ask for becomes shorter each time and never runs past its end.
THEOREM RequestProgress == Spec => [][JobGoesOn]_vars
<1>1. ASSUME IInv, Next PROVE JobGoesOn
  <2> SUFFICES ASSUME NEW t \in Threads, pc[t] # "idle"
               PROVE  /\ JobLeft(t) \in Nat
                      /\ JobLeft(t)' < JobLeft(t) \/ UNCHANGED <<pc[t], job[t]>>
                      /\ OwnStep(t) => JobLeft(t)' < JobLeft(t)
    BY DEF JobGoesOn
  <2> DEFINE n == Len(job[t].asked)
             m == Len(job[t].infos)
  <2>1. /\ n \in Nat /\ m \in Nat /\ m <= n
        /\ pc[t] \in {"quote", "logo"} => m < n
        /\ pc[t] \in {"quote", "logo", "done"}
    <3>1. job[t] \in Job /\ pc[t] \in {"quote", "logo", "done"}
      BY <1>1 DEF IInv, Shape
    <3>2. Matches(job[t]) /\ (pc[t] \in {"quote", "logo"} => m < n)
      BY <1>1 DEF IInv, JobsInv, Sound
    <3>3. n \in Nat /\ m \in Nat
      BY <3>1 DEF Job
    <3> QED
      BY <3>1, <3>2, <3>3 DEF Matches
  <2>2. JobLeft(t) = 2 * (n - m) + (IF pc[t] \in {"quote", "done"} THEN 1 ELSE 0)
    BY DEF JobLeft
  <2>3. JobLeft(t)' = 2 * (n' - m') + (IF pc'[t] \in {"quote", "done"} THEN 1 ELSE 0)
    BY DEF JobLeft
  <2>4. OwnStep(t) => \/ pc'[t] = "idle" /\ n' = 0 /\ m' = 0
                      \/ pc[t] = "quote" /\ pc'[t] = "logo" /\ n' = n /\ m' = m
                      \/ /\ pc[t] \in {"quote", "logo"} /\ pc'[t] \in {"quote", "done"}
                         /\ n' = n /\ m' = m + 1
    BY <1>1, OwnStepMoves
  <2>5. ~OwnStep(t) => UNCHANGED <<pc[t], job[t]>>
    BY <1>1, OthersStay
  <2> HIDE DEF n, m
  <2>6. JobLeft(t) \in Nat
    BY <2>1, <2>2
  <2>7. OwnStep(t) => JobLeft(t)' < JobLeft(t)
    BY <2>1, <2>2, <2>3, <2>4
  <2> QED
    BY <2>5, <2>6, <2>7
<1>2. IInv /\ [Next]_vars => [JobGoesOn]_vars
  BY <1>1
<1> QED
  BY <1>2, Inductive, PTL DEF Spec

=============================================================================
