--------------------------- MODULE MockHttpProofs ---------------------------
(***************************************************************************)
(* Proofs about one mock HTTP server, for every set of requests, targets   *)
(* and responses and every bound on routes and looks: once stop returns    *)
(* nothing is at work, and the handlers, which take the mutex in turn and  *)
(* compare routes one step at a time, do together what HttpService does in *)
(* one step per request.                                                   *)
(***************************************************************************)
EXTENDS MockHttp, TLAPS
----------------------------------------------------------------------------
(* The invariants.                                                         *)

\* A handler is busy only while the accept loop is there for it; once stop was
\* called the Lua thread is joining the loop or the loop has ended.
Quiet ==
    /\ thread = "ended" => \A r \in Request : handler[r] \notin Busy
    /\ stopped /\ lua # "joining" => thread = "ended"
    /\ lua = "joining" => stopped
    /\ lua = "over" /\ owned => stopped
    /\ lua = "new" => thread = "none"

\* The handler that compares routes holds the mutex and has logged its request
\* last, none of the routes before its cursor is for its target, and only
\* requests that have left the mutex have a reply.
Matching ==
    /\ \A r \in Request : handler[r] = "matching" <=> mutex = r
    /\ mutex # Free =>
          /\ Len(requests) > 0 /\ requests[Len(requests)] = mutex
          /\ cursor[mutex] \in 1..Len(routes) + 1
          /\ \A i \in 1..Len(routes) : i < cursor[mutex] => routes[i].target # TargetOf[mutex]
    /\ \A r \in Request : handler[r] \in {"unsent", "sent", "accepted", "matching"} =>
          reply[r] = Unanswered
----------------------------------------------------------------------------
(* The shape of the state.                                                 *)

LEMMA InitType == Init => TypeOK
<1> SUFFICES ASSUME Init PROVE TypeOK
  OBVIOUS
<1>1. /\ requests \in Seq(Request) /\ routes \in Seq(RouteEntry) /\ polls \in 0..MaxPolls
  BY MockHttpAssumption DEF Init
<1>2. /\ handler \in [Request -> {"unsent", "sent"} \cup Busy \cup Settled]
      /\ cursor \in [Request -> Nat] /\ reply \in [Request -> Response \cup {NotFound, Unanswered}]
  BY DEF Init
<1> QED
  BY <1>1, <1>2 DEF Init, TypeOK

\* What a turn of the loop over the routes does.
LEMMA MatchingTurn ==
    ASSUME TypeOK, Matching, NEW r \in Request, Match(r)
    PROVE  /\ handler[r] = "matching" /\ cursor[r] \in 1..Len(routes) + 1 /\ Len(routes) \in Nat
           /\ mutex' \in {mutex, Free} /\ UNCHANGED <<luas, thread, requests, routes>>
           /\ \/ \E x \in Response \cup {NotFound} : Chosen(r, x) /\ UNCHANGED cursor
              \/ /\ cursor[r] <= Len(routes) /\ routes[cursor[r]].target # TargetOf[r]
                 /\ cursor' = [cursor EXCEPT ![r] = @ + 1] /\ UNCHANGED <<handler, reply, mutex>>
<1>1. /\ handler[r] = "matching" /\ cursor[r] \in 1..Len(routes) + 1 /\ Len(routes) \in Nat
      /\ UNCHANGED <<luas, thread, requests, routes>>
  BY MockHttpAssumption DEF Match, Matching, TypeOK
<1>2. CASE cursor[r] > Len(routes)
  BY <1>1, <1>2 DEF Match, Chosen
<1>3. CASE cursor[r] <= Len(routes)
  <2>1. ~(cursor[r] > Len(routes)) /\ cursor[r] \in 1..Len(routes)
    BY <1>1, <1>3
  <2>2. routes[cursor[r]].response \in Response
    <3>1. routes \in Seq(RouteEntry)
      BY DEF TypeOK
    <3>2. routes[cursor[r]] \in RouteEntry
      BY <2>1, <3>1
    <3> QED
      BY <3>2 DEF RouteEntry
  <2> QED
    BY <1>1, <1>3, <2>1, <2>2 DEF Match, Chosen
<1> QED
  BY <1>1, <1>2, <1>3

\* A step of one handler moves that handler alone.
LEMMA StepType == TypeOK /\ Matching /\ [Next]_vars => TypeOK'
<1> SUFFICES ASSUME TypeOK, Matching, [Next]_vars PROVE TypeOK'
  OBVIOUS
<1> USE MockHttpAssumption
<1>1. CASE LuaStep
  <2>1. CASE Route
    <3>1. PICK t \in Target, x \in Response : routes' = Append(routes, [target |-> t, response |-> x])
      BY <2>1 DEF Route
    <3>2. [target |-> t, response |-> x] \in RouteEntry
      BY DEF RouteEntry
    <3>3. routes' \in Seq(RouteEntry)
      BY <3>1, <3>2 DEF TypeOK
    <3> QED
      BY <2>1, <3>3 DEF Route, TypeOK, luas, handlers
  <2>2. ASSUME NEW r \in Request, TestSends(r) PROVE TypeOK'
    BY <2>2 DEF TestSends, Sent, TypeOK, luas, handlers
  <2>3. CASE Poll
    BY <2>3 DEF Poll, TypeOK, handlers
  <2>4. CASE Start \/ Started \/ GiveUp
    BY <2>4 DEF Start, Started, GiveUp, TypeOK, luas, handlers
  <2>5. CASE Stop \/ EndOfTest \/ CallStop \/ Join \/ TestResumes
    BY <2>5 DEF Stop, EndOfTest, CallStop, Join, TestResumes, TypeOK, luas, handlers
  <2> QED
    BY <1>1, <2>1, <2>2, <2>3, <2>4, <2>5 DEF LuaStep
<1>2. CASE ThreadRuns \/ ThreadEnds
  BY <1>2 DEF ThreadRuns, ThreadEnds, TypeOK, luas, handlers
<1>3. ASSUME NEW r \in Request, ClientSends(r) PROVE TypeOK'
  BY <1>3 DEF ClientSends, Sent, TypeOK, luas, handlers
<1>4. ASSUME NEW r \in Request, Accept(r) \/ Drop(r) \/ Answer(r) PROVE TypeOK'
  BY <1>4 DEF Accept, Drop, Answer, TypeOK, luas, handlers, Busy, Settled
<1>5. ASSUME NEW r \in Request, Record(r) PROVE TypeOK'
  BY <1>5 DEF Record, TypeOK, luas, handlers, Busy, Settled
<1>6. ASSUME NEW r \in Request, Match(r) PROVE TypeOK'
  <2>1. /\ handler[r] = "matching" /\ cursor[r] \in 1..Len(routes) + 1 /\ Len(routes) \in Nat
        /\ mutex' \in {mutex, Free} /\ UNCHANGED <<luas, thread, requests, routes>>
    BY <1>6, MatchingTurn
  <2>2. ASSUME NEW x \in Response \cup {NotFound}, Chosen(r, x), UNCHANGED cursor
        PROVE  TypeOK'
    BY <2>1, <2>2 DEF Chosen, TypeOK, luas, Busy, Settled
  <2>3. CASE UNCHANGED <<handler, reply>> /\ cursor' = [cursor EXCEPT ![r] = @ + 1]
    <3>1. cursor' \in [Request -> Nat]
      BY <2>3 DEF TypeOK
    <3> QED
      BY <2>1, <2>3, <3>1 DEF TypeOK, luas
  <2> QED
    BY <1>6, <2>2, <2>3, MatchingTurn
<1>7. CASE UNCHANGED vars
  BY <1>7 DEF vars, TypeOK, luas, handlers
<1> QED
  BY <1>1, <1>2, <1>3, <1>4, <1>5, <1>6, <1>7 DEF Next, HandlerStep

----------------------------------------------------------------------------
(* Comparing routes under the mutex.                                       *)

\* Most steps leave the mutex, the log, the routes and the replies alone, and
\* move no handler into the mutex or out of it.
LEMMA MatchingKept ==
    ASSUME Matching, UNCHANGED <<mutex, requests, routes, cursor, reply>>,
           \A r \in Request :
              \/ handler'[r] = handler[r]
              \/ /\ handler[r] # "matching" /\ handler'[r] # "matching"
                 /\ handler'[r] \in {"unsent", "sent", "accepted"} => handler[r] \in {"unsent", "sent"}
    PROVE  Matching'
BY DEF Matching

LEMMA MatchingRecord ==
    ASSUME TypeOK, Matching, NEW r \in Request, Record(r)
    PROVE  Matching'
<1> USE MockHttpAssumption DEF Record, handlers, luas
<1>1. /\ \A q \in Request : handler[q] # "matching"
      /\ \A q \in Request : handler'[q] = IF q = r THEN "matching" ELSE handler[q]
      /\ mutex' = r /\ cursor'[r] = 1 /\ reply[r] = Unanswered
  BY DEF Matching, TypeOK
<1>2. Len(requests') > 0 /\ requests'[Len(requests')] = r
  BY DEF TypeOK
<1>3. cursor'[r] \in 1..Len(routes') + 1 /\ \A i \in 1..Len(routes') : ~(i < cursor'[r])
  BY <1>1 DEF TypeOK
<1> QED
  BY <1>1, <1>2, <1>3 DEF Matching

LEMMA MatchingMatch ==
    ASSUME TypeOK, Matching, NEW r \in Request, Match(r)
    PROVE  Matching'
<1> USE MockHttpAssumption
<1>1. /\ mutex = r /\ \A q \in Request : handler[q] = "matching" <=> q = r
      /\ cursor[r] \in 1..Len(routes) + 1 /\ Len(routes) \in Nat
      /\ UNCHANGED <<requests, routes>>
  BY DEF Match, Matching, TypeOK
<1>2. ASSUME NEW x, Chosen(r, x), UNCHANGED cursor PROVE Matching'
  <2>1. /\ mutex' = Free
        /\ \A q \in Request : handler'[q] = IF q = r THEN "matched" ELSE handler[q]
        /\ \A q \in Request : q # r => reply'[q] = reply[q]
    BY <1>2 DEF Chosen, TypeOK
  <2> QED
    BY <1>1, <2>1 DEF Matching
<1>3. ASSUME cursor[r] <= Len(routes), routes[cursor[r]].target # TargetOf[r],
             cursor' = [cursor EXCEPT ![r] = @ + 1], UNCHANGED <<handler, reply, mutex>>
      PROVE  Matching'
  <2>1. cursor'[r] = cursor[r] + 1
    BY <1>3 DEF TypeOK
  <2>2. /\ cursor'[r] \in 1..Len(routes') + 1
        /\ \A i \in 1..Len(routes') : i < cursor'[r] => i < cursor[r] \/ i = cursor[r]
    BY <1>1, <1>3, <2>1
  <2> QED
    BY <1>1, <1>3, <2>2 DEF Matching
<1> QED
  BY <1>1, <1>2, <1>3, MatchingTurn

LEMMA MatchingStep == TypeOK /\ Matching /\ [Next]_vars => Matching'
<1> SUFFICES ASSUME TypeOK, Matching, [Next]_vars PROVE Matching'
  OBVIOUS
<1> USE MockHttpAssumption
<1>1. CASE Route
  BY <1>1 DEF Route, Matching, handlers
<1>2. ASSUME NEW r \in Request, TestSends(r) \/ ClientSends(r) PROVE Matching'
  <2>1. handler[r] = "unsent" /\ \A q \in Request : handler'[q] = IF q = r THEN "sent" ELSE handler[q]
    BY <1>2 DEF TestSends, ClientSends, Sent, TypeOK
  <2>2. UNCHANGED <<mutex, requests, routes, cursor, reply>>
    BY <1>2 DEF TestSends, ClientSends, Sent
  <2> QED
    BY <2>1, <2>2, MatchingKept
<1>3. ASSUME NEW r \in Request, Accept(r) \/ Drop(r) \/ Answer(r) PROVE Matching'
  <2>1. \E to \in {"accepted", "dropped", "answered"} :
          /\ \A q \in Request : handler'[q] = IF q = r THEN to ELSE handler[q]
          /\ handler[r] = IF to = "answered" THEN "matched" ELSE "sent"
    BY <1>3 DEF Accept, Drop, Answer, TypeOK
  <2>2. UNCHANGED <<mutex, requests, routes, cursor, reply>>
    BY <1>3 DEF Accept, Drop, Answer
  <2> QED
    BY <2>1, <2>2, MatchingKept
<1>4. CASE Start \/ Started \/ Poll \/ GiveUp \/ Stop \/ EndOfTest \/ CallStop \/ Join \/ TestResumes
           \/ ThreadRuns \/ ThreadEnds \/ UNCHANGED vars
  <2>1. UNCHANGED <<mutex, requests, routes, handlers>>
    BY <1>4 DEF Start, Started, Poll, GiveUp, Stop, EndOfTest, CallStop, Join, TestResumes,
                ThreadRuns, ThreadEnds, vars
  <2> QED
    BY <2>1, MatchingKept DEF handlers
<1> QED
  BY <1>1, <1>2, <1>3, <1>4, MatchingRecord, MatchingMatch DEF Next, LuaStep, HandlerStep

LEMMA ShapeCorrect == Spec => [](TypeOK /\ Matching)
<1>1. Init => Matching
  BY MockHttpAssumption DEF Init, Matching
<1> QED
  BY <1>1, InitType, StepType, MatchingStep, PTL DEF Spec

\* Every state has its type, for any number of requests, routes and looks.
THEOREM TypeCorrect == Spec => []TypeOK
BY ShapeCorrect, PTL
----------------------------------------------------------------------------
(* Stopping.                                                               *)

\* A handler becomes busy only while the accept loop runs.
LEMMA BusyStep ==
    ASSUME TypeOK, Quiet, [Next]_vars
    PROVE  /\ thread = "ended" => thread' = "ended"
           /\ thread' = "ended" /\ thread # "ended" => \A r \in Request : handler'[r] \notin Busy
           /\ thread = "ended" => \A r \in Request : handler'[r] \in Busy => handler[r] \in Busy
<1> USE DEF Busy, TypeOK
<1>1. CASE LuaStep
  <2>1. CASE \E r \in Request : TestSends(r)
    BY <2>1 DEF TestSends, Sent
  <2>2. CASE Start \/ Started \/ Poll \/ GiveUp \/ Stop \/ EndOfTest \/ CallStop \/ Join \/ Route
             \/ TestResumes
    BY <2>2 DEF Start, Started, Poll, GiveUp, Stop, EndOfTest, CallStop, Join, Route, TestResumes,
                handlers, luas, Quiet
  <2> QED
    BY <1>1, <2>1, <2>2 DEF LuaStep
<1>2. CASE ThreadRuns \/ ThreadEnds
  BY <1>2 DEF ThreadRuns, ThreadEnds, handlers
<1>3. ASSUME NEW r \in Request, ClientSends(r) \/ HandlerStep(r),
             NEW q \in Request
      PROVE  thread' = thread /\ (thread = "ended" => (handler'[q] \in Busy => handler[q] \in Busy))
  BY <1>3 DEF ClientSends, Sent, HandlerStep, Accept, Drop, Record, Match, Chosen, Answer
<1>4. CASE UNCHANGED vars
  BY <1>4 DEF vars, handlers
<1> QED
  BY <1>1, <1>2, <1>3, <1>4 DEF Next

LEMMA QuietStep == TypeOK /\ Quiet /\ [Next]_vars => Quiet'
<1> SUFFICES ASSUME TypeOK, Quiet, [Next]_vars PROVE Quiet'
  OBVIOUS
<1>1. thread' = "ended" => \A r \in Request : handler'[r] \notin Busy
  BY BusyStep DEF Quiet
<1>2. /\ stopped' /\ lua' # "joining" => thread' = "ended"
      /\ lua' = "joining" => stopped'
      /\ lua' = "over" /\ owned' => stopped'
      /\ lua' = "new" => thread' = "none"
  <2> USE DEF Quiet
  <2>1. CASE Start \/ Started \/ Poll \/ GiveUp
    BY <2>1 DEF Start, Started, Poll, GiveUp, TypeOK
  <2>2. CASE Stop \/ EndOfTest
    BY <2>2 DEF Stop, EndOfTest
  <2>3. CASE CallStop \/ Join
    BY <2>3 DEF CallStop, Join, TypeOK
  <2>4. CASE Route \/ TestResumes \/ \E r \in Request : TestSends(r)
    BY <2>4 DEF Route, TestResumes, TestSends, Sent, luas
  <2>5. CASE ThreadRuns \/ ThreadEnds
    BY <2>5 DEF ThreadRuns, ThreadEnds, luas
  <2>6. CASE \E r \in Request : ClientSends(r) \/ HandlerStep(r)
    BY <2>6 DEF ClientSends, Sent, HandlerStep, Accept, Drop, Record, Match, Answer, luas
  <2>7. CASE UNCHANGED vars
    BY <2>7 DEF vars, luas
  <2> QED
    BY <2>1, <2>2, <2>3, <2>4, <2>5, <2>6, <2>7 DEF Next, LuaStep
<1> QED
  BY <1>1, <1>2 DEF Quiet

\* Once stop has returned no handler is at work and the accept loop has
\* ended, whatever handlers and clients were doing when it was called; a test
\* that ends with its stop deferred has stopped.
THEOREM StopIsFinal == Spec => []QuietAfterStop
<1>1. Init => Quiet
  BY DEF Init, Quiet
<1>2. Quiet => QuietAfterStop
  BY DEF Quiet, QuietAfterStop
<1> QED
  BY <1>1, <1>2, QuietStep, TypeCorrect, PTL DEF Spec
----------------------------------------------------------------------------
(* The service.                                                            *)

\* What is read off the routes one at a time is what the service looks up.
LEMMA LookupFirst ==
    ASSUME NEW table \in Seq(RouteEntry), NEW t, NEW c \in 1..Len(table) + 1,
           \A i \in 1..Len(table) : i < c => table[i].target # t
    PROVE  /\ c > Len(table) => Service!Lookup(table, t) = NotFound
           /\ c <= Len(table) /\ table[c].target = t => Service!Lookup(table, t) = table[c].response
<1>1. Len(table) \in Nat
  OBVIOUS
<1>2. CASE c > Len(table)
  <2>1. Service!Matches(table, t) = {}
    BY <1>1, <1>2 DEF Service!Matches
  <2> QED
    BY <1>1, <1>2, <2>1 DEF Service!Lookup
<1>3. CASE c <= Len(table) /\ table[c].target = t
  <2> DEFINE M == Service!Matches(table, t)
  <2>1. c \in M /\ \A i \in M : i \in 1..Len(table) /\ c <= i
    BY <1>1, <1>3 DEF Service!Matches
  <2> HIDE DEF M
  <2>2. \A i \in M : (\A j \in M : i <= j) => i = c
    BY <1>1, <2>1
  <2> DEFINE first == CHOOSE i \in M : \A j \in M : i <= j
  <2>3. first = c
    BY <2>1, <2>2
  <2>4. M # {}
    BY <2>1
  <2>5. Service!Lookup(table, t) = table[first].response
    BY <2>4 DEF M, Service!Lookup
  <2> HIDE DEF first
  <2> QED
    BY <1>1, <1>3, <2>3, <2>5
<1>4. CASE c <= Len(table) /\ table[c].target # t
  BY <1>1, <1>4
<1> QED
  BY <1>1, <1>2, <1>3, <1>4

\* The log without the request that is being compared.
LEMMA LogProperties ==
    ASSUME NEW s \in Seq(Request), NEW r \in Request
    PROVE  /\ SubSeq(Append(s, r), 1, Len(Append(s, r)) - 1) = s
           /\ Len(s) > 0 /\ s[Len(s)] = r => Append(SubSeq(s, 1, Len(s) - 1), r) = s
<1>1. Append(s, r) \in Seq(Request) /\ Len(Append(s, r)) = Len(s) + 1 /\ Len(s) \in Nat
  OBVIOUS
<1>2. SubSeq(Append(s, r), 1, Len(Append(s, r)) - 1) = s
  BY <1>1
<1>3. ASSUME Len(s) > 0, s[Len(s)] = r
      PROVE  Append(SubSeq(s, 1, Len(s) - 1), r) = s
  BY <1>1, <1>3
<1> QED
  BY <1>2, <1>3

LEMMA ServeStep ==
    ASSUME TypeOK, Matching, NEW r \in Request, Match(r)
    PROVE  [Service!Next]_(Service!vars)
<1> USE MockHttpAssumption
<1>1. /\ mutex = r /\ r # Free /\ reply[r] = Unanswered
      /\ Len(requests) > 0 /\ requests[Len(requests)] = r
      /\ cursor[r] \in 1..Len(routes) + 1
      /\ \A i \in 1..Len(routes) : i < cursor[r] => routes[i].target # TargetOf[r]
      /\ requests \in Seq(Request) /\ routes \in Seq(RouteEntry) /\ Len(routes) \in Nat
  BY DEF Match, Matching, TypeOK
<1>2. UNCHANGED <<requests, routes>>
  BY DEF Match
<1>3. CASE UNCHANGED <<reply, mutex>>
  BY <1>2, <1>3 DEF Service!vars
<1>4. ASSUME NEW x, Chosen(r, x), x = Service!Lookup(routes, TargetOf[r])
      PROVE  Service!Next
  <2>1. mutex' = Free /\ reply' = [reply EXCEPT ![r] = Service!Lookup(routes, TargetOf[r])]
    BY <1>4 DEF Chosen
  <2>2. requests' = Append(SubSeq(requests, 1, Len(requests) - 1), r)
    BY <1>1, <1>2, LogProperties
  <2>3. Service!Serve(r)
    BY <1>1, <1>2, <2>1, <2>2 DEF Service!Serve
  <2> QED
    BY <2>3 DEF Service!Next
<1>5. CASE cursor[r] > Len(routes)
  <2>1. Chosen(r, NotFound)
    BY <1>5 DEF Match
  <2> QED
    BY <1>1, <1>4, <1>5, <2>1, LookupFirst
<1>6. CASE ~(cursor[r] > Len(routes)) /\ routes[cursor[r]].target = TargetOf[r]
  <2>1. Chosen(r, routes[cursor[r]].response)
    BY <1>6 DEF Match
  <2>2. cursor[r] <= Len(routes)
    BY <1>1, <1>6
  <2> QED
    BY <1>1, <1>4, <1>6, <2>1, <2>2, LookupFirst
<1>7. CASE ~(cursor[r] > Len(routes)) /\ routes[cursor[r]].target # TargetOf[r]
  BY <1>3, <1>7 DEF Match
<1> QED
  BY <1>5, <1>6, <1>7

LEMMA ServiceStep ==
    TypeOK /\ Matching /\ [Next]_vars => [Service!Next]_(Service!vars)
<1> SUFFICES ASSUME TypeOK, Matching, [Next]_vars PROVE [Service!Next]_(Service!vars)
  OBVIOUS
<1> USE MockHttpAssumption
<1>1. CASE Route
  BY <1>1 DEF Route, handlers, Service!Next, Service!AddRoute
<1>2. ASSUME NEW r \in Request, Record(r) PROVE UNCHANGED Service!vars
  <2>1. requests' = Append(requests, r) /\ mutex = Free /\ mutex' = r /\ requests \in Seq(Request)
    BY <1>2 DEF Record, TypeOK
  <2> QED
    BY <1>2, <2>1, LogProperties DEF Record, Service!vars
<1>3. ASSUME \/ LuaStep /\ ~Route
             \/ ThreadRuns \/ ThreadEnds \/ UNCHANGED vars
             \/ \E r \in Request : ClientSends(r) \/ Accept(r) \/ Drop(r) \/ Answer(r)
      PROVE  UNCHANGED Service!vars
  <2>1. UNCHANGED <<mutex, requests, routes, reply>>
    BY <1>3 DEF LuaStep, Start, Started, Poll, GiveUp, Stop, EndOfTest, CallStop, Join, TestResumes,
                TestSends, ClientSends, Sent, ThreadRuns, ThreadEnds, Accept, Drop, Answer, vars, handlers
  <2> QED
    BY <2>1 DEF Service!vars
<1> QED
  BY <1>1, <1>2, <1>3, ServeStep DEF Next, LuaStep, HandlerStep

\* Configuring and serving are linearizable: the server implements
\* HttpService, where a request is logged and answered by the first route for
\* its target in one step.
THEOREM ServesAtomically == Spec => ServiceSpec
<1>1. Init => Service!Init
  BY DEF Init, Service!Init
<1> QED
  BY <1>1, ShapeCorrect, ServiceStep, PTL DEF Spec, ServiceSpec, Service!Spec
============================================================================
