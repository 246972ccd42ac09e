------------------------------ MODULE MockHttp ------------------------------
(***************************************************************************)
(* One mock HTTP server or proxy (src/mock_http.cpp): the Lua thread that  *)
(* creates it, configures it, reads its requests and stops it; the thread  *)
(* that runs httplib's accept loop; and httplib's pool of handlers, each   *)
(* with one request of a client.  Clients are processes a test has         *)
(* started, or the test itself, which then waits for its answer.           *)
(*                                                                         *)
(* A target is what routes are compared by: method and path for a server   *)
(* (the method in upper case), the host for a proxy (in lower case and     *)
(* without its port).  Both sides of the comparison are normalized the     *)
(* same way, so targets are model values.                                  *)
(***************************************************************************)
EXTENDS Naturals, Sequences

CONSTANTS
    Request,    \* the requests clients may send, each once
    Target,     \* what a request asks for
    Response,   \* configured responses
    TargetOf,   \* the target of a request
    NotFound,   \* the answer "no mock route configured"
    Unanswered, \* no answer yet
    Free,       \* nobody holds the mutex
    MaxRoutes,  \* bound on the routes of an instance
    MaxPolls    \* how often start_instance looks whether the server runs

ASSUME MockHttpAssumption ==
    /\ TargetOf \in [Request -> Target]
    /\ NotFound \notin Response /\ Unanswered \notin Response \cup {NotFound}
    /\ Free \notin Request
    /\ MaxRoutes \in Nat /\ MaxPolls \in Nat

VARIABLES
    lua,        \* what the Lua thread is doing
    polls,      \* looks that are left to start_instance
    then,       \* where the Lua thread goes on once stop_instance returns
    owned,      \* the stop that was deferred will be run at the end of the test
    awaited,    \* the requests whose answer the Lua thread waits for
    stopped,    \* stop_instance was called
    thread,     \* the accept loop
    mutex,      \* who holds instance->mutex
    requests, routes,
    handler,    \* how far each request has got
    cursor,     \* the next route a handler compares its request with
    reply       \* the response a handler has chosen

luas == <<lua, polls, then, owned, awaited, stopped>>
handlers == <<handler, cursor, reply>>
vars == <<luas, thread, mutex, requests, routes, handlers>>

Busy == {"accepted", "matching", "matched"}
Settled == {"answered", "dropped"}

Init ==
    /\ lua = "new" /\ polls = MaxPolls /\ then = "idle" /\ owned = FALSE
    /\ awaited = {} /\ stopped = FALSE
    /\ thread = "none" /\ mutex = Free
    /\ requests = <<>> /\ routes = <<>>
    /\ handler = [r \in Request |-> "unsent"]
    /\ cursor = [r \in Request |-> 0]
    /\ reply = [r \in Request |-> Unanswered]
----------------------------------------------------------------------------
(* Starting.                                                               *)

\* bind_to_any_port fails, or the thread is created.
Start ==
    /\ lua = "new"
    /\ \/ lua' = "raised" /\ UNCHANGED thread
       \/ lua' = "polling" /\ thread' = "spawned"
    /\ UNCHANGED <<polls, then, owned, awaited, stopped, mutex, requests, routes, handlers>>

\* The server runs: its stop is deferred and the test gets its handle.  A
\* function deferred outside a test's hooks and body is dropped.
Started ==
    /\ lua = "polling" /\ polls > 0 /\ thread = "running"
    /\ lua' = "idle" /\ owned' \in BOOLEAN
    /\ UNCHANGED <<polls, then, awaited, stopped, thread, mutex, requests, routes, handlers>>

\* Mutant: the loop looks once too often.
Poll_again ==
    /\ lua = "polling" /\ thread # "running"
    /\ polls' = polls - 1
    /\ UNCHANGED <<lua, then, owned, awaited, stopped, thread, mutex, requests, routes,
                   handlers>>

Poll ==
    /\ lua = "polling" /\ polls > 0 /\ thread # "running"
    /\ polls' = polls - 1
    /\ UNCHANGED <<lua, then, owned, awaited, stopped, thread, mutex, requests, routes,
                   handlers>>

\* No look is left: the instance is stopped and then an error is raised,
\* unless the thread gets to its accept loop after CallStop: nobody stops
\* that loop, and the join waits for ever.
GiveUp ==
    /\ lua = "polling" /\ polls = 0
    /\ lua' = "stopping" /\ then' = "raised"
    /\ UNCHANGED <<polls, owned, awaited, stopped, thread, mutex, requests, routes, handlers>>

\* httplib: the accept loop begins.
ThreadRuns ==
    /\ thread = "spawned"
    /\ thread' = "running"
    /\ UNCHANGED <<luas, mutex, requests, routes, handlers>>
----------------------------------------------------------------------------
(* Stopping.                                                               *)

\* The test calls stop, or it ends and its deferred functions are run.
Stop ==
    /\ lua = "idle"
    /\ lua' = "stopping" /\ then' = "idle"
    /\ UNCHANGED <<polls, owned, awaited, stopped, thread, mutex, requests, routes, handlers>>

EndOfTest ==
    /\ lua = "idle"
    /\ IF owned THEN lua' = "stopping" /\ then' = "over"
                ELSE lua' = "over" /\ UNCHANGED then
    /\ UNCHANGED <<polls, owned, awaited, stopped, thread, mutex, requests, routes, handlers>>

\* Mutants: the thread is not joined; it is joined and the server not stopped.
CallStop_detaches ==
    /\ lua = "stopping"
    /\ stopped' = TRUE
    /\ lua' = then
    /\ thread' = IF ~stopped /\ thread = "running" THEN "closing" ELSE thread
    /\ UNCHANGED <<polls, then, owned, awaited, mutex, requests, routes, handlers>>

CallStop_only_joins ==
    /\ lua = "stopping"
    /\ stopped' = TRUE
    /\ lua' = IF stopped THEN then ELSE "joining"
    /\ UNCHANGED <<polls, then, owned, awaited, thread, mutex, requests, routes, handlers>>

\* stop_instance.  httplib's stop does nothing to a server that does not
\* run yet.
CallStop ==
    /\ lua = "stopping"
    /\ stopped' = TRUE
    /\ IF stopped
       THEN lua' = then /\ UNCHANGED thread
       ELSE /\ lua' = "joining"
            /\ thread' = IF thread = "running" THEN "closing" ELSE thread
    /\ UNCHANGED <<polls, then, owned, awaited, mutex, requests, routes, handlers>>

Join ==
    /\ lua = "joining" /\ thread = "ended"
    /\ lua' = then
    /\ UNCHANGED <<polls, then, owned, awaited, stopped, thread, mutex, requests, routes,
                   handlers>>

\* httplib: the accept loop has ended and every handler has returned.
ThreadEnds ==
    /\ thread = "closing" /\ \A r \in Request : handler[r] \notin Busy
    /\ thread' = "ended"
    /\ UNCHANGED <<luas, mutex, requests, routes, handlers>>
----------------------------------------------------------------------------
(* The test and its clients.  get_requests takes the mutex, copies the     *)
(* requests and changes nothing: it reads requests while mutex is Free.    *)

Route ==
    /\ lua = "idle" /\ mutex = Free /\ Len(routes) < MaxRoutes
    /\ \E t \in Target, x \in Response : routes' = Append(routes, [target |-> t, response |-> x])
    /\ UNCHANGED <<luas, thread, mutex, requests, handlers>>

\* A client that was given the port sends a request.
Sent(r) ==
    /\ handler[r] = "unsent"
    /\ handler' = [handler EXCEPT ![r] = "sent"]
    /\ UNCHANGED <<polls, then, owned, stopped, thread, mutex, requests, routes, cursor, reply>>

ClientSends(r) ==
    /\ lua \notin {"new", "polling", "raised"} /\ then # "raised"
    /\ Sent(r)
    /\ UNCHANGED <<lua, awaited>>

\* The test calls its own server, and waits.
TestSends(r) ==
    /\ lua = "idle" /\ Sent(r)
    /\ lua' = "calling" /\ awaited' = {r}

TestResumes ==
    /\ lua = "calling" /\ \A r \in awaited : handler[r] \in Settled
    /\ lua' = "idle" /\ awaited' = {}
    /\ UNCHANGED <<polls, then, owned, stopped, thread, mutex, requests, routes, handlers>>
----------------------------------------------------------------------------
(* httplib hands a request to a handler, or closes its connection.         *)

Accept(r) ==
    /\ handler[r] = "sent" /\ thread = "running"
    /\ handler' = [handler EXCEPT ![r] = "accepted"]
    /\ UNCHANGED <<luas, thread, mutex, requests, routes, cursor, reply>>

Drop(r) ==
    /\ handler[r] = "sent" /\ thread \in {"closing", "ended"}
    /\ handler' = [handler EXCEPT ![r] = "dropped"]
    /\ UNCHANGED <<luas, thread, mutex, requests, routes, cursor, reply>>

(* handle_request.                                                         *)

\* Mutant: the mutex guards the list of requests only.
Record_unlocks(r) ==
    /\ handler[r] = "accepted" /\ mutex = Free
    /\ requests' = Append(requests, r)
    /\ cursor' = [cursor EXCEPT ![r] = 1]
    /\ handler' = [handler EXCEPT ![r] = "matching"]
    /\ UNCHANGED <<luas, thread, mutex, routes, reply>>

Record(r) ==
    /\ handler[r] = "accepted" /\ mutex = Free
    /\ mutex' = r
    /\ requests' = Append(requests, r)
    /\ cursor' = [cursor EXCEPT ![r] = 1]
    /\ handler' = [handler EXCEPT ![r] = "matching"]
    /\ UNCHANGED <<luas, thread, routes, reply>>

\* Leaving the block that holds the mutex.
Chosen(r, response) ==
    /\ reply' = [reply EXCEPT ![r] = response]
    /\ handler' = [handler EXCEPT ![r] = "matched"]
    /\ mutex' = Free

\* Mutant: the handler keeps the mutex when no route matches.
Match_keeps_lock(r) ==
    /\ handler[r] = "matching"
    /\ IF cursor[r] > Len(routes)
       THEN /\ reply' = [reply EXCEPT ![r] = NotFound]
            /\ handler' = [handler EXCEPT ![r] = "matched"]
            /\ UNCHANGED <<cursor, mutex>>
       ELSE IF routes[cursor[r]].target = TargetOf[r]
            THEN Chosen(r, routes[cursor[r]].response) /\ UNCHANGED cursor
            ELSE /\ cursor' = [cursor EXCEPT ![r] = @ + 1]
                 /\ UNCHANGED <<handler, reply, mutex>>
    /\ UNCHANGED <<luas, thread, requests, routes>>

\* One turn of the loop over the routes, or its end.
Match(r) ==
    /\ handler[r] = "matching"
    /\ IF cursor[r] > Len(routes)
       THEN Chosen(r, NotFound) /\ UNCHANGED cursor
       ELSE IF routes[cursor[r]].target = TargetOf[r]
            THEN Chosen(r, routes[cursor[r]].response) /\ UNCHANGED cursor
            ELSE /\ cursor' = [cursor EXCEPT ![r] = @ + 1]
                 /\ UNCHANGED <<handler, reply, mutex>>
    /\ UNCHANGED <<luas, thread, requests, routes>>

Answer(r) ==
    /\ handler[r] = "matched"
    /\ handler' = [handler EXCEPT ![r] = "answered"]
    /\ UNCHANGED <<luas, thread, mutex, requests, routes, cursor, reply>>

LuaStep ==
    \/ Start \/ Started \/ Poll \/ GiveUp
    \/ Stop \/ EndOfTest \/ CallStop \/ Join
    \/ Route \/ TestResumes \/ \E r \in Request : TestSends(r)

HandlerStep(r) == Accept(r) \/ Drop(r) \/ Record(r) \/ Match(r) \/ Answer(r)

Next ==
    \/ LuaStep
    \/ ThreadRuns \/ ThreadEnds
    \/ \E r \in Request : ClientSends(r) \/ HandlerStep(r)

Spec == Init /\ [][Next]_vars

\* The scheduler runs every thread that can go on; httplib has a handler for
\* every connection (its pool is larger than the number of requests here)
\* and gives up on connections that are silent.  The Lua thread goes on with
\* what it has begun, but the test need not make any particular call.
Fairness ==
    /\ WF_vars(Start \/ Started \/ Poll \/ GiveUp \/ CallStop \/ Join \/ TestResumes)
    /\ WF_vars(ThreadRuns) /\ WF_vars(ThreadEnds)
    /\ \A r \in Request : WF_vars(Accept(r) \/ Drop(r)) /\ WF_vars(Record(r))
                          /\ WF_vars(Match(r)) /\ WF_vars(Answer(r))

FairSpec == Spec /\ Fairness
----------------------------------------------------------------------------
(* Properties.                                                             *)

RouteEntry == [target : Target, response : Response]

\* The shape of the state.
TypeOK ==
    /\ lua \in {"new", "polling", "idle", "calling", "stopping", "joining", "over", "raised"}
    /\ polls \in 0..MaxPolls /\ then \in {"idle", "over", "raised"} /\ owned \in BOOLEAN
    /\ awaited \subseteq Request /\ stopped \in BOOLEAN
    /\ thread \in {"none", "spawned", "running", "closing", "ended"}
    /\ mutex \in Request \cup {Free}
    /\ requests \in Seq(Request) /\ routes \in Seq(RouteEntry)
    /\ handler \in [Request -> {"unsent", "sent"} \cup Busy \cup Settled]
    /\ cursor \in [Request -> Nat]
    /\ reply \in [Request -> Response \cup {NotFound, Unanswered}]

\* Configuring and serving are linearizable: the handlers and the Lua thread
\* together do what HttpService does one request at a time, with a request
\* served at the moment its handler leaves the mutex.
Service == INSTANCE HttpService WITH
    log <- IF mutex = Free THEN requests ELSE SubSeq(requests, 1, Len(requests) - 1)

ServiceSpec == Service!Spec

\* Once stop has returned, to the test or to the deferred functions, no
\* handler is at work and the accept loop has ended, so the list of requests
\* is final; and a test that ends with its stop deferred has stopped.
QuietAfterStop ==
    lua \in {"idle", "calling", "over"} /\ (stopped \/ (owned /\ lua = "over")) =>
        /\ thread = "ended"
        /\ \A r \in Request : handler[r] \notin Busy

\* Every request that is sent is answered or its connection is closed, even
\* when a stop, a route or other requests come between.
SentIsSettled == \A r \in Request : handler[r] = "sent" ~> handler[r] \in Settled

\* Stopping a server that has started comes to its end, whatever its
\* handlers are doing.
StopReturns == lua = "stopping" /\ then # "raised" ~> lua \in {"idle", "over"}
============================================================================
