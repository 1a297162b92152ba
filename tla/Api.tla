---------------------------------- MODULE Api ----------------------------------
(****************************************************************************)
(* The life of one rhaxis-api process (cmd/rhaxis-api/main.go): it opens    *)
(* the driver, serves until SIGINT or SIGTERM, waits at most five seconds   *)
(* for the requests it has begun, closes the driver and ends.  One request  *)
(* is the one FlowReader draws in detail; the others (service map, endpoint *)
(* list, health) are a query each.  A handler runs in a goroutine of its    *)
(* own; a query has no deadline but its client's.                           *)
(****************************************************************************)
EXTENDS FlowReader

CONSTANT Others     \* requests beside the one FlowReader draws

VARIABLES
    main,       \* what the main goroutine is at
    driver,     \* the Neo4j driver
    others,     \* where the other requests are
    timedOut    \* Shutdown gave up waiting

serverVars == <<main, driver, timedOut>>
apiVars == <<flowVars, serverVars, others>>

\* The process exists; a handler makes progress only then.
Up == main \notin {"ended", "fatal"}

\* A request may begin: on a new connection until the signal, on one that was
\* accepted before it until Shutdown has closed every connection, and as long
\* as the process lives when Shutdown gave up.
Serving == main \in {"serving", "draining"} \/ (timedOut /\ Up)

InHandler == phase \in {"asked", "grouping"}

\* What Shutdown waits for: no connection with a request on it.
Idle == ~InHandler /\ \A r \in Others : others[r] # "running"

ApiInit ==
    /\ FlowInit
    /\ main = "opening"
    /\ driver = "closed"
    /\ others = [r \in Others |-> "none"]
    /\ timedOut = FALSE

----------------------------------------------------------------------------
(* The main goroutine. *)

Goes(from, to) == main = from /\ main' = to

\* driver.go Open: the driver is returned once VerifyConnectivity succeeded ...
OpenDriver ==
    /\ Goes("opening", "serving")
    /\ driver' = "open"
    /\ UNCHANGED <<flowVars, others, timedOut>>

\* ... and closed again when it fails: log.Fatalf.
OpenFails ==
    /\ Goes("opening", "fatal")
    /\ UNCHANGED <<flowVars, driver, others, timedOut>>

\* ListenAndServe returns another error than ErrServerClosed: log.Fatalf in its
\* goroutine, which runs no deferred call.
ListenFails ==
    /\ Goes("serving", "fatal")
    /\ UNCHANGED <<flowVars, driver, others, timedOut>>

\* SIGINT or SIGTERM: the listener is closed at once, the connections are not.
Signal ==
    /\ Goes("serving", "draining")
    /\ UNCHANGED <<flowVars, driver, others, timedOut>>

\* Mutant: the result of Shutdown is not waited for.
LeaveAtOnce ==
    /\ Goes("draining", "closing")
    /\ UNCHANGED <<flowVars, driver, others, timedOut>>

\* srv.Shutdown returns nil.
Drained ==
    /\ Goes("draining", "closing")
    /\ Idle
    /\ UNCHANGED <<flowVars, driver, others, timedOut>>

\* Mutant: Shutdown is given context.Background().
NoDeadline == FALSE

\* The five seconds of shCtx are over (perhaps after the last request, but
\* before Shutdown looks again), and its error is ignored.
ShutdownTimesOut ==
    /\ Goes("draining", "closing")
    /\ timedOut' = TRUE
    /\ UNCHANGED <<flowVars, driver, others>>

\* The deferred drv.Close of main ...
CloseDriver ==
    /\ Goes("closing", "returning")
    /\ driver' = "closed"
    /\ UNCHANGED <<flowVars, others, timedOut>>

\* ... and the end of the process, whatever its other goroutines are at.
Exit ==
    /\ Goes("returning", "ended")
    /\ UNCHANGED <<flowVars, driver, others, timedOut>>

MainStep == Drained \/ ShutdownTimesOut \/ CloseDriver \/ Exit

----------------------------------------------------------------------------
(* The handlers. *)

HandleFlow ==
    /\ Up
    /\ \/ Serving /\ Arrive
       \/ driver = "open" /\ (Query \/ QueryFails("driver"))
       \/ driver = "closed" /\ QueryFails("driver closed")
       \/ Draw
    /\ UNCHANGED <<serverVars, others>>

OtherArrives(r) ==
    /\ Serving
    /\ others[r] = "none"
    /\ others' = [others EXCEPT ![r] = "running"]
    /\ UNCHANGED <<flowVars, serverVars>>

OtherAnswered(r) ==
    /\ Up
    /\ others[r] = "running"
    /\ others' = [others EXCEPT ![r] = IF driver = "open" THEN "answered" ELSE "refused"]
    /\ UNCHANGED <<flowVars, serverVars>>

ApiNext ==
    \/ OpenDriver \/ OpenFails \/ ListenFails
    \/ Signal \/ MainStep
    \/ HandleFlow
    \/ \E r \in Others : OtherArrives(r) \/ OtherAnswered(r)

\* The main goroutine is scheduled and its timer fires; drv.Close returns.
\* Nothing is assumed of handlers (a query may never end), of the signal or of
\* the clients.
ApiSpec == ApiInit /\ [][ApiNext]_apiVars /\ WF_apiVars(MainStep)

----------------------------------------------------------------------------
(* Properties. *)

ApiTypeOK ==
    /\ main \in {"opening", "serving", "draining", "closing", "returning", "ended", "fatal"}
    /\ driver \in {"open", "closed"}
    /\ others \in [Others -> {"none", "running", "answered", "refused"}]
    /\ timedOut \in BOOLEAN

\* "Graceful shutdown em SIGINT/SIGTERM" (main.go:83): unless the five seconds
\* were not enough, each request that had begun is answered before the process
\* ends, and none of them finds the driver closed under it.
AnsweredBeforeExit ==
    ~timedOut =>
        /\ main = "ended" => Idle
        /\ answer.error # "driver closed"
        /\ \A r \in Others : others[r] # "refused"

\* The inductive invariant behind it.  The driver is open as long as requests
\* are taken or waited for; after a wait that ended well no request is left
\* and none begins, so that nobody meets the driver closed.
ApiInv ==
    /\ ApiTypeOK
    /\ main \in {"serving", "draining", "closing"} => driver = "open"
    /\ main = "opening" => Idle /\ ~timedOut
    /\ ~timedOut =>
        /\ main \in {"closing", "returning", "ended"} => Idle
        /\ answer.error # "driver closed"
        /\ \A r \in Others : others[r] # "refused"

\* A signalled process ends, though handlers may hang in a query for ever.
SignalEnds == (main = "draining") ~> (main = "ended")
=============================================================================
