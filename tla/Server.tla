------------------------------- MODULE Server -------------------------------
(***************************************************************************)
(* One replica: main (Lifecycle) and the requests its server runs          *)
(* (Gateway).  Requests arrive only while the listener is open, run on     *)
(* while srv.Shutdown drains them, and are cut off when the process ends.  *)
(***************************************************************************)
EXTENDS Gateway, FiniteSets

CONSTANT MaxTries  \* maxTries of OpenPostgres

ASSUME SomeTry == MaxTries \in Nat \ {0}
ASSUME FiniteRequests == IsFiniteSet(Request)

VARIABLES
    driver, tries, pc, opened, handler, cancelled, overdue, server, worker, exit,
    cut  \* history: requests in flight when the process ended

mainVars == <<driver, tries, pc, opened, handler, cancelled, overdue, server, worker,
              exit>>
serverVars == <<vars, mainVars, cut>>

InFlight == {r \in Request : req[r].pc \notin {"idle", "done"}}

L == INSTANCE Lifecycle WITH
         inFlight <- Cardinality(InFlight), MaxInFlight <- Cardinality(Request)

ServerInit == Init /\ L!Init /\ cut = {}

----------------------------------------------------------------------------

\* A step of main or of the runtime that leaves the requests alone.
Undisturbed(Step) == UNCHANGED <<vars, cut>> /\ Step

\* One that ends the process: nothing of a request goes on.
Ending(Step) ==
    /\ InFlight # {}
    /\ req' = [r \in Request |-> NoRequest] /\ cut' = InFlight
    /\ UNCHANGED <<active, redisUp>>
    /\ Step

MainStep == Undisturbed(L!Main) \/ Ending(L!Return)

Timeout == Undisturbed(L!ShutdownTimeout)

Runtime ==
    \/ Undisturbed(L!Work) \/ Undisturbed(L!Signal)
    \/ Undisturbed(L!ListenFails) \/ Ending(L!ListenFails)

Accept(r) == Arrive(r) /\ L!Receive /\ UNCHANGED cut

Complete(r) == Finish(r) /\ L!Complete /\ UNCHANGED cut

\* A step of a request's goroutine, or of the world it reads.
Serving ==
    /\ L!Running
    /\ \/ \E r \in Request : Handling(r)
       \/ server # "none" /\ ((\E t \in Tenant : SetStatus(t)) \/ FlipRedis)
    /\ UNCHANGED <<mainVars, cut>>

ServerNext ==
    \/ MainStep \/ Timeout \/ Runtime \/ Serving
    \/ \E r \in Request : Accept(r) \/ Complete(r)

\* main is in NewRabbitMQ or in the deferred mqBroker.Close.
InBroker == pc = "broker" \/ (pc = "close" /\ "broker" \in opened)

\* main's goroutine runs and time passes.  Neither a request nor the worker need
\* ever end, and NewRabbitMQ and mqBroker.Close need not return: they wait for
\* answers of the broker, and Close also for a write of the worker that blocks.
ServerSpec ==
    /\ ServerInit /\ [][ServerNext]_serverVars
    /\ WF_serverVars(~InBroker /\ MainStep) /\ WF_serverVars(Timeout)

----------------------------------------------------------------------------
(* Properties                                                              *)

\* Every variable has its type.
ServerTypeOK == TypeOK /\ L!TypeOK /\ cut \subseteq Request

\* What a request needs outlives it: the database, Redis, and the broker its
\* events go to are there from before the listener opens until the last request
\* has ended, unless one was still running after the ten seconds of Shutdown.
DependenciesOutliveRequests ==
    server \in {"listening", "draining"} \/ InFlight # {} =>
        {"db", "redis"} \subseteq opened /\ (overdue \/ "broker" \in opened)

\* A request is cut off only when the listener itself fails or Shutdown has waited
\* ten seconds: a signal alone lets every request that was accepted finish.
CutOffOnlyAfterGrace == cut # {} => exit = "panic" \/ overdue

\* A signal ends the process, although a request or the worker may hang: nothing but
\* a call of the broker that does not return can hold main up for ever.
SignalEnds == cancelled ~> exit # "no" \/ []InBroker
=============================================================================
