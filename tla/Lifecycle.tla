----------------------------- MODULE Lifecycle -----------------------------
(***************************************************************************)
(* main: what is opened in which order, how a failure ends the process,    *)
(* and how SIGINT or SIGTERM shuts it down while requests and the outbox   *)
(* worker are running.  Module Server composes it with the requests.       *)
(***************************************************************************)
EXTENDS Naturals, Config

CONSTANTS
    MaxTries,    \* maxTries of OpenPostgres
    MaxInFlight  \* bound: requests at one time

VARIABLES
    driver,     \* cfg.Database.Driver
    tries,      \* connection attempts made
    pc,         \* where main is
    opened,     \* what has been opened: "db", "redis", "broker"
    handler,    \* signal.NotifyContext is in force
    cancelled,  \* its context is cancelled
    overdue,    \* the 10 s of shutdownCtx have passed
    server,     \* "none", "listening", "draining" or "stopped"
    inFlight,   \* requests being served
    worker,     \* "none", "idle", "busy" or "stopped"
    exit        \* how the process has ended, "no" while it runs

bootVars == <<driver, tries>>
signalVars == <<handler, cancelled, overdue>>
taskVars == <<server, inFlight, worker>>
vars == <<bootVars, pc, opened, signalVars, taskVars, exit>>

Boot == {"config", "keys", "secret", "db", "migrate", "redis", "scripts", "repos", "signals",
         "broker", "server", "wait", "drain", "close"}

Init ==
    /\ driver = "none" /\ tries = 0
    /\ pc = "config" /\ opened = {}
    /\ handler = FALSE /\ cancelled = FALSE /\ overdue = FALSE
    /\ server = "none" /\ inFlight = 0 /\ worker = "none"
    /\ exit = "no"

Running == exit = "no"

At(step) == Running /\ pc = step

\* The process ends, and with it every goroutine.
Die(how) ==
    /\ exit' = how /\ server' = "stopped" /\ inFlight' = 0
    /\ worker' = IF worker = "none" THEN "none" ELSE "stopped"
    /\ UNCHANGED <<bootVars, pc, opened, signalVars>>

Proceed(next, open) ==
    /\ pc' = next /\ opened' = open
    /\ UNCHANGED <<bootVars, signalVars, taskVars, exit>>

----------------------------------------------------------------------------
(* Start: an error is fatal (log.Fatal), wherever it comes from.           *)

LoadConfig ==
    /\ At("config")
    /\ \E env \in Environment :
         IF Load(env)
         THEN /\ driver' = LoadDBconfigs(env) /\ pc' = "keys"
              /\ UNCHANGED <<tries, opened, signalVars, taskVars, exit>>
         ELSE Die("fatal")

LoadKeys ==
    /\ At("keys")
    /\ \E private, public \in KeyFiles :
         IF LoadKey(private) /\ LoadKey(public) THEN Proceed("secret", opened) ELSE Die("fatal")

LoadTokenSecret == At("secret") /\ (Proceed("db", opened) \/ Die("fatal"))

Attempts == IF driver = "postgres" THEN MaxTries ELSE 1

\* A try to connect, after which a second is slept unless it was the last.
Connect ==
    /\ At("db")
    /\ \/ Proceed("migrate", opened \cup {"db"})
       \/ /\ tries + 1 < Attempts
          /\ tries' = tries + 1
          /\ UNCHANGED <<driver, pc, opened, signalVars, taskVars, exit>>
       \/ tries + 1 = Attempts /\ Die("fatal")

Migrate == At("migrate") /\ (Proceed("redis", opened) \/ Die("fatal"))

\* LoadRedisConfig, then Ping, which may fail.
PingRedis ==
    /\ At("redis")
    /\ \E env \in RedisEnvironment :
         \/ LoadRedisConfig(env) /\ Proceed("scripts", opened \cup {"redis"})
         \/ Die("fatal")

LoadScripts == At("scripts") /\ (Proceed("repos", opened) \/ Die("fatal"))

\* NewOutboxRepo has no SQLite implementation.
NewRepos ==
    /\ At("repos")
    /\ IF driver = "sqlite" THEN Die("panic") ELSE Proceed("signals", opened)

NotifyContext ==
    /\ At("signals")
    /\ handler' = TRUE /\ pc' = "broker"
    /\ UNCHANGED <<bootVars, opened, cancelled, overdue, taskVars, exit>>

\* NewRabbitMQ, then the worker's goroutine.  Only Postgres gets here.
StartWorker ==
    /\ At("broker")
    /\ \/ /\ pc' = "server" /\ opened' = opened \cup {"broker"} /\ worker' = "idle"
          /\ UNCHANGED <<bootVars, signalVars, server, inFlight, exit>>
       \/ Die("fatal")

StartServer ==
    /\ At("server")
    /\ server' = "listening" /\ pc' = "wait"
    /\ UNCHANGED <<bootVars, opened, signalVars, inFlight, worker, exit>>

----------------------------------------------------------------------------
(* Running                                                                 *)

\* ListenAndServe fails: its goroutine panics.
ListenFails == Running /\ server = "listening" /\ Die("panic")

Receive ==
    /\ Running /\ server = "listening" /\ inFlight < MaxInFlight
    /\ inFlight' = inFlight + 1
    /\ UNCHANGED <<bootVars, pc, opened, signalVars, server, worker, exit>>

Complete ==
    /\ Running /\ inFlight > 0
    /\ inFlight' = inFlight - 1
    /\ UNCHANGED <<bootVars, pc, opened, signalVars, server, worker, exit>>

\* Worker.Run between ticks and in ProcessBatch; select may take a tick that is
\* due although the context is cancelled.
Work ==
    /\ Running
    /\ \/ worker = "idle" /\ worker' = "busy"
       \/ worker = "busy" /\ worker' = "idle"
       \/ worker = "idle" /\ cancelled /\ worker' = "stopped"
    /\ UNCHANGED <<bootVars, pc, opened, signalVars, server, inFlight, exit>>

\* SIGINT or SIGTERM: fatal until NotifyContext, ignored once it has cancelled.
Signal ==
    /\ Running
    /\ \/ ~handler /\ Die("killed")
       \/ /\ handler /\ ~cancelled
          /\ cancelled' = TRUE
          /\ UNCHANGED <<bootVars, pc, opened, handler, overdue, taskVars, exit>>

----------------------------------------------------------------------------
(* Shutdown                                                                *)

\* srv.Shutdown closes the listener and waits.
Awaken ==
    /\ At("wait") /\ cancelled
    /\ pc' = "drain" /\ server' = "draining"
    /\ UNCHANGED <<bootVars, opened, signalVars, inFlight, worker, exit>>

ShutdownTimeout ==
    /\ At("drain") /\ ~overdue
    /\ overdue' = TRUE
    /\ UNCHANGED <<bootVars, pc, opened, handler, cancelled, taskVars, exit>>

EndDrain ==
    /\ pc' = "close" /\ server' = "stopped"
    /\ UNCHANGED <<bootVars, opened, signalVars, inFlight, worker, exit>>

DrainForever == At("drain") /\ inFlight = 0 /\ EndDrain
DrainAtOnce == At("drain") /\ EndDrain

\* srv.Shutdown returns when no request is left or the time is up.
Drained == At("drain") /\ (inFlight = 0 \/ overdue) /\ EndDrain

CloseFirst ==
    /\ pc \in {"drain", "close"} /\ Running /\ "broker" \in opened
    /\ opened' = opened \ {"broker"}
    /\ UNCHANGED <<bootVars, pc, signalVars, taskVars, exit>>

\* The deferred mqBroker.Close returns.  Module Broker has what it waits for: the
\* confirmation loop, publishMu and the broker's answer to channel.Close.  main
\* does not wait for the worker.
CloseBroker ==
    /\ At("close") /\ "broker" \in opened
    /\ opened' = opened \ {"broker"}
    /\ UNCHANGED <<bootVars, pc, signalVars, taskVars, exit>>

Return == At("close") /\ "broker" \notin opened /\ Die("ok")

----------------------------------------------------------------------------

Main ==
    \/ LoadConfig \/ LoadKeys \/ LoadTokenSecret \/ Connect \/ Migrate \/ PingRedis
    \/ LoadScripts \/ NewRepos \/ NotifyContext \/ StartWorker \/ StartServer
    \/ Awaken \/ Drained \/ CloseBroker \/ Return

\* Every variable has its type.
TypeOK ==
    /\ driver \in {"none", "postgres", "sqlite"} /\ pc \in Boot
    /\ tries \in 0 .. MaxTries - 1
    /\ opened \in SUBSET {"db", "redis", "broker"}
    /\ handler \in BOOLEAN /\ cancelled \in BOOLEAN /\ overdue \in BOOLEAN
    /\ server \in {"none", "listening", "draining", "stopped"}
    /\ inFlight \in 0 .. MaxInFlight
    /\ worker \in {"none", "idle", "busy", "stopped"}
    /\ exit \in {"no", "ok", "fatal", "panic", "killed"}
=============================================================================
