-------------------------------- MODULE Lifecycle ------------------------------
(***************************************************************************)
(* The life of the process: run of cmd/smartcar-4runner/main.go, from      *)
(* config.Load over the construction of its parts, ListenAndServe and the  *)
(* shutdown to its deferred calls, with the handlers that are running      *)
(* meanwhile.  The database is one file or server, the handlers' requests  *)
(* are SQL statements; the other components have modules of their own.     *)
(*                                                                         *)
(* net/http is external: Shutdown closes the listener at once and then     *)
(* waits for the running handlers, as long as its context lets it; it does *)
(* not interrupt them, but it closes connections on which no request has   *)
(* begun.  A handler runs a number of SQL statements, which fail once the  *)
(* store is closed, and is cut off when the process exits.                 *)
(***************************************************************************)
EXTENDS Config

CONSTANTS
    Given,           \* the environments and arguments it may be started with
    Request,         \* the HTTP requests
    MaxStatements    \* bound on the statements of a handler

ASSUME LifecycleAssumption ==
    /\ \A g \in Given : IsGiven(g)
    /\ MaxStatements \in Nat

VARIABLES
    at,             \* where run is
    result,         \* what it returns
    given,          \* the environment and the arguments
    cfg,            \* the loaded configuration
    database,       \* whether the database file was there when it was opened, or wiped
    open,           \* what is to be closed at the end
    listener,
    serverErrors,   \* whether the channel holds an error
    signalled,      \* signalCtx is done
    handler,        \* the state of each request
    statements      \* the statements its handler has still to run

startVars == <<given, cfg, database>>
serveVars == <<listener, serverErrors, handler, statements>>
vars == <<at, result, startVars, open, signalled, serveVars>>

Starting == {"load", "log", "observer", "open_storage", "ping", "migrate", "assemble",
             "listen", "notify"}
Closing == {"close_storage", "close_observer", "close_log"}

TypeOK ==
    /\ at \in Starting \cup {"select", "shutdown", "exited"} \cup Closing
    /\ result \in {"none", "nil", "config_error", "print_error", "refused", "start_error",
                   "serve_error", "shutdown_error", "killed"}
    /\ IsGiven(given)
    /\ cfg \in [Option -> Value]
    /\ database \in {"kept", "wiped"}
    /\ open \subseteq {"log", "observer", "storage"}
    /\ listener \in {"none", "starting", "listening", "closed"}
    /\ serverErrors \in BOOLEAN
    /\ signalled \in BOOLEAN
    /\ handler \in [Request -> {"none", "connected", "running", "answered", "failed",
                                "cut", "dropped"}]
    /\ statements \in [Request -> 0..MaxStatements]

Init ==
    /\ at = "load"
    /\ result = "none"
    /\ given \in Given
    /\ cfg = ZeroConfig
    /\ database = "kept"
    /\ open = {}
    /\ listener = "none"
    /\ serverErrors = FALSE
    /\ signalled = FALSE
    /\ handler = [q \in Request |-> "none"]
    /\ statements = [q \in Request |-> 0]

Running(q) == handler[q] = "running"

Goto(to) == at' = to

\* run returns r, and the calls it has deferred follow: the last first.
ReturnFromRun(r) ==
    /\ result' = r
    /\ Goto(CASE "storage" \in open  -> "close_storage"
              [] open = {"log", "observer"} -> "close_observer"
              [] open = {"log"}     -> "close_log"
              [] OTHER              -> "exited")

--------------------------------------------------------------------------------
(* run, up to the server *)

\* config.Load fails: over the environment, the flags or the values.
LoadFails ==
    /\ at = "load"
    /\ ~EnvParses(given.env) \/ ~FlagsParse(given.flags)
       \/ (~given.help /\ ~Validate(ConfigOf(given)))
    /\ ReturnFromRun("config_error")
    /\ UNCHANGED <<startVars, open, signalled, serveVars>>

\* fs.Parse meets --help first.
PrintHelp ==
    /\ at = "load"
    /\ EnvParses(given.env) /\ given.help
    /\ ReturnFromRun("nil")
    /\ UNCHANGED <<startVars, open, signalled, serveVars>>

Accepted ==
    /\ EnvParses(given.env) /\ FlagsParse(given.flags)
    /\ ~given.help
    /\ Validate(ConfigOf(given))

PrintConfig ==
    /\ at = "load"
    /\ Accepted /\ given.print
    /\ ReturnFromRun(IF Printable(ConfigOf(given)) THEN "nil" ELSE "print_error")
    /\ UNCHANGED <<startVars, open, signalled, serveVars>>

Load ==
    /\ at = "load"
    /\ Accepted /\ ~given.print
    /\ cfg' = ConfigOf(given)
    /\ Goto("log")
    /\ UNCHANGED <<result, given, database, open, signalled, serveVars>>

\* A constructor takes what the configuration says, or run returns its error.
Construct(accepts, parts, to) ==
    IF accepts
    THEN open' = open \cup parts /\ Goto(to) /\ UNCHANGED result
    ELSE ReturnFromRun("refused") /\ UNCHANGED open

\* logging.New; the file itself is opened with the first line.
NewLogger ==
    /\ at = "log"
    /\ Construct(LogAccepts(cfg), {"log"}, "observer")
    /\ UNCHANGED <<startVars, signalled, serveVars>>

NewObserver ==
    /\ at = "observer"
    /\ Construct(ObserverAccepts(cfg), {"observer"}, "open_storage")
    /\ UNCHANGED <<startVars, signalled, serveVars>>

\* A certificate cannot be read, an exporter not be made.
NewObserverFails ==
    /\ at = "observer" /\ ObserverAccepts(cfg) /\ cfg["otel_enabled"] = "true"
    /\ ReturnFromRun("start_error")
    /\ UNCHANGED <<startVars, open, signalled, serveVars>>

\* storage.Open.
OpenStorage ==
    /\ at = "open_storage"
    /\ Construct(StorageAccepts(cfg), {"storage"}, "ping")
    /\ database' = IF StorageAccepts(cfg) /\ WipesDatabase(cfg) THEN "wiped" ELSE database
    /\ UNCHANGED <<given, cfg, signalled, serveVars>>

\* (slip: the store stays open when configure fails)
OpenStorageFailsOpen ==
    /\ at = "open_storage" /\ StorageAccepts(cfg)
    /\ database' \in {database, IF WipesDatabase(cfg) THEN "wiped" ELSE database}
    /\ ReturnFromRun("start_error")
    /\ open' = open \cup {"storage"}
    /\ UNCHANGED <<given, cfg, signalled, serveVars>>

\* The file cannot be removed; or it is, and then its directory cannot be made or
\* configure fails, after which NewSQLite closes what it has opened.
OpenStorageFails ==
    /\ at = "open_storage" /\ StorageAccepts(cfg)
    /\ database' \in {database, IF WipesDatabase(cfg) THEN "wiped" ELSE database}
    /\ ReturnFromRun("start_error")
    /\ UNCHANGED <<given, cfg, open, signalled, serveVars>>

Ping ==
    /\ at = "ping"
    /\ Goto(IF ShouldMigrate(cfg) THEN "migrate" ELSE "assemble")
    /\ UNCHANGED <<result, startVars, open, signalled, serveVars>>

Migrate ==
    /\ at = "migrate"
    /\ Goto("assemble")
    /\ UNCHANGED <<result, startVars, open, signalled, serveVars>>

\* The database says no, or not before storageCtx is done.
StorageFails ==
    /\ at \in {"ping", "migrate"}
    /\ ReturnFromRun("start_error")
    /\ UNCHANGED <<startVars, open, signalled, serveVars>>

\* auth.NewService, newSmartcarAPI, app.NewService, web.NewHandler.
Assemble ==
    /\ at = "assemble"
    /\ Construct(AuthAccepts(cfg) /\ SmartcarAPIAccepts(cfg), {}, "listen")
    /\ UNCHANGED <<startVars, signalled, serveVars>>

\* go ListenAndServe(); the locals are not used any more.
GoServe ==
    /\ at = "listen"
    /\ listener' = "starting"
    /\ given' = NothingGiven /\ cfg' = ZeroConfig
    /\ Goto("notify")
    /\ UNCHANGED <<result, database, open, signalled, serverErrors, handler, statements>>

Notify ==
    /\ at = "notify"
    /\ Goto("select")
    /\ UNCHANGED <<result, startVars, open, signalled, serveVars>>

Start ==
    \/ LoadFails \/ PrintHelp \/ PrintConfig \/ Load
    \/ NewLogger \/ NewObserver \/ NewObserverFails
    \/ OpenStorage \/ OpenStorageFails
    \/ Ping \/ Migrate \/ StorageFails
    \/ Assemble
    \/ GoServe \/ Notify

--------------------------------------------------------------------------------
(* The server *)

Listen ==
    /\ at # "exited" /\ listener = "starting"
    /\ listener' = "listening"
    /\ UNCHANGED <<at, result, startVars, open, signalled, serverErrors, handler, statements>>

\* ListenAndServe fails, at its start or later, and sends its error.
ServeFails ==
    /\ at # "exited" /\ listener \in {"starting", "listening"}
    /\ listener' = "closed"
    /\ serverErrors' = TRUE
    /\ UNCHANGED <<at, result, startVars, open, signalled, handler, statements>>

\* A connection is accepted, or kept alive after an earlier request.
Connect(q) ==
    /\ at # "exited"
    /\ listener = "listening" /\ handler[q] = "none"
    /\ handler' = [handler EXCEPT ![q] = "connected"]
    /\ UNCHANGED <<at, result, startVars, open, signalled, listener, serverErrors, statements>>

\* It is closed before the first byte of a request: by the other side, by
\* ReadHeaderTimeout or IdleTimeout, or by Shutdown, at once if it was kept alive
\* and after some seconds if it is new.
Drop(q) ==
    /\ at # "exited" /\ handler[q] = "connected"
    /\ handler' = [handler EXCEPT ![q] = "dropped"]
    /\ UNCHANGED <<at, result, startVars, open, signalled, listener, serverErrors, statements>>

\* A request begins, which may be after the listener was closed; reading it counts
\* as part of its handler, for Shutdown waits for both.
Accept(q, n) ==
    /\ at # "exited" /\ handler[q] = "connected"
    /\ handler' = [handler EXCEPT ![q] = "running"]
    /\ statements' = [statements EXCEPT ![q] = n]
    /\ UNCHANGED <<at, result, startVars, open, signalled, listener, serverErrors>>

\* (slip: one statement too many)
StatementUncounted(q) ==
    /\ at # "exited" /\ Running(q)
    /\ "storage" \in open
    /\ statements' = [statements EXCEPT ![q] = @ - 1]
    /\ UNCHANGED <<at, result, startVars, open, signalled, listener, serverErrors, handler>>

\* Any statement of sqlStore, FindUserByUsername say.
Statement(q) ==
    /\ at # "exited" /\ Running(q) /\ statements[q] > 0
    /\ "storage" \in open
    /\ statements' = [statements EXCEPT ![q] = @ - 1]
    /\ UNCHANGED <<at, result, startVars, open, signalled, listener, serverErrors, handler>>

\* "sql: database is closed": the handler's request is not done as asked.
StatementFails(q) ==
    /\ at # "exited" /\ Running(q) /\ statements[q] > 0
    /\ "storage" \notin open
    /\ handler' = [handler EXCEPT ![q] = "failed"]
    /\ UNCHANGED <<at, result, startVars, open, signalled, listener, serverErrors, statements>>

Answer(q) ==
    /\ at # "exited" /\ Running(q) /\ statements[q] = 0
    /\ handler' = [handler EXCEPT ![q] = "answered"]
    /\ UNCHANGED <<at, result, startVars, open, signalled, listener, serverErrors, statements>>

--------------------------------------------------------------------------------
(* run, from the select on *)

\* SIGINT or SIGTERM; NotifyContext swallows any further one until run returns.
Signal ==
    /\ at \in {"select", "shutdown"} /\ ~signalled
    /\ signalled' = TRUE
    /\ UNCHANGED <<at, result, startVars, open, serveVars>>

CutRunning == handler' = [q \in Request |-> IF Running(q) THEN "cut" ELSE handler[q]]

\* Before NotifyContext, and after the deferred stop, it ends the process at once:
\* also while requests are already served.
Kill ==
    /\ at \in Starting \cup Closing
    /\ result' = "killed"
    /\ Goto("exited")
    /\ CutRunning
    /\ UNCHANGED <<startVars, open, signalled, listener, serverErrors, statements>>

\* The select takes either, at random if both are ready.
SelectSignal ==
    /\ at = "select" /\ signalled
    /\ Goto("shutdown")
    /\ listener' = "closed"
    /\ UNCHANGED <<result, startVars, open, signalled, serverErrors, handler, statements>>

SelectServeError ==
    /\ at = "select" /\ serverErrors
    /\ ReturnFromRun("serve_error")
    /\ UNCHANGED <<startVars, open, signalled, serveVars>>

\* (slip: Close instead of Shutdown, which does not wait)
ShutdownCompleteAtOnce ==
    /\ at = "shutdown"
    /\ ReturnFromRun("nil")
    /\ UNCHANGED <<startVars, open, signalled, serveVars>>

\* No connection is left.
ShutdownComplete ==
    /\ at = "shutdown"
    /\ \A q \in Request : handler[q] # "connected" /\ ~Running(q)
    /\ ReturnFromRun("nil")
    /\ UNCHANGED <<startVars, open, signalled, serveVars>>

\* (slip: shutdownCtx has no timeout)
ShutdownWaits ==
    /\ at = "shutdown"
    /\ UNCHANGED vars

\* shutdownCtx is done first: the handlers run on while run returns.
ShutdownTimesOut ==
    /\ at = "shutdown"
    /\ ReturnFromRun("shutdown_error")
    /\ UNCHANGED <<startVars, open, signalled, serveVars>>

\* The deferred calls; the observer's takes five seconds at most.
CloseStorage ==
    /\ at = "close_storage"
    /\ open' = open \ {"storage"}
    /\ Goto("close_observer")
    /\ UNCHANGED <<result, startVars, signalled, serveVars>>

CloseObserver ==
    /\ at = "close_observer"
    /\ open' = open \ {"observer"}
    /\ Goto("close_log")
    /\ UNCHANGED <<result, startVars, signalled, serveVars>>

\* main exits, and with it whatever still runs.
Exit ==
    /\ at = "close_log"
    /\ open' = open \ {"log"}
    /\ Goto("exited")
    /\ CutRunning
    /\ UNCHANGED <<result, startVars, signalled, listener, serverErrors, statements>>

--------------------------------------------------------------------------------
Serve(q) ==
    \/ Connect(q) \/ Drop(q)
    \/ \E n \in 0..MaxStatements : Accept(q, n)
    \/ Statement(q) \/ StatementFails(q) \/ Answer(q)

End == SelectSignal \/ SelectServeError \/ ShutdownComplete \/ ShutdownTimesOut
       \/ CloseStorage \/ CloseObserver \/ Exit

Run == Start \/ End

Next == Run \/ Listen \/ ServeFails \/ Signal \/ Kill \/ \E q \in Request : Serve(q)

\* run goes on: storageCtx and shutdownCtx time out; nothing is assumed of the
\* handlers, which may take for ever.
Spec == Init /\ [][Next]_vars /\ WF_vars(Run)

--------------------------------------------------------------------------------
(* Properties *)

\* "graceful shutdown complete" (main.go:180): when run returns nil, every
\* request that has begun was answered, with a store that was open.
GracefulLosesNothing ==
    (\E q \in Request : handler[q] \in {"failed", "cut"}) =>
        result \in {"shutdown_error", "serve_error", "killed"}

\* The process comes up or ends; and once it is signalled or cannot serve it
\* exits, however long the handlers take.
EventuallyExits ==
    /\ at # "select" ~> at \in {"select", "exited"}
    /\ signalled \/ serverErrors ~> at = "exited"

\* The rules of Validate and those of the parts it validates for are written down
\* in several files and agree: no start fails half-way over a configuration that
\* Load has accepted.
AcceptedStarts == result # "refused"

Told(o, text) ==
    IF o \in DOMAIN given.flags
    THEN given.flags[o] = text
    ELSE o \in DOMAIN given.env /\ given.env[o] = text

\* A database is wiped only if the flag says so, or the environment does and no
\* flag overrides it; likewise that it is SQLite; and never when the configuration
\* or the help is asked for.
WipedOnlyAsTold ==
    [][database' # database =>
          /\ Told("sqlite_wipe_on_start", "true") /\ Told("storage_driver", "sqlite")
          /\ ~given.print /\ ~given.help]_vars

\* Whatever was opened is closed when run ends, by whichever return and in the
\* reverse order; the log, which the others write to, last.
ClosedOnExit ==
    /\ open \in {{}, {"log"}, {"log", "observer"}, {"log", "observer", "storage"}}
    /\ at = "exited" /\ result # "killed" => open = {}

\* config.go:697 "otel sample ratio must be between 0 and 1": so it is in a
\* configuration that is accepted.
AcceptedRatioInRange == at = "log" => cfg["otel_sample_ratio"] = "good"
================================================================================
