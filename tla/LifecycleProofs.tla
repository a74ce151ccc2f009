---------------------------- MODULE LifecycleProofs ----------------------------
(***************************************************************************)
(* Theorems about Config and Lifecycle for any environment and arguments,  *)
(* any requests and any numbers of statements.                             *)
(***************************************************************************)
EXTENDS Lifecycle, TLAPS

(* Config *)

LEMMA TextsAreValues == \A o : TextsOf(o) \subseteq Value
BY DEF TextsOf, Value

LEMMA DefaultIsValue == \A o \in Option : Default[o] \in Value
BY DEF Default, Value

\* What Load makes of anything it is given has the type of a configuration.
LEMMA ConfigType ==
    ASSUME NEW g, IsGiven(g)
    PROVE  ConfigOf(g) \in [Option -> Value]
<1> SUFFICES ASSUME NEW o \in Option PROVE Normalized(o, Setting(g, o)) \in Value
  BY DEF ConfigOf
<1>1. FromEnv(g.env, o) \in Value
  BY TextsAreValues, DefaultIsValue DEF FromEnv, EnvOrDefault, TrimSpace, IsGiven, Value
<1>2. Setting(g, o) \in Value
  BY <1>1, TextsAreValues DEF Setting, IsGiven
<1> QED
  BY <1>2, DefaultIsValue DEF Normalized, TrimSpace, Value

\* Whatever Validate accepts no constructor refuses.
LEMMA ValidIsAccepted ==
    ASSUME NEW c, Validate(c)
    PROVE  /\ LogAccepts(c) /\ ObserverAccepts(c) /\ StorageAccepts(c)
           /\ AuthAccepts(c) /\ SmartcarAPIAccepts(c)
<1>1. LogAccepts(c) /\ ObserverAccepts(c)
  BY DEF Validate, AllGood, LogAccepts, ObserverAccepts
<1>2. StorageAccepts(c)
  BY DEF Validate, ValidStorage, StorageAccepts
<1>3. AuthAccepts(c)
  BY DEF Validate, AllGood, AuthAccepts, Durations
<1>4. SmartcarAPIAccepts(c)
  BY DEF Validate, AllGood, SmartcarAPIAccepts, Normalized, TrimSpace
<1> QED
  BY <1>1, <1>2, <1>3, <1>4

--------------------------------------------------------------------------------
(* The invariant *)

\* Until it serves, run has what Load has made of an accepted configuration.
LoadInv ==
    at \in Starting \ {"load", "notify"} =>
        Accepted /\ ~given.print /\ cfg = ConfigOf(given)

\* What is open, by the place of run.
OpenInv ==
    open = CASE at \in {"load", "log"} -> {}
             [] at \in {"observer", "close_log"} -> {"log"}
             [] at \in {"open_storage", "close_observer"} -> {"log", "observer"}
             [] at = "exited" /\ result # "killed" -> {}
             [] at = "exited" /\ result = "killed" -> open
             [] OTHER -> {"log", "observer", "storage"}

\* No connection is accepted before the server is started and once Shutdown is called.
ListenInv ==
    /\ at \in Starting \ {"notify"} => listener = "none"
    /\ at \in Closing => listener \in {"none", "closed"}
    /\ serverErrors => listener = "closed"
    /\ at = "shutdown" => listener = "closed"
    /\ listener = "none" => \A q \in Request : handler[q] = "none"

ResultInv ==
    /\ at \in Starting \cup {"select", "shutdown"} <=> result = "none"
    /\ result \in {"config_error", "print_error", "start_error"} => listener = "none"
    /\ AcceptedStarts

\* A nil result leaves no request behind and no connection on which one could still
\* begin; a request is lost with an error only.
LossInv ==
    /\ result = "nil" => \A q \in Request : handler[q] # "connected" /\ ~Running(q)
    /\ result = "none" => \A q \in Request : handler[q] \notin {"failed", "cut"}
    /\ GracefulLosesNothing

Chain == open \in {{}, {"log"}, {"log", "observer"}, {"log", "observer", "storage"}}

Inv == TypeOK /\ LoadInv /\ OpenInv /\ Chain /\ ListenInv /\ ResultInv /\ LossInv

\* Init establishes the invariant.
LEMMA InitInv == Init => Inv
<1> SUFFICES ASSUME Init PROVE Inv
  OBVIOUS
<1>1. TypeOK
  <2>1. handler \in [Request -> {"none", "connected", "running", "answered", "failed", "cut",
                                 "dropped"}]
    BY DEF Init
  <2>2. statements \in [Request -> 0..MaxStatements]
    BY LifecycleAssumption DEF Init
  <2>3. cfg \in [Option -> Value]
    BY DEF Init, ZeroConfig, Value
  <2> QED
    BY <2>1, <2>2, <2>3, LifecycleAssumption DEF Init, TypeOK, Starting
<1>2. LoadInv /\ OpenInv /\ Chain /\ ListenInv
  BY DEF Init, LoadInv, OpenInv, Chain, ListenInv, Starting, Closing
<1>3. ResultInv /\ LossInv
  BY DEF Init, ResultInv, AcceptedStarts, LossInv, GracefulLosesNothing, Running, Starting
<1> QED
  BY <1>1, <1>2, <1>3 DEF Inv

\* Where run goes when it returns, by what is open.
LEMMA Returns ==
    ASSUME Inv, NEW r, ReturnFromRun(r)
    PROVE  /\ result' = r
           /\ open = {} => at' = "exited"
           /\ open = {"log"} => at' = "close_log"
           /\ open = {"log", "observer"} => at' = "close_observer"
           /\ open = {"log", "observer", "storage"} => at' = "close_storage"
BY DEF ReturnFromRun, Goto

\* A start that fails: nothing has been served and nothing been lost.
LEMMA StartFails ==
    ASSUME Inv, at \in Starting \ {"listen", "notify"},
           NEW r \in {"config_error", "print_error", "start_error", "nil"}, ReturnFromRun(r),
           UNCHANGED <<given, cfg, open, signalled, serveVars>>, database' \in {"kept", "wiped"}
    PROVE  Inv'
<1> USE DEF Inv
<1>1. TypeOK'
  BY Returns DEF TypeOK, Chain, Closing, serveVars, Starting
<1>2. LoadInv' /\ OpenInv' /\ Chain'
  BY Returns DEF LoadInv, OpenInv, Chain, Starting, Closing
<1>3. ListenInv' /\ ResultInv' /\ LossInv'
  BY Returns DEF ListenInv, ResultInv, AcceptedStarts, LossInv, GracefulLosesNothing, Running,
                 Chain, Starting, Closing, serveVars
<1> QED
  BY <1>1, <1>2, <1>3

\* A step of the start from one place to the next.
LEMMA StartGoesOn ==
    ASSUME Inv, Start, result' = result
    PROVE  Inv'
<1> USE DEF Inv, Goto
<1>1. at \in Starting /\ result = "none"
  BY DEF Start, LoadFails, PrintHelp, PrintConfig, Load, NewLogger, NewObserver,
         NewObserverFails, OpenStorage, OpenStorageFails, Ping, Migrate, StorageFails, Assemble,
         GoServe, Notify, Starting, ResultInv
<1>2. \/ Load \/ NewLogger \/ NewObserver \/ OpenStorage \/ Ping \/ Migrate \/ Assemble
      \/ GoServe \/ Notify
  BY <1>1 DEF Start, LoadFails, PrintHelp, PrintConfig, NewObserverFails,
              OpenStorageFails, StorageFails, ReturnFromRun
\* So no constructor has refused.
<1> DEFINE Made(step, parts, to) ==
               /\ at = step /\ at' = to /\ open' = open \cup parts
               /\ UNCHANGED <<given, cfg, signalled, serveVars>>
               /\ database' \in {database, IF WipesDatabase(cfg) THEN "wiped" ELSE database}
<1>3. \/ Load \/ Ping \/ Migrate \/ GoServe \/ Notify
      \/ Made("log", {"log"}, "observer") \/ Made("observer", {"observer"}, "open_storage")
      \/ Made("open_storage", {"storage"}, "ping") \/ Made("assemble", {}, "listen")
  BY <1>1, <1>2
  DEF NewLogger, NewObserver, OpenStorage, Assemble, Construct, ReturnFromRun, startVars
<1>4. TypeOK'
  <2>1. CASE Load
    BY <2>1, ConfigType DEF TypeOK, Load, serveVars, Starting
  <2>2. CASE GoServe
    <3>1. IsGiven(NothingGiven) /\ ZeroConfig \in [Option -> Value]
      BY DEF IsGiven, NothingGiven, ZeroConfig, Value
    <3> QED
      BY <2>2, <3>1 DEF TypeOK, GoServe, Starting
  <2>3. CASE Ping \/ Migrate \/ Notify
    BY <2>3 DEF TypeOK, Ping, Migrate, Notify, Starting, startVars, serveVars
  <2>4. ASSUME NEW step, NEW parts \in SUBSET {"log", "observer", "storage"},
               NEW to \in Starting, Made(step, parts, to)
        PROVE  TypeOK'
    BY <2>4 DEF TypeOK, serveVars
  <2>5. /\ {"log"} \subseteq {"log", "observer", "storage"}
        /\ {"observer"} \subseteq {"log", "observer", "storage"}
        /\ {"storage"} \subseteq {"log", "observer", "storage"}
        /\ {} \subseteq {"log", "observer", "storage"}
        /\ {"observer", "open_storage", "ping", "listen"} \subseteq Starting
    BY DEF Starting
  <2> HIDE DEF Made
  <2> QED
    BY <1>3, <2>1, <2>2, <2>3, <2>4, <2>5
<1>5. LoadInv'
  BY <1>3 DEF LoadInv, Accepted, Load, Ping, Migrate, GoServe, Notify, Starting, startVars
<1>6. OpenInv' /\ Chain'
  BY <1>3 DEF OpenInv, Chain, Load, Ping, Migrate, GoServe, Notify
<1>7. ListenInv' /\ ResultInv' /\ LossInv'
  BY <1>1, <1>3
  DEF ListenInv, ResultInv, AcceptedStarts, LossInv, GracefulLosesNothing, Running, Load, Ping,
      Migrate, GoServe, Notify, Starting, Closing, serveVars
<1> QED
  BY <1>4, <1>5, <1>6, <1>7

\* Each step of the start keeps the invariant.
LEMMA StartNext == Inv /\ Start => Inv'
<1> SUFFICES ASSUME Inv, Start PROVE Inv'
  OBVIOUS
<1> USE DEF Inv
\* No constructor refuses what Validate has accepted.
<1>1. ASSUME NEW step \in Starting \ {"load", "notify"}, at = step
      PROVE  /\ LogAccepts(cfg) /\ ObserverAccepts(cfg) /\ StorageAccepts(cfg)
             /\ AuthAccepts(cfg) /\ SmartcarAPIAccepts(cfg)
  BY <1>1, ValidIsAccepted DEF LoadInv, Accepted
<1>2. NewLogger \/ NewObserver \/ OpenStorage \/ Assemble => result' = result
  BY <1>1 DEF NewLogger, NewObserver, OpenStorage, Assemble, Construct, Starting
<1>3. CASE LoadFails
  BY <1>3, StartFails DEF LoadFails, startVars, TypeOK, Starting
<1>4. CASE PrintHelp
  BY <1>4, StartFails DEF PrintHelp, startVars, TypeOK, Starting
<1>5. CASE PrintConfig
  BY <1>5, StartFails DEF PrintConfig, startVars, TypeOK, Starting
<1>6. CASE NewObserverFails
  BY <1>6, StartFails DEF NewObserverFails, startVars, TypeOK, Starting
<1>7. CASE OpenStorageFails
  BY <1>7, StartFails DEF OpenStorageFails, TypeOK, Starting
<1>8. CASE StorageFails
  BY <1>8, StartFails DEF StorageFails, startVars, TypeOK, Starting
<1>9. CASE result' = result
  BY <1>9, StartGoesOn
<1> QED
  BY <1>2, <1>3, <1>4, <1>5, <1>6, <1>7, <1>8, <1>9
  DEF Start, Load, Ping, Migrate, GoServe, Notify

--------------------------------------------------------------------------------
(* Serving and the end *)

\* Each step of the server keeps the invariant.
LEMMA ServeNext ==
    ASSUME Inv, NEW q \in Request, Serve(q)
    PROVE  Inv'
<1> USE LifecycleAssumption DEF Inv
<1>1. UNCHANGED <<at, result, startVars, open, signalled, listener, serverErrors>>
  BY DEF Serve, Connect, Drop, Accept, Statement, StatementFails, Answer
<1>2. TypeOK'
  <2>1. ASSUME NEW n \in 0..MaxStatements, Accept(q, n) PROVE TypeOK'
    BY <2>1, <1>1 DEF Accept, TypeOK, startVars
  <2>2. CASE Statement(q)
    BY <2>2, <1>1 DEF Statement, TypeOK, startVars
  <2>3. CASE Connect(q) \/ Drop(q) \/ StatementFails(q) \/ Answer(q)
    BY <2>3, <1>1 DEF Connect, Drop, StatementFails, Answer, TypeOK, startVars
  <2> QED
    BY <2>1, <2>2, <2>3 DEF Serve
<1>3. LoadInv' /\ OpenInv' /\ Chain' /\ ResultInv'
  BY <1>1 DEF LoadInv, OpenInv, Chain, ResultInv, AcceptedStarts, Accepted, startVars
<1>4. ListenInv' /\ LossInv'
  <2>1. ASSUME NEW n \in 0..MaxStatements, Accept(q, n) PROVE ListenInv' /\ LossInv'
    BY <2>1, <1>1
    DEF Accept, TypeOK, ListenInv, ResultInv, LossInv, GracefulLosesNothing, Running, Starting,
        Closing
  <2>2. CASE Statement(q)
    BY <2>2, <1>1 DEF Statement, ListenInv, LossInv, GracefulLosesNothing, Running
  <2>3. CASE StatementFails(q)
    <3>1. result # "none" /\ result # "nil"
      BY <2>3, <1>1 DEF StatementFails, OpenInv, ResultInv, ListenInv, LossInv, Running, Starting
    <3>2. listener # "none"
      BY <2>3 DEF StatementFails, ListenInv, Running
    <3> QED
      BY <2>3, <1>1, <3>1, <3>2
      DEF StatementFails, TypeOK, ListenInv, ResultInv, AcceptedStarts, LossInv,
          GracefulLosesNothing, Running
  <2>4. CASE Answer(q)
    BY <2>4, <1>1 DEF Answer, TypeOK, ListenInv, LossInv, GracefulLosesNothing, Running
  <2>5. CASE Connect(q)
    BY <2>5, <1>1
    DEF Connect, TypeOK, ListenInv, ResultInv, LossInv, GracefulLosesNothing, Running, Starting,
        Closing
  <2>6. CASE Drop(q)
    BY <2>6, <1>1 DEF Drop, TypeOK, ListenInv, LossInv, GracefulLosesNothing, Running
  <2> QED
    BY <2>1, <2>2, <2>3, <2>4, <2>5, <2>6 DEF Serve
<1> QED
  BY <1>2, <1>3, <1>4

\* Each other step keeps it.
LEMMA EndNext ==
    ASSUME Inv, End \/ Listen \/ ServeFails \/ Signal \/ Kill \/ UNCHANGED vars
    PROVE  Inv'
<1> USE DEF Inv
<1>1. CASE SelectSignal
  BY <1>1
  DEF SelectSignal, Goto, TypeOK, LoadInv, OpenInv, Chain, ListenInv, ResultInv, AcceptedStarts,
      LossInv, GracefulLosesNothing, Running, Starting, Closing, startVars
<1>2. ASSUME NEW r \in {"nil", "serve_error", "shutdown_error"}, ReturnFromRun(r),
             at \in {"select", "shutdown"}, listener = "closed",
             r = "nil" => \A q \in Request : handler[q] # "connected" /\ ~Running(q),
             UNCHANGED <<startVars, open, signalled, serveVars>>
      PROVE  Inv'
  <2>1. open = {"log", "observer", "storage"}
    BY <1>2 DEF OpenInv
  <2>2. at' = "close_storage" /\ result' = r
    BY <1>2, <2>1, Returns
  <2>3. TypeOK'
    BY <1>2, <2>2 DEF TypeOK, Closing, startVars, serveVars
  <2>4. LoadInv' /\ OpenInv' /\ Chain'
    BY <1>2, <2>1, <2>2 DEF LoadInv, OpenInv, Chain, Starting
  <2>5. ListenInv' /\ ResultInv' /\ LossInv'
    BY <1>2, <2>2
    DEF ListenInv, ResultInv, AcceptedStarts, LossInv, GracefulLosesNothing, Running, Starting,
        Closing, serveVars
  <2> QED
    BY <2>3, <2>4, <2>5
<1>3. CASE SelectServeError
  BY <1>2, <1>3 DEF SelectServeError, ListenInv
<1>4. CASE ShutdownComplete
  <2>1. listener = "closed"
    BY <1>4 DEF ShutdownComplete, ListenInv
  <2> QED
    BY <1>2, <1>4, <2>1 DEF ShutdownComplete
<1>5. CASE ShutdownTimesOut
  <2>1. listener = "closed"
    BY <1>5 DEF ShutdownTimesOut, ListenInv
  <2> QED
    BY <1>2, <1>5, <2>1 DEF ShutdownTimesOut
<1>6. CASE CloseStorage \/ CloseObserver
  BY <1>6
  DEF CloseStorage, CloseObserver, Goto, TypeOK, LoadInv, OpenInv, Chain, ListenInv, ResultInv,
      AcceptedStarts, LossInv, GracefulLosesNothing, Running, Starting, Closing, startVars,
      serveVars
<1>7. CASE Exit \/ Kill
  <2>1. at' = "exited" /\ result' # "none" /\ CutRunning
        /\ UNCHANGED <<startVars, signalled, listener, serverErrors, statements>>
    BY <1>7 DEF Exit, Kill, Goto, ResultInv, Starting, Closing
  <2>2. TypeOK'
    BY <1>7, <2>1 DEF Exit, Kill, CutRunning, TypeOK, startVars
  <2>3. LoadInv' /\ OpenInv' /\ Chain'
    BY <1>7, <2>1 DEF Exit, Kill, LoadInv, OpenInv, Chain, Starting
  <2>4. ListenInv' /\ ResultInv' /\ LossInv'
    BY <1>7, <2>1
    DEF Exit, Kill, CutRunning, ListenInv, ResultInv, AcceptedStarts, LossInv,
        GracefulLosesNothing, Running, Starting, Closing, TypeOK
  <2> QED
    BY <2>2, <2>3, <2>4
<1>8. CASE Listen \/ ServeFails \/ Signal \/ UNCHANGED vars
  <2>1. UNCHANGED <<at, result, startVars, open, handler, statements>>
    BY <1>8 DEF Listen, ServeFails, Signal, vars, serveVars
  <2>2. TypeOK'
    <3>1. /\ listener' \in {"none", "starting", "listening", "closed"}
          /\ serverErrors' \in BOOLEAN /\ signalled' \in BOOLEAN
      BY <1>8 DEF Listen, ServeFails, Signal, vars, serveVars, TypeOK
    <3>2. given' = given /\ cfg' = cfg /\ database' = database
      BY <2>1 DEF startVars
    <3> QED
      BY <2>1, <3>1, <3>2 DEF TypeOK
  <2>3. LoadInv' /\ OpenInv' /\ Chain'
    BY <2>1 DEF LoadInv, Accepted, OpenInv, Chain, startVars
  <2>4. ListenInv'
    BY <1>8, <2>1 DEF Listen, ServeFails, Signal, vars, serveVars, ListenInv
  <2>5. ResultInv' /\ LossInv'
    BY <1>8, <2>1 DEF Listen, ServeFails, Signal, vars, serveVars, ResultInv, AcceptedStarts,
                      LossInv, GracefulLosesNothing, Running
  <2> QED
    BY <2>2, <2>3, <2>4, <2>5
<1> QED
  BY <1>1, <1>3, <1>4, <1>5, <1>6, <1>7, <1>8 DEF End

LEMMA NextInv == Inv /\ [Next]_vars => Inv'
BY StartNext, ServeNext, EndNext DEF Next, Run

LEMMA Invariance == Spec => []Inv
BY InitInv, NextInv, PTL DEF Spec

--------------------------------------------------------------------------------
\* Every variable keeps its type.
THEOREM TypeCorrect == Spec => []TypeOK
BY Invariance, PTL DEF Inv

\* A request is only ever lost by a process that returns an error or is killed.
THEOREM GracefulSafe == Spec => []GracefulLosesNothing
BY Invariance, PTL DEF Inv, LossInv

\* No constructor refuses a configuration that Load has accepted, whatever the
\* environment and the flags are.
THEOREM StartsSafe == Spec => []AcceptedStarts
BY Invariance, PTL DEF Inv, ResultInv

\* What has been opened is closed on every way out, the log last.
THEOREM ClosedSafe == Spec => []ClosedOnExit
<1>1. Inv => ClosedOnExit
  BY DEF Inv, OpenInv, Chain, ClosedOnExit
<1> QED
  BY <1>1, Invariance, PTL

\* Only the settings in force, which a flag has the last word on, wipe a database.
THEOREM WipedSafe == Spec => WipedOnlyAsTold
<1> DEFINE AsTold == /\ Told("sqlite_wipe_on_start", "true") /\ Told("storage_driver", "sqlite")
                     /\ ~given.print /\ ~given.help
<1>1. Inv /\ [Next]_vars => [database' # database => AsTold]_vars
  <2> SUFFICES ASSUME Inv, Next, database' # database PROVE AsTold
    OBVIOUS
  <2>1. at = "open_storage" /\ WipesDatabase(cfg)
    BY DEF Next, Run, Start, LoadFails, PrintHelp, PrintConfig, Load, NewLogger,
           NewObserver, NewObserverFails, OpenStorage, OpenStorageFails, Ping, Migrate,
           StorageFails, Assemble, GoServe, Notify, End, SelectSignal, SelectServeError,
           ShutdownComplete, ShutdownTimesOut, CloseStorage, CloseObserver, Exit, Listen,
           ServeFails, Signal, Kill, Serve, Connect, Drop, Accept, Statement, StatementFails,
           Answer, startVars
  <2>2. Accepted /\ ~given.print /\ cfg = ConfigOf(given) /\ IsGiven(given)
    BY <2>1 DEF Inv, LoadInv, Starting, TypeOK
  <2>3. Setting(given, "sqlite_wipe_on_start") = "true"
    BY <2>1, <2>2 DEF WipesDatabase, ConfigOf, Normalized, Option, Parsed, Bools
  <2>4. Setting(given, "storage_driver") = "sqlite"
    BY <2>1, <2>2 DEF WipesDatabase, ConfigOf, Normalized, TrimSpace, Option
  <2>5. Told("sqlite_wipe_on_start", "true")
    BY <2>3 DEF Told, Setting, FromEnv, EnvOrDefault, TrimSpace, Default, Option, Parsed, Bools
  <2>6. Told("storage_driver", "sqlite")
    BY <2>4 DEF Told, Setting, FromEnv, EnvOrDefault, TrimSpace, Default, Option, Parsed, Bools,
                Durations, Ints, Credentials, PostgresTexts, CertFiles
  <2> QED
    BY <2>2, <2>5, <2>6 DEF Accepted
<1> QED
  BY <1>1, Invariance, PTL DEF Spec, WipedOnlyAsTold

\* The two comparisons of Validate let nothing through that is not between 0 and 1
\* but what is no number: AcceptedRatioInRange fails for that text alone.
THEOREM OnlyNaNPasses ==
    Spec => [](AcceptedRatioInRange \/ Setting(given, "otel_sample_ratio") = "nan")
<1>1. Inv => AcceptedRatioInRange \/ Setting(given, "otel_sample_ratio") = "nan"
  <2> DEFINE o == "otel_sample_ratio"
  <2> SUFFICES ASSUME Inv, at = "log" PROVE cfg[o] = "good" \/ Setting(given, o) = "nan"
    BY DEF AcceptedRatioInRange
  <2>1. Accepted /\ cfg = ConfigOf(given) /\ IsGiven(given)
    BY DEF Inv, LoadInv, Starting, TypeOK
  <2>2. o \in Parsed /\ o \in Option /\ o \notin Durations \cup Ints \cup Bools
    BY DEF Parsed, Option, Durations, Ints, Bools
  <2>3. TextsOf(o) = {"empty", "spaces", "malformed", "bad", "good", "nan"}
    BY <2>2 DEF TextsOf, BaseURLs, Enums
  <2>4. cfg[o] = Setting(given, o)
    BY <2>1, <2>2 DEF ConfigOf, Normalized
  <2>5. Setting(given, o) \in {"bad", "good", "nan"}
    <3>1. CASE o \in DOMAIN given.flags
      BY <2>1, <2>2, <2>3, <3>1 DEF Accepted, FlagsParse, Setting, IsGiven
    <3>2. CASE o \notin DOMAIN given.flags
      <4>1. Default[o] = "good"
        BY <2>2 DEF Default, Credentials, PostgresTexts, CertFiles, Bools
      <4>2. FromEnv(given.env, o) # "malformed"
        BY <2>1, <2>2 DEF Accepted, EnvParses
      <4> QED
        BY <2>1, <2>2, <2>3, <3>2, <4>1, <4>2
        DEF Setting, FromEnv, EnvOrDefault, TrimSpace, IsGiven
    <3> QED
      BY <3>1, <3>2
  <2>6. cfg[o] # "bad"
    BY <2>1 DEF Accepted, Validate, RatioRefused
  <2> QED
    BY <2>4, <2>5, <2>6
<1> QED
  BY <1>1, Invariance, PTL
================================================================================
