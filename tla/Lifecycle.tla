----------------------------- MODULE Lifecycle -----------------------------
(***************************************************************************)
(* The process, from main to exit: startup in the order of lib.Start       *)
(* (pkg/init.go), the goroutines it leaves running, signals and shutdown.  *)
(* What a request does is reduced to its two changes, one of a container   *)
(* and then one of the document, as in POST, PUT and DELETE alike.         *)
(***************************************************************************)
EXTENDS FiniteSets, Naturals

CONSTANTS
    Handler,      \* goroutines serving requests
    MaxRequests,  \* bound on requests
    MaxSignals    \* bound on signals

ASSUME LifecycleAssumption == IsFiniteSet(Handler) /\ MaxRequests \in Nat /\ MaxSignals \in Nat

VARIABLES
    mode,       \* conf.DeployMode
    ensure,     \* conf.StartupEnsureDeployed
    main,       \* where the main goroutine is
    exit,       \* how the process ended, "" before
    notify,     \* signal.Notify has been called
    pending,    \* a signal is in the channel or was taken from it
    cancelled,  \* ctx is done
    wg,         \* the closers the WaitGroup counts
    server,     \* state of the http.Server
    dbOpen,     \* the MongoDB client is connected
    handler,    \* Handler -> where it is
    cut,        \* history: requests ended between their two changes
    requests, signals

vars == <<mode, ensure, main, exit, notify, pending, cancelled, wg, server, dbOpen,
          handler, cut, requests, signals>>

conf == <<mode, ensure>>

DeployMode == {"docker", "rancher1", "rancher2", "other"}

Stage == {"load", "mongo", "deploy", "migrate", "ensure", "api"}

(* Every variable has its type, and the wait group counts what was opened. *)
TypeOK ==
    /\ mode \in DeployMode /\ ensure \in BOOLEAN
    /\ main \in Stage \cup {"wait", "gone"}
    /\ exit \in {"", "complete", "fatal", "killed"}
    /\ (main = "gone") = (exit # "")
    /\ wg \subseteq IF mode = "docker" THEN {"mongo", "docker"} ELSE {"mongo"}
    /\ server \in {"off", "started", "listening", "shutdown", "closed"}
    /\ (main \in Stage) => (server = "off" /\ ~notify)
    /\ handler \in [Handler -> {"none", "container", "document"}]
    /\ notify \in BOOLEAN /\ pending \in BOOLEAN
    /\ cancelled \in BOOLEAN /\ dbOpen \in BOOLEAN
    /\ cut \in Nat /\ requests \in Nat /\ signals \in Nat

Init ==
    /\ mode \in DeployMode /\ ensure \in BOOLEAN
    /\ main = "load" /\ exit = ""
    /\ notify = FALSE /\ pending = FALSE /\ cancelled = FALSE
    /\ wg = {} /\ server = "off" /\ dbOpen = FALSE
    /\ handler = [h \in Handler |-> "none"]
    /\ cut = 0 /\ requests = 0 /\ signals = 0

-----------------------------------------------------------------------------
Alive == exit = ""

Half == {h \in Handler : handler[h] = "document"}

(* The end of the process is the end of all its goroutines.                *)
Ends(how) ==
    /\ main' = "gone" /\ exit' = how
    /\ handler' = [h \in Handler |-> "none"]
    /\ cut' = cut + Cardinality(Half)
    /\ server' = "closed" /\ dbOpen' = FALSE /\ wg' = {}
    /\ UNCHANGED <<conf, notify, pending, cancelled, requests>>

(* log.Fatal.                                                              *)
Fatal == Ends("fatal") /\ UNCHANGED signals

-----------------------------------------------------------------------------
(* main and lib.Start.  Each stage may fail, and then so does the process. *)

serving ==
    <<exit, notify, pending, cancelled, server, handler, cut, requests, signals>>

Enter(stage) == main' = stage /\ UNCHANGED <<conf, serving>>

LoadConfig ==
    /\ main = "load"
    /\ \/ Enter("mongo") /\ UNCHANGED <<wg, dbOpen>>
       \/ Fatal

(* mongo.New: a client, the indexes and a closer.                          *)
MongoNew ==
    /\ main = "mongo"
    /\ \/ Enter("deploy") /\ dbOpen' = TRUE /\ wg' = wg \cup {"mongo"}
       \/ Fatal

(* Faulty: the wait group counts a closer that is not there.               *)
DeployNewCounted ==
    /\ main = "deploy"
    /\ mode # "other"
    /\ Enter("migrate") /\ UNCHANGED dbOpen
    /\ wg' = wg \cup {"docker"}

(* dockerClient.New has a closer, rancher1 a self-check, rancher2 neither. *)
DeployNew ==
    /\ main = "deploy"
    /\ \/ /\ mode # "other"
          /\ Enter("migrate") /\ UNCHANGED dbOpen
          /\ wg' = wg \cup (IF mode = "docker" THEN {"docker"} ELSE {})
       \/ mode # "rancher2" /\ Fatal

(* controller.New.                                                         *)
Migrate ==
    /\ main = "migrate"
    /\ \/ Enter(IF ensure THEN "ensure" ELSE "api") /\ UNCHANGED <<wg, dbOpen>>
       \/ Fatal

EnsureDeployed ==
    /\ main = "ensure"
    /\ \/ Enter("api") /\ UNCHANGED <<wg, dbOpen>>
       \/ Fatal

(* api.Start leaves two goroutines; main goes on to start the one for      *)
(* signals and to wait.                                                    *)
ApiStart ==
    /\ main = "api"
    /\ main' = "wait" /\ server' = "started"
    /\ UNCHANGED <<conf, exit, notify, pending, cancelled, wg, dbOpen, handler, cut,
                   requests, signals>>

-----------------------------------------------------------------------------
(* The http.Server.                                                        *)

(* The port is listened on, or taken.  ListenAndServe returns that error   *)
(* or, while it serves, one of Accept; either ends the process, and with   *)
(* it the requests under way.  After a Shutdown the answer is              *)
(* ErrServerClosed, which does not.                                        *)
Listen ==
    \/ /\ server = "started" /\ server' = "listening"
       /\ UNCHANGED <<conf, main, exit, notify, pending, cancelled, wg, dbOpen,
                      handler, cut, requests, signals>>
    \/ server \in {"started", "listening"} /\ Fatal

(* server.Shutdown: no more requests, and a wait for those under way.      *)
Shutdown ==
    /\ server \in {"started", "listening"} /\ cancelled
    /\ server' = "shutdown"
    /\ UNCHANGED <<conf, main, exit, notify, pending, cancelled, wg, dbOpen, handler,
                   cut, requests, signals>>

ShutdownReturns ==
    /\ server = "shutdown" /\ \A h \in Handler : handler[h] = "none"
    /\ server' = "closed"
    /\ UNCHANGED <<conf, main, exit, notify, pending, cancelled, wg, dbOpen, handler,
                   cut, requests, signals>>

Request(h) ==
    /\ server = "listening" /\ handler[h] = "none"
    /\ requests < MaxRequests /\ requests' = requests + 1
    /\ handler' = [handler EXCEPT ![h] = "container"]
    /\ UNCHANGED <<conf, main, exit, notify, pending, cancelled, wg, server, dbOpen,
                   cut, signals>>

(* PUT and DELETE read the document first and end without a database, POST *)
(* goes on.                                                                *)
ChangeContainer(h) ==
    /\ handler[h] = "container"
    /\ \/ handler' = [handler EXCEPT ![h] = "document"]
       \/ ~dbOpen /\ handler' = [handler EXCEPT ![h] = "none"]
    /\ UNCHANGED <<conf, main, exit, notify, pending, cancelled, wg, server, dbOpen,
                   cut, requests, signals>>

ChangeDocument(h) ==
    /\ handler[h] = "document"
    /\ handler' = [handler EXCEPT ![h] = "none"]
    /\ cut' = IF dbOpen THEN cut ELSE cut + 1
    /\ UNCHANGED <<conf, main, exit, notify, pending, cancelled, wg, server, dbOpen,
                   requests, signals>>

-----------------------------------------------------------------------------
(* Signals and the end.                                                    *)

Notify ==
    /\ main = "wait" /\ ~notify /\ notify' = TRUE
    /\ UNCHANGED <<conf, main, exit, pending, cancelled, wg, server, dbOpen, handler,
                   cut, requests, signals>>

(* SIGINT or SIGTERM.  Before Notify it kills the process; the channel has *)
(* room for one and nobody reads a second.                                 *)
Signal ==
    /\ Alive
    /\ signals < MaxSignals /\ signals' = signals + 1
    /\ \/ ~notify /\ Ends("killed")
       \/ /\ notify /\ pending' = TRUE
          /\ UNCHANGED <<conf, main, exit, notify, cancelled, wg, server, dbOpen,
                         handler, cut, requests>>

Cancel ==
    /\ Alive /\ pending /\ ~cancelled
    /\ cancelled' = TRUE
    /\ UNCHANGED <<conf, main, exit, notify, pending, wg, server, dbOpen, handler, cut,
                   requests, signals>>

(* Faulty: the connection is closed at the end of New.                     *)
CloseMongoAtOnce ==
    /\ "mongo" \in wg
    /\ wg' = wg \ {"mongo"} /\ dbOpen' = FALSE
    /\ UNCHANGED <<conf, main, exit, notify, pending, cancelled, server, handler, cut,
                   requests, signals>>

(* Faulty: wg.Done is left out.                                            *)
CloseMongoNotDone ==
    /\ "mongo" \in wg /\ cancelled /\ dbOpen
    /\ dbOpen' = FALSE
    /\ UNCHANGED <<conf, main, exit, notify, pending, cancelled, wg, server, handler,
                   cut, requests, signals>>

(* The closers.  Disconnect has a second at most; Close of the docker      *)
(* client leaves its calls alone.                                          *)
CloseMongo ==
    /\ "mongo" \in wg /\ cancelled
    /\ wg' = wg \ {"mongo"} /\ dbOpen' = FALSE
    /\ UNCHANGED <<conf, main, exit, notify, pending, cancelled, server, handler, cut,
                   requests, signals>>

CloseDocker ==
    /\ "docker" \in wg /\ cancelled
    /\ wg' = wg \ {"docker"}
    /\ UNCHANGED <<conf, main, exit, notify, pending, cancelled, server, dbOpen,
                   handler, cut, requests, signals>>

(* wg.Wait returns, "Shutdown complete" is logged and main with it.        *)
Complete == main = "wait" /\ wg = {} /\ Ends("complete") /\ UNCHANGED signals

StartupStep ==
    LoadConfig \/ MongoNew \/ DeployNew \/ Migrate \/ EnsureDeployed \/ ApiStart

HandlerStep(h) == Request(h) \/ ChangeContainer(h) \/ ChangeDocument(h)

Next ==
    \/ StartupStep \/ Listen \/ Shutdown \/ ShutdownReturns
    \/ \E h \in Handler : HandlerStep(h)
    \/ Notify \/ Signal \/ Cancel \/ CloseMongo \/ CloseDocker \/ Complete

(* The scheduler runs the goroutines that stand between a signal and the   *)
(* exit.  Nothing is assumed of requests, which may take for ever.         *)
Fairness ==
    WF_vars(Cancel) /\ WF_vars(CloseMongo) /\ WF_vars(CloseDocker) /\ WF_vars(Complete)

Spec == Init /\ [][Next]_vars /\ Fairness

-----------------------------------------------------------------------------
(* No request is ended between its change of a container and that of the   *)
(* document unless somebody asked the process to stop or an error of its   *)
(* server ended it.                                                        *)
CutOnlyAtEnd == cut > 0 => (signals > 0 \/ exit = "fatal")

(* Requests, even such as never end, do not keep a signalled process from  *)
(* ending.                                                                 *)
EndsAfterSignal == signals > 0 ~> exit # ""

=============================================================================
