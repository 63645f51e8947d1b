----------------------------- MODULE HttpServer -----------------------------
(***************************************************************************)
(* httpserver.Server (httpserver/httpserver.go): Start, the goroutine that *)
(* runs http.Server.Serve, and one Stop with a context that may end at any *)
(* time.  Unlike localgateway it has neither a gate before the handler nor *)
(* a lock around Stop: go-app calls Start once and Stop once.              *)
(*                                                                         *)
(* net/http is external.  Shutdown closes the connections that look idle   *)
(* and waits for the others; a connection looks idle until the request it  *)
(* has read is marked active, so a handler may still begin on a connection *)
(* that Shutdown has closed.  Close closes all of them and waits for none. *)
(***************************************************************************)
EXTENDS FiniteSets

CONSTANT Conns  \* connections, each serving requests one after another

VARIABLES
    server,      \* s.server # nil, and with it s.listener and s.serveDone
    serve,       \* the goroutine started by Start
    failure,     \* the error Serve returns is not ErrServerClosed
    serveErr,    \* s.serveErr # nil
    reason,      \* who asked for the shutdown first, or "none"
    listening,   \* the listener is registered with the http.Server
    open,        \* the listener accepts connections
    inShutdown,  \* Shutdown or Close has been called
    tracked,     \* connections the http.Server knows, all of them open
    http,        \* each connection's goroutine
    stop,        \* where Stop is
    expired,     \* its context has ended
    result,      \* the errors it has collected
    pending      \* handlers that ran when Stop was called and run still

serveVars == <<serve, failure, serveErr, listening>>
netVars == <<open, inShutdown, tracked, http>>
stopVars == <<stop, expired, result, pending>>
httpVars == <<server, serveVars, reason, netVars, stopVars>>

HttpTypeOK ==
    /\ {server, failure, serveErr, listening, open, inShutdown, expired}
          \subseteq BOOLEAN
    /\ reason \in {"none", "server", "adapter"}
    /\ serve \in {"none", "spawned", "loop", "untrack", "record", "report", "done"}
    /\ tracked \cup pending \subseteq Conns
    /\ http \in [Conns -> {"none", "idle", "read", "active"}]
    /\ stop \in {"idle", "group", "poll", "select", "returned"}
    /\ result \subseteq {"shutdown", "deadline", "serve"}

HttpInit ==
    /\ server = FALSE /\ serve = "none" /\ failure = FALSE /\ serveErr = FALSE
    /\ reason = "none" /\ listening = FALSE /\ open = FALSE
    /\ inShutdown = FALSE /\ tracked = {} /\ http = [c \in Conns |-> "none"]
    /\ stop = "idle" /\ expired = FALSE /\ result = {} /\ pending = {}

-----------------------------------------------------------------------------
(* app.RequestShutdownFunc: only the first call matters.                   *)
AskShutdown(who) == reason' = IF reason = "none" THEN who ELSE reason

(* Start; when the address is taken it fails and changes nothing.          *)
HttpStart ==
    /\ ~server
    /\ server' = TRUE
    /\ open' = TRUE
    /\ serve' = "spawned"
    /\ UNCHANGED <<failure, serveErr, listening, reason, inShutdown,
                   tracked, http, stopVars>>

ServeGoes(from, to) == serve = from /\ serve' = to

(* Serve registers the listener, unless Shutdown came first.               *)
ServeTrack ==
    /\ ServeGoes("spawned", IF inShutdown THEN "untrack" ELSE "loop")
    /\ listening' = ~inShutdown
    /\ UNCHANGED <<server, failure, serveErr, reason, netVars, stopVars>>

(* Accept returns an error: the listener failed, or Shutdown closed it and *)
(* Serve makes ErrServerClosed of it.                                      *)
ServeLeaves(fails) ==
    /\ ServeGoes("loop", "untrack")
    /\ inShutdown = ~fails
    /\ failure' = fails
    /\ UNCHANGED <<server, serveErr, listening, reason, netVars, stopVars>>

(* Serve's deferred calls.                                                 *)
ServeReturns ==
    /\ ServeGoes("untrack", IF failure THEN "record" ELSE "done")
    /\ listening' = FALSE
    /\ open' = FALSE
    /\ UNCHANGED <<server, failure, serveErr, reason, inShutdown, tracked,
                   http, stopVars>>

(* mutant: the application is asked to shut down before the error is kept. *)
ServeRecordLate ==
    /\ ServeGoes("record", "report")
    /\ AskShutdown("server")
    /\ UNCHANGED <<server, failure, serveErr, listening, netVars, stopVars>>

ServeRecord ==
    /\ ServeGoes("record", "report")
    /\ serveErr' = TRUE
    /\ UNCHANGED <<server, failure, listening, reason, netVars, stopVars>>

(* requestShutdown(), and the deferred close(serveDone).                   *)
ServeReport ==
    /\ ServeGoes("report", "done")
    /\ AskShutdown("server")
    /\ UNCHANGED <<server, failure, serveErr, listening, netVars, stopVars>>

ServeStep ==
    \/ ServeTrack \/ ServeLeaves(FALSE) \/ ServeReturns \/ ServeRecord \/ ServeReport

-----------------------------------------------------------------------------
(* A client connects.                                                      *)
Connect(c) ==
    /\ serve = "loop" /\ open
    /\ http[c] = "none"
    /\ http' = [http EXCEPT ![c] = "idle"]
    /\ tracked' = tracked \cup {c}
    /\ UNCHANGED <<server, serveVars, reason, open, inShutdown, stopVars>>

ConnMove(c, from, to) ==
    /\ http[c] = from
    /\ http' = [http EXCEPT ![c] = to]
    /\ tracked' = IF to = "none" THEN tracked \ {c} ELSE tracked
    /\ pending' = IF from = "active" THEN pending \ {c} ELSE pending
    /\ UNCHANGED <<server, serveVars, open, inShutdown, stop, expired, result>>

(* The next request has been read; it is marked active and handled; the    *)
(* connection is kept for another one unless the server is shutting down.  *)
(* The client may hang up between two requests.                            *)
ConnRead(c) == c \in tracked /\ ConnMove(c, "idle", "read")
ConnActivate(c) == ConnMove(c, "read", "active")
ConnReplies(c) == ConnMove(c, "active", "none") \/ (~inShutdown /\ ConnMove(c, "active", "idle"))
ConnEnds(c) == ConnMove(c, "idle", "none")

Handling(c) == http[c] = "active"

-----------------------------------------------------------------------------
StopGoes(from, to) ==
    /\ stop = from
    /\ stop' = to
    /\ UNCHANGED <<server, serveVars, reason, http>>

(* Stop calls Shutdown, which closes the listener; before Start it returns *)
(* nil at once.                                                            *)
StopBegin ==
    /\ StopGoes("idle", IF server THEN "group" ELSE "returned")
    /\ pending' = {c \in Conns : Handling(c)}
    /\ inShutdown' = server
    /\ open' = IF listening THEN FALSE ELSE open
    /\ UNCHANGED <<tracked, expired, result>>

(* It waits for Serve to have left its loop.                               *)
ShutdownGroup ==
    /\ ~listening
    /\ StopGoes("group", "poll")
    /\ UNCHANGED <<open, inShutdown, tracked, expired, result, pending>>

ShutdownCloses(c) ==
    /\ c \in tracked /\ ~Handling(c)
    /\ StopGoes("poll", "poll")
    /\ tracked' = tracked \ {c}
    /\ UNCHANGED <<open, inShutdown, expired, result, pending>>

ShutdownReturns ==
    /\ tracked = {}
    /\ StopGoes("poll", "select")
    /\ UNCHANGED <<open, inShutdown, tracked, expired, result, pending>>

(* The context ended first, or closing the listener failed: Close.         *)
ShutdownFails ==
    /\ expired \/ tracked = {}
    /\ StopGoes("poll", "select")
    /\ result' = {"shutdown"}
    /\ tracked' = {}
    /\ open' = FALSE
    /\ UNCHANGED <<inShutdown, expired, pending>>

(* select: either channel, if both are ready; then s.serveErr is read.     *)
StopSelect ==
    /\ StopGoes("select", "returned")
    /\ \E late \in BOOLEAN :
          /\ IF late THEN expired ELSE serve = "done"
          /\ result' = result \cup (IF late THEN {"deadline"} ELSE {})
                               \cup (IF serveErr THEN {"serve"} ELSE {})
    /\ UNCHANGED <<open, inShutdown, tracked, expired, pending>>

StopStep ==
    \/ ShutdownGroup \/ (\E c \in Conns : ShutdownCloses(c)) \/ ShutdownReturns
    \/ ShutdownFails \/ StopSelect

(* The stop timeout.                                                       *)
StopExpires ==
    /\ stop \notin {"idle", "returned"}
    /\ ~expired
    /\ expired' = TRUE
    /\ UNCHANGED <<server, serveVars, reason, netVars, stop, result, pending>>

-----------------------------------------------------------------------------
(* doc.go: "Unexpected serving failures request application shutdown and   *)
(* are returned from Server.Stop": whatever else a Stop called for that    *)
(* reason meets, also if its context ends first.  And a Stop that returned *)
(* nil hid no failure, has closed the port, and let every handler that was *)
(* running when it was called reply.                                       *)
StopIsHonest ==
    stop = "returned" /\ server =>
       /\ reason = "server" => "serve" \in result
       /\ result = {} =>
            /\ serve = "done" /\ ~failure /\ ~open
            /\ pending = {}
=============================================================================
