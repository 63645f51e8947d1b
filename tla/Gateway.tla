------------------------------ MODULE Gateway ------------------------------
(***************************************************************************)
(* localgateway.Server (localgateway/gateway.go): Start, the goroutine     *)
(* running http.Server.Serve, one goroutine per connection, and            *)
(* overlapping calls of Stop, composed of                                  *)
(*   Adm   the admissionListener between the server and the socket,        *)
(*   Gate  the handlerGate around the application's handler.               *)
(*                                                                         *)
(* net/http is external and modelled from its documented contract, with    *)
(* the two facts that make Stop hard.  A connection whose request has been *)
(* read but not yet marked active still counts as idle, so Shutdown may    *)
(* close it and return before its handler starts; and Close does not wait  *)
(* for handlers at all.  A connection is closed both by its own goroutine  *)
(* ("conn") and by Shutdown or Close ("server").                           *)
(***************************************************************************)
EXTENDS Integers, FiniteSets

CONSTANTS
    Conns,           \* connections, each serving requests one after another
    Stops,           \* calls of Server.Stop
    Max,             \* maxConnections
    NoConn,
    None,            \* nobody holds s.mu
    MaxFaults,       \* bound: failures of the socket's accept
    MaxCleanupFaults \* bound: failures of cleanup()

ASSUME NoneAssumption == None \notin Stops
ASSUME CleanupAssumption == MaxCleanupFaults \in Nat

VARIABLES
    (* admissionListener *)
    active, closed, baseClosed, pc, got, transport, admitted, released,
    closing, faults,
    (* handlerGate *)
    gstopping, gactive, cond, handler, waiter,
    (* Server *)
    mu,        \* s.mu: the Stop that holds it, or None
    server,    \* s.server # nil, and with it listener and serveDone
    stopping, stopped, serveErr,
    cleanup,   \* s.cleanup # nil
    socket,    \* the endpoint exists in the file system
    cleanupFaults,
    requested, \* requestShutdown has been called
    stop,      \* where each call of Stop is
    result,    \* what each call of Stop has collected: "ok" or "error"
    (* http.Server *)
    serve,      \* the goroutine started by Start
    acceptErr,  \* the error Accept returned to it, then the one Serve returns
    listening,  \* the listener is registered with the http.Server
    inShutdown,
    tracked,    \* connections registered with the http.Server
    http        \* each connection's goroutine

admVars == <<active, closed, baseClosed, pc, got, transport, admitted,
             released, closing, faults>>
gateVars == <<gstopping, gactive, cond, handler, waiter>>
ownVars == <<mu, stopping, stopped, cleanup, socket, cleanupFaults>>
stopVars == <<ownVars, stop, result>>
serveVars == <<serve, acceptErr, listening, serveErr, requested>>
connVars == <<tracked, http>>
others == <<admVars, gateVars, serveVars, connVars, server, inShutdown>>
vars == <<others, stopVars>>

Adm == INSTANCE Admission
          WITH Acceptors <- {"serve"}, Closers <- {"conn", "server"}
Gate == INSTANCE HandlerGate WITH Requests <- Conns, Waiters <- Stops

TypeOK ==
    /\ Adm!TypeOK /\ Gate!GateTypeOK
    /\ mu \in Stops \cup {None}
    /\ server \in BOOLEAN /\ stopping \in BOOLEAN /\ stopped \in BOOLEAN
    /\ serveErr \in BOOLEAN /\ cleanup \in BOOLEAN /\ socket \in BOOLEAN
    /\ requested \in BOOLEAN /\ listening \in BOOLEAN /\ inShutdown \in BOOLEAN
    /\ cleanupFaults \in 0 .. MaxCleanupFaults
    /\ stop \in [Stops -> {"idle", "gate", "shutdown", "listeners", "group",
                           "poll", "pause", "kill", "listener", "serve",
                           "wait", "cleanup", "finish", "returned"}]
    /\ result \in [Stops -> {"ok", "error"}]
    /\ serve \in {"none", "spawned", "loop", "erred", "untrack", "closing",
                  "reporting", "done"}
    /\ acceptErr \in {"none", "closed", "fault"}
    /\ tracked \subseteq Conns
    /\ http \in [Conns -> {"none", "new", "idle", "read", "active", "handler",
                           "served", "closing", "releasing", "untrack", "gone"}]

Init ==
    /\ Adm!Init /\ Gate!GateInit
    /\ mu = None /\ server = FALSE /\ stopping = FALSE /\ stopped = FALSE
    /\ serveErr = FALSE /\ cleanup = FALSE /\ socket = FALSE
    /\ requested = FALSE /\ listening = FALSE /\ inShutdown = FALSE
    /\ cleanupFaults = 0
    /\ stop = [p \in Stops |-> "idle"]
    /\ result = [p \in Stops |-> "ok"]
    /\ serve = "none" /\ acceptErr = "none"
    /\ tracked = {}
    /\ http = [c \in Conns |-> "none"]

-----------------------------------------------------------------------------
(* Start, which holds s.mu throughout.  A refusal or a failure of          *)
(* listenLocal changes nothing.                                            *)
Start ==
    /\ mu = None
    /\ ~stopping /\ ~stopped /\ ~server
    /\ server' = TRUE
    /\ cleanup' = TRUE
    /\ socket' = TRUE
    /\ serve' = "spawned"
    /\ UNCHANGED <<admVars, gateVars, connVars, mu, stopping, stopped,
                   cleanupFaults, stop, result, acceptErr, listening,
                   serveErr, requested, inShutdown>>

Dial(c) ==
    /\ socket
    /\ Adm!Dial(c)
    /\ UNCHANGED <<gateVars, stopVars, serveVars, connVars, server, inShutdown>>

-----------------------------------------------------------------------------
(* The Serve goroutine.  srv.mu is held by the part of Shutdown that       *)
(* closes the listeners, so registration waits for it.                     *)
ServerLockFree == \A p \in Stops : stop[p] # "listeners"

(* trackListener(true): refused once Shutdown has begun.                   *)
ServeTrack ==
    /\ serve = "spawned"
    /\ ServerLockFree
    /\ \/ /\ ~inShutdown
          /\ serve' = "loop"
          /\ listening' = TRUE
          /\ UNCHANGED acceptErr
       \/ /\ inShutdown
          /\ serve' = "closing"
          /\ acceptErr' = "closed"
          /\ UNCHANGED listening
    /\ UNCHANGED <<admVars, gateVars, stopVars, connVars, serveErr, requested,
                   server, inShutdown>>

(* Inside Accept, up to the point where it returns.                        *)
ServeAccept ==
    /\ serve = "loop"
    /\ \/ Adm!Call("serve")
       \/ Adm!Saturated("serve")
       \/ Adm!Reserve("serve")
       \/ \E c \in Conns : Adm!BaseAccept("serve", c) \/ Adm!RejectPeer("serve", c)
       \/ Adm!BaseFail("serve")
       \/ Adm!Discard("serve")
    /\ UNCHANGED <<gateVars, stopVars, serveVars, connVars, server, inShutdown>>

(* Accept returns a connection, which Serve registers and gives a          *)
(* goroutine.  Nothing looks at the registrations before Serve has left.   *)
ServeConn ==
    /\ serve = "loop"
    /\ Adm!Publish("serve")
    /\ tracked' = tracked \cup {got["serve"]}
    /\ http' = [http EXCEPT ![got["serve"]] = "new"]
    /\ UNCHANGED <<gateVars, stopVars, serveVars, server, inShutdown>>

(* Accept returns an error: net.ErrClosed, or what the socket reported.    *)
ServeError ==
    /\ serve = "loop"
    /\ \/ (Adm!ReturnClosed("serve") \/ Adm!DropConn("serve"))
             /\ acceptErr' = "closed"
       \/ Adm!ReleaseAfterFail("serve")
             /\ acceptErr' = IF baseClosed THEN "closed" ELSE "fault"
    /\ serve' = "erred"
    /\ UNCHANGED <<gateVars, stopVars, connVars, listening, serveErr,
                   requested, server, inShutdown>>

(* Serve's reaction: ErrServerClosed after Shutdown began, a retry for a   *)
(* temporary fault, and otherwise the error itself.                        *)
ServeReact ==
    /\ serve = "erred"
    /\ \/ inShutdown /\ serve' = "untrack" /\ acceptErr' = "closed"
       \/ ~inShutdown /\ acceptErr = "fault" /\ serve' = "loop"
             /\ acceptErr' = "none"
       \/ ~inShutdown /\ serve' = "untrack" /\ acceptErr' = "fault"
    /\ UNCHANGED <<admVars, gateVars, stopVars, connVars, listening, serveErr,
                   requested, server, inShutdown>>

(* Serve's deferred calls: deregister the listener, then close it.         *)
ServeUntrack ==
    /\ serve = "untrack"
    /\ ServerLockFree
    /\ serve' = "closing"
    /\ listening' = FALSE
    /\ UNCHANGED <<admVars, gateVars, stopVars, connVars, acceptErr, serveErr,
                   requested, server, inShutdown>>

ServeClose ==
    /\ serve = "closing"
    /\ Adm!CloseMark \/ Adm!BaseClose
    /\ UNCHANGED <<gateVars, stopVars, serveVars, connVars, server, inShutdown>>

(* Serve returns; the goroutine records any error but ErrServerClosed,     *)
(* asks the application to shut down and closes serveDone.                 *)
ServeClosed ==
    /\ serve = "closing" /\ baseClosed
    /\ serve' = "reporting"
    /\ UNCHANGED <<admVars, gateVars, stopVars, connVars, acceptErr, listening,
                   serveErr, requested, server, inShutdown>>

ServeReport ==
    /\ serve = "reporting"
    /\ serveErr' = (acceptErr = "fault")
    /\ requested' = (requested \/ acceptErr = "fault")
    /\ serve' = "done"
    /\ UNCHANGED <<admVars, gateVars, stopVars, connVars, acceptErr, listening,
                   server, inShutdown>>

ServeStep ==
    \/ ServeTrack
    \/ ServeAccept
    \/ ServeConn
    \/ ServeError
    \/ ServeReact
    \/ ServeUntrack
    \/ ServeClose
    \/ ServeClosed
    \/ ServeReport

-----------------------------------------------------------------------------
(* The goroutine of one connection (net/http's conn.serve).                *)
ConnMove(c, from, to) ==
    /\ http[c] \in from
    /\ http' = [http EXCEPT ![c] = to]

(* A request has been read; the server still sees a new or idle connection.*)
ConnRead(c) ==
    /\ ConnMove(c, {"new", "idle"}, "read")
    /\ transport[c] = "open"
    /\ UNCHANGED <<admVars, gateVars, stopVars, serveVars, tracked, server,
                   inShutdown>>

ConnActivate(c) ==
    /\ ConnMove(c, {"read"}, "active")
    /\ UNCHANGED <<admVars, gateVars, stopVars, serveVars, tracked, server,
                   inShutdown>>

(* gatedHandler.ServeHTTP                                                  *)
ConnEnter(c) ==
    /\ ConnMove(c, {"active"}, "handler")
    /\ Gate!Enter(c)
    /\ UNCHANGED <<admVars, stopVars, serveVars, tracked, server, inShutdown>>

ConnRefuse(c) ==
    /\ ConnMove(c, {"active"}, "served")
    /\ Gate!Refuse(c)
    /\ UNCHANGED <<admVars, stopVars, serveVars, tracked, server, inShutdown>>

ConnLeave(c) ==
    /\ ConnMove(c, {"handler"}, "served")
    /\ Gate!Leave(c)
    /\ UNCHANGED <<admVars, stopVars, serveVars, tracked, server, inShutdown>>

(* Keep the connection for another request, unless the server shuts down.  *)
ConnKeep(c) ==
    /\ ~inShutdown
    /\ ConnMove(c, {"served"}, "idle")
    /\ UNCHANGED <<admVars, gateVars, stopVars, serveVars, tracked, server,
                   inShutdown>>

(* The client hung up, a timeout fired, the request was malformed, or the  *)
(* response ended the connection.                                          *)
ConnGiveUp(c) ==
    /\ ConnMove(c, {"new", "idle", "read", "served"}, "closing")
    /\ UNCHANGED <<admVars, gateVars, stopVars, serveVars, tracked, server,
                   inShutdown>>

ConnClose(c) ==
    /\ ConnMove(c, {"closing"}, "releasing")
    /\ Adm!CloseConn("conn", c)
    /\ UNCHANGED <<gateVars, stopVars, serveVars, tracked, server, inShutdown>>

ConnRelease(c) ==
    /\ ConnMove(c, {"releasing"}, "untrack")
    /\ Adm!ReleaseOnce("conn", c)
    /\ UNCHANGED <<gateVars, stopVars, serveVars, tracked, server, inShutdown>>

ConnUntrack(c) ==
    /\ ConnMove(c, {"untrack"}, "gone")
    /\ tracked' = tracked \ {c}
    /\ UNCHANGED <<admVars, gateVars, stopVars, serveVars, server, inShutdown>>

ConnStep(c) ==
    \/ ConnRead(c)
    \/ ConnActivate(c)
    \/ ConnEnter(c)
    \/ ConnRefuse(c)
    \/ ConnLeave(c)
    \/ ConnKeep(c)
    \/ ConnGiveUp(c)
    \/ ConnClose(c)
    \/ ConnRelease(c)
    \/ ConnUntrack(c)

-----------------------------------------------------------------------------
(* Stop.  GoTo moves one call; JustGoTo is a step that does nothing else.  *)
GoTo(p, from, to) ==
    /\ stop[p] = from
    /\ stop' = [stop EXCEPT ![p] = to]

JustGoTo(p, from, to) ==
    /\ GoTo(p, from, to)
    /\ UNCHANGED <<others, ownVars, result>>

(* The locked prologue; a Server that is already stopped returns nil.      *)
StopBegin(p) ==
    /\ mu = None
    /\ \/ /\ stopped
          /\ GoTo(p, "idle", "returned")
          /\ UNCHANGED <<mu, stopping>>
       \/ /\ ~stopped
          /\ GoTo(p, "idle", "gate")
          /\ mu' = p
          /\ stopping' = TRUE
    /\ UNCHANGED <<others, stopped, cleanup, socket, cleanupFaults, result>>

(* s.handlers.stop().  Without a server there is nothing to shut down.     *)
StopCloseGate(p) ==
    /\ GoTo(p, "gate", IF server THEN "shutdown" ELSE "wait")
    /\ Gate!StopGate(p)
    /\ UNCHANGED <<admVars, serveVars, connVars, server, inShutdown, ownVars, result>>

(* mutant: Stop closes its listener first and shuts the server down after. *)
ShutdownBeginLate(p) ==
    /\ JustGoTo(p, "shutdown", "listeners")

(* http.Server.Shutdown: no registration from here on.                     *)
ShutdownBegin(p) ==
    /\ GoTo(p, "shutdown", "listeners")
    /\ inShutdown' = TRUE
    /\ UNCHANGED <<admVars, gateVars, serveVars, connVars, server, ownVars, result>>

(* The listener is closed by Shutdown ("listeners") if it is registered,   *)
(* and by Stop itself ("listener"); the one that really closes the socket  *)
(* may see the operating system report an error.                           *)
StopCloses(p) ==
    /\ stop[p] \in (IF listening THEN {"listener", "listeners"} ELSE {"listener"})
    /\ \/ Adm!CloseMark /\ UNCHANGED result
       \/ Adm!BaseClose /\ \E r \in {result[p], "error"} :
                              result' = [result EXCEPT ![p] = r]
    /\ UNCHANGED <<gateVars, serveVars, connVars, server, inShutdown, ownVars, stop>>

(* Shutdown waits for Serve to have left its loop.                         *)
ShutdownListeners(p) ==
    /\ ~listening \/ baseClosed
    /\ JustGoTo(p, "listeners", "group")

ShutdownGroup(p) ==
    /\ ~listening
    /\ JustGoTo(p, "group", "poll")

(* Stop's own goroutine is inside a connection's Close.                    *)
ServerCloses == {c \in Conns : "server" \in closing[c]}

(* One pass over the connections closes those that look idle (a new one    *)
(* looks idle after five seconds); Close takes all of them.                *)
StopClosesConn(p, c) ==
    /\ ServerCloses = {}
    /\ c \in tracked
    /\ \/ stop[p] = "poll" /\ http[c] \notin {"active", "handler", "served"}
       \/ stop[p] = "kill"
    /\ Adm!CloseConn("server", c)
    /\ tracked' = tracked \ {c}
    /\ UNCHANGED <<gateVars, stopVars, serveVars, http, server, inShutdown>>

StopReleasesConn(p, c) ==
    /\ stop[p] \in {"poll", "kill"}
    /\ Adm!ReleaseOnce("server", c)
    /\ UNCHANGED <<gateVars, stopVars, serveVars, connVars, server, inShutdown>>

(* A pass that left connections is followed by a pause, and that by        *)
(* another pass or by the end of the caller's context.                     *)
ShutdownPause(p) ==
    /\ ServerCloses = {}
    /\ \/ tracked # {} /\ GoTo(p, "poll", "pause")
       \/ GoTo(p, "pause", "poll")
    /\ UNCHANGED <<others, ownVars, result>>

ShutdownExpires(p) ==
    /\ GoTo(p, "pause", "kill")
    /\ result' = [result EXCEPT ![p] = "error"]
    /\ UNCHANGED <<others, ownVars>>

(* Shutdown returns with every connection gone; the error of closing the   *)
(* listener makes Stop call Close as well.                                 *)
ShutdownReturns(p) ==
    /\ ServerCloses = {} /\ tracked = {}
    /\ JustGoTo(p, "poll", IF result[p] = "ok" THEN "listener" ELSE "kill")

KillReturns(p) ==
    /\ ServerCloses = {} /\ tracked = {}
    /\ JustGoTo(p, "kill", "listener")

StopListenerClosed(p) ==
    /\ baseClosed
    /\ JustGoTo(p, "listener", "serve")

(* <-s.serveDone                                                           *)
StopAwaitsServe(p) ==
    /\ serve = "done"
    /\ JustGoTo(p, "serve", "wait")

(* mutant: Stop does not wait for the handlers, only for HTTP.             *)
StopSkipsWait(p) ==
    /\ JustGoTo(p, "wait", "cleanup")

(* s.handlers.wait(), until it returns.                                    *)
StopWaits(p) ==
    /\ \/ /\ stop[p] = "wait"
          /\ Gate!WaitCheck(p)
          /\ UNCHANGED stop
       \/ /\ waiter[p] = "returned"
          /\ GoTo(p, "wait", "cleanup")
          /\ UNCHANGED gateVars
    /\ UNCHANGED <<admVars, serveVars, connVars, server, inShutdown, ownVars, result>>

(* cleanup() removes the socket, or fails and is kept for a later Stop.    *)
StopCleansUp(p) ==
    /\ GoTo(p, "cleanup", "finish")
    /\ \/ /\ cleanup' = FALSE
          /\ socket' = (socket /\ ~cleanup)
          /\ UNCHANGED <<result, cleanupFaults>>
       \/ /\ cleanup /\ cleanupFaults < MaxCleanupFaults
          /\ cleanupFaults' = cleanupFaults + 1
          /\ result' = [result EXCEPT ![p] = "error"]
          /\ UNCHANGED <<cleanup, socket>>
    /\ UNCHANGED <<others, mu, stopping, stopped>>

(* mutant: Stop reports success to itself without joining the errors.      *)
StopFinishesAnyway(p) ==
    /\ GoTo(p, "finish", "returned")
    /\ stopped' = TRUE
    /\ mu' = None
    /\ UNCHANGED <<others, stopping, cleanup, socket, cleanupFaults, result>>

(* The error of Serve is joined; only a Stop without errors is the last.   *)
StopFinishes(p) ==
    /\ GoTo(p, "finish", "returned")
    /\ result' = IF serveErr THEN [result EXCEPT ![p] = "error"] ELSE result
    /\ stopped' = (result'[p] = "ok")
    /\ mu' = None
    /\ UNCHANGED <<others, stopping, cleanup, socket, cleanupFaults>>

StopStep(p) ==
    \/ StopCloseGate(p)
    \/ ShutdownBegin(p)
    \/ StopCloses(p)
    \/ ShutdownListeners(p)
    \/ ShutdownGroup(p)
    \/ \E c \in Conns : StopClosesConn(p, c) \/ StopReleasesConn(p, c)
    \/ ShutdownPause(p)
    \/ ShutdownExpires(p)
    \/ ShutdownReturns(p)
    \/ KillReturns(p)
    \/ StopListenerClosed(p)
    \/ StopAwaitsServe(p)
    \/ StopWaits(p)
    \/ StopCleansUp(p)
    \/ StopFinishes(p)

-----------------------------------------------------------------------------
Next ==
    \/ Start
    \/ \E c \in Conns : Dial(c) \/ ConnStep(c)
    \/ ServeStep
    \/ \E p \in Stops : StopBegin(p) \/ StopStep(p)

Spec == Init /\ [][Next]_vars

(* Goroutines run; a connection that waits for a request ends by the       *)
(* read and idle timeouts New makes sure of; handlers return, which Stop's *)
(* comment asks of them.  Nothing forces Start, Stop or a client.          *)
Fairness ==
    /\ WF_vars(ServeStep)
    /\ \A c \in Conns : WF_vars(ConnStep(c))
    /\ \A p \in Stops : WF_vars(StopStep(p))

FairSpec == Spec /\ Fairness

-----------------------------------------------------------------------------
Inflight == {c \in Conns : handler[c] = "in"}

(* A Stop that returned nil left nothing behind and hid no failure; a      *)
(* failed removal of the socket can still be retried.                      *)
StoppedIsClean ==
    /\ stopped => ~socket /\ ~cleanup /\ ~serveErr
    /\ socket => cleanup

(* The listener's own closing by Stop is never mistaken for a failure of   *)
(* Serve: an error is recorded only if the socket really failed, and then  *)
(* the application has been asked to shut down.                            *)
FailureIsGenuine == serveErr => faults > 0 /\ requested

(* Every call of Stop that took s.mu returns and gives it back.            *)
StopReturns == \A p \in Stops : (mu = p) ~> (stop[p] = "returned" /\ mu # p)

(* The abstract service: serving from Start to the first Stop, quiet once  *)
(* a Stop has returned.                                                    *)
Phase ==
    IF gstopping
    THEN IF \E p \in Stops : stop[p] = "returned" THEN "quiet" ELSE "draining"
    ELSE IF server THEN "serving" ELSE "new"

Service == INSTANCE GracefulService
    WITH Requests <- Conns, phase <- Phase, inflight <- Inflight,
         endpoint <- socket

(* The gateway keeps the promise of GracefulService.                       *)
ImplementsService == Service!Spec
=============================================================================
