---------------------------- MODULE AdvancedJobs ----------------------------
(***************************************************************************)
(* examples/advanced-jobs/main.go: JobManager behind two adapters, HTTP    *)
(* handlers served by echoserver, which forwards Start and Stop to an      *)
(* httpserver.Server, and a goroutine reading commands.  go-app (external) *)
(* starts the components in order, is asked to shut down by an adapter, by *)
(* the server or by a signal, ends the RuntimeContext at some time after   *)
(* that, and stops the server first and the job manager last; the command  *)
(* line has no Stop and goes on until the program ends.                    *)
(***************************************************************************)
EXTENDS HttpServer, JobManager

VARIABLES
    app,  \* "starting", "running", "server" or "jobs" (being stopped), "ended"
    cli   \* JobCLI.run: "off", "loop", "done"

vars == <<httpVars, jobVars, app, cli>>

TypeOK ==
    /\ HttpTypeOK /\ JobTypeOK
    /\ app \in {"starting", "running", "server", "jobs", "ended"}
    /\ cli \in {"off", "loop", "done"}

Init == HttpInit /\ JobInit /\ app = "starting" /\ cli = "off"

Alive == app # "ended" /\ ~panicked

-----------------------------------------------------------------------------
(* JobCLI.Start, then the server's.                                        *)
StartCli ==
    /\ cli = "off"
    /\ cli' = "loop"
    /\ UNCHANGED <<httpVars, jobVars, app>>

StartServer ==
    /\ app = "starting" /\ cli # "off"
    /\ HttpStart
    /\ app' = "running"
    /\ UNCHANGED <<jobVars, cli>>

(* A request to shut down, or the failure of a Start, stops the components *)
(* in reverse order; both parts of the program have the Stops' timeouts.   *)
StopServer ==
    /\ cli # "off"
    /\ app = "starting" \/ (app = "running" /\ reason # "none")
    /\ StopBegin
    /\ app' = "server"
    /\ UNCHANGED <<jobVars, cli>>

StopJobs ==
    /\ app = "server" /\ stop = "returned"
    /\ JobStopBegin
    /\ app' = "jobs"
    /\ UNCHANGED <<httpVars, cli>>

End ==
    /\ app = "jobs"
    /\ JobStopReturns
    /\ app' = "ended"
    /\ UNCHANGED <<httpVars, cli>>

AppStep == StartCli \/ StopServer \/ StopJobs \/ End

(* A signal, or requestShutdown in its goroutine.                          *)
Signal ==
    /\ AskShutdown("adapter")
    /\ UNCHANGED <<server, serveVars, netVars, stopVars, jobVars, app, cli>>

EndRuntime ==
    /\ reason # "none" \/ stop # "idle"
    /\ RuntimeEnds
    /\ UNCHANGED <<httpVars, app, cli>>

-----------------------------------------------------------------------------
(* The server's goroutines and connections.                                *)
ServerStep ==
    /\ ServeStep \/ StopStep
    /\ UNCHANGED <<jobVars, app, cli>>

ServerFails == ServeLeaves(TRUE) /\ UNCHANGED <<jobVars, app, cli>>

ServerTimeout == StopExpires /\ UNCHANGED <<jobVars, app, cli>>

Client(c) ==
    /\ Connect(c) \/ ConnRead(c) \/ ConnEnds(c)
    /\ UNCHANGED <<reason, jobVars, app, cli>>

(* start, cancel, shutdown; list, health and malformed requests change     *)
(* nothing.                                                                *)
Handle(c) ==
    /\ ConnReplies(c)
    /\ \/ StartJob /\ UNCHANGED reason
       \/ (\E j \in Jobs : CancelJob(j)) /\ UNCHANGED reason
       \/ AskShutdown("adapter") /\ UNCHANGED jobVars
       \/ UNCHANGED <<reason, jobVars>>
    /\ UNCHANGED <<app, cli>>

ConnStep(c) ==
    \/ Handle(c)
    \/ /\ ConnActivate(c)
       /\ UNCHANGED <<reason, jobVars, app, cli>>

(* handle: "start", "cancel" and "quit"; the loop also ends with its input *)
(* or with the RuntimeContext, when it may still take a line instead.      *)
Command ==
    /\ cli = "loop"
    /\ \/ /\ StartJob \/ \E j \in Jobs : CancelJob(j)
          /\ UNCHANGED <<reason, cli>>
       \/ /\ cli' = "done"
          /\ UNCHANGED reason \/ AskShutdown("adapter")
          /\ UNCHANGED jobVars
    /\ UNCHANGED <<server, serveVars, netVars, stopVars, app>>

JobStep ==
    /\ WaiterStep \/ \E j \in Jobs : RunCanceled(j) \/ RunRecords(j) \/ RunDone(j)
    /\ UNCHANGED <<httpVars, app, cli>>

Timer(j) == RunTimer(j) /\ UNCHANGED <<httpVars, app, cli>>

Next ==
    /\ Alive
    /\ \/ StartServer \/ AppStep \/ Signal \/ EndRuntime
       \/ ServerStep \/ ServerFails \/ ServerTimeout
       \/ (\E c \in Conns : Client(c) \/ ConnStep(c))
       \/ Command \/ JobStep \/ (\E j \in Jobs : Timer(j))

Spec == Init /\ [][Next]_vars

(* Goroutines run, handlers return and stop timeouts expire; nothing makes *)
(* a client, a command, a signal or a job's timer come.                    *)
Fairness ==
    /\ WF_vars(Alive /\ AppStep)
    /\ WF_vars(Alive /\ ServerStep)
    /\ WF_vars(Alive /\ ServerTimeout)
    /\ \A c \in Conns : WF_vars(Alive /\ ConnStep(c))
    /\ WF_vars(Alive /\ JobStep)

FairSpec == Spec /\ Fairness

-----------------------------------------------------------------------------
(* Once somebody asked, the program ends, whatever clients, commands and   *)
(* jobs do (unless the wait group panics, see StopOutlivesJobs).           *)
ShutdownCompletes == (reason # "none") ~> ~Alive

(* A cancelled job ends and is recorded, however long its timer runs and   *)
(* whoever cancelled it: a request, a command, or Stop, also when they all *)
(* come together.                                                          *)
CancelTakesEffect == \A j \in Jobs : (j \in canceled) ~> (j \notin cancels \/ ~Alive)
=============================================================================
