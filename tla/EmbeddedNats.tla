---------------------------- MODULE EmbeddedNats ----------------------------
(***************************************************************************)
(* embeddednats.Server (embeddednats/embeddednats.go): one Start at a time *)
(* runs a NATS server with a temporary JetStream directory; a goroutine    *)
(* per server waits for its end, removes the directory and reports an end  *)
(* nobody asked for; Stops overlap each other and Start, and each may give *)
(* up waiting.  The NATS server itself is external: it starts, may stop by *)
(* itself, and shuts down when told to.                                    *)
(*                                                                         *)
(* A run is one runningServer with its directory; runs are numbered.  The  *)
(* names carry the prefix Nats so that one module can extend this one and  *)
(* EventBus.                                                               *)
(***************************************************************************)
EXTENDS Integers

CONSTANTS
    Stops,       \* goroutines that call Stop
    MaxRuns,     \* bound: servers ever created
    MaxFailures  \* bound: the runs up to this one may fail to remove theirs

ASSUME RunsAssumption == MaxRuns \in Nat
ASSUME FailuresAssumption == MaxFailures \in Nat

NoRun == 0
Runs == 1 .. MaxRuns

VARIABLES
    running,   \* s.running
    starter,   \* where Start is; s.starting unless "idle"
    created,   \* servers created so far; Start works on the last one
    nats,      \* each NATS server: "none", "up", "down"
    dir,       \* runs whose temporary directory exists
    stopErr,   \* runs whose directory could not be removed
    stopping,  \* runs with stopping set; stopOnce has then run Shutdown
    watcher,   \* the goroutine running waitForShutdown, per run
    requested, \* runs whose end made it call requestShutdown
    stop,      \* where each Stop is
    waitsFor,  \* the run each Stop waits for
    stopped,   \* runs some Stop has reported as ended
    selfEnded  \* runs whose server ended before any Stop of it began

natsVars == <<running, starter, created, nats, dir, stopErr, stopping, watcher,
          requested, stop, waitsFor, stopped, selfEnded>>

NatsTypeOK ==
    /\ running \in Runs \cup {NoRun}
    /\ starter \in {"idle", "creating", "readying", "failing", "publishing",
                    "ending"}
    /\ created \in 0 .. MaxRuns
    /\ nats \in [Runs -> {"none", "up", "down"}]
    /\ dir \subseteq Runs
    /\ stopErr \subseteq dir
    /\ stopping \subseteq Runs
    /\ watcher \in [Runs -> {"none", "waiting", "cleaned", "deciding", "gone"}]
    /\ requested \subseteq Runs
    /\ stop \in [Stops -> {"idle", "waiting", "clearing"}]
    /\ waitsFor \in [Stops -> Runs \cup {NoRun}]
    /\ stopped \subseteq Runs
    /\ selfEnded \subseteq Runs

NatsInit ==
    /\ running = NoRun
    /\ starter = "idle"
    /\ created = 0
    /\ nats = [n \in Runs |-> "none"]
    /\ dir = {}
    /\ stopErr = {}
    /\ stopping = {}
    /\ watcher = [n \in Runs |-> "none"]
    /\ requested = {}
    /\ stop = [p \in Stops |-> "idle"]
    /\ waitsFor = [p \in Stops |-> NoRun]
    /\ stopped = {}
    /\ selfEnded = {}

stopVars == <<stop, waitsFor, stopped>>
runVars == <<nats, dir, stopErr, stopping, watcher, requested, selfEnded>>

(* running.done is closed.                                                 *)
Done(n) == watcher[n] \in {"cleaned", "deciding", "gone"}

-----------------------------------------------------------------------------
(* Start: the locked test of s.starting and s.running.                     *)
StartBegin ==
    /\ starter = "idle"
    /\ running = NoRun
    /\ starter' = "creating"
    /\ UNCHANGED <<running, created, runVars, stopVars>>

(* The directory is made and the server started, or NewServer fails and    *)
(* the directory, if made, is removed: a removal that fails is returned.   *)
StartCreate ==
    /\ starter = "creating"
    /\ created < MaxRuns
    /\ created' = created + 1
    /\ dir' = dir \cup {created'}
    /\ \/ /\ nats' = [nats EXCEPT ![created'] = "up"]
          /\ starter' = "readying"
       \/ /\ nats' = nats
          /\ starter' = "failing"
    /\ UNCHANGED <<running, stopErr, stopping, watcher, requested, stopVars, selfEnded>>

(* MkdirTemp fails.                                                        *)
StartNoDir ==
    /\ starter = "creating"
    /\ starter' = "ending"
    /\ UNCHANGED <<running, created, runVars, stopVars>>

(* ReadyForConnections: not ready in time shuts the server down again.     *)
StartReady ==
    /\ starter = "readying"
    /\ \/ starter' = "publishing" /\ UNCHANGED nats
       \/ starter' = "failing" /\ nats' = [nats EXCEPT ![created] = "down"]
    /\ UNCHANGED <<running, created, dir, stopErr, stopping, watcher,
                   requested, stopVars, selfEnded>>

(* mutant: a failed Start leaves its directory behind.                     *)
StartFailLeaving ==
    /\ starter = "failing"
    /\ starter' = "ending"
    /\ UNCHANGED <<running, created, runVars, stopVars>>

(* removeTempDir on Start's error paths.                                   *)
StartFail ==
    /\ starter = "failing"
    /\ starter' = "ending"
    /\ \/ dir' = dir \ {created} /\ UNCHANGED stopErr
       \/ created <= MaxFailures /\ stopErr' = stopErr \cup {created}
             /\ UNCHANGED dir
    /\ UNCHANGED <<running, created, nats, stopping, watcher, requested,
                   stopVars, selfEnded>>

(* s.running = running, and the goroutine is started.                      *)
StartPublish ==
    /\ starter = "publishing"
    /\ running' = created
    /\ watcher' = [watcher EXCEPT ![created] = "waiting"]
    /\ starter' = "ending"
    /\ UNCHANGED <<created, nats, dir, stopErr, stopping, requested, stopVars, selfEnded>>

(* The deferred s.starting = false.                                        *)
StartEnd ==
    /\ starter = "ending"
    /\ starter' = "idle"
    /\ UNCHANGED <<running, created, runVars, stopVars>>

(* The NATS server ends by itself or because Shutdown was called.          *)
NatsEnds(n) ==
    /\ nats[n] = "up"
    /\ nats' = [nats EXCEPT ![n] = "down"]
    /\ selfEnded' = IF n \in stopping THEN selfEnded ELSE selfEnded \cup {n}
    /\ UNCHANGED <<running, starter, created, dir, stopErr, stopping, watcher,
                   requested, stopVars>>

(* waitForShutdown: the directory is removed, then done is closed.         *)
WatchClean(n) ==
    /\ watcher[n] = "waiting"
    /\ nats[n] = "down"
    /\ \/ dir' = dir \ {n} /\ UNCHANGED stopErr
       \/ n <= MaxFailures /\ stopErr' = stopErr \cup {n} /\ UNCHANGED dir
    /\ watcher' = [watcher EXCEPT ![n] = "cleaned"]
    /\ UNCHANGED <<running, starter, created, nats, stopping, requested,
                   stopVars, selfEnded>>

(* mutant: every end is reported, also one that Stop asked for.            *)
WatchReportAll(n) ==
    /\ watcher[n] = "cleaned"
    /\ watcher' = [watcher EXCEPT ![n] = "deciding"]
    /\ UNCHANGED <<running, starter, created, nats, dir, stopErr, stopping,
                   requested, stopVars, selfEnded>>

(* mutant: the test of running.stopping is inverted.                       *)
WatchDecideInverted(n) ==
    /\ watcher[n] = "cleaned"
    /\ watcher' = [watcher EXCEPT ![n] =
          IF running = n /\ n \in stopping THEN "deciding" ELSE "gone"]
    /\ UNCHANGED <<running, starter, created, nats, dir, stopErr, stopping,
                   requested, stopVars, selfEnded>>

(* The locked test whether anybody asked for the end.                      *)
WatchDecide(n) ==
    /\ watcher[n] = "cleaned"
    /\ watcher' = [watcher EXCEPT ![n] =
          IF running = n /\ n \notin stopping THEN "deciding" ELSE "gone"]
    /\ UNCHANGED <<running, starter, created, nats, dir, stopErr, stopping,
                   requested, stopVars, selfEnded>>

(* requestShutdown, after the lock was given back.                         *)
WatchReport(n) ==
    /\ watcher[n] = "deciding"
    /\ watcher' = [watcher EXCEPT ![n] = "gone"]
    /\ requested' = requested \cup {n}
    /\ UNCHANGED <<running, starter, created, nats, dir, stopErr, stopping,
                   stopVars, selfEnded>>

(* Stop's locked part: mark the run, have Shutdown run once, wait.  With   *)
(* nothing running, also while Start is under way, Stop returns nil.       *)
StopBegin(p) ==
    /\ stop[p] = "idle"
    /\ running # NoRun
    /\ stopping' = stopping \cup {running}
    /\ stop' = [stop EXCEPT ![p] = "waiting"]
    /\ waitsFor' = [waitsFor EXCEPT ![p] = running]
    /\ UNCHANGED <<running, starter, created, nats, dir, stopErr, watcher,
                   requested, stopped, selfEnded>>

(* Stop's select: done, ...                                                *)
StopSees(p) ==
    /\ stop[p] = "waiting"
    /\ Done(waitsFor[p])
    /\ stop' = [stop EXCEPT ![p] = "clearing"]
    /\ UNCHANGED <<running, starter, created, runVars, waitsFor, stopped>>

(* ... or the end of the caller's context.                                 *)
StopExpire(p) ==
    /\ stop[p] = "waiting"
    /\ stop' = [stop EXCEPT ![p] = "idle"]
    /\ waitsFor' = [waitsFor EXCEPT ![p] = NoRun]
    /\ UNCHANGED <<running, starter, created, runVars, stopped>>

(* mutant: Stop clears s.running without asking whose it is.               *)
StopClearAny(p) ==
    /\ stop[p] = "clearing"
    /\ running' = NoRun
    /\ stopped' = stopped \cup {waitsFor[p]}
    /\ stop' = [stop EXCEPT ![p] = "idle"]
    /\ waitsFor' = [waitsFor EXCEPT ![p] = NoRun]
    /\ UNCHANGED <<starter, created, runVars>>

(* After done: s.running is cleared if it is still this run.               *)
StopClear(p) ==
    /\ stop[p] = "clearing"
    /\ running' = IF running = waitsFor[p] THEN NoRun ELSE running
    /\ stopped' = stopped \cup {waitsFor[p]}
    /\ stop' = [stop EXCEPT ![p] = "idle"]
    /\ waitsFor' = [waitsFor EXCEPT ![p] = NoRun]
    /\ UNCHANGED <<starter, created, runVars>>

NatsNext ==
    \/ StartBegin
    \/ StartCreate
    \/ StartNoDir
    \/ StartReady
    \/ StartFail
    \/ StartPublish
    \/ StartEnd
    \/ \E n \in Runs : NatsEnds(n) \/ WatchClean(n) \/ WatchDecide(n) \/ WatchReport(n)
    \/ \E p \in Stops : StopBegin(p) \/ StopSees(p) \/ StopExpire(p) \/ StopClear(p)

NatsSpec == NatsInit /\ [][NatsNext]_natsVars

(* Start finishes, a NATS server told to shut down does, and goroutines    *)
(* run; nothing forces anybody to call Stop or its context to end.         *)
NatsFairness ==
    /\ WF_natsVars(StartCreate \/ StartNoDir \/ StartReady \/ StartFail
               \/ StartPublish \/ StartEnd)
    /\ \A n \in Runs :
          /\ WF_natsVars(n \in stopping /\ NatsEnds(n))
          /\ WF_natsVars(WatchClean(n) \/ WatchDecide(n) \/ WatchReport(n))
    /\ \A p \in Stops : WF_natsVars(StopSees(p) \/ StopClear(p))

NatsFairSpec == NatsSpec /\ NatsFairness

-----------------------------------------------------------------------------
(* Start has created this run and not yet published or given it up.        *)
StartWorksOn(n) ==
    n = created /\ starter \in {"readying", "failing", "publishing"}

(* No NATS server is forgotten: one that is up is published in s.running,  *)
(* where Stop finds it, or Start is still working on it; so there is never *)
(* more than one, although Stops of an earlier run may still be returning. *)
NoServerForgotten ==
    \A n \in Runs : nats[n] = "up" =>
        running = n \/ StartWorksOn(n)

(* When Stop reports the end of a run, the server is down and its          *)
(* directory is gone, unless the removal failed and Stop returns that; and *)
(* no directory outlives its run in any other way.                         *)
StoppedIsCleaned ==
    /\ \A n \in stopped : nats[n] = "down" /\ (n \in dir => n \in stopErr)
    /\ \A n \in dir \ stopErr :
          nats[n] = "up" \/ watcher[n] = "waiting" \/ StartWorksOn(n)

(* The application is asked to shut down only for a run whose server ended *)
(* by itself, however its end and the Stops race.                          *)
NoFalseAlarm == requested \subseteq selfEnded

(* An end nobody asked for does not go unnoticed.                          *)
UnexpectedEndNoticed ==
    \A n \in Runs :
       (running = n /\ nats[n] = "down") ~> (n \in requested \cup stopping)

=============================================================================
