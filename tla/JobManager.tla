----------------------------- MODULE JobManager -----------------------------
(***************************************************************************)
(* JobManager of examples/advanced-jobs/main.go: jobs, each a goroutine    *)
(* that waits for its timer or its context, the calls that start and       *)
(* cancel them, and the Stop of the component.  Each critical section of   *)
(* m.mu is one step.                                                       *)
(*                                                                         *)
(* sync.WaitGroup is external: a Wait that has slept panics if the counter *)
(* is not zero when it wakes up ("WaitGroup is reused before previous Wait *)
(* has returned").  StartJob returns *job without m.mu, a copy that races  *)
(* with run; nothing but the reply depends on it.                          *)
(***************************************************************************)
EXTENDS Integers, FiniteSets

CONSTANT MaxJobs  \* bound: jobs ever started

ASSUME JobsAssumption == MaxJobs \in Nat

Jobs == 1 .. MaxJobs

VARIABLES
    nextID,      \* m.nextID
    status,      \* of each job in m.jobs
    cancels,     \* the jobs in m.cancels
    canceled,    \* jobs still in m.cancels whose cancel has been called
    runtime,     \* the RuntimeContext, parent of them all, has ended
    run,         \* each job's goroutine
    wg,          \* m.wg's counter
    waiter,      \* the goroutine of Stop
    jobStop,     \* where Stop is, and what it returned
    early,       \* jobs started before that Stop
    panicked     \* the process is gone

jobVars == <<nextID, status, cancels, canceled, runtime, run, wg, waiter,
             jobStop, early, panicked>>

JobTypeOK ==
    /\ nextID \in 0 .. MaxJobs
    /\ status \in [Jobs -> {"none", "running", "completed", "canceled"}]
    /\ cancels \cup canceled \cup early \subseteq Jobs
    /\ run \in [Jobs -> {"none", "select", "completed", "canceled", "done", "gone"}]
    /\ wg \in Nat
    /\ waiter \in {"none", "called", "asleep", "woken", "closed"}
    /\ jobStop \in {"idle", "waiting", "nil", "expired"}
    /\ {runtime, panicked} \subseteq BOOLEAN

JobInit ==
    /\ nextID = 0
    /\ status = [j \in Jobs |-> "none"]
    /\ cancels = {} /\ canceled = {} /\ runtime = FALSE
    /\ run = [j \in Jobs |-> "none"]
    /\ wg = 0 /\ waiter = "none" /\ jobStop = "idle" /\ early = {}
    /\ panicked = FALSE

-----------------------------------------------------------------------------
(* mutant: the wait group is left to the goroutine.                        *)
StartJobUncounted ==
    /\ nextID < MaxJobs
    /\ nextID' = nextID + 1
    /\ status' = [status EXCEPT ![nextID'] = "running"]
    /\ cancels' = cancels \cup {nextID'}
    /\ run' = [run EXCEPT ![nextID'] = "select"]
    /\ UNCHANGED <<canceled, runtime, wg, waiter, jobStop, early, panicked>>

(* StartJob: the job is registered, counted and set going.                 *)
StartJob ==
    /\ nextID < MaxJobs
    /\ nextID' = nextID + 1
    /\ status' = [status EXCEPT ![nextID'] = "running"]
    /\ cancels' = cancels \cup {nextID'}
    /\ run' = [run EXCEPT ![nextID'] = "select"]
    /\ wg' = wg + 1
    /\ UNCHANGED <<canceled, runtime, waiter, jobStop, early, panicked>>

(* CancelJob; without an entry in m.cancels it returns false.  The lock is *)
(* given up before cancel is called, which makes no difference to a job    *)
(* that has ended.                                                         *)
CancelJob(j) ==
    /\ canceled' = IF j \in cancels THEN canceled \cup {j} ELSE canceled
    /\ UNCHANGED <<nextID, status, cancels, runtime, run, wg, waiter, jobStop,
                   early, panicked>>

(* mutant: the goroutine looks at its own context only before it sleeps.   *)
RunDeaf(j) == FALSE

(* run's select: the timer, or the context; either if both are ready.      *)
RunTimer(j) ==
    /\ run[j] = "select"
    /\ run' = [run EXCEPT ![j] = "completed"]
    /\ UNCHANGED <<nextID, status, cancels, canceled, runtime, wg, waiter,
                   jobStop, early, panicked>>

RunCanceled(j) ==
    /\ run[j] = "select"
    /\ j \in canceled \/ runtime
    /\ run' = [run EXCEPT ![j] = "canceled"]
    /\ UNCHANGED <<nextID, status, cancels, canceled, runtime, wg, waiter,
                   jobStop, early, panicked>>

(* The outcome is recorded under m.mu.                                     *)
RunRecords(j) ==
    /\ run[j] \in {"completed", "canceled"}
    /\ status' = [status EXCEPT ![j] = run[j]]
    /\ cancels' = cancels \ {j}
    /\ canceled' = canceled \ {j}
    /\ run' = [run EXCEPT ![j] = "done"]
    /\ UNCHANGED <<nextID, runtime, wg, waiter, jobStop, early, panicked>>

(* The deferred m.wg.Done().                                               *)
RunDone(j) ==
    /\ run[j] = "done"
    /\ run' = [run EXCEPT ![j] = "gone"]
    /\ wg' = wg - 1
    /\ waiter' = IF waiter = "asleep" /\ wg' = 0 THEN "woken" ELSE waiter
    /\ UNCHANGED <<nextID, status, cancels, canceled, runtime, jobStop, early,
                   panicked>>

-----------------------------------------------------------------------------
(* Stop cancels every job there is and waits in a goroutine.               *)
JobStopBegin ==
    /\ jobStop = "idle"
    /\ canceled' = canceled \cup cancels
    /\ early' = {j \in Jobs : status[j] # "none"}
    /\ jobStop' = "waiting"
    /\ waiter' = "called"
    /\ UNCHANGED <<nextID, status, cancels, runtime, run, wg, panicked>>

(* m.wg.Wait() and close(done).                                            *)
WaiterCalls ==
    /\ waiter = "called"
    /\ waiter' = IF wg = 0 THEN "closed" ELSE "asleep"
    /\ UNCHANGED <<nextID, status, cancels, canceled, runtime, run, wg, jobStop,
                   early, panicked>>

WaiterWakes ==
    /\ waiter = "woken"
    /\ waiter' = "closed"
    /\ panicked' = (wg # 0)
    /\ UNCHANGED <<nextID, status, cancels, canceled, runtime, run, wg, jobStop,
                   early>>

(* mutant: Stop does not look at its context.                              *)
JobStopDeaf ==
    /\ jobStop = "waiting"
    /\ waiter = "closed"
    /\ jobStop' = "nil"
    /\ UNCHANGED <<nextID, status, cancels, canceled, runtime, run, wg, waiter,
                   early, panicked>>

(* The select of Stop: done, or its context, which has a deadline.         *)
JobStopReturns ==
    /\ jobStop = "waiting"
    /\ \/ waiter = "closed" /\ jobStop' = "nil"
       \/ jobStop' = "expired"
    /\ UNCHANGED <<nextID, status, cancels, canceled, runtime, run, wg, waiter,
                   early, panicked>>

(* go-app ends the RuntimeContext.                                         *)
RuntimeEnds ==
    /\ ~runtime
    /\ runtime' = TRUE
    /\ UNCHANGED <<nextID, status, cancels, canceled, run, wg, waiter, jobStop,
                   early, panicked>>

RunStep(j) == RunTimer(j) \/ RunCanceled(j) \/ RunRecords(j) \/ RunDone(j)

WaiterStep == WaiterCalls \/ WaiterWakes

-----------------------------------------------------------------------------
(* A Stop that returned nil has outlived every job started before it, with *)
(* its outcome recorded; and the program survives the wait unless a job is *)
(* started while Stop waits.  "JobManager owns job state and goroutine     *)
(* lifecycle" (README.md) is as much as that.                              *)
StopOutlivesJobs ==
    /\ jobStop = "nil" =>
         \A j \in early : run[j] = "gone" /\ status[j] \in {"completed", "canceled"}
    /\ panicked => nextID > Cardinality(early)
=============================================================================
